----------------------------- MODULE RouterLink -----------------------------
(***************************************************************************)
(* The host side of a routed interface (internal/hostnet/vrouter.go): the  *)
(* tap of a machine, the policy rules that name it, its addresses, routes  *)
(* and inbound limit, the traffic classes on the bind interface and the    *)
(* record of the tap's index under /run/kvm-network.                       *)
(*                                                                         *)
(* Two calls may work on the tap at a time: one of UpdateConf, which locks *)
(* the machine and machine:ifname/hostnet, and one of ConfigureHostNetwork *)
(* and DeconfigureHostNetwork, which lock ifname/hostnet. A call is a      *)
(* sequence of netlink requests and commands, any of which may fail, and   *)
(* the tap may go away between two of them. What the kernel drops with a   *)
(* link it drops with the tap; rules, classes and the record stay.         *)
(***************************************************************************)
EXTENDS Naturals, FiniteSets

CONSTANTS
    Addrs,      \* prefixes a scheme may have
    Wide,       \* those for which the host takes an address itself
    Refused,    \* those the code refuses (IPv6 longer than /64)
    MaxLimit,   \* largest limit
    MaxIndex,   \* number of taps that are ever made
    MaxCalls    \* number of calls

ASSUME SchemeAssumption == /\ Wide \subseteq Addrs /\ Refused \subseteq Addrs \ Wide
                           /\ {MaxLimit, MaxIndex, MaxCalls} \subseteq Nat

VARIABLES
    link,     \* index of the tap, 0 if there is none
    made,     \* taps made so far
    rules,    \* rules with iif = the tap: families of blackholes, prefixes
    addrs,    \* addresses on the tap, named by their prefix
    routes,   \* routes through the tap
    inLimit,  \* rate of the tap's root qdisc, 0 if there is none
    classes,  \* rate of the class of each index on the bind interface
    record,   \* index in /run/kvm-network/<tap>, 0 if there is no file
    call,     \* the running calls
    answer,   \* the last call and how it ended
    calls     \* calls made

kernel == <<link, made, rules, addrs, routes, inLimit, classes, record>>
routerVars == <<kernel, call, answer, calls>>

Callers == {"conf", "net"}   \* UpdateConf; ConfigureHostNetwork and DeconfigureHostNetwork
Blackholes == {"inet", "inet6"}
Limits == 0..MaxLimit
Indexes == 1..MaxIndex

\* A call is clean while no other has run beside it, and no request of a removal has
\* failed. A removal is next to the configuration that was answered just before it.
Idle == [op |-> "none", pc |-> "idle", index |-> 0, in |-> 0, out |-> 0,
         at |-> 0, todo |-> {}, cur |-> {}, asked |-> {}, clean |-> FALSE, next |-> FALSE]
NoAnswer == [op |-> "none", ok |-> FALSE, why |-> "none", index |-> 0,
             in |-> 0, out |-> 0, asked |-> {}, clean |-> FALSE, next |-> FALSE]

RouterInit ==
    /\ link = 0 /\ made = 0 /\ rules = {} /\ addrs = {} /\ routes = {}
    /\ inLimit = 0 /\ classes = [i \in Indexes |-> 0] /\ record = 0
    /\ call = [c \in Callers |-> Idle] /\ answer = NoAnswer /\ calls = 0

(***************************************************************************)
(* QEMU makes the tap and drops it when it ends (external).                *)
(***************************************************************************)
TapAppears ==
    /\ link = 0 /\ made < MaxIndex
    /\ made' = made + 1 /\ link' = made + 1
    /\ answer' = NoAnswer
    /\ UNCHANGED <<rules, addrs, routes, inLimit, classes, record, call, calls>>

TapGoes ==
    /\ link # 0
    /\ link' = 0 /\ addrs' = {} /\ routes' = {} /\ inLimit' = 0
    /\ answer' = NoAnswer
    /\ UNCHANGED <<made, rules, classes, record, call, calls>>

(***************************************************************************)
(* The calls and their ends                                                *)
(***************************************************************************)
CallAt(c, pc) == call[c].pc = pc

Begin(c, op, pc, in, out, as) ==
    /\ CallAt(c, "idle") /\ calls < MaxCalls
    /\ call' = [d \in Callers |->
                   IF d # c THEN [call[d] EXCEPT !.clean = FALSE]
                   ELSE [op |-> op, pc |-> pc, index |-> 0, in |-> in, out |-> out, at |-> 0, todo |-> as,
                         cur |-> {}, asked |-> as, clean |-> \A e \in Callers : CallAt(e, "idle"),
                         next |-> op = "deconfigure" /\ answer.op = "configure" /\ answer.ok]]
    /\ calls' = calls + 1
    /\ answer' = NoAnswer
    /\ UNCHANGED kernel

End(c, ok, why) ==
    /\ call' = [call EXCEPT ![c] = Idle]
    /\ answer' = [op |-> call[c].op, ok |-> ok, why |-> why, index |-> call[c].index, in |-> call[c].in,
                  out |-> call[c].out, asked |-> call[c].asked, clean |-> call[c].clean,
                  next |-> call[c].next]

\* A call goes on, as k.
Goes(c, k) == call' = [call EXCEPT ![c] = k] /\ UNCHANGED answer
Goto(c, pc) == Goes(c, [call[c] EXCEPT !.pc = pc])

\* Both stages or the first; and what may also be the second stage, or a change of
\* a scheme that is applied.
RouterConfigure ==
    \E op \in {"configure", "first"}, in, out \in Limits, as \in SUBSET Addrs :
        Begin("net", op, "link", in, out, as)
RouterConfigureAddrs(c) == \E as \in SUBSET Addrs : Begin(c, "addrs", "addrs", 0, 0, as)
RouterSetInboundLimits == \E in \in Limits : Begin("conf", "inbound", "in", in, 0, {})
RouterSetOutboundLimits == \E out \in Limits : Begin("conf", "outbound", "link", 0, out, {})
RouterDeconfigure == Begin("net", "deconfigure", "unrule", 0, 0, {})

\* Mutant: an error of the inbound limit is not fatal either
StepFailsUnnoticed(c) ==
    /\ call[c].pc \in {"in", "cgroup"}
    /\ Goto(c, "addrs")
    /\ UNCHANGED <<kernel, calls>>

\* A request to the kernel fails, or its command does. An error of the cgroup is
\* not fatal to a configuration: its first stage ends, without the record.
StepFails(c) ==
    /\ call[c].pc \in {"link", "inet", "inet6", "in", "out", "cgroup", "record",
                       "addrs", "addr", "route", "rule"}
    /\ CASE CallAt(c, "cgroup") /\ call[c].op = "configure" -> Goto(c, "addrs")
         [] CallAt(c, "cgroup") /\ call[c].op = "first" -> End(c, TRUE, "none")
         [] OTHER -> End(c, FALSE, "failed")
    /\ UNCHANGED <<kernel, calls>>

(***************************************************************************)
(* First stage: RouterConfigureInterface                                   *)
(***************************************************************************)
FindLink(c) ==
    /\ CallAt(c, "link")
    /\ IF link = 0
         THEN End(c, FALSE, "no link")
         ELSE Goes(c, [call[c] EXCEPT !.index = link, !.pc = IF call[c].op = "outbound" THEN "out" ELSE "inet"])
    /\ UNCHANGED <<kernel, calls>>

routerCreateBlackholeRules(c, family) ==
    /\ CallAt(c, family)
    /\ IF family \in rules
         THEN End(c, FALSE, "exists") /\ UNCHANGED rules
         ELSE Goto(c, IF family = "inet" THEN "inet6" ELSE "in") /\ rules' = rules \cup {family}
    /\ UNCHANGED <<link, made, addrs, routes, inLimit, classes, record, calls>>

routerSetInboundLimits(c) ==
    /\ CallAt(c, "in")
    /\ IF link = 0 /\ call[c].in > 0
         THEN End(c, FALSE, "no link") /\ UNCHANGED inLimit
         ELSE /\ inLimit' = IF link = 0 THEN 0 ELSE call[c].in
              /\ IF call[c].op = "inbound" THEN End(c, TRUE, "none") ELSE Goto(c, "out")
    /\ UNCHANGED <<link, made, rules, addrs, routes, classes, record, calls>>

routerSetOutboundLimits(c) ==
    /\ CallAt(c, "out")
    /\ classes' = [classes EXCEPT ![call[c].index] = call[c].out]
    /\ Goto(c, IF call[c].out > 0 THEN "cgroup" ELSE "record")
    /\ UNCHANGED <<link, made, rules, addrs, routes, inLimit, record, calls>>

SetNetClassID(c) ==
    /\ CallAt(c, "cgroup")
    /\ Goto(c, "record")
    /\ UNCHANGED <<kernel, calls>>

\* The end of routerSetOutboundLimits, and in RouterConfigureInterface the record.
WriteRecord(c) ==
    /\ CallAt(c, "record")
    /\ record' = IF call[c].op = "outbound" THEN record ELSE call[c].index
    /\ IF call[c].op = "configure" THEN Goto(c, "addrs") ELSE End(c, TRUE, "none")
    /\ UNCHANGED <<link, made, rules, addrs, routes, inLimit, classes, calls>>

(***************************************************************************)
(* Second stage: RouterConfigureAddrs, one prefix after the other          *)
(***************************************************************************)
FindLinkAgain(c) ==
    /\ CallAt(c, "addrs")
    /\ IF link = 0
         THEN End(c, FALSE, "no link")
         ELSE Goes(c, [call[c] EXCEPT !.pc = "addr", !.at = link])
    /\ UNCHANGED <<kernel, calls>>

\* routerAddRoute up to AddrAdd; the order of the prefixes is that of a map.
AddAddr(c, a) ==
    /\ CallAt(c, "addr") /\ a \in call[c].todo
    /\ CASE a \in Refused -> End(c, FALSE, "refused") /\ UNCHANGED addrs
         [] a \in Wide /\ link # call[c].at -> End(c, FALSE, "no link") /\ UNCHANGED addrs
         [] a \in addrs -> End(c, FALSE, "exists") /\ UNCHANGED addrs
         [] OTHER -> /\ Goes(c, [call[c] EXCEPT !.pc = "route", !.todo = @ \ {a}, !.cur = {a}])
                     /\ addrs' = addrs \cup ({a} \cap Wide)
    /\ UNCHANGED <<link, made, rules, routes, inLimit, classes, record, calls>>

\* RouteReplace, the rest of routerAddRoute.
AddRoute(c) ==
    /\ CallAt(c, "route")
    /\ IF link # call[c].at
         THEN End(c, FALSE, "no link") /\ UNCHANGED routes
         ELSE Goto(c, "rule") /\ routes' = routes \cup call[c].cur
    /\ UNCHANGED <<link, made, rules, addrs, inLimit, classes, record, calls>>

\* The rule has the name of the tap, not its index.
routerAddRule(c) ==
    /\ CallAt(c, "rule")
    /\ IF call[c].cur \subseteq rules
         THEN End(c, FALSE, "exists") /\ UNCHANGED rules
         ELSE Goto(c, "addr") /\ rules' = rules \cup call[c].cur
    /\ UNCHANGED <<link, made, addrs, routes, inLimit, classes, record, calls>>

\* All prefixes are configured; the gateways are announced in the background.
routerAnnounceGateways(c) ==
    /\ CallAt(c, "addr") /\ call[c].todo = {}
    /\ End(c, TRUE, "none")
    /\ UNCHANGED <<kernel, calls>>

(***************************************************************************)
(* RouterDeconfigure passes over the errors of its requests, and over what *)
(* they have left; only a record that it cannot read ends it with one.     *)
(***************************************************************************)
Unless(left, pc) == Goes("net", [call["net"] EXCEPT !.pc = pc, !.clean = @ /\ ~left])

RemoveRules ==
    /\ CallAt("net", "unrule")
    /\ \E left \in SUBSET (rules \ {"inet6"}) :
          rules' = left \cup (rules \cap {"inet6"}) /\ Unless(left # {}, "unrule6")
    /\ UNCHANGED <<link, made, addrs, routes, inLimit, classes, record, calls>>

routerRemoveBlackholeRulesV6 ==
    /\ CallAt("net", "unrule6")
    /\ \E left \in BOOLEAN : /\ rules' = IF left THEN rules ELSE rules \ {"inet6"}
                            /\ Unless(left, "unlink")
    /\ UNCHANGED <<link, made, addrs, routes, inLimit, classes, record, calls>>

RemoveAddrs ==
    /\ CallAt("net", "unlink")
    /\ addrs' \in SUBSET addrs /\ routes' \in SUBSET routes /\ inLimit' \in {0, inLimit}
    /\ Unless(addrs' # {} \/ routes' # {} \/ inLimit' # 0, "unclass")
    /\ UNCHANGED <<link, made, rules, classes, record, calls>>

RemoveClass ==
    /\ CallAt("net", "unclass")
    /\ \/ End("net", FALSE, "failed") /\ UNCHANGED classes
       \/ record = 0 /\ End("net", TRUE, "none") /\ UNCHANGED classes
       \/ /\ record # 0
          /\ \E left \in BOOLEAN : /\ classes' = IF left THEN classes ELSE [classes EXCEPT ![record] = 0]
                                  /\ Unless(left, "unrecord")
    /\ UNCHANGED <<link, made, rules, addrs, routes, inLimit, record, calls>>

RemoveRecord ==
    /\ CallAt("net", "unrecord")
    /\ record' \in {0, record}
    /\ End("net", TRUE, "none")
    /\ UNCHANGED <<link, made, rules, addrs, routes, inLimit, classes, calls>>

RouterNext ==
    \/ TapAppears \/ TapGoes
    \/ RouterConfigure \/ RouterDeconfigure \/ RouterSetInboundLimits \/ RouterSetOutboundLimits
    \/ \E c \in Callers :
          \/ RouterConfigureAddrs(c) \/ StepFails(c) \/ FindLink(c)
          \/ \E f \in Blackholes : routerCreateBlackholeRules(c, f)
          \/ routerSetInboundLimits(c) \/ routerSetOutboundLimits(c) \/ SetNetClassID(c) \/ WriteRecord(c)
          \/ FindLinkAgain(c) \/ (\E a \in Addrs : AddAddr(c, a)) \/ AddRoute(c) \/ routerAddRule(c)
          \/ routerAnnounceGateways(c)
    \/ RemoveRules \/ routerRemoveBlackholeRulesV6 \/ RemoveAddrs \/ RemoveClass \/ RemoveRecord

RouterSpec == RouterInit /\ [][RouterNext]_routerVars

(***************************************************************************)
(* Properties                                                              *)
(***************************************************************************)
\* Every part of the host's state has its type (vrouter.go keeps none of it).
RouterTypeOK ==
    /\ link \in 0..made /\ made \in 0..MaxIndex
    /\ rules \subseteq Blackholes \cup Addrs
    /\ addrs \subseteq Wide /\ routes \subseteq Addrs
    /\ inLimit \in Limits /\ classes \in [Indexes -> Limits]
    /\ record \in 0..made /\ calls \in 0..MaxCalls
    /\ \A c \in Callers : /\ call[c].todo \subseteq Addrs /\ call[c].cur \subseteq Addrs
                         /\ CallAt(c, "idle") => call[c] = Idle

\* When the configuration of a routed interface was answered without an error
\* and its tap is still there, the tap has the blackholes and, for every
\* prefix, its rule, its route and its address, also if an update was applied
\* meanwhile; and if none was, the limit that was asked for, and a class on the
\* bind interface exactly if there is an outbound limit: no failure on the way is
\* passed over, whatever an earlier call left (RouterConfigure).
ConfiguredIsComplete ==
    answer.op = "configure" /\ answer.ok /\ answer.index = link /\ link # 0 =>
        /\ Blackholes \cup answer.asked \subseteq rules
        /\ answer.asked \subseteq routes
        /\ answer.asked \cap Wide \subseteq addrs
        /\ answer.clean => inLimit = answer.in /\ classes[link] = answer.out

\* When the removal was answered, no rule names the tap, and the tap, if it
\* is still there, has no address, route or limit: also when the tap went
\* before, and when the configuration had stopped half-way (RouterDeconfigure);
\* if no request of the removal failed and no update was applied meanwhile.
DeconfiguredIsQuiet ==
    answer.op = "deconfigure" /\ answer.ok /\ answer.clean =>
        rules = {} /\ addrs = {} /\ routes = {} /\ inLimit = 0

\* An answered configuration is on the tap with every address, route and rule, an
\* answered removal leaves none; the limits are the configuration's if no update
\* ran beside it (RouterConfigure, RouterDeconfigure).
LinkIsAsAsked ==
    /\ ConfiguredIsComplete
    /\ DeconfiguredIsQuiet

\* "Remove all TC rules" (vrouter.go:408): after a removal in which no request failed
\* the bind interface has no class of the machine's tap, if the call before it was the
\* configuration, and both were answered without an error and with no other beside them.
DeconfiguredHasNoClass ==
    answer.op = "deconfigure" /\ answer.ok /\ answer.clean /\ answer.next /\ made = 1 =>
        \A i \in Indexes : classes[i] = 0

\* Not promised: a removal is complete whatever runs beside it. An update of the
\* prefixes that is applied meanwhile leaves its own.
QuietWhateverElse ==
    answer.op = "deconfigure" /\ answer.ok => rules = {} /\ addrs = {} /\ routes = {}

\* "append new IPv4 or IPv6 address" (cmd/vnetctl/commands.go): applying the
\* prefixes of a scheme to a tap does not fail because one of them has been
\* applied already.
AppliesAgain == ~(answer.op = "addrs" /\ answer.why = "exists")
=============================================================================
