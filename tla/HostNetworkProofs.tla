-------------------------- MODULE HostNetworkProofs --------------------------
(***************************************************************************)
(* Proofs about the network of the host: a routed link, the ports of a     *)
(* bridge and the schemes in the file, for any number of links, taps,      *)
(* prefixes and calls.                                                     *)
(***************************************************************************)
EXTENDS NetworkSchemes, RouterLink, BridgePorts, TLAPS

(***************************************************************************)
(* RouterLink.  The argument: each request of a configuration leaves its   *)
(* part, and nobody takes it away again but a removal, which the locks     *)
(* keep out, or the end of the tap, after which no tap has the index that  *)
(* the call has found. An update beside it only adds rules, routes and     *)
(* addresses; what else it changes is not claimed then.                    *)
(***************************************************************************)
Prefixing   == {"addr", "route", "rule"}
AfterOut    == {"cgroup", "record", "addrs"} \cup Prefixing
AfterIn     == {"out"} \cup AfterOut
AfterRules  == {"in"} \cup AfterIn
RemovalPcs  == {"unrule", "unrule6", "unlink", "unclass", "unrecord"}
RouterPcs   == {"idle", "link", "inet", "inet6"} \cup AfterRules \cup RemovalPcs
ConfOps     == {"none", "addrs", "inbound", "outbound"}
RouterOps   == {"configure", "first", "deconfigure"} \cup ConfOps

Net  == call["net"]
Conf == call["conf"]

CallRecord == [op : RouterOps, pc : RouterPcs, index : Nat, in : Nat, out : Nat, at : Nat, todo : SUBSET Addrs,
               cur : SUBSET Addrs, asked : SUBSET Addrs, clean : BOOLEAN, next : BOOLEAN]
RouterTypes ==
    /\ call \in [Callers -> CallRecord] /\ classes \in [Indexes -> Nat]
    /\ link \in 0..made /\ made \in 0..MaxIndex
    /\ Net.index \in 0..made

\* Where a call can be: an update removes and configures nothing.
NetFits(k) ==
    /\ k.op = "deconfigure" <=> k.pc \in RemovalPcs
    /\ k.op = "configure" /\ k.pc # "link" => k.index # 0
OpsFit == NetFits(Net) /\ Conf.op \in ConfOps

\* A clean call runs alone, and a clean answer is the last thing that has happened. While
\* a configuration or a removal runs there is no answer of another.
Beside ==
    /\ Net.clean => Conf.pc = "idle"
    /\ Conf.clean => Net.pc = "idle"
    /\ answer.op # "none" /\ answer.clean => Net.pc = "idle" /\ Conf.pc = "idle"
    /\ Net.pc # "idle" => answer.op \in ConfOps

\* What a configuration k has made so far. The prefix it is working on is in cur.
Configuring(k) ==
    k.op = "configure" =>
        /\ k.pc \in {"inet6"} \cup AfterRules => "inet" \in rules
        /\ k.pc \in AfterRules => "inet6" \in rules
        /\ k.pc \in Prefixing => k.asked \ k.todo \subseteq rules \cup (IF k.pc = "addr" THEN {} ELSE k.cur)
        /\ k.pc \notin Prefixing => k.todo = k.asked
        /\ k.pc \in Prefixing /\ k.index = link /\ link # 0 =>
               /\ k.asked \ k.todo \subseteq routes \cup (IF k.pc = "route" THEN k.cur ELSE {})
               /\ (k.asked \ k.todo) \cap Wide \subseteq addrs
        /\ k.clean =>
               /\ k.pc \in AfterOut => classes[k.index] = k.out
               /\ k.pc \in AfterIn /\ k.index = link /\ link # 0 => inLimit = k.in

\* What a removal k has removed so far, if no request of it has failed.
Removing(k) ==
    k.op = "deconfigure" /\ k.clean =>
        /\ k.pc = "unrule6" => rules \subseteq {"inet6"}
        /\ k.pc \in {"unlink", "unclass", "unrecord"} => rules = {}
        /\ k.pc \in {"unclass", "unrecord"} => addrs = {} /\ routes = {} /\ inLimit = 0

RouterInv == /\ RouterTypes /\ OpsFit /\ Beside /\ Configuring(Net) /\ Removing(Net)
             /\ ConfiguredIsComplete /\ DeconfiguredIsQuiet

(***************************************************************************)
(* BridgePorts.  The argument: as long as calls do not overlap, what a     *)
(* call has seen is as it was.                                             *)
(***************************************************************************)
PortOps    == {"none", "vxlan", "unvxlan", "bridge", "unbridge"}
VxlanPcs   == {"find br", "add br", "find vx", "add vx", "vx in", "tap in", "tap up"}
UnvxlanPcs == {"del tap", "list", "del vx", "del br"}
Busy(t) == task[t].pc # "idle"

DeviceTypes ==
    /\ br \in 0..numbered /\ vx \in 0..numbered /\ numbered \in 0..MaxMade
    /\ vxIn \in {0, br} /\ (vx = 0 => vxIn = 0)
TapTypes ==
    /\ tap \in [Taps -> BOOLEAN] /\ in \in [Taps -> Nat]
    /\ \A t \in Taps : in[t] \in {0, br, HostBridge} /\ (in[t] # 0 => tap[t])
TaskType == [op : PortOps, pc : {"idle", "tap out"} \cup VxlanPcs \cup UnvxlanPcs, br : Nat, vx : Nat]
TaskTypes ==
    task \in [Taps -> TaskType] /\ outcome \in [Taps -> {"failed"} \cup PortOps] /\ raced \in BOOLEAN

\* Where each call can be.
Fits(k) ==
    \/ k.op = "none" /\ k.pc = "idle"
    \/ k.op = "vxlan" /\ k.pc \in VxlanPcs /\ (k.pc = "vx in" => k.vx # 0)
    \/ k.op = "bridge" /\ k.pc \in {"tap in", "tap up"}
    \/ k.op = "unvxlan" /\ k.pc \in UnvxlanPcs
    \/ k.op = "unbridge" /\ k.pc = "tap out"

\* A call that runs has no outcome yet.
PortPcs == \A t \in Taps : Fits(task[t]) /\ (Busy(t) => outcome[t] = "none")

Alone == ~raced => \A t, u \in Taps : Busy(t) /\ Busy(u) => t = u

\* What the call for a tap has seen or made.
Seen(t) ==
    /\ task[t].op = "vxlan" =>
           /\ task[t].pc \in {"find vx", "add vx", "vx in", "tap in", "tap up"} => task[t].br = br /\ br # 0
           /\ task[t].pc \in {"vx in", "tap in", "tap up"} => task[t].vx = vx /\ vx # 0
           /\ task[t].pc \in {"tap in", "tap up"} => vxIn = br
           /\ task[t].pc = "tap up" /\ tap[t] => in[t] = br
    /\ task[t].pc \in {"del vx", "del br"} =>
           task[t].br = br /\ \A u \in Taps : br # 0 => in[u] # br
    /\ task[t].pc = "del br" => vx = 0
SeenIsTrue == ~raced => \A t \in Taps : Seen(t)

PortInv == DeviceTypes /\ TapTypes /\ TaskTypes /\ PortPcs /\ Alone /\ SeenIsTrue /\ ConnectedUnlessRaced

(***************************************************************************)
(* NetworkSchemes.  The argument: a number that was written to the file    *)
(* comes back with another type, so only schemes without numbers reach the *)
(* host; and what a call has read is still in the file unless another call *)
(* came between.                                                           *)
(***************************************************************************)
Applying == {"apply in", "apply out", "apply addrs"}

\* The fields of the records, and where an update and a configuration can be.
SchemeShapes ==
    /\ host = [type |-> host.type, in |-> host.in, out |-> host.out, addrs |-> host.addrs]
    /\ conf = [op |-> conf.op, pc |-> conf.pc, scheme |-> conf.scheme, u |-> conf.u, apply |-> conf.apply]
    /\ net = [op |-> net.op, pc |-> net.pc, attrs |-> net.attrs]
    /\ reply = [conf |-> reply.conf, net |-> reply.net]
    /\ overlap \in BOOLEAN
CallsFit ==
    /\ conf.op = "update" => conf.u \in Updates /\ conf.pc \in {"update", "write"} \cup Applying
    /\ conf.pc \in {"update", "write"} \cup Applying => conf.op = "update"
    /\ net.pc \in {"first", "second"} => net.op = "configure"

\* The file is what was stored, unless a write has spoiled it; the call that writes
\* has read it, and the call that applies has written it. A change that was answered
\* is in it.
FileInv ==
    /\ file \in {stored, Spoiled}
    /\ conf.pc = "write" => file = stored /\ HasScheme /\ conf.scheme = Set(UnmarshalJSON(file), conf.u)
    /\ conf.pc \in Applying => file = stored /\ file.type = "routed"
    /\ conf.pc \in Applying /\ conf.u.in # Unset => file.attrs["in_limit"] = conf.u.in.v
    /\ reply.conf.ok => file = stored /\ conf.pc = "idle"

\* A call that runs alone is the only one that was not answered.
OneCall ==
    ~overlap => /\ conf.pc = "idle" \/ net.pc = "idle"
                /\ reply.conf.op # "none" \/ reply.net.op # "none" => conf.pc = "idle" /\ net.pc = "idle"

\* What the host has, and what the call that configures it has read.
HostTypes ==
    /\ host.type \in {"none", applied} /\ applied \in {"none", "routed", "bridge"}
    /\ net.pc \in {"first", "second", "undo"} => net.attrs.type \in {"routed", "bridge"}
HostInv ==
    /\ HostTypes
    /\ ~overlap /\ net.pc \in {"first", "second", "undo"} => net.attrs.type = file.type
    /\ ~overlap /\ conf.pc \in {"apply out", "apply addrs"} /\ conf.u.in # Unset => host.in = conf.u.in.v

SchemeInv ==
    SchemeShapes /\ CallsFit /\ FileInv /\ OneCall /\ HostInv /\ AppliedUnlessOverlapped /\ DeconfiguredUnlessChanged

(***************************************************************************)
(* Proofs for RouterLink.                                                  *)
(***************************************************************************)

\* One of the two calls becomes k.
LEMMA CallBecomes ==
    ASSUME RouterTypes, NEW k \in CallRecord
    PROVE  /\ call' = [call EXCEPT !["net"] = k] =>
                  call' \in [Callers -> CallRecord] /\ Net' = k /\ Conf' = Conf
           /\ call' = [call EXCEPT !["conf"] = k] =>
                  call' \in [Callers -> CallRecord] /\ Conf' = k /\ Net' = Net
<1>1. call \in [Callers -> CallRecord] /\ "net" \in Callers /\ "conf" \in Callers
  BY DEF RouterTypes, Callers
<1> QED
  BY <1>1 DEF Net, Conf

\* The records of the two calls.
LEMMA CallsAreRecords ==
    ASSUME RouterTypes
    PROVE  Net \in CallRecord /\ Conf \in CallRecord /\ Idle \in CallRecord /\ made \in Nat /\ MaxIndex \in Nat
<1>1. Net \in CallRecord /\ Conf \in CallRecord /\ made \in Nat /\ MaxIndex \in Nat
  BY SchemeAssumption DEF RouterTypes, Callers, Net, Conf
<1>2. Idle \in CallRecord
  BY DEF Idle, CallRecord, RouterOps, ConfOps, RouterPcs
<1> QED
  BY <1>1, <1>2

\* A request of the update: it takes nothing away that a configuration has made, and
\* nothing else is claimed while it runs.
LEMMA ConfMoves ==
    ASSUME RouterInv, Conf.pc # "idle", NEW k \in CallRecord, k.op \in ConfOps, k.clean => Conf.clean,
           call' = [call EXCEPT !["conf"] = k],
           UNCHANGED <<link, made>>, classes' \in [Indexes -> Nat],
           rules \subseteq rules', addrs \subseteq addrs', routes \subseteq routes',
           \/ UNCHANGED answer
           \/ answer'.op \in ConfOps /\ (answer'.clean => Conf.clean) /\ k.pc = "idle"
    PROVE  RouterInv'
<1>1. call' \in [Callers -> CallRecord] /\ Conf' = k /\ Net' = Net /\ Net.clean \in BOOLEAN
  BY CallBecomes, CallsAreRecords DEF RouterInv, CallRecord
<1>2. ~Net.clean /\ ~(answer.op # "none" /\ answer.clean)
  BY DEF RouterInv, Beside
<1>3. RouterTypes'
  BY <1>1 DEF RouterInv, RouterTypes
<1>4. OpsFit' /\ Beside'
  BY <1>1, <1>2 DEF RouterInv, OpsFit, NetFits, Beside
<1>5. Configuring(Net)' /\ Removing(Net)'
  BY <1>1, <1>2 DEF RouterInv, Configuring, Removing
<1>6. ConfiguredIsComplete' /\ DeconfiguredIsQuiet'
  BY <1>2 DEF RouterInv, ConfiguredIsComplete, DeconfiguredIsQuiet, ConfOps
<1> QED
  BY <1>3, <1>4, <1>5, <1>6 DEF RouterInv

\* A request of a configuration or a removal that goes on.
LEMMA NetMoves ==
    ASSUME RouterInv, Net.pc # "idle", NEW k \in CallRecord, k.pc # "idle", NetFits(k), k.index \in 0..made,
           k.clean => Net.clean, call' = [call EXCEPT !["net"] = k],
           UNCHANGED <<link, made, answer>>, classes' \in [Indexes -> Nat], Configuring(k)', Removing(k)'
    PROVE  RouterInv'
<1>1. call' \in [Callers -> CallRecord] /\ Net' = k /\ Conf' = Conf
  BY CallBecomes DEF RouterInv
<1>2. RouterTypes' /\ OpsFit' /\ Beside'
  BY <1>1 DEF RouterInv, RouterTypes, OpsFit, NetFits, Beside
<1>3. Configuring(Net)' /\ Removing(Net)'
  BY <1>1 DEF Configuring, Removing
<1>4. answer.op \in ConfOps
  BY DEF RouterInv, Beside
<1> QED
  BY <1>2, <1>3, <1>4 DEF RouterInv, ConfiguredIsComplete, DeconfiguredIsQuiet, ConfOps

\* A call that ends, and what its answer says.
LEMMA RouterCallEnds ==
    ASSUME RouterInv, NEW c \in Callers, call[c].pc # "idle", NEW ok \in BOOLEAN, NEW why, End(c, ok, why),
           UNCHANGED <<link, made>>, classes' \in [Indexes -> Nat],
           c = "conf" => rules \subseteq rules' /\ addrs \subseteq addrs' /\ routes \subseteq routes',
           c = "net" => ConfiguredIsComplete' /\ DeconfiguredIsQuiet'
    PROVE  RouterInv'
<1>1. /\ call' = [call EXCEPT ![c] = Idle]
      /\ answer' = [op |-> call[c].op, ok |-> ok, why |-> why, index |-> call[c].index, in |-> call[c].in,
                    out |-> call[c].out, asked |-> call[c].asked, clean |-> call[c].clean, next |-> call[c].next]
  BY DEF End
<1>2. Idle \in CallRecord /\ Idle.op = "none" /\ Idle.pc = "idle" /\ ~Idle.clean /\ Idle.index = 0
  BY CallsAreRecords DEF RouterInv, Idle
<1>3. CASE c = "conf"
  <2>1. answer'.op \in ConfOps /\ (answer'.clean => Conf.clean)
    BY <1>1, <1>3 DEF RouterInv, OpsFit, Conf
  <2>2. Conf.pc # "idle" /\ Idle.op \in ConfOps
    BY <1>2, <1>3 DEF Conf, ConfOps
  <2> QED
    BY <1>1, <1>2, <1>3, <2>1, <2>2, ConfMoves
<1>4. CASE c = "net"
  <2>1. call' \in [Callers -> CallRecord] /\ Net' = Idle /\ Conf' = Conf
    BY <1>1, <1>2, <1>4, CallBecomes DEF RouterInv
  <2>2. 0 \in 0..made /\ (answer'.clean => Net.clean)
    BY <1>1, <1>4, CallsAreRecords DEF RouterInv, Net
  <2>3. RouterTypes'
    BY <1>2, <2>1, <2>2 DEF RouterInv, RouterTypes
  <2>4. OpsFit'
    BY <1>2, <2>1 DEF RouterInv, OpsFit, NetFits, RemovalPcs
  <2>5. Beside'
    BY <1>2, <2>1, <2>2 DEF RouterInv, Beside
  <2>6. Configuring(Net)' /\ Removing(Net)'
    BY <1>2, <2>1 DEF Configuring, Removing
  <2> QED
    BY <1>4, <2>3, <2>4, <2>5, <2>6 DEF RouterInv
<1> QED
  BY <1>3, <1>4 DEF Callers

\* A call that ends with an error has changed nothing in its last step.
LEMMA FailKeeps ==
    ASSUME RouterInv, NEW c \in Callers, call[c].pc # "idle", NEW why, End(c, FALSE, why), UNCHANGED kernel
    PROVE  RouterInv'
<1>1. UNCHANGED <<link, made, rules, addrs, routes, classes>> /\ answer'.ok = FALSE
  BY DEF kernel, End
<1>2. classes' \in [Indexes -> Nat] /\ ConfiguredIsComplete' /\ DeconfiguredIsQuiet'
  BY <1>1 DEF RouterInv, RouterTypes, ConfiguredIsComplete, DeconfiguredIsQuiet
<1> QED
  BY <1>1, <1>2, RouterCallEnds

\* A call that ends without an error, and is no configuration and no removal.
LEMMA ShortCallEnds ==
    ASSUME RouterInv, NEW c \in Callers, call[c].pc # "idle", End(c, TRUE, "none"),
           call[c].op \notin {"configure", "deconfigure"}, UNCHANGED <<link, made, rules, addrs, routes, classes>>
    PROVE  RouterInv'
<1>1. answer'.op = call[c].op
  BY DEF End
<1>2. classes' \in [Indexes -> Nat] /\ ConfiguredIsComplete' /\ DeconfiguredIsQuiet'
  BY <1>1 DEF RouterInv, RouterTypes, ConfiguredIsComplete, DeconfiguredIsQuiet
<1> QED
  BY <1>2, RouterCallEnds

\* The update goes on.
LEMMA ConfGoes ==
    ASSUME RouterInv, Conf.pc # "idle", NEW k \in CallRecord, k.op = Conf.op, k.clean = Conf.clean,
           Goes("conf", k), UNCHANGED <<link, made>>, classes' \in [Indexes -> Nat],
           rules \subseteq rules', addrs \subseteq addrs', routes \subseteq routes'
    PROVE  RouterInv'
<1>1. call' = [call EXCEPT !["conf"] = k] /\ UNCHANGED answer
  BY DEF Goes
<1>2. Conf.op \in ConfOps
  BY DEF RouterInv, OpsFit
<1> QED
  BY <1>1, <1>2, ConfMoves

\* The update goes on with its next request.
LEMMA ConfGoto ==
    ASSUME RouterInv, Conf.pc # "idle", NEW pc \in RouterPcs, Goto("conf", pc), UNCHANGED <<link, made>>,
           classes' \in [Indexes -> Nat], rules \subseteq rules', addrs \subseteq addrs', routes \subseteq routes'
    PROVE  RouterInv'
<1>1. PICK k : k = [Conf EXCEPT !.pc = pc]
  OBVIOUS
<1>2. k \in CallRecord /\ k.op = Conf.op /\ k.clean = Conf.clean
  BY <1>1, CallsAreRecords DEF RouterInv, CallRecord
<1>3. Goes("conf", k)
  BY <1>1 DEF Goto, Conf
<1> QED
  BY <1>2, <1>3, ConfGoes

\* A configuration or a removal goes on with its next request.
LEMMA NetGoto ==
    ASSUME RouterInv, Net.pc # "idle", NEW pc \in RouterPcs \ {"idle"}, Goto("net", pc),
           Net.op = "deconfigure" <=> pc \in RemovalPcs, Net.pc # "link", pc # "link",
           UNCHANGED <<link, made>>, classes' \in [Indexes -> Nat],
           \A k \in CallRecord :
               (/\ k.pc = pc /\ k.op = Net.op /\ k.index = Net.index /\ k.in = Net.in /\ k.out = Net.out
                /\ k.at = Net.at /\ k.todo = Net.todo /\ k.cur = Net.cur /\ k.asked = Net.asked
                /\ k.clean = Net.clean)
               => Configuring(k)' /\ Removing(k)'
    PROVE  RouterInv'
<1>1. PICK k : k = [Net EXCEPT !.pc = pc]
  OBVIOUS
<1>2. /\ k \in CallRecord /\ k.pc = pc /\ k.op = Net.op /\ k.index = Net.index /\ k.in = Net.in
      /\ k.out = Net.out /\ k.at = Net.at /\ k.todo = Net.todo /\ k.cur = Net.cur /\ k.asked = Net.asked
      /\ k.clean = Net.clean
  BY <1>1, CallsAreRecords DEF RouterInv, CallRecord
<1>3. call' = [call EXCEPT !["net"] = k] /\ UNCHANGED answer
  BY <1>1 DEF Goto, Goes, Net
<1>4. NetFits(k) /\ k.index \in 0..made
  BY <1>2 DEF RouterInv, RouterTypes, OpsFit, NetFits
<1>5. Configuring(k)' /\ Removing(k)'
  BY <1>2
<1> QED
  BY <1>2, <1>3, <1>4, <1>5, NetMoves

\* An index that a configuration has found is one that a tap has had.
LEMMA IndexIsKnown ==
    ASSUME RouterInv
    PROVE  Net.op = "configure" /\ Net.pc # "link" => Net.index \in Indexes
<1>1. Net.index \in 0..made /\ made \in 0..MaxIndex /\ MaxIndex \in Nat
  BY SchemeAssumption DEF RouterInv, RouterTypes
<1> QED
  BY <1>1 DEF RouterInv, OpsFit, NetFits, Indexes

\* The first rule.
LEMMA InetKeeps ==
    ASSUME RouterInv, NEW c \in Callers, routerCreateBlackholeRules(c, "inet"), "inet" \notin rules
    PROVE  RouterInv'
<1>1. call[c].pc = "inet" /\ Goto(c, "inet6")
  BY DEF routerCreateBlackholeRules, CallAt
<1>2. rules' = rules \cup {"inet"} /\ UNCHANGED <<link, made, addrs, routes, inLimit, classes, record>>
  BY DEF routerCreateBlackholeRules, kernel
<1>3. classes' \in [Indexes -> Nat]
  BY <1>2 DEF RouterInv, RouterTypes
<1>4. CASE c = "conf"
  BY <1>1, <1>2, <1>3, <1>4, ConfGoto DEF Conf, Prefixing, AfterOut, AfterIn, AfterRules, RemovalPcs, RouterPcs
<1>5. CASE c = "net"
  <2>1. Net.pc = "inet" /\ Goto("net", "inet6") /\ "inet6" \in RouterPcs \ {"idle"}
    BY <1>1, <1>5 DEF Net, Prefixing, AfterOut, AfterIn, AfterRules, RemovalPcs, RouterPcs
  <2>2. ASSUME NEW k \in CallRecord, k.pc = "inet6", k.op = Net.op, k.index = Net.index, k.in = Net.in,
               k.out = Net.out, k.at = Net.at, k.todo = Net.todo, k.cur = Net.cur, k.asked = Net.asked,
               k.clean = Net.clean
        PROVE  Configuring(k)' /\ Removing(k)'
    BY <1>2, <1>5, <2>1, <2>2 DEF RouterInv, RouterTypes, OpsFit, NetFits, Configuring, Removing, Net, Prefixing, AfterOut, AfterIn, AfterRules, RemovalPcs, RouterPcs
  <2>3. Net.op = "deconfigure" <=> "inet6" \in RemovalPcs
    BY <2>1 DEF RouterInv, OpsFit, NetFits, RemovalPcs
  <2> QED
    BY <1>2, <1>3, <2>1, <2>2, <2>3, NetGoto
<1> QED
  BY <1>4, <1>5 DEF Callers

\* The second rule.
LEMMA Inet6Keeps ==
    ASSUME RouterInv, NEW c \in Callers, routerCreateBlackholeRules(c, "inet6"), "inet6" \notin rules
    PROVE  RouterInv'
<1>1. call[c].pc = "inet6" /\ Goto(c, "in")
  BY DEF routerCreateBlackholeRules, CallAt
<1>2. rules' = rules \cup {"inet6"} /\ UNCHANGED <<link, made, addrs, routes, inLimit, classes, record>>
  BY DEF routerCreateBlackholeRules, kernel
<1>3. classes' \in [Indexes -> Nat]
  BY <1>2 DEF RouterInv, RouterTypes
<1>4. CASE c = "conf"
  BY <1>1, <1>2, <1>3, <1>4, ConfGoto DEF Conf, Prefixing, AfterOut, AfterIn, AfterRules, RemovalPcs, RouterPcs
<1>5. CASE c = "net"
  <2>1. Net.pc = "inet6" /\ Goto("net", "in") /\ "in" \in RouterPcs \ {"idle"}
    BY <1>1, <1>5 DEF Net, Prefixing, AfterOut, AfterIn, AfterRules, RemovalPcs, RouterPcs
  <2>2. ASSUME NEW k \in CallRecord, k.pc = "in", k.op = Net.op, k.index = Net.index, k.in = Net.in,
               k.out = Net.out, k.at = Net.at, k.todo = Net.todo, k.cur = Net.cur, k.asked = Net.asked,
               k.clean = Net.clean
        PROVE  Configuring(k)' /\ Removing(k)'
    BY <1>2, <1>5, <2>1, <2>2 DEF RouterInv, RouterTypes, OpsFit, NetFits, Configuring, Removing, Net, Prefixing, AfterOut, AfterIn, AfterRules, RemovalPcs, RouterPcs
  <2>3. Net.op = "deconfigure" <=> "in" \in RemovalPcs
    BY <2>1 DEF RouterInv, OpsFit, NetFits, RemovalPcs
  <2> QED
    BY <1>2, <1>3, <2>1, <2>2, <2>3, NetGoto
<1> QED
  BY <1>4, <1>5 DEF Callers

\* The inbound limit.
LEMMA InKeeps ==
    ASSUME RouterInv, NEW c \in Callers, routerSetInboundLimits(c), call[c].op # "inbound", ~(link = 0 /\ call[c].in > 0)
    PROVE  RouterInv'
<1>1. call[c].pc = "in" /\ Goto(c, "out")
  BY DEF routerSetInboundLimits, CallAt
<1>2. inLimit' = (IF link = 0 THEN 0 ELSE call[c].in) /\ UNCHANGED <<link, made, rules, addrs, routes, classes, record>>
  BY DEF routerSetInboundLimits, kernel
<1>3. classes' \in [Indexes -> Nat]
  BY <1>2 DEF RouterInv, RouterTypes
<1>4. CASE c = "conf"
  BY <1>1, <1>2, <1>3, <1>4, ConfGoto DEF Conf, Prefixing, AfterOut, AfterIn, AfterRules, RemovalPcs, RouterPcs
<1>5. CASE c = "net"
  <2>1. Net.pc = "in" /\ Goto("net", "out") /\ "out" \in RouterPcs \ {"idle"}
    BY <1>1, <1>5 DEF Net, Prefixing, AfterOut, AfterIn, AfterRules, RemovalPcs, RouterPcs
  <2>2. ASSUME NEW k \in CallRecord, k.pc = "out", k.op = Net.op, k.index = Net.index, k.in = Net.in,
               k.out = Net.out, k.at = Net.at, k.todo = Net.todo, k.cur = Net.cur, k.asked = Net.asked,
               k.clean = Net.clean
        PROVE  Configuring(k)' /\ Removing(k)'
    BY <1>2, <1>5, <2>1, <2>2 DEF RouterInv, RouterTypes, OpsFit, NetFits, Configuring, Removing, Net, Prefixing, AfterOut, AfterIn, AfterRules, RemovalPcs, RouterPcs
  <2>3. Net.op = "deconfigure" <=> "out" \in RemovalPcs
    BY <2>1 DEF RouterInv, OpsFit, NetFits, RemovalPcs
  <2> QED
    BY <1>2, <1>3, <2>1, <2>2, <2>3, NetGoto
<1> QED
  BY <1>4, <1>5 DEF Callers

\* The class is given to the process.
LEMMA CgroupKeeps ==
    ASSUME RouterInv, NEW c \in Callers, SetNetClassID(c)
    PROVE  RouterInv'
<1>1. call[c].pc = "cgroup" /\ Goto(c, "record")
  BY DEF SetNetClassID, CallAt
<1>2. UNCHANGED <<link, made, rules, addrs, routes, inLimit, classes, record>>
  BY DEF SetNetClassID, kernel
<1>3. classes' \in [Indexes -> Nat]
  BY <1>2 DEF RouterInv, RouterTypes
<1>4. CASE c = "conf"
  BY <1>1, <1>2, <1>3, <1>4, ConfGoto DEF Conf, Prefixing, AfterOut, AfterIn, AfterRules, RemovalPcs, RouterPcs
<1>5. CASE c = "net"
  <2>1. Net.pc = "cgroup" /\ Goto("net", "record") /\ "record" \in RouterPcs \ {"idle"}
    BY <1>1, <1>5 DEF Net, Prefixing, AfterOut, AfterIn, AfterRules, RemovalPcs, RouterPcs
  <2>2. ASSUME NEW k \in CallRecord, k.pc = "record", k.op = Net.op, k.index = Net.index, k.in = Net.in,
               k.out = Net.out, k.at = Net.at, k.todo = Net.todo, k.cur = Net.cur, k.asked = Net.asked,
               k.clean = Net.clean
        PROVE  Configuring(k)' /\ Removing(k)'
    BY <1>2, <1>5, <2>1, <2>2 DEF RouterInv, RouterTypes, OpsFit, NetFits, Configuring, Removing, Net, Prefixing, AfterOut, AfterIn, AfterRules, RemovalPcs, RouterPcs
  <2>3. Net.op = "deconfigure" <=> "record" \in RemovalPcs
    BY <2>1 DEF RouterInv, OpsFit, NetFits, RemovalPcs
  <2> QED
    BY <1>2, <1>3, <2>1, <2>2, <2>3, NetGoto
<1> QED
  BY <1>4, <1>5 DEF Callers

\* An error of the cgroup is passed over.
LEMMA CgroupFails ==
    ASSUME RouterInv, NEW c \in Callers, StepFails(c), call[c].pc = "cgroup", call[c].op = "configure"
    PROVE  RouterInv'
<1>1. call[c].pc = "cgroup" /\ Goto(c, "addrs")
  BY DEF StepFails, CallAt
<1>2. UNCHANGED <<link, made, rules, addrs, routes, inLimit, classes, record>>
  BY DEF StepFails, kernel
<1>3. classes' \in [Indexes -> Nat]
  BY <1>2 DEF RouterInv, RouterTypes
<1>4. CASE c = "conf"
  BY <1>1, <1>2, <1>3, <1>4, ConfGoto DEF Conf, Prefixing, AfterOut, AfterIn, AfterRules, RemovalPcs, RouterPcs
<1>5. CASE c = "net"
  <2>1. Net.pc = "cgroup" /\ Goto("net", "addrs") /\ "addrs" \in RouterPcs \ {"idle"}
    BY <1>1, <1>5 DEF Net, Prefixing, AfterOut, AfterIn, AfterRules, RemovalPcs, RouterPcs
  <2>2. ASSUME NEW k \in CallRecord, k.pc = "addrs", k.op = Net.op, k.index = Net.index, k.in = Net.in,
               k.out = Net.out, k.at = Net.at, k.todo = Net.todo, k.cur = Net.cur, k.asked = Net.asked,
               k.clean = Net.clean
        PROVE  Configuring(k)' /\ Removing(k)'
    BY <1>2, <1>5, <2>1, <2>2 DEF RouterInv, RouterTypes, OpsFit, NetFits, Configuring, Removing, Net, Prefixing, AfterOut, AfterIn, AfterRules, RemovalPcs, RouterPcs
  <2>3. Net.op = "deconfigure" <=> "addrs" \in RemovalPcs
    BY <2>1 DEF RouterInv, OpsFit, NetFits, RemovalPcs
  <2> QED
    BY <1>2, <1>3, <2>1, <2>2, <2>3, NetGoto
<1> QED
  BY <1>4, <1>5 DEF Callers

\* The record is written.
LEMMA RecordKeeps ==
    ASSUME RouterInv, NEW c \in Callers, WriteRecord(c), call[c].op = "configure"
    PROVE  RouterInv'
<1>1. call[c].pc = "record" /\ Goto(c, "addrs")
  BY DEF WriteRecord, CallAt
<1>2. UNCHANGED <<link, made, rules, addrs, routes, inLimit, classes>>
  BY DEF WriteRecord, kernel
<1>3. classes' \in [Indexes -> Nat]
  BY <1>2 DEF RouterInv, RouterTypes
<1>4. CASE c = "conf"
  BY <1>1, <1>2, <1>3, <1>4, ConfGoto DEF Conf, Prefixing, AfterOut, AfterIn, AfterRules, RemovalPcs, RouterPcs
<1>5. CASE c = "net"
  <2>1. Net.pc = "record" /\ Goto("net", "addrs") /\ "addrs" \in RouterPcs \ {"idle"}
    BY <1>1, <1>5 DEF Net, Prefixing, AfterOut, AfterIn, AfterRules, RemovalPcs, RouterPcs
  <2>2. ASSUME NEW k \in CallRecord, k.pc = "addrs", k.op = Net.op, k.index = Net.index, k.in = Net.in,
               k.out = Net.out, k.at = Net.at, k.todo = Net.todo, k.cur = Net.cur, k.asked = Net.asked,
               k.clean = Net.clean
        PROVE  Configuring(k)' /\ Removing(k)'
    BY <1>2, <1>5, <2>1, <2>2 DEF RouterInv, RouterTypes, OpsFit, NetFits, Configuring, Removing, Net, Prefixing, AfterOut, AfterIn, AfterRules, RemovalPcs, RouterPcs
  <2>3. Net.op = "deconfigure" <=> "addrs" \in RemovalPcs
    BY <2>1 DEF RouterInv, OpsFit, NetFits, RemovalPcs
  <2> QED
    BY <1>2, <1>3, <2>1, <2>2, <2>3, NetGoto
<1> QED
  BY <1>4, <1>5 DEF Callers

\* A route.
LEMMA RouteKeeps ==
    ASSUME RouterInv, NEW c \in Callers, AddRoute(c), link = call[c].at
    PROVE  RouterInv'
<1>1. call[c].pc = "route" /\ Goto(c, "rule")
  BY DEF AddRoute, CallAt
<1>2. routes' = routes \cup call[c].cur /\ UNCHANGED <<link, made, rules, addrs, inLimit, classes, record>>
  BY DEF AddRoute, kernel
<1>3. classes' \in [Indexes -> Nat]
  BY <1>2 DEF RouterInv, RouterTypes
<1>4. CASE c = "conf"
  BY <1>1, <1>2, <1>3, <1>4, ConfGoto DEF Conf, Prefixing, AfterOut, AfterIn, AfterRules, RemovalPcs, RouterPcs
<1>5. CASE c = "net"
  <2>1. Net.pc = "route" /\ Goto("net", "rule") /\ "rule" \in RouterPcs \ {"idle"}
    BY <1>1, <1>5 DEF Net, Prefixing, AfterOut, AfterIn, AfterRules, RemovalPcs, RouterPcs
  <2>2. ASSUME NEW k \in CallRecord, k.pc = "rule", k.op = Net.op, k.index = Net.index, k.in = Net.in,
               k.out = Net.out, k.at = Net.at, k.todo = Net.todo, k.cur = Net.cur, k.asked = Net.asked,
               k.clean = Net.clean
        PROVE  Configuring(k)' /\ Removing(k)'
    BY <1>2, <1>5, <2>1, <2>2 DEF RouterInv, RouterTypes, OpsFit, NetFits, Configuring, Removing, Net, Prefixing, AfterOut, AfterIn, AfterRules, RemovalPcs, RouterPcs
  <2>3. Net.op = "deconfigure" <=> "rule" \in RemovalPcs
    BY <2>1 DEF RouterInv, OpsFit, NetFits, RemovalPcs
  <2> QED
    BY <1>2, <1>3, <2>1, <2>2, <2>3, NetGoto
<1> QED
  BY <1>4, <1>5 DEF Callers

\* A rule for a prefix.
LEMMA RuleKeeps ==
    ASSUME RouterInv, NEW c \in Callers, routerAddRule(c), ~(call[c].cur \subseteq rules)
    PROVE  RouterInv'
<1>1. call[c].pc = "rule" /\ Goto(c, "addr")
  BY DEF routerAddRule, CallAt
<1>2. rules' = rules \cup call[c].cur /\ UNCHANGED <<link, made, addrs, routes, inLimit, classes, record>>
  BY DEF routerAddRule, kernel
<1>3. classes' \in [Indexes -> Nat]
  BY <1>2 DEF RouterInv, RouterTypes
<1>4. CASE c = "conf"
  BY <1>1, <1>2, <1>3, <1>4, ConfGoto DEF Conf, Prefixing, AfterOut, AfterIn, AfterRules, RemovalPcs, RouterPcs
<1>5. CASE c = "net"
  <2>1. Net.pc = "rule" /\ Goto("net", "addr") /\ "addr" \in RouterPcs \ {"idle"}
    BY <1>1, <1>5 DEF Net, Prefixing, AfterOut, AfterIn, AfterRules, RemovalPcs, RouterPcs
  <2>2. ASSUME NEW k \in CallRecord, k.pc = "addr", k.op = Net.op, k.index = Net.index, k.in = Net.in,
               k.out = Net.out, k.at = Net.at, k.todo = Net.todo, k.cur = Net.cur, k.asked = Net.asked,
               k.clean = Net.clean
        PROVE  Configuring(k)' /\ Removing(k)'
    BY <1>2, <1>5, <2>1, <2>2 DEF RouterInv, RouterTypes, OpsFit, NetFits, Configuring, Removing, Net, Prefixing, AfterOut, AfterIn, AfterRules, RemovalPcs, RouterPcs
  <2>3. Net.op = "deconfigure" <=> "addr" \in RemovalPcs
    BY <2>1 DEF RouterInv, OpsFit, NetFits, RemovalPcs
  <2> QED
    BY <1>2, <1>3, <2>1, <2>2, <2>3, NetGoto
<1> QED
  BY <1>4, <1>5 DEF Callers

\* The outbound limit, and its class.
LEMMA OutKeeps ==
    ASSUME RouterInv, NEW c \in Callers, routerSetOutboundLimits(c)
    PROVE  RouterInv'
<1>1. call[c].pc = "out" /\ Goto(c, (IF call[c].out > 0 THEN "cgroup" ELSE "record"))
  BY DEF routerSetOutboundLimits, CallAt
<1>2. classes' = [classes EXCEPT ![call[c].index] = call[c].out] /\ UNCHANGED <<link, made, rules, addrs, routes, inLimit, record>>
  BY DEF routerSetOutboundLimits, kernel
<1>3. classes' \in [Indexes -> Nat]
  BY <1>2, CallsAreRecords DEF RouterInv, RouterTypes, CallRecord, Callers, Net, Conf
<1>4. CASE c = "conf"
  BY <1>1, <1>2, <1>3, <1>4, ConfGoto DEF Conf, Prefixing, AfterOut, AfterIn, AfterRules, RemovalPcs, RouterPcs
<1>5. CASE c = "net"
  <2>1. Net.pc = "out" /\ Goto("net", (IF Net.out > 0 THEN "cgroup" ELSE "record")) /\ (IF Net.out > 0 THEN "cgroup" ELSE "record") \in RouterPcs \ {"idle"}
    BY <1>1, <1>5 DEF Net, Prefixing, AfterOut, AfterIn, AfterRules, RemovalPcs, RouterPcs
  <2>2. ASSUME NEW k \in CallRecord, k.pc = (IF Net.out > 0 THEN "cgroup" ELSE "record"), k.op = Net.op, k.index = Net.index, k.in = Net.in,
               k.out = Net.out, k.at = Net.at, k.todo = Net.todo, k.cur = Net.cur, k.asked = Net.asked,
               k.clean = Net.clean
        PROVE  Configuring(k)' /\ Removing(k)'
    BY <1>2, <1>5, <2>1, <2>2, IndexIsKnown DEF RouterInv, RouterTypes, OpsFit, NetFits, Configuring, Removing, Net, Prefixing, AfterOut, AfterIn, AfterRules, RemovalPcs, RouterPcs
  <2>3. Net.op = "deconfigure" <=> (IF Net.out > 0 THEN "cgroup" ELSE "record") \in RemovalPcs
    BY <2>1 DEF RouterInv, OpsFit, NetFits, RemovalPcs
  <2> QED
    BY <1>2, <1>3, <2>1, <2>2, <2>3, NetGoto
<1> QED
  BY <1>4, <1>5 DEF Callers

\* The call has found the tap, or found that there is none.
LEMMA FindLinkKeeps ==
    ASSUME RouterInv, NEW c \in Callers, FindLink(c)
    PROVE  RouterInv'
<1>1. call[c].pc = "link" /\ UNCHANGED kernel
  BY DEF FindLink, CallAt
<1>2. CASE link = 0
  BY <1>1, <1>2, FailKeeps DEF FindLink
<1>3. CASE link # 0
  <2>1. PICK k : k = [call[c] EXCEPT !.index = link, !.pc = IF call[c].op = "outbound" THEN "out" ELSE "inet"]
    OBVIOUS
  <2>2. Goes(c, k) /\ classes' \in [Indexes -> Nat] /\ UNCHANGED <<link, made, rules, addrs, routes, inLimit>>
    BY <1>1, <1>3, <2>1 DEF FindLink, kernel, RouterInv, RouterTypes
  <2>3. call[c] \in CallRecord /\ link \in Nat /\ link \in 0..made
    BY SchemeAssumption DEF RouterInv, RouterTypes
  <2>4. /\ k \in CallRecord /\ k.pc \in {"out", "inet"} /\ (call[c].op = "configure" => k.pc = "inet")
        /\ k.op = call[c].op /\ k.index = link /\ k.todo = call[c].todo /\ k.asked = call[c].asked
        /\ k.clean = call[c].clean
    BY <2>1, <2>3 DEF CallRecord, RouterPcs, AfterRules, AfterIn
  <2>5. CASE c = "conf"
    BY <1>1, <2>2, <2>4, <2>5, ConfGoes DEF Conf
  <2>6. CASE c = "net"
    <3>1. Net.pc = "link" /\ k.op = Net.op /\ k.clean = Net.clean /\ k.todo = Net.todo /\ k.asked = Net.asked
      BY <1>1, <2>4, <2>6 DEF Net
    <3>2. NetFits(k)
      BY <1>3, <2>4, <3>1 DEF RouterInv, OpsFit, NetFits, RemovalPcs
    <3>3. Configuring(k)' /\ Removing(k)'
      BY <2>4, <3>1, <3>2 DEF RouterInv, Configuring, Removing, NetFits, Prefixing, AfterOut, AfterIn, AfterRules, RemovalPcs
    <3>4. call' = [call EXCEPT !["net"] = k] /\ UNCHANGED answer
      BY <2>2, <2>6 DEF Goes
    <3> QED
      BY <2>2, <2>3, <2>4, <3>1, <3>2, <3>3, <3>4, NetMoves
  <2> QED
    BY <2>5, <2>6 DEF Callers
<1> QED
  BY <1>2, <1>3

\* The second stage looks for the tap again.
LEMMA FindLinkAgainKeeps ==
    ASSUME RouterInv, NEW c \in Callers, FindLinkAgain(c)
    PROVE  RouterInv'
<1>1. call[c].pc = "addrs" /\ UNCHANGED kernel
  BY DEF FindLinkAgain, CallAt
<1>2. CASE link = 0
  BY <1>1, <1>2, FailKeeps DEF FindLinkAgain
<1>3. CASE link # 0
  <2>1. PICK k : k = [call[c] EXCEPT !.pc = "addr", !.at = link]
    OBVIOUS
  <2>2. Goes(c, k) /\ classes' \in [Indexes -> Nat] /\ UNCHANGED <<link, made, rules, addrs, routes, inLimit, classes>>
    BY <1>1, <1>3, <2>1 DEF FindLinkAgain, kernel, RouterInv, RouterTypes
  <2>3. call[c] \in CallRecord /\ link \in Nat
    BY SchemeAssumption DEF RouterInv, RouterTypes
  <2>4. /\ k \in CallRecord /\ k.pc = "addr" /\ k.op = call[c].op /\ k.index = call[c].index /\ k.in = call[c].in
        /\ k.out = call[c].out /\ k.todo = call[c].todo /\ k.asked = call[c].asked /\ k.clean = call[c].clean
    BY <2>1, <2>3 DEF CallRecord, RouterPcs, AfterRules, AfterIn, AfterOut, Prefixing
  <2>5. CASE c = "conf"
    BY <1>1, <2>2, <2>4, <2>5, ConfGoes DEF Conf
  <2>6. CASE c = "net"
    <3>1. /\ Net.pc = "addrs" /\ k.op = Net.op /\ k.clean = Net.clean /\ k.todo = Net.todo /\ k.asked = Net.asked
          /\ k.index = Net.index /\ k.in = Net.in /\ k.out = Net.out
      BY <1>1, <2>4, <2>6 DEF Net
    <3>2. NetFits(k) /\ k.index \in 0..made
      BY <2>4, <3>1 DEF RouterInv, RouterTypes, OpsFit, NetFits, RemovalPcs
    <3>3. Configuring(k)' /\ Removing(k)'
      BY <2>2, <2>4, <3>1, <3>2
         DEF RouterInv, Configuring, Removing, NetFits, Prefixing, AfterOut, AfterIn, AfterRules, RemovalPcs
    <3>4. call' = [call EXCEPT !["net"] = k] /\ UNCHANGED answer
      BY <2>2, <2>6 DEF Goes
    <3> QED
      BY <2>2, <2>4, <3>1, <3>2, <3>3, <3>4, NetMoves
  <2> QED
    BY <2>5, <2>6 DEF Callers
<1> QED
  BY <1>2, <1>3

\* A prefix is taken up: from now on it is in cur, until it has its route and its rule.
LEMMA AddAddrKeeps ==
    ASSUME RouterInv, NEW c \in Callers, NEW a \in Addrs, AddAddr(c, a)
    PROVE  RouterInv'
<1>1. call[c].pc = "addr" /\ a \in call[c].todo /\ UNCHANGED <<link, made, rules, routes, inLimit, classes, record>>
  BY DEF AddAddr, CallAt
<1>2. CASE a \in Refused \/ (a \in Wide /\ link # call[c].at) \/ a \in addrs
  <2>1. UNCHANGED addrs /\ \E why \in {"refused", "no link", "exists"} : End(c, FALSE, why)
    BY <1>2 DEF AddAddr
  <2>2. UNCHANGED kernel
    BY <1>1, <2>1 DEF kernel
  <2> QED
    BY <1>1, <2>1, <2>2, FailKeeps
<1>3. CASE ~(a \in Refused \/ (a \in Wide /\ link # call[c].at) \/ a \in addrs)
  <2>1. PICK k : k = [call[c] EXCEPT !.pc = "route", !.todo = @ \ {a}, !.cur = {a}]
    OBVIOUS
  <2>2. Goes(c, k) /\ classes' \in [Indexes -> Nat] /\ addrs' = addrs \cup ({a} \cap Wide)
    BY <1>1, <1>3, <2>1 DEF AddAddr, RouterInv, RouterTypes
  <2>3. call[c] \in CallRecord
    BY DEF RouterInv, RouterTypes
  <2>4. /\ k \in CallRecord /\ k.pc = "route" /\ k.op = call[c].op /\ k.index = call[c].index /\ k.in = call[c].in
        /\ k.out = call[c].out /\ k.asked = call[c].asked /\ k.clean = call[c].clean
        /\ k.todo = call[c].todo \ {a} /\ k.cur = {a}
    BY <2>1, <2>3 DEF CallRecord, RouterPcs, AfterRules, AfterIn, AfterOut, Prefixing
  <2>5. CASE c = "conf"
    BY <1>1, <2>2, <2>4, <2>5, ConfGoes DEF Conf
  <2>6. CASE c = "net"
    <3>1. /\ Net.pc = "addr" /\ k.op = Net.op /\ k.clean = Net.clean /\ k.todo = Net.todo \ {a} /\ k.asked = Net.asked
          /\ k.index = Net.index /\ k.in = Net.in /\ k.out = Net.out
      BY <1>1, <2>4, <2>6 DEF Net
    <3>2. NetFits(k) /\ k.index \in 0..made
      BY <2>4, <3>1 DEF RouterInv, RouterTypes, OpsFit, NetFits, RemovalPcs
    <3>3. Configuring(k)' /\ Removing(k)'
      BY <1>1, <2>2, <2>4, <3>1, <3>2
         DEF RouterInv, Configuring, Removing, NetFits, Prefixing, AfterOut, AfterIn, AfterRules, RemovalPcs
    <3>4. call' = [call EXCEPT !["net"] = k] /\ UNCHANGED answer
      BY <2>2, <2>6 DEF Goes
    <3> QED
      BY <1>1, <2>2, <2>4, <3>1, <3>2, <3>3, <3>4, NetMoves
  <2> QED
    BY <2>5, <2>6 DEF Callers
<1> QED
  BY <1>2, <1>3

\* A removal goes on, clean if its request has left nothing.
LEMMA RemovalGoes ==
    ASSUME RouterInv, Net.pc \in RemovalPcs, NEW left \in BOOLEAN, NEW pc \in RemovalPcs, Unless(left, pc),
           UNCHANGED <<link, made>>, classes' \in [Indexes -> Nat],
           Net.clean /\ ~left =>
               /\ pc = "unrule6" => rules' \subseteq {"inet6"}
               /\ pc \in {"unlink", "unclass", "unrecord"} => rules' = {}
               /\ pc \in {"unclass", "unrecord"} => addrs' = {} /\ routes' = {} /\ inLimit' = 0
    PROVE  RouterInv'
<1>1. PICK k : k = [Net EXCEPT !.pc = pc, !.clean = @ /\ ~left]
  OBVIOUS
<1>2. Net \in CallRecord /\ Net.op = "deconfigure" /\ Net.index \in 0..made
  BY CallsAreRecords DEF RouterInv, RouterTypes, OpsFit, NetFits
<1>3. k \in CallRecord /\ k.pc = pc /\ k.op = Net.op /\ k.index = Net.index /\ k.clean = (Net.clean /\ ~left)
  BY <1>1, <1>2 DEF CallRecord, RouterPcs
<1>4. call' = [call EXCEPT !["net"] = k] /\ UNCHANGED answer
  BY <1>1 DEF Unless, Goes, Net
<1>5. NetFits(k) /\ k.pc # "idle" /\ Net.pc # "idle" /\ (k.clean => Net.clean)
  BY <1>2, <1>3 DEF NetFits, RemovalPcs
<1>6. Configuring(k)' /\ Removing(k)'
  BY <1>2, <1>3 DEF Configuring, Removing
<1> QED
  BY <1>2, <1>3, <1>4, <1>5, <1>6, NetMoves

\* The rules are removed, but for that of the second family.
LEMMA UnruleKeeps ==
    ASSUME RouterInv, RemoveRules
    PROVE  RouterInv'
<1>1. Net.pc = "unrule" /\ UNCHANGED <<link, made, addrs, routes, inLimit, classes, record>>
  BY DEF RemoveRules, CallAt, Net
<1>2. PICK some \in SUBSET (rules \ {"inet6"}) :
          rules' = some \cup (rules \cap {"inet6"}) /\ Unless(some # {}, "unrule6")
  BY DEF RemoveRules
<1>3. PICK left \in BOOLEAN : left = (some # {})
  OBVIOUS
<1>4. Unless(left, "unrule6") /\ (~left => rules' \subseteq {"inet6"})
  BY <1>2, <1>3
<1>5. classes' \in [Indexes -> Nat]
  BY <1>1 DEF RouterInv, RouterTypes
<1> QED
  BY <1>1, <1>4, <1>5, RemovalGoes DEF RemovalPcs

\* The last rule is removed.
LEMMA Unrule6Keeps ==
    ASSUME RouterInv, routerRemoveBlackholeRulesV6
    PROVE  RouterInv'
<1>1. Net.pc = "unrule6" /\ UNCHANGED <<link, made, addrs, routes, inLimit, classes, record>>
  BY DEF routerRemoveBlackholeRulesV6, CallAt, Net
<1>2. PICK left \in BOOLEAN : rules' = (IF left THEN rules ELSE rules \ {"inet6"}) /\ Unless(left, "unlink")
  BY DEF routerRemoveBlackholeRulesV6
<1>3. classes' \in [Indexes -> Nat]
  BY <1>1 DEF RouterInv, RouterTypes
<1>4. Net.clean /\ ~left => rules' = {}
  BY <1>1, <1>2 DEF RouterInv, OpsFit, NetFits, RemovalPcs, Removing
<1> QED
  BY <1>1, <1>2, <1>3, <1>4, RemovalGoes DEF RemovalPcs

\* Addresses, routes and limit are removed.
LEMMA UnlinkKeeps ==
    ASSUME RouterInv, RemoveAddrs
    PROVE  RouterInv'
<1>1. Net.pc = "unlink" /\ UNCHANGED <<link, made, rules, classes, record>>
  BY DEF RemoveAddrs, CallAt, Net
<1>2. PICK left \in BOOLEAN : left = (addrs' # {} \/ routes' # {} \/ inLimit' # 0)
  OBVIOUS
<1>3. Unless(left, "unclass") /\ (~left => addrs' = {} /\ routes' = {} /\ inLimit' = 0)
  BY <1>2 DEF RemoveAddrs
<1>4. classes' \in [Indexes -> Nat]
  BY <1>1 DEF RouterInv, RouterTypes
<1>5. Net.clean => rules' = {}
  BY <1>1 DEF RouterInv, OpsFit, NetFits, RemovalPcs, Removing
<1> QED
  BY <1>1, <1>3, <1>4, <1>5, RemovalGoes DEF RemovalPcs

\* A removal that is answered without an error, and whose requests have not failed, has
\* left nothing.
LEMMA RemovalEnds ==
    ASSUME RouterInv, Net.pc \in {"unclass", "unrecord"}, End("net", TRUE, "none"),
           UNCHANGED <<link, made, rules, addrs, routes, inLimit, classes>>
    PROVE  RouterInv'
<1>1. Net.op = "deconfigure" /\ "net" \in Callers /\ call["net"].pc # "idle"
  BY DEF RouterInv, OpsFit, NetFits, RemovalPcs, Callers, Net
<1>2. answer'.op = "deconfigure" /\ answer'.clean = Net.clean
  BY <1>1 DEF End, Net
<1>3. classes' \in [Indexes -> Nat] /\ ConfiguredIsComplete' /\ DeconfiguredIsQuiet'
  BY <1>1, <1>2 DEF RouterInv, RouterTypes, Removing, ConfiguredIsComplete, DeconfiguredIsQuiet
<1> QED
  BY <1>1, <1>3, RouterCallEnds

\* The removal finds the class by the record.
LEMMA UnclassKeeps ==
    ASSUME RouterInv, RemoveClass
    PROVE  RouterInv'
<1>1. Net.pc = "unclass" /\ UNCHANGED <<link, made, rules, addrs, routes, inLimit, record>>
  BY DEF RemoveClass, CallAt, Net
<1>2. CASE End("net", FALSE, "failed") /\ UNCHANGED classes
  <2>1. UNCHANGED kernel /\ "net" \in Callers /\ call["net"].pc # "idle"
    BY <1>1, <1>2 DEF kernel, Callers, Net
  <2> QED
    BY <1>2, <2>1, FailKeeps
<1>3. CASE End("net", TRUE, "none") /\ UNCHANGED classes
  BY <1>1, <1>3, RemovalEnds
<1>4. CASE \E left \in BOOLEAN : /\ classes' = IF left THEN classes ELSE [classes EXCEPT ![record] = 0]
                                /\ Unless(left, "unrecord")
  <2>1. PICK left \in BOOLEAN : /\ classes' = IF left THEN classes ELSE [classes EXCEPT ![record] = 0]
                                /\ Unless(left, "unrecord")
    BY <1>4
  <2>2. classes' \in [Indexes -> Nat]
    BY <2>1 DEF RouterInv, RouterTypes
  <2>3. Net.clean => rules' = {} /\ addrs' = {} /\ routes' = {} /\ inLimit' = 0
    BY <1>1 DEF RouterInv, OpsFit, NetFits, RemovalPcs, Removing
  <2> QED
    BY <1>1, <2>1, <2>2, <2>3, RemovalGoes DEF RemovalPcs
<1> QED
  BY <1>2, <1>3, <1>4 DEF RemoveClass

\* A configuration that has no prefix left is complete.
LEMMA ConfigurationEnds ==
    ASSUME RouterInv, NEW c \in Callers, routerAnnounceGateways(c)
    PROVE  RouterInv'
<1>1. /\ call[c].pc = "addr" /\ call[c].todo = {} /\ End(c, TRUE, "none")
      /\ UNCHANGED <<link, made, rules, addrs, routes, inLimit, classes, record>>
  BY DEF routerAnnounceGateways, kernel, CallAt
<1>2. CASE call[c].op \notin {"configure", "deconfigure"}
  BY <1>1, <1>2, ShortCallEnds
<1>3. CASE call[c].op \in {"configure", "deconfigure"}
  <2>1. c = "net" /\ Net.op = "configure" /\ Net.pc = "addr" /\ Net.todo = {}
    BY <1>1, <1>3 DEF RouterInv, OpsFit, NetFits, ConfOps, RemovalPcs, Callers, Net, Conf
  <2>2. /\ answer'.op = "configure" /\ answer'.index = Net.index /\ answer'.in = Net.in /\ answer'.out = Net.out
        /\ answer'.asked = Net.asked /\ answer'.clean = Net.clean
    BY <1>1, <2>1 DEF End, Net
  <2>3. ConfiguredIsComplete' /\ DeconfiguredIsQuiet'
    BY <1>1, <2>1, <2>2
       DEF RouterInv, Configuring, ConfiguredIsComplete, DeconfiguredIsQuiet, Blackholes,
           AfterRules, AfterIn, AfterOut, Prefixing
  <2>4. classes' \in [Indexes -> Nat]
    BY <1>1 DEF RouterInv, RouterTypes
  <2> QED
    BY <1>1, <2>3, <2>4, RouterCallEnds
<1> QED
  BY <1>2, <1>3

\* A request that fails ends its call, but for the one that is passed over.
LEMMA StepFailsKeeps ==
    ASSUME RouterInv, NEW c \in Callers, StepFails(c)
    PROVE  RouterInv'
<1>1. UNCHANGED kernel /\ call[c].pc # "idle"
  BY DEF StepFails
<1>2. CASE call[c].pc = "cgroup" /\ call[c].op = "configure"
  BY <1>2, CgroupFails
<1>3. CASE call[c].pc = "cgroup" /\ call[c].op = "first"
  <2>1. End(c, TRUE, "none") /\ UNCHANGED <<link, made, rules, addrs, routes, classes>>
    BY <1>1, <1>3 DEF StepFails, CallAt, kernel
  <2> QED
    BY <1>1, <1>3, <2>1, ShortCallEnds
<1>4. CASE ~(call[c].pc = "cgroup" /\ call[c].op \in {"configure", "first"})
  <2>1. End(c, FALSE, "failed")
    BY <1>4 DEF StepFails, CallAt
  <2> QED
    BY <1>1, <2>1, FailKeeps
<1> QED
  BY <1>2, <1>3, <1>4

\* A call begins, and one that runs beside it is not clean any more.
LEMMA BeginKeeps ==
    ASSUME RouterInv, NEW c \in Callers, NEW o \in RouterOps, NEW pc \in RouterPcs, NEW li \in Limits, NEW lo \in Limits,
           NEW as \in SUBSET Addrs, Begin(c, o, pc, li, lo, as), pc # "idle",
           c = "conf" => o \in ConfOps,
           c = "net" => \/ o \in {"configure", "first"} /\ pc = "link"
                        \/ o = "addrs" /\ pc = "addrs"
                        \/ o = "deconfigure" /\ pc = "unrule"
    PROVE  RouterInv'
<1> DEFINE NoOther == \A e \in Callers : call[e].pc = "idle"
           AnswerIsNext == o = "deconfigure" /\ answer.op = "configure" /\ answer.ok
<1>1. /\ call[c].pc = "idle" /\ answer' = NoAnswer
      /\ UNCHANGED <<link, made, rules, addrs, routes, inLimit, classes, record>>
  BY DEF Begin, CallAt, kernel
<1>2. PICK k : k = [op |-> o, pc |-> pc, index |-> 0, in |-> li, out |-> lo, at |-> 0, todo |-> as, cur |-> {},
                    asked |-> as, clean |-> NoOther, next |-> AnswerIsNext]
  OBVIOUS
<1>3. call' = [d \in Callers |-> IF d # c THEN [call[d] EXCEPT !.clean = FALSE] ELSE k]
  BY <1>2 DEF Begin, CallAt
<1>4. li \in Nat /\ lo \in Nat /\ NoOther \in BOOLEAN /\ AnswerIsNext \in BOOLEAN /\ {} \in SUBSET Addrs
  BY SchemeAssumption DEF Limits
<1>5. k \in CallRecord /\ k.op = o /\ k.pc = pc /\ k.index = 0 /\ k.todo = k.asked /\ k.clean = NoOther
  <2> HIDE DEF NoOther, AnswerIsNext
  <2> QED
    BY <1>2, <1>4 DEF CallRecord
<1>6. Net \in CallRecord /\ Conf \in CallRecord /\ 0 \in 0..made /\ "net" \in Callers /\ "conf" \in Callers
  BY CallsAreRecords DEF RouterInv, Callers
<1>7. answer'.op = "none" /\ "none" \in ConfOps
  BY <1>1 DEF NoAnswer, ConfOps
<1>8. CASE c = "conf"
  <2>1. PICK n : n = [Net EXCEPT !.clean = FALSE]
    OBVIOUS
  <2>2. /\ n \in CallRecord /\ ~n.clean /\ n.op = Net.op /\ n.pc = Net.pc /\ n.index = Net.index /\ n.todo = Net.todo
        /\ n.cur = Net.cur /\ n.asked = Net.asked
    BY <1>6, <2>1 DEF CallRecord
  <2>3. call' \in [Callers -> CallRecord] /\ Net' = n /\ Conf' = k
    <3>1. call'["net"] = n /\ call'["conf"] = k /\ DOMAIN call' = Callers /\ call' = [d \in Callers |-> call'[d]]
      BY <1>3, <1>6, <1>8, <2>1 DEF Net
    <3> QED
      BY <1>5, <2>2, <3>1 DEF Net, Conf, Callers
  <2>4. RouterTypes' /\ OpsFit'
    BY <1>1, <1>5, <1>8, <2>2, <2>3 DEF RouterInv, RouterTypes, OpsFit, NetFits
  <2>5. NoOther => Net.pc = "idle"
    BY <1>6 DEF Net
  <2>6. Beside'
    BY <1>5, <1>7, <2>2, <2>3, <2>5 DEF Beside
  <2>7. Configuring(Net)' /\ Removing(Net)'
    BY <1>1, <2>2, <2>3 DEF RouterInv, Configuring, Removing
  <2> QED
    BY <1>7, <2>4, <2>6, <2>7 DEF RouterInv, ConfiguredIsComplete, DeconfiguredIsQuiet
<1>9. CASE c = "net"
  <2>1. PICK n : n = [Conf EXCEPT !.clean = FALSE]
    OBVIOUS
  <2>2. n \in CallRecord /\ ~n.clean /\ n.op = Conf.op /\ n.pc = Conf.pc
    BY <1>6, <2>1 DEF CallRecord
  <2>3. call' \in [Callers -> CallRecord] /\ Net' = k /\ Conf' = n
    <3>1. call'["conf"] = n /\ call'["net"] = k /\ DOMAIN call' = Callers /\ call' = [d \in Callers |-> call'[d]]
      BY <1>3, <1>6, <1>9, <2>1 DEF Conf
    <3> QED
      BY <1>5, <2>2, <3>1 DEF Net, Conf, Callers
  <2>4. RouterTypes' /\ OpsFit'
    BY <1>1, <1>5, <1>6, <1>9, <2>2, <2>3 DEF RouterInv, RouterTypes, OpsFit, NetFits, RemovalPcs
  <2>5. NoOther => Conf.pc = "idle"
    BY <1>6 DEF Conf
  <2>6. Beside'
    BY <1>5, <1>7, <2>2, <2>3, <2>5 DEF Beside
  <2>7. Configuring(Net)' /\ Removing(Net)'
    BY <1>5, <1>9, <2>3 DEF Configuring, Removing, Prefixing, AfterOut, AfterIn, AfterRules
  <2> QED
    BY <1>7, <2>4, <2>6, <2>7 DEF RouterInv, ConfiguredIsComplete, DeconfiguredIsQuiet
<1> QED
  BY <1>8, <1>9 DEF Callers

\* A new tap has an index that no configuration has found, and with a tap goes what was
\* on it.
LEMMA TapKeeps ==
    ASSUME RouterInv, TapAppears \/ TapGoes
    PROVE  RouterInv'
<1>1. UNCHANGED <<rules, classes, call>> /\ answer'.op = "none" /\ made \in Nat /\ MaxIndex \in Nat /\ Net.index \in 0..made
  BY CallsAreRecords DEF TapAppears, TapGoes, NoAnswer, RouterInv, RouterTypes
<1>2. \/ /\ link' = made + 1 /\ made' = made + 1 /\ made' <= MaxIndex /\ UNCHANGED <<addrs, routes, inLimit>>
      \/ link' = 0 /\ UNCHANGED made /\ addrs' = {} /\ routes' = {} /\ inLimit' = 0
  BY <1>1 DEF TapAppears, TapGoes
<1>3. Net' = Net /\ Conf' = Conf
  BY <1>1 DEF Net, Conf
<1>4. RouterTypes'
  BY <1>1, <1>2, <1>3 DEF RouterInv, RouterTypes
<1>5. OpsFit' /\ Beside'
  BY <1>1, <1>3 DEF RouterInv, OpsFit, NetFits, Beside, ConfOps
<1>6. Configuring(Net)' /\ Removing(Net)'
  BY <1>1, <1>2, <1>3 DEF RouterInv, Configuring, Removing
<1> QED
  BY <1>1, <1>4, <1>5, <1>6 DEF RouterInv, ConfiguredIsComplete, DeconfiguredIsQuiet

\* The calls begin.
LEMMA CallsBegin ==
    ASSUME RouterInv, \/ RouterConfigure \/ RouterDeconfigure \/ RouterSetInboundLimits \/ RouterSetOutboundLimits
                      \/ \E c \in Callers : RouterConfigureAddrs(c)
    PROVE  RouterInv'
<1> USE DEF Callers, ConfOps, RouterOps, RouterPcs, RemovalPcs, AfterRules, AfterIn, AfterOut, Prefixing
<1>1. 0 \in Limits /\ {} \in SUBSET Addrs
  BY SchemeAssumption DEF Limits
<1>2. CASE RouterConfigure
  BY <1>2, BeginKeeps DEF RouterConfigure
<1>3. CASE RouterDeconfigure
  BY <1>1, <1>3, BeginKeeps DEF RouterDeconfigure
<1>4. CASE RouterSetInboundLimits
  BY <1>1, <1>4, BeginKeeps DEF RouterSetInboundLimits
<1>5. CASE RouterSetOutboundLimits
  BY <1>1, <1>5, BeginKeeps DEF RouterSetOutboundLimits
<1>6. CASE \E c \in Callers : RouterConfigureAddrs(c)
  BY <1>1, <1>6, BeginKeeps DEF RouterConfigureAddrs
<1> QED
  BY <1>2, <1>3, <1>4, <1>5, <1>6

\* A request of either call keeps the invariant.
LEMMA RequestKeeps ==
    ASSUME RouterInv, NEW c \in Callers,
           \/ StepFails(c) \/ FindLink(c)
           \/ \E f \in Blackholes : routerCreateBlackholeRules(c, f)
           \/ routerSetInboundLimits(c) \/ routerSetOutboundLimits(c) \/ SetNetClassID(c) \/ WriteRecord(c)
           \/ FindLinkAgain(c) \/ (\E a \in Addrs : AddAddr(c, a)) \/ AddRoute(c) \/ routerAddRule(c)
           \/ routerAnnounceGateways(c)
    PROVE  RouterInv'
<1>1. CASE \E f \in Blackholes : routerCreateBlackholeRules(c, f)
  <2>1. PICK f \in Blackholes : routerCreateBlackholeRules(c, f)
    BY <1>1
  <2>2. CASE f \in rules
    <3>1. End(c, FALSE, "exists") /\ UNCHANGED kernel /\ call[c].pc # "idle"
      BY <2>1, <2>2 DEF routerCreateBlackholeRules, kernel, CallAt, Blackholes
    <3> QED
      BY <3>1, FailKeeps
  <2>3. CASE f \notin rules
    BY <2>1, <2>3, InetKeeps, Inet6Keeps DEF Blackholes
  <2> QED
    BY <2>2, <2>3
<1>2. CASE routerSetInboundLimits(c)
  <2>1. CASE link = 0 /\ call[c].in > 0
    <3>1. End(c, FALSE, "no link") /\ UNCHANGED kernel /\ call[c].pc # "idle"
      BY <1>2, <2>1 DEF routerSetInboundLimits, kernel, CallAt
    <3> QED
      BY <3>1, FailKeeps
  <2>2. CASE ~(link = 0 /\ call[c].in > 0) /\ call[c].op = "inbound"
    <3>1. /\ End(c, TRUE, "none") /\ UNCHANGED <<link, made, rules, addrs, routes, classes>>
          /\ call[c].pc # "idle" /\ call[c].op \notin {"configure", "deconfigure"}
      BY <1>2, <2>2 DEF routerSetInboundLimits, CallAt
    <3> QED
      BY <3>1, ShortCallEnds
  <2> QED
    BY <1>2, <2>1, <2>2, InKeeps
<1>3. CASE WriteRecord(c)
  <2>1. CASE call[c].op # "configure"
    <3>1. /\ End(c, TRUE, "none") /\ UNCHANGED <<link, made, rules, addrs, routes, classes>>
          /\ call[c].pc = "record"
      BY <1>3, <2>1 DEF WriteRecord, CallAt
    <3>2. call[c].op # "deconfigure"
      BY <3>1 DEF RouterInv, OpsFit, NetFits, ConfOps, RemovalPcs, Callers, Net, Conf
    <3> QED
      BY <2>1, <3>1, <3>2, ShortCallEnds
  <2> QED
    BY <1>3, <2>1, RecordKeeps
<1>4. CASE AddRoute(c)
  <2>1. CASE link # call[c].at
    <3>1. End(c, FALSE, "no link") /\ UNCHANGED kernel /\ call[c].pc # "idle"
      BY <1>4, <2>1 DEF AddRoute, kernel, CallAt
    <3> QED
      BY <3>1, FailKeeps
  <2> QED
    BY <1>4, <2>1, RouteKeeps
<1>5. CASE routerAddRule(c)
  <2>1. CASE call[c].cur \subseteq rules
    <3>1. End(c, FALSE, "exists") /\ UNCHANGED kernel /\ call[c].pc # "idle"
      BY <1>5, <2>1 DEF routerAddRule, kernel, CallAt
    <3> QED
      BY <3>1, FailKeeps
  <2> QED
    BY <1>5, <2>1, RuleKeeps
<1> QED
  BY <1>1, <1>2, <1>3, <1>4, <1>5, StepFailsKeeps, FindLinkKeeps, OutKeeps, CgroupKeeps, FindLinkAgainKeeps,
     AddAddrKeeps, ConfigurationEnds

\* Every step of the host keeps the invariant.
LEMMA RouterStepKeeps ==
    ASSUME RouterInv, RouterNext
    PROVE  RouterInv'
<1>1. CASE RemoveRecord
  BY <1>1, RemovalEnds DEF RemoveRecord, CallAt, Net
<1> QED
  BY <1>1, TapKeeps, CallsBegin, RequestKeeps, UnruleKeeps, Unrule6Keeps, UnlinkKeeps, UnclassKeeps DEF RouterNext

\* A configuration of a routed interface that was answered without an error is on its tap
\* with every rule, route and address, even if an update ran beside it, and with its limits
\* if none did; a removal beside which none ran, and none of whose requests failed, leaves
\* nothing of them: for any prefixes and limits, however many taps and calls there are, and
\* wherever a request before has failed (RouterConfigureInterface, RouterConfigureAddrs,
\* RouterDeconfigure).
THEOREM RoutedLinkIsAsAsked == RouterSpec => []LinkIsAsAsked
<1>1. RouterInit => RouterInv
  <2> SUFFICES ASSUME RouterInit
               PROVE  RouterInv
    OBVIOUS
  <2>1. MaxIndex \in Nat /\ 0 \in 0..0 /\ 0 \in 0..MaxIndex /\ Idle \in CallRecord
    BY SchemeAssumption DEF Idle, CallRecord, RouterOps, ConfOps, RouterPcs
  <2>2. Net = Idle /\ Conf = Idle /\ call \in [Callers -> CallRecord]
    BY <2>1 DEF RouterInit, Callers, Net, Conf
  <2>3. Idle.op = "none" /\ Idle.pc = "idle" /\ ~Idle.clean /\ Idle.index = 0 /\ answer.op = "none"
    BY DEF Idle, RouterInit, NoAnswer
  <2>4. classes \in [Indexes -> Nat]
    BY DEF RouterInit
  <2>5. RouterTypes /\ OpsFit /\ Beside
    BY <2>1, <2>2, <2>3, <2>4 DEF RouterInit, RouterTypes, OpsFit, NetFits, Beside, ConfOps, RemovalPcs
  <2>6. Configuring(Net) /\ Removing(Net) /\ ConfiguredIsComplete /\ DeconfiguredIsQuiet
    BY <2>2, <2>3 DEF Configuring, Removing, ConfiguredIsComplete, DeconfiguredIsQuiet
  <2> QED
    BY <2>5, <2>6 DEF RouterInv
<1>2. RouterInv /\ [RouterNext]_routerVars => RouterInv'
  <2>1. ASSUME RouterInv, UNCHANGED routerVars
        PROVE  RouterInv'
    <3>1. UNCHANGED <<link, made, rules, addrs, routes, inLimit, classes, record, call, answer>>
      BY <2>1 DEF routerVars, kernel
    <3>2. RouterTypes' /\ OpsFit' /\ Beside'
      BY <2>1, <3>1 DEF RouterInv, RouterTypes, OpsFit, NetFits, Beside, Net, Conf
    <3>3. Configuring(Net)' /\ Removing(Net)'
      BY <2>1, <3>1 DEF RouterInv, Configuring, Removing, Net
    <3>4. ConfiguredIsComplete' /\ DeconfiguredIsQuiet'
      BY <2>1, <3>1 DEF RouterInv, ConfiguredIsComplete, DeconfiguredIsQuiet
    <3> QED
      BY <3>2, <3>3, <3>4 DEF RouterInv
  <2> QED
    BY <2>1, RouterStepKeeps
<1>3. RouterInv => LinkIsAsAsked
  BY DEF RouterInv, LinkIsAsAsked
<1> QED
  BY <1>1, <1>2, <1>3, PTL DEF RouterSpec

(***************************************************************************)
(* Proofs for BridgePorts.                                                 *)
(***************************************************************************)

\* The call for a tap is k now, and the other calls are as they were.
CallIs(t, k) ==
    task' \in [Taps -> TaskType] /\ task'[t] = k /\ \A u \in Taps \ {t} : task'[u] = task[u]

\* A running call of one tap takes a step: who else runs is idle, unless calls
\* have overlapped.
LEMMA CallMoves ==
    ASSUME PortInv, NEW t \in Taps, Busy(t), NEW k \in TaskType, Fits(k), NEW o \in {"failed"} \cup PortOps,
           k.pc # "idle" => o = "none", UNCHANGED raced,
           CallIs(t, k), outcome' = [outcome EXCEPT ![t] = o],
           DeviceTypes', TapTypes', ~raced => Seen(t)',
           ~raced => \A u \in Taps : outcome'[u] = "vxlan" /\ tap'[u] => Connected(u)'
    PROVE  PortInv'
<1>1. TaskTypes'
  BY DEF PortInv, TaskTypes, CallIs
<1>2. /\ task'[t] = k /\ outcome'[t] = o
      /\ \A u \in Taps \ {t} : task'[u] = task[u] /\ outcome'[u] = outcome[u]
  BY DEF PortInv, TaskTypes, CallIs
<1>3. PortPcs'
  <2>1. \A u \in Taps : Fits(task'[u]) /\ (task'[u].pc # "idle" => outcome'[u] = "none")
    BY <1>2 DEF PortInv, PortPcs, Busy
  <2> QED
    BY <2>1 DEF PortPcs, Busy, Fits
<1>4. Alone'
  BY <1>2 DEF PortInv, Alone, Busy
<1>5. SeenIsTrue'
  <2> SUFFICES ASSUME ~raced, NEW u \in Taps
               PROVE  Seen(u)'
    BY DEF SeenIsTrue
  <2>1. CASE u = t
    BY <2>1
  <2>2. CASE u # t
    <3>1. task'[u].pc = "idle"
      BY <1>2, <2>2 DEF PortInv, Alone, Busy
    <3>2. task'[u].op = "none"
      BY <1>3, <3>1 DEF PortPcs, Fits, VxlanPcs, UnvxlanPcs
    <3> QED
      BY <3>1, <3>2 DEF Seen
  <2> QED
    BY <2>1, <2>2
<1>6. ConnectedUnlessRaced'
  BY DEF ConnectedUnlessRaced
<1> QED
  BY <1>1, <1>3, <1>4, <1>5, <1>6 DEF PortInv

\* What the invariant says about the running call of a tap.
LEMMA TaskFacts ==
    ASSUME PortInv, NEW t \in Taps
    PROVE  /\ task[t] \in TaskType /\ Fits(task[t]) /\ raced \in BOOLEAN
           /\ Busy(t) => outcome[t] = "none"
           /\ ~raced => Seen(t)
           /\ ~raced => \A u \in Taps : outcome[u] = "vxlan" /\ tap[u] => Connected(u)
<1> QED
  BY DEF PortInv, TaskTypes, PortPcs, SeenIsTrue, ConnectedUnlessRaced

\* A call ends without a change of the devices.
LEMMA CallEnds ==
    ASSUME PortInv, NEW t \in Taps, Busy(t), NEW o \in {"failed"} \cup PortOps, Done(t, o), DeviceTypes', TapTypes',
           ~raced => \A u \in Taps : outcome'[u] = "vxlan" /\ tap'[u] => Connected(u)'
    PROVE  PortInv'
<1>1. task' = [task EXCEPT ![t] = IdleTask] /\ outcome' = [outcome EXCEPT ![t] = o] /\ UNCHANGED raced
  BY DEF Done
<1>2. IdleTask \in TaskType /\ Fits(IdleTask) /\ IdleTask.pc = "idle" /\ IdleTask.op = "none"
  BY DEF IdleTask, TaskType, Fits, PortOps
<1>3. task'[t] = IdleTask /\ CallIs(t, IdleTask)
  BY <1>1, <1>2 DEF PortInv, TaskTypes, CallIs
<1>4. Seen(t)'
  BY <1>2, <1>3 DEF Seen
<1> QED
  BY <1>1, <1>2, <1>3, <1>4, CallMoves, Zenon

\* A call that fails leaves the devices as they are.
LEMMA CallFails ==
    ASSUME PortInv, NEW t \in Taps, Busy(t), Fail(t), UNCHANGED devices
    PROVE  PortInv'
<1>1. Done(t, "failed") /\ UNCHANGED <<br, vx, vxIn, tap, in, numbered>>
  BY DEF Fail, devices
<1>2. DeviceTypes' /\ TapTypes'
  BY <1>1 DEF PortInv, DeviceTypes, TapTypes
<1>3. \A u \in Taps : outcome'[u] = "vxlan" => outcome[u] = "vxlan"
  BY <1>1 DEF Done, PortInv, TaskTypes
<1>4. ~raced => \A u \in Taps : outcome'[u] = "vxlan" /\ tap'[u] => Connected(u)'
  BY <1>1, <1>3 DEF PortInv, ConnectedUnlessRaced, Connected
<1> QED
  BY <1>1, <1>2, <1>4, CallEnds

\* A call goes on; it has no outcome yet.
LEMMA CallGoesOn ==
    ASSUME PortInv, NEW t \in Taps, Busy(t), NEW k \in TaskType, Fits(k), k.pc # "idle",
           CallIs(t, k), UNCHANGED <<outcome, raced>>,
           DeviceTypes', TapTypes', ~raced => Seen(t)',
           ~raced => \A u \in Taps : outcome[u] = "vxlan" /\ tap'[u] => Connected(u)'
    PROVE  PortInv'
<1>1. outcome' = [outcome EXCEPT ![t] = "none"]
  BY DEF PortInv, TaskTypes, PortPcs
<1>2. "none" \in {"failed"} \cup PortOps
  BY DEF PortOps
<1>3. ~raced => \A u \in Taps : outcome'[u] = "vxlan" /\ tap'[u] => Connected(u)'
  OBVIOUS
<1> QED
  BY <1>1, <1>2, <1>3, CallMoves, Zenon

\* A call begins: it has overlapped with every other one that runs.
LEMMA CallBegins ==
    ASSUME PortInv, NEW t \in Taps, NEW op, NEW pc, BeginTask(t, op, pc),
           \/ op = "vxlan" /\ pc = "find br"
           \/ op = "unvxlan" /\ pc = "del tap"
           \/ op = "bridge" /\ pc = "tap in"
           \/ op = "unbridge" /\ pc = "tap out"
    PROVE  PortInv'
<1>1. PICK k : k = [IdleTask EXCEPT !.op = op, !.pc = pc]
  OBVIOUS
<1>2. /\ task' = [task EXCEPT ![t] = k] /\ outcome' = [outcome EXCEPT ![t] = "none"]
      /\ raced' = (raced \/ \E u \in Taps : task[u].pc # "idle") /\ UNCHANGED <<br, vx, vxIn, tap, in, numbered>>
  BY <1>1 DEF BeginTask, devices
<1>3. k = [op |-> op, pc |-> pc, br |-> 0, vx |-> 0]
  BY <1>1 DEF IdleTask
<1>4. k \in TaskType /\ Fits(k) /\ k.op = op /\ k.pc = pc
  BY <1>3 DEF TaskType, Fits, PortOps, VxlanPcs, UnvxlanPcs
<1>5. /\ task'[t] = k /\ outcome'[t] = "none"
      /\ \A u \in Taps \ {t} : task'[u] = task[u] /\ outcome'[u] = outcome[u]
  BY <1>2 DEF PortInv, TaskTypes
<1>6. DeviceTypes' /\ TapTypes' /\ TaskTypes'
  <2>1. "none" \in PortOps /\ raced' \in BOOLEAN
    BY <1>2 DEF PortOps
  <2> QED
    BY <1>2, <1>4, <2>1 DEF PortInv, DeviceTypes, TapTypes, TaskTypes
<1>7. PortPcs'
  <2>1. \A u \in Taps : Fits(task'[u]) /\ (task'[u].pc # "idle" => outcome'[u] = "none")
    BY <1>4, <1>5 DEF PortInv, PortPcs, Busy
  <2> QED
    BY <2>1 DEF PortPcs, Busy, Fits
<1>8. ~raced' => \A u \in Taps : task[u].pc = "idle"
  BY <1>2
<1>9. Alone'
  BY <1>5, <1>8 DEF Alone, Busy
<1>10. SeenIsTrue'
  <2> SUFFICES ASSUME ~raced', NEW u \in Taps
               PROVE  Seen(u)'
    BY DEF SeenIsTrue
  <2>1. CASE u = t
    <3>1. task'[t].op = op /\ task'[t].pc = pc
      BY <1>4, <1>5
    <3> QED
      BY <2>1, <3>1 DEF Seen
  <2>2. CASE u # t
    <3>1. task'[u].pc = "idle"
      BY <1>5, <1>8, <2>2
    <3>2. task'[u].op = "none"
      BY <1>7, <3>1 DEF PortPcs, Fits, VxlanPcs, UnvxlanPcs
    <3> QED
      BY <3>1, <3>2 DEF Seen
  <2> QED
    BY <2>1, <2>2
<1>11. ConnectedUnlessRaced'
  BY <1>2, <1>5 DEF PortInv, ConnectedUnlessRaced, Connected
<1> QED
  BY <1>6, <1>7, <1>9, <1>10, <1>11 DEF PortInv

\* A tap appears: there is no call for it.
LEMMA PortAppearsKeeps ==
    ASSUME PortInv, NEW t \in Taps, PortAppears(t)
    PROVE  PortInv'
<1>1. /\ ~tap[t] /\ task[t].pc = "idle" /\ tap' = [tap EXCEPT ![t] = TRUE] /\ outcome' = [outcome EXCEPT ![t] = "none"]
      /\ UNCHANGED <<br, vx, vxIn, in, numbered, task, raced>>
  BY DEF PortAppears
<1>2. /\ tap' \in [Taps -> BOOLEAN] /\ tap'[t] /\ \A u \in Taps \ {t} : tap'[u] = tap[u]
      /\ outcome'[t] = "none" /\ \A u \in Taps \ {t} : outcome'[u] = outcome[u]
  BY <1>1 DEF PortInv, TapTypes, TaskTypes
<1>3. DeviceTypes' /\ TapTypes' /\ TaskTypes'
  <2>1. "none" \in PortOps
    BY DEF PortOps
  <2>2. TaskTypes'
    BY <1>1, <2>1 DEF PortInv, TaskTypes
  <2> QED
    BY <1>1, <1>2, <2>2 DEF PortInv, DeviceTypes, TapTypes
<1>4. PortPcs' /\ Alone'
  <2>1. \A u \in Taps : Fits(task'[u]) /\ (task'[u].pc # "idle" => outcome'[u] = "none")
    BY <1>1, <1>2 DEF PortInv, PortPcs, Busy
  <2>2. PortPcs'
    BY <2>1 DEF PortPcs, Busy, Fits
  <2> QED
    BY <1>1, <2>2 DEF PortInv, Alone, Busy
<1>5. SeenIsTrue'
  BY <1>1, <1>2 DEF PortInv, SeenIsTrue, Seen
<1>6. ConnectedUnlessRaced'
  BY <1>1, <1>2 DEF PortInv, ConnectedUnlessRaced, Connected
<1> QED
  BY <1>3, <1>4, <1>5, <1>6 DEF PortInv

\* A tap goes, and with it its place in the bridge.
LEMMA PortGoesKeeps ==
    ASSUME PortInv, NEW t \in Taps, PortGoes(t)
    PROVE  PortInv'
<1>1. /\ tap' = [tap EXCEPT ![t] = FALSE] /\ in' = [in EXCEPT ![t] = 0] /\ outcome' = [outcome EXCEPT ![t] = "none"]
      /\ UNCHANGED <<br, vx, vxIn, numbered, task, raced>>
  BY DEF PortGoes
<1>2. /\ tap' \in [Taps -> BOOLEAN] /\ ~tap'[t] /\ \A u \in Taps \ {t} : tap'[u] = tap[u]
      /\ in' \in [Taps -> Nat] /\ in'[t] = 0 /\ \A u \in Taps \ {t} : in'[u] = in[u]
      /\ outcome'[t] = "none" /\ \A u \in Taps \ {t} : outcome'[u] = outcome[u]
  BY <1>1 DEF PortInv, TapTypes, TaskTypes
<1>3. DeviceTypes' /\ TapTypes' /\ TaskTypes'
  <2>1. "none" \in PortOps
    BY DEF PortOps
  <2>2. TaskTypes'
    BY <1>1, <2>1 DEF PortInv, TaskTypes
  <2> QED
    BY <1>1, <1>2, <2>2 DEF PortInv, DeviceTypes, TapTypes, HostBridge
<1>4. PortPcs' /\ Alone'
  <2>1. \A u \in Taps : Fits(task'[u]) /\ (task'[u].pc # "idle" => outcome'[u] = "none")
    BY <1>1, <1>2 DEF PortInv, PortPcs, Busy
  <2>2. PortPcs'
    BY <2>1 DEF PortPcs, Busy, Fits
  <2> QED
    BY <1>1, <2>2 DEF PortInv, Alone, Busy
<1>5. SeenIsTrue'
  BY <1>1, <1>2 DEF PortInv, SeenIsTrue, Seen
<1>6. ConnectedUnlessRaced'
  BY <1>1, <1>2 DEF PortInv, ConnectedUnlessRaced, Connected
<1> QED
  BY <1>3, <1>4, <1>5, <1>6 DEF PortInv

\* The bridge is looked up.
LEMMA FindBridgeKeeps ==
    ASSUME PortInv, NEW t \in Taps, FindBridge(t)
    PROVE  PortInv'
<1>1. task[t].pc = "find br" /\ Busy(t)
  BY DEF FindBridge, At, Busy
<1>2. /\ task[t] \in TaskType /\ Fits(task[t]) /\ (~raced => Seen(t))
      /\ ~raced => \A u \in Taps : outcome[u] = "vxlan" /\ tap[u] => Connected(u)
  BY TaskFacts
<1>3. PICK k : k = [op |-> task[t].op, pc |-> IF br = 0 THEN "add br" ELSE "find vx", br |-> br, vx |-> task[t].vx]
  OBVIOUS
<1>4. UNCHANGED <<outcome, raced>>
  BY <1>2 DEF FindBridge, TaskGoto
<1>5. TRUE
  BY <1>2 DEF FindBridge, devices
<1>6. UNCHANGED <<br, vx, vxIn, tap, in, numbered>>
  BY DEF FindBridge, devices
<1>7. k \in TaskType /\ Fits(k) /\ k.pc # "idle" /\ k.op = task[t].op /\ k.pc = (IF br = 0 THEN "add br" ELSE "find vx") /\ k.br = br /\ k.vx = task[t].vx
  <2>1. br \in Nat /\ vx \in Nat /\ numbered + 1 \in Nat /\ numbered + 1 # 0
    BY PortAssumption DEF PortInv, DeviceTypes
  <2>2. task[t].op \in PortOps /\ task[t].br \in Nat /\ task[t].vx \in Nat
    BY <1>2 DEF TaskType
  <2>3. (IF br = 0 THEN "add br" ELSE "find vx") \in VxlanPcs \cup UnvxlanPcs
    BY DEF VxlanPcs, UnvxlanPcs
  <2>4. k \in TaskType /\ k.op = task[t].op /\ k.pc = (IF br = 0 THEN "add br" ELSE "find vx") /\ k.br = br /\ k.vx = task[t].vx
    BY <1>3, <2>1, <2>2, <2>3 DEF TaskType
  <2> QED
    BY <1>1, <1>2, <2>1, <2>4 DEF Fits, VxlanPcs, UnvxlanPcs
<1>8. DeviceTypes' /\ TapTypes'
  <2>1. DeviceTypes'
    BY <1>5, <1>6, PortAssumption DEF PortInv, DeviceTypes
  <2>2. TapTypes'
    BY <1>5, <1>6 DEF PortInv, TapTypes, HostBridge
  <2> QED
    BY <2>1, <2>2
<1>9. CallIs(t, k) /\ task'[t] = k
  <2>1. task' = [task EXCEPT ![t].pc = IF br = 0 THEN "add br" ELSE "find vx", ![t].br = br]
    BY <1>2 DEF FindBridge, TaskGoto
  <2>2. task \in [Taps -> TaskType]
    BY DEF PortInv, TaskTypes
  <2>3. task'[t] = k /\ DOMAIN task' = Taps /\ \A u \in Taps \ {t} : task'[u] = task[u]
    BY <1>2, <1>3, <2>1, <2>2 DEF TaskType
  <2>4. task' = [u \in Taps |-> task'[u]]
    BY <2>1, <2>2
  <2> QED
    BY <1>7, <2>2, <2>3, <2>4 DEF CallIs
<1>10. ~raced => Seen(t)'
  <2>1. numbered + 1 # 0
    BY PortAssumption DEF PortInv, DeviceTypes
  <2> QED
    BY <2>1, <1>1, <1>2, <1>5, <1>6, <1>7, <1>9 DEF Seen, Fits, VxlanPcs, UnvxlanPcs
<1>11. ~raced => \A u \in Taps : outcome[u] = "vxlan" /\ tap'[u] => Connected(u)'
  BY <1>1, <1>2, <1>5, <1>6 DEF PortInv, PortPcs, Busy, Connected, Seen, TapTypes
<1> QED
  BY <1>1, <1>4, <1>7, <1>8, <1>9, <1>10, <1>11, CallGoesOn

\* The bridge is made.
LEMMA CreateBridgeKeeps ==
    ASSUME PortInv, NEW t \in Taps, CreateBridge(t), br = 0
    PROVE  PortInv'
<1>1. task[t].pc = "add br" /\ Busy(t)
  BY DEF CreateBridge, At, Busy
<1>2. /\ task[t] \in TaskType /\ Fits(task[t]) /\ (~raced => Seen(t))
      /\ ~raced => \A u \in Taps : outcome[u] = "vxlan" /\ tap[u] => Connected(u)
  BY TaskFacts
<1>3. PICK k : k = [op |-> task[t].op, pc |-> "find vx", br |-> numbered + 1, vx |-> task[t].vx]
  OBVIOUS
<1>4. UNCHANGED <<outcome, raced>>
  BY <1>2 DEF CreateBridge, TaskGoto
<1>5. br' = numbered + 1 /\ numbered' = numbered + 1 /\ numbered < MaxMade
  BY <1>2 DEF CreateBridge, devices
<1>6. UNCHANGED <<vx, vxIn, tap, in>>
  BY DEF CreateBridge, devices
<1>7. k \in TaskType /\ Fits(k) /\ k.pc # "idle" /\ k.op = task[t].op /\ k.pc = "find vx" /\ k.br = numbered + 1 /\ k.vx = task[t].vx
  <2>1. br \in Nat /\ vx \in Nat /\ numbered + 1 \in Nat /\ numbered + 1 # 0
    BY PortAssumption DEF PortInv, DeviceTypes
  <2>2. task[t].op \in PortOps /\ task[t].br \in Nat /\ task[t].vx \in Nat
    BY <1>2 DEF TaskType
  <2>3. "find vx" \in VxlanPcs \cup UnvxlanPcs
    BY DEF VxlanPcs, UnvxlanPcs
  <2>4. k \in TaskType /\ k.op = task[t].op /\ k.pc = "find vx" /\ k.br = numbered + 1 /\ k.vx = task[t].vx
    BY <1>3, <2>1, <2>2, <2>3 DEF TaskType
  <2> QED
    BY <1>1, <1>2, <2>1, <2>4 DEF Fits, VxlanPcs, UnvxlanPcs
<1>8. DeviceTypes' /\ TapTypes'
  <2>1. DeviceTypes'
    BY <1>5, <1>6, PortAssumption DEF PortInv, DeviceTypes
  <2>2. TapTypes'
    BY <1>5, <1>6 DEF PortInv, TapTypes, HostBridge
  <2> QED
    BY <2>1, <2>2
<1>9. CallIs(t, k) /\ task'[t] = k
  <2>1. task' = [task EXCEPT ![t].pc = "find vx", ![t].br = numbered + 1]
    BY <1>2 DEF CreateBridge, TaskGoto
  <2>2. task \in [Taps -> TaskType]
    BY DEF PortInv, TaskTypes
  <2>3. task'[t] = k /\ DOMAIN task' = Taps /\ \A u \in Taps \ {t} : task'[u] = task[u]
    BY <1>2, <1>3, <2>1, <2>2 DEF TaskType
  <2>4. task' = [u \in Taps |-> task'[u]]
    BY <2>1, <2>2
  <2> QED
    BY <1>7, <2>2, <2>3, <2>4 DEF CallIs
<1>10. ~raced => Seen(t)'
  <2>1. numbered + 1 # 0
    BY PortAssumption DEF PortInv, DeviceTypes
  <2> QED
    BY <2>1, <1>1, <1>2, <1>5, <1>6, <1>7, <1>9 DEF Seen, Fits, VxlanPcs, UnvxlanPcs
<1>11. ~raced => \A u \in Taps : outcome[u] = "vxlan" /\ tap'[u] => Connected(u)'
  BY <1>1, <1>2, <1>5, <1>6 DEF PortInv, PortPcs, Busy, Connected, Seen, TapTypes
<1> QED
  BY <1>1, <1>4, <1>7, <1>8, <1>9, <1>10, <1>11, CallGoesOn

\* The vxlan device is looked up.
LEMMA FindVxlanKeeps ==
    ASSUME PortInv, NEW t \in Taps, FindVxlan(t), task[t].br = br
    PROVE  PortInv'
<1>1. task[t].pc = "find vx" /\ Busy(t)
  BY DEF FindVxlan, At, Busy
<1>2. /\ task[t] \in TaskType /\ Fits(task[t]) /\ (~raced => Seen(t))
      /\ ~raced => \A u \in Taps : outcome[u] = "vxlan" /\ tap[u] => Connected(u)
  BY TaskFacts
<1>3. PICK k : k = [op |-> task[t].op, pc |-> IF vx = 0 THEN "add vx" ELSE "vx in", br |-> task[t].br, vx |-> vx]
  OBVIOUS
<1>4. UNCHANGED <<outcome, raced>>
  BY <1>2 DEF FindVxlan, TaskGoto
<1>5. task[t].br = br
  BY <1>2 DEF FindVxlan, devices
<1>6. UNCHANGED <<br, vx, vxIn, tap, in, numbered>>
  BY DEF FindVxlan, devices
<1>7. k \in TaskType /\ Fits(k) /\ k.pc # "idle" /\ k.op = task[t].op /\ k.pc = (IF vx = 0 THEN "add vx" ELSE "vx in") /\ k.br = task[t].br /\ k.vx = vx
  <2>1. br \in Nat /\ vx \in Nat /\ numbered + 1 \in Nat /\ numbered + 1 # 0
    BY PortAssumption DEF PortInv, DeviceTypes
  <2>2. task[t].op \in PortOps /\ task[t].br \in Nat /\ task[t].vx \in Nat
    BY <1>2 DEF TaskType
  <2>3. (IF vx = 0 THEN "add vx" ELSE "vx in") \in VxlanPcs \cup UnvxlanPcs
    BY DEF VxlanPcs, UnvxlanPcs
  <2>4. k \in TaskType /\ k.op = task[t].op /\ k.pc = (IF vx = 0 THEN "add vx" ELSE "vx in") /\ k.br = task[t].br /\ k.vx = vx
    BY <1>3, <2>1, <2>2, <2>3 DEF TaskType
  <2> QED
    BY <1>1, <1>2, <2>1, <2>4 DEF Fits, VxlanPcs, UnvxlanPcs
<1>8. DeviceTypes' /\ TapTypes'
  <2>1. DeviceTypes'
    BY <1>5, <1>6, PortAssumption DEF PortInv, DeviceTypes
  <2>2. TapTypes'
    BY <1>5, <1>6 DEF PortInv, TapTypes, HostBridge
  <2> QED
    BY <2>1, <2>2
<1>9. CallIs(t, k) /\ task'[t] = k
  <2>1. task' = [task EXCEPT ![t].pc = IF vx = 0 THEN "add vx" ELSE "vx in", ![t].vx = vx]
    BY <1>2 DEF FindVxlan, TaskGoto
  <2>2. task \in [Taps -> TaskType]
    BY DEF PortInv, TaskTypes
  <2>3. task'[t] = k /\ DOMAIN task' = Taps /\ \A u \in Taps \ {t} : task'[u] = task[u]
    BY <1>2, <1>3, <2>1, <2>2 DEF TaskType
  <2>4. task' = [u \in Taps |-> task'[u]]
    BY <2>1, <2>2
  <2> QED
    BY <1>7, <2>2, <2>3, <2>4 DEF CallIs
<1>10. ~raced => Seen(t)'
  <2>1. numbered + 1 # 0
    BY PortAssumption DEF PortInv, DeviceTypes
  <2> QED
    BY <2>1, <1>1, <1>2, <1>5, <1>6, <1>7, <1>9 DEF Seen, Fits, VxlanPcs, UnvxlanPcs
<1>11. ~raced => \A u \in Taps : outcome[u] = "vxlan" /\ tap'[u] => Connected(u)'
  BY <1>1, <1>2, <1>5, <1>6 DEF PortInv, PortPcs, Busy, Connected, Seen, TapTypes
<1> QED
  BY <1>1, <1>4, <1>7, <1>8, <1>9, <1>10, <1>11, CallGoesOn

\* The vxlan device is made.
LEMMA CreateVxlanKeeps ==
    ASSUME PortInv, NEW t \in Taps, CreateVxlan(t), vx = 0
    PROVE  PortInv'
<1>1. task[t].pc = "add vx" /\ Busy(t)
  BY DEF CreateVxlan, At, Busy
<1>2. /\ task[t] \in TaskType /\ Fits(task[t]) /\ (~raced => Seen(t))
      /\ ~raced => \A u \in Taps : outcome[u] = "vxlan" /\ tap[u] => Connected(u)
  BY TaskFacts
<1>3. PICK k : k = [op |-> task[t].op, pc |-> "vx in", br |-> task[t].br, vx |-> numbered + 1]
  OBVIOUS
<1>4. UNCHANGED <<outcome, raced>>
  BY <1>2 DEF CreateVxlan, TaskGoto
<1>5. vx' = numbered + 1 /\ vxIn' = 0 /\ numbered' = numbered + 1 /\ numbered < MaxMade
  BY <1>2 DEF CreateVxlan, devices
<1>6. UNCHANGED <<br, tap, in>>
  BY DEF CreateVxlan, devices
<1>7. k \in TaskType /\ Fits(k) /\ k.pc # "idle" /\ k.op = task[t].op /\ k.pc = "vx in" /\ k.br = task[t].br /\ k.vx = numbered + 1
  <2>1. br \in Nat /\ vx \in Nat /\ numbered + 1 \in Nat /\ numbered + 1 # 0
    BY PortAssumption DEF PortInv, DeviceTypes
  <2>2. task[t].op \in PortOps /\ task[t].br \in Nat /\ task[t].vx \in Nat
    BY <1>2 DEF TaskType
  <2>3. "vx in" \in VxlanPcs \cup UnvxlanPcs
    BY DEF VxlanPcs, UnvxlanPcs
  <2>4. k \in TaskType /\ k.op = task[t].op /\ k.pc = "vx in" /\ k.br = task[t].br /\ k.vx = numbered + 1
    BY <1>3, <2>1, <2>2, <2>3 DEF TaskType
  <2> QED
    BY <1>1, <1>2, <2>1, <2>4 DEF Fits, VxlanPcs, UnvxlanPcs
<1>8. DeviceTypes' /\ TapTypes'
  <2>1. DeviceTypes'
    BY <1>5, <1>6, PortAssumption DEF PortInv, DeviceTypes
  <2>2. TapTypes'
    BY <1>5, <1>6 DEF PortInv, TapTypes, HostBridge
  <2> QED
    BY <2>1, <2>2
<1>9. CallIs(t, k) /\ task'[t] = k
  <2>1. task' = [task EXCEPT ![t].pc = "vx in", ![t].vx = numbered + 1]
    BY <1>2 DEF CreateVxlan, TaskGoto
  <2>2. task \in [Taps -> TaskType]
    BY DEF PortInv, TaskTypes
  <2>3. task'[t] = k /\ DOMAIN task' = Taps /\ \A u \in Taps \ {t} : task'[u] = task[u]
    BY <1>2, <1>3, <2>1, <2>2 DEF TaskType
  <2>4. task' = [u \in Taps |-> task'[u]]
    BY <2>1, <2>2
  <2> QED
    BY <1>7, <2>2, <2>3, <2>4 DEF CallIs
<1>10. ~raced => Seen(t)'
  <2>1. numbered + 1 # 0
    BY PortAssumption DEF PortInv, DeviceTypes
  <2> QED
    BY <2>1, <1>1, <1>2, <1>5, <1>6, <1>7, <1>9 DEF Seen, Fits, VxlanPcs, UnvxlanPcs
<1>11. ~raced => \A u \in Taps : outcome[u] = "vxlan" /\ tap'[u] => Connected(u)'
  BY <1>1, <1>2, <1>5, <1>6 DEF PortInv, PortPcs, Busy, Connected, Seen, TapTypes
<1> QED
  BY <1>1, <1>4, <1>7, <1>8, <1>9, <1>10, <1>11, CallGoesOn

\* The vxlan device is put into the bridge.
LEMMA VxlanSetMasterKeeps ==
    ASSUME PortInv, NEW t \in Taps, VxlanSetMaster(t), task[t].vx = vx, task[t].br = br
    PROVE  PortInv'
<1>1. task[t].pc = "vx in" /\ Busy(t)
  BY DEF VxlanSetMaster, At, Busy
<1>2. /\ task[t] \in TaskType /\ Fits(task[t]) /\ (~raced => Seen(t))
      /\ ~raced => \A u \in Taps : outcome[u] = "vxlan" /\ tap[u] => Connected(u)
  BY TaskFacts
<1>3. PICK k : k = [op |-> task[t].op, pc |-> "tap in", br |-> task[t].br, vx |-> task[t].vx]
  OBVIOUS
<1>4. UNCHANGED <<outcome, raced>>
  BY <1>2 DEF VxlanSetMaster, TaskGoto
<1>5. vxIn' = br /\ vx # 0
  BY <1>2, <1>1 DEF Fits, VxlanPcs, UnvxlanPcs, VxlanSetMaster, devices
<1>6. UNCHANGED <<br, vx, tap, in, numbered>>
  BY DEF VxlanSetMaster, devices
<1>7. k \in TaskType /\ Fits(k) /\ k.pc # "idle" /\ k.op = task[t].op /\ k.pc = "tap in" /\ k.br = task[t].br /\ k.vx = task[t].vx
  <2>1. br \in Nat /\ vx \in Nat /\ numbered + 1 \in Nat /\ numbered + 1 # 0
    BY PortAssumption DEF PortInv, DeviceTypes
  <2>2. task[t].op \in PortOps /\ task[t].br \in Nat /\ task[t].vx \in Nat
    BY <1>2 DEF TaskType
  <2>3. "tap in" \in VxlanPcs \cup UnvxlanPcs
    BY DEF VxlanPcs, UnvxlanPcs
  <2>4. k \in TaskType /\ k.op = task[t].op /\ k.pc = "tap in" /\ k.br = task[t].br /\ k.vx = task[t].vx
    BY <1>3, <2>1, <2>2, <2>3 DEF TaskType
  <2> QED
    BY <1>1, <1>2, <2>1, <2>4 DEF Fits, VxlanPcs, UnvxlanPcs
<1>8. DeviceTypes' /\ TapTypes'
  <2>1. DeviceTypes'
    BY <1>5, <1>6, PortAssumption DEF PortInv, DeviceTypes
  <2>2. TapTypes'
    BY <1>5, <1>6 DEF PortInv, TapTypes, HostBridge
  <2> QED
    BY <2>1, <2>2
<1>9. CallIs(t, k) /\ task'[t] = k
  <2>1. task' = [task EXCEPT ![t].pc = "tap in"]
    BY <1>2 DEF VxlanSetMaster, TaskGoto
  <2>2. task \in [Taps -> TaskType]
    BY DEF PortInv, TaskTypes
  <2>3. task'[t] = k /\ DOMAIN task' = Taps /\ \A u \in Taps \ {t} : task'[u] = task[u]
    BY <1>2, <1>3, <2>1, <2>2 DEF TaskType
  <2>4. task' = [u \in Taps |-> task'[u]]
    BY <2>1, <2>2
  <2> QED
    BY <1>7, <2>2, <2>3, <2>4 DEF CallIs
<1>10. ~raced => Seen(t)'
  <2>1. numbered + 1 # 0
    BY PortAssumption DEF PortInv, DeviceTypes
  <2> QED
    BY <2>1, <1>1, <1>2, <1>5, <1>6, <1>7, <1>9 DEF Seen, Fits, VxlanPcs, UnvxlanPcs
<1>11. ~raced => \A u \in Taps : outcome[u] = "vxlan" /\ tap'[u] => Connected(u)'
  BY <1>1, <1>2, <1>5, <1>6 DEF PortInv, PortPcs, Busy, Connected, Seen, TapTypes
<1> QED
  BY <1>1, <1>4, <1>7, <1>8, <1>9, <1>10, <1>11, CallGoesOn

\* The tap of a removal goes.
LEMMA RemoveTapKeeps ==
    ASSUME PortInv, NEW t \in Taps, RemoveTap(t)
    PROVE  PortInv'
<1>1. task[t].pc = "del tap" /\ Busy(t)
  BY DEF RemoveTap, At, Busy
<1>2. /\ task[t] \in TaskType /\ Fits(task[t]) /\ (~raced => Seen(t))
      /\ ~raced => \A u \in Taps : outcome[u] = "vxlan" /\ tap[u] => Connected(u)
  BY TaskFacts
<1>3. PICK k : k = [op |-> task[t].op, pc |-> "list", br |-> task[t].br, vx |-> task[t].vx]
  OBVIOUS
<1>4. UNCHANGED <<outcome, raced>>
  BY <1>2 DEF RemoveTap, TaskGoto
<1>5. tap' = [tap EXCEPT ![t] = FALSE] /\ in' = [in EXCEPT ![t] = 0]
  BY <1>2 DEF RemoveTap, devices
<1>6. UNCHANGED <<br, vx, vxIn, numbered>>
  BY DEF RemoveTap, devices
<1>7. k \in TaskType /\ Fits(k) /\ k.pc # "idle" /\ k.op = task[t].op /\ k.pc = "list" /\ k.br = task[t].br /\ k.vx = task[t].vx
  <2>1. br \in Nat /\ vx \in Nat /\ numbered + 1 \in Nat /\ numbered + 1 # 0
    BY PortAssumption DEF PortInv, DeviceTypes
  <2>2. task[t].op \in PortOps /\ task[t].br \in Nat /\ task[t].vx \in Nat
    BY <1>2 DEF TaskType
  <2>3. "list" \in VxlanPcs \cup UnvxlanPcs
    BY DEF VxlanPcs, UnvxlanPcs
  <2>4. k \in TaskType /\ k.op = task[t].op /\ k.pc = "list" /\ k.br = task[t].br /\ k.vx = task[t].vx
    BY <1>3, <2>1, <2>2, <2>3 DEF TaskType
  <2> QED
    BY <1>1, <1>2, <2>1, <2>4 DEF Fits, VxlanPcs, UnvxlanPcs
<1>8. DeviceTypes' /\ TapTypes'
  <2>1. DeviceTypes'
    BY <1>5, <1>6, PortAssumption DEF PortInv, DeviceTypes
  <2>2. TapTypes'
    BY <1>5, <1>6 DEF PortInv, TapTypes, HostBridge
  <2> QED
    BY <2>1, <2>2
<1>9. CallIs(t, k) /\ task'[t] = k
  <2>1. task' = [task EXCEPT ![t].pc = "list"]
    BY <1>2 DEF RemoveTap, TaskGoto
  <2>2. task \in [Taps -> TaskType]
    BY DEF PortInv, TaskTypes
  <2>3. task'[t] = k /\ DOMAIN task' = Taps /\ \A u \in Taps \ {t} : task'[u] = task[u]
    BY <1>2, <1>3, <2>1, <2>2 DEF TaskType
  <2>4. task' = [u \in Taps |-> task'[u]]
    BY <2>1, <2>2
  <2> QED
    BY <1>7, <2>2, <2>3, <2>4 DEF CallIs
<1>10. ~raced => Seen(t)'
  <2>1. numbered + 1 # 0
    BY PortAssumption DEF PortInv, DeviceTypes
  <2> QED
    BY <2>1, <1>1, <1>2, <1>5, <1>6, <1>7, <1>9 DEF Seen, Fits, VxlanPcs, UnvxlanPcs
<1>11. ~raced => \A u \in Taps : outcome[u] = "vxlan" /\ tap'[u] => Connected(u)'
  BY <1>1, <1>2, <1>5, <1>6 DEF PortInv, PortPcs, Busy, Connected, Seen, TapTypes
<1> QED
  BY <1>1, <1>4, <1>7, <1>8, <1>9, <1>10, <1>11, CallGoesOn

\* No port was found.
LEMMA ListPortsKeeps ==
    ASSUME PortInv, NEW t \in Taps, ListPorts(t), ~(br # 0 /\ \E u \in Taps : in[u] = br)
    PROVE  PortInv'
<1>1. task[t].pc = "list" /\ Busy(t)
  BY DEF ListPorts, At, Busy
<1>2. /\ task[t] \in TaskType /\ Fits(task[t]) /\ (~raced => Seen(t))
      /\ ~raced => \A u \in Taps : outcome[u] = "vxlan" /\ tap[u] => Connected(u)
  BY TaskFacts
<1>3. PICK k : k = [op |-> task[t].op, pc |-> "del vx", br |-> br, vx |-> task[t].vx]
  OBVIOUS
<1>4. UNCHANGED <<outcome, raced>>
  BY <1>2 DEF ListPorts, TaskGoto
<1>5. ~(br # 0 /\ \E u \in Taps : in[u] = br)
  BY <1>2 DEF ListPorts, devices
<1>6. UNCHANGED <<br, vx, vxIn, tap, in, numbered>>
  BY DEF ListPorts, devices
<1>7. k \in TaskType /\ Fits(k) /\ k.pc # "idle" /\ k.op = task[t].op /\ k.pc = "del vx" /\ k.br = br /\ k.vx = task[t].vx
  <2>1. br \in Nat /\ vx \in Nat /\ numbered + 1 \in Nat /\ numbered + 1 # 0
    BY PortAssumption DEF PortInv, DeviceTypes
  <2>2. task[t].op \in PortOps /\ task[t].br \in Nat /\ task[t].vx \in Nat
    BY <1>2 DEF TaskType
  <2>3. "del vx" \in VxlanPcs \cup UnvxlanPcs
    BY DEF VxlanPcs, UnvxlanPcs
  <2>4. k \in TaskType /\ k.op = task[t].op /\ k.pc = "del vx" /\ k.br = br /\ k.vx = task[t].vx
    BY <1>3, <2>1, <2>2, <2>3 DEF TaskType
  <2> QED
    BY <1>1, <1>2, <2>1, <2>4 DEF Fits, VxlanPcs, UnvxlanPcs
<1>8. DeviceTypes' /\ TapTypes'
  <2>1. DeviceTypes'
    BY <1>5, <1>6, PortAssumption DEF PortInv, DeviceTypes
  <2>2. TapTypes'
    BY <1>5, <1>6 DEF PortInv, TapTypes, HostBridge
  <2> QED
    BY <2>1, <2>2
<1>9. CallIs(t, k) /\ task'[t] = k
  <2>1. task' = [task EXCEPT ![t].pc = "del vx", ![t].br = br]
    BY <1>2 DEF ListPorts, TaskGoto
  <2>2. task \in [Taps -> TaskType]
    BY DEF PortInv, TaskTypes
  <2>3. task'[t] = k /\ DOMAIN task' = Taps /\ \A u \in Taps \ {t} : task'[u] = task[u]
    BY <1>2, <1>3, <2>1, <2>2 DEF TaskType
  <2>4. task' = [u \in Taps |-> task'[u]]
    BY <2>1, <2>2
  <2> QED
    BY <1>7, <2>2, <2>3, <2>4 DEF CallIs
<1>10. ~raced => Seen(t)'
  <2>1. numbered + 1 # 0
    BY PortAssumption DEF PortInv, DeviceTypes
  <2> QED
    BY <2>1, <1>1, <1>2, <1>5, <1>6, <1>7, <1>9 DEF Seen, Fits, VxlanPcs, UnvxlanPcs
<1>11. ~raced => \A u \in Taps : outcome[u] = "vxlan" /\ tap'[u] => Connected(u)'
  BY <1>1, <1>2, <1>5, <1>6 DEF PortInv, PortPcs, Busy, Connected, Seen, TapTypes
<1> QED
  BY <1>1, <1>4, <1>7, <1>8, <1>9, <1>10, <1>11, CallGoesOn

\* The vxlan device is removed, and the bridge is next.
LEMMA RemoveVxlanKeeps ==
    ASSUME PortInv, NEW t \in Taps, RemoveVxlan(t), task[t].br # 0
    PROVE  PortInv'
<1>1. task[t].pc = "del vx" /\ Busy(t)
  BY DEF RemoveVxlan, At, Busy
<1>2. /\ task[t] \in TaskType /\ Fits(task[t]) /\ (~raced => Seen(t))
      /\ ~raced => \A u \in Taps : outcome[u] = "vxlan" /\ tap[u] => Connected(u)
  BY TaskFacts
<1>3. PICK k : k = [op |-> task[t].op, pc |-> "del br", br |-> task[t].br, vx |-> task[t].vx]
  OBVIOUS
<1>4. UNCHANGED <<outcome, raced>>
  BY <1>2 DEF RemoveVxlan, TaskGoto
<1>5. vx' = 0 /\ vxIn' = 0
  BY <1>2 DEF RemoveVxlan, devices
<1>6. UNCHANGED <<br, tap, in, numbered>>
  BY DEF RemoveVxlan, devices
<1>7. k \in TaskType /\ Fits(k) /\ k.pc # "idle" /\ k.op = task[t].op /\ k.pc = "del br" /\ k.br = task[t].br /\ k.vx = task[t].vx
  <2>1. br \in Nat /\ vx \in Nat /\ numbered + 1 \in Nat /\ numbered + 1 # 0
    BY PortAssumption DEF PortInv, DeviceTypes
  <2>2. task[t].op \in PortOps /\ task[t].br \in Nat /\ task[t].vx \in Nat
    BY <1>2 DEF TaskType
  <2>3. "del br" \in VxlanPcs \cup UnvxlanPcs
    BY DEF VxlanPcs, UnvxlanPcs
  <2>4. k \in TaskType /\ k.op = task[t].op /\ k.pc = "del br" /\ k.br = task[t].br /\ k.vx = task[t].vx
    BY <1>3, <2>1, <2>2, <2>3 DEF TaskType
  <2> QED
    BY <1>1, <1>2, <2>1, <2>4 DEF Fits, VxlanPcs, UnvxlanPcs
<1>8. DeviceTypes' /\ TapTypes'
  <2>1. DeviceTypes'
    BY <1>5, <1>6, PortAssumption DEF PortInv, DeviceTypes
  <2>2. TapTypes'
    BY <1>5, <1>6 DEF PortInv, TapTypes, HostBridge
  <2> QED
    BY <2>1, <2>2
<1>9. CallIs(t, k) /\ task'[t] = k
  <2>1. task' = [task EXCEPT ![t].pc = "del br"]
    BY <1>2 DEF RemoveVxlan, TaskGoto
  <2>2. task \in [Taps -> TaskType]
    BY DEF PortInv, TaskTypes
  <2>3. task'[t] = k /\ DOMAIN task' = Taps /\ \A u \in Taps \ {t} : task'[u] = task[u]
    BY <1>2, <1>3, <2>1, <2>2 DEF TaskType
  <2>4. task' = [u \in Taps |-> task'[u]]
    BY <2>1, <2>2
  <2> QED
    BY <1>7, <2>2, <2>3, <2>4 DEF CallIs
<1>10. ~raced => Seen(t)'
  <2>1. numbered + 1 # 0
    BY PortAssumption DEF PortInv, DeviceTypes
  <2> QED
    BY <2>1, <1>1, <1>2, <1>5, <1>6, <1>7, <1>9 DEF Seen, Fits, VxlanPcs, UnvxlanPcs
<1>11. ~raced => \A u \in Taps : outcome[u] = "vxlan" /\ tap'[u] => Connected(u)'
  BY <1>1, <1>2, <1>5, <1>6 DEF PortInv, PortPcs, Busy, Connected, Seen, TapTypes
<1> QED
  BY <1>1, <1>4, <1>7, <1>8, <1>9, <1>10, <1>11, CallGoesOn

\* The tap is put into its bridge.
LEMMA TapSetMasterKeeps ==
    ASSUME PortInv, NEW t \in Taps, NEW bridge, bridge = (IF task[t].op = "bridge" THEN HostBridge ELSE task[t].br),
           TapSetMaster(t), tap[t], bridge \in {br, HostBridge}
    PROVE  PortInv'
<1>1. task[t].pc = "tap in" /\ Busy(t) /\ TaskGoto(t, "tap up")
  BY DEF TapSetMaster, At, Busy
<1>2. /\ task[t] \in TaskType /\ Fits(task[t]) /\ (~raced => Seen(t))
      /\ ~raced => \A u \in Taps : outcome[u] = "vxlan" /\ tap[u] => Connected(u)
  BY TaskFacts
<1>3. in' = [in EXCEPT ![t] = bridge] /\ UNCHANGED <<br, vx, vxIn, tap, numbered>>
  BY DEF TapSetMaster
<1>4. PICK k : k = [task[t] EXCEPT !.pc = "tap up"]
  OBVIOUS
<1>5. /\ k \in TaskType /\ k.op = task[t].op /\ k.br = task[t].br /\ k.vx = task[t].vx /\ k.pc = "tap up"
  BY <1>2, <1>4 DEF TaskType, VxlanPcs
<1>6. Fits(k) /\ task[t].op \in {"vxlan", "bridge"}
  BY <1>1, <1>2, <1>5 DEF Fits, VxlanPcs, UnvxlanPcs
<1>7. CallIs(t, k) /\ UNCHANGED <<outcome, raced>>
  <2>1. task' = [task EXCEPT ![t].pc = "tap up"] /\ task \in [Taps -> TaskType] /\ UNCHANGED <<outcome, raced>>
    BY <1>1 DEF TaskGoto, PortInv, TaskTypes
  <2>2. task' = [task EXCEPT ![t] = k]
    BY <1>4, <2>1
  <2> QED
    BY <1>5, <2>1, <2>2 DEF CallIs
<1>8. bridge \in Nat
  <2>1. br \in Nat /\ HostBridge \in Nat
    BY PortAssumption DEF PortInv, DeviceTypes, HostBridge
  <2> QED
    BY <2>1
<1>9. /\ in' \in [Taps -> Nat] /\ in'[t] = bridge /\ \A u \in Taps \ {t} : in'[u] = in[u]
  BY <1>3, <1>8 DEF PortInv, TapTypes
<1>10. DeviceTypes' /\ TapTypes'
  BY <1>3, <1>9 DEF PortInv, DeviceTypes, TapTypes, HostBridge
<1>11. ~raced => Seen(t)'
  BY <1>1, <1>2, <1>3, <1>5, <1>6, <1>7, <1>9 DEF Seen, CallIs
<1>12. outcome[t] = "none"
  BY <1>1 DEF PortInv, PortPcs
<1>13. ~raced => \A u \in Taps : outcome[u] = "vxlan" /\ tap'[u] => Connected(u)'
  BY <1>2, <1>3, <1>9, <1>12 DEF Connected
<1> QED
  BY <1>1, <1>5, <1>6, <1>7, <1>10, <1>11, <1>13, CallGoesOn

\* A call is answered that leaves the devices as they are.
LEMMA AnswerKeeps ==
    ASSUME PortInv, NEW t \in Taps, Busy(t), Answer(t), UNCHANGED devices,
           task[t].op = "vxlan" => task[t].pc = "tap up"
    PROVE  PortInv'
<1>1. Done(t, task[t].op) /\ UNCHANGED <<br, vx, vxIn, tap, in, numbered>>
  BY DEF Answer, devices
<1>2. /\ task[t] \in TaskType /\ Fits(task[t]) /\ (~raced => Seen(t))
      /\ ~raced => \A u \in Taps : outcome[u] = "vxlan" /\ tap[u] => Connected(u)
  BY TaskFacts
<1>3. DeviceTypes' /\ TapTypes'
  BY <1>1 DEF PortInv, DeviceTypes, TapTypes
<1>4. task[t].op \in {"failed"} \cup PortOps
  BY <1>2 DEF TaskType
<1>5. outcome'[t] = task[t].op /\ \A u \in Taps \ {t} : outcome'[u] = outcome[u]
  BY <1>1 DEF Done, PortInv, TaskTypes
<1>6. ~raced => \A u \in Taps : outcome'[u] = "vxlan" /\ tap'[u] => Connected(u)'
  BY <1>1, <1>2, <1>5 DEF Connected, Seen
<1> QED
  BY <1>1, <1>3, <1>4, <1>6, CallEnds

\* The tap is up, with its MTU or without one.
LEMMA TapSetUpKeeps ==
    ASSUME PortInv, NEW t \in Taps, TapSetUp(t) \/ SetMTU(t)
    PROVE  PortInv'
<1>1. task[t].pc = "tap up" /\ Busy(t) /\ UNCHANGED devices /\ (Answer(t) \/ Fail(t))
  BY DEF TapSetUp, SetMTU, At, Busy
<1> QED
  BY <1>1, AnswerKeeps, CallFails

\* The ports are listed: another one is the end of the removal.
LEMMA ListPortsEnds ==
    ASSUME PortInv, NEW t \in Taps, ListPorts(t)
    PROVE  PortInv'
<1>1. CASE br # 0 /\ \E u \in Taps : in[u] = br
  <2>1. task[t].pc = "list" /\ Busy(t) /\ UNCHANGED devices /\ Answer(t)
    BY <1>1 DEF ListPorts, At, Busy
  <2>2. task[t].op # "vxlan"
    BY <2>1, TaskFacts DEF Fits, VxlanPcs
  <2> QED
    BY <2>1, <2>2, AnswerKeeps
<1>2. CASE ~(br # 0 /\ \E u \in Taps : in[u] = br)
  BY <1>2, ListPortsKeeps
<1> QED
  BY <1>1, <1>2

\* The vxlan device of a network without a bridge is removed.
LEMMA RemoveVxlanEnds ==
    ASSUME PortInv, NEW t \in Taps, RemoveVxlan(t)
    PROVE  PortInv'
<1>1. CASE task[t].br = 0
  <2>1. /\ task[t].pc = "del vx" /\ Busy(t) /\ Done(t, task[t].op) /\ vx' = 0 /\ vxIn' = 0
        /\ UNCHANGED <<br, tap, in, numbered>>
    BY <1>1 DEF RemoveVxlan, At, Busy, Answer
  <2>2. /\ task[t] \in TaskType /\ Fits(task[t]) /\ (~raced => Seen(t))
        /\ ~raced => \A u \in Taps : outcome[u] = "vxlan" /\ tap[u] => Connected(u)
    BY TaskFacts
  <2>3. DeviceTypes' /\ TapTypes'
    <3>1. 0 \in 0..numbered
      BY PortAssumption DEF PortInv, DeviceTypes
    <3> QED
      BY <2>1, <3>1 DEF PortInv, DeviceTypes, TapTypes
  <2>4. task[t].op = "unvxlan" /\ "unvxlan" \in {"failed"} \cup PortOps
    BY <2>1, <2>2 DEF Fits, VxlanPcs, PortOps
  <2>5. outcome'[t] = "unvxlan" /\ \A u \in Taps \ {t} : outcome'[u] = outcome[u]
    BY <2>1, <2>4 DEF Done, PortInv, TaskTypes
  <2>6. ~raced => \A u \in Taps : outcome'[u] = "vxlan" /\ tap'[u] => Connected(u)'
    BY <2>1, <2>2, <2>5 DEF Connected, Seen
  <2> QED
    BY <2>1, <2>3, <2>4, <2>6, CallEnds
<1>2. CASE task[t].br # 0
  BY <1>2, RemoveVxlanKeeps
<1> QED
  BY <1>1, <1>2

\* The bridge is removed, and its ports are let go; there are none unless calls have overlapped.
LEMMA RemoveBridgeEnds ==
    ASSUME PortInv, NEW t \in Taps, RemoveBridge(t)
    PROVE  PortInv'
<1>1. task[t].pc = "del br" /\ Busy(t) /\ UNCHANGED <<vx, tap, numbered>>
  BY DEF RemoveBridge, At, Busy
<1>2. /\ task[t] \in TaskType /\ Fits(task[t]) /\ (~raced => Seen(t))
      /\ ~raced => \A u \in Taps : outcome[u] = "vxlan" /\ tap[u] => Connected(u)
  BY TaskFacts
<1>3. CASE task[t].br # br
  <2>1. Fail(t) /\ UNCHANGED devices
    BY <1>1, <1>3 DEF RemoveBridge, devices
  <2> QED
    BY <1>1, <2>1, CallFails
<1>4. CASE task[t].br = br
  <2>1. /\ Done(t, task[t].op) /\ br' = 0 /\ vxIn' = 0
        /\ in' = [u \in Taps |-> IF in[u] = br THEN 0 ELSE in[u]]
    BY <1>4 DEF RemoveBridge, Answer
  <2>2. /\ in' \in [Taps -> Nat] /\ \A u \in Taps : in'[u] = IF in[u] = br THEN 0 ELSE in[u]
    BY <2>1 DEF PortInv, TapTypes
  <2>3. DeviceTypes'
    <3>1. 0 \in 0..numbered
      BY PortAssumption DEF PortInv, DeviceTypes
    <3> QED
      BY <1>1, <2>1, <3>1 DEF PortInv, DeviceTypes
  <2>4. TapTypes'
    BY <1>1, <2>1, <2>2 DEF PortInv, TapTypes, HostBridge
  <2>5. task[t].op = "unvxlan" /\ "unvxlan" \in {"failed"} \cup PortOps
    BY <1>1, <1>2 DEF Fits, VxlanPcs, PortOps
  <2>6. outcome'[t] = "unvxlan" /\ \A u \in Taps \ {t} : outcome'[u] = outcome[u]
    BY <2>1, <2>5 DEF Done, PortInv, TaskTypes
  <2>7. ~raced => \A u \in Taps : outcome'[u] = "vxlan" /\ tap'[u] => Connected(u)'
    BY <1>1, <1>2, <2>6 DEF Connected, Seen
  <2> QED
    BY <1>1, <2>1, <2>3, <2>4, <2>5, <2>7, CallEnds
<1> QED
  BY <1>3, <1>4

\* The tap leaves the bridge of the host.
LEMMA TapSetNoMasterEnds ==
    ASSUME PortInv, NEW t \in Taps, TapSetNoMaster(t)
    PROVE  PortInv'
<1>1. /\ task[t].pc = "tap out" /\ Busy(t) /\ Done(t, task[t].op) /\ in' = [in EXCEPT ![t] = 0]
      /\ UNCHANGED <<br, vx, vxIn, tap, numbered>>
  BY DEF TapSetNoMaster, At, Busy, Answer
<1>2. /\ task[t] \in TaskType /\ Fits(task[t]) /\ (~raced => Seen(t))
      /\ ~raced => \A u \in Taps : outcome[u] = "vxlan" /\ tap[u] => Connected(u)
  BY TaskFacts
<1>3. /\ in' \in [Taps -> Nat] /\ in'[t] = 0 /\ \A u \in Taps \ {t} : in'[u] = in[u]
  BY <1>1 DEF PortInv, TapTypes
<1>4. DeviceTypes' /\ TapTypes'
  BY <1>1, <1>3 DEF PortInv, DeviceTypes, TapTypes, HostBridge
<1>5. task[t].op = "unbridge" /\ "unbridge" \in {"failed"} \cup PortOps
  BY <1>1, <1>2 DEF Fits, VxlanPcs, UnvxlanPcs, PortOps
<1>6. outcome'[t] = "unbridge" /\ \A u \in Taps \ {t} : outcome'[u] = outcome[u]
  BY <1>1, <1>5 DEF Done, PortInv, TaskTypes
<1>7. ~raced => \A u \in Taps : outcome'[u] = "vxlan" /\ tap'[u] => Connected(u)'
  BY <1>1, <1>2, <1>3, <1>6 DEF Connected
<1> QED
  BY <1>1, <1>4, <1>5, <1>7, CallEnds

\* Every step of a tap or its call keeps the invariant.
LEMMA PortStepKeeps ==
    ASSUME PortInv, PortNext
    PROVE  PortInv'
<1>1. PICK t \in Taps :
        \/ PortAppears(t) \/ PortGoes(t)
        \/ VxlanPortConfigure(t) \/ VxlanPortDeconfigure(t)
        \/ BridgePortConfigure(t) \/ BridgePortDeconfigure(t) \/ TaskFails(t)
        \/ FindBridge(t) \/ CreateBridge(t) \/ FindVxlan(t) \/ CreateVxlan(t)
        \/ VxlanSetMaster(t) \/ TapSetMaster(t) \/ TapSetUp(t) \/ SetMTU(t)
        \/ RemoveTap(t) \/ ListPorts(t) \/ RemoveVxlan(t) \/ RemoveBridge(t) \/ TapSetNoMaster(t)
  BY DEF PortNext
<1>2. CASE \/ VxlanPortConfigure(t)
           \/ VxlanPortDeconfigure(t)
           \/ BridgePortConfigure(t)
           \/ BridgePortDeconfigure(t)
  BY <1>2, CallBegins DEF VxlanPortConfigure, VxlanPortDeconfigure, BridgePortConfigure, BridgePortDeconfigure
<1>3. CASE TaskFails(t)
  BY <1>3, CallFails DEF TaskFails, Busy
<1>4. CASE CreateBridge(t)
  <2>1. CASE br # 0
    BY <1>4, <2>1, CallFails DEF CreateBridge, At, Busy, devices
  <2> QED
    BY <1>4, <2>1, CreateBridgeKeeps
<1>5. CASE FindVxlan(t)
  <2>1. CASE task[t].br # br
    BY <1>5, <2>1, CallFails DEF FindVxlan, At, Busy
  <2> QED
    BY <1>5, <2>1, FindVxlanKeeps
<1>6. CASE CreateVxlan(t)
  <2>1. CASE vx # 0
    BY <1>6, <2>1, CallFails DEF CreateVxlan, At, Busy, devices
  <2> QED
    BY <1>6, <2>1, CreateVxlanKeeps
<1>7. CASE VxlanSetMaster(t)
  <2>1. CASE task[t].vx # vx \/ task[t].br # br
    BY <1>7, <2>1, CallFails DEF VxlanSetMaster, At, Busy, devices
  <2> QED
    BY <1>7, <2>1, VxlanSetMasterKeeps
<1>8. CASE TapSetMaster(t)
  <2>1. PICK bridge : bridge = (IF task[t].op = "bridge" THEN HostBridge ELSE task[t].br)
    OBVIOUS
  <2>2. CASE ~tap[t] \/ bridge \notin {br, HostBridge}
    <3>1. task[t].pc = "tap in" /\ Fail(t) /\ UNCHANGED <<br, vx, vxIn, tap, in, numbered>>
      BY <1>8, <2>1, <2>2 DEF TapSetMaster, At
    <3> QED
      BY <3>1, CallFails DEF Busy, devices
  <2> QED
    BY <1>8, <2>1, <2>2, TapSetMasterKeeps
<1> QED
  BY <1>1, <1>2, <1>3, <1>4, <1>5, <1>6, <1>7, <1>8, PortAppearsKeeps, PortGoesKeeps, FindBridgeKeeps, TapSetUpKeeps,
     RemoveTapKeeps, ListPortsEnds, RemoveVxlanEnds, RemoveBridgeEnds, TapSetNoMasterEnds

\* The invariant holds in every state.
LEMMA PortInvHolds == PortSpec => []PortInv
<1>1. PortInit => PortInv
  <2> SUFFICES ASSUME PortInit
               PROVE  PortInv
    OBVIOUS
  <2>1. /\ br = 0 /\ vx = 0 /\ vxIn = 0 /\ numbered = 0 /\ raced = FALSE
        /\ tap = [t \in Taps |-> FALSE] /\ in = [t \in Taps |-> 0]
        /\ task = [t \in Taps |-> IdleTask] /\ outcome = [t \in Taps |-> "none"]
    BY DEF PortInit
  <2>2. IdleTask \in TaskType /\ Fits(IdleTask) /\ IdleTask.pc = "idle" /\ IdleTask.op = "none"
    BY DEF IdleTask, TaskType, Fits, PortOps
  <2>3. DeviceTypes
    BY <2>1, PortAssumption DEF DeviceTypes
  <2>4. TapTypes
    BY <2>1 DEF TapTypes
  <2>5. TaskTypes
    BY <2>1, <2>2 DEF TaskTypes, PortOps
  <2>6. \A t \in Taps : Fits(task[t]) /\ task[t].pc = "idle" /\ task[t].op = "none" /\ outcome[t] = "none"
    BY <2>1, <2>2
  <2>7. PortPcs /\ Alone /\ SeenIsTrue /\ ConnectedUnlessRaced
    BY <2>6 DEF PortPcs, Alone, SeenIsTrue, ConnectedUnlessRaced, Busy, Seen
  <2> QED
    BY <2>3, <2>4, <2>5, <2>7 DEF PortInv
<1>2. PortInv /\ [PortNext]_portVars => PortInv'
  <2>1. ASSUME PortInv, UNCHANGED portVars
        PROVE  PortInv'
    <3>1. UNCHANGED <<br, vx, vxIn, tap, in, numbered, task, outcome, raced>>
      BY <2>1 DEF portVars
    <3>2. DeviceTypes' /\ TapTypes' /\ TaskTypes'
      BY <2>1, <3>1 DEF PortInv, DeviceTypes, TapTypes, TaskTypes
    <3>3. PortPcs' /\ Alone'
      BY <2>1, <3>1 DEF PortInv, PortPcs, Alone, Busy, Fits
    <3>4. SeenIsTrue' /\ ConnectedUnlessRaced'
      BY <2>1, <3>1 DEF PortInv, SeenIsTrue, Seen, ConnectedUnlessRaced, Connected
    <3> QED
      BY <3>2, <3>3, <3>4 DEF PortInv
  <2> QED
    BY <2>1, PortStepKeeps
<1> QED
  BY <1>1, <1>2, PTL DEF PortSpec

\* A tap whose configuration was answered is in its bridge, and the bridge has
\* the vxlan device, for as long as the tap exists and whatever happens to the
\* calls for other taps, if no two calls have overlapped; for any number of
\* taps, devices and calls (VxlanPortConfigure, VxlanPortDeconfigure).
THEOREM TapsStayConnected == PortSpec => []ConnectedUnlessRaced
<1>1. PortInv => ConnectedUnlessRaced
  BY DEF PortInv
<1> QED
  BY <1>1, PortInvHolds, PTL

\* The devices are those that were made, and a tap is in a bridge that is there, also
\* when calls overlap and fail between any two requests to the kernel.
THEOREM PortTypesHold == PortSpec => []PortTypeOK
<1> USE PortAssumption
<1>1. PortInit => tasks \in 0..MaxTasks
  BY DEF PortInit
<1>2. tasks \in 0..MaxTasks /\ [PortNext]_portVars => (tasks \in 0..MaxTasks)'
  <2> SUFFICES ASSUME tasks \in 0..MaxTasks, [PortNext]_portVars
               PROVE  tasks' \in 0..MaxTasks
    OBVIOUS
  <2>1. tasks' = tasks \/ (tasks < MaxTasks /\ tasks' = tasks + 1)
    BY DEF PortNext, portVars, PortAppears, PortGoes, VxlanPortConfigure, VxlanPortDeconfigure,
           BridgePortConfigure, BridgePortDeconfigure, TaskFails, FindBridge, CreateBridge, FindVxlan,
           CreateVxlan, VxlanSetMaster, TapSetMaster, TapSetUp, SetMTU, RemoveTap, ListPorts,
           RemoveVxlan, RemoveBridge, TapSetNoMaster,
           BeginTask, Done, Answer, Fail, TaskGoto, At, devices
  <2> QED
    BY <2>1
<1>3. PortInv /\ tasks \in 0..MaxTasks => PortTypeOK
  BY DEF PortInv, DeviceTypes, TapTypes, PortTypeOK
<1> QED
  BY <1>1, <1>2, <1>3, PortInvHolds, PTL DEF PortSpec

\* The step that answers a removal leaves no device of a network that has no
\* port, if no two calls have overlapped (VxlanPortDeconfigure): what it has
\* listed is still so when it removes.
THEOREM LastRemovalIsComplete == PortSpec => LastPortRemovesAll
<1> DEFINE P == \A t \in Taps : (/\ ~raced /\ task[t].pc # "idle" /\ outcome'[t] = "unvxlan"
                                 /\ \A u \in Taps : in'[u] \in {0, HostBridge})
                                => br' = 0 /\ vx' = 0
<1>1. PortInv /\ [PortNext]_portVars => [P]_portVars
  <2> SUFFICES ASSUME PortInv, PortNext, ~raced, NEW t \in Taps, task[t].pc # "idle", outcome'[t] = "unvxlan",
                      \A u \in Taps : in'[u] \in {0, HostBridge}
               PROVE  br' = 0 /\ vx' = 0
    OBVIOUS
  <2>1. Seen(t) /\ outcome[t] = "none"
    BY DEF PortInv, SeenIsTrue, PortPcs, Busy
  <2>2. PICK s \in Taps :
          \/ PortAppears(s) \/ PortGoes(s)
          \/ VxlanPortConfigure(s) \/ VxlanPortDeconfigure(s)
          \/ BridgePortConfigure(s) \/ BridgePortDeconfigure(s) \/ TaskFails(s)
          \/ FindBridge(s) \/ CreateBridge(s) \/ FindVxlan(s) \/ CreateVxlan(s)
          \/ VxlanSetMaster(s) \/ TapSetMaster(s) \/ TapSetUp(s) \/ SetMTU(s)
          \/ RemoveTap(s) \/ ListPorts(s) \/ RemoveVxlan(s) \/ RemoveBridge(s) \/ TapSetNoMaster(s)
    BY DEF PortNext
  <2>3. outcome' # outcome
    BY <2>1
  <2>4. ASSUME NEW o, outcome' = [outcome EXCEPT ![s] = o]
        PROVE  s = t /\ o = "unvxlan"
    BY <2>1, <2>4 DEF PortInv, TaskTypes
  <2>5. CASE \/ PortAppears(s)
             \/ PortGoes(s)
             \/ VxlanPortConfigure(s) \/ VxlanPortDeconfigure(s) \/ BridgePortConfigure(s) \/ BridgePortDeconfigure(s)
    <3>1. outcome' = [outcome EXCEPT ![s] = "none"]
      BY <2>5 DEF PortAppears, PortGoes, VxlanPortConfigure, VxlanPortDeconfigure, BridgePortConfigure,
                  BridgePortDeconfigure, BeginTask
    <3> QED
      BY <2>4, <3>1
  <2>6. ASSUME Fail(s)
        PROVE  FALSE
    <3>1. outcome' = [outcome EXCEPT ![s] = "failed"]
      BY <2>6 DEF Fail, Done
    <3> QED
      BY <2>4, <3>1
  <2>7. ASSUME Answer(s)
        PROVE  s = t /\ task[t].op = "unvxlan" /\ task[t].pc \in UnvxlanPcs
    <3>1. outcome' = [outcome EXCEPT ![s] = task[s].op]
      BY <2>7 DEF Answer, Done
    <3>2. s = t /\ task[t].op = "unvxlan"
      BY <2>4, <3>1
    <3> QED
      BY <3>2, TaskFacts DEF Fits
  <2>8. CASE TaskFails(s) \/ FindBridge(s) \/ CreateBridge(s) \/ FindVxlan(s) \/ CreateVxlan(s) \/ VxlanSetMaster(s)
             \/ TapSetMaster(s) \/ RemoveTap(s)
    BY <2>3, <2>6, <2>8 DEF TaskFails, FindBridge, CreateBridge, FindVxlan, CreateVxlan, VxlanSetMaster, TapSetMaster,
                            RemoveTap, TaskGoto
  <2>9. CASE TapSetUp(s) \/ SetMTU(s) \/ TapSetNoMaster(s)
    <3>1. (Answer(s) \/ Fail(s)) /\ task[s].pc \in {"tap up", "tap out"}
      BY <2>9 DEF TapSetUp, SetMTU, TapSetNoMaster, At
    <3> QED
      BY <2>6, <2>7, <3>1 DEF UnvxlanPcs
  <2>10. CASE ListPorts(s)
    <3>1. PICK u \in Taps : br # 0 /\ in[u] = br /\ UNCHANGED in
      BY <2>3, <2>10 DEF ListPorts, devices
    <3>2. br # HostBridge
      BY PortAssumption DEF PortInv, DeviceTypes, HostBridge
    <3> QED
      BY <3>1, <3>2
  <2>11. CASE RemoveVxlan(s)
    <3>1. Answer(s) /\ task[s].br = 0 /\ task[s].pc = "del vx" /\ vx' = 0 /\ UNCHANGED br
      BY <2>3, <2>11 DEF RemoveVxlan, TaskGoto, At
    <3>2. s = t
      BY <2>7, <3>1
    <3> QED
      BY <2>1, <3>1, <3>2 DEF Seen
  <2>12. CASE RemoveBridge(s)
    <3>1. Answer(s) /\ task[s].pc = "del br" /\ br' = 0 /\ UNCHANGED vx
      BY <2>6, <2>12 DEF RemoveBridge, At
    <3>2. s = t
      BY <2>7, <3>1
    <3> QED
      BY <2>1, <3>1, <3>2 DEF Seen
  <2> QED
    BY <2>2, <2>5, <2>8, <2>9, <2>10, <2>11, <2>12
<1> QED
  BY <1>1, PortInvHolds, PTL DEF PortSpec, LastPortRemovesAll

(***************************************************************************)
(* Proofs for NetworkSchemes.                                              *)
(***************************************************************************)

\* An inbound limit of an update is in the file that is written.
LEMMA LimitIsWritten ==
    ASSUME NEW f, NEW u \in Updates, u.in # Unset
    PROVE  MarshalJSON(Set(UnmarshalJSON(f), u)).attrs["in_limit"] = u.in.v
<1>1. u = [in |-> u.in, out |-> u.out, mtu |-> u.mtu, append |-> u.append, remove |-> u.remove, bad |-> u.bad]
  BY CallsAssumption DEF AllUpdates
<1>2. PICK given : given = [in_limit |-> u.in, out_limit |-> u.out, mtu |-> u.mtu]
  OBVIOUS
<1>3. PICK keys : keys = {k \in DOMAIN given : given[k] # Unset} \cup (IF SetsAddrs(u) THEN {"addrs"} ELSE {})
  OBVIOUS
<1>4. "in_limit" \in keys
  BY <1>2, <1>3
<1>5. PICK s : s = UnmarshalJSON(f)
  OBVIOUS
<1>6. PICK attrs : attrs = [k \in DOMAIN s.attrs \cup keys |->
                               IF k \notin keys THEN s.attrs[k]
                               ELSE IF k = "addrs" THEN Strings(patchAddrs(Attr(s, "addrs", {}), u))
                               ELSE given[k]]
  OBVIOUS
<1>7. Set(s, u) = [s EXCEPT !.attrs = attrs]
  BY <1>2, <1>3, <1>6 DEF Set
<1>8. s = [type |-> s.type, attrs |-> s.attrs]
  BY <1>5 DEF UnmarshalJSON
<1>9. Set(s, u).attrs = attrs
  BY <1>7, <1>8
<1>10. "in_limit" \in DOMAIN attrs /\ attrs["in_limit"] = u.in
  BY <1>2, <1>4, <1>6
<1>11. MarshalJSON(Set(s, u)).attrs = [k \in DOMAIN attrs |-> attrs[k].v]
  BY <1>9 DEF MarshalJSON
<1> QED
  BY <1>5, <1>10, <1>11

\* An update does not change the type of a scheme.
LEMMA TypeIsKept ==
    ASSUME NEW f, NEW u
    PROVE  /\ Set(UnmarshalJSON(f), u).type = f.type
           /\ MarshalJSON(Set(UnmarshalJSON(f), u)).type = f.type
<1>1. PICK s : s = UnmarshalJSON(f)
  OBVIOUS
<1>2. s = [type |-> f.type, attrs |-> s.attrs]
  BY <1>1 DEF UnmarshalJSON
<1>3. PICK attrs : Set(s, u) = [s EXCEPT !.attrs = attrs]
  BY DEF Set
<1>4. Set(s, u).type = f.type
  BY <1>2, <1>3
<1> QED
  BY <1>1, <1>4 DEF MarshalJSON

\* A scheme that is read from the file can be extracted only if it has no
\* number: it is a routed one without limits, or one of a bridge of the host.
LEMMA OnlyWithoutNumbers ==
    ASSUME NEW f, f.type \in Types, f.type # "manual", ExtractAttrs(UnmarshalJSON(f))
    PROVE  f.type \in {"routed", "bridge"} /\ Extracted(UnmarshalJSON(f)).type = f.type
<1>1. PICK s : s = UnmarshalJSON(f)
  OBVIOUS
<1>2. /\ s.type = f.type
      /\ \A k \in DOMAIN s.attrs : k # "addrs" => s.attrs[k].go = "float64"
  BY <1>1 DEF UnmarshalJSON
<1>3. ~ExtractAttrs_VxLAN(s) /\ ~ExtractAttrs_VLAN(s)
  BY <1>2 DEF ExtractAttrs_VxLAN, ExtractAttrs_VLAN, valueAs
<1>4. f.type \notin {"vxlan", "vlan"}
  BY <1>1, <1>2, <1>3 DEF ExtractAttrs
<1>5. Extracted(s).type = s.type
  BY DEF Extracted
<1> QED
  BY <1>1, <1>2, <1>4, <1>5 DEF Types

\* A call that changes the file is answered.
LEMMA ConfIsAnswered ==
    ASSUME SchemeInv, NEW ok, NEW why, conf.pc # "idle", AnswerConf(ok, why), UNCHANGED <<net, overlap, applied>>,
           file' \in {stored', Spoiled}, ok => file' = stored', host' = [type |-> host'.type, in |-> host'.in, out |-> host'.out, addrs |-> host'.addrs],
           host'.type = host.type,
           ~overlap /\ conf.op = "update" /\ ok /\ conf.apply /\ conf.u.in # Unset /\ file'.type = "routed"
               => host'.in = file'.attrs["in_limit"]
    PROVE  SchemeInv'
<1>1. conf' = IdleConf /\ conf'.pc = "idle" /\ conf'.op = "none"
  BY DEF AnswerConf, IdleConf
<1>2. /\ reply'.conf = [op |-> conf.op, ok |-> ok, why |-> why, u |-> conf.u, apply |-> conf.apply]
      /\ reply'.net = reply.net /\ reply' = [conf |-> reply'.conf, net |-> reply'.net]
  BY DEF SchemeInv, SchemeShapes, AnswerConf
<1>3. /\ reply'.conf.op = conf.op /\ reply'.conf.ok = ok /\ reply'.conf.apply = conf.apply /\ reply'.conf.u = conf.u
  BY <1>2
<1>4. ~overlap => net.pc = "idle" /\ reply.net.op = "none"
  BY DEF SchemeInv, OneCall
<1>5. SchemeShapes'
  BY <1>1, <1>2 DEF SchemeInv, SchemeShapes, IdleConf
<1>6. CallsFit' /\ FileInv'
  BY <1>1, <1>3 DEF SchemeInv, CallsFit, FileInv, Applying
<1>7. OneCall'
  BY <1>1, <1>4 DEF OneCall
<1>8. HostInv'
  BY <1>1, <1>4 DEF SchemeInv, HostInv, HostTypes
<1>9. AppliedUnlessOverlapped'
  BY <1>3 DEF AppliedUnlessOverlapped
<1>10. DeconfiguredUnlessChanged'
  BY <1>2, <1>4 DEF DeconfiguredUnlessChanged
<1> QED
  BY <1>5, <1>6, <1>7, <1>8, <1>9, <1>10 DEF SchemeInv

\* A call that changes the file ends with an error, and leaves file and host.
LEMMA ConfFails ==
    ASSUME SchemeInv, NEW why, conf.pc # "idle", AnswerConf(FALSE, why),
           UNCHANGED <<file, stored, host, net, overlap, applied>>
    PROVE  SchemeInv'
<1>1. file' \in {stored', Spoiled} /\ host' = [type |-> host'.type, in |-> host'.in, out |-> host'.out, addrs |-> host'.addrs]
  BY DEF SchemeInv, FileInv, SchemeShapes
<1> QED
  BY <1>1, ConfIsAnswered

\* A call that changes the file goes on with pc; scheme is what it has read.
LEMMA ConfGoesOn ==
    ASSUME SchemeInv, NEW pc, NEW scheme, conf.pc # "idle", pc # "idle",
           conf' = [conf EXCEPT !.pc = pc, !.scheme = scheme], UNCHANGED <<reply, net, overlap, applied>>,
           host' = [type |-> host'.type, in |-> host'.in, out |-> host'.out, addrs |-> host'.addrs],
           host'.type = host.type, conf.op = "update", pc \in {"write"} \cup Applying,
           file' = stored',
           pc = "write" => file'.type \in Types /\ scheme = Set(UnmarshalJSON(file'), conf.u),
           pc \in Applying => file'.type = "routed",
           pc \in Applying /\ conf.u.in # Unset => file'.attrs["in_limit"] = conf.u.in.v,
           ~overlap /\ pc \in {"apply out", "apply addrs"} /\ conf.u.in # Unset => host'.in = conf.u.in.v
    PROVE  SchemeInv'
<1>1. /\ conf' = [op |-> conf.op, pc |-> pc, scheme |-> scheme, u |-> conf.u, apply |-> conf.apply]
      /\ conf'.op = "update" /\ conf'.pc = pc /\ conf'.scheme = scheme /\ conf'.u = conf.u
  BY DEF SchemeInv, SchemeShapes
<1>2. ~overlap => net.pc = "idle" /\ reply.net.op = "none" /\ reply.conf.op = "none"
  BY DEF SchemeInv, OneCall
<1>3. SchemeShapes'
  BY <1>1 DEF SchemeInv, SchemeShapes
<1>4. CallsFit'
  BY <1>1 DEF SchemeInv, CallsFit
<1>5. FileInv'
  BY <1>1 DEF SchemeInv, FileInv, HasScheme
<1>6. OneCall' /\ HostInv'
  BY <1>1, <1>2 DEF SchemeInv, OneCall, HostInv, HostTypes
<1>7. AppliedUnlessOverlapped' /\ DeconfiguredUnlessChanged'
  BY <1>2 DEF AppliedUnlessOverlapped, DeconfiguredUnlessChanged
<1> QED
  BY <1>3, <1>4, <1>5, <1>6, <1>7 DEF SchemeInv

\* A call that configures the host is answered.
LEMMA NetIsAnswered ==
    ASSUME SchemeInv, NEW ok, NEW why, net.pc # "idle", AnswerNet(ok, why), UNCHANGED <<file, stored, conf, overlap>>,
           host' = [type |-> host'.type, in |-> host'.in, out |-> host'.out, addrs |-> host'.addrs],
           host'.type \in {"none", applied'}, applied' \in {"none", "routed", "bridge"},
           ~overlap /\ net.op = "deconfigure" /\ ok /\ applied' \in {file.type, "none"}
               => host'.type = "none" /\ (file.type = "routed" => host' = Clean)
    PROVE  SchemeInv'
<1>1. net' = IdleNet /\ net'.pc = "idle" /\ net'.op = "none"
  BY DEF AnswerNet, IdleNet
<1>2. /\ reply'.net = [op |-> net.op, ok |-> ok, why |-> why, u |-> "none", apply |-> FALSE]
      /\ reply'.conf = reply.conf /\ reply' = [conf |-> reply'.conf, net |-> reply'.net]
  BY DEF SchemeInv, SchemeShapes, AnswerNet
<1>3. reply'.net.op = net.op /\ reply'.net.ok = ok
  BY <1>2
<1>4. ~overlap => conf.pc = "idle" /\ reply.conf.op = "none"
  BY DEF SchemeInv, OneCall
<1>5. SchemeShapes'
  BY <1>1, <1>2 DEF SchemeInv, SchemeShapes, IdleNet
<1>6. CallsFit' /\ FileInv'
  BY <1>1, <1>2 DEF SchemeInv, CallsFit, FileInv, HasScheme
<1>7. OneCall'
  BY <1>1, <1>4 DEF OneCall
<1>8. HostInv'
  BY <1>1, <1>4 DEF HostInv, HostTypes
<1>9. AppliedUnlessOverlapped'
  BY <1>2, <1>4 DEF AppliedUnlessOverlapped
<1>10. DeconfiguredUnlessChanged'
  BY <1>3 DEF DeconfiguredUnlessChanged
<1> QED
  BY <1>5, <1>6, <1>7, <1>8, <1>9, <1>10 DEF SchemeInv

\* A call that configures the host ends with an error, and leaves the host.
LEMMA NetFails ==
    ASSUME SchemeInv, NEW why, net.pc # "idle", AnswerNet(FALSE, why),
           UNCHANGED <<file, stored, host, conf, overlap, applied>>
    PROVE  SchemeInv'
<1>1. /\ host' = [type |-> host'.type, in |-> host'.in, out |-> host'.out, addrs |-> host'.addrs]
      /\ host'.type \in {"none", applied'} /\ applied' \in {"none", "routed", "bridge"}
  BY DEF SchemeInv, HostInv, HostTypes, SchemeShapes
<1> QED
  BY <1>1, NetIsAnswered

\* A call that configures the host goes on.
LEMMA NetGoesOn ==
    ASSUME SchemeInv, net.pc # "idle", net'.pc \in {"first", "second", "undo"},
           net' = [op |-> net.op, pc |-> net'.pc, attrs |-> net'.attrs],
           net'.pc \in {"first", "second"} => net.op = "configure",
           UNCHANGED <<file, stored, reply, conf, overlap>>,
           host' = [type |-> host'.type, in |-> host'.in, out |-> host'.out, addrs |-> host'.addrs],
           host'.type \in {"none", applied'}, applied' \in {"none", "routed", "bridge"},
           net'.attrs.type \in {"routed", "bridge"}, ~overlap => net'.attrs.type = file.type
    PROVE  SchemeInv'
<1>1. net'.op = net.op /\ net'.pc # "idle"
  OBVIOUS
<1>2. ~overlap => conf.pc = "idle" /\ reply.net.op = "none" /\ reply.conf.op = "none"
  BY DEF SchemeInv, OneCall
<1>3. SchemeShapes'
  BY <1>1 DEF SchemeInv, SchemeShapes
<1>4. CallsFit' /\ FileInv'
  BY <1>1 DEF SchemeInv, CallsFit, FileInv, HasScheme
<1>5. OneCall' /\ HostInv'
  BY <1>1, <1>2 DEF OneCall, HostInv, HostTypes
<1>6. AppliedUnlessOverlapped' /\ DeconfiguredUnlessChanged'
  BY <1>2 DEF AppliedUnlessOverlapped, DeconfiguredUnlessChanged
<1> QED
  BY <1>3, <1>4, <1>5, <1>6 DEF SchemeInv

\* No answer counts any more.
LEMMA NoReplies ==
    ASSUME reply' = [conf |-> NoReply, net |-> NoReply]
    PROVE  /\ reply'.conf.op = "none" /\ reply'.net.op = "none" /\ reply' = [conf |-> reply'.conf, net |-> reply'.net]
           /\ ~reply'.conf.ok /\ AppliedUnlessOverlapped' /\ DeconfiguredUnlessChanged'
<1>1. reply'.conf.op = "none" /\ reply'.net.op = "none" /\ reply' = [conf |-> reply'.conf, net |-> reply'.net]
  BY DEF NoReply
<1>2. ~reply'.conf.ok
  BY DEF NoReply
<1> QED
  BY <1>1, <1>2 DEF AppliedUnlessOverlapped, DeconfiguredUnlessChanged

\* A call that changes the file begins.
LEMMA ConfBegins ==
    ASSUME SchemeInv, NEW op, NEW pc, NEW scheme, NEW u, NEW apply, BeginConf(op, pc, scheme, u, apply),
           \/ op = "create" /\ pc \in {"create", "refuse"}
           \/ op = "update" /\ pc = "update" /\ u \in Updates
           \/ op = "remove" /\ pc = "remove"
    PROVE  SchemeInv'
<1>1. /\ conf' = [op |-> op, pc |-> pc, scheme |-> scheme, u |-> u, apply |-> apply]
      /\ reply' = [conf |-> NoReply, net |-> NoReply] /\ overlap' = (net.pc # "idle")
      /\ UNCHANGED <<file, host, net, stored, applied>>
  BY DEF BeginConf
<1>2. conf'.op = op /\ conf'.pc = pc /\ conf'.u = u
  BY <1>1
<1>3. SchemeShapes'
  BY <1>1, NoReplies DEF SchemeInv, SchemeShapes
<1>4. CallsFit' /\ FileInv'
  BY <1>1, <1>2, NoReplies DEF SchemeInv, CallsFit, FileInv, Applying
<1>5. OneCall' /\ HostInv'
  BY <1>1, <1>2, NoReplies DEF SchemeInv, OneCall, HostInv, HostTypes
<1> QED
  BY <1>1, <1>3, <1>4, <1>5, NoReplies DEF SchemeInv

\* A call that configures the host begins.
LEMMA NetBegins ==
    ASSUME SchemeInv, NEW op, BeginNet(op)
    PROVE  SchemeInv'
<1>1. /\ net' = [op |-> op, pc |-> "read", attrs |-> "none"]
      /\ reply' = [conf |-> NoReply, net |-> NoReply] /\ overlap' = (conf.pc # "idle")
      /\ UNCHANGED <<file, host, conf, stored, applied>>
  BY DEF BeginNet
<1>2. net'.op = op /\ net'.pc = "read"
  BY <1>1
<1>3. SchemeShapes'
  BY <1>1, NoReplies DEF SchemeInv, SchemeShapes
<1>4. CallsFit' /\ FileInv'
  BY <1>1, <1>2, NoReplies DEF SchemeInv, CallsFit, FileInv, HasScheme
<1>5. OneCall' /\ HostInv'
  BY <1>1, <1>2, NoReplies DEF SchemeInv, OneCall, HostInv, HostTypes
<1> QED
  BY <1>1, <1>3, <1>4, <1>5, NoReplies DEF SchemeInv

\* The machine starts or ends.
LEMMA MachineChanges ==
    ASSUME SchemeInv, Boot \/ Halt
    PROVE  SchemeInv'
<1>1. /\ reply' = [conf |-> NoReply, net |-> NoReply]
      /\ overlap' = (overlap \/ conf.pc # "idle" \/ net.pc # "idle")
      /\ UNCHANGED <<file, conf, net, stored>>
      /\ UNCHANGED <<host, applied>> \/ (host' = Clean /\ applied' = "none")
  BY DEF Boot, Halt
<1>2. /\ host' = [type |-> host'.type, in |-> host'.in, out |-> host'.out, addrs |-> host'.addrs]
      /\ UNCHANGED <<host, applied>> \/ (host'.type = "none" /\ applied' = "none")
  BY <1>1 DEF SchemeInv, SchemeShapes, Clean
<1>3. SchemeShapes'
  BY <1>1, <1>2, NoReplies DEF SchemeInv, SchemeShapes
<1>4. CallsFit' /\ FileInv'
  BY <1>1, NoReplies DEF SchemeInv, CallsFit, FileInv, HasScheme
<1>5. OneCall' /\ HostInv'
  BY <1>1, <1>2, NoReplies DEF SchemeInv, OneCall, HostInv, HostTypes
<1> QED
  BY <1>1, <1>3, <1>4, <1>5, NoReplies DEF SchemeInv

\* A write makes the file what is stored, or fails and may spoil it.
LEMMA WriteLeaves ==
    ASSUME SchemeInv, NEW new, NEW next, NEW ok \in BOOLEAN, WriteNetworkSchemes(new, next, ok),
           file = stored => new = next, HasScheme \/ file = NoScheme
    PROVE  file' \in {stored', Spoiled} /\ (ok => file' = new /\ stored' = new)
<1>1. file = stored
  BY DEF SchemeInv, FileInv, HasScheme, Types, NoScheme, Spoiled
<1> QED
  BY <1>1 DEF WriteNetworkSchemes

\* A scheme is created, or not.
LEMMA WriteSchemeKeeps ==
    ASSUME SchemeInv, WriteScheme
    PROVE  SchemeInv'
<1>1. conf.pc = "create" /\ UNCHANGED <<host, net, overlap, applied>>
  BY DEF WriteScheme
<1>2. CASE file = NoScheme
  <2>1. PICK ok \in BOOLEAN, why \in {"none", "write"} :
            /\ WriteNetworkSchemes(MarshalJSON(conf.scheme), MarshalJSON(conf.scheme), ok)
            /\ AnswerConf(ok, why)
    BY <1>2 DEF WriteScheme
  <2>2. conf.op # "update" /\ host' = [type |-> host'.type, in |-> host'.in, out |-> host'.out, addrs |-> host'.addrs]
    BY <1>1 DEF SchemeInv, CallsFit, Applying, SchemeShapes
  <2>3. file' \in {stored', Spoiled} /\ (ok => file' = stored')
    BY <1>2, <2>1, WriteLeaves
  <2> QED
    BY <1>1, <2>1, <2>2, <2>3, ConfIsAnswered
<1>3. CASE file # NoScheme
  <2>1. PICK why : AnswerConf(FALSE, why) /\ UNCHANGED <<file, stored>>
    BY <1>3 DEF WriteScheme
  <2> QED
    BY <1>1, <2>1, ConfFails
<1> QED
  BY <1>2, <1>3

\* An update reads the scheme.
LEMMA ReadSchemeKeeps ==
    ASSUME SchemeInv, ReadScheme
    PROVE  SchemeInv'
<1>1. conf.pc = "update" /\ UNCHANGED <<file, stored, host, net, overlap, applied>>
  BY DEF ReadScheme
<1>2. CASE ~HasScheme
  BY <1>1, <1>2, ConfFails DEF ReadScheme
<1>3. CASE HasScheme
  <2>1. PICK scheme : scheme = Set(UnmarshalJSON(file), conf.u)
    OBVIOUS
  <2>2. conf' = [conf EXCEPT !.scheme = scheme, !.pc = "write"] /\ UNCHANGED reply
    BY <1>3, <2>1 DEF ReadScheme
  <2>3. conf' = [conf EXCEPT !.pc = "write", !.scheme = scheme]
    BY <2>2 DEF SchemeInv, SchemeShapes
  <2>4. /\ conf.op = "update" /\ file' = stored' /\ file'.type \in Types
        /\ host' = [type |-> host'.type, in |-> host'.in, out |-> host'.out, addrs |-> host'.addrs]
    BY <1>1, <1>3 DEF SchemeInv, CallsFit, FileInv, HasScheme, SchemeShapes, Spoiled, Types
  <2>5. scheme = Set(UnmarshalJSON(file'), conf.u)
    BY <1>1, <2>1
  <2> QED
    BY <1>1, <2>2, <2>3, <2>4, <2>5, ConfGoesOn DEF Applying
<1> QED
  BY <1>2, <1>3

\* An update writes the scheme that it has read and changed.
LEMMA WriteUpdateKeeps ==
    ASSUME SchemeInv, WriteUpdate
    PROVE  SchemeInv'
<1>1. /\ conf.pc = "write" /\ UNCHANGED <<host, net, overlap, applied>>
  BY DEF WriteUpdate
<1>2. /\ conf.op = "update" /\ conf.u \in Updates /\ file = stored /\ conf.scheme = Set(UnmarshalJSON(file), conf.u)
      /\ host' = [type |-> host'.type, in |-> host'.in, out |-> host'.out, addrs |-> host'.addrs] /\ HasScheme
  BY <1>1 DEF SchemeInv, CallsFit, FileInv, SchemeShapes
<1>3. PICK ok \in BOOLEAN :
          /\ WriteNetworkSchemes(MarshalJSON(conf.scheme), MarshalJSON(Set(UnmarshalJSON(stored), conf.u)), ok)
          /\ \/ ~ok /\ AnswerConf(FALSE, "write")
             \/ ok /\ ~Applies /\ AnswerConf(TRUE, "none")
             \/ ok /\ Applies /\ ~ExtractAttrs(conf.scheme) /\ AnswerConf(FALSE, "type mismatch")
             \/ /\ ok /\ Applies /\ ExtractAttrs(conf.scheme)
                /\ conf' = [conf EXCEPT !.pc = "apply in"] /\ UNCHANGED reply
  BY DEF WriteUpdate
<1>4. /\ file' \in {stored', Spoiled}
      /\ ok => file' = MarshalJSON(Set(UnmarshalJSON(file), conf.u)) /\ file' = stored'
  BY <1>2, <1>3, WriteLeaves
<1>5. (ok => file'.type = file.type) /\ conf.scheme.type = file.type
  BY <1>2, <1>4, TypeIsKept
<1>6. CASE ok /\ ~Applies /\ AnswerConf(TRUE, "none")
  BY <1>1, <1>2, <1>4, <1>5, <1>6, ConfIsAnswered DEF Applies
<1>7. CASE \E why \in {"write", "type mismatch"} : AnswerConf(FALSE, why)
  BY <1>1, <1>2, <1>4, <1>7, ConfIsAnswered
<1>8. CASE ok /\ Applies /\ conf' = [conf EXCEPT !.pc = "apply in"] /\ UNCHANGED reply
  <2>1. conf' = [conf EXCEPT !.pc = "apply in", !.scheme = conf.scheme]
    BY <1>8 DEF SchemeInv, SchemeShapes
  <2>2. conf.u.in # Unset => file'.attrs["in_limit"] = conf.u.in.v
    BY <1>2, <1>4, <1>8, LimitIsWritten
  <2>3. file'.type = "routed" /\ host'.type = host.type /\ file' = stored'
    BY <1>1, <1>4, <1>5, <1>8 DEF Applies
  <2> QED
    BY <1>1, <1>2, <1>8, <2>1, <2>2, <2>3, ConfGoesOn DEF Applying
<1> QED
  BY <1>3, <1>6, <1>7, <1>8

\* A scheme is dropped.
LEMMA DropSchemeKeeps ==
    ASSUME SchemeInv, DropScheme
    PROVE  SchemeInv'
<1>1. conf.pc = "remove" /\ UNCHANGED <<host, net, overlap, applied>>
  BY DEF DropScheme
<1>2. conf.op # "update" /\ host' = [type |-> host'.type, in |-> host'.in, out |-> host'.out, addrs |-> host'.addrs]
  BY <1>1 DEF SchemeInv, CallsFit, Applying, SchemeShapes
<1>3. CASE HasScheme
  <2>0. file # NoScheme /\ file \notin {NoFile, Spoiled}
    BY <1>3 DEF HasScheme, Types, NoScheme, NoFile, Spoiled
  <2>1. PICK ok \in BOOLEAN, why \in {"none", "write"} :
            WriteNetworkSchemes(NoScheme, NoScheme, ok) /\ AnswerConf(ok, why)
    BY <2>0 DEF DropScheme
  <2>2. file' \in {stored', Spoiled} /\ (ok => file' = stored')
    BY <1>3, <2>1, WriteLeaves
  <2> QED
    BY <1>1, <1>2, <2>1, <2>2, ConfIsAnswered
<1>4. CASE file = NoScheme /\ AnswerConf(TRUE, "none") /\ UNCHANGED <<file, stored>>
  <2>1. file' = stored'
    BY <1>4 DEF SchemeInv, FileInv, NoScheme, Spoiled
  <2> QED
    BY <1>1, <1>2, <1>4, <2>1, ConfIsAnswered
<1>5. CASE \E why : AnswerConf(FALSE, why) /\ UNCHANGED <<file, stored>>
  BY <1>1, <1>5, ConfFails
<1> QED
  BY <1>3, <1>4, <1>5 DEF DropScheme

\* What the invariant says of an update that applies its changes.
LEMMA ApplyFacts ==
    ASSUME SchemeInv, conf.pc \in Applying
    PROVE  /\ conf.op = "update" /\ file = stored /\ file.type = "routed"
           /\ conf.u.in # Unset => file.attrs["in_limit"] = conf.u.in.v
           /\ ~overlap /\ conf.pc \in {"apply out", "apply addrs"} /\ conf.u.in # Unset => host.in = conf.u.in.v
           /\ host = [type |-> host.type, in |-> host.in, out |-> host.out, addrs |-> host.addrs]
           /\ conf.pc # "idle"
           /\ \A pc : [conf EXCEPT !.pc = pc] = [conf EXCEPT !.pc = pc, !.scheme = conf.scheme]
<1>1. \A pc : [conf EXCEPT !.pc = pc] = [conf EXCEPT !.pc = pc, !.scheme = conf.scheme]
  BY DEF SchemeInv, SchemeShapes
<1> QED
  BY <1>1 DEF SchemeInv, CallsFit, FileInv, HostInv, SchemeShapes, Applying

\* The limits are applied.
LEMMA ApplyInKeeps ==
    ASSUME SchemeInv, ApplyInLimit
    PROVE  SchemeInv'
<1>1. conf.pc = "apply in" /\ conf.pc \in Applying /\ UNCHANGED <<file, net, stored, overlap, applied>>
  BY DEF ApplyInLimit, Applying
<1>2. CASE /\ conf' = [conf EXCEPT !.pc = "apply out"] /\ UNCHANGED reply
           /\ (host' = host /\ conf.u.in = Unset) \/ host' = [host EXCEPT !.in = conf.u.in.v]
  <2>2. /\ host' = [type |-> host'.type, in |-> host'.in, out |-> host'.out, addrs |-> host'.addrs]
        /\ host'.type = host.type
        /\ conf.u.in # Unset => host'.in = conf.u.in.v
    BY <1>1, <1>2, ApplyFacts
  <2>3. conf' = [conf EXCEPT !.pc = "apply out", !.scheme = conf.scheme]
    BY <1>1, <1>2, ApplyFacts
  <2>4. /\ conf.op = "update" /\ file' = stored' /\ file'.type = "routed" /\ conf.pc # "idle"
        /\ conf.u.in # Unset => file'.attrs["in_limit"] = conf.u.in.v
    BY <1>1, ApplyFacts
  <2> QED
    BY <1>1, <1>2, <2>2, <2>3, <2>4, ConfGoesOn DEF Applying
<1>3. CASE AnswerConf(FALSE, "host") /\ UNCHANGED host
  BY <1>1, <1>3, ConfFails
<1> QED
  BY <1>2, <1>3 DEF ApplyInLimit

\* The outbound limit is applied, and most often ends the call.
LEMMA ApplyOutKeeps ==
    ASSUME SchemeInv, ApplyOutLimit
    PROVE  SchemeInv'
<1>1. /\ conf.pc = "apply out" /\ conf.pc \in Applying /\ UNCHANGED <<file, host, net, stored, overlap, applied>>
      /\ host'.type = host.type
  BY DEF ApplyOutLimit, Applying
<1>2. /\ conf.op = "update" /\ file' = stored' /\ file'.type = "routed" /\ conf.pc # "idle"
      /\ host' = [type |-> host'.type, in |-> host'.in, out |-> host'.out, addrs |-> host'.addrs]
  BY <1>1, ApplyFacts
<1>3. conf.u.in # Unset => file'.attrs["in_limit"] = conf.u.in.v
  BY <1>1, ApplyFacts
<1>4. ~overlap /\ conf.u.in # Unset => host'.in = conf.u.in.v
  BY <1>1, ApplyFacts
<1>5. CASE conf' = [conf EXCEPT !.pc = "apply addrs"] /\ UNCHANGED reply
  <2>1. conf' = [conf EXCEPT !.pc = "apply addrs", !.scheme = conf.scheme]
    BY <1>1, <1>5, ApplyFacts
  <2> QED
    BY <1>1, <1>2, <1>3, <1>4, <1>5, <2>1, ConfGoesOn DEF Applying
<1>6. CASE AnswerConf(TRUE, "none")
  BY <1>1, <1>2, <1>3, <1>4, <1>6, ConfIsAnswered
<1>7. CASE AnswerConf(FALSE, "host")
  BY <1>1, <1>7, ConfFails
<1> QED
  BY <1>5, <1>6, <1>7 DEF ApplyOutLimit

\* The prefixes are applied, or some of them.
LEMMA ApplyAddrsKeeps ==
    ASSUME SchemeInv, ApplyAddrs
    PROVE  SchemeInv'
<1>1. /\ conf.pc = "apply addrs" /\ conf.pc \in Applying /\ UNCHANGED <<file, net, stored, overlap, applied>>
  BY DEF ApplyAddrs, Applying
<1>2. PICK ok \in BOOLEAN, why \in {"none", "host"} :
          AnswerConf(ok, why) /\ (host' = host \/ \E as : host' = [host EXCEPT !.addrs = as])
  BY DEF ApplyAddrs
<1>3. /\ host' = [type |-> host'.type, in |-> host'.in, out |-> host'.out, addrs |-> host'.addrs]
      /\ host'.type = host.type /\ host'.in = host.in
  BY <1>1, <1>2, ApplyFacts
<1>4. /\ file' = stored' /\ conf.pc # "idle"
      /\ ~overlap /\ conf.u.in # Unset => host'.in = file'.attrs["in_limit"]
  BY <1>1, <1>3, ApplyFacts
<1> QED
  BY <1>1, <1>2, <1>3, <1>4, ConfIsAnswered

\* What the invariant says of the host while a call configures it.
LEMMA NetFacts ==
    ASSUME SchemeInv
    PROVE  /\ host = [type |-> host.type, in |-> host.in, out |-> host.out, addrs |-> host.addrs]
           /\ net = [op |-> net.op, pc |-> net.pc, attrs |-> net.attrs]
           /\ host.type \in {"none", applied} /\ applied \in {"none", "routed", "bridge"}
           /\ net.pc \in {"first", "second", "undo"}
                  => net.attrs.type \in {"routed", "bridge"} /\ (~overlap => net.attrs.type = file.type)
           /\ net.pc \in {"first", "second"} => net.op = "configure"
<1> QED
  BY DEF SchemeInv, SchemeShapes, HostInv, HostTypes, CallsFit

\* The scheme is read for the host: it has no number in it.
LEMMA ReadForHostKeeps ==
    ASSUME SchemeInv, ReadForHost
    PROVE  SchemeInv'
<1>1. net.pc = "read" /\ UNCHANGED <<file, host, conf, stored, overlap, applied>>
  BY DEF ReadForHost
<1>2. PICK s : s = UnmarshalJSON(file)
  OBVIOUS
<1>3. s.type = file.type
  BY <1>2 DEF UnmarshalJSON
<1>4. CASE ~HasScheme
  BY <1>1, <1>4, NetFails DEF ReadForHost
<1>5. CASE HasScheme /\ s.type = "manual"
  BY <1>1, <1>2, <1>5, NetFails DEF ReadForHost
<1>6. CASE HasScheme /\ s.type # "manual" /\ ~ExtractAttrs(s)
  BY <1>1, <1>2, <1>6, NetFails DEF ReadForHost
<1>7. CASE HasScheme /\ s.type # "manual" /\ ExtractAttrs(s)
  <2>1. (\E why \in {"invalid", "not running"} : AnswerNet(FALSE, why))
        \/ (/\ net' = [net EXCEPT !.pc = IF net.op = "configure" THEN "first" ELSE "undo", !.attrs = Extracted(s)]
            /\ UNCHANGED reply)
    BY <1>2, <1>7 DEF ReadForHost
  <2>2. CASE \E why \in {"invalid", "not running"} : AnswerNet(FALSE, why)
    BY <1>1, <2>2, NetFails
  <2>3. CASE /\ net' = [net EXCEPT !.pc = IF net.op = "configure" THEN "first" ELSE "undo", !.attrs = Extracted(s)]
             /\ UNCHANGED reply
    <3>1. file.type \in {"routed", "bridge"} /\ Extracted(s).type = file.type
      BY <1>2, <1>3, <1>7, OnlyWithoutNumbers DEF HasScheme
    <3>2. /\ net' = [op |-> net.op, pc |-> net'.pc, attrs |-> net'.attrs]
          /\ net'.pc = (IF net.op = "configure" THEN "first" ELSE "undo") /\ net'.attrs = Extracted(s)
      BY <2>3, NetFacts
    <3>3. net'.attrs.type = file.type
      BY <3>1, <3>2
    <3>4. /\ host' = [type |-> host'.type, in |-> host'.in, out |-> host'.out, addrs |-> host'.addrs]
          /\ host'.type \in {"none", applied'} /\ applied' \in {"none", "routed", "bridge"}
      BY <1>1, NetFacts
    <3> QED
      BY <1>1, <2>3, <3>1, <3>2, <3>3, <3>4, NetGoesOn
  <2> QED
    BY <2>1, <2>2, <2>3
<1> QED
  BY <1>4, <1>5, <1>6, <1>7

\* The first stage.
LEMMA FirstStageKeeps ==
    ASSUME SchemeInv, FirstStage
    PROVE  SchemeInv'
<1>1. net.pc = "first" /\ UNCHANGED <<file, conf, stored, overlap>>
  BY DEF FirstStage
<1>2. CASE ~running
  BY <1>1, <1>2, NetFails DEF FirstStage
<1>3. CASE running
  <2>1. /\ applied' = net.attrs.type /\ net' = [net EXCEPT !.pc = "second"] /\ UNCHANGED reply
        /\ host' = CASE net.attrs.type = "routed" ->
                          [host EXCEPT !.type = "routed", !.in = net.attrs.in, !.out = net.attrs.out]
                     [] net.attrs.type \in {"bridge", "vxlan"} -> [host EXCEPT !.type = net.attrs.type]
                     [] OTHER -> host
    BY <1>3 DEF FirstStage
  <2>2. /\ net' = [op |-> net.op, pc |-> net'.pc, attrs |-> net'.attrs] /\ net'.pc = "second" /\ net'.attrs = net.attrs
        /\ net.op = "configure"
    BY <1>1, <2>1, NetFacts
  <2>3. net.attrs.type \in {"routed", "bridge"} /\ (~overlap => net.attrs.type = file.type)
    BY <1>1, NetFacts
  <2>4. host' = [type |-> host'.type, in |-> host'.in, out |-> host'.out, addrs |-> host'.addrs]
    BY <2>1, NetFacts
  <2>5. host'.type = net.attrs.type
    BY <2>1, <2>3, NetFacts
  <2> QED
    BY <1>1, <2>1, <2>2, <2>3, <2>4, <2>5, NetGoesOn
<1> QED
  BY <1>2, <1>3

\* The second stage.
LEMMA SecondStageKeeps ==
    ASSUME SchemeInv, SecondStage
    PROVE  SchemeInv'
<1>1. net.pc = "second" /\ net.op = "configure" /\ UNCHANGED <<file, conf, stored, overlap, applied>>
  BY NetFacts DEF SecondStage
<1>2. PICK ok \in BOOLEAN, why \in {"none", "host"} :
          AnswerNet(ok, why) /\ (host' = host \/ \E as : host' = [host EXCEPT !.addrs = as])
  BY DEF SecondStage
<1>3. /\ host' = [type |-> host'.type, in |-> host'.in, out |-> host'.out, addrs |-> host'.addrs]
      /\ host'.type = host.type
  BY <1>2, NetFacts
<1>4. host'.type \in {"none", applied'} /\ applied' \in {"none", "routed", "bridge"}
  BY <1>1, <1>3, NetFacts
<1> QED
  BY <1>1, <1>2, <1>3, <1>4, NetIsAnswered

\* A removal undoes what the scheme of the file says.
LEMMA UndoKeeps ==
    ASSUME SchemeInv, Undo
    PROVE  SchemeInv'
<1>1. net.pc = "undo" /\ AnswerNet(TRUE, "none") /\ UNCHANGED <<file, conf, stored, overlap, applied>>
  BY DEF Undo
<1>2. host' = CASE net.attrs.type = "routed" -> [Clean EXCEPT !.type = IF host.type = "routed" THEN "none" ELSE host.type]
                [] net.attrs.type = "bridge" -> [host EXCEPT !.type = IF host.type = "routed" THEN "routed" ELSE "none"]
                [] net.attrs.type = "vxlan" -> Clean
                [] OTHER -> host
  BY DEF Undo
<1>3. host' = [type |-> host'.type, in |-> host'.in, out |-> host'.out, addrs |-> host'.addrs]
  <2>1. CASE net.attrs.type \in {"routed", "vxlan"}
    BY <1>2, <2>1 DEF Clean
  <2>2. CASE net.attrs.type \notin {"routed", "vxlan"}
    BY <1>2, <2>2, NetFacts
  <2> QED
    BY <2>1, <2>2
<1>4. /\ net.attrs.type \in {"routed", "bridge"} /\ (~overlap => net.attrs.type = file.type)
      /\ host.type \in {"none", applied} /\ applied \in {"none", "routed", "bridge"}
  BY <1>1, NetFacts
<1>5. /\ host'.type \in {"none", applied}
      /\ applied \in {net.attrs.type, "none"} => host'.type = "none" /\ (net.attrs.type = "routed" => host' = Clean)
  <2>1. CASE net.attrs.type = "routed"
    <3>1. host' = [Clean EXCEPT !.type = IF host.type = "routed" THEN "none" ELSE host.type]
      BY <1>2, <2>1
    <3>2. host'.type = (IF host.type = "routed" THEN "none" ELSE host.type)
      BY <3>1 DEF Clean
    <3>3. host'.type = "none" => host' = Clean
      BY <3>1, <3>2 DEF Clean
    <3> QED
      BY <1>4, <2>1, <3>2, <3>3
  <2>2. CASE net.attrs.type = "bridge"
    <3>1. host' = [host EXCEPT !.type = IF host.type = "routed" THEN "routed" ELSE "none"]
      BY <1>2, <2>2
    <3>2. host'.type = (IF host.type = "routed" THEN "routed" ELSE "none")
      BY <3>1, NetFacts
    <3> QED
      BY <1>4, <2>2, <3>2
  <2> QED
    BY <1>4, <2>1, <2>2
<1> QED
  BY <1>1, <1>3, <1>4, <1>5, NetIsAnswered

\* Every step keeps the invariant.
LEMMA SchemeStepKeeps ==
    ASSUME SchemeInv, SchemeNext
    PROVE  SchemeInv'
<1>1. CASE CreateConf
  <2>1. PICK o \in Options :
          BeginConf("create", IF Validate(o) THEN "create" ELSE "refuse", Properties(o), o, FALSE)
    BY <1>1 DEF CreateConf
  <2>2. PICK pc, scheme : BeginConf("create", pc, scheme, o, FALSE) /\ pc \in {"create", "refuse"}
    BY <2>1
  <2> QED
    BY <2>2, ConfBegins
<1>2. CASE UpdateConf
  BY <1>2, ConfBegins DEF UpdateConf
<1>3. CASE RemoveConf
  BY <1>3, ConfBegins DEF RemoveConf
<1>4. CASE ConfigureHostNetwork \/ DeconfigureHostNetwork
  BY <1>4, NetBegins DEF ConfigureHostNetwork, DeconfigureHostNetwork
<1>5. CASE Refuse \/ ReadFails
  BY <1>5, ConfFails DEF Refuse, ReadFails
<1>6. CASE HostFails
  BY <1>6, NetFails DEF HostFails
<1> QED
  BY <1>1, <1>2, <1>3, <1>4, <1>5, <1>6, MachineChanges, WriteSchemeKeeps, ReadSchemeKeeps, WriteUpdateKeeps,
     DropSchemeKeeps, ApplyInKeeps, ApplyOutKeeps, ApplyAddrsKeeps, ReadForHostKeeps, FirstStageKeeps,
     SecondStageKeeps, UndoKeeps
     DEF SchemeNext

\* The file is what the changes so far have made of it, or a failed write has spoiled
\* it and then no change is answered as made; the inbound limit of an update that was
\* applied is on the host, and a removal leaves nothing of the scheme that was
\* configured, if no other call ran beside that one, whatever has overlapped before;
\* for any options, updates and number of calls, and wherever a read, a write or a
\* function of the host fails (CreateConf, UpdateConf, RemoveConf,
\* WriteNetworkSchemes, ConfigureHostNetwork, DeconfigureHostNetwork).
THEOREM HostHasWhatTheFileSays == SchemeSpec => []HostFollowsFile
<1>1. SchemeInit => SchemeInv
  <2> SUFFICES ASSUME SchemeInit
               PROVE  SchemeInv
    OBVIOUS
  <2>1. /\ host = Clean /\ conf = IdleConf /\ net = IdleNet /\ reply = [conf |-> NoReply, net |-> NoReply]
        /\ stored = file /\ overlap = FALSE /\ applied = "none"
    BY DEF SchemeInit
  <2>2. /\ host = [type |-> host.type, in |-> host.in, out |-> host.out, addrs |-> host.addrs] /\ host.type = "none"
        /\ conf = [op |-> conf.op, pc |-> conf.pc, scheme |-> conf.scheme, u |-> conf.u, apply |-> conf.apply]
        /\ conf.op = "none" /\ conf.pc = "idle"
        /\ net = [op |-> net.op, pc |-> net.pc, attrs |-> net.attrs] /\ net.op = "none" /\ net.pc = "idle"
        /\ reply = [conf |-> reply.conf, net |-> reply.net] /\ reply.conf.op = "none" /\ reply.net.op = "none"
        /\ reply.conf.ok = FALSE
    BY <2>1 DEF Clean, IdleConf, IdleNet, NoReply
  <2>3. SchemeShapes /\ CallsFit /\ FileInv
    BY <2>1, <2>2 DEF SchemeShapes, CallsFit, FileInv, Applying
  <2>4. OneCall /\ HostInv /\ AppliedUnlessOverlapped /\ DeconfiguredUnlessChanged
    BY <2>1, <2>2 DEF OneCall, HostInv, HostTypes, AppliedUnlessOverlapped, DeconfiguredUnlessChanged
  <2> QED
    BY <2>3, <2>4 DEF SchemeInv
<1>2. SchemeInv /\ [SchemeNext]_schemeVars => SchemeInv'
  <2>1. ASSUME SchemeInv, UNCHANGED schemeVars
        PROVE  SchemeInv'
    <3>1. UNCHANGED <<file, running, host, conf, net, reply, stored, overlap, applied>>
      BY <2>1 DEF schemeVars
    <3>2. SchemeShapes' /\ CallsFit'
      BY <2>1, <3>1 DEF SchemeInv, SchemeShapes, CallsFit
    <3>3. FileInv'
      BY <2>1, <3>1 DEF SchemeInv, FileInv, HasScheme
    <3>4. OneCall' /\ HostInv' /\ AppliedUnlessOverlapped' /\ DeconfiguredUnlessChanged'
      BY <2>1, <3>1 DEF SchemeInv, OneCall, HostInv, HostTypes, AppliedUnlessOverlapped, DeconfiguredUnlessChanged
    <3> QED
      BY <3>2, <3>3, <3>4 DEF SchemeInv
  <2> QED
    BY <2>1, SchemeStepKeeps
<1>3. SchemeInv => HostFollowsFile
  BY DEF SchemeInv, FileInv, AnsweredIsStored, HostFollowsFile
<1> QED
  BY <1>1, <1>2, <1>3, PTL DEF SchemeSpec
=============================================================================
