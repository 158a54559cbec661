--------------------------- MODULE NetworkSchemes ---------------------------
(***************************************************************************)
(* The network scheme of one interface of a machine (server/network): the  *)
(* entry in the machine's config_network, and what of it is applied to the *)
(* host. The calls that change the file exclude each other (they block the *)
(* machine), and so do the calls that configure the host (they block       *)
(* ifname/hostnet); a call of the first kind and one of the second do not, *)
(* as the first block machine:ifname/hostnet, which is another object.     *)
(*                                                                         *)
(* Values have the Go type they have in memory: an attribute that is set   *)
(* by a call is what the call passes, a number that is read from the file  *)
(* is a float64. The host's own steps are in RouterLink and BridgePorts;   *)
(* here one of the functions of internal/hostnet is one step.              *)
(***************************************************************************)
EXTENDS Naturals, FiniteSets

CONSTANTS
    Prefixes,        \* prefixes
    MaxRate,         \* largest limit of traffic
    Options,         \* the options CreateConf is called with
    Updates,         \* the updates UpdateConf is called with
    MaxSchemeCalls   \* number of calls

MinMTU == 1280      \* "In IPv6, the minimum link MTU is 1280 octets"
MaxVLAN == 4094     \* 1<<12 - 2
MaxVNI == 16777215  \* 1<<24 - 1

Types == {"manual", "routed", "bridge", "vxlan", "vlan"}
Rates == 0..MaxRate

(***************************************************************************)
(* Schemes. "bind", "bridge" and "parent" names are always given and are   *)
(* left out; "id" is the VNI or the VLAN identifier.                       *)
(***************************************************************************)
Num(v) == [go |-> "uint32", v |-> v]
Strings(s) == [go |-> "[]string", v |-> s]

\* What CreateConf and UpdateConf may be given.
AllOptions == [type : Types, mtu : Nat, addrs : SUBSET Prefixes, in : Rates, out : Rates, id : Nat]
Unset == [go |-> "none", v |-> 0]
Given(S) == {Unset} \cup [go : {"uint32"}, v : S]
AllUpdates == [in : Given(Rates), out : Given(Rates), mtu : Given(Nat),
               append : SUBSET Prefixes, remove : SUBSET Prefixes, bad : BOOLEAN]

ASSUME CallsAssumption ==
    /\ \A o \in Options : o \in AllOptions /\ (o.type # "routed" => o.in = 0 /\ o.out = 0)
    /\ \A u \in Updates : u \in AllUpdates

\* Validate, on valid names, addresses and gateways.
commonValidate(o) == o.mtu = 0 \/ o.mtu >= MinMTU
vxlanValidate(o) == o.id > 0 /\ o.id < MaxVNI
vlanValidate(o) == o.id > 0 /\ o.id < MaxVLAN
Validate(o) ==
    /\ commonValidate(o)
    /\ o.type = "vxlan" => vxlanValidate(o)
    /\ o.type = "vlan" => vlanValidate(o)

\* Properties of each type: limits are set even if they are 0, an MTU or a
\* list of addresses is not.
When(b, k, v) == IF b THEN [x \in {k} |-> v] ELSE <<>>
With(f, g) == [k \in DOMAIN f \cup DOMAIN g |-> IF k \in DOMAIN f THEN f[k] ELSE g[k]]
commonProperties(o) ==
    With(When(o.mtu > 0, "mtu", Num(o.mtu)), When(o.addrs # {}, "addrs", Strings(o.addrs)))
routedProperties(o) == [in_limit |-> Num(o.in), out_limit |-> Num(o.out)]
vxlanProperties(o) == [vni |-> Num(o.id)]
vlanProperties(o) == [vlan_id |-> Num(o.id)]
Properties(o) ==
    [type |-> o.type,
     attrs |-> With(commonProperties(o), CASE o.type = "routed" -> routedProperties(o)
                                           [] o.type = "vxlan" -> vxlanProperties(o)
                                           [] o.type = "vlan" -> vlanProperties(o)
                                           [] OTHER -> <<>>)]

\* The file has values without Go types; encoding/json reads a number as a
\* float64, and the list of addresses is made a []string.
MarshalJSON(s) == [type |-> s.type, attrs |-> [k \in DOMAIN s.attrs |-> s.attrs[k].v]]
UnmarshalJSON(f) ==
    [type |-> f.type,
     attrs |-> [k \in DOMAIN f.attrs |->
                   IF k = "addrs" THEN Strings(f.attrs[k])
                                  ELSE [go |-> "float64", v |-> f.attrs[k]]]]

\* An attribute that is there can be assigned to a variable of type go.
valueAs(s, k, go) == k \in DOMAIN s.attrs => s.attrs[k].go = go

\* The extraction of the attributes of each type succeeds.
extractCommonAttrs(s) == valueAs(s, "mtu", "uint32") /\ valueAs(s, "addrs", "[]string")
ExtractAttrs_Routed(s) == valueAs(s, "in_limit", "uint32") /\ valueAs(s, "out_limit", "uint32")
ExtractAttrs_VxLAN(s) == "vni" \in DOMAIN s.attrs /\ valueAs(s, "vni", "uint32")
ExtractAttrs_VLAN(s) == "vlan_id" \in DOMAIN s.attrs /\ valueAs(s, "vlan_id", "uint32")
ExtractAttrs(s) ==
    /\ extractCommonAttrs(s)
    /\ s.type = "routed" => ExtractAttrs_Routed(s)
    /\ s.type = "vxlan" => ExtractAttrs_VxLAN(s)
    /\ s.type = "vlan" => ExtractAttrs_VLAN(s)

Attr(s, k, default) == IF k \in DOMAIN s.attrs THEN s.attrs[k].v ELSE default
Extracted(s) ==
    [type |-> s.type, mtu |-> Attr(s, "mtu", 0), addrs |-> Attr(s, "addrs", {}),
     in |-> IF s.type = "routed" THEN Attr(s, "in_limit", 0) ELSE 0,
     out |-> IF s.type = "routed" THEN Attr(s, "out_limit", 0) ELSE 0,
     id |-> Attr(s, IF s.type = "vlan" THEN "vlan_id" ELSE "vni", 0)]

\* Set for every update of a request. An update of the addresses patches the
\* list; one with a prefix that does not parse is dropped, and the error of
\* Set with it.
patchAddrs(orig, u) == (orig \ u.remove) \cup u.append
SetsAddrs(u) == ~u.bad /\ u.append \cup u.remove # {}
Set(s, u) ==
    LET given == [in_limit |-> u.in, out_limit |-> u.out, mtu |-> u.mtu]
        keys == {k \in DOMAIN given : given[k] # Unset} \cup (IF SetsAddrs(u) THEN {"addrs"} ELSE {})
    IN  [s EXCEPT !.attrs = [k \in DOMAIN s.attrs \cup keys |->
            IF k \notin keys THEN s.attrs[k]
            ELSE IF k = "addrs" THEN Strings(patchAddrs(Attr(s, "addrs", {}), u))
            ELSE given[k]]]

(***************************************************************************)
(* State                                                                   *)
(***************************************************************************)
VARIABLES
    file,          \* the interface's entry in config_network, as MarshalJSON makes it
    running,       \* the machine runs: its tap and its pid file are there
    host,          \* what is applied to the tap
    conf,          \* the call that changes the file
    net,           \* the call that configures the host
    reply,         \* the last answer of each of the two
    schemeCalls,   \* calls made
    stored,        \* what the answered changes have left in the file
    overlap,       \* the last call overlapped another, or a start or end of the machine
    applied        \* type of the scheme that was configured last

schemeVars == <<file, running, host, conf, net, reply, schemeCalls, stored, overlap, applied>>

NoFile == [type |-> "missing", attrs |-> <<>>]   \* no config_network
NoScheme == [type |-> "none", attrs |-> <<>>]    \* no entry for the interface
Spoiled == [type |-> "spoiled", attrs |-> <<>>]  \* cut short: it does not parse
\* An entry that the administrator wrote, without limits.
Written(t) == [type |-> t, attrs |-> [k \in {"addrs"} |-> {}]]
HasScheme == file.type \in Types

Clean == [type |-> "none", in |-> 0, out |-> 0, addrs |-> {}]
IdleConf == [op |-> "none", pc |-> "idle", scheme |-> NoScheme, u |-> "none", apply |-> FALSE]
IdleNet == [op |-> "none", pc |-> "idle", attrs |-> "none"]
NoReply == [op |-> "none", ok |-> FALSE, why |-> "none", u |-> "none", apply |-> FALSE]

SchemeInit ==
    /\ file \in {NoFile, NoScheme, Written("routed"), Written("bridge")}
    /\ running \in BOOLEAN /\ host = Clean
    /\ conf = IdleConf /\ net = IdleNet
    /\ reply = [conf |-> NoReply, net |-> NoReply]
    /\ schemeCalls = 0 /\ stored = file /\ overlap = FALSE /\ applied = "none"

\* The machine starts and ends outside these calls (external).
Boot ==
    /\ ~running /\ running' = TRUE
    /\ reply' = [conf |-> NoReply, net |-> NoReply]
    /\ overlap' = (overlap \/ conf.pc # "idle" \/ net.pc # "idle")
    /\ UNCHANGED <<file, host, conf, net, schemeCalls, stored, applied>>
Halt ==
    /\ running /\ running' = FALSE
    /\ host' = Clean /\ applied' = "none"
    /\ reply' = [conf |-> NoReply, net |-> NoReply]
    /\ overlap' = (overlap \/ conf.pc # "idle" \/ net.pc # "idle")
    /\ UNCHANGED <<file, conf, net, schemeCalls, stored>>

AnswerConf(ok, why) ==
    /\ conf' = IdleConf
    /\ reply' = [reply EXCEPT !.conf = [op |-> conf.op, ok |-> ok, why |-> why, u |-> conf.u,
                                        apply |-> conf.apply]]
AnswerNet(ok, why) ==
    /\ net' = IdleNet
    /\ reply' = [reply EXCEPT !.net = [op |-> net.op, ok |-> ok, why |-> why, u |-> "none",
                                       apply |-> FALSE]]

(***************************************************************************)
(* Calls that change the file                                              *)
(***************************************************************************)
BeginConf(op, pc, scheme, u, apply) ==
    /\ conf.pc = "idle" /\ schemeCalls < MaxSchemeCalls
    /\ conf' = [op |-> op, pc |-> pc, scheme |-> scheme, u |-> u, apply |-> apply]
    /\ reply' = [conf |-> NoReply, net |-> NoReply]
    /\ schemeCalls' = schemeCalls + 1
    /\ overlap' = (net.pc # "idle")
    /\ UNCHANGED <<file, running, host, net, stored, applied>>

\* With "configure", CreateConf is this call and then ConfigureHostNetwork,
\* in a task of its own; with "deconfigure", RemoveConf is first
\* DeconfigureHostNetwork and then this call.
CreateConf ==
    \E o \in Options :
        BeginConf("create", IF Validate(o) THEN "create" ELSE "refuse", Properties(o), o, FALSE)
UpdateConf ==
    \E u \in Updates, apply \in BOOLEAN : BeginConf("update", "update", NoScheme, u, apply)
RemoveConf == BeginConf("remove", "remove", NoScheme, "none", FALSE)

Refuse ==
    /\ conf.pc = "refuse"
    /\ AnswerConf(FALSE, "invalid")
    /\ UNCHANGED <<file, running, host, net, schemeCalls, stored, overlap, applied>>

\* GetNetworkSchemes fails on a file that is not there or does not parse.
Unreadable == IF file = NoFile THEN "no file" ELSE "spoiled"
ReadFails ==
    /\ conf.pc \in {"create", "update", "remove"}
    /\ AnswerConf(FALSE, "read")
    /\ UNCHANGED <<file, running, host, net, schemeCalls, stored, overlap, applied>>

\* WriteNetworkSchemes truncates the file before it writes: with an error the file is
\* as it was, cut short, or written. next is what the change makes of what is stored.
WriteNetworkSchemes(new, next, ok) ==
    \/ file' = new /\ stored' = next
    \/ ~ok /\ file' \in {file, Spoiled} /\ UNCHANGED stored

\* GetNetworkSchemes and WriteNetworkSchemes within one task.
WriteScheme ==
    /\ conf.pc = "create"
    /\ \/ /\ file = NoScheme
          /\ LET new == MarshalJSON(conf.scheme)
             IN  \/ WriteNetworkSchemes(new, new, TRUE) /\ AnswerConf(TRUE, "none")
                 \/ WriteNetworkSchemes(new, new, FALSE) /\ AnswerConf(FALSE, "write")
       \/ /\ file # NoScheme
          /\ AnswerConf(FALSE, IF HasScheme THEN "exists" ELSE Unreadable)
          /\ UNCHANGED <<file, stored>>
    /\ UNCHANGED <<running, host, net, schemeCalls, overlap, applied>>

ReadScheme ==
    /\ conf.pc = "update"
    /\ IF ~HasScheme THEN AnswerConf(FALSE, "not found")
         ELSE /\ conf' = [conf EXCEPT !.scheme = Set(UnmarshalJSON(file), conf.u), !.pc = "write"]
              /\ UNCHANGED reply
    /\ UNCHANGED <<file, running, host, net, schemeCalls, stored, overlap, applied>>

\* Only the changes of a routed scheme are applied to the host.
Applies == conf.apply /\ conf.scheme.type = "routed"

\* Mutant: the scheme is written only if it can be extracted
WriteUpdateLate ==
    /\ conf.pc = "write"
    /\ file' = IF conf.apply /\ ~ExtractAttrs(conf.scheme) THEN file ELSE MarshalJSON(conf.scheme)
    /\ stored' = MarshalJSON(Set(UnmarshalJSON(stored), conf.u))
    /\ \/ ~Applies /\ AnswerConf(TRUE, "none")
       \/ Applies /\ ~ExtractAttrs(conf.scheme) /\ AnswerConf(FALSE, "type mismatch")
       \/ /\ Applies /\ ExtractAttrs(conf.scheme)
          /\ conf' = [conf EXCEPT !.pc = "apply in"] /\ UNCHANGED reply
    /\ UNCHANGED <<running, host, net, schemeCalls, overlap, applied>>

\* The change is written before it is applied.
WriteUpdate ==
    /\ conf.pc = "write"
    /\ \E ok \in BOOLEAN :
          /\ WriteNetworkSchemes(MarshalJSON(conf.scheme), MarshalJSON(Set(UnmarshalJSON(stored), conf.u)), ok)
          /\ \/ ~ok /\ AnswerConf(FALSE, "write")
             \/ ok /\ ~Applies /\ AnswerConf(TRUE, "none")
             \/ ok /\ Applies /\ ~ExtractAttrs(conf.scheme) /\ AnswerConf(FALSE, "type mismatch")
             \/ /\ ok /\ Applies /\ ExtractAttrs(conf.scheme)
                /\ conf' = [conf EXCEPT !.pc = "apply in"] /\ UNCHANGED reply
    /\ UNCHANGED <<running, host, net, schemeCalls, overlap, applied>>

\* The file is written only if it has the entry.
DropScheme ==
    /\ conf.pc = "remove"
    /\ \/ /\ HasScheme
          /\ \/ WriteNetworkSchemes(NoScheme, NoScheme, TRUE) /\ AnswerConf(TRUE, "none")
             \/ WriteNetworkSchemes(NoScheme, NoScheme, FALSE) /\ AnswerConf(FALSE, "write")
       \/ file = NoScheme /\ AnswerConf(TRUE, "none") /\ UNCHANGED <<file, stored>>
       \/ file \in {NoFile, Spoiled} /\ AnswerConf(FALSE, Unreadable) /\ UNCHANGED <<file, stored>>
    /\ UNCHANGED <<running, host, net, schemeCalls, overlap, applied>>

\* The loop over the updates: limits first, in the order of the request.
ApplyInLimit ==
    /\ conf.pc = "apply in"
    /\ \/ /\ conf.u.in = Unset
          /\ conf' = [conf EXCEPT !.pc = "apply out"] /\ UNCHANGED <<host, reply>>
       \/ /\ conf.u.in # Unset /\ running
          /\ host' = [host EXCEPT !.in = conf.u.in.v]
          /\ conf' = [conf EXCEPT !.pc = "apply out"] /\ UNCHANGED reply
       \/ /\ conf.u.in # Unset /\ ~running \* tc knows no such device
          /\ AnswerConf(FALSE, "host") /\ UNCHANGED host
    /\ UNCHANGED <<file, running, net, schemeCalls, stored, overlap, applied>>

\* The limit is set if the pid could not be read; if it could, the call ends
\* here, without an error.
ApplyOutLimit ==
    /\ conf.pc = "apply out"
    /\ \/ /\ conf.u.out = Unset
          /\ conf' = [conf EXCEPT !.pc = "apply addrs"] /\ UNCHANGED reply
       \/ /\ conf.u.out # Unset /\ running
          /\ AnswerConf(TRUE, "none")
       \/ /\ conf.u.out # Unset /\ ~running \* there is no link then either
          /\ AnswerConf(FALSE, "host")
    /\ UNCHANGED <<file, running, host, net, schemeCalls, stored, overlap, applied>>

\* RouterConfigureAddrs adds all prefixes of the scheme, or fails after some.
ApplyAddrs ==
    /\ conf.pc = "apply addrs"
    /\ LET as == Attr(conf.scheme, "addrs", {}) IN
       \/ /\ ~SetsAddrs(conf.u) /\ ~conf.u.bad
          /\ AnswerConf(TRUE, "none") /\ UNCHANGED host
       \/ /\ SetsAddrs(conf.u) \/ conf.u.bad
          /\ running /\ as \cap host.addrs = {}
          /\ AnswerConf(TRUE, "none") /\ host' = [host EXCEPT !.addrs = @ \cup as]
       \/ /\ SetsAddrs(conf.u) \/ conf.u.bad
          /\ \E new \in SUBSET as :
                host' = [host EXCEPT !.addrs = IF running THEN @ \cup new ELSE @]
          /\ AnswerConf(FALSE, "host")
    /\ UNCHANGED <<file, running, net, schemeCalls, stored, overlap, applied>>

(***************************************************************************)
(* Calls that configure the host                                           *)
(***************************************************************************)
BeginNet(op) ==
    /\ net.pc = "idle" /\ schemeCalls < MaxSchemeCalls
    /\ net' = [op |-> op, pc |-> "read", attrs |-> "none"]
    /\ reply' = [conf |-> NoReply, net |-> NoReply]
    /\ schemeCalls' = schemeCalls + 1
    /\ overlap' = (conf.pc # "idle")
    /\ UNCHANGED <<file, running, host, conf, stored, applied>>

ConfigureHostNetwork == BeginNet("configure")
DeconfigureHostNetwork == BeginNet("deconfigure")

\* The scheme is read, extracted and validated again; a routed one needs the
\* pid to be configured.
ReadForHost ==
    /\ net.pc = "read"
    /\ LET s == UnmarshalJSON(file) IN
       CASE ~HasScheme -> AnswerNet(FALSE, "not found")
         [] s.type = "manual" -> AnswerNet(FALSE, "manual")
         [] ~ExtractAttrs(s) -> AnswerNet(FALSE, "type mismatch")
         [] ~Validate(Extracted(s)) -> AnswerNet(FALSE, "invalid")
         [] net.op = "configure" /\ s.type = "routed" /\ ~running -> AnswerNet(FALSE, "not running")
         [] OTHER -> /\ net' = [net EXCEPT !.pc = IF net.op = "configure" THEN "first" ELSE "undo",
                                           !.attrs = Extracted(s)]
                     /\ UNCHANGED reply
    /\ UNCHANGED <<file, running, host, conf, schemeCalls, stored, overlap, applied>>

\* First stage: the tap joins its bridge, or gets its limits. Nothing is done
\* for a VLAN.
FirstStage ==
    /\ net.pc = "first"
    /\ IF running
         THEN /\ host' = CASE net.attrs.type = "routed" ->
                               [host EXCEPT !.type = "routed", !.in = net.attrs.in, !.out = net.attrs.out]
                           [] net.attrs.type \in {"bridge", "vxlan"} -> [host EXCEPT !.type = net.attrs.type]
                           [] OTHER -> host
              /\ applied' = net.attrs.type
              /\ net' = [net EXCEPT !.pc = "second"] /\ UNCHANGED reply
         ELSE AnswerNet(FALSE, "host") /\ UNCHANGED <<host, applied>>
    /\ UNCHANGED <<file, running, conf, schemeCalls, stored, overlap>>

\* Second stage: the prefixes of a routed scheme.
SecondStage ==
    /\ net.pc = "second"
    /\ LET as == IF net.attrs.type = "routed" THEN net.attrs.addrs ELSE {} IN
       IF running /\ as \cap host.addrs = {}
         THEN AnswerNet(TRUE, "none") /\ host' = [host EXCEPT !.addrs = @ \cup as]
         ELSE AnswerNet(FALSE, "host") /\ UNCHANGED host
    /\ UNCHANGED <<file, running, conf, schemeCalls, stored, overlap, applied>>

\* What RouterDeconfigure removes, or BridgePortDeconfigure; a VXLAN port is
\* removed with its tap. Whether the tap
\* was configured by a scheme of that type is not looked at.
Undo ==
    /\ net.pc = "undo"
    /\ AnswerNet(TRUE, "none")
    /\ host' = CASE net.attrs.type = "routed" -> [Clean EXCEPT !.type = IF host.type = "routed" THEN "none" ELSE host.type]
                 [] net.attrs.type = "bridge" -> [host EXCEPT !.type = IF host.type = "routed" THEN "routed" ELSE "none"]
                 [] net.attrs.type = "vxlan" -> Clean
                 [] OTHER -> host
    /\ UNCHANGED <<file, running, conf, schemeCalls, stored, overlap, applied>>

\* The file cannot be read, as while it is written, or a function of internal/hostnet
\* fails.
HostFails ==
    /\ net.pc # "idle"
    /\ AnswerNet(FALSE, "host")
    /\ UNCHANGED <<file, running, host, conf, schemeCalls, stored, overlap, applied>>

SchemeNext ==
    \/ Boot \/ Halt
    \/ CreateConf \/ UpdateConf \/ RemoveConf \/ ConfigureHostNetwork \/ DeconfigureHostNetwork
    \/ Refuse \/ ReadFails \/ WriteScheme \/ ReadScheme \/ WriteUpdate \/ DropScheme
    \/ ApplyInLimit \/ ApplyOutLimit \/ ApplyAddrs
    \/ ReadForHost \/ FirstStage \/ SecondStage \/ Undo \/ HostFails

SchemeSpec == SchemeInit /\ [][SchemeNext]_schemeVars

(***************************************************************************)
(* Properties                                                              *)
(***************************************************************************)
\* Every variable has its type.
SchemeTypeOK ==
    /\ file.type \in Types \cup {"missing", "none", "spoiled"}
    /\ DOMAIN file.attrs \subseteq {"mtu", "in_limit", "out_limit", "vni", "vlan_id", "addrs"}
    /\ running \in BOOLEAN /\ overlap \in BOOLEAN
    /\ host.type \in Types \cup {"none"} /\ host.in \in Rates /\ host.out \in Rates
    /\ host.addrs \subseteq Prefixes
    /\ schemeCalls \in 0..MaxSchemeCalls /\ applied \in Types \cup {"none"}

\* The entry in the file is what the changes so far, one after the other, make of
\* it: none is lost to another that read the file before it, none is left out when
\* its application to the host fails (UpdateConf writes before it applies), and one
\* whose writing fails is there or not; unless that failure has cut the file short.
\* Such a file is not taken for an empty one: no change after it is answered as made.
AnsweredIsStored ==
    /\ conf.pc \in {"idle", "apply in", "apply out", "apply addrs"} => file \in {stored, Spoiled}
    /\ reply.conf.ok => file = stored

\* Not promised: a change whose writing fails leaves what was there.
FailedWriteKeepsFile == file # Spoiled

\* After an update with "apply" of a routed scheme that was answered, with no
\* configuration of the host beside it, whatever happened before, the tap has the
\* inbound limit of the file (UpdateConf, RouterSetInboundLimits).
AppliedUnlessOverlapped ==
    (/\ reply.conf.op = "update" /\ reply.conf.ok /\ reply.conf.apply
     /\ reply.conf.u.in # Unset /\ ~overlap /\ running /\ file.type = "routed")
    => host.in = file.attrs["in_limit"]

\* A removal that was answered leaves nothing of the configuration on the
\* host, unless the scheme has become one of another type since it was configured,
\* or a change of it ran beside the removal (DeconfigureHostNetwork reads the
\* scheme from the file again).
DeconfiguredUnlessChanged ==
    reply.net.op = "deconfigure" /\ reply.net.ok /\ ~overlap /\ applied \in {file.type, "none"} =>
        host.type = "none" /\ (file.type = "routed" => host = Clean)

\* After an answered call the file has what was asked, and the host what the file
\* has, unless another call ran beside it (CreateConf, UpdateConf,
\* ConfigureHostNetwork, DeconfigureHostNetwork).
HostFollowsFile ==
    /\ AnsweredIsStored
    /\ AppliedUnlessOverlapped
    /\ DeconfiguredUnlessChanged

\* Not promised: an update that was applied is on the host whatever ran beside it.
\* A configuration that read the file before the update sets the limit after it.
AppliedWhateverElse ==
    (/\ reply.conf.op = "update" /\ reply.conf.ok /\ reply.conf.apply /\ net.pc = "idle"
     /\ reply.conf.u.in # Unset /\ running /\ file.type = "routed")
    => host.in = file.attrs["in_limit"]

\* A scheme that was created can be read back for the configuration of the
\* host: "Is value from attrs can be assigned to the target ?"
\* (scheme_properties.go:165).
StoredCanBeExtracted == reply.net.why # "type mismatch"

\* "PID is needed to configure net_cls.classid for use in traffic control
\* rules" (configuration.go:147): an update of the outbound limit of a
\* running machine, applied and answered, is on the host.
OutLimitIsApplied ==
    (/\ reply.conf.op = "update" /\ reply.conf.ok /\ reply.conf.apply
     /\ reply.conf.u.out # Unset /\ ~overlap /\ running /\ file.type = "routed")
    => host.out = file.attrs["out_limit"]

\* "In IPv6, the minimum link MTU is 1280 octets" (scheme_attrs.go:75): no
\* scheme in the file has a smaller one.
StoredIsValid == HasScheme => Validate(Extracted(UnmarshalJSON(file)))

\* "must be greater than 0 and less or equal 4094" (attrs_vlan.go:29): a VLAN
\* scheme with such an identifier is not refused.
VlanIdsAreAccepted ==
    reply.conf.op = "create" /\ reply.conf.why = "invalid" /\ reply.conf.u.type = "vlan" =>
        reply.conf.u.id \notin 1..MaxVLAN

\* "create a new network configuration" (cmd/vnetctl/commands.go): the first
\* scheme of a machine can be created.
FirstCanBeCreated == reply.conf.op = "create" => reply.conf.why # "no file"

\* "invalid IP address" (scheme_properties.go:96): an update with a prefix
\* that is none is not answered as if it had been made.
BadPrefixIsRefused == reply.conf.op = "update" /\ reply.conf.ok => ~reply.conf.u.bad
=============================================================================
