----------------------------- MODULE BridgePorts -----------------------------
(***************************************************************************)
(* The taps of several machines in one bridge (internal/hostnet:           *)
(* vxlan_port.go, bridge_port.go, link.go): the bridge and the vxlan       *)
(* device of a VNI are made by the first interface that needs them and     *)
(* removed with the last one, without a lock that is common to the         *)
(* interfaces. A scheme "bridge" adds a tap to a bridge that the host has  *)
(* anyway.                                                                 *)
(*                                                                         *)
(* A device is known by an index: one that is made again has a new index,  *)
(* and a request with the old one fails. Any request may fail.             *)
(***************************************************************************)
EXTENDS Naturals

CONSTANTS
    Taps,      \* interfaces, each with a task of its own
    MaxMade,   \* devices that are ever made
    MaxTasks   \* calls in all

ASSUME PortAssumption == {MaxMade, MaxTasks} \subseteq Nat

VARIABLES
    br,         \* index of xbr_<vni>, 0 if there is none
    vx,         \* index of vxlan_<vni>, 0 if there is none
    vxIn,       \* bridge of the vxlan device, 0 if it is in none
    tap,        \* the tap exists
    in,         \* bridge of each tap, 0 if it is in none
    numbered,   \* devices made so far
    task,       \* the call running for each tap
    outcome,    \* how the last call for each tap ended
    tasks,      \* calls made
    raced       \* calls for two taps have overlapped

portVars == <<br, vx, vxIn, tap, in, numbered, task, outcome, tasks, raced>>
devices == <<br, vx, vxIn, tap, in, numbered>>

HostBridge == MaxMade + 1   \* the bridge of a scheme "bridge"
IdleTask == [op |-> "none", pc |-> "idle", br |-> 0, vx |-> 0]

PortInit ==
    /\ br = 0 /\ vx = 0 /\ vxIn = 0 /\ numbered = 0 /\ tasks = 0 /\ raced = FALSE
    /\ tap = [t \in Taps |-> FALSE] /\ in = [t \in Taps |-> 0]
    /\ task = [t \in Taps |-> IdleTask] /\ outcome = [t \in Taps |-> "none"]

\* QEMU makes its tap and takes it along when it ends (external).
PortAppears(t) ==
    /\ ~tap[t] /\ task[t].pc = "idle"
    /\ tap' = [tap EXCEPT ![t] = TRUE]
    /\ outcome' = [outcome EXCEPT ![t] = "none"]
    /\ UNCHANGED <<br, vx, vxIn, in, numbered, task, tasks, raced>>

PortGoes(t) ==
    /\ tap[t]
    /\ tap' = [tap EXCEPT ![t] = FALSE] /\ in' = [in EXCEPT ![t] = 0]
    /\ outcome' = [outcome EXCEPT ![t] = "none"]
    /\ UNCHANGED <<br, vx, vxIn, numbered, task, tasks, raced>>

(***************************************************************************)
(* Calls                                                                   *)
(***************************************************************************)
BeginTask(t, op, pc) ==
    /\ task[t].pc = "idle" /\ tasks < MaxTasks
    /\ task' = [task EXCEPT ![t] = [IdleTask EXCEPT !.op = op, !.pc = pc]]
    /\ outcome' = [outcome EXCEPT ![t] = "none"]
    /\ tasks' = tasks + 1
    /\ raced' = (raced \/ \E u \in Taps : task[u].pc # "idle")
    /\ UNCHANGED devices

VxlanPortConfigure(t) == BeginTask(t, "vxlan", "find br")
VxlanPortDeconfigure(t) == BeginTask(t, "unvxlan", "del tap")
BridgePortConfigure(t) == BeginTask(t, "bridge", "tap in")
BridgePortDeconfigure(t) == BeginTask(t, "unbridge", "tap out")

Done(t, how) ==
    /\ task' = [task EXCEPT ![t] = IdleTask]
    /\ outcome' = [outcome EXCEPT ![t] = how]
    /\ UNCHANGED <<tasks, raced>>
Answer(t) == Done(t, task[t].op)
Fail(t) == Done(t, "failed")
TaskGoto(t, pc) ==
    /\ task' = [task EXCEPT ![t].pc = pc]
    /\ UNCHANGED <<outcome, tasks, raced>>
At(t, pc) == task[t].pc = pc

TaskFails(t) == task[t].pc # "idle" /\ Fail(t) /\ UNCHANGED devices

(***************************************************************************)
(* VxlanPortConfigure                                                      *)
(***************************************************************************)
\* CreateBridgeIfNotExist: looked up, and added if it was not found.
FindBridge(t) ==
    /\ At(t, "find br")
    /\ task' = [task EXCEPT ![t].pc = IF br = 0 THEN "add br" ELSE "find vx", ![t].br = br]
    /\ UNCHANGED <<devices, outcome, tasks, raced>>

CreateBridge(t) ==
    /\ At(t, "add br") /\ numbered < MaxMade
    /\ IF br # 0
         THEN Fail(t) /\ UNCHANGED <<br, numbered>>
         ELSE /\ br' = numbered + 1 /\ numbered' = numbered + 1
              /\ task' = [task EXCEPT ![t].pc = "find vx", ![t].br = numbered + 1]
              /\ UNCHANGED <<outcome, tasks, raced>>
    /\ UNCHANGED <<vx, vxIn, tap, in>>

\* CreateVxlanIfNotExist in the same way, after the bridge was set up.
FindVxlan(t) ==
    /\ At(t, "find vx")
    /\ IF task[t].br # br
         THEN Fail(t)
         ELSE /\ task' = [task EXCEPT ![t].pc = IF vx = 0 THEN "add vx" ELSE "vx in", ![t].vx = vx]
              /\ UNCHANGED <<outcome, tasks, raced>>
    /\ UNCHANGED devices

CreateVxlan(t) ==
    /\ At(t, "add vx") /\ numbered < MaxMade
    /\ IF vx # 0
         THEN Fail(t) /\ UNCHANGED <<vx, vxIn, numbered>>
         ELSE /\ vx' = numbered + 1 /\ vxIn' = 0 /\ numbered' = numbered + 1
              /\ task' = [task EXCEPT ![t].pc = "vx in", ![t].vx = numbered + 1]
              /\ UNCHANGED <<outcome, tasks, raced>>
    /\ UNCHANGED <<br, tap, in>>

VxlanSetMaster(t) ==
    /\ At(t, "vx in")
    /\ IF task[t].vx # vx \/ task[t].br # br
         THEN Fail(t) /\ UNCHANGED vxIn
         ELSE TaskGoto(t, "tap in") /\ vxIn' = br
    /\ UNCHANGED <<br, vx, tap, in, numbered>>

\* The tap is put into the bridge; the end of BridgePortConfigure as well.
TapSetMaster(t) ==
    LET bridge == IF task[t].op = "bridge" THEN HostBridge ELSE task[t].br
    IN  /\ At(t, "tap in")
        /\ IF ~tap[t] \/ bridge \notin {br, HostBridge}
             THEN Fail(t) /\ UNCHANGED in
             ELSE TaskGoto(t, "tap up") /\ in' = [in EXCEPT ![t] = bridge]
        /\ UNCHANGED <<br, vx, vxIn, tap, numbered>>

\* LinkSetUp and, if the scheme has one, the MTU of bridge, vxlan and tap.
TapSetUp(t) ==
    /\ At(t, "tap up")
    /\ IF tap[t] THEN Answer(t) ELSE Fail(t)
    /\ UNCHANGED devices

SetMTU(t) ==
    /\ At(t, "tap up")
    /\ IF tap[t] /\ (task[t].op = "bridge" \/ (task[t].br = br /\ task[t].vx = vx))
         THEN Answer(t) ELSE Fail(t)
    /\ UNCHANGED devices

(***************************************************************************)
(* VxlanPortDeconfigure and BridgePortDeconfigure                          *)
(***************************************************************************)
RemoveTap(t) ==
    /\ At(t, "del tap")
    /\ tap' = [tap EXCEPT ![t] = FALSE] /\ in' = [in EXCEPT ![t] = 0]
    /\ TaskGoto(t, "list")
    /\ UNCHANGED <<br, vx, vxIn, numbered>>

\* Mutant: the ports of the bridge are not looked at
ListPortsNever(t) ==
    /\ At(t, "list")
    /\ task' = [task EXCEPT ![t].pc = "del vx", ![t].br = br]
    /\ UNCHANGED <<outcome, tasks, raced, devices>>

\* Mutant: the vxlan device counts as another port
ListPortsAndVxlan(t) ==
    /\ At(t, "list")
    /\ IF br # 0 /\ (vxIn = br \/ \E u \in Taps : in[u] = br)
         THEN Answer(t)
         ELSE /\ task' = [task EXCEPT ![t].pc = "del vx", ![t].br = br]
              /\ UNCHANGED <<outcome, tasks, raced>>
    /\ UNCHANGED devices

\* The bridge is looked up and the links are listed.
ListPorts(t) ==
    /\ At(t, "list")
    /\ IF br # 0 /\ (\E u \in Taps : in[u] = br)
         THEN Answer(t)
         ELSE /\ task' = [task EXCEPT ![t].pc = "del vx", ![t].br = br]
              /\ UNCHANGED <<outcome, tasks, raced>>
    /\ UNCHANGED devices

RemoveVxlan(t) ==
    /\ At(t, "del vx")
    /\ vx' = 0 /\ vxIn' = 0
    /\ IF task[t].br = 0 THEN Answer(t) ELSE TaskGoto(t, "del br")
    /\ UNCHANGED <<br, tap, in, numbered>>

\* The kernel lets the ports of a bridge go when it is deleted.
RemoveBridge(t) ==
    /\ At(t, "del br")
    /\ IF task[t].br # br
         THEN Fail(t) /\ UNCHANGED <<br, vxIn, in>>
         ELSE /\ br' = 0 /\ vxIn' = 0
              /\ in' = [u \in Taps |-> IF in[u] = br THEN 0 ELSE in[u]]
              /\ Answer(t)
    /\ UNCHANGED <<vx, tap, numbered>>

TapSetNoMaster(t) ==
    /\ At(t, "tap out")
    /\ in' = [in EXCEPT ![t] = 0]
    /\ Answer(t)
    /\ UNCHANGED <<br, vx, vxIn, tap, numbered>>

PortNext ==
    \E t \in Taps :
        \/ PortAppears(t) \/ PortGoes(t)
        \/ VxlanPortConfigure(t) \/ VxlanPortDeconfigure(t)
        \/ BridgePortConfigure(t) \/ BridgePortDeconfigure(t) \/ TaskFails(t)
        \/ FindBridge(t) \/ CreateBridge(t) \/ FindVxlan(t) \/ CreateVxlan(t)
        \/ VxlanSetMaster(t) \/ TapSetMaster(t) \/ TapSetUp(t) \/ SetMTU(t)
        \/ RemoveTap(t) \/ ListPorts(t) \/ RemoveVxlan(t) \/ RemoveBridge(t) \/ TapSetNoMaster(t)

PortSpec == PortInit /\ [][PortNext]_portVars

(***************************************************************************)
(* Properties                                                              *)
(***************************************************************************)
\* Devices are those that were made, and a port is in a bridge that exists.
PortTypeOK ==
    /\ br \in 0..numbered /\ vx \in 0..numbered /\ numbered \in 0..MaxMade
    /\ vxIn \in {0, br} /\ (vx = 0 => vxIn = 0)
    /\ \A t \in Taps : in[t] \in {0, br, HostBridge} /\ (in[t] # 0 => tap[t])
    /\ tasks \in 0..MaxTasks

\* The tap reaches the other hosts of its network.
Connected(t) == in[t] # 0 /\ in[t] = br /\ vx # 0 /\ vxIn = br

\* A tap whose configuration was answered is connected for as long as it
\* exists, whatever calls for other taps, complete or failed, come after it
\* (VxlanPortConfigure, VxlanPortDeconfigure); provided that no two calls
\* ran at the same time.
ConnectedUnlessRaced ==
    ~raced => \A t \in Taps : outcome[t] = "vxlan" /\ tap[t] => Connected(t)

\* When a removal is answered, nothing is left of a network without ports,
\* also if a configuration before it had failed half-way; again if calls do
\* not overlap (VxlanPortDeconfigure).
LastPortRemovesAll ==
    [][\A t \in Taps :
            (/\ ~raced /\ task[t].pc # "idle" /\ outcome'[t] = "unvxlan"
             /\ \A u \in Taps : in'[u] \in {0, HostBridge})
            => br' = 0 /\ vx' = 0]_portVars

\* Nobody removes a bridge that has another tap in it: a tap in a bridge
\* leaves it only by a call for that tap or by its own end.
\* "There are some other devices in the bridge" (vxlan_port.go:88).
OthersKeepTheirBridge ==
    [][\A t \in Taps : in[t] # 0 /\ in'[t] = 0 =>
            ~tap'[t] \/ task[t].op \in {"unvxlan", "unbridge", "bridge"}]_portVars
=============================================================================
