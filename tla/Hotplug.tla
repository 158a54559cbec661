------------------------------ MODULE Hotplug ------------------------------
(***************************************************************************)
(* Hot-plug: a live request builds a device up, or takes it down, in steps *)
(* (a node in the chroot, a block or network backend, the device itself, a *)
(* tap interface, a file that describes it), each of which may fail; what  *)
(* the next request knows of the machine is read from QEMU and the host.   *)
(* The guest releases a device in its own time.                            *)
(***************************************************************************)
EXTENDS Integers, Sequences, FiniteSets

CONSTANTS
    Devices,       \* devices, each of a kind
    Kind,          \* "blk", "scsi", "cdrom", "net" or "vsock" for each device
    Uid,           \* the UID that QEMU runs with
    MaxRequests,   \* bound on the requests
    MaxFailures    \* bound on steps that fail and on restarts of kvmrund

Kinds == {"blk", "scsi", "cdrom", "net", "vsock"}

ASSUME HotplugAssumption == /\ Kind \in [Devices -> Kinds]
                            /\ {Uid, MaxRequests, MaxFailures} \subseteq Nat

VARIABLES
    parts,     \* the parts of each device that exist
    leaving,   \* devices that the guest was asked to release and has not
    req,       \* the request that runs, and the steps it still has to take
    answer,    \* what the last answered request said of each device
    stray,     \* devices whose request was cut off by a restart, and not repeated
    half,      \* history: devices whose attachment ended before its last step
    n          \* requests and failures so far

plugVars == <<parts, leaving, req, answer, stray, half, n>>

NoRequest == [op |-> "none", dev |-> "none", steps |-> <<>>]

\* The steps that attach a device. A bus that is added for a SCSI disk stays.
DiskAppend        == <<"node", "drive", "device">>
\* The medium is changed at the end.
CdromAppend       == <<"drive", "device", "node", "medium">>
NetIfaceAppend    == <<"tap", "netdev", "device", "file">>
VSockDeviceAppend == <<"device">>

\* The steps that detach it: the node goes first, and the release by the guest is
\* awaited, except for SCSI disks and vsock devices.
DiskRemove        == <<"node", "device", "wait", "drive">>
SCSIDiskRemove    == <<"node", "device", "drive">>
CdromRemove       == <<"node", "device", "wait", "drive">>
NetIfaceRemove    == <<"device", "wait", "netdev", "tap", "file">>
VSockDeviceRemove == <<"device">>

AttachSteps == [blk |-> DiskAppend, scsi |-> DiskAppend, cdrom |-> CdromAppend,
                net |-> NetIfaceAppend, vsock |-> VSockDeviceAppend]
DetachSteps == [blk |-> DiskRemove, scsi |-> SCSIDiskRemove, cdrom |-> CdromRemove,
                net |-> NetIfaceRemove, vsock |-> VSockDeviceRemove]

All(d) == {AttachSteps[Kind[d]][i] : i \in DOMAIN AttachSteps[Kind[d]]}

\* What is read of a running machine. A block backend without a device is an
\* error (initDiskPool) unless it is an empty cdrom's, and so is an interface
\* without its file (initNetIfacePool).
ReadableOf(d) ==
    /\ Kind[d] \in {"blk", "scsi"} /\ "drive" \in parts[d] => "device" \in parts[d]
    /\ Kind[d] = "net" /\ "device" \in parts[d] => "file" \in parts[d]

Readable == \A d \in Devices : ReadableOf(d)

Known(d) == "device" \in parts[d] /\ ("drive" \in All(d) => "drive" \in parts[d])

\* The tap interface belongs to this UID, whatever QEMU's is.
TapOwner == 1024

PlugInit ==
    /\ parts = [d \in Devices |-> {}] /\ leaving = {} /\ req = NoRequest
    /\ answer = [d \in Devices |-> "none"] /\ stray = {} /\ half = {} /\ n = [requests |-> 0, failures |-> 0]

\* Handlers take "already connected" and "not connected" for success. A device
\* that is leaving is still connected.
Begin(op, d) ==
    /\ req = NoRequest /\ n.requests < MaxRequests
    /\ n' = [n EXCEPT !.requests = @ + 1]
    /\ \/ /\ Readable /\ Known(d) = (op = "detach")
          /\ req' = [op |-> op, dev |-> d,
                     steps |-> IF op = "attach" THEN AttachSteps[Kind[d]] ELSE DetachSteps[Kind[d]]]
          /\ answer' = [answer EXCEPT ![d] = "none"]
       \/ /\ Readable /\ Known(d) # (op = "detach")
          /\ answer' = [answer EXCEPT ![d] = IF op = "detach" THEN "detached"
                                             ELSE IF d \in leaving THEN "attached, leaving" ELSE "attached"]
          /\ UNCHANGED req
       \/ ~Readable /\ UNCHANGED <<req, answer>>
    /\ UNCHANGED <<parts, leaving, stray, half>>

\* What a step finds in its way. A drive of the same name is used.
Blocked(d, s) ==
    IF req.op = "attach" THEN \/ s \in {"node", "tap", "netdev", "device"} /\ s \in parts[d]
                              \/ s = "netdev" /\ Uid # TapOwner
    ELSE \/ s = "wait" /\ d \in leaving
         \/ s = "device" /\ "device" \notin parts[d]

\* A device takes its block backend along when it goes.
Gone(d) == {"device", "drive", "medium"} \cap (IF Kind[d] = "net" THEN {"device"} ELSE parts[d])

\* The parts after a step, and the devices asked to go. QEMU does not ask the
\* guest for a SCSI device.
After(d, s) ==
    IF req.op = "attach" THEN parts[d] \cup {s}
    ELSE IF s = "device" /\ Kind[d] = "scsi" THEN parts[d] \ Gone(d)
    ELSE IF s = "device" THEN parts[d] ELSE parts[d] \ {s}

Step ==
    /\ req.steps # <<>>
    /\ LET d == req.dev  s == Head(req.steps)
       IN /\ ~Blocked(d, s)
          /\ parts' = [parts EXCEPT ![d] = After(d, s)]
          /\ leaving' = IF req.op = "detach" /\ s = "device" /\ Kind[d] # "scsi" THEN leaving \cup {d} ELSE leaving
    /\ req' = [req EXCEPT !.steps = Tail(@)]
    /\ UNCHANGED <<answer, stray, half, n>>

\* A step fails by itself, or because of what is in its way.
Fails(d, s) == \/ Blocked(d, s) /\ UNCHANGED n
               \/ ~Blocked(d, s) /\ n.failures < MaxFailures /\ n' = [n EXCEPT !.failures = @ + 1]

\* A disk that has its drive and not its device, or an interface that has its
\* device and not its file, when the request ends.
HalfAttached ==
    IF req.op = "attach" /\ Kind[req.dev] # "vsock" /\ req.steps \in {<<"device">>, <<"file">>}
      THEN {req.dev} ELSE {}

\* With a bug: the node of a disk that could not be attached stays.
FailKeepsNode ==
    /\ req.steps # <<>> /\ Fails(req.dev, Head(req.steps))
    /\ req' = NoRequest /\ stray' = stray \ {req.dev} /\ half' = half \cup HalfAttached
    /\ UNCHANGED <<parts, leaving, answer>>

\* With a bug: the error of a step is not looked at.
FailGoesOn ==
    /\ req.steps # <<>> /\ Fails(req.dev, Head(req.steps))
    /\ req' = [req EXCEPT !.steps = Tail(@)]
    /\ UNCHANGED <<parts, leaving, answer, stray, half>>

\* The request ends with the error. The deferred call removes the node of a disk,
\* and that of a medium from the step that makes it on; nothing else is taken
\* back.
Fail ==
    /\ req.steps # <<>> /\ Fails(req.dev, Head(req.steps))
    /\ LET undo == req.op = "attach" /\ (Kind[req.dev] # "cdrom" \/ Head(req.steps) \in {"node", "medium"})
       IN /\ parts' = IF undo THEN [parts EXCEPT ![req.dev] = @ \ {"node"}] ELSE parts
          /\ stray' = IF undo THEN stray \ {req.dev} ELSE stray
    /\ req' = NoRequest /\ half' = half \cup HalfAttached
    /\ UNCHANGED <<leaving, answer>>

Answer ==
    /\ req # NoRequest /\ req.steps = <<>>
    /\ answer' = [answer EXCEPT ![req.dev] = IF req.op = "attach" THEN "attached" ELSE "detached"]
    /\ req' = NoRequest /\ stray' = stray \ {req.dev}
    /\ UNCHANGED <<parts, leaving, half, n>>

\* The guest releases a device: after 60 seconds too.
Release(d) ==
    /\ d \in leaving
    /\ leaving' = leaving \ {d}
    /\ parts' = [parts EXCEPT ![d] = @ \ Gone(d)]
    /\ UNCHANGED <<req, answer, stray, half, n>>

\* kvmrund restarts in the middle of a request.
Restart ==
    /\ req # NoRequest /\ n.failures < MaxFailures
    /\ n' = [n EXCEPT !.failures = @ + 1]
    /\ req' = NoRequest /\ stray' = stray \cup {req.dev} /\ half' = half \cup HalfAttached
    /\ UNCHANGED <<parts, leaving, answer>>

PlugNext ==
    \/ \E op \in {"attach", "detach"}, d \in Devices : Begin(op, d)
    \/ Step \/ Fail \/ Answer \/ Restart
    \/ \E d \in Devices : Release(d)

PlugSpec == PlugInit /\ [][PlugNext]_plugVars
-----------------------------------------------------------------------------
AllParts == {"node", "drive", "device", "medium", "tap", "netdev", "file"}

\* Types; and a device that is leaving is there.
PlugTypeOK ==
    /\ parts \in [Devices -> SUBSET AllParts]
    /\ leaving \subseteq {d \in Devices : "device" \in parts[d]}
    /\ stray \subseteq Devices /\ half \subseteq Devices
    /\ answer \in [Devices -> {"none", "attached", "detached", "attached, leaving"}]
    /\ n \in [requests : 0..MaxRequests, failures : 0..MaxFailures]

\* A device whose attachment was answered, and that was not on its way out then,
\* is complete; what failed before, or fails for another device, does not matter
\* (the order of the steps of DiskAppend, NetIfaceAppend and the others). One
\* that was there already may lack the node, which a failed detachment takes away
\* first, or the medium of a cdrom.
AttachedIsComplete ==
    \A d \in Devices : answer[d] = "attached" =>
        IF Kind[d] = "cdrom" THEN Known(d) ELSE All(d) \ {"node"} \subseteq parts[d]

\* A disk whose detachment was answered has left nothing in QEMU and no node in
\* the chroot, even if an earlier request gave up waiting for the guest and the
\* device went later (DiskRemove).
DetachedIsGone ==
    \A d \in Devices : Kind[d] \in {"blk", "scsi"} /\ answer[d] = "detached" /\ d \notin stray
                          => parts[d] = {}

\* What a handler answered holds in QEMU and in the chroot, whatever failed before:
\* an attached device is complete, a detached disk is gone (DiskAppend, DiskRemove,
\* NetIfaceAppend, CdromAppend).
AnswersHold == AttachedIsComplete /\ DetachedIsGone

\* Between requests a node in the chroot belongs to a device that is there, so
\* that the same block device can be attached again; only a restart in the middle
\* of a request leaves one, and the next request for that device, which fails on
\* it, removes it (the deferred os.Remove of DiskAppend and CdromChangeMedia).
NoStrayNode ==
    req = NoRequest => \A d \in Devices \ stray : "node" \in parts[d] => "device" \in parts[d]

\* Between requests every device can be read, whatever step of an attachment or a
\* detachment failed, was cut off by a restart or waited too long, but one: an
\* attachment that ended between the drive of a disk and its device, or between the
\* device of an interface and its file (initDiskPool, initNetIfacePool).
ReadableUnlessHalf == req = NoRequest => \A d \in Devices \ half : ReadableOf(d)

\* What requests leave behind stops no later one, if none was left half attached:
\* no node of a device that is not there, and a machine that InstanceQemu can read
\* (the deferred os.Remove, initDiskPool, initNetIfacePool).
LeftoversAreHarmless == NoStrayNode /\ ReadableUnlessHalf

\* Not promised: the machine can be read by the next request (initDiskPool).  One
\* device that is left half attached makes every later request fail.
AlwaysReadable == req = NoRequest => Readable

\* An interface whose detachment was answered has left nothing (NetIfaceRemove).
DetachedNetIsGone ==
    \A d \in Devices : Kind[d] = "net" /\ answer[d] = "detached" => parts[d] = {}

\* A vsock device whose attachment was answered is there (VSockDeviceAppend,
\* VSockDeviceRemove).
AttachedVSockStays ==
    \A d \in Devices : Kind[d] = "vsock" /\ answer[d] \in {"attached", "attached, leaving"} => "device" \in parts[d]

\* The tap interface is one that QEMU may open (AddTapInterface).
TapIsQemus == \A d \in Devices : "tap" \in parts[d] => TapOwner = Uid
=============================================================================
