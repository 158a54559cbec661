------------------------------ MODULE TaskPool ------------------------------
(***************************************************************************)
(* The pool of background tasks of kvmrund (server/background_tasks.go).   *)
(*                                                                         *)
(* Every request that touches a virtual machine runs as a task.  A task    *)
(* names the objects it works on and, for each of them, the classes of     *)
(* operations it blocks while it lives: its TARGETS.  The pool (library    *)
(* go-task) refuses a task whose targets collide with those of a live one; *)
(* the server retries a refused start a bounded number of times, one       *)
(* second apart, unless a long-running task is what it collides with.      *)
(*                                                                         *)
(* An operation mode is a bit mask in the code; here it is the set of its  *)
(* bits, so that "the masks intersect" is "the sets intersect".            *)
(***************************************************************************)
EXTENDS Naturals, FiniteSets

CONSTANTS
    Clients,      \* callers of the API: gRPC requests being served
    VMs,          \* names of virtual machines
    Disks,        \* base names of disks
    Paths,        \* full names of disks, which a request may give instead
    BaseName,     \* the base name of the disk with that full name
    MaxAttempts   \* attempts of taskStart to start a task (10 in the code)

ASSUME AttemptsAssumption == MaxAttempts \in Nat \ {0}

ASSUME PathsAssumption == BaseName \in [Paths -> Disks] /\ Paths \cap Disks = {}

-----------------------------------------------------------------------------
(* Operation modes and targets. *)

ModeBlockConf   == {7}
ModeBlockBackup == {6}
ModeNoBlock     == {}

\* With a bug: the mask lacks its highest bit.
ModeBlockSeven == 0..6

ModeBlockAll    == 0..7

\* The object names "vm", "vm:disk" and "vm/part" of the code.  A disk is named
\* as the request named it.
Machine  == "machine"
Parts    == {"registration", "deregistration", "shutdown"}
Objects  == VMs \X ({Machine} \cup Disks \cup Paths \cup Parts)

\* The mode a map of targets gives an object: an absent key blocks nothing.
OnlyOn(objects, mode) == [o \in Objects |-> IF o \in objects THEN mode ELSE ModeNoBlock]

NoBlockOperations(vm)         == OnlyOn({<<vm, Machine>>}, ModeNoBlock)

\* With a bug: the targets are registered with an empty mask.
BlockNothing(vm, part) == OnlyOn({<<vm, part>>}, ModeNoBlock)

BlockAnyOperations(vm, part)  == OnlyOn({<<vm, part>>}, ModeBlockAll)

\* With a bug: a handler of the stored configuration blocks nothing.
ConfUnblocked(vm) == NoBlockOperations(vm)

BlockConfOperations(vm)       == OnlyOn({<<vm, Machine>>}, ModeBlockConf)

\* With a bug: a backup blocks its disk and not the machine.
BlockDiskOnly(vm, d) == OnlyOn({<<vm, d>>}, ModeBlockAll)

BlockBackupOperations(vm, d)  ==
    [o \in Objects |-> IF o = <<vm, Machine>> THEN ModeBlockConf
                       ELSE IF o = <<vm, d>> THEN ModeBlockAll ELSE ModeNoBlock]

-----------------------------------------------------------------------------
(* The operations of the API, by the targets and labels they start with.   *)
(*   Update        device, memory, power, create, delete ... (BlockAny)    *)
(*   Conf          changes of the stored configuration only (BlockConf)    *)
(*   Live          link state, block resize, vnc activation (NoBlock)      *)
(*   BitmapRemove  removal of a disk's backup bitmap (BlockAny on the disk)*)
MachineKinds  == {"Update", "Conf", "Live", "Migration", "IncomingMigration",
                  "Registration", "Deregistration", "Shutdown"}
DiskKinds     == {"DiskBackup", "BitmapRemove"}
Operations    == [kind : MachineKinds, vm : VMs]
                   \cup [kind : DiskKinds, vm : VMs, disk : Disks \cup Paths]
NoOperation   == [kind |-> "None"]

\* d.Backend.BaseName(): a backup turns the name it is given into the base name
\* before it names its object and its label; a removal of a bitmap does not.
BaseOf(disk) == IF disk \in Paths THEN BaseName[disk] ELSE disk

Targets(op) ==
    CASE op.kind \in {"Update", "Migration", "IncomingMigration"}
                                      -> BlockAnyOperations(op.vm, Machine)
      [] op.kind = "Conf"             -> BlockConfOperations(op.vm)
      [] op.kind = "Live"             -> NoBlockOperations(op.vm)
      [] op.kind = "DiskBackup"       -> BlockBackupOperations(op.vm, BaseOf(op.disk))
      [] op.kind = "BitmapRemove"     -> BlockAnyOperations(op.vm, op.disk)
      [] op.kind = "Registration"     -> BlockAnyOperations(op.vm, "registration")
      [] op.kind = "Deregistration"   -> BlockAnyOperations(op.vm, "deregistration")
      [] op.kind = "Shutdown"         -> BlockAnyOperations(op.vm, "shutdown")

\* The tasks started with WithGroupLabel(vmname).
InGroup(op, vm) ==
    /\ op.kind \in {"Migration", "IncomingMigration", "DiskBackup", "Registration"}
    /\ op.vm = vm

\* The tasks started with WithGroupLabel(vmname + "/long-running").
LongRunning(op, vm) ==
    /\ op.kind \in {"Migration", "IncomingMigration", "DiskBackup"}
    /\ op.vm = vm

\* The label a task is started with by WithUniqueLabel, if it has one.
UniqueLabel(op) ==
    CASE op.kind = "DiskBackup" -> {<<op.kind, op.vm, BaseOf(op.disk)>>}
      [] op.kind \in {"Migration", "IncomingMigration", "Registration",
                      "Deregistration", "Shutdown"} -> {<<op.kind, op.vm>>}
      [] OTHER -> {}

\* Two maps of targets collide when they block a common class on an object.
Collide(t1, t2) == \E o \in Objects : t1[o] \cap t2[o] # {}

-----------------------------------------------------------------------------
VARIABLES
    pc,         \* where each client is in taskStart
    op,         \* the operation it asked for
    attempt,    \* the failed attempts it has made
    answer,     \* what its last request was answered
    cancelled   \* the clients whose live task has had its context cancelled

taskVars == <<pc, op, attempt, answer, cancelled>>

PCs      == {"idle", "starting", "refused", "running"}
Answers  == {"none", "done", "failed"}   \* an error of whatever kind is "failed"
Live     == {c \in Clients : pc[c] = "running"}

TaskInit ==
    /\ pc        = [c \in Clients |-> "idle"]
    /\ op        = [c \in Clients |-> NoOperation]
    /\ attempt   = [c \in Clients |-> 0]
    /\ answer    = [c \in Clients |-> "none"]
    /\ cancelled = {}

\* A client calls TaskStart or TaskRunFunc.
Request(c, o) ==
    /\ pc[c] = "idle"
    /\ pc'      = [pc EXCEPT ![c] = "starting"]
    /\ op'      = [op EXCEPT ![c] = o]
    /\ answer'  = [answer EXCEPT ![c] = "none"]
    /\ UNCHANGED <<attempt, cancelled>>

\* taskStart returns to its caller.
Return(c, result) ==
    /\ pc'      = [pc EXCEPT ![c] = "idle"]
    /\ op'      = [op EXCEPT ![c] = NoOperation]
    /\ attempt' = [attempt EXCEPT ![c] = 0]
    /\ answer'  = [answer EXCEPT ![c] = result]

\* go-task: StartTask and RunFunc register the task unless a live one collides.
Admissible(c) == \A d \in Live : ~Collide(Targets(op[c]), Targets(op[d]))

StartTask(c) ==
    /\ pc[c] = "starting"
    /\ pc' = [pc EXCEPT ![c] = IF Admissible(c) THEN "running" ELSE "refused"]
    /\ UNCHANGED <<op, attempt, answer, cancelled>>

\* After a ConcurrentRunningError: a long-running task on one of the objects
\* ends the loop, otherwise the next attempt follows a second later.
Locked(c) ==
    \E d \in Live, vm \in VMs :
        /\ Targets(op[c])[<<vm, Machine>>] # ModeNoBlock
        /\ LongRunning(op[d], vm)

\* With a bug: the attempts are not counted.
RetryUncounted(c) ==
    /\ pc[c] = "refused"
    /\ \/ /\ Locked(c)
          /\ Return(c, "failed")
       \/ /\ ~Locked(c)
          /\ attempt[c] + 1 < MaxAttempts
          /\ attempt' = attempt
          /\ pc'      = [pc EXCEPT ![c] = "starting"]
          /\ UNCHANGED <<op, answer>>
       \/ /\ ~Locked(c)
          /\ attempt[c] + 1 >= MaxAttempts
          /\ Return(c, "failed")
    /\ UNCHANGED cancelled

Retry(c) ==
    /\ pc[c] = "refused"
    /\ \/ /\ Locked(c)
          /\ Return(c, "failed")
       \/ /\ ~Locked(c)
          /\ attempt[c] + 1 < MaxAttempts
          /\ attempt' = [attempt EXCEPT ![c] = @ + 1]
          /\ pc'      = [pc EXCEPT ![c] = "starting"]
          /\ UNCHANGED <<op, answer>>
       \/ /\ ~Locked(c)
          /\ attempt[c] + 1 >= MaxAttempts
          /\ Return(c, "failed")
    /\ UNCHANGED cancelled

\* The task's last callback returned: the pool forgets the task.
Finish(c, result) ==
    /\ pc[c] = "running"
    /\ Return(c, result)
    /\ cancelled' = cancelled \ {c}

\* TaskCancel(vmname): QemuInstanceStop, before it powers the machine down.
CancelGroup(c) ==
    /\ pc[c] = "running"
    /\ op[c].kind = "Shutdown"
    /\ cancelled' = cancelled \cup {d \in Live : InGroup(op[d], op[c].vm)}
    /\ UNCHANGED <<pc, op, attempt, answer>>

\* kvmrund is restarted: the pool of the new process is empty, and the callers
\* of the old one see their connection break.
Restart ==
    /\ pc'        = [c \in Clients |-> "idle"]
    /\ op'        = [c \in Clients |-> NoOperation]
    /\ attempt'   = [c \in Clients |-> 0]
    /\ answer'    = [c \in Clients |-> IF pc[c] = "idle" THEN answer[c] ELSE "failed"]
    /\ cancelled' = {}

TaskNext ==
    \/ \E c \in Clients :
          \/ \E o \in Operations : Request(c, o)
          \/ StartTask(c)
          \/ Retry(c)
          \/ \E result \in {"done", "failed"} : Finish(c, result)
          \/ CancelGroup(c)
    \/ Restart

TaskSpec == TaskInit /\ [][TaskNext]_taskVars

\* taskStart is a loop of one goroutine, and every task's callbacks return.
TaskFairness ==
    \A c \in Clients : /\ WF_taskVars(StartTask(c) \/ Retry(c))
                       /\ WF_taskVars(Finish(c, "done") \/ Finish(c, "failed"))

FairTaskSpec == TaskSpec /\ TaskFairness

-----------------------------------------------------------------------------
(* Properties. *)

TaskTypeOK ==
    /\ pc        \in [Clients -> PCs]
    /\ op        \in [Clients -> Operations \cup {NoOperation}]
    /\ attempt   \in [Clients -> 0..(MaxAttempts - 1)]
    /\ answer    \in [Clients -> Answers]
    /\ cancelled \subseteq Clients

\* What the admission of the pool amounts to: two live tasks block no common
\* class of operations on one object.
Exclusion ==
    \A c, d \in Live : c # d => ~Collide(Targets(op[c]), Targets(op[d]))

\* The labels given with WithUniqueLabel are unique among the live tasks even
\* before the classifier looks at them: the targets already keep such tasks
\* apart, so a label never leads to more than one task (and a cancel by label
\* never to the wrong one).
UniqueLabels ==
    \A c, d \in Live : c # d => UniqueLabel(op[c]) \cap UniqueLabel(op[d]) = {}

\* What the function of a task changes, whatever its targets are: the machine's
\* configuration file, the devices of its QEMU, the bitmap of a disk.
Changes(o) ==
    CASE o.kind \in {"Update", "Migration", "IncomingMigration"}
                                    -> {<<o.vm, "file", Machine>>, <<o.vm, "devices", Machine>>}
      [] o.kind = "Conf"            -> {<<o.vm, "file", Machine>>}
      [] o.kind \in DiskKinds       -> {<<o.vm, "bitmap", BaseOf(o.disk)>>}
      [] OTHER                      -> {}

\* What it needs to stay as it is: a backup works on a disk of QEMU.
Needs(o) == Changes(o) \cup (IF o.kind = "DiskBackup" THEN {<<o.vm, "devices", Machine>>}
                                                     ELSE {})

\* The targets that the handlers name are enough: no two live tasks change the
\* configuration file or the devices of one machine, and while a disk is being
\* backed up nobody re-plugs devices of its machine, migrates it, backs the
\* disk up as well or drops its bitmap, on which an incremental backup depends,
\* by its base name.  (For a removal by path see BitmapStays.)
ChangesAreApart ==
    \A c, d \in Live :
        (c # d /\ (op[c].kind = "BitmapRemove" => op[c].disk \in Disks)
               /\ (op[d].kind = "BitmapRemove" => op[d].disk \in Disks))
            => Changes(op[c]) \cap Needs(op[d]) = {}

\* False of the code: DiskRemoveQemuBitmap names its object by the disk as it
\* was given, so by its path the bitmap goes while the disk is backed up.
BitmapStays ==
    \A c, d \in Live : c # d => Changes(op[c]) \cap Needs(op[d]) = {}

\* Every request is answered: taskStart gives up after MaxAttempts attempts,
\* so no caller waits for ever, however busy the machine is.
EveryRequestAnswered == \A c \in Clients : (pc[c] # "idle") ~> (pc[c] = "idle")

=============================================================================
