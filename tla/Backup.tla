------------------------------- MODULE Backup -------------------------------
(***************************************************************************)
(* The backup of one disk of a running machine: the task that starts and   *)
(* watches a QEMU job, the dirty bitmap between two backups, the device    *)
(* node for the target in QEMU's chroot, the file with the last result and *)
(* a client that watches.  QEMU and the guest are external.  The lock on   *)
(* the machine and its disk (TaskPool) leaves one task at a time.          *)
(***************************************************************************)
EXTENDS Integers, FiniteSets

CONSTANTS
    Blocks,      \* blocks of the disk
    MaxWrites,   \* bound on the guest's writes
    MaxTasks,    \* bound on the backups that are started
    MaxFaults    \* bound on power cycles, daemon restarts and failing jobs

ASSUME BackupAssumption == /\ IsFiniteSet(Blocks) /\ -1 \notin Blocks
                           /\ {MaxWrites, MaxTasks, MaxFaults} \subseteq Nat

VARIABLES
    on,       \* QEMU runs
    disk,     \* the write that each block of the disk holds
    target,   \* the same for the target; Empty before its first copy
    bitmap,   \* the blocks written since the last backup, or NoBitmap
    job,      \* QEMU's job
    ended,    \* how the last job ended, and whether its events are still found
    node,     \* the chroot has the target's device node
    task,     \* the task: where it is, its options and what it has read
    stat,     \* the file with the last result
    outcome,  \* what became of the last task
    chain,    \* the bitmap's base was reported as completed on the target
    lost,     \* what a task has left is not cleared: by a restart, or a cancel that failed
    client,   \* the watching client
    n         \* what has been spent of the bounds

vars == <<on, disk, target, bitmap, job, ended, node, task, stat, outcome, chain, lost, client, n>>

Empty    == -1
NoBitmap == {Empty}
Blank    == [b \in Blocks |-> Empty]
NoJob    == [state |-> "none", inc |-> FALSE, todo |-> {}, frozen |-> {}, snap |-> Blank]
Idle     == [pc |-> "idle", inc |-> FALSE, clear |-> FALSE, hasBitmap |-> FALSE, taken |-> Blank, cancelled |-> FALSE]

Init ==
    /\ on = TRUE /\ disk = [b \in Blocks |-> 0] /\ target = Blank
    /\ bitmap = NoBitmap /\ job = NoJob /\ ended = [how |-> "none", found |-> FALSE]
    /\ node = FALSE /\ task = Idle /\ stat = "none" /\ outcome = "none" /\ chain = FALSE /\ lost = FALSE
    /\ client = [pc |-> "idle", truth |-> "none"]
    /\ n = [writes |-> 0, tasks |-> 0, faults |-> 0]

Goto(pc) == task' = IF pc = "idle" THEN Idle ELSE [task EXCEPT !.pc = pc]
Fault    == n.faults < MaxFaults /\ n' = [n EXCEPT !.faults = @ + 1]

(***************************************************************************)
(* QEMU and the guest.                                                     *)
(***************************************************************************)

\* A write marks its block in the bitmap, and in the successor that takes the
\* place of a bitmap which a job uses.
GuestWrite(b) ==
    /\ on /\ n.writes < MaxWrites
    /\ n' = [n EXCEPT !.writes = @ + 1]
    /\ disk' = [disk EXCEPT ![b] = n.writes + 1]
    /\ bitmap' = IF bitmap = NoBitmap THEN bitmap ELSE bitmap \cup {b}
    /\ UNCHANGED <<on, target, job, ended, node, task, stat, outcome, chain, lost, client>>

\* The job copies a block as it was when the job started: a block that is about
\* to be written is copied first.
JobCopies(b) ==
    /\ job.state = "running" /\ b \in job.todo
    /\ target' = [target EXCEPT ![b] = job.snap[b]]
    /\ job' = [job EXCEPT !.todo = @ \ {b}]
    /\ UNCHANGED <<on, disk, bitmap, ended, node, task, stat, outcome, chain, lost, client, n>>

\* The events of a job that ends before its task has read the clock again may be
\* older, by the second, than those the task will look for: all of them, or only the
\* error event of a job that fails, which comes before its completed event (unseen).
JobEnds(how) ==
    /\ job' = NoJob
    /\ how = "unseen" => task.pc = "running"
    /\ \E found \in BOOLEAN : /\ task.pc # "running" => found
                              /\ ended' = [how |-> how, found |-> found]
    /\ UNCHANGED <<on, disk, target, node, task, stat, outcome, chain, lost, client>>

JobCompletes ==
    /\ job.state = "running" /\ job.todo = {}
    /\ JobEnds("completed")
    /\ UNCHANGED <<bitmap, n>>

\* What an unfinished job has not secured goes back into the bitmap it used.
JobGivesUp ==
    /\ bitmap' = IF job.inc THEN bitmap \cup job.frozen ELSE bitmap
    /\ \/ job.state = "cancelling" /\ JobEnds("cancelled") /\ UNCHANGED n
       \/ job.state = "running" /\ Fault /\ \E how \in {"error", "unseen"} : JobEnds(how)

\* What the monitor finds: a job that fails sends an error event, and completes.
ErrorEvent     == ended.how = "error" /\ ended.found
CompletedEvent == ended.how \in {"completed", "error", "unseen"} /\ ended.found

\* QEMU ends, and launcher cleanup removes its chroot. The bitmap is in memory.
PowerOff ==
    /\ on /\ Fault
    /\ on' = FALSE /\ bitmap' = NoBitmap /\ job' = NoJob /\ node' = FALSE /\ stat' = "none" /\ chain' = FALSE
    /\ UNCHANGED <<disk, target, ended, task, outcome, lost, client>>

\* The monitor of the new process has no events.
PowerOn ==
    /\ ~on
    /\ on' = TRUE
    /\ ended' = [ended EXCEPT !.found = FALSE]
    /\ UNCHANGED <<disk, target, bitmap, job, node, task, stat, outcome, chain, lost, client, n>>

(***************************************************************************)
(* The task.                                                               *)
(***************************************************************************)

\* The labels and targets of a task keep a second one of this disk out, and a
\* DiskRemoveQemuBitmap that names the disk the same way.
Unlocked == task.pc = "idle"

\* With a bug: the file with the result of the last task is left.
BeforeStartKeepsFile(inc, clear) ==
    /\ Unlocked /\ n.tasks < MaxTasks /\ on
    /\ n' = [n EXCEPT !.tasks = @ + 1]
    /\ task' = [Idle EXCEPT !.pc = "map", !.inc = inc, !.clear = clear, !.hasBitmap = bitmap # NoBitmap]
    /\ outcome' = "started" /\ stat' = stat
    /\ UNCHANGED <<on, disk, target, bitmap, job, ended, node, chain, lost, client>>

\* The checks, and what is known of the disk, are of this moment.
BeforeStart(inc, clear) ==
    /\ Unlocked /\ n.tasks < MaxTasks /\ on
    /\ n' = [n EXCEPT !.tasks = @ + 1]
    /\ task' = [Idle EXCEPT !.pc = "map", !.inc = inc, !.clear = clear, !.hasBitmap = bitmap # NoBitmap]
    /\ outcome' = "started" /\ stat' = "none"
    /\ UNCHANGED <<on, disk, target, bitmap, job, ended, node, chain, lost, client>>

\* mknod does not replace a node that is there; MkdirAll, Stat and Mknod may fail
\* without it, Chown with it.
mapDeviceToChroot ==
    /\ task.pc = "map"
    /\ \/ ~node /\ Goto("command") /\ node' = TRUE
       \/ Goto("failing") /\ node' \in {node, TRUE}
    /\ UNCHANGED <<on, disk, target, bitmap, job, ended, stat, outcome, chain, lost, client, n>>

\* QEMU starts the job: inc copies the blocks of the bitmap and takes it over.
Launch(inc) ==
    /\ job' = [state |-> "running", inc |-> inc, frozen |-> IF inc THEN bitmap ELSE {},
               todo |-> IF inc THEN bitmap ELSE Blocks, snap |-> disk]
    /\ task' = [task EXCEPT !.pc = "running", !.taken = disk]

\* The four modes. An incremental job takes the bitmap over and leaves an empty
\* successor; a transaction clears or adds the bitmap in the moment of the job's
\* start.
DriveBackup ==
    \/ /\ task.inc /\ task.hasBitmap /\ ~task.clear
       /\ Launch(TRUE) /\ bitmap' = {} /\ chain' = chain
    \/ /\ task.inc /\ task.hasBitmap /\ task.clear
       /\ Launch(FALSE) /\ bitmap' = {} /\ chain' = FALSE
    \/ /\ task.inc /\ ~task.hasBitmap
       /\ Launch(FALSE) /\ bitmap' = {} /\ chain' = FALSE
    \/ /\ ~task.inc
       /\ Launch(FALSE) /\ UNCHANGED <<bitmap, chain>>

\* QEMU refuses a second job of this name, and a bitmap that is not as the task
\* has seen it.
Refused == \/ ~on \/ job.state # "none"
           \/ task.inc /\ task.hasBitmap # (bitmap # NoBitmap)

copy ==
    /\ task.pc = "command"
    /\ \/ ~Refused /\ DriveBackup
       \/ Refused /\ Goto("failing") /\ UNCHANGED <<job, bitmap, chain>>
    /\ UNCHANGED <<on, disk, target, ended, node, stat, outcome, lost, client, n>>

\* The event that the job runs is there at once, or does not come in 60 seconds.
WaitRunning ==
    /\ task.pc = "running"
    /\ \/ on /\ Goto("poll")
       \/ Goto("failing")
    /\ UNCHANGED <<on, disk, target, bitmap, job, ended, node, stat, outcome, chain, lost, client, n>>

\* With a bug: a job that is gone has completed.
PollGoneIsDone ==
    /\ task.pc = "poll"
    /\ \/ (task.cancelled \/ ~on) /\ Goto("failing")
       \/ on /\ job.state = "none" /\ Goto("completing")
    /\ UNCHANGED <<on, disk, target, bitmap, job, ended, node, stat, outcome, chain, lost, client, n>>

\* With a bug: QEMU is asked again when it does not answer.
PollForEver ==
    /\ task.pc = "poll"
    /\ \/ task.cancelled /\ Goto("failing")
       \/ /\ on /\ job.state = "none"
          /\ Goto(IF ~ErrorEvent /\ CompletedEvent THEN "completing" ELSE "failing")
    /\ UNCHANGED <<on, disk, target, bitmap, job, ended, node, stat, outcome, chain, lost, client, n>>

\* Once a second: cancelled, no QEMU to ask, or the job is gone and its events tell
\* how, the error event first. A job that still runs leaves the task where it is.
Poll ==
    /\ task.pc = "poll"
    /\ \/ (task.cancelled \/ ~on) /\ Goto("failing")
       \/ on /\ job.state = "none" /\ ErrorEvent /\ Goto("failing")
       \/ on /\ job.state = "none" /\ ~ErrorEvent /\ ~CompletedEvent /\ Goto("failing")
       \/ on /\ job.state = "none" /\ ~ErrorEvent /\ CompletedEvent /\ Goto("completing")
    /\ UNCHANGED <<on, disk, target, bitmap, job, ended, node, stat, outcome, chain, lost, client, n>>

\* The query or a search for an event fails in the monitor, while QEMU may go on.
PollFails ==
    /\ task.pc = "poll" /\ Goto("failing")
    /\ UNCHANGED <<on, disk, target, bitmap, job, ended, node, stat, outcome, chain, lost, client, n>>

\* The deferred calls: the node is removed, then the result is written. Without
\* QEMU there is no directory for it.
Finish ==
    /\ task.pc \in {"completing", "failing"}
    /\ LET result == IF task.pc = "completing" THEN "completed" ELSE "failed"
       IN /\ outcome' = result
          /\ stat' = IF on THEN result ELSE stat
          /\ chain' = \/ chain
                      \/ /\ result = "completed" /\ ended.how # "unseen" /\ task.inc /\ bitmap # NoBitmap
                         /\ task.clear \/ ~task.hasBitmap
          /\ Goto(IF result = "completed" THEN "idle" ELSE "hook")
          /\ lost' = (lost /\ result = "failed")
    /\ node' = FALSE
    /\ UNCHANGED <<on, disk, target, bitmap, job, ended, client, n>>

\* With a bug: nothing is cancelled.
NoHook ==
    /\ task.pc = "hook"
    /\ Goto("idle") /\ lost' = FALSE
    /\ UNCHANGED <<on, disk, target, bitmap, job, ended, node, stat, outcome, chain, client, n>>

\* OnFailure: block-job-cancel by the job's name; QEMU answers before it stops. An
\* error is logged, and the job goes on.
OnFailure ==
    /\ task.pc = "hook"
    /\ \/ /\ on /\ lost' = FALSE
          /\ job' = [job EXCEPT !.state = IF @ = "running" THEN "cancelling" ELSE @]
       \/ lost' = (job.state = "running") /\ job' = job
    /\ Goto("idle")
    /\ UNCHANGED <<on, disk, target, bitmap, ended, node, stat, outcome, chain, client, n>>

TaskCancel ==
    /\ task.pc # "idle" /\ ~task.cancelled
    /\ task' = [task EXCEPT !.cancelled = TRUE]
    /\ UNCHANGED <<on, disk, target, bitmap, job, ended, node, stat, outcome, chain, lost, client, n>>

\* A restart of kvmrund: the task is gone; the job and the node are not.
Restart ==
    /\ task.pc # "idle" /\ Fault
    /\ task' = Idle /\ lost' = TRUE
    /\ outcome' = IF outcome = "started" THEN "lost" ELSE outcome
    /\ UNCHANGED <<on, disk, target, bitmap, job, ended, node, stat, chain, client>>

\* DiskRemoveQemuBitmap. Its lock is on the name it is given: the full path of
\* the disk is not the name a backup locks. QEMU keeps a bitmap that a job uses.
DiskRemoveQemuBitmap(byPath) ==
    /\ byPath \/ Unlocked
    /\ on /\ bitmap # NoBitmap /\ ~(job.state # "none" /\ job.inc)
    /\ bitmap' = NoBitmap /\ chain' = FALSE
    /\ UNCHANGED <<on, disk, target, job, ended, node, task, stat, outcome, lost, client, n>>

(***************************************************************************)
(* A client that watches the task by its label.                            *)
(***************************************************************************)

\* TaskGetStats: a task of the pool, or the file of the last one.
TaskGetStats == IF task.pc # "idle" THEN "running" ELSE stat

BackupProcessShowStatus ==
    /\ client.pc = "idle" /\ TaskGetStats # "none"
    /\ client' = [client EXCEPT !.pc = "watching"]
    /\ UNCHANGED <<on, disk, target, bitmap, job, ended, node, task, stat, outcome, chain, lost, n>>

\* A task that is not found ends the loop and is no error.
Collect ==
    /\ client.pc = "watching" /\ TaskGetStats # "running"
    /\ client' = [pc |-> IF TaskGetStats = "failed" THEN "error" ELSE "success", truth |-> outcome]
    /\ UNCHANGED <<on, disk, target, bitmap, job, ended, node, task, stat, outcome, chain, lost, n>>

TaskStep == mapDeviceToChroot \/ copy \/ WaitRunning \/ Poll \/ Finish \/ OnFailure
QemuStep == (\E b \in Blocks : JobCopies(b)) \/ JobCompletes \/ JobGivesUp

Next ==
    \/ \E b \in Blocks : GuestWrite(b) \/ JobCopies(b)
    \/ JobCompletes \/ JobGivesUp \/ PowerOff \/ PowerOn
    \/ \E inc, clear \in BOOLEAN : BeforeStart(inc, clear)
    \/ mapDeviceToChroot \/ copy \/ WaitRunning \/ Poll \/ PollFails \/ Finish \/ OnFailure
    \/ TaskCancel \/ Restart
    \/ \E byPath \in BOOLEAN : DiskRemoveQemuBitmap(byPath)
    \/ BackupProcessShowStatus \/ Collect

Spec == Init /\ [][Next]_vars

\* Go runs the task, and no query has to fail; QEMU, while it runs, goes on with a
\* job until it is copied or given up.
FairSpec == Spec /\ WF_vars(TaskStep) /\ WF_vars(QemuStep)
-----------------------------------------------------------------------------
Versions == -1..MaxWrites

\* Types; and only a bitmap that exists has a base.
TypeOK ==
    /\ on \in BOOLEAN /\ node \in BOOLEAN /\ lost \in BOOLEAN
    /\ disk \in [Blocks -> Versions] /\ target \in [Blocks -> Versions]
    /\ bitmap \in (SUBSET Blocks) \cup {NoBitmap}
    /\ job \in [state : {"none", "running", "cancelling"}, inc : BOOLEAN, todo : SUBSET Blocks,
                frozen : SUBSET Blocks, snap : [Blocks -> Versions]]
    /\ ended \in [how : {"none", "completed", "cancelled", "error", "unseen"}, found : BOOLEAN]
    /\ task \in [pc : {"idle", "map", "command", "running", "poll", "completing", "failing", "hook"},
                 inc : BOOLEAN, clear : BOOLEAN, hasBitmap : BOOLEAN, taken : [Blocks -> Versions], cancelled : BOOLEAN]
    /\ stat \in {"none", "completed", "failed"}
    /\ outcome \in {"none", "started", "completed", "failed", "lost"}
    /\ client \in [pc : {"idle", "watching", "success", "error"},
                   truth : {"none", "started", "completed", "failed", "lost"}]
    /\ chain \in BOOLEAN /\ (chain => bitmap # NoBitmap)

\* A task that is reported as completed has left on the target what the disk
\* held when its job started: always for a full copy; for an incremental one if
\* the full copy its bitmap began with was reported as completed, whatever
\* became of the incremental ones between them (copy, and its four modes). One case
\* is not covered: a job that failed in the second before the task read the clock
\* again, with its completed event after it (NeverMistaken, which is false).
CompletedIsSnapshot ==
    /\ task.pc = "completing" /\ ended.how # "unseen"
    /\ ~task.inc \/ task.clear \/ ~task.hasBitmap \/ chain
    => target = task.taken

\* Not promised: no task is reported as completed whose job has failed. The error
\* event is looked for from the second in which the task read the clock after the
\* job had started, so an older one is not found, while the completed event is.
NeverMistaken == task.pc = "completing" => ended.how # "unseen"

\* When no task runs nothing of one is left: no device node in the chroot, and
\* no job that goes on writing to the target. A restart leaves both, a cancel that
\* QEMU does not answer the job; the next task, though it fails on either, clears
\* them away (the deferred os.Remove, OnFailure).
NothingLeftBehind ==
    task.pc = "idle" /\ ~lost => ~node /\ job.state # "running"

\* The file with a result is the last task's, never an earlier one's: it is
\* removed before a task starts (BeforeStart, writeStatFile).
ResultIsTheLast == stat # "none" => stat = outcome

\* A client that reports an error has watched a task that failed; and as long as
\* neither QEMU nor kvmrund has ended, so that the result is not lost, one that
\* reports success has watched a task that completed, however late it asks
\* (BackupProcessShowStatus, TaskGetStats).
WatcherSeesFailure ==
    /\ client.pc = "error" => client.truth = "failed"
    /\ client.pc = "success" /\ n.faults = 0 => client.truth = "completed"

\* Who asks for the result of a backup learns that of the task it watched, however
\* late it asks (writeStatFile, TaskGetStats, BackupProcessShowStatus).
ResultIsTrue == ResultIsTheLast /\ WatcherSeesFailure

\* A client that prints "Successfully completed" has watched a task that
\* completed (BackupProcessShowStatus).
WatcherTellsTruth == client.pc = "success" => client.truth = "completed"

\* Every backup that is started comes to an end, one way or the other.
BackupsEnd == task.pc # "idle" ~> task.pc = "idle"
=============================================================================
