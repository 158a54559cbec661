---------------------------- MODULE BackupProofs ----------------------------
(***************************************************************************)
(* Proofs about the backup of a disk, for any number of blocks, writes,    *)
(* tasks, restarts and power cycles.                                       *)
(*                                                                         *)
(* The argument: a block that the bitmap does not name has not been        *)
(* written since the bitmap was made, by anybody; so the target differs    *)
(* from what a job is to leave there only in the blocks that the job still *)
(* has to copy, and a job that ends has left its snapshot.                 *)
(***************************************************************************)
EXTENDS Backup, TLAPS

\* The types of the counters, and a bitmap that a job uses is not removed.
BackupTypes ==
    /\ TypeOK /\ n \in [writes : 0..MaxWrites, tasks : Nat, faults : Nat]
    /\ job.inc => job.state # "none" /\ bitmap # NoBitmap

\* What the job of a task copies by itself, whatever was on the target before.
CopiesAll(inc, clear, hasBitmap) == ~inc \/ clear \/ ~hasBitmap

\* What was not written since a job or a task began is not in the bitmap, if there
\* is one.
BitmapKnowsWrites ==
    bitmap # NoBitmap => \A b \in Blocks \ bitmap :
        /\ job.state # "none" => job.snap[b] = disk[b]
        /\ task.pc \in {"running", "poll", "completing"} => task.taken[b] = disk[b]

\* The target has all but the blocks that are still to be copied: a full copy by
\* itself, an incremental one if the target had the base of its bitmap.
OnlyTodoIsMissing ==
    job.state # "none" /\ (~job.inc \/ chain) =>
        \A b \in Blocks \ job.todo : target[b] = job.snap[b]

\* An incremental copy has taken over the blocks it is to copy.
TodoIsFrozen == job.inc => job.todo \subseteq job.frozen

\* Between incremental copies the target differs from the disk only where the bitmap
\* says so.
ChainIsClosed ==
    chain /\ (job.state = "none" \/ ~job.inc) =>
        \A b \in Blocks \ bitmap : target[b] = disk[b]

\* The job that runs beside a task that has started one is its own. When it is gone,
\* the events are its own too.
JobIsTheTasks ==
    /\ task.pc \in {"running", "poll"} =>
           /\ job.state # "none" => /\ job.state = "running" /\ job.snap = task.taken
                                    /\ job.inc => ~CopiesAll(task.inc, task.clear, task.hasBitmap)
           /\ /\ on /\ job.state = "none" /\ ended.how = "completed" /\ ended.found
              /\ CopiesAll(task.inc, task.clear, task.hasBitmap) \/ chain
              => target = task.taken
    /\ task.pc = "completing" => job.state = "none"

SnapshotInv == /\ BitmapKnowsWrites /\ OnlyTodoIsMissing /\ TodoIsFrozen /\ ChainIsClosed
               /\ JobIsTheTasks /\ CompletedIsSnapshot

\* What a task has made for itself is removed at its end, or its end is lost.
TaskCleansUp ==
    /\ task.pc = "hook" => ~node
    /\ task.pc \in {"idle", "map"} /\ ~lost => ~node
    /\ task.pc \in {"idle", "map", "command"} /\ ~lost => job.state # "running"
    /\ task.pc = "completing" => job.state = "none"

\* The file says nothing while a task runs, and something when one has ended without
\* a fault.
FileFollowsTask ==
    /\ task.pc \notin {"idle", "hook"} => outcome = "started"
    /\ ResultIsTheLast
    /\ n.faults = 0 => /\ on
                       /\ task.pc = "hook" => stat # "none"
                       /\ client.pc # "idle" /\ task.pc = "idle" => stat # "none"

ResultInv == FileFollowsTask /\ WatcherSeesFailure

\* The two records, one by one.
JobTypes    == job \in [state : {"none", "running", "cancelling"}, inc : BOOLEAN, todo : SUBSET Blocks,
                 frozen : SUBSET Blocks, snap : [Blocks -> Versions]]
TaskTypes   == task \in [pc : {"idle", "map", "command", "running", "poll", "completing", "failing", "hook"}, inc : BOOLEAN,
                  clear : BOOLEAN, hasBitmap : BOOLEAN, taken : [Blocks -> Versions], cancelled : BOOLEAN]

\* There is a bitmap exactly if it is a set of blocks.
LEMMA BitmapIsBlocks ==
    ASSUME BackupTypes
    PROVE  (bitmap # NoBitmap <=> bitmap \subseteq Blocks) /\ {} # NoBitmap
<1>1. Empty \in NoBitmap /\ Empty \notin Blocks
  BY BackupAssumption DEF NoBitmap, Empty
<1>2. bitmap \subseteq Blocks \/ bitmap = NoBitmap
  BY DEF BackupTypes, TypeOK
<1> QED
  BY <1>1, <1>2

\* The record of no job and that of no task have the types of their variables.
LEMMA NoneIsTyped ==
    NoJob \in [state : {"none", "running", "cancelling"}, inc : BOOLEAN, todo : SUBSET Blocks,
                 frozen : SUBSET Blocks, snap : [Blocks -> Versions]] /\
    Idle \in [pc : {"idle", "map", "command", "running", "poll", "completing", "failing", "hook"}, inc : BOOLEAN,
                  clear : BOOLEAN, hasBitmap : BOOLEAN, taken : [Blocks -> Versions], cancelled : BOOLEAN]
<1>1. Blank \in [Blocks -> Versions]
  BY BackupAssumption DEF Blank, Versions, Empty
<1> QED
  BY <1>1 DEF NoJob, Idle

\* Every step keeps the types.
LEMMA TypesKept ==
    ASSUME BackupTypes, [Next]_vars
    PROVE  BackupTypes'
<1>1. CASE \E b \in Blocks : GuestWrite(b)
  BY <1>1, BackupAssumption
     DEF BackupTypes, TypeOK, Versions, Empty, NoBitmap, Blank, NoJob, Idle, GuestWrite
<1>2. CASE \E b \in Blocks : JobCopies(b)
  BY <1>2, BackupAssumption
     DEF BackupTypes, TypeOK, Versions, Empty, NoBitmap, Blank, NoJob, Idle, JobCopies
<1>3. CASE JobCompletes
  BY <1>3, BackupAssumption
     DEF BackupTypes, TypeOK, Versions, Empty, NoBitmap, Blank, NoJob, Idle, JobCompletes, JobEnds
<1>4. CASE JobGivesUp
  <2>1. JobTypes' /\ ~job'.inc
    BY <1>4, NoneIsTyped DEF JobGivesUp, JobEnds, JobTypes, NoJob
  <2>2. bitmap' \in (SUBSET Blocks) \cup {NoBitmap} /\ (chain' => bitmap' # NoBitmap)
    BY <1>4, BitmapIsBlocks, BackupAssumption DEF JobGivesUp, JobEnds, BackupTypes, TypeOK, NoBitmap, Empty
  <2>3. n' \in [writes : 0..MaxWrites, tasks : Nat, faults : Nat]
    BY <1>4 DEF JobGivesUp, Fault, BackupTypes
  <2>4. ended' \in [how : {"none", "completed", "cancelled", "error", "unseen"}, found : BOOLEAN]
    BY <1>4 DEF JobGivesUp, JobEnds
  <2> QED
    BY <1>4, <2>1, <2>2, <2>3, <2>4 DEF JobGivesUp, JobEnds, BackupTypes, TypeOK, JobTypes
<1>5. CASE PowerOff
  <2>1. JobTypes' /\ ~job'.inc /\ on' \in BOOLEAN /\ node' \in BOOLEAN /\ chain' = FALSE
    BY <1>5, NoneIsTyped DEF PowerOff, JobTypes, NoJob
  <2>2. n' \in [writes : 0..MaxWrites, tasks : Nat, faults : Nat]
    BY <1>5 DEF PowerOff, Fault, BackupTypes
  <2>3. bitmap' \in (SUBSET Blocks) \cup {NoBitmap} /\ stat' = "none"
    BY <1>5 DEF PowerOff
  <2>4. UNCHANGED <<disk, target, ended, task, outcome, lost, client>>
    BY <1>5 DEF PowerOff
  <2>5. on' \in BOOLEAN /\ node' \in BOOLEAN /\ lost' \in BOOLEAN /\ chain' \in BOOLEAN /\ ~chain'
    BY <2>1, <2>4, Zenon DEF BackupTypes, TypeOK
  <2>6. /\ disk' \in [Blocks -> Versions] /\ target' \in [Blocks -> Versions]
        /\ ended' \in [how : {"none", "completed", "cancelled", "error", "unseen"}, found : BOOLEAN]
        /\ TaskTypes'
    BY <2>4 DEF BackupTypes, TypeOK, TaskTypes
  <2>7. /\ stat' \in {"none", "completed", "failed"}
        /\ outcome' \in {"none", "started", "completed", "failed", "lost"}
        /\ client' \in [pc : {"idle", "watching", "success", "error"},
                        truth : {"none", "started", "completed", "failed", "lost"}]
    BY <2>3, <2>4 DEF BackupTypes, TypeOK
  <2>8. TypeOK'
    BY <2>1, <2>3, <2>5, <2>6, <2>7 DEF TypeOK, JobTypes, TaskTypes
  <2> QED
    BY <2>1, <2>2, <2>8 DEF BackupTypes
<1>6. CASE PowerOn
  <2>1. ended' \in [how : {"none", "completed", "cancelled", "error", "unseen"}, found : BOOLEAN] /\ on' = TRUE
    BY <1>6 DEF PowerOn, BackupTypes, TypeOK
  <2>2. UNCHANGED <<disk, target, bitmap, job, node, task, stat, outcome, chain, lost, client, n>>
    BY <1>6 DEF PowerOn
  <2> QED
    BY <2>1, <2>2 DEF BackupTypes, TypeOK
<1>7. CASE \E inc, clear \in BOOLEAN : BeforeStart(inc, clear)
  <2>1. PICK inc \in BOOLEAN, clear \in BOOLEAN : BeforeStart(inc, clear)
    BY <1>7
  <2>2. [Idle EXCEPT !.pc = "map", !.inc = inc, !.clear = clear, !.hasBitmap = bitmap # NoBitmap]
          \in [pc : {"idle", "map", "command", "running", "poll", "completing", "failing", "hook"}, inc : BOOLEAN,
                  clear : BOOLEAN, hasBitmap : BOOLEAN, taken : [Blocks -> Versions], cancelled : BOOLEAN]
    BY NoneIsTyped
  <2>3. TaskTypes'
    BY <2>1, <2>2 DEF BeforeStart, TaskTypes
  <2>4. n' \in [writes : 0..MaxWrites, tasks : Nat, faults : Nat]
    BY <2>1 DEF BeforeStart, BackupTypes
  <2> QED
    BY <2>1, <2>3, <2>4 DEF BeforeStart, BackupTypes, TypeOK, TaskTypes
<1>8. CASE mapDeviceToChroot
  <2>0. PICK pc \in {"command", "failing"} : task' = [task EXCEPT !.pc = pc]
    BY <1>8 DEF mapDeviceToChroot, Goto
  <2>1. TaskTypes'
    BY <2>0 DEF TaskTypes, BackupTypes, TypeOK
  <2>2. node' \in BOOLEAN
    <3>1. node' = TRUE \/ node' = node
      BY <1>8 DEF mapDeviceToChroot
    <3> QED
      BY <3>1, Zenon DEF BackupTypes, TypeOK
  <2>3. UNCHANGED <<on, disk, target, bitmap, job, ended, stat, outcome, chain, lost, client, n>>
    BY <1>8 DEF mapDeviceToChroot
  <2> QED
    BY <2>1, <2>2, <2>3 DEF BackupTypes, TypeOK, TaskTypes
<1>9. CASE copy
  <2>1. CASE Refused /\ Goto("failing") /\ UNCHANGED <<job, bitmap, chain>>
    <3>1. TaskTypes'
      BY <2>1 DEF Goto, TaskTypes, BackupTypes, TypeOK
    <3> QED
      BY <1>9, <2>1, <3>1 DEF copy, BackupTypes, TypeOK, TaskTypes
  <2>2. CASE ~Refused /\ DriveBackup
    <3>1. task' = [task EXCEPT !.pc = "running", !.taken = disk]
      BY <2>2 DEF DriveBackup, Launch
    <3>2. TaskTypes'
      BY <3>1 DEF TaskTypes, BackupTypes, TypeOK
    <3>3. task.inc => bitmap' = {}
      BY <2>2 DEF DriveBackup
    <3>4. ~task.inc => bitmap' = bitmap /\ chain' = chain
      BY <2>2 DEF DriveBackup
    <3>5. task.inc /\ task.hasBitmap => bitmap # NoBitmap
      BY <2>2 DEF Refused, BackupTypes, TypeOK
    <3>6. PICK inc \in BOOLEAN : /\ inc => task.inc /\ task.hasBitmap
                                 /\ job' = [state |-> "running", inc |-> inc, frozen |-> IF inc THEN bitmap ELSE {},
                                            todo |-> IF inc THEN bitmap ELSE Blocks, snap |-> disk]
      BY <2>2 DEF DriveBackup, Launch
    <3>7. JobTypes' /\ (job'.inc => bitmap' = {})
      BY <3>3, <3>5, <3>6, BitmapIsBlocks DEF JobTypes, BackupTypes, TypeOK
    <3>a. chain' = chain \/ chain' = FALSE
      BY <2>2 DEF DriveBackup
    <3>b. chain' \in BOOLEAN
      BY <3>a, Zenon DEF BackupTypes, TypeOK
    <3>c. bitmap' = {} \/ (bitmap' = bitmap /\ chain' = chain)
      BY <2>2 DEF DriveBackup
    <3>8. chain' \in BOOLEAN /\ (chain' => bitmap' # NoBitmap)
      BY <3>b, <3>c, BitmapIsBlocks, Zenon DEF BackupTypes, TypeOK
    <3>9. bitmap' \in (SUBSET Blocks) \cup {NoBitmap} /\ (job'.inc => bitmap' # NoBitmap) /\ job'.state = "running"
      BY <3>3, <3>4, <3>6, <3>7 DEF BackupTypes, TypeOK, NoBitmap
    <3> QED
      BY <1>9, <3>2, <3>7, <3>8, <3>9 DEF copy, BackupTypes, TypeOK, TaskTypes, JobTypes
  <2> QED
    BY <1>9, <2>1, <2>2 DEF copy
<1>10. CASE WaitRunning \/ Poll \/ PollFails
  BY <1>10, BackupAssumption
     DEF BackupTypes, TypeOK, Versions, Empty, NoBitmap, Blank, NoJob, Idle, WaitRunning, Poll, PollFails, ErrorEvent, CompletedEvent, Goto
<1>11. CASE Finish
  <2>1. TaskTypes'
    BY <1>11, NoneIsTyped DEF Finish, Goto, TaskTypes, BackupTypes, TypeOK
  <2>2. chain' \in BOOLEAN /\ (chain' => bitmap' # NoBitmap)
    BY <1>11 DEF Finish, BackupTypes, TypeOK
  <2>3. lost' \in BOOLEAN /\ node' \in BOOLEAN
    BY <1>11 DEF Finish, BackupTypes, TypeOK
  <2>4. stat' \in {"none", "completed", "failed"} /\ outcome' \in {"completed", "failed"}
    BY <1>11 DEF Finish, BackupTypes, TypeOK
  <2> QED
    BY <1>11, <2>1, <2>2, <2>3, <2>4 DEF Finish, BackupTypes, TypeOK, TaskTypes
<1>12. CASE OnFailure
  <2>1. TaskTypes'
    BY <1>12, NoneIsTyped DEF OnFailure, Goto, TaskTypes
  <2>2. JobTypes' /\ (job'.inc <=> job.inc) /\ (job'.state = "none" => job.state = "none")
    BY <1>12 DEF OnFailure, JobTypes, BackupTypes, TypeOK
  <2>3. lost' \in BOOLEAN
    BY <1>12 DEF OnFailure
  <2> QED
    BY <1>12, <2>1, <2>2, <2>3 DEF OnFailure, BackupTypes, TypeOK, TaskTypes, JobTypes
<1>13. CASE TaskCancel
  <2>1. TaskTypes'
    BY <1>13 DEF TaskCancel, TaskTypes, BackupTypes, TypeOK
  <2> QED
    BY <1>13, <2>1 DEF TaskCancel, BackupTypes, TypeOK, TaskTypes
<1>14. CASE Restart
  BY <1>14, BackupAssumption
     DEF BackupTypes, TypeOK, Versions, Empty, NoBitmap, Blank, NoJob, Idle, Restart, Fault
<1>15. CASE \E byPath \in BOOLEAN : DiskRemoveQemuBitmap(byPath)
  <2>1. bitmap' = NoBitmap /\ chain' = FALSE /\ ~job.inc
    BY <1>15 DEF DiskRemoveQemuBitmap, BackupTypes
  <2> QED
    BY <1>15, <2>1 DEF DiskRemoveQemuBitmap, BackupTypes, TypeOK
<1>16. CASE BackupProcessShowStatus \/ Collect \/ UNCHANGED vars
  BY <1>16, BackupAssumption
     DEF BackupTypes, TypeOK, Versions, Empty, NoBitmap, Blank, NoJob, Idle, BackupProcessShowStatus, Collect, TaskGetStats, vars
<1> QED
  BY <1>1, <1>2, <1>3, <1>4, <1>5, <1>6, <1>7, <1>8, <1>9, <1>10, <1>11, <1>12, <1>13, <1>14, <1>15, <1>16
     DEF Next

\* No step leaves something behind.
LEMMA CleansUpKept ==
    ASSUME BackupTypes, TaskCleansUp, JobIsTheTasks, [Next]_vars
    PROVE  TaskCleansUp'
<1>1. CASE \E b \in Blocks : GuestWrite(b)
  BY <1>1
     DEF BackupTypes, TypeOK, TaskCleansUp, JobIsTheTasks, GuestWrite
<1>2. CASE \E b \in Blocks : JobCopies(b)
  BY <1>2
     DEF BackupTypes, TypeOK, TaskCleansUp, JobIsTheTasks, JobCopies
<1>3. CASE JobCompletes
  BY <1>3
     DEF BackupTypes, TypeOK, TaskCleansUp, JobIsTheTasks, JobCompletes, JobEnds, NoJob, Blank
<1>4. CASE JobGivesUp
  BY <1>4
     DEF BackupTypes, TypeOK, TaskCleansUp, JobIsTheTasks, JobGivesUp, JobEnds, Fault, NoJob, Blank
<1>5. CASE PowerOff
  BY <1>5
     DEF BackupTypes, TypeOK, TaskCleansUp, JobIsTheTasks, PowerOff, Fault, NoJob, Blank
<1>6. CASE PowerOn
  BY <1>6
     DEF BackupTypes, TypeOK, TaskCleansUp, JobIsTheTasks, PowerOn
<1>7. CASE \E inc, clear \in BOOLEAN : BeforeStart(inc, clear)
  BY <1>7
     DEF BackupTypes, TypeOK, TaskCleansUp, JobIsTheTasks, BeforeStart, Unlocked, Idle, Blank
<1>8. CASE mapDeviceToChroot
  BY <1>8
     DEF BackupTypes, TypeOK, TaskCleansUp, JobIsTheTasks, mapDeviceToChroot, Goto
<1>9. CASE copy
  BY <1>9
     DEF BackupTypes, TypeOK, TaskCleansUp, JobIsTheTasks, copy, Launch, DriveBackup, Refused, Goto
<1>10. CASE WaitRunning \/ Poll \/ PollFails
  BY <1>10
     DEF BackupTypes, TypeOK, TaskCleansUp, JobIsTheTasks, WaitRunning, Poll, PollFails, ErrorEvent, CompletedEvent, Goto
<1>11. CASE Finish
  BY <1>11
     DEF BackupTypes, TypeOK, TaskCleansUp, JobIsTheTasks, Finish, Goto, Idle, Blank
<1>12. CASE OnFailure
  BY <1>12
     DEF BackupTypes, TypeOK, TaskCleansUp, JobIsTheTasks, OnFailure, Goto, Idle, Blank
<1>13. CASE TaskCancel
  BY <1>13
     DEF BackupTypes, TypeOK, TaskCleansUp, JobIsTheTasks, TaskCancel
<1>14. CASE Restart
  BY <1>14
     DEF BackupTypes, TypeOK, TaskCleansUp, JobIsTheTasks, Restart, Fault, Idle, Blank
<1>15. CASE \E byPath \in BOOLEAN : DiskRemoveQemuBitmap(byPath)
  BY <1>15
     DEF BackupTypes, TypeOK, TaskCleansUp, JobIsTheTasks, DiskRemoveQemuBitmap
<1>16. CASE BackupProcessShowStatus \/ Collect \/ UNCHANGED vars
  BY <1>16
     DEF BackupTypes, TypeOK, TaskCleansUp, JobIsTheTasks, BackupProcessShowStatus, Collect, TaskGetStats, vars
<1> QED
  BY <1>1, <1>2, <1>3, <1>4, <1>5, <1>6, <1>7, <1>8, <1>9, <1>10, <1>11, <1>12, <1>13, <1>14, <1>15, <1>16
     DEF Next

\* No step loses a result.
LEMMA ResultKept ==
    ASSUME BackupTypes, ResultInv, [Next]_vars
    PROVE  ResultInv'
<1>1. CASE \E b \in Blocks : GuestWrite(b)
  BY <1>1
     DEF BackupTypes, TypeOK, Versions, ResultInv, FileFollowsTask, ResultIsTheLast, WatcherSeesFailure, GuestWrite
<1>2. CASE \E b \in Blocks : JobCopies(b)
  BY <1>2
     DEF BackupTypes, TypeOK, Versions, ResultInv, FileFollowsTask, ResultIsTheLast, WatcherSeesFailure, JobCopies
<1>3. CASE JobCompletes
  BY <1>3
     DEF BackupTypes, TypeOK, Versions, ResultInv, FileFollowsTask, ResultIsTheLast, WatcherSeesFailure, JobCompletes, JobEnds, NoJob, Blank
<1>4. CASE JobGivesUp
  BY <1>4
     DEF BackupTypes, TypeOK, Versions, ResultInv, FileFollowsTask, ResultIsTheLast, WatcherSeesFailure, JobGivesUp, JobEnds, Fault, NoJob, Blank
<1>5. CASE PowerOff
  BY <1>5
     DEF BackupTypes, TypeOK, Versions, ResultInv, FileFollowsTask, ResultIsTheLast, WatcherSeesFailure, PowerOff, Fault, NoJob, Blank
<1>6. CASE PowerOn
  BY <1>6
     DEF BackupTypes, TypeOK, Versions, ResultInv, FileFollowsTask, ResultIsTheLast, WatcherSeesFailure, PowerOn
<1>7. CASE \E inc, clear \in BOOLEAN : BeforeStart(inc, clear)
  BY <1>7
     DEF BackupTypes, TypeOK, Versions, ResultInv, FileFollowsTask, ResultIsTheLast, WatcherSeesFailure, BeforeStart, Unlocked, Idle, Blank
<1>8. CASE mapDeviceToChroot
  BY <1>8
     DEF BackupTypes, TypeOK, Versions, ResultInv, FileFollowsTask, ResultIsTheLast, WatcherSeesFailure, mapDeviceToChroot, Goto
<1>9. CASE copy
  BY <1>9
     DEF BackupTypes, TypeOK, Versions, ResultInv, FileFollowsTask, ResultIsTheLast, WatcherSeesFailure, copy, Launch, DriveBackup, Refused, Goto
<1>10. CASE WaitRunning \/ Poll \/ PollFails
  BY <1>10
     DEF BackupTypes, TypeOK, Versions, ResultInv, FileFollowsTask, ResultIsTheLast, WatcherSeesFailure, WaitRunning, Poll, PollFails, ErrorEvent, CompletedEvent, Goto
<1>11. CASE Finish
  BY <1>11
     DEF BackupTypes, TypeOK, Versions, ResultInv, FileFollowsTask, ResultIsTheLast, WatcherSeesFailure, Finish, Goto, Idle, Blank
<1>12. CASE OnFailure
  BY <1>12
     DEF BackupTypes, TypeOK, Versions, ResultInv, FileFollowsTask, ResultIsTheLast, WatcherSeesFailure, OnFailure, Goto, Idle, Blank
<1>13. CASE TaskCancel
  BY <1>13
     DEF BackupTypes, TypeOK, Versions, ResultInv, FileFollowsTask, ResultIsTheLast, WatcherSeesFailure, TaskCancel
<1>14. CASE Restart
  BY <1>14
     DEF BackupTypes, TypeOK, Versions, ResultInv, FileFollowsTask, ResultIsTheLast, WatcherSeesFailure, Restart, Fault, Idle, Blank
<1>15. CASE \E byPath \in BOOLEAN : DiskRemoveQemuBitmap(byPath)
  BY <1>15
     DEF BackupTypes, TypeOK, Versions, ResultInv, FileFollowsTask, ResultIsTheLast, WatcherSeesFailure, DiskRemoveQemuBitmap
<1>16. CASE BackupProcessShowStatus \/ Collect \/ UNCHANGED vars
  <2>1. CASE UNCHANGED vars
    BY <2>1 DEF ResultInv, FileFollowsTask, ResultIsTheLast, WatcherSeesFailure, vars
  <2>3. CASE BackupProcessShowStatus
    <3>1. client'.pc = "watching" /\ UNCHANGED <<on, task, stat, outcome, n>>
      BY <2>3 DEF BackupProcessShowStatus, BackupTypes, TypeOK
    <3>2. task.pc = "idle" => stat # "none"
      BY <2>3 DEF BackupProcessShowStatus, TaskGetStats
    <3> QED
      BY <3>1, <3>2 DEF ResultInv, FileFollowsTask, ResultIsTheLast, WatcherSeesFailure
  <2>2. CASE Collect
    <3>1. task.pc = "idle" /\ (stat = "none" => n.faults # 0)
      BY <2>2 DEF Collect, TaskGetStats, ResultInv, FileFollowsTask
    <3>2. client' = [pc |-> IF stat = "failed" THEN "error" ELSE "success", truth |-> outcome]
      BY <2>2, <3>1 DEF Collect, TaskGetStats
    <3>3. WatcherSeesFailure'
      BY <2>2, <3>1, <3>2 DEF Collect, ResultInv, FileFollowsTask, ResultIsTheLast, WatcherSeesFailure, BackupTypes, TypeOK
    <3>4. FileFollowsTask'
      BY <2>2, <3>1 DEF Collect, ResultInv, FileFollowsTask, ResultIsTheLast
    <3> QED
      BY <3>3, <3>4 DEF ResultInv
  <2> QED
    BY <1>16, <2>1, <2>2, <2>3
<1> QED
  BY <1>1, <1>2, <1>3, <1>4, <1>5, <1>6, <1>7, <1>8, <1>9, <1>10, <1>11, <1>12, <1>13, <1>14, <1>15, <1>16
     DEF Next

\* Every write is in the bitmap.
LEMMA BitmapKnowsWritesKept ==
    ASSUME BackupTypes, SnapshotInv, [Next]_vars
    PROVE  BitmapKnowsWrites'
<1>1. CASE \E b \in Blocks : GuestWrite(b)
  BY <1>1, BackupAssumption
     DEF BackupTypes, TypeOK, Empty, NoBitmap, CopiesAll, SnapshotInv, BitmapKnowsWrites, OnlyTodoIsMissing, TodoIsFrozen, ChainIsClosed, JobIsTheTasks, CompletedIsSnapshot, GuestWrite
<1>2. CASE \E b \in Blocks : JobCopies(b)
  BY <1>2, BackupAssumption
     DEF BackupTypes, TypeOK, Empty, NoBitmap, CopiesAll, SnapshotInv, BitmapKnowsWrites, OnlyTodoIsMissing, TodoIsFrozen, ChainIsClosed, JobIsTheTasks, CompletedIsSnapshot, JobCopies
<1>3. CASE JobCompletes
  BY <1>3, BackupAssumption
     DEF BackupTypes, TypeOK, Empty, NoBitmap, CopiesAll, SnapshotInv, BitmapKnowsWrites, OnlyTodoIsMissing, TodoIsFrozen, ChainIsClosed, JobIsTheTasks, CompletedIsSnapshot, JobCompletes, JobEnds, NoJob, Blank
<1>4. CASE JobGivesUp
  BY <1>4, BackupAssumption
     DEF BackupTypes, TypeOK, Empty, NoBitmap, CopiesAll, SnapshotInv, BitmapKnowsWrites, OnlyTodoIsMissing, TodoIsFrozen, ChainIsClosed, JobIsTheTasks, CompletedIsSnapshot, JobGivesUp, JobEnds, Fault, NoJob, Blank
<1>5. CASE PowerOff
  BY <1>5, BackupAssumption
     DEF BackupTypes, TypeOK, Empty, NoBitmap, CopiesAll, SnapshotInv, BitmapKnowsWrites, OnlyTodoIsMissing, TodoIsFrozen, ChainIsClosed, JobIsTheTasks, CompletedIsSnapshot, PowerOff, Fault, NoJob, Blank
<1>6. CASE PowerOn
  BY <1>6, BackupAssumption
     DEF BackupTypes, TypeOK, Empty, NoBitmap, CopiesAll, SnapshotInv, BitmapKnowsWrites, OnlyTodoIsMissing, TodoIsFrozen, ChainIsClosed, JobIsTheTasks, CompletedIsSnapshot, PowerOn
<1>7. CASE \E inc, clear \in BOOLEAN : BeforeStart(inc, clear)
  BY <1>7, BackupAssumption
     DEF BackupTypes, TypeOK, Empty, NoBitmap, CopiesAll, SnapshotInv, BitmapKnowsWrites, OnlyTodoIsMissing, TodoIsFrozen, ChainIsClosed, JobIsTheTasks, CompletedIsSnapshot, BeforeStart, Unlocked, Idle, Blank
<1>8. CASE mapDeviceToChroot
  <2>1. task'.pc \in {"command", "failing"} /\ task.pc = "map"
    BY <1>8 DEF mapDeviceToChroot, Goto, BackupTypes, TypeOK
  <2>2. UNCHANGED <<on, disk, target, bitmap, job, ended, chain>>
    BY <1>8 DEF mapDeviceToChroot
  <2> QED
    BY <2>1, <2>2 DEF SnapshotInv, BitmapKnowsWrites
<1>9. CASE copy
  <2>1. CASE Refused /\ Goto("failing") /\ UNCHANGED <<job, bitmap, chain>>
    BY <1>9, <2>1 DEF copy, Goto, BackupTypes, TypeOK, SnapshotInv, BitmapKnowsWrites, CopiesAll
  <2>2. CASE ~Refused /\ DriveBackup
    <3>1. task' = [task EXCEPT !.pc = "running", !.taken = disk] /\ job.state = "none"
      BY <2>2 DEF DriveBackup, Launch, Refused
    <3>2. (task.inc /\ bitmap' = {}) \/ (~task.inc /\ bitmap' = bitmap /\ chain' = chain)
      BY <2>2 DEF DriveBackup
    <3>6. PICK inc \in BOOLEAN : /\ inc => ~CopiesAll(task.inc, task.clear, task.hasBitmap) /\ chain' = chain
                                 /\ ~inc /\ task.inc => ~chain'
                                 /\ job' = [state |-> "running", inc |-> inc, frozen |-> IF inc THEN bitmap ELSE {},
                                            todo |-> IF inc THEN bitmap ELSE Blocks, snap |-> disk]
      BY <2>2 DEF DriveBackup, Launch, CopiesAll
    <3>7. UNCHANGED <<disk, target, on, ended>>
      BY <1>9 DEF copy
    <3> QED
      BY <3>1, <3>2, <3>6, <3>7 DEF BackupTypes, TypeOK, SnapshotInv, BitmapKnowsWrites, CopiesAll
  <2> QED
    BY <1>9, <2>1, <2>2 DEF copy
<1>10. CASE WaitRunning \/ Poll \/ PollFails
  BY <1>10, BackupAssumption
     DEF BackupTypes, TypeOK, Empty, NoBitmap, CopiesAll, SnapshotInv, BitmapKnowsWrites, OnlyTodoIsMissing, TodoIsFrozen, ChainIsClosed, JobIsTheTasks, CompletedIsSnapshot, WaitRunning, Poll, PollFails, ErrorEvent, CompletedEvent, Goto
<1>11. CASE Finish
  BY <1>11, BackupAssumption
     DEF BackupTypes, TypeOK, Empty, NoBitmap, CopiesAll, SnapshotInv, BitmapKnowsWrites, OnlyTodoIsMissing, TodoIsFrozen, ChainIsClosed, JobIsTheTasks, CompletedIsSnapshot, Finish, Goto, Idle, Blank
<1>12. CASE OnFailure
  BY <1>12, BackupAssumption
     DEF BackupTypes, TypeOK, Empty, NoBitmap, CopiesAll, SnapshotInv, BitmapKnowsWrites, OnlyTodoIsMissing, TodoIsFrozen, ChainIsClosed, JobIsTheTasks, CompletedIsSnapshot, OnFailure, Goto, Idle, Blank
<1>13. CASE TaskCancel
  BY <1>13, BackupAssumption
     DEF BackupTypes, TypeOK, Empty, NoBitmap, CopiesAll, SnapshotInv, BitmapKnowsWrites, OnlyTodoIsMissing, TodoIsFrozen, ChainIsClosed, JobIsTheTasks, CompletedIsSnapshot, TaskCancel
<1>14. CASE Restart
  BY <1>14, BackupAssumption
     DEF BackupTypes, TypeOK, Empty, NoBitmap, CopiesAll, SnapshotInv, BitmapKnowsWrites, OnlyTodoIsMissing, TodoIsFrozen, ChainIsClosed, JobIsTheTasks, CompletedIsSnapshot, Restart, Fault, Idle, Blank
<1>15. CASE \E byPath \in BOOLEAN : DiskRemoveQemuBitmap(byPath)
  BY <1>15, BackupAssumption
     DEF BackupTypes, TypeOK, Empty, NoBitmap, CopiesAll, SnapshotInv, BitmapKnowsWrites, OnlyTodoIsMissing, TodoIsFrozen, ChainIsClosed, JobIsTheTasks, CompletedIsSnapshot, DiskRemoveQemuBitmap
<1>16. CASE BackupProcessShowStatus \/ Collect \/ UNCHANGED vars
  BY <1>16, BackupAssumption
     DEF BackupTypes, TypeOK, Empty, NoBitmap, CopiesAll, SnapshotInv, BitmapKnowsWrites, OnlyTodoIsMissing, TodoIsFrozen, ChainIsClosed, JobIsTheTasks, CompletedIsSnapshot, BackupProcessShowStatus, Collect, TaskGetStats, vars
<1> QED
  BY <1>1, <1>2, <1>3, <1>4, <1>5, <1>6, <1>7, <1>8, <1>9, <1>10, <1>11, <1>12, <1>13, <1>14, <1>15, <1>16
     DEF Next

\* The target has all but the rest.
LEMMA OnlyTodoIsMissingKept ==
    ASSUME BackupTypes, SnapshotInv, [Next]_vars
    PROVE  OnlyTodoIsMissing'
<1>1. CASE \E b \in Blocks : GuestWrite(b)
  BY <1>1, BackupAssumption
     DEF BackupTypes, TypeOK, Empty, NoBitmap, CopiesAll, SnapshotInv, BitmapKnowsWrites, OnlyTodoIsMissing, TodoIsFrozen, ChainIsClosed, JobIsTheTasks, CompletedIsSnapshot, GuestWrite
<1>2. CASE \E b \in Blocks : JobCopies(b)
  BY <1>2, BackupAssumption
     DEF BackupTypes, TypeOK, Empty, NoBitmap, CopiesAll, SnapshotInv, BitmapKnowsWrites, OnlyTodoIsMissing, TodoIsFrozen, ChainIsClosed, JobIsTheTasks, CompletedIsSnapshot, JobCopies
<1>3. CASE JobCompletes
  BY <1>3, BackupAssumption
     DEF BackupTypes, TypeOK, Empty, NoBitmap, CopiesAll, SnapshotInv, BitmapKnowsWrites, OnlyTodoIsMissing, TodoIsFrozen, ChainIsClosed, JobIsTheTasks, CompletedIsSnapshot, JobCompletes, JobEnds, NoJob, Blank
<1>4. CASE JobGivesUp
  BY <1>4, BackupAssumption
     DEF BackupTypes, TypeOK, Empty, NoBitmap, CopiesAll, SnapshotInv, BitmapKnowsWrites, OnlyTodoIsMissing, TodoIsFrozen, ChainIsClosed, JobIsTheTasks, CompletedIsSnapshot, JobGivesUp, JobEnds, Fault, NoJob, Blank
<1>5. CASE PowerOff
  BY <1>5, BackupAssumption
     DEF BackupTypes, TypeOK, Empty, NoBitmap, CopiesAll, SnapshotInv, BitmapKnowsWrites, OnlyTodoIsMissing, TodoIsFrozen, ChainIsClosed, JobIsTheTasks, CompletedIsSnapshot, PowerOff, Fault, NoJob, Blank
<1>6. CASE PowerOn
  BY <1>6, BackupAssumption
     DEF BackupTypes, TypeOK, Empty, NoBitmap, CopiesAll, SnapshotInv, BitmapKnowsWrites, OnlyTodoIsMissing, TodoIsFrozen, ChainIsClosed, JobIsTheTasks, CompletedIsSnapshot, PowerOn
<1>7. CASE \E inc, clear \in BOOLEAN : BeforeStart(inc, clear)
  BY <1>7, BackupAssumption
     DEF BackupTypes, TypeOK, Empty, NoBitmap, CopiesAll, SnapshotInv, BitmapKnowsWrites, OnlyTodoIsMissing, TodoIsFrozen, ChainIsClosed, JobIsTheTasks, CompletedIsSnapshot, BeforeStart, Unlocked, Idle, Blank
<1>8. CASE mapDeviceToChroot
  BY <1>8, BackupAssumption
     DEF BackupTypes, TypeOK, Empty, NoBitmap, CopiesAll, SnapshotInv, BitmapKnowsWrites, OnlyTodoIsMissing, TodoIsFrozen, ChainIsClosed, JobIsTheTasks, CompletedIsSnapshot, mapDeviceToChroot, Goto
<1>9. CASE copy
  BY <1>9, BackupAssumption
     DEF BackupTypes, TypeOK, Empty, NoBitmap, CopiesAll, SnapshotInv, BitmapKnowsWrites, OnlyTodoIsMissing, TodoIsFrozen, ChainIsClosed, JobIsTheTasks, CompletedIsSnapshot, copy, Launch, DriveBackup, Refused, Goto
<1>10. CASE WaitRunning \/ Poll \/ PollFails
  BY <1>10, BackupAssumption
     DEF BackupTypes, TypeOK, Empty, NoBitmap, CopiesAll, SnapshotInv, BitmapKnowsWrites, OnlyTodoIsMissing, TodoIsFrozen, ChainIsClosed, JobIsTheTasks, CompletedIsSnapshot, WaitRunning, Poll, PollFails, ErrorEvent, CompletedEvent, Goto
<1>11. CASE Finish
  BY <1>11, BackupAssumption
     DEF BackupTypes, TypeOK, Empty, NoBitmap, CopiesAll, SnapshotInv, BitmapKnowsWrites, OnlyTodoIsMissing, TodoIsFrozen, ChainIsClosed, JobIsTheTasks, CompletedIsSnapshot, Finish, Goto, Idle, Blank
<1>12. CASE OnFailure
  BY <1>12, BackupAssumption
     DEF BackupTypes, TypeOK, Empty, NoBitmap, CopiesAll, SnapshotInv, BitmapKnowsWrites, OnlyTodoIsMissing, TodoIsFrozen, ChainIsClosed, JobIsTheTasks, CompletedIsSnapshot, OnFailure, Goto, Idle, Blank
<1>13. CASE TaskCancel
  BY <1>13, BackupAssumption
     DEF BackupTypes, TypeOK, Empty, NoBitmap, CopiesAll, SnapshotInv, BitmapKnowsWrites, OnlyTodoIsMissing, TodoIsFrozen, ChainIsClosed, JobIsTheTasks, CompletedIsSnapshot, TaskCancel
<1>14. CASE Restart
  BY <1>14, BackupAssumption
     DEF BackupTypes, TypeOK, Empty, NoBitmap, CopiesAll, SnapshotInv, BitmapKnowsWrites, OnlyTodoIsMissing, TodoIsFrozen, ChainIsClosed, JobIsTheTasks, CompletedIsSnapshot, Restart, Fault, Idle, Blank
<1>15. CASE \E byPath \in BOOLEAN : DiskRemoveQemuBitmap(byPath)
  BY <1>15, BackupAssumption
     DEF BackupTypes, TypeOK, Empty, NoBitmap, CopiesAll, SnapshotInv, BitmapKnowsWrites, OnlyTodoIsMissing, TodoIsFrozen, ChainIsClosed, JobIsTheTasks, CompletedIsSnapshot, DiskRemoveQemuBitmap
<1>16. CASE BackupProcessShowStatus \/ Collect \/ UNCHANGED vars
  BY <1>16, BackupAssumption
     DEF BackupTypes, TypeOK, Empty, NoBitmap, CopiesAll, SnapshotInv, BitmapKnowsWrites, OnlyTodoIsMissing, TodoIsFrozen, ChainIsClosed, JobIsTheTasks, CompletedIsSnapshot, BackupProcessShowStatus, Collect, TaskGetStats, vars
<1> QED
  BY <1>1, <1>2, <1>3, <1>4, <1>5, <1>6, <1>7, <1>8, <1>9, <1>10, <1>11, <1>12, <1>13, <1>14, <1>15, <1>16
     DEF Next

\* The rest is frozen.
LEMMA TodoIsFrozenKept ==
    ASSUME BackupTypes, SnapshotInv, [Next]_vars
    PROVE  TodoIsFrozen'
<1>1. CASE \E b \in Blocks : GuestWrite(b)
  BY <1>1, BackupAssumption
     DEF BackupTypes, TypeOK, Empty, NoBitmap, CopiesAll, SnapshotInv, BitmapKnowsWrites, OnlyTodoIsMissing, TodoIsFrozen, ChainIsClosed, JobIsTheTasks, CompletedIsSnapshot, GuestWrite
<1>2. CASE \E b \in Blocks : JobCopies(b)
  BY <1>2, BackupAssumption
     DEF BackupTypes, TypeOK, Empty, NoBitmap, CopiesAll, SnapshotInv, BitmapKnowsWrites, OnlyTodoIsMissing, TodoIsFrozen, ChainIsClosed, JobIsTheTasks, CompletedIsSnapshot, JobCopies
<1>3. CASE JobCompletes
  BY <1>3, BackupAssumption
     DEF BackupTypes, TypeOK, Empty, NoBitmap, CopiesAll, SnapshotInv, BitmapKnowsWrites, OnlyTodoIsMissing, TodoIsFrozen, ChainIsClosed, JobIsTheTasks, CompletedIsSnapshot, JobCompletes, JobEnds, NoJob, Blank
<1>4. CASE JobGivesUp
  BY <1>4, BackupAssumption
     DEF BackupTypes, TypeOK, Empty, NoBitmap, CopiesAll, SnapshotInv, BitmapKnowsWrites, OnlyTodoIsMissing, TodoIsFrozen, ChainIsClosed, JobIsTheTasks, CompletedIsSnapshot, JobGivesUp, JobEnds, Fault, NoJob, Blank
<1>5. CASE PowerOff
  BY <1>5, BackupAssumption
     DEF BackupTypes, TypeOK, Empty, NoBitmap, CopiesAll, SnapshotInv, BitmapKnowsWrites, OnlyTodoIsMissing, TodoIsFrozen, ChainIsClosed, JobIsTheTasks, CompletedIsSnapshot, PowerOff, Fault, NoJob, Blank
<1>6. CASE PowerOn
  BY <1>6, BackupAssumption
     DEF BackupTypes, TypeOK, Empty, NoBitmap, CopiesAll, SnapshotInv, BitmapKnowsWrites, OnlyTodoIsMissing, TodoIsFrozen, ChainIsClosed, JobIsTheTasks, CompletedIsSnapshot, PowerOn
<1>7. CASE \E inc, clear \in BOOLEAN : BeforeStart(inc, clear)
  BY <1>7, BackupAssumption
     DEF BackupTypes, TypeOK, Empty, NoBitmap, CopiesAll, SnapshotInv, BitmapKnowsWrites, OnlyTodoIsMissing, TodoIsFrozen, ChainIsClosed, JobIsTheTasks, CompletedIsSnapshot, BeforeStart, Unlocked, Idle, Blank
<1>8. CASE mapDeviceToChroot
  BY <1>8, BackupAssumption
     DEF BackupTypes, TypeOK, Empty, NoBitmap, CopiesAll, SnapshotInv, BitmapKnowsWrites, OnlyTodoIsMissing, TodoIsFrozen, ChainIsClosed, JobIsTheTasks, CompletedIsSnapshot, mapDeviceToChroot, Goto
<1>9. CASE copy
  BY <1>9, BackupAssumption
     DEF BackupTypes, TypeOK, Empty, NoBitmap, CopiesAll, SnapshotInv, BitmapKnowsWrites, OnlyTodoIsMissing, TodoIsFrozen, ChainIsClosed, JobIsTheTasks, CompletedIsSnapshot, copy, Launch, DriveBackup, Refused, Goto
<1>10. CASE WaitRunning \/ Poll \/ PollFails
  BY <1>10, BackupAssumption
     DEF BackupTypes, TypeOK, Empty, NoBitmap, CopiesAll, SnapshotInv, BitmapKnowsWrites, OnlyTodoIsMissing, TodoIsFrozen, ChainIsClosed, JobIsTheTasks, CompletedIsSnapshot, WaitRunning, Poll, PollFails, ErrorEvent, CompletedEvent, Goto
<1>11. CASE Finish
  BY <1>11, BackupAssumption
     DEF BackupTypes, TypeOK, Empty, NoBitmap, CopiesAll, SnapshotInv, BitmapKnowsWrites, OnlyTodoIsMissing, TodoIsFrozen, ChainIsClosed, JobIsTheTasks, CompletedIsSnapshot, Finish, Goto, Idle, Blank
<1>12. CASE OnFailure
  BY <1>12, BackupAssumption
     DEF BackupTypes, TypeOK, Empty, NoBitmap, CopiesAll, SnapshotInv, BitmapKnowsWrites, OnlyTodoIsMissing, TodoIsFrozen, ChainIsClosed, JobIsTheTasks, CompletedIsSnapshot, OnFailure, Goto, Idle, Blank
<1>13. CASE TaskCancel
  BY <1>13, BackupAssumption
     DEF BackupTypes, TypeOK, Empty, NoBitmap, CopiesAll, SnapshotInv, BitmapKnowsWrites, OnlyTodoIsMissing, TodoIsFrozen, ChainIsClosed, JobIsTheTasks, CompletedIsSnapshot, TaskCancel
<1>14. CASE Restart
  BY <1>14, BackupAssumption
     DEF BackupTypes, TypeOK, Empty, NoBitmap, CopiesAll, SnapshotInv, BitmapKnowsWrites, OnlyTodoIsMissing, TodoIsFrozen, ChainIsClosed, JobIsTheTasks, CompletedIsSnapshot, Restart, Fault, Idle, Blank
<1>15. CASE \E byPath \in BOOLEAN : DiskRemoveQemuBitmap(byPath)
  BY <1>15, BackupAssumption
     DEF BackupTypes, TypeOK, Empty, NoBitmap, CopiesAll, SnapshotInv, BitmapKnowsWrites, OnlyTodoIsMissing, TodoIsFrozen, ChainIsClosed, JobIsTheTasks, CompletedIsSnapshot, DiskRemoveQemuBitmap
<1>16. CASE BackupProcessShowStatus \/ Collect \/ UNCHANGED vars
  BY <1>16, BackupAssumption
     DEF BackupTypes, TypeOK, Empty, NoBitmap, CopiesAll, SnapshotInv, BitmapKnowsWrites, OnlyTodoIsMissing, TodoIsFrozen, ChainIsClosed, JobIsTheTasks, CompletedIsSnapshot, BackupProcessShowStatus, Collect, TaskGetStats, vars
<1> QED
  BY <1>1, <1>2, <1>3, <1>4, <1>5, <1>6, <1>7, <1>8, <1>9, <1>10, <1>11, <1>12, <1>13, <1>14, <1>15, <1>16
     DEF Next

\* The chain of copies stays closed.
LEMMA ChainIsClosedKept ==
    ASSUME BackupTypes, SnapshotInv, [Next]_vars
    PROVE  ChainIsClosed'
<1>1. CASE \E b \in Blocks : GuestWrite(b)
  BY <1>1, BackupAssumption
     DEF BackupTypes, TypeOK, Empty, NoBitmap, CopiesAll, SnapshotInv, BitmapKnowsWrites, OnlyTodoIsMissing, TodoIsFrozen, ChainIsClosed, JobIsTheTasks, CompletedIsSnapshot, GuestWrite
<1>2. CASE \E b \in Blocks : JobCopies(b)
  BY <1>2, BackupAssumption
     DEF BackupTypes, TypeOK, Empty, NoBitmap, CopiesAll, SnapshotInv, BitmapKnowsWrites, OnlyTodoIsMissing, TodoIsFrozen, ChainIsClosed, JobIsTheTasks, CompletedIsSnapshot, JobCopies
<1>3. CASE JobCompletes
  BY <1>3, BackupAssumption
     DEF BackupTypes, TypeOK, Empty, NoBitmap, CopiesAll, SnapshotInv, BitmapKnowsWrites, OnlyTodoIsMissing, TodoIsFrozen, ChainIsClosed, JobIsTheTasks, CompletedIsSnapshot, JobCompletes, JobEnds, NoJob, Blank
<1>4. CASE JobGivesUp
  <2>1. /\ job.state # "none" /\ job'.state = "none" /\ UNCHANGED <<chain, target, disk>>
        /\ bitmap' = IF job.inc THEN bitmap \cup job.frozen ELSE bitmap
    BY <1>4 DEF JobGivesUp, JobEnds, NoJob
  <2>2. CASE ~job.inc
    BY <2>1, <2>2 DEF SnapshotInv, ChainIsClosed
  <2>3. CASE job.inc /\ chain
    <3>1. bitmap # NoBitmap /\ job.todo \subseteq job.frozen
      BY <2>3 DEF BackupTypes, SnapshotInv, TodoIsFrozen
    <3>2. \A b \in Blocks \ bitmap : job.snap[b] = disk[b]
      BY <2>1, <3>1 DEF SnapshotInv, BitmapKnowsWrites
    <3>3. \A b \in Blocks \ job.todo : target[b] = job.snap[b]
      BY <2>1, <2>3 DEF SnapshotInv, OnlyTodoIsMissing
    <3>4. \A b \in Blocks \ (bitmap \cup job.frozen) : target[b] = disk[b]
      BY <3>1, <3>2, <3>3
    <3> QED
      BY <2>1, <2>3, <3>4 DEF ChainIsClosed
  <2>4. CASE ~chain
    BY <2>1, <2>4 DEF ChainIsClosed
  <2> QED
    BY <2>2, <2>3, <2>4
<1>5. CASE PowerOff
  BY <1>5, BackupAssumption
     DEF BackupTypes, TypeOK, Empty, NoBitmap, CopiesAll, SnapshotInv, BitmapKnowsWrites, OnlyTodoIsMissing, TodoIsFrozen, ChainIsClosed, JobIsTheTasks, CompletedIsSnapshot, PowerOff, Fault, NoJob, Blank
<1>6. CASE PowerOn
  BY <1>6, BackupAssumption
     DEF BackupTypes, TypeOK, Empty, NoBitmap, CopiesAll, SnapshotInv, BitmapKnowsWrites, OnlyTodoIsMissing, TodoIsFrozen, ChainIsClosed, JobIsTheTasks, CompletedIsSnapshot, PowerOn
<1>7. CASE \E inc, clear \in BOOLEAN : BeforeStart(inc, clear)
  BY <1>7, BackupAssumption
     DEF BackupTypes, TypeOK, Empty, NoBitmap, CopiesAll, SnapshotInv, BitmapKnowsWrites, OnlyTodoIsMissing, TodoIsFrozen, ChainIsClosed, JobIsTheTasks, CompletedIsSnapshot, BeforeStart, Unlocked, Idle, Blank
<1>8. CASE mapDeviceToChroot
  BY <1>8, BackupAssumption
     DEF BackupTypes, TypeOK, Empty, NoBitmap, CopiesAll, SnapshotInv, BitmapKnowsWrites, OnlyTodoIsMissing, TodoIsFrozen, ChainIsClosed, JobIsTheTasks, CompletedIsSnapshot, mapDeviceToChroot, Goto
<1>9. CASE copy
  <2>1. CASE Refused /\ Goto("failing") /\ UNCHANGED <<job, bitmap, chain>>
    BY <1>9, <2>1 DEF copy, Goto, BackupTypes, TypeOK, SnapshotInv, ChainIsClosed, CopiesAll
  <2>2. CASE ~Refused /\ DriveBackup
    <3>1. task' = [task EXCEPT !.pc = "running", !.taken = disk] /\ job.state = "none"
      BY <2>2 DEF DriveBackup, Launch, Refused
    <3>2. (task.inc /\ bitmap' = {}) \/ (~task.inc /\ bitmap' = bitmap /\ chain' = chain)
      BY <2>2 DEF DriveBackup
    <3>6. PICK inc \in BOOLEAN : /\ inc => ~CopiesAll(task.inc, task.clear, task.hasBitmap) /\ chain' = chain
                                 /\ ~inc /\ task.inc => ~chain'
                                 /\ job' = [state |-> "running", inc |-> inc, frozen |-> IF inc THEN bitmap ELSE {},
                                            todo |-> IF inc THEN bitmap ELSE Blocks, snap |-> disk]
      BY <2>2 DEF DriveBackup, Launch, CopiesAll
    <3>7. UNCHANGED <<disk, target, on, ended>>
      BY <1>9 DEF copy
    <3> QED
      BY <3>1, <3>2, <3>6, <3>7 DEF BackupTypes, TypeOK, SnapshotInv, ChainIsClosed, CopiesAll
  <2> QED
    BY <1>9, <2>1, <2>2 DEF copy
<1>10. CASE WaitRunning \/ Poll \/ PollFails
  <2>1. UNCHANGED <<chain, job, bitmap, target, disk>>
    BY <1>10 DEF WaitRunning, Poll, PollFails
  <2> QED
    BY <2>1 DEF SnapshotInv, ChainIsClosed
<1>11. CASE Finish
  <2>1. UNCHANGED <<job, bitmap, target, disk>>
    BY <1>11 DEF Finish
  <2>2. CASE chain' <=> chain
    BY <2>1, <2>2 DEF SnapshotInv, ChainIsClosed
  <2>3. CASE task.pc = "completing" /\ ended.how # "unseen" /\ bitmap # NoBitmap /\ (task.clear \/ ~task.hasBitmap)
    <3>1. target = task.taken
      BY <2>3 DEF SnapshotInv, CompletedIsSnapshot
    <3>2. \A b \in Blocks \ bitmap : task.taken[b] = disk[b]
      BY <2>3 DEF SnapshotInv, BitmapKnowsWrites
    <3> QED
      BY <2>1, <3>1, <3>2 DEF ChainIsClosed
  <2>4. (chain' <=> chain) \/ (task.pc = "completing" /\ ended.how # "unseen" /\ bitmap # NoBitmap /\ (task.clear \/ ~task.hasBitmap))
    BY <1>11 DEF Finish, BackupTypes, TypeOK
  <2> QED
    BY <2>2, <2>3, <2>4
<1>12. CASE OnFailure
  BY <1>12, BackupAssumption
     DEF BackupTypes, TypeOK, Empty, NoBitmap, CopiesAll, SnapshotInv, BitmapKnowsWrites, OnlyTodoIsMissing, TodoIsFrozen, ChainIsClosed, JobIsTheTasks, CompletedIsSnapshot, OnFailure, Goto, Idle, Blank
<1>13. CASE TaskCancel
  BY <1>13, BackupAssumption
     DEF BackupTypes, TypeOK, Empty, NoBitmap, CopiesAll, SnapshotInv, BitmapKnowsWrites, OnlyTodoIsMissing, TodoIsFrozen, ChainIsClosed, JobIsTheTasks, CompletedIsSnapshot, TaskCancel
<1>14. CASE Restart
  BY <1>14, BackupAssumption
     DEF BackupTypes, TypeOK, Empty, NoBitmap, CopiesAll, SnapshotInv, BitmapKnowsWrites, OnlyTodoIsMissing, TodoIsFrozen, ChainIsClosed, JobIsTheTasks, CompletedIsSnapshot, Restart, Fault, Idle, Blank
<1>15. CASE \E byPath \in BOOLEAN : DiskRemoveQemuBitmap(byPath)
  BY <1>15, BackupAssumption
     DEF BackupTypes, TypeOK, Empty, NoBitmap, CopiesAll, SnapshotInv, BitmapKnowsWrites, OnlyTodoIsMissing, TodoIsFrozen, ChainIsClosed, JobIsTheTasks, CompletedIsSnapshot, DiskRemoveQemuBitmap
<1>16. CASE BackupProcessShowStatus \/ Collect \/ UNCHANGED vars
  <2>1. UNCHANGED <<chain, job, bitmap, target, disk>>
    BY <1>16 DEF BackupProcessShowStatus, Collect, vars
  <2> QED
    BY <2>1 DEF SnapshotInv, ChainIsClosed
<1> QED
  BY <1>1, <1>2, <1>3, <1>4, <1>5, <1>6, <1>7, <1>8, <1>9, <1>10, <1>11, <1>12, <1>13, <1>14, <1>15, <1>16
     DEF Next

\* A task's job is its own.
LEMMA JobIsTheTasksKept ==
    ASSUME BackupTypes, SnapshotInv, [Next]_vars
    PROVE  JobIsTheTasks'
<1>1. CASE \E b \in Blocks : GuestWrite(b)
  BY <1>1, BackupAssumption
     DEF BackupTypes, TypeOK, Empty, NoBitmap, CopiesAll, SnapshotInv, BitmapKnowsWrites, OnlyTodoIsMissing, TodoIsFrozen, ChainIsClosed, JobIsTheTasks, CompletedIsSnapshot, GuestWrite
<1>2. CASE \E b \in Blocks : JobCopies(b)
  BY <1>2, BackupAssumption
     DEF BackupTypes, TypeOK, Empty, NoBitmap, CopiesAll, SnapshotInv, BitmapKnowsWrites, OnlyTodoIsMissing, TodoIsFrozen, ChainIsClosed, JobIsTheTasks, CompletedIsSnapshot, JobCopies
<1>3. CASE JobCompletes
  BY <1>3, BackupAssumption
     DEF BackupTypes, TypeOK, Empty, NoBitmap, CopiesAll, SnapshotInv, BitmapKnowsWrites, OnlyTodoIsMissing, TodoIsFrozen, ChainIsClosed, JobIsTheTasks, CompletedIsSnapshot, JobCompletes, JobEnds, NoJob, Blank
<1>4. CASE JobGivesUp
  BY <1>4, BackupAssumption
     DEF BackupTypes, TypeOK, Empty, NoBitmap, CopiesAll, SnapshotInv, BitmapKnowsWrites, OnlyTodoIsMissing, TodoIsFrozen, ChainIsClosed, JobIsTheTasks, CompletedIsSnapshot, JobGivesUp, JobEnds, Fault, NoJob, Blank
<1>5. CASE PowerOff
  BY <1>5, BackupAssumption
     DEF BackupTypes, TypeOK, Empty, NoBitmap, CopiesAll, SnapshotInv, BitmapKnowsWrites, OnlyTodoIsMissing, TodoIsFrozen, ChainIsClosed, JobIsTheTasks, CompletedIsSnapshot, PowerOff, Fault, NoJob, Blank
<1>6. CASE PowerOn
  BY <1>6, BackupAssumption
     DEF BackupTypes, TypeOK, Empty, NoBitmap, CopiesAll, SnapshotInv, BitmapKnowsWrites, OnlyTodoIsMissing, TodoIsFrozen, ChainIsClosed, JobIsTheTasks, CompletedIsSnapshot, PowerOn
<1>7. CASE \E inc, clear \in BOOLEAN : BeforeStart(inc, clear)
  BY <1>7, BackupAssumption
     DEF BackupTypes, TypeOK, Empty, NoBitmap, CopiesAll, SnapshotInv, BitmapKnowsWrites, OnlyTodoIsMissing, TodoIsFrozen, ChainIsClosed, JobIsTheTasks, CompletedIsSnapshot, BeforeStart, Unlocked, Idle, Blank
<1>8. CASE mapDeviceToChroot
  <2>1. task'.pc \in {"command", "failing"} /\ task.pc = "map"
    BY <1>8 DEF mapDeviceToChroot, Goto, BackupTypes, TypeOK
  <2>2. UNCHANGED <<on, disk, target, bitmap, job, ended, chain>>
    BY <1>8 DEF mapDeviceToChroot
  <2> QED
    BY <2>1, <2>2 DEF SnapshotInv, JobIsTheTasks, CompletedIsSnapshot, CopiesAll
<1>9. CASE copy
  <2>1. CASE Refused /\ Goto("failing") /\ UNCHANGED <<job, bitmap, chain>>
    BY <1>9, <2>1 DEF copy, Goto, BackupTypes, TypeOK, SnapshotInv, JobIsTheTasks, CopiesAll
  <2>2. CASE ~Refused /\ DriveBackup
    <3>1. task' = [task EXCEPT !.pc = "running", !.taken = disk] /\ job.state = "none"
      BY <2>2 DEF DriveBackup, Launch, Refused
    <3>2. (task.inc /\ bitmap' = {}) \/ (~task.inc /\ bitmap' = bitmap /\ chain' = chain)
      BY <2>2 DEF DriveBackup
    <3>6. PICK inc \in BOOLEAN : /\ inc => ~CopiesAll(task.inc, task.clear, task.hasBitmap) /\ chain' = chain
                                 /\ ~inc /\ task.inc => ~chain'
                                 /\ job' = [state |-> "running", inc |-> inc, frozen |-> IF inc THEN bitmap ELSE {},
                                            todo |-> IF inc THEN bitmap ELSE Blocks, snap |-> disk]
      BY <2>2 DEF DriveBackup, Launch, CopiesAll
    <3>7. UNCHANGED <<disk, target, on, ended>>
      BY <1>9 DEF copy
    <3> QED
      BY <3>1, <3>2, <3>6, <3>7 DEF BackupTypes, TypeOK, SnapshotInv, JobIsTheTasks, CopiesAll
  <2> QED
    BY <1>9, <2>1, <2>2 DEF copy
<1>10. CASE WaitRunning \/ Poll \/ PollFails
  BY <1>10, BackupAssumption
     DEF BackupTypes, TypeOK, Empty, NoBitmap, CopiesAll, SnapshotInv, BitmapKnowsWrites, OnlyTodoIsMissing, TodoIsFrozen, ChainIsClosed, JobIsTheTasks, CompletedIsSnapshot, WaitRunning, Poll, PollFails, ErrorEvent, CompletedEvent, Goto
<1>11. CASE Finish
  BY <1>11, BackupAssumption
     DEF BackupTypes, TypeOK, Empty, NoBitmap, CopiesAll, SnapshotInv, BitmapKnowsWrites, OnlyTodoIsMissing, TodoIsFrozen, ChainIsClosed, JobIsTheTasks, CompletedIsSnapshot, Finish, Goto, Idle, Blank
<1>12. CASE OnFailure
  BY <1>12, BackupAssumption
     DEF BackupTypes, TypeOK, Empty, NoBitmap, CopiesAll, SnapshotInv, BitmapKnowsWrites, OnlyTodoIsMissing, TodoIsFrozen, ChainIsClosed, JobIsTheTasks, CompletedIsSnapshot, OnFailure, Goto, Idle, Blank
<1>13. CASE TaskCancel
  BY <1>13, BackupAssumption
     DEF BackupTypes, TypeOK, Empty, NoBitmap, CopiesAll, SnapshotInv, BitmapKnowsWrites, OnlyTodoIsMissing, TodoIsFrozen, ChainIsClosed, JobIsTheTasks, CompletedIsSnapshot, TaskCancel
<1>14. CASE Restart
  BY <1>14, BackupAssumption
     DEF BackupTypes, TypeOK, Empty, NoBitmap, CopiesAll, SnapshotInv, BitmapKnowsWrites, OnlyTodoIsMissing, TodoIsFrozen, ChainIsClosed, JobIsTheTasks, CompletedIsSnapshot, Restart, Fault, Idle, Blank
<1>15. CASE \E byPath \in BOOLEAN : DiskRemoveQemuBitmap(byPath)
  BY <1>15, BackupAssumption
     DEF BackupTypes, TypeOK, Empty, NoBitmap, CopiesAll, SnapshotInv, BitmapKnowsWrites, OnlyTodoIsMissing, TodoIsFrozen, ChainIsClosed, JobIsTheTasks, CompletedIsSnapshot, DiskRemoveQemuBitmap
<1>16. CASE BackupProcessShowStatus \/ Collect \/ UNCHANGED vars
  BY <1>16, BackupAssumption
     DEF BackupTypes, TypeOK, Empty, NoBitmap, CopiesAll, SnapshotInv, BitmapKnowsWrites, OnlyTodoIsMissing, TodoIsFrozen, ChainIsClosed, JobIsTheTasks, CompletedIsSnapshot, BackupProcessShowStatus, Collect, TaskGetStats, vars
<1> QED
  BY <1>1, <1>2, <1>3, <1>4, <1>5, <1>6, <1>7, <1>8, <1>9, <1>10, <1>11, <1>12, <1>13, <1>14, <1>15, <1>16
     DEF Next

\* A completed task has left the snapshot.
LEMMA CompletedIsSnapshotKept ==
    ASSUME BackupTypes, SnapshotInv, [Next]_vars
    PROVE  CompletedIsSnapshot'
<1>1. CASE \E b \in Blocks : GuestWrite(b)
  BY <1>1, BackupAssumption
     DEF BackupTypes, TypeOK, Empty, NoBitmap, CopiesAll, SnapshotInv, BitmapKnowsWrites, OnlyTodoIsMissing, TodoIsFrozen, ChainIsClosed, JobIsTheTasks, CompletedIsSnapshot, GuestWrite
<1>2. CASE \E b \in Blocks : JobCopies(b)
  BY <1>2, BackupAssumption
     DEF BackupTypes, TypeOK, Empty, NoBitmap, CopiesAll, SnapshotInv, BitmapKnowsWrites, OnlyTodoIsMissing, TodoIsFrozen, ChainIsClosed, JobIsTheTasks, CompletedIsSnapshot, JobCopies
<1>3. CASE JobCompletes
  BY <1>3, BackupAssumption
     DEF BackupTypes, TypeOK, Empty, NoBitmap, CopiesAll, SnapshotInv, BitmapKnowsWrites, OnlyTodoIsMissing, TodoIsFrozen, ChainIsClosed, JobIsTheTasks, CompletedIsSnapshot, JobCompletes, JobEnds, NoJob, Blank
<1>4. CASE JobGivesUp
  BY <1>4, BackupAssumption
     DEF BackupTypes, TypeOK, Empty, NoBitmap, CopiesAll, SnapshotInv, BitmapKnowsWrites, OnlyTodoIsMissing, TodoIsFrozen, ChainIsClosed, JobIsTheTasks, CompletedIsSnapshot, JobGivesUp, JobEnds, Fault, NoJob, Blank
<1>5. CASE PowerOff
  BY <1>5, BackupAssumption
     DEF BackupTypes, TypeOK, Empty, NoBitmap, CopiesAll, SnapshotInv, BitmapKnowsWrites, OnlyTodoIsMissing, TodoIsFrozen, ChainIsClosed, JobIsTheTasks, CompletedIsSnapshot, PowerOff, Fault, NoJob, Blank
<1>6. CASE PowerOn
  BY <1>6, BackupAssumption
     DEF BackupTypes, TypeOK, Empty, NoBitmap, CopiesAll, SnapshotInv, BitmapKnowsWrites, OnlyTodoIsMissing, TodoIsFrozen, ChainIsClosed, JobIsTheTasks, CompletedIsSnapshot, PowerOn
<1>7. CASE \E inc, clear \in BOOLEAN : BeforeStart(inc, clear)
  BY <1>7, BackupAssumption
     DEF BackupTypes, TypeOK, Empty, NoBitmap, CopiesAll, SnapshotInv, BitmapKnowsWrites, OnlyTodoIsMissing, TodoIsFrozen, ChainIsClosed, JobIsTheTasks, CompletedIsSnapshot, BeforeStart, Unlocked, Idle, Blank
<1>8. CASE mapDeviceToChroot
  BY <1>8, BackupAssumption
     DEF BackupTypes, TypeOK, Empty, NoBitmap, CopiesAll, SnapshotInv, BitmapKnowsWrites, OnlyTodoIsMissing, TodoIsFrozen, ChainIsClosed, JobIsTheTasks, CompletedIsSnapshot, mapDeviceToChroot, Goto
<1>9. CASE copy
  BY <1>9, BackupAssumption
     DEF BackupTypes, TypeOK, Empty, NoBitmap, CopiesAll, SnapshotInv, BitmapKnowsWrites, OnlyTodoIsMissing, TodoIsFrozen, ChainIsClosed, JobIsTheTasks, CompletedIsSnapshot, copy, Launch, DriveBackup, Refused, Goto
<1>10. CASE WaitRunning \/ Poll \/ PollFails
  BY <1>10, BackupAssumption
     DEF BackupTypes, TypeOK, Empty, NoBitmap, CopiesAll, SnapshotInv, BitmapKnowsWrites, OnlyTodoIsMissing, TodoIsFrozen, ChainIsClosed, JobIsTheTasks, CompletedIsSnapshot, WaitRunning, Poll, PollFails, ErrorEvent, CompletedEvent, Goto
<1>11. CASE Finish
  BY <1>11, BackupAssumption
     DEF BackupTypes, TypeOK, Empty, NoBitmap, CopiesAll, SnapshotInv, BitmapKnowsWrites, OnlyTodoIsMissing, TodoIsFrozen, ChainIsClosed, JobIsTheTasks, CompletedIsSnapshot, Finish, Goto, Idle, Blank
<1>12. CASE OnFailure
  BY <1>12, BackupAssumption
     DEF BackupTypes, TypeOK, Empty, NoBitmap, CopiesAll, SnapshotInv, BitmapKnowsWrites, OnlyTodoIsMissing, TodoIsFrozen, ChainIsClosed, JobIsTheTasks, CompletedIsSnapshot, OnFailure, Goto, Idle, Blank
<1>13. CASE TaskCancel
  BY <1>13, BackupAssumption
     DEF BackupTypes, TypeOK, Empty, NoBitmap, CopiesAll, SnapshotInv, BitmapKnowsWrites, OnlyTodoIsMissing, TodoIsFrozen, ChainIsClosed, JobIsTheTasks, CompletedIsSnapshot, TaskCancel
<1>14. CASE Restart
  BY <1>14, BackupAssumption
     DEF BackupTypes, TypeOK, Empty, NoBitmap, CopiesAll, SnapshotInv, BitmapKnowsWrites, OnlyTodoIsMissing, TodoIsFrozen, ChainIsClosed, JobIsTheTasks, CompletedIsSnapshot, Restart, Fault, Idle, Blank
<1>15. CASE \E byPath \in BOOLEAN : DiskRemoveQemuBitmap(byPath)
  BY <1>15, BackupAssumption
     DEF BackupTypes, TypeOK, Empty, NoBitmap, CopiesAll, SnapshotInv, BitmapKnowsWrites, OnlyTodoIsMissing, TodoIsFrozen, ChainIsClosed, JobIsTheTasks, CompletedIsSnapshot, DiskRemoveQemuBitmap
<1>16. CASE BackupProcessShowStatus \/ Collect \/ UNCHANGED vars
  BY <1>16, BackupAssumption
     DEF BackupTypes, TypeOK, Empty, NoBitmap, CopiesAll, SnapshotInv, BitmapKnowsWrites, OnlyTodoIsMissing, TodoIsFrozen, ChainIsClosed, JobIsTheTasks, CompletedIsSnapshot, BackupProcessShowStatus, Collect, TaskGetStats, vars
<1> QED
  BY <1>1, <1>2, <1>3, <1>4, <1>5, <1>6, <1>7, <1>8, <1>9, <1>10, <1>11, <1>12, <1>13, <1>14, <1>15, <1>16
     DEF Next

\* Nothing is wrong before the first step.
LEMMA BackupInit ==
    ASSUME Init
    PROVE  BackupTypes /\ SnapshotInv /\ TaskCleansUp /\ ResultInv
<1>1. JobTypes /\ TaskTypes
  BY NoneIsTyped DEF Init, JobTypes, TaskTypes
<1>2. disk \in [Blocks -> Versions] /\ target \in [Blocks -> Versions]
  BY BackupAssumption DEF Init, Blank, Versions, Empty
<1>3. ended \in [how : {"none", "completed", "cancelled", "error", "unseen"}, found : BOOLEAN]
  BY DEF Init
<1>4. client \in [pc : {"idle", "watching", "success", "error"},
                   truth : {"none", "started", "completed", "failed", "lost"}]
  BY DEF Init
<1>5. n \in [writes : 0..MaxWrites, tasks : Nat, faults : Nat]
  BY BackupAssumption DEF Init
<1>6. /\ task.pc = "idle" /\ job.state = "none" /\ ~job.inc /\ bitmap = NoBitmap /\ ~chain /\ ~node
      /\ stat = "none" /\ outcome = "none" /\ client.pc = "idle"
      /\ on = TRUE /\ lost = FALSE /\ node = FALSE /\ chain = FALSE
  BY DEF Init, NoJob, Idle
<1>7. BackupTypes
  BY <1>1, <1>2, <1>3, <1>4, <1>5, <1>6 DEF BackupTypes, TypeOK, JobTypes, TaskTypes
<1>8. SnapshotInv
  BY <1>6 DEF SnapshotInv, BitmapKnowsWrites, OnlyTodoIsMissing, TodoIsFrozen, ChainIsClosed, JobIsTheTasks, CompletedIsSnapshot
<1>9. TaskCleansUp /\ ResultInv
  BY <1>6 DEF TaskCleansUp, ResultInv, FileFollowsTask, ResultIsTheLast, WatcherSeesFailure
<1> QED
  BY <1>7, <1>8, <1>9

\* The four invariants hold together.
LEMMA BackupInvHolds ==
    Spec => [](BackupTypes /\ SnapshotInv /\ TaskCleansUp /\ ResultInv)
<1>1. ASSUME BackupTypes, SnapshotInv, TaskCleansUp, ResultInv, [Next]_vars
      PROVE  (BackupTypes /\ SnapshotInv /\ TaskCleansUp /\ ResultInv)'
  <2>1. SnapshotInv'
    BY <1>1, BitmapKnowsWritesKept, OnlyTodoIsMissingKept, TodoIsFrozenKept, ChainIsClosedKept,
       JobIsTheTasksKept, CompletedIsSnapshotKept DEF SnapshotInv
  <2>2. JobIsTheTasks
    BY <1>1 DEF SnapshotInv
  <2> QED
    BY <1>1, <2>1, <2>2, TypesKept, CleansUpKept, ResultKept
<1> QED
  BY <1>1, BackupInit, PTL DEF Spec

\* Every state of the backup has its types, and a base only with a bitmap.
THEOREM BackupTypesHold == Spec => []TypeOK
<1>1. BackupTypes => TypeOK
  BY DEF BackupTypes
<1> QED
  BY <1>1, BackupInvHolds, PTL

\* A task that is reported as completed has left on the target what the disk held
\* when its job started: always after a full copy, after an incremental one if the
\* full copy its bitmap began with was reported as completed (copy, Poll).
THEOREM CompletedBackupIsASnapshot == Spec => []CompletedIsSnapshot
<1>1. SnapshotInv => CompletedIsSnapshot
  BY DEF SnapshotInv
<1> QED
  BY <1>1, BackupInvHolds, PTL

\* When no task runs neither the device node nor a job that writes is left, unless
\* a restart has cut the last task off or its cancel has failed (os.Remove, OnFailure).
THEOREM BackupCleansUp == Spec => []NothingLeftBehind
<1>1. TaskCleansUp => NothingLeftBehind
  BY DEF TaskCleansUp, NothingLeftBehind
<1> QED
  BY <1>1, BackupInvHolds, PTL

\* The file with a result is the last task's, and who watches a task learns what
\* became of it (writeStatFile, TaskGetStats, BackupProcessShowStatus).
THEOREM BackupResultIsTrue == Spec => []ResultIsTrue
<1>1. ResultInv => ResultIsTrue
  BY DEF ResultInv, FileFollowsTask, ResultIsTrue
<1> QED
  BY <1>1, BackupInvHolds, PTL
=============================================================================
