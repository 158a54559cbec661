-------------------------- MODULE SourceMigration --------------------------
(***************************************************************************)
(* MachineMigrationTask, the task that moves a machine away                *)
(* (server/machine/migration.go).                                          *)
(*                                                                         *)
(* Main runs up to three goroutines under one errgroup: a mirroring        *)
(* processor for the firmware flash, one for the disks, and the transfer   *)
(* of the machine state.  They synchronise through three channels that are *)
(* only ever closed, and through the group's context, which is cancelled   *)
(* by the first goroutine that returns an error and by a cancel of the     *)
(* task.  Where a select has two ready branches either may be taken.       *)
(***************************************************************************)
EXTENDS MigrationHosts

CONSTANTS
    RemoveAfter,    \* the machine is to be removed once it has moved
    OverrideName    \* the machine gets another name at the destination

ASSUME OptionsAssumption == {RemoveAfter, OverrideName} \subseteq BOOLEAN

Tests == 3             \* attempts to make sure that the remote machine works

VARIABLES
    main,         \* where the task is: BeforeStart, Main and its hooks
    proc,         \* the two mirroring processors
    mover,        \* the goroutine migrateMachineState
    moverOK,      \* whether it is about to return nil
    closed,       \* the channels that have been closed
    groupErr,     \* a goroutine has returned an error
    taskCancel,   \* the task has been cancelled
    turnOff,      \* the machine was paused: turn it off at the destination
    tests,        \* successful tests of the remote machine
    downFile,     \* the source may not be started again
    srcConf,      \* the machine is still configured on the source
    panic,        \* a closed channel has been closed again
    notified      \* history: the destination was reported to be cancelled

srcVars == <<main, proc, mover, moverOK, closed, groupErr, taskCancel, turnOff,
             tests, downFile, srcConf, panic, notified>>

\* What only the start of the task, its hooks and a cancel change.
hookVars == <<taskCancel, turnOff, tests, downFile, srcConf, notified>>

Procs       == {"fwflash", "disks"}
ImagesOf(p) == IF p = "fwflash" THEN Flash ELSE Disks
ReadyChan   == [fwflash |-> "firmwareFlashReady", disks |-> "allDisksReady"]

SrcFlagsOK ==
    /\ moverOK \in BOOLEAN /\ groupErr \in BOOLEAN /\ taskCancel \in BOOLEAN
    /\ turnOff \in BOOLEAN /\ downFile \in BOOLEAN /\ srcConf \in BOOLEAN
    /\ panic \in BOOLEAN /\ notified \in BOOLEAN

SrcTypeOK ==
    /\ SrcFlagsOK
    /\ main  \in {"idle", "requesting", "rejected", "fwwait", "launch", "wait",
                  "success", "testing", "removing",
                  "failure", "cancelstate", "notify", "done", "failed", "crashed"}
    /\ proc  \in [Procs -> {"off", "start", "sync", "ready", "complete", "drain", "ok", "err"}]
    /\ mover \in {"off", "disks", "setup", "polling", "closing", "returning", "ok", "err"}
    /\ closed \subseteq {"firmwareFlashReady", "allDisksReady", "vmstateMigrated"}
    /\ tests \in 0..Tests

SrcInit ==
    /\ main       = "idle"
    /\ proc       = [p \in Procs |-> "off"]
    /\ mover      = "off"
    /\ moverOK    = FALSE
    /\ closed     = {}
    /\ groupErr   = FALSE
    /\ taskCancel = FALSE
    /\ turnOff    = FALSE
    /\ tests      = 0
    /\ downFile   = FALSE
    /\ srcConf    = TRUE
    /\ panic      = FALSE
    /\ notified   = FALSE

CtxDone  == groupErr \/ taskCancel
QemuGone == srcVM = "exited"

-----------------------------------------------------------------------------
(* BeforeStart and Main. *)

\* The machine must be running or paused; the destination is asked to prepare.
BeforeStart ==
    /\ main = "idle"
    /\ srcVM \in {"running", "paused"}
    /\ turnOff' = (srcVM = "paused")
    /\ main'    = "requesting"
    /\ request' = "sent"
    /\ UNCHANGED <<proc, mover, moverOK, closed, groupErr, taskCancel, tests, downFile,
                   srcConf, panic, notified, srcVM, state, job, synced, broken, dstVM,
                   dstConf, stream, handed, dstCancel>>

\* The call fails, or breaks before its answer arrives: the task never starts.
RequestFails ==
    /\ main = "requesting"
    /\ main' = "rejected"
    /\ request' = IF request = "refused" THEN "refused" ELSE "lost"
    /\ UNCHANGED <<proc, mover, moverOK, closed, groupErr, hookVars, panic, srcVM, state,
                   job, synced, broken, dstVM, dstConf, stream, handed, dstCancel>>

\* Main: the firmware flash is mirrored first, and its readiness awaited.
MainStarts ==
    /\ main = "requesting"
    /\ request = "accepted"
    /\ main' = IF HasFlash THEN "fwwait" ELSE "launch"
    /\ proc' = [proc EXCEPT !["fwflash"] = IF HasFlash THEN "start" ELSE "off"]
    /\ UNCHANGED <<mover, moverOK, closed, groupErr, hookVars, panic, hostVars>>

FlashReady ==
    /\ main = "fwwait"
    /\ "firmwareFlashReady" \in closed
    /\ main' = "launch"
    /\ UNCHANGED <<proc, mover, moverOK, closed, groupErr, hookVars, panic, hostVars>>

\* "return ctx.Err()" without waiting for the group: the deferred functions
\* close the channels, the flash processor may still be running.
MainLeaves ==
    /\ main = "fwwait"
    /\ CtxDone
    /\ main'   = "failure"
    /\ closed' = closed \cup {"firmwareFlashReady", "allDisksReady"}
    /\ UNCHANGED <<proc, mover, moverOK, groupErr, hookVars, panic, hostVars>>

LaunchGroup ==
    /\ main = "launch"
    /\ main'   = "wait"
    /\ mover'  = "disks"
    /\ proc'   = [proc EXCEPT !["disks"] = IF Disks = {} THEN "off" ELSE "start"]
    /\ closed' = IF Disks = {} THEN closed \cup {"allDisksReady"} ELSE closed
    /\ UNCHANGED <<moverOK, groupErr, hookVars, panic, hostVars>>

\* With a bug: the error of the group is dropped.
GroupErrorDropped ==
    /\ main = "wait"
    /\ mover \in {"ok", "err"}
    /\ \A p \in Procs : proc[p] \in {"off", "ok", "err"}
    /\ main'   = "success"
    /\ closed' = closed \cup {"allDisksReady"}
                        \cup (IF HasFlash THEN {"firmwareFlashReady"} ELSE {})
    /\ UNCHANGED <<proc, mover, moverOK, groupErr, hookVars, panic, hostVars>>

GroupWait ==
    /\ main = "wait"
    /\ mover \in {"ok", "err"}
    /\ \A p \in Procs : proc[p] \in {"off", "ok", "err"}
    /\ main'   = IF groupErr THEN "failure" ELSE "success"
    /\ closed' = closed \cup {"allDisksReady"}
                        \cup (IF HasFlash THEN {"firmwareFlashReady"} ELSE {})
    /\ UNCHANGED <<proc, mover, moverOK, groupErr, hookVars, panic, hostVars>>

-----------------------------------------------------------------------------
(* A mirroring processor. *)

ProcSets(p, stage) ==
    /\ proc' = [proc EXCEPT ![p] = stage]
    /\ groupErr' = (groupErr \/ stage = "err")

\* drive-mirror for one image after another; an error ends the processor.
DriveMirror(p, i) ==
    /\ proc[p] = "start"
    /\ i \in ImagesOf(p) /\ job[i] = "none"
    /\ \/ /\ ~QemuGone
          /\ dstVM \notin {"none", "exited"}
          /\ job' = [job EXCEPT ![i] = "running"]
          /\ UNCHANGED <<proc, groupErr>>
       \/ /\ ProcSets(p, "err")
          /\ UNCHANGED job
    /\ UNCHANGED <<main, mover, moverOK, closed, hookVars, panic, srcVM, state, synced,
                   broken, dstVM, dstConf, stream, handed, request, dstCancel>>

AllStarted(p) ==
    /\ proc[p] = "start"
    /\ \A i \in ImagesOf(p) : job[i] # "none"
    /\ ProcSets(p, "sync")
    /\ UNCHANGED <<main, mover, moverOK, closed, hookVars, panic, hostVars>>

\* waitForReady saw every job ready: the channel is closed.  Closing a closed
\* channel is a run-time panic.
AllReady(p) ==
    /\ proc[p] = "sync"
    /\ ImagesOf(p) \subseteq synced
    /\ ProcSets(p, "ready")
    /\ closed' = closed \cup {ReadyChan[p]}
    /\ panic'  = (ReadyChan[p] \in closed)
    /\ UNCHANGED <<main, mover, moverOK, hookVars, hostVars>>

\* waitForReady: the context is done, or a job is not listed.
SyncFails(p) ==
    /\ proc[p] = "sync"
    /\ CtxDone \/ QemuGone \/ \E i \in ImagesOf(p) : job[i] = "gone"
    /\ ProcSets(p, "err")
    /\ UNCHANGED <<main, mover, moverOK, closed, hookVars, panic, hostVars>>

\* waitForReady: 60 seconds pass without the event that the job is running.
NoRunningEvent(p) ==
    /\ proc[p] = "sync"
    /\ \E i \in ImagesOf(p) : job[i] = "running"
    /\ ProcSets(p, "err")
    /\ UNCHANGED <<main, mover, moverOK, closed, hookVars, panic, hostVars>>

\* waitMachineStateMigrated: the channel, the context, or a vanished job.
StateMigrated(p) ==
    /\ proc[p] = "ready"
    /\ "vmstateMigrated" \in closed
    /\ ProcSets(p, "complete")
    /\ UNCHANGED <<main, mover, moverOK, closed, hookVars, panic, hostVars>>

WaitFails(p) ==
    /\ proc[p] = "ready"
    /\ CtxDone \/ QemuGone \/ \E i \in ImagesOf(p) : ~Listed(i)
    /\ ProcSets(p, "err")
    /\ UNCHANGED <<main, mover, moverOK, closed, hookVars, panic, hostVars>>

\* block-job-complete for one image after another; where the command fails the
\* error is only logged, and the job is left as it is.
JobComplete(p, i) ==
    /\ proc[p] = "complete"
    /\ i \in ImagesOf(p) /\ job[i] = "ready"
    /\ job' = [job EXCEPT ![i] = "completing"]
    /\ UNCHANGED <<srcVars, srcVM, state, synced, broken, dstVM, dstConf, stream, handed,
                   request, dstCancel>>

AllCompleting(p) ==
    /\ proc[p] = "complete"
    /\ ProcSets(p, "drain")
    /\ UNCHANGED <<main, mover, moverOK, closed, hookVars, panic, hostVars>>

\* waitForCompleted for each job that was told to complete: the first error ends
\* the wait for all, and is only logged; the context's is returned.
Drained(p) ==
    /\ proc[p] = "drain"
    /\ \/ /\ \/ QemuGone
             \/ \E i \in ImagesOf(p) : job[i] = "aborted"
             \/ \A i \in ImagesOf(p) : job[i] # "completing"
          /\ ProcSets(p, "ok")
       \/ /\ CtxDone
          /\ ProcSets(p, "err")
    /\ UNCHANGED <<main, mover, moverOK, closed, hookVars, panic, hostVars>>

-----------------------------------------------------------------------------
(* migrateMachineState. *)

MoverSets(stage, ok) ==
    /\ mover'   = stage
    /\ moverOK' = ok

\* With a bug: the state does not wait for the disks.
DisksNotAwaited ==
    /\ mover = "disks"
    /\ MoverSets("setup", FALSE)
    /\ UNCHANGED <<main, proc, closed, groupErr, hookVars, panic, hostVars>>

\* The select on the disks, then capabilities, parameters and "migrate".
DisksAwaited ==
    /\ mover = "disks"
    /\ \/ "allDisksReady" \in closed /\ MoverSets("setup", FALSE)
       \/ CtxDone                    /\ MoverSets("closing", FALSE)
    /\ UNCHANGED <<main, proc, closed, groupErr, hookVars, panic, hostVars>>

Migrate ==
    /\ mover = "setup"
    /\ \/ /\ ~QemuGone
          /\ dstVM = "inmigrate"
          /\ state' = "active"
          /\ MoverSets("polling", FALSE)
       \/ /\ MoverSets("closing", FALSE)
          /\ UNCHANGED state
    /\ UNCHANGED <<main, proc, closed, groupErr, hookVars, panic, srcVM, job, synced,
                   broken, dstVM, dstConf, stream, handed, request, dstCancel>>

\* With a bug: every end of the transfer is taken for its success.
QueryMigrateAnyEnd ==
    /\ mover = "polling"
    /\ \/ (CtxDone \/ QemuGone)                  /\ MoverSets("closing", FALSE)
       \/ state \notin {"none", "active"}        /\ MoverSets("closing", TRUE)
    /\ UNCHANGED <<main, proc, closed, groupErr, hookVars, panic, hostVars>>

\* The loop over query-migrate.
QueryMigrate ==
    /\ mover = "polling"
    /\ \/ CtxDone                                           /\ MoverSets("closing", FALSE)
       \/ QemuGone                                          /\ MoverSets("closing", FALSE)
       \/ ~QemuGone /\ state = "completed"                  /\ MoverSets("closing", TRUE)
       \/ ~QemuGone /\ state \in {"failed", "cancelled"}    /\ MoverSets("closing", FALSE)
    /\ UNCHANGED <<main, proc, closed, groupErr, hookVars, panic, hostVars>>

\* With a bug: the channel is never closed.
MoverForgetsChannel ==
    /\ mover = "closing"
    /\ MoverSets("returning", moverOK)
    /\ UNCHANGED <<main, proc, closed, groupErr, hookVars, panic, hostVars>>

\* "defer close(vmstateMigrated)" runs before the errgroup sees the error.
MoverCloses ==
    /\ mover = "closing"
    /\ MoverSets("returning", moverOK)
    /\ closed' = closed \cup {"vmstateMigrated"}
    /\ UNCHANGED <<main, proc, groupErr, hookVars, panic, hostVars>>

MoverReturns ==
    /\ mover = "returning"
    /\ MoverSets(IF moverOK THEN "ok" ELSE "err", moverOK)
    /\ groupErr' = (groupErr \/ ~moverOK)
    /\ UNCHANGED <<main, proc, closed, hookVars, panic, hostVars>>

-----------------------------------------------------------------------------
(* OnSuccess. *)

\* The source is marked as down and its QEMU told to quit, which may fail.
QuitSource ==
    /\ main = "success"
    /\ downFile' = TRUE
    /\ main'     = IF RemoveAfter THEN "testing" ELSE "done"
    /\ \/ UNCHANGED <<srcVM, job, broken>>
       \/ srcVM' = "exited" /\ JobsEnd(Images)
    /\ UNCHANGED <<proc, mover, moverOK, closed, groupErr, taskCancel, turnOff, tests,
                   srcConf, panic, notified, state, synced, dstVM, dstConf, stream,
                   handed, request, dstCancel>>

\* testRemoteMachine: the machine of this name has the PID the incoming process
\* was started with, and is in the expected state.  A machine without a QEMU
\* process is reported with PID 0, so one that is to be turned off passes only
\* while it shuts down.  The call uses the task's context.
RemoteLooksFine ==
    /\ ~taskCancel
    /\ dstConf /\ ~OverrideName
    /\ dstVM = IF turnOff THEN "stopping" ELSE "running"

TestRemote ==
    /\ main = "testing"
    /\ RemoteLooksFine
    /\ tests' = tests + 1
    /\ main'  = IF tests + 1 = Tests THEN "removing" ELSE "testing"
    /\ UNCHANGED <<proc, mover, moverOK, closed, groupErr, taskCancel, turnOff, downFile,
                   srcConf, panic, notified, hostVars>>

TestFails ==
    /\ main = "testing"
    /\ main' = "done"
    /\ UNCHANGED <<proc, mover, moverOK, closed, groupErr, hookVars, panic, hostVars>>

\* The unit is stopped and disabled, the user and the configuration removed.
RemoveSource ==
    /\ main = "removing"
    /\ main'    = "done"
    /\ srcVM'   = "exited"
    /\ JobsEnd(Images)
    /\ srcConf' = FALSE
    /\ UNCHANGED <<proc, mover, moverOK, closed, groupErr, taskCancel, turnOff, tests,
                   downFile, panic, notified, state, synced, dstVM, dstConf, stream,
                   handed, request, dstCancel>>

\* A step of the removal fails and is only logged.
RemoveFails ==
    /\ main = "removing"
    /\ main' = "done"
    /\ UNCHANGED <<proc, mover, moverOK, closed, groupErr, hookVars, panic, hostVars>>

-----------------------------------------------------------------------------
(* OnFailure. *)

\* block-job-cancel, forced, for every moving disk (not for the flash).
CancelJobs ==
    /\ main = "failure"
    /\ main' = "cancelstate"
    /\ JobsEnd({i \in Disks : Listed(i)})
    /\ UNCHANGED <<proc, mover, moverOK, closed, groupErr, hookVars, panic, srcVM, state,
                   synced, dstVM, dstConf, stream, handed, request, dstCancel>>

\* With a bug: the guest is resumed after every failure.
MigrateCancelResumes ==
    /\ main = "cancelstate"
    /\ main' = "notify"
    /\ srcVM' = IF QemuGone THEN "exited" ELSE "running"
    /\ IF state = "active"
         THEN state' = "cancelled" /\ dstVM' = "exited"
         ELSE UNCHANGED <<state, dstVM>>
    /\ UNCHANGED <<proc, mover, moverOK, closed, groupErr, hookVars, panic, job, synced,
                   broken, dstConf, stream, handed, request, dstCancel>>

\* migrate_cancel: the guest goes on here, the incoming QEMU loses its stream.
MigrateCancel ==
    /\ main = "cancelstate"
    /\ main' = "notify"
    /\ IF state = "active"
         THEN state' = "cancelled" /\ dstVM' = "exited"
         ELSE UNCHANGED <<state, dstVM>>
    /\ UNCHANGED <<proc, mover, moverOK, closed, groupErr, hookVars, panic, srcVM, job,
                   synced, broken, dstConf, stream, handed, request, dstCancel>>

\* Tasks().Cancel at the destination, with the context of this very task: the
\* call cannot be made once the task itself has been cancelled.  The key is made
\* of the name the machine has here, and a key nobody has is not an error.
NotifyDestination ==
    /\ main = "notify"
    /\ main' = "failed"
    /\ \/ /\ ~taskCancel
          /\ notified'  = TRUE
          /\ dstCancel' = (dstCancel \/ ~OverrideName)
       \/ UNCHANGED <<notified, dstCancel>>
    /\ UNCHANGED <<proc, mover, moverOK, closed, groupErr, taskCancel, turnOff, tests,
                   downFile, srcConf, panic, srcVM, state, job, synced, broken, dstVM,
                   dstConf, stream, handed, request>>

-----------------------------------------------------------------------------
(* Cancel, restart of kvmrund, and the shutdown of the machine. *)

Ended == {"idle", "rejected", "done", "failed", "crashed"}

\* "vmm migration cancel", or a shutdown of the machine.
CancelTask ==
    /\ main \notin Ended
    /\ taskCancel' = TRUE
    /\ UNCHANGED <<main, proc, mover, moverOK, closed, groupErr, turnOff, tests, downFile,
                   srcConf, panic, notified, hostVars>>

\* kvmrund dies with all its goroutines; QEMU goes on with what it was told.
SourceCrashes ==
    /\ main \notin Ended \/ \E p \in Procs : proc[p] \notin {"off", "ok", "err"}
    /\ main'    = "crashed"
    /\ proc'    = [p \in Procs |-> "off"]
    /\ mover'   = "off"
    /\ request' = IF request = "sent" THEN "lost" ELSE request
    /\ UNCHANGED <<moverOK, closed, groupErr, hookVars, panic, srcVM, state, job, synced,
                   broken, dstVM, dstConf, stream, handed, dstCancel>>

-----------------------------------------------------------------------------
(* The steps of each goroutine. *)

MainStep ==
    \/ MainStarts \/ FlashReady \/ MainLeaves \/ LaunchGroup \/ GroupWait
    \/ QuitSource \/ TestRemote \/ TestFails \/ RemoveSource \/ RemoveFails
    \/ CancelJobs \/ MigrateCancel \/ NotifyDestination

ProcStep(p) ==
    \/ \E i \in Images : DriveMirror(p, i) \/ JobComplete(p, i)
    \/ AllStarted(p) \/ AllReady(p) \/ SyncFails(p)
    \/ StateMigrated(p) \/ WaitFails(p) \/ AllCompleting(p) \/ Drained(p)

MoverStep == DisksAwaited \/ Migrate \/ QueryMigrate \/ MoverCloses \/ MoverReturns

\* What is only ever answered or timed out by somebody else.
SourceWaits ==
    \/ BeforeStart \/ RequestFails
    \/ \E p \in Procs : NoRunningEvent(p)
=============================================================================
