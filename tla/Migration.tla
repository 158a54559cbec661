----------------------------- MODULE Migration -----------------------------
(***************************************************************************)
(* A live migration: the task of the source and the task of the            *)
(* destination, with the two QEMU processes between them, a user who may   *)
(* cancel, kvmrund processes that may die, and the shutdown of the machine *)
(* on the source (server/system/instance_termination.go), which the task   *)
(* pool does not keep away from a migration: it cancels it.                *)
(***************************************************************************)
EXTENDS SourceMigration, IncomingMigration

CONSTANTS
    AllowCancel,     \* the user may cancel the migration
    AllowShutdown,   \* the machine may be shut down on the source
    AllowCrash       \* the kvmrund processes may die

ASSUME EnvironmentAssumption == {AllowCancel, AllowShutdown, AllowCrash} \subseteq BOOLEAN

VARIABLE shutdown    \* how far the shutdown of the source is

vars == <<hostVars, srcVars, dstVars, shutdown>>

Init ==
    /\ HostInit
    /\ SrcInit
    /\ DstInit
    /\ shutdown = "no"

-----------------------------------------------------------------------------
(* InstanceTerminationTask: TaskCancel(vmname), "cont", powerdown or quit. *)

ShutdownBegins ==
    /\ AllowShutdown /\ shutdown = "no" /\ srcVM # "exited"
    /\ shutdown' = "begun"
    /\ taskCancel' = (taskCancel \/ main \notin Ended)
    /\ UNCHANGED <<main, proc, mover, moverOK, closed, groupErr, turnOff, tests, downFile,
                   srcConf, panic, notified, hostVars, dstVars>>

ShutdownResumes ==
    /\ shutdown = "begun"
    /\ shutdown' = "resumed"
    /\ srcVM' = IF srcVM = "exited" THEN "exited" ELSE "running"
    /\ UNCHANGED <<srcVars, dstVars, state, job, synced, broken, dstVM, dstConf, stream,
                   handed, request, dstCancel>>

ShutdownEnds ==
    /\ shutdown = "resumed"
    /\ shutdown' = "done"
    /\ srcVM' = "exited"
    /\ JobsEnd(Images)
    /\ IF state = "active" THEN state' = "failed" /\ dstVM' = "exited"
                           ELSE UNCHANGED <<state, dstVM>>
    /\ UNCHANGED <<srcVars, dstVars, synced, dstConf, stream, handed, request, dstCancel>>

-----------------------------------------------------------------------------
\* A panic of a goroutine kills kvmrund: nothing of the task moves after it.
SourceStep ==
    /\ ~panic
    /\ UNCHANGED <<dstVars, shutdown>>
    /\ \/ MainStep
       \/ \E p \in Procs : ProcStep(p)
       \/ MoverStep
       \/ SourceWaits

IncomingStep ==
    /\ UNCHANGED <<srcVars, shutdown>>
    /\ IncomingTaskStep \/ Resume(turnOff) \/ ConnMonitor \/ MonitoringFails

QemuStep == HostNext /\ UNCHANGED <<srcVars, dstVars, shutdown>>

ShutdownStep == ShutdownBegins \/ ShutdownResumes \/ ShutdownEnds

Disturbance ==
    \/ AllowCancel /\ CancelTask /\ UNCHANGED <<dstVars, shutdown>>
    \/ (AllowCrash \/ panic) /\ SourceCrashes /\ UNCHANGED <<dstVars, shutdown>>
    \/ AllowCrash /\ DestinationCrashes /\ UNCHANGED <<srcVars, shutdown>>

Next == SourceStep \/ IncomingStep \/ QemuStep \/ ShutdownStep \/ Disturbance

Spec == Init /\ [][Next]_vars

\* Every goroutine that can go on does: those of the source unless kvmrund has
\* panicked, which ends it; the incoming task and its connection monitor, which
\* are driven by tickers; QEMU's jobs and its state transfer, which end one way
\* or the other.  A call that has been answered returns.  Nothing is assumed of
\* users, crashes, time-outs and spurious errors.
Fairness ==
    LET Source(A)   == ~panic /\ A /\ UNCHANGED <<dstVars, shutdown>>
        Incoming(A) == A /\ UNCHANGED <<srcVars, shutdown>>
        Qemu(A)     == A /\ UNCHANGED <<srcVars, dstVars, shutdown>>
    IN  /\ WF_vars(Source(MainStep))
        /\ WF_vars(Source(request # "sent" /\ RequestFails))
        /\ \A p \in Procs : WF_vars(Source(ProcStep(p)))
        /\ WF_vars(Source(MoverStep))
        /\ WF_vars(panic /\ SourceCrashes /\ UNCHANGED <<dstVars, shutdown>>)
        /\ WF_vars(Incoming(IncomingTaskStep \/ Resume(turnOff)))
        /\ WF_vars(Incoming(ConnMonitor))
        /\ \A i \in Images : /\ WF_vars(Qemu(JobBecomesReady(i) \/ JobPivots(i)))
                             /\ WF_vars(Qemu(dstVM = "exited" /\ JobFails(i)))
        /\ WF_vars(Qemu(StateCompletes \/ StateArrives \/ StateFails))

FairSpec == Spec /\ Fairness

-----------------------------------------------------------------------------
(* Properties. *)

TypeOK ==
    /\ HostTypeOK
    /\ SrcTypeOK
    /\ DstTypeOK
    /\ shutdown \in {"no", "begun", "resumed", "done"}

Executing(vm) == vm \in {"running", "stopping"}

\* The guest never executes on both hosts: not when the transfer fails, is
\* cancelled late, or when either kvmrund dies.  The one exception is the
\* shutdown of the source, which resumes whatever it finds (see README).
OneHostExecutes ==
    (Executing(srcVM) /\ Executing(dstVM)) => shutdown \in {"resumed", "done"}

\* As long as its state has not been sent completely, the guest lives on the
\* source, whatever happened to the migration, unless it was shut down there.
GuestStaysUntilHandedOver ==
    (~handed /\ shutdown \in {"no", "begun"}) => srcVM \in {"running", "paused"}

\* The source is marked down, and its QEMU told to quit, only when all of the
\* state has been sent.
DownOnlyIfHandedOver == downFile => handed

\* The source is removed only when it has stopped, and after the guest was loaded
\* and seen alive at the destination.
RemovedOnlyIfTakenOver == ~srcConf => (stream = "loaded" /\ tests = Tests /\ srcVM = "exited")

\* False of the code: the source is told to quit only once the destination has
\* loaded the guest.  Nothing tells the source of that (migrateMachineState).
QuitOnlyIfLoaded == downFile => stream = "loaded"

\* The source gives the machine up only when the guest has left it: its QEMU is told
\* to quit once the state was sent, its configuration directory is removed when the
\* guest was loaded at the destination and seen alive there as well (OnSuccess).
SourceEndsOnlyIfTakenOver == DownOnlyIfHandedOver /\ RemovedOnlyIfTakenOver

\* A failed incoming migration leaves the destination as it was: no process,
\* no configuration, the volumes that were there and no others.
FailureLeavesNothing ==
    dst = "failed" => /\ dstVM \in {"none", "exited"}
                      /\ ~dstConf
                      /\ volumes = found

Owner == IF handed THEN "destination" ELSE "source"
SourceMachine == IF ~srcConf THEN "removed" ELSE IF downFile THEN "down" ELSE "up"

Guest == INSTANCE Handover WITH owner <- Owner, copied <- synced \ broken, lost <- broken,
                                source <- SourceMachine

\* A migration implements Handover: the guest changes hands once, when every image
\* is in sync or was so until its mirror broke, and no failure, cancel, crash or
\* shutdown takes it back; the source goes down after that (OnSuccess), and is
\* removed after it went down.
ImplementsHandover == Guest!Spec

\* The images whose mirror is ready: the destination gets every write of the guest.
Mirrored == {i \in Images : job[i] \in {"ready", "completing", "pivoted"}}

\* When the guest leaves the source, flash and disks alike are in sync at the
\* destination at that very moment, except those whose mirror had been ready and then
\* failed or was cancelled, which the processors notice a second later at best.
InSyncUnlessBroken == [][~handed /\ handed' => Images \subseteq Mirrored \cup broken]_vars

\* False of the code: no mirror breaks unnoticed before the guest leaves.
InSyncAtHandOver == handed => broken = {}

\* block-job-complete, which makes the source use the image of the destination,
\* is sent only when the state has been transferred ("wait for machine state is
\* migrated", "Machine state migration is completed").
CompleteOnlyIfHandedOver ==
    \A i \in Images : job[i] \in {"completing", "pivoted"} => handed

\* No channel is closed twice ("cleanup: close regardless of the Main() exit
\* code"): that would be a panic that takes all of kvmrund down.
NoPanic == ~panic

\* When the source reports that the remote task "was successfully cancelled",
\* the context of the incoming task is cancelled.
ReportedCancelIsReal == notified => dstCancel

\* The source task ends, whatever breaks on its way: no goroutine waits for a
\* channel nobody will close.
SourceTaskEnds == (main \notin Ended) ~> (main \in Ended)

IncomingEnded == dst \in {"none", "done", "failed", "crashed"}

\* Once no connection is left for good the incoming task ends: the destination
\* does not keep a half-received machine ("stops the task if there are no
\* connections on the data ports").
IncomingEndsWithoutConnections == <>[]~Connected => []<>IncomingEnded

\* The incoming task ends, also when "something happened on the source
\* host-server and it could not notify this task about the problems".
IncomingTaskEnds == ~IncomingEnded ~> IncomingEnded
=============================================================================
