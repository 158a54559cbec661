-------------------------- MODULE MigrationProofs --------------------------
(***************************************************************************)
(* Proofs about a live migration, for any set of disks, with or without a  *)
(* firmware flash, and whatever the options of the migration are and       *)
(* whichever disturbances are allowed.                                     *)
(***************************************************************************)
EXTENDS Migration, TLAPS

\* The stages of the incoming task before it has started its QEMU, and those it
\* reaches only after it has seen the guest leave "inmigrate".
BeforeQemu   == {"none", "disks", "machine"}
AfterArrival == {"conns", "query", "last", "success", "stopping"}

\* The stages of the outgoing task before the state transfer is launched.
BeforeLaunch == {"idle", "requesting", "rejected", "fwwait", "launch"}

\* The state is handed over by the completion of its transfer and by nothing
\* else, and the guest is at the destination once it was loaded there.
HandOver ==
    /\ handed <=> state = "completed"
    /\ handed <=> stream # "none"
    /\ stream # "loaded" => dstVM \in {"none", "inmigrate", "exited"}
    /\ dst \in BeforeQemu => dstVM = "none" /\ state = "none"
    /\ dst \in {"nbd", "polling"} => dstVM # "none"
    /\ dst \in AfterArrival => stream = "loaded"
    /\ main \in BeforeLaunch \/ mover \in {"disks", "setup"} => state = "none"
    /\ main \in BeforeLaunch => mover = "off"

\* Where the guest is on the source.
SourceGuest ==
    /\ srcVM \in {"running", "paused", "postmigrate", "exited"}
    /\ state = "active" => srcVM \in {"running", "paused"}
    /\ srcVM = "postmigrate" => handed
    /\ shutdown \in {"no", "begun"}
          => IF handed THEN srcVM \in {"postmigrate", "exited"}
                       ELSE srcVM \in {"running", "paused"}

\* The task succeeds only on the word of the goroutine that saw the transfer
\* complete.
SuccessIsHandOver ==
    /\ moverOK => handed
    /\ mover = "ok" => moverOK
    /\ mover = "err" => groupErr
    /\ main \in {"success", "testing", "removing"} => handed
    /\ main \in {"testing", "removing"} => downFile
    /\ downFile => handed /\ main \in {"testing", "removing", "done", "crashed"}

\* The source is removed at the very end, after the tests.
RemovalIsLast ==
    /\ tests \in 0..Tests
    /\ tests = Tests => main \in {"removing", "done", "crashed"}
    /\ main = "removing" => tests = Tests
    /\ tests # 0 => stream = "loaded"
    /\ ~srcConf => /\ handed /\ downFile /\ tests = Tests /\ srcVM = "exited"
                   /\ main \in {"done", "crashed"}

\* What a closed channel tells those who still wait for it, and what has been
\* copied when the transfer of the state begins.
ChannelsTellTheTruth ==
    /\ main \in {"idle", "requesting", "fwwait"} /\ "firmwareFlashReady" \in closed
          => Flash \subseteq synced
    /\ (main \in BeforeLaunch \/ mover = "disks") /\ "allDisksReady" \in closed
          => Disks \subseteq synced
    /\ main = "launch" \/ mover # "off" => Flash \subseteq synced
    /\ mover = "setup" => Disks \subseteq synced
    /\ state # "none" => Images \subseteq synced
    /\ synced \subseteq Images

\* An image that was in sync is so until its mirror breaks.
BreaksAreSeen ==
    /\ broken \subseteq synced
    /\ ~handed => synced \subseteq Mirrored \cup broken

\* The volumes of the destination are those it had and those the task created.
VolumesAccounted ==
    /\ volumes = found \cup createdDisks
    /\ createdDisks \cap found = {}
    /\ dst = "failed" => /\ dstVM \in {"none", "exited"}
                         /\ ~dstConf
                         /\ createdDisks = {}

MigrationInv ==
    /\ HandOver
    /\ SourceGuest
    /\ SuccessIsHandOver
    /\ RemovalIsLast
    /\ ChannelsTellTheTruth
    /\ BreaksAreSeen
    /\ VolumesAccounted

-----------------------------------------------------------------------------
(* Types. *)

\* The types hold at the start.
LEMMA MigrationTypesInit == Init => TypeOK
<1>1. Init => HostTypeOK
  BY DEF Init, HostInit, HostTypeOK, GuestStates, JobStates
<1>2. Init => SrcTypeOK
  <2>1. Init => SrcFlagsOK
    BY Zenon DEF Init, SrcInit, SrcFlagsOK
  <2> QED
    BY <2>1 DEF Init, SrcInit, SrcTypeOK, Procs, Tests
<1>3. Init => DstTypeOK
  BY IncomingAssumption DEF Init, DstInit, DstTypeOK
<1> QED
  BY <1>1, <1>2, <1>3 DEF Init, TypeOK

\* Every step keeps the types; the number of tests is bounded by RemovalIsLast, and
\* what is sent of the guest by SourceGuest.
LEMMA MigrationTypesStep == TypeOK /\ RemovalIsLast /\ SourceGuest /\ [Next]_vars => TypeOK'
<1> SUFFICES ASSUME TypeOK, RemovalIsLast, SourceGuest, [Next]_vars PROVE TypeOK'
  OBVIOUS
<1> USE OptionsAssumption, IncomingAssumption
    DEF TypeOK, HostTypeOK, SrcTypeOK, SrcFlagsOK, DstTypeOK, GuestStates, JobStates, Procs,
        srcVars, dstVars, hostVars, hookVars
<1>1. ASSUME BeforeStart, UNCHANGED <<dstVars, shutdown>> PROVE TypeOK'
  BY <1>1 DEF BeforeStart
<1>2. ASSUME RequestFails, UNCHANGED <<dstVars, shutdown>> PROVE TypeOK'
  BY <1>2 DEF RequestFails
<1>3. ASSUME MainStarts, UNCHANGED <<dstVars, shutdown>> PROVE TypeOK'
  BY <1>3 DEF MainStarts
<1>4. ASSUME FlashReady, UNCHANGED <<dstVars, shutdown>> PROVE TypeOK'
  BY <1>4 DEF FlashReady
<1>5. ASSUME MainLeaves, UNCHANGED <<dstVars, shutdown>> PROVE TypeOK'
  BY <1>5 DEF MainLeaves
<1>6. ASSUME LaunchGroup, UNCHANGED <<dstVars, shutdown>> PROVE TypeOK'
  BY <1>6 DEF LaunchGroup
<1>7. ASSUME GroupWait, UNCHANGED <<dstVars, shutdown>> PROVE TypeOK'
  BY <1>7 DEF GroupWait
<1>8. ASSUME QuitSource, UNCHANGED <<dstVars, shutdown>> PROVE TypeOK'
  BY <1>8 DEF QuitSource, JobsEnd
<1>9. ASSUME TestRemote, UNCHANGED <<dstVars, shutdown>> PROVE TypeOK'
  BY <1>9 DEF TestRemote, RemovalIsLast, Tests
<1>10. ASSUME TestFails, UNCHANGED <<dstVars, shutdown>> PROVE TypeOK'
  BY <1>10 DEF TestFails
<1>11. ASSUME RemoveSource, UNCHANGED <<dstVars, shutdown>> PROVE TypeOK'
  <2>1. HostTypeOK'
    BY <1>11 DEF RemoveSource, JobsEnd
  <2>2. SrcTypeOK'
    BY <1>11 DEF RemoveSource, JobsEnd
  <2>3. DstTypeOK'
    BY <1>11 DEF RemoveSource, JobsEnd
  <2> QED
    BY <1>11, <2>1, <2>2, <2>3 DEF RemoveSource
<1>12. ASSUME RemoveFails, UNCHANGED <<dstVars, shutdown>> PROVE TypeOK'
  BY <1>12 DEF RemoveFails
<1>13. ASSUME CancelJobs, UNCHANGED <<dstVars, shutdown>> PROVE TypeOK'
  BY <1>13 DEF CancelJobs, JobsEnd, Images, Listed
<1>14. ASSUME MigrateCancel, UNCHANGED <<dstVars, shutdown>> PROVE TypeOK'
  BY <1>14 DEF MigrateCancel
<1>15. ASSUME NotifyDestination, UNCHANGED <<dstVars, shutdown>> PROVE TypeOK'
  <2>1. HostTypeOK'
    <3>1. dstCancel' \in BOOLEAN
      BY <1>15 DEF NotifyDestination
    <3> QED
      BY <1>15, <3>1 DEF NotifyDestination
  <2>2. SrcTypeOK'
    BY <1>15 DEF NotifyDestination
  <2>3. DstTypeOK'
    BY <1>15 DEF NotifyDestination
  <2> QED
    BY <1>15, <2>1, <2>2, <2>3 DEF NotifyDestination
<1>16. ASSUME CancelTask, UNCHANGED <<dstVars, shutdown>> PROVE TypeOK'
  BY <1>16 DEF CancelTask
<1>17. ASSUME SourceCrashes, UNCHANGED <<dstVars, shutdown>> PROVE TypeOK'
  BY <1>17 DEF SourceCrashes
<1>18. ASSUME DisksAwaited, UNCHANGED <<dstVars, shutdown>> PROVE TypeOK'
  <2>1. HostTypeOK'
    BY <1>18 DEF DisksAwaited, MoverSets
  <2>2. SrcTypeOK'
    <3>1. SrcFlagsOK'
      BY <1>18, Zenon DEF DisksAwaited, MoverSets
    <3> HIDE DEF SrcFlagsOK
    <3> QED
      BY <1>18, <3>1 DEF DisksAwaited, MoverSets
  <2>3. DstTypeOK'
    BY <1>18 DEF DisksAwaited, MoverSets
  <2> QED
    BY <1>18, <2>1, <2>2, <2>3 DEF DisksAwaited
<1>19. ASSUME Migrate, UNCHANGED <<dstVars, shutdown>> PROVE TypeOK'
  <2>1. HostTypeOK'
    BY <1>19 DEF Migrate, MoverSets
  <2>2. SrcTypeOK'
    <3>1. SrcFlagsOK'
      BY <1>19, Zenon DEF Migrate, MoverSets
    <3> HIDE DEF SrcFlagsOK
    <3> QED
      BY <1>19, <3>1 DEF Migrate, MoverSets
  <2>3. DstTypeOK'
    BY <1>19 DEF Migrate, MoverSets
  <2> QED
    BY <1>19, <2>1, <2>2, <2>3 DEF Migrate
<1>20. ASSUME QueryMigrate, UNCHANGED <<dstVars, shutdown>> PROVE TypeOK'
  <2>1. HostTypeOK'
    BY <1>20 DEF QueryMigrate, MoverSets
  <2>2. SrcTypeOK'
    <3>1. SrcFlagsOK'
      BY <1>20, Zenon DEF QueryMigrate, MoverSets
    <3> HIDE DEF SrcFlagsOK
    <3> QED
      BY <1>20, <3>1 DEF QueryMigrate, MoverSets
  <2>3. DstTypeOK'
    BY <1>20 DEF QueryMigrate, MoverSets
  <2> QED
    BY <1>20, <2>1, <2>2, <2>3 DEF QueryMigrate
<1>21. ASSUME MoverCloses, UNCHANGED <<dstVars, shutdown>> PROVE TypeOK'
  BY <1>21 DEF MoverCloses, MoverSets
<1>22. ASSUME MoverReturns, UNCHANGED <<dstVars, shutdown>> PROVE TypeOK'
  BY <1>22 DEF MoverReturns, MoverSets
<1>23. ASSUME NEW p \in Procs, AllStarted(p), UNCHANGED <<dstVars, shutdown>> PROVE TypeOK'
  BY <1>23 DEF AllStarted, ProcSets
<1>24. ASSUME NEW p \in Procs, AllReady(p), UNCHANGED <<dstVars, shutdown>> PROVE TypeOK'
  <2>1. HostTypeOK'
    BY <1>24 DEF AllReady, ProcSets, ReadyChan
  <2>2. SrcTypeOK'
    <3>1. SrcFlagsOK'
      <4>1. panic' \in BOOLEAN /\ groupErr' \in BOOLEAN
        BY <1>24 DEF AllReady, ProcSets
      <4> QED
        BY <1>24, <4>1, Zenon DEF AllReady
    <3> HIDE DEF SrcFlagsOK
    <3>2. ReadyChan[p] \in {"firmwareFlashReady", "allDisksReady"}
      BY DEF ReadyChan
    <3> QED
      BY <1>24, <3>1, <3>2 DEF AllReady, ProcSets
  <2>3. DstTypeOK'
    BY <1>24 DEF AllReady, ProcSets, ReadyChan
  <2> QED
    BY <1>24, <2>1, <2>2, <2>3 DEF AllReady
<1>25. ASSUME NEW p \in Procs, SyncFails(p), UNCHANGED <<dstVars, shutdown>> PROVE TypeOK'
  BY <1>25 DEF SyncFails, ProcSets
<1>26. ASSUME NEW p \in Procs, NoRunningEvent(p), UNCHANGED <<dstVars, shutdown>> PROVE TypeOK'
  BY <1>26 DEF NoRunningEvent, ProcSets
<1>27. ASSUME NEW p \in Procs, StateMigrated(p), UNCHANGED <<dstVars, shutdown>> PROVE TypeOK'
  BY <1>27 DEF StateMigrated, ProcSets
<1>28. ASSUME NEW p \in Procs, WaitFails(p), UNCHANGED <<dstVars, shutdown>> PROVE TypeOK'
  BY <1>28 DEF WaitFails, ProcSets
<1>29. ASSUME NEW p \in Procs, AllCompleting(p), UNCHANGED <<dstVars, shutdown>> PROVE TypeOK'
  BY <1>29 DEF AllCompleting, ProcSets
<1>30. ASSUME NEW p \in Procs, Drained(p), UNCHANGED <<dstVars, shutdown>> PROVE TypeOK'
  <2>1. HostTypeOK'
    BY <1>30 DEF Drained, ProcSets
  <2>2. SrcTypeOK'
    <3>1. CASE ProcSets(p, "ok")
      BY <1>30, <3>1 DEF Drained, ProcSets
    <3>2. CASE ProcSets(p, "err")
      BY <1>30, <3>2 DEF Drained, ProcSets
    <3> QED
      BY <1>30, <3>1, <3>2 DEF Drained
  <2>3. DstTypeOK'
    BY <1>30 DEF Drained, ProcSets
  <2> QED
    BY <1>30, <2>1, <2>2, <2>3 DEF Drained
<1>31. ASSUME NEW p \in Procs, NEW i \in Images, DriveMirror(p, i), UNCHANGED <<dstVars, shutdown>> PROVE TypeOK'
  <2>1. HostTypeOK'
    BY <1>31 DEF DriveMirror, ProcSets
  <2>2. SrcTypeOK'
    <3>1. SrcFlagsOK'
      BY <1>31, Zenon DEF DriveMirror, ProcSets
    <3> HIDE DEF SrcFlagsOK
    <3> QED
      BY <1>31, <3>1 DEF DriveMirror, ProcSets
  <2>3. DstTypeOK'
    BY <1>31 DEF DriveMirror, ProcSets
  <2> QED
    BY <1>31, <2>1, <2>2, <2>3 DEF DriveMirror
<1>32. ASSUME NEW p \in Procs, NEW i \in Images, JobComplete(p, i), UNCHANGED <<dstVars, shutdown>> PROVE TypeOK'
  BY <1>32 DEF JobComplete, ProcSets
<1>33. ASSUME Refuse, UNCHANGED <<srcVars, shutdown>> PROVE TypeOK'
  BY <1>33 DEF Refuse, Goes, GiveUp
<1>34. ASSUME Accept, UNCHANGED <<srcVars, shutdown>> PROVE TypeOK'
  BY <1>34 DEF Accept, Goes, GiveUp
<1>35. ASSUME ValidateDisks, UNCHANGED <<srcVars, shutdown>> PROVE TypeOK'
  BY <1>35 DEF ValidateDisks, Goes, GiveUp
<1>36. ASSUME DisksCreated, UNCHANGED <<srcVars, shutdown>> PROVE TypeOK'
  BY <1>36 DEF DisksCreated, Goes, GiveUp
<1>37. ASSUME StartIncomingMachine, UNCHANGED <<srcVars, shutdown>> PROVE TypeOK'
  BY <1>37 DEF StartIncomingMachine, Goes, GiveUp
<1>38. ASSUME StartNBDServer, UNCHANGED <<srcVars, shutdown>> PROVE TypeOK'
  BY <1>38 DEF StartNBDServer, Goes, GiveUp
<1>39. ASSUME QueryStatus, UNCHANGED <<srcVars, shutdown>> PROVE TypeOK'
  BY <1>39 DEF QueryStatus, Goes, GiveUp
<1>40. ASSUME WaitConnections, UNCHANGED <<srcVars, shutdown>> PROVE TypeOK'
  BY <1>40 DEF WaitConnections, Goes, GiveUp
<1>41. ASSUME StopNBDServer, UNCHANGED <<srcVars, shutdown>> PROVE TypeOK'
  BY <1>41 DEF StopNBDServer, Goes, GiveUp
<1>42. ASSUME LastChance, UNCHANGED <<srcVars, shutdown>> PROVE TypeOK'
  BY <1>42 DEF LastChance, Goes, GiveUp
<1>43. ASSUME TurnedOff, UNCHANGED <<srcVars, shutdown>> PROVE TypeOK'
  BY <1>43 DEF TurnedOff, Goes, GiveUp
<1>44. ASSUME CleanUp, UNCHANGED <<srcVars, shutdown>> PROVE TypeOK'
  <2>1. HostTypeOK'
    <3>1. dstVM' \in GuestStates
      BY <1>44 DEF CleanUp
    <3>2. request' \in {"none", "sent", "accepted", "refused", "lost"}
      BY <1>44 DEF CleanUp
    <3> QED
      BY <1>44, <3>1, <3>2 DEF CleanUp
  <2>2. SrcTypeOK'
    BY <1>44 DEF CleanUp, Goes, GiveUp
  <2>3. DstTypeOK'
    BY <1>44 DEF CleanUp, Goes, GiveUp
  <2> QED
    BY <1>44, <2>1, <2>2, <2>3 DEF CleanUp
<1>45. ASSUME ConnMonitor, UNCHANGED <<srcVars, shutdown>> PROVE TypeOK'
  <2>1. HostTypeOK'
    <3>1. dstCancel' \in BOOLEAN
      BY <1>45 DEF ConnMonitor
    <3> QED
      BY <1>45, <3>1 DEF ConnMonitor
  <2>2. SrcTypeOK'
    BY <1>45 DEF ConnMonitor, Goes, GiveUp
  <2>3. DstTypeOK'
    BY <1>45 DEF ConnMonitor, Goes, GiveUp
  <2> QED
    BY <1>45, <2>1, <2>2, <2>3 DEF ConnMonitor
<1>46. ASSUME MonitoringFails, UNCHANGED <<srcVars, shutdown>> PROVE TypeOK'
  BY <1>46 DEF MonitoringFails, Goes, GiveUp
<1>47. ASSUME DestinationCrashes, UNCHANGED <<srcVars, shutdown>> PROVE TypeOK'
  BY <1>47 DEF DestinationCrashes, Goes, GiveUp
<1>48. ASSUME NEW d \in Disks, CreateLocalDisk(d), UNCHANGED <<srcVars, shutdown>> PROVE TypeOK'
  BY <1>48 DEF CreateLocalDisk, GiveUp
<1>49. ASSUME Resume(turnOff), UNCHANGED <<srcVars, shutdown>> PROVE TypeOK'
  BY <1>49 DEF Resume
<1>50. ASSUME StateCompletes, UNCHANGED <<srcVars, dstVars, shutdown>> PROVE TypeOK'
  BY <1>50 DEF StateCompletes, SourceGuest
<1>51. ASSUME StateFails, UNCHANGED <<srcVars, dstVars, shutdown>> PROVE TypeOK'
  BY <1>51 DEF StateFails
<1>52. ASSUME NEW i \in Images, JobBecomesReady(i), UNCHANGED <<srcVars, dstVars, shutdown>> PROVE TypeOK'
  BY <1>52 DEF JobBecomesReady, Listed
<1>53. ASSUME NEW i \in Images, JobFails(i), UNCHANGED <<srcVars, dstVars, shutdown>> PROVE TypeOK'
  BY <1>53 DEF JobFails, Listed
<1>54. ASSUME NEW i \in Images, JobPivots(i), UNCHANGED <<srcVars, dstVars, shutdown>> PROVE TypeOK'
  BY <1>54 DEF JobPivots, Listed
<1>59. ASSUME StateArrives, UNCHANGED <<srcVars, dstVars, shutdown>> PROVE TypeOK'
  BY <1>59 DEF StateArrives
<1>55. ASSUME ShutdownBegins PROVE TypeOK'
  BY <1>55 DEF ShutdownBegins
<1>56. ASSUME ShutdownResumes PROVE TypeOK'
  BY <1>56 DEF ShutdownResumes
<1>57. ASSUME ShutdownEnds PROVE TypeOK'
  BY <1>57 DEF ShutdownEnds, JobsEnd
<1>58. CASE UNCHANGED vars
  BY <1>58 DEF vars
<1> QED
  BY <1>1, <1>2, <1>3, <1>4, <1>5, <1>6, <1>7, <1>8, <1>9, <1>10, <1>11,
     <1>12, <1>13, <1>14, <1>15, <1>16, <1>17, <1>18, <1>19, <1>20, <1>21,
     <1>22, <1>23, <1>24, <1>25, <1>26, <1>27, <1>28, <1>29, <1>30, <1>31,
     <1>32, <1>33, <1>34, <1>35, <1>36, <1>37, <1>38, <1>39, <1>40, <1>41,
     <1>42, <1>43, <1>44, <1>45, <1>46, <1>47, <1>48, <1>49, <1>50, <1>51,
     <1>52, <1>53, <1>54, <1>55, <1>56, <1>57, <1>58, <1>59
     DEF Next, SourceStep, MainStep, ProcStep, MoverStep, SourceWaits, IncomingStep,
         IncomingTaskStep, QemuStep, HostNext, ShutdownStep, Disturbance

\* Every step keeps what is known of the transfer of the guest.
LEMMA HandOverStep ==
    TypeOK /\ MigrationInv /\ [Next]_vars => HandOver'
<1> SUFFICES ASSUME TypeOK, MigrationInv, [Next]_vars PROVE HandOver'
  OBVIOUS
<1> USE DEF MigrationInv, HandOver, SourceGuest, srcVars, dstVars,
        hostVars, hookVars, TypeOK, HostTypeOK, SrcTypeOK, SrcFlagsOK, DstTypeOK,
        BeforeQemu, AfterArrival, BeforeLaunch, QemuGone
<1>1. ASSUME MainStep, UNCHANGED <<dstVars, shutdown>> PROVE HandOver'
  BY <1>1 DEF MainStep, MainStarts, FlashReady, MainLeaves, LaunchGroup,
         GroupWait, QuitSource, TestRemote, TestFails, RemoveSource,
         RemoveFails, CancelJobs, MigrateCancel, NotifyDestination
<1>2. ASSUME \E p \in Procs : ProcStep(p), UNCHANGED <<dstVars, shutdown>> PROVE HandOver'
  BY <1>2 DEF ProcStep, DriveMirror, JobComplete, AllStarted, AllReady,
         SyncFails, StateMigrated, WaitFails, AllCompleting, Drained, ProcSets
<1>3. ASSUME MoverStep, UNCHANGED <<dstVars, shutdown>> PROVE HandOver'
  BY <1>3 DEF MoverStep, DisksAwaited, Migrate, QueryMigrate, MoverCloses,
         MoverReturns, MoverSets
<1>4. ASSUME SourceWaits, UNCHANGED <<dstVars, shutdown>> PROVE HandOver'
  BY <1>4 DEF SourceWaits, BeforeStart, RequestFails, NoRunningEvent, ProcSets
<1>5. ASSUME IncomingStep PROVE HandOver'
  BY <1>5 DEF IncomingStep, IncomingTaskStep, Refuse, Accept, CreateLocalDisk,
         ValidateDisks, DisksCreated, StartIncomingMachine, StartNBDServer,
         QueryStatus, WaitConnections, StopNBDServer, LastChance, TurnedOff,
         CleanUp, Resume, ConnMonitor, MonitoringFails, Goes, GiveUp
<1>6. ASSUME QemuStep PROVE HandOver'
  BY <1>6 DEF QemuStep, HostNext, JobBecomesReady, JobFails, JobPivots,
         StateCompletes, StateArrives, StateFails
<1>7. ASSUME ShutdownStep PROVE HandOver'
  BY <1>7 DEF ShutdownStep, ShutdownBegins, ShutdownResumes, ShutdownEnds
<1>8. ASSUME Disturbance PROVE HandOver'
  BY <1>8 DEF Disturbance, CancelTask, SourceCrashes, DestinationCrashes
<1>9. ASSUME UNCHANGED vars PROVE HandOver'
  BY <1>9 DEF vars
<1> QED
  BY <1>1, <1>2, <1>3, <1>4, <1>5, <1>6, <1>7, <1>8, <1>9 DEF Next, SourceStep

\* Every step keeps what is known of the guest on the source.
LEMMA SourceGuestStep ==
    TypeOK /\ MigrationInv /\ [Next]_vars => SourceGuest'
<1> SUFFICES ASSUME TypeOK, MigrationInv, [Next]_vars PROVE SourceGuest'
  OBVIOUS
<1> USE DEF MigrationInv, SourceGuest, SuccessIsHandOver, HandOver, srcVars, dstVars,
        hostVars, hookVars, TypeOK, HostTypeOK, SrcTypeOK, SrcFlagsOK, DstTypeOK, QemuGone
<1>1. ASSUME MainStep, UNCHANGED <<dstVars, shutdown>> PROVE SourceGuest'
  BY <1>1 DEF MainStep, MainStarts, FlashReady, MainLeaves, LaunchGroup,
         GroupWait, QuitSource, TestRemote, TestFails, RemoveSource,
         RemoveFails, CancelJobs, MigrateCancel, NotifyDestination
<1>2. ASSUME \E p \in Procs : ProcStep(p), UNCHANGED <<dstVars, shutdown>> PROVE SourceGuest'
  BY <1>2 DEF ProcStep, DriveMirror, JobComplete, AllStarted, AllReady,
         SyncFails, StateMigrated, WaitFails, AllCompleting, Drained, ProcSets
<1>3. ASSUME MoverStep, UNCHANGED <<dstVars, shutdown>> PROVE SourceGuest'
  BY <1>3 DEF MoverStep, DisksAwaited, Migrate, QueryMigrate, MoverCloses,
         MoverReturns, MoverSets
<1>4. ASSUME SourceWaits, UNCHANGED <<dstVars, shutdown>> PROVE SourceGuest'
  BY <1>4 DEF SourceWaits, BeforeStart, RequestFails, NoRunningEvent, ProcSets
<1>5. ASSUME IncomingStep PROVE SourceGuest'
  BY <1>5 DEF IncomingStep, IncomingTaskStep, Refuse, Accept, CreateLocalDisk,
         ValidateDisks, DisksCreated, StartIncomingMachine, StartNBDServer,
         QueryStatus, WaitConnections, StopNBDServer, LastChance, TurnedOff,
         CleanUp, Resume, ConnMonitor, MonitoringFails, Goes, GiveUp
<1>6. ASSUME QemuStep PROVE SourceGuest'
  BY <1>6 DEF QemuStep, HostNext, JobBecomesReady, JobFails, JobPivots,
         StateCompletes, StateArrives, StateFails
<1>7. ASSUME ShutdownStep PROVE SourceGuest'
  BY <1>7 DEF ShutdownStep, ShutdownBegins, ShutdownResumes, ShutdownEnds
<1>8. ASSUME Disturbance PROVE SourceGuest'
  BY <1>8 DEF Disturbance, CancelTask, SourceCrashes, DestinationCrashes
<1>9. ASSUME UNCHANGED vars PROVE SourceGuest'
  BY <1>9 DEF vars
<1> QED
  BY <1>1, <1>2, <1>3, <1>4, <1>5, <1>6, <1>7, <1>8, <1>9 DEF Next, SourceStep

\* Only the goroutine that saw the transfer complete lets the task succeed.
LEMMA SuccessIsHandOverStep ==
    TypeOK /\ MigrationInv /\ [Next]_vars => SuccessIsHandOver'
<1> SUFFICES ASSUME TypeOK, MigrationInv, [Next]_vars PROVE SuccessIsHandOver'
  OBVIOUS
<1> USE DEF MigrationInv, SuccessIsHandOver, HandOver, srcVars, dstVars,
        hostVars, hookVars, TypeOK, HostTypeOK, SrcTypeOK, SrcFlagsOK, DstTypeOK
<1>1. ASSUME MainStep, UNCHANGED <<dstVars, shutdown>> PROVE SuccessIsHandOver'
  BY <1>1 DEF MainStep, MainStarts, FlashReady, MainLeaves, LaunchGroup,
         GroupWait, QuitSource, TestRemote, TestFails, RemoveSource,
         RemoveFails, CancelJobs, MigrateCancel, NotifyDestination
<1>2. ASSUME \E p \in Procs : ProcStep(p), UNCHANGED <<dstVars, shutdown>> PROVE SuccessIsHandOver'
  BY <1>2 DEF ProcStep, DriveMirror, JobComplete, AllStarted, AllReady,
         SyncFails, StateMigrated, WaitFails, AllCompleting, Drained, ProcSets
<1>3. ASSUME MoverStep, UNCHANGED <<dstVars, shutdown>> PROVE SuccessIsHandOver'
  <2>1. CASE DisksAwaited
    BY <2>1 DEF DisksAwaited, MoverSets
  <2>2. CASE Migrate
    BY <2>2 DEF Migrate, MoverSets
  <2>3. CASE QueryMigrate
    BY <2>3 DEF QueryMigrate, MoverSets
  <2>4. CASE MoverCloses
    BY <2>4 DEF MoverCloses, MoverSets
  <2>5. CASE MoverReturns
    BY <2>5 DEF MoverReturns, MoverSets
  <2> QED
    BY <1>3, <2>1, <2>2, <2>3, <2>4, <2>5 DEF MoverStep
<1>4. ASSUME SourceWaits, UNCHANGED <<dstVars, shutdown>> PROVE SuccessIsHandOver'
  BY <1>4 DEF SourceWaits, BeforeStart, RequestFails, NoRunningEvent, ProcSets
<1>5. ASSUME IncomingStep PROVE SuccessIsHandOver'
  BY <1>5 DEF IncomingStep, IncomingTaskStep, Refuse, Accept, CreateLocalDisk,
         ValidateDisks, DisksCreated, StartIncomingMachine, StartNBDServer,
         QueryStatus, WaitConnections, StopNBDServer, LastChance, TurnedOff,
         CleanUp, Resume, ConnMonitor, MonitoringFails, Goes, GiveUp
<1>6. ASSUME QemuStep PROVE SuccessIsHandOver'
  BY <1>6 DEF QemuStep, HostNext, JobBecomesReady, JobFails, JobPivots,
         StateCompletes, StateArrives, StateFails
<1>7. ASSUME ShutdownStep PROVE SuccessIsHandOver'
  BY <1>7 DEF ShutdownStep, ShutdownBegins, ShutdownResumes, ShutdownEnds
<1>8. ASSUME Disturbance PROVE SuccessIsHandOver'
  BY <1>8 DEF Disturbance, CancelTask, SourceCrashes, DestinationCrashes
<1>9. ASSUME UNCHANGED vars PROVE SuccessIsHandOver'
  BY <1>9 DEF vars
<1> QED
  BY <1>1, <1>2, <1>3, <1>4, <1>5, <1>6, <1>7, <1>8, <1>9 DEF Next, SourceStep

\* Nothing of the source is removed before the tests are through.
LEMMA RemovalIsLastStep ==
    TypeOK /\ MigrationInv /\ [Next]_vars => RemovalIsLast'
<1> SUFFICES ASSUME TypeOK, MigrationInv, [Next]_vars PROVE RemovalIsLast'
  OBVIOUS
<1> USE DEF MigrationInv, RemovalIsLast, SuccessIsHandOver, HandOver, srcVars, dstVars,
        hostVars, hookVars, TypeOK, HostTypeOK, SrcTypeOK, SrcFlagsOK, DstTypeOK, Tests
<1>1. ASSUME MainStep, UNCHANGED <<dstVars, shutdown>> PROVE RemovalIsLast'
  BY <1>1 DEF MainStep, MainStarts, FlashReady, MainLeaves, LaunchGroup,
         GroupWait, QuitSource, TestRemote, RemoteLooksFine, TestFails, RemoveSource,
         RemoveFails, CancelJobs, MigrateCancel, NotifyDestination
<1>2. ASSUME \E p \in Procs : ProcStep(p), UNCHANGED <<dstVars, shutdown>> PROVE RemovalIsLast'
  BY <1>2 DEF ProcStep, DriveMirror, JobComplete, AllStarted, AllReady,
         SyncFails, StateMigrated, WaitFails, AllCompleting, Drained, ProcSets
<1>3. ASSUME MoverStep, UNCHANGED <<dstVars, shutdown>> PROVE RemovalIsLast'
  BY <1>3 DEF MoverStep, DisksAwaited, Migrate, QueryMigrate, MoverCloses,
         MoverReturns, MoverSets
<1>4. ASSUME SourceWaits, UNCHANGED <<dstVars, shutdown>> PROVE RemovalIsLast'
  BY <1>4 DEF SourceWaits, BeforeStart, RequestFails, NoRunningEvent, ProcSets
<1>5. ASSUME IncomingStep PROVE RemovalIsLast'
  BY <1>5 DEF IncomingStep, IncomingTaskStep, Refuse, Accept, CreateLocalDisk,
         ValidateDisks, DisksCreated, StartIncomingMachine, StartNBDServer,
         QueryStatus, WaitConnections, StopNBDServer, LastChance, TurnedOff,
         CleanUp, Resume, ConnMonitor, MonitoringFails, Goes, GiveUp
<1>6. ASSUME QemuStep PROVE RemovalIsLast'
  BY <1>6 DEF QemuStep, HostNext, JobBecomesReady, JobFails, JobPivots,
         StateCompletes, StateArrives, StateFails
<1>7. ASSUME ShutdownStep PROVE RemovalIsLast'
  BY <1>7 DEF ShutdownStep, ShutdownBegins, ShutdownResumes, ShutdownEnds
<1>8. ASSUME Disturbance PROVE RemovalIsLast'
  BY <1>8 DEF Disturbance, CancelTask, SourceCrashes, DestinationCrashes
<1>9. ASSUME UNCHANGED vars PROVE RemovalIsLast'
  BY <1>9 DEF vars
<1> QED
  BY <1>1, <1>2, <1>3, <1>4, <1>5, <1>6, <1>7, <1>8, <1>9 DEF Next, SourceStep

\* No channel is closed before what it announces.
LEMMA ChannelsTellTheTruthStep ==
    TypeOK /\ MigrationInv /\ [Next]_vars => ChannelsTellTheTruth'
<1> SUFFICES ASSUME TypeOK, MigrationInv, [Next]_vars PROVE ChannelsTellTheTruth'
  OBVIOUS
<1> USE DEF MigrationInv, ChannelsTellTheTruth, RemovalIsLast, SuccessIsHandOver, HandOver, srcVars, dstVars,
        hostVars, hookVars, TypeOK, HostTypeOK, SrcTypeOK, SrcFlagsOK, DstTypeOK, BeforeLaunch, ImagesOf, ReadyChan, Flash, Images, Procs
<1>1. ASSUME MainStep, UNCHANGED <<dstVars, shutdown>> PROVE ChannelsTellTheTruth'
  BY <1>1 DEF MainStep, MainStarts, FlashReady, MainLeaves, LaunchGroup,
         GroupWait, QuitSource, TestRemote, TestFails, RemoveSource,
         RemoveFails, CancelJobs, MigrateCancel, NotifyDestination
<1>2. ASSUME NEW p \in Procs, ProcStep(p), UNCHANGED <<dstVars, shutdown>>
      PROVE  ChannelsTellTheTruth'
  <2>1. CASE AllReady(p)
    <3>1. /\ ImagesOf(p) \subseteq synced /\ closed' = closed \cup {ReadyChan[p]}
          /\ UNCHANGED <<main, mover, synced, state>>
      BY <2>1 DEF AllReady
    <3>2. CASE p = "fwflash"
      <4>1. closed' = closed \cup {"firmwareFlashReady"} /\ Flash \subseteq synced
        BY <3>1, <3>2
      <4> QED
        BY <3>1, <4>1
    <3>3. CASE p = "disks"
      <4>1. closed' = closed \cup {"allDisksReady"} /\ Disks \subseteq synced
        BY <3>1, <3>3
      <4> QED
        BY <3>1, <4>1
    <3> QED
      BY <3>2, <3>3
  <2>2. CASE ~AllReady(p)
    <3>1. UNCHANGED <<main, mover, closed, synced, state>>
      BY <1>2, <2>2 DEF ProcStep, DriveMirror, JobComplete, AllStarted, SyncFails,
                        StateMigrated, WaitFails, AllCompleting, Drained
    <3> QED
      BY <3>1
  <2> QED
    BY <2>1, <2>2
<1>3. ASSUME MoverStep, UNCHANGED <<dstVars, shutdown>> PROVE ChannelsTellTheTruth'
  BY <1>3 DEF MoverStep, DisksAwaited, Migrate, QueryMigrate, MoverCloses,
         MoverReturns, MoverSets
<1>4. ASSUME SourceWaits, UNCHANGED <<dstVars, shutdown>> PROVE ChannelsTellTheTruth'
  BY <1>4 DEF SourceWaits, BeforeStart, RequestFails, NoRunningEvent, ProcSets
<1>5. ASSUME IncomingStep PROVE ChannelsTellTheTruth'
  BY <1>5 DEF IncomingStep, IncomingTaskStep, Refuse, Accept, CreateLocalDisk,
         ValidateDisks, DisksCreated, StartIncomingMachine, StartNBDServer,
         QueryStatus, WaitConnections, StopNBDServer, LastChance, TurnedOff,
         CleanUp, Resume, ConnMonitor, MonitoringFails, Goes, GiveUp
<1>6. ASSUME QemuStep PROVE ChannelsTellTheTruth'
  BY <1>6 DEF QemuStep, HostNext, JobBecomesReady, JobFails, JobPivots,
         StateCompletes, StateArrives, StateFails
<1>7. ASSUME ShutdownStep PROVE ChannelsTellTheTruth'
  BY <1>7 DEF ShutdownStep, ShutdownBegins, ShutdownResumes, ShutdownEnds
<1>8. ASSUME Disturbance PROVE ChannelsTellTheTruth'
  BY <1>8 DEF Disturbance, CancelTask, SourceCrashes, DestinationCrashes
<1>9. ASSUME UNCHANGED vars PROVE ChannelsTellTheTruth'
  BY <1>9 DEF vars
<1> QED
  BY <1>1, <1>2, <1>3, <1>4, <1>5, <1>6, <1>7, <1>8, <1>9 DEF Next, SourceStep

\* The end of some jobs breaks the mirrors that were ready, before the hand-over.
LEMMA JobsEndBreaks ==
    ASSUME TypeOK, BreaksAreSeen, NEW ended \in SUBSET Images, JobsEnd(ended),
           UNCHANGED <<synced, handed>>
    PROVE  BreaksAreSeen'
<1>1. \A i \in Images \ ended : job'[i] = job[i]
  BY DEF JobsEnd
<1>2. CASE handed
  BY <1>2 DEF JobsEnd, BreaksAreSeen
<1>3. CASE ~handed
  <2>1. broken' = broken \cup (ended \cap synced)
    BY <1>3 DEF JobsEnd
  <2> QED
    BY <1>1, <1>3, <2>1 DEF BreaksAreSeen, Mirrored, TypeOK, HostTypeOK
<1> QED
  BY <1>2, <1>3

\* No mirror leaves the ready state unrecorded before the hand-over.
LEMMA BreaksAreSeenStep ==
    TypeOK /\ MigrationInv /\ [Next]_vars => BreaksAreSeen'
<1> SUFFICES ASSUME TypeOK, BreaksAreSeen, MigrationInv, [Next]_vars PROVE BreaksAreSeen'
  BY DEF MigrationInv
<1> DEFINE Same == UNCHANGED <<job, synced, broken, handed>>
<1>0. Same => BreaksAreSeen'
  BY DEF BreaksAreSeen, Mirrored
<1> USE DEF srcVars, dstVars, hostVars, hookVars
<1>1. ASSUME MainStep PROVE BreaksAreSeen'
  <2>1. CASE QuitSource \/ RemoveSource \/ CancelJobs
    BY <1>0, <2>1, JobsEndBreaks DEF QuitSource, RemoveSource, CancelJobs, Images
  <2>2. CASE ~(QuitSource \/ RemoveSource \/ CancelJobs)
    BY <1>0, <1>1, <2>2 DEF MainStep, MainStarts, FlashReady, MainLeaves, LaunchGroup,
           GroupWait, TestRemote, TestFails, RemoveFails, MigrateCancel, NotifyDestination
  <2> QED
    BY <2>1, <2>2
<1>2. ASSUME NEW p \in Procs, ProcStep(p) PROVE BreaksAreSeen'
  <2>1. ASSUME NEW i \in Images, DriveMirror(p, i) PROVE BreaksAreSeen'
    <3>1. CASE job' = job
      BY <1>0, <2>1, <3>1 DEF DriveMirror
    <3>2. CASE job' = [job EXCEPT ![i] = "running"] /\ job[i] = "none"
      BY <2>1, <3>2 DEF DriveMirror, BreaksAreSeen, Mirrored, TypeOK, HostTypeOK
    <3> QED
      BY <2>1, <3>1, <3>2 DEF DriveMirror
  <2>2. ASSUME NEW i \in Images, JobComplete(p, i) PROVE BreaksAreSeen'
    BY <2>2 DEF JobComplete, BreaksAreSeen, Mirrored, TypeOK, HostTypeOK
  <2>3. CASE ~ \E i \in Images : DriveMirror(p, i) \/ JobComplete(p, i)
    BY <1>0, <1>2, <2>3 DEF ProcStep, AllStarted, AllReady, SyncFails, StateMigrated,
           WaitFails, AllCompleting, Drained
  <2> QED
    BY <2>1, <2>2, <2>3
<1>3. ASSUME MoverStep PROVE BreaksAreSeen'
  BY <1>0, <1>3 DEF MoverStep, DisksAwaited, Migrate, QueryMigrate, MoverCloses, MoverReturns
<1>4. ASSUME SourceWaits PROVE BreaksAreSeen'
  BY <1>0, <1>4 DEF SourceWaits, BeforeStart, RequestFails, NoRunningEvent
<1>5. ASSUME IncomingStep PROVE BreaksAreSeen'
  BY <1>0, <1>5 DEF IncomingStep, IncomingTaskStep, Refuse, Accept, CreateLocalDisk,
         ValidateDisks, DisksCreated, StartIncomingMachine, StartNBDServer,
         QueryStatus, WaitConnections, StopNBDServer, LastChance, TurnedOff,
         CleanUp, Resume, ConnMonitor, MonitoringFails, Goes, GiveUp
<1>6. ASSUME QemuStep PROVE BreaksAreSeen'
  <2>1. ASSUME NEW i \in Images, JobBecomesReady(i) PROVE BreaksAreSeen'
    BY <2>1 DEF JobBecomesReady, BreaksAreSeen, Mirrored, TypeOK, HostTypeOK
  <2>2. ASSUME NEW i \in Images, JobFails(i) PROVE BreaksAreSeen'
    BY <2>2 DEF JobFails, BreaksAreSeen, Mirrored, TypeOK, HostTypeOK
  <2>3. ASSUME NEW i \in Images, JobPivots(i) PROVE BreaksAreSeen'
    BY <2>3 DEF JobPivots, BreaksAreSeen, Mirrored, TypeOK, HostTypeOK
  <2>4. CASE StateCompletes
    BY <2>4 DEF StateCompletes, BreaksAreSeen
  <2>5. CASE StateArrives \/ StateFails
    BY <1>0, <2>5 DEF StateArrives, StateFails
  <2> QED
    BY <1>6, <2>1, <2>2, <2>3, <2>4, <2>5 DEF QemuStep, HostNext
<1>7. ASSUME ShutdownStep PROVE BreaksAreSeen'
  <2>1. CASE ShutdownEnds
    BY <2>1, JobsEndBreaks DEF ShutdownEnds
  <2>2. CASE ShutdownBegins \/ ShutdownResumes
    BY <1>0, <2>2 DEF ShutdownBegins, ShutdownResumes
  <2> QED
    BY <1>7, <2>1, <2>2 DEF ShutdownStep
<1>8. ASSUME Disturbance PROVE BreaksAreSeen'
  BY <1>0, <1>8 DEF Disturbance, CancelTask, SourceCrashes, DestinationCrashes
<1>9. ASSUME UNCHANGED vars PROVE BreaksAreSeen'
  BY <1>0, <1>9 DEF vars
<1> QED
  BY <1>1, <1>2, <1>3, <1>4, <1>5, <1>6, <1>7, <1>8, <1>9 DEF Next, SourceStep

\* Every volume of the destination is found or created.
LEMMA VolumesAccountedStep ==
    TypeOK /\ MigrationInv /\ [Next]_vars => VolumesAccounted'
<1> SUFFICES ASSUME TypeOK, MigrationInv, [Next]_vars PROVE VolumesAccounted'
  OBVIOUS
<1> USE DEF MigrationInv, VolumesAccounted, HandOver, srcVars, dstVars,
        hostVars, hookVars, TypeOK, HostTypeOK, SrcTypeOK, SrcFlagsOK, DstTypeOK, BeforeQemu
<1>1. ASSUME MainStep, UNCHANGED <<dstVars, shutdown>> PROVE VolumesAccounted'
  BY <1>1 DEF MainStep, MainStarts, FlashReady, MainLeaves, LaunchGroup,
         GroupWait, QuitSource, TestRemote, TestFails, RemoveSource,
         RemoveFails, CancelJobs, MigrateCancel, NotifyDestination
<1>2. ASSUME \E p \in Procs : ProcStep(p), UNCHANGED <<dstVars, shutdown>> PROVE VolumesAccounted'
  BY <1>2 DEF ProcStep, DriveMirror, JobComplete, AllStarted, AllReady,
         SyncFails, StateMigrated, WaitFails, AllCompleting, Drained, ProcSets
<1>3. ASSUME MoverStep, UNCHANGED <<dstVars, shutdown>> PROVE VolumesAccounted'
  BY <1>3 DEF MoverStep, DisksAwaited, Migrate, QueryMigrate, MoverCloses,
         MoverReturns, MoverSets
<1>4. ASSUME SourceWaits, UNCHANGED <<dstVars, shutdown>> PROVE VolumesAccounted'
  BY <1>4 DEF SourceWaits, BeforeStart, RequestFails, NoRunningEvent, ProcSets
<1>5. ASSUME IncomingStep PROVE VolumesAccounted'
  BY <1>5 DEF IncomingStep, IncomingTaskStep, Refuse, Accept, CreateLocalDisk,
         ValidateDisks, DisksCreated, StartIncomingMachine, StartNBDServer,
         QueryStatus, WaitConnections, StopNBDServer, LastChance, TurnedOff,
         CleanUp, Resume, ConnMonitor, MonitoringFails, Goes, GiveUp
<1>6. ASSUME QemuStep PROVE VolumesAccounted'
  BY <1>6 DEF QemuStep, HostNext, JobBecomesReady, JobFails, JobPivots,
         StateCompletes, StateArrives, StateFails
<1>7. ASSUME ShutdownStep PROVE VolumesAccounted'
  BY <1>7 DEF ShutdownStep, ShutdownBegins, ShutdownResumes, ShutdownEnds
<1>8. ASSUME Disturbance PROVE VolumesAccounted'
  BY <1>8 DEF Disturbance, CancelTask, SourceCrashes, DestinationCrashes
<1>9. ASSUME UNCHANGED vars PROVE VolumesAccounted'
  BY <1>9 DEF vars
<1> QED
  BY <1>1, <1>2, <1>3, <1>4, <1>5, <1>6, <1>7, <1>8, <1>9 DEF Next, SourceStep

-----------------------------------------------------------------------------
\* The invariant holds at the start.
LEMMA MigrationInvInit == Init => MigrationInv
  BY DEF Init, HostInit, SrcInit, DstInit, MigrationInv, HandOver, SourceGuest,
         SuccessIsHandOver, RemovalIsLast, ChannelsTellTheTruth, BreaksAreSeen, VolumesAccounted,
         BeforeQemu, AfterArrival, BeforeLaunch, Tests

\* Types and invariant hold in every state.
LEMMA MigrationInvariant == Spec => [](TypeOK /\ MigrationInv)
<1>1. TypeOK /\ MigrationInv /\ [Next]_vars => TypeOK' /\ MigrationInv'
  <2>1. MigrationInv => RemovalIsLast /\ SourceGuest
    BY DEF MigrationInv
  <2> QED
    BY <2>1, MigrationTypesStep, HandOverStep, SourceGuestStep, SuccessIsHandOverStep,
       RemovalIsLastStep, ChannelsTellTheTruthStep, BreaksAreSeenStep, VolumesAccountedStep
       DEF MigrationInv
<1> QED
  BY <1>1, MigrationTypesInit, MigrationInvInit, PTL DEF Spec

\* The guest never executes on both hosts, unless the source is being shut down:
\* whatever fails, is cancelled or crashes, in any order.
THEOREM GuestIsOnOneHost == Spec => []OneHostExecutes
<1>1. TypeOK /\ MigrationInv => OneHostExecutes
  BY DEF TypeOK, MigrationInv, HandOver, SourceGuest, OneHostExecutes, Executing
<1> QED
  BY <1>1, MigrationInvariant, PTL

\* The guest does not get lost on the source: until its state has been sent, it is there.
THEOREM GuestIsNotLost == Spec => []GuestStaysUntilHandedOver
<1>1. MigrationInv => GuestStaysUntilHandedOver
  BY DEF MigrationInv, SourceGuest, GuestStaysUntilHandedOver
<1> QED
  BY <1>1, MigrationInvariant, PTL

\* The guest leaves the source only when each image is in sync with its copy at that
\* moment, or was in sync and its mirror broke since: the channels close in time, also
\* when Main leaves early.
THEOREM ImagesAreInSync == Spec => InSyncUnlessBroken
<1>1. ASSUME TypeOK, MigrationInv, [Next]_vars, ~handed, handed'
      PROVE  Images \subseteq Mirrored \cup broken
  <2>1. CASE StateCompletes
    BY <1>1, <2>1 DEF StateCompletes, MigrationInv, ChannelsTellTheTruth, BreaksAreSeen
  <2>2. CASE ~StateCompletes
    <3> USE DEF srcVars, dstVars, hostVars, hookVars
    <3>1. handed' = handed
      BY <1>1, <2>2
         DEF Next, SourceStep, MainStep, MainStarts, FlashReady, MainLeaves, LaunchGroup,
             GroupWait, QuitSource, TestRemote, TestFails, RemoveSource, RemoveFails,
             CancelJobs, MigrateCancel, NotifyDestination, ProcStep, DriveMirror, JobComplete,
             AllStarted, AllReady, SyncFails, StateMigrated, WaitFails, AllCompleting, Drained,
             MoverStep, DisksAwaited, Migrate, QueryMigrate, MoverCloses, MoverReturns,
             SourceWaits, BeforeStart, RequestFails, NoRunningEvent, IncomingStep,
             IncomingTaskStep, Refuse, Accept, CreateLocalDisk, ValidateDisks, DisksCreated,
             StartIncomingMachine, StartNBDServer, QueryStatus, WaitConnections, StopNBDServer,
             LastChance, TurnedOff, CleanUp, Resume, ConnMonitor, MonitoringFails, Goes, GiveUp,
             QemuStep, HostNext, JobBecomesReady, JobFails, JobPivots, StateArrives, StateFails,
             ShutdownStep, ShutdownBegins, ShutdownResumes, ShutdownEnds, Disturbance,
             CancelTask, SourceCrashes, DestinationCrashes, vars
    <3> QED
      BY <1>1, <3>1
  <2> QED
    BY <2>1, <2>2
<1>2. TypeOK /\ MigrationInv /\ [Next]_vars
        => [~handed /\ handed' => Images \subseteq Mirrored \cup broken]_vars
  BY <1>1
<1> QED
  BY <1>2, MigrationInvariant, PTL DEF Spec, InSyncUnlessBroken

\* The source quits only after the state was sent, and is removed only after the guest
\* was loaded and seen alive at the destination.
THEOREM SourceIsGivenUpLast == Spec => []SourceEndsOnlyIfTakenOver
<1>1. MigrationInv => SourceEndsOnlyIfTakenOver
  BY DEF MigrationInv, SuccessIsHandOver, RemovalIsLast, SourceEndsOnlyIfTakenOver,
         DownOnlyIfHandedOver, RemovedOnlyIfTakenOver, Tests
<1> QED
  BY <1>1, MigrationInvariant, PTL

\* A failed incoming migration leaves no process, no configuration, and exactly the
\* volumes that were there before.
THEOREM FailureIsCleanedUp == Spec => []FailureLeavesNothing
<1>1. MigrationInv => FailureLeavesNothing
  BY DEF MigrationInv, VolumesAccounted, FailureLeavesNothing
<1> QED
  BY <1>1, MigrationInvariant, PTL

-----------------------------------------------------------------------------
(* The refinement. *)

\* What Handover sees of a migration.
GuestVars == <<Owner, synced \ broken, broken, SourceMachine>>

\* The end of some jobs loses the copies that were in sync, if the guest is here.
LEMMA JobsEndLoses ==
    ASSUME BreaksAreSeen, TypeOK, NEW ended \in SUBSET Images,
           broken' = IF handed THEN broken ELSE broken \cup (ended \cap synced),
           UNCHANGED <<synced, handed, srcConf, downFile>>
    PROVE  Guest!Next \/ UNCHANGED GuestVars
<1>1. CASE handed
  BY <1>1 DEF GuestVars, Owner, SourceMachine
<1>2. CASE ~handed
  <2> DEFINE images == (ended \cap synced) \ broken
  <2>1. images \in SUBSET Images /\ images \subseteq synced \ broken
    OBVIOUS
  <2>2. synced' \ broken' = (synced \ broken) \ images /\ broken' = broken \cup images
    BY <1>2
  <2>3. Owner = "source" /\ UNCHANGED <<Owner, SourceMachine>>
    BY <1>2 DEF Owner, SourceMachine
  <2>4. Guest!Lose(images)
    BY <2>1, <2>2, <2>3 DEF Guest!Lose
  <2> QED
    BY <2>1, <2>4 DEF Guest!Next
<1> QED
  BY <1>1, <1>2

\* The steps of Main: those of OnSuccess let the source go, the cancel of the jobs
\* breaks mirrors, the others leave everything alone.
LEMMA SourceKeepsGuest ==
    ASSUME TypeOK, MigrationInv, MainStep, UNCHANGED <<dstVars, shutdown>>
    PROVE  Guest!Next \/ UNCHANGED GuestVars
<1> USE DEF hostVars, hookVars
<1>1. CASE QuitSource
  <2>1. handed /\ srcConf /\ ~downFile
    BY <1>1 DEF QuitSource, MigrationInv, SuccessIsHandOver, RemovalIsLast
  <2>2. /\ handed' = handed /\ synced' = synced /\ srcConf' = srcConf /\ downFile'
        /\ broken' = broken
    BY <1>1, <2>1 DEF QuitSource, JobsEnd
  <2> QED
    BY <2>1, <2>2 DEF Guest!Next, Guest!ShutDown, Owner, SourceMachine
<1>2. CASE RemoveSource
  <2>1. handed /\ srcConf /\ downFile
    BY <1>2 DEF RemoveSource, MigrationInv, SuccessIsHandOver, RemovalIsLast
  <2>2. /\ handed' = handed /\ synced' = synced /\ ~srcConf' /\ downFile' = downFile
        /\ broken' = broken
    BY <1>2, <2>1 DEF RemoveSource, JobsEnd
  <2> QED
    BY <2>1, <2>2 DEF Guest!Next, Guest!Remove, Owner, SourceMachine
<1>3. CASE CancelJobs
  BY <1>3, JobsEndLoses DEF CancelJobs, JobsEnd, MigrationInv, Images
<1>4. CASE ~QuitSource /\ ~RemoveSource /\ ~CancelJobs
  BY <1>4 DEF MainStep, MainStarts, FlashReady, MainLeaves, LaunchGroup, GroupWait, TestRemote,
         TestFails, RemoveFails, MigrateCancel, NotifyDestination, GuestVars, Owner, SourceMachine
<1> QED
  BY <1>1, <1>2, <1>3, <1>4

\* The steps of the two QEMU processes: a mirror that becomes ready is a copy, one that
\* fails loses it, and the end of the transfer, begun when all of them had been ready,
\* changes hands.
LEMMA QemuMovesGuest ==
    ASSUME TypeOK, MigrationInv, QemuStep
    PROVE  Guest!Next \/ UNCHANGED GuestVars
<1> USE DEF srcVars
<1>1. downFile' = downFile /\ srcConf' = srcConf
  BY DEF QemuStep
<1>2. ASSUME NEW i \in Images, JobBecomesReady(i) PROVE Guest!Next \/ UNCHANGED GuestVars
  <2>1. /\ synced' = synced \cup {i} /\ broken' = broken
        /\ Owner' = Owner /\ SourceMachine' = SourceMachine
    BY <1>1, <1>2 DEF JobBecomesReady, Owner, SourceMachine
  <2>2. CASE i \in broken
    BY <2>1, <2>2 DEF GuestVars
  <2>3. CASE i \notin broken
    BY <2>1, <2>3 DEF Guest!Next, Guest!Copy
  <2> QED
    BY <2>2, <2>3
<1>3. CASE StateCompletes
  <2>1. ~handed /\ handed' /\ synced' = synced /\ broken' = broken
    BY <1>3 DEF StateCompletes, MigrationInv, HandOver
  <2>2. (synced \ broken) \cup broken = Images
    BY <1>3 DEF StateCompletes, MigrationInv, ChannelsTellTheTruth, BreaksAreSeen
  <2> QED
    BY <1>1, <2>1, <2>2 DEF Guest!Next, Guest!ChangeHands, Owner, SourceMachine
<1>4. ASSUME NEW i \in Images, JobFails(i) PROVE Guest!Next \/ UNCHANGED GuestVars
  <2>1. {i} \in SUBSET Images /\ UNCHANGED <<synced, handed, srcConf, downFile>>
    BY <1>1, <1>4 DEF JobFails
  <2> QED
    BY <1>4, <2>1, JobsEndLoses DEF JobFails, MigrationInv
<1>5. CASE StateFails \/ StateArrives \/ \E i \in Images : JobPivots(i)
  BY <1>1, <1>5 DEF StateFails, StateArrives, JobPivots, GuestVars, Owner, SourceMachine
<1> QED
  BY <1>2, <1>3, <1>4, <1>5 DEF QemuStep, HostNext

\* A migration implements Handover, for any images: the end of the transfer changes
\* hands, a mirror that is ready is a copy and one that ends early loses it, the two
\* ends of OnSuccess let the source go; nothing else touches them, whatever fails, is
\* cancelled or crashes.
THEOREM MigrationImplementsHandover == Spec => ImplementsHandover
<1>1. Init => Guest!Init
  BY DEF Init, HostInit, SrcInit, Guest!Init, Owner, SourceMachine
<1>2. TypeOK /\ MigrationInv /\ [Next]_vars => [Guest!Next]_GuestVars
  <2> SUFFICES ASSUME TypeOK, MigrationInv, [Next]_vars
               PROVE  Guest!Next \/ UNCHANGED GuestVars
    OBVIOUS
  <2> DEFINE Same == UNCHANGED <<handed, synced, broken, srcConf, downFile>>
  <2>1. Same => UNCHANGED GuestVars
    BY DEF GuestVars, Owner, SourceMachine
  <2> USE DEF srcVars, dstVars, hostVars, hookVars
  <2>2. ASSUME \E p \in Procs : ProcStep(p) PROVE Same
    BY <2>2 DEF ProcStep, DriveMirror, JobComplete, AllStarted, AllReady, SyncFails,
           StateMigrated, WaitFails, AllCompleting, Drained, ProcSets
  <2>3. ASSUME MoverStep PROVE Same
    BY <2>3 DEF MoverStep, DisksAwaited, Migrate, QueryMigrate, MoverCloses, MoverReturns,
           MoverSets
  <2>4. ASSUME SourceWaits PROVE Same
    BY <2>4 DEF SourceWaits, BeforeStart, RequestFails, NoRunningEvent, ProcSets
  <2>5. ASSUME IncomingStep PROVE Same
    BY <2>5 DEF IncomingStep, IncomingTaskStep, Refuse, Accept, CreateLocalDisk, ValidateDisks,
           DisksCreated, StartIncomingMachine, StartNBDServer, QueryStatus, WaitConnections,
           StopNBDServer, LastChance, TurnedOff, CleanUp, Resume, ConnMonitor, MonitoringFails,
           Goes, GiveUp
  <2>6. ASSUME ShutdownStep PROVE Guest!Next \/ UNCHANGED GuestVars
    <3>1. CASE ShutdownEnds
      <4>1. BreaksAreSeen
        BY DEF MigrationInv
      <4> QED
        BY <3>1, <4>1, JobsEndLoses DEF ShutdownEnds, JobsEnd
    <3>2. CASE ShutdownBegins \/ ShutdownResumes
      BY <2>1, <3>2 DEF ShutdownBegins, ShutdownResumes
    <3> QED
      BY <2>6, <3>1, <3>2 DEF ShutdownStep
  <2>7. ASSUME Disturbance PROVE Same
    BY <2>7 DEF Disturbance, CancelTask, SourceCrashes, DestinationCrashes
  <2>8. ASSUME UNCHANGED vars PROVE Same
    BY <2>8 DEF vars
  <2> QED
    BY <2>1, <2>2, <2>3, <2>4, <2>5, <2>6, <2>7, <2>8, SourceKeepsGuest, QemuMovesGuest
       DEF Next, SourceStep
<1> QED
  BY <1>1, <1>2, MigrationInvariant, PTL DEF Spec, ImplementsHandover, Guest!Spec, GuestVars

\* The state of the two tasks and of the two QEMU processes keeps its type, for any
\* disks and whatever disturbs the migration.
THEOREM MigrationTypes == Spec => []TypeOK
BY MigrationInvariant, PTL
=============================================================================
