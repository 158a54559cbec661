------------------------- MODULE IncomingMigration -------------------------
(***************************************************************************)
(* MachineIncomingMigrationTask, the task that receives a machine          *)
(* (server/system/incoming_migration.go).  Main looks at its QEMU once a   *)
(* second; a goroutine beside it looks for established connections every   *)
(* five seconds and cancels the task after ConnLimit looks in vain.        *)
(***************************************************************************)
EXTENDS MigrationHosts

CONSTANTS
    CreateDisks,    \* the volumes of the moving disks are to be created
    ConnLimit       \* looks in vain before the task is cancelled (12 in the code)

ASSUME IncomingAssumption == CreateDisks \in BOOLEAN /\ ConnLimit \in Nat \ {0}

VARIABLES
    dst,            \* where the task is
    volumes,        \* the volumes that exist on the destination
    createdDisks,   \* those the task has created
    failcnt,        \* looks in vain in a row
    found           \* history: the volumes that existed before the task

dstVars == <<dst, volumes, createdDisks, failcnt, found>>

DstTypeOK ==
    /\ dst \in {"none", "disks", "machine", "nbd", "polling", "conns", "query", "last",
                "success", "stopping", "failure", "done", "failed", "crashed"}
    /\ volumes      \subseteq Disks
    /\ createdDisks \subseteq Disks
    /\ failcnt      \in 0..ConnLimit
    /\ found        \subseteq Disks

DstInit ==
    /\ dst          = "none"
    /\ found        \in SUBSET Disks
    /\ volumes      = found
    /\ createdDisks = {}
    /\ failcnt      = 0

-----------------------------------------------------------------------------
(* BeforeStart.  Every error after the first check runs OnFailure. *)

\* A machine of this name must not exist yet.
Refuse ==
    /\ dst = "none" /\ request = "sent"
    /\ request' = "refused"
    /\ UNCHANGED <<dstVars, srcVM, state, job, synced, broken, dstVM, dstConf, stream,
                   handed, dstCancel>>

Accept ==
    /\ dst = "none" /\ request = "sent"
    /\ dst' = "disks"
    /\ UNCHANGED <<volumes, createdDisks, failcnt, found, hostVars>>

GiveUp == dst' = "failure" /\ UNCHANGED <<failcnt, found, hostVars>>

\* With a bug: a volume that exists is taken for one the task created.
CreateOrReuseDisk(d) ==
    /\ dst = "disks" /\ CreateDisks
    /\ d \notin createdDisks
    /\ volumes'      = volumes \cup {d}
    /\ createdDisks' = createdDisks \cup {d}
    /\ UNCHANGED <<dst, failcnt, found, hostVars>>

\* createLocalDisks: a volume that exists is an error, never reused.
CreateLocalDisk(d) ==
    /\ dst = "disks" /\ CreateDisks
    /\ d \notin createdDisks
    /\ \/ /\ d \notin volumes
          /\ volumes'      = volumes \cup {d}
          /\ createdDisks' = createdDisks \cup {d}
          /\ UNCHANGED <<dst, failcnt, found, hostVars>>
       \/ /\ GiveUp
          /\ UNCHANGED <<volumes, createdDisks>>

\* validateDisks: every volume must exist and be large enough.
ValidateDisks ==
    /\ dst = "disks" /\ ~CreateDisks
    /\ \/ /\ Disks \subseteq volumes
          /\ dst' = "machine"
          /\ UNCHANGED <<failcnt, found, hostVars>>
       \/ GiveUp
    /\ UNCHANGED <<volumes, createdDisks>>

DisksCreated ==
    /\ dst = "disks" /\ CreateDisks
    /\ Disks \subseteq createdDisks
    /\ dst' = "machine"
    /\ UNCHANGED <<volumes, createdDisks, failcnt, found, hostVars>>

\* startIncomingMachine writes the configuration, then starts and tests the
\* unit; it may fail after either.
StartIncomingMachine ==
    /\ dst = "machine"
    /\ dstConf' = TRUE
    /\ \/ dstVM' = "inmigrate" /\ dst' \in {"nbd", "failure"}
       \/ dstVM' = dstVM       /\ dst' = "failure"
    /\ UNCHANGED <<volumes, createdDisks, failcnt, found, srcVM, state, job, synced,
                   broken, stream, handed, request, dstCancel>>

\* startNBDServer; then the requisites are returned to the source.
StartNBDServer ==
    /\ dst = "nbd"
    /\ \/ /\ dst' = "polling"
          /\ request' = IF request = "sent" THEN "accepted" ELSE request
       \/ /\ dst' = "failure"
          /\ UNCHANGED request
    /\ UNCHANGED <<volumes, createdDisks, failcnt, found, srcVM, state, job, synced,
                   broken, dstVM, dstConf, stream, handed, dstCancel>>

-----------------------------------------------------------------------------
(* Main. *)

Goes(stage) == dst' = stage /\ UNCHANGED <<volumes, createdDisks, failcnt, found, hostVars>>

\* query-status: the transfer is over when the guest leaves inmigrate.  A cancel
\* ends the task, and so does the end of QEMU.
QueryStatus ==
    /\ dst = "polling"
    /\ \/ dstVM \notin {"inmigrate", "exited"} /\ Goes("conns")
       \/ (dstVM = "exited" \/ dstCancel)      /\ Goes("failure")

\* The task goes on when the last connection is closed.
WaitConnections ==
    /\ dst = "conns"
    /\ \/ ~Connected /\ Goes("query")
       \/ dstCancel  /\ Goes("failure")

\* An error of the monitor or of netstat ends the task as well.
MonitoringFails == dst \in {"polling", "conns"} /\ Goes("failure")

\* query-migrate, then nbd-server-stop; their errors are only logged.  (A status
\* other than "completed" would end Main without an error; QEMU has no other one
\* for a guest that has left inmigrate.)
StopNBDServer ==
    /\ dst = "query"
    /\ Goes("last")

\* "Last chance to be interrupted by the source host-server".
LastChance ==
    /\ dst = "last"
    /\ \/ Goes("success")
       \/ dstCancel /\ Goes("failure")

\* With a bug: the looks in vain are counted, and nothing is done about them.
ConnMonitorOnlyCounts ==
    /\ dst \in {"polling", "conns", "query", "last"}
    /\ ~dstCancel
    /\ failcnt < ConnLimit
    /\ ~Connected /\ dstVM = "inmigrate"
    /\ failcnt' = failcnt + 1
    /\ UNCHANGED <<dst, volumes, createdDisks, found, hostVars>>

\* monitorIncomingConnection.  Main moves on within seconds of the end of the
\* transfer, so looks in vain add up only while the guest is still expected.
ConnMonitor ==
    /\ dst \in {"polling", "conns", "query", "last"}
    /\ ~dstCancel
    /\ \/ /\ failcnt = ConnLimit
          /\ dstCancel' = TRUE
          /\ UNCHANGED failcnt
       \/ /\ failcnt < ConnLimit
          /\ ~Connected /\ dstVM = "inmigrate"
          /\ failcnt' = failcnt + 1
          /\ UNCHANGED dstCancel
       \/ /\ failcnt < ConnLimit
          /\ Connected /\ failcnt > 0
          /\ failcnt' = 0
          /\ UNCHANGED dstCancel
    /\ UNCHANGED <<dst, volumes, createdDisks, found, srcVM, state, job, synced, broken,
                   dstVM, dstConf, stream, handed, request>>

-----------------------------------------------------------------------------
(* OnSuccess and OnFailure. *)

\* The guest is resumed, or its shutdown begins if it was paused.
Resume(off) ==
    /\ dst = "success"
    /\ dst'   = IF off THEN "stopping" ELSE "done"
    /\ dstVM' = CASE dstVM = "exited" -> "exited"
                  [] off              -> "stopping"
                  [] OTHER            -> "running"
    /\ UNCHANGED <<volumes, createdDisks, failcnt, found, srcVM, state, job, synced,
                   broken, dstConf, stream, handed, request, dstCancel>>

TurnedOff ==
    /\ dst = "stopping"
    /\ dst'   = "done"
    /\ dstVM' = "exited"
    /\ UNCHANGED <<volumes, createdDisks, failcnt, found, srcVM, state, job, synced,
                   broken, dstConf, stream, handed, request, dstCancel>>

\* The unit is stopped and disabled, the configuration and the volumes that
\* this task created are removed.  (Errors of these commands are only logged;
\* they are taken to succeed.)
CleanUp ==
    /\ dst = "failure"
    /\ dst'          = "failed"
    /\ dstVM'        = IF dstVM = "none" THEN "none" ELSE "exited"
    /\ dstConf'      = FALSE
    /\ volumes'      = volumes \ createdDisks
    /\ createdDisks' = {}
    /\ request'      = IF request = "sent" THEN "refused" ELSE request
    /\ UNCHANGED <<failcnt, found, srcVM, state, job, synced, broken, stream, handed,
                   dstCancel>>

\* kvmrund of the destination dies with the task.
DestinationCrashes ==
    /\ dst \notin {"none", "done", "failed", "crashed"}
    /\ dst'     = "crashed"
    /\ request' = IF request = "sent" THEN "lost" ELSE request
    /\ UNCHANGED <<volumes, createdDisks, failcnt, found, srcVM, state, job, synced,
                   broken, dstVM, dstConf, stream, handed, dstCancel>>

-----------------------------------------------------------------------------
(* The steps of the task and of the goroutine beside it. *)

IncomingTaskStep ==
    \/ Refuse \/ Accept
    \/ \E d \in Disks : CreateLocalDisk(d)
    \/ ValidateDisks \/ DisksCreated \/ StartIncomingMachine \/ StartNBDServer
    \/ QueryStatus \/ WaitConnections \/ StopNBDServer \/ LastChance
    \/ TurnedOff \/ CleanUp
=============================================================================
