--------------------------- MODULE MigrationHosts ---------------------------
(***************************************************************************)
(* What the two parties of a live migration share: the QEMU process of the *)
(* source, the incoming QEMU process of the destination, the connections   *)
(* between them and the gRPC calls of the source.  QEMU is external code:  *)
(* it is modelled from the QMP commands and events that the code in        *)
(* server/machine/migration.go and server/system/incoming_migration.go     *)
(* uses.  The incoming QEMU is started without -S (kvmrun/cmdline_qemu_    *)
(* i440fx.go), so the guest resumes there as soon as its state is loaded.  *)
(***************************************************************************)
EXTENDS Naturals, FiniteSets

CONSTANTS
    Disks,       \* the disks to be moved with the machine
    HasFlash     \* whether the machine has a firmware flash image

ASSUME FlashAssumption == HasFlash \in BOOLEAN /\ "fwflash" \notin Disks

\* Everything that is mirrored: the firmware flash has a mirror job of its own.
Flash  == IF HasFlash THEN {"fwflash"} ELSE {}
Images == Disks \cup Flash

VARIABLES
    srcVM,       \* the guest on the source
    state,       \* the transfer of memory and device state (query-migrate)
    job,         \* the mirror job of each image (query-block-jobs)
    synced,      \* the images whose mirror has been ready once
    broken,      \* history: those whose ready mirror ended before the hand-over
    dstVM,       \* the guest on the destination
    dstConf,     \* the machine is configured on the destination
    stream,      \* what the source has sent of the guest's state
    handed,      \* history: the source has sent all of it and stopped the guest
    request,     \* the call StartIncomingMigration
    dstCancel    \* whether the incoming task's context is cancelled

hostVars == <<srcVM, state, job, synced, broken, dstVM, dstConf, stream, handed, request,
              dstCancel>>

GuestStates == {"none", "running", "paused", "inmigrate", "postmigrate", "stopping", "exited"}
JobStates   == {"none", "running", "ready", "completing", "pivoted", "aborted", "gone"}

HostTypeOK ==
    /\ srcVM     \in GuestStates
    /\ state     \in {"none", "active", "completed", "failed", "cancelled"}
    /\ job       \in [Images -> JobStates]
    /\ synced    \subseteq Images
    /\ broken    \subseteq Images
    /\ dstVM     \in GuestStates
    /\ dstConf   \in BOOLEAN
    /\ stream    \in {"none", "running", "paused", "loaded", "lost"}
    /\ handed    \in BOOLEAN
    /\ request   \in {"none", "sent", "accepted", "refused", "lost"}
    /\ dstCancel \in BOOLEAN

HostInit ==
    /\ srcVM     \in {"running", "paused"}
    /\ state     = "none"
    /\ job       = [i \in Images |-> "none"]
    /\ synced    = {}
    /\ broken    = {}
    /\ dstVM     = "none"
    /\ dstConf   = FALSE
    /\ stream    = "none"
    /\ handed    = FALSE
    /\ request   = "none"
    /\ dstCancel = FALSE

\* A job that query-block-jobs still lists.
Listed(i) == job[i] \in {"running", "ready", "completing"}

\* The established connections on the incoming and NBD ports of the
\* destination.  A pivoted image is written through its connection.
Connected ==
    /\ dstVM \notin {"none", "exited"}
    /\ \/ state = "active" \/ stream \in {"running", "paused"}
       \/ \E i \in Images : Listed(i) \/ job[i] = "pivoted"

\* The jobs of some images end, all of them when their QEMU does.  What the guest
\* writes on the source after that does not reach the image of the destination.
JobsEnd(ended) ==
    /\ job'    = [i \in Images |-> IF i \in ended /\ job[i] # "none" THEN "gone" ELSE job[i]]
    /\ broken' = IF handed THEN broken ELSE broken \cup (ended \cap synced)

-----------------------------------------------------------------------------
(* Steps of the two QEMU processes. *)

JobBecomesReady(i) ==
    /\ job[i] = "running"
    /\ dstVM \notin {"none", "exited"}
    /\ job'    = [job EXCEPT ![i] = "ready"]
    /\ synced' = synced \cup {i}
    /\ UNCHANGED <<srcVM, state, broken, dstVM, dstConf, stream, handed, request,
                   dstCancel>>

\* The mirror fails: an I/O error, or its target is gone.
JobFails(i) ==
    /\ Listed(i)
    /\ job'    = [job EXCEPT ![i] = IF @ = "completing" THEN "aborted" ELSE "gone"]
    /\ broken' = IF handed THEN broken ELSE broken \cup ({i} \cap synced)
    /\ UNCHANGED <<srcVM, state, synced, dstVM, dstConf, stream, handed, request,
                   dstCancel>>

\* block-job-complete took effect: the source now uses the remote image.
JobPivots(i) ==
    /\ job[i] = "completing"
    /\ dstVM \notin {"none", "exited"}
    /\ job' = [job EXCEPT ![i] = "pivoted"]
    /\ UNCHANGED <<srcVM, state, synced, broken, dstVM, dstConf, stream, handed, request,
                   dstCancel>>

\* The guest stops on the source and the last of its state is sent.  Without the
\* capability "return-path" the source does not wait for more: what becomes of the
\* state at the destination is not known to it.
StateCompletes ==
    /\ state = "active"
    /\ dstVM = "inmigrate"
    /\ state'  = "completed"
    /\ srcVM'  = "postmigrate"
    /\ stream' = srcVM
    /\ handed' = TRUE
    /\ UNCHANGED <<job, synced, broken, dstVM, dstConf, request, dstCancel>>

\* The destination loads the state and goes on with the guest as it was, or the
\* state cannot be loaded and the incoming QEMU exits.
StateArrives ==
    /\ stream \in {"running", "paused"}
    /\ dstVM = "inmigrate"
    /\ \/ stream' = "loaded" /\ dstVM' = stream
       \/ stream' = "lost"   /\ dstVM' = "exited"
    /\ UNCHANGED <<srcVM, state, job, synced, broken, dstConf, handed, request, dstCancel>>

\* The transfer breaks: the source goes on, the incoming QEMU exits.
StateFails ==
    /\ state = "active"
    /\ state' = "failed"
    /\ dstVM' = "exited"
    /\ UNCHANGED <<srcVM, job, synced, broken, dstConf, stream, handed, request, dstCancel>>

HostNext ==
    \/ \E i \in Images : JobBecomesReady(i) \/ JobFails(i) \/ JobPivots(i)
    \/ StateCompletes \/ StateArrives
    \/ StateFails
=============================================================================
