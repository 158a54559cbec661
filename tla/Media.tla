------------------------------- MODULE Media -------------------------------
(***************************************************************************)
(* The media of a running machine's cdrom and cloud-init drive: what QEMU  *)
(* has inserted, what the chroot holds for it to open, and the requests    *)
(* that change it.  Each first reads the machine, with a goroutine for     *)
(* each pool of devices; requests for one machine run one at a time.       *)
(***************************************************************************)
EXTENDS Integers, FiniteSets

CONSTANTS
    Blocks,              \* media on block devices of the host
    Remotes,             \* media that QEMU opens over the network
    Images,              \* cloud-init images, files in the machine's directory
    CdromDriver,         \* "ide-cd" or "scsi-cd"
    MaxChanges,          \* bound on the requests
    MaxChangeFailures,   \* bound on the steps that fail
    MaxBuilds            \* bound on the new versions of an image

\* A medium is of one kind, and "none" and "unknown" are no media.
ASSUME MediaAssumption == /\ CdromDriver \in {"ide-cd", "scsi-cd"}
                          /\ {MaxChanges, MaxChangeFailures, MaxBuilds} \subseteq Nat
                          /\ Images \cap (Blocks \cup Remotes) = {} /\ Blocks \cap Remotes = {}
                          /\ {"none", "unknown"} \cap (Blocks \cup Remotes \cup Images) = {}

VARIABLES
    image,      \* the version of each image in the machine's directory
    chroot,     \* the media in the chroot, with the version of an image
    inserted,   \* what QEMU has in each drive: a medium and its version
    buses,      \* the map of SCSI buses: "nil" until initDiskPool makes it
    panic,      \* kvmrund has dereferenced a nil pointer
    change,     \* the request that runs
    promise,    \* for each drive the medium of the last answered request
    used        \* requests, failures and builds so far

mediaVars == <<image, chroot, inserted, buses, panic, change, promise, used>>

Drives == {"cdrom", "cidata"}
None   == "none"
Empty  == [medium |-> None, version |-> 0]
Idle   == [pc |-> "idle", drive |-> None, medium |-> None, old |-> None, asked |-> 0, read |-> {}]

MediaInit ==
    /\ image = [i \in Images |-> 0]
    /\ \E i \in Images : /\ chroot = {[medium |-> i, version |-> 0]}
                         /\ inserted = [d \in Drives |-> IF d = "cidata" THEN [medium |-> i, version |-> 0] ELSE Empty]
                         /\ promise = [d \in Drives |-> IF d = "cidata" THEN i ELSE None]
    /\ buses = "nil" /\ panic = FALSE /\ change = Idle
    /\ used = [requests |-> 0, failures |-> 0, builds |-> 0]

IsLocal(m) == m \in Blocks \cup Images
Version(m) == IF m \in Images THEN image[m] ELSE 0
InChroot(m) == \E e \in chroot : e.medium = m
Without(m) == {e \in chroot : e.medium # m}
Goto(pc) == change' = [change EXCEPT !.pc = pc]

\* A new version of an image, written while requests run (CloudInitService).
BuildImage(i) ==
    /\ used.builds < MaxBuilds
    /\ used' = [used EXCEPT !.builds = @ + 1]
    /\ image' = [image EXCEPT ![i] = @ + 1]
    /\ UNCHANGED <<chroot, inserted, buses, panic, change, promise>>

\* A request: a medium for a drive, or None to eject the cdrom's.
Request(d, m) ==
    /\ change = Idle /\ used.requests < MaxChanges /\ ~panic
    /\ (d = "cdrom" => m \notin Images) /\ (d = "cidata" => IsLocal(m))
    /\ used' = [used EXCEPT !.requests = @ + 1]
    /\ change' = [Idle EXCEPT !.pc = "read", !.drive = d, !.medium = m, !.asked = Version(m)]
    /\ buses' = "nil"
    /\ promise' = [promise EXCEPT ![d] = "unknown"]
    /\ UNCHANGED <<image, chroot, inserted, panic>>

\* initDiskPool: makes the map of buses, then reads the disks.
initDiskPool ==
    /\ change.pc = "read" /\ "disks" \notin change.read
    /\ buses' = "made"
    /\ change' = [change EXCEPT !.read = @ \cup {"disks"}]
    /\ UNCHANGED <<image, chroot, inserted, panic, promise, used>>

\* initCdromPool: looks the bus of a SCSI cdrom up in that map.
initCdromPool ==
    /\ change.pc = "read" /\ "cdroms" \notin change.read
    /\ IF CdromDriver = "scsi-cd" /\ buses = "nil"
       THEN panic' = TRUE /\ change' = Idle
       ELSE change' = [change EXCEPT !.read = @ \cup {"cdroms"}] /\ UNCHANGED panic
    /\ UNCHANGED <<image, chroot, inserted, buses, promise, used>>

\* initCloudInitDrive.
initCloudInitDrive ==
    /\ change.pc = "read" /\ "cidata" \notin change.read
    /\ change' = [change EXCEPT !.read = @ \cup {"cidata"}]
    /\ UNCHANGED <<image, chroot, inserted, buses, panic, promise, used>>

\* The machine is read: what is inserted now is the old medium. A medium that is
\* inserted already is an error for the cdrom, and refreshed for cloud-init.
Checked ==
    /\ change.pc = "read" /\ change.read = {"disks", "cdroms", "cidata"}
    /\ LET old == inserted[change.drive].medium
       IN change' = IF change.drive = "cdrom" /\ change.medium = old
                 THEN Idle ELSE [change EXCEPT !.pc = "map", !.old = old]
    /\ UNCHANGED <<image, chroot, inserted, buses, panic, promise, used>>

\* CdromChangeMedia: a node for a block device; one that is there is an error.
\* CdromRemoveMedia: the node of the old medium goes first.
MapCdrom ==
    /\ change.pc = "map" /\ change.drive = "cdrom"
    /\ IF change.medium = None THEN chroot' = Without(change.old) /\ Goto("open")
       ELSE IF change.medium \in Blocks /\ InChroot(change.medium) THEN Goto("failed") /\ UNCHANGED chroot
       ELSE /\ chroot' = IF change.medium \in Blocks
                      THEN chroot \cup {[medium |-> change.medium, version |-> 0]} ELSE chroot
            /\ Goto("open")
    /\ UNCHANGED <<image, inserted, buses, panic, promise, used>>

\* CloudInitSetMedia: an image is copied to a temporary file that replaces the
\* one in the chroot; a node that is there is good.
MapCloudInit ==
    /\ change.pc = "map" /\ change.drive = "cidata"
    /\ chroot' = IF IsLocal(change.medium)
                 THEN Without(change.medium)
                           \cup {[medium |-> change.medium, version |-> Version(change.medium)]}
                      ELSE chroot
    /\ Goto("open")
    /\ UNCHANGED <<image, inserted, buses, panic, promise, used>>

\* The tray is opened and, by an event, seen to be open.
OpenTray ==
    /\ change.pc = "open"
    /\ Goto("change")
    /\ UNCHANGED <<image, chroot, inserted, buses, panic, promise, used>>

\* blockdev-change-medium and blockdev-remove-medium: QEMU opens what the chroot
\* holds under the name of the medium.
ChangeMedium ==
    /\ change.pc = "change"
    /\ inserted' = [inserted EXCEPT ![change.drive] =
                       IF change.medium = None THEN Empty
                       ELSE IF ~IsLocal(change.medium) THEN [medium |-> change.medium, version |-> 0]
                       ELSE CHOOSE e \in chroot : e.medium = change.medium]
    /\ Goto("close")
    /\ UNCHANGED <<image, chroot, buses, panic, promise, used>>

\* With a bug: the old image stays.
DoneKeepsOld ==
    /\ change.pc = "close"
    /\ chroot' = IF change.drive = "cdrom" /\ change.medium \in Blocks THEN Without(change.old) ELSE chroot
    /\ promise' = [promise EXCEPT ![change.drive] = change.medium]
    /\ change' = Idle
    /\ UNCHANGED <<image, inserted, buses, panic, used>>

\* With a bug: the old image is removed even if the new one has its name.
DoneRemovesNew ==
    /\ change.pc = "close"
    /\ chroot' = IF change.drive = "cidata" \/ change.medium \in Blocks THEN Without(change.old) ELSE chroot
    /\ promise' = [promise EXCEPT ![change.drive] = change.medium]
    /\ change' = Idle
    /\ UNCHANGED <<image, inserted, buses, panic, used>>

\* The tray is closed and the request answered. The deferred call removes the old
\* medium: for the cdrom if the new one is a block device, for cloud-init if it
\* is another one.
Done ==
    /\ change.pc = "close"
    /\ chroot' = IF \/ change.drive = "cdrom" /\ change.medium \in Blocks
                    \/ change.drive = "cidata" /\ change.medium # change.old
                 THEN Without(change.old) ELSE chroot
    /\ promise' = [promise EXCEPT ![change.drive] = change.medium]
    /\ change' = Idle
    /\ UNCHANGED <<image, inserted, buses, panic, used>>

\* A step fails, or the tray does not move in 60 seconds; the deferred call
\* removes the new medium from the chroot.
ChangeFails ==
    /\ \/ change.pc = "failed" /\ UNCHANGED used
       \/ /\ change.pc \in {"open", "change", "close"} /\ used.failures < MaxChangeFailures
          /\ used' = [used EXCEPT !.failures = @ + 1]
    /\ chroot' = IF \/ change.drive = "cdrom" /\ change.medium \in Blocks
                    \/ change.drive = "cidata" /\ IsLocal(change.medium) /\ change.medium # change.old
                 THEN Without(change.medium) ELSE chroot
    /\ change' = Idle
    /\ UNCHANGED <<image, inserted, buses, panic, promise>>

MediaNext ==
    \/ \E i \in Images : BuildImage(i)
    \/ \E d \in Drives, m \in Blocks \cup Remotes \cup Images \cup {None} : Request(d, m)
    \/ initDiskPool \/ initCdromPool \/ initCloudInitDrive \/ Checked
    \/ MapCdrom \/ MapCloudInit \/ OpenTray \/ ChangeMedium \/ Done \/ ChangeFails

MediaSpec == MediaInit /\ [][MediaNext]_mediaVars
-----------------------------------------------------------------------------
AllMedia == Blocks \cup Remotes \cup Images \cup {None}

\* Types; and the chroot holds one version of an image.
MediaTypeOK ==
    /\ image \in [Images -> 0..MaxBuilds]
    /\ chroot \subseteq [medium : AllMedia, version : 0..MaxBuilds]
    /\ \A e, f \in chroot : e.medium = f.medium => e = f
    /\ inserted \in [Drives -> [medium : AllMedia, version : 0..MaxBuilds]]
    /\ promise \in [Drives -> AllMedia \cup {"unknown"}]
    /\ buses \in {"nil", "made"} /\ panic \in BOOLEAN

\* A change that was answered is what the drive has; for cloud-init, whose images
\* are in the chroot, QEMU can open it again, whatever was requested, and failed,
\* for the cdrom (CloudInitSetMedia, CdromChangeMedia, CdromRemoveMedia).
AnsweredIsInserted ==
    \A d \in Drives : promise[d] # "unknown" =>
        /\ inserted[d].medium = promise[d]
        /\ promise[d] \in Images => inserted[d] \in chroot

\* A request for an image gives the guest a version that is no older than the one
\* of the time it was made, even if the name is the same as before and the image
\* is built anew meanwhile (CloudInitSetMedia copies and replaces it).
RefreshIsSeen ==
    change.pc = "close" /\ change.medium \in Images => inserted[change.drive].version >= change.asked

\* Of the images only the one in use is in the chroot, as long as no step has
\* failed; and a failed change leaves the image it meant to bring in behind only
\* if it is the one in use (the deferred calls of CloudInitSetMedia).
OnlyImageInUse ==
    change = Idle => \A e \in chroot : e.medium \in Images =>
        \/ e.medium = inserted["cidata"].medium
        \/ used.failures > 0 /\ promise["cidata"] # e.medium

\* The guest gets the image as it was when it was asked for, or newer, and the
\* chroot keeps no other (CloudInitSetMedia and its deferred calls).
ImageIsCurrent == RefreshIsSeen /\ OnlyImageInUse

\* With no failure, a block device in the chroot is the medium of a drive
\* (CdromChangeMedia: "Remove old media from a chroot on success").
OldMediumIsRemoved ==
    change = Idle /\ used.failures = 0 =>
        \A e \in chroot : e.medium \in Blocks => \E d \in Drives : inserted[d].medium = e.medium

\* Reading a machine does not panic (initCdromPool).
NoPanic == ~panic
=============================================================================
