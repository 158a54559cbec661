------------------------------ MODULE Handover ------------------------------
(***************************************************************************)
(* What a live migration promises, without saying how: a guest with its    *)
(* images goes from a source to a destination.  Each image is brought into *)
(* sync with its copy at the destination, and may fall out of it again.    *)
(* The guest changes hands once, and for good, and never with an image     *)
(* that was not in sync before; only then does the source let its machine  *)
(* go, first the process and then, if at all, what is stored of it.  The   *)
(* migration may stop at any point.                                        *)
(***************************************************************************)
CONSTANT Images     \* what has to be copied

VARIABLES
    owner,      \* the host whose QEMU has the state of the guest
    copied,     \* the images whose copy at the destination is in sync
    lost,       \* the images whose copy was in sync and is no longer
    source      \* the machine on the source: "up", "down" or "removed"

Init == owner = "source" /\ copied = {} /\ lost = {} /\ source = "up"

Copy(i) ==
    /\ i \notin lost
    /\ copied' = copied \cup {i}
    /\ UNCHANGED <<owner, lost, source>>

Lose(images) ==
    /\ owner = "source" /\ images \subseteq copied
    /\ copied' = copied \ images
    /\ lost'   = lost \cup images
    /\ UNCHANGED <<owner, source>>

ChangeHands ==
    /\ owner = "source" /\ copied \cup lost = Images
    /\ owner' = "destination"
    /\ UNCHANGED <<copied, lost, source>>

ShutDown ==
    /\ owner = "destination" /\ source = "up"
    /\ source' = "down"
    /\ UNCHANGED <<owner, copied, lost>>

Remove ==
    /\ source = "down"
    /\ source' = "removed"
    /\ UNCHANGED <<owner, copied, lost>>

Next ==
    \/ \E i \in Images : Copy(i)
    \/ \E images \in SUBSET Images : Lose(images)
    \/ ChangeHands \/ ShutDown \/ Remove

Spec == Init /\ [][Next]_<<owner, copied, lost, source>>
=============================================================================
