------------------------------ MODULE MCMachine ------------------------------
(* What a machine is made of: the stored pool of disks, the devices that are *)
(* plugged in and out, the media of its drives, its memory and processors.   *)
(* The machine's lock leaves one request at a time, so one part moves while  *)
(* the others are in their initial states.                                   *)
(*                                                                           *)
(* DiskPool: two of the paths have the same base name, as volumes of two     *)
(* groups may have. Hotplug: a device of each kind.                          *)
EXTENDS DiskPool, Hotplug, Media, Resources

CONSTANTS p1, p2, p3, p4, n1, n2, n3

MCBaseName == (p1 :> n1) @@ (p2 :> n2) @@ (p3 :> n3) @@ (p4 :> n1)
MCPositions == -1..3
OfEachKind == [d \in Devices |-> d]
MCSizes == {1024, 2048, 3072}

\* One of the initial states of the resources and of the media stands for all.
ResourcesRest == ResourceInit /\ mem.actual = 1024
MediaRest == MediaInit /\ promise["cidata"] = "image"

Init == PoolInit /\ PlugInit /\ MediaInit /\ ResourceInit
Next == \/ PlugInit /\ MediaRest /\ ResourcesRest /\ PoolNext     /\ UNCHANGED <<plugVars, mediaVars, resourceVars>>
        \/ PoolInit /\ MediaRest /\ ResourcesRest /\ PlugNext     /\ UNCHANGED <<pool, mediaVars, resourceVars>>
        \/ PoolInit /\ PlugInit  /\ ResourcesRest /\ MediaNext    /\ UNCHANGED <<pool, plugVars, resourceVars>>
        \/ PoolInit /\ PlugInit  /\ MediaRest     /\ ResourceNext /\ UNCHANGED <<pool, plugVars, mediaVars>>
Spec == Init /\ [][Next]_<<pool, plugVars, mediaVars, resourceVars>>
==============================================================================
