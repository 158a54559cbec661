-------------------------------- MODULE MCApi --------------------------------
(* The API of kvmrund as it is used: by callers over gRPC and HTTP with any  *)
(* request of at most two chosen fields, and by the tools with any command   *)
(* line of at most three flags. One of them calls at a time. The machine     *)
(* that is read runs, is paused or is switched off; its configuration names  *)
(* another disk than the running machine has.                                *)
EXTENDS Rest, Client

Conf(disk) == [storage_path |-> disk, kernel_image |-> "", firmware_image |-> "image"]
MCHostMachines ==
    {[state |-> "RUNNING", C |-> Conf("new"), R |-> Conf("running")],
     [state |-> "PAUSED", C |-> Conf("new"), R |-> Conf("paused")],
     [state |-> "INACTIVE", C |-> Conf("new"), R |-> None]}

Init == RestInit /\ ClientInit
Next == \/ command = NoCommand /\ RestNext   /\ UNCHANGED <<command, todo, answers, seen, outcome>>
        \/ asked = NoCall      /\ ClientNext /\ UNCHANGED <<asked, http>>
Spec == Init /\ [][Next]_<<restVars, clientVars>>
==============================================================================
