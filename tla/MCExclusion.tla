----------------------------- MODULE MCExclusion -----------------------------
(* The two places that keep concurrent callers apart: the pool of tasks and   *)
(* the lock file of the user database. They share no state, so one of them   *)
(* moves while the other is in its initial state.                            *)
(*                                                                           *)
(* TaskPool: two disks, one of which can be named by its path too.           *)
(* Users: a range of four UIDs with two of them, and one beyond it, in use.  *)
EXTENDS TaskPool, Users

MCBaseName == [p \in Paths |-> CHOOSE d \in Disks : TRUE]

MCMin    == 10
MCMax    == 13
MCSystem == {0, 11, 13, 20}

Init == TaskInit /\ UserInit
Next == \/ UserInit /\ TaskNext /\ UNCHANGED userVars
        \/ TaskInit /\ UserNext /\ UNCHANGED taskVars
Spec == Init /\ [][Next]_<<taskVars, userVars>> /\ TaskFairness /\ UserFairness
=============================================================================
