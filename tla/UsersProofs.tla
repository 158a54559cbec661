----------------------------- MODULE UsersProofs -----------------------------
(***************************************************************************)
(* Proofs about the users of a host, for any set of machines, any range of *)
(* UIDs and any users that are there already.                              *)
(***************************************************************************)
EXTENDS Users, WellFoundedInduction, TLAPS

\* A set of naturals that is not empty has a least element.
LEMMA LeastNatural ==
    ASSUME NEW S \in SUBSET Nat, S # {}
    PROVE  \E x \in S : \A y \in S : x <= y
<1>1. PICK x \in S : \A y \in S : ~ (<<y, x>> \in OpToRel(<, Nat))
  BY NatLessThanWellFounded, WFMin, Zenon
<1>2. \A y \in S : ~ (y < x)
  BY <1>1, Zenon DEF OpToRel
<1> QED
  BY <1>2

\* The walk through the sorted list ends: Reached is an element of the list.
LEMMA WalkStops ==
    ASSUME UserTypeOK
    PROVE  Reached \in Uids /\ Stops(Reached)
<1> DEFINE Ends == {x \in MIN_UID..(MAX_UID + 1) : x > MAX_UID \/ x \notin Uids}
<1>1. MAX_UID + 1 \in Ends /\ Ends \in SUBSET Nat
  BY UidAssumption
<1>2. PICK x \in Ends : \A y \in Ends : x <= y
  BY <1>1, LeastNatural
<1>3. \A u \in Uids : u \in Int /\ u >= MIN_UID - 1
  BY UidAssumption DEF Uids, UserTypeOK
<1>4. x - 1 \in Uids
  <2>1. CASE x = MIN_UID
    BY <2>1, UidAssumption DEF Uids
  <2>2. CASE x # MIN_UID
    <3>1. x - 1 \in MIN_UID..MAX_UID /\ x - 1 < x
      BY <2>2, UidAssumption
    <3>2. x - 1 \notin Ends
      BY <3>1, <1>1, <1>2
    <3> QED
      BY <3>1, <3>2, UidAssumption
  <2> QED
    BY <2>1, <2>2
<1>5. Stops(x - 1)
  BY <1>2, UidAssumption DEF Stops
<1>6. ASSUME NEW v \in Uids, Stops(v)
      PROVE  x - 1 <= v
  <2>1. v + 1 \in Ends \/ v + 1 > MAX_UID + 1
    BY <1>3, <1>6, UidAssumption DEF Stops
  <2> QED
    BY <2>1, <1>2, <1>3, UidAssumption
<1>7. \E u \in Uids : Stops(u) /\ \A v \in Uids : Stops(v) => u <= v
  BY <1>4, <1>5, <1>6
<1> QED
  BY <1>7 DEF Reached

\* What getVacantUid returns is in the range and is nobody's UID.
LEMMA VacantIsFree ==
    ASSUME UserTypeOK, Vacant # NoUid
    PROVE  /\ Vacant \in MIN_UID..MAX_UID
           /\ Vacant \notin SystemUids
           /\ \A m \in Machines : passwd[m] # Vacant
<1>1. Vacant = Reached + 1 /\ ~ (Reached + 1 > MAX_UID)
  BY DEF Vacant
<1>2. Reached \in Uids /\ Stops(Reached)
  BY WalkStops
<1>3. \A u \in Uids : u \in Int /\ u >= MIN_UID - 1
  BY UidAssumption DEF Uids, UserTypeOK
<1>4. Vacant \in MIN_UID..MAX_UID /\ Vacant \notin Uids
  BY <1>1, <1>2, <1>3, UidAssumption DEF Stops
<1> QED
  BY <1>4, UidAssumption DEF Uids, UserTypeOK

-----------------------------------------------------------------------------
\* The lock is held by the one call that searches or adds.
HolderIsInside ==
    \A m \in Machines : at[m] \in {"search", "add"} <=> m \in lock

\* The UID a call has chosen stays vacant until the call adds the user with it.
ChosenIsVacant ==
    \A m \in Machines : at[m] = "add" =>
        /\ found[m] \in MIN_UID..MAX_UID
        /\ found[m] \notin SystemUids
        /\ \A n \in Machines : passwd[n] # found[m]

UserInv == UserTypeOK /\ HolderIsInside /\ ChosenIsVacant /\ UniqueUids

\* The invariant holds at the start.
LEMMA UserInitInv == UserInit => UserInv
  BY DEF UserInit, UserInv, UserTypeOK, HolderIsInside, ChosenIsVacant, UniqueUids, NoUid

\* Every step keeps the invariant.
LEMMA UserStepInv == UserInv /\ [UserNext]_userVars => UserInv'
<1> SUFFICES ASSUME UserInv, [UserNext]_userVars PROVE UserInv'
  OBVIOUS
<1> USE DEF UserInv, UserTypeOK, HolderIsInside
<1>0. NoUid \in Int /\ NoUid \notin MIN_UID..MAX_UID
  BY UidAssumption DEF NoUid
<1>1. ASSUME NEW m \in Machines, Call(m) PROVE UserInv'
  BY <1>1 DEF Call, ChosenIsVacant, UniqueUids
<1>2. ASSUME NEW m \in Machines, Acquire(m) PROVE UserInv'
  BY <1>2 DEF Acquire, ChosenIsVacant, UniqueUids
<1>3. ASSUME NEW m \in Machines, AcquireTimesOut(m) PROVE UserInv'
  BY <1>3 DEF AcquireTimesOut, ChosenIsVacant, UniqueUids
<1>4. ASSUME NEW m \in Machines, Search(m) PROVE UserInv'
  <2>1. CASE Vacant = NoUid
    BY <2>1, <1>4, <1>0 DEF Search, ChosenIsVacant, UniqueUids
  <2>2. CASE Vacant # NoUid
    <3>1. /\ Vacant \in MIN_UID..MAX_UID
          /\ Vacant \notin SystemUids
          /\ \A n \in Machines : passwd[n] # Vacant
      BY <2>2, VacantIsFree
    <3>2. UserTypeOK' /\ HolderIsInside' /\ UniqueUids'
      BY <2>2, <3>1, <1>4 DEF Search, UniqueUids
    <3>3. ChosenIsVacant'
      BY <2>2, <3>1, <1>4 DEF Search, ChosenIsVacant
    <3> QED
      BY <3>2, <3>3
  <2> QED
    BY <2>1, <2>2
<1>5. ASSUME NEW m \in Machines, UserAdd(m) PROVE UserInv'
  <2>1. passwd' = passwd \/ passwd' = [passwd EXCEPT ![m] = found[m]]
    BY <1>5 DEF UserAdd
  <2>2. lock = {m} /\ lock' = {} /\ at' = [at EXCEPT ![m] = "idle"] /\ found' = found
    BY <1>5 DEF UserAdd
  <2>3. UserTypeOK' /\ HolderIsInside'
    BY <2>1, <2>2
  <2>4. \A n \in Machines : at'[n] # "add"
    BY <2>2
  <2>5. UniqueUids'
    BY <2>1, <1>5, <1>0 DEF UserAdd, ChosenIsVacant, UniqueUids
  <2> QED
    BY <2>3, <2>4, <2>5 DEF ChosenIsVacant
<1>6. ASSUME NEW m \in Machines, UserDel(m) PROVE UserInv'
  BY <1>6, <1>0 DEF UserDel, ChosenIsVacant, UniqueUids
<1>7. CASE UNCHANGED userVars
  BY <1>7 DEF userVars, ChosenIsVacant, UniqueUids
<1> QED
  BY <1>1, <1>2, <1>3, <1>4, <1>5, <1>6, <1>7 DEF UserNext, Step

\* The UIDs given to concurrently created machines are distinct, in the range and
\* not those of other users, however many machines there are and wherever the
\* calls of CreateUser and RemoveUser interleave.
THEOREM UidsAreUnique == UserSpec => []UniqueUids
<1>1. UserInv => UniqueUids
  BY DEF UserInv
<1> QED
  BY <1>1, UserInitInv, UserStepInv, PTL DEF UserSpec

\* The users, the lock and the calls keep their types: one machine at most holds the
\* lock of CreateUser and RemoveUser.
THEOREM UserTypesHold == UserSpec => []UserTypeOK
<1>1. UserInv => UserTypeOK
  BY DEF UserInv
<1> QED
  BY <1>1, UserInitInv, UserStepInv, PTL DEF UserSpec
==============================================================================
