------------------------------- MODULE Users -------------------------------
(***************************************************************************)
(* The users of a host: CreateUser gives a machine's user the first vacant *)
(* UID, under a lock file that keeps concurrent calls apart; RemoveUser    *)
(* takes no lock.  The limits of the range are parameters.                 *)
(***************************************************************************)
EXTENDS Integers, FiniteSets

CONSTANTS
    Machines,    \* names of machines, each created by a task of its own
    MIN_UID,     \* the first UID that may be given (1024)
    MAX_UID,     \* the last one (65534)
    SystemUids   \* UIDs of the users that are there already

ASSUME UidAssumption == /\ MIN_UID \in Nat /\ MAX_UID \in Nat /\ MIN_UID <= MAX_UID
                        /\ SystemUids \subseteq Nat /\ IsFiniteSet(SystemUids)

VARIABLES
    passwd,   \* the UID of each machine's user, NoUid if it has none
    lock,     \* holders of the lock on the file
    at,       \* where the call of CreateUser for a machine is
    found     \* the UID it has chosen

userVars == <<passwd, lock, at, found>>

NoUid == -1

\* The UIDs in the file from MIN_UID on, and the one before the range: the list
\* that getVacantUid sorts.
Uids == {MIN_UID - 1} \cup
        {u \in SystemUids \cup {passwd[m] : m \in Machines} : u >= MIN_UID}

\* The sorted list is walked until the next UID is beyond the range or vacant.
Stops(u) == u + 1 > MAX_UID \/ u + 1 \notin Uids
Reached  == CHOOSE u \in Uids : Stops(u) /\ \A v \in Uids : Stops(v) => u <= v

\* getVacantUid; NoUid is the error that there is none.
Vacant == IF Reached + 1 > MAX_UID THEN NoUid ELSE Reached + 1

UserInit ==
    /\ passwd = [m \in Machines |-> NoUid]
    /\ lock   = {}
    /\ at     = [m \in Machines |-> "idle"]
    /\ found  = [m \in Machines |-> NoUid]

Call(m) ==
    /\ at[m] = "idle"
    /\ at' = [at EXCEPT ![m] = "acquire"]
    /\ UNCHANGED <<passwd, lock, found>>

\* FileLocker.Acquire: LOCK_EX without waiting, repeated each second.
Acquire(m) ==
    /\ at[m] = "acquire" /\ lock = {}
    /\ lock' = {m}
    /\ at' = [at EXCEPT ![m] = "search"]
    /\ UNCHANGED <<passwd, found>>

\* With a bug: the attempts to acquire the lock never end.
AcquireForEver(m) == FALSE /\ UNCHANGED userVars

\* The time to acquire is over, also when the lock has just become free; the
\* file is closed, so that a lock which the goroutine gets in the last moment is
\* gone as well.
AcquireTimesOut(m) ==
    /\ at[m] = "acquire"
    /\ at' = [at EXCEPT ![m] = "idle"]
    /\ UNCHANGED <<passwd, lock, found>>

\* With a bug: the lock covers only the search.
SearchThenRelease(m) ==
    /\ at[m] = "search"
    /\ found' = [found EXCEPT ![m] = Vacant]
    /\ at' = [at EXCEPT ![m] = IF Vacant = NoUid THEN "idle" ELSE "add"]
    /\ lock' = lock \ {m}
    /\ UNCHANGED passwd

\* The file is read; without a vacant UID the call fails.
Search(m) ==
    /\ at[m] = "search"
    /\ found' = [found EXCEPT ![m] = Vacant]
    /\ IF Vacant = NoUid
         THEN /\ at' = [at EXCEPT ![m] = "idle"] /\ lock' = lock \ {m}
         ELSE /\ at' = [at EXCEPT ![m] = "add"] /\ UNCHANGED lock
    /\ UNCHANGED passwd

\* useradd (external) refuses a name that is taken and may fail otherwise; the
\* deferred Release closes the file.
UserAdd(m) ==
    /\ at[m] = "add"
    /\ passwd' \in {passwd} \cup
                  {[passwd EXCEPT ![m] = found[m]] : x \in {passwd[m]} \cap {NoUid}}
    /\ lock' = lock \ {m}
    /\ at' = [at EXCEPT ![m] = "idle"]
    /\ UNCHANGED found

\* RemoveUser, of a machine that is deleted or whose creation failed.
UserDel(m) ==
    /\ passwd[m] # NoUid /\ at[m] = "idle"
    /\ passwd' = [passwd EXCEPT ![m] = NoUid]
    /\ UNCHANGED <<lock, at, found>>

Step(m) == Acquire(m) \/ AcquireTimesOut(m) \/ Search(m) \/ UserAdd(m)
UserNext == \E m \in Machines : Call(m) \/ Step(m) \/ UserDel(m)

UserSpec == UserInit /\ [][UserNext]_userVars
\* Each call goes on, and its attempts end with the time-out.
UserFairness == \A m \in Machines : WF_userVars(Step(m))
FairUserSpec == UserSpec /\ UserFairness

-----------------------------------------------------------------------------
(* Properties *)

UserTypeOK ==
    /\ passwd \in [Machines -> Int] /\ found \in [Machines -> Int]
    /\ lock \subseteq Machines /\ \A m, n \in lock : m = n
    /\ at \in [Machines -> {"idle", "acquire", "search", "add"}]

\* Each machine's QEMU runs as a user of its own: two machines created at the same
\* time do not get one UID, nor one of a user that was there before, nor one
\* outside the range.
UniqueUids ==
    \A m \in Machines : passwd[m] # NoUid =>
        /\ passwd[m] \in MIN_UID..MAX_UID
        /\ passwd[m] \notin SystemUids
        /\ \A n \in Machines \ {m} : passwd[n] # passwd[m]

\* Every call of CreateUser returns, so that no creation of a machine waits for
\* ever for a lock.
CallsReturn == \A m \in Machines : at[m] # "idle" ~> at[m] = "idle"
=============================================================================
