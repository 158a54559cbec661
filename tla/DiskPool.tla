------------------------------ MODULE DiskPool ------------------------------
(***************************************************************************)
(* The ordered pool of a machine's disks (kvmrun/internal/pool/pool.go,    *)
(* kvmrun/disks.go) as the handlers of the stored configuration use it.    *)
(*                                                                         *)
(* A disk is kept under the base name of its path: the last element of     *)
(* /dev/..., the name of an export or of a target.  It can be asked for by *)
(* that name or by its path.  The order of the pool is the order of the    *)
(* devices on the command line, and so what the guest sees.                *)
(***************************************************************************)
EXTENDS Integers, SequencesExt

CONSTANTS
    Paths,       \* full paths of disks
    Names,       \* base names
    BaseName,    \* the base name of each path
    Limits,      \* values of the I/O limits of a disk
    Positions    \* where a disk may be asked to be inserted; -1 stands for appending it

ASSUME BaseNameAssumption == /\ BaseName \in [Paths -> Names] /\ Paths \cap Names = {}
                             /\ Positions \subseteq Int

VARIABLE pool    \* keys in order, the disk of each key, whether it could be read

EmptyPool == [ok |-> TRUE, keys |-> <<>>, items |-> <<>>]

Has(p, key) == key \in DOMAIN p.items

-----------------------------------------------------------------------------
(* Pool: an ErrAlreadyExists or ErrNotFound leaves the pool as it is. *)

With(p, keys, key, d) ==
    [ok    |-> p.ok,
     keys  |-> keys,
     items |-> [k \in DOMAIN p.items \cup {key} |-> IF k = key THEN d ELSE p.items[k]]]

PoolAppend(p, key, d) == With(p, Append(p.keys, key), key, d)

\* A position beyond the end is the end.
PoolInsert(p, key, d, position) ==
    LET n == Len(p.keys)
    IN  With(p, InsertAt(p.keys, (IF position > n THEN n ELSE position) + 1, key), key, d)

\* With a bug: the last disk takes the place of the removed one.
PoolSwapRemove(p, key) ==
    LET n == Len(p.keys)
        i == CHOOSE j \in 1..n : p.keys[j] = key
    IN  [p EXCEPT !.keys  = SubSeq([p.keys EXCEPT ![i] = p.keys[n]], 1, n - 1),
                  !.items = [k \in DOMAIN p.items \ {key} |-> p.items[k]]]

\* The keys that are not deleted are copied, one after the other.
DeleteFunc(keys, key) ==
    LET kept[i \in 0..Len(keys)] ==
            IF i = 0 THEN <<>>
            ELSE IF keys[i] = key THEN kept[i - 1] ELSE Append(kept[i - 1], keys[i])
    IN  kept[Len(keys)]

PoolRemove(p, key) ==
    [ok    |-> p.ok,
     keys  |-> DeleteFunc(p.keys, key),
     items |-> [k \in DOMAIN p.items \ {key} |-> p.items[k]]]

\* MarshalJSON writes the disks in their order.
Marshal(p) == [i \in DOMAIN p.keys |-> p.items[p.keys[i]]]

\* UnmarshalJSON appends one disk after the other; a known name is an error and ends it.
Unmarshal(disks) ==
    LET read[i \in 0..Len(disks)] ==
            IF i = 0 THEN EmptyPool
            ELSE LET p   == read[i - 1]
                     key == BaseName[disks[i].path]
                 IN  IF ~p.ok THEN p
                     ELSE IF Has(p, key) THEN [p EXCEPT !.ok = FALSE]
                     ELSE PoolAppend(p, key, disks[i])
    IN  read[Len(disks)]

-----------------------------------------------------------------------------
(* DiskPool: a disk is looked up by the given name, then by its base name. *)

Candidates(n) == {n} \cup (IF n \in Paths THEN {BaseName[n]} ELSE {})

Found(n) == {key \in Candidates(n) : Has(pool, key)}

\* The disk that is found gets another limit.
SetIops(n, limit) ==
    [ok    |-> pool.ok,
     keys  |-> pool.keys,
     items |-> [k \in DOMAIN pool.items |->
                   IF k \in Found(n) THEN [pool.items[k] EXCEPT !.limit = limit] ELSE pool.items[k]]]

PoolInit == pool = EmptyPool

\* With a bug: the disk is added without looking for its name.
AttachUnchecked(path, limit, position) ==
    LET d == [path |-> path, limit |-> limit]
    IN  pool' = IF position < 0 THEN PoolAppend(pool, BaseName[path], d)
                                ELSE PoolInsert(pool, BaseName[path], d, position)

\* DiskAttach: for a disk that is there, just the limits are set again.
Attach(path, limit, position) ==
    LET d   == [path |-> path, limit |-> limit]
        key == BaseName[path]
    IN  pool' = IF Has(pool, key)
                  THEN SetIops(path, limit)
                  ELSE IF position < 0 THEN PoolAppend(pool, key, d)
                                       ELSE PoolInsert(pool, key, d, position)

\* DiskDetach: a disk that is not there is no error.
Detach(n) ==
    \/ \E key \in Found(n) : pool' = PoolRemove(pool, key)
    \/ Found(n) = {} /\ UNCHANGED pool

\* DiskSetReadLimit and DiskSetWriteLimit.
SetLimit(n, limit) ==
    Found(n) # {} /\ pool' = SetIops(n, limit)

\* The configuration is saved by one handler and read by the next.
Reload == pool' = Unmarshal(Marshal(pool))

PoolNext ==
    \/ \E path \in Paths, limit \in Limits, position \in Positions :
          Attach(path, limit, position)
    \/ \E n \in Paths \cup Names : Detach(n)
    \/ \E n \in Paths \cup Names, limit \in Limits : SetLimit(n, limit)
    \/ Reload

PoolSpec == PoolInit /\ [][PoolNext]_pool

-----------------------------------------------------------------------------
(* Properties. *)

Before(p, a, b) == \E i, j \in DOMAIN p.keys : i < j /\ p.keys[i] = a /\ p.keys[j] = b

\* The list of keys and the map agree: each disk is in the list once, under the
\* base name of its path, whatever sequence of attach, insert and detach led
\* here.  (QEMU refuses two devices of one name.)
ListAndMapAgree ==
    /\ IsInjective(pool.keys)
    /\ ToSet(pool.keys) = DOMAIN pool.items
    /\ \A key \in DOMAIN pool.items : BaseName[pool.items[key].path] = key

\* What is saved can be read again, and gives the same pool, in the same order.
ReloadChangesNothing == Unmarshal(Marshal(pool)) = pool

\* After every sequence of attach, insert and detach the pool's list and map agree,
\* and what Save writes is read back as the same pool (Append, Insert, Remove,
\* UnmarshalJSON).
PoolIsSound == ListAndMapAgree /\ ReloadChangesNothing

\* No change of one disk moves the others against each other: the guest finds
\* its devices in the order it knows.
OrderKept ==
    [][\A a, b \in DOMAIN pool.items \cap DOMAIN pool'.items :
          Before(pool, a, b) <=> Before(pool', a, b)]_pool

\* "Get returns a pointer to a Disk with name/path = diskname": a disk that was
\* asked for by its path has this path.
FoundByPathHasPath ==
    \A path \in Paths : \A key \in Found(path) : pool.items[key].path = path
=============================================================================
