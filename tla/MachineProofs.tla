---------------------------- MODULE MachineProofs ----------------------------
(***************************************************************************)
(* Proofs about what a machine is made of: its memory and processors, the  *)
(* media of its drives, the devices that are plugged in and out, and the   *)
(* pool of disks its file keeps; for any sizes, media, devices and disks,  *)
(* and any number of requests and failures.                                *)
(***************************************************************************)
EXTENDS DiskPool, Hotplug, Media, Resources, FiniteSetTheorems, SequenceTheorems,
        WellFoundedInduction, TLAPS

-----------------------------------------------------------------------------
(* Memory and processors. *)

Pairs == [actual : Nat, total : Nat]

\* What the closure "set" makes of a stored pair that is in order is a pair in
\* order, or it refuses.
LEMMA SetBothOrders ==
    ASSUME NEW l \in Pairs, l.actual \in 1..l.total, NEW actual \in Nat, NEW total \in Nat
    PROVE  LET p == SetBoth(l, actual, total)
           IN  p # Refused => p \in Pairs /\ p.actual = actual /\ p.total = total
                                /\ p.actual \in 1..p.total
BY DEF SetBoth, SetActual, SetTotal, Refused, Pairs

\* What QEMU accepts the file accepts, whichever total the file had before.
LEMMA LiveIsAccepted ==
    ASSUME NEW l \in Pairs, l.actual \in 1..l.total, NEW actual \in Nat, NEW total \in Nat,
           NEW running \in Nat, LiveAccepts(actual, total, running)
    PROVE  SetBoth(l, actual, FilledTotal(total, TRUE, running, l.total)) # Refused
BY DEF SetBoth, SetActual, SetTotal, Refused, Pairs, LiveAccepts, FilledTotal

ResourceTypes ==
    /\ mem \in Pairs /\ cpu \in [actual : Nat, total : Nat, sockets : Nat]
    /\ qemu \in [mem : Nat, cpu : Nat]
    /\ balloon \in [target : Nat, actual : Nat]
    /\ rushed \in BOOLEAN /\ setter \in Nat
    /\ plugged \subseteq 1..qemu.cpu /\ ejecting \subseteq plugged

\* The first processor is never asked for, and as long as no request came while
\* others were leaving, those that stay are the first ones.
FirstStay ==
    Running => /\ 1 \in plugged \ ejecting
               /\ ~rushed => \E k \in 0..qemu.cpu : plugged \ ejecting = 1..k

ResourceInv == ResourceTypes /\ LimitsKept /\ FirstStay

\* The processors of a running machine are finitely many.
LEMMA PluggedCount ==
    ASSUME ResourceTypes
    PROVE  IsFiniteSet(plugged) /\ Cardinality(plugged) \in Nat
<1>1. qemu.cpu \in Nat
  BY DEF ResourceTypes
<1>2. IsFiniteSet(1..qemu.cpu)
  BY <1>1, FS_Interval
<1>3. IsFiniteSet(plugged)
  BY <1>2, FS_Subset DEF ResourceTypes
<1> QED
  BY <1>3, FS_CardinalityType

\* The last k of the first m slots, and the first k of those that follow them, as
\* CPUSetActual counts them.
LEMMA LastSlots ==
    ASSUME NEW m \in Nat, NEW k \in Nat, k <= m
    PROVE  {c \in 1..m : Cardinality({d \in 1..m : d >= c}) <= k} = (m - k + 1)..m
<1>1. ASSUME NEW c \in 1..m PROVE Cardinality({d \in 1..m : d >= c}) = m - c + 1
  <2>1. {d \in 1..m : d >= c} = c..m
    OBVIOUS
  <2>2. Cardinality(c..m) = m - c + 1
    BY FS_Interval
  <2> QED
    BY <2>1, <2>2
<1>2. ASSUME NEW c \in 1..m
      PROVE  Cardinality({d \in 1..m : d >= c}) <= k <=> c \in (m - k + 1)..m
  BY <1>1
<1> QED
  BY <1>2

\* Of the slots that are free, the first k are those next to the used ones.
LEMMA NextSlots ==
    ASSUME NEW m \in Nat, NEW k \in Nat, NEW q \in Nat, m + k <= q
    PROVE  {c \in 1..q : c \notin 1..m /\ Cardinality((1..c) \ (1..m)) <= k} = (m + 1)..(m + k)
<1>1. ASSUME NEW c \in 1..q, c \notin 1..m PROVE Cardinality((1..c) \ (1..m)) = c - m
  <2>1. c > m
    BY <1>1
  <2>2. (1..c) \ (1..m) = (m + 1)..c
    BY <2>1
  <2>3. Cardinality((m + 1)..c) = c - m
    BY <2>1, FS_Interval
  <2> QED
    BY <2>2, <2>3
<1>2. ASSUME NEW c \in 1..q
      PROVE  (c \notin 1..m /\ Cardinality((1..c) \ (1..m)) <= k) <=> c \in (m + 1)..(m + k)
  BY <1>1
<1> QED
  BY <1>2

\* Plugging in fills the first free slots, plugging out asks for the last used ones.
LEMMA HotplugKeepsFirst ==
    ASSUME ResourceTypes, FirstStay, Running,
           NEW actual \in 1..qemu.cpu, NEW k \in Nat, HotplugCPU(actual, k),
           qemu' = qemu, rushed' \in BOOLEAN, rushed \/ ejecting # {} => rushed'
    PROVE  plugged' \subseteq 1..qemu.cpu /\ ejecting' \subseteq plugged' /\ FirstStay'
<1> DEFINE count == Cardinality(plugged)
           q     == qemu.cpu
           Free  == {c \in 1..q : c \notin plugged /\ Cardinality((1..c) \ plugged) <= k}
           Used  == {c \in plugged : Cardinality({d \in plugged : d >= c}) <= k}
<1>0. /\ count \in Nat /\ q \in Nat /\ plugged \subseteq 1..q /\ ejecting \subseteq plugged
      /\ 1 \in plugged /\ 1 \notin ejecting /\ Running'
  BY PluggedCount DEF ResourceTypes, FirstStay, Running
<1>1. \/ /\ actual < count /\ k <= count - actual
         /\ ejecting' = ejecting \cup Used /\ plugged' = plugged
      \/ /\ ~(actual < count) /\ k <= actual - count
         /\ plugged' = plugged \cup Free /\ ejecting' = ejecting
  BY DEF HotplugCPU
<1>2. ASSUME ~rushed'
      PROVE  ejecting = {} /\ plugged = 1..count /\ count <= q
  <2>1. ejecting = {} /\ ~rushed
    BY <1>2
  <2>2. PICK m \in 0..q : plugged = 1..m
    BY <2>1, <1>0 DEF FirstStay
  <2>3. Cardinality(1..m) = m
    BY <2>2, <1>0, FS_Interval
  <2> QED
    BY <2>1, <2>2, <2>3
<1>3. 1 \in Used => count <= k
  <2>0. \A d \in plugged : d >= 1
    BY <1>0
  <2>1. {d \in plugged : d >= 1} = plugged
    BY ONLY <2>0, Zenon
  <2>2. Cardinality({d \in plugged : d >= 1}) = count
    BY ONLY <2>1, Zenon
  <2>3. 1 \in Used => Cardinality({d \in plugged : d >= 1}) <= k
    BY Zenon
  <2> QED
    BY <2>2, <2>3
<1>4. Used \subseteq plugged /\ Free \subseteq (1..q) \ plugged
  OBVIOUS
<1>5. plugged = 1..count /\ k <= count => Used = (count - k + 1)..count
  <2>1. ASSUME NEW m \in Nat, plugged = 1..m, k <= m PROVE Used = (m - k + 1)..m
    BY <2>1, LastSlots
  <2> QED
    BY <1>0, <2>1
<1>6. plugged = 1..count /\ count + k <= q => Free = (count + 1)..(count + k)
  <2>1. ASSUME NEW m \in Nat, plugged = 1..m, m + k <= q PROVE Free = (m + 1)..(m + k)
    BY <2>1, <1>0, NextSlots
  <2> QED
    BY <1>0, <2>1
<1> HIDE DEF count, q, Free, Used
<1>7. CASE actual < count /\ k <= count - actual /\ ejecting' = ejecting \cup Used /\ plugged' = plugged
  <2>1. 1 \notin Used
    BY <1>0, <1>3, <1>7
  <2>2. ASSUME ~rushed' PROVE \E m \in 0..q : plugged' \ ejecting' = 1..m
    <3>1. plugged' = 1..count /\ ejecting' = (count - k + 1)..count /\ k <= count /\ count <= q
      BY <1>0, <1>2, <1>5, <1>7, <2>2
    <3>2. plugged' \ ejecting' = 1..(count - k) /\ count - k \in 0..q
      BY <3>1, <1>0
    <3> QED
      BY <3>2
  <2> QED
    BY <1>0, <1>4, <1>7, <2>1, <2>2 DEF FirstStay, q
<1>8. CASE ~(actual < count) /\ k <= actual - count /\ plugged' = plugged \cup Free /\ ejecting' = ejecting
  <2>1. ASSUME ~rushed' PROVE \E m \in 0..q : plugged' \ ejecting' = 1..m
    <3>0. count + k <= q
      BY <1>0, <1>8 DEF q
    <3>1. plugged' = (1..count) \cup ((count + 1)..(count + k)) /\ ejecting' = {}
      BY <1>2, <1>6, <1>8, <2>1, <3>0
    <3>2. plugged' \ ejecting' = 1..(count + k) /\ count + k \in 0..q
      BY <3>0, <3>1, <1>0
    <3> QED
      BY <3>2
  <2> QED
    BY <1>0, <1>4, <1>8, <2>1 DEF FirstStay, q
<1> QED
  BY <1>1, <1>7, <1>8

\* The limits a start finds are in order, and every request leaves them so.
LEMMA ResourceStarts == ResourceInit => ResourceInv
<1> SUFFICES ASSUME ResourceInit PROVE ResourceInv
  OBVIOUS
<1>1. PICK s \in Sizes : mem = [actual |-> s, total |-> s]
  BY DEF ResourceInit
<1>2. mem \in Pairs /\ mem.actual \in 1..mem.total
  BY <1>1, ResourceAssumption DEF Pairs
<1>3. cpu \in [actual : Nat, total : Nat, sockets : Nat] /\ cpu.actual \in 1..cpu.total
  BY ResourceAssumption DEF ResourceInit
<1>4. ResourceTypes
  BY <1>2, <1>3 DEF ResourceInit, ResourceTypes, Off
<1>5. LiveMeansStored /\ FirstStay
  BY DEF ResourceInit, LiveMeansStored, FirstStay, Running, Nothing
<1> QED
  BY <1>2, <1>3, <1>4, <1>5 DEF ResourceInv, LimitsKept, LimitsOrdered

\* A change of the memory.
LEMMA MemorySetLimitsInv ==
    ASSUME ResourceInv, NEW a \in Sizes, NEW t \in Sizes \cup {0}, NEW live \in BOOLEAN,
           MemorySetLimits(a, t, live)
    PROVE  ResourceInv'
<1> DEFINE inQemu == live /\ Running
           total  == FilledTotal(t, inQemu, qemu.mem, mem.total)
           pair   == SetBoth(mem, a, total)
<1>1. a \in Nat /\ t \in Nat /\ qemu.mem \in Nat /\ mem \in Pairs /\ mem.actual \in 1..mem.total
  BY ResourceAssumption DEF ResourceInv, ResourceTypes, LimitsKept, LimitsOrdered, Pairs
<1>2. total \in Nat
  BY <1>1 DEF FilledTotal, Pairs
<1>3. pair # Refused => pair \in Pairs /\ pair.actual \in 1..pair.total
  BY <1>1, <1>2, SetBothOrders
<1>4. inQemu /\ LiveAccepts(a, t, qemu.mem) => pair # Refused
  BY <1>1, LiveIsAccepted, Zenon
<1>5. /\ UNCHANGED <<cpu, qemu, plugged, ejecting, setter, rushed>>
      /\ \/ /\ inQemu => LiveAccepts(a, t, qemu.mem)
            /\ balloon' = IF inQemu THEN [balloon EXCEPT !.target = a] ELSE balloon
            /\ mem' = IF pair = Refused THEN mem ELSE pair
            /\ last' = [op |-> "mem", live |-> inQemu, stored |-> pair # Refused, want |-> a]
         \/ /\ last' = [op |-> "mem", live |-> FALSE, stored |-> FALSE, want |-> 0]
            /\ UNCHANGED <<mem, balloon>>
  BY DEF MemorySetLimits, AnswerSetting
<1> HIDE DEF total, pair
<1>6. mem' \in Pairs /\ mem'.actual \in 1..mem'.total /\ balloon' \in [target : Nat, actual : Nat]
  BY <1>1, <1>3, <1>5 DEF ResourceInv, ResourceTypes
<1>7. LiveMeansStored'
  BY <1>4, <1>5 DEF LiveMeansStored
<1> QED
  BY <1>5, <1>6, <1>7
     DEF ResourceInv, ResourceTypes, LimitsKept, LimitsOrdered, FirstStay, Running

\* A change of the processors, complete or cut short by a command that fails.
LEMMA CPUSetLimitsInv ==
    ASSUME ResourceInv, NEW a \in 1..MaxCPU, NEW t \in 0..MaxCPU, NEW live \in BOOLEAN,
           CPUSetLimits(a, t, live)
    PROVE  ResourceInv'
<1> DEFINE inQemu == live /\ Running
           stored == [actual |-> cpu.actual, total |-> cpu.total]
           total  == FilledTotal(t, inQemu, qemu.cpu, cpu.total)
           pair   == SetBoth(stored, a, total)
<1>1. /\ a \in Nat /\ t \in Nat /\ qemu.cpu \in Nat /\ cpu.total \in Nat
      /\ stored \in Pairs /\ stored.actual \in 1..stored.total /\ stored.total = cpu.total
  BY ResourceAssumption DEF ResourceInv, ResourceTypes, LimitsKept, LimitsOrdered, Pairs
<1>2. total \in Nat
  BY <1>1 DEF FilledTotal, Pairs
<1>3. pair # Refused => pair \in Pairs /\ pair.actual \in 1..pair.total
  <2> HIDE DEF stored, total
  <2> QED
    BY <1>1, <1>2, SetBothOrders
<1>4. inQemu /\ LiveAccepts(a, t, qemu.cpu) => pair # Refused
  <2>1. inQemu => total = FilledTotal(t, TRUE, qemu.cpu, stored.total)
    BY <1>1 DEF FilledTotal
  <2> HIDE DEF stored, total
  <2> QED
    BY <1>1, <2>1, LiveIsAccepted
<1>5. /\ UNCHANGED <<mem, qemu, balloon, setter>>
      /\ rushed' = (rushed \/ (inQemu /\ ejecting # {}))
      /\ \/ /\ IF inQemu THEN /\ LiveAccepts(a, t, qemu.cpu)
                              /\ HotplugCPU(a, Distance(a))
                         ELSE UNCHANGED <<plugged, ejecting>>
            /\ cpu' = IF pair = Refused THEN cpu
                      ELSE [cpu EXCEPT !.actual = pair.actual, !.total = pair.total]
            /\ last' = [op |-> "cpu", live |-> inQemu, stored |-> pair # Refused, want |-> a]
         \/ /\ inQemu /\ LiveAccepts(a, t, qemu.cpu)
            /\ \E j \in 0..Distance(a) : HotplugCPU(a, j)
            /\ last' = [op |-> "cpu", live |-> FALSE, stored |-> FALSE, want |-> 0]
            /\ UNCHANGED cpu
  BY Zenon DEF CPUSetLimits, AnswerSetting
<1> HIDE DEF pair, stored, total
<1>6. /\ cpu' \in [actual : Nat, total : Nat, sockets : Nat]
      /\ cpu'.actual \in 1..cpu'.total
  BY <1>3, <1>5 DEF ResourceInv, ResourceTypes, LimitsKept, LimitsOrdered, Pairs
<1>7. LiveMeansStored'
  BY <1>4, <1>5 DEF LiveMeansStored
<1>8. rushed' \in BOOLEAN
  BY <1>5
<1>9. plugged' \subseteq 1..qemu'.cpu /\ ejecting' \subseteq plugged' /\ FirstStay'
  <2>1. CASE UNCHANGED <<plugged, ejecting>> /\ (inQemu => ejecting = {})
    BY <1>5, <2>1 DEF ResourceInv, ResourceTypes, FirstStay, Running
  <2>2. ASSUME inQemu, LiveAccepts(a, t, qemu.cpu), NEW j \in Nat, HotplugCPU(a, j)
        PROVE  plugged' \subseteq 1..qemu'.cpu /\ ejecting' \subseteq plugged' /\ FirstStay'
    <3>1. a \in 1..qemu.cpu /\ Running
      BY <2>2 DEF LiveAccepts
    <3>2. qemu' = qemu /\ (rushed \/ ejecting # {} => rushed')
      BY <1>5, <2>2
    <3> QED
      BY <1>8, <2>2, <3>1, <3>2, HotplugKeepsFirst DEF ResourceInv
  <2>3. Distance(a) \in Nat
    BY <1>1, PluggedCount DEF Distance, ResourceInv
  <2>5. CASE ~inQemu
    BY <1>5, <2>1, <2>5
  <2>6. CASE inQemu
    BY <1>5, <2>2, <2>3, <2>6
  <2> QED
    BY <2>5, <2>6
<1> QED
  BY <1>5, <1>6, <1>7, <1>8, <1>9
     DEF ResourceInv, ResourceTypes, LimitsKept, LimitsOrdered

\* The other steps: start and end of QEMU, the guest, and the registration's balloon.
LEMMA OtherResourceSteps ==
    ASSUME ResourceInv,
           \/ \E j \in 0..MaxCPU : CPUSetSockets(j)
           \/ Boot \/ PowerOff \/ Eject \/ Inflate \/ BalloonSet \/ BalloonGivesUp
           \/ UNCHANGED resourceVars
    PROVE  ResourceInv'
<1>1. CASE \E j \in 0..MaxCPU : CPUSetSockets(j)
  BY <1>1, ResourceAssumption
     DEF CPUSetSockets, AnswerSetting, ResourceInv, ResourceTypes, LimitsKept, LimitsOrdered,
         LiveMeansStored, FirstStay, Running
<1>2. CASE Boot
  <2>1. /\ mem.total \in Nat /\ cpu.total \in Nat /\ cpu.actual \in 1..cpu.total
        /\ qemu' = [mem |-> mem.total, cpu |-> cpu.total]
        /\ plugged' = 1..cpu.actual /\ ejecting' = {} /\ rushed' = FALSE
        /\ balloon' = [target |-> mem.total, actual |-> mem.total]
        /\ last' = Nothing /\ UNCHANGED <<mem, cpu>>
    BY <1>2 DEF Boot, ResourceInv, ResourceTypes, LimitsKept, LimitsOrdered, Pairs
  <2>2. FirstStay'
    <3>1. plugged' \ ejecting' = 1..cpu.actual /\ cpu.actual \in 0..qemu'.cpu /\ 1 \in 1..cpu.actual
      BY <2>1
    <3> QED
      BY <3>1 DEF FirstStay
  <2>3. qemu' \in [mem : Nat, cpu : Nat] /\ balloon' \in [target : Nat, actual : Nat]
    BY <2>1
  <2>4. plugged' \subseteq 1..qemu'.cpu /\ ejecting' \subseteq plugged'
    BY <2>1
  <2>5. setter' \in Nat
    BY <1>2, ResourceAssumption
       DEF Boot, MemActual, ResourceInv, LimitsKept, LimitsOrdered, ResourceTypes, Pairs
  <2>6. ResourceTypes'
    BY <2>1, <2>3, <2>4, <2>5 DEF ResourceInv, ResourceTypes
  <2>7. LimitsKept'
    BY <2>1 DEF ResourceInv, LimitsKept, LimitsOrdered, LiveMeansStored, Nothing
  <2> QED
    BY <2>2, <2>6, <2>7 DEF ResourceInv
<1>3. CASE PowerOff
  BY <1>3 DEF PowerOff, ResourceInv, ResourceTypes, LimitsKept, LimitsOrdered, LiveMeansStored,
              FirstStay, Running, Off, Nothing
<1>4. CASE Eject
  <2>1. PICK c \in ejecting : ejecting' = ejecting \ {c} /\ plugged' = plugged \ {c}
    BY <1>4 DEF Eject
  <2>2. plugged' \ ejecting' = plugged \ ejecting /\ UNCHANGED <<mem, cpu, qemu, balloon, setter, rushed, last>>
    BY <1>4, <2>1 DEF Eject
  <2>3. FirstStay'
    BY <2>2 DEF ResourceInv, FirstStay, Running
  <2> QED
    BY <2>1, <2>2, <2>3 DEF ResourceInv, ResourceTypes, LimitsKept, LimitsOrdered, LiveMeansStored
<1>5. CASE Inflate \/ BalloonGivesUp \/ UNCHANGED resourceVars
  BY <1>5 DEF Inflate, BalloonGivesUp, resourceVars, ResourceInv, ResourceTypes, LimitsKept,
              LimitsOrdered, LiveMeansStored, FirstStay, Running
<1>6. CASE BalloonSet
  BY <1>6 DEF BalloonSet, ResourceInv, ResourceTypes, LimitsKept,
              LimitsOrdered, LiveMeansStored, FirstStay, Running
<1> QED
  BY <1>1, <1>2, <1>3, <1>4, <1>5, <1>6

\* The invariant of memory and processors holds in every state.
LEMMA ResourceInvHolds == ResourceSpec => []ResourceInv
<1>1. ResourceInv /\ [ResourceNext]_resourceVars => ResourceInv'
  BY MemorySetLimitsInv, CPUSetLimitsInv, OtherResourceSteps DEF ResourceNext, Setting
<1> QED
  BY <1>1, ResourceStarts, PTL DEF ResourceSpec

\* A live change of the limits is stored as well, and what is stored is in order, after
\* any requests for any sizes.
THEOREM LimitsStayInOrder == ResourceSpec => []LimitsKept
<1>1. ResourceInv => LimitsKept
  BY DEF ResourceInv
<1> QED
  BY <1>1, ResourceInvHolds, PTL

\* The guest keeps the first processors, after any plugging in and out with failures
\* between the commands, as long as no request comes while others leave.
THEOREM FirstProcessorsStay == ResourceSpec => []ProcessorsAreFirst
<1>1. ASSUME ResourceInv, Running PROVE plugged \ ejecting # {}
  BY <1>1 DEF ResourceInv, FirstStay
<1>2. ASSUME ResourceInv, Running, ejecting = {}, ~rushed PROVE plugged = 1..Cardinality(plugged)
  <2>1. PICK k \in 0..qemu.cpu : plugged = 1..k
    BY <1>2 DEF ResourceInv, FirstStay
  <2>2. k \in Nat
    BY <1>2 DEF ResourceInv, ResourceTypes
  <2>3. Cardinality(1..k) = k
    BY <2>2, FS_Interval
  <2> QED
    BY <2>1, <2>3
<1>3. ResourceInv => ProcessorsAreFirst
  BY <1>1, <1>2 DEF ProcessorsAreFirst
<1> QED
  BY <1>3, ResourceInvHolds, PTL

-----------------------------------------------------------------------------
(* Media *)

MediaPcs == {"idle", "read", "map", "open", "change", "close", "failed"}
Medium   == [medium : AllMedia, version : Nat]

MediaTypes ==
    /\ image \in [Images -> Nat] /\ chroot \subseteq Medium
    /\ inserted \in [Drives -> Medium]
    /\ promise \in [Drives -> AllMedia \cup {"unknown"}]
    /\ change \in [pc : MediaPcs, drive : Drives \cup {None}, medium : AllMedia, old : AllMedia,
                   asked : Nat, read : SUBSET {"disks", "cdroms", "cidata"}]
    /\ used \in [requests : Nat, failures : Nat, builds : Nat]

\* A request leaves open what its drive will have until it is answered. An image is
\* for cloud-init only, which has nothing else but block devices.
RequestIsOpen ==
    /\ inserted["cdrom"].medium \notin Images
    /\ change.pc = "idle" => change = Idle
    /\ change.pc # "idle" => /\ change.drive \in Drives /\ promise[change.drive] = "unknown"
                             /\ change.drive = "cdrom"  => change.medium \notin Images
                             /\ change.drive = "cidata" => IsLocal(change.medium)
                             /\ change.drive = "cidata" => change.pc # "failed"
    /\ change.pc \in {"map", "open", "change", "failed"} => change.old = inserted[change.drive].medium
    /\ change.drive = "cdrom" => change.old \notin Images

\* What QEMU is told to open is there, and is what it has afterwards.
NewIsThere ==
    /\ change.pc \in {"open", "change"} /\ IsLocal(change.medium) => InChroot(change.medium)
    /\ change.pc = "close" => /\ inserted[change.drive].medium = change.medium
                              /\ change.medium \in Images => inserted[change.drive] \in chroot

\* The image that a request copies is no older than the request.
CopyIsCurrent ==
    change.medium \in Images =>
        /\ change.pc # "idle" => change.asked <= image[change.medium]
        /\ change.pc \in {"open", "change"} =>
               \A e \in chroot : e.medium = change.medium => e.version >= change.asked
        /\ change.pc = "close" => inserted[change.drive].version >= change.asked

InUse(e) == \/ e.medium = inserted["cidata"].medium
            \/ used.failures > 0 /\ promise["cidata"] # e.medium

\* The images in the chroot, while the next one comes in and the old one goes.
ImagesAccounted ==
    \A e \in chroot : e.medium \in Images =>
        IF change.drive = "cidata" /\ change.pc = "close"
        THEN e.medium \in {change.old, change.medium} \/ used.failures > 0
        ELSE \/ InUse(e)
             \/ /\ change.drive = "cidata" /\ change.pc \in {"open", "change"}
                /\ e.medium = change.medium

MediaInv == /\ MediaTypes /\ RequestIsOpen /\ NewIsThere /\ CopyIsCurrent /\ ImagesAccounted
            /\ AnsweredIsInserted

\* What a step of a request does to the media. Each conjunct of the invariant is shown apart.

\* A new version of an image.
LEMMA BuildMedia ==
    ASSUME MediaInv, \E i \in Images : BuildImage(i)
    PROVE  MediaInv'
<1>0. MediaTypes /\ RequestIsOpen /\ NewIsThere /\ CopyIsCurrent /\ ImagesAccounted /\ AnsweredIsInserted
  BY DEF MediaInv
<1>1. MediaTypes'
  BY <1>0, MediaAssumption
     DEF MediaTypes, Drives, None, AllMedia, IsLocal, InChroot, MediaPcs, Medium, BuildImage
<1>2. RequestIsOpen'
  BY <1>0, MediaAssumption
     DEF RequestIsOpen, MediaTypes, Drives, None, AllMedia, IsLocal, InChroot, MediaPcs, Medium, BuildImage
<1>3. NewIsThere'
  BY <1>0, MediaAssumption
     DEF NewIsThere, RequestIsOpen, AnsweredIsInserted, MediaTypes, Drives, None, AllMedia, IsLocal, InChroot, MediaPcs, Medium, BuildImage
<1>4. CopyIsCurrent'
  BY <1>0, MediaAssumption
     DEF CopyIsCurrent, RequestIsOpen, MediaTypes, Drives, None, AllMedia, IsLocal, InChroot, MediaPcs, Medium, BuildImage
<1>5. ImagesAccounted'
  BY <1>0, MediaAssumption
     DEF ImagesAccounted, RequestIsOpen, InUse, NewIsThere, MediaTypes, Drives, None, AllMedia, IsLocal, InChroot, MediaPcs, Medium, BuildImage
<1>6. AnsweredIsInserted'
  BY <1>0, MediaAssumption
     DEF AnsweredIsInserted, RequestIsOpen, NewIsThere, MediaTypes, Drives, None, AllMedia, IsLocal, InChroot, MediaPcs, Medium, BuildImage
<1> QED
  BY <1>1, <1>2, <1>3, <1>4, <1>5, <1>6 DEF MediaInv

\* A request begins.
LEMMA RequestMedia ==
    ASSUME MediaInv, \E d \in Drives, m \in AllMedia : Request(d, m)
    PROVE  MediaInv'
<1>0. MediaTypes /\ RequestIsOpen /\ NewIsThere /\ CopyIsCurrent /\ ImagesAccounted /\ AnsweredIsInserted
  BY DEF MediaInv
<1>1. MediaTypes'
  <2>1. PICK d \in Drives, m \in AllMedia : Request(d, m)
    OBVIOUS
  <2>2. Version(m) \in Nat
    BY <1>0 DEF Version, MediaTypes
  <2>3. change' = [pc |-> "read", drive |-> d, medium |-> m, old |-> None, asked |-> Version(m), read |-> {}]
    BY <2>1 DEF Request, Idle
  <2>4. change' \in [pc : MediaPcs, drive : Drives \cup {None}, medium : AllMedia, old : AllMedia,
                    asked : Nat, read : SUBSET {"disks", "cdroms", "cidata"}]
    BY <2>2, <2>3 DEF MediaPcs, AllMedia, None
  <2>5. UNCHANGED <<image, chroot, inserted>> /\ used' = [used EXCEPT !.requests = @ + 1]
        /\ promise' = [promise EXCEPT ![d] = "unknown"]
    BY <2>1 DEF Request
  <2> QED
    BY <1>0, <2>4, <2>5 DEF MediaTypes
<1>2. RequestIsOpen'
  BY <1>0, MediaAssumption
     DEF RequestIsOpen, MediaTypes, Drives, None, AllMedia, IsLocal, InChroot, MediaPcs, Medium, Request, Version, Idle
<1>3. NewIsThere'
  BY <1>0, MediaAssumption
     DEF NewIsThere, RequestIsOpen, AnsweredIsInserted, MediaTypes, Drives, None, AllMedia, IsLocal, InChroot, MediaPcs, Medium, Request, Version, Idle
<1>4. CopyIsCurrent'
  BY <1>0, MediaAssumption
     DEF CopyIsCurrent, RequestIsOpen, MediaTypes, Drives, None, AllMedia, IsLocal, InChroot, MediaPcs, Medium, Request, Version, Idle
<1>5. ImagesAccounted'
  BY <1>0, MediaAssumption
     DEF ImagesAccounted, RequestIsOpen, InUse, NewIsThere, MediaTypes, Drives, None, AllMedia, IsLocal, InChroot, MediaPcs, Medium, Request, Version, Idle
<1>6. AnsweredIsInserted'
  BY <1>0, MediaAssumption
     DEF AnsweredIsInserted, RequestIsOpen, NewIsThere, MediaTypes, Drives, None, AllMedia, IsLocal, InChroot, MediaPcs, Medium, Request, Version, Idle
<1> QED
  BY <1>1, <1>2, <1>3, <1>4, <1>5, <1>6 DEF MediaInv

\* The machine is read, the tray opens, or nothing happens.
LEMMA ReadMedia ==
    ASSUME MediaInv, initDiskPool \/ initCdromPool \/ initCloudInitDrive \/ OpenTray \/ UNCHANGED mediaVars
    PROVE  MediaInv'
<1>0. MediaTypes /\ RequestIsOpen /\ NewIsThere /\ CopyIsCurrent /\ ImagesAccounted /\ AnsweredIsInserted
  BY DEF MediaInv
<1>1. MediaTypes'
  BY <1>0, MediaAssumption
     DEF MediaTypes, Drives, None, AllMedia, IsLocal, InChroot, MediaPcs, Medium, initDiskPool, initCdromPool, initCloudInitDrive, OpenTray, mediaVars, Idle, Goto
<1>2. RequestIsOpen'
  BY <1>0, MediaAssumption
     DEF RequestIsOpen, MediaTypes, Drives, None, AllMedia, IsLocal, InChroot, MediaPcs, Medium, initDiskPool, initCdromPool, initCloudInitDrive, OpenTray, mediaVars, Idle, Goto
<1>3. NewIsThere'
  BY <1>0, MediaAssumption
     DEF NewIsThere, RequestIsOpen, AnsweredIsInserted, MediaTypes, Drives, None, AllMedia, IsLocal, InChroot, MediaPcs, Medium, initDiskPool, initCdromPool, initCloudInitDrive, OpenTray, mediaVars, Idle, Goto
<1>4. CopyIsCurrent'
  BY <1>0, MediaAssumption
     DEF CopyIsCurrent, RequestIsOpen, MediaTypes, Drives, None, AllMedia, IsLocal, InChroot, MediaPcs, Medium, initDiskPool, initCdromPool, initCloudInitDrive, OpenTray, mediaVars, Idle, Goto
<1>5. ImagesAccounted'
  BY <1>0, MediaAssumption
     DEF ImagesAccounted, RequestIsOpen, InUse, NewIsThere, MediaTypes, Drives, None, AllMedia, IsLocal, InChroot, MediaPcs, Medium, initDiskPool, initCdromPool, initCloudInitDrive, OpenTray, mediaVars, Idle, Goto
<1>6. AnsweredIsInserted'
  BY <1>0, MediaAssumption
     DEF AnsweredIsInserted, RequestIsOpen, NewIsThere, MediaTypes, Drives, None, AllMedia, IsLocal, InChroot, MediaPcs, Medium, initDiskPool, initCdromPool, initCloudInitDrive, OpenTray, mediaVars, Idle, Goto
<1> QED
  BY <1>1, <1>2, <1>3, <1>4, <1>5, <1>6 DEF MediaInv

\* The machine is read.
LEMMA CheckedMedia ==
    ASSUME MediaInv, Checked
    PROVE  MediaInv'
<1>0. MediaTypes /\ RequestIsOpen /\ NewIsThere /\ CopyIsCurrent /\ ImagesAccounted /\ AnsweredIsInserted
  BY DEF MediaInv
<1>a. change.drive \in Drives /\ inserted[change.drive].medium \in AllMedia
  BY <1>0 DEF Checked, RequestIsOpen, MediaTypes, Medium
<1>1. MediaTypes'
  <2>1. \/ change' = Idle
        \/ change' = [change EXCEPT !.pc = "map", !.old = inserted[change.drive].medium]
    BY DEF Checked
  <2>2. Idle \in [pc : MediaPcs, drive : Drives \cup {None}, medium : AllMedia, old : AllMedia,
                    asked : Nat, read : SUBSET {"disks", "cdroms", "cidata"}]
    BY DEF MediaPcs, Idle, AllMedia, None
  <2>3. [change EXCEPT !.pc = "map", !.old = inserted[change.drive].medium] \in
          [pc : MediaPcs, drive : Drives \cup {None}, medium : AllMedia, old : AllMedia,
                    asked : Nat, read : SUBSET {"disks", "cdroms", "cidata"}]
    BY <1>0, <1>a DEF MediaTypes, MediaPcs
  <2>4. change' \in [pc : MediaPcs, drive : Drives \cup {None}, medium : AllMedia, old : AllMedia,
                    asked : Nat, read : SUBSET {"disks", "cdroms", "cidata"}]
    BY <2>1, <2>2, <2>3, Zenon
  <2> QED
    BY <1>0, <2>4 DEF MediaTypes, Checked
<1>2. RequestIsOpen'
  BY <1>0, MediaAssumption
     DEF RequestIsOpen, MediaTypes, Drives, None, AllMedia, IsLocal, InChroot, MediaPcs, Medium, Checked, Idle
<1>3. NewIsThere'
  BY <1>0, MediaAssumption
     DEF NewIsThere, RequestIsOpen, AnsweredIsInserted, MediaTypes, Drives, None, AllMedia, IsLocal, InChroot, MediaPcs, Medium, Checked, Idle
<1>4. CopyIsCurrent'
  BY <1>0, MediaAssumption
     DEF CopyIsCurrent, RequestIsOpen, MediaTypes, Drives, None, AllMedia, IsLocal, InChroot, MediaPcs, Medium, Checked, Idle
<1>5. ImagesAccounted'
  BY <1>0, MediaAssumption
     DEF ImagesAccounted, RequestIsOpen, InUse, NewIsThere, MediaTypes, Drives, None, AllMedia, IsLocal, InChroot, MediaPcs, Medium, Checked, Idle
<1>6. AnsweredIsInserted'
  BY <1>0, MediaAssumption
     DEF AnsweredIsInserted, RequestIsOpen, NewIsThere, MediaTypes, Drives, None, AllMedia, IsLocal, InChroot, MediaPcs, Medium, Checked, Idle
<1> QED
  BY <1>1, <1>2, <1>3, <1>4, <1>5, <1>6 DEF MediaInv

\* The cdrom's medium comes into the chroot, or leaves it.
LEMMA MapCdromMedia ==
    ASSUME MediaInv, MapCdrom
    PROVE  MediaInv'
<1>0. MediaTypes /\ RequestIsOpen /\ NewIsThere /\ CopyIsCurrent /\ ImagesAccounted /\ AnsweredIsInserted
  BY DEF MediaInv
<1>a. change'.pc \in {"open", "failed"} /\ change'.medium = change.medium /\ inserted' = inserted
  BY <1>0 DEF MapCdrom, Goto, MediaTypes
<1>b. change.medium \notin Images
  BY <1>0 DEF MapCdrom, RequestIsOpen
<1>c. change'.pc = "open" /\ change.medium \in Blocks => [medium |-> change.medium, version |-> 0] \in chroot'
  BY <1>0, MediaAssumption DEF MapCdrom, Goto, MediaTypes, None
<1>1. MediaTypes'
  BY <1>0, MediaAssumption
     DEF MediaTypes, Drives, None, AllMedia, IsLocal, InChroot, MediaPcs, Medium, MapCdrom, Goto, Without
<1>2. RequestIsOpen'
  BY <1>0, MediaAssumption
     DEF RequestIsOpen, MediaTypes, Drives, None, AllMedia, IsLocal, InChroot, MediaPcs, Medium, MapCdrom, Goto, Without
<1>3. NewIsThere'
  <2>1. change'.pc = "open" /\ change.medium \in Blocks => InChroot(change.medium)'
    BY <1>a, <1>c DEF InChroot
  <2> QED
    BY <1>a, <1>b, <2>1 DEF NewIsThere, IsLocal
<1>4. CopyIsCurrent'
  BY <1>0, MediaAssumption
     DEF CopyIsCurrent, RequestIsOpen, MediaTypes, Drives, None, AllMedia, IsLocal, InChroot, MediaPcs, Medium, MapCdrom, Goto, Without
<1>5. ImagesAccounted'
  BY <1>0, MediaAssumption
     DEF ImagesAccounted, RequestIsOpen, InUse, NewIsThere, MediaTypes, Drives, None, AllMedia, IsLocal, InChroot, MediaPcs, Medium, MapCdrom, Goto, Without
<1>6. AnsweredIsInserted'
  BY <1>0, MediaAssumption
     DEF AnsweredIsInserted, RequestIsOpen, NewIsThere, MediaTypes, Drives, None, AllMedia, IsLocal, InChroot, MediaPcs, Medium, MapCdrom, Goto, Without
<1> QED
  BY <1>1, <1>2, <1>3, <1>4, <1>5, <1>6 DEF MediaInv

\* The image is copied.
LEMMA MapCloudInitMedia ==
    ASSUME MediaInv, MapCloudInit
    PROVE  MediaInv'
<1>0. MediaTypes /\ RequestIsOpen /\ NewIsThere /\ CopyIsCurrent /\ ImagesAccounted /\ AnsweredIsInserted
  BY DEF MediaInv
<1>a. /\ change'.pc = "open" /\ change'.medium = change.medium /\ inserted' = inserted
      /\ [medium |-> change.medium, version |-> Version(change.medium)] \in chroot'
  BY <1>0 DEF MapCloudInit, Goto, MediaTypes, RequestIsOpen
<1>1. MediaTypes'
  BY <1>0, MediaAssumption
     DEF MediaTypes, Drives, None, AllMedia, IsLocal, InChroot, MediaPcs, Medium, MapCloudInit, Goto, Without, Version
<1>2. RequestIsOpen'
  BY <1>0, MediaAssumption
     DEF RequestIsOpen, MediaTypes, Drives, None, AllMedia, IsLocal, InChroot, MediaPcs, Medium, MapCloudInit, Goto, Without, Version
<1>3. NewIsThere'
  <2>1. InChroot(change.medium)'
    BY <1>a DEF InChroot
  <2> QED
    BY <1>a, <2>1 DEF NewIsThere, IsLocal
<1>4. CopyIsCurrent'
  BY <1>0, MediaAssumption
     DEF CopyIsCurrent, RequestIsOpen, MediaTypes, Drives, None, AllMedia, IsLocal, InChroot, MediaPcs, Medium, MapCloudInit, Goto, Without, Version
<1>5. ImagesAccounted'
  BY <1>0, MediaAssumption
     DEF ImagesAccounted, RequestIsOpen, InUse, NewIsThere, MediaTypes, Drives, None, AllMedia, IsLocal, InChroot, MediaPcs, Medium, MapCloudInit, Goto, Without, Version
<1>6. AnsweredIsInserted'
  BY <1>0, MediaAssumption
     DEF AnsweredIsInserted, RequestIsOpen, NewIsThere, MediaTypes, Drives, None, AllMedia, IsLocal, InChroot, MediaPcs, Medium, MapCloudInit, Goto, Without, Version
<1> QED
  BY <1>1, <1>2, <1>3, <1>4, <1>5, <1>6 DEF MediaInv

\* QEMU opens the medium.
LEMMA ChangeMediumMedia ==
    ASSUME MediaInv, ChangeMedium
    PROVE  MediaInv'
<1>0. MediaTypes /\ RequestIsOpen /\ NewIsThere /\ CopyIsCurrent /\ ImagesAccounted /\ AnsweredIsInserted
  BY DEF MediaInv
<1> DEFINE new == inserted'[change.drive]
<1>a. /\ change.pc = "change" /\ change.drive \in Drives /\ change.medium \in AllMedia
      /\ change' = [change EXCEPT !.pc = "close"]
      /\ UNCHANGED <<image, chroot, promise, used>>
  BY <1>0 DEF ChangeMedium, Goto, RequestIsOpen, MediaTypes
<1>b. \A d \in Drives : d # change.drive => inserted'[d] = inserted[d]
  BY <1>0 DEF ChangeMedium, MediaTypes
<1>c. ~IsLocal(change.medium) => new \in Medium /\ new.medium = change.medium
  BY <1>0, <1>a DEF ChangeMedium, MediaTypes, Medium, Empty, AllMedia, None
<1>d. IsLocal(change.medium) => new \in chroot /\ new.medium = change.medium
  <2> SUFFICES ASSUME IsLocal(change.medium) PROVE new \in chroot /\ new.medium = change.medium
    OBVIOUS
  <2>1. \E e \in chroot : e.medium = change.medium
    BY <1>0, <1>a DEF NewIsThere, InChroot
  <2>2. change.medium # None
    BY MediaAssumption DEF IsLocal, None
  <2>3. inserted' = [inserted EXCEPT ![change.drive] = CHOOSE e \in chroot : e.medium = change.medium]
    BY <2>2 DEF ChangeMedium
  <2>4. new = CHOOSE e \in chroot : e.medium = change.medium
    BY <1>0, <1>a, <2>3 DEF MediaTypes
  <2> QED
    BY <2>1, <2>4
<1>e. new \in Medium /\ new.medium = change.medium
  BY <1>0, <1>c, <1>d DEF MediaTypes
<1>f. inserted' \in [Drives -> Medium]
  <2>1. \E x : inserted' = [inserted EXCEPT ![change.drive] = x]
    BY DEF ChangeMedium
  <2>2. inserted' = [d \in Drives |-> inserted'[d]]
    BY <1>0, <2>1 DEF MediaTypes
  <2>3. \A d \in Drives : inserted'[d] \in Medium
    BY <1>0, <1>b, <1>e DEF MediaTypes
  <2> QED
    BY <2>2, <2>3
<1> HIDE DEF new
<1>1. MediaTypes'
  BY <1>0, <1>a, <1>f DEF MediaTypes, MediaPcs
<1>2. RequestIsOpen'
  <2>1. change'.pc = "close" /\ change'.drive = change.drive /\ change'.medium = change.medium /\ change'.old = change.old
    BY <1>0, <1>a DEF MediaTypes
  <2>2. inserted'["cdrom"].medium \notin Images
    BY <1>0, <1>a, <1>b, <1>e DEF RequestIsOpen, Drives, new
  <2> QED
    BY <1>0, <1>a, <2>1, <2>2 DEF RequestIsOpen, IsLocal
<1>3. NewIsThere'
  <2>1. change'.pc = "close" /\ change'.drive = change.drive /\ change'.medium = change.medium
    BY <1>0, <1>a DEF MediaTypes
  <2> QED
    BY <1>a, <1>d, <1>e, <2>1 DEF NewIsThere, IsLocal, new
<1>4. CopyIsCurrent'
  <2>1. change'.pc = "close" /\ change'.drive = change.drive /\ change'.medium = change.medium /\ change'.asked = change.asked
    BY <1>0, <1>a DEF MediaTypes
  <2> QED
    BY <1>0, <1>a, <1>d, <2>1 DEF CopyIsCurrent, IsLocal, new
<1>5. ImagesAccounted'
  BY <1>0, MediaAssumption
     DEF ImagesAccounted, RequestIsOpen, InUse, NewIsThere, MediaTypes, Drives, None, AllMedia, IsLocal, InChroot, MediaPcs, Medium, ChangeMedium, Goto, Empty
<1>6. AnsweredIsInserted'
  BY <1>0, MediaAssumption
     DEF AnsweredIsInserted, RequestIsOpen, NewIsThere, MediaTypes, Drives, None, AllMedia, IsLocal, InChroot, MediaPcs, Medium, ChangeMedium, Goto, Empty
<1> QED
  BY <1>1, <1>2, <1>3, <1>4, <1>5, <1>6 DEF MediaInv

\* The request is answered, and the old medium goes.
LEMMA DoneMedia ==
    ASSUME MediaInv, Done
    PROVE  MediaInv'
<1>0. MediaTypes /\ RequestIsOpen /\ NewIsThere /\ CopyIsCurrent /\ ImagesAccounted /\ AnsweredIsInserted
  BY DEF MediaInv
<1>1. MediaTypes'
  BY <1>0, MediaAssumption
     DEF MediaTypes, Drives, None, AllMedia, IsLocal, InChroot, MediaPcs, Medium, Done, Idle, Without
<1>2. RequestIsOpen'
  BY <1>0, MediaAssumption
     DEF RequestIsOpen, MediaTypes, Drives, None, AllMedia, IsLocal, InChroot, MediaPcs, Medium, Done, Idle, Without
<1>3. NewIsThere'
  BY <1>0, MediaAssumption
     DEF NewIsThere, RequestIsOpen, AnsweredIsInserted, MediaTypes, Drives, None, AllMedia, IsLocal, InChroot, MediaPcs, Medium, Done, Idle, Without
<1>4. CopyIsCurrent'
  BY <1>0, MediaAssumption
     DEF CopyIsCurrent, RequestIsOpen, MediaTypes, Drives, None, AllMedia, IsLocal, InChroot, MediaPcs, Medium, Done, Idle, Without
<1>5. ImagesAccounted'
  BY <1>0, MediaAssumption
     DEF ImagesAccounted, RequestIsOpen, InUse, NewIsThere, MediaTypes, Drives, None, AllMedia, IsLocal, InChroot, MediaPcs, Medium, Done, Idle, Without
<1>6. AnsweredIsInserted'
  BY <1>0, MediaAssumption
     DEF AnsweredIsInserted, RequestIsOpen, NewIsThere, MediaTypes, Drives, None, AllMedia, IsLocal, InChroot, MediaPcs, Medium, Done, Idle, Without
<1> QED
  BY <1>1, <1>2, <1>3, <1>4, <1>5, <1>6 DEF MediaInv

\* The request fails, and the new medium goes.
LEMMA ChangeFailsMedia ==
    ASSUME MediaInv, ChangeFails
    PROVE  MediaInv'
<1>0. MediaTypes /\ RequestIsOpen /\ NewIsThere /\ CopyIsCurrent /\ ImagesAccounted /\ AnsweredIsInserted
  BY DEF MediaInv
<1>1. MediaTypes'
  BY <1>0, MediaAssumption
     DEF MediaTypes, Drives, None, AllMedia, IsLocal, InChroot, MediaPcs, Medium, ChangeFails, Idle, Without
<1>2. RequestIsOpen'
  BY <1>0, MediaAssumption
     DEF RequestIsOpen, MediaTypes, Drives, None, AllMedia, IsLocal, InChroot, MediaPcs, Medium, ChangeFails, Idle, Without
<1>3. NewIsThere'
  BY <1>0, MediaAssumption
     DEF NewIsThere, RequestIsOpen, AnsweredIsInserted, MediaTypes, Drives, None, AllMedia, IsLocal, InChroot, MediaPcs, Medium, ChangeFails, Idle, Without
<1>4. CopyIsCurrent'
  BY <1>0, MediaAssumption
     DEF CopyIsCurrent, RequestIsOpen, MediaTypes, Drives, None, AllMedia, IsLocal, InChroot, MediaPcs, Medium, ChangeFails, Idle, Without
<1>5. ImagesAccounted'
  BY <1>0, MediaAssumption
     DEF ImagesAccounted, RequestIsOpen, InUse, NewIsThere, MediaTypes, Drives, None, AllMedia, IsLocal, InChroot, MediaPcs, Medium, ChangeFails, Idle, Without
<1>6. AnsweredIsInserted'
  BY <1>0, MediaAssumption
     DEF AnsweredIsInserted, RequestIsOpen, NewIsThere, MediaTypes, Drives, None, AllMedia, IsLocal, InChroot, MediaPcs, Medium, ChangeFails, Idle, Without
<1> QED
  BY <1>1, <1>2, <1>3, <1>4, <1>5, <1>6 DEF MediaInv

\* The invariant of the media holds at the start.
LEMMA MediaInitInv == MediaInit => MediaInv
<1> SUFFICES ASSUME MediaInit PROVE MediaInv
  OBVIOUS
<1>1. PICK i \in Images :
         /\ chroot = {[medium |-> i, version |-> 0]}
         /\ inserted = [d \in Drives |-> IF d = "cidata" THEN [medium |-> i, version |-> 0] ELSE Empty]
         /\ promise = [d \in Drives |-> IF d = "cidata" THEN i ELSE None]
  BY DEF MediaInit
<1>2. image = [j \in Images |-> 0] /\ change = Idle /\ used = [requests |-> 0, failures |-> 0, builds |-> 0]
  BY DEF MediaInit
<1>3. Idle \in [pc : MediaPcs, drive : Drives \cup {None}, medium : AllMedia, old : AllMedia,
                    asked : Nat, read : SUBSET {"disks", "cdroms", "cidata"}]
  BY DEF MediaPcs, Idle, AllMedia, None
<1>4. MediaTypes
  BY <1>1, <1>2, <1>3 DEF MediaTypes, Medium, AllMedia, Empty, Drives
<1>5. RequestIsOpen /\ NewIsThere /\ CopyIsCurrent
  BY <1>1, <1>2, MediaAssumption DEF RequestIsOpen, NewIsThere, CopyIsCurrent, Idle, Drives, Empty, None
<1>6. ImagesAccounted /\ AnsweredIsInserted
  BY <1>1, <1>2, MediaAssumption DEF ImagesAccounted, AnsweredIsInserted, InUse, Idle, Drives, Empty, None
<1> QED
  BY <1>4, <1>5, <1>6 DEF MediaInv

\* The invariant of the media holds in every state.
LEMMA MediaInvHolds == MediaSpec => []MediaInv
<1>1. MediaInv /\ [MediaNext]_mediaVars => MediaInv'
  BY BuildMedia, RequestMedia, ReadMedia, CheckedMedia, MapCdromMedia, MapCloudInitMedia,
     ChangeMediumMedia, DoneMedia, ChangeFailsMedia
     DEF MediaNext, AllMedia
<1> QED
  BY <1>1, MediaInitInv, PTL DEF MediaSpec

\* A change that was answered is what the drive has, and an image stays where QEMU can
\* open it, for any media, requests, failures and new versions.
THEOREM AnsweredMediaAreInserted == MediaSpec => []AnsweredIsInserted
<1>1. MediaInv => AnsweredIsInserted
  BY DEF MediaInv
<1> QED
  BY <1>1, MediaInvHolds, PTL

\* The guest gets an image no older than its request, and the chroot keeps no other.
THEOREM ImagesAreCurrent == MediaSpec => []ImageIsCurrent
<1>1. MediaInv => RefreshIsSeen
  BY DEF MediaInv, CopyIsCurrent, RefreshIsSeen
<1>2. MediaInv => OnlyImageInUse
  BY DEF MediaInv, ImagesAccounted, InUse, OnlyImageInUse, Idle, None
<1> QED
  BY <1>1, <1>2, MediaInvHolds, PTL DEF ImageIsCurrent

-----------------------------------------------------------------------------
(* Devices *)

IsDisk(d) == Kind[d] \in {"blk", "scsi"}
HasPart(d, p) == p \in parts[d]

PlugTypes ==
    /\ parts \in [Devices -> SUBSET AllParts]
    /\ leaving \subseteq Devices /\ stray \subseteq Devices /\ half \subseteq Devices
    /\ answer \in [Devices -> {"none", "attached", "detached", "attached, leaving"}]
    /\ n \in [requests : Nat, failures : Nat]

\* A device has the backends that were made for it, and is there as long as the guest
\* has to release it. The node went before the guest was asked.
Backed(d) ==
    /\ IsDisk(d) \/ Kind[d] = "cdrom" => (HasPart(d, "device") => HasPart(d, "drive"))
    /\ Kind[d] = "net" => (HasPart(d, "device") => HasPart(d, "tap") /\ HasPart(d, "netdev"))
    /\ d \in leaving => Kind[d] # "scsi" /\ HasPart(d, "device") /\ ~HasPart(d, "node")

\* How far an attachment is: what is left of its steps, and what is there already.
DiskComes(d, steps) ==
    \/ steps = <<"node", "drive", "device">> /\ ~HasPart(d, "device")
    \/ steps = <<"drive", "device">> /\ ~HasPart(d, "device") /\ HasPart(d, "node")
    \/ steps = <<"device">> /\ ~HasPart(d, "device") /\ HasPart(d, "node") /\ HasPart(d, "drive")
    \/ steps = <<>> /\ HasPart(d, "node") /\ HasPart(d, "drive") /\ HasPart(d, "device") /\ d \notin leaving

CdromComes(d, steps) ==
    \/ steps = <<"drive", "device", "node", "medium">> /\ ~HasPart(d, "device")
    \/ steps = <<"device", "node", "medium">> /\ ~HasPart(d, "device") /\ HasPart(d, "drive")
    \/ /\ steps \in {<<"node", "medium">>, <<"medium">>, <<>>}
       /\ HasPart(d, "drive") /\ HasPart(d, "device") /\ d \notin leaving

NetComes(d, steps) ==
    \/ steps = <<"tap", "netdev", "device", "file">> /\ ~HasPart(d, "device")
    \/ steps = <<"netdev", "device", "file">> /\ ~HasPart(d, "device") /\ HasPart(d, "tap")
    \/ steps = <<"device", "file">> /\ ~HasPart(d, "device") /\ HasPart(d, "tap") /\ HasPart(d, "netdev")
    \/ /\ steps = <<"file">> \/ (steps = <<>> /\ HasPart(d, "file"))
       /\ HasPart(d, "device") /\ d \notin leaving

VSockComes(d, steps) ==
    \/ steps = <<"device">> /\ ~HasPart(d, "device")
    \/ steps = <<>> /\ HasPart(d, "device") /\ d \notin leaving

\* How far a detachment is.
DiskGoes(d, steps) ==
    \/ steps = <<"node", "device", "wait", "drive">>
    \/ steps = <<"device", "wait", "drive">> /\ ~HasPart(d, "node")
    \/ steps = <<"wait", "drive">> /\ ~HasPart(d, "node") /\ (HasPart(d, "device") => d \in leaving)
    \/ steps = <<"drive">> /\ ~HasPart(d, "node") /\ ~HasPart(d, "device")
    \/ steps = <<>> /\ ~HasPart(d, "node") /\ ~HasPart(d, "device") /\ ~HasPart(d, "drive")

SCSIDiskGoes(d, steps) ==
    \/ steps = <<"node", "device", "drive">>
    \/ steps = <<"device", "drive">> /\ ~HasPart(d, "node")
    \/ steps = <<"drive">> /\ ~HasPart(d, "node") /\ ~HasPart(d, "device")
    \/ steps = <<>> /\ ~HasPart(d, "node") /\ ~HasPart(d, "device") /\ ~HasPart(d, "drive")

NetGoes(d, steps) ==
    \/ steps = <<"device", "wait", "netdev", "tap", "file">>
    \/ steps = <<"wait", "netdev", "tap", "file">> /\ (HasPart(d, "device") => d \in leaving)
    \/ /\ steps \in {<<"netdev", "tap", "file">>, <<"tap", "file">>, <<"file">>, <<>>}
       /\ ~HasPart(d, "device")

VSockGoes(d, steps) == steps \in {<<"device">>, <<>>}

Progress(op, d, steps) ==
    \/ /\ op = "attach"
       /\ IsDisk(d) => DiskComes(d, steps)
       /\ Kind[d] = "cdrom" => CdromComes(d, steps)
       /\ Kind[d] = "net" => NetComes(d, steps)
       /\ Kind[d] = "vsock" => VSockComes(d, steps)
    \/ /\ op = "detach"
       /\ Kind[d] \in {"blk", "cdrom"} => DiskGoes(d, steps)
       /\ Kind[d] = "scsi" => SCSIDiskGoes(d, steps)
       /\ Kind[d] = "net" => NetGoes(d, steps)
       /\ Kind[d] = "vsock" => VSockGoes(d, steps)

\* The request that runs. While it does, nothing is said of its device.
RequestRuns ==
    req = NoRequest \/ /\ req = [op |-> req.op, dev |-> req.dev, steps |-> req.steps]
                       /\ req.op \in {"attach", "detach"} /\ req.dev \in Devices
                       /\ answer[req.dev] = "none"
                       /\ Progress(req.op, req.dev, req.steps)

Attaching(d) == req.op = "attach" /\ req.dev = d

\* A node without its device is one of a disk that is being attached, or a stray one.
NodeAccounted(d) ==
    d \notin stray /\ HasPart(d, "node") /\ ~HasPart(d, "device") =>
        Attaching(d) /\ IsDisk(d) /\ req.steps \in {<<"drive", "device">>, <<"device">>}

\* A device that was not left half attached is unreadable only in the middle of an
\* attachment.
ReadableBetween(d) ==
    d \notin half =>
        /\ IsDisk(d) /\ HasPart(d, "drive") /\ ~HasPart(d, "device") => Attaching(d) /\ req.steps = <<"device">>
        /\ Kind[d] = "net" /\ HasPart(d, "device") /\ ~HasPart(d, "file") => Attaching(d) /\ req.steps = <<"file">>

\* What was said of a device is true, and it stays so: one that was attached is not on
\* its way out.
Answered(d) ==
    /\ answer[d] = "attached" =>
           d \notin leaving /\ IF Kind[d] = "cdrom" THEN Known(d) ELSE All(d) \ {"node"} \subseteq parts[d]
    /\ IsDisk(d) /\ answer[d] = "detached" /\ d \notin stray => parts[d] = {}

Sound(d) == /\ parts[d] \subseteq All(d) /\ Backed(d)
            /\ NodeAccounted(d) /\ ReadableBetween(d) /\ Answered(d)

PlugInv == PlugTypes /\ RequestRuns /\ \A d \in Devices : Sound(d)

\* The parts of a device of each kind.
LEMMA PartsOfKinds ==
    ASSUME NEW d \in Devices
    PROVE  /\ Kind[d] \in Kinds
           /\ IsDisk(d) => All(d) = {"node", "drive", "device"}
           /\ Kind[d] = "cdrom" => All(d) = {"drive", "device", "node", "medium"}
           /\ Kind[d] = "net" => All(d) = {"tap", "netdev", "device", "file"}
           /\ Kind[d] = "vsock" => All(d) = {"device"}
<1>1. Kind[d] \in Kinds
  BY HotplugAssumption
<1>2. CASE Kind[d] = "blk"
  BY <1>2 DEF All, AttachSteps, DiskAppend, Kinds, IsDisk
<1>3. CASE Kind[d] = "scsi"
  BY <1>3 DEF All, AttachSteps, DiskAppend, Kinds, IsDisk
<1>4. CASE Kind[d] = "cdrom"
  BY <1>4 DEF All, AttachSteps, CdromAppend, Kinds, IsDisk
<1>5. CASE Kind[d] = "net"
  BY <1>5 DEF All, AttachSteps, NetIfaceAppend, Kinds, IsDisk
<1>6. CASE Kind[d] = "vsock"
  BY <1>6 DEF All, AttachSteps, VSockDeviceAppend, Kinds, IsDisk
<1> QED
  BY <1>1, <1>2, <1>3, <1>4, <1>5, <1>6 DEF Kinds

\* Nothing but its own parts, the guest and the request for it can disturb a device.
LEMMA OthersStay ==
    ASSUME NEW e \in Devices, Sound(e),
           parts'[e] = parts[e], e \in leaving' <=> e \in leaving, e \in stray' <=> e \in stray,
           answer'[e] = answer[e], e \in half => e \in half',
           req' = req \/ req.dev # e \/ req = NoRequest
    PROVE  Sound(e)'
<1>1. Backed(e)'
  BY DEF Sound, Backed, HasPart, IsDisk
<1>2. NodeAccounted(e)'
  BY DEF Sound, NodeAccounted, HasPart, IsDisk, Attaching, NoRequest
<1>3. ReadableBetween(e)'
  BY DEF Sound, ReadableBetween, HasPart, IsDisk, Attaching, NoRequest
<1>4. (parts[e] \subseteq All(e))'
  BY DEF Sound, All
<1>5. Answered(e)'
  BY DEF Sound, Answered, Known, All, IsDisk
<1> QED
  BY <1>1, <1>2, <1>3, <1>4, <1>5 DEF Sound

\* A request begins, with all its steps before it, or is answered at once.
LEMMA BeginPlug ==
    ASSUME PlugInv, NEW op \in {"attach", "detach"}, NEW d \in Devices, Begin(op, d)
    PROVE  PlugInv'
<1>0. PlugTypes /\ Sound(d) /\ req = NoRequest /\ UNCHANGED <<parts, leaving, stray, half>>
  BY DEF PlugInv, Begin
<1>a. \/ /\ Readable /\ (Known(d) <=> op = "detach")
         /\ req' = [op |-> op, dev |-> d,
                    steps |-> IF op = "attach" THEN AttachSteps[Kind[d]] ELSE DetachSteps[Kind[d]]]
         /\ answer' = [answer EXCEPT ![d] = "none"]
      \/ Readable /\ ~Known(d) /\ answer' = [answer EXCEPT ![d] = "detached"] /\ req' = req
      \/ /\ Readable /\ Known(d) /\ d \notin leaving /\ req' = req
         /\ answer' = [answer EXCEPT ![d] = "attached"]
      \/ /\ Readable /\ Known(d) /\ d \in leaving /\ req' = req
         /\ answer' = [answer EXCEPT ![d] = "attached, leaving"]
      \/ answer' = answer /\ req' = req
  BY <1>0 DEF Begin, Known
<1>b. n' \in [requests : Nat, failures : Nat] /\ n'.failures = n.failures
  <2>1. n' = [n EXCEPT !.requests = @ + 1]
    BY DEF Begin
  <2>2. n \in [requests : Nat, failures : Nat]
    BY <1>0 DEF PlugTypes
  <2> QED
    BY ONLY <2>1, <2>2
<1>c. answer' \in [Devices -> {"none", "attached", "detached", "attached, leaving"}]
  BY <1>0, <1>a DEF PlugTypes
<1>1. PlugTypes'
  BY <1>0, <1>b, <1>c DEF PlugTypes
<1>2. \A e \in Devices \ {d} : answer'[e] = answer[e]
  BY <1>0, <1>a DEF PlugTypes
<1>3. n'.failures = n.failures
  BY <1>b
<1>4. \A e \in Devices \ {d} : Sound(e)'
  BY <1>0, <1>2, <1>3, OthersStay DEF PlugInv
<1>5. RequestRuns'
  <2>1. CASE req' = req
    BY <1>0, <2>1 DEF RequestRuns
  <2> DEFINE steps == IF op = "attach" THEN AttachSteps[Kind[d]] ELSE DetachSteps[Kind[d]]
  <2>2. CASE /\ Readable /\ (Known(d) <=> op = "detach")
             /\ req' = [op |-> op, dev |-> d, steps |-> steps]
             /\ answer' = [answer EXCEPT ![d] = "none"]
    <3>1. Kind[d] \in Kinds
      BY PartsOfKinds
    <3>2. op = "attach" => ~HasPart(d, "device")
      BY <1>0, <2>2, PartsOfKinds DEF Known, Sound, Backed, HasPart, IsDisk, Kinds
    <3>3. op = "attach" => Progress(op, d, steps)'
      BY <1>0, <3>1, <3>2
         DEF Kinds, AttachSteps, DiskAppend, CdromAppend, NetIfaceAppend, VSockDeviceAppend,
             Progress, DiskComes, CdromComes, NetComes, VSockComes, HasPart, IsDisk
    <3>4. op = "detach" => Progress(op, d, steps)'
      BY <3>1
         DEF Kinds, DetachSteps, DiskRemove, SCSIDiskRemove, CdromRemove, NetIfaceRemove,
             VSockDeviceRemove, Progress, DiskGoes, SCSIDiskGoes, NetGoes, VSockGoes, IsDisk
    <3>5. answer'[d] = "none"
      BY <1>0, <2>2 DEF PlugTypes
    <3> HIDE DEF steps
    <3>6. req' = [op |-> req'.op, dev |-> req'.dev, steps |-> req'.steps]
      BY <2>2
    <3>7. req'.op = op /\ req'.dev = d /\ req'.steps = steps
      BY <2>2
    <3>8. Progress(req.op, req.dev, req.steps)'
      BY <3>3, <3>4, <3>7 DEF Progress, DiskComes, CdromComes, NetComes, VSockComes, HasPart, IsDisk,
             DiskGoes, SCSIDiskGoes, NetGoes, VSockGoes
    <3> QED
      BY <3>5, <3>6, <3>7, <3>8 DEF RequestRuns
  <2> QED
    BY <1>a, <2>1, <2>2
<1>6. Backed(d)' /\ (parts[d] \subseteq All(d))'
  BY <1>0 DEF Sound, Backed, HasPart, IsDisk, All
<1>7. NodeAccounted(d)' /\ ReadableBetween(d)'
  BY <1>0, <1>3 DEF Sound, NodeAccounted, ReadableBetween, HasPart, IsDisk, Attaching, NoRequest
<1>8. Answered(d)'
  <2>1. CASE answer'[d] = "attached"
    <3>1. (Readable /\ Known(d) /\ d \notin leaving) \/ answer[d] = "attached"
      BY <1>0, <1>a, <2>1 DEF PlugTypes
    <3>2. CASE Readable /\ Known(d) /\ d \notin leaving
      <4>1. Kind[d] # "cdrom" => All(d) \ {"node"} \subseteq parts[d]
        BY <1>0, <3>2, PartsOfKinds DEF Readable, ReadableOf, Known, Sound, Backed, HasPart, Kinds, IsDisk
      <4> QED
        BY <1>0, <2>1, <3>2, <4>1 DEF Answered, Known, All
    <3> QED
      BY <1>0, <2>1, <3>1, <3>2 DEF Sound, Answered, Known, All
  <2>2. CASE answer'[d] = "detached"
    <3>1. (Readable /\ ~Known(d)) \/ answer[d] = "detached"
      BY <1>0, <1>a, <2>2 DEF PlugTypes
    <3>2. ASSUME Readable, ~Known(d), IsDisk(d), d \notin stray PROVE parts[d] = {}
      <4>1. All(d) = {"node", "drive", "device"} /\ parts[d] \subseteq All(d)
        BY <1>0, <3>2, PartsOfKinds DEF Sound
      <4>2. "device" \notin parts[d] /\ "drive" \notin parts[d]
        BY <1>0, <3>2, <4>1 DEF Readable, ReadableOf, Known, Sound, Backed, HasPart, IsDisk
      <4>3. "node" \notin parts[d]
        BY <1>0, <3>2, <4>2 DEF Sound, NodeAccounted, HasPart, Attaching, NoRequest
      <4> QED
        BY <4>1, <4>2, <4>3
    <3> QED
      BY <1>0, <2>2, <3>1, <3>2 DEF Sound, Answered, IsDisk
  <2> QED
    BY <2>1, <2>2 DEF Answered
<1> QED
  BY <1>1, <1>4, <1>5, <1>6, <1>7, <1>8 DEF PlugInv, Sound

Takes(t, s, rest) == t # <<>> /\ s = Head(t) /\ rest = Tail(t)

\* The first of a few steps, and the others.
LEMMA FirstOfTwo ==
    ASSUME NEW a, NEW b, NEW s, NEW rest, Takes(<<a, b>>, s, rest)
    PROVE  s = a /\ rest = <<b>>
BY DEF Takes

\* The first of three steps, and the others.
LEMMA FirstOfThree ==
    ASSUME NEW a, NEW b, NEW c, NEW s, NEW rest, Takes(<<a, b, c>>, s, rest)
    PROVE  s = a /\ rest = <<b, c>>
BY DEF Takes

\* The first of four steps, and the others.
LEMMA FirstOfFour ==
    ASSUME NEW a, NEW b, NEW c, NEW d, NEW s, NEW rest, Takes(<<a, b, c, d>>, s, rest)
    PROVE  s = a /\ rest = <<b, c, d>>
BY DEF Takes

\* The first of five steps, and the others.
LEMMA FirstOfFive ==
    ASSUME NEW a, NEW b, NEW c, NEW d, NEW e, NEW s, NEW rest, Takes(<<a, b, c, d, e>>, s, rest)
    PROVE  s = a /\ rest = <<b, c, d, e>>
BY DEF Takes

\* The steps of all requests, in their order.
LEMMA StepsInOrder ==
    ASSUME NEW t, NEW s, NEW rest, Takes(t, s, rest)
    PROVE  /\ t # <<>>
           /\ t = <<"node", "drive", "device">> => s = "node" /\ rest = <<"drive", "device">>
           /\ t = <<"drive", "device">> => s = "drive" /\ rest = <<"device">>
           /\ t = <<"device">> => s = "device" /\ rest = <<>>
           /\ t = <<"drive", "device", "node", "medium">> => s = "drive" /\ rest = <<"device", "node", "medium">>
           /\ t = <<"device", "node", "medium">> => s = "device" /\ rest = <<"node", "medium">>
           /\ t = <<"node", "medium">> => s = "node" /\ rest = <<"medium">>
           /\ t = <<"medium">> => s = "medium" /\ rest = <<>>
           /\ t = <<"tap", "netdev", "device", "file">> => s = "tap" /\ rest = <<"netdev", "device", "file">>
           /\ t = <<"netdev", "device", "file">> => s = "netdev" /\ rest = <<"device", "file">>
           /\ t = <<"device", "file">> => s = "device" /\ rest = <<"file">>
           /\ t = <<"file">> => s = "file" /\ rest = <<>>
           /\ t = <<"node", "device", "wait", "drive">> => s = "node" /\ rest = <<"device", "wait", "drive">>
           /\ t = <<"device", "wait", "drive">> => s = "device" /\ rest = <<"wait", "drive">>
           /\ t = <<"wait", "drive">> => s = "wait" /\ rest = <<"drive">>
           /\ t = <<"drive">> => s = "drive" /\ rest = <<>>
           /\ t = <<"node", "device", "drive">> => s = "node" /\ rest = <<"device", "drive">>
           /\ t = <<"device", "drive">> => s = "device" /\ rest = <<"drive">>
           /\ t = <<"device", "wait", "netdev", "tap", "file">> => s = "device" /\ rest = <<"wait", "netdev", "tap", "file">>
           /\ t = <<"wait", "netdev", "tap", "file">> => s = "wait" /\ rest = <<"netdev", "tap", "file">>
           /\ t = <<"netdev", "tap", "file">> => s = "netdev" /\ rest = <<"tap", "file">>
           /\ t = <<"tap", "file">> => s = "tap" /\ rest = <<"file">>
<1>1. /\ t = <<"device">> => s = "device" /\ rest = <<>>
      /\ t = <<"medium">> => s = "medium" /\ rest = <<>>
      /\ t = <<"file">> => s = "file" /\ rest = <<>>
      /\ t = <<"drive">> => s = "drive" /\ rest = <<>>
  BY DEF Takes
<1>2. /\ t = <<"drive", "device">> => s = "drive" /\ rest = <<"device">>
      /\ t = <<"node", "medium">> => s = "node" /\ rest = <<"medium">>
      /\ t = <<"device", "file">> => s = "device" /\ rest = <<"file">>
      /\ t = <<"wait", "drive">> => s = "wait" /\ rest = <<"drive">>
      /\ t = <<"device", "drive">> => s = "device" /\ rest = <<"drive">>
      /\ t = <<"tap", "file">> => s = "tap" /\ rest = <<"file">>
  BY FirstOfTwo
<1>3. /\ t = <<"node", "drive", "device">> => s = "node" /\ rest = <<"drive", "device">>
      /\ t = <<"device", "node", "medium">> => s = "device" /\ rest = <<"node", "medium">>
      /\ t = <<"netdev", "device", "file">> => s = "netdev" /\ rest = <<"device", "file">>
      /\ t = <<"device", "wait", "drive">> => s = "device" /\ rest = <<"wait", "drive">>
      /\ t = <<"node", "device", "drive">> => s = "node" /\ rest = <<"device", "drive">>
      /\ t = <<"netdev", "tap", "file">> => s = "netdev" /\ rest = <<"tap", "file">>
  BY FirstOfThree
<1>4. /\ t = <<"drive", "device", "node", "medium">> => s = "drive" /\ rest = <<"device", "node", "medium">>
      /\ t = <<"tap", "netdev", "device", "file">> => s = "tap" /\ rest = <<"netdev", "device", "file">>
      /\ t = <<"node", "device", "wait", "drive">> => s = "node" /\ rest = <<"device", "wait", "drive">>
      /\ t = <<"wait", "netdev", "tap", "file">> => s = "wait" /\ rest = <<"netdev", "tap", "file">>
  BY FirstOfFour
<1>5. /\ t = <<"device", "wait", "netdev", "tap", "file">> => s = "device" /\ rest = <<"wait", "netdev", "tap", "file">>
  BY FirstOfFive
<1> QED
  BY <1>1, <1>2, <1>3, <1>4, <1>5 DEF Takes

\* A step of an attachment makes one part.
LEMMA AttachStep ==
    ASSUME NEW d \in Devices, NEW steps, NEW s, NEW rest, Takes(steps, s, rest),
           req.steps = steps, req.op = "attach", req.dev = d,
           req'.steps = rest, req'.op = "attach", req'.dev = d,
           Progress("attach", d, steps), parts[d] \subseteq All(d), Backed(d), NodeAccounted(d), ReadableBetween(d),
           ~Blocked(d, s), parts'[d] = parts[d] \cup {s}, UNCHANGED <<leaving, stray, half, n>>
    PROVE  Progress("attach", d, rest)' /\ parts'[d] \subseteq All(d) /\ Backed(d)' /\ NodeAccounted(d)' /\ ReadableBetween(d)'
<1>1. Kind[d] \in Kinds
  BY PartsOfKinds
<1>2. CASE IsDisk(d)
  <2>1. DiskComes(d, steps)
    BY <1>2 DEF Progress
  <2>2. DiskComes(d, rest)' /\ parts'[d] \subseteq All(d) /\ Backed(d)'
    BY <1>1, <1>2, <2>1, StepsInOrder, PartsOfKinds DEF DiskComes, HasPart, Backed, IsDisk, Blocked
  <2>3. NodeAccounted(d)' /\ ReadableBetween(d)'
    BY <1>1, <1>2, <2>1, StepsInOrder, PartsOfKinds DEF DiskComes, HasPart, IsDisk, NodeAccounted, ReadableBetween, Attaching
  <2> QED
    BY <1>2, <2>2, <2>3 DEF Progress, IsDisk
<1>3. CASE Kind[d] = "cdrom"
  <2>1. CdromComes(d, steps)
    BY <1>3 DEF Progress
  <2>2. CdromComes(d, rest)' /\ parts'[d] \subseteq All(d) /\ Backed(d)'
    BY <1>1, <1>3, <2>1, StepsInOrder, PartsOfKinds DEF CdromComes, HasPart, Backed, IsDisk, Blocked
  <2>3. NodeAccounted(d)' /\ ReadableBetween(d)'
    BY <1>1, <1>3, <2>1, StepsInOrder, PartsOfKinds DEF CdromComes, HasPart, IsDisk, NodeAccounted, ReadableBetween, Attaching
  <2> QED
    BY <1>3, <2>2, <2>3 DEF Progress, IsDisk
<1>4. CASE Kind[d] = "net"
  <2>1. NetComes(d, steps)
    BY <1>4 DEF Progress
  <2>2. NetComes(d, rest)' /\ parts'[d] \subseteq All(d) /\ Backed(d)'
    BY <1>1, <1>4, <2>1, StepsInOrder, PartsOfKinds DEF NetComes, HasPart, Backed, IsDisk, Blocked
  <2>3. NodeAccounted(d)' /\ ReadableBetween(d)'
    BY <1>1, <1>4, <2>1, StepsInOrder, PartsOfKinds DEF NetComes, HasPart, IsDisk, NodeAccounted, ReadableBetween, Attaching
  <2> QED
    BY <1>4, <2>2, <2>3 DEF Progress, IsDisk
<1>5. CASE Kind[d] = "vsock"
  <2>1. VSockComes(d, steps)
    BY <1>5 DEF Progress
  <2>2. VSockComes(d, rest)' /\ parts'[d] \subseteq All(d) /\ Backed(d)'
    BY <1>1, <1>5, <2>1, StepsInOrder, PartsOfKinds DEF VSockComes, HasPart, Backed, IsDisk, Blocked
  <2>3. NodeAccounted(d)' /\ ReadableBetween(d)'
    BY <1>1, <1>5, <2>1, StepsInOrder, PartsOfKinds DEF VSockComes, HasPart, IsDisk, NodeAccounted, ReadableBetween, Attaching
  <2> QED
    BY <1>5, <2>2, <2>3 DEF Progress, IsDisk
<1> QED
  BY <1>1, <1>2, <1>3, <1>4, <1>5 DEF Kinds, IsDisk

\* A step of a detachment takes one part, or asks the guest for the device.
LEMMA DetachStep ==
    ASSUME NEW d \in Devices, NEW steps, NEW s, NEW rest, Takes(steps, s, rest),
           req.steps = steps, req.op = "detach", req.dev = d,
           req'.steps = rest, req'.op = "detach", req'.dev = d,
           Progress("detach", d, steps), parts[d] \subseteq All(d), Backed(d), NodeAccounted(d), ReadableBetween(d),
           ~Blocked(d, s), parts'[d] = After(d, s), UNCHANGED <<stray, half, n>>,
           leaving' = (IF s = "device" /\ Kind[d] # "scsi" THEN leaving \cup {d} ELSE leaving)
    PROVE  Progress("detach", d, rest)' /\ parts'[d] \subseteq All(d) /\ Backed(d)' /\ NodeAccounted(d)' /\ ReadableBetween(d)'
<1>1. Kind[d] \in Kinds
  BY PartsOfKinds
<1>2. CASE Kind[d] \in {"blk", "cdrom"}
  <2>1. DiskGoes(d, steps)
    BY <1>2 DEF Progress
  <2>2. DiskGoes(d, rest)' /\ parts'[d] \subseteq All(d) /\ Backed(d)'
    BY <1>1, <1>2, <2>1, StepsInOrder, PartsOfKinds DEF DiskGoes, HasPart, Backed, IsDisk, Blocked, After, Gone
  <2>3. NodeAccounted(d)' /\ ReadableBetween(d)'
    BY <1>1, <1>2, <2>1, StepsInOrder, PartsOfKinds DEF DiskGoes, HasPart, IsDisk, NodeAccounted, ReadableBetween, Attaching, After, Gone, Blocked, Backed
  <2> QED
    BY <1>2, <2>2, <2>3 DEF Progress, IsDisk
<1>3. CASE Kind[d] = "scsi"
  <2>1. SCSIDiskGoes(d, steps)
    BY <1>3 DEF Progress
  <2>a. parts'[d] = IF s = "device" THEN parts[d] \ {"device", "drive", "medium"} ELSE parts[d] \ {s}
    BY <1>3 DEF After, Gone
  <2>b. \/ s = "node" /\ rest = <<"device", "drive">>
        \/ s = "device" /\ rest = <<"drive">> /\ ~HasPart(d, "node")
        \/ s = "drive" /\ rest = <<>> /\ ~HasPart(d, "node") /\ ~HasPart(d, "device")
    BY <2>1, StepsInOrder DEF SCSIDiskGoes
  <2>2. SCSIDiskGoes(d, rest)' /\ parts'[d] \subseteq All(d) /\ Backed(d)'
    BY <1>3, <2>a, <2>b DEF SCSIDiskGoes, HasPart, Backed, IsDisk
  <2>3. NodeAccounted(d)' /\ ReadableBetween(d)'
    BY <1>1, <1>3, <2>1, StepsInOrder, PartsOfKinds DEF SCSIDiskGoes, HasPart, IsDisk, NodeAccounted, ReadableBetween, Attaching, After, Gone, Blocked, Backed
  <2> QED
    BY <1>3, <2>2, <2>3 DEF Progress, IsDisk
<1>4. CASE Kind[d] = "net"
  <2>1. NetGoes(d, steps)
    BY <1>4 DEF Progress
  <2>2. NetGoes(d, rest)' /\ parts'[d] \subseteq All(d) /\ Backed(d)'
    BY <1>1, <1>4, <2>1, StepsInOrder, PartsOfKinds DEF NetGoes, HasPart, Backed, IsDisk, Blocked, After, Gone
  <2>3. NodeAccounted(d)' /\ ReadableBetween(d)'
    BY <1>1, <1>4, <2>1, StepsInOrder, PartsOfKinds DEF NetGoes, HasPart, IsDisk, NodeAccounted, ReadableBetween, Attaching, After, Gone, Blocked, Backed
  <2> QED
    BY <1>4, <2>2, <2>3 DEF Progress, IsDisk
<1>5. CASE Kind[d] = "vsock"
  <2>1. VSockGoes(d, steps)
    BY <1>5 DEF Progress
  <2>2. VSockGoes(d, rest)' /\ parts'[d] \subseteq All(d) /\ Backed(d)'
    BY <1>1, <1>5, <2>1, StepsInOrder, PartsOfKinds DEF VSockGoes, HasPart, Backed, IsDisk, Blocked, After, Gone
  <2>3. NodeAccounted(d)' /\ ReadableBetween(d)'
    BY <1>1, <1>5, <2>1, StepsInOrder, PartsOfKinds DEF VSockGoes, HasPart, IsDisk, NodeAccounted, ReadableBetween, Attaching, After, Gone, Blocked, Backed
  <2> QED
    BY <1>5, <2>2, <2>3 DEF Progress, IsDisk
<1> QED
  BY <1>1, <1>2, <1>3, <1>4, <1>5 DEF Kinds

\* The request for another device goes on.
LEMMA ProgressStays ==
    ASSUME NEW e \in Devices, NEW op, NEW steps, Progress(op, e, steps),
           parts'[e] = parts[e], e \in leaving' <=> e \in leaving
    PROVE  Progress(op, e, steps)'
BY DEF Progress, DiskComes, CdromComes, NetComes, VSockComes, DiskGoes, SCSIDiskGoes, NetGoes,
       VSockGoes, HasPart, IsDisk

\* A step is taken.
LEMMA StepPlug ==
    ASSUME PlugInv, Step
    PROVE  PlugInv'
<1>0. PICK d, steps, s, rest, op : /\ d = req.dev /\ steps = req.steps /\ op = req.op
                                   /\ s = Head(req.steps) /\ rest = Tail(req.steps)
  OBVIOUS
<1>a. /\ req.op \in {"attach", "detach"} /\ d \in Devices /\ req # NoRequest
      /\ Sound(d) /\ answer[d] = "none" /\ Progress(req.op, d, req.steps)
      /\ req.steps # <<>> /\ ~Blocked(d, s)
      /\ parts' = [parts EXCEPT ![d] = After(d, s)] /\ parts'[d] = After(d, s)
      /\ leaving' = (IF req.op = "detach" /\ s = "device" /\ Kind[d] # "scsi"
                     THEN leaving \cup {d} ELSE leaving)
      /\ \A e \in Devices \ {d} : parts'[e] = parts[e]
      /\ req'.op = req.op /\ req'.dev = d /\ req'.steps = rest
      /\ req' = [op |-> req'.op, dev |-> req'.dev, steps |-> req'.steps]
      /\ UNCHANGED <<answer, stray, half, n>>
  <2>0. req # NoRequest
    BY <1>0 DEF Step, NoRequest
  <2>1. /\ req = [op |-> req.op, dev |-> req.dev, steps |-> req.steps]
        /\ req.op \in {"attach", "detach"} /\ d \in Devices
        /\ answer[d] = "none" /\ Progress(req.op, d, req.steps) /\ Sound(d)
    BY <1>0, <2>0 DEF PlugInv, RequestRuns
  <2>2. req.steps # <<>>
    BY <1>0 DEF Step
  <2>3. req' = [req EXCEPT !.steps = rest]
    BY <1>0 DEF Step
  <2>4. parts' = [parts EXCEPT ![d] = After(d, s)] /\ parts \in [Devices -> SUBSET AllParts]
    BY <1>0 DEF Step, PlugInv, PlugTypes
  <2>5. ~Blocked(d, s) /\ UNCHANGED <<answer, stray, half, n>>
    BY <1>0 DEF Step
  <2>6. leaving' = (IF req.op = "detach" /\ s = "device" /\ Kind[d] # "scsi"
                    THEN leaving \cup {d} ELSE leaving)
    BY <1>0 DEF Step
  <2>7. parts'[d] = After(d, s) /\ \A e \in Devices \ {d} : parts'[e] = parts[e]
    BY <2>1, <2>4
  <2>8. /\ req'.op = req.op /\ req'.dev = d /\ req'.steps = rest
        /\ req' = [op |-> req'.op, dev |-> req'.dev, steps |-> req'.steps]
    BY <1>0, <2>1, <2>3
  <2> QED
    BY <2>0, <2>1, <2>2, <2>4, <2>5, <2>6, <2>7, <2>8
<1>1. /\ op \in {"attach", "detach"} /\ d \in Devices /\ Sound(d) /\ answer[d] = "none"
      /\ Progress(op, d, steps) /\ steps # <<>> /\ ~Blocked(d, s)
      /\ parts' = [parts EXCEPT ![d] = After(d, s)] /\ parts'[d] = After(d, s)
      /\ leaving' = (IF op = "detach" /\ s = "device" /\ Kind[d] # "scsi" THEN leaving \cup {d} ELSE leaving)
      /\ \A e \in Devices \ {d} : parts'[e] = parts[e]
      /\ req'.op = op /\ req'.dev = d /\ req'.steps = rest
      /\ req' = [op |-> req'.op, dev |-> req'.dev, steps |-> req'.steps]
      /\ UNCHANGED <<answer, stray, half, n>>
  BY <1>0, <1>a, Zenon
<1>2. Takes(steps, s, rest)
  BY <1>0, <1>1 DEF Takes
<1>3. /\ Progress(op, d, rest)' /\ parts'[d] \subseteq All(d)
      /\ Backed(d)' /\ NodeAccounted(d)' /\ ReadableBetween(d)'
  <2>1. CASE op = "attach"
    <3>1. parts'[d] = parts[d] \cup {s} /\ leaving' = leaving
      BY <1>0, <1>1, <2>1 DEF After
    <3>2. /\ req.steps = steps /\ req.op = "attach" /\ req.dev = d
          /\ req'.steps = rest /\ req'.op = "attach" /\ req'.dev = d
          /\ Progress("attach", d, steps) /\ parts[d] \subseteq All(d) /\ Backed(d)
          /\ NodeAccounted(d) /\ ReadableBetween(d) /\ UNCHANGED <<leaving, stray, half, n>>
      BY <1>0, <1>1, <2>1, <3>1 DEF Sound
    <3> QED
      BY <1>1, <1>2, <2>1, <3>1, <3>2, AttachStep, Zenon
  <2>2. CASE op = "detach"
    <3>1. leaving' = (IF s = "device" /\ Kind[d] # "scsi" THEN leaving \cup {d} ELSE leaving)
      BY <1>1, <2>2
    <3>2. /\ req.steps = steps /\ req.op = "detach" /\ req.dev = d
          /\ req'.steps = rest /\ req'.op = "detach" /\ req'.dev = d
          /\ Progress("detach", d, steps) /\ parts[d] \subseteq All(d) /\ Backed(d)
          /\ NodeAccounted(d) /\ ReadableBetween(d) /\ UNCHANGED <<stray, half, n>>
      BY <1>0, <1>1, <2>2 DEF Sound
    <3> QED
      BY <1>1, <1>2, <2>2, <3>1, <3>2, DetachStep, Zenon
  <2> QED
    BY <1>1, <2>1, <2>2
<1>4. RequestRuns'
  <2>1. Progress(req.op, req.dev, req.steps)'
    BY <1>1, <1>3
  <2> QED
    BY <1>1, <2>1 DEF RequestRuns
<1>5. Sound(d)'
  <2>1. Answered(d)'
    BY <1>1 DEF Answered
  <2> QED
    BY <1>3, <2>1 DEF Sound, All
<1>6. \A e \in Devices \ {d} : Sound(e)'
  BY <1>0, <1>1, OthersStay DEF PlugInv
<1>7. PlugTypes'
  <2>1. All(d) \subseteq AllParts
    BY <1>1, PartsOfKinds DEF AllParts, Kinds, IsDisk
  <2>2. parts' \in [Devices -> SUBSET AllParts]
    BY <1>1, <1>3, <2>1 DEF PlugInv, PlugTypes
  <2> QED
    BY <1>1, <2>2 DEF PlugInv, PlugTypes
<1> QED
  BY <1>4, <1>5, <1>6, <1>7 DEF PlugInv

\* What a request is that ends.
LEMMA RequestFacts ==
    ASSUME PlugInv, req # NoRequest
    PROVE  /\ req.op \in {"attach", "detach"} /\ req.dev \in Devices
           /\ answer[req.dev] = "none" /\ Progress(req.op, req.dev, req.steps) /\ Sound(req.dev)
BY DEF PlugInv, RequestRuns

\* A step fails.
LEMMA FailPlug ==
    ASSUME PlugInv, Fail
    PROVE  PlugInv'
<1>0. PICK d, steps, s, op : d = req.dev /\ steps = req.steps /\ op = req.op /\ s = Head(req.steps)
  OBVIOUS
<1> DEFINE undo == op = "attach" /\ (Kind[d] # "cdrom" \/ s \in {"node", "medium"})
<1>1. req # NoRequest
  BY DEF Fail, NoRequest
<1>2. /\ op \in {"attach", "detach"} /\ d \in Devices /\ answer[d] = "none"
      /\ Progress(op, d, steps) /\ Sound(d) /\ steps # <<>>
  BY <1>0, <1>1, RequestFacts DEF Fail
<1>3. /\ parts' = (IF undo THEN [parts EXCEPT ![d] = @ \ {"node"}] ELSE parts)
      /\ stray' = (IF undo THEN stray \ {d} ELSE stray)
      /\ Fails(d, s) /\ req' = NoRequest /\ UNCHANGED <<leaving, answer>> /\ half' = half \cup HalfAttached
  BY <1>0 DEF Fail
<1>4. PICK rest : Takes(steps, s, rest)
  BY <1>0, <1>2 DEF Takes
<1>5. parts \in [Devices -> SUBSET AllParts] /\ n \in [requests : Nat, failures : Nat]
  BY DEF PlugInv, PlugTypes
<1>6. /\ parts' \in [Devices -> SUBSET AllParts]
      /\ parts'[d] = (IF undo THEN parts[d] \ {"node"} ELSE parts[d])
      /\ \A e \in Devices \ {d} : parts'[e] = parts[e]
  BY <1>2, <1>3, <1>5
<1>7. /\ n' \in [requests : Nat, failures : Nat]
      /\ (n' = n /\ Blocked(d, s)) \/ n'.failures = n.failures + 1
  BY <1>3, <1>5 DEF Fails
<1> HIDE DEF undo
<1>a. HalfAttached \subseteq {d} /\ half' \subseteq Devices /\ half \subseteq half'
  BY <1>0, <1>2, <1>3 DEF HalfAttached, PlugInv, PlugTypes
<1>8. PlugTypes' /\ RequestRuns'
  BY <1>3, <1>6, <1>7, <1>a DEF PlugInv, PlugTypes, RequestRuns
<1>9. \A e \in Devices \ {d} : Sound(e)'
  BY <1>0, <1>3, <1>6, <1>a, OthersStay DEF PlugInv
<1>10. Backed(d)' /\ (parts[d] \subseteq All(d))' /\ Answered(d)'
  BY <1>2, <1>3, <1>6 DEF Sound, Backed, HasPart, IsDisk, Answered, All
<1>11. NodeAccounted(d)'
  <2>1. CASE undo
    BY <1>6, <2>1 DEF NodeAccounted, HasPart
  <2>2. CASE ~undo /\ op = "attach"
    BY <1>0, <1>2, <1>3, <1>6, <2>2 DEF Sound, NodeAccounted, HasPart, undo, IsDisk
  <2>3. CASE op = "detach"
    BY <1>0, <1>2, <1>3, <1>6, <2>3 DEF Sound, NodeAccounted, HasPart, undo, IsDisk, Attaching
  <2> QED
    BY <1>2, <2>1, <2>2, <2>3
<1>12. ReadableBetween(d)'
  <2> SUFFICES ASSUME d \notin half'
               PROVE  /\ IsDisk(d) /\ "drive" \in parts'[d] => "device" \in parts'[d]
                      /\ Kind[d] = "net" /\ "device" \in parts'[d] => "file" \in parts'[d]
    BY DEF ReadableBetween, HasPart, IsDisk
  <2>1. d \notin half /\ d \notin HalfAttached
    BY <1>3
  <2>2. ASSUME IsDisk(d), "drive" \in parts'[d], "device" \notin parts'[d] PROVE FALSE
    <3>1. "drive" \in parts[d] /\ "device" \notin parts[d]
      BY <1>6, <2>2
    <3>2. op = "attach" /\ steps = <<"device">>
      BY <1>0, <1>2, <2>1, <2>2, <3>1 DEF Sound, ReadableBetween, Attaching, HasPart
    <3> QED
      BY <1>0, <2>1, <2>2, <3>2 DEF HalfAttached, IsDisk
  <2>3. ASSUME Kind[d] = "net", "device" \in parts'[d], "file" \notin parts'[d] PROVE FALSE
    <3>1. "device" \in parts[d] /\ "file" \notin parts[d]
      BY <1>6, <2>3
    <3>2. op = "attach" /\ steps = <<"file">>
      BY <1>0, <1>2, <2>1, <2>3, <3>1 DEF Sound, ReadableBetween, Attaching, HasPart
    <3> QED
      BY <1>0, <2>1, <2>3, <3>2 DEF HalfAttached
  <2> QED
    BY <2>2, <2>3
<1> QED
  BY <1>8, <1>9, <1>10, <1>11, <1>12 DEF PlugInv, Sound

\* The request is answered.
LEMMA AnswerPlug ==
    ASSUME PlugInv, Answer
    PROVE  PlugInv'
<1>0. PICK d, op : d = req.dev /\ op = req.op
  OBVIOUS
<1>1. /\ op \in {"attach", "detach"} /\ d \in Devices /\ Progress(op, d, <<>>) /\ Sound(d)
  BY <1>0, RequestFacts DEF Answer
<1>2. /\ answer' = [answer EXCEPT ![d] = IF op = "attach" THEN "attached" ELSE "detached"]
      /\ req' = NoRequest /\ stray' = stray \ {d} /\ UNCHANGED <<parts, leaving, half, n>> /\ req.steps = <<>>
  BY <1>0 DEF Answer
<1>3. answer \in [Devices -> {"none", "attached", "detached", "attached, leaving"}]
  BY DEF PlugInv, PlugTypes
<1>4. /\ answer'[d] = (IF op = "attach" THEN "attached" ELSE "detached")
      /\ \A e \in Devices \ {d} : answer'[e] = answer[e]
  BY <1>1, <1>2, <1>3
<1>5. PlugTypes' /\ RequestRuns'
  BY <1>1, <1>2, <1>3 DEF PlugInv, PlugTypes, RequestRuns
<1>6. \A e \in Devices \ {d} : Sound(e)'
  BY <1>0, <1>2, <1>4, OthersStay DEF PlugInv
<1>7. Kind[d] \in Kinds
  BY <1>1, PartsOfKinds
<1>8. Backed(d)' /\ (parts[d] \subseteq All(d))'
  BY <1>1, <1>2 DEF Sound, Backed, HasPart, IsDisk, All
<1>9. CASE op = "attach"
  <2>1. "device" \in parts[d] /\ d \notin leaving
    BY <1>1, <1>7, <1>9 DEF Progress, DiskComes, CdromComes, NetComes, VSockComes, HasPart, Kinds, IsDisk
  <2>2. Kind[d] # "cdrom" => All(d) \ {"node"} \subseteq parts[d]
    BY <1>1, <1>7, <1>9, PartsOfKinds
       DEF Progress, DiskComes, NetComes, VSockComes, HasPart, Kinds, IsDisk, Sound, Backed
  <2>3. Kind[d] = "cdrom" => Known(d)
    BY <1>1, <2>1, PartsOfKinds DEF Known, Sound, Backed, HasPart
  <2>4. Answered(d)'
    BY <1>2, <1>4, <1>9, <2>1, <2>2, <2>3 DEF Answered, Known, All
  <2>5. NodeAccounted(d)'
    BY <1>2, <2>1 DEF NodeAccounted, HasPart
  <2>6. ReadableBetween(d)'
    BY <1>1, <1>2, <2>1, <2>2, PartsOfKinds DEF ReadableBetween, HasPart, IsDisk
  <2> QED
    BY <1>5, <1>6, <1>8, <2>4, <2>5, <2>6 DEF PlugInv, Sound
<1>10. CASE op = "detach"
  <2>1. "node" \notin parts[d]
    BY <1>1, <1>7, <1>10, PartsOfKinds DEF Progress, DiskGoes, SCSIDiskGoes, HasPart, Kinds, Sound, IsDisk
  <2>2. IsDisk(d) => parts[d] = {}
    BY <1>1, <1>7, <1>10, PartsOfKinds DEF Progress, DiskGoes, SCSIDiskGoes, HasPart, Kinds, Sound, IsDisk
  <2>3. Answered(d)' /\ NodeAccounted(d)'
    BY <1>2, <1>4, <1>10, <2>1, <2>2 DEF Answered, NodeAccounted, HasPart, IsDisk
  <2>4. ReadableBetween(d)'
    BY <1>0, <1>1, <1>2, <1>10 DEF Sound, ReadableBetween, HasPart, IsDisk, Attaching
  <2> QED
    BY <1>5, <1>6, <1>8, <2>3, <2>4 DEF PlugInv, Sound
<1> QED
  BY <1>1, <1>9, <1>10

\* kvmrund restarts in the middle of a request.
LEMMA RestartPlug ==
    ASSUME PlugInv, Restart
    PROVE  PlugInv'
<1>0. PICK d : d = req.dev
  OBVIOUS
<1>1. d \in Devices /\ Sound(d) /\ answer[d] = "none"
  BY <1>0, RequestFacts DEF Restart
<1>2. n' = [n EXCEPT !.failures = @ + 1] /\ n \in [requests : Nat, failures : Nat]
  BY DEF Restart, PlugInv, PlugTypes
<1>3. n' \in [requests : Nat, failures : Nat]
  BY <1>2
<1>4. /\ req' = NoRequest /\ stray' = stray \cup {d} /\ UNCHANGED <<parts, leaving, answer>>
      /\ half' = half \cup HalfAttached
  BY <1>0 DEF Restart
<1>a. HalfAttached \subseteq {d} /\ half' \subseteq Devices /\ half \subseteq half'
  BY <1>0, <1>1, <1>4 DEF HalfAttached, PlugInv, PlugTypes
<1>5. PlugTypes' /\ RequestRuns'
  BY <1>1, <1>3, <1>4, <1>a DEF PlugInv, PlugTypes, RequestRuns
<1>6. \A e \in Devices \ {d} : Sound(e)'
  BY <1>0, <1>4, <1>a, OthersStay DEF PlugInv
<1>7. Backed(d)' /\ (parts[d] \subseteq All(d))' /\ Answered(d)'
  BY <1>1, <1>4 DEF Sound, Backed, HasPart, IsDisk, Answered, All
<1>8. NodeAccounted(d)' /\ ReadableBetween(d)'
  <2>1. NodeAccounted(d)'
    BY <1>4 DEF NodeAccounted
  <2>2. d \notin half' => d \notin half /\ ~(Attaching(d) /\ Kind[d] # "vsock" /\ req.steps \in {<<"device">>, <<"file">>})
    BY <1>0, <1>4 DEF HalfAttached, Attaching
  <2>3. ReadableBetween(d)'
    BY <1>1, <1>4, <2>2 DEF Sound, ReadableBetween, HasPart, IsDisk
  <2> QED
    BY <2>1, <2>3
<1> QED
  BY <1>5, <1>6, <1>7, <1>8 DEF PlugInv, Sound

\* The guest releases a device, which may be that of the request that waits for it.
LEMMA ReleasePlug ==
    ASSUME PlugInv, NEW d \in Devices, Release(d)
    PROVE  PlugInv'
<1>1. /\ d \in leaving /\ Sound(d) /\ parts \in [Devices -> SUBSET AllParts]
      /\ leaving' = leaving \ {d} /\ parts' = [parts EXCEPT ![d] = @ \ Gone(d)]
      /\ UNCHANGED <<req, answer, stray, half, n>>
  BY DEF Release, PlugInv, PlugTypes
<1>2. /\ parts'[d] = parts[d] \ Gone(d) /\ parts' \in [Devices -> SUBSET AllParts]
      /\ \A e \in Devices \ {d} : parts'[e] = parts[e]
  BY <1>1
<1>3. PlugTypes'
  BY <1>1, <1>2 DEF PlugInv, PlugTypes
<1>4. \A e \in Devices \ {d} : Sound(e)'
  BY <1>1, <1>2, OthersStay DEF PlugInv
<1>5. /\ "device" \in parts[d] /\ "node" \notin parts[d] /\ "device" \notin parts'[d]
      /\ Kind[d] # "net" => "drive" \notin parts'[d] /\ parts'[d] \subseteq parts[d]
  BY <1>1, <1>2 DEF Sound, Backed, HasPart, Gone
<1>6. Backed(d)' /\ (parts[d] \subseteq All(d))' /\ NodeAccounted(d)'
  BY <1>1, <1>2, <1>5 DEF Sound, Backed, NodeAccounted, HasPart, All
<1>7. ReadableBetween(d)' /\ Answered(d)'
  BY <1>1, <1>2, <1>5 DEF Sound, ReadableBetween, Answered, HasPart, IsDisk
<1>8. RequestRuns'
  <2>1. CASE req = NoRequest
    BY <1>1, <2>1 DEF RequestRuns
  <2>2. CASE req # NoRequest /\ req.dev # d
    <3>1. PICK e, op, steps : e = req.dev /\ op = req.op /\ steps = req.steps
      OBVIOUS
    <3>2. e \in Devices /\ e # d /\ Progress(op, e, steps)
      BY <2>2, <3>1, RequestFacts
    <3>3. Progress(op, e, steps)'
      BY <1>1, <1>2, <3>2, ProgressStays
    <3> QED
      BY <1>1, <3>1, <3>3 DEF PlugInv, RequestRuns
  <2>3. CASE req # NoRequest /\ req.dev = d
    <3>1. PICK op, steps : op = req.op /\ steps = req.steps
      OBVIOUS
    <3>2. Progress(op, d, steps) /\ Kind[d] \in Kinds
      BY <2>3, <3>1, RequestFacts, PartsOfKinds
    <3>3. op # "attach"
      BY <1>1, <1>5, <3>2 DEF Progress, DiskComes, CdromComes, NetComes, VSockComes, HasPart, Kinds, IsDisk
    <3>4. op = "detach"
      BY <3>2, <3>3 DEF Progress
    <3>5. Progress(op, d, steps)'
      BY <1>2, <1>5, <3>2, <3>4 DEF Progress, DiskGoes, SCSIDiskGoes, NetGoes, VSockGoes, HasPart
    <3> QED
      BY <1>1, <2>3, <3>1, <3>5 DEF PlugInv, RequestRuns
  <2> QED
    BY <2>1, <2>2, <2>3
<1> QED
  BY <1>3, <1>4, <1>6, <1>7, <1>8 DEF PlugInv, Sound

\* No device is there at first.
LEMMA PlugInitInv == PlugInit => PlugInv
BY PartsOfKinds
   DEF PlugInit, PlugInv, PlugTypes, RequestRuns, Sound, Backed, NodeAccounted, ReadableBetween,
       Answered, HasPart, IsDisk

\* The invariant of the devices holds in every state.
LEMMA PlugInvHolds == PlugSpec => []PlugInv
<1>1. PlugInv /\ UNCHANGED plugVars => PlugInv'
  BY DEF plugVars, PlugInv, PlugTypes, RequestRuns, Sound, Backed, NodeAccounted, ReadableBetween,
         Answered, HasPart, IsDisk, Attaching, Known, All, Progress, DiskComes, CdromComes, NetComes,
         VSockComes, DiskGoes, SCSIDiskGoes, NetGoes, VSockGoes
<1>2. PlugInv /\ [PlugNext]_plugVars => PlugInv'
  BY <1>1, BeginPlug, StepPlug, FailPlug, AnswerPlug, RestartPlug, ReleasePlug DEF PlugNext
<1> QED
  BY <1>2, PlugInitInv, PTL DEF PlugSpec

\* What a handler answered of a device is true in QEMU and in the chroot, for any devices
\* and requests, and after any failures, restarts and late releases.
THEOREM PlugAnswersHold == PlugSpec => []AnswersHold
<1>1. PlugInv => AttachedIsComplete
  BY DEF PlugInv, Sound, Answered, AttachedIsComplete
<1>2. PlugInv => DetachedIsGone
  BY DEF PlugInv, Sound, Answered, DetachedIsGone, IsDisk
<1> QED
  BY <1>1, <1>2, PlugInvHolds, PTL DEF AnswersHold

\* What requests leave behind stops no later one, wherever steps fail, requests are
\* cut off and guests are late, if no disk was left between its drive and its device
\* and no interface between its device and its file.
THEOREM PlugLeftoversAreHarmless == PlugSpec => []LeftoversAreHarmless
<1>1. PlugInv => NoStrayNode
  BY DEF PlugInv, Sound, NodeAccounted, NoStrayNode, HasPart, Attaching, NoRequest
<1>2. PlugInv => ReadableUnlessHalf
  BY DEF PlugInv, Sound, ReadableBetween, ReadableUnlessHalf, ReadableOf, HasPart, IsDisk, Attaching, NoRequest
<1> QED
  BY <1>1, <1>2, PlugInvHolds, PTL DEF LeftoversAreHarmless

\* The parts of the devices keep their types, and a device that is on its way out is
\* still there, wherever requests fail and however late the guest releases it.
THEOREM PlugTypesHold == PlugSpec => []PlugTypeOK
<1> DEFINE Bounded == n \in [requests : 0..MaxRequests, failures : 0..MaxFailures]
<1>1. PlugInit => Bounded
  BY HotplugAssumption DEF PlugInit
<1>2. Bounded /\ [PlugNext]_plugVars => Bounded'
  <2> SUFFICES ASSUME Bounded, [PlugNext]_plugVars PROVE Bounded'
    OBVIOUS
  <2>1. \/ n' = n
        \/ n.requests < MaxRequests /\ n' = [n EXCEPT !.requests = @ + 1]
        \/ n.failures < MaxFailures /\ n' = [n EXCEPT !.failures = @ + 1]
    BY DEF PlugNext, plugVars, Begin, Step, Fail, Fails, Answer, Restart, Release
  <2> QED
    BY <2>1, HotplugAssumption
<1>3. PlugInv /\ Bounded => PlugTypeOK
  BY DEF PlugInv, PlugTypes, Sound, Backed, HasPart, PlugTypeOK
<1> QED
  BY <1>1, <1>2, <1>3, PlugInvHolds, PTL DEF PlugSpec

(***************************************************************************)
(* DiskPool.  The lists are changed by loops, so what the loops compute is *)
(* shown first, by induction: a loop is a function on 0..n, and the least  *)
(* number at which two of them differ is none.  Then each change of the    *)
(* list is one of a place, from which the invariant and the order follow.  *)
(***************************************************************************)

\* A set of naturals that is not empty has a least element.
LEMMA LeastNatural ==
    ASSUME NEW S \in SUBSET Nat, S # {}
    PROVE  \E x \in S : \A y \in S : x <= y
<1>1. PICK x \in S : \A y \in S : ~ (<<y, x>> \in OpToRel(<, Nat))
  BY NatLessThanWellFounded, WFMin, Zenon
<1>2. \A y \in S : ~ (y < x)
  BY <1>1, Zenon DEF OpToRel
<1> QED
  BY <1>2

\* Two functions that agree at 0, and at a number up to len if they do at the one
\* before, agree up to len.
LEMMA EqualByInduction ==
    ASSUME NEW len \in Nat, NEW f, NEW g,
           f[0] = g[0],
           \A i \in 1..len : f[i - 1] = g[i - 1] => f[i] = g[i]
    PROVE  \A i \in 0..len : f[i] = g[i]
<1> DEFINE Differ == {i \in 0..len : f[i] # g[i]}
<1>1. SUFFICES ASSUME Differ # {} PROVE FALSE
  OBVIOUS
<1> Differ \in SUBSET Nat
  OBVIOUS
<1>2. PICK x \in Differ : \A y \in Differ : x <= y
  <2> HIDE DEF Differ
  <2> QED
    BY <1>1, LeastNatural
<1>3. x \in 1..len /\ x - 1 \in 0..len /\ x - 1 \notin Differ
  BY <1>2
<1>4. f[x - 1] = g[x - 1]
  BY <1>3
<1>5. f[x] = g[x]
  BY <1>3, <1>4
<1> QED
  BY <1>2, <1>5

\* A function on the numbers up to len is a sequence.
LEMMA FunctionIsSequence ==
    ASSUME NEW S, NEW len \in Nat, NEW f, f \in [1..len -> S]
    PROVE  f \in Seq(S) /\ Len(f) = len
<1>1. f \in Seq(S)
  BY SeqDef
<1>2. DOMAIN f = 1..len /\ DOMAIN f = 1..Len(f) /\ Len(f) \in Nat
  BY <1>1, LenProperties
<1> QED
  BY <1>1, <1>2

\* A list without its element at j.
Deleted(keys, j) == [i \in 1..(Len(keys) - 1) |-> IF i < j THEN keys[i] ELSE keys[i + 1]]

\* A list with e at j.
Inserted(keys, j, e) ==
    [i \in 1..(Len(keys) + 1) |-> IF i < j THEN keys[i] ELSE IF i = j THEN e ELSE keys[i - 1]]

\* The loop of DeleteFunc removes the key and nothing else from a list that has
\* every key once.
LEMMA DeleteFuncDeletes ==
    ASSUME NEW S, NEW keys \in Seq(S), IsInjective(keys), NEW j \in 1..Len(keys)
    PROVE  /\ Deleted(keys, j) \in Seq(S) /\ Len(Deleted(keys, j)) = Len(keys) - 1
           /\ DeleteFunc(keys, keys[j]) = Deleted(keys, j)
<1> DEFINE len == Len(keys)
           Copied(i) == IF i < j THEN i ELSE i - 1
           W == [i \in 0..len |-> [k \in 1..Copied(i) |-> IF k < j THEN keys[k] ELSE keys[k + 1]]]
           Loop(g) == g = [i \in 0..len |-> IF i = 0 THEN <<>>
                              ELSE IF keys[i] = keys[j] THEN g[i - 1] ELSE Append(g[i - 1], keys[i])]
<1>0. len \in Nat /\ j \in 1..len
  BY LenProperties
<1>1. len \in Nat /\ keys \in [1..len -> S] /\ \A i \in 1..len : keys[i] = keys[j] <=> i = j
  BY LenProperties DEF IsInjective
<1>2. ASSUME NEW i \in 0..len
      PROVE  W[i] \in Seq(S) /\ Len(W[i]) = Copied(i)
  <2>1. Copied(i) \in Nat /\ W[i] \in [1..Copied(i) -> S]
    BY <1>1
  <2> QED
    BY <2>1, FunctionIsSequence
<1>3. W[0] = <<>>
  <2>1. Len(W[0]) = 0 /\ W[0] \in Seq(S)
    BY <1>1, <1>2
  <2> QED
    BY <2>1, EmptySeq, SeqEqual
<1>4. ASSUME NEW i \in 1..len
      PROVE  W[i] = IF keys[i] = keys[j] THEN W[i - 1] ELSE Append(W[i - 1], keys[i])
  <2>1. CASE i = j
    <3>1. Copied(i) = Copied(i - 1) /\ i - 1 \in 0..len
      BY <2>1, <1>1
    <3> QED
      BY <3>1, <2>1, <1>1
  <2>2. CASE i # j
    <3>1. /\ W[i] \in Seq(S) /\ Len(W[i]) = Copied(i)
          /\ W[i - 1] \in Seq(S) /\ Len(W[i - 1]) = Copied(i) - 1
          /\ keys[i] \in S /\ keys[i] # keys[j]
      BY <1>1, <1>2, <2>2
    <3>2. /\ Append(W[i - 1], keys[i]) \in Seq(S)
          /\ Len(Append(W[i - 1], keys[i])) = Copied(i)
          /\ \A k \in 1..(Copied(i) - 1) : Append(W[i - 1], keys[i])[k] = W[i - 1][k]
          /\ Append(W[i - 1], keys[i])[Copied(i)] = keys[i]
      <4> HIDE DEF W, Copied
      <4> QED
        BY <3>1, AppendProperties
    <3>3. \A k \in 1..(Copied(i) - 1) : W[i][k] = W[i - 1][k]
      BY <2>2, <1>1
    <3>4. W[i][Copied(i)] = keys[i]
      BY <2>2, <1>1
    <3>5. Copied(i) \in Nat \ {0}
      BY <2>2, <1>1
    <3>6. \A k \in 1..Copied(i) : W[i][k] = Append(W[i - 1], keys[i])[k]
      <4> HIDE DEF W, Copied
      <4> QED
        BY <3>2, <3>3, <3>4, <3>5
    <3>7. W[i] = Append(W[i - 1], keys[i])
      <4> HIDE DEF W, Copied
      <4> QED
        BY <3>1, <3>2, <3>6, SeqEqual
    <3> QED
      BY <3>1, <3>7
  <2> QED
    BY <2>1, <2>2
<1>5. Loop(W)
  <2>1. \A i \in 0..len : W[i] = IF i = 0 THEN <<>> ELSE IF keys[i] = keys[j] THEN W[i - 1] ELSE Append(W[i - 1], keys[i])
    <3> HIDE DEF W
    <3> QED
      BY <1>1, <1>3, <1>4
  <2>2. W = [i \in 0..len |-> W[i]]
    OBVIOUS
  <2> HIDE DEF W
  <2> QED
    BY <2>1, <2>2
<1>6. ASSUME NEW g, Loop(g) PROVE g = W
  <2>1. g = [i \in 0..len |-> g[i]] /\ W = [i \in 0..len |-> W[i]]
    BY <1>6
  <2>2. g[0] = W[0]
    BY <1>1, <1>3, <1>6
  <2> HIDE DEF W, len
  <2>3. \A i \in 1..len : g[i - 1] = W[i - 1] => g[i] = W[i]
    <3>1. ASSUME NEW i \in 1..len
          PROVE  g[i] = IF keys[i] = keys[j] THEN g[i - 1] ELSE Append(g[i - 1], keys[i])
      <4> DEFINE Body(k) == IF k = 0 THEN <<>>
                            ELSE IF keys[k] = keys[j] THEN g[k - 1] ELSE Append(g[k - 1], keys[k])
      <4>1. g = [k \in 0..len |-> Body(k)]
        BY <1>6
      <4>2. i \in 0..len /\ i # 0
        BY <1>0
      <4>3. g[i] = Body(i)
        <5> HIDE DEF Body
        <5> QED
          BY <4>1, <4>2
      <4> QED
        BY <4>2, <4>3, Zenon
    <3> QED
      BY <3>1, <1>4
  <2>4. \A i \in 0..len : g[i] = W[i]
    <3>1. len \in Nat
      BY <1>0
    <3> QED
      BY <3>1, <2>2, <2>3, EqualByInduction, Zenon
  <2> QED
    BY <2>1, <2>4
<1>7. (CHOOSE g : Loop(g)) = W
  <2> HIDE DEF W, Loop
  <2> QED
    BY <1>5, <1>6
<1>8. DeleteFunc(keys, keys[j]) = (CHOOSE g : Loop(g))[len]
  BY Zenon DEF DeleteFunc
<1>9. Copied(len) = len - 1 /\ len \in 0..len
  <2> HIDE DEF len
  <2> QED
    BY <1>0
<1>10. W[len] = Deleted(keys, j)
  BY <1>9 DEF Deleted
<1> QED
  <2> HIDE DEF W, Loop
  <2> QED
    BY <1>2, <1>7, <1>8, <1>9, <1>10

\* The list with e at j, element by element.
LEMMA InsertedIsSequence ==
    ASSUME NEW S, NEW keys \in Seq(S), NEW j \in 1..(Len(keys) + 1), NEW e \in S
    PROVE  Inserted(keys, j, e) \in Seq(S) /\ Len(Inserted(keys, j, e)) = Len(keys) + 1
<1> DEFINE len == Len(keys)
<1>1. len \in Nat /\ keys \in [1..len -> S]
  BY LenProperties
<1>2. Inserted(keys, j, e) \in [1..(len + 1) -> S]
  BY <1>1 DEF Inserted
<1> QED
  BY <1>1, <1>2, FunctionIsSequence

\* InsertAt puts the key where it was asked for and leaves the others in their order.
LEMMA InsertAtInserts ==
    ASSUME NEW S, NEW keys \in Seq(S), NEW j \in 1..(Len(keys) + 1), NEW e \in S
    PROVE  InsertAt(keys, j, e) = Inserted(keys, j, e)
<1> DEFINE len == Len(keys)
           L == SubSeq(keys, 1, j - 1)
           R == SubSeq(keys, j, len)
<1>1. len \in Nat /\ keys \in [1..len -> S] /\ j \in 1..(len + 1)
  BY LenProperties
<1>2. L \in Seq(S) /\ Len(L) = j - 1 /\ \A i \in 1..(j - 1) : L[i] = keys[i]
  <2>1. /\ 1 \in Int /\ j - 1 \in Int /\ \A i \in 1..(j - 1) : keys[i] \in S
    BY <1>1
  <2>2. /\ L \in Seq(S) /\ Len(L) = IF 1 <= j - 1 THEN (j - 1) - 1 + 1 ELSE 0
        /\ \A i \in 1..((j - 1) - 1 + 1) : L[i] = keys[1 + i - 1]
    BY <2>1, SubSeqProperties
  <2> HIDE DEF L
  <2> QED
    BY <2>1, <2>2, <1>1
<1>3. R \in Seq(S) /\ Len(R) = len - j + 1 /\ \A i \in 1..(len - j + 1) : R[i] = keys[j + i - 1]
  <2>1. /\ j \in Int /\ len \in Int /\ \A i \in j..len : keys[i] \in S
    BY <1>1
  <2>2. /\ R \in Seq(S) /\ Len(R) = IF j <= len THEN len - j + 1 ELSE 0
        /\ \A i \in 1..(len - j + 1) : R[i] = keys[j + i - 1]
    BY <2>1, SubSeqProperties
  <2> HIDE DEF R
  <2> QED
    BY <2>1, <2>2, <1>1
<1>4. <<e>> \in Seq(S) /\ Len(<<e>>) = 1 /\ <<e>>[1] = e
  OBVIOUS
<1> HIDE DEF L, R, len
<1>5. /\ L \o <<e>> \in Seq(S) /\ Len(L \o <<e>>) = j
      /\ \A i \in 1..j : (L \o <<e>>)[i] = IF i <= j - 1 THEN L[i] ELSE <<e>>[i - (j - 1)]
  <2>1. /\ L \o <<e>> \in Seq(S) /\ Len(L \o <<e>>) = Len(L) + Len(<<e>>)
        /\ \A i \in 1..(Len(L) + Len(<<e>>)) :
              (L \o <<e>>)[i] = IF i <= Len(L) THEN L[i] ELSE <<e>>[i - Len(L)]
    BY <1>2, <1>4, ConcatProperties
  <2> QED
    BY <2>1, <1>1, <1>2, <1>4
<1> DEFINE A == L \o <<e>>
<1>6. \A i \in 1..j : A[i] = IF i < j THEN keys[i] ELSE e
  BY <1>5, <1>2, <1>1
<1>7. A \in Seq(S) /\ Len(A) = j
  BY <1>5
<1> HIDE DEF A
<1>8. /\ A \o R \in Seq(S) /\ Len(A \o R) = len + 1
      /\ \A i \in 1..(len + 1) : (A \o R)[i] = IF i <= j THEN A[i] ELSE R[i - j]
  <2>1. /\ A \o R \in Seq(S) /\ Len(A \o R) = Len(A) + Len(R)
        /\ \A i \in 1..(Len(A) + Len(R)) : (A \o R)[i] = IF i <= Len(A) THEN A[i] ELSE R[i - Len(A)]
    BY <1>3, <1>7, ConcatProperties
  <2>2. Len(A) + Len(R) = len + 1
    BY <1>1, <1>3, <1>7
  <2> QED
    BY <2>1, <2>2, <1>7
<1>9. \A i \in 1..(len + 1) : (A \o R)[i] = Inserted(keys, j, e)[i]
  <2> SUFFICES ASSUME NEW i \in 1..(len + 1) PROVE (A \o R)[i] = Inserted(keys, j, e)[i]
    OBVIOUS
  <2>1. Inserted(keys, j, e)[i] = IF i < j THEN keys[i] ELSE IF i = j THEN e ELSE keys[i - 1]
    BY DEF Inserted, len
  <2>2. CASE i <= j
    <3>1. i \in 1..j
      BY <2>2, <1>1
    <3> QED
      BY <3>1, <2>1, <2>2, <1>1, <1>6, <1>8
  <2>3. CASE i > j
    <3>1. i - j \in 1..(len - j + 1) /\ j + (i - j) - 1 = i - 1
      BY <2>3, <1>1
    <3>2. R[i - j] = keys[i - 1]
      BY <3>1, <1>3
    <3> QED
      BY <3>2, <2>1, <2>3, <1>1, <1>8
  <2>4. i <= j \/ i > j
    BY <1>1
  <2> QED
    BY <2>2, <2>3, <2>4
<1>10. A \o R = Inserted(keys, j, e)
  <2>1. Inserted(keys, j, e) \in Seq(S) /\ Len(Inserted(keys, j, e)) = len + 1
    BY InsertedIsSequence DEF len
  <2> DEFINE s == A \o R
             t == Inserted(keys, j, e)
  <2>2. s \in Seq(S) /\ t \in Seq(S) /\ Len(s) = Len(t) /\ \A i \in 1..Len(s) : s[i] = t[i]
    BY <2>1, <1>8, <1>9
  <2> HIDE DEF s, t
  <2>3. s = t
    BY <2>2, SeqEqual
  <2> QED
    BY <2>3 DEF s, t
<1> QED
  BY <1>10 DEF InsertAt, A, L, R, len

\* Append puts it at the end.
LEMMA AppendInserts ==
    ASSUME NEW S, NEW keys \in Seq(S), NEW e \in S
    PROVE  Append(keys, e) = Inserted(keys, Len(keys) + 1, e)
<1> DEFINE len == Len(keys)
<1>1. len \in Nat /\ len + 1 \in 1..(len + 1)
  BY LenProperties
<1>2. /\ Append(keys, e) \in Seq(S) /\ Len(Append(keys, e)) = len + 1
      /\ \A i \in 1..len : Append(keys, e)[i] = keys[i]
      /\ Append(keys, e)[len + 1] = e
  BY AppendProperties
<1>3. Inserted(keys, len + 1, e) \in Seq(S) /\ Len(Inserted(keys, len + 1, e)) = len + 1
  BY <1>1, InsertedIsSequence
<1>4. \A i \in 1..(len + 1) : Append(keys, e)[i] = Inserted(keys, len + 1, e)[i]
  BY <1>1, <1>2 DEF Inserted
<1> HIDE DEF len
<1>5. Append(keys, e) = Inserted(keys, len + 1, e)
  BY <1>2, <1>3, <1>4, SeqEqual
<1> QED
  BY <1>5 DEF len

-----------------------------------------------------------------------------
(* Lists in which every key is once, and their order. *)

\* a is in the list before b.
Precedes(keys, a, b) == \E i, j \in DOMAIN keys : i < j /\ keys[i] = a /\ keys[j] = b

\* A new key leaves a list with every key once, and the others in their order.
LEMMA InsertedKeepsOrder ==
    ASSUME NEW S, NEW keys \in Seq(S), IsInjective(keys),
           NEW j \in 1..(Len(keys) + 1), NEW e \in S, e \notin ToSet(keys)
    PROVE  /\ IsInjective(Inserted(keys, j, e))
           /\ ToSet(Inserted(keys, j, e)) = ToSet(keys) \cup {e}
           /\ \A a, b \in ToSet(keys) : Precedes(keys, a, b) <=> Precedes(Inserted(keys, j, e), a, b)
<1> DEFINE len == Len(keys)
           t == Inserted(keys, j, e)
<1>1. len \in Nat /\ DOMAIN keys = 1..len /\ j \in 1..(len + 1)
  BY LenProperties
<1>2. /\ DOMAIN t = 1..(len + 1) /\ t[j] = e
      /\ \A i \in 1..len : t[IF i < j THEN i ELSE i + 1] = keys[i]
      /\ \A i \in 1..(len + 1) : i # j => t[i] = keys[IF i < j THEN i ELSE i - 1]
  BY <1>1 DEF Inserted
<1>3. \A i \in 1..len : keys[i] # e
  BY <1>1 DEF ToSet
<1>4. \A i, k \in 1..len : keys[i] = keys[k] => i = k
  BY <1>1 DEF IsInjective
<1> HIDE DEF t, len
<1>5. \A i \in 1..(len + 1) : i # j => (IF i < j THEN i ELSE i - 1) \in 1..len
  BY <1>1
<1>6. \A i \in 1..len : (IF i < j THEN i ELSE i + 1) \in 1..(len + 1)
  BY <1>1
<1>7. IsInjective(t)
  <2> SUFFICES ASSUME NEW i \in 1..(len + 1), NEW k \in 1..(len + 1), t[i] = t[k]
               PROVE  i = k
    BY <1>2 DEF IsInjective
  <2>1. CASE i = j \/ k = j
    BY <2>1, <1>2, <1>3, <1>5
  <2>2. CASE i # j /\ k # j
    <3>1. (IF i < j THEN i ELSE i - 1) = (IF k < j THEN k ELSE k - 1)
      BY <2>2, <1>2, <1>4, <1>5
    <3> QED
      BY <3>1, <2>2, <1>1
  <2> QED
    BY <2>1, <2>2
<1>8. ToSet(t) = ToSet(keys) \cup {e}
  <2>1. ASSUME NEW x \in ToSet(t) PROVE x \in ToSet(keys) \cup {e}
    BY <1>1, <1>2, <1>5 DEF ToSet
  <2>2. ASSUME NEW x \in ToSet(keys) PROVE x \in ToSet(t)
    <3>1. PICK i \in 1..len : keys[i] = x
      BY <1>1 DEF ToSet
    <3> DEFINE ii == IF i < j THEN i ELSE i + 1
    <3>2. ii \in 1..(len + 1) /\ t[ii] = x
      BY <3>1, <1>2, <1>6
    <3> HIDE DEF ii
    <3> QED
      BY <3>2, <1>2 DEF ToSet
  <2>3. e \in ToSet(t)
    BY <1>1, <1>2 DEF ToSet
  <2> QED
    BY <2>1, <2>2, <2>3
<1>9. ASSUME NEW a \in ToSet(keys), NEW b \in ToSet(keys)
      PROVE  Precedes(keys, a, b) <=> Precedes(t, a, b)
  <2>1. a # e /\ b # e
    OBVIOUS
  <2>2. ASSUME Precedes(keys, a, b) PROVE Precedes(t, a, b)
    <3>1. PICK i \in 1..len, k \in 1..len : i < k /\ keys[i] = a /\ keys[k] = b
      BY <2>2, <1>1 DEF Precedes
    <3> DEFINE ii == IF i < j THEN i ELSE i + 1
               kk == IF k < j THEN k ELSE k + 1
    <3>2. ii \in 1..(len + 1) /\ kk \in 1..(len + 1) /\ ii < kk
      BY <3>1, <1>1
    <3>3. t[ii] = a /\ t[kk] = b
      BY <3>1, <1>2
    <3> HIDE DEF ii, kk
    <3> QED
      BY <3>2, <3>3, <1>2 DEF Precedes
  <2>3. ASSUME Precedes(t, a, b) PROVE Precedes(keys, a, b)
    <3>1. PICK i \in 1..(len + 1), k \in 1..(len + 1) : i < k /\ t[i] = a /\ t[k] = b
      BY <2>3, <1>2 DEF Precedes
    <3> DEFINE ii == IF i < j THEN i ELSE i - 1
               kk == IF k < j THEN k ELSE k - 1
    <3>2. i # j /\ k # j
      BY <3>1, <2>1, <1>2
    <3>3. ii \in 1..len /\ kk \in 1..len /\ ii < kk
      BY <3>1, <3>2, <1>1
    <3>4. keys[ii] = a /\ keys[kk] = b
      BY <3>1, <3>2, <1>2
    <3> HIDE DEF ii, kk
    <3> QED
      BY <3>3, <3>4, <1>1 DEF Precedes
  <2> QED
    BY <2>2, <2>3
<1> QED
  BY <1>7, <1>8, <1>9 DEF t

\* So does the removal of one.
LEMMA DeletedKeepsOrder ==
    ASSUME NEW S, NEW keys \in Seq(S), IsInjective(keys), NEW j \in 1..Len(keys)
    PROVE  /\ IsInjective(Deleted(keys, j))
           /\ ToSet(Deleted(keys, j)) = ToSet(keys) \ {keys[j]}
           /\ \A a, b \in ToSet(keys) \ {keys[j]} :
                  Precedes(keys, a, b) <=> Precedes(Deleted(keys, j), a, b)
<1> DEFINE len == Len(keys)
           t == Deleted(keys, j)
<1>1. len \in Nat /\ DOMAIN keys = 1..len /\ j \in 1..len
  BY LenProperties
<1>2. /\ DOMAIN t = 1..(len - 1)
      /\ \A i \in 1..len : i # j => t[IF i < j THEN i ELSE i - 1] = keys[i]
      /\ \A i \in 1..(len - 1) : t[i] = keys[IF i < j THEN i ELSE i + 1]
  BY <1>1 DEF Deleted
<1>4. \A i, k \in 1..len : keys[i] = keys[k] => i = k
  BY <1>1 DEF IsInjective
<1> HIDE DEF t, len
<1>5. \A i \in 1..len : i # j => (IF i < j THEN i ELSE i - 1) \in 1..(len - 1)
  BY <1>1
<1>6. \A i \in 1..(len - 1) : /\ (IF i < j THEN i ELSE i + 1) \in 1..len
                            /\ (IF i < j THEN i ELSE i + 1) # j
  BY <1>1
<1>7. IsInjective(t)
  <2> SUFFICES ASSUME NEW i \in 1..(len - 1), NEW k \in 1..(len - 1), t[i] = t[k]
               PROVE  i = k
    BY <1>2 DEF IsInjective
  <2>1. (IF i < j THEN i ELSE i + 1) = (IF k < j THEN k ELSE k + 1)
    BY <1>2, <1>4, <1>6
  <2> QED
    BY <2>1, <1>1
<1>8. ToSet(t) = ToSet(keys) \ {keys[j]}
  <2>1. ASSUME NEW x \in ToSet(t) PROVE x \in ToSet(keys) \ {keys[j]}
    <3>1. PICK i \in 1..(len - 1) : t[i] = x
      BY <1>2 DEF ToSet
    <3> DEFINE ii == IF i < j THEN i ELSE i + 1
    <3>2. x = keys[ii] /\ ii \in 1..len /\ ii # j
      BY <3>1, <1>2, <1>6
    <3> HIDE DEF ii
    <3> QED
      BY <3>2, <1>1, <1>4 DEF ToSet
  <2>2. ASSUME NEW x \in ToSet(keys) \ {keys[j]} PROVE x \in ToSet(t)
    <3>1. PICK i \in 1..len : keys[i] = x
      BY <1>1 DEF ToSet
    <3>2. i # j
      BY <3>1
    <3> QED
      BY <3>1, <3>2, <1>2, <1>5 DEF ToSet
  <2> QED
    BY <2>1, <2>2
<1>9. ASSUME NEW a \in ToSet(keys) \ {keys[j]}, NEW b \in ToSet(keys) \ {keys[j]}
      PROVE  Precedes(keys, a, b) <=> Precedes(t, a, b)
  <2>2. ASSUME Precedes(keys, a, b) PROVE Precedes(t, a, b)
    <3>1. PICK i \in 1..len, k \in 1..len : i < k /\ keys[i] = a /\ keys[k] = b
      BY <2>2, <1>1 DEF Precedes
    <3> DEFINE ii == IF i < j THEN i ELSE i - 1
               kk == IF k < j THEN k ELSE k - 1
    <3>2. i # j /\ k # j
      BY <3>1
    <3>3. ii \in 1..(len - 1) /\ kk \in 1..(len - 1) /\ ii < kk
      BY <3>1, <3>2, <1>1
    <3>4. t[ii] = a /\ t[kk] = b
      BY <3>1, <3>2, <1>2
    <3> HIDE DEF ii, kk
    <3> QED
      BY <3>3, <3>4, <1>2 DEF Precedes
  <2>3. ASSUME Precedes(t, a, b) PROVE Precedes(keys, a, b)
    <3>1. PICK i \in 1..(len - 1), k \in 1..(len - 1) : i < k /\ t[i] = a /\ t[k] = b
      BY <2>3, <1>2 DEF Precedes
    <3> DEFINE ii == IF i < j THEN i ELSE i + 1
               kk == IF k < j THEN k ELSE k + 1
    <3>2. ii \in 1..len /\ kk \in 1..len /\ ii < kk
      BY <3>1, <1>1
    <3>3. keys[ii] = a /\ keys[kk] = b
      BY <3>1, <1>2
    <3> HIDE DEF ii, kk
    <3> QED
      BY <3>2, <3>3, <1>1 DEF Precedes
  <2> QED
    BY <2>2, <2>3
<1> QED
  BY <1>7, <1>8, <1>9 DEF t

-----------------------------------------------------------------------------
(* The pool. *)

Disks == [path : Paths, limit : Limits]

PoolTypes ==
    /\ pool = [ok |-> TRUE, keys |-> pool.keys, items |-> pool.items]
    /\ pool.keys \in Seq(Names)
    /\ pool.items \in [DOMAIN pool.items -> Disks]

PoolInv == PoolTypes /\ ListAndMapAgree

\* What has been read after the first i disks of a saved pool: they are there, in
\* their order.
ReadSoFar(i) == [ok |-> TRUE, keys |-> SubSeq(pool.keys, 1, i),
                 items |-> [k \in {pool.keys[m] : m \in 1..i} |-> pool.items[k]]]

\* Another disk is read.
LEMMA OneMoreIsRead ==
    ASSUME PoolInv, NEW i \in 1..Len(pool.keys)
    PROVE  LET d == Marshal(pool)[i]
           IN  /\ BaseName[d.path] = pool.keys[i]
               /\ ~Has(ReadSoFar(i - 1), pool.keys[i])
               /\ PoolAppend(ReadSoFar(i - 1), pool.keys[i], d) = ReadSoFar(i)
<1> DEFINE len == Len(pool.keys)
           p == ReadSoFar(i - 1)
           d == Marshal(pool)[i]
           key == pool.keys[i]
           First(m) == {pool.keys[k] : k \in 1..m}
<1>1. /\ len \in Nat /\ DOMAIN pool.keys = 1..len /\ pool.keys \in [1..len -> Names]
      /\ \A k, m \in 1..len : pool.keys[k] = pool.keys[m] => k = m
  BY LenProperties DEF PoolInv, PoolTypes, ListAndMapAgree, IsInjective
<1>2. d = pool.items[key] /\ key \in DOMAIN pool.items
  BY <1>1 DEF Marshal, PoolInv, ListAndMapAgree, ToSet
<1>3. BaseName[d.path] = key
  BY <1>2 DEF PoolInv, ListAndMapAgree
<1>4. p.ok = TRUE /\ p.keys = SubSeq(pool.keys, 1, i - 1) /\ p.items = [k \in First(i - 1) |-> pool.items[k]]
  BY DEF ReadSoFar
<1>5. key \notin First(i - 1) /\ First(i) = First(i - 1) \cup {key}
  BY <1>1
<1>6. ~Has(p, key)
  BY <1>4, <1>5 DEF Has
<1>7. Append(p.keys, key) = SubSeq(pool.keys, 1, i)
  <2>1. pool.keys \in Seq(Names) /\ 1 \in 1..len /\ i \in 1..len
    BY <1>1 DEF PoolInv, PoolTypes
  <2>2. SubSeq(pool.keys, 1, i) = SubSeq(pool.keys, 1, i - 1) \o <<pool.keys[i]>>
    BY <2>1, SubSeqRecursiveSecond
  <2>3. SubSeq(pool.keys, 1, i - 1) \in Seq(Names) /\ pool.keys[i] \in Names
    <3>1. \A k \in 1..(i - 1) : pool.keys[k] \in Names
      BY <1>1
    <3> QED
      BY <3>1, <1>1, SubSeqProperties
  <2> QED
    BY <2>2, <2>3, <1>4, AppendIsConcat
<1>8. [k \in DOMAIN p.items \cup {key} |-> IF k = key THEN d ELSE p.items[k]] = [k \in First(i) |-> pool.items[k]]
  <2>1. DOMAIN p.items = First(i - 1)
    BY <1>4
  <2>2. \A k \in First(i) : (IF k = key THEN d ELSE p.items[k]) = pool.items[k]
    BY <1>2, <1>4, <1>5
  <2> HIDE DEF First, p, key, d
  <2> QED
    BY <2>1, <2>2, <1>5
<1>9. PoolAppend(p, key, d) = [ok |-> TRUE, keys |-> Append(p.keys, key),
           items |-> [k \in DOMAIN p.items \cup {key} |-> IF k = key THEN d ELSE p.items[k]]]
  BY <1>4, Zenon DEF PoolAppend, With
<1>10. PoolAppend(p, key, d) = ReadSoFar(i)
  BY <1>7, <1>8, <1>9, Zenon DEF ReadSoFar
<1> QED
  BY <1>3, <1>6, <1>10

\* What Save writes is read back as the same pool.
LEMMA PoolIsReadBack ==
    ASSUME PoolInv
    PROVE  Unmarshal(Marshal(pool)) = pool
<1> DEFINE len == Len(pool.keys)
           disks == Marshal(pool)
           W == [i \in 0..len |-> ReadSoFar(i)]
           Read(q, i) == IF ~q.ok THEN q
                         ELSE IF Has(q, BaseName[disks[i].path]) THEN [q EXCEPT !.ok = FALSE]
                         ELSE PoolAppend(q, BaseName[disks[i].path], disks[i])
           Loop(g) == g = [i \in 0..len |-> IF i = 0 THEN EmptyPool ELSE Read(g[i - 1], i)]
<1>1. len \in Nat /\ DOMAIN pool.keys = 1..len /\ pool.keys \in Seq(Names)
  BY LenProperties DEF PoolInv, PoolTypes
<1>2. Len(disks) = len
  <2>1. disks \in [1..len -> {disks[i] : i \in 1..len}]
    BY <1>1 DEF Marshal
  <2> HIDE DEF disks, len
  <2> QED
    BY <1>1, <2>1, FunctionIsSequence
<1>3. Unmarshal(disks) = (CHOOSE g : Loop(g))[len]
  BY <1>2, Zenon DEF Unmarshal
<1>4. ReadSoFar(0) = EmptyPool
  <2>1. SubSeq(pool.keys, 1, 0) = <<>>
    BY SubSeqEmpty
  <2>2. [k \in {pool.keys[m] : m \in 1..0} |-> pool.items[k]] = <<>>
    OBVIOUS
  <2> QED
    BY <2>1, <2>2, Zenon DEF ReadSoFar, EmptyPool
<1>5. \A i \in 1..len : ReadSoFar(i) = Read(ReadSoFar(i - 1), i)
  <2> SUFFICES ASSUME NEW i \in 1..len PROVE ReadSoFar(i) = Read(ReadSoFar(i - 1), i)
    OBVIOUS
  <2>1. ReadSoFar(i - 1).ok
    BY DEF ReadSoFar
  <2>2. /\ BaseName[disks[i].path] = pool.keys[i]
        /\ ~Has(ReadSoFar(i - 1), pool.keys[i])
        /\ PoolAppend(ReadSoFar(i - 1), pool.keys[i], disks[i]) = ReadSoFar(i)
    BY OneMoreIsRead
  <2> QED
    BY <2>1, <2>2, Zenon
<1>6. W[0] = EmptyPool /\ \A i \in 1..len : W[i] = Read(W[i - 1], i)
  <2>1. 0 \in 0..len /\ \A i \in 1..len : i \in 0..len /\ i - 1 \in 0..len
    BY <1>1
  <2>2. \A i \in 0..len : W[i] = ReadSoFar(i)
    OBVIOUS
  <2> HIDE DEF W, Read
  <2> QED
    BY <1>4, <1>5, <2>1, <2>2
<1>7. Loop(W)
  <2>1. \A i \in 0..len : W[i] = IF i = 0 THEN EmptyPool ELSE Read(W[i - 1], i)
    <3>1. \A i \in 0..len : i = 0 \/ i \in 1..len
      BY <1>1
    <3> HIDE DEF W, Read, len
    <3> QED
      BY <1>6, <3>1
  <2>2. W = [i \in 0..len |-> W[i]]
    OBVIOUS
  <2> HIDE DEF W, Read
  <2> QED
    BY <2>1, <2>2
<1>8. ASSUME NEW g, Loop(g) PROVE g = W
  <2> DEFINE Body(k) == IF k = 0 THEN EmptyPool ELSE Read(g[k - 1], k)
  <2>1. g = [i \in 0..len |-> Body(i)]
    BY <1>8
  <2>2. W = [i \in 0..len |-> W[i]]
    OBVIOUS
  <2> HIDE DEF W, Read, len
  <2>3. \A i \in 0..len : g[i] = Body(i)
    <3> HIDE DEF Body
    <3> QED
      BY <2>1
  <2>4. g[0] = W[0]
    <3>1. 0 \in 0..len
      BY <1>1
    <3> QED
      BY <3>1, <1>6, <2>3, Zenon
  <2>5. ASSUME NEW i \in 1..len, g[i - 1] = W[i - 1] PROVE g[i] = W[i]
    <3>1. i \in 0..len /\ i # 0
      BY <1>1
    <3>2. g[i] = Read(g[i - 1], i)
      BY <2>3, <3>1, Zenon
    <3> QED
      BY <1>6, <2>5, <3>2, Zenon
  <2>6. \A i \in 0..len : g[i] = W[i]
    <3>1. len \in Nat
      BY <1>1
    <3> QED
      BY <3>1, <2>4, <2>5, EqualByInduction, Zenon
  <2>7. g = [i \in 0..len |-> g[i]]
    <3> HIDE DEF Body
    <3> QED
      BY <2>1, <2>3
  <2> QED
    BY <2>2, <2>6, <2>7
<1>9. (CHOOSE g : Loop(g)) = W
  <2> HIDE DEF W, Loop
  <2> QED
    BY <1>7, <1>8
<1>10. W[len] = ReadSoFar(len)
  BY <1>1
<1>11. ReadSoFar(len) = pool
  <2>1. SubSeq(pool.keys, 1, len) = pool.keys
    BY <1>1, SubSeqFull
  <2>2. {pool.keys[m] : m \in 1..len} = DOMAIN pool.items
    BY <1>1 DEF PoolInv, ListAndMapAgree, ToSet
  <2>3. [k \in DOMAIN pool.items |-> pool.items[k]] = pool.items
    BY DEF PoolInv, PoolTypes
  <2>4. pool = [ok |-> TRUE, keys |-> pool.keys, items |-> pool.items]
    BY DEF PoolInv, PoolTypes
  <2>5. ReadSoFar(len) = [ok |-> TRUE, keys |-> pool.keys, items |-> pool.items]
    BY <2>1, <2>2, <2>3, Zenon DEF ReadSoFar
  <2> QED
    BY <2>4, <2>5, Zenon
<1> QED
  BY <1>3, <1>9, <1>10, <1>11, Zenon

-----------------------------------------------------------------------------
(* The steps. *)

\* Two pools keep their common disks in one order.
SameOrder == \A a, b \in DOMAIN pool.items \cap DOMAIN pool'.items :
                 Before(pool, a, b) <=> Before(pool', a, b)

\* A new disk, wherever it is put.
LEMMA InsertionKeeps ==
    ASSUME PoolInv, NEW j \in 1..(Len(pool.keys) + 1), NEW path \in Paths, NEW limit \in Limits,
           ~Has(pool, BaseName[path]),
           pool' = With(pool, Inserted(pool.keys, j, BaseName[path]), BaseName[path],
                        [path |-> path, limit |-> limit])
    PROVE  PoolInv' /\ SameOrder
<1> DEFINE key == BaseName[path]
           d == [path |-> path, limit |-> limit]
           t == Inserted(pool.keys, j, key)
<1>1. key \in Names /\ pool.keys \in Seq(Names) /\ IsInjective(pool.keys) /\ key \notin DOMAIN pool.items
  BY BaseNameAssumption DEF PoolInv, PoolTypes, ListAndMapAgree, Has
<1>2. key \notin ToSet(pool.keys) /\ ToSet(pool.keys) = DOMAIN pool.items
  BY <1>1 DEF PoolInv, ListAndMapAgree
<1>3. t \in Seq(Names)
  BY <1>1, InsertedIsSequence
<1>4. /\ IsInjective(t) /\ ToSet(t) = ToSet(pool.keys) \cup {key}
      /\ \A a, b \in ToSet(pool.keys) : Precedes(pool.keys, a, b) <=> Precedes(t, a, b)
  BY <1>1, <1>2, InsertedKeepsOrder
<1>5. /\ pool'.ok = pool.ok /\ pool'.keys = t
      /\ pool'.items = [k \in DOMAIN pool.items \cup {key} |-> IF k = key THEN d ELSE pool.items[k]]
      /\ pool' = [ok |-> pool'.ok, keys |-> pool'.keys, items |-> pool'.items]
  <2> HIDE DEF key, t, d
  <2>1. pool' = With(pool, t, key, d)
    BY DEF key, t, d
  <2>2. pool' = [ok |-> pool.ok, keys |-> t,
                 items |-> [k \in DOMAIN pool.items \cup {key} |-> IF k = key THEN d ELSE pool.items[k]]]
    BY <2>1, Zenon DEF With
  <2> QED
    BY <2>2
<1>6. pool.ok = TRUE
  BY DEF PoolInv, PoolTypes
<1>7. d \in Disks
  BY DEF Disks
<1> HIDE DEF t, key
<1>8. PoolTypes'
  <2>1. pool'.items \in [DOMAIN pool'.items -> Disks]
    <3>1. pool.items \in [DOMAIN pool.items -> Disks]
      BY DEF PoolInv, PoolTypes
    <3> HIDE DEF d, Disks
    <3> QED
      BY <3>1, <1>5, <1>7
  <2>2. pool' = [ok |-> TRUE, keys |-> pool'.keys, items |-> pool'.items]
    BY <1>5, <1>6, Zenon
  <2> QED
    BY <2>1, <2>2, <1>3, <1>5 DEF PoolTypes
<1>9. ListAndMapAgree'
  <2>1. DOMAIN pool'.items = DOMAIN pool.items \cup {key}
    BY <1>5
  <2>2. ASSUME NEW k \in DOMAIN pool'.items PROVE BaseName[pool'.items[k].path] = k
    <3>1. CASE k = key
      BY <3>1, <1>5 DEF key
    <3>2. CASE k # key
      <4>1. pool'.items[k] = pool.items[k] /\ k \in DOMAIN pool.items
        <5> HIDE DEF d
        <5> QED
          BY <3>2, <2>1, <1>5
      <4> QED
        BY <4>1 DEF PoolInv, ListAndMapAgree
    <3> QED
      BY <3>1, <3>2
  <2> QED
    BY <2>1, <2>2, <1>2, <1>4, <1>5 DEF ListAndMapAgree
<1>10. SameOrder
  <2>1. DOMAIN pool.items \cap DOMAIN pool'.items = ToSet(pool.keys)
    BY <1>2, <1>5
  <2> QED
    BY <2>1, <1>4, <1>5 DEF SameOrder, Before, Precedes
<1> QED
  BY <1>8, <1>9, <1>10 DEF PoolInv

\* The removal of a disk.
LEMMA RemovalKeeps ==
    ASSUME PoolInv, NEW key \in DOMAIN pool.items, pool' = PoolRemove(pool, key)
    PROVE  PoolInv' /\ SameOrder
<1>1. /\ pool.keys \in Seq(Names) /\ IsInjective(pool.keys)
      /\ ToSet(pool.keys) = DOMAIN pool.items
      /\ DOMAIN pool.keys = 1..Len(pool.keys)
  BY LenProperties DEF PoolInv, PoolTypes, ListAndMapAgree
<1>2. PICK j \in 1..Len(pool.keys) : pool.keys[j] = key
  BY <1>1 DEF ToSet
<1> DEFINE t == Deleted(pool.keys, j)
<1>3. t \in Seq(Names) /\ DeleteFunc(pool.keys, key) = t
  BY <1>1, <1>2, DeleteFuncDeletes
<1>4. /\ IsInjective(t) /\ ToSet(t) = ToSet(pool.keys) \ {key}
      /\ \A a, b \in ToSet(pool.keys) \ {key} : Precedes(pool.keys, a, b) <=> Precedes(t, a, b)
  BY <1>1, <1>2, DeletedKeepsOrder
<1> HIDE DEF t
<1>5. /\ pool'.ok = pool.ok /\ pool'.keys = t
      /\ pool'.items = [k \in DOMAIN pool.items \ {key} |-> pool.items[k]]
      /\ pool' = [ok |-> pool'.ok, keys |-> pool'.keys, items |-> pool'.items]
  BY <1>3 DEF PoolRemove
<1>6. pool.ok = TRUE
  BY DEF PoolInv, PoolTypes
<1>8. PoolTypes'
  <2>1. pool'.items \in [DOMAIN pool'.items -> Disks]
    <3>1. pool.items \in [DOMAIN pool.items -> Disks]
      BY DEF PoolInv, PoolTypes
    <3> QED
      BY <3>1, <1>5
  <2>2. pool' = [ok |-> TRUE, keys |-> pool'.keys, items |-> pool'.items]
    BY <1>5, <1>6, Zenon
  <2> QED
    BY <2>1, <2>2, <1>3, <1>5 DEF PoolTypes
<1>9. ListAndMapAgree'
  <2>1. DOMAIN pool'.items = DOMAIN pool.items \ {key}
    BY <1>5
  <2>2. ASSUME NEW k \in DOMAIN pool'.items PROVE BaseName[pool'.items[k].path] = k
    <3>1. pool'.items[k] = pool.items[k] /\ k \in DOMAIN pool.items
      BY <2>1, <1>5
    <3> QED
      BY <3>1 DEF PoolInv, ListAndMapAgree
  <2> QED
    BY <2>1, <2>2, <1>1, <1>4, <1>5 DEF ListAndMapAgree
<1>10. SameOrder
  <2>1. DOMAIN pool.items \cap DOMAIN pool'.items = ToSet(pool.keys) \ {key}
    BY <1>1, <1>5
  <2> QED
    BY <2>1, <1>4, <1>5 DEF SameOrder, Before, Precedes
<1> QED
  BY <1>8, <1>9, <1>10 DEF PoolInv

\* Other limits: the list is the same and every disk keeps its path.
LEMMA LimitsKeep ==
    ASSUME PoolInv, NEW items \in [DOMAIN pool.items -> Disks],
           \A k \in DOMAIN pool.items : items[k].path = pool.items[k].path,
           pool' = [ok |-> pool.ok, keys |-> pool.keys, items |-> items]
    PROVE  PoolInv' /\ SameOrder
<1>1. /\ pool'.ok = pool.ok /\ pool'.keys = pool.keys /\ pool'.items = items
      /\ DOMAIN items = DOMAIN pool.items
  OBVIOUS
<1>2. pool.ok = TRUE
  BY DEF PoolInv, PoolTypes
<1>3. pool' = [ok |-> TRUE, keys |-> pool'.keys, items |-> pool'.items]
  BY <1>1, <1>2, Zenon
<1>4. PoolTypes'
  BY <1>1, <1>3 DEF PoolInv, PoolTypes
<1>5. ListAndMapAgree'
  BY <1>1 DEF PoolInv, ListAndMapAgree
<1>6. SameOrder
  BY <1>1 DEF SameOrder, Before
<1> QED
  BY <1>4, <1>5, <1>6 DEF PoolInv

\* Setting the limits of a disk, found under either of its names.
LEMMA SetIopsKeeps ==
    ASSUME PoolInv, NEW len, NEW limit \in Limits, pool' = SetIops(len, limit)
    PROVE  PoolInv' /\ SameOrder
<1> DEFINE items == [k \in DOMAIN pool.items |->
               IF k \in Found(len) THEN [pool.items[k] EXCEPT !.limit = limit] ELSE pool.items[k]]
<1>1. ASSUME NEW k \in DOMAIN pool.items
      PROVE  items[k] \in Disks /\ items[k].path = pool.items[k].path
  <2>1. pool.items[k] \in Disks
    BY DEF PoolInv, PoolTypes
  <2>2. /\ [pool.items[k] EXCEPT !.limit = limit] \in Disks
        /\ [pool.items[k] EXCEPT !.limit = limit].path = pool.items[k].path
    BY <2>1 DEF Disks
  <2>3. items[k] = IF k \in Found(len) THEN [pool.items[k] EXCEPT !.limit = limit] ELSE pool.items[k]
    BY Zenon
  <2> HIDE DEF items
  <2> QED
    BY <2>1, <2>2, <2>3
<1>2. pool' = [ok |-> pool.ok, keys |-> pool.keys, items |-> items]
  BY Zenon DEF SetIops
<1>3. items \in [DOMAIN pool.items -> Disks]
  <2>1. items = [k \in DOMAIN pool.items |-> items[k]]
    OBVIOUS
  <2> HIDE DEF items
  <2> QED
    BY <1>1, <2>1
<1> HIDE DEF items
<1> QED
  BY <1>1, <1>2, <1>3, LimitsKeep

\* DiskAttach.
LEMMA AttachKeeps ==
    ASSUME PoolInv, NEW path \in Paths, NEW limit \in Limits, NEW position \in Positions,
           Attach(path, limit, position)
    PROVE  PoolInv' /\ SameOrder
<1> DEFINE key == BaseName[path]
           d == [path |-> path, limit |-> limit]
           len == Len(pool.keys)
<1>1. key \in Names /\ pool.keys \in Seq(Names) /\ len \in Nat /\ position \in Int
  BY BaseNameAssumption, LenProperties DEF PoolInv, PoolTypes
<1>2. CASE Has(pool, key)
  <2>1. pool' = SetIops(path, limit)
    BY <1>2, Zenon DEF Attach
  <2> QED
    BY <2>1, SetIopsKeeps
<1>3. CASE ~Has(pool, key) /\ position < 0
  <2>1. pool' = PoolAppend(pool, key, d)
    BY <1>3, Zenon DEF Attach
  <2>2. pool' = With(pool, Inserted(pool.keys, len + 1, key), key, d)
    BY <2>1, <1>1, AppendInserts, Zenon DEF PoolAppend
  <2>3. len + 1 \in 1..(len + 1)
    BY <1>1
  <2> QED
    BY <2>2, <2>3, <1>3, InsertionKeeps
<1>4. CASE ~Has(pool, key) /\ ~(position < 0)
  <2> DEFINE j == (IF position > len THEN len ELSE position) + 1
  <2>1. pool' = PoolInsert(pool, key, d, position)
    BY <1>4, Zenon DEF Attach
  <2>2. j \in 1..(len + 1)
    BY <1>1, <1>4
  <2>3. pool' = With(pool, InsertAt(pool.keys, j, key), key, d)
    BY <2>1, Zenon DEF PoolInsert
  <2> HIDE DEF j
  <2>4. InsertAt(pool.keys, j, key) = Inserted(pool.keys, j, key)
    BY <1>1, <2>2, InsertAtInserts
  <2>5. pool' = With(pool, Inserted(pool.keys, j, key), key, d)
    BY <2>3, <2>4, Zenon
  <2> QED
    BY <2>2, <2>5, <1>4, InsertionKeeps
<1> QED
  BY <1>2, <1>3, <1>4

\* Every step keeps the invariant and the order.
LEMMA PoolStep ==
    PoolInv /\ [PoolNext]_pool => PoolInv' /\ (SameOrder \/ UNCHANGED pool)
<1> SUFFICES ASSUME PoolInv, [PoolNext]_pool
             PROVE  PoolInv' /\ (SameOrder \/ UNCHANGED pool)
  OBVIOUS
<1>1. ASSUME NEW path \in Paths, NEW limit \in Limits, NEW position \in Positions,
             Attach(path, limit, position)
      PROVE  PoolInv' /\ SameOrder
  BY <1>1, AttachKeeps
<1>2. ASSUME NEW len \in Paths \cup Names, Detach(len)
      PROVE  PoolInv' /\ (SameOrder \/ UNCHANGED pool)
  <2>1. ASSUME NEW key \in Found(len), pool' = PoolRemove(pool, key)
        PROVE  PoolInv' /\ SameOrder
    <3>1. key \in DOMAIN pool.items
      BY DEF Found, Has
    <3> QED
      BY <3>1, <2>1, RemovalKeeps
  <2>2. ASSUME UNCHANGED pool PROVE PoolInv'
    BY <2>2 DEF PoolInv, PoolTypes, ListAndMapAgree
  <2> QED
    BY <1>2, <2>1, <2>2 DEF Detach
<1>3. ASSUME NEW len \in Paths \cup Names, NEW limit \in Limits, SetLimit(len, limit)
      PROVE  PoolInv' /\ SameOrder
  BY <1>3, SetIopsKeeps DEF SetLimit
<1>4. ASSUME Reload \/ UNCHANGED pool
      PROVE  PoolInv' /\ UNCHANGED pool
  <2>1. pool' = pool
    BY <1>4, PoolIsReadBack DEF Reload
  <2> QED
    BY <2>1 DEF PoolInv, PoolTypes, ListAndMapAgree
<1> QED
  BY <1>1, <1>2, <1>3, <1>4 DEF PoolNext

\* An empty pool satisfies the invariant.
LEMMA PoolInitInv == PoolInit => PoolInv
<1> SUFFICES ASSUME PoolInit PROVE PoolInv
  OBVIOUS
<1>1. pool.ok = TRUE /\ pool.keys = <<>> /\ pool.items = <<>> /\ DOMAIN pool.items = {}
  BY DEF PoolInit, EmptyPool
<1>2. pool = [ok |-> TRUE, keys |-> pool.keys, items |-> pool.items]
  BY <1>1, Zenon DEF PoolInit, EmptyPool
<1>3. PoolTypes
  <2>1. pool.items \in [DOMAIN pool.items -> Disks]
    BY <1>1
  <2> QED
    BY <2>1, <1>1, <1>2 DEF PoolTypes
<1>4. ListAndMapAgree
  BY <1>1 DEF ListAndMapAgree, IsInjective, ToSet
<1> QED
  BY <1>3, <1>4 DEF PoolInv

\* The invariant always holds.
LEMMA PoolInvariant == PoolSpec => []PoolInv
  BY PoolInitInv, PoolStep, PTL DEF PoolSpec

\* PoolIsSound: after every sequence of attach, insert, detach and change of limits, list
\* and map agree, and what Save writes is read back as the same pool, for any number
\* of disks (Append, Insert, Remove, MarshalJSON and UnmarshalJSON of the pool).
THEOREM PoolStaysSound == PoolSpec => []PoolIsSound
<1>1. PoolInv => PoolIsSound
  BY PoolIsReadBack DEF PoolIsSound, ReloadChangesNothing, PoolInv
<1> QED
  BY <1>1, PoolInvariant, PTL

\* OrderKept: no step moves the disks that stay against each other, whichever disk is
\* inserted where or removed, and whatever is read back.
THEOREM DisksKeepTheirOrder == PoolSpec => OrderKept
<1>1. PoolInv /\ [PoolNext]_pool => [SameOrder]_pool
  BY PoolStep
<1> QED
  BY <1>1, PoolInvariant, PTL DEF PoolSpec, OrderKept, SameOrder
=============================================================================
