--------------------------- MODULE TaskPoolProofs ---------------------------
(***************************************************************************)
(* Proofs about the task pool, for any number of clients, machines, disks  *)
(* and attempts: its types, and what the targets of the handlers keep      *)
(* apart.                                                                  *)
(***************************************************************************)
EXTENDS TaskPool, TLAPS

\* Colliding is symmetric: who came first does not matter.
LEMMA CollideSymmetric ==
    ASSUME NEW s, NEW t
    PROVE  Collide(s, t) <=> Collide(t, s)
BY DEF Collide

\* Every variable of the pool keeps its type; in particular no request ever
\* makes more than MaxAttempts attempts.
THEOREM TaskTypes == TaskSpec => []TaskTypeOK
<1>1. TaskInit => TaskTypeOK
  BY AttemptsAssumption DEF TaskInit, TaskTypeOK, PCs, Answers
<1>2. TaskTypeOK /\ [TaskNext]_taskVars => TaskTypeOK'
  <2> SUFFICES ASSUME TaskTypeOK, [TaskNext]_taskVars
               PROVE  TaskTypeOK'
    OBVIOUS
  <2> USE AttemptsAssumption DEF TaskTypeOK, PCs, Answers
  <2>1. ASSUME NEW c \in Clients, NEW o \in Operations, Request(c, o)
        PROVE  TaskTypeOK'
    BY <2>1 DEF Request
  <2>2. ASSUME NEW c \in Clients, StartTask(c)
        PROVE  TaskTypeOK'
    BY <2>2 DEF StartTask
  <2>3. ASSUME NEW c \in Clients, Retry(c)
        PROVE  TaskTypeOK'
    BY <2>3 DEF Retry, Return
  <2>4. ASSUME NEW c \in Clients, NEW r \in {"done", "failed"}, Finish(c, r)
        PROVE  TaskTypeOK'
    BY <2>4 DEF Finish, Return
  <2>5. ASSUME NEW c \in Clients, CancelGroup(c)
        PROVE  TaskTypeOK'
    BY <2>5 DEF CancelGroup, Live
  <2>6. CASE Restart
    BY <2>6 DEF Restart
  <2>7. CASE UNCHANGED taskVars
    BY <2>7 DEF taskVars
  <2> QED
    BY <2>1, <2>2, <2>3, <2>4, <2>5, <2>6, <2>7 DEF TaskNext
<1> QED
  BY <1>1, <1>2, PTL DEF TaskSpec

\* Two live tasks never block a common class of operations on one object.
\* The invariant is inductive given the types: a step adds at most one live
\* task, the one whose targets were just compared with all the others.
LEMMA MutualExclusion == TaskSpec => []Exclusion
<1>1. TaskInit => Exclusion
  BY DEF TaskInit, Exclusion, Live
<1>2. TaskTypeOK /\ Exclusion /\ [TaskNext]_taskVars => Exclusion'
  <2> SUFFICES ASSUME TaskTypeOK, Exclusion, [TaskNext]_taskVars
               PROVE  Exclusion'
    OBVIOUS
  <2>0. ASSUME NEW c \in Live', NEW d \in Live', c # d,
               c \in Live, d \in Live, op'[c] = op[c], op'[d] = op[d]
        PROVE  ~Collide(Targets(op'[c]), Targets(op'[d]))
    BY <2>0 DEF Exclusion
  <2>1. ASSUME NEW c \in Clients, NEW o \in Operations, Request(c, o)
        PROVE  Exclusion'
    BY <2>1, <2>0 DEF Request, Exclusion, Live, TaskTypeOK
  <2>2. ASSUME NEW c \in Clients, StartTask(c)
        PROVE  Exclusion'
    <3>1. op' = op /\ Live' \subseteq Live \cup {c} /\ (c \in Live' => Admissible(c))
      BY <2>2 DEF StartTask, Live, TaskTypeOK
    <3>2. SUFFICES ASSUME NEW d \in Live', NEW e \in Live', d # e
                   PROVE  ~Collide(Targets(op[d]), Targets(op[e]))
      BY <3>1 DEF Exclusion
    <3>3. CASE d = c
      BY <3>1, <3>2, <3>3 DEF Admissible
    <3>4. CASE e = c
      BY <3>1, <3>2, <3>4, CollideSymmetric DEF Admissible
    <3>5. CASE d # c /\ e # c
      BY <3>1, <3>2, <3>5 DEF Exclusion
    <3> QED
      BY <3>3, <3>4, <3>5
  <2>3. ASSUME NEW c \in Clients, Retry(c)
        PROVE  Exclusion'
    BY <2>3, <2>0 DEF Retry, Return, Exclusion, Live, TaskTypeOK
  <2>4. ASSUME NEW c \in Clients, NEW r \in {"done", "failed"}, Finish(c, r)
        PROVE  Exclusion'
    BY <2>4, <2>0 DEF Finish, Return, Exclusion, Live, TaskTypeOK
  <2>5. ASSUME NEW c \in Clients, CancelGroup(c)
        PROVE  Exclusion'
    BY <2>5 DEF CancelGroup, Exclusion, Live
  <2>6. CASE Restart
    BY <2>6 DEF Restart, Exclusion, Live
  <2>7. CASE UNCHANGED taskVars
    BY <2>7 DEF taskVars, Exclusion, Live
  <2> QED
    BY <2>1, <2>2, <2>3, <2>4, <2>5, <2>6, <2>7 DEF TaskNext
<1> QED
  BY <1>1, <1>2, TaskTypes, PTL DEF TaskSpec

\* A request that has not returned names an operation of the API.
PendingNamed == \A c \in Clients : pc[c] # "idle" => op[c] \in Operations

\* Whatever waits or runs was asked for: taskStart clears the operation of a
\* caller only when it returns to it.
LEMMA PendingNamedInvariant == TaskSpec => []PendingNamed
<1>1. TaskInit => PendingNamed
  BY DEF TaskInit, PendingNamed
<1>2. TaskTypeOK /\ PendingNamed /\ [TaskNext]_taskVars => PendingNamed'
  BY DEF TaskTypeOK, PendingNamed, TaskNext, taskVars, Request,
         StartTask, Retry, Return, Finish, CancelGroup, Restart
<1> QED
  BY <1>1, <1>2, TaskTypes, PTL DEF TaskSpec

\* What an operation blocks where it meets others: the highest class, the one
\* of configuration changes, belongs to every mask that blocks anything.
LEMMA BlockedByKind ==
    ASSUME NEW o \in Operations
    PROVE  /\ o.kind \in {"Update", "Conf", "Migration", "IncomingMigration", "DiskBackup"}
                => <<o.vm, Machine>> \in Objects /\ 7 \in Targets(o)[<<o.vm, Machine>>]
           /\ o.kind = "DiskBackup"
                => /\ <<o.vm, BaseOf(o.disk)>> \in Objects
                   /\ 7 \in Targets(o)[<<o.vm, BaseOf(o.disk)>>]
           /\ o.kind = "BitmapRemove"
                => <<o.vm, o.disk>> \in Objects /\ 7 \in Targets(o)[<<o.vm, o.disk>>]
           /\ o.kind = "Registration"
                => <<o.vm, "registration">> \in Objects
                     /\ 7 \in Targets(o)[<<o.vm, "registration">>]
           /\ o.kind = "Deregistration"
                => <<o.vm, "deregistration">> \in Objects
                     /\ 7 \in Targets(o)[<<o.vm, "deregistration">>]
           /\ o.kind = "Shutdown"
                => <<o.vm, "shutdown">> \in Objects
                     /\ 7 \in Targets(o)[<<o.vm, "shutdown">>]
<1>1. /\ o.vm \in VMs
      /\ o.kind \in DiskKinds => o.disk \in Disks \cup Paths /\ BaseOf(o.disk) \in Disks
  BY PathsAssumption DEF Operations, MachineKinds, DiskKinds, BaseOf
<1>2. /\ <<o.vm, Machine>> \in Objects
      /\ o.kind \in DiskKinds
           => <<o.vm, o.disk>> \in Objects /\ <<o.vm, BaseOf(o.disk)>> \in Objects
      /\ \A p \in Parts : <<o.vm, p>> \in Objects
  BY <1>1 DEF Objects
<1>3. /\ o.kind \in {"Update", "Migration", "IncomingMigration"}
           => Targets(o) = BlockAnyOperations(o.vm, Machine)
      /\ o.kind = "Conf" => Targets(o) = BlockConfOperations(o.vm)
      /\ o.kind = "DiskBackup" => Targets(o) = BlockBackupOperations(o.vm, BaseOf(o.disk))
      /\ o.kind = "BitmapRemove" => Targets(o) = BlockAnyOperations(o.vm, o.disk)
      /\ o.kind = "Registration" => Targets(o) = BlockAnyOperations(o.vm, "registration")
      /\ o.kind = "Deregistration" => Targets(o) = BlockAnyOperations(o.vm, "deregistration")
      /\ o.kind = "Shutdown" => Targets(o) = BlockAnyOperations(o.vm, "shutdown")
  BY DEF Targets
<1>4. 7 \in ModeBlockAll /\ 7 \in ModeBlockConf
  BY DEF ModeBlockAll, ModeBlockConf
<1>5. \A p : <<o.vm, p>> \in Objects => 7 \in BlockAnyOperations(o.vm, p)[<<o.vm, p>>]
  BY <1>4 DEF BlockAnyOperations, OnlyOn
<1>6. 7 \in BlockConfOperations(o.vm)[<<o.vm, Machine>>]
  BY <1>2, <1>4 DEF BlockConfOperations, OnlyOn
<1>7. o.kind = "DiskBackup"
        => /\ 7 \in BlockBackupOperations(o.vm, BaseOf(o.disk))[<<o.vm, Machine>>]
           /\ 7 \in BlockBackupOperations(o.vm, BaseOf(o.disk))[<<o.vm, BaseOf(o.disk)>>]
  BY <1>2, <1>4 DEF BlockBackupOperations, DiskKinds
<1> QED
  BY <1>2, <1>3, <1>5, <1>6, <1>7 DEF DiskKinds, Parts

\* The targets of the handlers keep apart all that would change one file, the
\* devices of one QEMU or one bitmap, and a backup from whatever changes the
\* devices it works on.  It follows from the exclusion: whoever changes the file
\* or the devices, and a backup, holds the class of configuration changes on the
\* machine; a backup, and a removal by base name, every class on the disk.
THEOREM TasksAreKeptApart == TaskSpec => []ChangesAreApart
<1>1. PendingNamed /\ Exclusion => ChangesAreApart
  <2> SUFFICES ASSUME PendingNamed, Exclusion,
                      NEW c \in Live, NEW d \in Live, c # d,
                      op[c].kind = "BitmapRemove" => op[c].disk \in Disks,
                      op[d].kind = "BitmapRemove" => op[d].disk \in Disks,
                      NEW r \in Changes(op[c]) \cap Needs(op[d])
               PROVE  FALSE
    BY DEF ChangesAreApart
  <2> DEFINE Confs == {"Update", "Conf", "Migration", "IncomingMigration", "DiskBackup"}
  <2>1. op[c] \in Operations /\ op[d] \in Operations
    BY DEF PendingNamed, Live
  <2>2. ASSUME NEW o \in Objects, 7 \in Targets(op[c])[o], 7 \in Targets(op[d])[o]
        PROVE  FALSE
    BY <2>2 DEF Exclusion, Collide
  <2>3. /\ op[c].vm = op[d].vm
        /\ \/ op[c].kind \in Confs /\ op[d].kind \in Confs
           \/ /\ op[c].kind \in DiskKinds /\ op[d].kind \in DiskKinds
              /\ BaseOf(op[c].disk) = BaseOf(op[d].disk)
    <3>1. \A o \in Operations : \A x \in Needs(o) :
             /\ x[1] = o.vm
             /\ \/ o.kind \in Confs /\ x[2] \in {"file", "devices"}
                \/ o.kind \in DiskKinds /\ x[2] = "bitmap" /\ x[3] = BaseOf(o.disk)
      BY DEF Needs, Changes, DiskKinds
    <3>2. r \in Needs(op[c]) /\ r \in Needs(op[d])
      BY DEF Needs
    <3> QED
      BY <2>1, <3>1, <3>2 DEF DiskKinds
  <2>4. CASE op[c].kind \in Confs /\ op[d].kind \in Confs
    <3>1. /\ 7 \in Targets(op[c])[<<op[c].vm, Machine>>] /\ <<op[c].vm, Machine>> \in Objects
          /\ 7 \in Targets(op[d])[<<op[d].vm, Machine>>]
      BY <2>1, <2>4, BlockedByKind
    <3> QED
      BY <2>2, <2>3, <3>1
  <2>5. CASE /\ op[c].kind \in DiskKinds /\ op[d].kind \in DiskKinds
             /\ BaseOf(op[c].disk) = BaseOf(op[d].disk)
    <3>1. \A o \in {op[c], op[d]} :
             /\ <<o.vm, BaseOf(o.disk)>> \in Objects
             /\ 7 \in Targets(o)[<<o.vm, BaseOf(o.disk)>>]
      BY <2>1, <2>5, BlockedByKind, PathsAssumption DEF DiskKinds, BaseOf
    <3> QED
      BY <2>2, <2>3, <2>5, <3>1
  <2> QED
    BY <2>3, <2>4, <2>5
<1> QED
  BY <1>1, MutualExclusion, PendingNamedInvariant, PTL

\* The targets alone keep apart the tasks that are started with one label.
THEOREM LabelsAreUnique == TaskSpec => []UniqueLabels
<1>1. PendingNamed /\ Exclusion => UniqueLabels
  <2> SUFFICES ASSUME PendingNamed, Exclusion,
                      NEW c \in Live, NEW d \in Live, c # d,
                      NEW l \in UniqueLabel(op[c]) \cap UniqueLabel(op[d])
               PROVE  FALSE
    BY DEF UniqueLabels
  <2>1. op[c] \in Operations /\ op[d] \in Operations
    BY DEF PendingNamed, Live
  <2>2. ASSUME NEW o \in Objects, 7 \in Targets(op[c])[o], 7 \in Targets(op[d])[o]
        PROVE  FALSE
    BY <2>2 DEF Exclusion, Collide
  <2>3. /\ op[c].kind = op[d].kind /\ op[c].vm = op[d].vm
        /\ op[c].kind \in {"DiskBackup", "Migration", "IncomingMigration", "Registration",
                           "Deregistration", "Shutdown"}
    BY DEF UniqueLabel
  <2>4. ASSUME NEW part,
               <<op[c].vm, part>> \in Objects, 7 \in Targets(op[c])[<<op[c].vm, part>>],
               7 \in Targets(op[d])[<<op[d].vm, part>>]
        PROVE  FALSE
    BY <2>2, <2>3, <2>4
  <2>5. CASE op[c].kind \in {"DiskBackup", "Migration", "IncomingMigration"}
    <3>1. 7 \in Targets(op[c])[<<op[c].vm, Machine>>] /\ <<op[c].vm, Machine>> \in Objects
      BY <2>1, <2>5, BlockedByKind
    <3>2. 7 \in Targets(op[d])[<<op[d].vm, Machine>>]
      BY <2>1, <2>3, <2>5, BlockedByKind
    <3> QED
      BY <2>4, <3>1, <3>2
  <2>6. CASE op[c].kind = "Registration"
    BY <2>1, <2>3, <2>4, <2>6, BlockedByKind
  <2>7. CASE op[c].kind = "Deregistration"
    BY <2>1, <2>3, <2>4, <2>7, BlockedByKind
  <2>8. CASE op[c].kind = "Shutdown"
    BY <2>1, <2>3, <2>4, <2>8, BlockedByKind
  <2> QED
    BY <2>3, <2>5, <2>6, <2>7, <2>8
<1> QED
  BY <1>1, MutualExclusion, PendingNamedInvariant, PTL
=============================================================================
