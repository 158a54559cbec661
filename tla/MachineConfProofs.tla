------------------------- MODULE MachineConfProofs -------------------------
(***************************************************************************)
(* Proofs about the handlers that change a machine, for any number of      *)
(* clients, machines, slots, values and QEMU processes.  The exclusion of  *)
(* the task pool is taken from TaskPoolProofs: the handlers' steps are     *)
(* steps of the pool.                                                      *)
(***************************************************************************)
EXTENDS MachineConf, TaskPoolProofs

\* Every handler blocks configuration changes of its machine, and one that adds
\* to QEMU does not remove from the configuration.
LEMMA HandlerShapes ==
    ASSUME NEW h \in AllHandlers
    PROVE  /\ h.kind \in {"Update", "Conf"}
           /\ h.inQemu \in {"keep", "put", "add", "drop", "release", "replace", "change"}
           /\ h.inConf \in {"put", "add", "drop", "replace", "swap", "overlay", "ignore"}
           /\ h.inQemu = "add" => h.inConf = "add"
           /\ h.inConf = "ignore" => h.inQemu = "keep"
BY DEF AllHandlers, Handler,
       DiskAttach, DiskAttachLimits, DiskDetach, DiskSetReadLimit, DiskSetWriteLimit,
       CdromAttach, CdromDetach, CdromChangeMedia, CdromRemoveMedia,
       NetIfaceAttach, NetIfaceDetach, NetIfaceSetUpScript, NetIfaceSetDownScript,
       NetIfaceSetQueues, ChannelAttach_VSock, ChannelDetach_VSock,
       HostDeviceAttach, HostDeviceDetach, HostDeviceSetMultifunctionOption,
       HostDeviceSetPrimaryGpuOption, InputDeviceAttach, InputDeviceDetach,
       CPUSetSockets, CPUSetQuota, CPUSetModel, FirmwareSet, FirmwareSetLegacy,
       FirmwareRemove, ExternalKernelSet, ExternalKernelRemove, CloudInitDriveAttach,
       CloudInitDriveDetach, CloudInitDriveChangeMedia

\* An effect that does not fail gives a slot a content that keeps the promise of
\* the answer, and what need not be saved is what was there.
LEMMA OutcomeKeepsPromise ==
    ASSUME NEW effect \in {"keep", "put", "add", "drop", "release", "replace", "change", "swap",
                        "overlay", "ignore"},
           NEW old \in Contents, NEW new \in Contents,
           effect \in {"add", "overlay"} => new \in Values
    PROVE  LET o == Outcome(effect, old, new)
           IN  /\ o.err \in BOOLEAN /\ o.save \in BOOLEAN /\ o.content \in Contents
               /\ o.save => ~o.err
               /\ ~o.err => o.content \in Promise(effect, old, new)
               /\ ~o.err /\ ~o.save => o.content = old
<1> USE DEF Ok, Error, Nothing, Contents
<1>1. CASE effect = "keep"
  BY <1>1 DEF Outcome, Promise
<1>2. CASE effect = "put"
  BY <1>2 DEF Outcome, Promise, Put
<1>3. CASE effect = "add"
  BY <1>3 DEF Outcome, Promise, Add
<1>4. CASE effect \in {"drop", "release"}
  BY <1>4 DEF Outcome, Promise, Drop
<1>5. CASE effect = "replace"
  BY <1>5 DEF Outcome, Promise, Replace
<1>6. CASE effect = "change"
  BY <1>6 DEF Outcome, Promise, ChangeMedium
<1>7. CASE effect = "swap"
  BY <1>7 DEF Outcome, Promise, SwapMedium
<1>8. CASE effect \in {"overlay", "ignore"}
  BY <1>8 DEF Outcome, Promise, Overlay, Ignore
<1> QED
  BY <1>1, <1>2, <1>3, <1>4, <1>5, <1>6, <1>7, <1>8

-----------------------------------------------------------------------------
(* Every step of a handler is a step of the pool. *)

\* A behaviour of the handlers is a behaviour of the pool of tasks.
LEMMA HandlersUseThePool == Spec => TaskSpec
<1>1. Init => TaskInit
  BY DEF Init
<1>2. [Next]_vars => [TaskNext]_taskVars
  <2> SUFFICES ASSUME [Next]_vars PROVE TaskNext \/ UNCHANGED taskVars
    OBVIOUS
  <2> USE DEF TaskNext, Ends, Answer
  <2>1. ASSUME NEW c \in Clients, NEW o \in Operations, Request(c, o)
        PROVE  TaskNext
    BY <2>1
  <2>2. ASSUME NEW c \in Clients, StartTask(c) \/ Retry(c)
        PROVE  TaskNext
    BY <2>2
  <2>3. ASSUME NEW c \in Clients, NEW result \in {"done", "failed"}, Finish(c, result)
        PROVE  TaskNext
    BY <2>3
  <2>4. ASSUME NEW c \in Clients,
               LoadFails(c) \/ LiveChangeFails(c) \/ ConfRefuses(c) \/ NothingToSave(c)
                 \/ SaveWrites(c) \/ SaveFails(c) \/ OtherEnds(c)
        PROVE  TaskNext
    BY <2>3, <2>4 DEF LoadFails, LiveChangeFails, ConfRefuses, NothingToSave, SaveWrites,
                      SaveFails, OtherEnds
  <2>5. ASSUME NEW c \in Clients,
               (\E ch \in Change : Load(c, ch)) \/ LiveChange(c) \/ SaveTruncates(c)
                 \/ MigrationReads(c)
        PROVE  UNCHANGED taskVars
    BY <2>5 DEF Load, LiveChange, SaveTruncates, MigrationReads
  <2>6. ASSUME NEW v \in VMs, Boot(v) \/ PowerOff(v) \/ \E s \in Slots : Release(v, s)
        PROVE  UNCHANGED taskVars
    BY <2>6 DEF Boot, PowerOff, Release
  <2>7. CASE Crash
    BY <2>7 DEF Crash
  <2>8. CASE UNCHANGED vars
    BY <2>8 DEF vars
  <2> QED
    BY <2>1, <2>2, <2>4, <2>5, <2>6, <2>7, <2>8 DEF Next
<1> QED
  BY <1>1, <1>2, PTL DEF Spec, TaskSpec

\* Hence what the pool guarantees: types, named operations, exclusion.
PoolFacts == TaskTypeOK /\ PendingNamed /\ Exclusion

\* So the pool's theorems hold of the handlers.
LEMMA PoolFactsHold == Spec => []PoolFacts
  BY HandlersUseThePool, TaskTypes, PendingNamedInvariant, MutualExclusion, PTL DEF PoolFacts

\* The tasks that read or change the configuration of a machine.
ConfKinds == {"Update", "Conf", "Migration"}

\* At most one of them is live on a machine.
LEMMA OneWriter ==
    ASSUME PoolFacts, NEW c \in Live, NEW d \in Live, op[c].vm = op[d].vm,
           op[c].kind \in ConfKinds, op[d].kind \in ConfKinds
    PROVE  c = d
<1>1. op[c] \in Operations /\ op[d] \in Operations
  BY DEF PoolFacts, PendingNamed, Live
<1>2. /\ <<op[c].vm, Machine>> \in Objects
      /\ 7 \in Targets(op[c])[<<op[c].vm, Machine>>]
      /\ 7 \in Targets(op[d])[<<op[c].vm, Machine>>]
  BY <1>1, BlockedByKind DEF ConfKinds
<1> QED
  BY <1>2 DEF PoolFacts, Exclusion, Collide

-----------------------------------------------------------------------------
(* The inductive invariant. *)

Processes  == [on : BOOLEAN, inst : 0..MaxInstances, has : Machines, leaving : SUBSET Slots]
Readings   == [on : BOOLEAN, inst : 0..MaxInstances, has : Contents, leaving : BOOLEAN]
Changing   == {"loaded", "changed", "writing"}
SentBody   == [stage : {"sent"}, conf : Machines]
ChangeBody == [stage : Changing, ch : Change, conf : Machines, r : Readings]

ConfTypeOK ==
    /\ file    \in [VMs -> [ok : BOOLEAN, has : Machines]]
    /\ qemu    \in [VMs -> Processes]
    /\ body    \in [Clients -> {Idle} \cup SentBody \cup ChangeBody]
    /\ stored  \in [VMs -> [Slots -> SUBSET Contents]]
    /\ plugged \in [VMs -> [Slots -> SUBSET Contents]]

\* Only a live task of the right class has a handler at work.
BodyIsLive(c) ==
    /\ body[c] # Idle => c \in Live
    /\ body[c] \in SentBody   => op[c].kind = "Migration"
    /\ body[c] \in ChangeBody => op[c].kind = body[c].ch.handler.kind

\* What a handler has read of the configuration is what the file says until the
\* handler itself truncates it; then it still has all that was answered of the
\* other slots.
ReadIsCurrent(c) ==
    LET b == body[c]
        v == op[c].vm
    IN  /\ b \in SentBody \/ (b \in ChangeBody /\ b.stage \in {"loaded", "changed"})
              => file[v] = Intact(b.conf)
        /\ b \in ChangeBody /\ b.stage = "writing"
              => /\ ConfOutcome(b).save
                 /\ \A s \in Slots \ {b.ch.slot} : b.conf[s] \in stored[v][s]

\* QEMU has what the handler has read, and keeps what it has changed there, as
\* long as it is the process the handler has seen; what goes was on its way out
\* before.
LiveIsCurrent(c) ==
    LET b == body[c]
        q == qemu[op[c].vm]
        s == b.ch.slot
    IN  b \in ChangeBody
          => /\ b.r.inst <= q.inst
             /\ InQemu(b) /\ q.on /\ q.inst = b.r.inst
                  => IF b.stage = "loaded"
                       THEN /\ q.has[s] # b.r.has => b.r.leaving /\ q.has[s] = None
                            /\ s \in q.leaving => b.r.leaving
                       ELSE /\ q.has[s] \in LivePromise(b)
                            /\ s \in q.leaving => None \in LivePromise(b)

BodyOK(c) == BodyIsLive(c) /\ ReadIsCurrent(c) /\ LiveIsCurrent(c)

\* Nothing is said of a process that does not run.
OffSaysNothing == \A v \in VMs, s \in Slots : ~qemu[v].on => plugged[v][s] = Contents

\* Of what is on its way out no answer says that it stays.
LeavingIsKnown == \A v \in VMs : \A s \in qemu[v].leaving : None \in plugged[v][s]

ConfInv ==
    /\ ConfTypeOK
    /\ \A c \in Clients : BodyOK(c)
    /\ OffSaysNothing /\ LeavingIsKnown
    /\ AnsweredChangesAreStored
    /\ AnsweredChangesAreLive

\* The three forms of a handler's local state are told apart by its stage.
LEMMA BodyForms ==
    ASSUME ConfTypeOK, NEW c \in Clients
    PROVE  /\ body[c] \in {Idle} \cup SentBody \cup ChangeBody
           /\ body[c] = Idle <=> body[c].stage = "none"
           /\ body[c] \in SentBody <=> body[c].stage = "sent"
           /\ body[c] \in ChangeBody <=> body[c].stage \in Changing
BY DEF ConfTypeOK, Idle, SentBody, ChangeBody, Changing

\* A handler that does nothing is no record of a running one.
LEMMA IdleIsNone == Idle \notin SentBody /\ Idle \notin ChangeBody
  BY DEF Idle, SentBody, ChangeBody, Changing

\* What the answer tells the caller about the file.
ConfPromise(b) == Promise(b.ch.handler.inConf, b.conf[b.ch.slot], b.ch.value)

\* What a handler computes from what it has read.
LEMMA BodyOutcomes ==
    ASSUME NEW b \in ChangeBody
    PROVE  /\ b.ch.slot \in Slots
           /\ b.ch.handler.kind \in {"Update", "Conf"}
           /\ LiveOutcome(b).content \in Contents
           /\ ConfOutcome(b).content \in Contents
           /\ ConfOutcome(b).save => ~ConfOutcome(b).err
           /\ LivePromise(b) \subseteq Contents
           /\ ConfPromise(b) \subseteq Contents
           /\ ~LiveOutcome(b).err => LiveOutcome(b).content \in LivePromise(b)
           /\ b.r.leaving => None \in LivePromise(b)
           /\ b.ch.handler.inQemu = "release" => LivePromise(b) = Contents
           /\ ~ConfOutcome(b).err => ConfOutcome(b).content \in ConfPromise(b)
           /\ ~ConfOutcome(b).err /\ ~ConfOutcome(b).save
                 => ConfOutcome(b).content = b.conf[b.ch.slot]
<1> DEFINE h == b.ch.handler
<1>1. /\ h \in AllHandlers /\ b.ch.slot \in Slots /\ b.ch.value \in Contents
      /\ b.ch.value = None <=> h.inConf \in {"drop", "ignore"}
      /\ b.conf[b.ch.slot] \in Contents /\ b.r.has \in Contents
  BY DEF ChangeBody, Change, Machines, Readings
<1>2. /\ h.kind \in {"Update", "Conf"}
      /\ h.inQemu \in {"keep", "put", "add", "drop", "release", "replace", "change"}
      /\ h.inConf \in {"put", "add", "drop", "replace", "swap", "overlay", "ignore"}
      /\ h.inQemu = "add" => h.inConf = "add"
      /\ h.inConf = "ignore" => h.inQemu = "keep"
  BY <1>1, HandlerShapes
<1>3. /\ h.inQemu = "add" => b.ch.value \in Values
      /\ h.inConf \in {"add", "overlay"} => b.ch.value \in Values
  BY <1>1, <1>2 DEF Contents
<1>4. /\ Promise(h.inQemu, b.r.has, b.ch.value) \subseteq Contents
      /\ ConfPromise(b) \subseteq Contents
      /\ h.inQemu = "release" => Promise(h.inQemu, b.r.has, b.ch.value) = Contents
  BY <1>1, <1>2 DEF Promise, Contents, ConfPromise
<1>5. /\ LiveOutcome(b).content \in Contents
      /\ ~LiveOutcome(b).err
            => LiveOutcome(b).content \in Promise(h.inQemu, b.r.has, b.ch.value)
  BY <1>1, <1>2, <1>3, OutcomeKeepsPromise DEF LiveOutcome
<1>7. /\ LivePromise(b) \subseteq Contents
      /\ ~LiveOutcome(b).err => LiveOutcome(b).content \in LivePromise(b)
      /\ b.r.leaving => None \in LivePromise(b)
      /\ h.inQemu = "release" => LivePromise(b) = Contents
  BY <1>4, <1>5 DEF LivePromise, Contents
<1>6. /\ ConfOutcome(b).content \in Contents
      /\ ConfOutcome(b).save => ~ConfOutcome(b).err
      /\ ~ConfOutcome(b).err => ConfOutcome(b).content \in ConfPromise(b)
      /\ ~ConfOutcome(b).err /\ ~ConfOutcome(b).save
            => ConfOutcome(b).content = b.conf[b.ch.slot]
  BY <1>1, <1>2, <1>3, OutcomeKeepsPromise DEF ConfOutcome, ConfPromise
<1> QED
  BY <1>1, <1>2, <1>4, <1>5, <1>6, <1>7

\* A handler is not disturbed by a step that leaves its task, its machine's file,
\* its machine's QEMU and the history of its machine alone.
LEMMA BodyFrame ==
    ASSUME ConfTypeOK, NEW d \in Clients, BodyOK(d),
           pc'[d] = pc[d], op'[d] = op[d], body'[d] = body[d],
           body[d] # Idle => /\ file'[op[d].vm] = file[op[d].vm]
                             /\ qemu'[op[d].vm] = qemu[op[d].vm]
                             /\ stored'[op[d].vm] = stored[op[d].vm]
    PROVE  BodyOK(d)'
<1>1. CASE body[d] = Idle
  BY <1>1, IdleIsNone DEF BodyOK, BodyIsLive, ReadIsCurrent, LiveIsCurrent
<1>2. CASE body[d] # Idle
  BY <1>2 DEF BodyOK, BodyIsLive, ReadIsCurrent, LiveIsCurrent, Live
<1> QED
  BY <1>1, <1>2

\* Handlers at work are on different machines.
LEMMA OthersElsewhere ==
    ASSUME PoolFacts, ConfTypeOK, \A e \in Clients : BodyOK(e),
           NEW c \in Live, op[c].kind \in ConfKinds,
           NEW d \in Clients, d # c, body[d] # Idle
    PROVE  op[d].vm # op[c].vm
<1>1. d \in Live /\ op[d].kind \in ConfKinds
  BY BodyForms, BodyOutcomes DEF BodyOK, BodyIsLive, ConfKinds
<1> QED
  BY <1>1, OneWriter

\* A handler at work is a live task on an existing machine.
LEMMA AtWork ==
    ASSUME PoolFacts, ConfTypeOK, NEW c \in Clients, BodyOK(c), body[c] # Idle
    PROVE  c \in Live /\ op[c].kind \in ConfKinds /\ op[c].vm \in VMs
<1>1. c \in Live /\ op[c].kind \in ConfKinds
  BY BodyForms, BodyOutcomes DEF BodyOK, BodyIsLive, ConfKinds
<1>2. op[c] \in Operations
  BY <1>1 DEF PoolFacts, PendingNamed, Live
<1> QED
  BY <1>1, <1>2 DEF Operations

\* The step of a client at work keeps the other handlers' facts; its own are Idle
\* again when it has returned.
LEMMA OthersKept ==
    ASSUME PoolFacts, ConfTypeOK, \A e \in Clients : BodyOK(e),
           NEW c \in Live, op[c].kind \in ConfKinds,
           \A d \in Clients \ {c} : pc'[d] = pc[d] /\ op'[d] = op[d] /\ body'[d] = body[d],
           \A v \in VMs \ {op[c].vm} : /\ file'[v] = file[v] /\ qemu'[v] = qemu[v]
                                      /\ stored'[v] = stored[v],
           body'[c] = Idle \/ BodyOK(c)'
    PROVE  \A e \in Clients : BodyOK(e)'
<1> SUFFICES ASSUME NEW e \in Clients PROVE BodyOK(e)'
  OBVIOUS
<1>1. CASE e = c
  BY <1>1, IdleIsNone DEF BodyOK, BodyIsLive, ReadIsCurrent, LiveIsCurrent
<1>2. CASE e # c
  <2>1. body[e] # Idle => op[e].vm \in VMs \ {op[c].vm}
    BY <1>2, OthersElsewhere, AtWork
  <2> QED
    BY <1>2, <2>1, BodyFrame
<1> QED
  BY <1>1, <1>2

\* The invariant holds at the start.
LEMMA ConfInitInv == Init => ConfInv
<1> SUFFICES ASSUME Init PROVE ConfInv
  OBVIOUS
<1>1. Empty \in Machines /\ None \in Contents
  BY DEF Empty, Machines, Contents
<1>3. ConfTypeOK
  BY <1>1, InstancesAssumption DEF Init, ConfTypeOK, Intact, Processes
<1>4. \A c \in Clients : BodyOK(c)
  BY IdleIsNone DEF Init, BodyOK, BodyIsLive, ReadIsCurrent, LiveIsCurrent
<1>5. OffSaysNothing /\ LeavingIsKnown /\ AnsweredChangesAreStored /\ AnsweredChangesAreLive
  BY <1>1 DEF Init, OffSaysNothing, LeavingIsKnown, AnsweredChangesAreStored,
              AnsweredChangesAreLive, Intact, Empty
<1> QED
  BY <1>3, <1>4, <1>5 DEF ConfInv

\* A handler returns without touching the machine.
LEMMA EndInv ==
    ASSUME PoolFacts, ConfInv, NEW c \in Clients,
           NEW result, Ends(c, result), UNCHANGED <<file, qemu, stored, plugged>>
    PROVE  ConfInv'
<1>1. /\ c \in Live /\ body' = [body EXCEPT ![c] = Idle]
      /\ \A d \in Clients \ {c} : pc'[d] = pc[d] /\ op'[d] = op[d]
  BY DEF Ends, Finish, Return, Live, PoolFacts, TaskTypeOK
<1>2. body'[c] = Idle /\ \A d \in Clients \ {c} : body'[d] = body[d]
  BY <1>1 DEF ConfInv, ConfTypeOK
<1>3. \A d \in Clients \ {c} : BodyOK(d)'
  BY <1>1, <1>2, BodyFrame DEF ConfInv
<1>4. BodyOK(c)'
  BY <1>2, IdleIsNone DEF BodyOK, BodyIsLive, ReadIsCurrent, LiveIsCurrent
<1>5. ConfTypeOK'
  BY <1>1 DEF ConfInv, ConfTypeOK
<1> QED
  BY <1>3, <1>4, <1>5 DEF ConfInv, OffSaysNothing, LeavingIsKnown, AnsweredChangesAreStored,
                          AnsweredChangesAreLive

\* The pool moves without a handler's step.
LEMMA PoolStepInv ==
    ASSUME PoolFacts, ConfInv, UNCHANGED confVars,
           \A d \in Clients : pc[d] = "running" => pc'[d] = pc[d] /\ op'[d] = op[d]
    PROVE  ConfInv'
<1> USE DEF ConfInv
<1>1. ASSUME NEW d \in Clients PROVE BodyOK(d)'
  <2>1. CASE body[d] = Idle
    BY <2>1, IdleIsNone DEF confVars, BodyOK, BodyIsLive, ReadIsCurrent, LiveIsCurrent
  <2>2. CASE body[d] # Idle
    BY <2>2, AtWork, BodyFrame DEF confVars, Live
  <2> QED
    BY <2>1, <2>2
<1>2. ConfTypeOK'
  BY DEF confVars, ConfTypeOK
<1> QED
  BY <1>1, <1>2
     DEF confVars, OffSaysNothing, LeavingIsKnown, AnsweredChangesAreStored, AnsweredChangesAreLive

\* GetMachine: a handler reads the configuration and makes its change in memory.
LEMMA LoadInv ==
    ASSUME PoolFacts, ConfInv, NEW c \in Clients, NEW ch \in Change, Load(c, ch)
    PROVE  ConfInv'
<1> USE DEF ConfInv
<1> DEFINE v == op[c].vm
           b == body'[c]
<1>1. c \in Live /\ op[c].kind = ch.handler.kind /\ op[c].kind \in {"Update", "Conf"}
  BY HandlerShapes DEF Load, Live, Change
<1>2. v \in VMs
  BY <1>1 DEF PoolFacts, PendingNamed, Live, Operations
<1>3. /\ b = [stage |-> IF ch.live /\ qemu[v].on THEN "loaded" ELSE "changed",
              ch |-> ch, conf |-> file[v].has, r |-> Reading(qemu[v], ch.slot)]
      /\ \A d \in Clients \ {c} : body'[d] = body[d]
      /\ body' = [body EXCEPT ![c] = b]
      /\ file[v].ok
      /\ UNCHANGED <<pc, op, file, qemu, stored, plugged>>
  BY DEF Load, ConfTypeOK, taskVars
<1>0. Reading(qemu[v], ch.slot) \in Readings /\ ch.slot \in Slots
  BY <1>2 DEF ConfTypeOK, Processes, Readings, Reading, Machines, Change
<1>4. b \in ChangeBody /\ b \notin SentBody /\ b # Idle
  BY <1>0, <1>2, <1>3 DEF ChangeBody, SentBody, Changing, ConfTypeOK, Idle
<1>5. ConfTypeOK'
  BY <1>3, <1>4 DEF ConfTypeOK
<1>6. BodyOK(c)'
  <2>1. BodyIsLive(c)'
    BY <1>1, <1>3, <1>4 DEF BodyIsLive, Live
  <2>2. file[v] = Intact(file[v].has)
    BY <1>2, <1>3 DEF ConfTypeOK, Intact
  <2>3. b.stage # "writing" /\ b.conf = file[v].has
    BY <1>3
  <2>4. ReadIsCurrent(c)'
    BY <1>3, <2>2, <2>3 DEF ReadIsCurrent
  <2>5. b.stage = "changed" => ~InQemu(b)
    BY <1>3 DEF InQemu, Reading
  <2>6. /\ b.r.inst <= qemu[v].inst /\ b.r.has = qemu[v].has[ch.slot] /\ b.ch.slot = ch.slot
        /\ ch.slot \in qemu[v].leaving => b.r.leaving
    BY <1>2, <1>3, InstancesAssumption DEF ConfTypeOK, Processes, Reading
  <2>7. b.stage \in {"loaded", "changed"}
    BY <1>3
  <2>8. LiveIsCurrent(c)'
    BY <1>3, <2>5, <2>6, <2>7 DEF LiveIsCurrent
  <2> QED
    BY <2>1, <2>4, <2>8 DEF BodyOK
<1>7. \A e \in Clients : BodyOK(e)'
  BY <1>1, <1>3, <1>6, OthersKept DEF ConfKinds
<1> QED
  BY <1>3, <1>5, <1>7 DEF OffSaysNothing, LeavingIsKnown, AnsweredChangesAreStored, AnsweredChangesAreLive

\* A migration takes the configuration of the source.
LEMMA MigrationReadsInv ==
    ASSUME PoolFacts, ConfInv, NEW c \in Clients, MigrationReads(c)
    PROVE  ConfInv'
<1> USE DEF ConfInv
<1> DEFINE v == op[c].vm
           b == body'[c]
<1>1. c \in Live /\ op[c].kind = "Migration"
  BY DEF MigrationReads, Live
<1>2. v \in VMs
  BY <1>1 DEF PoolFacts, PendingNamed, Live, Operations
<1>3. /\ b = [stage |-> "sent", conf |-> file[v].has]
      /\ \A d \in Clients \ {c} : body'[d] = body[d]
      /\ body' = [body EXCEPT ![c] = b]
      /\ file[v].ok
      /\ UNCHANGED <<pc, op, file, qemu, stored, plugged>>
  BY DEF MigrationReads, ConfTypeOK, taskVars
<1>4. b \in SentBody /\ b \notin ChangeBody
  BY <1>2, <1>3 DEF ChangeBody, SentBody, Changing, ConfTypeOK
<1>5. ConfTypeOK'
  BY <1>3, <1>4 DEF ConfTypeOK
<1>6. BodyOK(c)'
  <2>1. file[v] = Intact(file[v].has)
    BY <1>2, <1>3 DEF ConfTypeOK, Intact
  <2> QED
    BY <1>1, <1>3, <1>4, <2>1 DEF BodyOK, BodyIsLive, ReadIsCurrent, LiveIsCurrent, Live
<1>7. \A e \in Clients : BodyOK(e)'
  BY <1>1, <1>3, <1>6, OthersKept DEF ConfKinds
<1> QED
  BY <1>3, <1>5, <1>7 DEF OffSaysNothing, LeavingIsKnown, AnsweredChangesAreStored, AnsweredChangesAreLive

\* A live change touches one slot of the machine's QEMU, of which nothing is said
\* until the handler answers.
LEMMA LiveTouch ==
    ASSUME ConfInv, NEW v \in VMs, NEW s \in Slots, NEW q \in Processes,
           q.on = qemu[v].on, q.inst = qemu[v].inst,
           \A t \in Slots : t # s => /\ q.has[t] = qemu[v].has[t]
                                     /\ t \in q.leaving => t \in qemu[v].leaving,
           UNCHANGED qemu \/ qemu' = [qemu EXCEPT ![v] = q],
           Uncertain(v, s)
    PROVE  /\ qemu' \in [VMs -> Processes] /\ plugged' \in [VMs -> [Slots -> SUBSET Contents]]
           /\ \A w \in VMs : /\ w # v => qemu'[w] = qemu[w]
                             /\ qemu'[w].on = qemu[w].on /\ qemu'[w].inst = qemu[w].inst
           /\ OffSaysNothing' /\ LeavingIsKnown' /\ AnsweredChangesAreLive'
<1> USE DEF ConfInv, ConfTypeOK
<1>1. /\ plugged' = [plugged EXCEPT ![v][s] = Contents]
      /\ plugged' \in [VMs -> [Slots -> SUBSET Contents]]
      /\ plugged'[v][s] = Contents
      /\ \A w \in VMs, t \in Slots : w # v \/ t # s => plugged'[w][t] = plugged[w][t]
  BY DEF Uncertain
<1>2. /\ qemu' \in [VMs -> Processes]
      /\ \A w \in VMs : /\ w # v => qemu'[w] = qemu[w]
                        /\ qemu'[w].on = qemu[w].on /\ qemu'[w].inst = qemu[w].inst
                        /\ \A t \in Slots : w # v \/ t # s =>
                              /\ qemu'[w].has[t] = qemu[w].has[t]
                              /\ t \in qemu'[w].leaving => t \in qemu[w].leaving
  <2>1. CASE UNCHANGED qemu
    BY <2>1
  <2>2. CASE qemu' = [qemu EXCEPT ![v] = q]
    <3>1. qemu' \in [VMs -> Processes] /\ qemu'[v] = q /\ \A w \in VMs : w # v => qemu'[w] = qemu[w]
      BY <2>2
    <3>2. \A w \in VMs : w = v => /\ qemu'[w].on = qemu[w].on /\ qemu'[w].inst = qemu[w].inst
                                  /\ \A t \in Slots : t # s =>
                                        /\ qemu'[w].has[t] = qemu[w].has[t]
                                        /\ t \in qemu'[w].leaving => t \in qemu[w].leaving
      BY <3>1
    <3> QED
      BY <3>1, <3>2
  <2> QED
    BY <2>1, <2>2
<1>3. OffSaysNothing'
  BY <1>1, <1>2 DEF OffSaysNothing
<1>4. qemu'[v].has[s] \in Contents /\ \A w \in VMs : qemu'[w].leaving \subseteq Slots
  BY <1>2 DEF Processes, Machines
<1>5. AnsweredChangesAreLive'
  BY <1>1, <1>2, <1>4 DEF AnsweredChangesAreLive
<1>6. LeavingIsKnown'
  BY <1>1, <1>2, <1>4 DEF LeavingIsKnown, Contents
<1> QED
  BY <1>1, <1>2, <1>3, <1>5, <1>6

\* What the commands of a change make of QEMU, and what device_del alone does.
LEMMA LiveResults ==
    ASSUME NEW b \in ChangeBody, NEW q \in Processes
    PROVE  LET s == b.ch.slot
               d == Done(q, b)
               a == Asked(q, b)
           IN  /\ d \in Processes /\ d.on = q.on /\ d.inst = q.inst
               /\ d.has[s] = LiveOutcome(b).content
               /\ s \in d.leaving => s \in q.leaving
               /\ a \in Processes /\ a.on = q.on /\ a.inst = q.inst /\ a.has = q.has
               /\ \A t \in Slots : t # s => /\ d.has[t] = q.has[t]
                                            /\ t \in d.leaving => t \in q.leaving
                                            /\ t \in a.leaving => t \in q.leaving
<1>1. b.ch.slot \in Slots /\ LiveOutcome(b).content \in Contents
  BY BodyOutcomes
<1> QED
  BY <1>1 DEF Done, Asked, Processes, Machines

\* The change is made in the running machine.
LEMMA LiveChangeInv ==
    ASSUME PoolFacts, ConfInv, NEW c \in Clients, LiveChange(c)
    PROVE  ConfInv'
<1> USE DEF ConfInv
<1> DEFINE v == op[c].vm
           b == body[c]
           s == b.ch.slot
           q == qemu[v]
           n == IF KnownDone(b) THEN q
                ELSE IF b.ch.handler.inQemu = "release" THEN Asked(q, b) ELSE Done(q, b)
<1>1. b \in ChangeBody /\ b # Idle /\ b.stage = "loaded"
  BY BodyForms DEF LiveChange, Changing
<1>2. c \in Live /\ op[c].kind \in ConfKinds /\ v \in VMs
  BY <1>1, AtWork
<1>3. /\ s \in Slots /\ LiveOutcome(b).content \in Contents /\ q \in Processes
      /\ LivePromise(b) \subseteq Contents
      /\ b.r.leaving => None \in LivePromise(b)
      /\ b.ch.handler.inQemu = "release" => LivePromise(b) = Contents
  BY <1>1, <1>2, BodyOutcomes DEF ConfTypeOK
<1>4. /\ UNCHANGED qemu \/ qemu' = [qemu EXCEPT ![v] = n]
      /\ qemu'[v] = n
      /\ ~KnownDone(b) => q.on /\ q.has[s] = b.r.has
      /\ Uncertain(v, s)
      /\ body' = [body EXCEPT ![c] = [b EXCEPT !.stage = "changed"]]
      /\ UNCHANGED <<pc, op, file, stored>>
      /\ LiveOutcome(b).content \in LivePromise(b)
  BY <1>1, <1>2, BodyOutcomes DEF LiveChange, taskVars, ConfTypeOK
<1>5. /\ n \in Processes /\ n.on = q.on /\ n.inst = q.inst
      /\ \A t \in Slots : t # s => /\ n.has[t] = q.has[t]
                                   /\ t \in n.leaving => t \in q.leaving
  <2>0. LET d == Done(q, b)
            a == Asked(q, b)
        IN  /\ d \in Processes /\ d.on = q.on /\ d.inst = q.inst
            /\ a \in Processes /\ a.on = q.on /\ a.inst = q.inst /\ a.has = q.has
            /\ \A t \in Slots : t # s => /\ d.has[t] = q.has[t]
                                         /\ t \in d.leaving => t \in q.leaving
                                         /\ t \in a.leaving => t \in q.leaving
    BY <1>1, <1>3, LiveResults
  <2>1. CASE n = q
    BY <1>3, <2>1
  <2>2. CASE n = Asked(q, b)
    BY <2>0, <2>2
  <2>3. CASE n = Done(q, b)
    BY <2>0, <2>3
  <2> QED
    BY <2>1, <2>2, <2>3
<1>6. InQemu(b) /\ q.on /\ q.inst = b.r.inst
        => n.has[s] \in LivePromise(b) /\ (s \in n.leaving => None \in LivePromise(b))
  <2> SUFFICES ASSUME InQemu(b), q.on, q.inst = b.r.inst
               PROVE  n.has[s] \in LivePromise(b) /\ (s \in n.leaving => None \in LivePromise(b))
    OBVIOUS
  <2>1. /\ q.has[s] # b.r.has => b.r.leaving /\ q.has[s] = None
        /\ s \in q.leaving => b.r.leaving
    BY <1>1 DEF BodyOK, LiveIsCurrent
  <2>2. CASE KnownDone(b)
    BY <1>3, <1>4, <2>1, <2>2 DEF KnownDone
  <2>3. CASE ~KnownDone(b) /\ b.ch.handler.inQemu = "release"
    <3>1. n.has[s] \in Contents /\ None \in Contents
      BY <1>3, <1>5 DEF Processes, Machines, Contents
    <3> QED
      BY <1>3, <2>3, <3>1
  <2>4. CASE ~KnownDone(b) /\ b.ch.handler.inQemu # "release"
    <3>1. n.has[s] = LiveOutcome(b).content /\ (s \in n.leaving => s \in q.leaving)
      BY <1>1, <1>3, <2>4, LiveResults
    <3> QED
      BY <1>3, <1>4, <2>1, <3>1
  <2> QED
    BY <2>2, <2>3, <2>4
<1> HIDE DEF n
<1>7. /\ qemu' \in [VMs -> Processes] /\ plugged' \in [VMs -> [Slots -> SUBSET Contents]]
      /\ \A w \in VMs : /\ w # v => qemu'[w] = qemu[w]
                        /\ qemu'[w].on = qemu[w].on /\ qemu'[w].inst = qemu[w].inst
      /\ OffSaysNothing' /\ LeavingIsKnown' /\ AnsweredChangesAreLive'
  BY <1>2, <1>3, <1>4, <1>5, LiveTouch
<1>8. /\ body'[c] = [b EXCEPT !.stage = "changed"]
      /\ \A d \in Clients \ {c} : body'[d] = body[d]
  BY <1>4 DEF ConfTypeOK
<1>9. /\ body'[c] \in ChangeBody /\ body'[c] \notin SentBody
      /\ body'[c].ch = b.ch /\ body'[c].conf = b.conf /\ body'[c].r = b.r
      /\ body'[c].stage = "changed"
  BY <1>1, <1>8 DEF ChangeBody, SentBody, Changing
<1>10. ConfTypeOK'
  BY <1>4, <1>7, <1>8, <1>9 DEF ConfTypeOK
<1>11. BodyOK(c)'
  <2>1. BodyIsLive(c)' /\ ReadIsCurrent(c)'
    BY <1>1, <1>2, <1>4, <1>9 DEF BodyOK, BodyIsLive, ReadIsCurrent, Live
  <2>2. InQemu(body'[c]) <=> InQemu(b)
    BY <1>9 DEF InQemu
  <2>3. LivePromise(body'[c]) = LivePromise(b)
    BY <1>9 DEF LivePromise
  <2>4. b.r.inst <= q.inst
    BY <1>1 DEF BodyOK, LiveIsCurrent
  <2>5. LiveIsCurrent(c)'
    BY <1>4, <1>5, <1>6, <1>9, <2>2, <2>3, <2>4 DEF LiveIsCurrent
  <2> QED
    BY <2>1, <2>5 DEF BodyOK
<1>12. \A e \in Clients : BodyOK(e)'
  BY <1>2, <1>4, <1>7, <1>8, <1>11, OthersKept
<1> QED
  BY <1>4, <1>7, <1>10, <1>12 DEF AnsweredChangesAreStored

\* The change fails, with any effect it may have had.
LEMMA LiveChangeFailsInv ==
    ASSUME PoolFacts, ConfInv, NEW c \in Clients, LiveChangeFails(c)
    PROVE  ConfInv'
<1> USE DEF ConfInv
<1> DEFINE v == op[c].vm
           b == body[c]
           s == b.ch.slot
<1>1. b \in ChangeBody /\ b # Idle
  BY BodyForms DEF LiveChangeFails, Changing
<1>2. c \in Live /\ op[c].kind \in ConfKinds /\ v \in VMs
  BY <1>1, AtWork
<1>3. s \in Slots /\ qemu[v] \in Processes
  BY <1>1, <1>2, BodyOutcomes DEF ConfTypeOK
<1>4. PICK n \in {qemu[v], Done(qemu[v], b), Asked(qemu[v], b)} :
         UNCHANGED qemu \/ qemu' = [qemu EXCEPT ![v] = n]
  BY DEF LiveChangeFails
<1>5. /\ n \in Processes /\ n.on = qemu[v].on /\ n.inst = qemu[v].inst
      /\ \A t \in Slots : t # s => /\ n.has[t] = qemu[v].has[t]
                                   /\ t \in n.leaving => t \in qemu[v].leaving
  <2>0. LET d == Done(qemu[v], b)
            a == Asked(qemu[v], b)
        IN  /\ d \in Processes /\ d.on = qemu[v].on /\ d.inst = qemu[v].inst
            /\ a \in Processes /\ a.on = qemu[v].on /\ a.inst = qemu[v].inst /\ a.has = qemu[v].has
            /\ \A t \in Slots : t # s => /\ d.has[t] = qemu[v].has[t]
                                         /\ t \in d.leaving => t \in qemu[v].leaving
                                         /\ t \in a.leaving => t \in qemu[v].leaving
    BY <1>1, <1>3, LiveResults
  <2>1. CASE n = qemu[v]
    BY <1>3, <2>1
  <2>2. CASE n = Asked(qemu[v], b)
    BY <2>0, <2>2
  <2>3. CASE n = Done(qemu[v], b)
    BY <2>0, <2>3
  <2> QED
    BY <1>4, <2>1, <2>2, <2>3
<1>6. /\ qemu' \in [VMs -> Processes] /\ plugged' \in [VMs -> [Slots -> SUBSET Contents]]
      /\ \A w \in VMs : w # v => qemu'[w] = qemu[w]
      /\ OffSaysNothing' /\ LeavingIsKnown' /\ AnsweredChangesAreLive'
  BY <1>2, <1>3, <1>4, <1>5, LiveTouch DEF LiveChangeFails
<1>7. /\ body' = [body EXCEPT ![c] = Idle]
      /\ \A d \in Clients \ {c} : pc'[d] = pc[d] /\ op'[d] = op[d]
      /\ UNCHANGED <<file, stored>>
  BY DEF LiveChangeFails, Ends, Finish, Return, PoolFacts, TaskTypeOK
<1>8. body'[c] = Idle /\ \A d \in Clients \ {c} : body'[d] = body[d]
  BY <1>7 DEF ConfTypeOK
<1>9. \A e \in Clients : BodyOK(e)'
  BY <1>2, <1>6, <1>7, <1>8, OthersKept
<1>10. ConfTypeOK'
  BY <1>6, <1>7 DEF ConfTypeOK
<1> QED
  BY <1>6, <1>7, <1>9, <1>10 DEF AnsweredChangesAreStored

\* The answer says of QEMU only what is true there.
LEMMA AnswerIsLive ==
    ASSUME PoolFacts, ConfInv, NEW c \in Clients,
           body[c] \in ChangeBody, body[c].stage \in {"changed", "writing"},
           op[c].vm \in VMs, Answer(c), UNCHANGED qemu
    PROVE  /\ plugged' \in [VMs -> [Slots -> SUBSET Contents]]
           /\ OffSaysNothing' /\ LeavingIsKnown' /\ AnsweredChangesAreLive'
<1> USE DEF ConfInv
<1> DEFINE v == op[c].vm
           b == body[c]
           P == LivePromise(b)
<1>1. b.ch.slot \in Slots /\ P \subseteq Contents
  BY BodyOutcomes
<1>2. CASE InQemu(b) /\ qemu[v].on /\ qemu[v].inst = b.r.inst
  <2>1. plugged' = [plugged EXCEPT ![v][b.ch.slot] = P]
    BY <1>2 DEF Answer
  <2>2. qemu[v].has[b.ch.slot] \in P /\ (b.ch.slot \in qemu[v].leaving => None \in P)
    BY <1>2 DEF BodyOK, LiveIsCurrent
  <2>3. plugged' \in [VMs -> [Slots -> SUBSET Contents]]
    BY <1>1, <2>1 DEF ConfTypeOK
  <2>4. /\ plugged'[v][b.ch.slot] = P
        /\ \A w \in VMs, t \in Slots : w # v \/ t # b.ch.slot => plugged'[w][t] = plugged[w][t]
    BY <1>1, <2>1 DEF ConfTypeOK
  <2>5. \A w \in VMs : qemu[w].leaving \subseteq Slots
    BY DEF ConfTypeOK, Processes
  <2> HIDE DEF P
  <2> QED
    BY <1>2, <2>2, <2>3, <2>4, <2>5 DEF OffSaysNothing, LeavingIsKnown, AnsweredChangesAreLive
<1>3. CASE ~(InQemu(b) /\ qemu[v].on /\ qemu[v].inst = b.r.inst)
  BY <1>3 DEF Answer, OffSaysNothing, LeavingIsKnown, AnsweredChangesAreLive, ConfTypeOK
<1> QED
  BY <1>2, <1>3

\* The answer says of the file only what is true there, if the file has the slot
\* as promised and all the others as they were answered.
LEMMA AnswerInv ==
    ASSUME PoolFacts, ConfInv, NEW c \in Clients,
           body[c] \in ChangeBody, body[c].stage \in {"changed", "writing"},
           Answer(c), UNCHANGED qemu,
           NEW has \in Machines, file' = [file EXCEPT ![op[c].vm] = Intact(has)],
           has[body[c].ch.slot] \in ConfPromise(body[c]),
           \A s \in Slots \ {body[c].ch.slot} : has[s] \in stored[op[c].vm][s]
    PROVE  ConfInv'
<1> USE DEF ConfInv
<1> DEFINE v == op[c].vm
           b == body[c]
           P == ConfPromise(b)
<1>1. b # Idle
  BY IdleIsNone
<1>2. c \in Live /\ op[c].kind \in ConfKinds /\ v \in VMs
  BY <1>1, AtWork
<1>3. b.ch.slot \in Slots /\ P \subseteq Contents
  BY BodyOutcomes
<1>4. /\ plugged' \in [VMs -> [Slots -> SUBSET Contents]]
      /\ OffSaysNothing' /\ LeavingIsKnown' /\ AnsweredChangesAreLive'
  BY <1>2, AnswerIsLive
<1>5. /\ stored' = [stored EXCEPT ![v][b.ch.slot] = P]
      /\ body' = [body EXCEPT ![c] = Idle]
      /\ \A d \in Clients \ {c} : pc'[d] = pc[d] /\ op'[d] = op[d]
  BY DEF Answer, ConfPromise, Ends, Finish, Return, PoolFacts, TaskTypeOK
<1>6. /\ stored' \in [VMs -> [Slots -> SUBSET Contents]]
      /\ stored'[v][b.ch.slot] = P
      /\ \A t \in Slots \ {b.ch.slot} : stored'[v][t] = stored[v][t]
      /\ \A w \in VMs \ {v} : stored'[w] = stored[w]
  BY <1>2, <1>3, <1>5 DEF ConfTypeOK
<1>7. Intact(has) \in [ok : BOOLEAN, has : Machines] /\ Intact(has).has = has
  BY DEF Intact
<1>8. /\ file' \in [VMs -> [ok : BOOLEAN, has : Machines]]
      /\ file'[v].has = has
      /\ \A w \in VMs \ {v} : file'[w] = file[w]
  BY <1>2, <1>7 DEF ConfTypeOK
<1>9. AnsweredChangesAreStored'
  BY <1>6, <1>8 DEF AnsweredChangesAreStored
<1>10. body'[c] = Idle /\ \A d \in Clients \ {c} : body'[d] = body[d]
  BY <1>5 DEF ConfTypeOK
<1>11. \A e \in Clients : BodyOK(e)'
  BY <1>2, <1>5, <1>6, <1>8, <1>10, OthersKept
<1>12. ConfTypeOK'
  BY <1>4, <1>5, <1>6, <1>8 DEF ConfTypeOK
<1> QED
  BY <1>4, <1>9, <1>11, <1>12

\* A handler ends that changed nothing in the file.
LEMMA NothingToSaveInv ==
    ASSUME PoolFacts, ConfInv, NEW c \in Clients, NothingToSave(c)
    PROVE  ConfInv'
<1> DEFINE v == op[c].vm
           b == body[c]
<1>1. b \in ChangeBody /\ b # Idle /\ b.stage = "changed"
  BY BodyForms DEF NothingToSave, Changing, ConfInv
<1>2. v \in VMs
  BY <1>1, AtWork DEF ConfInv
<1>3. file[v] = Intact(b.conf) /\ b.conf \in Machines
  BY <1>1 DEF ConfInv, BodyOK, ReadIsCurrent, ChangeBody
<1>4. file' = [file EXCEPT ![v] = Intact(b.conf)]
  BY <1>2, <1>3 DEF NothingToSave, ConfInv, ConfTypeOK
<1>5. b.conf[b.ch.slot] \in ConfPromise(b)
  BY <1>1, BodyOutcomes DEF NothingToSave
<1>6. \A s \in Slots : b.conf[s] \in stored[v][s]
  BY <1>2, <1>3 DEF ConfInv, AnsweredChangesAreStored, Intact
<1> QED
  BY <1>1, <1>3, <1>4, <1>5, <1>6, AnswerInv DEF NothingToSave

\* Save writes the file and the handler is answered.
LEMMA SaveWritesInv ==
    ASSUME PoolFacts, ConfInv, NEW c \in Clients, SaveWrites(c)
    PROVE  ConfInv'
<1> DEFINE v == op[c].vm
           b == body[c]
           has == [b.conf EXCEPT ![b.ch.slot] = ConfOutcome(b).content]
<1>1. b \in ChangeBody /\ b # Idle /\ b.stage = "writing"
  BY BodyForms DEF SaveWrites, Changing, ConfInv
<1>2. /\ b.ch.slot \in Slots /\ ConfOutcome(b).content \in Contents
      /\ ConfOutcome(b).save => ~ConfOutcome(b).err
      /\ ~ConfOutcome(b).err
            => ConfOutcome(b).content \in ConfPromise(b)
  BY <1>1, BodyOutcomes
<1>3. ConfOutcome(b).save /\ \A s \in Slots \ {b.ch.slot} : b.conf[s] \in stored[v][s]
  BY <1>1 DEF ConfInv, BodyOK, ReadIsCurrent
<1>4. /\ has \in Machines /\ has[b.ch.slot] = ConfOutcome(b).content
      /\ \A s \in Slots \ {b.ch.slot} : has[s] = b.conf[s]
  BY <1>1, <1>2 DEF ChangeBody, Machines
<1>5. file' = [file EXCEPT ![v] = Intact(has)] /\ Answer(c) /\ UNCHANGED qemu
  BY DEF SaveWrites
<1> HIDE DEF has
<1> QED
  BY <1>1, <1>2, <1>3, <1>4, <1>5, AnswerInv

\* Save opens the file, which is empty until it is written.
LEMMA SaveTruncatesInv ==
    ASSUME PoolFacts, ConfInv, NEW c \in Clients, SaveTruncates(c)
    PROVE  ConfInv'
<1> USE DEF ConfInv
<1> DEFINE v == op[c].vm
           b == body[c]
<1>1. b \in ChangeBody /\ b # Idle /\ b.stage = "changed"
  BY BodyForms DEF SaveTruncates, Changing
<1>2. c \in Live /\ op[c].kind \in ConfKinds /\ v \in VMs
  BY <1>1, AtWork
<1>3. b.ch.slot \in Slots
  BY <1>1, BodyOutcomes
<1>4. /\ ConfOutcome(b).save
      /\ file' = [file EXCEPT ![v] = Torn]
      /\ stored' = [stored EXCEPT ![v][b.ch.slot] = Contents]
      /\ body' = [body EXCEPT ![c] = [b EXCEPT !.stage = "writing"]]
      /\ UNCHANGED <<pc, op, qemu, plugged>>
  BY DEF SaveTruncates, taskVars
<1>5. Torn \in [ok : BOOLEAN, has : Machines] /\ ~Torn.ok
  BY DEF Torn, Empty, Machines, Contents
<1>6. /\ file' \in [VMs -> [ok : BOOLEAN, has : Machines]]
      /\ ~file'[v].ok /\ \A w \in VMs \ {v} : file'[w] = file[w]
  BY <1>2, <1>4, <1>5 DEF ConfTypeOK
<1>7. /\ stored' \in [VMs -> [Slots -> SUBSET Contents]]
      /\ \A t \in Slots \ {b.ch.slot} : stored'[v][t] = stored[v][t]
      /\ \A w \in VMs \ {v} : stored'[w] = stored[w]
  BY <1>2, <1>3, <1>4 DEF ConfTypeOK
<1>8. /\ body'[c] = [b EXCEPT !.stage = "writing"]
      /\ \A d \in Clients \ {c} : body'[d] = body[d]
  BY <1>4 DEF ConfTypeOK
<1>9. /\ body'[c] \in ChangeBody /\ body'[c] \notin SentBody
      /\ body'[c].ch = b.ch /\ body'[c].conf = b.conf /\ body'[c].r = b.r
      /\ body'[c].stage = "writing"
  BY <1>1, <1>8 DEF ChangeBody, SentBody, Changing
<1>10. ConfTypeOK'
  BY <1>4, <1>6, <1>7, <1>8, <1>9 DEF ConfTypeOK
<1>11. BodyOK(c)'
  <2>1. BodyIsLive(c)'
    BY <1>1, <1>2, <1>4, <1>9 DEF BodyOK, BodyIsLive, Live
  <2>2. LiveIsCurrent(c)'
    BY <1>1, <1>4, <1>9 DEF BodyOK, LiveIsCurrent, InQemu, LivePromise
  <2>3. \A s \in Slots : b.conf[s] \in stored[v][s]
    <3>1. file[v] = Intact(b.conf)
      BY <1>1 DEF BodyOK, ReadIsCurrent
    <3> QED
      BY <1>2, <3>1 DEF AnsweredChangesAreStored, Intact
  <2>4. ReadIsCurrent(c)'
    BY <1>1, <1>4, <1>7, <1>9, <2>3 DEF ReadIsCurrent, ConfOutcome
  <2> QED
    BY <2>1, <2>2, <2>4 DEF BodyOK
<1>12. \A e \in Clients : BodyOK(e)'
  BY <1>2, <1>4, <1>6, <1>7, <1>8, <1>11, OthersKept
<1>13. AnsweredChangesAreStored'
  BY <1>6, <1>7 DEF AnsweredChangesAreStored
<1> QED
  BY <1>4, <1>10, <1>12, <1>13 DEF OffSaysNothing, LeavingIsKnown, AnsweredChangesAreLive

\* A handler is not disturbed by a QEMU that starts or ends: what it has seen of
\* the earlier process it says nothing of any more.
LEMMA ProcessFrame ==
    ASSUME PoolFacts, ConfInv, UNCHANGED <<taskVars, file, body, stored>>,
           \A v \in VMs : \/ qemu'[v] = qemu[v]
                          \/ ~qemu'[v].on /\ qemu'[v].inst = qemu[v].inst
                          \/ qemu'[v].inst = qemu[v].inst + 1,
           qemu' \in [VMs -> Processes]
    PROVE  \A c \in Clients : BodyOK(c)'
<1> SUFFICES ASSUME NEW c \in Clients PROVE BodyOK(c)'
  OBVIOUS
<1> USE DEF ConfInv
<1>1. BodyIsLive(c)' /\ ReadIsCurrent(c)'
  BY DEF BodyOK, BodyIsLive, ReadIsCurrent, Live, taskVars
<1>2. ASSUME body[c] \in ChangeBody
      PROVE  LiveIsCurrent(c)'
  <2> DEFINE v == op[c].vm
  <2>1. v \in VMs
    BY <1>2, AtWork, IdleIsNone
  <2>2. body[c].r.inst \in Nat /\ qemu[v].inst \in Nat /\ qemu'[v].inst \in Nat
    BY <1>2, <2>1, InstancesAssumption DEF ConfTypeOK, ChangeBody, Processes, Readings
  <2>3. body'[c] = body[c] /\ op'[c] = op[c]
    BY DEF taskVars
  <2>4. LiveIsCurrent(c)
    BY DEF BodyOK
  <2>5. body[c].r.inst <= qemu[v].inst
    BY <1>2, <2>4 DEF LiveIsCurrent
  <2>6. body[c].r.inst <= qemu'[v].inst
    BY <2>1, <2>2, <2>5
  <2>7. qemu'[v].on /\ qemu'[v].inst = body[c].r.inst => qemu'[v] = qemu[v]
    BY <2>1, <2>2, <2>5
  <2> QED
    BY <1>2, <2>3, <2>4, <2>6, <2>7 DEF LiveIsCurrent
<1>3. body[c] \notin ChangeBody => LiveIsCurrent(c)'
  BY DEF LiveIsCurrent, taskVars
<1> QED
  BY <1>1, <1>2, <1>3 DEF BodyOK

\* The machine starts with what the file says.
LEMMA BootInv ==
    ASSUME PoolFacts, ConfInv, NEW v \in VMs, Boot(v)
    PROVE  ConfInv'
<1> USE DEF ConfInv
<1> DEFINE q == [on |-> TRUE, inst |-> qemu[v].inst + 1, has |-> file[v].has, leaving |-> {}]
<1>1. /\ ~qemu[v].on /\ qemu[v].inst < MaxInstances
      /\ qemu' = [qemu EXCEPT ![v] = q]
      /\ UNCHANGED <<taskVars, file, body, stored, plugged>>
  BY DEF Boot
<1>2. q \in Processes
  BY <1>1, InstancesAssumption DEF ConfTypeOK, Processes
<1>3. /\ qemu' \in [VMs -> Processes]
      /\ qemu'[v] = q /\ \A w \in VMs \ {v} : qemu'[w] = qemu[w]
  BY <1>1, <1>2 DEF ConfTypeOK
<1>4. q.on /\ q.inst = qemu[v].inst + 1 /\ q.has \in Machines /\ q.leaving = {}
  BY <1>2 DEF Processes
<1> HIDE DEF q
<1>5. \A c \in Clients : BodyOK(c)'
  BY <1>1, <1>3, <1>4, ProcessFrame
<1>6. OffSaysNothing' /\ LeavingIsKnown'
  BY <1>1, <1>3, <1>4 DEF OffSaysNothing, LeavingIsKnown
<1>7. AnsweredChangesAreLive'
  BY <1>1, <1>3, <1>4 DEF OffSaysNothing, AnsweredChangesAreLive, Machines
<1> QED
  BY <1>1, <1>3, <1>5, <1>6, <1>7 DEF ConfTypeOK, AnsweredChangesAreStored

\* The machine ends, and its live configuration with it.
LEMMA PowerOffInv ==
    ASSUME PoolFacts, ConfInv, NEW v \in VMs, PowerOff(v)
    PROVE  ConfInv'
<1> USE DEF ConfInv
<1> DEFINE q == [qemu[v] EXCEPT !.on = FALSE, !.has = Empty, !.leaving = {}]
<1>1. /\ qemu' = [qemu EXCEPT ![v] = q]
      /\ plugged' = [plugged EXCEPT ![v] = [s \in Slots |-> Contents]]
      /\ UNCHANGED <<taskVars, file, body, stored>>
  BY DEF PowerOff
<1>2. q \in Processes /\ ~q.on /\ q.inst = qemu[v].inst /\ q.leaving = {}
  BY DEF ConfTypeOK, Processes, Empty, Machines, Contents
<1> HIDE DEF q
<1>3. /\ qemu' \in [VMs -> Processes]
      /\ qemu'[v] = q /\ \A w \in VMs \ {v} : qemu'[w] = qemu[w]
  BY <1>1, <1>2 DEF ConfTypeOK
<1>4. /\ plugged' \in [VMs -> [Slots -> SUBSET Contents]]
      /\ \A s \in Slots : plugged'[v][s] = Contents
      /\ \A w \in VMs \ {v} : plugged'[w] = plugged[w]
  BY <1>1 DEF ConfTypeOK
<1>5. \A c \in Clients : BodyOK(c)'
  BY <1>1, <1>2, <1>3, ProcessFrame
<1>6. OffSaysNothing' /\ LeavingIsKnown'
  BY <1>2, <1>3, <1>4 DEF OffSaysNothing, LeavingIsKnown
<1>7. AnsweredChangesAreLive'
  BY <1>2, <1>3, <1>4 DEF AnsweredChangesAreLive
<1> QED
  BY <1>1, <1>3, <1>4, <1>5, <1>6, <1>7 DEF ConfTypeOK, AnsweredChangesAreStored

\* The guest gives up what it was asked for: no answer has said that it stays, and
\* a handler that is at work on it has seen it leaving, or has asked for it.
LEMMA ReleaseInv ==
    ASSUME PoolFacts, ConfInv, NEW v \in VMs, NEW s \in Slots, Release(v, s)
    PROVE  ConfInv'
<1> USE DEF ConfInv
<1> DEFINE q == [qemu[v] EXCEPT !.has[s] = None, !.leaving = @ \ {s}]
<1>1. /\ s \in qemu[v].leaving /\ qemu[v] \in Processes
      /\ qemu' = [qemu EXCEPT ![v] = q]
      /\ UNCHANGED <<taskVars, file, body, stored, plugged>>
  BY DEF Release, ConfTypeOK
<1>2. /\ q \in Processes /\ q.on = qemu[v].on /\ q.inst = qemu[v].inst
      /\ q.has[s] = None /\ s \notin q.leaving
      /\ \A t \in Slots : t # s => q.has[t] = qemu[v].has[t]
      /\ q.leaving \subseteq qemu[v].leaving
  BY <1>1 DEF Processes, Machines, Contents
<1> HIDE DEF q
<1>3. /\ qemu' \in [VMs -> Processes]
      /\ qemu'[v] = q /\ \A w \in VMs \ {v} : qemu'[w] = qemu[w]
  BY <1>1, <1>2 DEF ConfTypeOK
<1>4. OffSaysNothing' /\ LeavingIsKnown' /\ AnsweredChangesAreLive'
  BY <1>1, <1>2, <1>3 DEF OffSaysNothing, LeavingIsKnown, AnsweredChangesAreLive
<1>5. ASSUME NEW c \in Clients PROVE BodyOK(c)'
  <2>1. BodyIsLive(c)' /\ ReadIsCurrent(c)'
    BY <1>1 DEF BodyOK, BodyIsLive, ReadIsCurrent, Live, taskVars
  <2>2. CASE body[c] \notin ChangeBody
    BY <1>1, <2>1, <2>2 DEF BodyOK, LiveIsCurrent
  <2>3. CASE body[c] \in ChangeBody
    <3>1. op[c].vm \in VMs /\ body[c].ch.slot \in Slots
      BY <2>3, AtWork, IdleIsNone, BodyOutcomes
    <3>2. LiveIsCurrent(c) /\ body'[c] = body[c] /\ op'[c] = op[c]
      BY <1>1 DEF BodyOK, taskVars
    <3> DEFINE w == op[c].vm
               t == body[c].ch.slot
    <3>3. /\ qemu'[w].on = qemu[w].on /\ qemu'[w].inst = qemu[w].inst
          /\ t \in qemu'[w].leaving => t \in qemu[w].leaving
          /\ qemu'[w].has[t] # qemu[w].has[t]
               => t \in qemu[w].leaving /\ qemu'[w].has[t] = None
      <4>1. CASE w # v
        BY <1>3, <3>1, <4>1
      <4>2. CASE w = v /\ t # s
        BY <1>2, <1>3, <3>1, <4>2
      <4>3. CASE w = v /\ t = s
        BY <1>1, <1>2, <1>3, <4>3
      <4> QED
        BY <4>1, <4>2, <4>3
    <3>4. SUFFICES ASSUME InQemu(body[c]), qemu[w].on, qemu[w].inst = body[c].r.inst
                   PROVE  IF body[c].stage = "loaded"
                            THEN /\ qemu'[w].has[t] # body[c].r.has
                                       => body[c].r.leaving /\ qemu'[w].has[t] = None
                                 /\ t \in qemu'[w].leaving => body[c].r.leaving
                            ELSE /\ qemu'[w].has[t] \in LivePromise(body[c])
                                 /\ t \in qemu'[w].leaving => None \in LivePromise(body[c])
      <4>1. body[c].r.inst <= qemu'[w].inst
        BY <2>3, <3>2, <3>3 DEF LiveIsCurrent
      <4>2. LiveIsCurrent(c)'
        BY <2>3, <3>2, <3>3, <3>4, <4>1 DEF LiveIsCurrent
      <4> QED
        BY <2>1, <4>2 DEF BodyOK
    <3>5. IF body[c].stage = "loaded"
            THEN /\ qemu[w].has[t] # body[c].r.has => body[c].r.leaving /\ qemu[w].has[t] = None
                 /\ t \in qemu[w].leaving => body[c].r.leaving
            ELSE /\ qemu[w].has[t] \in LivePromise(body[c])
                 /\ t \in qemu[w].leaving => None \in LivePromise(body[c])
      BY <2>3, <3>2, <3>4 DEF LiveIsCurrent
    <3> QED
      BY <3>3, <3>5
  <2> QED
    BY <2>2, <2>3
<1> QED
  BY <1>1, <1>3, <1>4, <1>5 DEF ConfTypeOK, AnsweredChangesAreStored

\* The daemon ends, and every handler with it.
LEMMA CrashInv ==
    ASSUME PoolFacts, ConfInv, Crash
    PROVE  ConfInv'
<1>1. \A c \in Clients : BodyOK(c)'
  BY IdleIsNone DEF Crash, BodyOK, BodyIsLive, ReadIsCurrent, LiveIsCurrent
<1> QED
  BY <1>1 DEF ConfInv, Crash, ConfTypeOK, OffSaysNothing, LeavingIsKnown,
              AnsweredChangesAreStored, AnsweredChangesAreLive

\* Every step keeps the invariant, given what the pool guarantees.
LEMMA ConfStepInv == PoolFacts /\ ConfInv /\ [Next]_vars => ConfInv'
<1> SUFFICES ASSUME PoolFacts, ConfInv, [Next]_vars PROVE ConfInv'
  OBVIOUS
<1>1. ASSUME NEW c \in Clients, NEW o \in Operations, Request(c, o), UNCHANGED confVars
      PROVE  ConfInv'
  BY <1>1, PoolStepInv DEF Request, PoolFacts, TaskTypeOK
<1>2. ASSUME NEW c \in Clients, StartTask(c) \/ Retry(c), UNCHANGED confVars
      PROVE  ConfInv'
  BY <1>2, PoolStepInv DEF StartTask, Retry, Return, PoolFacts, TaskTypeOK
<1>3. ASSUME NEW c \in Clients, LoadFails(c) \/ ConfRefuses(c) \/ SaveFails(c) \/ OtherEnds(c)
      PROVE  ConfInv'
  BY <1>3, EndInv DEF LoadFails, ConfRefuses, SaveFails, OtherEnds
<1>4. CASE UNCHANGED vars
  BY <1>4, PoolStepInv DEF vars, taskVars
<1> QED
  BY <1>1, <1>2, <1>3, <1>4, LoadInv, MigrationReadsInv, LiveChangeInv, LiveChangeFailsInv,
     NothingToSaveInv, SaveTruncatesInv, SaveWritesInv, BootInv, PowerOffInv, ReleaseInv,
     CrashInv
     DEF Next

\* The invariant holds in every state.
LEMMA ConfInvariant == Spec => []ConfInv
  BY ConfInitInv, ConfStepInv, PoolFactsHold, PTL DEF Spec

\* No answered change of the stored configuration is ever lost: not by another
\* handler's read-modify-write cycle, not by a failed change, a crash or a boot.
THEOREM NoUpdateIsLost == Spec => []AnsweredChangesAreStored
<1>1. ConfInv => AnsweredChangesAreStored
  BY DEF ConfInv
<1> QED
  BY <1>1, ConfInvariant, PTL

\* An answered live change is in QEMU for as long as the process runs and nobody
\* else tries the slot, unless the guest had been asked to give it up before.
THEOREM LiveChangesLast == Spec => []AnsweredChangesAreLive
<1>1. ConfInv => AnsweredChangesAreLive
  BY DEF ConfInv
<1> QED
  BY <1>1, ConfInvariant, PTL

\* The configuration a migration has read and sent stays the current one.
THEOREM MigratedConfStaysCurrent == Spec => []MigratedConfIsCurrent
<1>1. ConfInv => MigratedConfIsCurrent
  BY BodyForms DEF ConfInv, BodyOK, ReadIsCurrent, MigratedConfIsCurrent
<1> QED
  BY <1>1, ConfInvariant, PTL

\* The model is well-typed, bodies included.
THEOREM ConfTypes == Spec => []TypeOK
<1>1. PoolFacts /\ ConfInv => TypeOK
  BY BodyForms DEF PoolFacts, ConfInv, ConfTypeOK, TypeOK, Processes, Changing, Idle, SentBody,
                   ChangeBody
<1> QED
  BY <1>1, ConfInvariant, PoolFactsHold, PTL
=============================================================================
