---------------------------- MODULE MachineConf ----------------------------
(***************************************************************************)
(* The handlers that change a virtual machine (server/machine/*.go), as    *)
(* the bodies of tasks of the pool.                                        *)
(*                                                                         *)
(* Each handler works in the same way: MachineGet reads the configuration  *)
(* file (C) and, if QEMU is running, its devices (R); a live change is     *)
(* made in QEMU first and a failure there ends the handler; then C is      *)
(* changed and the whole file is written back.  Nothing but the targets of *)
(* the task keeps two such read-modify-write cycles apart.  The file is    *)
(* written in place by os.WriteFile: it is truncated, then filled.         *)
(* Cancelling a group of tasks does not reach these handlers (TaskPool).   *)
(***************************************************************************)
EXTENDS TaskPool, Handlers

CONSTANTS
    Slots,          \* names of what can be changed
    Kinds,          \* bound: the kinds of operations that are asked for
    MaxInstances    \* bound: QEMU processes started per machine

ASSUME InstancesAssumption == MaxInstances \in Nat

VARIABLES
    file,       \* the configuration file of each machine
    qemu,       \* the QEMU process of each machine; leaving: what the guest was
                \* asked to give up and has not yet
    body,       \* the local state of each client's handler
    stored,     \* history: what answered changes say of the file
    plugged     \* history: what answered live changes say of QEMU

confVars == <<file, qemu, body, stored, plugged>>
vars     == <<taskVars, confVars>>

Machines     == [Slots -> Contents]
Empty        == [s \in Slots |-> None]
Torn         == [ok |-> FALSE, has |-> Empty]
Intact(has)  == [ok |-> TRUE, has |-> has]
Idle         == [stage |-> "none"]

\* A request: a handler and its arguments.  A removal has no value, and only a
\* handler that knows QEMU can be asked for a live change.
Change == {ch \in [handler : AllHandlers, slot : Slots, value : Contents, live : BOOLEAN] :
              /\ (ch.value = None) <=> (ch.handler.inConf \in {"drop", "ignore"})
              /\ ch.live => ch.handler.inQemu # "keep"}

\* What vm.R says of a slot: whether QEMU runs, which process it is, what the slot
\* has and whether the guest has been asked to give that up.
Reading(q, s) == [on |-> q.on, inst |-> q.inst, has |-> q.has[s], leaving |-> s \in q.leaving]

\* "if live && vm.R != nil": the change is to be made in QEMU as well.
InQemu(b) == b.ch.live /\ b.r.on

LiveOutcome(b) == Outcome(b.ch.handler.inQemu, b.r.has, b.ch.value)
ConfOutcome(b) == Outcome(b.ch.handler.inConf, b.conf[b.ch.slot], b.ch.value)

\* The method of InstanceQemu returns without a command: the device is there, or
\* not there, as it was read.
KnownDone(b) ==
    /\ b.ch.handler.inQemu \in {"add", "drop", "release", "change"}
    /\ LiveOutcome(b).content = b.r.has

\* What the answer tells the caller about QEMU.  A device that an earlier request
\* has asked the guest to give up may go at any time.
LivePromise(b) ==
    Promise(b.ch.handler.inQemu, b.r.has, b.ch.value)
        \cup (IF b.r.leaving THEN {None} ELSE {})

-----------------------------------------------------------------------------
Init ==
    /\ TaskInit
    /\ file    = [v \in VMs |-> Intact(Empty)]
    /\ qemu    = [v \in VMs |-> [on |-> FALSE, inst |-> 0, has |-> Empty, leaving |-> {}]]
    /\ body    = [c \in Clients |-> Idle]
    /\ stored  = [v \in VMs |-> [s \in Slots |-> {None}]]
    /\ plugged = [v \in VMs |-> [s \in Slots |-> Contents]]

\* The handler returns to the pool.
Ends(c, result) ==
    /\ Finish(c, result)
    /\ body' = [body EXCEPT ![c] = Idle]

\* MachineGet: a configuration that cannot be parsed is an error.  Without a
\* live change the handler goes straight on to the configuration.
Load(c, ch) ==
    LET v == op[c].vm
    IN  /\ pc[c] = "running" /\ op[c].kind = ch.handler.kind
        /\ body[c] = Idle
        /\ file[v].ok
        /\ body' = [body EXCEPT ![c] = [stage |-> IF ch.live /\ qemu[v].on THEN "loaded"
                                                                            ELSE "changed",
                                        ch |-> ch, conf |-> file[v].has, r |-> Reading(qemu[v], ch.slot)]]
        /\ UNCHANGED <<taskVars, file, qemu, stored, plugged>>

LoadFails(c) ==
    /\ pc[c] = "running" /\ op[c].kind \in {"Update", "Conf", "Migration"}
    /\ body[c] = Idle
    /\ ~file[op[c].vm].ok
    /\ Ends(c, "failed")
    /\ UNCHANGED <<file, qemu, stored, plugged>>

\* What QEMU is said to have in a slot is unknown while it is being changed.
Uncertain(v, s) == plugged' = [plugged EXCEPT ![v][s] = Contents]

\* QEMU after the commands of the change, and after device_del alone, when the
\* guest has not released the device.
Done(q, b) ==
    [q EXCEPT !.has[b.ch.slot] = LiveOutcome(b).content,
              !.leaving = IF LiveOutcome(b).content = None THEN @ \ {b.ch.slot} ELSE @]
Asked(q, b) == [q EXCEPT !.leaving = @ \cup {b.ch.slot}]

\* The commands succeed only if QEMU is as it was read.  A removal is awaited,
\* except for a vsock device ("release").
LiveChange(c) ==
    LET v == op[c].vm
        b == body[c]
    IN  /\ b.stage = "loaded"
        /\ ~LiveOutcome(b).err
        /\ \/ KnownDone(b) /\ UNCHANGED qemu
           \/ /\ ~KnownDone(b)
              /\ qemu[v].on /\ qemu[v].has[b.ch.slot] = b.r.has
              /\ qemu' = [qemu EXCEPT ![v] = IF b.ch.handler.inQemu = "release"
                                                THEN Asked(@, b) ELSE Done(@, b)]
        /\ Uncertain(v, b.ch.slot)
        /\ body' = [body EXCEPT ![c].stage = "changed"]
        /\ UNCHANGED <<taskVars, file, stored>>

\* With a bug: the error of the live change is ignored.
LiveErrorIgnored(c) ==
    /\ body[c].stage = "loaded"
    /\ Uncertain(op[c].vm, body[c].ch.slot)
    /\ body' = [body EXCEPT ![c].stage = "changed"]
    /\ UNCHANGED <<taskVars, file, qemu, stored>>

\* The change is refused, or fails: before it took effect, or after (a cdrom is
\* added but its medium is not), or with the guest still holding a device that
\* it was asked for (the wait for DEVICE_DELETED timed out).
LiveChangeFails(c) ==
    LET v == op[c].vm
        b == body[c]
    IN  /\ b.stage = "loaded"
        /\ \/ UNCHANGED qemu
           \/ /\ qemu[v].on /\ qemu[v].has[b.ch.slot] = b.r.has
              /\ \/ /\ b.ch.handler.inQemu # "release"
                    /\ qemu' = [qemu EXCEPT ![v] = Done(@, b)]
                 \/ /\ b.ch.handler.inQemu \in {"drop", "release"}
                    /\ qemu[v].has[b.ch.slot] # None
                    /\ qemu' = [qemu EXCEPT ![v] = Asked(@, b)]
        /\ Uncertain(v, b.ch.slot)
        /\ Ends(c, "failed")
        /\ UNCHANGED <<file, stored>>

\* The guest gives up a device it was asked for.
Release(v, s) ==
    /\ qemu[v].on /\ s \in qemu[v].leaving
    /\ qemu' = [qemu EXCEPT ![v].has[s] = None, ![v].leaving = @ \ {s}]
    /\ UNCHANGED <<taskVars, file, body, stored, plugged>>

\* The method of InstanceConf fails: what was done in QEMU stays done.
ConfRefuses(c) ==
    /\ body[c].stage = "changed"
    /\ ConfOutcome(body[c]).err
    /\ Ends(c, "failed")
    /\ UNCHANGED <<file, qemu, stored, plugged>>

\* The caller is told that the change is made.
Answer(c) ==
    LET v == op[c].vm
        b == body[c]
    IN  /\ stored'  = [stored EXCEPT ![v][b.ch.slot] =
                          Promise(b.ch.handler.inConf, b.conf[b.ch.slot], b.ch.value)]
        /\ plugged' = IF InQemu(b) /\ qemu[v].on /\ qemu[v].inst = b.r.inst
                        THEN [plugged EXCEPT ![v][b.ch.slot] = LivePromise(b)]
                        ELSE plugged
        /\ Ends(c, "done")

\* The medium is the one that is configured: the handler returns without saving.
NothingToSave(c) ==
    /\ body[c].stage = "changed"
    /\ ~ConfOutcome(body[c]).err /\ ~ConfOutcome(body[c]).save
    /\ Answer(c)
    /\ UNCHANGED <<file, qemu>>

\* vm.C.Save(): os.WriteFile truncates the file and then writes the new text.
SaveTruncates(c) ==
    LET v == op[c].vm
        b == body[c]
    IN  /\ b.stage = "changed"
        /\ ConfOutcome(b).save
        /\ file'   = [file EXCEPT ![v] = Torn]
        /\ stored' = [stored EXCEPT ![v][b.ch.slot] = Contents]
        /\ body'   = [body EXCEPT ![c].stage = "writing"]
        /\ UNCHANGED <<taskVars, qemu, plugged>>

SaveWrites(c) ==
    LET b == body[c]
    IN  /\ b.stage = "writing"
        /\ file' = [file EXCEPT ![op[c].vm] =
                       Intact([b.conf EXCEPT ![b.ch.slot] = ConfOutcome(b).content])]
        /\ Answer(c)
        /\ UNCHANGED qemu

\* The configuration refuses an argument, the file cannot be opened, or the
\* write fails half-way.
SaveFails(c) ==
    /\ \/ body[c].stage = "changed" /\ ConfOutcome(body[c]).save
       \/ body[c].stage = "writing"
    /\ Ends(c, "failed")
    /\ UNCHANGED <<file, qemu, stored, plugged>>

\* A migration reads the machine once and sends its configuration away.
MigrationReads(c) ==
    /\ pc[c] = "running" /\ op[c].kind = "Migration"
    /\ body[c] = Idle
    /\ file[op[c].vm].ok
    /\ body' = [body EXCEPT ![c] = [stage |-> "sent", conf |-> file[op[c].vm].has]]
    /\ UNCHANGED <<taskVars, file, qemu, stored, plugged>>

\* The other tasks, whose bodies do not touch the configuration.
OtherEnds(c) ==
    /\ pc[c] = "running"
    /\ op[c].kind \notin {"Update", "Conf"}
    /\ op[c].kind = "Migration" => body[c] # Idle
    /\ \E result \in {"done", "failed"} : Ends(c, result)
    /\ UNCHANGED <<file, qemu, stored, plugged>>

\* The launcher starts QEMU from the stored configuration, outside the pool.
Boot(v) ==
    /\ ~qemu[v].on
    /\ qemu[v].inst < MaxInstances
    /\ file[v].ok
    /\ qemu' = [qemu EXCEPT ![v] = [on |-> TRUE, inst |-> @.inst + 1, has |-> file[v].has,
                                    leaving |-> {}]]
    /\ UNCHANGED <<taskVars, file, body, stored, plugged>>

\* The guest powers off or QEMU dies.
PowerOff(v) ==
    /\ qemu[v].on
    /\ qemu'    = [qemu EXCEPT ![v] = [@ EXCEPT !.on = FALSE, !.has = Empty,
                                              !.leaving = {}]]
    /\ plugged' = [plugged EXCEPT ![v] = [s \in Slots |-> Contents]]
    /\ UNCHANGED <<taskVars, file, body, stored>>

\* kvmrund dies: its handlers vanish wherever they are, files and QEMU stay.
Crash ==
    /\ Restart
    /\ body' = [c \in Clients |-> Idle]
    /\ UNCHANGED <<file, qemu, stored, plugged>>

Next ==
    \/ \E c \in Clients :
          \/ \E o \in Operations : /\ o.kind \in Kinds
                                  /\ Request(c, o)
                                  /\ UNCHANGED confVars
          \/ (StartTask(c) \/ Retry(c)) /\ UNCHANGED confVars
          \/ \E ch \in Change : Load(c, ch)
          \/ LoadFails(c)
          \/ LiveChange(c) \/ LiveChangeFails(c)
          \/ ConfRefuses(c) \/ NothingToSave(c)
          \/ SaveTruncates(c) \/ SaveWrites(c) \/ SaveFails(c)
          \/ MigrationReads(c)
          \/ OtherEnds(c)
    \/ \E v \in VMs : Boot(v) \/ PowerOff(v) \/ \E s \in Slots : Release(v, s)
    \/ Crash

Spec == Init /\ [][Next]_vars

-----------------------------------------------------------------------------
(* Properties. *)

TypeOK ==
    /\ TaskTypeOK
    /\ file    \in [VMs -> [ok : BOOLEAN, has : Machines]]
    /\ qemu    \in [VMs -> [on : BOOLEAN, inst : 0..MaxInstances, has : Machines,
                         leaving : SUBSET Slots]]
    /\ \A c \in Clients : body[c].stage \in {"none", "loaded", "changed", "writing", "sent"}
    /\ stored  \in [VMs -> [Slots -> SUBSET Contents]]
    /\ plugged \in [VMs -> [Slots -> SUBSET Contents]]

\* No update is lost: once a change has been answered, every later readable
\* configuration has it, until another change of the same slot is saved.
\* Changes of other slots, failed changes, crashes and boots do not undo it.
AnsweredChangesAreStored ==
    \A v \in VMs, s \in Slots : file[v].ok => file[v].has[s] \in stored[v][s]

\* An answered live change is also in the QEMU process it was made in, for as
\* long as that process runs and no other change of the slot is tried; only a
\* device that the guest had been asked to give up before may still go.
AnsweredChangesAreLive ==
    \A v \in VMs, s \in Slots : qemu[v].on => qemu[v].has[s] \in plugged[v][s]

\* False of the code: a machine that is set back to "legacy" boot, and the request
\* answered, has no firmware configured any more.
LegacyHasNoFirmware ==
    [][\A c \in Clients :
          (/\ body[c].stage = "writing" /\ body[c].ch.handler = FirmwareSetLegacy
           /\ pc[c] = "running" /\ answer'[c] = "done")
             => file'[op[c].vm].has[body[c].ch.slot] = None]_vars

\* False of the code: a device whose attachment was answered stays until another
\* request for it.  A release that an earlier request did not await takes it away.
AttachedStays ==
    [][\A v \in VMs, s \in Slots :
          (plugged[v][s] # Contents /\ plugged' = plugged /\ qemu[v].on /\ qemu'[v].on)
             => qemu'[v].has[s] = qemu[v].has[s]]_vars

\* The configuration a migration has sent to the other host stays the current
\* one until the migration ends: nothing changed meanwhile is left behind.
MigratedConfIsCurrent ==
    \A c \in Clients :
        (pc[c] = "running" /\ body[c].stage = "sent") => file[op[c].vm] = Intact(body[c].conf)
=============================================================================
