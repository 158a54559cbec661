----------------------------- MODULE Resources -----------------------------
(***************************************************************************)
(* Memory and processors of one machine: the stored limits, the limits of  *)
(* the running QEMU, processors that are plugged in and out, the balloon,  *)
(* and the task of registration that sets the balloon after a start.       *)
(*                                                                         *)
(* Requests for one machine exclude each other (TaskPool), so each is one  *)
(* step.  The task of registration and the guest run beside them.  An      *)
(* error of the file system is left to MachineConf.                        *)
(***************************************************************************)
EXTENDS Naturals, FiniteSets

CONSTANTS
    Sizes,        \* sizes of memory, in MB
    MaxCPU,       \* bound: processors of a machine
    MaxSettings,  \* bound: requests
    UintMB        \* bytes that fit in the 32 bits of mem_actual, in MB (4096)

ASSUME ResourceAssumption == /\ Sizes \subseteq Nat \ {0} /\ MaxCPU \in Nat \ {0}
                             /\ MaxSettings \in Nat /\ UintMB \in Nat \ {0}

VARIABLES
    mem,       \* stored memory: actual and total
    cpu,       \* stored processors: actual, total and sockets
    qemu,      \* the running QEMU: its totals, or Off
    plugged,   \* processors of the guest
    ejecting,   \* processors the guest was asked to give up
    balloon,   \* memory: what QEMU asks the guest for, and what the guest has
    setter,    \* the registration's value for the balloon, 0 if its loop is not running
    rushed,    \* history: processors were asked for while others were leaving
    last,      \* what the last request did, in QEMU and in the file
    settings

resourceVars == <<mem, cpu, qemu, plugged, ejecting, balloon, setter, rushed, last, settings>>

Off     == [mem |-> 0, cpu |-> 0]
Refused == [actual |-> 0, total |-> 0]
Running == qemu # Off
Nothing == [op |-> "none", live |-> FALSE, stored |-> FALSE, want |-> 0]

ResourceInit ==
    /\ \E s \in Sizes : mem = [actual |-> s, total |-> s]
    /\ cpu = [actual |-> 1, total |-> MaxCPU, sockets |-> 0]
    /\ qemu = Off /\ plugged = {} /\ ejecting = {} /\ rushed = FALSE
    /\ balloon = [target |-> 0, actual |-> 0] /\ setter = 0
    /\ last = Nothing /\ settings = 0

-----------------------------------------------------------------------------
(* The setters of a stored pair: 1 <= actual <= total. *)

SetActual(l, v) == IF v < 1 \/ v > l.total THEN Refused ELSE [l EXCEPT !.actual = v]

\* With a bug: the total may be less than the actual value.
SetTotalUnchecked(l, v) == IF v < 1 THEN Refused ELSE [l EXCEPT !.total = v]

SetTotal(l, v)  == IF v < 1 \/ v < l.actual THEN Refused ELSE [l EXCEPT !.total = v]

\* The closure "set" of the handlers: the order depends on the pair that is there.
SetBoth(l, actual, total) ==
    IF actual > l.total
      THEN LET m == SetTotal(l, total)   IN IF m = Refused THEN m ELSE SetActual(m, actual)
      ELSE LET m == SetActual(l, actual) IN IF m = Refused THEN m ELSE SetTotal(m, total)

\* A total that was not given is filled in by the first use of the closure and kept
\* for the second: from QEMU if the change is live, else from the file.
FilledTotal(total, live, running, stored) ==
    IF total > 0 THEN total ELSE IF live THEN running ELSE stored

\* The live part: no other total than QEMU's, an actual value within it.
LiveAccepts(actual, total, running) ==
    (total = 0 \/ total = running) /\ actual \in 1..running

AnswerSetting(op, live, stored, want) ==
    /\ settings < MaxSettings
    /\ settings' = settings + 1
    /\ last' = [op |-> op, live |-> live, stored |-> stored, want |-> want]

-----------------------------------------------------------------------------
(* Requests *)

MemorySetLimits(actual, total, live) ==
    LET inQemu == live /\ Running
        pair   == SetBoth(mem, actual, FilledTotal(total, inQemu, qemu.mem, mem.total))
    IN  /\ UNCHANGED <<cpu, qemu, plugged, ejecting, setter, rushed>>
        /\ \/ /\ inQemu => LiveAccepts(actual, total, qemu.mem)
              /\ balloon' = IF inQemu THEN [balloon EXCEPT !.target = actual] ELSE balloon
              /\ mem' = IF pair = Refused THEN mem ELSE pair
              /\ AnswerSetting("mem", inQemu, pair # Refused, actual)
           \/ /\ inQemu    \* refused, or the command fails
              /\ AnswerSetting("mem", FALSE, FALSE, 0)
              /\ UNCHANGED <<mem, balloon>>

\* With a bug: the first processors are asked for instead of the last ones.
UnplugFirst(actual, n) ==
    LET Free(k) == {c \in 1..qemu.cpu : c \notin plugged
                        /\ Cardinality((1..c) \ plugged) <= k}
        Used(k) == {c \in plugged : Cardinality({d \in plugged : d <= c}) <= k}
    IN  IF actual < Cardinality(plugged)
          THEN ejecting' = ejecting \cup Used(n) /\ UNCHANGED plugged
          ELSE plugged' = plugged \cup Free(n) /\ UNCHANGED ejecting

\* CPUSetActual: of the slots, in their order, the first free ones are filled or
\* the last used ones are asked for, n commands before one fails.  A slot that was
\* asked for already is an error.  Nobody waits for the guest.
HotplugCPU(actual, n) ==
    LET count == Cardinality(plugged)
        Free(k) == {c \in 1..qemu.cpu : c \notin plugged
                        /\ Cardinality((1..c) \ plugged) <= k}
        Used(k) == {c \in plugged : Cardinality({d \in plugged : d >= c}) <= k}
    IN  IF actual < count
          THEN /\ n <= count - actual /\ Used(n) \cap ejecting = {}
               /\ ejecting' = ejecting \cup Used(n)
               /\ UNCHANGED plugged
          ELSE /\ n <= actual - count
               /\ plugged' = plugged \cup Free(n)
               /\ UNCHANGED ejecting

Distance(actual) == IF actual < Cardinality(plugged) THEN Cardinality(plugged) - actual
                                                     ELSE actual - Cardinality(plugged)

CPUSetLimits(actual, total, live) ==
    LET inQemu == live /\ Running
        pair   == SetBoth([actual |-> cpu.actual, total |-> cpu.total], actual,
                          FilledTotal(total, inQemu, qemu.cpu, cpu.total))
    IN  /\ UNCHANGED <<mem, qemu, balloon, setter>>
        /\ rushed' = (rushed \/ (inQemu /\ ejecting # {}))
        /\ \/ /\ IF inQemu THEN /\ LiveAccepts(actual, total, qemu.cpu)
                                /\ HotplugCPU(actual, Distance(actual))
                           ELSE UNCHANGED <<plugged, ejecting>>
              /\ cpu' = IF pair = Refused THEN cpu
                        ELSE [cpu EXCEPT !.actual = pair.actual, !.total = pair.total]
              /\ AnswerSetting("cpu", inQemu, pair # Refused, actual)
           \/ /\ inQemu /\ LiveAccepts(actual, total, qemu.cpu)
              /\ \E n \in 0..Distance(actual) : HotplugCPU(actual, n)
              /\ AnswerSetting("cpu", FALSE, FALSE, 0)
              /\ UNCHANGED cpu

\* VirtCPU.SetSockets: total % 0 is a panic that ends kvmrund.
CPUSetSockets(n) ==
    /\ UNCHANGED <<mem, qemu, plugged, ejecting, balloon, setter, rushed>>
    /\ \/ /\ n = 0
          /\ AnswerSetting("panic", FALSE, FALSE, 0) /\ UNCHANGED cpu
       \/ /\ n > 0 /\ cpu.total % n = 0
          /\ cpu' = [cpu EXCEPT !.sockets = n]
          /\ AnswerSetting("sockets", FALSE, TRUE, n)
       \/ /\ n > 0 /\ cpu.total % n # 0
          /\ AnswerSetting("sockets", FALSE, FALSE, 0) /\ UNCHANGED cpu

-----------------------------------------------------------------------------
(* Start and end of QEMU, the guest, the task of registration *)

\* The command line and the registration refuse some configurations.
MemActual == mem.actual % UintMB
Starts    == /\ cpu.sockets > 0 => cpu.total % cpu.sockets = 0
             /\ MemActual > 0

Boot ==
    /\ ~Running /\ Starts
    /\ qemu'    = [mem |-> mem.total, cpu |-> cpu.total]
    /\ plugged' = 1..cpu.actual /\ ejecting' = {} /\ rushed' = FALSE
    /\ balloon' = [target |-> mem.total, actual |-> mem.total]
    /\ setter'  = MemActual
    /\ last'    = Nothing
    /\ UNCHANGED <<mem, cpu, settings>>

PowerOff ==
    /\ Running
    /\ qemu' = Off /\ plugged' = {} /\ ejecting' = {} /\ setter' = 0 /\ rushed' = FALSE
    /\ balloon' = [target |-> 0, actual |-> 0]
    /\ last' = Nothing
    /\ UNCHANGED <<mem, cpu, settings>>

\* The guest gives up a processor, in its own time and order.
Eject ==
    /\ \E c \in ejecting : ejecting' = ejecting \ {c} /\ plugged' = plugged \ {c}
    /\ UNCHANGED <<mem, cpu, qemu, balloon, setter, rushed, last, settings>>

Inflate ==
    /\ balloon.actual # balloon.target
    /\ balloon' = [balloon EXCEPT !.actual = balloon.target]
    /\ UNCHANGED <<mem, cpu, qemu, plugged, ejecting, setter, rushed, last, settings>>

\* initBalloon: the value is sent again until the guest has it.
BalloonSet ==
    /\ setter > 0
    /\ balloon' = [balloon EXCEPT !.target = setter]
    /\ setter'  = IF balloon.actual = setter THEN 0 ELSE setter
    /\ UNCHANGED <<mem, cpu, qemu, plugged, ejecting, rushed, last, settings>>

\* 180 attempts, a cancel of the task, or the monitor is closed.
BalloonGivesUp ==
    /\ setter > 0
    /\ setter' = 0
    /\ UNCHANGED <<mem, cpu, qemu, plugged, ejecting, balloon, rushed, last, settings>>

Setting ==
    \/ \E a \in Sizes, t \in Sizes \cup {0}, live \in BOOLEAN : MemorySetLimits(a, t, live)
    \/ \E a \in 1..MaxCPU, t \in 0..MaxCPU, live \in BOOLEAN : CPUSetLimits(a, t, live)
    \/ \E n \in 0..MaxCPU : CPUSetSockets(n)

ResourceNext == Setting \/ Boot \/ PowerOff \/ Eject \/ Inflate \/ BalloonSet \/ BalloonGivesUp

ResourceSpec == ResourceInit /\ [][ResourceNext]_resourceVars

-----------------------------------------------------------------------------
(* Properties *)

ResourceTypeOK ==
    /\ mem.total \in Sizes /\ cpu.total \in 1..MaxCPU /\ cpu.sockets \in 0..MaxCPU
    /\ qemu.mem \in Sizes \cup {0} /\ qemu.cpu \in 0..MaxCPU
    /\ plugged \subseteq 1..qemu.cpu /\ ejecting \subseteq plugged
    /\ settings \in 0..MaxSettings

\* No sequence of requests, each of which changes two values one after the other,
\* leaves limits that the next start would take for an error.
LimitsOrdered == mem.actual \in 1..mem.total /\ cpu.actual \in 1..cpu.total

\* A change that was made in QEMU is accepted for the file as well, although the
\* two may have had different totals: the user never gets an error for a change
\* that is half done.
LiveMeansStored == last.live => last.stored

\* A change of the limits that was made in QEMU is in the file as well, and what is
\* in the file is in order (MemorySetLimits, CPUSetLimits).
LimitsKept == LimitsOrdered /\ LiveMeansStored

\* The guest is never left without a processor, and when it has given up what it
\* was asked for, it has the number that was answered, as the first ones of the
\* list: QEMU at the destination of a migration is started with exactly these.
\* (Not promised: a request made while processors are still leaving.)
ProcessorsAreFirst ==
    Running => /\ plugged \ ejecting # {}
               /\ ejecting = {} /\ ~rushed => plugged = 1..Cardinality(plugged)

\* The processor sockets always divide the number of processors, as SetSockets
\* demands: the machine can be started.
SocketsDivide == cpu.sockets > 0 => cpu.total % cpu.sockets = 0

\* No request ends kvmrund.
NoDivisionByZero == last.op # "panic"

\* The registration asks the guest for the configured memory.
BalloonIsActual == [][BalloonSet /\ last = Nothing => balloon'.target = mem.actual]_resourceVars

\* A live change of the memory that was answered stays until the next request.
LiveMemoryStays == last.op = "mem" /\ last.live => balloon.target = last.want

\* A request that gives no total leaves the stored one alone.
TotalKept ==
    [][\A a \in Sizes, live \in BOOLEAN :
           MemorySetLimits(a, 0, live) /\ mem' # mem => mem'.total = mem.total]_resourceVars
=============================================================================
