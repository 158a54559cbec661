--------------------------- MODULE LifecycleProofs ---------------------------
(***************************************************************************)
(* Proofs about the life of a machine, for any number of processes and     *)
(* crashes.                                                                *)
(*                                                                         *)
(* The argument: a request changes the files and the unit in the order of  *)
(* its program, so the steps that are still ahead tell what the files are; *)
(* the rest of the system works on what the steps behind it have left.     *)
(***************************************************************************)
EXTENDS Lifecycle, SequenceTheorems, TLAPS

\* The steps that a list has left, and that none comes twice.
Ahead(steps)    == {steps[i] : i \in DOMAIN steps}
Distinct(steps) == \A i, j \in DOMAIN steps : steps[i] = steps[j] => i = j

\* One step comes before another: a unit is disabled before anything is removed,
\* and enabled after the configuration was saved.
Before(steps, a, b) == \A i, j \in DOMAIN steps : steps[i] = a /\ steps[j] = b => i < j
Ordered(steps) ==
    Before(steps, "disable", "rmuser") /\ Before(steps, "disable", "rmconf") /\ Before(steps, "save", "enable")

AllSteps == {"undown", "down", "start", "stop", "restart", "term", "kill", "test", "wait", "tryWait",
             "enable", "disable", "mkuser", "rmuser", "save", "rmconf"}
AllOps  == PowerOps \cup {"Create"}
Deletes == {"Delete", "DeleteForce"}
StopsAndWaits == {"StopWait", "StopForce"}

\* Which requests have the steps that change the files, and what comes first.
StepsFit(op, steps) ==
    /\ "rmuser" \in Ahead(steps) \/ "rmconf" \in Ahead(steps) \/ "disable" \in Ahead(steps) => op \in Deletes
    /\ "mkuser" \in Ahead(steps) \/ "save" \in Ahead(steps) \/ "enable" \in Ahead(steps) => op = "Create"
    /\ "test" \in Ahead(steps) \/ "wait" \in Ahead(steps) \/ "down" \in Ahead(steps) => op \notin Deletes \cup {"Create"}
    /\ "start" \in Ahead(steps) \/ "restart" \in Ahead(steps) => op \notin Deletes \cup {"Create"}
    /\ "stop" \in Ahead(steps) => op # "Create"
    /\ "disable" \in Ahead(steps) => "rmuser" \in Ahead(steps) /\ "rmconf" \in Ahead(steps)
    /\ "undown" \in Ahead(steps) => op \notin StopsAndWaits
    /\ op \in StopsAndWaits /\ "down" \in Ahead(steps) => steps[1] = "down"
    /\ op = "Create" /\ "mkuser" \in Ahead(steps) => steps[1] = "mkuser" /\ "save" \in Ahead(steps)

\* The types of the files, the unit, the tasks and the history; a unit that has
\* stopped has no process.
FileSet == [{"dir", "conf", "user", "enabled", "down", "chroot", "startup"} -> BOOLEAN]
FilesOK == files \in FileSet
UnitOK  == /\ unit \in Stopped \cup {"active", "stop", "sigterm", "post"} /\ job \in {"none", "start"}
           /\ main \in {"none", "check", "read", "devices", "chroot", "libs", "register", "exec", "qemu"}
           /\ inst \in 0..MaxInst /\ sock \in BOOLEAN /\ (sock => main = "qemu")
           /\ unit \in Stopped \cup {"post"} => main = "none"
TasksOK == /\ up \in {"down", "starting", "serving"} /\ mon \in 0..inst
           /\ reg \in [stage : {"none", "waiting", "dialing", "init"}, inst : 0..inst]
           /\ term \in {"none", "begun", "asked"}
HistoryOK == /\ wish \in {"none", "stopped", "created", "deleted"} /\ grace \in BOOLEAN
             /\ crashes \in [n : 0..MaxCrashes, host : BOOLEAN, pulled : BOOLEAN, cut : BOOLEAN]
LifeTypes == FilesOK /\ UnitOK /\ TasksOK /\ HistoryOK

\* The request is a part of its program.
RequestInv ==
    /\ req \in [op : AllOps \cup {"idle"}, rest : Seq(AllSteps)]
    /\ Distinct(req.rest) /\ Ordered(req.rest) /\ StepsFit(req.op, req.rest)
    /\ req.op = "idle" => req.rest = <<>>
    /\ wish # "none" => req = Idle

\* The steps ahead tell whether there are a configuration, a user and a unit link;
\* the user only if no removal failed. A request that was cut short leaves what its
\* steps have done.
FilesInv ==
    /\ files.conf => files.dir
    /\ req.op \in Deletes =>
           /\ "rmuser" \in Ahead(req.rest) => files.user
           /\ "rmuser" \notin Ahead(req.rest) /\ ~crashes.cut => ~files.user
           /\ files.conf <=> "rmconf" \in Ahead(req.rest)
           /\ "rmconf" \notin Ahead(req.rest) => ~files.dir
           /\ "disable" \notin Ahead(req.rest) => ~files.enabled
    /\ req.op = "Create" =>
           /\ files.conf <=> "save" \notin Ahead(req.rest)
           /\ "mkuser" \notin Ahead(req.rest) => files.dir /\ files.user
           /\ "mkuser" \in Ahead(req.rest) /\ ~crashes.cut => ~files.user
           /\ "enable" \notin Ahead(req.rest) => files.enabled
    /\ ~crashes.cut /\ req.op \notin Deletes \cup {"Create"} => (files.conf <=> files.user)
    /\ wish = "created" => files.dir /\ files.conf /\ files.user /\ files.enabled
    /\ wish = "deleted" => ~files.dir /\ ~files.conf /\ ~files.enabled

\* From the down file on no launcher gets past its check; once the unit has
\* stopped, none is past it.
StopInv ==
    /\ req.op \in StopsAndWaits /\ "down" \notin Ahead(req.rest) => files.down
    /\ req.op \in StopsAndWaits /\ "wait" \notin Ahead(req.rest) => files.down /\ main \in {"none", "check"}
    /\ wish = "stopped" => files.down /\ main \in {"none", "check"}

\* A launcher that has read the configuration has one that lasts as long as its
\* unit, or the directory was pulled away under it; so the cleanup, which comes
\* after it, can do its work.
UnitInv ==
    /\ main \in {"devices", "chroot", "libs", "register", "exec", "qemu"} => files.conf \/ crashes.pulled
    /\ crashes.n = 0 => Serving
    /\ ~crashes.pulled =>
           /\ files.chroot /\ ~crashes.host => unit \notin Stopped /\ files.conf
           /\ mon # 0 /\ crashes.n = 0 => unit \notin Stopped /\ files.conf

(***************************************************************************)
(* Lists of steps.                                                         *)
(***************************************************************************)

\* A step that is done is not ahead any more.
LEMMA TakeStep ==
    ASSUME NEW s \in Seq(AllSteps), s # <<>>, Distinct(s)
    PROVE  /\ Tail(s) \in Seq(AllSteps) /\ Distinct(Tail(s))
           /\ Ahead(Tail(s)) = Ahead(s) \ {Head(s)}
           /\ Head(s) \in Ahead(s) /\ Head(s) = s[1]
           /\ \A a, b : Before(s, a, b) => Before(Tail(s), a, b) /\ (Head(s) = b => a \notin Ahead(s))
<1> DEFINE t == Tail(s)
<1>1. Len(s) \in Nat /\ Len(s) >= 1 /\ DOMAIN s = 1..Len(s)
  OBVIOUS
<1>2. t \in Seq(AllSteps) /\ DOMAIN t = 1..(Len(s) - 1) /\ \A i \in DOMAIN t : t[i] = s[i + 1]
  BY <1>1
<1>3. Head(s) = s[1] /\ 1 \in DOMAIN s
  BY <1>1
<1>4. Distinct(t)
  BY <1>1, <1>2 DEF Distinct
<1>5. ASSUME NEW x \in Ahead(t) PROVE x \in Ahead(s) \ {s[1]}
  <2>1. PICK i \in DOMAIN t : x = t[i]
    BY <1>5 DEF Ahead
  <2>2. i + 1 \in DOMAIN s /\ x = s[i + 1] /\ i + 1 # 1
    BY <1>1, <1>2, <2>1
  <2> QED
    BY <1>3, <2>2 DEF Ahead, Distinct
<1>6. ASSUME NEW x \in Ahead(s), x # s[1] PROVE x \in Ahead(t)
  <2>1. PICK i \in DOMAIN s : x = s[i]
    BY <1>6 DEF Ahead
  <2>2. i - 1 \in DOMAIN t /\ t[i - 1] = x
    BY <1>1, <1>2, <1>6, <2>1
  <2> QED
    BY <2>2 DEF Ahead
<1>7. ASSUME NEW a, NEW b, Before(s, a, b)
      PROVE  Before(t, a, b) /\ (s[1] = b => a \notin Ahead(s))
  <2>1. Before(t, a, b)
    BY <1>1, <1>2, <1>7 DEF Before
  <2>2. s[1] = b => a \notin Ahead(s)
    BY <1>1, <1>3, <1>7 DEF Before, Ahead
  <2> QED
    BY <2>1, <2>2
<1> QED
  BY <1>2, <1>3, <1>4, <1>5, <1>6, <1>7 DEF Ahead

\* A list without steps has none ahead.
LEMMA NoStep == Ahead(<<>>) = {} /\ Distinct(<<>>) /\ Ordered(<<>>) /\ <<>> \in Seq(AllSteps)
BY DEF Ahead, Distinct, Ordered, Before

\* What a list of two to six steps has ahead.
LEMMA AheadOf ==
    ASSUME NEW s \in Seq(AllSteps), Len(s) \in 2..6
    PROVE  /\ Len(s) = 2 => Ahead(s) = {s[1], s[2]}
           /\ Len(s) = 3 => Ahead(s) = {s[1], s[2], s[3]}
           /\ Len(s) = 4 => Ahead(s) = {s[1], s[2], s[3], s[4]}
           /\ Len(s) = 5 => Ahead(s) = {s[1], s[2], s[3], s[4], s[5]}
           /\ Len(s) = 6 => Ahead(s) = {s[1], s[2], s[3], s[4], s[5], s[6]}
<1>1. DOMAIN s = 1..Len(s)
  OBVIOUS
<1>2. CASE Len(s) = 2
  <2>1. DOMAIN s = {1, 2}
    BY <1>1, <1>2
  <2> QED
    BY <1>2, <2>1 DEF Ahead
<1>3. CASE Len(s) = 3
  <2>1. DOMAIN s = {1, 2, 3}
    BY <1>1, <1>3
  <2> QED
    BY <1>3, <2>1 DEF Ahead
<1>4. CASE Len(s) = 4
  <2>1. DOMAIN s = {1, 2, 3, 4}
    BY <1>1, <1>4
  <2> QED
    BY <1>4, <2>1 DEF Ahead
<1>5. CASE Len(s) = 5
  <2>1. DOMAIN s = {1, 2, 3, 4, 5}
    BY <1>1, <1>5
  <2> QED
    BY <1>5, <2>1 DEF Ahead
<1>6. CASE Len(s) = 6
  <2>1. DOMAIN s = {1, 2, 3, 4, 5, 6}
    BY <1>1, <1>6
  <2> QED
    BY <1>6, <2>1 DEF Ahead
<1> QED
  BY <1>2, <1>3, <1>4, <1>5, <1>6

\* A list of five steps behind one.
LEMMA OneMore ==
    ASSUME NEW t \in Seq(AllSteps), NEW u \in Seq(AllSteps), Len(t) = 1, Len(u) = 5
    PROVE  t \o u \in Seq(AllSteps) /\ Len(t \o u) = 6 /\ (t \o u)[1] = t[1] /\ \A i \in 1..5 : (t \o u)[i + 1] = u[i]
<1> DEFINE v == t \o u
<1>1. /\ v \in Seq(AllSteps) /\ Len(v) = Len(t) + Len(u)
      /\ \A i \in 1..Len(t) + Len(u) : v[i] = IF i <= Len(t) THEN t[i] ELSE u[i - Len(t)]
  BY ConcatProperties, Zenon
<1> HIDE DEF v
<1>2. Len(v) = 6 /\ \A i \in 1..6 : v[i] = IF i <= 1 THEN t[i] ELSE u[i - 1]
  BY <1>1
<1>3. ASSUME NEW i \in 1..5 PROVE v[i + 1] = u[i]
  <2>1. i + 1 \in 1..6 /\ ~(i + 1 <= 1) /\ (i + 1) - 1 = i
    OBVIOUS
  <2> QED
    BY <1>2, <2>1
<1> QED
  BY <1>1, <1>2, <1>3 DEF v

\* Every program has the steps its request is about, each once.
LEMMA Programs ==
    ASSUME NEW op \in AllOps
    PROVE  /\ Program(op) \in Seq(AllSteps) /\ Distinct(Program(op)) /\ Ordered(Program(op)) /\ StepsFit(op, Program(op))
           /\ op \in Deletes => {"rmuser", "rmconf", "disable"} \subseteq Ahead(Program(op))
           /\ op = "Create" => {"mkuser", "save", "enable"} \subseteq Ahead(Program(op))
           /\ op \in StopsAndWaits => "down" \in Ahead(Program(op)) /\ "wait" \in Ahead(Program(op))
<1>0. PICK s : s = Program(op)
  OBVIOUS
<1>1. CASE op = "Start"
  <2>1. s = <<"undown", "start">>
    BY <1>0, <1>1 DEF Program, DeleteProgram
  <2>2. s \in Seq(AllSteps) /\ Len(s) = 2 /\ s[1] = "undown" /\ s[2] = "start"
    BY <2>1 DEF AllSteps
  <2>3. Ahead(s) = {"undown", "start"}
    BY <2>2, AheadOf
  <2>4. Distinct(s) /\ Ordered(s)
    BY <2>2 DEF Distinct, Ordered, Before
  <2> QED
    BY <1>0, <1>1, <2>2, <2>3, <2>4 DEF StepsFit, Deletes, StopsAndWaits
<1>2. CASE op = "StartWait"
  <2>1. s = <<"undown", "start", "test">>
    BY <1>0, <1>2 DEF Program, DeleteProgram
  <2>2. s \in Seq(AllSteps) /\ Len(s) = 3 /\ s[1] = "undown" /\ s[2] = "start" /\ s[3] = "test"
    BY <2>1 DEF AllSteps
  <2>3. Ahead(s) = {"undown", "start", "test"}
    BY <2>2, AheadOf
  <2>4. Distinct(s) /\ Ordered(s)
    BY <2>2 DEF Distinct, Ordered, Before
  <2> QED
    BY <1>0, <1>2, <2>2, <2>3, <2>4 DEF StepsFit, Deletes, StopsAndWaits
<1>3. CASE op = "Stop"
  <2>1. s = <<"down", "stop">>
    BY <1>0, <1>3 DEF Program, DeleteProgram
  <2>2. s \in Seq(AllSteps) /\ Len(s) = 2 /\ s[1] = "down" /\ s[2] = "stop"
    BY <2>1 DEF AllSteps
  <2>3. Ahead(s) = {"down", "stop"}
    BY <2>2, AheadOf
  <2>4. Distinct(s) /\ Ordered(s)
    BY <2>2 DEF Distinct, Ordered, Before
  <2> QED
    BY <1>0, <1>3, <2>2, <2>3, <2>4 DEF StepsFit, Deletes, StopsAndWaits
<1>4. CASE op = "StopWait"
  <2>1. s = <<"down", "stop", "wait">>
    BY <1>0, <1>4 DEF Program, DeleteProgram
  <2>2. s \in Seq(AllSteps) /\ Len(s) = 3 /\ s[1] = "down" /\ s[2] = "stop" /\ s[3] = "wait"
    BY <2>1 DEF AllSteps
  <2>3. Ahead(s) = {"down", "stop", "wait"}
    BY <2>2, AheadOf
  <2>4. Distinct(s) /\ Ordered(s)
    BY <2>2 DEF Distinct, Ordered, Before
  <2> QED
    BY <1>0, <1>4, <2>2, <2>3, <2>4 DEF StepsFit, Deletes, StopsAndWaits
<1>5. CASE op = "StopForce"
  <2>1. s = <<"down", "term", "stop", "wait">>
    BY <1>0, <1>5 DEF Program, DeleteProgram
  <2>2. s \in Seq(AllSteps) /\ Len(s) = 4 /\ s[1] = "down" /\ s[2] = "term" /\ s[3] = "stop" /\ s[4] = "wait"
    BY <2>1 DEF AllSteps
  <2>3. Ahead(s) = {"down", "term", "stop", "wait"}
    BY <2>2, AheadOf
  <2>4. Distinct(s) /\ Ordered(s)
    BY <2>2 DEF Distinct, Ordered, Before
  <2> QED
    BY <1>0, <1>5, <2>2, <2>3, <2>4 DEF StepsFit, Deletes, StopsAndWaits
<1>6. CASE op = "Restart"
  <2>1. s = <<"undown", "restart">>
    BY <1>0, <1>6 DEF Program, DeleteProgram
  <2>2. s \in Seq(AllSteps) /\ Len(s) = 2 /\ s[1] = "undown" /\ s[2] = "restart"
    BY <2>1 DEF AllSteps
  <2>3. Ahead(s) = {"undown", "restart"}
    BY <2>2, AheadOf
  <2>4. Distinct(s) /\ Ordered(s)
    BY <2>2 DEF Distinct, Ordered, Before
  <2> QED
    BY <1>0, <1>6, <2>2, <2>3, <2>4 DEF StepsFit, Deletes, StopsAndWaits
<1>7. CASE op = "RestartWait"
  <2>1. s = <<"undown", "stop", "wait", "start">>
    BY <1>0, <1>7 DEF Program, DeleteProgram
  <2>2. s \in Seq(AllSteps) /\ Len(s) = 4 /\ s[1] = "undown" /\ s[2] = "stop" /\ s[3] = "wait" /\ s[4] = "start"
    BY <2>1 DEF AllSteps
  <2>3. Ahead(s) = {"undown", "stop", "wait", "start"}
    BY <2>2, AheadOf
  <2>4. Distinct(s) /\ Ordered(s)
    BY <2>2 DEF Distinct, Ordered, Before
  <2> QED
    BY <1>0, <1>7, <2>2, <2>3, <2>4 DEF StepsFit, Deletes, StopsAndWaits
<1>8. CASE op = "Reset"
  <2>1. s = <<"undown", "kill", "stop", "tryWait", "start">>
    BY <1>0, <1>8 DEF Program, DeleteProgram
  <2>2. s \in Seq(AllSteps) /\ Len(s) = 5 /\ s[1] = "undown" /\ s[2] = "kill" /\ s[3] = "stop" /\ s[4] = "tryWait" /\ s[5] = "start"
    BY <2>1 DEF AllSteps
  <2>3. Ahead(s) = {"undown", "kill", "stop", "tryWait", "start"}
    BY <2>2, AheadOf
  <2>4. Distinct(s) /\ Ordered(s)
    BY <2>2 DEF Distinct, Ordered, Before
  <2> QED
    BY <1>0, <1>8, <2>2, <2>3, <2>4 DEF StepsFit, Deletes, StopsAndWaits
<1>9. CASE op = "Delete"
  <2>1. s = <<"stop", "tryWait", "disable", "rmuser", "rmconf">>
    BY <1>0, <1>9 DEF Program, DeleteProgram
  <2>2. s \in Seq(AllSteps) /\ Len(s) = 5 /\ s[1] = "stop" /\ s[2] = "tryWait" /\ s[3] = "disable" /\ s[4] = "rmuser" /\ s[5] = "rmconf"
    BY <2>1 DEF AllSteps
  <2>3. Ahead(s) = {"stop", "tryWait", "disable", "rmuser", "rmconf"}
    BY <2>2, AheadOf
  <2>4. Distinct(s) /\ Ordered(s)
    BY <2>2 DEF Distinct, Ordered, Before
  <2> QED
    BY <1>0, <1>9, <2>2, <2>3, <2>4 DEF StepsFit, Deletes, StopsAndWaits
<1>10. CASE op = "DeleteForce"
  <2>a. s = <<"kill">> \o DeleteProgram
    BY <1>0, <1>10 DEF Program
  <2>b. DeleteProgram \in Seq(AllSteps) /\ <<"kill">> \in Seq(AllSteps) /\ Len(DeleteProgram) = 5
    BY DEF DeleteProgram, AllSteps
  <2>e. Len(<<"kill">>) = 1 /\ <<"kill">>[1] = "kill"
    OBVIOUS
  <2>1. s \in Seq(AllSteps) /\ Len(s) = 6 /\ s[1] = "kill" /\ \A i \in 1..5 : s[i + 1] = DeleteProgram[i]
    <3>1. PICK t, u : t = <<"kill">> /\ u = DeleteProgram
      OBVIOUS
    <3>2. t \in Seq(AllSteps) /\ u \in Seq(AllSteps) /\ Len(t) = 1 /\ Len(u) = 5 /\ t[1] = "kill" /\ s = t \o u
      BY <2>a, <2>b, <2>e, <3>1, Zenon
    <3>3. s \in Seq(AllSteps) /\ Len(s) = 6 /\ s[1] = "kill" /\ \A i \in 1..5 : s[i + 1] = u[i]
      BY <3>2, OneMore, Zenon
    <3> QED
      BY <3>1, <3>3, Zenon
  <2>c. s[2] = DeleteProgram[1] /\ s[3] = DeleteProgram[2] /\ s[4] = DeleteProgram[3]
    BY <2>1
  <2>d. s[5] = DeleteProgram[4] /\ s[6] = DeleteProgram[5]
    BY <2>1
  <2>2. s[2] = "stop" /\ s[3] = "tryWait" /\ s[4] = "disable" /\ s[5] = "rmuser" /\ s[6] = "rmconf"
    BY <2>c, <2>d DEF DeleteProgram
  <2>3. Ahead(s) = {"kill", "stop", "tryWait", "disable", "rmuser", "rmconf"}
    BY <2>1, <2>2, AheadOf
  <2>4. Distinct(s) /\ Ordered(s)
    BY <2>1, <2>2 DEF Distinct, Ordered, Before
  <2> QED
    BY <1>0, <1>10, <2>1, <2>2, <2>3, <2>4 DEF StepsFit, Deletes, StopsAndWaits
<1>11. CASE op = "Create"
  <2>1. s = <<"mkuser", "save", "enable">>
    BY <1>0, <1>11 DEF Program, DeleteProgram
  <2>2. s \in Seq(AllSteps) /\ Len(s) = 3 /\ s[1] = "mkuser" /\ s[2] = "save" /\ s[3] = "enable"
    BY <2>1 DEF AllSteps
  <2>3. Ahead(s) = {"mkuser", "save", "enable"}
    BY <2>2, AheadOf
  <2>4. Distinct(s) /\ Ordered(s)
    BY <2>2 DEF Distinct, Ordered, Before
  <2> QED
    BY <1>0, <1>11, <2>2, <2>3, <2>4 DEF StepsFit, Deletes, StopsAndWaits
<1> QED
  BY <1>1, <1>2, <1>3, <1>4, <1>5, <1>6, <1>7, <1>8, <1>9, <1>10, <1>11 DEF AllOps, PowerOps

(***************************************************************************)
(* The directory of a machine.                                             *)
(***************************************************************************)

\* What a removal that succeeds, or does not, leaves.
LEMMA Removals ==
    ASSUME NEW f \in FileSet
    PROVE  /\ Removed(f) \in FileSet /\ ~Removed(f).dir /\ ~Removed(f).conf
           /\ Removed(f).user = f.user /\ Removed(f).enabled = f.enabled /\ Removed(f).chroot = f.chroot
           /\ \A g \in Remainder(f) : /\ g \in FileSet /\ g.dir = f.dir /\ (g.conf => f.conf)
                                       /\ g.user = f.user /\ g.enabled = f.enabled /\ g.chroot = f.chroot
           /\ [f EXCEPT !.dir = TRUE] \in FileSet
<1>1. DOMAIN f = {"dir", "conf", "user", "enabled", "down", "chroot", "startup"}
  BY DEF FileSet
<1>2. /\ Removed(f) \in FileSet /\ Removed(f).dir = FALSE /\ Removed(f).conf = FALSE
      /\ Removed(f).user = f.user /\ Removed(f).enabled = f.enabled /\ Removed(f).chroot = f.chroot
  BY DEF Removed, FileSet
<1>3. ASSUME NEW g \in Remainder(f)
      PROVE  /\ g \in FileSet /\ g.dir = f.dir /\ (g.conf => f.conf)
             /\ g.user = f.user /\ g.enabled = f.enabled /\ g.chroot = f.chroot
  <2>1. /\ g \in FileSet
        /\ \A k \in {"conf", "down", "startup"} : g[k] => f[k]
        /\ \A k \in {"dir", "conf", "user", "enabled", "down", "chroot", "startup"} \ {"conf", "down", "startup"} : g[k] = f[k]
    BY <1>1, <1>3 DEF Remainder, FileSet
  <2> QED
    BY <2>1
<1>4. [f EXCEPT !.dir = TRUE] \in FileSet
  BY DEF FileSet
<1> QED
  BY <1>2, <1>3, <1>4

(***************************************************************************)
(* Steps that are no part of a request.                                    *)
(***************************************************************************)
Beside == \/ Terminate \/ Operator \/ QueuedStart
          \/ CheckDown \/ ReadConf \/ TakeDevices \/ PrepareChroot \/ PrepareLibs
          \/ Register \/ Exec \/ Listen \/ QemuExits
          \/ StopCommand \/ Cleanup
          \/ WaitForQemuSystem \/ NewMonitor \/ RegistrationEnds
          \/ TerminationBegins \/ PowerdownFails \/ TimedOut
          \/ MonitorReConnect \/ Serve

\* The steps of a request.
InRequest == FileStep \/ UnitStep \/ StepFails \/ RemovalFails \/ Tested \/ Waited \/ WaitFails \/ CreateStep


\* They leave the request, the history and all files but those of the launcher.
LEMMA BesideKeeps ==
    ASSUME LifeTypes, Beside
    PROVE  /\ UNCHANGED <<req, wish, crashes>>
           /\ files'.dir = files.dir /\ files'.conf = files.conf /\ files'.user = files.user /\ files'.down = files.down
           /\ files'.enabled = files.enabled
<1>1. CASE Terminate
  BY <1>1
     DEF LifeTypes, FilesOK, FileSet, Stopped, Idle, NoReg, Serving, Live, StartUnit, StopUnit, MainGone, LauncherExits, Launcher, Task, unitVars, taskVars, history, Terminate
<1>2. CASE Operator
  BY <1>2
     DEF LifeTypes, FilesOK, FileSet, Stopped, Idle, NoReg, Serving, Live, StartUnit, StopUnit, MainGone, LauncherExits, Launcher, Task, unitVars, taskVars, history, Operator
<1>3. CASE QueuedStart
  BY <1>3
     DEF LifeTypes, FilesOK, FileSet, Stopped, Idle, NoReg, Serving, Live, StartUnit, StopUnit, MainGone, LauncherExits, Launcher, Task, unitVars, taskVars, history, QueuedStart
<1>4. CASE CheckDown
  BY <1>4
     DEF LifeTypes, FilesOK, FileSet, Stopped, Idle, NoReg, Serving, Live, StartUnit, StopUnit, MainGone, LauncherExits, Launcher, Task, unitVars, taskVars, history, CheckDown
<1>5. CASE ReadConf
  BY <1>5
     DEF LifeTypes, FilesOK, FileSet, Stopped, Idle, NoReg, Serving, Live, StartUnit, StopUnit, MainGone, LauncherExits, Launcher, Task, unitVars, taskVars, history, ReadConf
<1>6. CASE TakeDevices
  BY <1>6
     DEF LifeTypes, FilesOK, FileSet, Stopped, Idle, NoReg, Serving, Live, StartUnit, StopUnit, MainGone, LauncherExits, Launcher, Task, unitVars, taskVars, history, TakeDevices
<1>7. CASE PrepareChroot
  BY <1>7
     DEF LifeTypes, FilesOK, FileSet, Stopped, Idle, NoReg, Serving, Live, StartUnit, StopUnit, MainGone, LauncherExits, Launcher, Task, unitVars, taskVars, history, PrepareChroot
<1>8. CASE PrepareLibs
  BY <1>8
     DEF LifeTypes, FilesOK, FileSet, Stopped, Idle, NoReg, Serving, Live, StartUnit, StopUnit, MainGone, LauncherExits, Launcher, Task, unitVars, taskVars, history, PrepareLibs
<1>9. CASE Register
  BY <1>9
     DEF LifeTypes, FilesOK, FileSet, Stopped, Idle, NoReg, Serving, Live, StartUnit, StopUnit, MainGone, LauncherExits, Launcher, Task, unitVars, taskVars, history, Register
<1>10. CASE Exec
  BY <1>10
     DEF LifeTypes, FilesOK, FileSet, Stopped, Idle, NoReg, Serving, Live, StartUnit, StopUnit, MainGone, LauncherExits, Launcher, Task, unitVars, taskVars, history, Exec
<1>11. CASE Listen
  BY <1>11
     DEF LifeTypes, FilesOK, FileSet, Stopped, Idle, NoReg, Serving, Live, StartUnit, StopUnit, MainGone, LauncherExits, Launcher, Task, unitVars, taskVars, history, Listen
<1>12. CASE QemuExits
  BY <1>12
     DEF LifeTypes, FilesOK, FileSet, Stopped, Idle, NoReg, Serving, Live, StartUnit, StopUnit, MainGone, LauncherExits, Launcher, Task, unitVars, taskVars, history, QemuExits
<1>13. CASE StopCommand
  BY <1>13
     DEF LifeTypes, FilesOK, FileSet, Stopped, Idle, NoReg, Serving, Live, StartUnit, StopUnit, MainGone, LauncherExits, Launcher, Task, unitVars, taskVars, history, StopCommand
<1>14. CASE Cleanup
  BY <1>14
     DEF LifeTypes, FilesOK, FileSet, Stopped, Idle, NoReg, Serving, Live, StartUnit, StopUnit, MainGone, LauncherExits, Launcher, Task, unitVars, taskVars, history, Cleanup
<1>15. CASE WaitForQemuSystem
  BY <1>15
     DEF LifeTypes, FilesOK, FileSet, Stopped, Idle, NoReg, Serving, Live, StartUnit, StopUnit, MainGone, LauncherExits, Launcher, Task, unitVars, taskVars, history, WaitForQemuSystem
<1>16. CASE NewMonitor
  BY <1>16
     DEF LifeTypes, FilesOK, FileSet, Stopped, Idle, NoReg, Serving, Live, StartUnit, StopUnit, MainGone, LauncherExits, Launcher, Task, unitVars, taskVars, history, NewMonitor
<1>17. CASE RegistrationEnds
  BY <1>17
     DEF LifeTypes, FilesOK, FileSet, Stopped, Idle, NoReg, Serving, Live, StartUnit, StopUnit, MainGone, LauncherExits, Launcher, Task, unitVars, taskVars, history, RegistrationEnds
<1>18. CASE TerminationBegins
  BY <1>18
     DEF LifeTypes, FilesOK, FileSet, Stopped, Idle, NoReg, Serving, Live, StartUnit, StopUnit, MainGone, LauncherExits, Launcher, Task, unitVars, taskVars, history, TerminationBegins
<1>19. CASE PowerdownFails
  BY <1>19
     DEF LifeTypes, FilesOK, FileSet, Stopped, Idle, NoReg, Serving, Live, StartUnit, StopUnit, MainGone, LauncherExits, Launcher, Task, unitVars, taskVars, history, PowerdownFails
<1>20. CASE TimedOut
  BY <1>20
     DEF LifeTypes, FilesOK, FileSet, Stopped, Idle, NoReg, Serving, Live, StartUnit, StopUnit, MainGone, LauncherExits, Launcher, Task, unitVars, taskVars, history, TimedOut
<1>21. CASE MonitorReConnect
  BY <1>21
     DEF LifeTypes, FilesOK, FileSet, Stopped, Idle, NoReg, Serving, Live, StartUnit, StopUnit, MainGone, LauncherExits, Launcher, Task, unitVars, taskVars, history, MonitorReConnect
<1>22. CASE Serve
  BY <1>22
     DEF LifeTypes, FilesOK, FileSet, Stopped, Idle, NoReg, Serving, Live, StartUnit, StopUnit, MainGone, LauncherExits, Launcher, Task, unitVars, taskVars, history, Serve
<1> QED
  BY <1>1, <1>2, <1>3, <1>4, <1>5, <1>6, <1>7, <1>8, <1>9, <1>10, <1>11, <1>12, <1>13, <1>14, <1>15, <1>16, <1>17, <1>18, <1>19, <1>20, <1>21, <1>22
     DEF Beside

\* A step of a request takes the first of the list, or ends the request.
LEMMA StepTaken ==
    ASSUME RequestInv, InRequest
    PROVE  /\ req.op # "idle" /\ req.rest # <<>> /\ wish = "none" /\ UNCHANGED wish
           /\ req' = Idle \/ (Done /\ req'.op = req.op /\ Ahead(req'.rest) = Ahead(req.rest) \ {Head(req.rest)})
           /\ Head(req.rest) \in Ahead(req.rest) /\ Head(req.rest) = req.rest[1]
           /\ Head(req.rest) \in {"rmuser", "rmconf"} => "disable" \notin Ahead(req.rest)
           /\ Head(req.rest) = "enable" => "save" \notin Ahead(req.rest)
           /\ Done => req'.op = req.op /\ Ahead(req'.rest) = Ahead(req.rest) \ {Head(req.rest)}
<1>1. req.rest # <<>> /\ UNCHANGED wish /\ (req' = Idle \/ Done)
  BY DEF InRequest, FileStep, UnitStep, StepFails, RemovalFails, Failed, Tested, Waited, WaitFails, CreateStep, Doing, history
<1>2. req.op # "idle" /\ wish = "none"
  BY <1>1 DEF RequestInv, Idle
<1>3. PICK s : s = req.rest
  OBVIOUS
<1>4. s \in Seq(AllSteps) /\ s # <<>> /\ Distinct(s)
  BY <1>1, <1>3 DEF RequestInv
<1>5. Ahead(Tail(s)) = Ahead(s) \ {Head(s)} /\ Head(s) \in Ahead(s) /\ Head(s) = s[1]
  BY <1>4, TakeStep
<1>7. (Head(s) \in {"rmuser", "rmconf"} => "disable" \notin Ahead(s)) /\ (Head(s) = "enable" => "save" \notin Ahead(s))
  <2>1. Ordered(s)
    BY <1>3 DEF RequestInv
  <2> QED
    BY <1>4, <2>1, TakeStep DEF Ordered
<1>6. Done => req'.op = req.op /\ req'.rest = Tail(s)
  BY <1>3 DEF Done, RequestInv
<1> QED
  BY <1>1, <1>2, <1>3, <1>5, <1>6, <1>7

\* A request stays a part of its program.
LEMMA RequestKept ==
    ASSUME LifeTypes, RequestInv, [Next]_vars
    PROVE  RequestInv'
<1>1. CASE Beside \/ UNCHANGED vars
  <2>1. UNCHANGED <<req, wish>>
    BY <1>1, BesideKeeps DEF vars, history
  <2> QED
    BY <2>1 DEF RequestInv
<1>2. CASE \E op \in AllOps : Request(op)
  <2>1. PICK op \in AllOps : Request(op)
    BY <1>2
  <2>2. req' = [op |-> op, rest |-> Program(op)] /\ wish' = "none"
    BY <2>1 DEF Request
  <2>3. Program(op) \in Seq(AllSteps) /\ Distinct(Program(op)) /\ Ordered(Program(op)) /\ StepsFit(op, Program(op))
    BY Programs
  <2>4. op # "idle"
    BY DEF AllOps, PowerOps
  <2> QED
    BY <2>2, <2>3, <2>4 DEF RequestInv
<1>3. CASE InRequest /\ Done
  <2>1. PICK s, op : s = req.rest /\ op = req.op
    OBVIOUS
  <2>2. s \in Seq(AllSteps) /\ s # <<>> /\ Distinct(s) /\ Ordered(s) /\ StepsFit(op, s) /\ op \in AllOps /\ wish' = wish /\ op # "idle"
    BY <1>3, <2>1, StepTaken DEF RequestInv
  <2>3. /\ Tail(s) \in Seq(AllSteps) /\ Distinct(Tail(s)) /\ Ahead(Tail(s)) = Ahead(s) \ {Head(s)} /\ Head(s) = s[1]
    BY <2>2, TakeStep
  <2>7. Ordered(Tail(s)) /\ (Head(s) \in {"rmuser", "rmconf"} => "disable" \notin Ahead(s))
    BY <2>2, TakeStep DEF Ordered
  <2>4. StepsFit(op, Tail(s))
    BY <2>2, <2>3, <2>7 DEF StepsFit
  <2>5. req' = [op |-> op, rest |-> Tail(s)]
    BY <1>3, <2>1 DEF Done, RequestInv
  <2>6. wish = "none"
    BY <2>1, <2>2 DEF RequestInv, Idle
  <2> QED
    BY <2>2, <2>3, <2>4, <2>5, <2>6, <2>7 DEF RequestInv
<1>4. CASE req' = Idle
  <2>1. StepsFit("idle", <<>>)
    BY NoStep DEF StepsFit, StopsAndWaits
  <2> QED
    BY <1>4, <2>1, NoStep DEF RequestInv, Idle
<1>5. ASSUME InRequest PROVE Done \/ req' = Idle
  BY <1>5, StepTaken
<1> QED
  BY <1>1, <1>2, <1>3, <1>4, <1>5 DEF Next, Beside, InRequest, AllOps, Answer, DaemonCrashes, HostCrashes, DaemonGone

\* The operations on the unit keep its types.
LEMMA UnitOps ==
    ASSUME UnitOK
    PROVE  /\ StartUnit => UnitOK'
           /\ \A pending \in {"none", "start"} : StopUnit(pending) => UnitOK'
           /\ MainGone => UnitOK'
           /\ UNCHANGED unitVars => UnitOK'
           /\ \A from, to \in {"check", "read", "devices", "chroot", "libs", "register", "exec", "qemu"} :
                 Launcher(from, to) /\ from # "qemu" => UnitOK'
<1>1. ASSUME StartUnit PROVE UnitOK'
  <2>1. CASE unit \in Stopped
    <3>1. sock = FALSE /\ inst + 1 \in 0..MaxInst
      BY <1>1, <2>1, BoundsAssumption DEF StartUnit, UnitOK
    <3> QED
      BY <1>1, <2>1, <3>1 DEF StartUnit, UnitOK, Stopped
  <2>2. CASE unit \notin Stopped
    <3>1. UNCHANGED <<unit, main, inst, sock>> /\ job' \in {"none", "start"}
      BY <1>1, <2>2 DEF StartUnit
    <3> QED
      BY <3>1 DEF UnitOK
  <2> QED
    BY <2>1, <2>2
<1>2. ASSUME NEW pending \in {"none", "start"}, StopUnit(pending) PROVE UnitOK'
  BY <1>2 DEF StopUnit, UnitOK, Stopped
<1>3. ASSUME MainGone PROVE UnitOK'
  BY <1>3 DEF MainGone, UnitOK, Stopped
<1>4. ASSUME UNCHANGED unitVars PROVE UnitOK'
  BY <1>4 DEF unitVars, UnitOK
<1>5. ASSUME NEW from \in {"check", "read", "devices", "chroot", "libs", "register", "exec", "qemu"},
             NEW to \in {"check", "read", "devices", "chroot", "libs", "register", "exec", "qemu"},
             Launcher(from, to), from # "qemu"
      PROVE  UnitOK'
  <2>1. main = from /\ main' = to /\ UNCHANGED <<unit, job, inst, sock>>
    BY <1>5 DEF Launcher
  <2>2. sock = FALSE /\ unit \notin Stopped \cup {"post"}
    BY <1>5, <2>1 DEF UnitOK
  <2> QED
    BY <2>1, <2>2 DEF UnitOK
<1> QED
  BY <1>1, <1>2, <1>3, <1>4, <1>5

\* The files keep their types.
LEMMA FilesOKKept ==
    ASSUME LifeTypes, [Next]_vars
    PROVE  FilesOK'
<1>1. CASE Terminate
  BY <1>1, BoundsAssumption
     DEF LifeTypes, UnitOK, FilesOK, FileSet, Stopped, Idle, NoReg, Serving, Live, StartUnit, StopUnit, MainGone, LauncherExits, Launcher, Task, unitVars, taskVars, history, Terminate
<1>2. CASE Operator
  BY <1>2, BoundsAssumption
     DEF LifeTypes, UnitOK, FilesOK, FileSet, Stopped, Idle, NoReg, Serving, Live, StartUnit, StopUnit, MainGone, LauncherExits, Launcher, Task, unitVars, taskVars, history, Operator
<1>3. CASE QueuedStart
  BY <1>3, BoundsAssumption
     DEF LifeTypes, UnitOK, FilesOK, FileSet, Stopped, Idle, NoReg, Serving, Live, StartUnit, StopUnit, MainGone, LauncherExits, Launcher, Task, unitVars, taskVars, history, QueuedStart
<1>4. CASE CheckDown
  BY <1>4, BoundsAssumption
     DEF LifeTypes, UnitOK, FilesOK, FileSet, Stopped, Idle, NoReg, Serving, Live, StartUnit, StopUnit, MainGone, LauncherExits, Launcher, Task, unitVars, taskVars, history, CheckDown
<1>5. CASE ReadConf
  BY <1>5, BoundsAssumption
     DEF LifeTypes, UnitOK, FilesOK, FileSet, Stopped, Idle, NoReg, Serving, Live, StartUnit, StopUnit, MainGone, LauncherExits, Launcher, Task, unitVars, taskVars, history, ReadConf
<1>6. CASE TakeDevices
  BY <1>6, BoundsAssumption
     DEF LifeTypes, UnitOK, FilesOK, FileSet, Stopped, Idle, NoReg, Serving, Live, StartUnit, StopUnit, MainGone, LauncherExits, Launcher, Task, unitVars, taskVars, history, TakeDevices
<1>7. CASE PrepareChroot
  BY <1>7, BoundsAssumption
     DEF LifeTypes, UnitOK, FilesOK, FileSet, Stopped, Idle, NoReg, Serving, Live, StartUnit, StopUnit, MainGone, LauncherExits, Launcher, Task, unitVars, taskVars, history, PrepareChroot
<1>8. CASE PrepareLibs
  BY <1>8, BoundsAssumption
     DEF LifeTypes, UnitOK, FilesOK, FileSet, Stopped, Idle, NoReg, Serving, Live, StartUnit, StopUnit, MainGone, LauncherExits, Launcher, Task, unitVars, taskVars, history, PrepareLibs
<1>9. CASE Register
  BY <1>9, BoundsAssumption
     DEF LifeTypes, UnitOK, FilesOK, FileSet, Stopped, Idle, NoReg, Serving, Live, StartUnit, StopUnit, MainGone, LauncherExits, Launcher, Task, unitVars, taskVars, history, Register
<1>10. CASE Exec
  BY <1>10, BoundsAssumption
     DEF LifeTypes, UnitOK, FilesOK, FileSet, Stopped, Idle, NoReg, Serving, Live, StartUnit, StopUnit, MainGone, LauncherExits, Launcher, Task, unitVars, taskVars, history, Exec
<1>11. CASE Listen
  BY <1>11, BoundsAssumption
     DEF LifeTypes, UnitOK, FilesOK, FileSet, Stopped, Idle, NoReg, Serving, Live, StartUnit, StopUnit, MainGone, LauncherExits, Launcher, Task, unitVars, taskVars, history, Listen
<1>12. CASE QemuExits
  BY <1>12, BoundsAssumption
     DEF LifeTypes, UnitOK, FilesOK, FileSet, Stopped, Idle, NoReg, Serving, Live, StartUnit, StopUnit, MainGone, LauncherExits, Launcher, Task, unitVars, taskVars, history, QemuExits
<1>13. CASE StopCommand
  BY <1>13, BoundsAssumption
     DEF LifeTypes, UnitOK, FilesOK, FileSet, Stopped, Idle, NoReg, Serving, Live, StartUnit, StopUnit, MainGone, LauncherExits, Launcher, Task, unitVars, taskVars, history, StopCommand
<1>14. CASE Cleanup
  BY <1>14, BoundsAssumption
     DEF LifeTypes, UnitOK, FilesOK, FileSet, Stopped, Idle, NoReg, Serving, Live, StartUnit, StopUnit, MainGone, LauncherExits, Launcher, Task, unitVars, taskVars, history, Cleanup
<1>15. CASE WaitForQemuSystem
  BY <1>15, BoundsAssumption
     DEF LifeTypes, UnitOK, FilesOK, FileSet, Stopped, Idle, NoReg, Serving, Live, StartUnit, StopUnit, MainGone, LauncherExits, Launcher, Task, unitVars, taskVars, history, WaitForQemuSystem
<1>16. CASE NewMonitor
  BY <1>16, BoundsAssumption
     DEF LifeTypes, UnitOK, FilesOK, FileSet, Stopped, Idle, NoReg, Serving, Live, StartUnit, StopUnit, MainGone, LauncherExits, Launcher, Task, unitVars, taskVars, history, NewMonitor
<1>17. CASE RegistrationEnds
  BY <1>17, BoundsAssumption
     DEF LifeTypes, UnitOK, FilesOK, FileSet, Stopped, Idle, NoReg, Serving, Live, StartUnit, StopUnit, MainGone, LauncherExits, Launcher, Task, unitVars, taskVars, history, RegistrationEnds
<1>18. CASE TerminationBegins
  BY <1>18, BoundsAssumption
     DEF LifeTypes, UnitOK, FilesOK, FileSet, Stopped, Idle, NoReg, Serving, Live, StartUnit, StopUnit, MainGone, LauncherExits, Launcher, Task, unitVars, taskVars, history, TerminationBegins
<1>19. CASE PowerdownFails
  BY <1>19, BoundsAssumption
     DEF LifeTypes, UnitOK, FilesOK, FileSet, Stopped, Idle, NoReg, Serving, Live, StartUnit, StopUnit, MainGone, LauncherExits, Launcher, Task, unitVars, taskVars, history, PowerdownFails
<1>20. CASE TimedOut
  BY <1>20, BoundsAssumption
     DEF LifeTypes, UnitOK, FilesOK, FileSet, Stopped, Idle, NoReg, Serving, Live, StartUnit, StopUnit, MainGone, LauncherExits, Launcher, Task, unitVars, taskVars, history, TimedOut
<1>21. CASE MonitorReConnect
  BY <1>21, BoundsAssumption
     DEF LifeTypes, UnitOK, FilesOK, FileSet, Stopped, Idle, NoReg, Serving, Live, StartUnit, StopUnit, MainGone, LauncherExits, Launcher, Task, unitVars, taskVars, history, MonitorReConnect
<1>22. CASE Serve
  BY <1>22, BoundsAssumption
     DEF LifeTypes, UnitOK, FilesOK, FileSet, Stopped, Idle, NoReg, Serving, Live, StartUnit, StopUnit, MainGone, LauncherExits, Launcher, Task, unitVars, taskVars, history, Serve
<1>23. CASE \E op \in AllOps : Request(op)
  BY <1>23, BoundsAssumption
     DEF LifeTypes, UnitOK, FilesOK, FileSet, Stopped, Idle, NoReg, Serving, Live, StartUnit, StopUnit, MainGone, LauncherExits, Launcher, Task, unitVars, taskVars, history, Request, AllOps
<1>24. CASE FileStep
  BY <1>24, BoundsAssumption
     DEF LifeTypes, UnitOK, FilesOK, FileSet, Stopped, Idle, NoReg, Serving, Live, StartUnit, StopUnit, MainGone, LauncherExits, Launcher, Task, unitVars, taskVars, history, FileStep, Removed, Doing
<1>25. CASE UnitStep
  BY <1>25, BoundsAssumption
     DEF LifeTypes, UnitOK, FilesOK, FileSet, Stopped, Idle, NoReg, Serving, Live, StartUnit, StopUnit, MainGone, LauncherExits, Launcher, Task, unitVars, taskVars, history, UnitStep, Doing
<1>26. CASE Tested
  BY <1>26, BoundsAssumption
     DEF LifeTypes, UnitOK, FilesOK, FileSet, Stopped, Idle, NoReg, Serving, Live, StartUnit, StopUnit, MainGone, LauncherExits, Launcher, Task, unitVars, taskVars, history, Tested, Doing, Done
<1>27. CASE Waited
  BY <1>27, BoundsAssumption
     DEF LifeTypes, UnitOK, FilesOK, FileSet, Stopped, Idle, NoReg, Serving, Live, StartUnit, StopUnit, MainGone, LauncherExits, Launcher, Task, unitVars, taskVars, history, Waited, Doing, Done
<1>28. CASE WaitFails
  BY <1>28, BoundsAssumption
     DEF LifeTypes, UnitOK, FilesOK, FileSet, Stopped, Idle, NoReg, Serving, Live, StartUnit, StopUnit, MainGone, LauncherExits, Launcher, Task, unitVars, taskVars, history, WaitFails, Doing, Done
<1>29. CASE CreateStep
  <2>1. files \in FileSet
    BY DEF LifeTypes, FilesOK
  <2>2. \/ files' \in {[files EXCEPT !.dir = TRUE, !.user = TRUE], files, Removed(files)} \cup Remainder([files EXCEPT !.dir = TRUE])
        \/ \E kept \in BOOLEAN, f \in {Removed(files)} \cup Remainder(files) : files' = [f EXCEPT !.user = kept]
    BY <1>29 DEF CreateStep
  <2>3. \A f \in {Removed(files)} \cup Remainder(files) \cup Remainder([files EXCEPT !.dir = TRUE]) : f \in FileSet
    BY <2>1, Removals
  <2>4. ASSUME NEW f \in FileSet, NEW kept \in BOOLEAN PROVE [f EXCEPT !.user = kept] \in FileSet
    BY DEF FileSet
  <2>5. [files EXCEPT !.dir = TRUE, !.user = TRUE] \in FileSet
    BY <2>1 DEF FileSet
  <2> QED
    BY <2>1, <2>2, <2>3, <2>4, <2>5 DEF FilesOK
<1>30. CASE Answer
  BY <1>30, BoundsAssumption
     DEF LifeTypes, UnitOK, FilesOK, FileSet, Stopped, Idle, NoReg, Serving, Live, StartUnit, StopUnit, MainGone, LauncherExits, Launcher, Task, unitVars, taskVars, history, Answer
<1>31. CASE DaemonCrashes
  BY <1>31, BoundsAssumption
     DEF LifeTypes, UnitOK, FilesOK, FileSet, Stopped, Idle, NoReg, Serving, Live, StartUnit, StopUnit, MainGone, LauncherExits, Launcher, Task, unitVars, taskVars, history, DaemonCrashes, DaemonGone
<1>32. CASE HostCrashes
  BY <1>32, BoundsAssumption
     DEF LifeTypes, UnitOK, FilesOK, FileSet, Stopped, Idle, NoReg, Serving, Live, StartUnit, StopUnit, MainGone, LauncherExits, Launcher, Task, unitVars, taskVars, history, HostCrashes, DaemonGone
<1>33. CASE UNCHANGED vars
  BY <1>33, BoundsAssumption
     DEF LifeTypes, UnitOK, FilesOK, FileSet, Stopped, Idle, NoReg, Serving, Live, StartUnit, StopUnit, MainGone, LauncherExits, Launcher, Task, unitVars, taskVars, history, vars
<1>34. CASE StepFails
  BY <1>34
     DEF LifeTypes, UnitOK, FilesOK, FileSet, Stopped, Idle, unitVars, taskVars, history, StepFails, Remainder
<1>35. CASE RemovalFails
  BY <1>35
     DEF LifeTypes, UnitOK, FilesOK, FileSet, Stopped, Idle, unitVars, taskVars, history, RemovalFails, Remainder
<1> QED
  BY <1>1, <1>2, <1>3, <1>4, <1>5, <1>6, <1>7, <1>8, <1>9, <1>10, <1>11, <1>12, <1>13, <1>14, <1>15, <1>16, <1>17, <1>18, <1>19, <1>20, <1>21, <1>22, <1>23, <1>24, <1>25, <1>26, <1>27, <1>28, <1>29, <1>30, <1>31, <1>32, <1>33, <1>34, <1>35
     DEF Next, AllOps

\* The unit and its process keep their types.
LEMMA UnitOKKept ==
    ASSUME LifeTypes, [Next]_vars
    PROVE  UnitOK'
<1>1. CASE Terminate
  BY <1>1, BoundsAssumption
     DEF LifeTypes, UnitOK, Stopped, Idle, NoReg, Serving, Live, StartUnit, StopUnit, MainGone, LauncherExits, Launcher, Task, unitVars, taskVars, history, Terminate
<1>2. CASE Operator
  BY <1>2, UnitOps DEF LifeTypes, LauncherExits, Operator
<1>3. CASE QueuedStart
  <2>1. sock = FALSE /\ inst + 1 \in 0..MaxInst /\ UNCHANGED sock
    BY <1>3, BoundsAssumption DEF QueuedStart, LifeTypes, UnitOK
  <2> QED
    BY <1>3, <2>1 DEF QueuedStart, LifeTypes, UnitOK, Stopped
<1>4. CASE CheckDown
  BY <1>4, UnitOps DEF LifeTypes, LauncherExits, CheckDown
<1>5. CASE ReadConf
  BY <1>5, UnitOps DEF LifeTypes, LauncherExits, ReadConf
<1>6. CASE TakeDevices
  BY <1>6, UnitOps DEF LifeTypes, LauncherExits, TakeDevices
<1>7. CASE PrepareChroot
  BY <1>7, UnitOps DEF LifeTypes, LauncherExits, PrepareChroot
<1>8. CASE PrepareLibs
  BY <1>8, UnitOps DEF LifeTypes, LauncherExits, PrepareLibs
<1>9. CASE Register
  BY <1>9, UnitOps DEF LifeTypes, LauncherExits, Register
<1>10. CASE Exec
  BY <1>10, UnitOps DEF LifeTypes, LauncherExits, Exec
<1>11. CASE Listen
  BY <1>11, BoundsAssumption
     DEF LifeTypes, UnitOK, Stopped, Idle, NoReg, Serving, Live, StartUnit, StopUnit, MainGone, LauncherExits, Launcher, Task, unitVars, taskVars, history, Listen
<1>12. CASE QemuExits
  BY <1>12, BoundsAssumption
     DEF LifeTypes, UnitOK, Stopped, Idle, NoReg, Serving, Live, StartUnit, StopUnit, MainGone, LauncherExits, Launcher, Task, unitVars, taskVars, history, QemuExits
<1>13. CASE StopCommand
  BY <1>13, BoundsAssumption
     DEF LifeTypes, UnitOK, Stopped, Idle, NoReg, Serving, Live, StartUnit, StopUnit, MainGone, LauncherExits, Launcher, Task, unitVars, taskVars, history, StopCommand
<1>14. CASE Cleanup
  BY <1>14, BoundsAssumption
     DEF LifeTypes, UnitOK, Stopped, Idle, NoReg, Serving, Live, StartUnit, StopUnit, MainGone, LauncherExits, Launcher, Task, unitVars, taskVars, history, Cleanup
<1>15. CASE WaitForQemuSystem
  BY <1>15, BoundsAssumption
     DEF LifeTypes, UnitOK, Stopped, Idle, NoReg, Serving, Live, StartUnit, StopUnit, MainGone, LauncherExits, Launcher, Task, unitVars, taskVars, history, WaitForQemuSystem
<1>16. CASE NewMonitor
  BY <1>16, BoundsAssumption
     DEF LifeTypes, UnitOK, Stopped, Idle, NoReg, Serving, Live, StartUnit, StopUnit, MainGone, LauncherExits, Launcher, Task, unitVars, taskVars, history, NewMonitor
<1>17. CASE RegistrationEnds
  BY <1>17, BoundsAssumption
     DEF LifeTypes, UnitOK, Stopped, Idle, NoReg, Serving, Live, StartUnit, StopUnit, MainGone, LauncherExits, Launcher, Task, unitVars, taskVars, history, RegistrationEnds
<1>18. CASE TerminationBegins
  BY <1>18, BoundsAssumption
     DEF LifeTypes, UnitOK, Stopped, Idle, NoReg, Serving, Live, StartUnit, StopUnit, MainGone, LauncherExits, Launcher, Task, unitVars, taskVars, history, TerminationBegins
<1>19. CASE PowerdownFails
  BY <1>19, BoundsAssumption
     DEF LifeTypes, UnitOK, Stopped, Idle, NoReg, Serving, Live, StartUnit, StopUnit, MainGone, LauncherExits, Launcher, Task, unitVars, taskVars, history, PowerdownFails
<1>20. CASE TimedOut
  BY <1>20, BoundsAssumption
     DEF LifeTypes, UnitOK, Stopped, Idle, NoReg, Serving, Live, StartUnit, StopUnit, MainGone, LauncherExits, Launcher, Task, unitVars, taskVars, history, TimedOut
<1>21. CASE MonitorReConnect
  BY <1>21, BoundsAssumption
     DEF LifeTypes, UnitOK, Stopped, Idle, NoReg, Serving, Live, StartUnit, StopUnit, MainGone, LauncherExits, Launcher, Task, unitVars, taskVars, history, MonitorReConnect
<1>22. CASE Serve
  BY <1>22, BoundsAssumption
     DEF LifeTypes, UnitOK, Stopped, Idle, NoReg, Serving, Live, StartUnit, StopUnit, MainGone, LauncherExits, Launcher, Task, unitVars, taskVars, history, Serve
<1>23. CASE \E op \in AllOps : Request(op)
  BY <1>23, BoundsAssumption
     DEF LifeTypes, UnitOK, Stopped, Idle, NoReg, Serving, Live, StartUnit, StopUnit, MainGone, LauncherExits, Launcher, Task, unitVars, taskVars, history, Request, AllOps
<1>24. CASE FileStep
  BY <1>24, BoundsAssumption
     DEF LifeTypes, UnitOK, Stopped, Idle, NoReg, Serving, Live, StartUnit, StopUnit, MainGone, LauncherExits, Launcher, Task, unitVars, taskVars, history, FileStep, Removed, Doing
<1>25. CASE UnitStep
  <2>1. \/ StartUnit \/ StopUnit("none") \/ StopUnit("start") \/ MainGone \/ UNCHANGED unitVars
    BY <1>25 DEF UnitStep
  <2> QED
    BY <2>1, UnitOps DEF LifeTypes
<1>26. CASE Tested
  BY <1>26, BoundsAssumption
     DEF LifeTypes, UnitOK, Stopped, Idle, NoReg, Serving, Live, StartUnit, StopUnit, MainGone, LauncherExits, Launcher, Task, unitVars, taskVars, history, Tested, Doing, Done
<1>27. CASE Waited
  BY <1>27, BoundsAssumption
     DEF LifeTypes, UnitOK, Stopped, Idle, NoReg, Serving, Live, StartUnit, StopUnit, MainGone, LauncherExits, Launcher, Task, unitVars, taskVars, history, Waited, Doing, Done
<1>28. CASE WaitFails
  BY <1>28, BoundsAssumption
     DEF LifeTypes, UnitOK, Stopped, Idle, NoReg, Serving, Live, StartUnit, StopUnit, MainGone, LauncherExits, Launcher, Task, unitVars, taskVars, history, WaitFails, Doing, Done
<1>29. CASE CreateStep
  BY <1>29, BoundsAssumption
     DEF LifeTypes, UnitOK, Stopped, Idle, NoReg, Serving, Live, StartUnit, StopUnit, MainGone, LauncherExits, Launcher, Task, unitVars, taskVars, history, CreateStep, Removed, Remainder, Doing
<1>30. CASE Answer
  BY <1>30, BoundsAssumption
     DEF LifeTypes, UnitOK, Stopped, Idle, NoReg, Serving, Live, StartUnit, StopUnit, MainGone, LauncherExits, Launcher, Task, unitVars, taskVars, history, Answer
<1>31. CASE DaemonCrashes
  BY <1>31, BoundsAssumption
     DEF LifeTypes, UnitOK, Stopped, Idle, NoReg, Serving, Live, StartUnit, StopUnit, MainGone, LauncherExits, Launcher, Task, unitVars, taskVars, history, DaemonCrashes, DaemonGone
<1>32. CASE HostCrashes
  BY <1>32, BoundsAssumption
     DEF LifeTypes, UnitOK, Stopped, Idle, NoReg, Serving, Live, StartUnit, StopUnit, MainGone, LauncherExits, Launcher, Task, unitVars, taskVars, history, HostCrashes, DaemonGone
<1>33. CASE UNCHANGED vars
  BY <1>33, BoundsAssumption
     DEF LifeTypes, UnitOK, Stopped, Idle, NoReg, Serving, Live, StartUnit, StopUnit, MainGone, LauncherExits, Launcher, Task, unitVars, taskVars, history, vars
<1>34. CASE StepFails
  BY <1>34
     DEF LifeTypes, UnitOK, Stopped, Idle, unitVars, taskVars, history, StepFails, Remainder
<1>35. CASE RemovalFails
  BY <1>35
     DEF LifeTypes, UnitOK, Stopped, Idle, unitVars, taskVars, history, RemovalFails, Remainder
<1> QED
  BY <1>1, <1>2, <1>3, <1>4, <1>5, <1>6, <1>7, <1>8, <1>9, <1>10, <1>11, <1>12, <1>13, <1>14, <1>15, <1>16, <1>17, <1>18, <1>19, <1>20, <1>21, <1>22, <1>23, <1>24, <1>25, <1>26, <1>27, <1>28, <1>29, <1>30, <1>31, <1>32, <1>33, <1>34, <1>35
     DEF Next, AllOps

\* The pool and the tasks keep their types.
LEMMA TasksOKKept ==
    ASSUME LifeTypes, [Next]_vars
    PROVE  TasksOK'
<1>1. CASE Terminate
  BY <1>1, BoundsAssumption
     DEF LifeTypes, UnitOK, TasksOK, Stopped, Idle, NoReg, Serving, Live, StartUnit, StopUnit, MainGone, LauncherExits, Launcher, Task, unitVars, taskVars, history, Terminate
<1>2. CASE Operator
  BY <1>2, BoundsAssumption
     DEF LifeTypes, UnitOK, TasksOK, Stopped, Idle, NoReg, Serving, Live, StartUnit, StopUnit, MainGone, LauncherExits, Launcher, Task, unitVars, taskVars, history, Operator
<1>3. CASE QueuedStart
  BY <1>3, BoundsAssumption
     DEF LifeTypes, UnitOK, TasksOK, Stopped, Idle, NoReg, Serving, Live, StartUnit, StopUnit, MainGone, LauncherExits, Launcher, Task, unitVars, taskVars, history, QueuedStart
<1>4. CASE CheckDown
  BY <1>4, BoundsAssumption
     DEF LifeTypes, UnitOK, TasksOK, Stopped, Idle, NoReg, Serving, Live, StartUnit, StopUnit, MainGone, LauncherExits, Launcher, Task, unitVars, taskVars, history, CheckDown
<1>5. CASE ReadConf
  BY <1>5, BoundsAssumption
     DEF LifeTypes, UnitOK, TasksOK, Stopped, Idle, NoReg, Serving, Live, StartUnit, StopUnit, MainGone, LauncherExits, Launcher, Task, unitVars, taskVars, history, ReadConf
<1>6. CASE TakeDevices
  BY <1>6, BoundsAssumption
     DEF LifeTypes, UnitOK, TasksOK, Stopped, Idle, NoReg, Serving, Live, StartUnit, StopUnit, MainGone, LauncherExits, Launcher, Task, unitVars, taskVars, history, TakeDevices
<1>7. CASE PrepareChroot
  BY <1>7, BoundsAssumption
     DEF LifeTypes, UnitOK, TasksOK, Stopped, Idle, NoReg, Serving, Live, StartUnit, StopUnit, MainGone, LauncherExits, Launcher, Task, unitVars, taskVars, history, PrepareChroot
<1>8. CASE PrepareLibs
  BY <1>8, BoundsAssumption
     DEF LifeTypes, UnitOK, TasksOK, Stopped, Idle, NoReg, Serving, Live, StartUnit, StopUnit, MainGone, LauncherExits, Launcher, Task, unitVars, taskVars, history, PrepareLibs
<1>9. CASE Register
  BY <1>9, BoundsAssumption
     DEF LifeTypes, UnitOK, TasksOK, Stopped, Idle, NoReg, Serving, Live, StartUnit, StopUnit, MainGone, LauncherExits, Launcher, Task, unitVars, taskVars, history, Register
<1>10. CASE Exec
  BY <1>10, BoundsAssumption
     DEF LifeTypes, UnitOK, TasksOK, Stopped, Idle, NoReg, Serving, Live, StartUnit, StopUnit, MainGone, LauncherExits, Launcher, Task, unitVars, taskVars, history, Exec
<1>11. CASE Listen
  BY <1>11, BoundsAssumption
     DEF LifeTypes, UnitOK, TasksOK, Stopped, Idle, NoReg, Serving, Live, StartUnit, StopUnit, MainGone, LauncherExits, Launcher, Task, unitVars, taskVars, history, Listen
<1>12. CASE QemuExits
  BY <1>12, BoundsAssumption
     DEF LifeTypes, UnitOK, TasksOK, Stopped, Idle, NoReg, Serving, Live, StartUnit, StopUnit, MainGone, LauncherExits, Launcher, Task, unitVars, taskVars, history, QemuExits
<1>13. CASE StopCommand
  BY <1>13, BoundsAssumption
     DEF LifeTypes, UnitOK, TasksOK, Stopped, Idle, NoReg, Serving, Live, StartUnit, StopUnit, MainGone, LauncherExits, Launcher, Task, unitVars, taskVars, history, StopCommand
<1>14. CASE Cleanup
  BY <1>14, BoundsAssumption
     DEF LifeTypes, UnitOK, TasksOK, Stopped, Idle, NoReg, Serving, Live, StartUnit, StopUnit, MainGone, LauncherExits, Launcher, Task, unitVars, taskVars, history, Cleanup
<1>15. CASE WaitForQemuSystem
  BY <1>15, BoundsAssumption
     DEF LifeTypes, UnitOK, TasksOK, Stopped, Idle, NoReg, Serving, Live, StartUnit, StopUnit, MainGone, LauncherExits, Launcher, Task, unitVars, taskVars, history, WaitForQemuSystem
<1>16. CASE NewMonitor
  BY <1>16, BoundsAssumption
     DEF LifeTypes, UnitOK, TasksOK, Stopped, Idle, NoReg, Serving, Live, StartUnit, StopUnit, MainGone, LauncherExits, Launcher, Task, unitVars, taskVars, history, NewMonitor
<1>17. CASE RegistrationEnds
  BY <1>17, BoundsAssumption
     DEF LifeTypes, UnitOK, TasksOK, Stopped, Idle, NoReg, Serving, Live, StartUnit, StopUnit, MainGone, LauncherExits, Launcher, Task, unitVars, taskVars, history, RegistrationEnds
<1>18. CASE TerminationBegins
  BY <1>18, BoundsAssumption
     DEF LifeTypes, UnitOK, TasksOK, Stopped, Idle, NoReg, Serving, Live, StartUnit, StopUnit, MainGone, LauncherExits, Launcher, Task, unitVars, taskVars, history, TerminationBegins
<1>19. CASE PowerdownFails
  BY <1>19, BoundsAssumption
     DEF LifeTypes, UnitOK, TasksOK, Stopped, Idle, NoReg, Serving, Live, StartUnit, StopUnit, MainGone, LauncherExits, Launcher, Task, unitVars, taskVars, history, PowerdownFails
<1>20. CASE TimedOut
  BY <1>20, BoundsAssumption
     DEF LifeTypes, UnitOK, TasksOK, Stopped, Idle, NoReg, Serving, Live, StartUnit, StopUnit, MainGone, LauncherExits, Launcher, Task, unitVars, taskVars, history, TimedOut
<1>21. CASE MonitorReConnect
  BY <1>21, BoundsAssumption
     DEF LifeTypes, UnitOK, TasksOK, Stopped, Idle, NoReg, Serving, Live, StartUnit, StopUnit, MainGone, LauncherExits, Launcher, Task, unitVars, taskVars, history, MonitorReConnect
<1>22. CASE Serve
  BY <1>22, BoundsAssumption
     DEF LifeTypes, UnitOK, TasksOK, Stopped, Idle, NoReg, Serving, Live, StartUnit, StopUnit, MainGone, LauncherExits, Launcher, Task, unitVars, taskVars, history, Serve
<1>23. CASE \E op \in AllOps : Request(op)
  BY <1>23, BoundsAssumption
     DEF LifeTypes, UnitOK, TasksOK, Stopped, Idle, NoReg, Serving, Live, StartUnit, StopUnit, MainGone, LauncherExits, Launcher, Task, unitVars, taskVars, history, Request, AllOps
<1>24. CASE FileStep
  BY <1>24, BoundsAssumption
     DEF LifeTypes, UnitOK, TasksOK, Stopped, Idle, NoReg, Serving, Live, StartUnit, StopUnit, MainGone, LauncherExits, Launcher, Task, unitVars, taskVars, history, FileStep, Removed, Doing
<1>25. CASE UnitStep
  BY <1>25, BoundsAssumption
     DEF LifeTypes, UnitOK, TasksOK, Stopped, Idle, NoReg, Serving, Live, StartUnit, StopUnit, MainGone, LauncherExits, Launcher, Task, unitVars, taskVars, history, UnitStep, Doing
<1>26. CASE Tested
  BY <1>26, BoundsAssumption
     DEF LifeTypes, UnitOK, TasksOK, Stopped, Idle, NoReg, Serving, Live, StartUnit, StopUnit, MainGone, LauncherExits, Launcher, Task, unitVars, taskVars, history, Tested, Doing, Done
<1>27. CASE Waited
  BY <1>27, BoundsAssumption
     DEF LifeTypes, UnitOK, TasksOK, Stopped, Idle, NoReg, Serving, Live, StartUnit, StopUnit, MainGone, LauncherExits, Launcher, Task, unitVars, taskVars, history, Waited, Doing, Done
<1>28. CASE WaitFails
  BY <1>28, BoundsAssumption
     DEF LifeTypes, UnitOK, TasksOK, Stopped, Idle, NoReg, Serving, Live, StartUnit, StopUnit, MainGone, LauncherExits, Launcher, Task, unitVars, taskVars, history, WaitFails, Doing, Done
<1>29. CASE CreateStep
  BY <1>29, BoundsAssumption
     DEF LifeTypes, UnitOK, TasksOK, Stopped, Idle, NoReg, Serving, Live, StartUnit, StopUnit, MainGone, LauncherExits, Launcher, Task, unitVars, taskVars, history, CreateStep, Removed, Remainder, Doing
<1>30. CASE Answer
  BY <1>30, BoundsAssumption
     DEF LifeTypes, UnitOK, TasksOK, Stopped, Idle, NoReg, Serving, Live, StartUnit, StopUnit, MainGone, LauncherExits, Launcher, Task, unitVars, taskVars, history, Answer
<1>31. CASE DaemonCrashes
  BY <1>31, BoundsAssumption
     DEF LifeTypes, UnitOK, TasksOK, Stopped, Idle, NoReg, Serving, Live, StartUnit, StopUnit, MainGone, LauncherExits, Launcher, Task, unitVars, taskVars, history, DaemonCrashes, DaemonGone
<1>32. CASE HostCrashes
  BY <1>32, BoundsAssumption
     DEF LifeTypes, UnitOK, TasksOK, Stopped, Idle, NoReg, Serving, Live, StartUnit, StopUnit, MainGone, LauncherExits, Launcher, Task, unitVars, taskVars, history, HostCrashes, DaemonGone
<1>33. CASE UNCHANGED vars
  BY <1>33, BoundsAssumption
     DEF LifeTypes, UnitOK, TasksOK, Stopped, Idle, NoReg, Serving, Live, StartUnit, StopUnit, MainGone, LauncherExits, Launcher, Task, unitVars, taskVars, history, vars
<1>34. CASE StepFails
  BY <1>34
     DEF LifeTypes, UnitOK, TasksOK, Stopped, Idle, unitVars, taskVars, history, StepFails, Remainder
<1>35. CASE RemovalFails
  BY <1>35
     DEF LifeTypes, UnitOK, TasksOK, Stopped, Idle, unitVars, taskVars, history, RemovalFails, Remainder
<1> QED
  BY <1>1, <1>2, <1>3, <1>4, <1>5, <1>6, <1>7, <1>8, <1>9, <1>10, <1>11, <1>12, <1>13, <1>14, <1>15, <1>16, <1>17, <1>18, <1>19, <1>20, <1>21, <1>22, <1>23, <1>24, <1>25, <1>26, <1>27, <1>28, <1>29, <1>30, <1>31, <1>32, <1>33, <1>34, <1>35
     DEF Next, AllOps

\* The history keeps its types.
LEMMA HistoryOKKept ==
    ASSUME LifeTypes, [Next]_vars
    PROVE  HistoryOK'
<1>1. CASE Terminate
  BY <1>1, BoundsAssumption
     DEF LifeTypes, UnitOK, HistoryOK, Stopped, Idle, NoReg, Serving, Live, StartUnit, StopUnit, MainGone, LauncherExits, Launcher, Task, unitVars, taskVars, history, Terminate
<1>2. CASE Operator
  BY <1>2, BoundsAssumption
     DEF LifeTypes, UnitOK, HistoryOK, Stopped, Idle, NoReg, Serving, Live, StartUnit, StopUnit, MainGone, LauncherExits, Launcher, Task, unitVars, taskVars, history, Operator
<1>3. CASE QueuedStart
  BY <1>3, BoundsAssumption
     DEF LifeTypes, UnitOK, HistoryOK, Stopped, Idle, NoReg, Serving, Live, StartUnit, StopUnit, MainGone, LauncherExits, Launcher, Task, unitVars, taskVars, history, QueuedStart
<1>4. CASE CheckDown
  BY <1>4, BoundsAssumption
     DEF LifeTypes, UnitOK, HistoryOK, Stopped, Idle, NoReg, Serving, Live, StartUnit, StopUnit, MainGone, LauncherExits, Launcher, Task, unitVars, taskVars, history, CheckDown
<1>5. CASE ReadConf
  BY <1>5, BoundsAssumption
     DEF LifeTypes, UnitOK, HistoryOK, Stopped, Idle, NoReg, Serving, Live, StartUnit, StopUnit, MainGone, LauncherExits, Launcher, Task, unitVars, taskVars, history, ReadConf
<1>6. CASE TakeDevices
  BY <1>6, BoundsAssumption
     DEF LifeTypes, UnitOK, HistoryOK, Stopped, Idle, NoReg, Serving, Live, StartUnit, StopUnit, MainGone, LauncherExits, Launcher, Task, unitVars, taskVars, history, TakeDevices
<1>7. CASE PrepareChroot
  BY <1>7, BoundsAssumption
     DEF LifeTypes, UnitOK, HistoryOK, Stopped, Idle, NoReg, Serving, Live, StartUnit, StopUnit, MainGone, LauncherExits, Launcher, Task, unitVars, taskVars, history, PrepareChroot
<1>8. CASE PrepareLibs
  BY <1>8, BoundsAssumption
     DEF LifeTypes, UnitOK, HistoryOK, Stopped, Idle, NoReg, Serving, Live, StartUnit, StopUnit, MainGone, LauncherExits, Launcher, Task, unitVars, taskVars, history, PrepareLibs
<1>9. CASE Register
  BY <1>9, BoundsAssumption
     DEF LifeTypes, UnitOK, HistoryOK, Stopped, Idle, NoReg, Serving, Live, StartUnit, StopUnit, MainGone, LauncherExits, Launcher, Task, unitVars, taskVars, history, Register
<1>10. CASE Exec
  BY <1>10, BoundsAssumption
     DEF LifeTypes, UnitOK, HistoryOK, Stopped, Idle, NoReg, Serving, Live, StartUnit, StopUnit, MainGone, LauncherExits, Launcher, Task, unitVars, taskVars, history, Exec
<1>11. CASE Listen
  BY <1>11, BoundsAssumption
     DEF LifeTypes, UnitOK, HistoryOK, Stopped, Idle, NoReg, Serving, Live, StartUnit, StopUnit, MainGone, LauncherExits, Launcher, Task, unitVars, taskVars, history, Listen
<1>12. CASE QemuExits
  BY <1>12, BoundsAssumption
     DEF LifeTypes, UnitOK, HistoryOK, Stopped, Idle, NoReg, Serving, Live, StartUnit, StopUnit, MainGone, LauncherExits, Launcher, Task, unitVars, taskVars, history, QemuExits
<1>13. CASE StopCommand
  BY <1>13, BoundsAssumption
     DEF LifeTypes, UnitOK, HistoryOK, Stopped, Idle, NoReg, Serving, Live, StartUnit, StopUnit, MainGone, LauncherExits, Launcher, Task, unitVars, taskVars, history, StopCommand
<1>14. CASE Cleanup
  BY <1>14, BoundsAssumption
     DEF LifeTypes, UnitOK, HistoryOK, Stopped, Idle, NoReg, Serving, Live, StartUnit, StopUnit, MainGone, LauncherExits, Launcher, Task, unitVars, taskVars, history, Cleanup
<1>15. CASE WaitForQemuSystem
  BY <1>15, BoundsAssumption
     DEF LifeTypes, UnitOK, HistoryOK, Stopped, Idle, NoReg, Serving, Live, StartUnit, StopUnit, MainGone, LauncherExits, Launcher, Task, unitVars, taskVars, history, WaitForQemuSystem
<1>16. CASE NewMonitor
  BY <1>16, BoundsAssumption
     DEF LifeTypes, UnitOK, HistoryOK, Stopped, Idle, NoReg, Serving, Live, StartUnit, StopUnit, MainGone, LauncherExits, Launcher, Task, unitVars, taskVars, history, NewMonitor
<1>17. CASE RegistrationEnds
  BY <1>17, BoundsAssumption
     DEF LifeTypes, UnitOK, HistoryOK, Stopped, Idle, NoReg, Serving, Live, StartUnit, StopUnit, MainGone, LauncherExits, Launcher, Task, unitVars, taskVars, history, RegistrationEnds
<1>18. CASE TerminationBegins
  BY <1>18, BoundsAssumption
     DEF LifeTypes, UnitOK, HistoryOK, Stopped, Idle, NoReg, Serving, Live, StartUnit, StopUnit, MainGone, LauncherExits, Launcher, Task, unitVars, taskVars, history, TerminationBegins
<1>19. CASE PowerdownFails
  BY <1>19, BoundsAssumption
     DEF LifeTypes, UnitOK, HistoryOK, Stopped, Idle, NoReg, Serving, Live, StartUnit, StopUnit, MainGone, LauncherExits, Launcher, Task, unitVars, taskVars, history, PowerdownFails
<1>20. CASE TimedOut
  BY <1>20, BoundsAssumption
     DEF LifeTypes, UnitOK, HistoryOK, Stopped, Idle, NoReg, Serving, Live, StartUnit, StopUnit, MainGone, LauncherExits, Launcher, Task, unitVars, taskVars, history, TimedOut
<1>21. CASE MonitorReConnect
  BY <1>21, BoundsAssumption
     DEF LifeTypes, UnitOK, HistoryOK, Stopped, Idle, NoReg, Serving, Live, StartUnit, StopUnit, MainGone, LauncherExits, Launcher, Task, unitVars, taskVars, history, MonitorReConnect
<1>22. CASE Serve
  BY <1>22, BoundsAssumption
     DEF LifeTypes, UnitOK, HistoryOK, Stopped, Idle, NoReg, Serving, Live, StartUnit, StopUnit, MainGone, LauncherExits, Launcher, Task, unitVars, taskVars, history, Serve
<1>23. CASE \E op \in AllOps : Request(op)
  BY <1>23, BoundsAssumption
     DEF LifeTypes, UnitOK, HistoryOK, Stopped, Idle, NoReg, Serving, Live, StartUnit, StopUnit, MainGone, LauncherExits, Launcher, Task, unitVars, taskVars, history, Request, AllOps
<1>24. CASE FileStep
  BY <1>24, BoundsAssumption
     DEF LifeTypes, UnitOK, HistoryOK, Stopped, Idle, NoReg, Serving, Live, StartUnit, StopUnit, MainGone, LauncherExits, Launcher, Task, unitVars, taskVars, history, FileStep, Removed, Doing
<1>25. CASE UnitStep
  BY <1>25, BoundsAssumption
     DEF LifeTypes, UnitOK, HistoryOK, Stopped, Idle, NoReg, Serving, Live, StartUnit, StopUnit, MainGone, LauncherExits, Launcher, Task, unitVars, taskVars, history, UnitStep, Doing
<1>26. CASE Tested
  BY <1>26, BoundsAssumption
     DEF LifeTypes, UnitOK, HistoryOK, Stopped, Idle, NoReg, Serving, Live, StartUnit, StopUnit, MainGone, LauncherExits, Launcher, Task, unitVars, taskVars, history, Tested, Doing, Done
<1>27. CASE Waited
  BY <1>27, BoundsAssumption
     DEF LifeTypes, UnitOK, HistoryOK, Stopped, Idle, NoReg, Serving, Live, StartUnit, StopUnit, MainGone, LauncherExits, Launcher, Task, unitVars, taskVars, history, Waited, Doing, Done
<1>28. CASE WaitFails
  BY <1>28, BoundsAssumption
     DEF LifeTypes, UnitOK, HistoryOK, Stopped, Idle, NoReg, Serving, Live, StartUnit, StopUnit, MainGone, LauncherExits, Launcher, Task, unitVars, taskVars, history, WaitFails, Doing, Done
<1>29. CASE CreateStep
  BY <1>29, BoundsAssumption
     DEF LifeTypes, UnitOK, HistoryOK, Stopped, Idle, NoReg, Serving, Live, StartUnit, StopUnit, MainGone, LauncherExits, Launcher, Task, unitVars, taskVars, history, CreateStep, Removed, Remainder, Doing
<1>30. CASE Answer
  BY <1>30, BoundsAssumption
     DEF LifeTypes, UnitOK, HistoryOK, Stopped, Idle, NoReg, Serving, Live, StartUnit, StopUnit, MainGone, LauncherExits, Launcher, Task, unitVars, taskVars, history, Answer
<1>31. CASE DaemonCrashes
  <2>1. crashes' = [crashes EXCEPT !.n = crashes.n + 1, !.cut = @ \/ Interrupted] /\ crashes.n < MaxCrashes
    BY <1>31 DEF DaemonCrashes
  <2>b. Interrupted \in BOOLEAN
    BY DEF Interrupted
  <2>a. crashes \in [n : 0..MaxCrashes, host : BOOLEAN, pulled : BOOLEAN, cut : BOOLEAN] /\ crashes.n + 1 \in 0..MaxCrashes
    BY <2>1, BoundsAssumption DEF LifeTypes, HistoryOK
  <2>2. crashes' \in [n : 0..MaxCrashes, host : BOOLEAN, pulled : BOOLEAN, cut : BOOLEAN]
    BY ONLY <2>1, <2>a, <2>b
  <2> QED
    BY <1>31, <2>2 DEF DaemonCrashes, LifeTypes, HistoryOK
<1>32. CASE HostCrashes
  <2>1. crashes' = [crashes EXCEPT !.n = crashes.n + 1, !.host = TRUE, !.cut = @ \/ Interrupted] /\ crashes.n < MaxCrashes
    BY <1>32 DEF HostCrashes
  <2>b. Interrupted \in BOOLEAN
    BY DEF Interrupted
  <2>a. crashes \in [n : 0..MaxCrashes, host : BOOLEAN, pulled : BOOLEAN, cut : BOOLEAN] /\ crashes.n + 1 \in 0..MaxCrashes
    BY <2>1, BoundsAssumption DEF LifeTypes, HistoryOK
  <2>2. crashes' \in [n : 0..MaxCrashes, host : BOOLEAN, pulled : BOOLEAN, cut : BOOLEAN]
    BY ONLY <2>1, <2>a, <2>b
  <2> QED
    BY <1>32, <2>2 DEF HostCrashes, LifeTypes, HistoryOK
<1>33. CASE UNCHANGED vars
  BY <1>33, BoundsAssumption
     DEF LifeTypes, UnitOK, HistoryOK, Stopped, Idle, NoReg, Serving, Live, StartUnit, StopUnit, MainGone, LauncherExits, Launcher, Task, unitVars, taskVars, history, vars
<1>34. CASE StepFails
  BY <1>34
     DEF LifeTypes, UnitOK, HistoryOK, Stopped, Idle, unitVars, taskVars, history, StepFails, Remainder
<1>35. CASE RemovalFails
  BY <1>35
     DEF LifeTypes, UnitOK, HistoryOK, Stopped, Idle, unitVars, taskVars, history, RemovalFails, Remainder
<1> QED
  BY <1>1, <1>2, <1>3, <1>4, <1>5, <1>6, <1>7, <1>8, <1>9, <1>10, <1>11, <1>12, <1>13, <1>14, <1>15, <1>16, <1>17, <1>18, <1>19, <1>20, <1>21, <1>22, <1>23, <1>24, <1>25, <1>26, <1>27, <1>28, <1>29, <1>30, <1>31, <1>32, <1>33, <1>34, <1>35
     DEF Next, AllOps

\* The steps ahead go on telling what the files are.
LEMMA FilesKept ==
    ASSUME LifeTypes, RequestInv, FilesInv, [Next]_vars
    PROVE  FilesInv'
<1>1. CASE Beside \/ UNCHANGED vars
  <2>1. /\ UNCHANGED <<req, wish, crashes>>
        /\ files'.dir = files.dir /\ files'.conf = files.conf /\ files'.user = files.user /\ files'.down = files.down
           /\ files'.enabled = files.enabled
    BY <1>1, BesideKeeps DEF vars, history
  <2> QED
    BY <2>1 DEF FilesInv
<1>2. CASE \E op \in AllOps : Request(op)
  <2>1. PICK op \in AllOps : Request(op)
    BY <1>2
  <2>2. req' = [op |-> op, rest |-> Program(op)] /\ UNCHANGED <<files, crashes>> /\ req = Idle /\ wish' = "none"
    BY <2>1 DEF Request
  <2>3. op # "Create" => files.conf /\ files.user
    BY <2>1 DEF Request
  <2>4. op = "Create" => ~files.conf
    BY <2>1 DEF Request, PowerOps
  <2>5. ~crashes.cut => (files.conf <=> files.user)
    BY <2>2 DEF FilesInv, Idle, Deletes
  <2>6. /\ op \in Deletes => {"rmuser", "rmconf", "disable"} \subseteq Ahead(Program(op))
        /\ op = "Create" => {"mkuser", "save", "enable"} \subseteq Ahead(Program(op))
    BY Programs
  <2> QED
    BY <2>2, <2>3, <2>4, <2>5, <2>6 DEF FilesInv, Deletes
<1>3. CASE FileStep
  <2>1. /\ req.op # "idle" /\ wish' = "none"
        /\ Done => req'.op = req.op /\ Ahead(req'.rest) = Ahead(req.rest) \ {Head(req.rest)}
        /\ Head(req.rest) \in Ahead(req.rest) /\ Head(req.rest) = req.rest[1]
        /\ Head(req.rest) \in {"rmuser", "rmconf"} => "disable" \notin Ahead(req.rest)
        /\ Head(req.rest) = "enable" => "save" \notin Ahead(req.rest)
    BY <1>3, StepTaken DEF InRequest
  <2>2. crashes'.cut = crashes.cut
    BY <1>3 DEF FileStep, LifeTypes, HistoryOK
  <2>3. CASE Doing("undown") \/ Doing("down")
    <3>1. /\ files'.dir = files.dir /\ files'.conf = files.conf /\ files'.user = files.user /\ files'.enabled = files.enabled
          /\ Done \/ (Doing("down") /\ req' = Idle)
      BY <1>3, <2>3 DEF FileStep, Failed, Doing, LifeTypes, FilesOK, FileSet
    <3> QED
      BY <2>1, <2>2, <2>3, <3>1 DEF Doing, FilesInv, RequestInv, StepsFit, Deletes, Idle
  <2>4. CASE Doing("save")
    <3>1. files'.dir = files.dir /\ files'.conf /\ files'.user = files.user /\ files'.enabled = files.enabled /\ Done
      BY <1>3, <2>4 DEF FileStep, Doing, LifeTypes, FilesOK, FileSet
    <3>2. req.op = "Create" /\ "mkuser" \notin Ahead(req.rest)
      BY <2>1, <2>4 DEF Doing, RequestInv, StepsFit
    <3> QED
      BY <2>1, <2>2, <2>4, <3>1, <3>2 DEF Doing, FilesInv, Deletes
  <2>5. CASE Doing("rmuser")
    <3>1. files'.dir = files.dir /\ files'.conf = files.conf /\ ~files'.user /\ files'.enabled = files.enabled /\ Done
      BY <1>3, <2>5 DEF FileStep, Doing, LifeTypes, FilesOK, FileSet
    <3>2. req.op \in Deletes
      BY <2>1, <2>5 DEF Doing, RequestInv, StepsFit
    <3> QED
      BY <2>1, <2>2, <2>5, <3>1, <3>2 DEF Doing, FilesInv, Deletes
  <2>6. CASE Doing("rmconf")
    <3>1. files' = Removed(files) /\ Done
      BY <1>3, <2>6 DEF FileStep, Doing
    <3>2. ~files'.dir /\ ~files'.conf /\ files'.user = files.user /\ files'.enabled = files.enabled
      BY <3>1, Removals DEF LifeTypes, FilesOK
    <3>3. req.op \in Deletes
      BY <2>1, <2>6 DEF Doing, RequestInv, StepsFit
    <3> QED
      BY <2>1, <2>2, <2>6, <3>1, <3>2, <3>3 DEF Doing, FilesInv, Deletes
  <2> QED
    BY <1>3, <2>3, <2>4, <2>5, <2>6 DEF FileStep
<1>4. CASE UnitStep
  <2>1. /\ req.op # "idle" /\ wish' = "none"
        /\ Done => req'.op = req.op /\ Ahead(req'.rest) = Ahead(req.rest) \ {Head(req.rest)}
        /\ Head(req.rest) \in Ahead(req.rest) /\ Head(req.rest) = req.rest[1]
        /\ Head(req.rest) \in {"rmuser", "rmconf"} => "disable" \notin Ahead(req.rest)
        /\ Head(req.rest) = "enable" => "save" \notin Ahead(req.rest)
    BY <1>4, StepTaken DEF InRequest
  <2>2. /\ UNCHANGED crashes
        /\ files'.dir = files.dir /\ files'.conf = files.conf /\ files'.user = files.user
    BY <1>4 DEF UnitStep, LifeTypes, FilesOK, FileSet
  <2>3. CASE Doing("enable")
    <3>1. req.op = "Create" /\ files'.enabled /\ (Done \/ req' = Idle)
      BY <1>4, <2>1, <2>3 DEF UnitStep, Failed, Doing, LifeTypes, FilesOK, FileSet, RequestInv, StepsFit
    <3>2. "save" \notin Ahead(req.rest) /\ "mkuser" \notin Ahead(req.rest)
      BY <2>1, <2>3, <3>1 DEF Doing, RequestInv, StepsFit
    <3> QED
      BY <2>1, <2>2, <2>3, <3>1, <3>2 DEF Doing, FilesInv, Deletes, Idle
  <2>4. CASE Doing("disable")
    <3>1. req.op \in Deletes /\ ~files'.enabled /\ (Done \/ req' = Idle)
      BY <1>4, <2>1, <2>4 DEF UnitStep, Failed, Doing, LifeTypes, FilesOK, FileSet, RequestInv, StepsFit
    <3>2. "rmuser" \in Ahead(req.rest) /\ "rmconf" \in Ahead(req.rest)
      BY <2>1, <2>4 DEF Doing, RequestInv, StepsFit
    <3> QED
      BY <2>1, <2>2, <2>4, <3>1, <3>2 DEF Doing, FilesInv, Deletes, Idle
  <2>5. CASE Head(req.rest) \in {"start", "stop", "restart", "kill", "term"}
    <3>1. files'.enabled = files.enabled
      BY <1>4, <2>5 DEF UnitStep, Doing
    <3>2. Done \/ (req' = Idle /\ req.op \notin Deletes \cup {"Create"})
      BY <1>4, <2>1, <2>5 DEF UnitStep, Failed, Ignored, Doing, RequestInv, StepsFit, Deletes
    <3> QED
      BY <2>1, <2>2, <2>5, <3>1, <3>2 DEF FilesInv, Deletes, Idle
  <2> QED
    BY <1>4, <2>3, <2>4, <2>5 DEF UnitStep, Doing
<1>12. CASE StepFails
  <2>1. /\ req.op # "idle" /\ wish' = "none"
        /\ Done => req'.op = req.op /\ Ahead(req'.rest) = Ahead(req.rest) \ {Head(req.rest)}
        /\ Head(req.rest) \in Ahead(req.rest) /\ Head(req.rest) = req.rest[1]
        /\ Head(req.rest) \in {"rmuser", "rmconf"} => "disable" \notin Ahead(req.rest)
        /\ Head(req.rest) = "enable" => "save" \notin Ahead(req.rest)
    BY <1>12, StepTaken DEF InRequest
  <2> QED
    BY <1>12, <2>1 DEF StepFails, Failed, Ignored, Doing, FilesInv, RequestInv, StepsFit, LifeTypes, FilesOK, FileSet, HistoryOK, Deletes, Idle, history
<1>13. CASE RemovalFails
  <2>1. /\ req.op # "idle" /\ wish' = "none"
        /\ Done => req'.op = req.op /\ Ahead(req'.rest) = Ahead(req.rest) \ {Head(req.rest)}
        /\ Head(req.rest) \in Ahead(req.rest) /\ Head(req.rest) = req.rest[1]
        /\ Head(req.rest) \in {"rmuser", "rmconf"} => "disable" \notin Ahead(req.rest)
        /\ Head(req.rest) = "enable" => "save" \notin Ahead(req.rest)
    BY <1>13, StepTaken DEF InRequest
  <2> QED
    BY <1>13, <2>1 DEF RemovalFails, Failed, Ignored, Remainder, Doing, FilesInv, RequestInv, StepsFit, LifeTypes, FilesOK, FileSet, HistoryOK, Deletes, Idle, history
<1>5. CASE Tested
  <2>1. /\ req.op # "idle" /\ wish' = "none"
        /\ Done => req'.op = req.op /\ Ahead(req'.rest) = Ahead(req.rest) \ {Head(req.rest)}
        /\ Head(req.rest) \in Ahead(req.rest) /\ Head(req.rest) = req.rest[1]
        /\ Head(req.rest) \in {"rmuser", "rmconf"} => "disable" \notin Ahead(req.rest)
        /\ Head(req.rest) = "enable" => "save" \notin Ahead(req.rest)
    BY <1>5, StepTaken DEF InRequest
  <2> QED
    BY <1>5, <2>1 DEF Tested, Doing, FilesInv, RequestInv, StepsFit, LifeTypes, FilesOK, FileSet, HistoryOK, Deletes, Idle, history
<1>6. CASE Waited
  <2>1. /\ req.op # "idle" /\ wish' = "none"
        /\ Done => req'.op = req.op /\ Ahead(req'.rest) = Ahead(req.rest) \ {Head(req.rest)}
        /\ Head(req.rest) \in Ahead(req.rest) /\ Head(req.rest) = req.rest[1]
        /\ Head(req.rest) \in {"rmuser", "rmconf"} => "disable" \notin Ahead(req.rest)
        /\ Head(req.rest) = "enable" => "save" \notin Ahead(req.rest)
    BY <1>6, StepTaken DEF InRequest
  <2> QED
    BY <1>6, <2>1 DEF Waited, Doing, FilesInv, RequestInv, StepsFit, LifeTypes, FilesOK, FileSet, HistoryOK, Deletes, Idle, history
<1>7. CASE WaitFails
  <2>1. /\ req.op # "idle" /\ wish' = "none"
        /\ Done => req'.op = req.op /\ Ahead(req'.rest) = Ahead(req.rest) \ {Head(req.rest)}
        /\ Head(req.rest) \in Ahead(req.rest) /\ Head(req.rest) = req.rest[1]
        /\ Head(req.rest) \in {"rmuser", "rmconf"} => "disable" \notin Ahead(req.rest)
        /\ Head(req.rest) = "enable" => "save" \notin Ahead(req.rest)
    BY <1>7, StepTaken DEF InRequest
  <2> QED
    BY <1>7, <2>1 DEF WaitFails, Doing, FilesInv, RequestInv, StepsFit, LifeTypes, FilesOK, FileSet, HistoryOK, Deletes, Idle, history
<1>8. CASE CreateStep
  <2>1. /\ req.op # "idle" /\ wish' = "none"
        /\ Done => req'.op = req.op /\ Ahead(req'.rest) = Ahead(req.rest) \ {Head(req.rest)}
        /\ Head(req.rest) \in Ahead(req.rest) /\ Head(req.rest) = req.rest[1]
        /\ Head(req.rest) \in {"rmuser", "rmconf"} => "disable" \notin Ahead(req.rest)
        /\ Head(req.rest) = "enable" => "save" \notin Ahead(req.rest)
    BY <1>8, StepTaken DEF InRequest
  <2>2. req.op = "Create" /\ ~files.conf
    BY <1>8, <2>1 DEF CreateStep, Doing, RequestInv, StepsFit, FilesInv
  <2>3. CASE Doing("mkuser") /\ Done /\ files' = [files EXCEPT !.dir = TRUE, !.user = TRUE] /\ UNCHANGED crashes
    <3>1. req'.op = "Create" /\ Ahead(req'.rest) = Ahead(req.rest) \ {"mkuser"} /\ "save" \in Ahead(req.rest)
      BY <2>1, <2>2, <2>3 DEF Doing, Done, RequestInv, StepsFit, Idle
    <3> QED
      BY <2>1, <2>2, <2>3, <3>1 DEF FilesInv, LifeTypes, FilesOK, FileSet, Deletes
  <2>4. CASE req' = Idle /\ ~files'.conf /\ (files'.user /\ ~crashes'.cut => files.user /\ ~crashes.cut /\ "mkuser" \in Ahead(req.rest))
    BY <2>1, <2>2, <2>4 DEF FilesInv, Idle, Deletes
  <2>5. CASE Doing("mkuser") /\ req' = Idle
    <3>1. UNCHANGED crashes
      BY <1>8, <2>1, <2>5 DEF CreateStep, Doing, Idle, Done
    <3>2. files' \in {files, Removed(files), [files EXCEPT !.dir = TRUE, !.user = TRUE]} \cup Remainder([files EXCEPT !.dir = TRUE])
      BY <1>8, <2>5 DEF CreateStep, Doing
    <3>3. Done => FALSE
      BY <2>1, <2>5 DEF Done, Idle
    <3>4. files' \in {files, Removed(files)} \cup Remainder([files EXCEPT !.dir = TRUE])
      BY <1>8, <2>5, <3>3 DEF CreateStep, Doing
    <3>5. ~files'.conf /\ files'.user = files.user
      BY <2>2, <3>4 DEF Removed, Remainder, LifeTypes, FilesOK, FileSet
    <3> QED
      BY <2>4, <2>5, <3>1, <3>5, <2>1 DEF Doing
  <2>6. CASE Doing("save")
    <3>1. PICK kept \in BOOLEAN :
             /\ req' = Idle /\ crashes' = [crashes EXCEPT !.cut = @ \/ kept]
             /\ files' \in {[f EXCEPT !.user = kept] : f \in {Removed(files)} \cup Remainder(files)}
      BY <1>8, <2>6 DEF CreateStep, Doing
    <3>2. ~files'.conf /\ (files'.user => kept)
      BY <2>2, <3>1 DEF Removed, Remainder, LifeTypes, FilesOK, FileSet
    <3>3. kept => crashes'.cut
      BY <3>1 DEF LifeTypes, HistoryOK
    <3> QED
      BY <2>4, <3>1, <3>2, <3>3
  <2> QED
    BY <1>8, <2>3, <2>5, <2>6 DEF CreateStep
<1>9. CASE Answer
  BY <1>9, NoStep, BoundsAssumption
     DEF FilesInv, RequestInv, StepsFit, LifeTypes, FilesOK, FileSet, HistoryOK, Deletes, Idle, StopsAndWaits, Answer
<1>10. CASE DaemonCrashes
  BY <1>10, NoStep, BoundsAssumption
     DEF FilesInv, RequestInv, StepsFit, LifeTypes, FilesOK, FileSet, HistoryOK, Deletes, Idle, StopsAndWaits, DaemonCrashes, DaemonGone, Interrupted
<1>11. CASE HostCrashes
  BY <1>11, NoStep, BoundsAssumption
     DEF FilesInv, RequestInv, StepsFit, LifeTypes, FilesOK, FileSet, HistoryOK, Deletes, Idle, StopsAndWaits, HostCrashes, DaemonGone, Interrupted
<1> QED
  BY <1>1, <1>2, <1>3, <1>4, <1>5, <1>6, <1>7, <1>8, <1>9, <1>10, <1>11, <1>12, <1>13
     DEF Next, Beside, AllOps

\* With the down file no launcher gets past its check.
LEMMA DownIsLookedFor ==
    ASSUME LifeTypes, Beside, files.down, main \in {"none", "check"}
    PROVE  main' \in {"none", "check"}
<1>1. CASE Terminate
  BY <1>1
     DEF LifeTypes, FilesOK, FileSet, UnitOK, Stopped, Idle, NoReg, Serving, Live, StartUnit, StopUnit, MainGone, LauncherExits, Launcher, Task, unitVars, taskVars, history, Terminate
<1>2. CASE Operator
  BY <1>2
     DEF LifeTypes, FilesOK, FileSet, UnitOK, Stopped, Idle, NoReg, Serving, Live, StartUnit, StopUnit, MainGone, LauncherExits, Launcher, Task, unitVars, taskVars, history, Operator
<1>3. CASE QueuedStart
  BY <1>3
     DEF LifeTypes, FilesOK, FileSet, UnitOK, Stopped, Idle, NoReg, Serving, Live, StartUnit, StopUnit, MainGone, LauncherExits, Launcher, Task, unitVars, taskVars, history, QueuedStart
<1>4. CASE CheckDown
  BY <1>4
     DEF LifeTypes, FilesOK, FileSet, UnitOK, Stopped, Idle, NoReg, Serving, Live, StartUnit, StopUnit, MainGone, LauncherExits, Launcher, Task, unitVars, taskVars, history, CheckDown
<1>5. CASE ReadConf
  BY <1>5
     DEF LifeTypes, FilesOK, FileSet, UnitOK, Stopped, Idle, NoReg, Serving, Live, StartUnit, StopUnit, MainGone, LauncherExits, Launcher, Task, unitVars, taskVars, history, ReadConf
<1>6. CASE TakeDevices
  BY <1>6
     DEF LifeTypes, FilesOK, FileSet, UnitOK, Stopped, Idle, NoReg, Serving, Live, StartUnit, StopUnit, MainGone, LauncherExits, Launcher, Task, unitVars, taskVars, history, TakeDevices
<1>7. CASE PrepareChroot
  BY <1>7
     DEF LifeTypes, FilesOK, FileSet, UnitOK, Stopped, Idle, NoReg, Serving, Live, StartUnit, StopUnit, MainGone, LauncherExits, Launcher, Task, unitVars, taskVars, history, PrepareChroot
<1>8. CASE PrepareLibs
  BY <1>8
     DEF LifeTypes, FilesOK, FileSet, UnitOK, Stopped, Idle, NoReg, Serving, Live, StartUnit, StopUnit, MainGone, LauncherExits, Launcher, Task, unitVars, taskVars, history, PrepareLibs
<1>9. CASE Register
  BY <1>9
     DEF LifeTypes, FilesOK, FileSet, UnitOK, Stopped, Idle, NoReg, Serving, Live, StartUnit, StopUnit, MainGone, LauncherExits, Launcher, Task, unitVars, taskVars, history, Register
<1>10. CASE Exec
  BY <1>10
     DEF LifeTypes, FilesOK, FileSet, UnitOK, Stopped, Idle, NoReg, Serving, Live, StartUnit, StopUnit, MainGone, LauncherExits, Launcher, Task, unitVars, taskVars, history, Exec
<1>11. CASE Listen
  BY <1>11
     DEF LifeTypes, FilesOK, FileSet, UnitOK, Stopped, Idle, NoReg, Serving, Live, StartUnit, StopUnit, MainGone, LauncherExits, Launcher, Task, unitVars, taskVars, history, Listen
<1>12. CASE QemuExits
  BY <1>12
     DEF LifeTypes, FilesOK, FileSet, UnitOK, Stopped, Idle, NoReg, Serving, Live, StartUnit, StopUnit, MainGone, LauncherExits, Launcher, Task, unitVars, taskVars, history, QemuExits
<1>13. CASE StopCommand
  BY <1>13
     DEF LifeTypes, FilesOK, FileSet, UnitOK, Stopped, Idle, NoReg, Serving, Live, StartUnit, StopUnit, MainGone, LauncherExits, Launcher, Task, unitVars, taskVars, history, StopCommand
<1>14. CASE Cleanup
  BY <1>14
     DEF LifeTypes, FilesOK, FileSet, UnitOK, Stopped, Idle, NoReg, Serving, Live, StartUnit, StopUnit, MainGone, LauncherExits, Launcher, Task, unitVars, taskVars, history, Cleanup
<1>15. CASE WaitForQemuSystem
  BY <1>15
     DEF LifeTypes, FilesOK, FileSet, UnitOK, Stopped, Idle, NoReg, Serving, Live, StartUnit, StopUnit, MainGone, LauncherExits, Launcher, Task, unitVars, taskVars, history, WaitForQemuSystem
<1>16. CASE NewMonitor
  BY <1>16
     DEF LifeTypes, FilesOK, FileSet, UnitOK, Stopped, Idle, NoReg, Serving, Live, StartUnit, StopUnit, MainGone, LauncherExits, Launcher, Task, unitVars, taskVars, history, NewMonitor
<1>17. CASE RegistrationEnds
  BY <1>17
     DEF LifeTypes, FilesOK, FileSet, UnitOK, Stopped, Idle, NoReg, Serving, Live, StartUnit, StopUnit, MainGone, LauncherExits, Launcher, Task, unitVars, taskVars, history, RegistrationEnds
<1>18. CASE TerminationBegins
  BY <1>18
     DEF LifeTypes, FilesOK, FileSet, UnitOK, Stopped, Idle, NoReg, Serving, Live, StartUnit, StopUnit, MainGone, LauncherExits, Launcher, Task, unitVars, taskVars, history, TerminationBegins
<1>19. CASE PowerdownFails
  BY <1>19
     DEF LifeTypes, FilesOK, FileSet, UnitOK, Stopped, Idle, NoReg, Serving, Live, StartUnit, StopUnit, MainGone, LauncherExits, Launcher, Task, unitVars, taskVars, history, PowerdownFails
<1>20. CASE TimedOut
  BY <1>20
     DEF LifeTypes, FilesOK, FileSet, UnitOK, Stopped, Idle, NoReg, Serving, Live, StartUnit, StopUnit, MainGone, LauncherExits, Launcher, Task, unitVars, taskVars, history, TimedOut
<1>21. CASE MonitorReConnect
  BY <1>21
     DEF LifeTypes, FilesOK, FileSet, UnitOK, Stopped, Idle, NoReg, Serving, Live, StartUnit, StopUnit, MainGone, LauncherExits, Launcher, Task, unitVars, taskVars, history, MonitorReConnect
<1>22. CASE Serve
  BY <1>22
     DEF LifeTypes, FilesOK, FileSet, UnitOK, Stopped, Idle, NoReg, Serving, Live, StartUnit, StopUnit, MainGone, LauncherExits, Launcher, Task, unitVars, taskVars, history, Serve
<1> QED
  BY <1>1, <1>2, <1>3, <1>4, <1>5, <1>6, <1>7, <1>8, <1>9, <1>10, <1>11, <1>12, <1>13, <1>14, <1>15, <1>16, <1>17, <1>18, <1>19, <1>20, <1>21, <1>22
     DEF Beside

\* A machine that was stopped stays so.
LEMMA StopKept ==
    ASSUME LifeTypes, RequestInv, StopInv, [Next]_vars
    PROVE  StopInv'
<1>1. CASE Beside \/ UNCHANGED vars
  <2>1. UNCHANGED <<req, wish>> /\ files'.down = files.down
    BY <1>1, BesideKeeps DEF vars, history
  <2>2. files.down /\ main \in {"none", "check"} => main' \in {"none", "check"}
    BY <1>1, DownIsLookedFor DEF vars, unitVars
  <2> QED
    BY <2>1, <2>2 DEF StopInv
<1>2. CASE \E op \in AllOps : Request(op)
  <2>1. PICK op \in AllOps : Request(op)
    BY <1>2
  <2>2. req' = [op |-> op, rest |-> Program(op)] /\ wish' = "none"
    BY <2>1 DEF Request
  <2>3. op \in StopsAndWaits => "down" \in Ahead(Program(op)) /\ "wait" \in Ahead(Program(op))
    BY Programs
  <2> QED
    BY <2>2, <2>3 DEF StopInv
<1>3. CASE FileStep
  <2>1. /\ req.op # "idle" /\ (req' = Idle \/ (req'.op = req.op /\ Ahead(req'.rest) = Ahead(req.rest) \ {Head(req.rest)}))
        /\ Head(req.rest) \in Ahead(req.rest) /\ Head(req.rest) = req.rest[1] /\ UNCHANGED wish
    BY <1>3, StepTaken DEF InRequest
  <2>2. wish # "stopped"
    BY <2>1 DEF RequestInv, Idle
  <2> QED
    BY <1>3, <2>1, <2>2 DEF FileStep, Removed, Failed, Doing, Done, StopInv, RequestInv, StepsFit, LifeTypes, FilesOK, FileSet, UnitOK, StopsAndWaits,
       Deletes, Idle, StartUnit, StopUnit, MainGone, unitVars
<1>4. CASE UnitStep
  <2>1. /\ req.op # "idle" /\ (req' = Idle \/ (req'.op = req.op /\ Ahead(req'.rest) = Ahead(req.rest) \ {Head(req.rest)}))
        /\ Head(req.rest) \in Ahead(req.rest) /\ Head(req.rest) = req.rest[1] /\ UNCHANGED wish
    BY <1>4, StepTaken DEF InRequest
  <2>2. wish # "stopped"
    BY <2>1 DEF RequestInv, Idle
  <2> QED
    BY <1>4, <2>1, <2>2 DEF UnitStep, Failed, Doing, Done, StopInv, RequestInv, StepsFit, LifeTypes, FilesOK, FileSet, UnitOK, StopsAndWaits,
       Deletes, Idle, StartUnit, StopUnit, MainGone, unitVars
<1>12. CASE StepFails
  <2>1. /\ req.op # "idle" /\ (req' = Idle \/ (req'.op = req.op /\ Ahead(req'.rest) = Ahead(req.rest) \ {Head(req.rest)}))
        /\ Head(req.rest) \in Ahead(req.rest) /\ Head(req.rest) = req.rest[1] /\ UNCHANGED wish
    BY <1>12, StepTaken DEF InRequest
  <2>2. wish # "stopped"
    BY <2>1 DEF RequestInv, Idle
  <2> QED
    BY <1>12, <2>1, <2>2 DEF StepFails, Failed, Ignored, Doing, Done, StopInv, RequestInv, StepsFit, LifeTypes, FilesOK, FileSet, UnitOK, StopsAndWaits,
       Deletes, Idle, StartUnit, StopUnit, MainGone, unitVars
<1>13. CASE RemovalFails
  <2>1. /\ req.op # "idle" /\ (req' = Idle \/ (req'.op = req.op /\ Ahead(req'.rest) = Ahead(req.rest) \ {Head(req.rest)}))
        /\ Head(req.rest) \in Ahead(req.rest) /\ Head(req.rest) = req.rest[1] /\ UNCHANGED wish
    BY <1>13, StepTaken DEF InRequest
  <2>2. wish # "stopped"
    BY <2>1 DEF RequestInv, Idle
  <2> QED
    BY <1>13, <2>1, <2>2 DEF RemovalFails, Failed, Ignored, Remainder, Doing, Done, StopInv, RequestInv, StepsFit, LifeTypes, FilesOK, FileSet, UnitOK, StopsAndWaits,
       Deletes, Idle, StartUnit, StopUnit, MainGone, unitVars
<1>5. CASE Tested
  <2>1. /\ req.op # "idle" /\ (req' = Idle \/ (req'.op = req.op /\ Ahead(req'.rest) = Ahead(req.rest) \ {Head(req.rest)}))
        /\ Head(req.rest) \in Ahead(req.rest) /\ Head(req.rest) = req.rest[1] /\ UNCHANGED wish
    BY <1>5, StepTaken DEF InRequest
  <2>2. wish # "stopped"
    BY <2>1 DEF RequestInv, Idle
  <2> QED
    BY <1>5, <2>1, <2>2 DEF Tested, Doing, Done, StopInv, RequestInv, StepsFit, LifeTypes, FilesOK, FileSet, UnitOK, StopsAndWaits,
       Deletes, Idle, StartUnit, StopUnit, MainGone, unitVars
<1>6. CASE Waited
  <2>1. /\ req.op # "idle" /\ (req' = Idle \/ (req'.op = req.op /\ Ahead(req'.rest) = Ahead(req.rest) \ {Head(req.rest)}))
        /\ Head(req.rest) \in Ahead(req.rest) /\ Head(req.rest) = req.rest[1] /\ UNCHANGED wish
    BY <1>6, StepTaken DEF InRequest
  <2>2. wish # "stopped"
    BY <2>1 DEF RequestInv, Idle
  <2> QED
    BY <1>6, <2>1, <2>2 DEF Waited, Doing, Done, StopInv, RequestInv, StepsFit, LifeTypes, FilesOK, FileSet, UnitOK, StopsAndWaits,
       Deletes, Idle, StartUnit, StopUnit, MainGone, unitVars
<1>7. CASE WaitFails
  <2>1. /\ req.op # "idle" /\ (req' = Idle \/ (req'.op = req.op /\ Ahead(req'.rest) = Ahead(req.rest) \ {Head(req.rest)}))
        /\ Head(req.rest) \in Ahead(req.rest) /\ Head(req.rest) = req.rest[1] /\ UNCHANGED wish
    BY <1>7, StepTaken DEF InRequest
  <2>2. wish # "stopped"
    BY <2>1 DEF RequestInv, Idle
  <2> QED
    BY <1>7, <2>1, <2>2 DEF WaitFails, Doing, Done, StopInv, RequestInv, StepsFit, LifeTypes, FilesOK, FileSet, UnitOK, StopsAndWaits,
       Deletes, Idle, StartUnit, StopUnit, MainGone, unitVars
<1>8. CASE CreateStep
  <2>1. /\ req.op # "idle" /\ (req' = Idle \/ (req'.op = req.op /\ Ahead(req'.rest) = Ahead(req.rest) \ {Head(req.rest)}))
        /\ Head(req.rest) \in Ahead(req.rest) /\ Head(req.rest) = req.rest[1] /\ UNCHANGED wish
    BY <1>8, StepTaken DEF InRequest
  <2>2. wish # "stopped"
    BY <2>1 DEF RequestInv, Idle
  <2> QED
    BY <1>8, <2>1, <2>2 DEF CreateStep, Removed, Remainder, Doing, Done, StopInv, RequestInv, StepsFit, LifeTypes, FilesOK, FileSet, UnitOK, StopsAndWaits,
       Deletes, Idle, StartUnit, StopUnit, MainGone, unitVars
<1>9. CASE Answer
  BY <1>9, NoStep
     DEF StopInv, RequestInv, LifeTypes, FilesOK, FileSet, UnitOK, StopsAndWaits, Idle, unitVars, Answer
<1>10. CASE DaemonCrashes
  BY <1>10, NoStep
     DEF StopInv, RequestInv, LifeTypes, FilesOK, FileSet, UnitOK, StopsAndWaits, Idle, unitVars, DaemonCrashes, DaemonGone
<1>11. CASE HostCrashes
  BY <1>11, NoStep
     DEF StopInv, RequestInv, LifeTypes, FilesOK, FileSet, UnitOK, StopsAndWaits, Idle, unitVars, HostCrashes, DaemonGone
<1> QED
  BY <1>1, <1>2, <1>3, <1>4, <1>5, <1>6, <1>7, <1>8, <1>9, <1>10, <1>11, <1>12, <1>13
     DEF Next, Beside, AllOps

\* What a process leaves is removed by the cleanup behind it.
LEMMA UnitKept ==
    ASSUME LifeTypes, RequestInv, FilesInv, UnitInv, [Next]_vars
    PROVE  UnitInv'
<1>1. CASE Terminate
  BY <1>1
     DEF UnitInv, LifeTypes, FilesOK, FileSet, UnitOK, TasksOK, HistoryOK, Stopped, Idle, NoReg, Serving, Live, StartUnit, StopUnit, MainGone, LauncherExits, Launcher, Task, unitVars, taskVars, history, FilesInv, Terminate
<1>2. CASE Operator
  BY <1>2
     DEF UnitInv, LifeTypes, FilesOK, FileSet, UnitOK, TasksOK, HistoryOK, Stopped, Idle, NoReg, Serving, Live, StartUnit, StopUnit, MainGone, LauncherExits, Launcher, Task, unitVars, taskVars, history, FilesInv, Operator
<1>3. CASE QueuedStart
  BY <1>3
     DEF UnitInv, LifeTypes, FilesOK, FileSet, UnitOK, TasksOK, HistoryOK, Stopped, Idle, NoReg, Serving, Live, StartUnit, StopUnit, MainGone, LauncherExits, Launcher, Task, unitVars, taskVars, history, FilesInv, QueuedStart
<1>4. CASE CheckDown
  BY <1>4
     DEF UnitInv, LifeTypes, FilesOK, FileSet, UnitOK, TasksOK, HistoryOK, Stopped, Idle, NoReg, Serving, Live, StartUnit, StopUnit, MainGone, LauncherExits, Launcher, Task, unitVars, taskVars, history, FilesInv, CheckDown
<1>5. CASE ReadConf
  BY <1>5
     DEF UnitInv, LifeTypes, FilesOK, FileSet, UnitOK, TasksOK, HistoryOK, Stopped, Idle, NoReg, Serving, Live, StartUnit, StopUnit, MainGone, LauncherExits, Launcher, Task, unitVars, taskVars, history, FilesInv, ReadConf
<1>6. CASE TakeDevices
  BY <1>6
     DEF UnitInv, LifeTypes, FilesOK, FileSet, UnitOK, TasksOK, HistoryOK, Stopped, Idle, NoReg, Serving, Live, StartUnit, StopUnit, MainGone, LauncherExits, Launcher, Task, unitVars, taskVars, history, FilesInv, TakeDevices
<1>7. CASE PrepareChroot
  BY <1>7
     DEF UnitInv, LifeTypes, FilesOK, FileSet, UnitOK, TasksOK, HistoryOK, Stopped, Idle, NoReg, Serving, Live, StartUnit, StopUnit, MainGone, LauncherExits, Launcher, Task, unitVars, taskVars, history, FilesInv, PrepareChroot
<1>8. CASE PrepareLibs
  BY <1>8
     DEF UnitInv, LifeTypes, FilesOK, FileSet, UnitOK, TasksOK, HistoryOK, Stopped, Idle, NoReg, Serving, Live, StartUnit, StopUnit, MainGone, LauncherExits, Launcher, Task, unitVars, taskVars, history, FilesInv, PrepareLibs
<1>9. CASE Register
  BY <1>9
     DEF UnitInv, LifeTypes, FilesOK, FileSet, UnitOK, TasksOK, HistoryOK, Stopped, Idle, NoReg, Serving, Live, StartUnit, StopUnit, MainGone, LauncherExits, Launcher, Task, unitVars, taskVars, history, FilesInv, Register
<1>10. CASE Exec
  BY <1>10
     DEF UnitInv, LifeTypes, FilesOK, FileSet, UnitOK, TasksOK, HistoryOK, Stopped, Idle, NoReg, Serving, Live, StartUnit, StopUnit, MainGone, LauncherExits, Launcher, Task, unitVars, taskVars, history, FilesInv, Exec
<1>11. CASE Listen
  BY <1>11
     DEF UnitInv, LifeTypes, FilesOK, FileSet, UnitOK, TasksOK, HistoryOK, Stopped, Idle, NoReg, Serving, Live, StartUnit, StopUnit, MainGone, LauncherExits, Launcher, Task, unitVars, taskVars, history, FilesInv, Listen
<1>12. CASE QemuExits
  BY <1>12
     DEF UnitInv, LifeTypes, FilesOK, FileSet, UnitOK, TasksOK, HistoryOK, Stopped, Idle, NoReg, Serving, Live, StartUnit, StopUnit, MainGone, LauncherExits, Launcher, Task, unitVars, taskVars, history, FilesInv, QemuExits
<1>13. CASE StopCommand
  BY <1>13
     DEF UnitInv, LifeTypes, FilesOK, FileSet, UnitOK, TasksOK, HistoryOK, Stopped, Idle, NoReg, Serving, Live, StartUnit, StopUnit, MainGone, LauncherExits, Launcher, Task, unitVars, taskVars, history, FilesInv, StopCommand
<1>14. CASE Cleanup
  BY <1>14
     DEF UnitInv, LifeTypes, FilesOK, FileSet, UnitOK, TasksOK, HistoryOK, Stopped, Idle, NoReg, Serving, Live, StartUnit, StopUnit, MainGone, LauncherExits, Launcher, Task, unitVars, taskVars, history, FilesInv, Cleanup
<1>15. CASE WaitForQemuSystem
  BY <1>15
     DEF UnitInv, LifeTypes, FilesOK, FileSet, UnitOK, TasksOK, HistoryOK, Stopped, Idle, NoReg, Serving, Live, StartUnit, StopUnit, MainGone, LauncherExits, Launcher, Task, unitVars, taskVars, history, FilesInv, WaitForQemuSystem
<1>16. CASE NewMonitor
  BY <1>16
     DEF UnitInv, LifeTypes, FilesOK, FileSet, UnitOK, TasksOK, HistoryOK, Stopped, Idle, NoReg, Serving, Live, StartUnit, StopUnit, MainGone, LauncherExits, Launcher, Task, unitVars, taskVars, history, FilesInv, NewMonitor
<1>17. CASE RegistrationEnds
  BY <1>17
     DEF UnitInv, LifeTypes, FilesOK, FileSet, UnitOK, TasksOK, HistoryOK, Stopped, Idle, NoReg, Serving, Live, StartUnit, StopUnit, MainGone, LauncherExits, Launcher, Task, unitVars, taskVars, history, FilesInv, RegistrationEnds
<1>18. CASE TerminationBegins
  BY <1>18
     DEF UnitInv, LifeTypes, FilesOK, FileSet, UnitOK, TasksOK, HistoryOK, Stopped, Idle, NoReg, Serving, Live, StartUnit, StopUnit, MainGone, LauncherExits, Launcher, Task, unitVars, taskVars, history, FilesInv, TerminationBegins
<1>19. CASE PowerdownFails
  BY <1>19
     DEF UnitInv, LifeTypes, FilesOK, FileSet, UnitOK, TasksOK, HistoryOK, Stopped, Idle, NoReg, Serving, Live, StartUnit, StopUnit, MainGone, LauncherExits, Launcher, Task, unitVars, taskVars, history, FilesInv, PowerdownFails
<1>20. CASE TimedOut
  BY <1>20
     DEF UnitInv, LifeTypes, FilesOK, FileSet, UnitOK, TasksOK, HistoryOK, Stopped, Idle, NoReg, Serving, Live, StartUnit, StopUnit, MainGone, LauncherExits, Launcher, Task, unitVars, taskVars, history, FilesInv, TimedOut
<1>21. CASE MonitorReConnect
  BY <1>21
     DEF UnitInv, LifeTypes, FilesOK, FileSet, UnitOK, TasksOK, HistoryOK, Stopped, Idle, NoReg, Serving, Live, StartUnit, StopUnit, MainGone, LauncherExits, Launcher, Task, unitVars, taskVars, history, FilesInv, MonitorReConnect
<1>22. CASE Serve
  BY <1>22
     DEF UnitInv, LifeTypes, FilesOK, FileSet, UnitOK, TasksOK, HistoryOK, Stopped, Idle, NoReg, Serving, Live, StartUnit, StopUnit, MainGone, LauncherExits, Launcher, Task, unitVars, taskVars, history, FilesInv, Serve
<1>23. CASE \E op \in AllOps : Request(op)
  BY <1>23
     DEF UnitInv, LifeTypes, FilesOK, FileSet, UnitOK, TasksOK, HistoryOK, Stopped, Idle, NoReg, Serving, Live, StartUnit, StopUnit, MainGone, LauncherExits, Launcher, Task, unitVars, taskVars, history, FilesInv, Request, AllOps
<1>24. CASE FileStep
  <2>1. Head(req.rest) \in Ahead(req.rest)
    BY <1>24, StepTaken DEF InRequest
  <2> QED
    BY <1>24, <2>1 DEF FileStep, Removed, Doing, RequestInv, StepsFit, FilesInv, UnitInv, LifeTypes, FilesOK, FileSet, UnitOK, TasksOK, HistoryOK, Stopped, Idle, NoReg, Serving, Live, StartUnit, StopUnit, MainGone, LauncherExits, Launcher, Task, unitVars, taskVars, history
<1>25. CASE UnitStep
  <2>1. Head(req.rest) \in Ahead(req.rest)
    BY <1>25, StepTaken DEF InRequest
  <2> QED
    BY <1>25, <2>1 DEF UnitStep, Doing, RequestInv, StepsFit, FilesInv, UnitInv, LifeTypes, FilesOK, FileSet, UnitOK, TasksOK, HistoryOK, Stopped, Idle, NoReg, Serving, Live, StartUnit, StopUnit, MainGone, LauncherExits, Launcher, Task, unitVars, taskVars, history
<1>26. CASE Tested
  <2>1. Head(req.rest) \in Ahead(req.rest)
    BY <1>26, StepTaken DEF InRequest
  <2> QED
    BY <1>26, <2>1 DEF Tested, Doing, RequestInv, StepsFit, FilesInv, UnitInv, LifeTypes, FilesOK, FileSet, UnitOK, TasksOK, HistoryOK, Stopped, Idle, NoReg, Serving, Live, StartUnit, StopUnit, MainGone, LauncherExits, Launcher, Task, unitVars, taskVars, history
<1>27. CASE Waited
  <2>1. Head(req.rest) \in Ahead(req.rest)
    BY <1>27, StepTaken DEF InRequest
  <2> QED
    BY <1>27, <2>1 DEF Waited, Doing, RequestInv, StepsFit, FilesInv, UnitInv, LifeTypes, FilesOK, FileSet, UnitOK, TasksOK, HistoryOK, Stopped, Idle, NoReg, Serving, Live, StartUnit, StopUnit, MainGone, LauncherExits, Launcher, Task, unitVars, taskVars, history
<1>28. CASE WaitFails
  <2>1. Head(req.rest) \in Ahead(req.rest)
    BY <1>28, StepTaken DEF InRequest
  <2> QED
    BY <1>28, <2>1 DEF WaitFails, Doing, RequestInv, StepsFit, FilesInv, UnitInv, LifeTypes, FilesOK, FileSet, UnitOK, TasksOK, HistoryOK, Stopped, Idle, NoReg, Serving, Live, StartUnit, StopUnit, MainGone, LauncherExits, Launcher, Task, unitVars, taskVars, history
<1>29. CASE CreateStep
  <2>1. Head(req.rest) \in Ahead(req.rest)
    BY <1>29, StepTaken DEF InRequest
  <2>2. req.op = "Create" /\ ~files.conf
    BY <1>29, <2>1 DEF CreateStep, Doing, RequestInv, StepsFit, FilesInv
  <2>3. files'.chroot = files.chroot
    <3>1. files \in FileSet
      BY DEF LifeTypes, FilesOK
    <3>2. \/ files' \in {[files EXCEPT !.dir = TRUE, !.user = TRUE], files, Removed(files)} \cup Remainder([files EXCEPT !.dir = TRUE])
          \/ \E kept \in BOOLEAN, f \in {Removed(files)} \cup Remainder(files) : files' = [f EXCEPT !.user = kept]
      BY <1>29 DEF CreateStep
    <3>3. /\ [files EXCEPT !.dir = TRUE] \in FileSet /\ [files EXCEPT !.dir = TRUE].chroot = files.chroot
          /\ [files EXCEPT !.dir = TRUE, !.user = TRUE].chroot = files.chroot
      BY <3>1 DEF FileSet
    <3>4. /\ Removed(files) \in FileSet /\ Removed(files).chroot = files.chroot
          /\ \A f \in Remainder(files) : f \in FileSet /\ f.chroot = files.chroot
      BY <3>1, Removals
    <3>6. \A f \in Remainder([files EXCEPT !.dir = TRUE]) : f.chroot = files.chroot
      <4>1. PICK h : h = [files EXCEPT !.dir = TRUE]
        OBVIOUS
      <4>2. h \in FileSet /\ h.chroot = files.chroot
        BY <3>3, <4>1
      <4>3. \A f \in Remainder(h) : f.chroot = h.chroot
        BY <4>2, Removals
      <4> QED
        BY <4>1, <4>2, <4>3
    <3>5. ASSUME NEW f \in FileSet, NEW kept \in BOOLEAN PROVE [f EXCEPT !.user = kept].chroot = f.chroot
      BY DEF FileSet
    <3>7. CASE \E kept \in BOOLEAN, f \in {Removed(files)} \cup Remainder(files) : files' = [f EXCEPT !.user = kept]
      <4>1. PICK kept \in BOOLEAN, f \in {Removed(files)} \cup Remainder(files) : files' = [f EXCEPT !.user = kept]
        BY <3>7
      <4>2. f \in FileSet /\ f.chroot = files.chroot
        BY <3>4, <4>1
      <4> QED
        BY <3>5, <4>1, <4>2
    <3>8. CASE files' \in {[files EXCEPT !.dir = TRUE, !.user = TRUE], files, Removed(files)} \cup Remainder([files EXCEPT !.dir = TRUE])
      <4>1. PICK h : h = Remainder([files EXCEPT !.dir = TRUE])
        OBVIOUS
      <4>2. \A f \in h : f.chroot = files.chroot
        BY <3>6, <4>1
      <4>3. files' = [files EXCEPT !.dir = TRUE, !.user = TRUE] \/ files' = files \/ files' = Removed(files) \/ files' \in h
        BY <3>8, <4>1
      <4> QED
        BY <3>3, <3>4, <4>2, <4>3
    <3> QED
      BY <3>2, <3>7, <3>8
  <2>4. crashes'.n = crashes.n /\ crashes'.host = crashes.host /\ crashes'.pulled = crashes.pulled
    BY <1>29 DEF CreateStep, LifeTypes, HistoryOK
  <2>5. UNCHANGED <<unit, main, mon, up>>
    BY <1>29 DEF CreateStep, unitVars, taskVars
  <2> QED
    BY <2>2, <2>3, <2>4, <2>5 DEF UnitInv, Serving
<1>30. CASE Answer
  BY <1>30
     DEF UnitInv, LifeTypes, FilesOK, FileSet, UnitOK, TasksOK, HistoryOK, Stopped, Idle, NoReg, Serving, Live, StartUnit, StopUnit, MainGone, LauncherExits, Launcher, Task, unitVars, taskVars, history, FilesInv, Answer
<1>31. CASE DaemonCrashes
  BY <1>31
     DEF UnitInv, LifeTypes, FilesOK, FileSet, UnitOK, TasksOK, HistoryOK, Stopped, Idle, NoReg, Serving, Live, StartUnit, StopUnit, MainGone, LauncherExits, Launcher, Task, unitVars, taskVars, history, FilesInv, DaemonCrashes, DaemonGone
<1>32. CASE HostCrashes
  BY <1>32
     DEF UnitInv, LifeTypes, FilesOK, FileSet, UnitOK, TasksOK, HistoryOK, Stopped, Idle, NoReg, Serving, Live, StartUnit, StopUnit, MainGone, LauncherExits, Launcher, Task, unitVars, taskVars, history, FilesInv, HostCrashes, DaemonGone
<1>33. CASE UNCHANGED vars
  BY <1>33
     DEF UnitInv, LifeTypes, FilesOK, FileSet, UnitOK, TasksOK, HistoryOK, Stopped, Idle, NoReg, Serving, Live, StartUnit, StopUnit, MainGone, LauncherExits, Launcher, Task, unitVars, taskVars, history, FilesInv, vars
<1>34. CASE StepFails
  <2>1. Head(req.rest) \in Ahead(req.rest)
    BY <1>34, StepTaken DEF InRequest
  <2> QED
    BY <1>34, <2>1 DEF StepFails, Doing, RequestInv, StepsFit, Remainder, FilesInv, UnitInv, LifeTypes, FilesOK, FileSet, UnitOK, TasksOK, HistoryOK, Stopped, Idle, Serving, unitVars, taskVars, history
<1>35. CASE RemovalFails
  <2>1. Head(req.rest) \in Ahead(req.rest)
    BY <1>35, StepTaken DEF InRequest
  <2> QED
    BY <1>35, <2>1 DEF RemovalFails, Doing, RequestInv, StepsFit, Remainder, FilesInv, UnitInv, LifeTypes, FilesOK, FileSet, UnitOK, TasksOK, HistoryOK, Stopped, Idle, Serving, unitVars, taskVars, history
<1> QED
  BY <1>1, <1>2, <1>3, <1>4, <1>5, <1>6, <1>7, <1>8, <1>9, <1>10, <1>11, <1>12, <1>13, <1>14, <1>15, <1>16, <1>17, <1>18, <1>19, <1>20, <1>21, <1>22, <1>23, <1>24, <1>25, <1>26, <1>27, <1>28, <1>29, <1>30, <1>31, <1>32, <1>33, <1>34, <1>35
     DEF Next, AllOps

\* The inductive invariant.
LifeInv == LifeTypes /\ RequestInv /\ FilesInv /\ StopInv /\ UnitInv

\* A machine that is there and does not run.
LEMMA LifeInit ==
    ASSUME Init
    PROVE  LifeInv
<1>1. /\ req.op = "idle" /\ req.rest = <<>> /\ wish = "none" /\ main = "none" /\ mon = 0
      /\ crashes.n = 0 /\ ~crashes.pulled /\ up = "serving" /\ unit = "inactive"
  BY DEF Init, Idle
<1>2. FilesOK /\ files.dir /\ files.conf /\ files.user /\ ~files.chroot
  <2>1. /\ files.dir = TRUE /\ files.conf = TRUE /\ files.user = TRUE /\ files.enabled = TRUE
        /\ files.down = FALSE /\ files.chroot = FALSE /\ files.startup = FALSE
        /\ files = [k \in {"dir", "conf", "user", "enabled", "down", "chroot", "startup"} |-> files[k]]
    BY DEF Init
  <2> QED
    BY <2>1 DEF FilesOK, FileSet
<1>3. UnitOK
  <2>1. sock = FALSE /\ inst = 0
    BY DEF Init
  <2>2. sock \in BOOLEAN
    BY <2>1, Zenon
  <2>3. inst \in 0..MaxInst
    BY <2>1, BoundsAssumption
  <2> QED
    BY <2>1, <2>2, <2>3 DEF Init, UnitOK, Stopped
<1>4. TasksOK
  BY BoundsAssumption DEF Init, TasksOK, NoReg
<1>5. HistoryOK
  <2>1. crashes = [n |-> 0, host |-> FALSE, pulled |-> FALSE, cut |-> FALSE] /\ 0 \in 0..MaxCrashes /\ grace = FALSE
    BY BoundsAssumption DEF Init
  <2>2. crashes \in [n : 0..MaxCrashes, host : BOOLEAN, pulled : BOOLEAN, cut : BOOLEAN] /\ grace \in BOOLEAN
    BY ONLY <2>1
  <2> QED
    BY <1>1, <2>2 DEF HistoryOK
<1>6. StepsFit("idle", <<>>)
  BY NoStep DEF StepsFit, StopsAndWaits
<1>7. RequestInv
  BY <1>1, <1>6, NoStep DEF Init, RequestInv, Idle
<1>8. FilesInv /\ StopInv /\ UnitInv
  BY <1>1, <1>2 DEF FilesInv, StopInv, UnitInv, Deletes, StopsAndWaits, Serving
<1> QED
  BY <1>2, <1>3, <1>4, <1>5, <1>7, <1>8 DEF LifeInv, LifeTypes

\* The invariant holds in every state.
LEMMA LifeInvHolds == Spec => []LifeInv
<1>1. ASSUME LifeInv, [Next]_vars PROVE LifeInv'
  BY <1>1, FilesOKKept, UnitOKKept, TasksOKKept, HistoryOKKept, RequestKept, FilesKept, StopKept, UnitKept
     DEF LifeInv, LifeTypes
<1> QED
  BY <1>1, LifeInit, PTL DEF Spec

\* The types hold, and the pool never knows a process that was not started.
THEOREM LifecycleTypes == Spec => []TypeOK
<1>1. LifeInv => TypeOK
  BY DEF LifeInv, LifeTypes, FilesOK, FileSet, UnitOK, TasksOK, HistoryOK, TypeOK
<1> QED
  BY <1>1, LifeInvHolds, PTL

\* A machine whose stop was answered does not run again by itself: no start that
\* was queued or under way, no reboot and no operator gets past the down file
\* (Stop with wait, and the check of the launcher).
THEOREM StopIsKept == Spec => []StoppedStaysStopped
<1>1. LifeInv => StoppedStaysStopped
  BY DEF LifeInv, StopInv, StoppedStaysStopped
<1> QED
  BY <1>1, LifeInvHolds, PTL

\* Once the unit has stopped neither its chroot nor its monitor is left, whatever
\* was under way (launcher cleanup, QemuInstanceDeregister).
THEOREM StopLeavesNothing == Spec => []NothingLeft
<1>1. LifeInv => NothingLeft
  <2> SUFFICES ASSUME LifeInv PROVE NothingLeft
    OBVIOUS
  <2>1. files.chroot \in BOOLEAN /\ crashes.host \in BOOLEAN
    BY DEF LifeInv, LifeTypes, FilesOK, FileSet, HistoryOK
  <2> QED
    BY <2>1 DEF LifeInv, UnitInv, NothingLeft
<1> QED
  BY <1>1, LifeInvHolds, PTL

\* An answered Create lasts, an answered Delete leaves nothing that starts, and
\* whichever step of either fails, a machine is whole or gone, unless a removal
\* failed or a crash cut one short (Create and its deferred functions, Delete).
THEOREM MachineIsWholeOrGone == Spec => []WholeOrGone
<1>1. LifeInv => WholeOrGone
  BY DEF LifeInv, FilesInv, WholeOrGone, Idle, Deletes
<1> QED
  BY <1>1, LifeInvHolds, PTL
=============================================================================
