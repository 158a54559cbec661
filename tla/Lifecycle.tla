----------------------------- MODULE Lifecycle -----------------------------
(***************************************************************************)
(* The life of one virtual machine on a host: its files, its systemd unit  *)
(* with the launcher (start, stop, cleanup), the QEMU process, and kvmrund *)
(* with its pool of monitors and the tasks of registration, termination    *)
(* and deregistration; with crashes of kvmrund and of the host.            *)
(*                                                                         *)
(* systemd is external.  The unit is of type simple: it is active from the *)
(* fork of the launcher on, which later turns into QEMU.  When the main    *)
(* process ends or the unit is stopped, systemd runs "launcher stop", then *)
(* sends SIGTERM to what is left, then runs "launcher cleanup".  All of    *)
(* them have the machine's directory as working directory and fail without *)
(* it.                                                                     *)
(***************************************************************************)
EXTENDS Naturals, Sequences

CONSTANTS
    MaxInst,      \* bound: main processes started
    MaxCrashes    \* bound: crashes of kvmrund and of the host

ASSUME BoundsAssumption == MaxInst \in Nat /\ MaxCrashes \in Nat

VARIABLES
    files,     \* what is on disk: directory, config, user, unit link, down file, chroot
    unit,      \* state of the unit kvmrun@vm.service
    job,       \* a start that waits for the end of a stop
    main,      \* the main process of the unit: where the launcher is, or QEMU
    inst,      \* the number of the last main process
    sock,      \* QEMU listens at its QMP socket
    up,        \* kvmrund: down, starting (it does not answer yet) or serving
    mon,       \* the instance whose monitor is in the pool, 0 if none
    reg,       \* the registration task and the process it was started for
    term,      \* the termination task
    req,       \* the request of the API being served: the steps left of it
    wish,      \* history: what the last answered request promised
    grace,     \* history: the guest has been asked to power down by itself
    crashes    \* history: crashes so far, was the host one of them; was the directory
               \* removed under a unit that had not stopped; was a creation or a
               \* deletion cut short by a crash or by a removal that failed

unitVars == <<unit, job, main, inst, sock>>
taskVars == <<mon, reg, term>>
history  == <<wish, grace, crashes>>
vars     == <<files, unitVars, up, taskVars, req, history>>

Stopped == {"inactive", "failed"}
Idle    == [op |-> "idle", rest |-> <<>>]
NoReg   == [stage |-> "none", inst |-> 0]

Serving  == up = "serving"
Live(k)  == main = "qemu" /\ sock /\ inst = k

Init ==
    /\ files   = [dir |-> TRUE, conf |-> TRUE, user |-> TRUE, enabled |-> TRUE,
                  down |-> FALSE, chroot |-> FALSE, startup |-> FALSE]
    /\ unit    = "inactive" /\ job = "none" /\ main = "none" /\ inst = 0 /\ sock = FALSE
    /\ up      = "serving" /\ mon = 0 /\ reg = NoReg /\ term = "none"
    /\ req     = Idle
    /\ wish    = "none" /\ grace = FALSE
    /\ crashes = [n |-> 0, host |-> FALSE, pulled |-> FALSE, cut |-> FALSE]

-----------------------------------------------------------------------------
(* systemd *)

\* A start of an active unit does nothing; during a stop it waits.
StartUnit ==
    IF unit \in Stopped
      THEN /\ inst < MaxInst
           /\ unit' = "active" /\ main' = "check" /\ inst' = inst + 1
           /\ UNCHANGED <<job, sock>>
      ELSE /\ job' = IF unit = "active" THEN "none" ELSE "start"
           /\ UNCHANGED <<unit, main, inst, sock>>

StopUnit(pending) ==
    /\ unit' = IF unit = "active" THEN "stop" ELSE unit
    /\ job'  = IF unit \in Stopped THEN job ELSE pending
    /\ UNCHANGED <<main, inst, sock>>

\* The process is gone.  An active unit goes through its stop commands.
MainGone ==
    /\ main' = "none" /\ sock' = FALSE
    /\ unit' = IF unit = "active" THEN "stop" ELSE unit
    /\ UNCHANGED <<job, inst>>

\* After the stop command what is left gets SIGTERM, or the cleanup begins.
Terminate ==
    /\ unit = "sigterm"
    /\ unit' = "post" /\ main' = "none" /\ sock' = FALSE /\ grace' = FALSE
    /\ UNCHANGED <<files, job, inst, up, taskVars, req, wish, crashes>>

\* The units that are enabled are started with the host, and by an operator.
Operator ==
    /\ files.enabled /\ unit \in Stopped
    /\ StartUnit
    /\ UNCHANGED <<files, up, taskVars, req, history>>

-----------------------------------------------------------------------------
(* launcher start *)

LauncherExits ==
    /\ MainGone
    /\ UNCHANGED <<files, up, taskVars, req, history>>

Launcher(from, to) ==
    /\ main = from /\ main' = to
    /\ UNCHANGED <<unit, job, inst, sock, up, mon, term, req, history>>

\* With a bug: the down file is not looked for.
CheckNothing ==
    /\ Launcher("check", "read")
    /\ UNCHANGED <<files, reg>>

\* A machine that is marked as disabled is not started.
CheckDown ==
    \/ /\ main = "check" /\ (files.down \/ ~files.dir)
       /\ LauncherExits
    \/ /\ files.dir /\ ~files.down
       /\ Launcher("check", "read")
       /\ UNCHANGED <<files, reg>>

\* The stored configuration, the command line, and the settings that kvmrund has.
\* (A start from an incoming configuration is part of IncomingMigration.)
ReadConf ==
    \/ /\ files.user /\ files.conf /\ Serving
       /\ Launcher("read", "devices")
       /\ UNCHANGED <<files, reg>>
    \/ /\ main = "read"
       /\ LauncherExits

\* The PCI devices are taken from the host, or are in use.
TakeDevices ==
    \/ Launcher("devices", "chroot") /\ UNCHANGED <<files, reg>>
    \/ main = "devices" /\ LauncherExits

\* mknod refuses a node that is there: a chroot that was left behind is an error.
PrepareChroot ==
    \/ /\ ~files.chroot
       /\ Launcher("chroot", "libs")
       /\ files' = [files EXCEPT !.chroot = TRUE]
       /\ UNCHANGED reg
    \/ /\ main = "chroot"
       /\ files' = [files EXCEPT !.chroot = TRUE]
       /\ MainGone
       /\ UNCHANGED <<up, taskVars, req, history>>

\* Missing iSCSI libraries are not fatal; a cgroup that cannot be set is.
PrepareLibs ==
    \/ Launcher("libs", "register") /\ UNCHANGED <<files, reg>>
    \/ main = "libs" /\ LauncherExits

\* QemuInstanceRegister starts a task, unless one of an earlier process is
\* still there.
Register ==
    \/ /\ Serving /\ reg = NoReg
       /\ Launcher("register", "exec")
       /\ reg' = [stage |-> "waiting", inst |-> inst]
       /\ UNCHANGED files
    \/ main = "register" /\ LauncherExits

\* The startup configuration is written; the launcher becomes QEMU.
Exec ==
    \/ /\ files.chroot
       /\ Launcher("exec", "qemu")
       /\ files' = [files EXCEPT !.startup = TRUE]
       /\ UNCHANGED reg
    \/ main = "exec" /\ LauncherExits

Listen ==
    /\ main = "qemu" /\ ~sock
    /\ sock' = TRUE
    /\ UNCHANGED <<files, unit, job, main, inst, up, taskVars, req, history>>

\* The guest powers off or QEMU dies.
QemuExits ==
    /\ main = "qemu"
    /\ grace' = FALSE
    /\ MainGone
    /\ UNCHANGED <<files, up, taskVars, req, wish, crashes>>

-----------------------------------------------------------------------------
(* launcher stop, launcher cleanup *)

\* QemuInstanceStop starts a task and returns; an error is only printed.
StopCommand ==
    /\ unit = "stop"
    /\ unit' = IF main = "none" THEN "post" ELSE "sigterm"
    /\ \/ files.dir /\ Serving /\ term = "none" /\ term' = "begun"
       \/ (~files.dir \/ ~Serving \/ term # "none") /\ UNCHANGED term
    /\ grace' = (files.dir /\ Serving /\ mon # 0 /\ Live(mon))
    /\ UNCHANGED <<files, job, main, inst, sock, up, mon, reg, req, wish, crashes>>

\* With a bug: the monitor stays in the pool.
CleanupKeepsMonitor ==
    /\ unit = "post"
    /\ files' = [files EXCEPT !.chroot = FALSE, !.startup = FALSE]
    /\ unit' \in Stopped
    /\ UNCHANGED <<job, main, inst, sock, up, taskVars, req, history>>

\* Interfaces, chroot and sockets are removed; QemuInstanceDeregister closes the
\* monitor, if kvmrund answers; its error is only printed.
Cleanup ==
    /\ unit = "post"
    /\ files' = IF files.dir THEN [files EXCEPT !.chroot = FALSE, !.startup = FALSE]
                             ELSE files
    /\ mon'   = IF files.dir /\ Serving THEN 0 ELSE mon
    /\ unit' \in Stopped
    /\ UNCHANGED <<job, main, inst, sock, up, reg, term, req, history>>

QueuedStart ==
    /\ unit \in Stopped /\ job = "start" /\ inst < MaxInst
    /\ job' = "none"
    /\ unit' = "active" /\ main' = "check" /\ inst' = inst + 1
    /\ UNCHANGED <<files, sock, up, taskVars, req, history>>

-----------------------------------------------------------------------------
(* The tasks of kvmrund *)

Task == UNCHANGED <<files, unitVars, up, req, history>>

\* waitForQemuSystem: it looks at the process, not at the context.
WaitForQemuSystem ==
    /\ reg.stage = "waiting"
    /\ \/ /\ main = "qemu" /\ inst = reg.inst
          /\ reg' = [reg EXCEPT !.stage = "dialing"]
       \/ /\ main = "none" \/ inst # reg.inst
          /\ reg' = NoReg
    /\ UNCHANGED <<mon, term>>
    /\ Task

\* NewMonitor: whoever listens at the machine's socket is entered in the pool, also
\* while the powerdowns for the last process are still repeated: they then reach
\* the new one.
NewMonitor ==
    /\ reg.stage = "dialing"
    /\ \/ /\ sock
          /\ mon' = inst /\ reg' = [reg EXCEPT !.stage = "init"]
       \/ mon' = mon /\ reg' = NoReg
    /\ UNCHANGED term
    /\ Task

\* The balloon and the second stage of the network, or a cancel.
RegistrationEnds ==
    /\ reg.stage = "init"
    /\ reg' = NoReg
    /\ UNCHANGED <<mon, term>>
    /\ Task

\* The tasks of the group are cancelled and the guest is resumed.
TerminationBegins ==
    /\ term = "begun"
    /\ term' = IF mon # 0 /\ Live(mon) THEN "asked" ELSE "none"
    /\ reg'  = IF reg.stage = "init" THEN NoReg ELSE reg
    /\ UNCHANGED mon
    /\ Task

\* system_powerdown is repeated until the socket is closed.
PowerdownFails ==
    /\ term = "asked"
    /\ mon = 0 \/ ~Live(mon)
    /\ term' = "none"
    /\ UNCHANGED <<mon, reg>>
    /\ Task

\* The time is over: quit.
TimedOut ==
    /\ term = "asked"
    /\ term' = "none" /\ grace' = FALSE
    /\ IF mon # 0 /\ Live(mon) THEN MainGone ELSE UNCHANGED unitVars
    /\ UNCHANGED <<files, up, mon, reg, req, wish, crashes>>

-----------------------------------------------------------------------------
(* Requests: each is a task that blocks the machine, as a list of steps.   *)

DeleteProgram == <<"stop", "tryWait", "disable", "rmuser", "rmconf">>

Program(op) ==
    CASE op = "Start"       -> <<"undown", "start">>
      [] op = "StartWait"   -> <<"undown", "start", "test">>
      [] op = "Stop"        -> <<"down", "stop">>
      [] op = "StopWait"    -> <<"down", "stop", "wait">>
      [] op = "StopForce"   -> <<"down", "term", "stop", "wait">>
      [] op = "Restart"     -> <<"undown", "restart">>
      [] op = "RestartWait" -> <<"undown", "stop", "wait", "start">>
      [] op = "Reset"       -> <<"undown", "kill", "stop", "tryWait", "start">>
      [] op = "Delete"      -> DeleteProgram
      [] op = "DeleteForce" -> <<"kill">> \o DeleteProgram
      [] op = "Create"      -> <<"mkuser", "save", "enable">>

PowerOps == {"Start", "StartWait", "Stop", "StopWait", "StopForce", "Restart", "RestartWait", "Reset",
             "Delete", "DeleteForce"}

\* GetInstanceConf needs the file and the user; Create needs that there is none.
Request(op) ==
    /\ Serving /\ req = Idle
    /\ \/ op \in PowerOps /\ files.conf /\ files.user
       \/ op = "Create" /\ ~files.conf
    /\ req'  = [op |-> op, rest |-> Program(op)]
    /\ wish' = "none"
    /\ UNCHANGED <<files, unitVars, up, taskVars, grace, crashes>>

Doing(step) == req.rest # <<>> /\ Head(req.rest) = step
Done        == req' = [req EXCEPT !.rest = Tail(@)]

\* os.RemoveAll of the machine's directory: it is gone, or what could not be
\* removed is left.
Removed(f)   == [f EXCEPT !.dir = FALSE, !.conf = FALSE, !.down = FALSE, !.startup = FALSE]
Remainder(f) == {g \in [DOMAIN f -> BOOLEAN] :
                    /\ \A k \in {"conf", "down", "startup"} : g[k] => f[k]
                    /\ \A k \in DOMAIN f \ {"conf", "down", "startup"} : g[k] = f[k]}

\* The error of a step: some are ignored or logged, the others end the request.
Ignored == {"undown", "term", "kill", "rmuser"}
Failed ==
    IF Head(req.rest) \in Ignored \/ (Doing("stop") /\ req.op \in {"Reset", "Delete", "DeleteForce"})
      THEN Done
      ELSE req' = Idle

\* A file that was written may still be an error.
FileStep ==
    /\ \/ Doing("undown") /\ files' = [files EXCEPT !.down = FALSE] /\ Done
       \/ Doing("down")   /\ files' = [files EXCEPT !.down = TRUE]  /\ (Done \/ Failed)
       \/ Doing("save")   /\ files' = [files EXCEPT !.conf = TRUE]  /\ Done
       \/ Doing("rmuser") /\ files' = [files EXCEPT !.user = FALSE] /\ Done
       \/ Doing("rmconf") /\ files' = Removed(files)               /\ Done
    /\ crashes' = [crashes EXCEPT !.pulled = @ \/ (Doing("rmconf") /\ unit \notin Stopped)]
    /\ UNCHANGED <<unitVars, up, taskVars, wish, grace>>

\* A call of systemd has its effect; its answer may be an error all the same.
UnitStep ==
    /\ \/ Doing("start")   /\ StartUnit        /\ UNCHANGED <<files, grace>>
       \/ Doing("stop")    /\ StopUnit("none") /\ UNCHANGED <<files, grace>>
       \/ Doing("restart") /\ UNCHANGED <<files, grace>>
                           /\ IF unit \in Stopped THEN StartUnit ELSE StopUnit("start")
       \/ /\ Doing("kill") \/ Doing("term")
          /\ IF main = "none" THEN UNCHANGED unitVars ELSE MainGone
          /\ grace' = FALSE
          /\ UNCHANGED files
       \/ /\ Doing("enable") \/ Doing("disable")
          /\ files' = [files EXCEPT !.enabled = Doing("enable")]
          /\ UNCHANGED <<unitVars, grace>>
    /\ Done \/ Failed
    /\ UNCHANGED <<up, taskVars, wish, crashes>>

\* A step fails without an effect.
StepFails ==
    /\ \E step \in {"undown", "down", "start", "stop", "restart", "kill", "term", "enable", "disable", "test"} :
          Doing(step)
    /\ Failed
    /\ UNCHANGED <<files, unitVars, up, taskVars, history>>

\* The error of RemoveUser is ignored; that of os.RemoveAll is returned.
RemovalFails ==
    /\ \/ Doing("rmuser") /\ UNCHANGED files
       \/ Doing("rmconf") /\ files' \in Remainder(files)
    /\ Failed
    /\ crashes' = [crashes EXCEPT !.cut = TRUE, !.pulled = @ \/ (Doing("rmconf") /\ unit \notin Stopped)]
    /\ UNCHANGED <<unitVars, up, taskVars, wish, grace>>

\* StartAndTest: the unit is still active after a while, or it is not.
Tested ==
    /\ Doing("test")
    /\ IF unit = "active" THEN Done ELSE req' = Idle
    /\ UNCHANGED <<files, unitVars, up, taskVars, history>>

\* StopAndWait: the unit has stopped.
Waited ==
    /\ Doing("wait") \/ Doing("tryWait")
    /\ unit \in Stopped
    /\ Done
    /\ UNCHANGED <<files, unitVars, up, taskVars, history>>

\* StopAndWait gives up: an error for Stop and Restart, logged by the others.
WaitFails ==
    /\ \/ Doing("wait") /\ req' = Idle
       \/ Doing("tryWait") /\ Done
    /\ UNCHANGED <<files, unitVars, up, taskVars, history>>

\* With a bug: a user that was created stays when the creation fails.
CreateKeepsUser ==
    /\ \/ /\ Doing("mkuser") /\ ~files.user
          /\ files' = [files EXCEPT !.dir = TRUE, !.user = TRUE] /\ Done
       \/ /\ Doing("mkuser") \/ Doing("save")
          /\ files' = Removed(files) /\ req' = Idle
    /\ UNCHANGED <<unitVars, up, taskVars, history>>

\* Create: the directory, with a copy of the firmware, then the user.  useradd
\* refuses a user that is there; the deferred functions remove the user that was
\* created, and the directory, when a later step fails; their errors are ignored.
CreateStep ==
    /\ \/ /\ Doing("mkuser") /\ ~files.user
          /\ files' = [files EXCEPT !.dir = TRUE, !.user = TRUE] /\ Done
          /\ UNCHANGED crashes
       \/ /\ Doing("mkuser") /\ req' = Idle
          /\ files' \in {files, Removed(files)} \cup Remainder([files EXCEPT !.dir = TRUE])
          /\ UNCHANGED crashes
       \/ /\ Doing("save") /\ req' = Idle
          /\ \E kept \in BOOLEAN :
                /\ files' \in {[f EXCEPT !.user = kept] : f \in {Removed(files)} \cup Remainder(files)}
                /\ crashes' = [crashes EXCEPT !.cut = @ \/ kept]
    /\ UNCHANGED <<unitVars, up, taskVars, wish, grace>>

Answer ==
    /\ req # Idle /\ req.rest = <<>>
    /\ req' = Idle
    /\ wish' = CASE req.op \in {"StopWait", "StopForce"} -> "stopped"
                 [] req.op \in {"Delete", "DeleteForce"} -> "deleted"
                 [] req.op = "Create"                    -> "created"
                 [] OTHER                                -> "none"
    /\ UNCHANGED <<files, unitVars, up, taskVars, grace, crashes>>

-----------------------------------------------------------------------------
(* Crashes *)

\* Creations and deletions are not taken up again.
Interrupted == req.op \in {"Create", "Delete", "DeleteForce"}

DaemonGone ==
    /\ up' = "down" /\ mon' = 0 /\ reg' = NoReg /\ term' = "none" /\ req' = Idle

\* kvmrund dies, or ends when it has no task.
DaemonCrashes ==
    /\ up # "down" /\ crashes.n < MaxCrashes
    /\ DaemonGone
    /\ crashes' = [crashes EXCEPT !.n = @ + 1, !.cut = @ \/ Interrupted]
    /\ UNCHANGED <<files, unitVars, wish, grace>>

\* NewServer connects to the machines whose units are running, one by one; an
\* error is logged, and the machine is then not in the pool.
MonitorReConnect ==
    /\ up = "down"
    /\ up' = "starting"
    /\ \/ unit = "active" /\ sock /\ mon' = inst
       \/ mon' = 0
    /\ UNCHANGED <<files, unitVars, reg, term, req, history>>

\* Only then the API is served.
Serve ==
    /\ up = "starting"
    /\ up' = "serving"
    /\ UNCHANGED <<files, unitVars, taskVars, req, history>>

HostCrashes ==
    /\ crashes.n < MaxCrashes
    /\ unit' = "inactive" /\ job' = "none" /\ main' = "none" /\ sock' = FALSE
    /\ DaemonGone
    /\ crashes' = [crashes EXCEPT !.n = @ + 1, !.host = TRUE, !.cut = @ \/ Interrupted]
    /\ grace' = FALSE
    /\ UNCHANGED <<files, inst, wish>>

-----------------------------------------------------------------------------
Next ==
    \/ Terminate \/ Operator \/ QueuedStart
    \/ CheckDown \/ ReadConf \/ TakeDevices \/ PrepareChroot \/ PrepareLibs
    \/ Register \/ Exec \/ Listen \/ QemuExits
    \/ StopCommand \/ Cleanup
    \/ WaitForQemuSystem \/ NewMonitor \/ RegistrationEnds
    \/ TerminationBegins \/ PowerdownFails \/ TimedOut
    \/ \E op \in PowerOps \cup {"Create"} : Request(op)
    \/ FileStep \/ UnitStep \/ StepFails \/ RemovalFails \/ Tested \/ Waited \/ WaitFails \/ CreateStep \/ Answer
    \/ DaemonCrashes \/ MonitorReConnect \/ Serve \/ HostCrashes

Spec == Init /\ [][Next]_vars

-----------------------------------------------------------------------------
(* Properties *)

\* Type correctness; the pool never knows a process that was not started.
TypeOK ==
    /\ files \in [{"dir", "conf", "user", "enabled", "down", "chroot", "startup"} -> BOOLEAN]
    /\ unit \in Stopped \cup {"active", "stop", "sigterm", "post"}
    /\ job \in {"none", "start"}
    /\ main \in {"none", "check", "read", "devices", "chroot", "libs", "register", "exec",
                "qemu"}
    /\ inst \in 0..MaxInst /\ mon \in 0..inst
    /\ sock \in BOOLEAN /\ (sock => main = "qemu")
    /\ up \in {"down", "starting", "serving"}
    /\ reg.stage \in {"none", "waiting", "dialing", "init"} /\ reg.inst \in 0..inst
    /\ term \in {"none", "begun", "asked"}
    /\ wish \in {"none", "stopped", "created", "deleted"} /\ grace \in BOOLEAN /\ crashes.n \in 0..MaxCrashes

\* A machine whose stop was answered (Stop with wait) does not run again by
\* itself: not by a start that was queued or under way, not at a reboot of the
\* host, not by an operator's systemctl; the down file sees to it.
StoppedStaysStopped == wish = "stopped" => main # "qemu"

\* Once the unit has stopped, the cleanup has removed the chroot, and the pool has
\* no monitor of a process that is gone, whatever registration or termination
\* was under way.  (Not promised: a restart of kvmrund during the
\* cleanup can leave a monitor; a Delete that gave up waiting for the unit, or
\* during which the unit is started again, removes the directory in which the
\* cleanup runs.)
NothingLeft ==
    unit \in Stopped /\ ~crashes.pulled =>
        /\ ~crashes.host => ~files.chroot
        /\ crashes.n = 0 => mon = 0

\* A machine is whole or gone: an answered creation lasts, with user and unit link;
\* after an answered deletion there is neither directory nor link, and no start;
\* and between requests there is a user exactly when there is a configuration,
\* whichever step of a request failed, unless a removal did or a crash cut one
\* short.  So a failed Create leaves a name that can be created again, and a
\* failed Delete a machine that can be deleted again.
WholeOrGone ==
    /\ wish = "created" => files.dir /\ files.conf /\ files.user /\ files.enabled
    /\ wish = "deleted" => ~files.dir /\ ~files.conf /\ ~files.enabled
    /\ req = Idle /\ ~crashes.cut => (files.conf <=> files.user)

\* Not promised: the error of RemoveUser is ignored (configuration.go:183) and
\* that of os.RemoveAll comes after it (185-187); a user without configuration, or
\* the reverse, is left, and the name can neither be created nor deleted.
UserIffConf == req = Idle /\ crashes.n = 0 => (files.conf <=> files.user)

\* A guest that was asked to power down has its time until it is gone or the
\* termination task sends quit: systemd does not end the process before.
GraceIsGiven == [][Terminate => ~grace]_vars
=============================================================================
