--------------------------------- MODULE Rest ---------------------------------
(***************************************************************************)
(* The two ways into kvmrund: a gRPC call, and an HTTP request that the    *)
(* gateway turns into one. A caller wants a method called with a message;  *)
(* over HTTP it writes the path the method's binding gives, the values of  *)
(* the path's variables in their segments, and the rest of the message in  *)
(* the body or in the query.                                               *)
(*                                                                         *)
(* asked   what the caller wants: [via, method, msg]                       *)
(* http    its HTTP request, until the gateway has taken it                *)
(***************************************************************************)
EXTENDS Services, Gateway, SequencesExt

VARIABLES asked, http
restVars == <<vars, asked, http>>

NoCall == [via |-> "", method |-> "", msg |-> None]
NoHttp == [verb |-> "", path |-> <<>>, query |-> None, body |-> None]

(***************************************************************************)
(* The messages a caller may send: at most two fields chosen, and with     *)
(* them the messages and the oneof members that hold the chosen ones.      *)
(***************************************************************************)
OptionHolders ==
    [f \in DOMAIN MachineOpts_Firmware |-> "firmware"]
    @@ [f \in DOMAIN MachineOpts_ChannelVSock |-> "vsock_device"]
    @@ [f \in DOMAIN MachineOpts_CloudInit |-> "cloudinit_drive"]
UpdateHolders ==
    [in_limit_value |-> "in_limit", out_limit_value |-> "out_limit", mtu_value |-> "mtu",
     gateway4_value |-> "gateway4", gateway6_value |-> "gateway6",
     append_addr |-> "addrs", remove_addr |-> "addrs"]
SchemeAttrs ==
    [f \in DOMAIN NetworkSchemeOpts_Attrs_VLAN |-> "vlan"] @@ [f \in DOMAIN NetworkSchemeOpts_Attrs_VxLAN |-> "vxlan"]
    @@ [f \in DOMAIN NetworkSchemeOpts_Attrs_Router |-> "router"]
    @@ [f \in DOMAIN NetworkSchemeOpts_Attrs_Bridge |-> "bridge"]

\* What a field needs beside it.
HeldBy(method, f) ==
    CASE method = "Create" /\ f \in DOMAIN MachineOpts ->
            {<<"options", "options">>}
            \cup (IF f \in DOMAIN OptionHolders THEN {<<OptionHolders[f], OptionHolders[f]>>} ELSE {})
      [] method = "CreateConf" /\ f \in DOMAIN NetworkSchemeOpts ->
            {<<"options", "options">>}
            \cup (IF f \in DOMAIN SchemeAttrs THEN {<<"attrs", SchemeAttrs[f]>>} ELSE {})
      [] method = "UpdateConf" /\ f \in DOMAIN UpdateHolders -> {<<UpdateHolders[f], UpdateHolders[f]>>}
      [] method = "StartMigrationProcess" /\ f \in DOMAIN MigrationOverrides -> {<<"overrides", "overrides">>}
      [] f = "context_id" -> {<<"channel", "vsock">>}
      [] f \in {"port_id", "port_guest_name"} -> {<<"channel", "serial_port">>}
      [] OTHER -> {}

Enumerator == [NetIfaceDriver |-> "RTL8139", NetIfaceLinkState |-> "DOWN", DiskDriver |-> "SCSI_HD",
               CdromDriver |-> "SCSI_CD", CloudInitDriver |-> "CI_FLOPPY", InputDeviceType |-> "USB_TABLET"]
OneOf == [channel |-> {"vsock", "serial_port"}, attrs |-> {"vlan", "vxlan", "router", "bridge"}]
Values(M, f) ==
    CASE M[f] \in DOMAIN Enumerator -> {Enumerator[M[f]]}
      [] M[f] = "oneof" -> OneOf[f]
      [] OTHER -> {f}

\* A message is a set of assignments, one to a field.
IsFunction(s) == \A a, b \in s : a[1] = b[1] => a[2] = b[2]
Assigned(M, s) == [f \in DOMAIN M |-> IF \E a \in s : a[1] = f THEN (CHOOSE a \in s : a[1] = f)[2]
                                      ELSE Zero[M[f]]]
Messages(method, M, given) ==
    LET Settings == UNION {{{<<f, v>>} \cup HeldBy(method, f) : v \in Values(M, f)} : f \in DOMAIN M \ DOMAIN given}
        Named == {<<f, given[f]>> : f \in DOMAIN given}
    IN {Assigned(M, Named \cup s) : s \in {t \in {{}} \cup {c \cup d : c, d \in Settings} : IsFunction(t)}}

(***************************************************************************)
(* Calls.                                                                  *)
(***************************************************************************)
Idle == asked = NoCall

\* What the caller may call itself a machine, or a disk it names by its path.
GrpcCall ==
    /\ Idle
    /\ \E method \in DOMAIN Methods :
        LET M == Methods[method]
            given == Restrict([name |-> "name", machine_name |-> "machine_name"], DOMAIN M \cap {"name", "machine_name"})
        IN \E msg \in Messages(method, M, given) :
            /\ asked' = [via |-> "grpc", method |-> method, msg |-> msg]
            /\ inbox' = [method |-> method, wire |-> Marshal(msg, M)]
    /\ UNCHANGED <<calls, reply, http>>

\* The bindings that machines.proto and tasks.proto give to the methods.
Bindings == RegisterMachine \o RegisterResources \o RegisterCPU \o RegisterDevices \o RegisterDisks
            \o RegisterNetIfaces \o RegisterTasks \o RegisterTaskService

Segments(v) == IF v = "dir/disk" THEN <<"dir", "disk">> ELSE <<v>>
Path(pattern, msg) ==
    LET Step(path, s) == path \o (IF s.is = "literal" THEN <<s.text>> ELSE Segments(msg[s.text]))
    IN FoldLeft(Step, <<>>, pattern)

\* A member of a oneof is chosen in the query by naming its fields, if it has any.
Parameters(rest) ==
    IF "channel" \in DOMAIN rest /\ rest["channel"] = "serial_port"
    THEN ("port_id" :> (IF "port_id" \in DOMAIN rest THEN rest["port_id"] ELSE "")) @@ Restrict(rest, DOMAIN rest \ {"channel"})
    ELSE rest

\* The body or the query may also name a machine, a different one than the path.
HttpCall ==
    /\ Idle
    /\ \E i \in DOMAIN Bindings :
        LET b == Bindings[i]
            M == b.request.type
        IN \E given \in [b.request.params -> {"name", "key", "device_name", "disk_name", "ifname", "dir/disk"}] :
            /\ \A p \in b.request.params : given[p] \in {p} \cup (IF p = "disk_name" THEN {"dir/disk"} ELSE {})
            /\ \E msg \in Messages(b.method, M, given), extra \in {None} \cup {[name |-> "other"] : n \in b.request.params \cap {"name"}} :
                LET wire == Marshal(msg, M)
                    rest == Restrict(wire, DOMAIN wire \ b.request.params)
                IN /\ asked' = [via |-> "http", method |-> b.method, msg |-> msg]
                   /\ http' = [verb |-> b.verb, path |-> Path(b.pattern, msg),
                               body |-> IF b.request.from = "body" THEN rest @@ extra ELSE None,
                               query |-> IF b.request.from # "body" THEN Parameters(rest) @@ extra ELSE extra]
    /\ UNCHANGED <<inbox, calls, reply>>

Answer(code) == reply' = [code |-> code, machine |-> None] /\ UNCHANGED inbox

\* The gateway: a request no handler takes is answered by the mux, one that cannot
\* be decoded by its handler; the others are sent on as gRPC calls.
Dispatch ==
    /\ http # NoHttp
    /\ http' = NoHttp
    /\ LET i == Route(http)
       IN \/ i = 0 /\ Answer("HTTP 404")
          \/ i # 0 /\ Unparsable(RegisterGW[i].request, http) /\ Answer("InvalidArgument")
          \/ /\ i # 0 /\ ~Unparsable(RegisterGW[i].request, http)
             /\ LET b == RegisterGW[i]
                    msg == Decode(b.request, PathParams(b.pattern, http.path), http)
                IN inbox' = [method |-> b.method, wire |-> Marshal(Unmarshal(msg, b.request.type), b.request.type)]
             /\ UNCHANGED reply
    /\ UNCHANGED <<asked, calls>>

RestServed == ServeRequest /\ UNCHANGED <<asked, http>>

RestReceive ==
    /\ reply # NoReply
    /\ reply' = NoReply /\ calls' = <<>> /\ asked' = NoCall
    /\ UNCHANGED <<inbox, http>>

RestInit ==
    /\ inbox = Nothing /\ calls = <<>> /\ reply = NoReply
    /\ asked = NoCall /\ http = NoHttp

RestNext == GrpcCall \/ HttpCall \/ Dispatch \/ RestServed \/ RestReceive

RestSpec == RestInit /\ [][RestNext]_restVars

(***************************************************************************)
(* Properties.                                                             *)
(***************************************************************************)
\* One request is on its way at a time, in one place.
RestTypeOK ==
    /\ asked.via \in {"", "grpc", "http"} /\ asked.method \in DOMAIN Methods \cup {""}
    /\ inbox.method \in DOMAIN Methods \cup {""}
    /\ DOMAIN inbox.wire \subseteq (IF inbox.method = "" THEN {} ELSE DOMAIN Methods[inbox.method])
    /\ asked # NoCall => Len(calls) <= 1
    /\ reply.code \in {"", "OK", "NotFound", "AlreadyExists", "FailedPrecondition", "Internal",
                       "InvalidArgument", "HTTP 404"}

\* An HTTP request written by a method's binding is served as the gRPC call of that
\* method with that message: no other handler takes it, the path's variables
\* prevail over what the body and the query say, and no field is lost.
RestSameAsGrpc ==
    asked # NoCall /\ inbox # Nothing =>
        /\ inbox.method = asked.method
        /\ Unmarshal(inbox.wire, Methods[inbox.method]) = asked.msg

\* The function a method calls is given the machine that the caller named, over
\* HTTP the one in the path.
CallsTheNamedMachine ==
    "name" \in DOMAIN asked.msg => \A c \in Range(calls) : c.vm = asked.msg["name"]

\* The gateway refuses a machine method's request only because of a name that has
\* a slash in it.
NotFoundOnlyForSlashes ==
    reply.code = "HTTP 404" /\ asked.method \in DOMAIN MachineService =>
        "dir/disk" \in Range(asked.msg)

\* The argument of the called function that a field of the request is for.
Argument(method, f) ==
    LET renamed == [image |-> IF method = "FirmwareSet" THEN "firmware_image" ELSE "kernel_image",
                    flash |-> "firmware_flash", initrd |-> "kernel_initrd", cmdline |-> "kernel_cmdline",
                    modiso |-> "kernel_modiso",
                    enabled |-> IF method = "HostDeviceSetPrimaryGPUOption" THEN "primary_gpu" ELSE "multifunction",
                    iops |-> IF method = "DiskSetReadLimit" THEN "iops_rd" ELSE "iops_wr",
                    path |-> IF method = "NetIfaceSetUpScript" THEN "ifup" ELSE "ifdown",
                    ifup_script |-> "ifup", ifdown_script |-> "ifdown",
                    in_limit_value |-> "in_limit", out_limit_value |-> "out_limit", mtu_value |-> "mtu",
                    gateway4_value |-> "gateway4", gateway6_value |-> "gateway6", second_stage |-> "stage"]
    IN IF f \in DOMAIN renamed THEN renamed[f] ELSE f

\* What the code does not use: a message that only holds others, and what creating a
\* machine, resetting one and configuring a router leave aside.
Unused(method) ==
    LET Holders == {"options", "overrides", "channel"}
    IN CASE method = "Create" -> Holders \cup (DOMAIN MachineOpts \ StoredOnCreate) \cup {"persistent", "extra_files"}
         [] method = "Reset" -> {"wait"}
         [] method = "CreateConf" -> Holders \cup {"process_id"}
         [] method = "UpdateConf" -> {"in_limit", "out_limit", "mtu", "gateway4", "gateway6", "addrs"}
         [] OTHER -> Holders

\* Every field the caller set, save those the code leaves aside, is in the argument
\* of the called function that it is for: none is dropped or exchanged with another
\* between the caller and the function, whichever way in it takes.
EveryFieldReachesItsArgument ==
    asked # NoCall /\ reply.code = "OK" /\ calls # <<>> =>
        LET call == calls[1]
            M == Methods[asked.method]
        IN \A f \in DOMAIN M \ Unused(asked.method) :
            asked.msg[f] # Zero[M[f]] =>
                \/ f \in {"name", "machine_name"} /\ call.vm = asked.msg[f]
                \/ /\ Argument(asked.method, f) \in DOMAIN call.args
                   /\ call.args[Argument(asked.method, f)] \in
                        {asked.msg[f], "SECOND"}
                        \cup (IF asked.msg[f] \in DOMAIN DriverName THEN {DriverName[asked.msg[f]]} ELSE {})

\* A request reaches the function behind its method with the machine it named and
\* with every field that was set, over gRPC and over HTTP alike (the gateway's
\* handlers and the methods of services/).
RequestReachesItsFunction ==
    /\ CallsTheNamedMachine
    /\ NotFoundOnlyForSlashes
    /\ EveryFieldReachesItsArgument

\* A request to detach the vsock channel, answered, has asked the machine to detach it
\* (DELETE /v2/machine/{name}/channel).
RestDetachesVSock ==
    reply # NoReply /\ asked.method = "ChannelDetach" /\ asked.msg.channel = "vsock" => calls # <<>>

\* The task service's methods are served over HTTP, at the paths tasks.proto gives.
TasksAreServed == reply.code = "HTTP 404" => asked.method \notin DOMAIN TaskMethods
===============================================================================
