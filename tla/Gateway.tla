------------------------------- MODULE Gateway -------------------------------
(***************************************************************************)
(* The HTTP gateway of the machine service (the generated                  *)
(* machines.pb.gw.go): which method an HTTP request reaches, and the       *)
(* message it is given. An HTTP request has a verb, a path (a sequence of  *)
(* segments), query parameters and a body; both of the latter are          *)
(* functions from field names to values.                                   *)
(***************************************************************************)
EXTENDS ApiMessages, FiniteSetsExt, Sequences

\* The segments of a pattern: a literal, or a variable that takes any one segment.
L(text) == [is |-> "literal", text |-> text]
V(field) == [is |-> "variable", text |-> field]
Machine(tail) == <<L("v2"), L("machine"), V("name")>> \o tail

(***************************************************************************)
(* Where the fields of a request's message are read from.                  *)
(***************************************************************************)
Body(M, params) == [from |-> "body", type |-> M, params |-> params]
Query(M, params) == [from |-> "query", type |-> M, params |-> params]
PathOnly(M, params) == [from |-> "path", type |-> M, params |-> params]

request_Create == Body(CreateRequest, {"name"})
request_Delete == Query(DeleteRequest, {"name"})
request_Get == PathOnly(GetRequest, {"name"})
request_GetEvents == PathOnly(GetEventsRequest, {"name"})
request_Start == Body(StartRequest, {"name"})
request_Stop == Body(StopRequest, {"name"})
request_Restart == Body(RestartRequest, {"name"})
request_Reset == Body(ResetRequest, {"name"})
request_List == Query(ListRequest, {})
request_ListNames == Query(ListNamesRequest, {})
request_FirmwareSet == Body(FirmwareSetRequest, {"name"})
request_FirmwareRemove == PathOnly(FirmwareRemoveRequest, {"name"})
request_MemorySetLimits == Body(MemorySetLimitsRequest, {"name"})
request_CPUSetLimits == Body(CPUSetLimitsRequest, {"name"})
request_CPUSetSockets == Body(CPUSetSocketsRequest, {"name"})
request_CPUSetQuota == Body(CPUSetQuotaRequest, {"name"})
request_CPUSetModel == Body(CPUSetModelRequest, {"name"})
request_HostDeviceAttach == Body(HostDeviceAttachRequest, {"name"})
request_HostDeviceDetach == Query(HostDeviceDetachRequest, {"name"})
request_HostDeviceSetMultifunctionOption == Body(HostDeviceSetMultifunctionOptionRequest, {"name"})
request_HostDeviceSetPrimaryGPUOption == Body(HostDeviceSetPrimaryGPUOptionRequest, {"name"})
request_VNCActivate == Body(VNCActivateRequest, {"name"})
request_InputDeviceAttach == Body(InputDeviceAttachRequest, {"name"})
request_InputDeviceDetach == Query(InputDeviceDetachRequest, {"name"})
request_CdromAttach == Body(CdromAttachRequest, {"name", "device_name"})
request_CdromDetach == Query(CdromDetachRequest, {"name", "device_name"})
request_CdromChangeMedia == Body(CdromChangeMediaRequest, {"name", "device_name"})
request_CdromRemoveMedia == Query(CdromRemoveMediaRequest, {"name", "device_name"})
request_DiskAttach == Body(DiskAttachRequest, {"name"})
request_DiskDetach == Query(DiskDetachRequest, {"name"})
request_DiskSetReadLimit == Body(DiskSetIOLimitRequest, {"name", "disk_name"})
request_DiskSetWriteLimit == Body(DiskSetIOLimitRequest, {"name", "disk_name"})
request_DiskRemoveQemuBitmap == PathOnly(DiskRemoveQemuBitmapRequest, {"name", "disk_name"})
request_DiskResizeQemuBlockdev == Body(DiskResizeQemuBlockdevRequest, {"name", "disk_name"})
request_NetIfaceAttach == Body(NetIfaceAttachRequest, {"name", "ifname"})
request_NetIfaceDetach == Query(NetIfaceDetachRequest, {"name", "ifname"})
request_NetIfaceSetLinkState == Body(NetIfaceSetLinkStateRequest, {"name", "ifname"})
request_NetIfaceSetUpScript == Body(NetIfaceSetScriptRequest, {"name", "ifname"})
request_NetIfaceSetDownScript == Body(NetIfaceSetScriptRequest, {"name", "ifname"})
request_NetIfaceSetQueues == Body(NetIfaceSetQueuesRequest, {"name", "ifname"})
request_ChannelAttach == Body(ChannelAttachRequest, {"name"})
request_ChannelDetach == Query(ChannelDetachRequest, {"name"})
request_CloudInitDriveAttach == Body(CloudInitDriveAttachRequest, {"name"})
request_CloudInitDriveDetach == PathOnly(CloudInitDriveDetachRequest, {"name"})
request_CloudInitDriveChangeMedia == Body(CloudInitDriveChangeMediaRequest, {"name"})
request_StartDiskBackupProcess == Body(StartDiskBackupRequest, {"name"})
request_StartMigrationProcess == Body(StartMigrationRequest, {"name"})
request_ExternalKernelSet == Body(ExternalKernelSetRequest, {"name"})
request_ExternalKernelRemove == PathOnly(ExternalKernelRemoveRequest, {"name"})

request_TaskService_Get == PathOnly(TaskGetRequest, {"key"})
request_TaskService_List == Query(TaskListRequest, {})
request_TaskService_Cancel == PathOnly(TaskCancelRequest, {"key"})

(***************************************************************************)
(* The handlers, in the order in which they are registered.                *)
(***************************************************************************)
Handle(verb, pattern, method, request) ==
    [verb |-> verb, pattern |-> pattern, method |-> method, request |-> request]

RegisterMachine ==
    <<Handle("POST", Machine(<<>>), "Create", request_Create),
      Handle("DELETE", Machine(<<>>), "Delete", request_Delete),
      Handle("GET", Machine(<<>>), "Get", request_Get),
      Handle("GET", Machine(<<L("events")>>), "GetEvents", request_GetEvents),
      Handle("PUT", Machine(<<L("start")>>), "Start", request_Start),
      Handle("PUT", Machine(<<L("stop")>>), "Stop", request_Stop),
      Handle("PUT", Machine(<<L("restart")>>), "Restart", request_Restart)>>
RegisterResources ==
    <<Handle("PUT", Machine(<<L("reset")>>), "Reset", request_Reset),
      Handle("GET", <<L("v2"), L("machines")>>, "List", request_List),
      Handle("GET", <<L("v2"), L("machines"), L("names")>>, "ListNames", request_ListNames),
      Handle("PUT", Machine(<<L("firmware")>>), "FirmwareSet", request_FirmwareSet),
      Handle("DELETE", Machine(<<L("firmware")>>), "FirmwareRemove", request_FirmwareRemove),
      Handle("PUT", Machine(<<L("memory")>>), "MemorySetLimits", request_MemorySetLimits),
      Handle("PUT", Machine(<<L("cpu")>>), "CPUSetLimits", request_CPUSetLimits)>>
RegisterCPU ==
    <<Handle("PUT", Machine(<<L("cpu"), L("sockets")>>), "CPUSetSockets", request_CPUSetSockets),
      Handle("PUT", Machine(<<L("cpu"), L("quota")>>), "CPUSetQuota", request_CPUSetQuota),
      Handle("PUT", Machine(<<L("cpu"), L("model")>>), "CPUSetModel", request_CPUSetModel),
      Handle("POST", Machine(<<L("hostpci")>>), "HostDeviceAttach", request_HostDeviceAttach),
      Handle("DELETE", Machine(<<L("hostpci")>>), "HostDeviceDetach", request_HostDeviceDetach),
      Handle("PUT", Machine(<<L("hostpci"), L("mf")>>), "HostDeviceSetMultifunctionOption", request_HostDeviceSetMultifunctionOption),
      Handle("PUT", Machine(<<L("hostpci"), L("primary-gpu")>>), "HostDeviceSetPrimaryGPUOption", request_HostDeviceSetPrimaryGPUOption)>>
RegisterDevices ==
    <<Handle("PUT", Machine(<<L("vnc")>>), "VNCActivate", request_VNCActivate),
      Handle("POST", Machine(<<L("input-device")>>), "InputDeviceAttach", request_InputDeviceAttach),
      Handle("DELETE", Machine(<<L("input-device")>>), "InputDeviceDetach", request_InputDeviceDetach),
      Handle("POST", Machine(<<L("cdrom"), V("device_name")>>), "CdromAttach", request_CdromAttach),
      Handle("DELETE", Machine(<<L("cdrom"), V("device_name")>>), "CdromDetach", request_CdromDetach),
      Handle("PUT", Machine(<<L("cdrom"), V("device_name"), L("media")>>), "CdromChangeMedia", request_CdromChangeMedia),
      Handle("DELETE", Machine(<<L("cdrom"), V("device_name"), L("media")>>), "CdromRemoveMedia", request_CdromRemoveMedia)>>
RegisterDisks ==
    <<Handle("POST", Machine(<<L("disk")>>), "DiskAttach", request_DiskAttach),
      Handle("DELETE", Machine(<<L("disk")>>), "DiskDetach", request_DiskDetach),
      Handle("PUT", Machine(<<L("disk"), V("disk_name"), L("iops-rd")>>), "DiskSetReadLimit", request_DiskSetReadLimit),
      Handle("PUT", Machine(<<L("disk"), V("disk_name"), L("iops-wr")>>), "DiskSetWriteLimit", request_DiskSetWriteLimit),
      Handle("DELETE", Machine(<<L("disk"), V("disk_name"), L("qemu-bitmap")>>), "DiskRemoveQemuBitmap", request_DiskRemoveQemuBitmap),
      Handle("PUT", Machine(<<L("disk"), V("disk_name"), L("qemu-resize")>>), "DiskResizeQemuBlockdev", request_DiskResizeQemuBlockdev),
      Handle("POST", Machine(<<L("net-iface"), V("ifname")>>), "NetIfaceAttach", request_NetIfaceAttach)>>
RegisterNetIfaces ==
    <<Handle("DELETE", Machine(<<L("net-iface"), V("ifname")>>), "NetIfaceDetach", request_NetIfaceDetach),
      Handle("PUT", Machine(<<L("net-iface"), V("ifname"), L("link")>>), "NetIfaceSetLinkState", request_NetIfaceSetLinkState),
      Handle("PUT", Machine(<<L("net-iface"), V("ifname"), L("up-script")>>), "NetIfaceSetUpScript", request_NetIfaceSetUpScript),
      Handle("PUT", Machine(<<L("net-iface"), V("ifname"), L("down-script")>>), "NetIfaceSetDownScript", request_NetIfaceSetDownScript),
      Handle("PUT", Machine(<<L("net-iface"), V("ifname"), L("queues")>>), "NetIfaceSetQueues", request_NetIfaceSetQueues),
      Handle("POST", Machine(<<L("channel")>>), "ChannelAttach", request_ChannelAttach),
      Handle("DELETE", Machine(<<L("channel")>>), "ChannelDetach", request_ChannelDetach)>>
RegisterTasks ==
    <<Handle("POST", Machine(<<L("cloud-init")>>), "CloudInitDriveAttach", request_CloudInitDriveAttach),
      Handle("DELETE", Machine(<<L("cloud-init")>>), "CloudInitDriveDetach", request_CloudInitDriveDetach),
      Handle("PUT", Machine(<<L("cloud-init"), L("media")>>), "CloudInitDriveChangeMedia", request_CloudInitDriveChangeMedia),
      Handle("POST", Machine(<<L("start-disk-backup")>>), "StartDiskBackupProcess", request_StartDiskBackupProcess),
      Handle("POST", Machine(<<L("start-migration")>>), "StartMigrationProcess", request_StartMigrationProcess),
      Handle("PUT", Machine(<<L("external-kernel")>>), "ExternalKernelSet", request_ExternalKernelSet),
      Handle("DELETE", Machine(<<L("external-kernel")>>), "ExternalKernelRemove", request_ExternalKernelRemove)>>
\* What the machine service mounts. RegisterGW of the other services does nothing.
RegisterGW == RegisterMachine \o RegisterResources \o RegisterCPU \o RegisterDevices \o RegisterDisks
              \o RegisterNetIfaces \o RegisterTasks
\* The handlers of the task service, which no one mounts.
RegisterTaskService ==
    <<Handle("GET", <<L("v2"), L("tasks"), V("key")>>, "TaskService/Get", request_TaskService_Get),
      Handle("GET", <<L("v2"), L("tasks")>>, "TaskService/List", request_TaskService_List),
      Handle("DELETE", <<L("v2"), L("tasks"), V("key")>>, "TaskService/Cancel", request_TaskService_Cancel)>>

(***************************************************************************)
(* Serving an HTTP request.                                                *)
(***************************************************************************)
Matches(pattern, path) ==
    /\ Len(pattern) = Len(path)
    /\ \A i \in DOMAIN path : pattern[i].is = "literal" => pattern[i].text = path[i]

PathParams(pattern, path) ==
    LET Variables == {i \in DOMAIN pattern : pattern[i].is = "variable"}
    IN [f \in {pattern[i].text : i \in Variables} |->
            path[CHOOSE i \in Variables : pattern[i].text = f]]

\* The mux tries the handlers of a verb from the last registered to the first.
Route(h) ==
    LET Candidates == {i \in DOMAIN RegisterGW :
                            RegisterGW[i].verb = h.verb /\ Matches(RegisterGW[i].pattern, h.path)}
    IN IF Candidates = {} THEN 0 ELSE Max(Candidates)

\* A query parameter names a field, of a nested message too; a nested message
\* without fields has no parameter that could set it. Naming a field of a oneof's
\* member chooses the member.
PopulateQueryParameters(q) == q @@ (IF "port_id" \in DOMAIN q THEN [channel |-> "serial_port"] ELSE <<>>)
Unparsable(r, h) == r.from = "query" /\ "channel" \in DOMAIN h.query

\* Mutant: the body prevails over the path.
DecodeBodyLast(r, params, h) ==
    CASE r.from = "body" -> h.body @@ Restrict(params, r.params)
      [] r.from = "query" -> Restrict(params, r.params) @@ PopulateQueryParameters(h.query)
      [] r.from = "path" -> Restrict(params, r.params)

\* The message: the path's variables are assigned after the body is decoded, and
\* the query parameters that a variable already gives are filtered out.
Decode(r, params, h) ==
    CASE r.from = "body" -> Restrict(params, r.params) @@ h.body
      [] r.from = "query" -> Restrict(params, r.params)
                             @@ PopulateQueryParameters(Restrict(h.query, DOMAIN h.query \ r.params))
      [] r.from = "path" -> Restrict(params, r.params)
==============================================================================
