------------------------------- MODULE Services -------------------------------
(***************************************************************************)
(* The gRPC services of kvmrund (services/): what each method does with    *)
(* its request. A method decodes the message, calls one function of the    *)
(* servers under server/ (the other modules model what those do) and       *)
(* answers with the status the error interceptor makes of its error.       *)
(*                                                                         *)
(* inbox   the request being served: its method and its encoding           *)
(* calls   the functions called so far: [fn, vm, args]                     *)
(* reply   the answer, until its receiver takes it                         *)
(***************************************************************************)
EXTENDS ApiMessages, Sequences

CONSTANT HostMachines   \* What a machine may look like when it is read: [state, C, R].

VARIABLES inbox, calls, reply
vars == <<inbox, calls, reply>>

None == <<>>
Nothing == [method |-> "", wire |-> None]
NoReply == [code |-> "", machine |-> None]

(***************************************************************************)
(* The methods and the messages they take. Two services have a Get and a   *)
(* List; the full name of a method tells them apart.                       *)
(***************************************************************************)
MachineMethods ==
    [Create |-> CreateRequest, Delete |-> DeleteRequest, Get |-> GetRequest, GetEvents |-> GetEventsRequest,
     Start |-> StartRequest, Stop |-> StopRequest, Restart |-> RestartRequest, Reset |-> ResetRequest]
ResourceMethods ==
    [List |-> ListRequest, ListNames |-> ListNamesRequest,
     FirmwareSet |-> FirmwareSetRequest, FirmwareRemove |-> FirmwareRemoveRequest,
     MemorySetLimits |-> MemorySetLimitsRequest, CPUSetLimits |-> CPUSetLimitsRequest,
     CPUSetSockets |-> CPUSetSocketsRequest, CPUSetQuota |-> CPUSetQuotaRequest]
HostDeviceMethods ==
    [CPUSetModel |-> CPUSetModelRequest,
     HostDeviceAttach |-> HostDeviceAttachRequest, HostDeviceDetach |-> HostDeviceDetachRequest,
     HostDeviceSetMultifunctionOption |-> HostDeviceSetMultifunctionOptionRequest,
     HostDeviceSetPrimaryGPUOption |-> HostDeviceSetPrimaryGPUOptionRequest,
     VNCActivate |-> VNCActivateRequest,
     InputDeviceAttach |-> InputDeviceAttachRequest, InputDeviceDetach |-> InputDeviceDetachRequest]
DiskMethods ==
    [CdromAttach |-> CdromAttachRequest, CdromDetach |-> CdromDetachRequest,
     CdromChangeMedia |-> CdromChangeMediaRequest, CdromRemoveMedia |-> CdromRemoveMediaRequest,
     DiskAttach |-> DiskAttachRequest, DiskDetach |-> DiskDetachRequest,
     DiskSetReadLimit |-> DiskSetIOLimitRequest, DiskSetWriteLimit |-> DiskSetIOLimitRequest]
NetIfaceMethods ==
    [DiskRemoveQemuBitmap |-> DiskRemoveQemuBitmapRequest,
     DiskResizeQemuBlockdev |-> DiskResizeQemuBlockdevRequest,
     NetIfaceAttach |-> NetIfaceAttachRequest, NetIfaceDetach |-> NetIfaceDetachRequest,
     NetIfaceSetLinkState |-> NetIfaceSetLinkStateRequest,
     NetIfaceSetUpScript |-> NetIfaceSetScriptRequest, NetIfaceSetDownScript |-> NetIfaceSetScriptRequest,
     NetIfaceSetQueues |-> NetIfaceSetQueuesRequest]
ChannelMethods ==
    [ChannelAttach |-> ChannelAttachRequest, ChannelDetach |-> ChannelDetachRequest,
     CloudInitDriveAttach |-> CloudInitDriveAttachRequest, CloudInitDriveDetach |-> CloudInitDriveDetachRequest,
     CloudInitDriveChangeMedia |-> CloudInitDriveChangeMediaRequest,
     StartDiskBackupProcess |-> StartDiskBackupRequest, StartMigrationProcess |-> StartMigrationRequest,
     ExternalKernelSet |-> ExternalKernelSetRequest]
KernelMethods == [ExternalKernelRemove |-> ExternalKernelRemoveRequest]
TaskMethods ==
    ("TaskService/Get" :> TaskGetRequest) @@ ("TaskService/List" :> TaskListRequest)
    @@ ("TaskService/Cancel" :> TaskCancelRequest)
SystemMethods ==
    [GetAppConf |-> None, ServerGracefulShutdown |-> None,
     QemuInstanceRegister |-> QemuInstanceRegisterRequest, QemuInstanceDeregister |-> QemuInstanceDeregisterRequest,
     QemuInstanceStop |-> QemuInstanceStopRequest, StartIncomingMigration |-> StartIncomingMigrationRequest]
NetworkMethods ==
    [Configure |-> ConfigureRequest, Deconfigure |-> DeconfigureRequest, ListEndpoints |-> None,
     CreateConf |-> CreateConfRequest, UpdateConf |-> UpdateConfRequest, DeleteConf |-> DeleteConfRequest]
CloudInitMethods == [BuildImage |-> BuildImageRequest]
HardwareMethods == [ListPCI |-> ListPCIRequest]

MachineService == MachineMethods @@ ResourceMethods @@ HostDeviceMethods @@ DiskMethods
                  @@ NetIfaceMethods @@ ChannelMethods @@ KernelMethods
Methods == MachineService @@ TaskMethods @@ SystemMethods @@ NetworkMethods @@ CloudInitMethods @@ HardwareMethods

(***************************************************************************)
(* Serving a request.                                                      *)
(***************************************************************************)
\* What a function under server/ may return.
Errors == {"nil", "ErrAlreadyExists", "ErrNotFound", "ErrNotRunning", "other"}

\* MapErrorsUnaryServerInterceptor: the status the caller gets. A task that is not
\* there is reported with a status of its own, which passes unchanged.
MapErrors(err) ==
    CASE err = "nil" -> "OK"
      [] err = "status NotFound" -> "NotFound"
      [] err = "ErrAlreadyExists" -> "AlreadyExists"
      [] err = "ErrNotFound" -> "NotFound"
      [] err = "ErrNotRunning" -> "FailedPrecondition"
      [] OTHER -> "Internal"

\* What a method may do: the calls it makes, and the errors that may come of it.
Call(fn, vm, args) == [calls |-> <<[fn |-> fn, vm |-> vm, args |-> args]>>, errs |-> Errors]
Return(errs) == [calls |-> <<>>, errs |-> errs]

\* Run one of what a method may do, and answer.
Perform(doings) ==
    /\ \E does \in doings :
        /\ calls' = calls \o does.calls
        /\ \E err \in does.errs : reply' = [code |-> MapErrors(err), machine |-> None]
    /\ inbox' = Nothing

\* One method: decode its message, perform, answer.
Serve(method, Does(_)) ==
    inbox.method = method /\ Perform(Does(Unmarshal(inbox.wire, Methods[method])))

Fields(r, S) == Restrict(r, S)

\* The name an enumeration's value has in the configuration: the driver names of
\* the command line are the enumeration's in lower case with hyphens.
DriverName ==
    [UNDEFINED_DISK_DRIVER |-> "undefined-disk-driver", VIRTIO_BLK_PCI |-> "virtio-blk-pci",
     SCSI_HD |-> "scsi-hd", IDE_HD |-> "ide-hd",
     UNDEFINED_CDROM_DRIVER |-> "undefined-cdrom-driver", SCSI_CD |-> "scsi-cd", IDE_CD |-> "ide-cd",
     UNDEFINED_NET_DRIVER |-> "undefined-net-driver", VIRTIO_NET_PCI |-> "virtio-net-pci",
     RTL8139 |-> "rtl8139", E1000 |-> "e1000",
     UNDEFINED_CLOUDINIT_DRIVER |-> "undefined-cloudinit-driver", CI_IDE_CD |-> "ide-cd",
     CI_FLOPPY |-> "floppy",
     UNDEFINED_INPUT_TYPE |-> "undefined-input-type", USB_TABLET |-> "usb-tablet"]

(***************************************************************************)
(* Reading: Get, GetEvents, List, ListNames.                               *)
(***************************************************************************)
\* A machine as the caller sees it: the state by its number, the parts that are
\* there, and of each part what it shows. An external kernel and a firmware are
\* shown only when they have an image.
machineToProto(vm) ==
    LET Shown(p) == DOMAIN p
                    \ ((IF p.kernel_image = "" THEN DOMAIN MachineOpts_Kernel ELSE {})
                       \cup (IF p.firmware_image = "" THEN DOMAIN MachineOpts_Firmware ELSE {}))
        conv(p) == IF p = None THEN None ELSE Restrict(p, Shown(p))
    IN [state |-> vm.state, config |-> conv(vm.C), runtime |-> conv(vm.R)]

Get ==
    /\ inbox.method = "Get"
    /\ inbox' = Nothing
    /\ calls' = calls \o Call("MachineGet", Unmarshal(inbox.wire, GetRequest).name, None).calls
    /\ \/ \E err \in Errors \ {"nil"} : reply' = [code |-> MapErrors(err), machine |-> None]
       \/ \E vm \in HostMachines : reply' = [code |-> "OK", machine |-> machineToProto(vm)]
GetEvents == Serve("GetEvents", LAMBDA r : {Call("MachineGetEvents", r.name, None)})
List == Serve("List", LAMBDA r : {Call("GetList", "", r)})
ListNames == Serve("ListNames", LAMBDA r : {Call("MachineGetNames", "", r)})

(***************************************************************************)
(* Configuration and power.                                                *)
(***************************************************************************)
\* The boot order and the addresses of devices are not taken over.
propertiesFromMachineOpts(r) ==
    Fields(r, DOMAIN MachineOpts \ {"cdrom_bootindex", "cdrom_addr", "storage_bootindex", "storage_addr",
                                    "network_addr", "vsock_addr"})

\* What machine.Server.Create keeps of the properties: the limits, the processor's
\* model and quota, and the firmware. The rest of the request has no effect.
StoredOnCreate == {"memory_actual", "memory_total", "cpu_actual", "cpu_total", "cpu_quota", "cpu_model",
                   "firmware_image", "firmware_flash"}

\* A request without options makes the method fail on a nil pointer.
Create ==
    Serve("Create", LAMBDA r :
        IF r.options = "" THEN {Return({"other"})}
        ELSE {Call("Create", r.name, Fields(propertiesFromMachineOpts(r), StoredOnCreate)
                                     @@ Fields(r, {"qemu_rootdir"}))})
\* The machine is read first, for the answer: the error of that read ends the call.
Delete ==
    Serve("Delete", LAMBDA r :
        {Return(Errors \ {"nil"}), Call("Delete", r.name, Fields(r, {"force"}))})
optsFromFirmwareSetRequest(r) == [firmware_image |-> r.image, firmware_flash |-> r.flash]
FirmwareSet ==
    Serve("FirmwareSet", LAMBDA r :
        {Call("FirmwareSet", r.name, optsFromFirmwareSetRequest(r) @@ Fields(r, {"qemu_rootdir"}))})
FirmwareRemove == Serve("FirmwareRemove", LAMBDA r : {Call("FirmwareRemove", r.name, None)})
optsFromExternalKernelSetRequest(r) ==
    [kernel_image |-> r.image, kernel_initrd |-> r.initrd, kernel_cmdline |-> r.cmdline,
     kernel_modiso |-> r.modiso]
ExternalKernelSet ==
    Serve("ExternalKernelSet", LAMBDA r :
        {Call("ExternalKernelSet", r.name, optsFromExternalKernelSetRequest(r))})
ExternalKernelRemove == Serve("ExternalKernelRemove", LAMBDA r : {Call("ExternalKernelRemove", r.name, None)})

Start == Serve("Start", LAMBDA r : {Call("Start", r.name, Fields(r, {"wait_interval"}))})
Stop == Serve("Stop", LAMBDA r : {Call("Stop", r.name, Fields(r, {"wait", "force"}))})
Restart == Serve("Restart", LAMBDA r : {Call("Restart", r.name, Fields(r, {"wait"}))})
\* The wait of the request is not used.
Reset == Serve("Reset", LAMBDA r : {Call("Reset", r.name, None)})

MemorySetLimits ==
    Serve("MemorySetLimits", LAMBDA r :
        {Call("MemorySetLimits", r.name, Fields(r, {"actual", "total", "live"}))})
CPUSetLimits ==
    Serve("CPUSetLimits", LAMBDA r : {Call("CPUSetLimits", r.name, Fields(r, {"actual", "total", "live"}))})
CPUSetSockets == Serve("CPUSetSockets", LAMBDA r : {Call("CPUSetSockets", r.name, Fields(r, {"sockets"}))})
CPUSetQuota == Serve("CPUSetQuota", LAMBDA r : {Call("CPUSetQuota", r.name, Fields(r, {"quota", "live"}))})
CPUSetModel == Serve("CPUSetModel", LAMBDA r : {Call("CPUSetModel", r.name, Fields(r, {"model"}))})

(***************************************************************************)
(* Devices.                                                                *)
(***************************************************************************)
optsFromHostDeviceAttachRequest(r) == Fields(r, {"pci_addr", "primary_gpu", "multifunction"})
HostDeviceAttach ==
    Serve("HostDeviceAttach", LAMBDA r :
        {Call("HostDeviceAttach", r.name, optsFromHostDeviceAttachRequest(r) @@ Fields(r, {"strict_mode"}))})
HostDeviceDetach ==
    Serve("HostDeviceDetach", LAMBDA r : {Call("HostDeviceDetach", r.name, Fields(r, {"pci_addr"}))})
HostDeviceSetMultifunctionOption ==
    Serve("HostDeviceSetMultifunctionOption", LAMBDA r :
        {Call("HostDeviceSetMultifunctionOption", r.name,
              Fields(r, {"pci_addr"}) @@ [multifunction |-> r.enabled])})
HostDeviceSetPrimaryGPUOption ==
    Serve("HostDeviceSetPrimaryGPUOption", LAMBDA r :
        {Call("HostDeviceSetPrimaryGpuOption", r.name,
              Fields(r, {"pci_addr"}) @@ [primary_gpu |-> r.enabled])})

optsFromInputDeviceAttachRequest(r) == [type |-> DriverName[r.type]]
InputDeviceAttach ==
    Serve("InputDeviceAttach", LAMBDA r :
        {Call("InputDeviceAttach", r.name, optsFromInputDeviceAttachRequest(r))})
InputDeviceDetach ==
    Serve("InputDeviceDetach", LAMBDA r : {Call("InputDeviceDetach", r.name, [type |-> DriverName[r.type]])})
VNCActivate == Serve("VNCActivate", LAMBDA r : {Call("VNCActivate", r.name, Fields(r, {"password"}))})

optsFromCdromAttachRequest(r) ==
    Fields(r, {"device_name", "device_media", "bootindex", "readonly"}) @@ [driver |-> DriverName[r.driver]]
CdromAttach ==
    Serve("CdromAttach", LAMBDA r :
        {Call("CdromAttach", r.name, optsFromCdromAttachRequest(r) @@ Fields(r, {"position", "live"}))})
CdromDetach ==
    Serve("CdromDetach", LAMBDA r : {Call("CdromDetach", r.name, Fields(r, {"device_name", "live"}))})
CdromChangeMedia ==
    Serve("CdromChangeMedia", LAMBDA r :
        {Call("CdromChangeMedia", r.name, Fields(r, {"device_name", "device_media", "live"}))})
CdromRemoveMedia ==
    Serve("CdromRemoveMedia", LAMBDA r :
        {Call("CdromRemoveMedia", r.name, Fields(r, {"device_name", "live"}))})

optsFromDiskAttachRequest(r) ==
    Fields(r, {"disk_path", "iops_rd", "iops_wr", "bootindex"}) @@ [driver |-> DriverName[r.driver]]
DiskAttach ==
    Serve("DiskAttach", LAMBDA r :
        {Call("DiskAttach", r.name, optsFromDiskAttachRequest(r) @@ Fields(r, {"position", "live"}))})
DiskDetach ==
    Serve("DiskDetach", LAMBDA r : {Call("DiskDetach", r.name, Fields(r, {"disk_name", "live"}))})
DiskSetReadLimit ==
    Serve("DiskSetReadLimit", LAMBDA r :
        {Call("DiskSetReadLimit", r.name, Fields(r, {"disk_name", "live"}) @@ [iops_rd |-> r.iops])})
DiskSetWriteLimit ==
    Serve("DiskSetWriteLimit", LAMBDA r :
        {Call("DiskSetWriteLimit", r.name, Fields(r, {"disk_name", "live"}) @@ [iops_wr |-> r.iops])})
DiskRemoveQemuBitmap ==
    Serve("DiskRemoveQemuBitmap", LAMBDA r :
        {Call("DiskRemoveQemuBitmap", r.name, Fields(r, {"disk_name"}))})
DiskResizeQemuBlockdev ==
    Serve("DiskResizeQemuBlockdev", LAMBDA r :
        {Call("DiskResizeQemuBlockdev", r.name, Fields(r, {"disk_name"}))})

optsFromNetIfaceAttachRequest(r) ==
    Fields(r, {"ifname", "hw_addr", "queues"})
    @@ [driver |-> DriverName[r.driver], ifup |-> r.ifup_script, ifdown |-> r.ifdown_script]
NetIfaceAttach ==
    Serve("NetIfaceAttach", LAMBDA r :
        {Call("NetIfaceAttach", r.name, optsFromNetIfaceAttachRequest(r) @@ Fields(r, {"live"}))})
\* Mutant: the interface is taken for the machine.
NetIfaceDetachOfIface ==
    Serve("NetIfaceDetach", LAMBDA r : {Call("NetIfaceDetach", r.ifname, Fields(r, {"ifname", "live"}))})
NetIfaceDetach ==
    Serve("NetIfaceDetach", LAMBDA r : {Call("NetIfaceDetach", r.name, Fields(r, {"ifname", "live"}))})
\* The state is converted by its number: UP and DOWN have the same in both types.
NetIfaceSetLinkState ==
    Serve("NetIfaceSetLinkState", LAMBDA r :
        {Call("NetIfaceSetLinkState", r.name, Fields(r, {"ifname", "state"}))})
NetIfaceSetUpScript ==
    Serve("NetIfaceSetUpScript", LAMBDA r :
        {Call("NetIfaceSetUpScript", r.name, Fields(r, {"ifname"}) @@ [ifup |-> r.path])})
NetIfaceSetDownScript ==
    Serve("NetIfaceSetDownScript", LAMBDA r :
        {Call("NetIfaceSetDownScript", r.name, Fields(r, {"ifname"}) @@ [ifdown |-> r.path])})
NetIfaceSetQueues ==
    Serve("NetIfaceSetQueues", LAMBDA r :
        {Call("NetIfaceSetQueues", r.name, Fields(r, {"ifname", "queues"}))})

\* A request that names no channel is answered as done.
ChannelAttach ==
    Serve("ChannelAttach", LAMBDA r :
        CASE r.channel = "vsock" -> {Call("ChannelAttach_VSock", r.name, Fields(r, {"context_id", "live"}))}
          [] r.channel = "serial_port" -> {Return({"other"})}
          [] OTHER -> {Return({"nil"})})
ChannelDetach ==
    Serve("ChannelDetach", LAMBDA r :
        CASE r.channel = "vsock" -> {Call("ChannelDetach_VSock", r.name, Fields(r, {"live"}))}
          [] r.channel = "serial_port" -> {Return({"other"})}
          [] OTHER -> {Return({"nil"})})

optsFromCloudInitDriveAttachRequest(r) == Fields(r, {"media"}) @@ [driver |-> DriverName[r.driver]]
CloudInitDriveAttach ==
    Serve("CloudInitDriveAttach", LAMBDA r :
        {Call("CloudInitDriveAttach", r.name, optsFromCloudInitDriveAttachRequest(r))})
CloudInitDriveDetach == Serve("CloudInitDriveDetach", LAMBDA r : {Call("CloudInitDriveDetach", r.name, None)})
CloudInitDriveChangeMedia ==
    Serve("CloudInitDriveChangeMedia", LAMBDA r :
        {Call("CloudInitDriveChangeMedia", r.name, Fields(r, {"media", "live"}))})

(***************************************************************************)
(* Background tasks.                                                       *)
(***************************************************************************)
optsFromStartDiskBackupRequest(r) == Fields(r, {"disk_name", "target", "incremental", "clear_bitmap"})
StartDiskBackupProcess ==
    Serve("StartDiskBackupProcess", LAMBDA r :
        {Call("StartDiskBackupProcess", r.name, optsFromStartDiskBackupRequest(r))})
optsFromStartMigrationRequest(r) ==
    Fields(r, {"disks", "create_disks", "remove_after"})
    @@ (IF r.overrides = "" THEN None ELSE Fields(r, DOMAIN MigrationOverrides))
StartMigrationProcess ==
    Serve("StartMigrationProcess", LAMBDA r :
        {Call("StartMigrationProcess", r.name, optsFromStartMigrationRequest(r) @@ Fields(r, {"dst_server"}))})

TaskGet ==
    Serve("TaskService/Get", LAMBDA r :
        {[Call("TaskGetStats", "", r) EXCEPT !.errs = @ \cup {"status NotFound"}]})
TaskList == Serve("TaskService/List", LAMBDA r : {Call("TaskGetStats", "", r)})
TaskCancel == Serve("TaskService/Cancel", LAMBDA r : {Call("TaskCancel", "", r)})

(***************************************************************************)
(* SystemService, CloudInitService, HardwareService.                       *)
(***************************************************************************)
GetAppConf == Serve("GetAppConf", LAMBDA r : {Return({"nil"})})
ServerGracefulShutdown == Serve("ServerGracefulShutdown", LAMBDA r : {Call("GracefulShutdown", "", None)})
optsFromQemuInstanceRegisterRequest(r) == Fields(r, {"mem_actual", "pid"})
QemuInstanceRegister ==
    Serve("QemuInstanceRegister", LAMBDA r :
        {Call("StartInstanceRegistration", r.name, optsFromQemuInstanceRegisterRequest(r))})
QemuInstanceDeregister ==
    Serve("QemuInstanceDeregister", LAMBDA r : {Call("StartInstanceDeregistration", r.name, None)})
optsFromStopQemuInstanceRequest(r) == Fields(r, {"graceful_timeout"})
QemuInstanceStop ==
    Serve("QemuInstanceStop", LAMBDA r :
        {Call("StartInstanceTermination", r.name, optsFromStopQemuInstanceRequest(r))})
optsFromStartIncomingMigrationRequest(r) ==
    Fields(r, {"manifest", "disks", "extra_files", "listen_addr", "create_disks", "turn_off_after"})
StartIncomingMigration ==
    Serve("StartIncomingMigration", LAMBDA r :
        {Call("StartIncomingMigrationProcess", r.name, optsFromStartIncomingMigrationRequest(r))})

optsFromBuildImageRequest(r) ==
    Fields(r, {"platform", "subplatform", "cloudname", "region", "availability_zone", "hostname", "domain",
               "timezone", "vendor_config", "user_config"})
BuildImage ==
    Serve("BuildImage", LAMBDA r :
        {Call("BuildImage", r.machine_name, optsFromBuildImageRequest(r) @@ Fields(r, {"output_file"}))})
ListPCI == Serve("ListPCI", LAMBDA r : {Call("GetPCIDeviceList", "", None)})

(***************************************************************************)
(* NetworkService.                                                         *)
(***************************************************************************)
\* The attributes of the scheme the request chose, and the common ones.
attrsFromNetworkSchemeOpts(r) ==
    Fields(r, {"ifname", "mtu", "addrs", "gateway4", "gateway6"})
    @@ CASE r.attrs = "vlan" -> Fields(r, {"vlan_id", "vlan_parent_interface"})
         [] r.attrs = "vxlan" -> Fields(r, {"vni", "vxlan_bind_interface"})
         [] r.attrs = "router" -> Fields(r, {"router_bind_interface", "in_limit", "out_limit"})
         [] r.attrs = "bridge" -> Fields(r, {"bridge_name"})
         [] OTHER -> None
CreateConf ==
    Serve("CreateConf", LAMBDA r :
        IF r.options = "" THEN {Return({"other"})}
        ELSE {Call("CreateConf", r.name, attrsFromNetworkSchemeOpts(r) @@ Fields(r, {"attrs", "configure"}))})
\* Only what the request carries is updated; a carried zero is an update.
setFromUpdateConfRequest(r) ==
    LET Carried(part, arg, v) == IF r[part] = "" THEN None ELSE arg :> v
    IN Carried("in_limit", "in_limit", r.in_limit_value) @@ Carried("out_limit", "out_limit", r.out_limit_value)
       @@ Carried("mtu", "mtu", r.mtu_value) @@ Carried("gateway4", "gateway4", r.gateway4_value)
       @@ Carried("gateway6", "gateway6", r.gateway6_value)
       @@ Carried("addrs", "append_addr", r.append_addr) @@ Carried("addrs", "remove_addr", r.remove_addr)
UpdateConf ==
    Serve("UpdateConf", LAMBDA r :
        {Call("UpdateConf", r.name, setFromUpdateConfRequest(r) @@ Fields(r, {"ifname", "apply"}))})
DeleteConf ==
    Serve("DeleteConf", LAMBDA r : {Call("RemoveConf", r.name, Fields(r, {"ifname", "deconfigure"}))})
Configure ==
    Serve("Configure", LAMBDA r :
        {Call("ConfigureHostNetwork", r.name,
              Fields(r, {"ifname"}) @@ [stage |-> IF r.second_stage = "" THEN "FIRST" ELSE "SECOND"])})
Deconfigure ==
    Serve("Deconfigure", LAMBDA r : {Call("DeconfigureHostNetwork", r.name, Fields(r, {"ifname"}))})
ListEndpoints == Serve("ListEndpoints", LAMBDA r : {Return({"nil"})})

ServeMachine ==
    \/ Create \/ Delete \/ Get \/ GetEvents \/ Start \/ Stop \/ Restart \/ Reset \/ List \/ ListNames
    \/ FirmwareSet \/ FirmwareRemove \/ ExternalKernelSet \/ ExternalKernelRemove
    \/ MemorySetLimits \/ CPUSetLimits \/ CPUSetSockets \/ CPUSetQuota \/ CPUSetModel
    \/ HostDeviceAttach \/ HostDeviceDetach \/ HostDeviceSetMultifunctionOption
    \/ HostDeviceSetPrimaryGPUOption \/ VNCActivate \/ InputDeviceAttach \/ InputDeviceDetach
    \/ CdromAttach \/ CdromDetach \/ CdromChangeMedia \/ CdromRemoveMedia
    \/ DiskAttach \/ DiskDetach \/ DiskSetReadLimit \/ DiskSetWriteLimit \/ DiskRemoveQemuBitmap
    \/ DiskResizeQemuBlockdev \/ NetIfaceAttach \/ NetIfaceDetach \/ NetIfaceSetLinkState
    \/ NetIfaceSetUpScript \/ NetIfaceSetDownScript \/ NetIfaceSetQueues
    \/ ChannelAttach \/ ChannelDetach \/ CloudInitDriveAttach \/ CloudInitDriveDetach
    \/ CloudInitDriveChangeMedia \/ StartDiskBackupProcess \/ StartMigrationProcess
ServeTasks == TaskGet \/ TaskList \/ TaskCancel
ServeSystem == GetAppConf \/ ServerGracefulShutdown \/ QemuInstanceRegister \/ QemuInstanceDeregister
               \/ QemuInstanceStop \/ StartIncomingMigration
ServeNetwork == CreateConf \/ UpdateConf \/ DeleteConf \/ Configure \/ Deconfigure \/ ListEndpoints
ServeRequest == ServeMachine \/ ServeTasks \/ ServeSystem \/ ServeNetwork \/ BuildImage \/ ListPCI
===============================================================================
