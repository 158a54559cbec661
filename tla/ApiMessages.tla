----------------------------- MODULE ApiMessages -----------------------------
(***************************************************************************)
(* The messages of the gRPC services (api/). A message type is a function  *)
(* from its fields to their kinds; a message is a function from the fields *)
(* to values. A value is a string that tells where it comes from, and ""   *)
(* is the zero value of every kind but the enumerations: what matters here *)
(* is which value reaches which argument, and that a zero value cannot be  *)
(* told from a field that was never set. The fields of a nested message    *)
(* are listed with those of the message that holds it, next to the field   *)
(* that says whether it is there; a repeated field has at most one element.*)
(***************************************************************************)
EXTENDS Functions, TLC

(***************************************************************************)
(* Enumerations.                                                           *)
(***************************************************************************)
MachineState == {"NOSTATE", "STARTING", "RUNNING", "PAUSED", "SHUTDOWN",
                 "INACTIVE", "CRASHED", "INCOMING", "MIGRATING", "MIGRATED"}
NetIfaceDriver == {"UNDEFINED_NET_DRIVER", "VIRTIO_NET_PCI", "RTL8139", "E1000"}
NetIfaceLinkState == {"UNDEFINED_LINK_STATE", "UP", "DOWN"}
DiskDriver == {"UNDEFINED_DISK_DRIVER", "VIRTIO_BLK_PCI", "SCSI_HD", "IDE_HD"}
CdromDriver == {"UNDEFINED_CDROM_DRIVER", "SCSI_CD", "IDE_CD"}
CloudInitDriver == {"UNDEFINED_CLOUDINIT_DRIVER", "CI_IDE_CD", "CI_FLOPPY"}
InputDeviceType == {"UNDEFINED_INPUT_TYPE", "USB_TABLET"}

\* The value a getter returns for a field that is not set.
Zero == [string |-> "", bytes |-> "", bool |-> "", uint32 |-> "", int32 |-> "",
         repeated |-> "", map |-> "", message |-> "", oneof |-> "",
         NetIfaceDriver |-> "UNDEFINED_NET_DRIVER", NetIfaceLinkState |-> "UNDEFINED_LINK_STATE",
         DiskDriver |-> "UNDEFINED_DISK_DRIVER", CdromDriver |-> "UNDEFINED_CDROM_DRIVER",
         CloudInitDriver |-> "UNDEFINED_CLOUDINIT_DRIVER", InputDeviceType |-> "UNDEFINED_INPUT_TYPE"]

New(M) == [f \in DOMAIN M |-> Zero[M[f]]]

\* The encoding carries the fields that are not zero; the decoder fills in the rest.
Marshal(m, M) == Restrict(m, {f \in DOMAIN M : m[f] # Zero[M[f]]})
Unmarshal(w, M) == w @@ New(M)

(***************************************************************************)
(* kvmrun.api.types.v2                                                     *)
(***************************************************************************)
MachineOpts_Firmware == [firmware |-> "message", firmware_image |-> "string", firmware_flash |-> "string"]
MachineOpts_Memory == [memory_actual |-> "uint32", memory_total |-> "uint32"]
MachineOpts_CPU == [cpu_actual |-> "uint32", cpu_total |-> "uint32", cpu_sockets |-> "uint32",
                    cpu_model |-> "string", cpu_quota |-> "uint32"]
MachineOpts_InputDevice == [inputs_type |-> "string"]
MachineOpts_Cdrom == [cdrom_name |-> "string", cdrom_media |-> "string", cdrom_driver |-> "string",
                      cdrom_readonly |-> "bool", cdrom_bootindex |-> "uint32", cdrom_addr |-> "string"]
MachineOpts_Disk == [storage_path |-> "string", storage_driver |-> "string", storage_iops_rd |-> "uint32",
                     storage_iops_wr |-> "uint32", storage_bootindex |-> "uint32", storage_addr |-> "string"]
MachineOpts_NetIface == [network_ifname |-> "string", network_driver |-> "string", network_hw_addr |-> "string",
                         network_ifup |-> "string", network_ifdown |-> "string", network_addr |-> "string",
                         network_queues |-> "uint32"]
MachineOpts_ChannelVSock == [vsock_device |-> "message", vsock_context_id |-> "uint32", vsock_addr |-> "string"]
MachineOpts_CloudInit == [cloudinit_drive |-> "message", cloudinit_path |-> "string", cloudinit_driver |-> "string"]
MachineOpts_Kernel == [kernel_image |-> "string", kernel_initrd |-> "string", kernel_modiso |-> "string",
                       kernel_cmdline |-> "string"]
MachineOpts_HostDevice == [hostpci_pci_addr |-> "string", hostpci_multifunction |-> "bool",
                           hostpci_primary_gpu |-> "bool"]
MachineOpts ==
    [machine_type |-> "string"]
    @@ MachineOpts_Firmware @@ MachineOpts_Memory @@ MachineOpts_CPU @@ MachineOpts_InputDevice
    @@ MachineOpts_Cdrom @@ MachineOpts_Disk @@ MachineOpts_NetIface @@ MachineOpts_ChannelVSock
    @@ MachineOpts_CloudInit @@ MachineOpts_Kernel @@ MachineOpts_HostDevice
MigrationOverrides == [overrides_name |-> "string", overrides_disks |-> "map", overrides_net_ifaces |-> "map"]

NetworkSchemeOpts_Attrs_VLAN == [vlan_id |-> "uint32", vlan_parent_interface |-> "string"]
NetworkSchemeOpts_Attrs_VxLAN == [vni |-> "uint32", vxlan_bind_interface |-> "string"]
NetworkSchemeOpts_Attrs_Router == [router_bind_interface |-> "string", in_limit |-> "uint32",
                                   out_limit |-> "uint32", process_id |-> "uint32"]
NetworkSchemeOpts_Attrs_Bridge == [bridge_name |-> "string"]
NetworkSchemeOpts ==
    [ifname |-> "string", mtu |-> "uint32", attrs |-> "oneof", addrs |-> "repeated",
     gateway4 |-> "string", gateway6 |-> "string"]
    @@ NetworkSchemeOpts_Attrs_VLAN @@ NetworkSchemeOpts_Attrs_VxLAN
    @@ NetworkSchemeOpts_Attrs_Router @@ NetworkSchemeOpts_Attrs_Bridge

(***************************************************************************)
(* MachineService: requests.                                               *)
(***************************************************************************)
CreateRequest == [name |-> "string", options |-> "message", persistent |-> "bool",
                  extra_files |-> "map", qemu_rootdir |-> "string"] @@ MachineOpts
DeleteRequest == [name |-> "string", force |-> "bool"]
GetRequest == [name |-> "string"]
GetEventsRequest == [name |-> "string"]
StartRequest == [name |-> "string", wait_interval |-> "uint32"]
StopRequest == [name |-> "string", wait |-> "bool", force |-> "bool"]
RestartRequest == [name |-> "string", wait |-> "bool"]
ResetRequest == [name |-> "string", wait |-> "bool"]
ListRequest == [names |-> "repeated"]
ListNamesRequest == [names |-> "repeated"]
FirmwareSetRequest == [name |-> "string", image |-> "string", flash |-> "string", qemu_rootdir |-> "string"]
FirmwareRemoveRequest == [name |-> "string"]
MemorySetLimitsRequest == [name |-> "string", actual |-> "uint32", total |-> "uint32", live |-> "bool"]
CPUSetLimitsRequest == [name |-> "string", actual |-> "uint32", total |-> "uint32", live |-> "bool"]
CPUSetSocketsRequest == [name |-> "string", sockets |-> "uint32"]
CPUSetQuotaRequest == [name |-> "string", quota |-> "uint32", live |-> "bool"]
CPUSetModelRequest == [name |-> "string", model |-> "string"]
HostDeviceAttachRequest == [name |-> "string", pci_addr |-> "string", multifunction |-> "bool",
                            primary_gpu |-> "bool", strict_mode |-> "bool"]
HostDeviceDetachRequest == [name |-> "string", pci_addr |-> "string"]
HostDeviceSetMultifunctionOptionRequest == [name |-> "string", pci_addr |-> "string", enabled |-> "bool"]
HostDeviceSetPrimaryGPUOptionRequest == [name |-> "string", pci_addr |-> "string", enabled |-> "bool"]
VNCActivateRequest == [name |-> "string", password |-> "string"]
InputDeviceAttachRequest == [name |-> "string", type |-> "InputDeviceType"]
InputDeviceDetachRequest == [name |-> "string", type |-> "InputDeviceType"]
CdromAttachRequest == [name |-> "string", device_name |-> "string", device_media |-> "string",
                       driver |-> "CdromDriver", readonly |-> "bool", bootindex |-> "int32",
                       position |-> "int32", live |-> "bool"]
CdromDetachRequest == [name |-> "string", device_name |-> "string", live |-> "bool"]
CdromChangeMediaRequest == [name |-> "string", device_name |-> "string", device_media |-> "string", live |-> "bool"]
CdromRemoveMediaRequest == [name |-> "string", device_name |-> "string", live |-> "bool"]
DiskAttachRequest == [name |-> "string", disk_path |-> "string", driver |-> "DiskDriver",
                      iops_rd |-> "uint32", iops_wr |-> "uint32", bootindex |-> "int32",
                      position |-> "int32", live |-> "bool"]
DiskDetachRequest == [name |-> "string", disk_name |-> "string", live |-> "bool"]
DiskSetIOLimitRequest == [name |-> "string", disk_name |-> "string", iops |-> "uint32", live |-> "bool"]
DiskRemoveQemuBitmapRequest == [name |-> "string", disk_name |-> "string"]
DiskResizeQemuBlockdevRequest == [name |-> "string", disk_name |-> "string"]
NetIfaceAttachRequest == [name |-> "string", ifname |-> "string", driver |-> "NetIfaceDriver",
                          hw_addr |-> "string", ifup_script |-> "string", ifdown_script |-> "string",
                          queues |-> "uint32", live |-> "bool"]
NetIfaceDetachRequest == [name |-> "string", ifname |-> "string", live |-> "bool"]
NetIfaceSetScriptRequest == [name |-> "string", ifname |-> "string", path |-> "string"]
NetIfaceSetLinkStateRequest == [name |-> "string", ifname |-> "string", state |-> "NetIfaceLinkState"]
NetIfaceSetQueuesRequest == [name |-> "string", ifname |-> "string", queues |-> "uint32"]
ChannelAttachRequest == [name |-> "string", channel |-> "oneof", context_id |-> "uint32",
                         port_id |-> "string", port_guest_name |-> "string", live |-> "bool"]
ChannelDetachRequest == [name |-> "string", channel |-> "oneof", port_id |-> "string", live |-> "bool"]
CloudInitDriveAttachRequest == [name |-> "string", media |-> "string", driver |-> "CloudInitDriver"]
CloudInitDriveDetachRequest == [name |-> "string"]
CloudInitDriveChangeMediaRequest == [name |-> "string", media |-> "string", live |-> "bool"]
StartDiskBackupRequest == [name |-> "string", disk_name |-> "string", target |-> "string",
                           incremental |-> "bool", clear_bitmap |-> "bool"]
StartMigrationRequest == [name |-> "string", dst_server |-> "string", disks |-> "repeated",
                          overrides |-> "message", create_disks |-> "bool",
                          remove_after |-> "bool"] @@ MigrationOverrides
ExternalKernelSetRequest == [name |-> "string", image |-> "string", initrd |-> "string",
                             cmdline |-> "string", modiso |-> "string"]
ExternalKernelRemoveRequest == [name |-> "string"]

(***************************************************************************)
(* The other services: requests.                                           *)
(***************************************************************************)
TaskGetRequest == [key |-> "string"]
TaskListRequest == [keys |-> "repeated"]
TaskCancelRequest == [key |-> "string"]
QemuInstanceRegisterRequest == [name |-> "string", mem_actual |-> "uint32", pid |-> "uint32"]
QemuInstanceDeregisterRequest == [name |-> "string"]
QemuInstanceStopRequest == [name |-> "string", graceful_timeout |-> "uint32"]
StartIncomingMigrationRequest == [name |-> "string", manifest |-> "bytes", disks |-> "map",
                                  extra_files |-> "map", create_disks |-> "bool",
                                  listen_addr |-> "string", turn_off_after |-> "bool"]
BuildImageRequest == [machine_name |-> "string", platform |-> "string", subplatform |-> "string",
                      cloudname |-> "string", region |-> "string", availability_zone |-> "string",
                      hostname |-> "string", domain |-> "string", timezone |-> "string",
                      vendor_config |-> "bytes", user_config |-> "bytes", output_file |-> "string"]
ListPCIRequest == [f \in {} |-> "string"]
ConfigureRequest == [name |-> "string", ifname |-> "string", second_stage |-> "bool"]
DeconfigureRequest == [name |-> "string", ifname |-> "string"]
CreateConfRequest == [name |-> "string", options |-> "message", configure |-> "bool"] @@ NetworkSchemeOpts
UpdateConfRequest_Addr == [append_addr |-> "string", remove_addr |-> "string"]
UpdateConfRequest_Limit == [in_limit_value |-> "uint32", out_limit_value |-> "uint32"]
UpdateConfRequest_MTU == [mtu_value |-> "uint32"]
UpdateConfRequest_Gateway == [gateway4_value |-> "string", gateway6_value |-> "string"]
UpdateConfRequest ==
    [name |-> "string", ifname |-> "string", in_limit |-> "message", out_limit |-> "message",
     addrs |-> "repeated", mtu |-> "message", gateway4 |-> "message", gateway6 |-> "message", apply |-> "bool"]
    @@ UpdateConfRequest_Addr @@ UpdateConfRequest_Limit @@ UpdateConfRequest_MTU @@ UpdateConfRequest_Gateway
DeleteConfRequest == [name |-> "string", ifname |-> "string", deconfigure |-> "bool"]
==============================================================================
