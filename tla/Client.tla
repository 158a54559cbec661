-------------------------------- MODULE Client --------------------------------
(***************************************************************************)
(* The command line tools vmm and vnetctl (cmd/, client/): a command line  *)
(* becomes a sequence of requests, which are sent one after the other and  *)
(* served as in module Services; the first error ends the command, and its *)
(* exit code is made of the error.                                         *)
(*                                                                         *)
(* A flag's value is the text typed for it: its own name stands for any    *)
(* text of its kind, "" is an empty text or a zero, "bad" one that the     *)
(* flag does not accept.                                                   *)
(*                                                                         *)
(* command  the command line: [name, args, flags]                          *)
(* todo     the requests still to be sent, the one in progress first       *)
(* answers  the status codes received so far                               *)
(* seen     the machine a command has read, in order to go on              *)
(* outcome  the exit code, or "" while the command runs                    *)
(***************************************************************************)
EXTENDS Services, SequencesExt

VARIABLES command, todo, answers, seen, outcome
clientVars == <<vars, command, todo, answers, seen, outcome>>

NoCommand == [name |-> "", args |-> <<>>, flags |-> None]

(***************************************************************************)
(* Flag values.                                                            *)
(***************************************************************************)
CdromDriver_Set == ("undefined-cdrom-driver" :> "UNDEFINED_CDROM_DRIVER") @@ ("scsi-cd" :> "SCSI_CD") @@ ("ide-cd" :> "IDE_CD")
DiskDriver_Set == ("undefined-disk-driver" :> "UNDEFINED_DISK_DRIVER") @@ ("virtio-blk-pci" :> "VIRTIO_BLK_PCI")
                  @@ ("scsi-hd" :> "SCSI_HD") @@ ("ide-hd" :> "IDE_HD")
NetIfaceDriver_Set == ("undefined-net-driver" :> "UNDEFINED_NET_DRIVER") @@ ("virtio-net-pci" :> "VIRTIO_NET_PCI")
                      @@ ("rtl8139" :> "RTL8139") @@ ("e1000" :> "E1000")
CloudInitDriver_Set == ("ide-cd" :> "CI_IDE_CD") @@ ("floppy" :> "CI_FLOPPY")
InputDeviceType_Set == ("undefined-input-type" :> "UNDEFINED_INPUT_TYPE") @@ ("usb-tablet" :> "USB_TABLET")
NetIfaceLinkState_Set == [up |-> "UP", down |-> "DOWN"]
StringBool_Set == [on |-> "true", off |-> ""]
NetworkSchemeType_Set == [manual |-> "MANUAL", routed |-> "ROUTED", bridge |-> "BRIDGE", vxlan |-> "VXLAN", vlan |-> "VLAN"]
                         @@ ("bridge-vxlan" :> "VXLAN") @@ ("bridge-vlan" :> "VLAN")

Set == [CdromDriver |-> CdromDriver_Set, DiskDriver |-> DiskDriver_Set, NetIfaceDriver |-> NetIfaceDriver_Set,
        CloudInitDriver |-> CloudInitDriver_Set, InputDeviceType |-> InputDeviceType_Set,
        LinkState |-> NetIfaceLinkState_Set, StringBool |-> StringBool_Set, SchemeType |-> NetworkSchemeType_Set]

\* What may be typed for a flag of a kind. A file may be absent; an environment
\* variable is a flag that the command does not list.
Typed(f, kind) ==
    CASE kind \in DOMAIN Set -> DOMAIN Set[kind] \cup {"bad"}
      [] kind = "int" -> {f, "", "-1", "bad"}
      [] kind \in {"uint", "map", "hwaddr", "range"} -> {f, "bad"} \cup (IF kind = "uint" THEN {""} ELSE {})
      [] kind = "bool" -> {"true", ""}
      [] kind = "firmware" -> {f, "", "efi", "bios"}
      [] kind = "file" -> {f, "", "absent"}
      [] kind = "slice" -> {f}
      [] OTHER -> {f, ""}

\* The command lines with at most three flags.
Settings(flags) == UNION {{<<f, v>> : v \in Typed(f, flags[f])} : f \in DOMAIN flags}
Lines(flags) ==
    LET S == Settings(flags)
        Chosen == {{}} \cup {{a, b, d} : a, b, d \in S}
        Function(s) == [f \in {a[1] : a \in s} |-> (CHOOSE a \in s : a[1] = f)[2]]
    IN {Function(s) : s \in {t \in Chosen : \A a, b \in t : a[1] = b[1] => a = b}}

IsSet(c, f) == f \in DOMAIN c.flags
Value(c, f, default) == IF IsSet(c, f) THEN c.flags[f] ELSE default
Text(c, f) == Value(c, f, "")
Parsed(c, f, kind, default) == Set[kind][Value(c, f, default)]
On(c, f) == Text(c, f) = "true"

\* A negative number becomes a large one when it is stored without a sign.
Unsigned(v) == IF v = "-1" THEN "4294967295" ELSE v
Abs(v) == "/cwd/" \o v
AbsOrEmpty(v) == IF v = "" THEN "" ELSE Abs(v)

(***************************************************************************)
(* Requests. Each of the functions under client/ builds the requests it    *)
(* sends. A request may read a machine first: what follows it needs the    *)
(* machine to be in one of the states "needs".                             *)
(***************************************************************************)
Request(method, fields) ==
    [method |-> method, msg |-> fields, needs |-> MachineState, fill |-> FALSE]
Send(method, fields) == <<Request(method, fields)>>
Fail == Send("fail", None)
If(condition, requests) == IF condition THEN requests ELSE <<>>

Vm(c) == [name |-> c.args[1]]
Device(c) == c.args[2]
Live(c) == [live |-> Text(c, "live")]

MachineCreateConf(c) ==
    Send("Create", Vm(c) @@
        [options |-> "options", cpu_model |-> Text(c, "cpu-model"), cpu_quota |-> Unsigned(Text(c, "cpu-quota"))]
        @@ (IF Text(c, "firmware") = "" THEN None
            ELSE [firmware |-> "firmware",
                  firmware_image |-> IF Text(c, "firmware") \in {"efi", "uefi", "ovmf"} THEN Text(c, "firmware")
                                     ELSE Abs(Text(c, "firmware")),
                  firmware_flash |-> AbsOrEmpty(Text(c, "flash-device"))])
        @@ [qemu_rootdir |-> AbsOrEmpty(Text(c, "QEMU_ROOTDIR"))])
MachineRemoveConf(c) == Send("Delete", Vm(c) @@ [force |-> "true"])
MachineInspect(c) == Send("Get", Vm(c))
MachineListEvents(c) == Send("GetEvents", Vm(c))
MachineList(c) == Send("List", [names |-> IF c.args = <<>> THEN "" ELSE c.args[1]])
MachineListNames(c) == Send("ListNames", [names |-> IF c.args = <<>> THEN "" ELSE c.args[1]])

BootParametersSet(c) ==
    IF On(c, "remove-conf") THEN Send("FirmwareRemove", Vm(c))
    ELSE If(Text(c, "firmware") # "",
            Send("FirmwareSet", Vm(c) @@
                [image |-> IF Text(c, "firmware") \in {"efi", "uefi", "ovmf", "bios", "legacy"} THEN Text(c, "firmware")
                           ELSE Abs(Text(c, "firmware")),
                 flash |-> AbsOrEmpty(Text(c, "flash-device")),
                 qemu_rootdir |-> AbsOrEmpty(Text(c, "QEMU_ROOTDIR"))]))

MachineCdromAttach(c) ==
    Send("CdromAttach", Vm(c) @@ Live(c) @@
        [device_name |-> Device(c), device_media |-> Text(c, "media"), position |-> Value(c, "position", "-1"),
         bootindex |-> Text(c, "bootindex"), readonly |-> Text(c, "read-only"),
         driver |-> Parsed(c, "driver", "CdromDriver", "ide-cd")])
MachineCdromDetach(c) == Send("CdromDetach", Vm(c) @@ Live(c) @@ [device_name |-> Device(c)])
MachineCdromChangeMedia(c) ==
    If(IsSet(c, "media"),
       Send("CdromChangeMedia", Vm(c) @@ Live(c) @@ [device_name |-> Device(c), device_media |-> Text(c, "media")]))
MachineCdromRemoveMedia(c) ==
    If(On(c, "remove-media"), Send("CdromRemoveMedia", Vm(c) @@ [device_name |-> Device(c)]))

MachineDiskAttach(c) ==
    Send("DiskAttach", Vm(c) @@ Live(c) @@
        [disk_path |-> Device(c), iops_rd |-> Unsigned(Text(c, "iops-rd")), iops_wr |-> Unsigned(Text(c, "iops-wr")),
         position |-> Value(c, "position", "-1"), bootindex |-> Text(c, "bootindex"),
         driver |-> Parsed(c, "driver", "DiskDriver", "virtio-blk-pci")])
MachineDiskDetach(c) == Send("DiskDetach", Vm(c) @@ Live(c) @@ [disk_name |-> Device(c)])
MachineDiskRemoveQemuBitmap(c) ==
    If(On(c, "remove-bitmap"), Send("DiskRemoveQemuBitmap", Vm(c) @@ [disk_name |-> Device(c)]))
MachineDiskSetReadLimit(c) ==
    If(IsSet(c, "iops-rd"),
       Send("DiskSetReadLimit", Vm(c) @@ Live(c) @@ [disk_name |-> Device(c), iops |-> Unsigned(Text(c, "iops-rd"))]))
MachineDiskSetWriteLimit(c) ==
    If(IsSet(c, "iops-wr"),
       Send("DiskSetWriteLimit", Vm(c) @@ Live(c) @@ [disk_name |-> Device(c), iops |-> Unsigned(Text(c, "iops-wr"))]))
MachineDiskResizeQemuBlockdev(c) == Send("DiskResizeQemuBlockdev", Vm(c) @@ [disk_name |-> Device(c)])

\* An address that is not one of a PCI device ends the command before any request.
AddressFromHex(c, requests) == IF Device(c) = "invalid" THEN Fail ELSE requests
MachineHostDeviceAttach(c) ==
    AddressFromHex(c,
        Send("HostDeviceAttach", Vm(c) @@
            [pci_addr |-> Device(c), strict_mode |-> IF On(c, "no-check-device") THEN "" ELSE "true",
             multifunction |-> Parsed(c, "multifunction", "StringBool", "off"),
             primary_gpu |-> Parsed(c, "primary-gpu", "StringBool", "off")]))
MachineHostDeviceDetach(c) == AddressFromHex(c, Send("HostDeviceDetach", Vm(c) @@ [pci_addr |-> Device(c)]))
MachineHostDeviceSetOptions(c) ==
    LET Option(flag, method) ==
            If(IsSet(c, flag),
               Send(method, Vm(c) @@ [pci_addr |-> Device(c), enabled |-> Parsed(c, flag, "StringBool", "off")]))
    IN AddressFromHex(c, Option("multifunction", "HostDeviceSetMultifunctionOption")
                         \o Option("primary-gpu", "HostDeviceSetPrimaryGPUOption"))

MachineInputDeviceAttach(c) ==
    Send("InputDeviceAttach", Vm(c) @@ [type |-> Parsed(c, "type", "InputDeviceType", "usb-tablet")])
MachineInputDeviceDetach(c) ==
    Send("InputDeviceDetach", Vm(c) @@ [type |-> Parsed(c, "type", "InputDeviceType", "usb-tablet")])

MachineNetIfaceAttach(c) ==
    Send("NetIfaceAttach", Vm(c) @@ Live(c) @@
        [ifname |-> Device(c), queues |-> Text(c, "queues"), hw_addr |-> Text(c, "hwaddr"),
         ifup_script |-> Text(c, "ifup-script"), ifdown_script |-> Text(c, "ifdown-script"),
         driver |-> Parsed(c, "driver", "NetIfaceDriver", "virtio-net-pci")])
MachineNetIfaceDetach(c) == Send("NetIfaceDetach", Vm(c) @@ Live(c) @@ [ifname |-> Device(c)])
MachineNetIfaceSetParameters(c) ==
    LET Parameter(flag, method, field) ==
            If(IsSet(c, flag), Send(method, Vm(c) @@ [ifname |-> Device(c)] @@ field))
    IN Parameter("queues", "NetIfaceSetQueues", [queues |-> Text(c, "queues")])
       \o Parameter("ifup-script", "NetIfaceSetUpScript", [path |-> AbsOrEmpty(Text(c, "ifup-script"))])
       \o Parameter("ifdown-script", "NetIfaceSetDownScript", [path |-> AbsOrEmpty(Text(c, "ifdown-script"))])
       \o Parameter("link-state", "NetIfaceSetLinkState", [state |-> Parsed(c, "link-state", "LinkState", "up")])

MachineChannelAttach_VSock(c) ==
    Send("ChannelAttach", Vm(c) @@ Live(c) @@ [channel |-> "vsock", context_id |-> Text(c, "cid")])
MachineChannelDetach_VSock(c) == Send("ChannelDetach", Vm(c) @@ Live(c) @@ [channel |-> "vsock"])

MachineExternalKernelSetParameters(c) ==
    IF On(c, "remove-conf") THEN Send("ExternalKernelRemove", Vm(c))
    ELSE Send("ExternalKernelSet", Vm(c) @@
            [image |-> Text(c, "image"), initrd |-> Text(c, "initrd"), cmdline |-> Text(c, "cmdline"),
             modiso |-> Text(c, "modiso")])

MachineCloudInitDriveAttach(c) ==
    Send("CloudInitDriveAttach", Vm(c) @@
        [media |-> Abs(Device(c)), driver |-> Parsed(c, "driver", "CloudInitDriver", "ide-cd")])
MachineCloudInitDriveDetach(c) == Send("CloudInitDriveDetach", Vm(c))
MachineCloudInitDriveChangeMedia(c) ==
    Send("CloudInitDriveChangeMedia", Vm(c) @@ Live(c) @@ [media |-> Abs(Device(c))])
MachineCloudInitDriveBuildImage(c) ==
    IF "absent" \in {Text(c, "vendor-config"), Text(c, "user-config")} THEN Fail
    ELSE Send("BuildImage",
            [machine_name |-> c.args[1], platform |-> Text(c, "platform"), subplatform |-> Text(c, "subplatform"),
             cloudname |-> Text(c, "cloudname"), region |-> Text(c, "region"), availability_zone |-> Text(c, "zone"),
             hostname |-> Text(c, "hostname"), domain |-> Text(c, "domain"), timezone |-> Text(c, "timezone"),
             vendor_config |-> Text(c, "vendor-config"), user_config |-> Text(c, "user-config"),
             output_file |-> IF Len(c.args) > 1 THEN Abs(Device(c)) ELSE "config_cidata"])

MachineStart(c) == Send("Start", Vm(c) @@ [wait_interval |-> Text(c, "wait")])
MachineStop(c) == Send("Stop", Vm(c) @@ [wait |-> Text(c, "wait"), force |-> Text(c, "force")])
MachineRestart(c) == Send("Restart", Vm(c) @@ [wait |-> Text(c, "wait")])
MachineReset(c) == Send("Reset", Vm(c))
MachineMemorySetParameters(c) ==
    Send("MemorySetLimits", Vm(c) @@ Live(c) @@
        [actual |-> Unsigned(Text(c, "actual")), total |-> Unsigned(Text(c, "total"))])
\* Mutant: a zero is taken for a flag that was not given.
MachineCPUSetParametersNonZero(c) ==
    If(Text(c, "actual") # "" \/ Text(c, "total") # "",
       Send("CPUSetLimits", Vm(c) @@ Live(c) @@
            [actual |-> Unsigned(Text(c, "actual")), total |-> Unsigned(Text(c, "total"))]))
    \o If(Text(c, "sockets") # "", Send("CPUSetSockets", Vm(c) @@ [sockets |-> Unsigned(Text(c, "sockets"))]))
    \o If(Text(c, "quota") # "", Send("CPUSetQuota", Vm(c) @@ Live(c) @@ [quota |-> Unsigned(Text(c, "quota"))]))
    \o If(Text(c, "model") # "", Send("CPUSetModel", Vm(c) @@ [model |-> Text(c, "model")]))
MachineCPUSetParameters(c) ==
    If(IsSet(c, "actual") \/ IsSet(c, "total"),
       Send("CPUSetLimits", Vm(c) @@ Live(c) @@
            [actual |-> Unsigned(Text(c, "actual")), total |-> Unsigned(Text(c, "total"))]))
    \o If(IsSet(c, "sockets"), Send("CPUSetSockets", Vm(c) @@ [sockets |-> Unsigned(Text(c, "sockets"))]))
    \o If(IsSet(c, "quota"), Send("CPUSetQuota", Vm(c) @@ Live(c) @@ [quota |-> Unsigned(Text(c, "quota"))]))
    \o If(IsSet(c, "model"), Send("CPUSetModel", Vm(c) @@ [model |-> Text(c, "model")]))
MachineActivateVNC(c) == Send("VNCActivate", Vm(c) @@ [password |-> Text(c, "password")])

\* The console replaces the process by socat, if it is installed.
MachineConsoleConnect(c) ==
    <<[Request("Get", Vm(c)) EXCEPT !.needs = {"RUNNING", "MIGRATING"}], Request("socat", None)>>

\* The disks of the machine as it runs, when they are all to be copied.
MigrationProcessStart(c) ==
    LET Start_(disks) ==
            Request("StartMigrationProcess", Vm(c) @@
                [dst_server |-> Device(c), overrides |-> "overrides", disks |-> disks,
                 create_disks |-> Text(c, "create-disks"), overrides_name |-> Text(c, "override-name"),
                 overrides_disks |-> Text(c, "override-disk"), overrides_net_ifaces |-> Text(c, "override-net")])
    IN IF On(c, "with-local-disks")
       THEN <<[Request("Get", Vm(c)) EXCEPT !.needs = {"PAUSED", "RUNNING"}], [Start_("") EXCEPT !.fill = TRUE]>>
       ELSE <<Start_(Text(c, "with-disk"))>>
MigrationProcessCancel(c) == Send("TaskService/Cancel", [key |-> c.args[1] \o "/migration"])
BackupProcessStart(c) ==
    IF Len(c.args) < 3 THEN Fail
    ELSE Send("StartDiskBackupProcess", Vm(c) @@
            [disk_name |-> c.args[2], target |-> c.args[3], incremental |-> Text(c, "incremental"),
             clear_bitmap |-> Text(c, "clear-bitmap")])
BackupProcessCancel(c) ==
    IF Len(c.args) < 2 THEN Fail
    ELSE Send("TaskService/Cancel", [key |-> c.args[1] \o "/disk-backup/" \o c.args[2]])

TaskPrintList(c) == Send("TaskService/List", None)
PCI_PrintList(c) == Send("ListPCI", None)

NetworkSchemeCreateConf(c) ==
    LET Attrs == [ROUTED |-> [attrs |-> "router", router_bind_interface |-> Text(c, "parent-interface"),
                              in_limit |-> Text(c, "in-limit"), out_limit |-> Text(c, "out-limit")],
                  BRIDGE |-> [attrs |-> "bridge", bridge_name |-> Text(c, "bridge-name")],
                  VXLAN |-> [attrs |-> "vxlan", vxlan_bind_interface |-> Text(c, "parent-interface"),
                             vni |-> Text(c, "vni")],
                  VLAN |-> [attrs |-> "vlan", vlan_parent_interface |-> Text(c, "parent-interface"),
                            vlan_id |-> Text(c, "vlan-id")],
                  MANUAL |-> None]
    IN Send("CreateConf", Vm(c) @@
            [options |-> "options", ifname |-> Device(c), mtu |-> Text(c, "mtu"), addrs |-> Text(c, "ip"),
             gateway4 |-> Value(c, "gateway4", "auto"), gateway6 |-> Value(c, "gateway6", "auto")]
            @@ Attrs[Parsed(c, "type", "SchemeType", "manual")])
NetworkSchemeUpdateConf(c) ==
    LET Part(flag, message, field) == IF IsSet(c, flag) THEN (message :> message) @@ (field :> Text(c, flag)) ELSE None
    IN Send("UpdateConf", Vm(c) @@ [ifname |-> Device(c)]
            @@ Part("mtu", "mtu", "mtu_value") @@ Part("gateway4", "gateway4", "gateway4_value")
            @@ Part("gateway6", "gateway6", "gateway6_value") @@ Part("in-limit", "in_limit", "in_limit_value")
            @@ Part("out-limit", "out_limit", "out_limit_value")
            @@ Part("del-ip", "addrs", "remove_addr") @@ Part("add-ip", "addrs", "append_addr"))
NetworkSchemeRemoveConf(c) == Send("DeleteConf", Vm(c) @@ [ifname |-> Device(c)])

\* The hooks take the machine from the directory they are run in. A machine's name
\* has no slash.
Cwd == "/etc/kvmrun/vm"
ValidateMachineName(name) == name = "vm"
Ifname(c) == IF c.args = <<>> THEN "" ELSE c.args[1]
InterfaceUp(c) ==
    IF Ifname(c) \in {"", "gone"} \/ ~ValidateMachineName(Cwd) THEN Fail
    ELSE Send("Configure", [name |-> Cwd, ifname |-> Ifname(c), second_stage |-> Text(c, "second-stage")])
InterfaceDown(c) ==
    IF Ifname(c) = "gone" \/ ~ValidateMachineName(Cwd) THEN Fail
    ELSE Send("Deconfigure", [name |-> Cwd, ifname |-> Ifname(c)])

(***************************************************************************)
(* Commands.                                                               *)
(***************************************************************************)
\* CommandGRPC: take up a command line with what it is to send, or end with a
\* usage error.
CommandGRPC(c, usage, steps) ==
    /\ command' = c
    /\ todo' = steps
    /\ outcome' = CASE usage -> "1" [] ~usage /\ steps = <<>> -> "0" [] OTHER -> ""
    /\ UNCHANGED <<vars, answers, seen>>

\* Parse a command line; it is a usage error when an argument is missing or a value
\* is not accepted. The functions of a command send their requests in order.
Run(name, positional, required, flags, Does(_)) ==
    /\ command = NoCommand
    /\ \E n \in 0..Len(positional), given \in Lines(flags) :
        /\ n < required => given = None
        /\ LET c == [name |-> name, args |-> SubSeq(positional, 1, n), flags |-> given]
               usage == n < required \/ "bad" \in Range(given)
           IN CommandGRPC(c, usage, IF usage THEN <<>> ELSE Does(c))

Machine0 == <<"vm">>
Machine1 == <<"vm", "device">>

CommandCreateConf ==
    Run("create-conf", Machine0, 1,
        [mem |-> "range", cpu |-> "range", firmware |-> "firmware", QEMU_ROOTDIR |-> "env"]
        @@ ("cpu-quota" :> "int") @@ ("cpu-model" :> "string") @@ ("flash-device" :> "string"), MachineCreateConf)
CommandRemoveConf == Run("remove-conf", Machine0, 1, None, MachineRemoveConf)
CommandInspect ==
    Run("inspect", Machine0, 1, [events |-> "bool"],
        LAMBDA c : IF On(c, "events") THEN MachineListEvents(c) ELSE MachineInspect(c))
CommandPrintList ==
    Run("list", Machine0, 0, [short |-> "bool"],
        LAMBDA c : IF On(c, "short") THEN MachineListNames(c) ELSE MachineList(c))
CommandBootSetParameters ==
    Run("boot set", Machine0, 1,
        [firmware |-> "firmware", QEMU_ROOTDIR |-> "env"] @@ ("flash-device" :> "string") @@ ("remove-conf" :> "bool"),
        BootParametersSet)

CommandCdromAttach ==
    Run("cdrom attach", Machine1, 2,
        [driver |-> "CdromDriver", position |-> "int", bootindex |-> "int", media |-> "string", live |-> "bool"]
        @@ ("read-only" :> "bool"), MachineCdromAttach)
CommandCdromDetach == Run("cdrom detach", Machine1, 2, [live |-> "bool"], MachineCdromDetach)
CommandCdromSetParameters ==
    Run("cdrom set", Machine1, 2, [media |-> "string", live |-> "bool"] @@ ("remove-media" :> "bool"),
        LAMBDA c : MachineCdromRemoveMedia(c) \o MachineCdromChangeMedia(c))

CommandDiskAttach ==
    Run("storage attach", Machine1, 2,
        [driver |-> "DiskDriver", position |-> "int", bootindex |-> "int", live |-> "bool"]
        @@ ("iops-rd" :> "int") @@ ("iops-wr" :> "int"), MachineDiskAttach)
CommandDiskDetach == Run("storage detach", Machine1, 2, [live |-> "bool"], MachineDiskDetach)
CommandDiskSetParameters ==
    Run("storage set", Machine1, 2,
        [live |-> "bool"] @@ ("iops-rd" :> "int") @@ ("iops-wr" :> "int") @@ ("remove-bitmap" :> "bool"),
        LAMBDA c : MachineDiskRemoveQemuBitmap(c) \o MachineDiskSetReadLimit(c) \o MachineDiskSetWriteLimit(c))
CommandDiskResizeQemuBlockdev == Run("storage resize", Machine1, 2, None, MachineDiskResizeQemuBlockdev)

CommandHostDeviceAttach ==
    \E addr \in {"device", "invalid"} :
        Run("hostpci attach", <<"vm", addr>>, 2,
            [multifunction |-> "StringBool"] @@ ("primary-gpu" :> "StringBool") @@ ("no-check-device" :> "bool"),
            MachineHostDeviceAttach)
CommandDeviceDetach ==
    \E addr \in {"device", "invalid"} : Run("hostpci detach", <<"vm", addr>>, 2, None, MachineHostDeviceDetach)
CommandDeviceSetOptions ==
    \E addr \in {"device", "invalid"} :
        Run("hostpci set", <<"vm", addr>>, 2, [multifunction |-> "StringBool"] @@ ("primary-gpu" :> "StringBool"),
            MachineHostDeviceSetOptions)

CommandInputDeviceAttach ==
    Run("inputs attach", Machine0, 1, [type |-> "InputDeviceType"], MachineInputDeviceAttach)
CommandInputDeviceDetach ==
    Run("inputs detach", Machine0, 1, [type |-> "InputDeviceType"], MachineInputDeviceDetach)

CommandNetIfaceAttach ==
    Run("network attach", Machine1, 2,
        [driver |-> "NetIfaceDriver", hwaddr |-> "hwaddr", queues |-> "uint", live |-> "bool"]
        @@ ("ifup-script" :> "string") @@ ("ifdown-script" :> "string"), MachineNetIfaceAttach)
CommandNetIfaceDetach == Run("network detach", Machine1, 2, [live |-> "bool"], MachineNetIfaceDetach)
CommandNetIfaceSetParameters ==
    Run("network set", Machine1, 2,
        [queues |-> "uint"] @@ ("ifup-script" :> "string") @@ ("ifdown-script" :> "string")
        @@ ("link-state" :> "LinkState"), MachineNetIfaceSetParameters)

CommandChannelAttach_VSock ==
    Run("channels attach-vsock", Machine0, 1, [cid |-> "uint", live |-> "bool"], MachineChannelAttach_VSock)
CommandChannelDetach_VSock ==
    Run("channels detach-vsock", Machine0, 1, [live |-> "bool"], MachineChannelDetach_VSock)

CommandCloudInitDriveAttach ==
    Run("cloudinit attach", Machine1, 2, [driver |-> "CloudInitDriver"], MachineCloudInitDriveAttach)
CommandCloudInitDriveDetach == Run("cloudinit detach", Machine0, 1, None, MachineCloudInitDriveDetach)
CommandCloudInitDriveChangeMedia ==
    Run("cloudinit change-medium", Machine1, 2, [live |-> "bool"], MachineCloudInitDriveChangeMedia)
CommandCloudInitDriveBuildImage ==
    Run("cloudinit build", Machine1, 1,
        [platform |-> "string", subplatform |-> "string", cloudname |-> "string", region |-> "string",
         zone |-> "string", hostname |-> "string", domain |-> "string", timezone |-> "string"]
        @@ ("user-config" :> "file") @@ ("vendor-config" :> "file"), MachineCloudInitDriveBuildImage)

CommandExternalKernelSetParameters ==
    Run("kernel set", Machine0, 1,
        [image |-> "string", initrd |-> "string", cmdline |-> "string", modiso |-> "string"]
        @@ ("remove-conf" :> "bool"), MachineExternalKernelSetParameters)
cmdVNCActivate == Run("vnc activate", Machine0, 1, [password |-> "string"], MachineActivateVNC)
CommandConsole == Run("console", Machine0, 1, None, MachineConsoleConnect)

CommandStart == Run("start", Machine0, 1, [wait |-> "uint"], MachineStart)
CommandStop == Run("stop", Machine0, 1, [wait |-> "bool", force |-> "bool"], MachineStop)
CommandRestart == Run("restart", Machine0, 1, [wait |-> "bool"], MachineRestart)
CommandReset == Run("reset", Machine0, 1, None, MachineReset)
CommandMemorySetParameters ==
    Run("mem-limits set", Machine0, 1, [actual |-> "int", total |-> "int", live |-> "bool"],
        MachineMemorySetParameters)
CommandCPUSetParameters ==
    Run("cpu-limits set", Machine0, 1,
        [actual |-> "int", total |-> "int", sockets |-> "int", quota |-> "int", model |-> "string", live |-> "bool"],
        MachineCPUSetParameters)

\* A disk's name may be left out of the usage, not out of the request.
CommandBackupProcessStart ==
    Run("backup start", <<"vm", "device", "target">>, 2,
        [incremental |-> "bool"] @@ ("clear-bitmap" :> "bool"), BackupProcessStart)
CommandBackupProcessCancel == Run("backup cancel", Machine1, 1, None, BackupProcessCancel)
CommandMigrationProcessStart ==
    Run("migration start", Machine1, 2,
        ("with-local-disks" :> "bool") @@ ("with-disk" :> "slice") @@ ("override-name" :> "string")
        @@ ("override-disk" :> "map") @@ ("override-net" :> "map") @@ ("create-disks" :> "bool"),
        MigrationProcessStart)
CommandMigrationProcessCancel == Run("migration cancel", Machine0, 1, None, MigrationProcessCancel)
CommandPrintTasks == Run("system tasks", Machine0, 0, None, TaskPrintList)
CommandPrintPCI == Run("system pci-devices", Machine0, 0, None, PCI_PrintList)

vnetctl_CommandCreateConf ==
    Run("vnetctl create-conf", Machine1, 2,
        [type |-> "SchemeType", mtu |-> "uint", ip |-> "slice", gateway4 |-> "string", gateway6 |-> "string",
         vni |-> "uint"]
        @@ ("in-limit" :> "uint") @@ ("out-limit" :> "uint") @@ ("parent-interface" :> "string")
        @@ ("vlan-id" :> "uint") @@ ("bridge-name" :> "string"), NetworkSchemeCreateConf)
vnetctl_CommandUpdateConf ==
    Run("vnetctl update-conf", Machine1, 2,
        [mtu |-> "uint", gateway4 |-> "string", gateway6 |-> "string"]
        @@ ("in-limit" :> "uint") @@ ("out-limit" :> "uint") @@ ("add-ip" :> "slice") @@ ("del-ip" :> "slice"),
        NetworkSchemeUpdateConf)
vnetctl_CommandRemoveConf == Run("vnetctl remove-conf", Machine1, 2, None, NetworkSchemeRemoveConf)

\* The hooks: a run that only asks whether the hook knows the second stage does
\* nothing. The interface of an ifup, the network file of an ifdown may be gone.
ifupdownMain ==
    \E device \in {"device", "gone"} :
        \/ Run("ifup", <<device>>, 0, ("second-stage" :> "bool") @@ ("test-second-stage-feature" :> "bool"),
               LAMBDA c : If(~IsSet(c, "test-second-stage-feature"), InterfaceUp(c)))
        \/ Run("ifdown", <<device>>, 0, ("test-second-stage-feature" :> "bool"),
               LAMBDA c : If(~IsSet(c, "test-second-stage-feature"), InterfaceDown(c)))

(***************************************************************************)
(* Running a command.                                                      *)
(***************************************************************************)
exitWithError(code) ==
    CASE code \in {"AlreadyExists", "NotFound"} -> "2"
      [] code = "Unimplemented" -> "3"
      [] OTHER -> "5"

\* The connection is made for the whole command; without one nothing is sent.
Connect ==
    /\ todo # <<>> /\ answers = <<>> /\ inbox = Nothing /\ reply = NoReply /\ seen = None
    /\ outcome = ""
    /\ outcome' \in {"1", "5"} /\ todo' = <<>>
    /\ UNCHANGED <<vars, command, answers, seen>>

SendRequest ==
    /\ outcome = "" /\ todo # <<>> /\ inbox = Nothing /\ reply = NoReply
    /\ Head(todo).method \in DOMAIN Methods
    /\ LET M == Methods[Head(todo).method]
           disks == IF Head(todo).fill THEN [disks |-> seen.runtime.storage_path] ELSE None
       IN inbox' = [method |-> Head(todo).method, wire |-> Marshal(disks @@ Head(todo).msg @@ New(M), M)]
    /\ UNCHANGED <<calls, reply, command, todo, answers, seen, outcome>>

Served == ServeRequest /\ UNCHANGED <<command, todo, answers, seen, outcome>>

\* The first error ends the command; so does a machine in a state the rest cannot use.
Receive ==
    /\ reply # NoReply
    /\ reply' = NoReply
    /\ answers' = Append(answers, reply.code)
    /\ seen' = IF reply.machine = None THEN seen ELSE reply.machine
    /\ LET stop == \/ reply.code # "OK"
                   \/ reply.machine # None /\ reply.machine.state \notin Head(todo).needs
       IN /\ todo' = IF stop THEN <<>> ELSE Tail(todo)
          /\ outcome' = CASE reply.code # "OK" -> exitWithError(reply.code)
                          [] reply.code = "OK" /\ stop -> "1"
                          [] OTHER -> IF Tail(todo) = <<>> THEN "0" ELSE ""
    /\ UNCHANGED <<inbox, calls, command>>

\* What a command does without kvmrund: it fails on its own, or becomes socat.
Local ==
    /\ outcome = "" /\ todo # <<>> /\ Head(todo).method \in {"fail", "socat"}
    /\ outcome' \in (IF Head(todo).method = "fail" THEN {"1"} ELSE {"0", "1"})
    /\ todo' = <<>>
    /\ UNCHANGED <<vars, command, answers, seen>>

\* The next command.
Again ==
    /\ outcome # ""
    /\ command' = NoCommand /\ todo' = <<>> /\ answers' = <<>> /\ seen' = None /\ outcome' = ""
    /\ calls' = <<>>
    /\ UNCHANGED <<inbox, reply>>

ClientInit ==
    /\ inbox = Nothing /\ calls = <<>> /\ reply = NoReply
    /\ command = NoCommand /\ todo = <<>> /\ answers = <<>> /\ seen = None /\ outcome = ""

ConfCommand ==
    \/ CommandCreateConf \/ CommandRemoveConf \/ CommandInspect \/ CommandPrintList \/ CommandBootSetParameters
    \/ CommandMemorySetParameters \/ CommandCPUSetParameters \/ CommandExternalKernelSetParameters
    \/ CommandStart \/ CommandStop \/ CommandRestart \/ CommandReset \/ cmdVNCActivate \/ CommandConsole
DeviceCommand ==
    \/ CommandCdromAttach \/ CommandCdromDetach \/ CommandCdromSetParameters
    \/ CommandDiskAttach \/ CommandDiskDetach \/ CommandDiskSetParameters \/ CommandDiskResizeQemuBlockdev
    \/ CommandHostDeviceAttach \/ CommandDeviceDetach \/ CommandDeviceSetOptions
    \/ CommandInputDeviceAttach \/ CommandInputDeviceDetach
    \/ CommandNetIfaceAttach \/ CommandNetIfaceDetach \/ CommandNetIfaceSetParameters
    \/ CommandChannelAttach_VSock \/ CommandChannelDetach_VSock
    \/ CommandCloudInitDriveAttach \/ CommandCloudInitDriveDetach \/ CommandCloudInitDriveChangeMedia
    \/ CommandCloudInitDriveBuildImage
TaskCommand ==
    \/ CommandBackupProcessStart \/ CommandBackupProcessCancel
    \/ CommandMigrationProcessStart \/ CommandMigrationProcessCancel \/ CommandPrintTasks \/ CommandPrintPCI
NetworkCommand ==
    vnetctl_CommandCreateConf \/ vnetctl_CommandUpdateConf \/ vnetctl_CommandRemoveConf \/ ifupdownMain

ClientNext == ConfCommand \/ DeviceCommand \/ TaskCommand \/ NetworkCommand
        \/ Connect \/ SendRequest \/ Served \/ Receive \/ Local \/ Again

ClientSpec == ClientInit /\ [][ClientNext]_clientVars

(***************************************************************************)
(* Properties.                                                             *)
(***************************************************************************)
\* A command in progress has something left to do.
ClientTypeOK ==
    /\ inbox.method \in DOMAIN Methods \cup {""}
    /\ command.name = "" => todo = <<>> /\ outcome = ""
    /\ outcome \in {"", "0", "1", "2", "3", "5"}
    /\ outcome = "" /\ command # NoCommand => todo # <<>>
    /\ outcome # "" => inbox = Nothing /\ reply = NoReply /\ todo = <<>>
    /\ \A i \in DOMAIN todo : todo[i].method \in DOMAIN Methods \cup {"fail", "socat"}
    /\ Len(answers) <= 4

\* Where the value of a flag is to end up: the argument of a function of kvmrund.
Meant(c, f) ==
    LET router == Text(c, "type") = "routed"
        renamed ==
            [media |-> "device_media", cid |-> "context_id", firmware |-> "firmware_image",
             image |-> "kernel_image", initrd |-> "kernel_initrd", cmdline |-> "kernel_cmdline",
             modiso |-> "kernel_modiso", zone |-> "availability_zone", ip |-> "addrs", hwaddr |-> "hw_addr",
             mem |-> "memory_actual", cpu |-> "cpu_actual", QEMU_ROOTDIR |-> "qemu_rootdir",
             wait |-> IF c.name = "start" THEN "wait_interval" ELSE "wait"]
            @@ ("read-only" :> "readonly") @@ ("iops-rd" :> "iops_rd") @@ ("iops-wr" :> "iops_wr")
            @@ ("ifup-script" :> "ifup") @@ ("ifdown-script" :> "ifdown") @@ ("link-state" :> "state")
            @@ ("flash-device" :> "firmware_flash") @@ ("cpu-quota" :> "cpu_quota") @@ ("cpu-model" :> "cpu_model")
            @@ ("primary-gpu" :> "primary_gpu") @@ ("clear-bitmap" :> "clear_bitmap") @@ ("with-disk" :> "disks")
            @@ ("override-name" :> "overrides_name") @@ ("override-disk" :> "overrides_disks")
            @@ ("override-net" :> "overrides_net_ifaces") @@ ("create-disks" :> "create_disks")
            @@ ("user-config" :> "user_config") @@ ("vendor-config" :> "vendor_config")
            @@ ("in-limit" :> "in_limit") @@ ("out-limit" :> "out_limit") @@ ("vlan-id" :> "vlan_id")
            @@ ("bridge-name" :> "bridge_name") @@ ("add-ip" :> "append_addr") @@ ("del-ip" :> "remove_addr")
            @@ ("parent-interface" :> (CASE router -> "router_bind_interface"
                                         [] Text(c, "type") \in {"vlan", "bridge-vlan"} -> "vlan_parent_interface"
                                         [] OTHER -> "vxlan_bind_interface"))
    IN IF f \in DOMAIN renamed THEN renamed[f] ELSE f

\* What may be made of a value on the way: a file is named by its absolute path, a
\* state by its number.
MadeOf(v) ==
    {v, AbsOrEmpty(v), Unsigned(v)}
    \cup (IF v \in DOMAIN StringBool_Set THEN {StringBool_Set[v]} ELSE {})
    \cup (IF v \in DOMAIN NetIfaceLinkState_Set THEN {NetIfaceLinkState_Set[v]} ELSE {})

\* Flags that select what a command does instead of being passed on, or that another
\* flag makes irrelevant; a scheme takes its own attributes only.
Irrelevant(c, f) ==
    \/ f \in {"remove-conf", "remove-media", "remove-bitmap", "events", "short", "with-local-disks",
             "no-check-device", "second-stage", "test-second-stage-feature"}
    \/ f = "type" /\ c.name = "vnetctl create-conf"
    \/ On(c, "remove-conf")
    \/ On(c, "with-local-disks") /\ f = "with-disk"
    \/ c.name = "vnetctl create-conf" /\
            LET type == Parsed(c, "type", "SchemeType", "manual")
            IN \/ f = "parent-interface" /\ type \notin {"ROUTED", "VXLAN", "VLAN"}
               \/ f \in {"in-limit", "out-limit"} /\ type # "ROUTED"
               \/ f = "vni" /\ type # "VXLAN"
               \/ f = "vlan-id" /\ type # "VLAN"
               \/ f = "bridge-name" /\ type # "BRIDGE"

\* The flags that are known not to arrive: see CreatesWithTheLimits, FlashAlone and
\* RemovesMediaLive. Naming a firmware by the empty text asks for nothing.
Lost(c, f) ==
    \/ c.name = "create-conf" /\ f \in {"mem", "cpu"}
    \/ f \in {"firmware", "flash-device", "QEMU_ROOTDIR"} /\ Text(c, "firmware") = ""
    \/ c.name = "cdrom set" /\ f = "live" /\ On(c, "remove-media")

\* A command that ends well has delivered every flag typed, a zero or an empty text
\* too, to the argument it is meant for; "live" goes to each request that takes it.
NothingAskedIsLost ==
    outcome = "0" =>
        \A f \in DOMAIN command.flags :
            LET arg == Meant(command, f)
                Takers == {i \in DOMAIN calls : arg \in DOMAIN calls[i].args}
            IN \/ Irrelevant(command, f) \/ Lost(command, f)
               \/ /\ f # "live" => Takers # {}
                  /\ \A i \in Takers : calls[i].args[arg] \in MadeOf(command.flags[f])

\* What a command does, it does to the machine and to the device it was given.
ActsOnWhatWasNamed ==
    command # NoCommand => \A i \in DOMAIN calls :
        /\ calls[i].vm \in {"", "vm"}
        /\ Len(command.args) > 1 /\ calls[i].fn \notin {"MachineGet", "TaskCancel"} =>
              {command.args[2], Abs(command.args[2])} \cap Range(calls[i].args) # {}
        /\ calls[i].fn = "TaskCancel" =>
              calls[i].args["key"] = (IF Len(command.args) > 1 THEN "vm/disk-backup/device" ELSE "vm/migration")

\* A command sends nothing after an error, and its exit code is zero only when every
\* request was answered as done.
StopsAtFirstError ==
    /\ \A i \in DOMAIN answers : i < Len(answers) => answers[i] = "OK"
    /\ answers # <<>> /\ Last(answers) # "OK" => outcome \notin {"", "0", "1"}
    /\ Len(calls) <= Len(answers) + 1

\* Asked for a new medium and the removal of the old one, the cdrom ends with the new.
NewMediumStays ==
    outcome = "0" /\ command.name = "cdrom set" /\ IsSet(command, "media") =>
        Last(calls).fn = "CdromChangeMedia"

\* A migration with the local disks copies the disks of the machine as it runs, and
\* none when it does not run.
MigratesTheRunningDisks ==
    \A i \in DOMAIN calls :
        calls[i].fn = "StartMigrationProcess" /\ On(command, "with-local-disks") =>
            /\ seen.state \in {"RUNNING", "PAUSED"}
            /\ calls[i].args["disks"] = seen.runtime.storage_path

\* A command asks kvmrund for what was typed: every flag arrives, for the machine
\* and the device named, in an order that has the effect meant, and with the disks
\* of the machine as it runs; and nothing after an error (cmd/vmm/commands,
\* cmd/vnetctl/commands).
CommandDoesWhatItSays ==
    /\ NothingAskedIsLost
    /\ ActsOnWhatWasNamed
    /\ NewMediumStays
    /\ MigratesTheRunningDisks
    /\ StopsAtFirstError

\* create-conf --mem and --cpu give the new machine its memory and its processors.
CreatesWithTheLimits ==
    outcome = "0" /\ command.name = "create-conf" =>
        \A f \in {"mem", "cpu"} \cap DOMAIN command.flags : calls[1].args[Meant(command, f)] = f

\* cdrom set --remove-media --live removes the medium from the running machine.
RemovesMediaLive ==
    outcome = "0" /\ On(command, "remove-media") /\ On(command, "live") => calls[1].args["live"] = "true"

\* boot set --flash-device sets the flash device.
FlashAlone ==
    outcome = "0" /\ command.name = "boot set" /\ Text(command, "flash-device") # "" /\ ~On(command, "remove-conf")
        => calls # <<>>

\* A hook whose interface and files are there asks kvmrund to configure the network.
HooksReachKvmrund ==
    command.name \in {"ifup", "ifdown"} /\ command.args = <<"device">> /\ todo # <<>> => Head(todo).method # "fail"
===============================================================================
