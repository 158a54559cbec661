------------------------------ MODULE Handlers ------------------------------
(***************************************************************************)
(* The handlers of server/machine/*.go that change what a machine is made  *)
(* of, each as the class of operations it blocks, whether it looks at the  *)
(* running QEMU, and the effect it has there and in the configuration.     *)
(*                                                                         *)
(* A slot is anything a handler changes by name: a disk, its limits, a     *)
(* cdrom with its medium, an interface, a channel, a host or input device, *)
(* the firmware, the kernel, the quota.  It is empty or holds a value.     *)
(***************************************************************************)
CONSTANTS
    Values,     \* what a slot may hold
    None        \* the content of an empty slot

ASSUME NoneAssumption == None \notin Values

Contents == Values \cup {None}

\* What applying an effect gives: an error, a new content, no need to save.
Ok(content)    == [err |-> FALSE, content |-> content, save |-> TRUE]
Error(old)     == [err |-> TRUE,  content |-> old,     save |-> FALSE]
Nothing(old)   == [err |-> FALSE, content |-> old,     save |-> FALSE]

(* The effects of the methods of Instance, with the errors the handlers    *)
(* accept.                                                                 *)

\* Whatever was there is set anew.
Put(old, new) == Ok(new)

\* The errors of FirmwareSetImage and FirmwareSetFlash are dropped.  An image is
\* always accepted; a flash that is not given leaves the one that was there, so
\* the new value is what comes out, not what was asked for.
Overlay(old, new) == Ok(new)

\* "bios" and "legacy" become an empty image, which SetImage refuses: nothing is
\* changed, saved and answered.
Ignore(old, new) == Ok(old)

\* An AlreadyConnectedError is not an error: the device stays as it is.
Add(old, new) == Ok(IF old = None THEN new ELSE old)

\* A NotConnectedError is not an error.
Drop(old, new) == Ok(None)

\* A NotConnectedError is an error.
Replace(old, new) == IF old = None THEN Error(old) ELSE Ok(new)

\* In QEMU a missing cdrom is accepted, the same medium is not.
ChangeMedium(old, new) ==
    CASE old = None -> Ok(None)
      [] old = new  -> Error(old)
      [] OTHER      -> Ok(new)

\* In the configuration the same medium leaves nothing to do.
SwapMedium(old, new) ==
    CASE old = None -> Error(old)
      [] old = new  -> Nothing(old)
      [] OTHER      -> Ok(new)

\* "release" is a removal whose end is not awaited.
Outcome(effect, old, new) ==
    CASE effect = "keep"                  -> Ok(old)
      [] effect = "put"                   -> Put(old, new)
      [] effect = "overlay"               -> Overlay(old, new)
      [] effect = "ignore"                -> Ignore(old, new)
      [] effect = "add"                   -> Add(old, new)
      [] effect \in {"drop", "release"}   -> Drop(old, new)
      [] effect = "replace"               -> Replace(old, new)
      [] effect = "change"                -> ChangeMedium(old, new)
      [] effect = "swap"                  -> SwapMedium(old, new)

\* What the answer "done" tells the caller about the content of the slot.
Promise(effect, old, new) ==
    CASE effect \in {"add", "overlay"}          -> Values
      [] effect = "ignore"                      -> {old}
      [] effect = "drop"                        -> {None}
      [] effect \in {"put", "replace", "swap"}  -> {new}
      [] effect = "change"                      -> {new, None}
      [] effect \in {"keep", "release"}         -> Contents

Handler(kind, inQemu, inConf) == [kind |-> kind, inQemu |-> inQemu, inConf |-> inConf]

-----------------------------------------------------------------------------
\* A disk that is attached stays as it is, and gets the limits.
DiskAttach               == Handler("Update", "add", "add")
DiskAttachLimits         == Handler("Update", "put", "put")
DiskDetach               == Handler("Update", "drop", "drop")
DiskSetReadLimit         == Handler("Update", "replace", "replace")
DiskSetWriteLimit        == Handler("Update", "replace", "replace")

CdromAttach              == Handler("Update", "add", "add")
CdromDetach              == Handler("Update", "drop", "drop")
CdromChangeMedia         == Handler("Update", "change", "swap")
CdromRemoveMedia         == Handler("Update", "replace", "replace")

NetIfaceAttach           == Handler("Update", "add", "add")
NetIfaceDetach           == Handler("Update", "drop", "drop")
NetIfaceSetUpScript      == Handler("Conf", "keep", "replace")
NetIfaceSetDownScript    == Handler("Conf", "keep", "replace")
NetIfaceSetQueues        == Handler("Conf", "keep", "replace")

ChannelAttach_VSock      == Handler("Update", "add", "add")
ChannelDetach_VSock      == Handler("Update", "release", "drop")

HostDeviceAttach         == Handler("Conf", "keep", "add")
HostDeviceDetach         == Handler("Conf", "keep", "drop")
HostDeviceSetMultifunctionOption == Handler("Conf", "keep", "replace")
HostDeviceSetPrimaryGpuOption    == Handler("Conf", "keep", "replace")

InputDeviceAttach        == Handler("Conf", "keep", "add")
InputDeviceDetach        == Handler("Conf", "keep", "drop")

CPUSetSockets            == Handler("Conf", "keep", "put")
CPUSetQuota              == Handler("Conf", "put", "put")
CPUSetModel              == Handler("Conf", "keep", "put")

FirmwareSet              == Handler("Conf", "keep", "overlay")
FirmwareSetLegacy        == Handler("Conf", "keep", "ignore")
FirmwareRemove           == Handler("Conf", "keep", "drop")
ExternalKernelSet        == Handler("Conf", "keep", "put")
ExternalKernelRemove     == Handler("Conf", "keep", "drop")

CloudInitDriveAttach     == Handler("Conf", "keep", "put")
CloudInitDriveDetach     == Handler("Conf", "keep", "drop")
CloudInitDriveChangeMedia == Handler("Update", "replace", "swap")

\* Handlers of the same shape are one handler here.
AllHandlers ==
    {DiskAttach, DiskAttachLimits, DiskDetach, DiskSetReadLimit, DiskSetWriteLimit,
     CdromAttach, CdromDetach, CdromChangeMedia, CdromRemoveMedia,
     NetIfaceAttach, NetIfaceDetach, NetIfaceSetUpScript, NetIfaceSetDownScript,
     NetIfaceSetQueues, ChannelAttach_VSock, ChannelDetach_VSock,
     HostDeviceAttach, HostDeviceDetach, HostDeviceSetMultifunctionOption,
     HostDeviceSetPrimaryGpuOption, InputDeviceAttach, InputDeviceDetach,
     CPUSetSockets, CPUSetQuota, CPUSetModel, FirmwareSet, FirmwareSetLegacy,
     FirmwareRemove, ExternalKernelSet, ExternalKernelRemove, CloudInitDriveAttach,
     CloudInitDriveDetach, CloudInitDriveChangeMedia}
=============================================================================
