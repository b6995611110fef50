-------------------------- MODULE DestinationDevice --------------------------
(***************************************************************************)
(* Which device gets erased.  The picker of the main window keeps DiskInfo *)
(* records taken when the list was made; -writeAction compares the one the *)
(* user selected with the device that has its BSD name now, and later      *)
(* diskutil and the boot sector writer are given that name again           *)
(* (MainWindow.m, Classes/DiskManager).  Devices come and go meanwhile.    *)
(***************************************************************************)
EXTENDS Naturals

CONSTANTS
    Names,        \* BSD names, reused by the system
    Devices,      \* the physical devices
    Internal,     \* those with DADeviceInternal
    DeviceUnits,  \* those with DADeviceUnit
    NoDevice,
    MaxTime       \* bound of the model: number of times a device appears

ASSUME DevicesAssumption ==
    /\ Internal \subseteq Devices
    /\ DeviceUnits \subseteq Devices
    /\ NoDevice \notin Devices
ASSUME TimeAssumption == MaxTime \in Nat

VARIABLES
    port,        \* the device that has a BSD name now
    appearance,  \* its DAAppearanceTime
    clock,
    menu,        \* the items of devicePickerView
    selected,    \* destinationSavedDiskInfo of the last write
    pc,          \* where -writeAction is
    erased,      \* devices that diskutil erased in this write
    booted,      \* devices that got a boot sector in this write
    swapped      \* a device came or went during this write (history)

vars == <<port, appearance, clock, menu, selected, pc, erased, booted, swapped>>

(* A DiskInfo; the device is what vendor and model show to the user. *)
DiskInfo == [name : Names, device : Devices \cup {NoDevice}, time : 0..MaxTime]

TypeOK ==
    /\ port \in [Names -> Devices \cup {NoDevice}]
    /\ appearance \in [Names -> 0..MaxTime]
    /\ clock \in 0..MaxTime
    /\ menu \subseteq DiskInfo
    /\ selected \in DiskInfo
    /\ pc \in {"idle", "verified", "erased"}
    /\ erased \subseteq Devices
    /\ booted \subseteq Devices
    /\ swapped \in BOOLEAN

Init ==
    /\ port = [n \in Names |-> NoDevice]
    /\ appearance = [n \in Names |-> 0]
    /\ clock = 0
    /\ menu = {}
    /\ selected \in {[name |-> n, device |-> NoDevice, time |-> 0] : n \in Names}
    /\ pc = "idle"
    /\ erased = {}
    /\ booted = {}
    /\ swapped = FALSE

-----------------------------------------------------------------------------
(* The system, at any time: a device that appears takes a free name. *)
NoteSwap == swapped' = (swapped \/ pc # "idle")

Plug(n, d) ==
    /\ clock < MaxTime
    /\ port[n] = NoDevice
    /\ \A m \in Names : port[m] # d
    /\ clock' = clock + 1
    /\ port' = [port EXCEPT ![n] = d]
    /\ appearance' = [appearance EXCEPT ![n] = clock + 1]
    /\ NoteSwap
    /\ UNCHANGED <<menu, selected, pc, erased, booted>>

Unplug(n) ==
    /\ port[n] # NoDevice
    /\ port' = [port EXCEPT ![n] = NoDevice]
    /\ NoteSwap
    /\ UNCHANGED <<appearance, clock, menu, selected, pc, erased, booted>>

-----------------------------------------------------------------------------
DiskInfoOf(n) == [name |-> n, device |-> port[n], time |-> appearance[n]]

(* The list of the picker; `filtered' is the normal scan, the debug menu   *)
(* scans all whole disks.  Disabled while a write is under way.            *)
UpdateDeviceList(filtered) ==
    /\ pc = "idle"
    /\ menu' = {DiskInfoOf(n) : n \in
                  {m \in Names : /\ port[m] # NoDevice
                                 /\ filtered => /\ port[m] \notin Internal
                                                /\ port[m] \in DeviceUnits}}
    /\ UNCHANGED <<port, appearance, clock, selected, pc, erased, booted, swapped>>

(* Mutant: the appearance times are not compared. *)
NameIsEnough(info) ==
    /\ info.device \in DeviceUnits
    /\ port[info.name] # NoDevice

(* The saved DiskInfo is that of a device unit, and the name still belongs *)
(* to a device that appeared at the saved time.                            *)
IsVerified(info) ==
    /\ info.device \in DeviceUnits
    /\ port[info.name] # NoDevice
    /\ appearance[info.name] = info.time

WriteAction ==
    /\ pc = "idle"
    /\ selected' \in menu
    /\ pc' = IF IsVerified(selected') THEN "verified" ELSE "idle"
    /\ erased' = {}
    /\ booted' = {}
    /\ swapped' = FALSE
    /\ UNCHANGED <<port, appearance, clock, menu>>

(* Mutant: the BSD name is not asked for again. *)
NameIsAssumed == TRUE

NameIsThere == port[selected.name] # NoDevice

(* Mutant: an error of diskutil is not looked at. *)
EraseErrorIsIgnored == pc' = "erased" /\ UNCHANGED erased

EraseFails == pc' = "idle" /\ UNCHANGED erased

(* diskUtilEraseDisk asks for the BSD name once more (NULL: no device) and *)
(* hands it to diskutil, which erases the device it belongs to, or fails.  *)
EraseDisk ==
    /\ pc = "verified"
    /\ \/ /\ NameIsThere
          /\ erased' = erased \cup {port[selected.name]}
          /\ pc' = "erased"
       \/ EraseFails
    /\ UNCHANGED <<port, appearance, clock, menu, selected, booted, swapped>>

(* writeLegacyBootSector writes to BSDFullPath of the same disk manager. *)
WriteLegacyBootSector ==
    /\ pc = "erased"
    /\ port[selected.name] # NoDevice
    /\ booted' = booted \cup {port[selected.name]}
    /\ pc' = "idle"
    /\ UNCHANGED <<port, appearance, clock, menu, selected, erased, swapped>>

(* No legacy boot asked for, or a stop or a failure before it. *)
WriteEnds ==
    /\ pc = "erased"
    /\ pc' = "idle"
    /\ UNCHANGED <<port, appearance, clock, menu, selected, erased, booted, swapped>>

Next ==
    \/ \E n \in Names : Unplug(n) \/ \E d \in Devices : Plug(n, d)
    \/ \E filtered \in BOOLEAN : UpdateDeviceList(filtered)
    \/ WriteAction \/ EraseDisk \/ WriteLegacyBootSector \/ WriteEnds

Spec == Init /\ [][Next]_vars

-----------------------------------------------------------------------------
(* "we will format exactly the device that was selected in the list of     *)
(* available devices, and not the one that managed to occupy the vacated   *)
(* BSD Name": whatever is erased is the device the user saw in the picker. *)
OnlySelectedIsErased == erased \subseteq {selected.device}

(* ... which the code does keep, however names were reused before, as long *)
(* as no device comes or goes between the check and the erasing.           *)
SelectedIsErasedUnlessSwapped == ~swapped => OnlySelectedIsErased

(* Under the same condition the boot sector goes to no device but the one  *)
(* that was erased for it.                                                 *)
BootSectorGoesToErased == ~swapped => booted \subseteq erased

(* A device that was gone when the write began, or came back under the     *)
(* same name, is never verified from a stale list: between the scan and    *)
(* the check it was always there.                                          *)
VerifiedNeverLeft ==
    [][pc = "idle" /\ pc' = "verified" =>
         port[selected'.name] = selected'.device]_vars
=============================================================================
