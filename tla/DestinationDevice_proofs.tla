----------------------- MODULE DestinationDevice_proofs -----------------------
(***************************************************************************)
(* What DestinationDevice keeps for any names, devices and number of       *)
(* appearances.                                                            *)
(***************************************************************************)
EXTENDS DestinationDevice, TLAPS

(***************************************************************************)
(* A record of the picker says the truth about its name as long as the     *)
(* appearance time is the one it was taken with.  This needs that a new    *)
(* appearance has a time no earlier record can have, hence the clock.      *)
(***************************************************************************)
IsTruthful(info) ==
    appearance[info.name] = info.time /\ port[info.name] # NoDevice
        => port[info.name] = info.device

ListIsTruthful ==
    /\ \A n \in Names : appearance[n] <= clock
    /\ \A info \in menu : info.time <= clock
    /\ \A info \in menu : IsTruthful(info)

SelectionIsTruthful ==
    /\ pc \in {"verified", "erased"} /\ ~swapped
           => port[selected.name] \in {selected.device, NoDevice}
    /\ SelectedIsErasedUnlessSwapped
    /\ pc = "verified" => erased = {} /\ booted = {}
    /\ pc = "erased" /\ ~swapped /\ port[selected.name] # NoDevice
           => port[selected.name] \in erased
    /\ BootSectorGoesToErased

IInv == TypeOK /\ ListIsTruthful /\ SelectionIsTruthful

-----------------------------------------------------------------------------
(* Every variable has its type: in particular no step of diskutil or of    *)
(* the boot sector writer works on a name that no device has.              *)
THEOREM TypeCorrect == Spec => []TypeOK
<1>1. Init => TypeOK
  <2> SUFFICES ASSUME Init PROVE TypeOK
    OBVIOUS
  <2>1. selected \in DiskInfo
    BY TimeAssumption DEF Init, DiskInfo
  <2>2. clock \in 0..MaxTime /\ appearance \in [Names -> 0..MaxTime]
    BY TimeAssumption DEF Init
  <2> QED
    BY <2>1, <2>2 DEF Init, TypeOK
<1>2. TypeOK /\ [Next]_vars => TypeOK'
  <2> SUFFICES ASSUME TypeOK, [Next]_vars PROVE TypeOK'
    OBVIOUS
  <2> USE DevicesAssumption, TimeAssumption DEF TypeOK, DiskInfo
  <2>1. ASSUME NEW n \in Names, NEW d \in Devices, Plug(n, d) PROVE TypeOK'
    BY <2>1 DEF Plug, NoteSwap
  <2>2. ASSUME NEW n \in Names, Unplug(n) PROVE TypeOK'
    BY <2>2 DEF Unplug, NoteSwap
  <2>3. ASSUME NEW filtered \in BOOLEAN, UpdateDeviceList(filtered) PROVE TypeOK'
    BY <2>3 DEF UpdateDeviceList, DiskInfoOf
  <2>4. CASE WriteAction
    BY <2>4 DEF WriteAction
  <2>5. CASE EraseDisk
    BY <2>5 DEF EraseDisk, EraseFails, NameIsThere
  <2>6. CASE WriteLegacyBootSector
    BY <2>6 DEF WriteLegacyBootSector
  <2>7. CASE WriteEnds
    BY <2>7 DEF WriteEnds
  <2>8. CASE UNCHANGED vars
    BY <2>8 DEF vars
  <2> QED
    BY <2>1, <2>2, <2>3, <2>4, <2>5, <2>6, <2>7, <2>8 DEF Next
<1> QED
  BY <1>1, <1>2, PTL DEF Spec

-----------------------------------------------------------------------------
(* The list stays truthful, whatever comes and goes. *)
LEMMA ListStaysTruthful ==
    ASSUME TypeOK, TypeOK', ListIsTruthful, [Next]_vars
    PROVE  ListIsTruthful'
<1> USE DevicesAssumption, TimeAssumption DEF ListIsTruthful, IsTruthful, TypeOK, DiskInfo
<1>1. ASSUME NEW n \in Names, NEW d \in Devices, Plug(n, d)
      PROVE  ListIsTruthful'
  BY <1>1 DEF Plug
<1>2. ASSUME NEW n \in Names, Unplug(n) PROVE ListIsTruthful'
  BY <1>2 DEF Unplug
<1>3. ASSUME NEW filtered \in BOOLEAN, UpdateDeviceList(filtered)
      PROVE  ListIsTruthful'
  <2>1. \A info \in menu' : info = DiskInfoOf(info.name) /\ info.name \in Names
    BY <1>3 DEF UpdateDeviceList, DiskInfoOf
  <2> QED
    BY <1>3, <2>1 DEF UpdateDeviceList, DiskInfoOf
<1>4. CASE UNCHANGED <<port, appearance, clock, menu>>
  BY <1>4
<1> QED
  BY <1>1, <1>2, <1>3, <1>4
     DEF Next, WriteAction, EraseDisk, WriteLegacyBootSector, WriteEnds, vars

(* What was verified stays so until a device comes or goes. *)
LEMMA SelectionStaysTruthful ==
    ASSUME TypeOK, TypeOK', ListIsTruthful, SelectionIsTruthful, [Next]_vars
    PROVE  SelectionIsTruthful'
<1> USE DevicesAssumption, TimeAssumption
    DEF SelectionIsTruthful, SelectedIsErasedUnlessSwapped,
        OnlySelectedIsErased, BootSectorGoesToErased, TypeOK, DiskInfo
<1>1. ASSUME NEW n \in Names, NEW d \in Devices, Plug(n, d)
      PROVE  SelectionIsTruthful'
  BY <1>1 DEF Plug, NoteSwap
<1>2. ASSUME NEW n \in Names, Unplug(n) PROVE SelectionIsTruthful'
  BY <1>2 DEF Unplug, NoteSwap
<1>3. CASE WriteAction
  BY <1>3 DEF WriteAction, IsVerified, ListIsTruthful, IsTruthful
<1>4. CASE EraseDisk
  BY <1>4 DEF EraseDisk, EraseFails, NameIsThere
<1>5. CASE WriteLegacyBootSector
  BY <1>5 DEF WriteLegacyBootSector
<1>6. CASE WriteEnds
  BY <1>6 DEF WriteEnds
<1>7. ASSUME NEW filtered \in BOOLEAN, UpdateDeviceList(filtered)
      PROVE  SelectionIsTruthful'
  BY <1>7 DEF UpdateDeviceList
<1>8. CASE UNCHANGED vars
  BY <1>8 DEF vars
<1> QED
  BY <1>1, <1>2, <1>3, <1>4, <1>5, <1>6, <1>7, <1>8 DEF Next

LEMMA Inductive == Spec => []IInv
<1>1. Init => ListIsTruthful /\ SelectionIsTruthful
  BY TimeAssumption
     DEF Init, ListIsTruthful, SelectionIsTruthful, BootSectorGoesToErased,
         SelectedIsErasedUnlessSwapped, OnlySelectedIsErased
<1>2. TypeOK /\ TypeOK' /\ ListIsTruthful /\ SelectionIsTruthful /\ [Next]_vars
        => ListIsTruthful' /\ SelectionIsTruthful'
  BY ListStaysTruthful, SelectionStaysTruthful
<1> QED
  BY <1>1, <1>2, TypeCorrect, PTL DEF Spec, IInv

-----------------------------------------------------------------------------
(* However often BSD names were reused before: as long as no device comes  *)
(* or goes during the write, diskutil erases the selected device only.     *)
THEOREM SelectedIsErased == Spec => []SelectedIsErasedUnlessSwapped
BY Inductive, PTL DEF IInv, SelectionIsTruthful

(* Under the same condition the boot sector goes to the erased device. *)
THEOREM BootSectorIsOnErased == Spec => []BootSectorGoesToErased
BY Inductive, PTL DEF IInv, SelectionIsTruthful

(* The check of the appearance time is passed by the selected device only. *)
THEOREM VerifiedIsSelected == Spec => VerifiedNeverLeft
<1>1. ASSUME IInv, [Next]_vars
      PROVE  [pc = "idle" /\ pc' = "verified" =>
                port[selected'.name] = selected'.device]_vars
  <2> SUFFICES ASSUME pc = "idle", pc' = "verified", Next
               PROVE  port[selected'.name] = selected'.device
    BY <1>1
  <2>1. WriteAction
    BY DEF Next, Plug, Unplug, UpdateDeviceList, EraseDisk,
           WriteLegacyBootSector, WriteEnds
  <2> QED
    BY <1>1, <2>1 DEF WriteAction, IsVerified, IInv, ListIsTruthful, IsTruthful
<1> QED
  BY <1>1, Inductive, PTL DEF Spec, VerifiedNeverLeft
=============================================================================
