--------------------- MODULE SimpleDownloadManager_proofs ---------------------
(***************************************************************************)
(* What SimpleDownloadManager keeps for any files of any length, and       *)
(* whatever fails.                                                         *)
(***************************************************************************)
EXTENDS SimpleDownloadManager, TLAPS

(***************************************************************************)
(* The strengthening: while data come in, the temporary file, unless it    *)
(* was removed, holds what has come, and the connection is not yet         *)
(* reported finished; what the loop has still to fetch is not there, and   *)
(* what it has not to fetch is, unless an alert or a reset explains why    *)
(* not.                                                                    *)
(***************************************************************************)
TransferIsWhole ==
    pc = "runLoop" /\ FileThere(temporaryFile) => temporaryFile = downloadedBytesSize

(* A connection that was cut short is over. *)
CutShortIsOver == pc \in {"create", "runLoop"} => fileName \notin cutShort

NeededIsMissing ==
    /\ pc \in {"create", "runLoop", "stopped"} => fileName \in filesNeedToDownload
    /\ pc # "idle" => \A f \in filesNeedToDownload :
                         FileThere(destination[f]) => pc = "stopped" /\ f = fileName

RestIsThere ==
    /\ pc # "idle" => result = "none"
    /\ pc # "idle" /\ ~warned /\ ~removed =>
          \A f \in Grub4DosFiles \ filesNeedToDownload : FileThere(destination[f])
    /\ pc = "stopped" /\ operationSuccessful /\ ~warned /\ ~removed =>
          FileThere(destination[fileName])

IInv ==
    /\ TypeOK
    /\ TransferIsWhole
    /\ CutShortIsOver
    /\ NoPartialFile
    /\ NeededIsMissing
    /\ RestIsThere
    /\ MissingFileIsAnnounced

-----------------------------------------------------------------------------
(* Every variable has its type: in particular no more data are counted for *)
(* a file than it has, whatever came before.                               *)
THEOREM TypeCorrect == Spec => []TypeOK
<1>1. Init => TypeOK
  <2> SUFFICES ASSUME Init PROVE TypeOK
    OBVIOUS
  <2>1. destination \in [Grub4DosFiles -> Nat \cup {Nothing}]
    BY DEF Init
  <2>2. temporaryFile \in Nat \cup {Nothing, Folder}
    BY DEF Init
  <2> QED
    BY <2>1, <2>2 DEF Init, TypeOK
<1>2. TypeOK /\ [Next]_vars => TypeOK'
  <2> SUFFICES ASSUME TypeOK, [Next]_vars PROVE TypeOK'
    OBVIOUS
  <2> USE ChunksAssumption DEF TypeOK, Nothing, Folder, transfer, disk, loop, history, Return, Callback
  <2>1. CASE Begin
    BY <2>1 DEF Begin, NotDownloadedGrub4DosFiles
  <2>2. CASE CreateFolders
    BY <2>2 DEF CreateFolders
  <2>3. CASE ClearPaths
    BY <2>3 DEF ClearPaths, FailToStart
  <2>4. CASE StartConnection
    <3>1. Chunks[fileName] \in Nat
      OBVIOUS
    <3>2. downloadedBytesSize' \in Nat /\ (pc' = "runLoop" => downloadedBytesSize' <= Chunks[fileName'])
      BY <2>4, <3>1 DEF StartConnection, ResetCounters, FailToStart
    <3>3. temporaryFile' \in Nat \cup {Nothing, Folder}
      BY <2>4 DEF StartConnection, FailToStart
    <3>4. warned' \in BOOLEAN
      BY <2>4 DEF StartConnection, FailToStart
    <3> QED
      BY <2>4, <3>2, <3>3, <3>4 DEF StartConnection, ResetCounters, FailToStart
  <2>5. CASE RunLoopReturns
    BY <2>5 DEF RunLoopReturns, LeaveLoop
  <2>6. CASE AllDownloaded
    BY <2>6 DEF AllDownloaded
  <2>7. CASE DidReceiveResponse
    BY <2>7 DEF DidReceiveResponse, AbortWithCleanup, StopRunLoop
  <2>8. CASE DidReceiveData
    <3>1. Chunks[fileName] \in Nat
      OBVIOUS
    <3>2. temporaryFile' \in Nat \cup {Nothing, Folder}
      BY <2>8 DEF DidReceiveData, AbortWithCleanup, FileThere
    <3>3. destination' \in [Grub4DosFiles -> Nat \cup {Nothing}]
      BY <2>8 DEF DidReceiveData, AbortWithCleanup
    <3>4. downloadedBytesSize' \in Nat /\ downloadedBytesSize' <= Chunks[fileName']
      BY <2>8, <3>1 DEF DidReceiveData
    <3>5. warned' \in BOOLEAN
      BY <2>8 DEF DidReceiveData
    <3> QED
      BY <2>8, <3>2, <3>3, <3>4, <3>5 DEF DidReceiveData, AbortWithCleanup, StopRunLoop
  <2>9. CASE DidFailWithError
    BY <2>9 DEF DidFailWithError, StopRunLoop, KeepNothing
  <2>10. CASE ConnectionDidFinishLoading
    <3>1. FileThere(temporaryFile) => temporaryFile \in Nat
      BY DEF FileThere
    <3>2. destination' \in [Grub4DosFiles -> Nat \cup {Nothing}]
      BY <2>10, <3>1 DEF ConnectionDidFinishLoading, CanMove, MoveFails
    <3> QED
      BY <2>10, <3>2 DEF ConnectionDidFinishLoading, MoveFails, StopRunLoop
  <2>11. CASE SetupBaseDirectories
    BY <2>11 DEF SetupBaseDirectories
  <2>12. CASE Crash
    BY <2>12 DEF Crash, End
  <2>13. CASE Quit
    BY <2>13 DEF Quit, End
  <2>14. CASE ResetApplicationSettings
    BY <2>14 DEF ResetApplicationSettings
  <2>15. CASE OtherInstanceCleansTemp
    <3>1. tempFolder' \in BOOLEAN /\ grub4dosFolder' \in BOOLEAN
      BY <2>15 DEF OtherInstanceCleansTemp
    <3>2. temporaryFile' = Nothing
      BY <2>15 DEF OtherInstanceCleansTemp
    <3>3. UNCHANGED <<destination, running, pc, loop, transfer, warned, result, history>>
      BY <2>15 DEF OtherInstanceCleansTemp
    <3> QED
      BY <3>1, <3>2, <3>3
  <2>16. CASE UNCHANGED vars
    BY <2>16 DEF vars
  <2> QED
    BY <2>1, <2>2, <2>3, <2>4, <2>5, <2>6, <2>7, <2>8, <2>9, <2>10, <2>11, <2>12,
       <2>13, <2>14, <2>15, <2>16 DEF Next, Step
<1> QED
  BY <1>1, <1>2, PTL DEF Spec

-----------------------------------------------------------------------------
LEMMA InitIInv == Init /\ TypeOK => IInv
<1> SUFFICES ASSUME Init, TypeOK PROVE IInv
  OBVIOUS
<1>1. TransferIsWhole /\ CutShortIsOver /\ NeededIsMissing /\ RestIsThere
      /\ MissingFileIsAnnounced
  BY DEF Init, TransferIsWhole, CutShortIsOver, NeededIsMissing, RestIsThere, MissingFileIsAnnounced
<1>2. NoPartialFile
  BY DEF Init, NoPartialFile, FileThere, Nothing
<1> QED
  BY <1>1, <1>2 DEF IInv

LEMMA NextIInv == ASSUME IInv, TypeOK', [Next]_vars PROVE IInv'
<1> USE ChunksAssumption DEF FileThere, Nothing, Folder, transfer, disk, loop, history, Return, Callback
<1>1. TransferIsWhole'
  <2> USE DEF IInv, TypeOK, TransferIsWhole
  <2>1. CASE Begin \/ CreateFolders \/ ClearPaths \/ RunLoopReturns \/ AllDownloaded
    BY <2>1 DEF Begin, CreateFolders, ClearPaths, FailToStart, RunLoopReturns,
                LeaveLoop, AllDownloaded
  <2>2. CASE StartConnection
    BY <2>2 DEF StartConnection, ResetCounters, FailToStart
  <2>3. CASE DidReceiveResponse
    BY <2>3 DEF DidReceiveResponse, AbortWithCleanup, StopRunLoop
  <2>4. CASE DidReceiveData
    BY <2>4 DEF DidReceiveData, AbortWithCleanup, StopRunLoop
  <2>5. CASE DidFailWithError \/ ConnectionDidFinishLoading
    BY <2>5 DEF DidFailWithError, ConnectionDidFinishLoading, StopRunLoop
  <2>6. CASE SetupBaseDirectories \/ ResetApplicationSettings \/ OtherInstanceCleansTemp
    BY <2>6 DEF SetupBaseDirectories, ResetApplicationSettings, OtherInstanceCleansTemp
  <2>7. CASE Crash \/ Quit
    BY <2>7 DEF Crash, Quit, End
  <2>8. CASE UNCHANGED vars
    BY <2>8 DEF vars
  <2> QED
    BY <2>1, <2>2, <2>3, <2>4, <2>5, <2>6, <2>7, <2>8 DEF Next, Step
<1>2. NoPartialFile'
  <2> USE DEF IInv, TypeOK, NoPartialFile
  <2>1. CASE Begin \/ CreateFolders \/ StartConnection \/ RunLoopReturns \/ AllDownloaded
    BY <2>1 DEF Begin, CreateFolders, StartConnection, RunLoopReturns, AllDownloaded
  <2>2. CASE ClearPaths
    BY <2>2 DEF ClearPaths
  <2>3. CASE DidReceiveResponse \/ DidReceiveData
    BY <2>3 DEF DidReceiveResponse, DidReceiveData, AbortWithCleanup
  <2>4. CASE DidFailWithError
    BY <2>4 DEF DidFailWithError, KeepNothing
  <2>5. CASE ConnectionDidFinishLoading
    <3>1. TransferIsWhole /\ CutShortIsOver /\ NoPartialFile
      OBVIOUS
    <3>2. Chunks[fileName] \in Nat /\ downloadedBytesSize \in Nat
          /\ downloadedBytesSize <= Chunks[fileName]
      BY <2>5 DEF ConnectionDidFinishLoading
    <3>3. fileName \in cutShort' <=> downloadedBytesSize < Chunks[fileName]
      BY <2>5, <3>1, <3>2 DEF ConnectionDidFinishLoading, CutShortIsOver
    <3>4. destination'[fileName] \in {destination[fileName], downloadedBytesSize}
      BY <2>5, <3>1 DEF ConnectionDidFinishLoading, CanMove, MoveFails, TransferIsWhole
    <3>5. \A f \in Grub4DosFiles : f # fileName =>
             destination'[f] = destination[f] /\ (f \in cutShort' <=> f \in cutShort)
      BY <2>5 DEF ConnectionDidFinishLoading, MoveFails
    <3>6. destination[fileName] = Nothing
      BY <2>5 DEF ConnectionDidFinishLoading, NeededIsMissing
    <3> QED
      <4> SUFFICES ASSUME NEW f \in Grub4DosFiles, FileThere(destination'[f])
                   PROVE  IF f \in cutShort' THEN destination'[f] < Chunks[f]
                                             ELSE destination'[f] = Chunks[f]
        OBVIOUS
      <4>1. CASE f = fileName
        BY <4>1, <3>2, <3>3, <3>4, <3>6
      <4>2. CASE f # fileName
        BY <4>2, <3>1, <3>5
      <4> QED
        BY <4>1, <4>2
  <2>6. CASE SetupBaseDirectories \/ ResetApplicationSettings \/ OtherInstanceCleansTemp
    BY <2>6 DEF SetupBaseDirectories, ResetApplicationSettings, OtherInstanceCleansTemp
  <2>7. CASE Crash \/ Quit
    BY <2>7 DEF Crash, Quit, End
  <2>8. CASE UNCHANGED vars
    BY <2>8 DEF vars
  <2> QED
    BY <2>1, <2>2, <2>3, <2>4, <2>5, <2>6, <2>7, <2>8 DEF Next, Step
<1>3. NeededIsMissing'
  <2> USE DEF IInv, TypeOK, NeededIsMissing
  <2>1. CASE Begin
    BY <2>1 DEF Begin, NotDownloadedGrub4DosFiles
  <2>2. CASE CreateFolders \/ AllDownloaded
    BY <2>2 DEF CreateFolders, AllDownloaded
  <2>3. CASE ClearPaths
    BY <2>3 DEF ClearPaths, FailToStart
  <2>4. CASE StartConnection
    BY <2>4 DEF StartConnection, FailToStart
  <2>5. CASE RunLoopReturns
    BY <2>5 DEF RunLoopReturns, LeaveLoop
  <2>6. CASE DidReceiveResponse \/ DidReceiveData
    BY <2>6 DEF DidReceiveResponse, DidReceiveData, AbortWithCleanup, StopRunLoop
  <2>7. CASE DidFailWithError
    BY <2>7 DEF DidFailWithError, KeepNothing, StopRunLoop
  <2>8. CASE ConnectionDidFinishLoading
    BY <2>8 DEF ConnectionDidFinishLoading, MoveFails, StopRunLoop
  <2>9. CASE SetupBaseDirectories \/ ResetApplicationSettings \/ OtherInstanceCleansTemp
    BY <2>9 DEF SetupBaseDirectories, ResetApplicationSettings, OtherInstanceCleansTemp
  <2>10. CASE Crash \/ Quit
    BY <2>10 DEF Crash, Quit, End
  <2>11. CASE UNCHANGED vars
    BY <2>11 DEF vars
  <2> QED
    BY <2>1, <2>2, <2>3, <2>4, <2>5, <2>6, <2>7, <2>8, <2>9, <2>10, <2>11 DEF Next, Step
<1>4. RestIsThere'
  <2> USE DEF IInv, TypeOK, RestIsThere
  <2>1. CASE Begin
    BY <2>1 DEF Begin, NotDownloadedGrub4DosFiles
  <2>2. CASE CreateFolders \/ AllDownloaded
    BY <2>2 DEF CreateFolders, AllDownloaded
  <2>3. CASE ClearPaths
    BY <2>3 DEF ClearPaths, FailToStart
  <2>4. CASE StartConnection
    BY <2>4 DEF StartConnection, FailToStart
  <2>5. CASE RunLoopReturns
    BY <2>5 DEF RunLoopReturns, LeaveLoop
  <2>6. CASE DidReceiveResponse \/ DidReceiveData
    BY <2>6 DEF DidReceiveResponse, DidReceiveData, AbortWithCleanup, StopRunLoop
  <2>7. CASE DidFailWithError
    BY <2>7 DEF DidFailWithError, StopRunLoop
  <2>8. CASE ConnectionDidFinishLoading
    BY <2>8 DEF ConnectionDidFinishLoading, CanMove, MoveFails, StopRunLoop
  <2>9. CASE SetupBaseDirectories \/ ResetApplicationSettings \/ OtherInstanceCleansTemp
    BY <2>9 DEF SetupBaseDirectories, ResetApplicationSettings, OtherInstanceCleansTemp
  <2>10. CASE Crash \/ Quit
    BY <2>10 DEF Crash, Quit, End
  <2>11. CASE UNCHANGED vars
    BY <2>11 DEF vars
  <2> QED
    BY <2>1, <2>2, <2>3, <2>4, <2>5, <2>6, <2>7, <2>8, <2>9, <2>10, <2>11 DEF Next, Step
<1>5. MissingFileIsAnnounced'
  <2> USE DEF IInv, TypeOK, MissingFileIsAnnounced, RestIsThere
  <2>1. CASE Begin
    BY <2>1 DEF Begin, NotDownloadedGrub4DosFiles
  <2>2. CASE CreateFolders
    BY <2>2 DEF CreateFolders
  <2>3. CASE AllDownloaded
    BY <2>3 DEF AllDownloaded
  <2>4. CASE ClearPaths \/ StartConnection \/ RunLoopReturns
    BY <2>4 DEF ClearPaths, StartConnection, FailToStart, RunLoopReturns, LeaveLoop
  <2>5. CASE DidReceiveResponse \/ DidReceiveData \/ DidFailWithError
               \/ ConnectionDidFinishLoading
    BY <2>5 DEF DidReceiveResponse, DidReceiveData, DidFailWithError,
                ConnectionDidFinishLoading
  <2>6. CASE SetupBaseDirectories \/ ResetApplicationSettings \/ OtherInstanceCleansTemp
    BY <2>6 DEF SetupBaseDirectories, ResetApplicationSettings, OtherInstanceCleansTemp
  <2>7. CASE Crash \/ Quit
    BY <2>7 DEF Crash, Quit, End
  <2>8. CASE UNCHANGED vars
    BY <2>8 DEF vars
  <2> QED
    BY <2>1, <2>2, <2>3, <2>4, <2>5, <2>6, <2>7, <2>8 DEF Next, Step
<1>6. CutShortIsOver'
  <2> USE DEF IInv, TypeOK, CutShortIsOver
  <2>1. CASE Begin \/ CreateFolders \/ StartConnection \/ RunLoopReturns \/ AllDownloaded
    BY <2>1 DEF Begin, CreateFolders, StartConnection, FailToStart, RunLoopReturns,
                LeaveLoop, AllDownloaded
  <2>2. CASE ClearPaths
    BY <2>2 DEF ClearPaths, FailToStart
  <2>3. CASE DidReceiveResponse \/ DidReceiveData
    BY <2>3 DEF DidReceiveResponse, DidReceiveData, AbortWithCleanup, StopRunLoop
  <2>4. CASE DidFailWithError \/ ConnectionDidFinishLoading
    BY <2>4 DEF DidFailWithError, ConnectionDidFinishLoading, StopRunLoop
  <2>5. CASE SetupBaseDirectories \/ ResetApplicationSettings \/ OtherInstanceCleansTemp
    BY <2>5 DEF SetupBaseDirectories, ResetApplicationSettings, OtherInstanceCleansTemp
  <2>6. CASE Crash \/ Quit
    BY <2>6 DEF Crash, Quit, End
  <2>7. CASE UNCHANGED vars
    BY <2>7 DEF vars
  <2> QED
    BY <2>1, <2>2, <2>3, <2>4, <2>5, <2>6, <2>7 DEF Next, Step
<1> QED
  BY <1>1, <1>2, <1>3, <1>4, <1>5, <1>6 DEF IInv

LEMMA Invariance == Spec => []IInv
<1>1. IInv /\ TypeOK' /\ [Next]_vars => IInv'
  BY NextIInv
<1> QED
  BY InitIInv, TypeCorrect, <1>1, PTL DEF Spec

-----------------------------------------------------------------------------
(* No boot file is ever there in part, whenever the application is killed, *)
(* quit or reset and whatever fails, but for a file whose connection was   *)
(* reported finished before all of it had come: of that one there is less. *)
THEOREM NoFileIsPartial == Spec => []NoPartialFile
<1>1. IInv => NoPartialFile
  BY DEF IInv
<1> QED
  BY Invariance, <1>1, PTL

(* -downloadLegacyBootloaderFiles answers YES without a boot file only     *)
(* after an alert, or when the files were removed by a reset.              *)
THEOREM MissingIsAnnounced == Spec => []MissingFileIsAnnounced
<1>1. IInv => MissingFileIsAnnounced
  BY DEF IInv
<1> QED
  BY Invariance, <1>1, PTL

(* No attempt removes or replaces a file that an earlier one downloaded.   *)
THEOREM FilesAreKept == Spec => DownloadedFilesAreKept
<1> DEFINE Kept == \A f \in Grub4DosFiles :
          FileThere(destination[f]) /\ grub4dosFolder' => destination'[f] = destination[f]
<1>1. IInv /\ [Next]_vars => [Kept]_vars
  <2> SUFFICES ASSUME IInv, [Next]_vars PROVE Kept \/ UNCHANGED vars
    OBVIOUS
  <2> USE DEF IInv, TypeOK, NeededIsMissing, FileThere, Nothing, transfer, disk, loop, history, Return
  <2>1. CASE Begin \/ CreateFolders \/ StartConnection \/ RunLoopReturns \/ AllDownloaded
    BY <2>1 DEF Begin, CreateFolders, StartConnection, RunLoopReturns, AllDownloaded
  <2>2. CASE ClearPaths
    BY <2>2 DEF ClearPaths
  <2>3. CASE DidReceiveResponse \/ DidReceiveData
    BY <2>3 DEF DidReceiveResponse, DidReceiveData, AbortWithCleanup
  <2>4. CASE DidFailWithError
    BY <2>4 DEF DidFailWithError, KeepNothing
  <2>5. CASE ConnectionDidFinishLoading
    BY <2>5 DEF ConnectionDidFinishLoading, MoveFails
  <2>6. CASE SetupBaseDirectories \/ ResetApplicationSettings \/ OtherInstanceCleansTemp
    BY <2>6 DEF SetupBaseDirectories, ResetApplicationSettings, OtherInstanceCleansTemp
  <2>7. CASE Crash \/ Quit
    BY <2>7 DEF Crash, Quit, End
  <2> QED
    BY <2>1, <2>2, <2>3, <2>4, <2>5, <2>6, <2>7 DEF Next, Step
<1> QED
  BY Invariance, <1>1, PTL DEF Spec, DownloadedFilesAreKept
=============================================================================
