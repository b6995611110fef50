------------------------ MODULE SimpleDownloadManager ------------------------
(***************************************************************************)
(* The boot files of legacy boot.  -downloadLegacyBootloaderFiles of the   *)
(* main window fetches what is missing, file by file; a                    *)
(* SimpleDownloadManager collects the data of one file under a temporary   *)
(* name and moves it to its place, driven by the delegate messages of      *)
(* NSURLConnection in a run loop of its own.  Meanwhile the application    *)
(* can be reset, quit or killed, and another instance of it can clean the  *)
(* temporary folder they share.                                            *)
(***************************************************************************)
EXTENDS Integers

CONSTANTS
    Grub4DosFiles,  \* the files, fetched in any order
    Chunks,         \* the chunks the server sends of each file
    Faults          \* what may fail

ASSUME ChunksAssumption == Chunks \in [Grub4DosFiles -> Nat]

VARIABLES
    \* the disk
    tempFolder,     \* applicationTempFolder exists
    grub4dosFolder, \* applicationGrub4DosFolder exists
    temporaryFile,  \* what is at temporaryFilePath of this attempt
    destination,    \* what is at destinationPath of each file
    \* the application
    running,        \* it is launched, its base directories are set up
    pc,             \* where -downloadLegacyBootloaderFiles is
    filesNeedToDownload,
    fileName,       \* the one the loop is at
    connection,     \* what the delegate has been told so far
    downloadedBytesSize,
    operationSuccessful,
    warned,         \* an alert told that the files could not be downloaded
    result,         \* what the last call of -downloadLegacyBootloaderFiles returned
    removed,        \* the files were removed by a reset since it began (history)
    cutShort        \* the files whose connection was reported finished
                    \* before all of them had come (history)

disk == <<tempFolder, grub4dosFolder, temporaryFile, destination>>
transfer == <<connection, downloadedBytesSize, operationSuccessful>>
loop == <<filesNeedToDownload, fileName>>
history == <<removed, cutShort>>
vars == <<disk, running, pc, loop, transfer, warned, result, history>>

(* At a path there is nothing, a folder, or a file with so many chunks. *)
Nothing == -1
Folder == -2
FileThere(content) == content >= 0

TypeOK ==
    /\ tempFolder \in BOOLEAN /\ grub4dosFolder \in BOOLEAN
    /\ temporaryFile \in Nat \cup {Nothing, Folder}
    /\ destination \in [Grub4DosFiles -> Nat \cup {Nothing}]
    /\ running \in BOOLEAN
    /\ pc \in {"idle", "folders", "next", "create", "runLoop", "stopped"}
    /\ filesNeedToDownload \subseteq Grub4DosFiles
    /\ fileName \in Grub4DosFiles
    /\ connection \in {"started", "response", "over"}
    /\ downloadedBytesSize \in Nat
    /\ pc = "runLoop" => downloadedBytesSize <= Chunks[fileName]
    /\ operationSuccessful \in BOOLEAN
    /\ warned \in BOOLEAN
    /\ result \in {"none", "yes", "no"}
    /\ removed \in BOOLEAN
    /\ cutShort \subseteq Grub4DosFiles

(* Freshly installed. *)
Init ==
    /\ tempFolder = FALSE /\ grub4dosFolder = FALSE
    /\ temporaryFile = Nothing
    /\ destination = [f \in Grub4DosFiles |-> Nothing]
    /\ running = FALSE
    /\ pc = "idle"
    /\ filesNeedToDownload = {}
    /\ fileName \in Grub4DosFiles
    /\ connection = "over"
    /\ downloadedBytesSize = 0
    /\ operationSuccessful = FALSE
    /\ warned = FALSE
    /\ result = "none"
    /\ removed = FALSE
    /\ cutShort = {}

-----------------------------------------------------------------------------
(* -downloadLegacyBootloaderFiles *)

(* Mutant: all files are fetched again. *)
AllFiles == Grub4DosFiles

NotDownloadedGrub4DosFiles == {f \in Grub4DosFiles : ~FileThere(destination[f])}

Return(answer) ==
    /\ result' = answer
    /\ pc' = "idle"

Begin ==
    /\ running /\ pc = "idle"
    /\ filesNeedToDownload' = NotDownloadedGrub4DosFiles
    /\ \/ /\ filesNeedToDownload' = {}
          /\ Return("yes")
          /\ UNCHANGED temporaryFile
       \/ /\ filesNeedToDownload' # {}
          /\ pc' = "folders" /\ result' = "none"
          /\ temporaryFile' = Nothing  \* a new random name
    /\ warned' = FALSE
    /\ removed' = FALSE
    /\ UNCHANGED <<tempFolder, grub4dosFolder, destination, running, fileName,
                   transfer, cutShort>>

(* A folder is created at the temporary path, with its parents. *)
CreateFolders ==
    /\ pc = "folders"
    /\ \/ /\ tempFolder' = TRUE /\ grub4dosFolder' = TRUE
          /\ temporaryFile' = Folder
          /\ pc' = "next"
          /\ UNCHANGED result
       \/ /\ "folders" \in Faults
          /\ Return("no")
          /\ UNCHANGED <<tempFolder, grub4dosFolder, temporaryFile>>
    /\ UNCHANGED <<destination, running, loop, transfer, warned, history>>

(* The callback: an error is shown in an alert. *)
Callback(failed) == warned' = (warned \/ failed)

FailToStart ==
    /\ Callback(TRUE)
    /\ Return("no")

(* What is at the two paths is removed, destination first. *)
ClearPaths ==
    /\ pc = "next"
    /\ fileName' \in filesNeedToDownload
    /\ destination' = [destination EXCEPT ![fileName'] = Nothing]
    /\ cutShort' = cutShort \ {fileName'}
    /\ \/ /\ temporaryFile' = Nothing
          /\ pc' = "create"
          /\ UNCHANGED <<warned, result>>
       \/ /\ "remove" \in Faults
          /\ temporaryFile # Nothing
          /\ FailToStart
          /\ UNCHANGED temporaryFile
    /\ UNCHANGED <<tempFolder, grub4dosFolder, running, filesNeedToDownload, transfer, removed>>

(* Mutant: the counters go on where the last file left them. *)
KeepCounters == UNCHANGED <<downloadedBytesSize, operationSuccessful>>

ResetCounters == downloadedBytesSize' = 0 /\ operationSuccessful' = FALSE

(* The blank temporary file, its handle, and the start of the connection. *)
StartConnection ==
    /\ pc = "create"
    /\ \/ /\ tempFolder
          /\ temporaryFile' = 0
          /\ pc' = "runLoop"
          /\ connection' = "started"
          /\ ResetCounters
          /\ UNCHANGED <<warned, result>>
       \/ /\ ~tempFolder \/ "create" \in Faults
          /\ FailToStart
          /\ UNCHANGED <<temporaryFile, transfer>>
    /\ UNCHANGED <<tempFolder, grub4dosFolder, destination, running, loop, history>>

-----------------------------------------------------------------------------
(* The delegate messages, one at a time, while the run loop runs. *)

StopRunLoop == pc' = "stopped" /\ connection' = "over"

AbortWithCleanup ==
    /\ temporaryFile' = Nothing
    /\ destination' = [destination EXCEPT ![fileName] = Nothing]
    /\ StopRunLoop

(* A length that is not known or a status that is not 200 is refused. *)
DidReceiveResponse ==
    /\ pc = "runLoop" /\ connection = "started"
    /\ \/ /\ Callback(FALSE)
          /\ connection' = "response"
          /\ UNCHANGED <<temporaryFile, destination, pc>>
       \/ /\ "response" \in Faults
          /\ Callback(TRUE)
          /\ AbortWithCleanup
    /\ UNCHANGED <<tempFolder, grub4dosFolder, running, loop,
                   downloadedBytesSize, operationSuccessful, result, history>>

(* The handle may be that of a file that was removed under it. *)
DidReceiveData ==
    /\ pc = "runLoop" /\ connection = "response"
    /\ downloadedBytesSize < Chunks[fileName]
    /\ downloadedBytesSize' = downloadedBytesSize + 1
    /\ \/ /\ temporaryFile' = IF FileThere(temporaryFile) THEN temporaryFile + 1
                                                          ELSE temporaryFile
          /\ Callback(FALSE)
          /\ UNCHANGED <<destination, pc, connection>>
       \/ /\ "data" \in Faults
          /\ Callback(TRUE)
          /\ AbortWithCleanup
    /\ UNCHANGED <<tempFolder, grub4dosFolder, running, loop,
                   operationSuccessful, result, history>>

(* Mutant: what has come so far is taken for the file. *)
KeepWhatHasCome ==
    destination' = [destination EXCEPT ![fileName] =
        IF grub4dosFolder THEN temporaryFile ELSE Nothing]

(* The connection was lost or timed out; nothing is cleaned up. *)
KeepNothing == UNCHANGED destination

DidFailWithError ==
    /\ "connection" \in Faults
    /\ pc = "runLoop"
    /\ Callback(TRUE)
    /\ StopRunLoop
    /\ KeepNothing
    /\ UNCHANGED <<tempFolder, grub4dosFolder, temporaryFile, running, loop,
                   downloadedBytesSize, operationSuccessful, result, history>>

CanMove == FileThere(temporaryFile) /\ grub4dosFolder

(* Mutant: the error of the move is dropped. *)
MoveFailsSilently == Callback(FALSE) /\ UNCHANGED <<temporaryFile, destination>>

MoveFails == Callback(TRUE) /\ UNCHANGED <<temporaryFile, destination>>

(* The connection is reported finished, when all data have come or before: *)
(* the length that was expected is not compared with what came.  A failed  *)
(* move is reported and is a success all the same.                         *)
ConnectionDidFinishLoading ==
    /\ pc = "runLoop" /\ connection = "response"
    /\ cutShort' = IF downloadedBytesSize < Chunks[fileName]
                   THEN cutShort \cup {fileName}
                   ELSE cutShort
    /\ \/ /\ CanMove
          /\ destination' = [destination EXCEPT ![fileName] = temporaryFile]
          /\ temporaryFile' = Nothing
          /\ Callback(FALSE)
       \/ /\ ~CanMove \/ "move" \in Faults
          /\ MoveFails
    /\ operationSuccessful' = TRUE
    /\ StopRunLoop
    /\ UNCHANGED <<tempFolder, grub4dosFolder, running, loop,
                   downloadedBytesSize, result, removed>>

(* Mutant: a file that failed is tried again. *)
TryAgain == pc' = "create" /\ UNCHANGED result

LeaveLoop == Return("no")

(* CFRunLoopRun returns; the loop goes on or is left. *)
RunLoopReturns ==
    /\ pc = "stopped"
    /\ \/ /\ operationSuccessful
          /\ pc' = "next"
          /\ filesNeedToDownload' = filesNeedToDownload \ {fileName}
          /\ UNCHANGED result
       \/ /\ ~operationSuccessful
          /\ LeaveLoop
          /\ UNCHANGED filesNeedToDownload
    /\ UNCHANGED <<disk, running, fileName, transfer, warned, history>>

AllDownloaded ==
    /\ pc = "next" /\ filesNeedToDownload = {}
    /\ Return("yes")
    /\ UNCHANGED <<disk, running, loop, transfer, warned, history>>

-----------------------------------------------------------------------------
(* The application around it *)

(* At launch the temporary folder is removed and all folders are created.  *)
(* Where that fails the application can only be left.                      *)
SetupBaseDirectories ==
    /\ ~running
    /\ running' = TRUE
    /\ tempFolder' = TRUE /\ grub4dosFolder' = TRUE
    /\ temporaryFile' = Nothing
    /\ UNCHANGED <<destination, pc, loop, transfer, warned, result, history>>

(* The process is gone, and with it what it was doing. *)
End ==
    /\ running
    /\ running' = FALSE
    /\ pc' = "idle"
    /\ connection' = "over"
    /\ UNCHANGED <<grub4dosFolder, destination, loop,
                   downloadedBytesSize, operationSuccessful, warned, result, history>>

Crash == End /\ UNCHANGED <<tempFolder, temporaryFile>>

(* -applicationWillTerminate: *)
Quit ==
    /\ End
    /\ tempFolder' = FALSE /\ temporaryFile' = Nothing

(* The debug menu, during a download too.  The restart that follows it is  *)
(* a Quit; it does not happen if the executable was moved.                 *)
ResetApplicationSettings ==
    /\ running
    /\ tempFolder' = FALSE /\ grub4dosFolder' = FALSE
    /\ temporaryFile' = Nothing
    /\ destination' = [f \in Grub4DosFiles |-> Nothing]
    /\ removed' = TRUE
    /\ UNCHANGED <<running, pc, loop, transfer, warned, result, cutShort>>

(* Another instance is launched (and creates the folders anew) or ends. *)
OtherInstanceCleansTemp ==
    /\ \/ tempFolder' = TRUE /\ grub4dosFolder' = TRUE
       \/ tempFolder' = FALSE /\ UNCHANGED grub4dosFolder
    /\ temporaryFile' = Nothing
    /\ UNCHANGED <<destination, running, pc, loop,
                   transfer, warned, result, history>>

-----------------------------------------------------------------------------
Step ==
    \/ CreateFolders \/ ClearPaths \/ StartConnection \/ RunLoopReturns \/ AllDownloaded
    \/ DidReceiveResponse \/ DidReceiveData \/ DidFailWithError \/ ConnectionDidFinishLoading

Next ==
    \/ Begin \/ Step
    \/ SetupBaseDirectories \/ Crash \/ Quit
    \/ ResetApplicationSettings \/ OtherInstanceCleansTemp

Spec == Init /\ [][Next]_vars

(* The thread runs on, and the request has a timeout interval of 15        *)
(* seconds: the connection goes on, ends or fails.                         *)
FairSpec == Spec /\ WF_vars(Step)

-----------------------------------------------------------------------------
(* "Atomic moving" (temporaryDirectoryPathForAtomicMoving): whenever the   *)
(* application is killed, quit or reset, and however the connection is     *)
(* lost, no boot file is ever there in part, for the next start takes a    *)
(* file that is there for a downloaded one.  A part comes to its place in  *)
(* one way only: the connection was reported finished too early.           *)
NoPartialFile ==
    \A f \in Grub4DosFiles :
        FileThere(destination[f]) =>
            IF f \in cutShort THEN destination[f] < Chunks[f] ELSE destination[f] = Chunks[f]

(* A write that goes on without a boot file goes on after an alert. *)
MissingFileIsAnnounced ==
    result = "yes" /\ ~warned /\ ~removed
        => \A f \in Grub4DosFiles : FileThere(destination[f])

(* A file that was downloaded is lost with the whole folder only: not by a *)
(* later attempt that fails, nor by one that fetches the others.           *)
DownloadedFilesAreKept ==
    [][\A f \in Grub4DosFiles :
          FileThere(destination[f]) /\ grub4dosFolder' => destination'[f] = destination[f]]_vars

(* No server and no failure makes the download, and with it the write,     *)
(* wait for ever.                                                          *)
EveryDownloadEnds == (pc # "idle") ~> (pc = "idle")

(* "The bootloader files could not be downloaded.": told to the user, so   *)
(* the call that goes on to erase the device does not answer YES.          *)
WarningStopsTheWrite == warned => result # "yes"
=============================================================================
