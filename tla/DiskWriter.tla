----------------------------- MODULE DiskWriter -----------------------------
(***************************************************************************)
(* The copy engine (Classes/DiskWriter/DiskWriter.m): -startWriting walks  *)
(* the files of the source in order, copies them chunk by chunk, patches   *)
(* and splits the Windows image where that is needed, extracts a boot      *)
(* loader the source lacks and installs the legacy boot sector.            *)
(*                                                                         *)
(* Every step of the work ends in a call of the progress callback, and its *)
(* answer decides how the code goes on.  One action here is a piece of the *)
(* work together with the callback that reports it; the answers are those  *)
(* of the callback of -[MainWindow writeAction].                           *)
(***************************************************************************)
EXTENDS Naturals, Sequences

CONSTANTS
    Jobs,     \* the writes: source files and the options of the user
    Faults    \* what the environment may let fail, a subset of FaultKinds

FaultKinds ==
    {"check",    \* commonErrorChecker: no destination, no room
     "open",     \* a file can not be opened, measured or given a buffer
     "read",     \* fread fails before the end of the file
     "write", "mkdir", "chmod", "patch", "split", "extract",
     "close",    \* what fclose flushes does not reach the destination
     "rename",   \* the extracted boot loader can not be renamed
     "sector",   \* any step of writeLegacyBootSector
     "cleanup"}  \* the temporary directory can not be removed

Roles == {"directory", "plain", "efi", "wim", "esd"}

FileInfo == [role : Roles, large : BOOLEAN, chunks : Nat]

Job == [files : Seq(FileInfo), fat32 : BOOLEAN, patch : BOOLEAN,
        legacyBoot : BOOLEAN, elevated : BOOLEAN]

ASSUME JobsAssumption == Jobs \subseteq Job
ASSUME FaultsAssumption == Faults \subseteq FaultKinds

VARIABLES
    job,                 \* the write under way (never changes)
    pc,                  \* where -startWriting is
    file,                \* index of currentFile
    target,              \* copyFile writes to the medium or the temp folder
    chunk,               \* chunks of currentFile written so far
    hasEFIBootloader,
    installer,           \* index of installerWIMPackageFile, 0 for NULL
    lastAction,          \* the last answer of the callback
    isScheduledForStop,  \* the flag the callback looks at first
    reports,             \* what the callback was told of (history)
    lost,                \* files that lost data at fread or fclose (history)
    leftover,            \* the folder of temp could not be removed (history)
    error,               \* *error is set
    result,              \* what -startWriting returned
    dest,                \* content of every file on the medium
    slices,              \* the .swm parts of an image, on the medium
    temp,                \* the last image in a temporary folder of its own
    bootloader,          \* extracted efi/boot/bootx64.efi
    sector               \* the legacy boot sector

locals == <<job, file, target, hasEFIBootloader, installer>>
history == <<lost, leftover>>
client == <<lastAction, isScheduledForStop, reports>>
medium == <<dest, slices, bootloader, sector>>
vars == <<locals, chunk, pc, client, error, result, history, medium, temp>>

(* "part": exists but is not (yet) what it should be. *)
Contents == {"none", "part", "whole", "patched"}

(* "misnamed": extracted, and still called bootmgfw.efi. *)
LoaderContents == Contents \cup {"misnamed"}

Operations == {"CreateDirectory", "WriteFile", "SetFilePermissions",
               "SplitWindowsImage", "PatchWindowsInstallerRequirements",
               "ExtractWindowsBootloader", "InstallLegacyBootSector"}
Outcomes == {"Success", "Failure", "Skipped"}

PCs == {"check", "loop", "mkdirStart", "mkdir", "copy", "chunk", "refuse",
        "tempStart", "temp", "chmodStart", "chmod", "patchStart", "patch",
        "splitStart", "split", "cleanup", "extractStart", "extract",
        "legacy", "sector", "done"}

N == Len(job.files)
current == job.files[file]

TypeOK ==
    /\ job \in Jobs
    /\ pc \in PCs
    /\ file \in 0..N
    /\ target \in {"medium", "temp"}
    /\ chunk \in Nat
    /\ hasEFIBootloader \in BOOLEAN
    /\ installer \in 0..N
    /\ lastAction \in {"Continue", "Skip", "Stop"}
    /\ isScheduledForStop \in BOOLEAN
    /\ reports \subseteq [file : 0..N, op : Operations, outcome : Outcomes]
    /\ lost \subseteq 1..N
    /\ leftover \in BOOLEAN
    /\ error \in BOOLEAN
    /\ result \in {"none", "YES", "NO"}
    /\ dest \in [1..N -> Contents]
    /\ slices \in [1..N -> Contents]
    /\ temp \in Contents
    /\ bootloader \in LoaderContents
    /\ sector \in Contents

Init ==
    /\ job \in Jobs
    /\ pc = "check"
    /\ file = 0
    /\ target = "medium"
    /\ chunk = 0
    /\ hasEFIBootloader = FALSE
    /\ installer = 0
    /\ lastAction = "Continue"
    /\ isScheduledForStop = FALSE
    /\ reports = {}
    /\ lost = {}
    /\ leftover = FALSE
    /\ error = FALSE
    /\ result = "none"
    /\ dest = [f \in 1..N |-> "none"]
    /\ slices = [f \in 1..N |-> "none"]
    /\ temp = "none"
    /\ bootloader = "none"
    /\ sector = "none"

-----------------------------------------------------------------------------
(***************************************************************************)
(* The progress callback: "Stop" once a stop is scheduled; a failure asks  *)
(* the user, who stops (which schedules the stop) or skips; everything     *)
(* else continues.                                                         *)
(***************************************************************************)
Answers(outcome) ==
    IF isScheduledForStop THEN {"Stop"}
    ELSE IF outcome = "Failure" THEN {"Stop", "Skip"}
    ELSE {"Continue"}

CallbackAbout(f, op, outcome) ==
    /\ lastAction' \in Answers(outcome)
    /\ isScheduledForStop' = (isScheduledForStop \/ lastAction' = "Stop")
    /\ reports' = IF outcome \in Outcomes
                    THEN reports \cup {[file |-> f, op |-> op, outcome |-> outcome]}
                    ELSE reports

Callback(op, outcome) == CallbackAbout(file, op, outcome)

(* Where the code goes after the callback: on, or elsewhere. *)
Then(next, otherwise) ==
    pc' = IF lastAction' = "Continue" THEN next ELSE otherwise

(* -startWriting goes on with a skip and returns NO with a stop. *)
SkipOrStop(action) ==
    /\ pc' = IF action = "Stop" THEN "done" ELSE "loop"
    /\ result' = IF action = "Stop" THEN "NO" ELSE result

(* Mutant: a skip leaves the loop (break instead of continue). *)
SkipLeavesLoop(next) ==
    /\ pc' = CASE lastAction' = "Continue" -> next
               [] lastAction' = "Skip" -> "legacy"
               [] lastAction' = "Stop" -> "done"
    /\ result' = IF lastAction' = "Stop" THEN "NO" ELSE result

(* Mutant: a stop only goes on with the next file. *)
StopIsSkip(next) ==
    /\ pc' = IF lastAction' = "Continue" THEN next ELSE "loop"
    /\ UNCHANGED result

(* Macro DWCallbackHandlerLoop of -startWriting. *)
LoopThen(next) ==
    IF lastAction' = "Continue"
      THEN pc' = next /\ UNCHANGED result
      ELSE SkipOrStop(lastAction')

MayFail(kind) == kind \in Faults

-----------------------------------------------------------------------------
(* -startWriting: the checks and the loop over the files. *)

CommonErrorChecker ==
    /\ pc = "check"
    /\ \/ pc' = "loop" /\ UNCHANGED <<error, result>>
       \/ /\ MayFail("check")
          /\ pc' = "done" /\ error' = TRUE /\ result' = "NO"
    /\ UNCHANGED <<locals, chunk, client, history, medium, temp>>

RequiresSplitting(f) == f.large /\ job.fat32

IsInstaller(f) == f.role \in {"wim", "esd"}

(* Where the code begins with a file. *)
EntryOf(f) ==
    IF f.role = "directory" THEN "mkdirStart"
    ELSE IF ~IsInstaller(f) \/ ~RequiresSplitting(f) THEN "copy"
    ELSE IF f.role = "esd" THEN "refuse"
    ELSE IF job.patch THEN "tempStart" ELSE "splitStart"

(* Mutant: the index of the image is off by one. *)
InstallerIsTheNext(f) == IF IsInstaller(f) THEN file + 2 ELSE installer

InstallerAfter(f) == IF IsInstaller(f) THEN file + 1 ELSE installer

NextFile ==
    /\ pc = "loop" /\ file < N
    /\ file' = file + 1
    /\ LET f == job.files[file + 1] IN
         /\ pc' = EntryOf(f)
         /\ target' = IF EntryOf(f) = "tempStart" THEN "temp" ELSE "medium"
         /\ hasEFIBootloader' = (hasEFIBootloader \/ f.role = "efi")
         /\ installer' = InstallerAfter(f)
    /\ UNCHANGED <<job, chunk, client, error, result, history, medium, temp>>

CreateDirectoryStart ==
    /\ pc = "mkdirStart"
    /\ Callback("CreateDirectory", "Start")
    /\ LoopThen("mkdir")
    /\ UNCHANGED <<locals, chunk, error, history, medium, temp>>

CreateDirectory ==
    /\ pc = "mkdir"
    /\ \/ /\ dest' = [dest EXCEPT ![file] = "whole"]
          /\ Callback("CreateDirectory", "Success")
       \/ /\ MayFail("mkdir")
          /\ Callback("CreateDirectory", "Failure")
          /\ UNCHANGED dest
    /\ LoopThen("loop")
    /\ UNCHANGED <<locals, chunk, error, history, slices, bootloader, sector, temp>>

-----------------------------------------------------------------------------
(* copyFileWithDWFile, called for the medium or for the temporary folder. *)

SetTarget(content) ==
    IF target = "medium"
      THEN dest' = [dest EXCEPT ![file] = content] /\ UNCHANGED temp
      ELSE temp' = content /\ UNCHANGED dest

ContentAfter(n) == IF n = current.chunks THEN "whole" ELSE "part"

(* Mutant: writeWindowsInstall returns without its cleanup. *)
ReturnWithoutCleanup == SkipOrStop(lastAction')

(* What the caller does when copyFile returns NO: the loop looks only for  *)
(* a stop, writeWindowsInstall goes to its cleanup.                        *)
CopyReturnsNO ==
    IF IsInstaller(current)
      THEN pc' = "cleanup" /\ UNCHANGED result
      ELSE SkipOrStop(lastAction')

(* Mutant: only the image in the temporary folder is patched. *)
PatchOnlyInTemp ==
    IF ~IsInstaller(current) THEN "loop"
    ELSE IF target = "temp" THEN "patchStart" ELSE "cleanup"

AfterCopy ==
    IF ~IsInstaller(current) THEN "loop"
    ELSE IF target = "temp" /\ job.elevated THEN "chmodStart"
    ELSE IF job.patch THEN "patchStart" ELSE "cleanup"

(* Mutant: the limit is never checked. *)
NoFAT32Limit == FALSE

OverFAT32Limit ==
    /\ ~IsInstaller(current)          \* ignoreFilesystemCheck otherwise
    /\ job.fat32 /\ current.large

(* Refused before the destination is opened, or (no buffer) right after it *)
(* was truncated.                                                          *)
CopyRefused ==
    /\ pc = "copy"
    /\ \/ OverFAT32Limit /\ UNCHANGED <<dest, temp>>
       \/ ~OverFAT32Limit /\ MayFail("open") /\ UNCHANGED <<dest, temp>>
       \/ ~OverFAT32Limit /\ MayFail("open") /\ SetTarget(ContentAfter(0))
    /\ Callback("WriteFile", "Failure")
    /\ CopyReturnsNO
    /\ UNCHANGED <<locals, chunk, error, history, slices, bootloader, sector>>

CopyStart ==
    /\ pc = "copy"
    /\ ~OverFAT32Limit
    /\ SetTarget(ContentAfter(0))
    /\ chunk' = 0
    /\ Callback("WriteFile", "Start")
    /\ IF lastAction' = "Continue"
         THEN pc' = "chunk" /\ UNCHANGED result
         ELSE CopyReturnsNO
    /\ UNCHANGED <<locals, error, history, slices, bootloader, sector>>

CopyChunk ==
    /\ pc = "chunk" /\ chunk < current.chunks
    /\ chunk' = chunk + 1
    /\ SetTarget("part")
    /\ Callback("WriteFile", "Process")
    /\ IF lastAction' = "Continue"
         THEN UNCHANGED <<pc, result>>
         ELSE CopyReturnsNO
    /\ UNCHANGED <<locals, error, history, slices, bootloader, sector>>

CopyShortWrite ==
    /\ pc = "chunk" /\ chunk < current.chunks
    /\ MayFail("write")
    /\ Callback("WriteFile", "Failure")
    /\ CopyReturnsNO
    /\ UNCHANGED <<locals, chunk, error, history, medium, temp>>

(* Mutants: the end is seen one chunk too early, or never. *)
EndOneChunkEarly == chunk + 1 >= current.chunks
EndIsNeverSeen == chunk > current.chunks

(* fread returned 0: the end of the file ... *)
NothingIsRead == chunk = current.chunks

(* ... or an error nobody asks about. *)
ReadFails == MayFail("read") /\ chunk < current.chunks

(* fwrite only fills a buffer; nobody asks what became of it at fclose. *)
TailIsLost == MayFail("close") /\ chunk > 0

CopyEnds ==
    /\ pc = "chunk"
    /\ \/ NothingIsRead /\ SetTarget(ContentAfter(chunk)) /\ UNCHANGED lost
       \/ /\ ReadFails \/ (NothingIsRead /\ TailIsLost)
          /\ SetTarget("part")
          /\ lost' = lost \cup {file}
    /\ Callback("WriteFile", "Success")
    /\ IF lastAction' = "Continue"
         THEN pc' = AfterCopy /\ UNCHANGED result
         ELSE CopyReturnsNO
    /\ UNCHANGED <<locals, chunk, error, leftover, slices, bootloader, sector>>

-----------------------------------------------------------------------------
(* writeWindowsInstallWithDWFile around the copy. *)

(* An .esd image over the FAT32 limit can not be split. *)
RefuseToSplit ==
    /\ pc = "refuse"
    /\ Callback("SplitWindowsImage", "Failure")
    /\ pc' = "cleanup"
    /\ UNCHANGED <<locals, chunk, error, result, history, medium, temp>>

(* The Start callbacks that only lead on or to the cleanup. *)
StartOf(op, from, to) ==
    /\ pc = from
    /\ Callback(op, "Start")
    /\ Then(to, "cleanup")
    /\ UNCHANGED <<locals, chunk, error, result, history, medium, temp>>

CreateTempDirectoryStart == StartOf("CreateDirectory", "tempStart", "temp")
SetPermissionsStart == StartOf("SetFilePermissions", "chmodStart", "chmod")
PatchStart == StartOf("PatchWindowsInstallerRequirements", "patchStart", "patch")
SplitStart == StartOf("SplitWindowsImage", "splitStart", "split")

CreateTempDirectory ==
    /\ pc = "temp"
    /\ \/ /\ temp' = "part" /\ leftover' = FALSE
          /\ Callback("CreateDirectory", "Success")
       \/ /\ MayFail("mkdir")
          /\ Callback("CreateDirectory", "Failure")
          /\ UNCHANGED <<temp, leftover>>
    /\ Then("copy", "cleanup")
    /\ UNCHANGED <<locals, chunk, error, result, lost, medium>>

SetPermissions ==
    /\ pc = "chmod"
    /\ \/ Callback("SetFilePermissions", "Success")
       \/ MayFail("chmod") /\ Callback("SetFilePermissions", "Failure")
    /\ Then("patchStart", "cleanup")
    /\ UNCHANGED <<locals, chunk, error, result, history, medium, temp>>

(* WimlibWrapper patches the temporary copy if there is one, else the copy *)
(* on the medium; "Skipped": no image in it had to be changed.             *)
PatchTarget == IF target = "temp" THEN temp ELSE dest[file]

(* If wimlib opens a copy that was cut, what it writes back is cut too.    *)
Patched == IF PatchTarget = "whole" THEN "patched" ELSE PatchTarget

Patch ==
    /\ pc = "patch"
    /\ \/ SetTarget(Patched)
          /\ Callback("PatchWindowsInstallerRequirements", "Success")
       \/ UNCHANGED <<dest, temp>>
          /\ Callback("PatchWindowsInstallerRequirements", "Skipped")
       \/ /\ MayFail("patch")
          /\ UNCHANGED <<dest, temp>> \/ SetTarget("part")
          /\ Callback("PatchWindowsInstallerRequirements", "Failure")
    /\ Then(IF RequiresSplitting(current) THEN "splitStart" ELSE "cleanup",
            "cleanup")
    /\ UNCHANGED <<locals, chunk, error, result, history, slices, bootloader, sector>>

(* The image that is split: the temporary copy, or the one in the source. *)
SplitSource == IF target = "temp" THEN temp ELSE "whole"

SplitProgress ==
    /\ pc = "split"
    /\ slices' = [slices EXCEPT ![file] = "part"]
    /\ Callback("SplitWindowsImage", "Process")
    /\ Then("split", "cleanup")
    /\ UNCHANGED <<locals, chunk, error, result, history, dest, bootloader, sector, temp>>

(* A source that wimlib could not open comes back as Skipped. *)
SplitEnds ==
    /\ pc = "split"
    /\ \/ /\ slices' = [slices EXCEPT ![file] = SplitSource]
          /\ Callback("SplitWindowsImage", "Success")
       \/ /\ MayFail("split")
          /\ Callback("SplitWindowsImage", "Failure")
          /\ UNCHANGED slices
       \/ /\ MayFail("split") /\ slices[file] = "none"
          /\ Callback("SplitWindowsImage", "Skipped")
          /\ UNCHANGED slices
    /\ pc' = "cleanup"
    /\ UNCHANGED <<locals, chunk, error, result, history, dest, bootloader, sector, temp>>

(* Mutant: -startWriting does not look for a stop after an image. *)
StopForgottenAfterImage == pc' = "loop" /\ UNCHANGED result

AfterCleanup == SkipOrStop(lastAction)

(* Label cleanup; then -startWriting looks for a stop. *)
Cleanup ==
    /\ pc = "cleanup"
    /\ \/ leftover /\ UNCHANGED <<temp, leftover>>     \* of an earlier image
       \/ ~leftover /\ temp' = "none" /\ UNCHANGED leftover
       \/ /\ MayFail("cleanup") /\ temp # "none"
          /\ leftover' = TRUE /\ UNCHANGED temp
    /\ AfterCleanup
    /\ UNCHANGED <<locals, chunk, client, error, lost, medium>>

-----------------------------------------------------------------------------
(* After the loop: the boot loader the source lacks, the legacy boot. *)

LoopEnds ==
    /\ pc = "loop" /\ file = N
    /\ pc' = IF installer # 0 /\ ~hasEFIBootloader THEN "extractStart"
                                                   ELSE "legacy"
    /\ UNCHANGED <<locals, chunk, client, error, result, history, medium, temp>>

AfterExtract(next) ==
    /\ pc' = CASE lastAction' = "Continue" -> next
               [] lastAction' = "Skip" -> "legacy"
               [] lastAction' = "Stop" -> "done"
    /\ result' = IF lastAction' = "Stop" THEN "NO" ELSE result

ExtractStart ==
    /\ pc = "extractStart"
    /\ CallbackAbout(installer, "ExtractWindowsBootloader", "Start")
    /\ AfterExtract("extract")
    /\ UNCHANGED <<locals, chunk, error, history, medium, temp>>

(* "rename": extractWindowsEFIBootloader returns NO, which is Success. *)
Extract ==
    /\ pc = "extract"
    /\ \E outcome \in Outcomes :
         /\ \/ outcome = "Success" /\ bootloader' = "whole"
            \/ outcome = "Success" /\ MayFail("rename") /\ bootloader' = "misnamed"
            \/ outcome = "Skipped" /\ UNCHANGED bootloader
            \/ /\ outcome = "Failure" /\ MayFail("extract")
               /\ bootloader' \in {"none", "part"}
         /\ CallbackAbout(installer, "ExtractWindowsBootloader", outcome)
    /\ AfterExtract("legacy")
    /\ UNCHANGED <<locals, chunk, error, history, dest, slices, sector, temp>>

LegacyBoot ==
    /\ pc = "legacy"
    /\ IF job.legacyBoot
         THEN /\ CallbackAbout(0, "InstallLegacyBootSector", "Start")
              /\ Then("sector", "done")
              /\ result' = IF lastAction' = "Stop" THEN "NO" ELSE result
         ELSE pc' = "done" /\ result' = "YES" /\ UNCHANGED client
    /\ UNCHANGED <<locals, chunk, error, history, medium, temp>>

(* The answer to this report is not looked at, and *error stays as it was. *)
WriteLegacyBootSector ==
    /\ pc = "sector"
    /\ pc' = "done"
    /\ \/ /\ sector' = "whole"
          /\ CallbackAbout(0, "InstallLegacyBootSector", "Success")
          /\ result' = "YES"
       \/ /\ MayFail("sector")
          /\ sector' \in {"none", "part"}
          /\ CallbackAbout(0, "InstallLegacyBootSector", "Failure")
          /\ result' = "NO"
    /\ UNCHANGED <<locals, chunk, error, history, dest, slices, bootloader, temp>>

-----------------------------------------------------------------------------
(* The main thread sets the flag at any time. *)
ScheduleStop ==
    /\ pc # "done"
    /\ ~isScheduledForStop
    /\ isScheduledForStop' = TRUE
    /\ UNCHANGED <<locals, chunk, pc, lastAction, reports, error, result,
                   history, medium, temp>>

CopyStep ==
    CopyRefused \/ CopyStart \/ CopyChunk \/ CopyShortWrite \/ CopyEnds

ImageStep ==
    \/ RefuseToSplit \/ CreateTempDirectoryStart \/ CreateTempDirectory
    \/ SetPermissionsStart \/ SetPermissions \/ PatchStart \/ Patch
    \/ SplitStart \/ SplitProgress \/ SplitEnds \/ Cleanup

LoopStep ==
    \/ CommonErrorChecker \/ NextFile
    \/ CreateDirectoryStart \/ CreateDirectory

FinalStep ==
    \/ LoopEnds \/ ExtractStart \/ Extract
    \/ LegacyBoot \/ WriteLegacyBootSector

WriterStep == LoopStep \/ CopyStep \/ ImageStep \/ FinalStep

Next == WriterStep \/ ScheduleStop

(* The thread runs on. *)
Fairness == WF_vars(WriterStep)

Spec == Init /\ [][Next]_vars
FairSpec == Spec /\ Fairness

-----------------------------------------------------------------------------
(* The abstract write: a file on the medium is its copy and its slices.    *)
Abstract == INSTANCE WriteInOrder WITH
    Contents  <- Contents \X Contents,
    Untouched <- <<"none", "none">>,
    total     <- N,
    current   <- file,
    medium    <- [f \in 1..N |-> <<dest[f], slices[f]>>],
    stopped   <- lastAction = "Stop",
    outcome   <- result

(* Safety. *)

Ended == pc = "done"

Troubles == {r \in reports : r.outcome # "Success"}

(* File f is on the medium in the form the options ask for. *)
IsWritten(f) ==
    LET asked == IF IsInstaller(job.files[f]) /\ job.patch
                   THEN "patched" ELSE "whole"
    IN  IF IsInstaller(job.files[f]) /\ RequiresSplitting(job.files[f])
          THEN slices[f] = asked
          ELSE dest[f] = asked

HasBootloader ==
    \/ bootloader \in {"whole", "misnamed"}
    \/ \E f \in 1..N : job.files[f].role = "efi"

(* A write that returns YES and reported no failure and nothing skipped    *)
(* has left a complete medium: every file, the image patched and split as  *)
(* asked, a boot loader whenever there is an image to take it from, and    *)
(* the legacy boot sector.  It goes through every goto and early return of *)
(* -startWriting and writeWindowsInstall.  Two things are missing without  *)
(* a report: a file lost data at fread or fclose (lost) -- exactly those   *)
(* files, whatever was made of them, are not what was asked for -- and the *)
(* extracted loader may still have its old name.                           *)
CleanRunIsComplete ==
    Ended /\ result = "YES" /\ Troubles = {} =>
        /\ \A f \in 1..N : IsWritten(f) <=> f \notin lost
        /\ installer # 0 => HasBootloader
        /\ job.legacyBoot => sector = "whole"

(* A write that returns YES has told the callback about every file: none   *)
(* was left out silently, whatever failed or was skipped before it.        *)
EveryFileIsAccountedFor ==
    Ended /\ result = "YES" =>
        \A f \in 1..N : \E r \in reports : r.file = f

(* Back in the loop over the files (or at the end) the temporary copy of   *)
(* an image is gone, whichever goto led to the label cleanup: only a       *)
(* folder whose removal failed is left.                                    *)
TempIsRemoved == pc \in {"loop", "done"} => temp = "none" \/ leftover

(* No file over the FAT32 limit is ever begun on a FAT32 medium: it is     *)
(* refused, or goes there as slices.                                       *)
NoLargeFileOnFAT32 ==
    \A f \in 1..N :
        job.fat32 /\ job.files[f].large /\ job.files[f].role # "directory"
            => dest[f] = "none"

(* "End of file reached": a file that was reported as copied is complete   *)
(* on the medium, and stays so, unless fread or fclose failed on it: no    *)
(* skip, stop, other file or other failure makes a report wrong.           *)
SuccessMeansWholeFile ==
    \A f \in 1..N :
        /\ ~IsInstaller(job.files[f])
        /\ [file |-> f, op |-> "WriteFile", outcome |-> "Success"] \in reports
        => dest[f] = "whole" \/ f \in lost

(* What a step may never do. *)

(* Once the callback has answered Stop nothing more is written to the      *)
(* medium: every caller up the chain passes the stop on.                   *)
StopStopsWriting == [][lastAction = "Stop" => UNCHANGED medium]_vars

(* The files are written in order, one at a time and none after a stop.    *)
ImplementsWriteInOrder == Abstract!Spec

(* Liveness. *)

(* Every write ends, whatever fails and whatever the user answers. *)
EveryWriteEnds == <>Ended

-----------------------------------------------------------------------------
(* What the program says of itself. *)

(* -writeAction announces "Image writing completed successfully." when no  *)
(* stop is scheduled and no error was handed back; the write did succeed.  *)
AnnouncedSuccessIsSuccess ==
    Ended /\ ~isScheduledForStop /\ ~error => result = "YES"
=============================================================================
