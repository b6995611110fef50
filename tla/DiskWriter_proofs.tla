-------------------------- MODULE DiskWriter_proofs --------------------------
(***************************************************************************)
(* What DiskWriter keeps for any source, any options and any faults.       *)
(***************************************************************************)
EXTENDS DiskWriter, TLAPS

(* The piece of TypeOK that the progress callback changes. *)
ClientOK ==
    /\ lastAction \in {"Continue", "Skip", "Stop"}
    /\ isScheduledForStop \in BOOLEAN
    /\ reports \subseteq [file : 0..N, op : Operations, outcome : Outcomes]

(* The piece of TypeOK that is about the medium and the temporary folder. *)
ContentOK ==
    /\ dest \in [1..N -> Contents]
    /\ slices \in [1..N -> Contents]
    /\ temp \in Contents
    /\ bootloader \in LoaderContents
    /\ sector \in Contents

(* What went wrong unnoticed. *)
HistoryOK == lost \subseteq 1..N /\ leftover \in BOOLEAN

(* And what is left of it. *)
LocalsOK ==
    /\ job \in Jobs
    /\ pc \in PCs
    /\ file \in 0..N
    /\ target \in {"medium", "temp"}
    /\ chunk \in Nat
    /\ hasEFIBootloader \in BOOLEAN
    /\ installer \in 0..N
    /\ error \in BOOLEAN
    /\ result \in {"none", "YES", "NO"}

LEMMA TypeParts == TypeOK <=> LocalsOK /\ ClientOK /\ ContentOK /\ HistoryOK
BY Zenon DEF TypeOK, LocalsOK, ClientOK, ContentOK, HistoryOK

LEMMA TypePartsPrime == TypeOK' <=> (LocalsOK /\ ClientOK /\ ContentOK /\ HistoryOK)'
BY Zenon DEF TypeOK, LocalsOK, ClientOK, ContentOK, HistoryOK

(* At these places -startWriting is at work on a file of the source. *)
FilePCs == {"mkdirStart", "mkdir", "copy", "chunk", "refuse", "tempStart", "temp",
            "chmodStart", "chmod", "patchStart", "patch", "splitStart", "split", "cleanup"}

FileInHand == pc \in FilePCs => file \in 1..N

FinalPCs == {"extractStart", "extract", "legacy", "sector"}

-----------------------------------------------------------------------------
LEMMA SourceType ==
    ASSUME TypeOK
    PROVE  /\ N \in Nat
           /\ \A f \in 1..N : job.files[f] \in FileInfo
           /\ job.fat32 \in BOOLEAN /\ job.patch \in BOOLEAN
<1>1. job \in Job
  BY JobsAssumption DEF TypeOK
<1>2. job.files \in Seq(FileInfo)
  BY <1>1 DEF Job
<1> QED
  BY <1>1, <1>2 DEF Job, N

LEMMA CallbackType ==
    ASSUME TypeOK, job' = job, NEW f \in 0..N, NEW op \in Operations, NEW outcome,
           CallbackAbout(f, op, outcome)
    PROVE  ClientOK'
<1>1. N' = N
  BY DEF N
<1>2. lastAction' \in {"Continue", "Skip", "Stop"}
  BY DEF CallbackAbout, Answers
<1>3. isScheduledForStop' \in BOOLEAN
  BY DEF CallbackAbout, TypeOK
<1>4. reports' \subseteq [file : 0..N, op : Operations, outcome : Outcomes]
  <2>1. CASE outcome \in Outcomes
    BY <2>1 DEF CallbackAbout, TypeOK
  <2>2. CASE outcome \notin Outcomes
    BY <2>2 DEF CallbackAbout, TypeOK
  <2> QED
    BY <2>1, <2>2
<1> QED
  BY <1>1, <1>2, <1>3, <1>4 DEF ClientOK

LEMMA InitType == Init => TypeOK /\ FileInHand
<1> SUFFICES ASSUME Init PROVE TypeOK /\ FileInHand
  OBVIOUS
<1>1. N \in Nat
  <2>1. job.files \in Seq(FileInfo)
    BY JobsAssumption DEF Init, Job
  <2> QED
    BY <2>1 DEF N
<1>2. ContentOK /\ HistoryOK
  BY DEF Init, Contents, LoaderContents, ContentOK, HistoryOK
<1>3. ClientOK
  BY DEF Init, ClientOK
<1>4. LocalsOK
  <2>1. file \in 0..N /\ installer \in 0..N /\ chunk \in Nat
    BY <1>1 DEF Init
  <2>2. pc \in PCs
    BY DEF Init, PCs
  <2> QED
    BY <2>1, <2>2 DEF Init, LocalsOK
<1> QED
  BY <1>2, <1>3, <1>4, TypeParts DEF Init, FileInHand, FilePCs

(* Only a copy loses data, and only of the file in hand. *)
LEMMA LostChanges ==
    ASSUME [Next]_vars
    PROVE  UNCHANGED lost \/ (CopyEnds /\ lost' = lost \cup {file})
BY DEF Next, WriterStep, LoopStep, CommonErrorChecker, NextFile, CreateDirectoryStart,
       CreateDirectory, CopyStep, CopyRefused, CopyStart, CopyChunk, CopyShortWrite, CopyEnds,
       ImageStep, RefuseToSplit, CreateTempDirectoryStart, CreateTempDirectory,
       SetPermissionsStart, SetPermissions, PatchStart, Patch, SplitStart, SplitProgress,
       SplitEnds, Cleanup, StartOf, FinalStep, LoopEnds, ExtractStart, Extract, LegacyBoot,
       WriteLegacyBootSector, ScheduleStop, vars, history

LEMMA LeftoverChanges ==
    ASSUME [Next]_vars
    PROVE  UNCHANGED leftover \/ ((CreateTempDirectory \/ Cleanup) /\ leftover' \in BOOLEAN)
BY DEF Next, WriterStep, LoopStep, CommonErrorChecker, NextFile, CreateDirectoryStart,
       CreateDirectory, CopyStep, CopyRefused, CopyStart, CopyChunk, CopyShortWrite, CopyEnds,
       ImageStep, RefuseToSplit, CreateTempDirectoryStart, CreateTempDirectory,
       SetPermissionsStart, SetPermissions, PatchStart, Patch, SplitStart, SplitProgress,
       SplitEnds, Cleanup, StartOf, FinalStep, LoopEnds, ExtractStart, Extract, LegacyBoot,
       WriteLegacyBootSector, ScheduleStop, vars, history

LEMMA JobNeverChanges == ASSUME [Next]_vars PROVE UNCHANGED job
BY DEF Next, WriterStep, LoopStep, CommonErrorChecker, NextFile, CreateDirectoryStart,
       CreateDirectory, CopyStep, CopyRefused, CopyStart, CopyChunk, CopyShortWrite, CopyEnds,
       ImageStep, RefuseToSplit, CreateTempDirectoryStart, CreateTempDirectory,
       SetPermissionsStart, SetPermissions, PatchStart, Patch, SplitStart, SplitProgress,
       SplitEnds, Cleanup, StartOf, FinalStep, LoopEnds, ExtractStart, Extract, LegacyBoot,
       WriteLegacyBootSector, ScheduleStop, vars, locals

LEMMA HistoryType == ASSUME TypeOK, FileInHand, [Next]_vars PROVE HistoryOK'
<1>1. N' = N /\ HistoryOK
  BY JobNeverChanges, TypeParts DEF N
<1>2. CopyEnds => file \in 1..N
  BY DEF CopyEnds, FileInHand, FilePCs
<1>3. lost' \subseteq 1..N
  BY <1>1, <1>2, LostChanges DEF HistoryOK
<1>4. leftover' \in BOOLEAN
  BY <1>1, LeftoverChanges DEF HistoryOK
<1> QED
  BY <1>1, <1>3, <1>4 DEF HistoryOK

-----------------------------------------------------------------------------
(* Steps of the loop over the files. *)
LEMMA LoopType ==
    ASSUME TypeOK, FileInHand, LoopStep PROVE TypeOK' /\ FileInHand'
<1>0. N \in Nat /\ LocalsOK /\ ClientOK /\ ContentOK
  BY SourceType, TypeParts
<1>h. HistoryOK'
  BY HistoryType DEF Next, WriterStep
<1>s. SUFFICES (LocalsOK /\ FileInHand /\ ClientOK /\ ContentOK)'
  BY <1>h, TypePartsPrime
<1> USE <1>0 DEF LocalsOK, FileInHand, FilePCs, PCs, locals, client, medium, N
<1>1. CASE CommonErrorChecker
  <2>1. (ClientOK /\ ContentOK)'
    BY <1>1 DEF CommonErrorChecker, ClientOK, ContentOK
  <2> QED
    BY <1>1, <2>1 DEF CommonErrorChecker
<1>2. CASE NextFile
  <2>1. (ClientOK /\ ContentOK)'
    BY <1>2 DEF NextFile, ClientOK, ContentOK
  <2>2. hasEFIBootloader' \in BOOLEAN
    BY <1>2 DEF NextFile
  <2>3. file' \in 1..N
    BY <1>2 DEF NextFile
  <2>4. installer' \in 0..N
    BY <1>2 DEF NextFile, InstallerAfter
  <2>5. pc' \in PCs
    <3>1. \A g \in FileInfo : EntryOf(g) \in PCs
      BY DEF EntryOf, IsInstaller, FileInfo, Roles
    <3>2. job.files[file + 1] \in FileInfo
      BY <1>2, SourceType DEF NextFile
    <3> QED
      BY <1>2, <3>1, <3>2 DEF NextFile
  <2> QED
    BY <1>2, <2>1, <2>2, <2>3, <2>4, <2>5 DEF NextFile
<1>3. CASE CreateDirectoryStart
  <2>1. ClientOK'
    BY <1>3, CallbackType DEF CreateDirectoryStart, Callback, Operations
  <2>2. ContentOK'
    BY <1>3 DEF CreateDirectoryStart, ContentOK
  <2> QED
    BY <1>3, <2>1, <2>2 DEF CreateDirectoryStart, LoopThen, SkipOrStop
<1>4. CASE CreateDirectory
  <2>1. ClientOK'
    BY <1>4, CallbackType DEF CreateDirectory, Callback, Operations
  <2>2. ContentOK'
    BY <1>4 DEF CreateDirectory, ContentOK, Contents
  <2> QED
    BY <1>4, <2>1, <2>2 DEF CreateDirectory, LoopThen, SkipOrStop
<1> QED
  BY <1>1, <1>2, <1>3, <1>4 DEF LoopStep

-----------------------------------------------------------------------------
(* Steps of copyFile. *)
LEMMA CopyLocals ==
    ASSUME LocalsOK, FileInHand, pc \in {"copy", "chunk"},
           CopyReturnsNO \/ (pc' \in PCs /\ UNCHANGED result),
           UNCHANGED <<locals, error>>, chunk' \in Nat
    PROVE  LocalsOK' /\ FileInHand'
BY DEF LocalsOK, FileInHand, FilePCs, CopyReturnsNO, SkipOrStop, PCs, locals, N

LEMMA SetTargetType ==
    ASSUME ContentOK, NEW c \in Contents, SetTarget(c), job' = job,
           UNCHANGED <<slices, bootloader, sector>>
    PROVE  ContentOK'
BY DEF ContentOK, SetTarget, N

LEMMA CopyType ==
    ASSUME TypeOK, FileInHand, CopyStep PROVE TypeOK' /\ FileInHand'
<1>0. N \in Nat /\ LocalsOK /\ ClientOK /\ ContentOK
  BY SourceType, TypeParts
<1>h. HistoryOK'
  BY HistoryType DEF Next, WriterStep
<1>s. SUFFICES (LocalsOK /\ FileInHand /\ ClientOK /\ ContentOK)'
  BY <1>h, TypePartsPrime
<1>c. "part" \in Contents /\ \A n : ContentAfter(n) \in Contents
  BY DEF ContentAfter, Contents
<1>f. file \in 0..N
  BY <1>0 DEF LocalsOK
<1> USE <1>0
<1>1. CASE CopyRefused
  <2>1. ClientOK'
    BY <1>1, <1>f, CallbackType DEF CopyRefused, Callback, Operations, locals
  <2>2. ContentOK'
    <3>1. CASE SetTarget(ContentAfter(0))
      BY <1>1, <3>1, <1>c, SetTargetType DEF CopyRefused, locals
    <3>2. CASE UNCHANGED <<dest, temp>>
      BY <1>1, <3>2 DEF CopyRefused, ContentOK, locals, N
    <3> QED
      BY <1>1, <3>1, <3>2 DEF CopyRefused
  <2>3. (LocalsOK /\ FileInHand)'
    BY <1>1, CopyLocals DEF CopyRefused, LocalsOK
  <2> QED
    BY <2>1, <2>2, <2>3
<1>2. CASE CopyStart
  <2>1. ClientOK'
    BY <1>2, <1>f, CallbackType DEF CopyStart, Callback, Operations, locals
  <2>2. ContentOK'
    BY <1>2, <1>c, SetTargetType DEF CopyStart, locals
  <2>3. (LocalsOK /\ FileInHand)'
    BY <1>2, CopyLocals DEF CopyStart, PCs
  <2> QED
    BY <2>1, <2>2, <2>3
<1>3. CASE CopyChunk
  <2>1. ClientOK'
    BY <1>3, <1>f, CallbackType DEF CopyChunk, Callback, Operations, locals
  <2>2. ContentOK'
    BY <1>3, <1>c, SetTargetType DEF CopyChunk, locals
  <2>3. chunk' \in Nat
    BY <1>3 DEF CopyChunk, LocalsOK
  <2>4. (LocalsOK /\ FileInHand)'
    BY <1>3, <2>3, CopyLocals DEF CopyChunk, PCs
  <2> QED
    BY <2>1, <2>2, <2>4
<1>4. CASE CopyShortWrite
  <2>1. ClientOK'
    BY <1>4, <1>f, CallbackType DEF CopyShortWrite, Callback, Operations, locals
  <2>2. ContentOK'
    BY <1>4 DEF CopyShortWrite, ContentOK, medium, locals, N
  <2>3. (LocalsOK /\ FileInHand)'
    BY <1>4, CopyLocals DEF CopyShortWrite, LocalsOK
  <2> QED
    BY <2>1, <2>2, <2>3
<1>5. CASE CopyEnds
  <2>1. ClientOK'
    BY <1>5, <1>f, CallbackType DEF CopyEnds, Callback, Operations, locals
  <2>2. ContentOK'
    BY <1>5, <1>c, SetTargetType DEF CopyEnds, locals
  <2>3. (LocalsOK /\ FileInHand)'
    BY <1>5, CopyLocals DEF CopyEnds, LocalsOK, AfterCopy, PCs
  <2> QED
    BY <2>1, <2>2, <2>3
<1> QED
  BY <1>1, <1>2, <1>3, <1>4, <1>5 DEF CopyStep

-----------------------------------------------------------------------------
(* Steps of writeWindowsInstall around the copy. *)
LEMMA ImageLocals ==
    ASSUME LocalsOK, FileInHand, pc \in FilePCs,
           pc' \in {"refuse", "temp", "copy", "chmod", "patchStart", "patch",
                    "splitStart", "split", "cleanup"},
           UNCHANGED <<locals, chunk, error, result>>
    PROVE  LocalsOK' /\ FileInHand'
BY DEF LocalsOK, FileInHand, FilePCs, PCs, locals, N

LEMMA StartOfType ==
    ASSUME TypeOK, FileInHand, NEW op \in Operations, NEW from \in FilePCs,
           NEW to \in {"temp", "chmod", "patch", "split"}, StartOf(op, from, to)
    PROVE  (LocalsOK /\ FileInHand /\ ClientOK /\ ContentOK)'
<1>0. N \in Nat /\ LocalsOK /\ ClientOK /\ ContentOK
  BY SourceType, TypeParts
<1>1. ClientOK'
  BY <1>0, CallbackType DEF StartOf, Callback, locals, LocalsOK
<1>2. ContentOK'
  BY <1>0 DEF StartOf, ContentOK, medium, locals, N
<1>3. (LocalsOK /\ FileInHand)'
  BY <1>0, ImageLocals DEF StartOf, Then
<1> QED
  BY <1>1, <1>2, <1>3

LEMMA ImageType ==
    ASSUME TypeOK, FileInHand, ImageStep PROVE TypeOK' /\ FileInHand'
<1>0. N \in Nat /\ LocalsOK /\ ClientOK /\ ContentOK
  BY SourceType, TypeParts
<1>h. HistoryOK'
  BY HistoryType DEF Next, WriterStep
<1>s. SUFFICES (LocalsOK /\ FileInHand /\ ClientOK /\ ContentOK)'
  BY <1>h, TypePartsPrime
<1>f. file \in 0..N
  BY <1>0 DEF LocalsOK
<1> USE <1>0
<1>1. CASE RefuseToSplit
  <2>1. ClientOK'
    BY <1>1, <1>f, CallbackType DEF RefuseToSplit, Callback, Operations, locals
  <2>2. ContentOK'
    BY <1>1 DEF RefuseToSplit, ContentOK, medium, locals, N
  <2>3. (LocalsOK /\ FileInHand)'
    BY <1>1, ImageLocals DEF RefuseToSplit, FilePCs
  <2> QED
    BY <2>1, <2>2, <2>3
<1>2. CASE CreateTempDirectoryStart \/ SetPermissionsStart \/ PatchStart \/ SplitStart
  BY <1>2, StartOfType DEF CreateTempDirectoryStart, SetPermissionsStart, PatchStart,
                           SplitStart, Operations, FilePCs
<1>3. CASE CreateTempDirectory
  <2>1. ClientOK'
    BY <1>3, <1>f, CallbackType DEF CreateTempDirectory, Callback, Operations, locals
  <2>2. ContentOK'
    BY <1>3 DEF CreateTempDirectory, ContentOK, medium, locals, N, Contents
  <2>3. (LocalsOK /\ FileInHand)'
    BY <1>3, ImageLocals DEF CreateTempDirectory, FilePCs, Then
  <2> QED
    BY <2>1, <2>2, <2>3
<1>4. CASE SetPermissions
  <2>1. ClientOK'
    BY <1>4, <1>f, CallbackType DEF SetPermissions, Callback, Operations, locals
  <2>2. ContentOK'
    BY <1>4 DEF SetPermissions, ContentOK, medium, locals, N
  <2>3. (LocalsOK /\ FileInHand)'
    BY <1>4, ImageLocals DEF SetPermissions, FilePCs, Then
  <2> QED
    BY <2>1, <2>2, <2>3
<1>5. CASE Patch
  <2>1. ClientOK'
    BY <1>5, <1>f, CallbackType DEF Patch, Callback, Operations, locals
  <2>2. Patched \in Contents /\ "part" \in Contents
    <3>1. file \in 1..N
      BY <1>5 DEF Patch, FileInHand, FilePCs
    <3> QED
      BY <3>1 DEF Patched, PatchTarget, ContentOK, Contents
  <2>3. ContentOK'
    <3>1. CASE UNCHANGED <<dest, temp>>
      BY <1>5, <3>1 DEF Patch, ContentOK, locals, N
    <3>2. ASSUME NEW c \in {"part", Patched}, SetTarget(c) PROVE ContentOK'
      BY <1>5, <2>2, <3>2, SetTargetType DEF Patch, locals
    <3> QED
      BY <1>5, <3>1, <3>2 DEF Patch
  <2>4. (LocalsOK /\ FileInHand)'
    BY <1>5, ImageLocals DEF Patch, FilePCs, Then
  <2> QED
    BY <2>1, <2>3, <2>4
<1>6. CASE SplitProgress
  <2>1. ClientOK'
    BY <1>6, <1>f, CallbackType DEF SplitProgress, Callback, Operations, locals
  <2>2. ContentOK'
    BY <1>6 DEF SplitProgress, ContentOK, locals, N, Contents
  <2>3. (LocalsOK /\ FileInHand)'
    BY <1>6, ImageLocals DEF SplitProgress, FilePCs, Then
  <2> QED
    BY <2>1, <2>2, <2>3
<1>7. CASE SplitEnds
  <2>1. ClientOK'
    BY <1>7, <1>f, CallbackType DEF SplitEnds, Callback, Operations, locals
  <2>2. SplitSource \in Contents
    BY DEF SplitSource, ContentOK, Contents
  <2>3. ContentOK'
    BY <1>7, <2>2 DEF SplitEnds, ContentOK, locals, N
  <2>4. (LocalsOK /\ FileInHand)'
    BY <1>7, ImageLocals DEF SplitEnds, FilePCs
  <2> QED
    BY <2>1, <2>3, <2>4
<1>8. CASE Cleanup
  <2>1. ClientOK'
    BY <1>8 DEF Cleanup, ClientOK, client, locals, N
  <2>2. ContentOK'
    BY <1>8 DEF Cleanup, ContentOK, medium, locals, N, Contents
  <2>3. (LocalsOK /\ FileInHand)'
    BY <1>8 DEF Cleanup, AfterCleanup, SkipOrStop, LocalsOK, FileInHand, FilePCs, PCs, locals, N
  <2> QED
    BY <2>1, <2>2, <2>3
<1> QED
  BY <1>1, <1>2, <1>3, <1>4, <1>5, <1>6, <1>7, <1>8 DEF ImageStep

-----------------------------------------------------------------------------
(* Steps after the loop. *)
LEMMA FinalLocals ==
    ASSUME LocalsOK, pc' \in {"extractStart", "extract", "legacy", "sector", "done"},
           result' \in {"none", "YES", "NO"}, UNCHANGED <<locals, chunk, error>>
    PROVE  LocalsOK' /\ FileInHand'
BY DEF LocalsOK, FileInHand, FilePCs, PCs, locals, N

LEMMA FinalType ==
    ASSUME TypeOK, FileInHand, FinalStep PROVE TypeOK' /\ FileInHand'
<1>0. N \in Nat /\ LocalsOK /\ ClientOK /\ ContentOK
  BY SourceType, TypeParts
<1>h. HistoryOK'
  BY HistoryType DEF Next, WriterStep
<1>s. SUFFICES (LocalsOK /\ FileInHand /\ ClientOK /\ ContentOK)'
  BY <1>h, TypePartsPrime
<1>f. installer \in 0..N /\ 0 \in 0..N /\ result \in {"none", "YES", "NO"}
  BY <1>0 DEF LocalsOK
<1> USE <1>0
<1>1. CASE LoopEnds
  <2>1. ClientOK' /\ ContentOK'
    BY <1>1 DEF LoopEnds, ClientOK, ContentOK, client, medium, locals, N
  <2> QED
    BY <1>1, <1>f, <2>1, FinalLocals DEF LoopEnds
<1>2. CASE ExtractStart
  <2>1. ClientOK'
    BY <1>2, <1>f, CallbackType DEF ExtractStart, Operations, locals
  <2>2. ContentOK'
    BY <1>2 DEF ExtractStart, ContentOK, medium, locals, N
  <2>3. pc' \in {"extract", "legacy", "done"} /\ result' \in {"none", "YES", "NO"}
    BY <1>2, <1>f, <2>1 DEF ExtractStart, AfterExtract, ClientOK
  <2> QED
    BY <1>2, <2>1, <2>2, <2>3, FinalLocals DEF ExtractStart
<1>3. CASE Extract
  <2>1. ClientOK'
    BY <1>3, <1>f, CallbackType DEF Extract, Operations, locals
  <2>2. ContentOK'
    BY <1>3 DEF Extract, ContentOK, Contents, LoaderContents, locals, N
  <2>3. pc' \in {"legacy", "done"} /\ result' \in {"none", "YES", "NO"}
    BY <1>3, <1>f, <2>1 DEF Extract, AfterExtract, ClientOK
  <2> QED
    BY <1>3, <2>1, <2>2, <2>3, FinalLocals DEF Extract
<1>4. CASE LegacyBoot
  <2>1. ClientOK'
    <3>1. CASE job.legacyBoot
      BY <1>4, <1>f, <3>1, CallbackType DEF LegacyBoot, Operations, locals
    <3>2. CASE ~job.legacyBoot
      BY <1>4, <3>2 DEF LegacyBoot, ClientOK, client, locals, N
    <3> QED
      BY <3>1, <3>2
  <2>2. ContentOK'
    BY <1>4 DEF LegacyBoot, ContentOK, medium, locals, N
  <2>3. pc' \in {"sector", "done"} /\ result' \in {"none", "YES", "NO"}
    BY <1>4, <1>f DEF LegacyBoot, Then
  <2> QED
    BY <1>4, <2>1, <2>2, <2>3, FinalLocals DEF LegacyBoot
<1>5. CASE WriteLegacyBootSector
  <2>1. ClientOK'
    BY <1>5, <1>f, CallbackType DEF WriteLegacyBootSector, Operations, locals
  <2>2. ContentOK'
    BY <1>5 DEF WriteLegacyBootSector, ContentOK, Contents, locals, N
  <2> QED
    BY <1>5, <2>1, <2>2, FinalLocals DEF WriteLegacyBootSector
<1> QED
  BY <1>1, <1>2, <1>3, <1>4, <1>5 DEF FinalStep

LEMMA NextType ==
    ASSUME TypeOK, FileInHand, [Next]_vars PROVE TypeOK' /\ FileInHand'
<1>1. CASE ScheduleStop
  BY <1>1 DEF ScheduleStop, TypeOK, FileInHand, locals, history, medium, N, current
<1>2. CASE UNCHANGED vars
  BY <1>2 DEF vars, TypeOK, FileInHand, locals, client, history, medium, N
<1> QED
  BY <1>1, <1>2, LoopType, CopyType, ImageType, FinalType DEF Next, WriterStep

(* Every variable has its type, for any source and options. *)
THEOREM TypeCorrect == Spec => []TypeOK
<1>1. TypeOK /\ FileInHand /\ [Next]_vars => TypeOK' /\ FileInHand'
  BY NextType
<1> QED
  BY InitType, <1>1, PTL DEF Spec
-----------------------------------------------------------------------------
(* After an answer Stop every caller up the chain leads to the end: the    *)
(* writer is in the cleanup of an image, or has returned.                  *)
StopLeadsOut == lastAction = "Stop" => pc \in {"cleanup", "done"}

LEMMA StopInit == Init => StopLeadsOut
BY DEF Init, StopLeadsOut

(* Where copyFile is left with an answer other than Continue. *)
LEMMA CopyReturnsOut ==
    ASSUME CopyReturnsNO, lastAction' \in {"Continue", "Skip", "Stop"}
    PROVE  StopLeadsOut'
BY DEF CopyReturnsNO, SkipOrStop, StopLeadsOut

LEMMA StopNext == TypeOK /\ TypeOK' /\ StopLeadsOut /\ [Next]_vars => StopLeadsOut'
<1> SUFFICES ASSUME TypeOK, TypeOK', StopLeadsOut, [Next]_vars PROVE StopLeadsOut'
  OBVIOUS
<1>0. lastAction' \in {"Continue", "Skip", "Stop"}
  BY DEF TypeOK
<1> USE <1>0
<1>1. CASE LoopStep
  BY <1>1 DEF LoopStep, CommonErrorChecker, NextFile, CreateDirectoryStart,
              CreateDirectory, LoopThen, SkipOrStop, StopLeadsOut, client
<1>2. CASE CopyStep
  BY <1>2, CopyReturnsOut DEF CopyStep, CopyRefused, CopyStart, CopyChunk,
              CopyShortWrite, CopyEnds, StopLeadsOut
<1>3. CASE ImageStep
  <2>1. CASE RefuseToSplit \/ SplitEnds
    BY <2>1 DEF RefuseToSplit, SplitEnds, StopLeadsOut
  <2>2. CASE Cleanup
    BY <2>2 DEF Cleanup, AfterCleanup, SkipOrStop, StopLeadsOut, client
  <2>3. CASE CreateTempDirectoryStart \/ SetPermissionsStart \/ PatchStart \/ SplitStart
    BY <2>3 DEF CreateTempDirectoryStart, SetPermissionsStart, PatchStart, SplitStart,
                StartOf, Then, StopLeadsOut
  <2>4. CASE CreateTempDirectory \/ SetPermissions \/ Patch \/ SplitProgress
    BY <2>4 DEF CreateTempDirectory, SetPermissions, Patch, SplitProgress, Then, StopLeadsOut
  <2> QED
    BY <1>3, <2>1, <2>2, <2>3, <2>4 DEF ImageStep
<1>4. CASE FinalStep
  <2>1. CASE LoopEnds
    BY <2>1 DEF LoopEnds, StopLeadsOut, client
  <2>2. CASE ExtractStart \/ Extract
    BY <2>2 DEF ExtractStart, Extract, AfterExtract, StopLeadsOut
  <2>3. CASE LegacyBoot
    BY <2>3 DEF LegacyBoot, Then, StopLeadsOut, client
  <2>4. CASE WriteLegacyBootSector
    BY <2>4 DEF WriteLegacyBootSector, StopLeadsOut
  <2> QED
    BY <1>4, <2>1, <2>2, <2>3, <2>4 DEF FinalStep
<1>5. CASE ScheduleStop
  BY <1>5 DEF ScheduleStop, StopLeadsOut
<1>6. CASE UNCHANGED vars
  BY <1>6 DEF vars, client, StopLeadsOut
<1> QED
  BY <1>1, <1>2, <1>3, <1>4, <1>5, <1>6 DEF Next, WriterStep

(* A step that begins in the cleanup, or at the end, leaves the medium alone. *)
LEMMA NothingIsWritten ==
    ASSUME pc \in {"cleanup", "done"}, [Next]_vars PROVE UNCHANGED medium
<1>1. CASE LoopStep
  BY <1>1 DEF LoopStep, CommonErrorChecker, NextFile, CreateDirectoryStart, CreateDirectory
<1>2. CASE CopyStep
  BY <1>2 DEF CopyStep, CopyRefused, CopyStart, CopyChunk, CopyShortWrite, CopyEnds
<1>3. CASE ImageStep
  BY <1>3 DEF ImageStep, RefuseToSplit, CreateTempDirectoryStart, CreateTempDirectory,
              SetPermissionsStart, SetPermissions, PatchStart, Patch, SplitStart,
              SplitProgress, SplitEnds, Cleanup, StartOf
<1>4. CASE FinalStep
  BY <1>4 DEF FinalStep, LoopEnds, ExtractStart, Extract, LegacyBoot, WriteLegacyBootSector
<1>5. CASE ScheduleStop \/ UNCHANGED vars
  BY <1>5 DEF ScheduleStop, vars
<1> QED
  BY <1>1, <1>2, <1>3, <1>4, <1>5 DEF Next, WriterStep

(* Once the callback has answered Stop nothing more is written to the      *)
(* medium, whatever the source and whatever fails.                         *)
THEOREM StopIsObeyed == Spec => StopStopsWriting
<1>1. Init => TypeOK /\ FileInHand /\ StopLeadsOut
  BY InitType, StopInit
<1>2. TypeOK /\ FileInHand /\ StopLeadsOut /\ [Next]_vars
        => (TypeOK /\ FileInHand /\ StopLeadsOut)'
  BY NextType, StopNext
<1>3. StopLeadsOut /\ [Next]_vars => [lastAction = "Stop" => UNCHANGED medium]_vars
  BY NothingIsWritten DEF StopLeadsOut
<1> QED
  BY <1>1, <1>2, <1>3, PTL DEF Spec, StopStopsWriting
-----------------------------------------------------------------------------
(* What the place in the code says of the file in hand, of the folder it   *)
(* goes to and of the temporary folder.                                    *)
ImagePCs == {"refuse", "tempStart", "temp", "chmodStart", "chmod", "patchStart", "patch",
             "splitStart", "split", "cleanup"}

WorkPCs == {"copy", "chunk", "chmodStart", "chmod", "patchStart", "patch"}

PlaceFits ==
    /\ pc \in {"mkdirStart", "mkdir"} => current.role = "directory"
    /\ pc \in ImagePCs => IsInstaller(current)
    /\ pc \in {"tempStart", "temp"} => target = "temp"
    /\ pc = "chunk" => ~OverFAT32Limit
    /\ pc \in WorkPCs /\ target = "temp" => IsInstaller(current)
    /\ pc \in WorkPCs /\ target # "temp" /\ IsInstaller(current)
         => ~RequiresSplitting(current)

LEMMA EntryFits ==
    ASSUME NEW f \in FileInfo
    PROVE  /\ EntryOf(f) \in {"mkdirStart", "copy", "refuse", "tempStart", "splitStart"}
           /\ EntryOf(f) = "mkdirStart" => f.role = "directory"
           /\ EntryOf(f) = "copy" => ~IsInstaller(f) \/ ~RequiresSplitting(f)
           /\ EntryOf(f) \in {"refuse", "tempStart", "splitStart"} => IsInstaller(f)
BY DEF EntryOf, IsInstaller, FileInfo, Roles

LEMMA PlaceInit == Init => PlaceFits
BY DEF Init, PlaceFits, ImagePCs, WorkPCs

LEMMA PlaceKept ==
    ASSUME PlaceFits, pc' \in {"check", "loop", "extractStart", "extract", "legacy",
                               "sector", "done"}
    PROVE  PlaceFits'
BY DEF PlaceFits, ImagePCs, WorkPCs

(* Going on with the image in hand, with the same copy of it. *)
LEMMA PlaceWithImage ==
    ASSUME PlaceFits, UNCHANGED locals, IsInstaller(current),
           pc' \in {"refuse", "splitStart", "split", "cleanup"}
    PROVE  PlaceFits'
BY DEF PlaceFits, ImagePCs, WorkPCs, locals, current, IsInstaller, OverFAT32Limit

LEMMA LoopPlace == ASSUME TypeOK, PlaceFits, LoopStep PROVE PlaceFits'
<1>1. CASE CommonErrorChecker
  BY <1>1, PlaceKept DEF CommonErrorChecker
<1>2. CASE NextFile
  <2> DEFINE f == job.files[file + 1]
  <2>1. f \in FileInfo
    <3>1. N \in Nat /\ file + 1 \in 1..N
      BY <1>2, SourceType DEF NextFile, TypeOK
    <3> QED
      BY <3>1, SourceType
  <2>2. current' = f /\ job' = job
    BY <1>2 DEF NextFile, current
  <2>3. pc' = EntryOf(f) /\ target' = IF EntryOf(f) = "tempStart" THEN "temp" ELSE "medium"
    BY <1>2 DEF NextFile
  <2>4. (IsInstaller(current)' <=> IsInstaller(f))
        /\ (RequiresSplitting(current)' <=> RequiresSplitting(f))
    BY <2>2 DEF IsInstaller, RequiresSplitting
  <2> HIDE DEF f
  <2> QED
    BY <2>1, <2>2, <2>3, <2>4, EntryFits DEF PlaceFits, ImagePCs, WorkPCs
<1>3. CASE CreateDirectoryStart
  <2>1. pc' \in {"mkdir", "loop", "done"} /\ current' = current
    BY <1>3 DEF CreateDirectoryStart, LoopThen, SkipOrStop, locals, current
  <2> QED
    BY <1>3, <2>1 DEF CreateDirectoryStart, PlaceFits, ImagePCs, WorkPCs
<1>4. CASE CreateDirectory
  BY <1>4, PlaceKept DEF CreateDirectory, LoopThen, SkipOrStop
<1> QED
  BY <1>1, <1>2, <1>3, <1>4 DEF LoopStep

LEMMA CopyReturnsPlace ==
    ASSUME PlaceFits, CopyReturnsNO, UNCHANGED locals PROVE PlaceFits'
<1>1. CASE IsInstaller(current)
  BY <1>1, PlaceWithImage DEF CopyReturnsNO
<1>2. CASE ~IsInstaller(current)
  BY <1>2, PlaceKept DEF CopyReturnsNO, SkipOrStop
<1> QED
  BY <1>1, <1>2

LEMMA CopyPlace == ASSUME TypeOK, PlaceFits, CopyStep PROVE PlaceFits'
<1>0. target \in {"medium", "temp"}
  BY DEF TypeOK
<1>1. CASE CopyRefused
  BY <1>1, CopyReturnsPlace DEF CopyRefused
<1>2. CASE CopyStart
  <2>1. CASE CopyReturnsNO
    BY <1>2, <2>1, CopyReturnsPlace DEF CopyStart
  <2>2. CASE pc' = "chunk"
    <3>1. (OverFAT32Limit)' = OverFAT32Limit /\ current' = current
      BY <1>2 DEF CopyStart, OverFAT32Limit, IsInstaller, locals, current
    <3> QED
      BY <1>2, <2>2, <3>1 DEF CopyStart, PlaceFits, ImagePCs, WorkPCs, locals,
                                   IsInstaller, RequiresSplitting
  <2> QED
    BY <1>2, <2>1, <2>2 DEF CopyStart
<1>3. CASE CopyChunk
  <2>1. CASE CopyReturnsNO
    BY <1>3, <2>1, CopyReturnsPlace DEF CopyChunk
  <2>2. CASE UNCHANGED pc
    <3>1. (OverFAT32Limit)' = OverFAT32Limit /\ current' = current
      BY <1>3 DEF CopyChunk, OverFAT32Limit, IsInstaller, locals, current
    <3> QED
      BY <1>3, <2>2, <3>1 DEF CopyChunk, PlaceFits, ImagePCs, WorkPCs, locals,
                                   IsInstaller, RequiresSplitting
  <2> QED
    BY <1>3, <2>1, <2>2 DEF CopyChunk
<1>4. CASE CopyShortWrite
  BY <1>4, CopyReturnsPlace DEF CopyShortWrite
<1>5. CASE CopyEnds
  <2>1. CASE CopyReturnsNO
    BY <1>5, <2>1, CopyReturnsPlace DEF CopyEnds
  <2>2. CASE pc' = AfterCopy
    <3>1. CASE ~IsInstaller(current)
      BY <2>2, <3>1, PlaceKept DEF AfterCopy
    <3>2. CASE IsInstaller(current)
      <4>1. pc' \in {"chmodStart", "patchStart", "cleanup"}
        BY <2>2, <3>2 DEF AfterCopy
      <4>2. UNCHANGED locals /\ current' = current
        BY <1>5 DEF CopyEnds, locals, current
      <4> QED
        BY <1>5, <3>2, <4>1, <4>2 DEF CopyEnds, PlaceFits, ImagePCs, WorkPCs, locals,
                                     IsInstaller, RequiresSplitting, OverFAT32Limit
    <3> QED
      BY <3>1, <3>2
  <2> QED
    BY <1>5, <2>1, <2>2 DEF CopyEnds
<1> QED
  BY <1>1, <1>2, <1>3, <1>4, <1>5 DEF CopyStep

LEMMA ImagePlace == ASSUME TypeOK, PlaceFits, ImageStep PROVE PlaceFits'
<1>1. CASE RefuseToSplit \/ PatchStart \/ SplitStart \/ Patch \/ SplitProgress \/ SplitEnds
  <2>1. IsInstaller(current) /\ UNCHANGED locals
    BY <1>1 DEF RefuseToSplit, PatchStart, SplitStart, Patch, SplitProgress, SplitEnds,
                StartOf, PlaceFits, ImagePCs
  <2>2. CASE pc' \in {"refuse", "splitStart", "split", "cleanup"}
    BY <2>1, <2>2, PlaceWithImage
  <2>3. CASE PatchStart /\ pc' = "patch"
    BY <2>1, <2>3 DEF PatchStart, StartOf, PlaceFits, ImagePCs, WorkPCs, locals, current,
                      IsInstaller, RequiresSplitting
  <2> QED
    BY <1>1, <2>2, <2>3 DEF RefuseToSplit, PatchStart, SplitStart, Patch, SplitProgress,
                            SplitEnds, StartOf, Then
<1>2. CASE CreateTempDirectoryStart \/ SetPermissionsStart \/ SetPermissions
  <2>1. pc' \in {"temp", "chmod", "patchStart", "cleanup"} /\ UNCHANGED locals
    BY <1>2 DEF CreateTempDirectoryStart, SetPermissionsStart, SetPermissions, StartOf, Then
  <2> QED
    BY <1>2, <2>1 DEF CreateTempDirectoryStart, SetPermissionsStart, SetPermissions, StartOf,
                      Then, PlaceFits, ImagePCs, WorkPCs, locals, current, IsInstaller,
                      RequiresSplitting
<1>3. CASE CreateTempDirectory
  <2>1. IsInstaller(current) /\ UNCHANGED locals /\ target = "temp"
    BY <1>3 DEF CreateTempDirectory, PlaceFits, ImagePCs
  <2>2. CASE pc' = "cleanup"
    BY <2>1, <2>2, PlaceWithImage
  <2>3. CASE pc' = "copy"
    BY <2>1, <2>3 DEF PlaceFits, ImagePCs, WorkPCs, locals, current, IsInstaller
  <2> QED
    BY <1>3, <2>2, <2>3 DEF CreateTempDirectory, Then
<1>4. CASE Cleanup
  BY <1>4, PlaceKept DEF Cleanup, AfterCleanup, SkipOrStop
<1> QED
  BY <1>1, <1>2, <1>3, <1>4 DEF ImageStep

LEMMA PlaceNext == TypeOK /\ PlaceFits /\ [Next]_vars => PlaceFits'
<1> SUFFICES ASSUME TypeOK, PlaceFits, [Next]_vars PROVE PlaceFits'
  OBVIOUS
<1>1. CASE FinalStep
  <2>1. pc' \in {"extractStart", "extract", "legacy", "sector", "done"}
    <3>1. CASE LoopEnds
      BY <3>1 DEF LoopEnds
    <3>2. CASE ExtractStart \/ Extract
      <4>1. lastAction' \in {"Continue", "Skip", "Stop"}
        BY <3>2 DEF ExtractStart, Extract, CallbackAbout, Answers
      <4> QED
        BY <3>2, <4>1 DEF ExtractStart, Extract, AfterExtract
    <3>3. CASE LegacyBoot \/ WriteLegacyBootSector
      BY <3>3 DEF LegacyBoot, WriteLegacyBootSector, Then
    <3> QED
      BY <1>1, <3>1, <3>2, <3>3 DEF FinalStep
  <2> QED
    BY <2>1, PlaceKept
<1>2. CASE ScheduleStop \/ UNCHANGED vars
  BY <1>2 DEF ScheduleStop, vars, locals, PlaceFits, current, IsInstaller, OverFAT32Limit,
              RequiresSplitting
<1> QED
  BY <1>1, <1>2, LoopPlace, CopyPlace, ImagePlace DEF Next, WriterStep
-----------------------------------------------------------------------------
(* What a step may do to the files on the medium: to the copies ... *)
FitsOnMedium(f) == f.role = "directory" \/ ~(job.fat32 /\ f.large)

LEMMA DestChanges ==
    ASSUME TypeOK, FileInHand, PlaceFits, [Next]_vars
    PROVE  \/ UNCHANGED dest
           \/ /\ file \in 1..N /\ FitsOnMedium(current)
              /\ \E c : dest' = [dest EXCEPT ![file] = c]
<1>1. CASE LoopStep
  BY <1>1 DEF LoopStep, CommonErrorChecker, NextFile, CreateDirectoryStart, CreateDirectory,
              medium, FileInHand, FilePCs, PlaceFits, FitsOnMedium
<1>2. CASE CopyStep
  <2>1. UNCHANGED dest \/ (~OverFAT32Limit /\ \E c : SetTarget(c))
    BY <1>2 DEF CopyStep, CopyRefused, CopyStart, CopyChunk, CopyShortWrite, CopyEnds,
                medium, PlaceFits
  <2>2. pc \in {"copy", "chunk"} /\ file \in 1..N
    BY <1>2 DEF CopyStep, CopyRefused, CopyStart, CopyChunk, CopyShortWrite, CopyEnds,
                FileInHand, FilePCs
  <2>3. CASE target = "medium"
    BY <2>1, <2>2, <2>3 DEF SetTarget, PlaceFits, WorkPCs, OverFAT32Limit,
                            RequiresSplitting, FitsOnMedium
  <2>4. CASE target # "medium"
    BY <2>1, <2>2, <2>4 DEF SetTarget
  <2> QED
    BY <2>3, <2>4
<1>3. CASE ImageStep
  <2>1. CASE Patch
    <3>1. UNCHANGED dest \/ (target = "medium" /\ \E c : dest' = [dest EXCEPT ![file] = c])
      BY <2>1 DEF Patch, SetTarget
    <3>2. pc = "patch" /\ file \in 1..N
      BY <2>1 DEF Patch, FileInHand, FilePCs
    <3>3. target = "medium" => FitsOnMedium(current)
      BY <3>2 DEF PlaceFits, WorkPCs, ImagePCs, RequiresSplitting, FitsOnMedium
    <3> QED
      BY <3>1, <3>2, <3>3
  <2>2. CASE ~Patch
    BY <1>3, <2>2 DEF ImageStep, RefuseToSplit, CreateTempDirectoryStart, CreateTempDirectory,
              SetPermissionsStart, SetPermissions, PatchStart, SplitStart,
              SplitProgress, SplitEnds, Cleanup, StartOf, medium
  <2> QED
    BY <2>1, <2>2
<1>4. CASE FinalStep
  BY <1>4 DEF FinalStep, LoopEnds, ExtractStart, Extract, LegacyBoot,
              WriteLegacyBootSector, medium
<1>5. CASE ScheduleStop \/ UNCHANGED vars
  BY <1>5 DEF ScheduleStop, vars, medium
<1> QED
  BY <1>1, <1>2, <1>3, <1>4, <1>5 DEF Next, WriterStep

(* ... and to the parts of a split image. *)
LEMMA SlicesChange ==
    ASSUME TypeOK, FileInHand, [Next]_vars
    PROVE  \/ UNCHANGED slices
           \/ file \in 1..N /\ \E c : slices' = [slices EXCEPT ![file] = c]
<1>1. CASE LoopStep
  BY <1>1 DEF LoopStep, CommonErrorChecker, NextFile, CreateDirectoryStart, CreateDirectory,
              medium
<1>2. CASE CopyStep
  BY <1>2 DEF CopyStep, CopyRefused, CopyStart, CopyChunk, CopyShortWrite, CopyEnds, medium
<1>3. CASE ImageStep
  <2>1. CASE SplitProgress \/ SplitEnds
    BY <2>1 DEF SplitProgress, SplitEnds, FileInHand, FilePCs
  <2>2. CASE ~SplitProgress /\ ~SplitEnds
    BY <1>3, <2>2 DEF ImageStep, RefuseToSplit, CreateTempDirectoryStart, CreateTempDirectory,
              SetPermissionsStart, SetPermissions, PatchStart, Patch, SplitStart,
              Cleanup, StartOf, medium
  <2> QED
    BY <2>1, <2>2
<1>4. CASE FinalStep
  BY <1>4 DEF FinalStep, LoopEnds, ExtractStart, Extract, LegacyBoot,
              WriteLegacyBootSector, medium
<1>5. CASE ScheduleStop \/ UNCHANGED vars
  BY <1>5 DEF ScheduleStop, vars, medium
<1> QED
  BY <1>1, <1>2, <1>3, <1>4, <1>5 DEF Next, WriterStep

(* No file over the FAT32 limit is ever begun on a FAT32 medium. *)
THEOREM LargeFilesStayOff == Spec => []NoLargeFileOnFAT32
<1> DEFINE IInv == TypeOK /\ FileInHand /\ PlaceFits /\ NoLargeFileOnFAT32
<1>1. Init => IInv
  <2>1. Init => NoLargeFileOnFAT32
    BY DEF Init, NoLargeFileOnFAT32
  <2> QED
    BY <2>1, InitType, PlaceInit
<1>2. IInv /\ [Next]_vars => IInv'
  <2> SUFFICES ASSUME IInv, [Next]_vars PROVE NoLargeFileOnFAT32'
    BY NextType, PlaceNext
  <2>1. job' = job /\ N' = N
    BY JobNeverChanges DEF N
  <2> SUFFICES ASSUME NEW f \in 1..N, job.fat32, job.files[f].large,
                      job.files[f].role # "directory"
               PROVE  dest'[f] = "none"
    BY <2>1 DEF NoLargeFileOnFAT32
  <2>2. dest[f] = "none" /\ dest \in [1..N -> Contents]
    BY DEF NoLargeFileOnFAT32, TypeOK
  <2>3. CASE UNCHANGED dest
    BY <2>2, <2>3
  <2>4. CASE FitsOnMedium(current) /\ \E c : dest' = [dest EXCEPT ![file] = c]
    <3>1. f # file
      BY <2>4 DEF FitsOnMedium, current
    <3> QED
      BY <2>2, <2>4, <3>1
  <2> QED
    BY <2>3, <2>4, DestChanges
<1>3. IInv => NoLargeFileOnFAT32
  OBVIOUS
<1> QED
  BY <1>1, <1>2, <1>3, PTL DEF Spec

-----------------------------------------------------------------------------
(* The temporary folder exists only while an image is in hand. *)
TempOfImage ==
    temp # "none" /\ ~leftover
        => pc \in ImagePCs \/ (pc \in {"copy", "chunk"} /\ IsInstaller(current))

LEMMA TempNext ==
    ASSUME TypeOK, PlaceFits, TempOfImage, [Next]_vars
    PROVE  TempOfImage'
<1>1. CASE LoopStep
  BY <1>1 DEF LoopStep, CommonErrorChecker, NextFile, CreateDirectoryStart, CreateDirectory,
              TempOfImage, ImagePCs, history
<1>2. CASE CopyStep
  <2>1. pc \in {"copy", "chunk"} /\ UNCHANGED <<locals, leftover>>
    BY <1>2 DEF CopyStep, CopyRefused, CopyStart, CopyChunk, CopyShortWrite, CopyEnds,
                history
  <2>2. (IsInstaller(current))' = IsInstaller(current)
    BY <2>1 DEF locals, current, IsInstaller
  <2>3. CASE IsInstaller(current)
    <3>1. pc' \in {"chunk", "cleanup", "chmodStart", "patchStart"}
      BY <1>2, <2>3 DEF CopyStep, CopyRefused, CopyStart, CopyChunk, CopyShortWrite, CopyEnds,
                        CopyReturnsNO, AfterCopy
    <3> QED
      BY <2>2, <2>3, <3>1 DEF TempOfImage, ImagePCs
  <2>4. CASE ~IsInstaller(current)
    <3>1. temp = "none" \/ leftover
      BY <2>1, <2>4 DEF TempOfImage, ImagePCs
    <3>2. target = "medium"
      BY <2>1, <2>4 DEF PlaceFits, WorkPCs, TypeOK
    <3>3. UNCHANGED temp
      BY <1>2, <3>2 DEF CopyStep, CopyRefused, CopyStart, CopyChunk, CopyShortWrite, CopyEnds,
                        SetTarget
    <3> QED
      BY <2>1, <3>1, <3>3 DEF TempOfImage
  <2> QED
    BY <2>3, <2>4
<1>3. CASE ImageStep
  <2>1. CASE Cleanup
    BY <2>1 DEF Cleanup, TempOfImage
  <2>2. CASE CreateTempDirectory
    BY <2>2 DEF CreateTempDirectory, Then, PlaceFits, TempOfImage, ImagePCs, locals, current,
                IsInstaller
  <2>3. CASE ~Cleanup /\ ~CreateTempDirectory
    BY <1>3, <2>3 DEF ImageStep, RefuseToSplit, CreateTempDirectoryStart, SetPermissionsStart,
              SetPermissions, PatchStart, Patch, SplitStart, SplitProgress, SplitEnds, StartOf,
              Then, TempOfImage, ImagePCs, history
  <2> QED
    BY <2>1, <2>2, <2>3
<1>4. CASE FinalStep
  BY <1>4 DEF FinalStep, LoopEnds, ExtractStart, Extract, LegacyBoot, WriteLegacyBootSector,
              TempOfImage, ImagePCs, history
<1>5. CASE ScheduleStop \/ UNCHANGED vars
  BY <1>5 DEF ScheduleStop, vars, locals, history, TempOfImage, current, IsInstaller
<1> QED
  BY <1>1, <1>2, <1>3, <1>4, <1>5 DEF Next, WriterStep

(* Once the loop goes on the temporary copy of an image is gone, or its    *)
(* removal was tried in vain: every goto of writeWindowsInstall leads past *)
(* the cleanup.                                                            *)
THEOREM TempIsGone == Spec => []TempIsRemoved
<1> DEFINE IInv == TypeOK /\ FileInHand /\ PlaceFits /\ TempOfImage
<1>1. Init => IInv
  <2>1. Init => TempOfImage
    BY DEF Init, TempOfImage
  <2> QED
    BY <2>1, InitType, PlaceInit
<1>2. IInv /\ [Next]_vars => IInv'
  BY NextType, PlaceNext, TempNext
<1>3. IInv => TempIsRemoved
  BY DEF TempOfImage, TempIsRemoved, ImagePCs
<1> QED
  BY <1>1, <1>2, <1>3, PTL DEF Spec
-----------------------------------------------------------------------------
(* DiskWriter implements WriteInOrder.                                     *)

(* Only a write that is over has a result, and the loop is over after it. *)
ResultOfEnd == pc # "done" => result = "none"
LoopIsOver == pc \in FinalPCs => file = N

LEMMA ResultStep ==
    ASSUME TypeOK, ResultOfEnd, LoopIsOver, [Next]_vars
    PROVE  /\ ResultOfEnd' /\ LoopIsOver'
           /\ \/ UNCHANGED result
              \/ pc # "done" /\ result' = "NO"
              \/ /\ pc \in {"legacy", "sector"} /\ result' = "YES"
                 /\ UNCHANGED <<file, dest, slices>>
<1>0. job' = job /\ N' = N
  BY JobNeverChanges DEF N
<1>1. CASE LoopStep
  <2>1. CASE CommonErrorChecker
    BY <2>1 DEF CommonErrorChecker, ResultOfEnd, LoopIsOver, FinalPCs
  <2>2. CASE NextFile
    <3>1. job.files[file + 1] \in FileInfo
      BY <2>2, SourceType DEF NextFile, TypeOK
    <3>2. pc' \in {"mkdirStart", "copy", "refuse", "tempStart", "splitStart"}
      BY <2>2, <3>1, EntryFits DEF NextFile
    <3> QED
      BY <2>2, <3>2 DEF NextFile, ResultOfEnd, LoopIsOver, FinalPCs
  <2>3. CASE CreateDirectoryStart \/ CreateDirectory
    BY <2>3 DEF CreateDirectoryStart, CreateDirectory, LoopThen, SkipOrStop, ResultOfEnd,
                LoopIsOver, FinalPCs
  <2> QED
    BY <1>1, <2>1, <2>2, <2>3 DEF LoopStep
<1>2. CASE CopyStep
  <2>1. pc \in {"copy", "chunk"}
    BY <1>2 DEF CopyStep, CopyRefused, CopyStart, CopyChunk, CopyShortWrite, CopyEnds
  <2>2. CopyReturnsNO \/ (pc' \in {"chunk", "loop", "chmodStart", "patchStart", "cleanup"}
                          /\ UNCHANGED result)
    BY <1>2 DEF CopyStep, CopyRefused, CopyStart, CopyChunk, CopyShortWrite, CopyEnds,
                AfterCopy
  <2> QED
    BY <2>1, <2>2 DEF CopyReturnsNO, SkipOrStop, ResultOfEnd, LoopIsOver, FinalPCs
<1>3. CASE ImageStep
  <2>1. CASE Cleanup
    BY <2>1 DEF Cleanup, AfterCleanup, SkipOrStop, ResultOfEnd, LoopIsOver, FinalPCs
  <2>2. CASE ~Cleanup
    <3>1. pc \in ImagePCs \ {"cleanup"} /\ UNCHANGED result
      BY <1>3, <2>2 DEF ImageStep, RefuseToSplit, CreateTempDirectoryStart,
           CreateTempDirectory, SetPermissionsStart, SetPermissions, PatchStart, Patch,
           SplitStart, SplitProgress, SplitEnds, StartOf, ImagePCs
    <3>2. pc' \in ImagePCs \cup {"copy"}
      BY <1>3, <2>2 DEF ImageStep, RefuseToSplit, CreateTempDirectoryStart,
           CreateTempDirectory, SetPermissionsStart, SetPermissions, PatchStart, Patch,
           SplitStart, SplitProgress, SplitEnds, StartOf, Then, ImagePCs
    <3> QED
      BY <3>1, <3>2 DEF ImagePCs, FinalPCs, ResultOfEnd, LoopIsOver
  <2> QED
    BY <2>1, <2>2
<1>4. CASE FinalStep
  <2>1. CASE LoopEnds
    BY <1>0, <2>1 DEF LoopEnds, ResultOfEnd, LoopIsOver, locals
  <2>2. CASE ExtractStart \/ Extract
    <3>1. lastAction' \in {"Continue", "Skip", "Stop"}
      BY <2>2 DEF ExtractStart, Extract, CallbackAbout, Answers
    <3> QED
      BY <1>0, <2>2, <3>1 DEF ExtractStart, Extract, AfterExtract, ResultOfEnd, LoopIsOver,
                              FinalPCs, locals
  <2>3. CASE LegacyBoot \/ WriteLegacyBootSector
    BY <1>0, <2>3 DEF LegacyBoot, WriteLegacyBootSector, Then, ResultOfEnd, LoopIsOver,
                      FinalPCs, locals, medium
  <2> QED
    BY <1>4, <2>1, <2>2, <2>3 DEF FinalStep
<1>5. CASE ScheduleStop \/ UNCHANGED vars
  BY <1>0, <1>5 DEF ScheduleStop, vars, locals, ResultOfEnd, LoopIsOver
<1> QED
  BY <1>1, <1>2, <1>3, <1>4, <1>5 DEF Next, WriterStep

(* The files of the medium, as WriteInOrder sees them. *)
OnMedium == [f \in 1..N |-> <<dest[f], slices[f]>>]

LEMMA MediumStep ==
    ASSUME TypeOK, TypeOK', FileInHand, PlaceFits, [Next]_vars
    PROVE  \/ UNCHANGED OnMedium
           \/ /\ file \in 1..N
              /\ \E c \in Contents \X Contents : OnMedium' = [OnMedium EXCEPT ![file] = c]
<1>1. job' = job /\ N' = N
  BY JobNeverChanges DEF N
<1>2. /\ dest \in [1..N -> Contents] /\ dest' \in [1..N -> Contents]
      /\ slices \in [1..N -> Contents] /\ slices' \in [1..N -> Contents]
  BY <1>1 DEF TypeOK
<1>3. CASE UNCHANGED <<dest, slices>>
  BY <1>1, <1>3 DEF OnMedium
<1>4. CASE ~UNCHANGED <<dest, slices>>
  <2>1. file \in 1..N
    BY <1>4, DestChanges, SlicesChange
  <2>2. \A f \in 1..N : f # file => dest'[f] = dest[f] /\ slices'[f] = slices[f]
    BY <1>2, DestChanges, SlicesChange
  <2> DEFINE c == <<dest'[file], slices'[file]>>
  <2>3. c \in Contents \X Contents
    BY <1>2, <2>1
  <2>4. OnMedium' = [f \in 1..N |-> IF f = file THEN c ELSE OnMedium[f]]
    BY <1>1, <2>2 DEF OnMedium
  <2>5. OnMedium' = [OnMedium EXCEPT ![file] = c]
    BY <2>4 DEF OnMedium
  <2> QED
    BY <2>1, <2>3, <2>5
<1> QED
  BY <1>3, <1>4

LEMMA InitImplements == Init => Abstract!Init
<1> SUFFICES ASSUME Init PROVE Abstract!Init
  OBVIOUS
<1>1. N \in Nat
  BY InitType, SourceType
<1>2. [f \in 1..N |-> <<dest[f], slices[f]>>] = [f \in 1..N |-> <<"none", "none">>]
  BY DEF Init, N
<1> QED
  BY <1>1, <1>2 DEF Init, Abstract!Init

(* Where only the file of the step goes on. *)
LEMMA FileStep == ASSUME [Next]_vars PROVE NextFile \/ UNCHANGED file
BY DEF Next, WriterStep, LoopStep, CommonErrorChecker, CreateDirectoryStart,
       CreateDirectory, CopyStep, CopyRefused, CopyStart, CopyChunk, CopyShortWrite, CopyEnds,
       ImageStep, RefuseToSplit, CreateTempDirectoryStart, CreateTempDirectory,
       SetPermissionsStart, SetPermissions, PatchStart, Patch, SplitStart, SplitProgress,
       SplitEnds, Cleanup, StartOf, FinalStep, LoopEnds, ExtractStart, Extract, LegacyBoot,
       WriteLegacyBootSector, ScheduleStop, vars, locals

(* In the cleanup and at the end nobody asks the callback. *)
LEMMA QuietStep ==
    ASSUME pc \in {"cleanup", "done"}, [Next]_vars
    PROVE  /\ UNCHANGED <<lastAction, medium, file>>
           /\ UNCHANGED result \/ (lastAction = "Stop" /\ result' = "NO" /\ pc # "done")
<1>1. CASE Cleanup
  BY <1>1 DEF Cleanup, AfterCleanup, SkipOrStop, client, locals
<1>2. CASE ScheduleStop \/ UNCHANGED vars
  BY <1>2 DEF ScheduleStop, vars, client, locals
<1>3. CASE WriterStep /\ ~Cleanup
  BY <1>3 DEF WriterStep, LoopStep, CommonErrorChecker, NextFile, CreateDirectoryStart,
       CreateDirectory, CopyStep, CopyRefused, CopyStart, CopyChunk, CopyShortWrite, CopyEnds,
       ImageStep, RefuseToSplit, CreateTempDirectoryStart, CreateTempDirectory,
       SetPermissionsStart, SetPermissions, PatchStart, Patch, SplitStart, SplitProgress,
       SplitEnds, StartOf, FinalStep, LoopEnds, ExtractStart, Extract, LegacyBoot,
       WriteLegacyBootSector
<1> QED
  BY <1>1, <1>2, <1>3 DEF Next

IOrder == /\ TypeOK /\ FileInHand /\ StopLeadsOut /\ PlaceFits
          /\ ResultOfEnd /\ LoopIsOver

LEMMA IOrderNext == IOrder /\ [Next]_vars => IOrder'
BY NextType, StopNext, PlaceNext, ResultStep DEF IOrder

LEMMA StepImplements ==
    ASSUME IOrder, IOrder', [Next]_vars PROVE [Abstract!Next]_(Abstract!vars)
<1> USE DEF IOrder
<1>1. job' = job /\ N' = N
  BY JobNeverChanges DEF N
<1>m. OnMedium = [f \in 1..N |-> <<dest[f], slices[f]>>]
  BY DEF OnMedium
<1>2. CASE pc \in {"cleanup", "done"}
  <2>1. UNCHANGED <<lastAction, dest, slices, file>>
    BY <1>2, QuietStep DEF medium
  <2>2. CASE UNCHANGED result
    BY <1>1, <2>1, <2>2 DEF Abstract!vars
  <2>3. CASE lastAction = "Stop" /\ result' = "NO" /\ pc # "done"
    <3>1. result = "none"
      BY <2>3 DEF ResultOfEnd
    <3> QED
      BY <1>1, <2>1, <2>3, <3>1 DEF Abstract!Next, Abstract!ReturnStopped
  <2> QED
    BY <1>2, <2>2, <2>3, QuietStep
<1>3. CASE pc \notin {"cleanup", "done"}
  <2>1. result = "none" /\ lastAction # "Stop"
    BY <1>3 DEF ResultOfEnd, StopLeadsOut
  <2>2. CASE NextFile
    <3>1. UNCHANGED <<lastAction, dest, slices, result>> /\ file < N /\ file' = file + 1
      BY <2>2 DEF NextFile, client, medium
    <3> QED
      BY <1>1, <2>1, <3>1 DEF Abstract!Next, Abstract!NextFile, Abstract!Running
  <2>3. CASE UNCHANGED file /\ result' \in {"none", "NO"}
    <3>1. IF file = 0 THEN UNCHANGED OnMedium
          ELSE \E c \in Contents \X Contents : OnMedium' = [OnMedium EXCEPT ![file] = c]
      <4>1. CASE UNCHANGED OnMedium
        <5>1. CASE file # 0
          <6>1. file \in 1..N
            BY <5>1, SourceType DEF TypeOK
          <6>2. <<dest[file], slices[file]>> \in Contents \X Contents
            BY <6>1 DEF TypeOK
          <6>3. OnMedium = [OnMedium EXCEPT ![file] = <<dest[file], slices[file]>>]
            BY <6>1 DEF OnMedium
          <6> QED
            BY <4>1, <5>1, <6>2, <6>3
        <5> QED
          BY <4>1, <5>1
      <4>2. CASE ~UNCHANGED OnMedium
        BY <4>2, MediumStep, SourceType
      <4> QED
        BY <4>1, <4>2
    <3> QED
      BY <1>1, <1>m, <2>1, <2>3, <3>1 DEF OnMedium, Abstract!Next, Abstract!Work, Abstract!Running
  <2>4. CASE pc \in {"legacy", "sector"} /\ result' = "YES" /\ UNCHANGED <<file, dest, slices>>
    <3>1. file = N
      BY <2>4 DEF LoopIsOver, FinalPCs
    <3> QED
      BY <1>1, <2>1, <2>4, <3>1 DEF Abstract!Next, Abstract!ReturnYES, Abstract!Running
  <2> QED
    BY <2>1, <2>2, <2>3, <2>4, FileStep, ResultStep
<1> QED
  BY <1>2, <1>3

(* The write of any source, whatever fails, is a write in order: one file  *)
(* at a time, none after a stop, YES only after the last one.              *)
THEOREM WritesInOrder == Spec => ImplementsWriteInOrder
<1>1. Init => IOrder
  BY InitType, StopInit, PlaceInit
     DEF IOrder, Init, ResultOfEnd, LoopIsOver, FinalPCs
<1>2. Init => Abstract!Init
  BY InitImplements
<1>3. IOrder /\ [Next]_vars => IOrder'
  BY IOrderNext
<1>4. IOrder /\ IOrder' /\ [Next]_vars => [Abstract!Next]_(Abstract!vars)
  BY StepImplements
<1> QED
  BY <1>1, <1>2, <1>3, <1>4, PTL DEF Spec, ImplementsWriteInOrder, Abstract!Spec

-----------------------------------------------------------------------------
(***************************************************************************)
(* What the reports are worth, for any source and any options: no file is  *)
(* left out silently, a file reported as copied is whole, and a write      *)
(* without trouble leaves a complete medium.                               *)
(***************************************************************************)

(* The callback was told about file f. *)
Told(f) == \E r \in reports : r.file = f

(* The loop is done with file f, and no stop is under way. *)
IsPast(f) ==
    \/ f < file
    \/ /\ f = file
       /\ pc \in {"loop"} \cup FinalPCs \/ (pc = "cleanup" /\ lastAction # "Stop")

AllTold ==
    /\ pc = "check" => file = 0
    /\ \A f \in 1..N : IsPast(f) => Told(f)
    /\ result = "YES" => \A f \in 1..N : Told(f)

-----------------------------------------------------------------------------
(* The callback: what is reported, and what its answers mean. *)
LEMMA ReportsGrow == ASSUME [Next]_vars PROVE reports \subseteq reports'
BY DEF Next, WriterStep, LoopStep, CommonErrorChecker, NextFile, CreateDirectoryStart,
       CreateDirectory, CopyStep, CopyRefused, CopyStart, CopyChunk, CopyShortWrite, CopyEnds,
       ImageStep, RefuseToSplit, CreateTempDirectoryStart, CreateTempDirectory,
       SetPermissionsStart, SetPermissions, PatchStart, Patch, SplitStart, SplitProgress,
       SplitEnds, Cleanup, StartOf, FinalStep, LoopEnds, ExtractStart, Extract, LegacyBoot,
       WriteLegacyBootSector, ScheduleStop, vars, client, Callback, CallbackAbout

(* A report tells of the file; other calls are answered with Continue or   *)
(* Stop.                                                                   *)
LEMMA CallbackTells ==
    ASSUME NEW op, NEW outcome, Callback(op, outcome), UNCHANGED file
    PROVE  /\ lastAction' \in {"Continue", "Skip", "Stop"}
           /\ outcome \in Outcomes => Told(file)'
           /\ lastAction' = "Skip" => outcome = "Failure"
           /\ outcome = "Failure" => lastAction' # "Continue"
<1>1. lastAction' \in Answers(outcome) /\ file' = file
  BY DEF Callback, CallbackAbout
<1>2. ASSUME outcome \in Outcomes PROVE Told(file)'
  <2> DEFINE r == [file |-> file, op |-> op, outcome |-> outcome]
  <2>1. r \in reports' /\ r.file = file'
    BY <1>1, <1>2 DEF Callback, CallbackAbout
  <2> HIDE DEF r
  <2> QED
    BY <2>1 DEF Told
<1> QED
  BY <1>1, <1>2 DEF Answers

(* How a step with a file in hand ends. *)
StaysInFile == pc' \in FilePCs \ {"cleanup"}
StopsHere == pc' \in {"cleanup", "done"} /\ lastAction' = "Stop"
Tells == pc' \in {"loop", "cleanup"} /\ Told(file)'

LEMMA CopyTells ==
    ASSUME CopyStep PROVE StaysInFile \/ StopsHere \/ Tells
<1>1. UNCHANGED file
  BY DEF CopyStep, CopyRefused, CopyStart, CopyChunk, CopyShortWrite, CopyEnds, locals
<1>2. ASSUME NEW outcome, Callback("WriteFile", outcome), CopyReturnsNO, lastAction' # "Continue"
      PROVE  StopsHere \/ Tells
  <2>1. lastAction' = "Stop" \/ Told(file)'
    BY <1>1, <1>2, CallbackTells DEF Outcomes
  <2>2. pc' = "cleanup" \/ (pc' = IF lastAction' = "Stop" THEN "done" ELSE "loop")
    BY <1>2 DEF CopyReturnsNO, SkipOrStop
  <2> QED
    BY <2>1, <2>2 DEF StopsHere, Tells
<1>3. CASE CopyRefused \/ CopyShortWrite
  <2>1. Callback("WriteFile", "Failure") /\ CopyReturnsNO
    BY <1>3 DEF CopyRefused, CopyShortWrite
  <2> QED
    BY <1>1, <1>2, <2>1, CallbackTells
<1>4. CASE CopyStart \/ CopyChunk
  <2>1. CASE lastAction' = "Continue"
    BY <1>4, <2>1 DEF CopyStart, CopyChunk, StaysInFile, FilePCs
  <2>2. CASE lastAction' # "Continue"
    BY <1>2, <1>4, <2>2 DEF CopyStart, CopyChunk
  <2> QED
    BY <2>1, <2>2
<1>5. CASE CopyEnds
  <2>1. CASE lastAction' = "Continue"
    <3>1. Told(file)'
      BY <1>1, <1>5, CallbackTells DEF CopyEnds, Outcomes
    <3>2. pc' \in {"loop", "chmodStart", "patchStart", "cleanup"}
      BY <1>5, <2>1 DEF CopyEnds, AfterCopy
    <3> QED
      BY <3>1, <3>2 DEF StaysInFile, Tells, FilePCs
  <2>2. CASE lastAction' # "Continue"
    BY <1>2, <1>5, <2>2 DEF CopyEnds
  <2> QED
    BY <2>1, <2>2
<1> QED
  BY <1>3, <1>4, <1>5 DEF CopyStep

LEMMA ImageTells ==
    ASSUME ImageStep, ~Cleanup PROVE StaysInFile \/ StopsHere \/ Tells
<1>1. UNCHANGED file
  BY DEF ImageStep, RefuseToSplit, CreateTempDirectoryStart, CreateTempDirectory,
         SetPermissionsStart, SetPermissions, PatchStart, Patch, SplitStart, SplitProgress,
         SplitEnds, StartOf, locals
<1>2. ASSUME NEW op, NEW outcome, NEW next \in FilePCs \ {"cleanup"},
             Callback(op, outcome), Then(next, "cleanup")
      PROVE  StaysInFile \/ StopsHere \/ Tells
  BY <1>1, <1>2, CallbackTells DEF Then, StaysInFile, StopsHere, Tells, Outcomes
<1>3. CASE RefuseToSplit
  BY <1>1, <1>3, CallbackTells DEF RefuseToSplit, Tells, Outcomes
<1>4. CASE CreateTempDirectoryStart \/ SetPermissionsStart \/ PatchStart \/ SplitStart
  BY <1>2, <1>4 DEF CreateTempDirectoryStart, SetPermissionsStart, PatchStart, SplitStart,
                    StartOf, FilePCs
<1>5. CASE CreateTempDirectory
  BY <1>2, <1>5 DEF CreateTempDirectory, FilePCs
<1>6. CASE SetPermissions
  BY <1>2, <1>6 DEF SetPermissions, FilePCs
<1>7. CASE Patch
  <2>1. \E outcome \in Outcomes : Callback("PatchWindowsInstallerRequirements", outcome)
    BY <1>7 DEF Patch, Outcomes
  <2>2. Told(file)'
    BY <1>1, <2>1, CallbackTells
  <2>3. pc' \in {"splitStart", "cleanup"}
    BY <1>7 DEF Patch, Then
  <2> QED
    BY <2>2, <2>3 DEF StaysInFile, Tells, FilePCs
<1>8. CASE SplitProgress
  BY <1>2, <1>8 DEF SplitProgress, FilePCs
<1>9. CASE SplitEnds
  <2>1. \E outcome \in Outcomes : Callback("SplitWindowsImage", outcome)
    BY <1>9 DEF SplitEnds, Outcomes
  <2>2. Told(file)'
    BY <1>1, <2>1, CallbackTells
  <2> QED
    BY <1>9, <2>2 DEF SplitEnds, Tells
<1> QED
  BY <1>3, <1>4, <1>5, <1>6, <1>7, <1>8, <1>9 DEF ImageStep

LEMMA DirectoryTells ==
    ASSUME CreateDirectoryStart \/ CreateDirectory PROVE StaysInFile \/ StopsHere \/ Tells
<1>1. UNCHANGED file
  BY DEF CreateDirectoryStart, CreateDirectory, locals
<1>2. CASE CreateDirectoryStart
  BY <1>1, <1>2, CallbackTells DEF CreateDirectoryStart, LoopThen, SkipOrStop, StaysInFile,
           StopsHere, FilePCs
<1>3. CASE CreateDirectory
  <2>1. \E outcome \in Outcomes : Callback("CreateDirectory", outcome)
    BY <1>3 DEF CreateDirectory, Outcomes
  <2>2. Told(file)'
    BY <1>1, <2>1, CallbackTells
  <2> QED
    BY <1>3, <2>2 DEF CreateDirectory, LoopThen, SkipOrStop, StopsHere, Tells
<1> QED
  BY <1>2, <1>3

-----------------------------------------------------------------------------
(* The cleanup of an image and the end of a write are behind a file. *)
LEMMA PastStays ==
    ASSUME pc \in {"cleanup", "done"}, [Next]_vars
    PROVE  /\ pc' # "check"
           /\ \A f \in 1..N : IsPast(f)' => IsPast(f)
<1>1. UNCHANGED <<lastAction, file>>
  BY QuietStep
<1>2. pc' \in {"loop", "done", "cleanup"} /\ (pc' = "loop" => pc = "cleanup" /\ lastAction # "Stop")
        /\ (pc = "done" => pc' = "done")
  <2>1. Cleanup \/ UNCHANGED pc
    BY DEF Next, WriterStep, LoopStep, CommonErrorChecker, NextFile,
           CreateDirectoryStart, CreateDirectory, CopyStep, CopyRefused, CopyStart, CopyChunk,
           CopyShortWrite, CopyEnds, ImageStep, RefuseToSplit, CreateTempDirectoryStart,
           CreateTempDirectory, SetPermissionsStart, SetPermissions, PatchStart, Patch,
           SplitStart, SplitProgress, SplitEnds, StartOf, FinalStep, LoopEnds, ExtractStart,
           Extract, LegacyBoot, WriteLegacyBootSector, ScheduleStop, vars
  <2> QED
    BY <2>1 DEF Cleanup, AfterCleanup, SkipOrStop
<1> SUFFICES ASSUME NEW f \in 1..N, IsPast(f)' PROVE IsPast(f)
  BY <1>2
<1>3. CASE f < file
  BY <1>3 DEF IsPast
<1>4. CASE f = file /\ (pc' = "loop" \/ (pc' = "cleanup" /\ lastAction # "Stop"))
  BY <1>2, <1>4 DEF IsPast
<1> QED
  BY <1>1, <1>2, <1>3, <1>4 DEF IsPast, FinalPCs

(* No file is left out silently. *)
LEMMA ToldNext ==
    ASSUME IOrder, IOrder', AllTold, [Next]_vars PROVE AllTold'
<1>0. job' = job /\ N' = N
  BY JobNeverChanges DEF N
<1>1. \A f : Told(f) => Told(f)'
  BY ReportsGrow DEF Told
<1>2. file \in 0..N /\ N \in Nat
  BY SourceType DEF IOrder, TypeOK
<1>3. CASE pc \in FilePCs \ {"cleanup"}
  <2>1. CopyStep \/ (ImageStep /\ ~Cleanup) \/ CreateDirectoryStart \/ CreateDirectory
          \/ ScheduleStop \/ UNCHANGED vars
    BY <1>3 DEF Next, WriterStep, LoopStep, CommonErrorChecker, NextFile, FinalStep, LoopEnds,
                ExtractStart, Extract, LegacyBoot, WriteLegacyBootSector, Cleanup, FilePCs
  <2>2. file' = file
    BY <1>3, FileStep DEF NextFile, FilePCs
  <2>3. StaysInFile \/ StopsHere \/ Tells
    BY <1>3, <2>1, CopyTells, ImageTells, DirectoryTells DEF ScheduleStop, vars, StaysInFile
  <2>4. result' # "YES"
    BY <1>3, ResultStep DEF IOrder, ResultOfEnd, FilePCs
  <2>5. ASSUME NEW f \in 1..N, IsPast(f)' PROVE Told(f)'
    <3>1. CASE f < file
      BY <1>1, <3>1 DEF AllTold, IsPast
    <3>2. CASE f = file /\ Tells
      BY <2>2, <3>2 DEF Tells
    <3>3. CASE f = file /\ (StaysInFile \/ StopsHere)
      BY <2>2, <2>5, <3>3 DEF IsPast, StaysInFile, StopsHere, FilePCs, FinalPCs
    <3> QED
      BY <2>2, <2>3, <2>5, <3>1, <3>2, <3>3 DEF IsPast
  <2>6. pc' # "check"
    BY <2>3 DEF StaysInFile, StopsHere, Tells, FilePCs
  <2> QED
    BY <1>0, <2>4, <2>5, <2>6 DEF AllTold
<1>4. CASE pc \in {"cleanup", "done"}
  <2>1. UNCHANGED <<lastAction, file>> /\ (UNCHANGED result \/ result' = "NO")
    BY <1>4, QuietStep
  <2>2. pc' # "check" /\ \A f \in 1..N : IsPast(f)' => IsPast(f)
    BY <1>4, PastStays
  <2> QED
    BY <1>0, <1>1, <2>1, <2>2 DEF AllTold
<1>5. CASE pc \in {"check", "loop"} \cup FinalPCs
  <2>1. \A f \in 1..N : f <= file => Told(f)'
    <3> SUFFICES ASSUME NEW f \in 1..N, f <= file PROVE Told(f)'
      OBVIOUS
    <3>1. CASE pc = "check"
      BY <1>2, <3>1 DEF AllTold
    <3>2. CASE pc \in {"loop"} \cup FinalPCs
      BY <1>1, <1>2, <3>2 DEF AllTold, IsPast
    <3> QED
      BY <1>5, <3>1, <3>2
  <2>2. CASE NextFile
    <3>1. pc' \in {"mkdirStart", "copy", "refuse", "tempStart", "splitStart"}
      <4>1. job.files[file + 1] \in FileInfo
        BY <2>2, SourceType DEF NextFile, IOrder, TypeOK
      <4> QED
        BY <2>2, <4>1, EntryFits DEF NextFile
    <3>2. \A f \in 1..N : IsPast(f)' => f <= file
      BY <1>2, <2>2, <3>1 DEF NextFile, IsPast, FinalPCs
    <3>3. result' # "YES"
      BY <2>2 DEF NextFile, IOrder, ResultOfEnd
    <3> QED
      BY <1>0, <2>1, <3>1, <3>2, <3>3 DEF AllTold
  <2>3. CASE UNCHANGED file
    <3>1. pc' = "check" => file' = 0
      <4>1. pc' = "check" => pc = "check"
        <5>1. CommonErrorChecker \/ FinalStep \/ ScheduleStop \/ UNCHANGED vars \/ NextFile
          BY <1>5 DEF Next, WriterStep, LoopStep, CreateDirectoryStart,
           CreateDirectory, CopyStep, CopyRefused, CopyStart, CopyChunk,
           CopyShortWrite, CopyEnds, ImageStep, RefuseToSplit, CreateTempDirectoryStart,
           CreateTempDirectory, SetPermissionsStart, SetPermissions, PatchStart, Patch,
           SplitStart, SplitProgress, SplitEnds, Cleanup, StartOf, FinalPCs
        <5>2. NextFile => pc' # "check"
          BY <2>3, <1>2 DEF NextFile
        <5>3. FinalStep => pc' # "check"
          <6>1. ASSUME CallbackAbout(installer, "ExtractWindowsBootloader", "Start")
                       \/ \E outcome \in Outcomes :
                             CallbackAbout(installer, "ExtractWindowsBootloader", outcome)
                PROVE lastAction' \in {"Continue", "Skip", "Stop"}
            BY <6>1 DEF CallbackAbout, Answers
          <6> QED
            BY <6>1 DEF FinalStep, LoopEnds, ExtractStart, Extract, AfterExtract, LegacyBoot, Then,
                   WriteLegacyBootSector
        <5> QED
          BY <5>1, <5>2, <5>3 DEF CommonErrorChecker, ScheduleStop, vars
      <4> QED
        BY <2>3, <4>1 DEF AllTold
    <3>2. \A f \in 1..N : IsPast(f)' => Told(f)'
      BY <1>2, <2>1, <2>3 DEF IsPast
    <3>3. result' = "YES" => \A f \in 1..N : Told(f)'
      <4>1. result' = "YES" => file = N
        BY <1>5, ResultStep DEF IOrder, ResultOfEnd, LoopIsOver, FinalPCs
      <4> QED
        BY <1>2, <2>1, <4>1
    <3> QED
      BY <1>0, <3>1, <3>2, <3>3 DEF AllTold
  <2> QED
    BY <2>2, <2>3, FileStep
<1> QED
  <2>1. pc \in PCs
    BY DEF IOrder, TypeOK
  <2> QED
    BY <2>1, <1>3, <1>4, <1>5 DEF PCs, FilePCs, FinalPCs

LEMMA IOrderInit == Init => IOrder
BY InitType, StopInit, PlaceInit DEF IOrder, Init, ResultOfEnd, LoopIsOver, FinalPCs

(* A write that returns YES has told the callback about every file.        *)
THEOREM NoFileIsForgotten == Spec => []EveryFileIsAccountedFor
<1>1. Init => IOrder /\ AllTold
  <2>1. Init => AllTold
    BY DEF Init, AllTold, IsPast, FinalPCs
  <2> QED
    BY <2>1, IOrderInit
<1>2. IOrder /\ AllTold /\ [Next]_vars => (IOrder /\ AllTold)'
  BY IOrderNext, ToldNext
<1>3. AllTold => EveryFileIsAccountedFor
  BY DEF AllTold, EveryFileIsAccountedFor, Told
<1> QED
  BY <1>1, <1>2, <1>3, PTL DEF Spec

-----------------------------------------------------------------------------
(* A file that was reported as copied is whole, or lost data.              *)

(* The copy that is being written. *)
CopyInHand == IF target = "medium" THEN dest[file] ELSE temp

(* A file can not have lost data before its copy ends. *)
BeforeCopyEnds == {"mkdirStart", "mkdir", "tempStart", "temp", "copy", "chunk"}

LostBefore ==
    /\ \A f \in lost : f <= file
    /\ pc \in BeforeCopyEnds => file \notin lost

CopyReported(f) == [file |-> f, op |-> "WriteFile", outcome |-> "Success"] \in reports

ReportedIsWhole ==
    \A f \in 1..N : CopyReported(f) =>
        /\ f <= file
        /\ ~IsInstaller(job.files[f]) =>
              /\ dest[f] = "whole" \/ f \in lost
              /\ f = file => pc \in {"loop", "done"} \cup FinalPCs

LEMMA TargetIsSet ==
    ASSUME ContentOK, target \in {"medium", "temp"}, file \in 1..N, UNCHANGED locals,
           NEW c, SetTarget(c)
    PROVE  CopyInHand' = c
BY DEF ContentOK, SetTarget, CopyInHand, locals

LEMMA CopyEndIsPast == CopyEnds => pc' \notin BeforeCopyEnds
BY DEF CopyEnds, CopyReturnsNO, AfterCopy, SkipOrStop, BeforeCopyEnds

(* Only the next file leads back to such a place. *)
LEMMA BeforeStays ==
    ASSUME [Next]_vars, ~NextFile, pc' \in BeforeCopyEnds PROVE pc \in BeforeCopyEnds
<1>1. CASE LoopStep
  BY <1>1 DEF LoopStep, CommonErrorChecker, CreateDirectoryStart, CreateDirectory, LoopThen,
              SkipOrStop, BeforeCopyEnds
<1>2. CASE CopyStep
  BY <1>2 DEF CopyStep, CopyRefused, CopyStart, CopyChunk, CopyShortWrite, CopyEnds,
              BeforeCopyEnds
<1>3. CASE ImageStep
  BY <1>3 DEF ImageStep, RefuseToSplit, CreateTempDirectoryStart, CreateTempDirectory,
         SetPermissionsStart, SetPermissions, PatchStart, Patch, SplitStart, SplitProgress,
         SplitEnds, Cleanup, AfterCleanup, SkipOrStop, StartOf, Then, BeforeCopyEnds
<1>4. CASE FinalStep
  <2>1. CASE ExtractStart \/ Extract
    <3>1. lastAction' \in {"Continue", "Skip", "Stop"}
      BY <2>1 DEF ExtractStart, Extract, CallbackAbout, Answers
    <3> QED
      BY <2>1, <3>1 DEF ExtractStart, Extract, AfterExtract, BeforeCopyEnds
  <2> QED
    BY <1>4, <2>1 DEF FinalStep, LoopEnds, LegacyBoot, WriteLegacyBootSector, Then,
                      BeforeCopyEnds
<1>5. CASE ScheduleStop \/ UNCHANGED vars
  BY <1>5 DEF ScheduleStop, vars
<1> QED
  BY <1>1, <1>2, <1>3, <1>4, <1>5 DEF Next, WriterStep

LEMMA LostNext == ASSUME IOrder, LostBefore, [Next]_vars PROVE LostBefore'
<1>0. file \in 0..N /\ N \in Nat /\ lost \subseteq 1..N
  BY SourceType DEF IOrder, TypeOK
<1>1. CASE NextFile
  <2>1. lost' = lost /\ file' = file + 1
    BY <1>1 DEF NextFile, history
  <2> QED
    BY <1>0, <2>1 DEF LostBefore
<1>2. CASE ~NextFile
  <2>1. file' = file
    BY <1>2, FileStep
  <2>2. \A f \in lost' : f <= file'
    <3>1. \A f \in lost : f <= file'
      BY <2>1 DEF LostBefore
    <3>2. file <= file'
      BY <1>0, <2>1
    <3> QED
      BY <3>1, <3>2, LostChanges
  <2>3. ASSUME pc' \in BeforeCopyEnds PROVE file' \notin lost'
    BY <1>2, <2>1, <2>3, BeforeStays, CopyEndIsPast, LostChanges DEF LostBefore
  <2> QED
    BY <2>2, <2>3 DEF LostBefore
<1> QED
  BY <1>1, <1>2

(* Only the end of a copy reports it. *)
LEMMA OtherReport ==
    ASSUME NEW f, NEW g, NEW op, NEW outcome, CallbackAbout(g, op, outcome),
           op # "WriteFile" \/ outcome # "Success"
    PROVE  CopyReported(f)' => CopyReported(f)
BY DEF CallbackAbout, CopyReported

LEMMA NewReport ==
    ASSUME [Next]_vars, NEW f, CopyReported(f)', ~CopyReported(f)
    PROVE  CopyEnds /\ f = file
<1>1. UNCHANGED reports => FALSE
  BY DEF CopyReported
<1>2. ASSUME NEW op, NEW outcome, Callback(op, outcome),
             op # "WriteFile" \/ outcome # "Success"
      PROVE  FALSE
  BY <1>2, OtherReport DEF Callback
<1>3. ~LoopStep
  BY <1>1, <1>2 DEF LoopStep, CommonErrorChecker, NextFile, CreateDirectoryStart,
                    CreateDirectory, client
<1>4. ~ImageStep
  BY <1>1, <1>2 DEF ImageStep, RefuseToSplit, CreateTempDirectoryStart, CreateTempDirectory,
         SetPermissionsStart, SetPermissions, PatchStart, Patch, SplitStart, SplitProgress,
         SplitEnds, Cleanup, StartOf, client
<1>5. ~FinalStep
  <2>1. ASSUME NEW g, NEW op, NEW outcome, CallbackAbout(g, op, outcome), op # "WriteFile"
        PROVE  FALSE
    BY <2>1, OtherReport
  <2> QED
    BY <1>1, <2>1 DEF FinalStep, LoopEnds, ExtractStart, Extract, LegacyBoot,
                      WriteLegacyBootSector, client
<1>6. CASE CopyStep
  <2>1. CopyEnds
    BY <1>2, <1>6 DEF CopyStep, CopyRefused, CopyStart, CopyChunk, CopyShortWrite
  <2>2. f = file
    BY <2>1 DEF CopyEnds, Callback, CallbackAbout, CopyReported
  <2> QED
    BY <2>1, <2>2
<1> QED
  BY <1>1, <1>3, <1>4, <1>5, <1>6 DEF Next, WriterStep, ScheduleStop, vars, client

(* Between two files and after the last nothing is written to the files. *)
LEMMA NoFileInHand ==
    ASSUME pc \in {"check", "loop", "done"} \cup FinalPCs, [Next]_vars
    PROVE  UNCHANGED <<dest, slices>>
BY DEF FinalPCs, Next, WriterStep, LoopStep, CommonErrorChecker, NextFile,
       CreateDirectoryStart, CreateDirectory, CopyStep, CopyRefused, CopyStart, CopyChunk,
       CopyShortWrite, CopyEnds, ImageStep, RefuseToSplit, CreateTempDirectoryStart,
       CreateTempDirectory, SetPermissionsStart, SetPermissions, PatchStart, Patch, SplitStart,
       SplitProgress, SplitEnds, Cleanup, StartOf, FinalStep, LoopEnds, ExtractStart, Extract,
       LegacyBoot, WriteLegacyBootSector, ScheduleStop, vars, medium

(* From there the code goes on with the next file, or to the end. *)
LEMMA NoWayBack ==
    ASSUME IOrder, pc \in {"loop", "done"} \cup FinalPCs, [Next]_vars
    PROVE  NextFile \/ (file' = file /\ pc' \in {"loop", "done"} \cup FinalPCs)
<1>1. FinalStep \/ NextFile \/ UNCHANGED <<file, pc>>
  BY DEF FinalPCs, Next, WriterStep, LoopStep, CommonErrorChecker,
       CreateDirectoryStart, CreateDirectory, CopyStep, CopyRefused, CopyStart, CopyChunk,
       CopyShortWrite, CopyEnds, ImageStep, RefuseToSplit, CreateTempDirectoryStart,
       CreateTempDirectory, SetPermissionsStart, SetPermissions, PatchStart, Patch, SplitStart,
       SplitProgress, SplitEnds, Cleanup, StartOf, ScheduleStop, vars, locals
<1>2. CASE FinalStep
  <2>1. CASE ExtractStart \/ Extract
    <3>1. lastAction' \in {"Continue", "Skip", "Stop"}
      BY <2>1 DEF ExtractStart, Extract, CallbackAbout, Answers
    <3> QED
      BY <2>1, <3>1 DEF ExtractStart, Extract, AfterExtract, FinalPCs, locals
  <2> QED
    BY <1>2, <2>1 DEF FinalStep, LoopEnds, LegacyBoot, WriteLegacyBootSector, Then, FinalPCs,
                      locals
<1> QED
  BY <1>1, <1>2

LEMMA ReportedNext ==
    ASSUME IOrder, ReportedIsWhole, [Next]_vars
    PROVE  ReportedIsWhole'
<1>0. job' = job /\ N' = N
  BY JobNeverChanges DEF N
<1>i. \A f : IsInstaller(job.files[f])' = IsInstaller(job.files[f])
  BY <1>0 DEF IsInstaller
<1> SUFFICES ASSUME NEW f \in 1..N, CopyReported(f)'
             PROVE  /\ f <= file'
                    /\ ~IsInstaller(job.files[f]) =>
                          /\ dest'[f] = "whole" \/ f \in lost'
                          /\ f = file' => pc' \in {"loop", "done"} \cup FinalPCs
  BY <1>0, <1>i DEF ReportedIsWhole
<1>1. file \in 0..N /\ N \in Nat /\ dest \in [1..N -> Contents]
  BY SourceType DEF IOrder, TypeOK
<1>l. lost \subseteq lost'
  BY LostChanges
<1>2. file' \in {file, file + 1}
  BY FileStep DEF NextFile
<1>3. CASE CopyReported(f)
  <2>1. f <= file /\ f <= file'
    BY <1>1, <1>2, <1>3 DEF ReportedIsWhole
  <2> SUFFICES ASSUME ~IsInstaller(job.files[f])
               PROVE  /\ dest'[f] = "whole" \/ f \in lost'
                      /\ f = file' => pc' \in {"loop", "done"} \cup FinalPCs
    BY <2>1
  <2>2. (dest[f] = "whole" \/ f \in lost) /\ (f = file => pc \in {"loop", "done"} \cup FinalPCs)
    BY <1>3 DEF ReportedIsWhole
  <2>3. CASE f # file
    <3>1. dest'[f] = "whole" \/ f \in lost'
      BY <1>1, <1>l, <2>2, <2>3, DestChanges DEF IOrder
    <3> QED
      BY <1>1, <1>2, <2>1, <2>3, <3>1
  <2>4. CASE f = file
    <3>1. dest' = dest
      BY <2>2, <2>4, NoFileInHand
    <3>2. f = file' => pc' \in {"loop", "done"} \cup FinalPCs
      <4>1. CASE NextFile
        BY <1>1, <2>4, <4>1 DEF NextFile
      <4>2. CASE pc' \in {"loop", "done"} \cup FinalPCs
        BY <4>2
      <4> QED
        BY <2>2, <2>4, <4>1, <4>2, NoWayBack
    <3> QED
      BY <1>l, <2>2, <3>1, <3>2
  <2> QED
    BY <2>3, <2>4
<1>4. CASE ~CopyReported(f)
  <2>1. CopyEnds /\ f = file
    BY <1>4, NewReport
  <2>2. file' = file /\ pc = "chunk" /\ file \in 1..N /\ UNCHANGED locals
    BY <1>1, <2>1 DEF CopyEnds, locals
  <2> SUFFICES ASSUME ~IsInstaller(current)
               PROVE  (dest'[file] = "whole" \/ file \in lost') /\ pc' \in {"loop", "done"}
    BY <1>1, <2>1, <2>2 DEF current
  <2>3. target = "medium"
    BY <2>2 DEF IOrder, PlaceFits, WorkPCs, TypeOK
  <2>4. SetTarget("whole") \/ file \in lost'
    BY <2>1 DEF CopyEnds, NothingIsRead, ContentAfter
  <2>5. dest'[file] = "whole" \/ file \in lost'
    BY <1>1, <2>2, <2>3, <2>4 DEF SetTarget
  <2> QED
    BY <2>1, <2>5 DEF CopyEnds, AfterCopy, CopyReturnsNO, SkipOrStop
<1> QED
  BY <1>3, <1>4

(* A file that was reported as copied is complete on the medium and stays  *)
(* so, unless fread or fclose failed on it, whatever else fails.           *)
THEOREM CopiedIsWhole == Spec => []SuccessMeansWholeFile
<1> DEFINE IInv == IOrder /\ ReportedIsWhole
<1>1. Init => IInv
  <2>1. Init => ReportedIsWhole
    BY DEF Init, ReportedIsWhole, CopyReported
  <2> QED
    BY <2>1, IOrderInit
<1>2. IInv /\ [Next]_vars => IInv'
  BY IOrderNext, ReportedNext
<1>3. IInv => SuccessMeansWholeFile
  BY DEF ReportedIsWhole, SuccessMeansWholeFile, CopyReported
<1> QED
  BY <1>1, <1>2, <1>3, PTL DEF Spec

-----------------------------------------------------------------------------
(* A write without trouble leaves a complete medium.                       *)

Fine == Troubles = {}

(* A copy, and a file on the medium, that may have lost data. *)
AsCopied == IF file \in lost THEN "part" ELSE "whole"

AsAsked == IF file \in lost THEN "part"
           ELSE IF job.patch THEN "patched" ELSE "whole"

(* What the way of an image through the code depends on. *)
PlanFits ==
    /\ pc \in WorkPCs \cup {"tempStart", "temp"} /\ target = "temp"
         => job.patch /\ RequiresSplitting(current)
    /\ pc \in {"splitStart", "split"} => RequiresSplitting(current)
    /\ pc \in {"chmodStart", "chmod"} => target = "temp"
    /\ pc \in {"patchStart", "patch"} => job.patch
    /\ pc \in {"chmodStart", "chmod", "patchStart", "patch"} => CopyInHand = AsCopied
    /\ pc \in {"splitStart", "split"} /\ Fine => SplitSource = AsAsked

LEMMA FineBefore == ASSUME [Next]_vars, Fine' PROVE Fine
BY ReportsGrow DEF Fine, Troubles

LEMMA FineCallback ==
    ASSUME Fine', NEW f, NEW op, NEW outcome, CallbackAbout(f, op, outcome)
    PROVE  /\ outcome \notin {"Failure", "Skipped"}
           /\ lastAction' \in {"Continue", "Stop"}
<1>1. ASSUME outcome \in {"Failure", "Skipped"} PROVE FALSE
  <2> DEFINE r == [file |-> f, op |-> op, outcome |-> outcome]
  <2>1. r \in reports' /\ r.outcome # "Success"
    BY <1>1 DEF CallbackAbout, Outcomes
  <2> HIDE DEF r
  <2> QED
    BY <2>1 DEF Fine, Troubles
<1> QED
  BY <1>1 DEF CallbackAbout, Answers

LEMMA CopyIsAsCopied ==
    ASSUME IOrder, LostBefore, CopyEnds PROVE CopyInHand' = AsCopied'
<1>1. pc = "chunk" /\ UNCHANGED locals /\ file' = file
  BY DEF CopyEnds, locals
<1>2. file \in 1..N /\ file \notin lost /\ ContentOK /\ target \in {"medium", "temp"}
  BY <1>1, TypeParts DEF IOrder, FileInHand, FilePCs, LostBefore, BeforeCopyEnds, TypeOK
<1>3. CASE SetTarget("whole") /\ lost' = lost
  BY <1>1, <1>2, <1>3, TargetIsSet DEF AsCopied
<1>4. CASE SetTarget("part") /\ lost' = lost \cup {file}
  BY <1>1, <1>2, <1>4, TargetIsSet DEF AsCopied
<1> QED
  BY <1>3, <1>4 DEF CopyEnds, NothingIsRead, ContentAfter

(* With the same file, in the same folder. *)
LEMMA SamePlan ==
    ASSUME UNCHANGED locals
    PROVE  /\ current' = current /\ RequiresSplitting(current)' = RequiresSplitting(current)
           /\ job' = job /\ target' = target /\ file' = file
BY DEF locals, current, RequiresSplitting

LEMMA PlanNext ==
    ASSUME IOrder, LostBefore, PlanFits, [Next]_vars
    PROVE  PlanFits'
<1>1. CASE NextFile
  <2>0. job.files[file + 1] \in FileInfo /\ file + 1 \notin lost
    BY <1>1, SourceType DEF NextFile, IOrder, TypeOK, LostBefore
  <2>1. PICK f \in FileInfo : f = job.files[file + 1]
    BY <2>0
  <2>2. current' = f /\ RequiresSplitting(f)' = RequiresSplitting(f) /\ job' = job
        /\ file' \notin lost' /\ pc' = EntryOf(f)
        /\ target' = IF EntryOf(f) = "tempStart" THEN "temp" ELSE "medium"
    BY <1>1, <2>0, <2>1 DEF NextFile, current, RequiresSplitting, history
  <2>3. EntryOf(f) \in {"mkdirStart", "copy", "refuse", "tempStart", "splitStart"}
    BY <2>1, EntryFits
  <2>4. EntryOf(f) = "tempStart" => job.patch /\ RequiresSplitting(f)
    BY DEF EntryOf
  <2>5. EntryOf(f) = "splitStart" => ~job.patch /\ RequiresSplitting(f)
    BY DEF EntryOf
  <2>6. EntryOf(f) = "splitStart" => SplitSource' = "whole" /\ AsAsked' = "whole"
    BY <2>2, <2>5 DEF SplitSource, AsAsked
  <2>7. (RequiresSplitting(current))' = RequiresSplitting(f)
    BY <2>2 DEF RequiresSplitting
  <2> QED
    BY <2>2, <2>3, <2>4, <2>5, <2>6, <2>7 DEF PlanFits, WorkPCs
<1>2. CASE CopyStep
  <2>1. UNCHANGED locals /\ pc \in {"copy", "chunk"}
    BY <1>2 DEF CopyStep, CopyRefused, CopyStart, CopyChunk, CopyShortWrite, CopyEnds
  <2>2. target = "temp" => job.patch /\ RequiresSplitting(current)
    BY <2>1 DEF PlanFits, WorkPCs
  <2>3. CASE pc' \in {"chunk", "loop", "cleanup", "done"}
    BY <2>1, <2>2, <2>3, SamePlan DEF PlanFits, WorkPCs
  <2>4. CASE CopyEnds /\ pc' = AfterCopy /\ pc' \in {"chmodStart", "patchStart"}
    <3>1. CopyInHand' = AsCopied'
      BY <2>4, CopyIsAsCopied
    <3>2. /\ pc' = "chmodStart" => target = "temp"
          /\ pc' = "patchStart" => job.patch
      BY <2>4 DEF AfterCopy
    <3> QED
      BY <2>1, <2>2, <2>4, <3>1, <3>2, SamePlan DEF PlanFits, WorkPCs
  <2> QED
    BY <1>2, <2>3, <2>4 DEF CopyStep, CopyRefused, CopyStart, CopyChunk, CopyShortWrite,
                            CopyEnds, CopyReturnsNO, AfterCopy, SkipOrStop
<1>3. CASE CreateTempDirectoryStart \/ CreateTempDirectory
  <2>1. UNCHANGED locals /\ pc' \in {"temp", "copy", "cleanup"} /\ pc \in {"tempStart", "temp"}
    BY <1>3 DEF CreateTempDirectoryStart, CreateTempDirectory, StartOf, Then
  <2>2. target = "temp" /\ job.patch /\ RequiresSplitting(current)
    BY <2>1 DEF PlanFits, IOrder, PlaceFits
  <2> QED
    BY <2>1, <2>2, SamePlan DEF PlanFits, WorkPCs
<1>4. CASE SetPermissionsStart \/ SetPermissions \/ PatchStart
  <2>1. /\ UNCHANGED <<locals, temp, dest, lost>>
        /\ pc \in {"chmodStart", "chmod", "patchStart"}
        /\ pc' \in {"chmod", "patchStart", "patch", "cleanup"}
        /\ pc' = "chmod" => pc = "chmodStart"
        /\ pc' = "patchStart" => pc = "chmod"
        /\ pc' = "patch" => pc = "patchStart"
    BY <1>4 DEF SetPermissionsStart, SetPermissions, PatchStart, StartOf, Then, medium,
                history
  <2>2. CopyInHand' = AsCopied'
    BY <2>1, SamePlan DEF PlanFits, CopyInHand, AsCopied
  <2>3. /\ pc \in {"chmodStart", "chmod"} => target = "temp"
        /\ pc = "patchStart" => job.patch
        /\ target = "temp" => job.patch /\ RequiresSplitting(current)
    BY <2>1 DEF PlanFits, WorkPCs
  <2> QED
    BY <2>1, <2>2, <2>3, SamePlan DEF PlanFits, WorkPCs
<1>5. CASE Patch /\ pc' = "splitStart"
  <2>1. UNCHANGED locals /\ pc = "patch" /\ RequiresSplitting(current) /\ job.patch
    BY <1>5 DEF Patch, Then, PlanFits
  <2>2. target = "temp" /\ temp = AsCopied /\ lost' = lost
    BY <1>5, <2>1 DEF Patch, IOrder, PlaceFits, WorkPCs, ImagePCs, PlanFits, CopyInHand, TypeOK,
                      history
  <2>3. ASSUME Fine' PROVE SplitSource' = AsAsked'
    <3>1. SetTarget(Patched)
      BY <1>5, <2>3, FineCallback DEF Patch, Callback
    <3>2. temp' = AsAsked
      BY <2>1, <2>2, <3>1 DEF SetTarget, Patched, PatchTarget, AsCopied, AsAsked
    <3> QED
      BY <2>1, <2>2, <3>2, SamePlan DEF SplitSource, AsAsked
  <2> QED
    BY <1>5, <2>1, <2>3, SamePlan DEF PlanFits, WorkPCs
<1>6. CASE SplitStart \/ SplitProgress
  <2>1. UNCHANGED <<locals, temp, lost>> /\ pc \in {"splitStart", "split"} /\ pc' \in {"split", "cleanup"}
    BY <1>6 DEF SplitStart, SplitProgress, StartOf, Then, history
  <2>2. SplitSource' = SplitSource /\ AsAsked' = AsAsked
    BY <2>1, SamePlan DEF SplitSource, AsAsked
  <2>3. Fine' => Fine
    BY FineBefore
  <2> QED
    BY <2>1, <2>2, <2>3, SamePlan DEF PlanFits, WorkPCs
<1>7. CASE ScheduleStop \/ UNCHANGED vars
  <2>1. UNCHANGED <<locals, pc, temp, dest, reports, lost>>
    BY <1>7 DEF ScheduleStop, vars, medium, client, history
  <2>2. CopyInHand' = CopyInHand /\ SplitSource' = SplitSource /\ Fine' = Fine
    BY <2>1, SamePlan DEF CopyInHand, SplitSource, Fine, Troubles
  <2>3. AsCopied' = AsCopied /\ AsAsked' = AsAsked
    BY <2>1, SamePlan DEF AsCopied, AsAsked
  <2> QED
    BY <2>1, <2>2, <2>3, SamePlan DEF PlanFits
<1>8. CASE pc' \in {"loop", "mkdir", "cleanup", "done"} \cup FinalPCs
  BY <1>8 DEF PlanFits, WorkPCs, FinalPCs
<1> QED
  <2>1. CASE LoopStep /\ ~NextFile
    <3>1. pc' \in {"loop", "mkdir", "done"}
      BY <2>1 DEF LoopStep, CommonErrorChecker, CreateDirectoryStart, CreateDirectory,
                  LoopThen, SkipOrStop
    <3> QED
      BY <1>8, <3>1
  <2>2. CASE RefuseToSplit \/ (Patch /\ pc' # "splitStart") \/ SplitEnds \/ Cleanup
    <3>1. pc' \in {"cleanup", "loop", "done"}
      BY <2>2 DEF RefuseToSplit, Patch, SplitEnds, Cleanup, AfterCleanup, SkipOrStop, Then
    <3> QED
      BY <1>8, <3>1
  <2>3. CASE FinalStep
    <3>1. pc \in {"loop"} \cup FinalPCs
      BY <2>3 DEF FinalStep, LoopEnds, ExtractStart, Extract, LegacyBoot, WriteLegacyBootSector,
                  FinalPCs
    <3>2. NextFile \/ pc' \in {"loop", "done"} \cup FinalPCs
      BY <3>1, NoWayBack
    <3> QED
      BY <1>1, <1>8, <3>2
  <2> QED
    BY <1>1, <1>2, <1>3, <1>4, <1>5, <1>6, <1>7, <2>1, <2>2, <2>3
       DEF Next, WriterStep, ImageStep

(* Without trouble a file that the loop is done with is on the medium, and *)
(* one that lost data is not.                                              *)
WrittenUnlessLost(f) == IsWritten(f) <=> f \notin lost

AllWritten ==
    Fine => /\ \A f \in 1..N : IsPast(f) => WrittenUnlessLost(f)
            /\ result = "YES" => \A f \in 1..N : WrittenUnlessLost(f)

Writes == pc' \in {"loop", "cleanup"} /\ WrittenUnlessLost(file)'

LEMMA CopyWrites ==
    ASSUME IOrder, LostBefore, PlanFits, CopyStep, Fine'
    PROVE  StaysInFile \/ StopsHere \/ Writes
<1>1. \A op, outcome : Callback(op, outcome)
         => outcome \notin {"Failure", "Skipped"} /\ lastAction' \in {"Continue", "Stop"}
  BY FineCallback DEF Callback
<1>2. ~CopyRefused /\ ~CopyShortWrite
  BY <1>1 DEF CopyRefused, CopyShortWrite
<1>3. CASE lastAction' = "Stop"
  BY <1>2, <1>3 DEF CopyStep, CopyStart, CopyChunk, CopyEnds, CopyReturnsNO, SkipOrStop,
                    StopsHere
<1>4. CASE lastAction' = "Continue"
  <2>1. CASE CopyStart \/ CopyChunk
    BY <1>4, <2>1 DEF CopyStart, CopyChunk, StaysInFile, FilePCs
  <2>2. CASE CopyEnds
    <3>1. pc' = AfterCopy /\ pc = "chunk" /\ UNCHANGED locals
      BY <1>4, <2>2 DEF CopyEnds
    <3>2. CASE AfterCopy \in {"chmodStart", "patchStart"}
      BY <3>1, <3>2 DEF StaysInFile, FilePCs
    <3>3. CASE AfterCopy \notin {"chmodStart", "patchStart"}
      <4>1. AfterCopy = IF IsInstaller(current) THEN "cleanup" ELSE "loop"
        BY <3>3 DEF AfterCopy
      <4>2. IsInstaller(current) => ~job.patch
        BY <3>3 DEF AfterCopy
      <4>3. target = "medium"
        BY <3>1, <4>2 DEF PlanFits, WorkPCs, IOrder, PlaceFits, TypeOK
      <4>4. dest'[file] = IF file \in lost' THEN "part" ELSE "whole"
        BY <2>2, <3>1, <4>3, CopyIsAsCopied, SamePlan DEF AsCopied, CopyInHand
      <4>5. IsInstaller(current) => ~RequiresSplitting(current)
        BY <3>1, <4>3 DEF IOrder, PlaceFits, WorkPCs
      <4>6. IsWritten(file)' <=> dest'[file] = "whole"
        BY <3>1, <4>2, <4>5, SamePlan DEF IsWritten, current, IsInstaller, RequiresSplitting
      <4>7. WrittenUnlessLost(file)'
        BY <3>1, <4>4, <4>6, SamePlan DEF WrittenUnlessLost
      <4> QED
        BY <3>1, <4>1, <4>7 DEF Writes
    <3> QED
      BY <3>2, <3>3
  <2> QED
    BY <1>2, <2>1, <2>2 DEF CopyStep
<1> QED
  BY <1>1, <1>3, <1>4 DEF CopyStep, CopyRefused, CopyStart, CopyChunk, CopyShortWrite, CopyEnds

LEMMA ImageWrites ==
    ASSUME IOrder, PlanFits, ImageStep, ~Cleanup, Fine', Fine
    PROVE  StaysInFile \/ StopsHere \/ Writes
<1>1. \A op, outcome : Callback(op, outcome)
         => outcome \notin {"Failure", "Skipped"} /\ lastAction' \in {"Continue", "Stop"}
  BY FineCallback DEF Callback
<1>2. ASSUME NEW op, NEW outcome, NEW next \in FilePCs \ {"cleanup"},
             Callback(op, outcome), Then(next, "cleanup")
      PROVE  StaysInFile \/ StopsHere
  BY <1>1, <1>2 DEF Then, StaysInFile, StopsHere
<1>3. ~RefuseToSplit
  BY <1>1 DEF RefuseToSplit
<1>4. CASE CreateTempDirectoryStart \/ SetPermissionsStart \/ PatchStart \/ SplitStart
  BY <1>2, <1>4 DEF CreateTempDirectoryStart, SetPermissionsStart, PatchStart, SplitStart,
                    StartOf, FilePCs
<1>5. CASE CreateTempDirectory
  BY <1>2, <1>5 DEF CreateTempDirectory, FilePCs
<1>6. CASE SetPermissions
  BY <1>2, <1>6 DEF SetPermissions, FilePCs
<1>7. CASE SplitProgress
  BY <1>2, <1>7 DEF SplitProgress, FilePCs
<1>8. CASE Patch
  <2>0. SetTarget(Patched) /\ lastAction' \in {"Continue", "Stop"} /\ lost' = lost
    BY <1>1, <1>8 DEF Patch, history
  <2>1. pc = "patch" /\ UNCHANGED locals /\ job.patch /\ IsInstaller(current)
        /\ UNCHANGED slices /\ file \in 1..N /\ dest \in [1..N -> Contents]
    BY <1>8 DEF Patch, PlanFits, IOrder, PlaceFits, ImagePCs, FileInHand, FilePCs, TypeOK
  <2>2. CASE RequiresSplitting(current) \/ lastAction' = "Stop"
    BY <1>8, <2>0, <2>2 DEF Patch, Then, StaysInFile, StopsHere, FilePCs
  <2>3. CASE ~RequiresSplitting(current) /\ lastAction' = "Continue"
    <3>1. target = "medium" /\ dest[file] = AsCopied
      BY <2>1, <2>3 DEF PlanFits, WorkPCs, IOrder, TypeOK, CopyInHand
    <3>2. dest'[file] = AsAsked
      BY <2>0, <2>1, <3>1 DEF SetTarget, Patched, PatchTarget, AsCopied, AsAsked
    <3>3. IsWritten(file)' <=> dest'[file] = "patched"
      BY <2>1, <2>3, SamePlan DEF IsWritten, current, IsInstaller, RequiresSplitting
    <3>4. WrittenUnlessLost(file)'
      BY <2>0, <2>1, <3>2, <3>3, SamePlan DEF WrittenUnlessLost, AsAsked
    <3> QED
      BY <1>8, <2>3, <3>4 DEF Patch, Then, Writes
  <2> QED
    BY <2>0, <2>2, <2>3
<1>9. CASE SplitEnds
  <2>1. slices' = [slices EXCEPT ![file] = SplitSource] /\ lost' = lost
    BY <1>1, <1>9 DEF SplitEnds, history
  <2>2. pc = "split" /\ UNCHANGED locals /\ IsInstaller(current) /\ RequiresSplitting(current)
        /\ file \in 1..N /\ slices \in [1..N -> Contents]
    BY <1>9 DEF SplitEnds, PlanFits, IOrder, PlaceFits, ImagePCs, FileInHand, FilePCs, TypeOK
  <2>3. slices'[file] = AsAsked
    BY <2>1, <2>2 DEF PlanFits
  <2>4. IsWritten(file)' <=> slices'[file] = IF job.patch THEN "patched" ELSE "whole"
    BY <2>2, SamePlan DEF IsWritten, current, IsInstaller, RequiresSplitting
  <2>5. WrittenUnlessLost(file)'
    BY <2>1, <2>2, <2>3, <2>4, SamePlan DEF WrittenUnlessLost, AsAsked
  <2> QED
    BY <1>9, <2>5 DEF SplitEnds, Writes
<1> QED
  BY <1>3, <1>4, <1>5, <1>6, <1>7, <1>8, <1>9 DEF ImageStep

LEMMA DirectoryWrites ==
    ASSUME IOrder, LostBefore, CreateDirectoryStart \/ CreateDirectory, Fine'
    PROVE  StaysInFile \/ StopsHere \/ Writes
<1>1. \A op, outcome : Callback(op, outcome)
         => outcome \notin {"Failure", "Skipped"} /\ lastAction' \in {"Continue", "Stop"}
  BY FineCallback DEF Callback
<1>2. CASE CreateDirectoryStart
  BY <1>1, <1>2 DEF CreateDirectoryStart, LoopThen, SkipOrStop, StaysInFile, StopsHere, FilePCs
<1>3. CASE CreateDirectory
  <2>1. dest' = [dest EXCEPT ![file] = "whole"] /\ lastAction' \in {"Continue", "Stop"}
    BY <1>1, <1>3 DEF CreateDirectory
  <2>2. current.role = "directory" /\ UNCHANGED locals /\ file \in 1..N
        /\ dest \in [1..N -> Contents] /\ file \notin lost /\ lost' = lost
    BY <1>3 DEF CreateDirectory, IOrder, PlaceFits, FileInHand, FilePCs, TypeOK, LostBefore,
                BeforeCopyEnds, history
  <2>3. IsWritten(file)'
    BY <2>1, <2>2, SamePlan DEF IsWritten, current, IsInstaller
  <2>4. WrittenUnlessLost(file)'
    BY <2>2, <2>3, SamePlan DEF WrittenUnlessLost
  <2> QED
    BY <1>3, <2>1, <2>4 DEF CreateDirectory, LoopThen, SkipOrStop, StopsHere, Writes
<1> QED
  BY <1>2, <1>3

LEMMA WrittenNext ==
    ASSUME IOrder, LostBefore, PlanFits, AllTold, AllWritten, [Next]_vars
    PROVE  AllWritten'
<1> SUFFICES ASSUME Fine', Fine PROVE AllWritten'
  BY FineBefore DEF AllWritten
<1>0. job' = job /\ N' = N /\ N \in Nat /\ file \in 0..N
  BY JobNeverChanges, SourceType DEF N, IOrder, TypeOK
<1>1. ASSUME NEW f \in 1..N, dest'[f] = dest[f], slices'[f] = slices[f],
             f \in lost' <=> f \in lost
      PROVE  WrittenUnlessLost(f)' <=> WrittenUnlessLost(f)
  <2>1. IsWritten(f)' <=> IsWritten(f)
    BY <1>0, <1>1 DEF IsWritten, IsInstaller, RequiresSplitting
  <2> QED
    BY <1>1, <2>1 DEF WrittenUnlessLost
<1>2. \A f \in 1..N : f # file => (WrittenUnlessLost(f)' <=> WrittenUnlessLost(f))
  <2> SUFFICES ASSUME NEW f \in 1..N, f # file
               PROVE  WrittenUnlessLost(f)' <=> WrittenUnlessLost(f)
    OBVIOUS
  <2>1. dest \in [1..N -> Contents] /\ slices \in [1..N -> Contents]
    BY DEF IOrder, TypeOK
  <2>2. dest'[f] = dest[f] /\ slices'[f] = slices[f]
    BY <2>1, DestChanges, SlicesChange DEF IOrder
  <2>3. f \in lost' <=> f \in lost
    BY LostChanges
  <2> QED
    BY <1>1, <2>2, <2>3
<1>3. CASE pc \in FilePCs \ {"cleanup"}
  <2>1. CopyStep \/ (ImageStep /\ ~Cleanup) \/ CreateDirectoryStart \/ CreateDirectory
          \/ ScheduleStop \/ UNCHANGED vars
    BY <1>3 DEF Next, WriterStep, LoopStep, CommonErrorChecker, NextFile, FinalStep, LoopEnds,
                ExtractStart, Extract, LegacyBoot, WriteLegacyBootSector, Cleanup, FilePCs
  <2>2. file' = file
    BY <1>3, FileStep DEF NextFile, FilePCs
  <2>3. StaysInFile \/ StopsHere \/ Writes
    BY <1>3, <2>1, CopyWrites, ImageWrites, DirectoryWrites DEF ScheduleStop, vars, StaysInFile
  <2>4. result' # "YES"
    BY <1>3, ResultStep DEF IOrder, ResultOfEnd, FilePCs
  <2>5. ASSUME NEW f \in 1..N, IsPast(f)' PROVE WrittenUnlessLost(f)'
    <3>1. CASE f < file
      BY <1>0, <1>2, <3>1 DEF AllWritten, IsPast
    <3>2. CASE f = file /\ Writes
      BY <2>2, <3>2 DEF Writes
    <3>3. CASE f = file /\ (StaysInFile \/ StopsHere)
      BY <2>2, <2>5, <3>3 DEF IsPast, StaysInFile, StopsHere, FilePCs, FinalPCs
    <3> QED
      BY <2>2, <2>3, <2>5, <3>1, <3>2, <3>3 DEF IsPast
  <2> QED
    BY <1>0, <2>4, <2>5 DEF AllWritten
<1>4. CASE pc \in {"cleanup", "done"}
  <2>1. /\ UNCHANGED <<lastAction, file, dest, slices>> /\ (UNCHANGED result \/ result' = "NO")
    BY <1>4, QuietStep DEF medium
  <2>2. lost' = lost
    BY <1>4, LostChanges DEF CopyEnds
  <2>4. \A f \in 1..N : WrittenUnlessLost(f)' <=> WrittenUnlessLost(f)
    BY <1>1, <2>1, <2>2
  <2>3. \A f \in 1..N : IsPast(f)' => IsPast(f)
    BY <1>4, PastStays
  <2> QED
    BY <1>0, <2>1, <2>3, <2>4 DEF AllWritten
<1>5. CASE pc \in {"check", "loop"} \cup FinalPCs
  <2>1. \A f \in 1..N : f <= file => WrittenUnlessLost(f)'
    <3> SUFFICES ASSUME NEW f \in 1..N, f <= file PROVE WrittenUnlessLost(f)'
      OBVIOUS
    <3>1. pc # "check"
      BY <1>0 DEF AllTold
    <3>2. IsPast(f)
      BY <1>0, <1>5, <3>1 DEF IsPast
    <3>3. dest' = dest /\ slices' = slices
      BY <1>5, NoFileInHand
    <3>4. lost' = lost
      BY <1>5, LostChanges DEF CopyEnds, FinalPCs
    <3> QED
      BY <1>1, <3>2, <3>3, <3>4 DEF AllWritten
  <2>2. ASSUME NEW f \in 1..N, IsPast(f)' PROVE f <= file
    <3>1. CASE NextFile
      <4>1. pc' \in {"mkdirStart", "copy", "refuse", "tempStart", "splitStart"}
        <5>1. job.files[file + 1] \in FileInfo
          BY <3>1, SourceType DEF NextFile, IOrder, TypeOK
        <5> QED
          BY <3>1, <5>1, EntryFits DEF NextFile
      <4> QED
        BY <1>0, <2>2, <3>1, <4>1 DEF NextFile, IsPast, FinalPCs
    <3>2. CASE UNCHANGED file
      BY <1>0, <2>2, <3>2 DEF IsPast
    <3> QED
      BY <3>1, <3>2, FileStep
  <2>3. result' = "YES" => file = N
    BY <1>5, ResultStep DEF IOrder, ResultOfEnd, LoopIsOver, FinalPCs
  <2> QED
    BY <1>0, <2>1, <2>2, <2>3 DEF AllWritten
<1> QED
  <2>1. pc \in PCs
    BY DEF IOrder, TypeOK
  <2> QED
    BY <2>1, <1>3, <1>4, <1>5 DEF PCs, FilePCs, FinalPCs

-----------------------------------------------------------------------------
(* The boot loader and the boot sector. *)
LoaderIsThere == installer # 0 /\ ~hasEFIBootloader => bootloader \in {"whole", "misnamed"}

BootFits ==
    /\ hasEFIBootloader => \E f \in 1..file : job.files[f].role = "efi"
    /\ pc \in {"legacy", "sector"} /\ Fine => LoaderIsThere
    /\ pc = "sector" => job.legacyBoot
    /\ result = "YES" /\ Fine => LoaderIsThere /\ (job.legacyBoot => sector = "whole")

LEMMA BootNext ==
    ASSUME IOrder, BootFits, [Next]_vars PROVE BootFits'
<1>0. job' = job /\ N' = N /\ N \in Nat /\ file \in 0..N
  BY JobNeverChanges, SourceType DEF N, IOrder, TypeOK
<1>1. Fine' => Fine
  BY FineBefore
<1>r. pc # "done" => result = "none"
  BY DEF IOrder, ResultOfEnd
<1>2. CASE NextFile
  <2>1. pc' \in {"mkdirStart", "copy", "refuse", "tempStart", "splitStart"}
    <3>1. job.files[file + 1] \in FileInfo
      BY <1>2, SourceType DEF NextFile, IOrder, TypeOK
    <3> QED
      BY <1>2, <3>1, EntryFits DEF NextFile
  <2>2. hasEFIBootloader' => \E f \in 1..file' : job'.files[f].role = "efi"
    <3>1. file + 1 \in 1..file' /\ \A f \in 1..file : f \in 1..file'
      BY <1>0, <1>2 DEF NextFile
    <3> QED
      BY <1>0, <1>2, <3>1 DEF NextFile, BootFits
  <2>3. result' = "none"
    BY <1>2, <1>r DEF NextFile
  <2> QED
    BY <2>1, <2>2, <2>3 DEF BootFits
<1>3. CASE ~NextFile /\ ~FinalStep
  <2>1. UNCHANGED <<locals, bootloader, sector>>
    BY <1>3 DEF Next, WriterStep, LoopStep, CommonErrorChecker, CreateDirectoryStart,
       CreateDirectory, CopyStep, CopyRefused, CopyStart, CopyChunk, CopyShortWrite, CopyEnds,
       ImageStep, RefuseToSplit, CreateTempDirectoryStart, CreateTempDirectory,
       SetPermissionsStart, SetPermissions, PatchStart, Patch, SplitStart, SplitProgress,
       SplitEnds, Cleanup, StartOf, ScheduleStop, vars, medium
  <2>2. LoaderIsThere' = LoaderIsThere
    BY <2>1 DEF LoaderIsThere, locals
  <2>3. pc \in {"legacy", "sector", "done"} => UNCHANGED <<pc, result>>
    BY <1>3 DEF Next, WriterStep, LoopStep, CommonErrorChecker, NextFile, CreateDirectoryStart,
       CreateDirectory, CopyStep, CopyRefused, CopyStart, CopyChunk, CopyShortWrite, CopyEnds,
       ImageStep, RefuseToSplit, CreateTempDirectoryStart, CreateTempDirectory,
       SetPermissionsStart, SetPermissions, PatchStart, Patch, SplitStart, SplitProgress,
       SplitEnds, Cleanup, StartOf, ScheduleStop, vars
  <2>4. pc \notin {"legacy", "sector", "done"} => pc' \notin {"legacy", "sector"} /\ result' # "YES"
    <3>1. ASSUME pc \in FilePCs \ {"cleanup"} PROVE pc' \notin {"legacy", "sector"}
      <4>1. CopyStep \/ (ImageStep /\ ~Cleanup) \/ CreateDirectoryStart \/ CreateDirectory
              \/ UNCHANGED pc
        BY <3>1 DEF Next, WriterStep, LoopStep, CommonErrorChecker, NextFile, FinalStep,
           LoopEnds, ExtractStart, Extract, LegacyBoot, WriteLegacyBootSector, Cleanup, FilePCs,
           ScheduleStop, vars
      <4> QED
        BY <3>1, <4>1, CopyTells, ImageTells, DirectoryTells
           DEF StaysInFile, StopsHere, Tells, FilePCs
    <3>2. ASSUME pc \in {"cleanup", "check", "loop", "extractStart", "extract"}
          PROVE  pc' \notin {"legacy", "sector"}
      <4>1. Cleanup \/ CommonErrorChecker \/ UNCHANGED pc
        BY <1>3, <3>2 DEF Next, WriterStep, LoopStep, CreateDirectoryStart,
           CreateDirectory, CopyStep, CopyRefused, CopyStart, CopyChunk, CopyShortWrite,
           CopyEnds, ImageStep, RefuseToSplit, CreateTempDirectoryStart, CreateTempDirectory,
           SetPermissionsStart, SetPermissions, PatchStart, Patch, SplitStart, SplitProgress,
           SplitEnds, StartOf, ScheduleStop, vars
      <4> QED
        BY <3>2, <4>1 DEF Cleanup, AfterCleanup, SkipOrStop, CommonErrorChecker
    <3>3. pc \notin {"legacy", "sector", "done"} => result' # "YES"
      BY <1>r, ResultStep DEF IOrder
    <3> QED
      BY <3>1, <3>2, <3>3 DEF IOrder, TypeOK, PCs, FilePCs
  <2>5. hasEFIBootloader' => \E f \in 1..file' : job'.files[f].role = "efi"
    BY <2>1 DEF locals, BootFits
  <2> QED
    BY <1>1, <1>r, <2>1, <2>2, <2>3, <2>4, <2>5 DEF BootFits, locals
<1>4. CASE FinalStep
  <2>1. UNCHANGED locals
    BY <1>4 DEF FinalStep, LoopEnds, ExtractStart, Extract, LegacyBoot, WriteLegacyBootSector
  <2>2. hasEFIBootloader' => \E f \in 1..file' : job'.files[f].role = "efi"
    BY <2>1 DEF locals, BootFits
  <2>3. UNCHANGED <<job, installer, hasEFIBootloader>>
    BY <2>1 DEF locals
  <2>4. CASE LoopEnds
    BY <1>r, <2>2, <2>3, <2>4 DEF LoopEnds, BootFits, LoaderIsThere
  <2>5. CASE ExtractStart \/ Extract
    <3>1. result' # "YES" /\ pc' # "sector"
      BY <1>r, <2>5 DEF ExtractStart, Extract, AfterExtract, CallbackAbout, Answers
    <3>2. pc' = "legacy" /\ Fine' => bootloader' \in {"whole", "misnamed"}
      <4> SUFFICES ASSUME pc' = "legacy", Fine' PROVE bootloader' \in {"whole", "misnamed"}
        OBVIOUS
      <4>1. CASE ExtractStart
        <5>1. lastAction' \in {"Continue", "Stop"}
          BY <4>1, FineCallback DEF ExtractStart
        <5> QED
          BY <4>1, <5>1 DEF ExtractStart, AfterExtract
      <4>2. CASE Extract
        BY <4>2, FineCallback DEF Extract
      <4> QED
        BY <2>5, <4>1, <4>2
    <3> QED
      BY <2>2, <3>1, <3>2 DEF BootFits, LoaderIsThere
  <2>6. CASE LegacyBoot
    <3>1. bootloader' = bootloader /\ pc = "legacy" /\ pc' \in {"sector", "done"}
          /\ (pc' = "sector" => job.legacyBoot) /\ (result' = "YES" => ~job.legacyBoot)
      BY <1>r, <2>6 DEF LegacyBoot, Then, medium
    <3> QED
      BY <1>1, <2>2, <2>3, <3>1 DEF BootFits, LoaderIsThere
  <2>7. CASE WriteLegacyBootSector
    <3>1. bootloader' = bootloader /\ pc = "sector" /\ pc' = "done"
          /\ (result' = "YES" => sector' = "whole")
      BY <1>r, <2>7 DEF WriteLegacyBootSector
    <3> QED
      BY <1>1, <2>2, <2>3, <3>1 DEF BootFits, LoaderIsThere
  <2> QED
    BY <1>4, <2>4, <2>5, <2>6, <2>7 DEF FinalStep
<1> QED
  BY <1>2, <1>3, <1>4

(* A write that returns YES without a report of a failure or of something  *)
(* skipped has left a complete medium, but for the files that lost data at *)
(* fread or fclose, for any faults.                                        *)
THEOREM CleanRunsAreComplete == Spec => []CleanRunIsComplete
<1> DEFINE IInv == /\ IOrder /\ LostBefore /\ PlanFits
                   /\ AllTold /\ AllWritten /\ BootFits
<1>1. Init => IInv
  <2> SUFFICES ASSUME Init PROVE IInv
    OBVIOUS
  <2>1. LostBefore /\ PlanFits /\ AllTold /\ AllWritten /\ BootFits
    BY DEF Init, LostBefore, BeforeCopyEnds, PlanFits, WorkPCs, AllTold, AllWritten, IsPast,
           FinalPCs, BootFits
  <2> QED
    BY <2>1, IOrderInit
<1>2. IInv /\ [Next]_vars => IInv'
  <2> SUFFICES ASSUME IInv, [Next]_vars PROVE IInv'
    OBVIOUS
  <2>1. IOrder'
    BY IOrderNext
  <2>2. LostBefore' /\ PlanFits'
    BY LostNext, PlanNext
  <2>3. AllTold' /\ AllWritten' /\ BootFits'
    BY <2>1, ToldNext, WrittenNext, BootNext
  <2> QED
    BY <2>1, <2>2, <2>3
<1>3. IInv => CleanRunIsComplete
  <2> SUFFICES ASSUME IInv, result = "YES", Fine
               PROVE  /\ \A f \in 1..N : IsWritten(f) <=> f \notin lost
                      /\ installer # 0 => HasBootloader
                      /\ job.legacyBoot => sector = "whole"
    BY DEF CleanRunIsComplete, Fine
  <2>1. \A f \in 1..N : IsWritten(f) <=> f \notin lost
    BY DEF AllWritten, WrittenUnlessLost
  <2>2. ASSUME hasEFIBootloader PROVE HasBootloader
    <3>1. PICK f \in 1..file : job.files[f].role = "efi"
      BY <2>2 DEF BootFits
    <3>2. f \in 1..N
      BY SourceType DEF IOrder, TypeOK
    <3> QED
      BY <3>1, <3>2 DEF HasBootloader
  <2>3. ASSUME installer # 0 PROVE HasBootloader
    BY <2>2, <2>3 DEF BootFits, LoaderIsThere, HasBootloader
  <2> QED
    BY <2>1, <2>3 DEF BootFits
<1> QED
  BY <1>1, <1>2, <1>3, PTL DEF Spec
=============================================================================
