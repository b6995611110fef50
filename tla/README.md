# A TLA+ model of WinDiskWriter

WinDiskWriter is a macOS application that makes bootable Windows installation
media: it erases a drive the user picks, copies the files of a Windows image to
it, patches and splits the big `install.wim` where the file system needs that,
extracts a boot loader if the image has none, and can install a legacy boot
sector. This directory holds TLA+ modules of its core logic, TLC
configurations that check them on small instances, and TLAPS proofs for every
value of the constants. Half of the repository is the library it works with
images through, `libs/wimlib`: it is compiled into the application, carries
changes of its author (`FIXED DANGEROUS CODE PART [TechUnRestricted]`), and its
`wimlib_overwrite` and `wimlib_split` are what patching and splitting an image
run through; the parts of it that write are modelled too. Paths below are
relative to `src/WinDiskWriter/`.

## The system

| Component | State | Operations | Interacts with | What is hard |
|---|---|---|---|---|
| `Windows/MainWindow` | enabled/disabled UI, start/stop button, sheets, `isScheduledForStop` | start, confirm, stop, write, failure alert | everything | two threads, blocks on the main queue, a semaphore, sheets that outlive what they ask about |
| `Classes/DiskWriter` | loop over files, chunks, temporary image, callback answers | copy, mkdir, patch, split, extract, boot sector | progress callback of MainWindow, WimlibWrapper, disk | partial failure, stop at any depth, `goto cleanup` |
| `Classes/DiskWriter/DWFilesContainer` | list of files | scan with callback | MainWindow | stop in the middle gives NULL |
| `Classes/DiskManager` | Disk Arbitration session, BSD name | list, info, erase | diskutil | BSD names are reused |
| `Classes/WimlibWrapper` | an open WIM | patch, split, extract | wimlib | three results and BOOL mixed |
| `Classes/SimpleDownloadManager` | temporary file, run loop | download with callback | MainWindow (legacy boot files) | delegate callbacks, abort with cleanup |
| `Classes/HDIUtil`, `Classes/CommandLine` | child process, pipes | attach an image | main thread | full pipes, attached images left behind |
| `AppDelegate` | menus, folders | launch, reset, restart, quit | MainWindow, HelperFunctions | reset during a write, crash leftovers |
| `Classes/HelperFunctions` | application folders | mount the source, missing boot files, privileges | all | — |
| `Classes/FrameLayout`, `Views`, `Cells`, `Windows/AboutWindow` | views | layout | — | presentation |
| `Constants`, `LocalizedStrings`, `Extensions`, … | — | — | — | tables and texts |
| `libs/wimlib`: `write.c`, `wim.c`, `integrity.c` | the file, its header, `WIMStruct`, `write_ctx` | open, overwrite in four ways | WimlibWrapper | crashes between writes, reading the file one writes, failures after changes |
| `libs/wimlib`: `compress_parallel.c`, `compress_serial.c` | two queues, messages, threads | feed chunks, get results, destroy | `write.c` | threads, condition variables, buffers used again |
| `libs/wimlib`: `update_image.c` | dentry tree, journal, orphans | add, delete, rename, commit, rollback | callers of the library | undoing a half-done overlay |
| `libs/wimlib`: `split.c` | parts, their sizes, progress | distribute, write part after part | DiskWriter, WimlibWrapper | boundaries of slices, progress over parts |
| `libs/wimlib`: compression formats, extraction, capture, mounting | — | — | — | see "Not modelled" |

What makes each of the core components correct:

- **MainWindow**: never two writes at once; a scheduled stop is not lost and
  ends the write; the background thread never waits for an answer nobody can
  give; the window is handed back after every write.
- **DiskWriter**: a write without trouble leaves a complete medium; no file is
  left out silently; the temporary image is removed on every path; no file over
  the FAT32 limit goes to a FAT32 medium; the patch works on a whole image and
  comes before the split; after a stop nothing more is written.
- **SimpleDownloadManager**: a boot file is at its place whole or not at all; an
  answer YES without the file has warned the user; a later attempt does not spoil
  what an earlier one fetched; the run loop is left on every path.
- **DiskManager**: only the device the user selected is erased and made
  bootable, although it is addressed by a name that is reused.
- **Overwriting a WIM**: an append is atomic, a rebuilt file replaces the old one
  whole or not at all even when the power goes, nothing that is kept is ever
  overwritten, a compaction does not destroy what it has still to read, a file
  whose writer died says so, and success means everything is there.
- **Chunk compressor**: chunks are written in the order they were read; each
  message has one owner; whatever fails, every thread ends and nobody waits for ever.
- **Updating an image**: all commands or none, and no dentry is lost or freed twice.
- **Splitting**: the parts together are the image, each fits, progress only grows.

## The modules

### `MainWindow` – two threads and a window

The main thread executes user events (a click, the answer to a sheet) and blocks
of the main dispatch queue, one at a time; both are actions. `-writeAction` runs
on it up to the mounted source and dispatches the rest to a thread of the
global queue, an element of `Workers`.

| Variable | Code |
|---|---|
| `mainQueue` | blocks given to `dispatch_async(dispatch_get_main_queue(), …)`, oldest first |
| `sheets` | `beginSheetModalForWindow:` calls; the first is attached, the others wait behind it |
| `mounting` | calls of `-writeAction` inside `windowsSourceMountPath` |
| `startStopButton`, `enabledUIState` | what `setEnabledUIState:` sets; the label says "Ready for action" when `enabledUIState` |
| `isScheduledForStop` | the property both threads use |
| `pc[w]` | where the block of `-writeAction` is in thread `w` |
| `resultCode[w]` | `SynchronizedAlertData`: the stored code with the signalled semaphore |
| `filesContainer[w]` | whether the scan gave a container or NULL |

`StartAction`, `StopAction` and `AnswerSheet` are the user; `DidEnd` dispatches to
the didEnd selectors and is used by `AnswerSheet` and by `DisplayFailure`, which
pushes the attached sheet away with the code of the first button
(`removeAttachedSheetWithReturnCode:`). `Exit` is the macro `WriteExitForce`,
`WriteExitConditionally` the other one. The writer is seen through its callback:
it reports failures (`CallbackFailure`), waits (`"failing"`), is answered
(`CallbackAnswered`) and returns (`StartWritingReturns`). The mount blocks the
main thread for user events, but `-[NSTask waitUntilExit]` polls the run loop,
so blocks of the main queue run meanwhile.

`EventsWait` says that the run loop drains the main queue before it delivers the
next user event. The runs take it as TRUE; with FALSE a double click could start
a second write before the UI is disabled, and `AtMostOneWrite` does fail. What
holds for either is proved (`NoAnswerIsLost`), and so is what rests on it (`OneWriteAtATime`).

### `DiskWriter` – the copy engine

One action is a piece of work together with the callback that reports it,
because the answer of the callback decides how the code goes on. `pc` names the
place in `-startWriting` or a method it calls; `file` is the index of
`currentFile`; `target` tells whether `copyFile` writes to the medium or to the
temporary folder. `dest[f]`, `slices[f]`, `temp`, `bootloader` and `sector` are what
is on the disks: `"none"`, `"part"`, `"whole"` or `"patched"`. `reports` is a history
variable: all that the callback was told. `Faults` is the set of things that may
fail; four of them the code does not notice, and two more history variables and a
content of their own keep track of these: `lost` (files on which `fread` failed, or
`fclose`, which flushes what `fwrite` has buffered and whose result is ignored),
`leftover` (the folder of a temporary image could not be removed) and the loader that
is `"misnamed"` (extracted, and not renamed). A patch of a copy that was cut leaves
it cut (`Patched`). The macros of the code are operators (`LoopThen` for
`DWCallbackHandlerLoop`, `Then` for `CallbackHandlerWithCleanup`, `CopyReturnsNO` for
what the two callers of `copyFile` do with NO). `Answers` is the callback of
`-writeAction`: Stop once a stop is scheduled, the user's choice after a failure,
Continue otherwise.

Abstracted: a size is one bit (over the FAT32 limit or not) and a number of
chunks; names are roles; what wimlib does inside a call is its result.

### `WriteInOrder` – what a write promises

The abstract specification: files are taken in their order, only the file whose
turn it is changes on the medium, nothing changes after the callback has said
Stop, and YES is returned only after the last file had its turn. `DiskWriter`
implements it (`ImplementsWriteInOrder`) with `medium[f] = <<dest[f], slices[f]>>`
and `stopped` as "the last answer was Stop".

### `DestinationDevice` – names and devices

BSD names are reused: `port[n]` is the device that has name `n` now, `appearance[n]`
its `DAAppearanceTime`, a value no earlier appearance had. `menu` holds the `DiskInfo`
records of the picker, `selected` the one of the last write. `WriteAction` compares it
with the present (`IsVerified`), `EraseDisk` and `WriteLegacyBootSector` act on the
name. `Plug` and `Unplug` are the environment, at any time. `erased` and `booted`
are the devices this write changed; `swapped` is a history variable: a device
came or went during this write.

### `SimpleDownloadManager` – the missing boot files

The loop of `-downloadLegacyBootloaderFiles` over the missing files and, in it,
`-downloadFileWithURL:` with its private run loop and the messages of its
`NSURLConnection`. `filesNeedToDownload` is a set, because the order in which a
directory is enumerated is not given; `fileName` is the one under way.

| Variable | Code |
|---|---|
| `tempFolder`, `grub4dosFolder` | the two application folders exist |
| `temporaryFile`, `destination[f]` | what is at `temporaryFilePath` and `destinationPath`: nothing, a folder, or a file of so many chunks |
| `running` | the application is launched, its folders are set up |
| `pc` | place in the loop; `"runLoop"` is inside `CFRunLoopRun` |
| `connection` | what the delegate was told so far |
| `downloadedBytesSize`, `operationSuccessful` | the fields of the same name |
| `warned`, `result` | an alert was shown; the answer of `-downloadLegacyBootloaderFiles` |
| `removed` | history: the files were removed by a reset since the loop began |
| `cutShort` | history: files whose connection was reported finished before all of them had come |

`ConnectionDidFinishLoading` can come after any part of the data: the code keeps
`expectedFileSize` but never compares it with what came. Then the part is put in place
and counts as downloaded from then on; `NoPartialFile` says that this is the only way.

`SetupBaseDirectories`, `Crash`, `Quit`, `ResetApplicationSettings` and
`OtherInstanceCleansTemp` are what happens around a download: launch, death and
end of the application, the reset of the debug menu, and the cleanup by another
instance, since all of them share one temporary folder. Each can come between
any two steps. Only one instance downloads at a time in the model, and
data the system had not flushed at a power loss are not modelled.

### `WimOverwrite` – patching, appending, compacting, rebuilding

A file is its header (`hdr`) and a row of cells, each holding one resource, a blob
table, a part of the XML data or an integrity table; `Contents` is what a reader
finds in it (`begin_read`, then every resource against its hash), `Damaged` if it
cannot.

| Variable | Code |
|---|---|
| `file` | what is at `wim->filename` and at the temporary name |
| `synced` | what of it is on the medium for certain (`fsync`) |
| `wim` | the `WIMStruct`: its header, blob table, image metadata, XML document, `image_deletion_occurred`; with what a reader found when it was opened and whether the integrity table was right |
| `stage`, `mode`, `flags` | the place in `wimlib_overwrite` and its callees, which of the four ways was taken, `write_flags` |
| `oldEnd`, `out`, `outHdr` | `old_wim_end`, `wim->out_fd.offset`, `wim->out_hdr` |
| `todo`, `written` | the blobs still to be written, the entries of the new table |
| `xmlLen`, `part`, `oldSums` | the new XML data and the next part of it; the old integrity table in memory |
| `caller`, `ret`, `opens` | `WimlibWrapper` or another user of the library, the result, a bound |

`PatchAll` is `-patchWindowsRequirementsChecks` with `-applyChanges`,
`Call` any other overwrite, after `SetImageProperty`, `UpdateImage`, `DeleteImage`
in memory. `OverwriteInPlace` and `OverwriteViaTmpfile` are the choice, and then every
write of the code is an action: the flag in the header, each resource, the table,
each part of the XML data, the checkpoint, the integrity table, the header, the
cut, the sync, the close, the rename. `Fails` is a write that fails, perhaps after
some of its data (`MaybeTorn`), with the ways back (`Truncate`, `RestoreHdr`,
`Unlink`); `Kill` is the process dying anywhere; `AfterPowerLoss` is every mixture of
synced and later data.

Abstracted: a resource is one cell with a name; the header is written at once (its
212 bytes are one `pwrite`); compaction copies resources raw; images keep their
numbers when one is deleted. Not distinguished from the rest: solid and pipable
files, recompression, split files, the `flock` of `lock_wim_for_append`.

What the model showed on the way, and why the properties have the exceptions they
have:

- `AppendIsAtomic` excepts calls with `WIMLIB_WRITE_FLAG_FSYNC`: the `fsync` comes after
  the new header, and when it fails the file is truncated to its old end although
  the header points behind it. The application never passes that flag.
- `DamageIsMarked` excepts handled failures: a patch of the XML data that fails in
  the middle restores the header with the "write in progress" flag cleared, over
  XML data of which part is new.
- A resource behind the XML data is noticed (`WIMLIB_ERR_RESOURCE_ORDER`) only if it
  belongs to the blob table or to the metadata of an image that is left and
  unchanged: `mark_image_dirty` (`metadata.h:112`) has taken the location of the metadata
  of a changed image away, so `check_resource_offsets` (`write.c:2928-2960`) passes over it.
  An append then overwrites it while the header still points to the old table, although
  the comment before that function says that no metadata resource is there. Hence the
  second exception of `AppendIsAtomic`: `OldResourcesLieBefore`, every resource the old blob
  table lists lies before the end appended from. The first file `far` is of that kind.
- A progress function that aborts after the rename turns a finished rebuild into
  an error.

### `ChunkCompressor` – threads, queues, messages

The thread that writes (`main`) and the compressor threads (`thread`) meet in
`toCompress` and `compressed`, the two `message_queue`s; `available`, `submitted`,
`nextSubmit`, `nextReady`, `nextChunk` and `msgs` are the fields of `parallel_chunk_compressor`
with like names, `started` is `num_started_threads`, `terminating` the flag of the
first queue. A put or a get is one critical section of its lock and one action;
waiting in `pthread_cond_wait` is a state (`"waiting"`) that only a signal ends.
`Feed` is `get_chunk_buffer` and `signal_chunk_filled`, `AwaitResult` and `WriteChunk` are
`get_compression_result` with `write_chunk`, `Terminate` and `Destroy` are
`parallel_chunk_compressor_destroy`, `Serial` is the compressor that takes its place
when there is no memory or no thread. `write.c` feeds a chunk, or fetches results when
there is no buffer, as `main` does. A buffer holds the number of a chunk, or `Spoilt`
after a compressor has used it as scratch space.

### `AtomicUpdate` and `UpdateImage` – an update of an image

`AtomicUpdate` is the promise: an image is a function from paths to contents, the
commands have their effect one after the other (`After`), or the outcome is an error
and the image as before; and an error only comes when a command can not be done
or memory, a source or the caller gave out. `UpdateImage` is the code: a tree of
dentries (`image`: dentries with `parent`, `name`, DOS name; `root`; `orphans`) that is changed at once,
and a journal (`prims`, the `update_primitive`s of each command) that `RollbackOne` undoes
backwards, one primitive a step. The recursion of `handle_conflict` is
`stack`. `before` and `broken` are history variables. `Shown` turns the tree into a
function from paths, and `UpdateIsAtomic` is the refinement. The application itself
never updates an image; a caller of the library it ships does.

Left out: the scan of a source (a tree or a failure), security descriptors, inode
tables, the memory of names, and cached paths. Of these the last does not
roll back: `d_full_path` is computed for dentries on the way (`update_image.c:501-504`) and a
cached path of a descendant survives an undone rename.
What `set_windows_specific_info` (885) records of the image is not journaled either.

### `WimSplit` – slices, parts, progress

`writeWindowsInstall` computes the slice (`Divide`): the number of parts is rounded up into
a `UInt8` (`PartsCount`), which wraps for a source of more than 255 times the FAT32 limit; if it
wraps to zero the division ends the program on Intel, and gives a slice of zero on Apple
silicon, which `wimlib_split` refuses (`RefuseSlice`). Nothing in the code bounds the size, so
nothing in `Init` does. `wimlib_split` adds the metadata and then one resource after the other
to the current part (`AddBlob` is `add_blob_to_swm`). The parts are in an array that is
moved when it is full, with the heads of their lists in it: `heads` says in which allocation the head
is that a list is linked to, `array` which one there is (`MoveArray`). Then each part is written with
its number and the total: first the resources that can be copied as they are (`CopyBlob`),
then those that are stored uncompressed, which `can_raw_copy` refuses and which are compressed on the way
chunk by chunk (`WriteChunk`); `Before` is that order. A part without file resources reports nothing
while it is written. `parts` is `swm_info`, `slice` `max_part_size`, `completed` `progress.split.completed_bytes`,
`bytes` what the part under way has added to it, `left` what is still to be read of each resource,
`lastPart` and `reported` are what `defaultSplitProgress` of `WimlibWrapper` keeps and passes
on; the callback may stop the split at each report. `medium` is what is written.
`PlanIsSound` is the types with what the division and the array must get right.

What the model does not contradict but a reader should know: a part has its header,
tables and XML data on top of the slice, with no margin under the FAT32 limit
(`DiskWriter.m:505`); a failure to open the image is answered as "skipped", since there is
no WIM (`WimlibWrapper.m:156`); solid images are refused by `wimlib_split`.

### Proof modules

`MainWindow_proofs`, `DiskWriter_proofs`, `DestinationDevice_proofs`,
`SimpleDownloadManager_proofs`, `WimOverwrite_proofs`, `ChunkCompressor_proofs`,
`UpdateImage_proofs` and `WimSplit_proofs` extend the modules they are named after. See
"What is proved".

## The runs

Each `.cfg` is named after its run and checked with the `MC` module of its model.

| Run | Expectation | Shows |
|---|---|---|
| `MainWindow_safety` | holds | at most one write; every failure alert can be answered; a scheduled stop is kept, also over a scan it cut off, and ends the write; the window is handed back |
| `MainWindow_ready` | violated | "Ready for action" with a dead start button |
| `DiskWriter_safety` | holds | a clean run is complete, no file is left out silently, the temporary image is removed, FAT32 is respected, success means the whole file, what goes unnoticed stays where it happened, a stop stops, the refinement of `WriteInOrder`, termination |
| `DiskWriter_announced` | violated | success is announced without the boot sector |
| `DestinationDevice_safety` | holds | unless a device comes or goes during the write only the selected one is erased, and the boot sector goes to the one that was erased |
| `DestinationDevice_swap` | violated | the device that took the name is erased |
| `SimpleDownloadManager_safety` | holds | no boot file in part but for a connection reported finished too early, a missing file is announced, files once downloaded are kept, every download ends |
| `SimpleDownloadManager_warning` | violated | a failed move is reported and the write goes on, up to erasing the drive |
| `WimOverwrite_safety` | holds | appends are atomic, rebuilds survive a power loss, success is complete, a dead writer leaves its mark, sources stay readable, data stay in place |
| `ChunkCompressor_safety` | holds | results in order, one owner for each message, everything ends |
| `UpdateImage_safety` | holds | the refinement of `AtomicUpdate`, one owner for each tree |
| `WimSplit_safety` | holds | slices fit, nothing crashes within 255 parts, parts make the image in the order of writing, progress only advances |

### Bounds

- `MainWindow`: two workers (a third adds nothing: one write at a time is itself
  checked), `MaxMounts = 2` (a second mount would be the violation), `MaxQueue = 5`
  guards user events and failures only; with `EventsWait` the queue is empty when
  an event is taken, so the bound never cuts a behaviour off there. All three
  legacy files. Nothing bounds the number of writes or failures.
- `DiskWriter`: nine sources of two to four entries – a directory, an empty file,
  a file of two chunks, one over the FAT32 limit, a boot loader before the image
  or none, wim and esd images over and under the limit, two images – with all
  sixteen combinations of file system, patch, legacy boot and privileges. Two
  chunks give a first, a middle and a last place for a stop. Every fault may occur, at
  any place and any number of times: the four that the code does not notice are part of
  what the properties say. `CleanRunIsComplete` has exactly the files in `lost` as
  incomplete and the loader as perhaps misnamed, `TempIsRemoved` excepts a folder whose
  removal failed.
- `DestinationDevice`: two names, four devices (two external sticks, an internal
  drive, a disk image), four appearances: a stick can leave, another take its
  name, the first return under either name. Names and sticks are symmetric.
- `SimpleDownloadManager`: three files of two, one and one chunks, so that a
  connection can be lost between two messages and a failure can come before,
  at and after the last file; every fault; crashes, resets and launches unbounded.
- `WimOverwrite`: a medium of 14 cells, two images of which the first is changed,
  each with a metadata and a file resource; four first files (an integrity table
  and a hole; a file resource behind the XML data; the metadata of the changed image
  there; marked read-only); 868119 distinct states. Two openings: what
  the first overwrite leaves, whole or not, is what the second starts from. XML
  data of one or two cells, so that a writer can die between two parts of it.
  Chunks of four cells for the integrity table, so that the last one is partial in
  some files and grows. Four sets of flags cover the four ways and the fsync.
- `ChunkCompressor`: three threads with one message each (code: one or two), two chunks a
  message, nine chunks: all messages go round at least once and the last is
  filled in part; two chunks do not get smaller. Every fault, and every number
  of threads that can be created.
- `UpdateImage`: up to three commands out of 18 over three names, `InlineEntries = 1` (code: 4) so that a
  command needs memory for its journal; an empty image and one of a directory with
  two files and a file; sources that overlay with every kind of conflict.
- `WimSplit`: the limit is 10, resources of 1, 5 and 12 (small, boundary,
  larger than a slice), two to four of them, any of them uncompressed, three
  sets of metadata, a source that is smaller than its resources, as large, or larger by 9;
  `ChunkSize = 5` so that a resource has one to three chunks; `PartsAtATime = 2`
  (code: 8) so that the array moves in the middle; `ByteRange = 4` (code: 256), so
  that sources of over 30 make the number of parts wrap, to zero and beyond (they go up to 69);
  1316400 distinct states.

`CHECK_DEADLOCK FALSE` is used where the system may really stop: an idle window
without an enabled button, an ended write, split, update or compression, a machine
whose appearances, or openings, are used up. `SimpleDownloadManager` is checked for
deadlock; for `ChunkCompressor` `EverythingEnds` says more.

### Fairness

`MainWindow!Fairness`: the run loop serves its queue, `hdiutil` returns, the thread
runs on, and a user faced with a sheet answers it in the end – the code itself
relies on that, it waits with `DISPATCH_TIME_FOREVER`. Nothing makes the user
click Start or Stop. `WriterEnds` (strong fairness of `StartWritingReturns`) is the
premise of `WriteHandsTheWindowBack` alone: files are finitely many, so failures are
not reported for ever. `DiskWriter!Fairness` is that the thread runs on.
That of `SimpleDownloadManager` (in `FairSpec`) is that the downloading thread runs on
and that a connection says something in the end, which its timeout of 15 seconds
enforces. That of `ChunkCompressor` is weak fairness of the writing thread and of
each compressor thread: the scheduler runs a thread that can run. Nothing is
assumed of which waiting thread a signal wakes, or of who gets a lock first.

## What is proved

`MainWindow_proofs`
: `TypeCorrect`, and `NoAnswerIsLost`: for any number of workers, of legacy files,
  with user events overtaking the main queue or not. The invariant is inductive
  together with the types; the argument follows the alert from the main queue
  to the sheets (`IsInTail`, `IsInAppend`, `IsInConcat` say what a queue holds after a
  step) and uses that a failure alert leaves the sheets only through its didEnd
  selector, which signals the semaphore (`DidEndAnswers`).

  `OneWriteAtATime` and `StopIsNotLost`, under `EventsWait`, for any number of threads and legacy
  files. The strengthening adds to the types what makes a second click too late: a
  prompt of `-startAction` is alone on the window, with an empty main queue and no write
  (`PromptIsAlone`); while a write is under way nothing in the queue gives the
  start button back, and the button says stop or the block that makes it so is still
  queued, which events wait for (`StartIsOff`); so there is one mount or one active thread
  and never both (`OneWrite`). `StopIsNotLost` adds that a scan without a container was
  stopped and that the flag is still set then (`StoppedScan`), so that no write goes on with NULL.

`DestinationDevice_proofs`
: `TypeCorrect`, `SelectedIsErased`, `BootSectorIsOnErased` and `VerifiedIsSelected`, for any names,
  devices and number of appearances. The strengthening `IInv` says that a record of
  the picker tells the truth about its name as long as the appearance time is
  the one it was taken with, which needs that recorded times never exceed the
  clock; and that what was verified or erased still has its name unless a device
  came or went.

`DiskWriter_proofs`
: for any source, any options and any faults:
  - `TypeCorrect`, together with `FileInHand`: wherever the code works on a file, its
    index is in the source.
  - `StopIsObeyed`: after an answer Stop the writer is in the cleanup of an image or
    has returned (`StopLeadsOut`), and a step from there leaves the medium alone
    (`NothingIsWritten`).
  - `LargeFilesStayOff` and `TempIsGone`: both rest on `PlaceFits`, which says for each
    place in the code what is known there of the file in hand, of the folder it goes to
    and of the temporary folder: a chunk is written only of a file within the limit, an
    image goes to the medium only if it need not be split, a copy of the temporary
    folder exists where the patch relies on it. `DestChanges` says what a step
    may do to the medium. `TempIsGone` has the folder whose removal failed as its only
    exception (`leftover`), and no assumption on the faults.
  - `WritesInOrder`: the refinement of `WriteInOrder`. `StepImplements` maps a step in the
    cleanup to a stutter or `ReturnStopped`, `NextFile` to `NextFile`, the two places that
    return YES to `ReturnYES` (`LoopIsOver`: the last file had its turn) and all else to
    `Work` (`MediumStep`: only the current file changes).

  In its second half, what the reports of a write are worth, for any source and any
  options:
  - `NoFileIsForgotten`, whatever fails: `AllTold` says that every file the loop is past
    (`IsPast`: an earlier one, or the one in hand once its branch has ended without a stop)
    was reported to the callback; the branches end in `StaysInFile`, `StopsHere` or `Tells`.
  - `CopiedIsWhole`, whatever fails: `ChunksAreThere` (while a file is
    copied its chunks up to the current one are on the medium) makes the end of
    the file mean a whole file unless something of it was lost at `fread` or `fclose` (`lost`), and
    `ReportedIsWhole` keeps it so, since no later step touches an earlier file.
  - `CleanRunsAreComplete`, whatever fails: `PlanFits` (what each place knows of the
    file in hand while nothing was reported as failed or skipped, and that the copy in hand is
    cut exactly if the file is in `lost`), `AllWritten` (a file the loop is past is on the medium as
    asked if and only if it is not in `lost`) and `BootFits` (the boot
    loader or boot sector is there if it has to be).

`SimpleDownloadManager_proofs`
: `TypeCorrect`, `NoFileIsPartial`, `MissingIsAnnounced` and `FilesAreKept`, for any files of any
  length and any faults. The strengthening `IInv` has four parts: `TransferIsWhole` (the temporary
  file, unless it was removed, holds what has come), `CutShortIsOver` (a file whose
  connection was cut short is not the one under way),
  `NeededIsMissing` (only absent files are fetched, so removing the destination takes
  nothing away) and `RestIsThere` (a file neither fetched any more nor announced is there).

`WimOverwrite_proofs`
: `Invariance`, `TypeCorrect` and `NothingKeptIsOverwritten`, for any size of the file, any files to
  begin with, any flags and faults and any number of openings: whatever fails,
  patching, appending and rebuilding leave every resource of the WIM and its blob
  table where and as they are. The strengthening `IInv` is the types, part by part
  (`FilesOK`, `WimOK`, `OutputOK`, `XmlOK`, `StagesOK`), with `KeepInv`: an open WIM has
  a table and XML data; writing in place begins at `oldEnd` and everything that is kept
  lies before it (`KeptLieBefore`, from the check `ResourceOrder` and what `OldWimEnd` is in
  each case); only a compaction is cut at the end of its output, and
  only an append is truncated to `oldEnd`. `OnwardPut` and `OnwardHdr` treat the actions
  that write a cell or a header alike.

  The second half is about what a reader finds in the file: `SourcesAreRead`, `AppendingIsAtomic`,
  `RebuildingSurvivesPowerLoss`, `DeathIsMarked` and `SuccessMeansComplete`, for any size of the
  file, any files to begin with, any flags and faults, any number of images, lengths
  of XML data, chunks of the integrity table and openings. None of the five is inductive: a
  reader follows the header to a table and the table to resources, and whether what
  is found there is right was decided many writes before. The strengthening is
  the `IInv` above with two more invariants.
  - `ReadInv` (`ContentsInvariance`) says what is in the cells. `ImagesOK`: each image of the
    `WIMStruct` has one metadata resource. `OldOK`: up to the first write, in a rebuild and
    in an append the old file reads as it did when it was opened (`Old`), and until a
    compaction begins the resources of the WIM are at their places (`Readable`).
    `TodoOK`: what is still to be copied is where it is copied from, and a
    compaction has not come further than that. `NewOK`: the entries of the new
    table, with the blobs to come, are what is wanted, each before the end of the
    output and readable there, and the table, the XML data and the header are in the
    file as soon as the stage is past them. `PathsOK` ties each stage to the modes that
    reach it. `ClosedOK` and `WrapperOK` are what a call leaves behind.
  - `SumsInv` (`SumsInvariance`) is about the integrity table: the old blob table ends before
    the end appended from and before the new one (`EndsOK`), so that the old
    integrity table, in the file and then in memory, is still right (`OldSumsOK`); then
    the chunks `OldEntryCounts` takes over have not changed, and the new table
    is right (`NewSumsOK`).

  TLC checks `IInv`, `ReadInv` and `SumsInv` as invariants of `WimOverwrite_safety` as well,
  when they are added to it.

`UpdateImage_proofs`
: `TypeCorrect` and `TreesHaveOneOwner`, for any names, any images and commands over them, any number
  of commands and any faults: wherever a command fails, no dentry that the journal, a call
  under way or another dentry points to has been freed, no tree is leaked or
  has two owners, and names in a directory stay distinct. Neither is inductive: that
  an undone link or unlink leads back to a forest with one owner for each tree depends on
  what the image was when the primitive was recorded, and that is nowhere in the state.
  The invariant `IInv` therefore says that there is a set `R` of pairs of an image and a journal
  (`Undoable`, `Safe`): the present pair is in it, with every pair the pair that undoing its
  last primitive leads to (`GoBack`), and every image in it is a forest over the same
  dentries, with an owner for each root (`Fits`). A step that records a primitive adds
  one pair to `R` (`JournalIsSafe`); a step of the rollback stays in `R`; a new
  dentry is added to every image of `R` as an orphan (`Enlarge`), which is why undoing
  a link must not forget it.
  - `Forest`: parents are there and are directories, the children of one have distinct names, and no
    set of dentries leads around in a circle (`Acyclic`, second order in the form of
    subsets: a rename below itself is refused by the test of `Ancestors`).
  - An add works on dentries that are not in the image yet. `BranchOK`, `StackOK`: what is
    left of the branch `P` lies beside the image, its roots are the branches of the calls of
    `handle_conflict` under way, and each of these is where it was in the scanned tree, under the
    one before; so putting them back (`Refuse`) and freeing the branch frees all of it and
    nothing else (`RefuseIs`). A part of the branch that is linked moves from `P` to
    the image (`GraftIsSafe`, `Replaced`).
  - `AttachOK`: the fillers an add has made lie on the way to its target, so that linking the
    branch finds its parent. `Settled`: at the end the image is a forest without orphans.

  `Get` and `Ancestors` are recursive functions over a path and over a tree; `GetUnfold` and
  `AncestorsAre` establish, by well-founded induction on sets, that they are what they are
  written to be.

`WimSplit_proofs`
: `PlanStaysSound`, `SplitIsComplete` and `ProgressGrows`, for any number of resources and metadata
  of any sizes, any of them uncompressed, any source – those whose number of parts wraps
  included –, any limit, any chunk and any growth of the array. The invariant says
  that each resource added so far is in the list of one part and the lists follow each other
  (`PartsFit`), that each list is linked to a head in the array there is (`HeadsFit`), that the size of a part is
  the sum of its resources and its metadata, that of the part under way those before the
  present one in the order of writing are on the medium and what is left of the others adds up with `bytes` to
  no more than the sum of its resources (`UnderWay`), and that a part that is finished is its whole list (`WholeList`); so no
  report exceeds the total.
  `Total` is a fold; what it does to a sequence that grows at its end, that is cut in two or
  of which one element changes, is proved by induction in `NatSetInduction`, which takes a set of
  numbers instead of an operator and rests on the well-foundedness of the naturals.

`ChunkCompressor_proofs`
: `TypeCorrect`, `ChunksInOrder` and `OneOwnerEach`, for any number of threads, of messages for
  each, of chunks in a message and of chunks at all, and any faults. The strengthening
  `IInv` has two ideas. `OwnersOK` splits the messages into free ones, the one
  being filled and the submitted ones, and these into queued, at work, compressed and
  complete; the lists have no message twice (`Distinct`) and no two threads hold the
  same one. `ChunksOK` says what the submitted messages hold: the `k`-th carries the chunks
  that follow those written and those of the messages before it (`Base + Off(k - 1)`), in
  its input until a thread has compressed it and then in its output, or still in its
  input if it did not get smaller (`Carries`); only the last may be filled in part,
  and only when nothing more is fed; what has been fed is what lies behind them
  (`Behind`). Each step either leaves this alone (`ChunksFrame`), adds a message at
  the end (`SubmitChunks`) or takes chunks from the front (`WriteChunks`).

Assumed are only the named assumptions of the modules: types of the constants; for
`WimOverwrite` also that the first files are rows of cells, in which an entry of a table
has a place in the file and the XML data are about finitely many images (`IsCell`); for
`WimSplit` that no resource is empty (`SizesAssumption`; wimlib has no blob without data);
for `UpdateImage` that the images and the sources are trees (`IsTree`): names are not empty, a file
is in a directory, no two have one path, and the root is a directory, as `read_dentry_tree`
makes sure of when it reads an image (`dentry.c:1495-1503`, `1552-1583`, `1632-1635`).
`BeginRead` asks for one metadata resource of each image (`OneForEach`); for
`MCWimOverwrite` this comes to the same as the number of them that the code compares.
`VerifiedIsSelected` (what passes the check at the start of a write is the selected
device) is a theorem only; the runs check what follows from it.

Model-checked only: liveness (TLAPS does not do `ENABLED`); and `UpdateIsAtomic`, the refinement
of `AtomicUpdate` by `UpdateImage`. What its invariant says of undoing (`Safe`: every primitive
of the journal can be undone on the forest that is there then) is half of it. The other half
is missing: that the image the undoing ends in is the one the update began with, and
that each command has the effect `After` gives it on the paths that `Shown` computes.

## Findings

The four violated runs above are disagreements between the code and what a
comment or a text of the program says; `PROJECT.json` quotes them with their lines.
Some more things were met that no run of its own shows, because nothing in the repository
claims otherwise; the properties name them as their exceptions: an append can overwrite
metadata that the header still points to (see `WimOverwrite` above), an error of `fread` looks
like the end of the file (`DiskWriter.m:303`) and one of `fclose` is not looked at (331), so that a file
is reported as copied that is not; a download whose connection is reported finished too early is put in place
(`SimpleDownloadManager.m:220-237`); an image of more than 255 parts can end the program
(`DiskWriter.m:504-505`); and a stop cuts off the file that is
being copied (`DiskWriter.m:325`) although the stop prompt says "You will need to wait until
the last file finish the copying." (`LocalizedStrings/en.lproj/Localizable.strings:36`).

## Not modelled

- `HDIUtil` with `CommandLine`: one actor waits for one child process. That a pipe can
  fill, and that an image with several entities stays attached, is plain from the
  code (`CommandLine.m:36`, `HDIUtil.m:99`).
- `AppDelegate` and `HelperFunctions` beyond folders, reset and launch: menus, the
  prompt after a crash and the restart with privileges end the process.
- Presentation: views, cells, windows, layout, texts, progress bars, log.
- `WimlibWrapper`: which files the extraction of the boot loader finds.
- wimlib: the compression formats LZX, LZMS and XPRESS are long functions from bytes
  to bytes without control; match finding, Huffman codes and bit streams show their
  problems only on inputs far larger than a model checker can go through. Extraction, export, join,
  verification and capture read a WIM that nobody changes meanwhile; a write to the
  medium sees one result of the extraction. Mounting (FUSE), the Windows and the NTFS back ends
  are compiled out on macOS (`#ifdef WITH_FUSE`, `__WIN32__`, `WITH_NTFS_3G`). These make
  up most of the lines of the repository.
- The components are not composed into one state machine: they meet in few values
  (a stop, an answer, a device name, a result), and each module takes all values the other
  side can give (`Answers` of `DiskWriter` is the callback of `MainWindow`; the writer in
  `MainWindow` is a loop that reports failures and returns).
