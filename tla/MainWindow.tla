----------------------------- MODULE MainWindow -----------------------------
(***************************************************************************)
(* One window, the main thread that runs it and the background block that  *)
(* writes the medium (Windows/MainWindow/MainWindow.m).                    *)
(*                                                                         *)
(* The main thread takes user events (a click, the answer to a sheet) and  *)
(* blocks of the main dispatch queue, one at a time.  -writeAction runs on *)
(* it up to the verified and mounted source, then hands the rest to a      *)
(* thread of the global queue (here: a worker).  The worker talks back in  *)
(* three ways: blocks put on the main queue, the isScheduledForStop flag,  *)
(* and a semaphore on which it waits for the answer to a failure alert.    *)
(*                                                                         *)
(* The DiskWriter is seen through its progress callback only (module       *)
(* DiskWriter has the engine): it reports failures, continues after "skip",*)
(* returns after "stop".                                                   *)
(***************************************************************************)
EXTENDS Naturals, Sequences, FiniteSets

CONSTANTS
    Workers,         \* threads of the global dispatch queue
    LegacyFiles,     \* number of grub4dosFileNames (the code has 3)
    MaxQueue,        \* bound of the model: no event or failure is taken when
                     \* the main queue or the sheets are this long
    MaxMounts,       \* bound of the model: nested -writeAction calls
    EventsWait       \* TRUE: the run loop drains the main queue before it
                     \* delivers the next user event

ASSUME WorkersAssumption == IsFiniteSet(Workers) /\ Workers # {}
ASSUME LegacyFilesAssumption == LegacyFiles \in Nat
ASSUME BoundsAssumption == MaxQueue \in Nat /\ MaxMounts \in Nat
ASSUME EventsWaitAssumption == EventsWait \in BOOLEAN

VARIABLES
    mainQueue,           \* blocks dispatched to the main queue, oldest first
    sheets,              \* sheets begun on the window; the first is attached
    mounting,            \* -writeAction calls inside windowsSourceMountPath
    startStopButton,     \* startStopButtonView: [enabled, action]
    enabledUIState,      \* self->_enabledUIState; the label then reads
                         \* "Ready for action"
    isScheduledForStop,  \* the flag both threads read and write
    pc,                  \* where each worker is in the block of -writeAction
    resultCode,          \* SynchronizedAlertData: code stored and semaphore
                         \* signalled ("none": neither has happened)
    filesContainer       \* FALSE: DWFilesContainer gave NULL

vars == <<mainQueue, sheets, mounting, startStopButton, enabledUIState,
          isScheduledForStop, pc, resultCode, filesContainer>>

worker == <<pc, resultCode, filesContainer>>

Codes == {"first", "second"}        \* NSAlertFirst/SecondButtonReturn

Block(what) == [what |-> what, by |-> "window"]
Enable  == Block("enable")
Disable == Block("disable")
Warning == Block("warning")
Success == Block("success")
Failure(w) == [what |-> "failure", by |-> w]

Blocks == {Enable, Disable, Warning, Success} \cup {Failure(w) : w \in Workers}

Sheet(what) == [what |-> what, by |-> "window"]
Sheets == {Sheet("start"), Sheet("grub4dos"), Sheet("stop")}
            \cup (Blocks \ {Enable, Disable})

Phases == {"idle", "download", "erase", "erased", "scan", "scanned", "write",
           "failing", "written"}

Active(w) == pc[w] # "idle"

TypeOK ==
    /\ mainQueue \in Seq(Blocks)
    /\ sheets \in Seq(Sheets)
    /\ mounting \in Nat
    /\ startStopButton \in [enabled : BOOLEAN, action : {"start", "stop"}]
    /\ enabledUIState \in BOOLEAN
    /\ isScheduledForStop \in BOOLEAN
    /\ pc \in [Workers -> Phases]
    /\ resultCode \in [Workers -> Codes \cup {"none"}]
    /\ filesContainer \in [Workers -> BOOLEAN]

-----------------------------------------------------------------------------
(* -setupViews ends with setEnabledUIState: YES; the app then waits for the *)
(* user.                                                                    *)
Init ==
    /\ mainQueue = <<Enable>>
    /\ sheets = <<>>
    /\ mounting = 0
    /\ startStopButton = [enabled |-> TRUE, action |-> "start"]
    /\ enabledUIState = FALSE
    /\ isScheduledForStop = FALSE
    /\ pc = [w \in Workers |-> "idle"]
    /\ resultCode = [w \in Workers |-> "none"]
    /\ filesContainer = [w \in Workers |-> TRUE]

(* Mutant: the UI is not disabled. *)
WithoutDisable(queue) == queue

(* setEnabledUIState: NO only puts a block on the main queue. *)
WithDisable(queue) == Append(queue, Disable)

(***************************************************************************)
(* Main thread: -writeAction up to the dispatch of the worker.  It clears  *)
(* the stop flag and dispatches the disabling of the UI first.  `queue' is *)
(* the main queue it finds.                                                *)
(***************************************************************************)
WriteAction(queue) ==
    /\ isScheduledForStop' = FALSE
    /\ \/ \* the device is gone, not a device unit, or its BSD name was reused
          /\ mainQueue' = WithDisable(queue) \o <<Warning, Enable>>
          /\ UNCHANGED mounting
       \/ /\ mounting < MaxMounts
          /\ mainQueue' = WithDisable(queue)
          /\ mounting' = mounting + 1
    /\ UNCHANGED worker

(* Mutant: the end of a mount that never began. *)
MountReturnsTwice == mounting' = mounting - 1

MountReturns ==
    /\ mounting > 0
    /\ mounting' = mounting - 1

(* hdiutil runs under -[NSTask waitUntilExit], which polls the run loop:   *)
(* blocks of the main queue run meanwhile, user events do not.             *)
MountFails ==
    /\ MountReturns
    /\ mainQueue' = mainQueue \o <<Warning, Enable>>
    /\ UNCHANGED <<sheets, startStopButton, enabledUIState,
                   isScheduledForStop, worker>>

MountSucceeds ==
    /\ MountReturns
    /\ \E w \in Workers :
         /\ ~Active(w)
         /\ pc' = [pc EXCEPT ![w] = "download"]
         /\ filesContainer' = [filesContainer EXCEPT ![w] = TRUE]
    /\ UNCHANGED <<mainQueue, sheets, startStopButton, enabledUIState,
                   isScheduledForStop, resultCode>>

-----------------------------------------------------------------------------
(***************************************************************************)
(* A sheet ends with a return code and its didEnd selector runs.  `queue'  *)
(* is the main queue, `rest' the sheets behind the ended one, `more' the   *)
(* sheet the caller begins afterwards.                                     *)
(***************************************************************************)
StartPromptDidEnd(code, queue, rest, more) ==
    \/ /\ code = "second"
       /\ sheets' = rest \o more
       /\ mainQueue' = queue
       /\ UNCHANGED <<mounting, isScheduledForStop, worker>>
    \/ \* legacy boot asked for and its files are missing
       /\ code = "first"
       /\ sheets' = Append(rest, Sheet("grub4dos")) \o more
       /\ mainQueue' = queue
       /\ UNCHANGED <<mounting, isScheduledForStop, worker>>
    \/ /\ code = "first"
       /\ sheets' = rest \o more
       /\ WriteAction(queue)

NeedToDownloadGrub4DosFilesDidEnd(code, queue, rest, more) ==
    /\ sheets' = rest \o more
    /\ \/ /\ code = "second"
          /\ mainQueue' = queue
          /\ UNCHANGED <<mounting, isScheduledForStop, worker>>
       \/ /\ code = "first"
          /\ WriteAction(queue)

StopPromptDidEnd(code, queue, rest, more) ==
    /\ sheets' = rest \o more
    /\ mainQueue' = queue
    /\ isScheduledForStop' = (isScheduledForStop \/ code = "second")
    /\ UNCHANGED <<mounting, worker>>

FailureDidEnd(w, code, queue, rest, more) ==
    /\ sheets' = rest \o more
    /\ mainQueue' = queue
    /\ resultCode' = [resultCode EXCEPT ![w] = code]
    /\ UNCHANGED <<mounting, isScheduledForStop, pc, filesContainer>>

MessageDidEnd(queue, rest, more) ==
    /\ sheets' = rest \o more
    /\ mainQueue' = queue
    /\ UNCHANGED <<mounting, isScheduledForStop, worker>>

DidEnd(sheet, code, queue, rest, more) ==
    \/ sheet.what = "start" /\ StartPromptDidEnd(code, queue, rest, more)
    \/ /\ sheet.what = "grub4dos"
       /\ NeedToDownloadGrub4DosFilesDidEnd(code, queue, rest, more)
    \/ sheet.what = "stop" /\ StopPromptDidEnd(code, queue, rest, more)
    \/ /\ sheet.what = "failure"
       /\ FailureDidEnd(sheet.by, code, queue, rest, more)
    \/ sheet.what \in {"warning", "success"} /\ MessageDidEnd(queue, rest, more)

(* Choosing "schedule" also disables the start/stop button. *)
ButtonAfter(sheet, code) ==
    IF sheet.what = "stop" /\ code = "second"
      THEN [startStopButton EXCEPT !.enabled = FALSE]
      ELSE startStopButton

-----------------------------------------------------------------------------
(* Main thread: user events.  None is delivered while -writeAction mounts. *)
EventIsDelivered ==
    /\ mounting = 0
    /\ Len(mainQueue) < MaxQueue
    /\ EventsWait => mainQueue = <<>>

(* A click on the window needs that no sheet is attached. *)
Click(action) ==
    /\ EventIsDelivered
    /\ sheets = <<>>
    /\ startStopButton = [enabled |-> TRUE, action |-> action]

(* -startAction: an empty or missing path or no device gives a warning. *)
StartAction ==
    /\ Click("start")
    /\ \/ /\ mainQueue' = mainQueue \o <<Warning, Enable>>
          /\ UNCHANGED sheets
       \/ /\ sheets' = <<Sheet("start")>>
          /\ UNCHANGED mainQueue
    /\ UNCHANGED <<mounting, startStopButton, enabledUIState,
                   isScheduledForStop, worker>>

StopAction ==
    /\ Click("stop")
    /\ sheets' = <<Sheet("stop")>>
    /\ UNCHANGED <<mainQueue, mounting, startStopButton, enabledUIState,
                   isScheduledForStop, worker>>

AnswerSheet ==
    /\ EventIsDelivered
    /\ sheets # <<>>
    /\ \E code \in Codes :
         /\ Head(sheets).what \in {"warning", "success"} => code = "first"
         /\ DidEnd(Head(sheets), code, mainQueue, Tail(sheets), <<>>)
         /\ startStopButton' = ButtonAfter(Head(sheets), code)
    /\ UNCHANGED enabledUIState

-----------------------------------------------------------------------------
(* Main thread: blocks of the main queue. *)
ButtonFor(on) ==
    [enabled |-> TRUE, action |-> IF on THEN "start" ELSE "stop"]

SetEnabledUIState(on) ==
    /\ mainQueue # <<>>
    /\ Head(mainQueue) = IF on THEN Enable ELSE Disable
    /\ mainQueue' = Tail(mainQueue)
    /\ enabledUIState' = on
    /\ startStopButton' = ButtonFor(on)
    /\ UNCHANGED <<sheets, mounting, isScheduledForStop, worker>>

DisplayMessage ==
    /\ mainQueue # <<>>
    /\ Head(mainQueue) \in {Warning, Success}
    /\ mainQueue' = Tail(mainQueue)
    /\ sheets' = Append(sheets, Head(mainQueue))
    /\ UNCHANGED <<mounting, startStopButton, enabledUIState,
                   isScheduledForStop, worker>>

(* Mutant: the alert is dropped when a sheet is attached. *)
AlertIfNoSheet == IF sheets = <<>> THEN <<Head(mainQueue)>> ELSE <<>>

AlertToBegin == <<Head(mainQueue)>>

PushedSheetCode == "first"

(* The failure block first ends the attached sheet with the first button's *)
(* code (removeAttachedSheetWithReturnCode), whatever sheet that is.       *)
DisplayFailure ==
    /\ mainQueue # <<>>
    /\ Head(mainQueue).what = "failure"
    /\ \/ /\ sheets = <<>>
          /\ sheets' = AlertToBegin
          /\ mainQueue' = Tail(mainQueue)
          /\ UNCHANGED <<mounting, startStopButton, isScheduledForStop, worker>>
       \/ /\ sheets # <<>>
          /\ DidEnd(Head(sheets), PushedSheetCode, Tail(mainQueue),
                    Tail(sheets), AlertToBegin)
          /\ startStopButton' = ButtonAfter(Head(sheets), PushedSheetCode)
    /\ UNCHANGED enabledUIState

-----------------------------------------------------------------------------
(***************************************************************************)
(* Worker: the block of -writeAction.  Exit is WriteExitForce: it puts the *)
(* enabling of the UI on the main queue, behind the given alerts.          *)
(***************************************************************************)
UnchangedByWorker ==
    UNCHANGED <<sheets, mounting, startStopButton, enabledUIState>>

GoTo(w, phase) == pc' = [pc EXCEPT ![w] = phase]

(* Mutant: the UI is not enabled again. *)
ExitWithoutEnable(w, alerts) ==
    /\ GoTo(w, "idle")
    /\ mainQueue' = mainQueue \o alerts

Exit(w, alerts) ==
    /\ GoTo(w, "idle")
    /\ mainQueue' = mainQueue \o alerts \o <<Enable>>

Warnings(n) == [i \in 1..n |-> Warning]

(* Legacy boot files, each an own download.  One that could not be moved   *)
(* to its place gives a warning and counts as downloaded; any other        *)
(* failure ends the write, without an alert if no directory can be made.   *)
Download(w) ==
    /\ pc[w] = "download"
    /\ \E n \in 0..LegacyFiles :
         \/ GoTo(w, "erase") /\ mainQueue' = mainQueue \o Warnings(n)
         \/ Exit(w, Warnings(n))
    /\ UnchangedByWorker
    /\ UNCHANGED <<isScheduledForStop, resultCode, filesContainer>>

EraseDisk(w) ==
    /\ pc[w] = "erase"
    /\ \/ GoTo(w, "erased") /\ UNCHANGED mainQueue
       \/ Exit(w, <<Warning>>)
    /\ UnchangedByWorker
    /\ UNCHANGED <<isScheduledForStop, resultCode, filesContainer>>

(* WriteExitConditionally, at the places where the block reads the flag. *)
WriteExitConditionally(w, from, to) ==
    /\ pc[w] = from
    /\ IF isScheduledForStop
         THEN Exit(w, <<>>)
         ELSE GoTo(w, to) /\ UNCHANGED mainQueue
    /\ UnchangedByWorker
    /\ UNCHANGED <<isScheduledForStop, resultCode, filesContainer>>

ExitAfterErase(w) == WriteExitConditionally(w, "erased", "scan")

ExitAfterScan(w) == WriteExitConditionally(w, "scanned", "write")

(* containerFromContainerPath asks the callback at every entry; a stop     *)
(* makes it return NULL.  A flag raised after the last entry is not seen.  *)
Scan(w) ==
    /\ pc[w] = "scan"
    /\ GoTo(w, "scanned")
    /\ \/ UNCHANGED filesContainer
       \/ /\ isScheduledForStop
          /\ filesContainer' = [filesContainer EXCEPT ![w] = FALSE]
    /\ UnchangedByWorker
    /\ UNCHANGED <<mainQueue, isScheduledForStop, resultCode>>

(* Mutant: the callback does not look at the flag first. *)
FlagIsNotRead == FALSE

CallbackSeesStop == isScheduledForStop

(* The progress callback on a failure, when no stop is scheduled. *)
CallbackFailure(w) ==
    /\ pc[w] = "write"
    /\ ~CallbackSeesStop
    /\ Len(mainQueue) < MaxQueue
    /\ GoTo(w, "failing")
    /\ resultCode' = [resultCode EXCEPT ![w] = "none"]
    /\ mainQueue' = Append(mainQueue, Failure(w))
    /\ UnchangedByWorker
    /\ UNCHANGED <<isScheduledForStop, filesContainer>>

(* dispatch_semaphore_wait, then the code decides: first is "Stop Writing".*)
CallbackAnswered(w) ==
    /\ pc[w] = "failing"
    /\ resultCode[w] # "none"
    /\ isScheduledForStop' = (isScheduledForStop \/ resultCode[w] = "first")
    /\ GoTo(w, IF resultCode[w] = "first" THEN "written" ELSE "write")
    /\ UnchangedByWorker
    /\ UNCHANGED <<mainQueue, resultCode, filesContainer>>

(* startWriting returns: the callback said stop, or there was no more to   *)
(* write.                                                                  *)
StartWritingReturns(w) ==
    /\ pc[w] = "write"
    /\ GoTo(w, "written")
    /\ UnchangedByWorker
    /\ UNCHANGED <<mainQueue, isScheduledForStop, resultCode, filesContainer>>

WriteEnds(w) ==
    /\ pc[w] = "written"
    /\ IF isScheduledForStop
         THEN Exit(w, <<>>)
         ELSE \E alert \in {Warning, Success} : Exit(w, <<alert>>)
    /\ UnchangedByWorker
    /\ UNCHANGED <<isScheduledForStop, resultCode, filesContainer>>

-----------------------------------------------------------------------------
MainQueueStep ==
    \/ \E on \in BOOLEAN : SetEnabledUIState(on)
    \/ DisplayMessage
    \/ DisplayFailure

MountStep == MountFails \/ MountSucceeds

UserEvent == StartAction \/ StopAction \/ AnswerSheet

WorkerStep(w) ==
    \/ Download(w) \/ EraseDisk(w) \/ ExitAfterErase(w)
    \/ Scan(w) \/ ExitAfterScan(w)
    \/ CallbackFailure(w) \/ CallbackAnswered(w)
    \/ StartWritingReturns(w) \/ WriteEnds(w)

Next ==
    \/ MainQueueStep
    \/ MountStep
    \/ UserEvent
    \/ \E w \in Workers : WorkerStep(w)

(***************************************************************************)
(* The run loop serves its queue, hdiutil and the worker's calls end, and  *)
(* a user faced with a sheet answers it in the end (the code waits for the *)
(* answer with DISPATCH_TIME_FOREVER).                                     *)
(***************************************************************************)
Fairness ==
    /\ WF_vars(MainQueueStep)
    /\ WF_vars(MountStep)
    /\ WF_vars(AnswerSheet)
    /\ \A w \in Workers : WF_vars(WorkerStep(w))

(* The files are finitely many: failures are not reported for ever. *)
WriterEnds == \A w \in Workers : SF_vars(StartWritingReturns(w))

Spec == Init /\ [][Next]_vars
FairSpec == Spec /\ Fairness

-----------------------------------------------------------------------------
(* Safety. *)

IsIn(x, seq) == \E i \in 1..Len(seq) : seq[i] = x

NoWrite == mounting = 0 /\ \A w \in Workers : ~Active(w)

(* At any time at most one write is under way, mounting or in a worker:    *)
(* -writeAction itself never checks that another one is running, only the  *)
(* asynchronous disabling of the UI prevents a second one.                 *)
AtMostOneWrite == mounting + Cardinality({w \in Workers : Active(w)}) <= 1

(* A worker that waits for the answer to a failure alert has its alert in  *)
(* the main queue or among the sheets, or its semaphore is signalled: the  *)
(* wait without timeout can always be ended by the user.                   *)
FailureIsShownOrAnswered ==
    \A w \in Workers :
        pc[w] = "failing" /\ resultCode[w] = "none"
            => IsIn(Failure(w), mainQueue) \/ IsIn(Failure(w), sheets)

(* When the window says "Ready for action" with nothing left to run and no *)
(* sheet to answer, the Start button can be clicked.                       *)
ReadyMeansStartable ==
    enabledUIState /\ NoWrite /\ mainQueue = <<>> /\ sheets = <<>>
        => startStopButton.enabled

(* What a step may never do. *)

(* A stop that was scheduled is never taken back while a write runs: only  *)
(* -writeAction resets the flag, and none starts over a running one.  So   *)
(* the flag still leads out of the block when a stopped scan has left it   *)
(* without a container: a write never works on NULL, which has no files    *)
(* and would end in the success alert.                                     *)
ScheduledStopIsKept ==
    [][/\ isScheduledForStop /\ ~isScheduledForStop' => NoWrite
       /\ \A w \in Workers : pc'[w] = "write" => filesContainer'[w]]_vars

(* Liveness. *)

(* A scheduled stop ends the write, even of a writer that goes on failing. *)
StopEndsTheWrite ==
    \A w \in Workers : (isScheduledForStop /\ Active(w)) ~> ~Active(w)

(* Whatever happens to a write of finitely many files, the window is       *)
(* handed back to the user.                                                *)
WriteHandsTheWindowBack ==
    WriterEnds => (~NoWrite ~> (NoWrite /\ enabledUIState))
=============================================================================
