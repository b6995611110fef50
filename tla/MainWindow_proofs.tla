--------------------------- MODULE MainWindow_proofs ---------------------------
(***************************************************************************)
(* What MainWindow keeps for any number of workers and legacy files, with  *)
(* user events overtaking the main queue or not (EventsWait), and whatever *)
(* the bounds of the model are.                                            *)
(***************************************************************************)
EXTENDS MainWindow, FiniteSetTheorems, TLAPS

(***************************************************************************)
(* Sequences: what is in a queue after something was added or taken.       *)
(***************************************************************************)
LEMMA IsInConcat ==
    ASSUME NEW S, NEW s \in Seq(S), NEW t \in Seq(S), NEW x,
           IsIn(x, s) \/ IsIn(x, t)
    PROVE  IsIn(x, s \o t)
<1>1. Len(s \o t) = Len(s) + Len(t)
  OBVIOUS
<1>2. ASSUME NEW i \in 1..Len(s), s[i] = x PROVE IsIn(x, s \o t)
  BY <1>1, <1>2 DEF IsIn
<1>3. ASSUME NEW i \in 1..Len(t), t[i] = x PROVE IsIn(x, s \o t)
  <2>1. Len(s) + i \in 1..Len(s \o t) /\ (s \o t)[Len(s) + i] = x
    BY <1>1, <1>3
  <2> QED
    BY <2>1 DEF IsIn
<1> QED
  BY <1>2, <1>3 DEF IsIn

LEMMA IsInAppend ==
    ASSUME NEW S, NEW s \in Seq(S), NEW y \in S, NEW x, IsIn(x, s) \/ x = y
    PROVE  IsIn(x, Append(s, y))
<1>1. ASSUME NEW i \in 1..Len(s), s[i] = x PROVE IsIn(x, Append(s, y))
  BY <1>1 DEF IsIn
<1>2. CASE x = y
  <2>1. Len(s) + 1 \in 1..Len(Append(s, y)) /\ Append(s, y)[Len(s) + 1] = x
    BY <1>2
  <2> QED
    BY <2>1 DEF IsIn
<1> QED
  BY <1>1, <1>2 DEF IsIn

LEMMA IsInTail ==
    ASSUME NEW S, NEW s \in Seq(S), NEW x, IsIn(x, s), x # Head(s)
    PROVE  IsIn(x, Tail(s))
<1>1. PICK i \in 1..Len(s) : s[i] = x
  BY DEF IsIn
<1>2. i # 1
  BY <1>1
<1>3. i - 1 \in 1..Len(Tail(s)) /\ Tail(s)[i - 1] = x
  BY <1>1, <1>2
<1> QED
  BY <1>3 DEF IsIn
-----------------------------------------------------------------------------
(* Blocks and sheets have their types. *)
LEMMA BlockTypes ==
    /\ {Enable, Disable, Warning, Success} \subseteq Blocks
    /\ \A w \in Workers : Failure(w) \in Blocks /\ Failure(w).what = "failure"
                                              /\ Failure(w).by = w
BY DEF Blocks, Failure

LEMMA SheetTypes ==
    /\ {Sheet("start"), Sheet("grub4dos"), Sheet("stop")} \subseteq Sheets
    /\ {Warning, Success} \subseteq Sheets
    /\ \A w \in Workers : Failure(w) \in Sheets
<1>1. \A b \in Blocks : b.what \notin {"enable", "disable"} => b \in Sheets
  BY DEF Sheets, Enable, Disable, Block
<1>2. Warning.what = "warning" /\ Success.what = "success"
  BY DEF Warning, Success, Block
<1> QED
  BY <1>1, <1>2, BlockTypes DEF Sheets

(* A block that is a failure is the failure of a worker. *)
LEMMA FailureOfWorker ==
    ASSUME NEW b \in Blocks \cup Sheets, b.what = "failure"
    PROVE  b.by \in Workers /\ b = Failure(b.by) /\ b \in Sheets
BY DEF Blocks, Sheets, Sheet, Failure, Enable, Disable, Warning, Success, Block

LEMMA WarningsType ==
    ASSUME NEW n \in Nat
    PROVE  Warnings(n) \in Seq(Blocks)
BY BlockTypes DEF Warnings

(***************************************************************************)
(* The didEnd selectors: types.                                            *)
(***************************************************************************)
DidEndType ==
    /\ mainQueue' \in Seq(Blocks)
    /\ sheets' \in Seq(Sheets)
    /\ mounting' \in Nat
    /\ isScheduledForStop' \in BOOLEAN
    /\ pc' \in [Workers -> Phases]
    /\ resultCode' \in [Workers -> Codes \cup {"none"}]
    /\ filesContainer' \in [Workers -> BOOLEAN]

LEMMA WriteActionType ==
    ASSUME TypeOK, NEW queue \in Seq(Blocks), WriteAction(queue)
    PROVE  /\ mainQueue' \in Seq(Blocks)
           /\ mounting' \in Nat
           /\ isScheduledForStop' \in BOOLEAN
           /\ UNCHANGED worker
<1>1. WithDisable(queue) \in Seq(Blocks) /\ <<Warning, Enable>> \in Seq(Blocks)
  BY BlockTypes DEF WithDisable
<1>2. WithDisable(queue) \o <<Warning, Enable>> \in Seq(Blocks)
  BY <1>1
<1>3. /\ isScheduledForStop' = FALSE
      /\ \/ mainQueue' = WithDisable(queue) \o <<Warning, Enable>> /\ mounting' = mounting
         \/ mainQueue' = WithDisable(queue) /\ mounting' = mounting + 1
      /\ UNCHANGED worker
  BY DEF WriteAction
<1>4. mounting' \in Nat
  BY <1>3 DEF TypeOK
<1>5. mainQueue' \in Seq(Blocks)
  BY <1>1, <1>2, <1>3
<1> QED
  BY <1>3, <1>4, <1>5

LEMMA DidEndHasType ==
    ASSUME TypeOK,
           NEW sheet \in Sheets, NEW code \in Codes,
           NEW queue \in Seq(Blocks), NEW rest \in Seq(Sheets),
           NEW more \in Seq(Sheets),
           DidEnd(sheet, code, queue, rest, more)
    PROVE  DidEndType
<1> USE DEF DidEndType, worker
<1>1. /\ rest \o more \in Seq(Sheets)
      /\ Append(rest, Sheet("grub4dos")) \in Seq(Sheets)
      /\ Append(rest, Sheet("grub4dos")) \o more \in Seq(Sheets)
  BY SheetTypes
<1>2. CASE StartPromptDidEnd(code, queue, rest, more)
  <2>1. CASE WriteAction(queue)
    BY <1>1, <1>2, <2>1, WriteActionType DEF StartPromptDidEnd, TypeOK
  <2> QED
    BY <1>1, <1>2, <2>1 DEF StartPromptDidEnd, TypeOK
<1>3. CASE NeedToDownloadGrub4DosFilesDidEnd(code, queue, rest, more)
  <2>1. CASE WriteAction(queue)
    BY <1>1, <1>3, <2>1, WriteActionType
       DEF NeedToDownloadGrub4DosFilesDidEnd, TypeOK
  <2> QED
    BY <1>1, <1>3, <2>1 DEF NeedToDownloadGrub4DosFilesDidEnd, TypeOK
<1>4. CASE StopPromptDidEnd(code, queue, rest, more)
  BY <1>1, <1>4 DEF StopPromptDidEnd, TypeOK
<1>5. CASE sheet.what = "failure" /\ FailureDidEnd(sheet.by, code, queue, rest, more)
  BY <1>1, <1>5, FailureOfWorker DEF FailureDidEnd, TypeOK
<1>6. CASE MessageDidEnd(queue, rest, more)
  BY <1>1, <1>6 DEF MessageDidEnd, TypeOK
<1> QED
  BY <1>2, <1>3, <1>4, <1>5, <1>6 DEF DidEnd

LEMMA ButtonAfterType ==
    ASSUME TypeOK, NEW sheet, NEW code
    PROVE  ButtonAfter(sheet, code) \in [enabled : BOOLEAN, action : {"start", "stop"}]
BY DEF ButtonAfter, TypeOK
-----------------------------------------------------------------------------
(* Every variable has its type, whatever the user and the threads do. *)
THEOREM TypeCorrect == Spec => []TypeOK
<1>1. Init => TypeOK
  <2> SUFFICES ASSUME Init PROVE TypeOK
    OBVIOUS
  <2>1. mainQueue \in Seq(Blocks)
    BY BlockTypes DEF Init
  <2>2. sheets \in Seq(Sheets) /\ mounting \in Nat
    BY DEF Init
  <2>3. /\ startStopButton \in [enabled : BOOLEAN, action : {"start", "stop"}]
        /\ enabledUIState \in BOOLEAN /\ isScheduledForStop \in BOOLEAN
    BY DEF Init
  <2>4. /\ pc \in [Workers -> Phases]
        /\ resultCode \in [Workers -> Codes \cup {"none"}]
        /\ filesContainer \in [Workers -> BOOLEAN]
    BY DEF Init, Phases
  <2> QED
    BY <2>1, <2>2, <2>3, <2>4 DEF TypeOK
<1>2. TypeOK /\ [Next]_vars => TypeOK'
  <2> SUFFICES ASSUME TypeOK, [Next]_vars PROVE TypeOK'
    OBVIOUS
  <2> USE DEF worker
  <2>1. ASSUME NEW on \in BOOLEAN, SetEnabledUIState(on) PROVE TypeOK'
    BY <2>1 DEF SetEnabledUIState, ButtonFor, TypeOK
  <2>2. CASE DisplayMessage
    <3>1. Head(mainQueue) \in Sheets
      BY <2>2, SheetTypes DEF DisplayMessage
    <3> QED
      BY <2>2, <3>1 DEF DisplayMessage, TypeOK
  <2>3. CASE DisplayFailure
    <3>1. Head(mainQueue) \in Blocks /\ Tail(mainQueue) \in Seq(Blocks)
      BY <2>3 DEF DisplayFailure, TypeOK
    <3>2. AlertToBegin \in Seq(Sheets)
      BY <2>3, <3>1, FailureOfWorker DEF DisplayFailure, AlertToBegin
    <3>3. CASE sheets = <<>>
      BY <2>3, <3>1, <3>2, <3>3 DEF DisplayFailure, TypeOK
    <3>4. CASE sheets # <<>>
      <4>1. Head(sheets) \in Sheets /\ Tail(sheets) \in Seq(Sheets)
        BY <3>4 DEF TypeOK
      <4>2. DidEndType
        BY <2>3, <3>1, <3>2, <3>4, <4>1, DidEndHasType
           DEF DisplayFailure, PushedSheetCode, Codes
      <4> QED
        BY <2>3, <3>4, <4>2, ButtonAfterType DEF DisplayFailure, DidEndType, TypeOK
    <3> QED
      BY <3>3, <3>4
  <2>4. CASE MountFails
    BY <2>4, BlockTypes DEF MountFails, MountReturns, TypeOK
  <2>5. CASE MountSucceeds
    BY <2>5 DEF MountSucceeds, MountReturns, Phases, TypeOK
  <2>6. CASE StartAction
    <3>1. mainQueue \o <<Warning, Enable>> \in Seq(Blocks)
      BY BlockTypes DEF TypeOK
    <3>2. mainQueue' \in Seq(Blocks) /\ sheets' \in Seq(Sheets)
      <4>1. <<Sheet("start")>> \in Seq(Sheets)
        BY SheetTypes
      <4>2. mainQueue \in Seq(Blocks) /\ sheets \in Seq(Sheets)
        BY DEF TypeOK
      <4> QED
        BY <2>6, <3>1, <4>1, <4>2 DEF StartAction
    <3> QED
      BY <2>6, <3>2 DEF StartAction, TypeOK
  <2>7. CASE StopAction
    BY <2>7, SheetTypes DEF StopAction, TypeOK
  <2>8. CASE AnswerSheet
    <3>1. Head(sheets) \in Sheets /\ Tail(sheets) \in Seq(Sheets) /\ sheets # <<>>
      BY <2>8 DEF AnswerSheet, TypeOK
    <3>2. PICK code \in Codes :
            /\ DidEnd(Head(sheets), code, mainQueue, Tail(sheets), <<>>)
            /\ startStopButton' = ButtonAfter(Head(sheets), code)
      BY <2>8 DEF AnswerSheet
    <3>3. mainQueue \in Seq(Blocks) /\ <<>> \in Seq(Sheets)
      BY DEF TypeOK
    <3>4. DidEndType
      BY <3>1, <3>2, <3>3, DidEndHasType
    <3> QED
      BY <2>8, <3>2, <3>4, ButtonAfterType DEF AnswerSheet, DidEndType, TypeOK
  <2>9. ASSUME NEW w \in Workers, WorkerStep(w) PROVE TypeOK'
    <3> USE DEF UnchangedByWorker, GoTo, Phases
    <3>1. <<Enable>> \in Seq(Blocks) /\ <<Warning>> \in Seq(Blocks)
            /\ <<Success>> \in Seq(Blocks) /\ <<>> \in Seq(Blocks)
            /\ Failure(w) \in Blocks
      BY BlockTypes
    <3>2. ASSUME NEW alerts \in Seq(Blocks), Exit(w, alerts)
          PROVE  /\ mainQueue' \in Seq(Blocks)
                 /\ pc' \in [Workers -> Phases]
      BY <3>1, <3>2 DEF Exit, TypeOK
    <3>3. CASE Download(w)
      <4>1. PICK n \in 0..LegacyFiles :
              \/ GoTo(w, "erase") /\ mainQueue' = mainQueue \o Warnings(n)
              \/ Exit(w, Warnings(n))
        BY <3>3 DEF Download
      <4>2. Warnings(n) \in Seq(Blocks)
        BY WarningsType, LegacyFilesAssumption
      <4>3. mainQueue' \in Seq(Blocks) /\ pc' \in [Workers -> Phases]
        <5>1. CASE Exit(w, Warnings(n))
          BY <3>2, <4>2, <5>1
        <5>2. CASE GoTo(w, "erase") /\ mainQueue' = mainQueue \o Warnings(n)
          BY <4>2, <5>2 DEF TypeOK
        <5> QED
          BY <4>1, <5>1, <5>2
      <4> QED
        BY <3>3, <4>3 DEF Download, TypeOK
    <3>4. CASE EraseDisk(w)
      BY <3>1, <3>2, <3>4 DEF EraseDisk, TypeOK
    <3>5. ASSUME NEW from, NEW to \in Phases, WriteExitConditionally(w, from, to)
          PROVE  TypeOK'
      <4>1. mainQueue' \in Seq(Blocks) /\ pc' \in [Workers -> Phases]
        <5>1. CASE Exit(w, <<>>)
          BY <3>1, <3>2, <5>1
        <5>2. CASE GoTo(w, to) /\ UNCHANGED mainQueue
          BY <3>5, <5>2 DEF TypeOK
        <5> QED
          BY <3>5, <5>1, <5>2 DEF WriteExitConditionally
      <4> QED
        BY <3>5, <4>1 DEF WriteExitConditionally, TypeOK
    <3>6. CASE Scan(w)
      BY <3>6 DEF Scan, TypeOK
    <3>7. CASE CallbackFailure(w)
      BY <3>1, <3>7 DEF CallbackFailure, Codes, TypeOK
    <3>8. CASE CallbackAnswered(w)
      BY <3>8 DEF CallbackAnswered, TypeOK
    <3>9. CASE StartWritingReturns(w)
      BY <3>9 DEF StartWritingReturns, TypeOK
    <3>10. CASE WriteEnds(w)
      BY <3>1, <3>2, <3>10 DEF WriteEnds, TypeOK
    <3> QED
      BY <2>9, <3>3, <3>4, <3>5, <3>6, <3>7, <3>8, <3>9, <3>10
         DEF WorkerStep, ExitAfterErase, ExitAfterScan
  <2>10. CASE UNCHANGED vars
    BY <2>10 DEF vars, TypeOK
  <2> QED
    BY <2>1, <2>2, <2>3, <2>4, <2>5, <2>6, <2>7, <2>8, <2>9, <2>10
       DEF Next, MainQueueStep, MountStep, UserEvent
<1> QED
  BY <1>1, <1>2, PTL DEF Spec
-----------------------------------------------------------------------------
(***************************************************************************)
(* The answer to a failure.  FailureIsShownOrAnswered is inductive: its    *)
(* alert moves from the main queue to the sheets, and a sheet is taken off *)
(* only by its didEnd selector, which signals the semaphore.               *)
(***************************************************************************)
IsWaiting(w) == pc[w] = "failing" /\ resultCode[w] = "none"
IsOnItsWay(w) == IsIn(Failure(w), mainQueue) \/ IsIn(Failure(w), sheets)

(* writeAction only adds to the main queue. *)
LEMMA WriteActionKeepsQueue ==
    ASSUME TypeOK, NEW queue \in Seq(Blocks), WriteAction(queue), NEW x,
           IsIn(x, queue)
    PROVE  IsIn(x, mainQueue')
<1>1. WithDisable(queue) \in Seq(Blocks) /\ IsIn(x, WithDisable(queue))
  BY BlockTypes, IsInAppend DEF WithDisable
<1>2. IsIn(x, WithDisable(queue) \o <<Warning, Enable>>)
  <2>1. <<Warning, Enable>> \in Seq(Blocks)
    BY BlockTypes
  <2> QED
    BY <1>1, <2>1, IsInConcat
<1> QED
  BY <1>1, <1>2 DEF WriteAction

LEMMA DidEndKeepsQueue ==
    ASSUME TypeOK, NEW sheet, NEW code, NEW queue \in Seq(Blocks), NEW rest,
           NEW more, DidEnd(sheet, code, queue, rest, more), NEW x,
           IsIn(x, queue)
    PROVE  IsIn(x, mainQueue')
BY WriteActionKeepsQueue
   DEF DidEnd, StartPromptDidEnd, NeedToDownloadGrub4DosFilesDidEnd,
       StopPromptDidEnd, FailureDidEnd, MessageDidEnd

LEMMA DidEndKeepsSheets ==
    ASSUME NEW sheet, NEW code, NEW queue, NEW rest \in Seq(Sheets),
           NEW more \in Seq(Sheets), DidEnd(sheet, code, queue, rest, more),
           NEW x, IsIn(x, rest) \/ IsIn(x, more)
    PROVE  IsIn(x, sheets')
<1>1. Append(rest, Sheet("grub4dos")) \in Seq(Sheets)
  BY SheetTypes
<1>2. IsIn(x, Append(rest, Sheet("grub4dos"))) \/ IsIn(x, more)
  BY SheetTypes, IsInAppend
<1>3. IsIn(x, rest \o more) /\ IsIn(x, Append(rest, Sheet("grub4dos")) \o more)
  BY <1>1, <1>2, IsInConcat
<1> QED
  BY <1>3
     DEF DidEnd, StartPromptDidEnd, NeedToDownloadGrub4DosFilesDidEnd,
         StopPromptDidEnd, FailureDidEnd, MessageDidEnd

(* The end of a sheet moves no worker and never takes an answer back; the  *)
(* end of a failure alert answers it.                                      *)
LEMMA DidEndAnswers ==
    ASSUME TypeOK, NEW sheet \in Sheets, NEW code \in Codes, NEW queue, NEW rest,
           NEW more, DidEnd(sheet, code, queue, rest, more), NEW w \in Workers
    PROVE  /\ pc' = pc
           /\ resultCode'[w] = "none" => resultCode[w] = "none"
           /\ resultCode'[w] = "none" => sheet # Failure(w)
<1>1. Failure(w).what = "failure" /\ Failure(w).by = w
  BY BlockTypes
<1>2. CASE sheet.what = "failure" /\ FailureDidEnd(sheet.by, code, queue, rest, more)
  BY <1>1, <1>2, FailureOfWorker DEF FailureDidEnd, TypeOK, Codes
<1>3. CASE sheet.what # "failure" /\ UNCHANGED worker
  BY <1>1, <1>3 DEF worker
<1> QED
  BY <1>2, <1>3
     DEF DidEnd, StartPromptDidEnd, NeedToDownloadGrub4DosFilesDidEnd,
         StopPromptDidEnd, MessageDidEnd, WriteAction, worker

LEMMA SheetEndKeepsAlerts ==
    ASSUME TypeOK, sheets # <<>>, NEW code \in Codes, NEW queue \in Seq(Blocks),
           NEW more \in Seq(Sheets),
           DidEnd(Head(sheets), code, queue, Tail(sheets), more),
           NEW w \in Workers, IsWaiting(w)',
           \/ IsIn(Failure(w), queue)
           \/ IsIn(Failure(w), sheets)
           \/ IsIn(Failure(w), more)
    PROVE  IsOnItsWay(w)'
<1>1. Head(sheets) \in Sheets /\ Tail(sheets) \in Seq(Sheets) /\ sheets \in Seq(Sheets)
  BY DEF TypeOK
<1>2. Head(sheets) # Failure(w)
  BY <1>1, DidEndAnswers DEF IsWaiting
<1>3. IsIn(Failure(w), sheets) => IsIn(Failure(w), Tail(sheets))
  BY <1>1, <1>2, IsInTail
<1>4. IsIn(Failure(w), queue) => IsIn(Failure(w), mainQueue')
  BY DidEndKeepsQueue
<1>5. IsIn(Failure(w), Tail(sheets)) \/ IsIn(Failure(w), more)
        => IsIn(Failure(w), sheets')
  BY <1>1, DidEndKeepsSheets
<1>6. Failure(w)' = Failure(w)
  BY DEF Failure
<1> QED
  BY <1>3, <1>4, <1>5, <1>6 DEF IsOnItsWay, IsIn
(* A worker waits with no timeout for the answer to its failure alert: the *)
(* alert is in the main queue or on the window until the semaphore is      *)
(* signalled, in whatever order events, blocks and workers take turns.     *)
THEOREM NoAnswerIsLost == Spec => []FailureIsShownOrAnswered
<1> DEFINE Inv == \A w \in Workers : IsWaiting(w) => IsOnItsWay(w)
<1>1. Init => Inv
  BY DEF Init, IsWaiting
<1>2. TypeOK /\ TypeOK' /\ Inv /\ [Next]_vars => Inv'
  <2> SUFFICES ASSUME TypeOK, TypeOK', Inv, [Next]_vars,
                      NEW w \in Workers, IsWaiting(w)'
               PROVE  IsOnItsWay(w)'
    BY DEF IsWaiting
  <2>0. mainQueue \in Seq(Blocks) /\ sheets \in Seq(Sheets) /\ Failure(w)' = Failure(w)
    BY DEF TypeOK, Failure
  <2> DEFINE Kept == /\ IsIn(Failure(w), mainQueue) => IsIn(Failure(w), mainQueue')
                     /\ IsIn(Failure(w), sheets) => IsIn(Failure(w), sheets')
  <2>1. ASSUME Kept, IsOnItsWay(w) PROVE IsOnItsWay(w)'
    BY <2>0, <2>1 DEF IsOnItsWay, IsIn
  <2>2. ASSUME UNCHANGED worker PROVE IsOnItsWay(w)
    BY <2>2 DEF worker, IsWaiting
  <2>3. ASSUME UNCHANGED <<pc, resultCode>> PROVE IsOnItsWay(w)
    BY <2>3 DEF IsWaiting
  <2>4. ASSUME NEW s \in Seq(Blocks), mainQueue' = mainQueue \o s PROVE
               IsIn(Failure(w), mainQueue) => IsIn(Failure(w), mainQueue')
    BY <2>0, <2>4, IsInConcat
  <2>5. ASSUME NEW on \in BOOLEAN, SetEnabledUIState(on) PROVE IsOnItsWay(w)'
    <3>1. Head(mainQueue) # Failure(w)
      BY <2>5, BlockTypes DEF SetEnabledUIState, Enable, Disable, Block
    <3>2. Kept
      BY <2>0, <2>5, <3>1, IsInTail DEF SetEnabledUIState
    <3> QED
      BY <2>1, <2>2, <2>5, <3>2 DEF SetEnabledUIState
  <2>6. CASE DisplayMessage
    <3>1. Head(mainQueue) # Failure(w) /\ Head(mainQueue) \in Sheets
      BY <2>6, BlockTypes, SheetTypes DEF DisplayMessage, Warning, Success, Block
    <3>2. Kept
      BY <2>0, <2>6, <3>1, IsInTail, IsInAppend DEF DisplayMessage
    <3> QED
      BY <2>1, <2>2, <2>6, <3>2 DEF DisplayMessage
  <2>7. CASE DisplayFailure
    <3>1. /\ Head(mainQueue) \in Sheets /\ Tail(mainQueue) \in Seq(Blocks)
          /\ AlertToBegin \in Seq(Sheets)
      BY <2>0, <2>7, FailureOfWorker DEF DisplayFailure, AlertToBegin
    <3>2. IsIn(Failure(w), mainQueue)
            => IsIn(Failure(w), Tail(mainQueue)) \/ IsIn(Failure(w), AlertToBegin)
      <4>1. Failure(w) = Head(mainQueue) => IsIn(Failure(w), AlertToBegin)
        BY DEF AlertToBegin, IsIn
      <4> QED
        BY <2>0, <4>1, IsInTail
    <3>3. CASE sheets = <<>>
      <4>1. IsOnItsWay(w) /\ ~IsIn(Failure(w), sheets)
        BY <2>2, <2>7, <3>3 DEF DisplayFailure, IsIn
      <4> QED
        BY <2>0, <2>7, <3>2, <3>3, <4>1 DEF DisplayFailure, IsOnItsWay, IsIn
    <3>4. CASE sheets # <<>>
      <4>1. DidEnd(Head(sheets), PushedSheetCode, Tail(mainQueue), Tail(sheets),
                   AlertToBegin)
        BY <2>7, <3>4 DEF DisplayFailure
      <4>2. Head(sheets) \in Sheets /\ PushedSheetCode \in Codes
        BY <2>0, <3>4 DEF PushedSheetCode, Codes
      <4>3. IsOnItsWay(w)
        BY <4>1, <4>2, DidEndAnswers DEF IsWaiting
      <4> QED
        BY <3>1, <3>2, <3>4, <4>1, <4>2, <4>3, SheetEndKeepsAlerts DEF IsOnItsWay
    <3> QED
      BY <3>3, <3>4
  <2>8. CASE AnswerSheet
    <3>1. PICK code \in Codes :
            DidEnd(Head(sheets), code, mainQueue, Tail(sheets), <<>>)
      BY <2>8 DEF AnswerSheet
    <3>2. sheets # <<>> /\ Head(sheets) \in Sheets /\ <<>> \in Seq(Sheets)
      BY <2>0, <2>8 DEF AnswerSheet
    <3>3. IsOnItsWay(w)
      BY <3>1, <3>2, DidEndAnswers DEF IsWaiting
    <3> QED
      BY <2>0, <3>1, <3>2, <3>3, SheetEndKeepsAlerts DEF IsOnItsWay
  <2>9. CASE MountFails \/ MountSucceeds
    <3>1. Kept
      <4>1. <<Warning, Enable>> \in Seq(Blocks)
        BY BlockTypes
      <4>2. UNCHANGED mainQueue \/ mainQueue' = mainQueue \o <<Warning, Enable>>
        BY <2>9 DEF MountFails, MountSucceeds
      <4>3. IsIn(Failure(w), mainQueue) => IsIn(Failure(w), mainQueue')
        BY <2>0, <4>1, <4>2, IsInConcat
      <4>4. UNCHANGED sheets
        BY <2>9 DEF MountFails, MountSucceeds
      <4> QED
        BY <4>3, <4>4
    <3>2. IsOnItsWay(w)
      <4>1. CASE MountFails
        BY <2>2, <4>1 DEF MountFails
      <4>2. CASE MountSucceeds
        BY <4>2 DEF MountSucceeds, IsWaiting, TypeOK
      <4> QED
        BY <2>9, <4>1, <4>2
    <3> QED
      BY <2>1, <3>1, <3>2
  <2>10. CASE StartAction \/ StopAction
    <3>1. Kept
      <4>1. sheets = <<>> /\ ~IsIn(Failure(w), sheets)
        BY <2>10 DEF StartAction, StopAction, Click, IsIn
      <4>2. <<Warning, Enable>> \in Seq(Blocks)
        BY BlockTypes
      <4>3. UNCHANGED mainQueue \/ mainQueue' = mainQueue \o <<Warning, Enable>>
        BY <2>10 DEF StartAction, StopAction
      <4>4. IsIn(Failure(w), mainQueue) => IsIn(Failure(w), mainQueue')
        BY <2>0, <4>2, <4>3, IsInConcat
      <4> QED
        BY <4>1, <4>4
    <3> QED
      BY <2>1, <2>2, <2>10, <3>1 DEF StartAction, StopAction
  <2>11. ASSUME NEW v \in Workers, WorkerStep(v) PROVE IsOnItsWay(w)'
    <3> USE DEF UnchangedByWorker, GoTo
    <3>1. ASSUME NEW alerts \in Seq(Blocks), Exit(v, alerts)
          PROVE  IsIn(Failure(w), mainQueue) => IsIn(Failure(w), mainQueue')
      <4>1. alerts \o <<Enable>> \in Seq(Blocks) /\ <<Enable>> \in Seq(Blocks)
        BY BlockTypes
      <4>2. mainQueue' = mainQueue \o alerts \o <<Enable>>
        BY <3>1 DEF Exit
      <4>3. mainQueue \o alerts \in Seq(Blocks)
        BY <2>0, <3>1
      <4>4. IsIn(Failure(w), mainQueue) => IsIn(Failure(w), mainQueue \o alerts)
        BY <2>0, <3>1, IsInConcat
      <4> QED
        BY <4>1, <4>2, <4>3, <4>4, IsInConcat
    <3>2. ASSUME pc' \in [Workers -> Phases], pc'[v] # "failing",
                 \A u \in Workers : u # v => pc'[u] = pc[u],
                 UNCHANGED <<resultCode, sheets>>,
                 IsIn(Failure(w), mainQueue) => IsIn(Failure(w), mainQueue')
          PROVE  IsOnItsWay(w)'
      BY <2>1, <3>2 DEF IsWaiting
    <3>3. CASE CallbackFailure(v)
      <4>1. Failure(v) \in Blocks
        BY BlockTypes
      <4>2. CASE v = w
        BY <2>0, <3>3, <4>1, <4>2, IsInAppend DEF CallbackFailure, IsOnItsWay, IsIn
      <4>3. CASE v # w
        <5>1. Kept
          BY <2>0, <3>3, <4>1, IsInAppend DEF CallbackFailure
        <5>2. IsOnItsWay(w)
          BY <3>3, <4>3 DEF CallbackFailure, IsWaiting, TypeOK
        <5> QED
          BY <2>1, <5>1, <5>2
      <4> QED
        BY <4>2, <4>3
    <3>4. CASE Download(v)
      <4>1. PICK n \in 0..LegacyFiles :
              \/ GoTo(v, "erase") /\ mainQueue' = mainQueue \o Warnings(n)
              \/ Exit(v, Warnings(n))
        BY <3>4 DEF Download
      <4>2. Warnings(n) \in Seq(Blocks)
        BY WarningsType, LegacyFilesAssumption
      <4>3. IsIn(Failure(w), mainQueue) => IsIn(Failure(w), mainQueue')
        BY <2>4, <3>1, <4>1, <4>2
      <4>4. pc' = [pc EXCEPT ![v] = "erase"] \/ pc' = [pc EXCEPT ![v] = "idle"]
        BY <4>1 DEF Exit
      <4> QED
        BY <3>2, <3>4, <4>3, <4>4 DEF Download, TypeOK
    <3>5. <<>> \in Seq(Blocks) /\ <<Warning>> \in Seq(Blocks) /\ <<Success>> \in Seq(Blocks)
      BY BlockTypes
    <3>6. CASE EraseDisk(v)
      <4>1. IsIn(Failure(w), mainQueue) => IsIn(Failure(w), mainQueue')
        BY <3>1, <3>5, <3>6 DEF EraseDisk
      <4>2. pc' = [pc EXCEPT ![v] = "erased"] \/ pc' = [pc EXCEPT ![v] = "idle"]
        BY <3>6 DEF EraseDisk, Exit
      <4> QED
        BY <3>2, <3>6, <4>1, <4>2 DEF EraseDisk, TypeOK
    <3>7. ASSUME NEW from, NEW to \in Phases \ {"failing"},
                 WriteExitConditionally(v, from, to)
          PROVE  IsOnItsWay(w)'
      <4>1. IsIn(Failure(w), mainQueue) => IsIn(Failure(w), mainQueue')
        BY <3>1, <3>5, <3>7 DEF WriteExitConditionally
      <4>2. pc' = [pc EXCEPT ![v] = to] \/ pc' = [pc EXCEPT ![v] = "idle"]
        BY <3>7 DEF WriteExitConditionally, Exit
      <4> QED
        BY <3>2, <3>7, <4>1, <4>2 DEF WriteExitConditionally, TypeOK
    <3>8. CASE Scan(v) \/ StartWritingReturns(v)
      BY <3>2, <3>8 DEF Scan, StartWritingReturns, TypeOK
    <3>9. CASE CallbackAnswered(v)
      BY <3>2, <3>9 DEF CallbackAnswered, TypeOK
    <3>10. CASE WriteEnds(v)
      <4>1. IsIn(Failure(w), mainQueue) => IsIn(Failure(w), mainQueue')
        BY <3>1, <3>5, <3>10 DEF WriteEnds
      <4>2. pc' = [pc EXCEPT ![v] = "idle"]
        BY <3>10 DEF WriteEnds, Exit
      <4> QED
        BY <3>2, <3>10, <4>1, <4>2 DEF WriteEnds, TypeOK
    <3> QED
      BY <2>11, <3>3, <3>4, <3>6, <3>7, <3>8, <3>9, <3>10
         DEF WorkerStep, ExitAfterErase, ExitAfterScan, Phases
  <2>12. CASE UNCHANGED vars
    BY <2>1, <2>2, <2>12 DEF vars, worker
  <2> QED
    BY <2>5, <2>6, <2>7, <2>8, <2>9, <2>10, <2>11, <2>12
       DEF Next, MainQueueStep, MountStep, UserEvent
<1>3. Inv => FailureIsShownOrAnswered
  BY DEF FailureIsShownOrAnswered, IsWaiting, IsOnItsWay
<1> QED
  BY <1>1, <1>2, <1>3, TypeCorrect, PTL DEF Spec

(***************************************************************************)
(* Why no second write is begun over a running one, although -writeAction  *)
(* does not look for one: the order of the main queue, for any number of   *)
(* workers, as long as user events wait for the main queue (EventsWait).   *)
(***************************************************************************)
(* A sheet whose answer may call -writeAction. *)
IsPrompt(sheet) == sheet.what \in {"start", "grub4dos"}

HasNoPrompt(seq) == \A i \in 1..Len(seq) : ~IsPrompt(seq[i])

(* Such a sheet is the only thing left to do. *)
PromptIsAlone ==
    HasNoPrompt(sheets) \/ (Len(sheets) = 1 /\ mainQueue = <<>> /\ NoWrite)

(* While a write is under way the button does not start another one, or    *)
(* the block that changes it is in the main queue, and none that changes   *)
(* it back.                                                                *)
StartIsOff ==
    NoWrite \/ /\ ~IsIn(Enable, mainQueue)
               /\ startStopButton.action = "stop" \/ IsIn(Disable, mainQueue)

OneWrite ==
    /\ mounting <= 1
    /\ mounting > 0 => \A w \in Workers : ~Active(w)
    /\ \A v, w \in Workers : Active(v) /\ Active(w) => v = w

OneWriteInv == TypeOK /\ PromptIsAlone /\ StartIsOff /\ OneWrite

-----------------------------------------------------------------------------
(* What is not in a queue after something else was added or taken. *)
LEMMA NotInConcat ==
    ASSUME NEW S, NEW s \in Seq(S), NEW t \in Seq(S), NEW x,
           ~IsIn(x, s), ~IsIn(x, t)
    PROVE  ~IsIn(x, s \o t)
<1> SUFFICES ASSUME NEW i \in 1..Len(s \o t), (s \o t)[i] = x PROVE FALSE
  BY DEF IsIn
<1>1. CASE i \in 1..Len(s)
  BY <1>1 DEF IsIn
<1>2. CASE i \notin 1..Len(s)
  <2>1. i - Len(s) \in 1..Len(t) /\ t[i - Len(s)] = x
    BY <1>2
  <2> QED
    BY <2>1 DEF IsIn
<1> QED
  BY <1>1, <1>2

LEMMA NotInTail ==
    ASSUME NEW S, NEW s \in Seq(S), s # <<>>, NEW x, ~IsIn(x, s)
    PROVE  ~IsIn(x, Tail(s))
<1> SUFFICES ASSUME NEW i \in 1..Len(Tail(s)), Tail(s)[i] = x PROVE FALSE
  BY DEF IsIn
<1>1. i + 1 \in 1..Len(s) /\ s[i + 1] = x
  OBVIOUS
<1> QED
  BY <1>1 DEF IsIn

LEMMA NoPromptInConcat ==
    ASSUME NEW S, NEW s \in Seq(S), NEW t \in Seq(S), HasNoPrompt(s), HasNoPrompt(t)
    PROVE  HasNoPrompt(s \o t)
<1> SUFFICES ASSUME NEW i \in 1..Len(s \o t) PROVE ~IsPrompt((s \o t)[i])
  BY DEF HasNoPrompt
<1>1. CASE i \in 1..Len(s)
  BY <1>1 DEF HasNoPrompt
<1>2. CASE i \notin 1..Len(s)
  <2>1. i - Len(s) \in 1..Len(t) /\ (s \o t)[i] = t[i - Len(s)]
    BY <1>2
  <2> QED
    BY <2>1 DEF HasNoPrompt
<1> QED
  BY <1>1, <1>2

LEMMA NoPromptInTail ==
    ASSUME NEW S, NEW s \in Seq(S), s # <<>>, HasNoPrompt(s)
    PROVE  HasNoPrompt(Tail(s))
<1> SUFFICES ASSUME NEW i \in 1..Len(Tail(s)) PROVE ~IsPrompt(Tail(s)[i])
  BY DEF HasNoPrompt
<1>1. i + 1 \in 1..Len(s) /\ s[i + 1] = Tail(s)[i]
  OBVIOUS
<1> QED
  BY <1>1 DEF HasNoPrompt

LEMMA BlocksDiffer ==
    /\ Enable # Disable /\ Enable # Warning /\ Enable # Success
    /\ \A w \in Workers : Enable # Failure(w) /\ Disable # Failure(w)
    /\ Disable \notin {Warning, Success}
    /\ ~IsPrompt(Warning) /\ ~IsPrompt(Success) /\ ~IsPrompt(Sheet("stop"))
<1>1. \A w \in Workers : Failure(w).what = "failure"
  BY BlockTypes
<1> QED
  BY <1>1 DEF Enable, Disable, Warning, Success, Block, Sheet, IsPrompt

(* A worker that goes on puts no Enable on the main queue. *)
LEMMA AlertsAreNoEnable ==
    /\ \A n \in Nat : ~IsIn(Enable, Warnings(n))
    /\ ~IsIn(Enable, <<>>)
    /\ \A w \in Workers : ~IsIn(Enable, <<Failure(w)>>)
BY BlocksDiffer DEF IsIn, Warnings

-----------------------------------------------------------------------------
(* The end of a sheet that is no prompt leaves the writes and the button's *)
(* action alone.                                                           *)
LEMMA OtherSheetEnds ==
    ASSUME NEW sheet, ~IsPrompt(sheet), NEW code, NEW queue, NEW rest, NEW more,
           DidEnd(sheet, code, queue, rest, more)
    PROVE  /\ sheets' = rest \o more
           /\ mainQueue' = queue
           /\ UNCHANGED <<mounting, pc>>
BY DEF DidEnd, StopPromptDidEnd, FailureDidEnd, MessageDidEnd, IsPrompt, worker

LEMMA ButtonAfterAction ==
    ASSUME TypeOK, NEW sheet, NEW code
    PROVE  ButtonAfter(sheet, code).action = startStopButton.action
BY DEF ButtonAfter, TypeOK

(* The end of a prompt: nothing more, another prompt, or -writeAction. *)
LEMMA PromptEnds ==
    ASSUME NEW sheet, IsPrompt(sheet), NEW code, NEW queue, queue = <<>>,
           NEW rest \in Seq(Sheets), rest = <<>>, NEW more \in Seq(Sheets), more = <<>>,
           DidEnd(sheet, code, queue, rest, more)
    PROVE  /\ UNCHANGED pc
           /\ \/ Len(sheets') = 0 /\ UNCHANGED mounting
              \/ Len(sheets') = 1 /\ mainQueue' = <<>> /\ UNCHANGED mounting
              \/ Len(sheets') = 0 /\ mainQueue' = <<Disable>> /\ mounting' = mounting + 1
<1>1. WithDisable(queue) = <<Disable>>
  BY DEF WithDisable
<1>2. Len(rest \o more) = 0
  OBVIOUS
<1>3. Len(Append(rest, Sheet("grub4dos")) \o more) = 1
  <2>1. Append(rest, Sheet("grub4dos")) \in Seq(Sheets)
    BY SheetTypes
  <2> QED
    BY <2>1
<1>4. ASSUME WriteAction(queue)
      PROVE  /\ UNCHANGED pc
             /\ UNCHANGED mounting \/ (mainQueue' = <<Disable>> /\ mounting' = mounting + 1)
  BY <1>1, <1>4 DEF WriteAction, worker
<1>5. CASE StartPromptDidEnd(code, queue, rest, more)
  BY <1>2, <1>3, <1>4, <1>5 DEF StartPromptDidEnd, worker
<1>6. CASE NeedToDownloadGrub4DosFilesDidEnd(code, queue, rest, more)
  BY <1>2, <1>4, <1>6 DEF NeedToDownloadGrub4DosFilesDidEnd, worker
<1> QED
  BY <1>5, <1>6 DEF DidEnd, IsPrompt

LEMMA WritesUnchanged ==
    ASSUME UNCHANGED <<mounting, pc>>
    PROVE  (NoWrite' <=> NoWrite) /\ (OneWrite' <=> OneWrite)
BY DEF NoWrite, OneWrite, Active

(* A worker in its block either ends it or adds no Enable to the queue. *)
GoesOn(w) ==
    /\ \E phase \in Phases \ {"idle"} : pc' = [pc EXCEPT ![w] = phase]
    /\ \E s \in Seq(Blocks) : mainQueue' = mainQueue \o s /\ ~IsIn(Enable, s)

LEMMA WorkerMoves ==
    ASSUME TypeOK, NEW w \in Workers, WorkerStep(w)
    PROVE  /\ Active(w)
           /\ UNCHANGED <<sheets, mounting, startStopButton>>
           /\ GoesOn(w) \/ pc' = [pc EXCEPT ![w] = "idle"]
<1> USE DEF UnchangedByWorker, GoTo, Phases, Active
<1>1. ASSUME UNCHANGED mainQueue
      PROVE  \E s \in Seq(Blocks) : mainQueue' = mainQueue \o s /\ ~IsIn(Enable, s)
  <2>1. <<>> \in Seq(Blocks) /\ mainQueue \o <<>> = mainQueue
    BY DEF TypeOK
  <2> QED
    BY <1>1, <2>1, AlertsAreNoEnable
<1>2. ASSUME NEW alerts, Exit(w, alerts) PROVE pc' = [pc EXCEPT ![w] = "idle"]
  BY <1>2 DEF Exit
<1>3. CASE Download(w)
  <2>1. PICK n \in 0..LegacyFiles :
          \/ GoTo(w, "erase") /\ mainQueue' = mainQueue \o Warnings(n)
          \/ Exit(w, Warnings(n))
    BY <1>3 DEF Download
  <2>2. n \in Nat /\ Warnings(n) \in Seq(Blocks)
    BY WarningsType, LegacyFilesAssumption
  <2> QED
    BY <1>2, <1>3, <2>1, <2>2, AlertsAreNoEnable DEF Download, GoesOn
<1>4. CASE CallbackFailure(w)
  <2>1. Failure(w) \in Blocks
    BY BlockTypes
  <2>2. <<Failure(w)>> \in Seq(Blocks) /\ mainQueue' = mainQueue \o <<Failure(w)>>
    BY <1>4, <2>1 DEF CallbackFailure, TypeOK
  <2>3. \E s \in Seq(Blocks) : mainQueue' = mainQueue \o s /\ ~IsIn(Enable, s)
    BY <2>2, AlertsAreNoEnable
  <2> QED
    BY <1>4, <2>3 DEF CallbackFailure, GoesOn
<1>5. CASE EraseDisk(w)
  BY <1>1, <1>2, <1>5 DEF EraseDisk, GoesOn
<1>6. CASE ExitAfterErase(w)
  BY <1>1, <1>2, <1>6 DEF ExitAfterErase, WriteExitConditionally, GoesOn
<1>7. CASE ExitAfterScan(w)
  BY <1>1, <1>2, <1>7 DEF ExitAfterScan, WriteExitConditionally, GoesOn
<1>8. CASE Scan(w)
  BY <1>1, <1>8 DEF Scan, GoesOn
<1>9. CASE StartWritingReturns(w)
  BY <1>1, <1>9 DEF StartWritingReturns, GoesOn
<1>10. CASE CallbackAnswered(w)
  <2>1. \E phase \in Phases \ {"idle"} : pc' = [pc EXCEPT ![w] = phase]
    BY <1>10 DEF CallbackAnswered
  <2> QED
    BY <1>1, <1>10, <2>1 DEF CallbackAnswered, GoesOn
<1>11. CASE WriteEnds(w)
  BY <1>2, <1>11 DEF WriteEnds
<1> QED
  BY <1>3, <1>4, <1>5, <1>6, <1>7, <1>8, <1>9, <1>10, <1>11 DEF WorkerStep

(* With one write under way, a step of its worker is a step of the write. *)
LEMMA WorkerKeepsOrder ==
    ASSUME OneWriteInv, NEW w \in Workers, WorkerStep(w)
    PROVE  (PromptIsAlone /\ StartIsOff /\ OneWrite)'
<1>1. /\ Active(w) /\ UNCHANGED <<sheets, mounting, startStopButton>>
      /\ GoesOn(w) \/ pc' = [pc EXCEPT ![w] = "idle"]
  BY WorkerMoves DEF OneWriteInv
<1>2. ~NoWrite /\ mounting = 0 /\ pc \in [Workers -> Phases] /\ mainQueue \in Seq(Blocks)
  BY <1>1 DEF OneWriteInv, NoWrite, OneWrite, TypeOK
<1>3. HasNoPrompt(sheets) /\ PromptIsAlone'
  BY <1>1, <1>2 DEF OneWriteInv, PromptIsAlone
<1>4. \A v \in Workers : v # w => pc'[v] = "idle"
  BY <1>1, <1>2 DEF OneWriteInv, OneWrite, Active, GoesOn
<1>5. OneWrite'
  BY <1>1, <1>2, <1>4 DEF OneWrite, Active
<1>6. StartIsOff'
  <2>1. CASE pc' = [pc EXCEPT ![w] = "idle"]
    BY <1>1, <1>2, <1>4, <2>1 DEF StartIsOff, NoWrite, Active
  <2>2. CASE GoesOn(w)
    <3>1. PICK s \in Seq(Blocks) : mainQueue' = mainQueue \o s /\ ~IsIn(Enable, s)
      BY <2>2 DEF GoesOn
    <3>2. ~IsIn(Enable, mainQueue) /\ (startStopButton.action = "stop" \/ IsIn(Disable, mainQueue))
      BY <1>2 DEF OneWriteInv, StartIsOff
    <3>3. ~IsIn(Enable, mainQueue \o s)
      BY <1>2, <3>1, <3>2, NotInConcat
    <3>4. IsIn(Disable, mainQueue) => IsIn(Disable, mainQueue \o s)
      BY <1>2, <3>1, IsInConcat
    <3>5. Enable' = Enable /\ Disable' = Disable
      BY DEF Enable, Disable, Block
    <3> QED
      BY <1>1, <3>1, <3>2, <3>3, <3>4, <3>5 DEF StartIsOff, IsIn
  <2> QED
    BY <1>1, <2>1, <2>2
<1> QED
  BY <1>3, <1>5, <1>6

(* A block of the main queue: no prompt is left, so none is answered.      *)
LEMMA QueueKeepsOrder ==
    ASSUME OneWriteInv, MainQueueStep
    PROVE  (PromptIsAlone /\ StartIsOff /\ OneWrite)'
<1>1. /\ HasNoPrompt(sheets) /\ mainQueue # <<>> /\ TypeOK
      /\ mainQueue \in Seq(Blocks) /\ sheets \in Seq(Sheets)
      /\ Head(mainQueue) \in Blocks /\ Tail(mainQueue) \in Seq(Blocks)
  BY DEF OneWriteInv, PromptIsAlone, MainQueueStep, SetEnabledUIState, DisplayMessage,
         DisplayFailure, TypeOK
<1>2. SUFFICES /\ UNCHANGED <<mounting, pc>>
               /\ mainQueue' = Tail(mainQueue)
               /\ HasNoPrompt(sheets')
               /\ NoWrite \/ startStopButton'.action = "stop" \/ (UNCHANGED startStopButton.action /\ Head(mainQueue) # Disable)
  <2>1. PromptIsAlone' /\ OneWrite'
    BY <1>2, WritesUnchanged DEF OneWriteInv, PromptIsAlone, HasNoPrompt, IsPrompt
  <2>2. NoWrite' <=> NoWrite
    BY <1>2, WritesUnchanged
  <2>3. ~IsIn(Enable, mainQueue) => ~IsIn(Enable, Tail(mainQueue))
    BY <1>1, NotInTail
  <2>4. IsIn(Disable, mainQueue) /\ Head(mainQueue) # Disable => IsIn(Disable, Tail(mainQueue))
    BY <1>1, IsInTail
  <2>5. Enable' = Enable /\ Disable' = Disable
    BY DEF Enable, Disable, Block
  <2>6. StartIsOff'
    BY <1>2, <2>2, <2>3, <2>4, <2>5 DEF OneWriteInv, StartIsOff, IsIn
  <2> QED
    BY <2>1, <2>6
<1>3. ASSUME NEW on \in BOOLEAN, SetEnabledUIState(on)
      PROVE  /\ UNCHANGED <<mounting, pc, sheets>> /\ mainQueue' = Tail(mainQueue)
             /\ NoWrite \/ startStopButton'.action = "stop"
  <2>1. on => IsIn(Enable, mainQueue)
    BY <1>1, <1>3 DEF SetEnabledUIState, IsIn
  <2>2. on => NoWrite
    BY <2>1 DEF OneWriteInv, StartIsOff
  <2> QED
    BY <1>3, <2>2 DEF SetEnabledUIState, ButtonFor, worker
<1>4. CASE DisplayMessage
  <2>1. <<Head(mainQueue)>> \in Seq(Sheets) /\ HasNoPrompt(<<Head(mainQueue)>>)
    BY <1>4, SheetTypes, BlocksDiffer DEF DisplayMessage, HasNoPrompt
  <2>2. sheets' = sheets \o <<Head(mainQueue)>>
    BY <1>1, <1>4 DEF DisplayMessage
  <2>3. HasNoPrompt(sheets')
    BY <1>1, <2>1, <2>2, NoPromptInConcat
  <2> QED
    BY <1>4, <2>3, BlocksDiffer DEF DisplayMessage, worker
<1>5. CASE DisplayFailure
  <2>1. /\ Head(mainQueue) # Disable /\ ~IsPrompt(Head(mainQueue))
        /\ AlertToBegin \in Seq(Sheets) /\ HasNoPrompt(AlertToBegin)
    BY <1>1, <1>5, FailureOfWorker
       DEF DisplayFailure, AlertToBegin, HasNoPrompt, IsPrompt, Disable, Block
  <2>2. CASE sheets = <<>> /\ sheets' = AlertToBegin
    BY <1>5, <2>1, <2>2 DEF DisplayFailure, DidEnd, worker
  <2>3. CASE sheets # <<>>
    <3>1. ~IsPrompt(Head(sheets)) /\ Tail(sheets) \in Seq(Sheets) /\ HasNoPrompt(Tail(sheets))
      BY <1>1, <2>3, NoPromptInTail DEF HasNoPrompt
    <3>2. /\ DidEnd(Head(sheets), PushedSheetCode, Tail(mainQueue), Tail(sheets), AlertToBegin)
          /\ startStopButton' = ButtonAfter(Head(sheets), PushedSheetCode)
      BY <1>5, <2>3 DEF DisplayFailure
    <3>3. HasNoPrompt(Tail(sheets) \o AlertToBegin)
      BY <2>1, <3>1, NoPromptInConcat
    <3> QED
      BY <1>1, <2>1, <3>1, <3>2, <3>3, OtherSheetEnds, ButtonAfterAction
  <2> QED
    BY <1>5, <2>2, <2>3 DEF DisplayFailure
<1> QED
  BY <1>1, <1>3, <1>4, <1>5 DEF MainQueueStep

(* The end of a mount: the write goes on in one worker, or is over.        *)
LEMMA MountKeepsOrder ==
    ASSUME OneWriteInv, MountStep
    PROVE  (PromptIsAlone /\ StartIsOff /\ OneWrite)'
<1>1. mounting = 1 /\ (\A w \in Workers : ~Active(w)) /\ ~NoWrite /\ mounting' = 0
  BY DEF OneWriteInv, TypeOK, OneWrite, NoWrite, MountStep, MountFails, MountSucceeds, MountReturns
<1>2. HasNoPrompt(sheets) /\ UNCHANGED sheets
  BY <1>1 DEF OneWriteInv, PromptIsAlone, MountStep, MountFails, MountSucceeds
<1>3. PromptIsAlone'
  BY <1>2 DEF PromptIsAlone
<1>4. CASE MountFails
  BY <1>1, <1>3, <1>4 DEF MountFails, StartIsOff, OneWrite, NoWrite, Active, worker
<1>5. CASE MountSucceeds
  <2>1. PICK w \in Workers : pc' = [pc EXCEPT ![w] = "download"]
    BY <1>5 DEF MountSucceeds
  <2>2. OneWrite'
    BY <1>1, <2>1 DEF OneWriteInv, TypeOK, OneWrite, Active
  <2>3. StartIsOff'
    BY <1>1, <1>5 DEF OneWriteInv, MountSucceeds, StartIsOff, IsIn, Enable, Disable, Block
  <2> QED
    BY <1>3, <2>2, <2>3
<1> QED
  BY <1>4, <1>5 DEF MountStep

(* Only the end of a prompt takes a scheduled stop back. *)
LEMMA OtherSheetKeepsStop ==
    ASSUME TypeOK, isScheduledForStop, NEW sheet, ~IsPrompt(sheet), NEW code, NEW queue,
           NEW rest, NEW more, DidEnd(sheet, code, queue, rest, more)
    PROVE  isScheduledForStop'
<1>1. isScheduledForStop' = (isScheduledForStop \/ code = "second")
        \/ isScheduledForStop' = isScheduledForStop
  BY DEF DidEnd, StopPromptDidEnd, FailureDidEnd, MessageDidEnd, IsPrompt
<1>2. isScheduledForStop = TRUE
  BY DEF TypeOK
<1> QED
  BY <1>1, <1>2

(* The answer to a sheet: if it is a prompt, nothing else is under way. *)
LEMMA AnswerKeepsOrder ==
    ASSUME EventsWait, OneWriteInv, AnswerSheet
    PROVE  /\ (PromptIsAlone /\ StartIsOff /\ OneWrite)'
           /\ isScheduledForStop => NoWrite \/ isScheduledForStop'
<1>1. /\ sheets # <<>> /\ sheets \in Seq(Sheets) /\ mainQueue = <<>> /\ mounting = 0
      /\ Tail(sheets) \in Seq(Sheets) /\ TypeOK
      /\ mounting \in Nat /\ Disable' = Disable
  BY DEF OneWriteInv, TypeOK, AnswerSheet, EventIsDelivered, Disable, Block
<1>2. PICK code \in Codes : /\ DidEnd(Head(sheets), code, mainQueue, Tail(sheets), <<>>)
                            /\ startStopButton' = ButtonAfter(Head(sheets), code)
  BY DEF AnswerSheet
<1>3. startStopButton'.action = startStopButton.action
  BY <1>1, <1>2, ButtonAfterAction
<1>4. CASE IsPrompt(Head(sheets))
  <2>1. Len(sheets) = 1 /\ NoWrite /\ Tail(sheets) = <<>>
    <3>1. 1 \in 1..Len(sheets) /\ IsPrompt(sheets[1])
      BY <1>1, <1>4
    <3>2. Len(sheets) = 1 /\ NoWrite
      BY <3>1 DEF OneWriteInv, PromptIsAlone, HasNoPrompt
    <3>3. \A s \in Seq(Sheets) : Len(s) = 0 => s = <<>>
      OBVIOUS
    <3>4. Len(Tail(sheets)) = 0
      BY <1>1, <3>2
    <3> QED
      BY <1>1, <3>2, <3>3, <3>4
  <2>2. /\ UNCHANGED pc
        /\ \/ Len(sheets') = 0 /\ UNCHANGED mounting
           \/ Len(sheets') = 1 /\ mainQueue' = <<>> /\ UNCHANGED mounting
           \/ Len(sheets') = 0 /\ mainQueue' = <<Disable>> /\ mounting' = mounting + 1
    BY <1>1, <1>2, <1>4, <2>1, PromptEnds
  <2>3. CASE UNCHANGED mounting
    <3>1. NoWrite' /\ OneWrite'
      BY <2>1, <2>2, <2>3, WritesUnchanged DEF OneWriteInv
    <3> QED
      BY <2>1, <2>2, <2>3, <3>1 DEF PromptIsAlone, HasNoPrompt, StartIsOff
  <2>4. CASE Len(sheets') = 0 /\ mainQueue' = <<Disable>> /\ mounting' = mounting + 1
    <3>1. PromptIsAlone' /\ OneWrite'
      BY <1>1, <2>1, <2>2, <2>4 DEF PromptIsAlone, HasNoPrompt, OneWrite, NoWrite, Active
    <3>2. IsIn(Disable, mainQueue') /\ ~IsIn(Enable, mainQueue') /\ Enable' = Enable
      BY <2>4, BlocksDiffer DEF IsIn, Enable, Disable, Block
    <3> QED
      BY <1>1, <2>1, <3>1, <3>2 DEF StartIsOff, IsIn
  <2> QED
    BY <2>1, <2>2, <2>3, <2>4
<1>5. CASE ~IsPrompt(Head(sheets))
  <2>1. sheets' = Tail(sheets) \o <<>> /\ UNCHANGED <<mainQueue, mounting, pc>>
    BY <1>2, <1>5, OtherSheetEnds
  <2>2. HasNoPrompt(sheets)
    <3>1. Len(sheets) = 1 => HasNoPrompt(sheets)
      BY <1>1, <1>5 DEF HasNoPrompt
    <3> QED
      BY <3>1 DEF OneWriteInv, PromptIsAlone
  <2>3. HasNoPrompt(sheets')
    <3>1. HasNoPrompt(Tail(sheets)) /\ <<>> \in Seq(Sheets) /\ HasNoPrompt(<<>>)
      BY <1>1, <2>2, NoPromptInTail DEF HasNoPrompt
    <3> QED
      BY <1>1, <2>1, <3>1, NoPromptInConcat
  <2>4. PromptIsAlone' /\ OneWrite'
    BY <2>1, <2>3, WritesUnchanged DEF OneWriteInv, PromptIsAlone, HasNoPrompt, IsPrompt
  <2>5. StartIsOff'
    <3>1. NoWrite' <=> NoWrite
      BY <2>1, WritesUnchanged
    <3> QED
      BY <1>3, <2>1, <3>1 DEF OneWriteInv, StartIsOff, IsIn, Enable, Disable, Block
  <2> QED
    BY <1>1, <1>2, <1>5, <2>4, <2>5, OtherSheetKeepsStop
<1> QED
  BY <1>4, <1>5

(* A click on the button starts nothing while a write is under way. *)
LEMMA ClickKeepsOrder ==
    ASSUME EventsWait, OneWriteInv, StartAction \/ StopAction
    PROVE  (PromptIsAlone /\ StartIsOff /\ OneWrite)'
<1>1. sheets = <<>> /\ mainQueue = <<>> /\ UNCHANGED <<mounting, pc, startStopButton>>
  BY DEF StartAction, StopAction, Click, EventIsDelivered, worker
<1>2. OneWrite' /\ (NoWrite' <=> NoWrite)
  BY <1>1, WritesUnchanged DEF OneWriteInv
<1>3. CASE StartAction
  <2>1. startStopButton.action = "start" /\ ~IsIn(Disable, mainQueue)
    BY <1>1, <1>3 DEF StartAction, Click, IsIn
  <2>2. NoWrite
    BY <2>1 DEF OneWriteInv, StartIsOff
  <2>3. sheets' = <<>> \/ (sheets' = <<Sheet("start")>> /\ mainQueue' = <<>>)
    BY <1>1, <1>3 DEF StartAction
  <2> QED
    BY <1>2, <2>2, <2>3 DEF PromptIsAlone, HasNoPrompt, StartIsOff
<1>4. CASE StopAction
  <2>1. sheets' = <<Sheet("stop")>> /\ mainQueue' = mainQueue
    BY <1>4 DEF StopAction
  <2>2. HasNoPrompt(sheets')
    BY <2>1, BlocksDiffer DEF HasNoPrompt
  <2> QED
    BY <1>1, <1>2, <2>1, <2>2
       DEF OneWriteInv, PromptIsAlone, HasNoPrompt, IsPrompt, StartIsOff, IsIn, Enable, Disable, Block
<1> QED
  BY <1>3, <1>4

-----------------------------------------------------------------------------
LEMMA OrderInit == Init => PromptIsAlone /\ StartIsOff /\ OneWrite
BY DEF Init, PromptIsAlone, HasNoPrompt, StartIsOff, OneWrite, NoWrite, Active

LEMMA OrderNext ==
    ASSUME EventsWait, OneWriteInv, [Next]_vars
    PROVE  (PromptIsAlone /\ StartIsOff /\ OneWrite)'
<1>1. CASE UNCHANGED vars
  BY <1>1 DEF vars, OneWriteInv, PromptIsAlone, HasNoPrompt, IsPrompt, StartIsOff, OneWrite, NoWrite,
     Active, IsIn, Enable, Disable, Block
<1> QED
  BY <1>1, QueueKeepsOrder, MountKeepsOrder, AnswerKeepsOrder, ClickKeepsOrder,
     WorkerKeepsOrder DEF Next, UserEvent

LEMMA OrderIsKept == EventsWait => (Spec => []OneWriteInv)
<1> SUFFICES ASSUME EventsWait PROVE Spec => []OneWriteInv
  OBVIOUS
<1> DEFINE Order == PromptIsAlone /\ StartIsOff /\ OneWrite
<1>1. Init => Order
  BY OrderInit
<1>2. TypeOK /\ Order /\ [Next]_vars => Order'
  BY OrderNext DEF OneWriteInv
<1>3. TypeOK /\ Order => OneWriteInv
  BY DEF OneWriteInv
<1> QED
  BY <1>1, <1>2, <1>3, TypeCorrect, PTL DEF Spec

(* However many threads the global queue has, never more than one write is *)
(* under way, if user events wait for the blocks of the main queue.        *)
THEOREM OneWriteAtATime == EventsWait => (Spec => []AtMostOneWrite)
<1> SUFFICES ASSUME EventsWait PROVE Spec => []AtMostOneWrite
  OBVIOUS
<1>1. OneWriteInv => AtMostOneWrite
  <2> SUFFICES ASSUME OneWriteInv PROVE AtMostOneWrite
    OBVIOUS
  <2> DEFINE active == {w \in Workers : Active(w)}
  <2>1. mounting \in Nat /\ mounting <= 1
    BY DEF OneWriteInv, TypeOK, OneWrite
  <2>2. CASE active = {}
    BY <2>1, <2>2, FS_EmptySet DEF AtMostOneWrite
  <2>3. CASE active # {}
    <3>1. PICK w \in Workers : Active(w)
      BY <2>3
    <3>2. active = {w} /\ mounting = 0
      BY <2>1, <3>1 DEF OneWriteInv, OneWrite
    <3>3. Cardinality(active) = 1
      BY <3>2, FS_Singleton
    <3> QED
      BY <3>2, <3>3 DEF AtMostOneWrite
  <2> QED
    BY <2>2, <2>3
<1> QED
  BY <1>1, OrderIsKept, PTL

(* Only -writeAction takes a stop back, and none begins over another. *)
LEMMA StopIsKept ==
    ASSUME EventsWait, OneWriteInv, [Next]_vars
    PROVE  isScheduledForStop /\ ~isScheduledForStop' => NoWrite
<1> SUFFICES ASSUME OneWriteInv, Next, isScheduledForStop PROVE NoWrite \/ isScheduledForStop'
  BY DEF vars
<1>1. CASE AnswerSheet
  BY <1>1, AnswerKeepsOrder
<1>2. CASE DisplayFailure
  <2>1. HasNoPrompt(sheets) /\ sheets \in Seq(Sheets) /\ TypeOK
    BY <1>2 DEF OneWriteInv, PromptIsAlone, DisplayFailure, TypeOK
  <2>2. CASE UNCHANGED isScheduledForStop
    BY <2>2
  <2>3. CASE sheets # <<>> /\ DidEnd(Head(sheets), PushedSheetCode, Tail(mainQueue),
                                     Tail(sheets), AlertToBegin)
    <3>1. ~IsPrompt(Head(sheets))
      BY <2>1, <2>3 DEF HasNoPrompt
    <3> QED
      BY <2>1, <2>3, <3>1, OtherSheetKeepsStop
  <2> QED
    BY <1>2, <2>2, <2>3 DEF DisplayFailure
<1>3. ASSUME NEW w \in Workers, CallbackAnswered(w) PROVE isScheduledForStop'
  <2>1. isScheduledForStop = TRUE
    BY DEF OneWriteInv, TypeOK
  <2>2. isScheduledForStop' = (isScheduledForStop \/ resultCode[w] = "first")
    BY <1>3 DEF CallbackAnswered
  <2> QED
    BY <2>1, <2>2
<1>4. ASSUME NEW w \in Workers, WorkerStep(w) PROVE isScheduledForStop'
  BY <1>3, <1>4
     DEF WorkerStep, Download, EraseDisk, ExitAfterErase, ExitAfterScan, Scan,
         WriteExitConditionally, CallbackFailure, StartWritingReturns, WriteEnds
<1>5. CASE (\E on \in BOOLEAN : SetEnabledUIState(on)) \/ DisplayMessage \/ MountStep
             \/ StartAction \/ StopAction
  BY <1>5 DEF SetEnabledUIState, DisplayMessage, MountStep, MountFails, MountSucceeds,
              StartAction, StopAction
<1> QED
  BY <1>1, <1>2, <1>4, <1>5 DEF Next, MainQueueStep, UserEvent

(* A worker without a container has a stop before it and comes to no write. *)
StoppedScan ==
    \A w \in Workers :
        Active(w) /\ ~filesContainer[w] => pc[w] = "scanned" /\ isScheduledForStop

LEMMA StoppedScanIsLeft ==
    ASSUME EventsWait, OneWriteInv, StoppedScan, [Next]_vars
    PROVE  StoppedScan'
<1> SUFFICES ASSUME NEW w \in Workers, Active(w)', ~filesContainer'[w]
             PROVE  pc'[w] = "scanned" /\ isScheduledForStop'
  BY DEF StoppedScan
<1>1. /\ pc \in [Workers -> Phases] /\ filesContainer \in [Workers -> BOOLEAN]
      /\ isScheduledForStop \in BOOLEAN
  BY DEF OneWriteInv, TypeOK
<1>2. ASSUME pc'[w] = pc[w], filesContainer'[w] = filesContainer[w]
      PROVE  pc'[w] = "scanned" /\ isScheduledForStop'
  <2>1. Active(w) /\ ~filesContainer[w]
    BY <1>2 DEF Active
  <2>2. pc[w] = "scanned" /\ isScheduledForStop /\ ~NoWrite
    BY <2>1 DEF StoppedScan, NoWrite
  <2>3. isScheduledForStop'
    BY <2>2, StopIsKept
  <2> QED
    BY <1>2, <2>2, <2>3
<1>3. ASSUME UNCHANGED <<pc, filesContainer>> PROVE pc'[w] = "scanned" /\ isScheduledForStop'
  BY <1>2, <1>3
<1>4. CASE MainQueueStep \/ UserEvent \/ MountFails \/ UNCHANGED vars
  <2>1. ASSUME NEW sheet, NEW code, NEW queue, NEW rest, NEW more,
               DidEnd(sheet, code, queue, rest, more)
        PROVE  UNCHANGED <<pc, filesContainer>>
    BY <2>1 DEF DidEnd, StartPromptDidEnd, NeedToDownloadGrub4DosFilesDidEnd, WriteAction,
                StopPromptDidEnd, FailureDidEnd, MessageDidEnd, worker
  <2> QED
    BY <1>3, <1>4, <2>1 DEF MainQueueStep, SetEnabledUIState, DisplayMessage, DisplayFailure,
                            UserEvent, StartAction, StopAction, AnswerSheet, MountFails, worker, vars
<1>5. CASE MountSucceeds
  <2>1. PICK v \in Workers : /\ pc' = [pc EXCEPT ![v] = "download"]
                             /\ filesContainer' = [filesContainer EXCEPT ![v] = TRUE]
    BY <1>5 DEF MountSucceeds
  <2>2. v # w
    BY <1>1, <2>1
  <2> QED
    BY <1>1, <1>2, <2>1, <2>2
<1>6. ASSUME NEW v \in Workers, WorkerStep(v) PROVE pc'[w] = "scanned" /\ isScheduledForStop'
  <2>1. /\ \A u \in Workers : u # v => pc'[u] = pc[u]
        /\ Scan(v) \/ UNCHANGED filesContainer
        /\ Active(v) /\ pc[v] = "scanned" => pc'[v] = "idle" \/ ~isScheduledForStop
    BY <1>1, <1>6
       DEF WorkerStep, Download, EraseDisk, ExitAfterErase, ExitAfterScan, Scan,
           WriteExitConditionally, CallbackFailure, CallbackAnswered, StartWritingReturns,
           WriteEnds, GoTo, Exit
  <2>2. CASE v # w
    <3>1. filesContainer'[w] = filesContainer[w]
      BY <1>1, <2>1, <2>2 DEF Scan
    <3> QED
      BY <1>2, <2>1, <2>2, <3>1
  <2>3. CASE v = w /\ Scan(v)
    <3>1. pc'[w] = "scanned" /\ UNCHANGED isScheduledForStop /\ pc[w] = "scan"
      BY <1>1, <2>3 DEF Scan, GoTo
    <3>2. filesContainer[w]
      BY <3>1 DEF StoppedScan, Active
    <3>3. isScheduledForStop
      BY <2>3, <3>2 DEF Scan
    <3> QED
      BY <3>1, <3>3
  <2>4. CASE v = w /\ ~Scan(v)
    <3>1. Active(w)
      BY <1>1, <2>4, <1>6
         DEF WorkerStep, Download, EraseDisk, ExitAfterErase, ExitAfterScan, Scan, Active,
             WriteExitConditionally, CallbackFailure, CallbackAnswered, StartWritingReturns, WriteEnds
    <3>2. ~filesContainer[w]
      BY <2>1, <2>4
    <3>3. pc[w] = "scanned" /\ isScheduledForStop
      BY <3>1, <3>2 DEF StoppedScan
    <3> QED
      BY <2>1, <2>4, <3>1, <3>3 DEF Active
  <2> QED
    BY <2>2, <2>3, <2>4
<1> QED
  BY <1>4, <1>5, <1>6 DEF Next, MountStep

(* Under the same condition a stop that was scheduled is not taken back    *)
(* while the write it is meant for runs, and no write works on the         *)
(* container a stopped scan did not give.                                  *)
THEOREM StopIsNotLost == EventsWait => (Spec => ScheduledStopIsKept)
<1> SUFFICES ASSUME EventsWait PROVE Spec => ScheduledStopIsKept
  OBVIOUS
<1>1. Init => StoppedScan
  BY DEF Init, StoppedScan, Active
<1>2. OneWriteInv /\ StoppedScan /\ [Next]_vars => StoppedScan'
  BY StoppedScanIsLeft
<1>3. StoppedScan' => \A w \in Workers : pc'[w] = "write" => filesContainer'[w]
  BY DEF StoppedScan, Active
<1>4. OneWriteInv /\ StoppedScan /\ [Next]_vars
        => [/\ isScheduledForStop /\ ~isScheduledForStop' => NoWrite
            /\ \A w \in Workers : pc'[w] = "write" => filesContainer'[w]]_vars
  BY <1>2, <1>3, StopIsKept
<1> QED
  BY <1>1, <1>2, <1>4, OrderIsKept, PTL DEF Spec, ScheduledStopIsKept
=============================================================================
