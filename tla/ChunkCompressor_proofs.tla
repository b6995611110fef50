------------------------ MODULE ChunkCompressor_proofs ------------------------
(***************************************************************************)
(* The parallel compressor hands over what it was given, in order, for any *)
(* number of threads, of messages for each and of chunks in a message, and *)
(* whatever fails: a message always has one owner, and the submitted ones  *)
(* hold the chunks that follow those written already.                      *)
(***************************************************************************)
EXTENDS ChunkCompressor, FiniteSetTheorems, TLAPS

(* write_blob_list is at work, and the messages are there. *)
IsWorking == main \in {"feed", "result", "waiting"}
HasMsgs == IsWorking \/ (main \in {"terminate", "join"} /\ ret # "serial")

Buffers == [1..PerMsg -> Int]
Msgs == [filled : 0..PerMsg, in : Buffers, out : Buffers, complete : BOOLEAN]

ThreadStates == {"none", "ready", "waiting", "busy", "ended"}
Mains == {"create", "allocate", "feed", "result", "waiting", "terminate", "join",
          "serial", "returned"}

(* Who has a message. *)
Free   == InSeq(available)
Sent   == InSeq(submitted)
Queued == InSeq(toCompress)
AtWork == {holds[t] : t \in Threads} \ {NoMsg}
Back   == InSeq(compressed)

(* Types of what there is in any case. *)
MainOK ==
    /\ main \in Mains /\ ret \in {"none", "serial", "success", "error"}
    /\ started \in 0..NumThreads /\ fed \in 0..NumChunks
    /\ written \in Seq(Int)
    /\ main \in {"create", "allocate", "feed", "result", "waiting"} <=> ret = "none"
    /\ main = "serial" => ret = "serial"
    /\ main = "returned" => ret # "serial"

ThreadsOK ==
    /\ thread \in [Threads -> ThreadStates] /\ holds \in [Threads -> Nat]
    /\ \A t \in Threads : /\ thread[t] = "none" <=> t > started
                          /\ thread[t] = "busy" <=> holds[t] # NoMsg
    /\ main \in {"serial", "returned"} => \A t \in Threads : thread[t] \in {"none", "ended"}
    /\ \A t, u \in Threads : holds[t] = holds[u] /\ holds[t] # NoMsg => t = u

ListsOK ==
    /\ available \in Seq(Nat) /\ submitted \in Seq(Nat)
    /\ toCompress \in Seq(Nat) /\ compressed \in Seq(Nat)
    /\ nextSubmit \in Nat /\ nextReady \in Nat /\ nextChunk \in Nat

Distinct(s) == \A i, j \in 1..Len(s) : s[i] = s[j] => i = j

(* One owner for each message. *)
OwnersOK ==
    /\ Distinct(available) /\ Distinct(submitted)
    /\ Distinct(toCompress) /\ Distinct(compressed)
    /\ Free \subseteq Used /\ Sent \subseteq Used /\ nextSubmit \in Used \cup {NoMsg}
    /\ Free \cap Sent = {} /\ nextSubmit \notin Free \cup Sent
    /\ \A m \in Used : m \in Free \/ m \in Sent \/ m = nextSubmit
    /\ Queued \subseteq Sent /\ AtWork \subseteq Sent /\ Back \subseteq Sent
    /\ Queued \cap AtWork = {} /\ Queued \cap Back = {} /\ AtWork \cap Back = {}
    /\ \A m \in Sent : msgs[m].complete <=> m \notin Queued \cup AtWork \cup Back

(* Without messages there is nothing to own. *)
NothingOwned ==
    /\ toCompress = <<>> /\ compressed = <<>> /\ submitted = <<>>
    /\ nextSubmit = NoMsg /\ nextReady = NoMsg
    /\ \A t \in Threads : holds[t] = NoMsg

OwnershipOK ==
    /\ HasMsgs => msgs \in [Used -> Msgs] /\ OwnersOK
    /\ ~HasMsgs => msgs = <<>>
    /\ main \in {"create", "allocate"} \/ (main \in {"terminate", "join"} /\ ret = "serial")
         => NothingOwned

(* The chunks.  Off(k) is where the message behind k others begins.        *)
Off(k) == k * PerMsg

Base == Len(written) - (IF nextReady = NoMsg THEN 0 ELSE nextChunk - 1)

(* Chunk n is buffer i of message m, or will be when it is compressed. *)
Carries(m, i, n) ==
    IF m \in Queued \cup AtWork THEN msgs[m].in[i] = n
    ELSE msgs[m].out[i] = n \/ (msgs[m].out[i] = 0 /\ msgs[m].in[i] = n)

Behind ==
    IF submitted = <<>> THEN Base
    ELSE Base + Off(Len(submitted) - 1) + msgs[submitted[Len(submitted)]].filled

ChunksOK ==
    /\ nextReady # NoMsg =>
          /\ main = "result" /\ submitted # <<>> /\ nextReady = submitted[1]
          /\ msgs[nextReady].complete /\ nextChunk \in 2..msgs[nextReady].filled
    /\ main # "feed" => nextSubmit = NoMsg
    /\ \A k \in 1..Len(submitted) :
          /\ msgs[submitted[k]].filled \in 1..PerMsg
          /\ k < Len(submitted) \/ fed < NumChunks \/ nextSubmit # NoMsg
               => msgs[submitted[k]].filled = PerMsg
          /\ \A i \in 1..msgs[submitted[k]].filled :
                Carries(submitted[k], i, Base + Off(k - 1) + i)
    /\ IF nextSubmit = NoMsg THEN fed = Behind
       ELSE /\ fed = Behind + msgs[nextSubmit].filled
            /\ msgs[nextSubmit].filled \in 1..(PerMsg - 1)
            /\ \A i \in 1..msgs[nextSubmit].filled : msgs[nextSubmit].in[i] = Behind + i

WrittenOK ==
    /\ \A n \in 1..Len(written) : written[n] = n
    /\ ret = "success" => Len(written) = NumChunks
    /\ main \in {"create", "allocate"} \/ ret = "serial" => Len(written) = fed
    /\ IsWorking => ChunksOK

IInv == MainOK /\ ThreadsOK /\ ListsOK /\ OwnershipOK /\ WrittenOK

-----------------------------------------------------------------------------
(* Sequences of messages. *)
LEMMA InAppend ==
    ASSUME NEW s \in Seq(Nat), NEW x \in Nat
    PROVE  /\ InSeq(Append(s, x)) = InSeq(s) \cup {x}
           /\ Distinct(s) /\ x \notin InSeq(s) => Distinct(Append(s, x))
<1>1. /\ Len(Append(s, x)) = Len(s) + 1
      /\ \A i \in 1..Len(s) : Append(s, x)[i] = s[i]
      /\ Append(s, x)[Len(s) + 1] = x
      /\ DOMAIN Append(s, x) = 1..(Len(s) + 1) /\ DOMAIN s = 1..Len(s) /\ Len(s) \in Nat
  OBVIOUS
<1>2. 1..(Len(s) + 1) = (1..Len(s)) \cup {Len(s) + 1}
  BY <1>1
<1>3. InSeq(Append(s, x)) = InSeq(s) \cup {x}
  BY <1>1, <1>2 DEF InSeq
<1>4. Distinct(s) /\ x \notin InSeq(s) => Distinct(Append(s, x))
  BY <1>1, <1>2 DEF Distinct, InSeq
<1> QED
  BY <1>3, <1>4

LEMMA InTail ==
    ASSUME NEW s \in Seq(Nat), s # <<>>, Distinct(s)
    PROVE  /\ InSeq(Tail(s)) = InSeq(s) \ {Head(s)} /\ Head(s) \in InSeq(s)
           /\ Distinct(Tail(s))
<1>1. /\ Len(Tail(s)) = Len(s) - 1 /\ Head(s) = s[1] /\ Len(s) \in Nat \ {0}
      /\ \A i \in 1..(Len(s) - 1) : Tail(s)[i] = s[i + 1]
      /\ DOMAIN Tail(s) = 1..(Len(s) - 1) /\ DOMAIN s = 1..Len(s)
  OBVIOUS
<1>2. Distinct(Tail(s))
  BY <1>1 DEF Distinct
<1>3. ASSUME NEW x \in InSeq(Tail(s)) PROVE x \in InSeq(s) /\ x # Head(s)
  <2>1. PICK i \in 1..(Len(s) - 1) : x = s[i + 1]
    BY <1>1 DEF InSeq
  <2> QED
    BY <1>1, <2>1 DEF InSeq, Distinct
<1>4. ASSUME NEW x \in InSeq(s), x # Head(s) PROVE x \in InSeq(Tail(s))
  <2>1. PICK i \in 1..Len(s) : x = s[i]
    BY <1>1 DEF InSeq
  <2>2. i - 1 \in 1..(Len(s) - 1) /\ Tail(s)[i - 1] = x
    BY <1>1, <1>4, <2>1
  <2> QED
    BY <1>1, <2>2 DEF InSeq
<1>5. Head(s) \in InSeq(s)
  BY <1>1 DEF InSeq
<1> QED
  BY <1>2, <1>3, <1>4, <1>5

(* The first of the submitted messages is taken off the list. *)
LEMMA RemovedHead ==
    ASSUME NEW s \in Seq(Nat), s # <<>>, Distinct(s)
    PROVE  Removed(s, s[1]) = Tail(s)
<1>1. /\ DOMAIN s = 1..Len(s) /\ Len(s) \in Nat \ {0}
      /\ Tail(s) \in Seq(Nat) /\ Len(Tail(s)) = Len(s) - 1
      /\ \A i \in 1..(Len(s) - 1) : Tail(s)[i] = s[i + 1]
  OBVIOUS
<1>2. (CHOOSE i \in DOMAIN s : s[i] = s[1]) = 1
  BY <1>1 DEF Distinct
<1>3. \A i \in 1..(Len(s) - 1) : ~(i < 1)
  BY <1>1
<1>4. \A t \in Seq(Nat) : t = [i \in 1..Len(t) |-> t[i]]
  OBVIOUS
<1>5. Tail(s) = [i \in 1..(Len(s) - 1) |-> s[i + 1]]
  BY <1>1, <1>4
<1> QED
  BY <1>1, <1>2, <1>3, <1>5 DEF Removed

LEMMA AppendIs ==
    ASSUME NEW s \in Seq(Nat), NEW x \in Nat
    PROVE  /\ Len(Append(s, x)) = Len(s) + 1 /\ Append(s, x) # <<>> /\ Len(s) \in Nat
           /\ Append(s, x)[Len(s) + 1] = x
           /\ \A i \in 1..Len(s) : Append(s, x)[i] = s[i]
OBVIOUS

LEMMA IndexOf ==
    ASSUME NEW s \in Seq(Nat), NEW x
    PROVE  x \in InSeq(s) <=> \E i \in 1..Len(s) : x = s[i]
BY DEF InSeq

LEMMA Offsets ==
    /\ \A k \in Nat : Off(k) \in Nat /\ Off(k + 1) = Off(k) + PerMsg
    /\ Off(0) = 0
BY NumbersAssumption DEF Off

LEMMA UsedAreNat == started \in Nat => Used \subseteq Nat \ {0}
BY NumbersAssumption DEF Used

-----------------------------------------------------------------------------
(* The threads. *)
Woken ==
    /\ thread' \in [Threads -> ThreadStates]
    /\ \A t \in Threads : thread'[t] = thread[t] \/ (thread[t] = "waiting" /\ thread'[t] = "ready")

LEMMA Signals ==
    ASSUME ThreadsOK, thread' \in SignalOne(thread) \/ thread' \in TellAll(thread)
           \/ UNCHANGED thread
    PROVE  Woken
BY DEF ThreadsOK, SignalOne, TellAll, Woken, ThreadStates

LEMMA WokenThreads ==
    ASSUME ThreadsOK, MainOK, Woken, UNCHANGED <<holds, started>>,
           main' \notin {"serial", "returned"}
    PROVE  ThreadsOK'
BY DEF ThreadsOK, Woken, ThreadStates, MainOK

-----------------------------------------------------------------------------
(* What WriteChunk works on: the first of the submitted messages. *)
First == submitted[1]
ChunkNo == IF nextReady = NoMsg THEN 1 ELSE nextChunk
IsLast == ChunkNo = msgs[First].filled
ChunkOf == IF msgs[First].out[ChunkNo] # 0 THEN msgs[First].out[ChunkNo]
           ELSE msgs[First].in[ChunkNo]

LEMMA WriteChunkDoes ==
    ASSUME IInv, WriteChunk
    PROVE  /\ main = "result" /\ submitted # <<>> /\ msgs[First].complete
           /\ First \in Used /\ First # NoMsg
           /\ nextReady' = (IF IsLast THEN NoMsg ELSE First)
           /\ nextChunk' = ChunkNo + 1
           /\ submitted' = (IF IsLast THEN Tail(submitted) ELSE submitted)
           /\ available' = (IF IsLast THEN Append(available, First) ELSE available)
           /\ \/ /\ written' = Append(written, ChunkOf) /\ ret' = ret
                 /\ main' = (IF IsLast /\ fed < NumChunks THEN "feed" ELSE "result")
              \/ written' = written /\ ret' = "error" /\ main' = "terminate"
           /\ UNCHANGED <<started, thread, holds, queues, nextSubmit, msgs, fed>>
<1>1. main = "result" /\ (nextReady # NoMsg \/ submitted # <<>>)
  BY DEF WriteChunk
<1>2. ChunksOK /\ OwnersOK /\ submitted \in Seq(Nat) /\ started \in Nat
  BY <1>1 DEF IInv, WrittenOK, OwnershipOK, HasMsgs, IsWorking, ListsOK, MainOK
<1>3. submitted # <<>> /\ (nextReady # NoMsg => nextReady = First /\ msgs[First].complete)
  BY <1>1, <1>2 DEF ChunksOK, First
<1>4. First \in Sent /\ Sent \subseteq Used
  <2>1. 1 \in 1..Len(submitted)
    BY <1>2, <1>3
  <2> QED
    BY <1>2, <2>1, IndexOf DEF Sent, First, OwnersOK
<1>5. First \in Used /\ First # NoMsg
  BY <1>2, <1>4, UsedAreNat DEF NoMsg
<1>6. Removed(submitted, First) = Tail(submitted)
  BY <1>2, <1>3, RemovedHead DEF OwnersOK, First
<1>7. (IF nextReady # NoMsg THEN nextReady ELSE FirstIfComplete) # NoMsg
  BY DEF WriteChunk
<1>8. (IF nextReady # NoMsg THEN nextReady ELSE FirstIfComplete) = First /\ msgs[First].complete
  BY <1>3, <1>7 DEF FirstIfComplete, First
<1> QED
  BY <1>1, <1>3, <1>5, <1>6, <1>8 DEF WriteChunk, ChunkNo, IsLast, ChunkOf

(* Feed works on the message that is being filled, or on a free one. *)
Filling == IF nextSubmit # NoMsg THEN nextSubmit ELSE Head(available)
FillTo == IF nextSubmit # NoMsg THEN msgs[Filling].filled + 1 ELSE 1

LEMMA FeedDoes ==
    ASSUME IInv, Feed
    PROVE  /\ main = "feed" /\ fed < NumChunks /\ fed' = fed + 1
           /\ nextSubmit # NoMsg \/ available # <<>>
           /\ Filling \in Used /\ Filling \in Nat \ {0} /\ FillTo \in 1..PerMsg
           /\ available' = (IF nextSubmit # NoMsg THEN available ELSE Tail(available))
           /\ IF FillTo = PerMsg
              THEN /\ submitted' = Append(submitted, Filling)
                   /\ toCompress' = Append(toCompress, Filling)
                   /\ thread' \in SignalOne(thread) /\ nextSubmit' = NoMsg
              ELSE nextSubmit' = Filling /\ UNCHANGED <<submitted, toCompress, thread>>
           /\ UNCHANGED <<main, started, holds, compressed, terminating, nextReady, nextChunk,
                   written, ret>>
<1>1. main = "feed" /\ (nextSubmit # NoMsg \/ available # <<>>)
  BY DEF Feed
<1>2. ChunksOK /\ OwnersOK /\ available \in Seq(Nat) /\ started \in Nat /\ nextSubmit \in Nat
  BY <1>1 DEF IInv, WrittenOK, OwnershipOK, HasMsgs, IsWorking, ListsOK, MainOK
<1>3. Filling \in Used
  <2>1. CASE nextSubmit # NoMsg
    BY <1>2, <2>1 DEF OwnersOK, Filling
  <2>2. CASE nextSubmit = NoMsg
    <3>1. Head(available) \in Free
      BY <1>1, <1>2, <2>2, InTail DEF OwnersOK, Free
    <3> QED
      BY <1>2, <2>2, <3>1 DEF OwnersOK, Filling
  <2> QED
    BY <2>1, <2>2
<1>4. Filling \in Nat \ {0}
  BY <1>2, <1>3, UsedAreNat
<1>5. FillTo \in 1..PerMsg
  BY <1>2, NumbersAssumption DEF ChunksOK, FillTo, Filling
<1> QED
  BY <1>1, <1>3, <1>4, <1>5 DEF Feed, Submit, Filling, FillTo

LEMMA FeedMsgs ==
    ASSUME IInv, Feed
    PROVE  /\ msgs' \in [Used -> Msgs]
           /\ \A m \in Used : m # Filling => msgs'[m] = msgs[m]
           /\ msgs'[Filling].filled = FillTo
           /\ msgs'[Filling].in[FillTo] = fed + 1
           /\ \A i \in 1..PerMsg : i # FillTo => msgs'[Filling].in[i] = msgs[Filling].in[i]
           /\ FillTo = PerMsg => ~msgs'[Filling].complete
<1>1. /\ Filling \in Used /\ FillTo \in 1..PerMsg /\ main = "feed" /\ fed \in Int
      /\ FillTo \in 0..PerMsg
  BY FeedDoes, NumbersAssumption DEF IInv, MainOK
<1>2. msgs \in [Used -> Msgs] /\ msgs[Filling] \in Msgs
  BY <1>1 DEF IInv, OwnershipOK, HasMsgs, IsWorking
<1>3. /\ msgs[Filling].in \in [1..PerMsg -> Int]
      /\ msgs[Filling].complete \in BOOLEAN
  BY <1>2 DEF Msgs, Buffers
<1>4. PICK in : /\ in \in Buffers /\ in[FillTo] = fed + 1
                /\ \A i \in 1..PerMsg : i # FillTo => in[i] = msgs[Filling].in[i]
                /\ in = [msgs[Filling].in EXCEPT ![FillTo] = fed + 1]
  <2>1. PICK old \in [1..PerMsg -> Int] : old = msgs[Filling].in
    BY <1>3
  <2>2. PICK new : new = [old EXCEPT ![FillTo] = fed + 1]
    OBVIOUS
  <2>3. fed + 1 \in Int
    BY <1>1
  <2>4. new \in [1..PerMsg -> Int]
    BY <2>2, <2>3
  <2>5. new[FillTo] = fed + 1 /\ \A i \in 1..PerMsg : i # FillTo => new[i] = old[i]
    BY <1>1, <2>2
  <2> QED
    BY <2>1, <2>2, <2>4, <2>5 DEF Buffers
<1>5. PICK c \in BOOLEAN : /\ c = (IF FillTo = PerMsg THEN FALSE ELSE msgs[Filling].complete)
                           /\ FillTo = PerMsg => ~c
  BY <1>3
<1>6. msgs' = [msgs EXCEPT ![Filling].filled = FillTo, ![Filling].in[FillTo] = fed + 1,
                           ![Filling].complete = IF FillTo = PerMsg THEN FALSE ELSE @]
  BY DEF Feed, Filling, FillTo
<1>7. msgs' = [msgs EXCEPT ![Filling].filled = FillTo, ![Filling].in = in, ![Filling].complete = c]
  BY <1>1, <1>2, <1>4, <1>5, <1>6 DEF Msgs
<1>8. msgs' \in [Used -> Msgs]
  BY <1>1, <1>2, <1>4, <1>7 DEF Msgs
<1>9. /\ msgs'[Filling].filled = FillTo /\ msgs'[Filling].in = in /\ msgs'[Filling].complete = c
      /\ \A m \in Used : m # Filling => msgs'[m] = msgs[m]
  BY <1>1, <1>2, <1>7 DEF Msgs
<1> QED
  BY <1>4, <1>5, <1>8, <1>9

LEMMA CompressMsgs ==
    ASSUME IInv, NEW t \in Threads, Compress(t), HasMsgs, holds[t] \in Used
    PROVE  /\ msgs' \in [Used -> Msgs]
           /\ \A m \in Used : m # holds[t] => msgs'[m] = msgs[m]
           /\ msgs'[holds[t]].filled = msgs[holds[t]].filled
           /\ msgs'[holds[t]].complete = msgs[holds[t]].complete
           /\ \A i \in 1..PerMsg : i <= msgs[holds[t]].filled =>
                 LET n == msgs[holds[t]].in[i] IN
                 \/ msgs'[holds[t]].out[i] = n
                 \/ msgs'[holds[t]].out[i] = 0 /\ msgs'[holds[t]].in[i] = n
<1>1. PICK h \in Used : h = holds[t]
  OBVIOUS
<1>2. msgs \in [Used -> Msgs] /\ msgs[h] \in Msgs
  BY <1>1 DEF IInv, OwnershipOK
<1>3. PICK msg \in Msgs : msg = msgs[h]
  BY <1>2
<1>4. msg.in \in [1..PerMsg -> Int] /\ msg.out \in [1..PerMsg -> Int] /\ msg.filled \in Int
  BY NumbersAssumption DEF Msgs, Buffers
<1>a. \A i \in 1..PerMsg : msg.in[i] \in Int
  BY <1>4
<1>b. \A i \in 1..PerMsg : msg.out[i] \in Int
  BY <1>4
<1>5. PICK newOut : newOut = [i \in 1..PerMsg |->
              IF i > msg.filled THEN msg.out[i]
              ELSE IF msg.in[i] \in Incompressible THEN 0 ELSE msg.in[i]]
  OBVIOUS
<1>6. PICK newIn : newIn = [i \in 1..PerMsg |->
              IF i <= msg.filled /\ msg.in[i] \notin Incompressible THEN Spoilt ELSE msg.in[i]]
  OBVIOUS
<1>7. newOut \in Buffers
  BY <1>a, <1>b, <1>5 DEF Buffers
<1>8. newIn \in Buffers
  BY <1>a, <1>6 DEF Buffers, Spoilt
<1>9. msgs' = [msgs EXCEPT ![h].out = newOut, ![h].in = newIn]
  BY <1>1, <1>2, <1>3, <1>5, <1>6 DEF Compress
<1>10. msgs' \in [Used -> Msgs]
  BY <1>2, <1>7, <1>8, <1>9 DEF Msgs
<1>11. /\ msgs'[h].out = newOut /\ msgs'[h].in = newIn
       /\ msgs'[h].filled = msgs[h].filled /\ msgs'[h].complete = msgs[h].complete
       /\ \A m \in Used : m # h => msgs'[m] = msgs[m]
  BY <1>2, <1>9 DEF Msgs
<1>12. \A i \in 1..PerMsg : i <= msg.filled =>
          \/ newOut[i] = msg.in[i]
          \/ newOut[i] = 0 /\ newIn[i] = msg.in[i]
  BY <1>4, <1>5, <1>6
<1> QED
  BY <1>1, <1>3, <1>10, <1>11, <1>12

LEMMA MarkMsgs ==
    ASSUME msgs \in [Used -> Msgs], NEW m \in Used, NEW c \in BOOLEAN,
           msgs' = [msgs EXCEPT ![m].complete = c]
    PROVE  /\ msgs' \in [Used -> Msgs]
           /\ \A x \in Used : x # m => msgs'[x] = msgs[x]
           /\ msgs'[m].complete = c /\ msgs'[m].filled = msgs[m].filled
           /\ msgs'[m].in = msgs[m].in /\ msgs'[m].out = msgs[m].out
BY DEF Msgs

(* A thread at work, or a message in the queue, means there are messages.  *)
LEMMA BusyThread ==
    ASSUME IInv, NEW t \in Threads, thread[t] = "busy"
    PROVE  HasMsgs /\ OwnersOK /\ holds[t] \in AtWork /\ holds[t] \in Used /\ holds[t] \in Nat \ {0}
<1>1. holds[t] \in AtWork /\ holds[t] # NoMsg /\ main \notin {"serial", "returned"}
  BY DEF IInv, ThreadsOK, AtWork
<1>2. HasMsgs /\ OwnersOK
  BY <1>1 DEF IInv, OwnershipOK, NothingOwned, HasMsgs, IsWorking, MainOK, Mains
<1>3. holds[t] \in Used
  BY <1>1, <1>2 DEF OwnersOK
<1>4. holds[t] \in Nat \ {0}
  BY <1>1 DEF IInv, ThreadsOK, NoMsg
<1> QED
  BY <1>1, <1>2, <1>3, <1>4

LEMMA QueuedMessage ==
    ASSUME IInv, NEW t \in Threads, Get(t), ~terminating, toCompress # <<>>
    PROVE  /\ HasMsgs /\ OwnersOK
           /\ Head(toCompress) \in Queued /\ Head(toCompress) \in Used
           /\ Head(toCompress) \in Nat \ {0}
<1>1. main \notin {"serial", "returned"}
  BY DEF IInv, ThreadsOK, Get
<1>2. HasMsgs /\ OwnersOK
  BY <1>1 DEF IInv, OwnershipOK, NothingOwned, HasMsgs, IsWorking, MainOK, Mains
<1>3. Head(toCompress) \in Queued
  BY <1>2, InTail DEF IInv, ListsOK, OwnersOK, Queued
<1>4. Head(toCompress) \in Used /\ started \in Nat
  BY <1>2, <1>3 DEF OwnersOK, IInv, MainOK
<1> QED
  BY <1>2, <1>3, <1>4, UsedAreNat

-----------------------------------------------------------------------------
(* The state of write_blob_list, the threads and the lists.                *)
LEMMA ThreadsNext ==
    ASSUME IInv, [Next]_vars
    PROVE  ThreadsOK'
<1>1. ThreadsOK /\ MainOK
  BY DEF IInv
<1>2. ASSUME thread' \in SignalOne(thread) \/ thread' \in TellAll(thread) \/ UNCHANGED thread,
             UNCHANGED <<holds, started>>, main' \notin {"serial", "returned"}
      PROVE  ThreadsOK'
  <2>1. Woken
    BY <1>1, <1>2, Signals
  <2> QED
    BY <1>1, <1>2, <2>1, WokenThreads
<1>3. CASE StartThread
  <2>1. /\ started + 1 \in Threads /\ started' = started + 1 /\ main' = "create"
        /\ thread' = [thread EXCEPT ![started + 1] = "ready"] /\ holds' = holds
        /\ started \in Nat
    BY <1>1, <1>3, NumbersAssumption DEF StartThread, Threads, MainOK
  <2>2. \A t \in Threads : t \in Int
    BY NumbersAssumption DEF Threads
  <2>3. /\ thread[started + 1] = "none" /\ thread' \in [Threads -> ThreadStates]
        /\ \A t \in Threads : thread'[t] = IF t = started + 1 THEN "ready" ELSE thread[t]
    BY <1>1, <2>1, <2>2 DEF ThreadsOK, ThreadStates
  <2> QED
    BY <1>1, <2>1, <2>2, <2>3 DEF ThreadsOK
<1>4. CASE StartThreadFails
  BY <1>2, <1>4 DEF StartThreadFails
<1>5. CASE Allocate
  BY <1>2, <1>5 DEF Allocate
<1>6. CASE Feed
  BY <1>2, <1>6, FeedDoes
<1>7. CASE NoBuffer \/ AwaitResult \/ ReadFails \/ AllWritten \/ Terminate
  BY <1>2, <1>7 DEF NoBuffer, AwaitResult, ReadFails, AllWritten, Terminate
<1>8. CASE Finish
  BY <1>2, <1>8 DEF Finish, Submit
<1>9. CASE WriteChunk
  BY <1>2, <1>9, WriteChunkDoes
<1>10. CASE Destroy
  BY <1>1, <1>10 DEF Destroy, AllJoined, ThreadsOK, ThreadStates, Threads, MainOK
<1>11. CASE Serial
  BY <1>1, <1>11 DEF Serial, ThreadsOK
<1>12. ASSUME NEW t \in Threads, Get(t) PROVE ThreadsOK'
  <2>1. CASE terminating
    BY <1>1, <1>12, <2>1 DEF Get, ThreadsOK, ThreadStates
  <2>2. CASE ~terminating /\ toCompress = <<>>
    BY <1>1, <1>12, <2>2 DEF Get, ThreadsOK, ThreadStates
  <2>3. CASE ~terminating /\ toCompress # <<>>
    <3>1. /\ Head(toCompress) \in Nat /\ Head(toCompress) # NoMsg
          /\ \A u \in Threads : holds[u] # Head(toCompress)
      BY <1>12, <2>3, QueuedMessage DEF OwnersOK, AtWork, NoMsg
    <3>2. /\ thread' = [thread EXCEPT ![t] = "busy"] /\ thread[t] = "ready"
          /\ holds' = [holds EXCEPT ![t] = Head(toCompress)]
          /\ UNCHANGED <<main, started>>
      BY <1>12, <2>3 DEF Get
    <3> QED
      BY <1>1, <3>1, <3>2 DEF ThreadsOK, ThreadStates
  <2> QED
    BY <2>1, <2>2, <2>3
<1>13. ASSUME NEW t \in Threads, Compress(t) PROVE ThreadsOK'
  <2>1. /\ thread[t] = "busy" /\ thread' = [thread EXCEPT ![t] = "ready"]
        /\ holds' = [holds EXCEPT ![t] = NoMsg] /\ UNCHANGED started
        /\ main' = IF main = "waiting" THEN "result" ELSE main
    BY <1>13 DEF Compress
  <2>2. main \notin {"serial", "returned"}
    BY <1>1, <2>1 DEF ThreadsOK
  <2> QED
    BY <1>1, <2>1, <2>2 DEF ThreadsOK, ThreadStates, NoMsg
<1>14. CASE UNCHANGED vars
  BY <1>1, <1>14 DEF vars, ThreadsOK
<1> QED
  BY <1>3, <1>4, <1>5, <1>6, <1>7, <1>8, <1>9, <1>10, <1>11, <1>12, <1>13, <1>14
     DEF Next, Main

LEMMA MainNext ==
    ASSUME IInv, [Next]_vars
    PROVE  MainOK'
<1>1. MainOK
  BY DEF IInv
<1> USE DEF MainOK, Mains
<1>2. CASE StartThread \/ StartThreadFails \/ Allocate
  BY <1>1, <1>2, NumbersAssumption DEF StartThread, StartThreadFails, Allocate
<1>3. CASE NoBuffer \/ Finish \/ ReadFails \/ AllWritten \/ Terminate \/ Destroy
  BY <1>1, <1>3 DEF NoBuffer, Finish, Submit, ReadFails, AllWritten, Terminate, Destroy
<1>4. CASE AwaitResult
  BY <1>1, <1>4 DEF AwaitResult
<1>5. CASE Feed
  <2>1. fed < NumChunks /\ fed' = fed + 1 /\ UNCHANGED <<main, started, written, ret>>
    BY <1>5, FeedDoes
  <2> QED
    BY <1>1, <2>1, NumbersAssumption
<1>6. CASE Serial
  <2>1. \/ fed < NumChunks /\ fed' = fed + 1 /\ written' = Append(written, fed + 1)
           /\ UNCHANGED <<main, ret>>
        \/ main' = "returned" /\ ret' \in {"success", "error"} /\ UNCHANGED <<fed, written>>
    BY <1>6 DEF Serial
  <2>2. UNCHANGED started /\ main = "serial"
    BY <1>6 DEF Serial
  <2>3. fed' \in 0..NumChunks /\ written' \in Seq(Int)
    <3>1. fed \in 0..NumChunks /\ NumChunks \in Nat /\ written \in Seq(Int)
      BY <1>1, NumbersAssumption
    <3>2. CASE UNCHANGED <<fed, written>>
      BY <3>1, <3>2
    <3>3. CASE fed < NumChunks /\ fed' = fed + 1 /\ written' = Append(written, fed + 1)
      <4>1. fed + 1 \in Int /\ fed' \in 0..NumChunks
        BY ONLY <3>1, <3>3
      <4>2. PICK x \in Int : x = fed + 1
        BY <4>1
      <4>3. written' \in Seq(Int)
        BY ONLY <3>1, <3>3, <4>2
      <4> QED
        BY <4>1, <4>3
    <3> QED
      BY <2>1, <3>2, <3>3
  <2> QED
    BY <1>1, <2>1, <2>2, <2>3
<1>7. CASE WriteChunk
  <2>1. ChunkOf \in Int
    <3>1. /\ msgs[First] \in Msgs /\ ChunkNo \in 1..PerMsg
      <4>1. First \in Used /\ main = "result" /\ submitted # <<>>
        BY <1>7, WriteChunkDoes
      <4>2. msgs \in [Used -> Msgs] /\ ChunksOK /\ submitted \in Seq(Nat)
        BY <4>1 DEF IInv, OwnershipOK, WrittenOK, HasMsgs, IsWorking, ListsOK
      <4>3. msgs[First] \in Msgs /\ msgs[First].filled \in 0..PerMsg
        BY <4>1, <4>2 DEF Msgs
      <4>4. nextReady # NoMsg => nextChunk \in 1..PerMsg
        BY <4>2, <4>3, NumbersAssumption DEF ChunksOK, First
      <4> QED
        BY <4>3, <4>4, NumbersAssumption DEF ChunkNo
    <3>2. msgs[First].in \in [1..PerMsg -> Int] /\ msgs[First].out \in [1..PerMsg -> Int]
      BY <3>1 DEF Msgs, Buffers
    <3> QED
      BY <3>1, <3>2 DEF ChunkOf
  <2> HIDE DEF Mains
  <2>2. written' \in Seq(Int)
    <3>1. PICK c \in Int : c = ChunkOf
      BY <2>1
    <3>2. written' = Append(written, c) \/ written' = written
      BY <1>7, <3>1, WriteChunkDoes
    <3>3. written \in Seq(Int)
      BY <1>1
    <3> QED
      BY ONLY <3>2, <3>3, c \in Int
  <2>3. main = "result" /\ ret = "none" /\ UNCHANGED <<started, fed>>
    BY <1>1, <1>7, WriteChunkDoes
  <2>4. (ret' = "none" /\ main' \in {"feed", "result"}) \/ (ret' = "error" /\ main' = "terminate")
    BY <1>7, <2>3, WriteChunkDoes
  <2> QED
    BY <1>1, <2>2, <2>3, <2>4 DEF Mains
<1>8. ASSUME NEW t \in Threads, Get(t) \/ Compress(t) PROVE MainOK'
  BY <1>1, <1>8 DEF Get, Compress
<1>9. CASE UNCHANGED vars
  BY <1>1, <1>9 DEF vars
<1> QED
  BY <1>2, <1>3, <1>4, <1>5, <1>6, <1>7, <1>8, <1>9 DEF Next, Main

LEMMA SeqTypes ==
    /\ \A s \in Seq(Nat) : s # <<>> => Tail(s) \in Seq(Nat)
    /\ \A s \in Seq(Nat), x \in Nat : Append(s, x) \in Seq(Nat)
OBVIOUS

LEMMA ListsNext ==
    ASSUME IInv, [Next]_vars
    PROVE  ListsOK'
<1>1. ListsOK /\ MainOK
  BY DEF IInv
<1> USE DEF ListsOK
<1>2. CASE UNCHANGED <<toCompress, compressed, lists>>
  BY <1>1, <1>2 DEF lists
<1>3. CASE Allocate
  <2>1. \A n \in Nat : [i \in 1..n |-> i] \in Seq(Nat)
    OBVIOUS
  <2>2. started * MsgsPerThread \in Nat
    BY <1>1, NumbersAssumption DEF MainOK
  <2>3. available' = available \/ available' = [i \in Used |-> i]
    BY <1>3 DEF Allocate
  <2>4. available' \in Seq(Nat)
    BY <1>1, <2>1, <2>2, <2>3 DEF Used
  <2> QED
    BY <1>1, <1>3, <2>4 DEF Allocate, queues
<1>4. CASE Feed
  <2>1. Filling \in Nat /\ NoMsg \in Nat
    BY <1>4, FeedDoes DEF NoMsg
  <2>2. available' \in Seq(Nat)
    BY <1>1, <1>4, FeedDoes, SeqTypes
  <2>3. submitted' \in Seq(Nat) /\ toCompress' \in Seq(Nat) /\ nextSubmit' \in Nat
    BY <1>1, <1>4, <2>1, FeedDoes, SeqTypes
  <2> QED
    BY <1>1, <1>4, <2>2, <2>3, FeedDoes
<1>5. CASE Finish
  <2>1. submitted' \in Seq(Nat) /\ toCompress' \in Seq(Nat) /\ nextSubmit' \in Nat
    <3>1. PICK a \in Seq(Nat), b \in Seq(Nat) :
             a = Append(submitted, nextSubmit) /\ b = Append(toCompress, nextSubmit)
      BY <1>1, SeqTypes
    <3>2. \/ submitted' = submitted /\ toCompress' = toCompress /\ nextSubmit' = nextSubmit
          \/ submitted' = a /\ toCompress' = b /\ nextSubmit' = 0
      BY <1>5, <3>1 DEF Finish, Submit, NoMsg
    <3>3. ListsOK
      BY <1>1
    <3> QED
      BY <3>2, <3>3
  <2> QED
    BY <1>1, <1>5, <2>1 DEF Finish
<1>6. CASE AwaitResult
  <2>1. compressed' \in Seq(Nat)
    BY <1>1, <1>6, SeqTypes DEF AwaitResult
  <2> QED
    BY <1>1, <1>6, <2>1 DEF AwaitResult, lists
<1>7. CASE WriteChunk
  <2>1. First \in Nat /\ ChunkNo \in Nat
    <3>1. First \in Used /\ started \in Nat
      BY <1>1, <1>7, WriteChunkDoes DEF MainOK
    <3> QED
      BY <1>1, <3>1, UsedAreNat DEF ChunkNo
  <2>2. submitted' \in Seq(Nat) /\ available' \in Seq(Nat)
    BY <1>1, <1>7, <2>1, WriteChunkDoes, SeqTypes
  <2>3. nextReady' \in Nat /\ nextChunk' \in Nat
    BY <1>7, <2>1, WriteChunkDoes DEF NoMsg
  <2>4. UNCHANGED <<toCompress, compressed, nextSubmit>>
    BY <1>7, WriteChunkDoes DEF queues
  <2> QED
    BY <1>1, <2>2, <2>3, <2>4
<1>8. ASSUME NEW t \in Threads, Get(t) PROVE ListsOK'
  <2>1. toCompress' \in Seq(Nat)
    BY <1>1, <1>8, SeqTypes DEF Get
  <2> QED
    BY <1>1, <1>8, <2>1 DEF Get, lists
<1>9. ASSUME NEW t \in Threads, Compress(t) PROVE ListsOK'
  <2>1. holds[t] \in Nat
    BY <1>9, BusyThread DEF Compress
  <2> QED
    BY <1>1, <1>9, <2>1 DEF Compress, lists
<1>10. CASE StartThread \/ StartThreadFails \/ NoBuffer \/ ReadFails \/ AllWritten
             \/ Terminate \/ Destroy \/ Serial \/ UNCHANGED vars
  BY <1>2, <1>10 DEF StartThread, StartThreadFails, NoBuffer, ReadFails, AllWritten,
     Terminate, Destroy, Serial, queues, vars
<1> QED
  BY <1>3, <1>4, <1>5, <1>6, <1>7, <1>8, <1>9, <1>10 DEF Next, Main

-----------------------------------------------------------------------------
(* The owners. *)
LEMMA OwnersFrame ==
    ASSUME UNCHANGED <<available, submitted, nextSubmit, toCompress, compressed, holds, msgs, started>>
    PROVE  /\ OwnersOK' <=> OwnersOK
           /\ UNCHANGED nextReady => (NothingOwned' <=> NothingOwned)
BY DEF OwnersOK, NothingOwned, Free, Sent, Queued, AtWork, Back, Used

LEMMA GetOwners ==
    ASSUME IInv, NEW t \in Threads, Get(t), HasMsgs
    PROVE  OwnersOK'
<1>1. OwnersOK /\ ThreadsOK /\ toCompress \in Seq(Nat)
  BY DEF IInv, OwnershipOK, ListsOK
<1>2. CASE terminating \/ toCompress = <<>>
  BY <1>1, <1>2, OwnersFrame DEF Get, lists
<1>3. CASE ~terminating /\ toCompress # <<>>
  <2> DEFINE h == Head(toCompress)
  <2>1. /\ holds' = [holds EXCEPT ![t] = h] /\ toCompress' = Tail(toCompress)
        /\ UNCHANGED <<available, submitted, nextSubmit, compressed, msgs, started>>
        /\ thread[t] = "ready"
    BY <1>3 DEF Get, lists
  <2>2. Queued' = Queued \ {h} /\ h \in Queued /\ Distinct(toCompress)'
    BY <1>1, <1>3, <2>1, InTail DEF OwnersOK, Queued, Distinct
  <2>3. h \in Nat \ {0}
    BY <1>3, QueuedMessage
  <2>4. holds[t] = NoMsg /\ holds \in [Threads -> Nat]
    BY <1>1, <2>1 DEF ThreadsOK
  <2>5. AtWork' = AtWork \cup {h}
    <3> HIDE DEF h
    <3>1. \A u \in Threads : holds'[u] = IF u = t THEN h ELSE holds[u]
      BY <2>1, <2>4
    <3> QED
      BY <2>3, <2>4, <3>1 DEF AtWork, NoMsg
  <2>6. Free' = Free /\ Sent' = Sent /\ Back' = Back /\ Used' = Used
    BY <2>1 DEF Free, Sent, Back, Used
  <2> HIDE DEF h
  <2> QED
    BY <1>1, <2>1, <2>2, <2>5, <2>6 DEF OwnersOK, Distinct
<1> QED
  BY <1>2, <1>3

LEMMA CompressOwners ==
    ASSUME IInv, NEW t \in Threads, Compress(t)
    PROVE  OwnersOK'
<1>1. /\ OwnersOK /\ HasMsgs /\ holds[t] \in AtWork /\ holds[t] \in Used
      /\ holds[t] \in Nat \ {0} /\ ThreadsOK /\ compressed \in Seq(Nat)
  BY BusyThread DEF Compress, IInv, ListsOK
<1>2. PICK h \in Nat \ {0} : h = holds[t]
  BY <1>1
<1>3. /\ holds' = [holds EXCEPT ![t] = NoMsg] /\ compressed' = Append(compressed, h)
      /\ UNCHANGED <<available, submitted, nextSubmit, toCompress, started>>
  BY <1>2 DEF Compress, lists
<1>4. h \notin Back /\ h \in Sent
  BY <1>1, <1>2 DEF OwnersOK
<1>5. Back' = Back \cup {h} /\ Distinct(compressed)'
  BY <1>1, <1>3, <1>4, InAppend DEF OwnersOK, Back, Distinct
<1>6. AtWork' = AtWork \ {h}
  <2>1. \A u \in Threads : holds'[u] = IF u = t THEN NoMsg ELSE holds[u]
    BY <1>1, <1>3 DEF ThreadsOK
  <2>2. \A u \in Threads : holds[u] = h => u = t
    BY <1>1, <1>2 DEF ThreadsOK, NoMsg
  <2> QED
    BY <1>2, <2>1, <2>2 DEF AtWork, NoMsg
<1>7. Free' = Free /\ Sent' = Sent /\ Queued' = Queued /\ Used' = Used
  BY <1>3 DEF Free, Sent, Queued, Used
<1>8. \A m \in Used : msgs'[m].complete = msgs[m].complete
  BY <1>1, CompressMsgs
<1>9. \A m \in Sent' : msgs'[m].complete <=> m \notin Queued' \cup AtWork' \cup Back'
  <2>1. Queued' \cup AtWork' \cup Back' = Queued \cup AtWork \cup Back
    BY <1>1, <1>2, <1>5, <1>6, <1>7
  <2>2. \A m \in Sent : m \in Used /\ (msgs[m].complete <=> m \notin Queued \cup AtWork \cup Back)
    BY <1>1 DEF OwnersOK
  <2> QED
    BY <1>7, <1>8, <2>1, <2>2
<1>10. /\ Queued' \subseteq Sent' /\ AtWork' \subseteq Sent' /\ Back' \subseteq Sent'
       /\ Queued' \cap AtWork' = {} /\ Queued' \cap Back' = {} /\ AtWork' \cap Back' = {}
  BY <1>1, <1>2, <1>4, <1>5, <1>6, <1>7 DEF OwnersOK
<1> QED
  BY <1>1, <1>3, <1>5, <1>7, <1>9, <1>10 DEF OwnersOK, Distinct

(* A message that is nobody's but the writing thread's is submitted.       *)
LEMMA SubmitOwners ==
    ASSUME OwnersOK, ListsOK, NEW f \in Used, f \in Nat \ {0}, f \notin Sent,
           submitted' = Append(submitted, f), toCompress' = Append(toCompress, f)
    PROVE  /\ Sent' = Sent \cup {f} /\ Queued' = Queued \cup {f}
           /\ Distinct(submitted') /\ Distinct(toCompress')
<1>1. f \notin Queued
  BY DEF OwnersOK
<1> QED
  BY <1>1, InAppend DEF OwnersOK, ListsOK, Sent, Queued

LEMMA FeedOwners ==
    ASSUME IInv, Feed
    PROVE  OwnersOK'
<1>1. OwnersOK /\ ListsOK /\ msgs \in [Used -> Msgs]
  BY FeedDoes DEF IInv, OwnershipOK, HasMsgs, IsWorking
<1>2. PICK f \in Nat \ {0} : f = Filling /\ f \in Used
  BY FeedDoes
<1>3. Back' = Back /\ AtWork' = AtWork /\ Used' = Used /\ Distinct(compressed')
  BY <1>1, FeedDoes DEF Back, AtWork, Used, OwnersOK
<1>4. /\ Distinct(available') /\ Free' = Free \ {f}
      /\ f \notin Sent /\ (\A m \in Used : m \in Free \/ m \in Sent \/ m = f)
      /\ \A m \in Free : nextSubmit # NoMsg => m # f
      /\ nextSubmit # NoMsg => nextSubmit = f
  <2>1. CASE nextSubmit # NoMsg
    <3>1. f = nextSubmit /\ available' = available
      BY <1>2, <2>1, FeedDoes DEF Filling
    <3> QED
      BY <1>1, <3>1 DEF OwnersOK, Free
  <2>2. CASE nextSubmit = NoMsg
    <3>1. f = Head(available) /\ available' = Tail(available) /\ available # <<>>
      BY <1>2, <2>2, FeedDoes DEF Filling
    <3>2. Free' = Free \ {f} /\ f \in Free /\ Distinct(available')
      BY <1>1, <3>1, InTail DEF OwnersOK, ListsOK, Free
    <3>3. \A m \in Used : m \in Free \/ m \in Sent
      BY <1>1, <2>2, UsedAreNat DEF OwnersOK, NoMsg, IInv, MainOK
    <3> QED
      BY <1>1, <2>2, <3>2, <3>3 DEF OwnersOK
  <2> QED
    BY <2>1, <2>2
<1>5. f \notin Queued \cup AtWork \cup Back
  BY <1>1, <1>4 DEF OwnersOK
<1>6. \A m \in Sent : m \in Used /\ msgs'[m].complete = msgs[m].complete
  BY <1>1, <1>2, <1>4, FeedMsgs DEF OwnersOK
<1>7. CASE FillTo = PerMsg
  <2>1. /\ submitted' = Append(submitted, f) /\ toCompress' = Append(toCompress, f)
        /\ nextSubmit' = NoMsg
    BY <1>2, <1>7, FeedDoes
  <2>2. /\ Sent' = Sent \cup {f} /\ Queued' = Queued \cup {f}
        /\ Distinct(submitted') /\ Distinct(toCompress')
    BY <1>1, <1>2, <1>4, <2>1, SubmitOwners
  <2>3. \A m \in Sent' : msgs'[m].complete <=> m \notin Queued' \cup AtWork' \cup Back'
    BY <1>1, <1>2, <1>3, <1>4, <1>5, <1>6, <1>7, <2>2, FeedMsgs DEF OwnersOK
  <2>4. /\ Queued' \subseteq Sent' /\ AtWork' \subseteq Sent' /\ Back' \subseteq Sent'
        /\ Queued' \cap AtWork' = {} /\ Queued' \cap Back' = {} /\ AtWork' \cap Back' = {}
    BY <1>1, <1>3, <1>5, <2>2 DEF OwnersOK
  <2>5. NoMsg \notin Used
    BY UsedAreNat DEF IInv, MainOK, NoMsg
  <2>6. /\ Free' \subseteq Used' /\ Sent' \subseteq Used' /\ nextSubmit' \in Used' \cup {NoMsg}
        /\ Free' \cap Sent' = {} /\ nextSubmit' \notin Free' \cup Sent'
        /\ \A m \in Used' : m \in Free' \/ m \in Sent' \/ m = nextSubmit'
    BY <1>1, <1>2, <1>3, <1>4, <2>1, <2>2, <2>5 DEF OwnersOK
  <2> QED
    BY <1>3, <1>4, <2>2, <2>3, <2>4, <2>6 DEF OwnersOK, Distinct
<1>8. CASE FillTo # PerMsg
  <2>1. nextSubmit' = f /\ UNCHANGED <<submitted, toCompress>>
    BY <1>2, <1>8, FeedDoes
  <2>2. Sent' = Sent /\ Queued' = Queued /\ Distinct(submitted') /\ Distinct(toCompress')
    BY <1>1, <2>1 DEF OwnersOK, Sent, Queued
  <2>3. \A m \in Sent' : msgs'[m].complete <=> m \notin Queued' \cup AtWork' \cup Back'
    BY <1>1, <1>3, <1>6, <2>2 DEF OwnersOK
  <2>4. /\ Free' \subseteq Used' /\ Sent' \subseteq Used' /\ nextSubmit' \in Used' \cup {NoMsg}
        /\ Free' \cap Sent' = {} /\ nextSubmit' \notin Free' \cup Sent'
        /\ \A m \in Used' : m \in Free' \/ m \in Sent' \/ m = nextSubmit'
    BY <1>1, <1>2, <1>3, <1>4, <2>1, <2>2 DEF OwnersOK
  <2> QED
    BY <1>1, <1>3, <1>4, <2>2, <2>3, <2>4 DEF OwnersOK, Distinct
<1> QED
  BY <1>7, <1>8

LEMMA FinishDoes ==
    ASSUME IInv, Finish
    PROVE  /\ main = "feed" /\ fed = NumChunks /\ main' = "result"
           /\ UNCHANGED <<started, holds, compressed, available, nextReady, nextChunk, fed, written, ret>>
           /\ \/ /\ nextSubmit = NoMsg
                 /\ UNCHANGED <<submitted, toCompress, nextSubmit, msgs>>
              \/ /\ nextSubmit \in Used /\ nextSubmit \in Nat \ {0}
                 /\ submitted' = Append(submitted, nextSubmit)
                 /\ toCompress' = Append(toCompress, nextSubmit)
                 /\ nextSubmit' = NoMsg
                 /\ msgs' = [msgs EXCEPT ![nextSubmit].complete = FALSE]
<1>1. main = "feed" /\ OwnersOK /\ nextSubmit \in Nat
  BY DEF Finish, IInv, OwnershipOK, HasMsgs, IsWorking, ListsOK
<1>2. nextSubmit # NoMsg => nextSubmit \in Used /\ nextSubmit \in Nat \ {0}
  BY <1>1 DEF OwnersOK, NoMsg
<1> QED
  BY <1>1, <1>2 DEF Finish, Submit

LEMMA FinishOwners ==
    ASSUME IInv, Finish
    PROVE  OwnersOK' /\ msgs' \in [Used -> Msgs]
<1>1. OwnersOK /\ ListsOK /\ msgs \in [Used -> Msgs]
  BY FinishDoes DEF IInv, OwnershipOK, HasMsgs, IsWorking
<1>2. CASE UNCHANGED <<submitted, toCompress, nextSubmit, msgs>>
  BY <1>1, <1>2, FinishDoes, OwnersFrame
<1>3. CASE nextSubmit \in Used /\ nextSubmit \in Nat \ {0}
  <2>1. PICK f \in Nat \ {0} : f = nextSubmit /\ f \in Used
    BY <1>3
  <2>2. /\ submitted' = Append(submitted, f) /\ toCompress' = Append(toCompress, f)
        /\ nextSubmit' = NoMsg /\ msgs' = [msgs EXCEPT ![f].complete = FALSE]
    BY <1>3, <2>1, FinishDoes DEF NoMsg
  <2>3. f \notin Free \cup Sent /\ f \notin Queued \cup AtWork \cup Back
    BY <1>1, <2>1 DEF OwnersOK
  <2>4. /\ Sent' = Sent \cup {f} /\ Queued' = Queued \cup {f}
        /\ Distinct(submitted') /\ Distinct(toCompress')
    BY <1>1, <2>1, <2>2, <2>3, SubmitOwners
  <2>5. /\ msgs' \in [Used -> Msgs] /\ ~msgs'[f].complete
        /\ \A m \in Used : m # f => msgs'[m] = msgs[m]
    BY <1>1, <2>1, <2>2, MarkMsgs
  <2>6. /\ Free' = Free /\ AtWork' = AtWork /\ Back' = Back /\ Used' = Used
        /\ Distinct(available') /\ Distinct(compressed')
    BY <1>1, FinishDoes DEF Free, AtWork, Back, Used, OwnersOK
  <2>7. \A m \in Sent' : msgs'[m].complete <=> m \notin Queued' \cup AtWork' \cup Back'
    BY <1>1, <2>1, <2>3, <2>4, <2>5, <2>6 DEF OwnersOK
  <2>8. /\ Queued' \subseteq Sent' /\ AtWork' \subseteq Sent' /\ Back' \subseteq Sent'
        /\ Queued' \cap AtWork' = {} /\ Queued' \cap Back' = {} /\ AtWork' \cap Back' = {}
    BY <1>1, <2>3, <2>4, <2>6 DEF OwnersOK
  <2>9. NoMsg \notin Used
    BY UsedAreNat DEF IInv, MainOK, NoMsg
  <2>10. /\ Free' \subseteq Used' /\ Sent' \subseteq Used' /\ nextSubmit' \in Used' \cup {NoMsg}
         /\ Free' \cap Sent' = {} /\ nextSubmit' \notin Free' \cup Sent'
         /\ \A m \in Used' : m \in Free' \/ m \in Sent' \/ m = nextSubmit'
    BY <1>1, <2>1, <2>2, <2>3, <2>4, <2>6, <2>9 DEF OwnersOK
  <2> QED
    BY <2>4, <2>5, <2>6, <2>7, <2>8, <2>10 DEF OwnersOK, Distinct
<1> QED
  BY <1>2, <1>3, FinishDoes

LEMMA AwaitDoes ==
    ASSUME IInv, AwaitResult
    PROVE  /\ main = "result" /\ nextReady = NoMsg /\ main' \in {"result", "waiting"}
           /\ UNCHANGED <<started, thread, holds, toCompress, available, submitted, nextSubmit,
                          nextReady, nextChunk, fed, written, ret>>
           /\ \/ UNCHANGED <<compressed, msgs>>
              \/ /\ compressed # <<>> /\ compressed' = Tail(compressed)
                 /\ Head(compressed) \in Back /\ Head(compressed) \in Used
                 /\ msgs' = [msgs EXCEPT ![Head(compressed)].complete = TRUE]
<1>1. main = "result" /\ OwnersOK /\ compressed \in Seq(Nat)
  BY DEF AwaitResult, IInv, OwnershipOK, HasMsgs, IsWorking, ListsOK
<1>2. compressed # <<>> => Head(compressed) \in Back /\ Head(compressed) \in Used
  <2>1. compressed # <<>> => Head(compressed) \in Back
    BY <1>1, InTail DEF OwnersOK, Back
  <2> QED
    BY <1>1, <2>1 DEF OwnersOK
<1> QED
  BY <1>1, <1>2 DEF AwaitResult, lists

LEMMA AwaitOwners ==
    ASSUME IInv, AwaitResult
    PROVE  OwnersOK' /\ msgs' \in [Used -> Msgs]
<1>1. OwnersOK /\ ListsOK /\ msgs \in [Used -> Msgs]
  BY AwaitDoes DEF IInv, OwnershipOK, HasMsgs, IsWorking
<1>2. CASE UNCHANGED <<compressed, msgs>>
  BY <1>1, <1>2, AwaitDoes, OwnersFrame
<1>3. CASE compressed # <<>> /\ compressed' = Tail(compressed)
             /\ Head(compressed) \in Back /\ Head(compressed) \in Used
             /\ msgs' = [msgs EXCEPT ![Head(compressed)].complete = TRUE]
  <2>1. PICK h \in Used : h = Head(compressed)
    BY <1>3
  <2>2. Back' = Back \ {h} /\ h \in Back /\ Distinct(compressed')
    BY <1>1, <1>3, <2>1, InTail DEF OwnersOK, ListsOK, Back
  <2>3. /\ msgs' \in [Used -> Msgs] /\ msgs'[h].complete
        /\ \A m \in Used : m # h => msgs'[m] = msgs[m]
    BY <1>1, <1>3, <2>1, MarkMsgs
  <2>4. /\ Free' = Free /\ AtWork' = AtWork /\ Queued' = Queued /\ Sent' = Sent /\ Used' = Used
        /\ nextSubmit' = nextSubmit
        /\ Distinct(available') /\ Distinct(submitted') /\ Distinct(toCompress')
    BY <1>1, AwaitDoes DEF Free, AtWork, Queued, Sent, Used, OwnersOK
  <2>5. \A m \in Sent' : msgs'[m].complete <=> m \notin Queued' \cup AtWork' \cup Back'
    BY <1>1, <2>1, <2>2, <2>3, <2>4 DEF OwnersOK
  <2> QED
    BY <1>1, <2>2, <2>3, <2>4, <2>5 DEF OwnersOK, Distinct
<1> QED
  BY <1>2, <1>3, AwaitDoes

LEMMA WriteOwners ==
    ASSUME IInv, WriteChunk
    PROVE  OwnersOK'
<1>1. OwnersOK /\ ListsOK /\ started \in Nat
  BY WriteChunkDoes DEF IInv, OwnershipOK, HasMsgs, IsWorking, MainOK
<1>2. UNCHANGED <<toCompress, compressed, holds, nextSubmit, msgs, started>>
  BY WriteChunkDoes DEF queues
<1>3. CASE ~IsLast
  BY <1>1, <1>2, <1>3, WriteChunkDoes, OwnersFrame
<1>4. CASE IsLast
  <2>1. PICK f \in Nat \ {0} : f = First /\ f \in Used
    BY <1>1, WriteChunkDoes, UsedAreNat
  <2>2. /\ submitted' = Tail(submitted) /\ available' = Append(available, f)
        /\ submitted # <<>> /\ f = Head(submitted) /\ msgs[f].complete
    BY <1>1, <1>4, <2>1, WriteChunkDoes DEF First, ListsOK
  <2>3. Sent' = Sent \ {f} /\ f \in Sent /\ Distinct(submitted')
    BY <1>1, <2>2, InTail DEF OwnersOK, ListsOK, Sent
  <2>4. Free' = Free \cup {f} /\ Distinct(available')
    BY <1>1, <2>1, <2>2, <2>3, InAppend DEF OwnersOK, ListsOK, Free
  <2>5. /\ AtWork' = AtWork /\ Queued' = Queued /\ Back' = Back /\ Used' = Used
        /\ nextSubmit' = nextSubmit /\ msgs' = msgs
        /\ Distinct(toCompress') /\ Distinct(compressed')
    BY <1>1, <1>2 DEF Back, AtWork, Queued, Used, OwnersOK
  <2>6. f \notin Queued \cup AtWork \cup Back
    BY <1>1, <2>2, <2>3 DEF OwnersOK
  <2> QED
    BY <1>1, <2>1, <2>3, <2>4, <2>5, <2>6 DEF OwnersOK, Distinct
<1> QED
  BY <1>3, <1>4

LEMMA AllocateOwners ==
    ASSUME IInv, Allocate, main' = "feed"
    PROVE  OwnersOK' /\ msgs' \in [Used -> Msgs]
<1>1. /\ started \in Nat /\ NothingOwned
  BY DEF Allocate, IInv, MainOK, OwnershipOK
<1>2. /\ msgs' = [m \in Used |-> Fresh] /\ available' = [i \in Used |-> i]
      /\ UNCHANGED <<started, holds, toCompress, compressed, submitted, nextSubmit>>
  BY DEF Allocate, queues
<1>3. Fresh \in Msgs
  BY NumbersAssumption DEF Fresh, Msgs, Buffers, Spoilt
<1>4. PICK n \in Nat : Used = 1..n
  BY <1>1, NumbersAssumption DEF Used
<1>5. /\ available' = [i \in 1..n |-> i] /\ Len(available') = n /\ DOMAIN available' = 1..n
      /\ \A i \in 1..n : available'[i] = i
  BY <1>2, <1>4
<1>6. Free' = Used /\ Distinct(available')
  BY <1>4, <1>5 DEF Free, InSeq, Distinct
<1>7. /\ Sent' = {} /\ Queued' = {} /\ AtWork' = {} /\ Back' = {} /\ Used' = Used
      /\ nextSubmit' = NoMsg
      /\ Distinct(submitted') /\ Distinct(toCompress') /\ Distinct(compressed')
  BY <1>1, <1>2 DEF NothingOwned, Sent, Queued, AtWork, Back, InSeq, Used, Distinct
<1>8. NoMsg \notin Used
  BY <1>1, UsedAreNat DEF NoMsg
<1> QED
  BY <1>2, <1>3, <1>6, <1>7, <1>8 DEF OwnersOK, Distinct

LEMMA OwnershipNext ==
    ASSUME IInv, [Next]_vars, MainOK'
    PROVE  OwnershipOK'
<1>1. OwnershipOK /\ MainOK /\ ThreadsOK
  BY DEF IInv
<1>2. ASSUME HasMsgs' => HasMsgs, UNCHANGED <<available, submitted, nextSubmit, toCompress,
                 compressed, holds, started, nextReady>>,
             HasMsgs /\ HasMsgs' => UNCHANGED msgs, ~HasMsgs' => msgs' = <<>>,
             main' \in {"create", "allocate"} \/ (main' \in {"terminate", "join"} /\ ret' = "serial")
               => NothingOwned
      PROVE  OwnershipOK'
  <2>1. HasMsgs' => msgs' \in [Used' -> Msgs] /\ OwnersOK'
    BY <1>1, <1>2, OwnersFrame DEF OwnershipOK, Used
  <2>2. NothingOwned => NothingOwned'
    BY <1>2 DEF NothingOwned
  <2> QED
    BY <1>2, <2>1, <2>2 DEF OwnershipOK
<1>3. ASSUME HasMsgs', msgs' \in [Used -> Msgs], UNCHANGED started, OwnersOK',
             main' \notin {"create", "allocate"}, ret' # "serial"
      PROVE  OwnershipOK'
  BY <1>3 DEF OwnershipOK, Used
<1>4. CASE StartThread
  <2>1. main = "create" /\ main' = "create" /\ NothingOwned /\ ~HasMsgs /\ ~HasMsgs' /\ msgs' = msgs
    BY <1>1, <1>4 DEF StartThread, OwnershipOK, HasMsgs, IsWorking
  <2>2. NothingOwned'
    BY <1>4, <2>1 DEF StartThread, NothingOwned, queues, lists
  <2> QED
    BY <1>1, <2>1, <2>2 DEF OwnershipOK
<1>5. CASE StartThreadFails
  BY <1>1, <1>2, <1>5 DEF StartThreadFails, OwnershipOK, HasMsgs, IsWorking, MainOK, queues, lists
<1>6. CASE Allocate /\ main' = "feed"
  BY <1>1, <1>3, <1>6, AllocateOwners DEF Allocate, HasMsgs, IsWorking, MainOK
<1>7. CASE Allocate /\ main' # "feed"
  BY <1>1, <1>2, <1>7 DEF Allocate, OwnershipOK, HasMsgs, IsWorking, MainOK, queues
<1>8. CASE Feed
  BY <1>1, <1>3, <1>8, FeedDoes, FeedMsgs, FeedOwners DEF HasMsgs, IsWorking, MainOK
<1>9. CASE Finish
  BY <1>1, <1>3, <1>9, FinishDoes, FinishOwners DEF HasMsgs, IsWorking, MainOK
<1>10. CASE AwaitResult
  BY <1>1, <1>3, <1>10, AwaitDoes, AwaitOwners DEF HasMsgs, IsWorking, MainOK
<1>11. CASE WriteChunk
  <2>1. /\ main = "result" /\ ret = "none" /\ UNCHANGED <<started, msgs>>
        /\ (ret' = "none" /\ main' \in {"feed", "result"}) \/ (ret' = "error" /\ main' = "terminate")
    BY <1>1, <1>11, WriteChunkDoes DEF MainOK
  <2>2. msgs' \in [Used -> Msgs]
    BY <1>1, <2>1 DEF OwnershipOK, HasMsgs, IsWorking
  <2> QED
    BY <1>3, <1>11, <2>1, <2>2, WriteOwners DEF HasMsgs, IsWorking
<1>12. ASSUME NEW t \in Threads, Get(t) PROVE OwnershipOK'
  <2>1. UNCHANGED <<main, started, compressed, available, submitted, nextSubmit, nextReady, msgs, ret>>
    BY <1>12 DEF Get, lists
  <2>2. CASE HasMsgs
    BY <1>1, <1>12, <2>1, <2>2, GetOwners DEF OwnershipOK, Used, HasMsgs, IsWorking, MainOK
  <2>3. CASE ~HasMsgs
    <3>1. terminating \/ toCompress = <<>>
      BY <1>12, <2>3, QueuedMessage
    <3>2. UNCHANGED <<holds, toCompress>>
      BY <1>12, <3>1 DEF Get
    <3> QED
      BY <1>1, <1>2, <2>1, <2>3, <3>2 DEF OwnershipOK, HasMsgs, IsWorking
  <2> QED
    BY <2>2, <2>3
<1>13. ASSUME NEW t \in Threads, Compress(t) PROVE OwnershipOK'
  <2>1. HasMsgs /\ holds[t] \in Used
    BY <1>13, BusyThread DEF Compress
  <2>2. msgs' \in [Used -> Msgs] /\ OwnersOK'
    BY <1>13, <2>1, CompressMsgs, CompressOwners
  <2>3. /\ UNCHANGED <<started, ret>>
        /\ main' = IF main = "waiting" THEN "result" ELSE main
    BY <1>13 DEF Compress
  <2> QED
    BY <1>1, <1>3, <2>1, <2>2, <2>3 DEF HasMsgs, IsWorking, MainOK
<1>14. CASE NoBuffer \/ ReadFails \/ AllWritten \/ Terminate
  BY <1>1, <1>2, <1>14
     DEF NoBuffer, ReadFails, AllWritten, Terminate, OwnershipOK, HasMsgs, IsWorking, MainOK, queues, lists
<1>15. CASE Destroy
  BY <1>1, <1>2, <1>15 DEF Destroy, OwnershipOK, HasMsgs, IsWorking, MainOK, queues, lists
<1>16. CASE Serial
  BY <1>1, <1>2, <1>16 DEF Serial, OwnershipOK, HasMsgs, IsWorking, MainOK, queues, lists
<1>17. CASE UNCHANGED vars
  BY <1>1, <1>2, <1>17 DEF vars, OwnershipOK, HasMsgs, IsWorking, queues, lists
<1> QED
  BY <1>4, <1>5, <1>6, <1>7, <1>8, <1>9, <1>10, <1>11, <1>12, <1>13, <1>14, <1>15, <1>16, <1>17
     DEF Next, Main

-----------------------------------------------------------------------------
(* The chunks. *)
LEMMA BaseType ==
    ASSUME ListsOK, MainOK
    PROVE  Base \in Int /\ Len(written) \in Nat
BY DEF ListsOK, MainOK, Base

LEMMA SentAt ==
    ASSUME ListsOK, NEW k \in 1..Len(submitted)
    PROVE  submitted[k] \in Sent
BY IndexOf DEF ListsOK, Sent

LEMMA ChunksFrame ==
    ASSUME ChunksOK, ListsOK, MainOK, OwnersOK, msgs \in [Used -> Msgs],
           UNCHANGED <<submitted, nextSubmit, nextReady, nextChunk, written, fed>>,
           \A m \in Sent :
              /\ msgs'[m].filled = msgs[m].filled /\ (msgs[m].complete => msgs'[m].complete)
              /\ \A i \in 1..msgs[m].filled, n \in Int : Carries(m, i, n) => Carries(m, i, n)',
           nextSubmit # NoMsg => msgs'[nextSubmit] = msgs[nextSubmit],
           nextReady # NoMsg => main' = "result",
           main' # "feed" => nextSubmit = NoMsg
    PROVE  ChunksOK'
<1>1. Base' = Base /\ Base \in Int
  BY BaseType DEF Base
<1>2. \A k \in 1..Len(submitted) :
         /\ submitted[k] \in Sent /\ msgs'[submitted[k]].filled = msgs[submitted[k]].filled
         /\ Off(k - 1) \in Int
  BY SentAt, Offsets
<1>3. Behind' = Behind
  <2>1. submitted # <<>> => Len(submitted) \in 1..Len(submitted)
    BY DEF ListsOK
  <2> QED
    BY <1>1, <1>2, <2>1 DEF Behind, Off
<1>4. nextReady # NoMsg => /\ main' = "result" /\ submitted # <<>> /\ nextReady = submitted[1]
                           /\ msgs'[nextReady].complete /\ nextChunk \in 2..msgs'[nextReady].filled
  <2>1. submitted # <<>> => 1 \in 1..Len(submitted)
    BY DEF ListsOK
  <2> QED
    BY <1>2, <2>1 DEF ChunksOK
<1>5. \A k \in 1..Len(submitted) :
         /\ msgs'[submitted[k]].filled \in 1..PerMsg
         /\ k < Len(submitted) \/ fed < NumChunks \/ nextSubmit # NoMsg
              => msgs'[submitted[k]].filled = PerMsg
  BY <1>2 DEF ChunksOK
<1>6. ASSUME NEW k \in 1..Len(submitted), NEW i \in 1..msgs'[submitted[k]].filled
      PROVE  Carries(submitted[k], i, Base + Off(k - 1) + i)'
  <2>1. PICK m \in Sent : m = submitted[k]
    BY <1>2
  <2>2. PICK n \in Int : n = Base + Off(k - 1) + i
    BY <1>1, <1>2
  <2>3. i \in 1..msgs[m].filled /\ Carries(m, i, n)
    BY <1>2, <1>6, <2>1, <2>2 DEF ChunksOK
  <2>4. Carries(m, i, n)'
    BY <2>1, <2>3
  <2>5. m = submitted'[k] /\ n = Base' + Off(k - 1) + i
    BY <1>1, <2>1, <2>2
  <2> QED
    BY <2>4, <2>5 DEF Carries, Off
<1>7. IF nextSubmit = NoMsg THEN fed = Behind
      ELSE /\ fed = Behind + msgs'[nextSubmit].filled
           /\ msgs'[nextSubmit].filled \in 1..(PerMsg - 1)
           /\ \A i \in 1..msgs'[nextSubmit].filled : msgs'[nextSubmit].in[i] = Behind + i
  BY DEF ChunksOK
<1> QED
  BY <1>3, <1>4, <1>5, <1>6, <1>7 DEF ChunksOK

LEMMA Working ==
    ASSUME IInv, IsWorking
    PROVE  ChunksOK /\ ListsOK /\ MainOK /\ OwnersOK /\ ThreadsOK /\ HasMsgs
           /\ msgs \in [Used -> Msgs] /\ ret = "none"
BY DEF IInv, WrittenOK, OwnershipOK, HasMsgs, IsWorking, MainOK

LEMMA GetChunks ==
    ASSUME IInv, NEW t \in Threads, Get(t), IsWorking
    PROVE  ChunksOK'
<1>1. UNCHANGED <<main, available, submitted, nextSubmit, nextReady, nextChunk, msgs, fed, written, started>>
  BY DEF Get, lists
<1>2. Queued' \cup AtWork' = Queued \cup AtWork
  <2>1. CASE terminating \/ toCompress = <<>>
    BY <2>1 DEF Get, Queued, AtWork
  <2>2. CASE ~terminating /\ toCompress # <<>>
    <3> DEFINE h == Head(toCompress)
    <3>1. /\ holds' = [holds EXCEPT ![t] = h] /\ toCompress' = Tail(toCompress)
          /\ thread[t] = "ready"
      BY <2>2 DEF Get
    <3>2. Queued' = Queued \ {h} /\ h \in Queued
      BY <2>2, <3>1, Working, InTail DEF OwnersOK, ListsOK, Queued
    <3>3. h \in Nat \ {0} /\ holds[t] = NoMsg /\ holds \in [Threads -> Nat]
      BY <2>2, <3>1, QueuedMessage, Working DEF ThreadsOK
    <3>4. AtWork' = AtWork \cup {h}
      <4> HIDE DEF h
      <4>1. \A u \in Threads : holds'[u] = IF u = t THEN h ELSE holds[u]
        BY <3>1, <3>3
      <4> QED
        BY <3>3, <4>1 DEF AtWork, NoMsg
    <3> QED
      BY <3>2, <3>4
  <2> QED
    BY <2>1, <2>2
<1>3. \A m \in Sent : \A i \in 1..msgs[m].filled, n \in Int : Carries(m, i, n) => Carries(m, i, n)'
  BY <1>1, <1>2 DEF Carries
<1>4. /\ ChunksOK /\ ListsOK /\ MainOK /\ OwnersOK /\ msgs \in [Used -> Msgs]
      /\ nextReady # NoMsg => main' = "result"
      /\ main' # "feed" => nextSubmit = NoMsg
  BY <1>1, Working DEF ChunksOK
<1> QED
  BY <1>1, <1>3, <1>4, ChunksFrame

LEMMA CompressChunks ==
    ASSUME IInv, NEW t \in Threads, Compress(t), IsWorking
    PROVE  ChunksOK'
<1>1. /\ UNCHANGED <<available, submitted, nextSubmit, nextReady, nextChunk, fed, written, started, toCompress>>
      /\ main' = IF main = "waiting" THEN "result" ELSE main
  BY DEF Compress, lists
<1>2. /\ ChunksOK /\ ListsOK /\ MainOK /\ OwnersOK /\ msgs \in [Used -> Msgs] /\ ThreadsOK
      /\ nextReady # NoMsg => main' = "result"
      /\ main' # "feed" => nextSubmit = NoMsg
  BY <1>1, Working DEF ChunksOK
<1>3. PICK h \in Nat \ {0} : h = holds[t] /\ h \in AtWork /\ h \in Used
  BY BusyThread DEF Compress
<1>4. h \in Sent /\ h \notin Queued /\ h # nextSubmit
  BY <1>2, <1>3 DEF OwnersOK
<1>5. Queued' = Queued /\ AtWork' = AtWork \ {h}
  <2>1. \A u \in Threads : holds'[u] = IF u = t THEN NoMsg ELSE holds[u]
    BY <1>2 DEF ThreadsOK, Compress
  <2>2. \A u \in Threads : holds[u] = h => u = t
    BY <1>2, <1>3 DEF ThreadsOK, NoMsg
  <2> QED
    BY <1>1, <1>3, <2>1, <2>2 DEF AtWork, NoMsg, Queued
<1>6. /\ \A m \in Used : m # h => msgs'[m] = msgs[m]
      /\ msgs'[h].filled = msgs[h].filled /\ msgs'[h].complete = msgs[h].complete
      /\ \A i \in 1..PerMsg : i <= msgs[h].filled =>
             \/ msgs'[h].out[i] = msgs[h].in[i]
             \/ msgs'[h].out[i] = 0 /\ msgs'[h].in[i] = msgs[h].in[i]
  BY <1>2, <1>3, BusyThread, CompressMsgs, Working
<1>7. ASSUME NEW m \in Sent
      PROVE  /\ msgs'[m].filled = msgs[m].filled /\ (msgs[m].complete => msgs'[m].complete)
             /\ \A i \in 1..msgs[m].filled, n \in Int : Carries(m, i, n) => Carries(m, i, n)'
  <2>1. CASE m = h
    <3>1. msgs[h].filled \in 0..PerMsg
      BY <1>2, <1>3 DEF Msgs
    <3>2. \A i \in 1..msgs[h].filled : i \in 1..PerMsg /\ i <= msgs[h].filled
      BY <3>1, NumbersAssumption
    <3> QED
      BY <1>3, <1>4, <1>5, <1>6, <2>1, <3>2 DEF Carries
  <2>2. CASE m # h
    <3>1. m \in Used /\ msgs'[m] = msgs[m]
      BY <1>2, <1>6, <2>2 DEF OwnersOK
    <3>2. m \in Queued' \cup AtWork' <=> m \in Queued \cup AtWork
      BY <1>5, <2>2
    <3> QED
      BY <3>1, <3>2 DEF Carries
  <2> QED
    BY <2>1, <2>2
<1>8. nextSubmit # NoMsg => msgs'[nextSubmit] = msgs[nextSubmit]
  BY <1>2, <1>4, <1>6 DEF OwnersOK
<1> QED
  BY <1>1, <1>2, <1>7, <1>8, ChunksFrame

LEMMA AwaitChunks ==
    ASSUME IInv, AwaitResult
    PROVE  ChunksOK'
<1>1. /\ IsWorking /\ main = "result" /\ nextReady = NoMsg
      /\ UNCHANGED <<submitted, nextSubmit, nextReady, nextChunk, fed, written, toCompress, holds>>
  BY AwaitDoes DEF IsWorking
<1>2. ChunksOK /\ ListsOK /\ MainOK /\ OwnersOK /\ msgs \in [Used -> Msgs] /\ nextSubmit = NoMsg
  BY <1>1, Working DEF ChunksOK
<1>3. Queued' = Queued /\ AtWork' = AtWork
  BY <1>1 DEF Queued, AtWork
<1>4. ASSUME NEW m \in Used
      PROVE  /\ msgs'[m].filled = msgs[m].filled /\ (msgs[m].complete => msgs'[m].complete)
             /\ msgs'[m].in = msgs[m].in /\ msgs'[m].out = msgs[m].out
  <2>1. CASE UNCHANGED msgs
    BY <2>1
  <2>2. CASE /\ Head(compressed) \in Used
             /\ msgs' = [msgs EXCEPT ![Head(compressed)].complete = TRUE]
    <3>1. PICK h \in Used : h = Head(compressed)
      BY <2>2
    <3>2. msgs' = [msgs EXCEPT ![h].complete = TRUE]
      BY <2>2, <3>1
    <3> QED
      BY <1>2, <3>2, MarkMsgs
  <2> QED
    BY <2>1, <2>2, AwaitDoes
<1>5. \A m \in Sent : m \in Used
  BY <1>2 DEF OwnersOK
<1>6. \A m \in Sent :
         /\ msgs'[m].filled = msgs[m].filled /\ (msgs[m].complete => msgs'[m].complete)
         /\ \A i \in 1..msgs[m].filled, n \in Int : Carries(m, i, n) => Carries(m, i, n)'
  BY <1>3, <1>4, <1>5 DEF Carries
<1> QED
  BY <1>1, <1>2, <1>6, ChunksFrame

(* When the submitted messages are full. *)
AllFull == \A k \in 1..Len(submitted) : msgs[submitted[k]].filled = PerMsg

LEMMA BehindFull ==
    ASSUME ListsOK, MainOK, AllFull
    PROVE  Behind = Base + Off(Len(submitted))
<1>1. Base \in Int /\ Len(submitted) \in Nat /\ PerMsg \in Nat
  BY BaseType, NumbersAssumption DEF ListsOK
<1>2. CASE submitted = <<>>
  BY <1>1, <1>2, Offsets DEF Behind
<1>3. CASE submitted # <<>>
  <2>1. PICK k \in Nat : Len(submitted) = k + 1 /\ Len(submitted) - 1 = k /\ k + 1 \in 1..Len(submitted)
    <3>1. Len(submitted) \in Nat \ {0}
      BY <1>3 DEF ListsOK
    <3>2. Len(submitted) - 1 \in Nat
      BY <3>1
    <3> QED
      BY <3>1, <3>2
  <2>2. msgs[submitted[Len(submitted)]].filled = PerMsg
    BY <2>1 DEF AllFull
  <2>3. Off(k) \in Nat /\ Off(k + 1) = Off(k) + PerMsg
    BY Offsets
  <2>4. Behind = Base + Off(k) + PerMsg
    BY <1>3, <2>1, <2>2 DEF Behind
  <2> HIDE DEF Off, Base
  <2> QED
    BY <1>1, <2>1, <2>3, <2>4
<1> QED
  BY <1>2, <1>3

(* A message is put behind the submitted ones, which are full. *)
LEMMA SubmitChunks ==
    ASSUME ChunksOK, ListsOK, MainOK, OwnersOK, AllFull,
           NEW f \in Nat \ {0}, f \in Used, f \notin Sent,
           submitted' = Append(submitted, f), toCompress' = Append(toCompress, f),
           nextSubmit' = NoMsg, nextReady = NoMsg, UNCHANGED <<nextReady, nextChunk, written, holds>>,
           \A m \in Used : m # f => msgs'[m] = msgs[m],
           NEW n \in 1..PerMsg, msgs'[f].filled = n,
           \A i \in 1..n : msgs'[f].in[i] = Base + Off(Len(submitted)) + i,
           fed' = Base + Off(Len(submitted)) + n,
           fed' < NumChunks => n = PerMsg
    PROVE  ChunksOK'
<1>1. PICK l \in Nat : /\ l = Len(submitted) /\ Len(submitted') = l + 1 /\ (l + 1) - 1 = l
                       /\ submitted' # <<>> /\ submitted'[l + 1] = f
                       /\ \A k \in 1..l : submitted'[k] = submitted[k]
  <2>1. /\ Len(submitted') = Len(submitted) + 1 /\ submitted' # <<>> /\ Len(submitted) \in Nat
        /\ submitted'[Len(submitted) + 1] = f
        /\ \A k \in 1..Len(submitted) : submitted'[k] = submitted[k]
    BY AppendIs DEF ListsOK
  <2>2. PICK l \in Nat : l = Len(submitted)
    BY <2>1
  <2>3. (l + 1) - 1 = l
    OBVIOUS
  <2> QED
    BY <2>1, <2>2, <2>3
<1>3. /\ Base' = Base /\ Base \in Int
  BY BaseType DEF Base
<1>4. Off(l) \in Nat
  BY Offsets
<1>5. Behind' = fed'
  <2>1. Behind' = Base + Off(l) + n
    BY <1>1, <1>3 DEF Behind, Off
  <2> QED
    BY <1>1, <2>1
<1>6. ASSUME NEW k \in 1..l
      PROVE  /\ submitted'[k] = submitted[k] /\ submitted[k] \in Sent
             /\ msgs'[submitted[k]] = msgs[submitted[k]] /\ msgs[submitted[k]].filled = PerMsg
             /\ submitted[k] # f
  <2>1. submitted[k] \in Sent
    BY <1>1, SentAt
  <2> QED
    BY <1>1, <2>1 DEF OwnersOK, AllFull
<1>7. f \in Queued' /\ Queued' = Queued \cup {f} /\ AtWork' = AtWork
  <2>1. Queued' = Queued \cup {f}
    BY InAppend DEF Queued, ListsOK
  <2> QED
    BY <2>1 DEF AtWork
<1>8. ASSUME NEW k \in 1..(l + 1)
      PROVE  /\ msgs'[submitted'[k]].filled \in 1..PerMsg
             /\ k < l + 1 \/ fed' < NumChunks => msgs'[submitted'[k]].filled = PerMsg
  <2>1. CASE k = l + 1
    BY <1>1, <2>1
  <2>2. CASE k \in 1..l
    <3>1. msgs'[submitted'[k]].filled = PerMsg
      BY <1>6, <2>2
    <3> QED
      BY <3>1, NumbersAssumption
  <2> QED
    BY <1>1, <2>1, <2>2
<1>9. ASSUME NEW k \in 1..(l + 1), NEW i \in 1..msgs'[submitted'[k]].filled
      PROVE  Carries(submitted[k], i, Base + Off(k - 1) + i)'
  <2>1. CASE k = l + 1
    <3>1. submitted'[k] = f /\ k - 1 = l /\ i \in 1..n
      BY <1>1, <2>1
    <3>2. msgs'[f].in[i] = Base' + Off(l) + i
      BY <1>1, <1>3, <3>1
    <3> QED
      BY <1>7, <3>1, <3>2 DEF Carries, Off
  <2>2. CASE k \in 1..l
    <3>1. PICK m \in Sent : m = submitted[k] /\ m = submitted'[k] /\ m # f /\ msgs'[m] = msgs[m]
                            /\ msgs[m].filled = PerMsg
      BY <1>6, <2>2
    <3>2. Off(k - 1) \in Int
      <4>1. k - 1 \in Nat
        BY <2>2
      <4> QED
        BY <4>1, Offsets
    <3>3. PICK c \in Int : c = Base + Off(k - 1) + i /\ c = Base' + Off(k - 1) + i
      BY <1>3, <3>2
    <3>4. Carries(m, i, c)
      BY <1>1, <2>2, <3>1, <3>3 DEF ChunksOK
    <3>5. Carries(m, i, c)'
      BY <1>7, <3>1, <3>4 DEF Carries
    <3> QED
      BY <3>1, <3>3, <3>5 DEF Carries, Off
  <2> QED
    BY <1>1, <2>1, <2>2
<1> QED
  BY <1>1, <1>5, <1>8, <1>9 DEF ChunksOK, NoMsg

LEMMA FeedChunks ==
    ASSUME IInv, Feed
    PROVE  ChunksOK'
<1>1. /\ main = "feed" /\ IsWorking /\ main' = "feed" /\ fed < NumChunks /\ fed' = fed + 1
      /\ UNCHANGED <<started, holds, nextReady, nextChunk, written>>
  BY FeedDoes DEF IsWorking
<1>2. /\ ChunksOK /\ ListsOK /\ MainOK /\ OwnersOK /\ msgs \in [Used -> Msgs]
      /\ nextReady = NoMsg /\ fed \in Int /\ PerMsg \in Nat \ {0} /\ NumChunks \in Nat
  BY <1>1, Working, NumbersAssumption DEF ChunksOK, MainOK
<1>3. PICK f \in Nat \ {0} : f = Filling /\ f \in Used
  BY FeedDoes
<1>4. PICK n \in 1..PerMsg : n = FillTo
  BY FeedDoes
<1>5. f \notin Sent
  <2>1. CASE nextSubmit # NoMsg
    BY <1>2, <1>3, <2>1 DEF OwnersOK, Filling
  <2>2. CASE nextSubmit = NoMsg
    <3>1. Filling \in Free
      BY <2>2, <1>2, FeedDoes, InTail DEF Filling, OwnersOK, ListsOK, Free
    <3> QED
      BY <1>2, <1>3, <3>1 DEF OwnersOK
  <2> QED
    BY <2>1, <2>2
<1>6. AllFull
  BY <1>1, <1>2 DEF ChunksOK, AllFull
<1>7. PICK b \in Int : b = Behind /\ b = Base + Off(Len(submitted))
  <2>1. Base \in Int /\ Off(Len(submitted)) \in Int
    BY <1>2, BaseType, Offsets DEF ListsOK
  <2> QED
    BY <1>2, <1>6, <2>1, BehindFull
<1>8. fed + 1 = b + n
  <2>1. CASE nextSubmit = NoMsg
    <3>1. fed = b /\ n = 1
      BY <1>2, <1>4, <1>7, <2>1 DEF ChunksOK, FillTo
    <3> QED
      BY <3>1
  <2>2. CASE nextSubmit # NoMsg
    <3>1. PICK x \in 1..(PerMsg - 1) : x = msgs[nextSubmit].filled /\ fed = b + x
      BY <1>2, <1>7, <2>2 DEF ChunksOK
    <3>2. n = x + 1
      BY <1>4, <2>2, <3>1 DEF FillTo, Filling
    <3> QED
      BY <1>2, <3>1, <3>2
  <2> QED
    BY <2>1, <2>2
<1>9. /\ \A m \in Used : m # f => msgs'[m] = msgs[m]
      /\ msgs'[f].filled = n
  BY <1>3, <1>4, FeedMsgs
<1>10. \A i \in 1..n : msgs'[f].in[i] = b + i
  <2>1. msgs'[f].in[n] = b + n
    BY <1>3, <1>4, <1>8, FeedMsgs
  <2>2. ASSUME NEW i \in 1..n, i # n PROVE msgs'[f].in[i] = b + i
    <3>1. i \in 1..PerMsg /\ msgs'[f].in[i] = msgs[f].in[i] /\ n # 1
      BY <1>2, <1>3, <1>4, <2>2, FeedMsgs
    <3>2. f = nextSubmit /\ nextSubmit # NoMsg /\ n = msgs[nextSubmit].filled + 1
      BY <1>3, <1>4, <3>1 DEF Filling, FillTo
    <3>3. msgs[nextSubmit].filled \in 1..(PerMsg - 1)
      BY <1>2, <3>2 DEF ChunksOK
    <3>4. i \in 1..msgs[nextSubmit].filled
      BY <1>2, <2>2, <3>2, <3>3
    <3> QED
      BY <1>2, <1>7, <3>1, <3>2, <3>4 DEF ChunksOK
  <2> QED
    BY <2>1, <2>2
<1>11. CASE n = PerMsg
  <2>1. /\ submitted' = Append(submitted, f) /\ toCompress' = Append(toCompress, f)
        /\ nextSubmit' = NoMsg
    BY <1>3, <1>4, <1>11, FeedDoes
  <2>2. /\ \A i \in 1..n : msgs'[f].in[i] = Base + Off(Len(submitted)) + i
        /\ fed' = Base + Off(Len(submitted)) + n
    BY <1>1, <1>7, <1>8, <1>10
  <2> QED
    BY <1>1, <1>2, <1>3, <1>5, <1>6, <1>9, <1>11, <2>1, <2>2, SubmitChunks
<1>12. CASE n # PerMsg
  <2>1. UNCHANGED <<submitted, toCompress>> /\ nextSubmit' = f
    BY <1>3, <1>4, <1>12, FeedDoes
  <2>2. Base' = Base /\ Base \in Int
    BY <1>1, <1>2, BaseType DEF Base
  <2>3. Queued' = Queued /\ AtWork' = AtWork
    BY <1>1, <2>1 DEF Queued, AtWork
  <2>4. ASSUME NEW k \in 1..Len(submitted)
        PROVE  submitted[k] \in Sent /\ submitted[k] \in Used /\ submitted[k] # f
               /\ msgs'[submitted[k]] = msgs[submitted[k]] /\ msgs[submitted[k]].filled = PerMsg
    <3>1. submitted[k] \in Sent
      BY <1>2, SentAt
    <3> QED
      BY <1>2, <1>5, <1>6, <1>9, <3>1 DEF OwnersOK, AllFull
  <2>5. Behind' = b
    <3>1. submitted # <<>> => Len(submitted) \in 1..Len(submitted)
      BY <1>2 DEF ListsOK
    <3> QED
      BY <1>7, <2>1, <2>2, <2>4, <3>1 DEF Behind, Off
  <2>6. ASSUME NEW k \in 1..Len(submitted), NEW i \in 1..PerMsg
        PROVE  Carries(submitted[k], i, Base + Off(k - 1) + i)'
    <3>1. PICK m \in Sent : m = submitted[k] /\ msgs'[m] = msgs[m] /\ msgs[m].filled = PerMsg
      BY <2>4
    <3>2. PICK c : c = Base + Off(k - 1) + i
      OBVIOUS
    <3>3. Carries(m, i, c)
      BY <1>2, <3>1, <3>2 DEF ChunksOK
    <3>4. Carries(m, i, c)'
      BY <2>3, <3>1, <3>3 DEF Carries
    <3>5. m = submitted'[k] /\ c = Base' + Off(k - 1) + i
      BY <2>1, <2>2, <3>1, <3>2
    <3> QED
      BY <3>4, <3>5 DEF Carries, Off
  <2>7. \A k \in 1..Len(submitted) :
           /\ msgs'[submitted'[k]].filled = PerMsg /\ PerMsg \in 1..PerMsg
           /\ \A i \in 1..PerMsg : Carries(submitted[k], i, Base + Off(k - 1) + i)'
    BY <1>2, <2>1, <2>4, <2>6
  <2>8. f # NoMsg /\ fed' = b + n /\ n \in 1..(PerMsg - 1)
    BY <1>1, <1>2, <1>8, <1>12 DEF NoMsg
  <2> QED
    BY <1>1, <1>2, <1>9, <1>10, <2>1, <2>5, <2>7, <2>8 DEF ChunksOK
<1> QED
  BY <1>11, <1>12

LEMMA FinishChunks ==
    ASSUME IInv, Finish
    PROVE  ChunksOK'
<1>1. /\ main = "feed" /\ IsWorking /\ main' = "result" /\ fed = NumChunks
      /\ UNCHANGED <<started, holds, nextReady, nextChunk, fed, written>>
  BY FinishDoes DEF IsWorking
<1>2. /\ ChunksOK /\ ListsOK /\ MainOK /\ OwnersOK /\ msgs \in [Used -> Msgs]
      /\ nextReady = NoMsg /\ fed \in Int /\ PerMsg \in Nat \ {0} /\ NumChunks \in Nat
  BY <1>1, Working, NumbersAssumption DEF ChunksOK, MainOK
<1>3. CASE nextSubmit = NoMsg
  <2>1. UNCHANGED <<submitted, toCompress, nextSubmit, msgs>>
    BY <1>3, FinishDoes DEF NoMsg
  <2>2. \A m \in Sent : \A i \in 1..msgs[m].filled, c \in Int : Carries(m, i, c) => Carries(m, i, c)'
    BY <1>1, <2>1 DEF Carries, Queued, AtWork
  <2> QED
    BY <1>1, <1>2, <1>3, <2>1, <2>2, ChunksFrame
<1>4. CASE nextSubmit # NoMsg
  <2>1. PICK f \in Nat \ {0} : f = nextSubmit /\ f \in Used
    BY <1>4, FinishDoes
  <2>2. /\ submitted' = Append(submitted, f) /\ toCompress' = Append(toCompress, f)
        /\ nextSubmit' = NoMsg /\ msgs' = [msgs EXCEPT ![f].complete = FALSE]
    BY <1>4, <2>1, FinishDoes
  <2>3. f \notin Sent
    BY <1>2, <2>1 DEF OwnersOK
  <2>4. AllFull
    BY <1>2, <1>4 DEF ChunksOK, AllFull
  <2>5. PICK b \in Int : b = Behind /\ b = Base + Off(Len(submitted))
    <3>1. Base \in Int /\ Off(Len(submitted)) \in Int
      BY <1>2, BaseType, Offsets DEF ListsOK
    <3> QED
      BY <1>2, <2>4, <3>1, BehindFull
  <2>6. /\ \A m \in Used : m # f => msgs'[m] = msgs[m]
        /\ msgs'[f].filled = msgs[f].filled /\ msgs'[f].in = msgs[f].in
    BY <1>2, <2>1, <2>2, MarkMsgs
  <2>7. PICK n \in 1..PerMsg : /\ n = msgs[f].filled /\ fed = b + n
                               /\ \A i \in 1..n : msgs[f].in[i] = b + i
    <3>1. msgs[f].filled \in 1..PerMsg
      BY <1>2, <1>4, <2>1 DEF ChunksOK
    <3> QED
      BY <1>2, <1>4, <2>1, <2>5, <3>1 DEF ChunksOK
  <2>8. /\ \A i \in 1..n : msgs'[f].in[i] = Base + Off(Len(submitted)) + i
        /\ fed' = Base + Off(Len(submitted)) + n /\ msgs'[f].filled = n /\ ~(fed' < NumChunks)
    BY <1>1, <1>2, <2>5, <2>6, <2>7
  <2> QED
    BY <1>1, <1>2, <2>1, <2>2, <2>3, <2>4, <2>6, <2>8, SubmitChunks
<1> QED
  BY <1>3, <1>4

LEMMA NoBufferChunks ==
    ASSUME IInv, NoBuffer
    PROVE  ChunksOK'
<1>1. main = "feed" /\ IsWorking /\ UNCHANGED <<holds, queues, lists, msgs, fed, written>>
      /\ nextSubmit = NoMsg /\ main' = "result"
  BY DEF NoBuffer, IsWorking
<1>2. ChunksOK /\ ListsOK /\ MainOK /\ OwnersOK /\ msgs \in [Used -> Msgs] /\ nextReady = NoMsg
  BY <1>1, Working DEF ChunksOK
<1>3. \A m \in Sent : \A i \in 1..msgs[m].filled, c \in Int : Carries(m, i, c) => Carries(m, i, c)'
  BY <1>1 DEF Carries, Queued, AtWork, queues
<1> QED
  BY <1>1, <1>2, <1>3, ChunksFrame DEF lists

(* The chunk to be written is the next one. *)
LEMMA NextChunk ==
    ASSUME IInv, WriteChunk
    PROVE  /\ Base = Len(written) - (ChunkNo - 1)
           /\ msgs[First].filled \in 1..PerMsg /\ ChunkNo \in 1..msgs[First].filled
           /\ ChunkOf = Len(written) + 1
           /\ \A k \in 1..Len(submitted) : submitted[k] \in Sent /\ submitted[k] \in Used
<1>1. /\ main = "result" /\ IsWorking /\ submitted # <<>> /\ msgs[First].complete
      /\ First \in Used
  BY WriteChunkDoes DEF IsWorking
<1>2. ChunksOK /\ ListsOK /\ MainOK /\ OwnersOK /\ msgs \in [Used -> Msgs]
  BY <1>1, Working
<1>3. \A k \in 1..Len(submitted) : submitted[k] \in Sent /\ submitted[k] \in Used
  BY <1>2, SentAt DEF OwnersOK
<1>4. Len(written) \in Nat
  BY <1>2, BaseType
<1>5. Base = Len(written) - (ChunkNo - 1)
  BY <1>4 DEF Base, ChunkNo
<1>6. PICK n \in 1..PerMsg : n = msgs[First].filled
  <2>1. 1 \in 1..Len(submitted)
    BY <1>1, <1>2 DEF ListsOK
  <2> QED
    BY <1>2, <2>1 DEF ChunksOK, First
<1>7. ChunkNo \in 1..n
  <2>1. nextReady # NoMsg => nextChunk \in 2..n
    BY <1>2, <1>6 DEF ChunksOK, First
  <2> QED
    BY <2>1, NumbersAssumption DEF ChunkNo
<1>8. PICK c \in 1..n : c = ChunkNo /\ Base + Off(0) + c = Len(written) + 1
  <2>1. PICK c \in 1..n : c = ChunkNo
    BY <1>7
  <2> QED
    BY <1>4, <1>5, <2>1, Offsets
<1>9. Carries(First, c, Len(written) + 1)
  <2>1. 1 \in 1..Len(submitted) /\ 1 - 1 = 0
    BY <1>1, <1>2 DEF ListsOK
  <2>2. Carries(submitted[1], c, Base + Off(1 - 1) + c)
    BY <1>2, <1>6, <2>1 DEF ChunksOK, First
  <2> QED
    BY <1>8, <2>1, <2>2 DEF First
<1>10. First \notin Queued \cup AtWork
  <2>1. First \in Sent
    BY <1>1, <1>2, <1>3 DEF First, ListsOK
  <2> QED
    BY <1>1, <1>2, <2>1 DEF OwnersOK
<1>11. ChunkOf = Len(written) + 1
  <2>1. \/ msgs[First].out[c] = Len(written) + 1
        \/ msgs[First].out[c] = 0 /\ msgs[First].in[c] = Len(written) + 1
    BY <1>9, <1>10 DEF Carries
  <2> QED
    BY <1>4, <1>8, <2>1 DEF ChunkOf
<1> QED
  BY <1>3, <1>5, <1>6, <1>7, <1>11

LEMMA WriteChunks ==
    ASSUME IInv, WriteChunk, written' = Append(written, ChunkOf)
    PROVE  ChunksOK'
<1>1. /\ main = "result" /\ IsWorking /\ submitted # <<>> /\ msgs[First].complete
      /\ First \in Used /\ First # NoMsg
      /\ UNCHANGED <<started, holds, toCompress, nextSubmit, msgs, fed>>
  BY WriteChunkDoes DEF IsWorking, queues
<1>2. /\ ChunksOK /\ ListsOK /\ MainOK /\ OwnersOK /\ msgs \in [Used -> Msgs]
      /\ nextSubmit = NoMsg /\ fed = Behind /\ fed \in Int /\ PerMsg \in Nat /\ NumChunks \in Nat
  BY <1>1, Working, NumbersAssumption DEF ChunksOK, MainOK
<1>3. main' \in {"feed", "result"} /\ ((IsLast /\ fed < NumChunks) \/ main' = "result")
  <2>1. written' # written
    BY <1>2 DEF MainOK
  <2> QED
    BY <2>1, WriteChunkDoes
<1>4. PICK w \in Nat : w = Len(written) /\ Len(written') = w + 1
  <2>1. Len(written) \in Nat /\ Len(written') = Len(written) + 1
    BY <1>2 DEF MainOK
  <2>2. PICK w \in Nat : w = Len(written)
    BY <2>1
  <2> QED
    BY <2>1, <2>2
<1>a. PICK n \in 1..PerMsg : n = msgs[First].filled
  BY NextChunk
<1>5. PICK c \in 1..n : n = msgs[First].filled /\ c = ChunkNo /\ Base = w - (c - 1)
  BY <1>4, <1>a, NextChunk
<1>6. Queued' = Queued /\ AtWork' = AtWork
  BY <1>1 DEF Queued, AtWork
<1>7. \A k \in 1..Len(submitted) :
         /\ msgs[submitted[k]].filled \in 1..PerMsg
         /\ k < Len(submitted) \/ fed < NumChunks => msgs[submitted[k]].filled = PerMsg
         /\ \A i \in 1..msgs[submitted[k]].filled : Carries(submitted[k], i, Base + Off(k - 1) + i)
  BY <1>2 DEF ChunksOK
<1>8. Len(submitted) \in Nat \ {0} /\ 1 \in 1..Len(submitted)
  BY <1>1, <1>2 DEF ListsOK
<1>9. CASE c # n
  <2>1. ~IsLast /\ submitted' = submitted /\ nextReady' = First /\ nextChunk' = c + 1
    BY <1>5, <1>9, WriteChunkDoes DEF IsLast
  <2>2. Base' = Base
    <3>1. Base' = (w + 1) - ((c + 1) - 1)
      BY <1>1, <1>4, <2>1 DEF Base
    <3> QED
      BY <1>5, <3>1
  <2>3. c + 1 \in 2..n
    BY <1>2, <1>5, <1>9
  <2>4. Behind' = Behind
    BY <1>1, <2>1, <2>2 DEF Behind, Off
  <2>5. ASSUME NEW k \in 1..Len(submitted), NEW i \in 1..msgs[submitted[k]].filled
        PROVE  Carries(submitted[k], i, Base + Off(k - 1) + i)'
    <3>1. PICK m, d : m = submitted[k] /\ d = Base + Off(k - 1) + i
      OBVIOUS
    <3>2. Carries(m, i, d)
      BY <1>7, <3>1
    <3>3. Carries(m, i, d)'
      BY <1>1, <1>6, <3>2 DEF Carries
    <3>4. m = submitted'[k] /\ d = Base' + Off(k - 1) + i
      BY <2>1, <2>2, <3>1
    <3> QED
      BY <3>3, <3>4 DEF Carries, Off
  <2>6. main' = "result" /\ submitted' # <<>> /\ First = submitted'[1]
    BY <1>1, <1>3, <2>1 DEF First
  <2> QED
    BY <1>1, <1>2, <1>5, <1>7, <2>1, <2>3, <2>4, <2>5, <2>6 DEF ChunksOK
<1>10. CASE c = n
  <2>1. IsLast /\ submitted' = Tail(submitted) /\ nextReady' = NoMsg
    BY <1>5, <1>10, WriteChunkDoes DEF IsLast
  <2>2. Base' = w + 1 /\ Base = w - (n - 1)
    BY <1>4, <1>5, <1>10, <2>1 DEF Base
  <2>3. PICK l \in Nat : /\ Len(submitted) = l + 1 /\ Len(submitted') = l
                         /\ \A k \in 1..l : submitted'[k] = submitted[k + 1]
    <3>1. /\ Len(submitted') = Len(submitted) - 1
          /\ \A k \in 1..(Len(submitted) - 1) : submitted'[k] = submitted[k + 1]
      BY <1>1, <1>2, <2>1 DEF ListsOK
    <3>2. PICK l \in Nat : l = Len(submitted) - 1
      BY <1>8
    <3>3. Len(submitted) = l + 1
      BY <1>8, <3>2
    <3> QED
      BY <3>1, <3>2, <3>3
  <2>4. l > 0 => n = PerMsg
    <3>1. l > 0 => 1 < Len(submitted)
      BY <2>3
    <3> QED
      BY <1>5, <1>7, <1>8, <3>1 DEF First
  <2>5. \A k \in 1..l : Base + Off(k) = Base' + Off(k - 1)
    <3> SUFFICES ASSUME NEW k \in 1..l PROVE Base + Off(k) = Base' + Off(k - 1)
      OBVIOUS
    <3>1. PICK j \in Nat : k - 1 = j /\ j + 1 = k
      <4>1. k - 1 \in Nat /\ (k - 1) + 1 = k
        BY <2>3
      <4> QED
        BY <4>1
    <3>2. Off(j + 1) = Off(j) + PerMsg /\ Off(j) \in Nat
      BY Offsets
    <3>3. n = PerMsg
      BY <2>3, <2>4
    <3> HIDE DEF Off, Base
    <3> QED
      BY <1>2, <2>2, <3>1, <3>2, <3>3
  <2>6. ASSUME NEW k \in 1..l
        PROVE  /\ k + 1 \in 1..Len(submitted) /\ (k + 1) - 1 = k
               /\ submitted'[k] = submitted[k + 1]
               /\ k < l => k + 1 < Len(submitted)
    BY <2>3
  <2>7. Behind' = Behind
    <3>1. CASE l = 0
      <4>1. submitted' = <<>>
        <5>1. submitted' \in Seq(Nat) /\ Len(submitted') = 0
          BY <1>1, <1>2, <2>1, <2>3, <3>1, SeqTypes DEF ListsOK
        <5> QED
          BY <5>1
      <4>2. Behind = Base + Off(0) + n
        <5>1. Len(submitted) = 1 /\ 1 - 1 = 0
          BY <2>3, <3>1
        <5> QED
          BY <1>1, <1>5, <5>1 DEF Behind, First
      <4>3. Behind' = Base'
        BY <4>1 DEF Behind
      <4> HIDE DEF Behind, Base, Off
      <4> QED
        BY <2>2, <4>2, <4>3, Offsets
    <3>2. CASE l > 0
      <4>1. /\ l \in 1..l /\ submitted' # <<>> /\ submitted'[l] = submitted[l + 1]
            /\ (l + 1) - 1 = l
        <5>1. l \in 1..l /\ (l + 1) - 1 = l
          BY <3>2
        <5>2. submitted' # <<>>
          BY <2>3, <3>2
        <5> QED
          BY <2>3, <5>1, <5>2
      <4>2. Behind = Base + Off(l) + msgs[submitted[l + 1]].filled
        BY <1>1, <2>3, <4>1 DEF Behind
      <4>3. Behind' = Base' + Off(l - 1) + msgs[submitted[l + 1]].filled
        BY <1>1, <2>3, <4>1 DEF Behind, Off
      <4>4. Base + Off(l) = Base' + Off(l - 1)
        BY <2>5, <4>1
      <4> QED
        BY <4>2, <4>3, <4>4
    <3> QED
      BY <2>3, <3>1, <3>2
  <2>8. ASSUME NEW k \in 1..l
        PROVE  /\ msgs'[submitted'[k]].filled \in 1..PerMsg
               /\ k < l \/ fed < NumChunks => msgs'[submitted'[k]].filled = PerMsg
    BY <1>1, <1>7, <2>6
  <2>9. ASSUME NEW k \in 1..l, NEW i \in 1..msgs'[submitted'[k]].filled
        PROVE  Carries(submitted[k], i, Base + Off(k - 1) + i)'
    <3>1. PICK m, d : m = submitted[k + 1] /\ d = Base + Off(k) + i
      OBVIOUS
    <3>2. Carries(m, i, d)
      BY <1>1, <1>7, <2>6, <3>1
    <3>3. Carries(m, i, d)'
      BY <1>1, <1>6, <3>2 DEF Carries
    <3>4. m = submitted'[k] /\ d = Base' + Off(k - 1) + i
      BY <2>5, <2>6, <3>1
    <3> QED
      BY <3>3, <3>4 DEF Carries, Off
  <2> QED
    BY <1>1, <1>2, <2>1, <2>3, <2>7, <2>8, <2>9 DEF ChunksOK
<1> QED
  BY <1>9, <1>10

LEMMA AllocateChunks ==
    ASSUME IInv, Allocate, main' = "feed"
    PROVE  ChunksOK'
<1>1. /\ main \in {"create", "allocate"} /\ UNCHANGED <<submitted, nextSubmit, nextReady, fed, written>>
  BY DEF Allocate
<1>2. /\ submitted = <<>> /\ nextSubmit = NoMsg /\ nextReady = NoMsg /\ Len(written) = fed
      /\ Len(written) \in Nat
  BY <1>1, BaseType DEF IInv, OwnershipOK, NothingOwned, WrittenOK
<1>3. Behind' = fed /\ submitted' = <<>>
  BY <1>1, <1>2 DEF Behind, Base
<1> QED
  BY <1>1, <1>2, <1>3 DEF ChunksOK

(* When everything is written, everything was read. *)
LEMMA AllBehind ==
    ASSUME IInv, AllWritten
    PROVE  Len(written) = NumChunks
<1>1. /\ IsWorking /\ main = "result" /\ nextReady = NoMsg /\ submitted = <<>> /\ fed = NumChunks
  BY DEF AllWritten, IsWorking
<1>2. ChunksOK /\ Len(written) \in Nat
  BY <1>1, Working, BaseType
<1> QED
  BY <1>1, <1>2 DEF ChunksOK, Behind, Base

LEMMA WrittenNext ==
    ASSUME IInv, [Next]_vars
    PROVE  WrittenOK'
<1>1. WrittenOK /\ MainOK /\ ListsOK /\ Len(written) \in Nat
  BY BaseType DEF IInv
<1>2. ASSUME UNCHANGED <<written, fed>>, IsWorking' => ChunksOK',
             ret' = "success" => ret = "success" \/ Len(written) = NumChunks,
             main' \in {"create", "allocate"} \/ ret' = "serial"
               => main \in {"create", "allocate"} \/ ret = "serial"
      PROVE  WrittenOK'
  BY <1>1, <1>2 DEF WrittenOK
<1>3. CASE StartThread \/ StartThreadFails
  BY <1>1, <1>2, <1>3 DEF StartThread, StartThreadFails, IsWorking, MainOK
<1>4. CASE Allocate
  <2>1. /\ UNCHANGED <<written, fed>> /\ main \in {"create", "allocate"}
        /\ (main' = "feed" /\ ret' = ret) \/ (main' = "terminate" /\ ret' = "serial")
    BY <1>4 DEF Allocate
  <2> QED
    BY <1>1, <1>2, <1>4, <2>1, AllocateChunks DEF IsWorking
<1>5. CASE Feed
  <2>1. UNCHANGED <<main, written, ret>> /\ main = "feed" /\ ret = "none"
    BY <1>1, <1>5, FeedDoes DEF MainOK
  <2> QED
    BY <1>1, <1>5, <2>1, FeedChunks DEF WrittenOK
<1>6. CASE NoBuffer
  BY <1>1, <1>2, <1>6, NoBufferChunks DEF NoBuffer, MainOK
<1>7. CASE Finish
  BY <1>1, <1>2, <1>7, FinishDoes, FinishChunks DEF MainOK
<1>8. CASE AwaitResult
  BY <1>1, <1>2, <1>8, AwaitDoes, AwaitChunks DEF MainOK
<1>9. CASE WriteChunk
  <2>1. /\ main = "result" /\ ret = "none" /\ fed' = fed
    BY <1>1, <1>9, WriteChunkDoes DEF MainOK
  <2>2. CASE written' = Append(written, ChunkOf)
    <3>1. ret' = "none" /\ main' \in {"feed", "result"}
      <4>1. written' # written
        BY <1>1, <2>2 DEF MainOK
      <4> QED
        BY <1>9, <2>1, <4>1, WriteChunkDoes
    <3>2. PICK w \in Nat : w = Len(written)
      BY <1>1
    <3>3. /\ Len(written') = w + 1 /\ written'[w + 1] = w + 1
          /\ \A n \in 1..w : written'[n] = written[n]
      <4>1. ChunkOf = w + 1
        BY <1>9, <3>2, NextChunk
      <4> QED
        BY <1>1, <2>2, <3>2, <4>1 DEF MainOK
    <3>4. \A n \in 1..Len(written') : written'[n] = n
      <4>1. \A n \in 1..w : written[n] = n
        BY <1>1, <3>2 DEF WrittenOK
      <4>2. \A n \in 1..(w + 1) : n \in 1..w \/ n = w + 1
        OBVIOUS
      <4> QED
        BY <3>3, <4>1, <4>2
    <3> QED
      BY <1>9, <2>2, <3>1, <3>4, WriteChunks DEF WrittenOK
  <2>3. CASE written' = written /\ ret' = "error" /\ main' = "terminate"
    BY <1>1, <1>2, <2>1, <2>3 DEF IsWorking
  <2> QED
    BY <1>9, <2>2, <2>3, WriteChunkDoes
<1>10. CASE ReadFails
  BY <1>1, <1>2, <1>10 DEF ReadFails, IsWorking
<1>11. CASE AllWritten
  BY <1>1, <1>2, <1>11, AllBehind DEF AllWritten, IsWorking
<1>12. CASE Terminate \/ Destroy
  BY <1>1, <1>2, <1>12 DEF Terminate, Destroy, IsWorking, MainOK
<1>13. CASE Serial
  <2>1. main = "serial" /\ ret = "serial" /\ Len(written) = fed /\ fed \in Nat
    BY <1>1, <1>13 DEF Serial, MainOK, WrittenOK
  <2>2. CASE /\ fed' = fed + 1 /\ written' = Append(written, fed + 1) /\ UNCHANGED <<main, ret>>
    <3>1. /\ Len(written') = fed + 1 /\ written'[fed + 1] = fed + 1
          /\ \A n \in 1..fed : written'[n] = written[n]
      BY <1>1, <2>1, <2>2 DEF MainOK
    <3>2. \A n \in 1..(fed + 1) : n \in 1..fed \/ n = fed + 1
      BY <2>1
    <3>3. \A n \in 1..Len(written') : written'[n] = n
      BY <1>1, <2>1, <3>1, <3>2 DEF WrittenOK
    <3> QED
      BY <2>1, <2>2, <3>1, <3>3 DEF WrittenOK, IsWorking
  <2>3. CASE fed = NumChunks /\ main' = "returned" /\ ret' = "success" /\ UNCHANGED <<fed, written>>
    BY <1>2, <2>1, <2>3 DEF IsWorking
  <2>4. CASE main' = "returned" /\ ret' = "error" /\ UNCHANGED <<fed, written>>
    BY <1>2, <2>1, <2>4 DEF IsWorking
  <2> QED
    BY <1>13, <2>2, <2>3, <2>4 DEF Serial
<1>14. ASSUME NEW t \in Threads, Get(t) PROVE WrittenOK'
  <2>1. UNCHANGED <<main, ret, fed, written>>
    BY <1>14 DEF Get
  <2>2. IsWorking' => ChunksOK'
    BY <1>14, <2>1, GetChunks DEF IsWorking
  <2> QED
    BY <1>2, <2>1, <2>2
<1>15. ASSUME NEW t \in Threads, Compress(t) PROVE WrittenOK'
  <2>1. UNCHANGED <<ret, fed, written>> /\ main' = IF main = "waiting" THEN "result" ELSE main
    BY <1>15 DEF Compress
  <2>2. IsWorking' => ChunksOK'
    BY <1>15, <2>1, CompressChunks DEF IsWorking
  <2> QED
    BY <1>1, <1>2, <2>1, <2>2 DEF MainOK
<1>16. CASE UNCHANGED vars
  <2>1. UNCHANGED <<main, ret, fed, written>>
    BY <1>16 DEF vars
  <2>2. ChunksOK' <=> ChunksOK
    BY <1>16 DEF vars, queues, lists, ChunksOK, Carries, Behind, Base, Off, Queued, AtWork
  <2> QED
    BY <1>1, <1>2, <2>1, <2>2 DEF WrittenOK, IsWorking
<1> QED
  BY <1>3, <1>4, <1>5, <1>6, <1>7, <1>8, <1>9, <1>10, <1>11, <1>12, <1>13, <1>14, <1>15, <1>16
     DEF Next, Main

-----------------------------------------------------------------------------
(* The results. *)
LEMMA InitInvariant == Init => IInv
<1> SUFFICES ASSUME Init PROVE IInv
  OBVIOUS
<1>1. MainOK
  BY NumbersAssumption DEF Init, MainOK, Mains
<1>2. ThreadsOK
  BY DEF Init, ThreadsOK, ThreadStates, Threads, NoMsg
<1>3. ListsOK
  BY DEF Init, ListsOK, NoMsg
<1>4. OwnershipOK
  BY DEF Init, OwnershipOK, NothingOwned, HasMsgs, IsWorking
<1>5. WrittenOK
  BY DEF Init, WrittenOK, IsWorking
<1> QED
  BY <1>1, <1>2, <1>3, <1>4, <1>5 DEF IInv

(* The invariant holds, for any number of threads, messages and chunks.    *)
THEOREM Invariance == Spec => []IInv
<1>1. IInv /\ [Next]_vars => IInv'
  BY MainNext, ThreadsNext, ListsNext, OwnershipNext, WrittenNext DEF IInv
<1> QED
  BY InitInvariant, <1>1, PTL DEF Spec

(* The messages are there as long as a thread works on one: destroy of     *)
(* compress_parallel.c frees them after the threads have ended, on every   *)
(* way into it.                                                            *)
THEOREM TypeCorrect == Spec => []TypeOK
<1>1. IInv => TypeOK
  <2> SUFFICES ASSUME IInv PROVE TypeOK
    OBVIOUS
  <2>1. MainOK /\ ThreadsOK /\ OwnershipOK /\ WrittenOK
    BY DEF IInv
  <2>2. HasMsgs => DOMAIN msgs = Used /\ OwnersOK /\ \A m \in Used : msgs[m] \in Msgs
    BY <2>1 DEF OwnershipOK
  <2>3. ~HasMsgs => DOMAIN msgs = {}
    BY <2>1 DEF OwnershipOK
  <2>4. \A t \in Threads : thread[t] = "busy" => holds[t] \in DOMAIN msgs
    BY <2>2, BusyThread
  <2>5. nextSubmit # NoMsg => nextSubmit \in DOMAIN msgs \/ main \in {"serial", "returned"}
    BY <2>1, <2>2 DEF OwnershipOK, OwnersOK, NothingOwned, HasMsgs, IsWorking, MainOK, Mains
  <2>6. \A m \in DOMAIN msgs : msgs[m].filled \in 0..PerMsg
    BY <2>2, <2>3 DEF Msgs
  <2> QED
    BY <2>1, <2>4, <2>5, <2>6 DEF TypeOK, MainOK, ThreadsOK, ThreadStates
<1> QED
  BY Invariance, <1>1, PTL

(* The chunks are written in the order they were read, and all of them     *)
(* when write_blob_list succeeds.                                          *)
THEOREM ChunksInOrder == Spec => []ResultsInOrder
<1>1. IInv => ResultsInOrder
  BY DEF IInv, WrittenOK, ResultsInOrder
<1> QED
  BY Invariance, <1>1, PTL

(* A message that is at one place of a list is there once. *)
Spots(tag, s, m) == {<<tag, i>> : i \in {j \in DOMAIN s : s[j] = m}}

LEMMA OnePlace ==
    ASSUME NEW s \in Seq(Nat), Distinct(s), NEW m, NEW tag
    PROVE  /\ m \in InSeq(s) => \E i : Spots(tag, s, m) = {<<tag, i>>}
           /\ m \notin InSeq(s) => Spots(tag, s, m) = {}
<1>1. DOMAIN s = 1..Len(s)
  OBVIOUS
<1>2. ASSUME m \in InSeq(s)
      PROVE  \E i : Spots(tag, s, m) = {<<tag, i>>}
  <2>1. PICK i \in 1..Len(s) : s[i] = m
    BY <1>2, IndexOf
  <2>2. {k \in DOMAIN s : s[k] = m} = {i}
    BY <1>1, <2>1 DEF Distinct
  <2> QED
    BY <2>2 DEF Spots
<1>3. ASSUME m \notin InSeq(s) PROVE {k \in DOMAIN s : s[k] = m} = {}
  BY <1>3 DEF InSeq
<1> QED
  BY <1>2, <1>3 DEF Spots

(* A message is in one place at a time, whatever the threads do: no two    *)
(* threads of compress_parallel.c share its buffers, and none is lost.     *)
THEOREM OneOwnerEach == Spec => []MessagesHaveOneOwner
<1>1. IInv => MessagesHaveOneOwner
  <2> SUFFICES ASSUME IInv, NEW m \in DOMAIN msgs
               PROVE  /\ Cardinality(Places(m)) = 1
                      /\ \A p \in Places(m) :
                            m \in InSeq(submitted) <=> p[1] \notin {"available", "filled"}
    BY DEF MessagesHaveOneOwner
  <2>1. /\ OwnersOK /\ ListsOK /\ ThreadsOK /\ m \in Used /\ m # NoMsg
    <3>1. OwnersOK /\ m \in Used
      BY DEF IInv, OwnershipOK
    <3> QED
      BY <3>1, UsedAreNat DEF IInv, MainOK, NoMsg
  <2> DEFINE A == {<<"available", i>> : i \in {j \in DOMAIN available : available[j] = m}}
             F == {<<"filled", i>> : i \in {j \in {1} : nextSubmit = m}}
             Q == {<<"queued", i>> : i \in {j \in DOMAIN toCompress : toCompress[j] = m}}
             T == {<<"thread", t>> : t \in {u \in Threads : holds[u] = m}}
             C == {<<"compressed", i>> : i \in {j \in DOMAIN compressed : compressed[j] = m}}
             B == {<<"back", i>> : i \in {j \in DOMAIN submitted : submitted[j] = m /\ msgs[m].complete}}
             One(S) == \E x : S = {x}
  <2>2. /\ m \in Free => \E i : A = {<<"available", i>>}
        /\ m \notin Free => A = {}
    <3>1. A = Spots("available", available, m)
      BY DEF Spots
    <3>2. Distinct(available) /\ available \in Seq(Nat)
      BY <2>1 DEF OwnersOK, ListsOK
    <3> HIDE DEF A
    <3> QED
      BY <3>1, <3>2, OnePlace DEF Free
  <2>3. /\ m = nextSubmit => F = {<<"filled", 1>>}
        /\ m # nextSubmit => F = {}
    OBVIOUS
  <2>4. /\ m \in Queued => \E i : Q = {<<"queued", i>>}
        /\ m \notin Queued => Q = {}
    <3>1. Q = Spots("queued", toCompress, m)
      BY DEF Spots
    <3>2. Distinct(toCompress) /\ toCompress \in Seq(Nat)
      BY <2>1 DEF OwnersOK, ListsOK
    <3> HIDE DEF Q
    <3> QED
      BY <3>1, <3>2, OnePlace DEF Queued
  <2>5. /\ m \in AtWork => \E i : T = {<<"thread", i>>}
        /\ m \notin AtWork => T = {}
    <3>1. ASSUME m \in AtWork PROVE \E i : T = {<<"thread", i>>}
      <4>1. PICK t \in Threads : holds[t] = m
        BY <3>1 DEF AtWork
      <4>2. {u \in Threads : holds[u] = m} = {t}
        BY <2>1, <4>1 DEF ThreadsOK
      <4> QED
        BY <4>2
    <3>2. ASSUME m \notin AtWork PROVE {u \in Threads : holds[u] = m} = {}
      BY <2>1, <3>2 DEF AtWork
    <3> QED
      BY <3>1, <3>2
  <2>6. /\ m \in Back => \E i : C = {<<"compressed", i>>}
        /\ m \notin Back => C = {}
    <3>1. C = Spots("compressed", compressed, m)
      BY DEF Spots
    <3>2. Distinct(compressed) /\ compressed \in Seq(Nat)
      BY <2>1 DEF OwnersOK, ListsOK
    <3> HIDE DEF C
    <3> QED
      BY <3>1, <3>2, OnePlace DEF Back
  <2>7. /\ m \in Sent /\ msgs[m].complete => \E i : B = {<<"back", i>>}
        /\ m \notin Sent \/ ~msgs[m].complete => B = {}
    <3>1. CASE msgs[m].complete
      <4>1. B = Spots("back", submitted, m)
        BY <3>1 DEF Spots
      <4>2. Distinct(submitted) /\ submitted \in Seq(Nat)
        BY <2>1 DEF OwnersOK, ListsOK
      <4> HIDE DEF B
      <4> QED
        BY <3>1, <4>1, <4>2, OnePlace DEF Sent
    <3>2. CASE ~msgs[m].complete
      BY <3>2
    <3> QED
      BY <3>1, <3>2
  <2>8. Places(m) = A \cup F \cup Q \cup T \cup C \cup B
    BY DEF Places
  <2> HIDE DEF A, F, Q, T, C, B
  <2>9. \E p, i : Places(m) = {<<p, i>>} /\ (m \in Sent <=> p \notin {"available", "filled"})
    <3>1. CASE m \in Free
      <4>1. /\ m \notin Sent /\ m # nextSubmit /\ m \notin Queued /\ m \notin AtWork /\ m \notin Back
        BY <2>1, <3>1 DEF OwnersOK
      <4> QED
        BY <2>2, <2>3, <2>4, <2>5, <2>6, <2>7, <2>8, <3>1, <4>1
    <3>2. CASE m = nextSubmit
      <4>1. /\ m \notin Sent /\ m \notin Free /\ m \notin Queued /\ m \notin AtWork /\ m \notin Back
        BY <2>1, <3>2 DEF OwnersOK
      <4> QED
        BY <2>2, <2>3, <2>4, <2>5, <2>6, <2>7, <2>8, <3>2, <4>1
    <3>3. CASE m \in Sent
      <4>1. m \notin Free /\ m # nextSubmit /\ A = {} /\ F = {}
        BY <2>1, <2>2, <2>3, <3>3 DEF OwnersOK
      <4>2. msgs[m].complete <=> m \notin Queued \cup AtWork \cup Back
        BY <2>1, <3>3 DEF OwnersOK
      <4>3. CASE m \in Queued
        <5>1. m \notin AtWork /\ m \notin Back
          BY <2>1, <4>3 DEF OwnersOK
        <5>2. PICK i : Q = {<<"queued", i>>}
          BY <2>4, <4>3
        <5>3. Places(m) = {<<"queued", i>>}
          BY <2>4, <2>5, <2>6, <2>7, <2>8, <3>3, <4>1, <4>2, <4>3, <5>1, <5>2
        <5> QED
          BY <3>3, <5>3
      <4>4. CASE m \in AtWork
        <5>1. m \notin Queued /\ m \notin Back
          BY <2>1, <4>4 DEF OwnersOK
        <5>2. PICK i : T = {<<"thread", i>>}
          BY <2>5, <4>4
        <5>3. Places(m) = {<<"thread", i>>}
          BY <2>4, <2>5, <2>6, <2>7, <2>8, <3>3, <4>1, <4>2, <4>4, <5>1, <5>2
        <5> QED
          BY <3>3, <5>3
      <4>5. CASE m \in Back
        <5>1. m \notin Queued /\ m \notin AtWork
          BY <2>1, <4>5 DEF OwnersOK
        <5>2. PICK i : C = {<<"compressed", i>>}
          BY <2>6, <4>5
        <5>3. Places(m) = {<<"compressed", i>>}
          BY <2>4, <2>5, <2>6, <2>7, <2>8, <3>3, <4>1, <4>2, <4>5, <5>1, <5>2
        <5> QED
          BY <3>3, <5>3
      <4>6. CASE m \notin Queued \cup AtWork \cup Back
        BY <2>4, <2>5, <2>6, <2>7, <2>8, <3>3, <4>1, <4>2, <4>6
      <4> QED
        BY <4>3, <4>4, <4>5, <4>6
    <3> QED
      BY <2>1, <3>1, <3>2, <3>3 DEF OwnersOK
  <2>10. PICK p, i : Places(m) = {<<p, i>>} /\ (m \in Sent <=> p \notin {"available", "filled"})
    BY <2>9
  <2>11. Cardinality(Places(m)) = 1
    BY <2>10, FS_Singleton
  <2>12. \A q \in Places(m) : q[1] = p
    BY <2>10
  <2> QED
    BY <2>10, <2>11, <2>12 DEF Sent
<1> QED
  BY Invariance, <1>1, PTL
=============================================================================
