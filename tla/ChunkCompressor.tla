--------------------------- MODULE ChunkCompressor ---------------------------
(***************************************************************************)
(* How wimlib compresses the resources it writes: the thread that writes   *)
(* the WIM fills the chunks of messages and puts them into a queue, the    *)
(* threads of compress_parallel.c take them from there, and the results    *)
(* come back through a second queue in any order, to be written in the     *)
(* order of the file.  Creating the threads or the buffers, reading and    *)
(* writing may fail at any time; then everything must be taken down.       *)
(***************************************************************************)
EXTENDS Integers, Sequences, FiniteSets

CONSTANTS
    NumThreads,      \* num_threads, after the memory was taken into account
    MsgsPerThread,   \* msgs_per_thread
    PerMsg,          \* chunks_per_msg
    NumChunks,       \* the chunks of all the data to be written
    Incompressible,  \* those that do not get smaller
    Faults           \* what may fail

ASSUME NumbersAssumption ==
    /\ NumThreads \in Nat /\ NumThreads >= 2
    /\ MsgsPerThread \in Nat \ {0} /\ PerMsg \in Nat \ {0}
    /\ NumChunks \in Nat

VARIABLES
    main,         \* where write_blob_list is
    started,      \* ctx->num_started_threads
    thread,       \* each thread: "none", "ready" to look at its queue, "waiting", "busy", "ended"
    holds,        \* the message a thread is at work on
    toCompress,   \* ctx->chunks_to_compress_queue
    compressed,   \* ctx->compressed_chunks_queue
    terminating,  \* whether the first one is being terminated
    available,    \* ctx->available_msgs
    submitted,    \* ctx->submitted_msgs
    nextSubmit,   \* ctx->next_submit_msg
    nextReady,    \* ctx->next_ready_msg
    nextChunk,    \* ctx->next_chunk_idx
    msgs,         \* ctx->msgs, none when they are freed
    fed,          \* how many chunks have been read
    written,      \* the chunks that were written to the WIM
    ret           \* the result

queues == <<toCompress, compressed, terminating>>
lists  == <<available, submitted, nextSubmit, nextReady, nextChunk>>
vars == <<main, started, thread, holds, queues, lists, msgs, fed, written, ret>>

Threads == 1..NumThreads
NoMsg == 0
Used == 1..(started * MsgsPerThread)
Spoilt == -1  \* a buffer whose data a compressor has destroyed

(* list_del *)
Removed(s, x) ==
    LET at == CHOOSE i \in DOMAIN s : s[i] = x IN
    [i \in 1..(Len(s) - 1) |-> IF i < at THEN s[i] ELSE s[i + 1]]

InSeq(s) == {s[i] : i \in DOMAIN s}
Fresh == [filled |-> 0, in |-> [i \in 1..PerMsg |-> Spoilt],
          out |-> [i \in 1..PerMsg |-> 0], complete |-> FALSE]

Init ==
    /\ main = "create" /\ started = 0
    /\ thread = [t \in Threads |-> "none"] /\ holds = [t \in Threads |-> NoMsg]
    /\ toCompress = <<>> /\ compressed = <<>> /\ terminating = FALSE
    /\ available = <<>> /\ submitted = <<>>
    /\ nextSubmit = NoMsg /\ nextReady = NoMsg /\ nextChunk = 1
    /\ msgs = <<>> /\ fed = 0 /\ written = <<>> /\ ret = "none"

-----------------------------------------------------------------------------
(* new_parallel_chunk_compressor.  With two threads it makes do; with less *)
(* it is taken down again, and a serial one takes its place.               *)

StartThread ==
    /\ main = "create" /\ started < NumThreads
    /\ started' = started + 1
    /\ thread' = [thread EXCEPT ![started + 1] = "ready"]
    /\ UNCHANGED <<main, holds, queues, lists, msgs, fed, written, ret>>

StartThreadFails ==
    /\ main = "create" /\ started < NumThreads /\ "create" \in Faults
    /\ main' = IF started >= 2 THEN "allocate" ELSE "terminate"
    /\ ret' = IF started >= 2 THEN ret ELSE "serial"
    /\ UNCHANGED <<started, thread, holds, queues, lists, msgs, fed, written>>

Allocate ==
    /\ main = "allocate" \/ (main = "create" /\ started = NumThreads)
    /\ \/ /\ main' = "feed"
          /\ msgs' = [m \in Used |-> Fresh]
          /\ available' = [i \in Used |-> i]
          /\ UNCHANGED ret
       \/ /\ "memory" \in Faults
          /\ main' = "terminate" /\ ret' = "serial"
          /\ UNCHANGED <<msgs, available>>
    /\ UNCHANGED <<started, thread, holds, queues, submitted, nextSubmit, nextReady,
                   nextChunk, fed, written>>

-----------------------------------------------------------------------------
(* The queues.  A put or a get is one critical section of the queue's lock. *)

(* pthread_cond_signal wakes one of those who wait, if any. *)
SignalOne(th) ==
    LET waiting == {t \in Threads : th[t] = "waiting"} IN
    IF waiting = {} THEN {th} ELSE {[th EXCEPT ![t] = "ready"] : t \in waiting}

(* Mutant: the threads are told to end with a signal. *)
TellOne(th) == SignalOne(th)
TellAll(th) == {[t \in Threads |-> IF th[t] = "waiting" THEN "ready" ELSE th[t]]}

(* Mutant: the message stays the next one to be submitted. *)
SubmitAndKeep(m) ==
    /\ submitted' = Append(submitted, m)
    /\ toCompress' = Append(toCompress, m)
    /\ thread' \in SignalOne(thread)
    /\ nextSubmit' = nextSubmit

(* submit_compression_msg; the caller says what becomes of the rest of msgs *)
Submit(m) ==
    /\ submitted' = Append(submitted, m)
    /\ toCompress' = Append(toCompress, m)
    /\ thread' \in SignalOne(thread)
    /\ nextSubmit' = NoMsg

(* message_queue_get by a compressor thread *)
Get(t) ==
    /\ thread[t] = "ready"
    /\ IF terminating
       THEN thread' = [thread EXCEPT ![t] = "ended"] /\ UNCHANGED <<holds, toCompress>>
       ELSE IF toCompress = <<>>
       THEN thread' = [thread EXCEPT ![t] = "waiting"] /\ UNCHANGED <<holds, toCompress>>
       ELSE /\ thread' = [thread EXCEPT ![t] = "busy"]
            /\ holds' = [holds EXCEPT ![t] = Head(toCompress)]
            /\ toCompress' = Tail(toCompress)
    /\ UNCHANGED <<main, started, compressed, terminating, lists, msgs, fed, written, ret>>

(* compress_chunks and message_queue_put.  The compressors may destroy     *)
(* what they compress (WIMLIB_COMPRESSOR_FLAG_DESTRUCTIVE); the size 0     *)
(* stands for a chunk that did not get smaller.                            *)
Compress(t) ==
    LET m == holds[t]  msg == msgs[m] IN
    /\ thread[t] = "busy"
    /\ msgs' = [msgs EXCEPT
          ![m].out = [i \in 1..PerMsg |->
              IF i > msg.filled THEN @[i]
              ELSE IF msg.in[i] \in Incompressible THEN 0 ELSE msg.in[i]],
          ![m].in = [i \in 1..PerMsg |->
              IF i <= msg.filled /\ msg.in[i] \notin Incompressible THEN Spoilt ELSE @[i]]]
    /\ compressed' = Append(compressed, m)
    /\ thread' = [thread EXCEPT ![t] = "ready"]
    /\ holds' = [holds EXCEPT ![t] = NoMsg]
    /\ main' = IF main = "waiting" THEN "result" ELSE main
    /\ UNCHANGED <<started, toCompress, terminating, lists, fed, written, ret>>

-----------------------------------------------------------------------------
(* The thread that writes.                                                 *)

(* get_chunk_buffer, the reading of a chunk, signal_chunk_filled. *)
Feed ==
    /\ main = "feed" /\ fed < NumChunks
    /\ nextSubmit # NoMsg \/ available # <<>>
    /\ LET m == IF nextSubmit # NoMsg THEN nextSubmit ELSE Head(available)
           n == IF nextSubmit # NoMsg THEN msgs[m].filled + 1 ELSE 1 IN
       /\ available' = IF nextSubmit # NoMsg THEN available ELSE Tail(available)
       /\ msgs' = [msgs EXCEPT ![m].filled = n, ![m].in[n] = fed + 1,
                               ![m].complete = IF n = PerMsg THEN FALSE ELSE @]
       /\ IF n = PerMsg THEN Submit(m)
          ELSE nextSubmit' = m /\ UNCHANGED <<submitted, toCompress, thread>>
    /\ fed' = fed + 1
    /\ UNCHANGED <<main, started, holds, compressed, terminating, nextReady, nextChunk,
                   written, ret>>

(* prepare_chunk_buffer: no message is available, so results are fetched. *)
NoBuffer ==
    /\ main = "feed" /\ fed < NumChunks
    /\ nextSubmit = NoMsg /\ available = <<>>
    /\ main' = "result"
    /\ UNCHANGED <<started, thread, holds, queues, lists, msgs, fed, written, ret>>

(* finish_remaining_chunks: the last message may be filled in part only. *)
Finish ==
    /\ main = "feed" /\ fed = NumChunks
    /\ main' = "result"
    /\ IF nextSubmit = NoMsg
       THEN UNCHANGED <<submitted, toCompress, thread, nextSubmit, msgs>>
       ELSE Submit(nextSubmit) /\ msgs' = [msgs EXCEPT ![nextSubmit].complete = FALSE]
    /\ UNCHANGED <<started, holds, compressed, terminating, available, nextReady, nextChunk,
                   fed, written, ret>>

(* Mutant: whatever has come back is taken for the next message. *)
AnyComplete == IF \E m \in InSeq(submitted) : msgs[m].complete
               THEN CHOOSE m \in InSeq(submitted) : msgs[m].complete ELSE NoMsg

FirstIfComplete == IF msgs[submitted[1]].complete THEN submitted[1] ELSE NoMsg

(* message_queue_get by the thread that writes, while the first of the     *)
(* submitted messages has not come back.                                   *)
AwaitResult ==
    /\ main = "result" /\ nextReady = NoMsg /\ submitted # <<>>
    /\ FirstIfComplete = NoMsg
    /\ IF compressed = <<>>
       THEN main' = "waiting" /\ UNCHANGED <<compressed, msgs>>
       ELSE /\ msgs' = [msgs EXCEPT ![Head(compressed)].complete = TRUE]
            /\ compressed' = Tail(compressed)
            /\ UNCHANGED main
    /\ UNCHANGED <<started, thread, holds, toCompress, terminating, lists, fed, written, ret>>

(* The rest of get_compression_result, and write_chunk. *)
WriteChunk ==
    /\ main = "result" /\ (nextReady # NoMsg \/ submitted # <<>>)
    /\ LET m == IF nextReady # NoMsg THEN nextReady ELSE FirstIfComplete
           i == IF nextReady # NoMsg THEN nextChunk ELSE 1
           chunk == IF msgs[m].out[i] # 0 THEN msgs[m].out[i] ELSE msgs[m].in[i]
           last == i = msgs[m].filled IN
       /\ m # NoMsg
       /\ nextReady' = IF last THEN NoMsg ELSE m
       /\ nextChunk' = i + 1
       /\ submitted' = IF last THEN Removed(submitted, m) ELSE submitted
       /\ available' = IF last THEN Append(available, m) ELSE available
       /\ \/ written' = Append(written, chunk) /\ UNCHANGED ret
             /\ main' = IF last /\ fed < NumChunks THEN "feed" ELSE "result"
          \/ "write" \in Faults /\ UNCHANGED written /\ ret' = "error" /\ main' = "terminate"
    /\ UNCHANGED <<started, thread, holds, queues, nextSubmit, msgs, fed>>

ReadFails ==
    /\ main = "feed" /\ fed < NumChunks /\ "read" \in Faults
    /\ main' = "terminate" /\ ret' = "error"
    /\ UNCHANGED <<started, thread, holds, queues, lists, msgs, fed, written>>

AllWritten ==
    /\ main = "result" /\ nextReady = NoMsg /\ submitted = <<>> /\ fed = NumChunks
    /\ main' = "terminate" /\ ret' = "success"
    /\ UNCHANGED <<started, thread, holds, queues, lists, msgs, fed, written>>

-----------------------------------------------------------------------------
(* parallel_chunk_compressor_destroy.                                      *)

Terminate ==
    /\ main = "terminate" /\ main' = "join"
    /\ terminating' = (started # 0)
    /\ thread' \in TellAll(thread)
    /\ UNCHANGED <<started, holds, toCompress, compressed, lists, msgs, fed, written, ret>>

(* Mutant: the thread created last is not waited for. *)
AllButOneJoined == \A t \in 1..(started - 1) : thread[t] = "ended"
AllJoined == \A t \in 1..started : thread[t] = "ended"

Destroy ==
    /\ main = "join" /\ AllJoined
    /\ msgs' = <<>>
    /\ main' = IF ret = "serial" THEN "serial" ELSE "returned"
    /\ UNCHANGED <<started, thread, holds, queues, lists, fed, written, ret>>

(* new_serial_chunk_compressor and its one buffer: a chunk is compressed   *)
(* when it is filled, and written before the next one can be.              *)
Serial ==
    /\ main = "serial"
    /\ \/ /\ fed < NumChunks
          /\ fed' = fed + 1 /\ written' = Append(written, fed + 1)
          /\ UNCHANGED <<main, ret>>
       \/ /\ fed = NumChunks
          /\ main' = "returned" /\ ret' = "success"
          /\ UNCHANGED <<fed, written>>
       \/ /\ Faults \cap {"memory", "read", "write"} # {}
          /\ main' = "returned" /\ ret' = "error"
          /\ UNCHANGED <<fed, written>>
    /\ UNCHANGED <<started, thread, holds, queues, lists, msgs>>

Main ==
    \/ StartThread \/ StartThreadFails \/ Allocate
    \/ Feed \/ NoBuffer \/ Finish \/ AwaitResult \/ WriteChunk \/ ReadFails \/ AllWritten
    \/ Terminate \/ Destroy \/ Serial
Next == Main \/ \E t \in Threads : Get(t) \/ Compress(t)

(* A thread that can run does. *)
Fairness == WF_vars(Main) /\ \A t \in Threads : WF_vars(Get(t) \/ Compress(t))
Spec == Init /\ [][Next]_vars
FairSpec == Spec /\ Fairness

-----------------------------------------------------------------------------
(* Properties                                                              *)

(* The messages of compress_parallel.c are there as long as a thread works *)
(* on one: destroy frees them only when every thread that was started has  *)
(* ended, also when the creation of a thread or of the messages failed.    *)
TypeOK ==
    /\ started \in 0..NumThreads /\ fed \in 0..NumChunks
    /\ \A t \in Threads :
          /\ thread[t] \in {"none", "ready", "waiting", "busy", "ended"}
          /\ thread[t] = "none" <=> t > started
          /\ thread[t] = "busy" <=> holds[t] # NoMsg
          /\ thread[t] = "busy" => holds[t] \in DOMAIN msgs
    /\ nextSubmit # NoMsg => nextSubmit \in DOMAIN msgs \/ main \in {"serial", "returned"}
    /\ \A m \in DOMAIN msgs : msgs[m].filled \in 0..PerMsg

(* What is written are the chunks in the order they were read, whatever    *)
(* the threads do and whichever is ready first: chunk n is n, not what a   *)
(* buffer held before or what a compressor left of it; and success means   *)
(* all of them.  The offsets in the chunk table rely on it.                *)
ResultsInOrder ==
    /\ \A n \in 1..Len(written) : written[n] = n
    /\ ret = "success" => Len(written) = NumChunks

(* A message is in one place at a time: free, being filled, in a queue,    *)
(* with a thread, or back and not yet written; the four last are the       *)
(* submitted ones.  Two owners would mean a data race on its buffers, none *)
(* a message lost and, in the end, everyone waiting.                       *)
Places(m) ==
    {<<"available", i>> : i \in {j \in DOMAIN available : available[j] = m}}
    \cup {<<"filled", i>> : i \in {j \in {1} : nextSubmit = m}}
    \cup {<<"queued", i>> : i \in {j \in DOMAIN toCompress : toCompress[j] = m}}
    \cup {<<"thread", t>> : t \in {u \in Threads : holds[u] = m}}
    \cup {<<"compressed", i>> : i \in {j \in DOMAIN compressed : compressed[j] = m}}
    \cup {<<"back", i>> : i \in {j \in DOMAIN submitted : submitted[j] = m /\ msgs[m].complete}}
MessagesHaveOneOwner ==
    \A m \in DOMAIN msgs :
        /\ Cardinality(Places(m)) = 1
        /\ \A p \in Places(m) : m \in InSeq(submitted) <=> p[1] \notin {"available", "filled"}

(* Whatever fails, the writing thread returns, and every thread that was   *)
(* started has ended: nobody waits for a signal that was given before or   *)
(* to someone else.                                                        *)
EverythingEnds ==
    <>(main = "returned" /\ \A t \in Threads : thread[t] \in {"none", "ended"})
=============================================================================
