------------------------------ MODULE WimSplit ------------------------------
(***************************************************************************)
(* How an install image that is too large for FAT32 gets onto the medium:  *)
(* writeWindowsInstall computes the size of the slices, wimlib_split       *)
(* distributes the resources over parts and writes one part after the      *)
(* other: first the resources that can be copied as they are, then those   *)
(* that are stored uncompressed and are compressed on the way.  The        *)
(* progress of a part is added to what the parts before it had.  The user  *)
(* can stop at each report.                                                *)
(***************************************************************************)
EXTENDS Integers, Sequences, SequencesExt

CONSTANTS
    FatMax,        \* FAT32_MAX_FILE_SIZE, the largest UInt32
    ByteRange,     \* 256, the range of the UInt8 for the number of parts
    PartsAtATime,  \* 8, what num_alloc_parts grows by
    Metadata,      \* sequences of sizes: the metadata resources of the images
    Blobs,         \* sequences of sizes: the file resources, in their order
    ChunkSize,     \* how much is compressed at a time
    Waste,         \* how much larger the source is: tables, replaced resources;
                   \* or how much smaller it was before the metadata was patched
    Faults         \* what may fail: "memory", "write"

ASSUME SizesAssumption ==
    /\ FatMax \in Nat \ {0} /\ ByteRange \in Nat \ {0} /\ PartsAtATime \in Nat \ {0}
    /\ ChunkSize \in Nat \ {0}
    /\ Metadata \cup Blobs \subseteq Seq(Nat \ {0})
    /\ Waste \subseteq Int

VARIABLES
    pc,           \* where the split is
    fileSize,     \* dwFile.size, the size of the source
    metadata,     \* the metadata resources
    blobs,        \* the file resources
    uncompressed, \* those of them that are stored uncompressed
    slice,        \* maxSliceSize, later max_part_size
    parts,        \* swm_info.parts: the list of blobs and the size of each
    array,        \* the allocation swm_info.parts points to
    heads,        \* the allocation with the head the list of each part is linked to
    added,        \* how many blobs have been added to a part
    medium,       \* the part files: number, total, resources, whether finished
    left,         \* what is still to be written of each blob of the current part
    bytes,        \* progress.write_streams.completed_compressed_bytes of the part
    completed,    \* progress.split.completed_bytes
    lastPart,     \* lastSplittedPartInfo.completed_bytes
    reported,     \* what the callback was told last
    result        \* "none", "success", "failure", "skipped", or "crashed"

source == <<fileSize, metadata, blobs, uncompressed>>
plan == <<parts, array, heads, added>>
writing == <<medium, left, bytes>>
progress == <<completed, lastPart, reported>>
vars == <<pc, source, slice, plan, writing, progress, result>>

Total(list) == FoldLeft(+, 0, list)
SizesOf(list) == [i \in DOMAIN list |-> blobs[list[i]]]

Init ==
    /\ metadata \in Metadata /\ blobs \in Blobs
    /\ uncompressed \in SUBSET DOMAIN blobs
    /\ \E waste \in Waste : fileSize = Total(metadata) + Total(blobs) + waste
    /\ fileSize > FatMax  \* requiresSplitting
    /\ pc = "divide" /\ slice = 0
    /\ parts = <<>> /\ array = 0 /\ heads = <<>> /\ added = 0
    /\ medium = <<>> /\ left = <<>> /\ bytes = 0
    /\ completed = 0 /\ lastPart = 0 /\ reported = 0 /\ result = "none"

Return(outcome) == pc' = "done" /\ result' = outcome

-----------------------------------------------------------------------------
(* writeWindowsInstall                                                     *)

(* Mutant: the quotient is not rounded up. *)
PartsCountFloor(size) == (size \div FatMax) % ByteRange

(* ceil, and the UInt8 it is kept in: a larger number wraps in every build *)
(* there is, though C leaves it undefined.                                 *)
PartsCount(size) == ((size + FatMax - 1) \div FatMax) % ByteRange

(* The quotient is kept in a UInt32.  A division by zero ends the program  *)
(* on Intel; on Apple silicon the quotient is zero.                        *)
Divide ==
    /\ pc = "divide"
    /\ \/ /\ PartsCount(fileSize) # 0
          /\ slice' = (fileSize \div PartsCount(fileSize)) % (FatMax + 1)
          /\ pc' = "plan" /\ UNCHANGED result
       \/ /\ PartsCount(fileSize) = 0
          /\ slice' = 0
          /\ \/ Return("crashed")
             \/ pc' = "plan" /\ UNCHANGED result
    /\ UNCHANGED <<source, plan, writing, progress>>

-----------------------------------------------------------------------------
(* wimlib_split                                                            *)

(* WIMLIB_ERR_INVALID_PARAM *)
RefuseSlice ==
    /\ pc = "plan" /\ slice = 0
    /\ Return("failure")
    /\ UNCHANGED <<source, slice, plan, writing, progress>>

(* A blob goes to the next part if it does not fit into this one, unless   *)
(* there is nothing in this one.                                           *)
NeedsPart ==
    LET filled == parts[Len(parts)].size IN
    filled + blobs[added + 1] >= slice /\ filled # 0

StartsPart ==
    \/ pc = "plan" /\ slice # 0
    \/ pc = "distribute" /\ added < Len(blobs) /\ NeedsPart

(* start_new_swm_part: the array of the parts is moved to a larger one     *)
(* when it is full.  The heads of the lists are in it: each list is linked *)
(* to its new head.                                                        *)
NeedsMemory == Len(parts) % PartsAtATime = 0

MoveArray ==
    IF NeedsMemory
    THEN /\ array' = array + 1
         /\ heads' = [p \in 1..(Len(parts) + 1) |-> array + 1]
    ELSE heads' = Append(heads, array) /\ UNCHANGED array

OutOfMemory ==
    /\ "memory" \in Faults /\ StartsPart /\ NeedsMemory
    /\ Return("failure")
    /\ UNCHANGED <<source, slice, plan, writing, progress>>

(* All the metadata goes into the first part. *)
AddMetadata ==
    /\ pc = "plan" /\ slice # 0 /\ pc' = "distribute"
    /\ parts' = <<[list |-> <<>>, size |-> Total(metadata)]>>
    /\ MoveArray
    /\ UNCHANGED <<source, slice, added, writing, progress, result>>

(* Mutant: the list of the new part is begun, the blob is left in neither. *)
NewPartWithout(size) == Append(parts, [list |-> <<>>, size |-> size])

NewPart(size) == Append(parts, [list |-> <<added + 1>>, size |-> size])

(* add_blob_to_swm *)
AddBlob ==
    /\ pc = "distribute" /\ added < Len(blobs)
    /\ LET size == blobs[added + 1] IN
       \/ NeedsPart /\ parts' = NewPart(size) /\ MoveArray
       \/ /\ ~NeedsPart
          /\ parts' = [parts EXCEPT ![Len(parts)].size = @ + size,
                                    ![Len(parts)].list = Append(@, added + 1)]
          /\ UNCHANGED <<array, heads>>
    /\ added' = added + 1
    /\ UNCHANGED <<pc, source, slice, writing, progress, result>>

AllAdded ==
    /\ pc = "distribute" /\ added = Len(blobs) /\ pc' = "part"
    /\ UNCHANGED <<source, slice, plan, writing, progress, result>>

-----------------------------------------------------------------------------
(* write_split_wim, write_wim_part and write_blob_list, with               *)
(* defaultSplitProgress as the progress function of the WIM.               *)

current == Len(medium)

(* SPLIT_BEGIN_PART, and the file is created anew.  WRITE_STREAMS comes at *)
(* once, unless there is nothing in the list.                              *)
BeginPart ==
    /\ pc = "part" /\ current < Len(parts)
    /\ lastPart' = completed
    /\ left' = SizesOf(parts[current + 1].list) /\ bytes' = 0
    /\ \/ /\ pc' = IF parts[current + 1].list = <<>> THEN "write" ELSE "report"
          /\ UNCHANGED result
          /\ medium' = Append(medium, [number |-> current + 1, total |-> Len(parts), list |-> <<>>,
                                       metadata |-> <<>>, finished |-> FALSE])
       \/ "write" \in Faults /\ Return("failure") /\ UNCHANGED medium
    /\ UNCHANGED <<source, slice, plan, completed, reported>>

(* Mutant: what the parts before had is left out. *)
BytesOfPart == bytes

(* WIMLIB_PROGRESS_MSG_WRITE_STREAMS *)
BytesWritten == bytes + lastPart

(* WRITE_STREAMS comes at the start of a part and then when enough has     *)
(* been written.  The callback passes the bytes on and answers.            *)
Report ==
    /\ pc = "report"
    /\ \/ /\ reported' = BytesWritten
          /\ (pc' = "write" /\ UNCHANGED result) \/ Return("skipped")
       \/ bytes > 0 /\ pc' = "write" /\ UNCHANGED <<reported, result>>
    /\ UNCHANGED <<source, slice, plan, writing, completed, lastPart>>

(* The order of writing: what can be copied as it is comes first. *)
Before(i, j) ==
    IF (i \in uncompressed) = (j \in uncompressed) THEN i < j ELSE j \in uncompressed

IsNext(k) ==
    /\ left[k] > 0
    /\ \A j \in DOMAIN left :
          left[j] > 0 /\ j # k => Before(parts[current].list[k], parts[current].list[j])

(* The blob k of the part is complete on the medium. *)
BlobWritten(k) ==
    medium' = [medium EXCEPT ![current].list = Append(@, parts[current].list[k])]

WriteFails == "write" \in Faults /\ Return("failure") /\ UNCHANGED writing

(* write_raw_copy_resources *)
CopyBlob ==
    /\ pc = "write"
    /\ \E k \in DOMAIN left :
          /\ IsNext(k) /\ parts[current].list[k] \notin uncompressed
          /\ \/ /\ left' = [left EXCEPT ![k] = 0]
                /\ bytes' = bytes + left[k]
                /\ BlobWritten(k)
                /\ pc' = "report" /\ UNCHANGED result
             \/ WriteFails
    /\ UNCHANGED <<source, slice, plan, progress>>

ChunkOf(k) == IF left[k] < ChunkSize THEN left[k] ELSE ChunkSize

(* write_chunk: the results come in the order of the data, and none is     *)
(* larger than what was compressed.  The last one completes the blob.      *)
WriteChunk ==
    /\ pc = "write"
    /\ \E k \in DOMAIN left :
          /\ IsNext(k) /\ parts[current].list[k] \in uncompressed
          /\ \/ /\ left' = [left EXCEPT ![k] = @ - ChunkOf(k)]
                /\ \E csize \in 1..ChunkOf(k) : bytes' = bytes + csize
                /\ IF left[k] = ChunkOf(k) THEN BlobWritten(k) ELSE UNCHANGED medium
                /\ pc' = "report" /\ UNCHANGED result
             \/ WriteFails
    /\ UNCHANGED <<source, slice, plan, progress>>

(* The metadata (WIMLIB_WRITE_FLAG_NO_METADATA is set but for the first    *)
(* part), the tables and the header, and SPLIT_END_PART.                   *)
EndPart ==
    /\ pc = "write" /\ \A k \in DOMAIN left : left[k] = 0
    /\ \/ /\ pc' = "part" /\ UNCHANGED result
          /\ medium' = [medium EXCEPT ![current].finished = TRUE,
                            ![current].metadata = IF current = 1 THEN metadata ELSE <<>>]
          /\ completed' = completed + parts[current].size
          /\ lastPart' = completed'
       \/ "write" \in Faults /\ Return("failure") /\ UNCHANGED <<medium, completed, lastPart>>
    /\ UNCHANGED <<source, slice, plan, left, bytes, reported>>

AllWritten ==
    /\ pc = "part" /\ current = Len(parts) /\ Return("success")
    /\ UNCHANGED <<source, slice, plan, writing, progress>>

Next ==
    \/ Divide \/ RefuseSlice
    \/ OutOfMemory \/ AddMetadata \/ AddBlob \/ AllAdded
    \/ BeginPart \/ Report \/ CopyBlob \/ WriteChunk \/ EndPart \/ AllWritten

Spec == Init /\ [][Next]_vars

-----------------------------------------------------------------------------
(* Properties                                                              *)

(* The types; the part under way is one that was planned. *)
TypeOK ==
    /\ pc \in {"divide", "plan", "distribute", "part", "report", "write", "done"}
    /\ result \in {"none", "success", "failure", "skipped", "crashed"}
    /\ slice \in 0..FatMax
    /\ added \in 0..Len(blobs) /\ current <= Len(parts)
    /\ pc \in {"report", "write"} =>
          current > 0 /\ DOMAIN left = DOMAIN parts[current].list

(* A source of at most 255 times what FAT32 allows is cut into slices of   *)
(* the size the division gives, and neither crashes the program nor is     *)
(* refused for its size: only a larger one makes the UInt8 of the number   *)
(* of parts wrap.  No list is linked to a head in an array that was freed. *)
PlanIsSound ==
    /\ TypeOK
    /\ fileSize <= FatMax * (ByteRange - 1) =>
          /\ result # "crashed"
          /\ pc \notin {"divide", "done"} =>
                slice # 0 /\ slice = fileSize \div ((fileSize + FatMax - 1) \div FatMax)
    /\ DOMAIN heads = DOMAIN parts /\ \A p \in DOMAIN parts : heads[p] = array

(* A split that succeeds leaves a complete set: the parts carry their      *)
(* numbers and all the same total, the first one the metadata, each file   *)
(* resource is in exactly one of them, the parts follow each other in the  *)
(* order of the resources, and so do the resources of a part, once those   *)
(* are put first that are copied as they are; and no part holds more than  *)
(* a slice of resources, unless it is a single one, or the metadata.       *)
PartsMakeTheImage ==
    result = "success" =>
        /\ \A p \in DOMAIN medium :
              /\ medium[p].number = p /\ medium[p].total = Len(medium) /\ medium[p].finished
              /\ medium[p].metadata = IF p = 1 THEN metadata ELSE <<>>
              /\ LET sizes == SizesOf(medium[p].list) \o medium[p].metadata IN
                 Total(sizes) < slice \/ Len(sizes) = 1 \/ medium[p].list = <<>>
        /\ \A i \in DOMAIN blobs :
              \E p \in DOMAIN medium : \E a \in DOMAIN medium[p].list : medium[p].list[a] = i
        /\ \A p, q \in DOMAIN medium : p < q =>
              \A a \in DOMAIN medium[p].list, b \in DOMAIN medium[q].list :
                 medium[p].list[a] < medium[q].list[b]
        /\ \A p \in DOMAIN medium : \A a, b \in DOMAIN medium[p].list :
              a < b => Before(medium[p].list[a], medium[p].list[b])

(* The bytes that are reported over all the parts only grow, and they      *)
(* never exceed the total that the same report names: the window shows     *)
(* their quotient.                                                         *)
ProgressOnlyAdvances ==
    [][/\ reported' >= reported
       /\ reported' <= Total([p \in DOMAIN parts |-> parts[p].size])]_vars
=============================================================================
