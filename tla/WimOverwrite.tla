---------------------------- MODULE WimOverwrite ----------------------------
(***************************************************************************)
(* wimlib_overwrite: how the changes made to a WIM in memory reach its     *)
(* file.  WimlibWrapper calls it to patch the installation type in the XML *)
(* data of a Windows image; the library also appends new resources behind  *)
(* the old end of the file, compacts it in place, or writes a new file and *)
(* renames it over the old one.  Every write may fail, the process may be  *)
(* killed before any of them, and the power may go.                        *)
(*                                                                         *)
(* A file is its header and a row of cells; a cell holds a resource, a     *)
(* blob table, a part of the XML data or an integrity table.               *)
(***************************************************************************)
EXTENDS Integers, FiniteSets

CONSTANTS
    Images,      \* the images that a caller of the library changes
    Size,        \* the cells a file may have
    XmlLengths,  \* how many cells the XML data may take
    ChunkSize,   \* the cells an entry of an integrity table covers
    FirstFiles,  \* the files a run may begin with
    CallFlags,   \* the flags a caller of wimlib_overwrite may pass
    Faults,      \* what may fail
    MaxOpens     \* how often the file is opened

ASSUME NumbersAssumption ==
    /\ Size \in Nat /\ MaxOpens \in Nat
    /\ ChunkSize \in Nat \ {0}
    /\ XmlLengths \subseteq Nat \ {0}

VARIABLES
    file,     \* the file at each path: "wim" is wim->filename, "tmp" the temporary name
    synced,   \* what of it has reached the medium for certain
    wim,      \* the WIMStruct, with what a reader found and if it was intact
    stage,    \* where wimlib_overwrite is
    caller,   \* "wrapper" or "library"
    mode,     \* how it overwrites: "xml", "append", "compact", "tmp", or "none" so far
    flags,    \* its write_flags
    oldEnd,   \* old_wim_end
    todo,     \* the blobs still to be written, with the cell they are read from
    written,  \* the entries of the new blob table
    xmlLen,   \* the length of the new XML data ...
    part,     \* ... and the part of it to be written next
    out,      \* wim->out_fd.offset
    outHdr,   \* wim->out_hdr
    oldSums,  \* the old integrity table, read into memory
    ret,      \* the result, "error" from the first failure on
    opens     \* how often the file was opened

vars == <<file, synced, wim, stage, caller, mode, flags, oldEnd, todo, written,
          xmlLen, part, out, outHdr, oldSums, ret, opens>>

-----------------------------------------------------------------------------
(* Files *)

Cells == 1..Size
FirstCell == 1

None == [is |-> "none"]
Torn == [is |-> "torn"]
Blob(id) == [is |-> "blob", id |-> id]
Table(refs) == [is |-> "table", refs |-> refs]
Xml(doc, len, i) == [is |-> "xml", doc |-> doc, len |-> len, part |-> i]
Integrity(end, sums) == [is |-> "integrity", end |-> end, sums |-> sums]

(* A struct wim_reshdr: where something is in the file. *)
Nowhere == [at |-> 0, len |-> 0]
At(a, n) == [at |-> a, len |-> n]
End(r) == IF r = Nowhere THEN FirstCell ELSE r.at + r.len

NoHeader == [table |-> Nowhere, xml |-> Nowhere, integrity |-> Nowhere,
             count |-> 0, inProgress |-> FALSE, readonly |-> FALSE]
NoFile == [hdr |-> NoHeader, cells |-> [c \in Cells |-> None]]

(* Where a header or a blob table points to is in the file.  An entry of a *)
(* blob table is a resource and its place, and XML data are of finitely    *)
(* many images.                                                            *)
ResHdrs == {r \in [at : Nat, len : Nat] :
               r = Nowhere \/ (r.at >= 1 /\ r.len >= 1 /\ r.at + r.len <= Size + 1)}
Headers == [table : ResHdrs, xml : ResHdrs, integrity : ResHdrs,
            count : Int, inProgress : BOOLEAN, readonly : BOOLEAN]
IsCell(cell) ==
    /\ cell.is = "table" => \A r \in cell.refs : r.at \in Cells /\ r = [id |-> r.id, at |-> r.at]
    /\ cell.is = "xml" => IsFiniteSet(DOMAIN cell.doc)
IsFile(f) ==
    /\ f = [hdr |-> f.hdr, cells |-> f.cells] /\ f.hdr \in Headers
    /\ f.cells = [c \in Cells |-> f.cells[c]]
    /\ \A c \in Cells : IsCell(f.cells[c])

ASSUME FirstFilesAssumption == \A f \in FirstFiles : IsFile(f)

HasXml(f) ==
    LET r == f.hdr.xml IN
    /\ r # Nowhere
    /\ \A i \in 1..r.len :
          /\ f.cells[r.at + i - 1].is = "xml"
          /\ f.cells[r.at + i - 1] = Xml(f.cells[r.at].doc, r.len, i)
HasTable(f) == f.hdr.table # Nowhere /\ f.cells[f.hdr.table.at].is = "table"
DocOf(f) == f.cells[f.hdr.xml.at].doc
RefsOf(f) == f.cells[f.hdr.table.at].refs
IsMeta(id) == id[1] = "meta"
ImageOf(id) == id[2]

(* One metadata resource for each image: in the file the n-th of them is   *)
(* that of the n-th image, here both have the name of the image.  (Where   *)
(* there are too many or too few the code warns; no file here is like it.) *)
Metas(refs) == {r \in refs : IsMeta(r.id)}
OneForEach(metas, images) ==
    /\ {ImageOf(m.id) : m \in metas} = images
    /\ \A m, n \in metas : ImageOf(m.id) = ImageOf(n.id) => m = n

(* begin_read accepts it: header, XML data, blob table, and as many images *)
(* and metadata resources as the header says.                              *)
BeginRead(f) ==
    /\ HasXml(f)
    /\ Cardinality(DOMAIN DocOf(f)) = f.hdr.count
    /\ HasTable(f)
    /\ OneForEach(Metas(RefsOf(f)), DOMAIN DocOf(f))

(* What a reader finds: every resource is checked against its hash. *)
Damaged == [doc |-> <<>>, ids |-> {}]
Contents(f) ==
    IF BeginRead(f) /\ \A r \in RefsOf(f) : f.cells[r.at] = Blob(r.id)
    THEN [doc |-> DocOf(f), ids |-> {r.id : r \in RefsOf(f)}]
    ELSE Damaged

(* After a loss of power each part of a file is as it was synced or as it  *)
(* was written since, in any combination.                                  *)
AfterPowerLoss(path) ==
    LET new == file[path]  old == synced[path]
        unsure == {c \in Cells : new.cells[c] # old.cells[c]} IN
    {[hdr |-> h, cells |-> [c \in Cells |-> IF c \in kept THEN new.cells[c] ELSE old.cells[c]]] :
        h \in {new.hdr, old.hdr}, kept \in SUBSET unsure}

(* What the WIMStruct stands for: its images, and the blobs they refer to. *)
(* Writing in place takes the old blobs as they are (STREAMS_OK).          *)
Referenced == {b \in wim.blobs : ImageOf(b.id) \in DOMAIN wim.doc}
BlobsInOutput == wim.metas \cup (IF mode \in {"append", "xml"} THEN wim.blobs ELSE Referenced)
Wanted == [doc |-> wim.doc, ids |-> {b.id : b \in BlobsInOutput}]

-----------------------------------------------------------------------------
(* The integrity table (integrity.c): an entry for every ChunkSize cells   *)
(* behind the header up to the end of the blob table.                      *)

NumChunks(end) == (end - FirstCell + ChunkSize - 1) \div ChunkSize
ChunkCells(i, end) ==
    {c \in FirstCell..(end - 1) : (c - FirstCell) \div ChunkSize = i - 1}
ActualSum(cells, i, end) == [c \in ChunkCells(i, end) |-> cells[c]]
ActualSums(cells, end) == [i \in 1..NumChunks(end) |-> ActualSum(cells, i, end)]

(* Mutant: the last entry of the old table is taken over too. *)
OldEntryCountsAlways(i, end, old) == i <= NumChunks(old.end)

(* An entry of the old table can be used again for a chunk that was full,  *)
(* or for the last one if it has not grown.                                *)
OldEntryCounts(i, end, old) ==
    LET same == Cardinality(ChunkCells(i, end)) IN
    \/ same = ChunkSize /\ i < NumChunks(old.end)
    \/ i = NumChunks(old.end) /\ same = Cardinality(ChunkCells(i, old.end))

CalculateIntegrityTable(cells, end) ==
    Integrity(end, [i \in 1..NumChunks(end) |->
        IF oldSums # None /\ OldEntryCounts(i, end, oldSums)
        THEN oldSums.sums[i]
        ELSE ActualSum(cells, i, end)])

VerifyIntegrity(f) ==
    f.hdr.integrity # Nowhere
        => f.cells[f.hdr.integrity.at]
             = Integrity(End(f.hdr.table), ActualSums(f.cells, End(f.hdr.table)))

-----------------------------------------------------------------------------
Init ==
    /\ \E f \in FirstFiles : file = [wim |-> f, tmp |-> NoFile]
    /\ synced = file
    /\ wim = [hdr |-> NoHeader, blobs |-> {}, metas |-> {}, doc |-> <<>>, deleted |-> FALSE,
              read |-> Damaged, verified |-> TRUE]
    /\ stage = "closed" /\ caller = "library"
    /\ mode = "none" /\ flags = {} /\ oldEnd = FirstCell
    /\ todo = {} /\ written = {}
    /\ xmlLen = 0 /\ part = 1 /\ out = FirstCell
    /\ outHdr = NoHeader /\ oldSums = None
    /\ ret = "none" /\ opens = 0

(* wimlib_open_wim.  By then what an earlier process wrote has reached the *)
(* medium, and a next temporary file will have another name.               *)
Open ==
    /\ stage = "closed" /\ opens < MaxOpens
    /\ LET f == file.wim IN
       /\ BeginRead(f)
       /\ wim' = [hdr |-> f.hdr,
                  blobs |-> {r \in RefsOf(f) : ~IsMeta(r.id)},
                  metas |-> {r \in RefsOf(f) : IsMeta(r.id)},
                  doc |-> DocOf(f), deleted |-> FALSE,
                  read |-> Contents(f), verified |-> VerifyIntegrity(f)]
       /\ file' = [wim |-> f, tmp |-> NoFile]
       /\ synced' = file'
    /\ opens' = opens + 1
    /\ stage' = "open" /\ ret' = "none" /\ mode' = "none"
    /\ caller' \in {"wrapper", "library"}
    /\ UNCHANGED <<flags, oldEnd, todo, written, xmlLen, part, out, outHdr, oldSums>>

(* Changes in memory.  A new resource has no place in the file yet, nor    *)
(* has the metadata of an image that was changed.                          *)
OnlyInMemory ==
    UNCHANGED <<file, synced, caller, mode, flags, oldEnd, todo, written, xmlLen,
                part, out, outHdr, oldSums, opens>>

SetImageProperty(i) ==
    /\ stage = "open" /\ caller = "library"
    /\ i \in DOMAIN wim.doc /\ wim.doc[i] # "Server"
    /\ wim' = [wim EXCEPT !.doc[i] = "Server"]
    /\ UNCHANGED <<stage, ret>> /\ OnlyInMemory

UpdateImage(i) ==
    /\ stage = "open" /\ caller = "library"
    /\ \E m \in wim.metas :
          /\ ImageOf(m.id) = i /\ m.at # 0
          /\ wim' = [wim EXCEPT
                !.metas = (@ \ {m}) \cup {[id |-> <<"meta", i, opens>>, at |-> 0]},
                !.blobs = @ \cup {[id |-> <<"file", i, opens>>, at |-> 0]}]
    /\ UNCHANGED <<stage, ret>> /\ OnlyInMemory

(* Blobs that are in the file stay in the blob table without references.  *)
(* Images are renumbered in the code; here they keep their names.          *)
DeleteImage(i) ==
    /\ stage = "open" /\ caller = "library"
    /\ i \in DOMAIN wim.doc /\ DOMAIN wim.doc # {i}
    /\ wim' = [wim EXCEPT
          !.metas = {m \in @ : ImageOf(m.id) # i},
          !.blobs = {b \in @ : ImageOf(b.id) # i \/ b.at # 0},
          !.doc = [j \in DOMAIN @ \ {i} |-> @[j]],
          !.hdr.count = @ - 1,
          !.deleted = TRUE]
    /\ UNCHANGED <<stage, ret>> /\ OnlyInMemory

(* -patchWindowsRequirementsChecks with -applyChanges: an image            *)
(* without the property, or with the right value, is skipped.              *)
PatchAll ==
    LET changed == {i \in DOMAIN wim.doc : wim.doc[i] = "Client"} IN
    /\ stage = "open" /\ caller = "wrapper"
    /\ \/ /\ changed = {}
          /\ stage' = "closed" /\ ret' = "skipped"
          /\ UNCHANGED <<wim, flags>>
       \/ /\ changed # {} /\ "memory" \in Faults
          /\ stage' = "closed" /\ ret' = "error"
          /\ UNCHANGED <<wim, flags>>
       \/ /\ changed # {}
          /\ wim' = [wim EXCEPT !.doc = [i \in DOMAIN @ |->
                        IF i \in changed THEN "Server" ELSE @[i]]]
          /\ stage' = "call" /\ flags' = {} /\ UNCHANGED ret
    /\ UNCHANGED <<file, synced, caller, mode, oldEnd, todo, written, xmlLen,
                   part, out, outHdr, oldSums, opens>>

Call(fs) ==
    /\ stage = "open" /\ caller = "library"
    /\ stage' = "call" /\ flags' = fs
    /\ UNCHANGED <<file, synced, wim, caller, mode, oldEnd, todo, written, xmlLen,
                   part, out, outHdr, oldSums, ret, opens>>

-----------------------------------------------------------------------------
(* wimlib_overwrite chooses how it overwrites.                             *)

InWim == {b \in wim.blobs \cup wim.metas : b.at # 0}
AnyImagesChanged == wim.deleted \/ \E m \in wim.metas : m.at = 0
HasIntegrity == wim.hdr.integrity # Nowhere
WantsIntegrity == "check" \in flags \/ ("nocheck" \notin flags /\ HasIntegrity)

CanOverwriteInPlace ==
    \/ "compact" \in flags
    \/ "rebuild" \notin flags /\ (wim.deleted => "soft_delete" \in flags)

(* Mutant: new resources may begin behind the blob table even if the old   *)
(* XML data are still needed.                                              *)
OldWimEndBehindTable == End(wim.hdr.table)

OldWimEnd ==
    IF ~AnyImagesChanged THEN End(wim.hdr.table)
    ELSE IF HasIntegrity THEN End(wim.hdr.integrity)
    ELSE End(wim.hdr.xml)

(* Mutant: only the places of the tables are checked. *)
TablesInOrder ==
    /\ HasIntegrity => wim.hdr.integrity.at >= End(wim.hdr.xml)
    /\ End(wim.hdr.table) <= wim.hdr.xml.at

(* Not WIMLIB_ERR_RESOURCE_ORDER: what is kept lies before what is written. *)
ResourceOrder ==
    /\ HasIntegrity => wim.hdr.integrity.at >= End(wim.hdr.xml)
    /\ End(wim.hdr.table) <= wim.hdr.xml.at
    /\ \A b \in InWim : b.at < OldWimEnd

(* Mutant: the new file is not synced before it takes the old one's place. *)
TmpFlagsNoSync == flags
TmpFlags == flags \cup {"fsync"}

CanModify == ~wim.hdr.readonly \/ "ignore_readonly" \in flags

(* Preparing: nothing has been written yet. *)
Begin(m, fs, end, blobs, hdr) ==
    /\ stage' = "openout" /\ mode' = m /\ flags' = fs /\ oldEnd' = end
    /\ todo' = blobs /\ written' = {} /\ out' = end /\ part' = 1
    /\ outHdr' = hdr /\ oldSums' = None
    /\ xmlLen' \in XmlLengths
    /\ UNCHANGED <<file, synced, wim, caller, ret, opens>>

OverwriteInPlace ==
    /\ stage = "call" /\ CanModify /\ CanOverwriteInPlace
    /\ \/ /\ "compact" \in flags
          /\ Begin("compact", flags, FirstCell, wim.metas \cup Referenced, wim.hdr)
       \/ /\ "compact" \notin flags /\ ResourceOrder
          /\ Begin(IF AnyImagesChanged THEN "append" ELSE "xml", flags, OldWimEnd,
                   {b \in wim.blobs \cup wim.metas : b.at = 0}, wim.hdr)

OverwriteViaTmpfile ==
    /\ stage = "call" /\ CanModify /\ "compact" \notin flags
    /\ CanOverwriteInPlace => ~ResourceOrder
    /\ Begin("tmp", TmpFlags, FirstCell, wim.metas \cup Referenced,
             [NoHeader EXCEPT !.count = wim.hdr.count, !.readonly = wim.hdr.readonly])

Return(r) ==
    /\ stage' = "closed" /\ ret' = r
    /\ UNCHANGED <<synced, wim, caller, mode, flags, oldEnd, todo, written, xmlLen,
                   part, out, outHdr, oldSums, opens>>

Refuse ==
    /\ stage = "call"
    /\ ~CanModify \/ "access" \in Faults
    /\ Return("error") /\ UNCHANGED file

-----------------------------------------------------------------------------
(* Writing.                                                                *)

Path == IF mode = "tmp" THEN "tmp" ELSE "wim"
Ending == IF "fsync" \in flags THEN "sync" ELSE "close"

Goto(s) == stage' = s /\ UNCHANGED <<synced, wim, caller, mode, flags, oldEnd, xmlLen, ret, opens>>

(* Mutant: nobody looks whether the write came to its end. *)
PutBlindly(cell) ==
    /\ file' = [file EXCEPT ![Path].cells[out] = cell]
    /\ out' = out + 1

(* full_write at the offset of out_fd. *)
Put(cell) ==
    /\ out \in Cells
    /\ file' = [file EXCEPT ![Path].cells[out] = cell]
    /\ out' = out + 1

OpenOut ==
    /\ stage = "openout" /\ Goto("mark")
    /\ UNCHANGED <<file, todo, written, part, out, outHdr, oldSums>>

(* Mutant: the file is not marked before it is changed. *)
MarkedNot == file.wim.hdr
Marked == [file.wim.hdr EXCEPT !.inProgress = TRUE]

(* The header of a new file with nothing in it, or the flag in the old one. *)
Mark ==
    /\ stage = "mark" /\ Goto("blobs")
    /\ file' = IF mode = "tmp" THEN [file EXCEPT !.tmp.hdr = [outHdr EXCEPT !.inProgress = TRUE]]
               ELSE [file EXCEPT !.wim.hdr = Marked]
    /\ UNCHANGED <<todo, written, part, out, outHdr, oldSums>>

(* Resources of the WIM in the order of their offsets, then new files,     *)
(* then the metadata of changed images (of all images in a new file).      *)
Phase(b) ==
    IF IsMeta(b.id) /\ (b.at = 0 \/ mode = "tmp") THEN 3
    ELSE IF b.at = 0 THEN 2 ELSE 1
(* Mutant: resources are written image by image. *)
BeforeByImage(a, b) ==
    Phase(a) < Phase(b) \/ (Phase(a) = Phase(b) /\ ImageOf(a.id) < ImageOf(b.id))
Before(a, b) ==
    \/ Phase(a) < Phase(b)
    \/ Phase(a) = 1 /\ Phase(b) = 1 /\ a.at < b.at
    \/ Phase(a) = 3 /\ Phase(b) = 3 /\ ImageOf(a.id) < ImageOf(b.id)

(* A resource that a compaction finds where it belongs is skipped. *)
WriteBlob ==
    /\ stage = "blobs"
    /\ \E b \in todo :
          /\ \A a \in todo : ~Before(a, b)
          /\ IF mode = "compact" /\ b.at = out THEN UNCHANGED file /\ out' = out + 1
             ELSE Put(IF b.at = 0 THEN Blob(b.id) ELSE file.wim.cells[b.at])
          /\ todo' = todo \ {b}
          /\ written' = written \cup {[id |-> b.id, at |-> out]}
    /\ Goto("blobs") /\ UNCHANGED <<part, outHdr, oldSums>>

(* The start of finish_write: the old integrity table is read before it    *)
(* may be overwritten.                                                     *)
BeginFinish ==
    /\ stage = "blobs" /\ todo = {}
    /\ LET old == file.wim.cells[wim.hdr.integrity.at] IN
       oldSums' = IF /\ mode \in {"append", "xml"} /\ WantsIntegrity /\ HasIntegrity
                     /\ old.is = "integrity" /\ old.end = End(wim.hdr.table)
                  THEN old ELSE None
    /\ Goto(IF mode = "xml" THEN "xml" ELSE "table")
    /\ UNCHANGED <<file, todo, written, part, out, outHdr>>

WriteTable ==
    /\ stage = "table"
    /\ Put(Table(IF mode = "append" THEN written \cup InWim ELSE written))
    /\ outHdr' = [outHdr EXCEPT !.table = At(out, 1)]
    /\ Goto("xml") /\ UNCHANGED <<todo, written, part, oldSums>>

WriteXml ==
    /\ stage = "xml"
    /\ Put(Xml(wim.doc, xmlLen, part))
    /\ IF part < xmlLen THEN part' = part + 1 /\ Goto("xml") /\ UNCHANGED outHdr
       ELSE /\ outHdr' = [outHdr EXCEPT !.xml = At(out - xmlLen + 1, xmlLen)]
            /\ Goto(IF ~WantsIntegrity THEN "header"
                    ELSE IF mode = "xml" THEN "checkpoint" ELSE "integrity")
            /\ UNCHANGED part
    /\ UNCHANGED <<todo, written, oldSums>>

Checkpoint ==
    /\ stage = "checkpoint" /\ Goto("integrity")
    /\ file' = [file EXCEPT !.wim.hdr =
                   [outHdr EXCEPT !.integrity = Nowhere, !.inProgress = TRUE]]
    /\ UNCHANGED <<todo, written, part, out, outHdr, oldSums>>

WriteIntegrity ==
    /\ stage = "integrity" /\ Goto("header")
    /\ Put(CalculateIntegrityTable(file[Path].cells, End(outHdr.table)))
    /\ outHdr' = [outHdr EXCEPT !.integrity = At(out, 1)]
    /\ UNCHANGED <<todo, written, part, oldSums>>

WriteHeader ==
    /\ stage = "header"
    /\ outHdr' = [outHdr EXCEPT !.integrity = IF WantsIntegrity THEN @ ELSE Nowhere,
                                !.inProgress = FALSE]
    /\ file' = [file EXCEPT ![Path].hdr = outHdr']
    /\ Goto(IF mode = "compact" THEN "cut" ELSE Ending)
    /\ UNCHANGED <<todo, written, part, out, oldSums>>

(* ftruncate *)
CutAt(f, end) == [f EXCEPT !.cells = [c \in Cells |-> IF c < end THEN @[c] ELSE None]]

Cut ==
    /\ stage = "cut" /\ Goto(Ending)
    /\ file' = [file EXCEPT !.wim = CutAt(@, out)]
    /\ UNCHANGED <<todo, written, part, out, outHdr, oldSums>>

Sync ==
    /\ stage = "sync" /\ stage' = "close"
    /\ synced' = [synced EXCEPT ![Path] = file[Path]]
    /\ UNCHANGED <<file, wim, caller, mode, flags, oldEnd, todo, written, xmlLen,
                   part, out, outHdr, oldSums, ret, opens>>

Close ==
    /\ stage = "close"
    /\ IF mode = "tmp" THEN Goto("rename") /\ UNCHANGED <<todo, written, part, out, outHdr, oldSums>>
       ELSE Return("success")
    /\ UNCHANGED file

(* The progress function may still turn the result into an error. *)
Rename ==
    /\ stage = "rename" /\ stage' = "closed"
    /\ file' = [wim |-> file.tmp, tmp |-> NoFile]
    /\ synced' = [wim |-> synced.tmp, tmp |-> NoFile]
    /\ ret' \in {"success"} \cup {"error" : x \in Faults \cap {"progress"}}
    /\ UNCHANGED <<wim, caller, mode, flags, oldEnd, todo, written, xmlLen,
                   part, out, outHdr, oldSums, opens>>

-----------------------------------------------------------------------------
(* Failing, and being killed.                                              *)

PutsNext ==
    \/ stage = "blobs" /\ todo # {}
    \/ stage \in {"table", "xml", "integrity"}
Writing == {"mark", "blobs", "table", "xml", "checkpoint", "integrity", "header", "cut", "sync", "close"}

(* A write that did not come to its end may have written some of its data. *)
MaybeTorn ==
    \/ UNCHANGED file
    \/ PutsNext /\ out \in Cells /\ file' = [file EXCEPT ![Path].cells[out] = Torn]

Leave(s) ==
    /\ stage' = s /\ ret' = "error"
    /\ UNCHANGED <<synced, wim, caller, mode, flags, oldEnd, todo, written, xmlLen,
                   part, out, outHdr, oldSums, opens>>

OpenOutFails ==
    /\ stage = "openout" /\ "open" \in Faults
    /\ Leave(IF mode = "tmp" THEN "unlink" ELSE "closed") /\ UNCHANGED file

(* Any write may fail (WIMLIB_ERR_WRITE), and does when the medium is full. *)
(* A failed close leaves no descriptor to truncate or restore through.      *)
Fails ==
    /\ stage \in Writing
    /\ "write" \in Faults \/ (PutsNext /\ out \notin Cells)
    /\ MaybeTorn
    /\ Leave(IF mode = "tmp" THEN "unlink"
             ELSE IF stage \in {"mark", "close"} THEN "closed"
             ELSE IF mode = "append" THEN "truncate" ELSE "restore")

Truncate ==
    /\ stage = "truncate" /\ Leave("restore")
    /\ \/ file' = [file EXCEPT !.wim = CutAt(@, oldEnd)]
       \/ "truncate" \in Faults /\ UNCHANGED file

(* The flags of the WIMStruct, where "in progress" was cleared. *)
RestoreHdr ==
    /\ stage = "restore" /\ Leave("closed")
    /\ \/ file' = [file EXCEPT !.wim.hdr.inProgress = FALSE]
       \/ "header" \in Faults /\ UNCHANGED file

Unlink ==
    /\ stage = "unlink" \/ (stage = "rename" /\ "rename" \in Faults)
    /\ file' = [file EXCEPT !.tmp = NoFile]
    /\ Leave("closed")

Kill ==
    /\ "kill" \in Faults /\ stage \notin {"closed", "open", "call"}
    /\ MaybeTorn
    /\ Return(IF ret = "error" THEN ret ELSE "killed")

Next ==
    \/ Open
    \/ \E i \in Images : SetImageProperty(i) \/ UpdateImage(i) \/ DeleteImage(i)
    \/ PatchAll
    \/ \E fs \in CallFlags : Call(fs)
    \/ OverwriteInPlace \/ OverwriteViaTmpfile \/ Refuse
    \/ OpenOut \/ Mark \/ WriteBlob \/ BeginFinish \/ WriteTable \/ WriteXml
    \/ Checkpoint \/ WriteIntegrity \/ WriteHeader \/ Cut \/ Sync \/ Close \/ Rename
    \/ OpenOutFails \/ Fails \/ Truncate \/ RestoreHdr \/ Unlink \/ Kill

Spec == Init /\ [][Next]_vars

-----------------------------------------------------------------------------
(* Properties                                                              *)

Stages == {"closed", "open", "call", "openout", "rename", "truncate", "restore", "unlink"}
             \cup Writing

(* The WIMStruct only refers to cells of the file, a descriptor is never   *)
(* moved past the end of the medium, and the parts of the XML data that    *)
(* are written are the parts it has.                                       *)
TypeOK ==
    /\ stage \in Stages /\ mode \in {"none", "append", "xml", "compact", "tmp"}
    /\ out \in 1..(Size + 1) /\ oldEnd \in 1..(Size + 1)
    /\ stage = "xml" => part \in 1..xmlLen
    /\ \A b \in InWim : b.at \in Cells
    /\ opens \in 0..MaxOpens

(* write.c:3017: "At all points, the WIM is valid as nothing points to the *)
(* new data yet", until the header is overwritten.  While resources are    *)
(* appended, and after a failure or the death of the process at any point, *)
(* a reader finds the old contents or all of the new ones.  Excepted are   *)
(* calls that ask for an fsync: when it fails, the data that the header    *)
(* already points to are cut off again; and files with a resource behind   *)
(* the end from which is appended: the check for these passes over the     *)
(* metadata of changed and deleted images, which the old table still lists.*)
OldResourcesLieBefore == \A r \in file.wim.cells[wim.hdr.table.at].refs : r.at < oldEnd
AppendIsAtomic ==
    mode = "append" /\ "fsync" \notin flags /\ OldResourcesLieBefore
        => Contents(file.wim) \in {wim.read, Wanted}

(* A file that is rebuilt takes the old one's place only when it is on the *)
(* medium: even if the power goes, in whatever order its parts were        *)
(* written, there is the old WIM or the new one.                           *)
RebuildSurvivesPowerLoss ==
    mode = "tmp" =>
        \A f \in AfterPowerLoss("wim") : Contents(f) \in {wim.read, Wanted}

(* When wimlib_overwrite says so, the file holds what the WIMStruct held:  *)
(* every resource readable at its place, all the property changes, a       *)
(* correct integrity table if there is one (also where entries of the old  *)
(* one were used again), the flag cleared and no temporary file left.      *)
(* (A file that was opened damaged is as damaged afterwards.)              *)
(* WimlibWrapper also says "skipped", for a file that needed no change.    *)
SuccessIsComplete ==
    /\ stage = "closed" /\ ret = "success" =>
          /\ wim.read # Damaged => Contents(file.wim) = Wanted
          /\ wim.verified => VerifyIntegrity(file.wim)
          /\ ~file.wim.hdr.inProgress
          /\ file.tmp = NoFile
    /\ stage = "closed" /\ ret \in {"success", "skipped"} /\ caller = "wrapper" =>
          \A i \in DOMAIN wim.doc : DocOf(file.wim)[i] # "Client"

(* wim.c:683 warns of a file whose writer died.  Whenever the process dies *)
(* while the file is not whole, the flag in its header says so.  (After a  *)
(* write that failed and was handled the flag is cleared in any case.)     *)
DamageIsMarked ==
    mode # "none" /\ ret # "error" =>
        \/ Contents(file.wim) \in {wim.read, Wanted}
        \/ file.wim.hdr.inProgress

(* A compaction moves resources towards the start of the very file it      *)
(* reads: none may be overwritten before it was copied.  Nor may any other *)
(* write.                                                                  *)
SourcesStayReadable ==
    stage = "blobs" /\ wim.read # Damaged =>
        \A b \in todo : b.at # 0 => file.wim.cells[b.at] = Blob(b.id)

(* Except for a compaction, no step of wimlib_overwrite changes a cell of  *)
(* the old file that holds a resource of the WIM, or its blob table: the   *)
(* worst a failed patch of the XML data can cost is the XML data.          *)
KeptCells == {b.at : b \in InWim} \cup {wim.hdr.table.at}
StayInPlace == \A c \in KeptCells : file'.wim.cells[c] = file.wim.cells[c]
DataStayInPlace ==
    [][stage \notin {"closed", "rename"} /\ mode \in {"xml", "append", "tmp"}
          => StayInPlace]_vars
=============================================================================
