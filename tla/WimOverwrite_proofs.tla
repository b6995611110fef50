---------------------- MODULE WimOverwrite_proofs ----------------------
(***************************************************************************)
(* Proofs about WimOverwrite, for every size of the file and every file.   *)
(* First, its type invariant, and that overwriting in place by patching    *)
(* the XML data or by appending, and rebuilding into a temporary file,     *)
(* leave every resource of the WIM and its blob table where and as they    *)
(* are.  Then, what a reader finds in the file: the old contents stay as   *)
(* they are until the header of the new ones is written, and the new ones  *)
(* are then complete, whatever fails.                                      *)
(***************************************************************************)
EXTENDS WimOverwrite, FiniteSetTheorems, TLAPS

(* What the type invariant needs to be inductive. *)
IsRef(b) == b = [id |-> b.id, at |-> b.at]
Placed(b) == IsRef(b) /\ (b.at = 0 \/ b.at \in Cells)
FilesOK ==
    /\ file = [wim |-> file.wim, tmp |-> file.tmp]
    /\ IsFile(file.wim) /\ IsFile(file.tmp)
WimOK ==
    /\ wim = [hdr |-> wim.hdr, blobs |-> wim.blobs, metas |-> wim.metas, doc |-> wim.doc,
              deleted |-> wim.deleted, read |-> wim.read, verified |-> wim.verified]
    /\ wim.hdr \in Headers
    /\ \A b \in wim.blobs \cup wim.metas : Placed(b)
    /\ IsFiniteSet(DOMAIN wim.doc)
OutputOK ==
    /\ outHdr \in Headers
    /\ \A b \in todo : Placed(b)
    /\ \A r \in written : IsRef(r) /\ r.at \in Cells
    /\ out \in 1..(Size + 1) /\ oldEnd \in 1..(Size + 1)
XmlOK ==
    /\ xmlLen \in Nat /\ part \in Nat
    /\ stage \in {"openout", "mark", "blobs", "table"} => part = 1 /\ xmlLen >= 1
    /\ stage = "xml" => part \in 1..xmlLen /\ part <= out
StagesOK ==
    /\ stage \in Stages /\ mode \in {"none", "append", "xml", "compact", "tmp"}
    /\ opens \in 0..MaxOpens

TypeInv == FilesOK /\ WimOK /\ OutputOK /\ XmlOK /\ StagesOK

(* Why nothing that is kept is overwritten: an open WIM has a blob table   *)
(* and XML data; writing in place starts at oldEnd and everything that is  *)
(* kept lies before it; only a compaction cuts the file below its output.  *)
Active == stage \notin {"closed", "open", "call"}
KeepInv ==
    /\ stage # "closed" => wim.hdr.table # Nowhere /\ wim.hdr.xml # Nowhere
    /\ Active /\ mode \in {"xml", "append"} =>
          oldEnd <= out /\ \A c \in KeptCells : c < oldEnd
    /\ stage = "cut" => mode = "compact"
    /\ stage = "truncate" => mode = "append"

IInv == TypeInv /\ KeepInv

USE NumbersAssumption DEF Cells, FirstCell

-----------------------------------------------------------------------------
(* Files and headers.                                                      *)

LEMMA NowhereIsResHdr == Nowhere \in ResHdrs
  BY DEF Nowhere, ResHdrs

LEMMA NoHeaderIsHeader == NoHeader \in Headers
  BY NowhereIsResHdr DEF NoHeader, Headers

LEMMA NoFileIsFile == IsFile(NoFile)
  <1>1. NoFile.hdr \in Headers
    BY NoHeaderIsHeader DEF NoFile
  <1> QED
    BY <1>1 DEF NoFile, IsFile, IsCell, None

(* A resource that is somewhere has an end behind its beginning. *)
LEMMA EndOfResHdr ==
  ASSUME NEW r \in ResHdrs
  PROVE  /\ End(r) \in 1..(Size + 1)
         /\ r # Nowhere => r.at \in Cells /\ r.at < End(r)
  BY DEF ResHdrs, End, Nowhere

LEMMA HeaderWithMark ==
  ASSUME NEW h \in Headers, NEW b \in BOOLEAN
  PROVE  [h EXCEPT !.inProgress = b] \in Headers
  BY DEF Headers

(* Writing a cell, a header, or cutting the end off leaves a file a file.  *)
LEMMA PutKeepsFile ==
  ASSUME NEW f, IsFile(f), NEW c \in Cells, NEW cell, IsCell(cell)
  PROVE  /\ IsFile([f EXCEPT !.cells[c] = cell])
         /\ \A d \in Cells \ {c} : [f EXCEPT !.cells[c] = cell].cells[d] = f.cells[d]
  <1> DEFINE cs == [f.cells EXCEPT ![c] = cell]
             g == [f EXCEPT !.cells[c] = cell]
  <1>1. f = [hdr |-> f.hdr, cells |-> f.cells] /\ f.cells = [d \in Cells |-> f.cells[d]]
    BY DEF IsFile
  <1>2. g = [hdr |-> f.hdr, cells |-> cs]
    <2>1. \A x : [f EXCEPT !.cells = x] = [hdr |-> f.hdr, cells |-> x]
      BY <1>1
    <2> QED
      BY <2>1
  <1>3. cs = [d \in Cells |-> cs[d]] /\ cs[c] = cell /\ \A d \in Cells \ {c} : cs[d] = f.cells[d]
    BY <1>1
  <1>4. \A d \in Cells : IsCell(cs[d])
    BY <1>3 DEF IsFile
  <1> HIDE DEF cs, g
  <1>5. g.hdr = f.hdr /\ g.cells = cs /\ g = [hdr |-> g.hdr, cells |-> g.cells]
    BY <1>2
  <1>6. IsFile(g)
    BY <1>3, <1>4, <1>5 DEF IsFile
  <1> QED
    BY <1>3, <1>5, <1>6 DEF g

LEMMA HdrKeepsFile ==
  ASSUME NEW f, IsFile(f), NEW h \in Headers
  PROVE  IsFile([f EXCEPT !.hdr = h]) /\ [f EXCEPT !.hdr = h].cells = f.cells
  BY DEF IsFile

LEMMA CutKeepsFile ==
  ASSUME NEW f, IsFile(f), NEW end \in Nat
  PROVE  /\ IsFile(CutAt(f, end))
         /\ \A c \in Cells : c < end => CutAt(f, end).cells[c] = f.cells[c]
  <1> DEFINE cs == [c \in Cells |-> IF c < end THEN f.cells[c] ELSE None]
  <1>1. CutAt(f, end) = [hdr |-> f.hdr, cells |-> cs]
    <2>1. \A x : [f EXCEPT !.cells = x] = [hdr |-> f.hdr, cells |-> x]
      BY DEF IsFile
    <2> QED
      BY <2>1 DEF CutAt
  <1>2. IsCell(None) /\ \A c \in Cells : IsCell(f.cells[c])
    BY DEF IsCell, None, IsFile
  <1>3. \A c \in Cells : IsCell(cs[c]) /\ (c < end => cs[c] = f.cells[c])
    BY <1>2
  <1>4. cs = [c \in Cells |-> cs[c]] /\ f.hdr \in Headers
    BY DEF IsFile
  <1> HIDE DEF cs
  <1> QED
    BY <1>1, <1>3, <1>4 DEF IsFile

LEMMA FileIs ==
  ASSUME NEW w, NEW t, IsFile(w), IsFile(t), file' = [wim |-> w, tmp |-> t]
  PROVE  FilesOK' /\ file'.wim = w /\ file'.tmp = t
  BY DEF FilesOK

(* One write of a cell of the output file. *)
LEMMA PutStep ==
  ASSUME FilesOK, OutputOK, NEW cell, IsCell(cell), Put(cell)
  PROVE  /\ FilesOK' /\ out \in Cells /\ out' = out + 1
         /\ \A c \in Cells : mode = "tmp" \/ c # out => file'.wim.cells[c] = file.wim.cells[c]
  <1>1. out \in Cells /\ out' = out + 1 /\ file' = [file EXCEPT ![Path].cells[out] = cell]
    BY DEF Put
  <1>2. CASE mode = "tmp"
    <2>1. file' = [wim |-> file.wim, tmp |-> [file.tmp EXCEPT !.cells[out] = cell]]
      BY <1>1, <1>2 DEF FilesOK, Path
    <2>2. IsFile([file.tmp EXCEPT !.cells[out] = cell])
      BY <1>1, PutKeepsFile DEF FilesOK
    <2> QED
      BY <1>1, <1>2, <2>1, <2>2, FileIs DEF FilesOK
  <1>3. CASE mode # "tmp"
    <2>1. file' = [wim |-> [file.wim EXCEPT !.cells[out] = cell], tmp |-> file.tmp]
      BY <1>1, <1>3 DEF FilesOK, Path
    <2>2. /\ IsFile([file.wim EXCEPT !.cells[out] = cell])
          /\ \A c \in Cells \ {out} : [file.wim EXCEPT !.cells[out] = cell].cells[c] = file.wim.cells[c]
      BY <1>1, PutKeepsFile DEF FilesOK
    <2> QED
      BY <1>1, <1>3, <2>1, <2>2, FileIs DEF FilesOK
  <1> QED
    BY <1>2, <1>3

LEMMA TornStep ==
  ASSUME FilesOK, OutputOK, MaybeTorn
  PROVE  /\ FilesOK'
         /\ \A c \in Cells : mode = "tmp" \/ c # out => file'.wim.cells[c] = file.wim.cells[c]
  <1>1. CASE UNCHANGED file
    BY <1>1 DEF FilesOK
  <1>2. CASE out \in Cells /\ file' = [file EXCEPT ![Path].cells[out] = Torn]
    <2>1. IsCell(Torn)
      BY DEF IsCell, Torn
    <2>2. CASE mode = "tmp"
      <3>1. file' = [wim |-> file.wim, tmp |-> [file.tmp EXCEPT !.cells[out] = Torn]]
        BY <1>2, <2>2 DEF FilesOK, Path
      <3>2. IsFile([file.tmp EXCEPT !.cells[out] = Torn])
        BY <1>2, <2>1, PutKeepsFile DEF FilesOK
      <3> QED
        BY <2>2, <3>1, <3>2, FileIs DEF FilesOK
    <2>3. CASE mode # "tmp"
      <3>1. file' = [wim |-> [file.wim EXCEPT !.cells[out] = Torn], tmp |-> file.tmp]
        BY <1>2, <2>3 DEF FilesOK, Path
      <3>2. /\ IsFile([file.wim EXCEPT !.cells[out] = Torn])
            /\ \A c \in Cells \ {out} : [file.wim EXCEPT !.cells[out] = Torn].cells[c] = file.wim.cells[c]
        BY <1>2, <2>1, PutKeepsFile DEF FilesOK
      <3> QED
        BY <2>3, <3>1, <3>2, FileIs DEF FilesOK
    <2> QED
      BY <2>2, <2>3
  <1> QED
    BY <1>1, <1>2 DEF MaybeTorn

(* A header of the output file, or of the WIM, replaced by another one. *)
LEMMA HdrStep ==
  ASSUME FilesOK, NEW p \in {"wim", "tmp"}, NEW h \in Headers,
         file' = [file EXCEPT ![p].hdr = h]
  PROVE  FilesOK' /\ file'.wim.cells = file.wim.cells
  <1>1. IsFile([file.wim EXCEPT !.hdr = h]) /\ [file.wim EXCEPT !.hdr = h].cells = file.wim.cells
    BY HdrKeepsFile DEF FilesOK
  <1>2. IsFile([file.tmp EXCEPT !.hdr = h])
    BY HdrKeepsFile DEF FilesOK
  <1>3. CASE p = "wim"
    <2>1. file' = [wim |-> [file.wim EXCEPT !.hdr = h], tmp |-> file.tmp]
      BY <1>3 DEF FilesOK
    <2>2. FilesOK' /\ file'.wim = [file.wim EXCEPT !.hdr = h]
      <3>1. IsFile([file.wim EXCEPT !.hdr = h]) /\ IsFile(file.tmp)
        BY <1>1 DEF FilesOK
      <3> QED
        BY <2>1, <3>1, FileIs
    <2> QED
      BY <1>1, <2>2
  <1>4. CASE p = "tmp"
    <2>1. file' = [wim |-> file.wim, tmp |-> [file.tmp EXCEPT !.hdr = h]]
      BY <1>4 DEF FilesOK
    <2> QED
      BY <1>2, <2>1, FileIs DEF FilesOK
  <1> QED
    BY <1>3, <1>4

-----------------------------------------------------------------------------
(* The steps: what most of them leave alone.                               *)

LEMMA WimKept == WimOK /\ UNCHANGED wim => WimOK'
  BY DEF WimOK, Placed

LEMMA FilesKept == FilesOK /\ UNCHANGED file => FilesOK'
  BY DEF FilesOK

(* Resources that are kept are cells of the file. *)
LEMMA KeptAreCells ==
  ASSUME WimOK, wim.hdr.table # Nowhere
  PROVE  \A c \in KeptCells : c \in Cells
  <1>1. wim.hdr.table \in ResHdrs
    BY DEF WimOK, Headers
  <1>2. wim.hdr.table.at \in Cells
    BY <1>1, EndOfResHdr
  <1>3. \A b \in InWim : b.at \in Cells
    BY DEF InWim, WimOK, Placed
  <1> QED
    BY <1>2, <1>3 DEF KeptCells

(* Within wimlib_overwrite the offset only grows, and what lies behind the *)
(* old end is all that is written.                                         *)
LEMMA KeepStep ==
  ASSUME KeepInv, Active, UNCHANGED <<wim, mode, oldEnd>>,
         out \in Nat, out' \in Nat, oldEnd \in Nat, out <= out',
         stage' = "cut" => mode = "compact", stage' = "truncate" => mode = "append"
  PROVE  KeepInv'
  <1>1. stage # "closed" /\ KeptCells' = KeptCells
    BY DEF Active, KeptCells, InWim
  <1>2. wim.hdr.table # Nowhere /\ wim.hdr.xml # Nowhere
    BY <1>1 DEF KeepInv
  <1>3. mode \in {"xml", "append"} => oldEnd <= out' /\ \A c \in KeptCells : c < oldEnd
    BY DEF KeepInv
  <1> QED
    BY <1>1, <1>2, <1>3 DEF KeepInv

(* The steps that only go on to another stage, or fail or end there. *)
LEMMA Onward ==
  ASSUME IInv, Active, FilesOK',
         UNCHANGED <<wim, mode, oldEnd, todo, written, xmlLen, part, out, outHdr, opens>>,
         stage' \in Stages,
         stage' \in {"openout", "mark", "blobs", "table"} => part = 1 /\ xmlLen >= 1,
         stage' = "xml" => part \in 1..xmlLen /\ part <= out,
         stage' = "cut" => mode = "compact", stage' = "truncate" => mode = "append"
  PROVE  IInv'
  <1> USE DEF IInv, TypeInv
  <1>1. WimOK'
    BY WimKept
  <1>2. OutputOK'
    BY DEF OutputOK, Placed
  <1>3. XmlOK'
    BY DEF XmlOK
  <1>4. StagesOK'
    BY DEF StagesOK
  <1>5. out \in Nat /\ oldEnd \in Nat
    BY DEF OutputOK
  <1>6. KeepInv'
    BY <1>5, KeepStep
  <1> QED
    BY <1>1, <1>2, <1>3, <1>4, <1>6

(* The same, with another header to be written in the end. *)
LEMMA OnwardHdr ==
  ASSUME IInv, Active, FilesOK', outHdr' \in Headers,
         UNCHANGED <<wim, mode, oldEnd, todo, written, xmlLen, part, out, opens>>,
         stage' \in Stages \ {"openout", "mark", "blobs", "table", "xml", "truncate"},
         stage' = "cut" => mode = "compact"
  PROVE  IInv'
  <1> USE DEF IInv, TypeInv
  <1>1. WimOK'
    BY WimKept
  <1>2. OutputOK'
    BY DEF OutputOK, Placed
  <1>3. XmlOK'
    BY DEF XmlOK
  <1>4. StagesOK'
    BY DEF StagesOK
  <1>5. out \in Nat /\ oldEnd \in Nat
    BY DEF OutputOK
  <1>6. KeepInv'
    BY <1>5, KeepStep
  <1> QED
    BY <1>1, <1>2, <1>3, <1>4, <1>6

(* A call of wimlib_overwrite that has made up its mind. *)
LEMMA BeginStep ==
  ASSUME IInv, stage = "call", NEW m \in {"append", "xml", "compact", "tmp"}, NEW fs,
         NEW end \in 1..(Size + 1), NEW blobs, \A b \in blobs : Placed(b),
         NEW hdr \in Headers, Begin(m, fs, end, blobs, hdr),
         m \in {"append", "xml"} => \A c \in KeptCells : c < end
  PROVE  IInv'
  <1> USE DEF IInv, TypeInv, Begin
  <1>1. FilesOK' /\ WimOK'
    BY WimKept, FilesKept
  <1>2. OutputOK'
    BY DEF OutputOK, Placed
  <1>3. XmlOK'
    BY DEF XmlOK
  <1>4. StagesOK'
    BY DEF StagesOK, Stages, Writing
  <1>5. KeptCells' = KeptCells
    BY DEF KeptCells, InWim
  <1>6. KeepInv'
    BY <1>5 DEF KeepInv, Active
  <1> QED
    BY <1>1, <1>2, <1>3, <1>4, <1>6

-----------------------------------------------------------------------------
(* The initial states, and the changes in memory. *)

LEMMA InitIInv == Init => IInv
  <1> SUFFICES ASSUME Init
               PROVE  IInv
    OBVIOUS
  <1> USE DEF Init
  <1>1. FilesOK
    BY FirstFilesAssumption, NoFileIsFile DEF FilesOK
  <1>2. WimOK /\ OutputOK
    <2>1. DOMAIN wim.doc = {}
      BY DEF Init
    <2>2. IsFiniteSet(DOMAIN wim.doc)
      BY <2>1, FS_EmptySet
    <2>3. WimOK
      BY <2>2, NoHeaderIsHeader DEF WimOK
    <2> QED
      BY <2>3, NoHeaderIsHeader DEF OutputOK
  <1>3. XmlOK /\ StagesOK /\ KeepInv
    BY DEF XmlOK, StagesOK, Stages, KeepInv, Active
  <1> QED
    BY <1>1, <1>2, <1>3 DEF IInv, TypeInv

LEMMA OpenStep == IInv /\ Open => IInv'
  <1> SUFFICES ASSUME IInv, Open
               PROVE  IInv'
    OBVIOUS
  <1> USE DEF IInv, TypeInv
  <1> DEFINE f == file.wim
  <1>1. IsFile(f) /\ BeginRead(f)
    BY DEF Open, FilesOK
  <1>2. f.hdr \in Headers /\ f.hdr.table \in ResHdrs /\ f.hdr.table # Nowhere /\ f.hdr.xml # Nowhere
    BY <1>1 DEF IsFile, BeginRead, HasXml, HasTable, Headers
  <1>3. \A r \in RefsOf(f) : IsRef(r) /\ r.at \in Cells
    <2>1. f.hdr.table.at \in Cells
      BY <1>2, EndOfResHdr
    <2>2. IsCell(f.cells[f.hdr.table.at]) /\ f.cells[f.hdr.table.at].is = "table"
      BY <1>1, <2>1 DEF IsFile, BeginRead, HasTable
    <2> QED
      BY <2>2 DEF IsCell, RefsOf, IsRef
  <1>11. IsFiniteSet(DOMAIN DocOf(f))
    <2>1. f.hdr.xml \in ResHdrs
      BY <1>2 DEF Headers
    <2>2. f.hdr.xml.at \in Cells /\ f.hdr.xml.at + 1 - 1 = f.hdr.xml.at /\ 1 \in 1..f.hdr.xml.len
      BY <1>2, <2>1 DEF ResHdrs, Nowhere
    <2>3. f.cells[f.hdr.xml.at].is = "xml"
      BY <1>1, <2>2 DEF BeginRead, HasXml
    <2>4. IsCell(f.cells[f.hdr.xml.at])
      BY <1>1, <2>2 DEF IsFile
    <2> QED
      BY <2>3, <2>4 DEF IsCell, DocOf
  <1> DEFINE w == [hdr |-> f.hdr,
                   blobs |-> {r \in RefsOf(f) : ~IsMeta(r.id)},
                   metas |-> {r \in RefsOf(f) : IsMeta(r.id)},
                   doc |-> DocOf(f), deleted |-> FALSE,
                   read |-> Contents(f), verified |-> VerifyIntegrity(f)]
  <1>4. wim' = w
    BY DEF Open
  <1>5. WimOK'
    BY <1>2, <1>3, <1>4, <1>11 DEF WimOK, Placed
  <1>6. FilesOK'
    <2>1. file' = [wim |-> f, tmp |-> NoFile]
      BY DEF Open
    <2> QED
      BY <1>1, <2>1, NoFileIsFile, FileIs
  <1>7. OutputOK'
    BY DEF Open, OutputOK, Placed
  <1>8. stage' = "open" /\ mode' = "none" /\ opens' = opens + 1 /\ opens < MaxOpens
        /\ UNCHANGED <<xmlLen, part, out>>
    BY DEF Open
  <1>9. XmlOK' /\ StagesOK'
    BY <1>8 DEF XmlOK, StagesOK, Stages
  <1>10. KeepInv'
    BY <1>2, <1>4, <1>8 DEF KeepInv
  <1> QED
    BY <1>5, <1>6, <1>7, <1>9, <1>10

(* The library changes the WIMStruct only before wimlib_overwrite. *)
LEMMA InMemory ==
  ASSUME IInv, stage = "open", stage' \in {"open", "call"}, WimOK',
         wim'.hdr.table = wim.hdr.table, wim'.hdr.xml = wim.hdr.xml,
         UNCHANGED <<file, mode, oldEnd, todo, written, xmlLen, part, out, outHdr, opens>>
  PROVE  IInv'
  <1> USE DEF IInv, TypeInv
  <1>1. FilesOK' /\ OutputOK'
    BY FilesKept DEF OutputOK, Placed
  <1>2. XmlOK' /\ StagesOK'
    BY DEF XmlOK, StagesOK, Stages
  <1>3. KeepInv'
    BY DEF KeepInv, Active
  <1> QED
    BY <1>1, <1>2, <1>3

LEMMA SetImagePropertyStep ==
  ASSUME IInv, NEW i \in Images, SetImageProperty(i)
  PROVE  IInv'
  <1>1. \A d : [wim EXCEPT !.doc = d] = [hdr |-> wim.hdr, blobs |-> wim.blobs, metas |-> wim.metas,
               doc |-> d, deleted |-> wim.deleted, read |-> wim.read, verified |-> wim.verified]
    BY DEF IInv, TypeInv, WimOK
  <1>2. PICK d : wim' = [wim EXCEPT !.doc = d] /\ DOMAIN d = DOMAIN wim.doc
    <2> DEFINE d == [wim.doc EXCEPT ![i] = "Server"]
    <2>1. wim' = [wim EXCEPT !.doc = d] /\ DOMAIN d = DOMAIN wim.doc
      BY DEF SetImageProperty
    <2> QED
      BY <2>1
  <1>3. wim' = [hdr |-> wim.hdr, blobs |-> wim.blobs, metas |-> wim.metas,
               doc |-> d, deleted |-> wim.deleted, read |-> wim.read, verified |-> wim.verified]
    BY <1>1, <1>2
  <1>4. WimOK' /\ wim'.hdr = wim.hdr
    BY <1>2, <1>3 DEF IInv, TypeInv, WimOK
  <1> QED
    BY <1>4, InMemory DEF SetImageProperty, OnlyInMemory

LEMMA UpdateImageStep ==
  ASSUME IInv, NEW i \in Images, UpdateImage(i)
  PROVE  IInv'
  <1>1. PICK m \in wim.metas :
          wim' = [wim EXCEPT
                !.metas = (@ \ {m}) \cup {[id |-> <<"meta", i, opens>>, at |-> 0]},
                !.blobs = @ \cup {[id |-> <<"file", i, opens>>, at |-> 0]}]
    BY DEF UpdateImage
  <1> DEFINE x == [id |-> <<"meta", i, opens>>, at |-> 0]
             y == [id |-> <<"file", i, opens>>, at |-> 0]
  <1>2. Placed(x) /\ Placed(y)
    BY DEF Placed, IsRef
  <1> HIDE DEF x, y
  <1>3. wim' = [hdr |-> wim.hdr, blobs |-> wim.blobs \cup {y}, metas |-> (wim.metas \ {m}) \cup {x},
               doc |-> wim.doc, deleted |-> wim.deleted, read |-> wim.read, verified |-> wim.verified]
    BY <1>1 DEF IInv, TypeInv, WimOK, x, y
  <1>4. WimOK' /\ wim'.hdr = wim.hdr
    BY <1>2, <1>3 DEF IInv, TypeInv, WimOK
  <1> QED
    BY <1>4, InMemory DEF UpdateImage, OnlyInMemory

LEMMA DeleteImageStep ==
  ASSUME IInv, NEW i \in Images, DeleteImage(i)
  PROVE  IInv'
  <1> DEFINE h == [wim.hdr EXCEPT !.count = @ - 1]
  <1>1. h \in Headers /\ h.table = wim.hdr.table /\ h.xml = wim.hdr.xml
    BY DEF IInv, TypeInv, WimOK, Headers
  <1>2. PICK bs, ms, d :
          /\ bs \subseteq wim.blobs /\ ms \subseteq wim.metas /\ DOMAIN d = DOMAIN wim.doc \ {i}
          /\ wim' = [wim EXCEPT !.metas = ms, !.blobs = bs, !.doc = d, !.hdr.count = @ - 1,
                                !.deleted = TRUE]
    <2> DEFINE ms == {m \in wim.metas : ImageOf(m.id) # i}
               bs == {b \in wim.blobs : ImageOf(b.id) # i \/ b.at # 0}
               d == [j \in DOMAIN wim.doc \ {i} |-> wim.doc[j]]
    <2>1. wim' = [wim EXCEPT !.metas = ms, !.blobs = bs, !.doc = d, !.hdr.count = @ - 1,
                             !.deleted = TRUE]
      BY DEF DeleteImage
    <2>2. bs \subseteq wim.blobs /\ ms \subseteq wim.metas /\ DOMAIN d = DOMAIN wim.doc \ {i}
      OBVIOUS
    <2> HIDE DEF ms, bs, d
    <2> QED
      BY <2>1, <2>2
  <1>3. wim' = [hdr |-> h, blobs |-> bs, metas |-> ms,
               doc |-> d, deleted |-> TRUE, read |-> wim.read, verified |-> wim.verified]
    BY <1>2 DEF IInv, TypeInv, WimOK
  <1> HIDE DEF h
  <1>4. wim'.hdr = h /\ wim'.blobs = bs /\ wim'.metas = ms /\ wim'.doc = d
        /\ wim' = [hdr |-> wim'.hdr, blobs |-> wim'.blobs, metas |-> wim'.metas, doc |-> wim'.doc,
                   deleted |-> wim'.deleted, read |-> wim'.read, verified |-> wim'.verified]
    BY <1>3
  <1>5. \A b \in wim'.blobs \cup wim'.metas : Placed(b)
    BY <1>2, <1>4 DEF IInv, TypeInv, WimOK
  <1>7. IsFiniteSet(DOMAIN wim'.doc)
    BY <1>2, <1>4, FS_Subset DEF IInv, TypeInv, WimOK
  <1>6. WimOK'
    BY <1>1, <1>4, <1>5, <1>7 DEF WimOK
  <1> QED
    BY <1>1, <1>4, <1>6, InMemory DEF DeleteImage, OnlyInMemory

-----------------------------------------------------------------------------
(* Choosing how to overwrite. *)

(* What check_resource_offsets accepts lies before the new data. *)
LEMMA KeptLieBefore ==
  ASSUME WimOK, wim.hdr.table # Nowhere, wim.hdr.xml # Nowhere, ResourceOrder
  PROVE  OldWimEnd \in 1..(Size + 1) /\ \A c \in KeptCells : c < OldWimEnd
  <1> DEFINE h == wim.hdr
  <1>1. h.table \in ResHdrs /\ h.xml \in ResHdrs /\ h.integrity \in ResHdrs
    BY DEF WimOK, Headers
  <1>2. /\ End(h.table) \in 1..(Size + 1) /\ End(h.xml) \in 1..(Size + 1)
        /\ End(h.integrity) \in 1..(Size + 1)
        /\ h.table.at \in Cells /\ h.table.at < End(h.table)
        /\ h.xml.at \in Cells /\ h.xml.at < End(h.xml)
        /\ h.integrity # Nowhere => h.integrity.at \in Cells /\ h.integrity.at < End(h.integrity)
    BY <1>1, EndOfResHdr
  <1>3. OldWimEnd \in 1..(Size + 1)
    BY <1>2 DEF OldWimEnd
  <1>4. h.table.at < OldWimEnd
    BY <1>2 DEF OldWimEnd, ResourceOrder, HasIntegrity
  <1>5. \A b \in InWim : b.at < OldWimEnd
    BY DEF ResourceOrder
  <1> QED
    BY <1>3, <1>4, <1>5 DEF KeptCells

LEMMA OverwriteInPlaceStep == IInv /\ OverwriteInPlace => IInv'
  <1> SUFFICES ASSUME IInv, OverwriteInPlace
               PROVE  IInv'
    OBVIOUS
  <1>1. /\ stage = "call" /\ WimOK /\ wim.hdr \in Headers
        /\ wim.hdr.table # Nowhere /\ wim.hdr.xml # Nowhere
        /\ \A b \in wim.blobs \cup wim.metas : Placed(b)
    BY DEF IInv, TypeInv, WimOK, KeepInv, OverwriteInPlace
  <1>2. CASE Begin("compact", flags, FirstCell, wim.metas \cup Referenced, wim.hdr)
    <2>1. \A b \in wim.metas \cup Referenced : Placed(b)
      BY <1>1 DEF Referenced
    <2> QED
      BY <1>1, <1>2, <2>1, BeginStep
  <1>3. CASE ResourceOrder /\ Begin(IF AnyImagesChanged THEN "append" ELSE "xml", flags, OldWimEnd,
                 {b \in wim.blobs \cup wim.metas : b.at = 0}, wim.hdr)
    <2> DEFINE blobs == {b \in wim.blobs \cup wim.metas : b.at = 0}
    <2>1. \A b \in blobs : Placed(b)
      BY <1>1
    <2>2. OldWimEnd \in 1..(Size + 1) /\ \A c \in KeptCells : c < OldWimEnd
      BY <1>1, <1>3, KeptLieBefore
    <2> HIDE DEF blobs
    <2>3. CASE AnyImagesChanged
      <3>1. Begin("append", flags, OldWimEnd, blobs, wim.hdr)
        BY <1>3, <2>3 DEF blobs
      <3> QED
        BY <1>1, <2>1, <2>2, <3>1, BeginStep
    <2>4. CASE ~AnyImagesChanged
      <3>1. Begin("xml", flags, OldWimEnd, blobs, wim.hdr)
        BY <1>3, <2>4 DEF blobs
      <3> QED
        BY <1>1, <2>1, <2>2, <3>1, BeginStep
    <2> QED
      BY <2>3, <2>4
  <1> QED
    BY <1>2, <1>3 DEF OverwriteInPlace

LEMMA OverwriteViaTmpfileStep == IInv /\ OverwriteViaTmpfile => IInv'
  <1> SUFFICES ASSUME IInv, OverwriteViaTmpfile
               PROVE  IInv'
    OBVIOUS
  <1> DEFINE h == [NoHeader EXCEPT !.count = wim.hdr.count, !.readonly = wim.hdr.readonly]
  <1>1. h \in Headers
    BY NoHeaderIsHeader DEF IInv, TypeInv, WimOK, Headers, NoHeader
  <1>2. \A b \in wim.metas \cup Referenced : Placed(b)
    BY DEF IInv, TypeInv, WimOK, Referenced
  <1>3. stage = "call" /\ Begin("tmp", TmpFlags, FirstCell, wim.metas \cup Referenced, h)
    BY DEF OverwriteViaTmpfile
  <1> HIDE DEF h
  <1> QED
    BY <1>1, <1>2, <1>3, BeginStep

-----------------------------------------------------------------------------
(* Writing: a step of its own for every part of the file.                  *)

(* The offset moves on by one cell, a blob may be done. *)
LEMMA OnwardPut ==
  ASSUME IInv, Active, FilesOK', out' = out + 1, out \in Cells, outHdr' \in Headers,
         todo' \subseteq todo, \A r \in written' : IsRef(r) /\ r.at \in Cells,
         UNCHANGED <<wim, mode, oldEnd, xmlLen, opens>>,
         stage' \in {"blobs", "xml", "checkpoint", "integrity", "header"},
         stage' = "blobs" => UNCHANGED part /\ stage = "blobs",
         stage' = "xml" => part' \in 1..xmlLen /\ part' <= out',
         part' \in Nat
  PROVE  IInv'
  <1> USE DEF IInv, TypeInv
  <1>1. WimOK'
    BY WimKept
  <1>2. OutputOK'
    <2>1. \A b \in todo' : Placed(b)
      BY DEF OutputOK
    <2> QED
      BY <2>1 DEF OutputOK, Placed
  <1>3. XmlOK'
    BY DEF XmlOK
  <1>4. StagesOK'
    BY DEF StagesOK, Stages, Writing
  <1>5. out \in Nat /\ out' \in Nat /\ oldEnd \in Nat /\ out <= out'
    BY DEF OutputOK
  <1>6. KeepInv'
    BY <1>5, KeepStep
  <1> QED
    BY <1>1, <1>2, <1>3, <1>4, <1>6

LEMMA MarkStep == IInv /\ Mark => IInv'
  <1> SUFFICES ASSUME IInv, Mark
               PROVE  IInv'
    OBVIOUS
  <1> USE DEF Mark, Goto
  <1>1. FilesOK'
    <2>1. Marked \in Headers /\ [outHdr EXCEPT !.inProgress = TRUE] \in Headers
      BY HeaderWithMark DEF Marked, IInv, TypeInv, FilesOK, IsFile, OutputOK
    <2>2. CASE mode = "tmp"
      <3>1. file' = [file EXCEPT !["tmp"].hdr = [outHdr EXCEPT !.inProgress = TRUE]]
        BY <2>2
      <3> QED
        BY <2>1, <3>1, HdrStep DEF IInv, TypeInv
    <2>3. CASE mode # "tmp"
      <3>1. file' = [file EXCEPT !["wim"].hdr = Marked]
        BY <2>3
      <3> QED
        BY <2>1, <3>1, HdrStep DEF IInv, TypeInv
    <2> QED
      BY <2>2, <2>3
  <1>2. stage' = "blobs" /\ part = 1 /\ xmlLen >= 1
    BY DEF IInv, TypeInv, XmlOK
  <1> QED
    BY <1>1, <1>2, Onward DEF Active, Stages, Writing

LEMMA WriteBlobStep == IInv /\ WriteBlob => IInv'
  <1> SUFFICES ASSUME IInv, WriteBlob
               PROVE  IInv'
    OBVIOUS
  <1>1. PICK b \in todo :
          /\ IF mode = "compact" /\ b.at = out THEN UNCHANGED file /\ out' = out + 1
             ELSE Put(IF b.at = 0 THEN Blob(b.id) ELSE file.wim.cells[b.at])
          /\ todo' = todo \ {b}
          /\ written' = written \cup {[id |-> b.id, at |-> out]}
    BY DEF WriteBlob
  <1>2. Placed(b) /\ out \in 1..(Size + 1)
    BY DEF IInv, TypeInv, OutputOK
  <1>3. FilesOK' /\ out' = out + 1 /\ out \in Cells
    <2>1. CASE mode = "compact" /\ b.at = out
      BY <1>1, <1>2, <2>1, FilesKept DEF IInv, TypeInv, Placed
    <2>2. CASE ~(mode = "compact" /\ b.at = out)
      <3> DEFINE cell == IF b.at = 0 THEN Blob(b.id) ELSE file.wim.cells[b.at]
      <3>1. IsCell(cell)
        <4>1. IsCell(Blob(b.id))
          BY DEF IsCell, Blob
        <4>2. b.at \in Cells => IsCell(file.wim.cells[b.at])
          BY DEF IInv, TypeInv, FilesOK, IsFile
        <4> QED
          BY <1>2, <4>1, <4>2 DEF Placed
      <3>2. Put(cell)
        BY <1>1, <2>2
      <3> HIDE DEF cell
      <3> QED
        BY <3>1, <3>2, PutStep DEF IInv, TypeInv
    <2> QED
      BY <2>1, <2>2
  <1>4. \A r \in written' : IsRef(r) /\ r.at \in Cells
    BY <1>1, <1>3 DEF IInv, TypeInv, OutputOK, IsRef
  <1>5. stage = "blobs" /\ stage' = "blobs" /\ todo' \subseteq todo
        /\ UNCHANGED <<wim, mode, oldEnd, xmlLen, opens, part, outHdr>>
    BY <1>1 DEF WriteBlob, Goto
  <1>6. part \in Nat /\ outHdr \in Headers
    BY DEF IInv, TypeInv, XmlOK, OutputOK
  <1> QED
    BY <1>3, <1>4, <1>5, <1>6, OnwardPut DEF Active

LEMMA BeginFinishStep == IInv /\ BeginFinish => IInv'
  <1> SUFFICES ASSUME IInv, BeginFinish
               PROVE  IInv'
    OBVIOUS
  <1>1. stage = "blobs" /\ stage' \in {"xml", "table"}
        /\ UNCHANGED <<wim, mode, oldEnd, todo, written, xmlLen, part, out, outHdr, opens, file>>
    BY DEF BeginFinish, Goto
  <1>2. part = 1 /\ xmlLen >= 1 /\ xmlLen \in Nat /\ out >= 1
    BY <1>1 DEF IInv, TypeInv, XmlOK, OutputOK
  <1>3. FilesOK'
    BY <1>1, FilesKept DEF IInv, TypeInv
  <1> QED
    BY <1>1, <1>2, <1>3, Onward DEF Active, Stages, Writing

(* Where the header may say a part of the file is. *)
LEMMA AtIsResHdr ==
  ASSUME NEW a \in Cells, NEW n \in Nat \ {0}, a + n <= Size + 1
  PROVE  At(a, n) \in ResHdrs
  BY DEF At, ResHdrs

LEMMA WriteTableStep == IInv /\ WriteTable => IInv'
  <1> SUFFICES ASSUME IInv, WriteTable
               PROVE  IInv'
    OBVIOUS
  <1> DEFINE refs == IF mode = "append" THEN written \cup InWim ELSE written
  <1>1. IsCell(Table(refs))
    BY DEF IsCell, IsRef, Table, InWim, IInv, TypeInv, OutputOK, WimOK, Placed
  <1>2. Put(Table(refs))
    BY DEF WriteTable
  <1> HIDE DEF refs
  <1>3. FilesOK' /\ out' = out + 1 /\ out \in Cells
    BY <1>1, <1>2, PutStep DEF IInv, TypeInv
  <1>4. outHdr' \in Headers
    BY <1>3, AtIsResHdr DEF WriteTable, IInv, TypeInv, OutputOK, Headers
  <1>5. stage = "table" /\ stage' = "xml"
        /\ UNCHANGED <<wim, mode, oldEnd, todo, written, xmlLen, part, opens>>
    BY DEF WriteTable, Goto
  <1>6. /\ part = 1 /\ xmlLen >= 1 /\ xmlLen \in Nat
        /\ \A r \in written : IsRef(r) /\ r.at \in Cells
    BY <1>5 DEF IInv, TypeInv, XmlOK, OutputOK
  <1> QED
    BY <1>3, <1>4, <1>5, <1>6, OnwardPut DEF Active
(* The XML data, part by part; the header learns of them with the last. *)
LEMMA WriteXmlStep == IInv /\ WriteXml => IInv'
  <1> SUFFICES ASSUME IInv, WriteXml
               PROVE  IInv'
    OBVIOUS
  <1>1. IsCell(Xml(wim.doc, xmlLen, part)) /\ Put(Xml(wim.doc, xmlLen, part))
    BY DEF WriteXml, IsCell, Xml, IInv, TypeInv, WimOK
  <1>2. FilesOK' /\ out' = out + 1 /\ out \in Cells
    BY <1>1, PutStep DEF IInv, TypeInv
  <1>3. stage = "xml" /\ part \in 1..xmlLen /\ part <= out /\ xmlLen \in Nat
        /\ outHdr \in Headers /\ \A r \in written : IsRef(r) /\ r.at \in Cells
    BY DEF WriteXml, IInv, TypeInv, XmlOK, OutputOK
  <1>4. UNCHANGED <<wim, mode, oldEnd, todo, written, xmlLen, opens>>
    BY DEF WriteXml, Goto
  <1>5. CASE part < xmlLen
    <2>1. part' = part + 1 /\ stage' = "xml" /\ outHdr' = outHdr
      BY <1>5 DEF WriteXml, Goto
    <2>2. part' \in 1..xmlLen /\ part' <= out' /\ part' \in Nat
      BY <1>2, <1>3, <1>5, <2>1
    <2> QED
      BY <1>2, <1>3, <1>4, <2>1, <2>2, OnwardPut DEF Active
  <1>6. CASE ~(part < xmlLen)
    <2>1. /\ outHdr' = [outHdr EXCEPT !.xml = At(out - xmlLen + 1, xmlLen)]
          /\ part' = part /\ stage' \in {"header", "checkpoint", "integrity"}
      BY <1>6 DEF WriteXml, Goto
    <2>2. out - xmlLen + 1 \in Cells /\ xmlLen \in Nat \ {0}
          /\ (out - xmlLen + 1) + xmlLen <= Size + 1
      BY <1>2, <1>3, <1>6
    <2>3. At(out - xmlLen + 1, xmlLen) \in ResHdrs
      BY <2>2, AtIsResHdr
    <2>4. outHdr' \in Headers
      BY <1>3, <2>1, <2>3 DEF Headers
    <2> QED
      BY <1>2, <1>3, <1>4, <2>1, <2>4, OnwardPut DEF Active
  <1> QED
    BY <1>5, <1>6

LEMMA CheckpointStep == IInv /\ Checkpoint => IInv'
  <1> SUFFICES ASSUME IInv, Checkpoint
               PROVE  IInv'
    OBVIOUS
  <1> DEFINE h == [outHdr EXCEPT !.integrity = Nowhere, !.inProgress = TRUE]
  <1>1. h \in Headers
    BY NowhereIsResHdr DEF IInv, TypeInv, OutputOK, Headers
  <1>2. file' = [file EXCEPT !["wim"].hdr = h]
    BY DEF Checkpoint
  <1> HIDE DEF h
  <1>3. FilesOK'
    BY <1>1, <1>2, HdrStep DEF IInv, TypeInv
  <1> QED
    BY <1>3, Onward DEF Checkpoint, Goto, Active, Stages, Writing

LEMMA WriteIntegrityStep == IInv /\ WriteIntegrity => IInv'
  <1> SUFFICES ASSUME IInv, WriteIntegrity
               PROVE  IInv'
    OBVIOUS
  <1> DEFINE cell == CalculateIntegrityTable(file[Path].cells, End(outHdr.table))
  <1>1. IsCell(cell)
    BY DEF IsCell, CalculateIntegrityTable, Integrity
  <1>2. Put(cell)
    BY DEF WriteIntegrity
  <1> HIDE DEF cell
  <1>3. FilesOK' /\ out' = out + 1 /\ out \in Cells
    BY <1>1, <1>2, PutStep DEF IInv, TypeInv
  <1>4. outHdr' \in Headers
    BY <1>3, AtIsResHdr DEF WriteIntegrity, IInv, TypeInv, OutputOK, Headers
  <1>5. stage = "integrity" /\ stage' = "header"
        /\ UNCHANGED <<wim, mode, oldEnd, todo, written, xmlLen, part, opens>>
    BY DEF WriteIntegrity, Goto
  <1>6. part \in Nat /\ \A r \in written : IsRef(r) /\ r.at \in Cells
    BY DEF IInv, TypeInv, XmlOK, OutputOK
  <1> QED
    BY <1>3, <1>4, <1>5, <1>6, OnwardPut DEF Active

LEMMA WriteHeaderStep == IInv /\ WriteHeader => IInv'
  <1> SUFFICES ASSUME IInv, WriteHeader
               PROVE  IInv'
    OBVIOUS
  <1>1. outHdr' \in Headers
    BY NowhereIsResHdr DEF WriteHeader, IInv, TypeInv, OutputOK, Headers
  <1>2. FilesOK'
    <2>1. Path \in {"wim", "tmp"}
      BY DEF Path
    <2>2. file' = [file EXCEPT ![Path].hdr = outHdr']
      BY DEF WriteHeader
    <2> QED
      BY <1>1, <2>1, <2>2, HdrStep DEF IInv, TypeInv
  <1>3. stage = "header" /\ stage' \in {"cut", "sync", "close"} /\ (stage' = "cut" => mode = "compact")
        /\ UNCHANGED <<wim, mode, oldEnd, todo, written, xmlLen, part, out, opens>>
    BY DEF WriteHeader, Goto, Ending
  <1> QED
    BY <1>1, <1>2, <1>3, OnwardHdr DEF Active, Stages, Writing

LEMMA CutStep == IInv /\ Cut => IInv'
  <1> SUFFICES ASSUME IInv, Cut
               PROVE  IInv'
    OBVIOUS
  <1>1. FilesOK'
    <2>1. file' = [wim |-> CutAt(file.wim, out), tmp |-> file.tmp] /\ out \in Nat
      BY DEF Cut, IInv, TypeInv, FilesOK, OutputOK
    <2>2. IsFile(CutAt(file.wim, out)) /\ IsFile(file.tmp)
      BY <2>1, CutKeepsFile DEF IInv, TypeInv, FilesOK
    <2> QED
      BY <2>1, <2>2, FileIs
  <1> QED
    BY <1>1, Onward DEF Cut, Goto, Ending, Active, Stages, Writing

(* The steps that leave the file alone, or remove the temporary one. *)
LEMMA RenameStep == IInv /\ Rename => IInv'
  <1> SUFFICES ASSUME IInv, Rename
               PROVE  IInv'
    OBVIOUS
  <1>1. FilesOK'
    BY NoFileIsFile, FileIs DEF Rename, IInv, TypeInv, FilesOK
  <1> QED
    BY <1>1, Onward DEF Rename, Active, Stages, Writing

LEMMA UnlinkStep == IInv /\ Unlink => IInv' /\ file'.wim = file.wim
  <1> SUFFICES ASSUME IInv, Unlink
               PROVE  IInv' /\ file'.wim = file.wim
    OBVIOUS
  <1>1. file' = [wim |-> file.wim, tmp |-> NoFile]
    BY DEF Unlink, IInv, TypeInv, FilesOK
  <1>2. FilesOK' /\ file'.wim = file.wim
    BY <1>1, NoFileIsFile, FileIs DEF IInv, TypeInv, FilesOK
  <1> QED
    BY <1>2, Onward DEF Unlink, Leave, Active, Stages, Writing

LEMMA TruncateStep ==
  ASSUME IInv, Truncate
  PROVE  IInv' /\ \A c \in Cells : c < oldEnd => file'.wim.cells[c] = file.wim.cells[c]
  <1>1. FilesOK' /\ \A c \in Cells : c < oldEnd => file'.wim.cells[c] = file.wim.cells[c]
    <2>1. CASE file' = [file EXCEPT !.wim = CutAt(@, oldEnd)]
      <3>1. file' = [wim |-> CutAt(file.wim, oldEnd), tmp |-> file.tmp] /\ oldEnd \in Nat
        BY <2>1 DEF IInv, TypeInv, FilesOK, OutputOK
      <3>2. /\ IsFile(CutAt(file.wim, oldEnd)) /\ IsFile(file.tmp)
            /\ \A c \in Cells : c < oldEnd => CutAt(file.wim, oldEnd).cells[c] = file.wim.cells[c]
        BY <3>1, CutKeepsFile DEF IInv, TypeInv, FilesOK
      <3>3. FilesOK' /\ file'.wim = CutAt(file.wim, oldEnd)
        BY <3>1, <3>2, FileIs
      <3> QED
        BY <3>2, <3>3
    <2>2. CASE UNCHANGED file
      BY <2>2, FilesKept DEF IInv, TypeInv
    <2> QED
      BY <2>1, <2>2 DEF Truncate
  <1> QED
    BY <1>1, Onward DEF Truncate, Leave, Active, Stages, Writing

LEMMA RestoreHdrStep ==
  ASSUME IInv, RestoreHdr
  PROVE  IInv' /\ file'.wim.cells = file.wim.cells
  <1>1. FilesOK' /\ file'.wim.cells = file.wim.cells
    <2>1. CASE file' = [file EXCEPT !.wim.hdr.inProgress = FALSE]
      <3> DEFINE h == [file.wim.hdr EXCEPT !.inProgress = FALSE]
      <3>1. h \in Headers
        BY HeaderWithMark DEF IInv, TypeInv, FilesOK, IsFile
      <3>2. file' = [file EXCEPT !["wim"].hdr = h]
        BY <2>1
      <3> HIDE DEF h
      <3> QED
        BY <3>1, <3>2, HdrStep DEF IInv, TypeInv
    <2>2. CASE UNCHANGED file
      BY <2>2, FilesKept DEF IInv, TypeInv
    <2> QED
      BY <2>1, <2>2 DEF RestoreHdr
  <1> QED
    BY <1>1, Onward DEF RestoreHdr, Leave, Active, Stages, Writing

LEMMA FailsStep == IInv /\ Fails => IInv'
  <1> SUFFICES ASSUME IInv, Fails
               PROVE  IInv'
    OBVIOUS
  <1>1. FilesOK'
    BY TornStep DEF Fails, IInv, TypeInv
  <1>2. Active
    BY DEF Fails, Writing, Active
  <1>3. stage' \in {"unlink", "closed", "truncate", "restore"} /\ (stage' = "truncate" => mode = "append")
    BY DEF Fails, Leave
  <1> QED
    BY <1>1, <1>2, <1>3, Onward DEF Fails, Leave, Stages, Writing

LEMMA KillStep == IInv /\ Kill => IInv'
  <1> SUFFICES ASSUME IInv, Kill
               PROVE  IInv'
    OBVIOUS
  <1>1. FilesOK'
    BY TornStep DEF Kill, IInv, TypeInv
  <1>2. Active
    BY DEF Kill, Active
  <1> QED
    BY <1>1, <1>2, Onward DEF Kill, Return, Stages, Writing

LEMMA QuietStep ==
  IInv /\ (OpenOut \/ Sync \/ Close \/ OpenOutFails) => IInv' /\ UNCHANGED file
  <1> SUFFICES ASSUME IInv, OpenOut \/ Sync \/ Close \/ OpenOutFails
               PROVE  IInv' /\ UNCHANGED file
    OBVIOUS
  <1>1. UNCHANGED file
    BY DEF OpenOut, Sync, Close, OpenOutFails
  <1>2. FilesOK'
    BY <1>1, FilesKept DEF IInv, TypeInv
  <1>3. CASE OpenOut
    <2>1. part = 1 /\ xmlLen >= 1
      BY <1>3 DEF OpenOut, IInv, TypeInv, XmlOK
    <2> QED
      BY <1>1, <1>2, <1>3, <2>1, Onward DEF OpenOut, Goto, Active, Stages, Writing
  <1>4. CASE Sync
    BY <1>1, <1>2, <1>4, Onward DEF Sync, Active, Stages, Writing
  <1>5. CASE Close
    BY <1>1, <1>2, <1>5, Onward DEF Close, Goto, Return, Active, Stages, Writing
  <1>6. CASE OpenOutFails
    BY <1>1, <1>2, <1>6, Onward DEF OpenOutFails, Leave, Active, Stages, Writing
  <1> QED
    BY <1>3, <1>4, <1>5, <1>6

(* Before anything is written: patching in memory, the call, a refusal. *)
LEMMA PatchAllStep == IInv /\ PatchAll => IInv'
  <1> SUFFICES ASSUME IInv, PatchAll
               PROVE  IInv'
    OBVIOUS
  <1>1. WimOK' /\ wim'.hdr = wim.hdr
    <2>1. CASE UNCHANGED wim
      BY <2>1, WimKept DEF IInv, TypeInv
    <2>2. CASE ~UNCHANGED wim
      <3>1. PICK d : wim' = [wim EXCEPT !.doc = d] /\ DOMAIN d = DOMAIN wim.doc
        <4> DEFINE d == [i \in DOMAIN wim.doc |->
                           IF i \in {j \in DOMAIN wim.doc : wim.doc[j] = "Client"}
                           THEN "Server" ELSE wim.doc[i]]
        <4>1. wim' = [wim EXCEPT !.doc = d] /\ DOMAIN d = DOMAIN wim.doc
          BY <2>2 DEF PatchAll
        <4> QED
          BY <4>1
      <3>2. wim' = [hdr |-> wim.hdr, blobs |-> wim.blobs, metas |-> wim.metas,
               doc |-> d, deleted |-> wim.deleted, read |-> wim.read, verified |-> wim.verified]
        BY <3>1 DEF IInv, TypeInv, WimOK
      <3> QED
        BY <3>1, <3>2 DEF IInv, TypeInv, WimOK
    <2> QED
      BY <2>1, <2>2
  <1>2. stage = "open" /\ stage' \in {"closed", "call"}
        /\ UNCHANGED <<file, mode, oldEnd, todo, written, xmlLen, part, out, outHdr, opens>>
    BY DEF PatchAll
  <1>3. FilesOK' /\ OutputOK'
    BY <1>2, FilesKept DEF IInv, TypeInv, OutputOK, Placed
  <1>4. XmlOK' /\ StagesOK'
    BY <1>2 DEF IInv, TypeInv, XmlOK, StagesOK, Stages
  <1>5. KeepInv'
    BY <1>1, <1>2 DEF IInv, KeepInv, Active
  <1> QED
    BY <1>1, <1>3, <1>4, <1>5 DEF IInv, TypeInv

LEMMA CallStep ==
  ASSUME IInv, NEW fs, Call(fs)
  PROVE  IInv'
  <1>1. WimOK' /\ wim'.hdr = wim.hdr
    BY WimKept DEF Call, IInv, TypeInv
  <1> QED
    BY <1>1, InMemory DEF Call

LEMMA RefuseStep == IInv /\ Refuse => IInv'
  <1> SUFFICES ASSUME IInv, Refuse
               PROVE  IInv'
    OBVIOUS
  <1>1. stage' = "closed"
        /\ UNCHANGED <<file, wim, mode, oldEnd, todo, written, xmlLen, part, out, outHdr, opens>>
    BY DEF Refuse, Return
  <1>2. FilesOK' /\ WimOK' /\ OutputOK'
    BY <1>1, FilesKept, WimKept DEF IInv, TypeInv, OutputOK, Placed
  <1>3. XmlOK' /\ StagesOK' /\ KeepInv'
    BY <1>1 DEF IInv, TypeInv, XmlOK, StagesOK, Stages, KeepInv, Active
  <1> QED
    BY <1>2, <1>3 DEF IInv, TypeInv

LEMMA StutterStep == IInv /\ UNCHANGED vars => IInv'
  <1> SUFFICES ASSUME IInv, UNCHANGED vars
               PROVE  IInv'
    OBVIOUS
  <1> USE DEF vars
  <1>1. FilesOK' /\ WimOK' /\ OutputOK'
    BY FilesKept, WimKept DEF IInv, TypeInv, OutputOK, Placed
  <1>2. XmlOK' /\ StagesOK'
    BY DEF IInv, TypeInv, XmlOK, StagesOK
  <1>3. KeepInv'
    BY DEF IInv, KeepInv, Active, KeptCells, InWim
  <1> QED
    BY <1>1, <1>2, <1>3 DEF IInv, TypeInv

-----------------------------------------------------------------------------
(* The theorems.                                                           *)

LEMMA NextKeepsIInv == IInv /\ [Next]_vars => IInv'
  <1> SUFFICES ASSUME IInv, [Next]_vars
               PROVE  IInv'
    OBVIOUS
  <1>1. CASE Open
    BY <1>1, OpenStep
  <1>2. CASE \E i \in Images : SetImageProperty(i) \/ UpdateImage(i) \/ DeleteImage(i)
    BY <1>2, SetImagePropertyStep, UpdateImageStep, DeleteImageStep
  <1>3. CASE PatchAll \/ Refuse \/ (\E fs \in CallFlags : Call(fs))
    BY <1>3, PatchAllStep, RefuseStep, CallStep
  <1>4. CASE OverwriteInPlace \/ OverwriteViaTmpfile
    BY <1>4, OverwriteInPlaceStep, OverwriteViaTmpfileStep
  <1>5. CASE Mark \/ WriteBlob \/ BeginFinish \/ WriteTable
    BY <1>5, MarkStep, WriteBlobStep, BeginFinishStep, WriteTableStep
  <1>6. CASE WriteXml \/ Checkpoint \/ WriteIntegrity \/ WriteHeader
    BY <1>6, WriteXmlStep, CheckpointStep, WriteIntegrityStep, WriteHeaderStep
  <1>7. CASE OpenOut \/ Cut \/ Sync \/ Close \/ Rename
    BY <1>7, QuietStep, CutStep, RenameStep
  <1>8. CASE OpenOutFails \/ Fails \/ Truncate \/ RestoreHdr \/ Unlink \/ Kill
    BY <1>8, QuietStep, FailsStep, TruncateStep, RestoreHdrStep, UnlinkStep, KillStep
  <1>9. CASE UNCHANGED vars
    BY <1>9, StutterStep
  <1> QED
    BY <1>1, <1>2, <1>3, <1>4, <1>5, <1>6, <1>7, <1>8, <1>9 DEF Next

(* The inductive invariant holds at every step of every overwrite, for any *)
(* files to begin with.                                                    *)
THEOREM Invariance == Spec => []IInv
  <1> QED
    BY InitIInv, NextKeepsIInv, PTL DEF Spec

LEMMA IInvGivesTypeOK == IInv => TypeOK
  BY DEF IInv, TypeInv, WimOK, OutputOK, XmlOK, StagesOK, TypeOK, InWim, Placed
(* TypeOK of WimOverwrite: the WIMStruct refers to cells of the file, the  *)
(* offset stays within the medium, and the XML data are written by parts.  *)
THEOREM TypeCorrect == Spec => []TypeOK
  <1> QED
    BY Invariance, IInvGivesTypeOK, PTL

(* Within wimlib_overwrite no kept cell is the one written next, unless    *)
(* another file is written.                                                *)
LEMMA NotWrittenNext ==
  ASSUME IInv, Active, mode \in {"xml", "append", "tmp"}
  PROVE  \A c \in KeptCells : c \in Cells /\ (mode = "tmp" \/ c # out)
  <1>1. wim.hdr.table # Nowhere
    BY DEF IInv, KeepInv, Active
  <1>2. \A c \in KeptCells : c \in Cells
    BY <1>1, KeptAreCells DEF IInv, TypeInv
  <1>3. mode # "tmp" => oldEnd <= out /\ \A c \in KeptCells : c < oldEnd
    BY DEF IInv, KeepInv
  <1>4. out \in Nat /\ oldEnd \in Nat
    BY DEF IInv, TypeInv, OutputOK
  <1> QED
    BY <1>2, <1>3, <1>4

LEMMA PutKeepsData ==
  ASSUME IInv, Active, mode \in {"xml", "append", "tmp"},
         WriteBlob \/ WriteTable \/ WriteXml \/ WriteIntegrity \/ Fails \/ Kill
  PROVE  StayInPlace
  <1>1. \A c \in Cells : mode = "tmp" \/ c # out => file'.wim.cells[c] = file.wim.cells[c]
    <2>1. CASE WriteBlob
      <3>1. PICK b \in todo : Put(IF b.at = 0 THEN Blob(b.id) ELSE file.wim.cells[b.at])
        BY <2>1 DEF WriteBlob
      <3> DEFINE cell == IF b.at = 0 THEN Blob(b.id) ELSE file.wim.cells[b.at]
      <3>2. IsCell(cell)
        <4>1. Placed(b)
          BY DEF IInv, TypeInv, OutputOK
        <4>2. IsCell(Blob(b.id))
          BY DEF IsCell, Blob
        <4>3. b.at \in Cells => IsCell(file.wim.cells[b.at])
          BY DEF IInv, TypeInv, FilesOK, IsFile
        <4> QED
          BY <4>1, <4>2, <4>3 DEF Placed
      <3> HIDE DEF cell
      <3> QED
        BY <3>1, <3>2, PutStep DEF IInv, TypeInv, cell
    <2>2. CASE WriteTable
      <3> DEFINE refs == IF mode = "append" THEN written \cup InWim ELSE written
      <3>1. IsCell(Table(refs))
        BY DEF IsCell, IsRef, Table, InWim, IInv, TypeInv, OutputOK, WimOK, Placed
      <3>2. Put(Table(refs))
        BY <2>2 DEF WriteTable
      <3> HIDE DEF refs
      <3> QED
        BY <3>1, <3>2, PutStep DEF IInv, TypeInv
    <2>3. CASE WriteXml
      <3>1. IsCell(Xml(wim.doc, xmlLen, part)) /\ Put(Xml(wim.doc, xmlLen, part))
        BY <2>3 DEF WriteXml, IsCell, Xml, IInv, TypeInv, WimOK
      <3> QED
        BY <3>1, PutStep DEF IInv, TypeInv
    <2>4. CASE WriteIntegrity
      <3> DEFINE cell == CalculateIntegrityTable(file[Path].cells, End(outHdr.table))
      <3>1. IsCell(cell)
        BY DEF IsCell, CalculateIntegrityTable, Integrity
      <3>2. Put(cell)
        BY <2>4 DEF WriteIntegrity
      <3> HIDE DEF cell
      <3> QED
        BY <3>1, <3>2, PutStep DEF IInv, TypeInv
    <2>5. CASE Fails \/ Kill
      BY <2>5, TornStep DEF Fails, Kill, IInv, TypeInv
    <2> QED
      BY <2>1, <2>2, <2>3, <2>4, <2>5
  <1> QED
    BY <1>1, NotWrittenNext DEF StayInPlace

LEMMA HdrKeepsData ==
  ASSUME IInv, Mark \/ Checkpoint \/ WriteHeader \/ RestoreHdr
  PROVE  StayInPlace
  <1>1. file'.wim.cells = file.wim.cells
    <2>1. CASE Mark
      <3>1. Marked \in Headers /\ [outHdr EXCEPT !.inProgress = TRUE] \in Headers
        BY HeaderWithMark DEF Marked, IInv, TypeInv, FilesOK, IsFile, OutputOK
      <3>2. PICK p \in {"wim", "tmp"}, h \in Headers : file' = [file EXCEPT ![p].hdr = h]
        BY <2>1, <3>1 DEF Mark
      <3> QED
        BY <3>2, HdrStep DEF IInv, TypeInv
    <2>2. CASE Checkpoint
      <3> DEFINE h == [outHdr EXCEPT !.integrity = Nowhere, !.inProgress = TRUE]
      <3>1. h \in Headers
        BY NowhereIsResHdr DEF IInv, TypeInv, OutputOK, Headers
      <3>2. file' = [file EXCEPT !["wim"].hdr = h]
        BY <2>2 DEF Checkpoint
      <3> HIDE DEF h
      <3> QED
        BY <3>1, <3>2, HdrStep DEF IInv, TypeInv
    <2>3. CASE WriteHeader
      <3>1. outHdr' \in Headers
        BY <2>3, NowhereIsResHdr DEF WriteHeader, IInv, TypeInv, OutputOK, Headers
      <3>2. Path \in {"wim", "tmp"} /\ file' = [file EXCEPT ![Path].hdr = outHdr']
        BY <2>3 DEF Path, WriteHeader
      <3> QED
        BY <3>1, <3>2, HdrStep DEF IInv, TypeInv
    <2>4. CASE RestoreHdr
      BY <2>4, RestoreHdrStep
    <2> QED
      BY <2>1, <2>2, <2>3, <2>4
  <1> QED
    BY <1>1 DEF StayInPlace

LEMMA NextKeepsData ==
  ASSUME IInv, [Next]_vars, stage \notin {"closed", "rename"}, mode \in {"xml", "append", "tmp"}
  PROVE  StayInPlace
  <1>1. CASE UNCHANGED file
    BY <1>1 DEF StayInPlace
  <1>2. CASE Open \/ Rename
    BY <1>2 DEF Open, Rename
  <1>3. CASE (\E i \in Images : SetImageProperty(i) \/ UpdateImage(i) \/ DeleteImage(i))
             \/ PatchAll \/ Refuse \/ (\E fs \in CallFlags : Call(fs))
             \/ OverwriteInPlace \/ OverwriteViaTmpfile \/ BeginFinish
    <2>1. UNCHANGED file
      BY <1>3 DEF SetImageProperty, UpdateImage, DeleteImage, OnlyInMemory, PatchAll, Refuse,
                  Call, OverwriteInPlace, OverwriteViaTmpfile, Begin, BeginFinish
    <2> QED
      BY <1>1, <2>1
  <1>4. CASE OpenOut \/ Sync \/ Close \/ OpenOutFails
    BY <1>1, <1>4, QuietStep
  <1>5. CASE WriteBlob \/ WriteTable \/ WriteXml \/ WriteIntegrity \/ Fails \/ Kill
    <2>1. Active
      BY <1>5 DEF Active, WriteBlob, WriteTable, WriteXml, WriteIntegrity, Fails, Writing, Kill
    <2> QED
      BY <1>5, <2>1, PutKeepsData
  <1>6. CASE Mark \/ Checkpoint \/ WriteHeader \/ RestoreHdr
    BY <1>6, HdrKeepsData
  <1>7. CASE Cut
    BY <1>7 DEF Cut, IInv, KeepInv
  <1>8. CASE Truncate
    <2>1. mode = "append" /\ Active
      BY <1>8 DEF Truncate, IInv, KeepInv, Active
    <2>2. \A c \in KeptCells : c \in Cells /\ c < oldEnd
      BY <2>1, NotWrittenNext DEF IInv, KeepInv
    <2> QED
      BY <1>8, <2>2, TruncateStep DEF StayInPlace
  <1>9. CASE Unlink
    BY <1>9, UnlinkStep DEF StayInPlace
  <1>10. CASE UNCHANGED vars
    BY <1>1, <1>10 DEF vars
  <1> QED
    BY <1>2, <1>3, <1>4, <1>5, <1>6, <1>7, <1>8, <1>9, <1>10 DEF Next

(* DataStayInPlace of WimOverwrite: whatever fails and whenever the        *)
(* process dies, patching the XML data, appending and rebuilding leave all *)
(* resources of the WIM and its blob table untouched in the old file.      *)
THEOREM NothingKeptIsOverwritten == Spec => DataStayInPlace
  <1> DEFINE Keeps == stage \notin {"closed", "rename"} /\ mode \in {"xml", "append", "tmp"}
                        => StayInPlace
  <1>1. IInv /\ [Next]_vars => [Keeps]_vars
    BY NextKeepsData
  <1> QED
    BY <1>1, Invariance, PTL DEF Spec, DataStayInPlace

-----------------------------------------------------------------------------
(* What a reader finds.  The invariant that is added to that above.          *)

Ids(refs) == {r.id : r \in refs}

(* Each image of the WIMStruct has one metadata resource.                  *)
ImagesOK ==
    /\ \A b \in wim.blobs : ~IsMeta(b.id)
    /\ \A m \in wim.metas : IsMeta(m.id)
    /\ OneForEach(wim.metas, DOMAIN wim.doc)
    /\ wim.hdr.count = Cardinality(DOMAIN wim.doc)

(* The stages of an overwriting that nothing has failed in yet: until the  *)
(* blob table, the XML data, the header are written, and behind that.      *)
BeforeTable == {"openout", "mark", "blobs", "table"}
WithTable == {"xml", "checkpoint", "integrity", "header", "cut", "sync", "close", "rename"}
WithXml == WithTable \ {"xml"}
WithHeader == {"cut", "sync", "close", "rename"}
Going == BeforeTable \cup WithTable

(* The old file is as it was opened, but for the flag in its header.       *)
Old ==
    /\ BeginRead(file.wim) /\ Contents(file.wim) = wim.read
    /\ file.wim.hdr.table = wim.hdr.table /\ file.wim.hdr.xml = wim.hdr.xml
Readable == wim.read # Damaged => \A b \in InWim : file.wim.cells[b.at] = Blob(b.id)
Untouched == stage \in {"open", "call", "openout", "mark"}
Appending ==
    /\ mode = "append" /\ OldResourcesLieBefore
    /\ \/ stage \in {"blobs", "table", "xml", "integrity", "header"}
       \/ stage \in {"truncate", "restore"} /\ "fsync" \notin flags
OldOK ==
    /\ Untouched \/ (Active /\ mode = "tmp") \/ Appending => Old
    /\ Untouched \/ (Active /\ mode # "compact") => Readable
    /\ Active /\ mode = "append" => End(wim.hdr.xml) <= oldEnd
    /\ stage \in {"open", "call"} =>
          /\ InWim \subseteq RefsOf(file.wim)
          /\ ~AnyImagesChanged => wim.blobs \cup wim.metas = RefsOf(file.wim)

(* What is still to be read is there, and a compaction has not reached it. *)
TodoOK ==
    stage \in {"openout", "mark", "blobs"} =>
        /\ todo \subseteq wim.blobs \cup wim.metas
        /\ mode = "append" => \A b \in todo : b.at = 0
        /\ mode = "xml" => todo = {}
        /\ wim.read # Damaged => \A b \in todo : b.at # 0 =>
              /\ file.wim.cells[b.at] = Blob(b.id)
              /\ mode = "compact" => b.at >= out
        /\ stage # "blobs" => written = {}

(* The new contents, as far as they are written.                           *)
Entries == IF mode \in {"append", "xml"} THEN written \cup InWim ELSE written
NoneTwice(done, left) ==
    \A r \in done, b \in left : IsMeta(r.id) /\ IsMeta(b.id) => ImageOf(r.id) # ImageOf(b.id)
NewList ==
    /\ Ids(Entries \cup todo) = Wanted.ids
    /\ OneForEach(Metas(Entries \cup todo), DOMAIN wim.doc) /\ NoneTwice(Entries, todo)
    /\ outHdr.count = wim.hdr.count
NewEntries ==
    \A r \in Entries : /\ r.at \in Cells /\ r.at < out
                       /\ wim.read # Damaged => file[Path].cells[r.at] = Blob(r.id)
NewTable ==
    LET r == outHdr.table  cell == file[Path].cells[r.at] IN
    r # Nowhere /\ r.at \in Cells /\ r.at < out /\ cell.is = "table" /\ cell.refs = Entries
NewXmlPart == \A i \in 1..(part - 1) : file[Path].cells[out - part + i] = Xml(wim.doc, xmlLen, i)
NewXml ==
    LET r == outHdr.xml IN
    /\ r # Nowhere /\ r.len = xmlLen /\ r.at + xmlLen <= out
    /\ \A i \in 1..xmlLen : file[Path].cells[r.at + i - 1] = Xml(wim.doc, xmlLen, i)
NewHeader == file[Path].hdr = outHdr /\ ~outHdr.inProgress
NewOK ==
    /\ stage \in Going => NewList /\ NewEntries
    /\ stage \in Going \ {"openout", "mark", "blobs"} => todo = {}
    /\ stage \in Going /\ (stage \in WithTable \/ mode = "xml") => NewTable
    /\ stage = "xml" => NewXmlPart
    /\ stage \in WithXml => NewXml
    /\ stage \in WithHeader => NewHeader
    /\ stage \in Going \ (WithHeader \cup {"openout", "mark"}) /\ mode # "tmp"
          => file.wim.hdr.inProgress

(* Where the paths of the code lead. *)
PathsOK ==
    /\ synced = [wim |-> synced.wim, tmp |-> synced.tmp]
    /\ stage \in {"open", "call"} => mode = "none" /\ synced.wim = file.wim
    /\ mode = "tmp" => synced.wim = file.wim /\ (Active => "fsync" \in flags)
    /\ mode = "tmp" /\ stage \in {"close", "rename"} => synced.tmp = file.tmp
    /\ mode # "tmp" => file.tmp = NoFile
    /\ Active => mode # "none"
    /\ stage = "table" => mode # "xml"
    /\ stage = "checkpoint" => mode = "xml"
    /\ stage \in {"unlink", "rename"} => mode = "tmp"
    /\ stage \in {"truncate", "restore"} => mode # "tmp"
    /\ stage \in {"truncate", "restore", "unlink"} => ret = "error"
    /\ stage = "sync" => "fsync" \in flags

(* What wimlib_overwrite leaves. *)
Whole == Contents(file.wim) \in {wim.read, Wanted}
ClosedOK ==
    stage = "closed" =>
        /\ mode = "append" /\ OldResourcesLieBefore /\ "fsync" \notin flags => Whole
        /\ mode = "tmp" => Whole
        /\ mode # "none" /\ ret # "error" => Whole \/ file.wim.hdr.inProgress
        /\ ret = "success" =>
              /\ wim.read # Damaged => Contents(file.wim) = Wanted
              /\ ~file.wim.hdr.inProgress /\ file.tmp = NoFile
              /\ DocOf(file.wim) = wim.doc

(* What WimlibWrapper has patched. *)
NoClient == \A i \in DOMAIN wim.doc : wim.doc[i] # "Client"
WrapperOK ==
    caller = "wrapper" =>
        /\ stage = "open" => wim.doc = DocOf(file.wim)
        /\ Active \/ stage = "call" \/ (stage = "closed" /\ ret \in {"success", "skipped"}) => NoClient
        /\ stage = "closed" /\ ret = "skipped" => wim.doc = DocOf(file.wim)

ReadInv == ImagesOK /\ OldOK /\ TodoOK /\ NewOK /\ PathsOK /\ ClosedOK /\ WrapperOK

-----------------------------------------------------------------------------
(* What a step does to the files.                                          *)

(* A cell of the output file is written.                                   *)
LEMMA CellEffect ==
  ASSUME FilesOK, NEW cell, out \in Cells, file' = [file EXCEPT ![Path].cells[out] = cell]
  PROVE  /\ file'[Path].cells[out] = cell /\ file'[Path].hdr = file[Path].hdr
         /\ \A c \in Cells \ {out} : file'[Path].cells[c] = file[Path].cells[c]
         /\ mode = "tmp" => file'.wim = file.wim
         /\ mode # "tmp" => file'.tmp = file.tmp
  <1>1. IsFile(file.wim) /\ IsFile(file.tmp) /\ file = [wim |-> file.wim, tmp |-> file.tmp]
    BY DEF FilesOK
  <1>2. ASSUME NEW f, IsFile(f)
        PROVE  /\ [f EXCEPT !.cells[out] = cell].cells[out] = cell
               /\ [f EXCEPT !.cells[out] = cell].hdr = f.hdr
               /\ \A c \in Cells \ {out} : [f EXCEPT !.cells[out] = cell].cells[c] = f.cells[c]
    <2>1. f = [hdr |-> f.hdr, cells |-> f.cells] /\ f.cells = [c \in Cells |-> f.cells[c]]
      BY <1>2 DEF IsFile
    <2>2. \A x : [f EXCEPT !.cells = x] = [hdr |-> f.hdr, cells |-> x]
      BY <2>1
    <2> DEFINE cs == [f.cells EXCEPT ![out] = cell]
    <2>3. cs[out] = cell /\ \A c \in Cells \ {out} : cs[c] = f.cells[c]
      BY <2>1
    <2>4. [f EXCEPT !.cells[out] = cell] = [hdr |-> f.hdr, cells |-> cs]
      BY <2>2
    <2> HIDE DEF cs
    <2> QED
      BY <2>3, <2>4
  <1>3. CASE mode = "tmp"
    <2>1. file' = [wim |-> file.wim, tmp |-> [file.tmp EXCEPT !.cells[out] = cell]]
      BY <1>1, <1>3 DEF Path
    <2> QED
      BY <1>1, <1>2, <1>3, <2>1 DEF Path
  <1>4. CASE mode # "tmp"
    <2>1. file' = [wim |-> [file.wim EXCEPT !.cells[out] = cell], tmp |-> file.tmp]
      BY <1>1, <1>4 DEF Path
    <2> QED
      BY <1>1, <1>2, <1>4, <2>1 DEF Path
  <1> QED
    BY <1>3, <1>4

LEMMA PutEffect ==
  ASSUME FilesOK, NEW cell, Put(cell)
  PROVE  /\ file'[Path].cells[out] = cell /\ file'[Path].hdr = file[Path].hdr
         /\ \A c \in Cells \ {out} : file'[Path].cells[c] = file[Path].cells[c]
         /\ mode = "tmp" => file'.wim = file.wim
         /\ mode # "tmp" => file'.tmp = file.tmp
  <1>1. out \in Cells /\ file' = [file EXCEPT ![Path].cells[out] = cell]
    BY DEF Put
  <1> QED
    BY <1>1, CellEffect

LEMMA TornEffect ==
  ASSUME FilesOK, MaybeTorn
  PROVE  /\ file'[Path].hdr = file[Path].hdr
         /\ \A c \in Cells \ {out} : file'[Path].cells[c] = file[Path].cells[c]
         /\ mode = "tmp" => file'.wim = file.wim
         /\ mode # "tmp" => file'.tmp = file.tmp
         /\ UNCHANGED file \/ PutsNext
  <1>1. CASE UNCHANGED file
    BY <1>1
  <1>2. CASE PutsNext /\ out \in Cells /\ file' = [file EXCEPT ![Path].cells[out] = Torn]
    BY <1>2, CellEffect
  <1> QED
    BY <1>1, <1>2 DEF MaybeTorn

(* A header is written. *)
LEMMA HdrEffect ==
  ASSUME FilesOK, NEW p \in {"wim", "tmp"}, NEW h, file' = [file EXCEPT ![p].hdr = h]
  PROVE  /\ file'[p].hdr = h /\ file'[p].cells = file[p].cells
         /\ p = "tmp" => file'.wim = file.wim
         /\ p = "wim" => file'.tmp = file.tmp
  <1>1. /\ file.wim = [hdr |-> file.wim.hdr, cells |-> file.wim.cells]
        /\ file.tmp = [hdr |-> file.tmp.hdr, cells |-> file.tmp.cells]
        /\ file = [wim |-> file.wim, tmp |-> file.tmp]
    BY DEF FilesOK, IsFile
  <1>2. CASE p = "wim"
    <2>1. file' = [wim |-> [file.wim EXCEPT !.hdr = h], tmp |-> file.tmp]
      BY <1>1, <1>2
    <2>2. [file.wim EXCEPT !.hdr = h] = [hdr |-> h, cells |-> file.wim.cells]
      BY <1>1
    <2> QED
      BY <1>2, <2>1, <2>2
  <1>3. CASE p = "tmp"
    <2>1. file' = [wim |-> file.wim, tmp |-> [file.tmp EXCEPT !.hdr = h]]
      BY <1>1, <1>3
    <2>2. [file.tmp EXCEPT !.hdr = h] = [hdr |-> h, cells |-> file.tmp.cells]
      BY <1>1
    <2> QED
      BY <1>3, <2>1, <2>2
  <1> QED
    BY <1>2, <1>3

-----------------------------------------------------------------------------
(* What a reader finds in a file.                                          *)

LEMMA HeaderPlaces ==
  ASSUME NEW f, IsFile(f)
  PROVE  /\ f.hdr.table # Nowhere => f.hdr.table.at \in Cells
         /\ f.hdr.xml # Nowhere =>
               /\ f.hdr.xml.at \in Cells /\ f.hdr.xml.len \in Nat \ {0}
               /\ f.hdr.xml.at + f.hdr.xml.len <= Size + 1
               /\ End(f.hdr.xml) = f.hdr.xml.at + f.hdr.xml.len
  <1>1. f.hdr.table \in ResHdrs /\ f.hdr.xml \in ResHdrs
    BY DEF IsFile, Headers
  <1> QED
    BY <1>1 DEF ResHdrs, Nowhere, End

LEMMA RefsAreCells ==
  ASSUME NEW f, IsFile(f), BeginRead(f)
  PROVE  \A r \in RefsOf(f) : IsRef(r) /\ r.at \in Cells
  <1>1. f.hdr.table.at \in Cells /\ f.cells[f.hdr.table.at].is = "table"
    BY HeaderPlaces DEF BeginRead, HasTable
  <1>2. IsCell(f.cells[f.hdr.table.at])
    BY <1>1 DEF IsFile
  <1> QED
    BY <1>1, <1>2 DEF IsCell, RefsOf, IsRef

(* A file reads the same as long as all that is read is.                   *)
LEMMA SameContents ==
  ASSUME NEW f, NEW g, IsFile(f), BeginRead(f),
         g.hdr.table = f.hdr.table, g.hdr.xml = f.hdr.xml, g.hdr.count = f.hdr.count,
         g.cells[f.hdr.table.at] = f.cells[f.hdr.table.at],
         \A i \in 1..f.hdr.xml.len : g.cells[f.hdr.xml.at + i - 1] = f.cells[f.hdr.xml.at + i - 1],
         \A r \in RefsOf(f) : g.cells[r.at] = f.cells[r.at]
  PROVE  BeginRead(g) /\ Contents(g) = Contents(f)
  <1>1. RefsOf(g) = RefsOf(f) /\ HasTable(g)
    BY DEF RefsOf, HasTable, BeginRead
  <1>2. DocOf(g) = DocOf(f)
    <2>1. HasXml(f) /\ f.hdr.xml.at \in Cells /\ f.hdr.xml.len \in Nat \ {0}
      BY HeaderPlaces DEF BeginRead, HasXml
    <2>2. 1 \in 1..f.hdr.xml.len /\ f.hdr.xml.at + 1 - 1 = f.hdr.xml.at
      BY <2>1
    <2>3. g.cells[f.hdr.xml.at] = f.cells[f.hdr.xml.at]
      BY <2>2
    <2> QED
      BY <2>3 DEF DocOf
  <1>3. HasXml(g)
    <2>1. HasXml(f)
      BY DEF BeginRead
    <2> QED
      BY <1>2, <2>1 DEF HasXml, DocOf
  <1>4. BeginRead(g)
    BY <1>1, <1>2, <1>3 DEF BeginRead
  <1>5. (\A r \in RefsOf(f) : g.cells[r.at] = Blob(r.id))
          <=> (\A r \in RefsOf(f) : f.cells[r.at] = Blob(r.id))
    OBVIOUS
  <1> QED
    BY <1>1, <1>2, <1>4, <1>5 DEF Contents

(* What the header of a file points to, when all of the new contents is    *)
(* written, is the new contents.                                           *)
LEMMA NewIsWhole ==
  ASSUME TypeInv, ImagesOK, NewList, todo = {}, NewEntries, NewTable, NewXml,
         NEW h, h.table = outHdr.table, h.xml = outHdr.xml, h.count = outHdr.count,
         NEW f, f.hdr = h, f.cells = file[Path].cells, xmlLen \in Nat \ {0}
  PROVE  /\ BeginRead(f) /\ DocOf(f) = wim.doc
         /\ Contents(f) \in {Wanted, Damaged}
         /\ wim.read # Damaged => Contents(f) = Wanted
  <1>1. RefsOf(f) = Entries /\ HasTable(f)
    BY DEF NewTable, RefsOf, HasTable
  <1>2. /\ h.xml # Nowhere /\ h.xml.len = xmlLen
        /\ \A i \in 1..xmlLen : f.cells[h.xml.at + i - 1] = Xml(wim.doc, xmlLen, i)
    BY DEF NewXml
  <1>3. f.cells[h.xml.at] = Xml(wim.doc, xmlLen, 1)
    <2>1. h.xml.at \in Nat
      BY DEF TypeInv, OutputOK, Headers, ResHdrs
    <2>2. 1 \in 1..xmlLen /\ h.xml.at + 1 - 1 = h.xml.at
      BY <2>1
    <2> QED
      BY <1>2, <2>2
  <1>4. DocOf(f) = wim.doc
    BY <1>3 DEF DocOf, Xml
  <1>5. HasXml(f)
    <2>1. \A i \in 1..xmlLen : f.cells[h.xml.at + i - 1].is = "xml"
      <3> TAKE i \in 1..xmlLen
      <3>1. PICK cell : cell = f.cells[h.xml.at + i - 1] /\ cell = Xml(wim.doc, xmlLen, i)
        BY <1>2
      <3> QED
        BY <3>1 DEF Xml
    <2> QED
      BY <1>2, <1>4, <2>1 DEF HasXml, DocOf
  <1>6. OneForEach(Metas(RefsOf(f)), DOMAIN DocOf(f)) /\ Ids(RefsOf(f)) = Wanted.ids
    BY <1>1, <1>4 DEF NewList
  <1>7. BeginRead(f)
    BY <1>1, <1>4, <1>5, <1>6 DEF BeginRead, NewList, ImagesOK
  <1>8. Wanted = [doc |-> DocOf(f), ids |-> {r.id : r \in RefsOf(f)}]
    BY <1>4, <1>6 DEF Wanted, Ids
  <1>9. wim.read # Damaged => \A r \in RefsOf(f) : f.cells[r.at] = Blob(r.id)
    BY <1>1 DEF NewEntries
  <1> QED
    BY <1>4, <1>7, <1>8, <1>9 DEF Contents

-----------------------------------------------------------------------------
(* The images and their metadata resources.                                *)

LEMMA OneReplaced ==
  ASSUME NEW ms, NEW images, OneForEach(ms, images), NEW m \in ms, NEW x,
         ImageOf(x.id) = ImageOf(m.id)
  PROVE  OneForEach((ms \ {m}) \cup {x}, images)
  <1> DEFINE new == (ms \ {m}) \cup {x}
  <1>1. {ImageOf(n.id) : n \in new} = {ImageOf(n.id) : n \in ms}
    OBVIOUS
  <1>2. ASSUME NEW a \in new, NEW b \in new, ImageOf(a.id) = ImageOf(b.id)
        PROVE  a = b
    <2>1. \A n \in ms : n # m => ImageOf(n.id) # ImageOf(m.id)
      BY DEF OneForEach
    <2> QED
      BY <1>2, <2>1 DEF OneForEach
  <1> HIDE DEF new
  <1>3. OneForEach(new, images)
    BY <1>1, <1>2 DEF OneForEach
  <1> QED
    BY <1>3 DEF new

LEMMA OneRemoved ==
  ASSUME NEW ms, NEW images, OneForEach(ms, images), NEW i
  PROVE  OneForEach({m \in ms : ImageOf(m.id) # i}, images \ {i})
  <1> DEFINE new == {m \in ms : ImageOf(m.id) # i}
  <1>1. {ImageOf(n.id) : n \in new} = {ImageOf(n.id) : n \in ms} \ {i}
    OBVIOUS
  <1>2. \A a, b \in new : a \in ms /\ b \in ms
    OBVIOUS
  <1> HIDE DEF new
  <1>3. OneForEach(new, images \ {i})
    BY <1>1, <1>2 DEF OneForEach
  <1> QED
    BY <1>3 DEF new

(* A resource that was to be written becomes an entry of the blob table.   *)
LEMMA ListStep ==
  ASSUME NEW done, NEW left, NEW images, NEW b \in left, NEW r, r.id = b.id,
         OneForEach(Metas(done \cup left), images), NoneTwice(done, left)
  PROVE  LET d == done \cup {r}
             l == left \ {b} IN
         /\ Ids(d \cup l) = Ids(done \cup left)
         /\ OneForEach(Metas(d \cup l), images) /\ NoneTwice(d, l)
  <1> DEFINE d == done \cup {r}
             l == left \ {b}
  <1>1. Ids(d \cup l) = Ids(done \cup left)
    BY DEF Ids
  <1>2. NoneTwice(d, l)
    <2> SUFFICES ASSUME NEW x \in d, NEW y \in l, IsMeta(x.id), IsMeta(y.id)
                 PROVE  ImageOf(x.id) # ImageOf(y.id)
      BY DEF NoneTwice
    <2>1. CASE x \in done
      BY <2>1 DEF NoneTwice
    <2>2. CASE x = r
      <3>1. b \in Metas(done \cup left) /\ y \in Metas(done \cup left) /\ b # y
        BY <2>2 DEF Metas
      <3>2. ImageOf(b.id) # ImageOf(y.id)
        BY <3>1 DEF OneForEach
      <3> QED
        BY <2>2, <3>2
    <2> QED
      BY <2>1, <2>2
  <1>3. {ImageOf(n.id) : n \in Metas(d \cup l)} = {ImageOf(n.id) : n \in Metas(done \cup left)}
    <2>1. \A n \in Metas(d \cup l) : \E o \in Metas(done \cup left) : ImageOf(o.id) = ImageOf(n.id)
      BY DEF Metas
    <2>2. \A o \in Metas(done \cup left) : \E n \in Metas(d \cup l) : ImageOf(o.id) = ImageOf(n.id)
      BY DEF Metas
    <2> DEFINE new == Metas(d \cup l)
               old == Metas(done \cup left)
    <2> HIDE DEF new, old
    <2>3. /\ \A n \in new : \E o \in old : ImageOf(o.id) = ImageOf(n.id)
          /\ \A o \in old : \E n \in new : ImageOf(o.id) = ImageOf(n.id)
      BY <2>1, <2>2 DEF new, old
    <2>4. {ImageOf(n.id) : n \in new} = {ImageOf(n.id) : n \in old}
      BY <2>3
    <2> QED
      BY <2>4 DEF new, old
  <1>4. ASSUME NEW x \in Metas(d \cup l), NEW y \in Metas(d \cup l), ImageOf(x.id) = ImageOf(y.id)
        PROVE  x = y
    <2>1. IsMeta(x.id) /\ IsMeta(y.id) /\ x \in d \cup l /\ y \in d \cup l
      BY DEF Metas
    <2>2. CASE x \in l /\ y \in l
      <3>1. x \in Metas(done \cup left) /\ y \in Metas(done \cup left)
        BY <2>1, <2>2 DEF Metas
      <3> QED
        BY <1>4, <3>1 DEF OneForEach
    <2>3. CASE x \in d /\ y \in d
      <3>1. \A z \in done : IsMeta(z.id) /\ IsMeta(r.id) => ImageOf(z.id) # ImageOf(r.id)
        BY DEF NoneTwice
      <3>2. CASE x \in done /\ y \in done
        <4>1. x \in Metas(done \cup left) /\ y \in Metas(done \cup left)
          BY <2>1, <3>2 DEF Metas
        <4> QED
          BY <1>4, <4>1 DEF OneForEach
      <3> QED
        BY <1>4, <2>1, <2>3, <3>1, <3>2
    <2>4. CASE x \in d /\ y \in l
      BY <1>2, <1>4, <2>1, <2>4 DEF NoneTwice
    <2>5. CASE x \in l /\ y \in d
      BY <1>2, <1>4, <2>1, <2>5 DEF NoneTwice
    <2> QED
      BY <2>1, <2>2, <2>3, <2>4, <2>5
  <1>5. OneForEach(Metas(d \cup l), images)
    <2>1. {ImageOf(n.id) : n \in Metas(done \cup left)} = images
      BY DEF OneForEach
    <2> HIDE DEF d, l
    <2> QED
      BY <1>3, <1>4, <2>1 DEF OneForEach
  <1> QED
    BY <1>1, <1>2, <1>5

-----------------------------------------------------------------------------
(* What the changes in memory do to the WIMStruct.                         *)

LEMMA OpenFields ==
  ASSUME IInv, Open
  PROVE  /\ wim'.hdr = file.wim.hdr /\ wim'.doc = DocOf(file.wim) /\ wim'.deleted = FALSE
         /\ wim'.blobs = {r \in RefsOf(file.wim) : ~IsMeta(r.id)}
         /\ wim'.metas = {r \in RefsOf(file.wim) : IsMeta(r.id)}
         /\ wim'.read = Contents(file.wim) /\ wim'.verified = VerifyIntegrity(file.wim)
         /\ file' = [wim |-> file.wim, tmp |-> NoFile] /\ file'.wim = file.wim /\ file'.tmp = NoFile
  BY DEF Open

LEMMA PropertyFields ==
  ASSUME IInv, NEW i \in Images, SetImageProperty(i)
  PROVE  /\ wim'.hdr = wim.hdr /\ wim'.blobs = wim.blobs /\ wim'.metas = wim.metas
         /\ DOMAIN wim'.doc = DOMAIN wim.doc
         /\ wim'.deleted = wim.deleted /\ wim'.read = wim.read /\ wim'.verified = wim.verified
  <1> DEFINE d == [wim.doc EXCEPT ![i] = "Server"]
  <1>1. wim' = [wim EXCEPT !.doc = d] /\ DOMAIN d = DOMAIN wim.doc
    BY DEF SetImageProperty
  <1> HIDE DEF d
  <1>2. wim' = [hdr |-> wim.hdr, blobs |-> wim.blobs, metas |-> wim.metas, doc |-> d,
                deleted |-> wim.deleted, read |-> wim.read, verified |-> wim.verified]
    BY <1>1 DEF IInv, TypeInv, WimOK
  <1> QED
    BY <1>1, <1>2

LEMMA UpdateFields ==
  ASSUME IInv, NEW i \in Images, UpdateImage(i)
  PROVE  \E m \in wim.metas :
          /\ ImageOf(m.id) = i /\ m.at # 0
          /\ wim'.metas = (wim.metas \ {m}) \cup {[id |-> <<"meta", i, opens>>, at |-> 0]}
          /\ wim'.blobs = wim.blobs \cup {[id |-> <<"file", i, opens>>, at |-> 0]}
          /\ wim'.hdr = wim.hdr /\ wim'.doc = wim.doc
          /\ wim'.deleted = wim.deleted /\ wim'.read = wim.read /\ wim'.verified = wim.verified
  <1>1. PICK m \in wim.metas :
          /\ ImageOf(m.id) = i /\ m.at # 0
          /\ wim' = [wim EXCEPT
                !.metas = (@ \ {m}) \cup {[id |-> <<"meta", i, opens>>, at |-> 0]},
                !.blobs = @ \cup {[id |-> <<"file", i, opens>>, at |-> 0]}]
    BY DEF UpdateImage
  <1> DEFINE x == [id |-> <<"meta", i, opens>>, at |-> 0]
             y == [id |-> <<"file", i, opens>>, at |-> 0]
  <1> HIDE DEF x, y
  <1>2. wim' = [hdr |-> wim.hdr, blobs |-> wim.blobs \cup {y}, metas |-> (wim.metas \ {m}) \cup {x},
               doc |-> wim.doc, deleted |-> wim.deleted, read |-> wim.read, verified |-> wim.verified]
    BY <1>1 DEF IInv, TypeInv, WimOK, x, y
  <1>3. /\ wim'.metas = (wim.metas \ {m}) \cup {x} /\ wim'.blobs = wim.blobs \cup {y}
        /\ wim'.hdr = wim.hdr /\ wim'.doc = wim.doc
        /\ wim'.deleted = wim.deleted /\ wim'.read = wim.read /\ wim'.verified = wim.verified
    BY <1>2
  <1> QED
    BY <1>1, <1>3 DEF x, y

LEMMA DeleteFields ==
  ASSUME IInv, NEW i \in Images, DeleteImage(i)
  PROVE  /\ wim'.metas = {m \in wim.metas : ImageOf(m.id) # i} /\ wim'.blobs \subseteq wim.blobs
         /\ \A b \in wim.blobs : b.at # 0 => b \in wim'.blobs
         /\ i \in DOMAIN wim.doc /\ DOMAIN wim'.doc = DOMAIN wim.doc \ {i}
         /\ wim'.hdr.count = wim.hdr.count - 1
         /\ wim'.hdr.table = wim.hdr.table /\ wim'.hdr.xml = wim.hdr.xml
         /\ wim'.hdr.integrity = wim.hdr.integrity
         /\ wim'.deleted = TRUE /\ wim'.read = wim.read /\ wim'.verified = wim.verified
  <1> DEFINE ms == {m \in wim.metas : ImageOf(m.id) # i}
             bs == {b \in wim.blobs : ImageOf(b.id) # i \/ b.at # 0}
             d == [j \in DOMAIN wim.doc \ {i} |-> wim.doc[j]]
             h == [wim.hdr EXCEPT !.count = @ - 1]
  <1>1. i \in DOMAIN wim.doc
        /\ wim' = [wim EXCEPT !.metas = ms, !.blobs = bs, !.doc = d, !.hdr.count = @ - 1,
                             !.deleted = TRUE]
    BY DEF DeleteImage
  <1>2. bs \subseteq wim.blobs /\ (\A b \in wim.blobs : b.at # 0 => b \in bs)
        /\ DOMAIN d = DOMAIN wim.doc \ {i}
    OBVIOUS
  <1>3. /\ h.table = wim.hdr.table /\ h.xml = wim.hdr.xml /\ h.count = wim.hdr.count - 1
        /\ h.integrity = wim.hdr.integrity
    BY DEF IInv, TypeInv, WimOK, Headers
  <1> HIDE DEF ms, bs, d
  <1>4. wim' = [hdr |-> h, blobs |-> bs, metas |-> ms, doc |-> d, deleted |-> TRUE,
                read |-> wim.read, verified |-> wim.verified]
    BY <1>1 DEF IInv, TypeInv, WimOK
  <1> HIDE DEF h
  <1>5. wim'.hdr = h /\ wim'.blobs = bs /\ wim'.metas = ms /\ wim'.doc = d /\ wim'.deleted = TRUE
        /\ wim'.read = wim.read /\ wim'.verified = wim.verified
    BY <1>4
  <1>6. wim'.metas = {m \in wim.metas : ImageOf(m.id) # i}
    BY <1>5 DEF ms
  <1> QED
    BY <1>1, <1>2, <1>3, <1>5, <1>6

LEMMA PatchFields ==
  ASSUME IInv, PatchAll
  PROVE  /\ wim'.hdr = wim.hdr /\ wim'.blobs = wim.blobs /\ wim'.metas = wim.metas
         /\ DOMAIN wim'.doc = DOMAIN wim.doc
         /\ wim'.deleted = wim.deleted /\ wim'.read = wim.read /\ wim'.verified = wim.verified
         /\ stage' = "call" \/ ret' = "skipped" => NoClient'
         /\ stage' = "call" \/ (stage' = "closed" /\ wim' = wim)
         /\ stage' = "closed" => ret' # "success"
         /\ file' = file
  <1>1. CASE stage' = "closed"
    <2>1. wim' = wim /\ file' = file /\ ret' # "success"
      BY <1>1 DEF PatchAll
    <2>2. ret' = "skipped" => NoClient
      BY <1>1 DEF PatchAll, NoClient
    <2> QED
      BY <1>1, <2>1, <2>2 DEF NoClient
  <1>2. CASE stage' # "closed"
    <2> DEFINE d == [i \in DOMAIN wim.doc |->
                       IF i \in {j \in DOMAIN wim.doc : wim.doc[j] = "Client"}
                       THEN "Server" ELSE wim.doc[i]]
    <2>1. wim' = [wim EXCEPT !.doc = d] /\ stage' = "call" /\ ret' = ret /\ file' = file /\ stage = "open"
      BY <1>2 DEF PatchAll
    <2>2. DOMAIN d = DOMAIN wim.doc /\ \A i \in DOMAIN d : d[i] # "Client"
      OBVIOUS
    <2> HIDE DEF d
    <2>3. wim' = [hdr |-> wim.hdr, blobs |-> wim.blobs, metas |-> wim.metas, doc |-> d,
                  deleted |-> wim.deleted, read |-> wim.read, verified |-> wim.verified]
      BY <2>1 DEF IInv, TypeInv, WimOK
    <2>4. wim'.doc = d
      BY <2>3
    <2>5. NoClient'
      BY <2>2, <2>4 DEF NoClient
    <2> QED
      BY <2>1, <2>2, <2>3, <2>5
  <1> QED
    BY <1>1, <1>2

-----------------------------------------------------------------------------
(* Each image has its metadata resource.                                   *)

LEMMA OpenKeepsImages == IInv /\ Open => ImagesOK'
  <1> SUFFICES ASSUME IInv, Open
               PROVE  ImagesOK'
    OBVIOUS
  <1>1. BeginRead(file.wim)
    BY DEF Open
  <1>2. OneForEach(wim'.metas, DOMAIN wim'.doc)
    BY <1>1, OpenFields DEF BeginRead, Metas
  <1>3. wim'.hdr.count = Cardinality(DOMAIN wim'.doc)
    BY <1>1, OpenFields DEF BeginRead
  <1>4. (\A b \in wim'.blobs : ~IsMeta(b.id)) /\ (\A m \in wim'.metas : IsMeta(m.id))
    BY OpenFields
  <1> QED
    BY <1>2, <1>3, <1>4 DEF ImagesOK

LEMMA UpdateKeepsImages ==
  ASSUME IInv, ImagesOK, NEW i \in Images, UpdateImage(i)
  PROVE  ImagesOK'
  <1> DEFINE x == [id |-> <<"meta", i, opens>>, at |-> 0]
             y == [id |-> <<"file", i, opens>>, at |-> 0]
  <1>1. IsMeta(x.id) /\ ~IsMeta(y.id) /\ ImageOf(x.id) = i
    BY DEF IsMeta, ImageOf
  <1> HIDE DEF x, y
  <1>2. PICK m \in wim.metas :
          /\ ImageOf(m.id) = i /\ wim'.hdr = wim.hdr /\ wim'.doc = wim.doc
          /\ wim'.metas = (wim.metas \ {m}) \cup {x} /\ wim'.blobs = wim.blobs \cup {y}
    BY UpdateFields DEF x, y
  <1>3. OneForEach(wim'.metas, DOMAIN wim'.doc)
    BY <1>1, <1>2, OneReplaced DEF ImagesOK
  <1> QED
    BY <1>1, <1>2, <1>3 DEF ImagesOK

LEMMA DeleteKeepsImages ==
  ASSUME IInv, ImagesOK, NEW i \in Images, DeleteImage(i)
  PROVE  ImagesOK'
  <1>1. OneForEach(wim'.metas, DOMAIN wim'.doc)
    <2>1. /\ wim'.metas = {m \in wim.metas : ImageOf(m.id) # i}
          /\ DOMAIN wim'.doc = DOMAIN wim.doc \ {i}
      BY DeleteFields
    <2>2. OneForEach({m \in wim.metas : ImageOf(m.id) # i}, DOMAIN wim.doc \ {i})
      BY OneRemoved DEF ImagesOK
    <2> QED
      BY <2>1, <2>2
  <1>2. wim'.hdr.count = Cardinality(DOMAIN wim'.doc)
    <2>1. IsFiniteSet(DOMAIN wim.doc) /\ i \in DOMAIN wim.doc
      BY DeleteFields DEF IInv, TypeInv, WimOK
    <2>2. Cardinality(DOMAIN wim.doc \ {i}) = Cardinality(DOMAIN wim.doc) - 1
      BY <2>1, FS_RemoveElement
    <2> QED
      BY <2>2, DeleteFields DEF ImagesOK
  <1> QED
    BY <1>1, <1>2, DeleteFields DEF ImagesOK

LEMMA NextKeepsImages ==
  ASSUME IInv, ImagesOK, [Next]_vars
  PROVE  ImagesOK'
  <1>1. CASE UNCHANGED wim
    BY <1>1 DEF ImagesOK
  <1>2. CASE Open
    BY <1>2, OpenKeepsImages
  <1>3. ASSUME NEW i \in Images, SetImageProperty(i) \/ UpdateImage(i) \/ DeleteImage(i)
        PROVE  ImagesOK'
    BY <1>3, PropertyFields, UpdateKeepsImages, DeleteKeepsImages DEF ImagesOK
  <1>4. CASE PatchAll
    BY <1>4, PatchFields DEF ImagesOK
  <1>5. CASE (\E fs \in CallFlags : Call(fs)) \/ OverwriteInPlace \/ OverwriteViaTmpfile \/ Refuse
             \/ UNCHANGED vars
    BY <1>1, <1>5 DEF Call, OverwriteInPlace, OverwriteViaTmpfile, Refuse, Begin, Return, vars
  <1>6. CASE OpenOut \/ Mark \/ WriteBlob \/ BeginFinish \/ WriteTable \/ WriteXml
             \/ Checkpoint \/ WriteIntegrity \/ WriteHeader \/ Cut \/ Sync \/ Close \/ Rename
    BY <1>1, <1>6 DEF OpenOut, Mark, WriteBlob, BeginFinish, WriteTable, WriteXml,
       Checkpoint, WriteIntegrity, WriteHeader, Cut, Sync, Close, Rename, Goto, Return
  <1>7. CASE OpenOutFails \/ Fails \/ Truncate \/ RestoreHdr \/ Unlink \/ Kill
    BY <1>1, <1>7 DEF OpenOutFails, Fails, Truncate, RestoreHdr, Unlink, Kill, Leave, Return
  <1> QED
    BY <1>2, <1>3, <1>4, <1>5, <1>6, <1>7 DEF Next

-----------------------------------------------------------------------------
(* Where the paths of the code lead.                                       *)

(* The header written in the end, and the marks set before. *)
LEMMA HeaderSteps ==
  ASSUME IInv
  PROVE  /\ Mark => \E h : /\ file' = [file EXCEPT ![Path].hdr = h] /\ h.inProgress
                           /\ mode # "tmp" => /\ h.table = file.wim.hdr.table
                                              /\ h.xml = file.wim.hdr.xml
                                              /\ h.count = file.wim.hdr.count
         /\ Checkpoint => \E h : /\ file' = [file EXCEPT !["wim"].hdr = h] /\ h.inProgress
         /\ WriteHeader => file' = [file EXCEPT ![Path].hdr = outHdr'] /\ ~outHdr'.inProgress
         /\ RestoreHdr => \E h : /\ file' = [file EXCEPT !["wim"].hdr = h]
                                 /\ h.table = file.wim.hdr.table /\ h.xml = file.wim.hdr.xml
                                 /\ h.count = file.wim.hdr.count
  <1>1. outHdr \in Headers /\ file.wim.hdr \in Headers /\ file = [wim |-> file.wim, tmp |-> file.tmp]
        /\ file.wim = [hdr |-> file.wim.hdr, cells |-> file.wim.cells]
    BY DEF IInv, TypeInv, OutputOK, FilesOK, IsFile
  <1>2. ASSUME Mark
        PROVE  \E h : /\ file' = [file EXCEPT ![Path].hdr = h] /\ h.inProgress
                      /\ mode # "tmp" => /\ h.table = file.wim.hdr.table
                                         /\ h.xml = file.wim.hdr.xml
                                         /\ h.count = file.wim.hdr.count
    <2>1. CASE mode = "tmp"
      <3> DEFINE h == [outHdr EXCEPT !.inProgress = TRUE]
      <3>1. file' = [file EXCEPT !["tmp"].hdr = h] /\ h.inProgress
        BY <1>1, <1>2, <2>1 DEF Mark, Headers
      <3> HIDE DEF h
      <3> QED
        BY <2>1, <3>1 DEF Path
    <2>2. CASE mode # "tmp"
      <3> DEFINE h == Marked
      <3>1. file' = [file EXCEPT !["wim"].hdr = h]
        BY <1>2, <2>2 DEF Mark
      <3>2. h.inProgress /\ h.table = file.wim.hdr.table /\ h.xml = file.wim.hdr.xml
            /\ h.count = file.wim.hdr.count
        BY <1>1 DEF Marked, Headers
      <3> HIDE DEF h
      <3> QED
        BY <2>2, <3>1, <3>2 DEF Path
    <2> QED
      BY <2>1, <2>2
  <1>3. ASSUME Checkpoint
        PROVE  \E h : file' = [file EXCEPT !["wim"].hdr = h] /\ h.inProgress
    <2> DEFINE h == [outHdr EXCEPT !.integrity = Nowhere, !.inProgress = TRUE]
    <2>1. file' = [file EXCEPT !["wim"].hdr = h]
      BY <1>3 DEF Checkpoint
    <2>2. h.inProgress
      BY <1>1 DEF Headers
    <2> HIDE DEF h
    <2> QED
      BY <2>1, <2>2
  <1>4. ASSUME WriteHeader
        PROVE  file' = [file EXCEPT ![Path].hdr = outHdr'] /\ ~outHdr'.inProgress
    BY <1>1, <1>4 DEF WriteHeader, Headers
  <1>5. ASSUME RestoreHdr
        PROVE  \E h : /\ file' = [file EXCEPT !["wim"].hdr = h]
                      /\ h.table = file.wim.hdr.table /\ h.xml = file.wim.hdr.xml
                      /\ h.count = file.wim.hdr.count
    <2>1. CASE UNCHANGED file
      <3>1. file' = [file EXCEPT !["wim"].hdr = file.wim.hdr]
        BY <1>1, <2>1
      <3> QED
        BY <3>1
    <2>2. CASE file' = [file EXCEPT !.wim.hdr.inProgress = FALSE]
      <3> DEFINE h == [file.wim.hdr EXCEPT !.inProgress = FALSE]
      <3>1. file' = [file EXCEPT !["wim"].hdr = h]
        BY <2>2
      <3>2. h.table = file.wim.hdr.table /\ h.xml = file.wim.hdr.xml /\ h.count = file.wim.hdr.count
        BY <1>1 DEF Headers
      <3> HIDE DEF h
      <3> QED
        BY <3>1, <3>2
    <2> QED
      BY <1>5, <2>1, <2>2 DEF RestoreHdr
  <1> QED
    BY <1>2, <1>3, <1>4, <1>5

(* Cutting the end off. *)
LEMMA CutEffect ==
  ASSUME FilesOK, NEW end \in Nat, file' = [file EXCEPT !.wim = CutAt(@, end)]
  PROVE  /\ file'.tmp = file.tmp /\ file'.wim.hdr = file.wim.hdr
         /\ \A c \in Cells : c < end => file'.wim.cells[c] = file.wim.cells[c]
  <1>1. file' = [wim |-> CutAt(file.wim, end), tmp |-> file.tmp] /\ IsFile(file.wim)
    BY DEF FilesOK
  <1>2. CutAt(file.wim, end).hdr = file.wim.hdr
    <2>1. \A x : [file.wim EXCEPT !.cells = x].hdr = file.wim.hdr
      BY <1>1 DEF IsFile
    <2> QED
      BY <2>1 DEF CutAt
  <1> QED
    BY <1>1, <1>2, CutKeepsFile

(* Only the output file is changed. *)
LEMMA OtherFile ==
  ASSUME IInv, PathsOK, Active, [Next]_vars, stage # "rename"
  PROVE  /\ mode = "tmp" => file'.wim = file.wim
         /\ mode # "tmp" => file'.tmp = file.tmp
  <1> USE DEF IInv, TypeInv
  <1>1. CASE UNCHANGED file
    BY <1>1
  <1>2. CASE Mark \/ WriteHeader
    <2>1. PICK h : file' = [file EXCEPT ![Path].hdr = h]
      BY <1>2, HeaderSteps
    <2>2. Path \in {"wim", "tmp"} /\ (mode = "tmp" <=> Path = "tmp")
      BY DEF Path
    <2> QED
      BY <2>1, <2>2, HdrEffect
  <1>3. CASE Checkpoint \/ RestoreHdr
    <2>1. PICK h : file' = [file EXCEPT !["wim"].hdr = h]
      BY <1>3, HeaderSteps
    <2>2. mode # "tmp"
      BY <1>3 DEF Checkpoint, RestoreHdr, PathsOK
    <2> QED
      BY <2>1, <2>2, HdrEffect
  <1>4. CASE WriteBlob
    <2>1. PICK b \in todo : UNCHANGED file \/ \E cell : Put(cell)
      BY <1>4 DEF WriteBlob
    <2> QED
      BY <1>1, <2>1, PutEffect
  <1>5. CASE WriteTable \/ WriteXml \/ WriteIntegrity
    <2>1. \E cell : Put(cell)
      BY <1>5 DEF WriteTable, WriteXml, WriteIntegrity
    <2> QED
      BY <2>1, PutEffect
  <1>6. CASE Cut
    <2>1. mode # "tmp" /\ out \in Nat /\ file' = [file EXCEPT !.wim = CutAt(@, out)]
      BY <1>6 DEF Cut, KeepInv, OutputOK
    <2> QED
      BY <2>1, CutEffect
  <1>7. CASE Truncate
    <2>1. mode # "tmp" /\ oldEnd \in Nat
          /\ (file' = [file EXCEPT !.wim = CutAt(@, oldEnd)] \/ UNCHANGED file)
      BY <1>7 DEF Truncate, PathsOK, OutputOK
    <2> QED
      BY <1>1, <2>1, CutEffect
  <1>8. CASE Fails \/ Kill
    BY <1>8, TornEffect DEF Fails, Kill
  <1>9. CASE Unlink
    <2>1. mode = "tmp"
      BY <1>9 DEF Unlink, PathsOK
    <2> QED
      BY <1>9, <2>1, UnlinkStep
  <1>10. CASE Open \/ Rename \/ PatchAll
              \/ \E i \in Images : SetImageProperty(i) \/ UpdateImage(i) \/ DeleteImage(i)
    BY <1>10 DEF Active, Open, Rename, PatchAll, SetImageProperty, UpdateImage, DeleteImage
  <1>11. CASE (\E fs \in CallFlags : Call(fs)) \/ OverwriteInPlace \/ OverwriteViaTmpfile \/ Refuse
    BY <1>11 DEF Active, Call, OverwriteInPlace, OverwriteViaTmpfile, Refuse
  <1>12. CASE OpenOut \/ BeginFinish \/ Sync \/ Close \/ OpenOutFails \/ UNCHANGED vars
    BY <1>1, <1>12 DEF OpenOut, BeginFinish, Sync, Close, OpenOutFails, vars
  <1> QED
    BY <1>2, <1>3, <1>4, <1>5, <1>6, <1>7, <1>8, <1>9, <1>10, <1>11, <1>12 DEF Next

LEMMA PathsStep ==
  ASSUME PathsOK, Active, UNCHANGED <<synced, mode, flags>>, stage' \notin {"open", "call"},
         mode = "tmp" => file'.wim = file.wim,
         mode # "tmp" => file'.tmp = file.tmp,
         mode = "tmp" /\ stage' \in {"close", "rename"} => stage = "close" /\ UNCHANGED file,
         stage' = "table" => mode # "xml",
         stage' = "checkpoint" => mode = "xml",
         stage' \in {"unlink", "rename"} => mode = "tmp",
         stage' \in {"truncate", "restore"} => mode # "tmp",
         stage' \in {"truncate", "restore", "unlink"} => ret' = "error",
         stage' = "sync" => "fsync" \in flags
  PROVE  PathsOK'
  <1> USE DEF PathsOK
  <1>1. synced' = [wim |-> synced'.wim, tmp |-> synced'.tmp] /\ Active' \in BOOLEAN
    BY DEF Active
  <1>2. /\ mode' = "tmp" => synced'.wim = file'.wim /\ (Active' => "fsync" \in flags')
        /\ mode' = "tmp" /\ stage' \in {"close", "rename"} => synced'.tmp = file'.tmp
        /\ mode' # "tmp" => file'.tmp = NoFile
        /\ Active' => mode' # "none"
    OBVIOUS
  <1> QED
    BY <1>1, <1>2

LEMMA InitPaths == Init => PathsOK
  <1> SUFFICES ASSUME Init
               PROVE  PathsOK
    OBVIOUS
  <1>1. PICK f \in FirstFiles : file = [wim |-> f, tmp |-> NoFile]
    BY DEF Init
  <1> QED
    BY <1>1 DEF Init, PathsOK, Active

LEMMA BeginKeepsPaths == IInv /\ PathsOK /\ (OverwriteInPlace \/ OverwriteViaTmpfile) => PathsOK'
  <1> SUFFICES ASSUME IInv, PathsOK, OverwriteInPlace \/ OverwriteViaTmpfile
               PROVE  PathsOK'
    OBVIOUS
  <1>1. PICK m, fs, end, blobs, hdr :
          /\ m \in {"append", "xml", "compact", "tmp"}
          /\ Begin(m, fs, end, blobs, hdr) /\ (m = "tmp" => "fsync" \in fs)
    BY DEF OverwriteInPlace, OverwriteViaTmpfile, TmpFlags
  <1>2. /\ stage' = "openout" /\ mode' = m /\ flags' = fs /\ UNCHANGED <<file, synced>>
    BY <1>1 DEF Begin
  <1>3. stage = "call"
    BY DEF OverwriteInPlace, OverwriteViaTmpfile
  <1>4. synced.wim = file.wim /\ file.tmp = NoFile /\ synced = [wim |-> synced.wim, tmp |-> synced.tmp]
    BY <1>3 DEF PathsOK
  <1> QED
    BY <1>1, <1>2, <1>4 DEF PathsOK

LEMMA GoingKeepsPaths ==
  ASSUME IInv, PathsOK, Active, stage # "rename", [Next]_vars,
         OpenOut \/ Mark \/ WriteBlob \/ BeginFinish \/ WriteTable \/ WriteXml
         \/ Checkpoint \/ WriteIntegrity \/ WriteHeader \/ Cut
  PROVE  PathsOK'
  <1>1. UNCHANGED <<synced, mode, flags>>
    BY DEF OpenOut, Mark, WriteBlob, BeginFinish, WriteTable, WriteXml,
       Checkpoint, WriteIntegrity, WriteHeader, Cut, Goto
  <1>2. /\ stage' \notin {"open", "call", "unlink", "rename", "truncate", "restore"}
        /\ stage' = "table" => mode # "xml"
        /\ stage' = "checkpoint" => mode = "xml"
    BY DEF OpenOut, Mark, WriteBlob, BeginFinish, WriteTable, WriteXml,
       Checkpoint, WriteIntegrity, WriteHeader, Cut, Goto, Ending
  <1>3. /\ stage' = "sync" => "fsync" \in flags
        /\ stage' = "close" => "fsync" \notin flags
    BY DEF OpenOut, Mark, WriteBlob, BeginFinish, WriteTable, WriteXml,
       Checkpoint, WriteIntegrity, WriteHeader, Cut, Goto, Ending
  <1>4. mode = "tmp" => "fsync" \in flags
    BY DEF PathsOK
  <1>5. /\ mode = "tmp" => file'.wim = file.wim
        /\ mode # "tmp" => file'.tmp = file.tmp
    BY OtherFile
  <1> QED
    BY <1>1, <1>2, <1>3, <1>4, <1>5, PathsStep

LEMMA LeavingKeepsPaths ==
  ASSUME IInv, PathsOK, Active, stage # "rename" \/ Kill \/ Unlink, [Next]_vars,
         OpenOutFails \/ Fails \/ Truncate \/ RestoreHdr \/ Unlink \/ Kill
  PROVE  PathsOK'
  <1>1. UNCHANGED <<synced, mode, flags>>
    BY DEF OpenOutFails, Fails, Truncate, RestoreHdr, Unlink, Kill, Leave, Return
  <1>2. /\ stage' \in {"closed", "unlink", "truncate", "restore"}
        /\ stage' = "unlink" => mode = "tmp"
        /\ stage' \in {"truncate", "restore"} => mode # "tmp"
        /\ stage' # "closed" => ret' = "error"
    BY DEF OpenOutFails, Fails, Truncate, RestoreHdr, Unlink, Kill, Leave, Return, PathsOK
  <1>3. /\ mode = "tmp" => file'.wim = file.wim
        /\ mode # "tmp" => file'.tmp = file.tmp
    <2>1. CASE Kill
      BY <2>1, TornEffect DEF Kill, IInv, TypeInv
    <2>2. CASE Unlink
      <3>1. mode = "tmp"
        BY <2>2 DEF Unlink, PathsOK
      <3> QED
        BY <2>2, <3>1, UnlinkStep
    <2> QED
      BY <2>1, <2>2, OtherFile
  <1> QED
    BY <1>1, <1>2, <1>3, PathsStep

LEMMA NextKeepsPaths ==
  ASSUME IInv, PathsOK, [Next]_vars
  PROVE  PathsOK'
  <1>1. CASE Open
    <2>1. stage' = "open" /\ mode' = "none" /\ synced' = file'
      BY <1>1 DEF Open
    <2> QED
      BY <1>1, <2>1, OpenFields DEF PathsOK, Active
  <1>2. CASE PatchAll \/ (\E i \in Images : SetImageProperty(i) \/ UpdateImage(i) \/ DeleteImage(i))
             \/ (\E fs \in CallFlags : Call(fs)) \/ Refuse
    <2>1. stage \in {"open", "call"} /\ stage' \in {"open", "call", "closed"}
          /\ UNCHANGED <<file, synced, mode>>
      BY <1>2 DEF PatchAll, SetImageProperty, UpdateImage, DeleteImage, OnlyInMemory, Call, Refuse, Return
    <2> QED
      BY <2>1 DEF PathsOK, Active
  <1>3. CASE OverwriteInPlace \/ OverwriteViaTmpfile
    BY <1>3, BeginKeepsPaths
  <1>4. CASE OpenOut \/ Mark \/ WriteBlob \/ BeginFinish \/ WriteTable \/ WriteXml
             \/ Checkpoint \/ WriteIntegrity \/ WriteHeader \/ Cut
    <2>1. Active /\ stage # "rename"
      BY <1>4 DEF OpenOut, Mark, WriteBlob, BeginFinish, WriteTable, WriteXml,
         Checkpoint, WriteIntegrity, WriteHeader, Cut, Active
    <2> QED
      BY <1>4, <2>1, GoingKeepsPaths
  <1>5. CASE Sync
    <2>1. /\ stage = "sync" /\ stage' = "close" /\ UNCHANGED <<file, mode, flags>>
          /\ synced' = [synced EXCEPT ![Path] = file[Path]]
      BY <1>5 DEF Sync
    <2>2. synced = [wim |-> synced.wim, tmp |-> synced.tmp]
      BY DEF PathsOK
    <2>3. CASE mode = "tmp"
      <3>1. synced' = [wim |-> synced.wim, tmp |-> file.tmp]
        BY <2>1, <2>2, <2>3 DEF Path
      <3>2. /\ synced'.wim = synced.wim /\ synced'.tmp = file.tmp
            /\ synced' = [wim |-> synced'.wim, tmp |-> synced'.tmp]
        BY <3>1
      <3>3. synced.wim = file.wim /\ "fsync" \in flags
        BY <2>1, <2>3 DEF PathsOK, Active
      <3> QED
        BY <2>1, <2>3, <3>2, <3>3 DEF PathsOK, Active
    <2>4. CASE mode # "tmp"
      <3>1. synced' = [wim |-> file.wim, tmp |-> synced.tmp]
        BY <2>1, <2>2, <2>4 DEF Path
      <3> QED
        BY <2>1, <2>4, <3>1 DEF PathsOK, Active
    <2> QED
      BY <2>3, <2>4
  <1>6. CASE Close
    <2>1. /\ stage = "close" /\ UNCHANGED <<file, synced, mode, flags>>
          /\ (stage' = "rename" /\ mode = "tmp") \/ stage' = "closed"
      BY <1>6 DEF Close, Goto, Return
    <2> QED
      BY <2>1, PathsStep DEF Active
  <1>7. CASE Rename
    <2>1. /\ stage = "rename" /\ stage' = "closed" /\ UNCHANGED <<mode, flags>>
          /\ file' = [wim |-> file.tmp, tmp |-> NoFile]
          /\ synced' = [wim |-> synced.tmp, tmp |-> NoFile]
      BY <1>7 DEF Rename
    <2>2. mode = "tmp" /\ synced.tmp = file.tmp
      BY <2>1 DEF PathsOK
    <2> QED
      BY <2>1, <2>2 DEF PathsOK, Active
  <1>8. CASE OpenOutFails \/ Fails \/ Truncate \/ RestoreHdr \/ Unlink \/ Kill
    <2>1. Active
      BY <1>8 DEF OpenOutFails, Fails, Truncate, RestoreHdr, Unlink, Kill, Active, Writing
    <2>2. stage # "rename" \/ Kill \/ Unlink
      BY <1>8 DEF OpenOutFails, Fails, Truncate, RestoreHdr, Writing
    <2> QED
      BY <1>8, <2>1, <2>2, LeavingKeepsPaths
  <1>9. CASE UNCHANGED vars
    BY <1>9 DEF vars, PathsOK, Active
  <1> QED
    BY <1>1, <1>2, <1>3, <1>4, <1>5, <1>6, <1>7, <1>8, <1>9 DEF Next

-----------------------------------------------------------------------------
(* The old contents stay as they were.                                     *)

LEMMA IntactIsReadable ==
  ASSUME NEW f, Contents(f) # Damaged
  PROVE  \A r \in RefsOf(f) : f.cells[r.at] = Blob(r.id)
  BY DEF Contents

LEMMA OpenKeepsOld == IInv /\ Open => OldOK'
  <1> SUFFICES ASSUME IInv, Open
               PROVE  OldOK'
    OBVIOUS
  <1>1. stage' = "open" /\ mode' = "none" /\ BeginRead(file.wim)
    BY DEF Open
  <1>2. Old'
    BY <1>1, OpenFields DEF Old
  <1>3. \A r \in RefsOf(file.wim) : r.at # 0
    BY <1>1, RefsAreCells DEF IInv, TypeInv, FilesOK
  <1>4. wim'.blobs \cup wim'.metas = RefsOf(file'.wim) /\ InWim' = RefsOf(file'.wim)
    BY <1>3, OpenFields DEF InWim
  <1>5. Readable'
    BY <1>4, OpenFields, IntactIsReadable DEF Readable
  <1> QED
    BY <1>1, <1>2, <1>4, <1>5 DEF OldOK, Untouched, Active, Appending

(* The changes in memory only take places in the file away.                *)
LEMMA InMemoryKeepsOld ==
  ASSUME OldOK, stage \in {"open", "call"}, stage' \in {"open", "call"}, UNCHANGED file,
         wim'.hdr.table = wim.hdr.table, wim'.hdr.xml = wim.hdr.xml, wim'.read = wim.read,
         InWim' \subseteq InWim,
         ~AnyImagesChanged' => ~AnyImagesChanged /\ wim'.blobs \cup wim'.metas = wim.blobs \cup wim.metas
  PROVE  OldOK'
  <1>1. Old /\ Readable
    BY DEF OldOK, Untouched
  <1>2. Old' /\ Readable'
    BY <1>1 DEF Old, Readable
  <1>3. /\ InWim' \subseteq RefsOf(file'.wim)
        /\ ~AnyImagesChanged' => wim'.blobs \cup wim'.metas = RefsOf(file'.wim)
    BY DEF OldOK
  <1> QED
    BY <1>2, <1>3 DEF OldOK, Active, Appending

LEMMA UpdateKeepsOld ==
  ASSUME IInv, OldOK, NEW i \in Images, UpdateImage(i)
  PROVE  OldOK'
  <1> DEFINE x == [id |-> <<"meta", i, opens>>, at |-> 0]
             y == [id |-> <<"file", i, opens>>, at |-> 0]
  <1>1. x.at = 0 /\ y.at = 0
    OBVIOUS
  <1> HIDE DEF x, y
  <1>2. PICK m \in wim.metas :
          /\ wim'.hdr = wim.hdr /\ wim'.read = wim.read
          /\ wim'.metas = (wim.metas \ {m}) \cup {x} /\ wim'.blobs = wim.blobs \cup {y}
    BY UpdateFields DEF x, y
  <1>3. InWim' \subseteq InWim
    BY <1>1, <1>2 DEF InWim
  <1>4. AnyImagesChanged'
    BY <1>1, <1>2 DEF AnyImagesChanged
  <1>5. stage = "open" /\ stage' = "open" /\ UNCHANGED file
    BY DEF UpdateImage, OnlyInMemory
  <1> QED
    BY <1>2, <1>3, <1>4, <1>5, InMemoryKeepsOld

LEMMA CallerKeepsOld ==
  ASSUME IInv, OldOK,
         PatchAll \/ Refuse \/ (\E fs \in CallFlags : Call(fs))
         \/ \E i \in Images : SetImageProperty(i) \/ UpdateImage(i) \/ DeleteImage(i)
  PROVE  OldOK'
  <1>1. ASSUME NEW i \in Images, SetImageProperty(i)
        PROVE  OldOK'
    <2>1. stage = "open" /\ stage' = "open" /\ UNCHANGED file
      BY <1>1 DEF SetImageProperty, OnlyInMemory
    <2>2. InWim' = InWim /\ (AnyImagesChanged' <=> AnyImagesChanged)
      BY <1>1, PropertyFields DEF InWim, AnyImagesChanged
    <2> QED
      BY <1>1, <2>1, <2>2, PropertyFields, InMemoryKeepsOld
  <1>2. ASSUME NEW i \in Images, DeleteImage(i)
        PROVE  OldOK'
    <2>1. stage = "open" /\ stage' = "open" /\ UNCHANGED file
      BY <1>2 DEF DeleteImage, OnlyInMemory
    <2>2. InWim' \subseteq InWim /\ AnyImagesChanged'
      BY <1>2, DeleteFields DEF InWim, AnyImagesChanged
    <2> QED
      BY <1>2, <2>1, <2>2, DeleteFields, InMemoryKeepsOld
  <1>3. CASE PatchAll
    <2>1. stage = "open" /\ stage' \in {"closed", "call"} /\ UNCHANGED file
      BY <1>3 DEF PatchAll
    <2>2. CASE stage' = "closed"
      BY <2>2 DEF OldOK, Untouched, Active, Appending
    <2>3. CASE stage' = "call"
      <3>1. InWim' = InWim /\ (AnyImagesChanged' <=> AnyImagesChanged)
        BY <1>3, PatchFields DEF InWim, AnyImagesChanged
      <3> QED
        BY <1>3, <2>1, <2>3, <3>1, PatchFields, InMemoryKeepsOld
    <2> QED
      BY <2>1, <2>2, <2>3
  <1>4. ASSUME NEW fs \in CallFlags, Call(fs)
        PROVE  OldOK'
    <2>1. stage = "open" /\ stage' = "call" /\ UNCHANGED <<file, wim>>
      BY <1>4 DEF Call
    <2> QED
      BY <2>1, InMemoryKeepsOld DEF InWim, AnyImagesChanged
  <1>5. CASE Refuse
    <2>1. stage' = "closed"
      BY <1>5 DEF Refuse, Return
    <2> QED
      BY <2>1 DEF OldOK, Untouched, Active, Appending
  <1> QED
    BY <1>1, <1>2, <1>3, <1>4, <1>5, UpdateKeepsOld

LEMMA BeginKeepsOld == IInv /\ OldOK /\ (OverwriteInPlace \/ OverwriteViaTmpfile) => OldOK'
  <1> SUFFICES ASSUME IInv, OldOK, OverwriteInPlace \/ OverwriteViaTmpfile
               PROVE  OldOK'
    OBVIOUS
  <1>1. /\ stage = "call" /\ stage' = "openout" /\ UNCHANGED <<file, wim>>
    BY DEF OverwriteInPlace, OverwriteViaTmpfile, Begin
  <1>2. Old' /\ Readable'
    BY <1>1 DEF OldOK, Untouched, Old, Readable, InWim
  <1>3. ASSUME mode' = "append"
        PROVE  End(wim.hdr.xml) <= oldEnd'
    <2>1. AnyImagesChanged /\ ResourceOrder /\ oldEnd' = OldWimEnd
      BY <1>3 DEF OverwriteInPlace, OverwriteViaTmpfile, Begin
    <2>2. CASE HasIntegrity
      <3>1. oldEnd' = End(wim.hdr.integrity) /\ wim.hdr.integrity.at >= End(wim.hdr.xml)
        BY <2>1, <2>2 DEF OldWimEnd, ResourceOrder
      <3>2. wim.hdr.integrity \in ResHdrs /\ wim.hdr.xml \in ResHdrs /\ wim.hdr.integrity # Nowhere
        BY <2>2 DEF IInv, TypeInv, WimOK, Headers, HasIntegrity
      <3>3. PICK a \in Nat, e \in Nat, x \in Nat :
              /\ a = wim.hdr.integrity.at /\ e = End(wim.hdr.integrity) /\ a < e
              /\ x = End(wim.hdr.xml)
        BY <3>2, EndOfResHdr
      <3> QED
        BY <3>1, <3>3
    <2>3. CASE ~HasIntegrity
      <3>1. oldEnd' = End(wim.hdr.xml) /\ End(wim.hdr.xml) \in 1..(Size + 1)
        BY <2>1, <2>3, EndOfResHdr DEF OldWimEnd, IInv, TypeInv, WimOK, Headers
      <3> QED
        BY <3>1
    <2> QED
      BY <2>2, <2>3
  <1> QED
    BY <1>1, <1>2, <1>3 DEF OldOK

(* Writing in place changes no cell before the end of the old file, and    *)
(* only the last steps change where the header points to.                  *)
LEMMA InPlaceEffect ==
  ASSUME IInv, PathsOK, Active, mode \in {"append", "xml"}, [Next]_vars
  PROVE  /\ \A c \in Cells : c < oldEnd => file'.wim.cells[c] = file.wim.cells[c]
         /\ ~WriteHeader /\ ~Checkpoint =>
               /\ file'.wim.hdr.table = file.wim.hdr.table
               /\ file'.wim.hdr.xml = file.wim.hdr.xml
               /\ file'.wim.hdr.count = file.wim.hdr.count
  <1> USE DEF IInv, TypeInv
  <1>1. Path = "wim" /\ oldEnd <= out /\ oldEnd \in Nat /\ out \in Nat
    BY DEF Path, KeepInv, OutputOK
  <1>2. CASE UNCHANGED file
    BY <1>2
  <1>3. CASE Mark \/ RestoreHdr
    <2>1. PICK h : /\ file' = [file EXCEPT !["wim"].hdr = h]
                   /\ h.table = file.wim.hdr.table /\ h.xml = file.wim.hdr.xml
                   /\ h.count = file.wim.hdr.count
      BY <1>1, <1>3, HeaderSteps
    <2> QED
      BY <2>1, HdrEffect
  <1>4. CASE Checkpoint \/ WriteHeader
    <2>1. PICK h : file' = [file EXCEPT !["wim"].hdr = h]
      BY <1>1, <1>4, HeaderSteps
    <2> QED
      BY <1>4, <2>1, HdrEffect
  <1>5. CASE WriteBlob \/ WriteTable \/ WriteXml \/ WriteIntegrity
    <2>1. UNCHANGED file \/ \E cell : Put(cell)
      BY <1>5 DEF WriteBlob, WriteTable, WriteXml, WriteIntegrity
    <2>2. ASSUME NEW cell, Put(cell)
          PROVE  /\ \A c \in Cells : c < oldEnd => file'.wim.cells[c] = file.wim.cells[c]
                 /\ file'.wim.hdr = file.wim.hdr
      BY <1>1, <2>2, PutEffect
    <2> QED
      BY <1>2, <2>1, <2>2
  <1>6. CASE Truncate
    <2>1. file' = [file EXCEPT !.wim = CutAt(@, oldEnd)] \/ UNCHANGED file
      BY <1>6 DEF Truncate
    <2> QED
      BY <1>1, <1>2, <2>1, CutEffect
  <1>7. CASE Fails \/ Kill
    BY <1>1, <1>7, TornEffect DEF Fails, Kill
  <1>8. CASE Cut \/ Unlink \/ Rename
    BY <1>8 DEF Cut, Unlink, Rename, KeepInv, PathsOK
  <1>9. CASE Open \/ PatchAll \/ \E i \in Images : SetImageProperty(i) \/ UpdateImage(i) \/ DeleteImage(i)
    BY <1>9 DEF Active, Open, PatchAll, SetImageProperty, UpdateImage, DeleteImage
  <1>10. CASE (\E fs \in CallFlags : Call(fs)) \/ OverwriteInPlace \/ OverwriteViaTmpfile \/ Refuse
    BY <1>10 DEF Active, Call, OverwriteInPlace, OverwriteViaTmpfile, Refuse
  <1>11. CASE OpenOut \/ BeginFinish \/ Sync \/ Close \/ OpenOutFails \/ UNCHANGED vars
    BY <1>2, <1>11 DEF OpenOut, BeginFinish, Sync, Close, OpenOutFails, vars
  <1> QED
    BY <1>3, <1>4, <1>5, <1>6, <1>7, <1>8, <1>9, <1>10, <1>11 DEF Next

(* What no step of wimlib_overwrite changes. *)
LEMMA ActiveFixed ==
  ASSUME Active, [Next]_vars
  PROVE  UNCHANGED <<wim, mode, flags, oldEnd, caller, xmlLen>> /\ stage' \notin {"open", "call"}
  <1>1. CASE Open \/ PatchAll \/ \E i \in Images : SetImageProperty(i) \/ UpdateImage(i) \/ DeleteImage(i)
    BY <1>1 DEF Active, Open, PatchAll, SetImageProperty, UpdateImage, DeleteImage
  <1>2. CASE (\E fs \in CallFlags : Call(fs)) \/ OverwriteInPlace \/ OverwriteViaTmpfile \/ Refuse
    BY <1>2 DEF Active, Call, OverwriteInPlace, OverwriteViaTmpfile, Refuse
  <1>3. CASE OpenOut \/ Mark \/ WriteBlob \/ BeginFinish \/ WriteTable \/ WriteXml
             \/ Checkpoint \/ WriteIntegrity \/ WriteHeader \/ Cut
    BY <1>3 DEF OpenOut, Mark, WriteBlob, BeginFinish, WriteTable, WriteXml,
       Checkpoint, WriteIntegrity, WriteHeader, Cut, Goto, Ending
  <1>4. CASE Sync \/ Close \/ Rename
    BY <1>4 DEF Sync, Close, Rename, Goto, Return
  <1>5. CASE OpenOutFails \/ Fails \/ Truncate \/ RestoreHdr \/ Unlink \/ Kill
    BY <1>5 DEF OpenOutFails, Fails, Truncate, RestoreHdr, Unlink, Kill, Leave, Return
  <1>6. CASE UNCHANGED vars
    BY <1>6 DEF vars, Active
  <1> QED
    BY <1>1, <1>2, <1>3, <1>4, <1>5, <1>6 DEF Next

(* Where a stage is reached from. *)
LEMMA Reached ==
  ASSUME Active, [Next]_vars
  PROVE  /\ stage' \in {"openout", "mark"} => stage \in {"openout", "mark"} /\ UNCHANGED file
         /\ stage = "rename" => stage' = "closed" \/ UNCHANGED file
         /\ stage' \in {"blobs", "table", "xml", "integrity", "header"} =>
               /\ ~WriteHeader
               /\ ~Checkpoint \/ stage' = "integrity"
               /\ stage \in {"mark", "blobs", "table", "xml", "checkpoint", "integrity", "header"}
         /\ stage' \in {"truncate", "restore"} =>
               /\ ~WriteHeader /\ ~Checkpoint
               /\ stage \in (Writing \ {"mark", "close"}) \cup {"truncate", "restore"}
  <1>1. CASE Open \/ PatchAll \/ \E i \in Images : SetImageProperty(i) \/ UpdateImage(i) \/ DeleteImage(i)
    BY <1>1 DEF Active, Open, PatchAll, SetImageProperty, UpdateImage, DeleteImage
  <1>2. CASE (\E fs \in CallFlags : Call(fs)) \/ OverwriteInPlace \/ OverwriteViaTmpfile \/ Refuse
    BY <1>2 DEF Active, Call, OverwriteInPlace, OverwriteViaTmpfile, Refuse
  <1>3. CASE OpenOut \/ Mark \/ WriteBlob \/ BeginFinish \/ WriteTable \/ WriteXml
    BY <1>3 DEF OpenOut, Mark, WriteBlob, BeginFinish, WriteTable, WriteXml, Goto, WriteHeader, Checkpoint
  <1>4. CASE Checkpoint \/ WriteIntegrity \/ WriteHeader \/ Cut
    BY <1>4 DEF Checkpoint, WriteIntegrity, WriteHeader, Cut, Goto, Ending
  <1>5. CASE Sync \/ Close \/ Rename
    BY <1>5 DEF Sync, Close, Rename, Goto, Return
  <1>6. CASE OpenOutFails \/ Fails \/ Truncate \/ RestoreHdr \/ Unlink \/ Kill
    BY <1>6 DEF OpenOutFails, Fails, Truncate, RestoreHdr, Unlink, Kill, Leave, Return,
                WriteHeader, Checkpoint, Goto, Ending, Writing
  <1>7. CASE UNCHANGED vars
    BY <1>7 DEF vars, Active, WriteHeader, Checkpoint, Goto, Ending, Writing
  <1> QED
    BY <1>1, <1>2, <1>3, <1>4, <1>5, <1>6, <1>7 DEF Next

LEMMA OldPersists ==
  ASSUME IInv, Old, OldResourcesLieBefore, Active, mode = "append", End(wim.hdr.xml) <= oldEnd,
         UNCHANGED wim,
         \A c \in Cells : c < oldEnd => file'.wim.cells[c] = file.wim.cells[c],
         file'.wim.hdr.table = file.wim.hdr.table, file'.wim.hdr.xml = file.wim.hdr.xml,
         file'.wim.hdr.count = file.wim.hdr.count
  PROVE  Old'
  <1> DEFINE f == file.wim
             g == file'.wim
  <1>1. IsFile(f) /\ BeginRead(f) /\ f.hdr.table = wim.hdr.table /\ f.hdr.xml = wim.hdr.xml
    BY DEF IInv, TypeInv, FilesOK, Old
  <1>2. f.hdr.table.at \in Cells /\ f.hdr.table.at < oldEnd
    <2>1. wim.hdr.table.at < oldEnd
      BY DEF IInv, KeepInv, KeptCells
    <2>2. f.hdr.table.at \in Cells
      BY <1>1, HeaderPlaces DEF BeginRead, HasTable
    <2> QED
      BY <1>1, <2>1, <2>2
  <1>3. \A r \in RefsOf(f) : g.cells[r.at] = f.cells[r.at]
    <2>1. \A r \in RefsOf(f) : r.at \in Cells /\ r.at < oldEnd
      BY <1>1, RefsAreCells DEF OldResourcesLieBefore, RefsOf
    <2> QED
      BY <2>1
  <1>4. ASSUME NEW i \in 1..f.hdr.xml.len
        PROVE  g.cells[f.hdr.xml.at + i - 1] = f.cells[f.hdr.xml.at + i - 1]
    <2>1. PICK a \in Nat, n \in Nat, e \in Nat :
            /\ a = f.hdr.xml.at /\ n = f.hdr.xml.len /\ a >= 1 /\ a + n <= Size + 1
            /\ e = oldEnd /\ a + n <= e
      <3>1. /\ f.hdr.xml.at \in Cells /\ f.hdr.xml.len \in Nat
            /\ f.hdr.xml.at + f.hdr.xml.len <= Size + 1
            /\ End(f.hdr.xml) = f.hdr.xml.at + f.hdr.xml.len
        BY <1>1, HeaderPlaces DEF BeginRead, HasXml
      <3>2. oldEnd \in Nat
        BY DEF IInv, TypeInv, OutputOK
      <3> QED
        BY <1>1, <3>1, <3>2
    <2>2. a + i - 1 \in Cells /\ a + i - 1 < e
      BY <1>4, <2>1
    <2> QED
      BY <2>1, <2>2
  <1>5. BeginRead(g) /\ Contents(g) = Contents(f)
    <2>1. /\ g.hdr.table = f.hdr.table /\ g.hdr.xml = f.hdr.xml /\ g.hdr.count = f.hdr.count
          /\ g.cells[f.hdr.table.at] = f.cells[f.hdr.table.at]
      BY <1>2
    <2> HIDE DEF f, g
    <2> QED
      BY <1>1, <1>3, <1>4, <2>1, SameContents
  <1> QED
    BY <1>5 DEF Old

(* The old blob table stays, and with it where its resources lie. *)
LEMMA LieBeforeKept ==
  ASSUME IInv, PathsOK, Active, mode = "append", [Next]_vars
  PROVE  OldResourcesLieBefore' <=> OldResourcesLieBefore
  <1>1. UNCHANGED <<wim, mode, oldEnd>>
    BY ActiveFixed
  <1>2. \A c \in Cells : c < oldEnd => file'.wim.cells[c] = file.wim.cells[c]
    BY InPlaceEffect
  <1>3. wim.hdr.table.at \in Cells /\ wim.hdr.table.at < oldEnd
    <2>1. wim.hdr.table.at \in KeptCells /\ wim.hdr.table # Nowhere
      BY DEF KeptCells, IInv, KeepInv, Active
    <2> QED
      BY <2>1, KeptAreCells DEF IInv, TypeInv, KeepInv
  <1> QED
    BY <1>1, <1>2, <1>3 DEF OldResourcesLieBefore

LEMMA ActiveKeepsOld ==
  ASSUME IInv, PathsOK, OldOK, Active, [Next]_vars
  PROVE  OldOK'
  <1>1. UNCHANGED <<wim, mode, flags, oldEnd>> /\ stage' \notin {"open", "call"}
    BY ActiveFixed
  <1>2. CASE UNCHANGED file /\ (stage \in {"openout", "mark"} \/ stage' \notin {"openout", "mark"})
             /\ (Appending' => Appending \/ stage = "mark")
    BY <1>1, <1>2 DEF OldOK, Untouched, Active, Old, Readable, InWim
  <1>3. Active' /\ mode # "compact" => Readable'
    <2> SUFFICES ASSUME Active', mode # "compact"
                 PROVE  Readable'
      OBVIOUS
    <2>1. Readable
      BY DEF OldOK
    <2>2. CASE UNCHANGED file
      BY <1>1, <2>1, <2>2 DEF Readable, InWim
    <2>3. CASE ~UNCHANGED file
      <3>1. stage \notin {"closed", "rename"}
        BY <2>3, Reached DEF Active
      <3>2. mode \in {"append", "xml", "tmp"}
        BY DEF IInv, TypeInv, StagesOK, PathsOK
      <3>3. StayInPlace
        BY <3>1, <3>2, NextKeepsData
      <3> QED
        BY <1>1, <2>1, <3>3 DEF Readable, InWim, StayInPlace, KeptCells
    <2> QED
      BY <2>2, <2>3
  <1>4. Active' /\ mode = "tmp" => Old'
    <2> SUFFICES ASSUME Active', mode = "tmp"
                 PROVE  Old'
      OBVIOUS
    <2>1. file'.wim = file.wim
      BY OtherFile, Reached DEF Active
    <2> QED
      BY <1>1, <2>1 DEF OldOK, Old
  <1>5. Appending' => Old'
    <2> SUFFICES ASSUME Appending'
                 PROVE  Old'
      OBVIOUS
    <2>1. mode = "append" /\ ~Checkpoint
      BY <1>1 DEF Appending, Checkpoint, PathsOK
    <2>2. \A c \in Cells : c < oldEnd => file'.wim.cells[c] = file.wim.cells[c]
      BY <2>1, InPlaceEffect
    <2>3. OldResourcesLieBefore
      BY <2>1, LieBeforeKept DEF Appending
    <2>4. ~WriteHeader /\ (Appending \/ stage = "mark")
      <3>1. CASE stage' \in {"blobs", "table", "xml", "integrity", "header"}
        <4>2. ~WriteHeader
          BY <3>1, Reached
        <4>3. stage \in {"mark", "blobs", "table", "xml", "integrity", "header"}
          BY <2>1, <3>1, Reached DEF PathsOK
        <4> QED
          BY <2>1, <2>3, <4>2, <4>3 DEF Appending
      <3>2. CASE stage' \in {"truncate", "restore"}
        <4>1. "fsync" \notin flags /\ ~WriteHeader
          BY <1>1, <3>2, Reached DEF Appending
        <4>2. stage \in {"blobs", "table", "xml", "integrity", "header", "truncate", "restore"}
          BY <2>1, <3>2, <4>1, Reached DEF PathsOK, Writing, IInv, KeepInv
        <4> QED
          BY <2>1, <2>3, <4>1, <4>2 DEF Appending
      <3> QED
        BY <3>1, <3>2 DEF Appending
    <2>5. Old /\ End(wim.hdr.xml) <= oldEnd
      BY <2>1, <2>4 DEF OldOK, Untouched
    <2>6. /\ file'.wim.hdr.table = file.wim.hdr.table /\ file'.wim.hdr.xml = file.wim.hdr.xml
          /\ file'.wim.hdr.count = file.wim.hdr.count
      BY <2>1, <2>4, InPlaceEffect
    <2> QED
      BY <1>1, <2>1, <2>2, <2>3, <2>5, <2>6, OldPersists
  <1>6. Untouched' => Old' /\ Readable'
    <2> SUFFICES ASSUME Untouched'
                 PROVE  Old' /\ Readable'
      OBVIOUS
    <2>1. stage \in {"openout", "mark"} /\ UNCHANGED file
      BY <1>1, Reached DEF Untouched
    <2> QED
      BY <1>1, <2>1 DEF OldOK, Untouched, Old, Readable, InWim
  <1> QED
    BY <1>1, <1>3, <1>4, <1>5, <1>6 DEF OldOK

(* Outside of wimlib_overwrite there are only its callers.                 *)
Calls ==
    \/ PatchAll \/ Refuse \/ \E fs \in CallFlags : Call(fs)
    \/ \E i \in Images : SetImageProperty(i) \/ UpdateImage(i) \/ DeleteImage(i)

LEMMA IdleSteps ==
  ASSUME ~Active, [Next]_vars
  PROVE  UNCHANGED vars \/ Open \/ Calls \/ OverwriteInPlace \/ OverwriteViaTmpfile
  <1>1. /\ ~OpenOut /\ ~Mark /\ ~WriteBlob /\ ~BeginFinish /\ ~WriteTable /\ ~WriteXml
        /\ ~Checkpoint /\ ~WriteIntegrity /\ ~WriteHeader /\ ~Cut /\ ~Sync /\ ~Close /\ ~Rename
    BY DEF Active, OpenOut, Mark, WriteBlob, BeginFinish, WriteTable, WriteXml,
       Checkpoint, WriteIntegrity, WriteHeader, Cut, Sync, Close, Rename
  <1>2. ~OpenOutFails /\ ~Fails /\ ~Truncate /\ ~RestoreHdr /\ ~Unlink /\ ~Kill
    BY DEF Active, Writing, OpenOutFails, Fails, Truncate, RestoreHdr, Unlink, Kill
  <1> QED
    BY <1>1, <1>2 DEF Next, Calls

LEMMA NextKeepsOld ==
  ASSUME IInv, PathsOK, OldOK, [Next]_vars
  PROVE  OldOK'
  <1>1. CASE Active
    BY <1>1, ActiveKeepsOld
  <1>2. CASE UNCHANGED vars
    BY <1>2 DEF vars, OldOK, Untouched, Active, Appending, OldResourcesLieBefore, Old, Readable,
                InWim, AnyImagesChanged
  <1>3. CASE Open
    BY <1>3, OpenKeepsOld
  <1>4. CASE Calls
    BY <1>4, CallerKeepsOld DEF Calls
  <1>5. CASE OverwriteInPlace \/ OverwriteViaTmpfile
    BY <1>5, BeginKeepsOld
  <1> QED
    BY <1>1, <1>2, <1>3, <1>4, <1>5, IdleSteps

-----------------------------------------------------------------------------
(* What is still to be read.                                               *)

LEMMA BeginKeepsTodo ==
  IInv /\ OldOK /\ (OverwriteInPlace \/ OverwriteViaTmpfile) => TodoOK'
  <1> SUFFICES ASSUME IInv, OldOK, OverwriteInPlace \/ OverwriteViaTmpfile
               PROVE  TodoOK'
    OBVIOUS
  <1>1. /\ todo' \subseteq wim.blobs \cup wim.metas /\ written' = {}
        /\ mode' \in {"append", "xml"} => todo' = {b \in wim.blobs \cup wim.metas : b.at = 0}
        /\ mode' = "compact" => out' = FirstCell
        /\ UNCHANGED <<wim, file>> /\ stage = "call"
    BY DEF OverwriteInPlace, OverwriteViaTmpfile, Begin, Referenced
  <1>2. Readable
    BY <1>1 DEF OldOK, Untouched
  <1>3. \A b \in todo' : b.at # 0 => b \in InWim /\ b.at \in Cells
    BY <1>1 DEF InWim, IInv, TypeInv, WimOK, Placed
  <1>4. mode' = "xml" => todo' = {}
    <2> SUFFICES ASSUME mode' = "xml"
                 PROVE  todo' = {}
      OBVIOUS
    <2>1. ~AnyImagesChanged
      BY DEF OverwriteInPlace, OverwriteViaTmpfile, Begin
    <2>2. wim.blobs \cup wim.metas = RefsOf(file.wim) /\ BeginRead(file.wim)
      BY <1>1, <2>1 DEF OldOK, Untouched, Old
    <2>3. \A b \in wim.blobs \cup wim.metas : b.at # 0
      BY <2>2, RefsAreCells DEF IInv, TypeInv, FilesOK
    <2> QED
      BY <1>1, <2>3
  <1> QED
    BY <1>1, <1>2, <1>3, <1>4 DEF TodoOK, Readable

(* A compaction has not come to what it still reads: the next one to be    *)
(* written is the first of those in the file.                              *)
LEMMA NextIsFirst ==
  ASSUME IInv, TodoOK, stage = "blobs", mode = "compact", wim.read # Damaged,
         NEW b \in todo, \A a \in todo : ~Before(a, b),
         NEW a \in todo, a # b, a.at # 0
  PROVE  a.at > out
  <1>1. IsRef(a) /\ IsRef(b) /\ a.at \in Cells /\ (b.at = 0 \/ b.at \in Cells) /\ out \in Nat
    BY DEF IInv, TypeInv, OutputOK, Placed
  <1>2. Phase(a) = 1 /\ a.at >= out /\ file.wim.cells[a.at] = Blob(a.id)
    BY DEF Phase, TodoOK
  <1>3. CASE b.at = 0
    <2>1. Phase(b) \in {2, 3}
      BY <1>3 DEF Phase
    <2> QED
      BY <1>2, <2>1 DEF Before
  <1>4. CASE b.at # 0
    <2>1. Phase(b) = 1 /\ b.at >= out /\ file.wim.cells[b.at] = Blob(b.id)
      BY <1>4 DEF Phase, TodoOK
    <2>2. ~(a.at < b.at)
      BY <1>2, <2>1 DEF Before
    <2>3. a.at # b.at
      BY <1>1, <1>2, <2>1 DEF Blob, IsRef
    <2> QED
      BY <1>1, <1>2, <1>4, <2>1, <2>2, <2>3
  <1> QED
    BY <1>3, <1>4

LEMMA WriteBlobKeepsTodo == IInv /\ PathsOK /\ TodoOK /\ WriteBlob => TodoOK'
  <1> SUFFICES ASSUME IInv, PathsOK, TodoOK, WriteBlob
               PROVE  TodoOK'
    OBVIOUS
  <1>1. PICK b \in todo :
          /\ \A a \in todo : ~Before(a, b)
          /\ IF mode = "compact" /\ b.at = out THEN UNCHANGED file /\ out' = out + 1
             ELSE Put(IF b.at = 0 THEN Blob(b.id) ELSE file.wim.cells[b.at])
          /\ todo' = todo \ {b}
    BY DEF WriteBlob
  <1>2. stage = "blobs" /\ stage' = "blobs" /\ UNCHANGED <<wim, mode>>
    BY DEF WriteBlob, Goto
  <1>3. out' = out + 1 /\ out \in Nat /\ mode \in {"none", "append", "xml", "compact", "tmp"}
    BY <1>1 DEF Put, IInv, TypeInv, OutputOK, StagesOK
  <1>4. mode = "tmp" => file'.wim = file.wim
    BY <1>1, PutEffect DEF IInv, TypeInv
  <1>5. mode = "compact" =>
          \A c \in Cells \ {out} : file'.wim.cells[c] = file.wim.cells[c]
    <2>1. mode = "compact" => Path = "wim"
      BY DEF Path
    <2> QED
      BY <1>1, <2>1, PutEffect DEF IInv, TypeInv
  <1>6. ASSUME wim.read # Damaged, NEW a \in todo', a.at # 0
        PROVE  file'.wim.cells[a.at] = Blob(a.id) /\ (mode = "compact" => a.at >= out')
    <2>1. a \in todo /\ a # b /\ a.at \in Cells
      BY <1>1, <1>6 DEF IInv, TypeInv, OutputOK, Placed
    <2>2. mode \in {"tmp", "compact"}
      BY <1>2, <1>3, <1>6, <2>1 DEF TodoOK, PathsOK, Active
    <2>3. file.wim.cells[a.at] = Blob(a.id)
      BY <1>2, <1>6, <2>1 DEF TodoOK
    <2>4. CASE mode = "tmp"
      BY <1>4, <2>3, <2>4
    <2>5. CASE mode = "compact"
      <3>1. a.at > out
        BY <1>1, <1>2, <1>6, <2>1, <2>5, NextIsFirst
      <3> QED
        BY <1>3, <1>5, <2>1, <2>3, <2>5, <3>1
    <2> QED
      BY <2>2, <2>4, <2>5
  <1> QED
    BY <1>1, <1>2, <1>6 DEF TodoOK

(* On the way to the blobs nothing but the mark is written. *)
LEMMA OnlyMarkBefore ==
  ASSUME Active, [Next]_vars, ~WriteBlob, stage' \in {"openout", "mark", "blobs"}
  PROVE  /\ stage \in {"openout", "mark", "blobs"} /\ UNCHANGED <<todo, written, out, wim, mode>>
         /\ UNCHANGED file \/ Mark
         /\ stage' # "blobs" => stage # "blobs"
  <1>1. /\ ~BeginFinish /\ ~WriteTable /\ ~WriteXml /\ ~Checkpoint /\ ~WriteIntegrity
        /\ ~WriteHeader /\ ~Cut /\ ~Sync /\ ~Close /\ ~Rename
    BY DEF BeginFinish, WriteTable, WriteXml, Checkpoint, WriteIntegrity, WriteHeader, Cut,
           Sync, Close, Rename, Goto, Ending, Return
  <1>2. ~OpenOutFails /\ ~Fails /\ ~Truncate /\ ~RestoreHdr /\ ~Unlink /\ ~Kill
    BY DEF OpenOutFails, Fails, Truncate, RestoreHdr, Unlink, Kill, Leave, Return
  <1>3. ~Open /\ ~Calls /\ ~OverwriteInPlace /\ ~OverwriteViaTmpfile
    BY DEF Active, Open, Calls, PatchAll, Refuse, Call, SetImageProperty, UpdateImage,
           DeleteImage, OverwriteInPlace, OverwriteViaTmpfile
  <1>4. OpenOut \/ Mark \/ UNCHANGED vars
    BY <1>1, <1>2, <1>3 DEF Next, Calls
  <1> QED
    BY <1>4 DEF OpenOut, Mark, Goto, vars

LEMMA NextKeepsTodo ==
  ASSUME IInv, PathsOK, OldOK, TodoOK, [Next]_vars
  PROVE  TodoOK'
  <1>1. CASE stage' \notin {"openout", "mark", "blobs"}
    BY <1>1 DEF TodoOK
  <1>2. CASE ~Active
    <2>1. CASE UNCHANGED vars
      BY <2>1 DEF vars, TodoOK
    <2>2. CASE Open \/ Calls
      BY <1>1, <2>2 DEF Open, Calls, PatchAll, Refuse, Return, Call, SetImageProperty, UpdateImage,
                        DeleteImage
    <2> QED
      BY <1>2, <2>1, <2>2, IdleSteps, BeginKeepsTodo
  <1>3. CASE WriteBlob
    BY <1>3, WriteBlobKeepsTodo
  <1>4. CASE Active /\ ~WriteBlob /\ stage' \in {"openout", "mark", "blobs"}
    <2>1. /\ stage \in {"openout", "mark", "blobs"} /\ UNCHANGED <<todo, written, out, wim, mode>>
          /\ UNCHANGED file \/ Mark
          /\ stage' # "blobs" => stage # "blobs"
      BY <1>4, OnlyMarkBefore
    <2>2. file'.wim.cells = file.wim.cells
      <3>1. CASE Mark
        <4>1. PICK h : file' = [file EXCEPT ![Path].hdr = h]
          BY <3>1, HeaderSteps
        <4> QED
          BY <4>1, HdrEffect DEF Path, IInv, TypeInv
      <3> QED
        BY <2>1, <3>1
    <2> QED
      BY <2>1, <2>2 DEF TodoOK
  <1> QED
    BY <1>1, <1>2, <1>3, <1>4

-----------------------------------------------------------------------------
(* The new contents: what is written stays until the header points to it.  *)

BeforeOutKept ==
    /\ UNCHANGED <<wim, mode, xmlLen>> /\ out <= out'
    /\ \A c \in Cells : c < out => file'[Path].cells[c] = file[Path].cells[c]

LEMMA PathKept == UNCHANGED mode => Path' = Path
  BY DEF Path

LEMMA ListKept ==
  ASSUME NewList, UNCHANGED <<wim, mode, todo, written>>, outHdr'.count = outHdr.count
  PROVE  NewList' /\ Entries' = Entries
  <1>1. Entries' = Entries /\ Wanted' = Wanted
    BY DEF Entries, InWim, Wanted, BlobsInOutput, Referenced
  <1>2. Metas(Entries' \cup todo') = Metas(Entries \cup todo)
        /\ Ids(Entries' \cup todo') = Ids(Entries \cup todo)
        /\ NoneTwice(Entries', todo')
    BY <1>1 DEF NewList
  <1> QED
    BY <1>1, <1>2 DEF NewList

LEMMA EntriesKept ==
  ASSUME IInv, NewEntries, BeforeOutKept, Entries' = Entries, out' \in Nat
  PROVE  NewEntries'
  <1>1. Path' = Path /\ out \in Nat
    BY PathKept DEF BeforeOutKept, IInv, TypeInv, OutputOK
  <1> QED
    BY <1>1 DEF NewEntries, BeforeOutKept

LEMMA TableKept ==
  ASSUME IInv, NewTable, BeforeOutKept, Entries' = Entries, out' \in Nat,
         outHdr'.table = outHdr.table
  PROVE  NewTable'
  <1>1. Path' = Path /\ out \in Nat
    BY PathKept DEF BeforeOutKept, IInv, TypeInv, OutputOK
  <1> QED
    BY <1>1 DEF NewTable, BeforeOutKept

LEMMA XmlKept ==
  ASSUME IInv, NewXml, BeforeOutKept, out' \in Nat, outHdr'.xml = outHdr.xml
  PROVE  NewXml'
  <1>1. Path' = Path /\ out \in 1..(Size + 1) /\ xmlLen \in Nat /\ wim' = wim /\ xmlLen' = xmlLen
        /\ out <= out'
    BY PathKept DEF BeforeOutKept, IInv, TypeInv, OutputOK, XmlOK
  <1>2. PICK a \in Nat, n \in Nat, o \in Nat :
          a = outHdr.xml.at /\ n = xmlLen /\ o = out /\ a >= 1 /\ a + n <= o /\ o <= Size + 1
    <2>1. outHdr.xml \in ResHdrs /\ outHdr.xml # Nowhere /\ outHdr.xml.at + xmlLen <= out
      BY DEF NewXml, IInv, TypeInv, OutputOK, Headers
    <2>2. outHdr.xml.at \in Cells
      BY <2>1, EndOfResHdr
    <2> QED
      BY <1>1, <2>1, <2>2
  <1>3. ASSUME NEW i \in 1..n
        PROVE  file'[Path].cells[a + i - 1] = Xml(wim.doc, n, i)
    <2>1. a + i - 1 \in Cells /\ a + i - 1 < o
      BY <1>2, <1>3
    <2>2. file[Path].cells[a + i - 1] = Xml(wim.doc, n, i)
      BY <1>2, <1>3 DEF NewXml
    <2> QED
      BY <1>2, <2>1, <2>2 DEF BeforeOutKept
  <1>4. outHdr'.xml # Nowhere /\ outHdr'.xml.len = xmlLen' /\ outHdr'.xml.at + xmlLen' <= out'
    <2>1. outHdr.xml # Nowhere /\ outHdr.xml.len = xmlLen
      BY DEF NewXml
    <2> QED
      BY <1>1, <1>2, <2>1
  <1> QED
    BY <1>1, <1>2, <1>3, <1>4 DEF NewXml

(* The choice of what to write, and where its entries come from.           *)
LEMMA BeginKeepsNew ==
  ASSUME IInv, IInv', ImagesOK, OldOK, OverwriteInPlace \/ OverwriteViaTmpfile
  PROVE  NewOK'
  <1>1. /\ stage = "call" /\ stage' = "openout" /\ written' = {} /\ UNCHANGED <<wim, file>>
        /\ oldEnd' = out'
        /\ mode' \in {"append", "xml", "compact", "tmp"}
        /\ mode' \in {"append", "xml"} => todo' = {b \in wim.blobs \cup wim.metas : b.at = 0}
        /\ mode' \in {"compact", "tmp"} => todo' = wim.metas \cup Referenced
        /\ mode' # "tmp" => outHdr' = wim.hdr
        /\ mode' = "xml" => ~AnyImagesChanged
        /\ outHdr'.count = wim.hdr.count
    BY DEF OverwriteInPlace, OverwriteViaTmpfile, Begin, NoHeader
  <1>2. Readable /\ Old /\ (~AnyImagesChanged => wim.blobs \cup wim.metas = RefsOf(file.wim))
    BY <1>1 DEF OldOK, Untouched
  <1>3. Entries' \cup todo' = BlobsInOutput'
    BY <1>1 DEF Entries, InWim, BlobsInOutput, Referenced
  <1>4. Metas(Entries' \cup todo') = wim.metas
    BY <1>1, <1>3 DEF Metas, BlobsInOutput, Referenced, ImagesOK
  <1>5. NoneTwice(Entries', todo')
    <2> SUFFICES ASSUME NEW r \in Entries', NEW b \in todo', IsMeta(r.id), IsMeta(b.id)
                 PROVE  ImageOf(r.id) # ImageOf(b.id)
      BY DEF NoneTwice
    <2>1. r \in wim.metas /\ b \in wim.metas /\ r # b
      BY <1>1 DEF Entries, InWim, ImagesOK, Referenced
    <2> QED
      BY <2>1 DEF ImagesOK, OneForEach
  <1>6. NewList'
    <2>1. Ids(Entries' \cup todo') = Wanted'.ids
      BY <1>3 DEF Ids, Wanted
    <2> QED
      BY <1>1, <1>4, <1>5, <2>1 DEF NewList, ImagesOK
  <1>7. ASSUME mode' \in {"append", "xml"}
        PROVE  /\ NewEntries' /\ Path' = "wim"
               /\ wim.hdr.table.at \in Cells /\ wim.hdr.table.at < out'
    <2>1. Entries' = InWim /\ Path' = "wim"
      BY <1>1, <1>7 DEF Entries, InWim, Path
    <2>2. \A c \in KeptCells' : c < oldEnd'
      BY <1>1, <1>7 DEF IInv, KeepInv, Active
    <2>3. \A c \in KeptCells : c < out'
      BY <1>1, <2>2 DEF KeptCells, InWim
    <2>4. wim.hdr.table # Nowhere
      BY <1>1 DEF IInv, KeepInv
    <2>5. \A c \in KeptCells : c \in Cells
      BY <2>4, KeptAreCells DEF IInv, TypeInv
    <2> QED
      BY <1>1, <1>2, <2>1, <2>3, <2>5 DEF KeptCells, NewEntries, Readable
  <1>8. NewEntries'
    <2>1. mode' \in {"compact", "tmp"} => Entries' = {}
      BY <1>1 DEF Entries
    <2> QED
      BY <1>1, <1>7, <2>1 DEF NewEntries
  <1>9. ASSUME mode' = "xml"
        PROVE  NewTable'
    <2>1. wim.blobs \cup wim.metas = RefsOf(file.wim) /\ HasTable(file.wim)
          /\ file.wim.hdr.table = wim.hdr.table /\ BeginRead(file.wim)
      BY <1>1, <1>2, <1>9 DEF Old, BeginRead
    <2>2. \A b \in wim.blobs \cup wim.metas : b.at # 0
      BY <2>1, RefsAreCells DEF IInv, TypeInv, FilesOK
    <2>3. Entries' = RefsOf(file.wim)
      BY <1>1, <1>9, <2>1, <2>2 DEF Entries, InWim
    <2>4. outHdr'.table = wim.hdr.table /\ wim.hdr.table # Nowhere
      BY <1>1, <1>9, <2>1 DEF HasTable
    <2> QED
      BY <1>1, <1>7, <1>9, <2>1, <2>3, <2>4 DEF NewTable, HasTable, RefsOf
  <1> QED
    BY <1>1, <1>6, <1>8, <1>9 DEF NewOK, Going, WithTable, WithXml, WithHeader, BeforeTable

(* A step that goes on without an entry, a table or XML data of its own.   *)
LEMMA GoesOn ==
  ASSUME IInv, NewOK, stage \in Going, BeforeOutKept, out' \in Nat,
         UNCHANGED <<todo, written>>,
         outHdr'.count = outHdr.count, outHdr'.table = outHdr.table, outHdr'.xml = outHdr.xml,
         stage' \in {"openout", "mark", "blobs"} => stage \in {"openout", "mark", "blobs"},
         stage' \in {"table", "xml"} => stage = "blobs" /\ todo = {},
         stage' = "table" => mode # "xml",
         stage' = "xml" => mode = "xml" /\ part' = 1,
         stage' \in WithXml => stage \in WithXml,
         stage' \in WithHeader => NewHeader',
         stage' \in Going \ (WithHeader \cup {"openout", "mark"}) /\ mode # "tmp"
            => file'.wim.hdr.inProgress
  PROVE  NewOK'
  <1> USE DEF BeforeTable, WithTable, WithXml, WithHeader, Going
  <1>1. NewList' /\ Entries' = Entries
    BY ListKept DEF BeforeOutKept, NewOK
  <1>2. NewEntries'
    BY <1>1, EntriesKept DEF NewOK
  <1>3. stage' \in Going \ {"openout", "mark", "blobs"} => todo' = {}
    BY DEF NewOK
  <1>4. stage' \in Going /\ (stage' \in WithTable \/ mode' = "xml") => NewTable'
    <2> SUFFICES ASSUME stage' \in Going, stage' \in WithTable \/ mode' = "xml"
                 PROVE  NewTable'
      OBVIOUS
    <2>1. NewTable
      BY DEF NewOK, BeforeOutKept
    <2> QED
      BY <1>1, <2>1, TableKept
  <1>5. stage' = "xml" => NewXmlPart'
    BY DEF NewXmlPart
  <1>6. stage' \in WithXml => NewXml'
    BY XmlKept DEF NewOK
  <1> QED
    BY <1>1, <1>2, <1>3, <1>4, <1>5, <1>6 DEF NewOK, BeforeOutKept

LEMMA QuietKeepsNew ==
  ASSUME IInv, IInv', NewOK, stage \in Going,
         OpenOut \/ BeginFinish \/ Sync \/ (Close /\ mode = "tmp")
  PROVE  NewOK'
  <1>1. BeforeOutKept /\ UNCHANGED <<todo, written, outHdr, file, wim, mode, part>> /\ out' \in Nat
    BY DEF BeforeOutKept, Path, OpenOut, BeginFinish, Sync, Close, Goto, IInv, TypeInv, OutputOK
  <1>2. CASE OpenOut
    <2>1. stage = "openout" /\ stage' = "mark"
      BY <1>2 DEF OpenOut, Goto
    <2> QED
      BY <1>1, <2>1, GoesOn DEF WithXml, WithTable, WithHeader
  <1>3. CASE BeginFinish
    <2>1. stage = "blobs" /\ todo = {} /\ stage' = (IF mode = "xml" THEN "xml" ELSE "table")
      BY <1>3 DEF BeginFinish, Goto
    <2>2. part' = 1
      BY <1>1, <2>1 DEF IInv, TypeInv, XmlOK
    <2>3. mode # "tmp" => file'.wim.hdr.inProgress
      BY <1>1, <2>1 DEF NewOK, WithHeader
    <2> QED
      BY <1>1, <2>1, <2>2, <2>3, GoesOn DEF WithXml, WithTable, WithHeader
  <1>4. CASE Sync \/ (Close /\ mode = "tmp")
    <2>1. stage \in {"sync", "close"} /\ stage' \in {"close", "rename"}
      BY <1>4 DEF Sync, Close, Goto
    <2>2. NewHeader'
      BY <1>1, <2>1 DEF NewOK, NewHeader, WithHeader, Path
    <2> QED
      BY <1>1, <2>1, <2>2, GoesOn DEF WithXml, WithTable, WithHeader
  <1> QED
    BY <1>2, <1>3, <1>4

LEMMA HeaderKeepsNew ==
  ASSUME IInv, IInv', PathsOK, NewOK, stage \in Going, Mark \/ Checkpoint \/ WriteHeader \/ Cut
  PROVE  NewOK'
  <1>1. UNCHANGED <<todo, written, wim, mode, xmlLen, out, part>> /\ out' \in Nat /\ Path' = Path
        /\ Path \in {"wim", "tmp"} /\ (mode = "tmp" <=> Path = "tmp") /\ out <= out'
    BY DEF Mark, Checkpoint, WriteHeader, Cut, Goto, IInv, TypeInv, OutputOK, Path
  <1>2. CASE Mark
    <2>1. PICK h : file' = [file EXCEPT ![Path].hdr = h] /\ h.inProgress
      BY <1>2, HeaderSteps
    <2>2. file'[Path].cells = file[Path].cells /\ file'[Path].hdr = h
      BY <1>1, <2>1, HdrEffect DEF IInv, TypeInv
    <2>3. BeforeOutKept
      BY <1>1, <2>2 DEF BeforeOutKept
    <2>4. mode # "tmp" => file'.wim.hdr.inProgress
      BY <1>1, <2>1, <2>2
    <2>5. stage = "mark" /\ stage' = "blobs" /\ outHdr' = outHdr
      BY <1>2 DEF Mark, Goto
    <2> QED
      BY <1>1, <2>3, <2>4, <2>5, GoesOn DEF WithXml, WithTable, WithHeader
  <1>3. CASE Checkpoint
    <2>1. PICK h : file' = [file EXCEPT !["wim"].hdr = h] /\ h.inProgress
      BY <1>3, HeaderSteps
    <2>2. stage = "checkpoint" /\ stage' = "integrity" /\ outHdr' = outHdr
      BY <1>3 DEF Checkpoint, Goto
    <2>3. Path = "wim"
      BY <2>2 DEF PathsOK, Path
    <2>4. file'.wim.cells = file.wim.cells /\ file'.wim.hdr = h
      BY <2>1, HdrEffect DEF IInv, TypeInv
    <2>5. BeforeOutKept
      BY <1>1, <2>3, <2>4 DEF BeforeOutKept
    <2> QED
      BY <1>1, <2>1, <2>2, <2>4, <2>5, GoesOn DEF WithXml, WithTable, WithHeader
  <1>4. CASE WriteHeader
    <2>1. file' = [file EXCEPT ![Path].hdr = outHdr'] /\ ~outHdr'.inProgress
      BY <1>4, HeaderSteps
    <2>2. file'[Path].cells = file[Path].cells /\ file'[Path].hdr = outHdr'
      BY <1>1, <2>1, HdrEffect DEF IInv, TypeInv
    <2>3. BeforeOutKept /\ NewHeader'
      BY <1>1, <2>1, <2>2 DEF BeforeOutKept, NewHeader
    <2>4. stage = "header" /\ stage' \in {"cut", "sync", "close"}
      BY <1>4 DEF WriteHeader, Goto, Ending
    <2>5. outHdr'.count = outHdr.count /\ outHdr'.table = outHdr.table /\ outHdr'.xml = outHdr.xml
      BY <1>4 DEF WriteHeader, IInv, TypeInv, OutputOK, Headers
    <2> QED
      BY <1>1, <2>3, <2>4, <2>5, GoesOn DEF WithXml, WithTable, WithHeader
  <1>5. CASE Cut
    <2>1. stage = "cut" /\ stage' \in {"sync", "close"} /\ outHdr' = outHdr
          /\ file' = [file EXCEPT !.wim = CutAt(@, out)]
      BY <1>5 DEF Cut, Goto, Ending
    <2>2. Path = "wim" /\ out \in Nat
      BY <2>1 DEF IInv, TypeInv, KeepInv, Path, OutputOK
    <2>3. file'.wim.hdr = file.wim.hdr /\ \A c \in Cells : c < out => file'.wim.cells[c] = file.wim.cells[c]
      BY <2>1, <2>2, CutEffect DEF IInv, TypeInv
    <2>4. BeforeOutKept /\ NewHeader'
      BY <1>1, <2>1, <2>2, <2>3 DEF BeforeOutKept, NewHeader, NewOK, WithHeader
    <2> QED
      BY <1>1, <2>1, <2>4, GoesOn DEF WithXml, WithTable, WithHeader
  <1> QED
    BY <1>2, <1>3, <1>4, <1>5

(* A step that writes a cell at the offset keeps what lies before it.      *)
LEMMA PutKeepsBefore ==
  ASSUME IInv, NEW cell, Put(cell), UNCHANGED <<wim, mode, xmlLen>>
  PROVE  /\ BeforeOutKept /\ out' = out + 1 /\ out' \in Nat /\ out \in Cells /\ Path' = Path
         /\ file'[Path].cells[out] = cell /\ file'[Path].hdr = file[Path].hdr
         /\ mode # "tmp" => file'.wim.hdr = file.wim.hdr
  <1>1. out \in Cells /\ out' = out + 1 /\ Path' = Path /\ (mode # "tmp" => Path = "wim")
    BY DEF Put, Path
  <1>2. /\ file'[Path].cells[out] = cell /\ file'[Path].hdr = file[Path].hdr
        /\ \A c \in Cells \ {out} : file'[Path].cells[c] = file[Path].cells[c]
    BY PutEffect DEF IInv, TypeInv
  <1> QED
    BY <1>1, <1>2 DEF BeforeOutKept

LEMMA WriteBlobKeepsNew ==
  ASSUME IInv, IInv', PathsOK, TodoOK, NewOK, WriteBlob
  PROVE  NewOK'
  <1>1. PICK b \in todo :
          /\ IF mode = "compact" /\ b.at = out THEN UNCHANGED file /\ out' = out + 1
             ELSE Put(IF b.at = 0 THEN Blob(b.id) ELSE file.wim.cells[b.at])
          /\ todo' = todo \ {b}
          /\ written' = written \cup {[id |-> b.id, at |-> out]}
    BY DEF WriteBlob
  <1>2. stage = "blobs" /\ stage' = "blobs" /\ UNCHANGED <<wim, mode, xmlLen, part, outHdr>>
    BY DEF WriteBlob, Goto
  <1>3. PICK r : r = [id |-> b.id, at |-> out]
    OBVIOUS
  <1>4. r.id = b.id /\ r.at = out /\ written' = written \cup {r}
    BY <1>1, <1>3
  <1>5. Entries' = Entries \cup {r}
    BY <1>2, <1>4 DEF Entries, InWim
  <1>6. mode # "xml" /\ NewList /\ NewEntries
    BY <1>1, <1>2 DEF TodoOK, NewOK, Going, BeforeTable
  <1>7. NewList'
    <2>1. /\ Ids(Entries' \cup todo') = Ids(Entries \cup todo)
          /\ OneForEach(Metas(Entries' \cup todo'), DOMAIN wim.doc) /\ NoneTwice(Entries', todo')
      <3>1. PICK done, left : done = Entries /\ left = todo
        OBVIOUS
      <3>2. b \in left /\ OneForEach(Metas(done \cup left), DOMAIN wim.doc) /\ NoneTwice(done, left)
        BY <1>6, <3>1 DEF NewList
      <3>3. LET d == done \cup {r}
                l == left \ {b} IN
            /\ Ids(d \cup l) = Ids(done \cup left)
            /\ OneForEach(Metas(d \cup l), DOMAIN wim.doc) /\ NoneTwice(d, l)
        BY <1>4, <3>2, ListStep
      <3> QED
        BY <1>1, <1>5, <3>1, <3>3
    <2>2. Wanted' = Wanted
      BY <1>2 DEF Wanted, BlobsInOutput, Referenced
    <2> QED
      BY <1>2, <1>6, <2>1, <2>2 DEF NewList
  <1>8. wim.read # Damaged /\ b.at # 0 => file.wim.cells[b.at] = Blob(b.id)
    BY <1>1, <1>2 DEF TodoOK
  <1>9. /\ BeforeOutKept /\ out \in Cells /\ out' = out + 1 /\ out' \in Nat /\ Path' = Path
        /\ wim.read # Damaged => file'[Path].cells[out] = Blob(r.id)
        /\ mode # "tmp" => file'.wim.hdr = file.wim.hdr
    <2>1. CASE mode = "compact" /\ b.at = out
      <3>1. UNCHANGED file /\ out' = out + 1 /\ Path = "wim" /\ Path' = "wim"
        BY <1>1, <1>2, <2>1 DEF Path
      <3>2. out' \in 1..(Size + 1) /\ out \in 1..(Size + 1)
        BY DEF IInv, TypeInv, OutputOK
      <3> QED
        BY <1>2, <1>4, <1>8, <2>1, <3>1, <3>2 DEF BeforeOutKept
    <2>2. CASE ~(mode = "compact" /\ b.at = out)
      <3>1. PICK cell : cell = (IF b.at = 0 THEN Blob(b.id) ELSE file.wim.cells[b.at]) /\ Put(cell)
        BY <1>1, <2>2
      <3>2. wim.read # Damaged => cell = Blob(r.id)
        BY <1>4, <1>8, <3>1
      <3> QED
        BY <1>2, <3>1, <3>2, PutKeepsBefore
    <2> QED
      BY <2>1, <2>2
  <1>10. NewEntries'
    <2> SUFFICES ASSUME NEW e \in Entries'
                 PROVE  /\ e.at \in Cells /\ e.at < out'
                        /\ wim'.read # Damaged => file'[Path].cells[e.at] = Blob(e.id)
      BY <1>9 DEF NewEntries
    <2>1. CASE e \in Entries
      BY <1>2, <1>6, <1>9, <2>1 DEF NewEntries, BeforeOutKept
    <2>2. CASE e = r
      BY <1>2, <1>4, <1>9, <2>2
    <2> QED
      BY <1>5, <2>1, <2>2
  <1>11. mode # "tmp" => file'.wim.hdr.inProgress
    BY <1>2, <1>9 DEF NewOK, Going, BeforeTable, WithHeader
  <1> QED
    BY <1>2, <1>6, <1>7, <1>10, <1>11 DEF NewOK, Going, BeforeTable, WithTable, WithXml, WithHeader

LEMMA WriteTableKeepsNew ==
  ASSUME IInv, IInv', PathsOK, NewOK, WriteTable
  PROVE  NewOK'
  <1> USE DEF BeforeTable, WithTable, WithXml, WithHeader, Going
  <1>1. /\ stage = "table" /\ stage' = "xml" /\ mode # "xml"
        /\ UNCHANGED <<wim, mode, xmlLen, todo, written, part>>
    BY DEF WriteTable, Goto, PathsOK
  <1>2. Put(Table(Entries)) /\ outHdr' = [outHdr EXCEPT !.table = At(out, 1)]
    BY <1>1 DEF WriteTable, Entries
  <1>3. /\ BeforeOutKept /\ out' = out + 1 /\ out' \in Nat /\ out \in Cells /\ Path' = Path
        /\ file'[Path].cells[out] = Table(Entries)
        /\ mode # "tmp" => file'.wim.hdr = file.wim.hdr
    BY <1>1, <1>2, PutKeepsBefore
  <1>4. outHdr'.table = At(out, 1) /\ outHdr'.count = outHdr.count
    BY <1>2 DEF IInv, TypeInv, OutputOK, Headers
  <1>5. NewList' /\ Entries' = Entries
    BY <1>1, <1>4, ListKept DEF NewOK
  <1>6. NewEntries'
    BY <1>1, <1>3, <1>5, EntriesKept DEF NewOK
  <1>7. NewTable'
    <2>1. outHdr'.table.at = out /\ outHdr'.table # Nowhere
      BY <1>3, <1>4 DEF At, Nowhere
    <2>2. Table(Entries).is = "table" /\ Table(Entries).refs = Entries
      BY DEF Table
    <2> QED
      BY <1>3, <1>5, <2>1, <2>2 DEF NewTable
  <1>8. NewXmlPart'
    BY <1>1 DEF NewXmlPart, IInv, TypeInv, XmlOK
  <1>9. mode # "tmp" => file'.wim.hdr.inProgress
    BY <1>1, <1>3 DEF NewOK
  <1> QED
    BY <1>1, <1>5, <1>6, <1>7, <1>8, <1>9 DEF NewOK

LEMMA WriteIntegrityKeepsNew ==
  ASSUME IInv, IInv', PathsOK, NewOK, WriteIntegrity
  PROVE  NewOK'
  <1>1. /\ stage = "integrity" /\ stage' = "header"
        /\ UNCHANGED <<wim, mode, xmlLen, todo, written, part>>
    BY DEF WriteIntegrity, Goto
  <1>2. PICK cell : Put(cell) /\ outHdr' = [outHdr EXCEPT !.integrity = At(out, 1)]
    BY DEF WriteIntegrity
  <1>3. BeforeOutKept /\ out' \in Nat /\ (mode # "tmp" => file'.wim.hdr = file.wim.hdr)
    BY <1>1, <1>2, PutKeepsBefore
  <1>4. outHdr'.table = outHdr.table /\ outHdr'.count = outHdr.count /\ outHdr'.xml = outHdr.xml
    BY <1>2 DEF IInv, TypeInv, OutputOK, Headers
  <1>5. mode # "tmp" => file'.wim.hdr.inProgress
    BY <1>1, <1>3 DEF NewOK, Going, WithTable, WithHeader
  <1> QED
    BY <1>1, <1>3, <1>4, <1>5, GoesOn DEF Going, WithXml, WithTable, WithHeader

LEMMA WriteXmlKeepsNew ==
  ASSUME IInv, IInv', PathsOK, NewOK, WriteXml
  PROVE  NewOK'
  <1> USE DEF BeforeTable, WithTable, WithXml, WithHeader, Going
  <1>1. /\ stage = "xml" /\ UNCHANGED <<wim, mode, xmlLen, todo, written>>
        /\ Put(Xml(wim.doc, xmlLen, part))
    BY DEF WriteXml, Goto
  <1>2. /\ BeforeOutKept /\ out' = out + 1 /\ out' \in Nat /\ out \in Cells /\ Path' = Path
        /\ file'[Path].cells[out] = Xml(wim.doc, xmlLen, part)
        /\ mode # "tmp" => file'.wim.hdr = file.wim.hdr
    BY <1>1, PutKeepsBefore
  <1>3. PICK o \in Nat, p \in Nat, n \in Nat :
          o = out /\ p = part /\ n = xmlLen /\ 1 <= p /\ p <= n /\ p <= o /\ o <= Size
    BY <1>1, <1>2 DEF IInv, TypeInv, XmlOK
  <1>4. ASSUME NEW i \in 1..p
        PROVE  file'[Path].cells[o - p + i] = Xml(wim.doc, n, i)
    <2>1. CASE i = p
      <3>1. o - p + i = o
        BY <2>1, <1>3
      <3> QED
        BY <1>2, <1>3, <2>1, <3>1
    <2>2. CASE i # p
      <3>1. i \in 1..(p - 1) /\ o - p + i \in Cells /\ o - p + i < o
        BY <1>3, <1>4, <2>2
      <3>2. file[Path].cells[o - p + i] = Xml(wim.doc, n, i)
        BY <1>1, <1>3, <3>1 DEF NewOK, NewXmlPart
      <3> QED
        BY <1>2, <1>3, <3>1, <3>2 DEF BeforeOutKept
    <2> QED
      BY <2>1, <2>2
  <1>5. outHdr'.count = outHdr.count /\ outHdr'.table = outHdr.table
    BY DEF WriteXml, IInv, TypeInv, OutputOK, Headers
  <1>6. NewList' /\ Entries' = Entries
    BY <1>1, <1>5, ListKept DEF NewOK
  <1>7. NewEntries'
    BY <1>1, <1>2, <1>6, EntriesKept DEF NewOK
  <1>8. NewTable'
    BY <1>1, <1>2, <1>5, <1>6, TableKept DEF NewOK
  <1>9. mode # "tmp" => file'.wim.hdr.inProgress
    BY <1>1, <1>2 DEF NewOK
  <1>10. CASE part < xmlLen
    <2>1. stage' = "xml" /\ part' = part + 1
      BY <1>10 DEF WriteXml, Goto
    <2>2. NewXmlPart'
      <3> SUFFICES ASSUME NEW i \in 1..(part' - 1)
                   PROVE  file'[Path'].cells[out' - part' + i] = Xml(wim'.doc, xmlLen', i)
        BY DEF NewXmlPart
      <3>1. i \in 1..p /\ out' - part' + i = o - p + i
        BY <1>2, <1>3, <2>1
      <3> QED
        BY <1>1, <1>2, <1>3, <1>4, <3>1
    <2> QED
      BY <1>1, <1>6, <1>7, <1>8, <1>9, <2>1, <2>2 DEF NewOK
  <1>11. CASE ~(part < xmlLen)
    <2>1. stage' \in {"checkpoint", "integrity", "header"}
          /\ outHdr'.xml = At(out - xmlLen + 1, xmlLen)
      BY <1>11 DEF WriteXml, Goto, IInv, TypeInv, OutputOK, Headers
    <2>2. p = n /\ outHdr'.xml.at = o - n + 1 /\ outHdr'.xml.len = n
      BY <1>3, <1>11, <2>1 DEF At
    <2>3. NewXml'
      <3>1. \A i \in 1..n : o - p + i = (o - n + 1) + i - 1
        BY <1>3, <2>2
      <3>2. \A i \in 1..n : file'[Path].cells[(o - n + 1) + i - 1] = Xml(wim.doc, n, i)
        BY <1>4, <2>2, <3>1
      <3>3. outHdr'.xml # Nowhere /\ (o - n + 1) + n <= out'
        BY <1>2, <1>3, <2>2 DEF Nowhere
      <3> QED
        BY <1>1, <1>2, <1>3, <2>2, <3>2, <3>3 DEF NewXml
    <2> QED
      BY <1>1, <1>6, <1>7, <1>8, <1>9, <2>1, <2>3 DEF NewOK
  <1> QED
    BY <1>10, <1>11

LEMMA NextKeepsNew ==
  ASSUME IInv, IInv', ImagesOK, PathsOK, OldOK, TodoOK, NewOK, [Next]_vars
  PROVE  NewOK'
  <1>1. CASE stage' \notin Going
    BY <1>1 DEF NewOK, Going, WithXml, WithTable, WithHeader
  <1>2. CASE UNCHANGED vars
    BY <1>2 DEF vars, NewOK, NewList, NewEntries, NewTable, NewXmlPart, NewXml, NewHeader,
                Entries, Wanted, BlobsInOutput, Referenced, InWim, Path
  <1>3. CASE OverwriteInPlace \/ OverwriteViaTmpfile
    BY <1>3, BeginKeepsNew
  <1>4. CASE OpenOut \/ BeginFinish \/ Sync \/ Close
    <2>1. stage \in Going /\ (Close /\ mode # "tmp" => stage' \notin Going)
      BY <1>4 DEF OpenOut, BeginFinish, Sync, Close, Return, Going, BeforeTable, WithTable
    <2> QED
      BY <1>1, <1>4, <2>1, QuietKeepsNew
  <1>5. CASE Mark \/ Checkpoint \/ WriteHeader \/ Cut
    <2>1. stage \in Going
      BY <1>5 DEF Mark, Checkpoint, WriteHeader, Cut, Going, BeforeTable, WithTable
    <2> QED
      BY <1>5, <2>1, HeaderKeepsNew
  <1>6. CASE WriteBlob \/ WriteTable \/ WriteXml \/ WriteIntegrity
    BY <1>6, WriteBlobKeepsNew, WriteTableKeepsNew, WriteXmlKeepsNew, WriteIntegrityKeepsNew
  <1>7. CASE OpenOutFails \/ Fails \/ Truncate \/ RestoreHdr \/ Unlink \/ Kill \/ Rename
    <2>1. stage' \notin Going
      BY <1>7 DEF OpenOutFails, Fails, Truncate, RestoreHdr, Unlink, Kill, Rename, Leave, Return,
                  Going, BeforeTable, WithTable
    <2> QED
      BY <1>1, <2>1
  <1>8. CASE Open \/ Calls
    <2>1. stage' \notin Going
      BY <1>8 DEF Open, Calls, PatchAll, Refuse, Return, Call, SetImageProperty, UpdateImage,
                  DeleteImage, Going, BeforeTable, WithTable
    <2> QED
      BY <1>1, <2>1
  <1> QED
    BY <1>2, <1>3, <1>4, <1>5, <1>6, <1>7, <1>8 DEF Next, Calls

-----------------------------------------------------------------------------
(* What is left when wimlib_overwrite is over, in whatever way.            *)

(* Behind the header there are all of the new contents.                    *)
LEMMA WrittenIsWhole ==
  ASSUME IInv, ImagesOK, NewOK, stage \in WithHeader
  PROVE  LET f == file[Path] IN
         /\ DocOf(f) = wim.doc /\ ~f.hdr.inProgress
         /\ Contents(f) \in {wim.read, Wanted}
         /\ wim.read # Damaged => Contents(f) = Wanted
  <1>1. /\ NewList /\ todo = {} /\ NewEntries /\ NewTable /\ NewXml /\ NewHeader
    BY DEF NewOK, Going, BeforeTable, WithTable, WithXml, WithHeader
  <1>2. xmlLen \in Nat \ {0}
    <2>1. outHdr.xml \in ResHdrs /\ outHdr.xml # Nowhere /\ outHdr.xml.len = xmlLen
      BY <1>1 DEF NewXml, IInv, TypeInv, OutputOK, Headers
    <2> QED
      BY <2>1 DEF ResHdrs
  <1>3. PICK f : f = file[Path]
    OBVIOUS
  <1>4. f.hdr = outHdr /\ f.cells = file[Path].cells /\ ~f.hdr.inProgress
    BY <1>1, <1>3 DEF NewHeader
  <1>5. /\ DocOf(f) = wim.doc /\ Contents(f) \in {Wanted, Damaged}
        /\ wim.read # Damaged => Contents(f) = Wanted
    BY <1>1, <1>2, <1>4, NewIsWhole DEF IInv
  <1> QED
    BY <1>3, <1>4, <1>5

LEMMA AppendLeavesOld ==
  ASSUME IInv, PathsOK, OldOK, Active, mode = "append", [Next]_vars, ~WriteHeader,
         Untouched \/ stage \in {"blobs", "table", "xml", "integrity", "header"}
           \/ (stage \in {"truncate", "restore"} /\ "fsync" \notin flags),
         OldResourcesLieBefore
  PROVE  Old'
  <1>1. Old /\ End(wim.hdr.xml) <= oldEnd /\ UNCHANGED wim
    BY ActiveFixed DEF OldOK, Appending
  <1>2. ~Checkpoint
    BY DEF Checkpoint, PathsOK
  <1>3. /\ \A c \in Cells : c < oldEnd => file'.wim.cells[c] = file.wim.cells[c]
        /\ file'.wim.hdr.table = file.wim.hdr.table /\ file'.wim.hdr.xml = file.wim.hdr.xml
        /\ file'.wim.hdr.count = file.wim.hdr.count
    BY <1>2, InPlaceEffect
  <1> QED
    BY <1>1, <1>3, OldPersists

LEMMA SuccessIsClosed ==
  ASSUME IInv, ImagesOK, PathsOK, NewOK, (Close /\ mode # "tmp") \/ Rename
  PROVE  ClosedOK'
  <1>1. stage \in WithHeader /\ stage' = "closed" /\ UNCHANGED <<wim, mode>>
    BY DEF Close, Rename, Return, WithHeader
  <1>2. file'.wim = file[Path] /\ file'.tmp = NoFile
    <2>1. CASE Close /\ mode # "tmp"
      BY <2>1 DEF Close, Path, PathsOK
    <2>2. CASE Rename
      BY <2>2 DEF Rename, Path, PathsOK
    <2> QED
      BY <2>1, <2>2
  <1>3. Wanted' = Wanted
    BY <1>1 DEF Wanted, BlobsInOutput, Referenced
  <1>4. /\ DocOf(file'.wim) = wim.doc /\ ~file'.wim.hdr.inProgress
        /\ Contents(file'.wim) \in {wim.read, Wanted}
        /\ wim.read # Damaged => Contents(file'.wim) = Wanted
    BY <1>1, <1>2, WrittenIsWhole
  <1>5. Whole'
    BY <1>1, <1>3, <1>4 DEF Whole
  <1> QED
    BY <1>1, <1>2, <1>3, <1>4, <1>5 DEF ClosedOK

(* A failure or a death that leaves.                                       *)
LEMMA LeavingIsClosed ==
  ASSUME IInv, ImagesOK, PathsOK, OldOK, NewOK, Active, [Next]_vars, stage' = "closed",
         OpenOutFails \/ Fails \/ RestoreHdr \/ Unlink \/ Kill
  PROVE  ClosedOK'
  <1>1. UNCHANGED <<wim, mode, flags, oldEnd>> /\ ~WriteHeader /\ ret' # "success"
        /\ (ret' # "error" => Kill /\ ret # "error")
    BY ActiveFixed DEF OpenOutFails, Fails, RestoreHdr, Unlink, Kill, Leave, Return,
                       WriteHeader, Goto, Ending
  <1>2. Wanted' = Wanted
    BY <1>1 DEF Wanted, BlobsInOutput, Referenced
  <1>3. ASSUME Old'
        PROVE  Whole'
    BY <1>3 DEF Old, Whole
  <1>4. ASSUME UNCHANGED file, Old
        PROVE  Whole'
    BY <1>1, <1>4 DEF Old, Whole
  <1>5. ASSUME UNCHANGED file, stage \in WithHeader, mode # "tmp"
        PROVE  Whole'
    <2>1. Contents(file'.wim) \in {wim.read, Wanted}
      BY <1>5, WrittenIsWhole DEF Path
    <2> QED
      BY <1>1, <1>2, <2>1 DEF Whole
  <1>6. ASSUME mode = "tmp"
        PROVE  Whole'
    <2>1. file'.wim = file.wim /\ Old
      BY <1>6, TornEffect, UnlinkStep DEF OpenOutFails, Fails, RestoreHdr, Unlink, Kill, OldOK, IInv, TypeInv,
         PathsOK
    <2> QED
      BY <1>1, <2>1 DEF Old, Whole
  <1>7. stage \notin {"blobs", "table", "xml", "integrity"} /\ ~RestoreHdr /\ ~Unlink => UNCHANGED file
    BY DEF OpenOutFails, Fails, Kill, MaybeTorn, PutsNext
  <1>8. CASE mode # "tmp" /\ stage \in {"openout", "mark"}
    <2>1. UNCHANGED file /\ Old
      BY <1>7, <1>8 DEF RestoreHdr, Unlink, OldOK, Untouched
    <2> QED
      BY <1>1, <1>4, <1>8, <2>1 DEF ClosedOK
  <1>9. CASE mode # "tmp" /\ stage \in WithHeader
    <2>1. UNCHANGED file
      BY <1>7, <1>9 DEF RestoreHdr, Unlink, WithHeader, PathsOK
    <2> QED
      BY <1>1, <1>5, <1>9, <2>1 DEF ClosedOK
  <1>10. CASE mode # "tmp" /\ stage \notin {"openout", "mark"} \cup WithHeader
    <2>1. ASSUME mode = "append", OldResourcesLieBefore', "fsync" \notin flags
          PROVE  Whole'
      <3>1. OldResourcesLieBefore
        BY <2>1, LieBeforeKept
      <3>2. stage \in {"blobs", "table", "xml", "integrity", "header", "truncate", "restore"}
        BY <1>10, <2>1 DEF IInv, TypeInv, StagesOK, Stages, Writing, WithHeader, Active, PathsOK
      <3> QED
        BY <1>1, <1>3, <2>1, <3>1, <3>2, AppendLeavesOld
    <2>2. ASSUME ret' # "error"
          PROVE  file'.wim.hdr.inProgress
      <3>1. Kill /\ stage \notin {"truncate", "restore", "unlink"}
        BY <1>1, <2>2 DEF PathsOK
      <3>2. stage \in Going
        BY <1>10, <3>1 DEF IInv, TypeInv, StagesOK, Stages, Writing, WithHeader, Active, Going,
                           BeforeTable, WithTable
      <3>3. file.wim.hdr.inProgress
        BY <1>10, <3>2 DEF NewOK
      <3>4. file'.wim.hdr = file.wim.hdr
        BY <1>10, <3>1, TornEffect DEF Kill, Path, IInv, TypeInv
      <3> QED
        BY <3>3, <3>4
    <2> QED
      BY <1>1, <1>10, <2>1, <2>2 DEF ClosedOK
  <1>11. CASE mode = "tmp"
    BY <1>1, <1>6, <1>11 DEF ClosedOK
  <1> QED
    BY <1>8, <1>9, <1>10, <1>11

LEMMA NextKeepsClosed ==
  ASSUME IInv, ImagesOK, PathsOK, OldOK, NewOK, ClosedOK, [Next]_vars
  PROVE  ClosedOK'
  <1>1. CASE stage' # "closed"
    BY <1>1 DEF ClosedOK
  <1>2. CASE UNCHANGED vars
    BY <1>2 DEF vars, ClosedOK, Whole, Wanted, BlobsInOutput, Referenced, OldResourcesLieBefore
  <1>3. CASE Calls \/ Open
    <2>1. CASE PatchAll \/ Refuse
      <3>1. mode' = "none" /\ (stage' = "closed" => ret' # "success")
        BY <2>1, PatchFields DEF PatchAll, Refuse, Return, PathsOK
      <3> QED
        BY <3>1 DEF ClosedOK
    <2>2. CASE ~PatchAll /\ ~Refuse
      BY <1>1, <1>3, <2>2 DEF Calls, Open, Call, SetImageProperty, UpdateImage, DeleteImage
    <2> QED
      BY <2>1, <2>2
  <1>4. CASE (Close /\ mode # "tmp") \/ Rename
    BY <1>4, SuccessIsClosed
  <1>5. CASE OpenOutFails \/ Fails \/ RestoreHdr \/ Unlink \/ Kill
    <2>1. Active
      BY <1>5 DEF Active, OpenOutFails, Fails, RestoreHdr, Unlink, Kill, Writing
    <2> QED
      BY <1>1, <1>5, <2>1, LeavingIsClosed
  <1>6. CASE OverwriteInPlace \/ OverwriteViaTmpfile \/ OpenOut \/ Mark \/ WriteBlob \/ BeginFinish
             \/ WriteTable \/ WriteXml
    <2>1. stage' # "closed"
      BY <1>6 DEF OverwriteInPlace, OverwriteViaTmpfile, Begin, OpenOut, Mark, WriteBlob,
                  BeginFinish, WriteTable, WriteXml, Goto
    <2> QED
      BY <1>1, <2>1
  <1>7. CASE Checkpoint \/ WriteIntegrity \/ WriteHeader \/ Cut \/ Sync \/ (Close /\ mode = "tmp")
             \/ Truncate
    <2>1. stage' # "closed"
      BY <1>7 DEF Checkpoint, WriteIntegrity, WriteHeader, Cut, Sync, Close, Truncate, Leave, Goto, Ending
    <2> QED
      BY <1>1, <2>1
  <1> QED
    BY <1>2, <1>3, <1>4, <1>5, <1>6, <1>7 DEF Next, Calls

-----------------------------------------------------------------------------
(* What WimlibWrapper has patched.                                         *)

(* Only PatchAll ends with "skipped". *)
LEMMA NotSkipped ==
  ASSUME Active, [Next]_vars
  PROVE  stage' = "closed" => ret' # "skipped"
  <1>1. CASE OpenOut \/ Mark \/ WriteBlob \/ BeginFinish \/ WriteTable \/ WriteXml
             \/ Checkpoint \/ WriteIntegrity \/ WriteHeader \/ Cut \/ Sync
    BY <1>1 DEF OpenOut, Mark, WriteBlob, BeginFinish, WriteTable, WriteXml,
       Checkpoint, WriteIntegrity, WriteHeader, Cut, Sync, Goto, Ending
  <1>2. CASE Close \/ Rename \/ OpenOutFails \/ Fails \/ Truncate \/ RestoreHdr \/ Unlink \/ Kill
    BY <1>2 DEF Close, Rename, OpenOutFails, Fails, Truncate, RestoreHdr, Unlink, Kill, Leave,
                Return, Goto
  <1>3. CASE Open \/ Calls \/ OverwriteInPlace \/ OverwriteViaTmpfile
    BY <1>3 DEF Active, Open, Calls, PatchAll, Refuse, Call, SetImageProperty, UpdateImage,
                DeleteImage, OverwriteInPlace, OverwriteViaTmpfile
  <1>4. CASE UNCHANGED vars
    BY <1>4 DEF vars, Active
  <1> QED
    BY <1>1, <1>2, <1>3, <1>4 DEF Next, Calls

LEMMA NextKeepsWrapper ==
  ASSUME IInv, WrapperOK, [Next]_vars
  PROVE  WrapperOK'
  <1>1. CASE Active
    <2>1. UNCHANGED <<wim, caller>> /\ stage' \notin {"open", "call"}
      BY <1>1, ActiveFixed
    <2> QED
      BY <1>1, <2>1, NotSkipped DEF WrapperOK, NoClient
  <1>2. CASE UNCHANGED vars
    BY <1>2 DEF vars, WrapperOK, NoClient, Active
  <1>3. CASE Open
    <2>1. stage' = "open"
      BY <1>3 DEF Open
    <2> QED
      BY <1>3, <2>1, OpenFields DEF WrapperOK, Active
  <1>4. CASE PatchAll
    <2>1. stage = "open" /\ stage' \in {"closed", "call"} /\ UNCHANGED caller
      BY <1>4 DEF PatchAll
    <2>2. stage' = "closed" => ret' \in {"skipped", "error"} /\ wim' = wim
      BY <1>4 DEF PatchAll
    <2> QED
      BY <1>4, <2>1, <2>2, PatchFields DEF WrapperOK, Active
  <1>5. CASE Calls /\ ~PatchAll /\ ~Refuse
    <2>1. caller' = "library"
      BY <1>5 DEF Calls, Call, SetImageProperty, UpdateImage, DeleteImage, OnlyInMemory
    <2> QED
      BY <2>1 DEF WrapperOK
  <1>6. CASE Refuse
    <2>1. stage' = "closed" /\ ret' = "error"
      BY <1>6 DEF Refuse, Return
    <2> QED
      BY <2>1 DEF WrapperOK, Active
  <1>7. CASE OverwriteInPlace \/ OverwriteViaTmpfile
    <2>1. stage = "call" /\ stage' = "openout" /\ UNCHANGED <<wim, caller>>
      BY <1>7 DEF OverwriteInPlace, OverwriteViaTmpfile, Begin
    <2> QED
      BY <2>1 DEF WrapperOK, NoClient, Active
  <1> QED
    BY <1>1, <1>2, <1>3, <1>4, <1>5, <1>6, <1>7, IdleSteps

-----------------------------------------------------------------------------
(* The invariant, and what follows from it.                                *)

LEMMA InitReadInv == Init => ReadInv
  <1> SUFFICES ASSUME Init
               PROVE  ReadInv
    OBVIOUS
  <1>1. stage = "closed" /\ mode = "none" /\ ret = "none" /\ caller = "library"
    BY DEF Init
  <1>2. ImagesOK
    <2>1. DOMAIN wim.doc = {} /\ wim.blobs = {} /\ wim.metas = {} /\ wim.hdr.count = 0
      BY DEF Init, NoHeader
    <2> QED
      BY <2>1, FS_EmptySet DEF ImagesOK, OneForEach
  <1>3. OldOK /\ TodoOK /\ NewOK
    BY <1>1 DEF OldOK, Untouched, Active, Appending, TodoOK, NewOK, Going, BeforeTable, WithTable,
                WithXml, WithHeader
  <1>4. ClosedOK /\ WrapperOK
    BY <1>1 DEF ClosedOK, WrapperOK
  <1> QED
    BY <1>2, <1>3, <1>4, InitPaths DEF ReadInv

LEMMA NextKeepsReadInv == IInv /\ ReadInv /\ [Next]_vars => ReadInv'
  <1> SUFFICES ASSUME IInv, ReadInv, [Next]_vars
               PROVE  ReadInv'
    OBVIOUS
  <1>1. /\ ImagesOK /\ OldOK /\ TodoOK /\ NewOK /\ PathsOK /\ ClosedOK /\ WrapperOK
        /\ IInv'
    BY NextKeepsIInv DEF ReadInv
  <1>2. ImagesOK' /\ OldOK' /\ TodoOK' /\ PathsOK'
    BY <1>1, NextKeepsImages, NextKeepsOld, NextKeepsTodo, NextKeepsPaths
  <1>3. NewOK' /\ ClosedOK' /\ WrapperOK'
    BY <1>1, NextKeepsNew, NextKeepsClosed, NextKeepsWrapper
  <1> QED
    BY <1>2, <1>3 DEF ReadInv

(* What holds wherever wimlib_overwrite is, and after a failure or a       *)
(* death: which cells of the file hold what the blob table in memory, the  *)
(* list of blobs still to be written and the entries of the new table say. *)
THEOREM ContentsInvariance == Spec => [](IInv /\ ReadInv)
  <1>1. IInv /\ ReadInv /\ [Next]_vars => ReadInv'
    BY NextKeepsReadInv
  <1> QED
    BY <1>1, InitReadInv, Invariance, PTL DEF Spec

(* A compaction, the only one to write over what it reads, takes the       *)
(* resources in the order in which they lie, and each goes to a place no   *)
(* further than its own: SourcesStayReadable.                              *)
THEOREM SourcesAreRead == Spec => []SourcesStayReadable
  <1>1. ReadInv => SourcesStayReadable
    BY DEF ReadInv, TodoOK, SourcesStayReadable
  <1> QED
    BY <1>1, ContentsInvariance, PTL

(* Nothing points to the new data until the header does, and then they are *)
(* all there: AppendIsAtomic, for a call without an fsync, and files whose *)
(* resources all lie before the place from which is appended.              *)
LEMMA ReadInvGivesAtomic == IInv /\ ReadInv => AppendIsAtomic
  <1> SUFFICES ASSUME IInv, ReadInv, mode = "append", "fsync" \notin flags, OldResourcesLieBefore
               PROVE  Contents(file.wim) \in {wim.read, Wanted}
    BY DEF AppendIsAtomic
  <1>1. CASE Untouched \/ Appending
    <2>1. Old
      BY <1>1 DEF ReadInv, OldOK
    <2> QED
      BY <2>1 DEF Old
  <1>2. CASE stage = "closed"
    BY <1>2 DEF ReadInv, ClosedOK, Whole
  <1>3. CASE stage \in WithHeader
    BY <1>3, WrittenIsWhole DEF ReadInv, Path
  <1>4. ~Untouched /\ ~Appending => stage = "closed" \/ stage \in WithHeader
    BY DEF IInv, TypeInv, StagesOK, Stages, Writing, WithHeader, Untouched, Appending, ReadInv, PathsOK
  <1> QED
    BY <1>1, <1>2, <1>3, <1>4

(* AppendIsAtomic: at any failure or death of an append that asks for no   *)
(* fsync, a reader finds the old contents of the file or all of the new    *)
(* ones.                                                                   *)
THEOREM AppendingIsAtomic == Spec => []AppendIsAtomic
  <1> QED
    BY ReadInvGivesAtomic, ContentsInvariance, PTL

(* The file a loss of power leaves while another one is built, and behind  *)
(* the rename, is one of the two: RebuildSurvivesPowerLoss.                *)
LEMMA OneFileAfterPowerLoss ==
  ASSUME IsFile(file.wim), synced.wim = file.wim
  PROVE  \A f \in AfterPowerLoss("wim") : f = file.wim
  <1> TAKE f \in AfterPowerLoss("wim")
  <1>1. PICK kept : f = [hdr |-> file.wim.hdr,
                         cells |-> [c \in Cells |-> IF c \in kept THEN file.wim.cells[c]
                                                    ELSE file.wim.cells[c]]]
    BY DEF AfterPowerLoss
  <1>2. f = [hdr |-> file.wim.hdr, cells |-> [c \in Cells |-> file.wim.cells[c]]]
    BY <1>1
  <1> QED
    BY <1>2 DEF IsFile

LEMMA ReadInvGivesRebuild == IInv /\ ReadInv => RebuildSurvivesPowerLoss
  <1> SUFFICES ASSUME IInv, ReadInv, mode = "tmp", NEW f \in AfterPowerLoss("wim")
               PROVE  Contents(f) \in {wim.read, Wanted}
    BY DEF RebuildSurvivesPowerLoss
  <1>1. f = file.wim
    BY OneFileAfterPowerLoss DEF IInv, TypeInv, FilesOK, ReadInv, PathsOK
  <1>2. CASE stage = "closed"
    BY <1>1, <1>2 DEF ReadInv, ClosedOK, Whole
  <1>3. CASE Active
    BY <1>1, <1>3 DEF ReadInv, OldOK, Old
  <1>4. stage \notin {"open", "call"}
    BY DEF ReadInv, PathsOK
  <1> QED
    BY <1>2, <1>3, <1>4 DEF Active

(* RebuildSurvivesPowerLoss: whatever of a rebuild is on the medium when   *)
(* the power goes, the file at the name of the WIM is the old one or all   *)
(* of the new one.                                                         *)
THEOREM RebuildingSurvivesPowerLoss == Spec => []RebuildSurvivesPowerLoss
  <1> QED
    BY ReadInvGivesRebuild, ContentsInvariance, PTL

(* The flag in the header is set before anything else is changed, and is   *)
(* cleared with the header of the finished file: DamageIsMarked.           *)
LEMMA ReadInvGivesMarked == IInv /\ ReadInv => DamageIsMarked
  <1> SUFFICES ASSUME IInv, ReadInv, mode # "none", ret # "error", ~file.wim.hdr.inProgress
               PROVE  Contents(file.wim) \in {wim.read, Wanted}
    BY DEF DamageIsMarked
  <1>1. CASE stage = "closed"
    BY <1>1 DEF ReadInv, ClosedOK, Whole
  <1>2. CASE Untouched \/ (Active /\ mode = "tmp")
    BY <1>2 DEF ReadInv, OldOK, Old
  <1>3. CASE stage \in WithHeader /\ mode # "tmp"
    BY <1>3, WrittenIsWhole DEF ReadInv, Path
  <1>4. stage = "closed" \/ Untouched \/ (Active /\ mode = "tmp") \/ (stage \in WithHeader /\ mode # "tmp")
    <2>1. stage \notin {"truncate", "restore", "unlink"}
      BY DEF ReadInv, PathsOK
    <2>2. stage \in Going \ (WithHeader \cup {"openout", "mark"}) => mode = "tmp"
      BY DEF ReadInv, NewOK
    <2> QED
      BY <2>1, <2>2 DEF IInv, TypeInv, StagesOK, Stages, Writing, WithHeader, Untouched, Active, Going,
                        BeforeTable, WithTable
  <1> QED
    BY <1>1, <1>2, <1>3, <1>4

(* DamageIsMarked: a file that is left damaged, other than by a failure    *)
(* that was handled, has the flag of a write in progress in its header.    *)
THEOREM DeathIsMarked == Spec => []DamageIsMarked
  <1> QED
    BY ReadInvGivesMarked, ContentsInvariance, PTL

-----------------------------------------------------------------------------
(* The integrity table: the old one may be used again for the chunks of    *)
(* the file that have stayed as they are.                                  *)

SumsAre(cell, cells, end) == cell = Integrity(end, ActualSums(cells, end))
OldTableEnd == End(wim.hdr.table)

(* What a table takes over from the old file lies before its end.          *)
EndsOK ==
    /\ Active /\ mode \in {"append", "xml"} => OldTableEnd <= oldEnd
    /\ Active /\ mode = "append" /\ HasIntegrity => wim.hdr.integrity.at < oldEnd
    /\ stage \in WithTable \/ (stage \in Going /\ mode = "xml") =>
          /\ End(outHdr.table) <= out
          /\ mode \in {"append", "xml"} => OldTableEnd <= End(outHdr.table)
(* The old table in the file, and then in memory.                          *)
OldSumsOK ==
    wim.verified =>
        /\ HasIntegrity /\ (stage \in {"open", "call"} \/
                (stage \in {"openout", "mark", "blobs"} /\ mode \in {"append", "xml"})) =>
              SumsAre(file.wim.cells[wim.hdr.integrity.at], file.wim.cells, OldTableEnd)
        /\ stage \in {"table", "xml", "checkpoint", "integrity"} /\ oldSums # None =>
              /\ mode \in {"append", "xml"} /\ oldSums.end = OldTableEnd
              /\ oldSums.sums = ActualSums(file.wim.cells, OldTableEnd)
(* The new one.                                                            *)
NewSums ==
    LET r == outHdr.integrity IN
    /\ r # Nowhere /\ r.at \in Cells /\ r.at < out
    /\ SumsAre(file[Path].cells[r.at], file[Path].cells, End(outHdr.table))
NewSumsOK ==
    /\ stage \in WithHeader \cup {"header"} /\ WantsIntegrity /\ wim.verified => NewSums
    /\ stage \in WithHeader /\ ~WantsIntegrity => outHdr.integrity = Nowhere
    /\ stage = "closed" /\ ret = "success" /\ wim.verified => VerifyIntegrity(file.wim)

SumsInv == EndsOK /\ OldSumsOK /\ NewSumsOK

(* The chunks of a file that has grown.                                    *)

LEMMA Division ==
  ASSUME NEW a \in Nat, NEW k \in Nat \ {0}
  PROVE  /\ a \div k \in Nat
         /\ k * (a \div k) <= a /\ a < k * (a \div k) + k
  OBVIOUS

LEMMA ChunksAreFinite ==
  ASSUME NEW i, NEW end \in Nat
  PROVE  IsFiniteSet(ChunkCells(i, end)) /\ ChunkCells(i, end) \subseteq 1..(end - 1)
  <1>1. IsFiniteSet(1..(end - 1)) /\ ChunkCells(i, end) \subseteq 1..(end - 1)
    BY FS_Interval DEF ChunkCells
  <1> QED
    BY <1>1, FS_Subset

LEMMA FullChunkStays ==
  ASSUME NEW end \in Nat, NEW old \in Nat, 1 <= old, old <= end,
         NEW i \in Nat, i >= 1, i < NumChunks(old)
  PROVE  ChunkCells(i, end) = ChunkCells(i, old)
  <1>1. PICK k \in Nat \ {0}, n \in Nat :
          /\ k = ChunkSize /\ n = NumChunks(old) /\ k * n <= old + k - 2
    <2>1. PICK k \in Nat \ {0}, a \in Nat : k = ChunkSize /\ a = old + k - 2
      OBVIOUS
    <2>2. NumChunks(old) = a \div k
      <3>1. old - 1 + k - 1 = a
        BY <2>1
      <3> QED
        BY <2>1, <3>1 DEF NumChunks
    <2>3. a \div k \in Nat /\ k * (a \div k) <= a
      BY Division
    <2> QED
      BY <2>1, <2>2, <2>3
  <1>2. k * (i + 1) <= k * n /\ k * (i + 1) = k * i + k
    <2>1. i + 1 <= n
      BY <1>1
    <2>2. \A x, y \in Nat : x <= y => k * x <= k * y
      BY <1>1
    <2> QED
      BY <1>1, <2>1, <2>2
  <1>3. k * i <= old - 2
    BY <1>1, <1>2
  <1>4. ASSUME NEW c \in 1..(end - 1), (c - 1) \div ChunkSize = i - 1
        PROVE  c \in 1..(old - 1)
    <2>1. c - 1 < k * (i - 1) + k
      BY <1>1, <1>4, Division
    <2>2. k * (i - 1) + k = k * i
      BY <1>1
    <2> QED
      BY <1>3, <2>1, <2>2
  <1> QED
    BY <1>4 DEF ChunkCells

LEMMA LastChunkStays ==
  ASSUME NEW end \in Nat, NEW old \in Nat, old <= end, NEW i,
         Cardinality(ChunkCells(i, end)) = Cardinality(ChunkCells(i, old))
  PROVE  ChunkCells(i, end) = ChunkCells(i, old)
  <1>1. ChunkCells(i, old) \subseteq ChunkCells(i, end)
    BY DEF ChunkCells
  <1> QED
    BY <1>1, ChunksAreFinite, FS_Subset

(* The sums of cells that are the same.                                    *)
LEMMA SameSums ==
  ASSUME NEW end \in Nat, NEW cs, NEW ds, \A c \in 1..(end - 1) : cs[c] = ds[c]
  PROVE  ActualSums(cs, end) = ActualSums(ds, end)
  <1>1. \A i : ActualSum(cs, i, end) = ActualSum(ds, i, end)
    BY ChunksAreFinite DEF ActualSum
  <1> QED
    BY <1>1 DEF ActualSums

(* Entries of the old table that are used again are what the others are.   *)
LEMMA TableIsRight ==
  ASSUME NEW end \in Nat, NEW cells,
         oldSums # None => /\ oldSums.end \in Nat /\ 1 <= oldSums.end /\ oldSums.end <= end
                           /\ oldSums.sums = ActualSums(cells, oldSums.end)
  PROVE  SumsAre(CalculateIntegrityTable(cells, end), cells, end)
  <1>1. ASSUME NEW i \in 1..NumChunks(end), oldSums # None, OldEntryCounts(i, end, oldSums)
        PROVE  oldSums.sums[i] = ActualSum(cells, i, end)
    <2> DEFINE old == oldSums.end
    <2>1. old \in Nat /\ 1 <= old /\ old <= end /\ NumChunks(old) \in Nat /\ i \in Nat /\ i >= 1
      BY <1>1, Division DEF NumChunks
    <2>2. ChunkCells(i, end) = ChunkCells(i, old) /\ i <= NumChunks(old)
      <3>1. CASE i < NumChunks(old)
        BY <2>1, <3>1, FullChunkStays
      <3>2. CASE i = NumChunks(old) /\ Cardinality(ChunkCells(i, end)) = Cardinality(ChunkCells(i, old))
        BY <2>1, <3>2, LastChunkStays
      <3> QED
        BY <1>1, <3>1, <3>2 DEF OldEntryCounts
    <2>3. oldSums.sums[i] = ActualSum(cells, i, old)
      BY <1>1, <2>1, <2>2 DEF ActualSums
    <2> QED
      BY <2>2, <2>3 DEF ActualSum
  <1> QED
    BY <1>1 DEF SumsAre, CalculateIntegrityTable, ActualSums

-----------------------------------------------------------------------------
(* The steps.                                                              *)

LEMMA BeginKeepsEnds ==
  ASSUME IInv, OverwriteInPlace \/ OverwriteViaTmpfile
  PROVE  EndsOK'
  <1> DEFINE h == wim.hdr
  <1>1. /\ stage = "call" /\ stage' = "openout" /\ UNCHANGED wim /\ out' = oldEnd'
        /\ mode' \in {"append", "xml"} => ResourceOrder /\ oldEnd' = OldWimEnd
        /\ mode' = "append" => AnyImagesChanged
        /\ mode' = "xml" => ~AnyImagesChanged /\ outHdr' = h
    BY DEF OverwriteInPlace, OverwriteViaTmpfile, Begin
  <1>2. h.table \in ResHdrs /\ h.xml \in ResHdrs /\ h.integrity \in ResHdrs /\ h.xml # Nowhere
    BY <1>1 DEF IInv, TypeInv, WimOK, Headers, KeepInv
  <1>3. PICK t \in Nat, x \in Nat, y \in Nat, i \in Nat :
          t = End(h.table) /\ x = h.xml.at /\ y = End(h.xml) /\ i = End(h.integrity) /\ x < y
    BY <1>2, EndOfResHdr
  <1>4. HasIntegrity => h.integrity.at \in Nat /\ h.integrity.at < i
    BY <1>2, <1>3, EndOfResHdr DEF HasIntegrity
  <1>5. ASSUME ResourceOrder
        PROVE  /\ t <= OldWimEnd
               /\ AnyImagesChanged /\ HasIntegrity => h.integrity.at < OldWimEnd
               /\ ~AnyImagesChanged => OldWimEnd = t
    <2>1. t <= x /\ (HasIntegrity => h.integrity.at >= y)
      BY <1>3, <1>5 DEF ResourceOrder
    <2> HIDE DEF h
    <2>2. OldWimEnd = IF ~AnyImagesChanged THEN t ELSE IF HasIntegrity THEN i ELSE y
      BY <1>3 DEF OldWimEnd, h
    <2> QED
      BY <1>3, <1>4, <2>1, <2>2
  <1>6. mode' \in {"append", "xml"} => t <= oldEnd'
    BY <1>1, <1>5
  <1>7. mode' = "append" /\ HasIntegrity => h.integrity.at < oldEnd'
    BY <1>1, <1>5
  <1>8. mode' = "xml" => End(outHdr'.table) = t /\ out' = t
    BY <1>1, <1>3, <1>5
  <1> QED
    BY <1>1, <1>3, <1>6, <1>7, <1>8 DEF EndsOK, OldTableEnd, HasIntegrity, WithTable

(* What becomes of the header that is to be written. *)
LEMMA OutHeaderSteps ==
  ASSUME IInv, Active, [Next]_vars
  PROVE  /\ out <= out'
         /\ ~WriteTable => outHdr'.table = outHdr.table
         /\ WriteTable => outHdr'.table = At(out, 1) /\ out' = out + 1
         /\ stage' \in WithTable => WriteTable \/ stage \in WithTable \/ (stage = "blobs" /\ mode = "xml")
         /\ stage' \in Going => stage \in Going
  <1> USE DEF BeforeTable, WithTable, Going
  <1>1. out \in 1..(Size + 1) /\ outHdr \in Headers
    BY DEF IInv, TypeInv, OutputOK
  <1>2. CASE WriteTable
    BY <1>1, <1>2 DEF WriteTable, Put, Goto, Headers
  <1>3. CASE ~WriteTable /\ (WriteBlob \/ WriteXml \/ WriteIntegrity)
    <2>1. out' = out + 1
      BY <1>3 DEF WriteBlob, WriteXml, WriteIntegrity, Put
    <2>2. outHdr'.table = outHdr.table
      BY <1>1, <1>3 DEF WriteBlob, WriteXml, WriteIntegrity, Headers
    <2>3. stage' \in WithTable => stage \in WithTable
      BY <1>3 DEF WriteBlob, WriteXml, WriteIntegrity, Goto
    <2>4. stage \in Going
      BY <1>3 DEF WriteBlob, WriteXml, WriteIntegrity
    <2> QED
      BY <1>1, <1>3, <2>1, <2>2, <2>3, <2>4
  <1>4. CASE ~WriteTable /\ (OpenOut \/ Mark \/ BeginFinish \/ Checkpoint \/ WriteHeader \/ Cut \/ Sync)
    <2>1. out' = out /\ outHdr'.table = outHdr.table
      BY <1>1, <1>4 DEF OpenOut, Mark, BeginFinish, Checkpoint, WriteHeader, Cut, Sync, Headers
    <2>2. stage \in Going
          /\ (stage' \in WithTable => stage \in WithTable \/ (stage = "blobs" /\ mode = "xml"))
      BY <1>4 DEF OpenOut, Mark, BeginFinish, Checkpoint, WriteHeader, Cut, Sync, Goto, Ending
    <2> QED
      BY <1>1, <1>4, <2>1, <2>2
  <1>5. CASE ~WriteTable /\ (Close \/ Rename)
    BY <1>1, <1>5 DEF Close, Rename, Goto, Return
  <1>6. CASE ~WriteTable /\ (OpenOutFails \/ Fails \/ Truncate \/ RestoreHdr \/ Unlink \/ Kill)
    BY <1>1, <1>6 DEF OpenOutFails, Fails, Truncate, RestoreHdr, Unlink, Kill, Leave, Return
  <1>7. CASE ~WriteTable /\ (Open \/ Calls \/ OverwriteInPlace \/ OverwriteViaTmpfile)
    BY <1>7 DEF Active, Open, Calls, PatchAll, Refuse, Call, SetImageProperty, UpdateImage,
                DeleteImage, OverwriteInPlace, OverwriteViaTmpfile
  <1>8. CASE ~WriteTable /\ UNCHANGED vars
    BY <1>1, <1>8 DEF vars
  <1> QED
    BY <1>2, <1>3, <1>4, <1>5, <1>6, <1>7, <1>8 DEF Next, Calls

LEMMA NextKeepsEnds ==
  ASSUME IInv, IInv', EndsOK, [Next]_vars
  PROVE  EndsOK'
  <1>1. CASE Active
    <2>1. UNCHANGED <<wim, mode, oldEnd>>
      BY <1>1, ActiveFixed
    <2>2. OldTableEnd' = OldTableEnd /\ (HasIntegrity' <=> HasIntegrity)
      BY <2>1 DEF OldTableEnd, HasIntegrity
    <2>3. PICK t \in Nat, o \in Nat, p \in Nat, e \in Nat :
            t = OldTableEnd /\ o = out /\ p = out' /\ e = oldEnd /\ o >= 1
      BY EndOfResHdr DEF IInv, TypeInv, OutputOK, WimOK, Headers, OldTableEnd
    <2>4. mode \in {"append", "xml"} => t <= e /\ e <= o
      BY <1>1, <2>3 DEF EndsOK, IInv, KeepInv
    <2>5. ASSUME stage' \in WithTable \/ (stage' \in Going /\ mode' = "xml")
          PROVE  /\ End(outHdr'.table) <= out'
                 /\ mode' \in {"append", "xml"} => OldTableEnd' <= End(outHdr'.table)
      <3>1. CASE WriteTable
        <4>1. End(outHdr'.table) = o + 1 /\ p = o + 1
          BY <1>1, <2>3, <3>1, OutHeaderSteps DEF At, End, Nowhere
        <4> QED
          BY <2>1, <2>2, <2>3, <2>4, <4>1
      <3>2. CASE ~WriteTable
        <4>1. outHdr'.table = outHdr.table /\ o <= p
          BY <1>1, <2>3, <3>2, OutHeaderSteps
        <4>2. stage \in WithTable \/ (stage \in Going /\ mode = "xml")
          BY <1>1, <2>1, <2>5, <3>2, OutHeaderSteps DEF Going, BeforeTable
        <4>3. PICK n \in Nat : n = End(outHdr.table) /\ n <= o
                                /\ (mode \in {"append", "xml"} => t <= n)
          <5>1. End(outHdr.table) \in Nat
            BY EndOfResHdr DEF IInv, TypeInv, OutputOK, Headers
          <5> QED
            BY <2>3, <4>2, <5>1 DEF EndsOK
        <4> QED
          BY <2>1, <2>2, <2>3, <4>1, <4>3
      <3> QED
        BY <3>1, <3>2
    <2> QED
      BY <1>1, <2>1, <2>2, <2>5 DEF EndsOK
  <1>2. CASE UNCHANGED vars
    BY <1>2 DEF vars, EndsOK, Active, OldTableEnd, HasIntegrity
  <1>3. CASE Open \/ Calls
    <2>1. ~Active' /\ stage' \notin Going
      BY <1>3 DEF Open, Calls, PatchAll, Refuse, Return, Call, SetImageProperty, UpdateImage,
                  DeleteImage, Active, Going, BeforeTable, WithTable
    <2> QED
      BY <2>1 DEF EndsOK, Going
  <1>4. CASE OverwriteInPlace \/ OverwriteViaTmpfile
    BY <1>4, BeginKeepsEnds
  <1> QED
    BY <1>1, <1>2, <1>3, <1>4, IdleSteps

LEMMA OldTableEndIsNat ==
  ASSUME IInv
  PROVE  OldTableEnd \in Nat /\ 1 <= OldTableEnd /\ OldTableEnd <= Size + 1
  BY EndOfResHdr DEF IInv, TypeInv, WimOK, Headers, OldTableEnd

(* The old table and the cells it covers lie in the part that is kept.     *)
LEMMA CoveredKept ==
  ASSUME IInv, PathsOK, EndsOK, Active, mode \in {"append", "xml"}, [Next]_vars
  PROVE  /\ ActualSums(file'.wim.cells, OldTableEnd) = ActualSums(file.wim.cells, OldTableEnd)
         /\ mode = "append" /\ HasIntegrity =>
               file'.wim.cells[wim.hdr.integrity.at] = file.wim.cells[wim.hdr.integrity.at]
  <1>1. \A c \in Cells : c < oldEnd => file'.wim.cells[c] = file.wim.cells[c]
    BY InPlaceEffect
  <1>2. PICK t \in Nat, e \in Nat : t = OldTableEnd /\ e = oldEnd /\ t <= e /\ t <= Size + 1
    BY OldTableEndIsNat DEF EndsOK, IInv, TypeInv, OutputOK
  <1>3. \A c \in 1..(t - 1) : file'.wim.cells[c] = file.wim.cells[c]
    BY <1>1, <1>2
  <1>4. ActualSums(file'.wim.cells, t) = ActualSums(file.wim.cells, t)
    BY <1>3, SameSums
  <1>5. HasIntegrity => wim.hdr.integrity.at \in Cells
    BY EndOfResHdr DEF HasIntegrity, IInv, TypeInv, WimOK, Headers
  <1> QED
    BY <1>1, <1>2, <1>4, <1>5 DEF EndsOK

(* Between finish_write's beginning and the new table. *)
LEMMA LateStages ==
  ASSUME Active, [Next]_vars, ~BeginFinish, stage' \in {"table", "xml", "checkpoint", "integrity"}
  PROVE  stage \in {"table", "xml", "checkpoint", "integrity"} /\ UNCHANGED oldSums
  <1>1. CASE OpenOut \/ Mark \/ WriteBlob \/ WriteTable \/ WriteXml
             \/ Checkpoint \/ WriteIntegrity \/ WriteHeader \/ Cut \/ Sync
    BY <1>1 DEF OpenOut, Mark, WriteBlob, WriteTable, WriteXml,
       Checkpoint, WriteIntegrity, WriteHeader, Cut, Sync, Goto, Ending
  <1>2. CASE Close \/ Rename \/ OpenOutFails \/ Fails \/ Truncate \/ RestoreHdr \/ Unlink \/ Kill
    BY <1>2 DEF Close, Rename, OpenOutFails, Fails, Truncate, RestoreHdr, Unlink, Kill, Leave,
                Return, Goto
  <1>3. CASE Open \/ Calls \/ OverwriteInPlace \/ OverwriteViaTmpfile
    BY <1>3 DEF Active, Open, Calls, PatchAll, Refuse, Call, SetImageProperty, UpdateImage,
                DeleteImage, OverwriteInPlace, OverwriteViaTmpfile
  <1>4. CASE UNCHANGED vars
    BY <1>4 DEF vars
  <1> QED
    BY <1>1, <1>2, <1>3, <1>4 DEF Next, Calls

LEMMA ActiveKeepsOldSums ==
  ASSUME IInv, PathsOK, TodoOK, EndsOK, OldSumsOK, Active, [Next]_vars
  PROVE  OldSumsOK'
  <1> SUFFICES ASSUME wim.verified
               PROVE  OldSumsOK'
    BY ActiveFixed DEF OldSumsOK
  <1>1. UNCHANGED <<wim, mode, flags, oldEnd>> /\ stage' \notin {"open", "call"}
    BY ActiveFixed
  <1>2. OldTableEnd' = OldTableEnd /\ (HasIntegrity' <=> HasIntegrity)
    BY <1>1 DEF OldTableEnd, HasIntegrity
  <1>3. ASSUME HasIntegrity, stage' \in {"openout", "mark", "blobs"}, mode \in {"append", "xml"}
        PROVE  SumsAre(file'.wim.cells[wim.hdr.integrity.at], file'.wim.cells, OldTableEnd)
    <2>1. stage \in {"openout", "mark", "blobs"}
      BY <1>3, OnlyMarkBefore DEF WriteBlob
    <2>2. SumsAre(file.wim.cells[wim.hdr.integrity.at], file.wim.cells, OldTableEnd)
      BY <1>3, <2>1 DEF OldSumsOK
    <2>3. file'.wim.cells[wim.hdr.integrity.at] = file.wim.cells[wim.hdr.integrity.at]
      <3>1. CASE mode = "append"
        BY <1>3, <3>1, CoveredKept
      <3>2. CASE mode = "xml"
        <4>1. ~WriteBlob
          BY <2>1, <3>2 DEF TodoOK, WriteBlob
        <4>2. UNCHANGED file \/ Mark
          BY <1>3, <4>1, OnlyMarkBefore
        <4>3. CASE Mark
          <5>1. PICK h : file' = [file EXCEPT !["wim"].hdr = h]
            BY <3>2, <4>3, HeaderSteps DEF Path
          <5> QED
            BY <5>1, HdrEffect DEF IInv, TypeInv
        <4> QED
          BY <4>2, <4>3
      <3> QED
        BY <1>3, <3>1, <3>2
    <2>4. ActualSums(file'.wim.cells, OldTableEnd) = ActualSums(file.wim.cells, OldTableEnd)
      BY <1>3, CoveredKept
    <2> QED
      BY <2>2, <2>3, <2>4 DEF SumsAre
  <1>4. ASSUME stage' \in {"table", "xml", "checkpoint", "integrity"}, oldSums' # None
        PROVE  /\ mode \in {"append", "xml"} /\ oldSums'.end = OldTableEnd
               /\ oldSums'.sums = ActualSums(file'.wim.cells, OldTableEnd)
    <2>1. CASE BeginFinish
      <3>1. /\ stage = "blobs" /\ mode \in {"append", "xml"} /\ HasIntegrity
            /\ oldSums' = file.wim.cells[wim.hdr.integrity.at]
        BY <1>4, <2>1 DEF BeginFinish
      <3>2. SumsAre(oldSums', file.wim.cells, OldTableEnd)
        BY <3>1 DEF OldSumsOK
      <3>3. oldSums'.end = OldTableEnd /\ oldSums'.sums = ActualSums(file.wim.cells, OldTableEnd)
        BY <3>2 DEF SumsAre, Integrity
      <3> QED
        BY <3>1, <3>3, CoveredKept
    <2>2. CASE ~BeginFinish
      <3>1. stage \in {"table", "xml", "checkpoint", "integrity"} /\ UNCHANGED oldSums
        BY <1>4, <2>2, LateStages
      <3>2. /\ mode \in {"append", "xml"} /\ oldSums.end = OldTableEnd
            /\ oldSums.sums = ActualSums(file.wim.cells, OldTableEnd)
        BY <1>4, <3>1 DEF OldSumsOK
      <3> QED
        BY <3>1, <3>2, CoveredKept
    <2> QED
      BY <2>1, <2>2
  <1> QED
    BY <1>1, <1>2, <1>3, <1>4 DEF OldSumsOK

LEMMA NextKeepsOldSums ==
  ASSUME IInv, PathsOK, TodoOK, EndsOK, OldSumsOK, [Next]_vars
  PROVE  OldSumsOK'
  <1>1. CASE Active
    BY <1>1, ActiveKeepsOldSums
  <1>2. CASE UNCHANGED vars
    BY <1>2 DEF vars, OldSumsOK, OldTableEnd, HasIntegrity
  <1>3. CASE Open
    <2>1. stage' = "open"
      BY <1>3 DEF Open
    <2>2. /\ wim'.hdr = file.wim.hdr /\ file'.wim = file.wim
          /\ wim'.verified = VerifyIntegrity(file.wim)
      BY <1>3, OpenFields
    <2>3. wim'.verified /\ HasIntegrity' =>
            SumsAre(file'.wim.cells[wim'.hdr.integrity.at], file'.wim.cells, OldTableEnd')
      BY <2>2 DEF VerifyIntegrity, HasIntegrity, SumsAre, OldTableEnd
    <2> QED
      BY <2>1, <2>3 DEF OldSumsOK
  <1>4. CASE (Calls /\ stage' # "closed") \/ OverwriteInPlace \/ OverwriteViaTmpfile
    <2>1. /\ wim'.hdr.integrity = wim.hdr.integrity /\ wim'.hdr.table = wim.hdr.table
          /\ wim'.verified = wim.verified
      <3>1. CASE Calls /\ (UNCHANGED wim \/ PatchAll)
        BY <3>1, PatchFields
      <3>2. CASE Calls /\ ~PatchAll /\ ~UNCHANGED wim
        <4>1. PICK i \in Images : SetImageProperty(i) \/ UpdateImage(i) \/ DeleteImage(i)
          BY <3>2 DEF Calls, Refuse, Return, Call
        <4> QED
          BY <4>1, PropertyFields, UpdateFields, DeleteFields
      <3>3. CASE OverwriteInPlace \/ OverwriteViaTmpfile
        BY <3>3 DEF OverwriteInPlace, OverwriteViaTmpfile, Begin
      <3> QED
        BY <1>4, <3>1, <3>2, <3>3
    <2>2. stage \in {"open", "call"} /\ stage' \in {"open", "call", "openout"} /\ UNCHANGED file
      BY <1>4 DEF Calls, OverwriteInPlace, OverwriteViaTmpfile, Begin, PatchAll, Refuse, Return,
                  Call, SetImageProperty, UpdateImage, DeleteImage, OnlyInMemory
    <2> QED
      BY <2>1, <2>2 DEF OldSumsOK, OldTableEnd, HasIntegrity
  <1>5. CASE Calls /\ stage' = "closed"
    BY <1>5 DEF OldSumsOK
  <1> QED
    BY <1>1, <1>2, <1>3, <1>4, <1>5, IdleSteps

(* The new table is right when it is written, and stays so.                *)
LEMMA SumsKept ==
  ASSUME IInv, NewSums, BeforeOutKept, out' \in Nat, End(outHdr.table) <= out,
         outHdr'.integrity = outHdr.integrity, outHdr'.table = outHdr.table
  PROVE  NewSums'
  <1>1. Path' = Path /\ out \in 1..(Size + 1)
    BY PathKept DEF BeforeOutKept, IInv, TypeInv, OutputOK
  <1>2. PICK t \in Nat, o \in Nat, p \in Nat : t = End(outHdr.table) /\ o = out /\ p = out'
                                    /\ t <= o /\ o <= p /\ o <= Size + 1
    BY <1>1, EndOfResHdr DEF BeforeOutKept, IInv, TypeInv, OutputOK, Headers
  <1>3. \A c \in 1..(t - 1) : file'[Path].cells[c] = file[Path].cells[c]
    BY <1>2 DEF BeforeOutKept
  <1>4. ActualSums(file'[Path].cells, t) = ActualSums(file[Path].cells, t)
    BY <1>3, SameSums
  <1>5. /\ outHdr.integrity # Nowhere /\ outHdr.integrity.at \in Cells /\ outHdr.integrity.at < o
        /\ SumsAre(file[Path].cells[outHdr.integrity.at], file[Path].cells, t)
    BY <1>2 DEF NewSums
  <1>6. file'[Path].cells[outHdr.integrity.at] = file[Path].cells[outHdr.integrity.at]
    BY <1>2, <1>5 DEF BeforeOutKept
  <1>7. SumsAre(file'[Path].cells[outHdr.integrity.at], file'[Path].cells, t)
    BY <1>4, <1>5, <1>6 DEF SumsAre
  <1> QED
    BY <1>1, <1>2, <1>5, <1>7 DEF NewSums

LEMMA WriteIntegrityIsRight ==
  ASSUME IInv, EndsOK, OldSumsOK, wim.verified, WriteIntegrity
  PROVE  NewSums'
  <1> DEFINE cells == file[Path].cells
  <1>1. stage = "integrity" /\ UNCHANGED <<wim, mode, xmlLen>>
        /\ Put(CalculateIntegrityTable(cells, End(outHdr.table)))
        /\ outHdr' = [outHdr EXCEPT !.integrity = At(out, 1)]
    BY DEF WriteIntegrity, Goto
  <1>2. PICK t \in Nat, o \in Nat : /\ t = End(outHdr.table) /\ o = out /\ t <= o
                                    /\ o >= 1 /\ o <= Size + 1
    <2>1. End(outHdr.table) \in Nat /\ out \in 1..(Size + 1)
      BY EndOfResHdr DEF IInv, TypeInv, OutputOK, Headers
    <2>2. End(outHdr.table) <= out
      BY <1>1 DEF EndsOK, WithTable
    <2> QED
      BY <2>1, <2>2
  <1>3. ASSUME oldSums # None
        PROVE  /\ oldSums.end \in Nat /\ 1 <= oldSums.end /\ oldSums.end <= t
               /\ oldSums.sums = ActualSums(cells, oldSums.end)
    <2>1. /\ mode \in {"append", "xml"} /\ oldSums.end = OldTableEnd
          /\ oldSums.sums = ActualSums(file.wim.cells, OldTableEnd)
      BY <1>1, <1>3 DEF OldSumsOK
    <2>2. cells = file.wim.cells /\ OldTableEnd <= t
      BY <1>1, <1>2, <2>1 DEF EndsOK, WithTable, Path
    <2> QED
      BY <2>1, <2>2, OldTableEndIsNat
  <1>4. PICK cell : cell = CalculateIntegrityTable(cells, t) /\ Put(cell) /\ SumsAre(cell, cells, t)
    <2> HIDE DEF cells
    <2>1. SumsAre(CalculateIntegrityTable(cells, t), cells, t)
      BY <1>3, TableIsRight
    <2>2. Put(CalculateIntegrityTable(cells, t))
      BY <1>1, <1>2
    <2> QED
      BY <2>1, <2>2
  <1>5. /\ BeforeOutKept /\ out' = out + 1 /\ out \in Cells /\ Path' = Path
        /\ file'[Path].cells[out] = cell
    BY <1>1, <1>4, PutKeepsBefore
  <1>6. \A c \in 1..(t - 1) : file'[Path].cells[c] = cells[c]
    BY <1>2, <1>5 DEF BeforeOutKept
  <1>7. ActualSums(file'[Path].cells, t) = ActualSums(cells, t)
    <2> HIDE DEF cells
    <2> QED
      BY <1>6, SameSums
  <1>8. SumsAre(file'[Path].cells[out], file'[Path].cells, t)
    BY <1>4, <1>5, <1>7 DEF SumsAre
  <1>9. outHdr'.integrity = At(out, 1) /\ outHdr'.table = outHdr.table
    BY <1>1 DEF IInv, TypeInv, OutputOK, Headers
  <1>10. outHdr'.integrity.at = out /\ outHdr'.integrity # Nowhere
    BY <1>2, <1>9 DEF At, Nowhere
  <1> QED
    BY <1>2, <1>5, <1>8, <1>9, <1>10 DEF NewSums

LEMMA WrittenIsVerified ==
  ASSUME NewOK, NewSumsOK, stage \in WithHeader, wim.verified
  PROVE  VerifyIntegrity(file[Path])
  <1>1. file[Path].hdr = outHdr
    BY DEF NewOK, NewHeader
  <1>2. CASE WantsIntegrity
    BY <1>1, <1>2 DEF NewSumsOK, NewSums, SumsAre, VerifyIntegrity
  <1>3. CASE ~WantsIntegrity
    BY <1>1, <1>3 DEF NewSumsOK, VerifyIntegrity
  <1> QED
    BY <1>2, <1>3

(* How the stages behind the integrity table are reached.                  *)
LEMMA ToTheHeader ==
  ASSUME Active, [Next]_vars
  PROVE  /\ stage' = "header" => WriteIntegrity \/ (WriteXml /\ ~WantsIntegrity) \/ UNCHANGED vars
         /\ stage' \in WithHeader => WriteHeader \/ Cut \/ Sync \/ (Close /\ mode = "tmp") \/ UNCHANGED vars
         /\ stage' = "closed" /\ ret' = "success" => (Close /\ mode # "tmp") \/ Rename
  <1> USE DEF WithHeader
  <1>1. CASE OpenOut \/ Mark \/ WriteBlob \/ BeginFinish \/ WriteTable \/ WriteXml \/ Checkpoint \/ WriteIntegrity
    BY <1>1 DEF OpenOut, Mark, WriteBlob, BeginFinish, WriteTable, WriteXml, Checkpoint,
                WriteIntegrity, Goto
  <1>2. CASE WriteHeader \/ Cut \/ Sync \/ Close \/ Rename
    BY <1>2 DEF WriteHeader, Cut, Sync, Close, Rename, Goto, Ending, Return
  <1>3. CASE OpenOutFails \/ Fails \/ Truncate \/ RestoreHdr \/ Unlink \/ Kill
    BY <1>3 DEF OpenOutFails, Fails, Truncate, RestoreHdr, Unlink, Kill, Leave, Return
  <1>4. CASE Open \/ Calls \/ OverwriteInPlace \/ OverwriteViaTmpfile
    BY <1>4 DEF Active, Open, Calls, PatchAll, Refuse, Call, SetImageProperty, UpdateImage,
                DeleteImage, OverwriteInPlace, OverwriteViaTmpfile
  <1>5. CASE UNCHANGED vars
    BY <1>5 DEF vars, Active
  <1> QED
    BY <1>1, <1>2, <1>3, <1>4, <1>5 DEF Next, Calls

(* The steps from the integrity table to the end.                          *)
LEMMA LateKeepsNewSums ==
  ASSUME IInv, IInv', PathsOK, NewOK, EndsOK, NewSumsOK,
         WriteHeader \/ Cut \/ Sync \/ (Close /\ mode = "tmp")
  PROVE  NewSumsOK'
  <1>1. /\ stage \in WithHeader \cup {"header"} /\ stage' \in WithHeader
        /\ UNCHANGED <<wim, mode, flags, xmlLen, out>> /\ Path' = Path /\ out' \in Nat
    BY DEF WriteHeader, Cut, Sync, Close, Goto, Ending, WithHeader, Path, IInv, TypeInv, OutputOK
  <1>2. WantsIntegrity' <=> WantsIntegrity
    BY <1>1 DEF WantsIntegrity, HasIntegrity
  <1>3. BeforeOutKept
    <2>1. out \in Nat /\ out <= out'
      BY <1>1 DEF IInv, TypeInv, OutputOK
    <2>2. CASE WriteHeader
      <3>1. file'[Path].cells = file[Path].cells
        BY <2>2, HeaderSteps, HdrEffect DEF IInv, TypeInv, Path
      <3> QED
        BY <1>1, <2>1, <3>1 DEF BeforeOutKept
    <2>3. CASE Cut
      <3>1. stage = "cut" /\ file' = [file EXCEPT !.wim = CutAt(@, out)]
        BY <2>3 DEF Cut
      <3>2. Path = "wim"
        BY <3>1 DEF Path, IInv, KeepInv
      <3>3. \A c \in Cells : c < out => file'.wim.cells[c] = file.wim.cells[c]
        BY <2>1, <3>1, CutEffect DEF IInv, TypeInv
      <3> QED
        BY <1>1, <2>1, <3>2, <3>3 DEF BeforeOutKept
    <2>4. CASE Sync \/ Close
      BY <1>1, <2>1, <2>4 DEF Sync, Close, BeforeOutKept
    <2> QED
      BY <2>2, <2>3, <2>4
  <1>4. /\ outHdr'.table = outHdr.table
        /\ WantsIntegrity => outHdr'.integrity = outHdr.integrity
        /\ ~WantsIntegrity => outHdr'.integrity = Nowhere
    <2>1. CASE WriteHeader
      BY <2>1 DEF WriteHeader, IInv, TypeInv, OutputOK, Headers
    <2>2. CASE ~WriteHeader
      <3>1. outHdr' = outHdr /\ stage \in WithHeader
        BY <2>2 DEF Cut, Sync, Close, Goto, WithHeader
      <3> QED
        BY <3>1 DEF NewSumsOK
    <2> QED
      BY <2>1, <2>2
  <1>5. WantsIntegrity /\ wim.verified => NewSums'
    <2> SUFFICES ASSUME WantsIntegrity, wim.verified
                 PROVE  NewSums'
      OBVIOUS
    <2>1. NewSums /\ End(outHdr.table) <= out
      BY <1>1 DEF NewSumsOK, EndsOK, WithTable, WithHeader
    <2> QED
      BY <1>1, <1>3, <1>4, <2>1, SumsKept
  <1> QED
    BY <1>1, <1>2, <1>4, <1>5 DEF NewSumsOK, WithHeader

LEMMA NextKeepsNewSums ==
  ASSUME IInv, IInv', PathsOK, NewOK, EndsOK, OldSumsOK, NewSumsOK, [Next]_vars
  PROVE  NewSumsOK'
  <1>1. CASE UNCHANGED vars
    BY <1>1 DEF vars, NewSumsOK, NewSums, WantsIntegrity, HasIntegrity, Path
  <1>2. CASE ~Active /\ ~UNCHANGED vars
    <2>1. CASE Open \/ OverwriteInPlace \/ OverwriteViaTmpfile
      BY <2>1 DEF Open, OverwriteInPlace, OverwriteViaTmpfile, Begin, NewSumsOK, WithHeader
    <2>2. CASE Calls
      <3>1. stage' \in {"open", "call", "closed"} /\ (stage' = "closed" => ret' # "success")
        BY <2>2 DEF Calls, PatchAll, Refuse, Return, Call, SetImageProperty, UpdateImage, DeleteImage
      <3> QED
        BY <3>1 DEF NewSumsOK, WithHeader
    <2> QED
      BY <1>2, <2>1, <2>2, IdleSteps
  <1>3. CASE Active /\ ~UNCHANGED vars
    <2>1. UNCHANGED <<wim, mode, flags>> /\ (WantsIntegrity' <=> WantsIntegrity)
      BY <1>3, ActiveFixed DEF WantsIntegrity, HasIntegrity
    <2>2. CASE stage' = "header"
      <3>1. CASE WriteIntegrity
        BY <2>1, <2>2, <3>1, WriteIntegrityIsRight DEF NewSumsOK, WithHeader
      <3>2. CASE ~WriteIntegrity
        BY <1>3, <2>1, <2>2, <3>2, ToTheHeader DEF NewSumsOK, WithHeader
      <3> QED
        BY <3>1, <3>2
    <2>3. CASE stage' \in WithHeader
      BY <1>3, <2>3, ToTheHeader, LateKeepsNewSums
    <2>4. CASE stage' \notin WithHeader \cup {"header"}
      <3> SUFFICES ASSUME stage' = "closed", ret' = "success", wim.verified
                   PROVE  VerifyIntegrity(file'.wim)
        BY <2>1, <2>4 DEF NewSumsOK
      <3>1. (Close /\ mode # "tmp") \/ Rename
        BY <1>3, ToTheHeader
      <3>2. stage \in WithHeader /\ file'.wim = file[Path]
        BY <3>1 DEF Close, Rename, WithHeader, Path, PathsOK
      <3>3. VerifyIntegrity(file[Path])
        BY <3>2, WrittenIsVerified
      <3> QED
        BY <3>2, <3>3
    <2> QED
      BY <2>2, <2>3, <2>4
  <1> QED
    BY <1>1, <1>2, <1>3

LEMMA InitSumsInv == Init => SumsInv
  <1> SUFFICES ASSUME Init
               PROVE  SumsInv
    OBVIOUS
  <1>1. stage = "closed" /\ ret = "none"
    BY DEF Init
  <1> QED
    BY <1>1 DEF SumsInv, EndsOK, OldSumsOK, NewSumsOK, Active, WithTable, WithHeader, Going, BeforeTable

LEMMA NextKeepsSumsInv == IInv /\ ReadInv /\ SumsInv /\ [Next]_vars => SumsInv'
  <1> SUFFICES ASSUME IInv, ReadInv, SumsInv, [Next]_vars
               PROVE  SumsInv'
    OBVIOUS
  <1>1. PathsOK /\ TodoOK /\ NewOK /\ EndsOK /\ OldSumsOK /\ NewSumsOK /\ IInv'
    BY NextKeepsIInv DEF ReadInv, SumsInv
  <1> QED
    BY <1>1, NextKeepsEnds, NextKeepsOldSums, NextKeepsNewSums DEF SumsInv

(* An entry of the integrity table, of the old one as far as it is used    *)
(* again and of the new one, is the sum of what its chunk of the file      *)
(* holds.                                                                  *)
THEOREM SumsInvariance == Spec => []SumsInv
  <1>1. IInv /\ ReadInv /\ SumsInv /\ [Next]_vars => SumsInv'
    BY NextKeepsSumsInv
  <1> QED
    BY <1>1, InitSumsInv, ContentsInvariance, PTL DEF Spec

(* A call that reports success has written all of it, with an integrity    *)
(* table that is right although entries of the old one were used again:    *)
(* SuccessIsComplete.                                                      *)
LEMMA InvGivesComplete == ReadInv /\ SumsInv => SuccessIsComplete
  <1> SUFFICES ASSUME ReadInv, SumsInv
               PROVE  SuccessIsComplete
    OBVIOUS
  <1>1. ClosedOK /\ WrapperOK /\ NewSumsOK
    BY DEF ReadInv, SumsInv
  <1> QED
    BY <1>1 DEF SuccessIsComplete, ClosedOK, WrapperOK, NewSumsOK, NoClient

(* SuccessIsComplete: after a success a reader finds in the file all that  *)
(* the WIMStruct held, with an integrity table that is right.              *)
THEOREM SuccessMeansComplete == Spec => []SuccessIsComplete
  <1> QED
    BY InvGivesComplete, ContentsInvariance, SumsInvariance, PTL
=============================================================================
