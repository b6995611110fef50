--------------------------- MODULE MCWimOverwrite ---------------------------
(* Files of two images: with an integrity table and a hole at the start,   *)
(* left by an earlier append; with a resource behind the XML data, of a    *)
(* file or the metadata of the image that is changed (the first); and      *)
(* marked read-only.                                                       *)
EXTENDS WimOverwrite, TLC

Rec(id, a) == [id |-> id, at |-> a]
Refs(m1, m2, f1, f2) ==
    {Rec(<<"meta", 1, 0>>, m1), Rec(<<"meta", 2, 0>>, m2),
     Rec(<<"file", 1, 0>>, f1), Rec(<<"file", 2, 0>>, f2)}
Doc == 1 :> "Client" @@ 2 :> "none"

Row(refs, t, x, len) ==
    [c \in 1..Size |->
        IF \E r \in refs : r.at = c THEN Blob((CHOOSE r \in refs : r.at = c).id)
        ELSE IF c = t THEN Table(refs)
        ELSE IF c \in x..(x + len - 1) THEN Xml(Doc, len, c - x + 1)
        ELSE None]
Hdr(t, x, len) ==
    [NoHeader EXCEPT !.table = At(t, 1), !.xml = At(x, len), !.count = 2]
Plain(refs, t, x, len) == [hdr |-> Hdr(t, x, len), cells |-> Row(refs, t, x, len)]
WithIntegrity(f, at) ==
    [f EXCEPT !.hdr.integrity = At(at, 1),
              !.cells[at] = Integrity(End(f.hdr.table), ActualSums(f.cells, End(f.hdr.table)))]

MCFirstFiles ==
    LET plain == Plain(Refs(3, 4, 1, 2), 5, 6, 1)
        holed == Plain(Refs(4, 2, 5, 3), 6, 7, 2)
        odd   == Plain(Refs(1, 2, 3, 6), 4, 5, 1)
        far   == Plain(Refs(6, 2, 1, 3), 4, 5, 1) IN
    {WithIntegrity(holed, 9), odd, far, [plain EXCEPT !.hdr.readonly = TRUE]}
MCCallFlags ==
    {{}, {"rebuild", "check"}, {"soft_delete", "ignore_readonly", "fsync"}, {"compact", "nocheck"}}
MCFaults == {"write", "open", "access", "rename", "progress", "memory", "truncate", "header", "kill"}
=============================================================================
