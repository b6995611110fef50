---------------------------- MODULE AtomicUpdate ----------------------------
(***************************************************************************)
(* What wimlib_update_image promises: the commands are carried out one     *)
(* after the other, or, if one can not be or something fails, the image is *)
(* as before.  An image is a function from the paths of its files to what  *)
(* is there, paths are sequences of names, <<>> is the root.  Module       *)
(* UpdateImage implements it with a tree of dentries and a journal.        *)
(***************************************************************************)
EXTENDS Naturals, Sequences
LOCAL INSTANCE SequencesExt

CONSTANTS
    Commands,    \* the commands an update can have
    Images       \* the images it can start from

VARIABLES
    files,       \* the image
    asked,       \* the commands taken up so far
    outcome,     \* "none", "ok" or "error"
    disturbed    \* whether memory, a source or the caller gave out

vars == <<files, asked, outcome, disturbed>>

(* A file has the number of the command it came with and its path in the   *)
(* source as its content; short is whether it has a DOS name.              *)
Dir == <<>>
IsDir(img, p) == img[p].content = Dir
Plain(content) == [content |-> content, short |-> FALSE]

Refused == [p \in {<<"refused">>} |-> Plain(Dir)]   \* the result of a command that can not be done
Below(p, q) == IsPrefix(p, q)   \* q is p or inside of it
Above(p) == {SubSeq(p, 1, k) : k \in 0..(Len(p) - 1)}

(* c.tree tells of every path of the source whether it is a directory.  A  *)
(* directory that is there already is kept, a file is replaced.            *)
Add(img, i, c) ==
    LET new == {c.path \o r : r \in DOMAIN c.tree}
        given(q) == c.tree[SubSeq(q, Len(c.path) + 1, Len(q))]
        met == new \cap DOMAIN img IN
    IF \/ \E q \in Above(c.path) \cap DOMAIN img : ~IsDir(img, q)
       \/ c.path = <<>> /\ \E q \in new : q = <<>> /\ ~given(q)
       \/ \E q \in met : given(q) # IsDir(img, q)
       \/ c.noReplace /\ \E q \in met : ~IsDir(img, q)
    THEN IF new = {} THEN img ELSE Refused
    ELSE [q \in DOMAIN img \cup new \cup (IF new = {} THEN {} ELSE Above(c.path)) |->
            IF q \in new /\ ~given(q)
            THEN Plain(<<i, SubSeq(q, Len(c.path) + 1, Len(q))>>)
            ELSE IF q \in DOMAIN img THEN img[q] ELSE Plain(Dir)]

Delete(img, c) ==
    IF c.path \notin DOMAIN img THEN IF c.force THEN img ELSE Refused
    ELSE IF IsDir(img, c.path) /\ ~c.recursive THEN Refused
    ELSE [q \in {p \in DOMAIN img : ~Below(c.path, p)} |-> img[q]]

Rename(img, c) ==
    LET inside == {q \in DOMAIN img : Below(c.to, q)}
        parent == IF c.to = <<>> THEN <<>> ELSE Front(c.to)
        moved(q) == c.from \o SubSeq(q, Len(c.to) + 1, Len(q))
        taken == {c.to \o SubSeq(q, Len(c.from) + 1, Len(q)) :
                    q \in {p \in DOMAIN img : Below(c.from, p)}} IN
    IF c.from \notin DOMAIN img THEN Refused
    ELSE IF c.from = c.to THEN img
    ELSE IF \/ parent \notin DOMAIN img \/ ~IsDir(img, parent)
            \/ Below(c.from, parent)
            \/ c.to \in DOMAIN img /\ (IsDir(img, c.from) # IsDir(img, c.to))
            \/ Cardinality(inside) > 1
    THEN Refused
    ELSE [q \in taken \cup {p \in DOMAIN img : ~Below(c.from, p) /\ ~Below(c.to, p)} |->
            IF q = c.to THEN Plain(IF IsDir(img, c.from) THEN Dir ELSE img[c.from].content)
            ELSE IF q \in taken THEN img[moved(q)] ELSE img[q]]

(* The image after the first n commands. *)
After(img, cs) ==
    LET after[n \in 0..Len(cs)] ==
            IF n = 0 THEN img
            ELSE IF after[n - 1] = Refused THEN Refused
            ELSE CASE cs[n].op = "add" -> Add(after[n - 1], n, cs[n])
                   [] cs[n].op = "delete" -> Delete(after[n - 1], cs[n])
                   [] cs[n].op = "rename" -> Rename(after[n - 1], cs[n])
    IN after[Len(cs)]

Init == files \in Images /\ asked = <<>> /\ outcome = "none" /\ disturbed = FALSE

Ask ==
    /\ outcome = "none"
    /\ \E c \in Commands : asked' = Append(asked, c)
    /\ disturbed' \in {disturbed, TRUE}
    /\ UNCHANGED <<files, outcome>>

Disturb ==
    /\ outcome = "none" /\ disturbed' = TRUE
    /\ UNCHANGED <<files, asked, outcome>>

Succeed ==
    /\ outcome = "none" /\ outcome' = "ok" /\ ~disturbed
    /\ After(files, asked) # Refused
    /\ files' = After(files, asked)
    /\ UNCHANGED <<asked, disturbed>>

Fail ==
    /\ outcome = "none" /\ outcome' = "error"
    /\ disturbed \/ After(files, asked) = Refused
    /\ UNCHANGED <<files, asked, disturbed>>

Next == Ask \/ Disturb \/ Succeed \/ Fail
Spec == Init /\ [][Next]_vars
=============================================================================
