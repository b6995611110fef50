---------------------------- MODULE UpdateImage ----------------------------
(***************************************************************************)
(* wimlib_update_image of update_image.c: commands that add, delete and    *)
(* rename files change the tree of dentries at once; a journal of what     *)
(* they did to it, and the list of the dentries that are in no tree, allow *)
(* everything to be undone when a command fails.  Memory can run out, a    *)
(* source can be unreadable and the caller can break off at each progress  *)
(* message.                                                                *)
(***************************************************************************)
EXTENDS Integers, Sequences, FiniteSets, SequencesExt

CONSTANTS
    Commands,        \* the commands an update can have
    Images,          \* the images it can start from
    Names,           \* the names of files
    MaxCommands,     \* bound: the number of commands
    InlineEntries,   \* the length of inline_entries
    Faults           \* what may fail: "memory", "scan", "progress"

(* A file of a tree is in a directory of the tree. *)
IsTree(dirs) ==
    /\ DOMAIN dirs \subseteq Seq(Names)
    /\ dirs # <<>> => <<>> \in DOMAIN dirs
    /\ \A p \in DOMAIN dirs :
          /\ dirs[p] \in BOOLEAN
          /\ p # <<>> => Front(p) \in DOMAIN dirs /\ dirs[Front(p)]
DirsOf(img) == [p \in DOMAIN img |-> img[p].content = <<>>]

(* The name of a root. *)
Unnamed == ""
ASSUME NamesAssumption == Unnamed \notin Names
ASSUME ImagesAssumption ==
    \A img \in Images :
        IsTree(DirsOf(img)) /\ (img # <<>> => <<>> \in DOMAIN img /\ img[<<>>].content = <<>>)
ASSUME CommandsAssumption ==
    \A c \in Commands :
        \/ c.op = "add" /\ c.path \in Seq(Names) /\ IsTree(c.tree)
        \/ c.op = "delete" /\ c.path \in Seq(Names)
        \/ c.op = "rename" /\ {c.from, c.to} \subseteq Seq(Names)
ASSUME EntriesAssumption == InlineEntries \in Nat \ {0} /\ MaxCommands \in Nat

VARIABLES
    pc,        \* where the update is
    cmds,      \* the commands so far
    prims,     \* j->cmd_prims
    image,     \* the dentries, the root of the image and j->orphans
    stack,     \* the calls of handle_conflict: branch and existing
    before,    \* ghost: the image as it was
    broken     \* ghost: whether one of Faults has happened

vars == <<pc, cmds, prims, image, stack, before, broken>>

-----------------------------------------------------------------------------
(* The tree of dentries.  A dentry is named by the number of the command   *)
(* that made it (0: it was there, negative: a filler) and the path it was  *)
(* made for.  The parent of a root, and of a dentry that is in no tree, is *)
(* the dentry itself.                                                      *)

None == <<0, <<Unnamed>>>>
NameOf(p) == IF p = <<>> THEN Unnamed ELSE Last(p)

Grown(i, dirs, shorts) ==
    [n \in {<<i, p>> : p \in DOMAIN dirs} |->
        [name |-> NameOf(n[2]), short |-> shorts, dir |-> dirs[n[2]],
         parent |-> IF n[2] = <<>> THEN n ELSE <<i, Front(n[2])>>]]

Children(s, n) == {m \in DOMAIN s.dentries \ {n} : s.dentries[m].parent = n}
Named(s, n, name) == {m \in Children(s, n) : s.dentries[m].name = name}
Child(s, n, name) == IF Named(s, n, name) = {} THEN None ELSE CHOOSE m \in Named(s, n, name) : TRUE

(* get_dentry *)
Get(s, p) ==
    LET at[k \in 0..Len(p)] ==
            IF k = 0 THEN s.root
            ELSE IF at[k - 1] = None THEN None ELSE Child(s, at[k - 1], p[k])
    IN at[Len(p)]

Ancestors(s) ==
    LET up[n \in DOMAIN s.dentries] ==
            {n} \cup (IF s.dentries[n].parent = n THEN {} ELSE up[s.dentries[n].parent])
    IN up
Subtree(s, n) == {m \in DOMAIN s.dentries : n \in Ancestors(s)[m]}
With(s, new) ==
    [s EXCEPT !.dentries = [n \in DOMAIN @ \cup DOMAIN new |->
                                IF n \in DOMAIN new THEN new[n] ELSE @[n]]]
Without(s, gone) == [s EXCEPT !.dentries = [n \in DOMAIN @ \ gone |-> @[n]]]

(* Mutant: only the dentry itself is freed. *)
FreeDentryOnly(s, n) == Without(s, {n})
FreeTree(s, n) == Without(s, Subtree(s, n))

(* do_link; two children of one name can not be linked.  do_unlink. *)
Link(s, n, parent) ==
    IF parent = None THEN [s EXCEPT !.root = n]
    ELSE IF Named(s, parent, s.dentries[n].name) # {} THEN s
    ELSE [s EXCEPT !.dentries[n].parent = parent]
Unlink(s, n, parent) ==
    IF parent = None THEN [s EXCEPT !.root = None] ELSE [s EXCEPT !.dentries[n].parent = n]

-----------------------------------------------------------------------------
(* The journal.                                                            *)

LinkPrim(n, parent) == [op |-> "link", subject |-> n, parent |-> parent]
UnlinkPrim(s, n) == [op |-> "unlink", subject |-> n,
                     parent |-> IF s.dentries[n].parent = n THEN None ELSE s.dentries[n].parent]
NamePrim(s, n, name) == [op |-> "name", subject |-> n, old |-> s.dentries[n].name, new |-> name]
ShortNamePrim(s, n) == [op |-> "short", subject |-> n, old |-> s.dentries[n].short]

(* journaled_link, journaled_unlink, journaled_change_name *)
Do(s, q) ==
    CASE q.op = "link" -> [Link(s, q.subject, q.parent) EXCEPT !.orphans = @ \ {q.subject}]
      [] q.op = "unlink" -> [Unlink(s, q.subject, q.parent) EXCEPT !.orphans = @ \cup {q.subject}]
      [] q.op = "name" -> [s EXCEPT !.dentries[q.subject].name = q.new]
      [] q.op = "short" -> [s EXCEPT !.dentries[q.subject].short = FALSE]

(* Mutant: a new dentry that is unlinked again is forgotten. *)
UndoAndForget(s, q) ==
    CASE q.op = "link" -> Unlink(s, q.subject, q.parent)
      [] q.op = "unlink" -> [Link(s, q.subject, q.parent) EXCEPT !.orphans = @ \ {q.subject}]
      [] q.op = "name" -> [s EXCEPT !.dentries[q.subject].name = q.old]
      [] q.op = "short" -> [s EXCEPT !.dentries[q.subject].short = q.old]

(* rollback_update_primitive *)
Undo(s, q) ==
    CASE q.op = "link" -> [Unlink(s, q.subject, q.parent) EXCEPT !.orphans = @ \cup {q.subject}]
      [] q.op = "unlink" -> [Link(s, q.subject, q.parent) EXCEPT !.orphans = @ \ {q.subject}]
      [] q.op = "name" -> [s EXCEPT !.dentries[q.subject].name = q.old]
      [] q.op = "short" -> [s EXCEPT !.dentries[q.subject].short = q.old]

cur == Len(cmds)
cmd == cmds[cur]

(* record_update_primitive needs memory when the entries of the command's *)
(* list are used up; then they are doubled.                                *)
Full(n) == n \in {InlineEntries * 2^k : k \in 0..n}

(* The primitives qs are recorded and done in this order, or only those    *)
(* before the first that can not be recorded.                              *)
Journal(s, qs, failed) ==
    \E k \in 0..Len(qs) :
        /\ failed = (k < Len(qs))
        /\ failed => /\ "memory" \in Faults
                     /\ Full(Len(prims[cur]) + k) \/ qs[k + 1].op = "name"
        /\ image' = FoldLeft(Do, s, SubSeq(qs, 1, k))
        /\ prims' = [prims EXCEPT ![cur] = @ \o SubSeq(qs, 1, k)]
        /\ broken' = (broken \/ failed)

-----------------------------------------------------------------------------
Init ==
    /\ \E img \in Images :
         /\ before = img
         /\ image = [dentries |-> Grown(0, DirsOf(img), TRUE),
                     root |-> IF img = <<>> THEN None ELSE <<0, <<>>>>,
                     orphans |-> {}]
    /\ pc = "command" /\ cmds = <<>> /\ prims = <<>> /\ stack = <<>> /\ broken = FALSE

(* The caller can break off before and after each command. *)
BeginCommand ==
    /\ pc = "command" /\ Len(cmds) < MaxCommands
    /\ \E c \in Commands :
         /\ cmds' = Append(cmds, c) /\ prims' = Append(prims, <<>>)
         /\ \/ pc' = c.op /\ UNCHANGED broken
            \/ "progress" \in Faults /\ pc' = "rollback" /\ broken' = TRUE
    /\ UNCHANGED <<image, stack, before>>

EndCommand ==
    /\ pc = "end"
    /\ \/ pc' = "command" /\ UNCHANGED broken
       \/ "progress" \in Faults /\ pc' = "rollback" /\ broken' = TRUE
    /\ UNCHANGED <<cmds, prims, image, stack, before>>

(* execute_delete_command *)
DeletePath ==
    /\ pc = "delete"
    /\ LET tree == Get(image, cmd.path) IN
       IF tree = None \/ (image.dentries[tree].dir /\ ~cmd.recursive)
       THEN /\ pc' = IF tree = None /\ cmd.force THEN "end" ELSE "rollback"
            /\ UNCHANGED <<image, prims, broken>>
       ELSE \E failed \in BOOLEAN :
            /\ Journal(image, <<UnlinkPrim(image, tree)>>, failed)
            /\ pc' = IF failed THEN "rollback" ELSE "end"
    /\ UNCHANGED <<cmds, stack, before>>

(* rename_wim_path *)
RenamePrims(src, dst, parent, name) ==
    (IF dst = None THEN <<>> ELSE <<UnlinkPrim(image, dst)>>)
      \o <<UnlinkPrim(image, src), NamePrim(image, src, name), ShortNamePrim(image, src),
           LinkPrim(src, parent)>>

CanRename(src, dst, parent) ==
    /\ src # None
    /\ dst # None => /\ image.dentries[src].dir = image.dentries[dst].dir
                     /\ Children(image, dst) = {}
    /\ parent # None /\ image.dentries[parent].dir
    /\ src \notin Ancestors(image)[parent]

RenamePath ==
    /\ pc = "rename"
    /\ LET src == Get(image, cmd.from)
           dst == Get(image, cmd.to)
           parent == IF dst # None THEN image.dentries[dst].parent
                     ELSE IF cmd.to = <<>> THEN image.root ELSE Get(image, Front(cmd.to)) IN
       IF src = dst \/ ~CanRename(src, dst, parent)
       THEN /\ pc' = IF src = dst /\ src # None THEN "end" ELSE "rollback"
            /\ UNCHANGED <<image, prims, broken>>
       ELSE \E failed \in BOOLEAN :
            /\ Journal(image, RenamePrims(src, dst, parent, NameOf(cmd.to)), failed)
            /\ pc' = IF failed THEN "rollback" ELSE "end"
    /\ UNCHANGED <<cmds, stack, before>>

-----------------------------------------------------------------------------
(* execute_add_command: the source is scanned into a tree of its own, the  *)
(* branch, which gets its name and is then attached.  A source that is     *)
(* excluded gives none.                                                    *)

Branch == <<cur, <<>>>>

RootIsFile == cmd.path = <<>> /\ ~cmd.tree[<<>>]

Scan ==
    /\ pc = "add"
    /\ \/ "scan" \in Faults /\ pc' = "rollback" /\ broken' = TRUE /\ UNCHANGED image
       \/ cmd.tree = <<>> /\ pc' = "end" /\ UNCHANGED <<image, broken>>
       \/ cmd.tree # <<>> /\ RootIsFile /\ pc' = "rollback" /\ UNCHANGED <<image, broken>>
       \/ /\ cmd.tree # <<>> /\ ~RootIsFile
          /\ image' = With(image,
                [Grown(cur, cmd.tree, FALSE) EXCEPT ![Branch].name = NameOf(cmd.path)])
          /\ pc' = "attach" /\ UNCHANGED broken
    /\ UNCHANGED <<cmds, prims, stack, before>>

(* What was taken out of the branch to be linked is put back, and the      *)
(* branch is freed with what is left in it.                                *)
Refuse(s, chain) ==
    FreeTree([s EXCEPT !.dentries = [n \in DOMAIN @ |->
                IF \E k \in 2..Len(chain) : chain[k] = n
                THEN [@[n] EXCEPT !.parent = chain[(CHOOSE k \in 2..Len(chain) : chain[k] = n) - 1]]
                ELSE @[n]]],
             Branch)
Branches == [k \in 1..Len(stack) |-> stack[k].branch]

AttachFails ==
    /\ image' = Refuse(image, <<Branch>>)
    /\ pc' = "rollback" /\ UNCHANGED <<prims, stack>>

(* Journal one link of n; when it fails, what chain tells of the branch is *)
(* put back and freed.                                                     *)
LinkOr(s, qs, chain, ok) ==
    \/ Journal(s, qs, FALSE) /\ ok
    \/ \E k \in 0..(Len(qs) - 1) :
          /\ "memory" \in Faults /\ Full(Len(prims[cur]) + k)
          /\ image' = Refuse(FoldLeft(Do, s, SubSeq(qs, 1, k)), chain)
          /\ prims' = [prims EXCEPT ![cur] = @ \o SubSeq(qs, 1, k)]
          /\ pc' = "rollback" /\ stack' = <<>> /\ broken' = TRUE

(* do_attach_branch: the directories on the way that are missing are made. *)
Prefix(k) == SubSeq(cmd.path, 1, k)
Missing == {k \in 0..(Len(cmd.path) - 1) : Get(image, Prefix(k)) = None}
Deepest == IF Missing = {} THEN Len(cmd.path) - 1 ELSE Min(Missing) - 1
WayIsBarred == Deepest >= 0 /\ ~image.dentries[Get(image, Prefix(Deepest))].dir

MakeFiller ==
    /\ pc = "attach" /\ Missing # {} /\ ~WayIsBarred
    /\ LET k == Deepest + 1
           filler == <<-cur, Prefix(k)>>
           parent == IF k = 0 THEN None ELSE Get(image, Prefix(k - 1))
           s == With(image, [n \in {filler} |->
                                [name |-> NameOf(Prefix(k)), short |-> FALSE, dir |-> TRUE,
                                 parent |-> filler]]) IN
       \/ Journal(s, <<LinkPrim(filler, parent)>>, FALSE) /\ UNCHANGED <<pc, stack>>
       \/ "memory" \in Faults /\ broken' = TRUE /\ AttachFails
    /\ UNCHANGED <<cmds, before>>

Attach ==
    /\ pc = "attach" /\ (Missing = {} \/ WayIsBarred)
    /\ LET existing == Get(image, cmd.path)
           parent == IF cmd.path = <<>> THEN None ELSE Get(image, Front(cmd.path)) IN
       IF WayIsBarred THEN AttachFails /\ UNCHANGED broken
       ELSE IF existing = None
       THEN LinkOr(image, <<LinkPrim(Branch, parent)>>, <<Branch>>, pc' = "end" /\ UNCHANGED stack)
       ELSE /\ stack' = <<[branch |-> Branch, existing |-> existing]>> /\ pc' = "conflict"
            /\ UNCHANGED <<image, prims, broken>>
    /\ UNCHANGED <<cmds, before>>

-----------------------------------------------------------------------------
(* handle_conflict: directories are overlaid, files replaced.              *)

top == stack[Len(stack)]
Return == stack' = Front(stack) /\ pc' = IF Len(stack) = 1 THEN "end" ELSE "overlay"

Conflict ==
    /\ pc = "conflict"
    /\ LET branch == image.dentries[top.branch]
           existing == image.dentries[top.existing]
           swap == <<UnlinkPrim(image, top.existing), LinkPrim(top.branch, existing.parent)>> IN
       \/ /\ branch.dir # existing.dir \/ (~branch.dir /\ cmd.noReplace)
          /\ image' = Refuse(image, Branches) /\ pc' = "rollback" /\ stack' = <<>>
          /\ UNCHANGED <<prims, broken>>
       \/ /\ branch.dir /\ existing.dir
          /\ pc' = "overlay" /\ UNCHANGED <<image, prims, stack, broken>>
       \/ /\ ~branch.dir /\ ~existing.dir /\ ~cmd.noReplace
          /\ \/ LinkOr(image, swap, Branches, Return)
             \/ /\ "progress" \in Faults /\ broken' = TRUE
                /\ image' = Refuse(image, Branches) /\ pc' = "rollback" /\ stack' = <<>>
                /\ UNCHANGED prims
    /\ UNCHANGED <<cmds, before>>

OverlayChild ==
    /\ pc = "overlay"
    /\ \E child \in Children(image, top.branch) :
         LET s == Unlink(image, child, top.branch)
             existing == Child(image, top.existing, image.dentries[child].name) IN
         IF existing # None
         THEN /\ image' = s /\ pc' = "conflict"
              /\ stack' = Append(stack, [branch |-> child, existing |-> existing])
              /\ UNCHANGED <<prims, broken>>
         ELSE LinkOr(s, <<LinkPrim(child, top.existing)>>, Append(Branches, child),
                     UNCHANGED <<pc, stack>>)
    /\ UNCHANGED <<cmds, before>>

OverlayDone ==
    /\ pc = "overlay" /\ Children(image, top.branch) = {}
    /\ image' = FreeTree(image, top.branch)
    /\ Return
    /\ UNCHANGED <<cmds, prims, before, broken>>

-----------------------------------------------------------------------------
(* free_update_command_journal *)
FreeOrphans(s) ==
    [Without(s, UNION {Subtree(s, n) : n \in s.orphans}) EXCEPT !.orphans = {}]

(* commit_update *)
Commit ==
    /\ pc = "command" /\ cmds # <<>>
    /\ image' = FreeOrphans(image) /\ pc' = "ok"
    /\ UNCHANGED <<cmds, prims, stack, before, broken>>

(* Mutant: each command is undone from its beginning. *)
FirstOne(list) == 1
NextToUndo(list) == Len(list)

(* rollback_update: the commands from the current one back to the first,   *)
(* each from its last primitive.                                           *)
RollbackOne ==
    /\ pc = "rollback"
    /\ \E i \in 1..cur :
         /\ prims[i] # <<>> /\ \A j \in (i + 1)..cur : prims[j] = <<>>
         /\ image' = Undo(image, prims[i][NextToUndo(prims[i])])
         /\ prims' = [prims EXCEPT ![i] = RemoveAt(@, NextToUndo(@))]
    /\ UNCHANGED <<pc, cmds, stack, before, broken>>

RollbackDone ==
    /\ pc = "rollback" /\ \A i \in 1..cur : prims[i] = <<>>
    /\ image' = FreeOrphans(image) /\ pc' = "error"
    /\ UNCHANGED <<cmds, prims, stack, before, broken>>

Next ==
    \/ BeginCommand \/ EndCommand \/ DeletePath \/ RenamePath
    \/ Scan \/ MakeFiller \/ Attach \/ Conflict \/ OverlayChild \/ OverlayDone
    \/ Commit \/ RollbackOne \/ RollbackDone

Spec == Init /\ [][Next]_vars

-----------------------------------------------------------------------------
(* Properties                                                              *)

(* The dentries form trees: every parent is there and is a directory, no   *)
(* two of its children have one name; what the journal and the calls under *)
(* way point to has not been freed, so nothing is used or freed afterwards.*)
TypeOK ==
    /\ pc \in {"command", "add", "delete", "rename", "attach", "conflict", "overlay", "end",
               "rollback", "ok", "error"}
    /\ image.root \in DOMAIN image.dentries \cup {None}
    /\ image.orphans \subseteq DOMAIN image.dentries
    /\ \A n \in DOMAIN image.dentries :
          LET p == image.dentries[n].parent IN
          /\ p \in DOMAIN image.dentries
          /\ p # n => /\ image.dentries[p].dir
                      /\ Named(image, p, image.dentries[n].name) = {n}
    /\ \A k \in DOMAIN stack : {stack[k].branch, stack[k].existing} \subseteq DOMAIN image.dentries
    /\ pc \notin {"ok", "error"} => \A i \in DOMAIN prims : \A k \in DOMAIN prims[i] :
          /\ prims[i][k].subject \in DOMAIN image.dentries
          /\ prims[i][k].op \in {"link", "unlink"} =>
                prims[i][k].parent \in DOMAIN image.dentries \cup {None}

(* Every tree has one owner who will free it: the image, the list of the   *)
(* orphans or, during an add, the branch and what was just taken out of    *)
(* it.  At the end only the image is left, whatever failed and wherever.   *)
Owned ==
    ({image.root} \ {None})
      \cup image.orphans
      \cup (IF pc \in {"attach", "conflict", "overlay"} THEN {Branch} ELSE {})
      \cup {stack[k].branch : k \in DOMAIN stack}
EveryTreeHasOneOwner ==
    /\ {n \in DOMAIN image.dentries : image.dentries[n].parent = n} = Owned
    /\ image.root \notin image.orphans
    /\ pc \in {"ok", "error"} => Owned \subseteq {image.root}

(* The update is atomic (update_image.c:42-46): it does what its commands  *)
(* say, one after the other, or leaves the image as it was, names, DOS     *)
(* names and order of the replacements included; and it fails only when a  *)
(* command can not be done or something gave out.                          *)
Shown ==
    LET path[n \in DOMAIN image.dentries] ==
            IF image.dentries[n].parent = n THEN <<>>
            ELSE Append(path[image.dentries[n].parent], image.dentries[n].name)
        kept == IF image.root = None THEN {} ELSE Subtree(image, image.root) IN
    [p \in {path[n] : n \in kept} |->
        LET n == CHOOSE m \in kept : path[m] = p IN
        [content |-> IF image.dentries[n].dir THEN <<>> ELSE n, short |-> image.dentries[n].short]]

Promise == INSTANCE AtomicUpdate WITH
    files <- IF pc \in {"ok", "error"} THEN Shown ELSE before,
    asked <- cmds,
    outcome <- IF pc \in {"ok", "error"} THEN pc ELSE "none",
    disturbed <- broken
UpdateIsAtomic == Promise!Spec
=============================================================================
