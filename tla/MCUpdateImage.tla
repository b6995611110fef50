--------------------------- MODULE MCUpdateImage ---------------------------
EXTENDS UpdateImage

MCNames == {"a", "b", "c"}

File(p) == [content |-> <<0, p>>, short |-> TRUE]
Folder == [content |-> <<>>, short |-> TRUE]

(* The empty image, and one of a directory with two files and a file. *)
MCImages == {
    <<>>,
    (<<>> :> Folder) @@ (<<"a">> :> Folder) @@ (<<"a", "a">> :> File(<<"a", "a">>))
        @@ (<<"a", "b">> :> File(<<"a", "b">>)) @@ (<<"b">> :> File(<<"b">>))}

(* Sources: an excluded one, a file, and a tree that overlays the image,   *)
(* with a file where there is none and a directory in a directory.         *)
OneFile == <<>> :> FALSE
SmallTree == (<<>> :> TRUE) @@ (<<"a">> :> FALSE) @@ (<<"c">> :> FALSE)
DeepTree == (<<>> :> TRUE) @@ (<<"a">> :> TRUE) @@ (<<"a", "a">> :> FALSE) @@ (<<"a", "c">> :> FALSE)

AddCommand(path, tree, keep) == [op |-> "add", path |-> path, tree |-> tree, noReplace |-> keep]
DeleteCommand(path, all) == [op |-> "delete", path |-> path, recursive |-> all, force |-> ~all]
RenameCommand(from, to) == [op |-> "rename", from |-> from, to |-> to]

MCCommands ==
    {AddCommand(<<"a">>, SmallTree, keep) : keep \in BOOLEAN}
      \cup {AddCommand(p, DeepTree, FALSE) : p \in {<<>>, <<"a">>}}
      \cup {AddCommand(<<"c", "b">>, OneFile, FALSE), AddCommand(<<>>, OneFile, FALSE),
            AddCommand(<<"b">>, <<>>, FALSE)}
      \cup {DeleteCommand(p, all) : p \in {<<>>, <<"a">>, <<"c">>}, all \in BOOLEAN}
      \cup {RenameCommand(<<"a">>, <<"c">>), RenameCommand(<<"a">>, <<"a", "c">>),
            RenameCommand(<<"a", "b">>, <<"b">>), RenameCommand(<<"b">>, <<"a", "b">>),
            RenameCommand(<<"c">>, <<"b">>)}

MCFaults == {"memory", "scan", "progress"}
=============================================================================
