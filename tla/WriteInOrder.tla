---------------------------- MODULE WriteInOrder ----------------------------
(***************************************************************************)
(* What a write promises about the files of the medium, whatever fails:    *)
(* the files of the source are taken in their order, only the file whose   *)
(* turn it is changes on the medium, nothing is taken up or changed after  *)
(* the callback has said Stop, and YES is returned only after the last     *)
(* file had its turn.  Module DiskWriter implements it.                    *)
(***************************************************************************)
EXTENDS Naturals

CONSTANTS
    Contents,    \* what the medium can hold for a file
    Untouched    \* a file that is not there yet

VARIABLES
    total,       \* number of files of the source
    current,     \* the file whose turn it is, 0 before the first
    medium,      \* content of every file on the medium
    stopped,     \* the callback has said Stop
    outcome      \* what the write returned

vars == <<total, current, medium, stopped, outcome>>

Init ==
    /\ total \in Nat
    /\ current = 0
    /\ medium = [f \in 1..total |-> Untouched]
    /\ stopped = FALSE
    /\ outcome = "none"

Running == outcome = "none" /\ ~stopped

NextFile ==
    /\ Running
    /\ current < total
    /\ current' = current + 1
    /\ UNCHANGED <<total, medium, stopped, outcome>>

(* Work on the current file; it may end in a stop or with the whole write. *)
Work ==
    /\ Running
    /\ IF current = 0
         THEN UNCHANGED medium
         ELSE \E c \in Contents : medium' = [medium EXCEPT ![current] = c]
    /\ stopped' \in BOOLEAN
    /\ outcome' = "none" \/ outcome' = "NO"
    /\ UNCHANGED <<total, current>>

(* After a stop only the return is left. *)
ReturnStopped ==
    /\ outcome = "none"
    /\ stopped
    /\ outcome' = "NO"
    /\ UNCHANGED <<total, current, medium, stopped>>

(* A stop that comes with the last report does not undo the success. *)
ReturnYES ==
    /\ Running
    /\ current = total
    /\ outcome' = "YES"
    /\ stopped' \in BOOLEAN
    /\ UNCHANGED <<total, current, medium>>

Next == NextFile \/ Work \/ ReturnStopped \/ ReturnYES

Spec == Init /\ [][Next]_vars
=============================================================================
