----------------------------- MODULE SavedMemory -----------------------------
(***************************************************************************)
(* What a store that keeps its state in memory and saves it to a file      *)
(* promises: an edit changes the memory, a save makes exactly the memory   *)
(* what is saved, the end of the process loses the memory and nothing      *)
(* else, and the next start begins from what was saved last.  Nothing else *)
(* is ever saved, in particular nothing half written.                      *)
(***************************************************************************)
CONSTANTS
    Value,          \* what the store can hold
    Nothing         \* the memory of a process that is not running

VARIABLES
    memory,
    saved,          \* what the next start will begin with
    up,
    acknowledged    \* the last edit has been answered with success

vars == <<memory, saved, up, acknowledged>>

Init ==
    /\ memory = Nothing
    /\ saved \in Value
    /\ up = FALSE
    /\ acknowledged = FALSE

Edit ==
    /\ up
    /\ memory' \in Value
    /\ acknowledged' = FALSE
    /\ UNCHANGED <<saved, up>>

(* The one step in which what is saved changes.  A first save, made before  *)
(* there has been an edit, acknowledges none.                               *)
Save ==
    /\ up
    /\ saved' = memory
    /\ acknowledged' \in BOOLEAN
    /\ UNCHANGED <<memory, up>>

End ==
    /\ memory' = Nothing
    /\ up' = FALSE
    /\ acknowledged' = FALSE
    /\ UNCHANGED saved

Start ==
    /\ ~ up
    /\ memory' = saved
    /\ up' = TRUE
    /\ UNCHANGED <<saved, acknowledged>>

Next == Edit \/ Save \/ End \/ Start

Spec == Init /\ [][Next]_vars
=============================================================================
