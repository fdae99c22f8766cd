----------------------------- MODULE Reconciler ------------------------------
(***************************************************************************)
(* What reconciling listeners with a configuration that keeps changing     *)
(* promises: now and then the reconciler adopts the configuration as it is *)
(* at that moment, and between two adoptions it only closes what the       *)
(* adopted configuration does not want and only opens what it wants.  It   *)
(* never goes back to an older configuration.                              *)
(***************************************************************************)
CONSTANT Item       \* what can be running: a listener and its configuration

VARIABLES
    wanted,         \* the configuration
    adopted,        \* the configuration being realised
    running

vars == <<wanted, adopted, running>>

Init ==
    /\ wanted \subseteq Item
    /\ adopted = {}
    /\ running = {}

Change == wanted' \subseteq Item /\ UNCHANGED <<adopted, running>>

Adopt == adopted' = wanted /\ UNCHANGED <<wanted, running>>

Close(i) == /\ i \in running \ adopted
            /\ running' = running \ {i}
            /\ UNCHANGED <<wanted, adopted>>

(* Opening may fail: that is a stuttering step.                             *)
Open(i) == /\ i \in adopted
           /\ running' = running \cup {i}
           /\ UNCHANGED <<wanted, adopted>>

ShutDown == running' = {} /\ UNCHANGED <<wanted, adopted>>

Next == \/ Change \/ Adopt \/ ShutDown
        \/ \E i \in running : Close(i)
        \/ \E i \in adopted : Open(i)

Spec == Init /\ [][Next]_vars
=============================================================================
