--------------------------------- MODULE Pipe ---------------------------------
(***************************************************************************)
(* What the two ends of a connection see of each other, whoever carries    *)
(* the data between them: all that was sent, in order and once; the end of *)
(* the data when everything has arrived, and nothing after it.  If an end  *)
(* breaks off, the other may be told so at once.  The connection is over   *)
(* when both have been told, or before anything has come through.          *)
(***************************************************************************)
EXTENDS Naturals, Sequences

CONSTANTS Conn, Side

(* Of each end: how many pieces it has sent, whether it has finished or     *)
(* broken off, the pieces of the other end it has got, and whether it has   *)
(* been told that there are no more.                                        *)
VARIABLE pipe

Fresh ==
    [sent |-> [x \in Side |-> 0], end |-> [x \in Side |-> "open"],
     heard |-> [x \in Side |-> <<>>], told |-> [x \in Side |-> FALSE],
     over |-> FALSE]

Init == pipe = [c \in Conn |-> Fresh]

Send(c, x) ==
    /\ pipe[c].end[x] = "open"
    /\ pipe' = [pipe EXCEPT ![c].sent[x] = @ + 1]

Finish(c, x) ==
    /\ pipe[c].end[x] = "open"
    /\ pipe' = [pipe EXCEPT ![c].end[x] = "fin"]

BreakOff(c, x) == pipe' = [pipe EXCEPT ![c].end[x] = "reset"]

(* The next pieces from x arrive at y.                                      *)
Hear(c, x, y) ==
    /\ ~ pipe[c].told[y] /\ pipe[c].end[y] # "reset"
    /\ \E n \in Len(pipe[c].heard[y]) + 1 .. pipe[c].sent[x] :
           pipe' = [pipe EXCEPT ![c].heard[y] = [i \in 1 .. n |-> i]]

Tell(c, x, y) ==
    /\ ~ pipe[c].told[y]
    /\ \/ pipe[c].end[x] = "fin" /\ Len(pipe[c].heard[y]) = pipe[c].sent[x]
       \/ \E z \in Side : pipe[c].end[z] = "reset"
    /\ pipe' = [pipe EXCEPT ![c].told[y] = TRUE]

End(c) ==
    /\ \/ \A x \in Side : pipe[c].told[x]
       \/ \A x \in Side : pipe[c].heard[x] = <<>>
    /\ pipe' = [pipe EXCEPT ![c].over = TRUE]

Step(c) ==
    /\ ~ pipe[c].over
    /\ \/ End(c)
       \/ \E x \in Side :
             \/ Send(c, x) \/ Finish(c, x) \/ BreakOff(c, x)
             \/ \E y \in Side \ {x} : Hear(c, x, y) \/ Tell(c, x, y)

Next == \E c \in Conn : Step(c)

Spec == Init /\ [][Next]_pipe
=============================================================================
