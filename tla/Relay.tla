--------------------------------- MODULE Relay ---------------------------------
(***************************************************************************)
(* One relayed TCP connection: dial the target, write the PROXY header and *)
(* the ClientHello that was peeked, then copy in both directions, passing  *)
(* on each half-close, and close both sockets when both copies are done.   *)
(* handleTCP (forward.go) and spliceTo (domains.go) are this same code; a  *)
(* forward has nothing peeked to replay.  The listeners' modules           *)
(* instantiate this one with their own connections.                        *)
(***************************************************************************)
EXTENDS Integers, SequencesExt

CONSTANTS
    Conn,       \* connections
    Chunks      \* bound: how many pieces of data each end sends

Side == {"client", "target"}
Other(x) == CHOOSE y \in Side : y # x

ASSUME RelayAssumption == Chunks \in [Side -> Nat]

(* What is written is a sequence of numbered pieces, ahead of them the      *)
(* PROXY header.                                                            *)
Header == 0

VARIABLE relay

(* Stages of a connection before it is relayed, or when it never is: in the *)
(* accept queue, and in the hands of the SNI listener or of an HTTP server. *)
Early == {"queued", "peek", "decide", "offer", "served"}

(* header and hello: what goes ahead of the copied data, the latter being   *)
(* the number of pieces already read from the client.  The two ends: what   *)
(* each has sent, whether it has finished ("fin") or broken off ("reset"),  *)
(* what the relay has read from it and written to it, and whether the relay *)
(* has closed the writing half towards it.  copy[x] copies from x.  A relay *)
(* that has copied ends "closed", every other connection "dropped".         *)
RelayType ==
    [stage  : Early \cup {"none", "dial", "header", "hello", "copy", "closed", "dropped"},
     header : BOOLEAN,
     hello  : Nat,
     sent   : [Side -> Nat],
     end    : [Side -> {"open", "fin", "reset"}],
     taken  : [Side -> Nat],
     got    : [Side -> Seq(Nat)],
     eof    : [Side -> BOOLEAN],
     copy   : [Side -> {"run", "done"}]]

NoRelay ==
    [stage |-> "none", header |-> FALSE, hello |-> 0,
     sent |-> [x \in Side |-> 0], end |-> [x \in Side |-> "open"],
     taken |-> [x \in Side |-> 0], got |-> [x \in Side |-> <<>>],
     eof |-> [x \in Side |-> FALSE], copy |-> [x \in Side |-> "run"]]

Stage(c) == relay[c].stage
Set(c, r) == relay' = [relay EXCEPT ![c] = r]

-----------------------------------------------------------------------------
(* The two ends.                                                            *)

Reachable(c, x) ==
    IF x = "client" THEN Stage(c) \notin {"none", "closed", "dropped"}
                    ELSE Stage(c) \in {"header", "hello", "copy"}

Send(c, x) ==
    /\ Reachable(c, x)
    /\ relay[c].end[x] = "open"
    /\ relay[c].sent[x] < Chunks[x]
    /\ Set(c, [relay[c] EXCEPT !.sent[x] = @ + 1])

Finish(c, x) ==
    /\ Reachable(c, x)
    /\ relay[c].end[x] = "open"
    /\ Set(c, [relay[c] EXCEPT !.end[x] = "fin"])

Reset(c, x) ==
    /\ Reachable(c, x)
    /\ relay[c].end[x] # "reset"
    /\ Set(c, [relay[c] EXCEPT !.end[x] = "reset"])

-----------------------------------------------------------------------------
(* The relay.                                                               *)

Writable(c, x) == relay[c].end[x] # "reset"

(* Where the preamble goes on, when the pieces before are written.          *)
After(c, written) ==
    IF relay[c].header /\ written = "nothing" THEN "header"
    ELSE IF relay[c].hello > 0 THEN "hello" ELSE "copy"

Dial(c) ==
    /\ Stage(c) = "dial"
    /\ \/ Set(c, [relay[c] EXCEPT !.stage = After(c, "nothing")])
       \/ Set(c, [relay[c] EXCEPT !.stage = "dropped"])

WriteHeader(c) ==
    /\ Stage(c) = "header"
    /\ IF Writable(c, "target")
       THEN Set(c, [relay[c] EXCEPT !.stage = After(c, "header"),
                                    !.got["target"] = Append(@, Header)])
       ELSE Set(c, [relay[c] EXCEPT !.stage = "dropped"])

(* Mutant: the peeked ClientHello is not replayed. *)
WriteHello_skip(c) ==
    /\ Stage(c) = "hello"
    /\ Set(c, [relay[c] EXCEPT !.stage = "copy"])

WriteHello(c) ==
    /\ Stage(c) = "hello"
    /\ IF Writable(c, "target")
       THEN Set(c, [relay[c] EXCEPT !.stage = "copy",
                                    !.got["target"] = @ \o [i \in 1 .. relay[c].hello |-> i]])
       ELSE Set(c, [relay[c] EXCEPT !.stage = "dropped"])

Pending(c, x) == relay[c].taken[x] < relay[c].sent[x]
Copying(c, x) == Stage(c) = "copy" /\ relay[c].copy[x] = "run"

(* io.Copy: one read from x and one write to the other end.                 *)
Copy(c, x) ==
    /\ Copying(c, x)
    /\ Pending(c, x)
    /\ Writable(c, Other(x))
    /\ Set(c, [relay[c] EXCEPT !.taken[x] = @ + 1,
                               !.got[Other(x)] = Append(@, relay[c].taken[x] + 1)])

(* Mutant: the half-close is not passed on. *)
CopyEnds_mute(c, x) ==
    /\ Copying(c, x)
    /\ relay[c].end[x] = "fin" /\ ~ Pending(c, x)
    /\ Set(c, [relay[c] EXCEPT !.copy[x] = "done"])

(* Mutant: what the finished end has sent is not read to its end. *)
CopyEnds_early(c, x) ==
    /\ Copying(c, x)
    /\ relay[c].end[x] # "open"
    /\ Set(c, [relay[c] EXCEPT !.copy[x] = "done", !.eof[Other(x)] = TRUE])

(* At the end of x's data, or on an error of either end, CloseWrite.        *)
CopyEnds(c, x) ==
    /\ Copying(c, x)
    /\ \/ relay[c].end[x] = "fin" /\ ~ Pending(c, x)
       \/ relay[c].end[x] = "reset"
       \/ Pending(c, x) /\ ~ Writable(c, Other(x))
    /\ Set(c, [relay[c] EXCEPT !.copy[x] = "done", !.eof[Other(x)] = TRUE])

(* Mutant: the relay waits for one of the two copies. *)
Close_first(c) ==
    /\ Stage(c) = "copy"
    /\ \E x \in Side : relay[c].copy[x] = "done"
    /\ Set(c, [relay[c] EXCEPT !.stage = "closed"])

Close(c) ==
    /\ Stage(c) = "copy"
    /\ \A x \in Side : relay[c].copy[x] = "done"
    /\ Set(c, [relay[c] EXCEPT !.stage = "closed"])

Ends(c) == \E x \in Side : Send(c, x) \/ Finish(c, x) \/ Reset(c, x)

Relaying(c) ==
    \/ Dial(c) \/ WriteHeader(c) \/ WriteHello(c) \/ Close(c)
    \/ \E x \in Side : Copy(c, x) \/ CopyEnds(c, x)

-----------------------------------------------------------------------------
(* Properties.                                                              *)

Preamble(c) == IF relay[c].header THEN <<Header>> ELSE <<>>
Numbered(n) == [i \in 1 .. n |-> i]

(* Each end gets what the other has sent, in order, nothing twice and       *)
(* nothing left out; the target gets the header before everything else and  *)
(* the peeked ClientHello where the client sent it (prefix, io.Copy).       *)
InOrder ==
    \A c \in Conn :
        /\ IsPrefix(relay[c].got["target"],
                    Preamble(c) \o Numbered(relay[c].taken["client"]))
        /\ Stage(c) \in {"copy", "closed"} =>
               relay[c].got["target"] = Preamble(c) \o Numbered(relay[c].taken["client"])
        /\ relay[c].got["client"] = Numbered(relay[c].taken["target"])

(* While neither end breaks off, an end sees the end of the data only when  *)
(* the other has finished and all it sent has arrived (the half-close).     *)
HonestEof ==
    \A c \in Conn, x \in Side :
        /\ Stage(c) = "closed" \/ relay[c].eof[Other(x)]
        /\ \A y \in Side : relay[c].end[y] # "reset"
        => relay[c].end[x] = "fin" /\ ~ Pending(c, x)

(* A relay is no different from one connection between its two ends, but    *)
(* for the preamble: nothing is lost, repeated, reordered or taken back, no *)
(* data follow the end of the data, and both ends are told of it before the *)
(* sockets are closed - or none of their data has come through (handleTCP). *)
Heard(c, x) ==
    IF x = "target" /\ relay[c].header /\ relay[c].got[x] # <<>>
    THEN Tail(relay[c].got[x]) ELSE relay[c].got[x]
Seen(c) ==
    [sent |-> relay[c].sent, end |-> relay[c].end,
     heard |-> [x \in Side |-> Heard(c, x)], told |-> relay[c].eof,
     over |-> Stage(c) \in {"closed", "dropped"}]
Direct == INSTANCE Pipe WITH pipe <- [c \in Conn |-> Seen(c)]
ActsAsPipe == Direct!Spec

(* An end that finishes is not kept secret from the other: it sees the end  *)
(* of the data, or the relay is over.                                       *)
FinPassedOn ==
    \A c \in Conn, x \in Side :
        relay[c].end[x] = "fin"
            ~> relay[c].eof[Other(x)] \/ Stage(c) \in {"closed", "dropped"}
=============================================================================
