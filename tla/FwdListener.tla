------------------------------ MODULE FwdListener ------------------------------
(***************************************************************************)
(* One running L4 forward (fwdListener, forward.go): its two sockets, the  *)
(* goroutines behind them, and stop, which closes the sockets and waits    *)
(* for what the wait group counts.  UDP clients get a session each, with a *)
(* socket of its own toward the target and a goroutine that carries the    *)
(* replies back; a reaper closes the sessions of silent clients.  Accepted *)
(* TCP connections become relays (module Relay), which stop leaves alone.  *)
(***************************************************************************)
EXTENDS Relay

CONSTANTS
    Forwards,   \* forwards: protocol, PROXY flag, TCP connections, UDP clients
    Client,     \* UDP client addresses
    Sock,       \* sockets toward the target of a UDP forward
    NoSock, Nobody,
    Idle        \* udpSessionIdle, in ticks of the reaper

ASSUME ListenerAssumption ==
    /\ Forwards \subseteq [proto : {"tcp", "udp", "tcp+udp"}, proxyProto : BOOLEAN,
                           conns : SUBSET Conn, clients : SUBSET Client]
    /\ NoSock \notin Sock /\ Nobody \notin Client
    /\ IsFiniteSet(Sock)
    /\ Idle \in Nat

VARIABLES
    fwd,        \* l.fwd, and who will use it
    ctl,        \* where startListener or stop is
    quit,       \* whether l.quit is closed
    ln, pc,     \* the listening sockets
    accept,     \* acceptLoop
    loop,       \* udpLoop
    cur,        \* the client whose datagram udpLoop has read
    back,       \* the socket udpLoop is about to write it to
    reaper,     \* the reaper goroutine,
    ticked,     \* and whether its ticker has fired
    session,    \* the map of sessions: client -> socket
    sock,       \* the sockets toward the target
    age,        \* ticks since the last datagram of a socket's session
    reverse,    \* the goroutine that reads a socket
    stalled,    \* ticks since udpLoop found the session it writes to (history)
    wg          \* the counter of l.wg

timer == <<reaper, ticked>>
hand  == <<cur, back, stalled>>
sess  == <<session, sock, age, reverse>>
udp   == <<loop, hand, sess, timer>>
outer == <<fwd, ctl, quit, ln, pc, accept, relay>>
vars  == <<outer, udp, wg>>

TypeOK ==
    /\ fwd \in Forwards
    /\ ctl \in {"tcp", "udp", "up", "quit", "closeLn", "closePc", "wait", "stopped"}
    /\ quit \in BOOLEAN
    /\ ln \in {"none", "open", "closed"} /\ pc \in {"none", "open", "closed"}
    /\ accept \in {"none", "run", "ended"}
    /\ loop \in {"none", "start", "read", "look", "write", "ended"}
    /\ cur \in Client \cup {Nobody}
    /\ back \in Sock \cup {NoSock}
    /\ reaper \in {"none", "run", "ended"} /\ ticked \in BOOLEAN
    /\ session \in [Client -> Sock \cup {NoSock}]
    /\ sock \in [Sock -> {"free", "open", "closed"}]
    /\ age \in [Sock -> 0 .. Idle + 1]
    /\ reverse \in [Sock -> {"none", "run", "refused"}]
    /\ stalled \in 0 .. Idle + 1
    /\ wg \in Nat
    /\ relay \in [Conn -> RelayType]

Init ==
    /\ fwd \in Forwards
    /\ ctl = "tcp"
    /\ quit = FALSE
    /\ ln = "none" /\ pc = "none"
    /\ accept = "none" /\ loop = "none"
    /\ cur = Nobody /\ back = NoSock
    /\ reaper = "none" /\ ticked = FALSE
    /\ session = [u \in Client |-> NoSock]
    /\ sock = [s \in Sock |-> "free"]
    /\ age = [s \in Sock |-> 0]
    /\ reverse = [s \in Sock |-> "none"]
    /\ stalled = 0
    /\ wg = 0
    /\ relay = [c \in Conn |-> NoRelay]

-----------------------------------------------------------------------------
(* startListener.  A half-opened forward is stopped again.                  *)

BeginTCP ==
    /\ ctl = "tcp"
    /\ \/ /\ fwd.proto = "udp"
          /\ ctl' = "udp"
          /\ UNCHANGED <<ln, accept, wg>>
       \/ /\ fwd.proto # "udp"
          /\ ln' = "open" /\ accept' = "run" /\ wg' = wg + 1
          /\ ctl' = IF fwd.proto = "tcp" THEN "up" ELSE "udp"
       \/ /\ fwd.proto # "udp"
          /\ ctl' = "quit"
          /\ UNCHANGED <<ln, accept, wg>>
    /\ UNCHANGED <<fwd, quit, pc, udp, relay>>

BeginUDP ==
    /\ ctl = "udp"
    /\ \/ /\ pc' = "open" /\ loop' = "start" /\ wg' = wg + 1
          /\ ctl' = "up"
       \/ /\ ctl' = "quit"
          /\ UNCHANGED <<pc, loop, wg>>
    /\ UNCHANGED <<fwd, quit, ln, accept, hand, sess, timer, relay>>

-----------------------------------------------------------------------------
(* stop, which Apply and Shutdown call on a forward that is up, and         *)
(* startListener on one that could not be opened.                           *)

Goto(from, to) ==
    ctl = from /\ ctl' = to /\ UNCHANGED <<fwd, accept, udp, relay, wg>>

CloseSocket(s) == IF s = "none" THEN s ELSE "closed"

Stop == Goto("up", "quit") /\ UNCHANGED <<quit, ln, pc>>

(* Mutant: l.quit is not closed. *)
CloseQuit_forgotten == Goto("quit", "closeLn") /\ UNCHANGED <<quit, ln, pc>>

CloseQuit == Goto("quit", "closeLn") /\ quit' = TRUE /\ UNCHANGED <<ln, pc>>

CloseLn == Goto("closeLn", "closePc") /\ ln' = CloseSocket(ln) /\ UNCHANGED <<quit, pc>>

ClosePc == Goto("closePc", "wait") /\ pc' = CloseSocket(pc) /\ UNCHANGED <<quit, ln>>

(* Mutant: stop does not wait. *)
Wait_not == Goto("wait", "stopped") /\ UNCHANGED <<quit, ln, pc>>

Wait == wg = 0 /\ Goto("wait", "stopped") /\ UNCHANGED <<quit, ln, pc>>

Stopping == CloseQuit \/ CloseLn \/ ClosePc \/ Wait

-----------------------------------------------------------------------------
(* acceptLoop.  A connection it accepts is served by a goroutine the wait   *)
(* group does not count.                                                    *)

Accept(c) ==
    /\ accept = "run" /\ ln = "open"
    /\ c \in fwd.conns
    /\ Stage(c) = "none"
    /\ Set(c, [relay[c] EXCEPT !.stage = "dial", !.header = fwd.proxyProto])
    /\ UNCHANGED <<fwd, ctl, quit, ln, pc, accept, udp, wg>>

(* "closed by stop() or broke": the loop takes any error for the end.       *)
AcceptFails ==
    /\ accept = "run"
    /\ accept' = "ended" /\ wg' = wg - 1
    /\ UNCHANGED <<fwd, ctl, quit, ln, pc, udp, relay>>

-----------------------------------------------------------------------------
(* udpLoop.  Its mutex covers the look at the map, not the write after it.  *)

(* Mutant: the reaper's goroutine is not counted. *)
StartReaper_uncounted ==
    /\ loop = "start"
    /\ loop' = "read" /\ reaper' = "run"
    /\ UNCHANGED <<outer, hand, sess, ticked, wg>>

StartReaper ==
    /\ loop = "start"
    /\ loop' = "read" /\ reaper' = "run" /\ wg' = wg + 1
    /\ UNCHANGED <<outer, hand, sess, ticked>>

ReadFrom(u) ==
    /\ loop = "read" /\ pc = "open"
    /\ u \in fwd.clients
    /\ loop' = "look" /\ cur' = u
    /\ UNCHANGED <<outer, back, stalled, sess, timer, wg>>

CloseSessions(S) ==
    /\ sock' = [s \in Sock |-> IF s \in S THEN "closed" ELSE sock[s]]
    /\ session' = [u \in Client |-> IF session[u] \in S THEN NoSock ELSE session[u]]
    /\ age' = [s \in Sock |-> IF s \in S THEN 0 ELSE age[s]]

ReadFails ==
    /\ loop = "read"
    /\ CloseSessions({session[u] : u \in Client})
    /\ loop' = "ended" /\ wg' = wg - 1
    /\ UNCHANGED <<outer, hand, reverse, timer>>

Use(s) == back' = s /\ loop' = "write" /\ cur' = Nobody /\ UNCHANGED <<outer, stalled, timer>>

(* Mutant: a session keeps the time it was opened at. *)
Found_unrefreshed ==
    /\ loop = "look"
    /\ session[cur] # NoSock
    /\ Use(session[cur])
    /\ UNCHANGED <<sess, wg>>

Found ==
    /\ loop = "look"
    /\ session[cur] # NoSock
    /\ Use(session[cur])
    /\ age' = [age EXCEPT ![session[cur]] = 0]
    /\ UNCHANGED <<session, sock, reverse, wg>>

(* A new session: any socket that nothing refers to any more.               *)
Connect(s) ==
    /\ loop = "look"
    /\ session[cur] = NoSock
    /\ sock[s] # "open" /\ reverse[s] # "run"
    /\ sock' = [sock EXCEPT ![s] = "open"]
    /\ session' = [session EXCEPT ![cur] = s]
    /\ reverse' = [reverse EXCEPT ![s] = "run"] /\ wg' = wg + 1
    /\ age' = [age EXCEPT ![s] = 0]
    /\ Use(s)

ConnectFails ==
    /\ loop = "look"
    /\ session[cur] = NoSock
    /\ loop' = "read" /\ cur' = Nobody
    /\ UNCHANGED <<outer, back, stalled, sess, timer, wg>>

(* The datagram goes out, or is lost on a socket closed in the meantime.    *)
Write ==
    /\ loop = "write"
    /\ loop' = "read" /\ back' = NoSock /\ stalled' = 0
    /\ UNCHANGED <<outer, cur, sess, timer, wg>>

(* The goroutine of a session ends on any read error: the socket is closed, *)
(* or the target has refused a datagram (an ICMP error).                    *)
ReverseEnds(s) ==
    /\ reverse[s] = "run"
    /\ reverse' = [reverse EXCEPT ![s] = IF sock[s] = "open" THEN "refused" ELSE "none"]
    /\ wg' = wg - 1
    /\ UNCHANGED <<outer, loop, hand, session, sock, age, timer>>

-----------------------------------------------------------------------------
(* The reaper.                                                              *)

Older(n) == IF n > Idle THEN n ELSE n + 1

(* A tick of the reaper's ticker, which keeps at most one for it.           *)
Tick ==
    /\ ticked' = (reaper = "run")
    /\ age' = [s \in Sock |-> IF sock[s] = "open" THEN Older(age[s]) ELSE age[s]]
    /\ stalled' = IF loop = "write" THEN Older(stalled) ELSE stalled
    /\ UNCHANGED <<outer, loop, cur, back, session, sock, reverse, reaper, wg>>

Expired == {s \in {session[u] : u \in Client} \ {NoSock} : age[s] > Idle}

(* Mutant: an expired session leaves the map with its socket open. *)
Reap_leak ==
    /\ reaper = "run" /\ ticked
    /\ ticked' = FALSE
    /\ session' = [u \in Client |-> IF session[u] \in Expired THEN NoSock ELSE session[u]]
    /\ UNCHANGED <<outer, loop, hand, sock, age, reverse, reaper, wg>>

(* Mutant: the reaper returns after its first round. *)
Reap_once ==
    /\ reaper = "run" /\ ticked
    /\ ticked' = FALSE /\ reaper' = "ended" /\ wg' = wg - 1
    /\ CloseSessions(Expired)
    /\ UNCHANGED <<outer, loop, hand, reverse>>

Reap ==
    /\ reaper = "run" /\ ticked
    /\ ticked' = FALSE
    /\ CloseSessions(Expired)
    /\ UNCHANGED <<outer, loop, hand, reverse, reaper, wg>>

ReaperQuits ==
    /\ reaper = "run" /\ quit
    /\ reaper' = "ended" /\ wg' = wg - 1
    /\ UNCHANGED <<outer, loop, hand, sess, ticked>>

-----------------------------------------------------------------------------
Listener ==
    \/ BeginTCP \/ BeginUDP \/ Stop \/ Stopping
    \/ AcceptFails \/ \E c \in Conn : Accept(c)

UdpLoop ==
    \/ StartReaper \/ ReadFails \/ Found \/ ConnectFails \/ Write
    \/ \E u \in Client : ReadFrom(u)
    \/ \E s \in Sock : Connect(s)

Sessions ==
    \/ Tick \/ Reap \/ ReaperQuits
    \/ \E s \in Sock : ReverseEnds(s)

Relays ==
    /\ \E c \in Conn : Relaying(c) \/ Ends(c)
    /\ UNCHANGED <<fwd, ctl, quit, ln, pc, accept, udp, wg>>

Next == Listener \/ UdpLoop \/ Sessions \/ Relays

Spec == Init /\ [][Next]_vars

(* Goroutines that can run do run, blocking calls on a closed socket or     *)
(* channel return, a dial returns within its ten seconds and the ends of a  *)
(* relay read what is written to them.  Nobody owes a connection, a         *)
(* datagram, a stop or the end of a transfer, and sockets need not fail.    *)
Fairness ==
    /\ WF_vars(Stopping)
    /\ WF_vars(ln = "closed" /\ AcceptFails)
    /\ WF_vars(StartReaper) /\ WF_vars(Found) /\ WF_vars(Write)
    /\ WF_vars(ConnectFails \/ \E s \in Sock : Connect(s))
    /\ WF_vars(pc = "closed" /\ ReadFails)
    /\ \A s \in Sock : WF_vars(sock[s] = "closed" /\ ReverseEnds(s))
    /\ WF_vars(Tick) /\ WF_vars(Reap) /\ WF_vars(ReaperQuits)
    /\ \A c \in Conn : WF_vars(Relaying(c) /\ Relays)

FairSpec == Spec /\ Fairness

-----------------------------------------------------------------------------
(* Properties.                                                              *)

One(b) == IF b THEN 1 ELSE 0
Running == {s \in Sock : reverse[s] = "run"}

(* The wait group counts every goroutine of the listener, the one per       *)
(* session included, and nothing else (Add before go, Done at the end).     *)
CountsGoroutines ==
    wg = One(accept = "run") + One(loop \notin {"none", "ended"})
         + One(reaper = "run") + Cardinality(Running)

(* Nothing is added to a wait group that has come to zero under a waiting   *)
(* stop: sync.WaitGroup calls that misuse, and stop would be early.         *)
NoLateAdd == [][ctl = "wait" /\ wg' > wg => wg > 0]_vars

(* When stop returns, every socket of the forward is closed and every       *)
(* goroutine but those of relays is gone: its address can be bound again at *)
(* once, which is what Apply does next.                                     *)
StoppedIsDrained ==
    ctl = "stopped" =>
        /\ ln # "open" /\ pc # "open"
        /\ accept # "run" /\ loop \in {"none", "ended"} /\ reaper # "run"
        /\ \A s \in Sock : sock[s] # "open" /\ reverse[s] # "run"

(* A client has one socket at most, no two share one, and no socket is open *)
(* that the map has lost (and nobody would ever close).                     *)
SessionsOwnSockets ==
    /\ \A u, v \in Client : session[u] = session[v] => u = v \/ session[u] = NoSock
    /\ {s \in Sock : sock[s] = "open"} = {session[u] : u \in Client} \ {NoSock}

(* A datagram is written to a socket the reaper has closed only if udpLoop  *)
(* has stood still for longer than the idle time since it looked it up.     *)
LostOnlyToStall ==
    loop = "write" /\ sock[back] # "open" => stalled > Idle

(* Every session has its goroutine that carries replies back ("a dedicated  *)
(* socket toward the backend, with a reverse goroutine").                   *)
SessionsAnswer == \A u \in Client : session[u] # NoSock => reverse[session[u]] = "run"

(* stop returns, although it waits under f.mu for all these goroutines.     *)
StopReturns == ctl = "quit" ~> ctl = "stopped"

(* The session of a client that has fallen silent is closed.                *)
SilentSessionsEnd ==
    \A s \in Sock :
        sock[s] = "open" /\ age[s] > Idle ~> sock[s] = "closed" \/ age[s] = 0
=============================================================================
