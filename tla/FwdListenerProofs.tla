--------------------------- MODULE FwdListenerProofs ---------------------------
(***************************************************************************)
(* Proofs about FwdListener, for any number of UDP clients, sockets and    *)
(* TCP connections: the wait group counts what runs, stop leaves nothing   *)
(* behind, each session owns its socket, and relays neither lose, repeat   *)
(* nor reorder what they carry, and look to their ends like one connection.*)
(***************************************************************************)
EXTENDS FwdListener, RelayProofs, FiniteSetTheorems

(* Types of all variables but relay.                                        *)
ListenerType ==
    /\ fwd \in Forwards
    /\ ctl \in {"tcp", "udp", "up", "quit", "closeLn", "closePc", "wait", "stopped"}
    /\ quit \in BOOLEAN
    /\ ln \in {"none", "open", "closed"} /\ pc \in {"none", "open", "closed"}
    /\ accept \in {"none", "run", "ended"}
    /\ loop \in {"none", "start", "read", "look", "write", "ended"}
    /\ reaper \in {"none", "run", "ended"} /\ ticked \in BOOLEAN

SessionType ==
    /\ cur \in Client \cup {Nobody}
    /\ back \in Sock \cup {NoSock}
    /\ session \in [Client -> Sock \cup {NoSock}]
    /\ sock \in [Sock -> {"free", "open", "closed"}]
    /\ age \in [Sock -> 0 .. Idle + 1]
    /\ reverse \in [Sock -> {"none", "run", "refused"}]
    /\ stalled \in 0 .. Idle + 1
    /\ loop = "look" => cur \in Client

(* What has not begun yet is not running.                                   *)
InOrderOfStart ==
    /\ ctl = "tcp" => accept = "none"
    /\ ctl \in {"tcp", "udp"} => loop = "none"
    /\ loop \in {"none", "start"} => reaper = "none"

(* There are sessions only while udpLoop is there to use and close them.    *)
NoLoopNoSession ==
    loop \in {"none", "ended"} => \A u \in Client : session[u] = NoSock

(* What stop has achieved so far.                                           *)
StopProgress ==
    /\ ctl \in {"closePc", "wait", "stopped"} => ln # "open"
    /\ ctl \in {"wait", "stopped"} => pc # "open"
    /\ ctl = "stopped" => wg = 0

(* The session udpLoop writes to has been idle no longer than udpLoop has   *)
(* stood still, or has been closed for that.                                *)
WriteInTime ==
    /\ loop = "write" =>
           /\ back \in Sock
           /\ sock[back] = "open" => age[back] <= stalled
           /\ sock[back] # "open" => stalled > Idle
    /\ loop # "write" => stalled = 0

Inv ==
    /\ ListenerType /\ SessionType /\ wg \in Nat
    /\ InOrderOfStart /\ CountsGoroutines
    /\ SessionsOwnSockets /\ NoLoopNoSession
    /\ StopProgress /\ WriteInTime

-----------------------------------------------------------------------------
(* Steps of relays, and accepting, which is the same to everything here.    *)
Aside ==
    UNCHANGED <<fwd, ctl, quit, ln, pc, accept, loop, cur, back, stalled,
                session, sock, age, reverse, reaper, ticked, wg>>

LEMMA AsideSteps ==
    ASSUME Relays \/ (\E c \in Conn : Accept(c)) \/ UNCHANGED vars
    PROVE  Aside
BY DEF Relays, Accept, Aside, vars, outer, udp, hand, sess, timer

LEMMA AsideInv ==
    ASSUME Inv, Aside
    PROVE  Inv'
BY DEF Inv, Aside, ListenerType, SessionType, InOrderOfStart, CountsGoroutines, One,
    Running, SessionsOwnSockets, NoLoopNoSession, StopProgress, WriteInTime

(* One goroutine more, or less, that reads a socket.                        *)
LEMMA ReverseBegins ==
    ASSUME ListenerAssumption, NEW s \in Sock,
           reverse \in [Sock -> {"none", "run", "refused"}],
           reverse[s] # "run", reverse' = [reverse EXCEPT ![s] = "run"]
    PROVE  Cardinality(Running') = Cardinality(Running) + 1
<1>1. IsFiniteSet(Running) /\ s \notin Running
    BY FS_Subset DEF Running, ListenerAssumption
<1>2. Running' = Running \cup {s}
    BY DEF Running
<1>. QED
    BY <1>1, <1>2, FS_AddElement

LEMMA ReverseReturns ==
    ASSUME ListenerAssumption, NEW s \in Sock, NEW r \in {"none", "refused"},
           reverse \in [Sock -> {"none", "run", "refused"}],
           reverse[s] = "run", reverse' = [reverse EXCEPT ![s] = r]
    PROVE  Cardinality(Running') = Cardinality(Running) - 1
<1>1. IsFiniteSet(Running) /\ s \in Running
    BY FS_Subset DEF Running, ListenerAssumption
<1>2. Running' = Running \ {s}
    BY DEF Running
<1>. QED
    BY <1>1, <1>2, FS_RemoveElement

LEMMA RunningFinite ==
    ASSUME ListenerAssumption
    PROVE  IsFiniteSet(Running) /\ Cardinality(Running) \in Nat
BY FS_Subset, FS_CardinalityType DEF Running, ListenerAssumption

-----------------------------------------------------------------------------
(* Types.                                                                   *)

LEMMA ListenerTypeStep ==
    ASSUME ListenerType, [Next]_vars
    PROVE  ListenerType'
<1>. USE DEF ListenerType, outer, udp, hand, sess, timer
<1>1. CASE BeginTCP \/ BeginUDP
    BY <1>1 DEF BeginTCP, BeginUDP
<1>2. CASE Stop \/ Stopping
    BY <1>2 DEF Stop, Stopping, CloseQuit, CloseLn, ClosePc, Wait, Goto, CloseSocket
<1>3. CASE AcceptFails
    BY <1>3 DEF AcceptFails
<1>4. CASE StartReaper \/ ReadFails \/ Found \/ ConnectFails \/ Write
    BY <1>4 DEF StartReaper, ReadFails, Found, ConnectFails, Write, Use
<1>5. CASE \E u \in Client : ReadFrom(u)
    BY <1>5 DEF ReadFrom
<1>6. CASE \E s \in Sock : Connect(s) \/ ReverseEnds(s)
    BY <1>6 DEF Connect, ReverseEnds, Use
<1>7. CASE Tick \/ Reap \/ ReaperQuits
    BY <1>7 DEF Tick, Reap, ReaperQuits
<1>8. CASE Relays \/ (\E c \in Conn : Accept(c)) \/ UNCHANGED vars
    BY <1>8, AsideSteps DEF Aside
<1>. QED
    BY <1>1, <1>2, <1>3, <1>4, <1>5, <1>6, <1>7, <1>8
    DEF Next, Listener, UdpLoop, Sessions

(* Steps that leave the sessions and the hand-over of datagrams alone.      *)
LEMMA OtherSteps ==
    ASSUME BeginTCP \/ BeginUDP \/ Stop \/ Stopping \/ AcceptFails \/ StartReaper
           \/ ReaperQuits
    PROVE  UNCHANGED <<cur, back, stalled, session, sock, age, reverse>>
BY DEF BeginTCP, BeginUDP, Stop, Stopping, CloseQuit, CloseLn, ClosePc, Wait, Goto,
    AcceptFails, StartReaper, ReaperQuits, outer, udp, hand, sess, timer

(* Closing a set of sockets, as far as sessions use them.                   *)
LEMMA ClosingType ==
    ASSUME SessionType, NEW S, CloseSessions(S)
    PROVE  /\ session' \in [Client -> Sock \cup {NoSock}]
           /\ sock' \in [Sock -> {"free", "open", "closed"}]
           /\ age' \in [Sock -> 0 .. Idle + 1]
BY ListenerAssumption DEF SessionType, CloseSessions

LEMMA SessionTypeStep ==
    ASSUME SessionType, [Next]_vars
    PROVE  SessionType'
<1>. USE ListenerAssumption DEF SessionType, outer, udp, hand, sess, timer
<1>1. CASE BeginTCP \/ BeginUDP \/ Stop \/ Stopping \/ AcceptFails \/ StartReaper
           \/ ReaperQuits
    <2>1. loop' = "look" => loop = "look"
        BY <1>1 DEF BeginTCP, BeginUDP, Stop, Stopping, CloseQuit, CloseLn, ClosePc,
            Wait, Goto, AcceptFails, StartReaper, ReaperQuits
    <2>. QED
        BY <1>1, <2>1, OtherSteps
<1>2. CASE \E u \in Client : ReadFrom(u)
    BY <1>2 DEF ReadFrom
<1>3. CASE ReadFails
    BY <1>3, ClosingType DEF ReadFails
<1>4. CASE Found
    BY <1>4 DEF Found, Use
<1>5. ASSUME NEW s \in Sock, Connect(s)
      PROVE  SessionType'
    BY <1>5 DEF Connect, Use
<1>6. CASE ConnectFails \/ Write
    BY <1>6 DEF ConnectFails, Write
<1>7. ASSUME NEW s \in Sock, ReverseEnds(s)
      PROVE  SessionType'
    BY <1>7 DEF ReverseEnds
<1>8. CASE Tick
    BY <1>8 DEF Tick, Older
<1>9. CASE Reap
    BY <1>9, ClosingType DEF Reap
<1>10. CASE Relays \/ (\E c \in Conn : Accept(c)) \/ UNCHANGED vars
    BY <1>10, AsideSteps DEF Aside
<1>. QED
    BY <1>1, <1>2, <1>3, <1>4, <1>5, <1>6, <1>7, <1>8, <1>9, <1>10
    DEF Next, Listener, UdpLoop, Sessions

-----------------------------------------------------------------------------
(* The order of the start, and what runs.                                   *)

LEMMA StartStep ==
    ASSUME ListenerType, InOrderOfStart, [Next]_vars
    PROVE  InOrderOfStart'
<1>. USE DEF ListenerType, InOrderOfStart, outer, udp, hand, sess, timer
<1>1. CASE BeginTCP \/ BeginUDP
    BY <1>1 DEF BeginTCP, BeginUDP
<1>2. CASE Stop \/ Stopping
    BY <1>2 DEF Stop, Stopping, CloseQuit, CloseLn, ClosePc, Wait, Goto
<1>3. CASE AcceptFails
    BY <1>3 DEF AcceptFails
<1>4. CASE StartReaper \/ ReadFails \/ Found \/ ConnectFails \/ Write
    BY <1>4 DEF StartReaper, ReadFails, Found, ConnectFails, Write, Use
<1>5. CASE \E u \in Client : ReadFrom(u)
    BY <1>5 DEF ReadFrom
<1>6. CASE \E s \in Sock : Connect(s) \/ ReverseEnds(s)
    BY <1>6 DEF Connect, ReverseEnds, Use
<1>7. CASE Tick \/ Reap \/ ReaperQuits
    BY <1>7 DEF Tick, Reap, ReaperQuits
<1>8. CASE Relays \/ (\E c \in Conn : Accept(c)) \/ UNCHANGED vars
    BY <1>8, AsideSteps DEF Aside
<1>. QED
    BY <1>1, <1>2, <1>3, <1>4, <1>5, <1>6, <1>7, <1>8
    DEF Next, Listener, UdpLoop, Sessions

(* Every Add is matched by a goroutine that begins, every Done by one that  *)
(* ends.                                                                    *)
LEMMA CountStep ==
    ASSUME ListenerType, SessionType, wg \in Nat, InOrderOfStart, CountsGoroutines,
           [Next]_vars
    PROVE  wg' \in Nat /\ CountsGoroutines'
<1>. USE ListenerAssumption, RunningFinite
     DEF ListenerType, InOrderOfStart, CountsGoroutines, One, outer, udp, hand, sess, timer
<1>1. ASSUME reverse' = reverse
      PROVE  Running' = Running
    BY <1>1 DEF Running
<1>2. CASE BeginTCP \/ BeginUDP
    BY <1>1, <1>2 DEF BeginTCP, BeginUDP
<1>3. CASE Stop \/ Stopping
    BY <1>1, <1>3 DEF Stop, Stopping, CloseQuit, CloseLn, ClosePc, Wait, Goto
<1>4. CASE AcceptFails
    BY <1>1, <1>4 DEF AcceptFails
<1>5. CASE StartReaper \/ ReadFails \/ Found \/ ConnectFails \/ Write
    BY <1>1, <1>5 DEF StartReaper, ReadFails, Found, ConnectFails, Write, Use
<1>6. CASE \E u \in Client : ReadFrom(u)
    BY <1>1, <1>6 DEF ReadFrom
<1>7. ASSUME NEW s \in Sock, Connect(s)
      PROVE  wg' \in Nat /\ CountsGoroutines'
    <2>1. Cardinality(Running') = Cardinality(Running) + 1
        BY <1>7, ReverseBegins DEF Connect, SessionType
    <2>. QED
        BY <1>7, <2>1 DEF Connect, Use
<1>8. ASSUME NEW s \in Sock, ReverseEnds(s)
      PROVE  wg' \in Nat /\ CountsGoroutines'
    <2>1. PICK r \in {"none", "refused"} : reverse' = [reverse EXCEPT ![s] = r]
        BY <1>8 DEF ReverseEnds
    <2>2. Cardinality(Running') = Cardinality(Running) - 1
        BY <1>8, <2>1, ReverseReturns DEF ReverseEnds, SessionType
    <2>3. s \in Running
        BY <1>8 DEF ReverseEnds, Running
    <2>4. Cardinality(Running) # 0
        BY <2>3, FS_EmptySet
    <2>. QED
        BY <1>8, <2>2, <2>4 DEF ReverseEnds
<1>9. CASE Tick \/ Reap \/ ReaperQuits
    BY <1>1, <1>9 DEF Tick, Reap, ReaperQuits
<1>10. CASE Relays \/ (\E c \in Conn : Accept(c)) \/ UNCHANGED vars
    BY <1>1, <1>10, AsideSteps DEF Aside
<1>. QED
    BY <1>2, <1>3, <1>4, <1>5, <1>6, <1>7, <1>8, <1>9, <1>10
    DEF Next, Listener, UdpLoop, Sessions

-----------------------------------------------------------------------------
(* Sessions.                                                                *)

(* Closing sockets takes their sessions out of the map, and no others.      *)
LEMMA ClosingOwn ==
    ASSUME SessionType, SessionsOwnSockets, NEW S, CloseSessions(S)
    PROVE  SessionsOwnSockets'
<1>. USE ListenerAssumption DEF SessionType, SessionsOwnSockets, CloseSessions
<1>1. ASSUME NEW u \in Client, NEW v \in Client, session'[u] = session'[v]
      PROVE  u = v \/ session'[u] = NoSock
    BY <1>1
<1>2. ASSUME NEW s \in Sock, sock'[s] = "open"
      PROVE  s \in {session'[u] : u \in Client} \ {NoSock}
    <2>1. s \notin S /\ sock[s] = "open"
        BY <1>2
    <2>2. PICK u \in Client : session[u] = s
        BY <2>1
    <2>3. session'[u] = s
        BY <2>1, <2>2
    <2>. QED
        BY <2>3
<1>3. ASSUME NEW u \in Client, session'[u] # NoSock
      PROVE  session'[u] \in Sock /\ sock'[session'[u]] = "open"
    <2>1. session'[u] = session[u] /\ session[u] \notin S /\ session[u] \in Sock
        BY <1>3
    <2>2. sock[session[u]] = "open"
        BY <1>3, <2>1
    <2>. QED
        BY <2>1, <2>2
<1>. QED
    BY <1>1, <1>2, <1>3

LEMMA OwnStep ==
    ASSUME SessionType, SessionsOwnSockets, [Next]_vars
    PROVE  SessionsOwnSockets'
<1>. USE ListenerAssumption DEF outer, udp, hand, sess, timer
<1>1. CASE UNCHANGED <<session, sock>>
    BY <1>1 DEF SessionsOwnSockets
<1>2. CASE ReadFails
    BY <1>2, ClosingOwn DEF ReadFails
<1>3. CASE Reap
    BY <1>3, ClosingOwn DEF Reap
<1>4. ASSUME NEW s \in Sock, Connect(s)
      PROVE  SessionsOwnSockets'
    <2>1. /\ cur \in Client /\ session[cur] = NoSock /\ sock[s] # "open"
          /\ session' = [session EXCEPT ![cur] = s]
          /\ sock' = [sock EXCEPT ![s] = "open"]
        BY <1>4 DEF Connect, SessionType
    <2>2. \A u \in Client : session[u] # s
        BY <2>1 DEF SessionType, SessionsOwnSockets
    <2>3. ASSUME NEW u \in Client, NEW v \in Client, session'[u] = session'[v]
          PROVE  u = v \/ session'[u] = NoSock
        BY <2>1, <2>2, <2>3 DEF SessionType, SessionsOwnSockets
    <2>4. {t \in Sock : sock'[t] = "open"} = {t \in Sock : sock[t] = "open"} \cup {s}
        BY <2>1 DEF SessionType
    <2>5. {session'[u] : u \in Client} \ {NoSock}
              = ({session[u] : u \in Client} \ {NoSock}) \cup {s}
        <3>1. \A u \in Client : session'[u] = IF u = cur THEN s ELSE session[u]
            BY <2>1 DEF SessionType
        <3>2. s # NoSock
            OBVIOUS
        <3>. QED
            BY <2>1, <3>1, <3>2
    <2>. QED
        BY <2>3, <2>4, <2>5 DEF SessionsOwnSockets
<1>5. CASE Tick \/ Found \/ ConnectFails \/ Write \/ \E u \in Client : ReadFrom(u)
    BY <1>1, <1>5 DEF Tick, Found, ConnectFails, Write, ReadFrom, Use
<1>6. CASE \E s \in Sock : ReverseEnds(s)
    BY <1>1, <1>6 DEF ReverseEnds
<1>7. CASE BeginTCP \/ BeginUDP \/ Stop \/ Stopping \/ AcceptFails \/ StartReaper
           \/ ReaperQuits
    BY <1>1, <1>7, OtherSteps
<1>8. CASE Relays \/ (\E c \in Conn : Accept(c)) \/ UNCHANGED vars
    BY <1>1, <1>8, AsideSteps DEF Aside
<1>. QED
    BY <1>2, <1>3, <1>4, <1>5, <1>6, <1>7, <1>8 DEF Next, Listener, UdpLoop, Sessions

LEMMA NoLoopStep ==
    ASSUME ListenerType, SessionType, NoLoopNoSession, [Next]_vars
    PROVE  NoLoopNoSession'
<1>. USE ListenerAssumption
     DEF NoLoopNoSession, SessionType, outer, udp, hand, sess, timer
<1>1. CASE BeginTCP \/ BeginUDP \/ Stop \/ Stopping \/ AcceptFails \/ StartReaper
           \/ ReaperQuits
    <2>1. loop' \in {"none", "ended"} => loop \in {"none", "ended"}
        BY <1>1 DEF BeginTCP, BeginUDP, Stop, Stopping, CloseQuit, CloseLn, ClosePc,
            Wait, Goto, AcceptFails, StartReaper, ReaperQuits
    <2>. QED
        BY <1>1, <2>1, OtherSteps
<1>2. CASE ReadFails
    BY <1>2 DEF ReadFails, CloseSessions
<1>3. CASE Reap
    BY <1>3 DEF Reap, CloseSessions
<1>4. CASE Tick \/ Found \/ ConnectFails \/ Write \/ \E u \in Client : ReadFrom(u)
    BY <1>4 DEF Tick, Found, ConnectFails, Write, ReadFrom, Use
<1>5. CASE \E s \in Sock : Connect(s) \/ ReverseEnds(s)
    BY <1>5 DEF Connect, ReverseEnds, Use
<1>6. CASE Relays \/ (\E c \in Conn : Accept(c)) \/ UNCHANGED vars
    BY <1>6, AsideSteps DEF Aside
<1>. QED
    BY <1>1, <1>2, <1>3, <1>4, <1>5, <1>6 DEF Next, Listener, UdpLoop, Sessions

-----------------------------------------------------------------------------
(* stop.                                                                    *)

(* An Add is made by a goroutine that is counted itself, once stop has      *)
(* begun: the counter never rises from zero.                                *)
LEMMA AddsAreCovered ==
    ASSUME Inv, [Next]_vars, ctl \in {"wait", "stopped"}, wg' > wg
    PROVE  wg > 0
<1>. USE ListenerAssumption, RunningFinite
     DEF Inv, ListenerType, CountsGoroutines, One, outer, udp, hand, sess, timer
<1>1. CASE BeginTCP \/ BeginUDP \/ Stop \/ Stopping \/ AcceptFails
    BY <1>1 DEF BeginTCP, BeginUDP, Stop, Stopping, CloseQuit, CloseLn, ClosePc, Wait,
        Goto, AcceptFails
<1>2. CASE StartReaper
    BY <1>2 DEF StartReaper
<1>3. CASE \E s \in Sock : Connect(s)
    BY <1>3 DEF Connect
<1>4. CASE ReadFails \/ Found \/ ConnectFails \/ Write \/ \E u \in Client : ReadFrom(u)
    BY <1>4 DEF ReadFails, Found, ConnectFails, Write, Use, ReadFrom
<1>5. CASE Tick \/ Reap \/ ReaperQuits \/ \E s \in Sock : ReverseEnds(s)
    BY <1>5 DEF Tick, Reap, ReaperQuits, ReverseEnds
<1>6. CASE Relays \/ (\E c \in Conn : Accept(c)) \/ UNCHANGED vars
    BY <1>6, AsideSteps DEF Aside
<1>. QED
    BY <1>1, <1>2, <1>3, <1>4, <1>5, <1>6 DEF Next, Listener, UdpLoop, Sessions

LEMMA StopStep ==
    ASSUME Inv, wg' \in Nat, [Next]_vars
    PROVE  StopProgress'
<1>. USE DEF StopProgress, outer, udp, hand, sess, timer
<1>1. CASE BeginTCP \/ BeginUDP
    BY <1>1 DEF BeginTCP, BeginUDP
<1>2. CASE Stop \/ Stopping
    BY <1>2 DEF Inv, Stop, Stopping, CloseQuit, CloseLn, ClosePc, Wait, Goto,
        CloseSocket, ListenerType
<1>3. ASSUME UNCHANGED <<ctl, ln, pc>>
      PROVE  StopProgress'
    BY <1>3, AddsAreCovered DEF Inv
<1>4. CASE AcceptFails \/ StartReaper \/ ReadFails \/ Found \/ ConnectFails \/ Write
    BY <1>3, <1>4 DEF AcceptFails, StartReaper, ReadFails, Found, ConnectFails, Write, Use
<1>5. CASE \E u \in Client : ReadFrom(u)
    BY <1>3, <1>5 DEF ReadFrom
<1>6. CASE \E s \in Sock : Connect(s) \/ ReverseEnds(s)
    BY <1>3, <1>6 DEF Connect, ReverseEnds, Use
<1>7. CASE Tick \/ Reap \/ ReaperQuits
    BY <1>3, <1>7 DEF Tick, Reap, ReaperQuits
<1>8. CASE Relays \/ (\E c \in Conn : Accept(c)) \/ UNCHANGED vars
    BY <1>3, <1>8, AsideSteps DEF Aside
<1>. QED
    BY <1>1, <1>2, <1>4, <1>5, <1>6, <1>7, <1>8 DEF Next, Listener, UdpLoop, Sessions

-----------------------------------------------------------------------------
(* The write after the unlock.                                              *)

LEMMA OlderMonotone ==
    ASSUME NEW m \in 0 .. Idle + 1, NEW n \in 0 .. Idle + 1, Idle \in Nat
    PROVE  /\ m <= n => Older(m) <= Older(n)
           /\ n > Idle => Older(n) > Idle
BY DEF Older

LEMMA WriteStep ==
    ASSUME Inv, [Next]_vars
    PROVE  WriteInTime'
<1>. USE ListenerAssumption DEF Inv, SessionType, WriteInTime, outer, udp, hand, sess, timer
<1>1. CASE BeginTCP \/ BeginUDP \/ Stop \/ Stopping \/ AcceptFails \/ StartReaper
           \/ ReaperQuits
    <2>1. loop' = "write" <=> loop = "write"
        BY <1>1 DEF BeginTCP, BeginUDP, Stop, Stopping, CloseQuit, CloseLn, ClosePc,
            Wait, Goto, AcceptFails, StartReaper, ReaperQuits, ListenerType,
            InOrderOfStart
    <2>. QED
        BY <1>1, <2>1, OtherSteps
<1>2. CASE ReadFails \/ ConnectFails \/ Write \/ \E u \in Client : ReadFrom(u)
    BY <1>2 DEF ReadFails, ConnectFails, Write, ReadFrom
<1>3. CASE Found
    <2>1. session[cur] \in Sock /\ sock[session[cur]] = "open"
        BY <1>3 DEF Found, SessionsOwnSockets
    <2>. QED
        BY <1>3, <2>1 DEF Found, Use
<1>4. ASSUME NEW s \in Sock, Connect(s)
      PROVE  WriteInTime'
    BY <1>4 DEF Connect, Use
<1>5. ASSUME NEW s \in Sock, ReverseEnds(s)
      PROVE  WriteInTime'
    BY <1>5 DEF ReverseEnds
<1>6. CASE Tick
    <2>1. CASE loop = "write"
        <3>1. /\ stalled' = Older(stalled) /\ loop' = loop /\ back' = back /\ sock' = sock
              /\ back \in Sock
              /\ sock[back] = "open" => age'[back] = Older(age[back])
            BY <1>6, <2>1 DEF Tick
        <3>. QED
            BY <2>1, <3>1, OlderMonotone
    <2>2. CASE loop # "write"
        BY <1>6, <2>2 DEF Tick
    <2>. QED
        BY <2>1, <2>2
<1>7. CASE Reap
    <2>1. CASE loop = "write"
        <3>1. /\ stalled' = stalled /\ loop' = loop /\ back' = back /\ back \in Sock
              /\ sock'[back] = IF back \in Expired THEN "closed" ELSE sock[back]
              /\ age'[back] = IF back \in Expired THEN 0 ELSE age[back]
            BY <1>7, <2>1 DEF Reap, CloseSessions
        <3>2. back \in Expired => age[back] > Idle /\ sock[back] = "open"
            BY <2>1, <3>1 DEF Expired, SessionsOwnSockets
        <3>. QED
            BY <2>1, <3>1, <3>2
    <2>2. CASE loop # "write"
        BY <1>7, <2>2 DEF Reap
    <2>. QED
        BY <2>1, <2>2
<1>8. CASE Relays \/ (\E c \in Conn : Accept(c)) \/ UNCHANGED vars
    BY <1>8, AsideSteps DEF Aside
<1>. QED
    BY <1>1, <1>2, <1>3, <1>4, <1>5, <1>6, <1>7, <1>8 DEF Next, Listener, UdpLoop, Sessions

-----------------------------------------------------------------------------
(* The invariant.                                                           *)

LEMMA InitInv == Init => Inv
<1>. SUFFICES ASSUME Init PROVE Inv
    OBVIOUS
<1>. USE ListenerAssumption
<1>1. ListenerType /\ SessionType /\ wg \in Nat
    <2>1. /\ fwd \in Forwards /\ ctl = "tcp" /\ quit = FALSE /\ wg = 0
          /\ ln = "none" /\ pc = "none" /\ accept = "none" /\ loop = "none"
          /\ reaper = "none" /\ ticked = FALSE
        BY DEF Init
    <2>2. SessionType
        BY DEF Init, SessionType
    <2>. QED
        BY <2>1, <2>2 DEF ListenerType
<1>2. CountsGoroutines
    <2>1. Running = {}
        BY DEF Init, Running
    <2>. QED
        BY <2>1, FS_EmptySet DEF Init, CountsGoroutines, One
<1>3. SessionsOwnSockets
    BY DEF Init, SessionsOwnSockets
<1>4. InOrderOfStart /\ NoLoopNoSession /\ StopProgress /\ WriteInTime
    BY DEF Init, InOrderOfStart, NoLoopNoSession, StopProgress, WriteInTime
<1>. QED
    BY <1>1, <1>2, <1>3, <1>4 DEF Inv

LEMMA NextInv ==
    ASSUME Inv, [Next]_vars
    PROVE  Inv'
<1>1. ListenerType' /\ SessionType' /\ InOrderOfStart'
    BY ListenerTypeStep, SessionTypeStep, StartStep DEF Inv
<1>2. wg' \in Nat /\ CountsGoroutines'
    BY CountStep DEF Inv
<1>3. SessionsOwnSockets' /\ NoLoopNoSession'
    BY OwnStep, NoLoopStep DEF Inv
<1>4. StopProgress' /\ WriteInTime'
    BY <1>2, StopStep, WriteStep
<1>. QED
    BY <1>1, <1>2, <1>3, <1>4 DEF Inv

THEOREM Invariance == Spec => []Inv
<1>1. Inv /\ [Next]_vars => Inv'
    BY NextInv
<1>. QED
    BY InitInv, <1>1, PTL DEF Spec

-----------------------------------------------------------------------------
(* The theorems.                                                            *)

(* The wait group of a forward counts each of its goroutines once, except   *)
(* those of relays (forward.go:128, 196, 208, 256).                         *)
THEOREM GoroutinesCounted == Spec => []CountsGoroutines
<1>1. Inv => CountsGoroutines
    BY DEF Inv
<1>. QED
    BY Invariance, <1>1, PTL

(* Nothing is added to the wait group once it has come to zero under a      *)
(* waiting stop (forward.go:256, 284).                                      *)
THEOREM NothingAddedLate == Spec => NoLateAdd
<1>1. Inv /\ [Next]_vars => [ctl = "wait" /\ wg' > wg => wg > 0]_vars
    BY AddsAreCovered
<1>. QED
    BY Invariance, <1>1, PTL DEF Spec, NoLateAdd

(* No two clients share a socket toward the target, and no socket is open   *)
(* that its session map has lost (forward.go:219-254).                      *)
THEOREM SocketsAreOwned == Spec => []SessionsOwnSockets
<1>1. Inv => SessionsOwnSockets
    BY DEF Inv
<1>. QED
    BY Invariance, <1>1, PTL

(* A stop that has returned has left no socket open and no goroutine behind *)
(* but those of relays (forward.go:276-285).                                *)
THEOREM StopDrains == Spec => []StoppedIsDrained
<1>1. ASSUME Inv, ctl = "stopped"
      PROVE  /\ ln # "open" /\ pc # "open"
             /\ accept # "run" /\ loop \in {"none", "ended"} /\ reaper # "run"
             /\ \A s \in Sock : sock[s] # "open" /\ reverse[s] # "run"
    <2>. USE ListenerAssumption, <1>1 DEF Inv
    <2>1. wg = 0 /\ ln # "open" /\ pc # "open"
        BY DEF StopProgress
    <2>2. /\ accept # "run" /\ loop \in {"none", "ended"} /\ reaper # "run"
          /\ Cardinality(Running) = 0
        BY <2>1, RunningFinite DEF CountsGoroutines, One
    <2>3. Running = {}
        BY <2>2, RunningFinite, FS_EmptySet
    <2>4. {s \in Sock : sock[s] = "open"} = {}
        BY <2>2 DEF NoLoopNoSession, SessionsOwnSockets
    <2>. QED
        BY <2>1, <2>2, <2>3, <2>4 DEF Running
<1>2. Inv => StoppedIsDrained
    BY <1>1 DEF StoppedIsDrained
<1>. QED
    BY Invariance, <1>2, PTL

(* A datagram is written to a closed socket only by a udpLoop that has      *)
(* stood still for the whole idle time between the unlock and the write     *)
(* (forward.go:271-272).                                                    *)
THEOREM DatagramsInTime == Spec => []LostOnlyToStall
<1>1. Inv => LostOnlyToStall
    BY DEF Inv, WriteInTime, LostOnlyToStall
<1>. QED
    BY Invariance, <1>1, PTL

-----------------------------------------------------------------------------
(* A step concerns the relay of one connection.                             *)
LEMMA RelaySteps ==
    ASSUME [Next]_vars
    PROVE  \/ UNCHANGED relay
           \/ \E c \in Conn : \/ Relaying(c) \/ Ends(c)
                              \/ Stage(c) = "none"
                                 /\ Set(c, [relay[c] EXCEPT !.stage = "dial",
                                                            !.header = fwd.proxyProto])
<1>. USE DEF outer, udp
<1>1. CASE \E c \in Conn : Accept(c)
    BY <1>1 DEF Accept
<1>2. CASE Relays
    BY <1>2 DEF Relays
<1>3. CASE BeginTCP \/ BeginUDP \/ Stop \/ Stopping \/ AcceptFails
    BY <1>3 DEF BeginTCP, BeginUDP, Stop, Stopping, CloseQuit, CloseLn, ClosePc, Wait,
        Goto, AcceptFails
<1>4. CASE UdpLoop
    BY <1>4 DEF UdpLoop, StartReaper, ReadFails, Found, ConnectFails, Write, ReadFrom,
        Connect, Use
<1>5. CASE Sessions
    BY <1>5 DEF Sessions, Tick, Reap, ReaperQuits, ReverseEnds
<1>6. CASE UNCHANGED vars
    BY <1>6 DEF vars
<1>. QED
    BY <1>1, <1>2, <1>3, <1>4, <1>5, <1>6 DEF Next, Listener

LEMMA RelayStep ==
    ASSUME ListenerAssumption, fwd \in Forwards, RelayInv, [Next]_vars
    PROVE  RelayInv'
<1>1. CASE UNCHANGED relay
    BY <1>1 DEF RelayInv
<1>2. ASSUME NEW c \in Conn,
             \/ Relaying(c) \/ Ends(c)
             \/ Stage(c) = "none"
                /\ Set(c, [relay[c] EXCEPT !.stage = "dial", !.header = fwd.proxyProto])
      PROVE  RelayInv'
    <2>1. fwd.proxyProto \in BOOLEAN
        BY DEF ListenerAssumption
    <2>2. Good(relay'[c]) /\ relay' \in [Conn -> RelayType]
        BY <1>2, <2>1, RelayingGood, HandOver
    <2>3. \A d \in Conn : d # c => relay'[d] = relay[d]
        BY <1>2 DEF Relaying, Ends, Send, Finish, Reset, Dial, WriteHeader, WriteHello,
            Copy, CopyEnds, Close, Set, RelayInv
    <2>. QED
        BY <2>2, <2>3 DEF RelayInv
<1>. QED
    BY <1>1, <1>2, RelaySteps

LEMMA InitRelay == Init => RelayInv
BY NoRelayGood DEF Init, RelayInv

THEOREM RelayInvariance == Spec => []RelayInv
<1>1. Inv /\ RelayInv /\ [Next]_vars => RelayInv'
    BY RelayStep, ListenerAssumption DEF Inv, ListenerType
<1>. QED
    BY Invariance, InitRelay, <1>1, PTL DEF Spec

(* Every variable of the listener, its relays included, stays in its type.  *)
THEOREM TypeCorrect == Spec => []TypeOK
<1>1. Inv /\ RelayInv => TypeOK
    BY DEF Inv, ListenerType, SessionType, RelayInv, TypeOK
<1>. QED
    BY Invariance, RelayInvariance, <1>1, PTL

(* However reads, writes, half-closes and resets interleave, the target     *)
(* gets the PROXY header and then what the client sent, in order and        *)
(* complete as far as it was read, and the client what the target sent      *)
(* (forward.go:158-181).                                                    *)
THEOREM RelaysInOrder == Spec => []InOrder
BY RelayInvariance, GoodInOrder, PTL

(* Unless an end broke off, an end is told of the end of the data, or cut   *)
(* off by the close, only when the other has finished and everything it     *)
(* sent has been passed on.                                                 *)
THEOREM EofIsHonest == Spec => []HonestEof
BY RelayInvariance, GoodEof, PTL

-----------------------------------------------------------------------------
(* A relay as one connection (Pipe).                                        *)

(* Before a connection is handed to its relay, nothing has come through.    *)
LEMMA AcceptView ==
    ASSUME NEW c \in Conn, PipeInv, NEW h \in BOOLEAN, Stage(c) = "none",
           Set(c, [relay[c] EXCEPT !.stage = "dial", !.header = h])
    PROVE  \E n : /\ relay' = [relay EXCEPT ![c] = n] /\ Sound(n)
                  /\ View(n) = View(relay[c])
<1>. DEFINE r == relay[c]
           n == [r EXCEPT !.stage = "dial", !.header = h]
<1>1. /\ Good(r) /\ Sound(r) /\ r \in RelayType /\ r.stage = "none"
      /\ relay' = [relay EXCEPT ![c] = n] /\ relay'[c] = n
    BY DEF PipeInv, RelayInv, Stage, Set
<1>2. /\ n.stage = "dial" /\ n.sent = r.sent /\ n.end = r.end /\ n.taken = r.taken
      /\ n.got = r.got /\ n.copy = r.copy /\ n.eof = r.eof
    BY <1>1 DEF RelayType
<1>3. r.got["target"] = <<>>
    BY <1>1 DEF Good, Faithful, Before
<1>. HIDE DEF n
<1>4. Sound(n)
    BY <1>1, <1>2 DEF Sound
<1>5. AllHeard(n) = AllHeard(r) /\ Over(n) = Over(r)
    BY <1>1, <1>2, <1>3 DEF AllHeard, HeardBy, Over
<1>6. View(n) = View(r)
    BY <1>2, <1>5 DEF View
<1>. QED
    BY <1>1, <1>4, <1>6

LEMMA ViewStep ==
    ASSUME ListenerAssumption, fwd \in Forwards, PipeInv, [Next]_vars
    PROVE  \/ UNCHANGED relay
           \/ \E c \in Conn : \E n :
                 /\ relay' = [relay EXCEPT ![c] = n] /\ Sound(n)
                 /\ View(n) = View(relay[c]) \/ PipeStep(View(relay[c]), View(n))
<1>1. fwd.proxyProto \in BOOLEAN
    BY DEF ListenerAssumption
<1>. QED
    BY <1>1, RelaySteps, RelayingView, AcceptView

LEMMA PipeInvStep ==
    ASSUME ListenerAssumption, fwd \in Forwards, PipeInv, [Next]_vars
    PROVE  PipeInv'
<1>1. RelayInv'
    BY RelayStep DEF PipeInv
<1>2. CASE UNCHANGED relay
    BY <1>1, <1>2 DEF PipeInv
<1>3. ASSUME NEW c \in Conn, NEW n, relay' = [relay EXCEPT ![c] = n], Sound(n)
      PROVE  \A d \in Conn : Sound(relay'[d])
    BY <1>3 DEF PipeInv, RelayInv
<1>. QED
    BY <1>1, <1>2, <1>3, ViewStep DEF PipeInv

LEMMA InitPipe == Init => PipeInv /\ Direct!Init
<1>. SUFFICES ASSUME Init PROVE PipeInv /\ Direct!Init
    OBVIOUS
<1>1. relay = [c \in Conn |-> NoRelay]
    BY DEF Init
<1>2. Sound(NoRelay)
    BY DEF Sound, NoRelay
<1>3. View(NoRelay) = Direct!Fresh
    <2>1. AllHeard(NoRelay) = [x \in Side |-> <<>>]
        BY DEF AllHeard, HeardBy, NoRelay
    <2>2. Over(NoRelay) = FALSE
        BY DEF Over, NoRelay
    <2>3. View(NoRelay) =
              [sent |-> NoRelay.sent, end |-> NoRelay.end, heard |-> [x \in Side |-> <<>>],
               told |-> NoRelay.eof, over |-> FALSE]
        BY <2>1, <2>2, Zenon DEF View
    <2>. QED
        BY <2>3, Zenon DEF NoRelay, Direct!Fresh
<1>4. \A c \in Conn : Seen(c) = Direct!Fresh
    BY <1>1, <1>3, SeenIsView
<1>. QED
    BY <1>1, <1>2, <1>4, InitRelay DEF PipeInv, Direct!Init

THEOREM PipeInvariance == Spec => []PipeInv
<1>1. Inv /\ PipeInv /\ [Next]_vars => PipeInv'
    BY PipeInvStep, ListenerAssumption DEF Inv, ListenerType
<1>. QED
    BY Invariance, InitPipe, <1>1, PTL DEF Spec

(* Every step of the forward is a step of one of its pipes, or none.        *)
LEMMA PipeNext ==
    ASSUME ListenerAssumption, fwd \in Forwards, PipeInv, [Next]_vars
    PROVE  Direct!Next \/ UNCHANGED [c \in Conn |-> Seen(c)]
<1>1. [c \in Conn |-> Seen(c)] = [c \in Conn |-> View(relay[c])]
    BY SeenIsView
<1>2. [c \in Conn |-> Seen(c)]' = [c \in Conn |-> View(relay'[c])]
    BY DEF Seen, View, AllHeard, Over, Heard, HeardBy, Stage
<1>3. CASE UNCHANGED relay
    BY <1>1, <1>2, <1>3
<1>4. ASSUME NEW c \in Conn, NEW n, relay' = [relay EXCEPT ![c] = n],
             View(n) = View(relay[c])
      PROVE  UNCHANGED [d \in Conn |-> Seen(d)]
    <2>1. \A d \in Conn : View(relay'[d]) = View(relay[d])
        BY <1>4 DEF PipeInv, RelayInv
    <2>. QED
        BY <1>1, <1>2, <2>1
<1>5. ASSUME NEW c \in Conn, NEW n, relay' = [relay EXCEPT ![c] = n],
             PipeStep(View(relay[c]), View(n))
      PROVE  Direct!Next
    BY <1>5, PipeSteps DEF PipeInv, RelayInv, Direct!Next
<1>. QED
    BY <1>3, <1>4, <1>5, ViewStep

(* A relayed connection looks to its two ends like one connection, but for  *)
(* the PROXY header: whatever the order of reads, writes, half-closes,      *)
(* failed dials and broken connections, each hears what the other sent in   *)
(* order and once, is told of its end after all of it or because one broke  *)
(* off, hears nothing after that, and is not cut off in the middle          *)
(* (handleTCP, forward.go:158-181).                                         *)
THEOREM RelaysActAsPipe == Spec => ActsAsPipe
<1>1. /\ Init => Direct!Init
      /\ Inv /\ PipeInv /\ [Next]_vars
             => [Direct!Next]_([c \in Conn |-> Seen(c)])
    BY InitPipe, PipeNext, ListenerAssumption DEF Inv, ListenerType
<1>. QED
    BY Invariance, PipeInvariance, <1>1, PTL DEF Spec, ActsAsPipe, Direct!Spec
=============================================================================
