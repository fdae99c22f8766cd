------------------------------ MODULE EdgeProofs -------------------------------
(***************************************************************************)
(* Proofs about Edge, for any number of connections, any configurations    *)
(* and any number of edits: what is peeked and spliced arrives in order,   *)
(* the slots of the limiters are held by the requests at their backends, a *)
(* connection accepted for its name is not turned away while the tables    *)
(* stay, a stopped extra port is free, the longest enabled prefix serves a *)
(* request, and no backend's path loses a segment or doubles a slash.      *)
(***************************************************************************)
EXTENDS Edge, RelayProofs, FiniteSetTheorems, SequenceTheorems, WellFoundedInduction

TablesType == scene \in Scenes /\ config \in scene.configs /\ gen \in Nat

LEMMA TablesStep ==
    ASSUME TablesType, [Next]_vars
    PROVE  TablesType' /\ scene' = scene
<1>. USE DEF TablesType, tables
<1>1. CASE Server
    BY <1>1 DEF Server, ServeBegins, ServeEnds, Stop, CloseListener, LoopEnds, Edit
<1>2. ASSUME NEW c \in Conn, Connection(c)
      PROVE  UNCHANGED tables
    BY <1>2 DEF Connection, Clients, Arrive, ResetQueued, AcceptRaw, Peeking, PeekHello,
        PeekFails, Deciding, Splice, Offer, Drop, OfferEnds, Splicing
<1>3. ASSUME NEW c \in Conn, Serving(c)
      PROVE  UNCHANGED tables
    BY <1>3 DEF Serving, ServerAccept, Hangup, ReadPrefix, ReadLateHello, ReadRequest,
        LookUpSite, LookUpDomain, Acquire, Cancel, Respond
<1>. QED
    BY <1>1, <1>2, <1>3 DEF Next, vars

-----------------------------------------------------------------------------
(* What a step does to the record of one connection.                        *)

(* Stages only advance: past the decision, and to the HTTP server.          *)
Undeclared == {"none", "queued", "peek", "decide"}
Handled == {"served", "dropped"}
Onward(c) ==
    /\ Stage(c) \notin Undeclared => Stage(c)' \notin Undeclared
    /\ Stage(c) \in Handled => Stage(c)' \in Handled

Kept(c) == Good(relay'[c]) /\ relay' \in [Conn -> RelayType] /\ Onward(c)
Others(c) == \A d \in Conn : d # c => relay'[d] = relay[d]

LEMMA ToOthers ==
    ASSUME RelayInv, NEW c \in Conn, NEW r, Set(c, r)
    PROVE  Others(c) /\ relay'[c] = r
BY DEF RelayInv, Set, Others

LEMMA StageStep ==
    ASSUME RelayInv, NEW c \in Conn, NEW t, To(c, t), MayGo(relay[c], t)
    PROVE  Kept(c) /\ Others(c)
<1>1. Good(relay'[c]) /\ relay' \in [Conn -> RelayType]
    BY GoTo DEF To
<1>2. Others(c) /\ relay'[c] = [relay[c] EXCEPT !.stage = t]
    BY ToOthers DEF To
<1>3. relay[c] \in RelayType
    BY DEF RelayInv
<1>4. Stage(c)' = t
    BY <1>2, <1>3 DEF Stage, RelayType
<1>5. Onward(c)
    BY <1>4 DEF MayGo, Onward, Undeclared, Handled, Stage, Copied
<1>. QED
    BY <1>1, <1>2, <1>5 DEF Kept

LEMMA RelayingStep ==
    ASSUME RelayInv, NEW c \in Conn, Relaying(c) \/ Ends(c)
    PROVE  Kept(c) /\ Others(c)
<1>1. Good(relay'[c]) /\ relay' \in [Conn -> RelayType]
    BY RelayingGood
<1>2. PICK r : Set(c, r)
    BY DEF Relaying, Ends, Send, Finish, Reset, Dial, WriteHeader, WriteHello,
        Copy, CopyEnds, Close
<1>3. Others(c)
    BY <1>2, ToOthers
<1>4. Onward(c)
    <2>1. relay[c] \in RelayType /\ relay \in [Conn -> RelayType]
        BY DEF RelayInv
    <2>2. CASE Ends(c)
        <3>1. Stage(c)' = Stage(c)
            BY <2>1, <2>2 DEF Ends, Send, Finish, Reset, Set, Stage, RelayType
        <3>. QED
            BY <3>1 DEF Onward
    <2>3. CASE Relaying(c)
        <3>1. Stage(c) \in {"dial", "header", "hello", "copy"}
            BY <2>3 DEF Relaying, Dial, WriteHeader, WriteHello, Copy, CopyEnds, Close,
                Copying
        <3>2. Stage(c)' \in {"header", "hello", "copy", "closed", "dropped"}
            <4>1. CASE Dial(c) \/ WriteHello(c) \/ Close(c)
                <5>1. \/ \E t \in {"header", "hello", "copy", "closed", "dropped"} :
                            relay'[c] = [relay[c] EXCEPT !.stage = t]
                      \/ \E w : relay'[c] = [relay[c] EXCEPT !.stage = "copy",
                                                             !.got["target"] = w]
                    BY <2>1, <4>1 DEF Dial, After, WriteHello, Close, Set
                <5>. QED
                    BY <2>1, <5>1 DEF Stage, RelayType
            <4>2. CASE WriteHeader(c)
                <5>1. \/ relay'[c] = [relay[c] EXCEPT !.stage = "dropped"]
                      \/ relay'[c] = [relay[c] EXCEPT !.stage = After(c, "header"),
                                          !.got["target"] = Append(@, Header)]
                    BY <2>1, <4>2 DEF WriteHeader, Set
                <5>2. After(c, "header") \in {"hello", "copy"}
                    BY DEF After
                <5>. QED
                    BY <2>1, <5>1, <5>2 DEF Stage, RelayType
            <4>3. ASSUME NEW x \in Side, Copy(c, x) \/ CopyEnds(c, x)
                  PROVE  Stage(c)' = "copy"
                <5>1. \/ relay'[c] = [relay[c] EXCEPT !.taken[x] = @ + 1,
                               !.got[Other(x)] = Append(@, relay[c].taken[x] + 1)]
                      \/ relay'[c] = [relay[c] EXCEPT !.copy[x] = "done",
                                                      !.eof[Other(x)] = TRUE]
                    BY <2>1, <4>3 DEF Copy, CopyEnds, Set
                <5>. QED
                    BY <2>1, <4>3, <5>1 DEF Copy, CopyEnds, Copying, Stage, RelayType
            <4>. QED
                BY <2>3, <4>1, <4>2, <4>3 DEF Relaying
        <3>. QED
            BY <3>1, <3>2 DEF Onward, Undeclared, Handled
    <2>. QED
        BY <2>2, <2>3
<1>. QED
    BY <1>1, <1>3, <1>4 DEF Kept

(* What is read from the client at the listener: n pieces, the hello, and   *)
(* nothing yet to anybody.                                                  *)
LEMMA PeekStep ==
    ASSUME RelayInv, NEW c \in Conn, Stage(c) = "peek", NEW n \in {0, 1},
           Set(c, [relay[c] EXCEPT !.stage = "decide", !.taken["client"] = n, !.hello = n])
    PROVE  Kept(c) /\ Others(c)
<1>. DEFINE r == relay[c]
           m == [r EXCEPT !.stage = "decide", !.taken["client"] = n, !.hello = n]
<1>1. r \in RelayType /\ Good(r) /\ r.stage = "peek"
    BY DEF RelayInv, Stage
<1>2. Others(c) /\ relay'[c] = m /\ relay' = [relay EXCEPT ![c] = m]
    BY ToOthers DEF Set
<1>0. n \in Nat
    OBVIOUS
<1>3. [r.taken EXCEPT !["client"] = n] \in [Side -> Nat]
    BY <1>0, <1>1 DEF RelayType
<1>4. m \in RelayType
    BY <1>0, <1>1, <1>3 DEF RelayType, Early
<1>5. /\ m.stage = "decide" /\ m.header = r.header /\ m.hello = n /\ m.got = r.got
      /\ m.taken["client"] = n /\ m.taken["target"] = r.taken["target"]
      /\ m.copy = r.copy /\ m.eof = r.eof
    BY <1>1 DEF RelayType, Side
<1>. HIDE DEF m
<1>6. Shaped(m)
    BY <1>1, <1>4, <1>5 DEF Good, Shaped, Copied, Early
<1>7. Faithful(m)
    BY <1>1, <1>5 DEF Good, Faithful, Before, Copied
<1>8. DoneForAReason(m)
    BY <1>1, <1>5 DEF Good, Shaped, DoneForAReason, Copied
<1>9. Onward(c)
    BY <1>1, <1>2, <1>5 DEF Onward, Stage, Undeclared, Handled
<1>. QED
    BY <1>2, <1>4, <1>6, <1>7, <1>8, <1>9, <1>1 DEF Kept, Good, RelayInv

(* One piece more read by the HTTP server, from what was peeked or from the *)
(* client.                                                                  *)
LEMMA ReadStep ==
    ASSUME RelayInv, NEW c \in Conn, ReadPrefix(c) \/ ReadPiece(c)
    PROVE  Kept(c) /\ Others(c) /\ Stage(c) = "served"
<1>. DEFINE r == relay[c]
           Longer(t, w) == [r EXCEPT !.taken["client"] = t, !.got["target"] = w]
<1>1. r \in RelayType /\ Good(r) /\ r.stage = "served"
    BY DEF RelayInv, ReadPrefix, ReadPiece, Idle, Stage
<1>2. PICK k \in Nat : Read(r, k)
    BY <1>1 DEF Good, Faithful
<1>3. /\ r.got["target"] = Numbered(k) /\ Len(r.got["target"]) = k
      /\ Append(r.got["target"], k + 1) = Numbered(k + 1) /\ Numbered(k + 1) \in Seq(Nat)
    BY <1>2, NumberedNext DEF Read
<1>4. r.taken["client"] \in Nat /\ r.hello \in Nat
    BY <1>1 DEF RelayType, Side
<1>5. ASSUME NEW t \in Nat,
             \/ k + 1 < r.hello /\ t = r.hello
             \/ k + 1 >= r.hello /\ t = k + 1,
             Set(c, Longer(t, Numbered(k + 1)))
      PROVE  Kept(c) /\ Others(c)
    <2>. DEFINE m == Longer(t, Numbered(k + 1))
    <2>1. Others(c) /\ relay'[c] = m /\ relay' = [relay EXCEPT ![c] = m]
        BY <1>5, ToOthers DEF Set
    <2>2. /\ [r.taken EXCEPT !["client"] = t] \in [Side -> Nat]
          /\ [r.got EXCEPT !["target"] = Numbered(k + 1)] \in [Side -> Seq(Nat)]
        BY <1>1, <1>3 DEF RelayType
    <2>3. m \in RelayType
        BY <1>1, <2>2 DEF RelayType
    <2>4. /\ m.stage = r.stage /\ m.header = r.header /\ m.hello = r.hello
          /\ m.got["target"] = Numbered(k + 1) /\ m.got["client"] = r.got["client"]
          /\ m.taken["client"] = t /\ m.taken["target"] = r.taken["target"]
          /\ m.copy = r.copy /\ m.eof = r.eof
        BY <1>1 DEF RelayType, Side
    <2>. HIDE DEF m
    <2>5. Shaped(m)
        BY <1>1, <2>3, <2>4 DEF Good, Shaped, Copied, Early
    <2>6. Read(m, k + 1)
        BY <1>4, <1>5, <2>4 DEF Read
    <2>7. Faithful(m)
        BY <1>1, <2>4, <2>6 DEF Good, Faithful, Before, Copied
    <2>8. DoneForAReason(m)
        BY <1>1, <2>4 DEF Good, Shaped, DoneForAReason, Copied
    <2>9. Onward(c)
        BY <1>1, <2>1, <2>4 DEF Onward, Stage, Undeclared, Handled
    <2>. QED
        BY <2>1, <2>3, <2>5, <2>7, <2>8, <2>9 DEF Kept, Good, RelayInv
<1>6. CASE ReadPrefix(c)
    <2>1. k < r.hello
        BY <1>3, <1>4, <1>6 DEF ReadPrefix, Replayed
    <2>2. r.taken["client"] = r.hello
        BY <1>2, <1>4, <2>1 DEF Read
    <2>3. [r EXCEPT !.got["target"] = Append(@, Len(@) + 1)]
              = [r EXCEPT !.taken["client"] = r.hello, !.got["target"] = Numbered(k + 1)]
        BY <1>1, <1>3, <2>2 DEF RelayType
    <2>4. Set(c, Longer(r.hello, Numbered(k + 1)))
        BY <1>6, <2>3 DEF ReadPrefix
    <2>5. k + 1 < r.hello \/ (k + 1 >= r.hello /\ r.hello = k + 1)
        BY <1>4, <2>1
    <2>. HIDE DEF Longer
    <2>. QED
        BY <1>1, <1>4, <1>5, <2>4, <2>5 DEF Stage
<1>7. CASE ReadPiece(c)
    <2>1. k >= r.hello /\ k = r.taken["client"]
        BY <1>2, <1>3, <1>4, <1>7 DEF ReadPiece, Replayed, Read
    <2>2. Set(c, Longer(k + 1, Numbered(k + 1)))
        BY <1>3, <1>7, <2>1 DEF ReadPiece
    <2>3. k + 1 \in Nat /\ k + 1 >= r.hello
        BY <1>4, <2>1
    <2>. HIDE DEF Longer
    <2>. QED
        BY <1>1, <1>5, <2>2, <2>3 DEF Stage
<1>. QED
    BY <1>6, <1>7

(* A forward of the tables has the flag of the one it was compiled from.    *)
LEMMA FlagsAreFlags ==
    ASSUME TablesType, EdgeAssumption, NEW c, NEW f \in Splices(c)
    PROVE  f.proxyProto \in BOOLEAN
<1>1. config \in Configs
    BY DEF TablesType, Configs
<1>2. f \in Table.domains
    BY DEF Splices, Rule, MatchDomain
<1>3. Table.domains = {CompiledForward(g) : g \in {d \in config.domains : d.enabled}}
    BY <1>1 DEF Table, Tables, Compiled
<1>4. PICK g \in config.domains : f = CompiledForward(g)
    BY <1>2, <1>3
<1>. QED
    BY <1>1, <1>4 DEF EdgeAssumption, CompiledForward

(* Everything a connection goes through before the server.                  *)
LEMMA ConnectionStep ==
    ASSUME RelayInv, TablesType, EdgeAssumption, NEW c \in Conn, Connection(c)
    PROVE  Kept(c) /\ Others(c)
<1>. USE DEF Stage
<1>1. ASSUME NEW t, To(c, t), MayGo(relay[c], t)
      PROVE  Kept(c) /\ Others(c)
    BY <1>1, StageStep
<1>2. CASE \E name \in scene.names : Arrive(c, name)
    BY <1>1, <1>2 DEF Arrive, MayGo
<1>3. CASE ResetQueued(c) \/ Drop(c) \/ OfferEnds(c)
    BY <1>1, <1>3 DEF ResetQueued, Drop, OfferEnds, MayGo, Copied
<1>4. CASE AcceptRaw(c)
    BY <1>1, <1>4 DEF AcceptRaw, MayGo
<1>5. CASE Offer(c)
    BY <1>1, <1>5 DEF Offer, MayGo
<1>6. CASE Peeking(c)
    <2>1. Stage(c) = "peek" /\ \E n \in {0, 1} :
              Set(c, [relay[c] EXCEPT !.stage = "decide", !.taken["client"] = n, !.hello = n])
        BY <1>6 DEF Peeking, PeekHello, PeekFails
    <2>. QED
        BY <2>1, PeekStep
<1>7. CASE Splice(c)
    <2>1. PICK f \in Splices(c) :
              Set(c, [relay[c] EXCEPT !.stage = "dial", !.header = f.proxyProto])
        BY <1>7 DEF Splice
    <2>2. f.proxyProto \in BOOLEAN /\ Stage(c) = "decide"
        BY <1>7, FlagsAreFlags DEF Splice
    <2>3. Good(relay'[c]) /\ relay' \in [Conn -> RelayType]
        BY <2>1, <2>2, HandOver
    <2>4. Others(c) /\ relay'[c] = [relay[c] EXCEPT !.stage = "dial", !.header = f.proxyProto]
        BY <2>1, ToOthers
    <2>. QED
        BY <2>2, <2>3, <2>4 DEF Kept, Onward, Undeclared, Handled
<1>8. CASE Ends(c) \/ Splicing(c)
    BY <1>8, RelayingStep DEF Splicing
<1>. QED
    BY <1>2, <1>3, <1>4, <1>5, <1>6, <1>7, <1>8 DEF Connection, Clients, Deciding

LEMMA ServingStep ==
    ASSUME RelayInv, NEW c \in Conn, Serving(c)
    PROVE  UNCHANGED relay \/ (Kept(c) /\ Others(c))
<1>1. CASE ServerAccept(c)
    BY <1>1, StageStep DEF ServerAccept, MayGo, Stage
<1>2. CASE Hangup(c)
    BY <1>2, StageStep DEF Hangup, Idle, MayGo, Stage, Copied
<1>3. CASE \/ ReadPrefix(c) \/ ReadLateHello(c)
           \/ \E host \in scene.hosts, path \in scene.paths : ReadRequest(c, host, path)
    BY <1>3, ReadStep DEF ReadLateHello, ReadRequest
<1>4. CASE LookUpSite(c) \/ LookUpDomain(c) \/ Acquire(c) \/ Cancel(c) \/ Respond(c)
    BY <1>4 DEF LookUpSite, LookUpDomain, Acquire, Cancel, Respond
<1>. QED
    BY <1>1, <1>2, <1>3, <1>4 DEF Serving

(* The server's own steps drop connections, and leave the rest.             *)
LEMMA ServerStep ==
    ASSUME RelayInv, Server, NEW c \in Conn
    PROVE  Kept(c)
<1>1. CASE Stop
    <2>. DEFINE n == [relay[c] EXCEPT !.stage = "dropped"]
    <2>1. \A d \in Conn : Good(relay'[d]) /\ (relay'[d] = relay[d]
              \/ (relay[d].stage = "served" /\ relay'[d].stage = "dropped"))
        <3>. SUFFICES ASSUME NEW d \in Conn
                      PROVE  Good(relay'[d]) /\ (relay'[d] = relay[d]
                          \/ (relay[d].stage = "served" /\ relay'[d].stage = "dropped"))
            OBVIOUS
        <3>1. CASE relay'[d] = relay[d]
            BY <3>1 DEF RelayInv
        <3>2. CASE relay'[d] # relay[d]
            <4>1. /\ relay'[d] = [relay[d] EXCEPT !.stage = "dropped"]
                  /\ relay[d].stage = "served"
                BY <1>1, <3>2 DEF Stop, Idle, Stage
            <4>2. relay[d] \in RelayType /\ MayGo(relay[d], "dropped") /\ Good(relay[d])
                BY <4>1 DEF RelayInv, MayGo, Copied
            <4>. QED
                BY <4>1, <4>2, MoveGood DEF RelayType
        <3>. QED
            BY <3>1, <3>2
    <2>2. relay' \in [Conn -> RelayType]
        <3>1. \A d \in Conn : relay'[d] \in RelayType
            BY <2>1 DEF Good, Shaped
        <3>2. relay' = [d \in Conn |-> relay'[d]]
            BY <1>1 DEF Stop
        <3>. QED
            BY <3>1, <3>2
    <2>. QED
        BY <2>1, <2>2 DEF Kept, Onward, Stage, Undeclared, Handled
<1>2. CASE UNCHANGED relay
    BY <1>2 DEF Kept, Onward, Stage, RelayInv
<1>. QED
    BY <1>1, <1>2 DEF Server, ServeBegins, ServeEnds, CloseListener, LoopEnds, Edit

LEMMA AnyStep ==
    ASSUME RelayInv, TablesType, EdgeAssumption, [Next]_vars
    PROVE  RelayInv' /\ \A c \in Conn : Onward(c)
<1>1. CASE UNCHANGED relay
    BY <1>1 DEF RelayInv, Onward, Stage
<1>2. ASSUME NEW c \in Conn, Kept(c), Others(c)
      PROVE  RelayInv' /\ \A d \in Conn : Onward(d)
    BY <1>2 DEF Kept, Others, RelayInv, Onward, Stage
<1>3. CASE Server
    <2>1. \A c \in Conn : Kept(c)
        BY <1>3, ServerStep
    <2>2. CASE Conn = {}
        BY <1>3, <2>2 DEF Server, Stop, RelayInv, ServeBegins, ServeEnds, CloseListener,
            LoopEnds, Edit
    <2>3. CASE Conn # {}
        BY <2>1, <2>3 DEF Kept, RelayInv
    <2>. QED
        BY <2>2, <2>3
<1>4. ASSUME NEW c \in Conn, Connection(c) \/ Serving(c)
      PROVE  RelayInv' /\ \A d \in Conn : Onward(d)
    BY <1>1, <1>2, <1>4, ConnectionStep, ServingStep
<1>. QED
    BY <1>1, <1>3, <1>4 DEF Next, vars

LEMMA InitRelay == Init => TablesType /\ RelayInv
<1>. SUFFICES ASSUME Init PROVE TablesType /\ RelayInv
    OBVIOUS
<1>1. Served \in RelayType /\ Good(Served)
    <2>1. /\ Served.stage = "served" /\ Served.header = FALSE /\ Served.hello = 1
          /\ Served.taken["client"] = 1 /\ Served.taken["target"] = 0
          /\ Served.got["target"] = <<1>> /\ Served.got["client"] = <<>>
          /\ \A x \in Side : Served.copy[x] = "run" /\ Served.eof[x] = FALSE
        BY DEF Served, NoRelay, Side
    <2>2. Numbered(1) = <<1>> /\ <<1>> \in Seq(Nat) /\ <<>> \in Seq(Nat)
        BY DEF Numbered
    <2>3. Served \in RelayType
        BY <2>2 DEF Served, NoRelay, RelayType, Early, Side
    <2>4. Shaped(Served)
        BY <2>1, <2>3, Sides DEF Shaped, Copied, Early, Side
    <2>5. Read(Served, 1)
        BY <2>1, <2>2 DEF Read
    <2>6. Faithful(Served)
        BY <2>1, <2>5, NumberedZero DEF Faithful, Before, Copied
    <2>7. DoneForAReason(Served)
        BY <2>1 DEF DoneForAReason
    <2>. QED
        BY <2>3, <2>4, <2>6, <2>7 DEF Good
<1>2. RelayInv
    BY <1>1, NoRelayGood DEF Init, ListenerInit, RelayInv
<1>3. TablesType
    BY DEF Init, ListenerInit, TablesType
<1>. QED
    BY <1>2, <1>3

THEOREM RelayInvariance == Spec => [](TablesType /\ RelayInv)
<1>1. TablesType /\ RelayInv /\ [Next]_vars => (TablesType /\ RelayInv)'
    BY TablesStep, AnyStep, EdgeAssumption
<1>. QED
    BY InitRelay, <1>1, PTL DEF Spec

(* Whatever is peeked, replayed, spliced or read by the HTTP server, the    *)
(* other side gets the header, the ClientHello and the rest in the order    *)
(* they were sent, nothing twice (prefixConn and spliceTo, domains.go).     *)
THEOREM NothingReordered == Spec => []InOrder
BY RelayInvariance, GoodInOrder, PTL

-----------------------------------------------------------------------------
(* Requests and the slots they hold.                                        *)

Recorded(q) == q = [stage |-> q.stage, host |-> q.host, path |-> q.path,
                    rule |-> q.rule, limiter |-> q.limiter]

(* A request is made by a connection the server has, and has no limiter     *)
(* before its route is looked up.                                           *)
ReqInv ==
    /\ req = [c \in Conn |-> req[c]]
    /\ \A c \in Conn :
          /\ Recorded(req[c])
          /\ req[c].stage # "none" => Stage(c) \in Handled
          /\ req[c].stage \in {"site", "domain"} => req[c].limiter = NoLimit

Holders(l) == {c \in Conn : req[c].stage = "proxy" /\ req[c].limiter = l}

SlotsInv ==
    /\ slots \in [Limiter -> Int]
    /\ \A l \in Limiter : slots[l] <= Capacity(l) /\ slots[l] = Cardinality(Holders(l))

LEMMA LimiterFacts ==
    ASSUME EdgeAssumption, NEW l \in Limiter
    PROVE  Capacity(l) \in Int /\ Capacity(l) > 0 /\ l # NoLimit
<1>1. PICK g \in 0 .. MaxEdits, w \in Limited : l = <<g, w>>
    BY DEF Limiter
<1>2. PICK k \in Configs : w \in LimitedBy(k)
    BY DEF Limited
<1>3. PICK h \in DOMAIN k.sites : w \in {<<h, r>> : r \in {q \in Range(k.sites[h]) : q.max > 0}}
    BY <1>2 DEF LimitedBy
<1>4. PICK r \in Range(k.sites[h]) : w = <<h, r>> /\ r.max > 0
    BY <1>3
<1>5. Capacity(l) = r.max
    BY <1>1, <1>4 DEF Capacity
<1>6. r \in Route
    <2>1. k.sites[h] \in Seq(Route)
        BY DEF EdgeAssumption
    <2>. QED
        BY <1>4, <2>1 DEF Range
<1>. QED
    BY <1>1, <1>4, <1>5, <1>6 DEF Route, NoLimit

LEMMA RequestStep ==
    ASSUME ReqInv, NEW c \in Conn, NEW q, Request(c, q)
    PROVE  /\ req'[c] = q /\ req' = [d \in Conn |-> req'[d]]
           /\ \A d \in Conn : d # c => req'[d] = req[d]
BY DEF ReqInv, Request

(* A request ends: what remains is the answer.                              *)
LEMMA AnswerStep ==
    ASSUME ReqInv, NEW c \in Conn, NEW kind, Answer(c, kind)
    PROVE  /\ Recorded(req'[c]) /\ req'[c].stage = kind
           /\ req'[c].host = req[c].host /\ req'[c].limiter = NoLimit
           /\ req' = [d \in Conn |-> req'[d]]
           /\ \A d \in Conn : d # c => req'[d] = req[d]
<1>1. req'[c] = [NoRequest EXCEPT !.stage = kind, !.host = req[c].host]
    BY RequestStep DEF Answer
<1>2. req'[c] = [stage |-> kind, host |-> req[c].host, path |-> <<>>, rule |-> {},
                 limiter |-> NoLimit]
    BY <1>1 DEF NoRequest
<1>. QED
    BY <1>2, RequestStep DEF Answer, Recorded

(* The steps of a request, by what becomes of it.                           *)
Begins(c) ==
    /\ ~ Active(c) /\ Stage(c) = "served"
    /\ req'[c].stage \in {"site", "domain"}
Waiting(c) ==
    /\ req[c].stage = "site" /\ req'[c].stage = "wait"
Proceeds(c) ==
    /\ req[c].stage \in {"site", "domain"}
    /\ req'[c].stage \in {"domain", "proxy"} /\ req'[c].limiter = NoLimit
Missed(c) ==
    /\ req[c].stage = "domain" /\ req'[c].host = req[c].host
    /\ scene.place # "http" /\ Proxied(c) = {}
Rejected(c) ==
    /\ req[c].stage \in {"domain", "wait"}
    /\ req'[c].stage \in {"notfound", "redirect", "busy"}
    /\ req'[c].stage = "notfound" => Missed(c)

Moves(c) ==
    /\ Recorded(req'[c]) /\ req' = [d \in Conn |-> req'[d]]
    /\ \A d \in Conn : d # c => req'[d] = req[d]
    /\ req'[c].stage \in {"site", "domain"} => req'[c].limiter = NoLimit

LEMMA ReadRequestStep ==
    ASSUME ReqInv, NEW c \in Conn, NEW h, NEW p, ReadRequest(c, h, p)
    PROVE  Moves(c) /\ Begins(c)
<1>1. PICK n : /\ \E t \in {"site", "domain"} :
                      n = [NoRequest EXCEPT !.stage = t, !.host = h, !.path = p]
               /\ Request(c, n)
    BY DEF ReadRequest
<1>2. Recorded(n) /\ n.stage \in {"site", "domain"} /\ n.limiter = NoLimit
    BY <1>1 DEF NoRequest, Recorded
<1>3. ~ Active(c) /\ Stage(c) = "served"
    BY DEF ReadRequest, ReadPiece, Idle
<1>. QED
    BY <1>1, <1>2, <1>3, RequestStep DEF Moves, Begins

LEMMA LookUpSiteStep ==
    ASSUME ReqInv, NEW c \in Conn, LookUpSite(c)
    PROVE  Moves(c) /\ (Waiting(c) \/ Proceeds(c))
<1>. DEFINE q == req[c]
<1>1. Recorded(q) /\ q.stage = "site" /\ q.limiter = NoLimit
    BY DEF ReqInv, LookUpSite
<1>2. ASSUME NEW n, n = [q EXCEPT !.stage = "domain"], Request(c, n)
      PROVE  Moves(c) /\ Proceeds(c)
    <2>1. Recorded(n) /\ n.stage = "domain" /\ n.limiter = NoLimit
        BY <1>1, <1>2 DEF Recorded
    <2>. QED
        BY <1>1, <1>2, <2>1, RequestStep DEF Moves, Proceeds
<1>3. ASSUME NEW r, NEW n,
             n = [q EXCEPT !.rule = {r},
                     !.stage = IF Waits(r) THEN "wait" ELSE "proxy",
                     !.limiter = IF r.max > 0 THEN <<gen, <<q.host, r>>>> ELSE NoLimit],
             Request(c, n)
      PROVE  Moves(c) /\ (Waiting(c) \/ Proceeds(c))
    <2>1. /\ Recorded(n) /\ n.stage = (IF Waits(r) THEN "wait" ELSE "proxy")
          /\ n.limiter = (IF r.max > 0 THEN <<gen, <<q.host, r>>>> ELSE NoLimit)
        BY <1>1, <1>3 DEF Recorded
    <2>2. n.stage \in {"wait", "proxy"}
        BY <2>1
    <2>3. /\ req'[c] = n /\ req' = [d \in Conn |-> req'[d]]
          /\ \A d \in Conn : d # c => req'[d] = req[d]
        BY <1>3, RequestStep
    <2>4. Moves(c)
        BY <2>1, <2>2, <2>3 DEF Moves
    <2>. QED
        BY <1>1, <2>1, <2>3, <2>4 DEF Waiting, Proceeds, Waits
<1>. QED
    BY <1>2, <1>3 DEF LookUpSite

LEMMA LookUpDomainStep ==
    ASSUME ReqInv, NEW c \in Conn, LookUpDomain(c)
    PROVE  Moves(c) /\ (Proceeds(c) \/ Rejected(c))
<1>. DEFINE q == req[c]
<1>1. Recorded(q) /\ q.stage = "domain" /\ q.limiter = NoLimit
    BY DEF ReqInv, LookUpDomain
<1>2. ASSUME NEW n, n = [q EXCEPT !.stage = "proxy", !.rule = Proxied(c)], Request(c, n)
      PROVE  Moves(c) /\ Proceeds(c)
    <2>1. Recorded(n) /\ n.stage = "proxy" /\ n.limiter = NoLimit
        BY <1>1, <1>2 DEF Recorded
    <2>. QED
        BY <1>1, <1>2, <2>1, RequestStep DEF Moves, Proceeds
<1>3. CASE Answer(c, "redirect")
    BY <1>1, <1>3, AnswerStep DEF Moves, Rejected
<1>4. CASE scene.place # "http" /\ Proxied(c) = {} /\ Answer(c, "notfound")
    BY <1>1, <1>4, AnswerStep DEF Moves, Rejected, Missed
<1>. QED
    BY <1>2, <1>3, <1>4 DEF LookUpDomain

(* What a step does to the requests and the slots: at most one connection   *)
(* has its request begun, moved on or ended, and only a slot taken or given *)
(* back changes what the limiters hold.                                     *)
Takes(c) ==
    /\ req[c].stage = "wait" /\ req'[c].stage = "proxy"
    /\ req'[c].limiter = req[c].limiter
    /\ slots[req[c].limiter] < Capacity(req[c].limiter)
    /\ slots' = [slots EXCEPT ![req[c].limiter] = @ + 1]
GivesBack(c) ==
    /\ req[c].stage = "proxy" /\ req'[c].stage = "none"
    /\ slots' = IF req[c].limiter = NoLimit THEN slots
                ELSE [slots EXCEPT ![req[c].limiter] = @ - 1]

LEMMA ServiceStep ==
    ASSUME ReqInv, [Next]_vars
    PROVE  \/ UNCHANGED service
           \/ \E c \in Conn :
                 /\ Moves(c)
                 /\ \/ /\ UNCHANGED slots
                       /\ Begins(c) \/ Waiting(c) \/ Proceeds(c) \/ Rejected(c)
                    \/ UNCHANGED relay /\ (Takes(c) \/ GivesBack(c))
<1>1. CASE Server \/ UNCHANGED vars
    BY <1>1 DEF Server, ServeBegins, ServeEnds, Stop, CloseListener, Edit, vars
<1>2. CASE \E c \in Conn : Connection(c)
    BY <1>2 DEF Connection
<1>3. ASSUME NEW c \in Conn, Serving(c)
      PROVE  \/ UNCHANGED service
             \/ /\ Moves(c)
                /\ \/ /\ UNCHANGED slots
                      /\ Begins(c) \/ Waiting(c) \/ Proceeds(c) \/ Rejected(c)
                   \/ UNCHANGED relay /\ (Takes(c) \/ GivesBack(c))
    <2>1. CASE ServerAccept(c) \/ Hangup(c) \/ ReadPrefix(c) \/ ReadLateHello(c)
        BY <2>1 DEF ServerAccept, Hangup, ReadPrefix, ReadLateHello
    <2>2. CASE \E host \in scene.hosts, path \in scene.paths : ReadRequest(c, host, path)
        <3>1. UNCHANGED slots
            BY <2>2 DEF ReadRequest
        <3>. QED
            BY <2>2, <3>1, ReadRequestStep
    <2>3. CASE LookUpSite(c) \/ LookUpDomain(c)
        <3>1. UNCHANGED slots
            BY <2>3 DEF LookUpSite, LookUpDomain
        <3>. QED
            BY <2>3, <3>1, LookUpSiteStep, LookUpDomainStep
    <2>4. CASE Acquire(c)
        <3>1. PICK n : n = [req[c] EXCEPT !.stage = "proxy"] /\ Request(c, n)
            BY <2>4 DEF Acquire
        <3>2. Recorded(n) /\ n.stage = "proxy" /\ n.limiter = req[c].limiter
            BY <3>1 DEF ReqInv, Recorded
        <3>. QED
            BY <2>4, <3>1, <3>2, RequestStep DEF Acquire, Takes, Moves
    <2>5. CASE Cancel(c)
        BY <2>5, AnswerStep DEF Cancel, Rejected, Moves
    <2>6. CASE Respond(c)
        BY <2>6, AnswerStep DEF Respond, GivesBack, Moves
    <2>. QED
        BY <1>3, <2>1, <2>2, <2>3, <2>4, <2>5, <2>6 DEF Serving
<1>. QED
    BY <1>1, <1>2, <1>3 DEF Next

LEMMA ReqStep ==
    ASSUME RelayInv, TablesType, EdgeAssumption, ReqInv, [Next]_vars
    PROVE  ReqInv'
<1>1. \A c \in Conn : Onward(c)
    BY AnyStep
<1>2. CASE UNCHANGED service
    <2>1. req' = req
        BY <1>2 DEF service
    <2>. QED
        BY <1>1, <2>1 DEF ReqInv, Onward
<1>3. ASSUME NEW c \in Conn, Moves(c),
             \/ Begins(c) \/ Waiting(c) \/ Proceeds(c) \/ Rejected(c)
             \/ Takes(c) \/ GivesBack(c)
      PROVE  ReqInv'
    <2>1. \A d \in Conn : d # c => /\ Recorded(req'[d])
                                   /\ req'[d].stage # "none" => Stage(d)' \in Handled
                                   /\ req'[d].stage \in {"site", "domain"} =>
                                          req'[d].limiter = NoLimit
        BY <1>1, <1>3 DEF Moves, ReqInv, Onward
    <2>2. Stage(c) \in Handled
        BY <1>3 DEF ReqInv, Begins, Waiting, Proceeds, Rejected, Takes, GivesBack, Handled
    <2>3. Stage(c)' \in Handled
        BY <1>1, <2>2 DEF Onward
    <2>. QED
        BY <1>3, <2>1, <2>3 DEF Moves, ReqInv
<1>. QED
    BY <1>2, <1>3, ServiceStep

(* The holders of a limiter: one more, one less, or the same.               *)
LEMMA HoldersStep ==
    ASSUME NEW c \in Conn, EdgeAssumption, Moves(c), NEW l
    PROVE  /\ Cardinality(Holders(l)) \in Nat
           /\ (c \in Holders(l) <=> c \in Holders(l)') => Holders(l)' = Holders(l)
           /\ c \notin Holders(l) /\ c \in Holders(l)' =>
                  Cardinality(Holders(l)') = Cardinality(Holders(l)) + 1
           /\ c \in Holders(l) /\ c \notin Holders(l)' =>
                  Cardinality(Holders(l)') = Cardinality(Holders(l)) - 1
<1>1. /\ IsFiniteSet(Holders(l)) /\ IsFiniteSet(Holders(l)')
      /\ Cardinality(Holders(l)) \in Nat
    BY FS_Subset, FS_CardinalityType DEF Holders, EdgeAssumption
<1>2. \A d \in Conn : d # c => (d \in Holders(l) <=> d \in Holders(l)')
    BY DEF Moves, Holders
<1>3. Holders(l) \subseteq Conn /\ Holders(l)' \subseteq Conn
    BY DEF Holders
<1>4. (c \in Holders(l) <=> c \in Holders(l)') => Holders(l)' = Holders(l)
    BY <1>2, <1>3
<1>5. ASSUME c \notin Holders(l), c \in Holders(l)'
      PROVE  Cardinality(Holders(l)') = Cardinality(Holders(l)) + 1
    <2>1. Holders(l)' = Holders(l) \cup {c}
        BY <1>2, <1>3, <1>5
    <2>. QED
        BY <1>1, <1>5, <2>1, FS_AddElement
<1>6. ASSUME c \in Holders(l), c \notin Holders(l)'
      PROVE  Cardinality(Holders(l)') = Cardinality(Holders(l)) - 1
    <2>1. Holders(l)' = Holders(l) \ {c}
        BY <1>2, <1>3, <1>6
    <2>. QED
        BY <1>1, <1>6, <2>1, FS_RemoveElement
<1>. QED
    BY <1>1, <1>4, <1>5, <1>6

LEMMA SlotsStep ==
    ASSUME EdgeAssumption, ReqInv, SlotsInv, [Next]_vars
    PROVE  SlotsInv'
<1>0. \A l \in Limiter : Capacity(l) \in Int /\ l # NoLimit
    BY LimiterFacts
<1>1. CASE UNCHANGED service
    BY <1>1 DEF service, SlotsInv, Holders
<1>2. ASSUME NEW c \in Conn, Moves(c), UNCHANGED slots,
             Begins(c) \/ Waiting(c) \/ Proceeds(c) \/ Rejected(c)
      PROVE  SlotsInv'
    <2>1. \A l \in Limiter : c \notin Holders(l) /\ c \notin Holders(l)'
        BY <1>0, <1>2 DEF Holders, Begins, Waiting, Proceeds, Rejected, Active
    <2>2. \A l \in Limiter : Holders(l)' = Holders(l)
        BY <1>2, <2>1, HoldersStep
    <2>. QED
        BY <1>2, <2>2 DEF SlotsInv
<1>3. ASSUME NEW c \in Conn, Moves(c), Takes(c)
      PROVE  SlotsInv'
    <2>1. slots' \in [Limiter -> Int]
        <3>1. req[c].limiter \in Limiter => slots[req[c].limiter] \in Int
            BY DEF SlotsInv
        <3>2. CASE req[c].limiter \in Limiter
            BY <1>3, <3>1, <3>2 DEF Takes, SlotsInv
        <3>3. CASE req[c].limiter \notin Limiter
            BY <1>3, <3>3 DEF Takes, SlotsInv
        <3>. QED
            BY <3>2, <3>3
    <2>2. ASSUME NEW l \in Limiter
          PROVE  slots'[l] <= Capacity(l) /\ slots'[l] = Cardinality(Holders(l)')
        <3>1. CASE l = req[c].limiter
            <4>1. c \notin Holders(l) /\ c \in Holders(l)'
                BY <1>3, <3>1 DEF Takes, Holders
            <4>2. slots'[l] = slots[l] + 1 /\ slots[l] < Capacity(l) /\ slots[l] \in Int
                BY <1>3, <3>1 DEF Takes, SlotsInv
            <4>. QED
                BY <1>0, <1>3, <4>1, <4>2, HoldersStep DEF SlotsInv
        <3>2. CASE l # req[c].limiter
            <4>1. c \notin Holders(l) /\ c \notin Holders(l)' /\ slots'[l] = slots[l]
                BY <1>3, <3>2 DEF Takes, Holders, SlotsInv
            <4>. QED
                BY <1>3, <4>1, HoldersStep DEF SlotsInv
        <3>. QED
            BY <3>1, <3>2
    <2>. QED
        BY <2>1, <2>2 DEF SlotsInv, Capacity
<1>4. ASSUME NEW c \in Conn, Moves(c), GivesBack(c)
      PROVE  SlotsInv'
    <2>1. slots' \in [Limiter -> Int]
        <3>1. req[c].limiter \in Limiter => slots[req[c].limiter] \in Int
            BY DEF SlotsInv
        <3>2. CASE req[c].limiter \in Limiter
            BY <1>4, <3>1, <3>2 DEF GivesBack, SlotsInv
        <3>3. CASE req[c].limiter \notin Limiter
            BY <1>4, <3>3 DEF GivesBack, SlotsInv
        <3>. QED
            BY <3>2, <3>3
    <2>2. ASSUME NEW l \in Limiter
          PROVE  slots'[l] <= Capacity(l) /\ slots'[l] = Cardinality(Holders(l)')
        <3>1. CASE l = req[c].limiter
            <4>1. c \in Holders(l) /\ c \notin Holders(l)'
                BY <1>4, <3>1 DEF GivesBack, Holders
            <4>2. slots'[l] = slots[l] - 1 /\ slots[l] \in Int /\ slots[l] <= Capacity(l)
                BY <1>0, <1>4, <3>1 DEF GivesBack, SlotsInv
            <4>. QED
                BY <1>0, <1>4, <4>1, <4>2, HoldersStep DEF SlotsInv
        <3>2. CASE l # req[c].limiter
            <4>1. c \notin Holders(l) /\ c \notin Holders(l)' /\ slots'[l] = slots[l]
                BY <1>4, <3>2 DEF GivesBack, Holders, SlotsInv
            <4>. QED
                BY <1>4, <4>1, HoldersStep DEF SlotsInv
        <3>. QED
            BY <3>1, <3>2
    <2>. QED
        BY <2>1, <2>2 DEF SlotsInv, Capacity
<1>. QED
    BY <1>1, <1>2, <1>3, <1>4, ServiceStep

LEMMA InitRequests == Init /\ EdgeAssumption => ReqInv /\ SlotsInv
<1>. SUFFICES ASSUME Init, EdgeAssumption PROVE ReqInv /\ SlotsInv
    OBVIOUS
<1>1. NoRequest.stage = "none" /\ Recorded(NoRequest)
    BY DEF NoRequest, Recorded
<1>2. ReqInv
    BY <1>1 DEF Init, ReqInv
<1>3. \A l \in Limiter : Holders(l) = {}
    BY <1>1 DEF Init, Holders
<1>4. \A l \in Limiter : slots[l] = 0 /\ Cardinality(Holders(l)) = 0
    BY <1>3, FS_EmptySet DEF Init
<1>5. \A l \in Limiter : 0 <= Capacity(l)
    BY LimiterFacts
<1>6. slots \in [Limiter -> Int]
    BY DEF Init
<1>7. SlotsInv
    BY <1>4, <1>5, <1>6 DEF SlotsInv
<1>. QED
    BY <1>2, <1>7

THEOREM RequestInvariance == Spec => [](ReqInv /\ SlotsInv)
<1>1. /\ TablesType /\ RelayInv /\ ReqInv /\ SlotsInv /\ [Next]_vars
      => (ReqInv /\ SlotsInv)'
    BY ReqStep, SlotsStep, EdgeAssumption
<1>2. Init => ReqInv /\ SlotsInv
    BY InitRequests, EdgeAssumption
<1>. QED
    BY RelayInvariance, <1>1, <1>2, PTL DEF Spec

(* However requests, cancelled waits, lost connections and edits of the     *)
(* tables interleave, a limiter has no more slots out than it has, and      *)
(* exactly as many as it has requests at their backends (config.go:399-424, *)
(* proxy.go).                                                               *)
THEOREM SlotsAreHeld == Spec => []LimitHolds
<1>1. SlotsInv => LimitHolds
    BY DEF SlotsInv, LimitHolds, Holders
<1>. QED
    BY RequestInvariance, <1>1, PTL

-----------------------------------------------------------------------------
(* Accepted because of a rule, and served by it while the tables stay.      *)

RuledInv ==
    /\ ruled \in [Conn -> Int] /\ sni = [c \in Conn |-> sni[c]]
    /\ \A c \in Conn :
          /\ ruled[c] <= gen
          /\ ruled[c] # -1 => Stage(c) \notin Undeclared
          /\ ruled[c] = gen => Rule(c) # {} /\ Splices(c) = {}
    /\ AcceptedIsServed

LEMMA OfferedOrNot ==
    ASSUME [Next]_vars
    PROVE  \/ UNCHANGED <<tables, peeks>>
           \/ \E k \in scene.configs : Edit(k)
           \/ /\ UNCHANGED <<tables, req>>
              /\ \E c \in Conn :
                    \/ Offer(c) \/ PeekFails(c)
                    \/ \E name \in scene.names : Arrive(c, name)
<1>. USE DEF tables, peeks
<1>1. CASE Server
    BY <1>1 DEF Server, ServeBegins, ServeEnds, Stop, CloseListener, LoopEnds
<1>2. ASSUME NEW c \in Conn, Connection(c)
      PROVE  \/ UNCHANGED <<tables, peeks>>
             \/ /\ UNCHANGED <<tables, req>>
                /\ \/ Offer(c) \/ PeekFails(c)
                   \/ \E name \in scene.names : Arrive(c, name)
    BY <1>2 DEF Connection, service, Clients, Arrive, ResetQueued, AcceptRaw, Peeking,
        PeekHello, PeekFails, Deciding, Splice, Offer, Drop, OfferEnds, Splicing
<1>3. ASSUME NEW c \in Conn, Serving(c)
      PROVE  UNCHANGED <<tables, peeks>>
    BY <1>3 DEF Serving, ServerAccept, Hangup, ReadPrefix, ReadLateHello, ReadRequest,
        LookUpSite, LookUpDomain, Acquire, Cancel, Respond
<1>. QED
    BY <1>1, <1>2, <1>3 DEF Next, vars

(* Same tables and same name: same rules.                                   *)
LEMMA SameRules ==
    ASSUME UNCHANGED tables, NEW c, sni'[c] = sni[c]
    PROVE  Rule(c)' = Rule(c) /\ Splices(c)' = Splices(c)
BY DEF tables, Splices, Rule, Table, Port

(* A request of the name the connection was accepted for finds the rule.    *)
LEMMA RuleIsFound ==
    ASSUME NEW c \in Conn, Rule(c) # {}, Splices(c) = {}, req[c].host = sni[c],
           scene.place # "http"
    PROVE  Proxied(c) # {}
BY DEF Rule, Splices, Proxied

LEMMA RuledStep ==
    ASSUME RelayInv, TablesType, EdgeAssumption, ReqInv, RuledInv, [Next]_vars
    PROVE  RuledInv'
<1>0. gen \in Nat /\ \A c \in Conn : ruled[c] \in Int /\ Onward(c)
    BY AnyStep DEF TablesType, RuledInv
<1>1. CASE \E k \in scene.configs : Edit(k)
    <2>1. gen' = gen + 1 /\ UNCHANGED <<ruled, relay, sni, req>>
        BY <1>1 DEF Edit, peeks, service
    <2>2. \A c \in Conn : ruled'[c] <= gen' /\ ruled'[c] # gen'
        BY <1>0, <2>1 DEF RuledInv
    <2>. QED
        BY <2>1, <2>2 DEF RuledInv, AcceptedIsServed, Stage
<1>2. CASE UNCHANGED <<tables, peeks>>
    <2>1. UNCHANGED <<scene, config, gen, sni, ruled>>
        BY <1>2 DEF tables, peeks
    <2>2. ASSUME NEW c \in Conn
          PROVE  /\ ruled'[c] <= gen'
                 /\ ruled'[c] # -1 => Stage(c)' \notin Undeclared
                 /\ ruled'[c] = gen' => Rule(c)' # {} /\ Splices(c)' = {}
        BY <1>0, <1>2, <2>1, SameRules DEF RuledInv, Onward
    <2>3. ASSUME NEW c \in Conn, req'[c].stage = "notfound", req'[c].host = sni[c]
          PROVE  ruled[c] # gen
        <3>1. CASE req'[c] = req[c]
            BY <2>3, <3>1 DEF RuledInv, AcceptedIsServed
        <3>2. CASE req'[c] # req[c]
            <4>1. Missed(c)
                BY <2>3, <3>2, ServiceStep DEF service, Moves, Begins, Waiting, Proceeds,
                    Rejected, Takes, GivesBack
            <4>. QED
                BY <2>3, <4>1, RuleIsFound DEF Missed, RuledInv
        <3>. QED
            BY <3>1, <3>2
    <2>. QED
        BY <2>1, <2>2, <2>3 DEF RuledInv, AcceptedIsServed
<1>3. ASSUME NEW c \in Conn, UNCHANGED <<tables, req>>,
             \/ Offer(c) \/ PeekFails(c)
             \/ \E name \in scene.names : Arrive(c, name)
      PROVE  RuledInv'
    <2>1. UNCHANGED <<scene, config, gen, req>>
        BY <1>3 DEF tables
    <2>2. Stage(c) \in Undeclared /\ req[c].stage = "none" /\ ruled[c] = -1
        BY <1>3 DEF Offer, PeekFails, Arrive, Undeclared, Handled, ReqInv, RuledInv
    <2>3. \A d \in Conn : d # c => sni'[d] = sni[d] /\ ruled'[d] = ruled[d]
        BY <1>3 DEF Offer, PeekFails, Arrive, RuledInv
    <2>0. sni' = [d \in Conn |-> sni'[d]]
        BY <1>3 DEF Offer, PeekFails, Arrive, RuledInv
    <2>4. ASSUME NEW d \in Conn, d # c
          PROVE  /\ ruled'[d] <= gen'
                 /\ ruled'[d] # -1 => Stage(d)' \notin Undeclared
                 /\ ruled'[d] = gen' => Rule(d)' # {} /\ Splices(d)' = {}
        BY <1>0, <1>3, <2>1, <2>3, <2>4, SameRules DEF RuledInv, Onward
    <2>5. CASE Offer(c)
        <3>1. /\ sni' = sni /\ Splices(c) = {} /\ Stage(c)' = "offer"
              /\ ruled' = [ruled EXCEPT ![c] = IF Rule(c) # {} THEN gen ELSE -1]
            BY <2>5 DEF Offer, Accepts, To, Set, Stage, RelayInv, RelayType
        <3>2. ruled' \in [Conn -> Int] /\ ruled'[c] = (IF Rule(c) # {} THEN gen ELSE -1)
            BY <1>0, <3>1 DEF RuledInv
        <3>3. Rule(c)' = Rule(c) /\ Splices(c)' = Splices(c)
            BY <1>3, <3>1, SameRules
        <3>4. /\ ruled'[c] <= gen'
              /\ ruled'[c] # -1 => Stage(c)' \notin Undeclared
              /\ ruled'[c] = gen' => Rule(c)' # {} /\ Splices(c)' = {}
            BY <1>0, <2>1, <3>1, <3>2, <3>3 DEF Undeclared
        <3>5. AcceptedIsServed'
            BY <2>1, <2>2, <2>3, <3>1 DEF RuledInv, AcceptedIsServed
        <3>. QED
            BY <2>0, <2>4, <3>2, <3>4, <3>5 DEF RuledInv
    <2>6. CASE ~ Offer(c)
        <3>1. ruled' = ruled
            BY <1>3, <2>6 DEF PeekFails, Arrive
        <3>2. AcceptedIsServed'
            BY <2>1, <2>2, <2>3, <3>1 DEF RuledInv, AcceptedIsServed
        <3>. QED
            BY <1>0, <2>0, <2>1, <2>2, <2>4, <3>1, <3>2 DEF RuledInv
    <2>. QED
        BY <2>5, <2>6
<1>. QED
    BY <1>1, <1>2, <1>3, OfferedOrNot

LEMMA InitRuled == Init => RuledInv
<1>. SUFFICES ASSUME Init PROVE RuledInv
    OBVIOUS
<1>1. \A c \in Conn : ruled[c] = -1 /\ req[c].stage = "none"
    BY DEF Init, ListenerInit, NoRequest
<1>2. gen = 0 /\ ruled \in [Conn -> Int] /\ sni = [c \in Conn |-> sni[c]]
    BY DEF Init, ListenerInit
<1>. QED
    BY <1>1, <1>2 DEF RuledInv, AcceptedIsServed

(* decide and the handler read the tables at different times: still, unless *)
(* an edit came between or the Host header names another host, a connection *)
(* accepted because of a rule is not told that nothing is there             *)
(* (main.go:94-103, domains.go:270-293).                                    *)
THEOREM AcceptedAreServed == Spec => []AcceptedIsServed
<1>1. /\ TablesType /\ RelayInv /\ ReqInv /\ RuledInv /\ [Next]_vars
      => RuledInv'
    BY RuledStep, EdgeAssumption
<1>2. RuledInv => AcceptedIsServed
    BY DEF RuledInv
<1>. QED
    BY RelayInvariance, RequestInvariance, InitRuled, <1>1, <1>2, PTL DEF Spec

-----------------------------------------------------------------------------
(* stop of an extra port closes the socket whatever the server has come to, *)
(* also before Serve has registered it (domains.go:296-306).                *)
THEOREM StoppedIsFree == Spec => []StoppedPortIsFree
<1>1. Init => StoppedPortIsFree
    BY DEF Init, StoppedPortIsFree
<1>2. TablesType /\ StoppedPortIsFree /\ [Next]_vars => StoppedPortIsFree'
    <2>. SUFFICES ASSUME TablesType, StoppedPortIsFree, [Next]_vars
                  PROVE  StoppedPortIsFree'
        OBVIOUS
    <2>1. scene' = scene
        BY TablesStep
    <2>2. CASE Server
        BY <2>1, <2>2 DEF Server, ServeBegins, ServeEnds, Stop, CloseListener, LoopEnds,
            Edit, control, listener, StoppedPortIsFree
    <2>3. CASE \E c \in Conn : Connection(c) \/ Serving(c)
        <3>1. UNCHANGED <<control, inner>>
            BY <2>3 DEF Connection, Serving, listener, Clients, Arrive, ResetQueued,
                AcceptRaw, Peeking, PeekHello, PeekFails, Deciding, Splice, Offer, Drop,
                OfferEnds, Splicing, ServerAccept, Hangup, ReadPrefix, ReadLateHello,
                ReadRequest, LookUpSite, LookUpDomain, Acquire, Cancel, Respond
        <3>. QED
            BY <2>1, <3>1 DEF control, StoppedPortIsFree
    <2>4. CASE UNCHANGED vars
        BY <2>4 DEF vars, tables, listener, control, StoppedPortIsFree
    <2>. QED
        BY <2>2, <2>3, <2>4 DEF Next
<1>. QED
    BY RelayInvariance, <1>1, <1>2, PTL DEF Spec

-----------------------------------------------------------------------------
(* The sort of the routes.                                                  *)

(* The order of the sort, on the indexes of the routes of one site.         *)
Precedes(routes, i, j) ==
    \/ Len(routes[i].prefix) > Len(routes[j].prefix)
    \/ Len(routes[i].prefix) = Len(routes[j].prefix) /\ i < j

(* It is a strict total order of the enabled routes.                        *)
LEMMA SortOrder ==
    ASSUME NEW routes \in Seq(Route)
    PROVE  /\ Enabled(routes) \subseteq 1 .. Len(routes)
           /\ IsFiniteSet(Enabled(routes))
           /\ \A i \in Enabled(routes) : i \in Nat /\ Len(routes[i].prefix) \in Nat
           /\ \A i, j \in Enabled(routes) :
                 /\ j \in Preceding(routes, i) <=> Precedes(routes, j, i)
                 /\ i # j => Precedes(routes, i, j) \/ Precedes(routes, j, i)
                 /\ ~ (Precedes(routes, i, j) /\ Precedes(routes, j, i))
                 /\ \A k \in Enabled(routes) :
                       Precedes(routes, i, j) /\ Precedes(routes, j, k)
                           => Precedes(routes, i, k)
<1>1. Enabled(routes) \subseteq 1 .. Len(routes)
    BY DEF Enabled
<1>2. IsFiniteSet(Enabled(routes))
    <2>1. IsFiniteSet(1 .. Len(routes))
        BY FS_Interval
    <2>. QED
        BY <1>1, <2>1, FS_Subset
<1>3. \A i \in Enabled(routes) : i \in Nat /\ Len(routes[i].prefix) \in Nat
    <2>. SUFFICES ASSUME NEW i \in Enabled(routes)
                  PROVE  i \in Nat /\ Len(routes[i].prefix) \in Nat
        OBVIOUS
    <2>1. i \in 1 .. Len(routes) /\ routes[i] \in Route
        BY <1>1
    <2>2. routes[i].prefix \in Seq(Token)
        BY <2>1 DEF Route, Rooted
    <2>. QED
        BY <2>1, <2>2
<1>4. \A i, j \in Enabled(routes) : j \in Preceding(routes, i) <=> Precedes(routes, j, i)
    BY <1>3 DEF Preceding, Precedes, LongerPrefix
<1>. QED
    BY <1>1, <1>2, <1>3, <1>4 DEF Precedes

(* Every place is taken, by one route, and the places follow the order.     *)
Position(routes, i) == Cardinality(Preceding(routes, i)) + 1
LEMMA Places ==
    ASSUME NEW routes \in Seq(Route)
    PROVE  LET E == Enabled(routes)
               N == 1 .. Cardinality(E)
           IN  /\ Cardinality(E) \in Nat
               /\ \A i \in E : Position(routes, i) \in N
               /\ \A n \in N : \E i \in E : Position(routes, i) = n
               /\ \A i, j \in E : Position(routes, i) < Position(routes, j)
                                     <=> Precedes(routes, i, j)
               /\ \A i, j \in E : Position(routes, i) = Position(routes, j) => i = j
<1>. DEFINE E == Enabled(routes)
            N == 1 .. Cardinality(E)
            P(i) == Position(routes, i)
<1>1. IsFiniteSet(E) /\ Cardinality(E) \in Nat /\ E \subseteq Nat
    BY SortOrder, FS_CardinalityType
<1>2. ASSUME NEW i \in E
      PROVE  /\ IsFiniteSet(Preceding(routes, i)) /\ P(i) \in N
    <2>1. Preceding(routes, i) \subseteq E \ {i}
        BY SortOrder DEF Preceding
    <2>2. IsFiniteSet(E \ {i}) /\ Cardinality(E \ {i}) = Cardinality(E) - 1
        BY <1>1, FS_RemoveElement
    <2>3. IsFiniteSet(Preceding(routes, i)) /\ Cardinality(Preceding(routes, i)) <= Cardinality(E) - 1
        BY <2>1, <2>2, FS_Subset
    <2>4. Cardinality(Preceding(routes, i)) \in Nat
        BY <2>3, FS_CardinalityType
    <2>. QED
        BY <1>1, <2>3, <2>4 DEF Position
<1>3. ASSUME NEW i \in E, NEW j \in E, Precedes(routes, i, j)
      PROVE  P(i) < P(j)
    <2>1. Preceding(routes, i) \subseteq Preceding(routes, j)
        BY <1>3, SortOrder DEF Preceding
    <2>2. i \in Preceding(routes, j) /\ i \notin Preceding(routes, i)
        BY <1>3, SortOrder
    <2>3. /\ Cardinality(Preceding(routes, i)) <= Cardinality(Preceding(routes, j))
          /\ Cardinality(Preceding(routes, i)) # Cardinality(Preceding(routes, j))
        BY <1>2, <2>1, <2>2, FS_Subset
    <2>4. Cardinality(Preceding(routes, i)) \in Nat /\ Cardinality(Preceding(routes, j)) \in Nat
        BY <1>2, FS_CardinalityType
    <2>. QED
        BY <2>3, <2>4 DEF Position
<1>4. \A i, j \in E : P(i) = P(j) => i = j
    <2>. SUFFICES ASSUME NEW i \in E, NEW j \in E, P(i) = P(j), i # j PROVE FALSE
        OBVIOUS
    <2>1. Precedes(routes, i, j) \/ Precedes(routes, j, i)
        BY SortOrder
    <2>2. P(i) \in Nat /\ P(j) \in Nat
        BY <1>2
    <2>. HIDE DEF P
    <2>. QED
        BY <1>3, <2>1, <2>2
<1>5. \A i, j \in E : P(i) < P(j) <=> Precedes(routes, i, j)
    <2>. SUFFICES ASSUME NEW i \in E, NEW j \in E, P(i) < P(j), ~ Precedes(routes, i, j)
                  PROVE  FALSE
        BY <1>3
    <2>1. P(i) \in Nat /\ P(j) \in Nat
        BY <1>2
    <2>. HIDE DEF P
    <2>2. i # j
        BY <2>1
    <2>3. Precedes(routes, j, i)
        BY <2>2, SortOrder
    <2>. QED
        BY <1>3, <2>1, <2>3
<1>6. \A n \in N : \E i \in E : P(i) = n
    <2>. DEFINE p == [i \in E |-> P(i)]
    <2>1. p \in Injection(E, N)
        <3>. HIDE DEF P, N
        <3>. QED
            BY <1>2, <1>4 DEF Injection, IsInjective
    <2>2. IsFiniteSet(N) /\ Cardinality(N) = Cardinality(E)
        BY <1>1, FS_Interval
    <2>3. p \in Surjection(E, N)
        <3>. HIDE DEF p, N
        <3>. QED
            BY <2>1, <2>2, FS_Injection
    <2>. HIDE DEF P, N
    <2>. QED
        BY <2>3 DEF Surjection
<1>. QED
    BY <1>1, <1>2, <1>4, <1>5, <1>6

(* The compiled routes are the enabled ones, each at its place.             *)
LEMMA CompiledPlaces ==
    ASSUME NEW routes \in Seq(Route)
    PROVE  LET crs == CompiledRoutes(routes)
               E   == Enabled(routes)
           IN  /\ DOMAIN crs = 1 .. Cardinality(E)
               /\ \A i \in E : crs[Position(routes, i)] = routes[i]
               /\ \A n \in DOMAIN crs : \E i \in E :
                     Position(routes, i) = n /\ crs[n] = routes[i]
<1>. DEFINE crs == CompiledRoutes(routes)
            E == Enabled(routes)
            N == 1 .. Cardinality(E)
            Taken(n) == CHOOSE i \in E : Cardinality(Preceding(routes, i)) = n - 1
<1>1. crs = [n \in N |-> routes[Taken(n)]]
    BY DEF CompiledRoutes
<1>2. \A i \in E : Cardinality(Preceding(routes, i)) \in Nat
    BY SortOrder, FS_Subset, FS_CardinalityType DEF Preceding
<1>3. \A n \in N, i \in E : Cardinality(Preceding(routes, i)) = n - 1 <=> Position(routes, i) = n
    BY <1>2 DEF Position
<1>4. \A n \in N : Taken(n) \in E /\ Position(routes, Taken(n)) = n
    <2>. SUFFICES ASSUME NEW n \in N PROVE Taken(n) \in E /\ Position(routes, Taken(n)) = n
        OBVIOUS
    <2>1. \E i \in E : Cardinality(Preceding(routes, i)) = n - 1
        BY <1>3, Places
    <2>2. Taken(n) \in E /\ Cardinality(Preceding(routes, Taken(n))) = n - 1
        BY <2>1
    <2>. HIDE DEF Taken
    <2>. QED
        BY <1>3, <2>2
<1>5. \A i \in E : Position(routes, i) \in N /\ Taken(Position(routes, i)) = i
    <2>. HIDE DEF Taken
    <2>. QED
        BY <1>4, Places
<1>. HIDE DEF Taken
<1>. QED
    BY <1>1, <1>4, <1>5

(* The first hit among the compiled routes is the most specific match.      *)
LEMMA FirstHitIsMostSpecific ==
    ASSUME NEW k, NEW h, NEW path,
           h \in DOMAIN k.sites => k.sites[h] \in Seq(Route)
    PROVE  MatchSite(Compiled(k), h, path) = MostSpecific(k, h, path)
<1>1. /\ DOMAIN Compiled(k).sites = DOMAIN k.sites
      /\ h \in DOMAIN k.sites => Compiled(k).sites[h] = CompiledRoutes(k.sites[h])
    BY DEF Compiled
<1>2. CASE h \notin DOMAIN k.sites
    <2>1. MatchSite(Compiled(k), h, path) = {}
        BY <1>1, <1>2 DEF MatchSite
    <2>2. MostSpecific(k, h, path) = {}
        BY <1>2 DEF MostSpecific, Enabled
    <2>. QED
        BY <2>1, <2>2
<1>3. CASE h \in DOMAIN k.sites
    <2>. DEFINE routes == k.sites[h]
                crs == CompiledRoutes(routes)
                E == Enabled(routes)
                P(i) == Position(routes, i)
                hits == {n \in DOMAIN crs : Under(crs[n].prefix, path)}
                matching == {i \in E : Under(routes[i].prefix, path)}
                Length(i) == Len(routes[i].prefix)
                first == {n \in hits : \A m \in hits : n <= m}
                best == {j \in matching : \A m \in matching :
                            Length(m) <= Length(j) /\ (Length(m) = Length(j) => j <= m)}
    <2>0. routes \in Seq(Route)
        BY <1>3
    <2>1. MatchSite(Compiled(k), h, path) = {crs[n] : n \in first}
        BY <1>1, <1>3 DEF MatchSite
    <2>2. MostSpecific(k, h, path) = {routes[i] : i \in best}
        BY <1>3 DEF MostSpecific
    <2>3. /\ \A i \in E : P(i) \in DOMAIN crs /\ crs[P(i)] = routes[i]
          /\ \A n \in DOMAIN crs : \E i \in E : P(i) = n /\ crs[n] = routes[i]
          /\ \A n \in DOMAIN crs : n \in Nat
        BY <2>0, CompiledPlaces, Places
    <2>4. \A i, j \in E : P(i) < P(j) <=> Precedes(routes, i, j)
        BY <2>0, Places
    <2>5. \A i \in E : i \in Nat /\ Length(i) \in Nat
        BY <2>0, SortOrder
    <2>6. \A j \in E : j \in best <=> P(j) \in first
        <3>. SUFFICES ASSUME NEW j \in E PROVE j \in best <=> P(j) \in first
            OBVIOUS
        <3>1. \A m \in E : m \in matching <=> P(m) \in hits
            <4>. HIDE DEF P, crs, E, routes
            <4>. QED
                BY <2>3
        <3>2. \A m \in E : P(j) <= P(m)
                    <=> Length(m) <= Length(j) /\ (Length(m) = Length(j) => j <= m)
            <4>. SUFFICES ASSUME NEW m \in E
                          PROVE  P(j) <= P(m)
                                    <=> Length(m) <= Length(j) /\ (Length(m) = Length(j) => j <= m)
                OBVIOUS
            <4>1. P(j) \in Nat /\ P(m) \in Nat
                BY <2>3
            <4>2. P(m) < P(j) <=> Precedes(routes, m, j)
                BY <2>4
            <4>3. P(j) <= P(m) <=> ~ Precedes(routes, m, j)
                <5>. HIDE DEF P
                <5>. QED
                    BY <4>1, <4>2
            <4>4. m \in Nat /\ j \in Nat /\ Length(m) \in Nat /\ Length(j) \in Nat
                BY <2>5
            <4>5. Precedes(routes, m, j)
                     <=> Length(m) > Length(j) \/ (Length(m) = Length(j) /\ m < j)
                BY DEF Precedes
            <4>. HIDE DEF P, Length, routes
            <4>. QED
                BY <4>3, <4>4, <4>5
        <3>3. \A n \in hits : \E m \in matching : P(m) = n
            <4>. HIDE DEF P, crs, E, routes
            <4>. QED
                BY <2>3
        <3>4. matching \subseteq E
            OBVIOUS
        <3>. HIDE DEF P, crs, E, routes, hits, matching, Length
        <3>. QED
            BY <3>1, <3>2, <3>3, <3>4
    <2>. HIDE DEF P, crs, E, routes
    <2>. QED
        BY <2>1, <2>2, <2>3, <2>6
<1>. QED
    BY <1>2, <1>3

(* What a request is matched with is an enabled route of its site.          *)
LEMMA MatchedRoute ==
    ASSUME TablesType, EdgeAssumption, NEW h, NEW path, NEW r \in MatchSite(Table, h, path)
    PROVE  /\ r \in Route /\ Under(r.prefix, path)
           /\ config \in Configs /\ h \in DOMAIN config.sites /\ r \in Range(config.sites[h])
<1>1. config \in Configs /\ Table = Compiled(config)
    BY DEF TablesType, Configs, Table, Tables
<1>2. /\ h \in DOMAIN config.sites
      /\ Table.sites[h] = CompiledRoutes(config.sites[h])
    BY <1>1 DEF MatchSite, Compiled
<1>3. config.sites[h] \in Seq(Route)
    BY <1>1, <1>2 DEF EdgeAssumption
<1>4. PICK n \in DOMAIN Table.sites[h] : r = Table.sites[h][n] /\ Under(r.prefix, path)
    BY <1>1, <1>2 DEF MatchSite, Compiled
<1>5. PICK i \in Enabled(config.sites[h]) : r = config.sites[h][i]
    BY <1>2, <1>3, <1>4, CompiledPlaces
<1>6. i \in DOMAIN config.sites[h] /\ r \in Route
    BY <1>3, <1>5 DEF Enabled
<1>. QED
    BY <1>1, <1>2, <1>4, <1>5, <1>6 DEF Range

(* Whatever the order of the routes in the file, the handler takes the      *)
(* longest enabled prefix a path falls under (MatchSite, config.go:268-282). *)
THEOREM LongestAlwaysWins == Spec => []LongestPrefixWins
<1>1. TablesType => LongestPrefixWins
    <2>. SUFFICES ASSUME TablesType, NEW h \in Host, NEW p \in Path
                  PROVE  MatchSite(Table, h, p) = MostSpecific(config, h, p)
        BY DEF LongestPrefixWins
    <2>1. config \in Configs /\ Table = Compiled(config)
        BY DEF TablesType, Configs, Table, Tables
    <2>2. h \in DOMAIN config.sites => config.sites[h] \in Seq(Route)
        BY <2>1, EdgeAssumption DEF EdgeAssumption
    <2>. QED
        BY <2>1, <2>2, FirstHitIsMostSpecific
<1>. QED
    BY RelayInvariance, <1>1, PTL

-----------------------------------------------------------------------------
(* Types, and the routes of requests.                                       *)

(* A request under way has been given a route it falls under, or a forward  *)
(* of a whole domain, and waits on a limiter of some table.                 *)
Routed(q) ==
    /\ q.stage \in {"none", "site", "domain", "wait", "proxy", "notfound", "redirect", "busy"}
    /\ q.limiter \in Limiter \cup {NoLimit}
    /\ q.stage = "wait" => q.limiter # NoLimit
    /\ q.path \in Seq(Token)
    /\ \A r \in q.rule : "prefix" \in DOMAIN r => r \in Route /\ Under(r.prefix, q.path)

(* A compiled forward is told from a route: it has no prefix.               *)
LEMMA ProxiedForward ==
    ASSUME TablesType, NEW c, NEW f \in Proxied(c)
    PROVE  "prefix" \notin DOMAIN f
<1>1. config \in Configs
    BY DEF TablesType, Configs
<1>2. f \in Table.domains
    BY DEF Proxied, MatchDomain
<1>3. Table.domains = {CompiledForward(g) : g \in {d \in config.domains : d.enabled}}
    BY <1>1 DEF Table, Tables, Compiled
<1>4. PICK g : f = CompiledForward(g)
    BY <1>2, <1>3
<1>. QED
    BY <1>4 DEF CompiledForward

(* A limited route that is found has its limiter.                           *)
LEMMA LimiterOfRoute ==
    ASSUME TablesType, EdgeAssumption, gen <= MaxEdits,
           NEW h, NEW path, NEW r \in MatchSite(Table, h, path), r.max > 0
    PROVE  <<gen, <<h, r>>>> \in Limiter
<1>1. config \in Configs /\ h \in DOMAIN config.sites /\ r \in Range(config.sites[h])
    BY MatchedRoute
<1>2. <<h, r>> \in LimitedBy(config)
    BY <1>1 DEF LimitedBy
<1>3. gen \in 0 .. MaxEdits
    BY DEF TablesType, EdgeAssumption
<1>. QED
    BY <1>1, <1>2, <1>3 DEF Limiter, Limited

(* Nothing is left of a request once it is answered.                        *)
LEMMA AnswerRouted ==
    ASSUME ReqInv, NEW c \in Conn,
           NEW kind \in {"none", "notfound", "redirect", "busy"}, Answer(c, kind)
    PROVE  Routed(req'[c]) /\ \A d \in Conn : d # c => req'[d] = req[d]
<1>1. req'[c] = [NoRequest EXCEPT !.stage = kind, !.host = req[c].host]
    BY RequestStep DEF Answer
<1>2. req'[c] = [stage |-> kind, host |-> req[c].host, path |-> <<>>, rule |-> {},
                 limiter |-> NoLimit]
    BY <1>1 DEF NoRequest
<1>. QED
    BY <1>2, RequestStep, EmptySeq DEF Answer, Routed

(* Each step of a request leaves it routed, and leaves the others alone.    *)
LEMMA ServingRouted ==
    ASSUME TablesType, EdgeAssumption, gen <= MaxEdits, ReqInv,
           NEW c \in Conn, Serving(c), Routed(req[c])
    PROVE  \/ UNCHANGED req
           \/ Routed(req'[c]) /\ \A d \in Conn : d # c => req'[d] = req[d]
<1>. DEFINE q == req[c]
<1>0. q = [stage |-> q.stage, host |-> q.host, path |-> q.path, rule |-> q.rule,
           limiter |-> q.limiter]
    BY DEF ReqInv, Recorded
<1>1. CASE ServerAccept(c) \/ Hangup(c) \/ ReadPrefix(c) \/ ReadLateHello(c)
    BY <1>1 DEF ServerAccept, Hangup, ReadPrefix, ReadLateHello, service
<1>2. ASSUME NEW host \in scene.hosts, NEW path \in scene.paths, ReadRequest(c, host, path)
      PROVE  Routed(req'[c]) /\ \A d \in Conn : d # c => req'[d] = req[d]
    <2>1. path \in Seq(Token)
        BY DEF TablesType, EdgeAssumption
    <2>2. PICK n : /\ \E t \in {"site", "domain"} :
                          n = [NoRequest EXCEPT !.stage = t, !.host = host, !.path = path]
                   /\ Request(c, n)
        BY <1>2 DEF ReadRequest
    <2>3. Routed(n)
        BY <2>1, <2>2 DEF Routed, NoRequest
    <2>. QED
        BY <2>2, <2>3, RequestStep
<1>3. CASE LookUpSite(c)
    <2>1. ASSUME NEW n, n = [q EXCEPT !.stage = "domain"], Request(c, n)
          PROVE  Routed(req'[c]) /\ \A d \in Conn : d # c => req'[d] = req[d]
        <3>1. Routed(n)
            BY <1>0, <2>1 DEF Routed
        <3>. QED
            BY <2>1, <3>1, RequestStep
    <2>2. ASSUME NEW r \in MatchSite(Table, q.host, q.path), NEW n,
                 n = [q EXCEPT !.rule = {r},
                         !.stage = IF Waits(r) THEN "wait" ELSE "proxy",
                         !.limiter = IF r.max > 0 THEN <<gen, <<q.host, r>>>> ELSE NoLimit],
                 Request(c, n)
          PROVE  Routed(req'[c]) /\ \A d \in Conn : d # c => req'[d] = req[d]
        <3>1. r \in Route /\ Under(r.prefix, q.path)
            BY MatchedRoute
        <3>2. r.max > 0 => /\ <<gen, <<q.host, r>>>> \in Limiter
                           /\ <<gen, <<q.host, r>>>> # NoLimit
            BY LimiterOfRoute DEF NoLimit
        <3>3. n = [stage |-> IF r.max > 0 THEN "wait" ELSE "proxy", host |-> q.host,
                   path |-> q.path, rule |-> {r},
                   limiter |-> IF r.max > 0 THEN <<gen, <<q.host, r>>>> ELSE NoLimit]
            BY <1>0, <2>2 DEF Waits
        <3>4. /\ n.stage \in {"wait", "proxy"} /\ (n.stage = "wait" => r.max > 0)
              /\ n.limiter = IF r.max > 0 THEN <<gen, <<q.host, r>>>> ELSE NoLimit
              /\ n.path = q.path /\ n.rule = {r}
            BY <3>3
        <3>5. Routed(n)
            BY <3>1, <3>2, <3>4 DEF Routed
        <3>. QED
            BY <2>2, <3>5, RequestStep
    <2>. QED
        BY <1>3, <2>1, <2>2 DEF LookUpSite
<1>4. CASE LookUpDomain(c)
    <2>1. ASSUME NEW n, n = [q EXCEPT !.stage = "proxy", !.rule = Proxied(c)], Request(c, n)
          PROVE  Routed(req'[c]) /\ \A d \in Conn : d # c => req'[d] = req[d]
        <3>1. Routed(n)
            BY <1>0, <2>1, ProxiedForward DEF Routed
        <3>. QED
            BY <2>1, <3>1, RequestStep
    <2>2. CASE Answer(c, "notfound") \/ Answer(c, "redirect")
        BY <2>2, AnswerRouted
    <2>. QED
        BY <1>4, <2>1, <2>2 DEF LookUpDomain
<1>5. CASE Acquire(c)
    <2>1. PICK n : n = [q EXCEPT !.stage = "proxy"] /\ Request(c, n)
        BY <1>5 DEF Acquire
    <2>2. Routed(n)
        BY <1>0, <2>1 DEF Routed
    <2>. QED
        BY <2>1, <2>2, RequestStep
<1>6. CASE Cancel(c) \/ Respond(c)
    BY <1>6, AnswerRouted DEF Cancel, Respond
<1>. QED
    BY <1>1, <1>2, <1>3, <1>4, <1>5, <1>6 DEF Serving

(* The rest of the types.                                                   *)
Peeked ==
    /\ gen \in 0 .. MaxEdits
    /\ sni \in [Conn -> Host \cup {NoName}]
    /\ ruled \in [Conn -> -1 .. MaxEdits]
Controlled ==
    /\ inner \in {"open", "closed"} /\ done \in BOOLEAN /\ loop \in {"run", "ended"}
    /\ server \in {"starting", "run", "ended"} /\ shut \in BOOLEAN
    /\ ctl \in {"up", "closing", "stopped"}

TypeInv == Peeked /\ Controlled /\ \A c \in Conn : Routed(req[c])

LEMMA TypeStep ==
    ASSUME TablesType, EdgeAssumption, ReqInv, TypeInv, [Next]_vars
    PROVE  TypeInv'
<1>1. Peeked'
    <2>1. CASE \E k \in scene.configs : Edit(k)
        BY <2>1 DEF Edit, peeks, TypeInv, Peeked, EdgeAssumption
    <2>2. CASE UNCHANGED <<tables, peeks>>
        BY <2>2 DEF tables, peeks, TypeInv, Peeked
    <2>3. ASSUME NEW c \in Conn, UNCHANGED <<tables, req>>,
                 \/ Offer(c) \/ PeekFails(c)
                 \/ \E name \in scene.names : Arrive(c, name)
          PROVE  Peeked'
        <3>1. gen' = gen /\ -1 \in -1 .. MaxEdits /\ gen \in -1 .. MaxEdits
            BY <2>3 DEF tables, TypeInv, Peeked, EdgeAssumption
        <3>2. CASE Offer(c)
            BY <3>1, <3>2 DEF Offer, TypeInv, Peeked
        <3>3. CASE PeekFails(c)
            BY <3>1, <3>3 DEF PeekFails, TypeInv, Peeked
        <3>4. CASE \E name \in scene.names : Arrive(c, name)
            <4>1. scene.names \subseteq Host \cup {NoName}
                BY DEF TablesType, EdgeAssumption
            <4>. QED
                BY <3>1, <3>4, <4>1 DEF Arrive, TypeInv, Peeked
        <3>. QED
            BY <2>3, <3>2, <3>3, <3>4
    <2>. QED
        BY <2>1, <2>2, <2>3, OfferedOrNot
<1>2. Controlled'
    <2>. USE DEF TypeInv, Controlled, listener, control
    <2>1. CASE Server
        BY <2>1 DEF Server, ServeBegins, ServeEnds, Stop, CloseListener, LoopEnds, Edit
    <2>2. ASSUME NEW c \in Conn, Connection(c) \/ Serving(c)
          PROVE  UNCHANGED <<listener, control>>
        BY <2>2 DEF Connection, Serving, Clients, Arrive, ResetQueued,
            AcceptRaw, Peeking, PeekHello, PeekFails, Deciding, Splice, Offer, Drop,
            OfferEnds, Splicing, ServerAccept, Hangup, ReadPrefix, ReadLateHello,
            ReadRequest, LookUpSite, LookUpDomain, Acquire, Cancel, Respond
    <2>3. CASE UNCHANGED vars
        BY <2>3 DEF vars
    <2>. QED
        BY <2>1, <2>2, <2>3 DEF Next
<1>3. \A c \in Conn : Routed(req'[c])
    <2>1. CASE UNCHANGED req
        BY <2>1 DEF TypeInv
    <2>2. CASE Server \/ UNCHANGED vars \/ \E c \in Conn : Connection(c)
        BY <2>1, <2>2 DEF Server, ServeBegins, ServeEnds, Stop, CloseListener, Edit,
            vars, service, Connection
    <2>3. ASSUME NEW c \in Conn, Serving(c)
          PROVE  \A d \in Conn : Routed(req'[d])
        <3>1. gen <= MaxEdits /\ Routed(req[c])
            BY DEF TypeInv, Peeked, EdgeAssumption
        <3>. QED
            BY <2>1, <2>3, <3>1, ServingRouted DEF TypeInv
    <2>. QED
        BY <2>2, <2>3 DEF Next
<1>. QED
    BY <1>1, <1>2, <1>3 DEF TypeInv, Routed

LEMMA InitTypes == Init /\ EdgeAssumption => TypeInv
<1>. SUFFICES ASSUME Init, EdgeAssumption PROVE TypeInv
    OBVIOUS
<1>1. scene \in Scenes /\ scene.names \subseteq Host \cup {NoName}
    BY DEF Init, ListenerInit, EdgeAssumption
<1>2. Peeked
    BY <1>1 DEF Init, ListenerInit, Peeked, EdgeAssumption
<1>3. Controlled
    BY DEF Init, ListenerInit, Controlled
<1>4. Routed(NoRequest)
    BY EmptySeq DEF Routed, NoRequest
<1>. QED
    BY <1>2, <1>3, <1>4 DEF TypeInv, Init

(* Whatever the handlers, the peeks, the edits and the stop do, their state *)
(* keeps its types, and a request under way its route (main.go, proxy.go,   *)
(* domains.go).                                                             *)
THEOREM TypeInvariance == Spec => []TypeInv
<1>1. TablesType /\ ReqInv /\ TypeInv /\ [Next]_vars => TypeInv'
    BY TypeStep, EdgeAssumption
<1>2. Init => TypeInv
    BY InitTypes, EdgeAssumption
<1>. QED
    BY RelayInvariance, RequestInvariance, <1>1, <1>2, PTL DEF Spec

(* The listener's and the handlers' state has its types: a request waits    *)
(* only on a limiter of some compilation of the tables, and has a           *)
(* connection the server was given (config.go:399-424, proxy.go,            *)
(* domains.go:270-293).                                                     *)
THEOREM TypeCorrect == Spec => []TypeOK
<1>1. TablesType /\ RelayInv /\ ReqInv /\ SlotsInv /\ TypeInv => TypeOK
    <2>. SUFFICES ASSUME TablesType, RelayInv, ReqInv, SlotsInv, TypeInv PROVE TypeOK
        OBVIOUS
    <2>1. slots \in [Limiter -> Nat]
        <3>1. \A l \in Limiter : Cardinality(Holders(l)) \in Nat
            BY FS_Subset, FS_CardinalityType, EdgeAssumption DEF Holders, EdgeAssumption
        <3>. QED
            BY <3>1 DEF SlotsInv
    <2>2. \A c \in Conn : Active(c) => Stage(c) \in {"served", "dropped"}
        BY DEF ReqInv, Active, Handled
    <2>. QED
        BY <2>1, <2>2 DEF TypeOK, TablesType, RelayInv, TypeInv, Peeked, Controlled, Routed
<1>. QED
    BY RelayInvariance, RequestInvariance, TypeInvariance, <1>1, PTL

-----------------------------------------------------------------------------
(* The path a backend is asked for.                                         *)

(* Induction, for a set instead of a predicate.                             *)
LEMMA SetInduction ==
    ASSUME NEW S, 0 \in S, \A n \in Nat : n \in S => n + 1 \in S
    PROVE  Nat \subseteq S
<1>. DEFINE T == Nat \ S
<1>. SUFFICES ASSUME T # {} PROVE FALSE
    OBVIOUS
<1>1. \E x \in T : \A y \in T : ~ (<<y, x>> \in OpToRel(<, Nat))
    <2>. HIDE DEF T
    <2>1. T \subseteq Nat
        BY DEF T
    <2>. QED
        BY <2>1, NatLessThanWellFounded, WFMin
<1>2. PICK x \in T : \A y \in T : ~ (y < x)
    BY <1>1 DEF OpToRel
<1>3. x # 0 /\ x - 1 \in Nat /\ x - 1 \in T
    BY SMT
<1>. QED
    BY <1>2, <1>3

(* What Segments collects of the first n tokens of p.                       *)
Step(p, s, n) == IF p[n] = Slash THEN s ELSE Append(s, p[n])
Collects(p, f, n) ==
    f = [i \in 0 .. n |-> IF i = 0 THEN <<>> ELSE Step(p, f[i - 1], i)]

(* There is such a function, so the one Segments chooses is one.            *)
LEMMA CollectsExists ==
    ASSUME NEW p, NEW n \in Nat
    PROVE  \E f : Collects(p, f, n)
<1>. DEFINE S == {m \in Nat : \E f : Collects(p, f, m)}
<1>1. 0 \in S
    <2>1. Collects(p, [i \in 0 .. 0 |-> <<>>], 0)
        BY DEF Collects
    <2>. QED
        BY <2>1
<1>2. ASSUME NEW m \in Nat, m \in S PROVE m + 1 \in S
    <2>1. PICK f : Collects(p, f, m)
        BY <1>2
    <2>. DEFINE g == [i \in 0 .. m + 1 |-> IF i <= m THEN f[i] ELSE Step(p, f[m], m + 1)]
    <2>2. ASSUME NEW i \in 0 .. m + 1
          PROVE  g[i] = IF i = 0 THEN <<>> ELSE Step(p, g[i - 1], i)
        <3>1. CASE i = 0
            BY <2>1, <3>1 DEF Collects
        <3>2. CASE i \in 1 .. m
            BY <2>1, <3>2 DEF Collects
        <3>3. CASE i = m + 1
            BY <3>3
        <3>. QED
            BY <3>1, <3>2, <3>3
    <2>3. Collects(p, g, m + 1)
        <3>1. g = [i \in 0 .. m + 1 |-> g[i]]
            OBVIOUS
        <3>. HIDE DEF g
        <3>. QED
            BY <2>2, <3>1 DEF Collects
    <2>. QED
        BY <2>3
<1>. QED
    <2>. HIDE DEF S
    <2>1. Nat \subseteq S
        BY <1>1, <1>2, SetInduction
    <2>. QED
        BY <2>1 DEF S

LEMMA AppendToConcat ==
    \A x, y \in Seq(Token), e \in Token : Append(x \o y, e) = x \o Append(y, e)
<1>. SUFFICES ASSUME NEW x \in Seq(Token), NEW y \in Seq(Token), NEW e \in Token
              PROVE  Append(x \o y, e) = x \o Append(y, e)
    OBVIOUS
<1>. DEFINE u == <<e>>
<1>1. u \in Seq(Token) /\ x \o y \in Seq(Token)
    BY ConcatProperties
<1>2. Append(y, e) = y \o u /\ Append(x \o y, e) = (x \o y) \o u
    BY <1>1, AppendIsConcat
<1>3. \A s, t, v \in Seq(Token) : (s \o t) \o v = s \o (t \o v)
    BY ConcatAssociative
<1>. HIDE DEF u
<1>. QED
    BY <1>1, <1>2, <1>3

LEMMA SegmentsCollect ==
    ASSUME NEW p \in Seq(Token)
    PROVE  \E f : Collects(p, f, Len(p)) /\ Segments(p) = f[Len(p)]
<1>. DEFINE upTo[n \in 0 .. Len(p)] ==
                IF n = 0 THEN <<>>
                ELSE IF p[n] = Slash THEN upTo[n - 1] ELSE Append(upTo[n - 1], p[n])
<1>1. upTo = CHOOSE f : f = [n \in 0 .. Len(p) |->
                IF n = 0 THEN <<>>
                ELSE IF p[n] = Slash THEN f[n - 1] ELSE Append(f[n - 1], p[n])]
    OBVIOUS
<1>2. PICK f : Collects(p, f, Len(p))
    <2>1. Len(p) \in Nat
        OBVIOUS
    <2>. QED
        BY <2>1, CollectsExists
<1>3. f = [n \in 0 .. Len(p) |->
                IF n = 0 THEN <<>>
                ELSE IF p[n] = Slash THEN f[n - 1] ELSE Append(f[n - 1], p[n])]
    BY <1>2 DEF Collects, Step
<1>4. Segments(p) = upTo[Len(p)]
    BY DEF Segments
<1>. HIDE DEF upTo
<1>5. upTo = [n \in 0 .. Len(p) |->
                IF n = 0 THEN <<>>
                ELSE IF p[n] = Slash THEN upTo[n - 1] ELSE Append(upTo[n - 1], p[n])]
    BY <1>1, <1>3
<1>. QED
    BY <1>4, <1>5 DEF Collects, Step

(* It is built token by token.                                              *)
LEMMA CollectsSteps ==
    ASSUME NEW p \in Seq(Token), NEW f, Collects(p, f, Len(p))
    PROVE  /\ f[0] = <<>>
           /\ \A i \in 1 .. Len(p) : f[i] = Step(p, f[i - 1], i)
           /\ \A i \in 0 .. Len(p) : f[i] \in Seq(Token)
<1>1. /\ f[0] = <<>>
      /\ \A i \in 1 .. Len(p) : f[i] = Step(p, f[i - 1], i)
    BY DEF Collects
<1>. DEFINE S == {i \in Nat : i <= Len(p) => f[i] \in Seq(Token)}
<1>2. 0 \in S
    BY <1>1, EmptySeq
<1>3. ASSUME NEW i \in Nat, i \in S PROVE i + 1 \in S
    <2>. SUFFICES ASSUME i + 1 <= Len(p) PROVE f[i + 1] \in Seq(Token)
        OBVIOUS
    <2>1. f[i] \in Seq(Token) /\ p[i + 1] \in Token
        BY <1>3
    <2>2. f[i + 1] = Step(p, f[i], i + 1)
        BY <1>1
    <2>. QED
        BY <2>1, <2>2 DEF Step
<1>4. Nat \subseteq S
    <2>. HIDE DEF S
    <2>. QED
        BY <1>2, <1>3, SetInduction
<1>. QED
    BY <1>1, <1>4

(* The segments of two paths put together are those of the one and of the   *)
(* other.                                                                   *)
LEMMA SegmentsConcat ==
    ASSUME NEW a \in Seq(Token), NEW b \in Seq(Token)
    PROVE  /\ Segments(a) \in Seq(Token)
           /\ Segments(a \o b) = Segments(a) \o Segments(b)
<1>. DEFINE c == a \o b
<1>0. /\ c \in Seq(Token) /\ Len(c) = Len(a) + Len(b)
      /\ Len(a) \in Nat /\ Len(b) \in Nat
      /\ \A i \in 1 .. Len(a) : c[i] = a[i]
      /\ \A i \in 1 .. Len(b) : c[Len(a) + i] = b[i]
    OBVIOUS
<1>1. PICK f : Collects(a, f, Len(a)) /\ Segments(a) = f[Len(a)]
    BY SegmentsCollect
<1>2. PICK g : Collects(b, g, Len(b)) /\ Segments(b) = g[Len(b)]
    BY SegmentsCollect
<1>3. PICK h : Collects(c, h, Len(c)) /\ Segments(c) = h[Len(c)]
    BY <1>0, SegmentsCollect
<1>. HIDE DEF c
<1>4. /\ f[0] = <<>> /\ \A i \in 0 .. Len(a) : f[i] \in Seq(Token)
      /\ \A i \in 1 .. Len(a) : f[i] = Step(a, f[i - 1], i)
    BY <1>1, CollectsSteps
<1>5. /\ g[0] = <<>> /\ \A i \in 0 .. Len(b) : g[i] \in Seq(Token)
      /\ \A i \in 1 .. Len(b) : g[i] = Step(b, g[i - 1], i)
    BY <1>2, CollectsSteps
<1>6. /\ h[0] = <<>> /\ \A i \in 1 .. Len(c) : h[i] = Step(c, h[i - 1], i)
    BY <1>0, <1>3, CollectsSteps
<1>7. h[Len(a)] = f[Len(a)]
    <2>. DEFINE S == {i \in Nat : i <= Len(a) => h[i] = f[i]}
    <2>1. 0 \in S
        BY <1>4, <1>6
    <2>2. ASSUME NEW i \in Nat, i \in S PROVE i + 1 \in S
        <3>. SUFFICES ASSUME i + 1 <= Len(a) PROVE h[i + 1] = f[i + 1]
            OBVIOUS
        <3>1. h[i] = f[i] /\ c[i + 1] = a[i + 1] /\ i + 1 \in 1 .. Len(a) /\ i + 1 \in 1 .. Len(c)
            BY <1>0, <2>2
        <3>2. h[i + 1] = Step(c, h[i], i + 1) /\ f[i + 1] = Step(a, f[i], i + 1)
            BY <1>4, <1>6, <3>1
        <3>. QED
            BY <3>1, <3>2 DEF Step
    <2>3. Nat \subseteq S
        <3>. HIDE DEF S
        <3>. QED
            BY <2>1, <2>2, SetInduction
    <2>. QED
        BY <1>0, <2>3
<1>8. h[Len(a) + Len(b)] = f[Len(a)] \o g[Len(b)]
    <2>. DEFINE s == f[Len(a)]
                S == {i \in Nat : i <= Len(b) => h[Len(a) + i] = s \o g[i]}
    <2>0. s \in Seq(Token)
        BY <1>0, <1>4
    <2>1. 0 \in S
        <3>1. s \o <<>> = s
            BY <2>0, ConcatEmptySeq
        <3>2. h[Len(a) + 0] = s \o g[0]
            BY <1>0, <1>7, <1>5, <3>1
        <3>. QED
            BY <3>2
    <2>2. ASSUME NEW i \in Nat, i \in S PROVE i + 1 \in S
        <3>. SUFFICES ASSUME i + 1 <= Len(b)
                      PROVE  h[Len(a) + (i + 1)] = s \o g[i + 1]
            <4>. HIDE DEF s
            <4>. QED
                OBVIOUS
        <3>0. h[Len(a) + i] = s \o g[i]
            <4>. HIDE DEF s
            <4>. QED
                BY <1>0, <2>2
        <3>1. /\ h[Len(a) + i] = s \o g[i] /\ c[Len(a) + (i + 1)] = b[i + 1]
              /\ i + 1 \in 1 .. Len(b) /\ Len(a) + (i + 1) \in 1 .. Len(c)
              /\ (Len(a) + (i + 1)) - 1 = Len(a) + i
            <4>. HIDE DEF s
            <4>. QED
                BY <1>0, <3>0
        <3>2. h[Len(a) + (i + 1)] = Step(c, h[Len(a) + i], Len(a) + (i + 1))
            BY <1>6, <3>1
        <3>3. g[i + 1] = Step(b, g[i], i + 1)
            BY <1>5, <3>1
        <3>4. g[i] \in Seq(Token) /\ b[i + 1] \in Token
            BY <1>0, <1>5, <3>1
        <3>5. Append(s \o g[i], b[i + 1]) = s \o Append(g[i], b[i + 1])
            <4>. DEFINE t == g[i]
                        e == b[i + 1]
            <4>1. t \in Seq(Token) /\ e \in Token
                BY <3>4
            <4>. HIDE DEF s, t, e
            <4>2. Append(s \o t, e) = s \o Append(t, e)
                BY <2>0, <4>1, AppendToConcat
            <4>. QED
                BY <4>2 DEF t, e
        <3>. HIDE DEF s
        <3>. QED
            BY <3>1, <3>2, <3>3, <3>5 DEF Step
    <2>3. Nat \subseteq S
        <3>. HIDE DEF S
        <3>. QED
            BY <2>1, <2>2, SetInduction
    <2>. HIDE DEF s
    <2>4. h[Len(a) + Len(b)] = s \o g[Len(b)]
        BY <1>0, <2>3
    <2>. QED
        BY <2>4 DEF s
<1>. QED
    BY <1>0, <1>1, <1>2, <1>3, <1>7, <1>8, <1>4 DEF c

(* A slash has no segments.                                                 *)
LEMMA SlashHasNoSegments == Segments(<<Slash>>) = <<>> /\ Segments(<<>>) = <<>>
<1>1. <<Slash>> \in Seq(Token) /\ <<>> \in Seq(Token)
    BY DEF Token
<1>2. Segments(<<>>) = <<>>
    BY <1>1, SegmentsCollect, CollectsSteps
<1>3. PICK f : Collects(<<Slash>>, f, 1) /\ Segments(<<Slash>>) = f[1]
    BY <1>1, SegmentsCollect
<1>4. f[0] = <<>> /\ f[1] = Step(<<Slash>>, f[0], 1)
    <2>1. Len(<<Slash>>) = 1 /\ 1 \in 1 .. 1 /\ 1 - 1 = 0
        OBVIOUS
    <2>2. Collects(<<Slash>>, f, Len(<<Slash>>))
        BY <1>3, <2>1
    <2>3. /\ f[0] = <<>>
          /\ \A i \in 1 .. Len(<<Slash>>) : f[i] = Step(<<Slash>>, f[i - 1], i)
        BY <1>1, <2>2, CollectsSteps
    <2>. QED
        BY <2>1, <2>3
<1>. QED
    BY <1>2, <1>3, <1>4 DEF Step

(* An enabled route's path under its prefix, in two parts.                  *)
LEMMA PathParts ==
    ASSUME NEW prefix \in Rooted, NEW path \in Seq(Token), Under(prefix, path)
    PROVE  /\ path \in Rooted
           /\ TrimPrefix(path, prefix) \in Rooted \cup {<<>>}
           /\ path = prefix \o TrimPrefix(path, prefix)
<1>. DEFINE rest == SubSeq(path, Len(prefix) + 1, Len(path))
            n == Len(prefix)
<1>0. /\ prefix \in Seq(Token) /\ n \in Nat /\ n >= 1 /\ prefix[1] = Slash
      /\ Len(path) \in Nat
    BY DEF Rooted, BeginsWithSlash
<1>1. /\ n <= Len(path) /\ \A i \in 1 .. n : path[i] = prefix[i]
      /\ n < Len(path) => path[n + 1] = Slash
    <2>1. CASE path = prefix
        BY <1>0, <2>1
    <2>2. CASE IsPrefix(prefix \o <<Slash>>, path)
        <3>. DEFINE q == prefix \o <<Slash>>
        <3>1. /\ q \in Seq(Token) /\ Len(q) = n + 1 /\ q[n + 1] = Slash
              /\ \A i \in 1 .. n : q[i] = prefix[i]
            BY <1>0 DEF Token
        <3>2. Len(q) <= Len(path) /\ SubSeq(q, 1, Len(q)) = SubSeq(path, 1, Len(q))
            BY <2>2 DEF IsPrefix
        <3>. HIDE DEF q
        <3>3. \A i \in 1 .. n + 1 : q[i] = path[i]
            <4>1. \A i \in 1 .. n + 1 : /\ SubSeq(q, 1, n + 1)[i] = q[i]
                                        /\ SubSeq(path, 1, n + 1)[i] = path[i]
                BY <1>0, <3>1, <3>2
            <4>. QED
                BY <3>1, <3>2, <4>1
        <3>. QED
            BY <1>0, <3>1, <3>2, <3>3
    <2>. QED
        BY <2>1, <2>2 DEF Under
<1>2. IsPrefix(prefix, path)
    <2>1. SubSeq(prefix, 1, n) \in Seq(Token) /\ SubSeq(path, 1, n) \in Seq(Token)
        BY <1>0, <1>1
    <2>2. Len(SubSeq(prefix, 1, n)) = n /\ Len(SubSeq(path, 1, n)) = n
        BY <1>0, <1>1
    <2>3. \A i \in 1 .. n : SubSeq(prefix, 1, n)[i] = SubSeq(path, 1, n)[i]
        BY <1>0, <1>1
    <2>4. SubSeq(prefix, 1, n) = SubSeq(path, 1, n)
        BY <2>1, <2>2, <2>3, SeqEqual
    <2>. QED
        BY <1>1, <2>4 DEF IsPrefix
<1>3. TrimPrefix(path, prefix) = rest
    BY <1>2 DEF TrimPrefix
<1>4. /\ rest \in Seq(Token) /\ Len(rest) = Len(path) - n
      /\ \A i \in 1 .. Len(path) - n : rest[i] = path[n + i]
    BY <1>0, <1>1
<1>5. path = prefix \o rest
    <2>. HIDE DEF rest
    <2>1. prefix \o rest \in Seq(Token) /\ Len(prefix \o rest) = Len(path)
        BY <1>0, <1>1, <1>4
    <2>2. \A i \in 1 .. Len(path) : path[i] = (prefix \o rest)[i]
        BY <1>0, <1>1, <1>4
    <2>. QED
        BY <2>1, <2>2, SeqEqual
<1>. HIDE DEF rest
<1>6. rest # <<>> => rest[1] = Slash
    BY <1>0, <1>1, <1>4
<1>7. path # <<>> /\ path[1] = Slash
    BY <1>0, <1>1
<1>. QED
    BY <1>3, <1>4, <1>5, <1>6, <1>7 DEF Rooted, BeginsWithSlash

LEMMA SuffixOfConcat ==
    ASSUME NEW a \in Seq(Token), NEW b \in Seq(Token)
    PROVE  SubSeq(a \o b, Len(a) + 1, Len(a \o b)) = b
<1>. DEFINE c == a \o b
            n == Len(a)
<1>1. /\ n \in Nat /\ Len(b) \in Nat /\ c \in Seq(Token) /\ Len(c) = n + Len(b)
      /\ \A i \in 1 .. Len(b) : c[n + i] = b[i]
    OBVIOUS
<1>. HIDE DEF c, n
<1>2. /\ SubSeq(c, n + 1, Len(c)) \in Seq(Token)
      /\ Len(SubSeq(c, n + 1, Len(c))) = Len(b)
      /\ \A i \in 1 .. Len(b) : SubSeq(c, n + 1, Len(c))[i] = b[i]
    BY <1>1
<1>3. SubSeq(c, n + 1, Len(c)) = b
    BY <1>2, SeqEqual
<1>. QED
    BY <1>3 DEF c, n

(* Joining a base and a rest neither loses nor adds a segment or a slash.   *)
LEMMA Joined ==
    ASSUME NEW base \in Rooted \cup {<<>>}, NEW rest \in Rooted
    PROVE  LET out == SingleJoiningSlash(base, rest)
           IN  /\ BeginsWithSlash(out)
               /\ Segments(out) = Segments(base) \o Segments(rest)
               /\ DoubleSlash(out) => DoubleSlash(base) \/ DoubleSlash(rest)
<1>. DEFINE n == Len(base)
            m == Len(rest)
<1>0. /\ base \in Seq(Token) /\ n \in Nat /\ (n > 0 => base[1] = Slash)
      /\ rest \in Seq(Token) /\ m \in Nat /\ m >= 1 /\ rest[1] = Slash
      /\ BeginsWithSlash(rest)
    <2>1. \A p \in Rooted : p \in Seq(Token) /\ Len(p) >= 1 /\ p[1] = Slash
        BY DEF Rooted, BeginsWithSlash
    <2>2. base \in Seq(Token) /\ (n > 0 => base[1] = Slash)
        <3>1. CASE base = <<>>
            BY <3>1, EmptySeq
        <3>2. CASE base \in Rooted
            BY <2>1, <3>2
        <3>. QED
            BY <3>1, <3>2
    <2>. QED
        BY <2>1, <2>2 DEF Rooted
<1>1. CASE EndsInSlash(base)
    <2>. DEFINE t == Tail(rest)
                out == base \o t
    <2>1. SingleJoiningSlash(base, rest) = out
        BY <1>0, <1>1 DEF SingleJoiningSlash
    <2>2. /\ n >= 1 /\ base[n] = Slash
          /\ t \in Seq(Token) /\ Len(t) = m - 1 /\ \A i \in 1 .. m - 1 : t[i] = rest[i + 1]
        BY <1>0, <1>1 DEF EndsInSlash, Last
    <2>3. rest = <<Slash>> \o t
        <3>. HIDE DEF t
        <3>1. /\ <<Slash>> \o t \in Seq(Token) /\ Len(<<Slash>> \o t) = m
              /\ \A i \in 1 .. m : (<<Slash>> \o t)[i] = rest[i]
            BY <1>0, <2>2 DEF Token
        <3>. QED
            BY <1>0, <3>1, SeqEqual
    <2>. HIDE DEF t
    <2>4. /\ Len(out) = n + (m - 1)
          /\ \A i \in 1 .. n : out[i] = base[i]
          /\ \A i \in n + 1 .. n + (m - 1) : out[i] = rest[i - n + 1]
        <3>1. base \in Seq(Token) /\ t \in Seq(Token)
            BY <1>0, <2>2
        <3>2. /\ Len(out) = n + Len(t)
              /\ \A i \in 1 .. n : out[i] = base[i]
              /\ \A i \in 1 .. Len(t) : out[n + i] = t[i]
            BY <3>1
        <3>. HIDE DEF out
        <3>3. \A i \in n + 1 .. n + (m - 1) : out[i] = rest[i - n + 1]
            <4>. SUFFICES ASSUME NEW i \in n + 1 .. n + (m - 1)
                          PROVE  out[i] = rest[i - n + 1]
                OBVIOUS
            <4>1. i - n \in 1 .. m - 1 /\ n + (i - n) = i
                BY <1>0
            <4>2. out[n + (i - n)] = t[i - n] /\ t[i - n] = rest[(i - n) + 1]
                BY <2>2, <3>2, <4>1
            <4>. QED
                BY <4>1, <4>2
        <3>. QED
            BY <2>2, <3>2, <3>3
    <2>5. BeginsWithSlash(out)
        BY <1>0, <2>2, <2>4 DEF BeginsWithSlash
    <2>6. Segments(rest) = Segments(t)
        <3>1. <<Slash>> \in Seq(Token)
            BY DEF Token
        <3>2. Segments(<<Slash>> \o t) = Segments(<<Slash>>) \o Segments(t)
            BY <2>2, <3>1, SegmentsConcat
        <3>3. Segments(t) \in Seq(Token)
            BY <2>2, SegmentsConcat
        <3>4. <<>> \o Segments(t) = Segments(t)
            BY <3>3, ConcatEmptySeq
        <3>. QED
            BY <2>3, <3>2, <3>4, SlashHasNoSegments
    <2>7. Segments(out) = Segments(base) \o Segments(rest)
        BY <1>0, <2>2, <2>6, SegmentsConcat
    <2>8. ASSUME DoubleSlash(out) PROVE DoubleSlash(base) \/ DoubleSlash(rest)
        <3>. HIDE DEF out
        <3>1. PICK i \in 1 .. Len(out) - 1 : out[i] = Slash /\ out[i + 1] = Slash
            BY <2>8 DEF DoubleSlash
        <3>2. CASE i < n
            <4>1. base[i] = Slash /\ base[i + 1] = Slash /\ i \in 1 .. n - 1
                BY <1>0, <2>4, <3>1, <3>2
            <4>. QED
                BY <4>1 DEF DoubleSlash
        <3>3. CASE i >= n
            <4>1. i - n + 1 \in 1 .. m - 1
                BY <1>0, <2>4, <3>1, <3>3
            <4>2. rest[i - n + 1] = Slash
                <5>1. CASE i = n
                    BY <1>0, <5>1
                <5>2. CASE i > n
                    <6>1. i \in n + 1 .. n + (m - 1)
                        BY <1>0, <2>4, <3>1, <5>2
                    <6>. QED
                        BY <2>4, <3>1, <6>1
                <5>. QED
                    BY <1>0, <3>1, <3>3, <5>1, <5>2
            <4>3. rest[(i - n + 1) + 1] = Slash
                <5>1. i + 1 \in n + 1 .. n + (m - 1) /\ (i + 1) - n + 1 = (i - n + 1) + 1
                    BY <1>0, <2>4, <3>1, <3>3
                <5>. QED
                    BY <2>4, <3>1, <5>1
            <4>. QED
                BY <4>1, <4>2, <4>3 DEF DoubleSlash
        <3>. QED
            BY <1>0, <3>1, <3>2, <3>3
    <2>. QED
        BY <2>1, <2>5, <2>7, <2>8
<1>2. CASE ~ EndsInSlash(base)
    <2>. DEFINE out == base \o rest
    <2>1. SingleJoiningSlash(base, rest) = out
        BY <1>0, <1>2 DEF SingleJoiningSlash
    <2>2. /\ Len(out) = n + m
          /\ \A i \in 1 .. n : out[i] = base[i]
          /\ \A i \in n + 1 .. n + m : out[i] = rest[i - n]
          /\ n >= 1 => base[n] # Slash
        BY <1>0, <1>2 DEF EndsInSlash, Last
    <2>3. BeginsWithSlash(out)
        BY <1>0, <2>2 DEF BeginsWithSlash
    <2>4. Segments(out) = Segments(base) \o Segments(rest)
        BY <1>0, SegmentsConcat
    <2>5. ASSUME DoubleSlash(out) PROVE DoubleSlash(base) \/ DoubleSlash(rest)
        <3>. HIDE DEF out
        <3>1. PICK i \in 1 .. Len(out) - 1 : out[i] = Slash /\ out[i + 1] = Slash
            BY <2>5 DEF DoubleSlash
        <3>2. CASE i < n
            <4>1. base[i] = Slash /\ base[i + 1] = Slash /\ i \in 1 .. n - 1
                BY <1>0, <2>2, <3>1, <3>2
            <4>. QED
                BY <4>1 DEF DoubleSlash
        <3>3. i # n
            BY <1>0, <2>2, <3>1
        <3>4. CASE i > n
            <4>1. i - n \in 1 .. m - 1 /\ rest[i - n] = Slash
                BY <1>0, <2>2, <3>1, <3>4
            <4>2. rest[(i - n) + 1] = Slash
                <5>1. i + 1 \in n + 1 .. n + m /\ (i + 1) - n = (i - n) + 1
                    BY <1>0, <2>2, <3>1, <3>4
                <5>. QED
                    BY <2>2, <3>1, <5>1
            <4>. QED
                BY <4>1, <4>2 DEF DoubleSlash
        <3>. QED
            BY <1>0, <3>1, <3>2, <3>3, <3>4
    <2>. QED
        BY <2>1, <2>3, <2>4, <2>5
<1>. QED
    BY <1>1, <1>2

(* What a backend is asked for is well joined, whatever the request.        *)
LEMMA AlwaysWellJoined ==
    ASSUME NEW r \in Route, NEW path \in Seq(Token), Under(r.prefix, path)
    PROVE  WellJoined(r, path)
<1>. DEFINE rest == TrimPrefix(path, r.prefix)
            in == Segments(path)
<1>0. /\ r.prefix \in Rooted /\ r.base \in Rooted \cup {<<>>} /\ r.stripPrefix \in BOOLEAN
      /\ \A p \in Rooted \cup {<<>>} : p \in Seq(Token)
    BY EmptySeq DEF Route, Rooted
<1>1. path \in Rooted /\ rest \in Rooted \cup {<<>>} /\ path = r.prefix \o rest
    BY <1>0, PathParts
<1>2. /\ in \in Seq(Token) /\ Segments(rest) \in Seq(Token) /\ Segments(r.prefix) \in Seq(Token)
      /\ in = Segments(r.prefix) \o Segments(rest)
    BY <1>0, <1>1, SegmentsConcat
<1>. HIDE DEF rest
<1>3. CASE ~ r.stripPrefix
    <2>1. BackendPath(r, path) = SingleJoiningSlash(r.base, path)
        BY <1>3 DEF BackendPath
    <2>2. SubSeq(in, 0 + 1, Len(in)) = in
        <3>. HIDE DEF in
        <3>. QED
            BY <1>2, SubSeqFull
    <2>. HIDE DEF in
    <2>3. LET out == SingleJoiningSlash(r.base, path)
          IN  /\ BeginsWithSlash(out)
              /\ Segments(out) = Segments(r.base) \o Segments(path)
              /\ DoubleSlash(out) => DoubleSlash(r.base) \/ DoubleSlash(path)
        BY <1>0, <1>1, Joined
    <2>. QED
        BY <1>3, <2>1, <2>2, <2>3 DEF WellJoined, in
<1>4. CASE r.stripPrefix
    <2>. DEFINE asked == IF rest = <<>> THEN <<Slash>> ELSE rest
    <2>1. BackendPath(r, path) = SingleJoiningSlash(r.base, asked)
        BY <1>4 DEF BackendPath, rest
    <2>2. asked \in Rooted /\ Segments(asked) = Segments(rest)
        <3>1. <<Slash>> \in Rooted
            BY DEF Rooted, Token, BeginsWithSlash
        <3>. QED
            BY <1>1, <3>1, SlashHasNoSegments
    <2>3. SubSeq(in, Len(Segments(r.prefix)) + 1, Len(in)) = Segments(rest)
        BY <1>2, SuffixOfConcat
    <2>4. DoubleSlash(asked) => DoubleSlash(path)
        <3>. SUFFICES ASSUME DoubleSlash(asked) PROVE DoubleSlash(path)
            OBVIOUS
        <3>. DEFINE n == Len(r.prefix)
        <3>0. /\ rest \in Seq(Token) /\ r.prefix \in Seq(Token) /\ n \in Nat
              /\ Len(rest) \in Nat
            BY <1>0, <1>1
        <3>1. PICK i \in 1 .. Len(asked) - 1 : asked[i] = Slash /\ asked[i + 1] = Slash
            BY DEF DoubleSlash
        <3>2. rest # <<>>
            BY <3>1
        <3>3. /\ Len(path) = n + Len(rest)
              /\ \A j \in 1 .. Len(rest) : path[n + j] = rest[j]
            BY <1>1, <3>0
        <3>. HIDE DEF n
        <3>4. /\ i \in 1 .. Len(rest) - 1 /\ n + i \in 1 .. Len(path) - 1
              /\ i + 1 \in 1 .. Len(rest) /\ (n + i) + 1 = n + (i + 1)
            BY <3>0, <3>1, <3>2, <3>3
        <3>5. path[n + i] = Slash /\ path[(n + i) + 1] = Slash
            BY <3>1, <3>2, <3>3, <3>4
        <3>. QED
            BY <3>4, <3>5 DEF DoubleSlash
    <2>. HIDE DEF asked, in
    <2>5. LET out == SingleJoiningSlash(r.base, asked)
          IN  /\ BeginsWithSlash(out)
              /\ Segments(out) = Segments(r.base) \o Segments(asked)
              /\ DoubleSlash(out) => DoubleSlash(r.base) \/ DoubleSlash(asked)
        BY <1>0, <2>2, Joined
    <2>. QED
        BY <1>4, <2>1, <2>2, <2>3, <2>4, <2>5 DEF WellJoined, in
<1>. QED
    BY <1>0, <1>3, <1>4

(* Whatever the prefix, the base and the path, the backend is asked for its *)
(* base and the rest of the path, no segment lost and no slash doubled      *)
(* (buildProxy and singleJoiningSlash, proxy.go).                           *)
THEOREM BackendPathsWellJoined == Spec => []PathsWellJoined
<1>1. TypeInv => PathsWellJoined
    BY AlwaysWellJoined DEF TypeInv, Routed, PathsWellJoined
<1>. QED
    BY TypeInvariance, <1>1, PTL
=============================================================================
