---------------------------------- MODULE Edge ----------------------------------
(***************************************************************************)
(* A public HTTP(S) listener from the accept queue to the backend: the SNI *)
(* listener, the net/http server behind it, and the handlers that look a   *)
(* request up in the tables and proxy it (main.go, domains.go, proxy.go),  *)
(* while the admin edits the configuration and the listener is stopped.    *)
(* The listener is main's own of port 443, one of the domain router's      *)
(* ("extra"), or the plaintext one of port 80, which has no SNI.           *)
(***************************************************************************)
EXTENDS SNIListener

CONSTANTS
    Segment,    \* what stands between two slashes of a path
    Path        \* request paths

Token == Segment \cup {Slash}

(* A compiled prefix is "/" and the route's; the path of a target is empty  *)
(* or begins with a slash, as validate demands a host before it.            *)
Rooted == {p \in Seq(Token) : BeginsWithSlash(p)}
Route  == [prefix : Rooted, base : Rooted \cup {<<>>}, stripPrefix : BOOLEAN,
           max : Int, enabled : BOOLEAN]

ASSUME EdgeAssumption ==
    /\ IsFiniteSet(Conn) /\ MaxEdits \in Nat
    /\ Slash \notin Segment /\ Path \subseteq Seq(Token)
    /\ \A s \in Scenes : s.names \subseteq Host \cup {NoName} /\ s.paths \subseteq Path
    /\ \A k \in Configs :
          /\ \A h \in DOMAIN k.sites : k.sites[h] \in Seq(Route)
          /\ \A f \in k.domains : f.proxyProto \in BOOLEAN

VARIABLES
    server,     \* http.Server.Serve: not begun, in its loop, returned
    shut,       \* Close or Shutdown of the server has been called
    ctl,        \* where the stop of the listener is
    req,        \* the request a connection has under way, or its last answer
    slots       \* what each limiter holds

control == <<server, shut, ctl>>
service == <<req, slots>>
vars    == <<tables, listener, peeks, relay, control, service>>

(* A limiter belongs to one compilation of the tables.                      *)
LimitedBy(k) ==
    UNION {{<<h, r>> : r \in {q \in Range(k.sites[h]) : q.max > 0}} : h \in DOMAIN k.sites}
Limited == UNION {LimitedBy(k) : k \in Configs}
Limiter == (0 .. MaxEdits) \X Limited
NoLimit == <<>>

NoRequest == [stage |-> "none", host |-> NoName, path |-> <<>>, rule |-> {},
              limiter |-> NoLimit]
Active(c) == req[c].stage \in {"site", "domain", "wait", "proxy"}

TypeOK ==
    /\ scene \in Scenes /\ config \in scene.configs
    /\ gen \in 0 .. MaxEdits
    /\ inner \in {"open", "closed"} /\ done \in BOOLEAN /\ loop \in {"run", "ended"}
    /\ sni \in [Conn -> Host \cup {NoName}]
    /\ ruled \in [Conn -> -1 .. MaxEdits]
    /\ relay \in [Conn -> RelayType]
    /\ server \in {"starting", "run", "ended"} /\ shut \in BOOLEAN
    /\ ctl \in {"up", "closing", "stopped"}
    /\ \A c \in Conn :
          /\ req[c].stage \in {"none", "site", "domain", "wait", "proxy",
                               "notfound", "redirect", "busy"}
          /\ req[c].limiter \in Limiter \cup {NoLimit}
          /\ req[c].stage = "wait" => req[c].limiter # NoLimit
          /\ Active(c) => Stage(c) \in {"served", "dropped"}
    /\ slots \in [Limiter -> Nat]

Init ==
    /\ ListenerInit
    /\ server = IF scene.open = {} THEN "starting" ELSE "run"
    /\ shut = FALSE /\ ctl = "up"
    /\ req = [c \in Conn |-> NoRequest]
    /\ slots = [l \in Limiter |-> 0]

-----------------------------------------------------------------------------
(* The admin: new tables, with new limiters.                                *)

Edit(k) ==
    /\ gen < MaxEdits
    /\ k \in scene.configs
    /\ config' = k /\ gen' = gen + 1
    /\ UNCHANGED <<scene, listener, peeks, relay, control, service>>

-----------------------------------------------------------------------------
(* The server (net/http).  Serve closes its listener when it returns.       *)

ServeBegins ==
    /\ server = "starting"
    /\ IF shut THEN server' = "ended" /\ inner' = "closed" /\ done' = TRUE
               ELSE server' = "run" /\ UNCHANGED <<inner, done>>
    /\ UNCHANGED <<tables, loop, peeks, relay, shut, ctl, service>>

(* Accept: from ready, or from the socket where there is no SNI listener.   *)
(* It may still take an offer when done is closed.                          *)
ServerAccept(c) ==
    /\ server = "run"
    /\ \/ Stage(c) = "offer"
       \/ scene.place = "http" /\ inner = "open" /\ Stage(c) = "queued"
    /\ To(c, "served")
    /\ UNCHANGED <<tables, listener, peeks, control, service>>

ServeEnds ==
    /\ server = "run"
    /\ IF scene.place = "http" THEN inner = "closed" ELSE done
    /\ server' = "ended" /\ inner' = "closed" /\ done' = TRUE
    /\ UNCHANGED <<tables, loop, peeks, relay, shut, ctl, service>>

Idle(c) == Stage(c) = "served" /\ ~ Active(c)

(* portServer.stop begins with srv.Close, which closes the listener Serve   *)
(* has registered, if it has, and every connection; main calls Shutdown,    *)
(* which leaves requests under way alone.                                   *)
Stop ==
    /\ ctl = "up"
    /\ shut' = TRUE
    /\ IF server = "run" THEN inner' = "closed" /\ done' = TRUE
                         ELSE UNCHANGED <<inner, done>>
    /\ relay' = [c \in Conn |->
                    IF Idle(c) \/ (scene.place = "extra" /\ Stage(c) = "served")
                    THEN [relay[c] EXCEPT !.stage = "dropped"] ELSE relay[c]]
    /\ ctl' = IF scene.place = "extra" THEN "closing" ELSE "stopped"
    /\ UNCHANGED <<tables, loop, peeks, server, service>>

(* Mutant: stop leaves the listener to the server. *)
CloseListener_not ==
    /\ ctl = "closing"
    /\ ctl' = "stopped"
    /\ UNCHANGED <<tables, listener, peeks, relay, server, shut, service>>

(* ... and ends with Close of the SNI listener.                             *)
CloseListener ==
    /\ ctl = "closing"
    /\ done' = TRUE /\ inner' = "closed"
    /\ ctl' = "stopped"
    /\ UNCHANGED <<tables, loop, peeks, relay, server, shut, service>>

-----------------------------------------------------------------------------
(* Requests.                                                                *)

Request(c, r) == req' = [req EXCEPT ![c] = r]
Answer(c, kind) == Request(c, [NoRequest EXCEPT !.stage = kind, !.host = req[c].host])

Replayed(c) == Len(relay[c].got["target"]) >= relay[c].hello

(* prefixConn: what was peeked is read first, the handshake completes.      *)
ReadPrefix(c) ==
    /\ Stage(c) = "served"
    /\ ~ Replayed(c)
    /\ Set(c, [relay[c] EXCEPT !.got["target"] = Append(@, Len(@) + 1)])
    /\ UNCHANGED <<tables, listener, peeks, control, service>>

ReadPiece(c) ==
    /\ Idle(c) /\ Replayed(c)
    /\ Pending(c, "client") /\ Writable(c, "client")
    /\ Set(c, [relay[c] EXCEPT !.taken["client"] = @ + 1,
                               !.got["target"] = Append(@, relay[c].taken["client"] + 1)])

(* The first piece of a TLS connection that was not peeked is its hello.    *)
ReadLateHello(c) ==
    /\ scene.place # "http" /\ relay[c].taken["client"] = 0
    /\ ReadPiece(c)
    /\ UNCHANGED <<tables, listener, peeks, control, service>>

ReadRequest(c, host, path) ==
    /\ scene.place = "http" \/ relay[c].taken["client"] > 0
    /\ ReadPiece(c)
    /\ Request(c, [NoRequest EXCEPT
                      !.stage = IF scene.place = "main" THEN "site" ELSE "domain",
                      !.host = host, !.path = path])
    /\ UNCHANGED <<tables, listener, peeks, control, slots>>

(* compiledRoute.serve: there is a limiter if the route has a limit.        *)
Waits(r) == r.max > 0

(* Main's handler looks for a route, then - the tables may be new ones by   *)
(* then - for a forward of the whole domain.                                *)
LookUpSite(c) ==
    /\ req[c].stage = "site"
    /\ LET found == MatchSite(Table, req[c].host, req[c].path)
       IN  \/ /\ found = {}
              /\ Request(c, [req[c] EXCEPT !.stage = "domain"])
           \/ \E r \in found :
                 Request(c, [req[c] EXCEPT
                    !.rule = {r},
                    !.stage = IF Waits(r) THEN "wait" ELSE "proxy",
                    !.limiter = IF r.max > 0 THEN <<gen, <<req[c].host, r>>>> ELSE NoLimit])
    /\ UNCHANGED <<tables, listener, peeks, relay, control, slots>>

Proxied(c) == {f \in MatchDomain(Table, req[c].host, Port) :
                  IF scene.place = "http" THEN f.proxy ELSE f.manageCert}

LookUpDomain(c) ==
    /\ req[c].stage = "domain"
    /\ IF Proxied(c) # {}
       THEN Request(c, [req[c] EXCEPT !.stage = "proxy", !.rule = Proxied(c)])
       ELSE Answer(c, IF scene.place = "http" THEN "redirect" ELSE "notfound")
    /\ UNCHANGED <<tables, listener, peeks, relay, control, slots>>

Capacity(l) == l[2][2].max

Acquire(c) ==
    /\ req[c].stage = "wait"
    /\ slots[req[c].limiter] < Capacity(req[c].limiter)
    /\ slots' = [slots EXCEPT ![req[c].limiter] = @ + 1]
    /\ Request(c, [req[c] EXCEPT !.stage = "proxy"])
    /\ UNCHANGED <<tables, listener, peeks, relay, control>>

Gone(c) == relay[c].end["client"] # "open" \/ Stage(c) = "dropped"

(* The client has left: the request gives up its place in the queue.        *)
Cancel(c) ==
    /\ req[c].stage = "wait"
    /\ Gone(c)
    /\ Answer(c, "busy")
    /\ UNCHANGED <<tables, listener, peeks, relay, control, slots>>

(* Mutant: the slot is given back to the limiter of the current table. *)
Respond_newest(c) ==
    /\ req[c].stage = "proxy"
    /\ slots' = IF req[c].limiter = NoLimit THEN slots
                ELSE [slots EXCEPT ![<<gen, req[c].limiter[2]>>] = IF @ > 0 THEN @ - 1 ELSE 0]
    /\ Answer(c, "none")
    /\ UNCHANGED <<tables, listener, peeks, relay, control>>

(* Mutant: the slot is not given back when the connection has been lost. *)
Respond_leak(c) ==
    /\ req[c].stage = "proxy"
    /\ slots' = IF req[c].limiter = NoLimit \/ Gone(c) THEN slots
                ELSE [slots EXCEPT ![req[c].limiter] = @ - 1]
    /\ Answer(c, "none")
    /\ UNCHANGED <<tables, listener, peeks, relay, control>>

(* The backend has answered, failed or been given up; the slot goes back to *)
(* the limiter it was taken from, in a deferred call.                       *)
Respond(c) ==
    /\ req[c].stage = "proxy"
    /\ slots' = IF req[c].limiter = NoLimit THEN slots
                ELSE [slots EXCEPT ![req[c].limiter] = @ - 1]
    /\ Answer(c, "none")
    /\ UNCHANGED <<tables, listener, peeks, relay, control>>

(* The client is gone, a header is late, or the server is shutting down.    *)
Hangup(c) ==
    /\ Idle(c)
    /\ To(c, "dropped")
    /\ UNCHANGED <<tables, listener, peeks, control, service>>

-----------------------------------------------------------------------------
Clients(c) ==
    \/ \E name \in scene.names : Arrive(c, name)
    \/ ResetQueued(c)
    \/ Ends(c) /\ UNCHANGED <<tables, listener, peeks>>

Splicing(c) == Relaying(c) /\ UNCHANGED <<tables, listener, peeks>>

Connection(c) ==
    /\ Clients(c) \/ AcceptRaw(c) \/ Peeking(c) \/ Deciding(c) \/ OfferEnds(c)
       \/ Splicing(c)
    /\ UNCHANGED <<control, service>>

Serving(c) ==
    \/ ServerAccept(c) \/ Hangup(c) \/ ReadPrefix(c) \/ ReadLateHello(c)
    \/ \E host \in scene.hosts, path \in scene.paths : ReadRequest(c, host, path)
    \/ LookUpSite(c) \/ LookUpDomain(c)
    \/ Acquire(c) \/ Cancel(c) \/ Respond(c)

Server ==
    \/ ServeBegins \/ ServeEnds \/ Stop \/ CloseListener
    \/ LoopEnds /\ UNCHANGED <<control, service>>
    \/ \E k \in scene.configs : Edit(k)

Next == Server \/ \E c \in Conn : Connection(c) \/ Serving(c)

Spec == Init /\ [][Next]_vars

Internal(A) == A /\ UNCHANGED <<control, service>>

(* Goroutines that can run do run; the ten-second deadline ends every peek; *)
(* backends answer, or their requests are given up.  Senders on a channel   *)
(* queue first in, first out: whoever waits for a slot gets one in the end. *)
Fairness ==
    /\ WF_vars(ServeBegins) /\ WF_vars(ServeEnds) /\ WF_vars(CloseListener)
    /\ WF_vars(inner = "closed" /\ Internal(LoopEnds))
    /\ \A c \in Conn :
          /\ WF_vars(Internal(AcceptRaw(c) \/ ResetQueued(c)))
          /\ WF_vars(Internal(Peeking(c) \/ Deciding(c) \/ OfferEnds(c)))
          /\ WF_vars(ServerAccept(c))
          /\ WF_vars(LookUpSite(c) \/ LookUpDomain(c))
          /\ WF_vars(Respond(c)) /\ SF_vars(Acquire(c))

FairSpec == Spec /\ Fairness

-----------------------------------------------------------------------------
(* Properties.                                                              *)

(* No limiter holds more requests than it has room for, and a slot is held  *)
(* by a request that is at its backend and by nothing else: none is lost    *)
(* when a client leaves, a connection is closed or the tables are replaced. *)
LimitHolds ==
    \A l \in Limiter :
        /\ slots[l] <= Capacity(l)
        /\ slots[l] = Cardinality({c \in Conn : req[c].stage = "proxy" /\ req[c].limiter = l})

(* A request that waits for a slot gets one or gives up, also when an edit  *)
(* has replaced the limiter it waits on.                                    *)
WaitersLeave == \A c \in Conn : req[c].stage = "wait" ~> req[c].stage # "wait"

(* "a path-prefix route under this host (more specific) wins": whatever the *)
(* order of the routes in the file, the first compiled one that matches is  *)
(* the longest enabled one, and of equally long ones the first.             *)
LongestPrefixWins ==
    \A h \in Host, p \in Path :
        MatchSite(Table, h, p) = MostSpecific(config, h, p)

(* The backend is asked for its own base path and the path of the request,  *)
(* with the prefix cut off if the route says so.                            *)
PathsWellJoined ==
    \A c \in Conn : \A r \in req[c].rule :
        "prefix" \in DOMAIN r => WellJoined(r, req[c].path)

(* decide and the handler agree: a connection accepted because of a rule of *)
(* its name is not told that there is nothing there, unless the tables have *)
(* been replaced in the meantime or it asks for another host.               *)
AcceptedIsServed ==
    \A c \in Conn :
        req[c].stage = "notfound" /\ req[c].host = sni[c] => ruled[c] # gen

(* When stop of an extra port returns its port is free, even if Serve had   *)
(* not begun: Apply may bind it again at once.                              *)
StoppedPortIsFree ==
    ctl = "stopped" /\ scene.place = "extra" => inner = "closed"

(* No accepted connection is forgotten between the accept queue and the     *)
(* server, through stops, ended loops and clients that say nothing.         *)
Undecided(c) == Stage(c) \in {"queued", "peek", "decide", "offer"}
ConnectionsDecided == \A c \in Conn : Undecided(c) ~> ~ Undecided(c)
=============================================================================
