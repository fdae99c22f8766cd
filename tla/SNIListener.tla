------------------------------ MODULE SNIListener ------------------------------
(***************************************************************************)
(* Routing of TLS connections by their SNI (sniListener, domains.go).  A   *)
(* loop accepts; a goroutine per connection reads the ClientHello, asks    *)
(* decide - which looks at the tables as they are at that moment - and     *)
(* splices the connection (module Relay), drops it, or offers it to the    *)
(* HTTP server behind the listener on the channel ready.  The server is in *)
(* module Edge.                                                            *)
(***************************************************************************)
EXTENDS Relay, Routing

CONSTANTS
    Scenes,     \* what is looked at: which listener, connections, names, configurations
    Host, NoName,
    MaxEdits    \* bound: edits of the configuration in a behaviour

Place == {"main", "extra", "http"}

VARIABLES
    scene,
    config,     \* the configuration the tables are compiled from
    gen,        \* how often they have been compiled
    inner,      \* the listening socket
    done,       \* whether the channel done is closed
    loop,       \* sniListener.loop
    sni,        \* the name in a client's hello, or what peeking came to
    ruled       \* gen when a rule of its name had the connection accepted (history)

tables   == <<scene, config, gen>>
listener == <<inner, done, loop>>
peeks    == <<sni, ruled>>

Configs == UNION {s.configs : s \in Scenes}
Tables  == [k \in Configs |-> Compiled(k)]
Table   == Tables[config]
Port  == CASE scene.place = "main" -> MainPort
           [] scene.place = "http" -> HTTPPort
           [] OTHER -> scene.port

(* A connection whose hello has been peeked, accepted and replayed.         *)
Served ==
    [NoRelay EXCEPT !.stage = "served", !.hello = 1, !.sent["client"] = 1,
                    !.taken["client"] = 1, !.got["target"] = <<1>>]

(* The connections in scene.open have come before.                          *)
ListenerInit ==
    /\ scene \in Scenes
    /\ config \in scene.configs
    /\ gen = 0
    /\ inner = "open" /\ done = FALSE
    /\ loop = IF scene.place = "http" THEN "ended" ELSE "run"
    /\ \E name \in scene.names :
          sni = [c \in Conn |-> IF c \in scene.open THEN name ELSE NoName]
    /\ ruled = [c \in Conn |-> -1]
    /\ relay = [c \in Conn |-> IF c \in scene.open THEN Served ELSE NoRelay]

To(c, stage) == Set(c, [relay[c] EXCEPT !.stage = stage])

-----------------------------------------------------------------------------
Arrive(c, name) ==
    /\ inner = "open"
    /\ c \in scene.conns
    /\ Stage(c) = "none"
    /\ To(c, "queued")
    /\ sni' = [sni EXCEPT ![c] = name]
    /\ UNCHANGED <<tables, listener, ruled>>

(* The kernel resets what nobody has accepted from a closed socket.         *)
ResetQueued(c) ==
    /\ inner = "closed"
    /\ Stage(c) = "queued"
    /\ To(c, "dropped")
    /\ UNCHANGED <<tables, listener, peeks>>

AcceptRaw(c) ==
    /\ loop = "run" /\ inner = "open"
    /\ Stage(c) = "queued"
    /\ To(c, "peek")
    /\ UNCHANGED <<tables, listener, peeks>>

(* On a closed socket, or on any other error, the loop is over; with main's *)
(* own listener the latter ends the process (module Lifecycle).             *)
LoopEnds ==
    /\ loop = "run"
    /\ inner = "closed" \/ scene.place = "extra"
    /\ loop' = "ended" /\ done' = TRUE
    /\ UNCHANGED <<tables, inner, peeks, relay>>

PeekHello(c) ==
    /\ Stage(c) = "peek"
    /\ sni[c] # NoName /\ Pending(c, "client")
    /\ Set(c, [relay[c] EXCEPT !.stage = "decide", !.taken["client"] = 1, !.hello = 1])
    /\ UNCHANGED <<tables, listener, peeks>>

(* No ClientHello: ten seconds without one, the end of the data, an error,  *)
(* or something that is not TLS, which stays recorded.                      *)
PeekFails(c) ==
    /\ Stage(c) = "peek"
    /\ sni[c] = NoName \/ ~ Pending(c, "client")
    /\ LET n == IF Pending(c, "client") THEN 1 ELSE 0
       IN  Set(c, [relay[c] EXCEPT !.stage = "decide", !.taken["client"] = n, !.hello = n])
    /\ sni' = [sni EXCEPT ![c] = NoName]
    /\ UNCHANGED <<tables, listener, ruled>>

Rule(c) == MatchDomain(Table, sni[c], Port)

(* The two decide functions: main accepts what it has no passthrough for,   *)
(* an extra port drops what it has no rule for.                             *)
Splices(c) == {f \in Rule(c) : ~ f.manageCert}
Accepts(c) == Splices(c) = {} /\ (scene.place = "main" \/ Rule(c) # {})

Splice(c) ==
    /\ Stage(c) = "decide"
    /\ \E f \in Splices(c) :
          Set(c, [relay[c] EXCEPT !.stage = "dial", !.header = f.proxyProto])
    /\ UNCHANGED <<tables, listener, peeks>>

(* Mutant: an extra port accepts the names it passes through, too. *)
Offer_all(c) ==
    /\ Stage(c) = "decide"
    /\ scene.place = "main" \/ Rule(c) # {}
    /\ To(c, "offer")
    /\ ruled' = [ruled EXCEPT ![c] = IF Rule(c) # {} THEN gen ELSE -1]
    /\ UNCHANGED <<tables, listener, sni>>

Offer(c) ==
    /\ Stage(c) = "decide"
    /\ Accepts(c)
    /\ To(c, "offer")
    /\ ruled' = [ruled EXCEPT ![c] = IF Rule(c) # {} THEN gen ELSE -1]
    /\ UNCHANGED <<tables, listener, sni>>

Drop(c) ==
    /\ Stage(c) = "decide"
    /\ Splices(c) = {} /\ ~ Accepts(c)
    /\ To(c, "dropped")
    /\ UNCHANGED <<tables, listener, peeks>>

(* Mutant: an offered connection waits for the server only. *)
OfferEnds_never(c) == FALSE /\ UNCHANGED <<tables, listener, peeks, relay>>

OfferEnds(c) ==
    /\ Stage(c) = "offer" /\ done
    /\ To(c, "dropped")
    /\ UNCHANGED <<tables, listener, peeks>>

Peeking(c)  == PeekHello(c) \/ PeekFails(c)
Deciding(c) == Splice(c) \/ Offer(c) \/ Drop(c)
=============================================================================
