-------------------------------- MODULE Routing --------------------------------
(***************************************************************************)
(* What decides where a connection and a request go: the tables that       *)
(* recompileLocked builds from the configuration (config.go), the lookups  *)
(* in them, and the path a route's reverse proxy asks its backend for      *)
(* (proxy.go).  Hosts are names already in lower case.  A path, a prefix   *)
(* and the path of a target are sequences of slashes and of segments,      *)
(* taken whole; prefixes of the admin's forms are one segment, a file      *)
(* written by hand may hold longer ones.                                   *)
(***************************************************************************)
EXTENDS Naturals, SequencesExt, TLC

CONSTANTS MainPort, HTTPPort    \* the ports main serves; plaintext on the latter

Slash == "/"

-----------------------------------------------------------------------------
(* recompileLocked.                                                         *)

Enabled(routes) == {i \in DOMAIN routes : routes[i].enabled}

(* Mutant: the shortest prefix first. *)
LongerPrefix_up(r, s) == Len(r.prefix) < Len(s.prefix)

LongerPrefix(r, s) == Len(r.prefix) > Len(s.prefix)

(* The sort is stable: routes of one length stay in the order of the file.  *)
Preceding(routes, i) ==
    {j \in Enabled(routes) :
        \/ LongerPrefix(routes[j], routes[i])
        \/ ~ LongerPrefix(routes[i], routes[j]) /\ j < i}

CompiledRoutes(routes) ==
    [n \in 1 .. Cardinality(Enabled(routes)) |->
        routes[CHOOSE i \in Enabled(routes) : Cardinality(Preceding(routes, i)) = n - 1]]

(* A forward of port 80 and one that terminates TLS have a reverse proxy.   *)
CompiledForward(f) ==
    [host |-> f.host, port |-> f.port, manageCert |-> f.manageCert,
     proxyProto |-> f.proxyProto, proxy |-> f.port = HTTPPort \/ f.manageCert]

Compiled(config) ==
    [sites   |-> [h \in DOMAIN config.sites |-> CompiledRoutes(config.sites[h])],
     domains |-> {CompiledForward(f) : f \in {g \in config.domains : g.enabled}}]

-----------------------------------------------------------------------------
(* Lookups.  Each gives the set of its one result, or none.                 *)

Under(prefix, path) == path = prefix \/ IsPrefix(prefix \o <<Slash>>, path)

MatchSite(table, host, path) ==
    LET routes == IF host \in DOMAIN table.sites THEN table.sites[host] ELSE <<>>
        hits   == {i \in DOMAIN routes : Under(routes[i].prefix, path)}
    IN  {routes[i] : i \in {j \in hits : \A k \in hits : j <= k}}

MatchDomain(table, host, port) ==
    {f \in table.domains : f.host = host /\ f.port = port}

-----------------------------------------------------------------------------
(* The path sent to the backend (Director).                                 *)

EndsInSlash(a) == a # <<>> /\ Last(a) = Slash
BeginsWithSlash(b) == b # <<>> /\ Head(b) = Slash

(* Mutant: the two parts are put together as they are. *)
SingleJoiningSlash_plain(a, b) == a \o b

SingleJoiningSlash(a, b) ==
    CASE EndsInSlash(a) /\ BeginsWithSlash(b) -> a \o Tail(b)
      [] ~ EndsInSlash(a) /\ ~ BeginsWithSlash(b) ->
            IF a = <<>> THEN b ELSE a \o <<Slash>> \o b
      [] OTHER -> a \o b

TrimPrefix(path, prefix) ==
    IF IsPrefix(prefix, path) THEN SubSeq(path, Len(prefix) + 1, Len(path)) ELSE path

BackendPath(r, path) ==
    LET rest == IF r.stripPrefix THEN TrimPrefix(path, r.prefix) ELSE path
    IN  SingleJoiningSlash(r.base, IF r.stripPrefix /\ rest = <<>> THEN <<Slash>> ELSE rest)

-----------------------------------------------------------------------------
(* What these should come to.                                               *)

(* Of the enabled routes that match, the longest is taken; a file written   *)
(* by hand may name one prefix twice, and then the first of them counts.    *)
MostSpecific(config, host, path) ==
    LET routes   == IF host \in DOMAIN config.sites THEN config.sites[host] ELSE <<>>
        matching == {i \in Enabled(routes) : Under(routes[i].prefix, path)}
        Length(i) == Len(routes[i].prefix)
    IN  {routes[i] : i \in {j \in matching :
            \A k \in matching : Length(k) <= Length(j) /\ (Length(k) = Length(j) => j <= k)}}

(* A path without its slashes.                                              *)
Segments(p) ==
    LET upTo[n \in 0 .. Len(p)] ==
            IF n = 0 THEN <<>>
            ELSE IF p[n] = Slash THEN upTo[n - 1] ELSE Append(upTo[n - 1], p[n])
    IN  upTo[Len(p)]

DoubleSlash(p) == \E i \in 1 .. Len(p) - 1 : p[i] = Slash /\ p[i + 1] = Slash

(* The target's segments, then those of the request, without the prefix if  *)
(* it is stripped; one slash before each, and none doubled at the seam.     *)
WellJoined(r, path) ==
    LET out == BackendPath(r, path)
        in  == Segments(path)
        cut == IF r.stripPrefix THEN Len(Segments(r.prefix)) ELSE 0
    IN  /\ BeginsWithSlash(out)
        /\ Segments(out) = Segments(r.base) \o SubSeq(in, cut + 1, Len(in))
        /\ DoubleSlash(out) => DoubleSlash(path) \/ DoubleSlash(r.base)
=============================================================================
