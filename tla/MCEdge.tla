--------------------------------- MODULE MCEdge ---------------------------------
(* Values for the constants of Edge.                                         *)
EXTENDS Edge

CONSTANTS c1, c2, h1, h2, extra

MCConn   == {c1, c2}
MCHost   == {h1, h2}
MCChunks == [x \in Side |-> IF x = "client" THEN 2 ELSE 1]

S == Slash
MCSegment == {"a", "b", "c", "x"}
MCPath == {<<S, "a">>, <<S, "a", S, "b", S>>, <<S, "c">>}

R(prefix, base, strip, max, on) ==
    [prefix |-> prefix, base |-> base, stripPrefix |-> strip, max |-> max, enabled |-> on]

FW(h, port, manage, proxy, on) ==
    [host |-> h, port |-> port, manageCert |-> manage, proxyProto |-> proxy, enabled |-> on]

(* Routes one of which lies under the other, a disabled one and a prefix     *)
(* that is there twice; the second host is terminated by main and passed     *)
(* through on the extra port.                                                *)
Routes == <<R(<<S, "a">>, <<>>, TRUE, 1, TRUE), R(<<S, "c">>, <<>>, TRUE, 0, FALSE),
            R(<<S, "a", S, "b">>, <<S, "x", S>>, FALSE, 0, TRUE),
            R(<<S, "a">>, <<S, "x">>, FALSE, 0, TRUE)>>
SitesAndDomain ==
    [sites |-> h1 :> Routes,
     domains |-> {FW(h2, MainPort, TRUE, FALSE, TRUE), FW(h2, extra, FALSE, TRUE, TRUE),
                  FW(h1, extra, TRUE, FALSE, TRUE), FW(h1, HTTPPort, FALSE, FALSE, TRUE)}]

(* The same without the site; the first host is passed through everywhere.   *)
Passed ==
    [sites |-> <<>>,
     domains |-> {FW(h1, MainPort, FALSE, TRUE, TRUE), FW(h1, extra, FALSE, FALSE, TRUE),
                  FW(h2, extra, TRUE, FALSE, FALSE), FW(h2, HTTPPort, TRUE, FALSE, TRUE)}]

Scene(place, conns, open, names, hosts, paths, configs) ==
    [place |-> place, port |-> extra, conns |-> conns, open |-> open, names |-> names,
     hosts |-> hosts, paths |-> paths, configs |-> configs]

Both  == {SitesAndDomain, Passed}
Named == MCHost \cup {NoName}

(* One connection of any kind through each listener while the tables are     *)
(* replaced, and two that compete for the one slot of a route.               *)
MCScenes ==
    {Scene("main", {c1}, {}, Named, MCHost, MCPath, Both),
     Scene("extra", {c1}, {}, Named, MCHost, {<<S, "c">>}, Both),
     Scene("http", {c1}, {}, {NoName}, MCHost, {<<S, "c">>}, Both),
     Scene("main", {}, {c1, c2}, {h1}, {h1}, {<<S, "a">>}, {SitesAndDomain})}
=============================================================================
