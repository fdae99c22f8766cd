---------------------------- MODULE MCFwdListener ----------------------------
(* Values for the constants of FwdListener.                                  *)
EXTENDS FwdListener

CONSTANTS c1, u1, u2, s1, s2, s3

MCConn   == {c1}
MCClient == {u1, u2}
MCSock   == {s1, s2, s3}
MCChunks == [x \in Side |-> 1]

FW(proto, proxy, conns, clients) ==
    [proto |-> proto, proxyProto |-> proxy, conns |-> conns, clients |-> clients]

(* A TCP forward with and without the PROXY header, a UDP forward with two   *)
(* clients, and both protocols at once with one client: what TCP and UDP     *)
(* share is stop and the wait group.                                         *)
MCForwards == {FW("tcp", FALSE, {c1}, {}), FW("tcp", TRUE, {c1}, {}),
               FW("udp", FALSE, {}, {u1, u2}), FW("tcp+udp", FALSE, {}, {u1})}
=============================================================================
