----------------------------- MODULE MCForwarder -----------------------------
(* Values for the constants of Forwarder.                                    *)
EXTENDS Forwarder

CONSTANTS a1, a2, main, n1, n2, any, vpn, t1, t2

MCName   == {n1, n2}
MCListen == {any, vpn}
MCTarget == {t1, t2}

(* ":2222" and "10.8.0.1:2222": one host address of the wildcard.            *)
MCClash  == {any, vpn} \X {any, vpn}

FW(name, proto, listen, target, on) ==
    [key |-> name, proto |-> proto, listen |-> listen, target |-> target,
     enabled |-> on]

(* A forward with two targets; a second one beside it, disabled, or widened  *)
(* to tcp+udp, where it wants the port of the first on the other address.    *)
MCInput == {FW(n1, "tcp", any, t1, TRUE), FW(n1, "tcp", any, t2, TRUE),
            FW(n2, "tcp+udp", vpn, t1, TRUE), FW(n2, "udp", vpn, t1, TRUE),
            FW(n2, "udp", vpn, t1, FALSE)}
MCConfigs == {{}, {FW(n1, "tcp", any, t1, TRUE)}}

(* Two editors at once, retargeting and deleting one forward.                *)
OneListen == {any}
OneClash  == {<<any, any>>}
PairInput == {FW(n1, "tcp", any, t1, TRUE), FW(n1, "tcp", any, t2, TRUE)}

OneAdmin  == {a1}
TwoAdmins == {a1, a2}
NoConfig  == {{}}
=============================================================================
