---------------------------- MODULE MCDNATManager ----------------------------
(* Values for the constants of DNATManager.                                  *)
EXTENDS DNATManager

CONSTANTS a1, main, n1, n2, p1, p2, t1, t2

OneAdmin  == {a1}
MCName    == {n1, n2}
MCListen  == {p1, p2}
MCTarget  == {t1, t2}

DR(name, listen, target, snat, on) ==
    [key |-> name, proto |-> "tcp", listen |-> listen, target |-> target,
     snat |-> snat, enabled |-> on]

(* One rule with a return path, retargeted; another one, on and off.         *)
MCInput   == {DR(n1, p1, t1, TRUE, TRUE), DR(n1, p1, t2, FALSE, TRUE),
              DR(n2, p2, t1, FALSE, TRUE), DR(n2, p2, t1, FALSE, FALSE)}
MCConfigs == {{}, {DR(n1, p1, t1, TRUE, TRUE)}}
=============================================================================
