---------------------------- MODULE MCConfigStore ----------------------------
(* Values for the constants of ConfigStore.  Three instances share them: a   *)
(* cfg leaves out what it does not ask about by giving an input set {}.      *)
EXTENDS ConfigStore, TLC

CONSTANTS h1, h2, legacyHost, r1, r2, n1, n2, n3, a1, good, bad

MCHost        == {h1, h2}
MCName        == {n1, n2, n3}
MCListen      == {a1}
MCRoute       == {r1, r2}
MCEnabled     == {r1}
MCPort        == {80, 443}
MCTarget      == {good, bad}
MCBad         == {bad}
Nothing       == {}

PF(port, target, manage) ==
    [port |-> port, target |-> target, manageCert |-> manage, enabled |-> TRUE]

MCSites   == {[key |-> h1, routes |-> {r1, r2}], [key |-> h2, routes |-> {}]}

(* A plaintext site, a terminated one whose target is no URL, the same in    *)
(* passthrough mode, and a form that names one port twice.                   *)
MCDomains ==
    {[key |-> h1, forwards |-> {PF(80, good, TRUE), PF(443, good, TRUE)}],
     [key |-> h1, forwards |-> {PF(443, bad, TRUE)}],
     [key |-> h2, forwards |-> {PF(443, bad, FALSE)}],
     [key |-> h2, forwards |-> {PF(443, good, TRUE), PF(443, good, FALSE)}]}

MCForwards == [key : MCName, proto : {"tcp", "tcp+udp"}, listen : {a1}]
OneForward == [key : {n1}, proto : {"tcp"}, listen : {a1}]
MCDNAT     == [key : {n1, n2}, proto : {"tcp"}, listen : {a1}]

FreshFiles  == {FileOf("missing"), FileOf("blank")}
LegacyFiles == {FileOf("legacy")}
AllFiles    == FreshFiles \cup LegacyFiles
=============================================================================
