---------------------------- MODULE MCDomainRouter ---------------------------
(* Values for the constants of DomainRouter.                                 *)
EXTENDS DomainRouter

CONSTANTS a1, a2, main, h1, h2

TwoAdmins == {a1, a2}
MCHost    == {h1, h2}
MCPort    == {443, 8443, 9443}
MCMain    == {443}
MCInput   == {[key |-> h1, ports |-> {443, 8443}], [key |-> h1, ports |-> {9443}],
              [key |-> h2, ports |-> {8443}]}
MCTables  == {{}, {[key |-> h2, ports |-> {8443, 9443}]}}
=============================================================================
