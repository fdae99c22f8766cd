------------------------------ MODULE MCLifecycle ------------------------------
(* Values for the constants of Lifecycle.                                    *)
EXTENDS Lifecycle

CONSTANTS b1, b2, pw1, pw2, extra

MCBrowser  == {b1, b2}
MCInside   == {b1}
MCPassword == {pw1, pw2}
MCPort     == {ProxyPort, AdminPort, RedirectPort, extra}

Set(auth, mode, tls, redirect, forwards, domains, bad, dnat, passwords) ==
    [auth |-> auth, mode |-> mode, adminTLS |-> tls, redirect |-> redirect,
     forwards |-> forwards, domains |-> domains, badTargets |-> bad, dnat |-> dnat,
     passwords |-> passwords]

(* Every certificate source, admin TLS with and without, rules on every port *)
(* of main's and, for both managers at once, on one that is free to be had;  *)
(* a domain that does not compile; a password that changes, with a           *)
(* configuration that does; two environments main does not accept.           *)
MCSettings ==
    {Set(TRUE, "self", FALSE, TRUE, {{}, {ProxyPort}}, {{}}, FALSE, {FALSE}, {pw1}),
     Set(TRUE, "file", TRUE, TRUE, {{}}, {{}, {AdminPort}}, TRUE, {FALSE}, {pw1}),
     Set(TRUE, "auto", TRUE, FALSE, {{}, {RedirectPort}}, {{RedirectPort}}, FALSE,
         {FALSE}, {pw1}),
     Set(TRUE, "auto", FALSE, TRUE, {{extra}}, {{extra}}, FALSE, BOOLEAN,
         {pw1, pw2}),
     Set(FALSE, "self", FALSE, TRUE, {{}}, {{}}, FALSE, {FALSE}, {pw1}),
     Set(TRUE, "none", FALSE, TRUE, {{}}, {{}}, FALSE, {TRUE}, {pw1})}
=============================================================================
