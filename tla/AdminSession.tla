----------------------------- MODULE AdminSession -----------------------------
(***************************************************************************)
(* Access to the admin UI (auth.go and the gates of admin.go): an address  *)
(* that INTERNAL_CIDR allows, and a cookie signed with a key derived from  *)
(* the password.  The server keeps no session: a restart forgets none, a   *)
(* logout takes the cookie from the browser only, and a new password makes *)
(* every older cookie worthless.  A signature is represented by its key.   *)
(***************************************************************************)
EXTENDS Naturals

CONSTANTS
    Browser,
    Inside,     \* those whose address INTERNAL_CIDR contains
    Password,
    NoCookie,
    TTL         \* sessionTTL, in ticks

ASSUME SessionAssumption == Inside \subseteq Browser /\ TTL \in Nat

VARIABLES
    password,   \* a.password
    cookie,     \* the cookie of a browser: its key and its age
    entered     \* ticks since a browser was let in with a password (history)

session == <<password, cookie, entered>>

Never  == TTL + 1
Cookie == [key : Password, age : 0 .. Never]

SessionType ==
    /\ password \in Password
    /\ cookie \in [Browser -> Cookie \cup {NoCookie}]
    /\ entered \in [Browser -> [Password -> 0 .. Never]]

SessionInit ==
    /\ password \in Password
    /\ cookie = [b \in Browser |-> NoCookie]
    /\ entered = [b \in Browser |-> [p \in Password |-> Never]]

IPAllowed(b) == b \in Inside

(* Mutant: the key does not depend on the password. *)
SessionValid_anyKey(b) ==
    cookie[b] # NoCookie /\ cookie[b].age <= TTL

SessionValid(b) ==
    /\ cookie[b] # NoCookie
    /\ cookie[b].key = password
    /\ cookie[b].age <= TTL

(* What ipGate and requireAuth let through to a handler.                    *)
MayEdit(b) == IPAllowed(b) /\ SessionValid(b)

IssueCookie(b) == cookie' = [cookie EXCEPT ![b] = [key |-> password, age |-> 0]]

(* A wrong password, or a login with a session that is valid, changes       *)
(* nothing.                                                                 *)
Login(b, p) ==
    /\ IPAllowed(b)
    /\ ~ SessionValid(b)
    /\ p = password
    /\ IssueCookie(b)
    /\ entered' = [entered EXCEPT ![b][p] = 0]
    /\ UNCHANGED password

Logout(b) ==
    /\ IPAllowed(b)
    /\ cookie' = [cookie EXCEPT ![b] = NoCookie]
    /\ UNCHANGED <<password, entered>>

Older(n) == IF n = Never THEN n ELSE n + 1

Tick ==
    /\ cookie' = [b \in Browser |->
                     IF cookie[b] = NoCookie THEN NoCookie
                     ELSE [cookie[b] EXCEPT !.age = Older(@)]]
    /\ entered' = [b \in Browser |-> [p \in Password |-> Older(entered[b][p])]]
    /\ UNCHANGED password
=============================================================================
