-------------------------------- MODULE Rules --------------------------------
(***************************************************************************)
(* The four collections of the store (sites, domains, forwards, DNAT       *)
(* rules) are edited by one discipline: every rule has a key (a host or a  *)
(* name), an upsert adds a rule or replaces the one an edit form was       *)
(* opened on, a delete removes by key.  Forwards and DNAT rules also claim *)
(* a public address, which no other rule of the collection may share.      *)
(*                                                                         *)
(* A Go slice is represented by the set of its elements: nothing below     *)
(* depends on the order, and keys are unique (UniqueKeys, proved in        *)
(* ConfigStoreProofs), so the first match the code stops at is the only    *)
(* one.  Keys are compared after the normalisation of the validators       *)
(* (trimmed; hosts lower-cased), so equal keys are equal values here.      *)
(***************************************************************************)
CONSTANT NoKey      \* the empty old_name / old_host of an "add" form

HasKey(S, k) == \E x \in S : x.key = k

(* An add needs a fresh key; an update needs the rule it was opened on, and *)
(* a fresh key when it renames it.                                          *)
CanUpsert(S, old, e) ==
    \/ /\ old = NoKey
       /\ ~ HasKey(S, e.key)
    \/ /\ old # NoKey
       /\ HasKey(S, old)
       /\ old # e.key => ~ HasKey(S, e.key)

Without(S, k) == {x \in S : x.key # k}

Upserted(S, old, e) == Without(S, old) \cup {e}

SameClaim(x, y) == x.proto = y.proto /\ x.listen = y.listen

(* Mutant: an update of an existing name skips the conflict scan. *)
ClaimFree_fresh(S, e) == HasKey(S, e.key) \/ \A x \in S : ~ SameClaim(x, e)

(* The conflict scan runs before the add/update split and compares with     *)
(* every rule of another name, disabled ones and the one being renamed      *)
(* included.                                                                *)
ClaimFree(S, e) == \A x \in S : x.key # e.key => ~ SameClaim(x, e)

-----------------------------------------------------------------------------
UniqueKeys(S)   == \A x, y \in S : x.key = y.key => x = y
UniqueClaims(S) == \A x, y \in S : SameClaim(x, y) => x = y
=============================================================================
