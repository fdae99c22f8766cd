---------------------------- MODULE DomainRouter -----------------------------
(***************************************************************************)
(* The domain forwards from the admin's click to the port listeners:       *)
(* the domain half of the Store and DomainRouter.Apply (domains.go).       *)
(* Unlike the Forwarder, the router is handed no snapshot: Apply takes     *)
(* r.mu and then asks the store for the ports of the compiled table, so    *)
(* whatever order the callbacks arrive in, the last Apply sees the last    *)
(* table.  Routing itself reads the table on every connection.             *)
(***************************************************************************)
CONSTANTS
    Admin, Main,
    Host,
    Port,           \* public ports
    ServedElsewhere,\* the ports of the main and the HTTP listener
    DomainInput,    \* what the domain form submits: a host and its enabled ports
    Tables,         \* the domains a start may find in the file
    SaveMayFail,
    NoKey,
    Nobody          \* r.mu is free

INSTANCE Rules

Thread == Admin \cup {Main}

(* A domain is its host and the public ports of its enabled forwards.  The  *)
(* rest of a forward matters to routing, not to listening.                  *)
Domain == [key : Host, ports : SUBSET Port]

ASSUME RouterAssumption ==
    /\ NoKey \notin Host
    /\ Main \notin Admin
    /\ Nobody \notin Thread
    /\ ServedElsewhere \subseteq Port
    /\ DomainInput \subseteq Domain
    /\ Tables \subseteq {S \in SUBSET Domain : UniqueKeys(S)}
    /\ SaveMayFail \in BOOLEAN

VARIABLES
    domains,    \* s.domains, which compile
    pc,         \* where each thread is
    lock,       \* holder of r.mu
    want,       \* the ports Apply has read from the store
    active,     \* ports with an open listener
    tried,      \* ports this Apply has tried to open
    foreign     \* ports taken by others

vars == <<domains, pc, lock, want, active, tried, foreign>>

TypeOK ==
    /\ domains \subseteq Domain
    /\ pc \in [Thread -> {"idle", "fire", "read", "stopping", "starting", "down"}]
    /\ lock \in Thread \cup {Nobody}
    /\ want \subseteq Port \ ServedElsewhere
    /\ active \subseteq Port \ ServedElsewhere
    /\ tried \subseteq Port
    /\ foreign \subseteq Port

DomainPorts(S) == UNION {d.ports : d \in S}

ExtraPorts(S) == DomainPorts(S) \ ServedElsewhere

Init ==
    /\ domains \in Tables
    /\ pc = [t \in Thread |-> IF t = Main THEN "fire" ELSE "idle"]
    /\ lock = Nobody
    /\ want = {} /\ active = {} /\ tried = {}
    /\ foreign \in SUBSET Port

Goto(t, label) == pc' = [pc EXCEPT ![t] = label]

-----------------------------------------------------------------------------
(* commitLocked has rebuilt the table by the time it persists: a failed     *)
(* save leaves the new table in use and fires no callback.                  *)
Commit(a, S) ==
    /\ pc[Main] \in {"idle", "down"}
    /\ pc[a] = "idle"
    /\ domains' = S
    /\ \/ Goto(a, "fire")
       \/ SaveMayFail /\ pc' = pc
    /\ UNCHANGED <<lock, want, active, tried, foreign>>

UpsertDomain(a, old, d) ==
    /\ CanUpsert(domains, old, d)
    /\ Commit(a, Upserted(domains, old, d))

DeleteDomain(a, k) ==
    /\ HasKey(domains, k)
    /\ Commit(a, Without(domains, k))

-----------------------------------------------------------------------------
(* DomainRouter.Apply.                                                      *)

Lock(t) ==
    /\ pc[t] = "fire"
    /\ lock = Nobody
    /\ lock' = t
    /\ tried' = {}
    /\ Goto(t, "read")
    /\ UNCHANGED <<domains, want, active, foreign>>

(* Mutant: ports are only ever added to those wanted. *)
ReadPorts_add(t) ==
    /\ pc[t] = "read"
    /\ want' = want \cup ExtraPorts(domains)
    /\ Goto(t, "stopping")
    /\ UNCHANGED <<domains, lock, active, tried, foreign>>

(* DomainPorts takes s.mu for reading, inside r.mu.                         *)
ReadPorts(t) ==
    /\ pc[t] = "read"
    /\ want' = ExtraPorts(domains)
    /\ Goto(t, "stopping")
    /\ UNCHANGED <<domains, lock, active, tried, foreign>>

StopPort(t, p) ==
    /\ pc[t] = "stopping"
    /\ p \in active \ want
    /\ active' = active \ {p}
    /\ UNCHANGED <<domains, pc, lock, want, tried, foreign>>

StopsDone(t) ==
    /\ pc[t] = "stopping"
    /\ active \subseteq want
    /\ Goto(t, "starting")
    /\ UNCHANGED <<domains, lock, want, active, tried, foreign>>

(* A port that cannot be bound is logged and left for the next Apply.       *)
StartPort(t, p) ==
    /\ pc[t] = "starting"
    /\ p \in want \ (active \cup tried)
    /\ tried' = tried \cup {p}
    /\ active' = IF p \in foreign THEN active ELSE active \cup {p}
    /\ UNCHANGED <<domains, pc, lock, want, foreign>>

(* Mutants: the loop ends at the first port that cannot be bound; a return  *)
(* leaves r.mu locked.                                                      *)
Unlock_held(t) ==
    /\ pc[t] = "starting"
    /\ want \subseteq active \cup tried
    /\ Goto(t, "idle")
    /\ UNCHANGED <<domains, lock, want, active, tried, foreign>>

Unlock_first(t) ==
    /\ pc[t] = "starting"
    /\ want \subseteq active \/ tried \cap foreign # {}
    /\ lock' = Nobody
    /\ Goto(t, "idle")
    /\ UNCHANGED <<domains, want, active, tried, foreign>>

Unlock(t) ==
    /\ pc[t] = "starting"
    /\ want \subseteq active \cup tried
    /\ lock' = Nobody
    /\ Goto(t, "idle")
    /\ UNCHANGED <<domains, want, active, tried, foreign>>

Shutdown ==
    /\ pc[Main] = "idle"
    /\ lock = Nobody
    /\ active' = {}
    /\ Goto(Main, "down")
    /\ UNCHANGED <<domains, lock, want, tried, foreign>>

Grab(p)    == /\ p \notin active
              /\ foreign' = foreign \cup {p}
              /\ UNCHANGED <<domains, pc, lock, want, active, tried>>
Release(p) == /\ p \in foreign
              /\ foreign' = foreign \ {p}
              /\ UNCHANGED <<domains, pc, lock, want, active, tried>>

-----------------------------------------------------------------------------
Edit(a) ==
    \/ \E old \in Host \cup {NoKey}, d \in DomainInput : UpsertDomain(a, old, d)
    \/ \E k \in Host : DeleteDomain(a, k)

ApplyStep(t) ==
    \/ ReadPorts(t) \/ StopsDone(t) \/ Unlock(t)
    \/ \E p \in Port : StopPort(t, p) \/ StartPort(t, p)

Next ==
    \/ \E a \in Admin : Edit(a)
    \/ \E t \in Thread : Lock(t) \/ ApplyStep(t)
    \/ Shutdown
    \/ \E p \in Port : Grab(p) \/ Release(p)

Spec == Init /\ [][Next]_vars

(* As in Forwarder: running goroutines run, and r.mu is not withheld for    *)
(* ever from one that waits for it.                                         *)
Fairness == \A t \in Thread : SF_vars(Lock(t)) /\ WF_vars(ApplyStep(t))

FairSpec == Spec /\ Fairness

-----------------------------------------------------------------------------
(* Properties.                                                              *)

Quiet == \A t \in Thread : pc[t] = "idle"

(* However many editors there are and whatever order their callbacks take,  *)
(* once none is on its way every extra port of the table is open or was     *)
(* found taken by the last Apply, and no other port is (Apply asks the      *)
(* store while it holds r.mu).                                              *)
ListenersFollowTable ==
    Quiet => /\ active \subseteq ExtraPorts(domains)
             /\ ExtraPorts(domains) \subseteq active \cup tried

(* The router is a reconciler with any number of editors.                   *)
Live == INSTANCE Reconciler WITH
            Item <- Port \ ServedElsewhere, wanted <- ExtraPorts(domains),
            adopted <- want, running <- active
Reconciles == Live!Spec

(* A port is closed only after the table has stopped wanting it, and stays  *)
(* open through every edit that keeps a rule on it: active connections and  *)
(* pending handshakes of other domains are not disturbed.  The table may    *)
(* want the port again by the time it is closed; then another Apply is      *)
(* pending that opens it.                                                   *)
ClosedForAReason ==
    [][\A p \in active \ active' :
           \/ p \notin ExtraPorts(domains)
           \/ \E a \in Admin : pc[a] = "fire"
           \/ pc'[Main] = "down"]_vars

(* Every port the table wants while an edit is on its way is opened, is     *)
(* found taken, or is no longer wanted: no callback is lost or waits for    *)
(* ever behind another.                                                     *)
PortsServed ==
    \A p \in Port :
        (p \in ExtraPorts(domains) /\ \E a \in Admin : pc[a] = "fire") ~>
            \/ p \in active \cup tried
            \/ p \notin ExtraPorts(domains)
            \/ pc[Main] = "down"
=============================================================================
