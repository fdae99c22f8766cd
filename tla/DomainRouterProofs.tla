------------------------- MODULE DomainRouterProofs --------------------------
(***************************************************************************)
(* Proofs about DomainRouter for every set of editors, hosts and ports.    *)
(*                                                                         *)
(* That the router is a reconciler needs nothing but its types: Apply asks *)
(* the store while it holds r.mu, so what it adopts is always current.     *)
(* That it ends with the ports of the last table needs the invariant Inv:  *)
(* while the ports read differ from the table, some callback is still to   *)
(* come.  That holds only when saves do not fail (SaveMayFail = FALSE): a  *)
(* failed save changes the table and fires no callback.                    *)
(***************************************************************************)
EXTENDS DomainRouter, TLAPS

(* r.mu is held by exactly the thread inside Apply. *)
LockHeld == \A t \in Thread :
                lock = t <=> pc[t] \in {"read", "stopping", "starting"}

(* While the ports read are not those of the table, a callback is coming -  *)
(* and in the middle of an Apply it is an editor's.                         *)
CallbackComing ==
    \/ pc[Main] = "down"
    \/ want = ExtraPorts(domains)
    \/ \E t \in Thread : pc[t] \in {"fire", "read"}

EditorComing ==
    \A t \in Thread : pc[t] = "stopping" =>
        \/ want = ExtraPorts(domains)
        \/ \E a \in Admin : pc[a] = "fire"

(* What an Apply has done by the time it starts listeners, and when it ends.*)
Stopped == \A t \in Thread : pc[t] = "starting" => active \subseteq want
Started == lock = Nobody /\ pc[Main] # "down" =>
               /\ active \subseteq want
               /\ want \subseteq active \cup tried

Inv == /\ TypeOK /\ LockHeld
       /\ CallbackComing /\ EditorComing
       /\ Stopped /\ Started

-----------------------------------------------------------------------------
(* Types.                                                                   *)

(* The ports Apply may want are ports not served elsewhere (domains.go:233).*)
LEMMA ExtraPortsType ==
    ASSUME NEW S, S \subseteq Domain
    PROVE  ExtraPorts(S) \subseteq Port \ ServedElsewhere
BY DEF ExtraPorts, DomainPorts, Domain

(* An edit leaves a set of domains (config.go:768-836). *)
LEMMA EditType ==
    ASSUME TypeOK, NEW a \in Admin, Edit(a)
    PROVE  /\ domains' \subseteq Domain
           /\ Commit(a, domains')
<1>1. CASE \E old \in Host \cup {NoKey}, d \in DomainInput : UpsertDomain(a, old, d)
  BY <1>1, RouterAssumption
     DEF UpsertDomain, Commit, Upserted, Without, TypeOK
<1>2. CASE \E k \in Host : DeleteDomain(a, k)
  BY <1>2 DEF DeleteDomain, Commit, Without, TypeOK
<1> QED BY <1>1, <1>2 DEF Edit

LEMMA InitTypes == Init => TypeOK
BY RouterAssumption DEF Init, TypeOK, Thread

LEMMA NextTypes == TypeOK /\ [Next]_vars => TypeOK'
<1> SUFFICES ASSUME TypeOK, [Next]_vars PROVE TypeOK'
  OBVIOUS
<1> USE DEF TypeOK, Goto
<1>1. ASSUME NEW a \in Admin, Edit(a) PROVE TypeOK'
  BY <1>1, EditType DEF Commit, Thread
<1>2. ASSUME NEW t \in Thread, Lock(t) PROVE TypeOK'
  BY <1>2 DEF Lock
<1>3. ASSUME NEW t \in Thread, ReadPorts(t) PROVE TypeOK'
  BY <1>3, ExtraPortsType DEF ReadPorts
<1>4. ASSUME NEW t \in Thread, StopsDone(t) PROVE TypeOK'
  BY <1>4 DEF StopsDone
<1>5. ASSUME NEW t \in Thread, Unlock(t) PROVE TypeOK'
  BY <1>5 DEF Unlock
<1>6. ASSUME NEW t \in Thread, NEW p \in Port, StopPort(t, p) PROVE TypeOK'
  BY <1>6 DEF StopPort
<1>7. ASSUME NEW t \in Thread, NEW p \in Port, StartPort(t, p) PROVE TypeOK'
  BY <1>7 DEF StartPort
<1>8. ASSUME Shutdown PROVE TypeOK'
  BY <1>8 DEF Shutdown, Thread
<1>9. ASSUME NEW p \in Port, Grab(p) \/ Release(p) PROVE TypeOK'
  BY <1>9 DEF Grab, Release
<1>10. CASE UNCHANGED vars
  BY <1>10 DEF vars
<1> QED
  BY <1>1, <1>2, <1>3, <1>4, <1>5, <1>6, <1>7, <1>8, <1>9, <1>10
     DEF Next, ApplyStep

(* Every reachable state of the router is well typed; in particular no port *)
(* served elsewhere is ever opened (domains.go:233-238).                    *)
THEOREM TypeCorrect == Spec => []TypeOK
BY InitTypes, NextTypes, PTL DEF Spec

-----------------------------------------------------------------------------
(* Refinement.                                                              *)

(* The router is a reconciler, with any number of editors and whether or    *)
(* not saves fail: it adopts the ports of the table as they are, closes     *)
(* only what it adopted does not want and opens only what it wants          *)
(* (DomainRouter.Apply).                                                    *)
THEOREM RouterReconciles == Spec => Reconciles
<1>1. Init => Live!Init
  BY ExtraPortsType, RouterAssumption DEF Init, Live!Init
<1>2. TypeOK /\ TypeOK' /\ [Next]_vars => [Live!Next]_Live!vars
  <2> SUFFICES ASSUME TypeOK, TypeOK', [Next]_vars
               PROVE  [Live!Next]_Live!vars
    OBVIOUS
  <2> USE DEF Live!Next, Live!vars
  <2>1. ASSUME NEW a \in Admin, Edit(a) PROVE Live!Change
    <3>1. Commit(a, domains')
      BY <2>1, EditType
    <3> QED BY <3>1, ExtraPortsType DEF Commit, Live!Change, TypeOK
  <2>2. ASSUME NEW t \in Thread, Lock(t) \/ StopsDone(t) \/ Unlock(t)
        PROVE  UNCHANGED Live!vars
    BY <2>2 DEF Lock, StopsDone, Unlock
  <2>3. ASSUME NEW t \in Thread, ReadPorts(t) PROVE Live!Adopt
    BY <2>3 DEF ReadPorts, Live!Adopt
  <2>4. ASSUME NEW t \in Thread, NEW p \in Port, StopPort(t, p)
        PROVE  \E i \in active : Live!Close(i)
    BY <2>4 DEF StopPort, Live!Close
  <2>5. ASSUME NEW t \in Thread, NEW p \in Port, StartPort(t, p)
        PROVE  (\E i \in want : Live!Open(i)) \/ UNCHANGED Live!vars
    BY <2>5 DEF StartPort, Live!Open
  <2>6. ASSUME Shutdown PROVE Live!ShutDown
    BY <2>6 DEF Shutdown, Live!ShutDown
  <2>7. ASSUME NEW p \in Port, Grab(p) \/ Release(p) PROVE UNCHANGED Live!vars
    BY <2>7 DEF Grab, Release
  <2>8. CASE UNCHANGED vars
    BY <2>8 DEF vars
  <2> QED
    BY <2>1, <2>2, <2>3, <2>4, <2>5, <2>6, <2>7, <2>8 DEF Next, ApplyStep
<1> QED
  BY <1>1, <1>2, TypeCorrect, PTL DEF Spec, Reconciles, Live!Spec

-----------------------------------------------------------------------------
(* Convergence.                                                             *)

LEMMA InitInv == Init => Inv
<1> SUFFICES ASSUME Init PROVE Inv
  OBVIOUS
<1>1. TypeOK
  BY InitTypes
<1>2. pc[Main] = "fire" /\ \A t \in Thread : pc[t] \in {"fire", "idle"}
  BY DEF Init, Thread
<1>3. LockHeld
  BY <1>2, RouterAssumption DEF LockHeld, Init
<1>4. CallbackComing
  BY <1>2 DEF CallbackComing, Thread
<1>5. EditorComing /\ Stopped /\ Started
  BY <1>2 DEF EditorComing, Stopped, Started, Init
<1> QED BY <1>1, <1>3, <1>4, <1>5 DEF Inv

(* With saves that work, every edit leaves its callback to be run. *)
LEMMA EditInv ==
    ASSUME Inv, SaveMayFail = FALSE, NEW a \in Admin, Edit(a)
    PROVE  LockHeld' /\ CallbackComing' /\ EditorComing' /\ Stopped' /\ Started'
<1>1. Commit(a, domains')
  BY EditType DEF Inv
<1>2. /\ pc[a] = "idle"
      /\ pc' = [pc EXCEPT ![a] = "fire"]
      /\ UNCHANGED <<lock, want, active, tried>>
  BY <1>1 DEF Commit, Goto
<1>3. a \in Thread /\ a # Main /\ Main \in Thread
  BY RouterAssumption DEF Thread
<1>4. pc'[a] = "fire" /\ \A t \in Thread : t # a => pc'[t] = pc[t]
  BY <1>2, <1>3 DEF Inv, TypeOK
<1>5. LockHeld'
  BY <1>2, <1>4 DEF Inv, LockHeld
<1>6. CallbackComing' /\ EditorComing'
  BY <1>3, <1>4 DEF CallbackComing, EditorComing
<1>7. Stopped' /\ Started'
  BY <1>2, <1>3, <1>4 DEF Inv, Stopped, Started
<1> QED BY <1>5, <1>6, <1>7

(* One step of Apply, by the thread that holds r.mu or takes it. *)
LEMMA ApplyInv ==
    ASSUME Inv, NEW t \in Thread, Lock(t) \/ ApplyStep(t)
    PROVE  LockHeld' /\ CallbackComing' /\ EditorComing' /\ Stopped' /\ Started'
<1> USE DEF Inv, TypeOK, Goto
<1>0. Main \in Thread /\ Nobody \notin Thread
  BY RouterAssumption DEF Thread
<1>1. CASE Lock(t)
  <2>1. \A u \in Thread : pc[u] \notin {"read", "stopping", "starting"}
    BY <1>1, <1>0 DEF Lock, LockHeld
  <2>2. pc'[t] = "read" /\ \A u \in Thread : u # t => pc'[u] = pc[u]
    BY <1>1 DEF Lock
  <2>3. LockHeld'
    BY <1>1, <2>1, <2>2 DEF Lock, LockHeld
  <2>4. CallbackComing' /\ EditorComing' /\ Stopped'
    BY <2>1, <2>2 DEF CallbackComing, EditorComing, Stopped
  <2>5. Started'
    BY <1>1, <1>0 DEF Lock, Started
  <2> QED BY <2>3, <2>4, <2>5
<1>2. CASE ReadPorts(t)
  <2>1. pc[t] = "read" /\ pc'[t] = "stopping" /\ lock' = lock
        /\ \A u \in Thread : u # t => pc'[u] = pc[u]
    BY <1>2 DEF ReadPorts
  <2>2. lock = t
    BY <2>1 DEF LockHeld
  <2>3. LockHeld'
    BY <2>1, <2>2 DEF LockHeld
  <2>4. want' = ExtraPorts(domains')
    BY <1>2 DEF ReadPorts
  <2>5. Stopped' /\ Started'
    BY <2>1, <2>2, <2>3, <1>0 DEF Stopped, Started, LockHeld
  <2> QED BY <2>3, <2>4, <2>5 DEF CallbackComing, EditorComing
<1>3. CASE \E p \in Port : StopPort(t, p)
  <2>1. PICK p \in Port : StopPort(t, p)
    BY <1>3
  <2>2. pc[t] = "stopping" /\ UNCHANGED <<domains, pc, lock, want>>
    BY <2>1 DEF StopPort
  <2>3. lock = t
    BY <2>2 DEF LockHeld
  <2>4. LockHeld' /\ CallbackComing' /\ EditorComing'
    BY <2>2 DEF LockHeld, CallbackComing, EditorComing
  <2>5. Stopped' /\ Started'
    BY <2>1, <2>2, <2>3, <1>0 DEF Stopped, Started, StopPort
  <2> QED BY <2>4, <2>5
<1>4. CASE StopsDone(t)
  <2>1. pc[t] = "stopping" /\ pc'[t] = "starting"
        /\ UNCHANGED <<domains, lock, want, active>>
        /\ \A u \in Thread : u # t => pc'[u] = pc[u]
    BY <1>4 DEF StopsDone
  <2>2. lock = t
    BY <2>1 DEF LockHeld
  <2>3. LockHeld'
    BY <2>1, <2>2 DEF LockHeld
  <2>4. CallbackComing' /\ EditorComing'
    <3>1. \A a \in Admin : pc[a] = "fire" => pc'[a] = "fire"
      BY <2>1 DEF Thread
    <3>2. \A u \in Thread : pc[u] \in {"fire", "read"} => pc'[u] = pc[u]
      BY <2>1
    <3>3. pc[Main] = "down" => pc'[Main] = "down"
      BY <2>1, <1>0
    <3> QED BY <2>1, <3>1, <3>2, <3>3 DEF CallbackComing, EditorComing
  <2>5. Stopped' /\ Started'
    BY <1>4, <2>1, <2>2, <2>3, <1>0 DEF Stopped, Started, LockHeld, StopsDone
  <2> QED BY <2>3, <2>4, <2>5
<1>5. CASE \E p \in Port : StartPort(t, p)
  <2>1. PICK p \in Port : StartPort(t, p)
    BY <1>5
  <2>2. pc[t] = "starting" /\ UNCHANGED <<domains, pc, lock, want>>
    BY <2>1 DEF StartPort
  <2>3. lock = t
    BY <2>2 DEF LockHeld
  <2>4. LockHeld' /\ CallbackComing' /\ EditorComing'
    BY <2>2 DEF LockHeld, CallbackComing, EditorComing
  <2>5. Stopped' /\ Started'
    BY <2>1, <2>2, <2>3, <1>0 DEF Stopped, Started, StartPort
  <2> QED BY <2>4, <2>5
<1>6. CASE Unlock(t)
  <2>1. pc[t] = "starting" /\ pc'[t] = "idle" /\ lock' = Nobody
        /\ UNCHANGED <<domains, want, active, tried>>
        /\ \A u \in Thread : u # t => pc'[u] = pc[u]
    BY <1>6 DEF Unlock
  <2>2. \A u \in Thread : u # t => pc[u] \notin {"read", "stopping", "starting"}
    BY <2>1 DEF LockHeld
  <2>3. LockHeld'
    BY <2>1, <2>2, <1>0 DEF LockHeld
  <2>4. CallbackComing'
    BY <2>1, <1>0 DEF CallbackComing
  <2>5. EditorComing' /\ Stopped'
    BY <2>1, <2>2 DEF EditorComing, Stopped
  <2>6. Started'
    BY <1>6, <2>1 DEF Started, Stopped, Unlock
  <2> QED BY <2>3, <2>4, <2>5, <2>6
<1> QED BY <1>1, <1>2, <1>3, <1>4, <1>5, <1>6 DEF ApplyStep

LEMMA NextInv == SaveMayFail = FALSE /\ Inv /\ [Next]_vars => Inv'
<1> SUFFICES ASSUME SaveMayFail = FALSE, Inv, [Next]_vars PROVE Inv'
  OBVIOUS
<1>1. TypeOK'
  BY NextTypes DEF Inv
<1>2. ASSUME NEW a \in Admin, Edit(a)
      PROVE  LockHeld' /\ CallbackComing' /\ EditorComing' /\ Stopped' /\ Started'
  BY <1>2, EditInv
<1>3. ASSUME NEW t \in Thread, Lock(t) \/ ApplyStep(t)
      PROVE  LockHeld' /\ CallbackComing' /\ EditorComing' /\ Stopped' /\ Started'
  BY <1>3, ApplyInv
<1>4. ASSUME Shutdown
      PROVE  LockHeld' /\ CallbackComing' /\ EditorComing' /\ Stopped' /\ Started'
  <2>1. /\ pc[Main] = "idle" /\ pc'[Main] = "down" /\ lock = Nobody
        /\ active' = {} /\ UNCHANGED <<domains, lock, want, tried>>
        /\ \A u \in Thread : u # Main => pc'[u] = pc[u]
    BY <1>4 DEF Shutdown, Goto, Inv, TypeOK, Thread
  <2>2. \A u \in Thread : pc[u] \notin {"read", "stopping", "starting"}
    BY <2>1, RouterAssumption DEF Inv, LockHeld
  <2>3. LockHeld' /\ EditorComing' /\ Stopped'
    BY <2>1, <2>2, RouterAssumption DEF LockHeld, EditorComing, Stopped
  <2> QED BY <2>1, <2>3 DEF CallbackComing, Started
<1>5. ASSUME UNCHANGED <<domains, pc, lock, want, active, tried>>
      PROVE  LockHeld' /\ CallbackComing' /\ EditorComing' /\ Stopped' /\ Started'
  BY <1>5 DEF Inv, LockHeld, CallbackComing, EditorComing, Stopped, Started
<1>6. ASSUME NEW p \in Port, Grab(p) \/ Release(p)
      PROVE  UNCHANGED <<domains, pc, lock, want, active, tried>>
  BY <1>6 DEF Grab, Release
<1>7. CASE UNCHANGED vars
  BY <1>1, <1>5, <1>7 DEF vars, Inv
<1> QED
  BY <1>1, <1>2, <1>3, <1>4, <1>5, <1>6, <1>7 DEF Next, Inv

(* However many editors there are and whatever order their callbacks take,  *)
(* the listeners end with the ports of the last table, provided no save     *)
(* fails (UpsertDomain and DeleteDomain fire no callback when one does).    *)
THEOREM RouterConverges ==
    ASSUME SaveMayFail = FALSE
    PROVE  Spec => []ListenersFollowTable
<1>1. Inv => ListenersFollowTable
  <2> SUFFICES ASSUME Inv, Quiet
               PROVE  /\ active \subseteq ExtraPorts(domains)
                      /\ ExtraPorts(domains) \subseteq active \cup tried
    BY DEF ListenersFollowTable
  <2>1. pc[Main] # "down" /\ \A t \in Thread : pc[t] = "idle"
    BY DEF Quiet, Thread
  <2>2. want = ExtraPorts(domains)
    BY <2>1 DEF Inv, CallbackComing
  <2>3. lock = Nobody
    BY <2>1 DEF Inv, LockHeld, TypeOK
  <2> QED BY <2>1, <2>2, <2>3 DEF Inv, Started
<1> QED
  BY <1>1, InitInv, NextInv, PTL DEF Spec

(* A port is closed only when the table does not want it, when an edit that *)
(* may want it again has its callback still to come, or at the end          *)
(* (DomainRouter.Apply and Shutdown).                                       *)
THEOREM PortsClosedForAReason ==
    ASSUME SaveMayFail = FALSE
    PROVE  Spec => ClosedForAReason
<1> DEFINE Reason == \A p \in active \ active' :
                         \/ p \notin ExtraPorts(domains)
                         \/ \E a \in Admin : pc[a] = "fire"
                         \/ pc'[Main] = "down"
<1>1. Inv /\ [Next]_vars => [Reason]_vars
  <2> SUFFICES ASSUME Inv, Next PROVE Reason
    BY DEF vars
  <2>1. ASSUME NEW a \in Admin, Edit(a) PROVE active' = active
    BY <2>1, EditType DEF Commit, Inv
  <2>2. ASSUME NEW t \in Thread,
               Lock(t) \/ ReadPorts(t) \/ StopsDone(t) \/ Unlock(t)
        PROVE  active' = active
    BY <2>2 DEF Lock, ReadPorts, StopsDone, Unlock
  <2>3. ASSUME NEW t \in Thread, NEW p \in Port, StartPort(t, p)
        PROVE  active \subseteq active'
    BY <2>3 DEF StartPort
  <2>4. ASSUME NEW t \in Thread, NEW p \in Port, StopPort(t, p) PROVE Reason
    BY <2>4 DEF StopPort, Inv, EditorComing
  <2>5. ASSUME Shutdown PROVE Reason
    BY <2>5, RouterAssumption DEF Shutdown, Goto, Inv, TypeOK, Thread
  <2>6. ASSUME NEW p \in Port, Grab(p) \/ Release(p) PROVE active' = active
    BY <2>6 DEF Grab, Release
  <2> QED
    BY <2>1, <2>2, <2>3, <2>4, <2>5, <2>6 DEF Next, ApplyStep
<1> QED
  BY <1>1, InitInv, NextInv, PTL DEF Spec, ClosedForAReason
=============================================================================
