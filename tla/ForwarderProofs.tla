--------------------------- MODULE ForwarderProofs ---------------------------
(***************************************************************************)
(* Proofs about Forwarder for every set of names, addresses and inputs.    *)
(*                                                                         *)
(* What the statuses say about the listeners, and that old ones make way   *)
(* for new ones, holds for any number of editors: it rests on f.mu (Inv).  *)
(* That the listeners follow the store holds for one editor (Current):     *)
(* only then is every snapshot on its way the current configuration.       *)
(***************************************************************************)
EXTENDS Forwarder, TLAPS

InApply == {"stopping", "starting"}

(* f.mu is held by exactly the thread inside Apply. *)
LockHeld == \A t \in Thread : lock = t <=> pc[t] \in InApply

(* The store, every snapshot and what is applied name each forward once. *)
NamesOnce ==
    /\ UniqueKeys(forwards)
    /\ UniqueKeys(applied)
    /\ \A t \in Thread : UniqueKeys(snap[t])

(* The status st of each forward of S is true of the open listeners. *)
Settled(S, st) ==
    \A f \in S : /\ st[f.key] = "disabled" <=> ~ f.enabled
                 /\ f \in active <=> f.enabled /\ st[f.key] = ""

(* Inside Apply: the snapshot is the one recorded; once outdated listeners  *)
(* are stopped all listeners are of it, and what the start loop has passed  *)
(* is settled.                                                              *)
Progress ==
    \A t \in Thread :
        /\ pc[t] \in InApply => applied = snap[t]
        /\ pc[t] = "starting" => /\ active \subseteq snap[t]
                                 /\ todo \subseteq snap[t]
                                 /\ Settled(snap[t] \ todo, fresh)

Published == lock = Nobody /\ pc[Main] # "down" =>
                 active \subseteq applied /\ Settled(applied, status)

Inv == TypeOK /\ LockHeld /\ NamesOnce /\ Progress /\ Published

-----------------------------------------------------------------------------
(* The rules.                                                               *)

LEMMA UpsertedUnique ==
    ASSUME NEW S, NEW old, NEW e, UniqueKeys(S), CanUpsert(S, old, e)
    PROVE  UniqueKeys(Upserted(S, old, e))
BY DEF UniqueKeys, CanUpsert, Upserted, Without, HasKey

LEMMA WithoutUnique ==
    ASSUME NEW S, NEW k, UniqueKeys(S)
    PROVE  UniqueKeys(Without(S, k))
BY DEF UniqueKeys, Without

(* An edit turns a set of uniquely named forwards into another one          *)
(* (config.go:541-616).                                                     *)
LEMMA EditType ==
    ASSUME TypeOK, UniqueKeys(forwards), NEW a \in Admin, Edit(a)
    PROVE  \E S \in SUBSET Forward, edited \in SUBSET Forward :
               UniqueKeys(S) /\ Save(a, S, edited)
<1>1. CASE \E old \in Name \cup {NoKey}, f \in ForwardInput : UpsertForward(a, old, f)
  <2>1. PICK old \in Name \cup {NoKey}, f \in ForwardInput : UpsertForward(a, old, f)
    BY <1>1
  <2>2. f \in Forward
    BY ForwarderAssumption
  <2>3. Upserted(forwards, old, f) \in SUBSET Forward
    BY <2>2 DEF Upserted, Without, TypeOK
  <2>4. UniqueKeys(Upserted(forwards, old, f))
    BY <2>1, UpsertedUnique DEF UpsertForward
  <2> QED BY <2>1, <2>2, <2>3, <2>4 DEF UpsertForward
<1>2. CASE \E k \in Name : DeleteForward(a, k)
  <2>1. PICK k \in Name : DeleteForward(a, k)
    BY <1>2
  <2>2. Without(forwards, k) \in SUBSET Forward
    BY DEF Without, TypeOK
  <2>3. UniqueKeys(Without(forwards, k))
    BY WithoutUnique
  <2> QED BY <2>1, <2>2, <2>3 DEF DeleteForward
<1> QED BY <1>1, <1>2 DEF Edit

-----------------------------------------------------------------------------
(* Initial states.                                                          *)

LEMMA InitInv == Init => Inv
<1> SUFFICES ASSUME Init PROVE Inv
  OBVIOUS
<1>1. forwards \subseteq Forward /\ UniqueKeys(forwards)
  BY ForwarderAssumption DEF Init
<1>2. TypeOK
  BY <1>1, ForwarderAssumption DEF Init, TypeOK, Thread, None
<1>3. \A t \in Thread : pc[t] \in {"wait", "idle"}
  BY DEF Init
<1>4. LockHeld
  BY <1>3, ForwarderAssumption DEF Init, LockHeld, InApply
<1>5. NamesOnce
  BY <1>1 DEF Init, NamesOnce, UniqueKeys
<1>6. Progress
  BY <1>3 DEF Progress, InApply
<1>7. Published
  BY DEF Init, Published, Settled
<1> QED BY <1>2, <1>4, <1>5, <1>6, <1>7 DEF Inv

-----------------------------------------------------------------------------
(* Steps outside Apply: they leave the listeners, or wait for f.mu.         *)

LEMMA EditInv ==
    ASSUME Inv, NEW a \in Admin, Edit(a)
    PROVE  Inv'
<1>1. PICK S \in SUBSET Forward, edited \in SUBSET Forward :
          UniqueKeys(S) /\ Save(a, S, edited)
  BY EditType DEF Inv, NamesOnce
<1>2. a \in Thread /\ a # Main /\ Main \in Thread
  BY ForwarderAssumption DEF Thread
<1>3. /\ pc[a] = "idle" /\ pc' \in [Thread -> {"idle", "fire", "wait", "stopping",
                                      "starting", "report", "down"}]
      /\ pc'[a] \in {"idle", "fire"}
      /\ \A t \in Thread : t # a => pc'[t] = pc[t]
  BY <1>1, <1>2 DEF Save, Goto, Inv, TypeOK
<1>4. TypeOK'
  BY <1>1, <1>2, <1>3 DEF Save, Inv, TypeOK
<1>5. LockHeld'
  BY <1>1, <1>3 DEF Save, Inv, LockHeld, InApply
<1>6. NamesOnce'
  BY <1>1 DEF Save, Inv, NamesOnce
<1>7. Progress'
  BY <1>1, <1>3 DEF Save, Inv, Progress, InApply, Settled
<1>8. Published'
  BY <1>1, <1>2, <1>3 DEF Save, Inv, Published, Settled
<1> QED BY <1>4, <1>5, <1>6, <1>7, <1>8 DEF Inv

LEMMA HandlerInv ==
    ASSUME Inv, NEW a \in Admin, FireForwards(a) \/ Report(a)
    PROVE  Inv'
<1>2. a \in Thread /\ a # Main /\ Main \in Thread
  BY ForwarderAssumption DEF Thread
<1>1. /\ pc[a] \in {"fire", "report"} /\ pc'[a] \in {"wait", "idle"}
      /\ \A t \in Thread : t # a => pc'[t] = pc[t] /\ snap'[t] = snap[t]
      /\ UNCHANGED <<forwards, lock, active, status, todo, fresh, foreign,
                     applied>>
  BY <1>2 DEF FireForwards, Report, Goto, Inv, TypeOK, store
<1>3. TypeOK'
  BY <1>2 DEF FireForwards, Report, Goto, Inv, TypeOK, store
<1>4. LockHeld'
  BY <1>1 DEF Inv, LockHeld, InApply
<1>5. NamesOnce'
  BY <1>1, <1>2 DEF FireForwards, Report, Inv, TypeOK, NamesOnce
<1>6. Progress'
  BY <1>1 DEF Inv, Progress, InApply, Settled
<1>7. Published'
  BY <1>1, <1>2 DEF Inv, Published, Settled
<1> QED BY <1>3, <1>4, <1>5, <1>6, <1>7 DEF Inv

LEMMA LockInv ==
    ASSUME Inv, NEW t \in Thread, Lock(t)
    PROVE  Inv'
<1>1. \A u \in Thread : pc[u] \notin InApply
  BY ForwarderAssumption DEF Lock, Inv, LockHeld
<1>2. /\ pc'[t] = "stopping" /\ lock' = t /\ applied' = snap[t]
      /\ \A u \in Thread : u # t => pc'[u] = pc[u]
      /\ UNCHANGED <<forwards, snap>>
  BY DEF Lock, Goto, Inv, TypeOK, store
<1>3. TypeOK'
  BY DEF Lock, Goto, Inv, TypeOK, store
<1>4. LockHeld'
  BY <1>1, <1>2 DEF LockHeld, InApply
<1>5. NamesOnce'
  BY <1>2 DEF Inv, NamesOnce
<1>6. Progress'
  BY <1>1, <1>2 DEF Progress, InApply
<1>7. Published'
  BY <1>2, ForwarderAssumption DEF Published
<1> QED BY <1>3, <1>4, <1>5, <1>6, <1>7 DEF Inv

LEMMA OutsideInv ==
    ASSUME Inv, Shutdown \/ Machine \/ UNCHANGED vars
    PROVE  Inv'
<1> Main \in Thread /\ Nobody \notin Thread
  BY ForwarderAssumption DEF Thread
<1>1. CASE Shutdown
  <2>1. \A u \in Thread : pc[u] \notin InApply
    BY <1>1 DEF Shutdown, Inv, LockHeld
  <2>2. /\ pc'[Main] = "down" /\ \A u \in Thread : u # Main => pc'[u] = pc[u]
        /\ UNCHANGED <<forwards, snap, lock, applied>>
    BY <1>1 DEF Shutdown, Goto, Inv, TypeOK, store
  <2>3. TypeOK'
    BY <1>1 DEF Shutdown, Goto, Inv, TypeOK, store
  <2>4. LockHeld' /\ NamesOnce'
    BY <1>1, <2>1, <2>2 DEF Inv, LockHeld, InApply, NamesOnce, Shutdown
  <2>5. Progress' /\ Published'
    BY <2>1, <2>2 DEF Progress, Published, InApply
  <2> QED BY <2>3, <2>4, <2>5 DEF Inv
<1>2. ASSUME Machine \/ UNCHANGED vars
      PROVE  /\ TypeOK'
             /\ UNCHANGED <<forwards, pc, snap, lock, active, status, todo, fresh,
                            applied>>
  BY <1>2 DEF Machine, Grab, Release, Inv, TypeOK, Forward, vars,
              store
<1>3. ASSUME UNCHANGED <<forwards, pc, snap, lock, active, status, todo, fresh,
                         applied>>
      PROVE  LockHeld' /\ NamesOnce' /\ Progress' /\ Published'
  BY <1>3 DEF Inv, LockHeld, NamesOnce, Progress, Published, Settled
<1> QED BY <1>1, <1>2, <1>3 DEF Inv

-----------------------------------------------------------------------------
(* Steps of Apply.                                                          *)

LEMMA StopInv ==
    ASSUME Inv, NEW t \in Thread, Stop(t) \/ StopsDone(t)
    PROVE  Inv'
<1>1. lock = t /\ pc[t] = "stopping" /\ applied = snap[t]
      /\ \A u \in Thread : u # t => pc[u] \notin InApply
  <2>1. pc[t] = "stopping"
    BY DEF Stop, StopsDone
  <2> QED BY <2>1 DEF Inv, LockHeld, InApply, Progress
<1>2. UNCHANGED <<forwards, snap, lock, applied>> /\ lock # Nobody
      /\ pc'[t] \in InApply /\ \A u \in Thread : u # t => pc'[u] = pc[u]
  BY <1>1, ForwarderAssumption
     DEF Stop, StopsDone, Goto, Inv, TypeOK, store, InApply
<1>3. TypeOK'
  <2>1. CASE Stop(t)
    BY <2>1 DEF Stop, Inv, TypeOK, store
  <2>2. CASE StopsDone(t)
    <3>1. snap[t] \subseteq Forward /\ None \in [Name -> {"", "disabled", "error"}]
      BY DEF Inv, TypeOK, None
    <3> QED BY <2>2, <3>1 DEF StopsDone, Goto, Inv, TypeOK, store
  <2> QED BY <2>1, <2>2
<1>4. LockHeld' /\ NamesOnce' /\ Published'
  BY <1>1, <1>2 DEF Inv, LockHeld, NamesOnce, Published
<1>5. Progress'
  <2>1. CASE Stop(t)
    BY <1>1, <1>2, <2>1 DEF Stop, Progress, InApply
  <2>2. CASE StopsDone(t)
    <3>1. active' \subseteq snap[t] /\ todo' = snap[t]
      BY <2>2 DEF StopsDone, Outdated
    <3>2. Settled({}, fresh)'
      BY DEF Settled
    <3> QED BY <1>1, <1>2, <3>1, <3>2 DEF Progress, InApply
  <2> QED BY <2>1, <2>2
<1> QED BY <1>3, <1>4, <1>5 DEF Inv

(* The start loop gives the forward it has come to a status that is true of *)
(* the listeners from then on, whichever way it goes (forward.go:49-66).    *)
LEMMA SettleInv ==
    ASSUME Inv, NEW t \in Thread, NEW w \in todo,
           SkipDisabled(t, w) \/ KeepRunning(t, w) \/ Start(t, w) \/ StartFails(t, w)
    PROVE  Inv'
<1>1. PICK o \in {"", "disabled", "error"} : Settle(t, w, o)
  BY DEF SkipDisabled, KeepRunning, Start, StartFails
<1>2. /\ lock = t /\ pc[t] = "starting" /\ applied = snap[t]
      /\ active \subseteq snap[t] /\ todo \subseteq snap[t]
      /\ Settled(snap[t] \ todo, fresh)
      /\ \A u \in Thread : u # t => pc[u] \notin InApply
  BY <1>1 DEF Settle, Inv, LockHeld, InApply, Progress
<1>3. /\ UNCHANGED <<forwards, pc, snap, lock, applied>> /\ lock # Nobody
      /\ todo' = todo \ {w} /\ fresh' = [fresh EXCEPT ![w.key] = o]
  BY <1>1, <1>2, ForwarderAssumption DEF Settle, store
<1>4. w \in Forward /\ w \in snap[t] /\ w.key \in Name
  BY <1>2 DEF Inv, TypeOK, Forward
<1>5. active' \subseteq snap[t] /\ active' \subseteq active \cup {w}
      /\ active \subseteq active'
  BY <1>2, <1>4 DEF SkipDisabled, KeepRunning, Start, StartFails
<1>6. \A f \in snap[t] : f.key = w.key => f = w
  BY <1>4 DEF Inv, NamesOnce, UniqueKeys
<1>7. /\ o = "disabled" <=> ~ w.enabled
      /\ w \in active' <=> w.enabled /\ o = ""
  <2>0. fresh'[w.key] = o
    BY <1>3, <1>4 DEF Inv, TypeOK
  <2>1. CASE SkipDisabled(t, w)
    BY <2>0, <2>1, <1>4 DEF SkipDisabled, Settle, Inv, TypeOK
  <2>2. CASE KeepRunning(t, w)
    <3>1. w \in active
      BY <2>2, <1>2, <1>6 DEF KeepRunning, HasKey
    <3> QED BY <2>0, <2>2, <3>1, <1>4 DEF KeepRunning, Settle, Inv, TypeOK
  <2>3. CASE Start(t, w)
    BY <2>0, <2>3, <1>4 DEF Start, Settle, Inv, TypeOK
  <2>4. CASE StartFails(t, w)
    BY <2>0, <2>4, <1>4 DEF StartFails, HasKey, Settle, Inv, TypeOK
  <2> QED BY <2>1, <2>2, <2>3, <2>4
<1>8. Settled(snap[t] \ todo, fresh)'
  <2> SUFFICES ASSUME NEW f \in snap[t] \ todo'
               PROVE  /\ fresh'[f.key] = "disabled" <=> ~ f.enabled
                      /\ f \in active' <=> f.enabled /\ fresh'[f.key] = ""
    BY <1>3 DEF Settled
  <2>1. CASE f = w
    BY <2>1, <1>3, <1>4, <1>7 DEF Inv, TypeOK
  <2>2. CASE f # w
    <3>1. f \in snap[t] \ todo /\ f.key # w.key
      BY <2>2, <1>3, <1>6
    <3>2. f.key \in Name /\ fresh \in [Name -> {"", "disabled", "error"}]
      <4>1. snap[t] \subseteq Forward
        BY DEF Inv, TypeOK
      <4> QED BY <4>1 DEF Inv, TypeOK, Forward
    <3>3. fresh'[f.key] = fresh[f.key]
      BY <3>1, <3>2, <1>3
    <3> QED BY <3>1, <3>3, <2>2, <1>2, <1>5 DEF Settled
  <2> QED BY <2>1, <2>2
<1>9. TypeOK'
  <2>1. active' \subseteq {f \in Forward : f.enabled}
    BY <1>4 DEF SkipDisabled, KeepRunning, Start, StartFails, Inv, TypeOK
  <2>2. UNCHANGED <<forwards, mine, answer, status, foreign>>
    BY <1>1 DEF Settle, store
  <2> QED BY <2>1, <2>2, <1>3, <1>4 DEF Inv, TypeOK
<1>10. LockHeld' /\ NamesOnce' /\ Published'
  BY <1>3 DEF Inv, LockHeld, NamesOnce, Published
<1>11. Progress'
  BY <1>2, <1>3, <1>5, <1>8 DEF Progress, InApply, Settled
<1> QED BY <1>9, <1>10, <1>11 DEF Inv

LEMMA PublishInv ==
    ASSUME Inv, NEW t \in Thread, Publish(t)
    PROVE  Inv'
<1>1. lock = t /\ pc[t] = "starting" /\ applied = snap[t]
      /\ active \subseteq applied /\ Settled(applied, fresh)
      /\ \A u \in Thread : u # t => pc[u] \notin InApply
  BY DEF Publish, Inv, LockHeld, InApply, Progress
<1>2. /\ UNCHANGED <<forwards, active, applied>> /\ status' = fresh
      /\ lock' = Nobody /\ pc'[t] \in {"idle", "report"}
      /\ \A u \in Thread : u # t => pc'[u] = pc[u]
      /\ snap' = [snap EXCEPT ![t] = {}]
  BY DEF Publish, Goto, Inv, TypeOK, store
<1>3. TypeOK'
  BY DEF Publish, Goto, Inv, TypeOK, store, None
<1>4. LockHeld'
  BY <1>1, <1>2, ForwarderAssumption DEF LockHeld, InApply
<1>5. NamesOnce'
  BY <1>2 DEF Inv, TypeOK, NamesOnce, UniqueKeys
<1>6. Progress'
  BY <1>1, <1>2 DEF Progress, InApply
<1>7. Published'
  BY <1>1, <1>2 DEF Published, Settled
<1> QED BY <1>3, <1>4, <1>5, <1>6, <1>7 DEF Inv

LEMMA NextInv == Inv /\ [Next]_vars => Inv'
BY EditInv, HandlerInv, LockInv, StopInv, SettleInv, PublishInv, OutsideInv
   DEF Next, ApplyStep

-----------------------------------------------------------------------------
(* Any number of editors.                                                   *)

(* Every reachable state of the forwarder is well typed.                    *)
THEOREM TypeCorrect == Spec => []TypeOK
BY InitInv, NextInv, PTL DEF Spec, Inv

(* Whenever f.mu is free, the statuses and the open listeners describe the  *)
(* same snapshot, however edits, failing saves and binds, and the sockets   *)
(* of other processes interleave (Forwarder.Apply, Status).                 *)
THEOREM StatusesAreTrue == Spec => []StatusIsRuntime
<1>1. Inv => StatusIsRuntime
  BY DEF Inv, Published, Settled, StatusIsRuntime
<1> QED BY <1>1, InitInv, NextInv, PTL DEF Spec

(* When a forward comes to be opened, no listener of an older snapshot      *)
(* contends with it: Apply has closed every outdated one before it opens    *)
(* the first, and f.mu keeps other Applies out (Forwarder.Apply).           *)
THEOREM OldListenersAreGone == Spec => NotInItsOwnWay
<1>1. Inv => \A t \in Thread : pc[t] = "starting" => active \subseteq snap[t]
  BY DEF Inv, Progress
<1>2. Inv /\ [Next]_vars =>
          [\A t \in Thread : \A w \in todo \ todo' :
               pc[t] = "starting" /\ w.enabled /\ ~ HasKey(active, w.key) =>
                   \A l \in active : Contends(w, l) => l \in snap[t]]_vars
  BY <1>1
<1> QED BY <1>2, InitInv, NextInv, PTL DEF Spec, NotInItsOwnWay

-----------------------------------------------------------------------------
(* One editor.  Its next edit waits for the answer to the last one, so what *)
(* is on its way to Apply is always the current configuration.              *)

Current == \A t \in Thread : pc[t] \in {"wait"} \cup InApply => snap[t] = forwards

LEMMA EditStarts ==
    ASSUME NEW a \in Admin, Edit(a)
    PROVE  /\ pc[a] = "idle" /\ pc[Main] \in {"idle", "down"}
           /\ pc' = pc \/ pc' = [pc EXCEPT ![a] = "fire"]
           /\ UNCHANGED <<snap, active, applied>>
BY DEF Edit, UpsertForward, DeleteForward, Save, Serving, Goto

LEMMA CurrentInv ==
    ASSUME NEW ed, Admin = {ed}
    PROVE  /\ Init => Current
           /\ Inv /\ Current /\ [Next]_vars => Current'
<1>0. Thread = {ed, Main} /\ ed # Main
  BY ForwarderAssumption DEF Thread
<1>1. Init => Current
  BY <1>0 DEF Init, Current, InApply
<1> SUFFICES ASSUME Inv, Current, [Next]_vars PROVE Current'
  BY <1>1
<1>2. ASSUME Edit(ed) PROVE Current'
  <2>1. \A t \in Thread : pc'[t] \notin {"wait"} \cup InApply
    <3>1. /\ pc[ed] = "idle" /\ pc[Main] \in {"idle", "down"}
          /\ pc' = pc \/ pc' = [pc EXCEPT ![ed] = "fire"]
      BY <1>2, EditStarts
    <3>2. pc'[ed] \in {"idle", "fire"} /\ pc'[Main] \in {"idle", "down"}
      BY <1>0, <3>1 DEF Inv, TypeOK
    <3> QED BY <1>0, <3>2 DEF InApply
  <2> QED BY <2>1 DEF Current
<1>3. ASSUME FireForwards(ed) PROVE Current'
  BY <1>0, <1>3 DEF FireForwards, Goto, Current, Inv, TypeOK, store
<1>4. ASSUME Report(ed) PROVE Current'
  BY <1>0, <1>4 DEF Report, Goto, Current, InApply, Inv, TypeOK
<1>5. ASSUME NEW t \in Thread, Lock(t) \/ Stop(t) \/ StopsDone(t) PROVE Current'
  <2>1. /\ pc[t] \in {"wait"} \cup InApply /\ UNCHANGED <<forwards, snap>>
        /\ \A u \in Thread : u # t => pc'[u] = pc[u]
    BY <1>5 DEF Lock, Stop, StopsDone, Goto, InApply, Inv, TypeOK, store
  <2> QED BY <2>1 DEF Current
<1>6. ASSUME NEW t \in Thread, NEW w \in todo,
             SkipDisabled(t, w) \/ KeepRunning(t, w) \/ Start(t, w) \/ StartFails(t, w)
      PROVE  Current'
  <2>1. UNCHANGED <<forwards, snap, pc>>
    BY <1>6 DEF SkipDisabled, KeepRunning, Start, StartFails, Settle, store
  <2> QED BY <2>1 DEF Current
<1>7. ASSUME NEW t \in Thread, Publish(t) PROVE Current'
  <2>1. /\ pc'[t] \in {"idle", "report"} /\ UNCHANGED forwards
        /\ \A u \in Thread : u # t => pc'[u] = pc[u] /\ snap'[u] = snap[u]
    BY <1>7 DEF Publish, Goto, Inv, TypeOK, store
  <2> QED BY <2>1 DEF Current, InApply
<1>8. ASSUME Shutdown PROVE Current'
  BY <1>0, <1>8 DEF Shutdown, Goto, Current, InApply, Inv, TypeOK, store
<1>9. ASSUME Machine \/ UNCHANGED vars PROVE Current'
  <2>1. UNCHANGED <<forwards, snap, pc>>
    BY <1>9 DEF Machine, Grab, Release, vars, store
  <2> QED BY <2>1 DEF Current
<1> QED
  BY <1>2, <1>3, <1>4, <1>5, <1>6, <1>7, <1>8, <1>9 DEF Next, ApplyStep

(* With one editor the forwarder implements Reconciler: it takes up only    *)
(* configurations that are current, and between two of them it closes only  *)
(* listeners they do not want and opens only ones they do - whichever saves *)
(* and binds fail (Store.fireForwards, Forwarder.Apply).                    *)
THEOREM ForwarderReconciles ==
    ASSUME NEW ed, Admin = {ed}
    PROVE  Spec => Reconciles
<1>1. Init => Live!Init
  BY ForwarderAssumption DEF Init, Live!Init, Enabled
<1>2. Inv /\ Inv' /\ Current /\ [Next]_vars => [Live!Next]_Live!vars
  <2> SUFFICES ASSUME Inv, Inv', Current, [Next]_vars
               PROVE  [Live!Next]_Live!vars
    OBVIOUS
  <2> USE DEF Live!Next, Live!vars
  <2>1. ASSUME NEW a \in Admin, Edit(a) PROVE Live!Change
    BY <2>1, EditStarts DEF Live!Change, Inv, TypeOK, Enabled
  <2>2. ASSUME NEW a \in Admin, FireForwards(a) \/ Report(a)
        PROVE  UNCHANGED Live!vars
    BY <2>2 DEF FireForwards, Report, store, Enabled
  <2>3. ASSUME NEW t \in Thread, Lock(t) PROVE Live!Adopt
    BY <2>3 DEF Lock, Current, Live!Adopt, store, Enabled
  <2>4. ASSUME NEW t \in Thread, Stop(t) PROVE \E i \in active : Live!Close(i)
    <3>1. applied = snap[t]
      BY <2>4 DEF Stop, Inv, Progress, InApply
    <3>2. PICK l \in active : l \notin snap[t] /\ active' = active \ {l}
      BY <2>4 DEF Stop, Outdated
    <3>3. UNCHANGED <<forwards, applied>>
      BY <2>4 DEF Stop, store
    <3> QED BY <3>1, <3>2, <3>3 DEF Live!Close, Enabled
  <2>5. ASSUME NEW t \in Thread, StopsDone(t) \/ Publish(t)
        PROVE  UNCHANGED Live!vars
    BY <2>5 DEF StopsDone, Publish, store, Enabled
  <2>6. ASSUME NEW t \in Thread, NEW w \in todo,
               SkipDisabled(t, w) \/ KeepRunning(t, w) \/ StartFails(t, w)
        PROVE  UNCHANGED Live!vars
    BY <2>6 DEF SkipDisabled, KeepRunning, StartFails, Settle, store, Enabled
  <2>7. ASSUME NEW t \in Thread, NEW w \in todo, Start(t, w)
        PROVE  \E i \in Enabled(applied) : Live!Open(i)
    <3>1. w \in applied /\ w.enabled
      BY <2>7 DEF Start, Settle, Inv, Progress, InApply
    <3>2. active' = active \cup {w} /\ UNCHANGED <<forwards, applied>>
      BY <2>7 DEF Start, Settle, store
    <3> QED BY <3>1, <3>2 DEF Live!Open, Enabled
  <2>8. ASSUME Shutdown PROVE Live!ShutDown
    BY <2>8 DEF Shutdown, Live!ShutDown, store, Enabled
  <2>9. ASSUME Machine \/ UNCHANGED vars PROVE UNCHANGED Live!vars
    BY <2>9 DEF Machine, Grab, Release, vars, store, Enabled
  <2> QED
    BY <2>1, <2>2, <2>3, <2>4, <2>5, <2>6, <2>7, <2>8, <2>9 DEF Next, ApplyStep
<1> QED
  BY <1>1, <1>2, InitInv, NextInv, CurrentInv, PTL DEF Spec, Reconciles, Live!Spec

(* With one editor an edit never interrupts a forward it leaves as it is    *)
(* (the stop loop of Apply).                                                *)
THEOREM UntouchedNotInterrupted ==
    ASSUME NEW ed, Admin = {ed}
    PROVE  Spec => UntouchedKeepsRunning
<1> DEFINE Kept == \A l \in active \ active' : l \notin forwards \/ pc'[Main] = "down"
<1>1. Inv /\ Current /\ [Next]_vars => [Kept]_vars
  <2> SUFFICES ASSUME Inv, Current, Next PROVE Kept
    BY DEF vars
  <2>1. ASSUME NEW a \in Admin, Edit(a) \/ FireForwards(a) \/ Report(a)
        PROVE  active' = active
    BY <2>1, EditStarts DEF FireForwards, Report
  <2>2. ASSUME NEW t \in Thread, Stop(t) PROVE Kept
    BY <2>2 DEF Stop, Outdated, Current, InApply
  <2>3. ASSUME NEW t \in Thread, Lock(t) \/ StopsDone(t) \/ Publish(t)
        PROVE  active' = active
    BY <2>3 DEF Lock, StopsDone, Publish
  <2>4. ASSUME NEW t \in Thread, NEW w \in todo,
               SkipDisabled(t, w) \/ KeepRunning(t, w) \/ Start(t, w) \/ StartFails(t, w)
        PROVE  active \subseteq active'
    BY <2>4 DEF SkipDisabled, KeepRunning, Start, StartFails
  <2>5. ASSUME Shutdown PROVE pc'[Main] = "down"
    BY <2>5, ForwarderAssumption DEF Shutdown, Goto, Inv, TypeOK, Thread
  <2>6. ASSUME Machine PROVE active' = active
    BY <2>6 DEF Machine, Grab, Release
  <2> QED BY <2>1, <2>2, <2>3, <2>4, <2>5, <2>6 DEF Next, ApplyStep
<1> QED
  BY <1>1, InitInv, NextInv, CurrentInv, PTL DEF Spec, UntouchedKeepsRunning

(* Between the edit and the Apply that takes it up, a callback is on its    *)
(* way.                                                                     *)
Delivered == applied = forwards \/ \E t \in Thread : pc[t] \in {"fire", "wait"}

(* With one editor whose saves work, whenever nothing is on its way the     *)
(* configuration applied last is the one in the store (Store.Upsert and     *)
(* Delete fire the callback, Apply takes up what it is handed).             *)
THEOREM EditsTakeEffect ==
    ASSUME NEW ed, Admin = {ed}, SaveMayFail = FALSE
    PROVE  Spec => []RuntimeFollowsConfig
<1>0. Thread = {ed, Main} /\ ed # Main
  BY ForwarderAssumption DEF Thread
<1>1. Init => Delivered
  BY <1>0 DEF Init, Delivered
<1>2. Inv /\ Current /\ Delivered /\ [Next]_vars => Delivered'
  <2> SUFFICES ASSUME Inv, Current, Delivered, [Next]_vars PROVE Delivered'
    OBVIOUS
  <2>1. ASSUME Edit(ed) PROVE Delivered'
    <3>1. pc' = [pc EXCEPT ![ed] = "fire"]
      BY <2>1 DEF Edit, UpsertForward, DeleteForward, Save, Goto
    <3> QED BY <1>0, <3>1 DEF Delivered, Inv, TypeOK
  <2>2. ASSUME FireForwards(ed) PROVE Delivered'
    BY <1>0, <2>2 DEF FireForwards, Goto, Delivered, Inv, TypeOK
  <2>3. ASSUME NEW t \in Thread, Lock(t) PROVE Delivered'
    BY <2>3 DEF Lock, Current, Delivered, store
  <2>4. ASSUME NEW t \in Thread, pc[t] \notin {"fire", "wait"},
               UNCHANGED <<forwards, applied>>,
               \A u \in Thread : u # t => pc'[u] = pc[u]
        PROVE  Delivered'
    BY <2>4 DEF Delivered
  <2>5. ASSUME Report(ed) PROVE Delivered'
    BY <1>0, <2>4, <2>5 DEF Report, Goto, Inv, TypeOK
  <2>6. ASSUME NEW t \in Thread, Stop(t) \/ StopsDone(t) \/ Publish(t) PROVE Delivered'
    BY <2>4, <2>6 DEF Stop, StopsDone, Publish, Goto, Inv, TypeOK, store
  <2>7. ASSUME UNCHANGED <<forwards, applied, pc>> PROVE Delivered'
    BY <2>7 DEF Delivered
  <2>8. ASSUME NEW t \in Thread, NEW w \in todo,
               SkipDisabled(t, w) \/ KeepRunning(t, w) \/ Start(t, w) \/ StartFails(t, w)
        PROVE  Delivered'
    BY <2>7, <2>8 DEF SkipDisabled, KeepRunning, Start, StartFails, Settle, store
  <2>9. ASSUME Machine \/ UNCHANGED vars PROVE Delivered'
    BY <2>7, <2>9 DEF Machine, Grab, Release, vars, store
  <2>10. ASSUME Shutdown PROVE Delivered'
    BY <1>0, <2>4, <2>10 DEF Shutdown, Goto, Inv, TypeOK, store
  <2> QED
    BY <2>1, <2>2, <2>3, <2>5, <2>6, <2>8, <2>9, <2>10 DEF Next, ApplyStep
<1>3. Delivered => RuntimeFollowsConfig
  BY DEF Delivered, RuntimeFollowsConfig, Quiet
<1> QED
  BY <1>1, <1>2, <1>3, InitInv, NextInv, CurrentInv, PTL DEF Spec

-----------------------------------------------------------------------------
(* What the admin has been told.                                            *)

(* An edit under way has no answer yet, and nobody else applies meanwhile;  *)
(* by the time its handler reads the statuses they are those of the current *)
(* configuration, and stay so until the next edit of the one editor.        *)
Answered(ed) ==
    /\ mine[ed] \subseteq forwards
    /\ pc[ed] # "idle" => answer[ed] = "none" /\ pc[Main] \in {"idle", "down"}
    /\ pc[ed] = "report" => applied = forwards
    /\ answer[ed] = "saved" =>
          /\ pc[ed] = "idle" /\ pc[Main] \in {"idle", "down"}
          /\ applied = forwards
          /\ \A f \in mine[ed] : status[f.key] # "error"

(* An edit takes the saved forward into the store, or leaves none behind.   *)
LEMMA EditAnswers ==
    ASSUME NEW ed \in Admin, Inv, Edit(ed)
    PROVE  /\ mine'[ed] \subseteq forwards'
           /\ answer'[ed] \in {"none", "failed"}
           /\ pc'[ed] = "fire" => answer'[ed] = "none"
           /\ pc'[ed] \in {"idle", "fire"} /\ pc'[Main] \in {"idle", "down"}
<1>0. ed \in Thread /\ Main \in Thread /\ ed # Main
  BY ForwarderAssumption DEF Thread
<1>1. CASE \E old \in Name \cup {NoKey}, f \in ForwardInput : UpsertForward(ed, old, f)
  <2>1. PICK old, f : UpsertForward(ed, old, f)
    BY <1>1
  <2>2. Save(ed, Upserted(forwards, old, f), {f})
    BY <2>1 DEF UpsertForward
  <2>3. mine'[ed] = {f} /\ f \in forwards'
    BY <1>0, <2>2 DEF Save, Upserted, Inv, TypeOK
  <2> QED
    BY <1>0, <2>2, <2>3 DEF Save, Serving, Goto, Inv, TypeOK
<1>2. CASE \E k \in Name : DeleteForward(ed, k)
  <2>1. PICK k : DeleteForward(ed, k)
    BY <1>2
  <2>2. Save(ed, Without(forwards, k), {})
    BY <2>1 DEF DeleteForward
  <2>3. mine'[ed] = {}
    BY <1>0, <2>2 DEF Save, Inv, TypeOK
  <2> QED
    BY <1>0, <2>2, <2>3 DEF Save, Serving, Goto, Inv, TypeOK
<1> QED
  BY <1>1, <1>2 DEF Edit

(* With one editor, "Saved" means served, whichever saves fail: once        *)
(* nothing is on its way, a forward the admin was told is saved is open if  *)
(* it is enabled (saveForward reads the status after the callback).         *)
THEOREM SavedMeansServed ==
    ASSUME NEW ed, Admin = {ed}
    PROVE  Spec => []SavedIsServed
<1>0. Thread = {ed, Main} /\ ed # Main /\ ed \in Thread /\ Main \in Thread
  BY ForwarderAssumption DEF Thread
<1>1. Init => Answered(ed)
  BY <1>0 DEF Init, Answered
<1>2. Inv /\ Current /\ Answered(ed) /\ [Next]_vars => Answered(ed)'
  <2> SUFFICES ASSUME Inv, Current, Answered(ed), [Next]_vars PROVE Answered(ed)'
    OBVIOUS
  <2>1. ASSUME Edit(ed) PROVE Answered(ed)'
    BY <2>1, EditAnswers DEF Answered
  <2>2. ASSUME FireForwards(ed) PROVE Answered(ed)'
    BY <1>0, <2>2 DEF FireForwards, Goto, Answered, Inv, TypeOK, store
  <2>3. ASSUME Report(ed) PROVE Answered(ed)'
    BY <1>0, <2>3 DEF Report, Goto, Answered, Inv, TypeOK
  <2>4. ASSUME NEW t \in Thread, Lock(t) PROVE Answered(ed)'
    BY <1>0, <2>4 DEF Lock, Goto, Answered, Inv, TypeOK, store
  <2>5. ASSUME NEW t \in Thread, Stop(t) \/ StopsDone(t) PROVE Answered(ed)'
    BY <1>0, <2>5 DEF Stop, StopsDone, Goto, Answered, Inv, TypeOK, store
  <2>6. ASSUME UNCHANGED <<store, pc, applied, status>> PROVE Answered(ed)'
    BY <2>6 DEF Answered, store
  <2>7. ASSUME NEW t \in Thread, NEW w \in todo,
               SkipDisabled(t, w) \/ KeepRunning(t, w) \/ Start(t, w) \/ StartFails(t, w)
        PROVE  Answered(ed)'
    BY <2>6, <2>7 DEF SkipDisabled, KeepRunning, Start, StartFails, Settle
  <2>8. ASSUME Publish(ed) PROVE Answered(ed)'
    <3>1. applied = forwards
      BY <1>0, <2>8 DEF Publish, Inv, Progress, Current, InApply
    <3>2. pc'[ed] = "report" /\ pc'[Main] = pc[Main] /\ pc[ed] = "starting"
      BY <1>0, <2>8 DEF Publish, Goto, Inv, TypeOK
    <3>3. UNCHANGED <<store, applied>>
      BY <2>8 DEF Publish
    <3> QED
      BY <3>1, <3>2, <3>3 DEF Answered, store
  <2>9. ASSUME Publish(Main) PROVE Answered(ed)'
    <3>1. pc'[Main] = "idle" /\ pc'[ed] = pc[ed] /\ pc[Main] = "starting"
      BY <1>0, <2>9 DEF Publish, Goto, Inv, TypeOK
    <3>2. UNCHANGED <<store, applied>>
      BY <2>9 DEF Publish
    <3> QED
      BY <3>1, <3>2 DEF Answered, store
  <2>10. ASSUME Shutdown PROVE Answered(ed)'
    BY <1>0, <2>10 DEF Shutdown, Goto, Answered, Inv, TypeOK, store
  <2>11. ASSUME Machine \/ UNCHANGED vars PROVE Answered(ed)'
    BY <2>6, <2>11 DEF Machine, Grab, Release, vars
  <2> QED
    BY <1>0, <2>1, <2>2, <2>3, <2>4, <2>5, <2>7, <2>8, <2>9, <2>10, <2>11
    DEF Next, ApplyStep
<1>3. Inv /\ Answered(ed) => SavedIsServed
  <2> SUFFICES ASSUME Inv, Answered(ed), Quiet, answer[ed] = "saved",
                      NEW f \in mine[ed], f.enabled, f \in forwards
               PROVE  f \in active
    BY DEF SavedIsServed
  <2>1. pc[Main] = "idle" /\ lock = Nobody
    BY <1>0 DEF Quiet, Inv, LockHeld, InApply, TypeOK
  <2>2. f \in applied /\ Settled(applied, status)
    BY <2>1 DEF Answered, Inv, Published
  <2>3. status[f.key] \in {"", "disabled", "error"}
    BY DEF Inv, TypeOK, Forward
  <2> QED
    BY <2>2, <2>3 DEF Settled, Answered
<1> QED
  BY <1>1, <1>2, <1>3, InitInv, NextInv, CurrentInv, PTL DEF Spec
=============================================================================
