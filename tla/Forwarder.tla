------------------------------ MODULE Forwarder ------------------------------
(***************************************************************************)
(* The L4 forwards from the admin's click to the listening sockets: the    *)
(* forward half of the Store, the admin handlers that edit it, and         *)
(* Forwarder.Apply (forward.go), which reconciles the sockets with a       *)
(* snapshot.  Two locks order them.  s.mu covers one edit, or the copying  *)
(* of one snapshot; f.mu covers one Apply, or the copying of the statuses. *)
(* Nothing covers the way from one to the other: between the edit and its  *)
(* snapshot, and between the snapshot and its Apply, other handlers run.   *)
(*                                                                         *)
(* The sockets are shared with the rest of the machine, whose own binds    *)
(* and closes are the actions Grab and Release.                            *)
(***************************************************************************)
CONSTANTS
    Admin,          \* concurrent admin requests
    Main,           \* the goroutine of main: first Apply, Shutdown
    Name, Listen, Target,
    Clash,          \* pairs of listen addresses that one socket cannot share
    ForwardInput,   \* what the forward form submits
    Configs,        \* the forwards a start may find in the file
    SaveMayFail,    \* whether persistLocked may return an error
    NoKey,
    Nobody          \* f.mu is free

INSTANCE Rules

Thread == Admin \cup {Main}

(* target stands for the target and the PROXY-protocol flag.                *)
Forward == [key : Name, proto : {"tcp", "udp", "tcp+udp"}, listen : Listen,
            target : Target, enabled : BOOLEAN]

ASSUME ForwarderAssumption ==
    /\ NoKey \notin Name
    /\ Main \notin Admin
    /\ Nobody \notin Thread
    /\ Clash \subseteq Listen \X Listen
    /\ \A l \in Listen : <<l, l>> \in Clash
    /\ \A l, m \in Listen : <<l, m>> \in Clash => <<m, l>> \in Clash
    /\ ForwardInput \subseteq Forward
    /\ Configs \subseteq {S \in SUBSET Forward : UniqueKeys(S)}
    /\ SaveMayFail \in BOOLEAN

Socket     == {"tcp", "udp"} \X Listen
Sockets(f) == {q \in {"tcp", "udp"} : f.proto \in {q, "tcp+udp"}} \X {f.listen}
InConflict(s, t) == s[1] = t[1] /\ <<s[2], t[2]>> \in Clash

VARIABLES
    forwards,   \* s.forwards
    pc,         \* where each thread is
    snap,       \* the snapshot a thread hands to Apply
    mine,       \* the forward a thread has saved, or none when it deleted one
    answer,     \* what the admin was told
    lock,       \* holder of f.mu
    active,     \* f.active: the configuration each open listener runs
    status,     \* f.status; "" is both "running" and "no entry", as in Go
    todo,       \* forwards of the snapshot Apply has not come to yet
    fresh,      \* the status map Apply is building
    foreign,    \* sockets held outside the forwarder
    applied     \* the snapshot last taken up by Apply (history variable)

store == <<forwards, mine, answer>>
vars  == <<store, pc, snap, lock, active, status, todo, fresh, foreign, applied>>

None == [n \in Name |-> ""]

TypeOK ==
    /\ forwards \subseteq Forward
    /\ pc \in [Thread -> {"idle", "fire", "wait", "stopping", "starting",
                          "report", "down"}]
    /\ snap \in [Thread -> SUBSET Forward]
    /\ mine \in [Thread -> SUBSET Forward]
    /\ answer \in [Thread -> {"none", "saved", "unbound", "failed"}]
    /\ lock \in Thread \cup {Nobody}
    /\ active \subseteq {f \in Forward : f.enabled}
    /\ status \in [Name -> {"", "disabled", "error"}]
    /\ todo \subseteq Forward
    /\ fresh \in [Name -> {"", "disabled", "error"}]
    /\ foreign \subseteq Socket
    /\ applied \subseteq Forward

(* main applies what it has loaded before it starts the admin server.       *)
Init ==
    /\ forwards \in Configs
    /\ pc = [t \in Thread |-> IF t = Main THEN "wait" ELSE "idle"]
    /\ snap = [t \in Thread |-> IF t = Main THEN forwards ELSE {}]
    /\ mine = [t \in Thread |-> {}]
    /\ answer = [t \in Thread |-> "none"]
    /\ lock = Nobody
    /\ active = {}
    /\ status = None
    /\ todo = {} /\ fresh = None
    /\ foreign \in SUBSET Socket
    /\ applied = {}

Goto(t, label) == pc' = [pc EXCEPT ![t] = label]

Serving == pc[Main] \in {"idle", "down"}

-----------------------------------------------------------------------------
(* The admin handlers and the store.                                        *)

(* Under s.mu: check, change, persist.  When persisting fails the change    *)
(* stays in memory and no callback is fired.                                *)
Save(a, config, edited) ==
    /\ Serving
    /\ pc[a] = "idle"
    /\ forwards' = config
    /\ mine' = [mine EXCEPT ![a] = edited]
    /\ \/ /\ Goto(a, "fire")
          /\ answer' = [answer EXCEPT ![a] = "none"]
       \/ /\ SaveMayFail
          /\ answer' = [answer EXCEPT ![a] = "failed"]
          /\ pc' = pc
    /\ UNCHANGED <<snap, lock, active, status, todo, fresh, foreign, applied>>

UpsertForward(a, old, f) ==
    /\ ClaimFree(forwards, f)
    /\ CanUpsert(forwards, old, f)
    /\ Save(a, Upserted(forwards, old, f), {f})

(* Mutant: the callback is not fired after a delete. *)
DeleteForward_quiet(a, k) ==
    /\ HasKey(forwards, k)
    /\ Serving /\ pc[a] = "idle"
    /\ forwards' = Without(forwards, k)
    /\ UNCHANGED <<pc, mine, answer, snap, lock, active, status, todo, fresh,
                   foreign, applied>>

DeleteForward(a, k) ==
    /\ HasKey(forwards, k)
    /\ Save(a, Without(forwards, k), {})

(* fireForwards copies the forwards under s.mu, then calls Apply with the   *)
(* copy and without the lock.                                               *)
FireForwards(a) ==
    /\ pc[a] = "fire"
    /\ snap' = [snap EXCEPT ![a] = forwards]
    /\ Goto(a, "wait")
    /\ UNCHANGED <<store, lock, active, status, todo, fresh, foreign, applied>>

(* saveForward reads the status of the forward it saved; deleteForward      *)
(* does not (mine is empty).                                                *)
Report(a) ==
    /\ pc[a] = "report"
    /\ mine[a] # {} => lock = Nobody
    /\ answer' = [answer EXCEPT ![a] =
                     IF \E f \in mine[a] : status[f.key] = "error"
                     THEN "unbound" ELSE "saved"]
    /\ Goto(a, "idle")
    /\ UNCHANGED <<forwards, mine, snap, lock, active, status, todo, fresh,
                   foreign, applied>>

-----------------------------------------------------------------------------
(* Forwarder.Apply.                                                         *)

(* Mutant: Apply does not take f.mu. *)
Lock_shared(t) ==
    /\ pc[t] = "wait"
    /\ lock' = t
    /\ applied' = snap[t]
    /\ Goto(t, "stopping")
    /\ UNCHANGED <<store, snap, active, status, todo, fresh, foreign>>

Lock(t) ==
    /\ pc[t] = "wait"
    /\ lock = Nobody
    /\ lock' = t
    /\ applied' = snap[t]
    /\ Goto(t, "stopping")
    /\ UNCHANGED <<store, snap, active, status, todo, fresh, foreign>>

(* Mutant: every listener is restarted by every Apply. *)
Outdated_all(l, S) == TRUE

(* Gone, disabled or changed in any field that matters: as records, the     *)
(* listener's configuration is no longer one of the snapshot.               *)
Outdated(l, S) == l \notin S

Stop(t) ==
    /\ pc[t] = "stopping"
    /\ \E l \in active :
           /\ Outdated(l, snap[t])
           /\ active' = active \ {l}
    /\ UNCHANGED <<store, pc, snap, lock, status, todo, fresh, foreign, applied>>

(* Mutant: listeners are started before the outdated ones are stopped. *)
StopsDone_early(t) ==
    /\ pc[t] = "stopping"
    /\ todo' = snap[t]
    /\ fresh' = None
    /\ Goto(t, "starting")
    /\ UNCHANGED <<store, snap, lock, active, status, foreign, applied>>

StopsDone(t) ==
    /\ pc[t] = "stopping"
    /\ \A l \in active : ~ Outdated(l, snap[t])
    /\ todo' = snap[t]
    /\ fresh' = None
    /\ Goto(t, "starting")
    /\ UNCHANGED <<store, snap, lock, active, status, foreign, applied>>

(* The start loop comes to one forward and settles its status.  The code    *)
(* goes through the slice in order; any order is allowed here, so that of   *)
(* two forwards that want one socket either may get it.                     *)
Settle(t, w, outcome) ==
    /\ pc[t] = "starting"
    /\ w \in todo
    /\ todo' = todo \ {w}
    /\ fresh' = [fresh EXCEPT ![w.key] = outcome]
    /\ UNCHANGED <<store, pc, snap, lock, status, foreign, applied>>

SkipDisabled(t, w) ==
    /\ ~ w.enabled
    /\ Settle(t, w, "disabled")
    /\ UNCHANGED active

KeepRunning(t, w) ==
    /\ w.enabled
    /\ HasKey(active, w.key)
    /\ Settle(t, w, "")
    /\ UNCHANGED active

Held == foreign \cup UNION {Sockets(l) : l \in active}

Bindable(w) == \A s \in Sockets(w), h \in Held : ~ InConflict(s, h)

Start(t, w) ==
    /\ w.enabled
    /\ ~ HasKey(active, w.key)
    /\ Bindable(w)
    /\ Settle(t, w, "")
    /\ active' = active \cup {w}

(* Mutant: the error of startListener is logged and not recorded. *)
StartFails_silent(t, w) ==
    /\ w.enabled
    /\ ~ HasKey(active, w.key)
    /\ Settle(t, w, "")
    /\ UNCHANGED active

(* startListener may fail although the sockets are free: the address is not *)
(* this machine's, a port is privileged, descriptors are out, the listen    *)
(* host or a UDP target does not resolve.  A half-opened tcp+udp pair is    *)
(* closed.                                                                  *)
StartFails(t, w) ==
    /\ w.enabled
    /\ ~ HasKey(active, w.key)
    /\ Settle(t, w, "error")
    /\ UNCHANGED active

(* Mutant: a return from Apply that leaves f.mu locked. *)
Publish_locked(t) ==
    /\ pc[t] = "starting"
    /\ todo = {}
    /\ status' = fresh
    /\ Goto(t, IF t = Main THEN "idle" ELSE "report")
    /\ UNCHANGED <<store, snap, lock, active, todo, fresh, foreign, applied>>

Publish(t) ==
    /\ pc[t] = "starting"
    /\ todo = {}
    /\ status' = fresh
    /\ lock' = Nobody
    /\ Goto(t, IF t = Main THEN "idle" ELSE "report")
    /\ snap' = [snap EXCEPT ![t] = {}]
    /\ fresh' = None
    /\ UNCHANGED <<store, active, todo, foreign, applied>>

(* main, on SIGTERM.  The admin server is shut down only afterwards.        *)
Shutdown ==
    /\ pc[Main] = "idle"
    /\ lock = Nobody
    /\ active' = {}
    /\ Goto(Main, "down")
    /\ UNCHANGED <<store, snap, lock, status, todo, fresh, foreign, applied>>

-----------------------------------------------------------------------------
(* The rest of the machine.                                                 *)

Grab(s) ==
    /\ \A h \in Held : ~ InConflict(s, h)
    /\ foreign' = foreign \cup {s}
    /\ UNCHANGED <<store, pc, snap, lock, active, status, todo, fresh, applied>>

Release(s) ==
    /\ s \in foreign
    /\ foreign' = foreign \ {s}
    /\ UNCHANGED <<store, pc, snap, lock, active, status, todo, fresh, applied>>

-----------------------------------------------------------------------------
Edit(a) ==
    \/ \E old \in Name \cup {NoKey}, f \in ForwardInput : UpsertForward(a, old, f)
    \/ \E k \in Name : DeleteForward(a, k)

ApplyStep(t) ==
    \/ Stop(t) \/ StopsDone(t) \/ Publish(t)
    \/ \E w \in todo : SkipDisabled(t, w) \/ KeepRunning(t, w)
                       \/ Start(t, w) \/ StartFails(t, w)

Machine == \E s \in Socket : Grab(s) \/ Release(s)

Next ==
    \/ \E a \in Admin : Edit(a) \/ FireForwards(a) \/ Report(a)
    \/ \E t \in Thread : Lock(t) \/ ApplyStep(t)
    \/ Shutdown
    \/ Machine

Spec == Init /\ [][Next]_vars

(* The scheduler runs every goroutine that can run; sync.Mutex hands the    *)
(* lock to a goroutine that has waited long enough (its starvation mode),   *)
(* hence strong fairness where f.mu is taken.  Nobody has to click, and the *)
(* rest of the machine owes nothing.                                        *)
Fairness ==
    /\ \A a \in Admin : WF_vars(FireForwards(a)) /\ SF_vars(Report(a))
    /\ \A t \in Thread : SF_vars(Lock(t)) /\ WF_vars(ApplyStep(t))

FairSpec == Spec /\ Fairness

-----------------------------------------------------------------------------
(* Properties.                                                              *)

(* Whenever f.mu is free, the open listeners are exactly the enabled        *)
(* forwards of the last published snapshot that its statuses do not call    *)
(* failed; every other enabled forward of it is an error (Apply).           *)
StatusIsRuntime ==
    lock = Nobody /\ pc[Main] # "down" =>
        /\ active = {f \in applied : f.enabled /\ status[f.key] = ""}
        /\ \A f \in applied : status[f.key] = "disabled" <=> ~ f.enabled

(* The forwarder is never in its own way: when a forward comes to be opened *)
(* (tcp, udp or both), a listener that has one of its sockets is a forward  *)
(* of the same snapshot, not one that an edit has renamed, moved to another *)
(* address or deleted (Apply stops before it starts).                       *)
Contends(w, l) == \E s \in Sockets(w), h \in Sockets(l) : InConflict(s, h)
NotInItsOwnWay ==
    [][\A t \in Thread : \A w \in todo \ todo' :
           pc[t] = "starting" /\ w.enabled /\ ~ HasKey(active, w.key) =>
               \A l \in active : Contends(w, l) => l \in snap[t]]_vars

Quiet == \A t \in Thread : pc[t] = "idle"

(* When no edit is on its way, the last configuration applied is the one in *)
(* the store ("Admin edits take effect immediately, no restart").           *)
RuntimeFollowsConfig == Quiet => applied = forwards

(* One editor at a time, the forwarder is a reconciler: it takes up each     *)
(* configuration while it is the current one.                               *)
Enabled(S) == {f \in S : f.enabled}
Live == INSTANCE Reconciler WITH
            Item <- Forward, wanted <- Enabled(forwards),
            adopted <- Enabled(applied), running <- active
Reconciles == Live!Spec

(* An edit never interrupts a forward it leaves as it is: a listener is     *)
(* stopped only when the store no longer holds its forward as it runs.      *)
UntouchedKeepsRunning ==
    [][\A l \in active \ active' : l \notin forwards \/ pc'[Main] = "down"]_vars

(* What the admin is told: "Saved" means that the forward, if it is enabled *)
(* and nothing has been edited since, has its listener open.                *)
SavedIsServed ==
    Quiet => \A a \in Admin :
        answer[a] = "saved" =>
            \A f \in mine[a] : f.enabled /\ f \in forwards => f \in active

(* Every edit is answered, however many handlers contend for f.mu.          *)
EditsAnswered == \A a \in Admin : pc[a] = "fire" ~> pc[a] = "idle"
=============================================================================
