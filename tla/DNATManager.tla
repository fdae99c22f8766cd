----------------------------- MODULE DNATManager -----------------------------
(***************************************************************************)
(* The kernel DNAT rules from the admin's click to iptables: the DNAT half *)
(* of the Store and DNATManager.Apply (dnat.go).  Apply is a sequence of   *)
(* iptables commands, each of which may fail (another process holds the    *)
(* xtables lock, say); some failures end it, some cost one rule, some are  *)
(* ignored.  The kernel outlives the process: a crash leaves whatever the  *)
(* commands have built so far, and the next start begins from there.       *)
(***************************************************************************)
EXTENDS Naturals, Sequences

CONSTANTS
    Admin, Main,
    Name, Listen, Target,
    DNATInput,      \* what the DNAT form submits
    Configs,        \* the rules a start may find in the file
    SaveMayFail,    \* whether persistLocked may return an error
    MaxFailures,    \* bound: how many iptables commands fail in a behaviour
    NoKey, Nobody

INSTANCE Rules

Thread == Admin \cup {Main}

DNATRule == [key : Name, proto : {"tcp", "udp"}, listen : Listen,
             target : Target, snat : BOOLEAN, enabled : BOOLEAN]

ASSUME DNATAssumption ==
    /\ NoKey \notin Name
    /\ Main \notin Admin
    /\ Nobody \notin Thread
    /\ DNATInput \subseteq DNATRule
    /\ Configs \subseteq {S \in SUBSET DNATRule : UniqueKeys(S)}
    /\ SaveMayFail \in BOOLEAN
    /\ MaxFailures \in Nat

(* The two rules iptables is given for one of ours.                         *)
Redirect(r)   == [proto |-> r.proto, listen |-> r.listen, target |-> r.target]
Masquerade(r) == [proto |-> r.proto, target |-> r.target]

VARIABLES
    rules,      \* s.dnat
    saved,      \* the rules in the file
    pc,         \* where each thread is
    snap,       \* the snapshot a thread hands to Apply
    lock,       \* holder of m.mu
    step,       \* the command its holder has come to
    todo,       \* rules of the snapshot not yet applied
    current,    \* the rule whose MASQUERADE comes next
    fresh,      \* the status map Apply is building
    status,     \* m.status; "" is "no entry"
    chains,     \* which of our two chains exist
    jumps,      \* how often each built-in chain jumps to ours
    dnat,       \* INPROXY_DNAT
    post,       \* INPROXY_POST
    failures,   \* commands failed so far
    applied,    \* the snapshot last taken up, and
    clean,      \* whether no command has failed since, and
    swept,      \* whether the flush of INPROXY_DNAT has worked, and
    refused     \* whether the last edit of the rules could not be saved (history
                \* variables)

store   == <<rules, saved, snap, refused>>
ours    == <<status, fresh, todo, current, applied>>
kernel  == <<chains, jumps, dnat, post>>
faults  == <<failures, clean, swept>>
vars    == <<store, pc, lock, step, ours, kernel, faults>>

Built == {"dnat", "post"}
None  == [n \in Name |-> ""]
Label == {"newDnat", "newPost", "checkDnat", "jumpDnat", "checkPost", "jumpPost",
          "flushDnat", "flushPost", "rules", "masquerade", "publish",
          "clearDnat", "clearPost", "cleared", "idle"}

TypeOK ==
    /\ rules \subseteq DNATRule /\ saved \subseteq DNATRule
    /\ pc \in [Thread -> {"idle", "fire", "wait", "apply", "clearing", "down",
                          "off"}]
    /\ snap \in [Thread -> SUBSET DNATRule]
    /\ lock \in Thread \cup {Nobody}
    /\ step \in Label
    /\ \A t \in Thread : lock = t <=> pc[t] \in {"apply", "clearing"}
    /\ todo \subseteq DNATRule /\ current \subseteq DNATRule
    /\ fresh \in [Name -> {"", "active", "disabled", "error"}]
    /\ status \in [Name -> {"", "active", "disabled", "error"}]
    /\ chains \subseteq Built
    /\ jumps \in [Built -> Nat]
    /\ \A c \in Built : jumps[c] > 0 => c \in chains
    /\ dnat \in Seq([proto : {"tcp", "udp"}, listen : Listen, target : Target])
    /\ post \in Seq([proto : {"tcp", "udp"}, target : Target])
    /\ failures \in 0..MaxFailures
    /\ applied \subseteq DNATRule
    /\ clean \in BOOLEAN /\ swept \in BOOLEAN /\ refused \in BOOLEAN

Init ==
    /\ rules \in Configs /\ saved = rules
    /\ pc = [t \in Thread |-> IF t = Main THEN "off" ELSE "idle"]
    /\ snap = [t \in Thread |-> {}]
    /\ lock = Nobody /\ step = "idle"
    /\ todo = {} /\ current = {} /\ fresh = None /\ status = None
    /\ chains = {} /\ jumps = [c \in Built |-> 0]
    /\ dnat = <<>> /\ post = <<>>
    /\ failures = 0 /\ applied = {} /\ clean = TRUE /\ swept = FALSE
    /\ refused = FALSE

Goto(t, label) == pc' = [pc EXCEPT ![t] = label]

-----------------------------------------------------------------------------
(* The store and the process.                                               *)

Serving == pc[Main] \in {"idle", "clearing", "down"}

(* Under s.mu: check, change, persist; fireDNAT follows.  When persisting   *)
(* fails the change stays in memory and no callback is fired.               *)
Save(a, S) ==
    /\ Serving
    /\ pc[a] = "idle"
    /\ rules' = S
    /\ \/ saved' = S /\ refused' = FALSE /\ Goto(a, "fire")
       \/ SaveMayFail /\ refused' = TRUE /\ UNCHANGED <<saved, pc>>
    /\ UNCHANGED <<snap, lock, step, ours, kernel, faults>>

UpsertDNAT(a, old, d) ==
    /\ ClaimFree(rules, d)
    /\ CanUpsert(rules, old, d)
    /\ Save(a, Upserted(rules, old, d))

DeleteDNAT(a, k) ==
    /\ HasKey(rules, k)
    /\ Save(a, Without(rules, k))

(* An edit of another collection saves the whole of memory, a refused edit  *)
(* of the rules included, and fires the callback of its own collection.     *)
SaveOthers ==
    /\ Serving
    /\ saved' = rules
    /\ UNCHANGED <<rules, snap, refused, pc, lock, step, ours, kernel, faults>>

FireDNAT(a) ==
    /\ pc[a] = "fire"
    /\ snap' = [snap EXCEPT ![a] = rules]
    /\ Goto(a, "wait")
    /\ UNCHANGED <<rules, saved, refused, lock, step, ours, kernel, faults>>

(* The start of the process: main applies the rules it has loaded.          *)
Boot ==
    /\ pc[Main] = "off"
    /\ rules' = saved /\ refused' = FALSE
    /\ snap' = [snap EXCEPT ![Main] = saved]
    /\ status' = None
    /\ Goto(Main, "wait")
    /\ UNCHANGED <<saved, lock, step, todo, current, fresh, applied, kernel, faults>>

(* The end of the process, whatever its threads are doing.                  *)
Gone ==
    /\ pc' = [t \in Thread |-> IF t = Main THEN "off" ELSE "idle"]
    /\ snap' = [t \in Thread |-> {}]
    /\ lock' = Nobody /\ step' = "idle"
    /\ todo' = {} /\ current' = {} /\ fresh' = None
    /\ UNCHANGED <<rules, saved, refused, status, applied, kernel, faults>>

Crash == pc[Main] \notin {"off", "down"} /\ Gone

(* After SIGTERM: forwarder, DNAT and router are shut down first, then the  *)
(* admin server, which waits at most 10 s for its handlers.                 *)
Exit == pc[Main] = "down" /\ Gone

Reboot ==
    /\ pc[Main] = "off"
    /\ chains' = {} /\ jumps' = [c \in Built |-> 0]
    /\ dnat' = <<>> /\ post' = <<>>
    /\ UNCHANGED <<store, pc, lock, step, ours, faults>>

-----------------------------------------------------------------------------
(* iptables commands.                                                       *)

At(t, label) == lock = t /\ step = label
Go(label)    == step' = label

Works == UNCHANGED faults
Fails == /\ failures < MaxFailures
         /\ failures' = failures + 1
         /\ clean' = FALSE
         /\ UNCHANGED swept

Lock(t) ==
    /\ pc[t] = "wait"
    /\ lock = Nobody
    /\ lock' = t
    /\ Go("newDnat")
    /\ Goto(t, "apply")
    /\ todo' = snap[t] /\ applied' = snap[t]
    /\ snap' = [snap EXCEPT ![t] = {}]
    /\ fresh' = None /\ clean' = TRUE /\ swept' = FALSE
    /\ UNCHANGED <<rules, saved, refused, current, status, kernel, failures>>

(* ensureScaffolding: -N, its outcome ignored ("chain exists").             *)
NewChain(t, c, here, next) ==
    /\ At(t, here)
    /\ \/ Works /\ chains' = chains \cup {c}
       \/ Fails /\ UNCHANGED chains
    /\ Go(next)
    /\ UNCHANGED <<store, pc, lock, ours, jumps, dnat, post>>

(* ensureJump: -C looks for the jump; a failure of -C is taken for absence. *)
CheckJump(t, c, here, add, next) ==
    /\ At(t, here)
    /\ \/ Works /\ Go(IF jumps[c] > 0 THEN next ELSE add)
       \/ Fails /\ Go(add)
    /\ UNCHANGED <<store, pc, lock, ours, kernel>>

(* Mutant: Apply gives up without a status for the rules it has not applied. *)
AddJump_silent(t, c, here, next) ==
    /\ At(t, here)
    /\ \/ /\ Works
          /\ c \in chains
          /\ jumps' = [jumps EXCEPT ![c] = @ + 1]
          /\ Go(next)
          /\ UNCHANGED todo
       \/ /\ \/ Fails
             \/ Works /\ c \notin chains
          /\ UNCHANGED jumps
          /\ todo' = {}
          /\ Go("publish")
    /\ UNCHANGED <<store, pc, lock, current, fresh, status, applied, chains, dnat,
                   post>>

(* ... and -I or -A adds it, if the chain it leads to exists.  Without the  *)
(* jump there is no scaffolding, and Apply goes no further.                 *)
AddJump(t, c, here, next) ==
    /\ At(t, here)
    /\ \/ /\ Works
          /\ c \in chains
          /\ jumps' = [jumps EXCEPT ![c] = @ + 1]
          /\ Go(next)
          /\ UNCHANGED <<todo, fresh>>
       \/ /\ \/ Fails
             \/ Works /\ c \notin chains
          /\ UNCHANGED jumps
          /\ fresh' = [n \in Name |->
                          IF \E r \in todo : r.key = n /\ r.enabled THEN "error"
                          ELSE IF HasKey(todo, n) THEN "disabled" ELSE ""]
          /\ todo' = {}
          /\ Go("publish")
    /\ UNCHANGED <<store, pc, lock, current, status, applied, chains, dnat, post>>

(* Mutant: only the DNAT chain is flushed. *)
Flush_dnatOnly(t, c, here, next) ==
    /\ At(t, here)
    /\ dnat' = IF c = "dnat" THEN <<>> ELSE dnat
    /\ Go(next)
    /\ UNCHANGED <<store, pc, lock, ours, chains, jumps, post, faults>>

(* -F, its outcome ignored.                                                 *)
Flush(t, c, here, next) ==
    /\ At(t, here)
    /\ \/ /\ swept' = (swept \/ c = "dnat")
          /\ UNCHANGED <<failures, clean>>
          /\ dnat' = IF c = "dnat" /\ c \in chains THEN <<>> ELSE dnat
          /\ post' = IF c = "post" /\ c \in chains THEN <<>> ELSE post
       \/ /\ Fails
          /\ UNCHANGED <<dnat, post>>
    /\ Go(next)
    /\ UNCHANGED <<store, pc, lock, ours, chains, jumps>>

(* Mutant: the enabled flag is not looked at. *)
AppendRedirect_disabled(t, r) ==
    /\ At(t, "rules")
    /\ r \in todo
    /\ todo' = todo \ {r}
    /\ dnat' = Append(dnat, Redirect(r))
    /\ UNCHANGED <<store, pc, lock, step, current, fresh, status, applied, chains,
                   jumps, post, faults>>

(* applyRule: the redirection first, then the optional MASQUERADE.          *)
AppendRedirect(t, r) ==
    /\ At(t, "rules")
    /\ r \in todo
    /\ r.enabled
    /\ todo' = todo \ {r}
    /\ \/ /\ Works
          /\ dnat' = Append(dnat, Redirect(r))
          /\ IF r.snat
             THEN current' = {r} /\ Go("masquerade") /\ UNCHANGED fresh
             ELSE /\ fresh' = [fresh EXCEPT ![r.key] = "active"]
                  /\ UNCHANGED <<current, step>>
       \/ /\ Fails
          /\ fresh' = [fresh EXCEPT ![r.key] = "error"]
          /\ UNCHANGED <<dnat, current, step>>
    /\ UNCHANGED <<store, pc, lock, status, applied, chains, jumps, post>>

AppendMasquerade(t, r) ==
    /\ At(t, "masquerade")
    /\ r \in current
    /\ current' = {}
    /\ \/ /\ Works
          /\ post' = Append(post, Masquerade(r))
          /\ fresh' = [fresh EXCEPT ![r.key] = "active"]
       \/ /\ Fails
          /\ fresh' = [fresh EXCEPT ![r.key] = "error"]
          /\ UNCHANGED post
    /\ Go("rules")
    /\ UNCHANGED <<store, pc, lock, todo, status, applied, chains, jumps, dnat>>

SkipDisabled(t, r) ==
    /\ At(t, "rules")
    /\ r \in todo
    /\ ~ r.enabled
    /\ todo' = todo \ {r}
    /\ fresh' = [fresh EXCEPT ![r.key] = "disabled"]
    /\ UNCHANGED <<store, pc, lock, step, current, status, applied, kernel, faults>>

Publish(t) ==
    /\ At(t, "rules") \/ At(t, "publish")
    /\ todo = {}
    /\ status' = fresh
    /\ lock' = Nobody
    /\ Go("idle")
    /\ Goto(t, "idle")
    /\ fresh' = None
    /\ UNCHANGED <<store, todo, current, applied, kernel, faults>>

-----------------------------------------------------------------------------
(* Shutdown: both chains are flushed, under m.mu.                           *)

ShutdownLock ==
    /\ pc[Main] = "idle"
    /\ lock = Nobody
    /\ lock' = Main
    /\ Go("clearDnat")
    /\ Goto(Main, "clearing")
    /\ UNCHANGED <<store, ours, kernel, faults>>

ShutdownDone ==
    /\ At(Main, "cleared")
    /\ lock' = Nobody
    /\ Go("idle")
    /\ Goto(Main, "down")
    /\ UNCHANGED <<store, ours, kernel, faults>>

-----------------------------------------------------------------------------
Scaffold(t) ==
    \/ NewChain(t, "dnat", "newDnat", "newPost")
    \/ NewChain(t, "post", "newPost", "checkDnat")
    \/ CheckJump(t, "dnat", "checkDnat", "jumpDnat", "checkPost")
    \/ AddJump(t, "dnat", "jumpDnat", "checkPost")
    \/ CheckJump(t, "post", "checkPost", "jumpPost", "flushDnat")
    \/ AddJump(t, "post", "jumpPost", "flushDnat")

Rebuild(t) ==
    \/ Flush(t, "dnat", "flushDnat", "flushPost")
    \/ Flush(t, "post", "flushPost", "rules")
    \/ \E r \in todo : AppendRedirect(t, r) \/ SkipDisabled(t, r)
    \/ \E r \in current : AppendMasquerade(t, r)
    \/ Publish(t)

Clear ==
    \/ ShutdownLock
    \/ Flush(Main, "dnat", "clearDnat", "clearPost")
    \/ Flush(Main, "post", "clearPost", "cleared")
    \/ ShutdownDone

Edit(a) ==
    \/ \E old \in Name \cup {NoKey}, d \in DNATInput : UpsertDNAT(a, old, d)
    \/ \E k \in Name : DeleteDNAT(a, k)

Next ==
    \/ \E a \in Admin : Edit(a) \/ FireDNAT(a)
    \/ \E t \in Thread : Lock(t) \/ Scaffold(t) \/ Rebuild(t)
    \/ Clear
    \/ SaveOthers
    \/ Boot \/ Crash \/ Exit \/ Reboot

Spec == Init /\ [][Next]_vars

-----------------------------------------------------------------------------
(* Properties.                                                              *)

(* No Apply or Shutdown is under way, and none has cleared the rules.       *)
Settled == lock = Nobody /\ pc[Main] = "idle"

EnabledOf(S) == {r \in S : r.enabled}

(* The chains hold the rules of S, each once, and traffic reaches them.     *)
Exactly(S) ==
    /\ {dnat[i] : i \in DOMAIN dnat} = {Redirect(r) : r \in EnabledOf(S)}
    /\ \A i, j \in DOMAIN dnat : dnat[i] = dnat[j] => i = j
    /\ {post[i] : i \in DOMAIN post}
           = {Masquerade(r) : r \in {x \in EnabledOf(S) : x.snat}}
    /\ \A c \in Built : jumps[c] > 0

(* An Apply all of whose commands work leaves the kernel with exactly the   *)
(* enabled rules of its snapshot, whatever crashes, failed commands, earlier*)
(* runs or reboots have left there (the chains are flushed and rebuilt).    *)
CleanApplyIsExact == Settled /\ clean => Exactly(applied)

Installed(r) ==
    /\ \E i \in DOMAIN dnat : dnat[i] = Redirect(r)
    /\ r.snat => \E i \in DOMAIN post : post[i] = Masquerade(r)
    /\ \A c \in Built : jumps[c] > 0

(* What the page of DNAT rules shows of a rule of the store, if nothing     *)
(* moves between its two reads (Admin.dnatPage): a rule without a status is *)
(* called active.                                                           *)
Shown(r) ==
    CASE ~ r.enabled -> "disabled"
      [] r.enabled /\ status[r.key] = "" -> "active"
      [] OTHER -> status[r.key]

Quiet == \A t \in Thread : pc[t] = "idle"

(* A rule that was applied and is shown as active is in the kernel with all *)
(* its parts, and traffic is led to it, whatever other commands failed.     *)
AppliedIsInstalled ==
    Settled => \A r \in rules \cap applied : Shown(r) = "active" => Installed(r)

(* Of all the rules the page lists, one it shows as active is installed,    *)
(* with one exception: a rule that was never applied, because its edit is   *)
(* under way or could not be saved, has no status or an old one, and may be *)
(* called active all the same.                                              *)
ActiveIsInstalled ==
    Settled => \A r \in rules : Shown(r) = "active" =>
        Installed(r) \/ (r \notin applied /\ (refused \/ ~ Quiet))

(* With one editor, once its edits are through and the last of them could   *)
(* be saved, the rules last applied are those of the store, and the kernel  *)
(* holds exactly the enabled ones unless a command has failed.              *)
KernelFollowsConfig ==
    CleanApplyIsExact /\ (Quiet /\ ~ refused => applied = rules)

(* A rule that is disabled or gone redirects traffic after an Apply only if *)
(* that Apply could not flush the chain (whose outcome it ignores), or gave *)
(* up before - whichever other commands have failed ("our two chains are    *)
(* flushed and rebuilt every time").                                        *)
LeftoversExplained ==
    Settled /\ swept => \A i \in DOMAIN dnat :
        \E r \in EnabledOf(applied) : dnat[i] = Redirect(r)
=============================================================================
