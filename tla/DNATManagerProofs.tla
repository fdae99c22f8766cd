--------------------------- MODULE DNATManagerProofs ---------------------------
(***************************************************************************)
(* Proofs about DNATManager, for every set of rules and any number of      *)
(* failing commands: what the statuses say about the kernel, what a clean  *)
(* Apply leaves there and what a failed one can.  They rest on m.mu alone, *)
(* and hold for any number of editors; that the kernel, and the page,      *)
(* follow the store holds for one.                                         *)
(***************************************************************************)
EXTENDS DNATManager, SequenceTheorems, TLAPS

USE DNATAssumption

RedirectType   == [proto : {"tcp", "udp"}, listen : Listen, target : Target]
MasqueradeType == [proto : {"tcp", "udp"}, target : Target]

(* Commands of Apply, and those before the rules.                           *)
Scaffolding == {"newDnat", "newPost", "checkDnat", "jumpDnat", "checkPost", "jumpPost"}
Preparing   == Scaffolding \cup {"flushDnat", "flushPost"}
Applying    == Preparing \cup {"rules", "masquerade", "publish"}
Clearing    == {"clearDnat", "clearPost", "cleared"}

(* The store, its file, every snapshot and what is applied name each rule   *)
(* once.                                                                    *)
NamesOnce ==
    /\ UniqueKeys(rules) /\ UniqueKeys(saved) /\ UniqueKeys(applied)
    /\ \A t \in Thread : UniqueKeys(snap[t])

(* The holder of m.mu is inside the method whose command comes next.        *)
InSequence ==
    /\ step = "idle" => lock = Nobody
    /\ step \in Applying => lock \in Thread /\ pc[lock] = "apply"
    /\ step \in Clearing => lock = Main /\ pc[Main] = "clearing"

(* The admin server is up only when main has applied what it has loaded.    *)
MainFirst ==
    pc[Main] \in {"off", "wait", "apply"} => \A a \in Admin : pc[a] = "idle"

(* What Apply works on is the snapshot it has recorded.                     *)
OfSnapshot ==
    /\ step \in Preparing => todo = applied
    /\ todo \subseteq applied /\ current \subseteq applied
    /\ current # {} => step = "masquerade"
    /\ \A x, y \in current : x = y /\ x \notin todo

(* No chain but one that exists holds rules, and once the scaffolding is    *)
(* up traffic is led to both.                                               *)
ScaffoldingUp ==
    /\ dnat # <<>> => "dnat" \in chains
    /\ post # <<>> => "post" \in chains
    /\ step \in {"checkPost", "jumpPost", "flushDnat", "flushPost", "rules", "masquerade"}
           => jumps["dnat"] > 0
    /\ step \in {"flushDnat", "flushPost", "rules", "masquerade"} => jumps["post"] > 0

Holds(s, v) == \E i \in DOMAIN s : s[i] = v

(* The status st tells the truth about r.                                   *)
Told(r, st) ==
    r.enabled => st[r.key] # "" /\ (st[r.key] = "active" => Installed(r))

(* A rule that Apply is through with has a status that is true.             *)
Progress ==
    /\ step = "masquerade" =>
           \A r \in current : r.enabled /\ r.snat /\ Holds(dnat, Redirect(r))
    /\ step \in {"rules", "masquerade", "publish"} =>
           \A r \in applied \ (todo \cup current) : Told(r, fresh)

Published == Settled => \A r \in applied : Told(r, status)

(* Whatever redirects after a flush is of the snapshot.                     *)
Explained ==
    swept => \A i \in DOMAIN dnat : \E r \in EnabledOf(applied) : dnat[i] = Redirect(r)

Work == OfSnapshot /\ ScaffoldingUp /\ Progress /\ Published /\ Explained

Inv == TypeOK /\ NamesOnce /\ InSequence /\ MainFirst /\ Work

-----------------------------------------------------------------------------
(* Sequences of rules.                                                      *)

LEMMA AppendHolds ==
    ASSUME NEW S, NEW s \in Seq(S), NEW e \in S
    PROVE  /\ Append(s, e) \in Seq(S)
           /\ Append(s, e) # <<>>
           /\ \A v : Holds(Append(s, e), v) <=> v = e \/ Holds(s, v)
<1>1. /\ Append(s, e) \in Seq(S)
      /\ Len(Append(s, e)) = Len(s) + 1 /\ Len(s) \in Nat
      /\ \A i \in 1 .. Len(s) : Append(s, e)[i] = s[i]
      /\ Append(s, e)[Len(s) + 1] = e
    BY AppendProperties, LenProperties
<1>2. /\ DOMAIN s = 1 .. Len(s)
      /\ DOMAIN Append(s, e) = 1 .. (Len(s) + 1)
    BY <1>1, LenProperties
<1>3. Append(s, e) # <<>>
    BY <1>1, EmptySeq
<1>4. ASSUME NEW v PROVE Holds(Append(s, e), v) <=> v = e \/ Holds(s, v)
    <2>1. ASSUME Holds(Append(s, e), v) PROVE v = e \/ Holds(s, v)
        BY <1>1, <1>2, <2>1 DEF Holds
    <2>2. ASSUME v = e PROVE Holds(Append(s, e), v)
        BY <1>1, <1>2, <2>2 DEF Holds
    <2>3. ASSUME Holds(s, v) PROVE Holds(Append(s, e), v)
        BY <1>1, <1>2, <2>3 DEF Holds
    <2>. QED
        BY <2>1, <2>2, <2>3
<1>. QED
    BY <1>1, <1>3, <1>4

LEMMA RuleTypes ==
    ASSUME NEW r \in DNATRule
    PROVE  /\ Redirect(r) \in RedirectType /\ Masquerade(r) \in MasqueradeType
           /\ r.key \in Name /\ r.enabled \in BOOLEAN /\ r.snat \in BOOLEAN
BY DEF DNATRule, Redirect, Masquerade, RedirectType, MasqueradeType

(* The rules (config.go:642-717).                                           *)
LEMMA UpsertedUnique ==
    ASSUME NEW S, NEW old, NEW e, UniqueKeys(S), CanUpsert(S, old, e)
    PROVE  /\ UniqueKeys(Upserted(S, old, e))
           /\ UniqueClaims(S) /\ ClaimFree(S, e) => UniqueClaims(Upserted(S, old, e))
<1>1. UniqueKeys(Upserted(S, old, e))
    BY DEF UniqueKeys, CanUpsert, Upserted, Without, HasKey
<1>2. ASSUME UniqueClaims(S), ClaimFree(S, e) PROVE UniqueClaims(Upserted(S, old, e))
    <2>1. \A x \in Without(S, old) : x \in S /\ x.key # e.key
        BY DEF CanUpsert, Without, HasKey
    <2>2. \A x \in Without(S, old) : ~ SameClaim(x, e) /\ ~ SameClaim(e, x)
        BY <1>2, <2>1 DEF ClaimFree, SameClaim
    <2>. QED
        BY <1>2, <2>1, <2>2 DEF UniqueClaims, Upserted
<1>. QED
    BY <1>1, <1>2

LEMMA WithoutUnique ==
    ASSUME NEW S, NEW k, UniqueKeys(S)
    PROVE  /\ UniqueKeys(Without(S, k))
           /\ UniqueClaims(S) => UniqueClaims(Without(S, k))
BY DEF UniqueKeys, UniqueClaims, Without

(* An edit saves another set of uniquely named rules.                       *)
LEMMA EditSaves ==
    ASSUME TypeOK, NamesOnce, NEW a \in Admin, Edit(a)
    PROVE  \E S \in SUBSET DNATRule :
               /\ UniqueKeys(S) /\ (UniqueClaims(rules) => UniqueClaims(S))
               /\ Save(a, S)
<1>1. CASE \E old \in Name \cup {NoKey}, d \in DNATInput : UpsertDNAT(a, old, d)
    <2>1. PICK old \in Name \cup {NoKey}, d \in DNATInput : UpsertDNAT(a, old, d)
        BY <1>1
    <2>2. Upserted(rules, old, d) \in SUBSET DNATRule
        BY DEF Upserted, Without, TypeOK
    <2>3. /\ UniqueKeys(Upserted(rules, old, d))
          /\ UniqueClaims(rules) => UniqueClaims(Upserted(rules, old, d))
        BY <2>1, UpsertedUnique DEF UpsertDNAT, NamesOnce
    <2>. QED
        BY <2>1, <2>2, <2>3 DEF UpsertDNAT
<1>2. CASE \E k \in Name : DeleteDNAT(a, k)
    <2>1. PICK k \in Name : DeleteDNAT(a, k)
        BY <1>2
    <2>2. Without(rules, k) \in SUBSET DNATRule
        BY DEF Without, TypeOK
    <2>3. /\ UniqueKeys(Without(rules, k))
          /\ UniqueClaims(rules) => UniqueClaims(Without(rules, k))
        BY WithoutUnique DEF NamesOnce
    <2>. QED
        BY <2>1, <2>2, <2>3 DEF DeleteDNAT
<1>. QED
    BY <1>1, <1>2 DEF Edit
-----------------------------------------------------------------------------
(* Types.                                                                   *)

LEMMA Threads == Main \in Thread /\ Nobody \notin Thread /\ \A a \in Admin : a \in Thread
BY DEF Thread

(* The four parts of TypeOK.                                                *)
StoreTypes ==
    /\ rules \subseteq DNATRule /\ saved \subseteq DNATRule /\ refused \in BOOLEAN
    /\ pc \in [Thread -> {"idle", "fire", "wait", "apply", "clearing", "down", "off"}]
    /\ snap \in [Thread -> SUBSET DNATRule]
    /\ lock \in Thread \cup {Nobody}
    /\ step \in Label
    /\ \A t \in Thread : lock = t <=> pc[t] \in {"apply", "clearing"}

StatusMap == [Name -> {"", "active", "disabled", "error"}]

ApplyTypes ==
    /\ todo \subseteq DNATRule /\ current \subseteq DNATRule
    /\ fresh \in StatusMap /\ status \in StatusMap
    /\ applied \subseteq DNATRule

KernelTypes ==
    /\ chains \subseteq Built
    /\ jumps \in [Built -> Nat]
    /\ \A c \in Built : jumps[c] > 0 => c \in chains
    /\ dnat \in Seq(RedirectType) /\ post \in Seq(MasqueradeType)

FaultTypes == failures \in 0 .. MaxFailures /\ clean \in BOOLEAN /\ swept \in BOOLEAN

LEMMA TypeParts == TypeOK <=> StoreTypes /\ ApplyTypes /\ KernelTypes /\ FaultTypes
BY DEF TypeOK, StoreTypes, ApplyTypes, StatusMap, KernelTypes, RedirectType,
       MasqueradeType, FaultTypes

LEMMA InitTypes == Init => TypeOK
<1>. SUFFICES ASSUME Init PROVE TypeOK
    OBVIOUS
<1>1. StoreTypes
    <2>1. /\ pc \in [Thread -> {"idle", "fire", "wait", "apply", "clearing", "down", "off"}]
          /\ snap \in [Thread -> SUBSET DNATRule]
          /\ \A t \in Thread : pc[t] \in {"idle", "off"} /\ lock # t
        BY Threads DEF Init
    <2>. QED
        BY <2>1 DEF Init, StoreTypes, Label
<1>2. ApplyTypes
    BY DEF Init, ApplyTypes, StatusMap, None
<1>3. KernelTypes
    <2>1. jumps \in [Built -> Nat] /\ \A c \in Built : jumps[c] = 0
        BY DEF Init
    <2>. QED
        BY <2>1 DEF Init, KernelTypes
<1>4. failures \in 0 .. MaxFailures
    BY DEF Init
<1>5. FaultTypes
    BY <1>4 DEF Init, FaultTypes
<1>. QED
    BY <1>1, <1>2, <1>3, <1>5, TypeParts

(* A command works or fails.                                                *)
LEMMA CommandFaults == ASSUME FaultTypes, Works \/ Fails PROVE FaultTypes'
<1>1. CASE Works
    BY <1>1 DEF Works, FaultTypes, faults
<1>2. CASE Fails
    <2>1. failures \in 0 .. MaxFailures /\ failures < MaxFailures /\ failures' = failures + 1
        BY <1>2 DEF Fails, FaultTypes
    <2>2. failures' \in 0 .. MaxFailures
        BY <2>1
    <2>3. clean' \in BOOLEAN /\ swept' \in BOOLEAN
        BY <1>2 DEF Fails, FaultTypes
    <2>. QED
        BY <2>2, <2>3 DEF FaultTypes
<1>. QED
    BY <1>1, <1>2

LEMMA NextTypes ==
    ASSUME TypeOK, NamesOnce, [Next]_vars
    PROVE  TypeOK'
<1>. USE Threads DEF store, ours, kernel, faults, Goto, Go, At
<1>0. StoreTypes /\ ApplyTypes /\ KernelTypes /\ FaultTypes
    BY TypeParts
<1>. DEFINE OK == StoreTypes' /\ ApplyTypes' /\ KernelTypes' /\ FaultTypes'
<1>1. ASSUME NEW a \in Admin, Edit(a) PROVE OK
    <2>. PICK S \in SUBSET DNATRule : Save(a, S)
        BY <1>1, EditSaves
    <2>1. StoreTypes'
        BY <1>0 DEF Save, StoreTypes
    <2>2. ApplyTypes' /\ KernelTypes' /\ FaultTypes'
        BY <1>0 DEF Save, ApplyTypes, KernelTypes, FaultTypes
    <2>. QED
        BY <2>1, <2>2
<1>2. ASSUME NEW a \in Admin, FireDNAT(a)
      PROVE  OK
    <2>1. StoreTypes'
        BY <1>0, <1>2 DEF FireDNAT, StoreTypes
    <2>2. ApplyTypes'
        BY <1>0, <1>2 DEF FireDNAT, ApplyTypes
    <2>3. KernelTypes'
        BY <1>0, <1>2 DEF FireDNAT, KernelTypes
    <2>4. FaultTypes'
        BY <1>0, <1>2 DEF FireDNAT, FaultTypes
    <2>. QED
        BY <2>1, <2>2, <2>3, <2>4
<1>3. ASSUME NEW t \in Thread, Lock(t)
      PROVE  OK
    <2>1. StoreTypes'
        BY <1>0, <1>3 DEF Lock, StoreTypes, Label
    <2>2. ApplyTypes'
        BY <1>0, <1>3 DEF Lock, ApplyTypes, StatusMap, None, StoreTypes
    <2>3. KernelTypes'
        BY <1>0, <1>3 DEF Lock, KernelTypes
    <2>4. FaultTypes'
        BY <1>0, <1>3 DEF Lock, FaultTypes
    <2>. QED
        BY <2>1, <2>2, <2>3, <2>4
<1>4. ASSUME NEW t \in Thread, NEW c \in Built, NEW here \in Label, NEW next \in Label,
             NewChain(t, c, here, next)
      PROVE  OK
    <2>1. StoreTypes'
        BY <1>0, <1>4 DEF NewChain, StoreTypes
    <2>2. ApplyTypes'
        BY <1>0, <1>4 DEF NewChain, ApplyTypes
    <2>3. KernelTypes'
        BY <1>0, <1>4 DEF NewChain, KernelTypes
    <2>4. FaultTypes'
        BY <1>0, <1>4, CommandFaults DEF NewChain
    <2>. QED
        BY <2>1, <2>2, <2>3, <2>4
<1>5. ASSUME NEW t \in Thread, NEW c \in Built, NEW here \in Label, NEW next \in Label,
             NEW add \in Label, CheckJump(t, c, here, add, next)
      PROVE  OK
    <2>1. StoreTypes'
        BY <1>0, <1>5 DEF CheckJump, StoreTypes
    <2>2. ApplyTypes'
        BY <1>0, <1>5 DEF CheckJump, ApplyTypes
    <2>3. KernelTypes'
        BY <1>0, <1>5 DEF CheckJump, KernelTypes
    <2>4. FaultTypes'
        BY <1>0, <1>5, CommandFaults DEF CheckJump
    <2>. QED
        BY <2>1, <2>2, <2>3, <2>4
<1>6. ASSUME NEW t \in Thread, NEW c \in Built, NEW here \in Label, NEW next \in Label,
             AddJump(t, c, here, next)
      PROVE  OK
    <2>1. StoreTypes'
        BY <1>0, <1>6 DEF AddJump, StoreTypes, Label
    <2>2. ApplyTypes'
        BY <1>0, <1>6 DEF AddJump, ApplyTypes, StatusMap
    <2>3. KernelTypes'
        <3>1. CASE UNCHANGED jumps
            BY <1>0, <1>6, <3>1 DEF AddJump, KernelTypes
        <3>2. CASE c \in chains /\ jumps' = [jumps EXCEPT ![c] = @ + 1]
            <4>1. jumps' \in [Built -> Nat]
                BY <1>0, <3>2 DEF KernelTypes
            <4>2. \A d \in Built : d # c => jumps'[d] = jumps[d]
                BY <1>0, <3>2 DEF KernelTypes
            <4>. QED
                BY <1>0, <1>6, <3>2, <4>1, <4>2 DEF AddJump, KernelTypes
        <3>. QED
            BY <1>6, <3>1, <3>2 DEF AddJump
    <2>4. FaultTypes'
        BY <1>0, <1>6, CommandFaults DEF AddJump
    <2>. QED
        BY <2>1, <2>2, <2>3, <2>4
<1>7. ASSUME NEW t \in Thread, NEW c \in Built, NEW here \in Label, NEW next \in Label,
             Flush(t, c, here, next)
      PROVE  OK
    <2>1. StoreTypes'
        BY <1>0, <1>7 DEF Flush, StoreTypes
    <2>2. ApplyTypes'
        BY <1>0, <1>7 DEF Flush, ApplyTypes
    <2>3. KernelTypes'
        <3>1. dnat' \in {dnat, <<>>} /\ post' \in {post, <<>>}
            BY <1>7 DEF Flush
        <3>2. dnat' \in Seq(RedirectType) /\ post' \in Seq(MasqueradeType)
            BY <1>0, <3>1, EmptySeq DEF KernelTypes
        <3>. QED
            BY <1>0, <1>7, <3>2 DEF Flush, KernelTypes
    <2>4. ASSUME Fails PROVE FaultTypes'
        BY <1>0, <2>4, CommandFaults
    <2>5. ASSUME ~ Fails PROVE FaultTypes'
        <3>1. /\ failures' = failures /\ clean' = clean
              /\ swept' = (swept \/ c = "dnat")
            BY <1>7, <2>5 DEF Flush
        <3>2. swept' \in BOOLEAN
            BY <3>1
        <3>. QED
            BY <1>0, <3>1, <3>2 DEF FaultTypes
    <2>. QED
        BY <2>1, <2>2, <2>3, <2>4, <2>5
<1>8. ASSUME NEW t \in Thread, NEW r \in todo, AppendRedirect(t, r)
      PROVE  OK
    <2>1. StoreTypes'
        BY <1>0, <1>8 DEF AppendRedirect, StoreTypes, Label
    <2>2. ApplyTypes'
        BY <1>0, <1>8 DEF AppendRedirect, ApplyTypes, StatusMap
    <2>3. KernelTypes'
        <3>1. dnat' \in Seq(RedirectType)
            <4>1. r \in DNATRule /\ dnat' \in {dnat, Append(dnat, Redirect(r))}
                BY <1>0, <1>8 DEF AppendRedirect, ApplyTypes
            <4>2. dnat \in Seq(RedirectType) /\ Redirect(r) \in RedirectType
                BY <1>0, <4>1, RuleTypes DEF KernelTypes
            <4>3. Append(dnat, Redirect(r)) \in Seq(RedirectType)
                BY <4>2, AppendHolds
            <4>. QED
                BY <4>1, <4>2, <4>3
        <3>. QED
            BY <1>0, <1>8, <3>1 DEF AppendRedirect, KernelTypes
    <2>4. FaultTypes'
        BY <1>0, <1>8, CommandFaults DEF AppendRedirect
    <2>. QED
        BY <2>1, <2>2, <2>3, <2>4
<1>9. ASSUME NEW t \in Thread, NEW r \in todo, SkipDisabled(t, r)
      PROVE  OK
    <2>1. StoreTypes'
        BY <1>0, <1>9 DEF SkipDisabled, StoreTypes
    <2>2. ApplyTypes'
        BY <1>0, <1>9 DEF SkipDisabled, ApplyTypes, StatusMap
    <2>3. KernelTypes'
        BY <1>0, <1>9 DEF SkipDisabled, KernelTypes
    <2>4. FaultTypes'
        BY <1>0, <1>9 DEF SkipDisabled, FaultTypes
    <2>. QED
        BY <2>1, <2>2, <2>3, <2>4
<1>10. ASSUME NEW t \in Thread, NEW r \in current, AppendMasquerade(t, r)
      PROVE  OK
    <2>1. StoreTypes'
        BY <1>0, <1>10 DEF AppendMasquerade, StoreTypes, Label
    <2>2. ApplyTypes'
        BY <1>0, <1>10 DEF AppendMasquerade, ApplyTypes, StatusMap
    <2>3. KernelTypes'
        <3>1. post' \in Seq(MasqueradeType)
            <4>1. r \in DNATRule /\ post' \in {post, Append(post, Masquerade(r))}
                BY <1>0, <1>10 DEF AppendMasquerade, ApplyTypes
            <4>2. post \in Seq(MasqueradeType) /\ Masquerade(r) \in MasqueradeType
                BY <1>0, <4>1, RuleTypes DEF KernelTypes
            <4>3. Append(post, Masquerade(r)) \in Seq(MasqueradeType)
                BY <4>2, AppendHolds
            <4>. QED
                BY <4>1, <4>2, <4>3
        <3>. QED
            BY <1>0, <1>10, <3>1 DEF AppendMasquerade, KernelTypes
    <2>4. FaultTypes'
        BY <1>0, <1>10, CommandFaults DEF AppendMasquerade
    <2>. QED
        BY <2>1, <2>2, <2>3, <2>4
<1>11. ASSUME NEW t \in Thread, Publish(t)
      PROVE  OK
    <2>1. StoreTypes'
        BY <1>0, <1>11 DEF Publish, StoreTypes, Label
    <2>2. ApplyTypes'
        BY <1>0, <1>11 DEF Publish, ApplyTypes, StatusMap, None
    <2>3. KernelTypes'
        BY <1>0, <1>11 DEF Publish, KernelTypes
    <2>4. FaultTypes'
        BY <1>0, <1>11 DEF Publish, FaultTypes
    <2>. QED
        BY <2>1, <2>2, <2>3, <2>4
<1>12. ASSUME ShutdownLock \/ ShutdownDone
      PROVE  OK
    <2>1. StoreTypes'
        BY <1>0, <1>12 DEF ShutdownLock, ShutdownDone, StoreTypes, Label
    <2>2. ApplyTypes'
        BY <1>0, <1>12 DEF ShutdownLock, ShutdownDone, ApplyTypes
    <2>3. KernelTypes'
        BY <1>0, <1>12 DEF ShutdownLock, ShutdownDone, KernelTypes
    <2>4. FaultTypes'
        BY <1>0, <1>12 DEF ShutdownLock, ShutdownDone, FaultTypes
    <2>. QED
        BY <2>1, <2>2, <2>3, <2>4
<1>13. ASSUME Boot
      PROVE  OK
    <2>1. StoreTypes'
        BY <1>0, <1>13 DEF Boot, StoreTypes
    <2>2. ApplyTypes'
        BY <1>0, <1>13 DEF Boot, ApplyTypes, StatusMap, None
    <2>3. KernelTypes'
        BY <1>0, <1>13 DEF Boot, KernelTypes
    <2>4. FaultTypes'
        BY <1>0, <1>13 DEF Boot, FaultTypes
    <2>. QED
        BY <2>1, <2>2, <2>3, <2>4
<1>14. ASSUME Gone PROVE OK
    <2>1. /\ pc' \in [Thread -> {"idle", "fire", "wait", "apply", "clearing", "down", "off"}]
          /\ snap' \in [Thread -> SUBSET DNATRule]
          /\ \A t \in Thread : pc'[t] \in {"idle", "off"} /\ lock' # t
        BY <1>14 DEF Gone
    <2>2. StoreTypes'
        BY <1>0, <1>14, <2>1 DEF Gone, StoreTypes, Label
    <2>3. ApplyTypes'
        BY <1>0, <1>14 DEF Gone, ApplyTypes, StatusMap, None
    <2>4. KernelTypes' /\ FaultTypes'
        BY <1>0, <1>14 DEF Gone, KernelTypes, FaultTypes
    <2>. QED
        BY <2>2, <2>3, <2>4
<1>15. ASSUME Reboot
      PROVE  OK
    <2>1. StoreTypes'
        BY <1>0, <1>15 DEF Reboot, StoreTypes
    <2>2. ApplyTypes'
        BY <1>0, <1>15 DEF Reboot, ApplyTypes
    <2>3. KernelTypes'
        <3>1. jumps' \in [Built -> Nat] /\ \A c \in Built : jumps'[c] = 0
            BY <1>15 DEF Reboot
        <3>. QED
            BY <1>15, <3>1 DEF Reboot, KernelTypes
    <2>4. FaultTypes'
        BY <1>0, <1>15 DEF Reboot, FaultTypes
    <2>. QED
        BY <2>1, <2>2, <2>3, <2>4
<1>16. ASSUME UNCHANGED vars \/ SaveOthers
      PROVE  OK
    <2>1. StoreTypes'
        BY <1>0, <1>16 DEF vars, SaveOthers, StoreTypes
    <2>2. ApplyTypes'
        BY <1>0, <1>16 DEF vars, SaveOthers, ApplyTypes
    <2>3. KernelTypes'
        BY <1>0, <1>16 DEF vars, SaveOthers, KernelTypes
    <2>4. FaultTypes'
        BY <1>0, <1>16 DEF vars, SaveOthers, FaultTypes
    <2>. QED
        BY <2>1, <2>2, <2>3, <2>4
<1>. HIDE DEF OK, Go, Goto, At
<1>17. ASSUME NEW t \in Thread, Scaffold(t) PROVE OK
    BY <1>4, <1>5, <1>6, <1>17 DEF Scaffold, Label, Built
<1>18. ASSUME NEW t \in Thread, Rebuild(t) PROVE OK
    BY <1>7, <1>8, <1>9, <1>10, <1>11, <1>18 DEF Rebuild, Label, Built
<1>19. ASSUME Clear PROVE OK
    BY <1>7, <1>12, <1>19 DEF Clear, Label, Built
<1>20. OK
    BY <1>1, <1>2, <1>3, <1>13, <1>14, <1>15, <1>16, <1>17, <1>18, <1>19
    DEF Next, Crash, Exit
<1>. QED
    BY <1>20 DEF OK, TypeOK, StoreTypes, ApplyTypes, StatusMap, KernelTypes, RedirectType,
                 MasqueradeType, FaultTypes
-----------------------------------------------------------------------------
(* Names and claims.                                                        *)

(* Every snapshot is one of the store, which changes by edits and by being  *)
(* loaded; the file holds what was in memory once.                          *)
LEMMA Snapshots ==
    ASSUME TypeOK, NamesOnce, [Next]_vars
    PROVE  /\ \/ rules' \in {rules, saved}
              \/ /\ UniqueKeys(rules')
                 /\ UniqueClaims(rules) => UniqueClaims(rules')
           /\ saved' \in {saved, rules, rules'}
           /\ applied' = applied \/ \E t \in Thread : applied' = snap[t]
           /\ \A t \in Thread : snap'[t] \in {snap[t], {}, rules, saved}
<1>. DEFINE Still == UNCHANGED <<rules, saved, snap, applied>>
            OK    == /\ \/ rules' \in {rules, saved}
                        \/ /\ UniqueKeys(rules')
                           /\ UniqueClaims(rules) => UniqueClaims(rules')
                     /\ saved' \in {saved, rules, rules'}
                     /\ applied' = applied \/ \E t \in Thread : applied' = snap[t]
                     /\ \A t \in Thread : snap'[t] \in {snap[t], {}, rules, saved}
<1>. USE DEF store, ours
<1>0. snap \in [Thread -> SUBSET DNATRule]
    BY DEF TypeOK
<1>1. ASSUME NEW a \in Admin, Edit(a) PROVE OK
    BY <1>1, EditSaves DEF Save
<1>2. ASSUME NEW a \in Admin, FireDNAT(a) PROVE OK
    BY <1>0, <1>2, Threads DEF FireDNAT
<1>3. ASSUME NEW t \in Thread, Lock(t) PROVE OK
    BY <1>0, <1>3 DEF Lock
<1>4. ASSUME Boot \/ Crash \/ Exit \/ Reboot \/ SaveOthers \/ UNCHANGED vars PROVE OK
    BY <1>0, <1>4, Threads DEF Boot, Crash, Exit, Gone, Reboot, SaveOthers, vars
<1>5. ASSUME NEW t \in Thread, Scaffold(t) \/ Rebuild(t) PROVE Still
    BY <1>5 DEF Scaffold, Rebuild, NewChain, CheckJump, AddJump, Flush, AppendRedirect,
                SkipDisabled, AppendMasquerade, Publish
<1>6. ASSUME Clear PROVE Still
    BY <1>6 DEF Clear, ShutdownLock, Flush, ShutdownDone
<1>7. Still => OK
    OBVIOUS
<1>. QED
    BY <1>1, <1>2, <1>3, <1>4, <1>5, <1>6, <1>7 DEF Next

LEMMA NextNames ==
    ASSUME TypeOK, NamesOnce, [Next]_vars
    PROVE  NamesOnce'
<1>1. UniqueKeys({})
    BY DEF UniqueKeys
<1>. QED
    BY <1>1, Snapshots DEF NamesOnce

-----------------------------------------------------------------------------
(* m.mu and the order of the commands.                                      *)

LEMMA NextSequence ==
    ASSUME TypeOK, NamesOnce, InSequence, MainFirst, [Next]_vars
    PROVE  InSequence' /\ MainFirst'
<1>. DEFINE OK == InSequence' /\ MainFirst'
<1>0. StoreTypes
    BY TypeParts
<1>. USE Threads DEF store, ours, kernel, faults, Goto, Go, At, StoreTypes, InSequence,
                     MainFirst, Applying, Preparing, Scaffolding, Clearing
<1>1. ASSUME NEW a \in Admin, Edit(a) PROVE OK
    <2>. PICK S \in SUBSET DNATRule : Save(a, S)
        BY <1>1, EditSaves
    <2>1. /\ pc[a] = "idle" /\ pc' \in {pc, [pc EXCEPT ![a] = "fire"]}
          /\ pc[Main] \notin {"off", "wait", "apply"} /\ UNCHANGED <<lock, step>>
        BY DEF Save, Serving
    <2>2. a # Main /\ a # Nobody
        OBVIOUS
    <2>3. CASE pc' = pc
        BY <1>0, <2>1, <2>3
    <2>4. CASE pc' = [pc EXCEPT ![a] = "fire"]
        <3>1. \A t \in Thread : t # a => pc'[t] = pc[t]
            BY <1>0, <2>4
        <3>2. pc'[Main] = pc[Main]
            BY <2>2, <3>1
        <3>3. lock # a
            BY <1>0, <2>1
        <3>4. InSequence'
            BY <1>0, <2>1, <3>1, <3>2, <3>3
        <3>. QED
            BY <2>1, <3>2, <3>4
    <2>. QED
        BY <2>1, <2>3, <2>4
<1>2. ASSUME NEW a \in Admin, FireDNAT(a) PROVE OK
    BY <1>0, <1>2 DEF FireDNAT
<1>3. ASSUME NEW t \in Thread, Lock(t) PROVE OK
    BY <1>0, <1>3 DEF Lock
<1>4. ASSUME NEW t \in Thread, Scaffold(t) PROVE OK
    BY <1>0, <1>4 DEF Scaffold, NewChain, CheckJump, AddJump
<1>5. ASSUME NEW t \in Thread, NEW c \in Built,
             NEW here \in Preparing, NEW next \in Applying, Flush(t, c, here, next)
      PROVE  OK
    BY <1>0, <1>5 DEF Flush
<1>6. ASSUME NEW t \in Thread,
             \/ \E r \in todo : AppendRedirect(t, r) \/ SkipDisabled(t, r)
             \/ \E r \in current : AppendMasquerade(t, r)
      PROVE  OK
    BY <1>0, <1>6 DEF AppendRedirect, SkipDisabled, AppendMasquerade
<1>7. ASSUME NEW t \in Thread, Publish(t) PROVE OK
    BY <1>0, <1>7 DEF Publish
<1>8. ASSUME Clear PROVE OK
    BY <1>0, <1>8 DEF Clear, ShutdownLock, Flush, ShutdownDone
<1>9. ASSUME Boot PROVE OK
    BY <1>0, <1>9 DEF Boot
<1>10. ASSUME Gone PROVE OK
    BY <1>0, <1>10 DEF Gone
<1>11. ASSUME Reboot \/ SaveOthers \/ UNCHANGED vars PROVE OK
    BY <1>0, <1>11 DEF Reboot, SaveOthers, vars
<1>. HIDE DEF OK, InSequence, MainFirst, StoreTypes, Goto, Go, At
<1>12. ASSUME NEW t \in Thread, Rebuild(t) PROVE OK
    BY <1>5, <1>6, <1>7, <1>12 DEF Rebuild, Built
<1>. QED
    BY <1>1, <1>2, <1>3, <1>4, <1>8, <1>9, <1>10, <1>11, <1>12 DEF Next, Crash, Exit, OK
-----------------------------------------------------------------------------
(* What Apply works on, and what the kernel holds.                         *)

(* Steps outside Apply.                                                     *)
LEMMA AsideWork ==
    ASSUME Inv,
           UNCHANGED <<step, todo, current, fresh, applied, kernel, swept>>,
           \/ UNCHANGED <<lock, status>> /\ pc'[Main] = pc[Main]
           \/ pc'[Main] # "idle"
    PROVE  Work'
<1>1. OfSnapshot' /\ ScaffoldingUp'
    BY DEF Inv, Work, OfSnapshot, ScaffoldingUp, kernel
<1>3. Progress'
    BY DEF Inv, Work, Progress, Told, Installed, Holds, kernel
<1>4. Published'
    BY DEF Inv, Work, Published, Settled, Told, Installed, kernel
<1>5. Explained'
    BY DEF Inv, Work, Explained, kernel
<1>. QED
    BY <1>1, <1>3, <1>4, <1>5 DEF Work

LEMMA LockWork ==
    ASSUME Inv, NEW t \in Thread, Lock(t)
    PROVE  Work'
<1>. USE DEF Inv, Work, Lock, Go, kernel
<1>1. step = "newDnat" \/ step' = "newDnat"
    OBVIOUS
<1>2. OfSnapshot'
    BY Threads DEF OfSnapshot, InSequence, Applying, Preparing, Scaffolding, ours
<1>3. ScaffoldingUp' /\ Progress' /\ Explained'
    BY DEF ScaffoldingUp, Progress, Explained
<1>4. Published'
    BY Threads DEF Published, Settled
<1>. QED
    BY <1>2, <1>3, <1>4

(* The commands of ensureScaffolding.                                       *)
LEMMA ScaffoldWork ==
    ASSUME Inv, NEW t \in Thread, Scaffold(t)
    PROVE  Work'
<1>. USE DEF Inv, Work, Go, At, store, ours, kernel, faults, Works, Fails
<1>1. lock' = t /\ UNCHANGED <<dnat, post, applied, swept>>
    BY DEF Scaffold, NewChain, CheckJump, AddJump
<1>2. Published' /\ Explained'
    BY <1>1, Threads DEF Published, Settled, Explained
<1>3. ASSUME NEW c \in Built, NEW here \in {"newDnat", "newPost"},
             NEW next \in {"newPost", "checkDnat"}, NewChain(t, c, here, next)
      PROVE  OfSnapshot' /\ ScaffoldingUp' /\ Progress'
    BY <1>3 DEF NewChain, OfSnapshot, ScaffoldingUp, Progress, Preparing, Scaffolding
<1>4. ASSUME \/ CheckJump(t, "dnat", "checkDnat", "jumpDnat", "checkPost")
             \/ CheckJump(t, "post", "checkPost", "jumpPost", "flushDnat")
      PROVE  OfSnapshot' /\ ScaffoldingUp' /\ Progress'
    BY <1>4 DEF CheckJump, OfSnapshot, ScaffoldingUp, Progress, Preparing, Scaffolding
<1>5. ASSUME \/ AddJump(t, "dnat", "jumpDnat", "checkPost")
             \/ AddJump(t, "post", "jumpPost", "flushDnat")
      PROVE  OfSnapshot' /\ ScaffoldingUp' /\ Progress'
    <2>1. PICK c \in Built : c \in chains =>
                   jumps' \in {jumps, [jumps EXCEPT ![c] = @ + 1]}
        BY <1>5 DEF AddJump, Built
    <2>2. CASE /\ \/ step = "jumpDnat" /\ step' = "checkPost"
                     /\ jumps' = [jumps EXCEPT !["dnat"] = @ + 1]
                  \/ step = "jumpPost" /\ step' = "flushDnat"
                     /\ jumps' = [jumps EXCEPT !["post"] = @ + 1]
               /\ UNCHANGED <<todo, current, fresh, chains>>
        <3>1. /\ jumps' \in [Built -> Nat]
              /\ jumps'["dnat"] >= jumps["dnat"] /\ jumps'["post"] >= jumps["post"]
              /\ step = "jumpDnat" => jumps'["dnat"] > 0
              /\ step = "jumpPost" => jumps'["post"] > 0
            BY <2>2, TypeParts DEF KernelTypes, Built
        <3>2. OfSnapshot'
            BY <1>1, <2>2 DEF OfSnapshot, Preparing, Scaffolding
        <3>3. ScaffoldingUp'
            BY <1>1, <2>2, <3>1, TypeParts DEF ScaffoldingUp, KernelTypes, Built
        <3>4. Progress'
            BY <2>2 DEF Progress
        <3>. QED
            BY <3>2, <3>3, <3>4
    <2>3. CASE /\ step' = "publish" /\ step \in Preparing
               /\ fresh' = [n \in Name |->
                              IF \E r \in todo : r.key = n /\ r.enabled THEN "error"
                              ELSE IF HasKey(todo, n) THEN "disabled" ELSE ""]
               /\ todo' = {} /\ UNCHANGED <<current, chains, jumps>>
        <3>1. OfSnapshot'
            BY <1>1, <2>3 DEF OfSnapshot, Preparing, Scaffolding
        <3>2. ScaffoldingUp'
            BY <1>1, <2>3 DEF ScaffoldingUp
        <3>3. ASSUME NEW r \in applied PROVE Told(r, fresh)'
            <4>1. r \in todo /\ r.key \in Name
                BY <2>3, RuleTypes DEF OfSnapshot, TypeOK
            <4>. QED
                BY <2>3, <4>1 DEF Told
        <3>4. Progress'
            BY <1>1, <2>3, <3>3 DEF Progress
        <3>. QED
            BY <3>1, <3>2, <3>4
    <2>. QED
        BY <1>5, <2>2, <2>3 DEF AddJump, Preparing, Scaffolding
<1>. QED
    BY <1>2, <1>3, <1>4, <1>5 DEF Scaffold, Built

(* Apply's flushes and those of Shutdown.                                   *)
LEMMA FlushWork ==
    ASSUME Inv, NEW t \in Thread, NEW c \in Built, NEW here \in Label, NEW next \in Label,
           Flush(t, c, here, next),
           \/ here = "flushDnat" /\ next = "flushPost"
           \/ here = "flushPost" /\ next = "rules"
           \/ here \in Clearing /\ next \in Clearing
    PROVE  Work'
<1>. USE DEF Inv, Work, Flush, Go, At, store, ours
<1>1. /\ lock' = t /\ UNCHANGED <<chains, jumps, todo, current, fresh, applied>>
      /\ dnat' \in {dnat, <<>>} /\ post' \in {post, <<>>}
    BY DEF Fails
<1>2. OfSnapshot'
    BY <1>1 DEF OfSnapshot, Preparing, Scaffolding, Clearing
<1>3. ScaffoldingUp'
    BY <1>1 DEF ScaffoldingUp, Clearing
<1>4. Progress'
    BY <1>1 DEF Progress, OfSnapshot, Preparing, Scaffolding, Clearing
<1>5. Published'
    BY <1>1, Threads DEF Published, Settled
<1>6. Explained'
    <2>1. swept' => swept \/ dnat' = <<>>
        BY DEF ScaffoldingUp, Fails
    <2>2. ASSUME dnat' = <<>> PROVE Explained'
        BY <2>2, EmptySeq DEF Explained
    <2>3. ASSUME swept, dnat' = dnat PROVE Explained'
        BY <1>1, <2>3 DEF Explained
    <2>4. ASSUME ~ swept' PROVE Explained'
        BY <2>4 DEF Explained
    <2>. QED
        BY <1>1, <2>1, <2>2, <2>3, <2>4
<1>. QED
    BY <1>2, <1>3, <1>4, <1>5, <1>6

(* Rules already in the kernel stay there while others are appended.        *)
LEMMA StillTold ==
    ASSUME NEW r, Told(r, fresh), r.enabled => fresh'[r.key] = fresh[r.key],
           jumps' = jumps,
           \A v : Holds(dnat, v) => Holds(dnat', v), \A v : Holds(post, v) => Holds(post', v)
    PROVE  Told(r, fresh)'
BY DEF Told, Installed, Holds

LEMMA RedirectWork ==
    ASSUME Inv, NEW t \in Thread, NEW r \in todo, AppendRedirect(t, r)
    PROVE  Work'
<1>. USE DEF Inv, Work, At, Go, store, ours
<1>0. /\ r \in DNATRule /\ r \in applied /\ r.key \in Name /\ r.enabled
      /\ step = "rules" /\ step' \in {"rules", "masquerade"} /\ current = {}
      /\ todo' = todo \ {r} /\ lock' = t
      /\ UNCHANGED <<applied, chains, jumps, post, swept>>
      /\ \A x \in applied : x.key = r.key => x = r
      /\ fresh \in [Name -> {"", "active", "disabled", "error"}]
    BY RuleTypes DEF AppendRedirect, OfSnapshot, NamesOnce, UniqueKeys, TypeOK, Works, Fails,
                     faults
<1>1. dnat' = dnat \/ dnat' = Append(dnat, Redirect(r))
    BY DEF AppendRedirect
<1>2. \A v : Holds(dnat', v) => v = Redirect(r) \/ Holds(dnat, v)
    BY <1>0, <1>1, AppendHolds, RuleTypes, TypeParts DEF KernelTypes
<1>3. ASSUME NEW v, Holds(dnat, v) PROVE Holds(dnat', v)
    <2>1. CASE dnat' = dnat
        BY <1>3, <2>1 DEF Holds
    <2>2. CASE dnat' = Append(dnat, Redirect(r))
        BY <1>0, <1>3, <2>2, AppendHolds, RuleTypes, TypeParts DEF KernelTypes
    <2>. QED
        BY <1>1, <2>1, <2>2
<1>4. OfSnapshot'
    BY <1>0 DEF AppendRedirect, OfSnapshot, Preparing, Scaffolding
<1>5. ScaffoldingUp'
    <2>1. "dnat" \in chains /\ jumps["dnat"] > 0 /\ jumps["post"] > 0
        BY <1>0, TypeParts DEF ScaffoldingUp, KernelTypes, Built
    <2>. QED
        BY <1>0, <2>1 DEF ScaffoldingUp
<1>6. ASSUME NEW x \in applied \ (todo' \cup current') PROVE Told(x, fresh)'
    <2>1. CASE x # r
        <3>1. x.key # r.key /\ Told(x, fresh) /\ x.key \in Name
            BY <1>0, <1>6, <2>1, RuleTypes DEF Progress, TypeOK
        <3>2. fresh'[x.key] = fresh[x.key]
            BY <1>0, <3>1 DEF AppendRedirect
        <3>3. jumps' = jumps /\ post' = post
            BY <1>0
        <3>. QED
            BY <1>3, <3>1, <3>2, <3>3, StillTold
    <2>2. CASE x = r /\ fresh' = [fresh EXCEPT ![r.key] = "error"]
        BY <1>0, <2>2 DEF Told
    <2>3. CASE /\ x = r /\ ~ r.snat /\ dnat' = Append(dnat, Redirect(r))
               /\ fresh' = [fresh EXCEPT ![r.key] = "active"]
        <3>1. Holds(dnat', Redirect(r))
            BY <1>0, <2>3, AppendHolds, RuleTypes, TypeParts DEF KernelTypes
        <3>2. \A c \in Built : jumps'[c] > 0
            BY <1>0 DEF ScaffoldingUp, Built
        <3>. QED
            BY <1>0, <2>3, <3>1, <3>2 DEF Told, Installed, Holds
    <2>. QED
        BY <1>6, <2>1, <2>2, <2>3 DEF AppendRedirect
<1>7. Progress'
    <2>1. ASSUME step' = "masquerade"
          PROVE  \A x \in current' : x.enabled /\ x.snat /\ Holds(dnat', Redirect(x))
        <3>1. current' = {r} /\ r.snat /\ dnat' = Append(dnat, Redirect(r))
            BY <1>0, <2>1 DEF AppendRedirect
        <3>2. Holds(dnat', Redirect(r))
            BY <1>0, <3>1, AppendHolds, RuleTypes, TypeParts DEF KernelTypes
        <3>. QED
            BY <1>0, <3>1, <3>2
    <2>. QED
        BY <1>0, <1>6, <2>1 DEF Progress, Holds
<1>8. Published'
    BY <1>0, Threads DEF Published, Settled
<1>9. Explained'
    <2>. SUFFICES ASSUME swept, NEW i \in DOMAIN dnat'
                  PROVE  \E x \in EnabledOf(applied) : dnat'[i] = Redirect(x)
        BY <1>0 DEF Explained, EnabledOf
    <2>1. dnat'[i] = Redirect(r) \/ Holds(dnat, dnat'[i])
        BY <1>2 DEF Holds
    <2>. QED
        BY <1>0, <2>1 DEF Explained, Holds, EnabledOf
<1>. QED
    BY <1>4, <1>5, <1>7, <1>8, <1>9

LEMMA SkipWork ==
    ASSUME Inv, NEW t \in Thread, NEW r \in todo, SkipDisabled(t, r)
    PROVE  Work'
<1>. USE DEF Inv, Work, At, SkipDisabled, store, kernel, faults
<1>1. OfSnapshot' /\ ScaffoldingUp'
    BY DEF OfSnapshot, ScaffoldingUp, Preparing, Scaffolding
<1>2. r \in applied /\ \A x \in applied : x.key = r.key => x = r
    BY DEF OfSnapshot, NamesOnce, UniqueKeys
<1>3. ASSUME NEW x \in applied \ (todo' \cup current') PROVE Told(x, fresh)'
    <2>1. CASE x # r
        <3>1. x.key # r.key /\ Told(x, fresh) /\ x.key \in Name
            BY <1>2, <1>3, <2>1, RuleTypes DEF Progress, TypeOK
        <3>2. fresh'[x.key] = fresh[x.key]
            BY <3>1 DEF TypeOK
        <3>. QED
            BY <3>1, <3>2, StillTold
    <2>2. CASE x = r
        BY <2>2 DEF Told
    <2>. QED
        BY <2>1, <2>2
<1>4. Progress'
    BY <1>3 DEF Progress
<1>5. Published'
    BY Threads DEF Published, Settled
<1>6. Explained'
    BY DEF Explained
<1>. QED
    BY <1>1, <1>4, <1>5, <1>6

LEMMA MasqueradeWork ==
    ASSUME Inv, NEW t \in Thread, NEW r \in current, AppendMasquerade(t, r)
    PROVE  Work'
<1>. USE DEF Inv, Work, At, Go, store
<1>0. /\ r \in DNATRule /\ r \in applied /\ r.key \in Name
      /\ step = "masquerade" /\ step' = "rules" /\ current' = {} /\ lock' = t
      /\ UNCHANGED <<applied, todo, chains, jumps, dnat, swept>>
      /\ \A x \in applied : x.key = r.key => x = r
      /\ r.enabled /\ r.snat /\ Holds(dnat, Redirect(r))
      /\ fresh \in [Name -> {"", "active", "disabled", "error"}]
    BY RuleTypes DEF AppendMasquerade, OfSnapshot, NamesOnce, UniqueKeys, TypeOK, Progress,
                     Works, Fails, faults
<1>1. post' = post \/ post' = Append(post, Masquerade(r))
    BY DEF AppendMasquerade
<1>2. ASSUME NEW v, Holds(post, v) PROVE Holds(post', v)
    <2>1. CASE post' = post
        BY <1>2, <2>1 DEF Holds
    <2>2. CASE post' = Append(post, Masquerade(r))
        BY <1>0, <1>2, <2>2, AppendHolds, RuleTypes, TypeParts DEF KernelTypes
    <2>. QED
        BY <1>1, <2>1, <2>2
<1>3. OfSnapshot'
    BY <1>0 DEF OfSnapshot, Preparing, Scaffolding
<1>4. ScaffoldingUp'
    <2>1. "post" \in chains /\ jumps["dnat"] > 0 /\ jumps["post"] > 0
        BY <1>0, TypeParts DEF ScaffoldingUp, KernelTypes, Built
    <2>. QED
        BY <1>0, <2>1 DEF ScaffoldingUp
<1>5. ASSUME NEW x \in applied \ (todo' \cup current') PROVE Told(x, fresh)'
    <2>1. CASE x \notin current
        <3>1. x # r /\ x.key # r.key /\ Told(x, fresh) /\ x.key \in Name
            BY <1>0, <1>5, <2>1, RuleTypes DEF Progress, TypeOK
        <3>2. fresh'[x.key] = fresh[x.key]
            BY <1>0, <3>1 DEF AppendMasquerade
        <3>3. jumps' = jumps /\ dnat' = dnat
            BY <1>0
        <3>. QED
            BY <1>2, <3>1, <3>2, <3>3, StillTold
    <2>2. CASE x = r /\ fresh' = [fresh EXCEPT ![r.key] = "error"]
        BY <1>0, <2>2 DEF Told
    <2>3. CASE /\ x = r /\ post' = Append(post, Masquerade(r))
               /\ fresh' = [fresh EXCEPT ![r.key] = "active"]
        <3>1. Holds(post', Masquerade(r))
            BY <1>0, <2>3, AppendHolds, RuleTypes, TypeParts DEF KernelTypes
        <3>2. \A c \in Built : jumps'[c] > 0
            BY <1>0 DEF ScaffoldingUp, Built
        <3>. QED
            BY <1>0, <2>3, <3>1, <3>2 DEF Told, Installed, Holds
    <2>4. x \in current => x = r
        BY DEF OfSnapshot
    <2>. QED
        BY <2>1, <2>2, <2>3, <2>4 DEF AppendMasquerade
<1>6. Progress'
    BY <1>0, <1>5 DEF Progress
<1>7. Published'
    BY <1>0, Threads DEF Published, Settled
<1>8. Explained'
    BY <1>0 DEF Explained
<1>. QED
    BY <1>3, <1>4, <1>6, <1>7, <1>8

LEMMA PublishWork ==
    ASSUME Inv, NEW t \in Thread, Publish(t)
    PROVE  Work'
<1>. USE DEF Inv, Work, At, Go, Publish, store, kernel, faults
<1>1. OfSnapshot' /\ ScaffoldingUp'
    BY DEF OfSnapshot, ScaffoldingUp, Preparing, Scaffolding
<1>2. Progress' /\ Explained'
    BY DEF Progress, Explained
<1>3. current = {}
    BY DEF OfSnapshot
<1>4. \A r \in applied : Told(r, fresh)
    BY <1>3 DEF Progress
<1>5. Published'
    BY <1>4 DEF Published, Told, Installed
<1>. QED
    BY <1>1, <1>2, <1>5

LEMMA NextWork ==
    ASSUME Inv, [Next]_vars
    PROVE  Work'
<1>. USE DEF store, ours, kernel, faults
<1>0. StoreTypes
    BY TypeParts DEF Inv
<1>1. ASSUME NEW a \in Admin, Edit(a) \/ FireDNAT(a) PROVE Work'
    <2>1. a # Main /\ a \in Thread
        BY Threads
    <2>2. \/ FireDNAT(a)
          \/ \E S \in SUBSET DNATRule : Save(a, S)
        BY <1>1, EditSaves DEF Inv
    <2>3. UNCHANGED <<step, todo, current, fresh, applied, kernel, swept, lock, status>>
        BY <2>2 DEF FireDNAT, Save
    <2>4. pc'[Main] = pc[Main]
        <3>1. PICK l : pc' \in {pc, [pc EXCEPT ![a] = l]}
            BY <2>2 DEF FireDNAT, Save, Goto
        <3>2. DOMAIN pc = Thread
            BY <1>0 DEF StoreTypes
        <3>. QED
            BY <2>1, <3>1, <3>2, Threads
    <2>. QED
        BY <2>3, <2>4, AsideWork
<1>2. ASSUME UNCHANGED vars \/ SaveOthers PROVE Work'
    BY <1>2, AsideWork DEF vars, SaveOthers
<1>3. ASSUME Boot PROVE Work'
    <2>1. pc'[Main] = "wait"
        BY <1>0, <1>3, Threads DEF Boot, Goto, StoreTypes
    <2>. QED
        BY <1>3, <2>1, AsideWork DEF Boot
<1>4. ASSUME Gone PROVE Work'
    <2>1. pc'[Main] = "off"
        BY <1>4, Threads DEF Gone
    <2>2. step' = "idle" /\ todo' = {} /\ current' = {}
        BY <1>4 DEF Gone
    <2>3. OfSnapshot' /\ ScaffoldingUp' /\ Progress'
        BY <1>4, <2>2 DEF Gone, Inv, Work, OfSnapshot, ScaffoldingUp, Progress, Preparing,
                          Scaffolding
    <2>4. Published' /\ Explained'
        BY <1>4, <2>1 DEF Gone, Inv, Work, Published, Settled, Explained
    <2>. QED
        BY <2>3, <2>4 DEF Work
<1>5. ASSUME Reboot PROVE Work'
    <2>1. step \notin Applying
        BY <1>0, <1>5 DEF Reboot, Inv, InSequence, MainFirst, StoreTypes, Thread
    <2>2. OfSnapshot' /\ ScaffoldingUp' /\ Progress'
        BY <1>5, <2>1 DEF Reboot, Inv, Work, OfSnapshot, ScaffoldingUp, Progress, Applying,
                          Preparing, Scaffolding
    <2>3. Published' /\ Explained'
        BY <1>5, EmptySeq DEF Reboot, Published, Settled, Explained
    <2>. QED
        BY <2>2, <2>3 DEF Work
<1>6. ASSUME ShutdownLock PROVE Work'
    <2>1. pc'[Main] = "clearing"
        BY <1>0, <1>6, Threads DEF ShutdownLock, Goto, StoreTypes
    <2>2. step' = "clearDnat" /\ UNCHANGED <<todo, current, fresh, applied, kernel, swept>>
        BY <1>6 DEF ShutdownLock, Go
    <2>3. OfSnapshot' /\ ScaffoldingUp' /\ Progress'
        BY <2>2, <1>6 DEF Inv, Work, OfSnapshot, ScaffoldingUp, Progress, Preparing,
             Scaffolding, InSequence, Applying, ShutdownLock, Goto
    <2>4. Published' /\ Explained'
        BY <2>1, <2>2 DEF Inv, Work, Published, Settled, Explained
    <2>. QED
        BY <2>3, <2>4 DEF Work
<1>7. ASSUME ShutdownDone PROVE Work'
    <2>1. pc'[Main] = "down"
        BY <1>0, <1>7, Threads DEF ShutdownDone, Goto, StoreTypes
    <2>2. /\ step = "cleared" /\ step' = "idle"
          /\ UNCHANGED <<todo, current, fresh, applied, kernel, swept>>
        BY <1>7 DEF ShutdownDone, Go, At
    <2>3. OfSnapshot' /\ ScaffoldingUp' /\ Progress'
        BY <2>2 DEF Inv, Work, OfSnapshot, ScaffoldingUp, Progress, Preparing, Scaffolding
    <2>4. Published' /\ Explained'
        BY <2>1, <2>2 DEF Inv, Work, Published, Settled, Explained
    <2>. QED
        BY <2>3, <2>4 DEF Work
<1>8. ASSUME NEW t \in Thread, Rebuild(t) PROVE Work'
    <2>1. ASSUME Flush(t, "dnat", "flushDnat", "flushPost") PROVE Work'
        BY <2>1, FlushWork DEF Built, Label
    <2>2. ASSUME Flush(t, "post", "flushPost", "rules") PROVE Work'
        BY <2>2, FlushWork DEF Built, Label
    <2>. QED
        BY <1>8, <2>1, <2>2, RedirectWork, SkipWork, MasqueradeWork, PublishWork DEF Rebuild
<1>9. ASSUME Clear PROVE Work'
    <2>1. ASSUME Flush(Main, "dnat", "clearDnat", "clearPost") PROVE Work'
        BY <2>1, FlushWork, Threads DEF Built, Label, Clearing
    <2>2. ASSUME Flush(Main, "post", "clearPost", "cleared") PROVE Work'
        BY <2>2, FlushWork, Threads DEF Built, Label, Clearing
    <2>. QED
        BY <1>6, <1>7, <1>9, <2>1, <2>2 DEF Clear
<1>. QED
    BY <1>1, <1>2, <1>3, <1>4, <1>5, <1>8, <1>9, LockWork, ScaffoldWork DEF Next, Crash, Exit
-----------------------------------------------------------------------------
(* Theorems for any number of editors.                                      *)

LEMMA InitInv == Init => Inv
<1>. SUFFICES ASSUME Init PROVE Inv
    OBVIOUS
<1>1. TypeOK
    BY InitTypes
<1>2. NamesOnce
    <2>1. UniqueKeys(rules) /\ UniqueKeys({}) /\ \A t \in Thread : snap[t] = {}
        BY DEF Init, UniqueKeys
    <2>. QED
        BY <2>1 DEF Init, NamesOnce
<1>3. InSequence /\ MainFirst
    BY Threads DEF Init, InSequence, MainFirst, Applying, Preparing, Scaffolding, Clearing
<1>4. Work
    BY Threads, EmptySeq DEF Init, Work, OfSnapshot, ScaffoldingUp, Progress, Published, Settled,
                             Explained, Preparing, Scaffolding
<1>. QED
    BY <1>1, <1>2, <1>3, <1>4 DEF Inv

LEMMA NextInv == Inv /\ [Next]_vars => Inv'
BY NextTypes, NextNames, NextSequence, NextWork DEF Inv

LEMMA InvAlways == Spec => []Inv
BY InitInv, NextInv, PTL DEF Spec

(* The store, m.mu, Apply and the kernel keep their types, with the lock    *)
(* held by exactly the thread inside Apply or Shutdown (dnat.go).           *)
THEOREM TypeCorrect == Spec => []TypeOK
<1>1. Inv => TypeOK
    BY DEF Inv
<1>. QED
    BY <1>1, InvAlways, PTL

LEMMA AppliedTold == Inv => AppliedIsInstalled
<1>. SUFFICES ASSUME Inv, Settled, NEW r \in rules \cap applied, Shown(r) = "active"
              PROVE  Installed(r)
    BY DEF AppliedIsInstalled
<1>1. r.enabled \in BOOLEAN /\ Told(r, status)
    BY RuleTypes DEF Inv, Work, Published, TypeOK
<1>. QED
    BY <1>1 DEF Shown, Told

(* Of the rules that were applied, one the page calls active is in the      *)
(* kernel with all its parts, however many editors there are and whatever   *)
(* saves have failed: Apply gives every enabled rule a status, "active" only*)
(* after the last command of the rule, and nothing but the next Apply takes *)
(* commands back (dnat.go:42-80).                                           *)
THEOREM AppliedIsTrue == Spec => []AppliedIsInstalled
BY AppliedTold, InvAlways, PTL

(* What a failed flush, and nothing else, can leave in force                *)
(* (dnat.go:61-62).                                                         *)
THEOREM LeftoversHaveAReason == Spec => []LeftoversExplained
<1>1. Inv => LeftoversExplained
    BY DEF Inv, Work, Explained, LeftoversExplained
<1>. QED
    BY <1>1, InvAlways, PTL
-----------------------------------------------------------------------------
(* What a clean Apply leaves, when no two rules claim one address: the      *)
(* store keeps it so, if the file it has started from does.                 *)

ClaimsOnce ==
    /\ UniqueClaims(rules) /\ UniqueClaims(saved) /\ UniqueClaims(applied)
    /\ \A t \in Thread : UniqueClaims(snap[t])

(* The chains hold the redirections of S, each once, and the return paths   *)
(* of T.                                                                    *)
Holding(S, T) ==
    /\ \A v : Holds(dnat, v) <=> \E r \in EnabledOf(S) : v = Redirect(r)
    /\ \A i, j \in DOMAIN dnat : dnat[i] = dnat[j] => i = j
    /\ \A v : Holds(post, v) <=> \E r \in EnabledOf(T) : r.snat /\ v = Masquerade(r)

(* As long as no command has failed, the chains exist once they have been   *)
(* created, are empty once they have been flushed, and hold the rules Apply *)
(* is through with.                                                         *)
CleanSoFar ==
    clean =>
        /\ step \in Applying \ {"newDnat"} => "dnat" \in chains
        /\ step \in Applying \ {"newDnat", "newPost"} => "post" \in chains
        /\ step # "publish"
        /\ step = "flushPost" => dnat = <<>>
        /\ step \in {"rules", "masquerade"} =>
               Holding(applied \ todo, applied \ (todo \cup current))
        /\ Settled => Exactly(applied)

LEMMA AppendOnce ==
    ASSUME NEW S, NEW s \in Seq(S), NEW e \in S, ~ Holds(s, e),
           \A i, j \in DOMAIN s : s[i] = s[j] => i = j
    PROVE  \A i, j \in DOMAIN Append(s, e) : Append(s, e)[i] = Append(s, e)[j] => i = j
<1>1. /\ Len(Append(s, e)) = Len(s) + 1 /\ Len(s) \in Nat
      /\ \A i \in 1 .. Len(s) : Append(s, e)[i] = s[i]
      /\ Append(s, e)[Len(s) + 1] = e
      /\ Append(s, e) \in Seq(S)
    BY AppendProperties, LenProperties
<1>2. /\ DOMAIN s = 1 .. Len(s)
      /\ DOMAIN Append(s, e) = 1 .. (Len(s) + 1)
    BY <1>1, LenProperties
<1>. QED
    BY <1>1, <1>2 DEF Holds

LEMMA NextClaims ==
    ASSUME TypeOK, NamesOnce, ClaimsOnce, [Next]_vars
    PROVE  ClaimsOnce'
<1>1. UniqueClaims({})
    BY DEF UniqueClaims
<1>. QED
    BY <1>1, Snapshots DEF ClaimsOnce

LEMMA HoldingIsExact ==
    ASSUME NEW S, Holding(S, S), \A c \in Built : jumps[c] > 0
    PROVE  Exactly(S)
<1>1. {dnat[i] : i \in DOMAIN dnat} = {Redirect(r) : r \in EnabledOf(S)}
    BY DEF Holding, Holds
<1>2. {post[i] : i \in DOMAIN post} = {Masquerade(r) : r \in {x \in EnabledOf(S) : x.snat}}
    BY DEF Holding, Holds
<1>. QED
    BY <1>1, <1>2 DEF Exactly, Holding

(* Steps that leave Apply's work alone.                                     *)
LEMMA AsideClean ==
    ASSUME CleanSoFar, UNCHANGED <<todo, current, applied, kernel, clean>>,
           UNCHANGED step \/ step' \notin Applying,
           \/ UNCHANGED lock /\ pc'[Main] = pc[Main]
           \/ lock' # Nobody
           \/ pc'[Main] # "idle"
    PROVE  CleanSoFar'
<1>. SUFFICES ASSUME clean' PROVE CleanSoFar'
    BY DEF CleanSoFar
<1>1. UNCHANGED <<dnat, post, chains, jumps>> /\ clean
    BY DEF kernel
<1>2. Settled' => Settled
    BY DEF Settled
<1>3. Holding(applied \ todo, applied \ (todo \cup current))'
          <=> Holding(applied \ todo, applied \ (todo \cup current))
    BY <1>1 DEF Holding, Holds, EnabledOf
<1>4. Exactly(applied)' <=> Exactly(applied)
    BY <1>1 DEF Exactly, EnabledOf
<1>. QED
    BY <1>1, <1>2, <1>3, <1>4 DEF CleanSoFar, Applying, Preparing, Scaffolding

LEMMA ScaffoldClean ==
    ASSUME Inv, CleanSoFar, NEW t \in Thread, Scaffold(t)
    PROVE  CleanSoFar'
<1>. SUFFICES ASSUME clean' PROVE CleanSoFar'
    BY DEF CleanSoFar
<1>. USE DEF Go, At, store, ours, kernel, faults, Works, Fails
<1>1. lock' = t /\ UNCHANGED <<dnat, post, applied>>
    BY DEF Scaffold, NewChain, CheckJump, AddJump
<1>2. ~ Settled'
    BY <1>1, Threads DEF Settled
<1>3. clean
    BY DEF Scaffold, NewChain, CheckJump, AddJump
<1>4. ASSUME NEW c \in Built, NEW here, NEW next,
             \/ c = "dnat" /\ here = "newDnat" /\ next = "newPost"
             \/ c = "post" /\ here = "newPost" /\ next = "checkDnat",
             NewChain(t, c, here, next)
      PROVE  CleanSoFar'
    BY <1>2, <1>3, <1>4 DEF NewChain, CleanSoFar, Applying, Preparing, Scaffolding
<1>5. ASSUME \/ CheckJump(t, "dnat", "checkDnat", "jumpDnat", "checkPost")
             \/ CheckJump(t, "post", "checkPost", "jumpPost", "flushDnat")
      PROVE  CleanSoFar'
    BY <1>2, <1>3, <1>5 DEF CheckJump, CleanSoFar, Applying, Preparing, Scaffolding
<1>6. ASSUME \/ AddJump(t, "dnat", "jumpDnat", "checkPost")
             \/ AddJump(t, "post", "jumpPost", "flushDnat")
      PROVE  CleanSoFar'
    <2>1. "dnat" \in chains /\ (step = "jumpPost" => "post" \in chains)
        BY <1>3, <1>6 DEF AddJump, CleanSoFar, Applying, Preparing, Scaffolding
    <2>2. chains' = chains /\ (step' = "publish" => ~ clean')
        BY <1>6, <2>1 DEF AddJump
    <2>3. step \in {"jumpDnat", "jumpPost"} /\ step' \in {"checkPost", "flushDnat", "publish"}
        BY <1>6 DEF AddJump
    <2>4. step = "jumpDnat" => step' # "flushDnat"
        BY <1>6 DEF AddJump
    <2>. QED
        BY <1>2, <1>3, <2>1, <2>2, <2>3, <2>4
        DEF CleanSoFar, Applying, Preparing, Scaffolding
<1>. QED
    BY <1>4, <1>5, <1>6 DEF Scaffold, Built

LEMMA FlushClean ==
    ASSUME Inv, CleanSoFar, NEW t \in Thread,
           \/ Flush(t, "dnat", "flushDnat", "flushPost")
           \/ Flush(t, "post", "flushPost", "rules")
           \/ Flush(t, "dnat", "clearDnat", "clearPost")
           \/ Flush(t, "post", "clearPost", "cleared")
    PROVE  CleanSoFar'
<1>. SUFFICES ASSUME clean' PROVE CleanSoFar'
    BY DEF CleanSoFar
<1>. USE DEF Go, At, store, ours, Fails
<1>1. /\ lock' = t /\ clean /\ UNCHANGED <<chains, jumps, todo, current, applied>>
    BY DEF Flush
<1>2. ~ Settled'
    BY <1>1, Threads DEF Settled
<1>3. CASE Flush(t, "dnat", "flushDnat", "flushPost")
    BY <1>1, <1>2, <1>3 DEF Flush, CleanSoFar, Applying, Preparing, Scaffolding
<1>4. CASE Flush(t, "post", "flushPost", "rules")
    <2>1. /\ step = "flushPost" /\ step' = "rules"
          /\ dnat' = <<>> /\ post' = <<>>
          /\ "dnat" \in chains /\ "post" \in chains
        BY <1>1, <1>4 DEF Flush, CleanSoFar, Applying, Preparing, Scaffolding
    <2>2. todo = applied
        BY <2>1 DEF Inv, Work, OfSnapshot, Preparing
    <2>3. Holding(applied \ todo, applied \ (todo \cup current))'
        BY <1>1, <2>1, <2>2, EmptySeq DEF Holding, Holds, EnabledOf
    <2>. QED
        BY <1>1, <1>2, <2>1, <2>3 DEF CleanSoFar, Applying, Preparing, Scaffolding
<1>5. CASE \/ Flush(t, "dnat", "clearDnat", "clearPost")
           \/ Flush(t, "post", "clearPost", "cleared")
    BY <1>1, <1>2, <1>5 DEF Flush, CleanSoFar, Applying, Preparing, Scaffolding
<1>. QED
    BY <1>3, <1>4, <1>5

LEMMA RedirectClean ==
    ASSUME Inv, ClaimsOnce, CleanSoFar, NEW t \in Thread, NEW r \in todo, AppendRedirect(t, r)
    PROVE  CleanSoFar'
<1>. SUFFICES ASSUME clean' PROVE CleanSoFar'
    BY DEF CleanSoFar
<1>. USE DEF Go, At, store, ours, Works, Fails, faults
<1>0. /\ r \in DNATRule /\ r \in applied /\ r.enabled /\ r.snat \in BOOLEAN
      /\ dnat \in Seq(RedirectType)
    BY RuleTypes, TypeParts DEF Inv, Work, OfSnapshot, ApplyTypes, AppendRedirect, KernelTypes
<1>1. /\ clean /\ step = "rules" /\ step' \in {"rules", "masquerade"} /\ lock' = t
      /\ dnat' = Append(dnat, Redirect(r)) /\ todo' = todo \ {r}
      /\ UNCHANGED <<chains, jumps, applied, post>>
      /\ r.snat => current' = {r}
      /\ ~ r.snat => current' = current
    BY DEF AppendRedirect
<1>2. current = {}
    BY <1>1 DEF Inv, Work, OfSnapshot
<1>3. Holding(applied \ todo, applied \ (todo \cup current))
    BY <1>1 DEF CleanSoFar
<1>4. ~ Holds(dnat, Redirect(r))
    <2>1. ASSUME NEW x \in EnabledOf(applied \ todo), Redirect(r) = Redirect(x) PROVE FALSE
        <3>1. SameClaim(r, x)
            BY <2>1 DEF SameClaim, Redirect
        <3>2. r = x
            BY <1>0, <3>1 DEF ClaimsOnce, UniqueClaims, EnabledOf
        <3>. QED
            BY <3>2 DEF EnabledOf
    <2>. QED
        BY <1>3, <2>1 DEF Holding
<1>5. \A i, j \in DOMAIN dnat' : dnat'[i] = dnat'[j] => i = j
    BY <1>0, <1>1, <1>3, <1>4, AppendOnce, RuleTypes DEF Holding
<1>6. EnabledOf(applied \ todo)' = EnabledOf(applied \ todo) \cup {r}
    BY <1>0, <1>1 DEF EnabledOf
<1>7. ASSUME NEW v
      PROVE  Holds(dnat', v) <=> \E x \in EnabledOf(applied \ todo)' : v = Redirect(x)
    <2>1. Holds(dnat', v) <=> v = Redirect(r) \/ Holds(dnat, v)
        BY <1>0, <1>1, AppendHolds, RuleTypes
    <2>. QED
        BY <1>3, <1>6, <2>1 DEF Holding
<1>8. \A x : x \in EnabledOf(applied \ (todo \cup current))' /\ x.snat
             <=> x \in EnabledOf(applied \ (todo \cup current)) /\ x.snat
    BY <1>0, <1>1, <1>2 DEF EnabledOf
<1>9. \A v : Holds(post', v)
             <=> \E x \in EnabledOf(applied \ (todo \cup current))' :
                     x.snat /\ v = Masquerade(x)
    BY <1>1, <1>3, <1>8 DEF Holding, Holds
<1>10. Holding(applied \ todo, applied \ (todo \cup current))'
    BY <1>5, <1>7, <1>9 DEF Holding, Holds, EnabledOf
<1>11. ~ Settled'
    BY <1>1, Threads DEF Settled
<1>. QED
    BY <1>1, <1>10, <1>11 DEF CleanSoFar, Applying, Preparing, Scaffolding

LEMMA SkipClean ==
    ASSUME Inv, CleanSoFar, NEW t \in Thread, NEW r \in todo, SkipDisabled(t, r)
    PROVE  CleanSoFar'
<1>. SUFFICES ASSUME clean' PROVE CleanSoFar'
    BY DEF CleanSoFar
<1>1. /\ clean /\ step = "rules" /\ ~ r.enabled /\ todo' = todo \ {r} /\ lock' = t
      /\ UNCHANGED <<step, chains, jumps, dnat, post, applied, current>>
    BY DEF SkipDisabled, At, store, kernel, faults
<1>2. /\ EnabledOf(applied \ todo)' = EnabledOf(applied \ todo)
      /\ EnabledOf(applied \ (todo \cup current))'
             = EnabledOf(applied \ (todo \cup current))
    BY <1>1 DEF EnabledOf
<1>3. Holding(applied \ todo, applied \ (todo \cup current))'
    BY <1>1, <1>2 DEF CleanSoFar, Holding, Holds
<1>4. ~ Settled'
    BY <1>1, Threads DEF Settled
<1>. QED
    BY <1>1, <1>3, <1>4 DEF CleanSoFar, Applying, Preparing, Scaffolding

LEMMA MasqueradeClean ==
    ASSUME Inv, CleanSoFar, NEW t \in Thread, NEW r \in current, AppendMasquerade(t, r)
    PROVE  CleanSoFar'
<1>. SUFFICES ASSUME clean' PROVE CleanSoFar'
    BY DEF CleanSoFar
<1>. USE DEF Go, At, store, ours, Works, Fails, faults
<1>1. /\ clean /\ step = "masquerade" /\ step' = "rules" /\ lock' = t
      /\ post' = Append(post, Masquerade(r)) /\ current' = {}
      /\ UNCHANGED <<todo, chains, jumps, applied, dnat>>
    BY DEF AppendMasquerade
<1>2. /\ r \in DNATRule /\ r \in applied /\ r.enabled /\ r.snat
      /\ current = {r} /\ post \in Seq(MasqueradeType)
    BY <1>1, RuleTypes, TypeParts DEF Inv, Work, OfSnapshot, Progress, ApplyTypes, KernelTypes
<1>3. Holding(applied \ todo, applied \ (todo \cup current))
    BY <1>1 DEF CleanSoFar
<1>4. EnabledOf(applied \ (todo \cup current))'
          = EnabledOf(applied \ (todo \cup current)) \cup {r}
    <2>1. r \notin todo
        BY <1>2 DEF Inv, Work, OfSnapshot
    <2>. QED
        BY <1>1, <1>2, <2>1 DEF EnabledOf
<1>5. ASSUME NEW v
      PROVE  Holds(post', v)
             <=> \E x \in EnabledOf(applied \ (todo \cup current))' :
                     x.snat /\ v = Masquerade(x)
    <2>1. Holds(post', v) <=> v = Masquerade(r) \/ Holds(post, v)
        BY <1>1, <1>2, AppendHolds, RuleTypes
    <2>. QED
        BY <1>2, <1>3, <1>4, <2>1 DEF Holding
<1>6. EnabledOf(applied \ todo)' = EnabledOf(applied \ todo)
    BY <1>1 DEF EnabledOf
<1>7. Holding(applied \ todo, applied \ (todo \cup current))'
    <2>1. \A v : Holds(dnat', v) <=> \E x \in EnabledOf(applied \ todo)' : v = Redirect(x)
        BY <1>1, <1>3, <1>6 DEF Holding, Holds
    <2>2. \A i, j \in DOMAIN dnat' : dnat'[i] = dnat'[j] => i = j
        BY <1>1, <1>3 DEF Holding
    <2>. QED
        BY <1>5, <2>1, <2>2 DEF Holding, Holds, EnabledOf
<1>8. ~ Settled'
    BY <1>1, Threads DEF Settled
<1>. QED
    BY <1>1, <1>7, <1>8 DEF CleanSoFar, Applying, Preparing, Scaffolding

LEMMA PublishClean ==
    ASSUME Inv, CleanSoFar, NEW t \in Thread, Publish(t)
    PROVE  CleanSoFar'
<1>. SUFFICES ASSUME clean' PROVE CleanSoFar'
    BY DEF CleanSoFar
<1>1. /\ clean /\ step = "rules" /\ step' = "idle" /\ todo = {}
      /\ UNCHANGED <<chains, jumps, dnat, post, applied>>
    BY DEF Publish, At, Go, store, kernel, faults, CleanSoFar
<1>2. current = {}
    BY <1>1 DEF Inv, Work, OfSnapshot
<1>3. Holding(applied, applied)
    <2>1. Holding(applied \ todo, applied \ (todo \cup current))
        BY <1>1 DEF CleanSoFar
    <2>2. applied \ todo = applied /\ applied \ (todo \cup current) = applied
        BY <1>1, <1>2
    <2>. QED
        BY <2>1, <2>2
<1>4. \A c \in Built : jumps[c] > 0
    BY <1>1 DEF Inv, Work, ScaffoldingUp, Built
<1>5. Exactly(applied)
    BY <1>3, <1>4, HoldingIsExact
<1>6. Exactly(applied)'
    BY <1>1, <1>5 DEF Exactly, EnabledOf
<1>. QED
    BY <1>1, <1>6 DEF CleanSoFar, Applying, Preparing, Scaffolding

LEMMA NextClean ==
    ASSUME Inv, ClaimsOnce, CleanSoFar, [Next]_vars
    PROVE  CleanSoFar'
<1>. USE DEF store, ours, faults
<1>0. DOMAIN pc = Thread
    BY DEF Inv, TypeOK
<1>1. ASSUME NEW a \in Admin, Edit(a) \/ FireDNAT(a) PROVE CleanSoFar'
    <2>1. a # Main /\ a \in Thread
        BY Threads
    <2>2. \/ FireDNAT(a)
          \/ \E S \in SUBSET DNATRule : Save(a, S)
        BY <1>1, EditSaves DEF Inv
    <2>3. PICK l : pc' \in {pc, [pc EXCEPT ![a] = l]}
        BY <2>2 DEF FireDNAT, Save, Goto
    <2>4. pc'[Main] = pc[Main]
        BY <1>0, <2>1, <2>3, Threads
    <2>5. UNCHANGED <<step, todo, current, applied, kernel, clean, lock>>
        BY <2>2 DEF FireDNAT, Save
    <2>. QED
        BY <2>4, <2>5, AsideClean
<1>2. ASSUME NEW t \in Thread, Lock(t) PROVE CleanSoFar'
    <2>1. step' = "newDnat" /\ lock' # Nobody
        BY <1>2, Threads DEF Lock, Go
    <2>. QED
        BY <2>1 DEF CleanSoFar, Settled
<1>3. ASSUME UNCHANGED vars \/ SaveOthers PROVE CleanSoFar'
    BY <1>3, AsideClean DEF vars, SaveOthers
<1>4. ASSUME Boot PROVE CleanSoFar'
    <2>1. pc'[Main] = "wait"
        BY <1>0, <1>4, Threads DEF Boot, Goto
    <2>. QED
        BY <1>4, <2>1, AsideClean DEF Boot
<1>5. ASSUME Gone \/ Reboot PROVE CleanSoFar'
    <2>1. pc'[Main] = "off"
        BY <1>5, Threads DEF Gone, Reboot
    <2>2. step' \notin Applying
        BY <1>0, <1>5, Threads DEF Gone, Reboot, Inv, InSequence, MainFirst, Thread, Applying,
                            Preparing, Scaffolding
    <2>. QED
        BY <2>1, <2>2 DEF CleanSoFar, Settled, Applying, Preparing, Scaffolding
<1>6. ASSUME ShutdownLock PROVE CleanSoFar'
    <2>1. lock' # Nobody /\ step' \notin Applying
        BY <1>6, Threads DEF ShutdownLock, Go, Applying, Preparing, Scaffolding
    <2>. QED
        BY <1>6, <2>1, AsideClean DEF ShutdownLock
<1>7. ASSUME ShutdownDone PROVE CleanSoFar'
    <2>1. pc'[Main] = "down" /\ step' \notin Applying
        BY <1>0, <1>7, Threads DEF ShutdownDone, Goto, Go, Applying, Preparing, Scaffolding
    <2>. QED
        BY <1>7, <2>1, AsideClean DEF ShutdownDone
<1>8. ASSUME NEW t \in Thread, Rebuild(t) PROVE CleanSoFar'
    BY <1>8, FlushClean, RedirectClean, SkipClean, MasqueradeClean, PublishClean DEF Rebuild
<1>9. ASSUME Clear PROVE CleanSoFar'
    BY <1>6, <1>7, <1>9, FlushClean, Threads DEF Clear
<1>. QED
    BY <1>1, <1>2, <1>3, <1>4, <1>5, <1>8, <1>9, ScaffoldClean DEF Next, Crash, Exit

LEMMA CleanAlways ==
    ASSUME \A S \in Configs : UniqueClaims(S)
    PROVE  Spec => []CleanSoFar
<1>1. Init => ClaimsOnce
    <2>1. UniqueClaims({})
        BY DEF UniqueClaims
    <2>. QED
        BY <2>1 DEF Init, ClaimsOnce
<1>2. Init => CleanSoFar
    BY Threads DEF Init, CleanSoFar, Settled, Applying, Preparing, Scaffolding
<1>3. Inv /\ ClaimsOnce /\ CleanSoFar /\ [Next]_vars => ClaimsOnce' /\ CleanSoFar'
    BY NextClaims, NextClean DEF Inv
<1>. QED
    BY <1>1, <1>2, <1>3, InvAlways, PTL DEF Spec

(* An Apply all of whose commands work leaves the kernel with exactly the   *)
(* enabled rules of its snapshot (dnat.go:40-41), provided the file the     *)
(* process starts from claims no address twice: iptables would take the     *)
(* same rule twice.                                                         *)
THEOREM CleanIsExact ==
    ASSUME \A S \in Configs : UniqueClaims(S)
    PROVE  Spec => []CleanApplyIsExact
<1>1. CleanSoFar => CleanApplyIsExact
    BY DEF CleanSoFar, CleanApplyIsExact
<1>. QED
    BY <1>1, CleanAlways, PTL

-----------------------------------------------------------------------------
(* One editor.                                                              *)

(* Every snapshot on its way to Apply, and the one being applied, are the   *)
(* rules of the store; so is the last one applied, unless an edit since     *)
(* could not be saved.                                                      *)
Current ==
    /\ \A t \in Thread : /\ pc[t] = "wait" => snap[t] = rules
                         /\ pc[t] = "apply" => applied = rules
    /\ Serving /\ (\A a \in Admin : pc[a] = "idle") /\ ~ refused => applied = rules

LEMMA NextCurrent ==
    ASSUME NEW ed, Admin = {ed}, Inv, Current, [Next]_vars
    PROVE  Current'
<1>. DEFINE OK == Current'
<1>0. /\ Thread = {ed, Main} /\ ed # Main /\ ed \in Thread /\ Main \in Thread
      /\ pc \in [Thread -> {"idle", "fire", "wait", "apply", "clearing", "down", "off"}]
      /\ snap \in [Thread -> SUBSET DNATRule]
    BY DEF Thread, Inv, TypeOK
<1>. USE DEF store, ours, kernel, faults, Goto, Go, At, Current, Serving
<1>1. ASSUME Edit(ed) PROVE OK
    <2>. PICK S \in SUBSET DNATRule : Save(ed, S)
        BY <1>1, EditSaves DEF Inv
    <2>. QED
        BY <1>0 DEF Save
<1>2. ASSUME FireDNAT(ed) PROVE OK
    BY <1>0, <1>2 DEF FireDNAT, Inv, MainFirst
<1>3. ASSUME NEW t \in Thread, Lock(t) PROVE OK
    BY <1>0, <1>3 DEF Lock, Inv, MainFirst
<1>4. ASSUME NEW t \in Thread, Scaffold(t) PROVE OK
    BY <1>0, <1>4 DEF Scaffold, NewChain, CheckJump, AddJump
<1>5. ASSUME NEW t \in Thread, NEW c, NEW here, NEW next, Flush(t, c, here, next) PROVE OK
    BY <1>0, <1>5 DEF Flush
<1>6. ASSUME NEW t \in Thread,
             \/ \E r \in todo : AppendRedirect(t, r) \/ SkipDisabled(t, r)
             \/ \E r \in current : AppendMasquerade(t, r)
      PROVE  OK
    BY <1>0, <1>6 DEF AppendRedirect, SkipDisabled, AppendMasquerade
<1>7. ASSUME NEW t \in Thread, Publish(t) PROVE OK
    <2>1. applied = rules
        BY <1>0, <1>7 DEF Publish, Inv, InSequence, Applying
    <2>. QED
        BY <1>0, <1>7, <2>1 DEF Publish
<1>8. ASSUME ShutdownLock \/ ShutdownDone PROVE OK
    BY <1>0, <1>8 DEF ShutdownLock, ShutdownDone, Inv, InSequence, Clearing
<1>9. ASSUME Boot PROVE OK
    BY <1>0, <1>9 DEF Boot, Inv, MainFirst
<1>10. ASSUME Gone PROVE OK
    BY <1>0, <1>10 DEF Gone
<1>11. ASSUME Reboot \/ SaveOthers \/ UNCHANGED vars PROVE OK
    BY <1>11 DEF Reboot, SaveOthers, vars
<1>. HIDE DEF Current, Goto, Go, At
<1>12. ASSUME NEW t \in Thread, Rebuild(t) PROVE OK
    BY <1>5, <1>6, <1>7, <1>12 DEF Rebuild
<1>13. ASSUME Clear PROVE OK
    BY <1>0, <1>5, <1>8, <1>13 DEF Clear
<1>. QED
    BY <1>1, <1>2, <1>3, <1>4, <1>9, <1>10, <1>11, <1>12, <1>13 DEF Next, Crash, Exit

LEMMA CurrentAlways ==
    ASSUME NEW ed, Admin = {ed}
    PROVE  Spec => []Current
<1>1. Init => Current
    BY Threads DEF Init, Current, Serving
<1>2. Inv /\ Current /\ [Next]_vars => Current'
    BY NextCurrent
<1>. QED
    BY <1>1, <1>2, InvAlways, PTL DEF Spec

LEMMA QuietIsCurrent == Current => (Quiet /\ ~ refused => applied = rules)
BY Threads DEF Current, Quiet, Serving

(* With one editor, any rule of the store that the page calls active        *)
(* (dnatPage), for want of a status too, is in the kernel with all its      *)
(* parts, unless it has not been applied because its edit is under way or   *)
(* an edit could not be saved (config.go:684-687, admin.go:208-220).        *)
THEOREM ActiveIsTrue ==
    ASSUME NEW ed, Admin = {ed}
    PROVE  Spec => []ActiveIsInstalled
<1>1. Inv /\ Current => ActiveIsInstalled
    <2>. SUFFICES ASSUME Inv, Current, Settled, NEW r \in rules, Shown(r) = "active"
                  PROVE  Installed(r) \/ (r \notin applied /\ (refused \/ ~ Quiet))
        BY DEF ActiveIsInstalled
    <2>1. CASE r \in applied
        BY <2>1, AppliedTold DEF AppliedIsInstalled
    <2>2. CASE r \notin applied
        BY <2>2, QuietIsCurrent
    <2>. QED
        BY <2>1, <2>2
<1>. QED
    BY <1>1, InvAlways, CurrentAlways, PTL

(* With one editor, and a file that claims no address twice, the kernel     *)
(* follows the store: no snapshot can be overtaken on its way from fireDNAT *)
(* to Apply, and an edit that could not be saved is the only one that is not*)
(* handed on (config.go:684-687, 717-725, dnat.go:41).                      *)
THEOREM KernelInStep ==
    ASSUME NEW ed, Admin = {ed}, \A S \in Configs : UniqueClaims(S)
    PROVE  Spec => []KernelFollowsConfig
<1>1. CleanApplyIsExact /\ Current => KernelFollowsConfig
    BY QuietIsCurrent DEF KernelFollowsConfig
<1>. QED
    BY <1>1, CurrentAlways, CleanIsExact, PTL
=============================================================================
