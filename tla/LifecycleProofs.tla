---------------------------- MODULE LifecycleProofs ----------------------------
(***************************************************************************)
(* Proofs about Lifecycle and AdminSession: what a shutdown leaves in the  *)
(* kernel, what becomes of the operator's certificate, and who can edit.   *)
(***************************************************************************)
EXTENDS Lifecycle, TLAPS

USE SessionAssumption, LifecycleAssumption

(* While ensureTLS is generating, the files are not a pair of the           *)
(* operator's: it began because one was missing, and what it has touched is *)
(* its own.                                                                 *)
FilesInv ==
    /\ pc = "openCert" => ~ (cert = "own" /\ key = "own")
    /\ pc = "writeCert" => cert = "torn"
    /\ pc = "openKey" => cert \in Generated
    /\ pc = "writeKey" => key = "torn"

(* From a Shutdown of the DNAT manager that could flush its chains on, rules*)
(* are in the kernel only if an edit has put them there since.              *)
KernelInv == pc \in {"stopDomains", "drain"} /\ swept => ~ kernel \/ late

(* A cookie was given to an allowed address that entered the password it is *)
(* signed with, no longer ago than it is old.                               *)
CookieInv ==
    \A b \in Browser : cookie[b] # NoCookie =>
        /\ b \in Inside
        /\ entered[b][cookie[b].key] <= cookie[b].age

-----------------------------------------------------------------------------
(* The session.                                                             *)

(* A tick preserves the order of two ages.                                  *)
LEMMA OlderMonotone ==
    ASSUME NEW m \in 0 .. Never, NEW n \in 0 .. Never, m <= n
    PROVE  Older(m) \in 0 .. Never /\ Older(m) <= Older(n)
BY DEF Older, Never

(* Only a visit to the admin UI and the passing of time change cookies.     *)
LEMMA SessionFrame ==
    ASSUME [Next]_vars
    PROVE  \/ UNCHANGED <<cookie, entered>>
           \/ Tick
           \/ \E b \in Browser : Logout(b) \/ \E p \in Password : Login(b, p)
<1>1. CASE Start
    BY <1>1 DEF Start
<1>2. CASE Boot
    BY <1>2 DEF Boot, LoadConfig, ApplyForwards, ApplyDNAT, EnsureTLS, OtherTLS, Generate,
        LoadX509KeyPair, ApplyDomains, Listen, Notify, Steady, session
<1>3. CASE Serving
    BY <1>3 DEF Serving, Bind, CloseServer, ServeReturns, Steady, session
<1>4. CASE Shutdowns \/ Exit
    BY <1>4 DEF Shutdowns, Exit, Steady, session
<1>5. CASE Signal \/ Dies \/ Provide
    BY <1>5 DEF Signal, Dies, Provide, Steady, session
<1>6. CASE TimePasses
    BY <1>6 DEF TimePasses
<1>7. CASE \E b \in Browser : Visit(b)
    BY <1>7 DEF Visit
<1>8. CASE \E b \in Browser : EditForwards(b) \/ EditDomains(b) \/ EditDNAT(b)
    BY <1>8 DEF EditForwards, EditDomains, EditDNAT, session
<1>9. CASE UNCHANGED vars
    BY <1>9 DEF vars, session
<1>. QED
    BY <1>1, <1>2, <1>3, <1>4, <1>5, <1>6, <1>7, <1>8, <1>9 DEF Next, Outside

(* Only a start changes the password: it is read from the environment.      *)
LEMMA PasswordFrame ==
    ASSUME [Next]_vars
    PROVE  UNCHANGED password \/ Start
<1>1. CASE Boot
    BY <1>1 DEF Boot, LoadConfig, ApplyForwards, ApplyDNAT, EnsureTLS, OtherTLS, Generate,
        LoadX509KeyPair, ApplyDomains, Listen, Notify, Steady, session
<1>2. CASE Serving
    BY <1>2 DEF Serving, Bind, CloseServer, ServeReturns, Steady, session
<1>3. CASE Shutdowns \/ Exit
    BY <1>3 DEF Shutdowns, Exit, Steady, session
<1>4. CASE Signal \/ Dies \/ Provide
    BY <1>4 DEF Signal, Dies, Provide, Steady, session
<1>5. CASE TimePasses
    BY <1>5 DEF TimePasses, Tick
<1>6. CASE \E b \in Browser : Visit(b)
    BY <1>6 DEF Visit, Login, Logout
<1>7. CASE \E b \in Browser : EditForwards(b) \/ EditDomains(b) \/ EditDNAT(b)
    BY <1>7 DEF EditForwards, EditDomains, EditDNAT, session
<1>8. CASE UNCHANGED vars
    BY <1>8 DEF vars, session
<1>. QED
    BY <1>1, <1>2, <1>3, <1>4, <1>5, <1>6, <1>7, <1>8 DEF Next, Outside

(* Cookies, and the times of the logins behind them, stay well typed and in *)
(* step.                                                                    *)
LEMMA SessionStep ==
    ASSUME SessionType, CookieInv, [Next]_vars, password' \in Password
    PROVE  SessionType' /\ CookieInv'
<1>1. CASE UNCHANGED <<cookie, entered>>
    BY <1>1 DEF SessionType, CookieInv
<1>2. CASE Tick
    <2>1. \A b \in Browser, p \in Password :
              entered'[b][p] = Older(entered[b][p])
        BY <1>2 DEF Tick, SessionType
    <2>2. ASSUME NEW b \in Browser, cookie[b] # NoCookie
          PROVE  /\ cookie[b] \in Cookie
                 /\ cookie'[b] = [cookie[b] EXCEPT !.age = Older(@)]
        BY <1>2, <2>2 DEF Tick, SessionType
    <2>3. SessionType'
        <3>1. ASSUME NEW b \in Browser
              PROVE  cookie'[b] \in Cookie \cup {NoCookie}
            <4>1. CASE cookie[b] = NoCookie
                BY <1>2, <4>1 DEF Tick
            <4>2. CASE cookie[b] # NoCookie
                <5>1. cookie[b] \in Cookie
                    BY <2>2, <4>2
                <5>2. cookie[b].age \in 0 .. Never
                    BY <5>1 DEF Cookie
                <5>3. Older(cookie[b].age) \in 0 .. Never
                    BY <5>2, OlderMonotone DEF Never
                <5>4. [cookie[b] EXCEPT !.age = Older(@)] \in Cookie
                    BY <5>1, <5>3 DEF Cookie
                <5>. QED
                    BY <2>2, <4>2, <5>4
            <4>. QED
                BY <4>1, <4>2
        <3>2. cookie' = [b \in Browser |-> cookie'[b]]
            BY <1>2 DEF Tick
        <3>3. entered' \in [Browser -> [Password -> 0 .. Never]]
            BY <1>2, OlderMonotone DEF Tick, SessionType
        <3>. QED
            BY <3>1, <3>2, <3>3 DEF SessionType
    <2>4. CookieInv'
        <3>. SUFFICES ASSUME NEW b \in Browser, cookie'[b] # NoCookie
                      PROVE  /\ b \in Inside
                             /\ entered'[b][cookie'[b].key] <= cookie'[b].age
            BY DEF CookieInv
        <3>1. cookie[b] # NoCookie
            BY <1>2 DEF Tick
        <3>2. /\ b \in Inside
              /\ entered[b][cookie[b].key] <= cookie[b].age
              /\ cookie[b].key \in Password /\ cookie[b].age \in 0 .. Never
              /\ entered[b][cookie[b].key] \in 0 .. Never
            BY <2>2, <3>1 DEF CookieInv, Cookie, SessionType
        <3>3. cookie'[b].key = cookie[b].key /\ cookie'[b].age = Older(cookie[b].age)
            BY <2>2, <3>1 DEF Cookie
        <3>. QED
            BY <2>1, <3>2, <3>3, OlderMonotone
    <2>. QED
        BY <2>3, <2>4
<1>3. ASSUME NEW c \in Browser, Logout(c)
      PROVE  SessionType' /\ CookieInv'
    BY <1>3 DEF Logout, SessionType, CookieInv
<1>4. ASSUME NEW c \in Browser, NEW p \in Password, Login(c, p)
      PROVE  SessionType' /\ CookieInv'
    <2>1. /\ cookie' = [cookie EXCEPT ![c] = [key |-> password, age |-> 0]]
          /\ entered' = [entered EXCEPT ![c][password] = 0]
          /\ c \in Inside
          /\ password \in Password /\ password' = password
        BY <1>4 DEF Login, IssueCookie, IPAllowed, SessionType
    <2>2. [key |-> password, age |-> 0] \in Cookie
        BY <2>1 DEF Cookie, Never
    <2>3. SessionType'
        <3>1. cookie' \in [Browser -> Cookie \cup {NoCookie}]
            BY <2>1, <2>2 DEF SessionType
        <3>2. entered' \in [Browser -> [Password -> 0 .. Never]]
            BY <2>1 DEF SessionType, Never
        <3>. QED
            BY <2>1, <3>1, <3>2 DEF SessionType
    <2>4. ASSUME NEW b \in Browser, cookie'[b] # NoCookie
          PROVE  b \in Inside /\ entered'[b][cookie'[b].key] <= cookie'[b].age
        <3>1. CASE b = c
            BY <2>1, <3>1 DEF SessionType
        <3>2. CASE b # c
            BY <2>1, <2>4, <3>2 DEF SessionType, CookieInv
        <3>. QED
            BY <3>1, <3>2
    <2>. QED
        BY <2>3, <2>4 DEF CookieInv
<1>. QED
    BY <1>1, <1>2, <1>3, <1>4, SessionFrame

-----------------------------------------------------------------------------
(* Types.                                                                   *)

LEMMA ReconciledType ==
    ASSUME NEW who \in {"forward", "domain"}, NEW want,
           held \in [Port -> {"nobody", "forward", "domain", "main"}]
    PROVE  Reconciled(who, want) \in [Port -> {"nobody", "forward", "domain", "main"}]
BY DEF Reconciled

LEMMA GoneType ==
    Free \in [Port -> {"nobody", "forward", "domain", "main"}]
    /\ Idle \in [Server -> {"none", "starting", "serving", "closed", "done"}]
BY DEF Free, Idle

(* What the process holds and serves, and where it is.                      *)
ProcessType ==
    /\ env \in Settings
    /\ pc \in Running \cup {"down", "failed"}
    /\ conf \in Config(env) /\ refused \in BOOLEAN
    /\ held \in [Port -> {"nobody", "forward", "domain", "main"}]
    /\ server \in [Server -> {"none", "starting", "serving", "closed", "done"}]
    /\ kernel \in BOOLEAN
    /\ cert \in File /\ key \in File
    /\ faults \in 0 .. MaxFaults
    /\ late \in BOOLEAN /\ swept \in BOOLEAN

(* Every step keeps the types of the process.                               *)
LEMMA ProcessTypeStep ==
    ASSUME ProcessType, [Next]_vars
    PROVE  ProcessType'
<1>. USE DEF ProcessType, Running, Booting, Stopping, Goto, Steady, files, store,
             history
<1>0. ASSUME NEW r \in BOOLEAN, Rebuild(r)
      PROVE  kernel' \in BOOLEAN /\ faults' \in 0 .. MaxFaults
    <2>1. CASE kernel' = r /\ UNCHANGED faults
        BY <1>0, <2>1
    <2>2. CASE kernel' \in {kernel, r, FALSE} /\ Fault
        <3>1. faults' \in 0 .. MaxFaults
            BY <2>2 DEF Fault
        <3>2. kernel' \in BOOLEAN
            BY <1>0, <2>2, Zenon
        <3>. QED
            BY <3>1, <3>2
    <2>. QED
        BY <1>0, <2>1, <2>2 DEF Rebuild
<1>1. CASE Start
    BY <1>1 DEF Start
<1>2. CASE ApplyForwards \/ ApplyDomains
    BY <1>2, ReconciledType DEF ApplyForwards, ApplyDomains
<1>3. CASE ApplyDNAT
    <2>1. conf.dnat \in BOOLEAN
        BY DEF Config
    <2>2. kernel' \in BOOLEAN /\ faults' \in 0 .. MaxFaults
        BY <1>0, <1>3, <2>1 DEF ApplyDNAT
    <2>. QED
        BY <1>3, <2>2 DEF ApplyDNAT
<1>4. CASE EnsureTLS \/ OtherTLS \/ LoadX509KeyPair
    BY <1>4, GoneType DEF EnsureTLS, OtherTLS, LoadX509KeyPair, Fatal, Gone
<1>5. CASE Generate
    BY <1>5 DEF Generate, File, Generated
<1>6. CASE Listen
    BY <1>6, GoneType DEF Listen, Fatal, Gone
<1>7. ASSUME NEW s \in Server, Bind(s)
      PROVE  ProcessType'
    BY <1>7, GoneType DEF Bind, Fatal, Gone
<1>8. CASE Notify \/ Signal
    BY <1>8, GoneType DEF Notify, Signal, Gone
<1>9. CASE Shutdowns
    <2>1. \/ held' = held
          \/ held' = Reconciled("forward", {}) \/ held' = Reconciled("domain", {})
        BY <1>9 DEF Shutdowns
    <2>4. held' \in [Port -> {"nobody", "forward", "domain", "main"}]
        BY <2>1, ReconciledType
    <2>5. /\ kernel' \in {kernel, FALSE} /\ swept' \in {swept, TRUE, FALSE}
          /\ UNCHANGED faults \/ Fault
        BY <1>9, Zenon DEF Shutdowns
    <2>6. faults' \in 0 .. MaxFaults
        BY <2>5 DEF Fault
    <2>2. kernel' \in BOOLEAN /\ swept' \in BOOLEAN /\ faults' \in 0 .. MaxFaults
        BY <2>5, <2>6, Zenon
    <2>3. pc' \in {"stopDnat", "stopDomains", "drain"}
        BY <1>9 DEF Shutdowns
    <2>. QED
        BY <1>9, <2>2, <2>3, <2>4 DEF Shutdowns
<1>10. ASSUME NEW s \in Server, CloseServer(s) \/ ServeReturns(s)
       PROVE  ProcessType'
    BY <1>10 DEF CloseServer, ServeReturns
<1>11. CASE Exit \/ Dies
    BY <1>11, GoneType DEF Exit, Dies, Fatal, Gone, Fault
<1>12. CASE Provide
    BY <1>12 DEF Provide, process, File
<1>13. CASE TimePasses \/ \E b \in Browser : Visit(b)
    BY <1>13 DEF TimePasses, Visit, process
<1>14. ASSUME NEW b \in Browser, EditForwards(b)
       PROVE  ProcessType'
    <2>1. PICK F \in env.forwards :
              /\ conf' = [conf EXCEPT !.forwards = F, !.loads = ~ refused]
              /\ held' = Reconciled("forward", F)
        BY <1>14 DEF EditForwards
    <2>2. conf' \in Config(env)
        BY <2>1 DEF Config
    <2>3. held' \in [Port -> {"nobody", "forward", "domain", "main"}]
        BY <2>1, ReconciledType
    <2>. QED
        BY <1>14, <2>2, <2>3 DEF EditForwards
<1>15. ASSUME NEW b \in Browser, EditDomains(b)
       PROVE  ProcessType'
    <2>1. CASE refused' = TRUE /\ UNCHANGED <<conf, held>>
        BY <1>15, <2>1 DEF EditDomains
    <2>2. CASE /\ \E D \in env.domains :
                     /\ conf' = [conf EXCEPT !.domains = D, !.loads = TRUE]
                     /\ held' = Reconciled("domain",
                                           ExtraPorts([conf EXCEPT !.domains = D]))
               /\ refused' = FALSE
        <3>1. conf' \in Config(env)
            BY <2>2 DEF Config
        <3>2. held' \in [Port -> {"nobody", "forward", "domain", "main"}]
            BY <2>2, ReconciledType
        <3>. QED
            BY <1>15, <2>2, <3>1, <3>2 DEF EditDomains
    <2>. QED
        BY <1>15, <2>1, <2>2 DEF EditDomains
<1>16. ASSUME NEW b \in Browser, EditDNAT(b)
       PROVE  ProcessType'
    <2>1. PICK r \in env.dnat : /\ conf' = [conf EXCEPT !.dnat = r, !.loads = ~ refused]
                                /\ Rebuild(r)
        BY <1>16 DEF EditDNAT
    <2>2. r \in BOOLEAN
        BY <2>1
    <2>3. conf' \in Config(env)
        BY <2>1, <2>2 DEF Config
    <2>4. kernel' \in BOOLEAN /\ faults' \in 0 .. MaxFaults
        BY <1>0, <2>1, <2>2
    <2>. QED
        BY <1>16, <2>3, <2>4 DEF EditDNAT, process
<1>17. CASE UNCHANGED vars
    BY <1>17 DEF vars, process
<1>18. CASE LoadConfig
    BY <1>18, GoneType DEF LoadConfig, Fatal, Gone
<1>. QED
    BY <1>1, <1>2, <1>3, <1>4, <1>5, <1>6, <1>7, <1>8, <1>9, <1>10, <1>11, <1>12,
       <1>13, <1>14, <1>15, <1>16, <1>17, <1>18 DEF Next, Boot, Serving, Outside

-----------------------------------------------------------------------------
(* The invariant.                                                           *)

Inv == ProcessType /\ SessionType /\ CookieInv /\ FilesInv /\ KernelInv

LEMMA InitInv == Init => Inv
<1>. SUFFICES ASSUME Init PROVE Inv
    OBVIOUS
<1>1. ProcessType
    <2>1. /\ env \in Settings /\ conf \in Config(env) /\ refused = FALSE
          /\ held = Free /\ server = Idle
          /\ kernel = FALSE /\ late = FALSE /\ swept = FALSE
        BY DEF Init
    <2>2. pc \in Running \cup {"down", "failed"} /\ faults \in 0 .. MaxFaults
        BY DEF Init
    <2>3. cert \in File /\ key \in File
        BY DEF Init, File
    <2>. QED
        BY <2>1, <2>2, <2>3, GoneType DEF ProcessType
<1>2. SessionType /\ CookieInv
    BY DEF Init, SessionInit, SessionType, CookieInv, Never
<1>3. FilesInv /\ KernelInv
    BY DEF Init, FilesInv, KernelInv
<1>. QED
    BY <1>1, <1>2, <1>3 DEF Inv

(* The start reads the password from the environment.                       *)
LEMMA PasswordType ==
    ASSUME ProcessType, SessionType, [Next]_vars
    PROVE  password' \in Password
<1>1. CASE UNCHANGED password
    BY <1>1 DEF SessionType
<1>2. CASE Start
    BY <1>2 DEF Start, ProcessType
<1>. QED
    BY <1>1, <1>2, PasswordFrame

(* What touches the files: generating, which follows on one another in one  *)
(* process, and the operator, while no process is generating.               *)
LEMMA FilesStep ==
    ASSUME FilesInv, [Next]_vars
    PROVE  FilesInv'
<1>. USE DEF FilesInv, Goto, Steady, files, process, Generated
<1>1. CASE Start
    BY <1>1 DEF Start
<1>2. CASE Boot /\ ~ EnsureTLS /\ ~ Generate
    BY <1>2 DEF Boot, LoadConfig, ApplyForwards, ApplyDNAT, OtherTLS, LoadX509KeyPair,
        ApplyDomains, Listen, Notify, Fatal, Gone
<1>3. CASE EnsureTLS
    BY <1>3 DEF EnsureTLS, Exists
<1>4. CASE Generate
    BY <1>4 DEF Generate
<1>5. CASE Serving
    BY <1>5 DEF Serving, Bind, CloseServer, ServeReturns, Fatal, Gone
<1>6. CASE Shutdowns \/ Exit \/ Signal \/ Dies
    BY <1>6 DEF Shutdowns, Exit, Signal, Dies, Fatal, Gone
<1>7. CASE Provide
    BY <1>7 DEF Provide
<1>8. CASE TimePasses \/ \E b \in Browser : Visit(b)
    BY <1>8 DEF TimePasses, Visit
<1>9. CASE \E b \in Browser : EditForwards(b) \/ EditDomains(b) \/ EditDNAT(b)
    BY <1>9 DEF EditForwards, EditDomains, EditDNAT
<1>10. CASE UNCHANGED vars
    BY <1>10 DEF vars
<1>. QED
    BY <1>1, <1>2, <1>3, <1>4, <1>5, <1>6, <1>7, <1>8, <1>9, <1>10 DEF Next, Outside

(* The rules are cleared on the way to "stopDomains"; after it, an edit     *)
(* that puts one back is remembered in late until the next start.           *)
LEMMA KernelStep ==
    ASSUME KernelInv, [Next]_vars
    PROVE  KernelInv'
<1>. USE DEF KernelInv, Goto, Steady, process, history
<1>0. ASSUME UNCHANGED <<kernel, late, swept>>, pc' \in {pc, "down", "failed"}
      PROVE  KernelInv'
    BY <1>0
<1>1. CASE Start
    BY <1>1 DEF Start
<1>2. CASE Boot
    BY <1>2 DEF Boot, LoadConfig, ApplyForwards, ApplyDNAT, EnsureTLS, Generate, OtherTLS,
        LoadX509KeyPair, ApplyDomains, Listen, Notify, Fatal, Gone
<1>3. CASE Serving
    <2>1. UNCHANGED <<kernel, late, swept>> /\ pc' \in {pc, "failed"}
        BY <1>3 DEF Serving, Bind, CloseServer, ServeReturns, Fatal, Gone
    <2>. QED
        BY <1>0, <2>1
<1>4. CASE Shutdowns
    BY <1>4 DEF Shutdowns
<1>5. CASE Exit \/ Signal \/ Dies
    BY <1>5 DEF Exit, Signal, Dies, Fatal, Gone
<1>6. CASE Provide \/ TimePasses \/ \E b \in Browser : Visit(b)
    BY <1>6 DEF Provide, TimePasses, Visit
<1>7. CASE \E b \in Browser : EditForwards(b) \/ EditDomains(b)
    <2>1. UNCHANGED <<pc, kernel, late, swept>>
        BY <1>7 DEF EditForwards, EditDomains
    <2>. QED
        BY <1>0, <2>1
<1>8. CASE \E b \in Browser : EditDNAT(b)
    BY <1>8 DEF EditDNAT
<1>9. CASE UNCHANGED vars
    BY <1>9 DEF vars
<1>. QED
    BY <1>1, <1>2, <1>3, <1>4, <1>5, <1>6, <1>7, <1>8, <1>9 DEF Next, Outside

LEMMA NextInv ==
    ASSUME Inv, [Next]_vars
    PROVE  Inv'
BY ProcessTypeStep, PasswordType, SessionStep, FilesStep, KernelStep DEF Inv

THEOREM Invariance == Spec => []Inv
<1>1. Inv /\ [Next]_vars => Inv'
    BY NextInv
<1>. QED
    BY InitInv, <1>1, PTL DEF Spec

-----------------------------------------------------------------------------
(* The theorems.                                                            *)

(* Every reachable state of the process is well typed.                      *)
THEOREM TypeCorrect == Spec => []TypeOK
<1>1. Inv => TypeOK
    BY DEF Inv, ProcessType, TypeOK
<1>. QED
    BY Invariance, <1>1, PTL

(* A shutdown whose flushes work leaves no rule of ours in the kernel,      *)
(* whatever crashes, failed commands and edits came before it, unless an    *)
(* edit after its own flushes has put one back (main.go:226).               *)
THEOREM ShutdownClears == Spec => StopClears
<1>1. ASSUME Inv, pc = "drain", swept
      PROVE  ~ kernel \/ late
    BY <1>1 DEF Inv, KernelInv
<1>2. Inv /\ [Next]_vars =>
          [pc = "drain" /\ pc' = "down" /\ swept => ~ kernel \/ late]_vars
    BY <1>1
<1>. QED
    BY Invariance, <1>2, PTL DEF Spec, StopClears

(* No step of the process writes to a pair of files that is the operator's  *)
(* own (tls.go:22).                                                         *)
THEOREM OwnPairUntouched == Spec => OwnPairKept
<1>. DEFINE Kept == cert = "own" /\ key = "own" /\ pc' # pc => UNCHANGED files
<1>1. ASSUME Inv, Next, cert = "own", key = "own", pc' # pc
      PROVE  UNCHANGED files
    <2>. USE <1>1 DEF Inv, FilesInv, Goto, Steady, files, process, Generated
    <2>1. CASE Start
        BY <2>1 DEF Start
    <2>2. CASE Boot /\ ~ Generate
        BY <2>2 DEF Boot, LoadConfig, ApplyForwards, ApplyDNAT, EnsureTLS, OtherTLS,
            LoadX509KeyPair, ApplyDomains, Listen, Notify
    <2>3. CASE Generate
        BY <2>3 DEF Generate
    <2>4. CASE Serving
        BY <2>4 DEF Serving, Bind, CloseServer, ServeReturns
    <2>5. CASE Shutdowns \/ Exit \/ Signal \/ Dies
        BY <2>5 DEF Shutdowns, Exit, Signal, Dies
    <2>6. CASE Provide \/ TimePasses \/ \E b \in Browser : Visit(b)
        BY <2>6 DEF Provide, TimePasses, Visit
    <2>7. CASE \E b \in Browser : EditForwards(b) \/ EditDomains(b) \/ EditDNAT(b)
        BY <2>7 DEF EditForwards, EditDomains, EditDNAT
    <2>. QED
        BY <2>1, <2>2, <2>3, <2>4, <2>5, <2>6, <2>7 DEF Next, Outside
<1>2. Inv /\ [Next]_vars => [Kept]_vars
    BY <1>1 DEF vars, process
<1>. QED
    BY Invariance, <1>2, PTL DEF Spec, OwnPairKept

(* Nobody edits the configuration who has not, from an allowed address,     *)
(* entered the password of the running process within the lifetime of a     *)
(* session (auth.go:96, admin.go:59).                                       *)
THEOREM EditsAreEarned == Spec => EditsEarned
<1>. DEFINE Earned == conf' # conf => \E b \in Inside : entered[b][password] <= TTL
<1>1. ASSUME Inv, NEW b \in Browser, MayEdit(b)
      PROVE  \E u \in Inside : entered[u][password] <= TTL
    <2>1. /\ cookie[b] # NoCookie /\ cookie[b] \in Cookie
          /\ cookie[b].key = password /\ cookie[b].age <= TTL
        BY <1>1 DEF MayEdit, SessionValid, Inv, SessionType
    <2>2. b \in Inside /\ entered[b][password] <= cookie[b].age
        BY <1>1, <2>1 DEF Inv, CookieInv
    <2>3. cookie[b].age \in Nat /\ entered[b][password] \in Nat
        BY <1>1, <2>1 DEF Inv, SessionType, Cookie, Never
    <2>. QED
        BY <2>1, <2>2, <2>3
<1>2. ASSUME Next, conf' # conf
      PROVE  \E b \in Browser : MayEdit(b)
    <2>. USE <1>2 DEF Steady, process, store
    <2>1. CASE Start
        BY <2>1 DEF Start
    <2>2. CASE Boot
        BY <2>2 DEF Boot, LoadConfig, ApplyForwards, ApplyDNAT, EnsureTLS, Generate, OtherTLS,
            LoadX509KeyPair, ApplyDomains, Listen, Notify
    <2>3. CASE Serving
        BY <2>3 DEF Serving, Bind, CloseServer, ServeReturns
    <2>4. CASE Shutdowns \/ Exit \/ Signal \/ Dies
        BY <2>4 DEF Shutdowns, Exit, Signal, Dies
    <2>5. CASE Provide \/ TimePasses \/ \E b \in Browser : Visit(b)
        BY <2>5 DEF Provide, TimePasses, Visit
    <2>6. CASE \E b \in Browser : EditForwards(b) \/ EditDomains(b) \/ EditDNAT(b)
        BY <2>6 DEF EditForwards, EditDomains, EditDNAT, Handling
    <2>. QED
        BY <2>1, <2>2, <2>3, <2>4, <2>5, <2>6 DEF Next, Outside
<1>3. Inv /\ [Next]_vars => [Earned]_vars
    BY <1>1, <1>2 DEF vars
<1>. QED
    BY Invariance, <1>3, PTL DEF Spec, EditsEarned
=============================================================================
