------------------------------- MODULE Lifecycle -------------------------------
(***************************************************************************)
(* The process from its start to its end and back (main.go, tls.go): what  *)
(* main opens and generates, in its order, the errors that end it, SIGTERM *)
(* and the shutdown, and systemd, which starts it again after a failure.   *)
(* The managers of the other modules appear as the ports they hold and the *)
(* kernel rules they leave; each Apply is one step here, and an edit of    *)
(* the admin's is one with its save and the Apply it fires.                *)
(***************************************************************************)
EXTENDS AdminSession

CONSTANTS
    Port,
    ProxyPort, AdminPort, RedirectPort,     \* those main itself binds
    Settings,   \* the environment, and what the admin may save under it
    MaxFaults   \* bound: kills, and failing writes, commands and servers

Server == {"proxy", "admin", "redirect"}
PortOf == [s \in Server |-> CASE s = "proxy" -> ProxyPort
                              [] s = "admin" -> AdminPort
                              [] OTHER -> RedirectPort]

(* loads is whether NewStore accepts the file: a domain in it compiles.     *)
Config(e) == [forwards : e.forwards, domains : e.domains, dnat : e.dnat,
              loads : BOOLEAN]

(* What a certificate or key file holds: a half of one of these pairs.      *)
Generated == {"gen1", "gen2"}
File == Generated \cup {"missing", "torn", "own"}

ASSUME LifecycleAssumption ==
    /\ {ProxyPort, AdminPort, RedirectPort} \subseteq Port
    /\ MaxFaults \in Nat
    /\ Settings \subseteq
           [auth : BOOLEAN, mode : {"auto", "self", "file", "none"},
            adminTLS : BOOLEAN, redirect : BOOLEAN,
            forwards : SUBSET SUBSET Port, domains : SUBSET SUBSET Port,
            badTargets : BOOLEAN, dnat : SUBSET BOOLEAN,
            passwords : SUBSET Password]

VARIABLES
    env,        \* the environment file
    pc,         \* where main is
    conf,       \* the saved configuration: ports of forwards, of domains, any rule
    refused,    \* whether memory holds a domain that was refused: it does not compile
    held,       \* who of the process holds a port
    server,     \* the goroutines that serve
    kernel,     \* whether the DNAT chains hold rules
    cert, key,  \* the files at TLS_CERT and TLS_KEY
    faults,
    late,       \* whether DNAT was edited after its Shutdown, and
    swept       \* whether that Shutdown could flush the chains (history variables)

files   == <<cert, key>>
process == <<pc, held, server>>
store   == <<conf, refused>>
history == <<late, swept>>
vars    == <<env, process, store, kernel, files, faults, history, session>>

Booting  == {"config", "forwards", "dnat", "tls", "openCert", "writeCert", "openKey",
             "writeKey", "load", "domains", "listen", "notify"}
Stopping == {"stopForwards", "stopDnat", "stopDomains", "drain"}
Running  == Booting \cup Stopping \cup {"up"}

TypeOK ==
    /\ SessionType
    /\ env \in Settings
    /\ pc \in Running \cup {"down", "failed"}
    /\ conf \in Config(env) /\ refused \in BOOLEAN
    /\ held \in [Port -> {"nobody", "forward", "domain", "main"}]
    /\ server \in [Server -> {"none", "starting", "serving", "closed", "done"}]
    /\ kernel \in BOOLEAN
    /\ cert \in File /\ key \in File
    /\ faults \in 0 .. MaxFaults
    /\ late \in BOOLEAN /\ swept \in BOOLEAN

Free == [p \in Port |-> "nobody"]
Idle == [s \in Server |-> "none"]

Init ==
    /\ SessionInit
    /\ env \in Settings
    /\ password \in env.passwords
    /\ pc = "down"
    /\ conf \in Config(env) /\ conf.loads /\ refused = FALSE
    /\ held = Free /\ server = Idle
    /\ kernel = FALSE
    /\ cert \in {"missing", "own"} /\ key \in {"missing", "own"}
    /\ faults = 0 /\ late = FALSE /\ swept = FALSE

Goto(from, to) == pc = from /\ pc' = to

Gone(to) == pc' = to /\ held' = Free /\ server' = Idle

(* log.Fatalf: exit status 1, without any Shutdown.                         *)
Fatal == Gone("failed")

Fault == faults < MaxFaults /\ faults' = faults + 1

Steady == UNCHANGED <<env, store, faults, history, session>>

-----------------------------------------------------------------------------
(* The start.                                                               *)

(* The password is read from the environment file, which may have changed.  *)
Start ==
    /\ pc \in {"down", "failed"}
    /\ pc' = "config"
    /\ password' \in env.passwords
    /\ late' = FALSE /\ swept' = FALSE
    /\ UNCHANGED <<env, held, server, store, kernel, files, faults, cookie, entered>>

(* ADMIN_PASSWORD must be set, NewStore must load and compile the file, and *)
(* NewAuth must understand INTERNAL_CIDR.  Memory is then what was loaded.  *)
LoadConfig ==
    /\ pc = "config"
    /\ IF env.auth /\ conf.loads
       THEN pc' = "forwards" /\ refused' = FALSE /\ UNCHANGED <<held, server>>
       ELSE Fatal /\ UNCHANGED refused
    /\ UNCHANGED <<env, conf, kernel, files, faults, history, session>>

(* Listeners that are not wanted are closed, and what is free is bound.     *)
Reconciled(who, want) ==
    [p \in Port |-> CASE p \in want /\ held[p] = "nobody" -> who
                      [] p \notin want /\ held[p] = who -> "nobody"
                      [] OTHER -> held[p]]

ExtraPorts(config) == config.domains \ {ProxyPort, RedirectPort}

ApplyForwards ==
    /\ Goto("forwards", "dnat")
    /\ held' = Reconciled("forward", conf.forwards)
    /\ Steady /\ UNCHANGED <<server, kernel, files>>

(* Apply flushes and rebuilds the chains; when commands fail, rules that    *)
(* were there may stay, and new ones may be missing.                        *)
Rebuild(r) ==
    \/ kernel' = r /\ UNCHANGED faults
    \/ kernel' \in {kernel, r, FALSE} /\ Fault

ApplyDNAT ==
    /\ Goto("dnat", "tls")
    /\ Rebuild(conf.dnat)
    /\ UNCHANGED <<env, store, held, server, files, history, session>>

Exists(f) == f # "missing"

(* Mutant: one file is enough for ensureTLS to leave things as they are. *)
EnsureTLS_either ==
    /\ env.mode = "self"
    /\ Goto("tls", IF Exists(cert) \/ Exists(key) THEN "load" ELSE "openCert")
    /\ Steady /\ UNCHANGED <<held, server, kernel, files>>

(* Mutant: a pair is generated by every start. *)
EnsureTLS_always ==
    /\ env.mode = "self"
    /\ Goto("tls", "openCert")
    /\ Steady /\ UNCHANGED <<held, server, kernel, files>>

EnsureTLS ==
    /\ env.mode = "self"
    /\ Goto("tls", IF Exists(cert) /\ Exists(key) THEN "load" ELSE "openCert")
    /\ Steady /\ UNCHANGED <<held, server, kernel, files>>

(* "none" is a TLS_MODE main does not know, or "auto" without EXTERNAL_HOST. *)
OtherTLS ==
    /\ pc = "tls"
    /\ \/ env.mode = "auto" /\ pc' = "domains" /\ UNCHANGED <<held, server>>
       \/ env.mode = "none" /\ Fatal
       \/ /\ env.mode = "file"
          /\ IF Exists(cert) /\ Exists(key)
             THEN pc' = "load" /\ UNCHANGED <<held, server>>
             ELSE Fatal
    /\ Steady /\ UNCHANGED <<kernel, files>>

(* Each file is truncated when it is opened and filled when it is written.  *)
Generate ==
    /\ \/ Goto("openCert", "writeCert") /\ cert' = "torn" /\ UNCHANGED key
       \/ Goto("writeCert", "openKey") /\ cert' \in Generated \ {key} /\ UNCHANGED key
       \/ Goto("openKey", "writeKey") /\ key' = "torn" /\ UNCHANGED cert
       \/ Goto("writeKey", "load") /\ key' = cert /\ UNCHANGED cert
    /\ Steady /\ UNCHANGED <<held, server, kernel>>

Pair == cert = key /\ cert \in Generated \cup {"own"}

LoadX509KeyPair ==
    /\ pc = "load"
    /\ IF Pair THEN pc' = "domains" /\ UNCHANGED <<held, server>> ELSE Fatal
    /\ Steady /\ UNCHANGED <<kernel, files>>

ApplyDomains ==
    /\ Goto("domains", "listen")
    /\ held' = Reconciled("domain", ExtraPorts(conf))
    /\ Steady /\ UNCHANGED <<server, kernel, files>>

(* net.Listen on PROXY_ADDR, then a goroutine for each server.              *)
Listen ==
    /\ pc = "listen"
    /\ IF held[ProxyPort] = "nobody"
       THEN /\ pc' = "notify"
            /\ held' = [held EXCEPT ![ProxyPort] = "main"]
            /\ server' = [Idle EXCEPT !["proxy"] = "serving", !["admin"] = "starting",
                                      !["redirect"] = IF env.redirect THEN "starting" ELSE @]
       ELSE Fatal
    /\ Steady /\ UNCHANGED <<kernel, files>>

Bindable(s) ==
    /\ held[PortOf[s]] = "nobody"
    /\ s = "admin" /\ env.adminTLS => Pair

(* ListenAndServe of the admin and the redirect server.                     *)
Bind(s) ==
    /\ server[s] = "starting"
    /\ IF Bindable(s)
       THEN /\ server' = [server EXCEPT ![s] = "serving"]
            /\ held' = [held EXCEPT ![PortOf[s]] = "main"]
            /\ UNCHANGED pc
       ELSE Fatal
    /\ Steady /\ UNCHANGED <<kernel, files>>

Notify ==
    /\ Goto("notify", "up")
    /\ Steady /\ UNCHANGED <<held, server, kernel, files>>

-----------------------------------------------------------------------------
(* The end.                                                                 *)

(* SIGTERM ends a process that has not asked for it yet on the spot.        *)
Signal ==
    /\ \/ Goto("up", "stopForwards") /\ UNCHANGED <<held, server>>
       \/ pc \in Booting /\ Gone("down")
    /\ Steady /\ UNCHANGED <<kernel, files>>

(* Mutant: the rules are flushed first, while the forwards, and the admin,  *)
(* are still at work, and what an edit puts back meanwhile stays.           *)
Shutdowns_rulesFirst ==
    /\ \/ /\ Goto("stopForwards", "stopDnat")
          /\ kernel' = FALSE /\ swept' = TRUE
          /\ UNCHANGED held
       \/ /\ Goto("stopDnat", "stopDomains")
          /\ held' = Reconciled("forward", {})
          /\ UNCHANGED <<kernel, swept>>
       \/ /\ Goto("stopDomains", "drain")
          /\ held' = Reconciled("domain", {})
          /\ UNCHANGED <<kernel, swept>>
    /\ UNCHANGED <<env, store, server, files, faults, late, session>>

(* Shutdown of the forwarder, of the DNAT manager, which does not look at   *)
(* the outcome of its flushes, and of the router.                           *)
Shutdowns ==
    /\ \/ /\ Goto("stopForwards", "stopDnat")
          /\ held' = Reconciled("forward", {})
          /\ UNCHANGED <<kernel, swept, faults>>
       \/ /\ Goto("stopDnat", "stopDomains")
          /\ \/ kernel' = FALSE /\ swept' = TRUE /\ UNCHANGED faults
             \/ kernel' \in {FALSE, kernel} /\ swept' = FALSE /\ Fault
          /\ UNCHANGED held
       \/ /\ Goto("stopDomains", "drain")
          /\ held' = Reconciled("domain", {})
          /\ UNCHANGED <<kernel, swept, faults>>
    /\ UNCHANGED <<env, store, server, files, late, session>>

(* http.Server.Shutdown: the listener is closed, and one that is yet to be  *)
(* opened will not be.                                                      *)
CloseServer(s) ==
    /\ pc = "drain"
    /\ server[s] \in {"starting", "serving"}
    /\ server' = [server EXCEPT ![s] = "closed"]
    /\ held' = [held EXCEPT ![PortOf[s]] = IF server[s] = "serving" THEN "nobody" ELSE @]
    /\ Steady /\ UNCHANGED <<pc, kernel, files>>

(* Mutant: wg.Done is not reached for a server that has been closed. *)
ServeReturns_undone(s) == FALSE /\ UNCHANGED vars

ServeReturns(s) ==
    /\ server[s] = "closed"
    /\ server' = [server EXCEPT ![s] = "done"]
    /\ Steady /\ UNCHANGED <<pc, held, kernel, files>>

(* wg.Wait returns, and main: exit status 0.                                *)
Exit ==
    /\ pc = "drain"
    /\ \A s \in Server : server[s] \in {"none", "done"}
    /\ Gone("down")
    /\ Steady /\ UNCHANGED <<kernel, files>>

(* The process is killed, a read or write of one of its files fails, an     *)
(* address of main's is not this machine's (yet) or another program has the *)
(* port, or Accept of a server fails, which is fatal, too.                  *)
Dies ==
    /\ pc \in Running
    /\ Fault
    /\ Fatal
    /\ UNCHANGED <<env, store, kernel, files, history, session>>

-----------------------------------------------------------------------------
(* The admin, whose handlers run until the process ends, and the operator.  *)

Handling(b) == server["admin"] \in {"serving", "closed", "done"} /\ MayEdit(b)

(* Forward and DNAT edits save all of memory without compiling it.          *)
EditForwards(b) ==
    /\ Handling(b)
    /\ \E F \in env.forwards :
          /\ conf' = [conf EXCEPT !.forwards = F, !.loads = ~ refused]
          /\ held' = Reconciled("forward", F)
    /\ UNCHANGED <<env, pc, refused, server, kernel, files, faults, history, session>>

(* A domain edit compiles before it saves.  One that does not compile is    *)
(* refused and stays in memory, and with it every later one is refused that *)
(* does not change or delete the domain.                                    *)
EditDomains(b) ==
    /\ Handling(b)
    /\ \/ /\ \E D \in env.domains :
                /\ conf' = [conf EXCEPT !.domains = D, !.loads = TRUE]
                /\ held' = Reconciled("domain", ExtraPorts([conf EXCEPT !.domains = D]))
          /\ refused' = FALSE
       \/ /\ env.badTargets
          /\ refused' = TRUE
          /\ UNCHANGED <<conf, held>>
    /\ UNCHANGED <<env, pc, server, kernel, files, faults, history, session>>

EditDNAT(b) ==
    /\ Handling(b)
    /\ \E r \in env.dnat :
          /\ conf' = [conf EXCEPT !.dnat = r, !.loads = ~ refused]
          /\ Rebuild(r)
    /\ late' = (late \/ pc \in {"stopDomains", "drain"})
    /\ UNCHANGED <<env, process, refused, files, swept, session>>

(* The operator removes a file, or puts one of a pair of his own in place;  *)
(* not in the very moment the process looks at them.                        *)
Provide ==
    /\ pc \in {"down", "up"}
    /\ \E f \in {"missing", "own"} :
          \/ cert' = f /\ UNCHANGED key
          \/ key' = f /\ UNCHANGED cert
    /\ UNCHANGED <<env, process, store, kernel, faults, history, session>>

Visit(b) ==
    /\ server["admin"] = "serving"
    /\ Logout(b) \/ \E p \in Password : Login(b, p)
    /\ UNCHANGED <<env, process, store, kernel, files, faults, history>>

TimePasses ==
    Tick /\ UNCHANGED <<env, process, store, kernel, files, faults, history>>

-----------------------------------------------------------------------------
Boot ==
    \/ LoadConfig \/ ApplyForwards \/ ApplyDNAT \/ EnsureTLS \/ OtherTLS \/ Generate
    \/ LoadX509KeyPair \/ ApplyDomains \/ Listen \/ Notify

Serving == \E s \in Server : Bind(s) \/ CloseServer(s) \/ ServeReturns(s)

Outside ==
    \/ Signal \/ Dies \/ Provide \/ TimePasses
    \/ \E b \in Browser : Visit(b) \/ EditForwards(b) \/ EditDomains(b) \/ EditDNAT(b)

Next == Start \/ Boot \/ Serving \/ Shutdowns \/ Exit \/ Outside

Spec == Init /\ [][Next]_vars

(* Code that can run does, and systemd starts what has failed again (its    *)
(* unit: Restart=on-failure), two seconds later and as often as it takes.   *)
Fairness ==
    /\ WF_vars(pc = "failed" /\ Start)
    /\ WF_vars(Boot) /\ WF_vars(Shutdowns) /\ WF_vars(Exit)
    /\ \A s \in Server : WF_vars(Bind(s) \/ CloseServer(s) \/ ServeReturns(s))

FairSpec == Spec /\ Fairness

-----------------------------------------------------------------------------
(* Properties.                                                              *)

Wanted == {s \in Server : s # "redirect" \/ env.redirect}
Ready  == pc = "up" /\ \A s \in Wanted : server[s] = "serving"

(* What keeps a start from succeeding, however often it is tried: settings  *)
(* main does not accept, a configuration that does not compile, a rule on a *)
(* port of main's own, which its manager takes before main gets there, and  *)
(* certificate files that exist and are no pair, or are missing where the   *)
(* operator has to provide them.                                            *)
EnvSound == env.auth /\ env.mode # "none"
ConfigLoads == conf.loads
PortsClear == \A s \in Wanted : PortOf[s] \notin conf.forwards \cup ExtraPorts(conf)
FilesClear ==
    \/ Pair
    \/ env.mode = "auto" /\ ~ env.adminTLS
    \/ env.mode = "self" /\ ~ (Exists(cert) /\ Exists(key))
Startable == EnvSound /\ ConfigLoads /\ PortsClear /\ FilesClear

(* After any failure the service is up again, unless it is stopped or one   *)
(* of these four obstacles is in its way; faults of the machine (Dies) last *)
(* for a while only.                                                        *)
ComesBack ==
    pc = "failed" /\ Startable ~>
        Ready \/ pc = "down" \/ (pc = "failed" /\ ~ Startable)

(* A shutdown comes to its end, although wg.Wait waits for every server.    *)
StopEnds == pc = "stopForwards" ~> pc \in {"down", "failed"}

(* A shutdown leaves no rule in the kernel, whatever crashes and failed     *)
(* commands came before ("stopping inproxy stops the forwarding"), with two *)
(* exceptions: a flush of that shutdown has failed, which it ignores, or    *)
(* the admin server, shut down last, has let one more DNAT edit through.    *)
StopClears == [][pc = "drain" /\ pc' = "down" /\ swept => ~ kernel \/ late]_vars

(* A pair the operator has put in place is "used as-is", by every start.    *)
OwnPairKept ==
    [][cert = "own" /\ key = "own" /\ pc' # pc => UNCHANGED files]_vars

(* The configuration is edited only from an allowed address by someone who  *)
(* gave the password of today's process in the last twelve hours.           *)
EditsEarned ==
    [][conf' # conf => \E b \in Inside : entered[b][password] <= TTL]_vars
=============================================================================
