----------------------------- MODULE ConfigStore -----------------------------
(***************************************************************************)
(* The Store of config.go: four collections of rules in memory, the lookup *)
(* tables compiled from two of them, and the JSON file they are persisted  *)
(* to.  Every edit runs under s.mu from its first check to the end of      *)
(* persistLocked, so edits and readers never see one another half done;    *)
(* what can come between two steps of an edit is the end of the process    *)
(* and the failure of a file operation.                                    *)
(*                                                                         *)
(* Site and domain edits go through commitLocked: recompile, then persist. *)
(* Forward and DNAT edits only persist.  An edit that fails on the way is  *)
(* answered with an error but is NOT rolled back: memory keeps it.         *)
(***************************************************************************)
CONSTANTS
    Host,           \* host names the admin edits (lower-cased)
    DefaultHost,    \* EXTERNAL_HOST, or NoKey when it is not set
    Route,          \* routes of a site, as values
    EnabledRoute,   \* those with the enabled flag
    Name,           \* names of forwards and of DNAT rules
    Listen,         \* canonical listen addresses / public ports
    Port,           \* public ports of domain forwards
    Target,         \* backend addresses net.SplitHostPort accepts
    BadTarget,      \* those of them url.Parse rejects
    SiteInput,      \* what the admin forms submit
    DomainInput,
    ForwardInput,
    DNATInput,
    LegacyRoutes,   \* the routes of a first-release file
    InitialFiles,   \* what may lie at CONFIG_PATH before the first start
    NoKey

INSTANCE Rules

HostKey     == Host \cup ({DefaultHost} \ {NoKey})
Site        == [key : HostKey, routes : SUBSET Route]
PortForward == [port : Port, target : Target, manageCert : BOOLEAN,
                enabled : BOOLEAN]
Domain      == [key : HostKey, forwards : SUBSET PortForward]
Forward     == [key : Name, proto : {"tcp", "udp", "tcp+udp"}, listen : Listen]
DNATRule    == [key : Name, proto : {"tcp", "udp"}, listen : Listen]

Config      == [sites : SUBSET Site, forwards : SUBSET Forward,
                dnat : SUBSET DNATRule, domains : SUBSET Domain]
EmptyConfig == [sites |-> {}, forwards |-> {}, dnat |-> {}, domains |-> {}]

(* What a path may hold: nothing, an empty file, a file cut short, the bare *)
(* route array of the first release, or the object form.                    *)
File       == [kind : {"missing", "blank", "torn", "legacy", "object"},
               config : Config]
FileOf(k)  == [kind |-> k, config |-> EmptyConfig]
Saved(c)   == [kind |-> "object", config |-> c]

ASSUME StoreAssumption ==
    /\ NoKey \notin Host \cup Name
    /\ EnabledRoute \subseteq Route
    /\ LegacyRoutes \subseteq Route
    /\ BadTarget \subseteq Target
    /\ SiteInput \subseteq [key : Host, routes : SUBSET Route]
    /\ DomainInput \subseteq [key : Host, forwards : SUBSET PortForward]
    /\ ForwardInput \subseteq Forward
    /\ DNATInput \subseteq DNATRule
    /\ InitialFiles \subseteq {FileOf(k) : k \in {"missing", "blank", "legacy"}}

-----------------------------------------------------------------------------
(* Validation and compilation.                                              *)

(* Port 80 is plaintext: its TLS settings are dropped.                      *)
NormalForward(f) == [f EXCEPT !.manageCert = f.port # 80 /\ f.manageCert]
Normalised(d)    == [d EXCEPT !.forwards = {NormalForward(f) : f \in d.forwards}]

ValidDomain(d) ==
    /\ d.forwards # {}
    /\ \A f, g \in d.forwards : f.port = g.port => f = g

(* Port 80 and terminate-mode forwards get a reverse proxy, whose target    *)
(* must parse as a URL.                                                     *)
NeedsProxy(f) == f.enabled /\ (f.port = 80 \/ f.manageCert)

Compilable(domains) ==
    \A d \in domains : \A f \in d.forwards :
        NeedsProxy(f) => f.target \notin BadTarget

CompiledSites(sites) ==
    {[host |-> s.key, routes |-> s.routes \cap EnabledRoute] : s \in sites}

CompiledDomains(domains) ==
    UNION {{[host |-> d.key, rule |-> f] : f \in {g \in d.forwards : g.enabled}}
               : d \in domains}

(* Legacy routes are wrapped into one site of the default host; with no     *)
(* default host there is no site to wrap them into.                         *)
Migrated(routes, host) ==
    IF routes = {} \/ host = NoKey
    THEN {} ELSE {[key |-> host, routes |-> routes]}

(* Mutant: the array form is taken for an empty configuration. *)
Loaded_drop(f) == IF f.kind = "object" THEN f.config ELSE EmptyConfig

Loaded(f) ==
    CASE f.kind = "object" -> f.config
      [] f.kind = "legacy" ->
             [EmptyConfig EXCEPT !.sites = Migrated(LegacyRoutes, DefaultHost)]
      [] OTHER -> EmptyConfig

-----------------------------------------------------------------------------
VARIABLES
    proc,       \* "down", "booting" (inside NewStore), "up"
    pc,         \* how far the holder of s.mu is in persistLocked
    mem,        \* s.sites, s.forwards, s.dnat, s.domains
    siteTable,  \* s.compiledSites
    domTable,   \* s.compiledDom
    disk,       \* the file at s.path
    tmp,        \* the file at s.path + ".tmp"
    reply       \* the outcome of the last edit that reached the store

tables == <<siteTable, domTable>>
vars   == <<proc, pc, mem, tables, disk, tmp, reply>>

TypeOK ==
    /\ proc \in {"down", "booting", "up"}
    /\ pc \in {"idle", "open", "write", "rename"}
    /\ mem \in Config
    /\ siteTable \subseteq [host : HostKey, routes : SUBSET Route]
    /\ domTable \subseteq [host : HostKey, rule : PortForward]
    /\ disk \in File
    /\ tmp \in File
    /\ reply \in {"none", "ok", "error"}

Init ==
    /\ proc = "down"
    /\ pc = "idle"
    /\ mem = EmptyConfig
    /\ siteTable = {} /\ domTable = {}
    /\ disk \in InitialFiles
    /\ tmp = FileOf("missing")
    /\ reply = "none"

Unlocked == proc = "up" /\ pc = "idle"

-----------------------------------------------------------------------------
(* Edits.                                                                   *)

(* Mutant: both tables are kept when a domain does not compile.             *)
Recompile_atomic(config) ==
    IF Compilable(config.domains)
    THEN /\ siteTable' = CompiledSites(config.sites)
         /\ domTable' = CompiledDomains(config.domains)
    ELSE UNCHANGED tables

(* recompileLocked replaces the site table first; a domain that does not    *)
(* compile makes it return before the domain table is replaced.             *)
Recompile(config) ==
    /\ siteTable' = CompiledSites(config.sites)
    /\ domTable' = IF Compilable(config.domains)
                   THEN CompiledDomains(config.domains) ELSE domTable

(* Mutant: persist without looking at the outcome of recompileLocked. *)
Commit_unchecked(config) ==
    /\ Unlocked
    /\ mem' = config
    /\ Recompile(config)
    /\ pc' = "open"
    /\ UNCHANGED <<proc, disk, tmp, reply>>

Commit(config) ==
    /\ Unlocked
    /\ mem' = config
    /\ Recompile(config)
    /\ \/ /\ Compilable(config.domains)
          /\ pc' = "open"
          /\ reply' = reply
       \/ /\ ~ Compilable(config.domains)
          /\ reply' = "error"
          /\ pc' = pc
    /\ UNCHANGED <<proc, disk, tmp>>

Store(config) ==
    /\ Unlocked
    /\ mem' = config
    /\ pc' = "open"
    /\ UNCHANGED <<proc, tables, disk, tmp, reply>>

UpsertSite(old, s) ==
    /\ CanUpsert(mem.sites, old, s)
    /\ Commit([mem EXCEPT !.sites = Upserted(mem.sites, old, s)])

DeleteSite(k) ==
    /\ HasKey(mem.sites, k)
    /\ Commit([mem EXCEPT !.sites = Without(mem.sites, k)])

UpsertDomain(old, input) ==
    LET d == Normalised(input) IN
    /\ ValidDomain(input)
    /\ CanUpsert(mem.domains, old, d)
    /\ Commit([mem EXCEPT !.domains = Upserted(mem.domains, old, d)])

DeleteDomain(k) ==
    /\ HasKey(mem.domains, k)
    /\ Commit([mem EXCEPT !.domains = Without(mem.domains, k)])

UpsertForward(old, f) ==
    /\ ClaimFree(mem.forwards, f)
    /\ CanUpsert(mem.forwards, old, f)
    /\ Store([mem EXCEPT !.forwards = Upserted(mem.forwards, old, f)])

DeleteForward(k) ==
    /\ HasKey(mem.forwards, k)
    /\ Store([mem EXCEPT !.forwards = Without(mem.forwards, k)])

UpsertDNAT(old, d) ==
    /\ ClaimFree(mem.dnat, d)
    /\ CanUpsert(mem.dnat, old, d)
    /\ Store([mem EXCEPT !.dnat = Upserted(mem.dnat, old, d)])

DeleteDNAT(k) ==
    /\ HasKey(mem.dnat, k)
    /\ Store([mem EXCEPT !.dnat = Without(mem.dnat, k)])

-----------------------------------------------------------------------------
(* persistLocked: os.WriteFile truncates the temporary file and fills it,   *)
(* os.Rename puts it in place of the configuration.                         *)

(* Mutant: the configuration file itself is truncated and rewritten. *)
OpenTmp_inPlace ==
    /\ pc = "open"
    /\ disk' = FileOf("torn")
    /\ pc' = "write"
    /\ UNCHANGED <<proc, mem, tables, tmp, reply>>

OpenTmp ==
    /\ pc = "open"
    /\ tmp' = FileOf("torn")
    /\ pc' = "write"
    /\ UNCHANGED <<proc, mem, tables, disk, reply>>

WriteTmp ==
    /\ pc = "write"
    /\ tmp' = Saved(mem)
    /\ pc' = "rename"
    /\ UNCHANGED <<proc, mem, tables, disk, reply>>

RenameTmp ==
    /\ pc = "rename"
    /\ disk' = tmp
    /\ tmp' = FileOf("missing")
    /\ pc' = "idle"
    /\ proc' = "up"
    /\ reply' = IF proc = "up" THEN "ok" ELSE reply
    /\ UNCHANGED <<mem, tables>>

(* Mutant: the error of a file operation is dropped. *)
PersistFails_silent ==
    /\ pc # "idle"
    /\ pc' = "idle"
    /\ proc' = IF proc = "up" THEN "up" ELSE "down"
    /\ reply' = IF proc = "up" THEN "ok" ELSE reply
    /\ UNCHANGED <<mem, tables, disk, tmp>>

(* Any of the three file operations fails.  An edit is answered with an     *)
(* error; NewStore gives up and main exits.                                 *)
PersistFails ==
    /\ pc # "idle"
    /\ pc' = "idle"
    /\ proc' = IF proc = "up" THEN "up" ELSE "down"
    /\ reply' = IF proc = "up" THEN "error" ELSE reply
    /\ UNCHANGED <<mem, tables, disk, tmp>>

-----------------------------------------------------------------------------
(* The life of the process.                                                 *)

(* A crash, a kill or a clean stop: the store has no shutdown step, so all  *)
(* of them lose exactly the memory.                                         *)
Stop ==
    /\ proc # "down"
    /\ proc' = "down"
    /\ pc' = "idle"
    /\ mem' = EmptyConfig
    /\ siteTable' = {} /\ domTable' = {}
    /\ reply' = "none"
    /\ UNCHANGED <<disk, tmp>>

(* NewStore with no file: an empty configuration is persisted first.        *)
BootFresh ==
    /\ proc = "down"
    /\ disk.kind = "missing"
    /\ proc' = "booting"
    /\ pc' = "open"
    /\ mem' = EmptyConfig
    /\ Recompile(EmptyConfig)
    /\ UNCHANGED <<disk, tmp, reply>>

(* A file that parses but does not compile makes NewStore return an error   *)
(* and main exit: the process stays down, which is no step of this module.  *)
Loads(f) == f.kind # "torn" /\ Compilable(Loaded(f).domains)

BootLoad ==
    /\ proc = "down"
    /\ disk.kind # "missing"
    /\ Loads(disk)
    /\ proc' = "up"
    /\ mem' = Loaded(disk)
    /\ Recompile(Loaded(disk))
    /\ UNCHANGED <<pc, disk, tmp, reply>>

-----------------------------------------------------------------------------
Edit ==
    \/ \E old \in Host \cup {NoKey} :
           \/ \E s \in SiteInput : UpsertSite(old, s)
           \/ \E d \in DomainInput : UpsertDomain(old, d)
    \/ \E old \in Name \cup {NoKey} :
           \/ \E f \in ForwardInput : UpsertForward(old, f)
           \/ \E d \in DNATInput : UpsertDNAT(old, d)
    \/ \E k \in Host : DeleteSite(k) \/ DeleteDomain(k)
    \/ \E k \in Name : DeleteForward(k) \/ DeleteDNAT(k)

Persist == OpenTmp \/ WriteTmp \/ RenameTmp \/ PersistFails

Next == Edit \/ Persist \/ Stop \/ BootFresh \/ BootLoad

Spec == Init /\ [][Next]_vars

-----------------------------------------------------------------------------
(* Properties.                                                              *)

(* However edits, renames, failed saves and restarts follow one another, no *)
(* collection holds two rules of one key, and no two forwards or DNAT rules *)
(* of one collection the same protocol string and address (the scans of     *)
(* UpsertForward and UpsertDNAT).                                           *)
ConfigUnique(c) ==
    /\ UniqueKeys(c.sites) /\ UniqueKeys(c.domains)
    /\ UniqueKeys(c.forwards) /\ UniqueKeys(c.dnat)
    /\ UniqueClaims(c.forwards) /\ UniqueClaims(c.dnat)
RulesUnique == ConfigUnique(mem)

(* compiledDom maps a port and a host to one rule: no two enabled forwards  *)
(* of the saved domains ever compete for one slot of the map, where the     *)
(* later one would silently replace the earlier.                            *)
OneRulePerSlot ==
    \A a, b \in domTable :
        a.host = b.host /\ a.rule.port = b.rule.port => a = b

(* Whenever no edit is in progress, the sites served are those in memory,   *)
(* and the domains served are those in memory unless memory holds a domain  *)
(* that cannot be compiled; once that domain is gone the tables catch up    *)
(* with every edit made meanwhile (recompileLocked rebuilds both from       *)
(* scratch).                                                                *)
ServedMatchesMemory ==
    Unlocked =>
        /\ siteTable = CompiledSites(mem.sites)
        /\ Compilable(mem.domains) => domTable = CompiledDomains(mem.domains)

(* The lookup tables never hold a forward that needs a reverse proxy and    *)
(* could not get one, even while memory does (serve dereferences c.proxy).  *)
ServedCompilable ==
    \A e \in domTable : NeedsProxy(e.rule) => e.rule.target \notin BadTarget

(* Once an edit has been acknowledged and until the next one begins, the    *)
(* file holds the whole of memory, failed edits made before it included.    *)
AckDurable == Unlocked /\ reply = "ok" => disk = Saved(mem)

(* The configuration file is replaced in one step, and only by a complete   *)
(* copy of the memory of the running process: a temporary file left behind  *)
(* by a crash or a failed write is never put in place (persistLocked).      *)
ReplacedByMemory == [][disk' # disk => disk' = Saved(mem)]_disk

(* Through failed saves, crashes and restarts at any point the store is a   *)
(* memory with a save: a start finds the whole of the memory of some        *)
(* earlier moment, the latest that was saved, and an acknowledged edit is   *)
(* always part of it (persistLocked, NewStore).                             *)
Memory == INSTANCE SavedMemory WITH
            Value <- Config, Nothing <- EmptyConfig,
            memory <- mem, saved <- Loaded(disk), up <- proc # "down",
            acknowledged <- Unlocked /\ reply = "ok"
Remembers == Memory!Spec

(* The file can always be loaded again: an admin edit "survives restarts".  *)
RestartLoads == disk.kind # "missing" => Loads(disk)

(* The routes of a first-release file are not lost by loading it: whatever  *)
(* is saved afterwards, the file holds them in one form or the other, until *)
(* the site they were migrated to is edited (migrateRoutes; the property is *)
(* meant for DefaultHost \notin Host, where that edit does not happen).     *)
RoutesOn(f) ==
    IF f.kind = "legacy" THEN LegacyRoutes
    ELSE UNION {s.routes : s \in {x \in f.config.sites : x.key = DefaultHost}}
LegacyRoutesKept ==
    [][LegacyRoutes \subseteq RoutesOn(disk)
           => LegacyRoutes \subseteq RoutesOn(disk')]_disk
=============================================================================
