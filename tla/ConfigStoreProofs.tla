-------------------------- MODULE ConfigStoreProofs --------------------------
(* Proofs about ConfigStore, for every set of hosts, names, targets and      *)
(* inputs.  Every edit is first reduced to "one well-formed configuration    *)
(* becomes another" (EditStep); the invariant Inv is then preserved by the   *)
(* two ways an edit enters the store, Commit and Store, by the steps of      *)
(* persistLocked and by the life of the process.                             *)
EXTENDS ConfigStore, TLAPS

-----------------------------------------------------------------------------
(* The inductive invariant.                                                  *)

PortsOnce(d)  == \A f, g \in d.forwards : f.port = g.port => f = g

WellFormed(c) == ConfigUnique(c) /\ \A d \in c.domains : PortsOnce(d)

(* Every copy of the configuration is well formed, whichever of them a boot  *)
(* or a rename reads next.                                                   *)
CopiesWellFormed ==
    WellFormed(mem) /\ WellFormed(disk.config) /\ WellFormed(tmp.config)

(* Outside an edit the tables are compiled from memory; they are also while  *)
(* an edit is being persisted, and while NewStore writes the first file.     *)
TablesFollow ==
    /\ siteTable = CompiledSites(mem.sites)
    /\ Compilable(mem.domains) => domTable = CompiledDomains(mem.domains)

(* The temporary file is complete before it is renamed, and nothing is       *)
(* acknowledged before that rename.                                          *)
SaveInOrder ==
    /\ pc = "rename" => tmp = Saved(mem)
    /\ proc = "down" => pc = "idle"
    /\ proc = "booting" => pc # "idle"
    /\ proc # "up" => reply = "none"

Inv ==
    /\ TypeOK
    /\ CopiesWellFormed
    /\ proc # "down" => TablesFollow
    /\ ServedCompilable
    /\ OneRulePerSlot
    /\ SaveInOrder
    /\ AckDurable

-----------------------------------------------------------------------------
(* Sets of rules.                                                            *)

(* Replacing the rule an edit form was opened on, when CanUpsert lets it,    *)
(* keeps keys unique.                                                        *)
LEMMA UpsertedUnique ==
    ASSUME NEW S, NEW old, NEW e, UniqueKeys(S), CanUpsert(S, old, e)
    PROVE  UniqueKeys(Upserted(S, old, e))
BY DEF UniqueKeys, CanUpsert, Upserted, Without, HasKey

(* Deleting keeps keys and claims unique.                                    *)
LEMMA WithoutUnique ==
    ASSUME NEW S, NEW k
    PROVE  /\ UniqueKeys(S) => UniqueKeys(Without(S, k))
           /\ UniqueClaims(S) => UniqueClaims(Without(S, k))
BY DEF UniqueKeys, UniqueClaims, Without

(* The conflict scan compares with rules of another name only; the rule of   *)
(* the same name is the one CanUpsert has replaced.                          *)
LEMMA UpsertedClaims ==
    ASSUME NEW S, NEW old, NEW e,
           NoKey \notin {x.key : x \in S},
           UniqueKeys(S), UniqueClaims(S), CanUpsert(S, old, e), ClaimFree(S, e)
    PROVE  UniqueClaims(Upserted(S, old, e))
<1> SUFFICES ASSUME NEW x \in Upserted(S, old, e), NEW y \in Upserted(S, old, e),
                    SameClaim(x, y)
             PROVE  x = y
  BY DEF UniqueClaims
<1>1. \A z \in Without(S, old) : z \in S /\ z.key # e.key
  BY DEF Without, CanUpsert, HasKey
<1>2. \A z \in Without(S, old) : ~ SameClaim(z, e) /\ ~ SameClaim(e, z)
  BY <1>1 DEF ClaimFree, SameClaim
<1>3. CASE x \in Without(S, old) /\ y \in Without(S, old)
  BY <1>1, <1>3 DEF UniqueClaims
<1>4. CASE x = e \/ y = e
  BY <1>2, <1>4 DEF Upserted
<1> QED
  BY <1>3, <1>4 DEF Upserted

-----------------------------------------------------------------------------
(* Compilation.                                                              *)

LEMMA CompiledTypes ==
    ASSUME NEW c \in Config
    PROVE  /\ CompiledSites(c.sites) \subseteq [host : HostKey, routes : SUBSET Route]
           /\ CompiledDomains(c.domains) \subseteq [host : HostKey, rule : PortForward]
BY DEF Config, CompiledSites, CompiledDomains, Site, Domain

(* Compiling domains that compile yields slots that have their proxy, one    *)
(* for a host and a port.                                                    *)
LEMMA CompiledSlots ==
    ASSUME NEW c \in Config, WellFormed(c), Compilable(c.domains)
    PROVE  /\ \A e \in CompiledDomains(c.domains) :
                  NeedsProxy(e.rule) => e.rule.target \notin BadTarget
           /\ \A a, b \in CompiledDomains(c.domains) :
                  a.host = b.host /\ a.rule.port = b.rule.port => a = b
<1>1. \A e \in CompiledDomains(c.domains) :
          \E d \in c.domains : \E f \in d.forwards : e = [host |-> d.key, rule |-> f]
  BY DEF CompiledDomains
<1>2. \A e \in CompiledDomains(c.domains) :
          NeedsProxy(e.rule) => e.rule.target \notin BadTarget
  BY <1>1 DEF Compilable
<1>3. ASSUME NEW a \in CompiledDomains(c.domains), NEW b \in CompiledDomains(c.domains),
             a.host = b.host, a.rule.port = b.rule.port
      PROVE  a = b
  <2>1. PICK d1 \in c.domains : \E f \in d1.forwards : a = [host |-> d1.key, rule |-> f]
    BY <1>1
  <2>1f. PICK f1 \in d1.forwards : a = [host |-> d1.key, rule |-> f1]
    BY <2>1
  <2>2. PICK d2 \in c.domains : \E f \in d2.forwards : b = [host |-> d2.key, rule |-> f]
    BY <1>1
  <2>2f. PICK f2 \in d2.forwards : b = [host |-> d2.key, rule |-> f2]
    BY <2>2
  <2>3. d1 = d2
    BY <1>3, <2>1f, <2>2f DEF WellFormed, ConfigUnique, UniqueKeys
  <2>4. f1 = f2
    BY <1>3, <2>1f, <2>2f, <2>3 DEF WellFormed, PortsOnce
  <2> QED
    BY <2>1f, <2>2f, <2>3, <2>4
<1> QED
  BY <1>2, <1>3

LEMMA EmptyWellFormed ==
    /\ EmptyConfig \in Config
    /\ WellFormed(EmptyConfig)
    /\ Compilable(EmptyConfig.domains)
BY DEF EmptyConfig, Config, WellFormed, ConfigUnique, UniqueKeys, UniqueClaims,
       Compilable

(* Whatever file is loaded, what is loaded is well formed if the file is.    *)
LEMMA LoadedWellFormed ==
    ASSUME NEW f \in File, WellFormed(f.config)
    PROVE  Loaded(f) \in Config /\ WellFormed(Loaded(f))
<1>1. CASE f.kind = "object"
  BY <1>1 DEF Loaded, File
<1>2. CASE f.kind = "legacy"
  <2> DEFINE m == Migrated(LegacyRoutes, DefaultHost)
  <2>1. Loaded(f) = [EmptyConfig EXCEPT !.sites = m]
    BY <1>2 DEF Loaded
  <2>2. Loaded(f) = [sites |-> m, forwards |-> {}, dnat |-> {}, domains |-> {}]
    BY <2>1 DEF EmptyConfig
  <2>3. m \subseteq Site /\ UniqueKeys(m)
    BY StoreAssumption DEF Migrated, Site, HostKey, UniqueKeys
  <2> HIDE DEF m
  <2> QED
    BY <2>2, <2>3 DEF Config, WellFormed, ConfigUnique, UniqueKeys, UniqueClaims
<1>3. CASE f.kind \notin {"object", "legacy"}
  BY <1>3, EmptyWellFormed DEF Loaded
<1> QED
  BY <1>1, <1>2, <1>3

LEMMA NormalisedDomain ==
    ASSUME NEW d \in [key : Host, forwards : SUBSET PortForward], ValidDomain(d)
    PROVE  Normalised(d) \in Domain /\ PortsOnce(Normalised(d))
<1>1. \A f \in PortForward : /\ NormalForward(f) \in PortForward
                             /\ NormalForward(f).port = f.port
  BY DEF NormalForward, PortForward
<1>2. Normalised(d) = [key |-> d.key, forwards |-> {NormalForward(f) : f \in d.forwards}]
  BY DEF Normalised
<1>3. Normalised(d) \in Domain
  BY <1>1, <1>2 DEF Domain, HostKey
<1>4. PortsOnce(Normalised(d))
  BY <1>1, <1>2 DEF PortsOnce, ValidDomain
<1> QED
  BY <1>3, <1>4

-----------------------------------------------------------------------------
(* Edits.                                                                    *)

(* Commit of c, or Store of a c that touches neither sites nor domains.      *)
EnterStore(c) ==
    \/ Commit(c)
    \/ Store(c) /\ c.sites = mem.sites /\ c.domains = mem.domains

(* Replacing one collection of a configuration.                              *)
LEMMA Replaced ==
    ASSUME NEW c \in Config
    PROVE  /\ \A S \in SUBSET Site :
                  [c EXCEPT !.sites = S] = [sites |-> S, forwards |-> c.forwards,
                                            dnat |-> c.dnat, domains |-> c.domains]
           /\ \A S \in SUBSET Domain :
                  [c EXCEPT !.domains = S] = [sites |-> c.sites, forwards |-> c.forwards,
                                              dnat |-> c.dnat, domains |-> S]
           /\ \A S \in SUBSET Forward :
                  [c EXCEPT !.forwards = S] = [sites |-> c.sites, forwards |-> S,
                                               dnat |-> c.dnat, domains |-> c.domains]
           /\ \A S \in SUBSET DNATRule :
                  [c EXCEPT !.dnat = S] = [sites |-> c.sites, forwards |-> c.forwards,
                                           dnat |-> S, domains |-> c.domains]
BY DEF Config

(* A site or a domain edit commits a well-formed configuration.              *)
LEMMA SiteStep ==
    ASSUME mem \in Config, WellFormed(mem),
           NEW S \in SUBSET Site, UniqueKeys(S)
    PROVE  LET c == [mem EXCEPT !.sites = S] IN c \in Config /\ WellFormed(c)
BY Replaced DEF Config, WellFormed, ConfigUnique

LEMMA DomainStep ==
    ASSUME mem \in Config, WellFormed(mem),
           NEW S \in SUBSET Domain, UniqueKeys(S), \A d \in S : PortsOnce(d)
    PROVE  LET c == [mem EXCEPT !.domains = S] IN c \in Config /\ WellFormed(c)
BY Replaced DEF Config, WellFormed, ConfigUnique

(* A forward or a DNAT edit stores one, its sites and domains unchanged.     *)
LEMMA ForwardStep ==
    ASSUME mem \in Config, WellFormed(mem),
           NEW S \in SUBSET Forward, UniqueKeys(S), UniqueClaims(S)
    PROVE  LET c == [mem EXCEPT !.forwards = S]
           IN  /\ c \in Config /\ WellFormed(c)
               /\ c.sites = mem.sites /\ c.domains = mem.domains
BY Replaced DEF Config, WellFormed, ConfigUnique

LEMMA DNATStep ==
    ASSUME mem \in Config, WellFormed(mem),
           NEW S \in SUBSET DNATRule, UniqueKeys(S), UniqueClaims(S)
    PROVE  LET c == [mem EXCEPT !.dnat = S]
           IN  /\ c \in Config /\ WellFormed(c)
               /\ c.sites = mem.sites /\ c.domains = mem.domains
BY Replaced DEF Config, WellFormed, ConfigUnique

LEMMA EditStep ==
    ASSUME mem \in Config, WellFormed(mem), Edit
    PROVE  \E c \in Config : WellFormed(c) /\ EnterStore(c)
<1> USE DEF EnterStore
<1>0. /\ mem.sites \subseteq Site       /\ UniqueKeys(mem.sites)
      /\ mem.domains \subseteq Domain   /\ UniqueKeys(mem.domains)
      /\ mem.forwards \subseteq Forward /\ UniqueKeys(mem.forwards)
      /\ mem.dnat \subseteq DNATRule    /\ UniqueKeys(mem.dnat)
      /\ UniqueClaims(mem.forwards) /\ UniqueClaims(mem.dnat)
      /\ \A d \in mem.domains : PortsOnce(d)
  BY DEF Config, WellFormed, ConfigUnique
<1>1. ASSUME NEW old \in Host \cup {NoKey}, NEW s \in SiteInput, UpsertSite(old, s)
      PROVE  \E c \in Config : WellFormed(c) /\ EnterStore(c)
  <2> DEFINE S == Upserted(mem.sites, old, s)
  <2>1. S \in SUBSET Site
    BY <1>0, StoreAssumption DEF Upserted, Without, Site, HostKey
  <2>2. UniqueKeys(S)
    BY <1>0, <1>1, UpsertedUnique DEF UpsertSite
  <2>3. Commit([mem EXCEPT !.sites = S])
    BY <1>1 DEF UpsertSite
  <2> QED
    BY <2>1, <2>2, <2>3, SiteStep
<1>2. ASSUME NEW k \in Host, DeleteSite(k)
      PROVE  \E c \in Config : WellFormed(c) /\ EnterStore(c)
  <2>1. Without(mem.sites, k) \in SUBSET Site /\ UniqueKeys(Without(mem.sites, k))
    BY <1>0, WithoutUnique DEF Without
  <2> QED
    BY <1>2, <2>1, SiteStep DEF DeleteSite
<1>3. ASSUME NEW old \in Host \cup {NoKey}, NEW d \in DomainInput, UpsertDomain(old, d)
      PROVE  \E c \in Config : WellFormed(c) /\ EnterStore(c)
  <2> DEFINE n == Normalised(d)
             S == Upserted(mem.domains, old, n)
  <2>1. n \in Domain /\ PortsOnce(n)
    BY <1>3, StoreAssumption, NormalisedDomain DEF UpsertDomain
  <2>2. S \in SUBSET Domain /\ \A x \in S : PortsOnce(x)
    BY <1>0, <2>1 DEF Upserted, Without
  <2>3. UniqueKeys(S)
    BY <1>0, <1>3, UpsertedUnique DEF UpsertDomain
  <2>4. Commit([mem EXCEPT !.domains = S])
    BY <1>3 DEF UpsertDomain
  <2> QED
    BY <2>2, <2>3, <2>4, DomainStep
<1>4. ASSUME NEW k \in Host, DeleteDomain(k)
      PROVE  \E c \in Config : WellFormed(c) /\ EnterStore(c)
  <2>1. /\ Without(mem.domains, k) \in SUBSET Domain
        /\ UniqueKeys(Without(mem.domains, k))
        /\ \A x \in Without(mem.domains, k) : PortsOnce(x)
    BY <1>0, WithoutUnique DEF Without
  <2> QED
    BY <1>4, <2>1, DomainStep DEF DeleteDomain
<1>5. ASSUME NEW old \in Name \cup {NoKey}, NEW f \in ForwardInput, UpsertForward(old, f)
      PROVE  \E c \in Config : WellFormed(c) /\ EnterStore(c)
  <2> DEFINE S == Upserted(mem.forwards, old, f)
  <2>1. S \in SUBSET Forward
    BY <1>0, StoreAssumption DEF Upserted, Without
  <2>2. UniqueKeys(S)
    BY <1>0, <1>5, UpsertedUnique DEF UpsertForward
  <2>3. NoKey \notin {x.key : x \in mem.forwards}
    BY <1>0, StoreAssumption DEF Forward
  <2>4. UniqueClaims(S)
    BY <1>0, <1>5, <2>3, UpsertedClaims DEF UpsertForward
  <2>5. Store([mem EXCEPT !.forwards = S])
    BY <1>5 DEF UpsertForward
  <2> QED
    BY <2>1, <2>2, <2>4, <2>5, ForwardStep
<1>6. ASSUME NEW k \in Name, DeleteForward(k)
      PROVE  \E c \in Config : WellFormed(c) /\ EnterStore(c)
  <2>1. /\ Without(mem.forwards, k) \in SUBSET Forward
        /\ UniqueKeys(Without(mem.forwards, k))
        /\ UniqueClaims(Without(mem.forwards, k))
    BY <1>0, WithoutUnique DEF Without
  <2> QED
    BY <1>6, <2>1, ForwardStep DEF DeleteForward
<1>7. ASSUME NEW old \in Name \cup {NoKey}, NEW d \in DNATInput, UpsertDNAT(old, d)
      PROVE  \E c \in Config : WellFormed(c) /\ EnterStore(c)
  <2> DEFINE S == Upserted(mem.dnat, old, d)
  <2>1. S \in SUBSET DNATRule
    BY <1>0, StoreAssumption DEF Upserted, Without
  <2>2. UniqueKeys(S)
    BY <1>0, <1>7, UpsertedUnique DEF UpsertDNAT
  <2>3. NoKey \notin {x.key : x \in mem.dnat}
    BY <1>0, StoreAssumption DEF DNATRule
  <2>4. UniqueClaims(S)
    BY <1>0, <1>7, <2>3, UpsertedClaims DEF UpsertDNAT
  <2>5. Store([mem EXCEPT !.dnat = S])
    BY <1>7 DEF UpsertDNAT
  <2> QED
    BY <2>1, <2>2, <2>4, <2>5, DNATStep
<1>8. ASSUME NEW k \in Name, DeleteDNAT(k)
      PROVE  \E c \in Config : WellFormed(c) /\ EnterStore(c)
  <2>1. /\ Without(mem.dnat, k) \in SUBSET DNATRule
        /\ UniqueKeys(Without(mem.dnat, k))
        /\ UniqueClaims(Without(mem.dnat, k))
    BY <1>0, WithoutUnique DEF Without
  <2> QED
    BY <1>8, <2>1, DNATStep DEF DeleteDNAT
<1> QED
  BY <1>1, <1>2, <1>3, <1>4, <1>5, <1>6, <1>7, <1>8 DEF Edit

-----------------------------------------------------------------------------
(* The invariant.                                                            *)

LEMMA InvInit == Init => Inv
<1> SUFFICES ASSUME Init PROVE Inv
  OBVIOUS
<1>1. /\ FileOf("missing") \in File /\ WellFormed(FileOf("missing").config)
      /\ disk \in File /\ WellFormed(disk.config)
  BY EmptyWellFormed, StoreAssumption DEF Init, FileOf, File
<1>2. TypeOK
  BY <1>1, EmptyWellFormed DEF Init, TypeOK
<1>3. CopiesWellFormed
  BY <1>1, EmptyWellFormed DEF Init, CopiesWellFormed
<1> QED
  BY <1>2, <1>3 DEF Init, Inv, ServedCompilable, OneRulePerSlot, SaveInOrder,
     AckDurable, Unlocked

(* Compiling a well-formed configuration re-establishes all that is said of  *)
(* the tables, whether or not its domains compile.                           *)
LEMMA RecompileStep ==
    ASSUME TypeOK, ServedCompilable, OneRulePerSlot,
           NEW c \in Config, WellFormed(c), Recompile(c), mem' = c
    PROVE  /\ siteTable' \subseteq [host : HostKey, routes : SUBSET Route]
           /\ domTable' \subseteq [host : HostKey, rule : PortForward]
           /\ TablesFollow'
           /\ ServedCompilable'
           /\ OneRulePerSlot'
<1>1. CASE Compilable(c.domains)
  <2>1. siteTable' = CompiledSites(c.sites) /\ domTable' = CompiledDomains(c.domains)
    BY <1>1 DEF Recompile
  <2>2. ServedCompilable' /\ OneRulePerSlot'
    BY <1>1, <2>1, CompiledSlots DEF ServedCompilable, OneRulePerSlot
  <2> QED
    BY <2>1, <2>2, CompiledTypes DEF TablesFollow
<1>2. CASE ~ Compilable(c.domains)
  <2>1. siteTable' = CompiledSites(c.sites) /\ domTable' = domTable
    BY <1>2 DEF Recompile
  <2>2. ServedCompilable' /\ OneRulePerSlot'
    BY <2>1 DEF ServedCompilable, OneRulePerSlot
  <2> QED
    BY <1>2, <2>1, <2>2, CompiledTypes DEF TablesFollow, TypeOK
<1> QED
  BY <1>1, <1>2

LEMMA CommitStep ==
    ASSUME Inv, NEW c \in Config, WellFormed(c), Commit(c)
    PROVE  Inv'
<1>1. /\ proc = "up" /\ pc = "idle" /\ mem' = c /\ Recompile(c)
      /\ UNCHANGED <<proc, disk, tmp>>
      /\ \/ pc' = "open" /\ reply' = reply
         \/ pc' = "idle" /\ reply' = "error"
  BY DEF Commit, Unlocked
<1>2. /\ siteTable' \subseteq [host : HostKey, routes : SUBSET Route]
      /\ domTable' \subseteq [host : HostKey, rule : PortForward]
      /\ TablesFollow' /\ ServedCompilable' /\ OneRulePerSlot'
  BY <1>1, RecompileStep DEF Inv
<1>3. TypeOK'
  BY <1>1, <1>2 DEF Inv, TypeOK
<1>4. CopiesWellFormed'
  BY <1>1 DEF Inv, CopiesWellFormed
<1>5. SaveInOrder' /\ AckDurable'
  BY <1>1 DEF Inv, SaveInOrder, AckDurable, Unlocked
<1> QED
  BY <1>2, <1>3, <1>4, <1>5 DEF Inv

LEMMA StoreStep ==
    ASSUME Inv, NEW c \in Config, WellFormed(c), Store(c),
           c.sites = mem.sites, c.domains = mem.domains
    PROVE  Inv'
<1>1. /\ proc = "up" /\ pc = "idle" /\ mem' = c /\ pc' = "open"
      /\ proc' = proc /\ siteTable' = siteTable /\ domTable' = domTable
      /\ disk' = disk /\ tmp' = tmp /\ reply' = reply
  BY DEF Store, Unlocked, tables
<1>2. TypeOK'
  BY <1>1 DEF Inv, TypeOK
<1>3. CopiesWellFormed'
  BY <1>1 DEF Inv, CopiesWellFormed
<1>4. TablesFollow' /\ ServedCompilable' /\ OneRulePerSlot'
  BY <1>1 DEF Inv, TablesFollow, ServedCompilable, OneRulePerSlot
<1>5. SaveInOrder' /\ AckDurable'
  BY <1>1 DEF Inv, SaveInOrder, AckDurable, Unlocked
<1> QED
  BY <1>2, <1>3, <1>4, <1>5 DEF Inv

LEMMA PersistStep ==
    ASSUME Inv, Persist
    PROVE  Inv'
<1>0. /\ mem' = mem /\ siteTable' = siteTable /\ domTable' = domTable
      /\ Saved(mem) \in File /\ Saved(mem).config = mem
      /\ FileOf("torn") \in File /\ WellFormed(FileOf("torn").config)
      /\ FileOf("missing") \in File /\ WellFormed(FileOf("missing").config)
  BY EmptyWellFormed DEF Inv, Persist, OpenTmp, WriteTmp, RenameTmp, PersistFails,
     TypeOK, Saved, FileOf, File, tables
<1>1. TypeOK'
  BY <1>0 DEF Inv, Persist, OpenTmp, WriteTmp, RenameTmp, PersistFails, TypeOK
<1>2. CopiesWellFormed'
  BY <1>0 DEF Inv, Persist, OpenTmp, WriteTmp, RenameTmp, PersistFails,
     CopiesWellFormed
<1>3. TablesFollow' <=> TablesFollow
  BY <1>0 DEF TablesFollow
<1>4. proc = "down" => pc = "idle"
  BY DEF Inv, SaveInOrder
<1>5. proc' # "down" => TablesFollow'
  BY <1>3, <1>4 DEF Inv, Persist, OpenTmp, WriteTmp, RenameTmp, PersistFails
<1>6. ServedCompilable' /\ OneRulePerSlot'
  BY <1>0 DEF Inv, ServedCompilable, OneRulePerSlot
<1>7. SaveInOrder'
  BY <1>0, <1>4 DEF Inv, Persist, OpenTmp, WriteTmp, RenameTmp, PersistFails,
     SaveInOrder, TypeOK
<1>8. AckDurable'
  BY <1>0 DEF Inv, Persist, OpenTmp, WriteTmp, RenameTmp, PersistFails,
     SaveInOrder, AckDurable, Unlocked, TypeOK
<1> QED
  BY <1>1, <1>2, <1>5, <1>6, <1>7, <1>8 DEF Inv

LEMMA StopStep == ASSUME Inv, Stop PROVE Inv'
<1>1. /\ proc' = "down" /\ pc' = "idle" /\ mem' = EmptyConfig
      /\ siteTable' = {} /\ domTable' = {} /\ reply' = "none"
      /\ disk' = disk /\ tmp' = tmp
  BY DEF Stop
<1>2. TypeOK'
  BY <1>1, EmptyWellFormed DEF Inv, TypeOK
<1>3. CopiesWellFormed'
  BY <1>1, EmptyWellFormed DEF Inv, CopiesWellFormed
<1> QED
  BY <1>1, <1>2, <1>3 DEF Inv, ServedCompilable, OneRulePerSlot, SaveInOrder,
     AckDurable, Unlocked

LEMMA BootFreshStep == ASSUME Inv, BootFresh PROVE Inv'
<1>1. /\ proc' = "booting" /\ pc' = "open" /\ mem' = EmptyConfig
      /\ Recompile(EmptyConfig)
      /\ disk' = disk /\ tmp' = tmp /\ reply' = reply /\ proc = "down"
  BY DEF BootFresh
<1>2. /\ siteTable' \subseteq [host : HostKey, routes : SUBSET Route]
      /\ domTable' \subseteq [host : HostKey, rule : PortForward]
      /\ TablesFollow' /\ ServedCompilable' /\ OneRulePerSlot'
  BY <1>1, RecompileStep, EmptyWellFormed DEF Inv
<1>3. TypeOK'
  BY <1>1, <1>2, EmptyWellFormed DEF Inv, TypeOK
<1>4. CopiesWellFormed'
  BY <1>1, EmptyWellFormed DEF Inv, CopiesWellFormed
<1>5. SaveInOrder' /\ AckDurable'
  BY <1>1 DEF Inv, SaveInOrder, AckDurable, Unlocked
<1> QED
  BY <1>2, <1>3, <1>4, <1>5 DEF Inv

LEMMA BootLoadStep == ASSUME Inv, BootLoad PROVE Inv'
<1> DEFINE c == Loaded(disk)
<1>1. /\ proc' = "up" /\ mem' = c /\ Recompile(c)
      /\ pc' = pc /\ disk' = disk /\ tmp' = tmp /\ reply' = reply /\ proc = "down"
  BY DEF BootLoad
<1>2. c \in Config /\ WellFormed(c)
  BY LoadedWellFormed DEF Inv, TypeOK, CopiesWellFormed
<1> HIDE DEF c
<1>3. /\ siteTable' \subseteq [host : HostKey, routes : SUBSET Route]
      /\ domTable' \subseteq [host : HostKey, rule : PortForward]
      /\ TablesFollow' /\ ServedCompilable' /\ OneRulePerSlot'
  BY <1>1, <1>2, RecompileStep DEF Inv
<1>4. TypeOK'
  BY <1>1, <1>2, <1>3 DEF Inv, TypeOK
<1>5. CopiesWellFormed'
  BY <1>1, <1>2 DEF Inv, CopiesWellFormed
<1>6. SaveInOrder' /\ AckDurable'
  BY <1>1 DEF Inv, SaveInOrder, AckDurable, Unlocked
<1> QED
  BY <1>3, <1>4, <1>5, <1>6 DEF Inv

LEMMA InvNext == Inv /\ [Next]_vars => Inv'
<1> SUFFICES ASSUME Inv, [Next]_vars PROVE Inv'
  OBVIOUS
<1>1. CASE Edit
  <2>1. PICK c \in Config : WellFormed(c) /\ EnterStore(c)
    BY <1>1, EditStep DEF Inv, TypeOK, CopiesWellFormed
  <2>2. CASE Commit(c)
    BY <2>1, <2>2, CommitStep
  <2>3. CASE Store(c) /\ c.sites = mem.sites /\ c.domains = mem.domains
    BY <2>1, <2>3, StoreStep
  <2> QED
    BY <2>1, <2>2, <2>3 DEF EnterStore
<1>2. CASE Persist
  BY <1>2, PersistStep
<1>3. CASE Stop
  BY <1>3, StopStep
<1>4. CASE BootFresh
  BY <1>4, BootFreshStep
<1>5. CASE BootLoad
  BY <1>5, BootLoadStep
<1>6. CASE UNCHANGED vars
  BY <1>6 DEF vars, tables, Inv, TypeOK, CopiesWellFormed, TablesFollow,
     ServedCompilable, OneRulePerSlot, SaveInOrder, AckDurable, Unlocked
<1> QED
  BY <1>1, <1>2, <1>3, <1>4, <1>5, <1>6 DEF Next

(* The inductive invariant holds in every reachable state.                   *)
THEOREM Invariant == Spec => []Inv
<1>1. Init => Inv
  BY InvInit
<1>2. Inv /\ [Next]_vars => Inv'
  BY InvNext
<1> QED
  BY <1>1, <1>2, PTL DEF Spec

-----------------------------------------------------------------------------
(* What follows from it.                                                     *)

(* Every variable of the store keeps its type, whatever is submitted.        *)
THEOREM TypeCorrect == Spec => []TypeOK
<1>1. Inv => TypeOK
  BY DEF Inv
<1> QED
  BY <1>1, Invariant, PTL

(* No collection ever holds two rules of one key, or two forwards or DNAT    *)
(* rules with one protocol and address, through any sequence of edits,       *)
(* failed saves, crashes and restarts (UpsertForward, UpsertDNAT).           *)
THEOREM RulesStayUnique == Spec => []RulesUnique
<1>1. Inv => RulesUnique
  BY DEF Inv, CopiesWellFormed, WellFormed, RulesUnique
<1> QED
  BY <1>1, Invariant, PTL

(* A host and a port lead to one compiled rule (recompileLocked).            *)
THEOREM SlotsAreFunctional == Spec => []OneRulePerSlot
<1>1. Inv => OneRulePerSlot
  BY DEF Inv
<1> QED
  BY <1>1, Invariant, PTL

(* Between edits the tables are those compiled from memory (commitLocked).   *)
THEOREM TablesMatchMemory == Spec => []ServedMatchesMemory
<1>1. Inv => ServedMatchesMemory
  BY DEF Inv, TablesFollow, ServedMatchesMemory, Unlocked
<1> QED
  BY <1>1, Invariant, PTL

(* No slot that needs a reverse proxy is without one (serve, proxy.go).      *)
THEOREM SlotsHaveProxies == Spec => []ServedCompilable
<1>1. Inv => ServedCompilable
  BY DEF Inv
<1> QED
  BY <1>1, Invariant, PTL

(* An acknowledged edit, and all that memory held with it, is in the file    *)
(* (persistLocked returning nil).                                            *)
THEOREM AcknowledgedIsDurable == Spec => []AckDurable
<1>1. Inv => AckDurable
  BY DEF Inv
<1> QED
  BY <1>1, Invariant, PTL

(* The file is only ever replaced by a complete copy of memory, in one step  *)
(* (os.Rename of a temporary file this very edit has written).               *)
THEOREM FileReplacedByMemory == Spec => ReplacedByMemory
<1>1. Inv /\ [Next]_vars => (disk' # disk => disk' = Saved(mem))
  <2> SUFFICES ASSUME Inv, [Next]_vars, disk' # disk PROVE disk' = Saved(mem)
    OBVIOUS
  <2>1. CASE Edit
    <3>1. PICK c \in Config : EnterStore(c)
      BY <2>1, EditStep DEF Inv, TypeOK, CopiesWellFormed
    <3> QED
      BY <3>1 DEF EnterStore, Commit, Store
  <2>2. CASE Persist
    BY <2>2 DEF Inv, SaveInOrder, Persist, OpenTmp, WriteTmp, RenameTmp, PersistFails
  <2>3. CASE Stop \/ BootFresh \/ BootLoad
    BY <2>3 DEF Stop, BootFresh, BootLoad
  <2>4. CASE UNCHANGED vars
    BY <2>4 DEF vars
  <2> QED
    BY <2>1, <2>2, <2>3, <2>4 DEF Next
<1> QED
  BY <1>1, Invariant, PTL DEF Spec, ReplacedByMemory

-----------------------------------------------------------------------------
(* The store as a memory with a save.                                        *)

(* What an edit leaves alone, and that it is not acknowledged at once: a     *)
(* commit that does not compile answers with an error, any other begins to   *)
(* save.                                                                     *)
LEMMA EditLeaves ==
    ASSUME Inv, Edit
    PROVE  /\ Unlocked /\ proc' = "up" /\ mem' \in Config
           /\ UNCHANGED <<disk, tmp>>
           /\ ~ (Unlocked' /\ reply' = "ok")
<1>1. PICK c \in Config : EnterStore(c)
  BY EditStep DEF Inv, TypeOK, CopiesWellFormed
<1>2. CASE Commit(c)
  BY <1>2 DEF Commit, Unlocked
<1>3. CASE Store(c)
  BY <1>3 DEF Store, Unlocked
<1> QED
  BY <1>1, <1>2, <1>3 DEF EnterStore

(* The memory of a process that is starting or gone is empty.                *)
Lost == proc # "up" => mem = EmptyConfig

LEMMA LostInv ==
    /\ Init => Lost
    /\ Inv /\ Lost /\ [Next]_vars => Lost'
<1>1. Init => Lost
  BY DEF Init, Lost
<1> SUFFICES ASSUME Inv, Lost, [Next]_vars PROVE Lost'
  BY <1>1
<1>2. CASE Edit
  BY <1>2, EditLeaves DEF Lost
<1>3. CASE Persist
  BY <1>3 DEF Persist, OpenTmp, WriteTmp, RenameTmp, PersistFails, Lost
<1>4. CASE Stop \/ BootFresh \/ BootLoad
  BY <1>4 DEF Stop, BootFresh, BootLoad, Lost
<1>5. CASE UNCHANGED vars
  BY <1>5 DEF vars, Lost
<1> QED
  BY <1>2, <1>3, <1>4, <1>5 DEF Next

(* The store implements SavedMemory: whatever fails or crashes, a start      *)
(* finds all of one earlier memory, that of the last save, and no            *)
(* acknowledged edit is missing from it (persistLocked writes a temporary    *)
(* file and renames it).                                                     *)
THEOREM StoreRemembers == Spec => Remembers
<1> USE DEF Memory!Next, Memory!vars
<1>1. Init => Memory!Init
  <2> SUFFICES ASSUME Init PROVE Memory!Init
    OBVIOUS
  <2>1. Loaded(disk) \in Config
    BY InvInit, LoadedWellFormed DEF Inv, TypeOK, CopiesWellFormed
  <2> QED
    BY <2>1 DEF Init, Memory!Init, Unlocked
<1>2. Inv /\ Inv' /\ Lost /\ [Next]_vars => [Memory!Next]_Memory!vars
  <2> SUFFICES ASSUME Inv, Inv', Lost, [Next]_vars PROVE [Memory!Next]_Memory!vars
    OBVIOUS
  <2> DEFINE ack == Unlocked /\ reply = "ok"
  <2>1. ASSUME Edit PROVE Memory!Edit
    <3>1. Loaded(disk)' = Loaded(disk)
      BY <2>1, EditLeaves DEF Loaded
    <3>2. ack' = FALSE
      BY <2>1, EditLeaves
    <3> QED
      BY <2>1, <3>1, <3>2, EditLeaves DEF Memory!Edit, Unlocked
  <2>2. ASSUME OpenTmp \/ WriteTmp PROVE UNCHANGED Memory!vars
    <3>1. Loaded(disk)' = Loaded(disk)
      BY <2>2 DEF OpenTmp, WriteTmp, Loaded
    <3>2. ack = FALSE /\ ack' = FALSE
      BY <2>2 DEF OpenTmp, WriteTmp, Unlocked
    <3> QED
      BY <2>2, <3>1, <3>2 DEF OpenTmp, WriteTmp
  <2>3. ASSUME RenameTmp PROVE Memory!Save
    <3>1. disk' = Saved(mem) /\ mem' = mem /\ proc' = "up"
      BY <2>3 DEF RenameTmp, Inv, SaveInOrder
    <3>2. Loaded(disk)' = mem
      BY <3>1 DEF Loaded, Saved
    <3>3. proc # "down"
      BY <2>3 DEF RenameTmp, Inv, SaveInOrder
    <3>4. ack' \in BOOLEAN
      OBVIOUS
    <3> QED
      BY <3>1, <3>2, <3>3, <3>4 DEF Memory!Save
  <2>4. ASSUME PersistFails, proc = "up" PROVE UNCHANGED Memory!vars
    <3>1. Loaded(disk)' = Loaded(disk)
      BY <2>4 DEF PersistFails, Loaded
    <3>2. ack = FALSE /\ ack' = FALSE
      BY <2>4 DEF PersistFails, Unlocked
    <3> QED
      BY <2>4, <3>1, <3>2 DEF PersistFails
  <2>5. ASSUME (PersistFails /\ proc # "up") \/ Stop PROVE Memory!End
    <3>1. Loaded(disk)' = Loaded(disk)
      BY <2>5 DEF PersistFails, Stop, Loaded
    <3>2. proc' = "down" /\ mem' = EmptyConfig
      BY <2>5 DEF PersistFails, Stop, Lost
    <3>3. ack' = FALSE
      BY <3>2 DEF Unlocked
    <3> QED
      BY <3>1, <3>2, <3>3 DEF Memory!End
  <2>6. ASSUME BootFresh \/ BootLoad PROVE Memory!Start
    <3>1. Loaded(disk)' = Loaded(disk)
      BY <2>6 DEF BootFresh, BootLoad, Loaded
    <3>2. proc = "down" /\ proc' \in {"booting", "up"} /\ mem' = Loaded(disk)
      BY <2>6 DEF BootFresh, BootLoad, Loaded
    <3>3. ack = FALSE /\ ack' = FALSE
      BY <2>6, <3>2 DEF BootFresh, BootLoad, Unlocked, Inv, SaveInOrder
    <3> QED
      BY <3>1, <3>2, <3>3 DEF Memory!Start
  <2>7. ASSUME UNCHANGED vars PROVE UNCHANGED Memory!vars
    BY <2>7 DEF vars, Loaded, Unlocked
  <2> QED
    BY <2>1, <2>2, <2>3, <2>4, <2>5, <2>6, <2>7 DEF Next, Persist
<1> QED
  BY <1>1, <1>2, InvInit, InvNext, LostInv, PTL DEF Spec, Remembers, Memory!Spec

-----------------------------------------------------------------------------
(* The file that is to be loaded again.                                      *)

(* What is being saved compiles, and so does what has been saved.            *)
Loadable == RestartLoads /\ (pc # "idle" => Compilable(mem.domains))

(* The steps of a save and the life of the process keep the file loadable,   *)
(* whatever edits there are: only an edit can begin to save what does not    *)
(* compile.                                                                  *)
LEMMA LoadableStep ==
    ASSUME Inv, Loadable, Persist \/ Stop \/ BootFresh \/ BootLoad \/ UNCHANGED vars
    PROVE  Loadable'
<1>1. CASE OpenTmp \/ WriteTmp \/ PersistFails
  BY <1>1 DEF OpenTmp, WriteTmp, PersistFails, Loadable, RestartLoads, Loads, Loaded
<1>2. CASE RenameTmp
  <2>1. disk' = Saved(mem) /\ pc' = "idle" /\ Compilable(mem.domains)
    BY <1>2 DEF RenameTmp, Inv, SaveInOrder, Loadable
  <2>2. Loads(Saved(mem))
    BY <2>1 DEF Loads, Loaded, Saved
  <2> QED
    BY <2>1, <2>2 DEF Loadable, RestartLoads
<1>3. CASE Stop
  BY <1>3 DEF Stop, Loadable, RestartLoads, Loads, Loaded
<1>4. CASE BootFresh
  BY <1>4, EmptyWellFormed DEF BootFresh, Loadable, RestartLoads, Loads, Loaded
<1>5. CASE BootLoad
  <2>1. disk' = disk /\ pc' = "idle"
    BY <1>5 DEF BootLoad, Inv, SaveInOrder
  <2> QED
    BY <2>1 DEF Loadable, RestartLoads, Loads, Loaded
<1>6. CASE UNCHANGED vars
  BY <1>6 DEF vars, Loadable, RestartLoads, Loads, Loaded
<1> QED
  BY <1>1, <1>2, <1>3, <1>4, <1>5, <1>6 DEF Persist

(* A file from before the first start can be loaded: it holds no domains.    *)
LEMMA FirstFileLoads == Init => Loadable
<1> SUFFICES ASSUME Init PROVE Loadable
  OBVIOUS
<1>1. disk.kind \in {"missing", "blank", "legacy"} /\ pc = "idle"
  BY StoreAssumption DEF Init, FileOf
<1>2. Loaded(disk).domains = {}
  BY <1>1 DEF Loaded, EmptyConfig
<1> QED
  BY <1>1, <1>2 DEF Loadable, RestartLoads, Loads, Compilable

(* A commit begins to save only what compiles.                               *)
LEMMA CommitLoads ==
    ASSUME Loadable, NEW c, Commit(c)
    PROVE  Loadable'
BY DEF Commit, Unlocked, Loadable, RestartLoads, Loads, Loaded

(* Without forwards and DNAT rules, and no way to enter any, there is no     *)
(* edit that saves without compiling.                                        *)
NoForwards ==
    /\ mem.forwards = {} /\ mem.dnat = {}
    /\ disk.config.forwards = {} /\ disk.config.dnat = {}
    /\ tmp.config.forwards = {} /\ tmp.config.dnat = {}

LEMMA SiteAndDomainEdit ==
    ASSUME Inv, Edit, NoForwards, ForwardInput = {}, DNATInput = {}
    PROVE  \E c \in Config : Commit(c) /\ c.forwards = {} /\ c.dnat = {}
<1>0. mem \in Config
  BY DEF Inv, TypeOK
<1>2. PICK c : /\ Commit(c)
               /\ \/ \E S : c = [mem EXCEPT !.sites = S]
                  \/ \E S : c = [mem EXCEPT !.domains = S]
  <2>1. CASE \E old \in Host \cup {NoKey}, s \in SiteInput : UpsertSite(old, s)
    BY <2>1 DEF UpsertSite
  <2>2. CASE \E old \in Host \cup {NoKey}, d \in DomainInput : UpsertDomain(old, d)
    BY <2>2 DEF UpsertDomain
  <2>3. CASE \E k \in Host : DeleteSite(k)
    BY <2>3 DEF DeleteSite
  <2>4. CASE \E k \in Host : DeleteDomain(k)
    BY <2>4 DEF DeleteDomain
  <2>5. ~ \E k \in Name : DeleteForward(k) \/ DeleteDNAT(k)
    BY DEF NoForwards, DeleteForward, DeleteDNAT, HasKey
  <2> QED
    BY <2>1, <2>2, <2>3, <2>4, <2>5 DEF Edit
<1>3. c.forwards = {} /\ c.dnat = {}
  BY <1>0, <1>2 DEF Config, NoForwards
<1>4. c \in Config
  <2>1. PICK d \in Config : EnterStore(d)
    BY EditStep DEF Inv, TypeOK, CopiesWellFormed
  <2> QED
    BY <2>1, <1>2 DEF EnterStore, Commit, Store
<1> QED
  BY <1>2, <1>3, <1>4

(* With site and domain edits alone the file can always be loaded again,     *)
(* whatever they contain: they compile before they save (commitLocked).      *)
THEOREM CompiledSavesLoad ==
    ASSUME ForwardInput = {}, DNATInput = {}
    PROVE  Spec => []RestartLoads
<1>1. Init => NoForwards
  BY StoreAssumption DEF Init, NoForwards, EmptyConfig, FileOf
<1>2. Inv /\ NoForwards /\ [Next]_vars => NoForwards'
  <2> SUFFICES ASSUME Inv, NoForwards, [Next]_vars PROVE NoForwards'
    OBVIOUS
  <2>1. CASE Edit
    BY <2>1, SiteAndDomainEdit DEF Commit, NoForwards
  <2>2. CASE Persist
    BY <2>2 DEF Persist, OpenTmp, WriteTmp, RenameTmp, PersistFails, NoForwards,
       FileOf, Saved, EmptyConfig
  <2>3. CASE Stop \/ BootFresh
    BY <2>3 DEF Stop, BootFresh, NoForwards, EmptyConfig
  <2>4. CASE BootLoad
    <3>1. Loaded(disk).forwards = {} /\ Loaded(disk).dnat = {}
      BY DEF NoForwards, Loaded, EmptyConfig
    <3> QED
      BY <2>4, <3>1 DEF BootLoad, NoForwards
  <2>5. CASE UNCHANGED vars
    BY <2>5 DEF vars, NoForwards
  <2> QED
    BY <2>1, <2>2, <2>3, <2>4, <2>5 DEF Next
<1>3. Inv /\ NoForwards /\ Loadable /\ [Next]_vars => Loadable'
  BY SiteAndDomainEdit, CommitLoads, LoadableStep DEF Next
<1>4. Loadable => RestartLoads
  BY DEF Loadable
<1> QED
  BY <1>1, <1>2, <1>3, <1>4, FirstFileLoads, InvInit, InvNext, PTL DEF Spec

(* If every domain that can be submitted compiles - all targets parse - the  *)
(* same holds for every edit: memory compiles at all times (recompileLocked).*)
THEOREM GoodTargetsLoad ==
    ASSUME \A d \in DomainInput : Compilable({Normalised(d)})
    PROVE  Spec => []RestartLoads
<1> DEFINE J == Compilable(mem.domains) /\ RestartLoads
<1>1. Init => J
  BY FirstFileLoads DEF Init, EmptyConfig, Compilable, Loadable
<1>2. Inv /\ J /\ [Next]_vars => J'
  <2> SUFFICES ASSUME Inv, J, [Next]_vars PROVE J'
    OBVIOUS
  <2>1. ASSUME Edit PROVE Compilable(mem.domains)'
    <3>0. mem \in Config
      BY DEF Inv, TypeOK
    <3>1. \/ mem'.domains \subseteq mem.domains
          \/ \E old : \E d \in DomainInput :
                 mem'.domains = Upserted(mem.domains, old, Normalised(d))
      <4>1. CASE \E old \in Host \cup {NoKey}, d \in DomainInput : UpsertDomain(old, d)
        BY <3>0, <4>1 DEF UpsertDomain, Commit, Config
      <4>2. CASE \E k \in Host : DeleteDomain(k)
        BY <3>0, <4>2 DEF DeleteDomain, Commit, Config, Without
      <4>3. CASE \/ \E old \in Host \cup {NoKey}, s \in SiteInput : UpsertSite(old, s)
                 \/ \E k \in Host : DeleteSite(k)
        BY <3>0, <4>3 DEF UpsertSite, DeleteSite, Commit, Config
      <4>4. CASE \/ \E old \in Name \cup {NoKey} :
                       \/ \E f \in ForwardInput : UpsertForward(old, f)
                       \/ \E d \in DNATInput : UpsertDNAT(old, d)
                 \/ \E k \in Name : DeleteForward(k) \/ DeleteDNAT(k)
        BY <3>0, <4>4 DEF UpsertForward, DeleteForward, UpsertDNAT, DeleteDNAT,
           Store, Config
      <4> QED
        BY <2>1, <4>1, <4>2, <4>3, <4>4 DEF Edit
    <3> QED
      BY <3>1 DEF Compilable, Upserted, Without
  <2>2. ASSUME Edit PROVE RestartLoads'
    BY <2>2, EditLeaves DEF RestartLoads, Loads, Loaded
  <2>3. CASE Persist \/ Stop \/ BootFresh \/ BootLoad \/ UNCHANGED vars
    <3>1. RestartLoads'
      BY <2>3, LoadableStep DEF Loadable
    <3>2. Compilable(mem.domains)'
      BY <2>3 DEF Persist, OpenTmp, WriteTmp, RenameTmp, PersistFails, Stop,
         BootFresh, BootLoad, Loads, vars, EmptyConfig, Compilable
    <3> QED
      BY <3>1, <3>2
  <2> QED
    BY <2>1, <2>2, <2>3 DEF Next
<1>3. J => RestartLoads
  OBVIOUS
<1> QED
  BY <1>1, <1>2, <1>3, InvInit, InvNext, PTL DEF Spec

-----------------------------------------------------------------------------
(* The routes of a first-release file.                                       *)

(* The site legacy routes are migrated to is none of those the admin edits.  *)
LEMMA DefaultSiteKept ==
    ASSUME mem \in Config, Edit, DefaultHost # NoKey, DefaultHost \notin Host
    PROVE  {x \in mem'.sites : x.key = DefaultHost}
               = {x \in mem.sites : x.key = DefaultHost}
<1>1. \/ mem'.sites = mem.sites
      \/ \E k \in Host : mem'.sites = Without(mem.sites, k)
      \/ \E old \in Host \cup {NoKey}, s \in SiteInput :
             mem'.sites = Upserted(mem.sites, old, s)
  BY DEF Edit, UpsertSite, DeleteSite, UpsertDomain, DeleteDomain, UpsertForward,
     DeleteForward, UpsertDNAT, DeleteDNAT, Commit, Store, Config
<1>2. \A s \in SiteInput : s.key \in Host
  BY StoreAssumption
<1> QED
  BY <1>1, <1>2 DEF Upserted, Without

(* A file in another form than the object holds no configuration, and what   *)
(* the file holds of the legacy routes the running process holds, too.       *)
LegacyInv ==
    /\ disk.kind # "object" => disk.config = EmptyConfig
    /\ proc # "down" /\ LegacyRoutes \subseteq RoutesOn(disk)
           => LegacyRoutes \subseteq RoutesOn(Saved(mem))

LEMMA LegacyInvNext ==
    ASSUME DefaultHost # NoKey, DefaultHost \notin Host, Inv, LegacyInv, [Next]_vars
    PROVE  LegacyInv'
<1>0. \A c : RoutesOn(Saved(c)) =
                UNION {s.routes : s \in {x \in c.sites : x.key = DefaultHost}}
  BY DEF RoutesOn, Saved
<1>1. CASE Edit
  <2>1. proc # "down" /\ disk' = disk
    BY <1>1, EditLeaves DEF Unlocked
  <2>2. RoutesOn(Saved(mem))' = RoutesOn(Saved(mem))
    BY <1>0, <1>1, DefaultSiteKept DEF Inv, TypeOK, Saved, RoutesOn
  <2>3. RoutesOn(disk)' = RoutesOn(disk)
    BY <2>1 DEF RoutesOn
  <2> QED
    BY <2>1, <2>2, <2>3 DEF LegacyInv
<1>2. CASE OpenTmp \/ WriteTmp \/ PersistFails \/ UNCHANGED vars
  BY <1>2 DEF OpenTmp, WriteTmp, PersistFails, vars, Inv, SaveInOrder, LegacyInv,
     RoutesOn, Saved
<1>3. CASE RenameTmp
  <2>1. disk' = Saved(mem) /\ mem' = mem
    BY <1>3 DEF RenameTmp, Inv, SaveInOrder
  <2> QED
    BY <2>1 DEF LegacyInv, RoutesOn, Saved
<1>4. CASE Stop
  BY <1>4 DEF Stop, LegacyInv
<1>5. CASE BootFresh
  <2>1. disk' = disk /\ RoutesOn(disk) = {}
    BY <1>5 DEF BootFresh, LegacyInv, RoutesOn, EmptyConfig
  <2> QED
    BY <2>1 DEF LegacyInv, RoutesOn
<1>6. CASE BootLoad
  <2>1. disk' = disk /\ mem' = Loaded(disk)
    BY <1>6 DEF BootLoad
  <2>2. LegacyRoutes \subseteq RoutesOn(disk)
            => LegacyRoutes \subseteq RoutesOn(Saved(Loaded(disk)))
    <3>1. CASE disk.kind = "object"
      BY <3>1 DEF Loaded, RoutesOn, Saved
    <3>2. CASE disk.kind = "legacy" /\ LegacyRoutes # {}
      <4>1. Loaded(disk).sites = {[key |-> DefaultHost, routes |-> LegacyRoutes]}
        BY <3>2 DEF Loaded, Migrated, EmptyConfig
      <4>2. {x \in Loaded(disk).sites : x.key = DefaultHost}
                = {[key |-> DefaultHost, routes |-> LegacyRoutes]}
        BY <4>1
      <4>3. RoutesOn(Saved(Loaded(disk)))
                = UNION {s.routes : s \in {[key |-> DefaultHost, routes |-> LegacyRoutes]}}
        BY <1>0, <4>2
      <4> QED
        BY <4>3
    <3>3. CASE disk.kind \notin {"object", "legacy"}
      BY <3>3 DEF LegacyInv, RoutesOn, EmptyConfig
    <3> QED
      BY <3>1, <3>2, <3>3
  <2> QED
    BY <2>1, <2>2 DEF LegacyInv, RoutesOn, Saved
<1> QED
  BY <1>1, <1>2, <1>3, <1>4, <1>5, <1>6 DEF Next, Persist

(* With EXTERNAL_HOST set, and as long as the site of that name is not       *)
(* edited, no save loses a route of the first-release file, whatever fails,  *)
(* crashes and restarts between the migration and the save (migrateRoutes).  *)
THEOREM LegacyRoutesSurvive ==
    ASSUME DefaultHost # NoKey, DefaultHost \notin Host
    PROVE  Spec => LegacyRoutesKept
<1>1. Init => LegacyInv
  BY StoreAssumption DEF Init, LegacyInv, FileOf
<1>2. Inv /\ LegacyInv /\ [Next]_vars
        => [LegacyRoutes \subseteq RoutesOn(disk)
                => LegacyRoutes \subseteq RoutesOn(disk')]_disk
  <2> SUFFICES ASSUME Inv, LegacyInv, [Next]_vars, disk' # disk,
                      LegacyRoutes \subseteq RoutesOn(disk)
               PROVE  LegacyRoutes \subseteq RoutesOn(disk')
    OBVIOUS
  <2>1. ~ Edit
    BY EditLeaves
  <2>2. RenameTmp
    BY <2>1 DEF Next, Persist, OpenTmp, WriteTmp, PersistFails, Stop, BootFresh,
       BootLoad, vars
  <2> QED
    BY <2>2 DEF RenameTmp, Inv, SaveInOrder, LegacyInv
<1>3. Inv /\ LegacyInv /\ [Next]_vars => LegacyInv'
  BY LegacyInvNext
<1> QED
  BY <1>1, <1>2, <1>3, InvInit, InvNext, PTL DEF Spec, LegacyRoutesKept

=============================================================================
