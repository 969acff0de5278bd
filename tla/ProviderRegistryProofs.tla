------------------------- MODULE ProviderRegistryProofs -------------------------
(***************************************************************************)
(* Theorems about ProviderRegistry for any threads, modules, candidates    *)
(* and catalogs: an admitted provider stays, no claimed module is lost,    *)
(* what discovery returns can be got, and commands are exposed by their    *)
(* owners.                                                                 *)
(***************************************************************************)
EXTENDS ProviderRegistry, FiniteSetTheorems, TLAPS

Engaged == {"import", "record", "register", "admit"}

\* Variables that change at one place, and the sources the threads are at.
TypeInv ==
  /\ DOMAIN providers = Names /\ DOMAIN pc = Threads /\ DOMAIN at = Threads
  /\ DOMAIN code = Threads /\ DOMAIN admitted = Threads
  /\ todo \in [Threads -> Seq(Modules)]
  /\ candidate \in [Sources -> UNION {Candidates[s] : s \in Sources}]
  /\ \A s \in Sources : ProviderName(candidate[s]) \in Names \cup {None}
  /\ \A t \in Threads : pc[t] \in Engaged => at[t] \in Sources
  /\ \A n \in Names : providers[n] \in Sources \cup {None}

\* Between its checks and its admission a thread holds the lock, so its provider's
\* name stays free.
AdmitInv ==
  \A t \in Threads : pc[t] = "admit" =>
    /\ lock = t
    /\ ProviderName(Candidate(t)) \in Names
    /\ providers[ProviderName(Candidate(t))] = None

RegistryInv == TypeInv /\ AdmitInv

USE RegistryAssumption DEF Step, Candidate

-------------------------------------------------------------------------------
(* The checks *)

\* What FirstFailure finds nothing wrong with has passed its first checks.
LEMMA NoFailure ==
  ASSUME NEW checks, NEW k \in 1..3, 1..k \subseteq DOMAIN checks, FirstFailure(checks) = {}
  PROVE  checks[k].holds
<1> DEFINE First(i) == /\ i \in DOMAIN checks /\ ~ checks[i].holds
                       /\ \A j \in 1..(i - 1) : checks[j].holds
<1>1. \A i : ~ First(i)
  BY DEF FirstFailure
<1>2. checks[1].holds
  BY <1>1
<1>3. k \in {2, 3} => checks[2].holds
  BY <1>1, <1>2
<1>4. k = 3 => checks[3].holds
  BY <1>1, <1>2, <1>3
<1>. QED
  BY <1>2, <1>3, <1>4

LEMMA CheckFields ==
  ASSUME NEW k, NEW b \in BOOLEAN
  PROVE  Check(k, b).holds = b
BY DEF Check

LEMMA ObjectPasses ==
  ASSUME NEW c, ProviderName(c) \in Names \cup {None}, InspectionFailure(c) = {}
  PROVE  ProviderName(c) \in Names /\ providers[ProviderName(c)] = None
<1> DEFINE checks == ObjectChecks(c)
<1>1. /\ DOMAIN checks = 1..7
      /\ checks[3] = Check("empty_provider_name", ProviderName(c) # None)
  BY DEF ObjectChecks, Described
<1>2. checks[3].holds = (ProviderName(c) # None)
  BY <1>1, CheckFields
<1>3. FirstFailure(checks) = {} /\ providers[ProviderName(c)] = None
  BY DEF InspectionFailure, OrElse
<1> HIDE DEF checks
<1>4. checks[3].holds
  BY <1>1, <1>3, NoFailure
<1>. QED
  BY <1>2, <1>3, <1>4

LEMMA RuntimePasses ==
  ASSUME NEW c, AdmissionFailure(c) = {}, mode = "runtime"
  PROVE  ~ c.name.padded
<1> DEFINE checks == RuntimeChecks(c)
<1>1. /\ DOMAIN checks = 1..2
      /\ checks[1] = Check("missing_packaged_decision", CatalogEntry(c) # None)
  BY DEF RuntimeChecks
<1>2. checks[1].holds = (CatalogEntry(c) # None)
  BY <1>1, CheckFields
<1>3. FirstFailure(checks) = {}
  BY DEF AdmissionFailure, OrElse
<1> HIDE DEF checks
<1>4. checks[1].holds
  BY <1>1, <1>3, NoFailure
<1>. QED
  BY <1>2, <1>4 DEF CatalogEntry
-------------------------------------------------------------------------------
(* The registry *)

LEMMA RegistryInit == ASSUME Init PROVE RegistryInv
BY DEF Init, RegistryInv, TypeInv, AdmitInv, Engaged, ProviderName

\* The modules a discovery is asked for, in the order of their names.
LEMMA OrdersAreSequences ==
  ASSUME NEW S \in SUBSET Modules, NEW s \in Orders(S)
  PROVE  s \in Seq(Modules)
<1>1. Cardinality(S) \in Nat
  BY FS_Subset, FS_CardinalityType
<1>2. s \in [1..Cardinality(S) -> S]
  BY DEF Orders
<1>3. s \in [1..Cardinality(S) -> Modules]
  BY <1>2
<1>. QED
  BY <1>1, <1>3

LEMMA RegistryNext ==
  ASSUME RegistryInv, [Next]_vars PROVE RegistryInv'
<1> USE DEF RegistryInv, TypeInv, AdmitInv, Engaged, registry, threads, service, env
<1>1. ASSUME NEW t \in Threads, Discover(t) PROVE RegistryInv'
  <2>1. PICK S \in SUBSET Modules : \E s \in Orders(S) : todo' = [todo EXCEPT ![t] = s]
    BY <1>1 DEF Discover
  <2>2. PICK s \in Orders(S) : todo' = [todo EXCEPT ![t] = s]
    BY <2>1
  <2>3. s \in Seq(Modules)
    BY <2>1, <2>2, OrdersAreSequences
  <2>4. todo' \in [Threads -> Seq(Modules)]
    BY <2>2, <2>3
  <2>. QED
    BY <1>1, <2>4, Zenon DEF Discover, Step
<1>2. ASSUME NEW t \in Threads, Claim(t) PROVE RegistryInv'
  <2>1. todo' \in [Threads -> Seq(Modules)]
    BY <1>2 DEF Claim
  <2>2. todo[t] # <<>> => Head(todo[t]) \in Modules
    OBVIOUS
  <2>. QED
    BY <1>2, <2>1, <2>2 DEF Claim, Sources
<1>3. ASSUME NEW t \in Threads, Import(t) PROVE RegistryInv'
  BY <1>3 DEF Import, Raises
<1>4. ASSUME NEW t \in Threads, ImportFails(t) PROVE RegistryInv'
  BY <1>4 DEF ImportFails, Raises
<1>5. ASSUME NEW t \in Threads, RecordDiscoveryDiagnostic(t) PROVE RegistryInv'
  BY <1>5 DEF RecordDiscoveryDiagnostic
<1>6. ASSUME NEW t \in Threads, Return(t) PROVE RegistryInv'
  BY <1>6 DEF Return
<1>7. ASSUME NEW t \in Threads, RegisterObject(t) PROVE RegistryInv'
  BY <1>7 DEF RegisterObject, Sources
<1>8. ASSUME NEW t \in Threads, Inspect(t) PROVE RegistryInv'
  <2>1. CASE InspectionFailure(Candidate(t)) = {}
    <3>1. /\ ProviderName(Candidate(t)) \in Names
          /\ providers[ProviderName(Candidate(t))] = None
      BY <1>8, <2>1, ObjectPasses DEF Inspect
    <3>. QED
      BY <1>8, <2>1, <3>1 DEF Inspect
  <2>2. CASE InspectionFailure(Candidate(t)) # {}
    BY <1>8, <2>2 DEF Inspect, Reject
  <2>. QED
    BY <2>1, <2>2
<1>9. ASSUME NEW t \in Threads, Admit(t) PROVE RegistryInv'
  BY <1>9, SMTT(30) DEF Admit, Reject
<1>10. ASSUME NEW t \in Threads, AdmitRaises(t) \/ DecisionUnreadable(t) PROVE RegistryInv'
  <2>1. /\ pc[t] = "admit" /\ lock' = None
        /\ UNCHANGED <<providers, todo, at, admitted, candidate>>
    BY <1>10 DEF AdmitRaises, DecisionUnreadable
  <2>2. PICK e : Raises(t, e)
    BY <1>10 DEF AdmitRaises, DecisionUnreadable
  <2>3. /\ DOMAIN pc' = Threads /\ DOMAIN code' = Threads /\ pc'[t] \in {"record", "raised"}
        /\ \A u \in Threads \ {t} : pc'[u] = pc[u]
    BY <2>2 DEF Raises
  <2>4. \A u \in Threads : pc'[u] # "admit"
    BY <2>1, <2>3
  <2>5. TypeInv'
    BY <2>1, <2>3
  <2>. QED
    BY <2>4, <2>5
<1>11. CASE ClearDiagnostics \/ FileChanges \/ Build \/ ImportAborts \/ RegisterCommands
  BY <1>11 DEF ClearDiagnostics, FileChanges, Build, ImportAborts, RegisterCommands
<1>12. CASE UNCHANGED vars
  BY <1>12 DEF vars
<1>. QED
  BY <1>1, <1>2, <1>3, <1>4, <1>5, <1>6, <1>7, <1>8, <1>9, <1>10, <1>11, <1>12 DEF Next

\* Only Admit changes the providers, and only at a free name.
LEMMA KeepsStep ==
  ASSUME RegistryInv, [Next]_vars
  PROVE  /\ candidate' = candidate
         /\ \A n \in Names : providers[n] # None => providers'[n] = providers[n]
<1>1. ASSUME NEW t \in Threads, Admit(t)
      PROVE  \A n \in Names : providers[n] # None => providers'[n] = providers[n]
  BY <1>1 DEF Admit, RegistryInv, TypeInv, AdmitInv
<1>2. ASSUME NEW t \in Threads, Admit(t) PROVE candidate' = candidate
  BY <1>2 DEF Admit, env
<1>3. CASE \E t \in Threads :
             \/ Discover(t) \/ Claim(t) \/ Import(t) \/ ImportFails(t)
             \/ RecordDiscoveryDiagnostic(t) \/ Return(t)
             \/ RegisterObject(t) \/ Inspect(t) \/ AdmitRaises(t) \/ DecisionUnreadable(t)
  BY <1>3 DEF Discover, Claim, Import, ImportFails, RecordDiscoveryDiagnostic, Return,
              RegisterObject, Inspect, AdmitRaises, DecisionUnreadable, registry, env
<1>4. CASE ClearDiagnostics \/ FileChanges \/ Build \/ ImportAborts \/ RegisterCommands
  BY <1>4 DEF ClearDiagnostics, FileChanges, Build, ImportAborts, RegisterCommands, registry, env
<1>5. CASE UNCHANGED vars
  BY <1>5 DEF vars, registry, env
<1>. QED
  BY <1>1, <1>2, <1>3, <1>4, <1>5 DEF Next

\* An admitted provider is never replaced: names are checked and taken under one lock.
THEOREM ProviderKept == Spec => KeepsProvider
<1>1. RegistryInv /\ [Next]_vars =>
        [\A n \in Names : providers[n] # None => providers'[n] = providers[n]]_vars
  BY KeepsStep
<1>. QED
  BY RegistryInit, RegistryNext, <1>1, PTL DEF Spec, KeepsProvider
-------------------------------------------------------------------------------
(* What discovery answers, and what it leaves behind *)

\* A runtime answer holds names without blanks, each of a provider that is there.
ServedInv ==
  mode = "runtime" =>
    \A t \in Threads : \A name \in admitted[t] :
      /\ ~ name.padded /\ name.text \in Names
      /\ providers[name.text] # None

\* Admission adds the name of a provider it has just put under that name.
LEMMA ServedStep ==
  ASSUME RegistryInv, ServedInv, [Next]_vars PROVE ServedInv'
<1> USE DEF RegistryInv, TypeInv, AdmitInv, ServedInv, registry, threads, service, env
<1>1. ASSUME NEW t \in Threads, Admit(t) PROVE ServedInv'
  <2> DEFINE c == Candidate(t)
  <2>1. CASE AdmissionFailure(c) # {}
    BY <1>1, <2>1 DEF Admit
  <2>2. CASE AdmissionFailure(c) = {}
    <3>1. at[t] # None /\ ProviderName(c) \in Names
      BY <1>1 DEF Admit, Engaged
    <3>2. providers' = [providers EXCEPT ![ProviderName(c)] = at[t]] /\ mode' = mode
      BY <1>1, <2>2 DEF Admit
    <3>3. \A n \in Names : providers[n] # None => providers'[n] # None
      BY <3>1, <3>2
    <3>4. providers'[ProviderName(c)] # None
      BY <3>1, <3>2
    <3>5. \A u \in Threads : \A name \in admitted'[u] : name \in admitted[u] \/ name = c.name
      BY <1>1, <2>2 DEF Admit, AsNamed
    <3>6. mode = "runtime" => ~ c.name.padded
      BY <2>2, RuntimePasses
    <3>. QED
      BY <3>1, <3>2, <3>3, <3>4, <3>5, <3>6 DEF ProviderName
  <2>. QED
    BY <2>1, <2>2
<1>2. CASE UNCHANGED <<mode, providers, admitted>>
  BY <1>2
<1>3. CASE \E t \in Threads :
             \/ Discover(t) \/ Claim(t) \/ Import(t) \/ ImportFails(t)
             \/ RecordDiscoveryDiagnostic(t) \/ Return(t)
             \/ RegisterObject(t) \/ Inspect(t) \/ AdmitRaises(t) \/ DecisionUnreadable(t)
  BY <1>2, <1>3 DEF Discover, Claim, Import, ImportFails, RecordDiscoveryDiagnostic, Return,
                    RegisterObject, Inspect, AdmitRaises, DecisionUnreadable
<1>4. CASE ClearDiagnostics \/ FileChanges \/ Build \/ ImportAborts \/ RegisterCommands
  BY <1>2, <1>4 DEF ClearDiagnostics, FileChanges, Build, ImportAborts, RegisterCommands
<1>5. CASE UNCHANGED vars
  BY <1>2, <1>5 DEF vars
<1>. QED
  BY <1>1, <1>3, <1>4, <1>5 DEF Next

\* Every name that runtime discovery returned is one that get answers for.
THEOREM ReturnedNamesServed == Spec => []ReturnedIsServed
<1>1. Init => ServedInv
  BY DEF Init, ServedInv
<1>2. RegistryInv /\ ServedInv /\ [Next]_vars => ServedInv'
  BY ServedStep
<1>3. ServedInv => ReturnedIsServed
  BY DEF ServedInv, ReturnedIsServed, Get
<1>. QED
  BY RegistryInit, RegistryNext, <1>1, <1>2, <1>3, PTL DEF Spec

\* The four ways to account for a module.
HeldBy(m, t) == at[t] = m /\ pc[t] \in Engaged \cup {"raised"}
Accounted(m) ==
  \/ \E t \in Threads : HeldBy(m, t)
  \/ \E n \in Names : providers[n] = m
  \/ \E d \in diagnostics \cup cleared : d[2] = m

ClaimsInv == discovered \subseteq Modules /\ \A m \in discovered : Accounted(m)

\* A step in which threads keep what they hold, or leave it in one of the other ways,
\* and in which nothing else gets lost, accounts for every module again.
LEMMA AccountKept ==
  ASSUME NEW m \in Modules, Accounted(m),
         \A t \in Threads : HeldBy(m, t) => Accounted(m)',
         \A n \in Names : providers[n] # None => providers'[n] = providers[n],
         diagnostics \cup cleared \subseteq (diagnostics \cup cleared)'
  PROVE  Accounted(m)'
<1>1. m # None
  BY DEF Sources
<1>. QED
  BY <1>1 DEF Accounted

LEMMA RejectAccounts ==
  ASSUME NEW t \in Threads, NEW failure, failure # {}, Reject(t, failure)
  PROVE  \A m \in Modules : HeldBy(m, t) => Accounted(m)'
<1>1. PICK k : k \in failure
  OBVIOUS
<1>2. <<k, at[t]>> \in diagnostics' /\ <<k, at[t]>>[2] = at[t]
  BY <1>1 DEF Reject
<1>. QED
  BY <1>2 DEF Accounted, HeldBy

LEMMA ClaimsStep ==
  ASSUME RegistryInv, ClaimsInv, [Next]_vars PROVE ClaimsInv'
<1> USE DEF registry, threads, service, env
<1>1. \A n \in Names : providers[n] # None => providers'[n] = providers[n]
  BY KeepsStep
<1>2. ASSUME discovered' = discovered, diagnostics \cup cleared \subseteq (diagnostics \cup cleared)',
             NEW t, \A u \in Threads \ {t} : at'[u] = at[u] /\ pc'[u] = pc[u],
             \A m \in Modules : t \in Threads /\ HeldBy(m, t) => Accounted(m)'
      PROVE  ClaimsInv'
  <2>1. ASSUME NEW m \in discovered PROVE Accounted(m)'
    <3>1. \A u \in Threads \ {t} : HeldBy(m, u) => Accounted(m)'
      BY <1>2 DEF Accounted, HeldBy
    <3>. QED
      BY <1>1, <1>2, <2>1, <3>1, AccountKept DEF ClaimsInv
  <2>. QED
    BY <1>2, <2>1 DEF ClaimsInv
<1> USE DEF Accounted, HeldBy, Engaged
<1>3. ASSUME NEW t \in Threads, Claim(t) PROVE ClaimsInv'
  <2>1. CASE discovered' = discovered
    BY <1>1, <1>2, <1>3, <2>1 DEF Claim, TypeInv, RegistryInv
  <2>2. CASE discovered' # discovered
    <3>0. Head(todo[t]) \in Modules
      BY <1>3 DEF Claim, RegistryInv, TypeInv
    <3>1. PICK m \in Modules : /\ discovered' = discovered \cup {m}
                              /\ at' = [at EXCEPT ![t] = m]
                              /\ pc' = [pc EXCEPT ![t] = "import"]
      BY <1>3, <2>2, <3>0 DEF Claim
    <3>2. Accounted(m)'
      BY <3>1 DEF RegistryInv, TypeInv
    <3>3. pc[t] = "next" /\ providers' = providers /\ UNCHANGED <<diagnostics, cleared>>
      BY <1>3 DEF Claim
    <3>4. \A k \in Modules : \A u \in Threads : HeldBy(k, u) => Accounted(k)'
      BY <3>1, <3>3 DEF RegistryInv, TypeInv
    <3>5. \A k \in discovered : Accounted(k)'
      BY <3>3, <3>4, AccountKept DEF ClaimsInv
    <3>. QED
      BY <3>1, <3>2, <3>5 DEF ClaimsInv
  <2>. QED
    BY <2>1, <2>2
<1>4. ASSUME NEW t \in Threads,
             Discover(t) \/ Import(t) \/ ImportFails(t) \/ Return(t) \/ RegisterObject(t)
      PROVE  ClaimsInv'
  BY <1>2, <1>4 DEF Discover, Import, ImportFails, Return, RegisterObject, Raises, RegistryInv, TypeInv
<1>5. ASSUME NEW t \in Threads, RecordDiscoveryDiagnostic(t) PROVE ClaimsInv'
  <2>1. <<code[t], at[t]>> \in diagnostics' /\ <<code[t], at[t]>>[2] = at[t]
    BY <1>5 DEF RecordDiscoveryDiagnostic
  <2>2. \A m \in Modules : HeldBy(m, t) => Accounted(m)'
    BY <2>1
  <2>3. \A u \in Threads \ {t} : at'[u] = at[u] /\ pc'[u] = pc[u]
    BY <1>5 DEF RecordDiscoveryDiagnostic, RegistryInv, TypeInv
  <2>. QED
    BY <1>2, <1>5, <2>2, <2>3 DEF RecordDiscoveryDiagnostic
<1>6. ASSUME NEW t \in Threads, Inspect(t) PROVE ClaimsInv'
  <2> DEFINE failure == InspectionFailure(Candidate(t))
  <2>1. CASE failure = {}
    BY <1>2, <1>6, <2>1, SMTT(30) DEF Inspect, RegistryInv, TypeInv
  <2>2. CASE failure # {}
    <3>1. Reject(t, failure)
      BY <1>6, <2>2 DEF Inspect
    <3>2. \A u \in Threads \ {t} : at'[u] = at[u] /\ pc'[u] = pc[u]
      BY <1>6, <3>1 DEF Inspect, Reject, RegistryInv, TypeInv
    <3>3. /\ discovered' = discovered
          /\ diagnostics \cup cleared \subseteq (diagnostics \cup cleared)'
      BY <1>6, <3>1 DEF Inspect, Reject
    <3>. QED
      BY <1>2, <2>2, <3>1, <3>2, <3>3, RejectAccounts
  <2>. QED
    BY <2>1, <2>2
<1>7. ASSUME NEW t \in Threads, Admit(t) PROVE ClaimsInv'
  <2> DEFINE failure == AdmissionFailure(Candidate(t))
  <2>1. CASE failure = {}
    <3>1. providers'[ProviderName(Candidate(t))] = at[t] /\ ProviderName(Candidate(t)) \in Names
      BY <1>7, <2>1 DEF Admit, RegistryInv, TypeInv, AdmitInv
    <3>2. \A m \in Modules : HeldBy(m, t) => Accounted(m)'
      BY <3>1
    <3>3. \A u \in Threads \ {t} : at'[u] = at[u] /\ pc'[u] = pc[u]
      BY <1>7, <2>1 DEF Admit, RegistryInv, TypeInv
    <3>. QED
      BY <1>2, <1>7, <2>1, <3>2, <3>3 DEF Admit
  <2>2. CASE failure # {}
    <3>1. Reject(t, failure)
      BY <1>7, <2>2 DEF Admit
    <3>2. \A u \in Threads \ {t} : at'[u] = at[u] /\ pc'[u] = pc[u]
      BY <1>7, <3>1 DEF Admit, Reject, RegistryInv, TypeInv
    <3>3. /\ discovered' = discovered
          /\ diagnostics \cup cleared \subseteq (diagnostics \cup cleared)'
      BY <1>7, <3>1 DEF Admit, Reject
    <3>. QED
      BY <1>2, <2>2, <3>1, <3>2, <3>3, RejectAccounts
  <2>. QED
    BY <2>1, <2>2
<1>8. ASSUME NEW t \in Threads, AdmitRaises(t) \/ DecisionUnreadable(t) PROVE ClaimsInv'
  BY <1>2, <1>8 DEF AdmitRaises, DecisionUnreadable, Raises, RegistryInv, TypeInv
<1>9. CASE ClearDiagnostics \/ FileChanges \/ Build \/ ImportAborts \/ RegisterCommands \/ UNCHANGED vars
  BY <1>9 DEF ClearDiagnostics, FileChanges, Build, ImportAborts, RegisterCommands, vars, ClaimsInv
<1>. QED
  BY <1>3, <1>4, <1>5, <1>6, <1>7, <1>8, <1>9 DEF Next

\* A claimed module is being admitted, is a provider, has left a diagnostic, or its
\* exception ended the discovery that had claimed it.
THEOREM NoModuleLost == Spec => []ClaimsAccounted
<1>1. Init => ClaimsInv
  BY DEF Init, ClaimsInv
<1>2. RegistryInv /\ ClaimsInv /\ [Next]_vars => ClaimsInv'
  BY ClaimsStep
<1>3. ClaimsInv => ClaimsAccounted
  BY DEF ClaimsInv, ClaimsAccounted, Accounted, HeldBy, Engaged
<1>. QED
  BY RegistryInit, RegistryNext, <1>1, <1>2, <1>3, PTL DEF Spec
-------------------------------------------------------------------------------
(* What the server exposes *)

\* The command types that were built: every command is its provider's, and no other
\* provider's nor the server's.
ExposeInv ==
  /\ server \in {"built", "up"} =>
       \A c \in DOMAIN types :
         /\ types[c] \in Names /\ providers[types[c]] # None
         /\ c \notin Reserved
         /\ \A c2 \in DOMAIN types : c \in CommandsOf(types[c2]) => types[c] = types[c2]
  /\ server = "up" => \A c \in DOMAIN types : table[c] \in {types[c], "adapter"}

LEMMA BuildExposes ==
  ASSUME Build PROVE ExposeInv'
<1>1. CASE ~ DistinctNames
  BY <1>1 DEF Build, ExposeInv
<1>2. CASE DistinctNames
  <2>1. types' = [c \in UNION {CommandsOf(n) : n \in Admitted} |->
                    CHOOSE n \in Admitted : c \in CommandsOf(n)]
    BY <1>2 DEF Build
  <2>2. ASSUME NEW c \in DOMAIN types'
        PROVE  types'[c] \in Admitted /\ c \in CommandsOf(types'[c])
    <3>1. \E n \in Admitted : c \in CommandsOf(n)
      BY <2>1, <2>2
    <3>. QED
      BY <2>1, <2>2, <3>1
  <2>3. \A n : CommandsOf(n)' = CommandsOf(n)
    BY DEF Build, CommandsOf, registry, env
  <2>4. ASSUME NEW c \in DOMAIN types'
        PROVE  /\ types'[c] \in Names /\ providers[types'[c]] # None
               /\ c \notin Reserved
               /\ \A c2 \in DOMAIN types' :
                    c \in CommandsOf(types'[c2]) => types'[c] = types'[c2]
    BY <1>2, <2>2, <2>4 DEF DistinctNames, Admitted
  <2>. QED
    BY <1>2, <2>3, <2>4 DEF Build, ExposeInv, registry
<1>. QED
  BY <1>1, <1>2

\* An admitted provider keeps its place and its commands.
LEMMA CommandsKept ==
  ASSUME RegistryInv, [Next]_vars, NEW n \in Names, providers[n] # None
  PROVE  providers'[n] # None /\ CommandsOf(n)' = CommandsOf(n)
<1>1. providers'[n] = providers[n] /\ candidate' = candidate
  BY KeepsStep
<1>. QED
  BY <1>1 DEF CommandsOf

LEMMA ExposeStep ==
  ASSUME RegistryInv, ExposeInv, [Next]_vars PROVE ExposeInv'
<1>1. CASE UNCHANGED service
  <2>1. \A n \in Names : providers[n] # None =>
                          providers'[n] # None /\ CommandsOf(n)' = CommandsOf(n)
    BY CommandsKept
  <2>. QED
    BY <1>1, <2>1 DEF ExposeInv, service
<1>2. CASE Build
  BY <1>2, BuildExposes
<1>3. CASE ImportAborts
  BY <1>3 DEF ImportAborts, ExposeInv
<1>4. CASE RegisterCommands
  <2>1. UNCHANGED <<types, providers>> /\ \A n : CommandsOf(n)' = CommandsOf(n)
    BY <1>4 DEF RegisterCommands, CommandsOf, registry, env
  <2>2. \A c \in DOMAIN types : c \notin Reserved => table'[c] \in {types[c], "adapter"}
    BY <1>4 DEF RegisterCommands
  <2>. QED
    BY <1>4, <2>1, <2>2 DEF RegisterCommands, ExposeInv
<1>5. CASE \E t \in Threads :
             \/ Discover(t) \/ Claim(t) \/ Import(t) \/ ImportFails(t)
             \/ RecordDiscoveryDiagnostic(t) \/ Return(t)
             \/ RegisterObject(t) \/ Inspect(t) \/ Admit(t) \/ AdmitRaises(t) \/ DecisionUnreadable(t)
  BY <1>1, <1>5 DEF Discover, Claim, Import, ImportFails, RecordDiscoveryDiagnostic, Return,
                    RegisterObject, Inspect, Admit, AdmitRaises, DecisionUnreadable
<1>6. CASE ClearDiagnostics \/ FileChanges \/ UNCHANGED vars
  BY <1>1, <1>6 DEF ClearDiagnostics, FileChanges, vars
<1>. QED
  BY <1>2, <1>3, <1>4, <1>5, <1>6 DEF Next

\* A server that is up answers a provider's command by that provider, unless the name
\* is the adapter's.
THEOREM CommandsExposedByOwner == Spec => []ExposedByOwner
<1>1. Init => ExposeInv
  BY DEF Init, ExposeInv
<1>2. RegistryInv /\ ExposeInv /\ [Next]_vars => ExposeInv'
  BY ExposeStep
<1>3. ExposeInv => ExposedByOwner
  BY DEF ExposeInv, ExposedByOwner
<1>. QED
  BY RegistryInit, RegistryNext, <1>1, <1>2, <1>3, PTL DEF Spec
===============================================================================
