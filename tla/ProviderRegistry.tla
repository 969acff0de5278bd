---------------------------- MODULE ProviderRegistry ----------------------------
(***************************************************************************)
(* The provider registry (provider_registry.py) and the start of the server *)
(* that uses it (server.py): modules are discovered, each one's provider is *)
(* checked and admitted under the registry's lock, and the commands of the *)
(* admitted providers are exposed.                                         *)
(*                                                                         *)
(* A candidate is what a module (or a caller of register) presents: one    *)
(* field for each thing the admission looks at.  Threads call              *)
(* discover_providers or register, once each; Main is the server's thread. *)
(***************************************************************************)
EXTENDS Naturals, Sequences, FiniteSets

CONSTANTS
  None,
  Threads, Main,
  Modules,       \* of the providers package; naturals, in the order of their names
  Objects,       \* providers that a caller of register has made itself
  Candidates,    \* a function: what each of them may turn out to present
  Catalog,       \* the packaged decisions, by provider name
  Reserved,      \* the names of the server's own commands
  Builtin, Demo, \* the commands of the adapter, and those of them the server removes
  MaxMishaps     \* bound: failing imports, file changes, cleared diagnostics

Sources == Modules \cup Objects
Names == DOMAIN Catalog

ASSUME RegistryAssumption ==
  /\ Main \in Threads /\ Modules \subseteq Nat
  /\ Demo \subseteq Builtin
  /\ None \notin Sources \cup Threads /\ None \notin Names
  /\ Modules \cap Objects = {} /\ IsFiniteSet(Modules)
  /\ \A s \in Sources : \A c \in Candidates[s] : c.name.text \in Names \cup {None}

VARIABLES
  mode,          \* "runtime" or "source"
  candidate,     \* what each source presents
  file,          \* source mode: the decision file, None if there is none
  providers,     \* _providers: the source admitted under each name
  diagnostics,   \* _diagnostics, as the set of <<code, source>>
  discovered,    \* _discovered_modules
  lock,          \* the holder of the registry's lock
  pc, todo,      \* each thread; the modules its call has left
  at,            \* each thread: the source it is at
  code,          \* each thread: the diagnostic it is about to record
  admitted,      \* each thread: the names its call will return
  server,        \* "importing", "built", "up" or "failed"
  types,         \* the command types built: the provider of each command
  table,         \* the adapter's command registry: who answers each command
  mishaps,
  cleared        \* history: the diagnostics that were cleared

registry == <<providers, diagnostics, discovered>>
threads == <<pc, todo, at, code, admitted>>
service == <<server, types, table>>
env == <<mode, candidate, file, mishaps, cleared>>
vars == <<registry, lock, threads, service, env>>

-------------------------------------------------------------------------------
(* The checks of an admission, in the order the code makes them.  Each comes *)
(* with the code of its diagnostic; the first that does not hold rejects.    *)

Check(c, holds) == [code |-> c, holds |-> holds]

\* The code of the first failing check: a set, empty if all hold.
FirstFailure(checks) ==
  LET Fails(i) == ~ checks[i].holds
  IN  {checks[i].code : i \in {k \in DOMAIN checks : Fails(k) /\ \A j \in 1..(k - 1) : ~ Fails(j)}}

\* The failure of checks that are followed by others.
OrElse(failure, next) == IF failure # {} THEN failure ELSE next

\* A name is text with or without surrounding blanks; only the text is a key.
ProviderName(c) == c.name.text

\* The descriptor's fields are looked at once it is known to be a descriptor.
Described(c, P(_)) == c.descriptor # None => P(c.descriptor)

ObjectChecks(c) == <<
  Check("abstract_provider", ~ c.abstract),
  Check("execute_override_forbidden", ~ c.overrides),
  Check("empty_provider_name", ProviderName(c) # None),
  Check("invalid_provider_descriptor", c.descriptor # None),
  Check("descriptor_name_mismatch", Described(c, LAMBDA d : d.name = ProviderName(c))),
  Check("empty_provider_descriptor", Described(c, LAMBDA d : d.description)),
  Check("provider_name_constant_mismatch", c.constant \in {None, ProviderName(c)})>>

CommandNames(c) == {c.commands[i].name : i \in DOMAIN c.commands}
CommandChecks(c) == <<
  Check("empty_provider_commands", c.commands # <<>>),
  Check("invalid_provider_command", \A i \in DOMAIN c.commands : c.commands[i].spec),
  Check("duplicate_provider_command", Cardinality(CommandNames(c)) = Len(c.commands))>>

\* A schema is a tree of nodes, node 1 the root.  Only an object's properties are
\* looked at; items and the variants of allOf, anyOf and oneOf of every node are.
Children(t, n) == t[n].parts \cup (IF t[n].object THEN t[n].properties ELSE {})
Visited(t) ==
  LET reach[k \in Nat] ==
        IF k = 0 THEN {1} ELSE reach[k - 1] \cup UNION {Children(t, n) : n \in reach[k - 1]}
  IN  reach[Cardinality(DOMAIN t)]
ClosedSchema(t) ==
  \A n \in Visited(t) : t[n].object => t[n].closed /\ t[n].required

\* The code makes the last two checks for one command after the other; which of the two
\* codes is recorded is all that their order decides.
SchemaChecks(c) == <<
  Check("missing_command_schemas", c.schemas # None),
  Check("command_schema_set_mismatch", c.schemas # None => DOMAIN c.schemas = CommandNames(c)),
  Check("invalid_command_schema",
        c.schemas # None => \A k \in DOMAIN c.schemas : c.schemas[k] # None),
  Check("open_command_schema",
        c.schemas # None =>
          \A k \in DOMAIN c.schemas : c.schemas[k] # None => ClosedSchema(c.schemas[k]))>>

\* Mutant: the catalog is asked for the stripped name.
StrippedEntry(c) == IF ProviderName(c) = None THEN None ELSE Catalog[ProviderName(c)]

\* _decision_catalog.get(provider.name): the name as the provider gives it, blanks
\* included, while the catalog's own names are stripped.
CatalogEntry(c) ==
  IF c.name.padded \/ ProviderName(c) = None THEN None ELSE Catalog[ProviderName(c)]

Decision(c) ==
  IF mode = "runtime" \/ c.decision = None THEN CatalogEntry(c) ELSE c.decision

RuntimeChecks(c) == <<
  Check("missing_packaged_decision", CatalogEntry(c) # None),
  Check("packaged_decision_mismatch", c.decision \in {None, CatalogEntry(c)})>>

\* The decision names its file; file is what that path holds now.
SourceChecks(c) ==
  LET d == Decision(c)
      Of(P(_)) == d # None => P(d)
  IN  << Check("missing_source_decision", d # None),
         Check("invalid_decision_path", Of(LAMBDA e : e.path # "unsafe")),
         Check("invalid_decision_location", Of(LAMBDA e : e.path # "elsewhere")),
         Check("decision_path_escape", Of(LAMBDA e : e.path # "linked out")),
         Check("decision_file_missing", file # None),
         Check("decision_links_missing", file # None => file.links),
         Check("decision_digest_mismatch", file # None => Of(LAMBDA e : e.digest = file.digest))>>

\* The checks before the decision file is opened hold.
OpensDecision(c) == mode = "source" /\ FirstFailure(SubSeq(SourceChecks(c), 1, 5)) = {}

DescriptorChecks(c) == <<
  Check("descriptor_decision_mismatch",
        Described(c, LAMBDA d : Decision(c) # None =>
          d.client = Decision(c).client /\ d.strategy = Decision(c).strategy))>>

\* The descriptor's default_capabilities, and those of each command.
Capabilities(c) ==
  {d.capability : d \in {c.descriptor} \ {None}} \cup {c.commands[i].capability : i \in DOMAIN c.commands}
CapabilityChecks(c) == <<
  Check("progress_capability_mismatch",
        \A k \in Capabilities(c) : k.percentage = (k.progress = "exact")),
  Check("resume_offset_mismatch",
        \A k \in Capabilities(c) : k.resume = "byte_range" => k.offset),
  Check("block_size_capability_mismatch",
        \A k \in Capabilities(c) : k.limits => k.blocks)>>

Strategies(base) ==
  IF base = "library" THEN {"official_client", "popular_client", "hybrid"}
  ELSE {"direct_api", "hybrid"}
TransportChecks(c) == <<
  Check("transport_base_mismatch", Cardinality(c.bases) = 1),
  Check("transport_strategy_mismatch",
        Described(c, LAMBDA d : \A b \in c.bases : d.strategy \in Strategies(b)))>>

InspectionFailure(c) ==
  OrElse(FirstFailure(ObjectChecks(c)),
         IF providers[ProviderName(c)] = None THEN {} ELSE {"duplicate_provider_name"})

DeclarationFailure(c) == OrElse(FirstFailure(CommandChecks(c)), FirstFailure(SchemaChecks(c)))
AdmissionFailure(c) ==
  OrElse(DeclarationFailure(c),
  OrElse(FirstFailure(IF mode = "runtime" THEN RuntimeChecks(c) ELSE SourceChecks(c)),
         FirstFailure(DescriptorChecks(c) \o CapabilityChecks(c) \o TransportChecks(c))))

-------------------------------------------------------------------------------
\* The registry of a server in runtime mode, or of a source tree.  Catalog is what a
\* deployment packages: the server itself builds ProviderRegistry(), with an empty one,
\* which admits no provider until a catalog is given.
Init ==
  /\ mode \in {"runtime", "source"}
  /\ candidate \in {f \in [Sources -> UNION {Candidates[s] : s \in Sources}] :
                      \A s \in Sources : f[s] \in Candidates[s]}
  /\ file \in {None} \cup {[links |-> TRUE, digest |-> "d1"] : m \in {mode} \cap {"source"}}
  /\ providers = [n \in Names |-> None] /\ diagnostics = {} /\ discovered = {}
  /\ lock = None
  /\ pc = [t \in Threads |-> "idle"] /\ todo = [t \in Threads |-> <<>>]
  /\ at = [t \in Threads |-> None] /\ code = [t \in Threads |-> None]
  /\ admitted = [t \in Threads |-> {}]
  /\ server = "importing" /\ types = <<>>
  /\ table = [c \in Builtin |-> "adapter"]
  /\ mishaps = 0 /\ cleared = {}

Step(t, from, to) == pc[t] = from /\ pc' = [pc EXCEPT ![t] = to]
Candidate(t) == candidate[at[t]]

(* discover_providers *)

\* The package's modules in the order of their names.
Orders(S) == {s \in [1..Cardinality(S) -> S] :
                \A i, j \in 1..Cardinality(S) : i < j => s[i] < s[j]}

\* _resolve_module_names: the whole package, or an iterable of names.
Discover(t) ==
  /\ Step(t, "idle", "next")
  /\ \E S \in IF t = Main THEN {Modules} ELSE SUBSET Modules \ {{}} :
       \E s \in Orders(S) : todo' = [todo EXCEPT ![t] = s]
  /\ UNCHANGED <<registry, lock, at, code, admitted, service, env>>

Claim(t) ==
  /\ pc[t] = "next" /\ todo[t] # <<>> /\ lock = None
  /\ LET m == Head(todo[t])
     IN  IF m \in discovered
         THEN UNCHANGED <<discovered, pc, at>>
         ELSE /\ discovered' = discovered \cup {m}
              /\ at' = [at EXCEPT ![t] = m]
              /\ pc' = [pc EXCEPT ![t] = "import"]
  /\ todo' = [todo EXCEPT ![t] = Tail(@)]
  /\ UNCHANGED <<providers, diagnostics, lock, code, admitted, service, env>>

\* The except clauses of discover_providers.
Caught == [ImportError |-> "provider_import_error",
           ProviderUnavailableError |-> "provider_unavailable",
           ValueError |-> "provider_discovery_invalid"]

\* An exception of the class e: recorded, or, if no clause names it, it ends the call.
Raises(t, e) ==
  IF at[t] \in Modules /\ e \in DOMAIN Caught
  THEN /\ pc' = [pc EXCEPT ![t] = "record"]
       /\ code' = [code EXCEPT ![t] = Caught[e]]
  ELSE pc' = [pc EXCEPT ![t] = "raised"] /\ UNCHANGED code

\* The exception that the module's constant, its factory or what that makes leads to.
FactoryRaises(c) == IF c.constant = None THEN "ValueError" ELSE c.raises

Import(t) ==
  /\ pc[t] = "import"
  /\ LET e == FactoryRaises(Candidate(t))
     IN  IF e = None THEN pc' = [pc EXCEPT ![t] = "register"] /\ UNCHANGED code
         ELSE Raises(t, e)
  /\ UNCHANGED <<registry, lock, todo, at, admitted, service, env>>

\* import_module fails: a dependency is missing just now, or the module is broken.
ImportFails(t) ==
  /\ pc[t] = "import" /\ mishaps < MaxMishaps
  /\ mishaps' = mishaps + 1
  /\ \E e \in {"ImportError", "RuntimeError"} : Raises(t, e)
  /\ UNCHANGED <<registry, lock, todo, at, admitted, service, mode, candidate, file, cleared>>

\* Mutant: the diagnostic is made and forgotten.
RecordNothing(t) ==
  /\ Step(t, "record", "next") /\ lock = None
  /\ code' = [code EXCEPT ![t] = None]
  /\ UNCHANGED <<registry, lock, todo, at, admitted, service, env>>

RecordDiscoveryDiagnostic(t) ==
  /\ Step(t, "record", "next") /\ lock = None
  /\ diagnostics' = diagnostics \cup {<<code[t], at[t]>>}
  /\ code' = [code EXCEPT ![t] = None]
  /\ UNCHANGED <<providers, discovered, lock, todo, at, admitted, service, env>>

Return(t) ==
  /\ todo[t] = <<>> /\ Step(t, "next", "returned")
  /\ UNCHANGED <<registry, lock, todo, at, code, admitted, service, env>>

(* register *)

\* A caller registers a provider of its own.
RegisterObject(t) ==
  /\ t # Main /\ Step(t, "idle", "register")
  /\ \E o \in Objects : at' = [at EXCEPT ![t] = o]
  /\ UNCHANGED <<registry, lock, todo, code, admitted, service, env>>

\* _reject: the diagnostic is kept, and the error passes the lock; discovery goes on.
Reject(t, failure) ==
  /\ diagnostics' = diagnostics \cup (failure \X {at[t]})
  /\ pc' = [pc EXCEPT ![t] = IF at[t] \in Modules THEN "next" ELSE "raised"]
  /\ lock' = None

\* Mutant: the checks are made before the lock is taken.
InspectUnlocked(t) ==
  /\ pc[t] = "register"
  /\ LET failure == InspectionFailure(Candidate(t))
     IN  IF failure # {} THEN Reject(t, failure)
         ELSE /\ pc' = [pc EXCEPT ![t] = "admit"]
              /\ UNCHANGED <<lock, diagnostics>>
  /\ UNCHANGED <<providers, discovered, todo, at, code, admitted, service, env>>

\* The lock is taken; the provider object and its name are checked.
Inspect(t) ==
  /\ pc[t] = "register" /\ lock = None
  /\ LET failure == InspectionFailure(Candidate(t))
     IN  IF failure # {} THEN Reject(t, failure)
         ELSE /\ pc' = [pc EXCEPT ![t] = "admit"]
              /\ lock' = t
              /\ UNCHANGED diagnostics
  /\ UNCHANGED <<providers, discovered, todo, at, code, admitted, service, env>>

\* The answer of discover_providers names a provider as the provider names itself.
AsNamed(c) == c.name

\* commands() raises, or a module's decision is no ProviderDecisionMetadata.
DeclarationRaises(c) ==
  IF c.declares # None THEN c.declares
  ELSE IF c.malformed /\ DeclarationFailure(c) = {}
  THEN "ValueError" ELSE None

\* The rest of the checks, with the decision file as it is now, and the admission.
Admit(t) ==
  /\ pc[t] = "admit" /\ DeclarationRaises(Candidate(t)) = None
  /\ LET c == Candidate(t)
         failure == AdmissionFailure(c)
     IN  IF failure # {}
         THEN Reject(t, failure) /\ UNCHANGED <<providers, admitted>>
         ELSE /\ providers' = [providers EXCEPT ![ProviderName(c)] = at[t]]
              /\ admitted' = [admitted EXCEPT ![t] =
                                @ \cup {AsNamed(c) : m \in {at[t]} \cap Modules}]
              /\ pc' = [pc EXCEPT ![t] = IF at[t] \in Modules THEN "next" ELSE "returned"]
              /\ lock' = None
              /\ UNCHANGED diagnostics
  /\ UNCHANGED <<discovered, todo, at, code, service, env>>

AdmitRaises(t) ==
  /\ pc[t] = "admit"
  /\ LET e == DeclarationRaises(Candidate(t)) IN e # None /\ Raises(t, e)
  /\ lock' = None
  /\ UNCHANGED <<registry, todo, at, admitted, service, env>>

\* The decision file is gone when it is opened, or is no text.
DecisionUnreadable(t) ==
  /\ pc[t] = "admit" /\ mishaps < MaxMishaps
  /\ LET c == Candidate(t)
     IN  DeclarationRaises(c) = None /\ DeclarationFailure(c) = {} /\ OpensDecision(c)
  /\ mishaps' = mishaps + 1
  /\ \E e \in {"OSError", "ValueError"} : Raises(t, e)
  /\ lock' = None
  /\ UNCHANGED <<registry, todo, at, admitted, service, mode, candidate, file, cleared>>

ClearDiagnostics ==
  /\ lock = None /\ diagnostics # {} /\ mishaps < MaxMishaps
  /\ mishaps' = mishaps + 1
  /\ cleared' = cleared \cup diagnostics
  /\ diagnostics' = {}
  /\ UNCHANGED <<providers, discovered, lock, threads, service, mode, candidate, file>>

FileChanges ==
  /\ mode = "source" /\ mishaps < MaxMishaps
  /\ mishaps' = mishaps + 1
  /\ file' \in {None, [links |-> FALSE, digest |-> "d2"], [links |-> TRUE, digest |-> "d2"]}
  /\ UNCHANGED <<registry, lock, threads, service, mode, candidate, cleared>>

-------------------------------------------------------------------------------
(* The server's start: discovery, _build_provider_command_types, the hook *)

Admitted == {n \in Names : providers[n] # None}
CommandsOf(n) == CommandNames(candidate[providers[n]])

\* Mutant: only the server's own names are refused.
UnreservedNames == \A n \in Admitted : CommandsOf(n) \cap Reserved = {}

DistinctNames ==
  /\ \A n \in Admitted : CommandsOf(n) \cap Reserved = {}
  /\ \A n1, n2 \in Admitted : n1 # n2 => CommandsOf(n1) \cap CommandsOf(n2) = {}

\* A RuntimeError at import ends the process: no server starts.
Build ==
  /\ mode = "runtime" /\ server = "importing" /\ pc[Main] = "returned" /\ lock = None
  /\ IF DistinctNames
     THEN /\ server' = "built"
          /\ types' = [c \in UNION {CommandsOf(n) : n \in Admitted} |->
                         CHOOSE n \in Admitted : c \in CommandsOf(n)]
     ELSE server' = "failed" /\ UNCHANGED types
  /\ UNCHANGED <<registry, lock, threads, table, env>>

ImportAborts ==
  /\ mode = "runtime" /\ server = "importing" /\ pc[Main] = "raised"
  /\ server' = "failed"
  /\ UNCHANGED <<registry, lock, threads, types, table, env>>

\* _register_science_commands: a name the adapter already knows is left to it.
RegisterCommands ==
  /\ server = "built"
  /\ server' = "up"
  /\ table' = [c \in (Builtin \ Demo) \cup Reserved \cup DOMAIN types |->
                 IF c \in Builtin \ Demo THEN "adapter"
                 ELSE IF c \in Reserved THEN "server" ELSE types[c]]
  /\ UNCHANGED <<registry, lock, threads, types, env>>

Next ==
  \/ \E t \in Threads :
       \/ Discover(t) \/ Claim(t) \/ Import(t) \/ ImportFails(t)
       \/ RecordDiscoveryDiagnostic(t) \/ Return(t)
       \/ RegisterObject(t) \/ Inspect(t) \/ Admit(t) \/ AdmitRaises(t) \/ DecisionUnreadable(t)
  \/ ClearDiagnostics \/ FileChanges
  \/ Build \/ ImportAborts \/ RegisterCommands

Spec == Init /\ [][Next]_vars
-------------------------------------------------------------------------------
\* "provider ... is already registered": an admitted provider is never replaced by
\* another of its name, whichever threads discover and register at the same time.
KeepsProvider ==
  [][\A n \in Names : providers[n] # None => providers'[n] = providers[n]]_vars

\* A module is claimed once and never tried again, so none may get lost: each claimed
\* one is still being admitted, is a provider, has left a diagnostic, or its exception
\* ended the discovery that had claimed it.
ClaimsAccounted ==
  \A m \in discovered :
    \/ \E t \in Threads :
         at[t] = m /\ pc[t] \in {"import", "record", "register", "admit", "raised"}
    \/ \E n \in Names : providers[n] = m
    \/ \E d \in diagnostics \cup cleared : d[2] = m

\* get(provider_name)
Get(name) == IF name.padded THEN None ELSE providers[name.text]

\* "Names of providers newly admitted by this call" (line 991): in the runtime mode
\* the server uses, get answers for every name that discovery returned.
ReturnedIsServed ==
  mode = "runtime" => \A t \in Threads : \A name \in admitted[t] : Get(name) # None

\* A server that is up answers no command of a provider by another provider or by a
\* command of its own; a name of the adapter stays the adapter's.
ExposedByOwner ==
  server = "up" =>
    \A c \in DOMAIN types :
      /\ table[c] \in {types[c], "adapter"}
      /\ \A c2 \in DOMAIN types :
           c \in CommandsOf(types[c2]) => types[c] = types[c2]
===============================================================================
