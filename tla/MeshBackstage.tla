--------------------------- MODULE MeshBackstage ---------------------------
(***************************************************************************)
(* The demo backend (packages/backend) around the event mesh plugin, from  *)
(* its start to its end, and the app's view of it.  main() creates its     *)
(* plugins one after the other and listens only then; what the catalog and *)
(* the search plugin have started runs from their creation on.  Both ask   *)
(* the catalog over the backend's own HTTP port: before it listens their   *)
(* requests are refused.  The database is in memory, and a process that    *)
(* ends takes catalog and search index with it.                            *)
(*                                                                         *)
(* The provider appears as MeshMirror has it, which MeshProvider is shown  *)
(* to implement, configured so that fromConfig accepts it; the processor's *)
(* pages are in MeshProcessor, here it processes an entity in one step.    *)
(***************************************************************************)
EXTENDS MeshApp, FiniteSets, Naturals, Sequences

CONSTANTS
  Environment,  \* the id under catalog.providers.knativeEventMesh
  Items,        \* whatever the event mesh backend of the environment may ever list
  Locations,    \* the entities that the catalog reads from its locations
  Limits        \* bounds: the changes, errors and failures of one behaviour

Mishaps == {"change", "error", "failure"}

\* One entity per reference; what a component provides are APIs.
ASSUME LocationsAssumption ==
  /\ \A d, e \in Locations : Ref(d) = Ref(e) => d = e
  /\ \A e \in Locations : e.kind = "component" => \A api \in e.providesApis : api[1] = "api"
ASSUME LimitsAssumption == Limits \in [Mishaps -> Nat]

VARIABLES
  listed, windows, catalog,  \* as in MeshMirror; the catalog has the entities of Locations, too
  main,       \* main() is "creating" plugins, "starting", "listening" or has "exited"
  created,    \* how many plugins are created
  running,    \* what created plugins have started: "processingEngine", "indexScheduler"
  relations,  \* relations[ref]: what the last processing of the entity ref emitted
  gathered,   \* the documents of the collation under way, {} for none
  index,      \* the documents of the search engine
  spent       \* how much of the Limits is used up

mirrorVars == <<listed, windows, catalog>>
mainVars == <<main, created, running>>
searchVars == <<gathered, index>>
vars == <<mirrorVars, mainVars, relations, searchVars, spent>>

Mirror == INSTANCE MeshMirror WITH Ids <- {Environment}, Items <- [p \in {Environment} |-> Items]

Spend(what) == spent[what] < Limits[what] /\ spent' = [spent EXCEPT ![what] = @ + 1]

Entities == {x[2] : x \in catalog}
Emitted == UNION {relations[ref] : ref \in DOMAIN relations}

----------------------------------------------------------------------------
(* Start and end. *)

plugins == <<"catalog", "scaffolder", "auth", "techdocs", "proxy", "search", "app">>

\* The handlers of /api, in the order they are asked.
apiRouter == <<"catalog", "scaffolder", "auth", "techdocs", "proxy", "search", "notFoundHandler">>

\* The plugin's API answers over HTTP: the backend listens, and the first handler that takes
\* the plugin's path is the plugin's.
Reachable(plugin) ==
  /\ main = "listening"
  /\ LET takers == {k \in DOMAIN apiRouter : apiRouter[k] \in {plugin, "notFoundHandler"}}
     IN \E k \in takers : apiRouter[k] = plugin /\ \A j \in takers : k <= j

\* What makeCreateEnv gives to the plugins of a new process: a database and schedulers
\* without content.
Fresh(windowsNow, catalogNow, relationsNow, gatheredNow, indexNow) ==
  /\ windowsNow = [p \in {Environment} |-> {}]
  /\ catalogNow = {} /\ relationsNow = <<>> /\ gatheredNow = {} /\ indexNow = {}

\* Mutant of Boot: the search engine keeps its documents.
BootWithIndex ==
  /\ main = "exited"
  /\ main' = "creating" /\ created' = 0 /\ running' = {}
  /\ Fresh(windows', catalog', relations', gathered', {})
  /\ UNCHANGED <<listed, index, spent>>

\* The process is started again.
Boot ==
  /\ main = "exited"
  /\ main' = "creating" /\ created' = 0 /\ running' = {}
  /\ Fresh(windows', catalog', relations', gathered', index')
  /\ UNCHANGED <<listed, spent>>

\* The creation of a plugin, the next one, has been awaited.
Creates(plugin) ==
  /\ main = "creating" /\ plugins[created + 1] = plugin
  /\ created' = created + 1
  /\ main' = IF created' = Len(plugins) THEN "starting" ELSE main
  /\ UNCHANGED <<mirrorVars, relations, searchVars, spent>>

\* The provider is connected, the processor added, the engine started.
CreateCatalog == Creates("catalog") /\ running' = running \cup {"processingEngine"}

\* The collator is scheduled and the scheduler started.
CreateSearch == Creates("search") /\ running' = running \cup {"indexScheduler"}

CreatePlugin ==
  /\ \E k \in DOMAIN plugins : plugins[k] \notin {"catalog", "search"} /\ Creates(plugins[k])
  /\ running' = running

\* service.start() listens.
Start ==
  /\ main = "starting" /\ main' = "listening"
  /\ UNCHANGED <<mirrorVars, created, running, relations, searchVars, spent>>

\* The configuration, a plugin or service.start() fails, and process.exit(1); or the
\* process is killed.
Exit ==
  /\ main # "exited" /\ Spend("failure")
  /\ main' = "exited" /\ running' = {}
  /\ UNCHANGED <<mirrorVars, created, relations, searchVars>>

----------------------------------------------------------------------------
(* The catalog. *)

\* The relations of entities that are gone go with them.
Prune(entities) == relations' = [ref \in DOMAIN relations \cap Refs(entities) |-> relations[ref]]

\* There is one run at a time: it has seen what happens or has not.
SameFetches == Cardinality(windows'[Environment]) = Cardinality(windows[Environment])

Change ==
  /\ Spend("change")
  /\ \E S \in SUBSET Items : Mirror!Change(Environment, S)
  /\ SameFetches
  /\ UNCHANGED <<mainVars, relations, searchVars>>

\* The provider's runs.
Fetch ==
  /\ "processingEngine" \in running /\ windows[Environment] = {}
  /\ Mirror!Fetch(Environment)
  /\ UNCHANGED <<mainVars, relations, searchVars, spent>>

Show ==
  /\ "processingEngine" \in running
  /\ Mirror!Show(Environment) /\ windows'[Environment] = {}
  /\ Prune({x[2] : x \in catalog'})
  /\ UNCHANGED <<mainVars, searchVars, spent>>

RunFails ==
  /\ "processingEngine" \in running /\ windows[Environment] # {} /\ Spend("error")
  /\ Mirror!Forget /\ windows'[Environment] = {}
  /\ UNCHANGED <<mainVars, relations, searchVars>>

\* The event mesh backend answers without an object that it cannot read.
Miss ==
  /\ Spend("error") /\ windows[Environment] # {}
  /\ Mirror!Miss(Environment) /\ SameFetches
  /\ UNCHANGED <<mainVars, relations, searchVars>>

\* The catalog reads an entity from its location.
Ingest ==
  /\ "processingEngine" \in running
  /\ \E e \in Locations :
       /\ Ref(e) \notin Refs(Entities)
       /\ catalog' = catalog \cup {<<"locations", e>>}
  /\ UNCHANGED <<listed, windows, mainVars, relations, searchVars, spent>>

Relation(type, source, target) == [type |-> type, source |-> source, target |-> target]

\* The processor's relations of an event type, from the answers to its queries for ids.
ConsumerRelations(e, ids) ==
  UNION {{Relation("apiConsumedBy", Ref(e), Ref(c)), Relation("consumesApi", Ref(c), Ref(e))} :
           c \in {d \in Entities : d.kind = "component" /\ "id" \in DOMAIN d /\ d.ns = e.ns /\ d.id \in ids}}

\* The catalog's own processor turns providesApis into relations.
ProviderRelations(e) ==
  UNION {{Relation("providesApi", Ref(e), api), Relation("apiProvidedBy", api, Ref(e))} : api \in e.providesApis}

\* The relations an entity's processing may emit, by the ids whose query was answered.
Relations(e, ids) ==
  IF e.kind = "api" THEN ConsumerRelations(e, ids)
  ELSE IF e.kind = "component" THEN ProviderRelations(e)
  ELSE {}

Queried(e) == IF e.kind = "api" THEN e.consumedBy ELSE {}

Emit(e, emitted) ==
  relations' = [ref \in DOMAIN relations \cup {Ref(e)} |-> IF ref = Ref(e) THEN emitted ELSE relations[ref]]

\* Mutant of Process: the first processing is the last.
ProcessOnce(ref) ==
  /\ "processingEngine" \in running /\ ref \notin DOMAIN relations
  /\ \E e \in Entities :
       /\ Ref(e) = ref
       /\ Emit(e, Relations(e, IF Reachable("catalog") THEN Queried(e) ELSE {}))
  /\ UNCHANGED <<mirrorVars, mainVars, searchVars, spent>>

\* The catalog processes an entity.  Before the backend listens, queries are refused.
Process(ref) ==
  /\ "processingEngine" \in running
  /\ \E e \in Entities :
       /\ Ref(e) = ref
       /\ Emit(e, Relations(e, IF Reachable("catalog") THEN Queried(e) ELSE {}))
  /\ UNCHANGED <<mirrorVars, mainVars, searchVars, spent>>

\* A query of an event type's processing fails for another reason.
QueryFails ==
  /\ "processingEngine" \in running /\ Reachable("catalog") /\ Spend("error")
  /\ \E e \in Entities : \E id \in Queried(e) : Emit(e, Relations(e, Queried(e) \ {id}))
  /\ UNCHANGED <<mirrorVars, mainVars, searchVars>>

----------------------------------------------------------------------------
(* Search. *)

Document(e) == [kind |-> e.kind, ns |-> e.ns, name |-> e.name, lifecycle |-> e.lifecycle]

\* Mutant of Gather: the collator runs once.
GatherOnce ==
  /\ "indexScheduler" \in running /\ Reachable("catalog") /\ gathered = {} /\ index = {}
  /\ gathered' = {Document(e) : e \in Entities}
  /\ UNCHANGED <<mirrorVars, mainVars, relations, index, spent>>

\* The collator gathers the catalog's entities, over HTTP: a collation that comes before
\* the backend listens, in spite of its initial delay, gathers nothing.
Gather ==
  /\ "indexScheduler" \in running /\ Reachable("catalog") /\ gathered = {}
  /\ gathered' = {Document(e) : e \in Entities}
  /\ UNCHANGED <<mirrorVars, mainVars, relations, index, spent>>

CollationFails ==
  /\ "indexScheduler" \in running /\ gathered # {} /\ Spend("error")
  /\ gathered' = {}
  /\ UNCHANGED <<mirrorVars, mainVars, relations, index>>

\* The documents replace the index, all at once.
Index ==
  /\ "indexScheduler" \in running /\ gathered # {}
  /\ index' = gathered /\ gathered' = {}
  /\ UNCHANGED <<mirrorVars, mainVars, relations, spent>>
----------------------------------------------------------------------------

Init ==
  /\ listed \in [{Environment} -> {S \in SUBSET Items : UniqueKeys(S)}]
  /\ main = "creating" /\ created = 0 /\ running = {}
  /\ Fresh(windows, catalog, relations, gathered, index)
  /\ spent = [what \in Mishaps |-> 0]

\* The references of everything that may ever be in the catalog.
AllRefs == Refs(Locations) \cup Refs(BuildEntities(Environment, Items))

Next ==
  \/ Boot \/ CreateCatalog \/ CreateSearch \/ CreatePlugin \/ Start \/ Exit
  \/ Change \/ Fetch \/ Miss \/ Show \/ RunFails \/ Ingest
  \/ (\E ref \in AllRefs : Process(ref)) \/ QueryFails
  \/ Gather \/ CollationFails \/ Index

Spec == Init /\ [][Next]_vars

\* The process is restarted when it ends; awaited calls settle; the scheduler runs its
\* tasks and the catalog processes its entities again and again.
Fairness ==
  /\ WF_vars(Boot) /\ WF_vars(CreateCatalog \/ CreateSearch \/ CreatePlugin) /\ WF_vars(Start)
  /\ WF_vars(Fetch) /\ WF_vars(Show) /\ WF_vars(Ingest)
  /\ \A ref \in AllRefs : WF_vars(Process(ref))
  /\ WF_vars(Gather) /\ WF_vars(Index)

FairSpec == Spec /\ Fairness
----------------------------------------------------------------------------
(* Properties. *)

MainOK ==
  /\ main \in {"creating", "starting", "listening", "exited"} /\ created \in 0 .. Len(plugins)
  /\ main \in {"starting", "listening"} => created = Len(plugins)
  /\ main = "creating" => created < Len(plugins)
  /\ running = IF main = "exited" THEN {} ELSE {x \in {"processingEngine", "indexScheduler"} :
       created >= IF x = "processingEngine" THEN 1 ELSE 6}

\* One entity per reference, and relations of entities that are there.
CatalogOK ==
  /\ DOMAIN relations \subseteq Refs(Entities)
  /\ \A d, e \in Entities : Ref(d) = Ref(e) => d = e
  /\ catalog # {} => created > 0

SearchOK == gathered # {} \/ index # {} => created = Len(plugins)

TypeOK == MainOK /\ CatalogOK /\ SearchOK

\* No relation is hidden: where one leads is listed on its entity's page when it exists,
\* and else the page warns; through restarts, stale relations and every type of page.
RelationsVisible ==
  \A e \in Entities : \A r \in Emitted :
    r.source = Ref(e) =>
      IF r.target \in Refs(Entities) THEN r.target \in Related(e, Emitted, Entities)
                                     ELSE RelationWarning(e, Emitted, Entities)

\* End to end: once the cluster rests and the backend stays up, an event type's page
\* lists the components with its consumers' ids, and their pages list it; also after
\* processings whose queries came before the backend listened, and after restarts.
ConsumersShown ==
  <>[](\A i \in EventTypes(listed[Environment]) : \A c \in {e \in Locations : "id" \in DOMAIN e} :
         LET api == ApiRef(<<i.ns, i.name>>)
         IN (c.ns = i.ns /\ c.id \in i.consumedBy) <=>
              \E e \in Entities :
                Ref(e) = api /\ Ref(c) \in Related(e, Emitted, Entities)
                  /\ api \in Related(c, Emitted, Entities))

\* Once all rests, the search is answered, without filters with the entities of the catalog
\* and no others, those of the cluster among them, and each filter the page offers finds
\* what it names.
SearchFindsAll ==
  <>[](LET Documents(E) == {Document(e) : e \in E}
       IN /\ Reachable("search")
          /\ SearchResults(index, {}, {}) = Documents(Entities)
          /\ Refs(BuildEntities(Environment, listed[Environment])) \subseteq Refs(index)
          /\ \A k \in KindFilter : SearchResults(index, {k}, {}) = Documents({e \in Entities : e.kind = k})
          /\ \A l \in LifecycleFilter :
               SearchResults(index, {}, {l}) = Documents({e \in Entities : e.lifecycle = l}))
=============================================================================
