------------------------ MODULE MeshBackstageProofs ------------------------
(***************************************************************************)
(* Theorems about MeshBackstage, for any mesh, locations and bounds: its   *)
(* types, and that the app's pages hide no relation.                       *)
(***************************************************************************)
EXTENDS MeshBackstage, TLAPS

----------------------------------------------------------------------------
(* Pages. *)

\* The page of a component or an API has a tab that lists where any relation leads, and
\* that warns when one leads nowhere.
LEMMA PageHasGraph ==
  ASSUME NEW e, e.kind \in {"component", "api"}
  PROVE  \E tab \in Tabs(e) : tab.warnings /\ EntityCatalogGraphCard \in tab.cards
  <1> SUFFICES \E x \in entityPage(e) : x[2].warnings /\ EntityCatalogGraphCard \in x[2].cards
    BY DEF Tabs
  <1>1. CASE e.kind = "component"
    <2>1. entityPage(e) = componentPage(e.type)
      BY <1>1 DEF entityPage
    <2>2. <<"/", overviewContent>> \in entityPage(e)
      BY <2>1 DEF componentPage, serviceEntityPage, websiteEntityPage, defaultEntityPage
    <2>3. overviewContent.warnings /\ EntityCatalogGraphCard \in overviewContent.cards
      BY DEF overviewContent, WithWarnings, Tab
    <2> QED BY <2>2, <2>3
  <1>2. CASE e.kind = "api"
    <2> DEFINE cards == {EntityAboutCard, EntityCatalogGraphCard,
                         Card({"apiProvidedBy"}, {"component"}), Card({"apiConsumedBy"}, {"component"})}
    <2>1. <<"/", WithWarnings(Tab(cards))>> \in entityPage(e)
      BY <1>2 DEF entityPage, apiPage
    <2>2. WithWarnings(Tab(cards)).warnings /\ EntityCatalogGraphCard \in WithWarnings(Tab(cards)).cards
      BY DEF WithWarnings, Tab
    <2> QED BY <2>1, <2>2
  <1> QED BY <1>1, <1>2

\* Relations of the mesh's types, between components and APIs.
RelationOK(r) ==
  r.type \in RelationTypes /\ r.source[1] \in {"component", "api"} /\ r.target[1] \in {"component", "api"}

LEMMA RelationSeen ==
  ASSUME NEW all, NEW entities, NEW e, NEW r \in all, RelationOK(r), r.source = Ref(e)
  PROVE  IF r.target \in Refs(entities) THEN r.target \in Related(e, all, entities)
                                        ELSE RelationWarning(e, all, entities)
  <1>1. e.kind \in {"component", "api"}
    BY DEF RelationOK, Ref
  <1>2. PICK tab \in Tabs(e) : tab.warnings /\ EntityCatalogGraphCard \in tab.cards
    BY <1>1, PageHasGraph
  <1>3. CASE r.target \in Refs(entities)
    <2>1. r.type \in EntityCatalogGraphCard.relations /\ r.target[1] \in EntityCatalogGraphCard.kinds
      BY DEF RelationOK, EntityCatalogGraphCard, Card, Kinds
    <2> QED BY <1>2, <1>3, <2>1 DEF Related
  <1>4. CASE r.target \notin Refs(entities)
    BY <1>2, <1>4 DEF RelationWarning
  <1> QED BY <1>3, <1>4

----------------------------------------------------------------------------
(* Types. *)

LEMMA Plugins ==
  /\ Len(plugins) = 7
  /\ \A k \in 1 .. 7 : (plugins[k] = "catalog" <=> k = 1) /\ (plugins[k] = "search" <=> k = 6)
  BY DEF plugins

\* What the creation of a plugin does to main.
LEMMA MainCreates ==
  ASSUME MainOK, NEW plugin, Creates(plugin),
         running' = running \cup (IF plugin = "catalog" THEN {"processingEngine"}
                                  ELSE IF plugin = "search" THEN {"indexScheduler"} ELSE {})
  PROVE  MainOK' /\ created' > 0 /\ created # Len(plugins)
  <1>1. /\ main = "creating" /\ created \in 0 .. 6 /\ plugins[created + 1] = plugin
        /\ created' = created + 1 /\ main' = IF created' = 7 THEN "starting" ELSE "creating"
        /\ running = {x \in {"processingEngine", "indexScheduler"} :
                        created >= IF x = "processingEngine" THEN 1 ELSE 6}
    BY Plugins DEF MainOK, Creates
  <1>2. (plugin = "catalog" <=> created = 0) /\ (plugin = "search" <=> created = 5)
    BY <1>1, Plugins
  <1>3. running' = {x \in {"processingEngine", "indexScheduler"} :
                      created' >= IF x = "processingEngine" THEN 1 ELSE 6}
    <2>1. CASE created = 0
      BY <1>1, <1>2, <2>1
    <2>2. CASE created = 5
      BY <1>1, <1>2, <2>2
    <2>3. CASE created \notin {0, 5}
      <3>1. running' = running
        BY <1>2, <2>3
      <3>2. \A k \in {1, 6} : created >= k <=> created' >= k
        BY <1>1, <2>3
      <3> QED BY <1>1, <3>1, <3>2
    <2> QED BY <2>1, <2>2, <2>3
  <1> QED BY <1>1, <1>3, Plugins DEF MainOK

LEMMA MainSteps ==
  /\ MainOK /\ Start => MainOK' /\ created' = created
  /\ MainOK /\ Exit => MainOK' /\ created' = created
  /\ Boot => MainOK'
  /\ Init => MainOK
  <1>1. MainOK /\ Start => MainOK' /\ created' = created
    BY Plugins DEF MainOK, Start
  <1>2. MainOK /\ Exit => MainOK' /\ created' = created
    BY Plugins DEF MainOK, Exit
  <1>3. Boot => MainOK'
    BY Plugins DEF MainOK, Boot
  <1>4. Init => MainOK
    BY Plugins DEF MainOK, Init
  <1> QED BY <1>1, <1>2, <1>3, <1>4

\* The components of the catalog provide APIs; relations are what RelationOK says.
Shaped ==
  /\ \A e \in Entities : e.kind = "component" => \A api \in e.providesApis : api[1] = "api"
  /\ \A ref \in DOMAIN relations : \A r \in relations[ref] : RelationOK(r)

BInv == TypeOK /\ Shaped

\* A step that leaves catalog, relations and search alone.
LEMMA KeptByMain ==
  ASSUME BInv, MainOK', UNCHANGED <<catalog, relations, gathered, index>>,
         created' = created \/ (created # Len(plugins) /\ created' > 0)
  PROVE  BInv'
  <1>1. CatalogOK' /\ Shaped'
    BY DEF BInv, TypeOK, CatalogOK, Shaped, Entities
  <1>2. SearchOK'
    BY DEF BInv, TypeOK, SearchOK
  <1> QED BY <1>1, <1>2 DEF BInv, TypeOK

\* A step of the catalog.
LEMMA KeptByCatalog ==
  ASSUME BInv, UNCHANGED mainVars, UNCHANGED searchVars, CatalogOK', Shaped'
  PROVE  BInv'
  <1>1. MainOK' /\ SearchOK'
    BY DEF BInv, TypeOK, MainOK, SearchOK, mainVars, searchVars
  <1> QED BY <1>1 DEF BInv, TypeOK

LEMMA Beginning ==
  /\ Init => BInv
  /\ Boot => BInv'
  <1>1. ASSUME Init PROVE BInv
    <2>1. catalog = {} /\ relations = <<>> /\ gathered = {} /\ index = {}
      BY <1>1 DEF Init, Fresh
    <2>2. CatalogOK /\ SearchOK /\ Shaped
      BY <2>1 DEF CatalogOK, SearchOK, Shaped, Entities, Refs
    <2> QED BY <1>1, <2>2, MainSteps DEF BInv, TypeOK
  <1>2. ASSUME Boot PROVE BInv'
    <2>1. catalog' = {} /\ relations' = <<>> /\ gathered' = {} /\ index' = {}
      BY <1>2 DEF Boot, Fresh
    <2>2. CatalogOK' /\ SearchOK' /\ Shaped'
      BY <2>1 DEF CatalogOK, SearchOK, Shaped, Entities, Refs
    <2> QED BY <1>2, <2>2, MainSteps DEF BInv, TypeOK
  <1> QED BY <1>1, <1>2

\* Steps of main().
LEMMA MainKeeps ==
  ASSUME BInv, CreateCatalog \/ CreateSearch \/ CreatePlugin \/ Start \/ Exit
  PROVE  BInv'
  <1> USE DEF mirrorVars, searchVars
  <1>1. MainOK
    BY DEF BInv, TypeOK
  <1>2. CASE CreateCatalog
    <2>1. UNCHANGED <<catalog, relations, gathered, index>>
      BY <1>2 DEF CreateCatalog, Creates
    <2>2. MainOK' /\ created' > 0 /\ created # Len(plugins)
      <3>1. Creates("catalog") /\ running' = running \cup {"processingEngine"}
        BY <1>2 DEF CreateCatalog
      <3> QED BY <1>1, <3>1, MainCreates
    <2> QED BY <2>1, <2>2, KeptByMain
  <1>3. CASE CreateSearch
    <2>1. UNCHANGED <<catalog, relations, gathered, index>>
      BY <1>3 DEF CreateSearch, Creates
    <2>2. MainOK' /\ created' > 0 /\ created # Len(plugins)
      <3>1. Creates("search") /\ running' = running \cup {"indexScheduler"}
        BY <1>3 DEF CreateSearch
      <3> QED BY <1>1, <3>1, MainCreates
    <2> QED BY <2>1, <2>2, KeptByMain
  <1>4. CASE CreatePlugin
    <2>1. UNCHANGED <<catalog, relations, gathered, index>>
      BY <1>4 DEF CreatePlugin, Creates
    <2>2. MainOK' /\ created' > 0 /\ created # Len(plugins)
      <3>1. PICK k \in DOMAIN plugins : plugins[k] \notin {"catalog", "search"} /\ Creates(plugins[k])
        BY <1>4 DEF CreatePlugin
      <3>2. running' = running \cup {}
        BY <1>4 DEF CreatePlugin
      <3> QED BY <1>1, <3>1, <3>2, MainCreates
    <2> QED BY <2>1, <2>2, KeptByMain
  <1>5. CASE Start
    <2>1. UNCHANGED <<catalog, relations, gathered, index>>
      BY <1>5 DEF Start
    <2> QED BY <1>1, <1>5, <2>1, MainSteps, KeptByMain
  <1>6. CASE Exit
    <2>1. UNCHANGED <<catalog, relations, gathered, index>>
      BY <1>6 DEF Exit
    <2> QED BY <1>1, <1>6, <2>1, MainSteps, KeptByMain
  <1> QED BY <1>2, <1>3, <1>4, <1>5, <1>6

----------------------------------------------------------------------------
(* Steps of the catalog. *)

\* Steps that only move the provider's fetches along.
LEMMA FetchesKeep ==
  ASSUME BInv, Change \/ Fetch \/ Miss \/ RunFails
  PROVE  BInv'
  <1>1. UNCHANGED mainVars /\ UNCHANGED searchVars /\ UNCHANGED relations
    BY DEF Change, Fetch, Miss, RunFails
  <1>2. catalog' = catalog
    BY DEF Change, Fetch, Miss, RunFails, Mirror!Change, Mirror!Fetch, Mirror!Miss, Mirror!Forget
  <1>3. CatalogOK' /\ Shaped'
    BY <1>1, <1>2 DEF BInv, TypeOK, CatalogOK, Shaped, Entities, mainVars
  <1> QED BY <1>1, <1>3, KeptByCatalog

\* The mesh's components provide APIs.
LEMMA BuiltShape ==
  ASSUME NEW p, NEW mesh, NEW e \in BuildEntities(p, mesh), e.kind = "component"
  PROVE  \A api \in e.providesApis : api[1] = "api"
  <1>1. PICK i \in mesh : e = BuildComponentEntity(p, i)
    <2>1. \A i \in mesh : BuildEventTypeEntity(p, i).kind # "component"
      BY DEF BuildEventTypeEntity
    <2> QED BY <2>1 DEF BuildEntities, EventTypes
  <1>2. e.providesApis = {ApiRef(n) : n \in i.provides}
    BY <1>1 DEF BuildComponentEntity
  <1> QED BY <1>2 DEF ApiRef

\* A full mutation leaves the others' entities, takes some of the owner's, and one per
\* reference.
LEMMA MutationShape ==
  ASSUME NEW before, NEW owner, NEW built, NEW after \in Mutations(before, owner, built),
         \A x, y \in before : Ref(x[2]) = Ref(y[2]) => x[2] = y[2]
  PROVE  /\ \A x \in after : x \in before \/ x[2] \in built
         /\ \A x, y \in after : Ref(x[2]) = Ref(y[2]) => x[2] = y[2]
  <1> DEFINE others == {x \in before : x[1] # owner}
             free == {e \in built : Ref(e) \notin {Ref(x[2]) : x \in others}}
  <1>1. PICK K \in SUBSET free :
          /\ after = others \cup {owner} \X K
          /\ \A d, e \in K : Ref(d) = Ref(e) => d = e
    BY DEF Mutations
  <1>2. \A x \in {owner} \X K : x[2] \in K
    OBVIOUS
  <1>3. \A x \in after : x \in others \/ x[2] \in K
    BY <1>1, <1>2
  <1>4. ASSUME NEW x \in after, NEW y \in after, Ref(x[2]) = Ref(y[2])
        PROVE  x[2] = y[2]
    BY <1>1, <1>3, <1>4
  <1> QED BY <1>3, <1>4

LEMMA ShowKeeps ==
  ASSUME BInv, Show
  PROVE  BInv'
  <1>1. UNCHANGED mainVars /\ UNCHANGED searchVars /\ "processingEngine" \in running
    BY DEF Show
  <1>2. PICK mesh : catalog' \in Mutations(catalog, Environment, BuildEntities(Environment, mesh))
    <2>1. PICK mesh : catalog' \in Mirror!Mutations(catalog, Environment, Mirror!BuildEntities(Environment, mesh))
      BY DEF Show, Mirror!Show
    <2>2. Mirror!BuildEntities(Environment, mesh) = BuildEntities(Environment, mesh)
      BY DEF Mirror!BuildEntities, BuildEntities, Mirror!EventTypes, EventTypes, Mirror!ApiRef, ApiRef,
             Mirror!BuildEventTypeEntity, BuildEventTypeEntity,
             Mirror!BuildComponentEntity, BuildComponentEntity
    <2>3. \A built : Mirror!Mutations(catalog, Environment, built) = Mutations(catalog, Environment, built)
      BY DEF Mirror!Mutations, Mutations, Mirror!Refs, Refs, Mirror!Ref, Ref
    <2> QED BY <2>1, <2>2, <2>3
  <1> DEFINE built == BuildEntities(Environment, mesh)
  <1>3. \A x, y \in catalog : Ref(x[2]) = Ref(y[2]) => x[2] = y[2]
    BY DEF BInv, TypeOK, CatalogOK, Entities
  <1>4. /\ \A x \in catalog' : x \in catalog \/ x[2] \in built
        /\ \A x, y \in catalog' : Ref(x[2]) = Ref(y[2]) => x[2] = y[2]
    <2> HIDE DEF built
    <2>1. catalog' \in Mutations(catalog, Environment, built)
      BY <1>2 DEF built
    <2> QED BY <1>3, <2>1, MutationShape
  <1>5. relations' = [ref \in DOMAIN relations \cap Refs(Entities') |-> relations[ref]]
    BY DEF Show, Prune, Entities
  <1>6. CatalogOK'
    <2>1. created' > 0
      BY <1>1, Plugins DEF BInv, TypeOK, MainOK, mainVars
    <2>2. (\A d, e \in Entities : Ref(d) = Ref(e) => d = e)'
      BY <1>4 DEF Entities
    <2>3. (DOMAIN relations \subseteq Refs(Entities))'
      BY <1>5
    <2> QED BY <2>1, <2>2, <2>3 DEF CatalogOK
  <1>7. Shaped'
    <2>1. ASSUME NEW e \in Entities', e.kind = "component"
          PROVE  \A api \in e.providesApis : api[1] = "api"
      <3>1. e \in Entities \/ e \in built
        BY <1>4 DEF Entities
      <3>2. CASE e \in Entities
        BY <2>1, <3>2 DEF BInv, Shaped
      <3>3. CASE e \in built
        BY <2>1, <3>3, BuiltShape
      <3> QED BY <3>1, <3>2, <3>3
    <2>2. \A ref \in DOMAIN relations' : ref \in DOMAIN relations /\ relations'[ref] = relations[ref]
      BY <1>5
    <2> QED BY <2>1, <2>2 DEF BInv, Shaped
  <1> QED BY <1>1, <1>6, <1>7, KeptByCatalog

LEMMA IngestKeeps ==
  ASSUME BInv, Ingest
  PROVE  BInv'
  <1>1. UNCHANGED mainVars /\ UNCHANGED searchVars /\ relations' = relations /\ "processingEngine" \in running
    BY DEF Ingest
  <1>2. PICK e \in Locations : Ref(e) \notin Refs(Entities) /\ catalog' = catalog \cup {<<"locations", e>>}
    BY DEF Ingest
  <1>3. Entities' = Entities \cup {e}
    <2> DEFINE new == <<"locations", e>>
    <2>1. new[2] = e /\ catalog' = catalog \cup {new}
      BY <1>2
    <2> HIDE DEF new
    <2>2. {x[2] : x \in catalog \cup {new}} = {x[2] : x \in catalog} \cup {new[2]}
      OBVIOUS
    <2> QED BY <2>1, <2>2 DEF Entities
  <1>4. CatalogOK'
    <2>1. created' > 0
      BY <1>1, Plugins DEF BInv, TypeOK, MainOK, mainVars
    <2> QED BY <1>1, <1>2, <1>3, <2>1 DEF BInv, TypeOK, CatalogOK, Refs
  <1>5. Shaped'
    BY <1>1, <1>3, LocationsAssumption DEF BInv, Shaped
  <1> QED BY <1>1, <1>4, <1>5, KeptByCatalog

\* What the processing of an entity emits.
LEMMA RelationsShape ==
  ASSUME Shaped, NEW e \in Entities, NEW ids
  PROVE  \A r \in Relations(e, ids) : RelationOK(r)
  <1>1. CASE e.kind = "api"
    <2>1. ASSUME NEW c \in Entities, c.kind = "component"
          PROVE  /\ RelationOK(Relation("apiConsumedBy", Ref(e), Ref(c)))
                 /\ RelationOK(Relation("consumesApi", Ref(c), Ref(e)))
      BY <1>1, <2>1 DEF RelationOK, Relation, Ref, RelationTypes
    <2>2. \A r \in ConsumerRelations(e, ids) : RelationOK(r)
      BY <2>1 DEF ConsumerRelations
    <2> QED BY <1>1, <2>2 DEF Relations
  <1>2. CASE e.kind = "component"
    <2>1. ASSUME NEW api \in e.providesApis
          PROVE  /\ RelationOK(Relation("providesApi", Ref(e), api))
                 /\ RelationOK(Relation("apiProvidedBy", api, Ref(e)))
      <3>1. api[1] = "api"
        BY <1>2 DEF Shaped
      <3> QED BY <1>2, <3>1 DEF RelationOK, Relation, Ref, RelationTypes
    <2>2. \A r \in ProviderRelations(e) : RelationOK(r)
      BY <2>1 DEF ProviderRelations
    <2> QED BY <1>2, <2>2 DEF Relations
  <1>3. CASE e.kind \notin {"api", "component"}
    BY <1>3 DEF Relations
  <1> QED BY <1>1, <1>2, <1>3

LEMMA ProcessKeeps ==
  ASSUME BInv, QueryFails \/ \E ref \in AllRefs : Process(ref)
  PROVE  BInv'
  <1>1. UNCHANGED mainVars /\ UNCHANGED searchVars /\ catalog' = catalog
    BY DEF Process, QueryFails, mirrorVars
  <1>2. PICK e \in Entities : \E ids : Emit(e, Relations(e, ids))
    BY DEF Process, QueryFails
  <1>3. PICK ids : Emit(e, Relations(e, ids))
    BY <1>2
  <1>4. /\ DOMAIN relations' = DOMAIN relations \cup {Ref(e)}
        /\ \A ref \in DOMAIN relations' :
             relations'[ref] = Relations(e, ids) \/ (ref \in DOMAIN relations /\ relations'[ref] = relations[ref])
    BY <1>3 DEF Emit
  <1>5. Entities' = Entities
    BY <1>1 DEF Entities
  <1>6. CatalogOK'
    BY <1>1, <1>4, <1>5 DEF BInv, TypeOK, CatalogOK, Refs, mainVars
  <1>7. Shaped'
    <2>1. \A r \in Relations(e, ids) : RelationOK(r)
      BY RelationsShape DEF BInv
    <2>2. \A ref \in DOMAIN relations' : \A r \in relations'[ref] : RelationOK(r)
      BY <1>4, <2>1 DEF BInv, Shaped
    <2> QED BY <1>5, <2>2 DEF BInv, Shaped
  <1> QED BY <1>1, <1>6, <1>7, KeptByCatalog

----------------------------------------------------------------------------
(* Steps of the search plugin. *)

LEMMA SearchKeeps ==
  ASSUME BInv, Gather \/ CollationFails \/ Index
  PROVE  BInv'
  <1>1. UNCHANGED mainVars /\ UNCHANGED <<catalog, relations>>
    BY DEF Gather, CollationFails, Index, mirrorVars
  <1>2. MainOK' /\ CatalogOK' /\ Shaped'
    BY <1>1 DEF BInv, TypeOK, MainOK, CatalogOK, Shaped, Entities, mainVars
  <1>3. SearchOK'
    <2>1. CASE Gather
      BY <1>1, <2>1 DEF Gather, Reachable, BInv, TypeOK, MainOK, SearchOK, mainVars
    <2>2. CASE CollationFails
      BY <1>1, <2>2 DEF CollationFails, BInv, TypeOK, SearchOK, mainVars
    <2>3. CASE Index
      BY <1>1, <2>3 DEF Index, BInv, TypeOK, SearchOK, mainVars
    <2> QED BY <2>1, <2>2, <2>3
  <1> QED BY <1>2, <1>3 DEF BInv, TypeOK

----------------------------------------------------------------------------
(* The theorems. *)

LEMMA BInvAlways == Spec => []BInv
  <1>1. Init => BInv
    BY Beginning
  <1>2. BInv /\ [Next]_vars => BInv'
    <2> SUFFICES ASSUME BInv, [Next]_vars PROVE BInv'
      OBVIOUS
    <2>1. CASE UNCHANGED vars
      BY <2>1 DEF vars, mirrorVars, mainVars, searchVars, BInv, TypeOK, MainOK, CatalogOK, SearchOK,
                  Shaped, Entities
    <2>2. CASE Next
      BY <2>2, Beginning, MainKeeps, FetchesKeep, ShowKeeps, IngestKeeps, ProcessKeeps, SearchKeeps DEF Next
    <2> QED BY <2>1, <2>2
  <1> QED BY <1>1, <1>2, PTL DEF Spec

\* Main, catalog and search have their types: what runs are the plugins created in this
\* life of the process, relations are of entities the catalog has, one entity per
\* reference, and nothing is searched before the backend has listened.
THEOREM BackstageTypeCorrect == Spec => []TypeOK
  BY BInvAlways, PTL DEF BInv

\* No page of the app hides a relation: through every restart, failed query and stale
\* relation, for any mesh, it lists where the relation leads, and warns if that is nowhere.
THEOREM NoRelationHidden == Spec => []RelationsVisible
  <1>1. BInv => RelationsVisible
    <2> SUFFICES ASSUME BInv, NEW e \in Entities, NEW r \in Emitted, r.source = Ref(e)
                 PROVE  IF r.target \in Refs(Entities) THEN r.target \in Related(e, Emitted, Entities)
                                                       ELSE RelationWarning(e, Emitted, Entities)
      BY DEF RelationsVisible
    <2>1. RelationOK(r)
      BY DEF BInv, Shaped, Emitted
    <2> QED BY <2>1, RelationSeen
  <1> QED BY <1>1, BInvAlways, PTL
=============================================================================
