------------------------- MODULE MeshProviderProofs -------------------------
(***************************************************************************)
(* Theorems about MeshProvider, for any clusters, replicas and bounds: its *)
(* types, that it implements MeshMirror, that a change of the catalog is   *)
(* the work of one run, and that with one cluster no reference dangles.    *)
(***************************************************************************)
EXTENDS MeshProvider, TLAPS

----------------------------------------------------------------------------
(* Answers, entities, mutations. *)

\* What an answer consists of: the event types of a set of what lived, with some version
\* of what lasted, and the rest of the set without the references out of it.
LEMMA AnswerParts ==
  ASSUME NEW lasting, NEW lived, NEW mesh \in Answers(lasting, lived),
         \A i \in lived : IsItem(i)
  PROVE  \E S \in SUBSET lived :
           /\ Keys(lasting) \subseteq Keys(S)
           /\ EventTypes(mesh) = EventTypes(S)
           /\ \A j \in mesh \ EventTypes(mesh) : \E i \in S \ EventTypes(S) :
                j = [i EXCEPT !.provides = @ \cap Names(S)]
           /\ \A i \in S \ EventTypes(S) :
                [i EXCEPT !.provides = @ \cap Names(S)] \in mesh \ EventTypes(mesh)
  <1>1. PICK S \in SUBSET lived : Keys(lasting) \subseteq Keys(S) /\ mesh = Closed(S)
    BY DEF Answers
  <1>2. ASSUME NEW i \in S \ EventTypes(S)
        PROVE  [i EXCEPT !.provides = @ \cap Names(S)].type # "eventType"
    BY <1>2 DEF EventTypes, IsItem
  <1>3. EventTypes(mesh) = EventTypes(S)
    BY <1>1, <1>2 DEF Closed, EventTypes
  <1>4. mesh \ EventTypes(mesh) = {[i EXCEPT !.provides = @ \cap Names(S)] : i \in S \ EventTypes(S)}
    BY <1>1, <1>2, <1>3 DEF Closed, EventTypes
  <1> QED BY <1>1, <1>3, <1>4

\* Versions of the same items have entities with the same references.
LEMMA SameRefs ==
  ASSUME NEW S, NEW T, Keys(S) \subseteq Keys(T), NEW p
  PROVE  Refs(BuildEntities(p, S)) \subseteq Refs(BuildEntities(p, T))
  <1> SUFFICES ASSUME NEW e \in BuildEntities(p, S)
               PROVE  \E f \in BuildEntities(p, T) : Ref(f) = Ref(e)
    BY DEF Refs
  <1>1. PICK i \in S : e = IF i.type = "eventType" THEN BuildEventTypeEntity(p, i)
                                                    ELSE BuildComponentEntity(p, i)
    <2>1. CASE \E i \in EventTypes(S) : e = BuildEventTypeEntity(p, i)
      BY <2>1 DEF EventTypes
    <2>2. CASE \E i \in S \ EventTypes(S) : e = BuildComponentEntity(p, i)
      BY <2>2 DEF EventTypes
    <2> QED BY <2>1, <2>2 DEF BuildEntities
  <1>2. PICK j \in T : ItemKey(j) = ItemKey(i)
    BY <1>1 DEF Keys
  <1>3. j.type = i.type /\ j.ns = i.ns /\ j.name = i.name
    BY <1>2 DEF ItemKey
  <1>4. CASE i.type = "eventType"
    <2>1. BuildEventTypeEntity(p, j) \in BuildEntities(p, T)
      BY <1>2, <1>3, <1>4 DEF BuildEntities, EventTypes
    <2>2. Ref(BuildEventTypeEntity(p, j)) = Ref(e)
      BY <1>1, <1>3, <1>4 DEF Ref, BuildEventTypeEntity
    <2> QED BY <2>1, <2>2
  <1>5. CASE i.type # "eventType"
    <2>1. BuildComponentEntity(p, j) \in BuildEntities(p, T)
      BY <1>2, <1>3, <1>5 DEF BuildEntities, EventTypes
    <2>2. Ref(BuildComponentEntity(p, j)) = Ref(e)
      BY <1>1, <1>3, <1>5 DEF Ref, BuildComponentEntity
    <2> QED BY <2>1, <2>2
  <1> QED BY <1>4, <1>5

\* What a fetch has seen stays in bounds, whatever it sees next.
LEMMA SeenBounds ==
  ASSUME NEW items, NEW w, w.lasting \subseteq w.lived, w.lived \subseteq items
  PROVE  /\ Blurred(items, w).lasting \subseteq Blurred(items, w).lived
         /\ Blurred(items, w).lived \subseteq items
         /\ \A S \in SUBSET items :
              /\ Widened(items, w, S).lasting \subseteq Widened(items, w, S).lived
              /\ Widened(items, w, S).lived \subseteq items
  BY DEF Blurred, Widened, Versions, Keys

\* Every entity names its provider's cluster.
LEMMA LifecycleOfEntities ==
  ASSUME NEW p, NEW mesh, NEW e \in BuildEntities(p, mesh)
  PROVE  e.lifecycle = p
  BY DEF BuildEntities, BuildEventTypeEntity, BuildComponentEntity

\* A mutation keeps what others have, and of its own entities one per reference that is free.
LEMMA MutationParts ==
  ASSUME NEW owner, NEW entities, NEW after \in Mutations(catalog, owner, entities)
  PROVE  \E K \in SUBSET entities :
           /\ after = {x \in catalog : x[1] # owner} \cup {owner} \X K
           /\ Refs(entities) \subseteq {Ref(x[2]) : x \in after}
           /\ \A e \in K, x \in catalog : x[1] # owner => Ref(x[2]) # Ref(e)
           /\ \A d, e \in K : Ref(d) = Ref(e) => d = e
  <1> DEFINE others == {x \in catalog : x[1] # owner}
             free == {e \in entities : Ref(e) \notin {Ref(x[2]) : x \in others}}
  <1>1. PICK K \in SUBSET free : /\ after = others \cup {owner} \X K
                                 /\ Refs(K) = Refs(free)
                                 /\ \A d, e \in K : Ref(d) = Ref(e) => d = e
    BY DEF Mutations
  <1>2. Refs(entities) \subseteq {Ref(x[2]) : x \in after}
    <2> SUFFICES ASSUME NEW e \in entities PROVE \E x \in after : Ref(x[2]) = Ref(e)
      BY DEF Refs
    <2>1. CASE e \in free
      <3>1. PICK k \in K : Ref(k) = Ref(e)
        BY <1>1, <2>1 DEF Refs
      <3>2. <<owner, k>> \in after
        BY <1>1
      <3> WITNESS <<owner, k>> \in after
      <3> QED BY <3>1
    <2>2. CASE e \notin free
      BY <1>1, <2>2
    <2> QED BY <2>1, <2>2
  <1>3. K \in SUBSET entities
    OBVIOUS
  <1>4. \A e \in K, x \in catalog : x[1] # owner => Ref(x[2]) # Ref(e)
    OBVIOUS
  <1> QED BY <1>1, <1>2, <1>3, <1>4

LEMMA ApplyParts ==
  ASSUME NEW p \in Ids, NEW r \in Replicas, ApplyMutation(p, r)
  PROVE  \E K \in SUBSET BuildEntities(p, run[<<p, r>>].mesh) :
           /\ catalog' = {x \in catalog : x[1] # ProviderName(p)} \cup {ProviderName(p)} \X K
           /\ Refs(BuildEntities(p, run[<<p, r>>].mesh)) \subseteq {Ref(x[2]) : x \in catalog'}
  <1> DEFINE entities == BuildEntities(p, run[<<p, r>>].mesh)
  <1>1. catalog' \in Mutations(catalog, ProviderName(p), entities)
    BY DEF ApplyMutation, Mutate
  <1> HIDE DEF entities
  <1>2. PICK K \in SUBSET entities :
          /\ catalog' = {x \in catalog : x[1] # ProviderName(p)} \cup {ProviderName(p)} \X K
          /\ Refs(entities) \subseteq {Ref(x[2]) : x \in catalog'}
    BY <1>1, MutationParts
  <1> QED BY <1>2 DEF entities

----------------------------------------------------------------------------
(* Types. *)

LEMMA TypeInit == Init => TypeOK
  <1> SUFFICES ASSUME Init PROVE TypeOK
    OBVIOUS
  <1>1. ClustersOK
    BY DEF Init, ClustersOK
  <1>2. StagesOK
    BY DEF Init, StagesOK
  <1>3. CatalogOK
    BY DEF Init, CatalogOK
  <1>4. DOMAIN run = Ids \X Replicas /\ \A x \in Ids \X Replicas : RunOK(x)
    <2>1. run = [x \in Ids \X Replicas |-> Idle]
      BY DEF Init
    <2>2. ASSUME NEW x \in Ids \X Replicas PROVE RunOK(x)
      BY <2>1 DEF RunOK, Idle
    <2> QED BY <2>1, <2>2
  <1> QED BY <1>1, <1>2, <1>3, <1>4 DEF TypeOK

\* A step that gives one run another state keeps the types if that state has one.
LEMMA TypeOneRun ==
  ASSUME TypeOK, NEW y \in Ids \X Replicas, NEW v,
         run' = [run EXCEPT ![y] = v], RunOK(y)', CatalogOK',
         UNCHANGED <<listed, stage, connected>>
  PROVE  TypeOK'
  <1>1. ClustersOK' /\ StagesOK'
    BY DEF TypeOK, ClustersOK, StagesOK
  <1>2. ASSUME NEW x \in Ids \X Replicas, x # y PROVE RunOK(x)'
    <2>1. run'[x] = run[x] /\ RunOK(x)
      BY <1>2 DEF TypeOK
    <2> QED BY <2>1 DEF RunOK
  <1>3. DOMAIN run' = Ids \X Replicas
    BY DEF TypeOK
  <1> QED BY <1>1, <1>2, <1>3 DEF TypeOK

\* A run that has ended has the type.
LEMMA IdleOK == ASSUME NEW y \in Ids \X Replicas, run'[y] = Idle PROVE RunOK(y)'
  BY DEF RunOK, Idle

\* A run that sees something has the type if it has.
LEMMA SeeingOK ==
  ASSUME NEW x \in Ids \X Replicas, RunOK(x), run[x].at = "fetch",
         NEW w, run'[x] = Seeing(run[x], w), w.lasting \subseteq w.lived, w.lived \subseteq Items[x[1]],
         connected' = connected
  PROVE  RunOK(x)'
  <1>1. DOMAIN run[x] = {"at", "lived", "lasting", "mesh", "late"}
    BY DEF RunOK, Idle
  <1>2. /\ DOMAIN run'[x] = DOMAIN run[x] /\ run'[x].at = "fetch"
        /\ run'[x].lived = w.lived /\ run'[x].lasting = w.lasting
    BY <1>1 DEF Seeing
  <1> QED BY <1>2 DEF RunOK

LEMMA TypeChange ==
  ASSUME TypeOK, NEW p \in Ids, Change(p)
  PROVE  TypeOK'
  <1>1. PICK S \in SUBSET Items[p] :
          /\ UniqueKeys(S)
          /\ listed' = [listed EXCEPT ![p] = S]
          /\ run' = [x \in Ids \X Replicas |->
                       IF x[1] = p /\ run[x].at = "fetch" THEN Seeing(run[x], Widened(Items[p], run[x], S))
                                                          ELSE run[x]]
    BY DEF Change
  <1>2. UNCHANGED <<stage, connected, catalog>>
    BY DEF Change
  <1>3. ClustersOK'
    BY <1>1 DEF TypeOK, ClustersOK
  <1>4. StagesOK' /\ CatalogOK'
    BY <1>2 DEF TypeOK, StagesOK, CatalogOK
  <1>5. ASSUME NEW x \in Ids \X Replicas PROVE RunOK(x)'
    <2>1. RunOK(x)
      BY DEF TypeOK
    <2>2. CASE x[1] = p /\ run[x].at = "fetch"
      <3> DEFINE w == Widened(Items[p], run[x], S)
      <3>1. run'[x] = Seeing(run[x], w)
        BY <1>1, <2>2
      <3>2. w.lasting \subseteq w.lived /\ w.lived \subseteq Items[x[1]]
        BY <2>1, <2>2, SeenBounds DEF RunOK
      <3> HIDE DEF w
      <3> QED BY <1>2, <2>1, <2>2, <3>1, <3>2, SeeingOK
    <2>3. CASE ~(x[1] = p /\ run[x].at = "fetch")
      BY <1>1, <1>2, <2>1, <2>3 DEF RunOK
    <2> QED BY <2>2, <2>3
  <1> QED BY <1>1, <1>3, <1>4, <1>5 DEF TypeOK

LEMMA TypeMiss ==
  ASSUME TypeOK, NEW p \in Ids, NEW r \in Replicas, Miss(p, r)
  PROVE  TypeOK'
  <1> DEFINE y == <<p, r>>
             w == Blurred(Items[p], run[y])
  <1>1. RunOK(y) /\ run[y].at = "fetch" /\ UNCHANGED <<listed, stage, connected, catalog>>
    BY DEF TypeOK, Miss
  <1>2. run' = [run EXCEPT ![y] = Seeing(run[y], w)] /\ run'[y] = Seeing(run[y], w)
    BY DEF TypeOK, Miss
  <1>3. w.lasting \subseteq w.lived /\ w.lived \subseteq Items[p]
    BY <1>1, SeenBounds DEF RunOK
  <1> HIDE DEF w
  <1>4. RunOK(y)'
    BY <1>1, <1>2, <1>3, SeeingOK
  <1>5. CatalogOK'
    BY <1>1 DEF TypeOK, CatalogOK
  <1> QED BY <1>1, <1>2, <1>4, <1>5, TypeOneRun

\* Setting up and restarting.
LEMMA TypeReplica ==
  ASSUME TypeOK, NEW r \in Replicas, FromConfig(r) \/ Restart(r) \/ \E p \in Ids : Connect(p, r)
  PROVE  TypeOK'
  <1>1. ClustersOK' /\ CatalogOK'
    BY DEF TypeOK, ClustersOK, CatalogOK, FromConfig, Restart, Connect
  <1>2. StagesOK'
    <2>1. CASE FromConfig(r)
      <3>1. stage' \in [Replicas -> {"loading", "running", "refused"}]
        BY <2>1 DEF TypeOK, StagesOK, FromConfig
      <3>2. \A x \in connected : x \in Ids \X Replicas /\ x[2] # r /\ stage[x[2]] = "running"
        BY <2>1 DEF TypeOK, StagesOK, FromConfig
      <3>3. \A x \in connected' : x \in Ids \X Replicas /\ stage'[x[2]] = "running"
        BY <2>1, <3>2 DEF TypeOK, StagesOK, FromConfig
      <3> QED BY <3>1, <3>3 DEF StagesOK
    <2>2. CASE Restart(r)
      <3>1. stage' \in [Replicas -> {"loading", "running", "refused"}]
        BY <2>2 DEF TypeOK, StagesOK, Restart
      <3>2. \A x \in connected' : x \in Ids \X Replicas /\ x[2] # r /\ stage[x[2]] = "running"
        BY <2>2 DEF TypeOK, StagesOK, Restart
      <3>3. \A x \in connected' : stage'[x[2]] = "running"
        BY <2>2, <3>2 DEF TypeOK, StagesOK, Restart
      <3> QED BY <3>1, <3>2, <3>3 DEF StagesOK
    <2>3. ASSUME NEW p \in Ids, Connect(p, r) PROVE StagesOK'
      BY <2>3 DEF TypeOK, StagesOK, Connect
    <2> QED BY <2>1, <2>2, <2>3
  <1>3. DOMAIN run' = Ids \X Replicas
    BY DEF TypeOK, FromConfig, Restart, Connect
  <1>4. ASSUME NEW x \in Ids \X Replicas PROVE RunOK(x)'
    <2>1. RunOK(x)
      BY DEF TypeOK
    <2>2. CASE FromConfig(r) \/ \E p \in Ids : Connect(p, r)
      BY <2>1, <2>2 DEF RunOK, FromConfig, Connect
    <2>3. CASE Restart(r) /\ x[2] = r
      BY <2>3, IdleOK DEF Restart
    <2>4. CASE Restart(r) /\ x[2] # r
      BY <2>1, <2>4 DEF RunOK, Restart
    <2> QED BY <2>2, <2>3, <2>4
  <1> QED BY <1>1, <1>2, <1>3, <1>4 DEF TypeOK

\* A mutation in a provider's name leaves one entity per reference, each its provider's.
LEMMA TypeMutate ==
  ASSUME CatalogOK, NEW p \in Ids, NEW mesh, Mutate(p, BuildEntities(p, mesh))
  PROVE  CatalogOK'
  <1>1. PICK K \in SUBSET BuildEntities(p, mesh) :
          /\ catalog' = {x \in catalog : x[1] # ProviderName(p)} \cup {ProviderName(p)} \X K
          /\ \A e \in K, x \in catalog : x[1] # ProviderName(p) => Ref(x[2]) # Ref(e)
          /\ \A d, e \in K : Ref(d) = Ref(e) => d = e
    BY MutationParts DEF Mutate
  <1>2. ASSUME NEW x \in catalog' PROVE \E q \in Ids : x = <<ProviderName(q), x[2]>> /\ x[2].lifecycle = q
    <2>1. CASE x \in catalog
      BY <2>1 DEF CatalogOK
    <2>2. CASE x \notin catalog
      <3>1. PICK e \in K : x = <<ProviderName(p), e>>
        BY <1>1, <2>2
      <3> QED BY <3>1, LifecycleOfEntities
    <2> QED BY <2>1, <2>2
  <1>3. ASSUME NEW x \in catalog', NEW y \in catalog', Ref(x[2]) = Ref(y[2]) PROVE x = y
    <2> DEFINE Kept(z) == z \in catalog /\ z[1] # ProviderName(p)
               Own(z) == \E e \in K : z = <<ProviderName(p), e>>
    <2>1. (Kept(x) \/ Own(x)) /\ (Kept(y) \/ Own(y))
      BY <1>1
    <2>2. CASE Kept(x) /\ Kept(y)
      BY <1>3, <2>2 DEF CatalogOK
    <2>3. CASE Own(x) /\ Own(y)
      <3>1. PICK d \in K : x = <<ProviderName(p), d>>
        BY <2>3
      <3>2. PICK e \in K : y = <<ProviderName(p), e>>
        BY <2>3
      <3>3. d = e
        BY <1>1, <1>3, <3>1, <3>2
      <3> QED BY <3>1, <3>2, <3>3
    <2>4. CASE (Kept(x) /\ Own(y)) \/ (Own(x) /\ Kept(y))
      BY <1>1, <1>3, <2>4
    <2> HIDE DEF Kept, Own
    <2> QED BY <2>1, <2>2, <2>3, <2>4
  <1> QED BY <1>2, <1>3 DEF CatalogOK

LEMMA TypeRun ==
  ASSUME TypeOK, NEW p \in Ids, NEW r \in Replicas, Start(p, r) \/ Overrun(p, r) \/ Proceed(p, r)
  PROVE  TypeOK'
  <1> DEFINE y == <<p, r>>
  <1>1. y \in Ids \X Replicas /\ RunOK(y) /\ CatalogOK
    BY DEF TypeOK
  <1>2. DOMAIN run[y] = {"at", "lived", "lasting", "mesh", "late"}
    BY <1>1 DEF RunOK, Idle
  <1>3. UNCHANGED <<listed, stage, connected>>
    BY DEF Start, Overrun, Proceed, Respond, FetchFails, ApplyMutation, ApplyFails
  <1>4. CASE Start(p, r)
    <2>1. run' = [run EXCEPT ![y] = [Idle EXCEPT !.at = "fetch", !.lived = listed[p], !.lasting = listed[p]]]
      BY <1>4 DEF Start
    <2>2. run'[y] = [at |-> "fetch", lived |-> listed[p], lasting |-> listed[p], mesh |-> {}, late |-> FALSE]
      BY <1>1, <2>1 DEF TypeOK, Idle
    <2>3. listed[p] \subseteq Items[p] /\ y \in connected'
      BY <1>4 DEF TypeOK, ClustersOK, Start
    <2>4. RunOK(y)'
      BY <2>2, <2>3 DEF RunOK, Idle
    <2>5. CatalogOK'
      BY <1>1, <1>4 DEF Start, CatalogOK
    <2> QED BY <1>1, <1>3, <2>1, <2>4, <2>5, TypeOneRun
  <1>5. CASE Overrun(p, r)
    <2>1. run' = [run EXCEPT ![y] = [run[y] EXCEPT !.late = TRUE]]
      BY <1>5 DEF Overrun
    <2>2. /\ DOMAIN run'[y] = DOMAIN run[y] /\ run'[y].at = run[y].at /\ run'[y].at # "idle"
          /\ run'[y].lived = run[y].lived /\ run'[y].lasting = run[y].lasting /\ run'[y].mesh = run[y].mesh
      BY <1>1, <1>2, <1>5, <2>1 DEF TypeOK, Overrun
    <2>3. RunOK(y)'
      BY <1>1, <1>3, <2>2 DEF RunOK
    <2>4. CatalogOK'
      BY <1>1, <1>5 DEF Overrun, CatalogOK
    <2> QED BY <1>1, <1>3, <2>1, <2>3, <2>4, TypeOneRun
  <1>6. CASE Respond(p, r)
    <2>1. PICK mesh \in Answers(run[y].lasting, run[y].lived) :
            run' = [run EXCEPT ![y] = [run[y] EXCEPT !.at = "apply", !.mesh = mesh]]
      BY <1>1, <1>6 DEF Respond, TypeOK
    <2>2. /\ DOMAIN run'[y] = DOMAIN run[y] /\ run'[y].at = "apply"
          /\ run'[y].lived = run[y].lived /\ run'[y].lasting = run[y].lasting /\ run'[y].mesh = mesh
      BY <1>1, <1>2, <2>1 DEF TypeOK
    <2>3. run[y].at # "idle"
      BY <1>6 DEF Respond
    <2>4. RunOK(y)'
      BY <1>1, <1>3, <2>1, <2>2, <2>3 DEF RunOK
    <2>5. CatalogOK'
      BY <1>1, <1>6 DEF Respond, CatalogOK
    <2> QED BY <1>1, <1>3, <2>1, <2>4, <2>5, TypeOneRun
  <1>7. CASE FetchFails(p, r) \/ ApplyFails(p, r) \/ ApplyMutation(p, r)
    <2>1. run' = [run EXCEPT ![y] = Idle]
      BY <1>7 DEF FetchFails, ApplyFails, ApplyMutation
    <2>2. RunOK(y)'
      BY <1>1, <2>1, IdleOK DEF TypeOK
    <2>3. CASE FetchFails(p, r) \/ ApplyFails(p, r)
      <3>1. CatalogOK'
        BY <1>1, <2>3 DEF CatalogOK, FetchFails, ApplyFails
      <3> QED BY <1>1, <1>3, <2>1, <2>2, <3>1, TypeOneRun
    <2>4. CASE ApplyMutation(p, r)
      <3>1. CatalogOK'
        BY <1>1, <2>4, TypeMutate DEF ApplyMutation
      <3> QED BY <1>1, <1>3, <2>1, <2>2, <3>1, TypeOneRun
    <2> QED BY <1>7, <2>3, <2>4
  <1> QED BY <1>4, <1>5, <1>6, <1>7 DEF Proceed

LEMMA TypeNext == TypeOK /\ [Next]_vars => TypeOK'
  <1> SUFFICES ASSUME TypeOK, [Next]_vars PROVE TypeOK'
    OBVIOUS
  <1>1. CASE UNCHANGED vars
    BY <1>1 DEF vars, TypeOK, ClustersOK, StagesOK, CatalogOK, RunOK
  <1> QED BY <1>1, TypeChange, TypeReplica, TypeMiss, TypeRun DEF Next

\* The catalog holds one entity per reference, each of the provider in whose name it is
\* there; a run's answer is one that its fetch may have got.
THEOREM ProviderTypeCorrect == Spec => []TypeOK
  BY TypeInit, TypeNext, PTL DEF Spec

----------------------------------------------------------------------------
(* What an answer's entities show. *)

LEMMA LivedItems ==
  ASSUME TypeOK, NEW p \in Ids, NEW r \in Replicas, run[<<p, r>>].at = "apply"
  PROVE  /\ run[<<p, r>>].mesh \in Answers(run[<<p, r>>].lasting, run[<<p, r>>].lived)
         /\ \A i \in run[<<p, r>>].lived : IsItem(i)
  BY ItemsAssumption DEF TypeOK, RunOK

LEMMA WithoutApis ==
  ASSUME NEW ns, NEW name, NEW type, NEW p, NEW apis,
         NEW e, e = [kind |-> "component", ns |-> ns, name |-> name, type |-> type, lifecycle |-> p,
                     providesApis |-> apis]
  PROVE  [e EXCEPT !.providesApis = {}] =
           [kind |-> "component", ns |-> ns, name |-> name, type |-> type, lifecycle |-> p,
            providesApis |-> {}]
  OBVIOUS

\* An entity depicts an item that lived.
LEMMA EntityDepicts ==
  ASSUME NEW lasting, NEW lived, NEW mesh \in Answers(lasting, lived), \A i \in lived : IsItem(i),
         NEW p, NEW e \in BuildEntities(p, mesh)
  PROVE  \E i \in lived : Depicts(e, p, i)
  <1>1. PICK S \in SUBSET lived :
           /\ EventTypes(mesh) = EventTypes(S)
           /\ \A j \in mesh \ EventTypes(mesh) : \E i \in S \ EventTypes(S) :
                j = [i EXCEPT !.provides = @ \cap Names(S)]
    BY AnswerParts
  <1>2. CASE \E i \in EventTypes(mesh) : e = BuildEventTypeEntity(p, i)
    <2>1. PICK i \in EventTypes(S) : e = BuildEventTypeEntity(p, i)
      BY <1>1, <1>2
    <2>2. i \in lived /\ i.type = "eventType" /\ e \in BuildEntities(p, {i})
      BY <2>1 DEF EventTypes, BuildEntities
    <2> QED BY <2>2 DEF Depicts
  <1>3. CASE \E j \in mesh \ EventTypes(mesh) : e = BuildComponentEntity(p, j)
    <2>1. PICK j \in mesh \ EventTypes(mesh) : e = BuildComponentEntity(p, j)
      BY <1>3
    <2>2. PICK i \in S \ EventTypes(S) : j = [i EXCEPT !.provides = @ \cap Names(S)]
      BY <1>1, <2>1
    <2>3. i \in lived /\ IsItem(i) /\ i.type # "eventType"
      BY <2>2 DEF EventTypes
    <2> DEFINE f == BuildComponentEntity(p, i)
    <2>4. f \in BuildEntities(p, {i})
      BY <2>3 DEF EventTypes, BuildEntities
    <2>5. DOMAIN i = {"type", "ns", "name", "provides"}
      BY <2>3 DEF IsItem
    <2>6. /\ j.type = i.type /\ j.ns = i.ns /\ j.name = i.name
          /\ j.provides = i.provides \cap Names(S)
      BY <2>2, <2>5
    <2> DEFINE bare == [kind |-> "component", ns |-> i.ns, name |-> i.name, type |-> i.type,
                        lifecycle |-> p, providesApis |-> {}]
    <2>7. e.kind = "component" /\ [e EXCEPT !.providesApis = {}] = bare
      <3>1. e = [kind |-> "component", ns |-> i.ns, name |-> i.name, type |-> i.type,
                 lifecycle |-> p, providesApis |-> {ApiRef(n) : n \in j.provides}]
        BY <2>1, <2>6 DEF BuildComponentEntity
      <3> QED BY <3>1, WithoutApis
    <2>8. [f EXCEPT !.providesApis = {}] = bare
      <3>1. f = [kind |-> "component", ns |-> i.ns, name |-> i.name, type |-> i.type,
                 lifecycle |-> p, providesApis |-> {ApiRef(n) : n \in i.provides}]
        BY DEF BuildComponentEntity
      <3> HIDE DEF f
      <3> QED BY <3>1, WithoutApis
    <2>9. e.providesApis \subseteq f.providesApis
      BY <2>1, <2>6 DEF BuildComponentEntity
    <2> QED BY <2>3, <2>4, <2>7, <2>8, <2>9 DEF Depicts
  <1> QED BY <1>2, <1>3 DEF BuildEntities

\* Whatever lasted has an entity.
LEMMA LastingShown ==
  ASSUME NEW lasting, NEW lived, NEW mesh \in Answers(lasting, lived), \A i \in lived : IsItem(i), NEW p
  PROVE  Refs(BuildEntities(p, lasting)) \subseteq Refs(BuildEntities(p, mesh))
  <1>1. PICK S \in SUBSET lived :
           /\ Keys(lasting) \subseteq Keys(S)
           /\ EventTypes(mesh) = EventTypes(S)
           /\ \A i \in S \ EventTypes(S) :
                [i EXCEPT !.provides = @ \cap Names(S)] \in mesh \ EventTypes(mesh)
    BY AnswerParts
  <1>2. ASSUME NEW i \in S PROVE \E j \in mesh : ItemKey(j) = ItemKey(i)
    <2>1. CASE i \in EventTypes(S)
      BY <1>1, <2>1 DEF EventTypes
    <2>2. CASE i \notin EventTypes(S)
      <3> DEFINE j == [i EXCEPT !.provides = @ \cap Names(S)]
      <3>1. IsItem(i) /\ i.type # "eventType"
        BY <2>2 DEF EventTypes
      <3>2. j.type = i.type /\ j.ns = i.ns /\ j.name = i.name
        BY <3>1 DEF IsItem
      <3>3. j \in mesh
        BY <1>1, <2>2
      <3> QED BY <3>2, <3>3 DEF ItemKey
    <2> QED BY <2>1, <2>2
  <1>3. Keys(lasting) \subseteq Keys(mesh)
    BY <1>1, <1>2 DEF Keys
  <1> QED BY <1>3, SameRefs

\* The APIs that an answer's component provides are entities of the same answer.
LEMMA EntitiesClosed ==
  ASSUME NEW lasting, NEW lived, NEW mesh \in Answers(lasting, lived), \A i \in lived : IsItem(i),
         NEW p, NEW e \in BuildEntities(p, mesh), e.kind = "component"
  PROVE  e.providesApis \subseteq Refs(BuildEntities(p, mesh))
  <1>1. PICK S \in SUBSET lived :
           /\ EventTypes(mesh) = EventTypes(S)
           /\ \A j \in mesh \ EventTypes(mesh) : \E i \in S \ EventTypes(S) :
                j = [i EXCEPT !.provides = @ \cap Names(S)]
    BY AnswerParts
  <1>2. PICK j \in mesh \ EventTypes(mesh) : e = BuildComponentEntity(p, j)
    BY DEF BuildEntities, BuildEventTypeEntity
  <1>3. PICK i \in S \ EventTypes(S) : j = [i EXCEPT !.provides = @ \cap Names(S)]
    BY <1>1, <1>2
  <1>4. i.type # "eventType" /\ IsItem(i)
    BY <1>3 DEF EventTypes
  <1>5. DOMAIN i = {"type", "ns", "name", "provides"}
    BY <1>4 DEF IsItem
  <1>6. j.provides \subseteq Names(S)
    BY <1>3, <1>5
  <1>7. ASSUME NEW n \in j.provides PROVE ApiRef(n) \in Refs(BuildEntities(p, mesh))
    <2>1. PICK t \in EventTypes(mesh) : n = <<t.ns, t.name>>
      BY <1>1, <1>6, <1>7 DEF Names
    <2>2. BuildEventTypeEntity(p, t) \in BuildEntities(p, mesh)
      BY <2>1 DEF BuildEntities
    <2>3. Ref(BuildEventTypeEntity(p, t)) = ApiRef(n)
      BY <2>1 DEF Ref, BuildEventTypeEntity, ApiRef
    <2> QED BY <2>2, <2>3 DEF Refs
  <1> QED BY <1>2, <1>7 DEF BuildComponentEntity

\* Nothing but the mutation of a run changes the catalog.
LEMMA CatalogChange ==
  ASSUME TypeOK, [Next]_vars, catalog' # catalog
  PROVE  \E p \in Ids, r \in Replicas : ApplyMutation(p, r)
  BY DEF Next, vars, Change, Miss, FromConfig, Restart, Connect, Start, Overrun, Proceed,
     Respond, FetchFails, ApplyFails

\* With one cluster, the providesApis of a component refer to entities of the catalog,
\* whatever runs overlap or fail.
THEOREM OneClusterResolves ==
  ASSUME NEW p \in Ids, Ids = {p}
  PROVE  Spec => []ReferencesResolve
  <1>1. Init => ReferencesResolve
    BY DEF Init, ReferencesResolve
  <1>2. TypeOK /\ ReferencesResolve /\ [Next]_vars => ReferencesResolve'
    <2> SUFFICES ASSUME TypeOK, ReferencesResolve, [Next]_vars PROVE ReferencesResolve'
      OBVIOUS
    <2>1. CASE catalog' = catalog
      BY <2>1 DEF ReferencesResolve
    <2>2. CASE catalog' # catalog
      <3>1. PICK r \in Replicas : ApplyMutation(p, r)
        BY <2>2, CatalogChange
      <3> DEFINE mesh == run[<<p, r>>].mesh
      <3>2. /\ mesh \in Answers(run[<<p, r>>].lasting, run[<<p, r>>].lived)
            /\ \A i \in run[<<p, r>>].lived : IsItem(i)
        BY <3>1, LivedItems DEF ApplyMutation
      <3>3. PICK K \in SUBSET BuildEntities(p, mesh) :
              /\ catalog' = {x \in catalog : x[1] # ProviderName(p)} \cup {ProviderName(p)} \X K
              /\ Refs(BuildEntities(p, mesh)) \subseteq {Ref(x[2]) : x \in catalog'}
        BY <3>1, ApplyParts
      <3>4. \A x \in catalog : x[1] = ProviderName(p)
        BY DEF TypeOK, CatalogOK
      <3>5. ASSUME NEW x \in catalog', x[2].kind = "component"
            PROVE  x[2].providesApis \subseteq {Ref(y[2]) : y \in catalog'}
        <4>1. x[2] \in BuildEntities(p, mesh)
          BY <3>3, <3>4
        <4> HIDE DEF mesh
        <4> QED BY <3>2, <3>3, <3>5, <4>1, EntitiesClosed
      <3> QED BY <3>5 DEF ReferencesResolve
    <2> QED BY <2>1, <2>2
  <1> QED BY <1>1, <1>2, ProviderTypeCorrect, PTL DEF Spec

----------------------------------------------------------------------------
(* One run at a time. *)

\* A change of the catalog is one run's: what is shown of its cluster lived, and what
\* lasted is shown, during its fetch; the other clusters' entities stay.
THEOREM ChangesAreOneRuns == Spec => ShownByOneRun
  <1> DEFINE OneRuns ==
        \E p \in Ids, r \in Replicas :
          /\ run[<<p, r>>].at = "apply"
          /\ \A e \in EntitiesOf(p)' : \E i \in run[<<p, r>>].lived : Depicts(e, p, i)
          /\ Refs(BuildEntities(p, run[<<p, r>>].lasting)) \subseteq {Ref(x[2]) : x \in catalog'}
          /\ \A q \in Ids \ {p} : EntitiesOf(q)' = EntitiesOf(q)
  <1>1. ASSUME TypeOK, TypeOK', [Next]_vars, catalog' # catalog PROVE OneRuns
    <2>1. PICK p \in Ids, r \in Replicas : ApplyMutation(p, r)
      BY <1>1, CatalogChange
    <2> DEFINE mesh == run[<<p, r>>].mesh
               lived == run[<<p, r>>].lived
               lasting == run[<<p, r>>].lasting
    <2>2. run[<<p, r>>].at = "apply"
      BY <2>1 DEF ApplyMutation
    <2>3. mesh \in Answers(lasting, lived) /\ \A i \in lived : IsItem(i)
      BY <1>1, <2>2, LivedItems
    <2>4. PICK K \in SUBSET BuildEntities(p, mesh) :
            /\ catalog' = {x \in catalog : x[1] # ProviderName(p)} \cup {ProviderName(p)} \X K
            /\ Refs(BuildEntities(p, mesh)) \subseteq {Ref(x[2]) : x \in catalog'}
      BY <2>1, ApplyParts
    <2> HIDE DEF mesh, lived, lasting
    <2>5. \A x \in catalog \cup catalog', q \in Ids : x[2].lifecycle = q <=> x[1] = ProviderName(q)
      BY <1>1 DEF TypeOK, CatalogOK, ProviderName
    <2>6. ASSUME NEW e \in EntitiesOf(p)' PROVE \E i \in lived : Depicts(e, p, i)
      <3>1. PICK x \in catalog' : x[2].lifecycle = p /\ e = x[2]
        BY <2>6 DEF EntitiesOf
      <3>2. x[1] = ProviderName(p)
        BY <2>5, <3>1
      <3>3. e \in K
        BY <2>4, <3>1, <3>2
      <3> QED BY <2>3, <3>3, EntityDepicts
    <2>7. Refs(BuildEntities(p, lasting)) \subseteq {Ref(x[2]) : x \in catalog'}
      BY <2>3, <2>4, LastingShown
    <2>8. ASSUME NEW q \in Ids \ {p} PROVE EntitiesOf(q)' = EntitiesOf(q)
      <3>1. ProviderName(q) # ProviderName(p)
        BY DEF ProviderName
      <3>2. \A x : x \in catalog /\ x[1] = ProviderName(q) <=> x \in catalog' /\ x[1] = ProviderName(q)
        BY <2>4, <3>1
      <3>3. \A x : x \in catalog /\ x[2].lifecycle = q <=> x \in catalog' /\ x[2].lifecycle = q
        BY <2>5, <3>2
      <3> QED BY <3>3 DEF EntitiesOf
    <2> QED BY <2>2, <2>6, <2>7, <2>8 DEF lived, lasting
  <1>2. TypeOK /\ TypeOK' /\ [Next]_vars => [catalog' # catalog => OneRuns]_vars
    BY <1>1
  <1>3. ShownByOneRun <=> [][catalog' # catalog => OneRuns]_vars
    BY DEF ShownByOneRun
  <1> QED BY <1>2, <1>3, ProviderTypeCorrect, PTL DEF Spec

\* What has been there since before every run under way began, of p's cluster.
Old(p) ==
  {i \in listed[p] :
     \A r \in Replicas : run[<<p, r>>].at = "idle" \/ ItemKey(i) \in Keys(run[<<p, r>>].lasting)}

\* What is shown and has been there since before the runs under way began stays shown:
\* the run that changes the catalog has seen it, and no other owner holds its reference.
THEOREM ShownStays == Spec => StaysShown
  <1> DEFINE Stays == \A p \in Ids : \A e \in BuildEntities(p, Old(p)) :
                        Ref(e) \in Refs(EntitiesOf(p)) => Ref(e) \in Refs(EntitiesOf(p)')
  <1>1. ASSUME TypeOK, TypeOK', [Next]_vars, NEW p \in Ids, NEW e \in BuildEntities(p, Old(p)),
               Ref(e) \in Refs(EntitiesOf(p))
        PROVE  Ref(e) \in Refs(EntitiesOf(p)')
    <2>1. CASE catalog' = catalog
      BY <1>1, <2>1 DEF EntitiesOf
    <2>2. CASE catalog' # catalog
      <3>1. PICK q \in Ids, r \in Replicas : ApplyMutation(q, r)
        BY <1>1, <2>2, CatalogChange
      <3> DEFINE mesh == run[<<q, r>>].mesh
                 lived == run[<<q, r>>].lived
                 lasting == run[<<q, r>>].lasting
      <3>2. run[<<q, r>>].at = "apply"
        BY <3>1 DEF ApplyMutation
      <3>3. mesh \in Answers(lasting, lived) /\ \A i \in lived : IsItem(i)
        BY <1>1, <3>2, LivedItems
      <3>4. PICK K \in SUBSET BuildEntities(q, mesh) :
              /\ catalog' = {x \in catalog : x[1] # ProviderName(q)} \cup {ProviderName(q)} \X K
              /\ Refs(BuildEntities(q, mesh)) \subseteq {Ref(x[2]) : x \in catalog'}
        BY <3>1, ApplyParts
      <3>5. p = q => Keys(Old(p)) \subseteq Keys(lasting)
        BY <3>2 DEF Old, Keys
      <3> HIDE DEF mesh, lived, lasting
      <3>6. \A x \in catalog \cup catalog' : x[2].lifecycle = p <=> x[1] = ProviderName(p)
        BY <1>1 DEF TypeOK, CatalogOK, ProviderName
      <3>7. PICK y \in catalog : y[2].lifecycle = p /\ Ref(y[2]) = Ref(e)
        BY <1>1 DEF EntitiesOf, Refs
      <3>8. ASSUME NEW x \in catalog', x[2].lifecycle = p, Ref(x[2]) = Ref(e)
            PROVE  Ref(e) \in Refs(EntitiesOf(p)')
        BY <3>8 DEF EntitiesOf, Refs
      <3>9. CASE p # q
        <4>1. ProviderName(p) # ProviderName(q)
          BY <3>9 DEF ProviderName
        <4>2. y \in catalog'
          BY <3>4, <3>6, <3>7, <4>1
        <4> QED BY <3>7, <3>8, <4>2
      <3>10. CASE p = q
        <4>1. Ref(e) \in Refs(BuildEntities(q, lasting))
          BY <1>1, <3>5, <3>10, SameRefs DEF Refs
        <4>2. Ref(e) \in Refs(BuildEntities(q, mesh))
          BY <3>3, <4>1, LastingShown
        <4>3. PICK x \in catalog' : Ref(x[2]) = Ref(e)
          BY <3>4, <4>2
        <4>4. x[1] = ProviderName(p)
          <5>1. CASE x \in catalog
            <6>1. x = y
              BY <1>1, <3>7, <4>3, <5>1 DEF TypeOK, CatalogOK
            <6> QED BY <3>6, <3>7, <6>1
          <5>2. CASE x \notin catalog
            BY <3>4, <3>10, <5>2
          <5> QED BY <5>1, <5>2
        <4> QED BY <3>6, <3>8, <4>3, <4>4
      <3> QED BY <3>9, <3>10
    <2> QED BY <2>1, <2>2
  <1>2. TypeOK /\ TypeOK' /\ [Next]_vars => [Stays]_vars
    BY <1>1
  <1>3. StaysShown <=> [][Stays]_vars
    BY DEF StaysShown, Old
  <1> QED BY <1>2, <1>3, ProviderTypeCorrect, PTL DEF Spec

----------------------------------------------------------------------------
(* The mirror. *)

\* Fetches begin and end for one cluster at a time.
LEMMA FetchesOfOthers ==
  ASSUME NEW p \in Ids, NEW q \in Ids, q # p, DOMAIN run = Ids \X Replicas,
         NEW r \in Replicas, NEW v, run' = [run EXCEPT ![<<p, r>>] = v]
  PROVE  FetchesOf(q)' = FetchesOf(q)
  <1>1. \A y \in {q} \X Replicas : y \in Ids \X Replicas /\ run'[y] = run[y]
    OBVIOUS
  <1> QED BY <1>1 DEF FetchesOf

\* The mirror's catalog is the catalog, with the cluster for the provider.
LEMMA ShownPairs ==
  ASSUME NEW q, NEW e
  PROVE  <<q, e>> \in Shown <=> q \in Ids /\ <<ProviderName(q), e>> \in catalog
  <1>1. <<ProviderName(q), e>> \in catalog => e \in {x[2] : x \in catalog}
    <2> SUFFICES ASSUME <<ProviderName(q), e>> \in catalog PROVE \E x \in catalog : e = x[2]
      OBVIOUS
    <2> WITNESS <<ProviderName(q), e>> \in catalog
    <2> QED OBVIOUS
  <1> QED BY <1>1 DEF Shown

LEMMA MirrorMutation ==
  ASSUME CatalogOK, CatalogOK', NEW p \in Ids, NEW entities, Mutate(p, entities)
  PROVE  Shown' \in Mutations(Shown, p, entities)
  <1> DEFINE others == {x \in catalog : x[1] # ProviderName(p)}
             mine == {x \in Shown : x[1] # p}
             taken == {Ref(x[2]) : x \in others}
             free == {e \in entities : Ref(e) \notin taken}
  <1>1. PICK K \in SUBSET free : /\ catalog' = others \cup {ProviderName(p)} \X K
                                 /\ Refs(K) = Refs(free) /\ \A d, e \in K : Ref(d) = Ref(e) => d = e
    BY DEF Mutate, Mutations
  <1>2. \A q \in Ids : ProviderName(q) = ProviderName(p) <=> q = p
    BY DEF ProviderName
  <1>3. taken = {Ref(x[2]) : x \in mine}
    <2>1. ASSUME NEW x \in others PROVE \E y \in mine : y[2] = x[2]
      <3>1. PICK q \in Ids : x = <<ProviderName(q), x[2]>>
        BY DEF CatalogOK
      <3>2. <<q, x[2]>> \in Shown /\ q # p
        BY <1>2, <3>1, ShownPairs
      <3> QED BY <3>2
    <2>2. ASSUME NEW y \in mine PROVE \E x \in others : x[2] = y[2]
      <3>1. y = <<y[1], y[2]>> /\ y[1] \in Ids
        BY DEF Shown
      <3>2. <<ProviderName(y[1]), y[2]>> \in others
        BY <1>2, <3>1, ShownPairs
      <3> QED BY <3>2
    <2> QED BY <2>1, <2>2
  <1>4. Shown' = mine \cup {p} \X K
    <2>1. ASSUME NEW q, NEW e PROVE <<q, e>> \in Shown' <=> <<q, e>> \in mine \cup {p} \X K
      <3>1. <<q, e>> \in Shown' <=> q \in Ids /\ <<ProviderName(q), e>> \in catalog'
        BY ShownPairs DEF Shown
      <3> QED BY <1>1, <1>2, <3>1, ShownPairs
    <2>2. \A y \in Shown' \cup mine \cup {p} \X K : y = <<y[1], y[2]>>
      BY DEF Shown
    <2> QED BY <2>1, <2>2
  <1> HIDE DEF taken
  <1>5. free = {e \in entities : Ref(e) \notin {Ref(x[2]) : x \in mine}}
    BY <1>3
  <1> HIDE DEF free, mine
  <1> QED BY <1>1, <1>4, <1>5 DEF Mutations, mine

\* The mirror has the same items, answers, entities and mutations.
LEMMA SameEntities ==
  /\ \A S : Mirror!UniqueKeys(S) <=> UniqueKeys(S)
  /\ \A lasting, lived : Mirror!Answers(lasting, lived) = Answers(lasting, lived)
  /\ \A p, mesh : Mirror!BuildEntities(p, mesh) = BuildEntities(p, mesh)
  /\ \A c, p, entities : Mirror!Mutations(c, p, entities) = Mutations(c, p, entities)
  /\ \A items, w : Mirror!Blurred(items, w) = Blurred(items, w)
  /\ \A items, w, S : Mirror!Widened(items, w, S) = Widened(items, w, S)
  <1>1. \A S : Mirror!UniqueKeys(S) <=> UniqueKeys(S)
    BY DEF Mirror!UniqueKeys, UniqueKeys, Mirror!ItemKey, ItemKey
  <1>2. \A lasting, lived : Mirror!Answers(lasting, lived) = Answers(lasting, lived)
    BY DEF Mirror!Answers, Answers, Mirror!Closed, Closed, Mirror!EventTypes, EventTypes,
       Mirror!Names, Names, Mirror!Keys, Keys, Mirror!UniqueKeys, UniqueKeys, Mirror!ItemKey, ItemKey
  <1>3. \A p, mesh : Mirror!BuildEntities(p, mesh) = BuildEntities(p, mesh)
    BY DEF Mirror!BuildEntities, BuildEntities, Mirror!EventTypes, EventTypes,
       Mirror!BuildEventTypeEntity, BuildEventTypeEntity, Mirror!BuildComponentEntity,
       BuildComponentEntity, Mirror!ApiRef, ApiRef
  <1>4. \A c, p, entities : Mirror!Mutations(c, p, entities) = Mutations(c, p, entities)
    BY DEF Mirror!Mutations, Mutations, Mirror!Refs, Refs, Mirror!Ref, Ref
  <1>5. \A items, S : Mirror!Versions(items, S) = Versions(items, S) /\ Mirror!Keys(S) = Keys(S)
    BY DEF Mirror!Versions, Versions, Mirror!Keys, Keys, Mirror!ItemKey, ItemKey
  <1>6. \A items, w : Mirror!Blurred(items, w) = Blurred(items, w)
    BY <1>5 DEF Mirror!Blurred, Blurred
  <1>7. \A items, w, S : Mirror!Widened(items, w, S) = Widened(items, w, S)
    BY <1>5 DEF Mirror!Widened, Widened, Mirror!ItemKey, ItemKey
  <1> QED BY <1>1, <1>2, <1>3, <1>4, <1>6, <1>7

LEMMA MirrorInit == Init => Mirror!Init
  <1> SUFFICES ASSUME Init PROVE Mirror!Init
    OBVIOUS
  <1>1. \A p \in Ids : FetchesOf(p) = {}
    BY DEF Init, FetchesOf, Idle
  <1>2. Shown = {}
    BY DEF Init, Shown
  <1>3. \A p \in Ids : listed[p] \subseteq Items[p] /\ UniqueKeys(listed[p])
    BY DEF Init
  <1> QED BY <1>1, <1>2, <1>3, SameEntities DEF Mirror!Init

\* Without new fetches or a mutation, it is as if some fetches were forgotten.
LEMMA MirrorForgets ==
  ASSUME \A p \in Ids : FetchesOf(p)' \subseteq FetchesOf(p), listed' = listed, catalog' = catalog
  PROVE  Mirror!Forget
  <1> DEFINE W == [p \in Ids |-> FetchesOf(p)']
             windows == [p \in Ids |-> FetchesOf(p)]
  <1>1. W \in [Ids -> SUBSET UNION {windows[p] : p \in Ids}] /\ \A p \in Ids : W[p] \subseteq windows[p]
    OBVIOUS
  <1>2. Shown' = Shown
    BY DEF Shown
  <1> QED BY <1>1, <1>2 DEF Mirror!Forget

\* What a run of p's has seen.
Seen(y) == [lived |-> run[y].lived, lasting |-> run[y].lasting]

\* When no run begins or ends and p's see something, its fetches are the old ones and those.
LEMMA FetchesSeeing ==
  ASSUME TypeOK, NEW p \in Ids, NEW W,
         \A x \in Ids \X Replicas :
           \/ run'[x] = run[x]
           \/ x[1] = p /\ run[x].at = "fetch" /\ \E w \in W : w = Seen(x)' /\ run'[x] = Seeing(run[x], w)
  PROVE  /\ FetchesOf(p)' \subseteq FetchesOf(p) \cup W
         /\ \A q \in Ids \ {p} : FetchesOf(q)' = FetchesOf(q)
  <1>1. ASSUME NEW x \in Ids \X Replicas PROVE run'[x].at = run[x].at
    <2>1. DOMAIN run[x] = {"at", "lived", "lasting", "mesh", "late"}
      BY DEF TypeOK, RunOK, Idle
    <2> QED BY <2>1 DEF Seeing
  <1>2. FetchesOf(p)' \subseteq FetchesOf(p) \cup W
    <2> SUFFICES ASSUME NEW y \in {p} \X Replicas, run'[y].at # "idle"
                 PROVE  Seen(y)' \in FetchesOf(p) \cup W
      BY DEF FetchesOf, Seen
    <2>1. y \in Ids \X Replicas
      OBVIOUS
    <2>2. CASE run'[y] = run[y]
      BY <2>2 DEF FetchesOf, Seen
    <2> QED BY <2>1, <2>2
  <1>3. ASSUME NEW q \in Ids \ {p} PROVE FetchesOf(q)' = FetchesOf(q)
    <2>1. \A y \in {q} \X Replicas : run'[y] = run[y]
      OBVIOUS
    <2> QED BY <2>1 DEF FetchesOf
  <1> QED BY <1>2, <1>3

\* A run that has seen something has seen that.
LEMMA SeenNow ==
  ASSUME NEW y, NEW w, DOMAIN run[y] = {"at", "lived", "lasting", "mesh", "late"},
         run'[y] = Seeing(run[y], w), w = [lived |-> w.lived, lasting |-> w.lasting]
  PROVE  Seen(y)' = w
  <1>1. run'[y].lived = w.lived /\ run'[y].lasting = w.lasting
    BY DEF Seeing
  <1> QED BY <1>1 DEF Seen

\* The cluster of p changes: its fetches under way see it, unless they have ended.
LEMMA MirrorChanges ==
  ASSUME TypeOK, NEW p \in Ids, Change(p)
  PROVE  \E S \in SUBSET Items[p] : Mirror!Change(p, S)
  <1> DEFINE windows == [q \in Ids |-> FetchesOf(q)]
  <1>1. PICK S \in SUBSET Items[p] :
          /\ UniqueKeys(S)
          /\ listed' = [listed EXCEPT ![p] = S]
          /\ run' = [x \in Ids \X Replicas |->
                       IF x[1] = p /\ run[x].at = "fetch" THEN Seeing(run[x], Widened(Items[p], run[x], S))
                                                          ELSE run[x]]
    BY DEF Change
  <1> DEFINE W == {Widened(Items[p], w, S) : w \in FetchesOf(p)}
  <1>2. ASSUME NEW x \in Ids \X Replicas, run'[x] # run[x]
        PROVE  x[1] = p /\ run[x].at = "fetch" /\ \E w \in W : w = Seen(x)' /\ run'[x] = Seeing(run[x], w)
    <2> DEFINE w == Widened(Items[p], run[x], S)
    <2>1. x[1] = p /\ run[x].at = "fetch" /\ run'[x] = Seeing(run[x], w)
      BY <1>1, <1>2
    <2>2. DOMAIN run[x] = {"at", "lived", "lasting", "mesh", "late"}
      BY DEF TypeOK, RunOK, Idle
    <2>3. w = [lived |-> w.lived, lasting |-> w.lasting]
      BY DEF Widened
    <2>4. x \in {p} \X Replicas
      BY <2>1
    <2>5. Seen(x) \in FetchesOf(p)
      BY <2>1, <2>4 DEF FetchesOf, Seen
    <2>6. w = Widened(Items[p], Seen(x), S)
      BY DEF Widened, Seen
    <2>7. w \in W
      BY <2>5, <2>6
    <2> HIDE DEF w, W
    <2>8. Seen(x)' = w
      BY <2>1, <2>2, <2>3, SeenNow
    <2> QED BY <2>1, <2>7, <2>8
  <1> HIDE DEF W
  <1>3. FetchesOf(p)' \subseteq FetchesOf(p) \cup W /\ \A q \in Ids \ {p} : FetchesOf(q)' = FetchesOf(q)
    BY <1>2, FetchesSeeing
  <1>4. [q \in Ids |-> FetchesOf(q)'] = [windows EXCEPT ![p] = FetchesOf(p)']
    BY <1>3
  <1>5. Shown' = Shown
    BY DEF Change, Shown
  <1>6. W = {Mirror!Widened(Items[p], w, S) : w \in FetchesOf(p)}
    BY SameEntities DEF W
  <1>7. Mirror!UniqueKeys(S)
    BY <1>1, SameEntities
  <1>8. Mirror!Change(p, S)
    BY <1>1, <1>3, <1>4, <1>5, <1>6, <1>7 DEF Mirror!Change
  <1> QED BY <1>8

\* A fetch of p misses an object: other fetches that see the same may not.
LEMMA MirrorMisses ==
  ASSUME TypeOK, NEW p \in Ids, NEW r \in Replicas, Miss(p, r)
  PROVE  Mirror!Miss(p)
  <1> DEFINE windows == [q \in Ids |-> FetchesOf(q)]
             W == {Blurred(Items[p], w) : w \in FetchesOf(p)}
             y == <<p, r>>
             w == Blurred(Items[p], run[y])
  <1>1. /\ run[y].at = "fetch" /\ DOMAIN run[y] = {"at", "lived", "lasting", "mesh", "late"}
        /\ run' = [run EXCEPT ![y] = Seeing(run[y], w)] /\ DOMAIN run = Ids \X Replicas
    BY DEF Miss, TypeOK, RunOK, Idle
  <1>2. w \in W
    <2>1. Seen(y) \in FetchesOf(p)
      BY <1>1 DEF FetchesOf, Seen
    <2>2. w = Blurred(Items[p], Seen(y))
      BY DEF Blurred, Seen
    <2> QED BY <2>1, <2>2
  <1>3. w = [lived |-> w.lived, lasting |-> w.lasting]
    BY DEF Blurred
  <1> HIDE DEF w, W
  <1>4. run'[y] = Seeing(run[y], w) /\ Seen(y)' = w
    BY <1>1, <1>3, SeenNow
  <1>5. \A x \in Ids \X Replicas : x # y => run'[x] = run[x]
    BY <1>1
  <1>6. FetchesOf(p)' \subseteq FetchesOf(p) \cup W /\ \A q \in Ids \ {p} : FetchesOf(q)' = FetchesOf(q)
    BY <1>1, <1>2, <1>4, <1>5, FetchesSeeing
  <1>7. [q \in Ids |-> FetchesOf(q)'] = [windows EXCEPT ![p] = FetchesOf(p)']
    BY <1>6
  <1>8. Shown' = Shown /\ listed' = listed
    BY DEF Miss, Shown
  <1>9. W = {Mirror!Blurred(Items[p], v) : v \in FetchesOf(p)}
    BY SameEntities DEF W
  <1> QED BY <1>6, <1>7, <1>8, <1>9 DEF Mirror!Miss

LEMMA MirrorFetches ==
  ASSUME TypeOK, NEW p \in Ids, NEW r \in Replicas, Start(p, r)
  PROVE  Mirror!Fetch(p)
  <1> DEFINE y == <<p, r>>
             fetch == [Idle EXCEPT !.at = "fetch", !.lived = listed[p], !.lasting = listed[p]]
             windows == [q \in Ids |-> FetchesOf(q)]
  <1>1. run' = [run EXCEPT ![y] = fetch] /\ run[y].at = "idle" /\ DOMAIN run = Ids \X Replicas
    BY DEF Start, TypeOK
  <1>2. fetch.at = "fetch" /\ fetch.lived = listed[p] /\ fetch.lasting = listed[p]
    BY DEF Idle
  <1>3. \A q \in Ids \ {p} : FetchesOf(q)' = FetchesOf(q)
    BY <1>1, FetchesOfOthers
  <1> HIDE DEF fetch
  <1>4. \A z \in {p} \X Replicas : z # y => run'[z] = run[z]
    BY <1>1
  <1>5. run'[y] = fetch /\ y \in {p} \X Replicas
    BY <1>1
  <1>6. FetchesOf(p)' = FetchesOf(p) \cup {Mirror!Window(listed[p])}
    BY <1>1, <1>2, <1>4, <1>5 DEF FetchesOf, Mirror!Window
  <1>7. [q \in Ids |-> FetchesOf(q)'] = [windows EXCEPT ![p] = @ \cup {Mirror!Window(listed[p])}]
    BY <1>3, <1>6
  <1>8. Shown' = Shown /\ listed' = listed
    BY DEF Start, Shown
  <1> QED BY <1>7, <1>8 DEF Mirror!Fetch

\* A run of p that goes on, or ends, leaves at most the fetches that were under way.
LEMMA FetchesLeft ==
  ASSUME TypeOK, NEW p \in Ids, NEW r \in Replicas, Overrun(p, r) \/ Proceed(p, r)
  PROVE  \A q \in Ids : FetchesOf(q)' \subseteq FetchesOf(q) /\ (q # p => FetchesOf(q)' = FetchesOf(q))
  <1> DEFINE y == <<p, r>>
  <1>1. DOMAIN run = Ids \X Replicas /\ DOMAIN run[y] = {"at", "lived", "lasting", "mesh", "late"}
    BY DEF TypeOK, RunOK, Idle
  <1>2. \E v : /\ run' = [run EXCEPT ![y] = v]
               /\ v.at # "idle" => run[y].at # "idle" /\ v.lived = run[y].lived /\ v.lasting = run[y].lasting
    <2>1. CASE Overrun(p, r)
      <3>1. run' = [run EXCEPT ![y] = [run[y] EXCEPT !.late = TRUE]]
        BY <2>1 DEF Overrun
      <3> WITNESS [run[y] EXCEPT !.late = TRUE]
      <3> QED BY <1>1, <2>1, <3>1 DEF Overrun
    <2>2. CASE Respond(p, r)
      <3>1. PICK mesh : run' = [run EXCEPT ![y] = [run[y] EXCEPT !.at = "apply", !.mesh = mesh]]
        BY <1>1, <2>2 DEF Respond
      <3> WITNESS [run[y] EXCEPT !.at = "apply", !.mesh = mesh]
      <3>2. run[y].at = "fetch"
        BY <2>2 DEF Respond
      <3> QED BY <1>1, <3>1, <3>2
    <2>3. CASE FetchFails(p, r) \/ ApplyFails(p, r) \/ ApplyMutation(p, r)
      <3>1. run' = [run EXCEPT ![y] = Idle]
        BY <2>3 DEF FetchFails, ApplyFails, ApplyMutation
      <3> WITNESS Idle
      <3> QED BY <3>1 DEF Idle
    <2> QED BY <2>1, <2>2, <2>3 DEF Proceed
  <1>3. PICK v : /\ run' = [run EXCEPT ![y] = v]
                 /\ v.at # "idle" => run[y].at # "idle" /\ v.lived = run[y].lived /\ v.lasting = run[y].lasting
    BY <1>2
  <1>4. \A q \in Ids \ {p} : FetchesOf(q)' = FetchesOf(q)
    BY <1>1, <1>3, FetchesOfOthers
  <1>5. \A z \in {p} \X Replicas : /\ z # y => run'[z] = run[z]
                                   /\ z = y => run'[z] = v
    BY <1>1, <1>3
  <1>6. FetchesOf(p)' \subseteq FetchesOf(p)
    BY <1>3, <1>5 DEF FetchesOf
  <1> QED BY <1>4, <1>6

LEMMA MirrorShows ==
  ASSUME TypeOK, TypeOK', NEW p \in Ids, NEW r \in Replicas, ApplyMutation(p, r)
  PROVE  Mirror!Show(p)
  <1> DEFINE y == <<p, r>>
             w == [lived |-> run[y].lived, lasting |-> run[y].lasting]
             windows == [q \in Ids |-> FetchesOf(q)]
  <1>1. run[y].at = "apply" /\ Mutate(p, BuildEntities(p, run[y].mesh)) /\ listed' = listed
    BY DEF ApplyMutation
  <1>2. w \in FetchesOf(p)
    BY <1>1 DEF FetchesOf
  <1>3. run[y].mesh \in Answers(w.lasting, w.lived)
    BY <1>1, LivedItems
  <1>4. Shown' \in Mutations(Shown, p, BuildEntities(p, run[y].mesh))
    BY <1>1, MirrorMutation DEF TypeOK
  <1>5. FetchesOf(p)' \in SUBSET FetchesOf(p) /\ \A q \in Ids \ {p} : FetchesOf(q)' = FetchesOf(q)
    BY FetchesLeft DEF Proceed
  <1>6. [q \in Ids |-> FetchesOf(q)'] = [windows EXCEPT ![p] = FetchesOf(p)']
    BY <1>5
  <1>7. \E v \in windows[p] : \E mesh \in Answers(v.lasting, v.lived) :
          Shown' \in Mutations(Shown, p, BuildEntities(p, mesh))
    BY <1>2, <1>3, <1>4
  <1> QED BY <1>1, <1>5, <1>6, <1>7, SameEntities DEF Mirror!Show

LEMMA MirrorStep == TypeOK /\ TypeOK' /\ [Next]_vars => [Mirror!Next]_(Mirror!vars)
  <1> SUFFICES ASSUME TypeOK, TypeOK', [Next]_vars PROVE [Mirror!Next]_(Mirror!vars)
    OBVIOUS
  <1>1. ASSUME NEW p \in Ids, Change(p) \/ \E r \in Replicas : Miss(p, r) PROVE Mirror!Next
    BY <1>1, MirrorChanges, MirrorMisses DEF Mirror!Next
  <1>2. ASSUME NEW r \in Replicas, FromConfig(r) \/ Restart(r) PROVE Mirror!Next
    <2>1. \A x \in Ids \X Replicas : run'[x] = run[x] \/ run'[x].at = "idle"
      BY <1>2 DEF FromConfig, Restart, Idle
    <2>2. \A p \in Ids : FetchesOf(p)' \subseteq FetchesOf(p)
      BY <2>1 DEF FetchesOf
    <2>3. Mirror!Forget
      BY <1>2, <2>2, MirrorForgets DEF FromConfig, Restart
    <2> QED BY <2>3 DEF Mirror!Next
  <1>3. ASSUME NEW p \in Ids, NEW r \in Replicas, Connect(p, r) PROVE UNCHANGED Mirror!vars
    BY <1>3 DEF Connect, Mirror!vars, FetchesOf, Shown
  <1>4. ASSUME NEW p \in Ids, NEW r \in Replicas, Start(p, r) PROVE Mirror!Next
    BY <1>4, MirrorFetches DEF Mirror!Next
  <1>5. ASSUME NEW p \in Ids, NEW r \in Replicas, Overrun(p, r) \/ Proceed(p, r) PROVE Mirror!Next
    <2>1. CASE ApplyMutation(p, r)
      <3>1. Mirror!Show(p)
        BY <2>1, MirrorShows
      <3> QED BY <3>1 DEF Mirror!Next
    <2>2. CASE ~ApplyMutation(p, r)
      <3>1. listed' = listed /\ catalog' = catalog
        BY <1>5, <2>2 DEF Overrun, Proceed, Respond, FetchFails, ApplyFails
      <3>2. Mirror!Forget
        BY <1>5, <3>1, FetchesLeft, MirrorForgets
      <3> QED BY <3>2 DEF Mirror!Next
    <2> QED BY <2>1, <2>2
  <1>6. CASE UNCHANGED vars
    BY <1>6 DEF vars, Mirror!vars, FetchesOf, Shown
  <1> QED BY <1>1, <1>2, <1>3, <1>4, <1>5, <1>6 DEF Next

\* The providers implement the mirror: of each cluster the catalog shows one fetch's
\* answer, whatever the schedules, replicas, timeouts, errors and restarts are.
THEOREM ProviderImplementsMirror == Spec => MirrorSpec
  BY MirrorInit, MirrorStep, ProviderTypeCorrect, PTL DEF Spec, MirrorSpec, Mirror!Spec
=============================================================================
