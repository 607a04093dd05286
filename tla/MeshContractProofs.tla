------------------------- MODULE MeshContractProofs -------------------------
(***************************************************************************)
(* Theorems about MeshContract: what BuildEventMesh answers is an answer   *)
(* as the provider's model has it, for any objects, start clusters, errors *)
(* and number of changes.                                                  *)
(***************************************************************************)
EXTENDS MeshAnswerProofs, MeshContract

----------------------------------------------------------------------------
(* The items of a mesh. *)

\* The keys of the items made of a set of objects.
EventKeys(S) == {<<"eventType", o.ns, o.name>> : o \in S}
BrokerKeys(S) == {<<"broker", o.ns, o.name>> : o \in S}
KindKeys(S) == {<<TypeOf(o), o.ns, o.name>> : o \in S}

\* An item of a mesh is an event type's, a broker's, a subscribable's or a source's.
LEMMA ItemEntry ==
  ASSUME NEW m, NEW i
  PROVE  i \in ItemsOf(m) <=>
           \/ \E et \in m.eventTypes : i = EventTypeItem(et, ConsumersIn(m, et))
           \/ \E b \in m.brokers : i = ProviderItem("broker", b, ProvidedIn(m, b))
           \/ \E p \in m.subscribables \cup m.sources : i = ProviderItem(TypeOf(p), p, ProvidedIn(m, p))
  BY Zenon DEF ItemsOf

\* The fields of an item.
LEMMA ItemFields ==
  /\ \A et, ids : LET i == EventTypeItem(et, ids)
                  IN /\ i.type = "eventType" /\ i.ns = et.ns /\ i.name = et.name /\ i.consumedBy = ids
                     /\ E!ItemKey(i) = <<"eventType", et.ns, et.name>>
  /\ \A type, p, names : LET i == ProviderItem(type, p, names)
                         IN /\ i.type = type /\ i.ns = p.ns /\ i.name = p.name /\ i.provides = names
                            /\ E!ItemKey(i) = <<type, p.ns, p.name>>
                            /\ \A S : names \subseteq S => [i EXCEPT !.provides = @ \cap S] = i
  BY DEF EventTypeItem, ProviderItem, E!ItemKey

LEMMA ItemKeys ==
  ASSUME NEW m
  PROVE  E!Keys(ItemsOf(m)) =
           EventKeys(m.eventTypes) \cup BrokerKeys(m.brokers) \cup KindKeys(m.subscribables \cup m.sources)
  <1>1. ASSUME NEW k \in E!Keys(ItemsOf(m))
        PROVE  k \in EventKeys(m.eventTypes) \cup BrokerKeys(m.brokers) \cup KindKeys(m.subscribables \cup m.sources)
    <2>1. PICK i \in ItemsOf(m) : k = E!ItemKey(i)
      BY DEF E!Keys
    <2> QED BY <2>1, ItemEntry, ItemFields DEF EventKeys, BrokerKeys, KindKeys
  <1>2. ASSUME NEW o, o \in m.eventTypes \/ o \in m.brokers \/ o \in m.subscribables \cup m.sources
        PROVE  /\ o \in m.eventTypes => <<"eventType", o.ns, o.name>> \in E!Keys(ItemsOf(m))
               /\ o \in m.brokers => <<"broker", o.ns, o.name>> \in E!Keys(ItemsOf(m))
               /\ o \in m.subscribables \cup m.sources => <<TypeOf(o), o.ns, o.name>> \in E!Keys(ItemsOf(m))
    <2>1. ASSUME o \in m.eventTypes PROVE <<"eventType", o.ns, o.name>> \in E!Keys(ItemsOf(m))
      <3>1. EventTypeItem(o, ConsumersIn(m, o)) \in ItemsOf(m)
        BY <2>1, ItemEntry
      <3> QED BY <3>1, ItemFields DEF E!Keys
    <2>2. ASSUME o \in m.brokers PROVE <<"broker", o.ns, o.name>> \in E!Keys(ItemsOf(m))
      <3>1. ProviderItem("broker", o, ProvidedIn(m, o)) \in ItemsOf(m)
        BY <2>2, ItemEntry
      <3> QED BY <3>1, ItemFields DEF E!Keys
    <2>3. ASSUME o \in m.subscribables \cup m.sources PROVE <<TypeOf(o), o.ns, o.name>> \in E!Keys(ItemsOf(m))
      <3>1. ProviderItem(TypeOf(o), o, ProvidedIn(m, o)) \in ItemsOf(m)
        BY <2>3, ItemEntry
      <3> QED BY <3>1, ItemFields DEF E!Keys
    <2> QED BY <2>1, <2>2, <2>3
  <1> QED BY <1>1, <1>2 DEF EventKeys, BrokerKeys, KindKeys

\* The items there may be: versions of the items of Objects.
LEMMA ItemsEntry ==
  ASSUME NEW ids \in SUBSET {BackstageId(o) : o \in Objects},
         NEW names \in SUBSET {NameOf(et) : et \in EventTypes(Objects)}
  PROVE  /\ \A et \in EventTypes(Objects) : EventTypeItem(et, ids) \in Items
         /\ \A b \in Brokers(Objects) : ProviderItem("broker", b, names) \in Items
         /\ \A p \in Subscribables(Objects) \cup Sources(Objects) : ProviderItem(TypeOf(p), p, names) \in Items
  <1> DEFINE provider(type, P) ==
               {ProviderItem(type, x[1], x[2]) : x \in P \X SUBSET {NameOf(et) : et \in EventTypes(Objects)}}
             events == {EventTypeItem(x[1], x[2]) : x \in EventTypes(Objects) \X SUBSET {BackstageId(o) : o \in Objects}}
  <1>1. Items = events \cup provider("broker", Brokers(Objects))
                  \cup UNION {provider(TypeOf(o), {o}) : o \in Subscribables(Objects) \cup Sources(Objects)}
    BY Zenon DEF Items
  <1>2. ASSUME NEW et \in EventTypes(Objects) PROVE EventTypeItem(et, ids) \in events
    <2> DEFINE x == <<et, ids>>
    <2>1. x \in EventTypes(Objects) \X SUBSET {BackstageId(o) : o \in Objects} /\ x[1] = et /\ x[2] = ids
      OBVIOUS
    <2>2. EventTypeItem(et, ids) = EventTypeItem(x[1], x[2])
      BY <2>1
    <2> QED BY <2>1, <2>2, Zenon
  <1>3. ASSUME NEW type, NEW P, NEW p \in P PROVE ProviderItem(type, p, names) \in provider(type, P)
    <2> DEFINE x == <<p, names>>
    <2>1. x \in P \X SUBSET {NameOf(et) : et \in EventTypes(Objects)} /\ x[1] = p /\ x[2] = names
      OBVIOUS
    <2>2. ProviderItem(type, p, names) = ProviderItem(type, x[1], x[2])
      BY <2>1
    <2> QED BY <2>1, <2>2, Zenon
  <1> HIDE DEF provider, events
  <1> QED BY <1>1, <1>2, <1>3

\* What Items holds of subscribables and sources has their types.
LEMMA ItemsTypes ==
  ASSUME NEW i \in Items
  PROVE  \/ E!ItemKey(i)[1] \in {"eventType", "broker"}
         \/ \E p \in Subscribables(Objects) \cup Sources(Objects) : E!ItemKey(i) = <<TypeOf(p), p.ns, p.name>>
  <1> DEFINE provider(type, P) ==
               {ProviderItem(type, x[1], x[2]) : x \in P \X SUBSET {NameOf(et) : et \in EventTypes(Objects)}}
             events == {EventTypeItem(x[1], x[2]) : x \in EventTypes(Objects) \X SUBSET {BackstageId(o) : o \in Objects}}
  <1>1. Items = events \cup provider("broker", Brokers(Objects))
                  \cup UNION {provider(TypeOf(o), {o}) : o \in Subscribables(Objects) \cup Sources(Objects)}
    BY Zenon DEF Items
  <1>2. ASSUME i \in events PROVE E!ItemKey(i)[1] = "eventType"
    BY <1>2, ItemFields
  <1>3. ASSUME NEW type, NEW P, i \in provider(type, P)
        PROVE  \E p \in P : E!ItemKey(i) = <<type, p.ns, p.name>>
    <2>1. PICK x \in P \X SUBSET {NameOf(et) : et \in EventTypes(Objects)} : i = ProviderItem(type, x[1], x[2])
      BY <1>3, Zenon
    <2>2. x[1] \in P
      OBVIOUS
    <2> QED BY <2>1, <2>2, ItemFields
  <1> HIDE DEF provider, events
  <1>4. CASE i \in events
    BY <1>2, <1>4
  <1>5. CASE i \in provider("broker", Brokers(Objects))
    BY <1>3, <1>5
  <1>6. CASE \E o \in Subscribables(Objects) \cup Sources(Objects) : i \in provider(TypeOf(o), {o})
    BY <1>3, <1>6
  <1> QED BY <1>1, <1>4, <1>5, <1>6

----------------------------------------------------------------------------
(* Meshes whose items are what the provider takes for an answer. *)

\* A kind is of subscribables or of sources.
LEMMA RolesApart ==
  ASSUME NEW p \in Subscribables(Objects), NEW q \in Sources(Objects)
  PROVE  <<p.group, p.kind>> # <<q.group, q.kind>>
  <1>1. PICK c \in Labelled(Objects, SubscribableDuck) : <<p.group, p.kind>> = c.defines
    BY DEF Subscribables, Instances
  <1>2. PICK d \in Labelled(Objects, SourceDuck) : <<q.group, q.kind>> = d.defines
    BY DEF Sources, Instances
  <1>3. /\ c \in CRDs(Objects) /\ SubscribableDuck \in c.ducks
        /\ d \in CRDs(Objects) /\ SourceDuck \in d.ducks
    BY DEF Labelled
  <1>4. c.defines = d.defines => SourceDuck \in c.ducks
    BY <1>3, KindsAssumption
  <1>5. c.defines # d.defines
    BY <1>3, <1>4, KindsAssumption
  <1> QED BY <1>1, <1>2, <1>5

WellFormed(m) ==
  /\ m.brokers \subseteq Brokers(Objects) /\ m.eventTypes \subseteq EventTypes(Objects)
  /\ m.subscribables \subseteq Subscribables(Objects) /\ m.sources \subseteq Sources(Objects)
  /\ \A c \in m.consumed : c[2] \in {BackstageId(o) : o \in Objects}
  /\ \A q \in m.provided : q[2] \in {NameOf(et) : et \in m.eventTypes}
  /\ \A a, b \in m.eventTypes : NameOf(a) = NameOf(b) => a = b
  /\ \A S \in {m.brokers, m.subscribables, m.sources} : \A a, b \in S : KeyOf(a) = KeyOf(b) => a = b

\* The names of event types as MeshEntities has them.
LEMMA NamePairs == \A et : NameOf(et) = <<et.ns, et.name>>
  <1>1. ASSUME NEW a, NEW n PROVE <<a>> \o <<n>> = <<a, n>>
    <2>1. <<n>> \in Seq({n}) /\ Len(<<n>>) = 1 /\ <<n>>[1] = n
      OBVIOUS
    <2> DEFINE s == <<a>> \o <<n>>
    <2>2. s \in Seq({n} \cup {a}) /\ Len(s) = 2 /\ s[1] = a /\ s[2] = n
      BY <2>1, Prefixed
    <2> HIDE DEF s
    <2>3. s = <<a, n>>
      BY <2>2
    <2> QED BY <2>3 DEF s
  <1> QED BY <1>1 DEF NameOf, NamespacedName

\* They are items that there may be.
LEMMA WellFormedWithin ==
  ASSUME NEW m, WellFormed(m)
  PROVE  ItemsOf(m) \subseteq Items
  <1>1. ASSUME NEW et \in m.eventTypes PROVE EventTypeItem(et, ConsumersIn(m, et)) \in Items
    <2>1. ConsumersIn(m, et) \in SUBSET {BackstageId(o) : o \in Objects}
      BY DEF ConsumersIn, WellFormed
    <2>2. {} \in SUBSET {NameOf(e) : e \in EventTypes(Objects)} /\ et \in EventTypes(Objects)
      BY DEF WellFormed
    <2> QED BY <2>1, <2>2, ItemsEntry
  <1>2. ASSUME NEW p PROVE ProvidedIn(m, p) \in SUBSET {NameOf(e) : e \in EventTypes(Objects)}
    BY DEF ProvidedIn, WellFormed
  <1>3. {} \in SUBSET {BackstageId(o) : o \in Objects}
    OBVIOUS
  <1>4. ASSUME NEW b \in m.brokers PROVE ProviderItem("broker", b, ProvidedIn(m, b)) \in Items
    BY <1>2, <1>3, ItemsEntry DEF WellFormed
  <1>5. ASSUME NEW p \in m.subscribables \cup m.sources PROVE ProviderItem(TypeOf(p), p, ProvidedIn(m, p)) \in Items
    <2>1. p \in Subscribables(Objects) \cup Sources(Objects)
      BY DEF WellFormed
    <2> QED BY <1>2, <1>3, <2>1, ItemsEntry
  <1> QED BY <1>1, <1>4, <1>5, ItemEntry

\* The objects of the cluster that lists them may be anything of Objects.
LEMMA ObjectTypes ==
  /\ \A p \in Objects : TypeOf(p) \notin {"broker", "eventType"}
  /\ \A p, q \in Objects : TypeOf(p) = TypeOf(q) => <<p.group, p.kind>> = <<q.group, q.kind>>
  BY TypesAssumption

\* An object of one role, type and name is the only one.
LEMMA SameObject ==
  ASSUME NEW m, WellFormed(m)
  PROVE  /\ \A a, b \in m.eventTypes : a.ns = b.ns /\ a.name = b.name => a = b
         /\ \A a, b \in m.brokers : a.ns = b.ns /\ a.name = b.name => a = b
         /\ \A a, b \in m.subscribables \cup m.sources :
              TypeOf(a) = TypeOf(b) /\ a.ns = b.ns /\ a.name = b.name => a = b
  <1>1. ASSUME NEW a \in m.eventTypes, NEW b \in m.eventTypes, a.ns = b.ns, a.name = b.name PROVE a = b
    BY <1>1, NamePairs DEF WellFormed
  <1>2. ASSUME NEW a \in m.brokers, NEW b \in m.brokers, a.ns = b.ns, a.name = b.name PROVE a = b
    <2>1. a.group = b.group /\ a.kind = b.kind
      BY DEF WellFormed, Brokers
    <2> QED BY <1>2, <2>1 DEF WellFormed, KeyOf, GKNamespacedName
  <1>3. ASSUME NEW a \in m.subscribables \cup m.sources, NEW b \in m.subscribables \cup m.sources,
               TypeOf(a) = TypeOf(b), a.ns = b.ns, a.name = b.name
        PROVE  a = b
    <2>1. a \in Objects /\ b \in Objects
      BY ListsWithin DEF WellFormed
    <2>2. a.group = b.group /\ a.kind = b.kind
      BY <1>3, <2>1, TypesAssumption
    <2>3. KeyOf(a) = KeyOf(b)
      BY <1>3, <2>2 DEF KeyOf, GKNamespacedName
    <2>4. (a \in m.subscribables /\ b \in m.subscribables) \/ (a \in m.sources /\ b \in m.sources)
      BY <2>2, RolesApart DEF WellFormed
    <2> QED BY <2>3, <2>4 DEF WellFormed
  <1> QED BY <1>1, <1>2, <1>3

\* No two of them have the same key.
LEMMA WellFormedUnique ==
  ASSUME NEW m, WellFormed(m)
  PROVE  E!UniqueKeys(ItemsOf(m))
  <1> DEFINE event(i, o) == i = EventTypeItem(o, ConsumersIn(m, o)) /\ E!ItemKey(i) = <<"eventType", o.ns, o.name>>
             broker(i, o) == i = ProviderItem("broker", o, ProvidedIn(m, o)) /\ E!ItemKey(i) = <<"broker", o.ns, o.name>>
             other(i, o) == i = ProviderItem(TypeOf(o), o, ProvidedIn(m, o)) /\ E!ItemKey(i) = <<TypeOf(o), o.ns, o.name>>
             others == m.subscribables \cup m.sources
  <1>1. \A p \in others : TypeOf(p) # "broker" /\ TypeOf(p) # "eventType"
    BY ListsWithin, ObjectTypes DEF WellFormed
  <1>2. ASSUME NEW i \in ItemsOf(m)
        PROVE  \/ \E o \in m.eventTypes : event(i, o)
               \/ \E o \in m.brokers : broker(i, o)
               \/ \E o \in others : other(i, o)
    BY ItemEntry, ItemFields
  <1>3. ASSUME NEW i, NEW j, NEW o, NEW q, E!ItemKey(i) = E!ItemKey(j)
        PROVE  /\ o \in m.eventTypes /\ q \in m.eventTypes /\ event(i, o) /\ event(j, q) => i = j
               /\ o \in m.brokers /\ q \in m.brokers /\ broker(i, o) /\ broker(j, q) => i = j
               /\ o \in others /\ q \in others /\ other(i, o) /\ other(j, q) => i = j
    <2>1. ASSUME o \in m.eventTypes, q \in m.eventTypes, event(i, o), event(j, q) PROVE i = j
      <3>1. o.ns = q.ns /\ o.name = q.name
        BY <1>3, <2>1
      <3>2. o = q
        BY <2>1, <3>1, SameObject
      <3> QED BY <2>1, <3>2
    <2>2. ASSUME o \in m.brokers, q \in m.brokers, broker(i, o), broker(j, q) PROVE i = j
      <3>1. o.ns = q.ns /\ o.name = q.name
        BY <1>3, <2>2
      <3>2. o = q
        BY <2>2, <3>1, SameObject
      <3> QED BY <2>2, <3>2
    <2>3. ASSUME o \in others, q \in others, other(i, o), other(j, q) PROVE i = j
      <3>1. TypeOf(o) = TypeOf(q) /\ o.ns = q.ns /\ o.name = q.name
        BY <1>3, <2>3
      <3>2. o = q
        BY <2>3, <3>1, SameObject
      <3> QED BY <2>3, <3>2
    <2> QED BY <2>1, <2>2, <2>3
  <1>4. \A i, o : /\ event(i, o) => E!ItemKey(i)[1] = "eventType"
                  /\ broker(i, o) => E!ItemKey(i)[1] = "broker"
                  /\ o \in others /\ other(i, o) => E!ItemKey(i)[1] \notin {"eventType", "broker"}
    BY <1>1
  <1> HIDE DEF event, broker, other, others
  <1> QED BY <1>2, <1>3, <1>4 DEF E!UniqueKeys

\* They refer to each other only.
LEMMA WellFormedClosed ==
  ASSUME NEW m, WellFormed(m)
  PROVE  E!Closed(ItemsOf(m)) = ItemsOf(m)
  <1> DEFINE I == ItemsOf(m)
             names == {NameOf(et) : et \in m.eventTypes}
  <1>1. names \subseteq E!Names(I)
    <2> SUFFICES ASSUME NEW et \in m.eventTypes PROVE NameOf(et) \in E!Names(I)
      OBVIOUS
    <2> DEFINE i == EventTypeItem(et, ConsumersIn(m, et))
    <2>1. i \in I
      BY ItemEntry
    <2>2. i.type = "eventType" /\ i.ns = et.ns /\ i.name = et.name
      BY ItemFields
    <2> HIDE DEF i, I
    <2>3. <<et.ns, et.name>> \in E!Names(I)
      BY <2>1, <2>2 DEF E!Names, E!EventTypes
    <2> QED BY <2>3, NamePairs
  <1>2. ASSUME NEW i \in I, i \notin E!EventTypes(I)
        PROVE  [i EXCEPT !.provides = @ \cap E!Names(I)] = i
    <2>1. PICK type, p : i = ProviderItem(type, p, ProvidedIn(m, p))
      <3>1. ~ \E et \in m.eventTypes : i = EventTypeItem(et, ConsumersIn(m, et))
        BY <1>2, ItemFields DEF E!EventTypes
      <3> QED BY <3>1, ItemEntry
    <2>2. ProvidedIn(m, p) \subseteq E!Names(I)
      BY <1>1 DEF ProvidedIn, WellFormed
    <2> HIDE DEF I
    <2> QED BY <2>1, <2>2, ItemFields
  <1> HIDE DEF I
  <1>3. {[i EXCEPT !.provides = @ \cap E!Names(I)] : i \in I \ E!EventTypes(I)} = I \ E!EventTypes(I)
    BY <1>2
  <1>4. E!EventTypes(I) \subseteq I
    BY DEF E!EventTypes
  <1>5. E!Closed(I) = I
    BY <1>3, <1>4 DEF E!Closed
  <1> QED BY <1>5 DEF I

\* The mesh of a cluster that rests.
LEMMA RestWellFormed ==
  ASSUME NEW C \in SUBSET Objects, UniqueKeys(C)
  PROVE  WellFormed(MeshOf(C))
  <1> DEFINE m == MeshOf(C)
  <1>1. /\ m.brokers = Brokers(C) /\ m.subscribables = Subscribables(C) /\ m.sources = Sources(C)
        /\ m.eventTypes = EventTypes(C) /\ m.provided = Provided(C) /\ m.consumed = ConsumedByTriggers(C)
    BY DEF MeshOf
  <1> HIDE DEF m
  <1>2. /\ m.brokers \subseteq Brokers(Objects) /\ m.eventTypes \subseteq EventTypes(Objects)
        /\ m.subscribables \subseteq Subscribables(Objects) /\ m.sources \subseteq Sources(Objects)
    BY <1>1, ListsMonotone
  <1>3. \A c \in m.consumed : c[2] \in {BackstageId(o) : o \in Objects}
    <2> SUFFICES ASSUME NEW c \in ConsumedByTriggers(C) PROVE c[2] \in {BackstageId(o) : o \in Objects}
      BY <1>1
    <2>1. PICK t \in Triggers(C), et \in EventTypes(C), s \in C : c = <<NameOf(et), BackstageId(s), t>>
      BY TriggerEntry
    <2> QED BY <2>1
  <1>4. \A q \in m.provided : q[2] \in {NameOf(et) : et \in m.eventTypes}
    <2> SUFFICES ASSUME NEW q \in Provided(C) PROVE q[2] \in {NameOf(et) : et \in EventTypes(C)}
      BY <1>1
    <2>1. PICK p \in C, et \in EventTypes(C) : q = <<p, NameOf(et)>>
      BY ProvidedEntry
    <2> QED BY <2>1
  <1>5. ASSUME NEW a \in m.eventTypes, NEW b \in m.eventTypes, NameOf(a) = NameOf(b) PROVE a = b
    <2>1. a.ns = b.ns /\ a.name = b.name
      BY <1>5, Names
    <2>2. a \in C /\ b \in C /\ a.group = b.group /\ a.kind = b.kind
      BY <1>1 DEF EventTypes
    <2> QED BY <2>1, <2>2 DEF UniqueKeys, KeyOf, GKNamespacedName
  <1>6. \A S \in {m.brokers, m.subscribables, m.sources} : \A a, b \in S : KeyOf(a) = KeyOf(b) => a = b
    BY <1>1, ListsWithin DEF UniqueKeys
  <1>7. WellFormed(m)
    BY <1>2, <1>3, <1>4, <1>5, <1>6 DEF WellFormed
  <1> QED BY <1>7 DEF m

LEMMA ListedWell ==
  ASSUME NEW C \in SUBSET Objects, UniqueKeys(C)
  PROVE  Listed(C) \subseteq Items /\ E!UniqueKeys(Listed(C))
  BY RestWellFormed, WellFormedWithin, WellFormedUnique DEF Listed

----------------------------------------------------------------------------
(* The inductive invariant. *)

\* The sources read so far, without their types.
SourcesRead == {s[1] : s \in sources}

\* The keys of all items read so far.
ReadKeys == EventKeys(eventTypes) \cup BrokerKeys(brokers) \cup KindKeys(subscribables \cup SourcesRead)

\* The keys of what lasted.
Known == E!Keys(window.lasting)

KindKey(p) == <<TypeOf(p), p.ns, p.name>>

\* No two versions of a source are converted.
SourcesOnce ==
  /\ \A a, b \in SourcesRead : KeyOf(a) = KeyOf(b) => a = b
  /\ pc \in {"brokers", "subscribableCRDs", "subscribables", "sourceCRDs"} => sources = {}
  /\ pc = "sources" =>
       \A crd \in pending : /\ \A s \in SourcesRead : <<s.group, s.kind>> # crd.defines
                            /\ \A d \in pending : d.defines = crd.defines => d = crd

\* What the request sees of the cluster: as long as nothing happens, one version of each item.
Seen ==
  /\ window.lived \subseteq Items
  /\ E!Keys(Listed(cluster)) \subseteq E!Keys(window.lived)
  /\ Known \subseteq E!Keys(Listed(cluster))
  /\ \/ window.lived = E!Versions(Items, window.lived)
     \/ lived = cluster /\ lasting = cluster /\ excused = {} /\ window.lived = Listed(cluster)

\* Of p's kind and key something is read, or its CRD is still to do, or was excused.
Kept(read, todo, p) ==
  \/ excused \cap CRDs(Objects) # {}
  \/ \E crd \in todo : crd.defines = <<p.group, p.kind>>
  \/ KindKey(p) \in KindKeys(read)

\* What lasted, in whatever version, is read.
LastingBrokers == pc \in AfterBrokers => \A k \in Known : k[1] = "broker" => k \in BrokerKeys(brokers)
LastingEventTypes ==
  pc \in AfterEventTypes => \A k \in Known : k[1] = "eventType" => k \in EventKeys(eventTypes)
LastingSubscribables ==
  pc \in {"subscribables"} \cup AfterSubscribables =>
    \A p \in Subscribables(Objects) : KindKey(p) \in Known =>
      Kept(subscribables, IF pc = "subscribables" THEN pending ELSE {}, p)
LastingSources ==
  pc \in {"sources"} \cup AfterSources =>
    \A p \in Sources(Objects) : KindKey(p) \in Known =>
      Kept(SourcesRead, IF pc = "sources" THEN pending ELSE {}, p)

KInv ==
  /\ SourcesOnce
  /\ status = "open" => /\ Seen /\ ReadKeys \subseteq E!Keys(window.lived)
                        /\ LastingBrokers /\ LastingEventTypes /\ LastingSubscribables /\ LastingSources
  /\ ContractKept

----------------------------------------------------------------------------
(* What a request sees. *)

LEMMA ListedKeys ==
  ASSUME NEW C
  PROVE  E!Keys(Listed(C)) =
           EventKeys(EventTypes(C)) \cup BrokerKeys(Brokers(C)) \cup KindKeys(Subscribables(C) \cup Sources(C))
  <1> DEFINE m == MeshOf(C)
  <1>1. /\ m.brokers = Brokers(C) /\ m.subscribables = Subscribables(C) /\ m.sources = Sources(C)
        /\ m.eventTypes = EventTypes(C)
    BY DEF MeshOf
  <1> HIDE DEF m
  <1>2. E!Keys(ItemsOf(m)) = EventKeys(EventTypes(C)) \cup BrokerKeys(Brokers(C)) \cup KindKeys(Subscribables(C) \cup Sources(C))
    BY <1>1, ItemKeys
  <1> QED BY <1>2 DEF m, Listed

\* All versions of what there is.
LEMMA VersionsOf ==
  ASSUME NEW X
  PROVE  /\ E!Versions(Items, X) \subseteq Items
         /\ E!Versions(Items, E!Versions(Items, X)) = E!Versions(Items, X)
         /\ X \subseteq Items => X \subseteq E!Versions(Items, X) /\ E!Keys(X) \subseteq E!Keys(E!Versions(Items, X))
  <1>1. \A i \in E!Versions(Items, X) : i \in Items /\ E!ItemKey(i) \in E!Keys(X)
    BY DEF E!Versions
  <1>2. \A i \in X : E!ItemKey(i) \in E!Keys(X)
    BY DEF E!Keys
  <1>3. X \subseteq Items => X \subseteq E!Versions(Items, X)
    BY <1>2 DEF E!Versions
  <1>4. E!Versions(Items, E!Versions(Items, X)) = E!Versions(Items, X)
    BY <1>1 DEF E!Versions, E!Keys
  <1> QED BY <1>1, <1>3, <1>4 DEF E!Keys

\* A step of the builder within a request leaves what the request has seen, or blurs it.
LEMMA SeenGo ==
  ASSUME IInv, KInv, NEW tolerated, Silently(tolerated), Go, pc # "idle"
  PROVE  /\ status = "open" /\ status' = "open" /\ Seen' /\ Known' = Known
         /\ E!Keys(window.lived) \subseteq E!Keys(window'.lived)
         /\ Seen /\ cluster' = cluster /\ excused' = excused \cup tolerated
         /\ cluster \subseteq Objects /\ UniqueKeys(cluster)
  <1>1. /\ status = "open" /\ status' = "open" /\ excused' = excused \cup tolerated
        /\ UNCHANGED <<cluster, lived, lasting>> /\ Seen
        /\ cluster \subseteq Objects /\ UniqueKeys(cluster)
    BY DEF IInv, TypeOK, KInv, Silently, Window
  <1>2. CASE excused' = excused
    <2>1. window' = window
      BY <1>2 DEF Go
    <2> QED BY <1>1, <1>2, <2>1 DEF Seen, Known
  <1>3. CASE excused' # excused
    <2>1. window'.lived = E!Versions(Items, window.lived) /\ window'.lasting = window.lasting
      BY <1>3 DEF Go, E!Blurred
    <2>2. window.lived \subseteq Items
      BY <1>1 DEF Seen
    <2> QED BY <1>1, <2>1, <2>2, VersionsOf DEF Seen, Known
  <1> QED BY <1>2, <1>3

\* What lasted is listed now, with a CRD that defines it.
LEMMA StillThere ==
  ASSUME Seen, cluster \subseteq Objects
  PROVE  /\ \A k \in Known : k[1] = "broker" => k \in BrokerKeys(Brokers(cluster))
         /\ \A k \in Known : k[1] = "eventType" => k \in EventKeys(EventTypes(cluster))
         /\ \A p \in Subscribables(Objects) : KindKey(p) \in Known =>
              \E q \in Subscribables(cluster) :
                KindKey(q) = KindKey(p) /\ <<q.group, q.kind>> = <<p.group, p.kind>>
         /\ \A p \in Sources(Objects) : KindKey(p) \in Known =>
              \E q \in Sources(cluster) :
                KindKey(q) = KindKey(p) /\ <<q.group, q.kind>> = <<p.group, p.kind>>
  <1>1. Known \subseteq EventKeys(EventTypes(cluster)) \cup BrokerKeys(Brokers(cluster))
                          \cup KindKeys(Subscribables(cluster) \cup Sources(cluster))
    BY ListedKeys DEF Seen
  <1>2. Subscribables(cluster) \subseteq Subscribables(Objects) /\ Sources(cluster) \subseteq Sources(Objects)
    BY ListsMonotone
  <1>3. Subscribables(Objects) \subseteq Objects /\ Sources(Objects) \subseteq Objects
    BY ListsWithin
  <1>4. /\ \A k \in EventKeys(EventTypes(cluster)) : k[1] = "eventType"
        /\ \A k \in BrokerKeys(Brokers(cluster)) : k[1] = "broker"
    BY DEF EventKeys, BrokerKeys
  <1>5. \A k \in KindKeys(Subscribables(cluster) \cup Sources(cluster)) : k[1] # "broker" /\ k[1] # "eventType"
    BY <1>2, <1>3, ObjectTypes DEF KindKeys
  <1>6. ASSUME NEW p \in Subscribables(Objects) \cup Sources(Objects), KindKey(p) \in Known
        PROVE  \E q \in Subscribables(cluster) \cup Sources(cluster) :
                 KindKey(q) = KindKey(p) /\ <<q.group, q.kind>> = <<p.group, p.kind>>
    <2>1. KindKey(p)[1] = TypeOf(p) /\ TypeOf(p) # "broker" /\ TypeOf(p) # "eventType"
      BY <1>3, ObjectTypes DEF KindKey
    <2>2. KindKey(p) \in KindKeys(Subscribables(cluster) \cup Sources(cluster))
      BY <1>1, <1>4, <1>6, <2>1
    <2>3. PICK q \in Subscribables(cluster) \cup Sources(cluster) : KindKey(p) = KindKey(q)
      BY <2>2 DEF KindKeys, KindKey
    <2>4. TypeOf(p) = TypeOf(q)
      BY <2>3 DEF KindKey
    <2> QED BY <1>2, <1>3, <2>3, <2>4, ObjectTypes
  <1>7. /\ \A k \in Known : k[1] = "broker" => k \in BrokerKeys(Brokers(cluster))
        /\ \A k \in Known : k[1] = "eventType" => k \in EventKeys(EventTypes(cluster))
    BY <1>1, <1>4, <1>5
  <1> QED BY <1>2, <1>6, <1>7, RolesApart

\* The instances of a CRD that was listed are listed, as long as its kind is served.
LEMMA ServedListed ==
  ASSUME NEW duck \in {SubscribableDuck, SourceDuck}, NEW crd \in Labelled(Objects, duck),
         Served(crd), cluster \subseteq Objects
  PROVE  \E d \in Labelled(cluster, duck) : Instances(cluster, d) = Instances(cluster, crd)
  <1>1. PICK d \in CRDs(cluster) : d.defines = crd.defines
    BY DEF Served, Serves
  <1>2. d \in CRDs(Objects) /\ crd \in CRDs(Objects) /\ duck \in crd.ducks
    BY ListsMonotone DEF Labelled
  <1>3. d \in Labelled(cluster, duck)
    BY <1>1, <1>2, KindsAssumption DEF Labelled
  <1> QED BY <1>1, <1>3 DEF Instances

----------------------------------------------------------------------------
(* The steps. *)

\* As long as there is no answer, all that is promised is that the cluster lists items.
LEMMA NoAnswer ==
  ASSUME cluster' \subseteq Objects, UniqueKeys(cluster'), status' # "answered"
  PROVE  ContractKept'
  BY ListedWell DEF ContractKept

\* What a step within a request has to show.
LEMMA KInvSilently ==
  ASSUME IInv, KInv, NEW tolerated, Silently(tolerated), Go, pc # "idle", SourcesOnce',
         ReadKeys' \subseteq ReadKeys \cup E!Keys(Listed(cluster)),
         LastingBrokers', LastingEventTypes', LastingSubscribables', LastingSources'
  PROVE  KInv'
  <1>1. /\ status = "open" /\ status' = "open" /\ Seen' /\ Seen
        /\ E!Keys(window.lived) \subseteq E!Keys(window'.lived)
        /\ cluster' = cluster /\ cluster \subseteq Objects /\ UniqueKeys(cluster)
    BY SeenGo
  <1>2. ReadKeys' \subseteq E!Keys(window.lived)'
    BY <1>1 DEF KInv, Seen
  <1>3. ContractKept'
    BY <1>1, NoAnswer
  <1> QED BY <1>1, <1>2, <1>3 DEF KInv

LEMMA KInvListBrokers ==
  ASSUME IInv, KInv, Go, ListBrokers
  PROVE  KInv'
  <1>1. /\ pc = "brokers" /\ pc' = "subscribableCRDs" /\ Silently({}) /\ brokers' = Brokers(cluster)
        /\ UNCHANGED <<pending, subscribables, sources, eventTypes>>
    BY DEF ListBrokers
  <1>2. Seen /\ cluster \subseteq Objects /\ Known' = Known
    BY <1>1, SeenGo
  <1>3. SourcesOnce'
    BY <1>1 DEF KInv, SourcesOnce, SourcesRead
  <1>4. BrokerKeys(Brokers(cluster)) \subseteq E!Keys(Listed(cluster))
    BY ListedKeys
  <1>5. ReadKeys' \subseteq ReadKeys \cup E!Keys(Listed(cluster))
    <2>1. UNCHANGED <<EventKeys(eventTypes), KindKeys(subscribables \cup SourcesRead)>>
      BY <1>1 DEF EventKeys, KindKeys, SourcesRead
    <2>2. BrokerKeys(brokers)' = BrokerKeys(Brokers(cluster))
      BY <1>1 DEF BrokerKeys
    <2> QED BY <1>4, <2>1, <2>2 DEF ReadKeys
  <1>6. LastingBrokers'
    <2>1. BrokerKeys(brokers)' = BrokerKeys(Brokers(cluster))
      BY <1>1 DEF BrokerKeys
    <2> QED BY <1>2, <2>1, StillThere DEF LastingBrokers
  <1>7. LastingEventTypes' /\ LastingSubscribables' /\ LastingSources'
    BY <1>1, StepOrder DEF LastingEventTypes, LastingSubscribables, LastingSources
  <1> QED BY <1>1, <1>3, <1>5, <1>6, <1>7, KInvSilently

\* Listing CRDs: each kind of which something lasted is to do, or was excused.
LEMMA KeptCRDs ==
  ASSUME Seen, cluster \subseteq Objects, Known' = Known, NEW duck \in {SubscribableDuck, SourceDuck},
         NEW P, P = IF duck = SubscribableDuck THEN Subscribables(Objects) ELSE Sources(Objects),
         \/ pending' = Labelled(cluster, duck)
         \/ excused' = excused \cup CRDs(Objects),
         NEW p \in P, KindKey(p) \in Known'
  PROVE  excused' \cap CRDs(Objects) # {} \/ \E crd \in pending' : crd.defines = <<p.group, p.kind>>
  <1>1. p \in UNION {Instances(Objects, crd) : crd \in Labelled(Objects, duck)}
    BY DEF Subscribables, Sources, SubscribableDuck, SourceDuck
  <1>2. \E crd \in CRDs(Objects) : TRUE
    BY <1>1 DEF Labelled
  <1>3. CASE pending' = Labelled(cluster, duck)
    <2>1. PICK q \in UNION {Instances(cluster, crd) : crd \in Labelled(cluster, duck)} :
            <<q.group, q.kind>> = <<p.group, p.kind>>
      <3>1. CASE duck = SubscribableDuck
        <4>1. \E q \in Subscribables(cluster) : <<q.group, q.kind>> = <<p.group, p.kind>>
          BY <3>1, StillThere
        <4> QED BY <3>1, <4>1 DEF Subscribables
      <3>2. CASE duck = SourceDuck
        <4>1. \E q \in Sources(cluster) : <<q.group, q.kind>> = <<p.group, p.kind>>
          BY <3>2, StillThere DEF SubscribableDuck, SourceDuck
        <4> QED BY <3>2, <4>1 DEF Sources
      <3> QED BY <3>1, <3>2
    <2>2. PICK crd \in Labelled(cluster, duck) : q \in Instances(cluster, crd)
      BY <2>1
    <2>3. <<q.group, q.kind>> = crd.defines
      BY <2>2 DEF Instances
    <2> QED BY <1>3, <2>1, <2>2, <2>3
  <1> QED BY <1>2, <1>3

LEMMA KInvListSubscribableCRDs ==
  ASSUME IInv, KInv, Go, ListSubscribableCRDs
  PROVE  KInv'
  <1>1. PICK tolerated :
          /\ pc = "subscribableCRDs" /\ pc' = IF pending' = {} THEN "sourceCRDs" ELSE "subscribables"
          /\ Silently(tolerated) /\ UNCHANGED <<brokers, subscribables, sources, eventTypes>>
          /\ pending' = Labelled(cluster, SubscribableDuck) \/ tolerated = CRDs(Objects)
    BY DEF ListSubscribableCRDs, ListCRDs, Loop
  <1>2. /\ Seen /\ cluster \subseteq Objects /\ Known' = Known /\ status = "open"
        /\ excused' = excused \cup tolerated
    BY <1>1, SeenGo
  <1>3. SourcesOnce'
    BY <1>1 DEF KInv, SourcesOnce, SourcesRead
  <1>4. ReadKeys' = ReadKeys
    BY <1>1 DEF ReadKeys, EventKeys, BrokerKeys, KindKeys, SourcesRead
  <1>5. LastingBrokers'
    BY <1>1, <1>2, StepOrder DEF KInv, LastingBrokers, BrokerKeys
  <1>6. LastingEventTypes' /\ LastingSources'
    BY <1>1, StepOrder DEF LastingEventTypes, LastingSources
  <1>7. LastingSubscribables'
    <2> SUFFICES ASSUME NEW p \in Subscribables(Objects), KindKey(p) \in Known'
                 PROVE  excused' \cap CRDs(Objects) # {}
                          \/ \E crd \in IF pc' = "subscribables" THEN pending' ELSE {} : crd.defines = <<p.group, p.kind>>
      BY DEF LastingSubscribables, Kept, KindKey
    <2>1. excused' \cap CRDs(Objects) # {} \/ \E crd \in pending' : crd.defines = <<p.group, p.kind>>
      BY <1>1, <1>2, KeptCRDs
    <2> QED BY <1>1, <2>1
  <1> QED BY <1>1, <1>3, <1>4, <1>5, <1>6, <1>7, KInvSilently

LEMMA KInvListSourceCRDs ==
  ASSUME IInv, KInv, Go, ListSourceCRDs
  PROVE  KInv'
  <1>1. PICK tolerated :
          /\ pc = "sourceCRDs" /\ pc' = IF pending' = {} THEN "eventTypes" ELSE "sources"
          /\ Silently(tolerated) /\ UNCHANGED <<brokers, subscribables, sources, eventTypes>>
          /\ \/ pending' = Labelled(cluster, SourceDuck)
             \/ pending' = {} /\ tolerated = CRDs(Objects)
    BY DEF ListSourceCRDs, ListCRDs, Loop
  <1>2. /\ Seen /\ cluster \subseteq Objects /\ Known' = Known /\ status = "open"
        /\ excused' = excused \cup tolerated /\ UniqueKeys(cluster)
    BY <1>1, SeenGo
  <1>3. SourcesOnce'
    <2>1. sources = {} /\ SourcesRead' = {}
      BY <1>1 DEF KInv, SourcesOnce, SourcesRead
    <2>2. ASSUME NEW c \in pending', NEW d \in pending', c.defines = d.defines PROVE c = d
      <3>1. c \in cluster /\ d \in cluster /\ c \in CRDs(Objects) /\ d \in CRDs(Objects)
        BY <1>1, <1>2 DEF Labelled, CRDs
      <3> QED BY <1>2, <2>2, <3>1, KindsAssumption DEF UniqueKeys
    <2> QED BY <1>1, <2>1, <2>2 DEF SourcesOnce
  <1>4. ReadKeys' = ReadKeys
    BY <1>1 DEF ReadKeys, EventKeys, BrokerKeys, KindKeys, SourcesRead
  <1>5. LastingBrokers'
    BY <1>1, <1>2, StepOrder DEF KInv, LastingBrokers, BrokerKeys
  <1>6. LastingEventTypes'
    BY <1>1, StepOrder DEF LastingEventTypes
  <1>7. LastingSubscribables'
    BY <1>1, <1>2, StepOrder DEF KInv, LastingSubscribables, Kept, KindKeys, KindKey
  <1>8. LastingSources'
    <2> SUFFICES ASSUME NEW p \in Sources(Objects), KindKey(p) \in Known'
                 PROVE  excused' \cap CRDs(Objects) # {}
                          \/ \E crd \in IF pc' = "sources" THEN pending' ELSE {} : crd.defines = <<p.group, p.kind>>
      BY DEF LastingSources, Kept, KindKey
    <2>1. excused' \cap CRDs(Objects) # {} \/ \E crd \in pending' : crd.defines = <<p.group, p.kind>>
      BY <1>1, <1>2, KeptCRDs DEF SubscribableDuck, SourceDuck
    <2> QED BY <1>1, <2>1
  <1> QED BY <1>1, <1>3, <1>4, <1>5, <1>6, <1>7, <1>8, KInvSilently

\* Reading the instances of a CRD: of its kind, what lasted is read.
LEMMA KeptInstances ==
  ASSUME Seen, cluster \subseteq Objects, Defined(cluster),
         NEW duck \in {SubscribableDuck, SourceDuck},
         NEW crd \in Labelled(Objects, duck), NEW tolerated, excused' = excused \cup tolerated,
         NEW P, P = IF duck = SubscribableDuck THEN Subscribables(Objects) ELSE Sources(Objects),
         NEW read, NEW more, NEW read2, read2 = read \cup more,
         crd \in tolerated \/ ~Served(crd) \/ more = Instances(cluster, crd),
         NEW todo, NEW todo2, todo2 = todo \ {crd},
         NEW p \in P, KindKey(p) \in Known, Kept(read, todo, p)
  PROVE  \/ excused' \cap CRDs(Objects) # {}
         \/ \E c \in todo2 : c.defines = <<p.group, p.kind>>
         \/ KindKey(p) \in KindKeys(read2)
  <1>1. CASE excused \cap CRDs(Objects) # {}
    BY <1>1
  <1>2. CASE KindKey(p) \in KindKeys(read)
    BY <1>2 DEF KindKeys
  <1>3. CASE \E c \in todo2 : c.defines = <<p.group, p.kind>>
    BY <1>3
  <1>4. CASE crd.defines = <<p.group, p.kind>>
    <2>1. PICK q \in UNION {Instances(cluster, c) : c \in Labelled(cluster, duck)} :
            KindKey(q) = KindKey(p) /\ <<q.group, q.kind>> = <<p.group, p.kind>>
      <3>1. CASE duck = SubscribableDuck
        <4>1. \E q \in Subscribables(cluster) : KindKey(q) = KindKey(p) /\ <<q.group, q.kind>> = <<p.group, p.kind>>
          BY <3>1, StillThere
        <4> QED BY <3>1, <4>1 DEF Subscribables
      <3>2. CASE duck = SourceDuck
        <4>1. \E q \in Sources(cluster) : KindKey(q) = KindKey(p) /\ <<q.group, q.kind>> = <<p.group, p.kind>>
          BY <3>2, StillThere DEF SubscribableDuck, SourceDuck
        <4> QED BY <3>2, <4>1 DEF Sources
      <3> QED BY <3>1, <3>2
    <2>2. PICK d \in Labelled(cluster, duck) : q \in Instances(cluster, d)
      BY <2>1
    <2>3. q \in cluster /\ d.defines = crd.defines /\ d \in CRDs(cluster)
      BY <1>4, <2>1, <2>2 DEF Instances, Labelled
    <2>4. q \in Instances(cluster, crd)
      BY <1>4, <2>1, <2>3 DEF Instances
    <2>5. crd \in CRDs(Objects)
      BY DEF Labelled
    <2>6. Served(crd)
      BY <2>4, <2>5 DEF Served, Defined
    <2>7. CASE crd \in tolerated
      BY <2>5, <2>7
    <2>8. CASE more = Instances(cluster, crd)
      <3>1. q \in read2
        BY <2>4, <2>8
      <3> QED BY <2>1, <3>1 DEF KindKeys, KindKey
    <2> QED BY <2>6, <2>7, <2>8
  <1> QED BY <1>1, <1>2, <1>3, <1>4 DEF Kept

LEMMA KInvListSubscribables ==
  ASSUME IInv, KInv, Go, NEW crd \in pending, ListSubscribables(crd)
  PROVE  KInv'
  <1>1. /\ pc = "subscribables" /\ pending' = pending \ {crd}
        /\ pc' = IF pending' = {} THEN "sourceCRDs" ELSE "subscribables"
        /\ UNCHANGED <<brokers, sources, eventTypes>>
    BY DEF ListSubscribables, Loop
  <1>2. PICK tolerated, more :
          /\ Silently(tolerated) /\ subscribables' = subscribables \cup more
          /\ \/ Served(crd) /\ more = Instances(cluster, crd)
             \/ more = {} /\ (crd \in tolerated \/ ~Served(crd))
    <2>1. CASE Served(crd) /\ Silently({}) /\ subscribables' = subscribables \cup Instances(cluster, crd)
      <3> WITNESS {}, Instances(cluster, crd)
      <3> QED BY <2>1
    <2>2. CASE Silently({}) /\ ~Served(crd) /\ UNCHANGED subscribables
      <3> WITNESS {}, {}
      <3> QED BY <2>2
    <2>3. CASE Silently({crd}) /\ UNCHANGED subscribables
      <3> WITNESS {crd}, {}
      <3> QED BY <2>3
    <2> QED BY <2>1, <2>2, <2>3 DEF ListSubscribables
  <1>3. /\ Seen /\ cluster \subseteq Objects /\ Known' = Known /\ status = "open"
        /\ excused' = excused \cup tolerated
    BY <1>1, <1>2, SeenGo
  <1>4. crd \in Labelled(Objects, SubscribableDuck)
    BY <1>1, ListsMonotone DEF IInv, PendingListed, TypeOK
  <1>5. SourcesOnce'
    BY <1>1 DEF KInv, SourcesOnce, SourcesRead
  <1>6. more \subseteq Subscribables(cluster)
    BY <1>2, <1>3, <1>4, ServedListed DEF Subscribables
  <1>7. ReadKeys' \subseteq ReadKeys \cup E!Keys(Listed(cluster))
    <2>1. UNCHANGED <<EventKeys(eventTypes), BrokerKeys(brokers), SourcesRead>>
      BY <1>1 DEF EventKeys, BrokerKeys, SourcesRead
    <2>2. KindKeys(subscribables \cup SourcesRead)' \subseteq KindKeys(subscribables \cup SourcesRead) \cup KindKeys(Subscribables(cluster) \cup Sources(cluster))
      BY <1>2, <1>6, <2>1 DEF KindKeys
    <2> QED BY <2>1, <2>2, ListedKeys DEF ReadKeys
  <1>8. LastingBrokers'
    BY <1>1, <1>3, StepOrder DEF KInv, LastingBrokers, BrokerKeys
  <1>9. LastingEventTypes' /\ LastingSources'
    BY <1>1, StepOrder DEF LastingEventTypes, LastingSources
  <1>10. LastingSubscribables'
    <2> SUFFICES ASSUME NEW p \in Subscribables(Objects), KindKey(p) \in Known
                 PROVE  \/ excused' \cap CRDs(Objects) # {}
                        \/ \E c \in IF pc' = "subscribables" THEN pending' ELSE {} : c.defines = <<p.group, p.kind>>
                        \/ KindKey(p) \in KindKeys(subscribables')
      BY <1>3 DEF LastingSubscribables, Kept, KindKey, KindKeys
    <2>0. Defined(cluster)
      BY DEF IInv, Window
    <2>1. Kept(subscribables, pending, p)
      BY <1>1, <1>3 DEF KInv, LastingSubscribables
    <2>2. \/ excused' \cap CRDs(Objects) # {}
          \/ \E c \in pending' : c.defines = <<p.group, p.kind>>
          \/ KindKey(p) \in KindKeys(subscribables')
      BY <1>1, <1>2, <1>3, <1>4, <2>1, <2>0, KeptInstances
    <2> QED BY <1>1, <2>2
  <1> QED BY <1>1, <1>2, <1>5, <1>7, <1>8, <1>9, <1>10, KInvSilently

LEMMA KInvListSources ==
  ASSUME IInv, KInv, Go, NEW crd \in pending, ListSources(crd)
  PROVE  KInv'
  <1>1. /\ pc = "sources" /\ pending' = pending \ {crd}
        /\ pc' = IF pending' = {} THEN "eventTypes" ELSE "sources"
        /\ UNCHANGED <<brokers, subscribables, eventTypes>>
    BY DEF ListSources, Loop
  <1>2. PICK tolerated, more :
          /\ Silently(tolerated) /\ SourcesRead' = SourcesRead \cup more
          /\ \/ Served(crd) /\ more = Instances(cluster, crd)
             \/ more = {} /\ (crd \in tolerated \/ ~Served(crd))
    <2>1. CASE /\ Served(crd) /\ Silently({})
               /\ sources' = sources \cup {ConvertSource(s, crd) : s \in Instances(cluster, crd)}
      <3>1. SourcesRead' = SourcesRead \cup Instances(cluster, crd)
        <4> DEFINE I == Instances(cluster, crd)
                   t == crd.types
                   more == {<<s, t>> : s \in I}
        <4>1. sources' = sources \cup more
          BY <2>1 DEF ConvertSource
        <4> HIDE DEF I, t
        <4>2. ASSUME NEW z \in more PROVE z[1] \in I
          OBVIOUS
        <4>3. ASSUME NEW y \in I PROVE \E z \in more : z[1] = y
          <5>1. <<y, t>> \in more /\ <<y, t>>[1] = y
            OBVIOUS
          <5> QED BY <5>1
        <4> HIDE DEF more
        <4>4. SourcesRead' = SourcesRead \cup I
          BY <4>1, <4>2, <4>3 DEF SourcesRead
        <4> QED BY <4>4 DEF I
      <3> WITNESS {}, Instances(cluster, crd)
      <3> QED BY <2>1, <3>1
    <2>2. CASE Silently({}) /\ ~Served(crd) /\ UNCHANGED sources
      <3> WITNESS {}, {}
      <3> QED BY <2>2 DEF SourcesRead
    <2>3. CASE Silently({crd}) /\ UNCHANGED sources
      <3> WITNESS {crd}, {}
      <3> QED BY <2>3 DEF SourcesRead
    <2> QED BY <2>1, <2>2, <2>3 DEF ListSources
  <1>3. /\ Seen /\ cluster \subseteq Objects /\ Known' = Known /\ status = "open"
        /\ excused' = excused \cup tolerated /\ UniqueKeys(cluster)
    BY <1>1, <1>2, SeenGo
  <1>4. crd \in Labelled(Objects, SourceDuck)
    BY <1>1, ListsMonotone DEF IInv, PendingListed, TypeOK
  <1>5. SourcesOnce'
    <2>1. \A s \in more : s \in cluster /\ <<s.group, s.kind>> = crd.defines
      BY <1>2 DEF Instances
    <2>2. /\ \A a, b \in SourcesRead : KeyOf(a) = KeyOf(b) => a = b
          /\ \A c \in pending : /\ \A s \in SourcesRead : <<s.group, s.kind>> # c.defines
                                /\ \A d \in pending : d.defines = c.defines => d = c
      BY <1>1 DEF KInv, SourcesOnce
    <2>3. \A a, b : KeyOf(a) = KeyOf(b) => <<a.group, a.kind>> = <<b.group, b.kind>>
      BY DEF KeyOf, GKNamespacedName
    <2>4. ASSUME NEW a \in SourcesRead', NEW b \in SourcesRead', KeyOf(a) = KeyOf(b) PROVE a = b
      <3>1. CASE a \in SourcesRead /\ b \in SourcesRead
        BY <2>2, <2>4, <3>1
      <3>2. CASE a \in more /\ b \in more
        BY <1>3, <2>1, <2>4, <3>2 DEF UniqueKeys
      <3>3. <<a.group, a.kind>> = <<b.group, b.kind>>
        BY <2>3, <2>4
      <3> QED BY <1>2, <2>1, <2>2, <3>1, <3>2, <3>3
    <2>5. ASSUME NEW c \in pending', NEW s \in SourcesRead' PROVE <<s.group, s.kind>> # c.defines
      <3>1. c \in pending /\ c # crd /\ c.defines # crd.defines
        BY <1>1, <2>2
      <3> QED BY <1>2, <2>1, <2>2, <3>1
    <2> QED BY <1>1, <2>2, <2>4, <2>5 DEF SourcesOnce
  <1>6. more \subseteq Sources(cluster)
    BY <1>2, <1>3, <1>4, ServedListed DEF Sources
  <1>7. ReadKeys' \subseteq ReadKeys \cup E!Keys(Listed(cluster))
    <2>1. UNCHANGED <<EventKeys(eventTypes), BrokerKeys(brokers), subscribables>>
      BY <1>1 DEF EventKeys, BrokerKeys
    <2>2. KindKeys(subscribables \cup SourcesRead)' \subseteq KindKeys(subscribables \cup SourcesRead) \cup KindKeys(Subscribables(cluster) \cup Sources(cluster))
      BY <1>2, <1>6, <2>1 DEF KindKeys
    <2> QED BY <2>1, <2>2, ListedKeys DEF ReadKeys
  <1>8. LastingBrokers'
    BY <1>1, <1>3, StepOrder DEF KInv, LastingBrokers, BrokerKeys
  <1>9. LastingEventTypes'
    BY <1>1, StepOrder DEF LastingEventTypes
  <1>10. LastingSubscribables'
    BY <1>1, <1>3, StepOrder DEF KInv, LastingSubscribables, Kept, KindKeys, KindKey
  <1>11. LastingSources'
    <2> SUFFICES ASSUME NEW p \in Sources(Objects), KindKey(p) \in Known
                 PROVE  \/ excused' \cap CRDs(Objects) # {}
                        \/ \E c \in IF pc' = "sources" THEN pending' ELSE {} : c.defines = <<p.group, p.kind>>
                        \/ KindKey(p) \in KindKeys(SourcesRead')
      BY <1>3 DEF LastingSources, Kept, KindKey, KindKeys
    <2>0. Defined(cluster)
      BY DEF IInv, Window
    <2>1. Kept(SourcesRead, pending, p)
      BY <1>1, <1>3 DEF KInv, LastingSources
    <2>2. \/ excused' \cap CRDs(Objects) # {}
          \/ \E c \in pending' : c.defines = <<p.group, p.kind>>
          \/ KindKey(p) \in KindKeys(SourcesRead')
      BY <1>1, <1>2, <1>3, <1>4, <2>1, <2>0, KeptInstances DEF SubscribableDuck, SourceDuck
    <2> QED BY <1>1, <2>2
  <1> QED BY <1>1, <1>2, <1>5, <1>7, <1>8, <1>9, <1>10, <1>11, KInvSilently

LEMMA KInvListEventTypes ==
  ASSUME IInv, KInv, Go, ListEventTypes
  PROVE  KInv'
  <1>1. /\ pc = "eventTypes" /\ pc' = "triggers" /\ Silently({}) /\ eventTypes' = EventTypes(cluster)
        /\ UNCHANGED <<pending, brokers, subscribables, sources>>
    BY DEF ListEventTypes
  <1>2. Seen /\ cluster \subseteq Objects /\ Known' = Known /\ status = "open" /\ excused' = excused
    BY <1>1, SeenGo
  <1>3. SourcesOnce'
    BY <1>1 DEF KInv, SourcesOnce, SourcesRead
  <1>4. ReadKeys' \subseteq ReadKeys \cup E!Keys(Listed(cluster))
    <2>1. UNCHANGED <<BrokerKeys(brokers), KindKeys(subscribables \cup SourcesRead)>>
      BY <1>1 DEF BrokerKeys, KindKeys, SourcesRead
    <2>2. EventKeys(eventTypes)' = EventKeys(EventTypes(cluster))
      BY <1>1 DEF EventKeys
    <2> QED BY <2>1, <2>2, ListedKeys DEF ReadKeys
  <1>5. LastingBrokers'
    BY <1>1, <1>2, StepOrder DEF KInv, LastingBrokers, BrokerKeys
  <1>6. LastingEventTypes'
    <2>1. EventKeys(eventTypes)' = EventKeys(EventTypes(cluster))
      BY <1>1 DEF EventKeys
    <2> QED BY <1>2, <2>1, StillThere DEF LastingEventTypes
  <1>7. LastingSubscribables'
    BY <1>1, <1>2, StepOrder DEF KInv, LastingSubscribables, Kept, KindKeys, KindKey
  <1>8. LastingSources'
    BY <1>1, <1>2, StepOrder DEF KInv, LastingSources, SourcesRead, Kept, KindKeys, KindKey
  <1> QED BY <1>1, <1>3, <1>4, <1>5, <1>6, <1>7, <1>8, KInvSilently

\* Past the event types nothing is listed any more.
LEMMA KInvPast ==
  ASSUME IInv, KInv, Go, NEW tolerated, Silently(tolerated),
         pc \in AfterEventTypes, pc' \in AfterEventTypes, UNCHANGED <<brokers, subscribables, sources, eventTypes>>
  PROVE  KInv'
  <1>1. /\ {pc, pc'} \subseteq AfterSources /\ {pc, pc'} \subseteq AfterSubscribables
        /\ {pc, pc'} \subseteq AfterBrokers /\ pc # "idle"
        /\ {pc, pc'} \cap {"brokers", "subscribableCRDs", "subscribables", "sourceCRDs", "sources"} = {}
    BY StepOrder
  <1>2. Seen /\ cluster \subseteq Objects /\ Known' = Known /\ status = "open" /\ excused \subseteq excused'
    BY <1>1, SeenGo
  <1>3. SourcesOnce'
    BY <1>1 DEF KInv, SourcesOnce, SourcesRead
  <1>4. ReadKeys' = ReadKeys
    BY DEF ReadKeys, EventKeys, BrokerKeys, KindKeys, SourcesRead
  <1>5. LastingBrokers' /\ LastingEventTypes'
    BY <1>1, <1>2 DEF KInv, LastingBrokers, BrokerKeys, LastingEventTypes, EventKeys
  <1>6. LastingSubscribables'
    BY <1>1, <1>2 DEF KInv, LastingSubscribables, Kept, KindKeys, KindKey
  <1>7. LastingSources'
    BY <1>1, <1>2 DEF KInv, LastingSources, SourcesRead, Kept, KindKeys, KindKey
  <1> QED BY <1>1, <1>3, <1>4, <1>5, <1>6, <1>7, KInvSilently

LEMMA KInvOthers ==
  ASSUME IInv, KInv, Go,
         \/ ListTriggers \/ ListSubscriptions
         \/ \E o \in pending : \/ ProcessTrigger(o) \/ SkipTrigger(o)
                               \/ ProcessSubscription(o) \/ SkipSubscription(o)
  PROVE  KInv'
  <1>1. /\ {pc, pc'} \subseteq {"triggers", "eachTrigger", "subscriptions", "eachSubscription", "output"}
        /\ UNCHANGED <<brokers, subscribables, sources, eventTypes>>
        /\ \E tolerated : Silently(tolerated)
    BY DEF ListTriggers, ListSubscriptions, ProcessTrigger, SkipTrigger, ProcessSubscription, SkipSubscription, Loop
  <1>2. {pc, pc'} \subseteq AfterEventTypes
    BY <1>1, StepOrder
  <1> QED BY <1>1, <1>2, KInvPast

\* Between requests there is nothing but the answer.
LEMMA KInvIdle ==
  ASSUME NoLocals', status' # "open", pc' = "idle", ContractKept'
  PROVE  KInv'
  <1>1. SourcesOnce'
    BY DEF NoLocals, SourcesOnce, SourcesRead
  <1> QED BY <1>1 DEF KInv

LEMMA KInvFail ==
  ASSUME IInv, ListError \/ UnusableCRD \/ UnreadableTypes \/ SubscriberError
  PROVE  KInv'
  <1>1. NoLocals' /\ status' = "failed" /\ pc' = "idle" /\ cluster' = cluster
    BY DEF ListError, UnusableCRD, UnreadableTypes, SubscriberError, Fail, Forget, NoLocals
  <1>2. cluster' \subseteq Objects /\ UniqueKeys(cluster')
    BY <1>1 DEF IInv, TypeOK, Window
  <1> QED BY <1>1, <1>2, NoAnswer, KInvIdle

----------------------------------------------------------------------------
(* The answer. *)

\* What Output answers.
LEMMA OutputParts ==
  ASSUME Output
  PROVE  /\ mesh'.brokers = brokers /\ mesh'.subscribables = subscribables /\ mesh'.sources = SourcesRead
         /\ mesh'.eventTypes = eventTypes /\ mesh'.provided = provided /\ mesh'.consumed = consumed
         /\ mesh' = [brokers |-> brokers, subscribables |-> subscribables, sources |-> SourcesRead,
                     eventTypes |-> eventTypes, provided |-> provided, consumed |-> consumed]
  <1>1. mesh' = [brokers |-> brokers, subscribables |-> subscribables, sources |-> SourcesRead,
                 eventTypes |-> eventTypes, provided |-> provided, consumed |-> consumed]
    BY DEF Output, SourcesRead
  <1> QED BY <1>1

LEMMA OutputWellFormed ==
  ASSUME IInv, CInv, KInv, Output
  PROVE  WellFormed(mesh')
  <1>1. AnswerClosed'
    BY ClosedOutput DEF CInv
  <1>2. lived \subseteq Objects
    BY DEF IInv, TypeOK
  <1>3. /\ brokers \subseteq Brokers(Objects) /\ subscribables \subseteq Subscribables(Objects)
        /\ eventTypes \subseteq EventTypes(Objects)
    BY <1>2, ListsMonotone DEF IInv, ReadsJustified
  <1>4. SourcesRead \subseteq Sources(Objects)
    <2>1. SourcesRead \subseteq Sources(lived)
      BY DEF SourcesRead, IInv, ReadsJustified, Sources
    <2> QED BY <1>2, <2>1, ListsMonotone
  <1>5. ASSUME NEW c \in consumed PROVE c[2] \in {BackstageId(o) : o \in Objects}
    <2>1. PICK t \in Triggers(lived), et \in EventTypes(lived), s \in lived : c = <<NameOf(et), BackstageId(s), t>>
      BY TriggerEntry DEF IInv, ReadsJustified
    <2> QED BY <1>2, <2>1
  <1>6. \A q \in mesh'.provided : q[2] \in {NameOf(et) : et \in mesh'.eventTypes}
    BY <1>1 DEF AnswerClosed
  <1>7. \A S \in {brokers, subscribables, SourcesRead} : \A a, b \in S : KeyOf(a) = KeyOf(b) => a = b
    BY DEF CInv, KeyedOnce, KInv, SourcesOnce
  <1>8. \A a, b \in eventTypes : NameOf(a) = NameOf(b) => a = b
    BY DEF IInv, ReadsJustified
  <1> QED BY <1>3, <1>4, <1>5, <1>6, <1>7, <1>8, OutputParts DEF WellFormed

\* When nothing happened meanwhile, the answer is the cluster's mesh.
LEMMA OutputStill ==
  ASSUME IInv, Output, lived = cluster, lasting = cluster, excused = {}
  PROVE  mesh' = MeshOf(cluster)
  <1>1. Justified(mesh', cluster) /\ Shows(mesh', cluster)
    BY OutputRegular DEF Owed
  <1>2. consumed \subseteq ConsumedByTriggers(cluster)
    BY DEF IInv, ReadsJustified
  <1>3. /\ brokers = Brokers(cluster) /\ subscribables = Subscribables(cluster) /\ SourcesRead = Sources(cluster)
        /\ eventTypes = EventTypes(cluster) /\ provided = Provided(cluster) /\ consumed = ConsumedByTriggers(cluster)
    BY <1>1, <1>2, OutputParts DEF Justified, Shows
  <1> QED BY <1>3, OutputParts DEF MeshOf

LEMMA KInvOutput ==
  ASSUME IInv, CInv, KInv, Go, Output
  PROVE  KInv'
  <1>1. /\ pc = "output" /\ status = "open" /\ status' = "answered" /\ pc' = "idle" /\ NoLocals'
        /\ UNCHANGED <<cluster, excused>> /\ window' = window
    BY DEF Output, Forget, NoLocals, Go, IInv, TypeOK
  <1>2. cluster \subseteq Objects /\ UniqueKeys(cluster)
    BY DEF IInv, TypeOK, Window
  <1>3. Seen /\ ReadKeys \subseteq E!Keys(window.lived)
    BY <1>1 DEF KInv
  <1>4. WellFormed(mesh')
    BY OutputWellFormed
  <1>5. E!Keys(ItemsOf(mesh')) = ReadKeys
    BY ItemKeys, OutputParts DEF ReadKeys
  <1>6. ItemsOf(mesh') \subseteq window.lived
    <2>1. CASE window.lived = E!Versions(Items, window.lived)
      <3>1. \A i \in ItemsOf(mesh') : i \in Items /\ E!ItemKey(i) \in E!Keys(window.lived)
        BY <1>3, <1>4, <1>5, WellFormedWithin DEF E!Keys
      <3>2. ItemsOf(mesh') \subseteq E!Versions(Items, window.lived)
        BY <3>1 DEF E!Versions
      <3> QED BY <2>1, <3>2
    <2>2. CASE lived = cluster /\ lasting = cluster /\ excused = {} /\ window.lived = Listed(cluster)
      BY <2>2, OutputStill DEF Listed
    <2> QED BY <1>3, <2>1, <2>2 DEF Seen
  <1>7. ASSUME excused \cap CRDs(Objects) = {}, NEW k \in Known PROVE k \in ReadKeys
    <2>1. pc \in AfterEventTypes /\ pc \in AfterSources /\ pc \in AfterSubscribables /\ pc \in AfterBrokers
      BY <1>1, StepOrder
    <2>2. PICK i \in Items : k = E!ItemKey(i)
      BY <1>2, <1>3, ListedWell DEF Seen, E!Keys
    <2>3. CASE k[1] \in {"eventType", "broker"}
      BY <1>1, <2>1, <2>3 DEF KInv, LastingBrokers, LastingEventTypes, ReadKeys
    <2>4. ASSUME NEW p \in Subscribables(Objects), k = KindKey(p) PROVE k \in ReadKeys
      <3>1. Kept(subscribables, {}, p)
        BY <1>1, <1>7, <2>1, <2>4 DEF KInv, LastingSubscribables
      <3> QED BY <1>7, <2>4, <3>1 DEF Kept, KindKeys, ReadKeys
    <2>5. ASSUME NEW p \in Sources(Objects), k = KindKey(p) PROVE k \in ReadKeys
      <3>1. Kept(SourcesRead, {}, p)
        BY <1>1, <1>7, <2>1, <2>5 DEF KInv, LastingSources
      <3> QED BY <1>7, <2>5, <3>1 DEF Kept, KindKeys, ReadKeys
    <2> QED BY <2>2, <2>3, <2>4, <2>5, ItemsTypes DEF KindKey
  <1>8. ContractKept'
    BY <1>1, <1>2, <1>4, <1>5, <1>6, <1>7, ListedWell, WellFormedUnique, WellFormedClosed DEF ContractKept, Known
  <1> QED BY <1>1, <1>8, KInvIdle

LEMMA KInvGo ==
  ASSUME IInv, CInv, KInv, Go
  PROVE  KInv'
  <1>1. Build
    BY DEF Go
  <1>2. CASE ListBrokers \/ ListSubscribableCRDs \/ ListSourceCRDs \/ ListEventTypes \/ Output
    BY <1>2, KInvListBrokers, KInvListSubscribableCRDs, KInvListSourceCRDs, KInvListEventTypes, KInvOutput
  <1>3. CASE \E crd \in pending : ListSubscribables(crd) \/ ListSources(crd)
    BY <1>3, KInvListSubscribables, KInvListSources
  <1>4. CASE ListTriggers \/ ListSubscriptions \/ \E o \in pending : \/ ProcessTrigger(o) \/ SkipTrigger(o)
                                                                    \/ ProcessSubscription(o) \/ SkipSubscription(o)
    BY <1>4, KInvOthers
  <1>5. CASE ListError \/ UnusableCRD \/ UnreadableTypes \/ SubscriberError
    BY <1>5, KInvFail
  <1> QED BY <1>1, <1>2, <1>3, <1>4, <1>5 DEF Build

----------------------------------------------------------------------------
(* The theorems. *)

\* A change of the cluster: what lasted is listed still, and of all that was there any
\* version may be in the answer.
LEMMA KInvSee ==
  ASSUME IInv, KInv, IInv', See
  PROVE  KInv'
  <1>1. UNCHANGED <<status, mesh, excused, pc, pending, brokers, subscribables, sources, eventTypes>>
    BY ChangeSeen DEF See, locals, IInv, TypeOK
  <1>2. cluster' \subseteq Objects /\ UniqueKeys(cluster')
    BY DEF IInv, TypeOK, Window
  <1>3. Listed(cluster') \subseteq Items /\ E!UniqueKeys(Listed(cluster'))
    BY <1>2, ListedWell
  <1>4. SourcesOnce' /\ ReadKeys' = ReadKeys
    BY <1>1 DEF KInv, SourcesOnce, SourcesRead, ReadKeys, EventKeys, BrokerKeys, KindKeys
  <1>5. CASE status # "open"
    <2>1. window' = window
      BY <1>5 DEF See
    <2>2. ContractKept'
      BY <1>1, <1>3, <2>1 DEF KInv, ContractKept
    <2> QED BY <1>1, <1>4, <1>5, <2>2 DEF KInv
  <1>6. CASE status = "open"
    <2> DEFINE seen == window.lived \cup Listed(cluster')
    <2>1. /\ window'.lived = E!Versions(Items, seen)
          /\ window'.lasting = {i \in window.lasting : E!ItemKey(i) \in E!Keys(Listed(cluster'))}
      BY <1>6 DEF See, E!Widened
    <2>2. Seen /\ ReadKeys \subseteq E!Keys(window.lived)
      BY <1>6 DEF KInv
    <2>3. seen \subseteq Items /\ E!Keys(window.lived) \subseteq E!Keys(seen) /\ E!Keys(Listed(cluster')) \subseteq E!Keys(seen)
      BY <1>3, <2>2 DEF Seen, E!Keys
    <2>4. Known' \subseteq Known /\ Known' \subseteq E!Keys(Listed(cluster'))
      BY <2>1 DEF Known, E!Keys
    <2> HIDE DEF seen
    <2>5. Seen' /\ ReadKeys' \subseteq E!Keys(window.lived)'
      BY <1>4, <2>1, <2>2, <2>3, <2>4, VersionsOf DEF Seen
    <2>6. LastingBrokers' /\ LastingEventTypes'
      BY <1>1, <1>6, <2>4 DEF KInv, LastingBrokers, LastingEventTypes, BrokerKeys, EventKeys
    <2>7. LastingSubscribables'
      BY <1>1, <1>6, <2>4 DEF KInv, LastingSubscribables, Kept, KindKeys, KindKey
    <2>8. LastingSources'
      BY <1>1, <1>6, <2>4 DEF KInv, LastingSources, SourcesRead, Kept, KindKeys, KindKey
    <2>9. ContractKept'
      BY <1>1, <1>2, <1>6, NoAnswer
    <2> QED BY <1>4, <2>5, <2>6, <2>7, <2>8, <2>9 DEF KInv
  <1> QED BY <1>5, <1>6

\* A request sees the cluster as it lists when it begins.
LEMMA KInvAsk ==
  ASSUME IInv, Ask
  PROVE  KInv'
  <1>1. /\ status' = "open" /\ NoLocals' /\ pc' = "brokers" /\ cluster' = cluster
        /\ lived' = cluster /\ lasting' = cluster /\ excused' = {}
        /\ window'.lived = Listed(cluster) /\ window'.lasting = Listed(cluster)
    BY DEF Ask, Request, Open, E!Window, IInv, Window, NoLocals, locals
  <1>2. cluster \subseteq Objects /\ UniqueKeys(cluster)
    BY DEF IInv, TypeOK, Window
  <1>3. Seen'
    BY <1>1, <1>2, ListedWell DEF Seen, Known
  <1>4. SourcesOnce' /\ ReadKeys' = {}
    BY <1>1 DEF NoLocals, SourcesOnce, SourcesRead, ReadKeys, EventKeys, BrokerKeys, KindKeys
  <1>5. LastingBrokers' /\ LastingEventTypes' /\ LastingSubscribables' /\ LastingSources'
    BY <1>1, StepOrder DEF LastingBrokers, LastingEventTypes, LastingSubscribables, LastingSources
  <1>6. ContractKept'
    BY <1>1, <1>2, NoAnswer
  <1> QED BY <1>3, <1>4, <1>5, <1>6 DEF KInv

\* The history variable looks on: the builder is MeshBuilder's.
LEMMA ContractBuilds == ContractSpec => Spec
  <1>1. ContractInit => Init
    BY DEF ContractInit
  <1>2. [ContractNext]_contractVars => [Next]_vars
    BY DEF ContractNext, See, Ask, Go, Next, contractVars
  <1> QED BY <1>1, <1>2, PTL DEF ContractSpec, Spec

LEMMA KindsOnce == OneCRDPerKind
  BY KindsAssumption DEF OneCRDPerKind

\* Whatever changes between the calls, and whichever calls fail in whichever tolerated way
\* that is not about a kind, the backend answers as the provider's model has it.
THEOREM ContractAlwaysKept == ContractSpec => []ContractKept
  <1>1. ContractInit /\ IInv => KInv
    <2> SUFFICES ASSUME ContractInit, IInv PROVE KInv
      OBVIOUS
    <2>1. status = "none" /\ pc = "idle" /\ NoLocals
      BY DEF ContractInit, Init, QueryInit
    <2>2. Listed(cluster) \subseteq Items /\ E!UniqueKeys(Listed(cluster))
      BY ListedWell DEF IInv, TypeOK, Window
    <2>3. SourcesOnce
      BY <2>1 DEF NoLocals, SourcesOnce, SourcesRead
    <2> QED BY <2>1, <2>2, <2>3 DEF KInv, ContractKept
  <1>2. IInv /\ CInv /\ KInv /\ IInv' /\ [ContractNext]_contractVars => KInv'
    <2> SUFFICES ASSUME IInv, CInv, KInv, IInv', [ContractNext]_contractVars PROVE KInv'
      OBVIOUS
    <2>1. CASE UNCHANGED contractVars
      <3>1. UNCHANGED <<cluster, status, mesh, lived, lasting, excused, pc, pending, brokers, subscribables, sources, eventTypes, window>>
        BY <2>1 DEF contractVars, vars, queryVars, locals
      <3>2. SourcesOnce' /\ ReadKeys' = ReadKeys /\ (Seen => Seen')
        BY <3>1 DEF KInv, SourcesOnce, SourcesRead, ReadKeys, EventKeys, BrokerKeys, KindKeys, Seen, Known
      <3>3. status = "open" => LastingBrokers' /\ LastingEventTypes'
        BY <3>1 DEF KInv, LastingBrokers, LastingEventTypes, BrokerKeys, EventKeys, Known
      <3>4. status = "open" => LastingSubscribables'
        BY <3>1 DEF KInv, LastingSubscribables, Kept, KindKeys, KindKey, Known
      <3>5. status = "open" => LastingSources'
        BY <3>1 DEF KInv, LastingSources, SourcesRead, Kept, KindKeys, KindKey, Known
      <3>6. ContractKept'
        BY <3>1 DEF KInv, ContractKept
      <3> QED BY <3>1, <3>2, <3>3, <3>4, <3>5, <3>6 DEF KInv
    <2> QED BY <2>1, KInvSee, KInvAsk, KInvGo DEF ContractNext
  <1>3. KInv => ContractKept
    BY DEF KInv
  <1>4. ContractSpec => []IInv /\ []CInv
    BY ContractBuilds, InvariantHolds, ClosedAlways, KindsOnce, PTL
  <1> QED BY <1>1, <1>2, <1>3, <1>4, PTL DEF ContractSpec

\* What the backend answers is among the answers that a fetch of the provider may get
\* when it has seen of the cluster what the request has.
THEOREM AnswersExpected ==
  ContractSpec =>
    [](status = "answered" /\ excused \cap CRDs(Objects) = {} =>
         ItemsOf(mesh) \in E!Answers(window.lasting, window.lived))
  <1>1. ASSUME ContractKept, status = "answered", excused \cap CRDs(Objects) = {}
        PROVE  ItemsOf(mesh) \in E!Answers(window.lasting, window.lived)
    <2> DEFINE S == ItemsOf(mesh)
    <2>1. /\ S \subseteq window.lived /\ E!UniqueKeys(S) /\ E!Closed(S) = S
          /\ E!Keys(window.lasting) \subseteq E!Keys(S)
      BY <1>1 DEF ContractKept
    <2> HIDE DEF S
    <2>2. S \in E!Answers(window.lasting, window.lived)
      BY <2>1 DEF E!Answers
    <2> QED BY <2>2 DEF S
  <1>2. ContractKept =>
          (status = "answered" /\ excused \cap CRDs(Objects) = {} =>
             ItemsOf(mesh) \in E!Answers(window.lasting, window.lived))
    BY <1>1
  <1> QED BY <1>2, ContractAlwaysKept, PTL

\* What the provider's model says of clusters and fetches, the objects and the requests do:
\* a change of the objects is a change of items, a tolerated error a miss.
THEOREM RequestsAreFetches == ContractSpec => Mirror!Spec
  <1> DEFINE Ids == {"backend"}
             items == [p \in Ids |-> Items]
             lists == [p \in Ids |-> Listed(cluster)]
             seen == [p \in Ids |-> IF status = "open" THEN {window} ELSE {}]
  <1>1. ContractInit /\ IInv => Mirror!Init
    <2> SUFFICES ASSUME ContractInit, IInv PROVE Mirror!Init
      OBVIOUS
    <2>1. status = "none" /\ Listed(cluster) \subseteq Items /\ E!UniqueKeys(Listed(cluster))
      BY ListedWell DEF ContractInit, Init, QueryInit, IInv, TypeOK, Window
    <2> QED BY <2>1 DEF Mirror!Init, Mirror!UniqueKeys, E!UniqueKeys, Mirror!ItemKey, E!ItemKey
  <1>2. IInv /\ IInv' /\ [ContractNext]_contractVars => [Mirror!Next]_(Mirror!vars)
    <2> SUFFICES ASSUME IInv, IInv', [ContractNext]_contractVars
                 PROVE  Mirror!Next \/ UNCHANGED <<lists, seen>>
      BY DEF Mirror!vars
    <2> USE DEF lists, seen
    <2>1. CASE UNCHANGED contractVars
      BY <2>1 DEF contractVars, vars, queryVars
    <2>2. CASE See
      <3> DEFINE S == Listed(cluster')
      <3>1. status' = status /\ S \subseteq Items /\ E!UniqueKeys(S)
        BY <2>2, ListedWell, ChangeSeen DEF See, IInv, TypeOK, Window
      <3>2. \/ status # "open" /\ seen' = seen /\ seen["backend"] = {}
            \/ status = "open" /\ seen["backend"] = {window} /\ seen' = [p \in Ids |-> {E!Widened(Items, window, S)}]
        BY <2>2, <3>1 DEF See
      <3>3. E!Widened(Items, window, S) = Mirror!Widened(items["backend"], window, S)
        BY DEF E!Widened, Mirror!Widened, E!Versions, Mirror!Versions, E!Keys, Mirror!Keys, E!ItemKey, Mirror!ItemKey
      <3>4. lists' = [lists EXCEPT !["backend"] = S]
        OBVIOUS
      <3> DEFINE W == seen'["backend"]
      <3>5. /\ W \in SUBSET (seen["backend"] \cup {Mirror!Widened(items["backend"], w, S) : w \in seen["backend"]})
            /\ seen' = [seen EXCEPT !["backend"] = W]
        BY <3>2, <3>3
      <3>6. Mirror!Change("backend", S)
        BY <3>1, <3>4, <3>5 DEF Mirror!Change, Mirror!UniqueKeys, E!UniqueKeys, Mirror!ItemKey, E!ItemKey
      <3>7. S \in SUBSET items["backend"]
        BY <3>1
      <3> QED BY <3>6, <3>7 DEF Mirror!Next
    <2>3. CASE Ask
      <3>1. /\ seen["backend"] = {} /\ cluster' = cluster
            /\ seen' = [p \in Ids |-> {E!Window(lists["backend"])}]
        BY <2>3 DEF Ask, Request, Open
      <3>2. E!Window(lists["backend"]) = Mirror!Window(lists["backend"])
        BY DEF E!Window, Mirror!Window
      <3>3. Mirror!Fetch("backend")
        BY <3>1, <3>2 DEF Mirror!Fetch
      <3> QED BY <3>3 DEF Mirror!Next
    <2>4. CASE Go
      <3>1. /\ UNCHANGED cluster /\ status = "open"
            /\ status' # "open" => excused' = excused
        <4>1. (\E tolerated : Silently(tolerated)) \/ Fail \/ Output
          BY <2>4 DEF Go, Build, ListBrokers, ListSubscribableCRDs, ListSourceCRDs, ListCRDs, ListSubscribables,
             ListSources, ListEventTypes, ListTriggers, ListSubscriptions, ProcessTrigger, SkipTrigger,
             ProcessSubscription, SkipSubscription, ListError, UnusableCRD, UnreadableTypes, SubscriberError
        <4>2. pc # "idle"
          BY <2>4 DEF Go, Build, ListBrokers, ListSubscribableCRDs, ListSourceCRDs, ListCRDs, ListSubscribables,
             ListSources, ListEventTypes, ListTriggers, ListSubscriptions, ProcessTrigger, SkipTrigger,
             ProcessSubscription, SkipSubscription, ListError, UnusableCRD, UnreadableTypes, SubscriberError,
             Output
        <4>3. status = "open"
          BY <4>2 DEF IInv, TypeOK
        <4>4. CASE \E tolerated : Silently(tolerated)
          BY <4>3, <4>4 DEF Silently
        <4>5. CASE Fail \/ Output
          BY <4>3, <4>5 DEF Fail, Output
        <4> QED BY <4>1, <4>4, <4>5
      <3>2. CASE status' = "open" /\ excused' = excused
        BY <2>4, <3>1, <3>2 DEF Go
      <3>3. CASE status' = "open" /\ excused' # excused
        <4>1. window' = E!Blurred(Items, window)
          BY <2>4, <3>3 DEF Go
        <4>2. E!Blurred(Items, window) = Mirror!Blurred(items["backend"], window)
          BY DEF E!Blurred, Mirror!Blurred, E!Versions, Mirror!Versions, E!Keys, Mirror!Keys, E!ItemKey, Mirror!ItemKey
        <4> DEFINE W == seen'["backend"]
        <4>3. /\ W \in SUBSET (seen["backend"] \cup {Mirror!Blurred(items["backend"], w) : w \in seen["backend"]})
              /\ seen' = [seen EXCEPT !["backend"] = W]
          BY <3>1, <3>3, <4>1, <4>2
        <4>4. Mirror!Miss("backend")
          BY <3>1, <4>3 DEF Mirror!Miss
        <4> QED BY <4>4 DEF Mirror!Next
      <3>4. CASE status' # "open"
        <4>1. /\ seen' \in [Ids -> SUBSET UNION {seen[p] : p \in Ids}]
              /\ \A p \in Ids : seen'[p] \subseteq seen[p]
          BY <3>4
        <4>2. Mirror!Forget
          BY <3>1, <4>1 DEF Mirror!Forget
        <4> QED BY <4>2 DEF Mirror!Next
      <3> QED BY <3>1, <3>2, <3>3, <3>4
    <2> QED BY <2>1, <2>2, <2>3, <2>4 DEF ContractNext
  <1>3. ContractSpec => []IInv
    BY ContractBuilds, InvariantHolds, PTL
  <1> QED BY <1>1, <1>2, <1>3, PTL DEF ContractSpec, Mirror!Spec
=============================================================================
