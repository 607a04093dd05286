------------------------- MODULE MeshBuilderProofs -------------------------
(***************************************************************************)
(* Proofs about MeshBuilder, for any objects, start clusters, errors and   *)
(* number of changes.                                                      *)
(***************************************************************************)
EXTENDS MeshBuilder, TLAPS

----------------------------------------------------------------------------
(* What a larger set of objects contains. *)

\* Listing is monotone: more objects, more of every kind.
LEMMA ListsMonotone ==
  ASSUME NEW C, NEW D, C \subseteq D
  PROVE  /\ Brokers(C) \subseteq Brokers(D)
         /\ EventTypes(C) \subseteq EventTypes(D)
         /\ Triggers(C) \subseteq Triggers(D)
         /\ Subscriptions(C) \subseteq Subscriptions(D)
         /\ CRDs(C) \subseteq CRDs(D)
         /\ \A duck : Labelled(C, duck) \subseteq Labelled(D, duck)
         /\ \A crd : Instances(C, crd) \subseteq Instances(D, crd)
         /\ Subscribables(C) \subseteq Subscribables(D)
         /\ Sources(C) \subseteq Sources(D)
<1>1. /\ Brokers(C) \subseteq Brokers(D)
      /\ EventTypes(C) \subseteq EventTypes(D)
      /\ Triggers(C) \subseteq Triggers(D)
      /\ Subscriptions(C) \subseteq Subscriptions(D)
      /\ CRDs(C) \subseteq CRDs(D)
      /\ \A crd : Instances(C, crd) \subseteq Instances(D, crd)
  BY DEF Brokers, EventTypes, Triggers, Subscriptions, CRDs, Instances
<1>2. \A duck : Labelled(C, duck) \subseteq Labelled(D, duck)
  BY <1>1 DEF Labelled
<1>3. Subscribables(C) \subseteq Subscribables(D) /\ Sources(C) \subseteq Sources(D)
  BY <1>1, <1>2 DEF Subscribables, Sources
<1> QED BY <1>1, <1>2, <1>3

\* Lists hold objects of the set they are lists of.
LEMMA ListsWithin ==
  ASSUME NEW C
  PROVE  /\ Brokers(C) \subseteq C /\ EventTypes(C) \subseteq C /\ Triggers(C) \subseteq C
         /\ Subscriptions(C) \subseteq C /\ CRDs(C) \subseteq C
         /\ \A duck : Labelled(C, duck) \subseteq C
         /\ \A crd : Instances(C, crd) \subseteq C
         /\ Subscribables(C) \subseteq C /\ Sources(C) \subseteq C
BY DEF Brokers, EventTypes, Triggers, Subscriptions, CRDs, Labelled, Instances, Subscribables, Sources

\* The entries of ConsumedByTriggers, one by one.
LEMMA TriggerEntry ==
  ASSUME NEW C, NEW c
  PROVE  c \in ConsumedByTriggers(C) <=>
           \E t \in Triggers(C), et \in EventTypes(C), s \in C :
             Triggered(C, t, et, s) /\ c = <<NameOf(et), BackstageId(s), t>>
<1> DEFINE Rel == {y \in Triggers(C) \X EventTypes(C) \X C : Triggered(C, y[1], y[2], y[3])}
<1>1. ASSUME c \in ConsumedByTriggers(C)
      PROVE  \E t \in Triggers(C), et \in EventTypes(C), s \in C :
               Triggered(C, t, et, s) /\ c = <<NameOf(et), BackstageId(s), t>>
  <2>1. PICK x \in Rel : c = <<NameOf(x[2]), BackstageId(x[3]), x[1]>>
    BY <1>1, Zenon DEF ConsumedByTriggers
  <2>2. x[1] \in Triggers(C) /\ x[2] \in EventTypes(C) /\ x[3] \in C
    OBVIOUS
  <2> QED BY <2>1, <2>2
<1>2. ASSUME NEW t \in Triggers(C), NEW et \in EventTypes(C), NEW s \in C, Triggered(C, t, et, s),
             c = <<NameOf(et), BackstageId(s), t>>
      PROVE  c \in ConsumedByTriggers(C)
  <2> DEFINE x == <<t, et, s>>
  <2>1. x \in Rel /\ x[1] = t /\ x[2] = et /\ x[3] = s
    BY <1>2
  <2>2. c = <<NameOf(x[2]), BackstageId(x[3]), x[1]>>
    BY <1>2, <2>1
  <2>3. \E z \in Rel : c = <<NameOf(z[2]), BackstageId(z[3]), z[1]>>
    BY <2>1, <2>2, Zenon
  <2> QED BY <2>3, Zenon DEF ConsumedByTriggers
<1> QED BY <1>1, <1>2

\* The entries of Provided, one by one.
LEMMA ProvidedEntry ==
  ASSUME NEW C, NEW e
  PROVE  e \in Provided(C) <=>
           \E p \in C, et \in EventTypes(C) : Provides(C, p, et) /\ e = <<p, NameOf(et)>>
<1> DEFINE Rel == {y \in C \X EventTypes(C) : Provides(C, y[1], y[2])}
<1>1. ASSUME e \in Provided(C)
      PROVE  \E p \in C, et \in EventTypes(C) : Provides(C, p, et) /\ e = <<p, NameOf(et)>>
  <2>1. PICK x \in Rel : e = <<x[1], NameOf(x[2])>>
    BY <1>1, Zenon DEF Provided
  <2>2. x[1] \in C /\ x[2] \in EventTypes(C)
    OBVIOUS
  <2> QED BY <2>1, <2>2
<1>2. ASSUME NEW p \in C, NEW et \in EventTypes(C), Provides(C, p, et), e = <<p, NameOf(et)>>
      PROVE  e \in Provided(C)
  <2> DEFINE x == <<p, et>>
  <2>1. x \in Rel /\ x[1] = p /\ x[2] = et
    BY <1>2
  <2>2. e = <<x[1], NameOf(x[2])>>
    BY <1>2, <2>1
  <2>3. \E z \in Rel : e = <<z[1], NameOf(z[2])>>
    BY <2>1, <2>2, Zenon
  <2> QED BY <2>3, Zenon DEF Provided
<1> QED BY <1>1, <1>2

\* What some objects justify, more objects justify.
LEMMA ConsumedMonotone ==
  ASSUME NEW C, NEW D, C \subseteq D
  PROVE  ConsumedByTriggers(C) \subseteq ConsumedByTriggers(D)
<1>1. \A t, et, s : Triggered(C, t, et, s) => Triggered(D, t, et, s)
  BY ListsMonotone DEF Triggered
<1> QED BY <1>1, TriggerEntry, ListsMonotone

LEMMA ProvidedMonotone ==
  ASSUME NEW C, NEW D, C \subseteq D
  PROVE  Provided(C) \subseteq Provided(D)
<1>1. ASSUME NEW p, NEW et, Provides(C, p, et)
      PROVE  Provides(D, p, et)
  BY <1>1, ListsMonotone DEF Provides
<1> QED BY <1>1, ProvidedEntry, ListsMonotone

----------------------------------------------------------------------------
(* Type correctness. *)

LEMMA TypeInit == Init => TypeOK
BY StartAssumption, BoundAssumption
   DEF Init, QueryInit, NoLocals, TypeOK, EmptyMesh, Parts, Steps

\* A change of the cluster leaves it one that an API server can hold, and the window of an
\* open request sees it.
LEMMA ChangeSeen ==
  ASSUME Change, cluster \subseteq Objects
  PROVE  /\ cluster' \subseteq Objects /\ UniqueKeys(cluster') /\ Defined(cluster')
         /\ changes < MaxChanges /\ changes' = changes + 1
         /\ UNCHANGED <<status, mesh, excused>>
         /\ status = "open" => lived' = lived \cup cluster' /\ lasting' = lasting \cap cluster'
         /\ status # "open" => lived' = lived /\ lasting' = lasting
<1>1. PICK C : C \subseteq Objects /\ ChangeTo(C)
  BY DEF Change, Apply, Remove
<1> QED BY <1>1 DEF ChangeTo, Watch

\* Changes of the cluster keep the types; they leave the request alone.
LEMMA TypeChange == TypeOK /\ Change /\ UNCHANGED <<pc, locals>> => TypeOK'
<1> SUFFICES ASSUME TypeOK, Change, UNCHANGED <<pc, locals>> PROVE TypeOK'
  OBVIOUS
<1>1. /\ cluster' \subseteq Objects /\ changes' \in 0..MaxChanges
      /\ lived' \subseteq Objects /\ lasting' \subseteq Objects
  BY ChangeSeen, BoundAssumption DEF TypeOK
<1>2. UNCHANGED <<status, mesh, excused, pc, locals>>
  BY ChangeSeen DEF TypeOK
<1> QED BY <1>1, <1>2 DEF TypeOK, locals

\* So do the reads: what they return are objects.
LEMMA TypeBuild == TypeOK /\ Build => TypeOK'
<1> SUFFICES ASSUME TypeOK, Build PROVE TypeOK'
  OBVIOUS
<1> USE DEF TypeOK, Silently, Loop
<1>1. CASE ListBrokers
  BY <1>1, ListsWithin DEF ListBrokers, Steps
<1>2. CASE ListSubscribableCRDs \/ ListSourceCRDs
  BY <1>2, ListsWithin DEF ListSubscribableCRDs, ListSourceCRDs, ListCRDs, Steps
<1>3. ASSUME NEW crd \in pending, ListSubscribables(crd)
      PROVE  TypeOK'
  BY <1>3, ListsWithin DEF ListSubscribables, Steps
<1>4. ASSUME NEW crd \in pending, ListSources(crd)
      PROVE  TypeOK'
  <2>1. \A s \in sources' : s[1] \in Objects
    BY <1>4, ListsWithin DEF ListSources, ConvertSource
  <2> QED BY <1>4, <2>1 DEF ListSources, Steps
<1>5. CASE ListEventTypes
  BY <1>5, ListsWithin DEF ListEventTypes, Steps
<1>6. CASE ListTriggers \/ ListSubscriptions
  BY <1>6, ListsWithin DEF ListTriggers, ListSubscriptions, Steps
<1>7. ASSUME NEW t \in pending, ProcessTrigger(t) \/ SkipTrigger(t)
      PROVE  TypeOK'
  BY <1>7 DEF ProcessTrigger, SkipTrigger, Steps
<1>8. ASSUME NEW sub \in pending, ProcessSubscription(sub) \/ SkipSubscription(sub)
      PROVE  TypeOK'
  BY <1>8 DEF ProcessSubscription, SkipSubscription, Steps
<1>9. CASE ListError \/ UnusableCRD \/ UnreadableTypes \/ SubscriberError
  BY <1>9 DEF ListError, UnusableCRD, UnreadableTypes, SubscriberError, Fail, Forget, EmptyMesh, Parts
<1>10. CASE Output
  <2>1. DOMAIN mesh' = Parts
    BY <1>10 DEF Output, Parts
  <2> QED BY <1>10, <2>1 DEF Output, Forget
<1> QED BY <1>1, <1>2, <1>3, <1>4, <1>5, <1>6, <1>7, <1>8, <1>9, <1>10 DEF Build

\* Every variable of the builder keeps its type, and a request is open exactly
\* while BuildEventMesh runs.
THEOREM TypeCorrect == Spec => []TypeOK
<1>1. TypeOK /\ [Next]_vars => TypeOK'
  <2> SUFFICES ASSUME TypeOK, [Next]_vars PROVE TypeOK'
    OBVIOUS
  <2>1. CASE Request
    BY <2>1 DEF Request, Open, TypeOK, locals, EmptyMesh, Parts, Steps
  <2>2. CASE UNCHANGED vars
    BY <2>2 DEF vars, queryVars, locals, TypeOK
  <2> QED BY <2>1, <2>2, TypeChange, TypeBuild DEF Next
<1> QED BY <1>1, TypeInit, PTL DEF Spec

----------------------------------------------------------------------------
(* What the builder computes between two reads. *)

\* Concatenating a namespace and what follows it.
LEMMA Prefixed ==
  ASSUME NEW a, NEW S, NEW q \in Seq(S)
  PROVE  /\ Len(<<a>> \o q) = Len(q) + 1
         /\ (<<a>> \o q)[1] = a
         /\ \A i \in 1..Len(q) : (<<a>> \o q)[i + 1] = q[i]
         /\ <<a>> \o q \in Seq(S \cup {a})
<1> DEFINE T == S \cup {a}
<1>1. <<a>> \in Seq(T) /\ q \in Seq(T) /\ Len(<<a>>) = 1 /\ <<a>>[1] = a
  OBVIOUS
<1> HIDE DEF T
<1>2. /\ <<a>> \o q \in Seq(T) /\ Len(<<a>> \o q) = Len(q) + 1 /\ (<<a>> \o q)[1] = a
      /\ \A i \in 1..Len(q) : (<<a>> \o q)[i + 1] = q[i]
  BY <1>1
<1> QED BY <1>2 DEF T

\* A namespaced name determines namespace and name, and is shorter than any key
\* that processSubscription looks up.
LEMMA Names ==
  /\ \A a, b : NameOf(a) = NameOf(b) => a.ns = b.ns /\ a.name = b.name
  /\ \A a, b, sub : NameOf(a) # LookupKey(sub, NameOf(b))
<1>1. ASSUME NEW a
      PROVE  /\ NameOf(a) \in Seq({a.name, a.ns}) /\ Len(NameOf(a)) = 2
             /\ NameOf(a)[1] = a.ns /\ NameOf(a)[2] = a.name
  <2> DEFINE n == a.name
             q == <<n>>
  <2>1. q \in Seq({n}) /\ Len(q) = 1 /\ q[1] = n
    OBVIOUS
  <2> HIDE DEF q
  <2>2. NameOf(a) = <<a.ns>> \o q
    BY DEF q, NameOf, NamespacedName
  <2> QED BY <2>1, <2>2, Prefixed
<1>2. ASSUME NEW sub, NEW b
      PROVE  Len(LookupKey(sub, NameOf(b))) = 3
  <2> DEFINE q == NameOf(b)
             S == {b.name, b.ns}
             n == sub.ns
  <2>1. q \in Seq(S) /\ Len(q) = 2
    BY <1>1
  <2>2. LookupKey(sub, q) = <<n>> \o q
    BY DEF LookupKey, NamespacedName
  <2> HIDE DEF q, S, n
  <2>3. Len(<<n>> \o q) = Len(q) + 1
    BY <2>1, Prefixed
  <2>4. Len(LookupKey(sub, q)) = 3
    BY <2>1, <2>2, <2>3
  <2> QED BY <2>4 DEF q
<1>3. \A a, b : NameOf(a) = NameOf(b) => a.ns = b.ns /\ a.name = b.name
  BY <1>1
<1>4. \A a, b, sub : NameOf(a) # LookupKey(sub, NameOf(b))
  <2> SUFFICES ASSUME NEW a, NEW b, NEW sub PROVE NameOf(a) # LookupKey(sub, NameOf(b))
    OBVIOUS
  <2>1. Len(NameOf(a)) = 2 /\ Len(LookupKey(sub, NameOf(b))) = 3
    BY <1>1, <1>2
  <2> QED BY <2>1
<1> QED BY <1>3, <1>4

\* The entries registered with brokers and subscribables.
LEMMA RegisteredEntry ==
  ASSUME NEW ets, NEW e
  PROVE  e \in Registered(ets) <=>
           \E et \in ets, p \in brokers \cup subscribables :
             /\ e = <<p, NameOf(et)>> /\ KeyOf(p) \in ReferenceKeys(et)
             /\ p \in brokers \/ \A b \in brokers : KeyOf(b) \notin ReferenceKeys(et)
BY DEF Registered

\* The entries registered with sources.
LEMMA SourceEntry ==
  ASSUME NEW ets, NEW e
  PROVE  e \in SourceTypes(ets) <=>
           \E s \in sources, et \in ets : et.type \in s[2] /\ e = <<s[1], NameOf(et)>>
BY DEF SourceTypes

\* A kind that a duck-labelled CRD defines is not the broker's: such an instance
\* and a broker never have the same key.
LEMMA BrokersApart ==
  ASSUME NEW C \in SUBSET Objects, NEW b \in Brokers(Objects),
         NEW p \in Subscribables(C) \cup Sources(C)
  PROVE  KeyOf(p) # KeyOf(b)
<1>1. PICK crd \in Labelled(Objects, SubscribableDuck) \cup Labelled(Objects, SourceDuck) :
        <<p.group, p.kind>> = crd.defines
  <2>1. PICK crd \in Labelled(C, SubscribableDuck) \cup Labelled(C, SourceDuck) : p \in Instances(C, crd)
    BY DEF Subscribables, Sources
  <2>2. <<p.group, p.kind>> = crd.defines
    BY <2>1, Zenon DEF Instances
  <2>3. crd \in Labelled(Objects, SubscribableDuck) \cup Labelled(Objects, SourceDuck)
    BY <2>1, ListsMonotone
  <2> QED BY <2>2, <2>3
<1>2. <<p.group, p.kind>> # <<EventingGroup, "Broker">>
  BY <1>1, BrokerAssumption
<1>3. b.group = EventingGroup /\ b.kind = "Broker"
  BY DEF Brokers
<1> QED BY <1>2, <1>3 DEF KeyOf, GKNamespacedName

\* An event type refers to one key at most.
LEMMA OneReference ==
  ASSUME NEW et \in EventTypes(Objects), NEW k \in ReferenceKeys(et), NEW l \in ReferenceKeys(et)
  PROVE  k = l
BY ReferenceAssumption DEF ReferenceKeys

\* What is registered was provided by what has been read so far.
LEMMA ProvidedJustified ==
  ASSUME ReadsJustified, lived \subseteq Objects
  PROVE  provided \subseteq Provided(lived)
<1> SUFFICES ASSUME NEW e \in provided PROVE e \in Provided(lived)
  OBVIOUS
<1>1. e \in Registered(eventTypes) \/ e \in SourceTypes(eventTypes)
  BY DEF ReadsJustified
<1>2. ASSUME e \in Registered(eventTypes)
      PROVE  \E p \in lived, et \in EventTypes(lived) : Provides(lived, p, et) /\ e = <<p, NameOf(et)>>
  <2>1. PICK et \in eventTypes, p \in brokers \cup subscribables :
          e = <<p, NameOf(et)>> /\ KeyOf(p) \in ReferenceKeys(et)
    BY <1>2, RegisteredEntry
  <2>2. p \in Brokers(lived) \cup Subscribables(lived) /\ et \in EventTypes(lived)
    BY DEF ReadsJustified
  <2> QED BY <2>1, <2>2, ListsWithin DEF Provides
<1>3. ASSUME e \in SourceTypes(eventTypes)
      PROVE  \E p \in lived, et \in EventTypes(lived) : Provides(lived, p, et) /\ e = <<p, NameOf(et)>>
  <2>1. PICK s \in sources, et \in eventTypes : et.type \in s[2] /\ e = <<s[1], NameOf(et)>>
    BY <1>3, SourceEntry
  <2>2. PICK crd \in Labelled(lived, SourceDuck) : s[1] \in Instances(lived, crd) /\ s[2] = crd.types
    BY DEF ReadsJustified
  <2>3. et \in EventTypes(lived)
    BY DEF ReadsJustified
  <2> QED BY <2>1, <2>2, <2>3, ListsWithin DEF Provides
<1> QED BY <1>1, <1>2, <1>3, ProvidedEntry

\* Once all is read, what the lasting objects provide is registered.
LEMMA ProvidedComplete ==
  ASSUME TypeOK, ReadsJustified, ReadsComplete, pc \in AfterEventTypes
  PROVE  Provided(Owed) \subseteq provided
<1> SUFFICES ASSUME NEW e \in Provided(Owed) PROVE e \in provided
  OBVIOUS
<1>1. PICK p \in Owed, et \in EventTypes(Owed) : Provides(Owed, p, et) /\ e = <<p, NameOf(et)>>
  BY ProvidedEntry
<1>2. Owed \subseteq Objects /\ lived \subseteq Objects
  BY DEF TypeOK, Owed
<1>3. /\ pc \in AfterBrokers /\ pc \in AfterSubscribables /\ pc \in AfterSources
      /\ pc \notin {"subscribables", "sources"}
  BY DEF AfterEventTypes, AfterSources, AfterSubscribables, AfterBrokers, Steps
<1>4. et \in eventTypes /\ provided = Registered(eventTypes) \cup SourceTypes(eventTypes)
  BY DEF ReadsComplete, ReadsJustified
<1>5. CASE p \in Brokers(Owed) /\ KeyOf(p) \in ReferenceKeys(et)
  <2>1. p \in brokers
    BY <1>3, <1>5 DEF ReadsComplete
  <2> QED BY <1>1, <1>4, <1>5, <2>1, RegisteredEntry
<1>6. CASE p \in Subscribables(Owed) /\ KeyOf(p) \in ReferenceKeys(et)
  <2>1. p \in subscribables
    BY <1>3, <1>6 DEF ReadsComplete, Subscribables
  <2>2. et \in EventTypes(Objects)
    BY <1>2, ListsMonotone
  <2>3. ASSUME NEW b \in brokers, KeyOf(b) \in ReferenceKeys(et)
        PROVE  FALSE
    <3>1. KeyOf(b) = KeyOf(p)
      BY <1>6, <2>2, <2>3, OneReference
    <3>2. b \in Brokers(Objects)
      BY <1>2, ListsMonotone DEF ReadsJustified
    <3> QED BY <1>2, <1>6, <3>1, <3>2, BrokersApart
  <2> QED BY <1>1, <1>4, <1>6, <2>1, <2>3, RegisteredEntry
<1>7. CASE \E crd \in Labelled(Owed, SourceDuck) : p \in Instances(Owed, crd) /\ et.type \in crd.types
  <2>1. PICK crd \in Labelled(Owed, SourceDuck) : p \in Instances(Owed, crd) /\ et.type \in crd.types
    BY <1>7
  <2>2. <<p, crd.types>> \in sources
    BY <1>3, <2>1 DEF ReadsComplete
  <2>3. \E s \in sources, x \in eventTypes : x.type \in s[2] /\ e = <<s[1], NameOf(x)>>
    BY <1>1, <1>4, <2>1, <2>2
  <2> QED BY <1>4, <2>3, SourceEntry
<1> QED BY <1>1, <1>5, <1>6, <1>7 DEF Provides

----------------------------------------------------------------------------
(* The inductive invariant. *)

LEMMA InvInit == Init => IInv
<1> SUFFICES ASSUME Init PROVE IInv
  OBVIOUS
<1>1. TypeOK
  BY TypeInit
<1>2. Window
  BY StartAssumption DEF Init, QueryInit, Window
<1>3. pc = "idle" /\ status = "none" /\ NoLocals
  BY DEF Init, QueryInit
<1>4. PendingListed /\ AnswerJustified /\ AnswerComplete
  BY <1>3 DEF PendingListed, AnswerJustified, AnswerComplete
<1>5. ReadsJustified
  BY <1>3 DEF ReadsJustified, NoLocals, AfterEventTypes, AfterSources, AfterSubscribables,
              AfterBrokers, Steps
<1>6. ReadsComplete
  BY <1>3 DEF ReadsComplete, AfterTriggers, AfterEventTypes, AfterSources, AfterSubscribables,
              AfterBrokers, Steps
<1> QED BY <1>1, <1>2, <1>4, <1>5, <1>6 DEF IInv

\* What was justified stays so when more has lived.
LEMMA JustifiedKept ==
  ASSUME ReadsJustified, lived \subseteq lived', UNCHANGED <<pc, locals>>
  PROVE  ReadsJustified'
<1>1. /\ Brokers(lived) \subseteq Brokers(lived') /\ Subscribables(lived) \subseteq Subscribables(lived')
      /\ EventTypes(lived) \subseteq EventTypes(lived')
      /\ ConsumedByTriggers(lived) \subseteq ConsumedByTriggers(lived')
      /\ Labelled(lived, SourceDuck) \subseteq Labelled(lived', SourceDuck)
      /\ \A crd : Instances(lived, crd) \subseteq Instances(lived', crd)
  BY ListsMonotone, ConsumedMonotone
<1>2. (Registered(eventTypes) \cup SourceTypes(eventTypes))' = Registered(eventTypes) \cup SourceTypes(eventTypes)
  BY DEF locals, Registered, SourceTypes
<1> QED BY <1>1, <1>2 DEF ReadsJustified, locals

\* Having read all of the objects that are owed is having read all of fewer.
LEMMA CompleteKept ==
  ASSUME ReadsComplete, Owed' \subseteq Owed, UNCHANGED <<pc, locals>>
  PROVE  ReadsComplete'
<1>1. /\ Brokers(Owed') \subseteq Brokers(Owed) /\ EventTypes(Owed') \subseteq EventTypes(Owed)
      /\ Triggers(Owed') \subseteq Triggers(Owed)
      /\ Labelled(Owed', SourceDuck) \subseteq Labelled(Owed, SourceDuck)
      /\ Labelled(Owed', SubscribableDuck) \subseteq Labelled(Owed, SubscribableDuck)
      /\ \A crd : Instances(Owed', crd) \subseteq Instances(Owed, crd)
  BY ListsMonotone
<1>2. \A t, et, s : Triggered(Owed', t, et, s) => Triggered(Owed, t, et, s)
  BY <1>1 DEF Triggered
<1> QED BY <1>1, <1>2 DEF ReadsComplete, locals

LEMMA InvChange == IInv /\ Change /\ UNCHANGED <<pc, locals>> => IInv'
<1> SUFFICES ASSUME IInv, Change, UNCHANGED <<pc, locals>> PROVE IInv'
  OBVIOUS
<1>1. UNCHANGED <<status, mesh, excused>>
  BY ChangeSeen DEF IInv, TypeOK
<1>2. /\ UniqueKeys(cluster') /\ Defined(cluster')
      /\ status = "open" => lived' = lived \cup cluster' /\ lasting' = lasting \cap cluster'
      /\ status # "open" => lived' = lived /\ lasting' = lasting
  BY ChangeSeen DEF IInv, TypeOK
<1>3. lived \subseteq lived' /\ Owed' \subseteq Owed
  BY <1>1, <1>2 DEF Owed
<1>4. TypeOK'
  BY TypeChange DEF IInv
<1>5. Window'
  BY <1>1, <1>2 DEF Window, IInv, NoLocals, locals
<1>6. PendingListed'
  BY <1>3, ListsMonotone DEF PendingListed, IInv, locals
<1>7. ReadsJustified' /\ ReadsComplete'
  BY <1>3, JustifiedKept, CompleteKept DEF IInv
<1>8. AnswerJustified' /\ AnswerComplete'
  <2>1. CASE status = "answered"
    BY <1>1, <1>2, <2>1 DEF IInv, AnswerJustified, AnswerComplete, Justified, Shows
  <2>2. CASE status # "answered"
    BY <1>1, <2>2 DEF AnswerJustified, AnswerComplete
  <2> QED BY <2>1, <2>2
<1> QED BY <1>4, <1>5, <1>6, <1>7, <1>8 DEF IInv

LEMMA InvRequest == IInv /\ Request => IInv'
<1> SUFFICES ASSUME IInv, Request PROVE IInv'
  OBVIOUS
<1>1. /\ pc' = "brokers" /\ status' = "open" /\ UNCHANGED <<cluster, locals>>
      /\ lived' = cluster /\ lasting' = cluster /\ NoLocals
  BY DEF Request, Open, IInv, Window
<1>2. TypeOK'
  BY DEF Request, Open, IInv, TypeOK, locals, EmptyMesh, Parts, Steps
<1>3. Window' /\ PendingListed' /\ AnswerJustified' /\ AnswerComplete'
  BY <1>1 DEF IInv, Window, PendingListed, AnswerJustified, AnswerComplete
<1>4. pc' \notin AfterBrokers
  BY <1>1 DEF AfterBrokers
<1>5. ReadsJustified'
  BY <1>1, <1>4 DEF ReadsJustified, NoLocals, locals, AfterEventTypes, AfterSources, AfterSubscribables
<1>6. ReadsComplete'
  BY <1>1, <1>4 DEF ReadsComplete, AfterTriggers, AfterEventTypes, AfterSources, AfterSubscribables
<1> QED BY <1>2, <1>3, <1>5, <1>6 DEF IInv

----------------------------------------------------------------------------
(* The steps of BuildEventMesh. *)

\* The numbering of the steps: which come before which.
LEMMA StepOrder ==
  /\ AfterBrokers = {"subscribableCRDs", "subscribables"} \cup AfterSubscribables
  /\ AfterSubscribables = {"sourceCRDs", "sources"} \cup AfterSources
  /\ AfterSources = {"eventTypes", "triggers", "eachTrigger"} \cup AfterTriggers
  /\ AfterEventTypes = {"triggers", "eachTrigger"} \cup AfterTriggers
  /\ AfterTriggers = {"subscriptions", "eachSubscription", "output"}
BY DEF AfterBrokers, AfterSubscribables, AfterSources, AfterEventTypes, AfterTriggers, Steps

\* A step of an open request that stays in it and reads or tolerates something:
\* what it has to show of the invariant is what it read.
LEMMA InvSilently ==
  ASSUME IInv, Build, NEW tolerated, Silently(tolerated), pc # "idle",
         PendingListed', ReadsJustified', ReadsComplete'
  PROVE  IInv'
<1>1. status = "open" /\ status' = "open"
  BY DEF IInv, TypeOK, Silently
<1>2. TypeOK'
  BY TypeBuild DEF IInv
<1>3. Window' /\ AnswerJustified' /\ AnswerComplete'
  BY <1>1 DEF IInv, Window, AnswerJustified, AnswerComplete, Silently
<1> QED BY <1>2, <1>3 DEF IInv

\* Such a step owes no more than before, and its request's window stands.
LEMMA SilentWindow ==
  ASSUME IInv, NEW tolerated, Silently(tolerated), pc # "idle"
  PROVE  /\ Owed' = Owed \ tolerated /\ Owed \subseteq cluster /\ cluster \subseteq lived
         /\ lived' = lived /\ lived \subseteq Objects /\ cluster' = cluster
BY DEF IInv, TypeOK, Window, Silently, Owed

LEMMA InvListBrokers == IInv /\ ListBrokers => IInv'
<1> SUFFICES ASSUME IInv, ListBrokers PROVE IInv'
  OBVIOUS
<1>1. /\ pc = "brokers" /\ pc' = "subscribableCRDs" /\ Silently({}) /\ brokers' = Brokers(cluster)
      /\ UNCHANGED <<pending, subscribables, sources, eventTypes, provided, consumed>>
  BY DEF ListBrokers
<1>2. Owed' = Owed /\ Owed \subseteq cluster /\ cluster \subseteq lived /\ lived' = lived
  BY <1>1, SilentWindow
<1>3. pc \notin AfterEventTypes /\ pc' \notin AfterEventTypes
  BY <1>1, StepOrder
<1>4. PendingListed'
  BY <1>1 DEF PendingListed
<1>5. ReadsJustified'
  BY <1>1, <1>2, <1>3, ListsMonotone DEF IInv, ReadsJustified
<1>6. ReadsComplete'
  BY <1>1, <1>2, StepOrder, ListsMonotone DEF ReadsComplete
<1> QED BY <1>1, <1>4, <1>5, <1>6, InvSilently DEF Build

LEMMA InvListSubscribableCRDs == IInv /\ ListSubscribableCRDs => IInv'
<1> SUFFICES ASSUME IInv, ListSubscribableCRDs PROVE IInv'
  OBVIOUS
<1>1. /\ pc = "subscribableCRDs"
      /\ UNCHANGED <<brokers, subscribables, sources, eventTypes, provided, consumed>>
      /\ \/ /\ Loop(Labelled(cluster, SubscribableDuck), "subscribables", "sourceCRDs")
            /\ Silently({})
         \/ /\ Loop({}, "subscribables", "sourceCRDs")
            /\ Silently(CRDs(Objects))
  BY DEF ListSubscribableCRDs, ListCRDs
<1>2. PICK tolerated :
        /\ Silently(tolerated)
        /\ pending' = Labelled(cluster, SubscribableDuck) \/ (pending' = {} /\ tolerated = CRDs(Objects))
  <2>1. CASE Loop(Labelled(cluster, SubscribableDuck), "subscribables", "sourceCRDs") /\ Silently({})
    <3> WITNESS {}
    <3> QED BY <2>1 DEF Loop
  <2>2. CASE Loop({}, "subscribables", "sourceCRDs") /\ Silently(CRDs(Objects))
    <3> WITNESS CRDs(Objects)
    <3> QED BY <2>2 DEF Loop
  <2> QED BY <1>1, <2>1, <2>2
<1>3. pc' = IF pending' = {} THEN "sourceCRDs" ELSE "subscribables"
  BY <1>1 DEF Loop
<1>4. /\ Owed' = Owed \ tolerated /\ Owed \subseteq cluster /\ cluster \subseteq lived
      /\ lived' = lived /\ lived \subseteq Objects
  BY <1>1, <1>2, SilentWindow
<1>5. pc \notin AfterEventTypes /\ pc' \notin AfterEventTypes
  BY <1>1, <1>3, StepOrder
<1>6. PendingListed'
  BY <1>2, <1>3, <1>4, ListsMonotone DEF PendingListed
<1>7. ReadsJustified'
  BY <1>1, <1>4, <1>5 DEF IInv, ReadsJustified
<1>8. Brokers(Owed') \subseteq brokers'
  BY <1>1, <1>4, StepOrder, ListsMonotone DEF IInv, ReadsComplete
<1>9. Labelled(Owed', SubscribableDuck) \subseteq pending'
  <2>1. Labelled(Owed', SubscribableDuck) \subseteq Labelled(cluster, SubscribableDuck)
    BY <1>4, ListsMonotone
  <2>2. tolerated = CRDs(Objects) => Labelled(Owed', SubscribableDuck) = {}
    BY <1>4 DEF Labelled, CRDs
  <2> QED BY <1>2, <2>1, <2>2
<1>10. ReadsComplete'
  BY <1>3, <1>8, <1>9, StepOrder DEF ReadsComplete
<1> QED BY <1>1, <1>2, <1>6, <1>7, <1>10, InvSilently DEF Build

LEMMA InvListSourceCRDs == IInv /\ ListSourceCRDs => IInv'
<1> SUFFICES ASSUME IInv, ListSourceCRDs PROVE IInv'
  OBVIOUS
<1>1. /\ pc = "sourceCRDs"
      /\ UNCHANGED <<brokers, subscribables, sources, eventTypes, provided, consumed>>
      /\ \/ /\ Loop(Labelled(cluster, SourceDuck), "sources", "eventTypes")
            /\ Silently({})
         \/ /\ Loop({}, "sources", "eventTypes")
            /\ Silently(CRDs(Objects))
  BY DEF ListSourceCRDs, ListCRDs
<1>2. PICK tolerated :
        /\ Silently(tolerated)
        /\ pending' = Labelled(cluster, SourceDuck) \/ (pending' = {} /\ tolerated = CRDs(Objects))
  <2>1. CASE Loop(Labelled(cluster, SourceDuck), "sources", "eventTypes") /\ Silently({})
    <3> WITNESS {}
    <3> QED BY <2>1 DEF Loop
  <2>2. CASE Loop({}, "sources", "eventTypes") /\ Silently(CRDs(Objects))
    <3> WITNESS CRDs(Objects)
    <3> QED BY <2>2 DEF Loop
  <2> QED BY <1>1, <2>1, <2>2
<1>3. pc' = IF pending' = {} THEN "eventTypes" ELSE "sources"
  BY <1>1 DEF Loop
<1>4. /\ Owed' = Owed \ tolerated /\ Owed \subseteq cluster /\ cluster \subseteq lived
      /\ lived' = lived /\ lived \subseteq Objects
  BY <1>1, <1>2, SilentWindow
<1>5. pc \notin AfterEventTypes /\ pc' \notin AfterEventTypes
  BY <1>1, <1>3, StepOrder
<1>6. PendingListed'
  BY <1>2, <1>3, <1>4, ListsMonotone DEF PendingListed
<1>7. ReadsJustified'
  BY <1>1, <1>4, <1>5 DEF IInv, ReadsJustified
<1>8. Brokers(Owed') \subseteq brokers'
  BY <1>1, <1>4, StepOrder, ListsMonotone DEF IInv, ReadsComplete
<1>9. \A crd \in Labelled(Owed', SubscribableDuck) : Instances(Owed', crd) \subseteq subscribables'
  BY <1>1, <1>4, StepOrder, ListsMonotone DEF IInv, ReadsComplete
<1>10. Labelled(Owed', SourceDuck) \subseteq pending'
  <2>1. Labelled(Owed', SourceDuck) \subseteq Labelled(cluster, SourceDuck)
    BY <1>4, ListsMonotone
  <2>2. tolerated = CRDs(Objects) => Labelled(Owed', SourceDuck) = {}
    BY <1>4 DEF Labelled, CRDs
  <2> QED BY <1>2, <2>1, <2>2
<1>11. ReadsComplete'
  BY <1>3, <1>8, <1>9, <1>10, StepOrder DEF ReadsComplete
<1> QED BY <1>1, <1>2, <1>6, <1>7, <1>11, InvSilently DEF Build

LEMMA InvListSubscribables ==
  ASSUME IInv, NEW crd \in pending, ListSubscribables(crd)
  PROVE  IInv'
<1>0. crd.gvr
  BY DEF ListSubscribables
<1>1. /\ pc = "subscribables" /\ pending' = pending \ {crd}
      /\ pc' = IF pending' = {} THEN "sourceCRDs" ELSE "subscribables"
      /\ UNCHANGED <<brokers, sources, eventTypes, provided, consumed>>
  BY DEF ListSubscribables, Loop
<1>2. PICK tolerated :
        /\ Silently(tolerated)
        /\ \/ subscribables' = subscribables \cup Instances(cluster, crd)
           \/ subscribables' = subscribables /\ (crd \in tolerated \/ ~Served(crd))
  <2>1. CASE Silently({}) /\ subscribables' = subscribables \cup Instances(cluster, crd)
    <3> WITNESS {}
    <3> QED BY <2>1
  <2>2. CASE Silently({}) /\ ~Served(crd) /\ UNCHANGED subscribables
    <3> WITNESS {}
    <3> QED BY <2>2
  <2>3. CASE Silently({crd}) /\ UNCHANGED subscribables
    <3> WITNESS {crd}
    <3> QED BY <2>3
  <2> QED BY <2>1, <2>2, <2>3 DEF ListSubscribables
<1>3. /\ Owed' = Owed \ tolerated /\ Owed \subseteq cluster /\ cluster \subseteq lived
      /\ lived' = lived /\ lived \subseteq Objects
  BY <1>1, <1>2, SilentWindow
<1>4. crd \in Labelled(lived, SubscribableDuck)
  BY <1>1 DEF IInv, PendingListed
<1>5. pc \notin AfterEventTypes /\ pc' \notin AfterEventTypes
  BY <1>1, StepOrder
<1>6. PendingListed'
  BY <1>1, <1>3 DEF IInv, PendingListed
<1>7. ReadsJustified'
  <2>1. Instances(lived, crd) \subseteq Subscribables(lived)
    BY <1>4 DEF Subscribables
  <2>2. Instances(cluster, crd) \subseteq Instances(lived, crd)
    BY <1>3, ListsMonotone
  <2> QED BY <1>1, <1>2, <1>3, <1>5, <2>1, <2>2 DEF IInv, ReadsJustified
<1>8. Brokers(Owed') \subseteq brokers'
  BY <1>1, <1>3, StepOrder, ListsMonotone DEF IInv, ReadsComplete
<1>9. \A d \in Labelled(Owed', SubscribableDuck) :
        d \in pending' \/ Instances(Owed', d) \subseteq subscribables'
  <2> SUFFICES ASSUME NEW d \in Labelled(Owed', SubscribableDuck), d \notin pending'
               PROVE  Instances(Owed', d) \subseteq subscribables'
    OBVIOUS
  <2>1. d \in Labelled(Owed, SubscribableDuck) /\ Instances(Owed', d) \subseteq Instances(Owed, d)
    BY <1>3, ListsMonotone
  <2>2. CASE d # crd
    BY <1>1, <1>2, <2>1, <2>2, StepOrder DEF IInv, ReadsComplete
  <2>3. CASE d = crd
    <3>1. crd \notin tolerated /\ crd \in CRDs(cluster) /\ crd.gvr
      BY <1>0, <1>3, <2>3, ListsMonotone DEF Labelled, CRDs
    <3>2. Served(crd)
      BY <3>1 DEF Served, Serves
    <3>3. Instances(Owed, d) \subseteq Instances(cluster, crd)
      BY <1>3, <2>3, ListsMonotone
    <3> QED BY <1>2, <2>1, <3>1, <3>2, <3>3
  <2> QED BY <2>2, <2>3
<1>10. ReadsComplete'
  BY <1>1, <1>8, <1>9, StepOrder DEF ReadsComplete
<1>11. Build
  BY DEF Build
<1> QED BY <1>1, <1>2, <1>6, <1>7, <1>10, <1>11, InvSilently

LEMMA InvListSources ==
  ASSUME IInv, NEW crd \in pending, ListSources(crd)
  PROVE  IInv'
<1> DEFINE Read == {<<s, crd.types>> : s \in Instances(cluster, crd)}
<1>0. crd.gvr
  BY DEF ListSources
<1>1. /\ pc = "sources" /\ pending' = pending \ {crd}
      /\ pc' = IF pending' = {} THEN "eventTypes" ELSE "sources"
      /\ UNCHANGED <<brokers, subscribables, eventTypes, provided, consumed>>
  BY DEF ListSources, Loop
<1>2. PICK tolerated :
        /\ Silently(tolerated)
        /\ \/ sources' = sources \cup Read
           \/ sources' = sources /\ (crd \in tolerated \/ ~Served(crd))
  <2>1. CASE Silently({}) /\ sources' = sources \cup Read
    <3> WITNESS {}
    <3> QED BY <2>1
  <2>2. CASE Silently({}) /\ ~Served(crd) /\ UNCHANGED sources
    <3> WITNESS {}
    <3> QED BY <2>2
  <2>3. CASE Silently({crd}) /\ UNCHANGED sources
    <3> WITNESS {crd}
    <3> QED BY <2>3
  <2> QED BY <2>1, <2>2, <2>3 DEF ListSources, ConvertSource
<1>3. /\ Owed' = Owed \ tolerated /\ Owed \subseteq cluster /\ cluster \subseteq lived
      /\ lived' = lived /\ lived \subseteq Objects
  BY <1>1, <1>2, SilentWindow
<1>4. crd \in Labelled(lived, SourceDuck)
  BY <1>1 DEF IInv, PendingListed
<1>5. pc \notin AfterEventTypes /\ pc' \notin AfterEventTypes
  BY <1>1, StepOrder
<1>6. PendingListed'
  BY <1>1, <1>3 DEF IInv, PendingListed
<1>7. ReadsJustified'
  <2>0. Instances(cluster, crd) \subseteq Instances(lived, crd)
    BY <1>3, ListsMonotone
  <2>1. \A s \in Read : s[1] \in Instances(lived, crd) /\ s[2] = crd.types
    BY <2>0
  <2>2. \A s \in sources' : \E c \in Labelled(lived', SourceDuck) :
          s[1] \in Instances(lived', c) /\ s[2] = c.types
    BY <1>2, <1>3, <1>4, <2>1 DEF IInv, ReadsJustified
  <2> QED BY <1>1, <1>3, <1>5, <2>2 DEF IInv, ReadsJustified
<1>8. Brokers(Owed') \subseteq brokers'
  BY <1>1, <1>3, StepOrder, ListsMonotone DEF IInv, ReadsComplete
<1>9. \A d \in Labelled(Owed', SubscribableDuck) : Instances(Owed', d) \subseteq subscribables'
  BY <1>1, <1>3, StepOrder, ListsMonotone DEF IInv, ReadsComplete
<1>10. \A d \in Labelled(Owed', SourceDuck) :
        d \in pending' \/ Instances(Owed', d) \X {d.types} \subseteq sources'
  <2> SUFFICES ASSUME NEW d \in Labelled(Owed', SourceDuck), d \notin pending'
               PROVE  Instances(Owed', d) \X {d.types} \subseteq sources'
    OBVIOUS
  <2>1. d \in Labelled(Owed, SourceDuck) /\ Instances(Owed', d) \subseteq Instances(Owed, d)
    BY <1>3, ListsMonotone
  <2>2. CASE d # crd
    <3>1. Instances(Owed, d) \X {d.types} \subseteq sources
      BY <1>1, <2>1, <2>2, StepOrder DEF IInv, ReadsComplete
    <3> QED BY <1>2, <2>1, <3>1
  <2>3. CASE d = crd
    <3>1. crd \notin tolerated /\ crd \in CRDs(cluster) /\ crd.gvr
      BY <1>0, <1>3, <2>3, ListsMonotone DEF Labelled, CRDs
    <3>2. Served(crd)
      BY <3>1 DEF Served, Serves
    <3>3. Instances(Owed', d) \subseteq Instances(cluster, crd)
      BY <1>3, <2>1, <2>3, ListsMonotone
    <3>4. sources' = sources \cup Read
      BY <1>2, <3>1, <3>2
    <3> QED BY <2>3, <3>3, <3>4
  <2> QED BY <2>2, <2>3
<1>11. ReadsComplete'
  BY <1>1, <1>8, <1>9, <1>10, StepOrder DEF ReadsComplete
<1>12. Build
  BY DEF Build
<1> QED BY <1>1, <1>2, <1>6, <1>7, <1>11, <1>12, InvSilently

LEMMA InvListEventTypes == IInv /\ ListEventTypes => IInv'
<1> SUFFICES ASSUME IInv, ListEventTypes PROVE IInv'
  OBVIOUS
<1>1. /\ pc = "eventTypes" /\ pc' = "triggers" /\ Silently({}) /\ eventTypes' = EventTypes(cluster)
      /\ provided' = Registered(eventTypes') \cup SourceTypes(eventTypes')
      /\ UNCHANGED <<pending, brokers, subscribables, sources, consumed>>
  BY DEF ListEventTypes
<1>2. Owed' = Owed /\ Owed \subseteq cluster /\ cluster \subseteq lived /\ lived' = lived
  BY <1>1, SilentWindow
<1>3. \A a, b \in EventTypes(cluster) : NameOf(a) = NameOf(b) => a = b
  <2> SUFFICES ASSUME NEW a \in EventTypes(cluster), NEW b \in EventTypes(cluster), NameOf(a) = NameOf(b)
               PROVE  a = b
    OBVIOUS
  <2>1. a.ns = b.ns /\ a.name = b.name /\ a.group = b.group /\ a.kind = b.kind
    BY Names DEF EventTypes
  <2>2. KeyOf(a) = KeyOf(b)
    BY <2>1 DEF KeyOf, GKNamespacedName
  <2> QED BY <2>2, ListsWithin DEF IInv, Window, UniqueKeys
<1>4. ReadsJustified'
  <2>1. (Registered(eventTypes) \cup SourceTypes(eventTypes))' = Registered(eventTypes') \cup SourceTypes(eventTypes')
    BY <1>1 DEF Registered, SourceTypes
  <2> QED BY <1>1, <1>2, <1>3, <2>1, StepOrder, ListsMonotone DEF IInv, ReadsJustified
<1>5. PendingListed'
  BY <1>1 DEF PendingListed
<1>6. ReadsComplete'
  BY <1>1, <1>2, StepOrder, ListsMonotone DEF IInv, ReadsComplete
<1> QED BY <1>1, <1>4, <1>5, <1>6, InvSilently DEF Build

\* The entries one trigger adds.
LEMMA AddedEntry ==
  ASSUME NEW t, NEW c
  PROVE  c \in TriggerEntries(t) <=>
           \E et \in eventTypes, b \in brokers, o \in cluster :
             /\ KeyOf(b) = BrokerKey(t) /\ <<b, NameOf(et)>> \in provided /\ Wants(t, et)
             /\ KeyOf(o) \in t.subscriber /\ BackstageId(o) # ""
             /\ c = <<NameOf(et), BackstageId(o), t>>
<1> DEFINE Found == UNION {Collected(t, b) : b \in {br \in brokers : KeyOf(br) = BrokerKey(t)}}
           Ids == SubscriberIds(t)
<1>1. \A et : et \in Found <=>
        \E b \in brokers : /\ KeyOf(b) = BrokerKey(t) /\ et \in eventTypes
                           /\ <<b, NameOf(et)>> \in provided /\ Wants(t, et)
  <2>1. \A et, b : et \in Collected(t, b) <=>
          et \in eventTypes /\ <<b, NameOf(et)>> \in provided /\ Wants(t, et)
    BY DEF Collected
  <2>2. \A et : et \in Found <=> \E b \in brokers : KeyOf(b) = BrokerKey(t) /\ et \in Collected(t, b)
    OBVIOUS
  <2> HIDE DEF Found
  <2> QED BY <2>1, <2>2
<1>2. \A id : id \in Ids <=>
        \E o \in cluster : KeyOf(o) \in t.subscriber /\ BackstageId(o) # "" /\ id = BackstageId(o)
  BY DEF SubscriberIds
<1> HIDE DEF Found, Ids
<1>3. c \in TriggerEntries(t) <=> \E et \in Found, id \in Ids : c = <<NameOf(et), id, t>>
  <2>1. TriggerEntries(t) = {<<NameOf(x[1]), x[2], t>> : x \in Found \X Ids}
    BY DEF TriggerEntries, Found, Ids
  <2>2. ASSUME c \in TriggerEntries(t)
        PROVE  \E et \in Found, id \in Ids : c = <<NameOf(et), id, t>>
    <3>1. PICK x \in Found \X Ids : c = <<NameOf(x[1]), x[2], t>>
      BY <2>1, <2>2
    <3> QED BY <3>1
  <2>3. ASSUME NEW et \in Found, NEW id \in Ids, c = <<NameOf(et), id, t>>
        PROVE  c \in TriggerEntries(t)
    <3> DEFINE x == <<et, id>>
    <3>1. x \in Found \X Ids /\ c = <<NameOf(x[1]), x[2], t>>
      BY <2>3
    <3> HIDE DEF x
    <3> QED BY <2>1, <3>1
  <2> QED BY <2>2, <2>3
<1> QED BY <1>1, <1>2, <1>3

\* A broker provides the event types that refer to it, and no others.
LEMMA BrokerProvides ==
  ASSUME IInv, pc \in AfterEventTypes, lived \subseteq Objects,
         NEW b \in brokers, NEW et \in eventTypes
  PROVE  <<b, NameOf(et)>> \in provided <=> KeyOf(b) \in ReferenceKeys(et)
<1>1. provided = Registered(eventTypes) \cup SourceTypes(eventTypes)
  BY DEF IInv, ReadsJustified
<1>2. ASSUME KeyOf(b) \in ReferenceKeys(et)
      PROVE  <<b, NameOf(et)>> \in provided
  BY <1>1, <1>2, RegisteredEntry
<1>3. ASSUME <<b, NameOf(et)>> \in Registered(eventTypes)
      PROVE  KeyOf(b) \in ReferenceKeys(et)
  <2>1. PICK e \in eventTypes, p \in brokers \cup subscribables :
          <<b, NameOf(et)>> = <<p, NameOf(e)>> /\ KeyOf(p) \in ReferenceKeys(e)
    BY <1>3, RegisteredEntry
  <2>2. p = b /\ e = et
    BY <2>1 DEF IInv, ReadsJustified
  <2> QED BY <2>1, <2>2
<1>4. <<b, NameOf(et)>> \notin SourceTypes(eventTypes)
  <2> SUFFICES ASSUME <<b, NameOf(et)>> \in SourceTypes(eventTypes) PROVE FALSE
    OBVIOUS
  <2>1. PICK s \in sources, e \in eventTypes : <<b, NameOf(et)>> = <<s[1], NameOf(e)>>
    BY SourceEntry
  <2>2. PICK crd \in Labelled(lived, SourceDuck) : b \in Instances(lived, crd)
    BY <2>1 DEF IInv, ReadsJustified
  <2>3. b \in Sources(lived) /\ b \in Brokers(Objects)
    BY <2>2, ListsMonotone DEF Sources, IInv, ReadsJustified
  <2> QED BY <2>3, BrokersApart
<1> QED BY <1>1, <1>2, <1>3, <1>4

LEMMA InvListTriggers == IInv /\ ListTriggers => IInv'
<1> SUFFICES ASSUME IInv, ListTriggers PROVE IInv'
  OBVIOUS
<1>1. /\ pc = "triggers" /\ pending' = Triggers(cluster) /\ Silently({})
      /\ pc' = IF pending' = {} THEN "subscriptions" ELSE "eachTrigger"
      /\ UNCHANGED <<brokers, subscribables, sources, eventTypes, provided, consumed>>
  BY DEF ListTriggers, Loop
<1>2. Owed' = Owed /\ Owed \subseteq cluster /\ cluster \subseteq lived /\ lived' = lived
  BY <1>1, SilentWindow
<1>3. PendingListed'
  BY <1>1, <1>2, ListsMonotone DEF PendingListed
<1>4. (Registered(eventTypes) \cup SourceTypes(eventTypes))' = Registered(eventTypes) \cup SourceTypes(eventTypes)
  BY <1>1 DEF Registered, SourceTypes
<1>5. ReadsJustified'
  BY <1>1, <1>2, <1>4, StepOrder DEF IInv, ReadsJustified
<1>6. Triggers(Owed') \subseteq pending'
  BY <1>1, <1>2, ListsMonotone
<1>7. ReadsComplete'
  BY <1>1, <1>2, <1>6, StepOrder DEF IInv, ReadsComplete
<1> QED BY <1>1, <1>3, <1>5, <1>7, InvSilently DEF Build

\* What a pass over one trigger has in common, whether its subscriber was read or not.
LEMMA TriggerPassed ==
  ASSUME IInv, NEW t \in pending, NEW tolerated, Silently(tolerated), pc = "eachTrigger",
         Loop(pending \ {t}, "eachTrigger", "subscriptions"), Build,
         UNCHANGED <<brokers, subscribables, sources, eventTypes, provided>>,
         consumed \subseteq consumed', consumed' \subseteq ConsumedByTriggers(lived),
         \/ t \in tolerated
         \/ \A et \in EventTypes(Owed), s \in Owed :
              Triggered(Owed, t, et, s) => <<NameOf(et), BackstageId(s), t>> \in consumed'
  PROVE  IInv'
<1>1. pending' = pending \ {t} /\ pc' = IF pending' = {} THEN "subscriptions" ELSE "eachTrigger"
  BY DEF Loop
<1>2. /\ Owed' = Owed \ tolerated /\ Owed \subseteq cluster /\ cluster \subseteq lived
      /\ lived' = lived
  BY SilentWindow
<1>3. PendingListed'
  BY <1>1, <1>2 DEF IInv, PendingListed
<1>4. (Registered(eventTypes) \cup SourceTypes(eventTypes))' = Registered(eventTypes) \cup SourceTypes(eventTypes)
  BY DEF Registered, SourceTypes
<1>5. ReadsJustified'
  BY <1>1, <1>2, <1>4, StepOrder DEF IInv, ReadsJustified
<1>6. /\ Brokers(Owed') \subseteq Brokers(Owed) /\ EventTypes(Owed') \subseteq EventTypes(Owed)
      /\ Triggers(Owed') \subseteq Triggers(Owed) \ tolerated
      /\ Labelled(Owed', SourceDuck) \subseteq Labelled(Owed, SourceDuck)
      /\ Labelled(Owed', SubscribableDuck) \subseteq Labelled(Owed, SubscribableDuck)
      /\ \A crd : Instances(Owed', crd) \subseteq Instances(Owed, crd)
  BY <1>2, ListsMonotone, ListsWithin
<1>7. \A x, et, s : Triggered(Owed', x, et, s) => Triggered(Owed, x, et, s)
  BY <1>6 DEF Triggered
<1>8. \A x \in Triggers(Owed') : x \in pending' \/
        \A et \in EventTypes(Owed'), s \in Owed' :
          Triggered(Owed', x, et, s) => <<NameOf(et), BackstageId(s), x>> \in consumed'
  <2> SUFFICES ASSUME NEW x \in Triggers(Owed'), x \notin pending',
                      NEW et \in EventTypes(Owed'), NEW s \in Owed',
                      Triggered(Owed', x, et, s)
               PROVE  <<NameOf(et), BackstageId(s), x>> \in consumed'
    OBVIOUS
  <2>1. et \in EventTypes(Owed) /\ s \in Owed /\ Triggered(Owed, x, et, s)
    BY <1>2, <1>6, <1>7
  <2>2. CASE x = t
    <3>1. t \notin tolerated
      BY <1>6, <2>2
    <3> QED BY <2>1, <2>2, <3>1
  <2>3. CASE x # t
    <3>1. x \in Triggers(Owed) /\ x \notin pending
      BY <1>1, <1>6, <2>3
    <3>2. <<NameOf(et), BackstageId(s), x>> \in consumed
      BY <2>1, <3>1 DEF IInv, ReadsComplete
    <3> QED BY <3>2
  <2> QED BY <2>2, <2>3
<1>9. ReadsComplete'
  BY <1>1, <1>6, <1>8, StepOrder DEF IInv, ReadsComplete
<1> QED BY <1>3, <1>5, <1>9, InvSilently

LEMMA InvProcessTrigger ==
  ASSUME IInv, NEW t \in pending, ProcessTrigger(t)
  PROVE  IInv'
<1>1. /\ pc = "eachTrigger" /\ Silently({}) /\ consumed' = consumed \cup TriggerEntries(t)
      /\ Loop(pending \ {t}, "eachTrigger", "subscriptions") /\ Build
      /\ UNCHANGED <<brokers, subscribables, sources, eventTypes, provided>>
  BY DEF ProcessTrigger, Build
<1>2. Owed \subseteq cluster /\ cluster \subseteq lived /\ lived \subseteq Objects
  BY <1>1, SilentWindow
<1>3. pc \in AfterEventTypes /\ pc \in AfterBrokers
  BY <1>1, StepOrder
<1>4. TriggerEntries(t) \subseteq ConsumedByTriggers(lived)
  <2> SUFFICES ASSUME NEW c \in TriggerEntries(t) PROVE c \in ConsumedByTriggers(lived)
    OBVIOUS
  <2>1. PICK et \in eventTypes, b \in brokers, o \in cluster :
          /\ KeyOf(b) = BrokerKey(t) /\ <<b, NameOf(et)>> \in provided /\ Wants(t, et)
          /\ KeyOf(o) \in t.subscriber /\ BackstageId(o) # ""
          /\ c = <<NameOf(et), BackstageId(o), t>>
    BY AddedEntry
  <2>2. KeyOf(b) \in ReferenceKeys(et)
    BY <1>2, <1>3, <2>1, BrokerProvides
  <2>3. t \in Triggers(lived) /\ et \in EventTypes(lived) /\ o \in lived /\ b \in Brokers(lived)
    BY <1>1, <1>2 DEF IInv, PendingListed, ReadsJustified
  <2>4. Triggered(lived, t, et, o)
    BY <2>1, <2>2, <2>3 DEF Triggered, Delivers
  <2> QED BY <2>1, <2>3, <2>4, TriggerEntry
<1>5. ASSUME NEW et \in EventTypes(Owed), NEW s \in Owed, Triggered(Owed, t, et, s)
      PROVE  <<NameOf(et), BackstageId(s), t>> \in TriggerEntries(t)
  <2>1. PICK b \in Brokers(Owed) : KeyOf(b) = BrokerKey(t) /\ KeyOf(b) \in ReferenceKeys(et)
    BY <1>5 DEF Triggered
  <2>2. b \in brokers /\ et \in eventTypes
    BY <1>3 DEF IInv, ReadsComplete
  <2>3. <<b, NameOf(et)>> \in provided
    BY <1>2, <1>3, <2>1, <2>2, BrokerProvides
  <2> QED BY <1>2, <1>5, <2>1, <2>2, <2>3, AddedEntry DEF Triggered, Delivers
<1>6. consumed' \subseteq ConsumedByTriggers(lived)
  BY <1>1, <1>4 DEF IInv, ReadsJustified
<1> QED BY <1>1, <1>5, <1>6, TriggerPassed

LEMMA InvSkipTrigger ==
  ASSUME IInv, NEW t \in pending, SkipTrigger(t)
  PROVE  IInv'
<1>1. /\ pc = "eachTrigger" /\ Silently({t}) /\ consumed' = consumed
      /\ Loop(pending \ {t}, "eachTrigger", "subscriptions") /\ Build
      /\ UNCHANGED <<brokers, subscribables, sources, eventTypes, provided>>
  BY DEF SkipTrigger, Build
<1>2. consumed' \subseteq ConsumedByTriggers(lived)
  BY <1>1 DEF IInv, ReadsJustified
<1> QED BY <1>1, <1>2, TriggerPassed

\* No entry of a channel is ever found under the key processSubscription builds.
LEMMA NothingFound ==
  ASSUME IInv, pc \in AfterEventTypes, NEW sub
  PROVE  SubscriptionEntries(sub) = {}
<1>1. ASSUME NEW q \in provided
      PROVE  \E et \in eventTypes : q[2] = NameOf(et)
  <2>1. q \in Registered(eventTypes) \/ q \in SourceTypes(eventTypes)
    BY DEF IInv, ReadsJustified
  <2>2. CASE q \in Registered(eventTypes)
    <3>1. PICK et \in eventTypes, p \in brokers \cup subscribables : q = <<p, NameOf(et)>>
      BY <2>2, RegisteredEntry
    <3> QED BY <3>1
  <2>3. CASE q \in SourceTypes(eventTypes)
    <3>1. PICK s \in sources, et \in eventTypes : q = <<s[1], NameOf(et)>>
      BY <2>3, SourceEntry
    <3> QED BY <3>1
  <2> QED BY <2>1, <2>2, <2>3
<1> DEFINE Entries == {p[2] : p \in {q \in provided : q[1] \in subscribables /\ KeyOf(q[1]) = ChannelKey(sub)}}
           Found == {et \in eventTypes : \E entry \in Entries : NameOf(et) = LookupKey(sub, entry)}
<1>2. \A entry \in Entries : \E et \in eventTypes : entry = NameOf(et)
  BY <1>1
<1>3. Found = {}
  BY <1>2, Names
<1>4. SubscriptionEntries(sub) = {<<NameOf(x[1]), x[2], sub>> : x \in Found \X SubscriberIds(sub)}
  BY DEF SubscriptionEntries
<1> HIDE DEF Found
<1> QED BY <1>3, <1>4

\* What the steps after the triggers have in common: the reads stay as they are.
LEMMA ReadsStand ==
  ASSUME IInv, NEW tolerated, Silently(tolerated), pc \in AfterTriggers, pc' \in AfterTriggers,
         PendingListed', Build,
         UNCHANGED <<brokers, subscribables, sources, eventTypes, provided, consumed>>
  PROVE  IInv'
<1>1. /\ pc # "idle" /\ pc \in AfterEventTypes /\ pc' \in AfterEventTypes
      /\ pc \in AfterSources /\ pc \in AfterSubscribables /\ pc \in AfterBrokers
      /\ pc \notin {"subscribables", "sources", "eachTrigger"}
      /\ pc' \notin {"subscribables", "sources", "eachTrigger"}
  BY StepOrder
<1>2. Owed' = Owed \ tolerated /\ lived' = lived
  BY <1>1, SilentWindow
<1>3. (Registered(eventTypes) \cup SourceTypes(eventTypes))' = Registered(eventTypes) \cup SourceTypes(eventTypes)
  BY DEF Registered, SourceTypes
<1>4. ReadsJustified'
  BY <1>1, <1>2, <1>3 DEF IInv, ReadsJustified
<1>5. /\ Brokers(Owed') \subseteq Brokers(Owed) /\ EventTypes(Owed') \subseteq EventTypes(Owed)
      /\ Triggers(Owed') \subseteq Triggers(Owed)
      /\ Labelled(Owed', SourceDuck) \subseteq Labelled(Owed, SourceDuck)
      /\ Labelled(Owed', SubscribableDuck) \subseteq Labelled(Owed, SubscribableDuck)
      /\ \A crd : Instances(Owed', crd) \subseteq Instances(Owed, crd)
  BY <1>2, ListsMonotone
<1>6. \A t, et, s : Triggered(Owed', t, et, s) => Triggered(Owed, t, et, s)
  BY <1>5 DEF Triggered
<1>7. ReadsComplete'
  BY <1>1, <1>2, <1>5, <1>6 DEF IInv, ReadsComplete
<1> QED BY <1>1, <1>4, <1>7, InvSilently

LEMMA InvListSubscriptions == IInv /\ ListSubscriptions => IInv'
<1> SUFFICES ASSUME IInv, ListSubscriptions PROVE IInv'
  OBVIOUS
<1>1. /\ pc = "subscriptions" /\ pending' = Subscriptions(cluster) /\ Silently({})
      /\ pc' \in {"eachSubscription", "output"} /\ Build
      /\ UNCHANGED <<brokers, subscribables, sources, eventTypes, provided, consumed>>
  BY DEF ListSubscriptions, Loop, Build
<1>2. cluster \subseteq lived /\ lived' = lived
  BY <1>1, SilentWindow
<1>3. PendingListed'
  BY <1>1, <1>2, ListsMonotone DEF PendingListed
<1> QED BY <1>1, <1>3, StepOrder, ReadsStand

LEMMA InvPassSubscription ==
  ASSUME IInv, NEW sub \in pending, ProcessSubscription(sub) \/ SkipSubscription(sub)
  PROVE  IInv'
<1>1. /\ pc = "eachSubscription" /\ pending' = pending \ {sub}
      /\ pc' \in {"eachSubscription", "output"} /\ Build
      /\ UNCHANGED <<brokers, subscribables, sources, eventTypes, provided>>
  BY DEF ProcessSubscription, SkipSubscription, Loop, Build
<1>2. consumed' = consumed
  BY <1>1, StepOrder, NothingFound DEF ProcessSubscription, SkipSubscription
<1>3. lived' = lived
  BY DEF ProcessSubscription, SkipSubscription, Silently
<1>4. PendingListed'
  BY <1>1, <1>3 DEF IInv, PendingListed
<1>5. CASE Silently({})
  BY <1>1, <1>2, <1>4, <1>5, StepOrder, ReadsStand
<1>6. CASE Silently({sub})
  BY <1>1, <1>2, <1>4, <1>6, StepOrder, ReadsStand
<1> QED BY <1>5, <1>6 DEF ProcessSubscription, SkipSubscription

\* The end of a request leaves no locals behind.
LEMMA InvEnd ==
  ASSUME IInv, Build, pc' = "idle", Forget, UNCHANGED cluster, status' \in {"failed", "answered"},
         AnswerJustified', AnswerComplete'
  PROVE  IInv'
<1>1. TypeOK'
  BY TypeBuild DEF IInv
<1>2. Window' /\ PendingListed'
  BY DEF IInv, Window, PendingListed, NoLocals, Forget
<1>3. pc' \notin AfterBrokers
  BY DEF AfterBrokers, Steps
<1>4. ReadsJustified'
  BY <1>3, StepOrder DEF ReadsJustified, Forget
<1>5. ReadsComplete'
  BY <1>3, StepOrder DEF ReadsComplete
<1> QED BY <1>1, <1>2, <1>4, <1>5 DEF IInv

LEMMA InvFail == IInv /\ (ListError \/ UnusableCRD \/ UnreadableTypes \/ SubscriberError) => IInv'
<1> SUFFICES ASSUME IInv, ListError \/ UnusableCRD \/ UnreadableTypes \/ SubscriberError PROVE IInv'
  OBVIOUS
<1>1. Fail /\ Build
  BY DEF ListError, UnusableCRD, UnreadableTypes, SubscriberError, Build
<1>2. AnswerJustified' /\ AnswerComplete'
  BY <1>1 DEF Fail, AnswerJustified, AnswerComplete
<1> QED BY <1>1, <1>2, InvEnd DEF Fail

\* The answer that Output gives is regular.
LEMMA OutputRegular ==
  ASSUME IInv, Output
  PROVE  Justified(mesh', lived) /\ Shows(mesh', Owed) /\ DOMAIN mesh' = Parts
<1>1. /\ mesh' = [brokers |-> brokers, subscribables |-> subscribables,
                  sources |-> {s[1] : s \in sources}, eventTypes |-> eventTypes,
                  provided |-> provided, consumed |-> consumed]
      /\ pc = "output"
  BY DEF Output
<1>2. lived \subseteq Objects
  BY DEF IInv, TypeOK
<1>3. Justified(mesh', lived)
  <2>1. {s[1] : s \in sources} \subseteq Sources(lived)
    BY DEF IInv, ReadsJustified, Sources
  <2>2. provided \subseteq Provided(lived)
    BY <1>2, ProvidedJustified DEF IInv
  <2> QED BY <1>1, <2>1, <2>2 DEF Justified, IInv, ReadsJustified
<1>4. Shows(mesh', Owed)
  <2>1. pc \in AfterTriggers /\ pc \in AfterEventTypes /\ pc \in AfterSources
        /\ pc \in AfterSubscribables /\ pc \in AfterBrokers
        /\ pc \notin {"subscribables", "sources", "eachTrigger"}
    BY <1>1, StepOrder
  <2>2. Brokers(Owed) \subseteq brokers /\ EventTypes(Owed) \subseteq eventTypes
    BY <2>1 DEF IInv, ReadsComplete
  <2>3. Subscribables(Owed) \subseteq subscribables
    BY <2>1 DEF IInv, ReadsComplete, Subscribables
  <2>4. Sources(Owed) \subseteq {s[1] : s \in sources}
    <3> SUFFICES ASSUME NEW p \in Sources(Owed) PROVE \E s \in sources : p = s[1]
      OBVIOUS
    <3>1. PICK crd \in Labelled(Owed, SourceDuck) : p \in Instances(Owed, crd)
      BY DEF Sources
    <3>2. <<p, crd.types>> \in sources
      BY <2>1, <3>1 DEF IInv, ReadsComplete
    <3> QED BY <3>2
  <2>5. Provided(Owed) \subseteq provided
    BY <2>1, ProvidedComplete DEF IInv
  <2>6. ConsumedByTriggers(Owed) \subseteq consumed
    BY <2>1, TriggerEntry DEF IInv, ReadsComplete
  <2> QED BY <1>1, <2>2, <2>3, <2>4, <2>5, <2>6 DEF Shows
<1>5. DOMAIN mesh' = Parts
  BY <1>1 DEF Parts
<1> QED BY <1>3, <1>4, <1>5

LEMMA InvOutput == IInv /\ Output => IInv'
<1> SUFFICES ASSUME IInv, Output PROVE IInv'
  OBVIOUS
<1>1. /\ Build /\ pc' = "idle" /\ Forget /\ status' = "answered"
      /\ UNCHANGED <<cluster, lived, lasting, excused>>
  BY DEF Output, Build
<1>2. AnswerJustified' /\ AnswerComplete'
  BY <1>1, OutputRegular DEF AnswerJustified, AnswerComplete, Owed
<1> QED BY <1>1, <1>2, InvEnd

LEMMA InvBuild == IInv /\ Build => IInv'
BY InvListBrokers, InvListSubscribableCRDs, InvListSourceCRDs, InvListSubscribables, InvListSources,
   InvListEventTypes, InvListTriggers, InvProcessTrigger, InvSkipTrigger, InvListSubscriptions,
   InvPassSubscription, InvFail, InvOutput DEF Build

\* The inductive invariant holds: how far BuildEventMesh has come determines which
\* of the lasting objects it has converted, and it has converted nothing else than
\* objects that lived.
THEOREM InvariantHolds == Spec => []IInv
<1>1. IInv /\ [Next]_vars => IInv'
  <2> SUFFICES ASSUME IInv, [Next]_vars PROVE IInv'
    OBVIOUS
  <2>1. CASE UNCHANGED vars
    <3>1. UNCHANGED <<cluster, changes, status, mesh, lived, lasting, excused, pc, locals>>
      BY <2>1 DEF vars, queryVars
    <3>2. TypeOK' /\ Window' /\ PendingListed' /\ AnswerJustified' /\ AnswerComplete'
      BY <3>1 DEF IInv, TypeOK, Window, NoLocals, PendingListed, AnswerJustified, AnswerComplete, locals
    <3>3. ReadsJustified' /\ ReadsComplete'
      BY <3>1, JustifiedKept, CompleteKept DEF IInv, Owed
    <3> QED BY <3>2, <3>3 DEF IInv
  <2> QED BY <2>1, InvChange, InvRequest, InvBuild DEF Next
<1> QED BY <1>1, InvInit, PTL DEF Spec

\* Every answer shows only what lived between request and answer.
THEOREM AnswersJustified == Spec => []AnswerJustified
<1>1. IInv => AnswerJustified
  BY DEF IInv
<1> QED BY <1>1, InvariantHolds, PTL

\* Every answer shows all that existed from request to answer, but for the objects
\* whose failed read was tolerated.
THEOREM AnswersComplete == Spec => []AnswerComplete
<1>1. IInv => AnswerComplete
  BY DEF IInv
<1> QED BY <1>1, InvariantHolds, PTL

\* BuildEventMesh implements a regular query of the cluster: each step is a change of
\* the cluster, a request, a tolerated error, a regular answer, a refusal or no step.
THEOREM BuilderImplementsQuery == Spec => QuerySpec
<1>1. Init => QueryInit
  BY DEF Init
<1>2. IInv /\ [Next]_vars => [QueryNext]_queryVars
  <2> SUFFICES ASSUME IInv, [Next]_vars PROVE [QueryNext]_queryVars
    OBVIOUS
  <2>1. CASE Change \/ Request \/ UNCHANGED vars
    BY <2>1 DEF Request, QueryNext, vars
  <2>2. ASSUME NEW tolerated \in SUBSET Objects, Silently(tolerated), Build
        PROVE  Tolerate
    <3>1. pc # "idle"
      BY <2>2 DEF Build, ListBrokers, ListSubscribableCRDs, ListSourceCRDs, ListCRDs, ListSubscribables,
         ListSources, ListEventTypes, ListTriggers, ProcessTrigger, SkipTrigger, ListSubscriptions,
         ProcessSubscription, SkipSubscription, ListError, UnusableCRD, UnreadableTypes,
         SubscriberError, Output
    <3> QED BY <2>2, <3>1 DEF Silently, Tolerate, IInv, TypeOK
  <2>3. CASE Fail /\ pc # "idle"
    BY <2>3 DEF Fail, IInv, TypeOK, Refuse, QueryNext
  <2>4. CASE Output
    <3>1. Answer
      BY <2>4, OutputRegular DEF Output, Answer, IInv, TypeOK, Owed
    <3> QED BY <3>1 DEF QueryNext
  <2>5. ASSUME Build
        PROVE  (\E tolerated \in SUBSET Objects : Silently(tolerated)) \/ (Fail /\ pc # "idle") \/ Output
    <3>1. {} \in SUBSET Objects /\ CRDs(Objects) \in SUBSET Objects /\ \A o \in pending : {o} \in SUBSET Objects
      BY ListsWithin DEF IInv, TypeOK
    <3> QED BY <2>5, <3>1 DEF Build, ListBrokers, ListSubscribableCRDs, ListSourceCRDs, ListCRDs,
         ListSubscribables, ListSources, ListEventTypes, ListTriggers, ProcessTrigger, SkipTrigger,
         ListSubscriptions, ProcessSubscription, SkipSubscription, ListError, UnusableCRD,
         UnreadableTypes, SubscriberError
  <2> QED BY <2>1, <2>2, <2>3, <2>4, <2>5 DEF Next, QueryNext
<1> QED BY <1>1, <1>2, InvariantHolds, PTL DEF Spec, QuerySpec
=============================================================================
