-------------------------- MODULE MeshAnswerProofs --------------------------
(***************************************************************************)
(* Theorems about MeshBuilder that rest on its inductive invariant: the    *)
(* failure of a trigger's subscriber costs that trigger only, races cost   *)
(* nothing, and an answer refers to nothing outside itself.                *)
(***************************************************************************)
EXTENDS MeshBuilderProofs

----------------------------------------------------------------------------
(* Failures. *)

\* Failing to read the subscriber of one trigger leaves the request open, keeps what was
\* collected, and costs the consumers of triggers that are done with.
THEOREM TriggersIsolated == Spec => TriggerErrorsIsolated
  <1>1. ASSUME IInv, Next, pc = "eachTrigger"
        PROVE  status' = "open" /\ consumed \subseteq consumed' /\ excused' \ excused \subseteq pending \ pending'
    <2>1. status = "open"
      BY <1>1 DEF IInv, TypeOK
    <2>2. CASE Change /\ UNCHANGED <<pc, locals>>
      BY <1>1, <2>1, <2>2, ChangeSeen DEF IInv, TypeOK, locals
    <2>3. CASE Request
      BY <2>1, <2>3 DEF Request, Open
    <2>4. CASE Build
      <3>1. PICK t \in pending : ProcessTrigger(t) \/ SkipTrigger(t)
        BY <1>1, <2>4 DEF Build, ListBrokers, ListSubscribableCRDs, ListSourceCRDs, ListCRDs, ListSubscribables,
           ListSources, ListEventTypes, ListTriggers, ListSubscriptions, ProcessSubscription,
           SkipSubscription, ListError, UnusableCRD, UnreadableTypes, SubscriberError, Output
      <3>2. pending' = pending \ {t} /\ consumed \subseteq consumed' /\ status' = status
            /\ (excused' = excused \cup {t} \/ excused' = excused)
        BY <3>1 DEF ProcessTrigger, SkipTrigger, Loop, Silently
      <3> QED BY <2>1, <3>2
    <2> QED BY <1>1, <2>2, <2>3, <2>4 DEF Next
  <1>2. ASSUME IInv, [Next]_vars
        PROVE  [pc = "eachTrigger" => /\ status' = "open" /\ consumed \subseteq consumed'
                                      /\ excused' \ excused \subseteq pending \ pending']_vars
    BY <1>1, <1>2
  <1> QED BY <1>2, InvariantHolds, PTL DEF Spec, TriggerErrorsIsolated

\* A request fails only over a CRD that lived and is malformed.
LEMMA OnlyMalformedFails ==
  ASSUME Errors = {}, IInv, ListError \/ UnusableCRD \/ UnreadableTypes \/ SubscriberError
  PROVE  \E crd \in CRDs(lived) : ~crd.gvr \/ ~crd.json
  <1>1. UnusableCRD \/ UnreadableTypes
    BY DEF ListError, SubscriberError
  <1>2. PICK crd \in pending : /\ pc \in {"subscribables", "sources"}
                               /\ ~crd.gvr \/ ~crd.json
    BY <1>1 DEF UnusableCRD, UnreadableTypes
  <1>3. crd \in CRDs(lived)
    BY <1>2 DEF IInv, PendingListed, Labelled
  <1> QED BY <1>2, <1>3

\* Listing the instances of a CRD misses what is there only when the CRD was replaced.
LEMMA OnlyReplacedMissed ==
  ASSUME Errors = {}, IInv, NEW crd \in pending, ListSubscribables(crd) \/ ListSources(crd)
  PROVE  Silently({}) \/ (Silently({crd}) /\ crd \in CRDs(Objects) \ lasting)
  <1>1. Silently({}) \/ (Silently({crd}) /\ Outdated(crd))
    BY DEF ListSubscribables, ListSources
  <1>2. lasting \subseteq cluster
    BY DEF ListSubscribables, ListSources, IInv, TypeOK, Window
  <1>3. crd \in CRDs(Objects)
    BY ListsMonotone DEF ListSubscribables, ListSources, IInv, TypeOK, PendingListed, Labelled
  <1> QED BY <1>1, <1>2, <1>3 DEF Outdated

\* When the API server answers every call, nothing that comes and goes during the reads
\* fails a request, and nothing that stays is missed on account of a failed read.
THEOREM RacesCost == Spec => []RacesCostNothing
  <1> DEFINE Replaced == excused \subseteq CRDs(Objects) \ lasting
             Blamed == status = "failed" => \E crd \in CRDs(lived) : ~crd.gvr \/ ~crd.json
  <1>1. Init => RacesCostNothing
    BY DEF Init, QueryInit, RacesCostNothing
  <1>2. ASSUME IInv, RacesCostNothing, Next, Errors = {}
        PROVE  Replaced' /\ Blamed'
    <2>1. Replaced /\ Blamed
      BY <1>2 DEF RacesCostNothing
    <2>2. CASE Change
      <3>1. UNCHANGED <<status, excused>> /\ (status = "failed" => lived' = lived) /\ lasting' \subseteq lasting
        BY <1>2, <2>2, ChangeSeen DEF IInv, TypeOK
      <3> QED BY <2>1, <3>1
    <2>3. CASE Request
      BY <2>3 DEF Request, Open
    <2>4. CASE Output
      BY <2>1, <2>4 DEF Output
    <2>5. CASE ListError \/ UnusableCRD \/ UnreadableTypes \/ SubscriberError
      <3>1. lived' = lived /\ lasting' = lasting /\ excused' = excused
        BY <2>5 DEF ListError, UnusableCRD, UnreadableTypes, SubscriberError, Fail
      <3> QED BY <1>2, <2>1, <2>5, <3>1, OnlyMalformedFails
    <2>6. ASSUME pc # "idle", NEW missed, missed \subseteq CRDs(Objects) \ lasting, Silently(missed)
          PROVE  Replaced' /\ Blamed'
      <3>1. status # "failed"
        BY <1>2, <2>6 DEF IInv, TypeOK
      <3> QED BY <2>1, <2>6, <3>1 DEF Silently
    <2>7. CASE Build
      <3>1. pc # "idle"
        BY <2>7 DEF Build, ListBrokers, ListSubscribableCRDs, ListSourceCRDs, ListCRDs, ListSubscribables,
           ListSources, ListEventTypes, ListTriggers, ListSubscriptions, ProcessSubscription,
           SkipSubscription, ProcessTrigger, SkipTrigger, ListError, UnusableCRD, UnreadableTypes,
           SubscriberError, Output
      <3>2. CASE \E crd \in pending : ListSubscribables(crd) \/ ListSources(crd)
        <4>1. PICK crd \in pending : ListSubscribables(crd) \/ ListSources(crd)
          BY <3>2
        <4> QED BY <1>2, <2>6, <3>1, <4>1, OnlyReplacedMissed
      <3>3. CASE Silently({})
        BY <2>6, <3>1, <3>3
      <3>4. \/ ListError \/ UnusableCRD \/ UnreadableTypes \/ SubscriberError \/ Output \/ Silently({})
            \/ \E crd \in pending : ListSubscribables(crd) \/ ListSources(crd)
        BY <1>2, <2>7 DEF Build, ListBrokers, ListSubscribableCRDs, ListSourceCRDs, ListCRDs,
           ListEventTypes, ListTriggers, ListSubscriptions, ProcessSubscription,
           SkipSubscription, ProcessTrigger, SkipTrigger
      <3> QED BY <2>4, <2>5, <3>2, <3>3, <3>4
    <2> QED BY <1>2, <2>2, <2>3, <2>7 DEF Next
  <1>3. IInv /\ RacesCostNothing /\ [Next]_vars => RacesCostNothing'
    <2>1. UNCHANGED vars /\ RacesCostNothing => RacesCostNothing'
      BY DEF vars, queryVars, RacesCostNothing
    <2> QED BY <1>2, <2>1 DEF RacesCostNothing
  <1> QED BY <1>1, <1>3, InvariantHolds, PTL DEF Spec

----------------------------------------------------------------------------
(* An answer is closed. *)

\* Kubernetes accepts the kind of a group for one CRD only (the condition NamesAccepted).
OneCRDPerKind == \A c, d \in CRDs(Objects) : c.defines = d.defines => KeyOf(c) = KeyOf(d)

\* No two versions of a broker or subscribable are converted: each list is read once, and
\* each CRD's instances are.
KeyedOnce ==
  /\ \A a, b \in brokers : KeyOf(a) = KeyOf(b) => a = b
  /\ \A a, b \in subscribables : KeyOf(a) = KeyOf(b) => a = b
  /\ pc \in {"brokers", "subscribableCRDs"} => subscribables = {}
  /\ pc = "subscribables" =>
       \A crd \in pending : /\ \A s \in subscribables : <<s.group, s.kind>> # crd.defines
                            /\ \A d \in pending : d.defines = crd.defines => d = crd

\* An event type has consumers through a broker that provides it.
ConsumersProvided == \A c \in consumed : \E p \in provided : p[2] = c[1] /\ p[1] \in brokers

CInv == KeyedOnce /\ ConsumersProvided /\ AnswerClosed

\* Nothing refers to anything yet.
LEMMA NothingClosed ==
  /\ NoLocals => KeyedOnce /\ ConsumersProvided
  /\ mesh = EmptyMesh => AnswerClosed
  BY DEF NoLocals, KeyedOnce, ConsumersProvided, AnswerClosed, EmptyMesh

LEMMA NothingClosedThen ==
  /\ NoLocals' => KeyedOnce' /\ ConsumersProvided'
  /\ mesh' = EmptyMesh => AnswerClosed'
  BY DEF NoLocals, KeyedOnce, ConsumersProvided, AnswerClosed, EmptyMesh

\* A step past the subscribables that leaves the lists and the answer alone.
LEMMA ClosedKept ==
  ASSUME CInv, UNCHANGED <<brokers, subscribables, provided, consumed, mesh>>,
         pc' \notin {"brokers", "subscribableCRDs", "subscribables"}
  PROVE  CInv'
  <1>1. KeyedOnce'
    BY DEF CInv, KeyedOnce
  <1>2. ConsumersProvided'
    BY DEF CInv, ConsumersProvided
  <1>3. AnswerClosed'
    BY DEF CInv, AnswerClosed
  <1> QED BY <1>1, <1>2, <1>3 DEF CInv

LEMMA ClosedBrokers == IInv /\ CInv /\ ListBrokers => CInv'
  <1> SUFFICES ASSUME IInv, CInv, ListBrokers PROVE CInv'
    OBVIOUS
  <1>1. /\ pc = "brokers" /\ pc' = "subscribableCRDs" /\ brokers' = Brokers(cluster)
        /\ UNCHANGED <<subscribables, provided, consumed, mesh>>
    BY DEF ListBrokers, Silently
  <1>2. UniqueKeys(cluster) /\ provided = {}
    BY <1>1, StepOrder DEF IInv, Window, ReadsJustified
  <1>3. KeyedOnce'
    BY <1>1, <1>2 DEF CInv, KeyedOnce, UniqueKeys, Brokers
  <1>4. ConsumersProvided'
    BY <1>1, <1>2 DEF CInv, ConsumersProvided
  <1>5. AnswerClosed'
    BY <1>1 DEF CInv, AnswerClosed
  <1> QED BY <1>3, <1>4, <1>5 DEF CInv

LEMMA ClosedSubscribableCRDs == OneCRDPerKind /\ IInv /\ CInv /\ ListSubscribableCRDs => CInv'
  <1> SUFFICES ASSUME OneCRDPerKind, IInv, CInv, ListSubscribableCRDs PROVE CInv'
    OBVIOUS
  <1>1. /\ pc = "subscribableCRDs" /\ pc' \in {"subscribables", "sourceCRDs"}
        /\ pending' = Labelled(cluster, SubscribableDuck) \/ pending' = {}
        /\ UNCHANGED <<brokers, subscribables, provided, consumed, mesh>>
    BY DEF ListSubscribableCRDs, ListCRDs, Loop, Silently
  <1>2. subscribables = {}
    BY <1>1 DEF CInv, KeyedOnce
  <1>3. ASSUME NEW c \in pending', NEW d \in pending', c.defines = d.defines PROVE c = d
    <2>1. c \in cluster /\ d \in cluster /\ c \in CRDs(Objects) /\ d \in CRDs(Objects)
      BY <1>1, <1>3 DEF Labelled, CRDs, IInv, TypeOK
    <2> QED BY <1>3, <2>1 DEF OneCRDPerKind, IInv, Window, UniqueKeys
  <1>4. KeyedOnce'
    BY <1>1, <1>2, <1>3 DEF CInv, KeyedOnce
  <1>5. ConsumersProvided' /\ AnswerClosed'
    BY <1>1 DEF CInv, ConsumersProvided, AnswerClosed
  <1> QED BY <1>4, <1>5 DEF CInv

LEMMA ClosedSubscribables ==
  ASSUME IInv, CInv, NEW crd \in pending, ListSubscribables(crd)
  PROVE  CInv'
  <1>1. /\ pc = "subscribables" /\ pc' \in {"subscribables", "sourceCRDs"} /\ pending' = pending \ {crd}
        /\ subscribables' = subscribables \cup Instances(cluster, crd) \/ subscribables' = subscribables
        /\ UNCHANGED <<brokers, provided, consumed, mesh>>
    BY DEF ListSubscribables, Loop, Silently
  <1>2. /\ \A a, b \in subscribables : KeyOf(a) = KeyOf(b) => a = b
        /\ \A c \in pending : /\ \A s \in subscribables : <<s.group, s.kind>> # c.defines
                              /\ \A d \in pending : d.defines = c.defines => d = c
    BY <1>1 DEF CInv, KeyedOnce
  <1>3. \A a, b : KeyOf(a) = KeyOf(b) => <<a.group, a.kind>> = <<b.group, b.kind>>
    BY DEF KeyOf, GKNamespacedName
  <1>4. \A s \in Instances(cluster, crd) : <<s.group, s.kind>> = crd.defines /\ s \in cluster
    BY DEF Instances
  <1>5. ASSUME NEW a \in subscribables', NEW b \in subscribables', KeyOf(a) = KeyOf(b) PROVE a = b
    <2>1. UniqueKeys(cluster)
      BY DEF IInv, Window
    <2>2. CASE a \in subscribables /\ b \in subscribables
      BY <1>2, <1>5, <2>2
    <2>3. CASE a \in Instances(cluster, crd) /\ b \in Instances(cluster, crd)
      BY <1>4, <1>5, <2>1, <2>3 DEF UniqueKeys
    <2>4. <<a.group, a.kind>> = <<b.group, b.kind>>
      BY <1>3, <1>5
    <2>5. ~(a \in subscribables /\ b \in Instances(cluster, crd)) /\ ~(b \in subscribables /\ a \in Instances(cluster, crd))
      BY <1>2, <1>4, <2>4
    <2> QED BY <1>1, <2>2, <2>3, <2>5
  <1>6. ASSUME NEW c \in pending', NEW s \in subscribables' PROVE <<s.group, s.kind>> # c.defines
    <2>1. c \in pending /\ c # crd /\ c.defines # crd.defines
      BY <1>1, <1>2
    <2> QED BY <1>1, <1>2, <1>4, <2>1
  <1>7. KeyedOnce'
    BY <1>1, <1>2, <1>5, <1>6 DEF CInv, KeyedOnce
  <1>8. ConsumersProvided' /\ AnswerClosed'
    BY <1>1 DEF CInv, ConsumersProvided, AnswerClosed
  <1> QED BY <1>7, <1>8 DEF CInv

LEMMA ClosedEventTypes == IInv /\ CInv /\ ListEventTypes => CInv'
  <1> SUFFICES ASSUME IInv, CInv, ListEventTypes PROVE CInv'
    OBVIOUS
  <1>1. pc = "eventTypes" /\ pc' = "triggers" /\ UNCHANGED <<brokers, subscribables, consumed, mesh>>
    BY DEF ListEventTypes, Silently
  <1>2. provided = {}
    BY <1>1, StepOrder DEF IInv, ReadsJustified
  <1>3. consumed = {}
    BY <1>2 DEF CInv, ConsumersProvided
  <1>4. KeyedOnce' /\ AnswerClosed'
    BY <1>1 DEF CInv, KeyedOnce, AnswerClosed
  <1>5. ConsumersProvided'
    BY <1>1, <1>3 DEF ConsumersProvided
  <1> QED BY <1>4, <1>5 DEF CInv

LEMMA ClosedProcessTrigger ==
  ASSUME CInv, NEW t \in pending, ProcessTrigger(t)
  PROVE  CInv'
  <1>1. /\ pc' \in {"eachTrigger", "subscriptions"} /\ consumed' = consumed \cup TriggerEntries(t)
        /\ UNCHANGED <<brokers, subscribables, provided, mesh>>
    BY DEF ProcessTrigger, Loop, Silently
  <1>2. ASSUME NEW c \in TriggerEntries(t) PROVE \E p \in provided : p[2] = c[1] /\ p[1] \in brokers
    <2>1. PICK b \in brokers : \E et \in Collected(t, b), id \in SubscriberIds(t) : c = <<NameOf(et), id, t>>
      BY DEF TriggerEntries
    <2>2. PICK et \in Collected(t, b), id \in SubscriberIds(t) : c = <<NameOf(et), id, t>>
      BY <2>1
    <2>3. <<b, NameOf(et)>> \in provided
      BY DEF Collected
    <2> QED BY <2>2, <2>3
  <1>3. KeyedOnce' /\ AnswerClosed'
    BY <1>1 DEF CInv, KeyedOnce, AnswerClosed
  <1>4. ConsumersProvided'
    BY <1>1, <1>2 DEF CInv, ConsumersProvided
  <1> QED BY <1>3, <1>4 DEF CInv

\* One broker or subscribable at most provides an event type, in what is registered.
LEMMA RegisteredOnce ==
  ASSUME IInv, KeyedOnce, NEW p \in Registered(eventTypes), NEW q \in Registered(eventTypes), p[2] = q[2]
  PROVE  p[1] = q[1]
  <1>1. PICK et \in eventTypes, x \in brokers \cup subscribables :
          /\ p = <<x, NameOf(et)>> /\ KeyOf(x) \in ReferenceKeys(et)
          /\ x \in brokers \/ \A b \in brokers : KeyOf(b) \notin ReferenceKeys(et)
    BY RegisteredEntry
  <1>2. PICK eu \in eventTypes, y \in brokers \cup subscribables :
          /\ q = <<y, NameOf(eu)>> /\ KeyOf(y) \in ReferenceKeys(eu)
          /\ y \in brokers \/ \A b \in brokers : KeyOf(b) \notin ReferenceKeys(eu)
    BY RegisteredEntry
  <1>3. et = eu
    BY <1>1, <1>2 DEF IInv, ReadsJustified
  <1>4. et \in EventTypes(Objects)
    BY ListsMonotone DEF IInv, TypeOK, ReadsJustified
  <1>5. KeyOf(x) = KeyOf(y)
    BY <1>1, <1>2, <1>3, <1>4, OneReference
  <1>6. (x \in brokers /\ y \in brokers) \/ (x \in subscribables /\ y \in subscribables)
    BY <1>1, <1>2, <1>3
  <1>7. x = y
    BY <1>5, <1>6 DEF KeyedOnce
  <1> QED BY <1>1, <1>2, <1>7

LEMMA ClosedOutput == IInv /\ CInv /\ Output => CInv'
  <1> SUFFICES ASSUME IInv, CInv, Output PROVE CInv'
    OBVIOUS
  <1> DEFINE names == {NameOf(et) : et \in eventTypes}
             direct == brokers \cup subscribables
             annotated == {s[1] : s \in sources}
  <1>1. /\ pc = "output" /\ NoLocals'
        /\ mesh' = [brokers |-> brokers, subscribables |-> subscribables, sources |-> annotated,
                    eventTypes |-> eventTypes, provided |-> provided, consumed |-> consumed]
    BY DEF Output, Forget, NoLocals
  <1>2. provided = Registered(eventTypes) \cup SourceTypes(eventTypes)
    BY <1>1, StepOrder DEF IInv, ReadsJustified
  <1>3. ASSUME NEW p \in Registered(eventTypes) PROVE p[1] \in direct /\ p[2] \in names
    <2>1. PICK et \in eventTypes, x \in brokers \cup subscribables : p = <<x, NameOf(et)>>
      BY RegisteredEntry
    <2> QED BY <2>1
  <1>4. ASSUME NEW p \in SourceTypes(eventTypes) PROVE p[1] \in annotated /\ p[2] \in names
    <2>1. PICK s \in sources, et \in eventTypes : p = <<s[1], NameOf(et)>>
      BY SourceEntry
    <2> QED BY <2>1
  <1>5. \A p \in provided : p[1] \in direct \cup annotated /\ p[2] \in names
    BY <1>2, <1>3, <1>4
  <1>6. ASSUME NEW p \in provided, NEW q \in provided, p[2] = q[2], p[1] \notin annotated, q[1] \notin annotated
        PROVE  p[1] = q[1]
    <2>1. p \in Registered(eventTypes) /\ q \in Registered(eventTypes)
      BY <1>2, <1>4, <1>6
    <2> QED BY <1>6, <2>1, RegisteredOnce DEF CInv
  <1>7. \A c \in consumed : \E p \in provided : p[2] = c[1] /\ p[1] \in direct
    BY DEF CInv, ConsumersProvided
  <1>8. AnswerClosed'
    <2>1. /\ mesh'.brokers = brokers /\ mesh'.subscribables = subscribables /\ mesh'.sources = annotated
          /\ mesh'.eventTypes = eventTypes /\ mesh'.provided = provided /\ mesh'.consumed = consumed
      BY <1>1
    <2> HIDE DEF annotated
    <2> QED BY <1>5, <1>6, <1>7, <2>1 DEF AnswerClosed
  <1> QED BY <1>1, <1>8, NothingClosedThen DEF CInv

LEMMA ClosedBuild == OneCRDPerKind /\ IInv /\ CInv /\ Build => CInv'
  <1> SUFFICES ASSUME OneCRDPerKind, IInv, CInv, Build PROVE CInv'
    OBVIOUS
  <1>1. CASE ListBrokers \/ ListSubscribableCRDs \/ ListEventTypes \/ Output
    BY <1>1, ClosedBrokers, ClosedSubscribableCRDs, ClosedEventTypes, ClosedOutput
  <1>2. CASE \E crd \in pending : ListSubscribables(crd)
    BY <1>2, ClosedSubscribables
  <1>3. CASE \E t \in pending : ProcessTrigger(t)
    BY <1>3, ClosedProcessTrigger
  <1>4. CASE ListSourceCRDs \/ \E crd \in pending : ListSources(crd)
    BY <1>4, ClosedKept DEF ListSourceCRDs, ListCRDs, ListSources, Loop, Silently
  <1>5. CASE ListTriggers \/ ListSubscriptions \/ \E t \in pending : SkipTrigger(t) \/ SkipSubscription(t)
    BY <1>5, ClosedKept DEF ListTriggers, ListSubscriptions, SkipTrigger, SkipSubscription, Loop, Silently
  <1>6. ASSUME NEW sub \in pending, ProcessSubscription(sub) PROVE CInv'
    <2>1. /\ pc = "eachSubscription" /\ pc' \in {"eachSubscription", "output"}
          /\ UNCHANGED <<brokers, subscribables, provided, mesh>>
          /\ consumed' = consumed \cup SubscriptionEntries(sub)
      BY <1>6 DEF ProcessSubscription, Loop, Silently
    <2>2. consumed' = consumed
      BY <2>1, StepOrder, NothingFound
    <2> QED BY <2>1, <2>2, ClosedKept
  <1>7. CASE ListError \/ UnusableCRD \/ UnreadableTypes \/ SubscriberError
    <2>1. NoLocals' /\ mesh' = EmptyMesh
      BY <1>7 DEF ListError, UnusableCRD, UnreadableTypes, SubscriberError, Fail, Forget, NoLocals
    <2> QED BY <2>1, NothingClosedThen DEF CInv
  <1> QED BY <1>1, <1>2, <1>3, <1>4, <1>5, <1>6, <1>7 DEF Build

LEMMA ClosedNext == OneCRDPerKind /\ IInv /\ CInv /\ [Next]_vars => CInv'
  <1> SUFFICES ASSUME OneCRDPerKind, IInv, CInv, [Next]_vars PROVE CInv'
    OBVIOUS
  <1>1. CASE (Change /\ UNCHANGED <<pc, locals>>) \/ UNCHANGED vars
    <2>1. UNCHANGED <<mesh, pc, pending, brokers, subscribables, provided, consumed>>
      BY <1>1, ChangeSeen DEF IInv, TypeOK, locals, vars, queryVars
    <2>2. KeyedOnce'
      BY <2>1 DEF CInv, KeyedOnce
    <2>3. ConsumersProvided' /\ AnswerClosed'
      BY <2>1 DEF CInv, ConsumersProvided, AnswerClosed
    <2> QED BY <2>2, <2>3 DEF CInv
  <1>2. CASE Request
    <2>1. NoLocals' /\ mesh' = EmptyMesh
      BY <1>2 DEF Request, Open, IInv, Window, NoLocals, locals
    <2> QED BY <2>1, NothingClosedThen DEF CInv
  <1> QED BY <1>1, <1>2, ClosedBuild DEF Next

\* With one CRD per kind, all that leads to a closed answer always holds.
LEMMA ClosedAlways ==
  ASSUME OneCRDPerKind
  PROVE  Spec => []CInv
  <1>1. Init => CInv
    BY NothingClosed DEF Init, QueryInit, CInv
  <1>2. IInv /\ CInv /\ [Next]_vars => CInv'
    BY ClosedNext
  <1> QED BY <1>1, <1>2, InvariantHolds, PTL DEF Spec

\* With one CRD per kind, an answer refers only to itself, and an event type has one
\* provider besides sources in it, although the lists are read one after the other.
THEOREM AnswersClosed ==
  ASSUME OneCRDPerKind
  PROVE  Spec => []AnswerClosed
  <1>1. CInv => AnswerClosed
    BY DEF CInv
  <1> QED BY <1>1, ClosedAlways, PTL
=============================================================================
