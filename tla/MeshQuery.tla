----------------------------- MODULE MeshQuery -----------------------------
(***************************************************************************)
(* What GET /v1/getEventMesh promises, without saying how.                 *)
(*                                                                         *)
(* The backend cannot read the cluster atomically: it lists one kind after *)
(* the other and fetches the subscribers one by one, while other clients   *)
(* of the API server create, update and delete objects.  So the answer     *)
(* is no snapshot.  It is regular, as a register without write locks is:   *)
(*   - what it shows was justified by objects that existed at some moment  *)
(*     between the request and the answer (they need not have existed at   *)
(*     the same moment), and                                               *)
(*   - what is justified by objects that existed all that time is shown,   *)
(*     except for objects whose read failed in a way the backend tolerates.*)
(* The module states the mesh of a set of objects as plain relations, so   *)
(* that the backend's algorithm is compared with something simpler than    *)
(* itself.                                                                 *)
(***************************************************************************)
EXTENDS MeshObjects, FiniteSets, Naturals

CONSTANTS
  Objects,        \* every object that may ever exist
  StartClusters,  \* the clusters a run may start from
  MaxChanges      \* bound: changes of the cluster in one behaviour

\* One object per key.
UniqueKeys(C) == \A a, b \in C : KeyOf(a) = KeyOf(b) => a = b

\* Some CRD of C serves the kind that crd defines.
Serves(C, crd) == \E d \in CRDs(C) : d.defines = crd.defines /\ d.gvr

\* Instances only of CRDs that serve them: nobody can list or get any other.
Defined(C) == \A crd \in CRDs(Objects) : Instances(C, crd) # {} => Serves(C, crd)

\* The clusters to start from are ones an API server can hold.
ASSUME StartAssumption ==
  \A C \in StartClusters : C \subseteq Objects /\ UniqueKeys(C) /\ Defined(C)

ASSUME BoundAssumption == MaxChanges \in Nat

\* No CRD with one of the duck labels defines Knative's Broker kind.
ASSUME BrokerAssumption ==
  \A crd \in Labelled(Objects, SubscribableDuck) \cup Labelled(Objects, SourceDuck) :
    crd.defines # <<EventingGroup, "Broker">>

\* An event type has one reference at most.
ASSUME ReferenceAssumption == \A et \in EventTypes(Objects) : \A r, q \in et.ref : r = q

VARIABLES
  cluster,  \* the objects that exist now, which the API server serves
  changes,  \* changes so far
  status,   \* "none" before the first request, "open" during one, then "failed" or "answered"
  mesh,     \* the answer
  lived,    \* objects that existed at some moment of the request
  lasting,  \* objects that have existed ever since the request began
  excused   \* objects whose failed read was tolerated

queryVars == <<cluster, changes, status, mesh, lived, lasting, excused>>

----------------------------------------------------------------------------
(* The event mesh of a set C of objects.  An entry <<p, n>> of "provided"  *)
(* says that object p provides the event type named n; an entry            *)
(* <<n, id, via>> of "consumed" says that the trigger or subscription via  *)
(* takes the event type named n to a workload with Backstage id id.        *)

Provides(C, p, et) ==
  \/ p \in Brokers(C) \cup Subscribables(C) /\ KeyOf(p) \in ReferenceKeys(et)
  \/ \E crd \in Labelled(C, SourceDuck) : p \in Instances(C, crd) /\ et.type \in crd.types

Provided(C) ==
  {<<x[1], NameOf(x[2])>> : x \in {y \in C \X EventTypes(C) : Provides(C, y[1], y[2])}}

Delivers(via, s) == KeyOf(s) \in via.subscriber /\ BackstageId(s) # ""

\* Trigger t takes events of type et from a broker to workload s.
Triggered(C, t, et, s) ==
  /\ Delivers(t, s)
  /\ Wants(t, et)
  /\ \E b \in Brokers(C) : KeyOf(b) = BrokerKey(t) /\ KeyOf(b) \in ReferenceKeys(et)

\* Subscription sub takes events of type et from a channel to workload s.
Subscribed(C, sub, et, s) ==
  /\ Delivers(sub, s)
  /\ \E ch \in Subscribables(C) : KeyOf(ch) = ChannelKey(sub) /\ KeyOf(ch) \in ReferenceKeys(et)

ConsumedByTriggers(C) ==
  {<<NameOf(x[2]), BackstageId(x[3]), x[1]>> :
     x \in {y \in Triggers(C) \X EventTypes(C) \X C : Triggered(C, y[1], y[2], y[3])}}

ConsumedBySubscriptions(C) ==
  {<<NameOf(x[2]), BackstageId(x[3]), x[1]>> :
     x \in {y \in Subscriptions(C) \X EventTypes(C) \X C : Subscribed(C, y[1], y[2], y[3])}}

\* m shows nothing that C does not justify.
Justified(m, C) ==
  /\ m.brokers \subseteq Brokers(C)
  /\ m.subscribables \subseteq Subscribables(C)
  /\ m.sources \subseteq Sources(C)
  /\ m.eventTypes \subseteq EventTypes(C)
  /\ m.provided \subseteq Provided(C)
  /\ m.consumed \subseteq ConsumedByTriggers(C) \cup ConsumedBySubscriptions(C)

\* m shows all that C justifies, consumers behind subscriptions left out: the
\* code never shows those (SubscriptionConsumersShown in MeshBuilder).
Shows(m, C) ==
  /\ Brokers(C) \subseteq m.brokers
  /\ Subscribables(C) \subseteq m.subscribables
  /\ Sources(C) \subseteq m.sources
  /\ EventTypes(C) \subseteq m.eventTypes
  /\ Provided(C) \subseteq m.provided
  /\ ConsumedByTriggers(C) \subseteq m.consumed

\* The six parts of an answer; a failed request answers with none of them.
Parts == {"brokers", "subscribables", "sources", "eventTypes", "provided", "consumed"}

EmptyMesh == [brokers |-> {}, subscribables |-> {}, sources |-> {},
              eventTypes |-> {}, provided |-> {}, consumed |-> {}]

----------------------------------------------------------------------------
(* The cluster: other clients of the API server. *)

\* The request's window watches the change of the cluster to C.
Watch(C) ==
  IF status = "open"
    THEN lived' = lived \cup C /\ lasting' = lasting \cap C
    ELSE UNCHANGED <<lived, lasting>>

ChangeTo(C) ==
  /\ changes < MaxChanges
  /\ UniqueKeys(C) /\ Defined(C)
  /\ cluster' = C /\ Watch(C)
  /\ changes' = changes + 1
  /\ UNCHANGED <<status, mesh, excused>>

\* Creates o, or replaces the object with o's key.  When o is a CRD that serves no
\* version its instances are out of reach, and come back, in steps of their own, once
\* they are served again.
Apply(o) ==
  LET others == {x \in cluster : KeyOf(x) # KeyOf(o)}
      hidden == IF o \in CRDs(Objects) /\ ~o.gvr THEN Instances(cluster, o) ELSE {}
  IN o \notin cluster /\ ChangeTo((others \ hidden) \cup {o})

\* Deletes o; with a CRD its instances go.
Remove(o) ==
  LET instances == IF o \in CRDs(cluster) THEN Instances(cluster, o) ELSE {}
  IN o \in cluster /\ ChangeTo(cluster \ ({o} \cup instances))

Change == \E o \in Objects : Apply(o) \/ Remove(o)

----------------------------------------------------------------------------
(* A request. *)

Open ==
  /\ status # "open"
  /\ status' = "open"
  /\ mesh' = EmptyMesh
  /\ lived' = cluster
  /\ lasting' = cluster
  /\ excused' = {}
  /\ UNCHANGED <<cluster, changes>>

\* Some reads fail, and the backend goes on.
Tolerate ==
  /\ status = "open"
  /\ \E more \in SUBSET Objects : excused' = excused \cup more
  /\ UNCHANGED <<cluster, changes, status, mesh, lived, lasting>>

Answer ==
  /\ status = "open"
  /\ status' = "answered"
  /\ DOMAIN mesh' = Parts
  /\ Justified(mesh', lived)
  /\ Shows(mesh', lasting \ excused)
  /\ UNCHANGED <<cluster, changes, lived, lasting, excused>>

Refuse ==
  /\ status = "open"
  /\ status' = "failed"
  /\ mesh' = EmptyMesh
  /\ UNCHANGED <<cluster, changes, lived, lasting, excused>>

QueryInit ==
  /\ cluster \in StartClusters
  /\ changes = 0
  /\ status = "none"
  /\ mesh = EmptyMesh
  /\ lived = {} /\ lasting = {} /\ excused = {}

QueryNext == Change \/ Open \/ Tolerate \/ Answer \/ Refuse

QuerySpec == QueryInit /\ [][QueryNext]_queryVars
=============================================================================
