---------------------------- MODULE MeshObjects ----------------------------
(***************************************************************************)
(* The Kubernetes objects the event mesh backend reads, and how it names   *)
(* them and relates them (backends/pkg/eventmesh/v1 and backends/pkg/util).*)
(*                                                                         *)
(* An object is a record.  Every object has                                *)
(*   group, kind, ns, name    its API group, kind, namespace and name      *)
(* and the kinds the backend looks into have more:                         *)
(*   EventType     type; ref: {} or { [apiVersion, kind, name] }           *)
(*   Trigger       broker: a name or ""; filter: a function from attribute *)
(*                 names to values; subscriber: {} or { key of an object } *)
(*   Subscription  channel: [apiVersion, kind, name]; subscriber           *)
(*   CustomResourceDefinition                                              *)
(*                 ducks: the duck-type labels it carries;                 *)
(*                 defines: <<group, kind>> of its instances;              *)
(*                 gvr: FALSE when no group, served version or plural can  *)
(*                 be read from it, so that none of its instances is       *)
(*                 served; types: the types in its                         *)
(*                 registry.knative.dev/eventTypes annotation; json: FALSE *)
(*                 when that annotation does not parse                     *)
(* Any object may carry id, its backstage.io/kubernetes-id label.          *)
(*                                                                         *)
(* A "/"-separated string is the sequence of its segments, so that a name  *)
(* glued twice to a namespace is a longer sequence, as it is a longer      *)
(* string in the code.                                                     *)
(***************************************************************************)
EXTENDS Sequences

EventingGroup == "eventing.knative.dev"
SubscribableDuck == "messaging.knative.dev/subscribable"
SourceDuck == "duck.knative.dev/source"

----------------------------------------------------------------------------
(* Names. *)

NamespacedName(ns, segments) == <<ns>> \o segments

GKNamespacedName(group, kind, ns, name) == <<group, kind, ns, name>>

\* The part before the first "/", or everything: the core version "v1" yields "v1".
APIVersionToGroup(apiVersion) == Head(apiVersion)

KeyOf(o) == GKNamespacedName(o.group, o.kind, o.ns, o.name)

NameOf(et) == NamespacedName(et.ns, <<et.name>>)

\* The key an event type's reference stands for: in the event type's namespace.
ReferenceKeys(et) ==
  {GKNamespacedName(APIVersionToGroup(r.apiVersion), r.kind, et.ns, r.name) : r \in et.ref}

BrokerKey(t) == GKNamespacedName(EventingGroup, "Broker", t.ns, t.broker)

ChannelKey(s) ==
  GKNamespacedName(APIVersionToGroup(s.channel.apiVersion), s.channel.kind, s.ns, s.channel.name)

\* The Backstage id of an object, "" when the label is missing or empty.
BackstageId(o) == IF "id" \in DOMAIN o THEN o.id ELSE ""

\* The type a trigger asks for: every type when the attribute is missing or empty.
Wants(t, et) ==
  \/ "type" \notin DOMAIN t.filter
  \/ t.filter["type"] = ""
  \/ t.filter["type"] = et.type

----------------------------------------------------------------------------
(* What a set C of objects contains, by kind. *)

Brokers(C) == {o \in C : o.group = EventingGroup /\ o.kind = "Broker"}
EventTypes(C) == {o \in C : o.group = EventingGroup /\ o.kind = "EventType"}
Triggers(C) == {o \in C : o.group = EventingGroup /\ o.kind = "Trigger"}
Subscriptions(C) == {o \in C : o.group = "messaging.knative.dev" /\ o.kind = "Subscription"}
CRDs(C) == {o \in C : o.group = "apiextensions.k8s.io" /\ o.kind = "CustomResourceDefinition"}
Labelled(C, duck) == {crd \in CRDs(C) : duck \in crd.ducks}
Instances(C, crd) == {o \in C : <<o.group, o.kind>> = crd.defines}

Subscribables(C) == UNION {Instances(C, crd) : crd \in Labelled(C, SubscribableDuck)}
Sources(C) == UNION {Instances(C, crd) : crd \in Labelled(C, SourceDuck)}
=============================================================================
