--------------------------- MODULE MCMeshBuilder ---------------------------
(***************************************************************************)
(* Small clusters for MeshBuilder: one around a broker and its triggers,   *)
(* one around channels and subscriptions, one with a source beside them.   *)
(***************************************************************************)
EXTENDS MeshBuilder, TLC

Obj(group, kind, ns, name) == [group |-> group, kind |-> kind, ns |-> ns, name |-> name]

Broker(ns, name) == Obj(EventingGroup, "Broker", ns, name)

EventType(ns, name, type, ref) == Obj(EventingGroup, "EventType", ns, name) @@ [type |-> type, ref |-> ref]

Trigger(ns, name, broker, filter, subscriber) ==
  Obj(EventingGroup, "Trigger", ns, name)
    @@ [broker |-> broker, filter |-> filter, subscriber |-> subscriber]

Subscription(ns, name, channel, subscriber) ==
  Obj("messaging.knative.dev", "Subscription", ns, name)
    @@ [channel |-> channel, subscriber |-> subscriber]

CRD(name, duck, defines, gvr, json, types) ==
  Obj("apiextensions.k8s.io", "CustomResourceDefinition", "", name)
    @@ [ducks |-> {duck}, defines |-> defines, gvr |-> gvr, json |-> json, types |-> types]

Service(ns, name) == Obj("serving.knative.dev", "Service", ns, name)

Ref(group, kind, name) == [apiVersion |-> <<group, "v1">>, kind |-> kind, name |-> name]

BrokerRef(name) == Ref(EventingGroup, "Broker", name)

NoFilter == [attribute \in {} |-> ""]

\* The consistent subsets of Objects that hold all of the objects that stay.
Around(stay) == {C \in SUBSET Objects : stay \subseteq C /\ UniqueKeys(C) /\ Defined(C)}

----------------------------------------------------------------------------
(* A broker with event types of two types, a trigger per filter, workloads *)
(* with and without a Backstage id; a second namespace has a trigger whose *)
(* broker is elsewhere.                                                    *)

App == Service("a", "app") @@ [id |-> "app"]
PlainApp == Service("a", "app")
AppRef == {KeyOf(App)}

TriggerObjects ==
  {Broker("a", "br"),
   EventType("a", "created", "T", {BrokerRef("br")}),
   EventType("a", "deleted", "U", {BrokerRef("br")}),
   Trigger("a", "all", "br", NoFilter, AppRef),
   Trigger("a", "some", "br", [type |-> "T"], AppRef),
   Trigger("b", "lost", "br", NoFilter, AppRef),
   App, PlainApp}

TriggerClusters ==
  Around({EventType("a", "deleted", "U", {BrokerRef("br")}), Trigger("a", "all", "br", NoFilter, AppRef)})

----------------------------------------------------------------------------
(* A channel with an event type and a subscription that delivers it; a     *)
(* trigger without its broker, and, not there at first, a source whose CRD *)
(* has an annotation that does not parse.                                  *)

ChannelCRD(gvr) == CRD("channels", SubscribableDuck, <<"messaging.knative.dev", "InMemoryChannel">>, gvr, TRUE, {})
Channel == Obj("messaging.knative.dev", "InMemoryChannel", "a", "ch")
ChannelRef == Ref("messaging.knative.dev", "InMemoryChannel", "ch")

MalformedSource ==
  {CRD("pings", SourceDuck, <<"sources.knative.dev", "PingSource">>, TRUE, FALSE, {}),
   Obj("sources.knative.dev", "PingSource", "a", "ping")}

ChannelLasting ==
  {ChannelCRD(TRUE), App, EventType("a", "stray", "T", {BrokerRef("br")}),
   Trigger("a", "all", "br", NoFilter, AppRef), Subscription("a", "none", ChannelRef, {})}

ChannelObjects ==
  ChannelLasting \cup MalformedSource \cup
  {ChannelCRD(FALSE), Channel,
   EventType("a", "paid", "T", {ChannelRef}),
   Subscription("a", "sub", ChannelRef, AppRef)}

ChannelClusters == {C \in Around(ChannelLasting) : C \cap MalformedSource = {}}

----------------------------------------------------------------------------
(* A broker, a trigger and its subscriber; a source annotated with two     *)
(* types, whose CRD is replaced by versions with an annotation that does   *)
(* not parse and without a served version; an event type in another        *)
(* namespace than the source.                                              *)

PingCRD(gvr, json) == CRD("pings", SourceDuck, <<"sources.knative.dev", "PingSource">>, gvr, json, {"T", "U"})

KafkaCRD == CRD("kafkas", SourceDuck, <<"sources.knative.dev", "KafkaSource">>, TRUE, TRUE, {})

Lasting ==
  {Broker("a", "br"), App, KafkaCRD,
   EventType("a", "deleted", "U", {BrokerRef("br")}), Trigger("a", "all", "br", NoFilter, AppRef)}

MixedObjects ==
  Lasting \cup
  {EventType("a", "created", "T", {BrokerRef("br")}),
   PingCRD(TRUE, TRUE), PingCRD(TRUE, FALSE), PingCRD(FALSE, TRUE),
   Obj("sources.knative.dev", "PingSource", "a", "ping"),
   EventType("b", "ticked", "T", {})}

MixedClusters == Around(Lasting)
=============================================================================
