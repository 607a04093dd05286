--------------------------- MODULE MCMeshProvider ---------------------------
(***************************************************************************)
(* Small clusters for MeshProvider.                                        *)
(***************************************************************************)
EXTENDS MeshProvider, TLC

EventType(ns, name, consumers) ==
  [type |-> "eventType", ns |-> ns, name |-> name, consumedBy |-> consumers]

Provider(type, ns, name, provided) ==
  [type |-> type, ns |-> ns, name |-> name, provides |-> provided]

\* One cluster: an event type whose consumers change, a broker, and a source of the
\* same name in another namespace than the event type it provides.
OneCluster ==
  "dev" :> {EventType("b", "paid", {}), EventType("b", "paid", {"app"}),
            Provider("sources.knative.dev:PingSource", "a", "default", {<<"b", "paid">>})}

OneLimits == "change" :> 2 @@ "error" :> 1 @@ "timeout" :> 1 @@ "restart" :> 0

\* Two clusters with a broker and an event type of the same names.
TwoClusters ==
  "dev" :> {EventType("a", "paid", {}), Provider("broker", "a", "default", {<<"a", "paid">>})}
    @@ "prod" :> {EventType("a", "paid", {"app"}), Provider("broker", "a", "default", {}),
                   Provider("messaging.knative.dev:InMemoryChannel", "a", "default", {})}

TwoLimits == "change" :> 1 @@ "error" :> 1 @@ "timeout" :> 0 @@ "restart" :> 1
=============================================================================
