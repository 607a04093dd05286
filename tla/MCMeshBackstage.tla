-------------------------- MODULE MCMeshBackstage --------------------------
(***************************************************************************)
(* A small instance for MeshBackstage: an event type whose consumers       *)
(* change, a broker that provides it, a workload with the consumer's id    *)
(* that the catalog reads from a location.                                 *)
(***************************************************************************)
EXTENDS MeshBackstage, TLC

EventType(consumers) == [type |-> "eventType", ns |-> "a", name |-> "paid", consumedBy |-> consumers]

SmallMesh ==
  {EventType({}), EventType({"app"}),
   [type |-> "broker", ns |-> "a", name |-> "default", provides |-> {<<"a", "paid">>}]}

Workload ==
  [kind |-> "component", ns |-> "a", name |-> "app", type |-> "service", lifecycle |-> "production",
   providesApis |-> {}, id |-> "app"]

SmallLocations == {Workload}

SmallLimits == "change" :> 1 @@ "error" :> 1 @@ "failure" :> 1
=============================================================================
