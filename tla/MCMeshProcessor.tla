-------------------------- MODULE MCMeshProcessor --------------------------
(***************************************************************************)
(* A small catalog for MeshProcessor: two components with one id in the    *)
(* event type's namespace, one of which may get another id, and one        *)
(* elsewhere; an event type whose consumers change, and one that names an  *)
(* id twice.                                                               *)
(***************************************************************************)
EXTENDS MeshProcessor, TLC

Component(ns, name, id) == [ns |-> ns, name |-> name, id |-> id]
Api(ns, name, consumedBy) == [ns |-> ns, name |-> name, consumedBy |-> consumedBy]

SmallComponents ==
  {Component("a", 1, "app"), Component("a", 2, "app"), Component("a", 2, "job"),
   Component("b", 3, "app")}

SmallApis == {Api("a", "paid", <<"app", "job">>), Api("a", "paid", <<"job">>), Api("b", "sent", <<"app", "app">>)}

SmallLimits == "change" :> 2 @@ "error" :> 1
=============================================================================
