---------------------------- MODULE MeshEntities ----------------------------
(***************************************************************************)
(* The event mesh as the provider receives it, and the catalog entities it *)
(* builds from it (knativeEventMeshProvider.ts).                           *)
(*                                                                         *)
(* An item of a mesh is a record of type ("eventType", "broker" or         *)
(* "<group>:<kind>"), ns, name and                                         *)
(*   consumedBy   for an event type: a set of Backstage ids                *)
(*   provides     for the others: the <<ns, name>> of the event types that *)
(*                they provide whenever these exist                        *)
(* The backend's answer is closed, without a reference out of it, and      *)
(* regular, as MeshQuery has it for objects.  For items this says less,    *)
(* since an item is made of several objects: while they change, or when    *)
(* the backend tolerates that a subscriber cannot be read, an answer may   *)
(* have a version of an item that there never was, with the consumers of   *)
(* one moment and without those of another.  MeshContract shows that the   *)
(* backend answers so.                                                     *)
(***************************************************************************)

\* The fields that EventType, Broker, Subscribable and Source have.
IsItem(i) ==
  DOMAIN i = {"type", "ns", "name", IF i.type = "eventType" THEN "consumedBy" ELSE "provides"}

EventTypes(S) == {i \in S : i.type = "eventType"}
Names(S) == {<<i.ns, i.name>> : i \in EventTypes(S)}

ItemKey(i) == <<i.type, i.ns, i.name>>
UniqueKeys(S) == \A i, j \in S : ItemKey(i) = ItemKey(j) => i = j

\* S as an answer: provided event types that S does not list are left out.
Closed(S) ==
  EventTypes(S)
    \cup {[i EXCEPT !.provides = @ \cap Names(S)] : i \in S \ EventTypes(S)}

Keys(S) == {ItemKey(i) : i \in S}

\* The versions that items have of the items of S.
Versions(items, S) == {i \in items : ItemKey(i) \in Keys(S)}

\* What a request sees of a cluster that lists S when it begins: lived has the items that
\* may be in the answer, lasting those of which some version is.
Window(S) == [lived |-> S, lasting |-> S]

\* The cluster's objects change, and it lists S now: of what was there at any time, any
\* version may be in the answer.
Widened(items, w, S) ==
  [lived |-> Versions(items, w.lived \cup S), lasting |-> {i \in w.lasting : ItemKey(i) \in Keys(S)}]

\* The backend could not read an object and goes on without it.
Blurred(items, w) == [lived |-> Versions(items, w.lived), lasting |-> w.lasting]

\* The answers to a request that has seen this.
Answers(lasting, lived) ==
  {Closed(S) : S \in {T \in SUBSET lived : Keys(lasting) \subseteq Keys(T) /\ UniqueKeys(T)}}

----------------------------------------------------------------------------
(* Entities. *)

Ref(e) == <<e.kind, e.ns, e.name>>
Refs(E) == {Ref(e) : e \in E}
ApiRef(name) == <<"api", name[1], name[2]>>

\* Mutant of BuildEventTypeEntity: the lifecycle is a fixed one, not the environment's id.
BuildProductionEntity(p, i) ==
  [kind |-> "api", ns |-> i.ns, name |-> i.name, type |-> "eventType", lifecycle |-> "production",
   consumedBy |-> i.consumedBy]

BuildEventTypeEntity(p, i) ==
  [kind |-> "api", ns |-> i.ns, name |-> i.name, type |-> "eventType", lifecycle |-> p,
   consumedBy |-> i.consumedBy]

\* Mutant of BuildComponentEntity: an API without a namespace, which is the component's then.
BuildLocalComponentEntity(p, i) ==
  [kind |-> "component", ns |-> i.ns, name |-> i.name, type |-> i.type, lifecycle |-> p,
   providesApis |-> {ApiRef(<<i.ns, n[2]>>) : n \in i.provides}]

\* buildBrokerEntity, buildSubscribableEntity and buildSourceEntity
BuildComponentEntity(p, i) ==
  [kind |-> "component", ns |-> i.ns, name |-> i.name, type |-> i.type, lifecycle |-> p,
   providesApis |-> {ApiRef(n) : n \in i.provides}]

BuildEntities(p, mesh) ==
  {BuildEventTypeEntity(p, i) : i \in EventTypes(mesh)}
    \cup {BuildComponentEntity(p, i) : i \in mesh \ EventTypes(mesh)}

\* A full mutation of the catalog in the name of an owner: its entities replace what the
\* catalog had from it.  An entity whose reference another owner holds is not taken; of
\* entities with the same reference one is.
Mutations(catalog, owner, entities) ==
  LET others == {x \in catalog : x[1] # owner}
      free == {e \in entities : Ref(e) \notin {Ref(x[2]) : x \in others}}
  IN {others \cup {owner} \X kept :
        kept \in {K \in SUBSET free : Refs(K) = Refs(free)
                                        /\ \A d, e \in K : Ref(d) = Ref(e) => d = e}}
=============================================================================
