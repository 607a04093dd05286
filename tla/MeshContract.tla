---------------------------- MODULE MeshContract ----------------------------
(***************************************************************************)
(* The seam between the two halves: what BuildEventMesh answers, about     *)
(* objects, is what the provider takes for an answer, about items.  The    *)
(* mesh is translated as api.gen.go writes it and the provider's types     *)
(* read it, and a history variable sees of the cluster, in terms of items, *)
(* what MeshMirror says that a fetch sees.                                 *)
(***************************************************************************)
EXTENDS MeshBuilder

VARIABLE window   \* what the request has seen, as MeshEntities has it

contractVars == <<vars, window>>

E == INSTANCE MeshEntities

----------------------------------------------------------------------------
(* A mesh as items. *)

\* The type of a subscribable's and of a source's entity.
TypeOf(o) == o.group \o ":" \o o.kind

\* Different kinds have different types, none of them a broker's or an event type's.
ASSUME TypesAssumption ==
  \A o, q \in Objects :
    /\ TypeOf(o) = TypeOf(q) => o.group = q.group /\ o.kind = q.kind
    /\ TypeOf(o) \notin {"broker", "eventType"}

\* Over time, too, a kind is of one CRD, and either of subscribables or of sources.
ASSUME KindsAssumption ==
  \A c, d \in CRDs(Objects) :
    /\ c.defines = d.defines =>
         /\ KeyOf(c) = KeyOf(d)
         /\ \A duck \in {SubscribableDuck, SourceDuck} : duck \in c.ducks <=> duck \in d.ducks
    /\ ~({SubscribableDuck, SourceDuck} \subseteq c.ducks)

EventTypeItem(et, ids) == [type |-> "eventType", ns |-> et.ns, name |-> et.name, consumedBy |-> ids]
ProviderItem(type, p, names) == [type |-> type, ns |-> p.ns, name |-> p.name, provides |-> names]

\* The consumedBy of an event type and the providedEventTypes of a provider, in mesh m.
ConsumersIn(m, et) == {c[2] : c \in {d \in m.consumed : d[1] = NameOf(et)}}
ProvidedIn(m, p) == {n[2] : n \in {q \in m.provided : q[1] = p}}

ItemsOf(m) ==
  {EventTypeItem(et, ConsumersIn(m, et)) : et \in m.eventTypes}
    \cup {ProviderItem("broker", b, ProvidedIn(m, b)) : b \in m.brokers}
    \cup {ProviderItem(TypeOf(p), p, ProvidedIn(m, p)) : p \in m.subscribables \cup m.sources}

\* The mesh of a cluster that rests.
MeshOf(C) ==
  [brokers |-> Brokers(C), subscribables |-> Subscribables(C), sources |-> Sources(C),
   eventTypes |-> EventTypes(C), provided |-> Provided(C), consumed |-> ConsumedByTriggers(C)]

\* What MeshProvider has as listed.
Listed(C) == ItemsOf(MeshOf(C))

\* What MeshProvider has as Items: whatever may ever be in an answer.
Items ==
  LET names == {NameOf(et) : et \in EventTypes(Objects)}
      provider(type, P) == {ProviderItem(type, x[1], x[2]) : x \in P \X SUBSET names}
  IN {EventTypeItem(x[1], x[2]) : x \in EventTypes(Objects) \X SUBSET {BackstageId(o) : o \in Objects}}
       \cup provider("broker", Brokers(Objects))
       \cup UNION {provider(TypeOf(o), {o}) : o \in Subscribables(Objects) \cup Sources(Objects)}

----------------------------------------------------------------------------
(* The builder and what its request sees. *)

ContractInit == Init /\ window = E!Window({})

Ask == Request /\ window' = E!Window(Listed(cluster))

See ==
  /\ Change /\ UNCHANGED <<pc, locals>>
  /\ window' = IF status = "open" THEN E!Widened(Items, window, Listed(cluster')) ELSE window

Go ==
  /\ Build
  /\ window' = IF excused' # excused THEN E!Blurred(Items, window) ELSE window

ContractNext == See \/ Ask \/ Go

ContractSpec == ContractInit /\ [][ContractNext]_contractVars

FairContractSpec == ContractSpec /\ WF_vars(Build)

\* What the provider's model takes for granted: a cluster lists one version of an item.  A
\* request is answered with a mesh that refers to itself only, has one version of each item
\* that lasted, in whatever version, and no item that the provider does not reckon with;
\* unless the API server denied knowing a kind that a CRD defines, or serves it in another
\* version than when the CRD was listed: the code takes both for a kind without instances.
ContractKept ==
  LET answer == ItemsOf(mesh)
  IN /\ Listed(cluster) \subseteq Items /\ E!UniqueKeys(Listed(cluster))
     /\ status = "answered" /\ excused \cap CRDs(Objects) = {} =>
          /\ answer \subseteq window.lived /\ E!UniqueKeys(answer) /\ E!Closed(answer) = answer
          /\ E!Keys(window.lasting) \subseteq E!Keys(answer)

\* The provider's model of the cluster and of the fetches under way, when the backend is the
\* only one and the catalog out of sight.
Mirror ==
  INSTANCE MeshMirror
    WITH Ids <- {"backend"},
         Items <- [p \in {"backend"} |-> Items],
         listed <- [p \in {"backend"} |-> Listed(cluster)],
         windows <- [p \in {"backend"} |-> IF status = "open" THEN {window} ELSE {}],
         catalog <- {}
=============================================================================
