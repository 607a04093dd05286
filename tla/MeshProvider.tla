---------------------------- MODULE MeshProvider ----------------------------
(***************************************************************************)
(* The Backstage side's entity providers (knativeEventMeshProvider.ts):    *)
(* one per configured cluster, in every replica of the Backstage backend,  *)
(* over one catalog.  A scheduled run fetches the mesh, builds entities    *)
(* from it and hands them to the catalog as a full mutation; it awaits the *)
(* fetch and the mutation, and the clusters, the other runs and restarts   *)
(* go on meanwhile.                                                        *)
(*                                                                         *)
(* The cluster of provider p is the set of what its backend lists, items   *)
(* as MeshEntities has them.                                               *)
(***************************************************************************)
EXTENDS MeshEntities, Naturals

CONSTANTS
  Ids,        \* the ids under catalog.providers.knativeEventMesh, each a cluster
  Scheduled,  \* the ids whose configuration has a schedule
  RootToken,  \* whether the configuration has a token at its root, too
  Replicas,   \* processes of the Backstage backend
  Items,      \* Items[p]: whatever the backend of p may ever list
  Limits      \* bounds: the changes, errors, timeouts and restarts of one behaviour

Mishaps == {"change", "error", "timeout", "restart"}

ASSUME ScheduledAssumption == Scheduled \subseteq Ids

ASSUME ItemsAssumption == \A p \in Ids : \A i \in Items[p] : IsItem(i)

ASSUME LimitsAssumption == Limits \in [Mishaps -> Nat]

VARIABLES
  listed,     \* listed[p]: the items cluster p holds now
  stage,      \* stage[r]: "loading" the configuration, then "running" or "refused"
  connected,  \* <<p, r>>: replica r has connected provider p and registered its task
  run,        \* run[<<p, r>>]: the run of p's task under way in r
  catalog,    \* <<provider's name, entity>>: the entities the catalog has from whom
  spent       \* how much of the Limits is used up

vars == <<listed, stage, connected, run, catalog, spent>>

Spend(what) == spent[what] < Limits[what] /\ spent' = [spent EXCEPT ![what] = @ + 1]

----------------------------------------------------------------------------
(* The clusters and their backends. *)

Idle == [at |-> "idle", lived |-> {}, lasting |-> {}, mesh |-> {}, late |-> FALSE]

Seeing(v, w) == [v EXCEPT !.lived = w.lived, !.lasting = w.lasting]

\* The objects of p's cluster change, under the eyes of the fetches under way, and it
\* lists S now, which may be what it listed before.
Change(p) ==
  /\ \E S \in SUBSET Items[p] :
       /\ UniqueKeys(S)
       /\ listed' = [listed EXCEPT ![p] = S]
       /\ run' = [x \in Ids \X Replicas |->
                    IF x[1] = p /\ run[x].at = "fetch" THEN Seeing(run[x], Widened(Items[p], run[x], S))
                                                       ELSE run[x]]
  /\ Spend("change")
  /\ UNCHANGED <<stage, connected, catalog>>

\* The backend cannot read an object for p's fetch in r, and goes on without it.
Miss(p, r) ==
  /\ run[<<p, r>>].at = "fetch" /\ Spend("error")
  /\ run' = [run EXCEPT ![<<p, r>>] = Seeing(@, Blurred(Items[p], @))]
  /\ UNCHANGED <<listed, stage, connected, catalog>>

----------------------------------------------------------------------------
(* Setting up. *)

\* Mutant of ProviderName: the same for every configured cluster.
SharedName(p) == "knative-event-mesh-provider"

\* getProviderName: also the locationKey of the entities.
ProviderName(p) == <<"knative-event-mesh-provider", p>>

\* What readKnativeEventMeshProviderConfigs finds under an id: a schedule or undefined.
HasSchedule(id) == id \in Scheduled

\* fromConfig's guards: a token at the root of the configuration, and for every
\* provider a schedule.
Acceptable == RootToken /\ \A id \in Ids : HasSchedule(id)

\* init: readKnativeEventMeshProviderConfigs and fromConfig, which throws, for all
\* the providers, when the configuration is not acceptable.
FromConfig(r) ==
  /\ stage[r] = "loading"
  /\ stage' = [stage EXCEPT ![r] = IF Acceptable THEN "running" ELSE "refused"]
  /\ UNCHANGED <<listed, connected, run, catalog, spent>>

\* The catalog connects a provider, which schedules its task.
Connect(p, r) ==
  /\ stage[r] = "running" /\ <<p, r>> \notin connected
  /\ connected' = connected \cup {<<p, r>>}
  /\ UNCHANGED <<listed, stage, run, catalog, spent>>

\* Replica r dies and is started again; the catalog's database survives.
Restart(r) ==
  /\ stage[r] # "loading" /\ Spend("restart")
  /\ stage' = [stage EXCEPT ![r] = "loading"]
  /\ connected' = {x \in connected : x[2] # r}
  /\ run' = [x \in Ids \X Replicas |-> IF x[2] = r THEN Idle ELSE run[x]]
  /\ UNCHANGED <<listed, catalog>>

----------------------------------------------------------------------------
(* A run. *)

TaskId(p) == <<ProviderName(p), "run">>

\* The scheduler starts a task unless a run of the same task is under way that has
\* not exceeded its timeout.
Start(p, r) ==
  /\ <<p, r>> \in connected /\ run[<<p, r>>].at = "idle"
  /\ \A x \in Ids \X Replicas : TaskId(x[1]) = TaskId(p) => run[x].at = "idle" \/ run[x].late
  /\ run' = [run EXCEPT ![<<p, r>>] = [Idle EXCEPT !.at = "fetch", !.lived = listed[p],
                                                   !.lasting = listed[p]]]
  /\ UNCHANGED <<listed, stage, connected, catalog, spent>>

\* A run exceeds its timeout; nothing in it notices, and it goes on.
Overrun(p, r) ==
  /\ run[<<p, r>>].at # "idle" /\ ~run[<<p, r>>].late /\ Spend("timeout")
  /\ run' = [run EXCEPT ![<<p, r>>].late = TRUE]
  /\ UNCHANGED <<listed, stage, connected, catalog>>

\* getEventMesh returns.
Respond(p, r) ==
  /\ run[<<p, r>>].at = "fetch"
  /\ \E mesh \in Answers(run[<<p, r>>].lasting, run[<<p, r>>].lived) :
       run' = [run EXCEPT ![<<p, r>>].at = "apply", ![<<p, r>>].mesh = mesh]
  /\ UNCHANGED <<listed, stage, connected, catalog, spent>>

\* Mutant of FetchFails: a response that is not ok passes for an empty mesh.
FetchUnchecked(p, r) ==
  /\ run[<<p, r>>].at = "fetch" /\ Spend("error")
  /\ run' = [run EXCEPT ![<<p, r>>].at = "apply"]
  /\ UNCHANGED <<listed, stage, connected, catalog>>

\* getEventMesh throws: the run ends, its error logged.
FetchFails(p, r) ==
  /\ run[<<p, r>>].at = "fetch" /\ Spend("error")
  /\ run' = [run EXCEPT ![<<p, r>>] = Idle]
  /\ UNCHANGED <<listed, stage, connected, catalog>>

Mutate(p, entities) == catalog' \in Mutations(catalog, ProviderName(p), entities)

\* Mutant of ApplyMutation: a delta, which adds and replaces but removes nothing.
ApplyDelta(p, r) ==
  /\ run[<<p, r>>].at = "apply"
  /\ LET new == BuildEntities(p, run[<<p, r>>].mesh)
     IN Mutate(p, new \cup {x[2] : x \in {y \in catalog : y[1] = ProviderName(p) /\ Ref(y[2]) \notin Refs(new)}})
  /\ run' = [run EXCEPT ![<<p, r>>] = Idle]
  /\ UNCHANGED <<listed, stage, connected, spent>>

ApplyMutation(p, r) ==
  /\ run[<<p, r>>].at = "apply"
  /\ Mutate(p, BuildEntities(p, run[<<p, r>>].mesh))
  /\ run' = [run EXCEPT ![<<p, r>>] = Idle]
  /\ UNCHANGED <<listed, stage, connected, spent>>

\* applyMutation throws: nothing is applied, and the run ends.
ApplyFails(p, r) ==
  /\ run[<<p, r>>].at = "apply" /\ Spend("error")
  /\ run' = [run EXCEPT ![<<p, r>>] = Idle]
  /\ UNCHANGED <<listed, stage, connected, catalog>>

Proceed(p, r) == Respond(p, r) \/ FetchFails(p, r) \/ ApplyMutation(p, r) \/ ApplyFails(p, r)

----------------------------------------------------------------------------

Init ==
  /\ listed \in {f \in [Ids -> SUBSET UNION {Items[p] : p \in Ids}] :
                   \A p \in Ids : f[p] \subseteq Items[p] /\ UniqueKeys(f[p])}
  /\ stage = [r \in Replicas |-> "loading"]
  /\ connected = {}
  /\ run = [x \in Ids \X Replicas |-> Idle]
  /\ catalog = {}
  /\ spent = [what \in Mishaps |-> 0]

Next ==
  \/ \E p \in Ids : Change(p)
  \/ \E r \in Replicas : FromConfig(r) \/ Restart(r)
  \/ \E p \in Ids, r \in Replicas : Connect(p, r) \/ Start(p, r) \/ Overrun(p, r) \/ Miss(p, r) \/ Proceed(p, r)

Spec == Init /\ [][Next]_vars

\* Replicas come up, the scheduler starts a task again and again, in whichever
\* replica, and each fetch and each mutation settles in the end.
Fairness ==
  /\ \A r \in Replicas : WF_vars(FromConfig(r))
  /\ \A p \in Ids : WF_vars(\E r \in Replicas : Start(p, r))
  /\ \A p \in Ids, r \in Replicas : WF_vars(Connect(p, r)) /\ WF_vars(Proceed(p, r))

FairSpec == Spec /\ Fairness
----------------------------------------------------------------------------
(* Properties. *)

EntitiesOf(p) == {x[2] : x \in {y \in catalog : y[2].lifecycle = p}}

ClustersOK ==
  /\ DOMAIN listed = Ids
  /\ \A p \in Ids : listed[p] \subseteq Items[p] /\ UniqueKeys(listed[p])

StagesOK ==
  /\ stage \in [Replicas -> {"loading", "running", "refused"}]
  /\ connected \subseteq {x \in Ids \X Replicas : stage[x[2]] = "running"}

RunOK(x) ==
  /\ DOMAIN run[x] = DOMAIN Idle
  /\ run[x].at \in {"idle", "fetch", "apply"} /\ (run[x].at = "idle" => run[x] = Idle)
  /\ run[x].lasting \subseteq run[x].lived /\ run[x].lived \subseteq Items[x[1]]
  /\ run[x].at = "apply" => run[x].mesh \in Answers(run[x].lasting, run[x].lived)
  /\ run[x].at # "idle" => x \in connected

\* Each entity is its provider's, and there is one per reference.
CatalogOK ==
  /\ \A x \in catalog : \E p \in Ids : x = <<ProviderName(p), x[2]>> /\ x[2].lifecycle = p
  /\ \A x, y \in catalog : Ref(x[2]) = Ref(y[2]) => x = y

TypeOK ==
  /\ ClustersOK /\ StagesOK /\ CatalogOK
  /\ DOMAIN run = Ids \X Replicas /\ \A x \in Ids \X Replicas : RunOK(x)

\* Entity e is one that p's provider builds for item i, whichever of its event types
\* the answer listed.
Depicts(e, p, i) ==
  LET whole == BuildEntities(p, {i})
  IN \E f \in whole : 
       IF i.type = "eventType" THEN e = f
       ELSE e.kind = "component" /\ [e EXCEPT !.providesApis = {}] = [f EXCEPT !.providesApis = {}]
              /\ e.providesApis \subseteq f.providesApis

\* Whatever changes the catalog is one run: what is shown of its cluster then is what
\* lived, and all that lasted, during that run's fetch, and the other clusters'
\* entities stay as they are.
ShownByOneRun ==
  [][catalog' # catalog =>
       \E p \in Ids, r \in Replicas :
         /\ run[<<p, r>>].at = "apply"
         /\ \A e \in EntitiesOf(p)' : \E i \in run[<<p, r>>].lived : Depicts(e, p, i)
         /\ Refs(BuildEntities(p, run[<<p, r>>].lasting)) \subseteq {Ref(x[2]) : x \in catalog'}
         /\ \A q \in Ids \ {p} : EntitiesOf(q)' = EntitiesOf(q)]_vars

\* What is shown of a cluster stays shown while it is there: neither a failed run nor
\* a restart nor a run that was overtaken hides an item that was there before every run
\* under way began.
StaysShown ==
  [][\A p \in Ids : \A e \in BuildEntities(p, {i \in listed[p] :
        \A r \in Replicas : run[<<p, r>>].at = "idle" \/ ItemKey(i) \in Keys(run[<<p, r>>].lasting)}) :
       Ref(e) \in Refs(EntitiesOf(p)) => Ref(e) \in Refs(EntitiesOf(p)')]_vars

\* A component's providesApis refer to entities of the catalog.
ReferencesResolve ==
  \A x \in catalog : x[2].kind = "component" =>
    x[2].providesApis \subseteq {Ref(y[2]) : y \in catalog}

\* The catalog shows what cluster p holds: each reference is taken, by p's entity or
\* another provider's, and no entity of p's depicts what is not there.
Settled(p) ==
  LET current == BuildEntities(p, Closed(listed[p]))
  IN /\ Refs(current) \subseteq {Ref(x[2]) : x \in catalog}
     /\ EntitiesOf(p) \subseteq current

\* Once the clusters rest and the mishaps are over, the catalog shows what the clusters
\* hold and stays so, whatever runs failed, overlapped or died before.
Converges == <>[](\A p \in Ids : Settled(p))

FetchesOf(p) ==
  {[lived |-> run[x].lived, lasting |-> run[x].lasting] : x \in {y \in {p} \X Replicas : run[y].at # "idle"}}

Shown == {y \in Ids \X {x[2] : x \in catalog} : <<ProviderName(y[1]), y[2]>> \in catalog}

Mirror == INSTANCE MeshMirror WITH windows <- [p \in Ids |-> FetchesOf(p)], catalog <- Shown

\* Each provider mirrors its cluster: schedules, replicas, timeouts and errors only decide
\* which fetches there are and which of them are shown.
MirrorSpec == Mirror!Spec

\* A configuration without a schedule is accepted, as app-config.yaml says it is.
ScheduleOptional == RootToken => \A r \in Replicas : stage[r] # "refused"

\* A configuration as README-dynamic.md and app-config.yaml have it, with a token and a
\* schedule for each cluster, is accepted.
DocumentedConfigAccepted == Scheduled = Ids => \A r \in Replicas : stage[r] # "refused"
=============================================================================
