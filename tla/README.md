# A TLA+ model of the Knative event mesh plugin

This directory models the event mesh part of `knative-extensions/backstage-plugins`:
the Go backend that answers `GET /v1/getEventMesh` from a Kubernetes cluster, the
Backstage catalog provider and processor that turn the answer into catalog entities and
relations, and the demo Backstage instance whose backend runs them and whose app shows
the result. Paths below are relative to the repository's root;
`builder.go` is `backends/pkg/eventmesh/v1/builder.go`, `provider.ts` and
`processor.ts` are `knativeEventMeshProvider.ts` and `knativeEventMeshProcessor.ts` under
`backstage/plugins/knative-event-mesh-backend/src/providers/`.

## The system

    Kubernetes API server      other clients create, replace and delete objects
        ^  lists and gets, with the caller's token
    event mesh backend         GetEventMesh -> BuildEventMesh           (Go)
        ^  GET /v1/getEventMesh, Authorization: Bearer <token>
    event mesh provider        a scheduled task per configured cluster  (TypeScript)
        |  applyMutation({type: 'full', ...})
        v
    Backstage catalog  <->  event mesh processor: preProcessEntity, queryEntities
        ^  over the backend's own HTTP port
    search index, app: entity pages, search page  (TypeScript)

| Component | State | Operations | What is hard | Correct when |
|---|---|---|---|---|
| Builder (`builder.go`) | the lists converted so far, for one request | list brokers, subscribable CRDs and their instances, source CRDs and theirs, event types, triggers, subscriptions; get each subscriber; link them | no two reads see the same cluster; each call may fail; some failures are tolerated, some refuse the request | the answer is justified by the request's window and complete for what lasted; it refers to itself only; tolerated errors cost what they touch and no more; every request ends |
| Conversion and naming (`broker.go`, `eventtype.go`, `source.go`, `subscribable.go`, `util.go`) | none | convert an object; build keys | keys glued from strings | keys of different objects differ, keys of the same object agree |
| Endpoint, auth middleware, router (`endpoint.go`, `authtokenmiddleware.go`, `controller.go`, `server.gen.go`) | the token in the request's context; a REST config copied for each request | authenticate, validate, call the builder, write the response | concurrent requests with different tokens | a request reads the cluster with its own token only; no token, no read |
| Provider (`provider.ts`, `config.ts`, `module.ts`) | its connection; the runs under way | configure, connect, run: fetch, build entities, apply a full mutation | a fetch overtaken by a later run; failed runs; entities with the same reference | the catalog shows a mesh the backend answered; a failed run changes nothing; the catalog catches up when the cluster rests |
| Processor (`processor.ts`) | the relations emitted for the entity it processes | preProcessEntity, paged queries of the catalog | the catalog changes between pages; a page fails | relations come in pairs; only to components with the consumer's id in the event type's namespace |
| Demo backend (`backstage/packages/backend`) | the plugins created so far; the catalog and the search index, in memory | create the plugins one by one, start to listen, exit; process entities; gather and index documents | what the catalog and the search start runs before the backend listens, and asks it over HTTP; a restart takes everything | relations and index catch up once it stays up; no router hides another |
| Demo app (`backstage/packages/app`) | none | entity pages, search page | relations outlive entities; components of types no page is made for | no relation is hidden; the search offers what the catalog has |
| Function templates (`backstage/templates`, `hack/update-templates.sh`), reconciler stub, CI, release scripts | - | - | - | not modelled, see the end |

## Modules

| Module | What it models | Extends |
|---|---|---|
| `MeshObjects` | Kubernetes objects as records; how the code names them and builds keys | |
| `MeshQuery` | the cluster, other clients changing it, and the abstract request: what `getEventMesh` promises | `MeshObjects` |
| `MeshBuilder` | `BuildEventMesh`, an action per call to the API server, with its failures; the properties; the inductive invariant | `MeshQuery` |
| `MeshServer` | the web server: start, router, middleware, validator, endpoint, for concurrent requests with their own tokens | |
| `MeshEntities` | an answer of the backend as the provider sees it; the entities built from it; a full mutation of the catalog | |
| `MeshContract` | the seam: the builder's mesh as the provider reads it, and what the request saw of the cluster in those terms | `MeshBuilder`; `MeshEntities`, `MeshMirror` by `INSTANCE` |
| `MeshMirror` | the abstract provider: what the catalog shows of a cluster is the answer to one fetch | `MeshEntities` |
| `MeshProvider` | the providers of all configured clusters in all replicas of Backstage, over one catalog | `MeshEntities`; `MeshMirror` by `INSTANCE` |
| `MeshProcessor` | the processing of event types' API entities, with paged queries | |
| `MeshApp` | the app: entity pages and search page, as functions of the catalog | `MeshEntities` |
| `MeshBackstage` | the composition: the demo backend's life, the mirror, the processing of entities, the search index, seen through the app | `MeshApp`; `MeshMirror` by `INSTANCE` |
| `MeshBuilderProofs`, `MeshAnswerProofs` | theorems about `MeshBuilder`; the second one's are about consistency and failures | `MeshBuilder` |
| `MeshContractProofs` | theorems about `MeshContract`, from those about `MeshBuilder` | `MeshContract`, `MeshAnswerProofs` |
| `MeshServerProofs`, `MeshProviderProofs`, `MeshProcessorProofs`, `MeshBackstageProofs` | theorems about the module they are named for | that module |
| `MCMeshBuilder`, `MCMeshContract`, `MCMeshServer`, `MCMeshProvider`, `MCMeshProcessor`, `MCMeshBackstage` | the instances TLC checks | the module they are named for |

Operators named in a comment as the mutant of another are wrong variants of it, kept to
show that the properties notice them; no specification uses them.

### The regular query (`MeshQuery`)

The backend reads the cluster with seven kinds of list calls and a get per trigger and
subscription. No two of them see the same cluster, so an answer is no snapshot and the
code never says what it is. `MeshQuery` says it, without an algorithm:

- `cluster` is the set of objects the API server serves. A CRD without a served version
  (`gvr` FALSE) may be in it, but not instances of it: `Defined` has them only while some
  CRD with a served version defines their kind (`Serves`), and a CRD that is replaced by
  one without a served version takes them along (`Apply`).
- `lived` is the set of objects that existed at some moment of the request, `lasting`
  those that existed all the time, `excused` those whose read failed in a way the code
  tolerates (a subscriber that cannot be read, a CRD for whose instances the API server
  answers NotFound).
- `Justified(mesh, lived)`: every entry, and every relation between entries, holds among
  objects that lived.
- `Shows(mesh, lasting \ excused)`: every entry and relation that holds among objects
  that lasted is there.

`Provides`, `Triggered` and `Subscribed` define the relations on a set of objects, by key
and type, and not by the maps and loops of `builder.go`.

### The builder (`MeshBuilder`)

`pc` names the call that `BuildEventMesh` makes next, `pending` what is left of the loop
it is in; `brokers`, `subscribables`, `sources` and `eventTypes` are its converted lists,
`provided` and `consumed` the entries of the `ProvidedEventTypes` and `ConsumedBy` lists
inside them. An action is one call to the API server together with all that the code
computes before the next call: `ListEventTypes`, for example, is the list call, the
registration with brokers, channels and sources, and the maps. `Change` may happen
between any two. `Fail` is each `return EventMesh{}, err`.

| Action | Code in `builder.go` |
|---|---|
| `Request` | `GetEventMesh` in `endpoint.go` |
| `ListBrokers` | 320-334 |
| `ListSubscribableCRDs`, `ListSubscribables` | 336-382, a step per CRD |
| `ListSourceCRDs`, `ListSources` | 384-434, and `convertSource` |
| `ListEventTypes` | 437-459, then 79-122 |
| `ListTriggers`, `ProcessTrigger`, `SkipTrigger` | 124-138, 190-228, 274-317, 462-480 |
| `ListSubscriptions`, `ProcessSubscription`, `SkipSubscription` | 140-153, 230-268, 462-480 |
| `ListError`, `UnusableCRD`, `UnreadableTypes`, `SubscriberError` | the error returns |
| `Output` | 161-185 |

A "/"-separated name is the sequence of its segments. This keeps what matters about the
strings: a name prefixed twice with a namespace differs from the name. Kubernetes names
contain no "/".

A list of instances asks for the version that the listed CRD served. It is answered with
what there is (`Served`), with NotFound when no version is served any more, and possibly
with NotFound when the CRD has been replaced by another that is served (`Outdated`): the
other may serve the same version or a different one, and the model has both outcomes. The
code takes each NotFound for a kind without instances and goes on without an error
(`builder.go` 366 and 414). In the first case the instances are gone, in the last the
answer lacks instances that lasted; the CRD is then `excused`.

Left out: the order of the lists in the answer; labels, annotations, descriptions,
schemas and a source's sink, which pass through; how often one provider names the same
event type (a CRD annotation may list a type twice). The guess of a subscriber's plural
(`UnsafeGuessKindToResource`) is assumed right; a wrong guess is a NotFound, which
`SkipTrigger` and `SkipSubscription` cover.

### The server (`MeshServer`)

`pc[r]` is where the goroutine of request `r` is: in the router, the middlewares, the
endpoint, at one of `BuildEventMesh`'s calls. `config` holds the REST configurations, the
one made at start under "inCluster" and a copy for each request; a configuration has a
token and a token file, and client-go (`Credential`) prefers the file. `clientset[r]` and
`dynamic[r]` are the credentials the clients were created with. Copying the configuration,
creating the typed client and creating the dynamic client are three actions, because other
goroutines run in between. Of a configuration nothing else is modelled. When the process
runs outside a cluster, with a kubeconfig, client certificates in it are not cleared by
`noTokenConfig` (`controller.go` 39-42); the configuration inside a cluster has none.

| Action | Code |
|---|---|
| `StartWebServer` | `controller.go` 31-65, with `noTokenConfig` |
| `Route`, `RequestValidator` | the two routers and the validator of `controller.go`, the route of `server.gen.go` |
| `AuthTokenMiddleware` | `authtokenmiddleware.go` 18-42 |
| `GetEventMesh`, `NewClientset`, `NewDynamicClient`, `Fatal` | `endpoint.go` 33-54 |
| `Read`, `ReadDenied`, `ReadFails` | a call of `BuildEventMesh`; the 500 of the strict handler |
| `Output`, `Leave` | `endpoint.go` 62-67; the handler returns |
| `Receive`, `ChangeRights`, `Killed` | clients, administrators, Kubernetes |

The history of a request has the rights its client's token had at some moment (`could`) and
throughout (`kept`), as `lived` and `lasting` are the history of the cluster in
`MeshQuery`. Of a header the model has the words: `Authorization: Bearer` with nothing
behind it reaches the code without the blank, so that "Bearer" itself is the token. The
second 401, in `GetEventMesh`, and the validator's 404 cannot happen behind the
middleware and the router; the model has them as the code does.

Left out: what the answers contain (`MeshBuilder` has it), the metrics port, the
listener's shutdown. A client that goes away cancels the request's context; the calls
that take the context then fail, which `ReadFails` covers, and the others go on.

### Entities and the mirror (`MeshEntities`, `MeshMirror`)

`MeshEntities` has what provider and composition share. An item of a mesh is an event
type with the ids of its consumers, or a broker, subscribable or source with the event
types it provides. `Answers(lasting, lived)` is what the backend may answer to a request
that saw this: items of `lived`, one version each, some version of each item of `lasting`,
and references to event types among them only. One is tempted to take a set of items
between `lasting` and `lived`, as `MeshQuery` does for objects. But an item is put together
from several objects (the consumers of an event type come from triggers and their
subscribers), which change while the backend reads them one after the other. An answer
may show an item in a version that never existed, with the consumers of two moments, or,
when a subscriber cannot be read, without one it had all the time. So a window widens by
all versions of what it holds when something changes (`Widened`) or is not read
(`Blurred`), and an item lasts by its key. `MeshContract` shows that the builder answers
so. `BuildEntities` is the four `build...Entity` functions.
`Mutations` is the catalog's side of a full mutation: it replaces what it has from that
provider, does not take an entity whose reference another location key holds, and keeps
one entity per reference; which one, of several in the same mutation, is left open.

`MeshMirror` is the promise of a provider, without schedules, replicas, timeouts, retries
or errors: fetches begin, see the cluster change, and end without a trace or by showing
the catalog one answer, in one step. `Miss` is the object that the backend could not read
and went on without. A fetch that sees a change may already have seen all
it will, which is how the time between the response and the mutation disappears.

### The provider (`MeshProvider`)

`stage` and `connected` follow `fromConfig` and `connect` in each replica. `run` is the
task's function under way: at the fetch, or between the fetch and the mutation. The
scheduler starts a task when no run of the same task is under way or the one under way
has exceeded its timeout. The code does not look at the abort signal the scheduler would
give it, so such a run goes on, and may apply what it fetched after a newer run has
applied something newer. `MirrorSpec` is the refinement: the fetches of the mirror are the
runs under way, its owners the provider names.

| Action | Code in `provider.ts` |
|---|---|
| `FromConfig` | `module.ts` and `fromConfig`, with its checks |
| `Connect` | `connect`, and the registration of the task |
| `Start`, `Overrun` | the task scheduler; `createScheduleFn` |
| `Respond`, `FetchFails` | `getEventMesh`, the await in `run`, the catch around it |
| `ApplyMutation`, `ApplyFails` | the entities built and `applyMutation` |
| `Change`, `Miss` | other clients of the cluster; a read that fails in the backend, which answers without it |
| `Restart` | Kubernetes |

### The seam (`MeshContract`)

`ItemsOf` writes a mesh of `MeshBuilder` as items: it is the end of `BuildEventMesh`
(161-186), `api.gen.go` and the types at the head of `provider.ts`. `Listed` is what a
cluster at rest would be answered as, `Items` all that may ever be in an answer. `Ask`,
`Go` and `See` are `Request`, `Build` and `Change` of the builder with the history variable
`window`, which changes as `MeshEntities` says. `ContractKept` is what `MeshProvider` takes
for granted of its backend. The exceptions are two kinds of NotFound for the instances of
a CRD, which the code takes for "no such kind": an API server that denies a kind although
a CRD defines it, and a CRD that is replaced, between its list and that of its instances,
by one that serves another version. The answer then lacks instances that were there all
the time, the request does not fail, and the provider cannot tell. The catalog loses them
until the next run.

### The processor (`MeshProcessor`)

`job[n]` is `preProcessEntity` for the API entity `n`: the consumers still to look up, and
the pages so far of the one it is looking up. Entities are processed independently of
each other, so jobs interleave. A query returns the components behind the cursor, in the
catalog's order. When the function returns, the catalog replaces the relations emitted
the last time.

### The app (`MeshApp`)

The app has no state of its own; its pages are functions of the catalog, the relations
and the index. An entity's page is a set of tabs, a tab has cards and possibly the
warnings, and a card lists the entities of some kinds that relations of some types lead
to. `Related` is what all tabs of a page list together, `RelationWarning` the message for
relations that lead nowhere. `SearchResults` is the search page with its filters. What a
card of the library lists, by types of relation and kinds, is taken from its props and
name and marked external where they do not say it.

### The composition (`MeshBackstage`)

One process of the demo backend, from its start to its end and again, with one cluster
and the entities of the catalog's locations. `main` and `created` say how far `index.ts`
has come, `running` what the created plugins have started.

| Action | Code |
|---|---|
| `CreateCatalog`, `CreateSearch`, `CreatePlugin` | the awaited `createRouter` calls of `main` in `index.ts`, in order; `plugins/catalog.ts`, `plugins/search.ts`, the other plugins |
| `Start` | `service.start()` |
| `Exit`, `Boot` | the catch at the end of `index.ts`, a killed process; its restart with an empty database in memory |
| `Fetch`, `Miss`, `Show`, `RunFails`, `Change` | the provider, as `MeshMirror` has it; `SameFetches` keeps a fetch from ending with a change |
| `Ingest` | the catalog reads its locations |
| `Process`, `QueryFails` | the catalog processes an entity, with `processor.ts` and the built-in processor of `providesApis` |
| `Gather`, `CollationFails`, `Index` | the catalog's collator and the search engine, as `plugins/search.ts` schedules them |

`MeshProvider` is shown to implement `MeshMirror` (below), so the composition uses the
mirror; it has no overlapping runs, and a configuration that `fromConfig` accepts. An entity is processed in one
step; what the pages of a query amount to is in `MeshProcessor`. Queries before `Start` are refused, which the
processor logs and forgets: the relations of that processing are missing until the next.
The processor asks the catalog, and the app the search, over the backend's own port:
`Reachable` holds when it listens and of the routers of `/api` the plugin's own is the
first that takes its path, before the catch-all. Of the relations that the catalog adds of
its own accord, those of `providesApis` are modelled; the others, such as `ownedBy` and
`partOf` from `spec.owner` and `spec.system`, are left out.

## Runs

| Run | Question | Bounds |
|---|---|---|
| `races_quiet` | Is an answer consistent in itself and one the provider reckons with, do objects that come and go leave a request alone, and does it end, when no call fails? | 11 objects: a broker, two event types it provides, one without a reference, a trigger and its subscriber; two kinds of sources, three versions of the CRD of one (good, annotation that does not parse, no served version), so that instances stop being served and a list may ask for an outdated version; every consistent cluster around five of them; 2 changes |
| `triggers_errors` | Is the answer justified and complete and one the provider reckons with, and is a failing subscriber isolated, when calls fail? | 8 objects: a broker, two event types, three triggers (no filter, a type, a broker in another namespace), a subscriber with and without an id; every consistent cluster around two of them; 2 changes; calls fail with NotFound or another error, any number of times |
| `channels_errors` | Does the builder implement the regular query? Is the invariant of the proof one? | 11 objects: a channel and two versions of its CRD, one not served; two event types; a subscription with and one without a subscriber; a trigger without its broker; a source with a malformed CRD, not there at first; every consistent cluster around five of them; NotFound, Unauthorized, Forbidden, any number of times; 2 changes |
| `server_tokens` | Does a request read the cluster with its own token and get what the rights of that token allow? Does it end? | 2 requests, 8 kinds of them: tokens with all rights, with lists only, unknown, none, another path, the root, another method; 2 rights change; 1 change, 1 death |
| `provider_one` | Is the catalog right, does it catch up, and do the providers implement the mirror, when runs fail and overlap? | one cluster, an event type in two versions and a source in another namespace that provides it, 2 replicas; 2 changes, 1 error, 1 timeout |
| `provider_two` | Do the providers of two clusters leave each other alone, and does the catalog catch up? | two clusters with objects of the same names, in one of them a broker and a channel of the same name, 1 replica; 1 change, 1 error, 1 restart |
| `processor_pages` | Does paging miss components or relate wrong ones? Do relations catch up? Is the invariant of the proof one? | 4 components, two event types of which one changes, pages of one; 2 changes, 1 error |
| `backstage_restart` | Do pages and search show the mesh once the backend stays up, and what do they show until then? | an event type in two versions, a broker that provides it, a workload from a location; 1 change, 1 error, 1 failure |
| `subscription_consumers`, `unreadable_subscriber`, `schedule_optional`, `documented_config` | the findings below | no change of the cluster in the first two; 2 changes, 1 error in the others |

Two changes are enough to delete and create again what a request has read or will read,
and to replace an object between two reads that depend on it. Errors of the builder are
not counted: a request has a bounded number of calls. One error, one timeout and one
restart suffice for the provider, since each run is independent of earlier ones except
through the catalog, and two changes let the catalog be out of date in both directions. A
change replaces all that a cluster lists, so that one is enough where two clusters claim
the same entities.
Two requests are enough for one to interfere with another through what they share, the
endpoint's configuration and the process; one change of rights can fall before, between
and after the calls it concerns, in either direction. Pages of one component make every
query of two components a paged one. In `backstage_restart` one failure ends the process at any point of its start or later, and
the one change of the mesh can fall before, between and after its fetch, its processing and
its collation; changes that chase each other are in `provider_one` and `processor_pages`.

`processor_pages` does not check deadlock: when every API entity has been removed and the
changes are used up there is nothing to process.

### Properties

Builder:
- `AnswerJustified`, `AnswerComplete`, and `QuerySpec` as a refinement: the answer is what
  the regular query allows, whatever changes between the reads.
- `AnswerClosed`: the answer refers to itself only, and an event type has one provider
  at most besides sources.
- `RacesCostNothing`: without failing calls, a request fails only for a malformed CRD, and
  nothing that stayed is missed on account of a failed read; the instances of a CRD that
  was replaced meanwhile may be.
- `ContractKept`: in terms of what the provider reads, an answer refers to itself only, has
  one version of each item that lasted and no item that the provider does not reckon with,
  through races and tolerated errors, the two kinds of NotFound above excepted.
- `TriggerErrorsIsolated`: the loop over triggers never fails the request nor loses
  consumers it has collected.
- `EveryRequestEnds`, under weak fairness of `Build`: every call to the API server
  returns (client-go gives up eventually, if with an error), and the goroutine goes on.
  Nothing makes clients ask or the cluster change.

Server:
- `OwnToken`: both clients of a request use the token its own client sent, whatever the
  other requests do and whatever credentials the process was started with.
- `RightsDecide`: the status follows from the request and the rights of its own token
  while it was served: 200 needs the right to every list, 500 a failure or a missing
  right, 401 a missing token, 404 and 405 another request.
- `EveryRequestEnds`, under weak fairness of each request's goroutine: a handler waits for
  nothing but calls to the API server, which return. It may end unanswered when the
  process dies, which one request's `log.Fatalf` makes it do for all.

Provider:
- `MirrorSpec`, a refinement: with one or many runs under way, late, failed or overtaken,
  the catalog moves as `MeshMirror` does.
- `ShownByOneRun`: each change of the catalog is one run's, shows no mix of two answers,
  and does not touch other clusters' entities.
- `StaysShown`: an item that was there, in whatever version, since before every run under
  way began stays shown, whatever fails. The condition on runs under way is needed: a run that exceeded its
  timeout may apply an older answer after a newer one.
- `ReferencesResolve`: `providesApis` never dangle, with one cluster. (With two, an API
  entity that one provider drops is missing until the other's next run.)
- `Converges`: the catalog shows what the clusters hold once they rest. Fairness: a
  replica comes up, the scheduler starts each task again and again, and each fetch and
  each mutation settles. The code sets no timeout of its own on the fetch; that it
  settles is the HTTP client's doing.

Processor:
- `EmittedJustified`, `EmittedComplete`: the pages of a query, read at different moments,
  amount to a regular read; a failing query costs its consumer only.
- `RelationsConverge`: relations that a failing page or an overtaken processing lost come
  back, and stale ones go, given that the catalog processes each entity again and again.
- `PInv`: the inductive invariant of the proof.

Backend and app:
- `RelationsVisible`: a relation's target is listed on its entity's page when the catalog
  has it, and else the page warns that it is missing, at every moment and for every type of
  component.
- `ConsumersShown`: an event type and the components with its consumers' ids end up on each
  other's pages, and others do not.
- `SearchFindsAll`: the search ends up with the catalog's entities, and with each filter
  the page offers with those it names, over the API of the search plugin.
- Fairness of the last two: the process is restarted when it ends (Kubernetes, or whoever
  runs it), awaited calls settle, the scheduler runs the provider's and the collator's
  task again and again, the catalog comes back to each entity. That it stays up in the
  end follows from the bound on failures.

## Findings

1. **Consumers behind subscriptions are never shown** (`subscription_consumers`).
   `processSubscription` looks `NamespacedName(subscription.Namespace, eventType)` up,
   where `eventType` already is "namespace/name". The key never matches, and
   `ConsumedBy` never gets an entry from a subscription. The proofs have it as the lemma
   `NothingFound`. `Shows` in `MeshQuery` leaves these consumers out for this reason.
2. **A subscriber that may not be read fails the whole mesh**
   (`unreadable_subscriber`). The comment wants the rest to be rendered when "there are no
   permissions to get a single subscriber resource"; the code goes on for 401
   Unauthorized only, and a missing permission is 403 Forbidden. For triggers every
   error is skipped.
3. **A schedule is not optional** (`schedule_optional`): without one, `fromConfig` throws,
   and no provider is set up, those with a schedule included.
4. **The documented configuration sets up no provider** (`documented_config`).
   `fromConfig` asks for a section `token` at the root of the configuration
   (`provider.ts:107`) and throws when there is none; the token it uses is the one under
   the provider (`config.ts:22`). `README-dynamic.md:65` and `app-config.yaml:50` have
   the latter only. The constant `RootToken` says whether the root has one, too, and is
   true in the other runs of the provider.

Met on the way, and not modelled: `DEVELOPMENT.md:55-58` checks the backend with
`curl -v http://localhost:8080/` and expects `401 Unauthorized`, but only
`/v1/getEventMesh` has the middleware, and the root gets 404; `api.gen.go` documents
`ConsumedBy` as a list of `<namespace/name>` while the code stores Backstage ids; the API
specification lists 200 and 401 only, while a token that the cluster refuses gets a 500.

## What is proved

`MeshBuilderProofs`, for every set of objects, start clusters, number of changes and set
of errors. The assumptions are those of the modules: the start clusters have one object
per key and no instance without its CRD; no CRD with a duck label defines Knative's
`Broker` kind; an event type has one reference at most; errors are among the four
modelled.

- `TypeCorrect`: `Spec => []TypeOK`.
- `InvariantHolds`: `Spec => []IInv`.
- `AnswersJustified`, `AnswersComplete`: the two halves of regularity.
- `BuilderImplementsQuery`: `Spec => QuerySpec`.

The invariant `IInv` says how far the reads have come. The two properties alone are not
inductive, because they speak of answered requests only. `Window`: the cluster lies
between `lasting` and `lived`. `PendingListed`: what a loop has left came from a list.
`ReadsJustified`: each converted list holds what lived, and each entry of `provided` and
`consumed` follows from what is in the lists. `ReadsComplete`: what is owed (`lasting`
without `excused`) is in each list already read, and, for the loops over CRDs and
triggers, an element is still pending or done with. Relations between objects are
monotone in the set of objects (`ListsMonotone`), which carries justification along as
`lived` grows and completeness as `lasting` shrinks.

`MeshServerProofs`, for any number of requests, any requests clients send, any rights and
bounds. The assumptions: the service account's configuration is nobody's request, unknown
tokens have no rights, a token is not empty.

- `ServerTypeCorrect`: `Spec => []TypeOK`.
- `ServerInvariantHolds`: `Spec => []SInv`.
- `OwnTokenUsed`, `RightsDecideAlways`: `Spec => []OwnToken`, `Spec => []RightsDecide`.

`OwnToken` speaks of requests that read; for a step into reading one has to know that the
copy of the configuration holds the request's token and no file, and so that the shared
configuration has neither. `RightsDecide` speaks of responses; for the step to a 200 one
has to know that every call made before was granted. `SInv` says both for each stage, in
`Progress(r)`. A step of one request leaves the `Progress` of the others alone
(`OneAtATime`, `Untouched`), which is where the copy matters.

`MeshAnswerProofs`, for the same constants as `MeshBuilderProofs`.

- `TriggersIsolated`: `Spec => TriggerErrorsIsolated`. `RacesCost`: `Spec => []RacesCostNothing`.
- `AnswersClosed`: `Spec => []AnswerClosed`, under `OneCRDPerKind`: no two CRDs that may
  ever exist define the same kind (of a CRD there may be several versions over time). For
  CRDs that exist at the same time the API server sees to it, by accepting names once;
  a kind that moves from one CRD to another within a request is excluded by assumption.
  With it, the list of subscribables has each key once (`KeyedOnce`), which
  is what makes an event type's registration unique, and consumers are of event types that
  a broker provides (`ConsumersProvided`).

`MeshProviderProofs`, for any clusters, replicas, items and bounds. The assumptions: items
have the fields the API gives them; ids with a schedule are ids.

- `ProviderTypeCorrect`: `Spec => []TypeOK`. `TypeOK` is inductive: it has the bounds
  between `lasting`, `lived` and the mesh of each run.
- `ProviderImplementsMirror`: `Spec => MirrorSpec`. Each step maps to a step of the mirror or
  a stutter; a set of fetches under way stands for the runs, so that runs that see the
  same are one fetch, and a fetch may end while another like it goes on (`FetchesLeft`).
- `ChangesAreOneRuns`: `Spec => ShownByOneRun`. `ShownStays`: `Spec => StaysShown`.
- `OneClusterResolves`: with one configured cluster, `Spec => []ReferencesResolve`.
  An answer refers to itself only and a full mutation replaces all there was.

`MeshProcessorProofs`, for any finite set of components, any event types, page limit from
1 and bounds.

- `ProgressAlways`: `Spec => []PInv`. What a page holds is downward closed among the
  components behind the cursor (`PageDownward`), so that the cursor of the next query is
  its greatest name and nothing that lasted lies between the two (`NextCursor`). `Progress`
  carries this over components that come and go between the pages.
- `ProcessorTypeCorrect`, `RelationsJustified`, `RelationsComplete`: `Spec => []TypeOK`,
  `Spec => []EmittedJustified`, `Spec => []EmittedComplete`.

`MeshBackstageProofs`, for any mesh, locations and bounds. The assumptions: locations have
one entity per reference, and what their components provide are APIs.

- `BackstageTypeCorrect`: `Spec => []TypeOK`; the lives of main, catalog and search
  agree through every restart.
- `NoRelationHidden`: `Spec => []RelationsVisible`. Every relation that is ever emitted is
  of a type, and between kinds, that the page of its source has a card for (`Shaped`,
  `PageHasGraph`).

`MeshContractProofs`, for the constants of `MeshBuilderProofs`. Two more assumptions, about
`Objects`, all that may ever exist: a type "group:kind" determines group and kind and is
neither "broker" nor "eventType" (it has a colon, and they have none), and a kind is
defined by one CRD, of which there may be versions that differ in everything but their
names and roles, and which is either of subscribables or of sources. As for
`OneCRDPerKind`, the API server sees to it for CRDs that exist at the same time.

- `ContractAlwaysKept`: `ContractSpec => []ContractKept`.
- `AnswersExpected`: unless the API server denied knowing a kind that a CRD defines, or
  serves it in another version than the one asked for, the items of an answer are among `Answers(lasting, lived)` for the window of its request.
- `RequestsAreFetches`: `ContractSpec => Mirror!Spec`. The cluster's changes, tolerated errors and
  the beginning and end of a request are steps of the mirror. That a fetch is shown is the
  provider's part, which `ProviderImplementsMirror` has; `AnswersExpected` is what it needs
  from here.

The invariant `KInv` speaks of keys. While a request is open, the keys of what was read are
keys of `window.lived`; each item that lasted, in whatever version, has been read, or the
CRD of its kind is still to do or was excused (`Lasting...`); and of a source there are no
two versions, because its kind has one CRD and a CRD is listed once (`SourcesOnce`). For
brokers, subscribables and event types the same is in the invariants of the proofs before.
As long as nothing has changed and nothing was missed, the answer is `Listed(cluster)`,
exactly (`OutputStill`); afterwards the window has all versions, and keys are enough.

Only model-checked: liveness (`EveryRequestEnds`, `Converges`, `RelationsConverge`,
`ConsumersShown`, `SearchFindsAll`).

## Plan

Done: the backend, the providers with their refinement, the processor, the composition, the
seam between backend and provider, and the proofs of all safety and action properties that
the runs check. What is left:

1. The processor of `MeshProcessor` as a refinement of what `MeshBackstage` does in a step.
2. Of `MeshBackstage`, what a life of the process owes to the mirror between its restarts,
   which empty the catalog as no step of `MeshMirror` does.
3. Perhaps: the scripts that regenerate and verify the function templates.

## Not modelled

- The function templates and skeletons (`backstage/templates`) are assets that the
  scaffolder of Backstage copies. `hack/update-templates.sh` regenerates them in place, one
  per pair of language and template that `func` names, and `hack/verify-templates.sh`
  compares the result with a copy: sequential scripts over files, one run at a time.
- The reconciler stub does nothing; `api.gen.go` and the marshalling in `server.gen.go`
  are generated from the API specification.
- Of the demo app and backend: routes, external routes and the sidebar, sign-in, hot
  reloading, the documentation's collator, permissions, proxying, what the scaffolder
  and the documentation do once created, layout, icons and wording. The
  first three are static tables; the others are Backstage's own, configured with its
  defaults.
- Release scripts, CI workflows and end-to-end test configuration.
