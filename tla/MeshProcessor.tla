--------------------------- MODULE MeshProcessor ---------------------------
(***************************************************************************)
(* The catalog processor (knativeEventMeshProcessor.ts): for an event      *)
(* type's API entity it looks up the components of each consumer, page by  *)
(* page, and emits a pair of relations for each.  The catalog processes an *)
(* entity again and again; between two pages of a query components and API *)
(* entities come, go and change, and other entities are processed.         *)
(*                                                                         *)
(* A component is a record of ns, name and id, its backstage.io/kubernetes-*)
(* id annotation; names are numbers, in the order the catalog lists them.  *)
(* An API entity is a record of ns, name and consumedBy, a sequence of ids *)
(* that names an id as often as triggers deliver to it.                    *)
(***************************************************************************)
EXTENDS FiniteSets, Naturals, Sequences

CONSTANTS
  Components,  \* every component that may ever be in the catalog
  Apis,        \* every API entity of an event type that may ever be in it
  PageLimit,   \* queryEntityPageLimit
  Limits       \* bounds: the changes and failing queries of one behaviour

Key(x) == <<x.ns, x.name>>
Names == {Key(a) : a \in Apis}

ASSUME PageAssumption == PageLimit \in Nat \ {0}
ASSUME ComponentsAssumption == IsFiniteSet(Components) /\ \A c \in Components : c.name \in Nat \ {0}
ASSUME ApisAssumption ==
  \A a \in Apis : a.consumedBy \in Seq({a.consumedBy[k] : k \in DOMAIN a.consumedBy})
ASSUME LimitsAssumption == Limits \in [{"change", "error"} -> Nat]

VARIABLES
  components,  \* the components in the catalog
  apis,        \* the event types' API entities in the catalog
  job,         \* job[n]: the processing of the API entity n under way
  relations,   \* relations[n]: what the last processing of n emitted
  spent        \* how much of the Limits is used up

vars == <<components, apis, job, relations, spent>>

Spend(what) == spent[what] < Limits[what] /\ spent' = [spent EXCEPT ![what] = @ + 1]

UniqueKeys(S) == \A x, y \in S : Key(x) = Key(y) => x = y

----------------------------------------------------------------------------
(* What a processing looks for, and what it emits. *)

Relation(type, source, target) == [type |-> type, source |-> source, target |-> target]

ApiRef(a) == <<"API", a.ns, a.name>>
ComponentRef(c) == <<"Component", c.ns, c.name>>

\* The pair of relations between API entity a and component c.
Emits(a, c) ==
  {Relation("apiConsumedBy", ApiRef(a), ComponentRef(c)),
   Relation("consumesApi", ComponentRef(c), ApiRef(a))}

\* Mutant of Matches: the filter does not have the namespace.
MatchesAnywhere(c, a, id) == c.id = id

\* The filter of the query.
Matches(c, a, id) == c.ns = a.ns /\ c.id = id

Consumers(a) == {a.consumedBy[k] : k \in DOMAIN a.consumedBy}

\* The catalog's answer: the first components that match behind the cursor.
Page(a, id, cursor) ==
  LET rest == {c \in components : Matches(c, a, id) /\ c.name > cursor}
  IN {c \in rest : Cardinality({d \in rest : d.name < c.name}) < PageLimit}

HasNext(a, id, cursor) == {c \in components : Matches(c, a, id) /\ c.name > cursor} # Page(a, id, cursor)

----------------------------------------------------------------------------
(* A processing is idle or has an entity, the consumers it has still to    *)
(* look up, and of the first of these the pages found so far; the          *)
(* components that lived, and those that lasted, since it began; and the   *)
(* ids whose query failed.                                                 *)

Idle == [busy |-> FALSE, entity |-> {}, todo |-> <<>>, cursor |-> 0, found |-> {}, emitted |-> {},
         lived |-> {}, lasting |-> {}, excused |-> {}]

\* Mutant of Process: an event type that has relations is taken for processed.
ProcessNew(n) ==
  /\ ~job[n].busy /\ relations[n] = {}
  /\ \E a \in apis :
       /\ Key(a) = n
       /\ job' = [job EXCEPT ![n] = [Idle EXCEPT !.busy = TRUE, !.entity = {a}, !.todo = a.consumedBy,
                                                 !.lived = components, !.lasting = components]]
  /\ UNCHANGED <<components, apis, relations, spent>>

\* The catalog calls preProcessEntity.
Process(n) ==
  /\ ~job[n].busy
  /\ \E a \in apis :
       /\ Key(a) = n
       /\ job' = [job EXCEPT ![n] = [Idle EXCEPT !.busy = TRUE, !.entity = {a}, !.todo = a.consumedBy,
                                                 !.lived = components, !.lasting = components]]
  /\ UNCHANGED <<components, apis, relations, spent>>

\* Mutant of Gathered: each page replaces the one before.
LatestPage(found, page) == page

\* entities.concat(response.items)
Gathered(found, page) == found \cup page

\* A page arrives and there are more: findComponentsByBackstageId asks for the next one.
NextPage(n) ==
  /\ job[n].busy /\ job[n].todo # <<>>
  /\ \E a \in job[n].entity :
       LET page == Page(a, Head(job[n].todo), job[n].cursor)
       IN /\ HasNext(a, Head(job[n].todo), job[n].cursor)
          /\ job' = [job EXCEPT ![n].found = Gathered(@, page),
                                ![n].cursor = CHOOSE k \in {c.name : c \in page} :
                                                \A c \in page : c.name <= k]
  /\ UNCHANGED <<components, apis, relations, spent>>

\* The last page arrives: the relations of all that was found are emitted.
FinishQuery(n) ==
  /\ job[n].busy /\ job[n].todo # <<>>
  /\ \E a \in job[n].entity :
       LET page == Page(a, Head(job[n].todo), job[n].cursor)
       IN /\ ~HasNext(a, Head(job[n].todo), job[n].cursor)
          /\ job' = [job EXCEPT ![n].emitted = @ \cup UNION {Emits(a, c) : c \in Gathered(job[n].found, page)},
                                ![n].todo = Tail(@), ![n].found = {}, ![n].cursor = 0]
  /\ UNCHANGED <<components, apis, relations, spent>>

\* Mutant of QueryFails: what was found before the error stays.
QueryFailsKeeping(n) ==
  /\ job[n].busy /\ job[n].todo # <<>> /\ Spend("error")
  /\ job' = [job EXCEPT ![n].todo = Tail(@), ![n].cursor = 0, ![n].excused = @ \cup {Head(job[n].todo)}]
  /\ UNCHANGED <<components, apis, relations>>

\* A query fails, at whichever page: this consumer has no components.
QueryFails(n) ==
  /\ job[n].busy /\ job[n].todo # <<>> /\ Spend("error")
  /\ job' = [job EXCEPT ![n].todo = Tail(@), ![n].found = {}, ![n].cursor = 0,
                        ![n].excused = @ \cup {Head(job[n].todo)}]
  /\ UNCHANGED <<components, apis, relations>>

\* preProcessEntity returns, and the catalog replaces the relations that the entity's
\* last processing emitted, if the entity is still there.
Return(n) ==
  /\ job[n].busy /\ job[n].todo = <<>>
  /\ relations' = [relations EXCEPT ![n] = IF n \in {Key(a) : a \in apis} THEN job[n].emitted ELSE {}]
  /\ job' = [job EXCEPT ![n] = Idle]
  /\ UNCHANGED <<components, apis, spent>>

----------------------------------------------------------------------------
(* The rest of the catalog. *)

ComponentsBecome(S) ==
  /\ components' = S
  /\ job' = [n \in Names |-> IF job[n].busy
                               THEN [job[n] EXCEPT !.lived = @ \cup S, !.lasting = @ \cap S]
                               ELSE job[n]]
  /\ Spend("change")
  /\ UNCHANGED <<apis, relations>>

PutComponent(c) ==
  /\ c \notin components
  /\ ComponentsBecome({d \in components : Key(d) # Key(c)} \cup {c})

DeleteComponent(c) == c \in components /\ ComponentsBecome(components \ {c})

\* The provider's mutation brings API entity a, or a new version of it.
PutApi(a) ==
  /\ a \notin apis /\ Spend("change")
  /\ apis' = {b \in apis : Key(b) # Key(a)} \cup {a}
  /\ UNCHANGED <<components, job, relations>>

\* The provider's mutation takes API entity a away, and the relations it is the origin of.
DeleteApi(a) ==
  /\ a \in apis /\ Spend("change")
  /\ apis' = apis \ {a}
  /\ relations' = [relations EXCEPT ![Key(a)] = {}]
  /\ UNCHANGED <<components, job>>

----------------------------------------------------------------------------

Init ==
  /\ components \in {S \in SUBSET Components : UniqueKeys(S)}
  /\ apis \in {S \in SUBSET Apis : UniqueKeys(S)}
  /\ job = [n \in Names |-> Idle]
  /\ relations = [n \in Names |-> {}]
  /\ spent = [what \in {"change", "error"} |-> 0]

Proceed(n) == NextPage(n) \/ FinishQuery(n) \/ QueryFails(n) \/ Return(n)

Next ==
  \/ \E n \in Names : Process(n) \/ Proceed(n)
  \/ \E c \in Components : PutComponent(c) \/ DeleteComponent(c)
  \/ \E a \in Apis : PutApi(a) \/ DeleteApi(a)

Spec == Init /\ [][Next]_vars

\* The catalog's processing loop comes back to every entity, and every query settles.
FairSpec == Spec /\ \A n \in Names : WF_vars(Process(n)) /\ WF_vars(Proceed(n))
----------------------------------------------------------------------------
(* Properties. *)

JobOK(n) ==
  /\ DOMAIN job[n] = DOMAIN Idle
  /\ IF job[n].busy THEN job[n].entity # {} ELSE job[n] = Idle
  /\ \A a \in job[n].entity : a \in Apis /\ Key(a) = n /\ job[n].entity = {a}
  /\ job[n].lasting \subseteq components \/ ~job[n].busy
  /\ components \subseteq job[n].lived \/ ~job[n].busy
  /\ job[n].found \subseteq job[n].lived /\ job[n].lived \subseteq Components
  /\ job[n].cursor \in Nat /\ (job[n].found = {} <=> job[n].cursor = 0)

TypeOK ==
  /\ components \subseteq Components /\ UniqueKeys(components)
  /\ apis \subseteq Apis /\ UniqueKeys(apis)
  /\ DOMAIN job = Names /\ \A n \in Names : JobOK(n)

Consumes(c, a) == c.ns = a.ns /\ c.id \in Consumers(a)

Links(a, c) == {<<ApiRef(a), ComponentRef(c)>>, <<ComponentRef(c), ApiRef(a)>>}
EndsOf(emitted) == {<<r.source, r.target>> : r \in emitted}

\* A processing relates an event type only to components that had, at some moment of
\* it, one of the ids among its consumers, in its own namespace.
EmittedJustified ==
  \A n \in Names : \A a \in job[n].entity :
    EndsOf(job[n].emitted) \subseteq
      UNION {Links(a, c) : c \in {d \in job[n].lived : Consumes(d, a)}}

\* A component that was there from its beginning to its end is related, both ways,
\* unless the query for its id failed: however the pages shift, and whatever fails for
\* another consumer.
EmittedComplete ==
  \A n \in Names : \A a \in job[n].entity :
    job[n].todo = <<>> =>
      \A c \in job[n].lasting :
        Consumes(c, a) /\ c.id \notin job[n].excused => Links(a, c) \subseteq EndsOf(job[n].emitted)

\* How far a processing has come: of the consumer it looks up, what lasted is found up to
\* the cursor; of those before, it is related; the others are still to look up.
Progress(n) ==
  \A a \in job[n].entity :
    LET todo == {job[n].todo[k] : k \in DOMAIN job[n].todo}
        current == {c \in job[n].lived : job[n].todo # <<>> /\ Matches(c, a, Head(job[n].todo))}
    IN /\ job[n].todo \in Seq(Consumers(a))
       /\ job[n].found \subseteq current
       /\ {c \in job[n].lasting \cap current : c.name <= job[n].cursor} \subseteq job[n].found
       /\ EndsOf(job[n].emitted) \subseteq UNION {Links(a, c) : c \in {d \in job[n].lived : Consumes(d, a)}}
       /\ \A c \in job[n].lasting :
            Consumes(c, a) /\ c.id \notin job[n].excused \cup todo => Links(a, c) \subseteq EndsOf(job[n].emitted)

\* The inductive invariant behind EmittedJustified and EmittedComplete: a page read later
\* takes up exactly where the page before ended, for all that lasted in between.
PInv == TypeOK /\ \A n \in Names : Progress(n)

\* Once the catalog rests, an event type is related to exactly the components of its
\* consumers: relations that failed queries or overtaken ones lost come back, those of
\* components and event types that are gone go.
RelationsConverge ==
  <>[](\A n \in Names :
         EndsOf(relations[n]) =
           UNION {Links(x[1], x[2]) :
                    x \in {y \in apis \X components : Key(y[1]) = n /\ Consumes(y[2], y[1])}})
=============================================================================
