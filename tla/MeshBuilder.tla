---------------------------- MODULE MeshBuilder ----------------------------
(***************************************************************************)
(* BuildEventMesh (backends/pkg/eventmesh/v1/builder.go), one request at a *)
(* time, one action per call to the API server.  Between two calls the     *)
(* cluster may change (MeshQuery!Change), and each call may fail with any  *)
(* of the Errors.  What the function computes between two calls is part of *)
(* the action of the call before it.                                       *)
(*                                                                         *)
(* The order in which the API server lists objects is unspecified: a loop  *)
(* over a list takes any of the pending elements next.  The order within   *)
(* the lists of the answer is left out; how often an element is in them is *)
(* not: an entry of a consumedBy list is tagged with the object that       *)
(* appended it.                                                            *)
(***************************************************************************)
EXTENDS MeshQuery

CONSTANTS Errors   \* the errors a call to the API server may fail with

ASSUME ErrorsAssumption == Errors \subseteq {"NotFound", "Unauthorized", "Forbidden", "Other"}

VARIABLES
  pc,             \* the call to make next
  pending,        \* what the current loop has still to process
  brokers,        \* convertedBrokers
  subscribables,  \* convertedSubscribables
  sources,        \* convertedSourceEntries: <<source, its providedEventTypeTypes>>
  eventTypes,     \* convertedEventTypes
  provided,       \* the entries of the providers' ProvidedEventTypes: <<provider, name>>
  consumed        \* the entries of the event types' ConsumedBy: <<name, id, appended by>>

locals == <<pending, brokers, subscribables, sources, eventTypes, provided, consumed>>
vars == <<queryVars, pc, locals>>

Steps == {"brokers", "subscribableCRDs", "subscribables", "sourceCRDs", "sources", "eventTypes",
          "triggers", "eachTrigger", "subscriptions", "eachSubscription", "output"}

TypeOK ==
  /\ cluster \subseteq Objects /\ changes \in 0..MaxChanges
  /\ status \in {"none", "open", "failed", "answered"}
  /\ lived \subseteq Objects /\ lasting \subseteq Objects /\ excused \subseteq Objects
  /\ DOMAIN mesh = Parts
  /\ pc \in Steps \cup {"idle"} /\ (pc = "idle" <=> status # "open")
  /\ pending \subseteq Objects
  /\ brokers \subseteq Objects /\ subscribables \subseteq Objects /\ eventTypes \subseteq Objects
  /\ \A s \in sources : s[1] \in Objects

NoLocals ==
  /\ pending = {} /\ brokers = {} /\ subscribables = {} /\ sources = {}
  /\ eventTypes = {} /\ provided = {} /\ consumed = {}

Init == QueryInit /\ pc = "idle" /\ NoLocals

----------------------------------------------------------------------------
(* The function's frame. *)

\* A GET arrives with a token, and GetEventMesh calls BuildEventMesh.
Request == Open /\ pc' = "brokers" /\ UNCHANGED locals

\* Mutant of Forget: the conversion results live longer than the request.
ForgetLittle ==
  /\ pending' = {} /\ brokers' = {} /\ subscribables' = {} /\ sources' = {}
  /\ eventTypes' = {} /\ consumed' = {} /\ UNCHANGED provided

Forget ==
  /\ pending' = {} /\ brokers' = {} /\ subscribables' = {} /\ sources' = {}
  /\ eventTypes' = {} /\ provided' = {} /\ consumed' = {}

\* Mutant of Fail: the error is reported without a return.
FailWithoutReturn ==
  /\ status' = "failed" /\ mesh' = EmptyMesh
  /\ UNCHANGED <<pc, locals, cluster, changes, lived, lasting, excused>>

\* return EventMesh{}, err
Fail ==
  /\ status' = "failed" /\ mesh' = EmptyMesh
  /\ pc' = "idle" /\ Forget
  /\ UNCHANGED <<cluster, changes, lived, lasting, excused>>

\* A call went well, or failed in a way that is tolerated: the client sees nothing of it.
Silently(tolerated) ==
  /\ excused' = excused \cup tolerated
  /\ UNCHANGED <<cluster, changes, status, mesh, lived, lasting>>

\* Over to the loop over todo, or past it when there is nothing left to do.
Loop(todo, body, after) ==
  /\ pending' = todo
  /\ pc' = IF todo = {} THEN after ELSE body

----------------------------------------------------------------------------
(* Brokers, subscribables and sources. *)

ListBrokers ==
  /\ pc = "brokers"
  /\ brokers' = Brokers(cluster)
  /\ pc' = "subscribableCRDs"
  /\ Silently({})
  /\ UNCHANGED <<pending, subscribables, sources, eventTypes, provided, consumed>>

\* The CRDs with a duck label; when the API server does not serve CRDs there are none.
ListCRDs(at, duck, body, after) ==
  /\ pc = at
  /\ \/ Loop(Labelled(cluster, duck), body, after) /\ Silently({})
     \/ "NotFound" \in Errors /\ Loop({}, body, after) /\ Silently(CRDs(Objects))
  /\ UNCHANGED <<brokers, subscribables, sources, eventTypes, provided, consumed>>

ListSubscribableCRDs ==
  ListCRDs("subscribableCRDs", SubscribableDuck, "subscribables", "sourceCRDs")

ListSourceCRDs == ListCRDs("sourceCRDs", SourceDuck, "sources", "eventTypes")

\* The API server serves crd's instances as long as a CRD that defines their kind has a
\* served version.
Served(crd) == Serves(cluster, crd)

\* A CRD that was replaced since it was listed may serve its instances in another version
\* than the one that is asked for.
Outdated(crd) == Served(crd) /\ crd \notin cluster

\* The instances of a listed CRD.  NotFound is passed over: the CRD is gone or serves no
\* version any more, so that there is nothing to list; or it serves another version, or
\* NotFound is one of the Errors, and the instances are missed.
ListSubscribables(crd) ==
  /\ pc = "subscribables" /\ crd \in pending /\ crd.gvr
  /\ \/ /\ Served(crd)
        /\ subscribables' = subscribables \cup Instances(cluster, crd)
        /\ Silently({})
     \/ /\ ~Served(crd)
        /\ Silently({}) /\ UNCHANGED subscribables
     \/ /\ Outdated(crd) \/ "NotFound" \in Errors
        /\ Silently({crd}) /\ UNCHANGED subscribables
  /\ Loop(pending \ {crd}, "subscribables", "sourceCRDs")
  /\ UNCHANGED <<brokers, sources, eventTypes, provided, consumed>>

\* convertSource: a source with the types its CRD's annotation names.
ConvertSource(s, crd) == <<s, crd.types>>

\* Mutant of ListSources: a CRD that has gone since it was listed fails the request.
ListSourcesStrict(crd) ==
  /\ pc = "sources" /\ crd \in pending /\ crd.gvr
  /\ \/ /\ Served(crd) /\ (crd.json \/ Instances(cluster, crd) = {})
        /\ sources' = sources \cup {ConvertSource(s, crd) : s \in Instances(cluster, crd)}
        /\ Loop(pending \ {crd}, "sources", "eventTypes")
        /\ Silently({})
        /\ UNCHANGED <<brokers, subscribables, eventTypes, provided, consumed>>
     \/ ~Served(crd) /\ Fail

\* Each instance is converted with the types its CRD's annotation names; a CRD
\* without instances is never parsed.
ListSources(crd) ==
  /\ pc = "sources" /\ crd \in pending /\ crd.gvr
  /\ \/ /\ Served(crd) /\ (crd.json \/ Instances(cluster, crd) = {})
        /\ sources' = sources \cup {ConvertSource(s, crd) : s \in Instances(cluster, crd)}
        /\ Silently({})
     \/ /\ ~Served(crd)
        /\ Silently({}) /\ UNCHANGED sources
     \/ /\ Outdated(crd) \/ "NotFound" \in Errors
        /\ Silently({crd}) /\ UNCHANGED sources
  /\ Loop(pending \ {crd}, "sources", "eventTypes")
  /\ UNCHANGED <<brokers, subscribables, eventTypes, provided, consumed>>

----------------------------------------------------------------------------
(* Event types, and who provides them. *)

\* Mutant of Registered: under namespace and type, as NamespacedType gives them.
RegisteredByType(ets) ==
  UNION {{p \in brokers \cup subscribables : KeyOf(p) \in ReferenceKeys(et)}
           \X {NamespacedName(et.ns, <<et.type>>)} : et \in ets}

\* Mutant of Registered: the second lookup, in the subscribables, is missing.
RegisteredWithBrokers(ets) ==
  UNION {{p \in brokers : KeyOf(p) \in ReferenceKeys(et)} \X {NameOf(et)} : et \in ets}

\* An event type is registered with the broker its reference names, else with
\* the subscribable it names, else with nobody.
Registered(ets) ==
  LET named(et, providers) == {p \in providers : KeyOf(p) \in ReferenceKeys(et)}
      provider(et) == IF named(et, brokers) # {} THEN named(et, brokers)
                                                 ELSE named(et, subscribables)
  IN UNION {provider(et) \X {NameOf(et)} : et \in ets}

\* A source provides every event type of the types it is annotated with, in any namespace.
SourceTypes(ets) ==
  UNION {{<<s[1], NameOf(et)>> : et \in {e \in ets : e.type \in s[2]}} : s \in sources}

ListEventTypes ==
  /\ pc = "eventTypes"
  /\ eventTypes' = EventTypes(cluster)
  /\ provided' = Registered(eventTypes') \cup SourceTypes(eventTypes')
  /\ pc' = "triggers"
  /\ Silently({})
  /\ UNCHANGED <<pending, brokers, subscribables, sources, consumed>>

----------------------------------------------------------------------------
(* Triggers and subscriptions. *)

ListTriggers ==
  /\ pc = "triggers"
  /\ Loop(Triggers(cluster), "eachTrigger", "subscriptions")
  /\ Silently({})
  /\ UNCHANGED <<brokers, subscribables, sources, eventTypes, provided, consumed>>

\* getSubscriberBackstageId: the id of the subscriber via names, as a set of at
\* most one id; no id when there is no such object or it has no label.
SubscriberIds(via) == {BackstageId(o) : o \in {x \in cluster : KeyOf(x) \in via.subscriber}} \ {""}

\* Mutant of Collected: the type filter is ignored.
CollectedUnfiltered(t, broker) == {et \in eventTypes : <<broker, NameOf(et)>> \in provided}

\* collectSubscribedEventTypes
Collected(t, broker) ==
  {et \in eventTypes : <<broker, NameOf(et)>> \in provided /\ Wants(t, et)}

TriggerEntries(t) ==
  LET found == UNION {Collected(t, b) : b \in {br \in brokers : KeyOf(br) = BrokerKey(t)}}
  IN {<<NameOf(x[1]), x[2], t>> : x \in found \X SubscriberIds(t)}

\* Mutant of ProcessTrigger: a subscriber that is not there is waited for.
ProcessTriggerWaiting(t) ==
  /\ pc = "eachTrigger" /\ t \in pending
  /\ consumed' = consumed \cup TriggerEntries(t)
  /\ Loop(IF t.subscriber # {} /\ SubscriberIds(t) = {} THEN pending ELSE pending \ {t},
          "eachTrigger", "subscriptions")
  /\ Silently({})
  /\ UNCHANGED <<brokers, subscribables, sources, eventTypes, provided>>

ProcessTrigger(t) ==
  /\ pc = "eachTrigger" /\ t \in pending
  /\ consumed' = consumed \cup TriggerEntries(t)
  /\ Loop(pending \ {t}, "eachTrigger", "subscriptions")
  /\ Silently({})
  /\ UNCHANGED <<brokers, subscribables, sources, eventTypes, provided>>

\* Mutant of SkipTrigger: the error leaves the loop, not the iteration.
SkipTriggers(t) ==
  /\ pc = "eachTrigger" /\ t \in pending
  /\ t.subscriber # {} /\ Errors # {}
  /\ Loop({}, "eachTrigger", "subscriptions")
  /\ Silently({t})
  /\ UNCHANGED <<brokers, subscribables, sources, eventTypes, provided, consumed>>

\* Mutant of SkipTrigger: the error is returned, as it is for subscriptions.
ReturnTriggerError(t) ==
  /\ pc = "eachTrigger" /\ t \in pending
  /\ t.subscriber # {} /\ Errors # {}
  /\ Fail

\* Reading the subscriber failed; NotFound means no subscriber, any other error is
\* logged, and either way the trigger is skipped.
SkipTrigger(t) ==
  /\ pc = "eachTrigger" /\ t \in pending
  /\ t.subscriber # {} /\ Errors # {}
  /\ Loop(pending \ {t}, "eachTrigger", "subscriptions")
  /\ Silently({t})
  /\ UNCHANGED <<brokers, subscribables, sources, eventTypes, provided, consumed>>

ListSubscriptions ==
  /\ pc = "subscriptions"
  /\ Loop(Subscriptions(cluster), "eachSubscription", "output")
  /\ Silently({})
  /\ UNCHANGED <<brokers, subscribables, sources, eventTypes, provided, consumed>>

\* The key an entry of a channel's providedEventTypes is looked up by: the entry,
\* which starts with a namespace already, behind the subscription's namespace.
LookupKey(sub, entry) == NamespacedName(sub.ns, entry)

SubscriptionEntries(sub) ==
  LET entries == {p[2] : p \in {q \in provided : q[1] \in subscribables /\ KeyOf(q[1]) = ChannelKey(sub)}}
      found == {et \in eventTypes : \E entry \in entries : NameOf(et) = LookupKey(sub, entry)}
  IN {<<NameOf(x[1]), x[2], sub>> : x \in found \X SubscriberIds(sub)}

ProcessSubscription(sub) ==
  /\ pc = "eachSubscription" /\ sub \in pending
  /\ consumed' = consumed \cup SubscriptionEntries(sub)
  /\ Loop(pending \ {sub}, "eachSubscription", "output")
  /\ Silently({})
  /\ UNCHANGED <<brokers, subscribables, sources, eventTypes, provided>>

\* Errors of a single subscriber that leave the rest of the answer alone.
SkippedErrors == {"NotFound", "Unauthorized"}

SkipSubscription(sub) ==
  /\ pc = "eachSubscription" /\ sub \in pending
  /\ sub.subscriber # {} /\ Errors \cap SkippedErrors # {}
  /\ Loop(pending \ {sub}, "eachSubscription", "output")
  /\ Silently({sub})
  /\ UNCHANGED <<brokers, subscribables, sources, eventTypes, provided, consumed>>

----------------------------------------------------------------------------
(* The ways to fail. *)

\* A list call fails; listing CRDs or their instances does not fail with NotFound.
ListError ==
  /\ \/ pc \in {"brokers", "eventTypes", "triggers", "subscriptions"} /\ Errors # {}
     \/ /\ pc \in {"subscribableCRDs", "sourceCRDs", "subscribables", "sources"}
        /\ Errors \ {"NotFound"} # {}
  /\ Fail

\* The next CRD of the loop has no usable group, version or plural.
UnusableCRD ==
  /\ pc \in {"subscribables", "sources"}
  /\ \E crd \in pending : ~crd.gvr
  /\ Fail

\* The next source CRD has instances and an annotation that does not parse.
UnreadableTypes ==
  /\ pc = "sources"
  /\ \E crd \in pending : crd.gvr /\ ~crd.json /\ Served(crd) /\ Instances(cluster, crd) # {}
  /\ Fail

\* Reading a subscription's subscriber fails with an error that is not skipped.
SubscriberError ==
  /\ pc = "eachSubscription"
  /\ \E sub \in pending : sub.subscriber # {}
  /\ Errors \ SkippedErrors # {}
  /\ Fail

----------------------------------------------------------------------------

\* Copies what was converted into the answer.
Output ==
  /\ pc = "output"
  /\ mesh' = [brokers |-> brokers, subscribables |-> subscribables,
              sources |-> {s[1] : s \in sources}, eventTypes |-> eventTypes,
              provided |-> provided, consumed |-> consumed]
  /\ status' = "answered"
  /\ pc' = "idle" /\ Forget
  /\ UNCHANGED <<cluster, changes, lived, lasting, excused>>

\* The steps of the function itself.
Build ==
  \/ ListBrokers \/ ListSubscribableCRDs \/ ListSourceCRDs
  \/ \E crd \in pending : ListSubscribables(crd) \/ ListSources(crd)
  \/ ListEventTypes \/ ListTriggers
  \/ \E t \in pending : ProcessTrigger(t) \/ SkipTrigger(t)
  \/ ListSubscriptions
  \/ \E sub \in pending : ProcessSubscription(sub) \/ SkipSubscription(sub)
  \/ ListError \/ UnusableCRD \/ UnreadableTypes \/ SubscriberError
  \/ Output

Next == (Change /\ UNCHANGED <<pc, locals>>) \/ Request \/ Build

Spec == Init /\ [][Next]_vars

\* Every call of the API server returns, with a result or an error, and the
\* handler's goroutine goes on; nothing makes a client ask or the cluster change.
FairSpec == Spec /\ WF_vars(Build)
----------------------------------------------------------------------------
(* Properties. *)

\* The answer shows nothing the cluster did not justify between the request and
\* the answer, although no two of BuildEventMesh's reads see the same cluster.
AnswerJustified == status = "answered" => Justified(mesh, lived)

\* Whatever existed, related as it is, from the request to the answer is in the
\* answer: no deletion, creation or tolerated error elsewhere hides it.
AnswerComplete == status = "answered" => Shows(mesh, lasting \ excused)

\* The answer refers only to itself: each name in a providedEventTypes list and each
\* event type with consumers is an event type of the same answer, which one broker
\* or channel at most provides; each trigger's consumers got there through a broker
\* of the answer.
AnswerClosed ==
  LET names == {NameOf(et) : et \in mesh.eventTypes}
      direct == mesh.brokers \cup mesh.subscribables
  IN /\ \A p \in mesh.provided : p[1] \in direct \cup mesh.sources /\ p[2] \in names
     /\ \A p, q \in mesh.provided :
          p[2] = q[2] /\ {p[1], q[1]} \subseteq direct \ mesh.sources => p[1] = q[1]
     /\ \A c \in mesh.consumed : \E p \in mesh.provided : p[2] = c[1] /\ p[1] \in direct

\* When every call to the API server works, objects coming and going during the
\* reads (a CRD removed before its instances are listed, a subscriber removed before
\* it is fetched) fail no request: only a CRD that is malformed itself does.  Nor do
\* they cost the answer anything that stayed as it was: what is missed is missed on
\* account of a CRD that was replaced.
RacesCostNothing ==
  Errors = {} =>
    /\ excused \subseteq CRDs(Objects) \ lasting
    /\ status = "failed" => \E crd \in CRDs(lived) : ~crd.gvr \/ ~crd.json

\* Failing to read the subscriber of one trigger costs that trigger's consumers and
\* nothing else: the request goes on and keeps what it collected.
TriggerErrorsIsolated ==
  [][pc = "eachTrigger" =>
       /\ status' = "open" /\ consumed \subseteq consumed'
       /\ excused' \ excused \subseteq pending \ pending']_vars

\* Every request is answered or refused.
EveryRequestEnds == status = "open" ~> status # "open"

\* What the comments in processSubscription's callers and on BuildEventMesh lead a
\* reader to expect, and the code does not do (see README, findings).

\* Consumers behind a subscription to a channel are linked to the event types that
\* the channel provides, as processSubscription sets out to do.
SubscriptionConsumersShown ==
  status = "answered" => ConsumedBySubscriptions(lasting \ excused) \subseteq mesh.consumed

\* A subscriber that may not be read does not stop the rest of the data from being
\* rendered.
UnreadableSubscriberTolerated ==
  [][(pc \in {"eachTrigger", "eachSubscription"}) => status' # "failed"]_vars
----------------------------------------------------------------------------
(* The inductive invariant: how far the reads have come, and what is known *)
(* of what they returned.                                                  *)

AfterBrokers == Steps \ {"brokers"}
AfterSubscribables == AfterBrokers \ {"subscribableCRDs", "subscribables"}
AfterSources == AfterSubscribables \ {"sourceCRDs", "sources"}
AfterEventTypes == AfterSources \ {"eventTypes"}
AfterTriggers == AfterEventTypes \ {"triggers", "eachTrigger"}

\* What must be shown in the end.
Owed == lasting \ excused

Window ==
  /\ UniqueKeys(cluster) /\ Defined(cluster)
  /\ status = "open" => lasting \subseteq cluster /\ cluster \subseteq lived
  /\ status # "open" => NoLocals

PendingListed ==
  /\ pc = "subscribables" => pending \subseteq Labelled(lived, SubscribableDuck)
  /\ pc = "sources" => pending \subseteq Labelled(lived, SourceDuck)
  /\ pc = "eachTrigger" => pending \subseteq Triggers(lived)
  /\ pc = "eachSubscription" => pending \subseteq Subscriptions(lived)

ReadsJustified ==
  /\ brokers \subseteq Brokers(lived)
  /\ subscribables \subseteq Subscribables(lived)
  /\ \A s \in sources : \E crd \in Labelled(lived, SourceDuck) :
       s[1] \in Instances(lived, crd) /\ s[2] = crd.types
  /\ eventTypes \subseteq EventTypes(lived)
  /\ \A a, b \in eventTypes : NameOf(a) = NameOf(b) => a = b
  /\ provided = IF pc \in AfterEventTypes
                  THEN Registered(eventTypes) \cup SourceTypes(eventTypes) ELSE {}
  /\ consumed \subseteq ConsumedByTriggers(lived)

\* Of the loops over CRDs and triggers: an element is still pending, or done with.
ReadsComplete ==
  /\ pc \in AfterBrokers => Brokers(Owed) \subseteq brokers
  /\ pc \in {"subscribables"} \cup AfterSubscribables =>
       \A crd \in Labelled(Owed, SubscribableDuck) :
         \/ pc = "subscribables" /\ crd \in pending
         \/ Instances(Owed, crd) \subseteq subscribables
  /\ pc \in {"sources"} \cup AfterSources =>
       \A crd \in Labelled(Owed, SourceDuck) :
         \/ pc = "sources" /\ crd \in pending
         \/ Instances(Owed, crd) \X {crd.types} \subseteq sources
  /\ pc \in AfterEventTypes => EventTypes(Owed) \subseteq eventTypes
  /\ pc \in {"eachTrigger"} \cup AfterTriggers =>
       \A t \in Triggers(Owed) :
         \/ pc = "eachTrigger" /\ t \in pending
         \/ \A et \in EventTypes(Owed), s \in Owed :
              Triggered(Owed, t, et, s) => <<NameOf(et), BackstageId(s), t>> \in consumed

IInv ==
  /\ TypeOK /\ Window /\ PendingListed /\ ReadsJustified /\ ReadsComplete
  /\ AnswerJustified /\ AnswerComplete
=============================================================================
