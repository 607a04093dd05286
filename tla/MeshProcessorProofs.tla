------------------------ MODULE MeshProcessorProofs ------------------------
(***************************************************************************)
(* Theorems about MeshProcessor, for any components, event types, page     *)
(* limits and bounds: its types, and that the pages of a query, read at    *)
(* different moments, amount to a regular read.                            *)
(***************************************************************************)
EXTENDS MeshProcessor, FiniteSetTheorems, WellFoundedInduction, TLAPS

----------------------------------------------------------------------------
(* Pages. *)

LEMMA LeastNatural ==
  ASSUME NEW T \in SUBSET Nat, T # {}
  PROVE  \E x \in T : \A y \in T : x <= y
  <1> DEFINE R == OpToRel(<, Nat)
  <1>1. \A x, y \in Nat : <<y, x>> \in R <=> y < x
    BY DEF OpToRel
  <1>2. \E x \in T : \A y \in T : <<y, x>> \notin R
    <2>1. IsWellFoundedOn(R, Nat)
      BY NatLessThanWellFounded
    <2> HIDE DEF R
    <2> QED BY <2>1, WFMin
  <1> HIDE DEF R
  <1>3. PICK x \in T : \A y \in T : <<y, x>> \notin R
    BY <1>2
  <1>4. \A y \in T : ~(y < x)
    BY <1>1, <1>3
  <1>5. x \in Nat /\ \A y \in T : y \in Nat
    OBVIOUS
  <1>6. \A m, n \in Nat : ~(m < n) => n <= m
    OBVIOUS
  <1> QED BY <1>4, <1>5, <1>6

\* A set of natural numbers with an upper bound has a greatest element.
LEMMA GreatestNatural ==
  ASSUME NEW T \in SUBSET Nat, T # {}, NEW b \in Nat, \A x \in T : x <= b
  PROVE  \E x \in T : \A y \in T : y <= x
  <1> DEFINE U == {k \in Nat : \A x \in T : x <= k}
  <1>1. U \in SUBSET Nat /\ U # {}
    OBVIOUS
  <1>2. PICK m \in U : \A k \in U : m <= k
    BY <1>1, LeastNatural
  <1>3. m \in T
    <2> SUFFICES ASSUME m \notin T PROVE FALSE
      OBVIOUS
    <2>1. \A x \in T : x <= m - 1 /\ m - 1 \in Nat
      OBVIOUS
    <2>2. m - 1 \in U
      BY <2>1
    <2> QED BY <1>2, <2>2
  <1> QED BY <1>3

\* What the catalog has behind a cursor.
Rest(a, id, cursor) == {c \in components : Matches(c, a, id) /\ c.name > cursor}

LEMMA PageWithin ==
  ASSUME NEW a, NEW id, NEW cursor
  PROVE  /\ Page(a, id, cursor) \subseteq Rest(a, id, cursor)
         /\ Rest(a, id, cursor) \subseteq components
         /\ HasNext(a, id, cursor) <=> Rest(a, id, cursor) # Page(a, id, cursor)
  BY DEF Page, Rest, HasNext

\* A page has what comes before anything it has.
LEMMA PageDownward ==
  ASSUME components \subseteq Components, NEW a, NEW id, NEW cursor \in Nat,
         NEW c \in Rest(a, id, cursor), NEW d \in Page(a, id, cursor), c.name <= d.name
  PROVE  c \in Page(a, id, cursor)
  <1> DEFINE Before(x) == {y \in Rest(a, id, cursor) : y.name < x.name}
  <1>1. d \in Components /\ c \in Components /\ \A y \in Rest(a, id, cursor) : y \in Components
    BY PageWithin
  <1>2. \A y \in Components : y.name \in Nat
    BY ComponentsAssumption
  <1>3. Before(c) \in SUBSET Before(d)
    BY <1>1, <1>2
  <1>4. Before(d) \in SUBSET Components
    BY <1>1
  <1>5. IsFiniteSet(Before(d)) /\ Cardinality(Before(d)) \in Nat
    BY <1>4, ComponentsAssumption, FS_Subset, FS_CardinalityType
  <1>6. Cardinality(Before(c)) <= Cardinality(Before(d)) /\ Cardinality(Before(c)) \in Nat
    BY <1>3, <1>5, FS_Subset, FS_CardinalityType
  <1>7. Cardinality(Before(d)) < PageLimit
    BY DEF Page, Rest
  <1>8. Cardinality(Before(c)) < PageLimit
    BY <1>5, <1>6, <1>7, PageAssumption
  <1> QED BY <1>8 DEF Page, Rest

\* A page is not empty, unless nothing is behind the cursor.
LEMMA PageNonempty ==
  ASSUME components \subseteq Components, NEW a, NEW id, NEW cursor \in Nat,
         Rest(a, id, cursor) # {}
  PROVE  Page(a, id, cursor) # {}
  <1> DEFINE T == {c.name : c \in Rest(a, id, cursor)}
  <1>1. \A c \in Rest(a, id, cursor) : c.name \in Nat
    BY PageWithin, ComponentsAssumption
  <1>2. T \in SUBSET Nat /\ T # {}
    BY <1>1
  <1>3. PICK m \in T : \A k \in T : m <= k
    BY <1>2, LeastNatural
  <1>4. PICK c \in Rest(a, id, cursor) : c.name = m
    OBVIOUS
  <1>5. {y \in Rest(a, id, cursor) : y.name < c.name} = {}
    BY <1>1, <1>3, <1>4
  <1>6. Cardinality({y \in Rest(a, id, cursor) : y.name < c.name}) < PageLimit
    BY <1>5, FS_EmptySet, PageAssumption
  <1> QED BY <1>6 DEF Page, Rest

\* When there are more pages, this one has a last component: where the next begins.
LEMMA NextCursor ==
  ASSUME components \subseteq Components, NEW a, NEW id, NEW cursor \in Nat, HasNext(a, id, cursor)
  PROVE  LET page == Page(a, id, cursor)
             next == CHOOSE k \in {c.name : c \in page} : \A c \in page : c.name <= k
         IN  /\ page # {}
             /\ next \in Nat \ {0}
             /\ \E c \in page : c.name = next
             /\ \A c \in page : c.name <= next
  <1> DEFINE page == Page(a, id, cursor)
             T == {c.name : c \in page}
  <1>1. \A c \in Rest(a, id, cursor) : c.name \in Nat \ {0}
    BY PageWithin, ComponentsAssumption
  <1>2. PICK z \in Rest(a, id, cursor) : z \notin page
    BY PageWithin
  <1>3. page # {} /\ page \subseteq Rest(a, id, cursor)
    BY <1>2, PageNonempty, PageWithin
  <1>4. \A c \in page : c.name <= z.name
    BY <1>1, <1>2, <1>3, PageDownward
  <1> HIDE DEF page
  <1>5. T \in SUBSET Nat /\ T # {} /\ z.name \in Nat /\ \A k \in T : k <= z.name
    BY <1>1, <1>2, <1>3, <1>4
  <1>6. \E k \in T : \A j \in T : j <= k
    BY <1>5, GreatestNatural
  <1>7. \E k \in {c.name : c \in page} : \A c \in page : c.name <= k
    BY <1>6
  <1> DEFINE next == CHOOSE k \in {c.name : c \in page} : \A c \in page : c.name <= k
  <1>8. next \in {c.name : c \in page} /\ \A c \in page : c.name <= next
    BY <1>7
  <1> HIDE DEF next
  <1>9. next \in Nat \ {0}
    BY <1>1, <1>3, <1>8
  <1> QED BY <1>3, <1>8, <1>9 DEF page, next
----------------------------------------------------------------------------
(* Consumers and relations. *)

LEMMA SequenceParts ==
  ASSUME NEW S, NEW s \in Seq(S), s # <<>>
  PROVE  /\ Head(s) \in S /\ Tail(s) \in Seq(S)
         /\ \A k \in DOMAIN s : s[k] = Head(s) \/ \E j \in DOMAIN Tail(s) : Tail(s)[j] = s[k]
  <1>1. Len(s) \in Nat \ {0} /\ DOMAIN s = 1 .. Len(s) /\ Head(s) = s[1]
    OBVIOUS
  <1>2. /\ Tail(s) \in Seq(S)
        /\ DOMAIN Tail(s) = 1 .. (Len(s) - 1)
        /\ \A j \in 1 .. (Len(s) - 1) : Tail(s)[j] = s[j + 1]
    OBVIOUS
  <1>3. ASSUME NEW k \in DOMAIN s, k # 1 PROVE \E j \in DOMAIN Tail(s) : Tail(s)[j] = s[k]
    <2>1. k - 1 \in DOMAIN Tail(s) /\ Tail(s)[k - 1] = s[k]
      BY <1>1, <1>2, <1>3
    <2> QED BY <2>1
  <1> QED BY <1>1, <1>2, <1>3

LEMMA EndsOfPairs ==
  ASSUME NEW E, NEW a, NEW S
  PROVE  EndsOf(E \cup UNION {Emits(a, c) : c \in S}) = EndsOf(E) \cup UNION {Links(a, c) : c \in S}
  <1>1. ASSUME NEW c PROVE EndsOf(Emits(a, c)) = Links(a, c)
    BY DEF EndsOf, Emits, Links, Relation
  <1>2. \A c : \A x : x \in Links(a, c) <=> \E r \in Emits(a, c) : x = <<r.source, r.target>>
    BY <1>1 DEF EndsOf
  <1>3. ASSUME NEW x
        PROVE  x \in EndsOf(E \cup UNION {Emits(a, c) : c \in S})
                 <=> x \in EndsOf(E) \/ \E c \in S : \E r \in Emits(a, c) : x = <<r.source, r.target>>
    BY DEF EndsOf
  <1> QED BY <1>2, <1>3

----------------------------------------------------------------------------
(* Types and progress: of the processing of one entity, then of all. *)

Sound(n) == JobOK(n) /\ Progress(n)

\* Each part of PInv as it is needed.
LEMMA PInvParts ==
  ASSUME PInv, NEW n \in Names
  PROVE  /\ components \subseteq Components
         /\ \A c \in Components : c.name \in Nat \ {0}
         /\ JobOK(n) /\ Progress(n)
  BY ComponentsAssumption DEF PInv, TypeOK

LEMMA IdleSound ==
  ASSUME NEW n, job[n] = Idle
  PROVE  Sound(n)
  <1>1. job[n].found = {} /\ job[n].lived = {} /\ job[n].cursor = 0 /\ job[n].entity = {} /\ ~job[n].busy
    BY DEF Idle
  <1>2. JobOK(n)
    BY <1>1 DEF JobOK
  <1>3. Progress(n)
    BY <1>1 DEF Progress
  <1> QED BY <1>2, <1>3 DEF Sound

\* The same after a step.
LEMMA IdleStaysSound ==
  ASSUME NEW n, job'[n] = Idle
  PROVE  JobOK(n)' /\ Progress(n)'
  <1>1. /\ job'[n].found = {} /\ job'[n].lived = {} /\ job'[n].cursor = 0
        /\ job'[n].entity = {} /\ ~job'[n].busy
    BY DEF Idle
  <1>2. JobOK(n)'
    BY <1>1 DEF JobOK
  <1>3. Progress(n)'
    BY <1>1 DEF Progress
  <1> QED BY <1>2, <1>3

LEMMA SoundInit == Init => PInv
  <1> SUFFICES ASSUME Init PROVE PInv
    OBVIOUS
  <1>1. ASSUME NEW n \in Names PROVE Sound(n)
    BY IdleSound DEF Init
  <1>2. components \subseteq Components /\ UniqueKeys(components)
    BY DEF Init
  <1>3. apis \subseteq Apis /\ UniqueKeys(apis)
    BY DEF Init
  <1>4. DOMAIN job = Names
    BY DEF Init
  <1> QED BY <1>1, <1>2, <1>3, <1>4 DEF Sound, PInv, TypeOK

\* A step of one processing.
LEMMA SoundOneJob ==
  ASSUME PInv, NEW n \in Names, NEW v, job' = [job EXCEPT ![n] = v], Sound(n)',
         UNCHANGED <<components, apis>>
  PROVE  PInv'
  <1>1. ASSUME NEW m \in Names, m # n PROVE Sound(m)'
    <2>1. job'[m] = job[m]
      BY <1>1 DEF PInv, TypeOK
    <2>2. JobOK(m)'
      BY <2>1 DEF PInv, TypeOK, JobOK
    <2>3. Progress(m)'
      BY <2>1 DEF PInv, Progress
    <2> QED BY <2>2, <2>3 DEF Sound
  <1>2. DOMAIN job' = Names
    BY DEF PInv, TypeOK
  <1>3. components' \subseteq Components /\ UniqueKeys(components')
    BY DEF PInv, TypeOK
  <1>4. apis' \subseteq Apis /\ UniqueKeys(apis')
    BY DEF PInv, TypeOK
  <1>5. \A m \in Names : Sound(m)'
    BY <1>1
  <1> QED BY <1>2, <1>3, <1>4, <1>5 DEF Sound, PInv, TypeOK, UniqueKeys

\* A step of the event types.
LEMMA SoundApis ==
  ASSUME PInv, apis' \subseteq Apis, UniqueKeys(apis'), UNCHANGED <<components, job>>
  PROVE  PInv'
  <1>1. ASSUME NEW m \in Names PROVE JobOK(m)' /\ Progress(m)'
    <2>1. JobOK(m)'
      BY DEF PInv, TypeOK, JobOK
    <2>2. Progress(m)'
      BY DEF PInv, Progress
    <2> QED BY <2>1, <2>2
  <1> QED BY <1>1 DEF PInv, TypeOK, UniqueKeys

LEMMA SoundProcess ==
  ASSUME PInv, NEW n \in Names, Process(n)
  PROVE  PInv'
  <1>1. PICK a \in apis :
          /\ Key(a) = n
          /\ job' = [job EXCEPT ![n] = [Idle EXCEPT !.busy = TRUE, !.entity = {a}, !.todo = a.consumedBy,
                                                    !.lived = components, !.lasting = components]]
    BY DEF Process
  <1>2. UNCHANGED <<components, apis>> /\ a \in Apis /\ components \subseteq Components
    BY DEF Process, PInv, TypeOK
  <1>3. /\ DOMAIN job'[n] = DOMAIN Idle
        /\ job'[n].busy /\ job'[n].entity = {a} /\ job'[n].todo = a.consumedBy
        /\ job'[n].lived = components /\ job'[n].lasting = components
        /\ job'[n].found = {} /\ job'[n].cursor = 0 /\ job'[n].emitted = {} /\ job'[n].excused = {}
    BY <1>1 DEF PInv, TypeOK, Idle
  <1>4. JobOK(n)'
    BY <1>1, <1>2, <1>3 DEF JobOK
  <1>5. Progress(n)'
    <2>1. a.consumedBy \in Seq(Consumers(a))
      BY <1>2, ApisAssumption DEF Consumers
    <2>2. \A c \in components : c.name \in Nat \ {0}
      BY <1>2, ComponentsAssumption
    <2>3. EndsOf({}) = {}
      BY DEF EndsOf
    <2>4. \A c : Consumes(c, a) => \E k \in DOMAIN a.consumedBy : c.id = a.consumedBy[k]
      BY DEF Consumes, Consumers
    <2> QED BY <1>2, <1>3, <2>1, <2>2, <2>3, <2>4 DEF Progress
  <1> QED BY <1>1, <1>2, <1>4, <1>5, SoundOneJob DEF Sound
\* The fields of a processing that a query of it leaves alone, and what is at hand for it.
LEMMA QueryParts ==
  ASSUME PInv, NEW n \in Names, job[n].busy, job[n].todo # <<>>, NEW a \in job[n].entity
  PROVE  /\ job[n].entity = {a}
         /\ job[n].todo \in Seq(Consumers(a)) /\ Head(job[n].todo) \in Consumers(a)
         /\ Tail(job[n].todo) \in Seq(Consumers(a))
         /\ job[n].lasting \subseteq components /\ components \subseteq job[n].lived
         /\ job[n].cursor \in Nat
         /\ \A c \in job[n].found : c \in job[n].lived /\ Matches(c, a, Head(job[n].todo))
         /\ \A c \in job[n].lasting :
              Matches(c, a, Head(job[n].todo)) /\ c.name <= job[n].cursor => c \in job[n].found
         /\ \A k \in DOMAIN job[n].todo :
              \/ job[n].todo[k] = Head(job[n].todo)
              \/ \E j \in DOMAIN Tail(job[n].todo) : Tail(job[n].todo)[j] = job[n].todo[k]
  <1>1. JobOK(n) /\ Progress(n)
    BY PInvParts
  <1>2. job[n].todo \in Seq(Consumers(a))
    BY <1>1 DEF Progress
  <1>3. /\ Head(job[n].todo) \in Consumers(a)
        /\ Tail(job[n].todo) \in Seq(Consumers(a))
        /\ \A k \in DOMAIN job[n].todo :
             \/ job[n].todo[k] = Head(job[n].todo)
             \/ \E j \in DOMAIN Tail(job[n].todo) : Tail(job[n].todo)[j] = job[n].todo[k]
    BY <1>2, SequenceParts
  <1>4. /\ \A c \in job[n].found : c \in job[n].lived /\ Matches(c, a, Head(job[n].todo))
        /\ \A c \in job[n].lasting :
             c \in job[n].lived /\ Matches(c, a, Head(job[n].todo)) /\ c.name <= job[n].cursor
               => c \in job[n].found
    BY <1>1 DEF Progress
  <1>5. job[n].entity = {a} /\ job[n].cursor \in Nat
        /\ job[n].lasting \subseteq components /\ components \subseteq job[n].lived
    BY <1>1 DEF JobOK
  <1> QED BY <1>2, <1>3, <1>4, <1>5

LEMMA TwoFields ==
  ASSUME NEW f, NEW n, NEW x, NEW y
  PROVE  [f EXCEPT ![n].found = x, ![n].cursor = y] = [f EXCEPT ![n] = [f[n] EXCEPT !.found = x, !.cursor = y]]
  OBVIOUS

LEMMA SoundNextPage ==
  ASSUME PInv, NEW n \in Names, NextPage(n)
  PROVE  PInv'
  <1>1. PICK a \in job[n].entity :
          LET page == Page(a, Head(job[n].todo), job[n].cursor)
          IN /\ HasNext(a, Head(job[n].todo), job[n].cursor)
             /\ job' = [job EXCEPT ![n].found = Gathered(@, page),
                                   ![n].cursor = CHOOSE k \in {c.name : c \in page} :
                                                   \A c \in page : c.name <= k]
    BY DEF NextPage
  <1> DEFINE id == Head(job[n].todo)
             page == Page(a, id, job[n].cursor)
             next == CHOOSE k \in {c.name : c \in page} : \A c \in page : c.name <= k
             v == [job[n] EXCEPT !.found = @ \cup page, !.cursor = next]
  <1>2. UNCHANGED <<components, apis>> /\ job[n].busy /\ job[n].todo # <<>>
    BY DEF NextPage
  <1>3. job' = [job EXCEPT ![n] = v]
    <2>1. job' = [job EXCEPT ![n].found = job[n].found \cup page, ![n].cursor = next]
      BY <1>1 DEF Gathered
    <2> HIDE DEF page, next
    <2> QED BY <2>1, TwoFields
  <1>4. JobOK(n) /\ Progress(n) /\ components \subseteq Components
    BY PInvParts
  <1>5. /\ job[n].cursor \in Nat /\ job[n].lasting \subseteq components
        /\ components \subseteq job[n].lived
        /\ \A c \in job[n].found : c \in job[n].lived /\ Matches(c, a, id)
        /\ \A c \in job[n].lasting : Matches(c, a, id) /\ c.name <= job[n].cursor => c \in job[n].found
    BY <1>2, QueryParts
  <1>6. page # {} /\ next \in Nat \ {0} /\ (\E c \in page : c.name = next) /\ \A c \in page : c.name <= next
    BY <1>1, <1>4, <1>5, NextCursor
  <1>7. page \subseteq components /\ \A c \in page : Matches(c, a, id)
    BY DEF Page
  <1>8. ASSUME NEW c \in components, Matches(c, a, id), c.name > job[n].cursor, c.name <= next
        PROVE  c \in page
    <2>1. c \in Rest(a, id, job[n].cursor)
      BY <1>8 DEF Rest
    <2>2. PICK d \in page : d.name = next
      BY <1>6
    <2> QED BY <1>4, <1>5, <1>8, <2>1, <2>2, PageDownward
  <1> HIDE DEF page, next
  <1>9. /\ DOMAIN v = DOMAIN Idle
        /\ v.busy /\ v.entity = job[n].entity /\ v.todo = job[n].todo
        /\ v.lived = job[n].lived /\ v.lasting = job[n].lasting /\ v.emitted = job[n].emitted
        /\ v.excused = job[n].excused
        /\ v.found = job[n].found \cup page /\ v.cursor = next
    BY <1>2, <1>4 DEF JobOK, Idle
  <1>10. job'[n] = v
    BY <1>3 DEF PInv, TypeOK
  <1> HIDE DEF v
  <1>11. JobOK(n)'
    BY <1>2, <1>4, <1>5, <1>6, <1>7, <1>9, <1>10 DEF JobOK
  <1>12. Progress(n)'
    <2>1. job[n].entity = {a}
      BY <1>2, QueryParts
    <2>2. ASSUME NEW c \in job[n].lasting, Matches(c, a, id), c.name <= next
          PROVE  c \in job[n].found \cup page
      <3>1. c \in components /\ c.name \in Nat
        BY <1>4, <1>5, ComponentsAssumption
      <3>2. CASE c.name <= job[n].cursor
        BY <1>5, <2>2, <3>2
      <3>3. CASE c.name > job[n].cursor
        BY <1>8, <2>2, <3>1, <3>3
      <3> QED BY <1>5, <3>1, <3>2, <3>3
    <2>3. \A c \in job[n].found \cup page : c \in job[n].lived /\ Matches(c, a, id)
      BY <1>5, <1>7
    <2> QED BY <1>2, <1>4, <1>9, <1>10, <2>1, <2>2, <2>3 DEF Progress
  <1> QED BY <1>2, <1>3, <1>11, <1>12, SoundOneJob DEF Sound

LEMMA SoundFinishQuery ==
  ASSUME PInv, NEW n \in Names, FinishQuery(n)
  PROVE  PInv'
  <1>1. PICK a \in job[n].entity :
          LET page == Page(a, Head(job[n].todo), job[n].cursor)
          IN /\ ~HasNext(a, Head(job[n].todo), job[n].cursor)
             /\ job' = [job EXCEPT ![n].emitted = @ \cup UNION {Emits(a, c) : c \in Gathered(job[n].found, page)},
                                   ![n].todo = Tail(@), ![n].found = {}, ![n].cursor = 0]
    BY DEF FinishQuery
  <1> DEFINE id == Head(job[n].todo)
             page == Page(a, id, job[n].cursor)
             all == job[n].found \cup page
             v == [job[n] EXCEPT !.emitted = @ \cup UNION {Emits(a, c) : c \in all},
                                 !.todo = Tail(@), !.found = {}, !.cursor = 0]
  <1>2. UNCHANGED <<components, apis>> /\ job[n].busy /\ job[n].todo # <<>>
    BY DEF FinishQuery
  <1>3. job' = [job EXCEPT ![n] = v]
    BY <1>1 DEF Gathered
  <1>4. JobOK(n) /\ Progress(n) /\ components \subseteq Components
    BY PInvParts
  <1>5. /\ job[n].entity = {a} /\ job[n].cursor \in Nat /\ job[n].lasting \subseteq components
        /\ components \subseteq job[n].lived
        /\ \A c \in job[n].found : c \in job[n].lived /\ Matches(c, a, id)
        /\ \A c \in job[n].lasting : Matches(c, a, id) /\ c.name <= job[n].cursor => c \in job[n].found
        /\ id \in Consumers(a) /\ Tail(job[n].todo) \in Seq(Consumers(a))
        /\ \A k \in DOMAIN job[n].todo :
             job[n].todo[k] = id \/ \E j \in DOMAIN Tail(job[n].todo) : Tail(job[n].todo)[j] = job[n].todo[k]
    BY <1>2, QueryParts
  <1>6. page \subseteq components /\ \A c \in page : Matches(c, a, id)
    BY DEF Page
  <1>7. ASSUME NEW c \in job[n].lasting, Matches(c, a, id) PROVE c \in all
    <2>1. c \in components /\ c.name \in Nat
      BY <1>4, <1>5, ComponentsAssumption
    <2>2. CASE c.name > job[n].cursor
      BY <1>1, <1>7, <2>1, <2>2, PageWithin DEF Rest
    <2>3. CASE c.name <= job[n].cursor
      BY <1>5, <1>7, <2>3
    <2> QED BY <1>5, <2>1, <2>2, <2>3
  <1>8. \A c \in all : c \in job[n].lived /\ Consumes(c, a)
    BY <1>5, <1>6 DEF Matches, Consumes
  <1> HIDE DEF all
  <1>9. /\ DOMAIN v = DOMAIN Idle
        /\ v.busy /\ v.entity = job[n].entity /\ v.todo = Tail(job[n].todo)
        /\ v.lived = job[n].lived /\ v.lasting = job[n].lasting
        /\ v.emitted = job[n].emitted \cup UNION {Emits(a, c) : c \in all}
        /\ v.excused = job[n].excused
        /\ v.found = {} /\ v.cursor = 0
    BY <1>2, <1>4 DEF JobOK, Idle
  <1>10. job'[n] = v
    BY <1>3 DEF PInv, TypeOK
  <1> HIDE DEF v
  <1>11. JobOK(n)'
    <2>1. UNCHANGED components /\ job'[n].busy /\ job'[n].entity = job[n].entity
          /\ job'[n].lived = job[n].lived /\ job'[n].lasting = job[n].lasting
          /\ job'[n].found = {} /\ job'[n].cursor = 0 /\ DOMAIN job'[n] = DOMAIN Idle
      BY <1>2, <1>9, <1>10
    <2> QED BY <1>2, <1>4, <2>1 DEF JobOK
  <1>12. Progress(n)'
    <2>1. EndsOf(job'[n].emitted) = EndsOf(job[n].emitted) \cup UNION {Links(a, c) : c \in all}
      BY <1>9, <1>10, EndsOfPairs
    <2>2. EndsOf(job'[n].emitted) \subseteq UNION {Links(a, c) : c \in {d \in job[n].lived : Consumes(d, a)}}
      BY <1>4, <1>8, <2>1 DEF Progress
    <2>3. ASSUME NEW c \in job[n].lasting, Consumes(c, a), c.id \notin job[n].excused,
                 \A j \in DOMAIN Tail(job[n].todo) : c.id # Tail(job[n].todo)[j]
          PROVE  Links(a, c) \subseteq EndsOf(job'[n].emitted)
      <3>1. CASE c.id = id
        <4>1. Matches(c, a, id)
          BY <2>3, <3>1 DEF Matches, Consumes
        <4> QED BY <1>7, <2>1, <4>1
      <3>2. CASE c.id # id
        <4>1. c.id \notin {job[n].todo[k] : k \in DOMAIN job[n].todo}
          BY <1>5, <2>3, <3>2
        <4>2. Links(a, c) \subseteq EndsOf(job[n].emitted)
          BY <1>4, <1>5, <2>3, <4>1 DEF Progress
        <4> QED BY <2>1, <4>2
      <3> QED BY <3>1, <3>2
    <2>4. \A c \in job[n].lasting : ~(c.name <= 0)
      BY <1>4, <1>5, ComponentsAssumption
    <2>5. /\ job'[n].entity = {a} /\ job'[n].todo = Tail(job[n].todo)
          /\ job'[n].lived = job[n].lived /\ job'[n].lasting = job[n].lasting
          /\ job'[n].found = {} /\ job'[n].cursor = 0 /\ job'[n].excused = job[n].excused
      BY <1>5, <1>9, <1>10
    <2>6. Tail(job[n].todo) \in Seq(Consumers(a))
      BY <1>5
    <2> QED BY <2>2, <2>3, <2>4, <2>5, <2>6 DEF Progress
  <1> QED BY <1>2, <1>3, <1>11, <1>12, SoundOneJob DEF Sound

LEMMA SoundQueryFails ==
  ASSUME PInv, NEW n \in Names, QueryFails(n)
  PROVE  PInv'
  <1> DEFINE id == Head(job[n].todo)
             v == [job[n] EXCEPT !.todo = Tail(@), !.found = {}, !.cursor = 0, !.excused = @ \cup {id}]
  <1>1. UNCHANGED <<components, apis>> /\ job[n].busy /\ job[n].todo # <<>>
    BY DEF QueryFails
  <1>2. job' = [job EXCEPT ![n] = v]
    BY DEF QueryFails
  <1>3. JobOK(n) /\ Progress(n) /\ components \subseteq Components
    BY PInvParts
  <1>4. PICK a \in job[n].entity : job[n].entity = {a}
    BY <1>1, <1>3 DEF JobOK
  <1>5. /\ job[n].lasting \subseteq components
        /\ Tail(job[n].todo) \in Seq(Consumers(a))
        /\ \A k \in DOMAIN job[n].todo :
             job[n].todo[k] = id \/ \E j \in DOMAIN Tail(job[n].todo) : Tail(job[n].todo)[j] = job[n].todo[k]
    BY <1>1, QueryParts
  <1>6. /\ DOMAIN v = DOMAIN Idle
        /\ v.busy /\ v.entity = job[n].entity /\ v.todo = Tail(job[n].todo)
        /\ v.lived = job[n].lived /\ v.lasting = job[n].lasting /\ v.emitted = job[n].emitted
        /\ v.excused = job[n].excused \cup {id}
        /\ v.found = {} /\ v.cursor = 0
    BY <1>1, <1>3 DEF JobOK, Idle
  <1>7. job'[n] = v
    BY <1>2 DEF PInv, TypeOK
  <1> HIDE DEF v
  <1>8. JobOK(n)'
    BY <1>1, <1>3, <1>6, <1>7 DEF JobOK
  <1>9. Progress(n)'
    <2>1. ASSUME NEW c \in job[n].lasting, Consumes(c, a), c.id \notin job[n].excused \cup {id},
                 \A j \in DOMAIN Tail(job[n].todo) : c.id # Tail(job[n].todo)[j]
          PROVE  Links(a, c) \subseteq EndsOf(job[n].emitted)
      <3>1. c.id \notin {job[n].todo[k] : k \in DOMAIN job[n].todo}
        BY <1>5, <2>1
      <3> QED BY <1>3, <2>1, <3>1 DEF Progress
    <2>2. \A c \in job[n].lasting : ~(c.name <= 0)
      BY <1>3, <1>5, ComponentsAssumption
    <2>3. EndsOf(job[n].emitted) \subseteq UNION {Links(a, c) : c \in {d \in job[n].lived : Consumes(d, a)}}
      BY <1>3 DEF Progress
    <2>4. /\ job'[n].entity = {a} /\ job'[n].todo = Tail(job[n].todo)
          /\ job'[n].lived = job[n].lived /\ job'[n].lasting = job[n].lasting
          /\ job'[n].found = {} /\ job'[n].cursor = 0
          /\ job'[n].emitted = job[n].emitted /\ job'[n].excused = job[n].excused \cup {id}
      BY <1>4, <1>6, <1>7
    <2>5. Tail(job[n].todo) \in Seq(Consumers(a))
      BY <1>5
    <2> QED BY <2>1, <2>2, <2>3, <2>4, <2>5 DEF Progress
  <1> QED BY <1>1, <1>2, <1>8, <1>9, SoundOneJob DEF Sound

LEMMA SoundReturn ==
  ASSUME PInv, NEW n \in Names, Return(n)
  PROVE  PInv'
  <1>1. job' = [job EXCEPT ![n] = Idle] /\ UNCHANGED <<components, apis>>
    BY DEF Return
  <1>2. job'[n] = Idle
    BY <1>1 DEF PInv, TypeOK
  <1>3. Sound(n)'
    BY <1>2, IdleStaysSound DEF Sound
  <1> QED BY <1>1, <1>3, SoundOneJob

LEMMA SoundComponents ==
  ASSUME PInv, NEW S \in SUBSET Components, UniqueKeys(S), ComponentsBecome(S)
  PROVE  PInv'
  <1>1. /\ components' = S /\ UNCHANGED apis
        /\ job' = [n \in Names |-> IF job[n].busy
                                     THEN [job[n] EXCEPT !.lived = @ \cup S, !.lasting = @ \cap S]
                                     ELSE job[n]]
    BY DEF ComponentsBecome
  <1>2. ASSUME NEW n \in Names PROVE JobOK(n)' /\ Progress(n)'
    <2>1. JobOK(n) /\ Progress(n) /\ components \subseteq Components
      BY PInvParts
    <2>2. CASE job[n].busy
      <3> DEFINE v == [job[n] EXCEPT !.lived = @ \cup S, !.lasting = @ \cap S]
      <3>1. job'[n] = v
        BY <1>1, <2>2
      <3>2. /\ DOMAIN v = DOMAIN Idle
            /\ v.busy /\ v.entity = job[n].entity /\ v.todo = job[n].todo
            /\ v.found = job[n].found /\ v.cursor = job[n].cursor /\ v.emitted = job[n].emitted
            /\ v.excused = job[n].excused
            /\ v.lived = job[n].lived \cup S /\ v.lasting = job[n].lasting \cap S
        BY <2>1, <2>2 DEF JobOK, Idle
      <3> HIDE DEF v
      <3>3. JobOK(n)'
        BY <1>1, <2>1, <2>2, <3>1, <3>2 DEF JobOK
      <3>4. Progress(n)'
        <4>1. job[n].lasting \subseteq job[n].lived
          BY <2>1, <2>2 DEF JobOK
        <4> SUFFICES ASSUME NEW a \in job[n].entity
                     PROVE  LET todo == {job[n].todo[k] : k \in DOMAIN job[n].todo}
                                current == {c \in v.lived : job[n].todo # <<>> /\ Matches(c, a, Head(job[n].todo))}
                            IN /\ job[n].todo \in Seq(Consumers(a))
                               /\ job[n].found \subseteq current
                               /\ {c \in v.lasting \cap current : c.name <= job[n].cursor} \subseteq job[n].found
                               /\ EndsOf(job[n].emitted)
                                    \subseteq UNION {Links(a, c) : c \in {d \in v.lived : Consumes(d, a)}}
                               /\ \A c \in v.lasting :
                                    Consumes(c, a) /\ c.id \notin job[n].excused \cup todo
                                      => Links(a, c) \subseteq EndsOf(job[n].emitted)
          BY <3>1, <3>2 DEF Progress
        <4> QED BY <2>1, <3>2, <4>1 DEF Progress
      <3> QED BY <3>3, <3>4
    <2>3. CASE ~job[n].busy
      <3>1. job[n] = Idle /\ job'[n] = job[n]
        BY <1>1, <2>1, <2>3 DEF JobOK
      <3> QED BY <3>1, IdleStaysSound
    <2> QED BY <2>2, <2>3
  <1>3. DOMAIN job' = Names
    BY <1>1
  <1>4. apis' \subseteq Apis /\ UniqueKeys(apis')
    BY <1>1 DEF PInv, TypeOK
  <1>5. components' \subseteq Components /\ UniqueKeys(components')
    BY <1>1
  <1> QED BY <1>2, <1>3, <1>4, <1>5 DEF PInv, TypeOK, UniqueKeys

LEMMA SoundNext == PInv /\ [Next]_vars => PInv'
  <1> SUFFICES ASSUME PInv, [Next]_vars PROVE PInv'
    OBVIOUS
  <1>1. components \subseteq Components /\ UniqueKeys(components) /\ apis \subseteq Apis /\ UniqueKeys(apis)
    BY DEF PInv, TypeOK
  <1>2. CASE UNCHANGED vars
    BY <1>1, <1>2, SoundApis DEF vars
  <1>3. CASE \E n \in Names : Process(n) \/ Proceed(n)
    BY <1>3, SoundProcess, SoundNextPage, SoundFinishQuery, SoundQueryFails, SoundReturn DEF Proceed
  <1>4. ASSUME NEW c \in Components, PutComponent(c) \/ DeleteComponent(c) PROVE PInv'
    <2>1. CASE PutComponent(c)
      <3> DEFINE S == {d \in components : Key(d) # Key(c)} \cup {c}
      <3>1. S \in SUBSET Components /\ UniqueKeys(S)
        BY <1>1, <1>4 DEF UniqueKeys
      <3>2. ComponentsBecome(S)
        BY <2>1 DEF PutComponent
      <3> QED BY <3>1, <3>2, SoundComponents
    <2>2. CASE DeleteComponent(c)
      <3>1. components \ {c} \in SUBSET Components /\ UniqueKeys(components \ {c})
        BY <1>1 DEF UniqueKeys
      <3> QED BY <2>2, <3>1, SoundComponents DEF DeleteComponent
    <2> QED BY <1>4, <2>1, <2>2
  <1>5. ASSUME NEW a \in Apis, PutApi(a) \/ DeleteApi(a) PROVE PInv'
    <2>1. UNCHANGED <<components, job>>
      BY <1>5 DEF PutApi, DeleteApi
    <2>2. apis' = {b \in apis : Key(b) # Key(a)} \cup {a} \/ apis' = apis \ {a}
      BY <1>5 DEF PutApi, DeleteApi
    <2>3. apis' \subseteq Apis /\ UniqueKeys(apis')
      BY <1>1, <1>5, <2>2 DEF UniqueKeys
    <2> QED BY <2>1, <2>3, SoundApis
  <1> QED BY <1>2, <1>3, <1>4, <1>5 DEF Next

----------------------------------------------------------------------------
(* The theorems. *)

\* Every processing keeps to its event type, and takes up each page where the page before
\* ended: what lasted in between is neither skipped nor lost.
THEOREM ProgressAlways == Spec => []PInv
  <1>1. Init => PInv
    BY SoundInit
  <1>2. PInv /\ [Next]_vars => PInv'
    BY SoundNext
  <1> QED BY <1>1, <1>2, PTL DEF Spec

\* The types of MeshProcessor hold always.
THEOREM ProcessorTypeCorrect == Spec => []TypeOK
  <1>1. PInv => TypeOK
    BY DEF PInv
  <1> QED BY <1>1, ProgressAlways, PTL

\* A processing relates an event type only to components that had one of its consumers'
\* ids in its namespace, at some moment of the processing.
THEOREM RelationsJustified == Spec => []EmittedJustified
  <1>1. PInv => EmittedJustified
    BY DEF PInv, Progress, EmittedJustified
  <1> QED BY <1>1, ProgressAlways, PTL

\* A processing relates it to every such component that was there all along, unless the
\* query for the component's id failed: however the pages shift.
THEOREM RelationsComplete == Spec => []EmittedComplete
  <1>1. ASSUME PInv, NEW n \in Names, NEW a \in job[n].entity, job[n].todo = <<>>,
               NEW c \in job[n].lasting, Consumes(c, a), c.id \notin job[n].excused
        PROVE  Links(a, c) \subseteq EndsOf(job[n].emitted)
    <2>1. c.id \notin {job[n].todo[k] : k \in DOMAIN job[n].todo}
      BY <1>1
    <2> QED BY <1>1, <2>1 DEF PInv, Progress
  <1>2. PInv => EmittedComplete
    BY <1>1 DEF EmittedComplete
  <1> QED BY <1>2, ProgressAlways, PTL
=============================================================================
