----------------------------- MODULE MeshMirror -----------------------------
(***************************************************************************)
(* What the event mesh providers promise: of each configured cluster the   *)
(* catalog shows the answer to one fetch, in a single step, and of a       *)
(* cluster it has not shown yet, nothing.  Schedules, replicas, timeouts,  *)
(* retries and errors do not appear: they only decide which fetches there  *)
(* are and which of them get to show what they found.                      *)
(***************************************************************************)
EXTENDS MeshEntities

CONSTANTS
  Ids,    \* the configured clusters
  Items   \* Items[p]: whatever the backend of p may ever list

VARIABLES
  listed,   \* listed[p]: the items cluster p holds now
  windows,  \* windows[p]: what lived and what lasted during each fetch of p under way
  catalog   \* <<owner, entity>>: the entities in the catalog and who put them there

vars == <<listed, windows, catalog>>

\* Objects of cluster p change, and it lists S now.  A fetch under way sees it, or has seen all it will.
Change(p, S) ==
  /\ S \subseteq Items[p] /\ UniqueKeys(S)
  /\ listed' = [listed EXCEPT ![p] = S]
  /\ \E W \in SUBSET (windows[p] \cup {Widened(Items[p], w, S) : w \in windows[p]}) :
       windows' = [windows EXCEPT ![p] = W]
  /\ catalog' = catalog

\* The backend goes on without an object that it cannot read, for some fetches of p.
Miss(p) ==
  /\ \E W \in SUBSET (windows[p] \cup {Blurred(Items[p], w) : w \in windows[p]}) :
       windows' = [windows EXCEPT ![p] = W]
  /\ UNCHANGED <<listed, catalog>>

\* A fetch of p begins.
Fetch(p) ==
  /\ windows' = [windows EXCEPT ![p] = @ \cup {Window(listed[p])}]
  /\ UNCHANGED <<listed, catalog>>

\* A fetch of p ends, and the catalog shows what it answers.
Show(p) ==
  /\ \E w \in windows[p] : \E mesh \in Answers(w.lasting, w.lived) :
       catalog' \in Mutations(catalog, p, BuildEntities(p, mesh))
  /\ \E W \in SUBSET windows[p] : windows' = [windows EXCEPT ![p] = W]
  /\ listed' = listed

\* Fetches end without a trace.
Forget ==
  /\ \E W \in [Ids -> SUBSET UNION {windows[p] : p \in Ids}] :
       /\ \A p \in Ids : W[p] \subseteq windows[p]
       /\ windows' = W
  /\ UNCHANGED <<listed, catalog>>

Init ==
  /\ \A p \in Ids : listed[p] \subseteq Items[p] /\ UniqueKeys(listed[p])
  /\ windows = [p \in Ids |-> {}]
  /\ catalog = {}

Next ==
  \/ \E p \in Ids : (\E S \in SUBSET Items[p] : Change(p, S)) \/ Miss(p) \/ Fetch(p) \/ Show(p)
  \/ Forget

Spec == Init /\ [][Next]_vars
=============================================================================
