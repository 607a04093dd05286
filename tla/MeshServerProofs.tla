-------------------------- MODULE MeshServerProofs --------------------------
(***************************************************************************)
(* Theorems about MeshServer: its types, and that the callers' own tokens  *)
(* and rights decide what they get, for any number of requests at a time,  *)
(* any clients and any rights.                                             *)
(***************************************************************************)
EXTENDS MeshServer, TLAPS

USE DEF Calls, Handling, Open

----------------------------------------------------------------------------
(* Types. *)

\* What a client may have sent holds a token the model knows.
LEMMA SentToken == ASSUME NEW q \in Incoming PROVE TokenIn(q.header) \in Tokens
  BY DEF Tokens

\* The configuration every request starts from is one, and so is a copy with a token.
LEMMA ConfigTypes ==
  /\ NoTokenConfig \in Configs
  /\ \A c \in Configs, t \in Tokens \cup {NoToken} : [c EXCEPT !.token = t] \in Configs
  /\ \A c \in Configs : Credential(c) \in Tokens \cup {NoToken}
  BY DEF NoTokenConfig, Configs, Credential

LEMMA AfterType == \A c \in Calls : After[c] \in Calls \cup {"output"}
  BY DEF After

LEMMA TypeInit == Init => TypeOK
  <1> SUFFICES ASSUME Init PROVE TypeOK
    OBVIOUS
  <1>1. config \in [Requests \cup {"inCluster"} -> Configs]
    BY ConfigTypes DEF Init
  <1>2. may \in [Tokens -> SUBSET Calls] /\ changes \in 0..MaxChanges /\ crashes \in 0..MaxCrashes
    BY ServerAssumption DEF Init
  <1> QED
    BY <1>1, <1>2 DEF Init, TypeOK

\* A request that goes on, or gets its response, keeps the types of the rest.
LEMMA TypeGo ==
  ASSUME TypeOK, NEW r \in Requests, pc[r] \in Open, NEW next \in Open, Go(r, next),
         config' \in [Requests \cup {"inCluster"} -> Configs],
         token' \in [Requests -> Tokens \cup {NoToken}],
         clientset' \in [Requests -> Tokens \cup {NoToken}],
         dynamic' \in [Requests -> Tokens \cup {NoToken}],
         faulty' \in [Requests -> BOOLEAN]
  PROVE  TypeOK'
  BY DEF TypeOK, Go, history

LEMMA TypeRespond ==
  ASSUME TypeOK, NEW r \in Requests, NEW s \in {200, 401, 404, 405, 500}, Respond(r, s),
         faulty' \in [Requests -> BOOLEAN]
  PROVE  TypeOK'
  <1>1. /\ pc' = [pc EXCEPT ![r] = "done"] /\ status' = [status EXCEPT ![r] = s]
        /\ UNCHANGED <<up, config, token, clientset, dynamic, sent, may, could, kept, changes, crashes>>
    BY DEF Respond, local, history
  <1>2. pc' \in [Requests -> Open \cup {"idle", "done"}] /\ status' \in [Requests -> {0, 200, 401, 404, 405, 500}]
    BY <1>1 DEF TypeOK
  <1>3. ASSUME NEW q \in Requests
        PROVE  (pc'[q] \in Open => up' /\ sent'[q] \in Incoming) /\ (pc'[q] # "done" => status'[q] = 0)
    BY <1>1 DEF TypeOK
  <1> QED
    BY <1>1, <1>2, <1>3 DEF TypeOK

LEMMA TypeFailed ==
  ASSUME TypeOK, NEW r \in Requests, pc[r] \in Calls, NEW error, Failed(r, error),
         faulty' \in [Requests -> BOOLEAN]
  PROVE  TypeOK'
  <1>1. CASE error \in Tolerated(pc[r])
    <2>1. Go(r, After[pc[r]]) /\ UNCHANGED local
      BY <1>1 DEF Failed
    <2>2. After[pc[r]] \in Open
      BY AfterType
    <2> QED
      BY <2>1, <2>2, TypeGo DEF TypeOK, local
  <1>2. CASE error \notin Tolerated(pc[r])
    BY <1>2, TypeRespond DEF Failed
  <1> QED
    BY <1>1, <1>2

LEMMA TypeServe ==
  ASSUME TypeOK, NEW r \in Requests, Serve(r)
  PROVE  TypeOK'
  <1> USE DEF TypeOK
  <1>1. CASE Route(r)
    <2>1. faulty' \in [Requests -> BOOLEAN]
      BY <1>1 DEF Route
    <2>2. CASE Go(r, "auth") /\ UNCHANGED local
      BY <1>1, <2>1, <2>2, TypeGo DEF Route, local
    <2>3. CASE Respond(r, 405) \/ Respond(r, 404)
      BY <2>1, <2>3, TypeRespond
    <2> QED
      BY <1>1, <2>2, <2>3 DEF Route
  <1>2. CASE AuthTokenMiddleware(r)
    <2>1. faulty' \in [Requests -> BOOLEAN] /\ sent[r] \in Incoming /\ pc[r] = "auth"
      BY <1>2 DEF AuthTokenMiddleware
    <2>2. CASE Respond(r, 401)
      BY <2>1, <2>2, TypeRespond
    <2>3. CASE Go(r, "validator") /\ UNCHANGED <<config, clientset, dynamic>>
                 /\ token' = [token EXCEPT ![r] = TokenIn(sent[r].header)]
      <3>1. token' \in [Requests -> Tokens \cup {NoToken}]
        BY <2>1, <2>3, SentToken
      <3> QED
        BY <2>1, <2>3, <3>1, TypeGo
    <2> QED
      BY <1>2, <2>2, <2>3 DEF AuthTokenMiddleware
  <1>3. CASE RequestValidator(r)
    <2>1. faulty' \in [Requests -> BOOLEAN] /\ pc[r] = "validator"
      BY <1>3 DEF RequestValidator
    <2>2. CASE Go(r, "endpoint") /\ UNCHANGED local
      BY <2>1, <2>2, TypeGo DEF local
    <2>3. CASE Respond(r, 404)
      BY <2>1, <2>3, TypeRespond
    <2> QED
      BY <1>3, <2>2, <2>3 DEF RequestValidator
  <1>4. CASE GetEventMesh(r)
    <2>1. faulty' \in [Requests -> BOOLEAN] /\ pc[r] = "endpoint"
      BY <1>4 DEF GetEventMesh
    <2>2. CASE Respond(r, 401)
      BY <2>1, <2>2, TypeRespond
    <2>3. CASE Go(r, "clientset") /\ UNCHANGED <<token, clientset, dynamic>>
                 /\ config' = [config EXCEPT ![CopyOf(r)] = [config["inCluster"] EXCEPT !.token = token[r]]]
      <3>1. config["inCluster"] \in Configs /\ token[r] \in Tokens \cup {NoToken}
        OBVIOUS
      <3>2. [config["inCluster"] EXCEPT !.token = token[r]] \in Configs
        BY <3>1, ConfigTypes
      <3>3. config' \in [Requests \cup {"inCluster"} -> Configs]
        BY <2>3, <3>2 DEF CopyOf
      <3> QED
        BY <2>1, <2>3, <3>3, TypeGo
    <2> QED
      BY <1>4, <2>2, <2>3 DEF GetEventMesh
  <1>5. CASE NewClientset(r)
    <2>1. Credential(config[r]) \in Tokens \cup {NoToken}
      BY ConfigTypes
    <2> QED
      BY <1>5, <2>1, TypeGo DEF NewClientset, CopyOf
  <1>6. CASE NewDynamicClient(r)
    <2>1. Credential(config[r]) \in Tokens \cup {NoToken}
      BY ConfigTypes
    <2> QED
      BY <1>6, <2>1, TypeGo DEF NewDynamicClient, CopyOf
  <1>7. CASE Read(r)
    <2>1. pc[r] \in Open /\ After[pc[r]] \in Open
      BY <1>7, AfterType DEF Read
    <2> QED
      BY <1>7, <2>1, TypeGo DEF Read, local
  <1>8. CASE ReadDenied(r)
    BY <1>8, TypeFailed DEF ReadDenied
  <1>9. CASE ReadFails(r)
    BY <1>9, TypeFailed DEF ReadFails
  <1>10. CASE Output(r)
    BY <1>10, TypeRespond DEF Output
  <1> QED
    BY <1>1, <1>2, <1>3, <1>4, <1>5, <1>6, <1>7, <1>8, <1>9, <1>10 DEF Serve

LEMMA TypeNext ==
  ASSUME TypeOK, [Next]_vars
  PROVE  TypeOK'
  <1>1. CASE StartWebServer
    BY <1>1, ConfigTypes DEF TypeOK, StartWebServer, history
  <1>2. CASE Die
    <2>1. crashes' \in 0..MaxCrashes
      BY <1>2, ServerAssumption DEF TypeOK, Die
    <2>2. /\ up' = FALSE
          /\ pc' = [r \in Requests |-> IF pc[r] \in Open THEN "done" ELSE pc[r]]
          /\ UNCHANGED <<config, token, clientset, dynamic, sent, status, may, could, kept, changes, faulty>>
      BY <1>2 DEF Die, local, history
    <2>3. pc' \in [Requests -> Open \cup {"idle", "done"}] /\ \A r \in Requests : pc'[r] \notin Open
      BY <2>2 DEF TypeOK
    <2> QED
      BY <2>1, <2>2, <2>3 DEF TypeOK
  <1>3. CASE ChangeRights
    <2>1. may' \in [Tokens -> SUBSET Calls]
      BY <1>3, ServerAssumption DEF TypeOK, ChangeRights
    <2>2. changes' \in 0..MaxChanges
      BY <1>3, ServerAssumption DEF TypeOK, ChangeRights
    <2>3. ASSUME NEW r \in Requests, pc[r] \in Open PROVE may'[TokenIn(sent[r].header)] \subseteq Calls
      BY <2>1, <2>3, SentToken DEF TypeOK
    <2>4. could' \in [Requests -> SUBSET Calls] /\ kept' \in [Requests -> SUBSET Calls]
      BY <1>3, <2>3 DEF TypeOK, ChangeRights
    <2> QED
      BY <1>3, <2>1, <2>2, <2>4 DEF TypeOK, ChangeRights, local
  <1>4. ASSUME NEW r \in Requests, Receive(r) PROVE TypeOK'
    <2>1. PICK q \in Incoming :
            /\ sent' = [sent EXCEPT ![r] = q]
            /\ could' = [could EXCEPT ![r] = may[TokenIn(q.header)]]
            /\ kept' = [kept EXCEPT ![r] = may[TokenIn(q.header)]]
      BY <1>4 DEF Receive
    <2>2. may[TokenIn(q.header)] \in SUBSET Calls
      BY SentToken DEF TypeOK
    <2>3. sent' \in [Requests -> Incoming \cup {NoRequest}] /\ could' \in [Requests -> SUBSET Calls]
            /\ kept' \in [Requests -> SUBSET Calls]
      BY <2>1, <2>2 DEF TypeOK
    <2>4. /\ up /\ pc[r] = "idle" /\ pc' = [pc EXCEPT ![r] = "router"]
          /\ UNCHANGED <<up, config, token, clientset, dynamic, status, may, changes, faulty, crashes>>
      BY <1>4 DEF Receive, local
    <2>5. pc' \in [Requests -> Open \cup {"idle", "done"}]
      BY <2>4 DEF TypeOK
    <2>6. ASSUME NEW p \in Requests
          PROVE  (pc'[p] \in Open => up' /\ sent'[p] \in Incoming) /\ (pc'[p] # "done" => status'[p] = 0)
      BY <2>1, <2>4 DEF TypeOK
    <2> QED
      BY <2>3, <2>4, <2>5, <2>6 DEF TypeOK
  <1>5. ASSUME NEW r \in Requests, Leave(r) PROVE TypeOK'
    BY <1>5, ConfigTypes DEF TypeOK, Leave
  <1>6. ASSUME NEW r \in Requests, Serve(r) PROVE TypeOK'
    BY <1>6, TypeServe
  <1>7. CASE UNCHANGED vars
    BY <1>7 DEF TypeOK, vars, local, history
  <1> QED
    BY <1>1, <1>2, <1>3, <1>4, <1>5, <1>6, <1>7 DEF Next, Killed, Fatal

\* The variables always have their types; a request under way has no status yet, was
\* sent by a client, and the process it runs in is up.
THEOREM ServerTypeCorrect == Spec => []TypeOK
  BY TypeInit, TypeNext, PTL DEF Spec
----------------------------------------------------------------------------
(* The callers' rights.                                                    *)

\* All that Progress says of a request, but for the rights.
Slot(r) == <<pc[r], sent[r], token[r], config[r], clientset[r], dynamic[r], status[r],
             could[r], kept[r], faulty[r]>>

\* A request that a step does not touch keeps its progress.
LEMMA Untouched ==
  ASSUME NEW r \in Requests, Progress(r), UNCHANGED <<Slot(r), may>>
  PROVE  Progress(r)'
  BY DEF Progress, RightsDecideFor, Own, Slot

\* A step of one request leaves the others alone.
LEMMA OneAtATime ==
  ASSUME SInv, NEW r \in Requests, Serve(r) \/ Receive(r) \/ Leave(r)
  PROVE  /\ config'["inCluster"] = NoTokenConfig
         /\ \A q \in Requests \ {r} : UNCHANGED <<Slot(q), may>>
  <1> USE DEF SInv, TypeOK, Slot
  <1>1. r # "inCluster"
    BY ServerAssumption
  <1>2. CASE Route(r) \/ AuthTokenMiddleware(r) \/ RequestValidator(r) \/ Output(r)
    BY <1>2 DEF Route, AuthTokenMiddleware, RequestValidator, Output, Go, Respond, local, history
  <1>3. CASE GetEventMesh(r) \/ NewClientset(r) \/ NewDynamicClient(r)
    BY <1>1, <1>3 DEF GetEventMesh, NewClientset, NewDynamicClient, CopyOf, Go, Respond, local, history
  <1>4. CASE Read(r) \/ ReadDenied(r) \/ ReadFails(r)
    BY <1>4 DEF Read, ReadDenied, ReadFails, Failed, Go, Respond, local, history
  <1>5. CASE Receive(r)
    BY <1>5 DEF Receive, local
  <1>6. CASE Leave(r)
    BY <1>1, <1>6 DEF Leave
  <1> QED
    BY <1>2, <1>3, <1>4, <1>5, <1>6 DEF Serve

\* What a request knows once it has left the router behind.
LEMMA Going ==
  ASSUME SInv, NEW r \in Requests, pc[r] \in Open, NEW next, Go(r, next)
  PROVE  /\ pc'[r] = next /\ Own(r)' = Own(r) /\ status'[r] = 0
         /\ kept'[r] \subseteq may'[Own(r)'] /\ may'[Own(r)'] \subseteq could'[r]
  BY DEF SInv, TypeOK, Progress, Go, history, Own

\* A response has to be the one that the rights decide on.
LEMMA Responding ==
  ASSUME SInv, NEW r \in Requests, NEW s, Respond(r, s),
         s = 200 => IsMeshGet(sent[r]) /\ Calls \ Loops \subseteq could[r],
         s = 401 => IsMeshGet(sent[r]) /\ Own(r) = NoToken,
         s \in {404, 405} => ~IsMeshGet(sent[r]),
         s = 500 => faulty'[r] \/ ~(Calls \ {"eachTrigger"} \subseteq kept[r])
  PROVE  Progress(r)'
  <1>1. /\ pc'[r] = "done" /\ status'[r] = s
        /\ UNCHANGED <<sent, could, kept>>
    BY DEF SInv, TypeOK, Respond, history
  <1> QED
    BY <1>1 DEF Progress, RightsDecideFor, IsMeshGet, Own, Building

\* The calls before the next one are those before this one, and this one.
LEMMA BeforeAfter == \A c \in Calls : Before[After[c]] \subseteq Before[c] \cup {c}
  BY DEF Before, After

\* Through either client, the request asks with its own token.
LEMMA Asking ==
  ASSUME SInv, NEW r \in Requests, pc[r] \in Calls
  PROVE  CredentialAt(r) = Own(r)
  BY DEF SInv, Progress, CredentialAt, Building

\* After a call that has gone well, or need not go well, the next one is due.
LEMMA NextCall ==
  ASSUME SInv, NEW r \in Requests, pc[r] \in Calls, Go(r, After[pc[r]]), UNCHANGED local,
         pc[r] \in Loops \/ pc[r] \in may[Own(r)]
  PROVE  Progress(r)'
  <1>1. /\ pc'[r] = After[pc[r]] /\ Own(r)' = Own(r) /\ status'[r] = 0
        /\ kept'[r] \subseteq may'[Own(r)'] /\ may'[Own(r)'] \subseteq could'[r]
    BY Going
  <1>2. /\ UNCHANGED <<token, clientset, dynamic, config, sent, could>>
    BY DEF Go, local, history
  <1>3. IsMeshGet(sent[r]) /\ token[r] = Own(r) /\ Own(r) # NoToken
          /\ clientset[r] = Own(r) /\ dynamic[r] = Own(r)
          /\ Before[pc[r]] \ Loops \subseteq could[r] /\ may[Own(r)] \subseteq could[r]
    BY DEF SInv, Progress, Building
  <1>4. Before[After[pc[r]]] \ Loops \subseteq could[r]
    BY <1>3, BeforeAfter
  <1>5. After[pc[r]] \in Building
    BY AfterType DEF Building
  <1> QED
    BY <1>1, <1>2, <1>3, <1>4, <1>5 DEF Progress, RightsDecideFor, Building, IsMeshGet

\* Denied and failed calls.
LEMMA FailedProgress ==
  ASSUME SInv, NEW r \in Requests, pc[r] \in Calls, NEW error, Failed(r, error),
         error \in Tolerated(pc[r]) \/ faulty'[r] \/ pc[r] \notin kept[r] \cup {"eachTrigger"}
  PROVE  Progress(r)'
  <1>1. CASE error \in Tolerated(pc[r])
    <2>1. pc[r] \in Loops
      BY <1>1 DEF Tolerated, Loops
    <2> QED
      BY <1>1, <2>1, NextCall DEF Failed
  <1>2. CASE error \notin Tolerated(pc[r])
    <2>1. Respond(r, 500) /\ (faulty'[r] \/ ~(Calls \ {"eachTrigger"} \subseteq kept[r]))
      BY <1>2 DEF Failed
    <2> QED
      BY <2>1, Responding
  <1> QED
    BY <1>1, <1>2

LEMMA ServeProgress ==
  ASSUME SInv, NEW r \in Requests, Serve(r)
  PROVE  Progress(r)'
  <1> USE DEF SInv
  <1>1. CASE Route(r)
    <2>1. CASE Go(r, "auth") /\ IsMeshGet(sent[r])
      <3>1. pc'[r] = "auth" /\ Own(r)' = Own(r) /\ status'[r] = 0 /\ sent' = sent
              /\ kept'[r] \subseteq may'[Own(r)'] /\ may'[Own(r)'] \subseteq could'[r]
        BY <1>1, <2>1, Going DEF Route, Go
      <3> QED
        BY <2>1, <3>1 DEF Progress, RightsDecideFor, Building, IsMeshGet
    <2>2. CASE (Respond(r, 405) \/ Respond(r, 404)) /\ ~IsMeshGet(sent[r])
      BY <2>2, Responding
    <2> QED
      BY <1>1, <2>1, <2>2 DEF Route, IsMeshGet
  <1>2. CASE AuthTokenMiddleware(r)
    <2>1. pc[r] = "auth" /\ IsMeshGet(sent[r])
      BY <1>2 DEF AuthTokenMiddleware, Progress
    <2>2. CASE Respond(r, 401) /\ Own(r) = NoToken
      BY <2>1, <2>2, Responding
    <2>3. CASE Go(r, "validator") /\ Own(r) # NoToken /\ token' = [token EXCEPT ![r] = Own(r)]
      <3>1. pc'[r] = "validator" /\ Own(r)' = Own(r) /\ status'[r] = 0 /\ sent' = sent
              /\ kept'[r] \subseteq may'[Own(r)'] /\ may'[Own(r)'] \subseteq could'[r]
        BY <2>1, <2>3, Going DEF Go
      <3>2. token'[r] = Own(r)
        BY <2>3 DEF TypeOK
      <3> QED
        BY <2>1, <2>3, <3>1, <3>2 DEF Progress, RightsDecideFor, Building, IsMeshGet
    <2> QED
      BY <1>2, <2>2, <2>3 DEF AuthTokenMiddleware, Own
  <1>3. CASE RequestValidator(r)
    <2>1. /\ pc[r] = "validator" /\ IsMeshGet(sent[r])
          /\ token[r] = Own(r) /\ Own(r) # NoToken
      BY <1>3 DEF RequestValidator, Progress
    <2>2. sent[r].path \in PrefixedPaths
      BY <2>1 DEF MeshPath, IsMeshGet, PrefixedPaths, SpecPaths
    <2>3. Go(r, "endpoint") /\ UNCHANGED local
      BY <1>3, <2>2 DEF RequestValidator
    <2>4. pc'[r] = "endpoint" /\ Own(r)' = Own(r) /\ status'[r] = 0 /\ sent' = sent /\ token' = token
              /\ kept'[r] \subseteq may'[Own(r)'] /\ may'[Own(r)'] \subseteq could'[r]
      BY <2>1, <2>3, Going DEF Go, local
    <2> QED
      BY <2>1, <2>4 DEF Progress, RightsDecideFor, Building, IsMeshGet
  <1>4. CASE GetEventMesh(r)
    <2>1. /\ pc[r] = "endpoint" /\ IsMeshGet(sent[r])
          /\ token[r] = Own(r) /\ Own(r) # NoToken
      BY <1>4 DEF GetEventMesh, Progress
    <2>2. /\ Go(r, "clientset") /\ token' = token
          /\ config' = [config EXCEPT ![r] = [NoTokenConfig EXCEPT !.token = Own(r)]]
      BY <1>4, <2>1 DEF GetEventMesh, CopyOf
    <2>3. config'[r] = [token |-> Own(r), file |-> NoToken]
      BY <2>2 DEF TypeOK, NoTokenConfig
    <2>4. pc'[r] = "clientset" /\ Own(r)' = Own(r) /\ status'[r] = 0 /\ sent' = sent
              /\ kept'[r] \subseteq may'[Own(r)'] /\ may'[Own(r)'] \subseteq could'[r]
      BY <2>1, <2>2, Going DEF Go
    <2> QED
      BY <2>1, <2>2, <2>3, <2>4 DEF Progress, RightsDecideFor, Building, IsMeshGet
  <1>5. CASE NewClientset(r)
    <2>1. /\ pc[r] = "clientset" /\ IsMeshGet(sent[r])
          /\ token[r] = Own(r) /\ Own(r) # NoToken
          /\ config[r] = [token |-> Own(r), file |-> NoToken]
      BY <1>5 DEF NewClientset, Progress
    <2>2. /\ Go(r, "dynamic") /\ UNCHANGED <<config, token>>
          /\ clientset' = [clientset EXCEPT ![r] = Own(r)]
      BY <1>5, <2>1 DEF NewClientset, CopyOf, Credential
    <2>3. clientset'[r] = Own(r)
      BY <2>2 DEF TypeOK
    <2>4. pc'[r] = "dynamic" /\ Own(r)' = Own(r) /\ status'[r] = 0 /\ sent' = sent
              /\ kept'[r] \subseteq may'[Own(r)'] /\ may'[Own(r)'] \subseteq could'[r]
      BY <2>1, <2>2, Going DEF Go
    <2> QED
      BY <2>1, <2>2, <2>3, <2>4 DEF Progress, RightsDecideFor, Building, IsMeshGet
  <1>6. CASE NewDynamicClient(r)
    <2>1. /\ pc[r] = "dynamic" /\ IsMeshGet(sent[r])
          /\ token[r] = Own(r) /\ Own(r) # NoToken /\ clientset[r] = Own(r)
          /\ config[r] = [token |-> Own(r), file |-> NoToken]
      BY <1>6 DEF NewDynamicClient, Progress
    <2>2. /\ Go(r, "brokers") /\ UNCHANGED <<config, token, clientset>>
          /\ dynamic' = [dynamic EXCEPT ![r] = Own(r)]
      BY <1>6, <2>1 DEF NewDynamicClient, CopyOf, Credential
    <2>3. dynamic'[r] = Own(r) /\ Before["brokers"] = {}
      BY <2>2 DEF TypeOK, Before
    <2>4. pc'[r] = "brokers" /\ Own(r)' = Own(r) /\ status'[r] = 0 /\ sent' = sent
              /\ kept'[r] \subseteq may'[Own(r)'] /\ may'[Own(r)'] \subseteq could'[r]
      BY <2>1, <2>2, Going DEF Go
    <2> QED
      BY <2>1, <2>2, <2>3, <2>4 DEF Progress, RightsDecideFor, Building, IsMeshGet
  <1>7. CASE Read(r)
    BY <1>7, Asking, NextCall DEF Read, Granted
  <1>8. CASE ReadDenied(r)
    <2>1. pc[r] \in Calls /\ pc[r] \notin may[Own(r)] /\ kept[r] \subseteq may[Own(r)]
            /\ Failed(r, Denial(Own(r)))
      BY <1>8, Asking DEF ReadDenied, Granted, Progress
    <2>2. pc[r] = "eachTrigger" => Denial(Own(r)) \in Tolerated(pc[r])
      BY DEF Denial, Tolerated
    <2> QED
      BY <2>1, <2>2, FailedProgress
  <1>9. CASE ReadFails(r)
    <2>1. pc[r] \in Calls /\ Failed(r, "Other") /\ faulty'[r]
      BY <1>9 DEF ReadFails, TypeOK
    <2> QED
      BY <2>1, FailedProgress
  <1>10. CASE Output(r)
    <2>1. Before["output"] = Calls /\ IsMeshGet(sent[r]) /\ Before[pc[r]] \ Loops \subseteq could[r]
      BY <1>10 DEF Output, Progress, Building, Before
    <2>2. pc[r] = "output" /\ Respond(r, 200)
      BY <1>10 DEF Output
    <2> QED
      BY <2>1, <2>2, Responding
  <1> QED
    BY <1>1, <1>2, <1>3, <1>4, <1>5, <1>6, <1>7, <1>8, <1>9, <1>10 DEF Serve

LEMMA InvInit == Init => SInv
  BY TypeInit DEF Init, SInv, Progress, RightsDecideFor, Building

LEMMA InvNext ==
  ASSUME SInv, [Next]_vars
  PROVE  SInv'
  <1>1. TypeOK'
    BY TypeNext DEF SInv
  <1>2. CASE StartWebServer \/ UNCHANGED vars
    <2>1. \A r \in Requests : UNCHANGED <<Slot(r), may>>
      BY <1>2, ServerAssumption DEF StartWebServer, vars, local, history, Slot, SInv, TypeOK
    <2>2. config'["inCluster"] = NoTokenConfig
      BY <1>2 DEF StartWebServer, vars, local, SInv, TypeOK
    <2> QED
      BY <1>1, <2>1, <2>2, Untouched DEF SInv
  <1>3. CASE Die
    <2>1. /\ \A r \in Requests : pc'[r] = IF pc[r] \in Open THEN "done" ELSE pc[r]
          /\ UNCHANGED <<config, token, clientset, dynamic, sent, status, may, could, kept, faulty>>
      BY <1>3 DEF Die, local, history
    <2>2. ASSUME NEW r \in Requests PROVE Progress(r)'
      BY <2>1 DEF SInv, Progress, RightsDecideFor, Own, Building
    <2> QED
      BY <1>1, <2>1, <2>2 DEF SInv
  <1>4. CASE ChangeRights
    <2>1. /\ \A r \in Requests : pc[r] \in Open =>
               could'[r] = could[r] \cup may'[Own(r)] /\ kept'[r] = kept[r] \cap may'[Own(r)]
          /\ \A r \in Requests : pc[r] \notin Open => could'[r] = could[r] /\ kept'[r] = kept[r]
          /\ UNCHANGED <<config, token, clientset, dynamic, sent, pc, status, faulty>>
      BY <1>4 DEF ChangeRights, local, Own
    <2>2. ASSUME NEW r \in Requests, pc[r] \in Open PROVE Progress(r)'
      <3>1. status[r] = 0
        BY <2>2 DEF SInv, TypeOK
      <3> QED
        BY <2>1, <2>2, <3>1 DEF SInv, Progress, RightsDecideFor, Own, Building
    <2>3. ASSUME NEW r \in Requests, pc[r] \notin Open PROVE Progress(r)'
      BY <2>1, <2>3 DEF SInv, Progress, RightsDecideFor, Own, Building
    <2> QED
      BY <1>1, <2>1, <2>2, <2>3 DEF SInv
  <1>5. ASSUME NEW r \in Requests, Serve(r) \/ Receive(r) \/ Leave(r) PROVE SInv'
    <2>1. config'["inCluster"] = NoTokenConfig
            /\ \A q \in Requests \ {r} : UNCHANGED <<Slot(q), may>>
      BY <1>5, OneAtATime
    <2>2. \A q \in Requests \ {r} : Progress(q)'
      BY <2>1, Untouched DEF SInv
    <2>3. CASE Receive(r)
      <3>1. PICK q \in Incoming : sent'[r] = q /\ could'[r] = may[TokenIn(q.header)] /\ kept'[r] = could'[r]
        BY <2>3 DEF Receive, SInv, TypeOK
      <3>2. pc'[r] = "router" /\ status'[r] = 0 /\ may' = may
        BY <2>3 DEF Receive, SInv, TypeOK
      <3> QED
        BY <1>1, <2>1, <2>2, <3>1, <3>2 DEF SInv, Progress, RightsDecideFor, Own, Building
    <2>4. CASE Leave(r)
      <3>1. pc'[r] = "idle" /\ status'[r] = 0
        BY <2>4 DEF Leave, SInv, TypeOK
      <3> QED
        BY <1>1, <2>1, <2>2, <3>1 DEF SInv, Progress, RightsDecideFor, Building
    <2> QED
      BY <1>1, <1>5, <2>1, <2>2, <2>3, <2>4, ServeProgress DEF SInv
  <1> QED
    BY <1>2, <1>3, <1>4, <1>5 DEF Next, Killed, Fatal

\* The inductive invariant: at each stage of a request, its context, its configuration
\* and its clients hold its own token, and it has had the rights to the calls made.
THEOREM ServerInvariantHolds == Spec => []SInv
  BY InvInit, InvNext, PTL DEF Spec

\* Whatever other requests do at the same time, each call to the API server carries
\* the token that the request's own client sent.
THEOREM OwnTokenUsed == Spec => []OwnToken
  <1>1. SInv => OwnToken
    BY Asking DEF OwnToken
  <1> QED
    BY <1>1, ServerInvariantHolds, PTL

\* The status of a response follows from the request and the caller's own rights.
THEOREM RightsDecideAlways == Spec => []RightsDecide
  <1>1. SInv => RightsDecide
    BY DEF SInv, Progress, RightsDecide
  <1> QED
    BY <1>1, ServerInvariantHolds, PTL
=============================================================================
