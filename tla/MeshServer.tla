----------------------------- MODULE MeshServer -----------------------------
(***************************************************************************)
(* The event mesh backend's web server: start (controller.go), router,     *)
(* authentication middleware (authtokenmiddleware.go), request validator,  *)
(* endpoint (endpoint.go) and generated glue (server.gen.go), for several  *)
(* requests at a time.                                                     *)
(*                                                                         *)
(* Every request is served by a goroutine of its own and carries a token   *)
(* of its own, with which the backend reads the cluster on the caller's    *)
(* behalf.  What may a caller see?  What the cluster's RBAC grants the     *)
(* caller, and not what it grants another caller or the backend's own      *)
(* service account, whose credentials are in the configuration that all    *)
(* requests start from.                                                    *)
(*                                                                         *)
(* BuildEventMesh is here the order of its calls and what a denied call    *)
(* does; its data is in MeshBuilder.  A loop of calls of one kind is one   *)
(* call that may be left out: a second round of the loop fails or passes   *)
(* as the first may.  A header is the sequence of its words, a path the    *)
(* sequence of its segments.                                               *)
(***************************************************************************)
EXTENDS Sequences, Naturals

CONSTANTS
  Requests,      \* the requests the server can have under way
  Incoming,      \* what clients send: [method, path, header]
  ServiceToken,  \* the token of the backend's service account
  Authentic,     \* the tokens that the API server knows
  StartRights,   \* for every token, the calls that RBAC grants it at the start
  Unstable,      \* <<token, call>> that may be granted and withdrawn
  MaxChanges,    \* bound: changes of the rights
  MaxCrashes     \* bound: deaths of the server's process

Calls == {"brokers", "subscribableCRDs", "subscribables", "sourceCRDs", "sources", "eventTypes",
          "triggers", "eachTrigger", "subscriptions", "eachSubscription"}

\* No token, in a header or in a configuration.
NoToken == <<>>

\* What a slot for a request holds when there is none.
NoRequest == [method |-> "", path |-> <<>>, header |-> <<>>]

\* The token in an Authorization header: what follows "Bearer ", or all of it.
TokenIn(header) ==
  IF Len(header) > 1 /\ Head(header) = "Bearer" THEN Tail(header) ELSE header

Tokens == {TokenIn(q.header) : q \in Incoming} \cup {ServiceToken}

ASSUME ServerAssumption ==
  /\ "inCluster" \notin Requests
  /\ Authentic \subseteq Tokens \ {NoToken}
  /\ StartRights \in [Tokens -> SUBSET Calls]
  /\ \A t \in Tokens \ Authentic : StartRights[t] = {}
  /\ Unstable \subseteq Authentic \X Calls
  /\ MaxChanges \in Nat /\ MaxCrashes \in Nat

VARIABLES
  up,         \* the server listens
  config,     \* REST configurations: the endpoint's inClusterConfig and each request's
  sent,       \* what the client sent
  pc,         \* where the request is
  token,      \* the token in the request's context
  clientset,  \* the credential of the request's typed client
  dynamic,    \* the credential of the request's dynamic client
  status,     \* the response's status, 0 before there is one and when there never is
  may,        \* the calls RBAC grants each token
  could,      \* the calls that the token the client sent had at some moment of the request
  kept,       \* the calls that it has had ever since the request began
  faulty,     \* a call has failed although it was granted
  changes, crashes

local == <<config, token, clientset, dynamic>>
history == <<may, could, kept, changes>>
vars == <<up, local, sent, pc, status, history, faulty, crashes>>

Handling == {"router", "auth", "validator", "endpoint", "clientset", "dynamic"}
Open == Handling \cup Calls \cup {"output"}

Configs == [token : Tokens \cup {NoToken}, file : Tokens \cup {NoToken}]

TypeOK ==
  /\ up \in BOOLEAN
  /\ config \in [Requests \cup {"inCluster"} -> Configs]
  /\ sent \in [Requests -> Incoming \cup {NoRequest}]
  /\ pc \in [Requests -> Open \cup {"idle", "done"}]
  /\ token \in [Requests -> Tokens \cup {NoToken}]
  /\ clientset \in [Requests -> Tokens \cup {NoToken}]
  /\ dynamic \in [Requests -> Tokens \cup {NoToken}]
  /\ status \in [Requests -> {0, 200, 401, 404, 405, 500}]
  /\ may \in [Tokens -> SUBSET Calls]
  /\ could \in [Requests -> SUBSET Calls] /\ kept \in [Requests -> SUBSET Calls]
  /\ faulty \in [Requests -> BOOLEAN]
  /\ changes \in 0..MaxChanges /\ crashes \in 0..MaxCrashes
  /\ \A r \in Requests : /\ pc[r] \in Open => up /\ sent[r] \in Incoming
                         /\ pc[r] # "done" => status[r] = 0

----------------------------------------------------------------------------
(* The process. *)

\* Mutant of NoTokenConfig: the file the service account's token is mounted in stays.
NoTokenButFile == [token |-> NoToken, file |-> ServiceToken]

\* startWebServer clears the service account's token and the file it is read from.
NoTokenConfig == [token |-> NoToken, file |-> NoToken]

\* client-go prefers the token in the file.
Credential(c) == IF c.file # NoToken THEN c.file ELSE c.token

\* The paths of the API specification, which the validator compares with after
\* prefixSwaggerPaths, and the one path that has a route.
SpecPaths == {<<"getEventMesh">>}
PrefixedPaths == {<<"v1">> \o p : p \in SpecPaths}
MeshPath == <<"v1">> \o <<"getEventMesh">>

StartWebServer ==
  /\ ~up
  /\ up' = TRUE
  /\ config' = [config EXCEPT !["inCluster"] = NoTokenConfig]
  /\ UNCHANGED <<sent, pc, token, clientset, dynamic, status, history, faulty, crashes>>

\* The process ends; requests under way are never answered.
Die ==
  /\ crashes < MaxCrashes /\ crashes' = crashes + 1
  /\ up' = FALSE
  /\ pc' = [r \in Requests |-> IF pc[r] \in Open THEN "done" ELSE pc[r]]
  /\ UNCHANGED <<local, sent, status, history, faulty>>

Killed == up /\ Die

\* log.Fatalf when a client cannot be created: the request takes the process along.
Fatal(r) == pc[r] \in {"clientset", "dynamic"} /\ Die

----------------------------------------------------------------------------
(* From the socket to the endpoint. *)

\* A client sends a request; the history begins with the rights of its token.
Receive(r) ==
  /\ up /\ pc[r] = "idle"
  /\ \E q \in Incoming :
       /\ sent' = [sent EXCEPT ![r] = q]
       /\ could' = [could EXCEPT ![r] = may[TokenIn(q.header)]]
       /\ kept' = [kept EXCEPT ![r] = may[TokenIn(q.header)]]
  /\ pc' = [pc EXCEPT ![r] = "router"]
  /\ UNCHANGED <<up, local, status, may, changes, faulty, crashes>>

Go(r, next) == pc' = [pc EXCEPT ![r] = next] /\ UNCHANGED <<up, sent, status, history, crashes>>

Respond(r, s) ==
  /\ pc' = [pc EXCEPT ![r] = "done"]
  /\ status' = [status EXCEPT ![r] = s]
  /\ UNCHANGED <<up, local, sent, history, crashes>>

\* Routers run no middleware for a request without a route.
Route(r) ==
  /\ pc[r] = "router"
  /\ \/ sent[r].path = MeshPath /\ sent[r].method = "GET" /\ Go(r, "auth") /\ UNCHANGED local
     \/ sent[r].path = MeshPath /\ sent[r].method # "GET" /\ Respond(r, 405)
     \/ sent[r].path # MeshPath /\ Respond(r, 404)
  /\ UNCHANGED faulty

\* Mutant of AuthTokenMiddleware: the 401 is written without a return.
AuthWithoutReturn(r) ==
  /\ pc[r] = "auth"
  /\ LET t == TokenIn(sent[r].header) IN
       /\ token' = [token EXCEPT ![r] = t]
       /\ status' = [status EXCEPT ![r] = IF t = NoToken THEN 401 ELSE @]
  /\ pc' = [pc EXCEPT ![r] = "validator"]
  /\ UNCHANGED <<up, config, clientset, dynamic, sent, history, faulty, crashes>>

AuthTokenMiddleware(r) ==
  /\ pc[r] = "auth"
  /\ LET t == TokenIn(sent[r].header) IN
       \/ t = NoToken /\ Respond(r, 401)
       \/ /\ t # NoToken
          /\ token' = [token EXCEPT ![r] = t]
          /\ Go(r, "validator")
          /\ UNCHANGED <<config, clientset, dynamic>>
  /\ UNCHANGED faulty

RequestValidator(r) ==
  /\ pc[r] = "validator"
  /\ \/ sent[r].path \in PrefixedPaths /\ Go(r, "endpoint") /\ UNCHANGED local
     \/ sent[r].path \notin PrefixedPaths /\ Respond(r, 404)
  /\ UNCHANGED faulty

----------------------------------------------------------------------------
(* GetEventMesh. *)

\* Mutant of CopyOf: all requests work on the endpoint's configuration.
CopyNone(r) == "inCluster"

\* rest.CopyConfig gives request r a configuration of its own.
CopyOf(r) == r

\* GetEventMesh up to the clients: the caller's token goes into the copy.
GetEventMesh(r) ==
  /\ pc[r] = "endpoint"
  /\ \/ token[r] = NoToken /\ Respond(r, 401)
     \/ /\ token[r] # NoToken
        /\ config' = [config EXCEPT ![CopyOf(r)] = [config["inCluster"] EXCEPT !.token = token[r]]]
        /\ Go(r, "clientset")
        /\ UNCHANGED <<token, clientset, dynamic>>
  /\ UNCHANGED faulty

NewClientset(r) ==
  /\ pc[r] = "clientset"
  /\ clientset' = [clientset EXCEPT ![r] = Credential(config[CopyOf(r)])]
  /\ Go(r, "dynamic")
  /\ UNCHANGED <<config, token, dynamic, faulty>>

\* Mutant of NewDynamicClient: the dynamic client is made from the endpoint's configuration.
NewSharedDynamicClient(r) ==
  /\ pc[r] = "dynamic"
  /\ dynamic' = [dynamic EXCEPT ![r] = Credential(config["inCluster"])]
  /\ Go(r, "brokers")
  /\ UNCHANGED <<config, token, clientset, faulty>>

NewDynamicClient(r) ==
  /\ pc[r] = "dynamic"
  /\ dynamic' = [dynamic EXCEPT ![r] = Credential(config[CopyOf(r)])]
  /\ Go(r, "brokers")
  /\ UNCHANGED <<config, token, clientset, faulty>>

\* The order of BuildEventMesh's calls, and the client that makes each.
After == [brokers |-> "subscribableCRDs", subscribableCRDs |-> "subscribables",
          subscribables |-> "sourceCRDs", sourceCRDs |-> "sources", sources |-> "eventTypes",
          eventTypes |-> "triggers", triggers |-> "eachTrigger", eachTrigger |-> "subscriptions",
          subscriptions |-> "eachSubscription", eachSubscription |-> "output"]
Typed == {"brokers", "eventTypes", "triggers", "subscriptions"}
Loops == {"subscribables", "sources", "eachTrigger", "eachSubscription"}

\* The errors of a call after which BuildEventMesh goes on.
Tolerated(call) ==
  CASE call = "eachTrigger" -> {"Unauthorized", "Forbidden", "Other"}
    [] call = "eachSubscription" -> {"Unauthorized"}
    [] OTHER -> {}

CredentialAt(r) == IF pc[r] \in Typed THEN clientset[r] ELSE dynamic[r]
Granted(r) == pc[r] \in may[CredentialAt(r)]
Denial(t) == IF t \in Authentic THEN "Forbidden" ELSE "Unauthorized"

\* The next call is granted and works, or its loop has nothing to do.
Read(r) ==
  /\ pc[r] \in Calls
  /\ Granted(r) \/ pc[r] \in Loops
  /\ Go(r, After[pc[r]])
  /\ UNCHANGED <<local, faulty>>

\* Mutant of Failed: after a tolerated error the triggers are listed again.
FailedAgain(r, error) ==
  IF error \in Tolerated(pc[r]) THEN Go(r, "triggers") /\ UNCHANGED local ELSE Respond(r, 500)

\* What a failed call leads to: the next one, or a 500 from the strict handler.
Failed(r, error) ==
  IF error \in Tolerated(pc[r]) THEN Go(r, After[pc[r]]) /\ UNCHANGED local ELSE Respond(r, 500)

ReadDenied(r) ==
  /\ pc[r] \in Calls /\ ~Granted(r)
  /\ Failed(r, Denial(CredentialAt(r)))
  /\ UNCHANGED faulty

\* Any other failure; the request's context being cancelled is one.
ReadFails(r) ==
  /\ pc[r] \in Calls
  /\ Failed(r, "Other")
  /\ faulty' = [faulty EXCEPT ![r] = TRUE]

Output(r) == pc[r] = "output" /\ Respond(r, 200) /\ UNCHANGED faulty

\* The request's goroutine ends, and its memory goes.
Leave(r) ==
  /\ pc[r] = "done"
  /\ pc' = [pc EXCEPT ![r] = "idle"]
  /\ token' = [token EXCEPT ![r] = NoToken]
  /\ config' = [config EXCEPT ![r] = NoTokenConfig]
  /\ clientset' = [clientset EXCEPT ![r] = NoToken]
  /\ dynamic' = [dynamic EXCEPT ![r] = NoToken]
  /\ status' = [status EXCEPT ![r] = 0]
  /\ could' = [could EXCEPT ![r] = {}] /\ kept' = [kept EXCEPT ![r] = {}]
  /\ faulty' = [faulty EXCEPT ![r] = FALSE]
  /\ sent' = [sent EXCEPT ![r] = NoRequest]
  /\ UNCHANGED <<up, may, changes, crashes>>

----------------------------------------------------------------------------

\* An administrator grants or withdraws a right.
ChangeRights ==
  /\ changes < MaxChanges /\ changes' = changes + 1
  /\ \E u \in Unstable :
       may' = [may EXCEPT ![u[1]] = IF u[2] \in @ THEN @ \ {u[2]} ELSE @ \cup {u[2]}]
  /\ LET own(r) == may'[TokenIn(sent[r].header)] IN
       /\ could' = [r \in Requests |-> IF pc[r] \in Open THEN could[r] \cup own(r) ELSE could[r]]
       /\ kept' = [r \in Requests |-> IF pc[r] \in Open THEN kept[r] \cap own(r) ELSE kept[r]]
  /\ UNCHANGED <<up, local, sent, pc, status, faulty, crashes>>

Init ==
  /\ up = FALSE
  /\ config = [c \in Requests \cup {"inCluster"} |-> NoTokenConfig]
  /\ sent = [r \in Requests |-> NoRequest]
  /\ pc = [r \in Requests |-> "idle"]
  /\ token = [r \in Requests |-> NoToken]
  /\ clientset = [r \in Requests |-> NoToken] /\ dynamic = [r \in Requests |-> NoToken]
  /\ status = [r \in Requests |-> 0]
  /\ may = StartRights
  /\ could = [r \in Requests |-> {}] /\ kept = [r \in Requests |-> {}]
  /\ faulty = [r \in Requests |-> FALSE]
  /\ changes = 0 /\ crashes = 0

\* The steps of a request's goroutine.
Serve(r) ==
  \/ Route(r) \/ AuthTokenMiddleware(r) \/ RequestValidator(r)
  \/ GetEventMesh(r) \/ NewClientset(r) \/ NewDynamicClient(r)
  \/ Read(r) \/ ReadDenied(r) \/ ReadFails(r) \/ Output(r)

Next ==
  \/ StartWebServer \/ Killed \/ ChangeRights
  \/ \E r \in Requests : Receive(r) \/ Serve(r) \/ Fatal(r) \/ Leave(r)

Spec == Init /\ [][Next]_vars

\* Goroutines go on and calls to the API server return; nothing makes clients ask.
FairSpec == Spec /\ \A r \in Requests : WF_vars(Serve(r))
----------------------------------------------------------------------------
(* Properties. *)

IsMeshGet(q) == q.path = MeshPath /\ q.method = "GET"

\* The token that request r's own client sent.
Own(r) == TokenIn(sent[r].header)

\* Whatever other requests do at the same time and whatever the process was started
\* with, each call a request makes to the API server carries the token its own
\* client sent, through either client.
OwnToken ==
  \A r \in Requests : pc[r] \in Calls => CredentialAt(r) = Own(r)

RightsDecideFor(r) ==
  /\ status[r] = 200 => IsMeshGet(sent[r]) /\ Calls \ Loops \subseteq could[r]
  /\ status[r] = 401 => IsMeshGet(sent[r]) /\ Own(r) = NoToken
  /\ status[r] \in {404, 405} => ~IsMeshGet(sent[r])
  /\ status[r] = 500 => faulty[r] \/ ~(Calls \ {"eachTrigger"} \subseteq kept[r])

\* The caller's own rights decide the answer: a mesh only for a GET whose token had
\* the right to every list at some moment of the request, an error only when a call
\* failed for another reason or the token lacked a right at some moment, 401 only
\* without a token, 404 and 405 only for something else than a GET of the mesh.
RightsDecide == \A r \in Requests : RightsDecideFor(r)

\* A request the server has accepted ends, with an answer or with the process.
EveryRequestEnds == \A r \in Requests : pc[r] \in Open ~> pc[r] = "done"

----------------------------------------------------------------------------
(* The inductive invariant: what is known of a request at each stage.      *)

\* The calls made before each call, and before the output.
Before ==
  [brokers |-> {}, subscribableCRDs |-> {"brokers"},
   subscribables |-> {"brokers", "subscribableCRDs"},
   sourceCRDs |-> {"brokers", "subscribableCRDs", "subscribables"},
   sources |-> {"brokers", "subscribableCRDs", "subscribables", "sourceCRDs"},
   eventTypes |-> {"brokers", "subscribableCRDs", "subscribables", "sourceCRDs", "sources"},
   triggers |-> Calls \ {"triggers", "eachTrigger", "subscriptions", "eachSubscription"},
   eachTrigger |-> Calls \ {"eachTrigger", "subscriptions", "eachSubscription"},
   subscriptions |-> Calls \ {"subscriptions", "eachSubscription"},
   eachSubscription |-> Calls \ {"eachSubscription"},
   output |-> Calls]

Building == Calls \cup {"output"}

Progress(r) ==
  /\ pc[r] \in Open => kept[r] \subseteq may[Own(r)] /\ may[Own(r)] \subseteq could[r]
  /\ pc[r] \in Open \ {"router"} => IsMeshGet(sent[r])
  /\ pc[r] \in Open \ {"router", "auth"} => token[r] = Own(r) /\ Own(r) # NoToken
  /\ pc[r] \in {"clientset", "dynamic"} => config[r] = [token |-> Own(r), file |-> NoToken]
  /\ pc[r] \in {"dynamic"} \cup Building => clientset[r] = Own(r)
  /\ pc[r] \in Building => dynamic[r] = Own(r) /\ Before[pc[r]] \ Loops \subseteq could[r]
  /\ RightsDecideFor(r)

SInv ==
  /\ TypeOK
  /\ config["inCluster"] = NoTokenConfig
  /\ \A r \in Requests : Progress(r)
=============================================================================
