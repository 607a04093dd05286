---------------------------- MODULE MCMeshServer ----------------------------
(***************************************************************************)
(* Clients with tokens of different rights, with and without "Bearer",     *)
(* with an unknown token (a header that ends after "Bearer" is one), and   *)
(* without a token; other methods and paths.  The service account may do   *)
(* none of the calls (100-clusterrole.yaml).                               *)
(***************************************************************************)
EXTENDS MeshServer

Get(path, header) == [method |-> "GET", path |-> path, header |-> header]

Clients ==
  {Get(MeshPath, <<"Bearer", "all">>), Get(MeshPath, <<"Bearer", "lists">>),
   Get(MeshPath, <<"all">>), Get(MeshPath, <<"Bearer">>), Get(MeshPath, <<>>),
   Get(<<"v1", "other">>, <<"Bearer", "all">>), Get(<<>>, <<>>),
   [method |-> "POST", path |-> MeshPath, header |-> <<>>]}

Service == <<"service">>
Known == {<<"all">>, <<"lists">>, Service}

Rights ==
  [t \in Tokens |-> CASE t = <<"all">> -> Calls
                      [] t = <<"lists">> -> Calls \ {"eachTrigger", "eachSubscription"}
                      [] OTHER -> {}]

Changing == {<<<<"all">>, "triggers">>, <<<<"lists">>, "eachSubscription">>}
=============================================================================
