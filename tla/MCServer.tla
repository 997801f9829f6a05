------------------------------ MODULE MCServer ------------------------------
(***************************************************************************)
(* The server with small pools, connections and configurations.  Locations *)
(* and URIs are cut into chunks instead of characters: "/status" is        *)
(* <<"/", "status">>.                                                      *)
(***************************************************************************)
EXTENDS Server, TLC

\* The blocks of dev_config that matter here.
StatusBlock == [location |-> <<"/", "status">>, name |-> "status"]
StaticBlock == [location |-> <<"/", "static">>, name |-> "static"]
EchoBlock   == [location |-> <<"/", "echo">>, name |-> "echo"]
ProxyBlock  == [location |-> <<"/", "ucla">>, name |-> "reverse_proxy"]
RootBlock   == [location |-> <<"/">>, name |-> "not_found"]
\* The not_found block hides it: the locations are the same.
BadBlock    == [location |-> <<"/">>, name |-> "bad_request"]

DevHandlers ==
  <<StaticBlock, EchoBlock, RootBlock, BadBlock, StatusBlock, ProxyBlock>>

\* No block for "/", a name that is misspelt, and a block that is hidden.
PartialHandlers ==
  <<StatusBlock, [location |-> <<"/", "echo">>, name |-> "Echo"],
    [location |-> <<"/", "status">>, name |-> "not_found"]>>

StatusRequest  == [valid |-> TRUE,  uri |-> <<"/", "status">>]
StaticRequest  == [valid |-> TRUE,  uri |-> <<"/", "static", "/", "a">>]
EchoRequest    == [valid |-> TRUE,  uri |-> <<"/", "echo">>]
ProxyRequest   == [valid |-> TRUE,  uri |-> <<"/", "ucla">>]
RootRequest    == [valid |-> TRUE,  uri |-> <<"/">>]
InvalidRequest == [valid |-> FALSE, uri |-> <<>>]

FewRequests == {StatusRequest, EchoRequest, InvalidRequest}
DevRequests == {StatusRequest, StaticRequest, ProxyRequest, RootRequest}
OneRequest  == {StatusRequest}

\* What a client may expect, read off the configuration files and the
\* documentation of the handlers, not off the routing code.  A request for the
\* misspelt handler, the one for EchoRequest, has no answer.
DocumentedCodes == [r \in Requests |->
  CASE r = StatusRequest  -> {200}
    [] r = StaticRequest  -> {200, 404}
    [] r = EchoRequest    -> {}
    [] r = ProxyRequest   -> {200, 400, 500}
    [] r = RootRequest    -> {404}
    [] r = InvalidRequest -> {400}]

Symmetry == Permutations(Conn)
=============================================================================
