--------------------------- MODULE MCReverseProxy ---------------------------
(***************************************************************************)
(* The proxy of dev_backend_config, which forwards to itself, and one that *)
(* forwards to another server.  Two clients and four threads.             *)
(***************************************************************************)
EXTENDS ReverseProxy

CONSTANT Deep

OwnServer == [host |-> "localhost", port |-> "8081"]
Elsewhere == [host |-> "backend", port |-> "8081"]

MCServers == {OwnServer, Elsewhere}

\* The empty host is the loopback address.
MCSelf == {OwnServer, [host |-> "", port |-> "8081"]}

\* A host with a port in it is not one the resolver knows.
MCReachable == {"localhost", "backend", ""}

\* One client passes through the proxy twice.
MCPrefixes == [c \in Clients |-> IF c = Deep THEN 2 ELSE 1]

Redirect(scheme, host) ==
  [status |-> 301, location |-> [scheme |-> scheme, host |-> host, prefixes |-> 0]]

MCResponses ==
  {WithStatus(200), Garbled, Redirect("http", "backend"), Redirect("https", "backend"),
   Redirect("http", "backend:80")}

\* A page, or the redirect to "/meme/list".
MCOwnResponses == {WithStatus(200), Redirect("none", "")}
=============================================================================
