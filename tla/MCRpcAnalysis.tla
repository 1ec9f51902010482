---------------------------- MODULE MCRpcAnalysis ----------------------------
(***************************************************************************)
(* Small traces for RpcAnalysis: a front end, a shop and a cart that call  *)
(* each other and a data base.                                             *)
(***************************************************************************)
EXTENDS RpcAnalysis, TLC

CONSTANTS none, front, cart, shop, other, cartHost, cartIp, db, r1, r2, r3, r4

\* The registry knows the host name and the address of the cart.
MCRegistry ==
    [n \in Name |-> IF n \in {cartHost, cartIp} THEN cart ELSE Null]

Server(r, service, ip, parent) ==
    [kind |-> "server", request |-> r, service |-> service, ip |-> ip,
     parent |-> parent, parentIp |-> none]

Client(r, service, peer, layer) ==
    [kind |-> "client", request |-> r, service |-> service, ip |-> none,
     peer |-> peer, layer |-> layer]

\* A request that both its client and its server report, a service
\* with two callers, one that calls it, two requests of one relation and one
\* to a data base.
MCSpans ==
    {Server(r1, cart, cartIp, front), Client(r1, front, cartHost, "Http"),
     Server(r2, cart, cartIp, shop), Client(r3, front, cartHost, "Http"),
     Client(r4, front, db, "Database")}

\* Both spans of one request, beside a local span.
MCMixedSpans ==
    {Server(r1, cart, cartIp, front), Client(r1, front, cartHost, "Http"),
     Server(r3, shop, none, other), [kind |-> "internal"]}
=============================================================================
