---------------------------- MODULE MCNameControl ----------------------------
(***************************************************************************)
(* Small instances of NameControl for TLC.                                 *)
(***************************************************************************)
EXTENDS NameControl, TLC

CONSTANTS s1, s2, s3, e1, e2, p1, p2, p3, k1, k2, k3, k4

\* Two stable services that share k2, and one that drops one of its peers.
MCSvcPeers == (s1 :> {k1, k2}) @@ (s2 :> {k2}) @@ (s3 :> {k3, k4})

\* Two Endpoints objects that share k3.
MCEpIps == (e1 :> {k2, k3}) @@ (e2 :> {k3})

\* p1 keeps its address, p2 may take it over and has another one.
MCPodIps == (p1 :> {k3}) @@ (p2 :> {k3, k4}) @@ (p3 :> {k1})

AddressSymmetry == Permutations(Address)
=============================================================================
