------------------------------ MODULE MCPools -------------------------------
(* An instance of Pools for TLC. *)
EXTENDS Pools, TLC
CONSTANTS w1, w2, url, srv, a, b, c, p1, p2, p3, p4, p5

TwoThreads == {w1, w2}
UrlAndServer == {url, srv}
ThreeTargets == {a, b, c}
FivePools == {p1, p2, p3, p4, p5}
=============================================================================
