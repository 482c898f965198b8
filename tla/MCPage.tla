------------------------------- MODULE MCPage -------------------------------
(* Instances of Page for TLC. *)
EXTENDS Page, TLC
CONSTANTS k1, k2, sa, sb, d

TwoCalls == {k1, k2}
TwoServers == {sa, sb}
UsersPage == {"users"}
OneDb == {d}

Symmetry == Permutations(Calls) \cup Permutations(Servers)
=============================================================================
