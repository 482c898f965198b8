----------------------------- MODULE MCSidebar ------------------------------
(* Instances of Sidebar for TLC. *)
EXTENDS Sidebar, TLC
CONSTANTS t1, t2, sa, sb, da

TwoTasks == {t1, t2}
MCServers == {sa, sb}
OneDb == {da}
Symmetry == Permutations(Servers) \cup Permutations(Dbs) \cup Permutations(Tasks)
=============================================================================
