------------------------------ MODULE MCAdmins ------------------------------
(* Instances of Admins for TLC. *)
EXTENDS Admins, TLC
CONSTANTS w1, w2

MCUsers == 1..3
TwoWorkers == {w1, w2}
=============================================================================
