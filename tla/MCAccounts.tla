----------------------------- MODULE MCAccounts -----------------------------
(* Instances of Accounts for TLC. *)
EXTENDS Accounts, TLC
CONSTANTS w1, w2, w3, u1, p, q

OneThread == {w1}
ThreeThreads == {w1, w2, w3}
OneUser == {u1}
TwoPasswords == {p, q}

Symmetry == Permutations(Workers) \cup Permutations(Passwords)
=============================================================================
