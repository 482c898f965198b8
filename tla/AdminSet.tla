------------------------------ MODULE AdminSet ------------------------------
(***************************************************************************)
(* What the admin flags promise: once somebody is an admin, somebody       *)
(* always is.  Admins.tla is the code that has to deliver it.              *)
(***************************************************************************)
CONSTANT Users
VARIABLE admins

Init == admins = {}

Promote(u) == admins' = admins \cup {u}

Demote(u) ==
    /\ admins \ {u} # {}
    /\ admins' = admins \ {u}

Next == \E u \in Users : Promote(u) \/ Demote(u)

Spec == Init /\ [][Next]_admins
=============================================================================
