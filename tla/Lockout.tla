------------------------------ MODULE Lockout -------------------------------
(***************************************************************************)
(* What the login counter promises: MaxFailed consecutive failures lock an *)
(* account, and nobody is let in to an account that is locked.             *)
(***************************************************************************)
EXTENDS Integers

CONSTANTS Users, MaxFailed
VARIABLES failed,   \* consecutive failures, counted up to MaxFailed
          locked,
          letIn     \* accounts whose login has been accepted and not completed
vars == <<failed, locked, letIn>>

Init ==
    /\ failed = [u \in Users |-> 0]
    /\ locked = [u \in Users |-> FALSE]
    /\ letIn = {}

Fail(u) ==
    /\ ~locked[u]
    /\ failed' = [failed EXCEPT ![u] = IF @ < MaxFailed THEN @ + 1 ELSE @]
    /\ locked' = [locked EXCEPT ![u] = failed[u] + 1 >= MaxFailed]
    /\ UNCHANGED letIn

Accept(u) ==
    /\ ~locked[u] /\ u \notin letIn
    /\ letIn' = letIn \cup {u}
    /\ UNCHANGED <<failed, locked>>

Succeed(u) ==
    /\ u \in letIn
    /\ letIn' = letIn \ {u}
    /\ failed' = [failed EXCEPT ![u] = 0]
    /\ UNCHANGED locked

\* An unlock by a colleague, or a new password.
Clear(u) ==
    /\ failed' = [failed EXCEPT ![u] = 0]
    /\ locked' = [locked EXCEPT ![u] = FALSE]
    /\ UNCHANGED letIn

\* The time of the lock is over; the failures before it still count.
Expire(u) ==
    /\ locked' = [locked EXCEPT ![u] = FALSE]
    /\ UNCHANGED <<failed, letIn>>

Next == \E u \in Users : Fail(u) \/ Accept(u) \/ Succeed(u) \/ Clear(u) \/ Expire(u)

Spec == Init /\ [][Next]_vars
=============================================================================
