------------------------------ MODULE LruCache ------------------------------
(***************************************************************************)
(* A least-recently-used cache of at most Cap keys: what the target pools  *)
(* of pools.py promise.                                                    *)
(***************************************************************************)
EXTENDS Integers, Sequences

CONSTANTS Keys, Cap
VARIABLE used   \* the cached keys, least recently used first

Init == used = <<>>

MovedToEnd(s, i) ==
    [j \in 1 .. Len(s) |-> IF j < i THEN s[j] ELSE IF j < Len(s) THEN s[j + 1] ELSE s[i]]
LastCap(s) == IF Len(s) > Cap THEN Tail(s) ELSE s

Hit(i) == used' = MovedToEnd(used, i)

Miss(k) ==
    /\ \A i \in DOMAIN used : used[i] # k
    /\ used' = LastCap(Append(used, k))

\* The process stops.
Clear == used' = <<>>

Next == Clear \/ (\E i \in DOMAIN used : Hit(i)) \/ \E k \in Keys : Miss(k)

Spec == Init /\ [][Next]_used
=============================================================================
