------------------------------ MODULE AtomicDdl ------------------------------
(***************************************************************************)
(* What the table routes promise: a request takes effect as a whole, at    *)
(* one moment between its arrival and its answer, and is answered with     *)
(* success; or it changes nothing and is answered with an error.           *)
(***************************************************************************)
EXTENDS Ddl

CONSTANTS Clients, Menu

VARIABLES schema,   \* the tables of the database
          asked,    \* the request each client waits for, or Null
          ok        \* the last answer of each client was a success
vars == <<schema, asked, ok>>

Init ==
    /\ schema \in Schema
    /\ asked = [c \in Clients |-> Null]
    /\ ok = [c \in Clients |-> TRUE]

Send(c) ==
    /\ asked[c] = Null
    /\ \E r \in Menu : asked' = [asked EXCEPT ![c] = r]
    /\ UNCHANGED <<schema, ok>>

\* A change of a column is one change: the attributes asked for and the name.
Changed(r, db) ==
    LET set == [db[r.table].cols EXCEPT ![r.col] = Altered(@, r.set)] IN
    [db EXCEPT ![r.table].cols = IF r.to = Null THEN set ELSE Renamed(set, r.col, r.to)]
Changeable(r, db) ==
    /\ db[r.table] # Absent
    /\ r.col \in DOMAIN db[r.table].cols
    /\ r.to \notin DOMAIN db[r.table].cols

\* What may become of the tables if r succeeds; reading changes nothing.
Whole(r, db) ==
    CASE r.op \in {"get", "session"} -> {db}
      [] r.op = "alter" -> IF Changeable(r, db) THEN {Changed(r, db)} ELSE {}
      [] OTHER -> IF Fault(r, db) = {} THEN Effects(r, db) ELSE {}

Answer(c, success) ==
    /\ asked[c] # Null
    /\ asked' = [asked EXCEPT ![c] = Null]
    /\ ok' = [ok EXCEPT ![c] = success]

Succeed(c) == Answer(c, TRUE) /\ schema' \in Whole(asked[c], schema)
Fail(c) == Answer(c, FALSE) /\ UNCHANGED schema

\* The database is dropped, and may be created again.
Replaced ==
    /\ schema' = [t \in Tables |-> Absent]
    /\ UNCHANGED <<asked, ok>>

Next == Replaced \/ \E c \in Clients : Send(c) \/ Succeed(c) \/ Fail(c)

Spec == Init /\ [][Next]_vars
=============================================================================
