------------------------------ MODULE Structure ------------------------------
(***************************************************************************)
(* The routes of one target database (routes/tables.py, and the console of *)
(* routes/query.py where it changes the session): each request resolves    *)
(* its server, borrows a connection of the target pool, runs its           *)
(* statements in one transaction under Postgres's locks, and is answered.  *)
(***************************************************************************)
EXTENDS Ddl, Integers, FiniteSets

CONSTANTS Clients,      \* request threads
          Menu,         \* the requests the users may send
          Start,        \* the schemas there may be at the start
          Conns,        \* the connections of the pool: max_size
          Lent,         \* those other routes of the target (rows, overview) have first
          MaxRequests   \* bound on the requests sent

ASSUME StructureAssumption ==
    /\ Start \subseteq Schema /\ Menu \subseteq Requests /\ Lent \subseteq Conns /\ MaxRequests \in Nat
    /\ Tables \cap Objects = {}
    /\ Null \notin Tables \cup Columns \cup Objects \cup Values \cup Conns
    /\ Null \notin Menu

VARIABLES schema,   \* what is committed
          there,    \* the database exists
          conn,     \* each connection of the pool; "public" and "elsewhere" say
                    \* where the search_path of a live one leads
          req,      \* what each thread is doing
          status,   \* its last answer
          sent
vars == <<schema, there, conn, req, status, sent>>

\* held: names locked by the transaction; work: its own version of the tables
\* among them.
Empty == [t \in Tables |-> Absent]
Idle == [pc |-> "idle", ask |-> Null, conn |-> Null, todo |-> <<>>,
         held |-> {}, work |-> Empty]

Init ==
    /\ schema \in Start
    /\ there = TRUE
    /\ conn = [i \in Conns |-> IF i \in Lent THEN "lent" ELSE "closed"]
    /\ req = [c \in Clients |-> Idle]
    /\ status = [c \in Clients |-> 200]
    /\ sent = 0

Become(c, r) == req' = [req EXCEPT ![c] = r]

Answer_keeps(c, code) ==
    /\ Become(c, [Idle EXCEPT !.held = req[c].held])
    /\ status' = [status EXCEPT ![c] = code]

\* The connection goes back to the pool, which rolls back what is not committed.
Answer(c, code) ==
    /\ Become(c, Idle)
    /\ status' = [status EXCEPT ![c] = code]

-----------------------------------------------------------------------------
Send(c) ==
    /\ req[c].pc = "idle"
    /\ sent < MaxRequests
    /\ sent' = sent + 1
    /\ \E r \in Menu : Become(c, [Idle EXCEPT !.pc = "common", !.ask = r])
    /\ UNCHANGED <<schema, there, conn, status>>

\* active_server, then the handler up to its first statement; 503 if no server
\* is registered, 400 if there is nothing to change.
ActiveServer(c) ==
    LET stmts == Stmts(req[c].ask) IN
    /\ req[c].pc = "common"
    /\ \/ Answer(c, 503)
       \/ stmts = <<>> /\ Answer(c, 400)
       \/ /\ stmts # <<>>
          /\ Become(c, [req[c] EXCEPT !.pc = "queue", !.todo = stmts])
          /\ UNCHANGED status
    /\ UNCHANGED <<schema, there, conn, sent>>

\* No connection of the common pool within 10 s: nothing maps the PoolTimeout.
CommonTimeout(c) ==
    /\ req[c].pc = "common"
    /\ Answer(c, 500)
    /\ UNCHANGED <<schema, there, conn, sent>>

\* The pool lends what it has, also a connection the server has closed, and
\* opens another one, up to its size, if it has none and the database accepts it.
Free == {i \in Conns : conn[i] \notin {"lent", "closed"} /\ \A d \in Clients : req[d].conn # i}
New == {i \in Conns : conn[i] = "closed" /\ there}
Lendable == IF Free # {} \/ New = {} THEN Free ELSE {CHOOSE i \in New : TRUE}

Borrow(c) ==
    /\ req[c].pc = "queue"
    /\ \E i \in Lendable :
          /\ conn' = [conn EXCEPT ![i] = IF @ = "closed" THEN "public" ELSE @]
          /\ Become(c, [req[c] EXCEPT !.pc = "run", !.conn = i])
    /\ UNCHANGED <<schema, there, status, sent>>

\* The other route is done, or its connection was ended and is thrown away.
Returned(i) ==
    /\ conn[i] = "lent"
    /\ conn' = [conn EXCEPT ![i] = IF there THEN "public" ELSE "closed"]
    /\ UNCHANGED <<schema, there, req, status, sent>>

AcquireTimeout_retry(c) ==
    /\ req[c].pc = "queue"
    /\ UNCHANGED vars

AcquireTimeout(c) ==
    /\ req[c].pc = "queue"
    /\ Answer(c, 503)
    /\ UNCHANGED <<schema, there, conn, sent>>

-----------------------------------------------------------------------------
(* Inside the transaction *)
Stmt(c) == Head(req[c].todo)
Alive(c) == conn[req[c].conn] # "dead"
Running(c) == req[c].pc = "run" /\ req[c].todo # <<>> /\ Alive(c)
Reading(c) == req[c].ask.op = "get"

View(c) == [t \in Tables |-> IF t \in req[c].held THEN req[c].work[t] ELSE schema[t]]

\* Its own table is locked first.
Awaits(c) == Locks(Stmt(c), View(c)) \ req[c].held
Wanted(c) ==
    IF Stmt(c).table \in Awaits(c) THEN Stmt(c).table ELSE CHOOSE n \in Awaits(c) : TRUE

\* The answer if the statement is refused where it stands.  A table is looked
\* up before its lock is taken, its parts after; DROP INDEX looks along the
\* search_path; table_structure answers 404 itself, and fails if the table
\* goes away between its queries.
Refusal(c) ==
    LET s == Stmt(c)
        lost == s.op = "dropidx" /\ conn[req[c].conn] = "elsewhere" IN
    IF lost \/ NoTable(s, View(c)) THEN {IF s.op = "parts" THEN 503 ELSE 404}
    ELSE IF s.op # "create" /\ Awaits(c) # {} /\ Awaits(c) = Locks(s, View(c)) THEN {}
    ELSE Fault(s, View(c))

Refused(c) ==
    /\ Running(c)
    /\ \E code \in Refusal(c) : Answer(c, code)
    /\ UNCHANGED <<schema, there, conn, sent>>

HeldBy(n) == {d \in Clients : n \in req[d].held}
Waiting(c) == Running(c) /\ Refusal(c) = {} /\ Awaits(c) # {}

Lock(c) ==
    LET n == Wanted(c) IN
    /\ Waiting(c)
    /\ HeldBy(n) = {}
    /\ Become(c, [req[c] EXCEPT !.held = @ \cup {n},
                                !.work = IF n \in Tables THEN [@ EXCEPT ![n] = schema[n]] ELSE @])
    /\ UNCHANGED <<schema, there, conn, status, sent>>

Ready(c) == Running(c) /\ Refusal(c) = {} /\ Awaits(c) = {}

Execute_autocommit(c) ==
    /\ Ready(c)
    /\ \E db \in Effects(Stmt(c), View(c)) :
          /\ Become(c, [req[c] EXCEPT !.todo = Tail(@), !.held = {}])
          /\ schema' = db
    /\ UNCHANGED <<there, conn, status, sent>>

Execute(c) ==
    /\ Ready(c)
    /\ \E db \in Effects(Stmt(c), View(c)) :
          Become(c, [req[c] EXCEPT !.todo = Tail(@),
                       !.work = [t \in Tables |-> IF t \in req[c].held THEN db[t] ELSE Absent]])
    /\ UNCHANGED <<schema, there, conn, status, sent>>

\* Data that do not fit, an unknown type, a name that was taken meanwhile.
Rejected(c) ==
    /\ Ready(c)
    /\ ~Reading(c)
    /\ Answer(c, 400)
    /\ UNCHANGED <<schema, there, conn, sent>>

\* Postgres ends one of the transactions that wait for each other.
Blocks(d, c) == Waiting(c) /\ d \in HeldBy(Wanted(c))
Deadlocked(c) ==
    /\ Waiting(c) /\ HeldBy(Wanted(c)) # {}
    /\ \E S \in {R \in SUBSET Clients : c \in R} :
          \A d \in S : (\E e \in S : Blocks(d, e)) /\ (\E e \in S : Blocks(e, d))
    /\ Answer(c, 400)
    /\ UNCHANGED <<schema, there, conn, sent>>

\* The connection is gone: an error of a statement of _run and of run_query is
\* answered with 400, one of a read or of the commit with 503.
Lost(c) ==
    /\ req[c].pc = "run"
    /\ ~Alive(c)
    /\ conn' = [conn EXCEPT ![req[c].conn] = "closed"]
    /\ Answer(c, IF req[c].todo = <<>> \/ Reading(c) THEN 503 ELSE 400)
    /\ UNCHANGED <<schema, there, sent>>

\* SET search_path is one of the statements the console runs; nothing resets
\* the session of a connection that goes back to the pool.
Committed(c) == View(c)
Commit(c) ==
    /\ req[c].pc = "run" /\ req[c].todo = <<>> /\ Alive(c)
    /\ schema' = Committed(c)
    /\ conn' = [conn EXCEPT ![req[c].conn] = IF req[c].ask.op = "session" THEN "elsewhere" ELSE @]
    /\ Answer(c, 200)
    /\ UNCHANGED <<there, sent>>

-----------------------------------------------------------------------------
\* drop_database with force ends the connections of everybody.
DropDatabase ==
    /\ there
    /\ there' = FALSE
    /\ schema' = Empty
    /\ conn' = [i \in Conns |-> IF conn[i] \in {"closed", "lent"} THEN conn[i] ELSE "dead"]
    /\ UNCHANGED <<req, status, sent>>

CreateDatabase ==
    /\ ~there
    /\ there' = TRUE
    /\ UNCHANGED <<schema, conn, req, status, sent>>

Step(c) ==
    \/ ActiveServer(c) \/ CommonTimeout(c) \/ Borrow(c) \/ AcquireTimeout(c)
    \/ Lock(c) \/ Execute(c) \/ Refused(c) \/ Deadlocked(c) \/ Lost(c) \/ Commit(c)

Next ==
    \/ DropDatabase \/ CreateDatabase \/ \E i \in Conns : Returned(i)
    \/ \E c \in Clients : Send(c) \/ Step(c) \/ Rejected(c)

Spec == Init /\ [][Next]_vars

\* A thread goes on, Postgres grants a lock that is free and looks for
\* deadlocks, the pool gives up after 10 s.
FairSpec == Spec /\ \A c \in Clients : WF_vars(Step(c))

-----------------------------------------------------------------------------
Thread ==
    [pc : {"idle", "common", "queue", "run"}, ask : Requests \cup {Null}, conn : Conns \cup {Null},
     todo : Seq(Statements), held : SUBSET (Tables \cup Objects), work : Schema]

TypeOK ==
    /\ schema \in Schema
    /\ there \in BOOLEAN /\ (~there => schema = Empty)
    /\ conn \in [Conns -> {"closed", "lent", "public", "elsewhere", "dead"}]
    /\ ~there => \A i \in Conns : conn[i] \in {"closed", "lent", "dead"}
    /\ req \in [Clients -> Thread]
    /\ \A c \in Clients :
          /\ req[c].pc = "idle" => req[c] = Idle
          /\ req[c].pc # "idle" => req[c].ask \in Menu
          /\ req[c].pc # "run" => req[c].conn = Null /\ req[c].held = {}
          /\ req[c].pc = "run" => req[c].conn \in {i \in Conns : conn[i] \notin {"closed", "lent"}}
          /\ \A d \in Clients \ {c} :
                /\ req[c].held \cap req[d].held = {}
                /\ req[c].pc = "run" => req[c].conn # req[d].conn
    /\ status \in [Clients -> {200, 400, 404, 409, 500, 503}]
    /\ sent \in 0..MaxRequests

(* "applied in one txn": the several statements of a change of a column,   *)
(* and everything else a request does, take effect together, or not at all *)
(* and then with an error, whatever other requests do meanwhile and        *)
(* wherever this one fails.                                                *)
Atomic == INSTANCE AtomicDdl WITH
            asked <- [c \in Clients |-> IF req[c].pc = "idle" THEN Null ELSE req[c].ask],
            ok <- [c \in Clients |-> status[c] = 200]
ImplementsAtomicDdl == Atomic!Spec

(* "404 for a missing object, 409 for conflicts": a request is answered    *)
(* 404 only when a table, column, constraint or index it names is not      *)
(* there, and 409 only when the name it gives is taken.  The exception:    *)
(* an index is not found over a connection on which the console has        *)
(* changed the search_path.                                                *)
AnswersTell ==
    [][\A c \in Clients :
          LET r == req[c].ask
              s == IF r.op = "alter" THEN [r EXCEPT !.op = IF r.to = Null THEN "set" ELSE "renamecol"]
                   ELSE r IN
          req[c].pc = "run" /\ req'[c].pc = "idle" =>
             /\ status'[c] = 404 =>
                   \/ NoTable(s, schema) \/ NoObject(s, schema)
                   \/ r.op = "dropidx" /\ conn[req[c].conn] = "elsewhere"
             /\ status'[c] = 409 => ~NoTable(s, schema) /\ Exists(s, schema)]_vars

(* Requests that wait for the connections or the locks of others, or for   *)
(* each other, are all answered, also when the database is dropped under   *)
(* them and when a transaction fails while others wait for its locks.      *)
EveryRequestAnswered == \A c \in Clients : req[c].pc # "idle" ~> req[c].pc = "idle"
=============================================================================
