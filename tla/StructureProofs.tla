--------------------------- MODULE StructureProofs ---------------------------
(***************************************************************************)
(* Proofs about Structure for any tables, requests, connections and number *)
(* of clients.                                                             *)
(***************************************************************************)
EXTENDS Structure, TLAPS

USE StructureAssumption

-----------------------------------------------------------------------------
(* Statements and what they do to the tables *)

LEMMA StatementParts ==
    ASSUME NEW s \in Statements
    PROVE  /\ s.set \in Change /\ Formed(s)
           /\ s.op \in {"create", "rename", "drop", "addcol", "dropcol", "addfk", "addkey",
                        "dropcon", "addidx", "dropidx", "session",
                        "set", "renamecol", "columns", "parts"}
  BY DEF Statements, Forms

LEMMA TableParts ==
    ASSUME NEW tab \in Table
    PROVE  /\ tab.cols \in Cols /\ DOMAIN tab.cols \subseteq Columns
           /\ \A c \in DOMAIN tab.cols : tab.cols[c] \in Column
           /\ tab.fks \subseteq Objects /\ tab.keys \subseteq Objects /\ tab.idx \subseteq Objects
           /\ tab # Absent
<1>1. tab.cols \in Cols /\ tab.fks \subseteq Objects /\ tab.keys \subseteq Objects
      /\ tab.idx \subseteq Objects
  BY DEF Table
<1>2. PICK C \in SUBSET Columns : tab.cols \in [C -> Column]
  BY <1>1 DEF Cols
<1>3. tab # Absent
  BY DEF Table, Absent
<1>. QED
  BY <1>1, <1>2, <1>3

LEMMA ColsMade ==
    ASSUME NEW C \in SUBSET Columns, NEW f, f = [c \in C |-> f[c]], \A c \in C : f[c] \in Column
    PROVE  f \in Cols
  BY DEF Cols

\* A column altered, renamed, added or dropped is a column again.
LEMMA AlteredFits ==
    ASSUME NEW column \in Column, NEW set \in Change
    PROVE  Altered(column, set) \in Column
  BY DEF Altered, Column, Change

LEMMA RenamedFits ==
    ASSUME NEW tab \in Table, NEW c \in DOMAIN tab.cols, NEW d \in Columns
    PROVE  Renamed(tab.cols, c, d) \in Cols
<1>. DEFINE C == (DOMAIN tab.cols \ {c}) \cup {d}
            f == Renamed(tab.cols, c, d)
<1>1. C \in SUBSET Columns
  BY TableParts
<1>2. f = [x \in C |-> f[x]] /\ \A x \in C : f[x] \in Column
  BY TableParts DEF Renamed
<1>. QED
  BY <1>1, <1>2, ColsMade

LEMMA AddedFits ==
    ASSUME NEW tab \in Table, NEW c \in Columns, NEW column \in Column
    PROVE  Added(tab.cols, c, column) \in Cols
<1>. DEFINE C == DOMAIN tab.cols \cup {c}
            f == Added(tab.cols, c, column)
<1>1. C \in SUBSET Columns
  BY TableParts
<1>2. f = [x \in C |-> f[x]] /\ \A x \in C : f[x] \in Column
  BY TableParts DEF Added
<1>. QED
  BY <1>1, <1>2, ColsMade

LEMMA RestrictFits ==
    ASSUME NEW tab \in Table, NEW c
    PROVE  Restrict(tab.cols, DOMAIN tab.cols \ {c}) \in Cols
<1>. DEFINE C == DOMAIN tab.cols \ {c}
            f == Restrict(tab.cols, C)
<1>1. C \in SUBSET Columns
  BY TableParts
<1>2. f = [x \in C |-> f[x]] /\ \A x \in C : f[x] \in Column
  BY TableParts DEF Restrict
<1>. QED
  BY <1>1, <1>2, ColsMade

LEMMA SchemaExcept ==
    ASSUME NEW db \in Schema, NEW t \in Tables, NEW tab \in Table \cup {Absent}
    PROVE  [db EXCEPT ![t] = tab] \in Schema
  BY DEF Schema

LEMMA TableThere ==
    ASSUME NEW db \in Schema, NEW t \in Tables, db[t] # Absent
    PROVE  db[t] \in Table
  BY DEF Schema

LEMMA TableExcept ==
    ASSUME NEW tab \in Table
    PROVE  /\ \A f \in Cols : [tab EXCEPT !.cols = f] \in Table
           /\ \A S \in SUBSET Objects :
                 /\ [tab EXCEPT !.fks = S] \in Table
                 /\ [tab EXCEPT !.keys = S] \in Table
                 /\ [tab EXCEPT !.idx = S] \in Table
  BY DEF Table

\* Where the statement is not refused, the tables it needs are there.
LEMMA FaultlessThere ==
    ASSUME NEW s \in Statements, NEW db \in Schema, Fault(s, db) = {}
    PROVE  /\ s.op \notin {"create", "dropidx", "session"} =>
                 s.table \in Tables /\ db[s.table] \in Table
           /\ s.op \in {"set", "renamecol", "dropcol"} =>
                 s.col \in DOMAIN db[s.table].cols
<1>1. ~NoTable(s, db) /\ ~NoObject(s, db)
  BY DEF Fault
<1>2. s.op \notin {"create", "dropidx", "session"} => s.table \in Tables
  BY StatementParts DEF Formed
<1>. QED
  BY <1>1, <1>2, TableThere DEF NoTable, NoObject

(* A statement that is not refused leaves tables. *)
LEMMA EffectsFit ==
    ASSUME NEW s \in Statements, NEW db \in Schema, Fault(s, db) = {},
           NEW e \in Effects(s, db)
    PROVE  e \in Schema
<1>. DEFINE t == s.table
<1>1. CASE s.op = "create"
  <2>1. t \in Tables /\ s.col \in Columns /\ s.set \in Column
    BY <1>1, StatementParts DEF Formed
  <2>2. [x \in {s.col} |-> s.set] \in Cols
    <3>. DEFINE f == [x \in {s.col} |-> s.set]
    <3>1. {s.col} \in SUBSET Columns /\ f = [x \in {s.col} |-> f[x]] /\ \A x \in {s.col} : f[x] \in Column
      BY <2>1
    <3>. QED
      BY <3>1, ColsMade
  <2>3. [cols |-> [x \in {s.col} |-> s.set], fks |-> {}, keys |-> {}, idx |-> {}] \in Table
    BY <2>2 DEF Table
  <2>. QED
    BY <1>1, <2>1, <2>3, SchemaExcept DEF Effects
<1>2. CASE s.op = "rename"
  <2>1. t \in Tables /\ s.to \in Tables /\ db[t] \in Table
    BY <1>2, StatementParts, FaultlessThere DEF Formed
  <2>2. [db EXCEPT ![s.to] = db[t]] \in Schema
    BY <2>1, SchemaExcept
  <2>3. e = [[db EXCEPT ![s.to] = db[t]] EXCEPT ![t] = Absent]
    BY <1>2 DEF Effects
  <2>. QED
    BY <2>1, <2>2, <2>3, SchemaExcept
<1>3. CASE s.op = "drop"
  <2>1. t \in Tables
    BY <1>3, StatementParts DEF Formed
  <2>. QED
    BY <1>3, <2>1, SchemaExcept DEF Effects
<1>4. CASE s.op = "addcol"
  <2>1. t \in Tables /\ db[t] \in Table /\ s.col \in Columns /\ s.set \in Column
    BY <1>4, StatementParts, FaultlessThere DEF Formed
  <2>2. Added(db[t].cols, s.col, s.set) \in Cols
    BY <2>1, AddedFits
  <2>3. [db[t] EXCEPT !.cols = Added(@, s.col, s.set)] \in Table
    BY <2>1, <2>2, TableExcept
  <2>4. e = [db EXCEPT ![t] = [db[t] EXCEPT !.cols = Added(@, s.col, s.set)]]
    BY <1>4 DEF Effects
  <2>. QED
    BY <2>1, <2>3, <2>4, SchemaExcept
<1>5. CASE s.op = "set"
  <2>1. t \in Tables /\ db[t] \in Table /\ s.col \in DOMAIN db[t].cols /\ s.set \in Change
    BY <1>5, StatementParts, FaultlessThere
  <2>. DEFINE f == [db[t].cols EXCEPT ![s.col] = Altered(db[t].cols[s.col], s.set)]
  <2>2. Altered(db[t].cols[s.col], s.set) \in Column
    BY <2>1, TableParts, AlteredFits
  <2>3. f \in Cols
    <3>1. PICK C \in SUBSET Columns : db[t].cols \in [C -> Column]
      BY <2>1, TableParts DEF Cols
    <3>2. f \in [C -> Column]
      BY <2>1, <2>2, <3>1
    <3>. QED
      BY <3>2 DEF Cols
  <2>4. e = [db EXCEPT ![t] = [db[t] EXCEPT !.cols = f]]
    BY <1>5 DEF Effects
  <2>5. [db[t] EXCEPT !.cols = f] \in Table
    BY <2>1, <2>3, TableExcept
  <2>. QED
    BY <2>1, <2>4, <2>5, SchemaExcept
<1>6. CASE s.op = "renamecol"
  <2>1. t \in Tables /\ db[t] \in Table /\ s.col \in DOMAIN db[t].cols /\ s.to \in Columns
    BY <1>6, StatementParts, FaultlessThere DEF Formed
  <2>2. Renamed(db[t].cols, s.col, s.to) \in Cols
    BY <2>1, RenamedFits
  <2>3. [db[t] EXCEPT !.cols = Renamed(@, s.col, s.to)] \in Table
    BY <2>1, <2>2, TableExcept
  <2>4. e = [db EXCEPT ![t] = [db[t] EXCEPT !.cols = Renamed(@, s.col, s.to)]]
    BY <1>6 DEF Effects
  <2>. QED
    BY <2>1, <2>3, <2>4, SchemaExcept
<1>7. CASE s.op = "dropcol"
  <2>1. t \in Tables /\ db[t] \in Table
    BY <1>7, StatementParts, FaultlessThere
  <2>2. PICK gone \in SUBSET Objects : e = [db EXCEPT ![t] = Without(db[t], s.col, gone)]
    BY <1>7 DEF Effects
  <2>3. Without(db[t], s.col, gone) \in Table
    BY <2>1, TableParts, RestrictFits DEF Without, Table
  <2>. QED
    BY <2>1, <2>2, <2>3, SchemaExcept
<1>8. CASE s.op \in {"addfk", "addkey", "addidx"}
  <2>1. t \in Tables /\ db[t] \in Table /\ s.obj \in Objects
    BY <1>8, StatementParts, FaultlessThere DEF Formed
  <2>2. \/ e = [db EXCEPT ![t] = [db[t] EXCEPT !.fks = db[t].fks \cup {s.obj}]]
        \/ e = [db EXCEPT ![t] = [db[t] EXCEPT !.keys = db[t].keys \cup {s.obj}]]
        \/ e = [db EXCEPT ![t] = [db[t] EXCEPT !.idx = db[t].idx \cup {s.obj}]]
    BY <1>8 DEF Effects
  <2>3. /\ [db[t] EXCEPT !.fks = db[t].fks \cup {s.obj}] \in Table
        /\ [db[t] EXCEPT !.keys = db[t].keys \cup {s.obj}] \in Table
        /\ [db[t] EXCEPT !.idx = db[t].idx \cup {s.obj}] \in Table
    BY <2>1 DEF Table
  <2>. QED
    BY <2>1, <2>2, <2>3, SchemaExcept
<1>9. CASE s.op = "dropcon"
  <2>1. t \in Tables /\ db[t] \in Table
    BY <1>9, StatementParts, FaultlessThere
  <2>. DEFINE tab == [db[t] EXCEPT !.fks = @ \ {s.obj}, !.keys = @ \ {s.obj}]
  <2>2. tab \in Table
    BY <2>1 DEF Table
  <2>3. e = [db EXCEPT ![t] = tab]
    BY <1>9, <2>1 DEF Effects, Schema
  <2>. QED
    BY <2>1, <2>2, <2>3, SchemaExcept
<1>10. CASE s.op = "dropidx"
  <2>1. e = [x \in Tables |-> IF x \in Owners(s.obj, db) THEN [db[x] EXCEPT !.idx = @ \ {s.obj}]
                             ELSE db[x]]
    BY <1>10 DEF Effects
  <2>2. ASSUME NEW x \in Tables PROVE e[x] \in Table \cup {Absent}
    <3>1. x \in Owners(s.obj, db) => db[x] \in Table
      BY TableThere DEF Owners
    <3>2. x \in Owners(s.obj, db) => [db[x] EXCEPT !.idx = @ \ {s.obj}] \in Table
      BY <3>1, TableParts, TableExcept
    <3>. QED
      BY <2>1, <3>2 DEF Schema
  <2>. QED
    BY <2>1, <2>2 DEF Schema
<1>11. CASE s.op \in {"session", "columns", "parts"}
  BY <1>11 DEF Effects
<1>. QED
  BY <1>1, <1>2, <1>3, <1>4, <1>5, <1>6, <1>7, <1>8, <1>9, <1>10, <1>11, StatementParts

-----------------------------------------------------------------------------
(* The statements of a request *)

LEMMA RequestParts ==
    ASSUME NEW r \in Requests
    PROVE  /\ r.set \in Change /\ Formed(r)
           /\ r.op \in {"create", "rename", "drop", "addcol", "dropcol", "addfk", "addkey",
                        "dropcon", "addidx", "dropidx", "session", "alter", "get"}
           /\ r.op \notin {"alter", "get"} => r \in Statements
  BY DEF Requests, Statements, Forms

\* One change of a column is one statement.
LEMMA SetStmtFits ==
    ASSUME NEW r \in Requests, r.op = "alter", NEW a \in Attrs, r.set[a] # Null
    PROVE  [r EXCEPT !.op = "set", !.set = [NoChange EXCEPT ![a] = r.set[a]]] \in Statements
<1>. DEFINE s == [r EXCEPT !.op = "set", !.set = [NoChange EXCEPT ![a] = r.set[a]]]
<1>1. [NoChange EXCEPT ![a] = r.set[a]] \in Change
  BY RequestParts DEF Change, NoChange
<1>2. /\ s \in [op : {"set"}, table : Tables \cup {Null}, col : Columns \cup {Null}, set : Change,
                obj : Objects \cup {Null}, to : Tables \cup Columns \cup {Null}]
      /\ s.table = r.table /\ s.col = r.col
  BY <1>1 DEF Requests, Forms
<1>3. Formed(s)
  BY <1>2, RequestParts DEF Formed
<1>. QED
  BY <1>2, <1>3 DEF Statements, Forms

LEMMA RenameStmtFits ==
    ASSUME NEW r \in Requests, r.op = "alter", r.to # Null
    PROVE  [r EXCEPT !.op = "renamecol", !.set = NoChange] \in Statements
<1>. DEFINE s == [r EXCEPT !.op = "renamecol", !.set = NoChange]
<1>1. NoChange \in Change
  BY DEF Change, NoChange
<1>2. /\ s \in [op : {"renamecol"}, table : Tables \cup {Null}, col : Columns \cup {Null}, set : Change,
                obj : Objects \cup {Null}, to : Tables \cup Columns \cup {Null}]
      /\ s.table = r.table /\ s.col = r.col /\ s.to = r.to
  BY <1>1 DEF Requests, Forms
<1>3. Formed(s)
  BY <1>2, RequestParts DEF Formed
<1>. QED
  BY <1>2, <1>3 DEF Statements, Forms

LEMMA StmtsFit ==
    ASSUME NEW r \in Requests
    PROVE  Stmts(r) \in Seq(Statements)
<1>1. CASE r.op = "alter"
  <2>0. <<>> \in Seq(Statements) /\ \A s \in Statements : <<s>> \in Seq(Statements)
    OBVIOUS
  <2>1. ASSUME NEW a \in Attrs PROVE SetStmt(r, a) \in Seq(Statements)
    <3>. DEFINE s == [r EXCEPT !.op = "set", !.set = [NoChange EXCEPT ![a] = r.set[a]]]
    <3>1. r.set[a] # Null => s \in Statements
      BY <1>1, SetStmtFits
    <3>2. SetStmt(r, a) = IF r.set[a] = Null THEN <<>> ELSE <<s>>
      BY DEF SetStmt
    <3>. HIDE DEF s
    <3>. QED
      BY <2>0, <3>1, <3>2
  <2>2. RenameStmt(r) \in Seq(Statements)
    <3>. DEFINE s == [r EXCEPT !.op = "renamecol", !.set = NoChange]
    <3>1. r.to # Null => s \in Statements
      BY <1>1, RenameStmtFits
    <3>2. RenameStmt(r) = IF r.to = Null THEN <<>> ELSE <<s>>
      BY DEF RenameStmt
    <3>. HIDE DEF s
    <3>. QED
      BY <2>0, <3>1, <3>2
  <2>. QED
    BY <1>1, <2>1, <2>2 DEF Stmts, AlterStmts, Attrs
<1>2. CASE r.op = "get"
  <2>1. [r EXCEPT !.op = "columns"] \in Statements /\ [r EXCEPT !.op = "parts"] \in Statements
    BY <1>2 DEF Requests, Statements, Forms, Formed
  <2>. QED
    BY <1>2, <2>1 DEF Stmts
<1>3. CASE r.op \notin {"alter", "get"}
  BY <1>3, RequestParts DEF Stmts
<1>. QED
  BY <1>1, <1>2, <1>3

-----------------------------------------------------------------------------
(* Types, locks and connections *)

\* What TypeOK says of one thread.
Fits(r) ==
    /\ r \in Thread
    /\ r.pc = "idle" => r = Idle
    /\ r.pc # "idle" => r.ask \in Menu
    /\ r.pc # "run" => r.conn = Null /\ r.held = {}

\* And of the threads together.
ReqsFit ==
    /\ req \in [Clients -> Thread]
    /\ \A c \in Clients :
          /\ Fits(req[c])
          /\ req[c].pc = "run" => req[c].conn \in {i \in Conns : conn[i] \notin {"closed", "lent"}}
          /\ \A d \in Clients \ {c} :
                /\ req[c].held \cap req[d].held = {}
                /\ req[c].pc = "run" => req[c].conn # req[d].conn

ConnsFit ==
    /\ schema \in Schema
    /\ there \in BOOLEAN /\ (~there => schema = Empty)
    /\ conn \in [Conns -> {"closed", "lent", "public", "elsewhere", "dead"}]
    /\ ~there => \A i \in Conns : conn[i] \in {"closed", "lent", "dead"}

LEMMA TypeOKParts ==
    /\ TypeOK <=> /\ ConnsFit /\ ReqsFit
                  /\ status \in [Clients -> {200, 400, 404, 409, 500, 503}]
                  /\ sent \in 0..MaxRequests
    /\ TypeOK' <=> /\ ConnsFit' /\ ReqsFit'
                   /\ status' \in [Clients -> {200, 400, 404, 409, 500, 503}]
                   /\ sent' \in 0..MaxRequests
  BY DEF TypeOK, ConnsFit, ReqsFit, Fits

LEMMA EmptyFits == Empty \in Schema
  BY DEF Empty, Schema

LEMMA IdleFits ==
    /\ Fits(Idle) /\ Idle.pc = "idle" /\ Idle.held = {} /\ Idle.conn = Null
    /\ \A r \in Menu : /\ Fits([Idle EXCEPT !.pc = "common", !.ask = r])
                        /\ [Idle EXCEPT !.pc = "common", !.ask = r].held = {}
                        /\ [Idle EXCEPT !.pc = "common", !.ask = r].pc = "common"
<1>1. Idle \in Thread /\ Idle.pc = "idle" /\ Idle.held = {} /\ Idle.conn = Null
  BY EmptyFits DEF Idle, Thread
<1>2. ASSUME NEW r \in Menu, NEW s, s = [Idle EXCEPT !.pc = "common", !.ask = r]
      PROVE  Fits(s) /\ s.held = {} /\ s.pc = "common"
  <2>1. s.pc = "common" /\ s.ask = r /\ s.conn = Null /\ s.held = {}
    BY <1>2 DEF Idle
  <2>2. s \in Thread
    BY <1>1, <1>2 DEF Thread
  <2>. QED
    BY <2>1, <2>2 DEF Fits
<1>. QED
  BY <1>1, <1>2 DEF Fits

(* One thread goes on: it locks nothing another holds and shares no        *)
(* connection, and the connections of the others stay theirs.              *)
LEMMA BecomeFits ==
    ASSUME ReqsFit, NEW c \in Clients, NEW r, Fits(r), Become(c, r),
           \A d \in Clients \ {c} : r.held \cap req[d].held = {},
           r.pc = "run" => /\ r.conn \in {i \in Conns : conn'[i] \notin {"closed", "lent"}}
                           /\ \A d \in Clients \ {c} : req[d].conn # r.conn,
           \A d \in Clients \ {c} : req[d].pc = "run" => conn'[req[d].conn] \notin {"closed", "lent"}
    PROVE  ReqsFit'
<1>1. req' \in [Clients -> Thread] /\ req'[c] = r /\ \A d \in Clients \ {c} : req'[d] = req[d]
  BY DEF ReqsFit, Become, Fits
<1>2. \A d \in Clients : Fits(req'[d])
  BY <1>1 DEF ReqsFit
<1>3. \A d \in Clients : req'[d].pc = "run" =>
         req'[d].conn \in {i \in Conns : conn'[i] \notin {"closed", "lent"}}
  BY <1>1 DEF ReqsFit
<1>4. ASSUME NEW d \in Clients, NEW e \in Clients \ {d}
      PROVE  /\ req'[d].held \cap req'[e].held = {}
             /\ req'[d].pc = "run" => req'[d].conn # req'[e].conn
  <2>1. CASE d = c
    BY <1>1, <2>1
  <2>2. CASE e = c
    <3>1. req'[e] = r /\ req'[d] = req[d]
      BY <1>1, <2>2
    <3>2. r.pc # "run" => r.conn = Null
      BY DEF Fits
    <3>3. req[d].pc = "run" => req[d].conn \in Conns
      BY DEF ReqsFit
    <3>. QED
      BY <2>2, <3>1, <3>2, <3>3, r.held \cap req[d].held = {}
  <2>3. CASE c \notin {d, e}
    BY <1>1, <2>3 DEF ReqsFit
  <2>. QED
    BY <2>1, <2>2, <2>3
<1>. QED
  BY <1>1, <1>2, <1>3, <1>4 DEF ReqsFit, Fits

LEMMA AnswerFits ==
    ASSUME TypeOK, NEW c \in Clients, NEW code \in {200, 400, 404, 409, 500, 503},
           Answer(c, code),
           \A d \in Clients \ {c} : req[d].pc = "run" => conn'[req[d].conn] \notin {"closed", "lent"}
    PROVE  ReqsFit' /\ status' \in [Clients -> {200, 400, 404, 409, 500, 503}]
<1>1. ReqsFit'
  <2>1. ReqsFit /\ Become(c, Idle) /\ Fits(Idle) /\ Idle.pc # "run" /\ Idle.held = {}
    BY IdleFits, TypeOKParts DEF Answer
  <2>. QED
    BY <2>1, BecomeFits
<1>. QED
  BY <1>1, TypeOKParts DEF Answer

LEMMA UntouchedConns ==
    ASSUME ReqsFit
    PROVE  \A d \in Clients : req[d].pc = "run" => conn[req[d].conn] \notin {"closed", "lent"}
  BY DEF ReqsFit

LEMMA InitTypeOK == Init => TypeOK
<1>. SUFFICES ASSUME Init PROVE TypeOK
  OBVIOUS
<1>1. ConnsFit
  BY DEF ConnsFit, Init
<1>2. \A c \in Clients : req[c] = Idle
  BY DEF Init
<1>3. ReqsFit
  BY <1>2, IdleFits DEF ReqsFit, Init, Fits
<1>. QED
  BY <1>1, <1>3, TypeOKParts DEF Init

LEMMA SendFits ==
    ASSUME TypeOK, NEW c \in Clients, Send(c)
    PROVE  TypeOK'
<1>1. PICK r \in Menu : Become(c, [Idle EXCEPT !.pc = "common", !.ask = r])
  BY DEF Send
<1>. DEFINE s == [Idle EXCEPT !.pc = "common", !.ask = r]
<1>2. Fits(s) /\ s.held = {} /\ s.pc = "common"
  BY IdleFits
<1>3. ReqsFit /\ \A d \in Clients \ {c} : req[d].pc = "run" => conn'[req[d].conn] \notin {"closed", "lent"}
  BY TypeOKParts, UntouchedConns DEF Send
<1>. HIDE DEF s
<1>4. ReqsFit'
  BY <1>1, <1>2, <1>3, BecomeFits DEF s
<1>. QED
  BY <1>4, TypeOKParts DEF Send, ConnsFit

LEMMA AnswerTypeOK ==
    ASSUME TypeOK, NEW c \in Clients, NEW code \in {200, 400, 404, 409, 500, 503},
           Answer(c, code), UNCHANGED <<schema, there, conn, sent>>
    PROVE  TypeOK'
<1>1. \A d \in Clients \ {c} : req[d].pc = "run" => conn'[req[d].conn] \notin {"closed", "lent"}
  BY TypeOKParts, UntouchedConns
<1>2. ReqsFit' /\ status' \in [Clients -> {200, 400, 404, 409, 500, 503}]
  BY <1>1, AnswerFits
<1>. QED
  BY <1>2, TypeOKParts DEF ConnsFit

LEMMA BecomeTypeOK ==
    ASSUME TypeOK, NEW c \in Clients, NEW r, Fits(r), Become(c, r),
           \A d \in Clients \ {c} : r.held \cap req[d].held = {},
           r.conn = req[c].conn, r.pc = "run" => req[c].pc = "run",
           UNCHANGED <<schema, there, conn, status, sent>>
    PROVE  TypeOK'
<1>1. \A d \in Clients : req[d].pc = "run" => conn'[req[d].conn] \notin {"closed", "lent"}
  BY TypeOKParts, UntouchedConns
<1>2. r.pc = "run" => /\ r.conn \in {i \in Conns : conn'[i] \notin {"closed", "lent"}}
                      /\ \A d \in Clients \ {c} : req[d].conn # r.conn
  BY TypeOKParts DEF ReqsFit
<1>3. ReqsFit'
  BY <1>1, <1>2, BecomeFits, TypeOKParts
<1>. QED
  BY <1>3, TypeOKParts DEF ConnsFit

LEMMA ActiveServerFits ==
    ASSUME TypeOK, NEW c \in Clients, ActiveServer(c)
    PROVE  TypeOK'
<1>1. ASSUME NEW code \in {503, 400}, Answer(c, code) PROVE TypeOK'
  BY <1>1, AnswerTypeOK DEF ActiveServer
<1>2. ASSUME Become(c, [req[c] EXCEPT !.pc = "queue", !.todo = Stmts(req[c].ask)]), UNCHANGED status
      PROVE  TypeOK'
  <2>. DEFINE r == [req[c] EXCEPT !.pc = "queue", !.todo = Stmts(req[c].ask)]
  <2>1. req[c] \in Thread /\ req[c].pc = "common" /\ Fits(req[c])
    BY TypeOKParts DEF ReqsFit, ActiveServer
  <2>2. req[c].ask \in Menu /\ Stmts(req[c].ask) \in Seq(Statements)
    BY <2>1, StmtsFit DEF Fits
  <2>3. r \in Thread /\ r.pc = "queue" /\ r.ask = req[c].ask /\ r.conn = req[c].conn
        /\ r.held = req[c].held
    BY <2>1, <2>2 DEF Thread
  <2>4. Fits(r) /\ r.held = {}
    BY <2>1, <2>2, <2>3 DEF Fits
  <2>. HIDE DEF r
  <2>. QED
    BY <1>2, <2>3, <2>4, BecomeTypeOK DEF ActiveServer, r
<1>. QED
  BY <1>1, <1>2 DEF ActiveServer

LEMMA BorrowFits ==
    ASSUME TypeOK, NEW c \in Clients, Borrow(c)
    PROVE  TypeOK'
<1>1. PICK i \in Lendable : /\ conn' = [conn EXCEPT ![i] = IF @ = "closed" THEN "public" ELSE @]
                            /\ Become(c, [req[c] EXCEPT !.pc = "run", !.conn = i])
  BY DEF Borrow
<1>2. i \in Free \/ i \in New
  BY DEF Lendable
<1>3. i \in Conns /\ conn[i] # "lent" /\ (conn[i] = "closed" => there)
  BY <1>2 DEF Free, New
<1>4. \A d \in Clients : req[d].conn # i
  <2>1. \A d \in Clients : req[d].pc = "run" => conn[req[d].conn] # "closed"
    BY TypeOKParts, UntouchedConns
  <2>2. \A d \in Clients : req[d].pc # "run" => req[d].conn = Null
    BY TypeOKParts DEF ReqsFit, Fits
  <2>. QED
    BY <1>2, <1>3, <2>1, <2>2 DEF Free, New
<1>5. ConnsFit'
  <2>1. ConnsFit /\ UNCHANGED <<schema, there>>
    BY TypeOKParts DEF Borrow
  <2>2. conn' \in [Conns -> {"closed", "lent", "public", "elsewhere", "dead"}]
    BY <1>1, <2>1 DEF ConnsFit
  <2>3. ~there => conn' = conn
    BY <1>1, <1>3, <2>1 DEF ConnsFit
  <2>. QED
    BY <2>1, <2>2, <2>3 DEF ConnsFit
<1>. DEFINE r == [req[c] EXCEPT !.pc = "run", !.conn = i]
<1>6. Fits(r) /\ r.held = {} /\ r.pc = "run" /\ r.conn = i
  <2>1. req[c] \in Thread /\ req[c].pc = "queue" /\ Fits(req[c])
    BY TypeOKParts DEF ReqsFit, Borrow
  <2>2. r \in Thread /\ r.pc = "run" /\ r.ask = req[c].ask /\ r.conn = i /\ r.held = req[c].held
    BY <1>3, <2>1 DEF Thread
  <2>. QED
    BY <2>1, <2>2 DEF Fits
<1>7. conn'[i] \notin {"closed", "lent"} /\ \A j \in Conns \ {i} : conn'[j] = conn[j]
  BY <1>1, <1>3, TypeOKParts DEF ConnsFit
<1>8. \A d \in Clients \ {c} : req[d].pc = "run" => conn'[req[d].conn] \notin {"closed", "lent"}
  BY <1>4, <1>7, TypeOKParts DEF ReqsFit
<1>9. Become(c, r) /\ ReqsFit
  BY <1>1, TypeOKParts
<1>. HIDE DEF r
<1>10. ReqsFit'
  BY <1>3, <1>4, <1>6, <1>7, <1>8, <1>9, BecomeFits
<1>. QED
  BY <1>5, <1>10, TypeOKParts DEF Borrow

\* The view of a transaction: its own version of what it holds.
LEMMA ViewFits ==
    ASSUME TypeOK, NEW c \in Clients
    PROVE  View(c) \in Schema
  BY TypeOKParts DEF View, Schema, ConnsFit, ReqsFit, Thread

LEMMA StmtFits ==
    ASSUME TypeOK, NEW c \in Clients, req[c].todo # <<>>
    PROVE  /\ Stmt(c) \in Statements
           /\ Tail(req[c].todo) \in Seq(Statements)
<1>1. req[c].todo \in Seq(Statements)
  BY TypeOKParts DEF ReqsFit, Thread
<1>. QED
  BY <1>1 DEF Stmt

LEMMA LocksFit ==
    ASSUME NEW s \in Statements, NEW db \in Schema
    PROVE  Locks(s, db) \subseteq Tables \cup Objects
<1>1. Formed(s) /\ s.op \in {"create", "rename", "drop", "addcol", "dropcol", "addfk", "addkey",
                        "dropcon", "addidx", "dropidx", "session",
                        "set", "renamecol", "columns", "parts"}
  BY StatementParts
<1>. QED
  BY <1>1 DEF Formed, Locks, Owners

LEMMA WantedFits ==
    ASSUME TypeOK, NEW c \in Clients, Waiting(c)
    PROVE  Wanted(c) \in Awaits(c) /\ Wanted(c) \in Tables \cup Objects
<1>1. Wanted(c) \in Awaits(c)
  BY DEF Waiting, Wanted
<1>. QED
  BY <1>1, ViewFits, StmtFits, LocksFit DEF Awaits, Waiting, Running

LEMMA LockFits ==
    ASSUME TypeOK, NEW c \in Clients, Lock(c)
    PROVE  TypeOK'
<1>. DEFINE n == Wanted(c)
            work == IF n \in Tables THEN [req[c].work EXCEPT ![n] = schema[n]] ELSE req[c].work
            r == [req[c] EXCEPT !.held = req[c].held \cup {n}, !.work = work]
<1>1. Become(c, r) /\ UNCHANGED <<schema, there, conn, status, sent>> /\ HeldBy(n) = {}
  BY DEF Lock
<1>2. n \in Tables \cup Objects /\ req[c].pc = "run"
  BY WantedFits DEF Lock, Waiting, Running
<1>3. req[c] \in Thread /\ Fits(req[c]) /\ ReqsFit /\ ConnsFit
  BY TypeOKParts DEF ReqsFit
<1>4. work \in Schema
  BY <1>3 DEF Schema, Thread, ConnsFit
<1>5. /\ r \in Thread /\ r.pc = "run" /\ r.ask = req[c].ask /\ r.conn = req[c].conn
      /\ r.held = req[c].held \cup {n}
  <2>. HIDE DEF work, n
  <2>. QED
    BY <1>2, <1>3, <1>4 DEF Thread
<1>6. Fits(r)
  BY <1>2, <1>3, <1>5 DEF Fits
<1>7. \A d \in Clients \ {c} : r.held \cap req[d].held = {}
  BY <1>1, <1>3, <1>5 DEF HeldBy, ReqsFit
<1>. HIDE DEF r
<1>. QED
  BY <1>1, <1>2, <1>5, <1>6, <1>7, BecomeTypeOK

LEMMA ExecuteFits ==
    ASSUME TypeOK, NEW c \in Clients, Execute(c)
    PROVE  TypeOK'
<1>1. PICK db \in Effects(Stmt(c), View(c)) :
        Become(c, [req[c] EXCEPT !.todo = Tail(@),
                     !.work = [t \in Tables |-> IF t \in req[c].held THEN db[t] ELSE Absent]])
  BY DEF Execute
<1>2. Fault(Stmt(c), View(c)) = {} /\ req[c].pc = "run" /\ req[c].todo # <<>>
  BY DEF Execute, Ready, Running, Refusal
<1>3. db \in Schema
  BY <1>2, StmtFits, ViewFits, EffectsFit
<1>. DEFINE work == [t \in Tables |-> IF t \in req[c].held THEN db[t] ELSE Absent]
            r == [req[c] EXCEPT !.todo = Tail(req[c].todo), !.work = work]
<1>4. work \in Schema
  BY <1>3 DEF Schema
<1>5. req[c] \in Thread /\ Fits(req[c]) /\ ReqsFit
  BY TypeOKParts DEF ReqsFit
<1>6. /\ r \in Thread /\ r.pc = "run" /\ r.ask = req[c].ask /\ r.conn = req[c].conn
      /\ r.held = req[c].held
  <2>. HIDE DEF work
  <2>. QED
    BY <1>2, <1>4, <1>5, StmtFits DEF Thread
<1>7. Fits(r) /\ Become(c, r)
  BY <1>1, <1>2, <1>5, <1>6 DEF Fits
<1>8. \A d \in Clients \ {c} : r.held \cap req[d].held = {}
  BY <1>5, <1>6 DEF ReqsFit
<1>. HIDE DEF r
<1>. QED
  BY <1>2, <1>6, <1>7, <1>8, BecomeTypeOK DEF Execute

LEMMA RefusalCodes ==
    ASSUME NEW c \in Clients, NEW code \in Refusal(c)
    PROVE  code \in {400, 404, 409, 503}
  BY DEF Refusal, Fault

LEMMA CommitFits ==
    ASSUME TypeOK, NEW c \in Clients, Commit(c)
    PROVE  TypeOK'
<1>1. req[c].pc = "run" /\ conn[req[c].conn] # "dead" /\ req[c].conn \in Conns
      /\ conn[req[c].conn] \notin {"closed", "lent"}
  BY TypeOKParts DEF Commit, Alive, ReqsFit
<1>2. there
  BY <1>1, TypeOKParts DEF ConnsFit
<1>3. conn' \in [Conns -> {"closed", "lent", "public", "elsewhere", "dead"}]
      /\ \A i \in Conns : conn[i] \notin {"closed", "lent"} => conn'[i] \notin {"closed", "lent"}
  BY <1>1, TypeOKParts DEF Commit, ConnsFit
<1>4. ConnsFit'
  BY <1>2, <1>3, ViewFits, TypeOKParts DEF ConnsFit, Commit, Committed
<1>5. \A d \in Clients \ {c} : req[d].pc = "run" => conn'[req[d].conn] \notin {"closed", "lent"}
  BY <1>3, TypeOKParts DEF ReqsFit
<1>6. ReqsFit' /\ status' \in [Clients -> {200, 400, 404, 409, 500, 503}]
  BY <1>5, AnswerFits DEF Commit
<1>. QED
  BY <1>4, <1>6, TypeOKParts DEF Commit

LEMMA LostFits ==
    ASSUME TypeOK, NEW c \in Clients, Lost(c)
    PROVE  TypeOK'
<1>1. PICK code \in {400, 503} : Answer(c, code)
  BY DEF Lost
<1>2. req[c].pc = "run" /\ req[c].conn \in Conns /\ conn' = [conn EXCEPT ![req[c].conn] = "closed"]
  BY TypeOKParts DEF Lost, ReqsFit
<1>3. \A d \in Clients \ {c} : req[d].pc = "run" =>
         req[d].conn # req[c].conn /\ conn'[req[d].conn] \notin {"closed", "lent"}
  BY <1>2, TypeOKParts DEF ReqsFit, ConnsFit
<1>4. ReqsFit' /\ status' \in [Clients -> {200, 400, 404, 409, 500, 503}]
  BY <1>1, <1>3, AnswerFits
<1>5. ConnsFit'
  BY <1>2, TypeOKParts DEF ConnsFit, Lost
<1>. QED
  BY <1>4, <1>5, TypeOKParts DEF Lost

\* The steps of other routes and of the database itself.
LEMMA OthersFit ==
    ASSUME TypeOK, DropDatabase \/ CreateDatabase \/ \E i \in Conns : Returned(i)
    PROVE  TypeOK'
<1>1. ReqsFit /\ ConnsFit /\ req' = req /\ status' = status /\ sent' = sent
  BY TypeOKParts DEF DropDatabase, CreateDatabase, Returned
<1>2. ConnsFit' /\ \A i \in Conns : conn[i] \notin {"closed", "lent"} => conn'[i] \notin {"closed", "lent"}
  <2>1. CASE DropDatabase
    BY <1>1, <2>1, EmptyFits DEF ConnsFit, DropDatabase, Empty
  <2>2. CASE CreateDatabase
    BY <1>1, <2>2 DEF ConnsFit, CreateDatabase
  <2>3. ASSUME NEW i \in Conns, Returned(i)
        PROVE  ConnsFit' /\ \A j \in Conns : conn[j] \notin {"closed", "lent"} => conn'[j] \notin {"closed", "lent"}
    BY <1>1, <2>3 DEF ConnsFit, Returned
  <2>. QED
    BY <2>1, <2>2, <2>3
<1>3. ReqsFit'
  BY <1>1, <1>2 DEF ReqsFit
<1>. QED
  BY <1>1, <1>2, <1>3, TypeOKParts

LEMMA RefusalTypeOK ==
    ASSUME TypeOK, NEW c \in Clients,
           CommonTimeout(c) \/ AcquireTimeout(c) \/ Refused(c) \/ Rejected(c) \/ Deadlocked(c)
    PROVE  TypeOK'
<1>1. PICK code \in {400, 404, 409, 500, 503} :
        Answer(c, code) /\ UNCHANGED <<schema, there, conn, sent>>
  BY RefusalCodes DEF CommonTimeout, AcquireTimeout, Refused, Rejected, Deadlocked
<1>. QED
  BY <1>1, AnswerTypeOK

LEMMA NextTypeOK == TypeOK /\ [Next]_vars => TypeOK'
<1>. SUFFICES ASSUME TypeOK, [Next]_vars PROVE TypeOK'
  OBVIOUS
<1>1. CASE UNCHANGED vars
  BY <1>1 DEF vars, TypeOK
<1>2. CASE DropDatabase \/ CreateDatabase \/ \E i \in Conns : Returned(i)
  BY <1>2, OthersFit
<1>3. ASSUME NEW c \in Clients, Send(c) \/ Step(c) \/ Rejected(c) PROVE TypeOK'
  BY <1>3, SendFits, ActiveServerFits, BorrowFits, LockFits, ExecuteFits, CommitFits, LostFits,
     RefusalTypeOK DEF Step
<1>. QED
  BY <1>1, <1>2, <1>3 DEF Next

(* Every value a thread, a connection or a table has is one of those the   *)
(* routes and Postgres give it: no two transactions hold the same lock,    *)
(* no two threads use the same connection of the target pool, only a       *)
(* thread with a transaction holds locks, and every table that a statement *)
(* leaves is well formed.                                                  *)
THEOREM TypeCorrect == Spec => []TypeOK
  BY InitTypeOK, NextTypeOK, PTL DEF Spec

-----------------------------------------------------------------------------
(* What a request makes of the tables, as AtomicDdl says it.  Its copies   *)
(* of the definitions of Ddl are the same.                                 *)

LEMMA SameOwners == \A n, db : Atomic!Owners(n, db) = Owners(n, db)
  BY DEF Atomic!Owners, Owners, Atomic!Absent, Absent

LEMMA SameFault == \A s, db : Atomic!Fault(s, db) = Fault(s, db)
<1>. SUFFICES ASSUME NEW s, NEW db PROVE Atomic!Fault(s, db) = Fault(s, db)
  OBVIOUS
<1>1. Atomic!NoTable(s, db) <=> NoTable(s, db)
  BY DEF Atomic!NoTable, NoTable, Atomic!Absent, Absent
<1>2. Atomic!NoObject(s, db) <=> NoObject(s, db)
  BY SameOwners DEF Atomic!NoObject, NoObject
<1>3. Atomic!Exists(s, db) <=> Exists(s, db)
  BY SameOwners DEF Atomic!Exists, Exists, Atomic!Absent, Absent
<1>4. Atomic!Barred(s, db) <=> Barred(s, db)
  BY SameOwners DEF Atomic!Barred, Barred
<1>. QED
  BY <1>1, <1>2, <1>3, <1>4 DEF Atomic!Fault, Fault

LEMMA SameColumns ==
    /\ \A column, set : Atomic!Altered(column, set) = Altered(column, set)
    /\ \A cols, c, d : Atomic!Renamed(cols, c, d) = Renamed(cols, c, d)
    /\ \A cols, c, column : Atomic!Added(cols, c, column) = Added(cols, c, column)
    /\ \A tab, c, gone : Atomic!Without(tab, c, gone) = Without(tab, c, gone)
  BY DEF Atomic!Altered, Altered, Atomic!Attrs, Attrs, Atomic!Renamed, Renamed,
         Atomic!Added, Added, Atomic!Without, Without, Atomic!Restrict, Restrict

LEMMA SameEffects == \A s, db : Atomic!Effects(s, db) = Effects(s, db)
  BY SameOwners, SameColumns DEF Atomic!Effects, Effects, Atomic!Absent, Absent

LEMMA SameSchema == Atomic!Schema = Schema
  BY DEF Atomic!Schema, Schema, Atomic!Table, Table, Atomic!Cols, Cols, Atomic!Column, Column,
         Atomic!Attrs, Attrs, Atomic!Absent, Absent

LEMMA WholeIs ==
    ASSUME NEW r \in Requests, NEW db
    PROVE  /\ r.op \in {"get", "session"} => Atomic!Whole(r, db) = {db}
           /\ r.op = "alter" =>
                 Atomic!Whole(r, db) =
                   IF Atomic!Changeable(r, db) THEN {Atomic!Changed(r, db)} ELSE {}
           /\ r.op \notin {"get", "session", "alter"} =>
                 Atomic!Whole(r, db) = IF Fault(r, db) = {} THEN Effects(r, db) ELSE {}
  BY SameFault, SameEffects DEF Atomic!Whole

-----------------------------------------------------------------------------
(* The change of a column, statement by statement: A is the set of the     *)
(* attributes that are done.                                               *)
Doing(r, A) == [a \in Attrs |-> IF a \in A THEN r.set[a] ELSE Null]
PartCols(r, A, cols) == [cols EXCEPT ![r.col] = Altered(cols[r.col], Doing(r, A))]
Part(r, A, db) ==
    [db EXCEPT ![r.table] = [db[r.table] EXCEPT !.cols = PartCols(r, A, db[r.table].cols)]]

\* The table and the column are there.
Alterable(r, db) ==
    /\ r.op = "alter" /\ r.table \in Tables /\ db[r.table] \in Table
    /\ r.col \in DOMAIN db[r.table].cols

LEMMA AlteredTwice ==
    ASSUME NEW r, NEW A \in SUBSET Attrs, NEW a \in Attrs \ A, r.set[a] # Null, NEW column
    PROVE  Altered(Altered(column, Doing(r, A)), [NoChange EXCEPT ![a] = r.set[a]])
             = Altered(column, Doing(r, A \cup {a}))
<1>. DEFINE one == [NoChange EXCEPT ![a] = r.set[a]]
<1>1. \A b \in Attrs : one[b] = IF b = a THEN r.set[a] ELSE Null
  BY DEF NoChange
<1>2. \A b \in Attrs : /\ Doing(r, A)[b] = IF b \in A THEN r.set[b] ELSE Null
                       /\ Doing(r, A \cup {a})[b] = IF b \in A \cup {a} THEN r.set[b] ELSE Null
  BY DEF Doing
<1>3. \A b \in Attrs : Altered(column, Doing(r, A))[b] = IF Doing(r, A)[b] = Null THEN column[b] ELSE Doing(r, A)[b]
  BY DEF Altered
<1>. HIDE DEF one
<1>4. \A b \in Attrs :
        (IF one[b] = Null THEN Altered(column, Doing(r, A))[b] ELSE one[b])
          = IF Doing(r, A \cup {a})[b] = Null THEN column[b] ELSE Doing(r, A \cup {a})[b]
  BY <1>1, <1>2, <1>3
<1>5. Altered(Altered(column, Doing(r, A)), one) = Altered(column, Doing(r, A \cup {a}))
  BY <1>4 DEF Altered
<1>. QED
  BY <1>5 DEF one

LEMMA ColsAre ==
    ASSUME NEW tab \in Table
    PROVE  tab.cols = [x \in DOMAIN tab.cols |-> tab.cols[x]]
<1>1. PICK C \in SUBSET Columns : tab.cols \in [C -> Column]
  BY TableParts DEF Cols
<1>. QED
  BY <1>1

LEMMA PartColsStep ==
    ASSUME NEW r, NEW tab \in Table, r.col \in DOMAIN tab.cols,
           NEW A \in SUBSET Attrs, NEW a \in Attrs \ A, r.set[a] # Null
    PROVE  LET cols == PartCols(r, A, tab.cols)
               one == [NoChange EXCEPT ![a] = r.set[a]] IN
           [cols EXCEPT ![r.col] = Altered(cols[r.col], one)] = PartCols(r, A \cup {a}, tab.cols)
<1>. DEFINE cols == PartCols(r, A, tab.cols)
            one == [NoChange EXCEPT ![a] = r.set[a]]
<1>1. cols[r.col] = Altered(tab.cols[r.col], Doing(r, A)) /\ DOMAIN cols = DOMAIN tab.cols
      /\ \A x \in DOMAIN tab.cols \ {r.col} : cols[x] = tab.cols[x]
  BY ColsAre DEF PartCols
<1>2. Altered(cols[r.col], one) = Altered(tab.cols[r.col], Doing(r, A \cup {a}))
  BY <1>1, AlteredTwice
<1>. HIDE DEF cols, one
<1>3. [cols EXCEPT ![r.col] = Altered(cols[r.col], one)]
        = [x \in DOMAIN tab.cols |-> IF x = r.col THEN Altered(cols[r.col], one) ELSE tab.cols[x]]
  BY <1>1
<1>4. PartCols(r, A \cup {a}, tab.cols)
        = [x \in DOMAIN tab.cols |-> IF x = r.col THEN Altered(tab.cols[r.col], Doing(r, A \cup {a})) ELSE tab.cols[x]]
  BY ColsAre DEF PartCols
<1>5. [cols EXCEPT ![r.col] = Altered(cols[r.col], one)] = PartCols(r, A \cup {a}, tab.cols)
  BY <1>2, <1>3, <1>4
<1>. QED
  BY <1>5 DEF cols, one

LEMMA PartColsNone ==
    ASSUME NEW r, NEW tab \in Table, r.col \in DOMAIN tab.cols
    PROVE  PartCols(r, {}, tab.cols) = tab.cols
<1>1. tab.cols[r.col] \in Column
  BY TableParts
<1>2. \A a \in Attrs : Doing(r, {})[a] = Null
  BY DEF Doing
<1>3. Altered(tab.cols[r.col], Doing(r, {})) = tab.cols[r.col]
  BY <1>1, <1>2 DEF Altered, Column
<1>. QED
  BY <1>3, ColsAre DEF PartCols

\* What is left to do when the statements of the attributes in A are done.
Left(r, A, a) == IF a \in A THEN <<>> ELSE SetStmt(r, a)
Rest(r, A) ==
    Left(r, A, "type") \o (Left(r, A, "nullable") \o (Left(r, A, "default") \o RenameStmt(r)))

SetOf(r, a) == [r EXCEPT !.op = "set", !.set = [NoChange EXCEPT ![a] = r.set[a]]]
RenameOf(r) == [r EXCEPT !.op = "renamecol", !.set = NoChange]

LEMMA RestAtFirst == \A r : r.op = "alter" => Stmts(r) = Rest(r, {})
  BY DEF Stmts, AlterStmts, Rest, Left

LEMMA Prepend ==
    ASSUME NEW S, NEW s \in Seq(S), NEW x \in S
    PROVE  /\ <<>> \o s = s
           /\ <<x>> \o s \in Seq(S) /\ <<x>> \o s # <<>>
           /\ Head(<<x>> \o s) = x /\ Tail(<<x>> \o s) = s
  OBVIOUS

LEMMA LeftIs ==
    ASSUME NEW r \in Requests, r.op = "alter", NEW A \in SUBSET Attrs, NEW a \in Attrs,
           NEW s \in Seq(Statements)
    PROVE  /\ a \in A \/ r.set[a] = Null => Left(r, A, a) \o s = s
           /\ a \notin A /\ r.set[a] # Null =>
                 /\ Left(r, A, a) \o s # <<>>
                 /\ Head(Left(r, A, a) \o s) = SetOf(r, a) /\ Tail(Left(r, A, a) \o s) = s
           /\ Left(r, A, a) \o s \in Seq(Statements)
<1>1. CASE a \in A \/ r.set[a] = Null
  <2>1. Left(r, A, a) = <<>>
    BY <1>1 DEF Left, SetStmt
  <2>. QED
    BY <1>1, <2>1, Prepend
<1>2. CASE a \notin A /\ r.set[a] # Null
  <2>1. Left(r, A, a) = <<SetOf(r, a)>>
    BY <1>2 DEF Left, SetStmt, SetOf
  <2>2. SetOf(r, a) \in Statements
    BY <1>2, SetStmtFits DEF SetOf
  <2>. QED
    BY <1>2, <2>1, <2>2, Prepend
<1>. QED
  BY <1>1, <1>2

LEMMA RestNext ==
    ASSUME NEW r \in Requests, r.op = "alter", NEW A \in SUBSET Attrs
    PROVE  \/ \E a \in Attrs \ A : /\ r.set[a] # Null /\ Rest(r, A) # <<>>
                                 /\ Head(Rest(r, A)) = SetOf(r, a)
                                 /\ Tail(Rest(r, A)) = Rest(r, A \cup {a})
           \/ /\ \A a \in Attrs \ A : r.set[a] = Null
              /\ r.to # Null /\ Rest(r, A) # <<>>
              /\ Head(Rest(r, A)) = RenameOf(r) /\ Tail(Rest(r, A)) = <<>>
           \/ /\ \A a \in Attrs \ A : r.set[a] = Null
              /\ r.to = Null /\ Rest(r, A) = <<>>
<1>. DEFINE then(B, a, s) == Left(r, B, a) \o s
            s3 == RenameStmt(r)
            s2(B) == then(B, "default", s3)
            s1(B) == then(B, "nullable", s2(B))
            skip(B, a) == a \in B \/ r.set[a] = Null
<1>0. Attrs = {"type", "nullable", "default"}
  BY DEF Attrs
<1>1. /\ s3 \in Seq(Statements)
      /\ r.to = Null => s3 = <<>>
      /\ r.to # Null => s3 # <<>> /\ Head(s3) = RenameOf(r) /\ Tail(s3) = <<>>
  <2>1. r.to # Null => RenameOf(r) \in Statements
    BY RenameStmtFits DEF RenameOf
  <2>2. s3 = IF r.to = Null THEN <<>> ELSE <<RenameOf(r)>>
    BY DEF RenameStmt, RenameOf
  <2>3. \A x \in Statements : <<x>> \in Seq(Statements) /\ <<x>> # <<>> /\ Head(<<x>>) = x /\ Tail(<<x>>) = <<>>
    OBVIOUS
  <2>. HIDE DEF s3
  <2>. QED
    BY <2>1, <2>2, <2>3
<1>. HIDE DEF s3
<1>a. ASSUME NEW B \in SUBSET Attrs, NEW a \in Attrs, NEW s \in Seq(Statements)
      PROVE  /\ then(B, a, s) \in Seq(Statements)
             /\ skip(B, a) => then(B, a, s) = s
             /\ ~skip(B, a) => /\ then(B, a, s) # <<>>
                               /\ Head(then(B, a, s)) = SetOf(r, a) /\ Tail(then(B, a, s)) = s
  <2>1. then(B, a, s) \in Seq(Statements)
    BY LeftIs
  <2>2. ASSUME skip(B, a) PROVE then(B, a, s) = s
    <3>1. a \in B \/ r.set[a] = Null
      BY <2>2
    <3>2. Left(r, B, a) = <<>>
      BY <3>1 DEF Left, SetStmt
    <3>3. <<>> \o s = s
      OBVIOUS
    <3>. QED
      BY <3>2, <3>3
  <2>3. ASSUME ~skip(B, a)
        PROVE  then(B, a, s) # <<>> /\ Head(then(B, a, s)) = SetOf(r, a) /\ Tail(then(B, a, s)) = s
    <3>1. a \notin B /\ r.set[a] # Null
      BY <2>3
    <3>. HIDE DEF skip
    <3>. QED
      BY <3>1, LeftIs
  <2>. QED
    BY <2>1, <2>2, <2>3
<1>b. \A B : s2(B) = then(B, "default", s3) /\ s1(B) = then(B, "nullable", s2(B))
  OBVIOUS
<1>d. \A B : Rest(r, B) = then(B, "type", s1(B))
  BY DEF Rest, s3
<1>e. \A B, C : /\ ("default" \in B <=> "default" \in C) => s2(B) = s2(C)
                /\ ("default" \in B <=> "default" \in C) /\ ("nullable" \in B <=> "nullable" \in C)
                      => s1(B) = s1(C)
  BY DEF Left
<1>. HIDE DEF then
<1>2. \A B \in SUBSET Attrs : s2(B) \in Seq(Statements)
  BY <1>0, <1>1, <1>a, <1>b
<1>. HIDE DEF s2
<1>3. \A B \in SUBSET Attrs : s1(B) \in Seq(Statements)
  BY <1>0, <1>2, <1>a, <1>b
<1>. HIDE DEF s1, skip
<1>c. \A B, a : skip(B, a) <=> a \in B \/ r.set[a] = Null
  BY DEF skip
<1>f. "type" \in Attrs /\ "nullable" \in Attrs /\ "default" \in Attrs
  BY <1>0
<1>g. \A B \in SUBSET Attrs :
        /\ skip(B, "type") => Rest(r, B) = s1(B)
        /\ ~skip(B, "type") => /\ Rest(r, B) # <<>>
                               /\ Head(Rest(r, B)) = SetOf(r, "type") /\ Tail(Rest(r, B)) = s1(B)
  BY <1>3, <1>a, <1>d, <1>f
<1>h. \A B \in SUBSET Attrs :
        /\ skip(B, "nullable") => s1(B) = s2(B)
        /\ ~skip(B, "nullable") => /\ s1(B) # <<>>
                                   /\ Head(s1(B)) = SetOf(r, "nullable") /\ Tail(s1(B)) = s2(B)
  BY <1>2, <1>a, <1>b, <1>f
<1>i. \A B \in SUBSET Attrs :
        /\ skip(B, "default") => s2(B) = s3
        /\ ~skip(B, "default") => /\ s2(B) # <<>>
                                  /\ Head(s2(B)) = SetOf(r, "default") /\ Tail(s2(B)) = s3
  BY <1>1, <1>a, <1>b, <1>f
<1>5. CASE "type" \notin A /\ r.set["type"] # Null
  <2>. DEFINE B == A \cup {"type"}
  <2>1. B \in SUBSET Attrs /\ ~skip(A, "type") /\ skip(B, "type")
    BY <1>5, <1>c, <1>f
  <2>2. s1(B) = s1(A)
    BY <1>e
  <2>. QED
    BY <1>5, <1>f, <1>g, <2>1, <2>2
<1>6. CASE ("type" \in A \/ r.set["type"] = Null) /\ "nullable" \notin A /\ r.set["nullable"] # Null
  <2>. DEFINE B == A \cup {"nullable"}
  <2>1. /\ B \in SUBSET Attrs /\ skip(A, "type") /\ skip(B, "type")
        /\ ~skip(A, "nullable") /\ skip(B, "nullable")
    BY <1>6, <1>c, <1>f
  <2>2. s2(B) = s2(A)
    BY <1>e
  <2>. QED
    BY <1>6, <1>f, <1>g, <1>h, <2>1, <2>2
<1>7. CASE /\ "type" \in A \/ r.set["type"] = Null
           /\ "nullable" \in A \/ r.set["nullable"] = Null
           /\ "default" \notin A /\ r.set["default"] # Null
  <2>. DEFINE B == A \cup {"default"}
  <2>1. /\ B \in SUBSET Attrs /\ skip(A, "type") /\ skip(B, "type")
        /\ skip(A, "nullable") /\ skip(B, "nullable")
        /\ ~skip(A, "default") /\ skip(B, "default")
    BY <1>7, <1>c, <1>f
  <2>2. /\ Rest(r, A) = s2(A) /\ Rest(r, B) = s2(B) /\ s2(B) = s3
        /\ Rest(r, A) # <<>> /\ Head(Rest(r, A)) = SetOf(r, "default") /\ Tail(s2(A)) = s3
    BY <1>g, <1>h, <1>i, <2>1
  <2>3. "default" \in Attrs \ A /\ Tail(Rest(r, A)) = Rest(r, B)
    BY <1>7, <1>f, <2>2
  <2>. QED
    BY <1>7, <2>2, <2>3
<1>8. CASE \A a \in Attrs : a \in A \/ r.set[a] = Null
  <2>1. skip(A, "type") /\ skip(A, "nullable") /\ skip(A, "default")
    BY <1>8, <1>c, <1>f
  <2>2. Rest(r, A) = s3
    BY <1>g, <1>h, <1>i, <2>1
  <2>. QED
    BY <1>1, <1>8, <2>2
<1>. QED
  BY <1>0, <1>5, <1>6, <1>7, <1>8

LEMMA PartFits ==
    ASSUME NEW r \in Requests, NEW db \in Schema, Alterable(r, db), NEW A \in SUBSET Attrs
    PROVE  /\ Part(r, A, db) \in Schema
           /\ Part(r, A, db)[r.table] = [db[r.table] EXCEPT !.cols = PartCols(r, A, db[r.table].cols)]
           /\ Part(r, A, db)[r.table].cols = PartCols(r, A, db[r.table].cols)
           /\ DOMAIN PartCols(r, A, db[r.table].cols) = DOMAIN db[r.table].cols
           /\ Alterable(r, Part(r, A, db))
<1>. DEFINE tab == db[r.table]
            f == PartCols(r, A, tab.cols)
<1>1. tab \in Table /\ r.table \in Tables /\ r.col \in DOMAIN tab.cols /\ r.op = "alter"
  BY DEF Alterable
<1>2. Doing(r, A) \in Change
  BY RequestParts DEF Doing, Change
<1>3. Altered(tab.cols[r.col], Doing(r, A)) \in Column
  BY <1>1, <1>2, TableParts, AlteredFits
<1>4. PICK C \in SUBSET Columns : tab.cols \in [C -> Column]
  BY <1>1, TableParts DEF Cols
<1>5. f \in [C -> Column]
  BY <1>1, <1>3, <1>4 DEF PartCols
<1>6. f \in Cols /\ DOMAIN f = DOMAIN tab.cols
  BY <1>4, <1>5 DEF Cols
<1>. HIDE DEF f
<1>7. [tab EXCEPT !.cols = f] \in Table /\ [tab EXCEPT !.cols = f].cols = f
  BY <1>1, <1>6 DEF Table
<1>8. Part(r, A, db) = [db EXCEPT ![r.table] = [tab EXCEPT !.cols = f]]
  BY DEF Part, f
<1>. HIDE DEF tab
<1>9. Part(r, A, db) \in Schema /\ Part(r, A, db)[r.table] = [tab EXCEPT !.cols = f]
  BY <1>1, <1>7, <1>8 DEF Schema
<1>. QED
  BY <1>1, <1>6, <1>7, <1>9 DEF Alterable, f, tab

LEMMA PartNone ==
    ASSUME NEW r, NEW db \in Schema, Alterable(r, db)
    PROVE  Part(r, {}, db) = db
<1>1. PartCols(r, {}, db[r.table].cols) = db[r.table].cols
  BY PartColsNone DEF Alterable
<1>2. [db[r.table] EXCEPT !.cols = db[r.table].cols] = db[r.table]
  BY DEF Alterable, Table
<1>. QED
  BY <1>1, <1>2 DEF Part, Schema

\* One statement more.
LEMMA PartSet ==
    ASSUME NEW r \in Requests, NEW db \in Schema, Alterable(r, db),
           NEW A \in SUBSET Attrs, NEW a \in Attrs \ A, r.set[a] # Null
    PROVE  Effects(SetOf(r, a), Part(r, A, db)) = {Part(r, A \cup {a}, db)}
<1>. DEFINE s == SetOf(r, a)
            tab == db[r.table]
            cols == PartCols(r, A, tab.cols)
            part == Part(r, A, db)
            one == [NoChange EXCEPT ![a] = r.set[a]]
<1>1. s.op = "set" /\ s.table = r.table /\ s.col = r.col /\ s.set = one
  BY DEF SetOf, Requests, Forms
<1>2. part = [db EXCEPT ![r.table] = [tab EXCEPT !.cols = cols]]
      /\ part[r.table] = [tab EXCEPT !.cols = cols] /\ part[r.table].cols = cols
  <2>1. part = [db EXCEPT ![r.table] = [tab EXCEPT !.cols = cols]]
    BY DEF Part
  <2>. HIDE DEF part, cols
  <2>. QED
    BY <2>1, PartFits DEF part, cols
<1>3. [cols EXCEPT ![r.col] = Altered(cols[r.col], one)] = PartCols(r, A \cup {a}, tab.cols)
  <2>1. tab \in Table /\ r.col \in DOMAIN tab.cols
    BY DEF Alterable
  <2>. HIDE DEF tab
  <2>. QED
    BY <2>1, PartColsStep
<1>. DEFINE next == [cols EXCEPT ![r.col] = Altered(cols[r.col], one)]
<1>. HIDE DEF s, part
<1>4. Effects(s, part) = {[part EXCEPT ![r.table] = [part[r.table] EXCEPT !.cols =
         [part[r.table].cols EXCEPT ![r.col] = Altered(part[r.table].cols[r.col], s.set)]]]}
  BY <1>1 DEF Effects
<1>. HIDE DEF one
<1>5. Effects(s, part) = {[part EXCEPT ![r.table] = [part[r.table] EXCEPT !.cols = next]]}
  BY <1>1, <1>2, <1>4
<1>. HIDE DEF next
<1>6. [part[r.table] EXCEPT !.cols = next] = [tab EXCEPT !.cols = next]
  BY <1>2 DEF Alterable, Table
<1>7. [part EXCEPT ![r.table] = [tab EXCEPT !.cols = next]] = [db EXCEPT ![r.table] = [tab EXCEPT !.cols = next]]
  BY <1>2 DEF Schema, Alterable
<1>. QED
  BY <1>3, <1>5, <1>6, <1>7 DEF Part, next, s, part, one

LEMMA DoingAll ==
    ASSUME NEW r \in Requests, NEW A \in SUBSET Attrs, \A a \in Attrs \ A : r.set[a] = Null
    PROVE  Doing(r, A) = r.set
  BY RequestParts DEF Doing, Change

\* The last one.
LEMMA PartLast ==
    ASSUME NEW r \in Requests, NEW db \in Schema, Alterable(r, db), NEW A \in SUBSET Attrs,
           \A a \in Attrs \ A : r.set[a] = Null
    PROVE  /\ r.to = Null => Part(r, A, db) = Atomic!Changed(r, db)
           /\ r.to # Null => Effects(RenameOf(r), Part(r, A, db)) = {Atomic!Changed(r, db)}
<1>. DEFINE tab == db[r.table]
            cols == PartCols(r, A, tab.cols)
            part == Part(r, A, db)
            s == RenameOf(r)
<1>1. cols = [tab.cols EXCEPT ![r.col] = Altered(tab.cols[r.col], r.set)]
  BY DoingAll DEF PartCols
<1>2. Atomic!Changed(r, db) = [db EXCEPT ![r.table] = [tab EXCEPT !.cols =
         IF r.to = Null THEN cols ELSE Renamed(cols, r.col, r.to)]]
  BY <1>1, SameColumns DEF Atomic!Changed
<1>3. part = [db EXCEPT ![r.table] = [tab EXCEPT !.cols = cols]]
      /\ part[r.table] = [tab EXCEPT !.cols = cols] /\ part[r.table].cols = cols
  <2>1. part = [db EXCEPT ![r.table] = [tab EXCEPT !.cols = cols]]
    BY DEF Part
  <2>. HIDE DEF part, cols
  <2>. QED
    BY <2>1, PartFits DEF part, cols
<1>4. s.op = "renamecol" /\ s.table = r.table /\ s.col = r.col /\ s.to = r.to
  BY DEF RenameOf, Requests, Forms
<1>. HIDE DEF cols, part, s
<1>5. Effects(s, part) = {[part EXCEPT ![r.table] = [part[r.table] EXCEPT !.cols =
         Renamed(part[r.table].cols, r.col, r.to)]]}
  BY <1>4 DEF Effects
<1>6. [part[r.table] EXCEPT !.cols = Renamed(cols, r.col, r.to)]
         = [tab EXCEPT !.cols = Renamed(cols, r.col, r.to)]
  BY <1>3 DEF Alterable, Table
<1>7. [part EXCEPT ![r.table] = [tab EXCEPT !.cols = Renamed(cols, r.col, r.to)]]
         = [db EXCEPT ![r.table] = [tab EXCEPT !.cols = Renamed(cols, r.col, r.to)]]
  BY <1>3 DEF Schema, Alterable
<1>. QED
  BY <1>2, <1>3, <1>5, <1>6, <1>7 DEF part, s

-----------------------------------------------------------------------------
(* What a request leaves alone *)

\* A statement changes no table it has not locked.
LEMMA EffectsOff ==
    ASSUME NEW s \in Statements, NEW db \in Schema, NEW e \in Effects(s, db),
           NEW t \in Tables \ Locks(s, db)
    PROVE  e[t] = db[t]
<1>1. CASE s.op \in {"create", "drop", "addcol", "set", "renamecol", "dropcol", "dropcon"}
  <2>1. t # s.table
    BY <1>1 DEF Locks
  <2>2. CASE s.op \in {"create", "drop", "addcol"}
    BY <2>1, <2>2 DEF Effects, Schema
  <2>3. CASE s.op \in {"set", "renamecol", "dropcon"}
    BY <2>1, <2>3 DEF Effects, Schema
  <2>4. CASE s.op = "dropcol"
    <3>1. PICK gone \in SUBSET Objects : e = [db EXCEPT ![s.table] = Without(@, s.col, gone)]
      BY <2>4 DEF Effects
    <3>. QED
      BY <2>1, <3>1 DEF Schema
  <2>. QED
    BY <1>1, <2>2, <2>3, <2>4
<1>2. CASE s.op = "rename"
  BY <1>2 DEF Effects, Schema, Locks
<1>3. CASE s.op \in {"addfk", "addkey", "addidx"}
  <2>1. t # s.table
    BY <1>3 DEF Locks
  <2>. QED
    BY <1>3, <2>1 DEF Effects, Schema
<1>4. CASE s.op = "dropidx"
  BY <1>4 DEF Effects, Locks
<1>5. CASE s.op \in {"session", "columns", "parts"}
  BY <1>5 DEF Effects
<1>. QED
  BY <1>1, <1>2, <1>3, <1>4, <1>5, StatementParts

LEMMA ChangedIs ==
    ASSUME NEW r \in Requests, r.op = "alter", NEW db \in Schema
    PROVE  Atomic!Changeable(r, db) <=> Alterable(r, db) /\ r.to \notin DOMAIN db[r.table].cols
<1>1. r.table \in Tables
  BY RequestParts DEF Formed
<1>. QED
  BY <1>1, TableThere, TableParts DEF Atomic!Changeable, Alterable, Atomic!Absent, Absent

\* Nor does a request as a whole.
LEMMA WholeOff ==
    ASSUME NEW r \in Requests, NEW db \in Schema, NEW e \in Atomic!Whole(r, db),
           NEW t \in Tables \ Locks(r, db)
    PROVE  e[t] = db[t]
<1>1. CASE r.op \in {"get", "session"}
  BY <1>1, WholeIs
<1>2. CASE r.op = "alter"
  <2>1. e = Atomic!Changed(r, db) /\ t # r.table
    BY <1>2, WholeIs DEF Locks
  <2>. QED
    BY <2>1 DEF Atomic!Changed, Schema
<1>3. CASE r.op \notin {"get", "session", "alter"}
  BY <1>3, WholeIs, EffectsOff, RequestParts
<1>. QED
  BY <1>1, <1>2, <1>3

SameOn(H, db, db2) == \A t \in Tables : t \in H => db2[t] = db[t]

(* A statement does to the tables it has locked what it does to them in    *)
(* any other schema that has the same ones.                                *)
LEMMA EffectsAgree ==
    ASSUME NEW s \in Statements, NEW db \in Schema, NEW db2 \in Schema,
           NEW H, Locks(s, db) \subseteq H, SameOn(H, db, db2),
           s.op = "dropidx" => Owners(s.obj, db2) = Owners(s.obj, db),
           Fault(s, db) = {}, NEW e \in Effects(s, db)
    PROVE  \E e2 \in Effects(s, db2) : SameOn(H, e, e2)
<1>0. \A t \in Tables : t \in H => db2[t] = db[t]
  BY DEF SameOn
<1>1. CASE s.op \in {"create", "drop"}
  <2>1. s.table \in H /\ s.table \in Tables
    BY <1>1, StatementParts DEF Locks, Formed
  <2>2. CASE s.op = "create"
    <3>. DEFINE new == [cols |-> [x \in {s.col} |-> s.set], fks |-> {}, keys |-> {}, idx |-> {}]
    <3>1. e = [db EXCEPT ![s.table] = new] /\ [db2 EXCEPT ![s.table] = new] \in Effects(s, db2)
      BY <2>2 DEF Effects
    <3>. HIDE DEF new
    <3>. QED
      BY <1>0, <2>1, <3>1 DEF Schema, SameOn
  <2>3. CASE s.op = "drop"
    <3>1. e = [db EXCEPT ![s.table] = Absent] /\ [db2 EXCEPT ![s.table] = Absent] \in Effects(s, db2)
      BY <2>3 DEF Effects
    <3>. QED
      BY <1>0, <2>1, <3>1 DEF Schema, SameOn
  <2>. QED
    BY <1>1, <2>2, <2>3
<1>2. CASE s.op \in {"addcol", "set", "renamecol", "dropcol", "dropcon", "addfk", "addkey", "addidx"}
  <2>1. s.table \in H /\ s.table \in Tables /\ db2[s.table] = db[s.table]
    BY <1>0, <1>2, StatementParts DEF Locks, Formed
  <2>2. PICK tab : e = [db EXCEPT ![s.table] = tab] /\ [db2 EXCEPT ![s.table] = tab] \in Effects(s, db2)
    <3>1. CASE s.op = "addcol"
      BY <2>1, <3>1 DEF Effects
    <3>2. CASE s.op = "set"
      BY <2>1, <3>2 DEF Effects
    <3>3. CASE s.op = "renamecol"
      BY <2>1, <3>3 DEF Effects
    <3>4. CASE s.op = "dropcol"
      <4>1. PICK gone \in SUBSET Objects : e = [db EXCEPT ![s.table] = Without(db[s.table], s.col, gone)]
        BY <3>4 DEF Effects
      <4>2. [db2 EXCEPT ![s.table] = Without(db2[s.table], s.col, gone)] \in Effects(s, db2)
        BY <3>4 DEF Effects
      <4>. QED
        BY <2>1, <4>1, <4>2
    <3>5. CASE s.op = "dropcon"
      <4>. DEFINE tab(d) == [d[s.table] EXCEPT !.fks = d[s.table].fks \ {s.obj},
                                              !.keys = d[s.table].keys \ {s.obj}]
      <4>1. db[s.table] \in Table /\ db2[s.table] \in Table
        BY <2>1, <3>5, FaultlessThere
      <4>2. Effects(s, db) = {[db EXCEPT ![s.table] = tab(db)]}
        BY <2>1, <3>5, <4>1 DEF Effects, Schema
      <4>3. Effects(s, db2) = {[db2 EXCEPT ![s.table] = tab(db2)]}
        BY <2>1, <3>5, <4>1 DEF Effects, Schema
      <4>4. tab(db) = tab(db2)
        BY <2>1
      <4>. HIDE DEF tab
      <4>. QED
        BY <4>2, <4>3, <4>4
    <3>6. CASE s.op = "addfk"
      BY <2>1, <3>6 DEF Effects
    <3>7. CASE s.op = "addkey"
      BY <2>1, <3>7 DEF Effects
    <3>8. CASE s.op = "addidx"
      BY <2>1, <3>8 DEF Effects
    <3>. QED
      BY <1>2, <3>1, <3>2, <3>3, <3>4, <3>5, <3>6, <3>7, <3>8
  <2>. QED
    BY <1>0, <2>1, <2>2 DEF Schema, SameOn
<1>3. CASE s.op = "rename"
  <2>1. s.table \in H /\ s.table \in Tables /\ s.to \in H /\ s.to \in Tables
    BY <1>3, StatementParts DEF Locks, Formed
  <2>2. /\ e = [db EXCEPT ![s.to] = db[s.table], ![s.table] = Absent]
        /\ [db2 EXCEPT ![s.to] = db2[s.table], ![s.table] = Absent] \in Effects(s, db2)
    BY <1>3 DEF Effects
  <2>. QED
    BY <1>0, <2>1, <2>2 DEF Schema, SameOn
<1>4. CASE s.op = "dropidx"
  BY <1>0, <1>4 DEF Effects, SameOn
<1>5. CASE s.op \in {"session", "columns", "parts"}
  BY <1>0, <1>5 DEF Effects, SameOn
<1>. QED
  BY <1>1, <1>2, <1>3, <1>4, <1>5, StatementParts

LEMMA FaultAgrees ==
    ASSUME NEW s \in Statements, NEW db \in Schema, NEW db2 \in Schema,
           NEW H, Locks(s, db) \subseteq H, SameOn(H, db, db2),
           s.op \in {"addkey", "addidx"} => Owners(s.obj, db2) = {},
           s.op = "dropidx" => Owners(s.obj, db2) = Owners(s.obj, db),
           s.op \notin {"columns", "parts"}, Fault(s, db) = {}
    PROVE  Fault(s, db2) = {}
<1>0. \A t \in Tables : t \in H => db2[t] = db[t]
  BY DEF SameOn
<1>1. s.op \notin {"session", "dropidx"} => s.table \in Tables /\ db2[s.table] = db[s.table]
  BY <1>0, StatementParts DEF Locks, Formed
<1>2. s.op \in {"rename", "addfk"} => s.to \in Tables /\ db2[s.to] = db[s.to]
  BY <1>0, StatementParts DEF Locks, Formed
<1>3. ~NoTable(s, db) /\ ~NoObject(s, db) /\ ~Exists(s, db) /\ ~Barred(s, db)
  BY DEF Fault
<1>4. ~NoTable(s, db2)
  BY <1>1, <1>2, <1>3 DEF NoTable
<1>5. ~NoObject(s, db2)
  BY <1>1, <1>3 DEF NoObject
<1>6. ~Exists(s, db2)
  BY <1>1, <1>2, <1>3 DEF Exists
<1>7. ~Barred(s, db2)
  <2>1. s.op = "dropidx" => \A t \in Owners(s.obj, db) : db2[t] = db[t]
    BY <1>0 DEF Locks, Owners
  <2>. QED
    BY <1>1, <1>3, <2>1 DEF Barred
<1>. QED
  BY <1>4, <1>5, <1>6, <1>7 DEF Fault

\* The tables of e among the names in H, those of db elsewhere.
Overlay(H, e, db) == [t \in Tables |-> IF t \in H THEN e[t] ELSE db[t]]

LEMMA WholeAgrees ==
    ASSUME NEW r \in Requests, r.op # "get", NEW db \in Schema, NEW db2 \in Schema,
           NEW H, Locks(r, db) \subseteq H, SameOn(H, db, db2),
           r.op \in {"addkey", "addidx"} => Owners(r.obj, db2) = {},
           r.op = "dropidx" => Owners(r.obj, db2) = Owners(r.obj, db),
           NEW e \in Atomic!Whole(r, db)
    PROVE  Overlay(H, e, db2) \in Atomic!Whole(r, db2)
<1>1. CASE r.op = "session"
  <2>1. e = db
    BY <1>1, WholeIs
  <2>2. Overlay(H, e, db2) = db2
    BY <2>1 DEF Overlay, Schema, SameOn
  <2>. QED
    BY <1>1, <2>2, WholeIs
<1>2. CASE r.op = "alter"
  <2>1. r.table \in H /\ r.table \in Tables /\ db2[r.table] = db[r.table]
    BY <1>2, RequestParts DEF Locks, Formed, SameOn
  <2>2. Atomic!Changeable(r, db) /\ e = Atomic!Changed(r, db)
    BY <1>2, WholeIs
  <2>3. Atomic!Changeable(r, db2)
    BY <2>1, <2>2 DEF Atomic!Changeable
  <2>4. Atomic!Changed(r, db2) \in [Tables -> UNION {Table \cup {Absent}, {Atomic!Changed(r, db2)[r.table]}}]
        /\ \A t \in Tables : Atomic!Changed(r, db2)[t] = IF t = r.table THEN Atomic!Changed(r, db)[t] ELSE db2[t]
    BY <2>1 DEF Atomic!Changed, Schema
  <2>5. \A t \in Tables : t # r.table => e[t] = db[t]
    BY <2>2 DEF Atomic!Changed, Schema
  <2>6. Overlay(H, e, db2) = Atomic!Changed(r, db2)
    BY <2>1, <2>2, <2>4, <2>5 DEF Overlay, SameOn
  <2>. QED
    BY <1>2, <2>3, <2>6, WholeIs
<1>3. CASE r.op \notin {"get", "session", "alter"}
  <2>1. r \in Statements /\ Fault(r, db) = {} /\ e \in Effects(r, db)
        /\ r.op \notin {"columns", "parts"}
    BY <1>3, RequestParts, WholeIs
  <2>2. Fault(r, db2) = {}
    BY <2>1, FaultAgrees
  <2>3. PICK e2 \in Effects(r, db2) : SameOn(H, e, e2)
    BY <2>1, EffectsAgree
  <2>4. Locks(r, db2) = Locks(r, db)
    BY DEF Locks
  <2>5. e2 \in Schema /\ \A t \in Tables : t \notin H => e2[t] = db2[t]
    BY <2>1, <2>2, <2>3, <2>4, EffectsFit, EffectsOff
  <2>6. Overlay(H, e, db2) = e2
    BY <2>3, <2>5 DEF Overlay, Schema, SameOn
  <2>. QED
    BY <1>3, <2>2, <2>6, WholeIs
<1>. QED
  BY <1>1, <1>2, <1>3

(* Where a name of a key or an index comes from: the table had it, another *)
(* table that the request locked had it, or the request made it, and then  *)
(* nobody had it.                                                          *)
LEMMA OwnersOf ==
    ASSUME NEW r \in Requests, NEW db \in Schema, NEW e \in Atomic!Whole(r, db),
           NEW n \in Objects, NEW t \in Owners(n, e)
    PROVE  \/ t \in Owners(n, db)
           \/ \E u \in Owners(n, db) : u \in Locks(r, db)
           \/ r.op \in {"addkey", "addidx"} /\ n = r.obj /\ Owners(n, db) = {}
<1>1. CASE t \notin Locks(r, db)
  BY <1>1, WholeOff DEF Owners
<1>2. CASE t \in Locks(r, db) /\ r.op \in {"get", "session"}
  BY <1>2, WholeIs
<1>3. CASE t \in Locks(r, db) /\ r.op = "alter"
  <2>1. t = r.table /\ t \in Tables /\ db[t] \in Table /\ e = Atomic!Changed(r, db)
    BY <1>3, WholeIs, ChangedIs DEF Locks, Owners, Alterable
  <2>2. e[t].idx = db[t].idx /\ e[t].keys = db[t].keys
    BY <2>1 DEF Atomic!Changed, Schema, Table
  <2>. QED
    BY <2>1, <2>2, TableParts DEF Owners
<1>4. CASE t \in Locks(r, db) /\ r.op \notin {"get", "session", "alter"}
  <2>1. r \in Statements /\ Fault(r, db) = {} /\ e \in Effects(r, db) /\ Formed(r)
        /\ t \in Tables /\ e[t] # Absent /\ n \in e[t].idx \cup e[t].keys
    BY <1>4, RequestParts, WholeIs DEF Owners
  <2>2. CASE r.op = "create"
    <3>1. t = r.table
      BY <1>4, <2>2 DEF Locks
    <3>2. e[t] = [cols |-> [x \in {r.col} |-> r.set], fks |-> {}, keys |-> {}, idx |-> {}]
      BY <2>1, <2>2, <3>1 DEF Effects, Schema
    <3>. QED
      BY <2>1, <3>2
  <2>3. CASE r.op = "rename"
    <3>1. r.table \in Tables /\ r.to \in Tables /\ db[r.table] # Absent /\ t \in {r.table, r.to}
      BY <1>4, <2>1, <2>3, FaultlessThere, TableParts DEF Locks, Formed
    <3>2. t = r.to /\ e[t] = db[r.table]
      BY <2>1, <2>3, <3>1 DEF Effects, Schema
    <3>3. r.table \in Owners(n, db) /\ r.table \in Locks(r, db)
      BY <2>1, <2>3, <3>1, <3>2 DEF Owners, Locks
    <3>. QED
      BY <3>3
  <2>4. CASE r.op = "drop"
    BY <1>4, <2>1, <2>4 DEF Effects, Schema, Locks
  <2>5. CASE r.op = "addfk"
    <3>1. db[r.table] \in Table /\ r.table \in Tables
      BY <2>1, <2>5, FaultlessThere
    <3>2. e = [db EXCEPT ![r.table] = [db[r.table] EXCEPT !.fks = db[r.table].fks \cup {r.obj}]]
      BY <2>1, <2>5 DEF Effects
    <3>3. e[r.table].idx = db[r.table].idx /\ e[r.table].keys = db[r.table].keys
          /\ (t # r.table => e[t] = db[t])
      BY <2>1, <3>1, <3>2 DEF Schema, Table
    <3>4. t \in Owners(n, db)
      BY <2>1, <3>1, <3>3, TableParts DEF Owners
    <3>. QED
      BY <3>4
  <2>6. CASE r.op \in {"addcol", "dropcol", "dropcon", "addkey", "addidx"}
    <3>1. t = r.table
      <4>1. r.op \in {"addkey", "addidx"} => r.obj \in Objects /\ t \in {r.table, r.obj}
        BY <1>4, <2>1 DEF Locks, Formed
      <4>2. r.op \notin {"addkey", "addidx"} => t \in {r.table}
        BY <1>4, <2>6 DEF Locks
      <4>. QED
        BY <2>1, <4>1, <4>2
    <3>2. db[t] \in Table
      BY <2>1, <2>6, <3>1, FaultlessThere
    <3>3. e[t].idx \cup e[t].keys \subseteq db[t].idx \cup db[t].keys
                                         \cup (IF r.op \in {"addkey", "addidx"} THEN {r.obj} ELSE {})
      <4>1. CASE r.op = "addcol"
        BY <2>1, <3>1, <3>2, <4>1 DEF Effects, Schema, Table
      <4>2. CASE r.op = "dropcol"
        <5>1. PICK gone \in SUBSET Objects : e = [db EXCEPT ![t] = Without(db[t], r.col, gone)]
          BY <2>1, <3>1, <4>2 DEF Effects
        <5>2. e[t] = Without(db[t], r.col, gone)
          BY <2>1, <5>1 DEF Schema
        <5>. QED
          BY <5>2 DEF Without
      <4>3. CASE r.op = "dropcon"
        BY <2>1, <3>1, <3>2, <4>3 DEF Effects, Schema, Table
      <4>4. CASE r.op = "addkey"
        BY <2>1, <3>1, <3>2, <4>4 DEF Effects, Schema, Table
      <4>5. CASE r.op = "addidx"
        BY <2>1, <3>1, <3>2, <4>5 DEF Effects, Schema, Table
      <4>. QED
        BY <2>6, <4>1, <4>2, <4>3, <4>4, <4>5
    <3>4. r.op \in {"addkey", "addidx"} => Owners(r.obj, db) = {}
      BY <2>1 DEF Fault, Exists
    <3>. QED
      BY <2>1, <3>2, <3>3, <3>4, TableParts DEF Owners
  <2>7. CASE r.op = "dropidx"
    <3>1. t \in Owners(r.obj, db) /\ e[t] = [db[t] EXCEPT !.idx = @ \ {r.obj}]
      BY <1>4, <2>1, <2>7 DEF Effects, Locks
    <3>2. db[t] \in Table
      BY <2>1, <3>1, TableThere DEF Owners
    <3>3. e[t].idx \subseteq db[t].idx /\ e[t].keys = db[t].keys
      BY <3>1, <3>2 DEF Table
    <3>4. t \in Owners(n, db)
      BY <2>1, <3>2, <3>3, TableParts DEF Owners
    <3>. QED
      BY <3>4
  <2>. QED
    BY <1>4, <2>2, <2>3, <2>4, <2>5, <2>6, <2>7, RequestParts
<1>. QED
  BY <1>1, <1>2, <1>3, <1>4

-----------------------------------------------------------------------------
(* What a transaction has done so far, whatever others committed meanwhile *)

\* r: the thread, v: its view, db: what is committed.
Sofar(r, v, db) ==
    LET q == r.ask IN
    /\ r.todo = <<>> =>
         v \in Atomic!Whole(q, db) /\ (q.op # "get" => Locks(q, db) \subseteq r.held)
    /\ r.todo # <<>> /\ q.op = "alter" =>
         \E A \in SUBSET Attrs :
            /\ r.todo = Rest(q, A)
            /\ \/ A = {} /\ v = db
               \/ q.table \in r.held /\ Alterable(q, db) /\ v = Part(q, A, db)
    /\ r.todo # <<>> /\ q.op # "alter" =>
         v = db /\ (r.todo = Stmts(q) \/ (q.op = "get" /\ r.todo = Tail(Stmts(q))))

Progress(c) ==
    /\ req[c].pc = "queue" => req[c].todo = Stmts(req[c].ask) /\ req[c].todo # <<>>
    /\ req[c].pc = "run" /\ Alive(c) => Sofar(req[c], Overlay(req[c].held, req[c].work, schema), schema)

IInv == TypeOK /\ \A c \in Clients : Progress(c)

LEMMA ViewIs == \A c : View(c) = Overlay(req[c].held, req[c].work, schema)
  BY DEF View, Overlay

\* A thread that does nothing, while nothing is committed.
LEMMA StillProgress ==
    ASSUME NEW c, Progress(c), req'[c] = req[c], schema' = schema,
           req[c].pc = "run" /\ conn'[req[c].conn] # "dead" => conn[req[c].conn] # "dead"
    PROVE  Progress(c)'
  BY DEF Progress, Alive

LEMMA OutsideProgress ==
    ASSUME NEW c, req'[c].pc \notin {"queue", "run"}
    PROVE  Progress(c)'
  BY DEF Progress

LEMMA ActiveServerProgress ==
    ASSUME TypeOK, NEW c \in Clients, ActiveServer(c)
    PROVE  Progress(c)'
<1>0. req \in [Clients -> Thread]
  BY TypeOKParts DEF ReqsFit
<1>1. CASE \E code : Answer(c, code)
  BY <1>0, <1>1, IdleFits, OutsideProgress DEF Answer, Become
<1>2. CASE Become(c, [req[c] EXCEPT !.pc = "queue", !.todo = Stmts(req[c].ask)]) /\ Stmts(req[c].ask) # <<>>
  <2>. DEFINE r == [req[c] EXCEPT !.pc = "queue", !.todo = Stmts(req[c].ask)]
  <2>1. req'[c] = r /\ req[c] \in Thread
    BY <1>0, <1>2 DEF Become
  <2>2. r.pc = "queue" /\ r.todo = Stmts(req[c].ask) /\ r.ask = req[c].ask
    BY <2>1 DEF Thread
  <2>. HIDE DEF r
  <2>. QED
    BY <1>2, <2>1, <2>2 DEF Progress
<1>. QED
  BY <1>1, <1>2 DEF ActiveServer

LEMMA BorrowProgress ==
    ASSUME IInv, NEW c \in Clients, Borrow(c)
    PROVE  Progress(c)'
<1>1. PICK i : Become(c, [req[c] EXCEPT !.pc = "run", !.conn = i])
  BY DEF Borrow
<1>. DEFINE r == [req[c] EXCEPT !.pc = "run", !.conn = i]
<1>2. req \in [Clients -> Thread] /\ req[c].held = {} /\ req[c].pc = "queue" /\ schema \in Schema
      /\ req[c].ask \in Requests
  BY TypeOKParts DEF ReqsFit, Fits, Borrow, ConnsFit, IInv
<1>3. req[c].todo = Stmts(req[c].ask) /\ req[c].todo # <<>>
  BY <1>2 DEF IInv, Progress
<1>4. req'[c] = r /\ schema' = schema
  BY <1>1, <1>2 DEF Become, Borrow
<1>5. r.pc = "run" /\ r.todo = req[c].todo /\ r.ask = req[c].ask /\ r.held = {}
  BY <1>2 DEF Thread
<1>. HIDE DEF r
<1>6. Overlay(r.held, r.work, schema) = schema
  BY <1>2, <1>5 DEF Overlay, Schema
<1>7. r.ask.op = "alter" => r.todo = Rest(r.ask, {})
  BY <1>3, <1>5, RestAtFirst
<1>8. Sofar(r, schema, schema)
  BY <1>3, <1>5, <1>7 DEF Sofar
<1>. QED
  BY <1>4, <1>5, <1>6, <1>8 DEF Progress

LEMMA LockProgress ==
    ASSUME IInv, NEW c \in Clients, Lock(c)
    PROVE  Progress(c)'
<1>. DEFINE n == Wanted(c)
            work == IF n \in Tables THEN [req[c].work EXCEPT ![n] = schema[n]] ELSE req[c].work
            r == [req[c] EXCEPT !.held = req[c].held \cup {n}, !.work = work]
<1>0. TypeOK /\ Waiting(c)
  BY DEF IInv, Lock
<1>1. Become(c, r) /\ schema' = schema
  BY DEF Lock
<1>2. req \in [Clients -> Thread] /\ n \notin req[c].held
  BY <1>0, TypeOKParts, WantedFits DEF ReqsFit, Awaits
<1>3. req[c].work \in [Tables -> Table \cup {Absent}]
  BY <1>2 DEF Thread, Schema
<1>. HIDE DEF n
<1>4. \A t \in Tables : t \in req[c].held \cup {n} =>
         work[t] = IF t \in req[c].held THEN req[c].work[t] ELSE schema[t]
  BY <1>2, <1>3
<1>. HIDE DEF work
<1>5. req'[c] = r /\ r.todo = req[c].todo /\ r.ask = req[c].ask /\ r.held = req[c].held \cup {n}
      /\ r.work = work
  BY <1>1, <1>2 DEF Become, Thread
<1>. HIDE DEF r
<1>6. Overlay(r.held, r.work, schema) = Overlay(req[c].held, req[c].work, schema)
  BY <1>4, <1>5 DEF Overlay
<1>7. Sofar(req[c], Overlay(req[c].held, req[c].work, schema), schema)
  BY <1>0 DEF IInv, Progress, Waiting, Running
<1>8. Sofar(r, Overlay(r.held, r.work, schema), schema)
  BY <1>5, <1>6, <1>7 DEF Sofar
<1>9. req[c].pc = "run" /\ r.pc = "run"
  BY <1>0, <1>2 DEF Waiting, Running, r, Thread
<1>. QED
  BY <1>1, <1>5, <1>8, <1>9 DEF Progress

\* The statement that is executed is one of what is committed and done so far.
LEMMA ReadyStmt ==
    ASSUME TypeOK, NEW c \in Clients, Ready(c)
    PROVE  /\ Stmt(c) \in Statements /\ View(c) \in Schema
           /\ Fault(Stmt(c), View(c)) = {} /\ Locks(Stmt(c), View(c)) \subseteq req[c].held
           /\ req[c].pc = "run" /\ Alive(c) /\ req[c].todo # <<>>
<1>1. Refusal(c) = {} /\ Awaits(c) = {} /\ req[c].pc = "run" /\ Alive(c) /\ req[c].todo # <<>>
  BY DEF Ready, Running
<1>2. Fault(Stmt(c), View(c)) = {}
  BY <1>1 DEF Refusal
<1>3. Locks(Stmt(c), View(c)) \subseteq req[c].held
  BY <1>1 DEF Awaits
<1>. QED
  BY <1>1, <1>2, <1>3, StmtFits, ViewFits

LEMMA ExecuteSofar ==
    ASSUME NEW q \in Requests, NEW db \in Schema, NEW v \in Schema, NEW r, r.ask = q,
           r.todo # <<>>, Sofar(r, v, db),
           Fault(Head(r.todo), v) = {}, Locks(Head(r.todo), v) \subseteq r.held,
           NEW e \in Effects(Head(r.todo), v),
           NEW r2, r2.ask = q, r2.held = r.held, r2.todo = Tail(r.todo)
    PROVE  Sofar(r2, e, db)
<1>. DEFINE s == Head(r.todo)
<1>1. CASE q.op \notin {"alter", "get"}
  <2>1. v = db /\ r.todo = <<q>>
    BY <1>1 DEF Sofar, Stmts
  <2>2. s = q /\ r2.todo = <<>>
    BY <2>1
  <2>3. e \in Atomic!Whole(q, db)
    <3>1. CASE q.op = "session"
      BY <2>1, <2>2, <3>1, WholeIs DEF Effects
    <3>2. CASE q.op # "session"
      BY <1>1, <2>1, <2>2, <3>2, WholeIs
    <3>. QED
      BY <3>1, <3>2
  <2>. QED
    BY <2>1, <2>2, <2>3 DEF Sofar
<1>2. CASE q.op = "get"
  <2>. DEFINE s1 == [q EXCEPT !.op = "columns"]
              s2 == [q EXCEPT !.op = "parts"]
  <2>1. s1.op = "columns" /\ s2.op = "parts"
    BY DEF Requests, Forms
  <2>2. v = db /\ Stmts(q) = <<s1, s2>> /\ (r.todo = Stmts(q) \/ r.todo = Tail(Stmts(q)))
    BY <1>2 DEF Sofar, Stmts
  <2>. HIDE DEF s1, s2
  <2>a. /\ Head(<<s1, s2>>) = s1 /\ Tail(<<s1, s2>>) = <<s2>>
        /\ Head(<<s2>>) = s2 /\ Tail(<<s2>>) = <<>>
    OBVIOUS
  <2>3. s \in {s1, s2} /\ r2.todo \in {<<s2>>, <<>>} /\ Tail(Stmts(q)) = <<s2>>
    BY <2>2, <2>a
  <2>4. e = db
    BY <2>1, <2>2, <2>3 DEF Effects
  <2>5. e \in Atomic!Whole(q, db)
    BY <1>2, <2>4, WholeIs
  <2>. QED
    BY <1>2, <2>3, <2>4, <2>5 DEF Sofar
<1>3. CASE q.op = "alter"
  <2>1. PICK A \in SUBSET Attrs :
          /\ r.todo = Rest(q, A)
          /\ \/ A = {} /\ v = db
             \/ q.table \in r.held /\ Alterable(q, db) /\ v = Part(q, A, db)
    BY <1>3 DEF Sofar
  <2>b. \/ \E a \in Attrs \ A : /\ q.set[a] # Null /\ s = SetOf(q, a)
                              /\ r2.todo = Rest(q, A \cup {a})
        \/ /\ \A a \in Attrs \ A : q.set[a] = Null
           /\ q.to # Null /\ s = RenameOf(q) /\ r2.todo = <<>>
    <3>1. r2.todo = Tail(Rest(q, A)) /\ s = Head(Rest(q, A)) /\ Rest(q, A) # <<>>
      BY <2>1
    <3>. HIDE DEF s
    <3>. QED
      BY <1>3, <3>1, RestNext
  <2>. HIDE DEF s
  <2>2. s.op \in {"set", "renamecol"} /\ s.table = q.table /\ s.col = q.col /\ s.to = q.to /\ s \in Statements
    <3>1. ASSUME NEW a \in Attrs, q.set[a] # Null, s = SetOf(q, a)
          PROVE  s \in Statements /\ s.op = "set" /\ s.table = q.table /\ s.col = q.col /\ s.to = q.to
      <4>1. s \in Statements
        BY <1>3, <3>1, SetStmtFits DEF SetOf
      <4>. QED
        BY <3>1, <4>1 DEF SetOf, Requests, Forms
    <3>2. CASE q.to # Null /\ s = RenameOf(q)
      BY <1>3, <3>2, RenameStmtFits DEF RenameOf, Requests, Forms
    <3>. QED
      BY <2>b, <3>1, <3>2
  <2>3. q.table \in r.held
    BY <2>2 DEF Locks, s
  <2>4. Alterable(q, v)
    BY <1>3, <2>2, FaultlessThere DEF Alterable, s
  <2>5. Alterable(q, db) /\ v = Part(q, A, db)
    BY <2>1, <2>4, PartNone
  <2>6. Locks(q, db) \subseteq r.held
    BY <1>3, <2>3 DEF Locks
  <2>7. ASSUME NEW B \in SUBSET Attrs, \A a \in Attrs \ B : q.set[a] = Null,
               q.to \notin DOMAIN db[q.table].cols, e = Atomic!Changed(q, db), r2.todo = <<>>
        PROVE  Sofar(r2, e, db)
    <3>1. Atomic!Changeable(q, db)
      BY <1>3, <2>5, <2>7, ChangedIs
    <3>2. e \in Atomic!Whole(q, db)
      BY <1>3, <2>7, <3>1, WholeIs
    <3>. QED
      BY <1>3, <2>6, <2>7, <3>2 DEF Sofar
  <2>8. CASE \E a \in Attrs \ A : /\ q.set[a] # Null /\ s = SetOf(q, a)
                                 /\ r2.todo = Rest(q, A \cup {a})
    <3>1. PICK a \in Attrs \ A : q.set[a] # Null /\ s = SetOf(q, a) /\ r2.todo = Rest(q, A \cup {a})
      BY <2>8
    <3>. DEFINE B == A \cup {a}
    <3>2. e = Part(q, B, db) /\ B \in SUBSET Attrs
      BY <2>5, <3>1, PartSet DEF s
    <3>3. CASE r2.todo # <<>>
      BY <1>3, <2>3, <2>5, <3>1, <3>2, <3>3 DEF Sofar
    <3>4. CASE r2.todo = <<>>
      <4>1. (\A x \in Attrs \ B : q.set[x] = Null) /\ q.to = Null
        BY <1>3, <3>1, <3>2, <3>4, RestNext
      <4>2. e = Atomic!Changed(q, db)
        BY <2>5, <3>2, <4>1, PartLast
      <4>3. q.to \notin DOMAIN db[q.table].cols
        BY <2>5, <4>1, TableParts DEF Alterable
      <4>. QED
        BY <2>7, <3>2, <3>4, <4>1, <4>2, <4>3
    <3>. QED
      BY <3>3, <3>4
  <2>9. CASE /\ \A a \in Attrs \ A : q.set[a] = Null
             /\ q.to # Null /\ s = RenameOf(q) /\ r2.todo = <<>>
    <3>1. e = Atomic!Changed(q, db)
      BY <2>5, <2>9, PartLast DEF s
    <3>2. s.op = "renamecol"
      BY <2>9 DEF RenameOf, Requests, Forms
    <3>3. q.to \notin DOMAIN v[q.table].cols
      BY <2>2, <3>2 DEF Fault, Exists, s
    <3>4. DOMAIN v[q.table].cols = DOMAIN db[q.table].cols
      <4>1. v[q.table].cols = PartCols(q, A, db[q.table].cols)
        BY <2>5, PartFits
      <4>2. DOMAIN PartCols(q, A, db[q.table].cols) = DOMAIN db[q.table].cols
        BY <2>5, PartFits
      <4>. QED
        BY <4>1, <4>2
    <3>. QED
      BY <2>7, <2>9, <3>1, <3>3, <3>4
  <2>. QED
    BY <2>b, <2>8, <2>9
<1>. QED
  BY <1>1, <1>2, <1>3

LEMMA ExecuteProgress ==
    ASSUME IInv, NEW c \in Clients, Execute(c)
    PROVE  Progress(c)'
<1>. DEFINE v == Overlay(req[c].held, req[c].work, schema)
<1>0. TypeOK /\ Ready(c) /\ v = View(c)
  BY ViewIs DEF IInv, Execute
<1>1. PICK e \in Effects(Stmt(c), View(c)) :
        Become(c, [req[c] EXCEPT !.todo = Tail(@),
                     !.work = [t \in Tables |-> IF t \in req[c].held THEN e[t] ELSE Absent]])
  BY DEF Execute
<1>. DEFINE work == [t \in Tables |-> IF t \in req[c].held THEN e[t] ELSE Absent]
            r == [req[c] EXCEPT !.todo = Tail(req[c].todo), !.work = work]
<1>2. /\ req \in [Clients -> Thread] /\ req[c].pc = "run" /\ Alive(c) /\ req[c].todo # <<>>
      /\ v \in Schema /\ schema \in Schema /\ req[c].ask \in Requests
  BY <1>0, ReadyStmt, TypeOKParts DEF ReqsFit, Fits, ConnsFit
<1>3. req'[c] = r /\ schema' = schema
  BY <1>1, <1>2 DEF Become, Execute
<1>4. r.todo = Tail(req[c].todo) /\ r.ask = req[c].ask /\ r.held = req[c].held /\ r.work = work /\ r.pc = "run"
  <2>. HIDE DEF work
  <2>. QED
    BY <1>2 DEF Thread
<1>5. /\ Stmt(c) \in Statements /\ Fault(Stmt(c), v) = {} /\ Locks(Stmt(c), v) \subseteq req[c].held
      /\ e \in Effects(Stmt(c), v)
  BY <1>0, <1>1, ReadyStmt
<1>6. Overlay(r.held, r.work, schema) = e
  <2>1. e \in Schema
    BY <1>2, <1>5, EffectsFit
  <2>2. \A t \in Tables : t \notin req[c].held => e[t] = v[t] /\ v[t] = schema[t]
    BY <1>2, <1>5, EffectsOff DEF Overlay
  <2>. HIDE DEF r, v
  <2>. QED
    BY <1>4, <2>1, <2>2 DEF Overlay, Schema
<1>7. Sofar(req[c], v, schema)
  BY <1>2 DEF IInv, Progress
<1>. HIDE DEF r, v
<1>8. Sofar(r, e, schema)
  BY <1>2, <1>4, <1>5, <1>7, ExecuteSofar DEF Stmt
<1>. QED
  BY <1>3, <1>4, <1>6, <1>8 DEF Progress

(* What another transaction commits leaves what this one holds, so that    *)
(* this one's work still is what its request makes of the tables.          *)
LEMMA CommitSofar ==
    ASSUME NEW p \in Requests, NEW G, NEW db \in Schema, NEW db2 \in Atomic!Whole(p, db),
           db2 \in Schema, p.op # "get" => Locks(p, db) \subseteq G,
           NEW r, r.ask \in Requests, r.held \cap G = {},
           NEW work, Sofar(r, Overlay(r.held, work, db), db)
    PROVE  Sofar(r, Overlay(r.held, work, db2), db2)
<1>. DEFINE q == r.ask
            H == r.held
            v == Overlay(H, work, db)
            v2 == Overlay(H, work, db2)
<1>0. Sofar(r, v, db)
  OBVIOUS
<1>1. SameOn(H, db, db2)
  <2>1. CASE p.op = "get"
    BY <2>1, WholeIs DEF SameOn
  <2>2. CASE p.op # "get"
    BY <2>2, WholeOff DEF SameOn
  <2>. QED
    BY <2>1, <2>2
<1>2. \A t \in Tables : v[t] = (IF t \in H THEN work[t] ELSE db[t])
                      /\ v2[t] = (IF t \in H THEN work[t] ELSE db2[t])
  BY DEF Overlay
<1>3. v2 = Overlay(H, v, db2)
  BY <1>2 DEF Overlay
<1>4. v = db => v2 = db2
  BY <1>1, <1>2 DEF SameOn, Overlay, Schema
<1>. HIDE DEF v, v2
<1>5. CASE r.todo = <<>>
  <2>1. v \in Atomic!Whole(q, db)
    BY <1>0, <1>5 DEF Sofar
  <2>2. CASE q.op = "get"
    <3>1. v = db /\ Atomic!Whole(q, db2) = {db2}
      BY <2>1, <2>2, WholeIs
    <3>2. v2 \in Atomic!Whole(q, db2)
      BY <1>4, <3>1
    <3>. QED
      BY <1>5, <2>2, <3>2 DEF Sofar, v2
  <2>3. CASE q.op # "get"
    <3>1. Locks(q, db) \subseteq H
      BY <1>0, <1>5, <2>3 DEF Sofar
    <3>2. ASSUME q.op \in {"addkey", "addidx"}
          PROVE  Owners(q.obj, db2) = {}
      <4>1. q.obj \in Objects /\ q.obj \in H
        BY <3>1, <3>2, RequestParts DEF Formed, Locks
      <4>2. Fault(q, db) = {}
        BY <2>1, <3>2, WholeIs
      <4>3. Owners(q.obj, db) = {}
        BY <3>2, <4>2 DEF Fault, Exists
      <4>4. ~(p.op \in {"addkey", "addidx"} /\ q.obj = p.obj)
        BY <4>1 DEF Locks
      <4>. QED
        BY <4>1, <4>3, <4>4, OwnersOf
    <3>3. ASSUME q.op = "dropidx"
          PROVE  Owners(q.obj, db2) = Owners(q.obj, db)
      <4>1. q.obj \in Objects /\ Owners(q.obj, db) \subseteq H
        BY <3>1, <3>3, RequestParts DEF Formed, Locks
      <4>2. Fault(q, db) = {}
        BY <2>1, <3>3, WholeIs
      <4>3. Owners(q.obj, db) # {}
        BY <3>3, <4>2 DEF Fault, NoObject
      <4>4. ASSUME NEW t \in Owners(q.obj, db2) PROVE t \in Owners(q.obj, db)
        <5>1. p.op = "get" => db2 = db
          BY WholeIs
        <5>2. ASSUME p.op # "get", NEW u \in Owners(q.obj, db), u \in Locks(p, db) PROVE FALSE
          BY <4>1, <5>2
        <5>. QED
          BY <4>1, <4>3, <4>4, <5>1, <5>2, OwnersOf
      <4>5. \A t \in Owners(q.obj, db) : t \in Tables /\ db2[t] = db[t]
        BY <1>1, <4>1 DEF SameOn, Owners
      <4>6. \A t \in Owners(q.obj, db) : t \in Owners(q.obj, db2)
        BY <4>5 DEF Owners
      <4>. QED
        BY <4>4, <4>6
    <3>4. v2 \in Atomic!Whole(q, db2)
      BY <1>1, <1>3, <2>1, <2>3, <3>1, <3>2, <3>3, WholeAgrees
    <3>5. Locks(q, db2) = Locks(q, db)
      BY <3>3 DEF Locks
    <3>. QED
      BY <1>5, <3>1, <3>4, <3>5 DEF Sofar, v2
  <2>. QED
    BY <2>2, <2>3
<1>6. CASE r.todo # <<>> /\ q.op # "alter"
  BY <1>0, <1>4, <1>6 DEF Sofar, v2
<1>7. CASE r.todo # <<>> /\ q.op = "alter"
  <2>1. PICK A \in SUBSET Attrs :
          /\ r.todo = Rest(q, A)
          /\ \/ A = {} /\ v = db
             \/ q.table \in H /\ Alterable(q, db) /\ v = Part(q, A, db)
    BY <1>0, <1>7 DEF Sofar
  <2>2. CASE A = {} /\ v = db
    BY <1>4, <1>7, <2>1, <2>2 DEF Sofar, v2
  <2>3. CASE q.table \in H /\ Alterable(q, db) /\ v = Part(q, A, db)
    <3>1. q.table \in Tables /\ db2[q.table] = db[q.table]
      BY <1>1, <2>3 DEF SameOn, Alterable
    <3>2. Alterable(q, db2)
      BY <2>3, <3>1 DEF Alterable
    <3>3. v2 = Part(q, A, db2)
      <4>. DEFINE new == [db[q.table] EXCEPT !.cols = PartCols(q, A, db[q.table].cols)]
      <4>1. v = [db EXCEPT ![q.table] = new] /\ Part(q, A, db2) = [db2 EXCEPT ![q.table] = new]
        BY <2>3, <3>1 DEF Part
      <4>. HIDE DEF new
      <4>2. \A t \in Tables : v[t] = IF t = q.table THEN new ELSE db[t]
        BY <4>1 DEF Schema
      <4>3. \A t \in Tables : t \in H => db2[t] = db[t]
        BY <1>1 DEF SameOn
      <4>4. v2 = [t \in Tables |-> IF t \in H THEN v[t] ELSE db2[t]]
        BY <1>3 DEF Overlay
      <4>5. [db2 EXCEPT ![q.table] = new] = [t \in Tables |-> IF t = q.table THEN new ELSE db2[t]]
        BY DEF Schema
      <4>6. \A t \in Tables : (IF t \in H THEN v[t] ELSE db2[t]) = (IF t = q.table THEN new ELSE db2[t])
        BY <2>3, <4>2, <4>3
      <4>. QED
        BY <4>1, <4>4, <4>5, <4>6
    <3>. QED
      BY <1>7, <2>1, <2>3, <3>2, <3>3 DEF Sofar, v2
  <2>. QED
    BY <2>1, <2>2, <2>3
<1>. QED
  BY <1>5, <1>6, <1>7 DEF v2

LEMMA CommitProgress ==
    ASSUME IInv, NEW d \in Clients, Commit(d), NEW c \in Clients
    PROVE  Progress(c)'
<1>. DEFINE db2 == Overlay(req[d].held, req[d].work, schema)
<1>1. /\ TypeOK /\ req \in [Clients -> Thread] /\ schema \in Schema /\ schema' = db2
      /\ req[d].pc = "run" /\ Alive(d) /\ req[d].todo = <<>>
  BY ViewIs, TypeOKParts DEF IInv, ReqsFit, ConnsFit, Commit, Committed
<1>2. CASE c = d
  BY <1>1, <1>2, IdleFits, OutsideProgress DEF Commit, Answer, Become
<1>3. CASE c # d
  <2>1. req'[c] = req[c]
    BY <1>1, <1>3 DEF Commit, Answer, Become
  <2>2. req[c].pc = "queue" => Progress(c)'
    BY <2>1 DEF IInv, Progress
  <2>3. ASSUME req[c].pc = "run", conn'[req[c].conn] # "dead" PROVE Progress(c)'
    <3>1. conn \in [Conns -> {"closed", "lent", "public", "elsewhere", "dead"}]
          /\ req[c].conn \in Conns /\ req[d].conn # req[c].conn
      BY <1>1, <1>3, <2>3, TypeOKParts DEF ReqsFit, ConnsFit
    <3>2. Alive(c)
      BY <2>3, <3>1 DEF Commit, Alive
    <3>3. Sofar(req[c], Overlay(req[c].held, req[c].work, schema), schema)
          /\ Sofar(req[d], db2, schema)
      BY <1>1, <2>3, <3>2 DEF IInv, Progress
    <3>4. req[c].ask \in Requests /\ req[d].ask \in Requests /\ req[c].held \cap req[d].held = {}
      BY <1>1, <1>3, <2>3, TypeOKParts DEF ReqsFit, Fits
    <3>5. db2 \in Schema
      BY <1>1, ViewFits, ViewIs
    <3>6. db2 \in Atomic!Whole(req[d].ask, schema)
          /\ (req[d].ask.op # "get" => Locks(req[d].ask, schema) \subseteq req[d].held)
      BY <1>1, <3>3 DEF Sofar
    <3>. HIDE DEF db2
    <3>8. Sofar(req[c], Overlay(req[c].held, req[c].work, db2), db2)
      <4>1. PICK p, G, r, work, db, e :
              p = req[d].ask /\ G = req[d].held /\ r = req[c] /\ work = req[c].work /\ db = schema /\ e = db2
        OBVIOUS
      <4>2. /\ p \in Requests /\ db \in Schema /\ e \in Atomic!Whole(p, db) /\ e \in Schema
            /\ (p.op # "get" => Locks(p, db) \subseteq G)
            /\ r.ask \in Requests /\ r.held \cap G = {} /\ Sofar(r, Overlay(r.held, work, db), db)
        BY <1>1, <3>3, <3>4, <3>5, <3>6, <4>1
      <4>3. Sofar(r, Overlay(r.held, work, e), e)
        BY <4>2, CommitSofar
      <4>. QED
        BY <4>1, <4>3
    <3>. QED
      BY <1>1, <2>1, <2>3, <3>8 DEF Progress
  <2>4. CASE req[c].pc \notin {"queue", "run"}
    BY <2>1, <2>4, OutsideProgress
  <2>5. CASE req[c].pc = "run" /\ conn'[req[c].conn] = "dead"
    BY <2>1, <2>5 DEF Progress, Alive
  <2>. QED
    BY <2>2, <2>3, <2>4, <2>5
<1>. QED
  BY <1>2, <1>3

LEMMA OthersProgress ==
    ASSUME IInv, DropDatabase \/ CreateDatabase \/ (\E i \in Conns : Returned(i)), NEW c \in Clients
    PROVE  Progress(c)'
<1>1. req' = req /\ ReqsFit /\ ConnsFit /\ Progress(c)
  BY TypeOKParts DEF IInv, DropDatabase, CreateDatabase, Returned
<1>2. CASE DropDatabase
  <2>1. req[c].pc = "run" => conn'[req[c].conn] = "dead"
    BY <1>1, <1>2 DEF DropDatabase, ReqsFit
  <2>. QED
    BY <1>1, <2>1 DEF Progress, Alive
<1>3. CASE CreateDatabase
  BY <1>1, <1>3, StillProgress DEF CreateDatabase
<1>4. ASSUME NEW i \in Conns, Returned(i) PROVE Progress(c)'
  <2>1. req[c].pc = "run" => req[c].conn # i
    BY <1>1, <1>4 DEF Returned, ReqsFit
  <2>2. req[c].pc = "run" => conn'[req[c].conn] = conn[req[c].conn]
    BY <1>1, <1>4, <2>1 DEF Returned, ReqsFit, ConnsFit
  <2>. QED
    BY <1>1, <1>4, <2>2, StillProgress DEF Returned
<1>. QED
  BY <1>2, <1>3, <1>4

\* A thread that ends its request.
LEMMA EndedProgress ==
    ASSUME TypeOK, NEW c \in Clients, NEW code, Answer(c, code)
    PROVE  Progress(c)'
<1>1. req'[c] = Idle
  BY TypeOKParts DEF Answer, Become, ReqsFit
<1>2. Idle.pc = "idle"
  BY IdleFits
<1>. QED
  BY <1>1, <1>2, OutsideProgress

LEMMA SendProgress ==
    ASSUME TypeOK, NEW c \in Clients, Send(c)
    PROVE  Progress(c)'
<1>1. PICK r \in Menu : Become(c, [Idle EXCEPT !.pc = "common", !.ask = r])
  BY DEF Send
<1>. DEFINE s == [Idle EXCEPT !.pc = "common", !.ask = r]
<1>2. req'[c] = s
  BY <1>1, TypeOKParts DEF Become, ReqsFit
<1>3. s.pc = "common"
  BY IdleFits
<1>. HIDE DEF s
<1>. QED
  BY <1>2, <1>3, OutsideProgress

\* The step of one thread, seen from another: only a commit changes its tables,
\* and its connection is its own.
LEMMA ElsewhereProgress ==
    ASSUME IInv, NEW d \in Clients, Send(d) \/ Step(d) \/ Rejected(d), ~Commit(d),
           NEW c \in Clients, c # d
    PROVE  Progress(c)'
<1>1. ReqsFit /\ ConnsFit /\ Progress(c)
  BY TypeOKParts DEF IInv
<1>2. (\E r : Become(d, r)) /\ schema' = schema
  BY DEF Send, Step, Rejected, ActiveServer, CommonTimeout, Borrow, AcquireTimeout, Lock, Execute,
         Refused, Deadlocked, Lost, Answer
<1>3. req'[c] = req[c]
  BY <1>1, <1>2 DEF Become, ReqsFit
<1>4. req[c].pc = "run" => conn'[req[c].conn] = conn[req[c].conn]
  <2>1. CASE Borrow(d)
    <3>1. PICK i \in Lendable : conn' = [conn EXCEPT ![i] = IF @ = "closed" THEN "public" ELSE @]
      BY <2>1 DEF Borrow
    <3>2. i \in Free \/ i \in New
      BY DEF Lendable
    <3>3. req[c].pc = "run" => req[c].conn # i
      BY <1>1, <3>2 DEF Free, New, ReqsFit
    <3>. QED
      BY <1>1, <3>1, <3>3 DEF ReqsFit, ConnsFit
  <2>2. CASE Lost(d)
    <3>1. req[d].pc = "run" /\ conn' = [conn EXCEPT ![req[d].conn] = "closed"]
      BY <2>2 DEF Lost
    <3>. QED
      BY <1>1, <3>1 DEF ReqsFit, ConnsFit
  <2>3. CASE ~Borrow(d) /\ ~Lost(d)
    BY <2>3 DEF Send, Step, Rejected, ActiveServer, CommonTimeout, AcquireTimeout, Lock, Execute,
                Refused, Deadlocked
  <2>. QED
    BY <2>1, <2>2, <2>3
<1>. QED
  BY <1>1, <1>2, <1>3, <1>4, StillProgress

LEMMA InvariantInit == Init => IInv
<1>. SUFFICES ASSUME Init PROVE IInv
  OBVIOUS
<1>1. \A c \in Clients : req[c].pc = "idle"
  BY IdleFits DEF Init
<1>. QED
  BY <1>1, InitTypeOK DEF IInv, Progress

LEMMA InvariantNext == IInv /\ [Next]_vars => IInv'
<1>. SUFFICES ASSUME IInv, [Next]_vars PROVE IInv'
  OBVIOUS
<1>1. TypeOK /\ TypeOK'
  BY NextTypeOK DEF IInv
<1>2. ASSUME NEW c \in Clients PROVE Progress(c)'
  <2>1. CASE UNCHANGED vars
    BY <2>1, StillProgress DEF IInv, vars
  <2>2. CASE DropDatabase \/ CreateDatabase \/ \E i \in Conns : Returned(i)
    BY <2>2, OthersProgress
  <2>3. ASSUME NEW d \in Clients, Send(d) \/ Step(d) \/ Rejected(d) PROVE Progress(c)'
    <3>1. CASE Commit(d)
      BY <3>1, CommitProgress
    <3>2. CASE ~Commit(d) /\ c # d
      BY <2>3, <3>2, ElsewhereProgress
    <3>3. CASE ~Commit(d) /\ c = d
      <4>1. CASE \E code : Answer(c, code)
        BY <1>1, <4>1, EndedProgress
      <4>2. CASE Send(c) \/ ActiveServer(c) \/ Borrow(c) \/ Lock(c) \/ Execute(c)
        BY <1>1, <4>2, SendProgress, ActiveServerProgress, BorrowProgress, LockProgress, ExecuteProgress
      <4>3. CASE CommonTimeout(c) \/ AcquireTimeout(c) \/ Refused(c) \/ Deadlocked(c) \/ Lost(c) \/ Rejected(c)
        BY <4>1, <4>3 DEF CommonTimeout, AcquireTimeout, Refused, Deadlocked, Lost, Rejected
      <4>. QED
        BY <2>3, <3>3, <4>2, <4>3 DEF Step
    <3>. QED
      BY <3>1, <3>2, <3>3
  <2>. QED
    BY <2>1, <2>2, <2>3 DEF Next
<1>. QED
  BY <1>1, <1>2 DEF IInv

LEMMA Invariance == Spec => []IInv
  BY InvariantInit, InvariantNext, PTL DEF Spec

-----------------------------------------------------------------------------
(* What the answers say *)

\* The request as AnswersTell reads it.
Named(r) == IF r.op = "alter" THEN [r EXCEPT !.op = IF r.to = Null THEN "set" ELSE "renamecol"] ELSE r

LEMMA NamedParts ==
    ASSUME NEW r \in Requests
    PROVE  /\ r.op # "alter" => Named(r) = r
           /\ r.op = "alter" => /\ Named(r).op = (IF r.to = Null THEN "set" ELSE "renamecol")
                               /\ Named(r).table = r.table /\ Named(r).col = r.col
                               /\ Named(r).to = r.to
  BY DEF Named, Requests, Forms

\* A statement of a change of a column.
LEMMA AlterStmt ==
    ASSUME NEW q \in Requests, q.op = "alter", NEW A \in SUBSET Attrs, Rest(q, A) # <<>>
    PROVE  LET s == Head(Rest(q, A)) IN
           /\ s.op = "set" \/ (s.op = "renamecol" /\ q.to # Null)
           /\ s.table = q.table /\ s.col = q.col /\ s.to = q.to
<1>1. PICK s : s = Head(Rest(q, A))
  OBVIOUS
<1>2. (\E a \in Attrs : s = SetOf(q, a)) \/ (q.to # Null /\ s = RenameOf(q))
  BY <1>1, RestNext
<1>3. /\ s.op = "set" \/ (s.op = "renamecol" /\ q.to # Null)
      /\ s.table = q.table /\ s.col = q.col /\ s.to = q.to
  <2>1. ASSUME NEW a \in Attrs, s = SetOf(q, a)
        PROVE  s.op = "set" /\ s.table = q.table /\ s.col = q.col /\ s.to = q.to
    BY <2>1 DEF SetOf, Requests, Forms
  <2>2. CASE q.to # Null /\ s = RenameOf(q)
    BY <2>2 DEF RenameOf, Requests, Forms
  <2>. QED
    BY <1>2, <2>1, <2>2
<1>. QED
  BY <1>1, <1>3

LEMMA RefusalTells ==
    ASSUME IInv, NEW c \in Clients, Running(c), NEW code \in Refusal(c)
    PROVE  LET r == req[c].ask
               s == Named(r) IN
           /\ code = 404 => \/ NoTable(s, schema) \/ NoObject(s, schema)
                            \/ r.op = "dropidx" /\ conn[req[c].conn] = "elsewhere"
           /\ code = 409 => ~NoTable(s, schema) /\ Exists(s, schema)
<1>. DEFINE r == req[c].ask
            s == Named(r)
            st == Stmt(c)
            v == View(c)
<1>1. /\ r \in Requests /\ schema \in Schema /\ v \in Schema /\ st \in Statements
      /\ req[c].todo # <<>> /\ st = Head(req[c].todo)
  BY TypeOKParts, ViewFits, StmtFits DEF IInv, ReqsFit, ConnsFit, Fits, Running, Stmt
<1>2. Sofar(req[c], v, schema)
  BY ViewIs DEF IInv, Progress, Running
<1>. DEFINE lost == st.op = "dropidx" /\ conn[req[c].conn] = "elsewhere"
<1>3. \/ code = 404 /\ (lost \/ NoTable(st, v)) /\ st.op # "parts"
      \/ code = 404 /\ NoObject(st, v)
      \/ code = 409 /\ ~NoTable(st, v) /\ Exists(st, v)
      \/ code \notin {404, 409}
  <2>1. CASE lost \/ NoTable(st, v)
    BY <2>1 DEF Refusal
  <2>2. CASE ~(lost \/ NoTable(st, v))
    BY <2>2 DEF Refusal, Fault
  <2>. QED
    BY <2>1, <2>2
<1>. HIDE DEF st, v
<1>4. CASE r.op \notin {"alter", "get"}
  <2>1. st = r /\ v = schema /\ s = r
    BY <1>1, <1>2, <1>4, NamedParts DEF Sofar, Stmts
  <2>. QED
    BY <1>3, <2>1
<1>5. CASE r.op = "get"
  <2>1. v = schema /\ st.op \in {"columns", "parts"} /\ st.table = r.table /\ s = r
    <3>. DEFINE s1 == [r EXCEPT !.op = "columns"]
                s2 == [r EXCEPT !.op = "parts"]
    <3>1. s1.op = "columns" /\ s2.op = "parts" /\ s1.table = r.table /\ s2.table = r.table
      BY <1>1 DEF Requests, Forms
    <3>2. v = schema /\ Stmts(r) = <<s1, s2>> /\ (req[c].todo = Stmts(r) \/ req[c].todo = Tail(Stmts(r)))
      BY <1>1, <1>2, <1>5 DEF Sofar, Stmts
    <3>. HIDE DEF s1, s2
    <3>3. Head(<<s1, s2>>) = s1 /\ Tail(<<s1, s2>>) = <<s2>> /\ Head(<<s2>>) = s2
      OBVIOUS
    <3>4. st \in {s1, s2}
      BY <1>1, <3>2, <3>3
    <3>. QED
      BY <1>1, <1>5, <3>1, <3>2, <3>4, NamedParts
  <2>2. ~NoObject(st, v) /\ ~Exists(st, v) /\ ~lost
    BY <2>1 DEF NoObject, Exists
  <2>3. NoTable(st, v) => NoTable(s, schema)
    BY <1>5, <2>1 DEF NoTable
  <2>. QED
    BY <1>3, <2>2, <2>3
<1>6. CASE r.op = "alter"
  <2>1. PICK A \in SUBSET Attrs :
          /\ req[c].todo = Rest(r, A)
          /\ \/ A = {} /\ v = schema
             \/ r.table \in req[c].held /\ Alterable(r, schema) /\ v = Part(r, A, schema)
    BY <1>1, <1>2, <1>6 DEF Sofar
  <2>2. /\ st.op = "set" \/ (st.op = "renamecol" /\ r.to # Null)
        /\ st.table = r.table /\ st.col = r.col /\ st.to = r.to
    BY <1>1, <1>6, <2>1, AlterStmt
  <2>3. /\ s.op = (IF r.to = Null THEN "set" ELSE "renamecol")
        /\ s.table = r.table /\ s.col = r.col /\ s.to = r.to
    BY <1>1, <1>6, NamedParts
  <2>4. /\ v[r.table] = Absent <=> schema[r.table] = Absent
        /\ DOMAIN v[r.table].cols = DOMAIN schema[r.table].cols
    <3>1. CASE v = schema
      BY <3>1
    <3>2. CASE Alterable(r, schema) /\ v = Part(r, A, schema)
      <4>1. /\ v[r.table].cols = PartCols(r, A, schema[r.table].cols)
            /\ DOMAIN PartCols(r, A, schema[r.table].cols) = DOMAIN schema[r.table].cols
            /\ v[r.table] \in Table /\ schema[r.table] \in Table
        BY <1>1, <3>2, PartFits DEF Alterable
      <4>. QED
        BY <4>1, TableParts
    <3>. QED
      BY <2>1, <3>1, <3>2
  <2>. HIDE DEF s
  <2>5. ~lost /\ (NoTable(st, v) <=> NoTable(s, schema))
    BY <2>2, <2>3, <2>4 DEF NoTable
  <2>6. NoObject(st, v) => NoObject(s, schema)
    BY <2>2, <2>3, <2>4 DEF NoObject
  <2>7. Exists(st, v) => Exists(s, schema)
    BY <2>2, <2>3, <2>4 DEF Exists
  <2>. QED
    BY <1>3, <2>5, <2>6, <2>7 DEF s
<1>. QED
  BY <1>4, <1>5, <1>6

\* Only a statement that is refused is answered with 404 or 409.
LEMMA InsideStaysInside ==
    ASSUME NEW c \in Clients, req \in [Clients -> Thread], req[c].pc = "run", Lock(c) \/ Execute(c)
    PROVE  req'[c].pc = "run" /\ req'[c].ask = req[c].ask
<1>1. CASE Lock(c)
  <2>. DEFINE held == req[c].held \cup {Wanted(c)}
              work == IF Wanted(c) \in Tables THEN [req[c].work EXCEPT ![Wanted(c)] = schema[Wanted(c)]]
                      ELSE req[c].work
  <2>1. Become(c, [req[c] EXCEPT !.held = held, !.work = work])
    BY <1>1 DEF Lock
  <2>. HIDE DEF held, work
  <2>. QED
    BY <2>1 DEF Become, Thread
<1>2. CASE Execute(c)
  <2>. DEFINE work(e) == [t \in Tables |-> IF t \in req[c].held THEN e[t] ELSE Absent]
  <2>1. PICK e : Become(c, [req[c] EXCEPT !.todo = Tail(@), !.work = work(e)])
    BY <1>2 DEF Execute
  <2>. HIDE DEF work
  <2>. QED
    BY <2>1 DEF Become, Thread
<1>. QED
  BY <1>1, <1>2

LEMMA OnlyRefused ==
    ASSUME IInv, Next, NEW c \in Clients, req[c].pc = "run", req'[c].pc = "idle",
           status'[c] \in {404, 409}
    PROVE  Running(c) /\ status'[c] \in Refusal(c)
<1>1. /\ TypeOK /\ req \in [Clients -> Thread]
      /\ status \in [Clients -> {200, 400, 404, 409, 500, 503}]
  BY TypeOKParts DEF IInv, ReqsFit
<1>2. PICK d \in Clients : Send(d) \/ Step(d) \/ Rejected(d)
  BY DEF Next, DropDatabase, CreateDatabase, Returned
<1>3. \E r : Become(d, r)
  <2>1. CASE Send(d) \/ ActiveServer(d) \/ Borrow(d) \/ Lock(d) \/ Execute(d)
    <3>1. CASE Send(d)
      BY <3>1 DEF Send
    <3>2. CASE ActiveServer(d)
      BY <3>2 DEF ActiveServer, Answer
    <3>3. CASE Borrow(d)
      BY <3>3 DEF Borrow
    <3>4. CASE Lock(d)
      BY <3>4 DEF Lock
    <3>5. CASE Execute(d)
      BY <3>5 DEF Execute
    <3>. QED
      BY <2>1, <3>1, <3>2, <3>3, <3>4, <3>5
  <2>2. CASE \/ CommonTimeout(d) \/ AcquireTimeout(d) \/ Refused(d) \/ Rejected(d)
             \/ Deadlocked(d) \/ Lost(d) \/ Commit(d)
    BY <2>2 DEF CommonTimeout, AcquireTimeout, Refused, Rejected, Deadlocked, Lost, Commit, Answer
  <2>. QED
    BY <1>2, <2>1, <2>2 DEF Step
<1>4. d = c
  BY <1>1, <1>3 DEF Become
<1>5. Lock(c) \/ Execute(c) \/ Refused(c) \/ Rejected(c) \/ Deadlocked(c) \/ Lost(c) \/ Commit(c)
  BY <1>2, <1>4 DEF Step, Send, ActiveServer, CommonTimeout, Borrow, AcquireTimeout
<1>6. ~Lock(c) /\ ~Execute(c)
  BY <1>1, InsideStaysInside
<1>7. \A code : Answer(c, code) => status'[c] = code
  BY <1>1 DEF Answer
<1>8. ~Rejected(c) /\ ~Deadlocked(c) /\ ~Lost(c) /\ ~Commit(c)
  BY <1>7 DEF Rejected, Deadlocked, Lost, Commit
<1>. QED
  BY <1>5, <1>6, <1>7, <1>8 DEF Refused

(* A request is answered 404 only when a table, column, constraint or      *)
(* index it names is not there, and 409 only when the name it gives is     *)
(* taken, in what is committed at that moment; an index may also be missed *)
(* over a connection whose search_path the console has changed.            *)
THEOREM AnswersTellAlways == Spec => AnswersTell
<1>1. ASSUME IInv, Next, NEW c \in Clients, req[c].pc = "run", req'[c].pc = "idle"
      PROVE  LET r == req[c].ask
                 s == Named(r) IN
             /\ status'[c] = 404 => \/ NoTable(s, schema) \/ NoObject(s, schema)
                                    \/ r.op = "dropidx" /\ conn[req[c].conn] = "elsewhere"
             /\ status'[c] = 409 => ~NoTable(s, schema) /\ Exists(s, schema)
  BY <1>1, OnlyRefused, RefusalTells
<1>. DEFINE Tell == \A c \in Clients :
              LET r == req[c].ask
                  s == IF r.op = "alter" THEN [r EXCEPT !.op = IF r.to = Null THEN "set" ELSE "renamecol"]
                       ELSE r IN
              req[c].pc = "run" /\ req'[c].pc = "idle" =>
                 /\ status'[c] = 404 =>
                       \/ NoTable(s, schema) \/ NoObject(s, schema)
                       \/ r.op = "dropidx" /\ conn[req[c].conn] = "elsewhere"
                 /\ status'[c] = 409 => ~NoTable(s, schema) /\ Exists(s, schema)
<1>2. IInv /\ Next => Tell
  BY <1>1 DEF Named
<1>. HIDE DEF Tell
<1>3. IInv /\ [Next]_vars => [Tell]_vars
  BY <1>2
<1>4. Spec => [][Tell]_vars
  BY <1>3, Invariance, PTL DEF Spec
<1>. QED
  BY <1>4 DEF AnswersTell, Tell

-----------------------------------------------------------------------------
(* Structure implements AtomicDdl *)

asked == [c \in Clients |-> IF req[c].pc = "idle" THEN Null ELSE req[c].ask]
ok == [c \in Clients |-> status[c] = 200]

LEMMA MappedAnswer ==
    ASSUME TypeOK, NEW c \in Clients, req[c].pc # "idle",
           NEW code \in {200, 400, 404, 409, 500, 503}, Answer(c, code)
    PROVE  Atomic!Answer(c, code = 200)
<1>1. req \in [Clients -> Thread] /\ status \in [Clients -> {200, 400, 404, 409, 500, 503}]
      /\ req[c].ask \in Menu
  BY TypeOKParts DEF ReqsFit, Fits
<1>2. req' = [req EXCEPT ![c] = Idle] /\ status' = [status EXCEPT ![c] = code] /\ Idle.pc = "idle"
  BY IdleFits DEF Answer, Become
<1>3. asked[c] # Null
  BY <1>1 DEF asked
<1>4. \A d \in Clients : asked'[d] = IF d = c THEN Null ELSE asked[d]
  BY <1>1, <1>2 DEF asked
<1>5. asked' = [asked EXCEPT ![c] = Null]
  <2>1. asked' = [d \in Clients |-> asked'[d]] /\ asked = [d \in Clients |-> asked[d]]
    BY DEF asked
  <2>. QED
    BY <1>4, <2>1
<1>6. \A d \in Clients : status'[d] = IF d = c THEN code ELSE status[d]
  BY <1>1, <1>2
<1>7. ok' = [d \in Clients |-> IF d = c THEN code = 200 ELSE status[d] = 200]
  BY <1>6 DEF ok
<1>8. ok' = [ok EXCEPT ![c] = (code = 200)]
  <2>1. ok = [d \in Clients |-> status[d] = 200]
    BY DEF ok
  <2>2. [ok EXCEPT ![c] = (code = 200)] = [d \in Clients |-> IF d = c THEN code = 200 ELSE ok[d]]
    BY <2>1
  <2>3. \A d \in Clients : ok[d] = (status[d] = 200)
    BY <2>1
  <2>. QED
    BY <1>7, <2>2, <2>3
<1>. QED
  BY <1>3, <1>5, <1>8 DEF Atomic!Answer, asked, ok

LEMMA MappedStutter ==
    ASSUME TypeOK, schema' = schema, status' = status,
           \/ req' = req
           \/ \E c \in Clients, r \in Thread : /\ Become(c, r)
                                            /\ req[c].pc # "idle" /\ r.pc # "idle" /\ r.ask = req[c].ask
    PROVE  UNCHANGED Atomic!vars
<1>1. \A d \in Clients : req'[d].pc = "idle" <=> req[d].pc = "idle"
  BY TypeOKParts DEF Become, ReqsFit
<1>2. \A d \in Clients : req[d].pc # "idle" => req'[d].ask = req[d].ask
  BY TypeOKParts DEF Become, ReqsFit
<1>3. asked' = asked /\ ok' = ok
  BY <1>1, <1>2 DEF asked, ok
<1>. QED
  BY <1>3 DEF Atomic!vars, asked, ok

LEMMA MappedSend ==
    ASSUME TypeOK, NEW c \in Clients, Send(c)
    PROVE  Atomic!Send(c)
<1>1. PICK r \in Menu : Become(c, [Idle EXCEPT !.pc = "common", !.ask = r])
  BY DEF Send
<1>. DEFINE s == [Idle EXCEPT !.pc = "common", !.ask = r]
<1>2. s.pc = "common" /\ s.ask = r
  BY DEF Idle
<1>. HIDE DEF s
<1>3. req \in [Clients -> Thread] /\ req' = [req EXCEPT ![c] = s] /\ req[c].pc = "idle"
      /\ schema' = schema /\ status' = status
  BY <1>1, TypeOKParts DEF Become, ReqsFit, Send, s
<1>4. asked[c] = Null /\ \A d \in Clients : asked'[d] = IF d = c THEN r ELSE asked[d]
  BY <1>2, <1>3 DEF asked
<1>5. asked' = [asked EXCEPT ![c] = r] /\ ok' = ok
  BY <1>3, <1>4 DEF asked, ok
<1>. QED
  BY <1>3, <1>4, <1>5 DEF Atomic!Send, asked, ok

\* An error: nothing is changed.
LEMMA MappedFail ==
    ASSUME TypeOK, NEW c \in Clients, req[c].pc # "idle", NEW code \in {400, 404, 409, 500, 503},
           Answer(c, code), schema' = schema
    PROVE  Atomic!Fail(c)
<1>1. Atomic!Answer(c, code = 200) /\ (code = 200) = FALSE
  BY MappedAnswer
<1>2. Atomic!Answer(c, FALSE)
  BY <1>1
<1>. QED
  BY <1>2 DEF Atomic!Fail

\* The commit: the request takes effect as a whole.
LEMMA MappedCommit ==
    ASSUME IInv, NEW c \in Clients, Commit(c)
    PROVE  Atomic!Succeed(c)
<1>1. TypeOK /\ req[c].pc = "run" /\ req[c].todo = <<>> /\ Alive(c) /\ schema' = View(c) /\ Answer(c, 200)
  BY DEF IInv, Commit, Committed
<1>2. View(c) \in Atomic!Whole(req[c].ask, schema)
  BY <1>1, ViewIs DEF IInv, Progress, Sofar
<1>3. Atomic!Answer(c, 200 = 200)
  BY <1>1, MappedAnswer
<1>4. Atomic!Answer(c, TRUE)
  BY <1>3
<1>5. asked[c] = req[c].ask
  BY <1>1 DEF asked
<1>. QED
  BY <1>1, <1>2, <1>4, <1>5 DEF Atomic!Succeed, asked

LEMMA InitMapped == Init => Atomic!Init
<1>. SUFFICES ASSUME Init PROVE Atomic!Init
  OBVIOUS
<1>1. schema \in Schema /\ req = [c \in Clients |-> Idle] /\ status = [c \in Clients |-> 200]
  BY DEF Init
<1>2. asked = [c \in Clients |-> Null] /\ ok = [c \in Clients |-> TRUE]
  BY <1>1, IdleFits DEF asked, ok
<1>. QED
  BY <1>1, <1>2, SameSchema DEF Atomic!Init, asked, ok

LEMMA StepMapped ==
    ASSUME IInv, NEW c \in Clients, Step(c) \/ Rejected(c)
    PROVE  Atomic!Next \/ UNCHANGED Atomic!vars
<1>0. TypeOK /\ ReqsFit /\ req[c] \in Thread
  BY TypeOKParts DEF IInv, ReqsFit
<1>1. ASSUME NEW code \in {400, 404, 409, 500, 503}, Answer(c, code), schema' = schema, req[c].pc # "idle"
      PROVE  Atomic!Next
  BY <1>0, <1>1, MappedFail DEF Atomic!Next
<1>2. CASE CommonTimeout(c) \/ AcquireTimeout(c) \/ Refused(c) \/ Deadlocked(c) \/ Lost(c) \/ Rejected(c)
  <2>1. PICK code \in {400, 404, 409, 500, 503} : Answer(c, code) /\ schema' = schema /\ req[c].pc # "idle"
    BY <1>2, RefusalCodes DEF CommonTimeout, AcquireTimeout, Refused, Deadlocked, Lost, Rejected, Waiting,
                              Ready, Running
  <2>. QED
    BY <1>1, <2>1
<1>3. CASE Commit(c)
  BY <1>3, MappedCommit DEF Atomic!Next
<1>4. CASE ActiveServer(c) /\ ~\E code \in {400, 503} : Answer(c, code)
  <2>. DEFINE r == [req[c] EXCEPT !.pc = "queue", !.todo = Stmts(req[c].ask)]
  <2>1. /\ Become(c, r) /\ schema' = schema /\ status' = status /\ req[c].pc = "common"
    BY <1>4 DEF ActiveServer
  <2>2. Stmts(req[c].ask) \in Seq(Statements)
    BY <1>0, <2>1, StmtsFit DEF ReqsFit, Fits
  <2>3. r \in Thread /\ r.pc = "queue" /\ r.ask = req[c].ask
    BY <1>0, <2>2 DEF Thread
  <2>. HIDE DEF r
  <2>. QED
    BY <1>0, <2>1, <2>3, MappedStutter
<1>5. CASE ActiveServer(c) /\ \E code \in {400, 503} : Answer(c, code)
  BY <1>1, <1>5 DEF ActiveServer
<1>6. CASE Borrow(c) \/ Lock(c) \/ Execute(c)
  <2>1. TypeOK' /\ schema' = schema /\ status' = status /\ (\E r : Become(c, r))
        /\ req[c].pc \in {"queue", "run"}
    BY <1>0, <1>6, BorrowFits, LockFits, ExecuteFits DEF Borrow, Lock, Execute, Waiting, Ready, Running
  <2>2. req'[c] \in Thread /\ Become(c, req'[c])
    BY <1>0, <2>1, TypeOKParts DEF Become, ReqsFit
  <2>3. req'[c].pc # "idle" /\ req'[c].ask = req[c].ask
    <3>1. CASE Borrow(c)
      <4>1. PICK i : Become(c, [req[c] EXCEPT !.pc = "run", !.conn = i])
        BY <3>1 DEF Borrow
      <4>. QED
        BY <1>0, <4>1 DEF Become, ReqsFit, Thread
    <3>2. CASE Lock(c) \/ Execute(c)
      <4>1. req[c].pc = "run" /\ req \in [Clients -> Thread]
        BY <1>0, <3>2 DEF ReqsFit, Lock, Execute, Waiting, Ready, Running
      <4>. QED
        BY <3>2, <4>1, InsideStaysInside
    <3>. QED
      BY <1>6, <3>1, <3>2
  <2>. QED
    BY <1>0, <2>1, <2>2, <2>3, MappedStutter
<1>. QED
  BY <1>2, <1>3, <1>4, <1>5, <1>6 DEF Step

LEMMA NextMapped == IInv /\ [Next]_vars => [Atomic!Next]_Atomic!vars
<1>. SUFFICES ASSUME IInv, [Next]_vars PROVE Atomic!Next \/ UNCHANGED Atomic!vars
  OBVIOUS
<1>0. TypeOK
  BY DEF IInv
<1>1. CASE UNCHANGED vars
  BY <1>0, <1>1, MappedStutter DEF vars
<1>2. CASE DropDatabase
  <2>1. schema' = [t \in Tables |-> Atomic!Absent] /\ req' = req /\ status' = status
    BY <1>2 DEF DropDatabase, Empty, Absent, Atomic!Absent
  <2>. QED
    BY <2>1 DEF Atomic!Next, Atomic!Replaced
<1>3. CASE CreateDatabase \/ \E i \in Conns : Returned(i)
  BY <1>0, <1>3, MappedStutter DEF CreateDatabase, Returned
<1>4. ASSUME NEW c \in Clients, Send(c) PROVE Atomic!Next
  BY <1>0, <1>4, MappedSend DEF Atomic!Next
<1>5. ASSUME NEW c \in Clients, Step(c) \/ Rejected(c) PROVE Atomic!Next \/ UNCHANGED Atomic!vars
  BY <1>5, StepMapped
<1>. QED
  BY <1>1, <1>2, <1>3, <1>4, <1>5 DEF Next

(* Every request of the table routes takes effect as a whole, at its       *)
(* commit, or changes nothing and is answered with an error: the several   *)
(* statements that alter_column runs in one transaction are one change of  *)
(* the column as it is committed at that moment, whatever other requests   *)
(* committed between them.                                                 *)
THEOREM ImplementsAtomicDdlAlways == Spec => ImplementsAtomicDdl
  BY InitMapped, NextMapped, Invariance, PTL DEF Spec, ImplementsAtomicDdl, Atomic!Spec
=============================================================================
