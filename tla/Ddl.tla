--------------------------------- MODULE Ddl ---------------------------------
(***************************************************************************)
(* The statements sqlbuild.py builds, and what Postgres does with them in  *)
(* the public schema of one database: which of them it refuses, and what   *)
(* the others make of the tables.  An object is its name; what a           *)
(* constraint or an index says of its columns is left out.                 *)
(***************************************************************************)
EXTENDS Sequences, Functions

CONSTANTS Tables, Columns,
          Objects,     \* names of constraints and indexes
          Values,      \* what an attribute of a column can be
          Null

Attrs == {"type", "nullable", "default"}     \* of a column
Column == [Attrs -> Values]
Change == [Attrs -> Values \cup {Null}]      \* Null: not in the body
NoChange == [a \in Attrs |-> Null]

Absent == [cols |-> Null]
Cols == UNION {[C -> Column] : C \in SUBSET Columns}
Table == [cols : Cols, fks : SUBSET Objects, keys : SUBSET Objects, idx : SUBSET Objects]
Schema == [Tables -> Table \cup {Absent}]

\* A statement and a request have the same form; to: a new name, or the
\* table a foreign key refers to.
Ask(op, t) == [op |-> op, table |-> t, col |-> Null, set |-> NoChange,
               obj |-> Null, to |-> Null]
Formed(r) ==
    /\ r.op # "session" => r.table \in Tables
    /\ r.op \in {"create", "addcol", "alter", "set", "renamecol", "dropcol", "addfk", "addkey",
                 "addidx"} => r.col \in Columns
    /\ r.op \in {"create", "addcol"} => r.set \in Column
    /\ r.op \in {"rename", "addfk"} => r.to \in Tables
    /\ r.op = "alter" => r.to \in Columns \cup {Null}
    /\ r.op = "renamecol" => r.to \in Columns
    /\ r.op \in {"addfk", "addkey", "addidx", "dropcon", "dropidx"} => r.obj \in Objects
Forms(ops) ==
    {r \in [op : ops \cup {"create", "rename", "drop", "addcol", "dropcol", "addfk", "addkey",
                         "dropcon", "addidx", "dropidx", "session"},
             table : Tables \cup {Null}, col : Columns \cup {Null}, set : Change,
             obj : Objects \cup {Null}, to : Tables \cup Columns \cup {Null}] : Formed(r)}
Requests == Forms({"alter", "get"})
Statements == Forms({"set", "renamecol", "columns", "parts"})

-----------------------------------------------------------------------------
(* What a request of the table routes executes: alter_column makes one     *)
(* statement per requested change, the others are one statement;           *)
(* table_structure is taken as two of its queries, columns and the rest.   *)
SetStmt(r, a) ==
    IF r.set[a] = Null THEN <<>>
    ELSE <<[r EXCEPT !.op = "set", !.set = [NoChange EXCEPT ![a] = r.set[a]]]>>
RenameStmt(r) == IF r.to = Null THEN <<>> ELSE <<[r EXCEPT !.op = "renamecol", !.set = NoChange]>>

AlterStmts_renamefirst(r) ==
    RenameStmt(r) \o SetStmt(r, "type") \o SetStmt(r, "nullable") \o SetStmt(r, "default")
AlterStmts(r) ==
    SetStmt(r, "type") \o (SetStmt(r, "nullable") \o (SetStmt(r, "default") \o RenameStmt(r)))

Stmts(r) ==
    CASE r.op = "alter" -> AlterStmts(r)
      [] r.op = "get" -> <<[r EXCEPT !.op = "columns"], [r EXCEPT !.op = "parts"]>>
      [] OTHER -> <<r>>

-----------------------------------------------------------------------------
Owners(n, db) == {t \in Tables : db[t] # Absent /\ n \in db[t].idx \cup db[t].keys}

\* The names a statement locks; a name that is new is reserved: another
\* transaction that wants it waits.
Locks(s, db) ==
    CASE s.op \in {"columns", "parts", "session"} -> {}
      [] s.op \in {"rename", "addfk"} -> {s.table, s.to}
      [] s.op \in {"addkey", "addidx"} -> {s.table, s.obj}
      [] s.op = "dropidx" -> Owners(s.obj, db)
      [] OTHER -> {s.table}

\* UndefinedTable; DROP INDEX names no table.
NoTable(s, db) ==
    \/ s.op \notin {"create", "dropidx", "session"} /\ db[s.table] = Absent
    \/ s.op = "addfk" /\ db[s.to] = Absent

\* UndefinedColumn, UndefinedObject.
NoObject(s, db) ==
    \/ s.op \in {"set", "renamecol", "dropcol", "addidx", "addkey", "addfk"}
       /\ s.col \notin DOMAIN db[s.table].cols
    \/ s.op = "dropcon" /\ s.obj \notin db[s.table].fks \cup db[s.table].keys
    \/ s.op = "dropidx" /\ Owners(s.obj, db) = {}

\* DuplicateTable, which is said of an index too, and DuplicateColumn.
Exists(s, db) ==
    \/ s.op = "create" /\ db[s.table] # Absent
    \/ s.op = "rename" /\ db[s.to] # Absent
    \/ s.op = "addcol" /\ s.col \in DOMAIN db[s.table].cols
    \/ s.op = "renamecol" /\ s.to \in DOMAIN db[s.table].cols
    \/ s.op \in {"addidx", "addkey"} /\ Owners(s.obj, db) # {}

\* DuplicateObject and DependentObjectsStillExist, which no route tells apart
\* from other errors.
Barred(s, db) ==
    \/ s.op \in {"addfk", "addkey"} /\ s.obj \in db[s.table].fks \cup db[s.table].keys
    \/ s.op = "dropidx" /\ \E t \in Owners(s.obj, db) : s.obj \in db[t].keys

\* _run: the status of a statement that Postgres refuses, {} if it does not.
Fault(s, db) ==
    IF NoTable(s, db) \/ NoObject(s, db) THEN {404}
    ELSE IF Exists(s, db) THEN {409}
    ELSE IF Barred(s, db) THEN {400} ELSE {}
-----------------------------------------------------------------------------
Altered(column, set) == [a \in Attrs |-> IF set[a] = Null THEN column[a] ELSE set[a]]
Added(cols, c, column) ==
    [x \in DOMAIN cols \cup {c} |-> IF x = c THEN column ELSE cols[x]]
Renamed(cols, c, d) ==
    [x \in (DOMAIN cols \ {c}) \cup {d} |-> IF x = d THEN cols[c] ELSE cols[x]]
\* A dropped column takes the constraints and indexes on it along.
Without(tab, c, gone) ==
    [cols |-> Restrict(tab.cols, DOMAIN tab.cols \ {c}),
     fks |-> tab.fks \ gone, keys |-> tab.keys \ gone, idx |-> tab.idx \ gone]

\* The schemas a statement without fault may leave.
Effects(s, db) ==
    LET t == s.table IN
    CASE s.op = "create" ->
           {[db EXCEPT ![t] = [cols |-> [x \in {s.col} |-> s.set], fks |-> {}, keys |-> {}, idx |-> {}]]}
      [] s.op = "rename" -> {[db EXCEPT ![s.to] = db[t], ![t] = Absent]}
      [] s.op = "drop" -> {[db EXCEPT ![t] = Absent]}
      [] s.op = "addcol" -> {[db EXCEPT ![t].cols = Added(@, s.col, s.set)]}
      [] s.op = "set" -> {[db EXCEPT ![t].cols[s.col] = Altered(@, s.set)]}
      [] s.op = "renamecol" -> {[db EXCEPT ![t].cols = Renamed(@, s.col, s.to)]}
      [] s.op = "dropcol" -> {[db EXCEPT ![t] = Without(@, s.col, gone)] : gone \in SUBSET Objects}
      [] s.op = "addfk" -> {[db EXCEPT ![t].fks = @ \cup {s.obj}]}
      [] s.op = "addkey" -> {[db EXCEPT ![t].keys = @ \cup {s.obj}]}
      [] s.op = "addidx" -> {[db EXCEPT ![t].idx = @ \cup {s.obj}]}
      [] s.op = "dropcon" -> {[db EXCEPT ![t].fks = @ \ {s.obj}, ![t].keys = @ \ {s.obj}]}
      [] s.op = "dropidx" ->
           {[x \in Tables |-> IF x \in Owners(s.obj, db) THEN [db[x] EXCEPT !.idx = @ \ {s.obj}]
                              ELSE db[x]]}
      [] OTHER -> {db}
=============================================================================
