-------------------------------- MODULE Grid --------------------------------
(***************************************************************************)
(* The Data tab: the grid of rows.js with its edit, insert and delete      *)
(* dialogs, and the handlers of routes/rows.py.  Several users work on one *)
(* table, each from the rows the last draw brought; a row is found again   *)
(* by its primary key, and an edit sends the columns whose text changed.   *)
(* EditorsProofs extends this module and ThemePage: hence GridInit etc.    *)
(***************************************************************************)
EXTENDS Integers, FiniteSets

CONSTANTS Keys,      \* primary-key values
          Cols,      \* the other columns
          Text,      \* what a text column can hold
          Empty,     \* the empty text
          InField,   \* what a text input holds of a text: line breaks are gone
          Trimmed,   \* what is in an input, without the white space around it
          Null,
          NoRow,
          Clients    \* pages open on the table; bound: one handler each

ASSUME GridAssumption ==
    /\ Empty \in Text /\ Trimmed[InField[Empty]] = Empty
    /\ \A text \in Text : Trimmed[InField[text]] \in Text
    /\ Null \notin Text /\ NoRow \notin [Cols -> Text \cup {Null}]

VARIABLES rows,     \* the table: the row of each key
          shown,    \* the rows each page shows
          req       \* the handler of each page
gridVars == <<rows, shown, req>>

Cells == Text \cup {Null}
Tables == [Keys -> [Cols -> Cells] \cup {NoRow}]
Present_all(table) == Keys
Present(table) == {k \in Keys : table[k] # NoRow}

\* key: the pk of the request; newKey, set: the changed columns of an edit,
\* Null where a column is not sent; touched: the columns the user edited.
Idle == [pc |-> "idle", key |-> Null, newKey |-> Null, set |-> [c \in Cols |-> Null],
         touched |-> {}, reply |-> [k \in Keys |-> NoRow]]
Steps == {"idle", "draw", "drawn", "edit", "patch", "delete", "insert"}

GridInit ==
    /\ rows \in Tables
    /\ shown = [p \in Clients |-> [k \in Keys |-> NoRow]]
    /\ req = [p \in Clients |-> Idle]

Become(p, r) == req' = [req EXCEPT ![p] = r]
Drawing == [Idle EXCEPT !.pc = "draw"]

-----------------------------------------------------------------------------
(* draw: opening the tab, the filter and the pager; an edit ends with one. *)
Draw(p) ==
    /\ req[p].pc = "idle"
    /\ Become(p, Drawing)
    /\ UNCHANGED <<rows, shown>>

ListRows(p) ==
    /\ req[p].pc = "draw"
    /\ Become(p, [Idle EXCEPT !.pc = "drawn", !.reply = rows])
    /\ UNCHANGED <<rows, shown>>

Render(p) ==
    /\ req[p].pc = "drawn"
    /\ shown' = [shown EXCEPT ![p] = req[p].reply]
    /\ Become(p, Idle)
    /\ UNCHANGED rows

\* The request fails and showError, or nobody, reports it.
Fail(p) ==
    /\ req[p].pc \in {"draw", "patch", "delete", "insert"}
    /\ Become(p, Idle)
    /\ UNCHANGED <<rows, shown>>

-----------------------------------------------------------------------------
(* editRowDialog *)
OpenEdit(p) ==
    /\ req[p].pc = "idle"
    /\ \E k \in Present(shown[p]) : Become(p, [Idle EXCEPT !.pc = "edit", !.key = k])
    /\ UNCHANGED <<rows, shown>>

\* The text a cell is shown as: a NULL is an empty field.
Before(cell) == IF cell = Null THEN Empty ELSE cell

\* A field of formModal, filled by it or by the user, and read by collectValues.
Returned(text) == Trimmed[InField[text]]

\* What the form returns, and which of it is sent.
Collected(row, touched, typed) ==
    [c \in Cols |-> Returned(IF c \in touched THEN typed[c] ELSE Before(row[c]))]
Changes_all(row, v) == v
Changes(row, v) == [c \in Cols |-> IF v[c] # Before(row[c]) THEN v[c] ELSE Null]

SaveEdit(p) ==
    LET k == req[p].key
        row == shown[p][k] IN
    /\ req[p].pc = "edit"
    /\ \E touched \in SUBSET Cols, newKey \in Keys :
       \E typed \in [touched -> Text] :
          LET set == Changes(row, Collected(row, touched, typed)) IN
          IF newKey = k /\ \A c \in Cols : set[c] = Null
          THEN Become(p, Idle)
          ELSE Become(p, [Idle EXCEPT !.pc = "patch", !.key = k, !.newKey = newKey,
                                      !.set = set, !.touched = touched])
    /\ UNCHANGED <<rows, shown>>

CancelEdit(p) ==
    /\ req[p].pc = "edit"
    /\ Become(p, Idle)
    /\ UNCHANGED <<rows, shown>>

\* update_row: 404 if no row has the key, 400 if another one has the new key;
\* these answers are steps of Fail.
UpdatedRow(row, set) == [c \in Cols |-> IF set[c] # Null THEN set[c] ELSE row[c]]

UpdateRow(p) ==
    LET r == req[p] IN
    /\ r.pc = "patch"
    /\ rows[r.key] # NoRow
    /\ r.newKey = r.key \/ rows[r.newKey] = NoRow
    /\ rows' = [rows EXCEPT ![r.key] = NoRow, ![r.newKey] = UpdatedRow(rows[r.key], r.set)]
    /\ Become(p, Drawing)
    /\ UNCHANGED shown

-----------------------------------------------------------------------------
(* The Delete button and delete_row *)
ConfirmDelete(p) ==
    /\ req[p].pc = "idle"
    /\ \E k \in Present(shown[p]) : Become(p, [Idle EXCEPT !.pc = "delete", !.key = k])
    /\ UNCHANGED <<rows, shown>>

DeleteRow(p) ==
    /\ req[p].pc = "delete"
    /\ rows[req[p].key] # NoRow
    /\ rows' = [rows EXCEPT ![req[p].key] = NoRow]
    /\ Become(p, Drawing)
    /\ UNCHANGED shown

(* addRowDialog and insert_row: a blank field is not sent, and the column  *)
(* gets its default, which is NULL here.                                   *)
AddRow(p) ==
    /\ req[p].pc = "idle"
    /\ \E k \in Keys, typed \in [Cols -> Text] :
          Become(p, [Idle EXCEPT !.pc = "insert", !.key = k,
                       !.set = [c \in Cols |-> IF Returned(typed[c]) = Empty THEN Null
                                               ELSE Returned(typed[c])]])
    /\ UNCHANGED <<rows, shown>>

InsertRow(p) ==
    /\ req[p].pc = "insert"
    /\ rows[req[p].key] = NoRow
    /\ rows' = [rows EXCEPT ![req[p].key] = req[p].set]
    /\ Become(p, Drawing)
    /\ UNCHANGED shown

Step(p) ==
    \/ Draw(p) \/ ListRows(p) \/ Render(p) \/ Fail(p)
    \/ OpenEdit(p) \/ SaveEdit(p) \/ CancelEdit(p) \/ UpdateRow(p)
    \/ ConfirmDelete(p) \/ DeleteRow(p) \/ AddRow(p) \/ InsertRow(p)

GridNext == \E p \in Clients : Step(p)

GridSpec == GridInit /\ [][GridNext]_gridVars

-----------------------------------------------------------------------------
GridTypeOK ==
    /\ rows \in Tables
    /\ shown \in [Clients -> Tables]
    /\ req \in [Clients -> [pc : Steps, key : Keys \cup {Null}, newKey : Keys \cup {Null},
                            set : [Cols -> Cells], touched : SUBSET Cols, reply : Tables]]
    /\ \A p \in Clients :
          /\ req[p].pc \in {"edit", "patch", "delete", "insert"} => req[p].key \in Keys
          /\ req[p].pc = "patch" => req[p].newKey \in Keys
          /\ req[p].pc = "edit" => shown[p][req[p].key] # NoRow

(* "Send only the columns whose value changed": an edit keeps every column *)
(* its user left alone as it is in the table when the edit arrives, be it  *)
(* a NULL, or changed by somebody else since the row was shown, and also   *)
(* when the edit moves the row to another key.  A text the form does not   *)
(* return as it was is not safe: it is sent, without its line breaks and   *)
(* the white space around it, over whatever the column holds by then.      *)
EditKeepsOtherColumns ==
    [][\A p \in Clients :
          LET r == req[p]
              before(c) == Before(shown[p][r.key][c]) IN
          r.pc = "patch" /\ req'[p].pc = "draw" =>
             \A c \in Cols \ r.touched :
                 Returned(before(c)) = before(c) => rows'[r.newKey][c] = rows[r.key][c]]_gridVars
=============================================================================
