--------------------------- MODULE EditorsProofs ----------------------------
(***************************************************************************)
(* Proofs about the two places of the page that edit a copy of what others *)
(* may be changing, for any number of colours, saves, columns, keys and    *)
(* users.  ThemePage: what the admin sees is what the pickers say, and     *)
(* every other page will see what was saved.  Grid: an edit of a row       *)
(* changes the columns that were edited.                                   *)
(***************************************************************************)
EXTENDS ThemePage, Grid, TLAPS

Saves == [theme : Themes, served : BOOLEAN, mine : BOOLEAN]

LEMMA EffectiveStyle ==
    ASSUME NEW t \in Themes
    PROVE  effective(t) \in Styles /\ effective(t) # None
<1>1. \A v \in Vars : t.overrides[v] # None => t.overrides[v] \in Colors
  BY DEF Themes
<1>2. \A v \in Vars : PRESETS[t.preset][v] \in Colors
  BY ThemeAssumption DEF Themes
<1>3. effective(t) \in Styles
  BY <1>1, <1>2 DEF effective, Styles
<1>. QED
  BY <1>3, ThemeAssumption DEF Styles

\* What the pickers and buttons make of a draft is a theme.
LEMMA PickedTheme ==
    ASSUME NEW t \in Themes
    PROVE  /\ \A p \in Presets : [t EXCEPT !.preset = p] \in Themes
           /\ \A v \in Vars, c \in Colors \cup {None} : [t EXCEPT !.overrides[v] = c] \in Themes
           /\ [t EXCEPT !.overrides = NoOverrides] \in Themes
<1>1. /\ t.preset \in Presets /\ t.overrides \in [Vars -> Colors \cup {None}]
      /\ t = [preset |-> t.preset, overrides |-> t.overrides]
  BY DEF Themes
<1>2. ASSUME NEW o \in [Vars -> Colors \cup {None}]
      PROVE  [t EXCEPT !.overrides = o] \in Themes
  BY <1>1 DEF Themes
<1>3. \A p \in Presets : [t EXCEPT !.preset = p] \in Themes
  BY <1>1 DEF Themes
<1>4. ASSUME NEW v \in Vars, NEW c \in Colors \cup {None}
      PROVE  [t EXCEPT !.overrides[v] = c] \in Themes
  <2>1. [t.overrides EXCEPT ![v] = c] \in [Vars -> Colors \cup {None}]
    BY <1>1
  <2>2. [t EXCEPT !.overrides[v] = c] = [t EXCEPT !.overrides = [t.overrides EXCEPT ![v] = c]]
    BY <1>1
  <2>. QED
    BY <1>2, <2>1, <2>2
<1>5. NoOverrides \in [Vars -> Colors \cup {None}]
  BY DEF NoOverrides
<1>. QED
  BY <1>2, <1>3, <1>4, <1>5

-----------------------------------------------------------------------------
LEMMA InitTypeOK == Init => TypeOK
<1>. SUFFICES ASSUME Init PROVE TypeOK
  OBVIOUS
<1>1. stored \in Themes
  BY DEF Init, Themes, NoOverrides
<1>. QED
  BY <1>1 DEF Init, TypeOK

\* A step of the pickers or buttons, with or without a style to paint.
LEMMA EditEffect ==
    ASSUME TypeOK, PickPreset \/ PickColor \/ ResetColor \/ ResetAll
    PROVE  /\ draft' \in Themes /\ liveStyle' = effective(draft') /\ page = "ready"
           /\ UNCHANGED <<stored, savedStyle, view, page, current, saves>>
<1>. USE DEF Edit, Repaint
<1>0. draft \in Themes
  BY DEF TypeOK
<1>1. CASE PickPreset
  BY <1>0, <1>1, PickedTheme DEF PickPreset, Usable
<1>2. CASE PickColor
  <2>1. PICK v \in Vars, c \in Colors :
           draft' = [draft EXCEPT !.overrides[v] = Override(draft.preset, v, c)]
    BY <1>2 DEF PickColor
  <2>2. Override(draft.preset, v, c) \in Colors \cup {None}
    BY DEF Override
  <2>. QED
    BY <1>0, <1>2, <2>1, <2>2, PickedTheme DEF PickColor, Usable
<1>3. CASE ResetColor
  <2>1. PICK v \in Vars : draft' = [draft EXCEPT !.overrides[v] = None]
    BY <1>3 DEF ResetColor
  <2>2. None \in Colors \cup {None}
    OBVIOUS
  <2>. QED
    BY <1>0, <1>3, <2>1, <2>2, PickedTheme DEF ResetColor, Usable
<1>4. CASE ResetAll
  BY <1>0, <1>4, PickedTheme DEF ResetAll, Usable
<1>. QED
  BY <1>1, <1>2, <1>3, <1>4

LEMMA NextTypeOK == TypeOK /\ [Next]_vars => TypeOK'
<1>. SUFFICES ASSUME TypeOK, [Next]_vars PROVE TypeOK'
  OBVIOUS
<1>0. /\ stored \in Themes /\ current \in Themes /\ draft \in Themes
      /\ savedStyle \in Styles /\ liveStyle \in Styles \cup {None} /\ saves \subseteq Saves
  BY DEF TypeOK, Saves
<1>1. CASE PickPreset \/ PickColor \/ ResetColor \/ ResetAll
  BY <1>1, EditEffect, EffectiveStyle DEF TypeOK
<1>2. CASE OpenTheme
  <2>1. \A s \in saves : [s EXCEPT !.mine = FALSE] \in Saves
    BY <1>0 DEF Saves
  <2>. QED
    BY <1>2, <2>1 DEF OpenTheme, TypeOK, Saves
<1>3. CASE Cancel
  BY <1>3 DEF Cancel, Cancelled, TypeOK
<1>4. CASE Save
  <2>1. [theme |-> draft, served |-> FALSE, mine |-> TRUE] \in Saves
    BY <1>0 DEF Saves
  <2>. QED
    BY <1>0, <1>4, <2>1 DEF Save, TypeOK, Saves
<1>5. CASE GotTheme \/ OpenFails \/ Navigate
  BY <1>5 DEF GotTheme, OpenFails, Navigate, TypeOK
<1>6. CASE GotPresets
  BY <1>0, <1>6, EffectiveStyle DEF GotPresets, TypeOK
<1>7. ASSUME NEW s \in saves, ServeSave(s) PROVE TypeOK'
  <2>1. [s EXCEPT !.served = TRUE] \in Saves /\ s.theme \in Themes
    BY <1>0 DEF Saves
  <2>. QED
    BY <1>0, <1>7, <2>1 DEF ServeSave, TypeOK, Saves
<1>8. ASSUME NEW s \in saves, SaveDone(s) PROVE TypeOK'
  <2>1. s.theme \in Themes
    BY <1>0 DEF Saves
  <2>. QED
    BY <1>0, <1>8, <2>1, EffectiveStyle DEF SaveDone, Applied, TypeOK
<1>9. ASSUME NEW s \in saves, SaveFails(s) PROVE TypeOK'
  BY <1>9 DEF SaveFails, TypeOK
<1>10. CASE SavedElsewhere
  BY <1>10 DEF SavedElsewhere, TypeOK
<1>11. CASE UNCHANGED vars
  BY <1>11 DEF vars, TypeOK
<1>. QED
  BY <1>1, <1>2, <1>3, <1>4, <1>5, <1>6, <1>7, <1>8, <1>9, <1>10, <1>11 DEF Next, UserStep

(* The page paints only styles and sends only themes, whichever of its     *)
(* requests fail and whoever else saves.                                   *)
THEOREM TypeCorrect == Spec => []TypeOK
  BY InitTypeOK, NextTypeOK, PTL DEF Spec

-----------------------------------------------------------------------------
(* An admin who waits for his saves, while nobody else saves: there is one *)
(* save at most, it carries what the page shows, and until it has been     *)
(* served the page's own theme and the saved style are those of the        *)
(* database.                                                               *)
Calm == ~hurried /\ ~foreign
Pending == \E s \in saves : s.served
Settled ==
    Calm =>
       /\ saves # {} => page = "ready"
       /\ \A s, t \in saves : s = t
       /\ \A s \in saves : s.mine /\ s.theme = draft /\ (s.served => stored = s.theme)
       /\ ~Pending => savedStyle = effective(stored)
       /\ ~Pending /\ page \in {"presets", "ready"} => current = stored
       /\ page = "ready" => Painted = effective(draft)

LEMMA NextSettled == TypeOK /\ Settled /\ [Next]_vars => Settled'
<1>. SUFFICES ASSUME TypeOK, Settled, [Next]_vars, Calm' PROVE Settled'
  BY DEF Settled
<1>0. /\ stored \in Themes /\ current \in Themes /\ draft \in Themes
      /\ saves \subseteq Saves
  BY DEF TypeOK, Saves
<1>1. CASE UserStep /\ hurried' = (hurried \/ saves # {}) /\ UNCHANGED foreign
  <2>1. Calm /\ saves = {} /\ ~Pending
    BY <1>1 DEF Calm, Pending
  <2>2. CASE PickPreset \/ PickColor \/ ResetColor \/ ResetAll
    <3>1. /\ draft' \in Themes /\ liveStyle' = effective(draft') /\ page = "ready"
          /\ UNCHANGED <<stored, savedStyle, view, page, current, saves>>
      BY <2>2, EditEffect
    <3>2. liveStyle' # None
      BY <3>1, EffectiveStyle
    <3>. QED
      BY <2>1, <3>1, <3>2 DEF Settled, Pending, Painted
  <2>3. CASE OpenTheme
    BY <2>1, <2>3 DEF OpenTheme, Settled, Pending, Painted
  <2>4. CASE Cancel
    <3>1. current = stored /\ savedStyle = effective(stored)
      BY <2>1, <2>4 DEF Cancel, Usable, Settled
    <3>. QED
      BY <2>1, <2>4, <3>1 DEF Cancel, Cancelled, Usable, Settled, Pending, Painted
  <2>5. CASE Save
    <3>. DEFINE s == [theme |-> draft, served |-> FALSE, mine |-> TRUE]
    <3>1. saves' = {s} /\ ~Pending'
      BY <2>1, <2>5 DEF Save, Pending
    <3>2. s.mine /\ s.theme = draft /\ ~s.served
      OBVIOUS
    <3>. HIDE DEF s
    <3>. QED
      BY <2>1, <2>5, <3>1, <3>2 DEF Save, Usable, Settled, Painted
  <2>. QED
    BY <1>1, <2>2, <2>3, <2>4, <2>5 DEF UserStep
<1>2. CASE (GotTheme \/ GotPresets \/ OpenFails) /\ UNCHANGED <<hurried, foreign>>
  <2>1. Calm /\ page # "ready"
    BY <1>2 DEF Calm, GotTheme, GotPresets, OpenFails
  <2>2. saves = {} /\ saves' = {} /\ ~Pending /\ ~Pending'
    BY <1>2, <2>1 DEF Settled, Pending, GotTheme, GotPresets, OpenFails
  <2>3. CASE GotTheme
    BY <2>1, <2>2, <2>3 DEF GotTheme, Settled, Painted
  <2>4. CASE GotPresets
    <3>1. liveStyle' = effective(current) /\ liveStyle' # None /\ draft' = current
      BY <1>0, <2>4, EffectiveStyle DEF GotPresets
    <3>. QED
      BY <2>1, <2>2, <2>4, <3>1 DEF GotPresets, Settled, Painted
  <2>5. CASE OpenFails
    BY <2>1, <2>2, <2>5 DEF OpenFails, Settled, Painted
  <2>. QED
    BY <1>2, <2>3, <2>4, <2>5
<1>3. CASE Navigate /\ UNCHANGED <<hurried, foreign>>
  BY <1>3 DEF Calm, Navigate, Settled, Pending, Painted
<1>4. ASSUME NEW s \in saves, ServeSave(s), UNCHANGED <<hurried, foreign>> PROVE Settled'
  <2>. DEFINE t == [s EXCEPT !.served = TRUE]
  <2>1. Calm /\ saves = {s} /\ s.mine /\ s.theme = draft /\ page = "ready"
    BY <1>4 DEF Calm, Settled
  <2>2. t.served /\ t.mine /\ t.theme = draft
    BY <1>0, <2>1 DEF Saves
  <2>3. saves' = {t} /\ stored' = draft
    BY <1>4, <2>1 DEF ServeSave
  <2>. HIDE DEF t
  <2>4. Pending'
    BY <2>2, <2>3 DEF Pending
  <2>. QED
    BY <1>4, <2>1, <2>2, <2>3, <2>4 DEF ServeSave, Settled, Painted
<1>5. ASSUME NEW s \in saves, SaveDone(s), UNCHANGED <<hurried, foreign>> PROVE Settled'
  <2>1. /\ Calm /\ saves = {s} /\ s.mine /\ s.theme = draft /\ stored = draft /\ page = "ready"
    BY <1>5 DEF Calm, Settled, SaveDone
  <2>2. saves' = {} /\ ~Pending'
    BY <1>5, <2>1 DEF SaveDone, Pending
  <2>3. /\ current' = draft /\ stored' = draft /\ draft' = draft
        /\ liveStyle' = None /\ savedStyle' = effective(draft)
    BY <1>5, <2>1 DEF SaveDone, Applied
  <2>. QED
    BY <2>2, <2>3 DEF Settled, Painted
<1>6. ASSUME NEW s \in saves, ~s.served, SaveFails(s), UNCHANGED <<hurried, foreign>>
      PROVE  Settled'
  <2>1. Calm /\ saves = {s} /\ ~Pending
    BY <1>6 DEF Calm, Settled, Pending
  <2>2. saves' = {} /\ ~Pending'
    BY <1>6, <2>1 DEF SaveFails, Pending
  <2>. QED
    BY <1>6, <2>1, <2>2 DEF SaveFails, Settled, Painted
<1>7. CASE foreign' = TRUE
  BY <1>7 DEF Calm
<1>8. CASE UNCHANGED vars
  BY <1>8 DEF vars, Calm, Settled, Pending, Painted
<1>. QED
  BY <1>1, <1>2, <1>3, <1>4, <1>5, <1>6, <1>7, <1>8 DEF Next

LEMMA InitSettled == Init => Settled
  BY DEF Init, Settled, Calm, Pending

LEMMA Invariance == Spec => []Settled
  BY InitSettled, NextSettled, TypeCorrect, PTL DEF Spec

(* Whatever is picked, reset, cancelled and saved, and whichever request   *)
(* fails, the page is painted in the theme its pickers say.                *)
THEOREM PickersShowPaintedAlways == Spec => []PickersShowPainted
<1>1. Settled => PickersShowPainted
  BY DEF Settled, Calm, PickersShowPainted
<1>. QED
  BY <1>1, Invariance, PTL

(* Between saves the saved style is the theme in the database, so a cancel *)
(* or a reload shows what every other page shows.                          *)
THEOREM SavedStyleIsStoredAlways == Spec => []SavedStyleIsStored
<1>1. Settled => SavedStyleIsStored
  BY DEF Settled, Calm, Pending, SavedStyleIsStored
<1>. QED
  BY <1>1, Invariance, PTL
-----------------------------------------------------------------------------
(* The row editor: an edit in flight names a key that was shown, and a      *)
(* column its user left alone is in it only if the form altered its text.   *)
Requests == [pc : Steps, key : Keys \cup {Null}, newKey : Keys \cup {Null},
             set : [Cols -> Cells], touched : SUBSET Cols, reply : Tables]
Rows == [Cols -> Cells]

LeavesAlone(row, r) ==
    \A c \in Cols \ r.touched : Returned(Before(row[c])) = Before(row[c]) => r.set[c] = Null
EditsAreOfShownRows ==
    \A p \in Clients : req[p].pc = "patch" =>
        shown[p][req[p].key] # NoRow /\ LeavesAlone(shown[p][req[p].key], req[p])

LEMMA IdleIsRequest == Idle \in Requests /\ Drawing \in Requests /\ Drawing.pc = "draw"
<1>1. [c \in Cols |-> Null] \in Rows /\ [k \in Keys |-> NoRow] \in Tables
  BY DEF Rows, Cells, Tables
<1>2. Idle \in Requests /\ Idle.pc = "idle"
  BY <1>1 DEF Idle, Requests, Rows, Steps
<1>. QED
  BY <1>2 DEF Drawing, Requests, Steps

LEMMA ShownText == \A cell \in Cells : Before(cell) \in Text
  BY GridAssumption DEF Cells, Before

LEMMA ReturnedText == \A text \in Text : Returned(text) \in Text
  BY GridAssumption DEF Returned

\* What an edit sends: cells, and none of a column that reads as it was shown.
LEMMA SentChanges ==
    ASSUME NEW row \in Rows, NEW touched \in SUBSET Cols, NEW typed \in [touched -> Text]
    PROVE  LET set == Changes(row, Collected(row, touched, typed)) IN
           /\ set \in Rows
           /\ \A c \in Cols \ touched : Returned(Before(row[c])) = Before(row[c]) => set[c] = Null
<1>. DEFINE v == Collected(row, touched, typed)
<1>1. \A c \in Cols : Before(row[c]) \in Text
  BY ShownText DEF Rows
<1>2. v \in [Cols -> Text]
  BY <1>1, ReturnedText DEF Collected
<1>3. \A c \in Cols \ touched : v[c] = Returned(Before(row[c]))
  BY DEF Collected
<1>. HIDE DEF v
<1>4. Changes(row, v) \in Rows
  BY <1>2 DEF Changes, Rows, Cells
<1>5. \A c \in Cols \ touched :
         Returned(Before(row[c])) = Before(row[c]) => Changes(row, v)[c] = Null
  BY <1>3 DEF Changes
<1>. QED
  BY <1>4, <1>5 DEF v

LEMMA InitGrid == GridInit => GridTypeOK /\ EditsAreOfShownRows
  BY IdleIsRequest DEF GridInit, GridTypeOK, EditsAreOfShownRows, Requests, Idle, Tables

\* An answer, a button or the form of page p: what becomes of its request.
LEMMA PageStep ==
    ASSUME GridTypeOK, NEW p \in Clients, NEW r \in Requests, Become(p, r),
           rows' \in Tables, shown' = shown,
           r.pc \in {"edit", "patch", "delete", "insert"} => r.key \in Keys,
           r.pc = "patch" => r.newKey \in Keys /\ LeavesAlone(shown[p][r.key], r),
           r.pc \in {"edit", "patch"} => shown[p][r.key] # NoRow,
           EditsAreOfShownRows
    PROVE  GridTypeOK' /\ EditsAreOfShownRows'
<1>1. req' \in [Clients -> Requests] /\ req'[p] = r /\ \A q \in Clients \ {p} : req'[q] = req[q]
  BY DEF GridTypeOK, Become, Requests
<1>2. GridTypeOK'
  BY <1>1 DEF GridTypeOK, Requests
<1>3. EditsAreOfShownRows'
  BY <1>1 DEF EditsAreOfShownRows
<1>. QED
  BY <1>2, <1>3

LEMMA NextGrid ==
    GridTypeOK /\ EditsAreOfShownRows /\ [GridNext]_gridVars => GridTypeOK' /\ EditsAreOfShownRows'
<1>. SUFFICES ASSUME GridTypeOK, EditsAreOfShownRows, [GridNext]_gridVars
              PROVE  GridTypeOK' /\ EditsAreOfShownRows'
  OBVIOUS
<1>1. /\ rows \in Tables /\ shown \in [Clients -> Tables] /\ req \in [Clients -> Requests]
      /\ \A q \in Clients : req[q].pc \in {"edit", "patch", "delete", "insert"} => req[q].key \in Keys
  BY DEF GridTypeOK, Requests
<1>2. CASE UNCHANGED gridVars
  BY <1>2 DEF gridVars, GridTypeOK, EditsAreOfShownRows
<1>3. ASSUME NEW p \in Clients, Step(p) PROVE GridTypeOK' /\ EditsAreOfShownRows'
  <2>0. req[p] \in Requests /\ shown[p] \in Tables
    BY <1>1
  <2>1. CASE Draw(p) \/ Fail(p) \/ CancelEdit(p)
    <3>1. PICK r \in {Idle, Drawing} : Become(p, r) /\ rows' = rows /\ shown' = shown
      BY <2>1 DEF Draw, Fail, CancelEdit
    <3>2. r \in Requests /\ r.pc \in {"idle", "draw"}
      BY <3>1, IdleIsRequest DEF Idle
    <3>. QED
      BY <1>1, <3>1, <3>2, PageStep
  <2>2. CASE ListRows(p)
    <3>1. PICK r : r = [Idle EXCEPT !.pc = "drawn", !.reply = rows]
      OBVIOUS
    <3>2. r \in Requests /\ r.pc = "drawn"
      BY <1>1, <3>1, IdleIsRequest DEF Requests, Steps
    <3>. QED
      BY <1>1, <2>2, <3>1, <3>2, PageStep DEF ListRows
  <2>3. CASE Render(p)
    <3>1. req' \in [Clients -> Requests] /\ req'[p] = Idle /\ \A q \in Clients \ {p} : req'[q] = req[q]
      BY <1>1, <2>3, IdleIsRequest DEF Render, Become
    <3>2. shown' \in [Clients -> Tables] /\ \A q \in Clients \ {p} : shown'[q] = shown[q]
      BY <1>1, <2>0, <2>3 DEF Render, Requests
    <3>3. rows' = rows /\ Idle.pc = "idle"
      BY <2>3 DEF Render, Idle
    <3>. QED
      BY <3>1, <3>2, <3>3 DEF GridTypeOK, EditsAreOfShownRows, Requests
  <2>4. CASE OpenEdit(p) \/ ConfirmDelete(p)
    <3>1. PICK k \in Present(shown[p]), pc \in {"edit", "delete"} :
             Become(p, [Idle EXCEPT !.pc = pc, !.key = k]) /\ rows' = rows /\ shown' = shown
      BY <2>4 DEF OpenEdit, ConfirmDelete
    <3>2. k \in Keys /\ shown[p][k] # NoRow
      BY <3>1 DEF Present
    <3>3. PICK r : r = [Idle EXCEPT !.pc = pc, !.key = k]
      OBVIOUS
    <3>4. r \in Requests /\ r.pc = pc /\ r.key = k
      BY <3>2, <3>3, IdleIsRequest DEF Requests, Steps
    <3>. QED
      BY <1>1, <3>1, <3>2, <3>3, <3>4, PageStep
  <2>5. CASE SaveEdit(p)
    <3>1. PICK k : k = req[p].key
      OBVIOUS
    <3>2. PICK row : row = shown[p][k]
      OBVIOUS
    <3>3. k \in Keys /\ row # NoRow /\ row \in Rows
      BY <1>1, <2>0, <2>5, <3>1, <3>2 DEF SaveEdit, GridTypeOK, Tables, Rows
    <3>4. PICK touched \in SUBSET Cols, newKey \in Keys : \E typed \in [touched -> Text] :
             LET set == Changes(row, Collected(row, touched, typed)) IN
             IF newKey = k /\ \A c \in Cols : set[c] = Null
             THEN Become(p, Idle)
             ELSE Become(p, [Idle EXCEPT !.pc = "patch", !.key = k, !.newKey = newKey,
                                         !.set = set, !.touched = touched])
      BY <2>5, <3>1, <3>2 DEF SaveEdit
    <3>5. PICK typed \in [touched -> Text] :
             LET set == Changes(row, Collected(row, touched, typed)) IN
             IF newKey = k /\ \A c \in Cols : set[c] = Null
             THEN Become(p, Idle)
             ELSE Become(p, [Idle EXCEPT !.pc = "patch", !.key = k, !.newKey = newKey,
                                         !.set = set, !.touched = touched])
      BY <3>4
    <3>6. PICK set : set = Changes(row, Collected(row, touched, typed))
      OBVIOUS
    <3>7. /\ set \in Rows
          /\ \A c \in Cols \ touched : Returned(Before(row[c])) = Before(row[c]) => set[c] = Null
      BY <3>3, <3>6, SentChanges
    <3>8. PICK r : r = [Idle EXCEPT !.pc = "patch", !.key = k, !.newKey = newKey,
                                    !.set = set, !.touched = touched]
      OBVIOUS
    <3>9. /\ r \in Requests /\ r.pc = "patch" /\ r.key = k /\ r.newKey = newKey
          /\ r.set = set /\ r.touched = touched
      BY <3>3, <3>7, <3>8, IdleIsRequest DEF Requests, Steps, Rows
    <3>10. LeavesAlone(shown[p][r.key], r)
      BY <3>2, <3>7, <3>9 DEF LeavesAlone
    <3>11. rows' = rows /\ shown' = shown /\ (Become(p, Idle) \/ Become(p, r))
      BY <2>5, <3>5, <3>6, <3>8 DEF SaveEdit
    <3>12. CASE Become(p, Idle)
      <4>1. Idle \in Requests /\ Idle.pc = "idle"
        BY IdleIsRequest DEF Idle
      <4>. QED
        BY <1>1, <3>11, <3>12, <4>1, PageStep
    <3>13. CASE Become(p, r)
      <4>1. shown[p][r.key] # NoRow /\ r.key \in Keys /\ r.newKey \in Keys
        BY <3>2, <3>3, <3>9
      <4>. QED
        BY <1>1, <3>9, <3>10, <3>11, <3>13, <4>1, PageStep
    <3>. QED
      BY <3>11, <3>12, <3>13
  <2>6. CASE UpdateRow(p) \/ DeleteRow(p) \/ InsertRow(p)
    <3>1. rows' \in Tables
      <4>1. CASE UpdateRow(p)
        <5>1. /\ req[p].key \in Keys /\ req[p].newKey \in Keys /\ req[p].set \in Rows
              /\ rows[req[p].key] \in Rows
          BY <1>1, <2>0, <4>1 DEF UpdateRow, GridTypeOK, Requests, Tables, Rows
        <5>2. UpdatedRow(rows[req[p].key], req[p].set) \in Rows
          BY <5>1 DEF UpdatedRow, Rows
        <5>. QED
          BY <1>1, <4>1, <5>1, <5>2 DEF UpdateRow, Tables, Rows
      <4>2. CASE DeleteRow(p)
        BY <1>1, <4>2 DEF DeleteRow, Tables
      <4>3. CASE InsertRow(p)
        BY <1>1, <2>0, <4>3 DEF InsertRow, Requests, Tables
      <4>. QED
        BY <2>6, <4>1, <4>2, <4>3
    <3>2. Become(p, Drawing) /\ shown' = shown
      BY <2>6 DEF UpdateRow, DeleteRow, InsertRow
    <3>. QED
      BY <3>1, <3>2, IdleIsRequest, PageStep
  <2>7. CASE AddRow(p)
    <3>1. PICK k \in Keys, typed \in [Cols -> Text] :
             Become(p, [Idle EXCEPT !.pc = "insert", !.key = k,
                          !.set = [c \in Cols |-> IF Returned(typed[c]) = Empty THEN Null
                                                  ELSE Returned(typed[c])]])
      BY <2>7 DEF AddRow
    <3>2. PICK set : set = [c \in Cols |-> IF Returned(typed[c]) = Empty THEN Null
                                           ELSE Returned(typed[c])]
      OBVIOUS
    <3>3. set \in Rows
      BY <3>1, <3>2, ReturnedText DEF Rows, Cells
    <3>4. PICK r : r = [Idle EXCEPT !.pc = "insert", !.key = k, !.set = set]
      OBVIOUS
    <3>5. r \in Requests /\ r.pc = "insert" /\ r.key = k
      BY <3>1, <3>3, <3>4, IdleIsRequest DEF Requests, Steps, Rows
    <3>6. Become(p, r) /\ rows' = rows /\ shown' = shown
      BY <2>7, <3>1, <3>2, <3>4 DEF AddRow
    <3>. QED
      BY <1>1, <3>1, <3>5, <3>6, PageStep
  <2>. QED
    BY <1>3, <2>1, <2>2, <2>3, <2>4, <2>5, <2>6, <2>7 DEF Step
<1>. QED
  BY <1>2, <1>3 DEF GridNext

LEMMA GridInvariance == GridSpec => [](GridTypeOK /\ EditsAreOfShownRows)
  BY InitGrid, NextGrid, PTL DEF GridSpec

(* Rows and cells keep their types, and a request that edits or deletes    *)
(* names a key of a row its page has shown, whatever other users do.       *)
THEOREM GridTypeCorrect == GridSpec => []GridTypeOK
  BY GridInvariance, PTL

(* update_row changes only what the dialog sends, and the dialog sends no  *)
(* column its user left alone unless the form altered its text: so no edit *)
(* undoes another user's change of another column, for any number of users *)
(* and columns, and also when it moves the row to another key.             *)
THEOREM EditKeepsOtherColumnsAlways == GridSpec => EditKeepsOtherColumns
<1>1. ASSUME GridTypeOK, EditsAreOfShownRows, GridNext,
             NEW p \in Clients, req[p].pc = "patch", req'[p].pc = "draw",
             NEW c \in Cols \ req[p].touched,
             Returned(Before(shown[p][req[p].key][c])) = Before(shown[p][req[p].key][c])
      PROVE  rows'[req[p].newKey][c] = rows[req[p].key][c]
  <2>1. req \in [Clients -> Requests] /\ rows \in Tables /\ req[p].newKey \in Keys
    BY <1>1 DEF GridTypeOK, Requests
  <2>2. UpdateRow(p)
    <3>1. PICK q \in Clients : Step(q)
      BY <1>1 DEF GridNext
    <3>2. q = p
      BY <1>1, <2>1, <3>1
         DEF Step, Draw, ListRows, Render, Fail, OpenEdit, SaveEdit, CancelEdit, UpdateRow,
             ConfirmDelete, DeleteRow, AddRow, InsertRow, Become
    <3>3. UpdateRow(p) \/ Fail(p)
      BY <1>1, <3>1, <3>2
         DEF Step, Draw, ListRows, Render, OpenEdit, SaveEdit, CancelEdit,
             ConfirmDelete, DeleteRow, AddRow, InsertRow
    <3>4. ~Fail(p)
      BY <1>1, <2>1 DEF Fail, Become, Idle
    <3>. QED
      BY <3>3, <3>4
  <2>3. req[p].set[c] = Null
    BY <1>1 DEF EditsAreOfShownRows, LeavesAlone
  <2>4. rows'[req[p].newKey] = UpdatedRow(rows[req[p].key], req[p].set)
    BY <2>1, <2>2 DEF UpdateRow, Tables
  <2>. QED
    BY <2>3, <2>4 DEF UpdatedRow
<1>2. GridTypeOK /\ EditsAreOfShownRows /\ [GridNext]_gridVars =>
        [\A p \in Clients :
          LET r == req[p]
              before(c) == Before(shown[p][r.key][c]) IN
          r.pc = "patch" /\ req'[p].pc = "draw" =>
             \A c \in Cols \ r.touched :
                 Returned(before(c)) = before(c) => rows'[r.newKey][c] = rows[r.key][c]]_gridVars
  BY <1>1
<1>. QED
  BY <1>2, GridInvariance, PTL DEF GridSpec, EditKeepsOtherColumns
=============================================================================
