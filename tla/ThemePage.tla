----------------------------- MODULE ThemePage ------------------------------
(***************************************************************************)
(* The admin's Theme page: theme.js with routes/theme.py, themes.effective *)
(* and the app_settings row.  Two style elements paint the page: the saved *)
(* one, set at boot and by a save, and above it the live preview.          *)
(***************************************************************************)
EXTENDS Integers, FiniteSets

CONSTANTS Presets,
          Vars,        \* the curated colour variables
          Colors,
          PRESETS,     \* the colours of each preset
          None,
          MaxSaves     \* bound: saves that may be out at once

ASSUME ThemeAssumption ==
    /\ PRESETS \in [Presets -> [Vars -> Colors]]
    /\ None \notin Colors /\ None \notin Presets /\ None \notin [Vars -> Colors]
    /\ MaxSaves \in Nat

VARIABLES stored,      \* the theme in app_settings
          savedStyle,  \* the theme-saved element
          liveStyle,   \* the theme-live element; None: there is none
          view,        \* whether the panel shows the Theme page
          page,        \* the last renderTheme: how far it got
          current,     \* its current
          draft,       \* its draft
          saves,       \* the PATCH requests that are out
          hurried,     \* history: the user went on while a save was out
          foreign      \* history: the theme in the database changed, and this
                       \* page was not told
vars == <<stored, savedStyle, liveStyle, view, page, current, draft, saves, hurried, foreign>>

Themes == [preset : Presets, overrides : [Vars -> Colors \cup {None}]]
Styles == [Vars -> Colors]

\* The preset's map with the overrides on top.
effective_overrides(t) == t.overrides
effective(t) == [v \in Vars |-> IF t.overrides[v] # None THEN t.overrides[v]
                                ELSE PRESETS[t.preset][v]]
NoOverrides == [v \in Vars |-> None]

\* What the user sees.
Painted == IF liveStyle # None THEN liveStyle ELSE savedStyle

Init ==
    /\ stored \in [preset : Presets, overrides : {NoOverrides}]
    /\ savedStyle \in Styles   \* fetched at boot, outdated since or missing
    /\ liveStyle = None
    /\ view = "other"
    /\ page = "none"
    /\ current = stored /\ draft = stored
    /\ saves = {}
    /\ hurried = FALSE
    /\ foreign = (savedStyle # effective(stored))

-----------------------------------------------------------------------------
(* renderTheme *)
OpenTheme ==
    /\ page \in {"none", "ready"}
    /\ view' = "theme" /\ page' = "theme"
    /\ saves' = {[s EXCEPT !.mine = FALSE] : s \in saves}
    /\ UNCHANGED <<stored, savedStyle, liveStyle, current, draft>>

GotTheme ==
    /\ page = "theme"
    /\ page' = "presets"
    /\ current' = stored
    /\ UNCHANGED <<stored, savedStyle, liveStyle, view, draft, saves>>

\* The presets are here: the pickers are built and the first repaint runs,
\* wherever the user has gone since.
GotPresets ==
    /\ page = "presets"
    /\ page' = "ready"
    /\ draft' = current
    /\ liveStyle' = effective(current)
    /\ UNCHANGED <<stored, savedStyle, view, current, saves>>

OpenFails ==
    /\ page \in {"theme", "presets"}
    /\ page' = "none"
    /\ UNCHANGED <<stored, savedStyle, liveStyle, view, current, draft, saves>>

\* Another view clears the panel; nothing else of the page is undone.
Navigate ==
    /\ view = "theme"
    /\ view' = "other"
    /\ UNCHANGED <<stored, savedStyle, liveStyle, page, current, draft, saves>>

\* The pickers and buttons can be used.
Usable == view = "theme" /\ page = "ready"

Repaint == liveStyle' = effective(draft')
Edit == Repaint /\ UNCHANGED <<stored, savedStyle, view, page, current, saves>>

PickPreset ==
    /\ Usable
    /\ \E p \in Presets : draft' = [draft EXCEPT !.preset = p]
    /\ Edit

\* The preset's own colour is no override.
Override(p, v, c) == IF c = PRESETS[p][v] THEN None ELSE c

PickColor ==
    /\ Usable
    /\ \E v \in Vars, c \in Colors :
          draft' = [draft EXCEPT !.overrides[v] = Override(draft.preset, v, c)]
    /\ Edit

ResetColor ==
    /\ Usable
    /\ \E v \in Vars :
          draft.overrides[v] # None /\ draft' = [draft EXCEPT !.overrides[v] = None]
    /\ Edit

ResetAll ==
    /\ Usable
    /\ draft' = [draft EXCEPT !.overrides = NoOverrides]
    /\ Edit

Cancelled_keeps == draft
Cancelled == current

Cancel ==
    /\ Usable
    /\ draft' = Cancelled
    /\ liveStyle' = None
    /\ UNCHANGED <<stored, savedStyle, view, page, current, saves>>

-----------------------------------------------------------------------------
(* Save and PATCH /api/theme *)
Save ==
    /\ Usable
    /\ Cardinality(saves) < MaxSaves
    /\ saves' = saves \cup {[theme |-> draft, served |-> FALSE, mine |-> TRUE]}
    /\ UNCHANGED <<stored, savedStyle, liveStyle, view, page, current, draft>>

\* validate accepts what the page sends; set_setting upserts the row.
ServeSave(s) ==
    /\ ~s.served
    /\ stored' = s.theme
    /\ saves' = (saves \ {s}) \cup {[s EXCEPT !.served = TRUE]}
    /\ UNCHANGED <<savedStyle, liveStyle, view, page, current, draft>>

\* applyTheme of the answer; current belongs to the page that saved.
Applied_live(t) == liveStyle' = effective(t) /\ UNCHANGED savedStyle
Applied(t) == liveStyle' = None /\ savedStyle' = effective(t)

SaveDone(s) ==
    /\ s.served
    /\ saves' = saves \ {s}
    /\ current' = IF s.mine THEN s.theme ELSE current
    /\ Applied(s.theme)
    /\ UNCHANGED <<stored, view, page, draft>>

\* No answer, or one that says no.
SaveFails(s) ==
    /\ saves' = saves \ {s}
    /\ UNCHANGED <<stored, savedStyle, liveStyle, view, page, current, draft>>

\* Another admin saves a theme.
SavedElsewhere ==
    /\ \E t \in Themes : stored' = t
    /\ UNCHANGED <<savedStyle, liveStyle, view, page, current, draft, saves>>

UserStep ==
    OpenTheme \/ PickPreset \/ PickColor \/ ResetColor \/ ResetAll \/ Cancel \/ Save

Next ==
    \/ /\ UserStep
       /\ hurried' = (hurried \/ saves # {})
       /\ UNCHANGED foreign
    \/ /\ \/ GotTheme \/ GotPresets \/ OpenFails \/ Navigate
          \/ \E s \in saves : ServeSave(s) \/ SaveDone(s) \/ (~s.served /\ SaveFails(s))
       /\ UNCHANGED <<hurried, foreign>>
    \/ /\ SavedElsewhere \/ \E s \in saves : s.served /\ SaveFails(s)
       /\ foreign' = TRUE
       /\ UNCHANGED hurried

Spec == Init /\ [][Next]_vars

-----------------------------------------------------------------------------
TypeOK ==
    /\ stored \in Themes /\ current \in Themes /\ draft \in Themes
    /\ savedStyle \in Styles
    /\ liveStyle \in Styles \cup {None}
    /\ view \in {"theme", "other"}
    /\ page \in {"none", "theme", "presets", "ready"}
    /\ saves \subseteq [theme : Themes, served : BOOLEAN, mine : BOOLEAN]

(* What the user sees is what the pickers say, after every pick, reset,    *)
(* cancel and save, in the preview or in the saved style where it was      *)
(* removed: for a user who waits for his saves, while nobody else saves.   *)
PickersShowPainted ==
    page = "ready" /\ view = "theme" /\ saves = {} /\ ~hurried /\ ~foreign
        => Painted = effective(draft)

(* The saved style is the theme in the database, so that every reload and  *)
(* every cancel falls back to what other users see.                        *)
SavedStyleIsStored ==
    saves = {} /\ ~hurried /\ ~foreign => savedStyle = effective(stored)
=============================================================================
