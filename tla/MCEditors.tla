----------------------------- MODULE MCEditors ------------------------------
(* An instance of Grid and of ThemePage for TLC.  The two editors share no *)
(* state: in a behaviour one of them moves and the other rests.            *)
EXTENDS ThemePage, Grid, TLC
CONSTANTS p1, p2, k1, k2, x

VARIABLE editor   \* the one that moves

TwoKeys == {k1, k2}
OneCol == {x}
TwoClients == {p1, p2}
\* The form returns the third text without its space and its line break.
ThreeTexts == {"", "ab", " a\nb"}
WithoutBreaks == [t \in ThreeTexts |-> IF t = " a\nb" THEN " ab" ELSE t]
WithoutSpace == [t \in {"", "ab", " ab"} |-> IF t = " ab" THEN "ab" ELSE t]

TwoPresets == {"foundry", "slate"}
OneVar == {"soot"}
TwoColors == {"dark", "light"}
Palette == [p \in TwoPresets |-> [v \in OneVar |-> IF p = "foundry" THEN "dark" ELSE "light"]]

Symmetry == Permutations(Clients) \cup Permutations(Keys) \cup Permutations(Cols)

EmptyTable == rows = [k \in Keys |-> NoRow]
FoundryPainted == stored.preset = "foundry" /\ savedStyle = effective(stored)

EditorsInit ==
    /\ editor \in {"grid", "theme"}
    /\ GridInit /\ Init
    /\ editor = "grid" => FoundryPainted
    /\ editor = "theme" => EmptyTable

EditorsNext ==
    \/ editor = "grid" /\ GridNext /\ UNCHANGED <<vars, editor>>
    \/ editor = "theme" /\ Next /\ UNCHANGED <<gridVars, editor>>

EditorsSpec == EditorsInit /\ [][EditorsNext]_<<vars, gridVars, editor>>
=============================================================================
