----------------------------- MODULE MCStructure -----------------------------
(* Instances of Structure for TLC. *)
EXTENDS Structure
CONSTANTS c1, c2, a, b, x, y, o, i1, i2

TwoClients == {c1, c2}
TwoTables == {a, b}
TwoColumns == {x, y}
OneName == {o}
TwoConns == {i1, i2}
OneConn == {i2}
Bits == {0, 1}

Zeros == [v \in Attrs |-> 0]
Plain(t) == [Empty EXCEPT ![t] = [cols |-> [v \in {x} |-> Zeros], fks |-> {}, keys |-> {}, idx |-> {}]]
Both == [t \in Tables |-> Plain(t)[t]]
BothIndexed == [Both EXCEPT ![b].idx = {o}]
Starts == {Both, BothIndexed}

\* Two users change the column x of a: one all of it, the other a part.
ChangeAll == [Ask("alter", a) EXCEPT !.col = x, !.set = [v \in Attrs |-> 1], !.to = y]
ChangePart == [Ask("alter", a) EXCEPT !.col = x, !.set = [NoChange EXCEPT !["nullable"] = 1]]
OneMenu ==
    {ChangeAll, ChangePart,
     [Ask("alter", a) EXCEPT !.col = x],
     [Ask("rename", a) EXCEPT !.to = b], [Ask("rename", b) EXCEPT !.to = a],
     Ask("drop", b), [Ask("create", b) EXCEPT !.col = x, !.set = Zeros],
     [Ask("addcol", a) EXCEPT !.col = y, !.set = Zeros], [Ask("dropcol", a) EXCEPT !.col = x],
     [Ask("addfk", a) EXCEPT !.col = x, !.obj = o, !.to = b],
     [Ask("addfk", b) EXCEPT !.col = x, !.obj = o, !.to = a],
     [Ask("addkey", a) EXCEPT !.col = x, !.obj = o], [Ask("dropcon", a) EXCEPT !.obj = o],
     [Ask("addidx", a) EXCEPT !.col = x, !.obj = o], [Ask("dropidx", a) EXCEPT !.obj = o],
     Ask("session", Null), Ask("get", a)}
=============================================================================
