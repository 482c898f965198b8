------------------------------ MODULE Registry ------------------------------
(***************************************************************************)
(* The server registry (the servers table) and the active server of a      *)
(* session: serverdb.py, routes/servers.py, deps.active_server and the     *)
(* seeding step of init-auth.  Setting a default is two autocommit         *)
(* statements and so is looking one up; other threads run in between.      *)
(***************************************************************************)
EXTENDS Integers, FiniteSets

CONSTANTS MaxId,      \* bound: ids the serial column hands out
          Labels,
          Workers,    \* request threads, and a run of init-auth
          Sessions,
          None

Ids == 1 .. MaxId

ASSUME RegistryAssumption ==
    /\ MaxId \in Nat
    /\ IsFiniteSet(Workers)
    /\ None \notin Labels /\ None \notin Ids

VARIABLES label,      \* the label of each row; None: no such row
          isDefault,  \* the rows whose is_default is true
          nextId,     \* the sequence behind the id column
          session,    \* server_id in the cookie of each session
          req,        \* what each thread is doing
          promised    \* history: the default the completed requests leave behind
vars == <<label, isDefault, nextId, session, req, promised>>

Steps == {"idle", "clear", "write", "default", "lowest"}
Idle == [pc |-> "idle", id |-> None, label |-> None, default |-> FALSE]

rows == {i \in Ids : label[i] # None}

Init ==
    /\ label = [i \in Ids |-> None]
    /\ isDefault = {}
    /\ nextId = 1
    /\ session = [s \in Sessions |-> None]
    /\ req = [w \in Workers |-> Idle]
    /\ promised = {}

Return(w) == req' = [req EXCEPT ![w] = Idle]
Goto(w, pc) == req' = [req EXCEPT ![w] = [Idle EXCEPT !.pc = pc]]

\* create_server and update_server clear the flags first if the body asks
\* for the default.
FirstStep_never(default) == "write"
FirstStep(default) == IF default THEN "clear" ELSE "write"

Write(w, id, l, default) ==
    req' = [req EXCEPT ![w] = [pc |-> FirstStep(default), id |-> id, label |-> l,
                               default |-> default]]

-----------------------------------------------------------------------------
\* Bound: the inserts under way leave an id for another one.
Inserting == {v \in Workers : req[v].pc \in {"clear", "write"} /\ req[v].id = None}
IdsLeft == nextId + Cardinality(Inserting) <= MaxId

(* POST /api/servers *)
CreateServer(w) ==
    /\ req[w].pc = "idle"
    /\ IdsLeft
    /\ \E l \in Labels, default \in BOOLEAN : Write(w, None, l, default)
    /\ UNCHANGED <<label, isDefault, nextId, session, promised>>

\* init-auth registers DATABASE_URL when list_servers returns nothing.
SeedRegistry(w) ==
    /\ req[w].pc = "idle"
    /\ IdsLeft
    /\ rows = {}
    /\ \E l \in Labels : Write(w, None, l, TRUE)
    /\ UNCHANGED <<label, isDefault, nextId, session, promised>>

(* PATCH /api/servers/{id}; an unknown id is a 404 that changes nothing. *)
UpdateServer(w) ==
    /\ req[w].pc = "idle"
    /\ \E i \in rows, l \in Labels, default \in BOOLEAN : Write(w, i, l, default)
    /\ UNCHANGED <<label, isDefault, nextId, session, promised>>

ClearDefault(w) ==
    /\ req[w].pc = "clear"
    /\ isDefault' = {}
    /\ req' = [req EXCEPT ![w].pc = "write"]
    /\ UNCHANGED <<label, nextId, session, promised>>

Taken_never(l, i) == FALSE
Taken(l, i) == \E j \in rows : j # i /\ label[j] = l

\* The unique label refuses the write (409), or the row to update has been
\* deleted since it was looked up (500).
Refused(w) ==
    LET r == req[w] IN
    IF r.id = None THEN Taken(r.label, nextId) ELSE r.id \notin rows \/ Taken(r.label, r.id)

\* A refused request for the default has cleared the flags all the same.
Refuse(w) ==
    /\ promised' = IF req[w].default THEN promised \cap isDefault ELSE promised
    /\ UNCHANGED <<label, isDefault>>

Flagged_off(i, default) == isDefault \ {i}
Flagged(i, default) == IF default THEN isDefault \cup {i} ELSE isDefault \ {i}

Store(w, i) ==
    LET r == req[w] IN
    /\ label' = [label EXCEPT ![i] = r.label]
    /\ isDefault' = Flagged(i, r.default)
    /\ promised' = IF r.default THEN {i} ELSE promised \ {i}

\* The INSERT takes an id from the sequence even when it is refused.
Insert(w) ==
    /\ req[w].pc = "write" /\ req[w].id = None
    /\ nextId <= MaxId
    /\ nextId' = nextId + 1
    /\ IF Refused(w) THEN Refuse(w) ELSE Store(w, nextId)
    /\ Return(w)
    /\ UNCHANGED session

\* The UPDATE, and the read of the row the response shows.
Update(w) ==
    /\ req[w].pc = "write" /\ req[w].id # None
    /\ IF Refused(w) THEN Refuse(w) ELSE Store(w, req[w].id)
    /\ Return(w)
    /\ UNCHANGED <<nextId, session>>

(* DELETE /api/servers/{id}, a single statement *)
DeleteServer(w) ==
    /\ req[w].pc = "idle"
    /\ \E i \in rows :
          /\ label' = [label EXCEPT ![i] = None]
          /\ isDefault' = isDefault \ {i}
          /\ promised' = promised \ {i}
    /\ UNCHANGED <<nextId, session, req>>

-----------------------------------------------------------------------------
(* POST /api/active-server: the row is read and the cookie of the response *)
(* carries its id.                                                         *)
SetActiveServer(w) ==
    /\ req[w].pc = "idle"
    /\ \E s \in Sessions, i \in rows : session' = [session EXCEPT ![s] = i]
    /\ UNCHANGED <<label, isDefault, nextId, req, promised>>

\* session.clear() of a logout.  A login sets user_id and email only.
Logout(w) ==
    /\ req[w].pc = "idle"
    /\ \E s \in Sessions : session' = [session EXCEPT ![s] = None]
    /\ UNCHANGED <<label, isDefault, nextId, req, promised>>

(* active_server and GET /api/active-server: a session whose choice is     *)
(* registered gets it and changes nothing; any other asks for the default. *)
Chosen(s) == session[s] \in rows

ActiveServer(w) ==
    /\ req[w].pc = "idle"
    /\ \E s \in Sessions : ~Chosen(s)
    /\ Goto(w, "default")
    /\ UNCHANGED <<label, isDefault, nextId, session, promised>>

\* default_server, first query: a row with the flag ends the search.
FindDefault(w) ==
    /\ req[w].pc = "default"
    /\ IF isDefault # {} THEN Return(w) ELSE Goto(w, "lowest")
    /\ UNCHANGED <<label, isDefault, nextId, session, promised>>

\* Second query: the row with the lowest id, or a 503.
FindLowest(w) ==
    /\ req[w].pc = "lowest"
    /\ Return(w)
    /\ UNCHANGED <<label, isDefault, nextId, session, promised>>

Step(w) ==
    \/ CreateServer(w) \/ SeedRegistry(w) \/ UpdateServer(w)
    \/ ClearDefault(w) \/ Insert(w) \/ Update(w) \/ DeleteServer(w)
    \/ SetActiveServer(w) \/ Logout(w)
    \/ ActiveServer(w) \/ FindDefault(w) \/ FindLowest(w)

Next == \E w \in Workers : Step(w)

Spec == Init /\ [][Next]_vars
-----------------------------------------------------------------------------
TypeOK ==
    /\ label \in [Ids -> Labels \cup {None}]
    /\ \A i, j \in rows : label[i] = label[j] => i = j
    /\ \A i \in rows : i < nextId
    /\ isDefault \subseteq rows
    /\ nextId \in 1 .. MaxId + 1
    /\ session \in [Sessions -> Ids \cup {None}]
    /\ req \in [Workers -> [pc : Steps, id : Ids \cup {None},
                            label : Labels \cup {None}, default : BOOLEAN]]
    /\ \A w \in Workers : req[w].pc \in {"clear", "write"} => req[w].label \in Labels
    /\ promised \subseteq Ids

(* "Only one row may have is_default = true": the sentence as it stands.   *)
(* It is not so: two requests that both have cleared the flags both write. *)
OneDefault == Cardinality(isDefault) <= 1

(* What is true of it: of n request threads each can add a default after   *)
(* the flags were cleared, but one that has not cleared them cannot, so    *)
(* there are never more than n defaults, however many requests are served, *)
(* and one thread alone keeps the sentence.                                *)
DefaultsBounded == Cardinality(isDefault) <= Cardinality(Workers)

\* w has cleared the flags and will set its own.
Clearing == {w \in Workers : req[w].pc = "write" /\ req[w].default}

(* "If the session has no server_id, it falls back to the default server": *)
(* a lookup misses the default that the completed requests left behind, and*)
(* takes the lowest id, only while another request is between its clearing *)
(* of the flags and its write.                                             *)
FallbackFindsDefault ==
    [][\A w \in Workers :
          req[w].pc = "default" /\ req'[w].pc = "lowest"
             => promised = {} \/ Clearing # {}]_vars

(* "Setting a new default clears the flag on all others": a create or      *)
(* update that is refused sets no default and leaves the flags as they are.*)
RefusalKeepsDefaults ==
    [][\A w \in Workers :
          req[w].pc = "write" /\ req'[w] = Idle /\ Refused(w)
             => promised \subseteq isDefault']_vars
=============================================================================
