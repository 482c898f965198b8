------------------------------ MODULE Sidebar -------------------------------
(***************************************************************************)
(* The sidebar tree and the server picker of the page: loadSidebar,        *)
(* renderServerPicker and the database dialogs of app.js and databases.js. *)
(* JavaScript runs one callback at a time, but every await lets another    *)
(* one run, and responses come in any order.  A session names its server   *)
(* in the cookie, of which every request carries a copy, or names none: it *)
(* then follows the registry's default, which is looked up anew for each   *)
(* request and may be moved by a colleague at any time.                    *)
(***************************************************************************)
EXTENDS Integers, FiniteSets, Functions

CONSTANTS Servers,      \* the servers that are or were registered
          Dbs,          \* database names
          Tasks,        \* async handlers that may be suspended at once
          MaxInFlight,  \* bound: the user acts while fewer requests are out
          Rewrites,     \* SessionMiddleware may store the request's copy of the
                        \* cookie with every response, not only a changed one
          None

ASSUME SidebarAssumption ==
    /\ IsFiniteSet(Tasks) /\ MaxInFlight \in Nat /\ Rewrites \in BOOLEAN
    /\ None \notin Servers /\ None \notin Dbs

VARIABLES dbs,          \* the databases of each server
          default,      \* what default_server returns
          registered,   \* the rows of the registry
          session,      \* the server the browser's cookie names, or None
          picker,       \* the server the picker shows
          task,         \* the suspended handlers
          tree,         \* the database entries under #sidebar
          fetches,      \* table lists asked for: the populate calls
          expandedDbs,
          hurried,      \* history: the user acted while a request was out
          drifted       \* history: a colleague's change of the registry gave
                        \* the session another server since the last list
registry == <<default, registered>>
vars == <<dbs, registry, session, picker, task, tree, fetches, expandedDbs, hurried, drifted>>

\* A database entry: the handler that made it, the server whose list had it.
Entries == [load : Tasks, server : Servers, db : Dbs]
Boxes == [open : BOOLEAN, loaded : BOOLEAN]
Cookies == Servers \cup {None}
Fetches == [entry : Entries, cookie : Cookies, attached : BOOLEAN]

\* server: what the picker is set to, the list came from, or the entry to drop has.
Steps == {"idle", "me", "databases", "listed", "post", "create", "confirm", "drop", "changed"}
Idle == [pc |-> "idle", cookie |-> None, server |-> None, db |-> None, list |-> {}]

\* active_server: the cookie's server if it is still registered, or the default.
Target(c) == IF c \in registered THEN c ELSE default

\* The page of a session that has switched before, or of one after its login.
Init ==
    /\ dbs \in [Servers -> SUBSET Dbs]
    /\ registered = Servers /\ default \in Servers
    /\ session \in Cookies
    /\ picker = Target(session)
    /\ task = [t \in Tasks |-> Idle]
    /\ tree = <<>>
    /\ fetches = {}
    /\ expandedDbs = {}
    /\ hurried = FALSE
    /\ drifted = FALSE

Busy == {t \in Tasks : task[t].pc # "idle"}
Quiet == Busy = {} /\ fetches = {}

\* The user does something with a free handler.
UserActs(t) ==
    /\ task[t].pc = "idle"
    /\ Cardinality(Busy) + Cardinality(fetches) < MaxInFlight

Resume(t, r) == task' = [task EXCEPT ![t] = r]
Finish(t) == Resume(t, Idle)

\* The cookie of the browser after a response to a request that carried c.
CookieAfter(c) == IF Rewrites THEN {session, c} ELSE {session}

-----------------------------------------------------------------------------
(* loadSidebar *)

\* innerHTML = "": the entries are gone, replies to their populate calls
\* change detached nodes.
Detached_not(F) == F
Detached(F) == {[f EXCEPT !.attached = FALSE] : f \in F}
Clear == tree' = <<>> /\ fetches' = Detached(fetches)

LoadSidebar(t, cookie) ==
    /\ Clear
    /\ Resume(t, [Idle EXCEPT !.pc = "me", !.cookie = cookie])

\* The refresh that the dialogs of a table call.
Reload(t) ==
    /\ UserActs(t)
    /\ LoadSidebar(t, session)
    /\ UNCHANGED <<dbs, session, picker, expandedDbs>>

\* The reply to /api/me; a failure is caught and stores no cookie.
GotMe(t) ==
    /\ task[t].pc = "me"
    /\ \E jar \in CookieAfter(task[t].cookie) :
          /\ session' = jar
          /\ Resume(t, [Idle EXCEPT !.pc = "databases", !.cookie = jar])
    /\ UNCHANGED <<dbs, picker, tree, fetches, expandedDbs>>

ListDatabases(t) ==
    LET s == Target(task[t].cookie) IN
    /\ task[t].pc = "databases"
    /\ Resume(t, [task[t] EXCEPT !.pc = "listed", !.server = s, !.list = dbs[s]])
    /\ UNCHANGED <<dbs, session, picker, tree, fetches, expandedDbs>>

\* One entry per database, expanded iff its name is in expandedDbs; the
\* table lists of the expanded ones are fetched.
NewEntries(t) == [load : {t}, server : {task[t].server}, db : task[t].list]
Expanded(e) == e.db \in expandedDbs

ShowDatabases(t) ==
    /\ task[t].pc = "listed"
    /\ tree' = [e \in DOMAIN tree \cup NewEntries(t) |->
                  IF e \in DOMAIN tree THEN tree[e]
                  ELSE [open |-> Expanded(e), loaded |-> FALSE]]
    /\ session' \in CookieAfter(task[t].cookie)
    /\ fetches' = fetches \cup [entry : {e \in NewEntries(t) : Expanded(e)},
                                cookie : {task[t].cookie}, attached : {TRUE}]
    /\ Finish(t)
    /\ UNCHANGED <<dbs, picker, expandedDbs>>

\* loadSidebar throws; nothing is appended.
LoadFails(t) ==
    /\ task[t].pc \in {"databases", "listed"}
    /\ session' \in CookieAfter(task[t].cookie)
    /\ Finish(t)
    /\ UNCHANGED <<dbs, picker, tree, fetches, expandedDbs>>

(* The toggle of an entry, and populate. *)
ToggledSet_keeps(e, opens) == IF opens THEN expandedDbs \cup {e.db} ELSE expandedDbs
ToggledSet(e, opens) == IF opens THEN expandedDbs \cup {e.db} ELSE expandedDbs \ {e.db}

Toggle(e) ==
    LET opens == ~tree[e].open IN
    /\ Cardinality(Busy) + Cardinality(fetches) < MaxInFlight
    /\ tree' = [tree EXCEPT ![e].open = opens]
    /\ expandedDbs' = ToggledSet(e, opens)
    /\ fetches' = IF opens /\ ~tree[e].loaded
                  THEN fetches \cup {[entry |-> e, cookie |-> session, attached |-> TRUE]}
                  ELSE fetches
    /\ UNCHANGED <<dbs, session, picker, task>>

\* A failed fetch is caught: the list stays empty but counts as loaded.
Populated(f) ==
    /\ fetches' = fetches \ {f}
    /\ tree' = IF f.attached THEN [tree EXCEPT ![f.entry].loaded = TRUE] ELSE tree
    /\ session' \in CookieAfter(f.cookie)
    /\ UNCHANGED <<dbs, picker, task, expandedDbs>>

-----------------------------------------------------------------------------
(* The picker of renderServerPicker *)
SwitchServer(t) ==
    /\ UserActs(t)
    /\ \E s \in Servers \ {picker} :
          /\ picker' = s
          /\ Resume(t, [Idle EXCEPT !.pc = "post", !.cookie = session, !.server = s])
    /\ UNCHANGED <<dbs, session, tree, fetches, expandedDbs>>

\* The answer to POST /api/active-server brings the new cookie; it is served
\* and answered in one step, a deletion in between being one right after it.
AfterSwitch_noreload(t, s) == Finish(t) /\ UNCHANGED <<tree, fetches>>
AfterSwitch(t, s) == LoadSidebar(t, s)

Switched(t) ==
    /\ task[t].pc = "post" /\ task[t].server \in registered
    /\ session' = task[t].server
    /\ AfterSwitch(t, task[t].server)
    /\ UNCHANGED <<dbs, picker, expandedDbs>>

\* A server deleted since (404, before the cookie is changed), or no answer:
\* showError, and the tree stays.
CookieAfterFailure_stored(t) == {task[t].server}
CookieAfterFailure(t) == CookieAfter(task[t].cookie)

SwitchFails(t) ==
    /\ task[t].pc = "post"
    /\ session' \in CookieAfterFailure(t)
    /\ Finish(t)
    /\ UNCHANGED <<dbs, picker, tree, fetches, expandedDbs>>

(* newDatabaseDialog, whose form keeps nothing that changes meanwhile, and *)
(* dropDatabaseDialog, which keeps the entry while the user confirms.      *)
NewDatabase(t) ==
    /\ UserActs(t)
    /\ \E d \in Dbs : Resume(t, [Idle EXCEPT !.pc = "create", !.cookie = session, !.db = d])
    /\ UNCHANGED <<dbs, session, picker, tree, fetches, expandedDbs>>

DropDatabase(t) ==
    /\ UserActs(t)
    /\ \E e \in DOMAIN tree :
          Resume(t, [Idle EXCEPT !.pc = "confirm", !.server = e.server, !.db = e.db])
    /\ UNCHANGED <<dbs, session, picker, tree, fetches, expandedDbs>>

ConfirmDrop(t) ==
    /\ task[t].pc = "confirm"
    /\ Resume(t, [task[t] EXCEPT !.pc = "drop", !.cookie = session])
    /\ UNCHANGED <<dbs, session, picker, tree, fetches, expandedDbs>>

CancelDrop(t) ==
    /\ task[t].pc = "confirm"
    /\ Finish(t)
    /\ UNCHANGED <<dbs, session, picker, tree, fetches, expandedDbs>>

\* POST and DELETE /api/databases on the server the session has by then.
CreateServed(t) ==
    LET r == task[t]
        s == Target(r.cookie) IN
    /\ r.pc = "create" /\ r.db \notin dbs[s]
    /\ dbs' = [dbs EXCEPT ![s] = @ \cup {r.db}]
    /\ Resume(t, [r EXCEPT !.pc = "changed"])
    /\ UNCHANGED <<session, picker, tree, fetches, expandedDbs>>

DropServed(t) ==
    LET r == task[t]
        s == Target(r.cookie) IN
    /\ r.pc = "drop" /\ r.db \in dbs[s]
    /\ dbs' = [dbs EXCEPT ![s] = @ \ {r.db}]
    /\ Resume(t, [r EXCEPT !.pc = "changed"])
    /\ UNCHANGED <<session, picker, tree, fetches, expandedDbs>>

Changed(t) ==
    /\ task[t].pc = "changed"
    /\ \E jar \in CookieAfter(task[t].cookie) : session' = jar /\ LoadSidebar(t, jar)
    /\ UNCHANGED <<dbs, picker, expandedDbs>>

\* Refused (400, 404, 409, 503) or unanswered: showError.
ChangeFails(t) ==
    /\ task[t].pc \in {"create", "drop", "changed"}
    /\ session' \in CookieAfter(task[t].cookie)
    /\ Finish(t)
    /\ UNCHANGED <<dbs, picker, tree, fetches, expandedDbs>>

(* Other users create and drop databases too, *)
ChangedElsewhere ==
    /\ \E s \in Servers, d \in Dbs :
          dbs' = [dbs EXCEPT ![s] = IF d \in @ THEN @ \ {d} ELSE @ \cup {d}]
    /\ UNCHANGED <<session, picker, task, tree, fetches, expandedDbs>>

(* and make another server the default, or delete one; the registry is not *)
(* emptied, which would only add failures.                                 *)
MoveDefault ==
    /\ default' \in registered \ {default}
    /\ UNCHANGED <<dbs, registered, session, picker, task, tree, fetches, expandedDbs>>

DeleteServer ==
    /\ \E s \in registered : registered' = registered \ {s}
    /\ IF default \in registered' THEN default' = default ELSE default' \in registered'
    /\ UNCHANGED <<dbs, session, picker, task, tree, fetches, expandedDbs>>

UserStep(t) == Reload(t) \/ SwitchServer(t) \/ NewDatabase(t) \/ DropDatabase(t)

Step(t) ==
    \/ GotMe(t) \/ ShowDatabases(t) \/ LoadFails(t)
    \/ Switched(t) \/ SwitchFails(t) \/ ConfirmDrop(t) \/ CancelDrop(t)
    \/ CreateServed(t) \/ DropServed(t) \/ Changed(t) \/ ChangeFails(t)

Next ==
    \/ /\ \/ \E t \in Tasks : UserStep(t)
          \/ \E e \in DOMAIN tree : Toggle(e)
       /\ hurried' = (hurried \/ ~Quiet)
       /\ UNCHANGED <<registry, drifted>>
    \/ /\ \/ \E t \in Tasks : Step(t)
          \/ \E f \in fetches : Populated(f)
          \/ ChangedElsewhere
       /\ UNCHANGED <<registry, hurried, drifted>>
    \/ /\ \E t \in Tasks : ListDatabases(t)
       /\ drifted' = FALSE
       /\ UNCHANGED <<registry, hurried>>
    \/ /\ MoveDefault \/ DeleteServer
       /\ drifted' = (drifted \/ Target(session)' # Target(session))
       /\ UNCHANGED hurried

Spec == Init /\ [][Next]_vars

-----------------------------------------------------------------------------
TypeOK ==
    /\ dbs \in [Servers -> SUBSET Dbs]
    /\ registered \subseteq Servers /\ default \in registered
    /\ session \in Cookies /\ picker \in Servers
    /\ task \in [Tasks -> [pc : Steps, cookie : Cookies, server : Cookies,
                          db : Dbs \cup {None}, list : SUBSET Dbs]]
    /\ \A t \in Tasks :
          /\ task[t].pc \in {"post", "listed"} => task[t].server \in Servers
          /\ task[t].pc = "create" => task[t].db \in Dbs
    /\ DOMAIN tree \subseteq Entries /\ Range(tree) \subseteq Boxes
    /\ fetches \subseteq Fetches
    /\ \A f \in fetches : f.attached => f.entry \in DOMAIN tree
    /\ expandedDbs \subseteq Dbs

(* "Switching it calls POST /api/active-server and reloads the sidebar     *)
(* database tree for the newly selected server": once nothing is pending,  *)
(* the entries are those of the server the next request goes to, whatever  *)
(* failed on the way, for a user who has waited for every answer, until a  *)
(* colleague moves the default his session follows, or deletes the server  *)
(* it names; the next list makes it right again.                           *)
TreeShowsActiveServer ==
    Quiet /\ ~hurried /\ ~drifted => \A e \in DOMAIN tree : e.server = Target(session)

(* "loadSidebar renders a database expanded iff its name is in the set",   *)
(* and toggles, reloads and switches in any order keep it so, as long as   *)
(* the tree has one entry of that name.                                    *)
ExpandedIffInSet ==
    \A e \in DOMAIN tree :
        (\A f \in DOMAIN tree \ {e} : f.db # e.db)
            => (tree[e].open <=> e.db \in expandedDbs)

(* A database is dropped on the server whose entry the user confirmed, not *)
(* on one that happens to have a database of the same name, even if he     *)
(* takes his time over the dialog while others create and drop databases;  *)
(* for a user who has waited for every answer, and as long as no colleague *)
(* has given his session another server since the list.                    *)
DropHitsShownServer ==
    [][\A t \in Tasks :
          task[t].pc = "drop" /\ task'[t].pc = "changed" /\ ~hurried /\ ~drifted
             => dbs'[task[t].server] # dbs[task[t].server]]_vars
=============================================================================
