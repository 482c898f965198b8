-------------------------------- MODULE Page --------------------------------
(***************************************************************************)
(* The screens of the page and what its main panel shows: app.js, api.js   *)
(* and the views in users.js, servers.js, query.js, databases.js and       *)
(* tables.js.  One callback runs at a time, but at every await the user    *)
(* may open another view, press a button, sign out or switch the server,   *)
(* and the answers arrive in any order.  A session that names no server    *)
(* follows the registry's default, which colleagues may move at any time.  *)
(***************************************************************************)
EXTENDS Integers, FiniteSets, Sequences

CONSTANTS Servers,            \* the registered servers: if one is deleted,
                              \* another may be registered in its place
          NoServer,           \* the session names none, or a deleted one
          Pages,              \* views of their own: users, servers
          Dbs,                \* databases, each with one table
          Calls,              \* handlers that may be suspended at once
          None

ASSUME PageAssumption ==
    /\ IsFiniteSet(Calls)
    /\ NoServer \notin Servers /\ None \notin Servers \cup Dbs \cup {NoServer}
    /\ Pages \cap {"none", "console", "overview", "table"} = {}

VARIABLES visible,   \* the screens without class "hidden"
          default,   \* what default_server returns
          cookie,    \* the server the session names, None: no session
          selected,  \* the database of app.js's selected
          panel,     \* the heading of #panel and what was appended below it
          call,      \* the suspended handlers
          chosen,    \* history: the view the user opened or used last
          seen       \* history: what has happened out of turn
vars == <<visible, default, cookie, selected, panel, call, chosen, seen>>

Jars == Servers \cup {NoServer, None}

\* active_server: the session's server, or the default.  A request is served
\* and answered in one step: where that makes a difference, the registry has
\* changed while it was out.
Target(jar) == IF jar \in Servers THEN jar ELSE default

View(kind, db) == [kind |-> kind, db |-> db]
Views == {View(k, None) : k \in Pages} \cup {View("console", d) : d \in Dbs \cup {None}}
           \cup {View(k, d) : k \in {"overview", "table"}, d \in Dbs}
NoView == View("none", None)

\* view: what is rendered; from: the servers the two answers of an overview
\* come from, or the one to switch to; attached: the element that a table is
\* to fill is still in the panel.
Idle == [kind |-> "idle", cookie |-> None, view |-> NoView, from |-> {}, attached |-> FALSE]
Request(kind, v, from, jar) ==
    [kind |-> kind, cookie |-> jar, view |-> v, from |-> from,
     attached |-> kind = "view" /\ v.kind = "table"]
Parts == [view : Views, from : SUBSET Servers]

Out == {k \in Calls : call[k].kind # "idle"}
Kinds(K) == {call[k].kind : k \in K}
Session == {"login", "logout", "switch"}   \* the requests that change the cookie

Init ==
    /\ visible = {}
    /\ default \in Servers
    /\ cookie \in Jars
    /\ selected = None
    /\ panel = [head |-> NoView, parts |-> <<>>]
    /\ \E k \in Calls : call = [j \in Calls |-> IF j = k THEN Request("boot", NoView, {}, cookie)
                                                ELSE Idle]
    /\ chosen = NoView
    /\ seen = {}

-----------------------------------------------------------------------------
Become(k, r) == call' = [call EXCEPT ![k] = r]
Finish(k) == Become(k, Idle)

\* SessionMiddleware stores the session a request came with again.
CookieAfter(k) == {cookie} \cup ({call[k].cookie} \ {None})

\* A view starts: all but the overview clear the panel and set the heading
\* before they ask for their data.
Detached(K) == [k \in Calls |-> IF k \in K THEN [call[k] EXCEPT !.attached = FALSE] ELSE call[k]]
ClearsFirst(v) == v.kind # "overview"
Render_appends(k, v, jar) ==
    /\ panel' = IF ClearsFirst(v) THEN [panel EXCEPT !.head = v] ELSE panel
    /\ call' = [(IF ClearsFirst(v) THEN Detached(Out) ELSE call) EXCEPT
                  ![k] = Request(IF ClearsFirst(v) THEN "view" ELSE "databases", v, {}, jar)]
Render(k, v, jar) ==
    /\ panel' = IF ClearsFirst(v) THEN [head |-> v, parts |-> <<>>] ELSE panel
    /\ call' = [(IF ClearsFirst(v) THEN Detached(Out) ELSE call) EXCEPT
                  ![k] = Request(IF ClearsFirst(v) THEN "view" ELSE "databases", v, {}, jar)]

\* load: "start" if init awaits the sidebar, "load" otherwise.
ShowApp_overlogin(k, load, jar) ==
    /\ visible' = (visible \ {"login"}) \cup {"app"}
    /\ Become(k, Request(load, NoView, {}, jar))
ShowApp(k, load, jar) ==
    /\ visible' = {"app"}
    /\ Become(k, Request(load, NoView, {}, jar))

ShowChangePassword(k) == visible' = {"change-password"} /\ Finish(k)

-----------------------------------------------------------------------------
(* What the user does *)
UserActs(k, screen) == screen \in visible /\ call[k].kind = "idle"

Submit(k, screen, kind, from) ==
    /\ UserActs(k, screen)
    /\ Become(k, Request(kind, NoView, from, cookie))
    /\ UNCHANGED <<visible, cookie, selected, panel, chosen>>

Login(k) == Submit(k, "login", "login", {})
ChangePassword(k) == Submit(k, "change-password", "password", {})
Logout(k) == Submit(k, "app", "logout", {})
SwitchServer(k) == \E s \in Servers : Submit(k, "app", "switch", {s})

\* The sidebar opens a view; the console gets the database selected last.
Offered == {v \in Views : v.kind = "console" => v.db = selected}
Open(k) ==
    /\ UserActs(k, "app")
    /\ \E v \in Offered :
          /\ Render(k, v, cookie)
          /\ chosen' = v
          /\ selected' = IF v.kind \in {"overview", "table"} THEN v.db ELSE selected
    /\ UNCHANGED <<visible, cookie>>

\* A button or a dialog of what the panel shows.
Act(k) ==
    /\ UserActs(k, "app")
    /\ \E i \in DOMAIN panel.parts :
          LET p == panel.parts[i] IN
          /\ Become(k, Request("act", p.view, {}, cookie))
          /\ chosen' = IF p.view.kind \in Pages THEN p.view ELSE chosen
    /\ UNCHANGED <<visible, cookie, selected, panel>>

-----------------------------------------------------------------------------
(* What the answers do *)
Answered(k, kind) ==
    /\ call[k].kind = kind
    /\ kind \in {"login", "logout"} \/ call[k].cookie # None
    /\ seen' = IF kind = "login" THEN seen \ {"aborted"} ELSE seen
    /\ UNCHANGED <<selected, chosen>>

\* init catches a failure of its own requests, the load of the sidebar among
\* them, and shows the login screen.
Boots(k) == call[k].kind \in {"boot", "start"}

\* 401: require_session finds no user in the session.
Unauthorized(k) ==
    /\ call[k].kind \notin {"idle", "login", "logout"} /\ call[k].cookie = None
    /\ visible' = IF Boots(k) THEN {"login"} ELSE (visible \ {"app"}) \cup {"login"}
    /\ Finish(k)
    /\ seen' = seen \cup (IF Boots(k) THEN {} ELSE {"failed"})
    /\ UNCHANGED <<cookie, selected, panel, chosen>>

\* Refused, or no answer: the handler ends.
Fails(k) ==
    /\ call[k].kind # "idle" /\ (call[k].cookie # None \/ call[k].kind \in {"login", "logout"})
    /\ visible' = IF Boots(k) THEN {"login"} ELSE visible
    /\ cookie' \in CookieAfter(k)
    /\ Finish(k)
    /\ seen' = seen \cup (IF Boots(k) THEN {"aborted"} ELSE {"failed"})
    /\ UNCHANGED <<selected, panel, chosen>>

Booted(k) ==
    /\ Answered(k, "boot")
    /\ \E jar \in CookieAfter(k) :
          cookie' = jar /\ (ShowChangePassword(k) \/ ShowApp(k, "start", jar))
    /\ UNCHANGED panel

\* login stores the user in the session it is sent, and no server.
LoggedIn(k) ==
    LET jar == IF call[k].cookie = None THEN NoServer ELSE call[k].cookie IN
    /\ Answered(k, "login")
    /\ cookie' = jar
    /\ ShowChangePassword(k) \/ ShowApp(k, "load", jar)
    /\ UNCHANGED panel

PasswordChanged(k) ==
    /\ Answered(k, "password")
    /\ \E jar \in CookieAfter(k) : cookie' = jar /\ ShowApp(k, "load", jar)
    /\ UNCHANGED panel

LoggedOut_keeps(k) ==
    /\ Answered(k, "logout")
    /\ cookie' \in CookieAfter(k)
    /\ visible' = {"login"}
    /\ Finish(k)
    /\ UNCHANGED panel
LoggedOut(k) ==
    /\ Answered(k, "logout")
    /\ cookie' = IF call[k].cookie = None THEN cookie ELSE None
    /\ visible' = {"login"}
    /\ Finish(k)
    /\ UNCHANGED panel

Switched_noawait(k) ==
    /\ Answered(k, "switch")
    /\ \E s \in call[k].from :
          cookie' = s /\ Become(k, Request("load", NoView, {}, call[k].cookie))
    /\ UNCHANGED <<visible, panel>>
Switched(k) ==
    /\ Answered(k, "switch")
    /\ \E s \in call[k].from :
          cookie' = s /\ Become(k, Request("load", NoView, {}, s))
    /\ UNCHANGED <<visible, panel>>

\* The sidebar has loaded; a dialog of the overview then renders it again.
Loaded(k) ==
    /\ \E load \in {"load", "start"} : Answered(k, load)
    /\ \E jar \in CookieAfter(k) :
          /\ cookie' = jar
          /\ IF call[k].view = NoView THEN Finish(k) /\ UNCHANGED panel
             ELSE Render(k, call[k].view, jar)
    /\ UNCHANGED visible

\* A table fills its own element, which another view may have removed; the
\* other views append to the panel whatever heading it has by now.
Part(k, from) == [view |-> call[k].view, from |-> from]
Appended(k) == [panel EXCEPT !.parts = Append(@, Part(k, {}))]

ShownTable_inpanel(k) == panel' = Appended(k)
ShownTable(k) == panel' = IF call[k].attached THEN Appended(k) ELSE panel
ShownConsole(k) == panel' = Appended(k)
ShownPage(k) == panel' = Appended(k)

Shown(k) ==
    LET kind == call[k].view.kind IN
    /\ Answered(k, "view")
    /\ cookie' \in CookieAfter(k)
    /\ \/ kind = "table" /\ ShownTable(k)
       \/ kind = "console" /\ ShownConsole(k)
       \/ kind \in Pages /\ ShownPage(k)
    /\ Finish(k)
    /\ UNCHANGED visible

\* The overview asks twice.
Source(k) == Target(call[k].cookie)

OverviewDatabases(k) ==
    /\ Answered(k, "databases")
    /\ \E jar \in CookieAfter(k) :
          /\ cookie' = jar
          /\ Become(k, [call[k] EXCEPT !.kind = "tables", !.from = {Source(k)}, !.cookie = jar])
    /\ UNCHANGED <<visible, panel>>

OverviewTables(k) ==
    /\ Answered(k, "tables")
    /\ cookie' \in CookieAfter(k)
    /\ panel' = [head |-> call[k].view, parts |-> <<Part(k, call[k].from \cup {Source(k)})>>]
    /\ call' = [Detached(Out) EXCEPT ![k] = Idle]
    /\ UNCHANGED visible

\* A dialog renders its view again, that of the overview after the sidebar; a
\* result of the console and a page of rows stay inside their view, and a
\* dropped table reloads the sidebar only.
PageAgain(k, v, jar) == v.kind \in Pages /\ Render(k, v, jar)
TableAgain(k, v, jar) == v.kind = "table" /\ Render(k, v, jar)
OverviewAgain(k, v, jar) ==
    v.kind = "overview" /\ Become(k, Request("load", v, {}, jar)) /\ UNCHANGED panel
StaysInside(k, v) == v.kind \in {"console", "table"} /\ Finish(k) /\ UNCHANGED panel
TableDropped(k, v, jar) ==
    v.kind = "table" /\ Become(k, Request("load", NoView, {}, jar)) /\ UNCHANGED panel

Acted(k) ==
    LET v == call[k].view IN
    /\ Answered(k, "act")
    /\ \E jar \in CookieAfter(k) :
          /\ cookie' = jar
          /\ \/ PageAgain(k, v, jar) \/ TableAgain(k, v, jar) \/ OverviewAgain(k, v, jar)
             \/ StaysInside(k, v) \/ TableDropped(k, v, jar)
    /\ UNCHANGED visible

\* The session runs out, or the browser forgets it.
Expire ==
    /\ cookie # None
    /\ cookie' = None
    /\ UNCHANGED <<visible, selected, panel, call, chosen>>

(* Colleagues make another server the default, or delete one: a session    *)
(* that names it then follows the default.                                 *)
MoveDefault ==
    /\ default' \in Servers \ {default}
    /\ UNCHANGED <<cookie, call>>

Forgotten(jar, s) == IF jar = s THEN NoServer ELSE jar
DeleteServer(s) ==
    /\ default' \in IF default = s THEN Servers \ {s} ELSE {default}
    /\ cookie' = Forgotten(cookie, s)
    /\ call' = [k \in Calls |-> [call[k] EXCEPT !.cookie = Forgotten(@, s)]]

RegistryChange ==
    /\ MoveDefault \/ \E s \in Servers : DeleteServer(s)
    /\ seen' = IF \E k \in Calls : call[k].kind \in {"databases", "tables"} /\ Source(k)' # Source(k)
               THEN seen \cup {"rushed"} ELSE seen
    /\ UNCHANGED <<visible, selected, panel, chosen>>

-----------------------------------------------------------------------------
\* rushed: the session changes while other requests are out, or the registry
\* gives an overview that is waiting another server; late: a view is opened
\* while an overview or a dialog waits; hurried: any other impatience.
OutOfTurn(acts) ==
    UNION {{"hurried"},
           IF acts \in Session \cup {"expire"} \/ Kinds(Out) \cap Session # {} THEN {"rushed"} ELSE {},
           IF \E k \in Out : call[k].kind \in {"databases", "tables", "act"}
                            \/ (call[k].kind = "load" /\ call[k].view # NoView)
           THEN {"late"} ELSE {}}
Note(acts) == seen' = IF Out = {} THEN seen ELSE seen \cup OutOfTurn(acts)

UserStep(k) ==
    \/ Login(k) /\ Note("login")
    \/ ChangePassword(k) /\ Note("password")
    \/ Logout(k) /\ Note("logout")
    \/ SwitchServer(k) /\ Note("switch")
    \/ Open(k) /\ Note("open")
    \/ Act(k) /\ Note("act")

Answer(k) ==
    \/ Unauthorized(k) \/ Fails(k) \/ Booted(k) \/ LoggedIn(k) \/ PasswordChanged(k)
    \/ LoggedOut(k) \/ Switched(k) \/ Loaded(k) \/ Shown(k)
    \/ OverviewDatabases(k) \/ OverviewTables(k) \/ Acted(k)

Next ==
    \/ Expire /\ Note("expire") /\ UNCHANGED default
    \/ \E k \in Calls : (UserStep(k) \/ Answer(k)) /\ UNCHANGED default
    \/ RegistryChange

Spec == Init /\ [][Next]_vars

-----------------------------------------------------------------------------
\* failed: a handler ended early; aborted: that of the start did, and nobody has
\* signed in since.
Flags == {"hurried", "rushed", "late", "failed", "aborted"}

Handlers == [kind : {"idle", "boot", "login", "password", "logout", "switch", "load", "start",
                     "view", "databases", "tables", "act"},
             cookie : Jars, view : Views \cup {NoView},
             from : SUBSET Servers, attached : BOOLEAN]

TypeOK ==
    /\ visible \subseteq {"login", "change-password", "app"}
    /\ default \in Servers
    /\ cookie \in Jars
    /\ selected \in Dbs \cup {None}
    /\ panel \in [head : Views \cup {NoView}, parts : Seq(Parts)]
    /\ Len(panel.parts) <= Cardinality(Calls)
    /\ call \in [Calls -> Handlers]
    /\ \A k \in Calls :
          call[k].kind \in {"view", "databases", "tables", "act"} => call[k].view \in Views
    /\ chosen \in Views \cup {NoView}
    /\ seen \subseteq Flags

(* "Selecting a node drives the main panel": what an overview or a table   *)
(* shows never stands under the heading of another view, in whatever order *)
(* answers and clicks come; the other views keep to that for a user who    *)
(* waits for every answer.                                                 *)
DataUnderItsHeading ==
    \A i \in DOMAIN panel.parts :
        LET v == panel.parts[i].view IN
        v.kind \in {"overview", "table"} \/ "hurried" \notin seen => v = panel.head

(* Once all is answered the panel is of the view the user turned to last   *)
(* unless an overview or a dialog was waiting as they did, and below       *)
(* the heading its content is there exactly once, for a user who waits.    *)
PanelFollowsClick ==
    Out = {} /\ chosen # NoView /\ "failed" \notin seen =>
        /\ "late" \notin seen => panel.head = chosen
        /\ "hurried" \notin seen => Len(panel.parts) = 1 /\ panel.parts[1].view = chosen

(* "Every database/table/row/SQL-console operation targets the selected    *)
(* server": the two answers of an overview come from one server, unless    *)
(* the session changes while requests are out, or a colleague moves the    *)
(* default it follows, or deletes its server, while an overview waits.     *)
OneServerPerPart ==
    "rushed" \notin seen =>
        \A i \in DOMAIN panel.parts : Cardinality(panel.parts[i].from) <= 1

(* Nothing else is shown with the application, and the page is never left  *)
(* without a screen once it has started.                                   *)
OneScreen ==
    /\ "app" \in visible => visible = {"app"}
    /\ visible = {} => "boot" \in Kinds(Out)

(* The login screen comes and goes with the session: once all is answered  *)
(* whoever sees it has no session, whichever requests failed, unless it    *)
(* changed while requests were out or the start of the page went wrong.    *)
LoginOnlySignedOut ==
    Out = {} /\ "login" \in visible /\ seen \cap {"rushed", "aborted"} = {} => cookie = None
=============================================================================
