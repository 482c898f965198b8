----------------------------- MODULE PageProofs -----------------------------
(***************************************************************************)
(* Proofs about Page for any number of handlers, servers, pages and        *)
(* databases.                                                              *)
(***************************************************************************)
EXTENDS Page, TLAPS, FiniteSetTheorems

CallType ==
    /\ call \in [Calls -> Handlers]
    /\ \A k \in Calls :
          /\ call[k].kind \in {"view", "databases", "tables", "act"} => call[k].view \in Views
          /\ call[k].kind = "start" => call[k].view = NoView

\* What TypeOK says of everything but the number of parts.
Types ==
    /\ visible \subseteq {"login", "change-password", "app"}
    /\ default \in Servers
    /\ cookie \in Jars
    /\ selected \in Dbs \cup {None}
    /\ panel \in [head : Views \cup {NoView}, parts : Seq(Parts)]
    /\ CallType
    /\ chosen \in Views \cup {NoView}
    /\ seen \subseteq Flags

\* What a step of one handler may do to another: it may lose its element.
Same(r, q) ==
    /\ r.kind = q.kind /\ r.cookie = q.cookie /\ r.view = q.view /\ r.from = q.from
    /\ r.attached => q.attached

LEMMA IdleType == Idle \in Handlers /\ Idle.kind = "idle"
  BY DEF Idle, Handlers, NoView, View, Jars

LEMMA RequestType ==
    ASSUME NEW kind \in {"boot", "login", "password", "logout", "switch", "load", "start",
                         "view", "databases", "tables", "act"},
           NEW v \in Views \cup {NoView}, NEW from \in SUBSET Servers, NEW jar \in Jars
    PROVE  /\ Request(kind, v, from, jar) \in Handlers
           /\ Request(kind, v, from, jar).kind = kind
           /\ Request(kind, v, from, jar).view = v
           /\ Request(kind, v, from, jar).from = from
           /\ Request(kind, v, from, jar).cookie = jar
           /\ Request(kind, v, from, jar).attached = (kind = "view" /\ v.kind = "table")
  BY DEF Request, Handlers

-----------------------------------------------------------------------------
(* What the operators do to the handlers *)
\* k becomes r, and the others keep what they wait for.
Became(k, r) ==
    /\ call' \in [Calls -> Handlers]
    /\ call'[k] = r
    /\ \A j \in Calls \ {k} : Same(call'[j], call[j])

LEMMA BecomeEffect ==
    ASSUME Types, NEW k \in Calls, NEW r \in Handlers, Become(k, r)
    PROVE  Became(k, r)
  BY DEF Types, CallType, Become, Became, Same

LEMMA FinishEffect ==
    ASSUME Types, NEW k \in Calls, Finish(k)
    PROVE  Became(k, Idle)
  BY BecomeEffect, IdleType DEF Finish

\* A handler that another view overtakes has lost its element.
LEMMA DetachedEffect ==
    ASSUME Types, NEW k \in Calls, NEW r \in Handlers,
           call' = [Detached(Out) EXCEPT ![k] = r]
    PROVE  /\ Became(k, r)
           /\ \A j \in Out \ {k} : call'[j].attached = FALSE
<1>1. ASSUME NEW j \in Out
      PROVE  /\ [call[j] EXCEPT !.attached = FALSE] \in Handlers
             /\ Same([call[j] EXCEPT !.attached = FALSE], call[j])
             /\ [call[j] EXCEPT !.attached = FALSE].attached = FALSE
  BY <1>1 DEF Types, CallType, Out, Handlers, Same
<1>2. \A j \in Calls : Detached(Out)[j] = IF j \in Out THEN [call[j] EXCEPT !.attached = FALSE]
                                          ELSE call[j]
  BY DEF Detached
<1>3. Detached(Out) \in [Calls -> Handlers]
  BY <1>1, <1>2 DEF Types, CallType, Detached
<1>. QED
  BY <1>1, <1>2, <1>3 DEF Became, Same, Out, Types, CallType

\* What a view leaves in its slot.
Slot(v, jar) == Request(IF ClearsFirst(v) THEN "view" ELSE "databases", v, {}, jar)

LEMMA SlotType ==
    ASSUME NEW v \in Views, NEW jar \in Jars
    PROVE  /\ Slot(v, jar) \in Handlers
           /\ Slot(v, jar).kind = IF ClearsFirst(v) THEN "view" ELSE "databases"
           /\ Slot(v, jar).view = v /\ Slot(v, jar).cookie = jar
           /\ Slot(v, jar).attached = (v.kind = "table")
  BY DEF Slot, Request, Handlers, ClearsFirst

LEMMA RenderEffect ==
    ASSUME Types, NEW k \in Calls, NEW v \in Views, NEW jar \in Jars, Render(k, v, jar)
    PROVE  /\ Became(k, Slot(v, jar))
           /\ ClearsFirst(v) => /\ panel' = [head |-> v, parts |-> <<>>]
                                /\ \A j \in Out \ {k} : call'[j].attached = FALSE
           /\ ~ClearsFirst(v) => panel' = panel
<1>1. CASE ClearsFirst(v)
  BY <1>1, SlotType, DetachedEffect DEF Render, Slot
<1>2. CASE ~ClearsFirst(v)
  <2>1. Become(k, Slot(v, jar))
    BY <1>2 DEF Render, Slot, Become
  <2>. QED
    BY <1>2, <2>1, SlotType, BecomeEffect DEF Render
<1>. QED
  BY <1>1, <1>2

LEMMA JarType ==
    ASSUME Types, NEW k \in Calls
    PROVE  CookieAfter(k) \subseteq Jars /\ cookie \in Jars /\ call[k].cookie \in Jars
  BY DEF Types, CallType, CookieAfter, Handlers

LEMMA SourceType ==
    ASSUME Types, NEW k \in Calls
    PROVE  Source(k) \in Servers
  BY DEF Types, CallType, Source, Target

-----------------------------------------------------------------------------
(* What the steps do, as far as the invariants ask *)
Shows(r) == r.kind \in {"view", "databases", "tables"}
Again(r) == r.kind = "load" /\ r.view # NoView
\* The handler will set the heading; a dialog that may do so.
Brings(r) == \/ r.kind \in {"databases", "tables"} \/ Again(r)
             \/ r.kind = "act" /\ r.view.kind \in Pages
Turns(r) == Brings(r) \/ (r.kind = "act" /\ r.view.kind # "console")

LEMMA NoteEffect ==
    ASSUME Types, NEW acts, Note(acts)
    PROVE  /\ seen \subseteq seen' /\ seen' \subseteq Flags
           /\ Out # {} => "hurried" \in seen'
           /\ Out # {} /\ acts \in Session \cup {"expire"} => "rushed" \in seen'
           /\ \A j \in Out : call[j].kind \in Session => "rushed" \in seen'
           /\ \A j \in Out : Turns(call[j]) => "late" \in seen'
<1>1. CASE Out = {}
  BY <1>1 DEF Note, Types
<1>2. CASE Out # {}
  <2>. DEFINE Hasty == IF acts \in Session \cup {"expire"} \/ Kinds(Out) \cap Session # {}
                       THEN {"rushed"} ELSE {}
              Tardy == IF \E j \in Out : call[j].kind \in {"databases", "tables", "act"}
                                        \/ (call[j].kind = "load" /\ call[j].view # NoView)
                       THEN {"late"} ELSE {}
  <2>1. seen' = seen \cup {"hurried"} \cup Hasty \cup Tardy
    BY <1>2 DEF Note, OutOfTurn
  <2>2. \A j \in Out : call[j].kind \in Session => Kinds(Out) \cap Session # {}
    BY DEF Kinds
  <2>3. \A j \in Out : Turns(call[j]) => Tardy = {"late"}
    BY DEF Turns, Brings, Again
  <2>. HIDE DEF Tardy
  <2>4. Tardy \subseteq {"late"}
    BY DEF Tardy
  <2>. QED
    BY <1>2, <2>1, <2>2, <2>3, <2>4 DEF Types, CallType, Flags
<1>. QED
  BY <1>1, <1>2

Submitted(k) ==
    /\ \E r \in Handlers :
          /\ Became(k, r) /\ r.cookie = cookie /\ r.view = NoView
          /\ r.kind \in {"login", "password", "logout", "switch"}
          /\ r.kind \in Session /\ Out # {} => "rushed" \in seen'
    /\ panel' = panel /\ chosen' = chosen
Opened(k) == \E v \in Views : Render(k, v, cookie) /\ chosen' = v
Acts(k) ==
    \E i \in DOMAIN panel.parts :
        LET p == panel.parts[i] IN
        /\ p \in Parts
        /\ Became(k, Request("act", p.view, {}, cookie))
        /\ chosen' = IF p.view.kind \in Pages THEN p.view ELSE chosen
        /\ panel' = panel

LEMMA UserShape ==
    ASSUME Types, NEW k \in Calls, UserStep(k)
    PROVE  /\ call[k].kind = "idle" /\ visible # {}
           /\ cookie' = cookie /\ visible' = visible /\ selected' \in Dbs \cup {None}
           /\ seen \subseteq seen' /\ seen' \subseteq Flags
           /\ Out # {} => "hurried" \in seen'
           /\ \A j \in Out : call[j].kind \in Session => "rushed" \in seen'
           /\ \A j \in Out : Turns(call[j]) => "late" \in seen'
           /\ Submitted(k) \/ Opened(k) \/ Acts(k)
<1>1. ASSUME NEW screen, NEW kind \in {"login", "password", "logout", "switch"},
             NEW from \in SUBSET Servers, Submit(k, screen, kind, from), Note(kind)
      PROVE  Submitted(k) /\ selected' = selected
  <2>1. /\ Request(kind, NoView, from, cookie) \in Handlers
        /\ Request(kind, NoView, from, cookie).kind = kind
        /\ Request(kind, NoView, from, cookie).cookie = cookie
        /\ Request(kind, NoView, from, cookie).view = NoView
    BY DEF Request, Handlers, Types, CallType
  <2>2. Became(k, Request(kind, NoView, from, cookie))
    BY <1>1, <2>1, BecomeEffect DEF Submit
  <2>3. kind \in Session /\ Out # {} => "rushed" \in seen'
    BY <1>1, NoteEffect
  <2>. QED
    BY <1>1, <2>1, <2>2, <2>3 DEF Submit, Submitted
<1>2. CASE Login(k) /\ Note("login")
  BY <1>2, <1>1, NoteEffect DEF Login, Submit, UserActs, Types
<1>3. CASE ChangePassword(k) /\ Note("password")
  BY <1>3, <1>1, NoteEffect DEF ChangePassword, Submit, UserActs, Types
<1>4. CASE Logout(k) /\ Note("logout")
  BY <1>4, <1>1, NoteEffect DEF Logout, Submit, UserActs, Types
<1>5. CASE SwitchServer(k) /\ Note("switch")
  BY <1>5, <1>1, NoteEffect DEF SwitchServer, Submit, UserActs, Types
<1>6. CASE Open(k) /\ Note("open")
  <2>1. PICK v \in Offered :
          /\ Render(k, v, cookie)
          /\ chosen' = v
          /\ selected' = IF v.kind \in {"overview", "table"} THEN v.db ELSE selected
    BY <1>6 DEF Open
  <2>2. v \in Views /\ (v.kind \in {"overview", "table"} => v.db \in Dbs)
    BY PageAssumption DEF Offered, Views, View
  <2>. QED
    BY <1>6, <2>1, <2>2, NoteEffect DEF Open, Opened, UserActs, Types
<1>7. CASE Act(k) /\ Note("act")
  <2>1. PICK i \in DOMAIN panel.parts :
          LET p == panel.parts[i] IN
          /\ Become(k, Request("act", p.view, {}, cookie))
          /\ chosen' = IF p.view.kind \in Pages THEN p.view ELSE chosen
    BY <1>7 DEF Act
  <2>2. panel.parts[i] \in Parts
    BY DEF Types, CallType
  <2>3. Request("act", panel.parts[i].view, {}, cookie) \in Handlers
    BY <2>2 DEF Request, Handlers, Types, CallType, Parts
  <2>4. Acts(k)
    BY <1>7, <2>1, <2>2, <2>3, BecomeEffect DEF Acts, Act
  <2>. QED
    BY <1>7, <2>4, NoteEffect DEF Act, UserActs, Types
<1>. QED
  BY <1>2, <1>3, <1>4, <1>5, <1>6, <1>7 DEF UserStep

\* The handler ends, or goes on to load the sidebar only.
Settles(k) ==
    /\ \E r \in Handlers :
          /\ Became(k, r)
          /\ r.kind = "idle" \/ (r.kind \in {"load", "start"} /\ r.view = NoView)
    /\ panel' = panel
    /\ \/ "failed" \in seen'
       \/ /\ ~Shows(call[k]) /\ ~Again(call[k])
          /\ call[k].kind = "act" => call[k].view.kind \notin Pages
RendersAgain(k) ==
    /\ call[k].view \in Views /\ call[k].kind \in {"load", "act"} /\ Turns(call[k])
    /\ \E jar \in Jars : Render(k, call[k].view, jar)
\* The dialog of an overview loads the sidebar first.
WaitsAgain(k) ==
    /\ call[k].kind = "act" /\ call[k].view \in Views /\ call[k].view.kind = "overview"
    /\ \E jar \in Jars : Became(k, Request("load", call[k].view, {}, jar))
    /\ panel' = panel
ShowsPart(k) ==
    /\ call[k].kind = "view"
    /\ Became(k, Idle)
    /\ \/ panel' = Appended(k)
       \/ call[k].view.kind = "table" /\ ~call[k].attached /\ panel' = panel
    /\ call[k].view.kind = "table" => call[k].attached \/ panel' = panel
    /\ call[k].view.kind # "overview"
AsksTables(k) ==
    /\ call[k].kind = "databases"
    /\ \E r \in Handlers : /\ Became(k, r) /\ r.kind = "tables" /\ r.view = call[k].view
                           /\ r.from = {Source(k)}
    /\ panel' = panel
ShowsOverview(k) ==
    /\ call[k].kind = "tables"
    /\ Became(k, Idle)
    /\ \A j \in Out \ {k} : call'[j].attached = FALSE
    /\ panel' = [head |-> call[k].view, parts |-> <<Part(k, call[k].from \cup {Source(k)})>>]

LEMMA SettlesByFinish ==
    ASSUME Types, NEW k \in Calls, Finish(k), panel' = panel,
           "failed" \in seen' \/ (~Shows(call[k]) /\ call[k].kind \notin {"load", "act"})
    PROVE  Settles(k)
  BY FinishEffect, IdleType DEF Settles, Again

LEMMA SettledByFailure ==
    ASSUME Types, NEW k \in Calls, Finish(k), panel' = panel,
           "failed" \in seen' \/ call[k].kind \in {"boot", "start"}
    PROVE  Settles(k)
  BY SettlesByFinish, FinishEffect, IdleType DEF Settles, Shows, Again

LEMMA SettlesByLoad ==
    ASSUME Types, NEW k \in Calls, NEW jar \in Jars, NEW load \in {"load", "start"},
           Become(k, Request(load, NoView, {}, jar)),
           panel' = panel, ~Shows(call[k]), call[k].kind # "load",
           call[k].kind = "act" => call[k].view.kind \notin Pages
    PROVE  Settles(k)
<1>1. /\ Request(load, NoView, {}, jar) \in Handlers
      /\ Request(load, NoView, {}, jar).kind = load
      /\ Request(load, NoView, {}, jar).view = NoView
  BY DEF Request, Handlers
<1>. QED
  BY <1>1, BecomeEffect DEF Settles, Again

LEMMA AnswerShape ==
    ASSUME Types, NEW k \in Calls, Answer(k)
    PROVE  /\ call[k].kind # "idle"
           /\ chosen' = chosen /\ selected' = selected
           /\ seen \ {"aborted"} \subseteq seen' /\ seen' \subseteq Flags
           /\ \/ Settles(k) \/ RendersAgain(k) \/ WaitsAgain(k)
              \/ ShowsPart(k) \/ AsksTables(k) \/ ShowsOverview(k)
<1>. DEFINE Rest == /\ call[k].kind # "idle" /\ chosen' = chosen /\ selected' = selected
                    /\ seen \ {"aborted"} \subseteq seen' /\ seen' \subseteq Flags
<1>0. ASSUME NEW kind \in {"boot", "login", "password", "logout", "switch", "load", "start",
                           "view", "databases", "tables", "act"}, Answered(k, kind)
      PROVE  Rest /\ call[k].kind = kind
  BY <1>0 DEF Answered, Types, CallType
<1>1. CASE Unauthorized(k)
  <2>1. Settles(k)
    BY <1>1, SettlesByFinish DEF Unauthorized, Boots, Shows
  <2>. QED
    BY <1>1, <2>1 DEF Unauthorized, Types, Flags
<1>2. CASE Fails(k)
  <2>1. Settles(k)
    BY <1>2, SettledByFailure DEF Fails, Boots
  <2>. QED
    BY <1>2, <2>1 DEF Fails, Types, Flags
<1>3. CASE Booted(k)
  <2>1. Rest /\ call[k].kind = "boot" /\ panel' = panel
    BY <1>3, <1>0 DEF Booted
  <2>2. PICK jar \in Jars : ShowChangePassword(k) \/ ShowApp(k, "start", jar)
    BY <1>3, JarType DEF Booted
  <2>. QED
    BY <2>1, <2>2, SettlesByFinish, SettlesByLoad DEF ShowChangePassword, ShowApp, Shows
<1>4. CASE LoggedIn(k)
  <2>1. Rest /\ call[k].kind = "login" /\ panel' = panel
    BY <1>4, <1>0 DEF LoggedIn
  <2>2. PICK jar \in Jars : ShowChangePassword(k) \/ ShowApp(k, "load", jar)
    BY <1>4, JarType, PageAssumption DEF LoggedIn, Jars
  <2>. QED
    BY <2>1, <2>2, SettlesByFinish, SettlesByLoad DEF ShowChangePassword, ShowApp, Shows
<1>5. CASE PasswordChanged(k)
  <2>1. Rest /\ call[k].kind = "password" /\ panel' = panel
    BY <1>5, <1>0 DEF PasswordChanged
  <2>2. PICK jar \in Jars : ShowApp(k, "load", jar)
    BY <1>5, JarType DEF PasswordChanged
  <2>. QED
    BY <2>1, <2>2, SettlesByLoad DEF ShowApp, Shows
<1>6. CASE LoggedOut(k)
  <2>1. Rest /\ call[k].kind = "logout" /\ panel' = panel /\ Finish(k)
    BY <1>6, <1>0 DEF LoggedOut
  <2>. QED
    BY <2>1, SettlesByFinish DEF Shows
<1>7. CASE Switched(k)
  <2>1. Rest /\ call[k].kind = "switch" /\ panel' = panel
    BY <1>7, <1>0 DEF Switched
  <2>2. PICK s \in Jars : Become(k, Request("load", NoView, {}, s))
    BY <1>7 DEF Switched, Types, CallType, Handlers, Jars
  <2>. QED
    BY <2>1, <2>2, SettlesByLoad DEF Shows
<1>8. CASE Loaded(k)
  <2>1. Rest /\ call[k].kind \in {"load", "start"}
    BY <1>8, <1>0 DEF Loaded
  <2>2. PICK jar \in Jars :
           IF call[k].view = NoView THEN Finish(k) /\ UNCHANGED panel
           ELSE Render(k, call[k].view, jar)
    BY <1>8, JarType DEF Loaded
  <2>3. CASE call[k].view = NoView
    <3>1. Settles(k)
      BY <2>1, <2>2, <2>3, FinishEffect, IdleType DEF Settles, Shows, Again
    <3>. QED
      BY <2>1, <3>1
  <2>4. CASE call[k].view # NoView
    <3>1. RendersAgain(k)
      BY <2>1, <2>2, <2>4 DEF RendersAgain, Turns, Brings, Again, Types, CallType, Handlers
    <3>. QED
      BY <2>1, <3>1
  <2>. QED
    BY <2>3, <2>4
<1>9. CASE Shown(k)
  <2>1. Rest /\ call[k].kind = "view" /\ Finish(k)
    BY <1>9, <1>0 DEF Shown, Answered
  <2>2. ShowsPart(k)
    BY <1>9, <2>1, FinishEffect, PageAssumption
       DEF Shown, ShownTable, ShownConsole, ShownPage, ShowsPart
  <2>. QED
    BY <2>1, <2>2
<1>10. CASE OverviewDatabases(k)
  <2>1. Rest /\ call[k].kind = "databases" /\ panel' = panel
    BY <1>10, <1>0 DEF OverviewDatabases, Answered
  <2>2. PICK jar \in Jars :
          Become(k, [call[k] EXCEPT !.kind = "tables", !.from = {Source(k)}, !.cookie = jar])
    BY <1>10, JarType DEF OverviewDatabases
  <2>. DEFINE r == [call[k] EXCEPT !.kind = "tables", !.from = {Source(k)}, !.cookie = jar]
  <2>3. /\ r \in Handlers /\ r.kind = "tables" /\ r.view = call[k].view
        /\ r.from = {Source(k)}
    BY <2>1, SourceType DEF Types, CallType, Handlers
  <2>4. Became(k, r)
    BY <2>2, <2>3, BecomeEffect
  <2>5. AsksTables(k)
    BY <2>1, <2>3, <2>4 DEF AsksTables
  <2>. QED
    BY <2>1, <2>5
<1>11. CASE OverviewTables(k)
  <2>1. Rest /\ call[k].kind = "tables"
    BY <1>11, <1>0 DEF OverviewTables, Answered
  <2>2. ShowsOverview(k)
    BY <1>11, <2>1, DetachedEffect, IdleType DEF OverviewTables, ShowsOverview
  <2>. QED
    BY <2>1, <2>2
<1>12. CASE Acted(k)
  <2>1. Rest /\ call[k].kind = "act" /\ call[k].view \in Views
    BY <1>12, <1>0 DEF Acted, Types, CallType
  <2>2. PICK jar \in Jars :
          \/ PageAgain(k, call[k].view, jar) \/ TableAgain(k, call[k].view, jar)
          \/ OverviewAgain(k, call[k].view, jar)
          \/ StaysInside(k, call[k].view) \/ TableDropped(k, call[k].view, jar)
    BY <1>12, JarType DEF Acted
  <2>3. CASE PageAgain(k, call[k].view, jar) \/ TableAgain(k, call[k].view, jar)
    <3>1. RendersAgain(k)
      BY <2>1, <2>3 DEF PageAgain, TableAgain, RendersAgain, Turns, Brings
    <3>. QED
      BY <2>1, <3>1
  <2>4. CASE OverviewAgain(k, call[k].view, jar)
    <3>1. Request("load", call[k].view, {}, jar) \in Handlers
      BY <2>1 DEF Request, Handlers, Jars
    <3>2. WaitsAgain(k)
      BY <2>1, <2>4, <3>1, BecomeEffect DEF OverviewAgain, WaitsAgain
    <3>. QED
      BY <2>1, <3>2
  <2>5. CASE StaysInside(k, call[k].view)
    <3>1. Settles(k)
      BY <2>1, <2>5, FinishEffect, IdleType, PageAssumption
         DEF StaysInside, Settles, Shows, Again
    <3>. QED
      BY <2>1, <3>1
  <2>6. CASE TableDropped(k, call[k].view, jar)
    <3>1. Settles(k)
      BY <2>1, <2>6, SettlesByLoad, PageAssumption DEF TableDropped, Shows
    <3>. QED
      BY <2>1, <3>1
  <2>. QED
    BY <2>2, <2>3, <2>4, <2>5, <2>6
<1>. QED
  BY <1>1, <1>2, <1>3, <1>4, <1>5, <1>6, <1>7, <1>8, <1>9, <1>10, <1>11, <1>12 DEF Answer

\* The session that k leaves behind, in the cookie and in its next request.
Sends(k) ==
    /\ cookie' \in Jars
    /\ call[k].kind \notin Session => cookie' \in CookieAfter(k)
    /\ \E r \in Handlers :
          /\ Became(k, r) /\ r.kind \notin Session
          /\ r.kind # "idle" => r.cookie = cookie'
          /\ r.kind = "tables" => r.from = {Source(k)}
Screens(k) ==
    /\ \/ visible' = visible /\ call[k].kind # "boot"
       \/ visible' \in {{"app"}, {"change-password"}, {"login"}}
       \/ visible' = (visible \ {"app"}) \cup {"login"}
    /\ "login" \in visible' =>
          \/ "aborted" \in seen'
          \/ cookie' = None \/ (cookie' = cookie /\ call[k].cookie = None)
          \/ visible' = visible /\ (cookie' \in CookieAfter(k) \/ call[k].cookie # None)
    /\ "aborted" \in seen /\ "login" \in visible' => "aborted" \in seen'

LEMMA SendsByFinish ==
    ASSUME Types, NEW k \in Calls, Finish(k), cookie' \in Jars,
           call[k].kind \notin Session => cookie' \in CookieAfter(k)
    PROVE  Sends(k)
  BY FinishEffect, IdleType DEF Sends, Session

LEMMA SendsByLoad ==
    ASSUME Types, NEW k \in Calls, NEW v \in Views \cup {NoView}, cookie' \in Jars,
           call[k].kind \notin Session => cookie' \in CookieAfter(k),
           NEW jar \in Jars, cookie' = jar, NEW load \in {"load", "start"},
           Become(k, Request(load, v, {}, jar))
    PROVE  Sends(k)
<1>1. /\ Request(load, v, {}, jar) \in Handlers
      /\ Request(load, v, {}, jar).kind = load
      /\ Request(load, v, {}, jar).cookie = jar
  BY DEF Request, Handlers
<1>. QED
  BY <1>1, BecomeEffect DEF Sends, Session

LEMMA SendsByRender ==
    ASSUME Types, NEW k \in Calls, NEW v \in Views, NEW jar \in Jars, cookie' = jar,
           call[k].kind \notin Session => cookie' \in CookieAfter(k), Render(k, v, jar)
    PROVE  Sends(k)
<1>1. Became(k, Slot(v, jar))
  BY RenderEffect
<1>2. /\ Slot(v, jar) \in Handlers /\ Slot(v, jar).cookie = jar
      /\ Slot(v, jar).kind \in {"view", "databases"}
  BY SlotType
<1>. QED
  BY <1>1, <1>2 DEF Sends, Session

LEMMA AnswerSession ==
    ASSUME Types, NEW k \in Calls, Answer(k)
    PROVE  Sends(k) /\ Screens(k)
<1>0. /\ CookieAfter(k) \subseteq Jars /\ cookie \in CookieAfter(k)
      /\ cookie \in Jars /\ call[k].cookie \in Jars
  BY JarType DEF CookieAfter
<1>1. CASE Unauthorized(k)
  BY <1>0, <1>1, SendsByFinish DEF Unauthorized, Boots, Screens
<1>2. CASE Fails(k)
  BY <1>0, <1>2, SendsByFinish DEF Fails, Boots, Screens
<1>3. CASE Booted(k)
  <2>1. PICK jar \in CookieAfter(k) :
          cookie' = jar /\ (ShowChangePassword(k) \/ ShowApp(k, "start", jar))
    BY <1>3 DEF Booted
  <2>2. Sends(k)
    BY <1>0, <2>1, SendsByFinish, SendsByLoad DEF ShowChangePassword, ShowApp
  <2>. QED
    BY <1>3, <2>1, <2>2 DEF Booted, Answered, ShowChangePassword, ShowApp, Screens
<1>4. CASE LoggedIn(k)
  <2>1. PICK jar \in Jars : cookie' = jar /\ (ShowChangePassword(k) \/ ShowApp(k, "load", jar))
    BY <1>0, <1>4, PageAssumption DEF LoggedIn, Jars
  <2>2. call[k].kind \in Session
    BY <1>4 DEF LoggedIn, Answered, Session
  <2>3. Sends(k)
    BY <1>0, <2>1, <2>2, SendsByFinish, SendsByLoad DEF ShowChangePassword, ShowApp
  <2>. QED
    BY <2>1, <2>3 DEF ShowChangePassword, ShowApp, Screens
<1>5. CASE PasswordChanged(k)
  <2>1. PICK jar \in CookieAfter(k) : cookie' = jar /\ ShowApp(k, "load", jar)
    BY <1>5 DEF PasswordChanged
  <2>2. Sends(k)
    BY <1>0, <2>1, SendsByLoad DEF ShowApp
  <2>. QED
    BY <1>5, <2>1, <2>2 DEF PasswordChanged, Answered, ShowApp, Screens
<1>6. CASE LoggedOut(k)
  <2>1. /\ call[k].kind \in Session /\ Finish(k) /\ visible' = {"login"}
        /\ cookie' = IF call[k].cookie = None THEN cookie ELSE None
        /\ seen' = seen
    BY <1>6 DEF LoggedOut, Answered, Session
  <2>2. cookie' \in Jars
    BY <1>0, <2>1 DEF Jars
  <2>. QED
    BY <2>1, <2>2, SendsByFinish DEF Screens
<1>7. CASE Switched(k)
  <2>1. PICK s \in Servers : cookie' = s /\ Become(k, Request("load", NoView, {}, s))
    BY <1>7 DEF Switched, Types, CallType, Handlers
  <2>2. /\ call[k].kind = "switch" /\ call[k].kind \in Session /\ call[k].cookie # None
        /\ visible' = visible /\ seen' = seen
    BY <1>7 DEF Switched, Answered, Session
  <2>. QED
    BY <2>1, <2>2, SendsByLoad DEF Jars, Screens
<1>8. CASE Loaded(k)
  <2>1. PICK jar \in CookieAfter(k) :
          /\ cookie' = jar
          /\ IF call[k].view = NoView THEN Finish(k) ELSE Render(k, call[k].view, jar)
    BY <1>8 DEF Loaded
  <2>2. call[k].view # NoView => call[k].view \in Views
    BY DEF Types, CallType, Handlers
  <2>3. Sends(k)
    BY <1>0, <2>1, <2>2, SendsByFinish, SendsByRender
  <2>. QED
    BY <1>8, <2>1, <2>3 DEF Loaded, Answered, Screens
<1>9. CASE Shown(k)
  BY <1>0, <1>9, SendsByFinish DEF Shown, Answered, Screens
<1>10. CASE OverviewDatabases(k)
  <2>1. PICK jar \in CookieAfter(k) :
          /\ cookie' = jar
          /\ Become(k, [call[k] EXCEPT !.kind = "tables", !.from = {Source(k)}, !.cookie = jar])
    BY <1>10 DEF OverviewDatabases
  <2>. DEFINE r == [call[k] EXCEPT !.kind = "tables", !.from = {Source(k)}, !.cookie = jar]
  <2>2. /\ r \in Handlers /\ r.kind = "tables" /\ r.cookie = jar /\ r.from = {Source(k)}
    <3>1. jar \in Jars /\ Source(k) \in Servers /\ call[k] \in Handlers
      BY <1>0, <2>1, SourceType DEF Types, CallType
    <3>. QED
      BY <3>1 DEF Handlers
  <2>3. Became(k, r)
    BY <2>1, <2>2, BecomeEffect
  <2>4. Sends(k)
    BY <1>0, <2>1, <2>2, <2>3 DEF Sends, Session
  <2>. QED
    BY <1>10, <2>1, <2>4 DEF OverviewDatabases, Answered, Screens
<1>11. CASE OverviewTables(k)
  <2>1. Became(k, Idle)
    BY <1>11, DetachedEffect, IdleType DEF OverviewTables
  <2>. QED
    BY <1>0, <1>11, <2>1, IdleType DEF OverviewTables, Answered, Sends, Session, Screens
<1>12. CASE Acted(k)
  <2>1. PICK jar \in CookieAfter(k) :
          /\ cookie' = jar
          /\ \/ PageAgain(k, call[k].view, jar) \/ TableAgain(k, call[k].view, jar)
             \/ OverviewAgain(k, call[k].view, jar)
             \/ StaysInside(k, call[k].view) \/ TableDropped(k, call[k].view, jar)
    BY <1>12 DEF Acted
  <2>2. /\ call[k].view \in Views /\ visible' = visible /\ call[k].kind = "act"
        /\ seen' = seen
    BY <1>12 DEF Acted, Answered, Types, CallType
  <2>3. Sends(k)
    BY <1>0, <2>1, <2>2, SendsByFinish, SendsByLoad, SendsByRender
       DEF PageAgain, TableAgain, OverviewAgain, StaysInside, TableDropped
  <2>. QED
    BY <2>1, <2>2, <2>3 DEF Screens
<1>. QED
  BY <1>1, <1>2, <1>3, <1>4, <1>5, <1>6, <1>7, <1>8, <1>9, <1>10, <1>11, <1>12 DEF Answer

\* The registry changes: sessions are renamed, and nothing else on the page.
Renamed ==
    /\ \A j \in Calls : /\ call'[j].kind = call[j].kind /\ call'[j].view = call[j].view
                        /\ call'[j].from = call[j].from /\ call'[j].attached = call[j].attached
    /\ Out' = Out
    /\ visible' = visible /\ selected' = selected /\ panel' = panel /\ chosen' = chosen
    /\ seen \subseteq seen' /\ seen' \subseteq seen \cup {"rushed"}

LEMMA RegistryShape ==
    ASSUME Types, RegistryChange
    PROVE  /\ Renamed
           /\ call' \in [Calls -> Handlers] /\ cookie' \in Jars /\ default' \in Servers
           /\ \A j \in Calls : call[j].cookie = cookie => call'[j].cookie = cookie'
           /\ cookie = None => cookie' = None
           /\ "rushed" \notin seen' => \A j \in Calls :
                 call[j].kind = "tables" => Source(j)' = Source(j)
<1>1. CASE MoveDefault
  BY <1>1 DEF MoveDefault, RegistryChange, Renamed, Types, CallType, Out
<1>2. CASE \E s \in Servers : DeleteServer(s)
  <2>1. PICK s \in Servers : DeleteServer(s)
    BY <1>2
  <2>2. \A jar \in Jars : Forgotten(jar, s) \in Jars
    BY DEF Forgotten, Jars
  <2>3. \A j \in Calls : call'[j] = [call[j] EXCEPT !.cookie = Forgotten(call[j].cookie, s)]
    BY <2>1 DEF DeleteServer
  <2>4. ASSUME NEW j \in Calls
        PROVE  /\ call'[j].kind = call[j].kind /\ call'[j].view = call[j].view
               /\ call'[j].from = call[j].from /\ call'[j].attached = call[j].attached
               /\ call'[j].cookie = Forgotten(call[j].cookie, s) /\ call'[j] \in Handlers
    <3>1. call[j] \in Handlers /\ Forgotten(call[j].cookie, s) \in Jars
      BY <2>2 DEF Types, CallType, Handlers
    <3>2. call'[j] = [call[j] EXCEPT !.cookie = Forgotten(call[j].cookie, s)]
      BY <2>3
    <3>. QED
      BY <3>1, <3>2 DEF Handlers
  <2>5. Out' = Out
    BY <2>4 DEF Out
  <2>6. call' \in [Calls -> Handlers]
    BY <2>1, <2>3, <2>4 DEF DeleteServer
  <2>7. /\ cookie' = Forgotten(cookie, s) /\ cookie' \in Jars /\ default' \in Servers
        /\ cookie = None => cookie' = None
    BY <2>1, <2>2, PageAssumption DEF DeleteServer, Types, Forgotten
  <2>. QED
    BY <2>4, <2>5, <2>6, <2>7 DEF RegistryChange, Renamed
<1>. QED
  BY <1>1, <1>2 DEF RegistryChange

-----------------------------------------------------------------------------
(* Types *)
LEMMA InitTypes == Init => Types
<1>. SUFFICES ASSUME Init PROVE Types
  OBVIOUS
<1>1. PICK k \in Calls : call = [j \in Calls |-> IF j = k THEN Request("boot", NoView, {}, cookie)
                                                 ELSE Idle]
  BY DEF Init
<1>2. cookie \in Jars
  BY PageAssumption DEF Init, Jars
<1>3. Request("boot", NoView, {}, cookie) \in Handlers /\ Request("boot", NoView, {}, cookie).kind = "boot"
  BY <1>2 DEF Request, Handlers, Jars
<1>4. <<>> \in Seq(Parts)
  OBVIOUS
<1>. QED
  BY <1>1, <1>2, <1>3, <1>4, IdleType DEF Init, Types, CallType

LEMMA BecameTypes ==
    ASSUME Types, NEW k \in Calls, NEW r, Became(k, r),
           r.kind \in {"view", "databases", "tables", "act"} => r.view \in Views,
           r.kind = "start" => r.view = NoView
    PROVE  CallType'
  BY DEF Types, CallType, Became, Same

LEMMA PartType ==
    ASSUME Types, NEW k \in Calls, NEW from \in SUBSET Servers, call[k].kind \in {"view", "tables"}
    PROVE  /\ Part(k, from) \in Parts
           /\ Part(k, from).view = call[k].view
           /\ Part(k, from).from = from
<1>1. call[k].view \in Views
  BY DEF Types, CallType
<1>. QED
  BY <1>1 DEF Part, Parts

LEMMA OneSource ==
    ASSUME Types, NEW k \in Calls
    PROVE  call[k].from \cup {Source(k)} \in SUBSET Servers
<1>1. call[k].from \subseteq Servers
  BY DEF Types, CallType, Handlers
<1>. QED
  BY <1>1, SourceType

LEMMA AppendedType ==
    ASSUME Types, NEW k \in Calls, call[k].kind = "view", panel' = Appended(k)
    PROVE  /\ panel'.head = panel.head
           /\ panel'.parts = Append(panel.parts, Part(k, {}))
           /\ Part(k, {}) \in Parts
           /\ panel' \in [head : Views \cup {NoView}, parts : Seq(Parts)]
<1>1. Part(k, {}) \in Parts
  BY PartType
<1>2. panel \in [head : Views \cup {NoView}, parts : Seq(Parts)]
  BY DEF Types, CallType
<1>3. Append(panel.parts, Part(k, {})) \in Seq(Parts)
  BY <1>1, <1>2
<1>4. panel' = [panel EXCEPT !.parts = Append(panel.parts, Part(k, {}))]
  BY DEF Appended
<1>. QED
  BY <1>1, <1>2, <1>3, <1>4

LEMMA PanelTypes ==
    ASSUME Types, NEW k \in Calls,
           \/ panel' = panel
           \/ \E v \in Views : panel' = [head |-> v, parts |-> <<>>]
           \/ ShowsPart(k) \/ ShowsOverview(k)
    PROVE  panel' \in [head : Views \cup {NoView}, parts : Seq(Parts)]
<1>1. CASE panel' = panel
  BY <1>1 DEF Types, CallType
<1>2. CASE \E v \in Views : panel' = [head |-> v, parts |-> <<>>]
  BY <1>2
<1>3. CASE ShowsPart(k)
  BY <1>1, <1>3, AppendedType DEF ShowsPart
<1>4. CASE ShowsOverview(k)
  <2>1. call[k].from \in SUBSET Servers /\ call[k].view \in Views
    BY <1>4 DEF ShowsOverview, Types, CallType, Handlers
  <2>2. Part(k, call[k].from \cup {Source(k)}) \in Parts
    BY <1>4, OneSource, PartType DEF ShowsOverview
  <2>. QED
    BY <1>4, <2>1, <2>2 DEF ShowsOverview
<1>. QED
  BY <1>1, <1>2, <1>3, <1>4

LEMMA RenderTypes ==
    ASSUME Types, NEW k \in Calls, NEW v \in Views, NEW jar \in Jars, Render(k, v, jar)
    PROVE  /\ panel' \in [head : Views \cup {NoView}, parts : Seq(Parts)]
           /\ CallType'
<1>1. /\ Became(k, Slot(v, jar))
      /\ panel' = panel \/ panel' = [head |-> v, parts |-> <<>>]
  BY RenderEffect
<1>2. Slot(v, jar).view = v /\ Slot(v, jar).kind # "start"
  BY SlotType
<1>. QED
  BY <1>1, <1>2, BecameTypes, PanelTypes

\* Every action keeps the types.
LEMMA NextTypes == Types /\ [Next]_vars => Types'
<1>. SUFFICES ASSUME Types, [Next]_vars PROVE Types'
  OBVIOUS
<1>. DEFINE PanelOK == panel' \in [head : Views \cup {NoView}, parts : Seq(Parts)]
<1>0. cookie \in Jars
  BY JarType DEF Types, Jars
<1>1. ASSUME NEW k \in Calls, UserStep(k), UNCHANGED default PROVE Types'
  <2>1. PanelOK /\ CallType' /\ chosen' \in Views \cup {NoView}
    <3>1. CASE Submitted(k)
      <4>1. PICK r \in Handlers : Became(k, r) /\ r.kind \in {"login", "password", "logout", "switch"}
        BY <3>1 DEF Submitted
      <4>. QED
        BY <3>1, <4>1, BecameTypes, PanelTypes DEF Submitted, Types, CallType
    <3>2. CASE Opened(k)
      BY <1>0, <3>2, RenderTypes DEF Opened
    <3>3. CASE Acts(k)
      <4>1. PICK p \in Parts : /\ Became(k, Request("act", p.view, {}, cookie))
                               /\ chosen' = IF p.view.kind \in Pages THEN p.view ELSE chosen
                               /\ panel' = panel
        BY <3>3 DEF Acts
      <4>2. /\ p.view \in Views /\ Request("act", p.view, {}, cookie).view = p.view
            /\ Request("act", p.view, {}, cookie).kind = "act"
        BY DEF Parts, Request
      <4>. QED
        BY <4>1, <4>2, BecameTypes, PanelTypes DEF Types, CallType
    <3>. QED
      BY <1>1, <3>1, <3>2, <3>3, UserShape
  <2>. QED
    BY <1>1, <2>1, UserShape DEF Types, CallType
<1>2. ASSUME NEW k \in Calls, Answer(k), UNCHANGED default PROVE Types'
  <2>1. PanelOK /\ CallType'
    <3>1. CASE Settles(k)
      BY <3>1, BecameTypes, PanelTypes DEF Settles
    <3>2. CASE RendersAgain(k)
      BY <3>2, RenderTypes DEF RendersAgain
    <3>3. CASE WaitsAgain(k)
      <4>1. PICK jar \in Jars : Became(k, Request("load", call[k].view, {}, jar))
        BY <3>3 DEF WaitsAgain
      <4>2. Request("load", call[k].view, {}, jar).kind = "load"
        BY DEF Request
      <4>. QED
        BY <3>3, <4>1, <4>2, BecameTypes, PanelTypes DEF WaitsAgain
    <3>4. CASE ShowsPart(k)
      BY <3>4, IdleType, BecameTypes, PanelTypes DEF ShowsPart
    <3>5. CASE AsksTables(k)
      BY <3>5, BecameTypes, PanelTypes DEF AsksTables, Types, CallType
    <3>6. CASE ShowsOverview(k)
      BY <3>6, IdleType, BecameTypes, PanelTypes DEF ShowsOverview
    <3>. QED
      BY <1>2, <3>1, <3>2, <3>3, <3>4, <3>5, <3>6, AnswerShape
  <2>2. visible' \subseteq {"login", "change-password", "app"} /\ cookie' \in Jars
    BY <1>2, AnswerSession DEF Screens, Sends, Types, CallType
  <2>. QED
    BY <1>2, <2>1, <2>2, AnswerShape DEF Types, CallType, Jars
<1>3. CASE Expire /\ Note("expire") /\ UNCHANGED default
  BY <1>3, NoteEffect DEF Expire, Types, CallType, Jars
<1>4. CASE UNCHANGED vars
  BY <1>4 DEF vars, Types, CallType
<1>5. CASE RegistryChange
  BY <1>5, RegistryShape DEF Renamed, Types, CallType, Flags
<1>. QED
  BY <1>1, <1>2, <1>3, <1>4, <1>5 DEF Next

-----------------------------------------------------------------------------
(* The screens *)
LEMMA InitScreen == Init => OneScreen
<1>. SUFFICES ASSUME Init PROVE OneScreen
  OBVIOUS
<1>1. PICK k \in Calls : call[k] = Request("boot", NoView, {}, cookie)
  BY DEF Init
<1>2. call[k].kind = "boot"
  BY <1>1 DEF Request
<1>. QED
  BY <1>2 DEF Init, OneScreen, Kinds, Out

LEMMA BootOut == "boot" \in Kinds(Out) <=> \E k \in Calls : call[k].kind = "boot"
  BY DEF Kinds, Out

LEMMA NextScreen == Types /\ OneScreen /\ [Next]_vars => OneScreen'
<1>. SUFFICES ASSUME Types, OneScreen, [Next]_vars PROVE OneScreen'
  OBVIOUS
<1>0. ("boot" \in Kinds(Out))' <=> \E k \in Calls : call'[k].kind = "boot"
  BY DEF Kinds, Out
<1>1. CASE \E k \in Calls : UserStep(k)
  BY <1>1, UserShape DEF OneScreen
<1>2. ASSUME NEW k \in Calls, Answer(k) PROVE OneScreen'
  <2>1. CASE visible' = visible /\ call[k].kind # "boot"
    <3>1. ASSUME NEW j \in Calls, call[j].kind = "boot" PROVE call'[j].kind = "boot"
      BY <1>2, <2>1, <3>1, AnswerSession DEF Sends, Became, Same
    <3>. QED
      BY <1>0, <2>1, <3>1, BootOut DEF OneScreen
  <2>2. CASE visible' \in {{"app"}, {"change-password"}, {"login"}}
    BY <2>2 DEF OneScreen
  <2>3. CASE visible' = (visible \ {"app"}) \cup {"login"}
    BY <2>3 DEF OneScreen
  <2>. QED
    BY <1>2, <2>1, <2>2, <2>3, AnswerSession DEF Screens
<1>3. CASE Expire /\ Note("expire")
  BY <1>3 DEF Expire, OneScreen, Kinds, Out
<1>4. CASE UNCHANGED vars
  BY <1>4 DEF vars, OneScreen, Kinds, Out
<1>5. CASE RegistryChange
  BY <1>0, <1>5, BootOut, RegistryShape DEF Renamed, OneScreen
<1>. QED
  BY <1>1, <1>2, <1>3, <1>4, <1>5 DEF Next

-----------------------------------------------------------------------------
(* The session: until it or its server changes under requests that are     *)
(* out, every request that is out carries the session of the browser, one  *)
(* that changes the session is out alone, and the first answer of an       *)
(* overview has come from the server its second will come from.            *)
OneCookie ==
    "rushed" \notin seen => \A k \in Out :
        /\ call[k].cookie = cookie
        /\ call[k].kind \in Session => Out = {k}
        /\ call[k].kind = "tables" => call[k].from = {Target(cookie)}

SignedOut == "login" \in visible /\ seen \cap {"rushed", "aborted"} = {} => cookie = None

LEMMA InitCookie == Init => OneCookie /\ SignedOut
<1>. SUFFICES ASSUME Init PROVE OneCookie /\ SignedOut
  OBVIOUS
<1>1. PICK k \in Calls : call = [j \in Calls |-> IF j = k THEN Request("boot", NoView, {}, cookie)
                                                 ELSE Idle]
  BY DEF Init
<1>2. \A j \in Out : call[j].kind = "boot" /\ call[j].cookie = cookie
  BY <1>1 DEF Out, Request, Idle
<1>. QED
  BY <1>2 DEF Init, OneCookie, SignedOut, Session

LEMMA AnswerCookie ==
    ASSUME Types, OneCookie, NEW k \in Calls, Answer(k), default' = default,
           "rushed" \notin seen'
    PROVE  OneCookie'
<1>1. "rushed" \notin seen /\ k \in Out /\ call[k].cookie = cookie
  BY AnswerShape DEF OneCookie, Out
<1>2. PICK r \in Handlers :
        /\ Became(k, r) /\ r.kind \notin Session
        /\ r.kind # "idle" => r.cookie = cookie'
        /\ r.kind = "tables" => r.from = {Target(cookie)}
  BY <1>1, AnswerSession DEF Sends, Source
<1>3. Out' \subseteq Out /\ \A j \in Out' \ {k} : Same(call'[j], call[j])
  BY <1>1, <1>2 DEF Out, Became, Same
<1>4. CASE call[k].kind \in Session
  <2>1. Out' \subseteq {k}
    BY <1>1, <1>3, <1>4 DEF OneCookie
  <2>2. call[k].kind # "databases"
    BY <1>4 DEF Session
  <2>3. call'[k].kind # "tables"
    BY <1>4, AnswerShape, RenderEffect, SlotType, IdleType
       DEF Settles, RendersAgain, WaitsAgain, ShowsPart, AsksTables, ShowsOverview,
           Became, Request, Session
  <2>. QED
    BY <1>2, <2>1, <2>3 DEF OneCookie, Out, Became
<1>5. CASE call[k].kind \notin Session
  <2>1. cookie' = cookie /\ Target(cookie)' = Target(cookie)
    BY <1>1, <1>5, AnswerSession DEF Sends, CookieAfter, Target
  <2>2. \A j \in Out' \ {k} : /\ call'[j].cookie = cookie
                              /\ call'[j].kind \notin Session
                              /\ call'[j].kind = "tables" => call'[j].from = {Target(cookie)}
    BY <1>1, <1>3, <1>5 DEF OneCookie, Same
  <2>3. k \in Out' => /\ call'[k].cookie = cookie
                      /\ call'[k].kind \notin Session
                      /\ call'[k].kind = "tables" => call'[k].from = {Target(cookie)}
    BY <1>2, <2>1 DEF Out, Became
  <2>. QED
    BY <2>1, <2>2, <2>3 DEF OneCookie
<1>. QED
  BY <1>4, <1>5

LEMMA NextCookie == Types /\ OneCookie /\ [Next]_vars => OneCookie'
<1>. SUFFICES ASSUME Types, OneCookie, [Next]_vars, "rushed" \notin seen' PROVE OneCookie'
  BY DEF OneCookie
<1>1. ASSUME NEW k \in Calls, UserStep(k), UNCHANGED default PROVE OneCookie'
  <2>0. Target(cookie)' = Target(cookie)
    BY <1>1, UserShape DEF Target
  <2>1. /\ call[k].kind = "idle" /\ cookie' = cookie /\ "rushed" \notin seen
        /\ \A j \in Out : call[j].kind \notin Session
    BY <1>1, UserShape
  <2>2. PICK r \in Handlers :
          /\ Became(k, r) /\ r.cookie = cookie /\ r.kind # "tables"
          /\ r.kind \in Session => Out = {}
    <3>1. CASE Submitted(k)
      BY <3>1 DEF Submitted
    <3>2. CASE Opened(k)
      <4>1. PICK v \in Views : Render(k, v, cookie)
        BY <3>2 DEF Opened
      <4>2. Slot(v, cookie) \in Handlers /\ Slot(v, cookie).cookie = cookie
            /\ Slot(v, cookie).kind \in {"view", "databases"}
        BY SlotType, JarType
      <4>3. Became(k, Slot(v, cookie))
        BY <4>1, RenderEffect, JarType
      <4>. QED
        BY <4>2, <4>3 DEF Session
    <3>3. CASE Acts(k)
      <4>1. PICK p \in Parts : Became(k, Request("act", p.view, {}, cookie))
        BY <3>3 DEF Acts
      <4>2. /\ Request("act", p.view, {}, cookie) \in Handlers
            /\ Request("act", p.view, {}, cookie).cookie = cookie
            /\ Request("act", p.view, {}, cookie).kind = "act"
        BY JarType DEF Request, Handlers, Parts, Jars
      <4>. QED
        BY <4>1, <4>2 DEF Session
    <3>. QED
      BY <1>1, <3>1, <3>2, <3>3, UserShape
  <2>3. /\ call'[k] = r
        /\ \A j \in Out' \ {k} : j \in Out /\ Same(call'[j], call[j])
    BY <2>2 DEF Out, Became, Same
  <2>4. \A j \in Out' \ {k} : /\ call'[j].cookie = cookie /\ call'[j].kind \notin Session
                              /\ call'[j].kind = "tables" => call'[j].from = {Target(cookie)}
    BY <2>0, <2>1, <2>3 DEF OneCookie, Same
  <2>5. r.kind \in Session => Out' \subseteq {k}
    BY <2>2, <2>3
  <2>. QED
    BY <2>0, <2>1, <2>2, <2>3, <2>4, <2>5 DEF OneCookie
<1>2. CASE \E k \in Calls : Answer(k) /\ UNCHANGED default
  BY <1>2, AnswerCookie
<1>3. CASE Expire /\ Note("expire")
  <2>1. Out = {} /\ call' = call
    BY <1>3, NoteEffect DEF Expire
  <2>. QED
    BY <2>1 DEF OneCookie, Out
<1>4. CASE UNCHANGED vars
  BY <1>4 DEF vars, OneCookie, Out, Target
<1>5. CASE RegistryChange
  <2>1. /\ Renamed /\ "rushed" \notin seen
        /\ \A j \in Calls : call[j].cookie = cookie => call'[j].cookie = cookie'
    BY <1>5, RegistryShape DEF Renamed
  <2>2. ASSUME NEW k \in Out', call'[k].kind = "tables"
        PROVE  call'[k].from = {Target(cookie)'}
    <3>1. k \in Out /\ call[k].cookie = cookie /\ call'[k].cookie = cookie'
      BY <2>1, <2>2 DEF Renamed, OneCookie, Out
    <3>2. call[k].from = {Target(cookie)}
      BY <2>1, <2>2, <3>1 DEF Renamed, OneCookie, Out
    <3>3. Source(k)' = Source(k)
      BY <1>5, <2>1, <2>2, <3>1, RegistryShape DEF Renamed, Out
    <3>4. Source(k) = Target(cookie) /\ Source(k)' = Target(cookie)'
      BY <3>1 DEF Source, Target
    <3>. QED
      BY <2>1, <3>1, <3>2, <3>3, <3>4 DEF Renamed, Out
  <2>3. \A k \in Out' : /\ call'[k].cookie = cookie'
                        /\ call'[k].kind \in Session => Out' = {k}
    BY <2>1 DEF Renamed, OneCookie, Out
  <2>. QED
    BY <2>2, <2>3 DEF OneCookie
<1>. QED
  BY <1>1, <1>2, <1>3, <1>4, <1>5 DEF Next

LEMMA NextSignedOut == Types /\ OneCookie /\ SignedOut /\ [Next]_vars => SignedOut'
<1>. SUFFICES ASSUME Types, OneCookie, SignedOut, [Next]_vars,
                     "login" \in visible', seen' \cap {"rushed", "aborted"} = {}
              PROVE  cookie' = None
  BY DEF SignedOut
<1>1. CASE \E k \in Calls : UserStep(k)
  BY <1>1, UserShape DEF SignedOut
<1>2. ASSUME NEW k \in Calls, Answer(k) PROVE cookie' = None
  <2>1. seen \cap {"rushed", "aborted"} = {} /\ call[k].cookie = cookie
    BY <1>2, AnswerShape, AnswerSession DEF Screens, OneCookie, Out
  <2>2. \/ cookie' = None \/ (cookie' = cookie /\ cookie = None)
        \/ "login" \in visible /\ (cookie' \in {cookie} \cup ({cookie} \ {None}) \/ cookie # None)
    BY <1>2, <2>1, AnswerSession DEF Screens, CookieAfter
  <2>. QED
    BY <2>1, <2>2 DEF SignedOut
<1>3. CASE Expire /\ Note("expire")
  BY <1>3 DEF Expire
<1>4. CASE UNCHANGED vars
  BY <1>4 DEF vars, SignedOut
<1>5. CASE RegistryChange
  BY <1>5, RegistryShape DEF Renamed, SignedOut
<1>. QED
  BY <1>1, <1>2, <1>3, <1>4, <1>5 DEF Next

-----------------------------------------------------------------------------
(* The number of parts: a view that waits has cleared the panel since it   *)
(* started, so that whoever appends to it has its own place.               *)
Viewing == {k \in Calls : call[k].kind = "view"}
Room == Len(panel.parts) + Cardinality(Viewing) <= Cardinality(Calls)

LEMMA ViewingFinite ==
    ASSUME NEW S \in SUBSET Calls
    PROVE  /\ IsFiniteSet(S) /\ Cardinality(S) \in Nat /\ Cardinality(S) <= Cardinality(Calls)
           /\ Cardinality(Calls) \in Nat
           /\ \A T \in SUBSET S : Cardinality(T) <= Cardinality(S)
           /\ \A k \in S : Cardinality(S \ {k}) = Cardinality(S) - 1
  BY FS_Subset, FS_CardinalityType, FS_RemoveElement, PageAssumption

LEMMA InitRoom == Init => Room
<1>. SUFFICES ASSUME Init PROVE Room
  OBVIOUS
<1>1. Len(panel.parts) = 0
  BY DEF Init
<1>. QED
  BY <1>1, ViewingFinite DEF Room, Viewing

LEMMA KeepsRoom ==
    ASSUME Types, Room, panel' = panel, Viewing' \subseteq Viewing
    PROVE  Room'
<1>1. Viewing \in SUBSET Calls /\ Viewing' \in SUBSET Calls
  BY DEF Viewing
<1>2. Cardinality(Viewing') <= Cardinality(Viewing) /\ Cardinality(Viewing') \in Nat
  BY <1>1, ViewingFinite
<1>3. Len(panel.parts) \in Nat /\ Cardinality(Viewing) \in Nat /\ Cardinality(Calls) \in Nat
  BY <1>1, ViewingFinite DEF Types
<1>. QED
  BY <1>2, <1>3 DEF Room

LEMMA RenderRoom ==
    ASSUME Types, Room, NEW k \in Calls, NEW v \in Views, NEW jar \in Jars, Render(k, v, jar)
    PROVE  Room'
<1>1. CASE ClearsFirst(v)
  <2>0. panel' = [head |-> v, parts |-> <<>>]
    BY <1>1, RenderEffect
  <2>1. Len(panel'.parts) = 0
    BY <2>0
  <2>2. Viewing' \in SUBSET Calls
    BY DEF Viewing
  <2>3. /\ Cardinality(Viewing') \in Nat /\ Cardinality(Calls) \in Nat
        /\ Cardinality(Viewing') <= Cardinality(Calls)
    BY <2>2, ViewingFinite
  <2>. QED
    BY <2>1, <2>3 DEF Room
<1>2. CASE ~ClearsFirst(v)
  <2>1. panel' = panel /\ Became(k, Slot(v, jar)) /\ Slot(v, jar).kind = "databases"
    BY <1>2, RenderEffect, SlotType
  <2>2. Viewing' \subseteq Viewing
    BY <2>1 DEF Viewing, Became, Same
  <2>. QED
    BY <2>1, <2>2, KeepsRoom
<1>. QED
  BY <1>1, <1>2

LEMMA NextRoom == Types /\ Room /\ [Next]_vars => Room'
<1>. SUFFICES ASSUME Types, Room, [Next]_vars PROVE Room'
  OBVIOUS
<1>. Viewing \in SUBSET Calls /\ Viewing' \in SUBSET Calls
  BY DEF Viewing
<1>0. ASSUME NEW k \in Calls, NEW r, Became(k, r), r.kind # "view" PROVE Viewing' \subseteq Viewing \ {k}
  BY <1>0 DEF Viewing, Became, Same
<1>1. ASSUME NEW k \in Calls, UserStep(k) PROVE Room'
  <2>1. CASE Submitted(k)
    BY <2>1, <1>0, KeepsRoom DEF Submitted
  <2>2. CASE Opened(k)
    BY <2>2, RenderRoom, JarType DEF Opened
  <2>3. CASE Acts(k)
    <3>1. PICK p \in Parts : Became(k, Request("act", p.view, {}, cookie)) /\ panel' = panel
      BY <2>3 DEF Acts
    <3>2. Request("act", p.view, {}, cookie).kind # "view"
      BY DEF Request
    <3>. QED
      BY <3>1, <3>2, <1>0, KeepsRoom
  <2>. QED
    BY <1>1, <2>1, <2>2, <2>3, UserShape
<1>2. ASSUME NEW k \in Calls, Answer(k) PROVE Room'
  <2>1. CASE Settles(k)
    BY <2>1, <1>0, KeepsRoom DEF Settles
  <2>2. CASE RendersAgain(k)
    BY <2>2, RenderRoom DEF RendersAgain
  <2>3. CASE WaitsAgain(k)
    <3>1. PICK jar \in Jars : Became(k, Request("load", call[k].view, {}, jar)) /\ panel' = panel
      BY <2>3 DEF WaitsAgain
    <3>2. Request("load", call[k].view, {}, jar).kind # "view"
      BY DEF Request
    <3>. QED
      BY <3>1, <3>2, <1>0, KeepsRoom
  <2>4. CASE ShowsPart(k)
    <3>1. Viewing' \subseteq Viewing \ {k} /\ k \in Viewing
      BY <2>4, <1>0, IdleType DEF ShowsPart, Viewing
    <3>2. CASE panel' = panel
      BY <3>1, <3>2, KeepsRoom
    <3>3. CASE panel' = Appended(k)
      <4>0. /\ panel.parts \in Seq(Parts) /\ Part(k, {}) \in Parts
            /\ panel'.parts = Append(panel.parts, Part(k, {}))
        BY <2>4, <3>3, AppendedType DEF ShowsPart, Types
      <4>1. Len(panel'.parts) = Len(panel.parts) + 1 /\ Len(panel.parts) \in Nat
        BY <4>0
      <4>3. Cardinality(Viewing \ {k}) = Cardinality(Viewing) - 1
        BY <3>1, ViewingFinite
      <4>4. Cardinality(Viewing') <= Cardinality(Viewing \ {k})
        BY <3>1, ViewingFinite
      <4>5. /\ Cardinality(Viewing) \in Nat /\ Cardinality(Viewing') \in Nat
            /\ Cardinality(Calls) \in Nat
        BY ViewingFinite
      <4>. QED
        BY <4>1, <4>3, <4>4, <4>5 DEF Room
    <3>. QED
      BY <2>4, <3>2, <3>3 DEF ShowsPart
  <2>5. CASE AsksTables(k)
    BY <2>5, <1>0, KeepsRoom DEF AsksTables
  <2>6. CASE ShowsOverview(k)
    <3>1. Viewing' \subseteq Calls \ {k}
      BY <2>6, <1>0, IdleType DEF ShowsOverview, Viewing
    <3>2. Len(panel'.parts) = 1
      BY <2>6 DEF ShowsOverview
    <3>3. Cardinality(Calls \ {k}) = Cardinality(Calls) - 1
      BY ViewingFinite
    <3>4. /\ Cardinality(Viewing') <= Cardinality(Calls \ {k})
          /\ Cardinality(Viewing') \in Nat /\ Cardinality(Calls) \in Nat
      BY <3>1, ViewingFinite
    <3>. QED
      BY <3>2, <3>3, <3>4 DEF Room
  <2>. QED
    BY <1>2, <2>1, <2>2, <2>3, <2>4, <2>5, <2>6, AnswerShape
<1>3. CASE Expire /\ Note("expire")
  BY <1>3, KeepsRoom DEF Expire, Viewing
<1>4. CASE UNCHANGED vars
  BY <1>4, KeepsRoom DEF vars, Viewing
<1>5. CASE RegistryChange
  BY <1>5, KeepsRoom, RegistryShape DEF Renamed, Viewing
<1>. QED
  BY <1>1, <1>2, <1>3, <1>4, <1>5 DEF Next

-----------------------------------------------------------------------------
(* The parts: what one step adds to them *)
\* A part of the next panel was there before, or is one that k adds.
LEMMA AnswerParts ==
    ASSUME Types, NEW k \in Calls, Answer(k), NEW i \in DOMAIN panel'.parts
    PROVE  \/ /\ panel'.head = panel.head
              /\ i \in DOMAIN panel.parts /\ panel'.parts[i] = panel.parts[i]
           \/ /\ ShowsPart(k) /\ panel'.head = panel.head
              /\ call[k].view.kind = "table" => call[k].attached
              /\ panel'.parts[i] = Part(k, {})
           \/ /\ ShowsOverview(k) /\ panel'.head = call[k].view
              /\ panel'.parts[i] = Part(k, call[k].from \cup {Source(k)})
<1>1. CASE panel' = panel
  BY <1>1
<1>2. CASE RendersAgain(k)
  <2>1. PICK jar \in Jars : Render(k, call[k].view, jar)
    BY <1>2 DEF RendersAgain
  <2>2. panel' = [head |-> call[k].view, parts |-> <<>>] \/ panel' = panel
    BY <1>2, <2>1, RenderEffect DEF RendersAgain
  <2>. QED
    BY <1>1, <2>2
<1>3. CASE ShowsPart(k) /\ panel' = Appended(k)
  <2>1. /\ panel.parts \in Seq(Parts) /\ Part(k, {}) \in Parts
        /\ panel'.parts = Append(panel.parts, Part(k, {}))
        /\ panel'.head = panel.head
    BY <1>3, AppendedType DEF ShowsPart, Types
  <2>2. \/ i \in DOMAIN panel.parts /\ panel'.parts[i] = panel.parts[i]
        \/ panel'.parts[i] = Part(k, {})
    BY <2>1
  <2>3. CASE call[k].view.kind = "table" => call[k].attached
    BY <1>3, <2>1, <2>2, <2>3
  <2>4. CASE ~(call[k].view.kind = "table" => call[k].attached)
    BY <1>1, <1>3, <2>4 DEF ShowsPart
  <2>. QED
    BY <2>3, <2>4
<1>4. CASE ShowsOverview(k)
  <2>1. /\ panel'.head = call[k].view
        /\ panel'.parts = <<Part(k, call[k].from \cup {Source(k)})>>
    BY <1>4 DEF ShowsOverview
  <2>2. i = 1
    BY <2>1
  <2>. QED
    BY <1>4, <2>1, <2>2
<1>. QED
  BY <1>1, <1>2, <1>3, <1>4, AnswerShape DEF Settles, WaitsAgain, ShowsPart, AsksTables

LEMMA UserParts ==
    ASSUME Types, NEW k \in Calls, UserStep(k), NEW i \in DOMAIN panel'.parts
    PROVE  /\ panel'.head = panel.head
           /\ i \in DOMAIN panel.parts /\ panel'.parts[i] = panel.parts[i]
<1>1. CASE Opened(k)
  <2>1. PICK v \in Views : Render(k, v, cookie)
    BY <1>1 DEF Opened
  <2>2. panel' = [head |-> v, parts |-> <<>>] \/ panel' = panel
    BY <2>1, RenderEffect, JarType
  <2>. QED
    BY <2>2
<1>. QED
  BY <1>1, UserShape DEF Submitted, Acts

LEMMA NextOneServer == Types /\ OneCookie /\ OneServerPerPart /\ [Next]_vars => OneServerPerPart'
<1>. SUFFICES ASSUME Types, OneCookie, OneServerPerPart, [Next]_vars,
                     "rushed" \notin seen', NEW i \in DOMAIN panel'.parts
              PROVE  Cardinality(panel'.parts[i].from) <= 1
  BY DEF OneServerPerPart
<1>1. CASE \E k \in Calls : UserStep(k)
  BY <1>1, UserShape, UserParts DEF OneServerPerPart
<1>2. ASSUME NEW k \in Calls, Answer(k) PROVE Cardinality(panel'.parts[i].from) <= 1
  <2>1. "rushed" \notin seen /\ k \in Out
    BY <1>2, AnswerShape DEF Out
  <2>2. Cardinality({Source(k)}) = 1 /\ Cardinality({}) = 0
    BY FS_Singleton, FS_EmptySet
  <2>3. CASE ShowsPart(k) /\ panel'.parts[i] = Part(k, {})
    BY <2>2, <2>3 DEF Part
  <2>4. CASE ShowsOverview(k) /\ panel'.parts[i] = Part(k, call[k].from \cup {Source(k)})
    <3>1. call[k].from = {Source(k)}
      BY <2>1, <2>4 DEF ShowsOverview, OneCookie, Source
    <3>2. panel'.parts[i].from = {Source(k)}
      BY <2>4, <3>1 DEF Part
    <3>. QED
      BY <2>2, <3>2
  <2>. QED
    BY <1>2, <2>1, <2>3, <2>4, AnswerParts DEF OneServerPerPart
<1>3. CASE Expire /\ Note("expire")
  BY <1>3, NoteEffect DEF Expire, OneServerPerPart
<1>4. CASE UNCHANGED vars
  BY <1>4 DEF vars, OneServerPerPart
<1>5. CASE RegistryChange
  BY <1>5, RegistryShape DEF Renamed, OneServerPerPart
<1>. QED
  BY <1>1, <1>2, <1>3, <1>4, <1>5 DEF Next

-----------------------------------------------------------------------------
(* The heading: a table that still has its element has set the heading;    *)
(* for a user who waits only one handler is out, every view has set the    *)
(* heading, and no table loses its element.                                *)
Alone == "hurried" \notin seen => \A j, k \in Out : j = k
Headed ==
    \A k \in Calls : call[k].kind = "view" =>
        /\ call[k].attached \/ "hurried" \notin seen => call[k].view = panel.head
        /\ "hurried" \notin seen /\ call[k].view.kind = "table" => call[k].attached

LEMMA InitHeaded == Init => Alone /\ Headed /\ DataUnderItsHeading /\ OneServerPerPart
<1>. SUFFICES ASSUME Init PROVE Alone /\ Headed /\ DataUnderItsHeading /\ OneServerPerPart
  OBVIOUS
<1>1. PICK k \in Calls : call = [j \in Calls |-> IF j = k THEN Request("boot", NoView, {}, cookie)
                                                 ELSE Idle]
  BY DEF Init
<1>2. \A j \in Calls : call[j].kind # "view" /\ (j # k => call[j].kind = "idle")
  BY <1>1 DEF Request, Idle
<1>3. DOMAIN panel.parts = {}
  BY DEF Init
<1>. QED
  BY <1>2, <1>3 DEF Alone, Headed, DataUnderItsHeading, OneServerPerPart, Out

LEMMA NextAlone == Types /\ Alone /\ [Next]_vars => Alone'
<1>. SUFFICES ASSUME Types, Alone, [Next]_vars, "hurried" \notin seen' PROVE Alone'
  BY DEF Alone
<1>1. ASSUME NEW k \in Calls, UserStep(k) PROVE Alone'
  <2>1. Out = {}
    BY <1>1, UserShape
  <2>2. PICK r : Became(k, r)
    BY <1>1, UserShape, RenderEffect, JarType DEF Submitted, Opened, Acts
  <2>3. Out' \subseteq {k}
    BY <2>1, <2>2 DEF Out, Became, Same
  <2>. QED
    BY <2>3 DEF Alone
<1>2. ASSUME NEW k \in Calls, Answer(k) PROVE Alone'
  <2>1. PICK r : Became(k, r)
    BY <1>2, AnswerSession DEF Sends
  <2>2. Out' \subseteq Out /\ "hurried" \notin seen
    BY <1>2, <2>1, AnswerShape DEF Out, Became, Same
  <2>. QED
    BY <2>2 DEF Alone
<1>3. CASE Expire /\ Note("expire")
  BY <1>3, NoteEffect DEF Expire, Alone, Out
<1>4. CASE UNCHANGED vars
  BY <1>4 DEF vars, Alone, Out
<1>5. CASE RegistryChange
  BY <1>5, RegistryShape DEF Renamed, Alone
<1>. QED
  BY <1>1, <1>2, <1>3, <1>4, <1>5 DEF Next

LEMMA KeepsHeading ==
    ASSUME Headed, NEW k \in Calls, NEW r, Became(k, r), r.kind # "view",
           panel'.head = panel.head, "hurried" \notin seen' => Out \subseteq {k}
    PROVE  Headed'
<1>1. ASSUME NEW j \in Calls, call'[j].kind = "view"
      PROVE  /\ call'[j].attached => call'[j].view = panel'.head
             /\ "hurried" \notin seen' => FALSE
  BY <1>1 DEF Headed, Became, Same, Out
<1>. QED
  BY <1>1 DEF Headed

LEMMA RenderHeading ==
    ASSUME Types, Headed, NEW k \in Calls, NEW v \in Views, NEW jar \in Jars, Render(k, v, jar),
           "hurried" \notin seen' => Out \subseteq {k}
    PROVE  Headed'
<1>0. /\ Became(k, Slot(v, jar)) /\ Slot(v, jar).view = v
      /\ Slot(v, jar).attached = (v.kind = "table")
      /\ Slot(v, jar).kind = IF ClearsFirst(v) THEN "view" ELSE "databases"
  BY RenderEffect, SlotType
<1>1. CASE ClearsFirst(v)
  <2>1. panel' = [head |-> v, parts |-> <<>>] /\ \A j \in Out \ {k} : call'[j].attached = FALSE
    BY <1>1, RenderEffect
  <2>2. ASSUME NEW j \in Calls \ {k}, call'[j].kind = "view"
        PROVE  call'[j].attached = FALSE /\ "hurried" \in seen'
    BY <1>0, <2>1, <2>2 DEF Became, Same, Out
  <2>. QED
    BY <1>0, <2>1, <2>2 DEF Headed, Became
<1>2. CASE ~ClearsFirst(v)
  BY <1>0, <1>2, KeepsHeading, RenderEffect
<1>. QED
  BY <1>1, <1>2

LEMMA NextHeaded == Types /\ Alone /\ Headed /\ [Next]_vars => Headed'
<1>. SUFFICES ASSUME Types, Alone, Headed, [Next]_vars PROVE Headed'
  OBVIOUS
<1>1. ASSUME NEW k \in Calls, UserStep(k) PROVE Headed'
  <2>1. "hurried" \notin seen' => Out \subseteq {k}
    BY <1>1, UserShape
  <2>2. CASE Submitted(k)
    BY <2>1, <2>2, KeepsHeading DEF Submitted
  <2>3. CASE Opened(k)
    BY <2>1, <2>3, RenderHeading, JarType DEF Opened
  <2>4. CASE Acts(k)
    <3>1. PICK p \in Parts : Became(k, Request("act", p.view, {}, cookie)) /\ panel' = panel
      BY <2>4 DEF Acts
    <3>2. Request("act", p.view, {}, cookie).kind # "view"
      BY DEF Request
    <3>. QED
      BY <2>1, <3>1, <3>2, KeepsHeading
  <2>. QED
    BY <1>1, <2>2, <2>3, <2>4, UserShape
<1>2. ASSUME NEW k \in Calls, Answer(k) PROVE Headed'
  <2>1. "hurried" \notin seen' => Out \subseteq {k}
    BY <1>2, AnswerShape DEF Alone, Out
  <2>2. CASE Settles(k)
    BY <2>1, <2>2, KeepsHeading DEF Settles
  <2>3. CASE RendersAgain(k)
    BY <2>1, <2>3, RenderHeading DEF RendersAgain
  <2>4. CASE WaitsAgain(k)
    <3>1. PICK jar \in Jars : Became(k, Request("load", call[k].view, {}, jar)) /\ panel' = panel
      BY <2>4 DEF WaitsAgain
    <3>2. Request("load", call[k].view, {}, jar).kind # "view"
      BY DEF Request
    <3>. QED
      BY <2>1, <3>1, <3>2, KeepsHeading
  <2>5. CASE ShowsPart(k)
    <3>1. panel'.head = panel.head
      BY <2>5, AppendedType DEF ShowsPart
    <3>. QED
      BY <2>1, <2>5, <3>1, IdleType, KeepsHeading DEF ShowsPart
  <2>6. CASE AsksTables(k)
    BY <2>1, <2>6, KeepsHeading DEF AsksTables
  <2>7. CASE ShowsOverview(k)
    <3>1. ASSUME NEW j \in Calls, call'[j].kind = "view"
          PROVE  call'[j].attached = FALSE /\ "hurried" \in seen'
      BY <2>1, <2>7, <3>1, IdleType DEF ShowsOverview, Became, Same, Out
    <3>. QED
      BY <3>1 DEF Headed
  <2>. QED
    BY <1>2, <2>2, <2>3, <2>4, <2>5, <2>6, <2>7, AnswerShape
<1>3. CASE Expire /\ Note("expire")
  BY <1>3, NoteEffect DEF Expire, Headed
<1>4. CASE UNCHANGED vars
  BY <1>4 DEF vars, Headed
<1>5. CASE RegistryChange
  BY <1>5, RegistryShape DEF Renamed, Headed
<1>. QED
  BY <1>1, <1>2, <1>3, <1>4, <1>5 DEF Next

LEMMA NextUnderHeading ==
    Types /\ Alone /\ Headed /\ DataUnderItsHeading /\ [Next]_vars => DataUnderItsHeading'
<1>. SUFFICES ASSUME Types, Alone, Headed, DataUnderItsHeading, [Next]_vars,
                     NEW i \in DOMAIN panel'.parts,
                     \/ panel'.parts[i].view.kind \in {"overview", "table"}
                     \/ "hurried" \notin seen'
              PROVE  panel'.parts[i].view = panel'.head
  BY DEF DataUnderItsHeading
<1>1. CASE \E k \in Calls : UserStep(k)
  BY <1>1, UserShape, UserParts DEF DataUnderItsHeading
<1>2. ASSUME NEW k \in Calls, Answer(k) PROVE panel'.parts[i].view = panel'.head
  <2>1. "hurried" \in seen => "hurried" \in seen'
    BY <1>2, AnswerShape
  <2>2. CASE /\ ShowsPart(k) /\ panel'.head = panel.head
             /\ call[k].view.kind = "table" => call[k].attached
             /\ panel'.parts[i] = Part(k, {})
    <3>1. panel'.parts[i].view = call[k].view
      BY <2>2 DEF Part
    <3>2. call[k].attached \/ "hurried" \notin seen
      BY <2>1, <2>2, <3>1 DEF ShowsPart
    <3>. QED
      BY <2>2, <3>1, <3>2 DEF ShowsPart, Headed
  <2>3. CASE /\ panel'.head = call[k].view
             /\ panel'.parts[i] = Part(k, call[k].from \cup {Source(k)})
    BY <2>3 DEF Part
  <2>. QED
    BY <1>2, <2>1, <2>2, <2>3, AnswerParts DEF DataUnderItsHeading
<1>3. CASE Expire /\ Note("expire")
  BY <1>3, NoteEffect DEF Expire, DataUnderItsHeading
<1>4. CASE UNCHANGED vars
  BY <1>4 DEF vars, DataUnderItsHeading
<1>5. CASE RegistryChange
  BY <1>5, RegistryShape DEF Renamed, DataUnderItsHeading
<1>. QED
  BY <1>1, <1>2, <1>3, <1>4, <1>5 DEF Next

-----------------------------------------------------------------------------
(* The view the user turned to: its heading is there, or the handler that  *)
(* will set it is out; while that one is out the user turns to nothing     *)
(* else, or is late.                                                       *)
Turned ==
    seen \cap {"late", "failed"} = {} =>
        /\ panel.head = chosen \/ \E k \in Calls : Brings(call[k])
        /\ \A k \in Calls : Turns(call[k]) => call[k].view = chosen

LEMMA InitTurned == Init => Turned
<1>. SUFFICES ASSUME Init PROVE Turned
  OBVIOUS
<1>1. PICK k \in Calls : call = [j \in Calls |-> IF j = k THEN Request("boot", NoView, {}, cookie)
                                                 ELSE Idle]
  BY DEF Init
<1>2. \A j \in Calls : ~Turns(call[j])
  BY <1>1 DEF Request, Idle, Turns, Brings, Again
<1>. QED
  BY <1>2 DEF Init, Turned

LEMMA SameTurns ==
    ASSUME NEW k \in Calls, NEW r, Became(k, r), NEW j \in Calls \ {k}
    PROVE  /\ Turns(call'[j]) <=> Turns(call[j])
           /\ Brings(call'[j]) <=> Brings(call[j])
           /\ call'[j].view = call[j].view /\ call'[j].kind = call[j].kind
           /\ Again(call'[j]) <=> Again(call[j])
  BY DEF Became, Same, Turns, Brings, Again

\* k renders the view that is chosen.
LEMMA RenderTurned ==
    ASSUME Types, NEW k \in Calls, NEW v \in Views, NEW jar \in Jars, Render(k, v, jar),
           chosen' = v, \A j \in Calls \ {k} : Turns(call[j]) => call[j].view = v
    PROVE  Turned'
<1>1. /\ Became(k, Slot(v, jar)) /\ Slot(v, jar).view = v
      /\ Slot(v, jar).kind = IF ClearsFirst(v) THEN "view" ELSE "databases"
  BY RenderEffect, SlotType
<1>2. CASE ClearsFirst(v)
  <2>1. panel' = [head |-> v, parts |-> <<>>]
    BY <1>2, RenderEffect
  <2>2. panel'.head = v
    BY <2>1
  <2>3. call'[k] = Slot(v, jar) /\ ~Turns(Slot(v, jar))
    BY <1>1, <1>2 DEF Turns, Brings, Again, Became
  <2>. QED
    BY <1>1, <2>2, <2>3, SameTurns DEF Turned
<1>3. CASE ~ClearsFirst(v)
  <2>1. call'[k] = Slot(v, jar) /\ Brings(Slot(v, jar))
    BY <1>1, <1>3 DEF Brings, Became
  <2>. QED
    BY <1>1, <2>1, SameTurns DEF Turned
<1>. QED
  BY <1>2, <1>3

LEMMA NextTurned == Types /\ DataUnderItsHeading /\ Turned /\ [Next]_vars => Turned'
<1>. SUFFICES ASSUME Types, DataUnderItsHeading, Turned, [Next]_vars,
                     seen' \cap {"late", "failed"} = {}
              PROVE  Turned'
  BY DEF Turned
<1>1. ASSUME NEW k \in Calls, UserStep(k) PROVE Turned'
  <2>1. /\ seen \cap {"late", "failed"} = {} /\ call[k].kind = "idle"
        /\ \A j \in Out : ~Turns(call[j])
    BY <1>1, UserShape
  <2>2. \A j \in Calls : ~Turns(call[j])
    BY <2>1 DEF Out, Turns, Brings, Again
  <2>3. panel.head = chosen
    BY <2>1, <2>2 DEF Turned, Turns
  <2>4. CASE Submitted(k)
    <3>1. PICK r \in Handlers : Became(k, r) /\ r.kind \in {"login", "password", "logout", "switch"}
      BY <2>4 DEF Submitted
    <3>2. call'[k] = r /\ ~Turns(r)
      BY <3>1 DEF Turns, Brings, Again, Became
    <3>. QED
      BY <2>2, <2>3, <2>4, <3>1, <3>2, SameTurns DEF Turned, Submitted
  <2>5. CASE Opened(k)
    BY <2>2, <2>5, RenderTurned, JarType DEF Opened
  <2>6. CASE Acts(k)
    <3>1. PICK i \in DOMAIN panel.parts :
            LET p == panel.parts[i] IN
            /\ p \in Parts
            /\ Became(k, Request("act", p.view, {}, cookie))
            /\ chosen' = IF p.view.kind \in Pages THEN p.view ELSE chosen
            /\ panel' = panel
      BY <2>6 DEF Acts
    <3>. DEFINE p == panel.parts[i]
                r == Request("act", p.view, {}, cookie)
    <3>2. call'[k] = r /\ r.kind = "act" /\ r.view = p.view
      BY <3>1 DEF Became, Request
    <3>3. CASE p.view.kind \in Pages
      <4>1. Brings(call'[k]) /\ call'[k].view = chosen'
        BY <3>1, <3>2, <3>3 DEF Brings
      <4>. QED
        BY <2>2, <3>1, <4>1, SameTurns DEF Turned
    <3>4. CASE p.view.kind \notin Pages
      <4>1. p.view.kind \in {"console", "overview", "table"}
        BY <3>1, <3>4 DEF Parts, Views, View
      <4>2. p.view.kind # "console" => p.view = chosen
        BY <2>3, <4>1 DEF DataUnderItsHeading
      <4>3. Turns(call'[k]) => call'[k].view = chosen
        <5>1. call'[k].kind = "act" /\ call'[k].view = p.view
          BY <3>2
        <5>. HIDE DEF p
        <5>. QED
          BY <3>4, <4>2, <5>1 DEF Turns, Brings, Again
      <4>4. chosen' = chosen /\ panel' = panel /\ Became(k, r)
        BY <3>1, <3>4
      <4>. QED
        BY <2>2, <2>3, <4>3, <4>4, SameTurns DEF Turned
    <3>. QED
      BY <3>3, <3>4
  <2>. QED
    BY <1>1, <2>4, <2>5, <2>6, UserShape
<1>2. ASSUME NEW k \in Calls, Answer(k) PROVE Turned'
  <2>1. /\ seen \cap {"late", "failed"} = {} /\ chosen' = chosen /\ "failed" \notin seen'
    BY <1>2, AnswerShape
  <2>2. /\ panel.head = chosen \/ \E j \in Calls : Brings(call[j])
        /\ \A j \in Calls : Turns(call[j]) => call[j].view = chosen
    BY <2>1 DEF Turned
  <2>3. ASSUME NEW r, Became(k, r), panel'.head = panel.head,
               Turns(r) => r.view = chosen, Brings(call[k]) => Brings(r)
        PROVE  Turned'
    BY <2>1, <2>2, <2>3, SameTurns DEF Turned, Became
  <2>4. CASE Settles(k)
    <3>1. PICK r \in Handlers :
            /\ Became(k, r)
            /\ r.kind = "idle" \/ (r.kind \in {"load", "start"} /\ r.view = NoView)
      BY <2>4 DEF Settles
    <3>2. ~Turns(r)
      BY <3>1 DEF Turns, Brings, Again
    <3>3. ~Brings(call[k]) /\ panel' = panel
      BY <2>1, <2>4 DEF Settles, Brings, Shows
    <3>. QED
      BY <2>3, <3>1, <3>2, <3>3
  <2>5. CASE RendersAgain(k)
    BY <2>1, <2>2, <2>5, RenderTurned DEF RendersAgain
  <2>6. CASE WaitsAgain(k)
    <3>1. PICK jar \in Jars : Became(k, Request("load", call[k].view, {}, jar)) /\ panel' = panel
      BY <2>6 DEF WaitsAgain
    <3>. DEFINE r == Request("load", call[k].view, {}, jar)
    <3>2. r.kind = "load" /\ r.view = call[k].view
      BY DEF Request
    <3>3. call[k].view # NoView
      BY <2>6 DEF WaitsAgain, NoView, View
    <3>4. Turns(call[k])
      BY <2>6 DEF WaitsAgain, Turns
    <3>. QED
      BY <2>2, <2>3, <3>1, <3>2, <3>3, <3>4 DEF Brings, Again
  <2>7. CASE ShowsPart(k)
    <3>1. panel'.head = panel.head /\ Became(k, Idle)
      BY <2>7, AppendedType DEF ShowsPart
    <3>2. ~Brings(call[k]) /\ ~Turns(Idle)
      BY <2>7, IdleType DEF ShowsPart, Turns, Brings, Again
    <3>. QED
      BY <2>3, <3>1, <3>2
  <2>8. CASE AsksTables(k)
    <3>1. PICK r \in Handlers : Became(k, r) /\ r.kind = "tables" /\ r.view = call[k].view
      BY <2>8 DEF AsksTables
    <3>2. Brings(r) /\ Turns(call[k])
      BY <2>8, <3>1 DEF AsksTables, Brings, Turns
    <3>. QED
      BY <2>2, <2>3, <2>8, <3>1, <3>2 DEF AsksTables
  <2>9. CASE ShowsOverview(k)
    <3>1. panel'.head = call[k].view /\ Became(k, Idle) /\ Turns(call[k])
      BY <2>9 DEF ShowsOverview, Turns, Brings
    <3>2. ~Turns(Idle)
      BY IdleType DEF Turns, Brings, Again
    <3>. QED
      BY <2>1, <2>2, <3>1, <3>2, SameTurns DEF Turned, Became
  <2>. QED
    BY <1>2, <2>4, <2>5, <2>6, <2>7, <2>8, <2>9, AnswerShape
<1>3. CASE Expire /\ Note("expire")
  BY <1>3, NoteEffect DEF Expire, Turned
<1>4. CASE UNCHANGED vars
  BY <1>4 DEF vars, Turned
<1>5. CASE RegistryChange
  BY <1>5, RegistryShape DEF Renamed, Turned, Turns, Brings, Again
<1>. QED
  BY <1>1, <1>2, <1>3, <1>4, <1>5 DEF Next

-----------------------------------------------------------------------------
(* The content of the panel for a user who waits: there once, or on its    *)
(* way into a panel that is empty or will be replaced.                     *)
Filled ==
    seen \cap {"hurried", "failed"} = {} =>
        /\ \A k \in Calls : Shows(call[k]) \/ call[k].kind = "act" \/ Again(call[k])
                               => call[k].view = chosen
        /\ \A k \in Calls : call[k].kind = "view" => panel.parts = <<>>
        /\ chosen # NoView /\ (\A k \in Calls : ~Shows(call[k]))
              => Len(panel.parts) = 1 /\ panel.parts[1].view = chosen
        /\ chosen = NoView => panel.parts = <<>>

LEMMA InitFilled == Init => Filled
<1>. SUFFICES ASSUME Init PROVE Filled
  OBVIOUS
<1>1. PICK k \in Calls : call = [j \in Calls |-> IF j = k THEN Request("boot", NoView, {}, cookie)
                                                 ELSE Idle]
  BY DEF Init
<1>2. \A j \in Calls : call[j].kind \in {"boot", "idle"}
  BY <1>1 DEF Request, Idle
<1>. QED
  BY <1>2 DEF Init, Filled, Shows, Again

\* The one handler that is out becomes r.
LEMMA OneBecomes ==
    ASSUME NEW k \in Calls, NEW r, Became(k, r), Out \subseteq {k}
    PROVE  call'[k] = r /\ \A j \in Calls \ {k} : call'[j].kind = "idle"
  BY DEF Became, Same, Out

LEMMA RenderFilled ==
    ASSUME Types, NEW k \in Calls, NEW v \in Views, NEW jar \in Jars, Render(k, v, jar),
           chosen' = v, Out \subseteq {k}
    PROVE  Filled'
<1>1. /\ Became(k, Slot(v, jar)) /\ Slot(v, jar).view = v
      /\ Slot(v, jar).kind = IF ClearsFirst(v) THEN "view" ELSE "databases"
  BY RenderEffect, SlotType
<1>2. call'[k] = Slot(v, jar) /\ \A j \in Calls \ {k} : call'[j].kind = "idle"
  BY <1>1, OneBecomes
<1>3. v # NoView
  BY PageAssumption DEF Views, View, NoView
<1>4. /\ Shows(call'[k]) /\ call'[k].view = v
      /\ \A j \in Calls \ {k} : ~Shows(call'[j]) /\ call'[j].kind # "act" /\ ~Again(call'[j])
  BY <1>1, <1>2 DEF Shows, Again
<1>5. \A j \in Calls : call'[j].kind = "view" => panel'.parts = <<>>
  <2>1. CASE ClearsFirst(v)
    <3>1. panel' = [head |-> v, parts |-> <<>>]
      BY <2>1, RenderEffect
    <3>. QED
      BY <3>1
  <2>2. CASE ~ClearsFirst(v)
    BY <1>1, <1>2, <2>2
  <2>. QED
    BY <2>1, <2>2
<1>. QED
  BY <1>3, <1>4, <1>5 DEF Filled

LEMMA NextFilled == Types /\ Alone /\ Headed /\ Filled /\ [Next]_vars => Filled'
<1>. SUFFICES ASSUME Types, Alone, Headed, Filled, [Next]_vars,
                     seen' \cap {"hurried", "failed"} = {}
              PROVE  Filled'
  BY DEF Filled
<1>1. ASSUME NEW k \in Calls, UserStep(k) PROVE Filled'
  <2>1. seen \cap {"hurried", "failed"} = {} /\ Out = {}
    BY <1>1, UserShape
  <2>2. /\ chosen # NoView => Len(panel.parts) = 1 /\ panel.parts[1].view = chosen
        /\ chosen = NoView => panel.parts = <<>>
    BY <2>1 DEF Filled, Out, Shows
  <2>3. CASE Submitted(k)
    <3>1. PICK r \in Handlers : Became(k, r) /\ r.kind \in {"login", "password", "logout", "switch"}
      BY <2>3 DEF Submitted
    <3>2. call'[k] = r /\ \A j \in Calls \ {k} : call'[j].kind = "idle"
      BY <2>1, <3>1, OneBecomes
    <3>3. \A j \in Calls : ~Shows(call'[j]) /\ call'[j].kind # "act" /\ ~Again(call'[j])
      BY <3>1, <3>2 DEF Shows, Again
    <3>. QED
      BY <2>2, <2>3, <3>3 DEF Submitted, Filled, Shows
  <2>4. CASE Opened(k)
    BY <2>1, <2>4, RenderFilled, JarType DEF Opened
  <2>5. CASE Acts(k)
    <3>1. PICK i \in DOMAIN panel.parts :
            LET p == panel.parts[i] IN
            /\ p \in Parts
            /\ Became(k, Request("act", p.view, {}, cookie))
            /\ chosen' = IF p.view.kind \in Pages THEN p.view ELSE chosen
            /\ panel' = panel
      BY <2>5 DEF Acts
    <3>. DEFINE p == panel.parts[i]
                r == Request("act", p.view, {}, cookie)
    <3>2. i = 1 /\ chosen # NoView /\ p.view = chosen
      BY <2>2, <3>1 DEF Types, CallType
    <3>3. r.kind = "act" /\ r.view = p.view
      BY DEF Request
    <3>4. call'[k] = r /\ \A j \in Calls \ {k} : call'[j].kind = "idle"
      BY <2>1, <3>1, OneBecomes
    <3>5. chosen' = chosen /\ panel' = panel
      BY <3>1, <3>2
    <3>6. \A j \in Calls : /\ ~Shows(call'[j])
                           /\ call'[j].kind = "act" => call'[j].view = chosen
                           /\ ~Again(call'[j])
      BY <3>2, <3>3, <3>4 DEF Shows, Again
    <3>. QED
      BY <2>2, <3>5, <3>6 DEF Filled, Shows
  <2>. QED
    BY <1>1, <2>3, <2>4, <2>5, UserShape
<1>2. ASSUME NEW k \in Calls, Answer(k) PROVE Filled'
  <2>1. /\ seen \cap {"hurried", "failed"} = {} /\ chosen' = chosen
        /\ Out \subseteq {k} /\ "failed" \notin seen'
    BY <1>2, AnswerShape DEF Alone, Out
  <2>2. \A j \in Calls \ {k} : ~Shows(call[j])
    BY <2>1 DEF Out, Shows
  \* A handler that shows nothing, and leaves none that does.
  <2>3. ASSUME NEW r, Became(k, r), panel' = panel, r.kind \notin {"view", "act"},
               ~Shows(call[k]) \/ Shows(r),
               Shows(r) \/ Again(r) => r.view = chosen
        PROVE  Filled'
    <3>1. call'[k] = r /\ \A j \in Calls \ {k} : call'[j].kind = "idle"
      BY <2>1, <2>3, OneBecomes
    <3>2. \A j \in Calls \ {k} : ~Shows(call'[j]) /\ ~Again(call'[j]) /\ call'[j].kind # "act"
      BY <3>1 DEF Shows, Again
    <3>3. \A j \in Calls : call'[j].kind # "view"
      BY <2>3, <3>1
    <3>4. (\A j \in Calls : ~Shows(call'[j])) => \A j \in Calls : ~Shows(call[j])
      BY <2>2, <2>3, <3>1
    <3>. QED
      BY <2>1, <2>3, <3>1, <3>2, <3>3, <3>4 DEF Filled
  <2>4. CASE Settles(k)
    <3>1. PICK r \in Handlers :
            /\ Became(k, r)
            /\ r.kind = "idle" \/ (r.kind \in {"load", "start"} /\ r.view = NoView)
      BY <2>4 DEF Settles
    <3>2. ~Shows(r) /\ ~Again(r) /\ r.kind \notin {"view", "act"}
      BY <3>1 DEF Shows, Again
    <3>3. ~Shows(call[k]) /\ panel' = panel
      BY <2>1, <2>4 DEF Settles
    <3>. QED
      BY <2>3, <3>1, <3>2, <3>3
  <2>5. CASE RendersAgain(k)
    <3>1. call[k].view = chosen
      BY <2>1, <2>5 DEF RendersAgain, Turns, Brings, Filled
    <3>. QED
      BY <2>1, <2>5, <3>1, RenderFilled DEF RendersAgain
  <2>6. CASE WaitsAgain(k)
    <3>1. PICK jar \in Jars : Became(k, Request("load", call[k].view, {}, jar)) /\ panel' = panel
      BY <2>6 DEF WaitsAgain
    <3>. DEFINE r == Request("load", call[k].view, {}, jar)
    <3>2. r.kind = "load" /\ r.view = call[k].view
      BY DEF Request
    <3>3. ~Shows(call[k]) /\ call[k].view = chosen
      BY <2>1, <2>6 DEF WaitsAgain, Shows, Filled
    <3>. QED
      BY <2>3, <3>1, <3>2, <3>3
  <2>7. CASE ShowsPart(k)
    <3>1. /\ call[k].view = chosen /\ call[k].view \in Views /\ panel.parts = <<>>
          /\ call[k].view.kind = "table" => call[k].attached
      BY <2>1, <2>7 DEF ShowsPart, Filled, Shows, Headed, Types, CallType
    <3>2. chosen # NoView
      BY <3>1, PageAssumption DEF Views, View, NoView
    <3>3. panel'.parts = Append(<<>>, Part(k, {}))
      BY <2>7, <3>1, AppendedType DEF ShowsPart
    <3>4. Part(k, {}).view = chosen
      BY <3>1 DEF Part
    <3>5. Len(panel'.parts) = 1 /\ panel'.parts[1].view = chosen
      BY <3>3, <3>4
    <3>6. \A j \in Calls : call'[j].kind = "idle"
      BY <2>1, <2>7, IdleType, OneBecomes DEF ShowsPart
    <3>. QED
      BY <2>1, <3>2, <3>5, <3>6 DEF Filled, Shows, Again
  <2>8. CASE AsksTables(k)
    <3>1. PICK r \in Handlers : Became(k, r) /\ r.kind = "tables" /\ r.view = call[k].view
      BY <2>8 DEF AsksTables
    <3>2. call[k].view = chosen /\ panel' = panel
      BY <2>1, <2>8 DEF AsksTables, Filled, Shows
    <3>3. Shows(r)
      BY <3>1 DEF Shows
    <3>. QED
      BY <2>3, <3>1, <3>2, <3>3
  <2>9. CASE ShowsOverview(k)
    <3>1. call[k].view = chosen /\ call[k].view \in Views
      BY <2>1, <2>9 DEF ShowsOverview, Filled, Shows, Types, CallType
    <3>2. chosen # NoView
      BY <3>1, PageAssumption DEF Views, View, NoView
    <3>3. panel'.parts = <<Part(k, call[k].from \cup {Source(k)})>>
      BY <2>9 DEF ShowsOverview
    <3>4. Part(k, call[k].from \cup {Source(k)}).view = chosen
      BY <3>1 DEF Part
    <3>5. Len(panel'.parts) = 1 /\ panel'.parts[1].view = chosen
      BY <3>3, <3>4
    <3>6. \A j \in Calls : call'[j].kind = "idle"
      BY <2>1, <2>9, IdleType, OneBecomes DEF ShowsOverview
    <3>. QED
      BY <2>1, <3>2, <3>5, <3>6 DEF Filled, Shows, Again
  <2>. QED
    BY <1>2, <2>4, <2>5, <2>6, <2>7, <2>8, <2>9, AnswerShape
<1>3. CASE Expire /\ Note("expire")
  BY <1>3, NoteEffect DEF Expire, Filled
<1>4. CASE UNCHANGED vars
  BY <1>4 DEF vars, Filled
<1>5. CASE RegistryChange
  BY <1>5, RegistryShape DEF Renamed, Filled, Shows, Again
<1>. QED
  BY <1>1, <1>2, <1>3, <1>4, <1>5 DEF Next

-----------------------------------------------------------------------------
(* The inductive invariant *)
IInv == /\ Types /\ Room /\ OneScreen /\ OneCookie /\ SignedOut
        /\ Alone /\ Headed /\ DataUnderItsHeading /\ OneServerPerPart /\ Turned /\ Filled

LEMMA Invariance == Spec => []IInv
<1>1. Init => IInv
  BY InitTypes, InitRoom, InitScreen, InitCookie, InitHeaded, InitTurned, InitFilled DEF IInv
<1>2. IInv /\ [Next]_vars => IInv'
  BY NextTypes, NextRoom, NextScreen, NextCookie, NextSignedOut, NextAlone, NextHeaded,
     NextUnderHeading, NextOneServer, NextTurned, NextFilled DEF IInv
<1>. QED
  BY <1>1, <1>2, PTL DEF Spec

\* The types of screens, cookie, panel and handlers, and that the panel never
\* collects more parts than there are handlers (the renderers of web/*.js).
THEOREM TypeCorrect == Spec => []TypeOK
<1>1. IInv => TypeOK
  <2>. SUFFICES ASSUME IInv PROVE TypeOK
    OBVIOUS
  <2>1. Viewing \in SUBSET Calls
    BY DEF Viewing
  <2>2. Cardinality(Viewing) \in Nat /\ Cardinality(Calls) \in Nat /\ Len(panel.parts) \in Nat
    BY <2>1, ViewingFinite DEF IInv, Types, CallType
  <2>3. Len(panel.parts) <= Cardinality(Calls)
    BY <2>2 DEF IInv, Room
  <2>. QED
    BY <2>3 DEF IInv, Types, CallType, TypeOK
<1>. QED
  BY <1>1, Invariance, PTL

\* The application is alone on the screen, and the page is blank only until
\* boot is answered (app.js, api.js).
THEOREM ScreensExclusive == Spec => []OneScreen
<1>1. IInv => OneScreen
  BY DEF IInv
<1>. QED
  BY <1>1, Invariance, PTL

\* Whoever is shown the login screen has no session, whichever requests fail,
\* until the session changes while requests are out or the start of the page
\* goes wrong: the catch of init then shows the login screen to a user who is
\* signed in (app.js:403-407), until the next login.
THEOREM LoginMeansNoSession == Spec => []LoginOnlySignedOut
<1>1. IInv => LoginOnlySignedOut
  BY DEF IInv, SignedOut, LoginOnlySignedOut
<1>. QED
  BY <1>1, Invariance, PTL

\* The data of an overview or a table stand under their own heading in every
\* order of clicks and answers (databases.js, tables.js), those of the other
\* views for a user who waits (users.js, servers.js, query.js).
THEOREM HeadingTrue == Spec => []DataUnderItsHeading
<1>1. IInv => DataUnderItsHeading
  BY DEF IInv
<1>. QED
  BY <1>1, Invariance, PTL

\* The answers of an overview come from one server, that of the session or the
\* registry's default, until the session changes while a request is out or a
\* colleague moves that server while an overview waits (databases.js:10-11,
\* deps.py:12-24).
THEOREM PartsOfOneServer == Spec => []OneServerPerPart
<1>1. IInv => OneServerPerPart
  BY DEF IInv
<1>. QED
  BY <1>1, Invariance, PTL

\* Once all is answered the panel is of the view the user turned to last, and
\* its content is there once, with the exceptions PanelFollowsClick names.
THEOREM PanelFollows == Spec => []PanelFollowsClick
<1>1. IInv => PanelFollowsClick
  <2>. SUFFICES ASSUME IInv, Out = {}, chosen # NoView, "failed" \notin seen
                PROVE  /\ "late" \notin seen => panel.head = chosen
                       /\ "hurried" \notin seen
                             => Len(panel.parts) = 1 /\ panel.parts[1].view = chosen
    BY DEF PanelFollowsClick
  <2>1. \A k \in Calls : ~Brings(call[k]) /\ ~Shows(call[k])
    BY DEF Out, Brings, Again, Shows
  <2>. QED
    BY <2>1 DEF IInv, Turned, Filled
<1>. QED
  BY <1>1, Invariance, PTL
=============================================================================
