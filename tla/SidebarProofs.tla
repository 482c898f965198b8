--------------------------- MODULE SidebarProofs ----------------------------
(***************************************************************************)
(* Proofs about Sidebar for any servers, databases and handlers, whichever *)
(* answers are lost and whatever the session middleware stores.            *)
(***************************************************************************)
EXTENDS Sidebar, TLAPS

Handlers == [pc : Steps, cookie : Cookies, server : Cookies, db : Dbs \cup {None},
             list : SUBSET Dbs]

\* What TypeOK says of one handler.
Fits(r) ==
    /\ r \in Handlers
    /\ r.pc \in {"post", "listed"} => r.server \in Servers
    /\ r.pc = "create" => r.db \in Dbs

LEMMA IdleFits ==
    /\ Fits(Idle) /\ Idle.pc = "idle"
    /\ \A pc \in Steps \ {"post", "listed", "create"}, c \in Cookies :
          Fits([Idle EXCEPT !.pc = pc, !.cookie = c])
  BY DEF Fits, Idle, Handlers, Steps, Cookies

\* What TypeOK says of the tree and its populate calls.
TreeFits ==
    /\ DOMAIN tree \subseteq Entries /\ Range(tree) \subseteq Boxes
    /\ fetches \subseteq Fetches
    /\ \A f \in fetches : f.attached => f.entry \in DOMAIN tree

\* TypeOK is about the registry and about the page.
RegistryOK == registered \subseteq Servers /\ default \in registered
PageOK ==
    /\ dbs \in [Servers -> SUBSET Dbs]
    /\ session \in Cookies /\ picker \in Servers
    /\ task \in [Tasks -> Handlers] /\ \A t \in Tasks : Fits(task[t])
    /\ TreeFits
    /\ expandedDbs \subseteq Dbs

LEMMA TypeOKParts == TypeOK <=> RegistryOK /\ PageOK
  BY DEF TypeOK, TreeFits, Fits, Handlers, RegistryOK, PageOK

LEMMA TargetServer == TypeOK => \A c : Target(c) \in Servers
  BY DEF TypeOK, Target

LEMMA Boxed == TreeFits => \A e \in DOMAIN tree : tree[e] \in Boxes
  BY DEF TreeFits, Range

LEMMA EmptyTree == DOMAIN <<>> = {}
  OBVIOUS

LEMMA ClearFits == TreeFits /\ Clear => TreeFits' /\ DOMAIN tree' = {}
<1>. SUFFICES ASSUME TreeFits, Clear PROVE TreeFits' /\ DOMAIN tree' = {}
  OBVIOUS
<1>1. tree' = <<>> /\ fetches' = {[f EXCEPT !.attached = FALSE] : f \in fetches}
  BY DEF Clear, Detached
<1>2. DOMAIN tree' = {}
  BY <1>1, EmptyTree
<1>3. ASSUME NEW f \in fetches
      PROVE  /\ [f EXCEPT !.attached = FALSE] \in Fetches
             /\ [f EXCEPT !.attached = FALSE].attached = FALSE
  BY DEF TreeFits, Fetches
<1>4. fetches' \subseteq Fetches /\ \A f \in fetches' : ~f.attached
  BY <1>1, <1>3
<1>5. Range(tree') = {}
  BY <1>2 DEF Range
<1>. QED
  BY <1>2, <1>4, <1>5 DEF TreeFits
-----------------------------------------------------------------------------
\* A handler that is replaced by one that fits, and what the others are.
LEMMA ResumeFits ==
    ASSUME TypeOK, NEW t \in Tasks, NEW r, Fits(r), Resume(t, r)
    PROVE  /\ task' \in [Tasks -> Handlers] /\ \A s \in Tasks : Fits(task'[s])
           /\ task'[t] = r /\ \A s \in Tasks \ {t} : task'[s] = task[s]
  BY TypeOKParts DEF Resume, Fits, PageOK

LEMMA LoadFits ==
    ASSUME TypeOK, NEW t \in Tasks, NEW c \in Cookies, LoadSidebar(t, c)
    PROVE  /\ task' \in [Tasks -> Handlers] /\ \A s \in Tasks : Fits(task'[s])
           /\ task'[t].pc = "me" /\ task'[t].cookie = c
           /\ \A s \in Tasks \ {t} : task'[s] = task[s]
           /\ TreeFits' /\ DOMAIN tree' = {}
           /\ fetches = {} => fetches' = {}
<1>1. Resume(t, [Idle EXCEPT !.pc = "me", !.cookie = c]) /\ Clear
  BY DEF LoadSidebar
<1>2. Fits([Idle EXCEPT !.pc = "me", !.cookie = c])
  BY IdleFits DEF Steps
<1>3. /\ [Idle EXCEPT !.pc = "me", !.cookie = c].pc = "me"
      /\ [Idle EXCEPT !.pc = "me", !.cookie = c].cookie = c
  BY DEF Idle
<1>4. fetches = {} => fetches' = {}
  BY <1>1 DEF Clear, Detached
<1>. QED
  BY <1>1, <1>2, <1>3, <1>4, ResumeFits, ClearFits, TypeOKParts DEF PageOK

LEMMA FinishFits ==
    ASSUME TypeOK, NEW t \in Tasks, Finish(t)
    PROVE  /\ task' \in [Tasks -> Handlers] /\ \A s \in Tasks : Fits(task'[s])
           /\ task'[t].pc = "idle" /\ \A s \in Tasks \ {t} : task'[s] = task[s]
  BY IdleFits, ResumeFits DEF Finish

LEMMA CookieFits ==
    ASSUME TypeOK, NEW c \in Cookies, NEW jar \in CookieAfter(c)
    PROVE  jar \in Cookies /\ jar \in {session, c}
  BY TypeOKParts DEF CookieAfter, PageOK

\* The reply that fills the tree: an entry keeps its box, a new one is open
\* iff its name is in the set.
LEMMA ShowFits ==
    ASSUME TypeOK, NEW t \in Tasks, ShowDatabases(t)
    PROVE  /\ TreeFits'
           /\ DOMAIN tree' = DOMAIN tree \cup NewEntries(t)
           /\ \A e \in DOMAIN tree : tree'[e] = tree[e]
           /\ \A e \in NewEntries(t) \ DOMAIN tree : tree'[e].open = Expanded(e)
           /\ \A e \in NewEntries(t) : e.server = task[t].server
           /\ \A f \in fetches' : f \in fetches \/ f.cookie = task[t].cookie
<1>1. task[t].cookie \in Cookies /\ task[t].server \in Servers /\ task[t].list \subseteq Dbs
  BY TypeOKParts DEF ShowDatabases, Fits, Handlers, PageOK
<1>2. NewEntries(t) \subseteq Entries /\ \A e \in NewEntries(t) : e.server = task[t].server
  BY <1>1 DEF NewEntries, Entries
<1>3. tree' = [e \in DOMAIN tree \cup NewEntries(t) |->
                 IF e \in DOMAIN tree THEN tree[e]
                 ELSE [open |-> Expanded(e), loaded |-> FALSE]]
  BY DEF ShowDatabases
<1>4. \A e : [open |-> Expanded(e), loaded |-> FALSE] \in Boxes
  BY DEF Boxes, Expanded
<1>5. TreeFits /\ \A e \in DOMAIN tree : tree[e] \in Boxes
  BY Boxed, TypeOKParts DEF PageOK
<1>6. DOMAIN tree' \subseteq Entries /\ Range(tree') \subseteq Boxes
  <2>1. \A e \in DOMAIN tree' : tree'[e] \in Boxes
    BY <1>3, <1>4, <1>5
  <2>. QED
    BY <1>2, <1>3, <1>5, <2>1 DEF Range, TreeFits
<1>7. ASSUME NEW f \in fetches' \ fetches
      PROVE  f \in Fetches /\ f.entry \in DOMAIN tree' /\ f.cookie = task[t].cookie
  <2>1. f \in [entry : {e \in NewEntries(t) : Expanded(e)}, cookie : {task[t].cookie},
               attached : {TRUE}]
    BY <1>7 DEF ShowDatabases
  <2>. QED
    BY <1>1, <1>2, <1>3, <2>1 DEF Fetches
<1>8. TreeFits'
  BY <1>3, <1>5, <1>6, <1>7 DEF TreeFits
<1>. QED
  BY <1>2, <1>3, <1>5, <1>7, <1>8

LEMMA ToggleFits ==
    ASSUME TypeOK, NEW e \in DOMAIN tree, Toggle(e)
    PROVE  /\ TreeFits' /\ DOMAIN tree' = DOMAIN tree
           /\ tree'[e].open = ~tree[e].open
           /\ \A d \in DOMAIN tree \ {e} : tree'[d] = tree[d]
           /\ \A f \in fetches' : f \in fetches \/ f.cookie = session
           /\ expandedDbs' = IF ~tree[e].open THEN expandedDbs \cup {e.db}
                             ELSE expandedDbs \ {e.db}
           /\ expandedDbs' \subseteq Dbs
<1>1. TreeFits /\ tree[e] \in Boxes /\ e \in Entries /\ \A d \in DOMAIN tree : tree[d] \in Boxes
  BY Boxed, TypeOKParts DEF TreeFits, PageOK
<1>2. tree' = [tree EXCEPT ![e].open = ~tree[e].open]
  BY DEF Toggle
<1>3. [tree[e] EXCEPT !.open = ~tree[e].open] \in Boxes
      /\ [tree[e] EXCEPT !.open = ~tree[e].open].open = ~tree[e].open
  BY <1>1 DEF Boxes
<1>4. /\ DOMAIN tree' = DOMAIN tree
      /\ tree'[e] = [tree[e] EXCEPT !.open = ~tree[e].open]
      /\ \A d \in DOMAIN tree \ {e} : tree'[d] = tree[d]
  BY <1>2
<1>5. Range(tree') \subseteq Boxes
  BY <1>1, <1>3, <1>4 DEF Range
<1>6. \A f \in fetches' : \/ f \in fetches
                          \/ f = [entry |-> e, cookie |-> session, attached |-> TRUE]
  BY DEF Toggle
<1>7. [entry |-> e, cookie |-> session, attached |-> TRUE] \in Fetches
  BY <1>1, TypeOKParts DEF Fetches, PageOK
<1>8. TreeFits'
  <2>1. DOMAIN tree' \subseteq Entries /\ fetches' \subseteq Fetches
    BY <1>1, <1>4, <1>6, <1>7 DEF TreeFits
  <2>2. ASSUME NEW f \in fetches', f.attached PROVE f.entry \in DOMAIN tree'
    <3>1. CASE f \in fetches
      BY <1>1, <1>4, <2>2, <3>1 DEF TreeFits
    <3>2. CASE f = [entry |-> e, cookie |-> session, attached |-> TRUE]
      BY <1>4, <3>2
    <3>. QED
      BY <1>6, <3>1, <3>2
  <2>. QED
    BY <1>5, <2>1, <2>2 DEF TreeFits
<1>9. expandedDbs' = IF ~tree[e].open THEN expandedDbs \cup {e.db} ELSE expandedDbs \ {e.db}
  BY DEF Toggle, ToggledSet
<1>10. expandedDbs' \subseteq Dbs
  BY <1>1, <1>9, TypeOKParts DEF Entries, PageOK
<1>. QED
  BY <1>3, <1>4, <1>6, <1>8, <1>9, <1>10

LEMMA PopulatedFits ==
    ASSUME TypeOK, NEW f \in fetches, Populated(f)
    PROVE  /\ TreeFits' /\ DOMAIN tree' = DOMAIN tree
           /\ \A e \in DOMAIN tree : tree'[e].open = tree[e].open
           /\ session' \in Cookies /\ session' \in {session, f.cookie}
<1>1. TreeFits /\ f \in Fetches /\ \A e \in DOMAIN tree : tree[e] \in Boxes
  BY Boxed, TypeOKParts DEF TreeFits, PageOK
<1>2. session' \in Cookies /\ session' \in {session, f.cookie}
  BY <1>1, CookieFits DEF Populated, Fetches
<1>3. CASE f.attached
  <2>1. tree' = [tree EXCEPT ![f.entry].loaded = TRUE] /\ f.entry \in DOMAIN tree
    BY <1>1, <1>3 DEF Populated, TreeFits
  <2>2. /\ [tree[f.entry] EXCEPT !.loaded = TRUE] \in Boxes
        /\ [tree[f.entry] EXCEPT !.loaded = TRUE].open = tree[f.entry].open
    BY <1>1, <2>1 DEF Boxes
  <2>3. /\ DOMAIN tree' = DOMAIN tree
        /\ tree'[f.entry] = [tree[f.entry] EXCEPT !.loaded = TRUE]
        /\ \A d \in DOMAIN tree \ {f.entry} : tree'[d] = tree[d]
    BY <2>1
  <2>4. Range(tree') \subseteq Boxes
    BY <1>1, <2>2, <2>3 DEF Range
  <2>. QED
    BY <1>1, <1>2, <2>2, <2>3, <2>4 DEF Populated, TreeFits
<1>4. CASE ~f.attached
  BY <1>1, <1>2, <1>4 DEF Populated, TreeFits
<1>. QED
  BY <1>3, <1>4
-----------------------------------------------------------------------------
Loading == {"me", "databases", "listed"}

\* What the user starts: a request of his own, with the cookie of the browser.
LEMMA UserOutcome ==
    ASSUME TypeOK, NEW t \in Tasks, UserStep(t)
    PROVE  /\ PageOK'
           /\ task[t].pc = "idle" /\ task'[t].pc \notin {"idle", "listed", "drop"}
           /\ task'[t].pc # "confirm" => task'[t].cookie = session
           /\ task'[t].pc = "confirm" => \E e \in DOMAIN tree : task'[t].server = e.server
           /\ \A s \in Tasks \ {t} : task'[s] = task[s]
           /\ task'[t].pc \in Loading => DOMAIN tree' = {}
           /\ session' = session
           /\ tree' = tree \/ DOMAIN tree' = {}
           /\ fetches = {} => fetches' = {}
           /\ UNCHANGED expandedDbs
<1>0. session \in Cookies
  BY TypeOKParts DEF PageOK
<1>1. CASE Reload(t)
  BY <1>0, <1>1, LoadFits, TypeOKParts DEF Reload, UserActs, PageOK, Loading
<1>2. ASSUME NEW r, Fits(r), Resume(t, r), r.pc \notin Loading \cup {"idle", "drop"},
             r.pc # "confirm" => r.cookie = session,
             r.pc = "confirm" => \E e \in DOMAIN tree : r.server = e.server,
             task[t].pc = "idle", picker' \in Servers,
             UNCHANGED <<dbs, session, tree, fetches, expandedDbs>>
      PROVE  /\ PageOK'
             /\ task'[t].pc \notin Loading \cup {"idle", "drop"}
             /\ task'[t].pc # "confirm" => task'[t].cookie = session
             /\ task'[t].pc = "confirm" => \E e \in DOMAIN tree : task'[t].server = e.server
             /\ \A s \in Tasks \ {t} : task'[s] = task[s]
  <2>1. /\ task' \in [Tasks -> Handlers] /\ \A s \in Tasks : Fits(task'[s])
        /\ task'[t] = r /\ \A s \in Tasks \ {t} : task'[s] = task[s]
    BY <1>2, ResumeFits
  <2>2. TreeFits'
    BY <1>2, TypeOKParts DEF TreeFits, PageOK
  <2>. QED
    BY <1>2, <2>1, <2>2, TypeOKParts DEF PageOK
<1>3. CASE SwitchServer(t)
  <2>1. PICK s \in Servers \ {picker} :
           picker' = s /\ Resume(t, [Idle EXCEPT !.pc = "post", !.cookie = session, !.server = s])
    BY <1>3 DEF SwitchServer
  <2>. DEFINE r == [Idle EXCEPT !.pc = "post", !.cookie = session, !.server = s]
  <2>2. Fits(r) /\ r.pc = "post" /\ r.cookie = session
    BY <1>0 DEF Fits, Idle, Handlers, Steps, Cookies
  <2>. HIDE DEF r
  <2>. QED
    BY <1>2, <1>3, <2>1, <2>2 DEF SwitchServer, UserActs, r, Loading
<1>4. CASE NewDatabase(t)
  <2>1. PICK d \in Dbs :
           Resume(t, [Idle EXCEPT !.pc = "create", !.cookie = session, !.db = d])
    BY <1>4 DEF NewDatabase
  <2>. DEFINE r == [Idle EXCEPT !.pc = "create", !.cookie = session, !.db = d]
  <2>2. Fits(r) /\ r.pc = "create" /\ r.cookie = session
    BY <1>0 DEF Fits, Idle, Handlers, Steps, Cookies
  <2>. HIDE DEF r
  <2>. QED
    BY <1>2, <1>4, <2>1, <2>2, TypeOKParts DEF NewDatabase, UserActs, r, PageOK, Loading
<1>5. CASE DropDatabase(t)
  <2>1. PICK e \in DOMAIN tree :
           Resume(t, [Idle EXCEPT !.pc = "confirm", !.server = e.server, !.db = e.db])
    BY <1>5 DEF DropDatabase
  <2>. DEFINE r == [Idle EXCEPT !.pc = "confirm", !.server = e.server, !.db = e.db]
  <2>2. e.server \in Servers /\ e.db \in Dbs
    BY TypeOKParts DEF TreeFits, Entries, PageOK
  <2>3. Fits(r) /\ r.pc = "confirm" /\ r.server = e.server
    BY <2>2 DEF Fits, Idle, Handlers, Steps, Cookies
  <2>. HIDE DEF r
  <2>. QED
    BY <1>2, <1>5, <2>1, <2>3, TypeOKParts DEF DropDatabase, UserActs, r, PageOK, Loading
<1>. QED
  BY <1>1, <1>3, <1>4, <1>5 DEF UserStep, Loading

\* What an answer makes of its handler, the cookie and the tree.
LEMMA StepOutcome ==
    ASSUME TypeOK, NEW t \in Tasks, Step(t) \/ ListDatabases(t)
    PROVE  /\ PageOK'
           /\ task[t].pc # "idle" /\ task'[t].pc # "confirm"
           /\ task'[t].pc = "listed" => ListDatabases(t)
           /\ task'[t].pc = "drop" => ConfirmDrop(t)
           /\ task[t].pc = "confirm" => session' = session /\ (task'[t].pc = "idle" \/ ConfirmDrop(t))
           /\ task'[t].pc \in Loading => DOMAIN tree' = {} \/ (task[t].pc \in Loading /\ tree' = tree)
           /\ \A s \in Tasks \ {t} : task'[s] = task[s]
           /\ \/ task'[t].pc = "idle" \/ task'[t].cookie = session'
              \/ task'[t].cookie = task[t].cookie /\ session' = session
           /\ \/ session' \in {session, task[t].cookie}
              \/ DOMAIN tree' = {} /\ task'[t].cookie = session'
           /\ tree' = tree \/ DOMAIN tree' = {} \/ ShowDatabases(t)
           /\ fetches = {} => fetches' = {} \/ (ShowDatabases(t) /\ task'[t].pc = "idle")
           /\ UNCHANGED expandedDbs
<1>0. Fits(task[t]) /\ dbs \in [Servers -> SUBSET Dbs] /\ TreeFits
  BY TypeOKParts DEF PageOK
<1>f. UNCHANGED <<tree, fetches>> => TreeFits'
  BY <1>0 DEF TreeFits
<1>1. CASE GotMe(t)
  <2>1. PICK jar \in CookieAfter(task[t].cookie) :
           session' = jar /\ Resume(t, [Idle EXCEPT !.pc = "databases", !.cookie = jar])
    BY <1>1 DEF GotMe
  <2>2. jar \in Cookies /\ jar \in {session, task[t].cookie}
    BY <1>0, <1>1, CookieFits DEF GotMe, Fits, Handlers
  <2>3. /\ Fits([Idle EXCEPT !.pc = "databases", !.cookie = jar])
        /\ [Idle EXCEPT !.pc = "databases", !.cookie = jar].pc = "databases"
        /\ [Idle EXCEPT !.pc = "databases", !.cookie = jar].cookie = jar
    BY <2>2, IdleFits DEF Idle, Steps
  <2>4. /\ task' \in [Tasks -> Handlers] /\ \A s \in Tasks : Fits(task'[s])
        /\ task'[t] = [Idle EXCEPT !.pc = "databases", !.cookie = jar]
        /\ \A s \in Tasks \ {t} : task'[s] = task[s]
    BY <2>1, <2>3, ResumeFits
  <2>5. PageOK'
    BY <1>1, <1>f, <2>1, <2>2, <2>4, TypeOKParts DEF GotMe, PageOK
  <2>. QED
    BY <1>1, <2>1, <2>2, <2>3, <2>4, <2>5 DEF GotMe, Loading
<1>2. CASE ListDatabases(t)
  <2>. DEFINE s == Target(task[t].cookie)
  <2>. DEFINE r == [task[t] EXCEPT !.pc = "listed", !.server = s, !.list = dbs[s]]
  <2>0. s \in Servers
    BY TargetServer
  <2>. HIDE DEF s
  <2>1. task[t].pc = "databases" /\ Resume(t, r)
    BY <1>2 DEF ListDatabases, s
  <2>2. Fits(r) /\ r.pc = "listed" /\ r.cookie = task[t].cookie /\ r.server = s
    BY <1>0, <2>0, <2>1 DEF Fits, Handlers, Steps, Cookies
  <2>. HIDE DEF r
  <2>3. /\ task' \in [Tasks -> Handlers] /\ \A q \in Tasks : Fits(task'[q])
        /\ task'[t] = r /\ \A q \in Tasks \ {t} : task'[q] = task[q]
    BY <2>1, <2>2, ResumeFits
  <2>4. PageOK'
    BY <1>2, <1>f, <2>3, TypeOKParts DEF ListDatabases, PageOK
  <2>. QED
    BY <1>2, <2>1, <2>2, <2>3, <2>4 DEF ListDatabases, Loading
<1>3. CASE ShowDatabases(t) \/ LoadFails(t) \/ SwitchFails(t) \/ CancelDrop(t) \/ ChangeFails(t)
  <2>1. /\ Finish(t) /\ task[t].pc # "idle" /\ session' \in CookieAfter(task[t].cookie) \cup {session}
        /\ ShowDatabases(t) \/ UNCHANGED <<tree, fetches>>
        /\ UNCHANGED <<dbs, picker, expandedDbs>>
    BY <1>3 DEF ShowDatabases, LoadFails, SwitchFails, CookieAfterFailure, CancelDrop, ChangeFails
  <2>2. session' \in Cookies /\ session' \in {session, task[t].cookie}
    BY <1>0, <2>1, CookieFits, TypeOKParts DEF Fits, Handlers, PageOK
  <2>3. TreeFits'
    BY <1>f, <2>1, ShowFits
  <2>4. /\ task' \in [Tasks -> Handlers] /\ \A s \in Tasks : Fits(task'[s])
        /\ task'[t].pc = "idle" /\ \A s \in Tasks \ {t} : task'[s] = task[s]
    BY <2>1, FinishFits
  <2>5. PageOK'
    BY <2>1, <2>2, <2>3, <2>4, TypeOKParts DEF PageOK
  <2>6. task[t].pc = "confirm" => session' = session
    BY <1>3 DEF ShowDatabases, LoadFails, SwitchFails, CancelDrop, ChangeFails
  <2>. QED
    BY <2>1, <2>2, <2>4, <2>5, <2>6 DEF Loading
<1>4. CASE Switched(t) \/ Changed(t)
  <2>1. PICK c \in Cookies : session' = c /\ LoadSidebar(t, c)
    <3>1. CASE Switched(t)
      <4>1. session' = task[t].server /\ LoadSidebar(t, task[t].server)
        BY <3>1 DEF Switched, AfterSwitch
      <4>2. task[t].server \in Servers
        BY <1>0, <3>1 DEF Switched, Fits
      <4>. QED
        BY <4>1, <4>2 DEF Cookies
    <3>2. CASE Changed(t)
      BY <1>0, <3>2, CookieFits DEF Changed, Fits, Handlers
    <3>. QED
      BY <1>4, <3>1, <3>2
  <2>2. /\ task[t].pc \notin {"idle", "confirm"} /\ UNCHANGED <<dbs, picker, expandedDbs>>
    BY <1>4 DEF Switched, Changed
  <2>. QED
    BY <2>1, <2>2, LoadFits, TypeOKParts DEF PageOK, Loading
<1>5. CASE CreateServed(t) \/ DropServed(t)
  <2>. DEFINE r == [task[t] EXCEPT !.pc = "changed"]
  <2>1. /\ Resume(t, r) /\ task[t].pc \in {"create", "drop"}
        /\ UNCHANGED <<session, picker, tree, fetches, expandedDbs>>
    BY <1>5 DEF CreateServed, DropServed
  <2>2. Fits(r) /\ r.pc = "changed" /\ r.cookie = task[t].cookie
    BY <1>0, <2>1 DEF Fits, Handlers, Steps
  <2>. HIDE DEF r
  <2>3. /\ task' \in [Tasks -> Handlers] /\ \A s \in Tasks : Fits(task'[s])
        /\ task'[t] = r /\ \A s \in Tasks \ {t} : task'[s] = task[s]
    BY <2>1, <2>2, ResumeFits
  <2>4. dbs' \in [Servers -> SUBSET Dbs]
    <3>1. Target(task[t].cookie) \in Servers /\ (task[t].pc = "create" => task[t].db \in Dbs)
      BY <1>0, <2>1, TargetServer DEF Fits
    <3>2. CASE CreateServed(t)
      BY <1>0, <3>1, <3>2 DEF CreateServed
    <3>3. CASE DropServed(t)
      BY <1>0, <3>1, <3>3 DEF DropServed
    <3>. QED
      BY <1>5, <3>2, <3>3
  <2>5. PageOK'
    BY <1>f, <2>1, <2>3, <2>4, TypeOKParts DEF PageOK
  <2>. QED
    BY <2>1, <2>2, <2>3, <2>5 DEF Loading
<1>6. CASE ConfirmDrop(t)
  <2>. DEFINE r == [task[t] EXCEPT !.pc = "drop", !.cookie = session]
  <2>1. /\ Resume(t, r) /\ task[t].pc = "confirm"
        /\ UNCHANGED <<dbs, session, picker, tree, fetches, expandedDbs>>
    BY <1>6 DEF ConfirmDrop
  <2>2. Fits(r) /\ r.pc = "drop" /\ r.cookie = session /\ r.server = task[t].server
    BY <1>0, <2>1, TypeOKParts DEF Fits, Handlers, Steps, PageOK
  <2>. HIDE DEF r
  <2>3. /\ task' \in [Tasks -> Handlers] /\ \A s \in Tasks : Fits(task'[s])
        /\ task'[t] = r /\ \A s \in Tasks \ {t} : task'[s] = task[s]
    BY <2>1, <2>2, ResumeFits
  <2>4. PageOK'
    BY <1>f, <2>1, <2>3, TypeOKParts DEF PageOK
  <2>. QED
    BY <1>6, <2>1, <2>2, <2>3, <2>4 DEF Loading
<1>. QED
  BY <1>1, <1>2, <1>3, <1>4, <1>5, <1>6 DEF Step
-----------------------------------------------------------------------------
LEMMA ListOutcome ==
    ASSUME TypeOK, NEW t \in Tasks, ListDatabases(t)
    PROVE  /\ task'[t].server = Target(task[t].cookie) /\ task'[t].pc = "listed"
           /\ task'[t].cookie = task[t].cookie
  BY TypeOKParts DEF ListDatabases, Resume, PageOK, Handlers

LEMMA ConfirmOutcome ==
    ASSUME TypeOK, NEW t \in Tasks, ConfirmDrop(t)
    PROVE  /\ task'[t].server = task[t].server /\ task'[t].pc = "drop"
           /\ task'[t].cookie = session
  BY TypeOKParts DEF ConfirmDrop, Resume, PageOK, Handlers

LEMMA InitTypeOK == Init => TypeOK
<1>. SUFFICES ASSUME Init PROVE TypeOK
  OBVIOUS
<1>1. Range(tree) = {} /\ DOMAIN tree = {}
  BY EmptyTree DEF Init, Range
<1>2. TreeFits
  BY <1>1 DEF Init, TreeFits
<1>3. task \in [Tasks -> Handlers] /\ \A t \in Tasks : Fits(task[t])
  BY IdleFits DEF Init, Fits
<1>. QED
  BY <1>2, <1>3, TypeOKParts DEF Init, Target, RegistryOK, PageOK

LEMMA UnchangedTypeOK == TypeOK /\ UNCHANGED vars => TypeOK'
  BY DEF vars, registry, TypeOK

\* A colleague's change of the registry leaves the page alone.
LEMMA RegistryFits ==
    ASSUME TypeOK, MoveDefault \/ DeleteServer
    PROVE  TypeOK' /\ UNCHANGED <<dbs, session, picker, task, tree, fetches, expandedDbs>>
<1>1. UNCHANGED <<dbs, session, picker, task, tree, fetches, expandedDbs>>
  BY DEF MoveDefault, DeleteServer
<1>2. registered' \subseteq Servers /\ default' \in registered'
  BY DEF TypeOK, MoveDefault, DeleteServer
<1>. QED
  BY <1>1, <1>2 DEF TypeOK

LEMMA ElsewhereFits ==
    ASSUME TypeOK, ChangedElsewhere
    PROVE  PageOK' /\ UNCHANGED <<session, picker, task, tree, fetches, expandedDbs>>
<1>1. UNCHANGED <<session, picker, task, tree, fetches, expandedDbs>>
  BY DEF ChangedElsewhere
<1>2. dbs' \in [Servers -> SUBSET Dbs]
  BY TypeOKParts DEF ChangedElsewhere, PageOK
<1>3. TreeFits'
  BY <1>1, TypeOKParts DEF TreeFits, PageOK
<1>. QED
  BY <1>1, <1>2, <1>3, TypeOKParts DEF PageOK

LEMMA NextTypeOK == TypeOK /\ [Next]_vars => TypeOK'
<1>. SUFFICES ASSUME TypeOK, [Next]_vars PROVE TypeOK'
  OBVIOUS
<1>1. ASSUME NEW e \in DOMAIN tree, Toggle(e) PROVE PageOK'
  BY <1>1, ToggleFits, TypeOKParts DEF Toggle, PageOK
<1>2. ASSUME NEW f \in fetches, Populated(f) PROVE PageOK'
  BY <1>2, PopulatedFits, TypeOKParts DEF Populated, PageOK
<1>3. ASSUME UNCHANGED registry PROVE RegistryOK'
  BY <1>3, TypeOKParts DEF registry, RegistryOK
<1>4. RegistryOK' /\ PageOK' => TypeOK'
  BY TypeOKParts, PTL
<1>5. CASE UNCHANGED registry /\ \E t \in Tasks : UserStep(t) \/ Step(t) \/ ListDatabases(t)
  BY <1>3, <1>4, <1>5, UserOutcome, StepOutcome
<1>6. CASE /\ UNCHANGED registry
           /\ \/ \E e \in DOMAIN tree : Toggle(e)
              \/ \E f \in fetches : Populated(f)
              \/ ChangedElsewhere
  <2>1. PageOK'
    BY <1>1, <1>2, <1>6, ElsewhereFits
  <2>. QED
    BY <1>3, <1>4, <1>6, <2>1
<1>7. CASE MoveDefault \/ DeleteServer
  BY <1>7, RegistryFits
<1>. QED
  BY <1>5, <1>6, <1>7, UnchangedTypeOK DEF Next

(* Handlers, cookie, tree and populate calls keep their types; a call that *)
(* is still to fill an entry finds it in the tree.                         *)
THEOREM TypeCorrect == Spec => []TypeOK
  BY InitTypeOK, NextTypeOK, PTL DEF Spec

-----------------------------------------------------------------------------
(* A user who waits for every answer has one handler out, or the table     *)
(* lists, and all of them carry the cookie of the browser.  Until the      *)
(* session is given another server, the list that is in, the entries that  *)
(* are shown and the one that is being dropped are of the session's server.*)
OneRequest ==
    /\ \A s, t \in Busy : s = t
    /\ Busy # {} => fetches = {}
    /\ \A t \in Busy : /\ task[t].pc # "confirm" => task[t].cookie = session
                       /\ task[t].pc \in Loading => DOMAIN tree = {}
    /\ \A f \in fetches : f.cookie = session
Holding == {"listed", "confirm", "drop"}
OneServer ==
    /\ \A t \in Busy : task[t].pc \in Holding => task[t].server = Target(session)
    /\ \A e \in DOMAIN tree : e.server = Target(session)
Patient == ~hurried => OneRequest /\ (~drifted => OneServer)

\* Looked up again, the session's server is the same.
LEMMA SameTarget ==
    ASSUME UNCHANGED registry
    PROVE  \A c : session' = c => Target(session)' = Target(c)
  BY DEF registry, Target

LEMMA NextPatient == TypeOK /\ Patient /\ [Next]_vars => Patient'
<1>. SUFFICES ASSUME TypeOK, Patient, [Next]_vars, ~hurried' PROVE Patient'
  BY DEF Patient
<1>1. ASSUME NEW t \in Tasks, UserStep(t), ~hurried, Quiet, UNCHANGED <<registry, drifted>>
      PROVE  Patient'
  <2>1. /\ task'[t].pc \notin {"idle", "listed", "drop"}
        /\ task'[t].pc # "confirm" => task'[t].cookie = session
        /\ task'[t].pc = "confirm" => \E e \in DOMAIN tree : task'[t].server = e.server
        /\ task'[t].pc \in Loading => DOMAIN tree' = {}
        /\ \A s \in Tasks \ {t} : task'[s] = task[s]
        /\ session' = session
        /\ tree' = tree \/ DOMAIN tree' = {}
        /\ fetches = {} => fetches' = {}
    BY <1>1, UserOutcome
  <2>2. Busy = {} /\ fetches = {}
    BY <1>1 DEF Quiet
  <2>3. Busy' = {t} /\ fetches' = {}
    BY <2>1, <2>2 DEF Busy
  <2>4. OneRequest'
    BY <2>1, <2>3 DEF OneRequest
  <2>5. ASSUME ~drifted PROVE OneServer'
    <3>1. \A e \in DOMAIN tree : e.server = Target(session)
      BY <1>1, <2>5 DEF Patient, OneServer
    <3>2. Target(session)' = Target(session)
      BY <1>1, <2>1, SameTarget
    <3>. QED
      BY <2>1, <2>3, <3>1, <3>2 DEF OneServer, Holding
  <2>. QED
    BY <1>1, <2>4, <2>5 DEF Patient
<1>2. ASSUME NEW e \in DOMAIN tree, Toggle(e), ~hurried, Quiet, UNCHANGED <<registry, drifted>>
      PROVE  Patient'
  <2>1. Busy = {} /\ Busy' = {} /\ session' = session /\ Target(session)' = Target(session)
    BY <1>2, SameTarget DEF Quiet, Busy, Toggle
  <2>2. /\ DOMAIN tree' = DOMAIN tree
        /\ \A f \in fetches' : f \in fetches \/ f.cookie = session
    BY <1>2, ToggleFits
  <2>. QED
    BY <1>2, <2>1, <2>2 DEF Patient, OneRequest, OneServer
<1>3. ASSUME NEW t \in Tasks, Step(t) \/ ListDatabases(t), ~hurried, UNCHANGED registry,
             drifted' = drifted \/ ListDatabases(t)
      PROVE  Patient'
  <2>1. /\ task[t].pc # "idle" /\ task'[t].pc # "confirm"
        /\ task'[t].pc = "listed" => ListDatabases(t)
        /\ task'[t].pc = "drop" => ConfirmDrop(t)
        /\ task[t].pc = "confirm" => session' = session /\ (task'[t].pc = "idle" \/ ConfirmDrop(t))
        /\ task'[t].pc \in Loading => DOMAIN tree' = {} \/ (task[t].pc \in Loading /\ tree' = tree)
        /\ \A s \in Tasks \ {t} : task'[s] = task[s]
        /\ \/ task'[t].pc = "idle" \/ task'[t].cookie = session'
           \/ task'[t].cookie = task[t].cookie /\ session' = session
        /\ \/ session' \in {session, task[t].cookie}
           \/ DOMAIN tree' = {} /\ task'[t].cookie = session'
        /\ tree' = tree \/ DOMAIN tree' = {} \/ ShowDatabases(t)
        /\ fetches = {} => fetches' = {} \/ (ShowDatabases(t) /\ task'[t].pc = "idle")
    BY <1>3, StepOutcome
  <2>2. /\ Busy = {t} /\ fetches = {} /\ (task[t].pc # "confirm" => task[t].cookie = session)
        /\ task[t].pc \in Loading => DOMAIN tree = {}
    BY <1>3, <2>1 DEF Patient, OneRequest, Busy
  <2>3. Busy' \subseteq {t}
    BY <2>1, <2>2 DEF Busy
  <2>4. session' = session => Target(session)' = Target(session)
    BY <1>3, SameTarget
  <2>5. CASE ShowDatabases(t)
    <3>1. session' = session /\ DOMAIN tree = {} /\ task[t].pc = "listed"
      BY <2>2, <2>5 DEF ShowDatabases, CookieAfter, Loading
    <3>2. task'[t].pc = "idle" /\ ~ListDatabases(t)
      BY <2>5, <3>1, FinishFits DEF ShowDatabases, ListDatabases
    <3>3. Busy' = {}
      BY <2>3, <3>2 DEF Busy
    <3>4. /\ \A e \in DOMAIN tree' : e.server = task[t].server
          /\ \A f \in fetches' : f.cookie = session
      BY <2>2, <2>5, <3>1, ShowFits
    <3>5. ~drifted => task[t].server = Target(session)
      BY <1>3, <2>2, <3>1 DEF Patient, OneServer, Holding
    <3>. QED
      BY <1>3, <2>4, <3>1, <3>2, <3>3, <3>4, <3>5 DEF Patient, OneRequest, OneServer
  <2>6. CASE ListDatabases(t)
    <3>1. session' = session /\ task[t].pc = "databases" /\ tree' = tree /\ fetches' = {}
      BY <2>2, <2>6 DEF ListDatabases
    <3>2. task'[t].server = Target(session) /\ task'[t].pc = "listed" /\ task'[t].cookie = session
      BY <1>3, <2>2, <2>6, <3>1, ListOutcome
    <3>3. DOMAIN tree' = {}
      BY <2>2, <3>1 DEF Loading
    <3>. QED
      BY <2>3, <2>4, <3>1, <3>2, <3>3 DEF Patient, OneRequest, OneServer, Busy
  <2>7. CASE ConfirmDrop(t)
    <3>1. /\ session' = session /\ task[t].pc = "confirm" /\ tree' = tree /\ fetches' = {}
      BY <2>2, <2>7 DEF ConfirmDrop
    <3>2. /\ task'[t].server = task[t].server /\ task'[t].pc = "drop"
          /\ task'[t].cookie = session /\ ~ListDatabases(t)
      BY <2>7, <3>1, ConfirmOutcome DEF ListDatabases
    <3>. QED
      BY <1>3, <2>2, <2>3, <2>4, <3>1, <3>2
         DEF Patient, OneRequest, OneServer, Busy, Holding, Loading
  <2>8. CASE ~ShowDatabases(t) /\ ~ListDatabases(t) /\ ~ConfirmDrop(t)
    <3>1. fetches' = {} /\ task'[t].pc \notin Holding /\ drifted' = drifted
      BY <1>3, <2>1, <2>2, <2>8 DEF Holding
    <3>2. \/ session' = session /\ (tree' = tree \/ DOMAIN tree' = {})
          \/ DOMAIN tree' = {} /\ task'[t].cookie = session'
      BY <2>1, <2>2, <2>8
    <3>3. OneRequest'
      BY <2>1, <2>2, <2>3, <2>8, <3>1, <3>2 DEF OneRequest, Busy
    <3>4. ASSUME ~drifted PROVE OneServer'
      <4>1. \A e \in DOMAIN tree' : e.server = Target(session)'
        BY <1>3, <2>4, <3>2, <3>4 DEF Patient, OneServer
      <4>. QED
        BY <2>3, <3>1, <4>1 DEF OneServer
    <3>. QED
      BY <3>1, <3>3, <3>4 DEF Patient
  <2>. QED
    BY <2>5, <2>6, <2>7, <2>8
<1>4. ASSUME NEW f \in fetches, Populated(f), ~hurried, UNCHANGED <<registry, drifted>>
      PROVE  Patient'
  <2>1. Busy' = Busy /\ Busy = {} /\ f.cookie = session /\ fetches' \subseteq fetches
    BY <1>4 DEF Patient, OneRequest, Populated, Busy
  <2>2. session' = session /\ DOMAIN tree' = DOMAIN tree
    BY <1>4, <2>1, PopulatedFits
  <2>3. Target(session)' = Target(session)
    BY <1>4, <2>2, SameTarget
  <2>. QED
    BY <1>4, <2>1, <2>2, <2>3 DEF Patient, OneRequest, OneServer
<1>5. CASE ChangedElsewhere /\ ~hurried /\ UNCHANGED <<registry, drifted>>
  <2>1. UNCHANGED <<session, picker, task, tree, fetches, expandedDbs>>
    BY <1>5, ElsewhereFits
  <2>. QED
    BY <1>5, <2>1, SameTarget DEF Patient, OneRequest, OneServer, Busy
<1>6. CASE /\ MoveDefault \/ DeleteServer
           /\ drifted' = (drifted \/ Target(session)' # Target(session)) /\ ~hurried
  <2>1. UNCHANGED <<dbs, session, picker, task, tree, fetches, expandedDbs>>
    BY <1>6, RegistryFits
  <2>2. ~drifted' => ~drifted /\ Target(session)' = Target(session)
    BY <1>6
  <2>. QED
    BY <1>6, <2>1, <2>2 DEF Patient, OneRequest, OneServer, Busy
<1>7. CASE UNCHANGED vars
  BY <1>7, SameTarget DEF vars, registry, Patient, OneRequest, OneServer, Busy
<1>8. CASE /\ (\E t \in Tasks : UserStep(t)) \/ (\E e \in DOMAIN tree : Toggle(e))
           /\ hurried' = (hurried \/ ~Quiet) /\ UNCHANGED <<registry, drifted>>
  <2>1. ~hurried /\ Quiet
    BY <1>8
  <2>. QED
    BY <1>1, <1>2, <1>8, <2>1
<1>9. CASE /\ UNCHANGED <<registry, hurried, drifted>>
           /\ \/ \E t \in Tasks : Step(t)
              \/ \E f \in fetches : Populated(f)
              \/ ChangedElsewhere
  <2>1. ASSUME NEW t \in Tasks, Step(t) PROVE drifted' = drifted \/ ListDatabases(t)
    BY <1>9
  <2>. QED
    BY <1>3, <1>4, <1>5, <1>9, <2>1
<1>10. CASE UNCHANGED <<registry, hurried>> /\ \E t \in Tasks : ListDatabases(t)
  BY <1>3, <1>10
<1>. QED
  BY <1>6, <1>7, <1>8, <1>9, <1>10 DEF Next

LEMMA InitPatient == Init => Patient
<1>. SUFFICES ASSUME Init PROVE Patient
  OBVIOUS
<1>1. DOMAIN tree = {} /\ Busy = {} /\ fetches = {}
  BY EmptyTree DEF Init, Busy, Idle
<1>. QED
  BY <1>1 DEF Patient, OneRequest, OneServer

LEMMA Invariance == Spec => [](TypeOK /\ Patient)
  BY InitPatient, NextPatient, TypeCorrect, PTL DEF Spec

(* Whatever is switched, created and dropped, and whichever answers are    *)
(* lost, the tree comes to rest on the server the next request goes to.    *)
THEOREM TreeShowsActiveServerAlways == Spec => []TreeShowsActiveServer
<1>1. Patient => TreeShowsActiveServer
  BY DEF Patient, OneServer, TreeShowsActiveServer
<1>. QED
  BY <1>1, Invariance, PTL

(* The DELETE of a database runs on the server of the entry that the user  *)
(* confirmed, however long the dialog was open.                            *)
THEOREM DropHitsShownServerAlways == Spec => DropHitsShownServer
<1>1. ASSUME TypeOK, Patient, Next, NEW t \in Tasks,
             task[t].pc = "drop", task'[t].pc = "changed", ~hurried, ~drifted
      PROVE  dbs'[task[t].server] # dbs[task[t].server]
  <2>1. t \in Busy /\ task[t].server = Target(session) /\ task[t].cookie = session
    BY <1>1 DEF Patient, OneRequest, OneServer, Holding, Busy
  <2>2. /\ ~ChangedElsewhere /\ ~(\E f \in fetches : Populated(f))
        /\ ~(\E e \in DOMAIN tree : Toggle(e)) /\ ~MoveDefault /\ ~DeleteServer
    BY <1>1 DEF ChangedElsewhere, Populated, Toggle, MoveDefault, DeleteServer
  <2>3. ASSUME NEW s \in Tasks, UserStep(s) \/ Step(s) \/ ListDatabases(s), s # t PROVE FALSE
    BY <1>1, <2>3, UserOutcome, StepOutcome
  <2>4. ~UserStep(t) /\ ~ListDatabases(t)
    BY <1>1, UserOutcome DEF ListDatabases
  <2>5. Step(t)
    BY <1>1, <2>2, <2>3, <2>4 DEF Next
  <2>6. DropServed(t)
    <3>1. ASSUME Finish(t) PROVE FALSE
      BY <1>1, <3>1, FinishFits
    <3>. QED
      BY <1>1, <2>5, <3>1 DEF Step, GotMe, ShowDatabases, LoadFails, Switched, SwitchFails,
         ConfirmDrop, CancelDrop, CreateServed, Changed, ChangeFails
  <2>7. Target(session) \in Servers /\ dbs \in [Servers -> SUBSET Dbs]
    BY <1>1, TargetServer, TypeOKParts DEF PageOK
  <2>. DEFINE s == Target(session)
  <2>8. task[t].db \in dbs[s] /\ dbs' = [dbs EXCEPT ![s] = @ \ {task[t].db}]
    BY <2>1, <2>6 DEF DropServed
  <2>. HIDE DEF s
  <2>. QED
    BY <2>1, <2>7, <2>8 DEF s
<1>2. TypeOK /\ Patient /\ [Next]_vars =>
        [\A t \in Tasks :
            task[t].pc = "drop" /\ task'[t].pc = "changed" /\ ~hurried /\ ~drifted
               => dbs'[task[t].server] # dbs[task[t].server]]_vars
  BY <1>1
<1>. QED
  BY <1>2, Invariance, PTL DEF Spec, DropHitsShownServer

-----------------------------------------------------------------------------
LEMMA NextExpanded == TypeOK /\ ExpandedIffInSet /\ [Next]_vars => ExpandedIffInSet'
<1>. SUFFICES ASSUME TypeOK, ExpandedIffInSet, [Next]_vars PROVE ExpandedIffInSet'
  OBVIOUS
<1>1. ASSUME UNCHANGED expandedDbs, DOMAIN tree \subseteq DOMAIN tree',
             \A e \in DOMAIN tree : tree'[e].open = tree[e].open,
             \A e \in DOMAIN tree' \ DOMAIN tree : tree'[e].open <=> e.db \in expandedDbs
      PROVE  ExpandedIffInSet'
  BY <1>1 DEF ExpandedIffInSet
<1>2. ASSUME UNCHANGED expandedDbs, tree' = tree \/ DOMAIN tree' = {} PROVE ExpandedIffInSet'
  BY <1>2 DEF ExpandedIffInSet
<1>3. ASSUME NEW e \in DOMAIN tree, Toggle(e) PROVE ExpandedIffInSet'
  <2>1. /\ DOMAIN tree' = DOMAIN tree
        /\ tree'[e].open = ~tree[e].open
        /\ \A d \in DOMAIN tree \ {e} : tree'[d] = tree[d]
        /\ expandedDbs' = IF ~tree[e].open THEN expandedDbs \cup {e.db}
                          ELSE expandedDbs \ {e.db}
    BY <1>3, ToggleFits
  <2>2. \A d \in DOMAIN tree : d.db # e.db => (d.db \in expandedDbs' <=> d.db \in expandedDbs)
    BY <2>1
  <2>3. tree'[e].open <=> e.db \in expandedDbs'
    BY <2>1
  <2>. QED
    BY <2>1, <2>2, <2>3 DEF ExpandedIffInSet
<1>4. ASSUME NEW t \in Tasks, Step(t) \/ ListDatabases(t) PROVE ExpandedIffInSet'
  <2>1. CASE ShowDatabases(t)
    <3>1. /\ DOMAIN tree' = DOMAIN tree \cup NewEntries(t)
          /\ \A e \in DOMAIN tree : tree'[e] = tree[e]
          /\ \A e \in NewEntries(t) \ DOMAIN tree : tree'[e].open = Expanded(e)
      BY <2>1, ShowFits
    <3>2. UNCHANGED expandedDbs
      BY <2>1 DEF ShowDatabases
    <3>. QED
      BY <3>1, <3>2, <1>1 DEF Expanded
  <2>2. CASE ~ShowDatabases(t)
    BY <1>4, <2>2, <1>2, StepOutcome
  <2>. QED
    BY <2>1, <2>2
<1>5. ASSUME NEW t \in Tasks, UserStep(t) PROVE ExpandedIffInSet'
  BY <1>5, <1>2, UserOutcome
<1>6. ASSUME NEW f \in fetches, Populated(f) PROVE ExpandedIffInSet'
  <2>1. UNCHANGED expandedDbs
    BY <1>6 DEF Populated
  <2>. QED
    BY <1>6, <2>1, <1>1, PopulatedFits
<1>7. CASE ChangedElsewhere \/ MoveDefault \/ DeleteServer \/ UNCHANGED vars
  BY <1>7, <1>2 DEF ChangedElsewhere, MoveDefault, DeleteServer, vars
<1>. QED
  BY <1>3, <1>4, <1>5, <1>6, <1>7 DEF Next

(* An entry whose name no other entry has is open exactly when its name is *)
(* in the set, after any toggles, reloads and switches in any order.       *)
THEOREM ExpandedIffInSetAlways == Spec => []ExpandedIffInSet
<1>1. Init => ExpandedIffInSet
  BY EmptyTree DEF Init, ExpandedIffInSet
<1>. QED
  BY <1>1, NextExpanded, TypeCorrect, PTL DEF Spec
=============================================================================
