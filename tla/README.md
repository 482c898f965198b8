# A TLA+ model of the Postgres Database Manager

`dbmanager` is a web application with which a few colleagues administer Postgres
servers: a FastAPI backend (`src/src/dbmanager/*.py`, `routes/*.py`) and a single page
written in plain JavaScript (`web/*.js`). The modules in this directory model the parts
of it that run concurrently with themselves: request threads that share rows,
dictionaries, connections and locks, and callbacks of the page that share the DOM and
the session cookie. TLC checks small instances; TLAPS proves what matters most for every
number of threads, users, pools, rows and failures.

In what follows a path is relative to `src/src/dbmanager/`; `docs/` stands for
`src/docs/superpowers/specs/`.

## 1. The system

| Component | State it keeps | Operations | Interacts with |
|---|---|---|---|
| Admin flags (`routes/users.py`, `auth.py`, `authdb.py`) | `users.is_admin` | create a user, promote, demote | `init-auth`, the Theme page (`require_admin`) |
| `init-auth` (`cli.py`) | none; writes `users`, `servers` | create a first user, seed the registry, make an admin | a process of its own, beside the server |
| Accounts (`auth.py`, `authdb.py`, `routes/session.py`, `routes/users.py`) | `users`, the audit log `user_sessions` | login, logout, change and reset of a password, lockout, unlock, (de)activation | the session cookie |
| Server registry (`serverdb.py`, `routes/servers.py`, `deps.py`) | `servers`, `server_id` in the cookie | create, edit, delete, choose; `active_server` before every database request | pools, sidebar |
| Connection pools (`pools.py`, `deps.py`, `webapp.py`) | `_all_pools`, `_common_pools`, `_server_pools`, `_target_pools` | look up or create, evict, close at shutdown | every route |
| Sidebar and picker (`web/app.js`, `web/databases.js`, `routes/databases.py`) | the tree under `#sidebar`, `expandedDbs`, the picker | load, toggle, populate, switch server, create and drop a database | cookie, registry |
| Data tab (`web/rows.js`, `routes/rows.py`) | the rows on screen | draw, edit, insert, delete, page, filter | the table, other users |
| Theme page (`web/theme.js`, `routes/theme.py`, `themes.py`, `settings_store.py`) | `app_settings`, two `<style>` elements, `current`, `draft` | preview, cancel, save | other admins |
| Table structure (`routes/tables.py`, `sqlbuild.py`, `inspect.py`) | none of its own: the schema of the target database | DDL statements, some of them several to a transaction; reading a structure | connections of the target pool, Postgres's locks, `DROP DATABASE` by force |
| SQL console (`routes/query.py`, `web/query.js`) | the session of the connection it ran on | one statement per request | target pools, through them every later request |
| Main panel (`web/databases.js`, `tables.js`, `users.js`, `servers.js`, `query.js`) | the heading and the content of `#panel`, `selected` | overview, table, console, Users and Servers pages, their dialogs | sidebar, cookie |
| Screens (`web/app.js`, `web/api.js`, `webapp.py`) | which of login, change-password and app is shown | boot, login, forced change of a password, logout, 401 | cookie, panel |
| `passwords.py`, `crypto.py`, `config.py`, `db.py`, `app.css` | none | pure calls | |

What makes it hard:

* **Statements interleave.** Handlers are synchronous functions, which FastAPI runs
  on a pool of threads, and every connection to `common_data` is autocommit
  (`authdb.py:45`, `pools.py:64`). Whatever a handler does in two statements,
  another request can happen in between: count admins and then write; clear the
  default and then set it; read an account, count a failure and then lock it.
* **Dictionaries without a lock.** `pools.py` relies on single dictionary operations
  being atomic; `target_pool` makes several in a row.
* **Callbacks interleave.** Every `await` in the page lets another callback run; the
  answers come in any order or not at all. The active server is in a signed cookie,
  so each request carries the choice of the moment it was sent; a session that has
  chosen none follows the registry's default, which is looked up for each request
  (`deps.py:16-19`) and which a colleague may move at any time.
* **Transactions wait for each other.** The DDL routes hold a pooled connection and
  exclusive locks from their first statement to the commit; two foreign keys that
  cross deadlock, a small pool runs out, and a database can be dropped under all of
  them. A pooled connection keeps what the console did to its session.
* **Stale copies.** The grid, the tree, the draft of a theme and the row a login has
  read are copies on which a decision is taken later.
* **Partial failure.** A request refused halfway has already cleared the default; a
  pool whose `close()` raises has left the cache; `init-auth` can stop anywhere.

What makes each component correct:

* admins: once there is an admin there always is one; `init-auth` makes one;
* accounts: no more guesses than the lockout allows; nobody is let in while locked;
  every event is in the log;
* registry: one default; a session without a choice gets it; a refused request
  changes nothing;
* pools: a cached pool is open, an open pool is known to `close_all`, the cache is
  bounded and least-recently-used, a shutdown closes everything;
* sidebar: the tree is the active server's, an entry is open iff its name is in
  `expandedDbs`, a drop hits the server that was shown;
* data tab: an edit changes the columns that were edited and no others;
* theme: what is painted is what the pickers say, or what is stored;
* structure: a request takes effect whole or not at all, its status says what was
  the matter, and it is answered;
* panel: what is shown stands under its own heading, is of the view selected last,
  and comes from one server; screens: one at a time, login only without a session.

## 2. The modules

| Module | Models | Theorems in |
|---|---|---|
| `AdminSet` | the promise: one flag at a time, never the last admin | |
| `Admins` | `PATCH /api/users/{id}/admin` as four steps, creation of users, `init-auth` as five steps that may crash | `AdminsProofs` |
| `Lockout` | the promise: `MaxFailed` failures lock, nobody enters while locked | |
| `Accounts` | login (read, count, lock, or clear, then the events one by one), logout, change and reset of passwords, `PATCH /api/users/{id}` | `AccountsProofs` |
| `Registry` | `create_server`/`update_server` as clear and write, deletion, the choice of a session, `default_server` as two queries | `RegistryProofs` |
| `LruCache` | the promise: at most `Cap` keys, the least recently used goes | |
| `Pools` | the registries, one action per dictionary operation, startup and shutdown | `PoolsProofs` |
| `Sidebar` | the page's tree and picker with the cookie, one action per callback | `SidebarProofs` |
| `Grid` | the Data tab of several users on one table | `EditorsProofs` |
| `ThemePage` | the editor, the two style elements, overlapping saves | `EditorsProofs` |
| `Ddl` | the statements of `sqlbuild.py`: which Postgres refuses, and what the others change | |
| `AtomicDdl` | the promise: a request takes effect whole at one moment, or fails and changes nothing | |
| `Structure` | the table routes and the console over a target pool: connections, transactions, locks, deadlocks, forced drops | `StructureProofs` |
| `Page` | the screens, the main panel and the cookie, one action per callback | `PageProofs` |

`MC<module>` gives the constants their values for TLC, `MCEditors` those of `Grid` and
`ThemePage`. A name `F_suffix` defined before `F` is a plausible mistake in `F`; nothing
uses it. For every property of a passing run one such mistake, put in the place of `F`,
breaks it.

### How the modules correspond to the code

*Processes.* A request thread `w` has a record `req[w]` with the statement it comes
to next (`pc`) and the local variables that outlive a statement. Reading and
deciding on what was read are one action when no other statement lies between. A
handler that answers early returns to `Idle`. Reads that nothing is decided on (the
row of a response) are left out.

*`Admins`.* `rows` and `admins` are the table. `RequireAdmin`, `GetTarget`,
`CountAdmins`, `SetAdmin` are the four statements of a request to change a flag.
`cli` is the `init-auth` process; a second run of it starts after the first has
ended in any way. `overlapped` is a history variable: it becomes TRUE when a
demotion takes effect while another one, of another user, is between its read of the
target and its write.

*`Accounts`.* `hash` keeps the password itself in place of its bcrypt hash: two
passwords verify against the same hash iff they are equal. `failed_attempts` counts up
to `MaxFailed`, since the code only asks whether it reached that number
(`authdb.py:115`). `locked` says that `locked_until` is in the future; `Expire` is the
passing of time. `owes` are the events a request has caused and not written;
`unrecorded` what requests still owed when they ended. A reset by a colleague is an
event of its own there, `password_reset`, so that it is told from the owner's change;
`tries` the failures since the account was cleared or its lock ran out.

*`Registry`.* A row is its label; ids come from a sequence that also moves when an
insert is refused. `promised` is a history variable: the default which the completed
requests leave behind if statements of two requests do not mix. The unique index on
`label` refuses a write. A label that is sent is a member of `Labels`, the other
fields are left out. `OneDefault` is the sentence of the design, `DefaultsBounded` what
is left of it.

*`Pools`.* A pool is an identity in `PoolIds`; a new one gets `NextPool`, any that is
not in use, since nothing depends on which. `poolOf` stands for the three
dictionaries, `older` for the order of the `OrderedDict`. Eviction is `CheckLen`,
`PopOldest`, `CloseVictim`, `Unlist`, in the loop of `target_pool`. `KeyError`s of
`move_to_end` and `popitem` end the request. `close()` returns or raises, and is taken
to have closed the pool either way: psycopg_pool marks a pool closed first and then
stops its workers.

*`Sidebar`.* `task[t]` is a suspended handler: a load that waits for `/api/me` or the
list of databases, a switch, a creation, a drop that waits for the user to confirm it or
for its answer. `fetches` are the `populate` calls that are out; `attached` says whether
their entry is still in the document. `session` is the server the cookie names, or
`None` as after a login; `Target` is the server a request then reaches. `MoveDefault`
and `DeleteServer` are colleagues on the Servers page; a colleague who edits the address
of a server does to this page what `ChangedElsewhere` does. `drifted` is a history
variable: such a change has given the session another server since the page last asked
for a list. The registry is never emptied: that would end requests with 503, and every
request may fail anyway. `dropDatabaseDialog` keeps the entry while its dialog is open,
so `DropDatabase` opens it and `ConfirmDrop` sends the request with the cookie of that
moment; the form of `newDatabaseDialog` keeps nothing that could change meanwhile, so
its opening and its request are one action. `CookieAfter` is the one definition for code
outside the repository: Starlette's `SessionMiddleware`. Versions of it differ in
whether an answer stores the session again when the handler did not change it; the run
assumes the harder case (`Rewrites = TRUE`), in which a late answer can bring an older
choice back. The headers of an answer (the cookie) and its body arrive together or not
at all, and the browser has the page open in one tab.

*`Grid`.* One table with a key column and other columns. A cell holds a text or NULL;
`InField` is what an `<input>` of `formModal` makes of the text assigned to it (line
breaks are gone, `app.js:131-136`), `Trimmed` the `trim()` with which the form is read,
and `Returned` both. `shown[p]` is what page `p` was drawn with; an edit compares its
form with that, and its request names the key shown. The key's own text is not trimmed
in the model (no key has white space around it). What other modules call `Init`, `Next`,
`Spec` and `TypeOK` has the prefix `Grid` here, so that `EditorsProofs` can extend this
module together with `ThemePage`.

*`ThemePage`.* `savedStyle` and `liveStyle` are the contents of the two elements.
`page` is how far the last `renderTheme` got; an earlier one that is still waiting
for its answers is not followed. A save carries the theme and whether the page that
sent it is still the one shown. A draft that is reset to the preset's own colour has
no override, as in `picker.oninput`.

*`Ddl`, `Structure`.* A table is its columns (each with `type`, `nullable` and
`default`), the names of its foreign keys, of its primary keys and unique constraints
(`keys`, which own an index), and of its other indexes. A request and a statement are
records of one form, which `Formed` describes; `Stmts` is what a route executes, for
`alter_column` one statement per requested change and the renaming last. `NoTable`,
`NoObject`, `Exists` and `Barred` are the errors of Postgres in the order in which it
looks, `Fault` their status (`_run`, `routes/tables.py:53-73`). A thread in `Structure`
passes `active_server`, waits for a connection of the pool, and then runs its statements
in a transaction: `Lock` takes the next lock (`held`; the statement's own table first)
and copies the table as committed by then (`work`), `Execute` changes the copy, `Commit`
installs it. Names about to be taken are locked too, as the unique indexes of the
catalog do. `Rejected` is every error that depends on data. A pool lends a connection it
has before it opens another; one that was killed is found out by the statement that uses
it. Table and lock rules are Postgres's, taken from what the routes rely on; all locks
are exclusive, which makes more requests wait than in Postgres (two `CREATE INDEX` on
one table share it). `conn` says "elsewhere" after `SET search_path` in the console.

*`Page`.* `call[k]` is a suspended handler with the session cookie its request carried,
the view it renders and the servers that answered. `Render` is the start of a view: all
but the overview clear the panel, set the heading and then wait (`databases.js:8` waits
first). A table renders into an element of its own, which is no longer `attached` once
another view has cleared the panel; users, servers and console append to whatever is
there. `Acted` is what follows the answer to a dialog or a button. `chosen` and `seen`
are history variables: what the user turned to last, and which kinds of impatience or
failure there have been (`rushed` also when the registry has given a waiting overview
another server). `cookie` is the server the session names, `NoServer` (as after a
login), or `None` without a session; `Target` and `Source` are where a request goes.
`MoveDefault` and `DeleteServer` are colleagues: they change where the requests that are
out arrive. `init` waits for `showApp` inside its `try` (`app.js:403-407`), so a load of
kind `start` that fails shows the login screen, with the session still there; the load
after a login (kind `load`) leaves the application. `Pages` stands for both the Users
and the Servers page, whose code has the same steps.

## 3. The runs

Every passing run checks deadlock too; none of the systems stops.

| Run | Instance | Checks |
|---|---|---|
| `admins` | 3 user ids, 2 threads | types; `InitAuthLeavesAnAdmin`; `ImplementsAdminSet`; `InitAuthMakesAnAdmin` |
| `admins_last_admin` | the same | finds `LastAdminNeverDemoted` violated |
| `pools` | 2 threads, 3 targets, the common and a server pool, cap 2, 5 pool identities | types; `CachedPoolsAreOpen`; `OpenPoolsAreListed`; `NoDeadPoolListed`; `ShutdownClosesEverything`; `CacheBounded`; `OnlyCachedPoolsStayOpen`; `ImplementsLruCache`; `OverflowDrains` |
| `accounts` | 3 threads, 1 account, 2 passwords, `MaxFailed` 2 | types; `GuessesBounded`; `OnlyResetsGoUnrecorded`; `ImplementsLockout` |
| `accounts_reset_event` | 1 thread, 1 account, 2 passwords | finds `EveryEventRecorded` violated |
| `registry` | 2 threads, 3 labels, 4 ids | types; `DefaultsBounded`; `FallbackFindsDefault` |
| `registry_two_defaults` | the same | finds `OneDefault` violated |
| `registry_refused` | 1 thread, 2 labels, 3 ids | finds `RefusalKeepsDefaults` violated |
| `sidebar` | 2 servers, 1 database name, 2 handlers, 2 callbacks or answers out at once | types; `TreeShowsActiveServer`; `ExpandedIffInSet`; `DropHitsShownServer` |
| `editors` | `Grid`: 2 users, 2 keys, 1 column, texts `""`, `"ab"` and one with a space and a line break; `ThemePage`: 2 presets, 1 variable, 2 colours, 1 save out at a time | types of both; `PickersShowPainted`; `SavedStyleIsStored`; `EditKeepsOtherColumns` |
| `structure` | 2 threads and 2 requests, 2 connections of which one is lent at first, 2 tables, 2 columns, 1 name | types; `ImplementsAtomicDdl`; `AnswersTell`; `EveryRequestAnswered` |
| `page` | 2 handlers at once, 2 servers, 1 database, 1 page | types; `DataUnderItsHeading`; `PanelFollowsClick`; `OneServerPerPart`; `OneScreen`; `LoginOnlySignedOut` |

What they show:

* **Admins.** The check of `set_admin` protects the last admin against everything
  but a second demotion inside its own window: not stale reads of the target,
  concurrent promotions, nor an `init-auth` that crashes and is run again. Two
  demotions that overlap leave nobody (`admins_last_admin`), although the docstring
  promises a 400. `InitAuthMakesAnAdmin` needs fairness: a command that has started
  goes on (`WF` of its next step); nobody has to send requests.
* **Pools.** The registries stay consistent without a lock, mostly because a pool
  belongs to one key, one creating or one evicting thread at any time. What two
  threads that miss the same key do cost is a pool open and unused until shutdown:
  `OnlyCachedPoolsStayOpen` holds until two requests overlap and not after. With
  three keys for two slots two threads overfill the cache and evict at once, and the
  order of use matters. That the dictionary is empty when `popitem` comes takes three
  threads and one slot; that branch is in the model and in the proofs, not in the run.
  `OverflowDrains` assumes that a thread that serves a request keeps running.
  Served one at a time, the requests use an LRU cache: `ImplementsLruCache` relates
  the dictionary and the relation `older` to the sequence of `LruCache`.
* **Accounts.** With n threads an account counts at most `MaxFailed - 1 + n` failures
  before it is cleared or its lock runs out: every thread can have passed the check of
  the lock before the first one sets it. Served one at a time, the code is a `Lockout`.
  Every event is written when its request ends except that of a password reset by a
  colleague (`routes/users.py:69`): `OnlyResetsGoUnrecorded` names the exception. The
  README of the program (`src/README.md:25-27`) does not make it: "every ... password
  change is recorded". `accounts_reset_event` shows the reset that is not.
* **Registry.** "Only one row may have `is_default = true`"
  (`docs/2026-05-22-multi-server-support-design.md:38`) is not true of two requests that
  both clear before either writes (`registry_two_defaults`); the number of defaults is
  at most the number of threads, and a lookup misses the default only in another
  request's clear-then-write window. A request that is refused for its label leaves no
  default at all (`registry_refused`).
* **Sidebar.** For a user who waits for answers before the next click (`hurried` is
  FALSE) the tree, the server his next request goes to and a confirmed drop agree, whatever
  fails, until a colleague moves the default his session follows or deletes the server
  it names. Then the tree is that of the old server, and a drop may hit the new one,
  until the next load (`drifted`); nothing in the page can notice. For a user who
  does not wait they may disagree: two loads append the same databases twice, and a
  switch that is still out redirects a drop. `ExpandedIffInSet` holds even then, as
  long as the tree has one entry of the name.
* **Grid.** An edit sends only what changed, so it keeps the columns of others and
  NULLs. The exception in `EditKeepsOtherColumns` is real: a text with line breaks or
  with white space around it does not come back from the form as it was, differs from
  what was shown and is sent, changed, although nobody touched it.
* **Theme.** Preview, pickers, saved style and database agree for a user who waits
  for the saves and is not overtaken by another admin. Opening another view does not
  remove the preview: no code does it, although the design says that navigating away
  does (`docs/2026-05-22-theme-admin-design.md:151-152`).
* **Structure.** Each request is one atomic step of `AtomicDdl` at its commit (which
  takes a change of a column as one change and not as a list of statements), whatever it
  waits for and wherever it fails: what the transaction does not commit is rolled back
  when the connection returns to the pool. A 404 or 409 is about what is, or is not,
  there when the answer is given. The one exception is in `AnswersTell`: `DROP INDEX` is
  the only statement built without a schema (`sqlbuild.py:166`), and over a connection
  on which the console has run `SET search_path` it does not find an index that exists.
  Also seen: the acquire timeout of the common pool ends in 500, since `active_server`
  takes its connection outside the mapping of `server_db` and `target_db`
  (`deps.py:15`), while `docs/2026-05-22-lazy-load-and-pool-design.md:68-70` promises
  503 for every pool. And, not contradicted by any document: a connection that was
  killed shows as 400 from a DDL statement or the console and as 503 from a read; of two
  concurrent creations of one name the one that waited may be answered 400 (`Rejected`),
  not 409; a table that is dropped while its structure is read gives 503.
* **Page.** A table and an overview always stand under their own heading. The other
  views append to the panel, so a user who opens a second one before the first has
  answered can see both below the second heading; `DataUnderItsHeading` and
  `PanelFollowsClick` say for whom that does not happen. An overview clears the panel
  only when its data are there and may then replace a view that was opened after it
  (`late`). Its two answers come from two servers only if the session changes while
  requests are out, or a colleague moves the default it follows, or deletes its server,
  while the overview waits (`rushed`). The application never shares the screen, but
  login and change-password can be visible together after a late 401 (`api.js:12` hides
  the application only); a logout leaves the panel as it was behind the login screen. A
  user whose page fails to load its sidebar at the start sees the login screen with a
  session (`aborted`), until a login ends that.

The bounds. Three threads are the fewest with which two can disturb a third between two
of its statements (accounts); for admins, the registry and the pools two suffice for
each pair of windows, and the proofs cover every number. `MaxId` and `PoolIds` bound
counters that grow without end in the code: the guards `IdsLeft` and `PoolsLeft` stop
new requests, never one that is under way. `MaxInFlight` and `MaxSaves` bound what the
user may do before answers come. With `MaxInFlight` 2 a second handler runs into every
step of a first one. `MaxSaves` is 1: a second save while one is out is haste, of which
the two properties of the theme say nothing, and their theorems hold for every bound.
`Grid` and `ThemePage` share no state, so in a behaviour of `editors` one moves and the
other rests, from an initial state with one fixed value of what rests. `Bumped` cuts the
counter at `MaxFailed`. `Calls` bounds the handlers that wait at once on the page; two
are needed for any answer to overtake another. `MaxRequests` bounds the requests of a
`structure` behaviour: two can cross in every pair of operations, and `Lent` makes the
pool run out for them (one connection) until the other route returns its own (two).
`Start` has both tables, once with an index; `OneMenu` has every operation, the changes
of a column in full, in part and empty. Symmetry is used in runs without liveness only,
over sets whose members the definitions do not tell apart.

The fairness. `Admins` and `Pools` have weak fairness of the next statement of a thread
that has begun one: the operating system runs it. `FairSpec` of `Structure` has weak
fairness of `Step(c)`, which holds only what happens without a user: a thread goes on,
Postgres grants a lock that is free and ends one of the transactions that wait for each
other (after `deadlock_timeout`), and the pool gives up after its timeout. `Send` and
`Rejected` are not fair. A request that waits for a lock depends on the holder's steps
only, so weak fairness is enough with two clients.

## 4. The proofs

Every safety and action property of the passing runs, and all four refinements, are
theorems of the specifications for every value of the constants. Assumed of the
constants are only the named assumptions of the modules: finite sets where cardinalities
are compared, `None`, `Null` and `NoRow` not a member of the sets beside them, a
positive `Cap` and `MaxFailed`, user ids that are finitely many positive numbers, texts
that a form returns as texts and an empty one as empty, a menu and a start of
well-formed requests and tables, and table names that are no names of indexes
(`StructureAssumption`; Postgres keeps both in one catalog).

* `AdminsProofs`: `TypeCorrect`, `InitAuthCorrect`, `AdminSetImplemented`. That a
  completed command has left an admin is not inductive: a request that already has
  passed `require_admin` and a demotion that already has counted must be covered.
  `Protected` says that while no demotions overlapped, each of them finds an admin it
  does not remove; `Seeded` that the command past its first write finds a user. Their
  conjunction `IInv` is inductive, and the refinement step needs nothing else.
* `PoolsProofs`: `TypeCorrect`, `NoClosedPoolCached`, `NoPoolLost`, `NoDeadPoolKept`,
  `ShutdownComplete`, `CacheBoundHolds`, `NoPoolOrphaned`, `ImplementsLruCacheAlways`.
  The strengthening is `Ownership`: every pool is held by at most
  one key, one thread that is creating it, or one that is evicting it. Without it
  a victim's close could close a pool another key holds. For the bound, the
  thread that inserts joins the set of threads that check, and a thread leaves that
  set only after it has seen the cache within its cap or has taken a key out.
  `Alone` (until two requests overlap one thread is at work, and it holds whatever open
  pool is in no registry) gives `NoPoolOrphaned`. For the refinement of `LruCache`,
  `Ordered` says that the relation `older` is always the order of some list of the
  cached keys, in every interleaving; `SortedIsInOrder` that this list is the sequence
  the mapping builds by counting; `SortedMoved`, `SortedAdded` and `SortedTail` what
  `move_to_end`, a new key and `popitem` make of it; `Due` that a lone request evicts
  only from a cache over its cap.
* `AccountsProofs`: `TypeCorrect`, `GuessesBoundedAlways`,
  `OnlyResetsGoUnrecordedAlways`, `ImplementsLockoutAlways`. `Bounded(u)` counts the
  threads that are about to count a failure and those that are about to set the lock;
  while the account is not locked only the latter may exceed `MaxFailed - 1`.
  `OwesReset` says that only a reset hands an event to a statement that will not write
  it. `Alone` says that until two requests overlap one thread is at work, and that it
  counts, locks or clears an account only while that is not locked; with it each step is
  one of `Lockout` or changes nothing the promise speaks of.
* `RegistryProofs`: `TypeCorrect`, `DefaultsBoundedAlways` (by `Slots`: defaults and
  threads between clear and write are together no more than the threads) and
  `DefaultFound` (by `Kept`: outside such windows the promised default is flagged).
* `SidebarProofs`: `TypeCorrect`, `TreeShowsActiveServerAlways`,
  `DropHitsShownServerAlways`, `ExpandedIffInSetAlways`. The type invariant also says
  what a suspended handler knows (the cookie it was sent with, the server and the
  database it acts on). `Patient`: a user who waits has one handler out, or table lists,
  and all that is out or shown is of the server the session has. `ExpandedIffInSet`
  is inductive beside the types.
* `EditorsProofs`: `TypeCorrect`, `PickersShowPaintedAlways`, `SavedStyleIsStoredAlways`
  for `ThemePage`, from `Settled` on the one save that may be out: it carries what
  the page shows, and until it is served the page's theme and the saved style are
  those of the database. `GridTypeCorrect` and `EditKeepsOtherColumnsAlways` for `Grid`,
  from `EditsAreOfShownRows`: an edit in flight names a row its page still shows, and
  holds no column its user left alone that reads as it was shown.
* `StructureProofs`: `TypeCorrect`, `AnswersTellAlways`, `ImplementsAtomicDdlAlways`.
  The type invariant has the exclusion of locks and of connections, which make `Commit`
  install what its transaction has copied. Atomicity itself rests on `Progress`: at any
  moment the view of a running transaction is what its statements so far make of what is
  committed *at that moment*, although others have committed since it began. It
  is inductive because a statement reads and changes only names it has locked
  (`EffectsOff`, `WholeAgrees`, `FaultAgrees`), and because nobody gets a name
  that is taken, or is being taken (`OwnersOf`). For the changes of a column, `Rest`
  and `Part` name what is left of the statements after a set of attributes, and what they
  have made of the column (`RestNext`, `PartSet`, `PartLast`). After the last statement
  the view is one of `Whole`, so the commit is a step of the promise; a refusal,
  a deadlock, a lost connection is a failure that changes nothing. `AnswersTell` follows
  from the same invariant: what a refused statement has seen is committed.
* `PageProofs`: all six properties of the page. `AnswerShape` reduces the answers to the
  six ways in which they treat panel and handlers (`Settles`, `RendersAgain`, ...) and
  `AnswerSession` to what they do to session and screens. `Headed` says that a view that
  still has its element has set the heading; with `Alone` (a user who waits has one
  handler out) it gives `DataUnderItsHeading`. `OneCookie` says that until the session
  changes out of turn every request carries the browser's, which gives
  `OneServerPerPart` and `LoginOnlySignedOut`. `PanelFollowsClick` speaks of quiet states
  only; `Turned` and `Filled` say what leads there while handlers are out. `Room` bounds
  the parts: a view that waits has a free place, because it has cleared the panel.

Only model-checked: the liveness properties `InitAuthMakesAnAdmin`, `OverflowDrains` and
`EveryRequestAnswered`, because fairness and ENABLED are out of the prover's reach; and
that the properties of the runs `admins_last_admin`, `accounts_reset_event`,
`registry_two_defaults` and `registry_refused` are violated. No module declares a
RECURSIVE operator, and no proof uses induction over data: `LruCache` and `AtomicDdl`
state what becomes of a sequence or a schema as a function, and the lists that occur
have a bounded length or are given by an invariant.

## 5. Not modelled

* Inside psycopg_pool: its worker threads, `min_size`, reconnection with back-off.
  Inside Postgres: shared locks of DDL, what a constraint or an index says of the
  columns and the data, permissions, sequences beyond "fresh and larger". Transactions
  of DDL are at READ COMMITTED, Postgres's default, which the code does not change.
* An index in another schema than the tables: after `SET search_path` in the console a
  `DROP INDEX` could also find an index of the same name there, drop that one and answer
  200. The model has the tables' schema only, in which the index is not found.
* Several server processes. The database modules hold for them (a thread is a thread);
  the dictionaries of `Pools` and `close_all` belong to one process.
* Paging and filtering of the grid, tables without a primary key, keys of several
  columns: the grid with a page of its own per user multiplies the states beyond what
  a run can visit, and no document says more of a page than that it has an offset.
* What console statements other than `SET` do; a statement of the console is one of
  the user's own.
* The column pickers of the constraint dialog, where the columns of two referenced
  tables can arrive out of order (`tables.js:201`), and the reads of
  `renderServerPicker`: they fill one element that the next choice fills again.
* `user_id` of the session, whose deactivated owner keeps it; `last_login_at`, the IP
  address and the user agent of an event.
* bcrypt, Fernet, the environment, identifiers and quoting of `sqlbuild.py`, layout:
  pure functions without a state that others could disturb.

## 6. Plan

Done, in this order: `Admins`, `Pools`, `Accounts`, `Registry`, `Sidebar`, `Grid`,
`ThemePage`, `Structure` (with `Ddl` and `AtomicDdl`), `Page`, and the proofs of every
safety and action property the passing runs check.

Next, to prove:

1. What the promises themselves give: `LruCache` never holds more than `Cap` keys or one
   key twice, `AdminSet` never loses its last admin.
2. What two overlapping requests can at most do to those promises, where no bound is
   stated yet: how many pools a burst of misses of one key leaves open.

Left to model are the points of section 5 that concern the page: the pager, and the
pickers of the constraint dialog.
