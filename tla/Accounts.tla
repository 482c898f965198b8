------------------------------ MODULE Accounts ------------------------------
(***************************************************************************)
(* Logins, lockout, password changes and the management of accounts, as    *)
(* request threads run them: one autocommit SQL statement after another,   *)
(* with other threads in between (auth.py, authdb.py, routes/session.py,   *)
(* routes/users.py).                                                       *)
(***************************************************************************)
EXTENDS Integers, FiniteSets

CONSTANTS Users,       \* the accounts, never deleted
          Workers,     \* request threads
          Passwords,
          MaxFailed,   \* MAX_FAILED_ATTEMPTS
          None

ASSUME AccountsAssumption ==
    /\ IsFiniteSet(Workers)
    /\ MaxFailed \in Nat \ {0}
    /\ None \notin Users /\ None \notin Passwords

VARIABLES hash,        \* the password whose hash is stored
          must,        \* must_change_password
          active,      \* is_active
          failed,      \* failed_attempts; counted up to MaxFailed
          locked,      \* locked_until lies in the future
          req,         \* what each request thread is doing
          tries,       \* history: failures counted since the account was
                       \* last cleared or its lock ran out
          unrecorded,  \* history: events of requests that ended without
                       \* their row in user_sessions
          overlapped   \* history: two requests were served at once
vars == <<hash, must, active, failed, locked, req, tries, unrecorded, overlapped>>

Steps == {"idle", "log", "count", "lock", "clear", "change", "reset", "manage"}
\* What the log should have a row for.  "password_reset" is a password set by a
\* colleague, for which the code has no event.
Events == {"login_success", "login_failed", "logout", "account_locked",
           "password_changed", "password_change_failed", "password_reset"}
Body == [active : {"keep", "on", "off"}, unlock : BOOLEAN]
NoBody == [active |-> "keep", unlock |-> FALSE]

\* A request: the statement it comes to next, its account, the password it
\* checked, the one it will store, the flags it will set and the events it
\* has caused and not written to the log.
Request(pc, u) ==
    [pc |-> pc, user |-> u, seen |-> None, new |-> None, body |-> NoBody, owes |-> {}]
Idle == Request("idle", None)
RequestType ==
    [pc : Steps, user : Users \cup {None}, seen : Passwords \cup {None},
     new : Passwords \cup {None}, body : Body, owes : SUBSET Events]

Init ==
    /\ hash \in [Users -> Passwords]
    /\ must = [u \in Users |-> TRUE]
    /\ active = [u \in Users |-> TRUE]
    /\ failed = [u \in Users |-> 0]
    /\ locked = [u \in Users |-> FALSE]
    /\ req = [w \in Workers |-> Idle]
    /\ tries = [u \in Users |-> 0]
    /\ unrecorded = {}
    /\ overlapped = FALSE

Proceed(w, r) == req' = [req EXCEPT ![w] = r]

\* The response; what the request still owes to the log is never written.
Reply(w, owed) ==
    /\ req' = [req EXCEPT ![w] = Idle]
    /\ unrecorded' = unrecorded \cup owed

\* Reset of the counter, the lock and the history that goes with them.
Cleared(u) ==
    /\ failed' = [failed EXCEPT ![u] = 0]
    /\ locked' = [locked EXCEPT ![u] = FALSE]
    /\ tries' = [tries EXCEPT ![u] = 0]

Row == <<hash, must, active, failed, locked, tries>>

-----------------------------------------------------------------------------
(* POST /api/login *)

IsLocked_never(u) == FALSE
IsLocked(u) == locked[u]

\* authenticate reads the row once and decides on what it read.
AfterRead_silent(u, pw) ==
    IF ~active[u] \/ IsLocked(u) THEN Request("log", u)
    ELSE IF pw # hash[u] THEN Request("count", u)
    ELSE Request("clear", u)
AfterRead(u, pw) ==
    IF ~active[u] \/ IsLocked(u) THEN [Request("log", u) EXCEPT !.owes = {"login_failed"}]
    ELSE IF pw # hash[u] THEN Request("count", u)
    ELSE Request("clear", u)

Login(w) ==
    /\ req[w].pc = "idle"
    /\ \/ \E u \in Users, pw \in Passwords : Proceed(w, AfterRead(u, pw))
       \/ Proceed(w, [Request("log", None) EXCEPT !.owes = {"login_failed"}])
    /\ UNCHANGED <<Row, unrecorded>>

\* note_failed_attempt: the counter goes up in one statement and, at the
\* maximum, the lock is set in the next.
Reached_over(n) == n > MaxFailed
Reached(n) == n >= MaxFailed
Bumped(n) == IF n < MaxFailed THEN n + 1 ELSE n

CountFailure(w) ==
    LET u == req[w].user IN
    /\ req[w].pc = "count"
    /\ failed' = [failed EXCEPT ![u] = Bumped(@)]
    /\ tries' = [tries EXCEPT ![u] = @ + 1]
    /\ Proceed(w, [Request(IF Reached(failed[u] + 1) THEN "lock" ELSE "log", u)
                     EXCEPT !.owes = {"login_failed"}])
    /\ UNCHANGED <<hash, must, active, locked, unrecorded>>

SetLock(w) ==
    /\ req[w].pc = "lock"
    /\ locked' = [locked EXCEPT ![req[w].user] = TRUE]
    /\ Proceed(w, [req[w] EXCEPT !.pc = "log", !.owes = @ \cup {"account_locked"}])
    /\ UNCHANGED <<hash, must, active, failed, tries, unrecorded>>

\* note_successful_login
NoteSuccess(w) ==
    /\ req[w].pc = "clear"
    /\ Cleared(req[w].user)
    /\ Proceed(w, [Request("log", req[w].user) EXCEPT !.owes = {"login_success"}])
    /\ UNCHANGED <<hash, must, active, unrecorded>>

\* record_event, once for every event; account_locked comes last.
RecordEvent(w) ==
    /\ req[w].pc = "log"
    /\ \E e \in req[w].owes :
          /\ e = "account_locked" => req[w].owes = {e}
          /\ IF req[w].owes = {e} THEN Reply(w, {})
             ELSE /\ Proceed(w, [req[w] EXCEPT !.owes = @ \ {e}])
                  /\ UNCHANGED unrecorded
    /\ UNCHANGED Row

(* POST /api/logout *)
Logout(w) ==
    /\ req[w].pc = "idle"
    /\ \E u \in Users : Proceed(w, [Request("log", u) EXCEPT !.owes = {"logout"}])
    /\ UNCHANGED <<Row, unrecorded>>

(* POST /api/change-password, in the session of u *)
Verifies(u, pw) == hash[u] = pw

ChangePassword(w) ==
    /\ req[w].pc = "idle"
    /\ \E u \in Users, current, new \in Passwords :
          /\ new # current
          /\ Proceed(w, IF Verifies(u, current)
                        THEN [Request("change", u) EXCEPT !.seen = current, !.new = new]
                        ELSE [Request("log", u) EXCEPT !.owes = {"password_change_failed"}])
    /\ UNCHANGED <<Row, unrecorded>>

StorePassword(w, temporary) ==
    LET u == req[w].user IN
    /\ hash' = [hash EXCEPT ![u] = req[w].new]
    /\ must' = [must EXCEPT ![u] = temporary]
    /\ Cleared(u)
    /\ UNCHANGED active

SetPassword_silent(w) ==
    /\ req[w].pc = "change"
    /\ StorePassword(w, FALSE)
    /\ Reply(w, {"password_changed"})
SetPassword(w) ==
    /\ req[w].pc = "change"
    /\ StorePassword(w, FALSE)
    /\ Proceed(w, [Request("log", req[w].user) EXCEPT !.owes = {"password_changed"}])
    /\ UNCHANGED unrecorded

(* PATCH /api/users/{id} *)
ManageUser(w) ==
    /\ req[w].pc = "idle"
    /\ \E u \in Users, new \in Passwords \cup {None}, body \in Body :
          /\ new # None \/ body # NoBody
          /\ Proceed(w, [Request(IF new # None THEN "reset" ELSE "manage", u)
                           EXCEPT !.new = new, !.body = body])
    /\ UNCHANGED <<Row, unrecorded>>

\* The change is owed to the log, but no later statement writes it.
ResetPassword(w) ==
    LET r == req[w] IN
    /\ r.pc = "reset"
    /\ StorePassword(w, TRUE)
    /\ IF r.body = NoBody THEN Reply(w, {"password_reset"})
       ELSE /\ Proceed(w, [r EXCEPT !.pc = "manage", !.owes = {"password_reset"}])
            /\ UNCHANGED unrecorded

UpdateUser(w) ==
    LET r == req[w] IN
    /\ r.pc = "manage"
    /\ active' = [active EXCEPT ![r.user] = CASE r.body.active = "keep" -> @
                                              [] r.body.active = "on" -> TRUE
                                              [] r.body.active = "off" -> FALSE]
    /\ IF r.body.unlock THEN Cleared(r.user) ELSE UNCHANGED <<failed, locked, tries>>
    /\ Reply(w, r.owes)
    /\ UNCHANGED <<hash, must>>

\* LOCKOUT_MINUTES have passed; the counter stays.
Expire(u) ==
    /\ locked[u]
    /\ locked' = [locked EXCEPT ![u] = FALSE]
    /\ tries' = [tries EXCEPT ![u] = 0]
    /\ UNCHANGED <<hash, must, active, failed, req, unrecorded>>

Step(w) ==
    \/ Login(w) \/ CountFailure(w) \/ SetLock(w) \/ NoteSuccess(w) \/ RecordEvent(w)
    \/ Logout(w) \/ ChangePassword(w) \/ SetPassword(w)
    \/ ManageUser(w) \/ ResetPassword(w) \/ UpdateUser(w)

\* Keeps the history.
Noted == overlapped' = (overlapped \/ \E v, w \in Workers :
                           v # w /\ req'[v].pc # "idle" /\ req'[w].pc # "idle")

Next ==
    \/ \E w \in Workers : Step(w) /\ Noted
    \/ \E u \in Users : Expire(u) /\ UNCHANGED overlapped

Spec == Init /\ [][Next]_vars

-----------------------------------------------------------------------------
TypeOK ==
    /\ hash \in [Users -> Passwords]
    /\ must \in [Users -> BOOLEAN]
    /\ active \in [Users -> BOOLEAN]
    /\ failed \in [Users -> 0 .. MaxFailed]
    /\ locked \in [Users -> BOOLEAN]
    /\ req \in [Workers -> RequestType]
    /\ \A w \in Workers :
          /\ req[w].pc \notin {"idle", "log"} => req[w].user \in Users
          /\ req[w].pc \in {"change", "reset"} => req[w].new \in Passwords
          /\ req[w].pc = "log" => req[w].owes # {}
    /\ tries \in [Users -> Nat]
    /\ unrecorded \subseteq Events

(* The lockout bounds guessing however many threads serve the guesses: an  *)
(* account counts at most MaxFailed - 1 failures plus one for each thread  *)
(* before it is cleared or its lock runs out.  The check of the lock, the  *)
(* counter and the lock are three statements that all interleave.          *)
GuessesBounded ==
    \A u \in Users : tries[u] <= MaxFailed - 1 + Cardinality(Workers)

(* README: "every login, logout, failed attempt, lockout, and password     *)
(* change is recorded".  Whatever a request causes it has written when it  *)
(* ends, the owner's own change of a password and the lock behind a failed *)
(* attempt too; the passwords a colleague sets are the only exception.     *)
OnlyResetsGoUnrecorded == unrecorded \subseteq {"password_reset"}

(* The sentence as it stands: no request ends without the row of each of   *)
(* its events.  It is not so for a colleague's reset.                      *)
EveryEventRecorded == unrecorded = {}

(* As long as requests are served one at a time, counter and lock are a    *)
(* Lockout: MaxFailed consecutive failures, and nothing less, lock an      *)
(* account, and no login is accepted while it is locked.                   *)
LockedOrDue(u) == locked[u] \/ \E w \in Workers : req[w].pc = "lock" /\ req[w].user = u
L == INSTANCE Lockout
        WITH locked <- [u \in Users |-> LockedOrDue(u)],
             letIn <- {req[w].user : w \in {v \in Workers : req[v].pc = "clear"}}
ImplementsLockout == L!Init /\ [][~overlapped' => L!Next]_L!vars
=============================================================================
