------------------------------- MODULE Admins -------------------------------
(***************************************************************************)
(* The admin flags of the users table: PATCH /api/users/{id}/admin served  *)
(* by a pool of request threads, and the init-auth command that guarantees *)
(* a first admin.  Every SQL statement runs on an autocommit connection,   *)
(* so each is an action of its own and other requests, or the command,     *)
(* run in between.                                                         *)
(***************************************************************************)
EXTENDS Integers, FiniteSets

CONSTANTS Users,    \* the ids the users table can ever hold
          Workers   \* request threads that may serve PATCH .../admin at once

ASSUME UsersAssumption == Users \subseteq Nat \ {0} /\ IsFiniteSet(Users)

VARIABLES rows,        \* ids of the rows of users (rows are never deleted)
          admins,      \* the rows whose is_admin is true
          req,         \* what each request thread is doing
          cli,         \* the init-auth process
          overlapped   \* history: a demotion took effect while another one,
                       \* of another user, was between its check and its write
vars == <<rows, admins, req, cli, overlapped>>

Steps == {"idle", "target", "count", "write"}
CliSteps == {"idle", "lookup", "create", "count", "pick", "flag", "done", "failed"}
CliRunning == {"lookup", "create", "count", "pick", "flag"}
NoUser == 0
Ids == Users \cup {NoUser}

Idle == [pc |-> "idle", target |-> NoUser, flag |-> FALSE]

\* create_user: the serial id is fresh and larger than every earlier one.
NewUser(u) == u \notin rows /\ \A v \in rows : v < u

\* The row "SELECT id FROM users ORDER BY id LIMIT 1" returns.
IsLowest(u) == u \in rows /\ \A v \in rows : u <= v

\* w has read its target and will switch the flag off.
Demoting(w) == req[w].pc \in {"count", "write"} /\ ~req[w].flag

Init ==
    /\ rows = {}
    /\ admins = {}
    /\ req = [w \in Workers |-> Idle]
    /\ cli = [pc |-> "idle", id |-> NoUser]
    /\ overlapped = FALSE

-----------------------------------------------------------------------------
(* POST /api/users, open to every session. *)
CreateUser ==
    /\ rows # {}
    /\ \E u \in Users : NewUser(u) /\ rows' = rows \cup {u}
    /\ UNCHANGED <<admins, req, cli, overlapped>>

(* PATCH /api/users/{target}/admin. *)

\* require_admin lets the request of an admin in; any other gets a 403 and
\* changes nothing.
RequireAdmin(w) ==
    /\ req[w].pc = "idle"
    /\ admins # {}
    /\ \E target \in Users, flag \in BOOLEAN :
          req' = [req EXCEPT ![w] = [pc |-> "target", target |-> target, flag |-> flag]]
    /\ UNCHANGED <<rows, admins, cli, overlapped>>

\* Which step follows the read of the target row: a 404, the count that a
\* demotion of an admin needs, or the write.
AfterTarget(r) ==
    IF r.target \notin rows THEN "idle"
    ELSE IF ~r.flag /\ r.target \in admins THEN "count" ELSE "write"

Reply(w) == [req EXCEPT ![w] = Idle]
Continue(w, pc) == IF pc = "idle" THEN Reply(w) ELSE [req EXCEPT ![w].pc = pc]

GetTarget(w) ==
    /\ req[w].pc = "target"
    /\ req' = Continue(w, AfterTarget(req[w]))
    /\ UNCHANGED <<rows, admins, cli, overlapped>>

\* "cannot demote the last admin"
TooFew_offbyone(n) == n < 1
TooFew(n) == n <= 1

CountAdmins(w) ==
    /\ req[w].pc = "count"
    /\ req' = Continue(w, IF TooFew(Cardinality(admins)) THEN "idle" ELSE "write")
    /\ UNCHANGED <<rows, admins, cli, overlapped>>

SetAdmin(w) ==
    LET r == req[w] IN
    /\ r.pc = "write"
    /\ admins' = IF r.flag THEN admins \cup {r.target} ELSE admins \ {r.target}
    /\ overlapped' = \/ overlapped
                     \/ /\ ~r.flag /\ r.target \in admins
                        /\ \E v \in Workers \ {w} : Demoting(v) /\ req[v].target # r.target
    /\ req' = Reply(w)
    /\ UNCHANGED <<rows, cli>>

-----------------------------------------------------------------------------
(* init-auth.  The step that seeds the server registry touches no variable *)
(* of this module.                                                         *)
InitAuthStart ==
    /\ cli.pc \in {"idle", "done", "failed"}
    /\ cli' = [pc |-> "lookup", id |-> NoUser]
    /\ UNCHANGED <<rows, admins, req, overlapped>>

\* The e-mail given on the command line is known, or it is not.
InitAuthLookup ==
    /\ cli.pc = "lookup"
    /\ \/ rows # {} /\ cli' = [cli EXCEPT !.pc = "count"]
       \/ cli' = [cli EXCEPT !.pc = "create"]
    /\ UNCHANGED <<rows, admins, req, overlapped>>

\* The INSERT succeeds, or the e-mail was taken since the lookup and the
\* command dies of the unhandled UniqueViolation.
InitAuthCreate ==
    /\ cli.pc = "create"
    /\ \/ /\ \E u \in Users : NewUser(u) /\ rows' = rows \cup {u}
          /\ cli' = [cli EXCEPT !.pc = "count"]
       \/ /\ rows # {}
          /\ cli' = [cli EXCEPT !.pc = "failed"]
          /\ UNCHANGED rows
    /\ UNCHANGED <<admins, req, overlapped>>

NoAdmins_one(n) == n = 1
NoAdmins(n) == n = 0

InitAuthCount ==
    /\ cli.pc = "count"
    /\ cli' = [cli EXCEPT !.pc = IF NoAdmins(Cardinality(admins)) THEN "pick" ELSE "done"]
    /\ UNCHANGED <<rows, admins, req, overlapped>>

InitAuthPick_nobody ==
    /\ cli.pc = "pick"
    /\ cli' = [pc |-> "flag", id |-> NoUser]
    /\ UNCHANGED <<rows, admins, req, overlapped>>
InitAuthPick_skip ==
    /\ cli.pc = "pick"
    /\ cli' = [cli EXCEPT !.pc = "done"]
    /\ UNCHANGED <<rows, admins, req, overlapped>>
InitAuthPick ==
    /\ cli.pc = "pick"
    /\ IF rows = {} THEN cli' = [cli EXCEPT !.pc = "done"]
       ELSE \E u \in Users : IsLowest(u) /\ cli' = [pc |-> "flag", id |-> u]
    /\ UNCHANGED <<rows, admins, req, overlapped>>

InitAuthFlag ==
    /\ cli.pc = "flag"
    /\ admins' = admins \cup {cli.id}
    /\ cli' = [pc |-> "done", id |-> NoUser]
    /\ UNCHANGED <<rows, req, overlapped>>

\* The command is killed, or loses its connection, between two statements.
InitAuthCrash ==
    /\ cli.pc \in CliRunning
    /\ cli' = [pc |-> "failed", id |-> NoUser]
    /\ UNCHANGED <<rows, admins, req, overlapped>>

InitAuthStep ==
    InitAuthLookup \/ InitAuthCreate \/ InitAuthCount \/ InitAuthPick \/ InitAuthFlag

Request(w) == RequireAdmin(w) \/ GetTarget(w) \/ CountAdmins(w) \/ SetAdmin(w)

Next ==
    \/ CreateUser
    \/ \E w \in Workers : Request(w)
    \/ InitAuthStart \/ InitAuthStep \/ InitAuthCrash

Spec == Init /\ [][Next]_vars

\* A started command goes on to its next statement.  Nobody has to start it,
\* send requests or create users.
FairSpec == Spec /\ WF_vars(InitAuthStep)

-----------------------------------------------------------------------------
TypeOK ==
    /\ rows \subseteq Users
    /\ admins \subseteq rows
    /\ req \in [Workers -> [pc : Steps, target : Ids, flag : BOOLEAN]]
    /\ \A w \in Workers : req[w].pc \in {"count", "write"} => req[w].target \in rows
    /\ cli \in [pc : CliSteps, id : Ids]
    /\ cli.pc = "flag" => cli.id \in rows
    /\ overlapped \in BOOLEAN

(* A completed init-auth leaves an admin behind, however often it crashed  *)
(* before, and the requests that run beside and after it keep one.         *)
InitAuthLeavesAnAdmin ==
    cli.pc = "done" /\ ~overlapped => admins # {}

(* A started init-auth gets to a state with an admin unless it fails.      *)
InitAuthMakesAnAdmin ==
    cli.pc = "lookup" ~> (admins # {} \/ cli.pc = "failed")

(* The check in set_admin protects the last admin until a demotion takes   *)
(* effect inside the window of another one: every step before that is a    *)
(* step of AdminSet, which changes one flag at a time and whose demotions  *)
(* leave an admin.  Stale reads of the target, concurrent promotions and   *)
(* an init-auth that crashes cannot break it.                              *)
A == INSTANCE AdminSet
ImplementsAdminSet == A!Init /\ [][~overlapped => A!Next]_admins

(* The docstring of set_admin: "Demoting the last admin returns 400".      *)
LastAdminNeverDemoted == [][admins # {} => admins' # {}]_vars
=============================================================================
