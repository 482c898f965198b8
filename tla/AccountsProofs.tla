--------------------------- MODULE AccountsProofs ---------------------------
(***************************************************************************)
(* Proofs about Accounts for any number of threads, accounts and passwords *)
(* and every MaxFailed.                                                    *)
(***************************************************************************)
EXTENDS Accounts, TLAPS, FiniteSetTheorems

\* What TypeOK says of one request.
Fits(r) ==
    /\ r \in RequestType
    /\ r.pc \notin {"idle", "log"} => r.user \in Users
    /\ r.pc \in {"change", "reset"} => r.new \in Passwords
    /\ r.pc = "log" => r.owes # {}

LEMMA RequestShape ==
    ASSUME NEW pc \in Steps, NEW u \in Users \cup {None}
    PROVE  /\ Request(pc, u) \in RequestType
           /\ Request(pc, u).pc = pc
           /\ Request(pc, u).user = u
           /\ Request(pc, u).owes = {}
  BY DEF Request, RequestType, NoBody, Body

LEMMA LogFits ==
    ASSUME NEW u \in Users \cup {None}, NEW e \in Events
    PROVE  Fits([Request("log", u) EXCEPT !.owes = {e}])
  BY RequestShape DEF Fits, RequestType, Steps

LEMMA IdleFits == Fits(Idle)
  BY RequestShape DEF Fits, Idle, Steps

LEMMA InitTypeOK == Init => TypeOK
<1>. SUFFICES ASSUME Init PROVE TypeOK
  OBVIOUS
<1>1. \A w \in Workers : req[w] = Idle
  BY DEF Init
<1>2. req \in [Workers -> RequestType]
  BY IdleFits DEF Init, Fits
<1>3. \A w \in Workers : Fits(req[w])
  BY <1>1, IdleFits
<1>. QED
  BY <1>2, <1>3, AccountsAssumption DEF Init, TypeOK, Fits

\* A request that is replaced by one that fits.
LEMMA ProceedFits ==
    ASSUME TypeOK, NEW w \in Workers, NEW r, Fits(r), Proceed(w, r)
    PROVE  /\ req' \in [Workers -> RequestType]
           /\ \A v \in Workers : Fits(req'[v])
           /\ req'[w] = r
           /\ \A v \in Workers \ {w} : req'[v] = req[v]
  BY DEF TypeOK, Proceed, Fits

LEMMA ReplyFits ==
    ASSUME TypeOK, NEW w \in Workers, NEW owed \in SUBSET Events, Reply(w, owed)
    PROVE  /\ req' \in [Workers -> RequestType]
           /\ \A v \in Workers : Fits(req'[v])
           /\ unrecorded' \subseteq Events
  BY IdleFits DEF TypeOK, Reply, Fits

\* Every action keeps the types.
LEMMA NextTypeOK == TypeOK /\ [Next]_vars => TypeOK'
<1>. SUFFICES ASSUME TypeOK, [Next]_vars PROVE TypeOK'
  OBVIOUS
<1>. USE AccountsAssumption
<1>. DEFINE ReqOK == req' \in [Workers -> RequestType] /\ \A v \in Workers : Fits(req'[v])
<1>0. ASSUME ReqOK, UNCHANGED Row, unrecorded' \subseteq Events PROVE TypeOK'
  BY <1>0 DEF TypeOK, Fits, Row
<1>1. ASSUME NEW w \in Workers, Step(w) PROVE TypeOK'
  <2>0. req[w] \in RequestType /\ Fits(req[w])
    BY DEF TypeOK, Fits
  <2>1. CASE Login(w)
    <3>1. ASSUME NEW u \in Users, NEW pw \in Passwords PROVE Fits(AfterRead(u, pw))
      <4>1. Fits(Request("count", u)) /\ Fits(Request("clear", u))
        BY RequestShape DEF Fits, Steps
      <4>. QED
        BY <4>1, LogFits DEF AfterRead, Events
    <3>2. Fits([Request("log", None) EXCEPT !.owes = {"login_failed"}])
      BY LogFits DEF Events
    <3>3. ReqOK
      BY <2>1, <3>1, <3>2, ProceedFits DEF Login
    <3>. QED
      BY <2>1, <3>3, <1>0 DEF Login, TypeOK
  <2>2. CASE CountFailure(w)
    <3>. DEFINE u == req[w].user
                r == [Request(IF Reached(failed[u] + 1) THEN "lock" ELSE "log", u)
                        EXCEPT !.owes = {"login_failed"}]
    <3>1. u \in Users
      BY <2>2, <2>0 DEF CountFailure, Fits
    <3>2. Fits(r)
      BY <3>1, RequestShape DEF Fits, Steps, Events, RequestType
    <3>3. ReqOK
      BY <2>2, <3>2, ProceedFits DEF CountFailure
    <3>4. failed' \in [Users -> 0 .. MaxFailed] /\ tries' \in [Users -> Nat]
      BY <2>2, <3>1 DEF CountFailure, Bumped, TypeOK
    <3>. QED
      BY <2>2, <3>3, <3>4 DEF CountFailure, TypeOK, Fits
  <2>3. CASE SetLock(w)
    <3>1. Fits([req[w] EXCEPT !.pc = "log", !.owes = @ \cup {"account_locked"}])
      BY <2>0 DEF Fits, RequestType, Steps, Events
    <3>2. ReqOK
      BY <2>3, <3>1, ProceedFits DEF SetLock
    <3>. QED
      BY <2>3, <3>2 DEF SetLock, TypeOK, Fits
  <2>4. CASE NoteSuccess(w)
    <3>1. Fits([Request("log", req[w].user) EXCEPT !.owes = {"login_success"}])
      BY <2>0, LogFits DEF RequestType, Events
    <3>2. ReqOK
      BY <2>4, <3>1, ProceedFits DEF NoteSuccess
    <3>. QED
      BY <2>4, <3>2 DEF NoteSuccess, Cleared, TypeOK, Fits
  <2>5. CASE RecordEvent(w)
    <3>1. PICK e \in req[w].owes :
             IF req[w].owes = {e} THEN Reply(w, {})
             ELSE Proceed(w, [req[w] EXCEPT !.owes = @ \ {e}]) /\ UNCHANGED unrecorded
      BY <2>5 DEF RecordEvent
    <3>2. CASE req[w].owes = {e}
      BY <2>5, <3>1, <3>2, ReplyFits, <1>0 DEF RecordEvent
    <3>3. CASE req[w].owes # {e}
      <4>1. Fits([req[w] EXCEPT !.owes = @ \ {e}])
        BY <2>0, <3>3 DEF Fits, RequestType
      <4>2. ReqOK
        BY <3>1, <3>3, <4>1, ProceedFits
      <4>. QED
        BY <2>5, <3>1, <3>3, <4>2, <1>0 DEF RecordEvent, TypeOK
    <3>. QED
      BY <3>2, <3>3
  <2>6. CASE Logout(w)
    <3>1. ReqOK
      BY <2>6, LogFits, ProceedFits DEF Logout, Events
    <3>. QED
      BY <2>6, <3>1, <1>0 DEF Logout, TypeOK
  <2>7. CASE ChangePassword(w)
    <3>1. PICK u \in Users, current \in Passwords, new \in Passwords :
             Proceed(w, IF Verifies(u, current)
                        THEN [Request("change", u) EXCEPT !.seen = current, !.new = new]
                        ELSE [Request("log", u) EXCEPT !.owes = {"password_change_failed"}])
      BY <2>7 DEF ChangePassword
    <3>2. Fits([Request("change", u) EXCEPT !.seen = current, !.new = new])
      <4>. DEFINE r == Request("change", u)
      <4>1. r \in RequestType /\ r.pc = "change" /\ r.user = u
        BY RequestShape DEF Steps
      <4>. HIDE DEF r
      <4>2. [r EXCEPT !.seen = current, !.new = new] \in RequestType
        BY <4>1 DEF RequestType
      <4>3. /\ [r EXCEPT !.seen = current, !.new = new].pc = "change"
            /\ [r EXCEPT !.seen = current, !.new = new].user = u
            /\ [r EXCEPT !.seen = current, !.new = new].new = new
        BY <4>1 DEF RequestType
      <4>4. Fits([r EXCEPT !.seen = current, !.new = new])
        BY <4>2, <4>3 DEF Fits
      <4>. QED
        BY <4>4 DEF r
    <3>3. Fits([Request("log", u) EXCEPT !.owes = {"password_change_failed"}])
      BY LogFits DEF Events
    <3>4. CASE Verifies(u, current)
      BY <2>7, <3>1, <3>2, <3>4, ProceedFits, <1>0 DEF ChangePassword, TypeOK
    <3>5. CASE ~Verifies(u, current)
      BY <2>7, <3>1, <3>3, <3>5, ProceedFits, <1>0 DEF ChangePassword, TypeOK
    <3>. QED
      BY <3>4, <3>5 DEF ChangePassword, TypeOK
  <2>8. CASE SetPassword(w)
    <3>1. Fits([Request("log", req[w].user) EXCEPT !.owes = {"password_changed"}])
      BY <2>0, LogFits DEF RequestType, Events
    <3>2. ReqOK
      BY <2>8, <3>1, ProceedFits DEF SetPassword
    <3>3. req[w].user \in Users /\ req[w].new \in Passwords
      BY <2>0, <2>8 DEF SetPassword, Fits
    <3>. QED
      BY <2>8, <3>2, <3>3 DEF SetPassword, StorePassword, Cleared, TypeOK, Fits
  <2>9. CASE ManageUser(w)
    <3>1. PICK u \in Users, new \in Passwords \cup {None}, body \in Body :
             Proceed(w, [Request(IF new # None THEN "reset" ELSE "manage", u)
                           EXCEPT !.new = new, !.body = body])
      BY <2>9 DEF ManageUser
    <3>2. Fits([Request(IF new # None THEN "reset" ELSE "manage", u)
                  EXCEPT !.new = new, !.body = body])
      <4>. DEFINE r == Request(IF new # None THEN "reset" ELSE "manage", u)
      <4>1. /\ r \in RequestType /\ r.user = u
            /\ r.pc = IF new # None THEN "reset" ELSE "manage"
        <5>1. CASE new # None
          BY <5>1, RequestShape DEF Steps
        <5>2. CASE new = None
          BY <5>2, RequestShape DEF Steps
        <5>. QED
          BY <5>1, <5>2
      <4>. HIDE DEF r
      <4>2. [r EXCEPT !.new = new, !.body = body] \in RequestType
        BY <4>1 DEF RequestType
      <4>3. /\ [r EXCEPT !.new = new, !.body = body].pc = r.pc
            /\ [r EXCEPT !.new = new, !.body = body].user = u
            /\ [r EXCEPT !.new = new, !.body = body].new = new
        BY <4>1 DEF RequestType
      <4>4. Fits([r EXCEPT !.new = new, !.body = body])
        BY <4>1, <4>2, <4>3 DEF Fits
      <4>. QED
        BY <4>4 DEF r
    <3>3. ReqOK
      BY <3>1, <3>2, ProceedFits
    <3>. QED
      BY <2>9, <3>3, <1>0 DEF ManageUser, TypeOK
  <2>10. CASE ResetPassword(w)
    <3>1. req[w].user \in Users /\ req[w].new \in Passwords
      BY <2>0, <2>10 DEF ResetPassword, Fits
    <3>2. Fits([req[w] EXCEPT !.pc = "manage", !.owes = {"password_reset"}])
      BY <2>0, <3>1 DEF Fits, RequestType, Steps, Events
    <3>3. ReqOK /\ unrecorded' \subseteq Events
      BY <2>10, <3>2, ProceedFits, ReplyFits DEF ResetPassword, Events, TypeOK
    <3>. QED
      BY <2>10, <3>1, <3>3 DEF ResetPassword, StorePassword, Cleared, TypeOK, Fits
  <2>11. CASE UpdateUser(w)
    <3>1. req[w].user \in Users /\ req[w].owes \in SUBSET Events /\ req[w].body \in Body
      BY <2>0, <2>11 DEF UpdateUser, Fits, RequestType
    <3>2. ReqOK /\ unrecorded' \subseteq Events
      BY <2>11, <3>1, ReplyFits DEF UpdateUser
    <3>3. active' \in [Users -> BOOLEAN]
      BY <2>11, <3>1 DEF UpdateUser, TypeOK, Body
    <3>4. /\ failed' \in [Users -> 0 .. MaxFailed]
          /\ locked' \in [Users -> BOOLEAN]
          /\ tries' \in [Users -> Nat]
      <4>1. CASE req[w].body.unlock
        <5>1. Cleared(req[w].user)
          BY <2>11, <4>1 DEF UpdateUser
        <5>. QED
          BY <3>1, <5>1 DEF Cleared, TypeOK
      <4>2. CASE ~req[w].body.unlock
        BY <2>11, <4>2 DEF UpdateUser, TypeOK
      <4>. QED
        BY <4>1, <4>2
    <3>. QED
      BY <2>11, <3>2, <3>3, <3>4 DEF UpdateUser, TypeOK, Fits
  <2>. QED
    BY <1>1, <2>1, <2>2, <2>3, <2>4, <2>5, <2>6, <2>7, <2>8, <2>9, <2>10, <2>11 DEF Step
<1>2. ASSUME NEW u \in Users, Expire(u) PROVE TypeOK'
  BY <1>2 DEF Expire, TypeOK
<1>3. CASE UNCHANGED vars
  BY <1>3 DEF vars, TypeOK
<1>. QED
  BY <1>1, <1>2, <1>3 DEF Next

(* Rows, requests and histories always have their types: a request that    *)
(* writes a password has one, one that writes to the log has an event.     *)
THEOREM TypeCorrect == Spec => []TypeOK
  BY InitTypeOK, NextTypeOK, PTL DEF Spec

-----------------------------------------------------------------------------
\* The threads about to count a failure of u, and those that counted the
\* one that locks it and are about to set the lock.
Counting(u) == {w \in Workers : req[w].pc = "count" /\ req[w].user = u}
Locking(u) == {w \in Workers : req[w].pc = "lock" /\ req[w].user = u}

\* A failure beyond MaxFailed - 1 is either that of a thread still about to
\* lock the account, or the account is locked and nobody new gets to count.
Bounded(u) ==
    /\ tries[u] + Cardinality(Counting(u)) <= MaxFailed - 1 + Cardinality(Workers)
    /\ ~locked[u] => tries[u] <= MaxFailed - 1 + Cardinality(Locking(u))
    /\ tries[u] <= failed[u] \/ failed[u] = MaxFailed

IInv == TypeOK /\ \A u \in Users : Bounded(u)

LEMMA Counts ==
    ASSUME NEW u
    PROVE  /\ IsFiniteSet(Counting(u)) /\ Cardinality(Counting(u)) \in Nat
           /\ IsFiniteSet(Locking(u)) /\ Cardinality(Locking(u)) \in Nat
           /\ Cardinality(Workers) \in Nat
           /\ Cardinality(Counting(u)) + Cardinality(Locking(u)) <= Cardinality(Workers)
           /\ Cardinality(Counting(u)) <= Cardinality(Workers)
<1>. USE AccountsAssumption
<1>1. Counting(u) \subseteq Workers /\ Locking(u) \subseteq Workers
  BY DEF Counting, Locking
<1>2. Counting(u) \cap Locking(u) = {}
  BY DEF Counting, Locking
<1>3. IsFiniteSet(Counting(u)) /\ IsFiniteSet(Locking(u))
  BY <1>1, FS_Subset
<1>4. Cardinality(Counting(u) \cup Locking(u))
         = Cardinality(Counting(u)) + Cardinality(Locking(u)) - Cardinality({})
  BY <1>2, <1>3, FS_Union
<1>5. Cardinality({}) = 0
  BY FS_EmptySet
<1>6. Cardinality(Counting(u) \cup Locking(u)) <= Cardinality(Workers)
  BY <1>1, FS_Subset
<1>. QED
  BY <1>1, <1>3, <1>4, <1>5, <1>6, FS_CardinalityType, FS_Subset

\* The thread w keeps out of both sets or leaves them as they are.
LEMMA SameSets ==
    ASSUME NEW w \in Workers, NEW u,
           \A v \in Workers \ {w} : req'[v] = req[v],
           req[w].pc \notin {"count", "lock"}, req'[w].pc \notin {"count", "lock"}
    PROVE  Counting(u)' = Counting(u) /\ Locking(u)' = Locking(u)
  BY DEF Counting, Locking

\* A cleared account is far from the bound, the others are as before.
LEMMA ClearedBounded ==
    ASSUME TypeOK, NEW u \in Users, NEW x \in Users, Bounded(u), Cleared(x),
           Counting(u)' = Counting(u), Locking(u)' = Locking(u)
    PROVE  Bounded(u)'
<1>. USE AccountsAssumption, Counts DEF Bounded
<1>1. CASE u = x
  <2>1. tries'[u] = 0 /\ failed'[u] = 0
    BY <1>1 DEF Cleared, TypeOK
  <2>. QED
    BY <2>1
<1>2. CASE u # x
  <2>1. tries'[u] = tries[u] /\ failed'[u] = failed[u] /\ locked'[u] = locked[u]
    BY <1>2 DEF Cleared, TypeOK
  <2>. QED
    BY <2>1
<1>. QED
  BY <1>1, <1>2

LEMMA UnchangedBounded ==
    ASSUME NEW u \in Users, Bounded(u), UNCHANGED <<tries, failed, locked>>,
           Counting(u)' = Counting(u), Locking(u)' = Locking(u)
    PROVE  Bounded(u)'
  BY DEF Bounded

\* No step takes an account over the bound.
LEMMA NextBounded ==
    ASSUME IInv, [Next]_vars, NEW u \in Users
    PROVE  Bounded(u)'
<1>. USE AccountsAssumption DEF IInv
<1>1. ASSUME NEW w \in Workers, Step(w) PROVE Bounded(u)'
  <2>0. \A r : Proceed(w, r) => req'[w] = r /\ \A v \in Workers \ {w} : req'[v] = req[v]
    BY DEF Proceed, TypeOK
  <2>r. \A s : Reply(w, s) => req'[w].pc = "idle" /\ \A v \in Workers \ {w} : req'[v] = req[v]
    BY DEF Reply, TypeOK, Idle, Request
  <2>u. req[w].pc \notin {"idle", "log"} => req[w].user \in Users
    BY DEF TypeOK
  <2>1. CASE Login(w)
    <3>1. req[w].pc = "idle" /\ UNCHANGED <<tries, failed, locked>>
      BY <2>1 DEF Login, Row
    <3>a. \E r : /\ Proceed(w, r)
                 /\ \/ r.pc \in {"log", "clear"}
                    \/ \E x \in Users : ~locked[x] /\ r = Request("count", x)
      <4>1. \A x : /\ [Request("log", x) EXCEPT !.owes = {"login_failed"}].pc = "log"
                   /\ Request("clear", x).pc = "clear"
        BY DEF Request
      <4>2. ASSUME NEW x \in Users, NEW pw \in Passwords, Proceed(w, AfterRead(x, pw))
            PROVE  \/ AfterRead(x, pw).pc \in {"log", "clear"}
                   \/ ~locked[x] /\ AfterRead(x, pw) = Request("count", x)
        BY <4>1 DEF AfterRead, IsLocked
      <4>. QED
        BY <2>1, <4>1, <4>2 DEF Login
    <3>b. /\ \A v \in Workers \ {w} : req'[v] = req[v]
          /\ \/ req'[w].pc \in {"log", "clear"}
             \/ \E x \in Users : ~locked[x] /\ req'[w] = Request("count", x)
      BY <2>0, <3>a
    <3>2. CASE req'[w].pc # "count"
      <4>0. \A x : Request("count", x).pc = "count"
        BY DEF Request
      <4>1. req'[w].pc \in {"log", "clear"} /\ \A v \in Workers \ {w} : req'[v] = req[v]
        BY <3>b, <3>2, <4>0
      <4>. QED
        BY <3>1, <4>1, SameSets, UnchangedBounded
    <3>3. CASE req'[w].pc = "count"
      <4>1. PICK x \in Users : ~locked[x] /\ req'[w] = Request("count", x)
        BY <3>b, <3>3
      <4>2. \A v \in Workers \ {w} : req'[v] = req[v]
        BY <3>b
      <4>3. Locking(u)' = Locking(u)
        BY <3>1, <3>3, <4>2 DEF Locking
      <4>4. CASE x = u
        <5>1. w \notin Counting(u) /\ Counting(u)' = Counting(u) \cup {w}
          BY <3>1, <3>3, <4>1, <4>2, <4>4 DEF Counting, Request
        <5>2. Cardinality(Counting(u)') = Cardinality(Counting(u)) + 1
          BY <5>1, Counts, FS_AddElement
        <5>3. Cardinality(Counting(u)') + Cardinality(Locking(u)) <= Cardinality(Workers)
          <6>1. Counting(u)' \subseteq Workers /\ Locking(u) \subseteq Workers
            BY DEF Counting, Locking
          <6>2. Counting(u)' \cap Locking(u) = {}
            BY <4>3 DEF Counting, Locking
          <6>3. IsFiniteSet(Counting(u)') /\ IsFiniteSet(Locking(u))
            BY <6>1, FS_Subset
          <6>4. /\ Cardinality(Counting(u)' \cup Locking(u))
                     = Cardinality(Counting(u)') + Cardinality(Locking(u)) - Cardinality({})
                /\ Cardinality({}) = 0
            BY <6>2, <6>3, FS_Union, FS_EmptySet
          <6>5. Cardinality(Counting(u)' \cup Locking(u)) <= Cardinality(Workers)
            BY <6>1, FS_Subset
          <6>. QED
            BY <6>3, <6>4, <6>5, Counts, FS_CardinalityType
        <5>4. tries[u] \in Nat
          BY DEF TypeOK
        <5>. QED
          BY <3>1, <4>1, <4>3, <4>4, <5>2, <5>3, <5>4, Counts DEF Bounded
      <4>5. CASE x # u
        <5>1. Counting(u)' = Counting(u)
          BY <3>1, <4>1, <4>2, <4>5 DEF Counting, Request
        <5>. QED
          BY <3>1, <4>3, <5>1, UnchangedBounded
      <4>. QED
        BY <4>4, <4>5
    <3>. QED
      BY <3>2, <3>3
  <2>2. CASE CountFailure(w)
    <3>. DEFINE x == req[w].user
    <3>1. /\ x \in Users /\ req[w].pc = "count"
          /\ failed' = [failed EXCEPT ![x] = Bumped(@)]
          /\ tries' = [tries EXCEPT ![x] = @ + 1]
          /\ locked' = locked
      BY <2>2, <2>u DEF CountFailure
    <3>2. /\ req'[w].user = x
          /\ req'[w].pc = IF Reached(failed[x] + 1) THEN "lock" ELSE "log"
          /\ \A v \in Workers \ {w} : req'[v] = req[v]
      BY <2>0, <2>2 DEF CountFailure, Request
    <3>3. CASE x # u
      <4>1. Counting(u)' = Counting(u) /\ Locking(u)' = Locking(u)
        BY <3>2, <3>3 DEF Counting, Locking
      <4>2. tries'[u] = tries[u] /\ failed'[u] = failed[u] /\ locked'[u] = locked[u]
        BY <3>1, <3>3 DEF TypeOK
      <4>. QED
        BY <4>1, <4>2 DEF Bounded
    <3>4. CASE x = u
      <4>1. w \in Counting(u) /\ Counting(u)' = Counting(u) \ {w}
        BY <3>1, <3>2, <3>4 DEF Counting
      <4>2. Cardinality(Counting(u)') = Cardinality(Counting(u)) - 1
        BY <4>1, Counts, FS_RemoveElement
      <4>3. /\ tries[u] \in Nat /\ failed[u] \in 0 .. MaxFailed
            /\ tries'[u] = tries[u] + 1 /\ locked'[u] = locked[u]
            /\ failed'[u] = IF failed[u] < MaxFailed THEN failed[u] + 1 ELSE failed[u]
        BY <3>1, <3>4 DEF TypeOK, Bumped
      <4>4. CASE Reached(failed[u] + 1)
        <5>1. w \notin Locking(u) /\ Locking(u)' = Locking(u) \cup {w}
          BY <3>1, <3>2, <3>4, <4>4 DEF Locking
        <5>2. Cardinality(Locking(u)') = Cardinality(Locking(u)) + 1
          BY <5>1, Counts, FS_AddElement
        <5>3. failed'[u] = MaxFailed
          BY <4>3, <4>4 DEF Reached
        <5>4. ~locked'[u] => tries'[u] <= MaxFailed - 1 + Cardinality(Locking(u)')
          BY <4>3, <5>2, Counts DEF Bounded
        <5>5. tries'[u] + Cardinality(Counting(u)') <= MaxFailed - 1 + Cardinality(Workers)
          BY <4>2, <4>3, Counts DEF Bounded
        <5>. QED
          BY <5>3, <5>4, <5>5 DEF Bounded
      <4>5. CASE ~Reached(failed[u] + 1)
        <5>1. Locking(u)' = Locking(u)
          BY <3>1, <3>2, <3>4, <4>5 DEF Locking
        <5>. QED
          BY <4>2, <4>3, <4>5, <5>1, Counts DEF Bounded, Reached
      <4>. QED
        BY <4>4, <4>5
    <3>. QED
      BY <3>3, <3>4
  <2>3. CASE SetLock(w)
    <3>1. /\ req[w].user \in Users /\ req[w].pc = "lock"
          /\ locked' = [locked EXCEPT ![req[w].user] = TRUE]
          /\ UNCHANGED <<tries, failed>>
      BY <2>3, <2>u DEF SetLock
    <3>2. req'[w].pc = "log" /\ \A v \in Workers \ {w} : req'[v] = req[v]
      <4>. DEFINE r == [req[w] EXCEPT !.pc = "log", !.owes = @ \cup {"account_locked"}]
      <4>1. r.pc = "log"
        BY DEF TypeOK, RequestType
      <4>2. Proceed(w, r)
        BY <2>3 DEF SetLock
      <4>. HIDE DEF r
      <4>. QED
        BY <2>0, <4>1, <4>2
    <3>3. Counting(u)' = Counting(u)
      BY <3>1, <3>2 DEF Counting
    <3>4. CASE req[w].user = u
      <4>1. locked'[u]
        BY <3>1, <3>4 DEF TypeOK
      <4>. QED
        BY <3>1, <3>3, <4>1 DEF Bounded
    <3>5. CASE req[w].user # u
      <4>1. locked'[u] = locked[u]
        BY <3>1, <3>5 DEF TypeOK
      <4>2. Locking(u)' = Locking(u)
        BY <3>1, <3>2, <3>5 DEF Locking
      <4>. QED
        BY <3>1, <3>3, <4>1, <4>2 DEF Bounded
    <3>. QED
      BY <3>4, <3>5
  <2>4. CASE NoteSuccess(w) \/ SetPassword(w) \/ ResetPassword(w)
    <3>1. req[w].user \in Users /\ Cleared(req[w].user)
      BY <2>4, <2>u DEF NoteSuccess, SetPassword, ResetPassword, StorePassword
    <3>2. req[w].pc \notin {"count", "lock"}
      BY <2>4 DEF NoteSuccess, SetPassword, ResetPassword
    <3>3. req'[w].pc \notin {"count", "lock"} /\ \A v \in Workers \ {w} : req'[v] = req[v]
      <4>1. req[w] \in RequestType
        BY DEF TypeOK
      <4>2. \A x, s : [Request("log", x) EXCEPT !.owes = s].pc = "log"
        BY DEF Request
      <4>3. \A s : [req[w] EXCEPT !.pc = "manage", !.owes = s].pc = "manage"
        BY <4>1 DEF RequestType
      <4>4. \/ \E s : Reply(w, s)
            \/ \E r : Proceed(w, r) /\ r.pc \in {"log", "manage"}
        BY <2>4, <4>2, <4>3 DEF NoteSuccess, SetPassword, ResetPassword
      <4>. QED
        BY <2>0, <2>r, <4>4
    <3>. QED
      BY <3>1, <3>2, <3>3, SameSets, ClearedBounded
  <2>5. CASE UpdateUser(w)
    <3>1. Counting(u)' = Counting(u) /\ Locking(u)' = Locking(u)
      BY <2>5, <2>r, SameSets DEF UpdateUser
    <3>2. CASE req[w].body.unlock
      <4>1. Cleared(req[w].user) /\ req[w].user \in Users
        BY <2>5, <2>u, <3>2 DEF UpdateUser
      <4>. QED
        BY <3>1, <4>1, ClearedBounded
    <3>3. CASE ~req[w].body.unlock
      BY <2>5, <3>1, <3>3, UnchangedBounded DEF UpdateUser
    <3>. QED
      BY <3>2, <3>3
  <2>6. CASE RecordEvent(w) \/ Logout(w) \/ ChangePassword(w) \/ ManageUser(w)
    <3>1. UNCHANGED <<tries, failed, locked>>
      BY <2>6 DEF RecordEvent, Logout, ChangePassword, ManageUser, Row
    <3>2. req[w].pc \in {"idle", "log"}
      BY <2>6 DEF RecordEvent, Logout, ChangePassword, ManageUser
    <3>3. req'[w].pc \notin {"count", "lock"} /\ \A v \in Workers \ {w} : req'[v] = req[v]
      <4>1. CASE RecordEvent(w)
        <5>1. req[w] \in RequestType /\ req[w].pc = "log"
          BY <4>1 DEF RecordEvent, TypeOK
        <5>2. \A s : [req[w] EXCEPT !.owes = s].pc = "log"
          BY <5>1 DEF RequestType
        <5>. QED
          BY <2>0, <2>r, <4>1, <5>2 DEF RecordEvent
      <4>2. CASE Logout(w)
        BY <2>0, <4>2 DEF Logout, Request
      <4>3. CASE ChangePassword(w)
        <5>1. PICK x \in Users, current \in Passwords, new \in Passwords :
                 Proceed(w, IF Verifies(x, current)
                            THEN [Request("change", x) EXCEPT !.seen = current, !.new = new]
                            ELSE [Request("log", x) EXCEPT !.owes = {"password_change_failed"}])
          BY <4>3 DEF ChangePassword
        <5>2. /\ [Request("change", x) EXCEPT !.seen = current, !.new = new].pc = "change"
              /\ [Request("log", x) EXCEPT !.owes = {"password_change_failed"}].pc = "log"
          BY DEF Request
        <5>. QED
          BY <2>0, <5>1, <5>2
      <4>4. CASE ManageUser(w)
        <5>1. PICK x \in Users, new \in Passwords \cup {None}, body \in Body :
                 Proceed(w, [Request(IF new # None THEN "reset" ELSE "manage", x)
                               EXCEPT !.new = new, !.body = body])
          BY <4>4 DEF ManageUser
        <5>2. [Request(IF new # None THEN "reset" ELSE "manage", x)
                 EXCEPT !.new = new, !.body = body].pc \in {"reset", "manage"}
          BY DEF Request
        <5>. QED
          BY <2>0, <5>1, <5>2
      <4>. QED
        BY <2>6, <4>1, <4>2, <4>3, <4>4
    <3>. QED
      BY <3>1, <3>2, <3>3, SameSets, UnchangedBounded
  <2>. QED
    BY <1>1, <2>1, <2>2, <2>3, <2>4, <2>5, <2>6 DEF Step
<1>2. ASSUME NEW x \in Users, Expire(x) PROVE Bounded(u)'
  <2>1. Counting(u)' = Counting(u) /\ Locking(u)' = Locking(u)
    BY <1>2 DEF Expire, Counting, Locking
  <2>2. failed'[u] = failed[u]
    BY <1>2 DEF Expire
  <2>3. CASE x = u
    <3>1. tries'[u] = 0 /\ failed[u] \in Nat
      BY <1>2, <2>3 DEF Expire, TypeOK
    <3>. QED
      BY <2>1, <2>2, <3>1, Counts DEF Bounded
  <2>4. CASE x # u
    <3>1. tries'[u] = tries[u] /\ locked'[u] = locked[u]
      BY <1>2, <2>4 DEF Expire, TypeOK
    <3>. QED
      BY <2>1, <2>2, <3>1 DEF Bounded
  <2>. QED
    BY <2>3, <2>4
<1>3. CASE UNCHANGED vars
  BY <1>3 DEF vars, Bounded, Counting, Locking
<1>. QED
  BY <1>1, <1>2, <1>3 DEF Next

LEMMA InitBounded == Init => \A u \in Users : Bounded(u)
<1>. SUFFICES ASSUME Init, NEW u \in Users PROVE Bounded(u)
  OBVIOUS
<1>. USE AccountsAssumption
<1>1. tries[u] = 0 /\ failed[u] = 0
  BY DEF Init
<1>. QED
  BY <1>1, Counts DEF Bounded

(* However many threads guess at once, an account takes MaxFailed - 1      *)
(* wrong passwords and one more for each thread, and is then locked.       *)
THEOREM GuessesBoundedAlways == Spec => []GuessesBounded
<1>1. Init => IInv
  BY InitTypeOK, InitBounded DEF IInv
<1>2. IInv /\ [Next]_vars => IInv'
  BY NextTypeOK, NextBounded DEF IInv
<1>3. IInv => GuessesBounded
  BY AccountsAssumption, Counts DEF IInv, Bounded, GuessesBounded, TypeOK
<1>. QED
  BY <1>1, <1>2, <1>3, PTL DEF Spec

-----------------------------------------------------------------------------
\* What a step of w leaves in its place, as far as the events it owes and the
\* lock of its account tell.
LEMMA StepOutcome ==
    ASSUME TypeOK, NEW w \in Workers, Step(w)
    PROVE  /\ \A v \in Workers \ {w} : req'[v] = req[v]
           /\ Login(w) => \/ req'[w].pc = "log"
                          \/ /\ req'[w].pc \in {"count", "clear"}
                             /\ req'[w].user \in Users /\ ~locked[req'[w].user]
           /\ CountFailure(w) =>
                 /\ req'[w].pc = IF Reached(failed[req[w].user] + 1) THEN "lock" ELSE "log"
                 /\ req'[w].user = req[w].user
           /\ SetLock(w) \/ NoteSuccess(w) \/ Logout(w) \/ SetPassword(w) => req'[w].pc = "log"
           /\ RecordEvent(w) => req'[w].pc \in {"log", "idle"}
           /\ ChangePassword(w) => req'[w].pc \in {"change", "log"}
           /\ ManageUser(w) => req'[w].pc \in {"reset", "manage"} /\ req'[w].owes = {}
           /\ ResetPassword(w) => \/ req'[w].pc = "idle"
                                  \/ req'[w].pc = "manage" /\ req'[w].owes = {"password_reset"}
           /\ UpdateUser(w) => req'[w].pc = "idle"
<1>1. \A r : Proceed(w, r) => req'[w] = r /\ \A v \in Workers \ {w} : req'[v] = req[v]
  BY DEF Proceed, TypeOK
<1>2. \A s : Reply(w, s) => req'[w].pc = "idle" /\ \A v \in Workers \ {w} : req'[v] = req[v]
  BY DEF Reply, TypeOK, Idle, Request
<1>3. req[w] \in RequestType
  BY DEF TypeOK
<1>4. \A pc, u : Request(pc, u).pc = pc /\ Request(pc, u).user = u
  BY DEF Request
<1>5. \A pc, u, s : /\ [Request(pc, u) EXCEPT !.owes = s].pc = pc
                    /\ [Request(pc, u) EXCEPT !.owes = s].user = u
  BY DEF Request
<1>6. ASSUME Login(w)
      PROVE  /\ \A v \in Workers \ {w} : req'[v] = req[v]
             /\ \/ req'[w].pc = "log"
                \/ /\ req'[w].pc \in {"count", "clear"}
                   /\ req'[w].user \in Users /\ ~locked[req'[w].user]
  <2>1. CASE Proceed(w, [Request("log", None) EXCEPT !.owes = {"login_failed"}])
    BY <1>1, <2>1 DEF Request
  <2>2. ASSUME NEW u \in Users, NEW pw \in Passwords, Proceed(w, AfterRead(u, pw))
        PROVE  /\ \A v \in Workers \ {w} : req'[v] = req[v]
               /\ \/ req'[w].pc = "log"
                  \/ /\ req'[w].pc \in {"count", "clear"}
                     /\ req'[w].user \in Users /\ ~locked[req'[w].user]
    <3>1. req'[w] = AfterRead(u, pw) /\ \A v \in Workers \ {w} : req'[v] = req[v]
      BY <1>1, <2>2
    <3>2. CASE ~active[u] \/ IsLocked(u)
      BY <3>1, <3>2 DEF AfterRead, Request
    <3>3. CASE ~(~active[u] \/ IsLocked(u))
      BY <1>4, <3>1, <3>3 DEF AfterRead, IsLocked
    <3>. QED
      BY <3>2, <3>3
  <2>. QED
    BY <1>6, <2>1, <2>2 DEF Login
<1>7. ASSUME CountFailure(w)
      PROVE  /\ \A v \in Workers \ {w} : req'[v] = req[v]
             /\ req'[w].pc = IF Reached(failed[req[w].user] + 1) THEN "lock" ELSE "log"
             /\ req'[w].user = req[w].user
  BY <1>1, <1>7 DEF CountFailure, Request
<1>8. ASSUME SetLock(w)
      PROVE  req'[w].pc = "log" /\ \A v \in Workers \ {w} : req'[v] = req[v]
  <2>1. \A s : [req[w] EXCEPT !.pc = "log", !.owes = s].pc = "log"
    BY <1>3 DEF RequestType
  <2>. QED
    BY <1>1, <1>8, <2>1 DEF SetLock
<1>9. ASSUME NoteSuccess(w) \/ Logout(w) \/ SetPassword(w)
      PROVE  req'[w].pc = "log" /\ \A v \in Workers \ {w} : req'[v] = req[v]
  <2>1. CASE NoteSuccess(w) \/ SetPassword(w)
    <3>1. \E u, e : /\ req'[w] = [Request("log", u) EXCEPT !.owes = {e}]
                    /\ \A v \in Workers \ {w} : req'[v] = req[v]
      BY <1>1, <2>1 DEF NoteSuccess, SetPassword
    <3>. QED
      BY <3>1 DEF Request
  <2>2. CASE Logout(w)
    BY <1>1, <2>2 DEF Logout, Request
  <2>. QED
    BY <1>9, <2>1, <2>2
<1>10. ASSUME RecordEvent(w)
       PROVE  req'[w].pc \in {"log", "idle"} /\ \A v \in Workers \ {w} : req'[v] = req[v]
  <2>1. req[w].pc = "log" /\ \A s : [req[w] EXCEPT !.owes = s].pc = req[w].pc
    BY <1>3, <1>10 DEF RecordEvent, RequestType
  <2>. QED
    BY <1>1, <1>2, <1>10, <2>1 DEF RecordEvent
<1>11. ASSUME ChangePassword(w)
       PROVE  req'[w].pc \in {"change", "log"} /\ \A v \in Workers \ {w} : req'[v] = req[v]
  <2>1. \A u, s, n : [Request("change", u) EXCEPT !.seen = s, !.new = n].pc = "change"
    BY DEF Request
  <2>2. PICK u \in Users, s, n \in Passwords :
           Proceed(w, IF Verifies(u, s)
                      THEN [Request("change", u) EXCEPT !.seen = s, !.new = n]
                      ELSE [Request("log", u) EXCEPT !.owes = {"password_change_failed"}])
    BY <1>11 DEF ChangePassword
  <2>3. CASE Verifies(u, s)
    <3>1. /\ req'[w] = [Request("change", u) EXCEPT !.seen = s, !.new = n]
          /\ \A v \in Workers \ {w} : req'[v] = req[v]
      BY <1>1, <2>2, <2>3
    <3>. QED
      BY <2>1, <3>1
  <2>4. CASE ~Verifies(u, s)
    BY <1>1, <2>2, <2>4 DEF Request
  <2>. QED
    BY <2>3, <2>4
<1>12. ASSUME ManageUser(w)
       PROVE  /\ req'[w].pc \in {"reset", "manage"} /\ req'[w].owes = {}
              /\ \A v \in Workers \ {w} : req'[v] = req[v]
  <2>1. \A pc, u, n, b : /\ [Request(pc, u) EXCEPT !.new = n, !.body = b].pc = pc
                         /\ [Request(pc, u) EXCEPT !.new = n, !.body = b].owes = {}
    BY DEF Request
  <2>2. PICK u \in Users, n \in Passwords \cup {None}, b \in Body :
           Proceed(w, [Request(IF n # None THEN "reset" ELSE "manage", u)
                         EXCEPT !.new = n, !.body = b])
    BY <1>12 DEF ManageUser
  <2>3. req'[w] = [Request(IF n # None THEN "reset" ELSE "manage", u)
                     EXCEPT !.new = n, !.body = b]
        /\ \A v \in Workers \ {w} : req'[v] = req[v]
    BY <1>1, <2>2
  <2>. QED
    BY <2>1, <2>3
<1>13. ASSUME ResetPassword(w)
       PROVE  /\ \A v \in Workers \ {w} : req'[v] = req[v]
              /\ \/ req'[w].pc = "idle"
                 \/ req'[w].pc = "manage" /\ req'[w].owes = {"password_reset"}
  <2>1. \A s : /\ [req[w] EXCEPT !.pc = "manage", !.owes = s].pc = "manage"
               /\ [req[w] EXCEPT !.pc = "manage", !.owes = s].owes = s
    BY <1>3 DEF RequestType
  <2>2. CASE req[w].body = NoBody
    BY <1>2, <1>13, <2>2 DEF ResetPassword
  <2>3. CASE req[w].body # NoBody
    <3>1. Proceed(w, [req[w] EXCEPT !.pc = "manage", !.owes = {"password_reset"}])
      BY <1>13, <2>3 DEF ResetPassword
    <3>2. /\ req'[w] = [req[w] EXCEPT !.pc = "manage", !.owes = {"password_reset"}]
          /\ \A v \in Workers \ {w} : req'[v] = req[v]
      BY <1>1, <3>1
    <3>. QED
      BY <2>1, <3>2
  <2>. QED
    BY <2>2, <2>3
<1>14. ASSUME UpdateUser(w)
       PROVE  req'[w].pc = "idle" /\ \A v \in Workers \ {w} : req'[v] = req[v]
  BY <1>2, <1>14 DEF UpdateUser
<1>15. /\ Login(w) => req[w].pc = "idle"
       /\ CountFailure(w) => req[w].pc = "count"
  BY DEF Login, CountFailure
<1>. QED
  BY <1>6, <1>7, <1>8, <1>9, <1>10, <1>11, <1>12, <1>13, <1>14 DEF Step
-----------------------------------------------------------------------------
\* Only a reset hands an event it will not write to a later statement.
OwesReset ==
    /\ unrecorded \subseteq {"password_reset"}
    /\ \A w \in Workers : req[w].pc = "manage" => req[w].owes \subseteq {"password_reset"}

LEMMA NextOwesReset == TypeOK /\ OwesReset /\ [Next]_vars => OwesReset'
<1>. SUFFICES ASSUME TypeOK, OwesReset, [Next]_vars PROVE OwesReset'
  OBVIOUS
<1>1. ASSUME NEW w \in Workers, Step(w) PROVE OwesReset'
  <2>1. \/ unrecorded' = unrecorded
        \/ unrecorded' = unrecorded \cup {"password_reset"}
        \/ req[w].pc = "manage" /\ unrecorded' = unrecorded \cup req[w].owes
    <3>1. CASE RecordEvent(w)
      BY <3>1 DEF RecordEvent, Reply
    <3>2. CASE ResetPassword(w)
      BY <3>2 DEF ResetPassword, Reply
    <3>3. CASE UpdateUser(w)
      BY <3>3 DEF UpdateUser, Reply
    <3>4. CASE ~RecordEvent(w) /\ ~ResetPassword(w) /\ ~UpdateUser(w)
      BY <1>1, <3>4 DEF Step, Login, CountFailure, SetLock, NoteSuccess, Logout, ChangePassword,
         SetPassword, ManageUser
    <3>. QED
      BY <3>1, <3>2, <3>3, <3>4
  <2>2. req'[w].pc = "manage" => req'[w].owes \subseteq {"password_reset"}
    BY <1>1, StepOutcome DEF Step
  <2>3. \A v \in Workers \ {w} : req'[v] = req[v]
    BY <1>1, StepOutcome
  <2>. QED
    BY <2>1, <2>2, <2>3 DEF OwesReset
<1>2. ASSUME NEW u \in Users, Expire(u) PROVE OwesReset'
  BY <1>2 DEF Expire, OwesReset
<1>3. CASE UNCHANGED vars
  BY <1>3 DEF vars, OwesReset
<1>. QED
  BY <1>1, <1>2, <1>3 DEF Next

(* The log misses no login, failure, lockout or logout whose request has   *)
(* been answered, and no change of one's own password; it misses only the  *)
(* passwords a colleague has reset.                                        *)
THEOREM OnlyResetsGoUnrecordedAlways == Spec => []OnlyResetsGoUnrecorded
<1>1. Init => OwesReset
  <2>. SUFFICES ASSUME Init PROVE OwesReset
    OBVIOUS
  <2>1. \A w \in Workers : req[w].pc = "idle"
    BY DEF Init, Idle, Request
  <2>. QED
    BY <2>1 DEF Init, OwesReset
<1>2. OwesReset => OnlyResetsGoUnrecorded
  BY DEF OwesReset, OnlyResetsGoUnrecorded
<1>. QED
  BY <1>1, <1>2, NextOwesReset, TypeCorrect, PTL DEF Spec

-----------------------------------------------------------------------------
\* Until two requests overlap, there is one at most, and no statement of it
\* finds its account locked: the lock was looked at after the last one was set.
Alone ==
    ~overlapped =>
       /\ \A v, w \in Workers : v # w => req[v].pc = "idle" \/ req[w].pc = "idle"
       /\ \A w \in Workers : req[w].pc \in {"count", "lock", "clear"} => ~locked[req[w].user]

LEMMA InitAlone == Init => Alone
<1>. SUFFICES ASSUME Init PROVE Alone
  OBVIOUS
<1>1. \A w \in Workers : req[w].pc = "idle"
  BY DEF Init, Idle, Request
<1>. QED
  BY <1>1 DEF Alone

\* The thread of a step that overlaps with no request has the server for itself.
LEMMA Served ==
    ASSUME TypeOK, Alone, NEW w \in Workers, Step(w), Noted, ~overlapped'
    PROVE  /\ ~overlapped
           /\ \A v \in Workers \ {w} : req[v].pc = "idle" /\ req'[v].pc = "idle"
           /\ \A x, v \in Workers : x # v => req'[x].pc = "idle" \/ req'[v].pc = "idle"
<1>1. ~overlapped /\ \A x, v \in Workers : x # v => req'[x].pc = "idle" \/ req'[v].pc = "idle"
  BY DEF Noted
<1>2. \A v \in Workers \ {w} : req'[v] = req[v]
  BY StepOutcome
<1>3. req[w].pc = "idle" => req'[w].pc # "idle"
  BY StepOutcome DEF Step, CountFailure, SetLock, NoteSuccess, RecordEvent, SetPassword,
     ResetPassword, UpdateUser
<1>. QED
  BY <1>1, <1>2, <1>3 DEF Alone

LEMMA NextAlone == TypeOK /\ Alone /\ [Next]_vars => Alone'
<1>. SUFFICES ASSUME TypeOK, Alone, [Next]_vars, ~overlapped'
              PROVE  /\ \A v, w \in Workers : v # w => req'[v].pc = "idle" \/ req'[w].pc = "idle"
                     /\ \A w \in Workers :
                           req'[w].pc \in {"count", "lock", "clear"} => ~locked'[req'[w].user]
  BY DEF Alone
<1>1. ASSUME NEW w \in Workers, Step(w), Noted
      PROVE  req'[w].pc \in {"count", "lock", "clear"} => ~locked'[req'[w].user]
  <2>1. ~overlapped
    BY <1>1, Served
  <2>2. CASE Login(w)
    <3>1. locked' = locked
      BY <2>2 DEF Login, Row
    <3>. QED
      BY <1>1, <2>2, <3>1, StepOutcome
  <2>3. CASE CountFailure(w)
    <3>1. req[w].pc = "count" /\ locked' = locked
      BY <2>3 DEF CountFailure
    <3>. QED
      BY <1>1, <2>1, <2>3, <3>1, StepOutcome DEF Alone
  <2>4. CASE ~Login(w) /\ ~CountFailure(w)
    BY <1>1, <2>4, StepOutcome DEF Step
  <2>. QED
    BY <2>2, <2>3, <2>4
<1>2. CASE \E w \in Workers : Step(w) /\ Noted
  BY <1>1, <1>2, Served
<1>3. ASSUME NEW u \in Users, Expire(u), UNCHANGED overlapped
      PROVE  /\ req' = req /\ ~overlapped
             /\ \A x \in Users : ~locked[x] => ~locked'[x]
  BY <1>3 DEF Expire, TypeOK
<1>4. \A w \in Workers : req[w].pc \in {"count", "lock", "clear"} => req[w].user \in Users
  BY DEF TypeOK
<1>5. CASE \E u \in Users : Expire(u) /\ UNCHANGED overlapped
  BY <1>3, <1>4, <1>5 DEF Alone
<1>6. CASE UNCHANGED vars
  BY <1>6 DEF vars, Alone
<1>. QED
  BY <1>2, <1>5, <1>6 DEF Next
-----------------------------------------------------------------------------
(* Counter and lock as a Lockout.                                          *)
Due == [u \in Users |-> LockedOrDue(u)]
LetIn == {req[w].user : w \in {v \in Workers : req[v].pc = "clear"}}

\* With one request only, the lock is due and the login accepted in that one.
LEMMA MappedAlone ==
    ASSUME NEW w \in Workers,
           \A v \in Workers \ {w} : req[v].pc = "idle" /\ req'[v].pc = "idle"
    PROVE  /\ \A u : LockedOrDue(u) <=> locked[u] \/ (req[w].pc = "lock" /\ req[w].user = u)
           /\ \A u : LockedOrDue(u)' <=> locked'[u] \/ (req'[w].pc = "lock" /\ req'[w].user = u)
           /\ LetIn = IF req[w].pc = "clear" THEN {req[w].user} ELSE {}
           /\ LetIn' = IF req'[w].pc = "clear" THEN {req'[w].user} ELSE {}
  BY DEF LockedOrDue, LetIn

\* What becomes of the lock of every account is what becomes of Due.
LEMMA DueUnchanged ==
    ASSUME \A u \in Users : LockedOrDue(u)' <=> LockedOrDue(u)
    PROVE  Due' = Due
<1>1. \A u \in Users : LockedOrDue(u)' = LockedOrDue(u)
  BY DEF LockedOrDue
<1>. QED
  BY <1>1 DEF Due

LEMMA DueBecomes ==
    ASSUME NEW x \in Users, NEW b \in BOOLEAN,
           LockedOrDue(x)' <=> b,
           \A u \in Users \ {x} : LockedOrDue(u)' <=> LockedOrDue(u)
    PROVE  Due' = [Due EXCEPT ![x] = b]
<1>1. \A u \in Users : LockedOrDue(u)' = IF u = x THEN b ELSE LockedOrDue(u)
  BY DEF LockedOrDue
<1>2. Due' = [u \in Users |-> IF u = x THEN b ELSE LockedOrDue(u)]
  BY <1>1 DEF Due
<1>3. [Due EXCEPT ![x] = b] = [u \in Users |-> IF u = x THEN b ELSE LockedOrDue(u)]
  BY DEF Due
<1>. QED
  BY <1>2, <1>3

\* The steps of Lockout in terms of the rows and requests.
LEMMA LockoutSteps ==
    ASSUME NEW u \in Users
    PROVE  /\ /\ ~Due[u]
              /\ failed' = [failed EXCEPT ![u] = Bumped(@)]
              /\ Due' = [Due EXCEPT ![u] = failed[u] + 1 >= MaxFailed]
              /\ LetIn' = LetIn
              => L!Next
           /\ /\ ~Due[u] /\ u \notin LetIn /\ LetIn' = LetIn \cup {u}
              /\ failed' = failed /\ Due' = Due
              => L!Next
           /\ /\ u \in LetIn /\ LetIn' = LetIn \ {u}
              /\ failed' = [failed EXCEPT ![u] = 0] /\ Due' = Due
              => L!Next
           /\ /\ failed' \in {failed, [failed EXCEPT ![u] = 0]}
              /\ Due' = [Due EXCEPT ![u] = FALSE] /\ LetIn' = LetIn
              => L!Next
  BY DEF Due, LetIn, Bumped, L!Next, L!Fail, L!Accept, L!Succeed, L!Clear, L!Expire

LEMMA LockoutStutters == failed' = failed /\ Due' = Due /\ LetIn' = LetIn => UNCHANGED L!vars
  BY DEF Due, LetIn, L!vars

LEMMA LockoutStep ==
    ASSUME TypeOK, Alone, Next, ~overlapped'
    PROVE  L!Next \/ UNCHANGED L!vars
<1>1. ASSUME NEW w \in Workers, Step(w), Noted PROVE L!Next \/ UNCHANGED L!vars
  <2>x. PICK x : x = req[w].user
    OBVIOUS
  <2>a. /\ \A v \in Workers \ {w} : req[v].pc = "idle" /\ req'[v].pc = "idle"
        /\ ~overlapped
    BY <1>1, Served
  <2>b. /\ \A u : LockedOrDue(u) <=> locked[u] \/ (req[w].pc = "lock" /\ x = u)
        /\ \A u : LockedOrDue(u)' <=> locked'[u] \/ (req'[w].pc = "lock" /\ req'[w].user = u)
        /\ LetIn = IF req[w].pc = "clear" THEN {x} ELSE {}
        /\ LetIn' = IF req'[w].pc = "clear" THEN {req'[w].user} ELSE {}
    BY <2>a, <2>x, MappedAlone
  <2>c. /\ req[w].pc \in {"count", "lock", "clear"} => ~locked[x]
        /\ req[w].pc \notin {"idle", "log"} => x \in Users
    BY <2>a, <2>x DEF Alone, TypeOK
  <2>d. ASSUME x \in Users, Cleared(x), req[w].pc \notin {"lock"}, req'[w].pc # "lock"
        PROVE  Due' = [Due EXCEPT ![x] = FALSE] /\ failed' = [failed EXCEPT ![x] = 0]
    <3>1. locked' = [locked EXCEPT ![x] = FALSE] /\ failed' = [failed EXCEPT ![x] = 0]
      BY <2>d DEF Cleared
    <3>2. ~LockedOrDue(x)'
      BY <2>b, <2>d, <3>1 DEF TypeOK
    <3>3. \A u \in Users \ {x} : LockedOrDue(u)' <=> LockedOrDue(u)
      BY <2>b, <2>d, <3>1 DEF TypeOK
    <3>. QED
      BY <2>d, <3>1, <3>2, <3>3, DueBecomes
  <2>e. ASSUME locked' = locked, req[w].pc # "lock", req'[w].pc # "lock" PROVE Due' = Due
    BY <2>b, <2>e, DueUnchanged
  <2>1. CASE Login(w)
    <3>1. req[w].pc = "idle" /\ locked' = locked /\ failed' = failed
      BY <2>1 DEF Login, Row
    <3>2. req'[w].pc # "lock"
      BY <1>1, <2>1, StepOutcome
    <3>3. Due' = Due /\ LetIn = {}
      BY <2>b, <2>e, <3>1, <3>2
    <3>4. CASE req'[w].pc = "clear"
      <4>1. req'[w].user \in Users /\ ~locked[req'[w].user]
        BY <1>1, <2>1, <3>4, StepOutcome
      <4>2. ~Due[req'[w].user]
        BY <2>b, <3>1, <4>1 DEF Due
      <4>3. LetIn' = LetIn \cup {req'[w].user} /\ req'[w].user \notin LetIn
        BY <2>b, <3>3, <3>4
      <4>. QED
        BY <3>1, <3>3, <4>1, <4>2, <4>3, LockoutSteps
    <3>5. CASE req'[w].pc # "clear"
      BY <2>b, <3>1, <3>3, <3>5, LockoutStutters
    <3>. QED
      BY <3>4, <3>5
  <2>2. CASE CountFailure(w)
    <3>1. /\ req[w].pc = "count" /\ locked' = locked
          /\ failed' = [failed EXCEPT ![x] = Bumped(@)]
      BY <2>x, <2>2 DEF CountFailure
    <3>2. /\ req'[w].pc = IF Reached(failed[x] + 1) THEN "lock" ELSE "log"
          /\ req'[w].user = x
      BY <1>1, <2>2, <2>x, StepOutcome
    <3>3. x \in Users /\ ~locked[x] /\ ~Due[x]
      BY <2>b, <2>c, <3>1 DEF Due
    <3>4. Due' = [Due EXCEPT ![x] = failed[x] + 1 >= MaxFailed]
      <4>1. LockedOrDue(x)' <=> failed[x] + 1 >= MaxFailed
        BY <2>b, <3>1, <3>2, <3>3 DEF Reached
      <4>2. \A u \in Users \ {x} : LockedOrDue(u)' <=> LockedOrDue(u)
        BY <2>b, <3>1, <3>2
      <4>3. CASE failed[x] + 1 >= MaxFailed
        <5>1. (failed[x] + 1 >= MaxFailed) = TRUE
          BY <4>3
        <5>2. Due' = [Due EXCEPT ![x] = TRUE]
          BY <3>3, <4>1, <4>2, <4>3, DueBecomes
        <5>. QED
          BY <5>1, <5>2
      <4>4. CASE ~(failed[x] + 1 >= MaxFailed)
        <5>1. (failed[x] + 1 >= MaxFailed) = FALSE
          BY <3>3, <4>4, AccountsAssumption DEF TypeOK
        <5>2. Due' = [Due EXCEPT ![x] = FALSE]
          BY <3>3, <4>1, <4>2, <4>4, DueBecomes
        <5>. QED
          BY <5>1, <5>2
      <4>. QED
        BY <4>3, <4>4
    <3>5. LetIn = {} /\ LetIn' = {}
      BY <2>b, <3>1, <3>2
    <3>. QED
      BY <3>1, <3>3, <3>4, <3>5, LockoutSteps
  <2>3. CASE SetLock(w)
    <3>1. /\ req[w].pc = "lock" /\ failed' = failed
          /\ locked' = [locked EXCEPT ![x] = TRUE]
      BY <2>x, <2>3 DEF SetLock
    <3>2. req'[w].pc = "log"
      BY <1>1, <2>3, StepOutcome
    <3>3. \A u \in Users : LockedOrDue(u)' <=> LockedOrDue(u)
      BY <2>b, <3>1, <3>2 DEF TypeOK
    <3>4. LetIn = {} /\ LetIn' = {}
      BY <2>b, <3>1, <3>2
    <3>. QED
      BY <3>1, <3>3, <3>4, DueUnchanged, LockoutStutters
  <2>4. CASE NoteSuccess(w)
    <3>1. req[w].pc = "clear" /\ Cleared(x)
      BY <2>x, <2>4 DEF NoteSuccess
    <3>2. req'[w].pc = "log"
      BY <1>1, <2>4, StepOutcome
    <3>3. Due' = [Due EXCEPT ![x] = FALSE] /\ failed' = [failed EXCEPT ![x] = 0]
      BY <2>c, <2>d, <3>1, <3>2
    <3>4. Due' = Due
      <4>1. ~LockedOrDue(x)
        BY <2>b, <2>c, <3>1
      <4>2. Due[x] = FALSE
        BY <2>c, <3>1, <4>1 DEF Due, LockedOrDue
      <4>. QED
        BY <3>3, <4>2 DEF Due
    <3>5. x \in LetIn /\ LetIn' = LetIn \ {x}
      BY <2>b, <3>1, <3>2
    <3>. QED
      BY <2>c, <3>1, <3>3, <3>4, <3>5, LockoutSteps
  <2>5. CASE SetPassword(w) \/ ResetPassword(w)
    <3>1. req[w].pc \in {"change", "reset"} /\ Cleared(x)
      BY <2>x, <2>5 DEF SetPassword, ResetPassword, StorePassword
    <3>2. req'[w].pc \in {"log", "idle", "manage"}
      BY <1>1, <2>5, StepOutcome
    <3>3. x \in Users /\ LetIn' = LetIn
      BY <2>b, <2>c, <3>1, <3>2
    <3>. QED
      BY <2>d, <3>1, <3>2, <3>3, LockoutSteps
  <2>6. CASE UpdateUser(w)
    <3>1. req[w].pc = "manage" /\ req'[w].pc = "idle"
      BY <1>1, <2>6, StepOutcome DEF UpdateUser
    <3>2. CASE req[w].body.unlock
      <4>1. Cleared(x)
        BY <2>x, <2>6, <3>2 DEF UpdateUser
      <4>2. x \in Users /\ LetIn' = LetIn
        BY <2>b, <2>c, <3>1
      <4>. QED
        BY <2>d, <3>1, <4>1, <4>2, LockoutSteps
    <3>3. CASE ~req[w].body.unlock
      <4>1. failed' = failed /\ locked' = locked
        BY <2>6, <3>3 DEF UpdateUser
      <4>. QED
        BY <2>b, <2>e, <3>1, <4>1, LockoutStutters
    <3>. QED
      BY <3>2, <3>3
  <2>7. CASE RecordEvent(w) \/ Logout(w) \/ ChangePassword(w) \/ ManageUser(w)
    <3>1. req[w].pc \in {"idle", "log"} /\ locked' = locked /\ failed' = failed
      BY <2>7 DEF RecordEvent, Logout, ChangePassword, ManageUser, Row
    <3>2. req'[w].pc \notin {"lock", "clear"}
      BY <1>1, <2>7, StepOutcome
    <3>. QED
      BY <2>b, <2>e, <3>1, <3>2, LockoutStutters
  <2>. QED
    BY <1>1, <2>1, <2>2, <2>3, <2>4, <2>5, <2>6, <2>7 DEF Step
<1>2. ASSUME NEW u \in Users, Expire(u), UNCHANGED overlapped PROVE L!Next
  <2>1. /\ locked[u] /\ locked' = [locked EXCEPT ![u] = FALSE]
        /\ failed' = failed /\ req' = req /\ ~overlapped
    BY <1>2 DEF Expire
  <2>2. \A v \in Workers : ~(req[v].pc = "lock" /\ req[v].user = u)
    BY <2>1 DEF Alone
  <2>3. ~LockedOrDue(u)'
    BY <2>1, <2>2 DEF LockedOrDue, TypeOK
  <2>4. \A x \in Users \ {u} : LockedOrDue(x)' <=> LockedOrDue(x)
    BY <2>1 DEF LockedOrDue, TypeOK
  <2>5. Due' = [Due EXCEPT ![u] = FALSE]
    BY <2>3, <2>4, DueBecomes
  <2>6. LetIn' = LetIn
    BY <2>1 DEF LetIn
  <2>. QED
    BY <2>1, <2>5, <2>6, LockoutSteps
<1>. QED
  BY <1>1, <1>2 DEF Next

LEMMA InitLockout == Init => L!Init
<1>. SUFFICES ASSUME Init PROVE L!Init
  OBVIOUS
<1>1. \A w \in Workers : req[w].pc = "idle"
  BY DEF Init, Idle, Request
<1>2. \A u \in Users : LockedOrDue(u) = FALSE
  BY <1>1 DEF Init, LockedOrDue
<1>. QED
  BY <1>1, <1>2 DEF Init, L!Init

LEMMA NextLockout == TypeOK /\ Alone /\ [Next]_vars => [~overlapped' => L!Next]_L!vars
<1>1. CASE UNCHANGED vars
  <2>1. UNCHANGED L!vars
    BY <1>1, LockoutStutters DEF vars, Due, LetIn, LockedOrDue
  <2>. QED
    BY <2>1
<1>. QED
  BY <1>1, LockoutStep

(* Served one at a time, requests make counter and lock a Lockout: the     *)
(* lock comes with the MaxFailed-th consecutive failure and not before,    *)
(* nobody is let in past it, and only time, a colleague's unlock or a new  *)
(* password takes it away.                                                 *)
THEOREM ImplementsLockoutAlways == Spec => ImplementsLockout
  BY InitLockout, NextLockout, InitAlone, NextAlone, TypeCorrect, PTL DEF Spec, ImplementsLockout
=============================================================================
