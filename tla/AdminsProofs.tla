---------------------------- MODULE AdminsProofs ----------------------------
(***************************************************************************)
(* Proofs about Admins for every set of users and of request threads.      *)
(***************************************************************************)
EXTENDS Admins, TLAPS, FiniteSetTheorems

(* As long as no two demotions overlapped: a request that passed           *)
(* require_admin finds an admin, a demotion that is about to write leaves  *)
(* one, and so does a completed init-auth.                                 *)
Protected ==
    ~overlapped =>
        /\ \A w \in Workers : req[w].pc # "idle" => admins # {}
        /\ \A w \in Workers : req[w].pc = "write" /\ ~req[w].flag
                                => admins \ {req[w].target} # {}
        /\ cli.pc = "done" => admins # {}

Seeded == cli.pc \in {"count", "pick", "flag"} => rows # {}

IInv == TypeOK /\ Seeded /\ Protected

\* More than one admin: another one is left when any is taken away.
LEMMA AnotherAdmin ==
    ASSUME NEW S, IsFiniteSet(S), ~TooFew(Cardinality(S)), NEW x
    PROVE  S \ {x} # {}
<1>1. Cardinality(S) \in Nat
  BY FS_CardinalityType
<1>2. CASE x \in S
  <2>1. Cardinality(S \ {x}) = Cardinality(S) - 1
    BY <1>2, FS_RemoveElement
  <2>2. Cardinality(S \ {x}) # 0
    BY <1>1, <2>1 DEF TooFew
  <2>. QED
    BY <2>2, FS_EmptySet
<1>3. CASE x \notin S
  <2>1. S # {}
    BY <1>1, FS_EmptySet DEF TooFew
  <2>. QED
    BY <1>3, <2>1
<1>. QED
  BY <1>2, <1>3

LEMMA InitTypeOK == Init => TypeOK
<1>. SUFFICES ASSUME Init PROVE TypeOK
  OBVIOUS
<1>. USE DEF Init
<1>1. Idle \in [pc : Steps, target : Ids, flag : BOOLEAN]
  BY DEF Idle, Steps, Ids
<1>2. req \in [Workers -> [pc : Steps, target : Ids, flag : BOOLEAN]]
  BY <1>1
<1>3. \A w \in Workers : req[w].pc = "idle"
  BY DEF Idle
<1>4. cli \in [pc : CliSteps, id : Ids]
  BY DEF CliSteps, Ids
<1>. QED
  BY <1>2, <1>3, <1>4 DEF TypeOK

\* Every action keeps the types.
LEMMA NextTypeOK == TypeOK /\ [Next]_vars => TypeOK'
<1>. SUFFICES ASSUME TypeOK, [Next]_vars PROVE TypeOK'
  OBVIOUS
<1>. USE DEF TypeOK
<1>1. CASE CreateUser
  BY <1>1 DEF CreateUser, NewUser
<1>2. ASSUME NEW w \in Workers, Request(w) PROVE TypeOK'
  <2>1. CASE RequireAdmin(w)
    BY <2>1 DEF RequireAdmin, Steps, Ids
  <2>2. CASE GetTarget(w)
    BY <2>2 DEF GetTarget, Continue, Reply, AfterTarget, Idle, Steps, Ids
  <2>3. CASE CountAdmins(w)
    BY <2>3 DEF CountAdmins, Continue, Reply, Idle, Steps, Ids
  <2>4. CASE SetAdmin(w)
    BY <2>4 DEF SetAdmin, Reply, Idle, Steps, Ids
  <2>. QED
    BY <1>2, <2>1, <2>2, <2>3, <2>4 DEF Request
<1>3. CASE InitAuthStart
  BY <1>3 DEF InitAuthStart, CliSteps, Ids
<1>4. CASE InitAuthStep
  <2>1. CASE InitAuthLookup
    BY <2>1 DEF InitAuthLookup, CliSteps
  <2>2. CASE InitAuthCreate
    BY <2>2 DEF InitAuthCreate, NewUser, CliSteps
  <2>3. CASE InitAuthCount
    BY <2>3 DEF InitAuthCount, CliSteps
  <2>4. CASE InitAuthPick
    BY <2>4 DEF InitAuthPick, IsLowest, CliSteps, Ids
  <2>5. CASE InitAuthFlag
    BY <2>5 DEF InitAuthFlag, CliSteps, Ids
  <2>. QED
    BY <1>4, <2>1, <2>2, <2>3, <2>4, <2>5 DEF InitAuthStep
<1>5. CASE InitAuthCrash
  BY <1>5 DEF InitAuthCrash, CliSteps, Ids
<1>6. CASE UNCHANGED vars
  BY <1>6 DEF vars
<1>. QED
  BY <1>1, <1>2, <1>3, <1>4, <1>5, <1>6 DEF Next

(* The tables, requests and the command always have the shape the code     *)
(* gives them; in particular a flag is only ever written to a row that     *)
(* exists.                                                                 *)
THEOREM TypeCorrect == Spec => []TypeOK
  BY InitTypeOK, NextTypeOK, PTL DEF Spec

LEMMA NextSeeded == TypeOK /\ Seeded /\ [Next]_vars => Seeded'
<1>. SUFFICES ASSUME TypeOK, Seeded, [Next]_vars PROVE Seeded'
  OBVIOUS
<1>. USE DEF TypeOK, Seeded
<1>1. CASE CreateUser
  BY <1>1 DEF CreateUser
<1>2. ASSUME NEW w \in Workers, Request(w) PROVE Seeded'
  BY <1>2 DEF Request, RequireAdmin, GetTarget, CountAdmins, SetAdmin
<1>3. CASE InitAuthStart \/ InitAuthCrash
  BY <1>3 DEF InitAuthStart, InitAuthCrash
<1>4. CASE InitAuthStep
  BY <1>4 DEF InitAuthStep, InitAuthLookup, InitAuthCreate, InitAuthCount,
              InitAuthPick, InitAuthFlag
<1>5. CASE UNCHANGED vars
  BY <1>5 DEF vars
<1>. QED
  BY <1>1, <1>2, <1>3, <1>4, <1>5 DEF Next

\* No action breaks the protection without an overlap.
LEMMA NextProtected == IInv /\ [Next]_vars => Protected'
<1>. SUFFICES ASSUME IInv, [Next]_vars PROVE Protected'
  OBVIOUS
<1>. USE DEF IInv, TypeOK
<1>1. CASE CreateUser
  BY <1>1 DEF CreateUser, Protected
<1>2. ASSUME NEW w \in Workers, Request(w) PROVE Protected'
  <2>1. CASE RequireAdmin(w)
    BY <2>1 DEF RequireAdmin, Protected
  <2>2. CASE GetTarget(w)
    \* "write" follows at once only for a promotion, or for a target that
    \* is not an admin: taking it away changes nothing.
    <3>1. /\ \A v \in Workers \ {w} : req'[v] = req[v]
          /\ admins' = admins /\ cli' = cli /\ overlapped' = overlapped
      BY <2>2 DEF GetTarget, Continue, Reply
    <3>2. req'[w].pc # "idle" => req[w].pc # "idle"
      BY <2>2 DEF GetTarget
    <3>3. req'[w].pc = "write" /\ ~req'[w].flag => req'[w].target \notin admins
      BY <2>2 DEF GetTarget, Continue, Reply, AfterTarget, Idle
    <3>. QED
      BY <3>1, <3>2, <3>3 DEF Protected
  <2>3. CASE CountAdmins(w)
    <3>1. /\ \A v \in Workers \ {w} : req'[v] = req[v]
          /\ admins' = admins /\ cli' = cli /\ overlapped' = overlapped
          /\ req[w].pc = "count"
      BY <2>3 DEF CountAdmins, Continue, Reply
    <3>2. req'[w].pc = "write" => ~TooFew(Cardinality(admins))
      BY <2>3 DEF CountAdmins, Continue, Reply, Idle
    <3>3. IsFiniteSet(admins)
      BY UsersAssumption, FS_Subset
    <3>4. req'[w].pc = "write" => admins \ {req'[w].target} # {}
      BY <3>2, <3>3, AnotherAdmin
    <3>. QED
      BY <3>1, <3>4 DEF Protected
  <2>4. CASE SetAdmin(w)
    <3>. SUFFICES ASSUME ~overlapped' PROVE Protected'
      BY DEF Protected
    <3>. DEFINE t == req[w].target
    <3>1. /\ req[w].pc = "write" /\ ~overlapped /\ cli' = cli
          /\ req'[w] = Idle
          /\ \A v \in Workers \ {w} : req'[v] = req[v]
      BY <2>4 DEF SetAdmin, Reply
    <3>2. CASE req[w].flag
      BY <2>4, <3>1, <3>2 DEF SetAdmin, Protected, Idle
    <3>3. CASE ~req[w].flag
      <4>1. admins' = admins \ {t} /\ admins' # {}
        BY <2>4, <3>1, <3>3 DEF SetAdmin, Protected
      <4>2. \A v \in Workers \ {w} :
               req[v].pc = "write" /\ ~req[v].flag => t \notin admins \/ req[v].target = t
        BY <2>4, <3>3 DEF SetAdmin, Demoting
      <4>3. \A v \in Workers \ {w} :
               req[v].pc = "write" /\ ~req[v].flag => admins' \ {req[v].target} # {}
        BY <3>1, <4>1, <4>2 DEF Protected
      <4>. QED
        BY <3>1, <4>1, <4>3 DEF Protected, Idle
    <3>. QED
      BY <3>2, <3>3
  <2>. QED
    BY <1>2, <2>1, <2>2, <2>3, <2>4 DEF Request
<1>3. CASE InitAuthStart \/ InitAuthCrash
  BY <1>3 DEF InitAuthStart, InitAuthCrash, Protected
<1>4. CASE InitAuthStep
  <2>1. CASE InitAuthLookup \/ InitAuthCreate
    BY <2>1 DEF InitAuthLookup, InitAuthCreate, Protected
  <2>2. CASE InitAuthCount
    <3>1. cli'.pc = "done" => Cardinality(admins) # 0
      BY <2>2 DEF InitAuthCount, NoAdmins
    <3>2. cli'.pc = "done" => admins # {}
      BY <3>1, FS_EmptySet
    <3>. QED
      BY <2>2, <3>2 DEF InitAuthCount, Protected
  <2>3. CASE InitAuthPick
    <3>1. cli'.pc # "done"
      BY <2>3 DEF InitAuthPick, Seeded
    <3>. QED
      BY <2>3, <3>1 DEF InitAuthPick, Protected
  <2>4. CASE InitAuthFlag
    BY <2>4 DEF InitAuthFlag, Protected
  <2>. QED
    BY <1>4, <2>1, <2>2, <2>3, <2>4 DEF InitAuthStep
<1>5. CASE UNCHANGED vars
  BY <1>5 DEF vars, Protected
<1>. QED
  BY <1>1, <1>2, <1>3, <1>4, <1>5 DEF Next

LEMMA Inductive == Spec => []IInv
<1>1. Init => IInv
  BY InitTypeOK DEF IInv, Init, Seeded, Protected, Idle
<1>2. IInv /\ [Next]_vars => IInv'
  BY NextTypeOK, NextSeeded, NextProtected DEF IInv
<1>. QED
  BY <1>1, <1>2, PTL DEF Spec

(* After a completed init-auth the installation keeps an admin unless two  *)
(* demotions overlap.                                                      *)
THEOREM InitAuthCorrect == Spec => []InitAuthLeavesAnAdmin
<1>1. IInv => InitAuthLeavesAnAdmin
  BY DEF IInv, Protected, InitAuthLeavesAnAdmin
<1>. QED
  BY <1>1, Inductive, PTL

(* Until two demotions overlap, the code implements AdminSet, beside an    *)
(* init-auth that may crash and be run again at any time.                  *)
LEMMA AdminSetStep == IInv /\ ~overlapped /\ [Next]_vars => [A!Next]_admins
<1>. SUFFICES ASSUME IInv, ~overlapped, [Next]_vars PROVE [A!Next]_admins
  OBVIOUS
<1>1. ASSUME NEW w \in Workers, SetAdmin(w) PROVE [A!Next]_admins
  <2>1. req[w].pc = "write" /\ req[w].target \in Users
    BY <1>1 DEF SetAdmin, IInv, TypeOK
  <2>2. CASE req[w].flag
    BY <1>1, <2>1, <2>2 DEF SetAdmin, A!Next, A!Promote
  <2>3. CASE ~req[w].flag
    BY <1>1, <2>1, <2>3 DEF SetAdmin, IInv, Protected, A!Next, A!Demote
  <2>. QED
    BY <2>2, <2>3
<1>2. CASE InitAuthFlag
  BY <1>2 DEF InitAuthFlag, IInv, TypeOK, A!Next, A!Promote
<1>3. CASE UNCHANGED admins
  BY <1>3
<1>. QED
  BY <1>1, <1>2, <1>3
     DEF Next, vars, CreateUser, Request, RequireAdmin, GetTarget, CountAdmins,
         InitAuthStart, InitAuthStep, InitAuthLookup, InitAuthCreate,
         InitAuthCount, InitAuthPick, InitAuthCrash

THEOREM AdminSetImplemented == Spec => ImplementsAdminSet
<1>1. Init => A!Init
  BY DEF Init, A!Init
<1>2. IInv /\ [Next]_vars => [~overlapped => A!Next]_admins
  BY AdminSetStep
<1>. QED
  BY <1>1, <1>2, Inductive, PTL DEF Spec, ImplementsAdminSet
=============================================================================
