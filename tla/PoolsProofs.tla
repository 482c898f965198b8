---------------------------- MODULE PoolsProofs -----------------------------
(***************************************************************************)
(* Proofs about Pools for any number of threads, keys and pools and every  *)
(* cap: the registries stay consistent without a lock.                     *)
(***************************************************************************)
EXTENDS Pools, Sequences, TLAPS, FiniteSetTheorems

\* w has created a pool that is in no registry yet; w has taken a pool out
\* of the cache and is getting rid of it.
Building(w) == req[w].pc \in {"register", "insert"}
Evicting(w) == req[w].pc \in {"close", "unlist", "abort"}

\* Every pool has at most one place: a key, the thread that builds it, or
\* the thread that evicts it.
OneKeyEach == \A j, k \in Keys : poolOf[j] = poolOf[k] /\ poolOf[j] # None => j = k
BuildingOwn ==
    \A w \in Workers : Building(w) =>
        /\ req[w].pool \in open
        /\ \A k \in Keys : poolOf[k] # req[w].pool
        /\ \A v \in Workers \ {w} : Building(v) => req[v].pool # req[w].pool
EvictingOwn ==
    \A w \in Workers : Evicting(w) =>
        /\ req[w].pc = "close" <=> req[w].victim \in open
        /\ \A k \in Keys : poolOf[k] # req[w].victim
        /\ \A v \in Workers : Building(v) => req[v].pool # req[w].victim
        /\ \A v \in Workers \ {w} : Evicting(v) => req[v].victim # req[w].victim
StoppedIsIdle == ~up => \A w \in Workers : req[w].pc = "idle"

Ownership == OneKeyEach /\ BuildingOwn /\ EvictingOwn /\ StoppedIsIdle

Tracking ==
    CachedPoolsAreOpen /\ OpenPoolsAreListed /\ NoDeadPoolListed /\ ShutdownClosesEverything

IInv == TypeOK /\ Ownership /\ Tracking /\ CacheBounded

-----------------------------------------------------------------------------
LEMMA InitIInv == Init => IInv
<1>. SUFFICES ASSUME Init PROVE IInv
  OBVIOUS
<1>. USE PoolsAssumption DEF Init
<1>1. Idle \in [pc : Steps, key : Keys \cup {None}, pool : PoolIds \cup {None},
                victim : PoolIds \cup {None}]
  BY DEF Idle, Steps
<1>2. \A w \in Workers : req[w] = Idle
  OBVIOUS
<1>3. TypeOK
  BY <1>1 DEF TypeOK, Idle
<1>4. Ownership
  BY <1>2 DEF Ownership, OneKeyEach, BuildingOwn, EvictingOwn, StoppedIsIdle,
              Building, Evicting, Idle
<1>5. Tracking
  BY DEF Tracking, CachedPoolsAreOpen, OpenPoolsAreListed, NoDeadPoolListed,
         ShutdownClosesEverything
<1>6. CacheBounded
  <2>1. cached = {} /\ {w \in Workers : req[w].pc \in {"check", "pop"}} = {}
    BY DEF cached, Idle, Keys
  <2>. QED
    BY <2>1, FS_EmptySet DEF CacheBounded
<1>. QED
  BY <1>3, <1>4, <1>5, <1>6 DEF IInv

LEMMA NextTypeOK == TypeOK /\ StoppedIsIdle /\ [Next]_vars => TypeOK'
<1>. SUFFICES ASSUME TypeOK, StoppedIsIdle, [Next]_vars PROVE TypeOK'
  OBVIOUS
<1>. USE PoolsAssumption DEF TypeOK, Keys
<1>1. CASE Startup
  BY <1>1 DEF Startup
<1>2. CASE CloseAll
  BY <1>2 DEF CloseAll
<1>3. ASSUME NEW w \in Workers, Get(w) \/ Progress(w) PROVE TypeOK'
  <2>1. CASE Get(w)
    BY <2>1 DEF Get, Steps
  <2>2. CASE Touch(w)
    BY <2>2 DEF Touch, Goto, Return, Idle, Steps, AtEnd, Without, cached
  <2>3. CASE MakePool(w)
    <3>1. PICK p \in PoolIds :
             /\ open' = open \cup {p}
             /\ req' = [req EXCEPT ![w].pc = "register", ![w].pool = p]
      BY <2>3 DEF MakePool
    <3>2. /\ req'[w] = [req[w] EXCEPT !.pc = "register", !.pool = p]
          /\ \A v \in Workers \ {w} : req'[v] = req[v]
          /\ DOMAIN req' = Workers
      BY <3>1
    <3>r. req[w] \in [pc : Steps, key : Keys \cup {None}, pool : PoolIds \cup {None},
                       victim : PoolIds \cup {None}]
      OBVIOUS
    <3>3. /\ req'[w].pc = "register" /\ req'[w].pool = p
          /\ req'[w].key = req[w].key /\ req'[w].victim = req[w].victim
      BY <3>2, <3>r
    <3>m. req[w].pc = "make"
      BY <2>3 DEF MakePool
    <3>4. req' \in [Workers -> [pc : Steps, key : Keys \cup {None},
                                pool : PoolIds \cup {None},
                                victim : PoolIds \cup {None}]]
      <4>1. req'[w] \in [pc : Steps, key : Keys \cup {None},
                         pool : PoolIds \cup {None}, victim : PoolIds \cup {None}]
        BY <3>2, <3>r DEF Steps
      <4>. QED
        BY <3>1, <3>2, <4>1
    <3>5. \A v \in Workers :
            /\ req'[v].pc # "idle" => req'[v].key \in Keys
            /\ req'[v].pc \in {"touch", "check", "pop", "close", "unlist", "abort"}
                  => req'[v].key \in TargetKeys
            /\ req'[v].pc \notin {"idle", "make"} => req'[v].pool \in PoolIds
            /\ req'[v].pc \in {"close", "unlist", "abort"} <=> req'[v].victim \in PoolIds
      BY <3>2, <3>3, <3>m
    <3>. QED
      BY <2>3, <3>1, <3>4, <3>5 DEF MakePool
  <2>4. CASE Register(w)
    BY <2>4 DEF Register, Listing, Goto, Steps
  <2>5. CASE Insert(w)
    BY <2>5 DEF Insert, Goto, Steps, AtEnd, Without, cached
  <2>6. CASE CheckLen(w)
    BY <2>6 DEF CheckLen, Goto, Steps
  <2>7. CASE PopOldest(w)
    BY <2>7 DEF PopOldest, Return, Idle, Steps, Without, cached
  <2>8. CASE CloseVictim(w)
    BY <2>8 DEF CloseVictim, Closing, Goto, Steps
  <2>9. CASE Unlist(w)
    BY <2>9 DEF Unlist, Unlisting, Return, Idle, Steps
  <2>10. CASE Connect(w)
    BY <2>10 DEF Connect, Goto, Return, Idle, Steps
  <2>11. CASE Release(w)
    BY <2>11 DEF Release, Return, Idle, Steps
  <2>. QED
    BY <1>3, <2>1, <2>2, <2>3, <2>4, <2>5, <2>6, <2>7, <2>8, <2>9, <2>10, <2>11
       DEF Progress
<1>4. CASE UNCHANGED vars
  BY <1>4 DEF vars
<1>. QED
  BY <1>1, <1>2, <1>3, <1>4 DEF Next

\* No step puts a pool in a second place.
LEMMA NextOwnership == TypeOK /\ Ownership /\ Tracking /\ [Next]_vars => Ownership'
<1>. SUFFICES ASSUME TypeOK, Ownership, Tracking, [Next]_vars PROVE Ownership'
  OBVIOUS
<1>. USE PoolsAssumption
     DEF TypeOK, Ownership, OneKeyEach, BuildingOwn, EvictingOwn, StoppedIsIdle,
         Building, Evicting
<1>1. CASE Startup
  BY <1>1 DEF Startup, Fresh, Keys
<1>2. CASE CloseAll
  BY <1>2 DEF CloseAll
<1>3. ASSUME NEW w \in Workers, Get(w) \/ Progress(w) PROVE Ownership'
  <2>1. CASE Get(w)
    BY <2>1 DEF Get
  <2>2. CASE Touch(w)
    BY <2>2 DEF Touch, Goto, Return, Idle
  <2>3. CASE MakePool(w)
    BY <2>3 DEF MakePool, Fresh
  <2>4. CASE Register(w)
    BY <2>4 DEF Register, Goto
  <2>5. CASE Insert(w)
    BY <2>5 DEF Insert, Goto
  <2>6. CASE CheckLen(w)
    BY <2>6 DEF CheckLen, Goto
  <2>7. CASE PopOldest(w)
    BY <2>7 DEF PopOldest, Return, Idle, cached, Tracking, CachedPoolsAreOpen, Keys
  <2>8. CASE CloseVictim(w)
    BY <2>8 DEF CloseVictim, Closing, Goto
  <2>9. CASE Unlist(w)
    BY <2>9 DEF Unlist, Return, Idle
  <2>10. CASE Connect(w)
    BY <2>10 DEF Connect, Goto, Return, Idle
  <2>11. CASE Release(w)
    BY <2>11 DEF Release, Return, Idle
  <2>. QED
    BY <1>3, <2>1, <2>2, <2>3, <2>4, <2>5, <2>6, <2>7, <2>8, <2>9, <2>10, <2>11
       DEF Progress
<1>4. CASE UNCHANGED vars
  BY <1>4 DEF vars
<1>. QED
  BY <1>1, <1>2, <1>3, <1>4 DEF Next

\* No step loses a pool that is open or keeps one that is not.
LEMMA NextTracking == TypeOK /\ Ownership /\ Tracking /\ [Next]_vars => Tracking'
<1>. SUFFICES ASSUME TypeOK, Ownership, Tracking, [Next]_vars PROVE Tracking'
  OBVIOUS
<1>. USE PoolsAssumption
     DEF TypeOK, Ownership, BuildingOwn, EvictingOwn, StoppedIsIdle, Building,
         Evicting, Tracking, CachedPoolsAreOpen, OpenPoolsAreListed,
         NoDeadPoolListed, ShutdownClosesEverything
<1>1. CASE Startup
  BY <1>1 DEF Startup, Keys
<1>2. CASE CloseAll
  BY <1>2 DEF CloseAll
<1>3. ASSUME NEW w \in Workers, Get(w) \/ Progress(w) PROVE Tracking'
  <2>1. CASE Get(w)
    BY <2>1 DEF Get
  <2>2. CASE Touch(w)
    BY <2>2 DEF Touch, Goto, Return, Idle
  <2>3. CASE MakePool(w)
    BY <2>3 DEF MakePool
  <2>4. CASE Register(w)
    BY <2>4 DEF Register, Listing, Goto
  <2>5. CASE Insert(w)
    BY <2>5 DEF Insert, Goto
  <2>6. CASE CheckLen(w)
    BY <2>6 DEF CheckLen, Goto
  <2>7. CASE PopOldest(w)
    BY <2>7 DEF PopOldest, Return, Idle, cached, Keys
  <2>8. CASE CloseVictim(w)
    BY <2>8 DEF CloseVictim, Closing, Goto
  <2>9. CASE Unlist(w)
    BY <2>9 DEF Unlist, Unlisting, Return, Idle
  <2>10. CASE Connect(w)
    BY <2>10 DEF Connect, Goto, Return, Idle
  <2>11. CASE Release(w)
    BY <2>11 DEF Release, Return, Idle
  <2>. QED
    BY <1>3, <2>1, <2>2, <2>3, <2>4, <2>5, <2>6, <2>7, <2>8, <2>9, <2>10, <2>11
       DEF Progress
<1>4. CASE UNCHANGED vars
  BY <1>4 DEF vars
<1>. QED
  BY <1>1, <1>2, <1>3, <1>4 DEF Next

\* The threads that are past their insert and have yet to take a victim.
Busy == {w \in Workers : req[w].pc \in {"check", "pop"}}

LEMMA CountsAreNumbers ==
    /\ IsFiniteSet(cached) /\ Cardinality(cached) \in Nat
    /\ IsFiniteSet(Busy) /\ Cardinality(Busy) \in Nat
<1>1. cached \subseteq TargetKeys /\ Busy \subseteq Workers
  BY DEF cached, Busy
<1>. QED
  BY <1>1, PoolsAssumption, FS_Subset, FS_CardinalityType

\* An insert adds one key and one busy thread, an eviction removes one of each.
LEMMA NextCacheBounded == TypeOK /\ CacheBounded /\ [Next]_vars => CacheBounded'
<1>. SUFFICES ASSUME TypeOK, CacheBounded, [Next]_vars PROVE CacheBounded'
  OBVIOUS
<1>. USE PoolsAssumption
<1>0. /\ Cap \in Nat
      /\ Cardinality(cached) <= Cap + Cardinality(Busy)
      /\ CacheBounded' <=> Cardinality(cached') <= Cap + Cardinality(Busy')
  BY DEF CacheBounded, Busy
<1>n. /\ IsFiniteSet(cached) /\ Cardinality(cached) \in Nat
      /\ IsFiniteSet(Busy) /\ Cardinality(Busy) \in Nat
      /\ IsFiniteSet(cached') /\ Cardinality(cached') \in Nat
      /\ IsFiniteSet(Busy') /\ Cardinality(Busy') \in Nat
  <2>1. cached' \subseteq TargetKeys /\ Busy' \subseteq Workers
    BY DEF cached, Busy
  <2>. QED
    BY <2>1, CountsAreNumbers, FS_Subset, FS_CardinalityType
<1>same. ASSUME cached' = cached, Busy' = Busy PROVE CacheBounded'
  BY <1>0, <1>same
<1>low. ASSUME Cardinality(cached') <= Cap PROVE CacheBounded'
  BY <1>0, <1>n, <1>low
<1>more. ASSUME cached' = cached, NEW w \in Workers, w \notin Busy, Busy' = Busy \cup {w}
         PROVE CacheBounded'
  <2>1. Cardinality(Busy') = Cardinality(Busy) + 1
    BY <1>n, <1>more, FS_AddElement
  <2>. QED
    BY <1>0, <1>n, <1>more, <2>1
<1>1. CASE Startup
  <2>1. cached' = cached
    BY <1>1 DEF Startup, cached, TypeOK, Keys
  <2>. QED
    BY <1>1, <2>1, <1>same DEF Startup, Busy
<1>2. CASE CloseAll
  <2>1. cached' = {}
    BY <1>2 DEF CloseAll, cached, Keys
  <2>. QED
    BY <1>0, <2>1, <1>low, FS_EmptySet
<1>3. ASSUME NEW w \in Workers, Get(w) \/ Progress(w) PROVE CacheBounded'
  <2>1. CASE Get(w) \/ Touch(w) \/ MakePool(w) \/ Register(w) \/ CloseVictim(w)
             \/ Connect(w) \/ Release(w)
    <3>1. cached' = cached
      BY <2>1 DEF Get, Touch, MakePool, Register, CloseVictim, Closing, Connect, Release, cached
    <3>2. Busy' = Busy
      BY <2>1 DEF Get, Touch, MakePool, Register, CloseVictim, Closing, Connect, Release,
                  Goto, Return, Idle, Busy, TypeOK
    <3>. QED
      BY <3>1, <3>2, <1>same
  <2>2. CASE Insert(w)
    <3>. DEFINE k == req[w].key
    <3>1. w \notin Busy /\ k \in Keys /\ req[w].pool # None
      BY <2>2 DEF Insert, Busy, TypeOK
    <3>2. CASE k \in TargetKeys
      <4>1. Busy' = Busy \cup {w}
        BY <2>2, <3>2 DEF Insert, Goto, Busy, TypeOK
      <4>2. cached' = cached \cup {k}
        BY <2>2, <3>1, <3>2 DEF Insert, cached, TypeOK
      <4>3. Cardinality(Busy') = Cardinality(Busy) + 1
        BY <1>n, <3>1, <4>1, FS_AddElement
      <4>4. Cardinality(cached') <= Cardinality(cached) + 1
        <5>1. CASE k \in cached
          BY <1>n, <4>2, <5>1
        <5>2. CASE k \notin cached
          BY <1>n, <4>2, <5>2, FS_AddElement
        <5>. QED
          BY <5>1, <5>2
      <4>. QED
        BY <1>0, <1>n, <4>3, <4>4
    <3>3. CASE k \notin TargetKeys
      <4>1. Busy' = Busy
        BY <2>2, <3>3 DEF Insert, Goto, Busy, TypeOK
      <4>2. cached' = cached
        BY <2>2, <3>3 DEF Insert, cached, TypeOK
      <4>. QED
        BY <4>1, <4>2, <1>same
    <3>. QED
      BY <3>2, <3>3
  <2>3. CASE CheckLen(w)
    <3>1. cached' = cached
      BY <2>3 DEF CheckLen, cached
    <3>2. CASE Cardinality(cached) > Cap
      <4>1. Busy' = Busy
        BY <2>3, <3>2 DEF CheckLen, Goto, Exceeds, Busy, TypeOK
      <4>. QED
        BY <3>1, <4>1, <1>same
    <3>. QED
      BY <1>0, <1>n, <3>1, <3>2, <1>low
  <2>4. CASE PopOldest(w)
    <3>1. CASE cached = {}
      <4>1. cached' = {}
        BY <2>4, <3>1 DEF PopOldest, cached
      <4>. QED
        BY <1>0, <4>1, <1>low, FS_EmptySet
    <3>2. CASE cached # {}
      <4>1. PICK k \in cached : /\ poolOf' = [poolOf EXCEPT ![k] = None]
                                /\ req' = [req EXCEPT ![w].pc = "close", ![w].victim = poolOf[k]]
        BY <2>4, <3>2 DEF PopOldest
      <4>2. cached' = cached \ {k}
        BY <4>1 DEF cached, TypeOK, Keys
      <4>3. w \in Busy /\ Busy' = Busy \ {w}
        <5>1. req[w].pc = "pop" /\ \A v \in Workers \ {w} : req'[v] = req[v]
          BY <2>4, <4>1 DEF PopOldest, TypeOK
        <5>2. req'[w] = [req[w] EXCEPT !.pc = "close", !.victim = poolOf[k]]
          BY <4>1 DEF TypeOK
        <5>3. req'[w].pc = "close"
          BY <5>2 DEF TypeOK
        <5>. QED
          BY <5>1, <5>3 DEF Busy
      <4>4. /\ Cardinality(cached') = Cardinality(cached) - 1
            /\ Cardinality(Busy') = Cardinality(Busy) - 1
        BY <1>n, <4>2, <4>3, FS_RemoveElement
      <4>. QED
        BY <1>0, <1>n, <4>4
    <3>. QED
      BY <3>1, <3>2
  <2>5. CASE Unlist(w)
    <3>1. cached' = cached /\ w \notin Busy
      BY <2>5 DEF Unlist, cached, Busy
    <3>2. CASE req[w].pc = "abort"
      <4>1. Busy' = Busy
        BY <2>5, <3>2 DEF Unlist, Return, Idle, Busy, TypeOK
      <4>. QED
        BY <3>1, <4>1, <1>same
    <3>3. CASE req[w].pc # "abort"
      <4>1. req'[w].pc = "check" /\ \A v \in Workers \ {w} : req'[v] = req[v]
        BY <2>5, <3>3 DEF Unlist, TypeOK
      <4>2. Busy' = Busy \cup {w}
        BY <4>1 DEF Busy
      <4>. QED
        BY <3>1, <4>2, <1>more
    <3>. QED
      BY <3>2, <3>3
  <2>. QED
    BY <1>3, <2>1, <2>2, <2>3, <2>4, <2>5 DEF Progress
<1>4. CASE UNCHANGED vars
  BY <1>4, <1>same DEF vars, cached, Busy
<1>. QED
  BY <1>1, <1>2, <1>3, <1>4 DEF Next

-----------------------------------------------------------------------------
LEMMA Inductive == Spec => []IInv
<1>1. IInv /\ [Next]_vars => IInv'
  BY NextTypeOK, NextOwnership, NextTracking, NextCacheBounded DEF IInv, Ownership
<1>. QED
  BY <1>1, InitIInv, PTL DEF Spec

(* The variables and the steps of the threads keep their types.            *)
THEOREM TypeCorrect == Spec => []TypeOK
<1>1. IInv => TypeOK
  BY DEF IInv
<1>. QED
  BY <1>1, Inductive, PTL

(* However the threads interleave, no registry holds a closed pool.        *)
THEOREM NoClosedPoolCached == Spec => []CachedPoolsAreOpen
<1>1. IInv => CachedPoolsAreOpen
  BY DEF IInv, Tracking
<1>. QED
  BY <1>1, Inductive, PTL

(* _all_pools knows every open pool, also those that concurrent misses     *)
(* left in no registry, so that a shutdown finds them.                     *)
THEOREM NoPoolLost == Spec => []OpenPoolsAreListed
<1>1. IInv => OpenPoolsAreListed
  BY DEF IInv, Tracking
<1>. QED
  BY <1>1, Inductive, PTL

(* _all_pools keeps no closed pool but one whose eviction is under way,    *)
(* also when close() raises.                                               *)
THEOREM NoDeadPoolKept == Spec => []NoDeadPoolListed
<1>1. IInv => NoDeadPoolListed
  BY DEF IInv, Tracking
<1>. QED
  BY <1>1, Inductive, PTL

(* close_all leaves no pool open, whatever requests created and evicted.   *)
THEOREM ShutdownComplete == Spec => []ShutdownClosesEverything
<1>1. IInv => ShutdownClosesEverything
  BY DEF IInv, Tracking
<1>. QED
  BY <1>1, Inductive, PTL

(* The cache is over its cap only by inserts whose eviction is under way.  *)
THEOREM CacheBoundHolds == Spec => []CacheBounded
<1>1. IInv => CacheBounded
  BY DEF IInv
<1>. QED
  BY <1>1, Inductive, PTL
-----------------------------------------------------------------------------
\* Until two requests overlap, there is one at most; the key it builds a pool
\* for has none, and it holds whatever pool is open and in no registry.
Alone ==
    ~overlapped =>
       /\ \A v, w \in Workers : v # w => req[v].pc = "idle" \/ req[w].pc = "idle"
       /\ \A w \in Workers :
             req[w].pc \in {"make", "register", "insert"} => poolOf[req[w].key] = None
       /\ \A p \in open : \/ \E k \in Keys : poolOf[k] = p
                          \/ \E w \in Workers : Building(w) /\ req[w].pool = p
                          \/ \E w \in Workers : req[w].pc = "close" /\ req[w].victim = p

\* A step moves one thread.
LEMMA StepsAlone ==
    ASSUME TypeOK, NEW w \in Workers, Get(w) \/ Progress(w)
    PROVE  \A v \in Workers \ {w} : req'[v] = req[v]
<1>1. CASE Get(w)
  BY <1>1 DEF Get, TypeOK
<1>2. CASE Touch(w)
  BY <1>2 DEF Touch, Goto, Return, TypeOK
<1>3. CASE MakePool(w) \/ Register(w) \/ Insert(w) \/ CheckLen(w)
  BY <1>3 DEF MakePool, Register, Insert, CheckLen, Goto, TypeOK
<1>4. CASE PopOldest(w) \/ CloseVictim(w) \/ Unlist(w)
  BY <1>4 DEF PopOldest, CloseVictim, Unlist, Goto, Return, TypeOK
<1>5. CASE Connect(w) \/ Release(w)
  BY <1>5 DEF Connect, Release, Goto, Return, TypeOK
<1>. QED
  BY <1>1, <1>2, <1>3, <1>4, <1>5 DEF Progress

LEMMA NextAlone == IInv /\ Alone /\ [Next]_vars => Alone'
<1>. SUFFICES ASSUME IInv, Alone, [Next]_vars, ~overlapped' PROVE Alone'
  BY DEF Alone
<1>. USE PoolsAssumption
<1>t. TypeOK /\ Tracking /\ StoppedIsIdle
  BY DEF IInv, Ownership
<1>1. CASE Startup /\ UNCHANGED overlapped
  <2>1. PICK p \in PoolIds : open' = open \cup {p} /\ poolOf' = [poolOf EXCEPT ![Common] = p]
    BY <1>1 DEF Startup
  <2>2. open = {} /\ req' = req /\ \A w \in Workers : req[w].pc = "idle"
    BY <1>1, <1>t DEF Startup, StoppedIsIdle, Tracking, ShutdownClosesEverything
  <2>3. poolOf'[Common] = p /\ Common \in Keys
    BY <2>1, <1>t DEF TypeOK, Keys
  <2>. QED
    BY <2>1, <2>2, <2>3 DEF Alone
<1>2. CASE CloseAll /\ UNCHANGED overlapped
  <2>1. req' = req /\ open' = open \ listed /\ \A w \in Workers : req[w].pc = "idle"
    BY <1>2 DEF CloseAll
  <2>2. open \subseteq listed
    BY <2>1, <1>t DEF Tracking, OpenPoolsAreListed
  <2>. QED
    BY <2>1, <2>2 DEF Alone
<1>3. ASSUME NEW w \in Workers, Get(w) \/ Progress(w), Noted PROVE Alone'
  <2>1. /\ ~overlapped
        /\ \A v, x \in Workers : v # x => req'[v].pc = "idle" \/ req'[x].pc = "idle"
    BY <1>3 DEF Noted
  <2>2. \A v \in Workers \ {w} : req'[v] = req[v]
    BY <1>3, <1>t, StepsAlone
  <2>3. \A v \in Workers \ {w} : req[v].pc = "idle" /\ req'[v].pc = "idle"
    <3>1. CASE Get(w)
      <4>1. req'[w].pc # "idle"
        BY <3>1, <1>t DEF Get, TypeOK
      <4>. QED
        BY <2>1, <2>2, <4>1
    <3>2. CASE Progress(w)
      <4>1. req[w].pc # "idle"
        BY <3>2 DEF Progress, Touch, MakePool, Register, Insert, CheckLen, PopOldest,
                    CloseVictim, Unlist, Connect, Release
      <4>. QED
        BY <2>1, <2>2, <4>1 DEF Alone
    <3>. QED
      BY <1>3, <3>1, <3>2
  \* What w has built or is about to close is all that can be in no registry.
  <2>4. SUFFICES
          /\ req'[w].pc \in {"make", "register", "insert"} => poolOf'[req'[w].key] = None
          /\ \A p \in open' : \/ \E k \in Keys : poolOf'[k] = p
                              \/ req'[w].pc \in {"register", "insert"} /\ req'[w].pool = p
                              \/ req'[w].pc = "close" /\ req'[w].victim = p
    BY <2>1, <2>3 DEF Alone, Building
  <2>5. /\ req[w].pc \in {"make", "register", "insert"} => poolOf[req[w].key] = None
        /\ \A p \in open : \/ \E k \in Keys : poolOf[k] = p
                           \/ req[w].pc \in {"register", "insert"} /\ req[w].pool = p
                           \/ req[w].pc = "close" /\ req[w].victim = p
    BY <2>1, <2>3 DEF Alone, Building
  <2>6. CASE Get(w)
    BY <2>5, <2>6, <1>t DEF Get, TypeOK
  <2>7. CASE Touch(w)
    BY <2>5, <2>7, <1>t DEF Touch, Goto, Return, Idle, TypeOK
  <2>8. CASE MakePool(w)
    BY <2>5, <2>8, <1>t DEF MakePool, TypeOK
  <2>9. CASE Register(w)
    BY <2>5, <2>9, <1>t DEF Register, Goto, TypeOK
  <2>10. CASE Insert(w)
    BY <2>5, <2>10, <1>t DEF Insert, Goto, TypeOK
  <2>11. CASE CheckLen(w)
    BY <2>5, <2>11, <1>t DEF CheckLen, Goto, TypeOK
  <2>12. CASE PopOldest(w)
    BY <2>5, <2>12, <1>t DEF PopOldest, Return, Idle, cached, Keys, TypeOK
  <2>13. CASE CloseVictim(w)
    BY <2>5, <2>13, <1>t DEF CloseVictim, Closing, Goto, TypeOK
  <2>14. CASE Unlist(w)
    BY <2>5, <2>14, <1>t DEF Unlist, Return, Idle, TypeOK
  <2>15. CASE Connect(w) \/ Release(w)
    BY <2>5, <2>15, <1>t DEF Connect, Release, Goto, Return, Idle, TypeOK
  <2>. QED
    BY <1>3, <2>6, <2>7, <2>8, <2>9, <2>10, <2>11, <2>12, <2>13, <2>14, <2>15 DEF Progress
<1>4. CASE UNCHANGED vars
  BY <1>4 DEF vars, Alone, Building
<1>. QED
  BY <1>1, <1>2, <1>3, <1>4 DEF Next, Progress

(* The cap bounds memory as long as requests are served one at a time:     *)
(* between requests every open pool is in a registry.                      *)
THEOREM NoPoolOrphaned == Spec => []OnlyCachedPoolsStayOpen
<1>1. Init => Alone
  BY DEF Init, Alone, Idle
<1>2. Alone => OnlyCachedPoolsStayOpen
  BY DEF Alone, Building, OnlyCachedPoolsStayOpen
<1>. QED
  BY <1>1, <1>2, NextAlone, Inductive, PTL DEF Spec
-----------------------------------------------------------------------------
(* The order of the OrderedDict as a sequence.  s lists the keys of S, each *)
(* once, in the order R.                                                    *)
Sorted(s, S, R) ==
    /\ \A i \in 1 .. Len(s) : s[i] \in S
    /\ \A k \in S : \E i \in 1 .. Len(s) : s[i] = k
    /\ \A i, j \in 1 .. Len(s) : <<s[i], s[j]>> \in R <=> i < j
    /\ R \subseteq S \X S

Freed(R, k) == {e \in R : e[1] # k /\ e[2] # k}
Last(S, R, k) == Freed(R, k) \cup ((S \ {k}) \X {k})

LEMMA SortedOnce ==
    ASSUME NEW T, NEW s \in Seq(T), NEW S, NEW R, Sorted(s, S, R),
           NEW i \in 1 .. Len(s), NEW j \in 1 .. Len(s), s[i] = s[j]
    PROVE  i = j
<1>1. Len(s) \in Nat
  OBVIOUS
<1>2. /\ <<s[i], s[i]>> \in R <=> i < i
      /\ <<s[i], s[j]>> \in R <=> i < j
      /\ <<s[j], s[i]>> \in R <=> j < i
  BY DEF Sorted
<1>3. ~(i < i)
  BY <1>1
<1>4. ~(i < j) /\ ~(j < i)
  BY <1>2, <1>3
<1>. QED
  BY <1>1, <1>4

\* The place of a key in the list is the number of keys before it, plus one.
LEMMA SortedRank ==
    ASSUME NEW T, NEW s \in Seq(T), NEW S, NEW R, Sorted(s, S, R)
    PROVE  /\ IsFiniteSet(S) /\ Cardinality(S) = Len(s)
           /\ \A i \in 1 .. Len(s) : Cardinality({k \in S : <<k, s[i]>> \in R}) = i - 1
<1>0. Len(s) \in Nat /\ DOMAIN s = 1 .. Len(s) /\ s = [m \in 1 .. Len(s) |-> s[m]]
  OBVIOUS
<1>1. ASSUME NEW n \in 0 .. Len(s), NEW P, P = {s[m] : m \in 1 .. n}
      PROVE  IsFiniteSet(P) /\ Cardinality(P) = n
  <2>1. DEFINE f == [m \in 1 .. n |-> s[m]]
  <2>2. f \in [1 .. n -> P] /\ n \in Int
    BY <1>1
  <2>3. \A a, b \in 1 .. n : f[a] = f[b] => a = b
    BY <1>0, <1>1, SortedOnce
  <2>4. \A p \in P : \E m \in 1 .. n : f[m] = p
    BY <1>1
  <2>5. f \in Bijection(1 .. n, P)
    BY <2>2, <2>3, <2>4 DEF Bijection, Injection, Surjection, IsInjective
  <2>6. IsFiniteSet(1 .. n) /\ Cardinality(1 .. n) = n
    BY <1>1, FS_Interval
  <2>. QED
    BY <2>5, <2>6, FS_Bijection DEF ExistsBijection
<1>2. S = {s[m] : m \in 1 .. Len(s)}
  BY DEF Sorted
<1>3. ASSUME NEW i \in 1 .. Len(s)
      PROVE  {k \in S : <<k, s[i]>> \in R} = {s[m] : m \in 1 .. (i - 1)}
  <2>1. \A m \in 1 .. Len(s) : s[m] \in S /\ (<<s[m], s[i]>> \in R <=> m < i)
    BY DEF Sorted
  <2>2. \A k \in S : \E m \in 1 .. Len(s) : s[m] = k
    BY DEF Sorted
  <2>3. \A m \in 1 .. Len(s) : m < i <=> m \in 1 .. (i - 1)
    BY <1>0
  <2>4. \A m \in 1 .. (i - 1) : m \in 1 .. Len(s)
    BY <1>0
  <2>. QED
    BY <2>1, <2>2, <2>3, <2>4
<1>4. \A i \in 1 .. Len(s) : i - 1 \in 0 .. Len(s)
  BY <1>0
<1>5. IsFiniteSet(S) /\ Cardinality(S) = Len(s)
  BY <1>0, <1>1, <1>2
<1>6. ASSUME NEW i \in 1 .. Len(s)
      PROVE  Cardinality({k \in S : <<k, s[i]>> \in R}) = i - 1
  BY <1>1, <1>3, <1>4
<1>. QED
  BY <1>5, <1>6

LEMMA SortedIsInOrder ==
    ASSUME TypeOK, NEW s \in Seq(TargetKeys), Sorted(s, cached, older)
    PROVE  /\ InOrder = s
           /\ Cardinality(cached) = Len(s)
<1>1. /\ Cardinality(cached) = Len(s)
      /\ \A i \in 1 .. Len(s) : Cardinality({k \in cached : <<k, s[i]>> \in older}) = i - 1
  BY SortedRank
<1>2. ASSUME NEW i \in 1 .. Len(s)
      PROVE  (CHOOSE k \in cached :
                 Cardinality({j \in cached : <<j, k>> \in older}) = i - 1) = s[i]
  <2>1. s[i] \in cached /\ Cardinality({j \in cached : <<j, s[i]>> \in older}) = i - 1
    BY <1>1 DEF Sorted
  <2>2. ASSUME NEW k \in cached, Cardinality({j \in cached : <<j, k>> \in older}) = i - 1
        PROVE  k = s[i]
    <3>1. PICK m \in 1 .. Len(s) : s[m] = k
      BY DEF Sorted
    <3>. QED
      BY <1>1, <2>2, <3>1
  <2>. QED
    BY <2>1, <2>2
<1>3. InOrder = [i \in 1 .. Len(s) |-> s[i]]
  BY <1>1, <1>2 DEF InOrder
<1>. QED
  BY <1>1, <1>3

\* move_to_end, a new key, popitem.
LEMMA SortedMoved ==
    ASSUME NEW T, NEW s \in Seq(T), NEW S, NEW R, Sorted(s, S, R), NEW i \in 1 .. Len(s)
    PROVE  /\ L!MovedToEnd(s, i) \in Seq(T)
           /\ Sorted(L!MovedToEnd(s, i), S, Last(S, R, s[i]))
<1>. DEFINE t == L!MovedToEnd(s, i)
            old(j) == IF j < i THEN j ELSE IF j < Len(s) THEN j + 1 ELSE i
<1>1. Len(s) \in Nat /\ \A j \in 1 .. Len(s) : s[j] \in T
  OBVIOUS
<1>2. t = [j \in 1 .. Len(s) |-> s[old(j)]] /\ \A j \in 1 .. Len(s) : old(j) \in 1 .. Len(s)
  BY <1>1 DEF L!MovedToEnd
<1>3. t \in Seq(T) /\ Len(t) = Len(s) /\ \A j \in 1 .. Len(s) : t[j] = s[old(j)]
  BY <1>1, <1>2
<1>. HIDE DEF t
<1>4. \A j \in 1 .. Len(t) : t[j] \in S
  BY <1>2, <1>3 DEF Sorted
<1>5. ASSUME NEW k \in S PROVE \E j \in 1 .. Len(t) : t[j] = k
  <2>1. PICK m \in 1 .. Len(s) : s[m] = k
    BY DEF Sorted
  <2>2. \E j \in 1 .. Len(s) : old(j) = m
    <3>1. CASE m < i
      BY <3>1
    <3>2. CASE m = i
      <4>1. Len(s) \in 1 .. Len(s) /\ old(Len(s)) = m
        BY <1>1, <3>2
      <4>. QED
        BY <4>1
    <3>3. CASE m > i
      <4>1. m - 1 \in 1 .. Len(s) /\ old(m - 1) = m
        BY <1>1, <3>3
      <4>. QED
        BY <4>1
    <3>. QED
      BY <1>1, <3>1, <3>2, <3>3
  <2>. QED
    BY <1>3, <2>1, <2>2
<1>6. ASSUME NEW a \in 1 .. Len(t), NEW b \in 1 .. Len(t)
      PROVE  <<t[a], t[b]>> \in Last(S, R, s[i]) <=> a < b
  <2>1. /\ t[a] = s[old(a)] /\ t[b] = s[old(b)]
        /\ old(a) \in 1 .. Len(s) /\ old(b) \in 1 .. Len(s)
    BY <1>2, <1>3
  <2>2. /\ t[a] = s[i] <=> old(a) = i
        /\ t[b] = s[i] <=> old(b) = i
    BY <2>1, SortedOnce
  <2>3. /\ old(a) = i <=> a = Len(s)
        /\ old(b) = i <=> b = Len(s)
    BY <1>1, <1>3
  <2>4. <<t[a], t[b]>> \in R <=> old(a) < old(b)
    BY <2>1 DEF Sorted
  <2>5. t[a] \in S /\ t[b] \in S
    BY <1>4
  <2>6. <<t[a], t[b]>> \in Last(S, R, s[i]) <=>
          \/ <<t[a], t[b]>> \in R /\ t[a] # s[i] /\ t[b] # s[i]
          \/ t[a] # s[i] /\ t[b] = s[i]
    BY <2>5 DEF Last, Freed
  <2>. QED
    BY <1>1, <1>3, <2>2, <2>3, <2>4, <2>6
<1>7. Last(S, R, s[i]) \subseteq S \X S
  BY DEF Last, Freed, Sorted
<1>. QED
  BY <1>3, <1>4, <1>5, <1>6, <1>7 DEF Sorted, t

LEMMA SortedAdded ==
    ASSUME NEW T, NEW s \in Seq(T), NEW S, NEW R, Sorted(s, S, R), NEW k \in T, k \notin S
    PROVE  /\ Append(s, k) \in Seq(T)
           /\ Sorted(Append(s, k), S \cup {k}, Last(S, R, k))
<1>. DEFINE t == Append(s, k)
<1>1. /\ Len(s) \in Nat /\ t \in Seq(T) /\ Len(t) = Len(s) + 1
      /\ t[Len(t)] = k /\ \A j \in 1 .. Len(s) : t[j] = s[j]
  OBVIOUS
<1>. HIDE DEF t
<1>2. \A j \in 1 .. Len(s) : s[j] \in S
  BY DEF Sorted
<1>3. \A j \in 1 .. Len(t) : t[j] \in S \cup {k}
  BY <1>1, <1>2
<1>4. ASSUME NEW x \in S \cup {k} PROVE \E j \in 1 .. Len(t) : t[j] = x
  <2>1. CASE x = k
    <3>1. Len(t) \in 1 .. Len(t)
      BY <1>1
    <3>. QED
      BY <1>1, <2>1, <3>1
  <2>2. CASE x \in S
    <3>1. PICK m \in 1 .. Len(s) : s[m] = x
      BY <2>2 DEF Sorted
    <3>. QED
      BY <1>1, <3>1
  <2>. QED
    BY <2>1, <2>2
<1>5. ASSUME NEW a \in 1 .. Len(t), NEW b \in 1 .. Len(t)
      PROVE  <<t[a], t[b]>> \in Last(S, R, k) <=> a < b
  <2>1. <<t[a], t[b]>> \in Last(S, R, k) <=>
          \/ <<t[a], t[b]>> \in R /\ t[a] # k /\ t[b] # k
          \/ t[a] \in S /\ t[a] # k /\ t[b] = k
    BY DEF Last, Freed
  <2>2. CASE a = Len(t)
    BY <1>1, <1>2, <2>1, <2>2
  <2>3. CASE a # Len(t) /\ b = Len(t)
    BY <1>1, <1>2, <2>1, <2>3
  <2>4. CASE a # Len(t) /\ b # Len(t)
    <3>1. /\ a \in 1 .. Len(s) /\ b \in 1 .. Len(s)
          /\ t[a] = s[a] /\ t[b] = s[b] /\ t[a] # k /\ t[b] # k
      BY <1>1, <1>2, <2>4
    <3>2. <<s[a], s[b]>> \in R <=> a < b
      BY <3>1 DEF Sorted
    <3>. QED
      BY <2>1, <3>1, <3>2
  <2>. QED
    BY <2>2, <2>3, <2>4
<1>6. Last(S, R, k) \subseteq (S \cup {k}) \X (S \cup {k})
  BY DEF Last, Freed, Sorted
<1>. QED
  BY <1>1, <1>3, <1>4, <1>5, <1>6 DEF Sorted, t

LEMMA SortedTail ==
    ASSUME NEW T, NEW s \in Seq(T), NEW S, NEW R, Sorted(s, S, R), s # <<>>
    PROVE  Tail(s) \in Seq(T) /\ Sorted(Tail(s), S \ {s[1]}, Freed(R, s[1]))
<1>. DEFINE t == Tail(s)
<1>1. /\ Len(s) \in Nat \ {0} /\ t \in Seq(T) /\ Len(t) = Len(s) - 1
      /\ \A j \in 1 .. Len(t) : t[j] = s[j + 1]
  OBVIOUS
<1>. HIDE DEF t
<1>2. ASSUME NEW j \in 1 .. Len(t) PROVE j + 1 \in 1 .. Len(s) /\ s[j + 1] \in S /\ s[j + 1] # s[1]
  <2>1. j + 1 \in 1 .. Len(s) /\ 1 \in 1 .. Len(s) /\ j + 1 # 1
    BY <1>1
  <2>. QED
    BY <2>1, SortedOnce DEF Sorted
<1>3. ASSUME NEW x \in S \ {s[1]} PROVE \E j \in 1 .. Len(t) : t[j] = x
  <2>1. PICK m \in 1 .. Len(s) : s[m] = x
    BY DEF Sorted
  <2>2. m # 1
    BY <2>1
  <2>3. m - 1 \in 1 .. Len(t) /\ (m - 1) + 1 = m
    BY <1>1, <2>2
  <2>. QED
    BY <1>1, <2>1, <2>3
<1>4. ASSUME NEW a \in 1 .. Len(t), NEW b \in 1 .. Len(t)
      PROVE  <<t[a], t[b]>> \in Freed(R, s[1]) <=> a < b
  <2>1. t[a] = s[a + 1] /\ t[b] = s[b + 1]
    BY <1>1
  <2>2. <<s[a + 1], s[b + 1]>> \in R <=> a + 1 < b + 1
    BY <1>2 DEF Sorted
  <2>. QED
    BY <1>1, <1>2, <2>1, <2>2 DEF Freed
<1>5. Freed(R, s[1]) \subseteq (S \ {s[1]}) \X (S \ {s[1]})
  BY DEF Freed, Sorted
<1>. QED
  BY <1>1, <1>2, <1>3, <1>4, <1>5 DEF Sorted, t
-----------------------------------------------------------------------------
\* The dictionary is in some order, whatever number of threads move its keys.
Ordered == \E s \in Seq(TargetKeys) : Sorted(s, cached, older)

LEMMA OldestIsFirst ==
    ASSUME NEW s \in Seq(TargetKeys), Sorted(s, cached, older), NEW k, Oldest(k)
    PROVE  s # <<>> /\ k = s[1]
<1>1. PICK m \in 1 .. Len(s) : s[m] = k
  BY DEF Oldest, Sorted
<1>2. Len(s) \in Nat /\ 1 \in 1 .. Len(s) /\ s # <<>>
  BY <1>1
<1>3. s[1] \in cached
  BY <1>2 DEF Sorted
<1>4. CASE s[1] # k
  <2>1. <<s[m], s[1]>> \in older
    BY <1>1, <1>3, <1>4 DEF Oldest
  <2>2. m < 1
    BY <1>2, <2>1 DEF Sorted
  <2>. QED
    BY <1>2, <2>2
<1>. QED
  BY <1>2, <1>4

\* What a step of a thread makes of the list.
LEMMA ListAfter ==
    ASSUME TypeOK, NEW s \in Seq(TargetKeys), Sorted(s, cached, older), NEW w \in Workers
    PROVE  /\ Touch(w) /\ req[w].key \in cached =>
                 \E i \in 1 .. Len(s) :
                    /\ L!MovedToEnd(s, i) \in Seq(TargetKeys)
                    /\ Sorted(L!MovedToEnd(s, i), cached', older')
           /\ Insert(w) /\ req[w].key \in TargetKeys \ cached =>
                 /\ Append(s, req[w].key) \in Seq(TargetKeys)
                 /\ Sorted(Append(s, req[w].key), cached', older')
           /\ PopOldest(w) /\ cached # {} =>
                 s # <<>> /\ Tail(s) \in Seq(TargetKeys) /\ Sorted(Tail(s), cached', older')
<1>. USE DEF TypeOK, Keys
<1>1. ASSUME Touch(w), req[w].key \in cached
      PROVE  \E i \in 1 .. Len(s) :
                /\ L!MovedToEnd(s, i) \in Seq(TargetKeys)
                /\ Sorted(L!MovedToEnd(s, i), cached', older')
  <2>1. PICK i \in 1 .. Len(s) : s[i] = req[w].key
    BY <1>1 DEF Sorted
  <2>2. cached' = cached /\ older' = Last(cached, older, s[i])
    BY <1>1, <2>1 DEF Touch, AtEnd, Without, Last, Freed, cached
  <2>. QED
    BY <2>1, <2>2, SortedMoved
<1>2. ASSUME Insert(w), req[w].key \in TargetKeys \ cached
      PROVE  /\ Append(s, req[w].key) \in Seq(TargetKeys)
             /\ Sorted(Append(s, req[w].key), cached', older')
  <2>1. req[w].pool # None /\ poolOf' = [poolOf EXCEPT ![req[w].key] = req[w].pool]
    BY <1>2, PoolsAssumption DEF Insert
  <2>2. cached' = cached \cup {req[w].key}
    BY <1>2, <2>1 DEF cached
  <2>3. older' = Last(cached, older, req[w].key)
    BY <1>2 DEF Insert, AtEnd, Without, Last, Freed
  <2>. QED
    BY <1>2, <2>2, <2>3, SortedAdded
<1>3. ASSUME PopOldest(w), cached # {}
      PROVE  s # <<>> /\ Tail(s) \in Seq(TargetKeys) /\ Sorted(Tail(s), cached', older')
  <2>1. PICK k \in cached : /\ Oldest(k)
                            /\ poolOf' = [poolOf EXCEPT ![k] = None]
                            /\ older' = Without(k)
    BY <1>3 DEF PopOldest
  <2>2. cached' = cached \ {k} /\ older' = Freed(older, k)
    BY <2>1 DEF cached, Without, Freed
  <2>3. s # <<>> /\ k = s[1]
    BY <2>1, OldestIsFirst
  <2>4. /\ Tail(s) \in Seq(TargetKeys)
        /\ Sorted(Tail(s), cached \ {s[1]}, Freed(older, s[1]))
    BY <2>3, SortedTail
  <2>. QED
    BY <2>2, <2>3, <2>4
<1>. QED
  BY <1>1, <1>2, <1>3

\* The steps that leave the list alone.
LEMMA ListKept ==
    ASSUME TypeOK, NEW w \in Workers, Get(w) \/ Progress(w)
    PROVE  \/ cached' = cached /\ older' = older
           \/ Touch(w) /\ req[w].key \in cached
           \/ Insert(w) /\ req[w].key \in TargetKeys \ cached
           \/ PopOldest(w) /\ cached # {}
<1>. USE DEF TypeOK, Keys
<1>1. CASE Get(w)
  BY <1>1 DEF Get, cached
<1>2. CASE Touch(w)
  BY <1>2 DEF Touch, cached
<1>3. CASE MakePool(w) \/ Register(w) \/ CheckLen(w)
  BY <1>3 DEF MakePool, Register, CheckLen, cached
<1>4. CASE Insert(w)
  <2>1. CASE req[w].key \in TargetKeys \ cached
    BY <1>4, <2>1
  <2>2. CASE req[w].key \notin TargetKeys \ cached
    <3>1. /\ older' = older /\ req[w].pool # None /\ req[w].key \in Keys
          /\ poolOf' = [poolOf EXCEPT ![req[w].key] = req[w].pool]
      BY <1>4, <2>2, PoolsAssumption DEF Insert
    <3>2. cached' = cached
      BY <2>2, <3>1, PoolsAssumption DEF cached
    <3>. QED
      BY <3>1, <3>2
  <2>. QED
    BY <2>1, <2>2
<1>5. CASE PopOldest(w)
  BY <1>5 DEF PopOldest, cached
<1>6. CASE CloseVictim(w) \/ Unlist(w) \/ Connect(w) \/ Release(w)
  BY <1>6 DEF CloseVictim, Unlist, Connect, Release, cached
<1>. QED
  BY <1>1, <1>2, <1>3, <1>4, <1>5, <1>6 DEF Progress
LEMMA EmptySorted == <<>> \in Seq(TargetKeys) /\ Sorted(<<>>, {}, {})
BY DEF Sorted

\* Startup and shutdown: no thread is at work.
LEMMA ListOutside ==
    /\ TypeOK /\ Startup => cached' = cached /\ older' = older
    /\ CloseAll => cached' = {} /\ older' = {}
<1>1. ASSUME TypeOK, Startup PROVE cached' = cached /\ older' = older
  <2>1. PICK p \in PoolIds : poolOf' = [poolOf EXCEPT ![Common] = p]
    BY <1>1 DEF Startup
  <2>2. Common \notin TargetKeys
    BY PoolsAssumption
  <2>. QED
    BY <1>1, <2>1, <2>2 DEF Startup, cached, TypeOK, Keys
<1>2. ASSUME CloseAll PROVE cached' = {} /\ older' = {}
  BY <1>2 DEF CloseAll, cached, Keys
<1>. QED
  BY <1>1, <1>2

LEMMA InitOrdered == Init => Ordered
<1>1. Init => cached = {} /\ older = {}
  BY DEF Init, cached, Keys
<1>. QED
  BY <1>1, EmptySorted DEF Ordered

LEMMA NextOrdered == TypeOK /\ Ordered /\ [Next]_vars => Ordered'
<1>. SUFFICES ASSUME TypeOK, Ordered, [Next]_vars
              PROVE  \E t \in Seq(TargetKeys) : Sorted(t, cached', older')
  BY DEF Ordered
<1>1. PICK s \in Seq(TargetKeys) : Sorted(s, cached, older)
  BY DEF Ordered
<1>2. CASE Startup \/ UNCHANGED vars
  BY <1>1, <1>2, ListOutside DEF vars, cached
<1>3. CASE CloseAll
  BY <1>3, ListOutside, EmptySorted
<1>4. ASSUME NEW w \in Workers, Get(w) \/ Progress(w)
      PROVE  \E t \in Seq(TargetKeys) : Sorted(t, cached', older')
  BY <1>1, <1>4, ListKept, ListAfter
<1>. QED
  BY <1>2, <1>3, <1>4 DEF Next

\* While there is one request, it evicts only from a cache over its cap.
Due == ~overlapped => \A w \in Workers : req[w].pc = "pop" => Cardinality(cached) > Cap

LEMMA NextDue == IInv /\ Alone /\ Due /\ [Next]_vars => Due'
<1>. SUFFICES ASSUME IInv, Alone, Due, [Next]_vars, ~overlapped',
                     NEW v \in Workers, req'[v].pc = "pop"
              PROVE  (Cardinality(cached) > Cap)'
  BY DEF Due
<1>t. TypeOK
  BY DEF IInv
<1>1. CASE UNCHANGED vars
  BY <1>1 DEF Due, vars, cached
<1>2. CASE (Startup \/ CloseAll) /\ UNCHANGED overlapped
  BY <1>2, <1>t, ListOutside DEF Due, Startup, CloseAll
<1>3. ASSUME NEW w \in Workers, Get(w) \/ Progress(w), Noted
      PROVE  (Cardinality(cached) > Cap)'
  <2>1. ~overlapped /\ (v # w => req'[w].pc = "idle")
    BY <1>3 DEF Noted
  <2>2. v # w => req'[v] = req[v]
    BY <1>3, <1>t, StepsAlone
  <2>3. CASE v # w
    <3>1. req[v].pc = "pop" /\ req[w].pc = "idle"
      BY <2>1, <2>2, <2>3 DEF Alone
    <3>2. ~Progress(w)
      BY <3>1 DEF Progress, Touch, MakePool, Register, Insert, CheckLen, PopOldest,
                  CloseVictim, Unlist, Connect, Release
    <3>3. Get(w)
      BY <1>3, <3>2
    <3>4. req'[w].pc # "idle"
      BY <3>3, <1>t DEF Get, TypeOK
    <3>. QED
      BY <2>1, <2>3, <3>4
  <2>4. CASE v = w
    <3>1. CheckLen(w)
      BY <1>3, <1>t, <2>4
         DEF Progress, Get, Touch, MakePool, Register, Insert, CheckLen, PopOldest,
             CloseVictim, Unlist, Connect, Release, Goto, Return, Idle, TypeOK
    <3>. QED
      BY <1>t, <2>4, <3>1 DEF CheckLen, Goto, Exceeds, cached, TypeOK
  <2>. QED
    BY <2>3, <2>4
<1>. QED
  BY <1>1, <1>2, <1>3 DEF Next, Progress

LEMMA FewOver ==
    IInv /\ Alone /\ ~overlapped =>
        /\ Cardinality(cached) \in Nat /\ Cardinality(cached) <= Cap + 1
        /\ \A w \in Workers : req[w].pc \notin {"idle", "check", "pop"}
             => Cardinality(cached) <= Cap
<1>. SUFFICES ASSUME IInv, Alone, ~overlapped
              PROVE  /\ Cardinality(cached) \in Nat /\ Cardinality(cached) <= Cap + 1
                     /\ \A w \in Workers : req[w].pc \notin {"idle", "check", "pop"}
                          => Cardinality(cached) <= Cap
  OBVIOUS
<1>1. /\ Cardinality(cached) \in Nat /\ Cap \in Nat
      /\ Cardinality(cached) <= Cap + Cardinality(Busy)
  BY CountsAreNumbers, PoolsAssumption DEF IInv, CacheBounded, Busy
<1>2. CASE Busy = {}
  BY <1>1, <1>2, FS_EmptySet
<1>3. ASSUME NEW w \in Busy
      PROVE  /\ Cardinality(Busy) = 1
             /\ \A v \in Workers : req[v].pc \in {"idle", "check", "pop"}
  <2>1. Busy = {w} /\ \A v \in Workers : req[v].pc \in {"idle", "check", "pop"}
    BY <1>3 DEF Alone, Busy
  <2>. QED
    BY <2>1, FS_Singleton
<1>. QED
  BY <1>1, <1>2, <1>3

LEMMA UsedIs ==
    TypeOK /\ Cardinality(cached) <= Cap + 1 =>
        \A s \in Seq(TargetKeys) :
            Sorted(s, cached, older) => Cardinality(cached) = Len(s) /\ Used = L!LastCap(s)
<1>. SUFFICES ASSUME TypeOK, Cardinality(cached) <= Cap + 1,
                     NEW s \in Seq(TargetKeys), Sorted(s, cached, older)
              PROVE  Cardinality(cached) = Len(s) /\ Used = L!LastCap(s)
  OBVIOUS
<1>1. InOrder = s /\ Cardinality(cached) = Len(s)
  BY SortedIsInOrder
<1>2. Cap \in Nat \ {0} /\ Len(s) \in Nat
  BY PoolsAssumption
<1>3. CASE Len(s) > Cap
  <2>1. Len(s) = Cap + 1
    BY <1>1, <1>2, <1>3
  <2>2. PICK t \in Seq(TargetKeys) : /\ t = Tail(s) /\ Len(t) = Cap
                                     /\ \A i \in 1 .. Cap : t[i] = s[i + 1]
    <3>1. /\ Tail(s) \in Seq(TargetKeys) /\ Len(Tail(s)) = Cap
          /\ \A i \in 1 .. Cap : Tail(s)[i] = s[i + 1]
      BY <1>2, <2>1
    <3>. QED
      BY <3>1
  <2>3. t = [i \in 1 .. Len(t) |-> t[i]]
    OBVIOUS
  <2>4. Tail(s) = [i \in 1 .. Cap |-> s[i + 1]]
    BY <2>2, <2>3
  <2>. QED
    BY <1>1, <1>3, <2>4 DEF Used, L!LastCap
<1>4. CASE ~(Len(s) > Cap)
  BY <1>1, <1>4 DEF Used, L!LastCap
<1>. QED
  BY <1>1, <1>3, <1>4

LEMMA EmptyIsShort == Cap \in Nat \ {0} => L!LastCap(<<>>) = <<>>
<1>1. Len(<<>>) = 0
  OBVIOUS
<1>. QED
  BY <1>1 DEF L!LastCap

LEMMA StepMapped ==
    IInv /\ Alone /\ Due /\ Ordered /\ IInv' /\ Alone' /\ [Next]_vars
        => [~overlapped' => L!Next]_Used
<1>. SUFFICES ASSUME IInv, Alone, Due, Ordered, IInv', Alone', [Next]_vars, ~overlapped'
              PROVE  L!Next \/ Used' = Used
  OBVIOUS
<1>t. TypeOK /\ TypeOK'
  BY DEF IInv
<1>1. ~overlapped
  BY DEF Next, Progress, Noted, vars
<1>2. /\ Cardinality(cached) \in Nat /\ Cardinality(cached) <= Cap + 1
      /\ \A w \in Workers : req[w].pc \notin {"idle", "check", "pop"} => Cardinality(cached) <= Cap
  BY <1>1, FewOver
<1>3. (Cardinality(cached) <= Cap + 1)'
  <2>1. (IInv /\ Alone /\ ~overlapped =>
            /\ Cardinality(cached) \in Nat /\ Cardinality(cached) <= Cap + 1
            /\ \A w \in Workers : req[w].pc \notin {"idle", "check", "pop"}
                 => Cardinality(cached) <= Cap)'
    BY FewOver, PTL
  <2>. QED
    BY <2>1
<1>4. ASSUME NEW t \in Seq(TargetKeys), Sorted(t, cached', older')
      PROVE  Used' = L!LastCap(t)
  <2>1. (TypeOK /\ Cardinality(cached) <= Cap + 1 =>
            \A s \in Seq(TargetKeys) :
                Sorted(s, cached, older) => Cardinality(cached) = Len(s) /\ Used = L!LastCap(s))'
    BY UsedIs, PTL
  <2>. QED
    BY <1>t, <1>3, <1>4, <2>1
<1>5. PICK s \in Seq(TargetKeys) : Sorted(s, cached, older)
  BY DEF Ordered
<1>6. Cardinality(cached) = Len(s) /\ Used = L!LastCap(s) /\ Len(s) \in Nat /\ Cap \in Nat \ {0}
  BY <1>t, <1>2, <1>5, UsedIs, PoolsAssumption
<1>7. cached' = cached /\ older' = older => Used' = Used
  BY <1>4, <1>5, <1>6
<1>8. CASE UNCHANGED vars \/ Startup
  BY <1>7, <1>8, <1>t, ListOutside DEF vars, cached
<1>9. CASE CloseAll
  <2>1. Used' = L!LastCap(<<>>)
    BY <1>4, <1>9, ListOutside, EmptySorted
  <2>2. Used' = <<>>
    BY <1>6, <2>1, EmptyIsShort
  <2>. QED
    BY <2>2 DEF L!Next, L!Clear
<1>10. ASSUME NEW w \in Workers, Get(w) \/ Progress(w) PROVE L!Next \/ Used' = Used
  <2>1. CASE Touch(w) /\ req[w].key \in cached
    <3>1. PICK i \in 1 .. Len(s) : /\ L!MovedToEnd(s, i) \in Seq(TargetKeys)
                                    /\ Sorted(L!MovedToEnd(s, i), cached', older')
      BY <1>t, <1>5, <2>1, ListAfter
    <3>2. Used = s
      BY <1>2, <1>6, <2>1 DEF Touch, L!LastCap
    <3>3. Len(L!MovedToEnd(s, i)) = Len(s)
      BY <1>6 DEF L!MovedToEnd
    <3>4. Used' = L!MovedToEnd(Used, i)
      BY <1>2, <1>4, <1>6, <2>1, <3>1, <3>2, <3>3 DEF Touch, L!LastCap
    <3>. QED
      BY <3>2, <3>4 DEF L!Next, L!Hit
  <2>2. CASE Insert(w) /\ req[w].key \in TargetKeys \ cached
    <3>1. /\ Append(s, req[w].key) \in Seq(TargetKeys)
          /\ Sorted(Append(s, req[w].key), cached', older')
      BY <1>t, <1>5, <2>2, ListAfter
    <3>2. Used = s
      BY <1>2, <1>6, <2>2 DEF Insert, L!LastCap
    <3>3. \A i \in DOMAIN Used : Used[i] # req[w].key
      BY <1>5, <2>2, <3>2 DEF Sorted
    <3>4. Used' = L!LastCap(Append(Used, req[w].key))
      BY <1>4, <3>1, <3>2
    <3>. QED
      BY <2>2, <3>3, <3>4 DEF L!Next, L!Miss
  <2>3. CASE PopOldest(w) /\ cached # {}
    <3>1. s # <<>> /\ Tail(s) \in Seq(TargetKeys) /\ Sorted(Tail(s), cached', older')
      BY <1>t, <1>5, <2>3, ListAfter
    <3>2. Len(s) = Cap + 1
      BY <1>1, <1>2, <1>6, <2>3 DEF Due, PopOldest
    <3>3. Used = Tail(s) /\ Len(Tail(s)) = Cap
      BY <1>6, <3>1, <3>2 DEF L!LastCap
    <3>4. Used' = L!LastCap(Tail(s))
      BY <1>4, <3>1
    <3>5. ~(Len(Tail(s)) > Cap)
      BY <1>6, <3>3
    <3>. QED
      BY <3>3, <3>4, <3>5 DEF L!LastCap
  <2>. QED
    BY <1>7, <1>10, <1>t, <2>1, <2>2, <2>3, ListKept
<1>. QED
  BY <1>8, <1>9, <1>10 DEF Next

LEMMA InitMapped == Init => L!Init
<1>. SUFFICES ASSUME Init PROVE Used = <<>>
  BY DEF L!Init
<1>1. TypeOK /\ cached = {} /\ older = {}
  BY InitIInv DEF IInv, Init, cached, Keys
<1>2. Cardinality(cached) = 0 /\ Cap \in Nat \ {0}
  BY <1>1, FS_EmptySet, PoolsAssumption
<1>3. Used = L!LastCap(<<>>)
  <2>1. Cardinality(cached) <= Cap + 1 /\ Sorted(<<>>, cached, older)
    BY <1>1, <1>2, EmptySorted
  <2>. QED
    BY <1>1, <2>1, EmptySorted, UsedIs
<1>. QED
  BY <1>2, <1>3, EmptyIsShort

LEMMA InitAloneDue == Init => Alone /\ Due
  BY DEF Init, Alone, Due, Idle

(* As long as requests are served one at a time, the target pools are an   *)
(* LRU cache of Cap keys: a hit moves its key to the end, a miss appends   *)
(* one, and what is over the cap is the key used least recently, whatever  *)
(* close raises and however often the server is restarted.                 *)
THEOREM ImplementsLruCacheAlways == Spec => ImplementsLruCache
  BY InitAloneDue, InitMapped, InitIInv, InitOrdered, NextOrdered, NextAlone, NextDue, StepMapped,
     Inductive, PTL DEF Spec, ImplementsLruCache, IInv
=============================================================================
