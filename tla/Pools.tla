------------------------------- MODULE Pools --------------------------------
(***************************************************************************)
(* The connection-pool registries of one server process (pools.py), used   *)
(* by request threads that share the module's dictionaries without a lock. *)
(* A dictionary or list operation is atomic, two of them are not: each is  *)
(* an action.  The OrderedDict of target pools is kept as the function     *)
(* poolOf and the relation older on its keys.                              *)
(***************************************************************************)
EXTENDS Integers, FiniteSets

CONSTANTS Workers,      \* request threads
          PlainKeys,    \* conninfos of common_data and of server_pool
          Common,       \* the conninfo of common_data
          TargetKeys,   \* (conninfo, dbname) pairs
          PoolIds,      \* identities of pool objects; bounds those alive at once
          Cap,          \* _TARGET_POOL_LRU
          None

Keys == PlainKeys \cup TargetKeys

ASSUME PoolsAssumption ==
    /\ IsFiniteSet(Workers) /\ IsFiniteSet(TargetKeys) /\ IsFiniteSet(PoolIds)
    /\ PlainKeys \cap TargetKeys = {}
    /\ Common \in PlainKeys
    /\ Cap \in Nat \ {0}
    /\ None \notin Keys /\ None \notin PoolIds

VARIABLES up,      \* the process is serving requests
          open,    \* pools created and not closed
          listed,  \* _all_pools
          poolOf,  \* _common_pools, _server_pools and _target_pools
          older,   \* <<j, k>>: j comes before k in _target_pools
          req,     \* what each thread is doing
          overlapped   \* history: two requests were served at once
vars == <<up, open, listed, poolOf, older, req, overlapped>>

Steps == {"idle", "touch", "make", "register", "insert", "check", "pop",
          "close", "unlist", "abort", "connect", "use"}
Idle == [pc |-> "idle", key |-> None, pool |-> None, victim |-> None]

cached_common == {k \in Keys : poolOf[k] # None}
cached == {k \in TargetKeys : poolOf[k] # None}

\* A pool object nothing refers to.
Fresh(p) ==
    /\ p \notin open \cup listed
    /\ \A k \in Keys : poolOf[k] # p
    /\ \A w \in Workers : req[w].pool # p /\ req[w].victim # p

\* Identities are interchangeable: the next pool has this one.
NextPool == CHOOSE p \in PoolIds : Fresh(p)

\* The bound PoolIds puts on the model: one left for every thread that needs one.
PoolsLeft ==
    Cardinality({p \in PoolIds : Fresh(p)}) > Cardinality({w \in Workers : req[w].pc = "make"})

Init ==
    /\ up = FALSE
    /\ open = {}
    /\ listed = {}
    /\ poolOf = [k \in Keys |-> None]
    /\ older = {}
    /\ req = [w \in Workers |-> Idle]
    /\ overlapped = FALSE

Goto(w, pc) == req' = [req EXCEPT ![w].pc = pc]
Return(w) == req' = [req EXCEPT ![w] = Idle]

\* The order of an OrderedDict with k moved to its end, and with k removed.
Without(k) == {e \in older : e[1] # k /\ e[2] # k}
AtEnd(k) == Without(k) \cup ((cached \ {k}) \X {k})

-----------------------------------------------------------------------------
\* lifespan: the common_data pool is warmed before the first request.
Startup ==
    /\ ~up
    /\ up' = TRUE
    /\ \E p \in PoolIds :
          /\ Fresh(p) /\ p = NextPool
          /\ open' = open \cup {p}
          /\ listed' = listed \cup {p}
          /\ poolOf' = [poolOf EXCEPT ![Common] = p]
    /\ UNCHANGED <<older, req>>

\* The registry lookup every helper starts with.
Get(w) ==
    /\ up
    /\ req[w].pc = "idle"
    /\ \E k \in Keys :
          /\ poolOf[k] = None => PoolsLeft
          /\ req' = [req EXCEPT ![w] =
                       [pc |-> IF poolOf[k] = None THEN "make"
                               ELSE IF k \in TargetKeys THEN "touch" ELSE "connect",
                        key |-> k, pool |-> poolOf[k], victim |-> None]]
    /\ UNCHANGED <<up, open, listed, poolOf, older>>

\* move_to_end raises KeyError when the key was evicted since the lookup.
Touch(w) ==
    /\ req[w].pc = "touch"
    /\ \/ /\ req[w].key \in cached
          /\ older' = AtEnd(req[w].key)
          /\ Goto(w, "connect")
       \/ /\ req[w].key \notin cached
          /\ Return(w)
          /\ UNCHANGED older
    /\ UNCHANGED <<up, open, listed, poolOf>>

\* ConnectionPool(..., open=True)
MakePool(w) ==
    /\ req[w].pc = "make"
    /\ \E p \in PoolIds :
          /\ Fresh(p) /\ p = NextPool
          /\ open' = open \cup {p}
          /\ req' = [req EXCEPT ![w].pc = "register", ![w].pool = p]
    /\ UNCHANGED <<up, listed, poolOf, older>>

\* _all_pools.append(pool)
Listing_target(w) == IF req[w].key \in TargetKeys THEN {} ELSE {req[w].pool}
Listing(w) == {req[w].pool}

Register(w) ==
    /\ req[w].pc = "register"
    /\ listed' = listed \cup Listing(w)
    /\ Goto(w, "insert")
    /\ UNCHANGED <<up, open, poolOf, older>>

\* Storing under a key that is present keeps its place in the order; the
\* pool another thread stored there is forgotten, still open.
Insert(w) ==
    LET k == req[w].key IN
    /\ req[w].pc = "insert"
    /\ poolOf' = [poolOf EXCEPT ![k] = req[w].pool]
    /\ older' = IF k \in TargetKeys \ cached THEN AtEnd(k) ELSE older
    /\ Goto(w, IF k \in TargetKeys THEN "check" ELSE "connect")
    /\ UNCHANGED <<up, open, listed>>

\* while len(_target_pools) > _TARGET_POOL_LRU
Exceeds_offbyone(n) == n > Cap + 1
Exceeds(n) == n > Cap

CheckLen(w) ==
    /\ req[w].pc = "check"
    /\ Goto(w, IF Exceeds(Cardinality(cached)) THEN "pop" ELSE "connect")
    /\ UNCHANGED <<up, open, listed, poolOf, older>>

Oldest_newest(k) == k \in cached /\ \A j \in cached \ {k} : <<j, k>> \in older
Oldest(k) == k \in cached /\ \A j \in cached \ {k} : <<k, j>> \in older

\* popitem(last=False) raises KeyError when the dictionary is empty.
PopOldest_kept(w) ==
    /\ req[w].pc = "pop"
    /\ \/ \E k \in cached :
             /\ Oldest(k)
             /\ req' = [req EXCEPT ![w].pc = "close", ![w].victim = poolOf[k]]
       \/ cached = {} /\ Return(w)
    /\ UNCHANGED <<up, open, listed, poolOf, older>>
PopOldest(w) ==
    /\ req[w].pc = "pop"
    /\ \/ \E k \in cached :
             /\ Oldest(k)
             /\ poolOf' = [poolOf EXCEPT ![k] = None]
             /\ older' = Without(k)
             /\ req' = [req EXCEPT ![w].pc = "close", ![w].victim = poolOf[k]]
       \/ /\ cached = {}
          /\ Return(w)
          /\ UNCHANGED <<poolOf, older>>
    /\ UNCHANGED <<up, open, listed>>

\* close() of the victim returns, or raises out of the loop.  Either way it
\* has stopped the pool and the finally clause runs.
Closing_none(w) == {}
Closing(w) == {req[w].victim}

CloseVictim(w) ==
    /\ req[w].pc = "close"
    /\ open' = open \ Closing(w)
    /\ Goto(w, "unlist") \/ Goto(w, "abort")
    /\ UNCHANGED <<up, listed, poolOf, older>>

Unlisting_none(w) == {}
Unlisting(w) == {req[w].victim}

Unlist(w) ==
    /\ req[w].pc \in {"unlist", "abort"}
    /\ listed' = listed \ Unlisting(w)
    /\ IF req[w].pc = "abort" THEN Return(w)
       ELSE req' = [req EXCEPT ![w].pc = "check", ![w].victim = None]
    /\ UNCHANGED <<up, open, poolOf, older>>

\* pool.connection(): a closed pool raises PoolClosed, a 503 to the client.
Connect(w) ==
    /\ req[w].pc = "connect"
    /\ \/ req[w].pool \in open /\ Goto(w, "use")
       \/ req[w].pool \notin open /\ Return(w)
    /\ UNCHANGED <<up, open, listed, poolOf, older>>

\* The connection goes back, to a pool that may have been closed meanwhile.
Release(w) ==
    /\ req[w].pc = "use"
    /\ Return(w)
    /\ UNCHANGED <<up, open, listed, poolOf, older>>

\* lifespan: the server stops when its requests have been answered.
CloseAll ==
    /\ up
    /\ \A w \in Workers : req[w].pc = "idle"
    /\ up' = FALSE
    /\ open' = open \ listed
    /\ listed' = {}
    /\ poolOf' = [k \in Keys |-> None]
    /\ older' = {}
    /\ UNCHANGED req

\* Keeps the history; every step of a thread does.
Noted == overlapped' = (overlapped \/ \E v, w \in Workers :
                           v # w /\ req'[v].pc # "idle" /\ req'[w].pc # "idle")

Progress(w) ==
    /\ \/ Touch(w) \/ MakePool(w) \/ Register(w) \/ Insert(w)
       \/ CheckLen(w) \/ PopOldest(w) \/ CloseVictim(w) \/ Unlist(w)
       \/ Connect(w) \/ Release(w)
    /\ Noted

Next ==
    \/ (Startup \/ CloseAll) /\ UNCHANGED overlapped
    \/ \E w \in Workers : (Get(w) /\ Noted) \/ Progress(w)

Spec == Init /\ [][Next]_vars

\* A thread that serves a request keeps running; none has to arrive.
FairSpec == Spec /\ \A w \in Workers : WF_vars(Progress(w))

-----------------------------------------------------------------------------
TypeOK ==
    /\ up \in BOOLEAN
    /\ open \subseteq PoolIds
    /\ listed \subseteq PoolIds
    /\ poolOf \in [Keys -> PoolIds \cup {None}]
    /\ older \subseteq TargetKeys \X TargetKeys
    /\ req \in [Workers -> [pc : Steps, key : Keys \cup {None},
                            pool : PoolIds \cup {None}, victim : PoolIds \cup {None}]]
    /\ \A w \in Workers :
          /\ req[w].pc # "idle" => req[w].key \in Keys
          /\ req[w].pc \in {"touch", "check", "pop", "close", "unlist", "abort"}
                => req[w].key \in TargetKeys
          /\ req[w].pc \notin {"idle", "make"} => req[w].pool \in PoolIds
          /\ req[w].pc \in {"close", "unlist", "abort"} <=> req[w].victim \in PoolIds

(* A registry never holds a pool that was closed: whichever threads insert *)
(* and evict at once, a lookup that hits returns a pool open at that time. *)
CachedPoolsAreOpen == \A k \in Keys : poolOf[k] # None => poolOf[k] \in open

(* The pools close_all closes are all there are: a pool is known to        *)
(* _all_pools from its creation to its close, even when a second thread's  *)
(* insert overwrote it.                                                    *)
OpenPoolsAreListed ==
    open \subseteq listed \cup {req[w].pool : w \in {v \in Workers : req[v].pc = "register"}}

(* A closed pool does not stay in _all_pools, even when its close raised.  *)
NoDeadPoolListed ==
    listed \subseteq open \cup {req[w].victim :
                                  w \in {v \in Workers : req[v].pc \in {"unlist", "abort"}}}

(* After a shutdown no pool is left open.                                  *)
ShutdownClosesEverything == ~up => open = {} /\ listed = {}

(* _target_pools exceeds its cap by no more than the number of threads     *)
(* that are between their insert and the eviction it calls for.            *)
CacheBounded ==
    Cardinality(cached) <= Cap + Cardinality({w \in Workers : req[w].pc \in {"check", "pop"}})

(* An overfull cache is brought back to its cap.                           *)
OverflowDrains == Cardinality(cached) > Cap ~> Cardinality(cached) <= Cap

(* As long as requests are served one at a time, the dictionary and the    *)
(* loop are an LRU cache, across shutdowns and failing closes.             *)
InOrder ==
    [i \in 1 .. Cardinality(cached) |->
        CHOOSE k \in cached :
            Cardinality({j \in cached : <<j, k>> \in older}) = i - 1]
Used == IF Cardinality(cached) > Cap THEN [i \in 1 .. Cap |-> InOrder[i + 1]] ELSE InOrder
L == INSTANCE LruCache WITH Keys <- TargetKeys, used <- Used
ImplementsLruCache == L!Init /\ [][~overlapped' => L!Next]_Used

(* The LRU bound "bounds memory use": until two requests overlap, the      *)
(* pools open between requests are those the registries hold.  A pool is   *)
(* orphaned only by two threads that miss the same key at once.            *)
OnlyCachedPoolsStayOpen ==
    ~overlapped /\ (\A w \in Workers : req[w].pc = "idle")
        => open \subseteq {poolOf[k] : k \in Keys}
=============================================================================
