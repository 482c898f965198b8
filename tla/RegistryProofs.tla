--------------------------- MODULE RegistryProofs ---------------------------
(***************************************************************************)
(* Proofs about Registry for any number of rows, labels and sessions: how  *)
(* many defaults there can be, and when a lookup of the default misses it.  *)
(***************************************************************************)
EXTENDS Registry, TLAPS, FiniteSetTheorems

Requests == [pc : Steps, id : Ids \cup {None}, label : Labels \cup {None},
             default : BOOLEAN]

\* Each default was added by a thread that then stopped clearing.
Slots == Cardinality(isDefault) + Cardinality(Clearing) <= Cardinality(Workers)

\* Unless a request is between its two statements, the default is there.
Kept ==
    /\ Clearing = {} => promised \subseteq isDefault
    /\ \A w \in Workers : req[w].pc = "clear" => req[w].default

-----------------------------------------------------------------------------
LEMMA InitTypeOK == Init => TypeOK
<1>. SUFFICES ASSUME Init PROVE TypeOK
  OBVIOUS
<1>1. rows = {}
  BY DEF Init, rows
<1>2. Idle \in Requests
  BY DEF Idle, Requests, Steps
<1>3. \A w \in Workers : req[w].pc = "idle"
  BY DEF Init, Idle
<1>. QED
  BY <1>1, <1>2, <1>3, RegistryAssumption DEF Init, TypeOK, Requests, Ids

\* A thread that takes up a write.
LEMMA WriteType ==
  ASSUME TypeOK, NEW w \in Workers, NEW id \in Ids \cup {None}, NEW l \in Labels,
         NEW default \in BOOLEAN, Write(w, id, l, default)
  PROVE  /\ req' \in [Workers -> Requests]
         /\ \A v \in Workers : req'[v].pc \in {"clear", "write"} => req'[v].label \in Labels
  BY DEF TypeOK, Write, FirstStep, Requests, Steps

\* A thread that is back to idle, or has gone on to a lookup.
LEMMA LookupType ==
  ASSUME TypeOK, NEW w \in Workers, NEW pc \in {"idle", "default", "lowest"},
         req' = [req EXCEPT ![w] = [Idle EXCEPT !.pc = pc]]
  PROVE  /\ req' \in [Workers -> Requests]
         /\ \A v \in Workers : req'[v].pc \in {"clear", "write"} => req'[v].label \in Labels
  BY DEF TypeOK, Idle, Requests, Steps

LEMMA ReturnType ==
  ASSUME TypeOK, NEW w \in Workers, Return(w)
  PROVE  /\ req' \in [Workers -> Requests]
         /\ \A v \in Workers : req'[v].pc \in {"clear", "write"} => req'[v].label \in Labels
  BY DEF Return, TypeOK, Idle, Requests, Steps

\* Storing a label nobody else has keeps the labels distinct.
LEMMA StoreRows ==
  ASSUME TypeOK, NEW w \in Workers, NEW i \in Ids, req[w].pc = "write",
         ~Taken(req[w].label, i), Store(w, i)
  PROVE  /\ label' \in [Ids -> Labels \cup {None}]
         /\ rows' = rows \cup {i}
         /\ \A j, k \in rows' : label'[j] = label'[k] => j = k
         /\ isDefault' \subseteq rows'
         /\ promised' \subseteq Ids
<1>1. req[w].label \in Labels /\ req[w].label # None
  BY RegistryAssumption DEF TypeOK
<1>2. /\ label' = [label EXCEPT ![i] = req[w].label]
      /\ isDefault' = Flagged(i, req[w].default)
      /\ promised' \subseteq Ids
  BY DEF Store, TypeOK
<1>3. label' \in [Ids -> Labels \cup {None}]
  BY <1>1, <1>2 DEF TypeOK
<1>4. rows' = rows \cup {i}
  BY <1>1, <1>2 DEF rows, TypeOK
<1>5. \A j, k \in rows' : label'[j] = label'[k] => j = k
  BY <1>1, <1>2, <1>4 DEF Taken, TypeOK, rows
<1>. QED
  BY <1>2, <1>3, <1>4, <1>5 DEF Flagged, TypeOK

LEMMA NextTypeOK == TypeOK /\ [Next]_vars => TypeOK'
<1>. SUFFICES ASSUME TypeOK, [Next]_vars PROVE TypeOK'
  OBVIOUS
<1>1. ASSUME NEW w \in Workers, Step(w) PROVE TypeOK'
  <2>req. SUFFICES ASSUME req' \in [Workers -> Requests],
                          \A v \in Workers : req'[v].pc \in {"clear", "write"}
                                                => req'[v].label \in Labels
                   PROVE  TypeOK'
    <3>1. CASE CreateServer(w)
      <4>1. PICK l \in Labels, default \in BOOLEAN : Write(w, None, l, default)
        BY <3>1 DEF CreateServer
      <4>. QED
        BY <4>1, WriteType
    <3>2. CASE SeedRegistry(w)
      <4>1. PICK l \in Labels : Write(w, None, l, TRUE)
        BY <3>2 DEF SeedRegistry
      <4>. QED
        BY <4>1, WriteType
    <3>3. CASE UpdateServer(w)
      <4>1. PICK i \in rows, l \in Labels, default \in BOOLEAN : Write(w, i, l, default)
        BY <3>3 DEF UpdateServer
      <4>. QED
        BY <4>1, WriteType DEF rows
    <3>4. CASE ClearDefault(w)
      BY <3>4 DEF ClearDefault, TypeOK, Requests, Steps
    <3>5. CASE Insert(w) \/ Update(w)
      BY <3>5, ReturnType DEF Insert, Update
    <3>6. CASE DeleteServer(w) \/ SetActiveServer(w) \/ Logout(w)
      BY <3>6 DEF DeleteServer, SetActiveServer, Logout, TypeOK, Requests
    <3>7. CASE ActiveServer(w) \/ FindDefault(w) \/ FindLowest(w)
      BY <3>7, ReturnType, LookupType DEF ActiveServer, FindDefault, FindLowest, Goto
    <3>. QED
      BY <1>1, <3>1, <3>2, <3>3, <3>4, <3>5, <3>6, <3>7 DEF Step
  <2>1. CASE /\ UNCHANGED <<label, nextId, session, promised>>
             /\ isDefault' \in {isDefault, {}}
    BY <2>req, <2>1 DEF TypeOK, rows, Requests
  <2>2. CASE Insert(w)
    <3>1. /\ nextId \in Ids /\ nextId' = nextId + 1 /\ session' = session
      BY <2>2 DEF Insert, Ids, TypeOK
    <3>2. /\ label' \in [Ids -> Labels \cup {None}]
          /\ rows' \subseteq rows \cup {nextId}
          /\ \A j, k \in rows' : label'[j] = label'[k] => j = k
          /\ isDefault' \subseteq rows'
          /\ promised' \subseteq Ids
      <4>1. CASE Refused(w)
        BY <2>2, <4>1 DEF Insert, Refuse, TypeOK, rows
      <4>2. CASE ~Refused(w)
        BY <2>2, <4>2, <3>1, StoreRows DEF Insert, Refused
      <4>. QED
        BY <4>1, <4>2
    <3>3. nextId' \in 1 .. MaxId + 1 /\ \A i \in rows' : i < nextId'
      BY <3>1, <3>2, RegistryAssumption DEF Ids, TypeOK, rows
    <3>. QED
      BY <2>req, <3>1, <3>2, <3>3 DEF TypeOK, Requests
  <2>3. CASE Update(w)
    <3>1. req[w].pc = "write" /\ req[w].id # None /\ UNCHANGED <<nextId, session>>
      BY <2>3 DEF Update
    <3>2. /\ label' \in [Ids -> Labels \cup {None}]
          /\ rows' \subseteq rows
          /\ \A j, k \in rows' : label'[j] = label'[k] => j = k
          /\ isDefault' \subseteq rows'
          /\ promised' \subseteq Ids
      <4>1. CASE Refused(w)
        BY <2>3, <4>1 DEF Update, Refuse, TypeOK, rows
      <4>2. CASE ~Refused(w)
        <5>1. req[w].id \in rows /\ ~Taken(req[w].label, req[w].id)
          BY <4>2, <3>1 DEF Refused
        <5>2. req[w].id \in Ids /\ Store(w, req[w].id)
          BY <2>3, <4>2, <5>1 DEF Update, rows
        <5>. QED
          BY <3>1, <5>1, <5>2, StoreRows
      <4>. QED
        BY <4>1, <4>2
    <3>. QED
      BY <2>req, <3>1, <3>2 DEF TypeOK, Requests
  <2>4. CASE DeleteServer(w)
    <3>1. PICK i \in rows : /\ label' = [label EXCEPT ![i] = None]
                            /\ isDefault' = isDefault \ {i}
                            /\ promised' = promised \ {i}
      BY <2>4 DEF DeleteServer
    <3>2. /\ label' \in [Ids -> Labels \cup {None}]
          /\ rows' = rows \ {i}
          /\ \A j \in rows' : label'[j] = label[j]
      BY <3>1 DEF TypeOK, rows
    <3>. QED
      BY <2>4, <2>req, <3>1, <3>2 DEF DeleteServer, TypeOK, Requests
  <2>5. CASE SetActiveServer(w) \/ Logout(w)
    BY <2>5, <2>req DEF SetActiveServer, Logout, TypeOK, rows, Requests
  <2>. QED
    BY <1>1, <2>1, <2>2, <2>3, <2>4, <2>5
       DEF Step, CreateServer, SeedRegistry, UpdateServer, ClearDefault,
           ActiveServer, FindDefault, FindLowest
<1>2. CASE UNCHANGED vars
  BY <1>2 DEF vars, TypeOK, rows
<1>. QED
  BY <1>1, <1>2 DEF Next

(* The tables, the cookies and the steps of the threads keep their types,  *)
(* the labels stay distinct and only existing rows are flagged.            *)
THEOREM TypeCorrect == Spec => []TypeOK
  BY InitTypeOK, NextTypeOK, PTL DEF Spec

-----------------------------------------------------------------------------
\* What each step does to the flags and to the threads between the two
\* statements of a request for the default.
LEMMA StepSlots ==
  ASSUME TypeOK, NEW w \in Workers, Step(w)
  PROVE  \/ isDefault' = {} /\ Clearing' = Clearing \cup {w}
         \/ isDefault' \subseteq isDefault /\ Clearing' = Clearing \ {w}
         \/ /\ w \in Clearing /\ Clearing' = Clearing \ {w}
            /\ \E i \in Ids : isDefault' = isDefault \cup {i}
<1>1. CASE CreateServer(w) \/ SeedRegistry(w) \/ UpdateServer(w)
  <2>1. /\ isDefault' = isDefault
        /\ \E id, l : \E default \in BOOLEAN : Write(w, id, l, default)
        /\ w \notin Clearing
    BY <1>1 DEF CreateServer, SeedRegistry, UpdateServer, Clearing
  <2>2. \A v \in Workers \ {w} : req'[v] = req[v]
    BY <2>1 DEF Write, TypeOK
  <2>3. ~(req'[w].pc = "write" /\ req'[w].default)
    BY <2>1 DEF Write, FirstStep, TypeOK
  <2>. QED
    BY <2>1, <2>2, <2>3 DEF Clearing
<1>2. CASE ClearDefault(w)
  <2>1. isDefault' = {} /\ \A v \in Workers \ {w} : req'[v] = req[v]
    BY <1>2 DEF ClearDefault, TypeOK
  <2>2. req'[w].pc = "write" /\ req'[w].default = req[w].default
    BY <1>2 DEF ClearDefault, TypeOK
  <2>3. CASE req[w].default
    BY <2>1, <2>2, <2>3 DEF Clearing
  <2>4. CASE ~req[w].default
    BY <2>1, <2>2, <2>4 DEF Clearing
  <2>. QED
    BY <2>3, <2>4
<1>3. CASE Insert(w) \/ Update(w)
  <2>1. \A v \in Workers \ {w} : req'[v] = req[v]
    BY <1>3 DEF Insert, Update, Return, TypeOK
  <2>2. req'[w].pc = "idle"
    BY <1>3 DEF Insert, Update, Return, Idle, TypeOK
  <2>3. Clearing' = Clearing \ {w}
    BY <2>1, <2>2 DEF Clearing
  <2>4. \/ isDefault' = isDefault
        \/ \E i \in Ids : Store(w, i)
    BY <1>3 DEF Insert, Update, Refuse, Refused, rows, Ids, TypeOK
  <2>5. ASSUME NEW i \in Ids, Store(w, i), req[w].default
        PROVE  w \in Clearing /\ isDefault' = isDefault \cup {i}
    BY <1>3, <2>5 DEF Store, Flagged, Clearing, Insert, Update
  <2>6. ASSUME NEW i \in Ids, Store(w, i), ~req[w].default
        PROVE  isDefault' \subseteq isDefault
    BY <2>6 DEF Store, Flagged
  <2>. QED
    BY <2>3, <2>4, <2>5, <2>6
<1>4. CASE DeleteServer(w) \/ SetActiveServer(w) \/ Logout(w)
  <2>1. isDefault' \subseteq isDefault /\ Clearing' = Clearing /\ w \notin Clearing
    BY <1>4 DEF DeleteServer, SetActiveServer, Logout, Clearing
  <2>. QED
    BY <2>1
<1>5. CASE ActiveServer(w) \/ FindDefault(w) \/ FindLowest(w)
  <2>1. isDefault' = isDefault /\ \A v \in Workers \ {w} : req'[v] = req[v]
    BY <1>5 DEF ActiveServer, FindDefault, FindLowest, Return, Goto, TypeOK
  <2>2. req'[w].pc # "write"
    BY <1>5 DEF ActiveServer, FindDefault, FindLowest, Return, Goto, Idle, TypeOK
  <2>. QED
    BY <2>1, <2>2 DEF Clearing
<1>. QED
  BY <1>1, <1>2, <1>3, <1>4, <1>5 DEF Step

LEMMA FiniteSets ==
  ASSUME TypeOK
  PROVE  /\ IsFiniteSet(isDefault) /\ Cardinality(isDefault) \in Nat
         /\ IsFiniteSet(Clearing) /\ Cardinality(Clearing) \in Nat
         /\ Cardinality(Clearing) <= Cardinality(Workers)
         /\ Cardinality(Workers) \in Nat
<1>1. IsFiniteSet(Ids)
  BY RegistryAssumption, FS_Interval DEF Ids
<1>2. isDefault \subseteq Ids /\ Clearing \subseteq Workers
  BY DEF TypeOK, rows, Clearing
<1>. QED
  BY <1>1, <1>2, RegistryAssumption, FS_Subset, FS_CardinalityType

LEMMA NextSlots == TypeOK /\ TypeOK' /\ Slots /\ [Next]_vars => Slots'
<1>. SUFFICES ASSUME TypeOK, TypeOK', Slots, [Next]_vars PROVE Slots'
  OBVIOUS
<1>f. /\ IsFiniteSet(isDefault) /\ Cardinality(isDefault) \in Nat
      /\ IsFiniteSet(Clearing) /\ Cardinality(Clearing) \in Nat
      /\ Cardinality(Workers) \in Nat
  BY FiniteSets
<1>g. IsFiniteSet(Clearing') /\ Clearing' \subseteq Workers
  BY FS_Subset, RegistryAssumption DEF Clearing
<1>1. ASSUME NEW w \in Workers, Step(w) PROVE Slots'
  <2>1. CASE isDefault' = {}
    <3>1. Cardinality(isDefault') = 0
      BY <2>1, FS_EmptySet
    <3>2. Cardinality(Clearing') \in Nat /\ Cardinality(Clearing') <= Cardinality(Workers)
      BY <1>g, FS_Subset, FS_CardinalityType, RegistryAssumption
    <3>. QED
      BY <3>1, <3>2 DEF Slots
  <2>2. CASE isDefault' \subseteq isDefault /\ Clearing' = Clearing \ {w}
    <3>1. /\ Cardinality(isDefault') \in Nat
          /\ Cardinality(isDefault') <= Cardinality(isDefault)
      BY <1>f, <2>2, FS_Subset, FS_CardinalityType
    <3>2. /\ Cardinality(Clearing') \in Nat
          /\ Cardinality(Clearing') <= Cardinality(Clearing)
      BY <1>f, <2>2, FS_Subset, FS_CardinalityType
    <3>. QED
      BY <1>f, <3>1, <3>2 DEF Slots
  <2>3. CASE /\ w \in Clearing /\ Clearing' = Clearing \ {w}
             /\ \E i \in Ids : isDefault' = isDefault \cup {i}
    <3>1. PICK i \in Ids : isDefault' = isDefault \cup {i}
      BY <2>3
    <3>2. /\ Cardinality(isDefault') \in Nat
          /\ Cardinality(isDefault') <= Cardinality(isDefault) + 1
      <4>1. \/ Cardinality(isDefault') = Cardinality(isDefault)
            \/ Cardinality(isDefault') = Cardinality(isDefault) + 1
        BY <1>f, <3>1, FS_AddElement
      <4>. QED
        BY <1>f, <4>1
    <3>3. Cardinality(Clearing') = Cardinality(Clearing) - 1
      BY <1>f, <2>3, FS_RemoveElement
    <3>. QED
      BY <1>f, <3>2, <3>3 DEF Slots
  <2>. QED
    BY <1>1, <2>1, <2>2, <2>3, StepSlots
<1>2. CASE UNCHANGED vars
  BY <1>2 DEF vars, Slots, Clearing
<1>. QED
  BY <1>1, <1>2 DEF Next

(* However the requests interleave, there are never more defaults than     *)
(* request threads.                                                        *)
THEOREM DefaultsBoundedAlways == Spec => []DefaultsBounded
<1>1. Init => Slots
  <2>. SUFFICES ASSUME Init PROVE Slots
    OBVIOUS
  <2>1. isDefault = {} /\ Clearing = {}
    BY DEF Init, Clearing, Idle
  <2>. QED
    BY <2>1, FS_EmptySet, FS_CardinalityType, RegistryAssumption DEF Slots
<1>2. TypeOK /\ Slots => DefaultsBounded
  BY FiniteSets DEF Slots, DefaultsBounded
<1>. QED
  BY <1>1, <1>2, InitTypeOK, NextTypeOK, NextSlots, PTL DEF Spec

-----------------------------------------------------------------------------
\* Deletions and writes without the flag take a row from both sets; a write
\* with it makes its row the only one promised; a clear empties the flags.
LEMMA NextKept == TypeOK /\ Kept /\ [Next]_vars => Kept'
<1>. SUFFICES ASSUME TypeOK, Kept, [Next]_vars PROVE Kept'
  OBVIOUS
<1>1. ASSUME NEW w \in Workers, Step(w) PROVE Kept'
  <2>1. CASE Insert(w) \/ Update(w)
    <3>1. /\ \A v \in Workers \ {w} : req'[v] = req[v]
          /\ req'[w].pc = "idle"
      BY <2>1 DEF Insert, Update, Return, Idle, TypeOK
    <3>2. \/ Refuse(w)
          \/ \E i \in Ids : Store(w, i)
      BY <2>1 DEF Insert, Update, Refused, rows, Ids, TypeOK
    <3>3. CASE req[w].default
      <4>1. promised' \subseteq isDefault'
        BY <3>2, <3>3 DEF Refuse, Store, Flagged
      <4>. QED
        BY <3>1, <4>1 DEF Kept, Clearing
    <3>4. CASE ~req[w].default
      <4>1. Clearing' = Clearing
        BY <3>1, <3>4, <2>1 DEF Clearing
      <4>2. promised \subseteq isDefault => promised' \subseteq isDefault'
        BY <3>2, <3>4 DEF Refuse, Store, Flagged
      <4>. QED
        BY <3>1, <4>1, <4>2 DEF Kept
    <3>. QED
      BY <3>3, <3>4
  <2>2. CASE ClearDefault(w)
    <3>1. /\ \A v \in Workers \ {w} : req'[v] = req[v]
          /\ req'[w].pc = "write" /\ req'[w].default = req[w].default
      BY <2>2 DEF ClearDefault, TypeOK
    <3>2. w \in Clearing'
      BY <2>2, <3>1 DEF ClearDefault, Kept, Clearing
    <3>. QED
      BY <3>1, <3>2 DEF Kept
  <2>3. CASE DeleteServer(w)
    BY <2>3 DEF DeleteServer, Kept, Clearing
  <2>4. CASE CreateServer(w) \/ SeedRegistry(w) \/ UpdateServer(w)
    <3>1. /\ UNCHANGED <<isDefault, promised>> /\ req[w].pc = "idle"
          /\ \E id, l : \E default \in BOOLEAN : Write(w, id, l, default)
      BY <2>4 DEF CreateServer, SeedRegistry, UpdateServer
    <3>2. /\ \A v \in Workers \ {w} : req'[v] = req[v]
          /\ req'[w].pc = "clear" => req'[w].default
          /\ ~(req'[w].pc = "write" /\ req'[w].default)
      BY <3>1 DEF Write, FirstStep, TypeOK
    <3>3. Clearing' = Clearing
      BY <3>1, <3>2 DEF Clearing
    <3>. QED
      BY <3>1, <3>2, <3>3 DEF Kept
  <2>5. CASE \/ SetActiveServer(w) \/ Logout(w)
             \/ ActiveServer(w) \/ FindDefault(w) \/ FindLowest(w)
    <3>1. /\ UNCHANGED <<isDefault, promised>> /\ req[w].pc \notin {"write", "clear"}
          /\ \A v \in Workers \ {w} : req'[v] = req[v]
          /\ req'[w].pc \notin {"write", "clear"}
      BY <2>5 DEF SetActiveServer, Logout, ActiveServer, FindDefault, FindLowest,
                  Return, Goto, Idle, TypeOK
    <3>2. Clearing' = Clearing
      BY <3>1 DEF Clearing
    <3>. QED
      BY <3>1, <3>2 DEF Kept
  <2>. QED
    BY <1>1, <2>1, <2>2, <2>3, <2>4, <2>5 DEF Step
<1>2. CASE UNCHANGED vars
  BY <1>2 DEF vars, Kept, Clearing
<1>. QED
  BY <1>1, <1>2 DEF Next

(* A request that names no server gets the default one, unless another     *)
(* request is about to set a new default at that moment.                   *)
THEOREM DefaultFound == Spec => FallbackFindsDefault
<1>1. Init => Kept
  BY DEF Init, Kept, Idle
<1>2. TypeOK /\ Kept /\ [Next]_vars
        => [\A w \in Workers :
              req[w].pc = "default" /\ req'[w].pc = "lowest"
                 => promised = {} \/ Clearing # {}]_vars
  <2>. SUFFICES ASSUME TypeOK, Kept, [Next]_vars, NEW t \in Workers,
                       req[t].pc = "default", req'[t].pc = "lowest", Clearing = {}
                PROVE  promised = {}
    BY DEF vars
  <2>1. req' # req
    OBVIOUS
  <2>2. PICK w \in Workers : Step(w)
    BY <2>1 DEF Next, vars
  <2>3. w = t
    BY <2>2 DEF Step, CreateServer, SeedRegistry, UpdateServer, ClearDefault, Insert,
                Update, DeleteServer, SetActiveServer, Logout, ActiveServer, FindDefault,
                FindLowest, Write, Return, Goto, TypeOK
  <2>4. FindDefault(t)
    BY <2>2, <2>3 DEF Step, CreateServer, SeedRegistry, UpdateServer, ClearDefault, Insert,
                Update, DeleteServer, SetActiveServer, Logout, ActiveServer, FindLowest
  <2>5. isDefault = {}
    BY <2>4 DEF FindDefault, Return, Idle, TypeOK
  <2>. QED
    BY <2>5 DEF Kept
<1>. QED
  BY <1>1, <1>2, InitTypeOK, NextTypeOK, NextKept, PTL DEF Spec, FallbackFindsDefault
=============================================================================
