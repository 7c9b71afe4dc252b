----------------------------- MODULE PoolProofs -----------------------------
(***************************************************************************)
(* Proofs about Pool: in the hands of callers that respect ownership, the  *)
(* counters and the cached ids agree with the map after every operation,   *)
(* for any set of addresses, structs and protocols.                        *)
(***************************************************************************)
EXTENDS Pool, FiniteSetTheorems, TLAPS

USE DEF States, Counted

\* The types, without the claim that counters are never negative.
Shape ==
  /\ obj \in [Obj -> Proxy]
  /\ proxies \in [Addr -> Obj \cup {NoObj}]
  /\ aliveIDs \subseteq Addr
  /\ total \in Int
  /\ count \in [Counted -> Int]
  /\ protoCount \in [Protocol -> Nat]
  /\ deadTimes \in 0..MaxDeadTimes

\* The inductive invariant.  KeysMatch is what makes it inductive: without it
\* an Add under one id could change the state of a struct filed under another.
IInv == Shape /\ KeysMatch /\ CountersExact /\ RotationExact

Held == {a \in Addr : Exists(a)}

-----------------------------------------------------------------------------
(* Counting *)

\* How a count changes when a set of ids gains or loses at most the id a:
\* the arithmetic that adjustCounters does for each state.
LEMMA Recount ==
  ASSUME NEW S \in SUBSET Addr, NEW T \in SUBSET Addr, NEW a \in Addr,
         S \ {a} = T \ {a}
  PROVE  /\ Cardinality(S) \in Nat /\ Cardinality(T) \in Nat
         /\ Cardinality(T) = Cardinality(S) + (IF a \in T THEN 1 ELSE 0)
                                            - (IF a \in S THEN 1 ELSE 0)
<1>1. IsFiniteSet(S) /\ IsFiniteSet(T)
  BY FS_Subset, PoolAssumption DEF PoolAssumption
<1>2. Cardinality(S) \in Nat /\ Cardinality(T) \in Nat
  BY <1>1, FS_CardinalityType
<1>3. CASE (a \in S) = (a \in T)
  <2>1. S = T
    BY <1>3
  <2> QED
    BY <2>1, <1>2
<1>4. CASE a \in S /\ a \notin T
  <2>1. T = S \ {a}
    BY <1>4
  <2>2. Cardinality(T) = Cardinality(S) - 1
    BY <2>1, <1>1, <1>4, FS_RemoveElement
  <2> QED
    BY <2>2, <1>2, <1>4
<1>5. CASE a \notin S /\ a \in T
  <2>1. T = S \cup {a}
    BY <1>5
  <2>2. Cardinality(T) = Cardinality(S) + 1
    BY <2>1, <1>1, <1>5, FS_AddElement
  <2> QED
    BY <2>2, <1>2, <1>5
<1> QED
  BY <1>3, <1>4, <1>5

\* The counters of IInv are cardinalities, so they are never negative.
LEMMA TypesFromInv == IInv => PoolTypeOK
<1> SUFFICES ASSUME IInv PROVE PoolTypeOK
  OBVIOUS
<1>1. \A S \in SUBSET Addr : Cardinality(S) \in Nat
  BY FS_Subset, FS_CardinalityType, PoolAssumption DEF PoolAssumption
<1>2. total \in Nat
  BY <1>1 DEF IInv, CountersExact
<1>3. \A s \in Counted : IdsIn(obj, proxies, s) \in SUBSET Addr
  BY DEF IdsIn
<1>4. \A s \in Counted : count[s] \in Nat
  BY <1>1, <1>3 DEF IInv, CountersExact
<1>5. count \in [Counted -> Nat]
  BY <1>4 DEF IInv, Shape
<1> QED
  BY <1>2, <1>5 DEF IInv, Shape, PoolTypeOK

-----------------------------------------------------------------------------
(* Operators *)

\* Transfer takes one from the counter of a state and gives it to another.
LEMMA TransferStep ==
  ASSUME NEW c \in [Counted -> Int], NEW from \in States, NEW to \in States
  PROVE  /\ Transfer(c, from, to) \in [Counted -> Int]
         /\ \A s \in Counted :
              Transfer(c, from, to)[s] =
                c[s] + (IF to = s THEN 1 ELSE 0) - (IF from = s THEN 1 ELSE 0)
<1>1. Bump(c, from, -1) \in [Counted -> Int]
  BY DEF Bump
<1>2. \A s \in Counted : Bump(c, from, -1)[s] = c[s] - (IF from = s THEN 1 ELSE 0)
  BY DEF Bump
<1>3. ASSUME NEW d \in [Counted -> Int]
      PROVE  /\ Bump(d, to, 1) \in [Counted -> Int]
             /\ \A s \in Counted : Bump(d, to, 1)[s] = d[s] + (IF to = s THEN 1 ELSE 0)
  BY DEF Bump
<1>4. Transfer(c, from, to) = Bump(Bump(c, from, -1), to, 1)
  BY DEF Transfer
<1> QED
  BY <1>1, <1>2, <1>3, <1>4

\* MoveProto keeps the protocol counts natural numbers.
LEMMA MoveProtoType ==
  ASSUME NEW c \in [Protocol -> Nat], NEW from, NEW to, NEW p \in Protocol
  PROVE  MoveProto(c, from, to, p) \in [Protocol -> Nat]
BY DEF MoveProto, ReleaseProto, ClaimProto

\* AdjustCounters moves one unit from one state to another and keeps the types.
LEMMA AdjustStep ==
  ASSUME Shape, NEW from \in States, NEW to \in States, NEW p \in Protocol,
         AdjustCounters(from, to, p)
  PROVE  /\ count' \in [Counted -> Int]
         /\ protoCount' \in [Protocol -> Nat]
         /\ deadTimes' \in 0..MaxDeadTimes
         /\ \A s \in Counted : count'[s] =
              count[s] + (IF to = s THEN 1 ELSE 0) - (IF from = s THEN 1 ELSE 0)
<1>1. count \in [Counted -> Int] /\ protoCount \in [Protocol -> Nat]
      /\ deadTimes \in 0..MaxDeadTimes
  BY DEF Shape
<1>2. deadTimes' \in 0..MaxDeadTimes
  BY <1>1, PoolAssumption DEF AdjustCounters, NoteDeath, PoolAssumption
<1>3. protoCount' \in [Protocol -> Nat]
  BY <1>1, MoveProtoType DEF AdjustCounters
<1>4. count' = Transfer(count, from, to)
  BY DEF AdjustCounters
<1>5. /\ count' \in [Counted -> Int]
      /\ \A s \in Counted : count'[s] =
           count[s] + (IF to = s THEN 1 ELSE 0) - (IF from = s THEN 1 ELSE 0)
  <2> HIDE DEF States, Counted
  <2> QED
    BY <1>1, <1>4, TransferStep
<1> QED
  BY <1>2, <1>3, <1>5

\* Merge writes only to the struct it is given, never to its address or
\* protocol, and leaves it alone when the pool already holds that struct.
LEMMA MergeStep ==
  ASSUME Shape, NEW h \in [Obj -> Proxy], NEW o \in Obj
  PROVE  /\ Merge(h, o) \in [Obj -> Proxy]
         /\ Merge(h, o)[o].addr = h[o].addr
         /\ Merge(h, o)[o].proto = h[o].proto
         /\ \A x \in Obj : x # o => Merge(h, o)[x] = h[x]
         /\ proxies[h[o].addr] = o => Merge(h, o) = h
<1> DEFINE prev == h[proxies[h[o].addr]]
           cond == /\ Exists(h[o].addr)
                   /\ h[o].state = "DISCOVERED" /\ prev.state # "DISCOVERED"
<1>1. h[o] \in Proxy /\ h[o].addr \in Addr
  BY DEF Proxy
<1>2. CASE cond
  <2>1. prev \in Proxy
    BY <1>1, <1>2 DEF Shape, Exists
  <2>2. [h[o] EXCEPT !.state = prev.state, !.ok = prev.ok, !.fail = prev.fail]
          \in Proxy
    BY <1>1, <2>1 DEF Proxy
  <2>3. Merge(h, o) = [h EXCEPT ![o] =
          [h[o] EXCEPT !.state = prev.state, !.ok = prev.ok, !.fail = prev.fail]]
    BY <1>2 DEF Merge
  <2>4. proxies[h[o].addr] # o
    BY <1>2
  <2>5. /\ [h[o] EXCEPT !.state = prev.state, !.ok = prev.ok,
                        !.fail = prev.fail].addr = h[o].addr
        /\ [h[o] EXCEPT !.state = prev.state, !.ok = prev.ok,
                        !.fail = prev.fail].proto = h[o].proto
    BY <1>1 DEF Proxy
  <2> HIDE DEF prev
  <2> QED
    BY <2>2, <2>3, <2>4, <2>5
<1>3. CASE ~cond
  <2>1. Merge(h, o) = h
    BY <1>3 DEF Merge
  <2> QED
    BY <2>1
<1> QED
  BY <1>2, <1>3

-----------------------------------------------------------------------------
(* The actions *)

\* A step that files o under a and leaves the other entries alone changes the
\* ids in state s at most by a.
LEMMA OthersKept ==
  ASSUME NEW a \in Addr, NEW s,
         \A b \in Addr \ {a} :
           /\ proxies'[b] = proxies[b]
           /\ Exists(b) => obj'[proxies[b]].state = obj[proxies[b]].state
  PROVE  IdsIn(obj, proxies, s) \ {a} = IdsIn(obj', proxies', s) \ {a}
BY DEF IdsIn, Exists

\* Add keeps the invariant on any heap h that agrees with obj about every
\* struct in the pool, whether the pool already holds o or not.
LEMMA AddStep ==
  ASSUME IInv, NEW h \in [Obj -> Proxy], NEW o \in Obj,
         \A b \in Addr : Exists(b) => h[proxies[b]] = obj[proxies[b]],
         \A b \in Addr : proxies[b] = o => b = h[o].addr,
         Add(h, o)
  PROVE  IInv'
<1> DEFINE a == h[o].addr
           g == Merge(h, o)
           from == PrevState(g, a)
           to == g[o].state
<1>1. Shape /\ KeysMatch /\ CountersExact /\ RotationExact
  BY DEF IInv
<1>2. a \in Addr
  BY DEF Proxy
<1>3. /\ g \in [Obj -> Proxy]
      /\ g[o].addr = a
      /\ \A x \in Obj : x # o => g[x] = h[x]
      /\ proxies[a] = o => g = h
  BY <1>1, MergeStep
<1>4. NoObj \notin Obj
  BY PoolAssumption DEF PoolAssumption
<1>5. \A b \in Addr : Exists(b) => proxies[b] \in Obj
  BY <1>1 DEF Shape, Exists
<1>6. /\ total' = TotalAfterAdd(a)
      /\ obj' = [g EXCEPT ![o].dirty = TRUE]
      /\ proxies' = [proxies EXCEPT ![a] = o]
      /\ AdjustCounters(from, to, g[o].proto)
      /\ aliveIDs' = RotationAfter(g, [proxies EXCEPT ![a] = o], Exists(a), from, to)
  BY <1>3 DEF Add, Publish
<1>7. \A b \in Addr : Exists(b) => g[proxies[b]] = obj[proxies[b]]
  BY <1>2, <1>3, <1>5
<1> HIDE DEF a, g
<1>8. /\ obj' \in [Obj -> Proxy]
      /\ \A x \in Obj : obj'[x].state = g[x].state /\ obj'[x].addr = g[x].addr
  <2>1. g[o] \in Proxy
    BY <1>3
  <2>2. /\ [g[o] EXCEPT !.dirty = TRUE] \in Proxy
        /\ [g[o] EXCEPT !.dirty = TRUE].state = g[o].state
        /\ [g[o] EXCEPT !.dirty = TRUE].addr = g[o].addr
    BY <2>1 DEF Proxy
  <2>3. obj' = [g EXCEPT ![o] = [g[o] EXCEPT !.dirty = TRUE]]
    BY <1>6
  <2> QED
    BY <2>2, <2>3, <1>3
<1>9. /\ proxies' \in [Addr -> Obj \cup {NoObj}]
      /\ proxies'[a] = o
      /\ \A b \in Addr \ {a} : proxies'[b] = proxies[b]
  BY <1>1, <1>2, <1>6 DEF Shape
<1>10. from \in States /\ to \in States /\ g[o].proto \in Protocol
  <2>1. to \in States /\ g[o].proto \in Protocol
    BY <1>3 DEF Proxy
  <2>2. from \in States
    BY <1>2, <1>3, <1>5 DEF PrevState, Proxy
  <2> QED
    BY <2>1, <2>2
<1>11. /\ count' \in [Counted -> Int]
       /\ protoCount' \in [Protocol -> Nat]
       /\ deadTimes' \in 0..MaxDeadTimes
       /\ \A s \in Counted : count'[s] =
            count[s] + (IF to = s THEN 1 ELSE 0) - (IF from = s THEN 1 ELSE 0)
  BY <1>1, <1>6, <1>10, AdjustStep
<1>12. ASSUME NEW s \in Counted
       PROVE  /\ IdsIn(obj, proxies, s) \ {a} = IdsIn(obj', proxies', s) \ {a}
              /\ a \in IdsIn(obj', proxies', s) <=> to = s
              /\ a \in IdsIn(obj, proxies, s) <=> from = s
  <2>1. \A b \in Addr \ {a} : Exists(b) => obj'[proxies[b]].state = obj[proxies[b]].state
    BY <1>5, <1>7, <1>8
  <2>2. IdsIn(obj, proxies, s) \ {a} = IdsIn(obj', proxies', s) \ {a}
    BY <2>1, <1>2, <1>9, OthersKept
  <2>3. a \in IdsIn(obj', proxies', s) <=> to = s
    BY <1>2, <1>4, <1>8, <1>9 DEF IdsIn
  <2>4. a \in IdsIn(obj, proxies, s) <=> from = s
    BY <1>2, <1>7 DEF IdsIn, PrevState, Exists
  <2> QED
    BY <2>2, <2>3, <2>4
<1> HIDE DEF from, to
<1>13. \A s \in Counted : /\ IdsIn(obj, proxies, s) \in SUBSET Addr
                          /\ IdsIn(obj', proxies', s) \in SUBSET Addr
  BY DEF IdsIn
<1>14. \A s \in Counted : count'[s] = Cardinality(IdsIn(obj', proxies', s))
  <2> SUFFICES ASSUME NEW s \in Counted
               PROVE  count'[s] = Cardinality(IdsIn(obj', proxies', s))
    OBVIOUS
  <2> DEFINE S == IdsIn(obj, proxies, s)
             T == IdsIn(obj', proxies', s)
  <2>1. S \in SUBSET Addr /\ T \in SUBSET Addr /\ S \ {a} = T \ {a}
    BY <1>12, <1>13
  <2>2. (a \in T <=> to = s) /\ (a \in S <=> from = s)
    BY <1>12
  <2>3. count[s] = Cardinality(S)
    BY <1>1 DEF CountersExact
  <2> HIDE DEF S, T
  <2>4. /\ Cardinality(S) \in Nat /\ Cardinality(T) \in Nat
        /\ Cardinality(T) = Cardinality(S) + (IF a \in T THEN 1 ELSE 0)
                                           - (IF a \in S THEN 1 ELSE 0)
    BY <2>1, <1>2, Recount
  <2>5. count'[s] = count[s] + (IF to = s THEN 1 ELSE 0) - (IF from = s THEN 1 ELSE 0)
    BY <1>11
  <2>6. count'[s] = Cardinality(T)
    BY <2>2, <2>3, <2>4, <2>5
  <2> QED
    BY <2>6 DEF T
<1>15. total' = Cardinality(Held') /\ total' \in Int
  <2>1. Held \in SUBSET Addr /\ Held' \in SUBSET Addr
    BY DEF Held
  <2>2. Held \ {a} = Held' \ {a} /\ a \in Held' /\ (a \in Held <=> Exists(a))
    BY <1>2, <1>4, <1>9 DEF Held, Exists
  <2>3. total = Cardinality(Held)
    BY <1>1 DEF CountersExact, Held
  <2>4. /\ Cardinality(Held) \in Nat
        /\ Cardinality(Held') = Cardinality(Held) + 1 - (IF a \in Held THEN 1 ELSE 0)
    BY <2>1, <2>2, <1>2, Recount
  <2> QED
    BY <2>2, <2>3, <2>4, <1>6 DEF TotalAfterAdd
<1>16. aliveIDs' = IdsIn(obj', proxies', "ALIVE")
  <2>1. IdsIn(g, proxies', "ALIVE") = IdsIn(obj', proxies', "ALIVE")
    BY <1>4, <1>8, <1>9 DEF IdsIn
  <2>2. CASE (from = "ALIVE") # (to = "ALIVE") \/ ~Exists(a)
    <3>1. aliveIDs' = IdsIn(g, proxies', "ALIVE")
      BY <2>2, <1>6 DEF RotationAfter
    <3> QED
      BY <3>1, <2>1
  <2>3. CASE ~((from = "ALIVE") # (to = "ALIVE") \/ ~Exists(a))
    <3>1. aliveIDs' = aliveIDs
      BY <2>3, <1>6 DEF RotationAfter
    <3>2. a \in IdsIn(obj', proxies', "ALIVE") <=> a \in IdsIn(obj, proxies, "ALIVE")
      BY <2>3, <1>12
    <3>3. IdsIn(obj, proxies, "ALIVE") = IdsIn(obj', proxies', "ALIVE")
      BY <3>2, <1>12
    <3> QED
      BY <3>1, <3>3, <1>1 DEF RotationExact
  <2> QED
    BY <2>2, <2>3
<1>17. KeysMatch'
  <2> SUFFICES ASSUME NEW b \in Addr, Exists(b)'
               PROVE  obj'[proxies'[b]].addr = b
    BY DEF KeysMatch
  <2>1. CASE b = a
    BY <2>1, <1>3, <1>8, <1>9
  <2>2. CASE b # a
    BY <2>2, <1>1, <1>5, <1>7, <1>8, <1>9 DEF KeysMatch, Exists
  <2> QED
    BY <2>1, <2>2
<1>18. CountersExact'
  BY <1>14, <1>15 DEF CountersExact, Held
<1>19. Shape'
  BY <1>8, <1>9, <1>11, <1>15, <1>16, <1>13 DEF Shape
<1> QED
  BY <1>16, <1>17, <1>18, <1>19 DEF IInv, RotationExact

\* Adding a struct nobody holds preserves the invariant.
LEMMA AddFreshStep ==
  ASSUME IInv, NEW o \in Obj, NEW r \in Given, AddFresh(o, r)
  PROVE  IInv'
<1> DEFINE h == [obj EXCEPT ![o] = r]
<1>1. ~InPool(o) /\ Add(h, o)
  BY DEF AddFresh
<1>2. obj \in [Obj -> Proxy] /\ r \in Proxy
  BY PoolAssumption DEF IInv, Shape, PoolAssumption
<1>3. h \in [Obj -> Proxy]
  BY <1>2
<1>4. \A b \in Addr : proxies[b] # o
  BY <1>1 DEF InPool
<1>5. \A b \in Addr : Exists(b) => h[proxies[b]] = obj[proxies[b]]
  BY <1>2, <1>4 DEF IInv, Shape, Exists
<1> HIDE DEF h
<1> QED
  BY <1>1, <1>3, <1>4, <1>5, AddStep

\* So does adding again a struct the pool holds.
LEMMA AddAgainStep ==
  ASSUME IInv, NEW o \in Obj, AddAgain(o)
  PROVE  IInv'
<1>1. Add(obj, o)
  BY DEF AddAgain
<1>2. obj \in [Obj -> Proxy]
  BY DEF IInv, Shape
<1>3. \A b \in Addr : proxies[b] = o => b = obj[o].addr
  BY PoolAssumption DEF IInv, KeysMatch, Exists, PoolAssumption
<1> QED
  BY <1>1, <1>2, <1>3, AddStep

\* So does Remove, which counts down the state the struct is in.
LEMMA RemoveStep ==
  ASSUME IInv, NEW a \in Addr, Remove(a)
  PROVE  IInv'
<1> DEFINE from == obj[proxies[a]].state
<1>1. Shape /\ KeysMatch /\ CountersExact /\ RotationExact
  BY DEF IInv
<1>2. /\ Exists(a)
      /\ proxies' = [proxies EXCEPT ![a] = NoObj]
      /\ total' = total - 1
      /\ AdjustCounters(from, "DISCOVERED", obj[proxies[a]].proto)
      /\ aliveIDs' = IF from = "ALIVE"
                     THEN IdsIn(obj, [proxies EXCEPT ![a] = NoObj], "ALIVE")
                     ELSE aliveIDs
      /\ obj' = obj
  BY DEF Remove
<1>3. obj[proxies[a]] \in Proxy
  BY <1>1, <1>2 DEF Shape, Exists
<1>4. from \in States /\ obj[proxies[a]].proto \in Protocol
  BY <1>3 DEF Proxy
<1>5. /\ count' \in [Counted -> Int]
      /\ protoCount' \in [Protocol -> Nat]
      /\ deadTimes' \in 0..MaxDeadTimes
      /\ \A s \in Counted : count'[s] = count[s] - (IF from = s THEN 1 ELSE 0)
  <2> HIDE DEF from
  <2>1. "DISCOVERED" \in States /\ \A s \in Counted : s # "DISCOVERED"
    OBVIOUS
  <2>2. /\ count' \in [Counted -> Int]
        /\ protoCount' \in [Protocol -> Nat]
        /\ deadTimes' \in 0..MaxDeadTimes
        /\ \A s \in Counted : count'[s] =
             count[s] + (IF "DISCOVERED" = s THEN 1 ELSE 0) - (IF from = s THEN 1 ELSE 0)
    BY <1>1, <1>2, <1>4, <2>1, AdjustStep
  <2>3. count \in [Counted -> Int]
    BY <1>1 DEF Shape
  <2> QED
    BY <2>1, <2>2, <2>3
<1>6. /\ proxies' \in [Addr -> Obj \cup {NoObj}]
      /\ proxies'[a] = NoObj
      /\ \A b \in Addr \ {a} : proxies'[b] = proxies[b]
  BY <1>1, <1>2 DEF Shape
<1>7. ASSUME NEW s \in Counted
      PROVE  /\ IdsIn(obj, proxies, s) \ {a} = IdsIn(obj', proxies', s) \ {a}
             /\ a \notin IdsIn(obj', proxies', s)
             /\ a \in IdsIn(obj, proxies, s) <=> from = s
             /\ IdsIn(obj, proxies, s) \in SUBSET Addr
             /\ IdsIn(obj', proxies', s) \in SUBSET Addr
  BY <1>2, <1>6 DEF IdsIn, Exists
<1> HIDE DEF from
<1>8. \A s \in Counted : count'[s] = Cardinality(IdsIn(obj', proxies', s))
  <2> SUFFICES ASSUME NEW s \in Counted
               PROVE  count'[s] = Cardinality(IdsIn(obj', proxies', s))
    OBVIOUS
  <2> DEFINE S == IdsIn(obj, proxies, s)
             T == IdsIn(obj', proxies', s)
  <2>1. S \in SUBSET Addr /\ T \in SUBSET Addr /\ S \ {a} = T \ {a}
        /\ a \notin T /\ (a \in S <=> from = s)
    BY <1>7
  <2>2. count[s] = Cardinality(S) /\ count'[s] = count[s] - (IF from = s THEN 1 ELSE 0)
    BY <1>1, <1>5 DEF CountersExact
  <2> HIDE DEF S, T
  <2>3. /\ Cardinality(S) \in Nat
        /\ Cardinality(T) = Cardinality(S) - (IF a \in S THEN 1 ELSE 0)
    BY <2>1, Recount
  <2>4. count'[s] = Cardinality(T)
    BY <2>1, <2>2, <2>3
  <2> QED
    BY <2>4 DEF T
<1>9. total' = Cardinality(Held') /\ total' \in Int
  <2>1. Held \in SUBSET Addr /\ Held' \in SUBSET Addr
    BY DEF Held
  <2>2. Held \ {a} = Held' \ {a} /\ a \notin Held' /\ a \in Held
    BY <1>2, <1>6 DEF Held, Exists
  <2>3. Cardinality(Held) \in Nat /\ Cardinality(Held') = Cardinality(Held) - 1
    BY <2>1, <2>2, Recount
  <2> QED
    BY <2>3, <1>1, <1>2 DEF CountersExact, Held
<1>10. aliveIDs' = IdsIn(obj', proxies', "ALIVE")
  <2>1. CASE from = "ALIVE"
    <3>1. aliveIDs' = IdsIn(obj, [proxies EXCEPT ![a] = NoObj], "ALIVE")
      BY <1>2, <2>1
    <3> QED
      BY <3>1, <1>2
  <2>2. CASE from # "ALIVE"
    <3>1. aliveIDs' = aliveIDs
      BY <1>2, <2>2
    <3>2. IdsIn(obj, proxies, "ALIVE") = IdsIn(obj', proxies', "ALIVE")
      BY <1>7, <2>2
    <3> QED
      BY <3>1, <3>2, <1>1 DEF RotationExact
  <2> QED
    BY <2>1, <2>2
<1>11. KeysMatch'
  BY <1>1, <1>2, <1>6 DEF KeysMatch, Exists
<1> QED
  BY <1>1, <1>2, <1>5, <1>6, <1>7, <1>8, <1>9, <1>10, <1>11
     DEF IInv, Shape, CountersExact, RotationExact, Held

\* SeedCounters recounts, so it restores what IInv says of the counters.
LEMMA SeedCountersStep ==
  ASSUME IInv, SeedCounters
  PROVE  IInv'
<1>1. \A S \in SUBSET Addr : Cardinality(S) \in Nat
  BY FS_Subset, FS_CardinalityType, PoolAssumption DEF PoolAssumption
<1>2. /\ obj' = obj /\ proxies' = proxies /\ aliveIDs' = aliveIDs
      /\ deadTimes' = deadTimes
      /\ total' = Cardinality({a \in Addr : Exists(a)})
      /\ count' = [s \in Counted |-> Cardinality(IdsIn(obj, proxies, s))]
      /\ protoCount' = [p \in Protocol |-> Cardinality(AliveWith(p))]
  BY DEF SeedCounters, AliveWith
<1>3. /\ \A s \in Counted : IdsIn(obj, proxies, s) \in SUBSET Addr
      /\ \A p \in Protocol : AliveWith(p) \in SUBSET Addr
  BY DEF IdsIn, AliveWith
<1>4. total' \in Int
  BY <1>1, <1>2
<1>5. count' \in [Counted -> Int]
  BY <1>1, <1>2, <1>3
<1>6. protoCount' \in [Protocol -> Nat]
  BY <1>1, <1>2, <1>3
<1>7. Shape'
  BY <1>2, <1>4, <1>5, <1>6 DEF IInv, Shape
<1>8. CountersExact'
  BY <1>2 DEF CountersExact, Exists
<1>9. KeysMatch' /\ RotationExact'
  BY <1>2 DEF IInv, KeysMatch, RotationExact, Exists
<1> QED
  BY <1>7, <1>8, <1>9 DEF IInv

\* Clearing the dirty flags touches neither a state nor an address.
LEMMA DirtyAllStep ==
  ASSUME IInv, DirtyAll
  PROVE  IInv'
<1>1. /\ obj \in [Obj -> Proxy]
      /\ proxies \in [Addr -> Obj \cup {NoObj}]
  BY DEF IInv, Shape
<1>2. obj' = [o \in Obj |-> IF o \in DirtySet THEN [obj[o] EXCEPT !.dirty = FALSE]
                                             ELSE obj[o]]
  BY DEF DirtyAll, Cleaned
<1>3. \A o \in Obj : /\ [obj[o] EXCEPT !.dirty = FALSE] \in Proxy
                    /\ [obj[o] EXCEPT !.dirty = FALSE].state = obj[o].state
                    /\ [obj[o] EXCEPT !.dirty = FALSE].addr = obj[o].addr
  BY <1>1 DEF Proxy
<1>4. /\ obj' \in [Obj -> Proxy]
      /\ \A o \in Obj : obj'[o].state = obj[o].state /\ obj'[o].addr = obj[o].addr
  BY <1>1, <1>2, <1>3
<1>5. /\ proxies' = proxies /\ aliveIDs' = aliveIDs /\ total' = total
      /\ count' = count /\ protoCount' = protoCount /\ deadTimes' = deadTimes
  BY DEF DirtyAll
<1>6. \A s : IdsIn(obj', proxies', s) = IdsIn(obj, proxies, s)
  BY <1>1, <1>4, <1>5 DEF IdsIn
<1>7. KeysMatch'
  BY <1>1, <1>4, <1>5 DEF IInv, KeysMatch, Exists
<1>8. CountersExact'
  BY <1>5, <1>6 DEF IInv, CountersExact, Exists
<1>9. RotationExact'
  BY <1>5, <1>6 DEF IInv, RotationExact
<1>10. Shape'
  BY <1>4, <1>5 DEF IInv, Shape
<1> QED
  BY <1>7, <1>8, <1>9, <1>10 DEF IInv

\* Timestamps that grow old disturb nothing else.
LEMMA TimestampsAgeStep ==
  ASSUME IInv, TimestampsAge
  PROVE  IInv'
BY DEF TimestampsAge, IInv, Shape, KeysMatch, CountersExact, RotationExact, Exists

\* The empty pool NewPool returns satisfies the invariant.
LEMMA InitStep == PoolInit => IInv
<1> SUFFICES ASSUME PoolInit PROVE IInv
  OBVIOUS
<1>1. \A s : IdsIn(obj, proxies, s) = {}
  BY DEF PoolInit, IdsIn
<1>2. {a \in Addr : Exists(a)} = {}
  BY DEF PoolInit, Exists
<1>3. CountersExact
  BY <1>1, <1>2, FS_EmptySet DEF PoolInit, CountersExact
<1>4. Shape
  BY PoolAssumption DEF PoolInit, Shape, PoolAssumption
<1> QED
  BY <1>1, <1>3, <1>4 DEF PoolInit, IInv, KeysMatch, RotationExact, Exists

\* The inductive invariant holds in every reachable state of the pool.
THEOREM Invariance == PoolSpec => []IInv
<1>1. PoolInit => IInv
  BY InitStep
<1>2. IInv /\ [PoolNext]_poolVars => IInv'
  <2> SUFFICES ASSUME IInv, [PoolNext]_poolVars PROVE IInv'
    OBVIOUS
  <2>1. ASSUME NEW o \in Obj, NEW r \in Given, AddFresh(o, r) PROVE IInv'
    BY <2>1, AddFreshStep
  <2>2. ASSUME NEW o \in Obj, AddAgain(o) PROVE IInv'
    BY <2>2, AddAgainStep
  <2>3. ASSUME NEW a \in Addr, Remove(a) PROVE IInv'
    BY <2>3, RemoveStep
  <2>4. CASE SeedCounters
    BY <2>4, SeedCountersStep
  <2>5. CASE DirtyAll
    BY <2>5, DirtyAllStep
  <2>6. CASE TimestampsAge
    BY <2>6, TimestampsAgeStep
  <2>7. CASE UNCHANGED poolVars
    BY <2>7 DEF poolVars, IInv, Shape, KeysMatch, CountersExact, RotationExact,
                IdsIn, Exists
  <2> QED
    BY <2>1, <2>2, <2>3, <2>4, <2>5, <2>6, <2>7 DEF PoolNext
<1> QED
  BY <1>1, <1>2, PTL DEF PoolSpec

\* Type correctness, and no counter that /stats shows is ever negative.
THEOREM TypeCorrect == PoolSpec => []PoolTypeOK
BY Invariance, TypesFromInv, PTL

\* The atomic counters always equal a recount of the map.
THEOREM CountersAreExact == PoolSpec => []CountersExact
<1>1. IInv => CountersExact
  BY DEF IInv
<1> QED
  BY <1>1, Invariance, PTL

\* The cached ids are always exactly those of the ALIVE structs.
THEOREM RotationIsExact == PoolSpec => []RotationExact
<1>1. IInv => RotationExact
  BY DEF IInv
<1> QED
  BY <1>1, Invariance, PTL

-----------------------------------------------------------------------------
(* Protocol counts.  AdjustCounters charges the protocol of the new struct *)
(* for the one that leaves, so they are exact only if every struct of an   *)
(* address has the same protocol.                                          *)

OneProtocol == \A r, q \in Given : r.addr = q.addr => r.proto = q.proto

\* The inductive invariant: what the pool holds under an address has the
\* protocol callers give that address.
ProtoInv ==
  /\ IInv
  /\ \A a \in Addr, r \in Given :
       (Exists(a) /\ r.addr = a) => obj[proxies[a]].proto = r.proto
  /\ ProtoCountsExact

\* MoveProto changes only the count of p, by what entered and left ALIVE.
LEMMA MoveProtoStep ==
  ASSUME NEW c \in [Protocol -> Nat], NEW from, NEW to, NEW p \in Protocol,
         from = "ALIVE" => c[p] > 0
  PROVE  \A x \in Protocol : MoveProto(c, from, to, p)[x] =
           c[x] + (IF x = p /\ to = "ALIVE" THEN 1 ELSE 0)
                - (IF x = p /\ from = "ALIVE" THEN 1 ELSE 0)
<1> DEFINE released == IF from = "ALIVE" THEN ReleaseProto(c, p) ELSE c
<1>1. /\ released \in [Protocol -> Nat]
      /\ \A x \in Protocol : released[x] =
           c[x] - (IF x = p /\ from = "ALIVE" THEN 1 ELSE 0)
  BY DEF ReleaseProto
<1>2. MoveProto(c, from, to, p) = IF to = "ALIVE" THEN ClaimProto(released, p)
                                                  ELSE released
  BY DEF MoveProto
<1> HIDE DEF released
<1>3. \A x \in Protocol : MoveProto(c, from, to, p)[x] =
        released[x] + (IF x = p /\ to = "ALIVE" THEN 1 ELSE 0)
  BY <1>1, <1>2 DEF ClaimProto
<1> QED
  BY <1>1, <1>3

\* What Add does to the entries and to the protocol counts.
LEMMA AddEffect ==
  ASSUME Shape, NEW h \in [Obj -> Proxy], NEW o \in Obj,
         \A b \in Addr : Exists(b) => h[proxies[b]] = obj[proxies[b]],
         \A b \in Addr : proxies[b] = o => b = h[o].addr,
         Add(h, o)
  PROVE  /\ proxies'[h[o].addr] = o
         /\ obj'[o].proto = h[o].proto
         /\ \A b \in Addr \ {h[o].addr} :
              /\ proxies'[b] = proxies[b]
              /\ Exists(b) => /\ obj'[proxies[b]].state = obj[proxies[b]].state
                              /\ obj'[proxies[b]].proto = obj[proxies[b]].proto
         /\ protoCount' = MoveProto(protoCount,
              IF Exists(h[o].addr) THEN obj[proxies[h[o].addr]].state
                                   ELSE "DISCOVERED",
              obj'[o].state, h[o].proto)
<1> DEFINE a == h[o].addr
           g == Merge(h, o)
<1>1. a \in Addr
  BY DEF Proxy
<1>2. /\ g \in [Obj -> Proxy]
      /\ g[o].addr = a /\ g[o].proto = h[o].proto
      /\ \A x \in Obj : x # o => g[x] = h[x]
      /\ proxies[a] = o => g = h
  BY MergeStep
<1>3. \A b \in Addr : Exists(b) => proxies[b] \in Obj
  BY DEF Shape, Exists
<1>4. /\ obj' = [g EXCEPT ![o].dirty = TRUE]
      /\ proxies' = [proxies EXCEPT ![a] = o]
      /\ protoCount' = MoveProto(protoCount, PrevState(g, a), g[o].state, g[o].proto)
  BY <1>2 DEF Add, Publish, AdjustCounters
<1>5. \A b \in Addr : Exists(b) => g[proxies[b]] = obj[proxies[b]]
  BY <1>1, <1>2, <1>3
<1> HIDE DEF g
<1>6. \A x \in Obj : obj'[x].state = g[x].state /\ obj'[x].proto = g[x].proto
  <2>1. g[o] \in Proxy
    BY <1>2
  <2>2. /\ [g[o] EXCEPT !.dirty = TRUE].state = g[o].state
        /\ [g[o] EXCEPT !.dirty = TRUE].proto = g[o].proto
    BY <2>1 DEF Proxy
  <2>3. obj' = [g EXCEPT ![o] = [g[o] EXCEPT !.dirty = TRUE]]
    BY <1>4
  <2> QED
    BY <2>2, <2>3, <1>2
<1>7. PrevState(g, a) = IF Exists(a) THEN obj[proxies[a]].state ELSE "DISCOVERED"
  BY <1>1, <1>5 DEF PrevState
<1>8. /\ proxies'[a] = o
      /\ \A b \in Addr \ {a} : proxies'[b] = proxies[b]
  BY <1>1, <1>4 DEF Shape
<1>9. \A b \in Addr \ {a} :
        Exists(b) => /\ obj'[proxies[b]].state = obj[proxies[b]].state
                     /\ obj'[proxies[b]].proto = obj[proxies[b]].proto
  BY <1>3, <1>5, <1>6
<1>10. obj'[o].proto = h[o].proto /\ obj'[o].state = g[o].state
  BY <1>2, <1>6
<1> QED
  BY <1>2, <1>4, <1>7, <1>8, <1>9, <1>10

\* If the new struct has the protocol of the one it replaces, the counts move
\* with the entries.
LEMMA ProtoAddStep ==
  ASSUME ProtoInv, NEW h \in [Obj -> Proxy], NEW o \in Obj,
         \A b \in Addr : Exists(b) => h[proxies[b]] = obj[proxies[b]],
         \A b \in Addr : proxies[b] = o => b = h[o].addr,
         Exists(h[o].addr) => obj[proxies[h[o].addr]].proto = h[o].proto,
         \A r \in Given : r.addr = h[o].addr => h[o].proto = r.proto,
         Add(h, o)
  PROVE  ProtoInv'
<1> DEFINE a == h[o].addr
           p == h[o].proto
           from == IF Exists(a) THEN obj[proxies[a]].state ELSE "DISCOVERED"
           to == obj'[o].state
<1>1. a \in Addr /\ p \in Protocol
  BY DEF Proxy
<1>2. Shape /\ IInv /\ NoObj \notin Obj
  BY PoolAssumption DEF ProtoInv, IInv, PoolAssumption
<1>3. IInv'
  BY <1>2, AddStep
<1>4. /\ proxies'[a] = o
      /\ obj'[o].proto = p
      /\ \A b \in Addr \ {a} :
           /\ proxies'[b] = proxies[b]
           /\ Exists(b) => /\ obj'[proxies[b]].state = obj[proxies[b]].state
                           /\ obj'[proxies[b]].proto = obj[proxies[b]].proto
      /\ protoCount' = MoveProto(protoCount, from, to, p)
  BY <1>2, AddEffect
<1>5. Exists(a) => obj[proxies[a]].proto = p
  OBVIOUS
<1> HIDE DEF a, p
<1>6. ASSUME NEW x \in Protocol
      PROVE  /\ AliveWith(x) \in SUBSET Addr
             /\ AliveWith(x)' \in SUBSET Addr
             /\ AliveWith(x) \ {a} = AliveWith(x)' \ {a}
             /\ a \in AliveWith(x) <=> (x = p /\ from = "ALIVE")
             /\ a \in AliveWith(x)' <=> (x = p /\ to = "ALIVE")
  <2>1. AliveWith(x) \in SUBSET Addr /\ AliveWith(x)' \in SUBSET Addr
    BY DEF AliveWith, IdsIn
  <2>2. AliveWith(x) \ {a} = AliveWith(x)' \ {a}
    BY <1>4 DEF AliveWith, IdsIn, Exists
  <2>3. a \in AliveWith(x) <=> (x = p /\ from = "ALIVE")
    BY <1>1, <1>5 DEF AliveWith, IdsIn, Exists
  <2>4. a \in AliveWith(x)' <=> (x = p /\ to = "ALIVE")
    BY <1>1, <1>2, <1>4 DEF AliveWith, IdsIn
  <2> QED
    BY <2>1, <2>2, <2>3, <2>4
<1> HIDE DEF from, to
<1>7. \A x \in Protocol :
        /\ Cardinality(AliveWith(x)) \in Nat
        /\ Cardinality(AliveWith(x)') = Cardinality(AliveWith(x))
             + (IF x = p /\ to = "ALIVE" THEN 1 ELSE 0)
             - (IF x = p /\ from = "ALIVE" THEN 1 ELSE 0)
  <2> SUFFICES ASSUME NEW x \in Protocol
      PROVE  /\ Cardinality(AliveWith(x)) \in Nat
             /\ Cardinality(AliveWith(x)') = Cardinality(AliveWith(x))
                  + (IF x = p /\ to = "ALIVE" THEN 1 ELSE 0)
                  - (IF x = p /\ from = "ALIVE" THEN 1 ELSE 0)
    OBVIOUS
  <2> DEFINE S == AliveWith(x)
             T == AliveWith(x)'
  <2>1. /\ S \in SUBSET Addr /\ T \in SUBSET Addr /\ S \ {a} = T \ {a}
        /\ a \in S <=> (x = p /\ from = "ALIVE")
        /\ a \in T <=> (x = p /\ to = "ALIVE")
    BY <1>6
  <2> HIDE DEF S, T
  <2>2. /\ Cardinality(S) \in Nat
        /\ Cardinality(T) = Cardinality(S) + (IF a \in T THEN 1 ELSE 0)
                                           - (IF a \in S THEN 1 ELSE 0)
    BY <2>1, <1>1, Recount
  <2>3. /\ Cardinality(S) \in Nat
        /\ Cardinality(T) = Cardinality(S)
             + (IF x = p /\ to = "ALIVE" THEN 1 ELSE 0)
             - (IF x = p /\ from = "ALIVE" THEN 1 ELSE 0)
    BY <2>1, <2>2
  <2> QED
    BY <2>3 DEF S, T
<1>8. \A x \in Protocol : protoCount[x] = Cardinality(AliveWith(x))
  BY DEF ProtoInv, ProtoCountsExact
<1>9. protoCount \in [Protocol -> Nat]
  BY <1>2 DEF Shape
<1>10. from = "ALIVE" => protoCount[p] > 0
  <2> SUFFICES ASSUME from = "ALIVE" PROVE protoCount[p] > 0
    OBVIOUS
  <2> DEFINE S == AliveWith(p)
  <2>1. S \in SUBSET Addr /\ a \in S
    BY <1>1, <1>6
  <2>2. protoCount[p] = Cardinality(S)
    BY <1>1, <1>8
  <2> HIDE DEF S
  <2>3. Cardinality(S) = Cardinality(S \ {a}) + 1 /\ Cardinality(S \ {a}) \in Nat
    <3>1. (S \ {a}) \in SUBSET Addr /\ (S \ {a}) \ {a} = S \ {a} /\ a \notin S \ {a}
      BY <2>1
    <3> QED
      BY <3>1, <2>1, <1>1, Recount
  <2> QED
    BY <2>2, <2>3
<1>11. \A x \in Protocol : protoCount'[x] = protoCount[x]
         + (IF x = p /\ to = "ALIVE" THEN 1 ELSE 0)
         - (IF x = p /\ from = "ALIVE" THEN 1 ELSE 0)
  BY <1>1, <1>4, <1>9, <1>10, MoveProtoStep
<1>12. ProtoCountsExact'
  <2>1. \A x \in Protocol : protoCount'[x] = Cardinality(AliveWith(x)')
    BY <1>7, <1>8, <1>11
  <2> QED
    BY <2>1 DEF ProtoCountsExact
<1>13. \A b \in Addr, r \in Given :
         (Exists(b)' /\ r.addr = b) => obj'[proxies'[b]].proto = r.proto
  <2> SUFFICES ASSUME NEW b \in Addr, NEW r \in Given, Exists(b)', r.addr = b
               PROVE  obj'[proxies'[b]].proto = r.proto
    OBVIOUS
  <2>1. CASE b = a
    BY <2>1, <1>4 DEF a, p
  <2>2. CASE b # a
    BY <2>2, <1>4 DEF ProtoInv, Exists
  <2> QED
    BY <2>1, <2>2
<1> QED
  BY <1>3, <1>12, <1>13 DEF ProtoInv

\* The protocol counts stay exact when a new struct is added,
LEMMA ProtoAddFreshStep ==
  ASSUME OneProtocol, ProtoInv, NEW o \in Obj, NEW r \in Given, AddFresh(o, r)
  PROVE  ProtoInv'
<1> DEFINE h == [obj EXCEPT ![o] = r]
<1>1. ~InPool(o) /\ Add(h, o)
  BY DEF AddFresh
<1>2. obj \in [Obj -> Proxy] /\ r \in Proxy
  BY PoolAssumption DEF ProtoInv, IInv, Shape, PoolAssumption
<1>3. h \in [Obj -> Proxy] /\ h[o] = r
  BY <1>2
<1>4. \A b \in Addr : proxies[b] # o
  BY <1>1 DEF InPool
<1>5. \A b \in Addr : Exists(b) => h[proxies[b]] = obj[proxies[b]]
  BY <1>2, <1>4 DEF ProtoInv, IInv, Shape, Exists
<1>6. \A q \in Given : q.addr = h[o].addr => h[o].proto = q.proto
  BY <1>3 DEF OneProtocol
<1>7. Exists(h[o].addr) => obj[proxies[h[o].addr]].proto = h[o].proto
  BY <1>2, <1>3 DEF ProtoInv, Proxy
<1> HIDE DEF h
<1> QED
  BY <1>1, <1>3, <1>4, <1>5, <1>6, <1>7, ProtoAddStep

\* when one is added again,
LEMMA ProtoAddAgainStep ==
  ASSUME ProtoInv, NEW o \in Obj, AddAgain(o)
  PROVE  ProtoInv'
<1>1. Add(obj, o) /\ InPool(o)
  BY DEF AddAgain
<1>2. IInv /\ obj \in [Obj -> Proxy] /\ NoObj \notin Obj
  BY PoolAssumption DEF ProtoInv, IInv, Shape, PoolAssumption
<1>3. \A b \in Addr : proxies[b] = o => b = obj[o].addr
  BY <1>2 DEF IInv, KeysMatch, Exists
<1>4. PICK a \in Addr : proxies[a] = o
  BY <1>1 DEF InPool
<1>5. a = obj[o].addr /\ Exists(a)
  BY <1>2, <1>3, <1>4 DEF Exists
<1>6. \A r \in Given : r.addr = obj[o].addr => obj[o].proto = r.proto
  BY <1>4, <1>5 DEF ProtoInv
<1> QED
  BY <1>1, <1>2, <1>3, <1>4, <1>5, <1>6, ProtoAddStep

\* when one is removed, which releases its protocol if it was ALIVE,
LEMMA ProtoRemoveStep ==
  ASSUME ProtoInv, NEW a \in Addr, Remove(a)
  PROVE  ProtoInv'
<1> DEFINE p == obj[proxies[a]].proto
           from == obj[proxies[a]].state
<1>1. IInv /\ Shape /\ IInv'
  BY RemoveStep DEF ProtoInv, IInv
<1>2. /\ Exists(a)
      /\ obj' = obj
      /\ proxies' = [proxies EXCEPT ![a] = NoObj]
      /\ protoCount' = MoveProto(protoCount, from, "DISCOVERED", p)
  BY DEF Remove, AdjustCounters
<1>3. p \in Protocol
  BY <1>1, <1>2 DEF Shape, Exists, Proxy
<1>4. /\ proxies'[a] = NoObj
      /\ \A b \in Addr \ {a} : proxies'[b] = proxies[b]
  BY <1>1, <1>2 DEF Shape
<1>5. ASSUME NEW x \in Protocol
      PROVE  /\ AliveWith(x) \in SUBSET Addr
             /\ AliveWith(x)' \in SUBSET Addr
             /\ AliveWith(x) \ {a} = AliveWith(x)' \ {a}
             /\ a \in AliveWith(x) <=> (x = p /\ from = "ALIVE")
             /\ a \notin AliveWith(x)'
  <2>1. AliveWith(x) \in SUBSET Addr /\ AliveWith(x)' \in SUBSET Addr
    BY DEF AliveWith, IdsIn
  <2>2. AliveWith(x) \ {a} = AliveWith(x)' \ {a} /\ a \notin AliveWith(x)'
    BY <1>2, <1>4 DEF AliveWith, IdsIn
  <2>3. a \in AliveWith(x) <=> (x = p /\ from = "ALIVE")
    BY <1>2 DEF AliveWith, IdsIn, Exists
  <2> QED
    BY <2>1, <2>2, <2>3
<1> HIDE DEF p, from
<1>6. \A x \in Protocol :
        /\ Cardinality(AliveWith(x)') \in Nat
        /\ Cardinality(AliveWith(x)) = Cardinality(AliveWith(x)')
             + (IF x = p /\ from = "ALIVE" THEN 1 ELSE 0)
  <2> SUFFICES ASSUME NEW x \in Protocol
      PROVE  /\ Cardinality(AliveWith(x)') \in Nat
             /\ Cardinality(AliveWith(x)) = Cardinality(AliveWith(x)')
                  + (IF x = p /\ from = "ALIVE" THEN 1 ELSE 0)
    OBVIOUS
  <2> DEFINE S == AliveWith(x)
             T == AliveWith(x)'
  <2>1. /\ S \in SUBSET Addr /\ T \in SUBSET Addr /\ T \ {a} = S \ {a}
        /\ a \in S <=> (x = p /\ from = "ALIVE")
        /\ a \notin T
    BY <1>5
  <2> HIDE DEF S, T
  <2>2. /\ Cardinality(T) \in Nat
        /\ Cardinality(S) = Cardinality(T) + (IF a \in S THEN 1 ELSE 0)
    BY <2>1, Recount
  <2>3. /\ Cardinality(T) \in Nat
        /\ Cardinality(S) = Cardinality(T)
             + (IF x = p /\ from = "ALIVE" THEN 1 ELSE 0)
    BY <2>1, <2>2
  <2> QED
    BY <2>3 DEF S, T
<1>7. /\ \A x \in Protocol : protoCount[x] = Cardinality(AliveWith(x))
      /\ protoCount \in [Protocol -> Nat]
  BY <1>1 DEF ProtoInv, ProtoCountsExact, Shape
<1>8. from = "ALIVE" => protoCount[p] > 0
  BY <1>3, <1>6, <1>7
<1>9. \A x \in Protocol : protoCount'[x] =
        protoCount[x] - (IF x = p /\ from = "ALIVE" THEN 1 ELSE 0)
  BY <1>2, <1>3, <1>7, <1>8, MoveProtoStep
<1>10. \A x \in Protocol : protoCount'[x] = Cardinality(AliveWith(x)')
  BY <1>6, <1>7, <1>9
<1>11. ProtoCountsExact'
  BY <1>10 DEF ProtoCountsExact
<1>12. \A b \in Addr, r \in Given :
         (Exists(b)' /\ r.addr = b) => obj'[proxies'[b]].proto = r.proto
  BY <1>2, <1>4 DEF ProtoInv, Exists
<1> QED
  BY <1>1, <1>11, <1>12 DEF ProtoInv

\* when SeedCounters counts them afresh,
LEMMA ProtoSeedStep ==
  ASSUME ProtoInv, SeedCounters
  PROVE  ProtoInv'
<1>1. IInv'
  BY SeedCountersStep DEF ProtoInv
<1>2. /\ obj' = obj /\ proxies' = proxies
      /\ protoCount' = [p \in Protocol |-> Cardinality(AliveWith(p))]
  BY DEF SeedCounters, AliveWith
<1>3. \A p \in Protocol : AliveWith(p)' = AliveWith(p)
  BY <1>2 DEF AliveWith, IdsIn
<1> QED
  BY <1>1, <1>2, <1>3 DEF ProtoInv, ProtoCountsExact, Exists

\* and when the dirty flags are cleared.
LEMMA ProtoDirtyStep ==
  ASSUME ProtoInv, DirtyAll
  PROVE  ProtoInv'
<1>1. IInv /\ IInv'
  BY DirtyAllStep DEF ProtoInv
<1>2. /\ obj \in [Obj -> Proxy]
      /\ proxies \in [Addr -> Obj \cup {NoObj}]
  BY <1>1 DEF IInv, Shape
<1>3. obj' = [o \in Obj |-> IF o \in DirtySet THEN [obj[o] EXCEPT !.dirty = FALSE]
                                             ELSE obj[o]]
  BY DEF DirtyAll, Cleaned
<1>4. \A o \in Obj : /\ [obj[o] EXCEPT !.dirty = FALSE].state = obj[o].state
                    /\ [obj[o] EXCEPT !.dirty = FALSE].proto = obj[o].proto
  BY <1>2 DEF Proxy
<1>5. \A o \in Obj : obj'[o].state = obj[o].state /\ obj'[o].proto = obj[o].proto
  BY <1>3, <1>4
<1>6. proxies' = proxies /\ protoCount' = protoCount
  BY DEF DirtyAll
<1>7. \A p \in Protocol : AliveWith(p)' = AliveWith(p)
  BY <1>2, <1>5, <1>6 DEF AliveWith, IdsIn
<1>8. \A b \in Addr, r \in Given :
         (Exists(b)' /\ r.addr = b) => obj'[proxies'[b]].proto = r.proto
  BY <1>2, <1>5, <1>6 DEF ProtoInv, Exists
<1> QED
  BY <1>1, <1>6, <1>7, <1>8 DEF ProtoInv, ProtoCountsExact

\* No protocol is counted in the empty pool.
LEMMA ProtoInitStep == PoolInit => ProtoInv
<1> SUFFICES ASSUME PoolInit PROVE ProtoInv
  OBVIOUS
<1>1. \A p \in Protocol : AliveWith(p) = {}
  BY DEF PoolInit, AliveWith, IdsIn
<1>2. ProtoCountsExact
  BY <1>1, FS_EmptySet DEF PoolInit, ProtoCountsExact
<1> QED
  BY <1>2, InitStep DEF PoolInit, ProtoInv, Exists

\* Its strengthening for protocols holds too when no address is listed under two.
THEOREM ProtoInvariance ==
  ASSUME OneProtocol
  PROVE  PoolSpec => []ProtoInv
<1>1. PoolInit => ProtoInv
  BY ProtoInitStep
<1>2. ProtoInv /\ [PoolNext]_poolVars => ProtoInv'
  <2> SUFFICES ASSUME ProtoInv, [PoolNext]_poolVars PROVE ProtoInv'
    OBVIOUS
  <2>1. ASSUME NEW o \in Obj, NEW r \in Given, AddFresh(o, r) PROVE ProtoInv'
    BY <2>1, ProtoAddFreshStep
  <2>2. ASSUME NEW o \in Obj, AddAgain(o) PROVE ProtoInv'
    BY <2>2, ProtoAddAgainStep
  <2>3. ASSUME NEW a \in Addr, Remove(a) PROVE ProtoInv'
    BY <2>3, ProtoRemoveStep
  <2>4. CASE SeedCounters
    BY <2>4, ProtoSeedStep
  <2>5. CASE DirtyAll
    BY <2>5, ProtoDirtyStep
  <2>6. CASE TimestampsAge
    <3>1. IInv'
      BY <2>6, TimestampsAgeStep DEF ProtoInv
    <3> QED
      BY <3>1, <2>6 DEF TimestampsAge, ProtoInv, ProtoCountsExact, AliveWith,
                        IdsIn, Exists
  <2>7. CASE UNCHANGED poolVars
    BY <2>7 DEF poolVars, ProtoInv, ProtoCountsExact, AliveWith, IInv, Shape,
                KeysMatch, CountersExact, RotationExact, IdsIn, Exists
  <2> QED
    BY <2>1, <2>2, <2>3, <2>4, <2>5, <2>6, <2>7 DEF PoolNext
<1> QED
  BY <1>1, <1>2, PTL DEF PoolSpec

\* The counts per protocol are then exact; MCPoolTwoNames shows that they are not
\* otherwise.
THEOREM ProtoCountsAreExact ==
  ASSUME OneProtocol
  PROVE  PoolSpec => []ProtoCountsExact
<1>1. ProtoInv => ProtoCountsExact
  BY DEF ProtoInv
<1> QED
  BY <1>1, ProtoInvariance, PTL
=============================================================================
