------------------------- MODULE PersistenceProofs -------------------------
(***************************************************************************)
(* Proofs about Persistence: its types, that a clear flag means saved, and *)
(* that the table holds no verdict that was not earned, for any addresses, *)
(* any number of structs and any failure limit.                            *)
(***************************************************************************)
EXTENDS Persistence, TLAPS

Batches == UNION {[S -> Proxy] : S \in SUBSET Addr}

Phase == {"idle", "scan", "copying", "copied", "saving", "done"}

FlushShape == flush \in [Flusher -> [pc : Phase, todo : SUBSET Addr, batch : Batches]]

\* A flush that holds no lock and saves nothing has nothing in its hands.
Rests ==
  \A f \in Flusher :
    /\ flush[f].pc \in {"idle", "saving", "done"} => flush[f].todo = {}
    /\ flush[f].pc \in {"idle", "done"} => flush[f].batch = EmptyBatch

\* The id whose struct is being copied is the only one both to visit and copied.
OneCopy ==
  \A f \in Flusher, a \in Addr :
    Copying(f, a) => /\ flush[f].pc \in {"copying", "copied"}
                     /\ \A b \in Addr : Copying(f, b) => b = a

Alone == ~overlap => \A f, g \in Active : f = g

\* A struct that nobody probes now was probed by nobody since its copy began:
\* pool.Add, which ends a probe, needs the lock.
CopyTrue ==
  \A f \in Flusher, a \in Addr :
    Copying(f, a) /\ Settled(a) => flush[f].batch[a] = RowOf(obj[proxies[a]])

\* After its flag is cleared a copy is true until the flag is set again.
BatchTrue ==
  \A f \in Flusher, a \in Addr :
    (/\ InBatch(f, a) /\ a \notin flush[f].todo /\ ~overlap
     /\ Settled(a) /\ ~obj[proxies[a]].dirty)
      => flush[f].batch[a] = RowOf(obj[proxies[a]])

Typed == StoreTypeOK /\ FlushShape

-----------------------------------------------------------------------------
(* Types *)

LEMMA FreshTyped ==
  /\ Unused \in Proxy
  /\ \A a \in Addr : NewProxy(a) \in Proxy /\ NewProxy(a).addr = a
BY PersistenceAssumption DEF PersistenceAssumption, Unused, NewProxy, Proxy, State

LEMMA IdleTyped ==
  Idle \in Stage /\ Idle.probing = 0 /\ Idle.adding = 0 /\ ~Idle.raced
BY PersistenceAssumption DEF PersistenceAssumption, Idle, At, Stage

LEMMA EmptyTyped == EmptyBatch \in Batches /\ DOMAIN EmptyBatch = {}
BY DEF EmptyBatch, Batches

\* What a row loses is its flag.
LEMMA RowTyped ==
  ASSUME NEW r \in Proxy
  PROVE  /\ RowOf(r) \in Proxy
         /\ RowOf(r).addr = r.addr /\ ~RowOf(r).dirty
         /\ RowOf(r).state = r.state /\ RowOf(r).fail = r.fail /\ RowOf(r).ok = r.ok
BY DEF RowOf, Proxy

\* Setting or clearing a flag changes nothing else.
LEMMA FlagTyped ==
  ASSUME NEW r \in Proxy, NEW b \in BOOLEAN
  PROVE  /\ [r EXCEPT !.dirty = b] \in Proxy
         /\ [r EXCEPT !.dirty = b].addr = r.addr
         /\ [r EXCEPT !.dirty = b].dirty = b
         /\ RowOf([r EXCEPT !.dirty = b]) = RowOf(r)
BY DEF RowOf, Proxy

LEMMA BatchTyped ==
  ASSUME NEW b \in Batches, NEW a \in Addr, NEW r \in Proxy
  PROVE  /\ With(b, a, r) \in Batches
         /\ DOMAIN With(b, a, r) = DOMAIN b \cup {a}
         /\ With(b, a, r)[a] = r
         /\ \A x \in DOMAIN b \ {a} : With(b, a, r)[x] = b[x]
<1>1. PICK S \in SUBSET Addr : b \in [S -> Proxy]
  BY DEF Batches
<1>2. With(b, a, r) \in [S \cup {a} -> Proxy]
  BY <1>1 DEF With
<1> QED
  BY <1>1, <1>2 DEF With, Batches

\* Either verdict on a struct keeps its type and address.
LEMMA VerdictTyped ==
  ASSUME NEW p \in Proxy
  PROVE  /\ ProbedOK(p) \in Proxy /\ ProbedOK(p).addr = p.addr
         /\ ProbedBad(p) \in Proxy /\ ProbedBad(p).addr = p.addr
<1>0. p.ok \in 0..MaxOK /\ p.fail \in 0..MaxFails /\ 0 \in 0..MaxOK /\ 0 \in 0..MaxFails
  BY PersistenceAssumption DEF PersistenceAssumption, Proxy
<1>1. OneMore(p.ok, MaxOK) \in 0..MaxOK /\ OneMore(p.fail, MaxFails) \in 0..MaxFails
  BY <1>0, PersistenceAssumption DEF PersistenceAssumption, OneMore
<1>2. \A k \in 0..MaxOK, n \in 0..MaxFails, s \in State :
        LET q == [p EXCEPT !.ok = k, !.fail = n, !.state = s]
        IN  q \in Proxy /\ q.addr = p.addr
  BY DEF Proxy
<1> USE DEF State
<1>3. ProbedOK(p) \in Proxy /\ ProbedOK(p).addr = p.addr
  BY <1>0, <1>1, <1>2 DEF ProbedOK
<1>4. ProbedBad(p) \in Proxy /\ ProbedBad(p).addr = p.addr
  <2> DEFINE n == OneMore(p.fail, MaxFails)
  <2>1. CASE n >= MaxFails
    <3>1. ProbedBad(p) = [p EXCEPT !.ok = 0, !.fail = n, !.state = "DEAD"]
      BY <2>1 DEF ProbedBad, Proxy
    <3>2. n \in 0..MaxFails /\ 0 \in 0..MaxOK
      BY <1>0, <1>1
    <3> HIDE DEF n
    <3>3. LET q == [p EXCEPT !.ok = 0, !.fail = n, !.state = "DEAD"]
          IN  q \in Proxy /\ q.addr = p.addr
      BY <3>2 DEF Proxy
    <3> QED
      BY <3>1, <3>3
  <2>2. CASE ~(n >= MaxFails)
    <3>1. ProbedBad(p) = [p EXCEPT !.fail = n]
      BY <2>2 DEF ProbedBad
    <3> QED
      BY <3>1, <1>1 DEF Proxy
  <2> QED
    BY <2>1, <2>2
<1> QED
  BY <1>3, <1>4

\* A mixture of two readings of a struct is typed and keeps its address.
LEMMA MixtureTyped ==
  ASSUME NEW r \in Proxy, NEW s \in Proxy, r.addr = s.addr, ~r.dirty, ~s.dirty,
         NEW x \in Mixtures({r, s})
  PROVE  x \in Proxy /\ x.addr = r.addr /\ ~x.dirty
BY DEF Mixtures, Proxy

\* Whatever a verdict writes to a struct, it keeps the struct's type and address.
LEMMA VerdictsTyped ==
  ASSUME NEW o \in Obj, obj[o] \in Proxy, NEW p \in Verdicts(o)
  PROVE  p \in Proxy /\ p.addr = obj[o].addr
<1> DEFINE q == obj[o]
           S == {ProbedOK(q), ProbedBad(q), q}
<1>1. \A x \in S : x \in Proxy /\ x.addr = q.addr
  BY VerdictTyped
<1>2. CASE stage[o].raced
  <2>1. PICK x \in S, y \in S : p = [x EXCEPT !.state = y.state]
    BY <1>2 DEF Verdicts, Mixtures
  <2> QED
    BY <1>1, <2>1 DEF Proxy
<1>3. CASE ~stage[o].raced
  BY <1>1, <1>3 DEF Verdicts
<1> QED
  BY <1>2, <1>3

\* No struct is filed under two ids.
LEMMA OneId ==
  ASSUME StoreTypeOK, NEW a \in Addr, NEW b \in Addr, Exists(a), proxies[a] = proxies[b]
  PROVE  a = b
BY DEF StoreTypeOK, Exists

\* What FlushShape says of one flush.
LEMMA FlushFields ==
  ASSUME FlushShape, NEW f \in Flusher
  PROVE  /\ flush[f] \in [pc : Phase, todo : SUBSET Addr, batch : Batches]
         /\ flush[f].pc \in Phase /\ flush[f].todo \in SUBSET Addr /\ flush[f].batch \in Batches
BY DEF FlushShape

\* StoreTypeOK in three parts: the structs, the table, and what a flush holds.
MemoryTyped ==
  /\ obj \in [Obj -> Proxy]
  /\ proxies \in [Addr -> Obj \cup {NoObj}]
  /\ \A a \in Addr : Exists(a) => obj[proxies[a]].addr = a
  /\ mode \in Mode /\ proc \in {"down", "up"} /\ ctx \in {"live", "cancelled"}
  /\ stage \in [Obj -> Stage]
  /\ known \subseteq Obj /\ shared \subseteq Addr

TableTyped ==
  /\ table \in [Addr -> Proxy \cup {NoRow}]
  /\ \A a \in StoredIds : table[a].addr = a /\ ~table[a].dirty
  /\ lost \subseteq Addr /\ torn \subseteq Addr /\ overlap \in BOOLEAN

FlushTyped ==
  /\ FlushShape
  /\ \A f \in Flusher :
       /\ flush[f].todo \subseteq {a \in Addr : Exists(a)}
       /\ \A a \in DOMAIN flush[f].batch : flush[f].batch[a].addr = a /\ ~flush[f].batch[a].dirty

LEMMA TypedParts == Typed <=> MemoryTyped /\ TableTyped /\ FlushTyped
<1>1. FlushShape => \A f \in Flusher : /\ flush[f].pc \in Phase
                                       /\ DOMAIN flush[f].batch \subseteq Addr
                                       /\ \A a \in DOMAIN flush[f].batch : flush[f].batch[a] \in Proxy
  <2> SUFFICES ASSUME FlushShape, NEW f \in Flusher
               PROVE  /\ flush[f].pc \in Phase
                      /\ DOMAIN flush[f].batch \subseteq Addr
                      /\ \A a \in DOMAIN flush[f].batch : flush[f].batch[a] \in Proxy
    OBVIOUS
  <2>1. PICK S \in SUBSET Addr : flush[f].batch \in [S -> Proxy]
    BY FlushFields DEF Batches
  <2> QED
    BY <2>1, FlushFields
<1> QED
  BY <1>1 DEF Typed, StoreTypeOK, MemoryTyped, TableTyped, FlushTyped, Phase

LEMMA TypedNext == MemoryTyped' /\ TableTyped' /\ FlushTyped' => Typed'
BY TypedParts, PTL

\* What main loads is typed, whatever subset of the table it is.
LEMMA MemoryStep ==
  ASSUME Typed, NEW l \in SUBSET StoredIds, Memory(l), proc' \in {"down", "up"},
         UNCHANGED <<mode, shared, table, torn>>
  PROVE  Typed'
<1> USE DEF TableTyped
<1>1. MemoryTyped /\ TableTyped /\ FlushTyped
  BY TypedParts
<1>2. l \subseteq Addr /\ \A a \in l : table[a] \in Proxy /\ table[a].addr = a
  BY <1>1 DEF StoredIds
<1>3. \A a \in l : Slot[a] \in Obj /\ Slot[a] # NoObj
  BY <1>2, PersistenceAssumption DEF PersistenceAssumption
<1>4. \A a \in l : (CHOOSE b \in l : Slot[b] = Slot[a]) = a
  BY <1>2, PersistenceAssumption DEF PersistenceAssumption
<1>5. \A a \in l : obj'[Slot[a]] = [table[a] EXCEPT !.dirty = TRUE]
  BY <1>3, <1>4 DEF Memory
<1>a. \A a \in l : obj'[Slot[a]] \in Proxy /\ obj'[Slot[a]].addr = a
  <2> TAKE a \in l
  <2>1. [table[a] EXCEPT !.dirty = TRUE] \in Proxy /\ [table[a] EXCEPT !.dirty = TRUE].addr = a
    <3> DEFINE r == table[a]
    <3>1. r \in Proxy /\ r.addr = a
      BY <1>2
    <3> HIDE DEF r
    <3>2. [r EXCEPT !.dirty = TRUE] \in Proxy /\ [r EXCEPT !.dirty = TRUE].addr = a
      BY <3>1 DEF Proxy
    <3> QED
      BY <3>2 DEF r
  <2> QED
    BY <2>1, <1>5, Zenon
<1>6. obj' \in [Obj -> Proxy]
  <2> SUFFICES ASSUME NEW o \in Obj PROVE obj'[o] \in Proxy
    BY DEF Memory
  <2>1. CASE \E a \in l : Slot[a] = o
    <3>1. PICK a \in l : Slot[a] = o
      BY <2>1
    <3> QED
      BY <3>1, <1>a
  <2>2. CASE ~\E a \in l : Slot[a] = o
    BY <2>2, FreshTyped DEF Memory
  <2> QED
    BY <2>1, <2>2
<1>7. proxies' \in [Addr -> Obj \cup {NoObj}]
  BY <1>2, <1>3 DEF Memory, MemoryMap
<1>8. \A a \in Addr : Exists(a)' => a \in l /\ proxies'[a] = Slot[a]
  BY DEF Memory, MemoryMap, Exists
<1>9. MemoryTyped'
  <2>1. \A a \in Addr : Exists(a)' => obj'[proxies'[a]].addr = a
    BY <1>a, <1>8
  <2>2. stage' \in [Obj -> Stage] /\ known' \subseteq Obj /\ ctx' = "live"
    BY <1>3, IdleTyped DEF Memory
  <2>3. mode' \in Mode /\ shared' \subseteq Addr
    BY <1>1 DEF MemoryTyped
  <2> QED
    BY <2>1, <2>2, <2>3, <1>6, <1>7 DEF MemoryTyped
<1>10. TableTyped'
  BY <1>1 DEF Memory, StoredIds
<1>11. FlushTyped'
  BY EmptyTyped DEF FlushTyped, FlushShape, Phase, Memory, IdleFlush
<1> QED
  BY <1>9, <1>10, <1>11, TypedNext

LEMMA SignalTyped == ASSUME Typed, Signal PROVE Typed'
<1>1. MemoryTyped /\ TableTyped /\ FlushTyped
  BY TypedParts
<1>2. MemoryTyped'
  BY <1>1 DEF MemoryTyped, Signal, Exists
<1>3. TableTyped' /\ FlushTyped'
  BY <1>1 DEF TableTyped, FlushTyped, FlushShape, Signal, diskVars, StoredIds, Exists
<1> QED
  BY <1>2, <1>3, TypedNext

\* A write to one struct that keeps its type, and its address when it is filed.
LEMMA StructWritten ==
  ASSUME MemoryTyped, TableTyped, FlushTyped,
         NEW o \in Obj, NEW r \in Proxy, InPool(o) => r.addr = obj[o].addr,
         obj' = [obj EXCEPT ![o] = r], UNCHANGED <<mode, proxies, proc, ctx, diskVars>>,
         stage' \in [Obj -> Stage], known' \subseteq Obj, shared' \subseteq Addr
  PROVE  Typed'
<1>1. \A a \in Addr : Exists(a)' => Exists(a) /\ proxies'[a] = proxies[a]
  BY DEF Exists
<1>2. \A a \in Addr : Exists(a) => obj'[proxies[a]].addr = a
  <2> SUFFICES ASSUME NEW a \in Addr, Exists(a) PROVE obj'[proxies[a]].addr = a
    OBVIOUS
  <2>1. proxies[a] \in Obj /\ obj[proxies[a]].addr = a
    BY DEF MemoryTyped, Exists
  <2>2. CASE proxies[a] = o
    BY <2>1, <2>2 DEF MemoryTyped, InPool
  <2>3. CASE proxies[a] # o
    BY <2>1, <2>3 DEF MemoryTyped
  <2> QED
    BY <2>2, <2>3
<1>3. MemoryTyped'
  BY <1>1, <1>2 DEF MemoryTyped
<1>4. TableTyped' /\ FlushTyped'
  BY DEF TableTyped, FlushTyped, FlushShape, diskVars, StoredIds, Exists
<1> QED
  BY <1>3, <1>4, TypedNext

LEMMA StateTyped ==
  ASSUME NEW p \in Proxy
  PROVE  /\ [p EXCEPT !.state = "VALIDATING"] \in Proxy
         /\ [p EXCEPT !.state = "VALIDATING"].addr = p.addr
         /\ [p EXCEPT !.state = "VALIDATING"].dirty = p.dirty
BY DEF Proxy, State

LEMMA StageRecord ==
  ASSUME NEW s \in Stage
  PROVE  /\ s.probing \in 0..MaxProbers /\ s.adding \in 0..MaxProbers /\ s.raced \in BOOLEAN
         /\ s.probing + s.adding <= MaxProbers
BY DEF Stage

LEMMA StageAt ==
  ASSUME NEW n \in 0..MaxProbers, NEW m \in 0..MaxProbers, NEW b \in BOOLEAN
  PROVE  /\ At(n, m, b).probing = n /\ At(n, m, b).adding = m /\ At(n, m, b).raced = b
         /\ n + m <= MaxProbers => At(n, m, b) \in Stage
         /\ n + m # 0 => At(n, m, b) # Idle
BY PersistenceAssumption DEF Stage, At, Idle, PersistenceAssumption

LEMMA StageFields ==
  ASSUME MemoryTyped, NEW o \in Obj
  PROVE  /\ stage[o] \in Stage /\ stage[o].raced \in BOOLEAN
         /\ stage[o].probing \in Nat /\ stage[o].adding \in Nat
         /\ Probers(o) = stage[o].probing + stage[o].adding
         /\ Probers(o) \in Nat /\ Probers(o) <= MaxProbers /\ MaxProbers \in Nat \ {0}
BY StageRecord, PersistenceAssumption DEF PersistenceAssumption, MemoryTyped, Probers

\* One goroutine more on a struct, and none on another.
LEMMA BeginsStage ==
  ASSUME MemoryTyped, NEW o \in Obj, NEW r, r.addr \in Addr, Begins(o, r)
  PROVE  /\ stage' \in [Obj -> Stage] /\ stage'[o] # Idle
         /\ stage'[o].probing = stage[o].probing + 1 /\ stage'[o].adding = stage[o].adding
         /\ stage'[o].raced = (stage[o].raced \/ Probers(o) > 0)
         /\ \A x \in Obj \ {o} : stage'[x] = stage[x]
         /\ shared \subseteq shared' /\ shared' \subseteq Addr
         /\ Probers(o) > 0 => r.addr \in shared' /\ mode = "parallel"
<1>1. /\ stage[o] \in Stage /\ Probers(o) \in Nat /\ MaxProbers \in Nat \ {0}
      /\ Probers(o) = stage[o].probing + stage[o].adding
  BY StageFields
<1> DEFINE n == stage[o].probing + 1
           m == stage[o].adding
           b == stage[o].raced \/ Probers(o) > 0
           s == At(n, m, b)
<1>2. Probers(o) < MaxProbers /\ (Probers(o) > 0 => mode = "parallel")
  BY <1>1 DEF Begins, Crew
<1>3. s \in Stage /\ s # Idle /\ s.probing = n /\ s.adding = m /\ s.raced = b
  <2>1. n \in 0..MaxProbers /\ m \in 0..MaxProbers /\ n + m <= MaxProbers /\ b \in BOOLEAN
        /\ n + m # 0
    BY <1>1, <1>2, StageRecord
  <2> HIDE DEF n, m, b
  <2> QED
    BY <2>1, StageAt
<1>4. stage' = [stage EXCEPT ![o] = s]
  BY DEF Begins
<1> HIDE DEF s
<1>5. shared' = IF Probers(o) > 0 THEN shared \cup {r.addr} ELSE shared
  BY DEF Begins
<1> QED
  BY <1>2, <1>3, <1>4, <1>5 DEF MemoryTyped

\* A goroutine that has its verdict is still on the struct.
LEMMA VerdictStage ==
  ASSUME MemoryTyped, NEW o \in Obj, Verdict(o)
  PROVE  /\ stage' \in [Obj -> Stage] /\ stage'[o] # Idle
         /\ stage'[o].probing = stage[o].probing - 1 /\ stage'[o].adding = stage[o].adding + 1
         /\ stage'[o].raced = stage[o].raced
         /\ \A x \in Obj \ {o} : stage'[x] = stage[x]
<1>1. stage[o] \in Stage /\ stage[o].probing > 0 /\ MaxProbers \in Nat
  BY StageFields DEF Verdict
<1> DEFINE n == stage[o].probing - 1
           m == stage[o].adding + 1
           s == At(n, m, stage[o].raced)
<1>2. s \in Stage /\ s # Idle /\ s.probing = n /\ s.adding = m /\ s.raced = stage[o].raced
  <2>1. n \in 0..MaxProbers /\ m \in 0..MaxProbers /\ n + m <= MaxProbers /\ n + m # 0
        /\ stage[o].raced \in BOOLEAN
    BY <1>1, StageRecord
  <2> QED
    BY <2>1, StageAt
<1>3. stage' = [stage EXCEPT ![o] = s]
  BY DEF Verdict
<1> HIDE DEF s
<1> QED
  BY <1>2, <1>3 DEF MemoryTyped

\* One goroutine less on a struct; with none it is idle again.
LEMMA AddStage ==
  ASSUME MemoryTyped, NEW o \in Obj, AddProbed(o)
  PROVE  /\ stage' \in [Obj -> Stage]
         /\ \/ stage'[o] = Idle
            \/ /\ stage'[o].probing = stage[o].probing
               /\ stage'[o].adding = stage[o].adding - 1
               /\ stage'[o].raced = stage[o].raced
         /\ \A x \in Obj \ {o} : stage'[x] = stage[x]
<1>1. stage[o] \in Stage /\ stage[o].adding > 0 /\ MaxProbers \in Nat
  BY StageFields DEF AddProbed
<1> DEFINE m == stage[o].adding - 1
           s == At(stage[o].probing, m, stage[o].raced)
<1>2. s \in Stage /\ s.probing = stage[o].probing /\ s.adding = m /\ s.raced = stage[o].raced
  <2>1. /\ stage[o].probing \in 0..MaxProbers /\ stage[o].raced \in BOOLEAN
        /\ m \in 0..MaxProbers /\ stage[o].probing + m <= MaxProbers
    BY <1>1, StageRecord
  <2> QED
    BY <2>1, StageAt
<1>3. stage' = [stage EXCEPT ![o] = s] \/ stage' = [stage EXCEPT ![o] = Idle]
  BY DEF AddProbed, OneLess
<1> HIDE DEF s
<1> QED
  BY <1>2, <1>3, IdleTyped DEF MemoryTyped

LEMMA BeginsTyped ==
  ASSUME Typed, NEW o \in Obj, NEW p \in Proxy, InPool(o) => p.addr = obj[o].addr,
         Begins(o, p), known' \subseteq Obj
  PROVE  Typed'
<1>1. MemoryTyped /\ TableTyped /\ FlushTyped
  BY TypedParts
<1> DEFINE r == [p EXCEPT !.state = "VALIDATING"]
<1>2. r \in Proxy /\ r.addr = p.addr /\ p.addr \in Addr
  BY StateTyped DEF Proxy
<1>3. obj' = [obj EXCEPT ![o] = r] /\ UNCHANGED <<mode, proxies, proc, ctx, diskVars>>
  BY DEF Begins
<1>4. stage' \in [Obj -> Stage] /\ shared' \subseteq Addr
  BY <1>1, <1>2, BeginsStage
<1> HIDE DEF r
<1> QED
  BY <1>1, <1>2, <1>3, <1>4, StructWritten

LEMMA DiscoverTyped ==
  ASSUME Typed, NEW o \in Obj, NEW a \in Addr, Discover(o, a) PROVE Typed'
BY FreshTyped, BeginsTyped, TypedParts DEF Discover, MemoryTyped

LEMMA RecheckTyped ==
  ASSUME Typed, NEW o \in Obj, Recheck(o) PROVE Typed'
BY BeginsTyped, TypedParts DEF Recheck, MemoryTyped

LEMMA VerdictStepTyped ==
  ASSUME Typed, NEW o \in Obj, Verdict(o) PROVE Typed'
<1>1. MemoryTyped /\ TableTyped /\ FlushTyped
  BY TypedParts
<1>2. obj[o] \in Proxy
  BY <1>1 DEF MemoryTyped
<1>3. PICK r \in Verdicts(o) : obj' = [obj EXCEPT ![o] = r]
  BY DEF Verdict
<1>4. r \in Proxy /\ r.addr = obj[o].addr
  BY <1>2, <1>3, VerdictsTyped
<1>5. /\ stage' \in [Obj -> Stage] /\ known' \subseteq Obj /\ shared' \subseteq Addr
      /\ UNCHANGED <<mode, proxies, proc, ctx, diskVars>>
  BY <1>1, VerdictStage DEF MemoryTyped, Verdict
<1> QED
  BY <1>1, <1>3, <1>4, <1>5, StructWritten

\* What pool.Add does to the structs and the map, and to nothing else.
LEMMA AddEffect ==
  ASSUME MemoryTyped, NEW o \in Obj, AddProbed(o)
  PROVE  /\ obj[o].addr \in Addr
         /\ proxies' = [proxies EXCEPT ![obj[o].addr] = o]
         /\ obj' \in [Obj -> Proxy]
         /\ obj'[o].addr = obj[o].addr /\ obj'[o].dirty
         /\ RowOf(obj'[o]) = RowOf(obj[o])
         /\ \A a \in Addr \ {obj[o].addr} : Exists(a) => obj'[proxies[a]] = obj[proxies[a]]
         /\ \A x \in Obj \ {o} : obj'[x] = obj[x]
<1> DEFINE p == obj[o]
           r == [p EXCEPT !.dirty = TRUE]
<1>1. p \in Proxy /\ p.addr \in Addr
  BY DEF MemoryTyped, Proxy
<1>2. obj' = [obj EXCEPT ![o] = r]
  BY DEF AddProbed
<1>3. r \in Proxy /\ r.addr = p.addr /\ r.dirty /\ RowOf(r) = RowOf(p)
  <2> HIDE DEF p
  <2> QED
    BY <1>1, FlagTyped
<1> HIDE DEF r
<1>4. obj' \in [Obj -> Proxy] /\ obj'[o] = r /\ \A x \in Obj \ {o} : obj'[x] = obj[x]
  BY <1>2, <1>3 DEF MemoryTyped
<1>5. ASSUME NEW a \in Addr \ {obj[o].addr}, Exists(a) PROVE obj'[proxies[a]] = obj[proxies[a]]
  <2>1. proxies[a] \in Obj /\ obj[proxies[a]].addr = a
    BY <1>5 DEF MemoryTyped, Exists
  <2> QED
    BY <1>4, <2>1
<1> QED
  BY <1>1, <1>3, <1>4, <1>5 DEF AddProbed

LEMMA AddTyped ==
  ASSUME Typed, NEW o \in Obj, AddProbed(o) PROVE Typed'
<1>1. MemoryTyped /\ TableTyped /\ FlushTyped
  BY TypedParts
<1> DEFINE b == obj[o].addr
<1>2. /\ b \in Addr /\ proxies' = [proxies EXCEPT ![b] = o] /\ obj' \in [Obj -> Proxy]
      /\ obj'[o].addr = b
      /\ \A a \in Addr \ {b} : Exists(a) => obj'[proxies[a]] = obj[proxies[a]]
  BY <1>1, AddEffect
<1> HIDE DEF b
<1>3. o # NoObj
  BY PersistenceAssumption DEF PersistenceAssumption
<1>4. \A a \in Addr \ {b} : Exists(a)' => Exists(a) /\ proxies'[a] = proxies[a]
  BY <1>1, <1>2 DEF Exists, MemoryTyped
<1>5. \A a \in Addr : Exists(a)' => obj'[proxies'[a]].addr = a
  BY <1>1, <1>2, <1>4 DEF MemoryTyped
<1>6. /\ stage' \in [Obj -> Stage] /\ known' \subseteq Obj
      /\ UNCHANGED <<mode, proc, ctx, shared, diskVars>>
  BY <1>1, AddStage DEF MemoryTyped, AddProbed
<1>7. MemoryTyped'
  BY <1>1, <1>2, <1>5, <1>6 DEF MemoryTyped
<1>8. \A a \in Addr : Exists(a) => Exists(a)'
  BY <1>1, <1>2, <1>3 DEF Exists, MemoryTyped
<1>9. TableTyped' /\ FlushTyped'
  BY <1>1, <1>6, <1>8 DEF TableTyped, FlushTyped, FlushShape, diskVars, StoredIds
<1> QED
  BY <1>7, <1>9, TypedNext

-----------------------------------------------------------------------------
(* The steps of a flush, each as the flush it leaves *)

\* flush' is flush, but for f, which now has these fields.
Becomes(f, q, todo, batch) ==
  /\ flush' \in [Flusher -> [pc : Phase, todo : SUBSET Addr, batch : Batches]]
  /\ flush'[f].pc = q /\ flush'[f].todo = todo /\ flush'[f].batch = batch
  /\ \A g \in Flusher \ {f} : flush'[g] = flush[g]

LEMMA BecomesRecord ==
  ASSUME FlushShape, NEW f \in Flusher,
         NEW q \in Phase, NEW todo \in SUBSET Addr, NEW batch \in Batches,
         flush' = [flush EXCEPT ![f] = [pc |-> q, todo |-> todo, batch |-> batch]]
  PROVE  Becomes(f, q, todo, batch)
BY DEF FlushShape, Becomes

LEMMA StartBecomes ==
  ASSUME FlushShape, NEW f \in Flusher, StartFlush(f)
  PROVE  Becomes(f, "scan", {a \in Addr : Exists(a)}, EmptyBatch)
BY EmptyTyped, BecomesRecord DEF StartFlush, Phase

LEMMA SkipBecomes ==
  ASSUME FlushShape, NEW f \in Flusher, NEW a \in Addr, SkipClean(f, a)
  PROVE  Becomes(f, flush[f].pc, flush[f].todo \ {a}, flush[f].batch)
<1>1. flush' = [flush EXCEPT ![f].todo = @ \ {a}]
  BY DEF SkipClean
<1> QED
  BY <1>1, FlushFields DEF FlushShape, Becomes

LEMMA BeginBecomes ==
  ASSUME Typed, NEW f \in Flusher, NEW a \in Addr, BeginCopy(f, a)
  PROVE  /\ RowOf(obj[proxies[a]]) \in Proxy
         /\ Becomes(f, "copying", flush[f].todo, With(flush[f].batch, a, RowOf(obj[proxies[a]])))
<1> DEFINE r == RowOf(obj[proxies[a]])
<1>1. a \in flush[f].todo /\ Exists(a) /\ proxies[a] \in Obj /\ obj[proxies[a]] \in Proxy
  BY DEF BeginCopy, Typed, StoreTypeOK, Exists
<1>2. r \in Proxy
  BY <1>1, RowTyped
<1> HIDE DEF r
<1> DEFINE b == With(flush[f].batch, a, r)
<1>3. b \in Batches
  BY <1>2, FlushFields, BatchTyped DEF Typed
<1>4. flush' = [flush EXCEPT ![f].pc = "copying", ![f].batch = b]
  BY DEF BeginCopy, r
<1> HIDE DEF b
<1>5. Becomes(f, "copying", flush[f].todo, b)
  BY <1>3, <1>4, FlushFields DEF Typed, FlushShape, Becomes, Phase
<1> QED
  BY <1>2, <1>5 DEF b, r

\* The row a copy ends with: the one it began with, what the struct says now, or
\* a mixture, which is recorded as torn.
LEMMA EndBecomes ==
  ASSUME Typed, NEW f \in Flusher, NEW a \in Addr, EndCopy(f, a)
  PROVE  \E r \in Mixtures({flush[f].batch[a], RowOf(obj[proxies[a]])}) :
           /\ r \in Proxy /\ r.addr = a /\ ~r.dirty
           /\ torn' = IF r \in {flush[f].batch[a], RowOf(obj[proxies[a]])}
                      THEN torn ELSE torn \cup {a}
           /\ Becomes(f, "copied", flush[f].todo, [flush[f].batch EXCEPT ![a] = r])
<1> DEFINE now == RowOf(obj[proxies[a]])
<1>1. /\ a \in flush[f].todo /\ Exists(a) /\ proxies[a] \in Obj
      /\ obj[proxies[a]] \in Proxy /\ obj[proxies[a]].addr = a
  BY DEF EndCopy, Copying, Typed, StoreTypeOK, Exists
<1>2. now \in Proxy /\ now.addr = a /\ ~now.dirty
  BY <1>1, RowTyped
<1>3. a \in DOMAIN flush[f].batch
  BY DEF EndCopy, Copying, InBatch
<1>4. flush[f].batch[a] \in Proxy /\ flush[f].batch[a].addr = a /\ ~flush[f].batch[a].dirty
  BY <1>3 DEF Typed, StoreTypeOK
<1>5. PICK r \in Mixtures({flush[f].batch[a], now}) :
        /\ flush' = [flush EXCEPT ![f].pc = "copied", ![f].batch[a] = r]
        /\ torn' = IF r \in {flush[f].batch[a], now} THEN torn ELSE torn \cup {a}
  BY DEF EndCopy
<1> HIDE DEF now
<1>6. r \in Proxy /\ r.addr = a /\ ~r.dirty
  BY <1>2, <1>4, MixtureTyped
<1> DEFINE b == [flush[f].batch EXCEPT ![a] = r]
<1>7. b \in Batches
  <2>1. PICK S \in SUBSET Addr : flush[f].batch \in [S -> Proxy]
    BY FlushFields DEF Batches, Typed
  <2> QED
    BY <2>1, <1>6 DEF Batches
<1>8. flush' = [flush EXCEPT ![f].pc = "copied", ![f].batch = b]
  BY <1>5
<1> HIDE DEF b
<1>9. Becomes(f, "copied", flush[f].todo, b)
  BY <1>7, <1>8, FlushFields DEF Typed, FlushShape, Becomes, Phase
<1> QED
  BY <1>5, <1>6, <1>9 DEF b, now

LEMMA ClearBecomes ==
  ASSUME FlushShape, NEW f \in Flusher, NEW a \in Addr, ClearFlag(f, a)
  PROVE  Becomes(f, "scan", flush[f].todo \ {a}, flush[f].batch)
<1>1. flush' = [flush EXCEPT ![f].pc = "scan", ![f].todo = @ \ {a}]
  BY DEF ClearFlag
<1> QED
  BY <1>1, FlushFields DEF FlushShape, Becomes, Phase

LEMMA EndScanBecomes ==
  ASSUME FlushShape, NEW f \in Flusher, EndScan(f)
  PROVE  \/ flush[f].batch = EmptyBatch /\ Becomes(f, AfterFlush(f), {}, flush[f].batch)
         \/ Becomes(f, "saving", {}, flush[f].batch)
<1>1. flush' = [flush EXCEPT ![f].pc = IF flush[f].batch = EmptyBatch
                                       THEN AfterFlush(f) ELSE "saving"]
      /\ flush[f].todo = {}
  BY DEF EndScan
<1>2. AfterFlush(f) \in Phase
  BY DEF AfterFlush, Phase
<1> QED
  BY <1>1, <1>2, FlushFields DEF FlushShape, Becomes, Phase

LEMMA OverBecomes ==
  ASSUME FlushShape, NEW f \in Flusher, flush' = FlushOver(f)
  PROVE  Becomes(f, AfterFlush(f), {}, EmptyBatch)
<1>1. AfterFlush(f) \in Phase
  BY DEF AfterFlush, Phase
<1>2. flush' = [flush EXCEPT ![f] = [pc |-> AfterFlush(f), todo |-> {}, batch |-> EmptyBatch]]
  <2> DEFINE v == [IdleFlush EXCEPT !.pc = AfterFlush(f)]
  <2>1. v = [pc |-> AfterFlush(f), todo |-> {}, batch |-> EmptyBatch]
    BY DEF IdleFlush
  <2>2. flush' = [flush EXCEPT ![f] = v]
    BY DEF FlushOver
  <2> HIDE DEF v
  <2> QED
    BY <2>1, <2>2
<1> QED
  BY <1>1, <1>2, EmptyTyped, BecomesRecord

LEMMA StopsBecomes ==
  ASSUME FlushShape, PeriodicStops
  PROVE  Becomes("periodic", "done", flush["periodic"].todo, flush["periodic"].batch)
<1> DEFINE f == "periodic"
<1>1. flush' = [flush EXCEPT ![f].pc = "done"] /\ f \in Flusher
  BY DEF PeriodicStops, Flusher
<1> HIDE DEF f
<1>2. Becomes(f, "done", flush[f].todo, flush[f].batch)
  BY <1>1, FlushFields DEF FlushShape, Becomes, Phase
<1> QED
  BY <1>2 DEF f

\* A flush that is left with ids of the pool and rows under their own ids is typed.
LEMMA FlushLeft ==
  ASSUME FlushTyped, NEW f \in Flusher, NEW q, NEW todo, NEW batch,
         Becomes(f, q, todo, batch), UNCHANGED proxies,
         todo \subseteq {a \in Addr : Exists(a)},
         \A a \in DOMAIN batch : batch[a].addr = a /\ ~batch[a].dirty
  PROVE  FlushTyped'
<1>1. \A a \in Addr : Exists(a)' = Exists(a)
  BY DEF Exists
<1> QED
  BY <1>1 DEF FlushTyped, FlushShape, Becomes

\* What a step of a flush that writes neither structs nor table leaves as it was.
LEMMA OnlyFlushTyped ==
  ASSUME MemoryTyped, TableTyped, OnlyFlush,
         lost' \subseteq Addr, torn' \subseteq Addr, overlap' \in BOOLEAN
  PROVE  MemoryTyped' /\ TableTyped'
BY DEF MemoryTyped, TableTyped, OnlyFlush, procVars, Exists, StoredIds

LEMMA FlagCleared ==
  ASSUME MemoryTyped, NEW f \in Flusher, NEW a \in Addr, ClearFlag(f, a), Exists(a)
  PROVE  /\ obj' \in [Obj -> Proxy]
         /\ ~obj'[proxies[a]].dirty
         /\ \A x \in Obj : obj'[x].addr = obj[x].addr /\ RowOf(obj'[x]) = RowOf(obj[x])
         /\ \A x \in Obj \ {proxies[a]} : obj'[x] = obj[x]
<1> DEFINE o == proxies[a]
           p == obj[o]
           r == [p EXCEPT !.dirty = FALSE]
<1>1. o \in Obj /\ p \in Proxy
  BY DEF MemoryTyped, Exists
<1>2. obj' = [obj EXCEPT ![o] = r]
  BY DEF ClearFlag
<1>3. r \in Proxy /\ r.addr = p.addr /\ ~r.dirty /\ RowOf(r) = RowOf(p)
  <2> HIDE DEF p
  <2> QED
    BY <1>1, FlagTyped
<1> HIDE DEF r
<1> QED
  BY <1>1, <1>2, <1>3 DEF MemoryTyped

LEMMA FlushStepTyped ==
  ASSUME Typed, NEW f \in Flusher, StartFlush(f) \/ FlushStep(f)
  PROVE  Typed'
<1> USE DEF Flusher
<1>1. MemoryTyped /\ TableTyped /\ FlushTyped /\ FlushShape
  BY TypedParts DEF Typed
<1>2. /\ flush[f].todo \subseteq {a \in Addr : Exists(a)}
      /\ \A a \in DOMAIN flush[f].batch :
           flush[f].batch[a].addr = a /\ ~flush[f].batch[a].dirty
  BY <1>1 DEF FlushTyped
<1>3. CASE StartFlush(f)
  <2>1. MemoryTyped' /\ TableTyped'
    BY <1>1, <1>3, OnlyFlushTyped DEF StartFlush, TableTyped
  <2>2. FlushTyped'
    <3>1. UNCHANGED proxies
      BY <1>3 DEF StartFlush, OnlyFlush, procVars
    <3> QED
      BY <1>1, <1>3, <3>1, StartBecomes, FlushLeft, EmptyTyped
  <2> QED
    BY <2>1, <2>2, TypedNext
<1>4. ASSUME NEW a \in Addr, SkipClean(f, a) PROVE Typed'
  <2>1. MemoryTyped' /\ TableTyped'
    BY <1>1, <1>4, OnlyFlushTyped DEF SkipClean, TableTyped
  <2>2. FlushTyped'
    <3>1. UNCHANGED proxies
      BY <1>4 DEF SkipClean, OnlyFlush, procVars
    <3> DEFINE todo == flush[f].todo \ {a}
    <3>2. Becomes(f, flush[f].pc, todo, flush[f].batch)
      BY <1>1, <1>4, SkipBecomes
    <3>3. todo \subseteq {x \in Addr : Exists(x)}
      BY <1>2
    <3> HIDE DEF todo
    <3> QED
      BY <1>1, <1>2, <3>1, <3>2, <3>3, FlushLeft
  <2> QED
    BY <2>1, <2>2, TypedNext
<1>5. ASSUME NEW a \in Addr, BeginCopy(f, a) PROVE Typed'
  <2>1. MemoryTyped' /\ TableTyped'
    BY <1>1, <1>5, OnlyFlushTyped DEF BeginCopy, TableTyped
  <2>2. FlushTyped'
    <3> DEFINE r == RowOf(obj[proxies[a]])
    <3>1. UNCHANGED proxies
      BY <1>5 DEF BeginCopy, OnlyFlush, procVars
    <3>2. r \in Proxy /\ Becomes(f, "copying", flush[f].todo, With(flush[f].batch, a, r))
      BY <1>5, BeginBecomes
    <3>3. r.addr = a /\ ~r.dirty
      <4>1. Exists(a) /\ proxies[a] \in Obj /\ obj[proxies[a]] \in Proxy /\ obj[proxies[a]].addr = a
        BY <1>1, <1>2, <1>5 DEF BeginCopy, MemoryTyped, Exists
      <4> QED
        BY <4>1, RowTyped
    <3> HIDE DEF r
    <3> DEFINE b == With(flush[f].batch, a, r)
    <3>4. \A x \in DOMAIN b : b[x].addr = x /\ ~b[x].dirty
      <4>1. /\ DOMAIN b = DOMAIN flush[f].batch \cup {a} /\ b[a] = r
            /\ \A x \in DOMAIN flush[f].batch \ {a} : b[x] = flush[f].batch[x]
        <5> DEFINE old == flush[f].batch
        <5>1. old \in Batches /\ r \in Proxy /\ a \in Addr
          BY <1>1, <3>2, FlushFields
        <5> HIDE DEF old
        <5>2. /\ DOMAIN With(old, a, r) = DOMAIN old \cup {a} /\ With(old, a, r)[a] = r
              /\ \A x \in DOMAIN old \ {a} : With(old, a, r)[x] = old[x]
          BY <5>1, BatchTyped
        <5> QED
          BY <5>2 DEF old
      <4> HIDE DEF b
      <4> QED
        BY <1>2, <3>3, <4>1
    <3> HIDE DEF b
    <3> QED
      BY <1>1, <1>2, <3>1, <3>2, <3>4, FlushLeft DEF b
  <2> QED
    BY <2>1, <2>2, TypedNext
<1>6. ASSUME NEW a \in Addr, EndCopy(f, a) PROVE Typed'
  <2>1. PICK r : /\ r \in Proxy /\ r.addr = a /\ ~r.dirty
                 /\ torn' = IF r \in {flush[f].batch[a], RowOf(obj[proxies[a]])}
                            THEN torn ELSE torn \cup {a}
                 /\ Becomes(f, "copied", flush[f].todo, [flush[f].batch EXCEPT ![a] = r])
    BY <1>6, EndBecomes
  <2>2. torn' \subseteq Addr
    BY <1>1, <2>1 DEF TableTyped
  <2>3. MemoryTyped' /\ TableTyped'
    BY <1>1, <1>6, <2>2, OnlyFlushTyped DEF EndCopy, TableTyped
  <2>4. UNCHANGED proxies
    BY <1>6 DEF EndCopy, OnlyFlush, procVars
  <2> DEFINE b == [flush[f].batch EXCEPT ![a] = r]
  <2>5. \A x \in DOMAIN b : b[x].addr = x /\ ~b[x].dirty
    BY <1>2, <2>1
  <2> HIDE DEF b
  <2>6. FlushTyped'
    BY <1>1, <1>2, <2>1, <2>4, <2>5, FlushLeft DEF b
  <2> QED
    BY <2>3, <2>6, TypedNext
<1>7. ASSUME NEW a \in Addr, ClearFlag(f, a) PROVE Typed'
  <2>1. Exists(a)
    BY <1>2, <1>7 DEF ClearFlag, Copying
  <2>2. obj' \in [Obj -> Proxy] /\ \A x \in Obj : obj'[x].addr = obj[x].addr
    BY <1>1, <1>7, <2>1, FlagCleared
  <2>3. MemoryTyped'
    BY <1>1, <1>7, <2>2 DEF MemoryTyped, ClearFlag, procVars, Exists
  <2>4. TableTyped'
    BY <1>1, <1>7 DEF TableTyped, ClearFlag, StoredIds
  <2>5. FlushTyped'
    <3>1. UNCHANGED proxies
      BY <1>7 DEF ClearFlag, procVars
    <3> DEFINE todo == flush[f].todo \ {a}
    <3>2. Becomes(f, "scan", todo, flush[f].batch)
      BY <1>1, <1>7, ClearBecomes
    <3>3. todo \subseteq {x \in Addr : Exists(x)}
      BY <1>2
    <3> HIDE DEF todo
    <3> QED
      BY <1>1, <1>2, <3>1, <3>2, <3>3, FlushLeft
  <2> QED
    BY <2>3, <2>4, <2>5, TypedNext
<1>8. CASE EndScan(f)
  <2>1. MemoryTyped' /\ TableTyped'
    BY <1>1, <1>8, OnlyFlushTyped DEF EndScan, TableTyped
  <2>2. UNCHANGED proxies
    BY <1>8 DEF EndScan, OnlyFlush, procVars
  <2>3. FlushTyped'
    BY <1>1, <1>2, <1>8, <2>2, EndScanBecomes, FlushLeft
  <2> QED
    BY <2>1, <2>3, TypedNext
<1>9. CASE Commit(f)
  <2>1. MemoryTyped'
    BY <1>1, <1>9 DEF MemoryTyped, Commit, FlagsAfterSave, procVars, Exists
  <2>2. \A a \in Addr : InBatch(f, a) => flush[f].batch[a] \in Proxy
    BY DEF InBatch, Typed, StoreTypeOK
  <2>3. table' \in [Addr -> Proxy \cup {NoRow}]
    BY <1>1, <1>9, <2>2 DEF Commit, TableTyped
  <2>4. \A a \in StoredIds' : table'[a].addr = a /\ ~table'[a].dirty
    <3> SUFFICES ASSUME NEW a \in StoredIds' PROVE table'[a].addr = a /\ ~table'[a].dirty
      OBVIOUS
    <3>1. a \in Addr /\ table'[a] # NoRow
      BY DEF StoredIds
    <3>2. CASE InBatch(f, a)
      BY <1>2, <1>9, <3>1, <3>2 DEF Commit, InBatch
    <3>3. CASE ~InBatch(f, a)
      <4>1. table'[a] = table[a]
        BY <1>9, <3>1, <3>3 DEF Commit
      <4>2. a \in StoredIds
        BY <3>1, <4>1 DEF StoredIds
      <4> QED
        BY <1>1, <4>1, <4>2 DEF TableTyped
    <3> QED
      BY <3>2, <3>3
  <2>5. TableTyped'
    BY <1>1, <1>9, <2>3, <2>4 DEF TableTyped, Commit
  <2>6. FlushTyped'
    <3>1. UNCHANGED proxies /\ flush' = FlushOver(f)
      BY <1>9 DEF Commit, procVars
    <3> QED
      BY <1>1, <3>1, OverBecomes, FlushLeft, EmptyTyped
  <2> QED
    BY <2>1, <2>5, <2>6, TypedNext
<1>10. CASE SaveFails(f)
  <2>1. lost' \subseteq Addr
    BY <1>1, <1>10 DEF SaveFails, TableTyped, Typed, StoreTypeOK
  <2>2. MemoryTyped' /\ TableTyped'
    BY <1>1, <1>10, <2>1, OnlyFlushTyped DEF SaveFails, TableTyped
  <2>3. FlushTyped'
    <3>1. UNCHANGED proxies /\ flush' = FlushOver(f)
      BY <1>10 DEF SaveFails, OnlyFlush, procVars
    <3> QED
      BY <1>1, <3>1, OverBecomes, FlushLeft, EmptyTyped
  <2> QED
    BY <2>2, <2>3, TypedNext
<1> QED
  BY <1>3, <1>4, <1>5, <1>6, <1>7, <1>8, <1>9, <1>10 DEF FlushStep

LEMMA StopsTyped == ASSUME Typed, PeriodicStops PROVE Typed'
<1>1. MemoryTyped /\ TableTyped /\ FlushTyped /\ FlushShape
  BY TypedParts DEF Typed
<1>2. MemoryTyped' /\ TableTyped'
  BY <1>1, OnlyFlushTyped DEF PeriodicStops, TableTyped
<1>3. FlushTyped'
  <2> DEFINE f == "periodic"
  <2>1. UNCHANGED proxies
    BY DEF PeriodicStops, OnlyFlush, procVars
  <2>2. Becomes(f, "done", flush[f].todo, flush[f].batch) /\ f \in Flusher
    BY <1>1, StopsBecomes DEF Flusher
  <2> HIDE DEF f
  <2>3. /\ flush[f].todo \subseteq {a \in Addr : Exists(a)}
        /\ \A a \in DOMAIN flush[f].batch :
             flush[f].batch[a].addr = a /\ ~flush[f].batch[a].dirty
    BY <1>1, <2>2 DEF FlushTyped
  <2> QED
    BY <1>1, <2>1, <2>2, <2>3, FlushLeft
<1> QED
  BY <1>2, <1>3, TypedNext

LEMMA InitTyped == StoreInit => Typed
<1> SUFFICES ASSUME StoreInit PROVE Typed
  OBVIOUS
<1>1. MemoryTyped
  BY FreshTyped, IdleTyped DEF StoreInit, MemoryTyped, Exists
<1>2. TableTyped
  BY DEF StoreInit, TableTyped, StoredIds
<1>3. FlushTyped
  BY EmptyTyped DEF StoreInit, FlushTyped, FlushShape, Phase, IdleFlush
<1> QED
  BY <1>1, <1>2, <1>3, TypedParts

\* A process that starts or stops: main's memory is what it loads, or nothing.
LEMMA BootOrStop ==
  ASSUME Boot \/ Crash \/ Return
  PROVE  /\ \E l \in SUBSET StoredIds : Memory(l)
         /\ proc' \in {"down", "up"} /\ UNCHANGED <<mode, shared, table, torn>>
BY DEF Boot, Crash, Return, Stop

LEMMA NextTyped == Typed /\ [StoreNext]_storeVars => Typed'
<1> SUFFICES ASSUME Typed, [StoreNext]_storeVars PROVE Typed'
  OBVIOUS
<1>1. CASE Boot \/ Crash \/ Return
  BY <1>1, BootOrStop, MemoryStep
<1>2. CASE Signal
  BY <1>2, SignalTyped
<1>3. ASSUME NEW o \in Obj, NEW a \in Addr, Discover(o, a) PROVE Typed'
  BY <1>3, DiscoverTyped
<1>4. ASSUME NEW o \in Obj, Recheck(o) \/ Verdict(o) \/ AddProbed(o) PROVE Typed'
  BY <1>4, RecheckTyped, VerdictStepTyped, AddTyped
<1>5. ASSUME NEW f \in Flusher, StartFlush(f) \/ FlushStep(f) PROVE Typed'
  BY <1>5, FlushStepTyped
<1>6. CASE PeriodicStops
  BY <1>6, StopsTyped
<1>7. CASE UNCHANGED storeVars
  BY <1>7 DEF Typed, StoreTypeOK, FlushShape, Exists, StoredIds, storeVars, procVars, diskVars
<1> QED
  BY <1>1, <1>2, <1>3, <1>4, <1>5, <1>6, <1>7 DEF StoreNext

\* Whatever order probes, flushes, crashes and restarts come in, every entry of the
\* pool, row of a batch and row of the table is filed under its own id.
THEOREM StoreTypeCorrect == StoreSpec => []StoreTypeOK
<1>1. Typed => StoreTypeOK
  BY DEF Typed
<1> QED
  BY <1>1, InitTyped, NextTyped, PTL DEF StoreSpec

-----------------------------------------------------------------------------
(* The flushes: what each holds, and that only two that overlap are two *)

Control == Rests /\ OneCopy /\ Alone

LEMMA ControlKept ==
  ASSUME Control, UNCHANGED <<flush, overlap>> PROVE Control'
BY DEF Control, Rests, OneCopy, Alone, Active, Copying, InBatch

LEMMA ControlFresh ==
  ASSUME flush' = [f \in Flusher |-> IdleFlush] PROVE Control'
BY EmptyTyped DEF Control, Rests, OneCopy, Alone, Active, Copying, InBatch, IdleFlush

\* A flush under way is the only one unless they overlap, whatever it becomes.
LEMMA AloneLeft ==
  ASSUME Alone, NEW f \in Active, NEW q, NEW todo, NEW batch,
         Becomes(f, q, todo, batch), UNCHANGED overlap
  PROVE  Alone'
<1>1. \A g \in Active' : g \in Active
  BY DEF Active, Becomes
<1> QED
  BY <1>1 DEF Alone

\* A step that leaves this flush with no half-made copy, and the others alone.
LEMMA ControlLeft ==
  ASSUME Control, NEW f \in Flusher, NEW q, NEW todo, NEW batch,
         Becomes(f, q, todo, batch), Alone',
         q \in {"idle", "saving", "done"} => todo = {},
         q \in {"idle", "done"} => batch = EmptyBatch,
         \A a \in Addr : a \in todo /\ a \in DOMAIN batch =>
           q \in {"copying", "copied"} /\ \A b \in Addr : b \in todo /\ b \in DOMAIN batch => b = a
  PROVE  Control'
<1>1. Rests'
  BY DEF Control, Rests, Becomes
<1>2. OneCopy'
  BY DEF Control, OneCopy, Copying, InBatch, Becomes
<1> QED
  BY <1>1, <1>2 DEF Control

LEMMA FlushStepControl ==
  ASSUME Typed, Control, NEW f \in Flusher, StartFlush(f) \/ FlushStep(f)
  PROVE  Control'
<1>1. FlushShape /\ Alone
  BY DEF Typed, Control
<1>2. CASE StartFlush(f)
  <2>1. Becomes(f, "scan", {a \in Addr : Exists(a)}, EmptyBatch)
    BY <1>1, <1>2, StartBecomes
  <2>2. Alone'
    <3>1. Active' \subseteq Active \cup {f}
      BY <2>1 DEF Active, Becomes
    <3>2. overlap' = (overlap \/ Active # {})
      BY <1>2 DEF StartFlush
    <3> QED
      BY <3>1, <3>2 DEF Alone
  <2> QED
    BY <2>1, <2>2, ControlLeft, EmptyTyped
<1>3. ASSUME NEW a \in Addr, SkipClean(f, a) PROVE Control'
  <2> DEFINE todo == flush[f].todo \ {a}
  <2>1. f \in Active /\ UNCHANGED overlap /\ flush[f].pc = "scan"
    BY <1>3 DEF SkipClean, Active
  <2>2. Becomes(f, flush[f].pc, todo, flush[f].batch)
    BY <1>1, <1>3, SkipBecomes
  <2>3. \A b \in Addr : ~(b \in todo /\ b \in DOMAIN flush[f].batch)
    BY <2>1 DEF Control, OneCopy, Copying, InBatch
  <2> HIDE DEF todo
  <2>4. Alone'
    BY <1>1, <2>1, <2>2, AloneLeft
  <2> QED
    BY <2>1, <2>2, <2>3, <2>4, ControlLeft
<1>4. ASSUME NEW a \in Addr, BeginCopy(f, a) PROVE Control'
  <2> DEFINE r == RowOf(obj[proxies[a]])
             b == With(flush[f].batch, a, r)
  <2>1. f \in Active /\ UNCHANGED overlap /\ flush[f].pc = "scan"
    BY <1>4 DEF BeginCopy, Active
  <2>2. r \in Proxy /\ Becomes(f, "copying", flush[f].todo, b)
    BY <1>4, BeginBecomes
  <2>3. DOMAIN b = DOMAIN flush[f].batch \cup {a}
    BY DEF With
  <2>4. \A x \in Addr : x \in flush[f].todo /\ x \in DOMAIN b => x = a
    BY <2>1, <2>3 DEF Control, OneCopy, Copying, InBatch
  <2> HIDE DEF r, b
  <2>5. Alone'
    BY <1>1, <2>1, <2>2, AloneLeft
  <2> QED
    BY <2>2, <2>4, <2>5, ControlLeft
<1>5. ASSUME NEW a \in Addr, EndCopy(f, a) PROVE Control'
  <2>1. PICK r : Becomes(f, "copied", flush[f].todo, [flush[f].batch EXCEPT ![a] = r])
    BY <1>5, EndBecomes
  <2> DEFINE b == [flush[f].batch EXCEPT ![a] = r]
  <2>2. f \in Active /\ UNCHANGED overlap /\ DOMAIN b = DOMAIN flush[f].batch
    BY <1>5 DEF EndCopy, Active
  <2> HIDE DEF b
  <2>3. Becomes(f, "copied", flush[f].todo, b)
    BY <2>1 DEF b
  <2>4. Alone'
    BY <1>1, <2>2, <2>3, AloneLeft
  <2>5. \A x, y \in flush[f].todo \cap DOMAIN b : y = x
    BY <2>2, FlushFields, <1>1 DEF Control, OneCopy, Copying, InBatch
  <2> QED
    BY <2>3, <2>4, <2>5, ControlLeft
<1>6. ASSUME NEW a \in Addr, ClearFlag(f, a) PROVE Control'
  <2> DEFINE todo == flush[f].todo \ {a}
  <2>1. f \in Active /\ UNCHANGED overlap /\ Copying(f, a)
    BY <1>6 DEF ClearFlag, Active
  <2>2. Becomes(f, "scan", todo, flush[f].batch)
    BY <1>1, <1>6, ClearBecomes
  <2>3. \A b \in Addr : ~(b \in todo /\ b \in DOMAIN flush[f].batch)
    BY <2>1 DEF Control, OneCopy, Copying, InBatch
  <2> HIDE DEF todo
  <2>4. Alone'
    BY <1>1, <2>1, <2>2, AloneLeft
  <2> QED
    BY <2>2, <2>3, <2>4, ControlLeft
<1>7. CASE EndScan(f)
  <2>1. f \in Active /\ UNCHANGED overlap
    BY <1>7 DEF EndScan, Active
  <2>2. PICK q : /\ Becomes(f, q, {}, flush[f].batch)
                 /\ q = "saving" \/ flush[f].batch = EmptyBatch
    BY <1>1, <1>7, EndScanBecomes
  <2>3. Alone'
    BY <1>1, <2>1, <2>2, AloneLeft
  <2> QED
    BY <2>2, <2>3, ControlLeft, EmptyTyped
<1>8. CASE Commit(f) \/ SaveFails(f)
  <2>1. f \in Active /\ UNCHANGED overlap /\ flush' = FlushOver(f)
    BY <1>8 DEF Commit, SaveFails, Active
  <2>2. Becomes(f, AfterFlush(f), {}, EmptyBatch)
    BY <1>1, <2>1, OverBecomes
  <2>3. Alone'
    BY <1>1, <2>1, <2>2, AloneLeft
  <2> QED
    BY <2>2, <2>3, ControlLeft, EmptyTyped
<1> QED
  BY <1>2, <1>3, <1>4, <1>5, <1>6, <1>7, <1>8 DEF FlushStep

LEMMA StopsControl == ASSUME Typed, Control, PeriodicStops PROVE Control'
<1> DEFINE f == "periodic"
<1>1. /\ f \in Flusher /\ flush[f].pc = "idle" /\ UNCHANGED overlap
      /\ Becomes(f, "done", flush[f].todo, flush[f].batch)
  BY StopsBecomes DEF Flusher, PeriodicStops, Typed
<1> HIDE DEF f
<1>2. flush[f].todo = {} /\ flush[f].batch = EmptyBatch
  BY <1>1 DEF Control, Rests
<1>3. Active' \subseteq Active
  BY <1>1 DEF Active, Becomes
<1>4. Alone'
  BY <1>1, <1>3 DEF Alone, Control
<1> QED
  BY <1>1, <1>2, <1>4, ControlLeft

-----------------------------------------------------------------------------
(* The rows: a clear flag means saved *)

Data == CopyTrue /\ BatchTrue /\ CleanIsSaved

\* A step of the engine: an entry that nobody probes is as it was, or was just added.
LEMMA DataProbe ==
  ASSUME Data, UNCHANGED <<table, flush, lost, overlap>>,
         \A a \in Addr : Settled(a)' =>
           \/ Settled(a) /\ proxies'[a] = proxies[a] /\ obj'[proxies[a]] = obj[proxies[a]]
           \/ obj'[proxies'[a]].dirty /\ \A f \in Flusher : ~Copying(f, a)
  PROVE  Data'
<1>1. /\ \A f \in Flusher, a \in Addr : Copying(f, a)' = Copying(f, a)
      /\ \A f \in Flusher, a \in Addr : InBatch(f, a)' = InBatch(f, a)
      /\ \A a \in Addr : InFlight(a)' = InFlight(a)
  BY DEF Copying, InBatch, InFlight
<1>2. CopyTrue'
  BY <1>1 DEF Data, CopyTrue, RowOf
<1>3. BatchTrue'
  BY <1>1 DEF Data, BatchTrue, RowOf
<1>4. CleanIsSaved'
  BY <1>1 DEF Data, CleanIsSaved, Saved, RowOf, Settled, Exists
<1> QED
  BY <1>2, <1>3, <1>4 DEF Data

LEMMA DataMemory ==
  ASSUME Typed, NEW l \in SUBSET StoredIds, Memory(l) PROVE Data'
<1>1. \A f \in Flusher, a \in Addr : ~InBatch(f, a)'
  BY EmptyTyped DEF Memory, IdleFlush, InBatch
<1>2. \A a \in Addr : Exists(a)' => obj'[proxies'[a]].dirty
  <2> SUFFICES ASSUME NEW a \in Addr, Exists(a)' PROVE obj'[proxies'[a]].dirty
    OBVIOUS
  <2>1. a \in l /\ proxies'[a] = Slot[a] /\ Slot[a] \in Obj
    BY PersistenceAssumption DEF PersistenceAssumption, Memory, MemoryMap, Exists
  <2>2. (CHOOSE b \in l : Slot[b] = Slot[a]) = a
    BY <2>1, PersistenceAssumption DEF PersistenceAssumption, StoredIds
  <2> DEFINE r == table[a]
  <2>3. obj'[Slot[a]] = [r EXCEPT !.dirty = TRUE]
    BY <2>1, <2>2 DEF Memory
  <2>4. r \in Proxy
    BY <2>1 DEF Typed, StoreTypeOK, StoredIds
  <2> HIDE DEF r
  <2> QED
    BY <2>1, <2>3, <2>4, FlagTyped
<1> QED
  BY <1>1, <1>2 DEF Data, CopyTrue, BatchTrue, CleanIsSaved, Copying, Settled

\* A probe begins, or its verdict is written: the struct is nobody's to trust.
LEMMA BeginsData ==
  ASSUME Typed, Data, NEW o \in Obj, NEW r \in Proxy, Begins(o, r) PROVE Data'
<1>0. MemoryTyped /\ r.addr \in Addr
  BY TypedParts DEF Proxy
<1>1. UNCHANGED <<table, flush, lost, overlap, proxies>> /\ stage'[o] # Idle
  BY <1>0, BeginsStage DEF Begins, diskVars
<1>2. \A x \in Obj \ {o} : obj'[x] = obj[x] /\ stage'[x] = stage[x]
  BY <1>0, BeginsStage DEF Begins, MemoryTyped
<1>3. ASSUME NEW a \in Addr, Settled(a)'
      PROVE  Settled(a) /\ proxies'[a] = proxies[a] /\ obj'[proxies[a]] = obj[proxies[a]]
  <2>1. proxies'[a] = proxies[a] /\ Exists(a)
    BY <1>1, <1>3 DEF Settled, Exists
  <2>2. proxies[a] \in Obj \ {o}
    BY <1>1, <1>3, <2>1 DEF Settled, Exists, Typed, StoreTypeOK
  <2> QED
    BY <1>2, <1>3, <2>1, <2>2 DEF Settled
<1> QED
  BY <1>1, <1>3, DataProbe

LEMMA VerdictData ==
  ASSUME Typed, Data, NEW o \in Obj, Verdict(o) PROVE Data'
<1>0. MemoryTyped
  BY TypedParts
<1>1. UNCHANGED <<table, flush, lost, overlap, proxies>> /\ stage'[o] # Idle
  BY <1>0, VerdictStage DEF Verdict, diskVars
<1>2. \A x \in Obj \ {o} : obj'[x] = obj[x] /\ stage'[x] = stage[x]
  BY <1>0, VerdictStage DEF Verdict, MemoryTyped
<1>3. ASSUME NEW a \in Addr, Settled(a)'
      PROVE  Settled(a) /\ proxies'[a] = proxies[a] /\ obj'[proxies[a]] = obj[proxies[a]]
  <2>1. proxies'[a] = proxies[a] /\ Exists(a)
    BY <1>1, <1>3 DEF Settled, Exists
  <2>2. proxies[a] \in Obj \ {o}
    BY <1>1, <1>3, <2>1 DEF Settled, Exists, Typed, StoreTypeOK
  <2> QED
    BY <1>2, <1>3, <2>1, <2>2 DEF Settled
<1> QED
  BY <1>1, <1>3, DataProbe

\* pool.Add sets the flag, and no copy is half-made while it holds the lock.
LEMMA AddData ==
  ASSUME Typed, Control, Data, NEW o \in Obj, AddProbed(o) PROVE Data'
<1> DEFINE b == obj[o].addr
<1>1. MemoryTyped
  BY TypedParts
<1>2. /\ b \in Addr /\ proxies' = [proxies EXCEPT ![b] = o] /\ obj'[o].dirty
      /\ \A a \in Addr \ {b} : Exists(a) => obj'[proxies[a]] = obj[proxies[a]]
  BY <1>1, AddEffect
<1> HIDE DEF b
<1>3. UNCHANGED <<table, flush, lost, overlap>>
  BY DEF AddProbed, diskVars
<1>4. \A f \in Flusher, a \in Addr : ~Copying(f, a)
  BY DEF AddProbed, Readers, Control, OneCopy
<1>5. ASSUME NEW a \in Addr, Settled(a)'
      PROVE  \/ Settled(a) /\ proxies'[a] = proxies[a] /\ obj'[proxies[a]] = obj[proxies[a]]
             \/ obj'[proxies'[a]].dirty /\ \A f \in Flusher : ~Copying(f, a)
  <2>1. CASE a = b
    BY <1>1, <1>2, <1>4, <2>1 DEF MemoryTyped
  <2>2. CASE a # b
    <3>1. proxies'[a] = proxies[a] /\ Exists(a) /\ proxies[a] \in Obj
      BY <1>1, <1>2, <1>5, <2>2 DEF MemoryTyped, Settled, Exists
    <3>2. proxies[a] # o
      BY <1>1, <2>2, <3>1 DEF MemoryTyped, b
    <3>3. stage'[proxies[a]] = stage[proxies[a]]
      BY <1>1, <3>1, <3>2, AddStage
    <3> QED
      BY <1>2, <1>5, <2>2, <3>1, <3>3 DEF Settled
  <2> QED
    BY <2>1, <2>2
<1> QED
  BY <1>3, <1>5, DataProbe

\* A step of a flush that writes neither structs nor table, and drops no row.
LEMMA DataLeft ==
  ASSUME Data, NEW f \in Flusher, NEW q, NEW todo, NEW batch,
         Becomes(f, q, todo, batch), UNCHANGED <<obj, proxies, stage, table>>,
         lost' = lost, overlap => overlap',
         DOMAIN flush[f].batch \subseteq DOMAIN batch,
         \A a \in Addr : a \in todo /\ a \in DOMAIN batch /\ Settled(a)
           => batch[a] = RowOf(obj[proxies[a]]),
         \A a \in Addr : (/\ a \notin todo /\ a \in DOMAIN batch /\ ~overlap
                          /\ Settled(a) /\ ~obj[proxies[a]].dirty)
           => batch[a] = RowOf(obj[proxies[a]])
  PROVE  Data'
<1>1. \A a \in Addr : Settled(a)' = Settled(a) /\ Saved(a)' = Saved(a)
  BY DEF Settled, Saved, Exists, RowOf
<1>2. \A a \in Addr : InFlight(a) => InFlight(a)'
  BY DEF InFlight, InBatch, Becomes
<1>3. CopyTrue'
  <2> SUFFICES ASSUME NEW g \in Flusher, NEW a \in Addr, Copying(g, a)', Settled(a)'
               PROVE  flush'[g].batch[a] = RowOf(obj[proxies[a]])
    BY DEF CopyTrue, RowOf
  <2>1. CASE g = f
    BY <1>1, <2>1 DEF Copying, InBatch, Becomes
  <2>2. CASE g # f
    <3>1. flush'[g] = flush[g]
      BY <2>2 DEF Becomes
    <3> QED
      BY <1>1, <3>1 DEF Data, CopyTrue, Copying, InBatch
  <2> QED
    BY <2>1, <2>2
<1>4. BatchTrue'
  <2> SUFFICES ASSUME NEW g \in Flusher, NEW a \in Addr, InBatch(g, a)', a \notin flush'[g].todo,
                      ~overlap, Settled(a)', ~obj[proxies[a]].dirty
               PROVE  flush'[g].batch[a] = RowOf(obj[proxies[a]])
    BY DEF BatchTrue, RowOf
  <2>1. CASE g = f
    BY <1>1, <2>1 DEF InBatch, Becomes
  <2>2. CASE g # f
    <3>1. flush'[g] = flush[g]
      BY <2>2 DEF Becomes
    <3> QED
      BY <1>1, <3>1 DEF Data, BatchTrue, InBatch
  <2> QED
    BY <2>1, <2>2
<1>5. CleanIsSaved'
  BY <1>1, <1>2 DEF Data, CleanIsSaved
<1> QED
  BY <1>3, <1>4, <1>5 DEF Data

\* Two readings of a struct that did not change mix into that reading.
LEMMA NoMixture ==
  ASSUME NEW r \in Proxy, NEW x \in Mixtures({r, r}) PROVE x = r
BY DEF Mixtures, Proxy

\* What OnlyFlush leaves alone.
LEMMA OnlyFlushLeaves == OnlyFlush => UNCHANGED <<obj, proxies, stage, table>>
BY DEF OnlyFlush, procVars

\* With one flush at a time, an id in this one's batch is in no other.
LEMMA OnlyBatch ==
  ASSUME Control, ~overlap, NEW f \in Active, NEW g \in Flusher, NEW a \in Addr, InBatch(g, a)
  PROVE  g = f
<1>1. g \in Active
  BY EmptyTyped DEF Control, Rests, InBatch, Active
<1> QED
  BY <1>1 DEF Control, Alone

LEMMA CopyStepData ==
  ASSUME Typed, Control, Data, NEW f \in Flusher, NEW a \in Addr,
         SkipClean(f, a) \/ BeginCopy(f, a) \/ EndCopy(f, a)
  PROVE  Data'
<1>1. FlushShape /\ CopyTrue /\ BatchTrue /\ OneCopy
  BY DEF Typed, Data, Control
<1>2. CASE SkipClean(f, a)
  <2> DEFINE todo == flush[f].todo \ {a}
  <2>1. /\ UNCHANGED <<obj, proxies, stage, table, lost, overlap>>
        /\ flush[f].pc = "scan" /\ a \in flush[f].todo
    BY <1>2, OnlyFlushLeaves DEF SkipClean
  <2>2. Becomes(f, flush[f].pc, todo, flush[f].batch)
    BY <1>1, <1>2, SkipBecomes
  <2>3. \A x \in Addr : ~Copying(f, x)
    BY <1>1, <2>1 DEF OneCopy
  <2>4. \A x \in Addr : x \in todo => x \notin DOMAIN flush[f].batch
    BY <2>3 DEF Copying, InBatch
  <2>5. \A x \in Addr : (/\ x \notin todo /\ x \in DOMAIN flush[f].batch /\ ~overlap
                         /\ Settled(x) /\ ~obj[proxies[x]].dirty)
                           => flush[f].batch[x] = RowOf(obj[proxies[x]])
    BY <1>1, <2>1, <2>3 DEF BatchTrue, Copying, InBatch
  <2> HIDE DEF todo
  <2> QED
    BY <2>1, <2>2, <2>4, <2>5, DataLeft
<1>3. CASE BeginCopy(f, a)
  <2> DEFINE r == RowOf(obj[proxies[a]])
             b == With(flush[f].batch, a, r)
  <2>1. /\ UNCHANGED <<obj, proxies, stage, table, lost, overlap>>
        /\ flush[f].pc = "scan" /\ a \in flush[f].todo
    BY <1>3, OnlyFlushLeaves DEF BeginCopy
  <2>2. Becomes(f, "copying", flush[f].todo, b)
    BY <1>3, BeginBecomes
  <2>3. \A x \in Addr : ~Copying(f, x)
    BY <1>1, <2>1 DEF OneCopy
  <2>4. /\ DOMAIN b = DOMAIN flush[f].batch \cup {a} /\ b[a] = r
        /\ \A x \in DOMAIN flush[f].batch : x # a => b[x] = flush[f].batch[x]
    BY DEF With
  <2> HIDE DEF b
  <2>5. \A x \in Addr : x \in flush[f].todo /\ x \in DOMAIN b => b[x] = RowOf(obj[proxies[x]])
    BY <2>3, <2>4 DEF Copying, InBatch
  <2>6. \A x \in Addr : (/\ x \notin flush[f].todo /\ x \in DOMAIN b /\ ~overlap
                         /\ Settled(x) /\ ~obj[proxies[x]].dirty)
                           => b[x] = RowOf(obj[proxies[x]])
    BY <1>1, <2>1, <2>4 DEF BatchTrue, InBatch
  <2> QED
    BY <2>1, <2>2, <2>4, <2>5, <2>6, DataLeft
<1>4. CASE EndCopy(f, a)
  <2>1. PICK r \in Mixtures({flush[f].batch[a], RowOf(obj[proxies[a]])}) :
          Becomes(f, "copied", flush[f].todo, [flush[f].batch EXCEPT ![a] = r])
    BY <1>4, EndBecomes
  <2> DEFINE b == [flush[f].batch EXCEPT ![a] = r]
  <2>2. UNCHANGED <<obj, proxies, stage, table, lost, overlap>> /\ Copying(f, a)
    BY <1>4, OnlyFlushLeaves DEF EndCopy
  <2>3. /\ DOMAIN b = DOMAIN flush[f].batch
        /\ \A x \in DOMAIN flush[f].batch : x # a => b[x] = flush[f].batch[x]
        /\ b[a] = r
    BY <2>2 DEF Copying, InBatch
  <2>4. Settled(a) => r = RowOf(obj[proxies[a]])
    <3>1. obj[proxies[a]] \in Proxy
      BY <2>2 DEF Typed, StoreTypeOK, Copying, Exists
    <3> QED
      BY <1>1, <2>1, <2>2, <3>1, RowTyped, NoMixture DEF CopyTrue
  <2>5. Becomes(f, "copied", flush[f].todo, b)
    BY <2>1
  <2> HIDE DEF b
  <2>6. \A x \in Addr : x \in flush[f].todo /\ x \in DOMAIN b => x = a
    BY <1>1, <2>2, <2>3 DEF OneCopy, Copying, InBatch
  <2>7. \A x \in Addr : (/\ x \notin flush[f].todo /\ x \in DOMAIN b /\ ~overlap
                         /\ Settled(x) /\ ~obj[proxies[x]].dirty)
                           => b[x] = RowOf(obj[proxies[x]])
    BY <1>1, <2>2, <2>3 DEF BatchTrue, InBatch, Copying
  <2> QED
    BY <2>2, <2>3, <2>4, <2>5, <2>6, <2>7, DataLeft
<1> QED
  BY <1>2, <1>3, <1>4

\* The flag is cleared after the copy: the copy is true by then, and stays true.
LEMMA ClearData ==
  ASSUME Typed, Control, Data, NEW f \in Flusher, NEW a \in Addr, ClearFlag(f, a)
  PROVE  Data'
<1> DEFINE todo == flush[f].todo \ {a}
<1>1. FlushShape /\ MemoryTyped /\ CopyTrue /\ BatchTrue /\ CleanIsSaved
  BY TypedParts DEF Typed, Data
<1>2. Becomes(f, "scan", todo, flush[f].batch)
  BY <1>1, ClearBecomes
<1>3. /\ UNCHANGED <<proxies, stage, table, lost, overlap>>
      /\ Copying(f, a) /\ f \in Active
  BY DEF ClearFlag, procVars, Active
<1>4. Exists(a)
  BY <1>3 DEF Typed, StoreTypeOK, Copying
<1>5. /\ \A x \in Obj : RowOf(obj'[x]) = RowOf(obj[x])
      /\ \A x \in Obj \ {proxies[a]} : obj'[x] = obj[x]
  BY <1>1, <1>4, FlagCleared
<1>6. \A x \in Addr : /\ Exists(x)' = Exists(x) /\ Settled(x)' = Settled(x)
                      /\ Exists(x) => proxies[x] \in Obj
  BY <1>1, <1>3 DEF Settled, Exists, MemoryTyped
<1>7. \A x \in Addr \ {a} : Exists(x) => obj'[proxies[x]] = obj[proxies[x]]
  BY <1>4, <1>5, <1>6, OneId DEF Typed
<1>8. \A g \in Flusher, x \in Addr : InBatch(g, x)' = InBatch(g, x)
  BY <1>2 DEF InBatch, Becomes
<1>9. \A g \in Flusher : flush'[g].batch = flush[g].batch
  BY <1>2 DEF Becomes
<1>10. CopyTrue'
  <2> SUFFICES ASSUME NEW g \in Flusher, NEW x \in Addr, Copying(g, x)', Settled(x)'
               PROVE  flush'[g].batch[x] = RowOf(obj'[proxies'[x]])
    BY DEF CopyTrue, RowOf
  <2>1. Copying(g, x)
    BY <1>2, <1>8 DEF Copying, Becomes
  <2>2. Settled(x) /\ proxies[x] \in Obj
    BY <1>6 DEF Settled
  <2>3. flush[g].batch[x] = RowOf(obj[proxies[x]])
    BY <1>1, <2>1, <2>2 DEF CopyTrue
  <2> QED
    BY <1>3, <1>5, <1>9, <2>2, <2>3
<1>11. BatchTrue'
  <2> SUFFICES ASSUME NEW g \in Flusher, NEW x \in Addr, InBatch(g, x)', x \notin flush'[g].todo,
                      ~overlap', Settled(x)', ~obj'[proxies'[x]].dirty
               PROVE  flush'[g].batch[x] = RowOf(obj'[proxies'[x]])
    BY DEF BatchTrue, RowOf
  <2>1. InBatch(g, x) /\ ~overlap /\ Settled(x) /\ proxies[x] \in Obj
    BY <1>3, <1>6, <1>8 DEF Settled
  <2>2. g = f
    BY <1>3, <2>1, OnlyBatch
  <2>3. CASE x = a
    <3>1. flush[g].batch[x] = RowOf(obj[proxies[x]])
      BY <1>1, <1>3, <2>1, <2>2, <2>3 DEF CopyTrue
    <3> QED
      BY <1>3, <1>5, <1>9, <2>1, <3>1
  <2>4. CASE x # a
    <3>1. x \notin flush[f].todo
      BY <1>2, <2>2, <2>4 DEF Becomes
    <3>2. obj'[proxies[x]] = obj[proxies[x]]
      BY <1>7, <2>1, <2>4 DEF Settled
    <3>3. flush[g].batch[x] = RowOf(obj[proxies[x]])
      BY <1>1, <1>3, <2>1, <2>2, <3>1, <3>2 DEF BatchTrue
    <3> QED
      BY <1>3, <1>9, <3>2, <3>3
  <2> QED
    BY <2>3, <2>4
<1>12. CleanIsSaved'
  <2> SUFFICES ASSUME NEW x \in Addr, Settled(x)', ~obj'[proxies'[x]].dirty,
                      ~InFlight(x)', x \notin lost', ~overlap'
               PROVE  Saved(x)'
    BY DEF CleanIsSaved
  <2>1. ~InFlight(x) /\ x # a
    BY <1>3, <1>8 DEF InFlight, Copying
  <2>2. Settled(x) /\ Exists(x) /\ obj'[proxies[x]] = obj[proxies[x]]
    BY <1>6, <1>7, <2>1 DEF Settled
  <2>3. Saved(x)
    BY <1>1, <1>3, <2>1, <2>2 DEF CleanIsSaved
  <2> QED
    BY <1>3, <1>6, <2>2, <2>3 DEF Saved, RowOf
<1> QED
  BY <1>10, <1>11, <1>12 DEF Data

\* The batch is committed, or lost with a mark.
LEMMA SaveData ==
  ASSUME Typed, Control, Data, NEW f \in Flusher, Commit(f) \/ SaveFails(f)
  PROVE  Data'
<1>1. /\ UNCHANGED <<obj, proxies, stage, overlap>>
      /\ flush[f].pc = "saving" /\ flush' = FlushOver(f) /\ f \in Active
  BY DEF Commit, SaveFails, OnlyFlush, FlagsAfterSave, procVars, Active
<1>2. Becomes(f, AfterFlush(f), {}, EmptyBatch)
  BY <1>1, OverBecomes DEF Typed
<1>3. \A a \in Addr : ~InBatch(f, a)'
  BY <1>2, EmptyTyped DEF Becomes, InBatch
<1>4. \A g \in Flusher \ {f} : flush'[g] = flush[g]
  BY <1>2 DEF Becomes
<1>5. \A a \in Addr : Settled(a)' = Settled(a)
  BY <1>1 DEF Settled, Exists
<1>6. CopyTrue'
  <2> SUFFICES ASSUME NEW g \in Flusher, NEW a \in Addr, Copying(g, a)', Settled(a)'
               PROVE  flush'[g].batch[a] = RowOf(obj[proxies[a]])
    BY <1>1 DEF CopyTrue, RowOf
  <2>1. g # f
    BY <1>3 DEF Copying
  <2>2. flush'[g] = flush[g]
    BY <1>4, <2>1
  <2> QED
    BY <1>5, <2>2 DEF Data, CopyTrue, Copying, InBatch
<1>7. BatchTrue'
  <2> SUFFICES ASSUME NEW g \in Flusher, NEW a \in Addr, InBatch(g, a)', a \notin flush'[g].todo,
                      ~overlap, Settled(a)', ~obj[proxies[a]].dirty
               PROVE  flush'[g].batch[a] = RowOf(obj[proxies[a]])
    BY <1>1 DEF BatchTrue, RowOf
  <2>1. g # f
    BY <1>3
  <2>2. flush'[g] = flush[g]
    BY <1>4, <2>1
  <2> QED
    BY <1>5, <2>2 DEF Data, BatchTrue, InBatch
<1>8. CleanIsSaved'
  <2> SUFFICES ASSUME NEW a \in Addr, Settled(a)', ~obj[proxies[a]].dirty,
                      ~InFlight(a)', a \notin lost', ~overlap
               PROVE  Saved(a)'
    BY <1>1 DEF CleanIsSaved
  <2>1. Settled(a) /\ Exists(a)
    BY <1>5 DEF Settled
  <2>2. CASE InBatch(f, a)
    <3>1. Commit(f)
      BY <2>2 DEF SaveFails, InBatch
    <3>2. a \notin flush[f].todo
      BY <1>1 DEF Control, Rests
    <3>3. flush[f].batch[a] = RowOf(obj[proxies[a]])
      BY <1>1, <2>1, <2>2, <3>2 DEF Data, BatchTrue
    <3>4. table'[a] = flush[f].batch[a]
      BY <2>2, <3>1 DEF Commit
    <3> QED
      BY <1>1, <2>1, <3>3, <3>4 DEF Saved, Exists, RowOf
  <2>3. CASE ~InBatch(f, a)
    <3>1. ~InFlight(a)
      BY <1>4, <2>3 DEF InFlight, InBatch
    <3>2. a \notin lost /\ table'[a] = table[a]
      BY <2>3 DEF Commit, SaveFails, OnlyFlush, InBatch, Typed, StoreTypeOK
    <3>3. Saved(a)
      BY <1>1, <2>1, <3>1, <3>2 DEF Data, CleanIsSaved
    <3> QED
      BY <1>1, <3>2, <3>3 DEF Saved, Exists, RowOf
  <2> QED
    BY <2>2, <2>3
<1> QED
  BY <1>6, <1>7, <1>8 DEF Data

\* A flush starts, and ends its scan; the periodic loop returns.
LEMMA BoundaryData ==
  ASSUME Typed, Control, Data, NEW f \in Flusher,
         StartFlush(f) \/ EndScan(f) \/ (f = "periodic" /\ PeriodicStops)
  PROVE  Data'
<1>1. FlushShape /\ CopyTrue /\ BatchTrue
  BY DEF Typed, Data
<1>2. UNCHANGED <<obj, proxies, stage, table, lost>> /\ (overlap => overlap')
  <2>1. UNCHANGED <<obj, proxies, stage, table, lost>>
    BY OnlyFlushLeaves DEF StartFlush, EndScan, PeriodicStops
  <2>2. overlap' = (overlap \/ Active # {}) \/ overlap' = overlap
    BY Zenon DEF StartFlush, EndScan, PeriodicStops
  <2>3. overlap => overlap'
    BY <2>2, Zenon
  <2> QED
    BY <2>1, <2>3
<1>3. PICK q, todo, batch :
        /\ Becomes(f, q, todo, batch)
        /\ batch = flush[f].batch
        /\ todo = flush[f].todo \/ batch = EmptyBatch
  <2>1. CASE StartFlush(f)
    <3>1. flush[f].batch = EmptyBatch
      BY <2>1 DEF StartFlush, Control, Rests
    <3> QED
      BY <1>1, <2>1, <3>1, StartBecomes
  <2>2. CASE EndScan(f)
    <3>1. flush[f].todo = {}
      BY <2>2 DEF EndScan
    <3> QED
      BY <1>1, <2>2, <3>1, EndScanBecomes
  <2>3. CASE f = "periodic" /\ PeriodicStops
    BY <1>1, <2>3, StopsBecomes
  <2> QED
    BY <2>1, <2>2, <2>3
<1>4. \A a \in Addr : a \in todo /\ a \in DOMAIN batch /\ Settled(a)
        => batch[a] = RowOf(obj[proxies[a]])
  BY <1>1, <1>3, EmptyTyped DEF CopyTrue, Copying, InBatch
<1>5. \A a \in Addr : (/\ a \notin todo /\ a \in DOMAIN batch /\ ~overlap
                       /\ Settled(a) /\ ~obj[proxies[a]].dirty)
        => batch[a] = RowOf(obj[proxies[a]])
  BY <1>1, <1>3, EmptyTyped DEF BatchTrue, InBatch
<1>6. DOMAIN flush[f].batch \subseteq DOMAIN batch /\ lost' = lost
  BY <1>2, <1>3
<1>7. Becomes(f, q, todo, batch)
  BY <1>3
<1> QED
  BY <1>2, <1>4, <1>5, <1>6, <1>7, DataLeft

\* The inductive invariant.
Inductive == Typed /\ Control /\ Data

LEMMA InitInductive == StoreInit => Inductive
<1> SUFFICES ASSUME StoreInit PROVE Inductive
  OBVIOUS
<1>1. /\ \A f \in Flusher : flush[f] = IdleFlush
      /\ \A a \in Addr : ~Exists(a)
  BY DEF StoreInit, Exists
<1>2. Control
  BY <1>1, EmptyTyped DEF Control, Rests, OneCopy, Alone, Active, Copying, InBatch, IdleFlush
<1>3. Data
  BY <1>1 DEF Data, CopyTrue, BatchTrue, CleanIsSaved, Settled
<1> QED
  BY <1>2, <1>3, InitTyped DEF Inductive

LEMMA NextInductive == Inductive /\ [StoreNext]_storeVars => Inductive'
<1> SUFFICES ASSUME Inductive, [StoreNext]_storeVars PROVE Inductive'
  OBVIOUS
<1>1. Typed /\ Control /\ Data /\ Typed'
  BY NextTyped DEF Inductive
<1>2. CASE Boot \/ Crash \/ Return
  <2>1. PICK l \in SUBSET StoredIds : Memory(l)
    BY <1>2, BootOrStop
  <2>2. Control'
    BY <2>1, ControlFresh DEF Memory
  <2>3. Data'
    BY <1>1, <2>1, DataMemory
  <2> QED
    BY <1>1, <2>2, <2>3 DEF Inductive
<1>3. CASE Signal
  <2>1. UNCHANGED <<obj, proxies, stage, table, flush, lost, overlap>>
    BY <1>3 DEF Signal, diskVars
  <2>2. Control'
    BY <1>1, <2>1, ControlKept
  <2>3. Data'
    BY <1>1, <2>1, DataProbe DEF Settled, Exists
  <2> QED
    BY <1>1, <2>2, <2>3 DEF Inductive
<1>4. ASSUME NEW o \in Obj, NEW a \in Addr, Discover(o, a) \/ Recheck(o) PROVE Inductive'
  <2>1. \E r \in Proxy : Begins(o, r)
    BY <1>1, <1>4, FreshTyped, TypedParts DEF Discover, Recheck, MemoryTyped
  <2>2. Data'
    BY <1>1, <2>1, BeginsData
  <2>3. Control'
    BY <1>1, <2>1, ControlKept DEF Begins, diskVars
  <2> QED
    BY <1>1, <2>2, <2>3 DEF Inductive
<1>5. ASSUME NEW o \in Obj, Verdict(o) \/ AddProbed(o) PROVE Inductive'
  <2>1. Data'
    BY <1>1, <1>5, VerdictData, AddData
  <2>2. UNCHANGED <<flush, overlap>>
    BY <1>5 DEF Verdict, AddProbed, diskVars
  <2>3. Control'
    BY <1>1, <2>2, ControlKept
  <2> QED
    BY <1>1, <2>1, <2>3 DEF Inductive
<1>6. ASSUME NEW f \in Flusher, StartFlush(f) \/ FlushStep(f) PROVE Inductive'
  <2>1. Control'
    BY <1>1, <1>6, FlushStepControl
  <2>2. Data'
    BY <1>1, <1>6, BoundaryData, CopyStepData, ClearData, SaveData DEF FlushStep
  <2> QED
    BY <1>1, <2>1, <2>2 DEF Inductive
<1>7. CASE PeriodicStops
  <2>1. Control'
    BY <1>1, <1>7, StopsControl
  <2>2. Data'
    BY <1>1, <1>7, BoundaryData DEF Flusher
  <2> QED
    BY <1>1, <2>1, <2>2 DEF Inductive
<1>8. CASE UNCHANGED storeVars
  <2>1. UNCHANGED <<obj, proxies, stage, table, flush, lost, overlap>>
    BY <1>8 DEF storeVars, procVars, diskVars
  <2>2. Control'
    BY <1>1, <2>1, ControlKept
  <2>3. Data'
    BY <1>1, <2>1, DataProbe DEF Settled, Exists
  <2> QED
    BY <1>1, <2>2, <2>3 DEF Inductive
<1>9. CASE \E o \in Obj : Recheck(o)
  BY <1>4, <1>9, PersistenceAssumption DEF PersistenceAssumption
<1> QED
  BY <1>2, <1>3, <1>4, <1>5, <1>6, <1>7, <1>8, <1>9 DEF StoreNext

\* "returns copies of every proxy that has been modified since the last persistence
\* flush, then clears the dirty flag" (pool.go:240): whatever is written to the
\* structs while they are copied, a flag that is clear means that the table holds
\* the struct as it is, unless the last batch failed or two flushes overlapped.
THEOREM ClearFlagMeansSaved == StoreSpec => []CleanIsSaved
<1>1. Inductive => CleanIsSaved
  BY DEF Inductive, Data
<1> QED
  BY <1>1, InitInductive, NextInductive, PTL DEF StoreSpec

-----------------------------------------------------------------------------
(* The verdicts *)

Earned(r) == /\ r.state = "DEAD" => r.fail = MaxFails /\ r.ok = 0
             /\ r.state = "ALIVE" => r.fail = 0 /\ r.ok > 0

\* Structs and batches are as honest as the table.  A struct that only one goroutine
\* is at, and is probing, says VALIDATING: a failure that is not the last one leaves
\* that state.
Honest ==
  /\ \A o \in Obj : Earned(obj[o]) \/ obj[o].addr \in Excused
  /\ \A o \in Obj : IF stage[o].raced THEN obj[o].addr \in Excused
                     ELSE /\ Probers(o) <= 1
                          /\ stage[o].probing > 0 => obj[o].state = "VALIDATING"
  /\ \A f \in Flusher, a \in Addr : InBatch(f, a) => Earned(flush[f].batch[a]) \/ a \in Excused
  /\ RowsEarned

LEMMA EarnedRow ==
  ASSUME NEW r \in Proxy, NEW s \in Proxy, RowOf(r) = RowOf(s)
  PROVE  Earned(r) = Earned(s) /\ r.state = s.state /\ r.addr = s.addr
BY RowTyped DEF Earned

LEMMA EarnedVerdict ==
  ASSUME NEW p \in Proxy, p.state = "VALIDATING"
  PROVE  Earned(ProbedOK(p)) /\ Earned(ProbedBad(p))
<1>0. p.ok \in 0..MaxOK /\ p.fail \in 0..MaxFails /\ MaxOK \in Nat \ {0} /\ MaxFails \in Nat
  BY PersistenceAssumption DEF PersistenceAssumption, Proxy
<1>1. OneMore(p.ok, MaxOK) > 0
  BY <1>0 DEF OneMore
<1>2. Earned(ProbedOK(p))
  BY <1>1 DEF ProbedOK, Earned, Proxy
<1> DEFINE n == OneMore(p.fail, MaxFails)
<1>3. n \in 0..MaxFails
  BY <1>0 DEF OneMore
<1>4. CASE n >= MaxFails
  <2>1. ProbedBad(p) = [p EXCEPT !.fail = n, !.state = "DEAD", !.ok = 0]
    BY <1>4 DEF ProbedBad, Proxy
  <2>2. n = MaxFails
    BY <1>0, <1>3, <1>4
  <2> HIDE DEF n
  <2>3. Earned([p EXCEPT !.fail = n, !.state = "DEAD", !.ok = 0])
    BY <2>2 DEF Earned, Proxy
  <2> QED
    BY <1>2, <2>1, <2>3
<1>5. CASE ~(n >= MaxFails)
  <2>1. ProbedBad(p) = [p EXCEPT !.fail = n]
    BY <1>5 DEF ProbedBad
  <2> HIDE DEF n
  <2>2. [p EXCEPT !.fail = n].state = "VALIDATING"
    BY DEF Proxy
  <2> QED
    BY <1>2, <2>1, <2>2 DEF Earned
<1> QED
  BY <1>4, <1>5

LEMMA EarnedFresh == Earned(Unused) /\ Unused.state = "VALIDATING"
BY DEF Unused, NewProxy, Earned

LEMMA HonestMemory ==
  ASSUME Typed, Honest, NEW l \in SUBSET StoredIds, Memory(l),
         UNCHANGED <<mode, shared, table, torn>>
  PROVE  Honest'
<1>0. Excused' = Excused
  BY DEF Excused
<1>1. \A o \in Obj : Earned(obj'[o]) \/ obj'[o].addr \in Excused
  <2> SUFFICES ASSUME NEW o \in Obj PROVE Earned(obj'[o]) \/ obj'[o].addr \in Excused
    OBVIOUS
  <2>1. CASE \E a \in l : Slot[a] = o
    <3> DEFINE a == CHOOSE a \in l : Slot[a] = o
               r == table[a]
    <3>1. a \in l /\ a \in StoredIds
      BY <2>1
    <3>2. obj'[o] = [r EXCEPT !.dirty = TRUE]
      BY <2>1 DEF Memory
    <3>3. r \in Proxy /\ r.addr = a
      BY <3>1 DEF Typed, StoreTypeOK, StoredIds
    <3>4. Earned(r) \/ a \in Excused
      BY <3>1 DEF Honest, RowsEarned, Earned
    <3> HIDE DEF r, a
    <3>5. [r EXCEPT !.dirty = TRUE] \in Proxy /\ RowOf([r EXCEPT !.dirty = TRUE]) = RowOf(r)
      BY <3>3, FlagTyped
    <3> QED
      BY <3>2, <3>3, <3>4, <3>5, EarnedRow
  <2>2. CASE ~\E a \in l : Slot[a] = o
    BY <2>2, EarnedFresh DEF Memory
  <2> QED
    BY <2>1, <2>2
<1>2. \A o \in Obj : stage'[o] = Idle /\ Probers(o)' = 0
  BY IdleTyped DEF Memory, Probers
<1>3. \A f \in Flusher, a \in Addr : ~InBatch(f, a)'
  BY EmptyTyped DEF Memory, IdleFlush, InBatch
<1>4. RowsEarned'
  BY <1>0 DEF Honest, RowsEarned, StoredIds
<1> QED
  BY <1>0, <1>1, <1>2, <1>3, <1>4, IdleTyped DEF Honest, Earned

\* A step of the engine: no struct is worse than it was.
LEMMA HonestProbe ==
  ASSUME Honest, UNCHANGED diskVars, Excused \subseteq Excused',
         \A x \in Obj : Earned(obj'[x]) \/ obj'[x].addr \in Excused',
         \A x \in Obj : IF stage'[x].raced THEN obj'[x].addr \in Excused'
                        ELSE /\ Probers(x)' <= 1
                             /\ stage'[x].probing > 0 => obj'[x].state = "VALIDATING"
  PROVE  Honest'
<1>1. \A f \in Flusher, a \in Addr : InBatch(f, a)' = InBatch(f, a)
  BY DEF InBatch, diskVars
<1>2. \A f \in Flusher, a \in Addr :
        InBatch(f, a)' => Earned(flush'[f].batch[a]) \/ a \in Excused'
  BY <1>1 DEF Honest, Earned, diskVars
<1>3. RowsEarned'
  BY DEF Honest, RowsEarned, StoredIds, diskVars
<1> QED
  BY <1>2, <1>3 DEF Honest, Earned

\* A step that writes to one struct, whose other goroutines are recorded.
LEMMA HonestWrite ==
  ASSUME Typed, Honest, UNCHANGED diskVars, Excused \subseteq Excused',
         NEW o \in Obj, \A x \in Obj \ {o} : obj'[x] = obj[x] /\ stage'[x] = stage[x],
         Earned(obj'[o]) \/ obj'[o].addr \in Excused',
         IF stage'[o].raced THEN obj'[o].addr \in Excused'
         ELSE /\ Probers(o)' <= 1
              /\ stage'[o].probing > 0 => obj'[o].state = "VALIDATING"
  PROVE  Honest'
<1>1. \A x \in Obj \ {o} : Probers(x)' = Probers(x)
  BY DEF Probers
<1>2. \A x \in Obj : Earned(obj'[x]) \/ obj'[x].addr \in Excused'
  BY DEF Honest
<1>3. \A x \in Obj : IF stage'[x].raced THEN obj'[x].addr \in Excused'
                     ELSE /\ Probers(x)' <= 1
                          /\ stage'[x].probing > 0 => obj'[x].state = "VALIDATING"
  BY <1>1 DEF Honest
<1> QED
  BY <1>2, <1>3, HonestProbe

\* The goroutine is alone on the struct, or the struct's id is recorded as shared.
LEMMA HonestBegins ==
  ASSUME Typed, Honest, NEW o \in Obj, NEW r \in Proxy, Begins(o, r),
         r = obj[o] \/ stage[o] = Idle
  PROVE  Honest'
<1> DEFINE s == [r EXCEPT !.state = "VALIDATING"]
<1>0. MemoryTyped /\ r.addr \in Addr
  BY TypedParts DEF Proxy
<1>1. s.state = "VALIDATING" /\ s.addr = r.addr
  BY DEF Proxy
<1>2. obj' = [obj EXCEPT ![o] = s] /\ UNCHANGED diskVars /\ UNCHANGED mode
  BY DEF Begins
<1> HIDE DEF s
<1>3. obj'[o] = s /\ Earned(s) /\ \A x \in Obj \ {o} : obj'[x] = obj[x]
  BY <1>0, <1>1, <1>2 DEF Earned, MemoryTyped
<1>4. /\ stage'[o].probing = stage[o].probing + 1 /\ stage'[o].adding = stage[o].adding
      /\ stage'[o].raced = (stage[o].raced \/ Probers(o) > 0)
      /\ \A x \in Obj \ {o} : stage'[x] = stage[x]
      /\ shared \subseteq shared'
      /\ Probers(o) > 0 => r.addr \in shared' /\ mode = "parallel"
  BY <1>0, BeginsStage
<1>5. Excused \subseteq Excused'
  BY <1>2, <1>4 DEF Excused, diskVars
<1>6. Probers(o) > 0 => r.addr \in Excused'
  BY <1>2, <1>4 DEF Excused
<1>7. Probers(o) \in Nat /\ Probers(o) = stage[o].probing + stage[o].adding
      /\ stage[o].probing \in Nat /\ stage[o].adding \in Nat /\ stage[o].raced \in BOOLEAN
  BY <1>0, StageFields
<1>8. CASE stage'[o].raced
  <2>1. s.addr \in Excused'
    <3>1. CASE stage[o].raced
      BY <1>1, <1>5, <3>1, IdleTyped DEF Honest
    <3>2. CASE Probers(o) > 0
      BY <1>1, <1>6, <3>2
    <3> QED
      BY <1>4, <1>8, <3>1, <3>2
  <2> QED
    BY <1>2, <1>3, <1>4, <1>5, <1>8, <2>1, HonestWrite
<1>9. CASE ~stage'[o].raced
  <2>1. ~(Probers(o) > 0)
    BY <1>4, <1>9, Zenon
  <2>2. Probers(o)' <= 1
    BY <1>4, <1>7, <2>1 DEF Probers
  <2> QED
    BY <1>1, <1>2, <1>3, <1>4, <1>5, <1>9, <2>2, HonestWrite
<1> QED
  BY <1>8, <1>9

LEMMA HonestVerdict ==
  ASSUME Typed, Honest, NEW o \in Obj, Verdict(o) PROVE Honest'
<1>0. MemoryTyped /\ obj[o] \in Proxy
  BY TypedParts DEF MemoryTyped
<1>1. PICK p \in Verdicts(o) : obj' = [obj EXCEPT ![o] = p]
  BY DEF Verdict
<1>2. p.addr = obj[o].addr
  BY <1>0, VerdictsTyped
<1>3. /\ stage'[o].probing = stage[o].probing - 1 /\ stage'[o].adding = stage[o].adding + 1
      /\ stage'[o].raced = stage[o].raced
      /\ \A x \in Obj \ {o} : obj'[x] = obj[x] /\ stage'[x] = stage[x]
      /\ obj'[o] = p
  BY <1>0, <1>1, VerdictStage DEF MemoryTyped
<1>4. Excused' = Excused /\ UNCHANGED diskVars
  BY DEF Excused, Verdict, diskVars
<1>5. CASE stage[o].raced
  <2>1. p.addr \in Excused
    BY <1>2, <1>5 DEF Honest
  <2> QED
    BY <1>3, <1>4, <1>5, <2>1, HonestWrite
<1>6. CASE ~stage[o].raced
  <2>1. /\ Probers(o) <= 1 /\ stage[o].probing > 0 /\ obj[o].state = "VALIDATING"
    BY <1>6 DEF Honest, Verdict
  <2>2. Earned(p)
    BY <1>0, <1>1, <1>6, <2>1, EarnedVerdict DEF Verdicts
  <2>3. Probers(o)' <= 1 /\ ~(stage'[o].probing > 0)
    BY <1>0, <1>3, <2>1, StageFields DEF Probers
  <2> QED
    BY <1>3, <1>4, <1>6, <2>2, <2>3, HonestWrite
<1> QED
  BY <1>5, <1>6

LEMMA HonestAdd ==
  ASSUME Typed, Honest, NEW o \in Obj, AddProbed(o) PROVE Honest'
<1>1. MemoryTyped
  BY TypedParts
<1>2. /\ obj' \in [Obj -> Proxy] /\ RowOf(obj'[o]) = RowOf(obj[o])
      /\ \A x \in Obj \ {o} : obj'[x] = obj[x]
  BY <1>1, AddEffect
<1>3. /\ Earned(obj'[o]) = Earned(obj[o]) /\ obj'[o].addr = obj[o].addr
      /\ obj'[o].state = obj[o].state
  BY <1>1, <1>2, EarnedRow DEF MemoryTyped
<1>4. Excused' = Excused /\ UNCHANGED diskVars
  BY DEF Excused, AddProbed, diskVars
<1>5. \A x \in Obj \ {o} : obj'[x] = obj[x] /\ stage'[x] = stage[x]
  BY <1>1, <1>2, AddStage
<1>6. Earned(obj'[o]) \/ obj'[o].addr \in Excused'
  BY <1>3, <1>4 DEF Honest
<1>7. CASE stage'[o] = Idle
  <2>1. ~stage'[o].raced /\ Probers(o)' <= 1 /\ ~(stage'[o].probing > 0)
    BY <1>7, IdleTyped DEF Probers
  <2> QED
    BY <1>4, <1>5, <1>6, <2>1, HonestWrite
<1>8. CASE /\ stage'[o].probing = stage[o].probing /\ stage'[o].adding = stage[o].adding - 1
           /\ stage'[o].raced = stage[o].raced
  <2>1. Probers(o)' <= Probers(o) /\ Probers(o) \in Nat /\ Probers(o)' \in Int
    BY <1>1, <1>8, StageFields DEF Probers
  <2>2. IF stage'[o].raced THEN obj'[o].addr \in Excused'
        ELSE /\ Probers(o)' <= 1
             /\ stage'[o].probing > 0 => obj'[o].state = "VALIDATING"
    BY <1>3, <1>4, <1>8, <2>1 DEF Honest
  <2> QED
    BY <1>4, <1>5, <1>6, <2>2, HonestWrite
<1> QED
  BY <1>1, <1>7, <1>8, AddStage

\* A step of a flush: what it holds is as honest as the structs it was copied from,
\* or is recorded as torn.
LEMMA HonestFlush ==
  ASSUME Typed, Honest, NEW f \in Flusher, StartFlush(f) \/ FlushStep(f) PROVE Honest'
<1>1. FlushShape /\ MemoryTyped
  BY TypedParts DEF Typed
<1>2. ASSUME NEW q, NEW todo, NEW batch, Becomes(f, q, todo, batch),
             Excused \subseteq Excused', UNCHANGED <<obj, stage, table>>,
             \A a \in Addr : a \in DOMAIN batch => Earned(batch[a]) \/ a \in Excused'
      PROVE  Honest'
  <2>1. \A g \in Flusher, a \in Addr : InBatch(g, a)' => Earned(flush'[g].batch[a]) \/ a \in Excused'
    <3> SUFFICES ASSUME NEW g \in Flusher, NEW a \in Addr, InBatch(g, a)'
                 PROVE  Earned(flush'[g].batch[a]) \/ a \in Excused'
      OBVIOUS
    <3>1. CASE g = f
      BY <1>2, <3>1 DEF Becomes, InBatch
    <3>2. CASE g # f
      BY <1>2, <3>2 DEF Becomes, InBatch, Honest
    <3> QED
      BY <3>1, <3>2
  <2> QED
    BY <1>2, <2>1 DEF Honest, Earned, RowsEarned, StoredIds, Probers
<1>3. /\ OnlyFlush => UNCHANGED <<obj, stage, table, mode, shared>>
      /\ OnlyFlush /\ UNCHANGED torn => Excused' = Excused
  BY DEF OnlyFlush, procVars, Excused
<1>4. CASE StartFlush(f)
  <2>1. Becomes(f, "scan", {a \in Addr : Exists(a)}, EmptyBatch) /\ Excused' = Excused
    BY <1>1, <1>3, <1>4, StartBecomes DEF StartFlush
  <2> QED
    BY <1>2, <1>3, <1>4, <2>1, EmptyTyped DEF StartFlush
<1>5. ASSUME NEW a \in Addr, SkipClean(f, a) PROVE Honest'
  BY <1>1, <1>2, <1>3, <1>5, SkipBecomes DEF SkipClean, Honest, InBatch
<1>6. ASSUME NEW a \in Addr, BeginCopy(f, a) PROVE Honest'
  <2> DEFINE r == RowOf(obj[proxies[a]])
             b == With(flush[f].batch, a, r)
  <2>1. Becomes(f, "copying", flush[f].todo, b)
    BY <1>6, BeginBecomes
  <2>2. proxies[a] \in Obj /\ obj[proxies[a]] \in Proxy /\ obj[proxies[a]].addr = a
    BY <1>1, <1>6 DEF BeginCopy, MemoryTyped, Typed, StoreTypeOK, Exists
  <2>3. Earned(r) \/ a \in Excused
    BY <2>2, RowTyped DEF Honest, Earned
  <2>4. \A x \in Addr : x \in DOMAIN b =>
          \/ x = a /\ b[x] = r
          \/ InBatch(f, x) /\ b[x] = flush[f].batch[x]
    BY DEF With, InBatch
  <2> HIDE DEF r, b
  <2>5. \A x \in Addr : x \in DOMAIN b => Earned(b[x]) \/ x \in Excused
    BY <2>3, <2>4 DEF Honest
  <2>6. UNCHANGED <<obj, stage, table>> /\ Excused' = Excused
    BY <1>3, <1>6 DEF BeginCopy
  <2> QED
    BY <1>2, <2>1, <2>5, <2>6
<1>7. ASSUME NEW a \in Addr, EndCopy(f, a) PROVE Honest'
  <2>1. PICK r : /\ torn' = IF r \in {flush[f].batch[a], RowOf(obj[proxies[a]])}
                            THEN torn ELSE torn \cup {a}
                 /\ Becomes(f, "copied", flush[f].todo, [flush[f].batch EXCEPT ![a] = r])
    BY <1>7, EndBecomes
  <2> DEFINE b == [flush[f].batch EXCEPT ![a] = r]
  <2>2. proxies[a] \in Obj /\ obj[proxies[a]] \in Proxy /\ obj[proxies[a]].addr = a
    BY <1>1, <1>7 DEF EndCopy, Copying, MemoryTyped, Typed, StoreTypeOK, Exists
  <2>4. Excused \subseteq Excused' /\ torn' \subseteq Excused'
    BY <1>3, <1>7, <2>1 DEF EndCopy, Excused
  <2>3. Earned(r) \/ a \in Excused'
    <3>1. CASE r = flush[f].batch[a]
      BY <1>7, <2>4, <3>1 DEF Honest, EndCopy, Copying
    <3>2. CASE r = RowOf(obj[proxies[a]])
      BY <2>2, <2>4, <3>2, RowTyped DEF Honest, Earned
    <3>3. CASE r \notin {flush[f].batch[a], RowOf(obj[proxies[a]])}
      BY <2>1, <2>4, <3>3
    <3> QED
      BY <3>1, <3>2, <3>3
  <2>5. \A x \in Addr : x \in DOMAIN b => Earned(b[x]) \/ x \in Excused'
    <3>1. \A x \in Addr : x \in DOMAIN b =>
            \/ x = a /\ b[x] = r
            \/ InBatch(f, x) /\ b[x] = flush[f].batch[x]
      BY DEF InBatch
    <3> HIDE DEF b
    <3> QED
      BY <2>3, <2>4, <3>1 DEF Honest
  <2>6. UNCHANGED <<obj, stage, table>>
    BY <1>3, <1>7 DEF EndCopy
  <2>7. Becomes(f, "copied", flush[f].todo, b)
    BY <2>1
  <2> HIDE DEF b
  <2> QED
    BY <1>2, <2>4, <2>5, <2>6, <2>7
<1>8. ASSUME NEW a \in Addr, ClearFlag(f, a) PROVE Honest'
  <2>1. Exists(a)
    BY <1>8 DEF ClearFlag, Copying, Typed, StoreTypeOK
  <2>2. /\ obj' \in [Obj -> Proxy]
        /\ \A x \in Obj : RowOf(obj'[x]) = RowOf(obj[x])
    BY <1>1, <1>8, <2>1, FlagCleared
  <2>3. \A x \in Obj : /\ Earned(obj'[x]) = Earned(obj[x]) /\ obj'[x].state = obj[x].state
                       /\ obj'[x].addr = obj[x].addr
    BY <1>1, <2>2, EarnedRow DEF MemoryTyped
  <2>4. UNCHANGED <<stage, table>> /\ Excused' = Excused
    BY <1>8 DEF ClearFlag, procVars, Excused
  <2>5. \A g \in Flusher : flush'[g].batch = flush[g].batch
    BY <1>1, <1>8, ClearBecomes DEF Becomes
  <2> QED
    BY <2>3, <2>4, <2>5 DEF Honest, InBatch, RowsEarned, StoredIds, Probers
<1>9. CASE EndScan(f)
  <2>1. PICK q : Becomes(f, q, {}, flush[f].batch)
    BY <1>1, <1>9, EndScanBecomes
  <2> QED
    BY <1>2, <1>3, <1>9, <2>1 DEF EndScan, Honest, InBatch
<1>10. CASE SaveFails(f)
  <2>1. Becomes(f, AfterFlush(f), {}, EmptyBatch)
    BY <1>1, <1>10, OverBecomes DEF SaveFails
  <2> QED
    BY <1>2, <1>3, <1>10, <2>1, EmptyTyped DEF SaveFails
<1>11. CASE Commit(f)
  <2>1. /\ Becomes(f, AfterFlush(f), {}, EmptyBatch)
        /\ UNCHANGED <<obj, stage>> /\ Excused' = Excused
    BY <1>1, <1>11, OverBecomes DEF Commit, FlagsAfterSave, procVars, Excused
  <2>2. \A g \in Flusher, a \in Addr : InBatch(g, a)' => InBatch(g, a) /\ flush'[g].batch = flush[g].batch
    BY <2>1, EmptyTyped DEF Becomes, InBatch
  <2>3. RowsEarned'
    <3> SUFFICES ASSUME NEW a \in StoredIds', a \notin Excused PROVE Earned(table'[a])
      BY <2>1 DEF RowsEarned, Earned
    <3>1. CASE InBatch(f, a)
      BY <1>11, <3>1 DEF Commit, Honest, StoredIds
    <3>2. CASE ~InBatch(f, a)
      <4>1. table'[a] = table[a] /\ a \in StoredIds
        BY <1>11, <3>2 DEF Commit, StoredIds
      <4> QED
        BY <4>1 DEF Honest, RowsEarned, Earned
    <3> QED
      BY <3>1, <3>2
  <2> QED
    BY <2>1, <2>2, <2>3 DEF Honest, Earned, Probers
<1> QED
  BY <1>4, <1>5, <1>6, <1>7, <1>8, <1>9, <1>10, <1>11 DEF FlushStep

LEMMA NextHonest == Typed /\ Honest /\ [StoreNext]_storeVars => Honest'
<1> SUFFICES ASSUME Typed, Honest, [StoreNext]_storeVars PROVE Honest'
  OBVIOUS
<1>1. CASE Boot \/ Crash \/ Return
  BY <1>1, BootOrStop, HonestMemory
<1>2. CASE Signal
  BY <1>2, HonestProbe DEF Signal, Honest, Excused, Probers, diskVars
<1>3. ASSUME NEW o \in Obj, NEW a \in Addr, Discover(o, a) PROVE Honest'
  BY <1>3, HonestBegins, FreshTyped DEF Discover
<1>4. ASSUME NEW o \in Obj, Recheck(o) PROVE Honest'
  <2>1. obj[o] \in Proxy
    BY DEF Typed, StoreTypeOK
  <2> QED
    BY <1>4, <2>1, HonestBegins DEF Recheck
<1>5. ASSUME NEW o \in Obj, Verdict(o) \/ AddProbed(o) PROVE Honest'
  BY <1>5, HonestVerdict, HonestAdd
<1>6. ASSUME NEW f \in Flusher, StartFlush(f) \/ FlushStep(f) PROVE Honest'
  BY <1>6, HonestFlush
<1>7. CASE PeriodicStops
  <2> DEFINE f == "periodic"
  <2>1. /\ Becomes(f, "done", flush[f].todo, flush[f].batch) /\ f \in Flusher
        /\ UNCHANGED <<obj, stage, table>> /\ Excused' = Excused
    BY <1>7, StopsBecomes DEF Typed, Flusher, PeriodicStops, OnlyFlush, procVars, Excused
  <2> HIDE DEF f
  <2>2. \A g \in Flusher : flush'[g].batch = flush[g].batch
    BY <2>1 DEF Becomes
  <2> QED
    BY <2>1, <2>2 DEF Honest, InBatch, RowsEarned, StoredIds, Probers
<1>8. CASE UNCHANGED storeVars
  BY <1>8 DEF storeVars, procVars, diskVars, Honest, InBatch, RowsEarned, StoredIds,
             Excused, Probers
<1> QED
  BY <1>1, <1>2, <1>3, <1>4, <1>5, <1>6, <1>7, <1>8 DEF StoreNext

LEMMA InitHonest == StoreInit => Honest
BY EarnedFresh, EmptyTyped, IdleTyped
   DEF StoreInit, Honest, InBatch, IdleFlush, RowsEarned, StoredIds, Probers

\* A row says DEAD only after MaxFails failures in a row and ALIVE only after a success
\* with no failure since, whatever crashes, restarts, failed batches and overlapping
\* flushes lie between the probe and the row, unless it is torn, or, with parallel
\* keepalive only, two goroutines validated a struct of its address at a time.
THEOREM TableIsHonest == StoreSpec => []RowsEarned
<1>1. Honest => RowsEarned
  BY DEF Honest
<1> QED
  BY <1>1, InitTyped, NextTyped, InitHonest, NextHonest, PTL DEF StoreSpec

=============================================================================
