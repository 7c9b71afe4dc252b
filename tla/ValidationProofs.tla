-------------------------- MODULE ValidationProofs --------------------------
(***************************************************************************)
(* Proofs about Validation, for any number of workers, proxies and         *)
(* capacities.  The facts about counting are those of PoolProofs.          *)
(*                                                                         *)
(* The first part holds in every mode of the keepalive loop: types, what   *)
(* the pool is filed under, and the sum of the counters.  The second is    *)
(* about ownership: as long as the loop does not hand pooled structs to    *)
(* workers, each struct is in one place, and states and counters can be    *)
(* traced.                                                                 *)
(***************************************************************************)
EXTENDS Validation, PoolProofs, SequenceTheorems

USE DEF States, Counted

Pc == {"idle", "probing", "passed", "failed", "judging", "adding", "publishing",
       "sendKa", "sendMain", "exited"}
InValidateOne == {"probing", "passed", "failed", "judging", "adding", "publishing"}

ThreadState == [pc : Pc, o : Obj \cup {NoObj}, tmp : Nat, existed : BOOLEAN, from : States]
LoopState == [phase : {"waiting", "alive", "validating", "dead", "exited"},
              todo : SUBSET Obj, done : Nat]

\* The types of the pool's variables,
PoolTypes ==
  /\ obj \in [Obj -> Proxy]
  /\ proxies \in [Addr -> Obj \cup {NoObj}]
  /\ aliveIDs \subseteq Addr
  /\ total \in Nat /\ count \in [Counted -> Int]
  /\ protoCount \in [Protocol -> Nat] /\ deadTimes \in 0..MaxDeadTimes

\* and those of the threads and channels.
EngineTypes ==
  /\ th \in [Thread -> ThreadState]
  /\ lock \in Thread \cup {NoThread}
  /\ coord \in LoopState /\ coord.todo \subseteq born
  /\ mainCh \in Seq(born) /\ Len(mainCh) <= MainCap
  /\ kaCh \in Seq(born) /\ Len(kaCh) <= KaCap
  /\ born \subseteq Obj
  /\ ticks \in Nat

\* What a thread holds, and what it has read of the streaks.
HoldsOK(t) ==
  /\ th[t].o \in born \cup {NoObj}
  /\ th[t].o = NoObj <=> th[t].pc \in {"idle", "exited"}
  /\ th[t].pc = "publishing" <=> lock = t
  /\ th[t].pc = "passed" => th[t].tmp \in 1..MaxStreak
  /\ th[t].pc = "failed" => th[t].tmp \in 1..MaxFails

Threads == \A t \in Thread : HoldsOK(t)

\* What the pool holds, and what validateOne works on, is marked: a struct in
\* state DISCOVERED is on a channel or nowhere.
Filed ==
  \A a \in Addr : Exists(a) => /\ proxies[a] \in born
                               /\ obj[proxies[a]].addr = a
                               /\ obj[proxies[a]].state # "DISCOVERED"

Begun ==
  \A t \in Thread : th[t].pc \in InValidateOne => obj[th[t].o].state # "DISCOVERED"

\* The counters add up to the entries of the map at every moment; total is ahead
\* of both while an Add that brings in an entry holds the lock.
Sum == count["ALIVE"] + count["VALIDATING"] + count["DEAD"]

Reading(t) ==
  LET a == obj[th[t].o].addr IN
  th[t].pc = "publishing" =>
    /\ th[t].existed = Exists(a)
    /\ th[t].from = "DISCOVERED" <=> ~Exists(a)
    /\ total = Cardinality(Held) + (IF Exists(a) THEN 0 ELSE 1)

Tally ==
  /\ Sum = Cardinality(Held)
  /\ lock = NoThread => total = Cardinality(Held)
  /\ \A t \in Thread : Reading(t)

VInv == PoolTypes /\ EngineTypes /\ Threads /\ Filed /\ Begun /\ Tally

-----------------------------------------------------------------------------
\* The loop has handed nothing to a worker, and cannot: it is sequential, or it
\* has not begun its first cycle.
Alone == ~Parallel \/ (CountTicks /\ ticks = 0)

FirstCycle ==
  (CountTicks /\ ticks = 0) => /\ coord.phase \in {"waiting", "exited"}
                               /\ coord.todo = {}
                               /\ th[Coord].pc \in {"idle", "exited"}

\* A struct is in one place: in the channel once, in the hands of one thread, or
\* in the pool; only the loop works on what is in the pool.
Ownership ==
  /\ kaCh = <<>>
  /\ \A i, j \in 1..Len(mainCh) : mainCh[i] = mainCh[j] => i = j
  /\ \A t \in Thread : th[t].pc \notin {"sendKa", "sendMain"}
  /\ \A t \in Thread : th[t].o \notin Queued(mainCh)
  /\ \A t, u \in Thread : (th[t].o = th[u].o /\ th[t].o # NoObj) => t = u
  /\ \A t \in Thread \ {Coord} : th[t].o \notin Pooled \cup coord.todo
  /\ (Pooled \cup coord.todo) \cap Queued(mainCh) = {}

Owned == FirstCycle /\ (Alone => Ownership)

\* What validateOne is working on is VALIDATING until it records the outcome.
Marking ==
  \A t \in Thread :
    th[t].pc \in {"probing", "passed", "failed", "judging"} =>
      obj[th[t].o].state = "VALIDATING"

Earned(p) == /\ p.state = "DEAD" => p.fail = MaxFails /\ p.ok = 0
             /\ p.state = "ALIVE" => p.fail = 0 /\ p.ok > 0

StoredEarned == \A l \in Stored : \A o \in DOMAIN l : Earned(l[o])

EarnedInv == Marking /\ StateEarned

\* Until the first cycle: figures of the map, even while an Add holds the lock.
FiguresExact ==
  ticks = 0 =>
    /\ \A s \in Counted : count[s] = Cardinality(IdsIn(obj, proxies, s))
    /\ RotationExact /\ ProtoCountsExact
    /\ \A t \in Thread : th[t].pc = "publishing" =>
         th[t].from = PrevState(obj, obj[th[t].o].addr)

\* A struct has the protocol its address is listed under.
ListedProto ==
  \A o \in born : \E r \in Given : obj[o].addr = r.addr /\ obj[o].proto = r.proto

PipeInv == ListedProto /\ FiguresExact

-----------------------------------------------------------------------------
(* What the actions do, in terms the provers can use *)

\* Marking a struct writes its state and nothing else.
LEMMA MarkedEffect ==
  ASSUME obj \in [Obj -> Proxy], NEW o \in Obj
  PROVE  /\ Marked(o) \in [Obj -> Proxy]
         /\ Marked(o)[o].state = "VALIDATING"
         /\ Marked(o)[o].addr = obj[o].addr /\ Marked(o)[o].proto = obj[o].proto
         /\ Marked(o)[o].ok = obj[o].ok /\ Marked(o)[o].fail = obj[o].fail
         /\ \A x \in Obj \ {o} : Marked(o)[x] = obj[x]
<1> DEFINE r == [obj[o] EXCEPT !.state = "VALIDATING"]
<1>1. obj[o] \in Proxy
  OBVIOUS
<1>2. /\ r \in Proxy /\ r.state = "VALIDATING"
      /\ r.addr = obj[o].addr /\ r.proto = obj[o].proto
      /\ r.ok = obj[o].ok /\ r.fail = obj[o].fail
  BY <1>1 DEF Proxy
<1>3. Marked(o) = [obj EXCEPT ![o] = r]
  BY DEF Marked
<1> HIDE DEF r
<1> QED
  BY <1>2, <1>3

\* A thread that changes its record leaves the others alone.
LEMMA ThreadPut ==
  ASSUME th \in [Thread -> ThreadState], NEW t \in Thread, NEW r \in ThreadState
  PROVE  /\ [th EXCEPT ![t] = r] \in [Thread -> ThreadState]
         /\ [th EXCEPT ![t] = r][t] = r
         /\ \A u \in Thread \ {t} : [th EXCEPT ![t] = r][u] = th[u]
OBVIOUS

\* The record of a thread that moves on within validateOne.
LEMMA RecordPut ==
  ASSUME NEW r \in ThreadState, NEW pc \in Pc, NEW o \in Obj \cup {NoObj}, NEW n \in Nat
  PROVE  /\ [r EXCEPT !.pc = pc] \in ThreadState
         /\ [r EXCEPT !.pc = pc].pc = pc /\ [r EXCEPT !.pc = pc].o = r.o
         /\ [r EXCEPT !.pc = pc].existed = r.existed /\ [r EXCEPT !.pc = pc].from = r.from
         /\ [r EXCEPT !.pc = pc, !.o = o] \in ThreadState
         /\ [r EXCEPT !.pc = pc, !.o = o].pc = pc
         /\ [r EXCEPT !.pc = pc, !.o = o].o = o
         /\ [r EXCEPT !.o = o, !.pc = pc] = [r EXCEPT !.pc = pc, !.o = o]
         /\ [r EXCEPT !.pc = pc, !.tmp = n] \in ThreadState
         /\ [r EXCEPT !.pc = pc, !.tmp = n].pc = pc
         /\ [r EXCEPT !.pc = pc, !.tmp = n].o = r.o
         /\ [r EXCEPT !.pc = pc, !.tmp = n].tmp = n
BY DEF ThreadState, Pc

\* A thread that takes up a struct.
LEMMA HoldingEffect ==
  ASSUME th \in [Thread -> ThreadState], NEW t \in Thread, NEW o \in Obj
  PROVE  /\ Holding(t, o) \in [Thread -> ThreadState]
         /\ Holding(t, o)[t].pc = "probing" /\ Holding(t, o)[t].o = o
         /\ \A u \in Thread \ {t} : Holding(t, o)[u] = th[u]
<1> DEFINE r == [th[t] EXCEPT !.pc = "probing", !.o = o]
<1>1. th[t] \in ThreadState
  OBVIOUS
<1>2. r \in ThreadState /\ r.pc = "probing" /\ r.o = o
  BY <1>1 DEF ThreadState, Pc
<1>3. Holding(t, o) = [th EXCEPT ![t] = r]
  BY DEF Holding
<1> HIDE DEF r
<1> QED
  BY <1>2, <1>3, ThreadPut

\* No thread is the nil one, and an idle thread holds nothing.
LEMMA Constants ==
  /\ NoObj \notin Obj /\ NoThread \notin Thread /\ Coord \in Thread
  /\ Coord \notin Worker /\ Coord \notin KaWorker
  /\ Worker \cap KaWorker = {} /\ Worker \subseteq Thread /\ KaWorker \subseteq Thread
  /\ IdleThread \in ThreadState
  /\ IdleThread.pc = "idle" /\ IdleThread.o = NoObj
<1>1. IdleThread \in ThreadState /\ IdleThread.pc = "idle" /\ IdleThread.o = NoObj
  BY DEF IdleThread, ThreadState, Pc
<1> QED
  BY <1>1, PoolAssumption, ValidationAssumption
     DEF PoolAssumption, ValidationAssumption, Thread

\* Taking a struct off a channel.
LEMMA TakeEffect ==
  ASSUME NEW S, NEW q \in Seq(S), q # <<>>
  PROVE  /\ Head(q) \in S /\ Tail(q) \in Seq(S)
         /\ Len(q) \in Nat /\ Len(Tail(q)) = Len(q) - 1 /\ Len(q) > 0
         /\ Head(q) = q[1]
         /\ \A i \in 1..Len(Tail(q)) : Tail(q)[i] = q[i + 1]
<1>1. Len(q) \in Nat
  BY LenProperties
<1> QED
  BY <1>1, HeadTailProperties, EmptySeq

\* The probe's answer: the thread keeps its struct and has read a streak.
LEMMA ProbeEffect ==
  ASSUME PoolTypes, EngineTypes, NEW t \in Thread, HoldsOK(t),
         ProbePasses(t) \/ ProbeFails(t)
  PROVE  /\ th[t].pc = "probing" /\ th[t].o \in Obj
         /\ th' \in [Thread -> ThreadState]
         /\ th'[t].o = th[t].o
         /\ \/ th'[t].pc = "passed" /\ th'[t].tmp \in 1..MaxStreak
            \/ th'[t].pc = "failed" /\ th'[t].tmp \in 1..MaxFails
         /\ \A u \in Thread \ {t} : th'[u] = th[u]
<1> DEFINE o == th[t].o
<1>1. th[t].pc = "probing" /\ o \in Obj
  BY DEF ProbePasses, ProbeFails, HoldsOK, EngineTypes
<1>2. th[t] \in ThreadState /\ th \in [Thread -> ThreadState]
  BY DEF EngineTypes
<1>3. obj[o].ok \in 0..MaxStreak /\ obj[o].fail \in 0..MaxFails
  BY <1>1 DEF PoolTypes, Proxy
<1>4. /\ Capped(obj[o].ok, MaxStreak) \in 1..MaxStreak
      /\ Capped(obj[o].fail, MaxFails) \in 1..MaxFails
      /\ 1..MaxStreak \subseteq Nat /\ 1..MaxFails \subseteq Nat
  BY <1>3, PoolAssumption DEF Capped, PoolAssumption
<1> DEFINE put(pc, n) == [th[t] EXCEPT !.pc = pc, !.tmp = n]
<1>5. ASSUME NEW pc \in Pc, NEW n \in Nat
      PROVE  /\ put(pc, n) \in ThreadState
             /\ put(pc, n).pc = pc /\ put(pc, n).o = o /\ put(pc, n).tmp = n
  BY <1>2 DEF ThreadState, Pc
<1>6. CASE ProbePasses(t)
  <2> DEFINE n == Capped(obj[o].ok, MaxStreak)
  <2>1. th' = [th EXCEPT ![t] = put("passed", n)]
    BY <1>6 DEF ProbePasses
  <2>2. n \in Nat /\ "passed" \in Pc /\ n \in 1..MaxStreak
    BY <1>4 DEF Pc
  <2> HIDE DEF n, put, o
  <2>3. th' \in [Thread -> ThreadState] /\ th'[t] = put("passed", n)
        /\ \A u \in Thread \ {t} : th'[u] = th[u]
    BY <1>2, <1>5, <2>1, <2>2
  <2>4. th'[t].pc = "passed" /\ th'[t].o = o /\ th'[t].tmp = n
    BY <1>5, <2>2, <2>3
  <2> QED
    BY <1>1, <2>2, <2>3, <2>4 DEF o
<1>7. CASE ProbeFails(t)
  <2> DEFINE n == Capped(obj[o].fail, MaxFails)
  <2>1. th' = [th EXCEPT ![t] = put("failed", n)]
    BY <1>7 DEF ProbeFails
  <2>2. n \in Nat /\ "failed" \in Pc /\ n \in 1..MaxFails
    BY <1>4 DEF Pc
  <2> HIDE DEF n, put, o
  <2>3. th' \in [Thread -> ThreadState] /\ th'[t] = put("failed", n)
        /\ \A u \in Thread \ {t} : th'[u] = th[u]
    BY <1>2, <1>5, <2>1, <2>2
  <2>4. th'[t].pc = "failed" /\ th'[t].o = o /\ th'[t].tmp = n
    BY <1>5, <2>2, <2>3
  <2> QED
    BY <1>1, <2>2, <2>3, <2>4 DEF o
<1> QED
  BY <1>6, <1>7

\* What a thread writes to its struct once it knows the outcome.
Recorded(t) ==
  LET p == obj[th[t].o] IN
  IF th[t].pc = "passed" THEN Passed(p, th[t].tmp)
  ELSE IF th[t].pc = "failed" THEN [p EXCEPT !.fail = th[t].tmp]
  ELSE Judged(p)

LEMMA RecordedTyped ==
  ASSUME NEW t \in Thread, HoldsOK(t), th[t].pc \in {"passed", "failed", "judging"},
         obj[th[t].o] \in Proxy
  PROVE  LET p == obj[th[t].o]
             r == Recorded(t)
         IN  /\ r \in Proxy /\ r.addr = p.addr /\ r.proto = p.proto
             /\ r.state \in {"ALIVE", "DEAD", p.state}
<1> DEFINE p == obj[th[t].o]
           n == th[t].tmp
           r == Recorded(t)
<1>1. CASE th[t].pc = "passed"
  <2>1. n \in 0..MaxStreak /\ 0 \in 0..MaxFails
    BY <1>1, PoolAssumption DEF HoldsOK, PoolAssumption
  <2>2. r = [p EXCEPT !.ok = n, !.fail = 0, !.state = "ALIVE"]
    BY <1>1 DEF Recorded, Passed
  <2> QED
    BY <2>1, <2>2 DEF Proxy
<1>2. CASE th[t].pc = "failed"
  <2>1. n \in 0..MaxFails
    BY <1>2, PoolAssumption DEF HoldsOK, PoolAssumption
  <2>2. r = [p EXCEPT !.fail = n]
    BY <1>2 DEF Recorded
  <2> QED
    BY <2>1, <2>2 DEF Proxy
<1>3. CASE th[t].pc = "judging"
  <2>1. 0 \in 0..MaxStreak
    BY PoolAssumption DEF PoolAssumption
  <2>2. r = [p EXCEPT !.state = "DEAD", !.ok = 0] \/ r = p
    BY <1>3 DEF Recorded, Judged
  <2> QED
    BY <2>1, <2>2 DEF Proxy
<1> QED
  BY <1>1, <1>2, <1>3

\* Recording the outcome: streaks and state of one struct.
LEMMA RecordEffect ==
  ASSUME PoolTypes, EngineTypes, NEW t \in Thread, HoldsOK(t), Record(t)
  PROVE  LET o == th[t].o IN
         /\ th[t].pc \in {"passed", "failed", "judging"} /\ o \in Obj
         /\ th' \in [Thread -> ThreadState]
         /\ th'[t].pc = IF th[t].pc = "failed" THEN "judging" ELSE "adding"
         /\ th'[t].o = o
         /\ \A u \in Thread \ {t} : th'[u] = th[u]
         /\ obj' \in [Obj -> Proxy]
         /\ \A x \in Obj \ {o} : obj'[x] = obj[x]
         /\ obj'[o].addr = obj[o].addr /\ obj'[o].proto = obj[o].proto
         /\ obj'[o] = Recorded(t)
         /\ obj'[o].state \in {"ALIVE", "DEAD", obj[o].state}
         /\ OnlyStruct
<1> DEFINE o == th[t].o
           r == Recorded(t)
           next == IF th[t].pc = "failed" THEN "judging" ELSE "adding"
           s == [th[t] EXCEPT !.pc = next, !.tmp = 0]
<1>1. /\ th[t].pc \in {"passed", "failed", "judging"}
      /\ Writes(t, r, next)
  BY DEF Record, RecordPass, CountFail, Judge, AfterRecord, Recorded
<1>2. th[t] \in ThreadState /\ th \in [Thread -> ThreadState] /\ obj \in [Obj -> Proxy]
  BY DEF EngineTypes, PoolTypes
<1>3. o \in Obj /\ obj[o] \in Proxy
  BY <1>1, <1>2 DEF HoldsOK, EngineTypes
<1>4. /\ r \in Proxy /\ r.addr = obj[o].addr /\ r.proto = obj[o].proto
      /\ r.state \in {"ALIVE", "DEAD", obj[o].state}
  BY <1>1, <1>3, RecordedTyped
<1> HIDE DEF r
<1>5. th' = [th EXCEPT ![t] = s] /\ obj' = [obj EXCEPT ![o] = r] /\ OnlyStruct
  BY <1>1 DEF Writes
<1>6. s \in ThreadState /\ s.pc = next /\ s.o = o
  BY <1>2 DEF ThreadState, Pc
<1> HIDE DEF s
<1>7. /\ th' \in [Thread -> ThreadState] /\ th'[t] = s
      /\ \A u \in Thread \ {t} : th'[u] = th[u]
  BY <1>2, <1>5, <1>6, ThreadPut
<1>8. obj' \in [Obj -> Proxy] /\ obj'[o] = r /\ \A x \in Obj \ {o} : obj'[x] = obj[x]
  BY <1>2, <1>3, <1>4, <1>5
<1> QED
  BY <1>1, <1>3, <1>4, <1>5, <1>6, <1>7, <1>8 DEF r

\* Add takes the lock.  The struct is marked, so no history is merged into it.
LEMMA LockEffect ==
  ASSUME PoolTypes, EngineTypes, Filed, Begun, NEW t \in Thread, HoldsOK(t), LockAdd(t)
  PROVE  LET o == th[t].o
             a == obj[o].addr
         IN
         /\ th[t].pc = "adding" /\ lock = NoThread /\ lock' = t
         /\ o \in Obj /\ a \in Addr
         /\ obj' = obj /\ proxies' = proxies /\ count' = count
         /\ total' = IF Exists(a) THEN total ELSE total + 1
         /\ th' \in [Thread -> ThreadState]
         /\ th'[t].pc = "publishing" /\ th'[t].o = o
         /\ th'[t].existed = Exists(a)
         /\ th'[t].from = PrevState(obj, a)
         /\ th'[t].from = "DISCOVERED" <=> ~Exists(a)
         /\ \A u \in Thread \ {t} : th'[u] = th[u]
<1> DEFINE o == th[t].o
           a == obj[o].addr
           r == [th[t] EXCEPT !.pc = "publishing", !.existed = Exists(a),
                              !.from = PrevState(obj, a)]
<1>1. th[t].pc = "adding" /\ lock = NoThread /\ lock' = t /\ o \in Obj
  BY DEF LockAdd, HoldsOK, EngineTypes
<1>2. /\ th[t] \in ThreadState /\ th \in [Thread -> ThreadState]
      /\ obj \in [Obj -> Proxy] /\ proxies \in [Addr -> Obj \cup {NoObj}]
  BY DEF EngineTypes, PoolTypes
<1>3. a \in Addr
  BY <1>1, <1>2 DEF Proxy
<1>4. obj[o].state # "DISCOVERED"
  BY <1>1 DEF Begun, InValidateOne
<1>5. Merge(obj, o) = obj
  BY <1>4 DEF Merge
<1>6. Exists(a) => proxies[a] \in Obj /\ obj[proxies[a]].state # "DISCOVERED"
  BY <1>2, <1>3 DEF Filed, Exists
<1>7. PrevState(obj, a) \in States /\ (PrevState(obj, a) = "DISCOVERED" <=> ~Exists(a))
  BY <1>2, <1>6 DEF PrevState, Proxy
<1>8. Exists(a) \in BOOLEAN
  BY DEF Exists
<1>9. /\ obj' = obj /\ proxies' = proxies /\ count' = count
      /\ total' = IF Exists(a) THEN total ELSE total + 1
      /\ th' = [th EXCEPT ![t] = r]
  BY <1>5 DEF LockAdd, TotalAfterAdd
<1> HIDE DEF a
<1>10. /\ r \in ThreadState /\ r.pc = "publishing" /\ r.o = o
       /\ r.existed = Exists(a) /\ r.from = PrevState(obj, a)
  <2> DEFINE e == Exists(a)
             f == PrevState(obj, a)
  <2>1. e \in BOOLEAN /\ f \in States
    BY <1>7, <1>8
  <2> HIDE DEF e, f
  <2>2. /\ [th[t] EXCEPT !.pc = "publishing", !.existed = e, !.from = f] \in ThreadState
        /\ [th[t] EXCEPT !.pc = "publishing", !.existed = e, !.from = f].pc = "publishing"
        /\ [th[t] EXCEPT !.pc = "publishing", !.existed = e, !.from = f].o = o
        /\ [th[t] EXCEPT !.pc = "publishing", !.existed = e, !.from = f].existed = e
        /\ [th[t] EXCEPT !.pc = "publishing", !.existed = e, !.from = f].from = f
    BY <1>2, <2>1 DEF ThreadState, Pc
  <2> QED
    BY <2>2 DEF e, f
<1> HIDE DEF r
<1>11. /\ th' \in [Thread -> ThreadState] /\ th'[t] = r
       /\ \A u \in Thread \ {t} : th'[u] = th[u]
  BY <1>2, <1>9, <1>10, ThreadPut
<1> QED
  BY <1>1, <1>3, <1>7, <1>9, <1>10, <1>11 DEF a

\* Add publishes, brings the counters up to date and lets go of the lock.
LEMMA CommitEffect ==
  ASSUME PoolTypes, EngineTypes, NEW t \in Thread, HoldsOK(t), CommitAdd(t)
  PROVE  LET o == th[t].o
             a == obj[o].addr
             to == obj[o].state
         IN
         /\ th[t].pc = "publishing" /\ lock = t /\ lock' = NoThread
         /\ o \in Obj /\ a \in Addr /\ to \in States /\ th[t].from \in States
         /\ obj' \in [Obj -> Proxy]
         /\ \A x \in Obj \ {o} : obj'[x] = obj[x]
         /\ obj'[o] = [obj[o] EXCEPT !.dirty = TRUE]
         /\ obj'[o].addr = a /\ obj'[o].proto = obj[o].proto /\ obj'[o].state = to
         /\ obj'[o].ok = obj[o].ok /\ obj'[o].fail = obj[o].fail
         /\ proxies' \in [Addr -> Obj \cup {NoObj}]
         /\ proxies'[a] = o /\ \A b \in Addr \ {a} : proxies'[b] = proxies[b]
         /\ aliveIDs' = RotationAfter(obj, proxies', th[t].existed, th[t].from, to)
         /\ total' = total
         /\ count' \in [Counted -> Int]
         /\ \A s \in Counted : count'[s] = count[s] + (IF to = s THEN 1 ELSE 0)
                                              - (IF th[t].from = s THEN 1 ELSE 0)
         /\ protoCount' \in [Protocol -> Nat] /\ deadTimes' \in 0..MaxDeadTimes
         /\ protoCount' = MoveProto(protoCount, th[t].from, to, obj[o].proto)
         /\ th' \in [Thread -> ThreadState]
         /\ th'[t] = IdleThread
         /\ \A u \in Thread \ {t} : th'[u] = th[u]
<1> DEFINE o == th[t].o
           a == obj[o].addr
           to == obj[o].state
           p == obj[o].proto
           from == th[t].from
           r == [obj[o] EXCEPT !.dirty = TRUE]
<1>1. th[t].pc = "publishing" /\ lock = t /\ lock' = NoThread /\ o \in Obj
  BY DEF CommitAdd, HoldsOK, EngineTypes
<1>2. /\ th[t] \in ThreadState /\ th \in [Thread -> ThreadState]
      /\ obj \in [Obj -> Proxy] /\ proxies \in [Addr -> Obj \cup {NoObj}]
  BY DEF EngineTypes, PoolTypes
<1>3. obj[o] \in Proxy
  BY <1>1, <1>2
<1>4. a \in Addr /\ to \in States /\ p \in Protocol /\ from \in States
  BY <1>2, <1>3 DEF Proxy, ThreadState
<1>5. /\ obj' = [obj EXCEPT ![o] = r]
      /\ proxies' = [proxies EXCEPT ![a] = o]
      /\ AdjustCounters(from, to, p)
      /\ aliveIDs' = RotationAfter(obj, [proxies EXCEPT ![a] = o], th[t].existed, from, to)
      /\ th' = [th EXCEPT ![t] = IdleThread]
      /\ total' = total
  BY DEF CommitAdd, Publish
<1>6. /\ r \in Proxy /\ r.addr = a /\ r.proto = p /\ r.state = to
      /\ r.ok = obj[o].ok /\ r.fail = obj[o].fail
  BY <1>3 DEF Proxy
<1>7. Shape
  BY DEF PoolTypes, Shape
<1>8. /\ count' \in [Counted -> Int]
      /\ protoCount' \in [Protocol -> Nat] /\ deadTimes' \in 0..MaxDeadTimes
      /\ \A s \in Counted :
           count'[s] = count[s] + (IF to = s THEN 1 ELSE 0) - (IF from = s THEN 1 ELSE 0)
  <2> HIDE DEF from, to, p
  <2> QED
    BY <1>4, <1>5, <1>7, AdjustStep
<1>9. protoCount' = MoveProto(protoCount, from, to, p)
  BY <1>5 DEF AdjustCounters
<1>10. obj'[o] = r /\ obj' \in [Obj -> Proxy] /\ \A x \in Obj \ {o} : obj'[x] = obj[x]
  <2> HIDE DEF r
  <2> QED
    BY <1>1, <1>2, <1>5, <1>6
<1>11. /\ proxies' \in [Addr -> Obj \cup {NoObj}]
       /\ proxies'[a] = o /\ \A b \in Addr \ {a} : proxies'[b] = proxies[b]
  BY <1>1, <1>2, <1>4, <1>5
<1>12. aliveIDs' = RotationAfter(obj, proxies', th[t].existed, from, to)
  BY <1>5
<1>13. /\ th' \in [Thread -> ThreadState] /\ th'[t] = IdleThread
       /\ \A u \in Thread \ {t} : th'[u] = th[u]
  BY <1>2, <1>5, ThreadPut, Constants
<1>14. total' = total
  BY <1>5
<1> HIDE DEF a, to, from, p
<1> QED
  BY <1>1, <1>4, <1>6, <1>8, <1>9, <1>10, <1>11, <1>12, <1>13, <1>14
     DEF a, to, from, p

-----------------------------------------------------------------------------
(* The invariant, in every mode *)

\* No step takes a struct back, or changes what it stands for.
StructsKept ==
  /\ born \subseteq born'
  /\ \A o \in born : /\ obj'[o].addr = obj[o].addr /\ obj'[o].proto = obj[o].proto
                     /\ obj[o].state # "DISCOVERED" => obj'[o].state # "DISCOVERED"

\* A thread that has moved, but not into or out of the second half of Add.
Moved(t) ==
  /\ HoldsOK(t)'
  /\ th[t].pc # "publishing" /\ th'[t].pc # "publishing"
  /\ th'[t].pc \in InValidateOne => obj'[th'[t].o].state # "DISCOVERED"

figureVars == <<proxies, aliveIDs, total, count, protoCount, deadTimes, lock>>

\* Every step but the two of Add leaves the pool's map and figures alone.
LEMMA QuietStep ==
  ASSUME VInv, StructsKept, obj' \in [Obj -> Proxy], EngineTypes', UNCHANGED figureVars,
         \A t \in Thread : th'[t] = th[t] \/ Moved(t)
  PROVE  VInv'
<1>1. /\ proxies' = proxies /\ aliveIDs' = aliveIDs /\ total' = total /\ count' = count
      /\ protoCount' = protoCount /\ deadTimes' = deadTimes /\ lock' = lock
  BY DEF figureVars
<1>2. PoolTypes'
  BY <1>1 DEF VInv, PoolTypes
<1>3. Threads'
  <2> SUFFICES ASSUME NEW t \in Thread PROVE HoldsOK(t)'
    BY DEF Threads
  <2>1. CASE th'[t] = th[t]
    BY <2>1, <1>1 DEF VInv, Threads, HoldsOK, StructsKept
  <2>2. CASE Moved(t)
    BY <2>2 DEF Moved
  <2> QED
    BY <2>1, <2>2
<1>4. Filed'
  BY <1>1 DEF VInv, Filed, StructsKept, Exists
<1>5. Begun'
  <2> SUFFICES ASSUME NEW t \in Thread, th'[t].pc \in InValidateOne
               PROVE  obj'[th'[t].o].state # "DISCOVERED"
    BY DEF Begun, InValidateOne
  <2>1. CASE th'[t] = th[t]
    <3>1. obj[th[t].o].state # "DISCOVERED"
      BY <2>1 DEF VInv, Begun
    <3>2. th[t].o \in born
      BY <2>1 DEF VInv, Threads, HoldsOK, InValidateOne
    <3> QED
      BY <2>1, <3>1, <3>2 DEF StructsKept
  <2>2. CASE Moved(t)
    BY <2>2 DEF Moved
  <2> QED
    BY <2>1, <2>2
<1>6. Held' = Held /\ Sum' = Sum
  BY <1>1 DEF Held, Exists, Sum
<1>7. \A t \in Thread : Reading(t)'
  <2> SUFFICES ASSUME NEW t \in Thread, th'[t].pc = "publishing" PROVE Reading(t)'
    BY DEF Reading
  <2>1. th'[t] = th[t]
    BY DEF Moved
  <2>2. th[t].o \in born /\ Reading(t)
    BY <2>1 DEF VInv, Threads, HoldsOK, Tally
  <2>3. obj'[th'[t].o].addr = obj[th[t].o].addr
    BY <2>1, <2>2 DEF StructsKept
  <2> QED
    BY <1>1, <1>6, <2>1, <2>2, <2>3 DEF Reading, Exists
<1>8. Tally'
  BY <1>1, <1>6, <1>7 DEF VInv, Tally
<1> QED
  BY <1>2, <1>3, <1>4, <1>5, <1>8 DEF VInv

\* A step that writes to no struct keeps them all.
LEMMA NoWrite ==
  ASSUME VInv, obj' = obj, born' = born
  PROVE  StructsKept /\ obj' \in [Obj -> Proxy]
BY DEF StructsKept, VInv, PoolTypes

\* The scanner's new struct is one nobody has seen.
LEMMA EmitStep ==
  ASSUME VInv, NEW o \in Obj, NEW r \in Given, Emit(o, r)
  PROVE  VInv'
<1>1. PoolTypes /\ EngineTypes
  BY DEF VInv
<1>2. /\ o \notin born /\ obj' = [obj EXCEPT ![o] = r]
      /\ born' = born \cup {o} /\ mainCh' = Append(mainCh, o)
      /\ Len(mainCh) < MainCap
      /\ th' = th /\ coord' = coord /\ kaCh' = kaCh /\ ticks' = ticks
      /\ UNCHANGED figureVars
  BY DEF Emit, Unissued, figureVars
<1>3. r \in Proxy
  BY PoolAssumption DEF PoolAssumption
<1>4. obj' \in [Obj -> Proxy]
  BY <1>1, <1>2, <1>3 DEF PoolTypes
<1>5. StructsKept
  BY <1>1, <1>2 DEF StructsKept, PoolTypes, EngineTypes
<1>6. /\ mainCh' \in Seq(born') /\ Len(mainCh') <= MainCap
      /\ kaCh' \in Seq(born')
  <2>1. mainCh \in Seq(born') /\ kaCh \in Seq(born')
    BY <1>1, <1>2, SeqMonotonic DEF EngineTypes
  <2>2. Append(mainCh, o) \in Seq(born') /\ Len(Append(mainCh, o)) = Len(mainCh) + 1
    BY <1>2, <2>1, AppendProperties
  <2>3. Len(mainCh) \in Nat
    BY <2>1, LenProperties
  <2> QED
    BY <1>2, <2>1, <2>2, <2>3, ValidationAssumption DEF ValidationAssumption
<1>7. EngineTypes'
  <2>1. lock' = lock
    BY <1>2 DEF figureVars
  <2>2. born' \subseteq Obj /\ coord'.todo \subseteq born'
    BY <1>1, <1>2 DEF EngineTypes
  <2>3. /\ th' \in [Thread -> ThreadState] /\ lock' \in Thread \cup {NoThread}
        /\ coord' \in LoopState /\ Len(kaCh') <= KaCap /\ ticks' \in Nat
    BY <1>1, <1>2, <2>1 DEF EngineTypes
  <2> QED
    BY <1>6, <2>2, <2>3 DEF EngineTypes
<1> QED
  BY <1>2, <1>4, <1>5, <1>7, QuietStep

\* A thread that takes up a struct marks it.
LEMMA MarkStep ==
  ASSUME VInv, NEW t \in Thread, NEW o \in born, th[t].pc = "idle",
         obj' = Marked(o), th' = Holding(t, o), born' = born, UNCHANGED figureVars,
         coord' \in LoopState, coord'.todo \subseteq born,
         mainCh' \in Seq(born), Len(mainCh') <= MainCap,
         kaCh' \in Seq(born), Len(kaCh') <= KaCap, ticks' \in Nat
  PROVE  VInv'
<1>1. PoolTypes /\ EngineTypes /\ o \in Obj
  BY DEF VInv, EngineTypes
<1>2. /\ th' \in [Thread -> ThreadState]
      /\ th'[t].pc = "probing" /\ th'[t].o = o
      /\ \A u \in Thread \ {t} : th'[u] = th[u]
  BY <1>1, HoldingEffect DEF EngineTypes
<1>3. /\ obj' \in [Obj -> Proxy]
      /\ obj'[o].state = "VALIDATING"
      /\ obj'[o].addr = obj[o].addr /\ obj'[o].proto = obj[o].proto
      /\ \A x \in Obj \ {o} : obj'[x] = obj[x]
  BY <1>1, MarkedEffect DEF PoolTypes
<1>4. StructsKept
  BY <1>1, <1>3 DEF StructsKept, EngineTypes
<1>5. lock' = lock
  BY DEF figureVars
<1>6. EngineTypes'
  BY <1>1, <1>2, <1>5 DEF EngineTypes
<1>7. Moved(t)
  <2>1. lock # t
    BY DEF VInv, Threads, HoldsOK
  <2>2. th'[t].o \in born' /\ th'[t].o # NoObj
    BY <1>1, <1>2, Constants
  <2>3. HoldsOK(t)'
    BY <1>2, <1>5, <2>1, <2>2 DEF HoldsOK
  <2> QED
    BY <1>2, <1>3, <2>3 DEF Moved
<1> QED
  BY <1>2, <1>3, <1>4, <1>6, <1>7, QuietStep

LEMMA ReceiveStep ==
  ASSUME VInv, NEW t \in Thread, Receive(t)
  PROVE  VInv'
<1>1. EngineTypes
  BY DEF VInv
<1>2. /\ th[t].pc = "idle" /\ mainCh # <<>>
      /\ obj' = Marked(Head(mainCh)) /\ th' = Holding(t, Head(mainCh))
      /\ mainCh' = Tail(mainCh)
      /\ born' = born /\ coord' = coord /\ kaCh' = kaCh /\ ticks' = ticks
      /\ UNCHANGED figureVars
  BY DEF Receive, figureVars
<1>3. mainCh \in Seq(born) /\ Len(mainCh) <= MainCap
  BY <1>1 DEF EngineTypes
<1>4. /\ Head(mainCh) \in born /\ Tail(mainCh) \in Seq(born)
      /\ Len(mainCh) \in Nat /\ Len(Tail(mainCh)) = Len(mainCh) - 1
  BY <1>2, <1>3, TakeEffect
<1>5. Len(mainCh') <= MainCap
  BY <1>2, <1>3, <1>4, ValidationAssumption DEF ValidationAssumption
<1>6. /\ coord' \in LoopState /\ coord'.todo \subseteq born
      /\ kaCh' \in Seq(born) /\ Len(kaCh') <= KaCap /\ ticks' \in Nat
  BY <1>1, <1>2 DEF EngineTypes
<1> QED
  BY <1>2, <1>4, <1>5, <1>6, MarkStep

LEMMA ReceiveKaStep ==
  ASSUME VInv, NEW t \in Thread, ReceiveKa(t)
  PROVE  VInv'
<1>1. EngineTypes
  BY DEF VInv
<1>2. /\ th[t].pc = "idle" /\ kaCh # <<>>
      /\ obj' = Marked(Head(kaCh)) /\ th' = Holding(t, Head(kaCh))
      /\ kaCh' = Tail(kaCh)
      /\ born' = born /\ coord' = coord /\ mainCh' = mainCh /\ ticks' = ticks
      /\ UNCHANGED figureVars
  BY DEF ReceiveKa, figureVars
<1>3. kaCh \in Seq(born) /\ Len(kaCh) <= KaCap
  BY <1>1 DEF EngineTypes
<1>4. /\ Head(kaCh) \in born /\ Tail(kaCh) \in Seq(born)
      /\ Len(kaCh) \in Nat /\ Len(Tail(kaCh)) = Len(kaCh) - 1
  BY <1>2, <1>3, TakeEffect
<1>5. Len(kaCh') <= KaCap
  BY <1>2, <1>3, <1>4, ValidationAssumption DEF ValidationAssumption
<1>6. /\ coord' \in LoopState /\ coord'.todo \subseteq born
      /\ mainCh' \in Seq(born) /\ Len(mainCh') <= MainCap /\ ticks' \in Nat
  BY <1>1, <1>2 DEF EngineTypes
<1> QED
  BY <1>2, <1>4, <1>5, <1>6, MarkStep

LEMMA VisitStep ==
  ASSUME VInv, NEW o \in Obj, Visit(o)
  PROVE  VInv'
<1>1. EngineTypes /\ Coord \in Thread
  BY Constants DEF VInv
<1>2. /\ th[Coord].pc = "idle" /\ o \in coord.todo
      /\ obj' = Marked(o) /\ th' = Holding(Coord, o)
      /\ coord' = [Visited(o) EXCEPT !.done = IF coord.phase = "alive" THEN 0 ELSE @ + 1]
      /\ born' = born /\ mainCh' = mainCh /\ kaCh' = kaCh /\ ticks' = ticks
      /\ UNCHANGED figureVars
  BY DEF Visit, Visiting, figureVars
<1>3. coord \in LoopState /\ coord.todo \subseteq born
  BY <1>1 DEF EngineTypes
<1>4. coord' = [coord EXCEPT !.todo = coord.todo \ {o},
                  !.done = IF coord.phase = "alive" THEN 0 ELSE coord.done + 1]
  BY <1>2, <1>3 DEF Visited, LoopState
<1>5. coord' \in LoopState /\ coord'.todo \subseteq born
  <2> DEFINE n == IF coord.phase = "alive" THEN 0 ELSE coord.done + 1
             todo == coord.todo \ {o}
  <2>1. n \in Nat /\ todo \in SUBSET Obj /\ todo \subseteq born
    BY <1>3 DEF LoopState
  <2> HIDE DEF n, todo
  <2>2. /\ [coord EXCEPT !.todo = todo, !.done = n] \in LoopState
        /\ [coord EXCEPT !.todo = todo, !.done = n].todo = todo
    BY <1>3, <2>1 DEF LoopState
  <2> QED
    BY <1>4, <2>1, <2>2 DEF n, todo
<1>6. /\ mainCh' \in Seq(born) /\ Len(mainCh') <= MainCap
      /\ kaCh' \in Seq(born) /\ Len(kaCh') <= KaCap /\ ticks' \in Nat
  BY <1>1, <1>2 DEF EngineTypes
<1> QED
  BY <1>1, <1>2, <1>3, <1>5, <1>6, MarkStep

\* A step of the engine that moves one thread and writes to no struct.
LEMMA ThreadStep ==
  ASSUME VInv, NEW t \in Thread, Moved(t), obj' = obj, born' = born, UNCHANGED figureVars,
         th' \in [Thread -> ThreadState], \A u \in Thread \ {t} : th'[u] = th[u],
         coord' \in LoopState, coord'.todo \subseteq born,
         mainCh' \in Seq(born), Len(mainCh') <= MainCap,
         kaCh' \in Seq(born), Len(kaCh') <= KaCap, ticks' \in Nat
  PROVE  VInv'
<1>1. StructsKept /\ obj' \in [Obj -> Proxy]
  BY NoWrite
<1>2. lock' = lock
  BY DEF figureVars
<1>3. EngineTypes'
  BY <1>2 DEF VInv, EngineTypes
<1> QED
  BY <1>1, <1>3, QuietStep

\* What OnlyStruct leaves alone.
LEMMA OnlyStructKeeps ==
  ASSUME EngineTypes, OnlyStruct
  PROVE  /\ UNCHANGED figureVars /\ born' = born /\ coord' = coord /\ mainCh' = mainCh
         /\ kaCh' = kaCh /\ ticks' = ticks
         /\ coord' \in LoopState /\ coord'.todo \subseteq born
         /\ mainCh' \in Seq(born) /\ Len(mainCh') <= MainCap
         /\ kaCh' \in Seq(born) /\ Len(kaCh') <= KaCap /\ ticks' \in Nat
BY DEF OnlyStruct, figureVars, EngineTypes

LEMMA ProbeStep ==
  ASSUME VInv, NEW t \in Thread, ProbePasses(t) \/ ProbeFails(t)
  PROVE  VInv'
<1>1. PoolTypes /\ EngineTypes /\ HoldsOK(t)
  BY DEF VInv, Threads
<1>2. /\ th[t].pc = "probing" /\ th[t].o \in Obj
      /\ th' \in [Thread -> ThreadState]
      /\ th'[t].o = th[t].o
      /\ \/ th'[t].pc = "passed" /\ th'[t].tmp \in 1..MaxStreak
         \/ th'[t].pc = "failed" /\ th'[t].tmp \in 1..MaxFails
      /\ \A u \in Thread \ {t} : th'[u] = th[u]
  BY <1>1, ProbeEffect
<1>3. OnlyStruct /\ obj' = obj
  BY DEF ProbePasses, ProbeFails
<1>4. lock' = lock /\ born' = born
  BY <1>3 DEF OnlyStruct
<1>5. HoldsOK(t)'
  BY <1>1, <1>2, <1>4, Constants DEF HoldsOK
<1>6. obj[th[t].o].state # "DISCOVERED"
  BY <1>2 DEF VInv, Begun, InValidateOne
<1>7. Moved(t)
  BY <1>2, <1>3, <1>5, <1>6 DEF Moved
<1> QED
  BY <1>1, <1>2, <1>3, <1>7, OnlyStructKeeps, ThreadStep

LEMMA RecordStep ==
  ASSUME VInv, NEW t \in Thread, Record(t)
  PROVE  VInv'
<1> DEFINE o == th[t].o
<1>1. PoolTypes /\ EngineTypes /\ HoldsOK(t)
  BY DEF VInv, Threads
<1>2. /\ th[t].pc \in {"passed", "failed", "judging"} /\ o \in Obj
      /\ th' \in [Thread -> ThreadState]
      /\ th'[t].pc \in {"judging", "adding"} /\ th'[t].o = o
      /\ \A u \in Thread \ {t} : th'[u] = th[u]
      /\ obj' \in [Obj -> Proxy]
      /\ \A x \in Obj \ {o} : obj'[x] = obj[x]
      /\ obj'[o].addr = obj[o].addr /\ obj'[o].proto = obj[o].proto
      /\ obj'[o].state \in {"ALIVE", "DEAD", obj[o].state}
  BY <1>1, RecordEffect
<1>3. OnlyStruct
  BY <1>1, RecordEffect
<1>4. lock' = lock /\ born' = born /\ UNCHANGED figureVars
  BY <1>3 DEF OnlyStruct, figureVars
<1>5. obj[o].state # "DISCOVERED"
  BY <1>2 DEF VInv, Begun, InValidateOne
<1>6. StructsKept
  BY <1>1, <1>2, <1>4, <1>5 DEF StructsKept, EngineTypes
<1>7. EngineTypes'
  BY <1>1, <1>2, <1>3, <1>4, OnlyStructKeeps DEF EngineTypes
<1>8. HoldsOK(t)'
  BY <1>1, <1>2, <1>4, Constants DEF HoldsOK
<1>9. Moved(t)
  BY <1>2, <1>5, <1>8 DEF Moved
<1> QED
  BY <1>2, <1>4, <1>6, <1>7, <1>9, QuietStep

LEMMA LockStep ==
  ASSUME VInv, NEW t \in Thread, LockAdd(t)
  PROVE  VInv'
<1> DEFINE o == th[t].o
           a == obj[o].addr
<1>1. PoolTypes /\ EngineTypes /\ Threads /\ HoldsOK(t) /\ Filed /\ Begun /\ Tally
  BY DEF VInv, Threads
<1>2. /\ th[t].pc = "adding" /\ lock = NoThread /\ lock' = t
      /\ o \in Obj /\ a \in Addr
      /\ obj' = obj /\ proxies' = proxies /\ count' = count
      /\ total' = IF Exists(a) THEN total ELSE total + 1
      /\ th' \in [Thread -> ThreadState]
      /\ th'[t].pc = "publishing" /\ th'[t].o = o
      /\ th'[t].existed = Exists(a)
      /\ th'[t].from = "DISCOVERED" <=> ~Exists(a)
      /\ \A u \in Thread \ {t} : th'[u] = th[u]
  BY <1>1, LockEffect
<1>3. /\ aliveIDs' = aliveIDs /\ protoCount' = protoCount /\ deadTimes' = deadTimes
      /\ mainCh' = mainCh /\ kaCh' = kaCh /\ coord' = coord /\ born' = born
      /\ ticks' = ticks
  BY DEF LockAdd
<1>4. PoolTypes'
  BY <1>1, <1>2, <1>3 DEF PoolTypes
<1>5. EngineTypes'
  BY <1>1, <1>2, <1>3 DEF EngineTypes
<1>6. \A u \in Thread : th[u].pc # "publishing"
  BY <1>1, <1>2, Constants DEF Threads, HoldsOK
<1>7. Threads'
  <2> SUFFICES ASSUME NEW u \in Thread PROVE HoldsOK(u)'
    BY DEF Threads
  <2>1. CASE u = t
    BY <2>1, <1>1, <1>2, <1>3, Constants DEF HoldsOK
  <2>2. CASE u # t
    BY <2>2, <1>1, <1>2, <1>3, <1>6 DEF Threads, HoldsOK
  <2> QED
    BY <2>1, <2>2
<1>8. Filed'
  BY <1>1, <1>2, <1>3 DEF Filed, Exists
<1>9. Begun'
  BY <1>1, <1>2 DEF Begun, InValidateOne
<1>10. Held' = Held /\ Sum' = Sum /\ (Exists(a) <=> Exists(a)')
  BY <1>2 DEF Held, Exists, Sum
<1>11. \A u \in Thread : Reading(u)'
  <2> SUFFICES ASSUME NEW u \in Thread, th'[u].pc = "publishing" PROVE Reading(u)'
    BY DEF Reading
  <2>1. u = t
    BY <1>2, <1>6
  <2>2. total = Cardinality(Held)
    BY <1>1, <1>2 DEF Tally
  <2>3. total' = Cardinality(Held) + (IF Exists(a) THEN 0 ELSE 1)
    BY <1>1, <1>2, <2>2 DEF PoolTypes
  <2> QED
    BY <1>2, <1>10, <2>1, <2>3 DEF Reading, Exists
<1>12. Tally'
  BY <1>1, <1>2, <1>10, <1>11, Constants DEF Tally
<1> QED
  BY <1>4, <1>5, <1>7, <1>8, <1>9, <1>12 DEF VInv

\* Publishing adds at most the struct's own address to the map, and moves a unit
\* between counters exactly when the entry was there.
LEMMA CommitStep ==
  ASSUME VInv, NEW t \in Thread, CommitAdd(t)
  PROVE  VInv'
<1> DEFINE o == th[t].o
           a == obj[o].addr
           to == obj[o].state
           from == th[t].from
<1>1. PoolTypes /\ EngineTypes /\ Threads /\ HoldsOK(t) /\ Filed /\ Begun /\ Tally
  BY DEF VInv, Threads
<1>2. /\ th[t].pc = "publishing" /\ lock = t /\ lock' = NoThread
      /\ o \in Obj /\ a \in Addr /\ to \in States /\ from \in States
      /\ obj' \in [Obj -> Proxy]
      /\ \A x \in Obj \ {o} : obj'[x] = obj[x]
      /\ obj'[o].addr = a /\ obj'[o].proto = obj[o].proto /\ obj'[o].state = to
      /\ proxies' \in [Addr -> Obj \cup {NoObj}]
      /\ proxies'[a] = o /\ \A b \in Addr \ {a} : proxies'[b] = proxies[b]
      /\ aliveIDs' = RotationAfter(obj, proxies', th[t].existed, from, to)
      /\ total' = total
      /\ count' \in [Counted -> Int]
      /\ \A s \in Counted :
           count'[s] = count[s] + (IF to = s THEN 1 ELSE 0) - (IF from = s THEN 1 ELSE 0)
      /\ protoCount' \in [Protocol -> Nat] /\ deadTimes' \in 0..MaxDeadTimes
      /\ th' \in [Thread -> ThreadState]
      /\ th'[t] = IdleThread
      /\ \A u \in Thread \ {t} : th'[u] = th[u]
  BY <1>1, CommitEffect
<1>3. mainCh' = mainCh /\ kaCh' = kaCh /\ coord' = coord /\ born' = born /\ ticks' = ticks
  BY DEF CommitAdd
<1>4. to # "DISCOVERED" /\ o \in born
  BY <1>1, <1>2, Constants DEF Begun, InValidateOne, HoldsOK
<1>5. aliveIDs' \subseteq Addr
  BY <1>1, <1>2 DEF RotationAfter, IdsIn, PoolTypes
<1>6. PoolTypes'
  BY <1>1, <1>2, <1>5 DEF PoolTypes
<1>7. EngineTypes'
  BY <1>1, <1>2, <1>3 DEF EngineTypes
<1>8. \A u \in Thread \ {t} : th[u].pc # "publishing"
  BY <1>1, <1>2 DEF Threads, HoldsOK
<1>9. Threads'
  <2> SUFFICES ASSUME NEW u \in Thread PROVE HoldsOK(u)'
    BY DEF Threads
  <2>1. CASE u = t
    BY <2>1, <1>2, Constants DEF HoldsOK
  <2>2. CASE u # t
    BY <2>2, <1>1, <1>2, <1>3, <1>8, Constants DEF Threads, HoldsOK
  <2> QED
    BY <2>1, <2>2
<1> HIDE DEF a, to, from
<1>10. Filed'
  <2> SUFFICES ASSUME NEW b \in Addr, Exists(b)'
               PROVE  /\ proxies'[b] \in born'
                      /\ obj'[proxies'[b]].addr = b
                      /\ obj'[proxies'[b]].state # "DISCOVERED"
    BY DEF Filed
  <2>1. CASE b = a
    BY <2>1, <1>2, <1>3, <1>4
  <2>2. CASE b # a
    <3>1. proxies'[b] = proxies[b] /\ Exists(b)
      BY <2>2, <1>2 DEF Exists
    <3>2. /\ proxies[b] \in born /\ obj[proxies[b]].addr = b
          /\ obj[proxies[b]].state # "DISCOVERED"
      BY <3>1, <1>1 DEF Filed
    <3>3. proxies[b] # o
      BY <3>2, <2>2 DEF a
    <3>4. obj'[proxies[b]] = obj[proxies[b]]
      BY <3>2, <3>3, <1>1, <1>2 DEF EngineTypes
    <3> QED
      BY <3>1, <3>2, <3>4, <1>3
  <2> QED
    BY <2>1, <2>2
<1>11. Begun'
  <2> SUFFICES ASSUME NEW u \in Thread, th'[u].pc \in InValidateOne
               PROVE  obj'[th'[u].o].state # "DISCOVERED"
    BY DEF Begun
  <2>1. u # t
    BY <1>2, Constants DEF InValidateOne
  <2>2. th'[u] = th[u] /\ obj[th[u].o].state # "DISCOVERED"
    BY <2>1, <1>1, <1>2 DEF Begun
  <2>3. th[u].o \in Obj
    BY <2>2, <1>1 DEF Threads, HoldsOK, InValidateOne, EngineTypes
  <2> QED
    BY <2>2, <2>3, <1>2, <1>4 DEF to
<1>12. Held' = Held \cup {a} /\ (a \in Held <=> Exists(a))
  BY <1>2, Constants DEF Held, Exists
<1>13. /\ Cardinality(Held) \in Nat
       /\ Cardinality(Held') = Cardinality(Held) + (IF Exists(a) THEN 0 ELSE 1)
  <2>1. Held \in SUBSET Addr /\ Held' \in SUBSET Addr
    BY DEF Held
  <2>2. Held \ {a} = Held' \ {a} /\ a \in Held'
    BY <1>12
  <2>3. /\ Cardinality(Held) \in Nat
        /\ Cardinality(Held') = Cardinality(Held) + 1 - (IF a \in Held THEN 1 ELSE 0)
    BY <2>1, <2>2, <1>2, Recount
  <2> QED
    BY <2>3, <1>12
<1>14. /\ from = "DISCOVERED" <=> ~Exists(a)
       /\ total = Cardinality(Held) + (IF Exists(a) THEN 0 ELSE 1)
       /\ Sum = Cardinality(Held)
  BY <1>1, <1>2 DEF Tally, Reading, a, from
<1>15. Sum' = Sum + 1 - (IF from = "DISCOVERED" THEN 0 ELSE 1)
  <2> DEFINE A == count["ALIVE"]
             V == count["VALIDATING"]
             D == count["DEAD"]
  <2>1. A \in Int /\ V \in Int /\ D \in Int /\ Sum = A + V + D
    BY <1>1 DEF PoolTypes, Sum
  <2>2. Sum' = count'["ALIVE"] + count'["VALIDATING"] + count'["DEAD"]
    BY DEF Sum
  <2> HIDE DEF A, V, D
  <2>3. /\ count'["ALIVE"] = A + (IF to = "ALIVE" THEN 1 ELSE 0)
                               - (IF from = "ALIVE" THEN 1 ELSE 0)
        /\ count'["VALIDATING"] = V + (IF to = "VALIDATING" THEN 1 ELSE 0)
                                    - (IF from = "VALIDATING" THEN 1 ELSE 0)
        /\ count'["DEAD"] = D + (IF to = "DEAD" THEN 1 ELSE 0)
                              - (IF from = "DEAD" THEN 1 ELSE 0)
    BY <1>2 DEF A, V, D
  <2> QED
    BY <2>1, <2>2, <2>3, <1>2, <1>4
<1>16. Sum' = Cardinality(Held') /\ total' = Cardinality(Held')
  BY <1>2, <1>13, <1>14, <1>15
<1>17. \A u \in Thread : Reading(u)'
  BY <1>2, <1>8, Constants DEF Reading
<1>18. Tally'
  BY <1>16, <1>17 DEF Tally
<1> QED
  BY <1>6, <1>7, <1>9, <1>10, <1>11, <1>18 DEF VInv

\* What is pooled has been allocated.
LEMMA PooledBorn == ASSUME VInv PROVE Pooled \subseteq born
BY DEF VInv, Filed, Pooled

\* A step of the loop that moves no thread.
LEMMA LoopKeeps ==
  ASSUME VInv, obj' = obj, born' = born, th' = th, UNCHANGED figureVars,
         mainCh' = mainCh, kaCh' = kaCh, ticks' \in Nat,
         coord' \in LoopState, coord'.todo \subseteq born
  PROVE  VInv'
<1>1. StructsKept /\ obj' \in [Obj -> Proxy]
  BY NoWrite
<1>2. lock' = lock
  BY DEF figureVars
<1>3. EngineTypes'
  BY <1>2 DEF VInv, EngineTypes
<1> QED
  BY <1>1, <1>3, QuietStep

LEMMA TickStep ==
  ASSUME VInv, Tick
  PROVE  VInv'
<1>1. born \subseteq Obj /\ ticks \in Nat
  BY DEF VInv, EngineTypes
<1>2. FirstVisits \subseteq born
  BY PooledBorn DEF FirstVisits
<1>3. /\ coord' = [phase |-> "alive", todo |-> FirstVisits, done |-> 0]
      /\ obj' = obj /\ born' = born /\ th' = th /\ UNCHANGED figureVars
      /\ mainCh' = mainCh /\ kaCh' = kaCh
      /\ ticks' = IF CountTicks THEN ticks + 1 ELSE ticks
  BY DEF Tick, poolVars, figureVars
<1>4. ticks' \in Nat
  BY <1>1, <1>3
<1>5. coord' \in LoopState /\ coord'.todo \subseteq born
  BY <1>1, <1>2, <1>3 DEF LoopState
<1> QED
  BY <1>3, <1>4, <1>5, LoopKeeps

LEMMA SkipStep ==
  ASSUME VInv, NEW o \in Obj, Skip(o)
  PROVE  VInv'
<1>1. coord \in LoopState /\ coord.todo \subseteq born /\ ticks \in Nat
  BY DEF VInv, EngineTypes
<1>2. /\ coord' = [coord EXCEPT !.todo = coord.todo \ {o}]
      /\ obj' = obj /\ born' = born /\ th' = th /\ UNCHANGED figureVars
      /\ mainCh' = mainCh /\ kaCh' = kaCh /\ ticks' = ticks
  BY DEF Skip, Visited, poolVars, figureVars
<1>3. coord' \in LoopState /\ coord'.todo \subseteq born
  BY <1>1, <1>2 DEF LoopState
<1> QED
  BY <1>1, <1>2, <1>3, LoopKeeps

LEMMA NextPhaseStep ==
  ASSUME VInv, NextPhase
  PROVE  VInv'
<1>1. born \subseteq Obj /\ ticks \in Nat
  BY DEF VInv, EngineTypes
<1>2. Pooled \subseteq born
  BY PooledBorn
<1>3. /\ obj' = obj /\ born' = born /\ th' = th /\ UNCHANGED figureVars
      /\ mainCh' = mainCh /\ kaCh' = kaCh /\ ticks' = ticks
  BY DEF NextPhase, poolVars, figureVars
<1>4. PICK p \in {"validating", "dead", "waiting"}, s \in {Pooled, {}} :
        coord' = [phase |-> p, todo |-> s, done |-> 0]
  BY DEF NextPhase
<1>5. coord' \in LoopState /\ coord'.todo \subseteq born
  BY <1>1, <1>2, <1>4 DEF LoopState
<1> QED
  BY <1>1, <1>3, <1>5, LoopKeeps

\* Handing a struct on, or sending it, moves the loop's own thread.
LEMMA HandOverStep ==
  ASSUME VInv, NEW o \in Obj, HandOver(o)
  PROVE  VInv'
<1> DEFINE pc == IF KaWorker # {} THEN "sendKa" ELSE "sendMain"
           r == [th[Coord] EXCEPT !.o = o, !.pc = pc]
<1>1. EngineTypes /\ Coord \in Thread /\ HoldsOK(Coord)
  BY Constants DEF VInv, Threads
<1>2. /\ th[Coord].pc = "idle" /\ o \in coord.todo
      /\ coord' = [coord EXCEPT !.todo = coord.todo \ {o}]
      /\ th' = [th EXCEPT ![Coord] = r]
      /\ obj' = obj /\ born' = born /\ lock' = lock /\ UNCHANGED figureVars
      /\ mainCh' = mainCh /\ kaCh' = kaCh /\ ticks' = ticks
  BY DEF HandOver, Visiting, Visited, poolVars, figureVars
<1>3. /\ coord \in LoopState /\ coord.todo \subseteq born /\ o \in born /\ o \in Obj
      /\ th \in [Thread -> ThreadState] /\ th[Coord] \in ThreadState
  BY <1>1, <1>2 DEF EngineTypes
<1>4. coord' \in LoopState /\ coord'.todo \subseteq born
  BY <1>2, <1>3 DEF LoopState
<1>5. pc \in {"sendKa", "sendMain"}
  OBVIOUS
<1> HIDE DEF pc
<1>6. r \in ThreadState /\ r.o = o /\ r.pc = pc
  BY <1>3, <1>5 DEF ThreadState, Pc
<1> HIDE DEF r
<1>7. /\ th' \in [Thread -> ThreadState] /\ th'[Coord] = r
      /\ \A u \in Thread \ {Coord} : th'[u] = th[u]
  BY <1>1, <1>2, <1>3, <1>6, ThreadPut
<1>8. HoldsOK(Coord)'
  BY <1>1, <1>2, <1>3, <1>5, <1>6, <1>7, Constants DEF HoldsOK
<1>9. Moved(Coord)
  BY <1>2, <1>5, <1>6, <1>7, <1>8 DEF Moved, InValidateOne
<1>10. /\ mainCh' \in Seq(born) /\ Len(mainCh') <= MainCap
       /\ kaCh' \in Seq(born) /\ Len(kaCh') <= KaCap /\ ticks' \in Nat
  BY <1>1, <1>2 DEF EngineTypes
<1> QED
  BY <1>1, <1>2, <1>4, <1>7, <1>9, <1>10, ThreadStep

\* Appending to a channel that has room.
LEMMA SendFits ==
  ASSUME NEW q \in Seq(born), NEW o \in born, NEW cap \in Nat, Len(q) < cap
  PROVE  Append(q, o) \in Seq(born) /\ Len(Append(q, o)) <= cap
<1>1. Len(q) \in Nat
  BY LenProperties
<1> QED
  BY <1>1, AppendProperties

LEMMA SendKaStep ==
  ASSUME VInv, SendKa
  PROVE  VInv'
<1> DEFINE r == IF UseMainChannel THEN [th[Coord] EXCEPT !.pc = "sendMain"] ELSE IdleThread
<1>1. EngineTypes /\ Coord \in Thread /\ HoldsOK(Coord)
  BY Constants DEF VInv, Threads
<1>2. /\ th[Coord].pc = "sendKa" /\ Len(kaCh) < KaCap
      /\ kaCh' = Append(kaCh, th[Coord].o)
      /\ th' = [th EXCEPT ![Coord] = r]
      /\ coord' = coord
      /\ obj' = obj /\ born' = born /\ lock' = lock /\ UNCHANGED figureVars
      /\ mainCh' = mainCh /\ ticks' = ticks
  BY DEF SendKa, KaRoom, poolVars, figureVars
<1>3. th \in [Thread -> ThreadState] /\ th[Coord] \in ThreadState /\ th[Coord].o \in born
  BY <1>1, <1>2 DEF EngineTypes, HoldsOK
<1>4. r \in ThreadState /\ (\/ r.pc = "sendMain" /\ r.o = th[Coord].o
                            \/ r = IdleThread)
  BY <1>3, Constants DEF ThreadState, Pc
<1> HIDE DEF r
<1>5. /\ th' \in [Thread -> ThreadState] /\ th'[Coord] = r
      /\ \A u \in Thread \ {Coord} : th'[u] = th[u]
  BY <1>1, <1>2, <1>3, <1>4, ThreadPut
<1>6. HoldsOK(Coord)'
  BY <1>1, <1>2, <1>3, <1>4, <1>5, Constants DEF HoldsOK
<1>7. Moved(Coord)
  BY <1>2, <1>4, <1>5, <1>6, Constants DEF Moved, InValidateOne
<1>8. kaCh \in Seq(born) /\ KaCap \in Nat
  BY <1>1, ValidationAssumption DEF EngineTypes, ValidationAssumption
<1>9. kaCh' \in Seq(born) /\ Len(kaCh') <= KaCap
  BY <1>2, <1>3, <1>8, SendFits
<1>10. /\ mainCh' \in Seq(born) /\ Len(mainCh') <= MainCap /\ ticks' \in Nat
       /\ coord' \in LoopState /\ coord'.todo \subseteq born
  BY <1>1, <1>2 DEF EngineTypes
<1> QED
  BY <1>1, <1>2, <1>5, <1>7, <1>9, <1>10, ThreadStep

LEMMA SendMainStep ==
  ASSUME VInv, SendMain
  PROVE  VInv'
<1>1. EngineTypes /\ Coord \in Thread /\ HoldsOK(Coord)
  BY Constants DEF VInv, Threads
<1>2. /\ th[Coord].pc = "sendMain"
      /\ mainCh' = IF Len(mainCh) < MainCap THEN Append(mainCh, th[Coord].o) ELSE mainCh
      /\ th' = [th EXCEPT ![Coord] = IdleThread]
      /\ coord' = coord
      /\ obj' = obj /\ born' = born /\ lock' = lock /\ UNCHANGED figureVars
      /\ kaCh' = kaCh /\ ticks' = ticks
  BY DEF SendMain, poolVars, figureVars
<1>3. th \in [Thread -> ThreadState] /\ th[Coord].o \in born
  BY <1>1, <1>2 DEF EngineTypes, HoldsOK
<1>4. /\ th' \in [Thread -> ThreadState] /\ th'[Coord] = IdleThread
      /\ \A u \in Thread \ {Coord} : th'[u] = th[u]
  BY <1>1, <1>2, <1>3, Constants, ThreadPut
<1>5. HoldsOK(Coord)'
  BY <1>1, <1>2, <1>4, Constants DEF HoldsOK
<1>6. Moved(Coord)
  BY <1>2, <1>4, <1>5, Constants DEF Moved, InValidateOne
<1>7. mainCh \in Seq(born) /\ MainCap \in Nat /\ Len(mainCh) <= MainCap
  BY <1>1, ValidationAssumption DEF EngineTypes, ValidationAssumption
<1>8. mainCh' \in Seq(born) /\ Len(mainCh') <= MainCap
  BY <1>2, <1>3, <1>7, SendFits
<1>9. /\ kaCh' \in Seq(born) /\ Len(kaCh') <= KaCap /\ ticks' \in Nat
      /\ coord' \in LoopState /\ coord'.todo \subseteq born
  BY <1>1, <1>2 DEF EngineTypes
<1> QED
  BY <1>1, <1>2, <1>4, <1>6, <1>8, <1>9, ThreadStep

\* A thread that returns holds nothing.
LEMMA ExitStep ==
  ASSUME VInv, NEW t \in Thread, th[t].pc = "idle",
         th' = [th EXCEPT ![t].pc = "exited"],
         obj' = obj, born' = born, UNCHANGED figureVars,
         mainCh' = mainCh, kaCh' = kaCh, ticks' = ticks,
         coord' \in LoopState, coord'.todo \subseteq born
  PROVE  VInv'
<1> DEFINE r == [th[t] EXCEPT !.pc = "exited"]
<1>1. EngineTypes /\ HoldsOK(t)
  BY DEF VInv, Threads
<1>2. th \in [Thread -> ThreadState] /\ th[t] \in ThreadState
  BY <1>1 DEF EngineTypes
<1>3. r \in ThreadState /\ r.pc = "exited" /\ r.o = th[t].o
  BY <1>2 DEF ThreadState, Pc
<1>4. th' = [th EXCEPT ![t] = r]
  OBVIOUS
<1> HIDE DEF r
<1>5. /\ th' \in [Thread -> ThreadState] /\ th'[t] = r
      /\ \A u \in Thread \ {t} : th'[u] = th[u]
  BY <1>2, <1>3, <1>4, ThreadPut
<1>6. lock' = lock
  BY DEF figureVars
<1>7. HoldsOK(t)'
  BY <1>1, <1>3, <1>5, <1>6, Constants DEF HoldsOK
<1>8. Moved(t)
  BY <1>3, <1>5, <1>7 DEF Moved, InValidateOne
<1>9. /\ mainCh' \in Seq(born) /\ Len(mainCh') <= MainCap
      /\ kaCh' \in Seq(born) /\ Len(kaCh') <= KaCap /\ ticks' \in Nat
  BY <1>1 DEF EngineTypes
<1> QED
  BY <1>5, <1>8, <1>9, ThreadStep

LEMMA WorkerExitsStep ==
  ASSUME VInv, NEW t \in Thread, WorkerExits(t)
  PROVE  VInv'
<1>1. /\ th[t].pc = "idle" /\ th' = [th EXCEPT ![t].pc = "exited"]
      /\ obj' = obj /\ born' = born /\ UNCHANGED figureVars
      /\ mainCh' = mainCh /\ kaCh' = kaCh /\ ticks' = ticks /\ coord' = coord
  BY DEF WorkerExits, poolVars, figureVars
<1>2. coord' \in LoopState /\ coord'.todo \subseteq born
  BY <1>1 DEF VInv, EngineTypes
<1> QED
  BY <1>1, <1>2, ExitStep

LEMMA CoordExitsStep ==
  ASSUME VInv, CoordExits
  PROVE  VInv'
<1>1. /\ th[Coord].pc = "idle" /\ th' = [th EXCEPT ![Coord].pc = "exited"]
      /\ obj' = obj /\ born' = born /\ UNCHANGED figureVars
      /\ mainCh' = mainCh /\ kaCh' = kaCh /\ ticks' = ticks
      /\ coord' = [phase |-> "exited", todo |-> {}, done |-> 0]
  BY DEF CoordExits, poolVars, figureVars
<1>2. coord' \in LoopState /\ coord'.todo \subseteq born
  BY <1>1 DEF LoopState
<1> QED
  BY <1>1, <1>2, Constants, ExitStep

LEMMA VInvStep == VInv /\ [Next]_vars => VInv'
<1> SUFFICES ASSUME VInv, [Next]_vars PROVE VInv'
  OBVIOUS
<1>1. ASSUME NEW o \in Obj, NEW r \in Given, Emit(o, r) PROVE VInv'
  BY <1>1, EmitStep
<1>2. ASSUME NEW t \in Thread, Step(t) PROVE VInv'
  BY <1>2, ReceiveStep, ReceiveKaStep, ProbeStep, RecordStep, CommitStep, WorkerExitsStep
     DEF Step
<1>3. ASSUME NEW t \in Thread, LockAdd(t) PROVE VInv'
  BY <1>3, LockStep
<1>4. CASE Tick
  BY <1>4, TickStep
<1>5. CASE NextPhase
  BY <1>5, NextPhaseStep
<1>6. CASE LoopStep
  BY <1>6, VisitStep, SkipStep, HandOverStep, SendKaStep, SendMainStep, CoordExitsStep
     DEF LoopStep
<1>7. CASE Cancel \/ UNCHANGED vars
  <2>1. /\ obj' = obj /\ born' = born /\ th' = th /\ UNCHANGED figureVars
        /\ mainCh' = mainCh /\ kaCh' = kaCh /\ ticks' = ticks /\ coord' = coord
    BY <1>7 DEF Cancel, vars, poolVars, engineVars, figureVars
  <2>2. ticks' \in Nat /\ coord' \in LoopState /\ coord'.todo \subseteq born
    BY <2>1 DEF VInv, EngineTypes
  <2> QED
    BY <2>1, <2>2, LoopKeeps
<1> QED
  BY <1>1, <1>2, <1>3, <1>4, <1>5, <1>6, <1>7 DEF Next

\* Of two disjoint sets of addresses, the union has as many as both together.
LEMMA DisjointCount ==
  ASSUME NEW S \in SUBSET Addr, NEW T \in SUBSET Addr, S \cap T = {}
  PROVE  /\ Cardinality(S) \in Nat /\ Cardinality(T) \in Nat
         /\ Cardinality(S \cup T) = Cardinality(S) + Cardinality(T)
<1>1. IsFiniteSet(S) /\ IsFiniteSet(T)
  BY FS_Subset, PoolAssumption DEF PoolAssumption
<1>2. Cardinality(S) \in Nat /\ Cardinality(T) \in Nat /\ Cardinality(S \cap T) = 0
  BY <1>1, FS_CardinalityType, FS_EmptySet
<1>3. Cardinality(S \cup T) = Cardinality(S) + Cardinality(T) - Cardinality(S \cap T)
  BY <1>1, FS_Union
<1> QED
  BY <1>2, <1>3

\* The stored rows are structs the pool could have held: the invariant holds when
\* main has loaded them.
LEMMA InitVInv == Init => VInv
<1> SUFFICES ASSUME Init PROVE VInv
  OBVIOUS
<1>1. PICK l \in Stored : obj = LoadedHeap(l) /\ proxies = LoadedMap(l) /\ born = DOMAIN l
  BY DEF Init
<1>2. /\ DOMAIN l \subseteq Obj
      /\ \A o \in DOMAIN l : l[o] \in Given /\ l[o].state # "DISCOVERED"
  BY ValidationAssumption DEF ValidationAssumption
<1>3. Blank \in Given
  BY ValidationAssumption DEF ValidationAssumption, Blank
<1>4. \A r \in Given : /\ r \in Proxy /\ [r EXCEPT !.dirty = TRUE] \in Proxy
                       /\ [r EXCEPT !.dirty = TRUE].addr = r.addr
                       /\ [r EXCEPT !.dirty = TRUE].state = r.state
  <2> SUFFICES ASSUME NEW r \in Given
      PROVE  /\ r \in Proxy /\ [r EXCEPT !.dirty = TRUE] \in Proxy
             /\ [r EXCEPT !.dirty = TRUE].addr = r.addr
             /\ [r EXCEPT !.dirty = TRUE].state = r.state
    OBVIOUS
  <2>1. r \in Proxy
    BY PoolAssumption DEF PoolAssumption
  <2> QED
    BY <2>1 DEF Proxy
<1>5. obj = [o \in Obj |-> IF o \in DOMAIN l THEN [l[o] EXCEPT !.dirty = TRUE] ELSE Blank]
  BY <1>1 DEF LoadedHeap
<1>6. obj \in [Obj -> Proxy]
  BY <1>2, <1>3, <1>4, <1>5
<1>7. \A o \in DOMAIN l : obj[o].addr = l[o].addr /\ obj[o].state = l[o].state
  BY <1>2, <1>4, <1>5
<1>8. \A a \in Addr : \/ proxies[a] = NoObj
                      \/ proxies[a] \in DOMAIN l /\ l[proxies[a]].addr = a
  BY <1>1 DEF LoadedMap
<1>9. proxies \in [Addr -> Obj \cup {NoObj}]
  <2>1. proxies = [a \in Addr |-> proxies[a]]
    BY <1>1 DEF LoadedMap
  <2>2. \A a \in Addr : proxies[a] \in Obj \cup {NoObj}
    BY <1>2, <1>8
  <2> QED
    BY <2>1, <2>2
<1>10. Filed
  BY <1>1, <1>2, <1>7, <1>8 DEF Filed, Exists
<1>11. \A s \in States : IdsIn(obj, proxies, s) \in SUBSET Addr
  BY DEF IdsIn
<1>12. \A S \in SUBSET Addr : Cardinality(S) \in Nat
  BY FS_Subset, FS_CardinalityType, PoolAssumption DEF PoolAssumption
<1>13. PoolTypes
  <2>1. /\ aliveIDs = IdsIn(obj, proxies, "ALIVE")
        /\ total = Cardinality(Held)
        /\ count = [s \in Counted |-> Cardinality(IdsIn(obj, proxies, s))]
        /\ protoCount = [p \in Protocol |-> Cardinality(AliveWith(p))]
    BY DEF Init, Held
  <2>2. Held \in SUBSET Addr /\ \A p \in Protocol : AliveWith(p) \in SUBSET Addr
    BY DEF Held, AliveWith, IdsIn
  <2>3. aliveIDs \subseteq Addr /\ total \in Nat
    BY <1>11, <1>12, <2>1, <2>2
  <2>4. count \in [Counted -> Int]
    BY <1>11, <1>12, <2>1
  <2>5. protoCount \in [Protocol -> Nat]
    BY <1>12, <2>1, <2>2
  <2>6. deadTimes \in 0..MaxDeadTimes
    <3> DEFINE n == Cardinality(IdsIn(obj, proxies, "DEAD"))
    <3>1. n \in Nat
      BY <1>11, <1>12
    <3>2. deadTimes = IF n <= MaxDeadTimes THEN n ELSE MaxDeadTimes
      BY DEF Init
    <3> HIDE DEF n
    <3> QED
      BY <3>1, <3>2, PoolAssumption DEF PoolAssumption
  <2> QED
    BY <1>6, <1>9, <2>3, <2>4, <2>5, <2>6 DEF PoolTypes
<1>14. /\ \A t \in Thread : th[t] = IdleThread
       /\ th = [t \in Thread |-> IdleThread]
       /\ lock = NoThread /\ mainCh = <<>> /\ kaCh = <<>> /\ ticks = 0
       /\ coord = [phase |-> "waiting", todo |-> {}, done |-> 0]
  BY DEF Init
<1>15. EngineTypes
  <2>1. <<>> \in Seq(born) /\ Len(<<>>) = 0
    BY EmptySeq
  <2>2. /\ mainCh \in Seq(born) /\ Len(mainCh) <= MainCap
        /\ kaCh \in Seq(born) /\ Len(kaCh) <= KaCap
    BY <1>14, <2>1, ValidationAssumption DEF ValidationAssumption
  <2>3. coord \in LoopState /\ coord.todo \subseteq born /\ ticks \in Nat
    BY <1>14 DEF LoopState
  <2>4. th \in [Thread -> ThreadState] /\ lock \in Thread \cup {NoThread}
    BY <1>14, Constants
  <2> QED
    BY <1>1, <1>2, <2>2, <2>3, <2>4 DEF EngineTypes
<1>16. Threads
  BY <1>14, Constants DEF Threads, HoldsOK
<1>17. Begun
  BY <1>14, Constants DEF Begun, InValidateOne
<1>18. Tally
  <2> DEFINE A == IdsIn(obj, proxies, "ALIVE")
             V == IdsIn(obj, proxies, "VALIDATING")
             D == IdsIn(obj, proxies, "DEAD")
  <2>1. A \in SUBSET Addr /\ V \in SUBSET Addr /\ D \in SUBSET Addr
    BY DEF IdsIn
  <2>2. A \cap V = {} /\ (A \cup V) \cap D = {}
    BY DEF IdsIn
  <2>3. Held = (A \cup V) \cup D
    <3>1. \A a \in Addr : Exists(a) => obj[proxies[a]].state \in Counted
      BY <1>6, <1>9, <1>10 DEF Filed, Exists, Proxy
    <3> QED
      BY <3>1 DEF Held, IdsIn, Exists
  <2>4. Sum = Cardinality(A) + Cardinality(V) + Cardinality(D)
    BY DEF Init, Sum
  <2>5. total = Cardinality(Held)
    BY DEF Init, Held
  <2> HIDE DEF A, V, D
  <2>6. /\ Cardinality(A \cup V) = Cardinality(A) + Cardinality(V)
        /\ Cardinality(A) \in Nat /\ Cardinality(V) \in Nat
    BY <2>1, <2>2, DisjointCount
  <2>7. A \cup V \in SUBSET Addr
    BY <2>1
  <2>8. /\ Cardinality(Held) = Cardinality(A \cup V) + Cardinality(D)
        /\ Cardinality(D) \in Nat
    BY <2>1, <2>2, <2>3, <2>7, DisjointCount
  <2>9. Sum = Cardinality(Held)
    BY <2>4, <2>6, <2>8
  <2>10. \A t \in Thread : Reading(t)
    BY <1>14, Constants DEF Reading
  <2> QED
    BY <2>5, <2>9, <2>10 DEF Tally
<1> QED
  BY <1>10, <1>13, <1>15, <1>16, <1>17, <1>18 DEF VInv

\* In every mode, with any number of workers: types, what the pool is filed under,
\* and the sum of the counters.
THEOREM EngineInvariance == Spec => []VInv
<1> QED
  BY InitVInv, VInvStep, PTL DEF Spec

\* The types, and what a thread holds at each point of validateOne.
THEOREM EngineTypeCorrect == Spec => []TypeOK
<1>1. VInv => TypeOK
  <2> SUFFICES ASSUME VInv PROVE TypeOK
    OBVIOUS
  <2>1. PoolTypes /\ EngineTypes /\ Threads
    BY DEF VInv
  <2>2. Queued(mainCh) \subseteq born /\ Queued(kaCh) \subseteq born
    BY <2>1, ElementOfSeq DEF EngineTypes, Queued
  <2>3. \A t \in Thread : th[t].pc \in Pc
    BY <2>1 DEF EngineTypes, ThreadState
  <2>4. coord.phase \in {"waiting", "alive", "validating", "dead", "exited"}
        /\ coord.todo \subseteq born
    BY <2>1 DEF EngineTypes, LoopState
  <2>5. \A t \in Thread :
          /\ th[t].pc \in {"idle", "probing", "passed", "failed", "judging", "adding",
                           "publishing", "sendKa", "sendMain", "exited"}
          /\ th[t].o \in born \cup {NoObj}
          /\ th[t].o = NoObj <=> th[t].pc \in {"idle", "exited"}
          /\ th[t].pc = "publishing" <=> lock = t
    BY <2>1, <2>3 DEF Threads, HoldsOK, Pc
  <2> QED
    BY <2>1, <2>2, <2>4, <2>5 DEF PoolTypes, EngineTypes, TypeOK
<1> QED
  BY <1>1, EngineInvariance, PTL

\* No struct reaches the pool DISCOVERED, so Add never carries history over here.
THEOREM MergeNeverRuns == Spec => []NeverDiscovered
<1>1. VInv => NeverDiscovered
  BY DEF VInv, Filed, NeverDiscovered
<1> QED
  BY <1>1, EngineInvariance, PTL

\* Whatever the threads' unlocked writes, the counters add up to the entries.
THEOREM SumIsConserved == Spec => []SumConserved
<1>1. VInv => SumConserved
  BY DEF VInv, Tally, Sum, Held, SumConserved, AtRest
<1> QED
  BY <1>1, EngineInvariance, PTL

-----------------------------------------------------------------------------
(* Ownership *)

\* Ticks are counted up.
LEMMA TicksBack ==
  ASSUME VInv, [Next]_vars, ticks' = 0
  PROVE  ticks = 0
<1>1. ticks \in Nat
  BY DEF VInv, EngineTypes
<1>2. ticks' = ticks \/ ticks' = ticks + 1
  BY DEF Next, Step, LoopStep, Emit, LockAdd, Tick, NextPhase, Cancel, Receive, ReceiveKa,
         ProbePasses, ProbeFails, Record, RecordPass, CountFail, Judge, Writes, CommitAdd,
         WorkerExits, Visit, Skip, HandOver,
         SendKa, SendMain, CoordExits, OnlyStruct, vars, engineVars
<1> QED
  BY <1>1, <1>2

\* Until the first tick the loop waits, or has returned.
LEMMA FirstCycleStep == VInv /\ FirstCycle /\ [Next]_vars => FirstCycle'
<1> SUFFICES ASSUME VInv, FirstCycle, [Next]_vars, CountTicks, ticks' = 0
             PROVE  /\ coord'.phase \in {"waiting", "exited"}
                    /\ coord'.todo = {}
                    /\ th'[Coord].pc \in {"idle", "exited"}
  BY DEF FirstCycle
<1>1. /\ ticks \in Nat /\ th \in [Thread -> ThreadState] /\ Coord \in Thread
      /\ \A t \in Thread : th[t] \in ThreadState
  BY Constants DEF VInv, EngineTypes
<1>2. ticks = 0
  BY TicksBack
<1>4. /\ coord.phase \in {"waiting", "exited"} /\ coord.todo = {}
      /\ th[Coord].pc \in {"idle", "exited"}
  BY <1>2 DEF FirstCycle
<1>5. CASE UNCHANGED <<coord, th>>
  BY <1>4, <1>5
<1>6. ASSUME NEW t \in Thread, Step(t) \/ LockAdd(t)
      PROVE  coord' = coord /\ th'[Coord] = th[Coord]
  <2>1. coord' = coord
    BY <1>6 DEF Step, LockAdd, Receive, ReceiveKa, ProbePasses, ProbeFails, Record, RecordPass,
                CountFail, Judge, Writes, CommitAdd, WorkerExits, OnlyStruct
  <2>2. t # Coord
    BY <1>4, <1>6, Constants DEF Step, LockAdd, Receive, ReceiveKa, ProbePasses,
                                 ProbeFails, Record, RecordPass, CountFail, Judge, Writes,
                                 CommitAdd, WorkerExits
  <2>3. PICK r : th' = [th EXCEPT ![t] = r]
    <3>1. CASE Receive(t) \/ ReceiveKa(t)
      BY <3>1 DEF Receive, ReceiveKa, Holding
    <3>2. CASE ProbePasses(t) \/ ProbeFails(t)
      BY <3>2 DEF ProbePasses, ProbeFails
    <3>3. CASE Record(t)
      BY <3>3 DEF Record, RecordPass, CountFail, Judge, Writes
    <3>4. CASE CommitAdd(t) \/ WorkerExits(t)
      BY <3>4 DEF CommitAdd, WorkerExits
    <3>5. CASE LockAdd(t)
      BY <3>5 DEF LockAdd
    <3> QED
      BY <1>6, <3>1, <3>2, <3>3, <3>4, <3>5 DEF Step
  <2> QED
    BY <1>1, <2>1, <2>2, <2>3
<1>7. CASE \E o \in Obj, r \in Given : Emit(o, r)
  BY <1>5, <1>7 DEF Emit
<1>8. CASE LoopStep
  <2>1. CoordExits
    BY <1>4, <1>8 DEF LoopStep, Visit, Skip, HandOver, Visiting, SendKa, SendMain
  <2>2. /\ coord' = [phase |-> "exited", todo |-> {}, done |-> 0]
        /\ th' = [th EXCEPT ![Coord] = [th[Coord] EXCEPT !.pc = "exited"]]
    BY <2>1 DEF CoordExits
  <2>3. [th[Coord] EXCEPT !.pc = "exited"].pc = "exited"
    BY <1>1 DEF ThreadState
  <2> QED
    BY <1>1, <2>2, <2>3
<1>9. ~Tick
  BY <1>2 DEF Tick
<1>10. ~NextPhase
  BY <1>4 DEF NextPhase
<1>11. CASE Cancel \/ UNCHANGED vars
  BY <1>5, <1>11 DEF Cancel, vars, engineVars
<1> QED
  BY <1>4, <1>6, <1>7, <1>8, <1>9, <1>10, <1>11 DEF Next

\* The loop does not go back to being alone.
LEMMA AloneBack == VInv /\ [Next]_vars /\ Alone' => Alone
BY TicksBack DEF Alone, Parallel

\* A step that moves no struct between channel, threads and pool.
LEMMA NothingMoves ==
  ASSUME Ownership, kaCh' = kaCh, mainCh' = mainCh, proxies' = proxies,
         coord'.todo \subseteq coord.todo \cup Pooled,
         \A t \in Thread : th'[t].o = th[t].o /\ th'[t].pc \notin {"sendKa", "sendMain"}
  PROVE  Ownership'
<1>1. Pooled' = Pooled /\ Queued(mainCh)' = Queued(mainCh)
  BY DEF Pooled, Exists, Queued
<1> QED
  BY <1>1 DEF Ownership

\* The structs of the pool and the channel, and of the threads, are not nil.
LEMMA NilNowhere ==
  ASSUME VInv
  PROVE  /\ NoObj \notin Pooled \cup coord.todo \cup Queued(mainCh)
         /\ Queued(mainCh) \subseteq born
<1>1. Pooled \subseteq born
  BY PooledBorn
<1>2. Queued(mainCh) \subseteq born
  BY ElementOfSeq DEF VInv, EngineTypes, Queued
<1> QED
  BY <1>1, <1>2, Constants DEF VInv, EngineTypes

\* The channel gains a struct that is nowhere.
LEMMA EmitOwned ==
  ASSUME VInv, Ownership, NEW o \in Obj, NEW r \in Given, Emit(o, r)
  PROVE  Ownership'
<1>1. /\ o \notin born /\ mainCh' = Append(mainCh, o)
      /\ kaCh' = kaCh /\ proxies' = proxies /\ coord' = coord /\ th' = th
  BY DEF Emit, Unissued
<1>2. /\ mainCh \in Seq(born) /\ born \subseteq Obj /\ coord.todo \subseteq born
      /\ \A t \in Thread : th[t].o \in born \cup {NoObj}
  BY DEF VInv, EngineTypes, Threads, HoldsOK
<1>3. Len(mainCh) \in Nat
  BY <1>2, LenProperties
<1>4. mainCh \in Seq(Obj)
  BY <1>2, SeqMonotonic
<1>5. /\ Len(mainCh') = Len(mainCh) + 1
      /\ \A i \in 1..Len(mainCh) : mainCh'[i] = mainCh[i]
      /\ mainCh'[Len(mainCh) + 1] = o
  BY <1>1, <1>4, AppendProperties
<1>6. \A i \in 1..Len(mainCh) : mainCh[i] \in born
  BY <1>2, ElementOfSeq
<1>7. Queued(mainCh') = Queued(mainCh) \cup {o}
  <2>1. ASSUME NEW i \in 1..Len(mainCh') PROVE mainCh'[i] \in Queued(mainCh) \cup {o}
    BY <1>3, <1>5 DEF Queued
  <2>2. Queued(mainCh) \subseteq Queued(mainCh')
    BY <1>3, <1>5 DEF Queued
  <2>3. o \in Queued(mainCh')
    BY <1>3, <1>5 DEF Queued
  <2> QED
    BY <2>1, <2>2, <2>3 DEF Queued
<1>8. \A i, j \in 1..Len(mainCh') : mainCh'[i] = mainCh'[j] => i = j
  <2> SUFFICES ASSUME NEW i \in 1..Len(mainCh'), NEW j \in 1..Len(mainCh'),
                      mainCh'[i] = mainCh'[j]
               PROVE  i = j
    OBVIOUS
  <2>1. CASE i \in 1..Len(mainCh) /\ j \in 1..Len(mainCh)
    BY <2>1, <1>5 DEF Ownership
  <2>2. CASE ~(i \in 1..Len(mainCh) /\ j \in 1..Len(mainCh))
    <3>1. i = Len(mainCh) + 1 \/ j = Len(mainCh) + 1
      BY <2>2, <1>3, <1>5
    <3>2. mainCh'[i] = o /\ mainCh'[j] = o
      BY <3>1, <1>5
    <3>3. i \notin 1..Len(mainCh) /\ j \notin 1..Len(mainCh)
      BY <3>2, <1>1, <1>5, <1>6
    <3> QED
      BY <3>3, <1>3, <1>5
  <2> QED
    BY <2>1, <2>2
<1>9. Pooled' = Pooled /\ o \notin Pooled
  <2>1. Pooled' = Pooled
    BY <1>1 DEF Pooled, Exists
  <2> QED
    BY <2>1, <1>1, PooledBorn
<1>10. \A t \in Thread : th[t].o # o
  BY <1>1, <1>2, Constants
<1>11. o \notin coord.todo
  BY <1>1, <1>2
<1>12. Queued(mainCh)' = Queued(mainCh')
  BY DEF Queued
<1> QED
  BY <1>1, <1>7, <1>8, <1>9, <1>10, <1>11, <1>12 DEF Ownership

\* A worker takes over what it receives.
LEMMA ReceiveOwned ==
  ASSUME VInv, Ownership, NEW t \in Thread, Receive(t)
  PROVE  Ownership'
<1> DEFINE o == Head(mainCh)
<1>1. /\ t \in Worker /\ mainCh # <<>> /\ mainCh' = Tail(mainCh)
      /\ th' = Holding(t, o)
      /\ kaCh' = kaCh /\ proxies' = proxies /\ coord' = coord
  BY DEF Receive
<1>2. mainCh \in Seq(born) /\ born \subseteq Obj /\ th \in [Thread -> ThreadState]
  BY DEF VInv, EngineTypes
<1>3. /\ o \in born /\ Len(mainCh) \in Nat /\ Len(mainCh') = Len(mainCh) - 1
      /\ Len(mainCh) > 0 /\ o = mainCh[1]
      /\ \A i \in 1..Len(mainCh') : mainCh'[i] = mainCh[i + 1]
  BY <1>1, <1>2, TakeEffect
<1>4. o \in Obj /\ o # NoObj /\ t # Coord
  BY <1>1, <1>2, <1>3, Constants
<1> HIDE DEF o
<1>5. /\ th'[t].pc = "probing" /\ th'[t].o = o
      /\ \A u \in Thread \ {t} : th'[u] = th[u]
  BY <1>1, <1>2, <1>4, HoldingEffect
<1>6. o \in Queued(mainCh) /\ Queued(mainCh') \subseteq Queued(mainCh) \ {o}
  <2>1. o \in Queued(mainCh)
    BY <1>3 DEF Queued
  <2>2. ASSUME NEW i \in 1..Len(mainCh') PROVE mainCh'[i] \in Queued(mainCh) \ {o}
    <3>1. i + 1 \in 1..Len(mainCh) /\ 1 \in 1..Len(mainCh) /\ i + 1 # 1
      BY <1>3
    <3>2. mainCh[i + 1] # mainCh[1]
      BY <3>1 DEF Ownership
    <3> QED
      BY <1>3, <3>1, <3>2 DEF Queued
  <2> QED
    BY <2>1, <2>2 DEF Queued
<1>7. \A i, j \in 1..Len(mainCh') : mainCh'[i] = mainCh'[j] => i = j
  <2> SUFFICES ASSUME NEW i \in 1..Len(mainCh'), NEW j \in 1..Len(mainCh'),
                      mainCh'[i] = mainCh'[j]
               PROVE  i = j
    OBVIOUS
  <2>1. i + 1 \in 1..Len(mainCh) /\ j + 1 \in 1..Len(mainCh)
    BY <1>3
  <2>2. mainCh[i + 1] = mainCh[j + 1]
    BY <1>3
  <2>3. i + 1 = j + 1
    BY <2>1, <2>2 DEF Ownership
  <2> QED
    BY <2>3
<1>8. Pooled' = Pooled
  BY <1>1 DEF Pooled, Exists
<1>9. o \notin Pooled \cup coord.todo
  BY <1>6 DEF Ownership
<1>10. \A u \in Thread : th[u].o # o
  BY <1>6 DEF Ownership
<1>11. Queued(mainCh)' = Queued(mainCh')
  BY DEF Queued
<1>12. \A u, v \in Thread : (th'[u].o = th'[v].o /\ th'[u].o # NoObj) => u = v
  BY <1>5, <1>10 DEF Ownership
<1>13. \A u \in Thread : th'[u].pc \notin {"sendKa", "sendMain"} /\ th'[u].o \notin Queued(mainCh')
  BY <1>5, <1>6 DEF Ownership
<1>14. \A u \in Thread \ {Coord} : th'[u].o \notin Pooled \cup coord.todo
  BY <1>5, <1>9 DEF Ownership
<1> QED
  BY <1>1, <1>6, <1>7, <1>8, <1>11, <1>12, <1>13, <1>14 DEF Ownership

\* The loop takes up a struct of the pool that no worker has.
LEMMA VisitOwned ==
  ASSUME VInv, Ownership, NEW o \in Obj, Visit(o)
  PROVE  Ownership'
<1>1. /\ o \in coord.todo /\ th[Coord].pc = "idle"
      /\ th' = Holding(Coord, o)
      /\ coord' = [Visited(o) EXCEPT !.done = IF coord.phase = "alive" THEN 0 ELSE @ + 1]
      /\ kaCh' = kaCh /\ proxies' = proxies /\ mainCh' = mainCh
  BY DEF Visit, Visiting
<1>2. coord \in LoopState /\ th \in [Thread -> ThreadState] /\ Coord \in Thread
  BY Constants DEF VInv, EngineTypes
<1>3. coord'.todo = coord.todo \ {o}
  BY <1>1, <1>2 DEF Visited, LoopState
<1>4. /\ th'[Coord].pc = "probing" /\ th'[Coord].o = o
      /\ \A u \in Thread \ {Coord} : th'[u] = th[u]
  BY <1>1, <1>2, HoldingEffect
<1>5. Pooled' = Pooled /\ Queued(mainCh)' = Queued(mainCh)
  BY <1>1 DEF Pooled, Exists, Queued
<1>6. o \notin Queued(mainCh) /\ \A u \in Thread \ {Coord} : th[u].o # o
  BY <1>1 DEF Ownership
<1>7. \A u, v \in Thread : (th'[u].o = th'[v].o /\ th'[u].o # NoObj) => u = v
  BY <1>4, <1>6 DEF Ownership
<1>8. \A u \in Thread : th'[u].pc \notin {"sendKa", "sendMain"} /\ th'[u].o \notin Queued(mainCh)
  BY <1>4, <1>6 DEF Ownership
<1>9. \A u \in Thread \ {Coord} : th'[u].o \notin Pooled \cup coord'.todo
  BY <1>3, <1>4 DEF Ownership
<1> QED
  BY <1>1, <1>3, <1>5, <1>7, <1>8, <1>9 DEF Ownership

\* A thread gives what it publishes to the pool.
LEMMA CommitOwned ==
  ASSUME VInv, Ownership, NEW t \in Thread, CommitAdd(t)
  PROVE  Ownership'
<1> DEFINE o == th[t].o
           a == obj[o].addr
<1>1. PoolTypes /\ EngineTypes /\ HoldsOK(t)
  BY DEF VInv, Threads
<1>2. /\ o \in Obj /\ a \in Addr
      /\ proxies'[a] = o /\ \A b \in Addr \ {a} : proxies'[b] = proxies[b]
      /\ th'[t] = IdleThread
      /\ \A u \in Thread \ {t} : th'[u] = th[u]
  BY <1>1, CommitEffect
<1>3. kaCh' = kaCh /\ mainCh' = mainCh /\ coord' = coord
  BY DEF CommitAdd
<1>4. Pooled' \subseteq Pooled \cup {o}
  <2> SUFFICES ASSUME NEW b \in Addr, Exists(b)' PROVE proxies'[b] \in Pooled \cup {o}
    BY DEF Pooled
  <2> HIDE DEF a
  <2>1. CASE b = a
    BY <2>1, <1>2
  <2>2. CASE b # a
    BY <2>2, <1>2 DEF Pooled, Exists
  <2> QED
    BY <2>1, <2>2
<1>5. o # NoObj /\ o \notin Queued(mainCh)
  BY <1>2, Constants DEF Ownership
<1>6. \A u \in Thread \ {t} : th[u].o # o
  BY <1>5 DEF Ownership
<1>7. Queued(mainCh)' = Queued(mainCh)
  BY <1>3 DEF Queued
<1>8. \A u, v \in Thread : (th'[u].o = th'[v].o /\ th'[u].o # NoObj) => u = v
  BY <1>2, Constants DEF Ownership
<1>9. \A u \in Thread : th'[u].pc \notin {"sendKa", "sendMain"} /\ th'[u].o \notin Queued(mainCh)
  BY <1>2, Constants, NilNowhere DEF Ownership
<1>10. \A u \in Thread \ {Coord} : th'[u].o \notin Pooled \cup coord.todo \cup {o}
  <2> SUFFICES ASSUME NEW u \in Thread \ {Coord}
               PROVE  th'[u].o \notin Pooled \cup coord.todo \cup {o}
    OBVIOUS
  <2>1. CASE u = t
    BY <2>1, <1>2, <1>5, Constants, NilNowhere
  <2>2. CASE u # t
    BY <2>2, <1>2, <1>6 DEF Ownership
  <2> QED
    BY <2>1, <2>2
<1> QED
  BY <1>3, <1>4, <1>5, <1>7, <1>8, <1>9, <1>10 DEF Ownership

\* A thread that goes on with what it holds.
LEMMA StillHolding ==
  ASSUME VInv, Ownership, NEW t \in Thread,
         ProbePasses(t) \/ ProbeFails(t) \/ Record(t) \/ LockAdd(t) \/ WorkerExits(t)
  PROVE  Ownership'
<1>1. PoolTypes /\ EngineTypes /\ HoldsOK(t) /\ Filed /\ Begun
  BY DEF VInv, Threads
<1>2. kaCh' = kaCh /\ mainCh' = mainCh /\ proxies' = proxies /\ coord' = coord
  BY DEF ProbePasses, ProbeFails, Record, RecordPass, CountFail, Judge, Writes, LockAdd,
         WorkerExits, OnlyStruct, poolVars
<1>3. /\ th'[t].o = th[t].o
      /\ th'[t].pc \in {"passed", "failed", "judging", "adding", "publishing", "exited"}
      /\ \A u \in Thread \ {t} : th'[u] = th[u]
  <2>1. CASE ProbePasses(t) \/ ProbeFails(t)
    BY <1>1, <2>1, ProbeEffect
  <2>2. CASE Record(t)
    BY <1>1, <2>2, RecordEffect
  <2>3. CASE LockAdd(t)
    BY <1>1, <2>3, LockEffect
  <2>4. CASE WorkerExits(t)
    <3>1. th' = [th EXCEPT ![t] = [th[t] EXCEPT !.pc = "exited"]]
      BY <2>4 DEF WorkerExits
    <3>2. th \in [Thread -> ThreadState] /\ th[t] \in ThreadState
      BY <1>1 DEF EngineTypes
    <3>3. /\ [th[t] EXCEPT !.pc = "exited"].pc = "exited"
          /\ [th[t] EXCEPT !.pc = "exited"].o = th[t].o
      BY <3>2 DEF ThreadState
    <3> QED
      BY <3>1, <3>2, <3>3
  <2> QED
    BY <2>1, <2>2, <2>3, <2>4
<1>4. \A u \in Thread : th'[u].o = th[u].o /\ th'[u].pc \notin {"sendKa", "sendMain"}
  BY <1>3 DEF Ownership
<1> QED
  BY <1>2, <1>4, NothingMoves

\* The rest of the loop's steps, and the end.
LEMMA LoopOwned ==
  ASSUME VInv, Ownership,
         Tick \/ NextPhase \/ Cancel \/ CoordExits \/ UNCHANGED vars
           \/ \E o \in Obj : Skip(o)
  PROVE  Ownership'
<1>1. coord \in LoopState /\ th \in [Thread -> ThreadState] /\ Coord \in Thread
  BY Constants DEF VInv, EngineTypes
<1>2. kaCh' = kaCh /\ mainCh' = mainCh /\ proxies' = proxies
  BY DEF Tick, NextPhase, Cancel, CoordExits, Skip, poolVars, vars, engineVars
<1>3. coord'.todo \subseteq coord.todo \cup Pooled
  <2>1. CASE Tick
    BY <2>1 DEF Tick, FirstVisits
  <2>2. CASE NextPhase
    <3>1. PICK p \in {"validating", "dead", "waiting"}, s \in {Pooled, {}} :
            coord' = [phase |-> p, todo |-> s, done |-> 0]
      BY <2>2 DEF NextPhase
    <3> QED
      BY <3>1
  <2>3. CASE CoordExits
    BY <2>3 DEF CoordExits
  <2>4. CASE Cancel \/ UNCHANGED vars
    BY <2>4 DEF Cancel, vars, engineVars
  <2>5. ASSUME NEW o \in Obj, Skip(o) PROVE coord'.todo \subseteq coord.todo
    BY <1>1, <2>5 DEF Skip, Visited, LoopState
  <2> QED
    BY <2>1, <2>2, <2>3, <2>4, <2>5
<1>4. \A u \in Thread : th'[u].o = th[u].o /\ th'[u].pc \notin {"sendKa", "sendMain"}
  <2>1. CASE th' = th
    BY <2>1 DEF Ownership
  <2>2. CASE CoordExits
    <3>1. th' = [th EXCEPT ![Coord] = [th[Coord] EXCEPT !.pc = "exited"]]
      BY <2>2 DEF CoordExits
    <3>2. /\ [th[Coord] EXCEPT !.pc = "exited"].pc = "exited"
          /\ [th[Coord] EXCEPT !.pc = "exited"].o = th[Coord].o
      BY <1>1 DEF ThreadState
    <3> QED
      BY <1>1, <3>1, <3>2 DEF Ownership
  <2> QED
    BY <2>1, <2>2 DEF Tick, NextPhase, Cancel, Skip, vars, engineVars
<1> QED
  BY <1>2, <1>3, <1>4, NothingMoves

LEMMA OwnedStep == VInv /\ Owned /\ [Next]_vars => Owned'
<1> SUFFICES ASSUME VInv, FirstCycle, Ownership, Alone, [Next]_vars PROVE Ownership'
  BY FirstCycleStep, AloneBack DEF Owned
<1>1. \A t \in Thread : th[t].pc \notin {"sendKa", "sendMain"}
  BY DEF Ownership
<1>2. ASSUME NEW o \in Obj, NEW r \in Given, Emit(o, r) PROVE Ownership'
  BY <1>2, EmitOwned
<1>3. ASSUME NEW t \in Thread, Step(t) PROVE Ownership'
  <2>1. ~ReceiveKa(t)
    BY DEF ReceiveKa, Ownership
  <2> QED
    BY <1>3, <2>1, ReceiveOwned, StillHolding, CommitOwned DEF Step
<1>4. ASSUME NEW t \in Thread, LockAdd(t) PROVE Ownership'
  BY <1>4, StillHolding
<1>5. CASE Tick \/ NextPhase \/ Cancel \/ UNCHANGED vars
  BY <1>5, LoopOwned
<1>6. CASE LoopStep
  <2>1. ~SendKa /\ ~SendMain
    BY <1>1, Constants DEF SendKa, SendMain
  <2>2. \A o \in Obj : ~HandOver(o)
    BY DEF HandOver, Visiting, Alone, FirstCycle
  <2>3. \/ \E o \in Obj : Visit(o)
        \/ \E o \in Obj : Skip(o)
        \/ CoordExits
    BY <1>6, <2>1, <2>2 DEF LoopStep
  <2> QED
    BY <2>3, VisitOwned, LoopOwned
<1> QED
  BY <1>2, <1>3, <1>4, <1>5, <1>6 DEF Next

LEMMA InitOwned == Init => Owned
<1> SUFFICES ASSUME Init PROVE Owned
  OBVIOUS
<1>1. /\ \A t \in Thread : th[t] = IdleThread
      /\ mainCh = <<>> /\ kaCh = <<>> /\ ticks = 0
      /\ coord = [phase |-> "waiting", todo |-> {}, done |-> 0]
  BY DEF Init
<1>2. FirstCycle
  BY <1>1, Constants DEF FirstCycle
<1>3. NoObj \notin Pooled
  BY DEF Pooled, Exists
<1>4. Len(mainCh) = 0 /\ Queued(mainCh) = {}
  BY <1>1 DEF Queued
<1>5. Ownership
  BY <1>1, <1>3, <1>4, Constants DEF Ownership
<1> QED
  BY <1>2, <1>5 DEF Owned

\* As long as the loop hands nothing to workers, every struct is in one place.
THEOREM OwnershipInvariance == Spec => [](VInv /\ Owned)
<1> QED
  BY InitVInv, InitOwned, VInvStep, OwnedStep, PTL DEF Spec

\* In sequential mode no struct is ever validated by two threads at once, for any
\* number of workers ("no duplicate work").
THEOREM OneValidator ==
  ASSUME ~Parallel
  PROVE  Spec => []SingleValidator
<1>1. VInv /\ Owned => SingleValidator
  <2> SUFFICES ASSUME VInv, Owned, NEW o \in Obj PROVE Cardinality(Working(o)) <= 1
    BY DEF SingleValidator
  <2>1. \A t, u \in Thread : (th[t].o = th[u].o /\ th[t].o # NoObj) => t = u
    BY DEF Owned, Alone, Ownership
  <2>2. \A t, u \in Working(o) : t = u
    BY <2>1, Constants DEF Working
  <2>3. CASE Working(o) = {}
    BY <2>3, FS_EmptySet
  <2>4. CASE Working(o) # {}
    <3>1. PICK t : t \in Working(o)
      BY <2>4
    <3>2. Working(o) = {t}
      BY <2>2, <3>1
    <3> QED
      BY <3>2, FS_Singleton
  <2> QED
    BY <2>3, <2>4
<1> QED
  BY <1>1, OwnershipInvariance, PTL

-----------------------------------------------------------------------------
(* States are earned *)

\* In sequential mode a step writes at most to the struct of the thread that
\* takes it, and what another thread is working on stays as it is.
LEMMA MarkedOwned ==
  ASSUME VInv, Ownership, EarnedInv, NEW t \in Thread, NEW o \in born,
         obj' = Marked(o), th' = Holding(t, o), born' = born,
         \A u \in Thread \ {t} : th[u].o # o
  PROVE  EarnedInv'
<1>1. o \in Obj /\ born \subseteq Obj /\ PoolTypes /\ EngineTypes
  BY DEF VInv, EngineTypes
<1>2. /\ obj'[o].state = "VALIDATING"
      /\ \A x \in Obj \ {o} : obj'[x] = obj[x]
  BY <1>1, MarkedEffect DEF PoolTypes
<1>3. /\ th'[t].o = o /\ \A u \in Thread \ {t} : th'[u] = th[u]
  BY <1>1, HoldingEffect DEF EngineTypes
<1>4. Marking'
  <2> SUFFICES ASSUME NEW u \in Thread, th'[u].pc \in {"probing", "passed", "failed", "judging"}
               PROVE  obj'[th'[u].o].state = "VALIDATING"
    BY DEF Marking
  <2>1. CASE u = t
    BY <2>1, <1>2, <1>3
  <2>2. CASE u # t
    <3>1. th'[u] = th[u] /\ th[u].o # o
      BY <2>2, <1>3
    <3>2. th[u].o \in Obj
      BY <1>1, <3>1 DEF VInv, Threads, HoldsOK
    <3> QED
      BY <1>2, <3>1, <3>2 DEF EarnedInv, Marking
  <2> QED
    BY <2>1, <2>2
<1>5. StateEarned'
  BY <1>1, <1>2 DEF EarnedInv, StateEarned
<1> QED
  BY <1>4, <1>5 DEF EarnedInv

\* The outcome is recorded on a struct that is VALIDATING.
LEMMA RecordEarned ==
  ASSUME VInv, Ownership, EarnedInv, NEW t \in Thread, Record(t)
  PROVE  EarnedInv'
<1> DEFINE o == th[t].o
           n == th[t].tmp
<1>1. PoolTypes /\ EngineTypes /\ HoldsOK(t)
  BY DEF VInv, Threads
<1>2. /\ th[t].pc \in {"passed", "failed", "judging"} /\ o \in Obj
      /\ th'[t].pc = IF th[t].pc = "failed" THEN "judging" ELSE "adding"
      /\ th'[t].o = o
      /\ \A u \in Thread \ {t} : th'[u] = th[u]
      /\ \A x \in Obj \ {o} : obj'[x] = obj[x]
      /\ obj'[o] = Recorded(t)
  BY <1>1, RecordEffect
<1>3. born' = born
  BY <1>1, RecordEffect DEF OnlyStruct
<1>4. obj[o].state = "VALIDATING" /\ obj[o] \in Proxy
  BY <1>1, <1>2 DEF EarnedInv, Marking, PoolTypes
<1>5. o # NoObj /\ \A u \in Thread \ {t} : th[u].o # o
  BY <1>2, Constants DEF Ownership
<1>6. ASSUME NEW r, r = obj'[o]
      PROVE  /\ r.state = "DEAD" => r.fail = MaxFails /\ r.ok = 0
             /\ r.state = "ALIVE" => r.fail = 0 /\ r.ok > 0
             /\ th[t].pc = "failed" => r.state = "VALIDATING"
  <2>1. CASE th[t].pc = "passed"
    <3>1. r = [obj[o] EXCEPT !.ok = n, !.fail = 0, !.state = "ALIVE"]
      BY <1>2, <1>6, <2>1 DEF Recorded, Passed
    <3>2. r.state = "ALIVE" /\ r.fail = 0 /\ r.ok = n
      BY <1>4, <3>1 DEF Proxy
    <3>3. n > 0
      BY <1>1, <2>1 DEF HoldsOK
    <3> QED
      BY <2>1, <3>2, <3>3
  <2>2. CASE th[t].pc = "failed"
    <3>1. r = [obj[o] EXCEPT !.fail = n]
      BY <1>2, <1>6, <2>2 DEF Recorded
    <3>2. r.state = "VALIDATING"
      BY <1>4, <3>1 DEF Proxy
    <3> QED
      BY <3>2
  <2>3. CASE th[t].pc = "judging"
    <3>1. r = IF obj[o].fail >= MaxFails THEN [obj[o] EXCEPT !.state = "DEAD", !.ok = 0]
                                         ELSE obj[o]
      BY <1>2, <1>6, <2>3 DEF Recorded, Judged
    <3>2. obj[o].fail \in 0..MaxFails /\ MaxFails \in Nat
      BY <1>4, PoolAssumption DEF Proxy, PoolAssumption
    <3>3. CASE obj[o].fail >= MaxFails
      <4>1. r = [obj[o] EXCEPT !.state = "DEAD", !.ok = 0]
        BY <3>1, <3>3
      <4>2. r.state = "DEAD" /\ r.fail = obj[o].fail /\ r.ok = 0
        BY <1>4, <4>1 DEF Proxy
      <4> QED
        BY <2>3, <3>2, <3>3, <4>2
    <3>4. CASE ~(obj[o].fail >= MaxFails)
      BY <1>4, <2>3, <3>1, <3>4
    <3> QED
      BY <3>3, <3>4
  <2> QED
    BY <1>2, <2>1, <2>2, <2>3
<1>7. Marking'
  <2> SUFFICES ASSUME NEW u \in Thread,
                      th'[u].pc \in {"probing", "passed", "failed", "judging"}
               PROVE  obj'[th'[u].o].state = "VALIDATING"
    BY DEF Marking
  <2>1. CASE u = t
    BY <1>2, <1>6, <2>1
  <2>2. CASE u # t
    <3>1. th'[u] = th[u]
      BY <1>2, <2>2
    <3>2. th[u].o \in Obj \ {o}
      BY <1>1, <1>5, <2>2, <3>1 DEF VInv, Threads, HoldsOK, EngineTypes
    <3> QED
      BY <1>2, <3>1, <3>2 DEF EarnedInv, Marking
  <2> QED
    BY <2>1, <2>2
<1>8. StateEarned'
  <2> SUFFICES ASSUME NEW x \in born
      PROVE  /\ obj'[x].state = "DEAD" => obj'[x].fail = MaxFails /\ obj'[x].ok = 0
             /\ obj'[x].state = "ALIVE" => obj'[x].fail = 0 /\ obj'[x].ok > 0
    BY <1>3 DEF StateEarned
  <2>1. CASE x = o
    BY <1>6, <2>1
  <2>2. CASE x # o
    BY <1>1, <1>2, <2>2 DEF EngineTypes, EarnedInv, StateEarned
  <2> QED
    BY <2>1, <2>2
<1> QED
  BY <1>7, <1>8 DEF EarnedInv

\* Publishing leaves state and streaks as they are.
LEMMA CommitEarned ==
  ASSUME VInv, EarnedInv, NEW t \in Thread, CommitAdd(t)
  PROVE  EarnedInv'
<1> DEFINE o == th[t].o
<1>1. PoolTypes /\ EngineTypes /\ HoldsOK(t)
  BY DEF VInv, Threads
<1>2. /\ o \in Obj
      /\ th'[t] = IdleThread /\ \A u \in Thread \ {t} : th'[u] = th[u]
      /\ \A x \in Obj \ {o} : obj'[x] = obj[x]
      /\ obj'[o].state = obj[o].state /\ obj'[o].ok = obj[o].ok
      /\ obj'[o].fail = obj[o].fail
  BY <1>1, CommitEffect
<1>3. born' = born /\ born \subseteq Obj
  BY <1>1 DEF CommitAdd, EngineTypes
<1>4. \A x \in Obj : /\ obj'[x].state = obj[x].state /\ obj'[x].ok = obj[x].ok
                     /\ obj'[x].fail = obj[x].fail
  BY <1>2
<1>5. Marking'
  <2> SUFFICES ASSUME NEW u \in Thread, th'[u].pc \in {"probing", "passed", "failed", "judging"}
               PROVE  obj'[th'[u].o].state = "VALIDATING"
    BY DEF Marking
  <2>1. u # t /\ th'[u] = th[u]
    BY <1>2, Constants
  <2>2. th[u].o \in Obj
    BY <1>3, <2>1 DEF VInv, Threads, HoldsOK
  <2> QED
    BY <1>4, <2>1, <2>2 DEF EarnedInv, Marking
<1>6. StateEarned'
  BY <1>3, <1>4 DEF EarnedInv, StateEarned
<1> QED
  BY <1>5, <1>6 DEF EarnedInv

\* A step that writes to no struct, and takes none up.
LEMMA EarnedKept ==
  ASSUME EarnedInv, obj' = obj, born' = born,
         \A u \in Thread : th'[u].pc \in {"probing", "passed", "failed", "judging"} =>
            th[u].pc \in {"probing", "passed", "failed", "judging"} /\ th'[u].o = th[u].o
  PROVE  EarnedInv'
<1>1. Marking'
  BY DEF EarnedInv, Marking
<1>2. StateEarned'
  BY DEF EarnedInv, StateEarned
<1> QED
  BY <1>1, <1>2 DEF EarnedInv

\* A new struct is DISCOVERED, and nobody holds it.
LEMMA EmitEarned ==
  ASSUME VInv, EarnedInv, NEW o \in Obj, NEW r \in Given, Emit(o, r)
  PROVE  EarnedInv'
<1>1. /\ o \notin born /\ r.state = "DISCOVERED" /\ obj' = [obj EXCEPT ![o] = r]
      /\ born' = born \cup {o} /\ th' = th
  BY DEF Emit, Unissued
<1>2. obj \in [Obj -> Proxy] /\ born \subseteq Obj
  BY DEF VInv, PoolTypes, EngineTypes
<1>3. obj'[o].state = "DISCOVERED" /\ \A x \in born : obj'[x] = obj[x]
  BY <1>1, <1>2
<1>4. \A t \in Thread : th[t].pc \in {"probing", "passed", "failed", "judging"} => th[t].o \in born
  BY DEF VInv, Threads, HoldsOK
<1>5. Marking'
  BY <1>1, <1>3, <1>4 DEF EarnedInv, Marking
<1>6. StateEarned'
  BY <1>1, <1>3 DEF EarnedInv, StateEarned
<1> QED
  BY <1>5, <1>6 DEF EarnedInv

LEMMA EarnedStep == ~Parallel /\ VInv /\ Owned /\ EarnedInv /\ [Next]_vars => EarnedInv'
<1> SUFFICES ASSUME ~Parallel, VInv, Ownership, EarnedInv, [Next]_vars PROVE EarnedInv'
  BY DEF Owned, Alone
<1> DEFINE Testing == {"probing", "passed", "failed", "judging"}
<1>1. PoolTypes /\ EngineTypes /\ Filed /\ Begun /\ \A t \in Thread : HoldsOK(t)
  BY DEF VInv, Threads
<1>2. /\ th \in [Thread -> ThreadState] /\ \A t \in Thread : th[t] \in ThreadState
      /\ mainCh \in Seq(born) /\ coord.todo \subseteq born
  BY <1>1 DEF EngineTypes
<1>3. ASSUME NEW o \in Obj, NEW r \in Given, Emit(o, r) PROVE EarnedInv'
  BY <1>3, EmitEarned
<1>4. ASSUME NEW t \in Thread, Receive(t) PROVE EarnedInv'
  <2>1. /\ mainCh # <<>> /\ obj' = Marked(Head(mainCh)) /\ th' = Holding(t, Head(mainCh))
        /\ born' = born
    BY <1>4 DEF Receive
  <2>2. /\ Head(mainCh) \in born /\ Len(mainCh) \in Nat /\ Len(mainCh) > 0
        /\ Head(mainCh) = mainCh[1]
    BY <1>2, <2>1, TakeEffect
  <2>3. Head(mainCh) \in Queued(mainCh)
    BY <2>2 DEF Queued
  <2>4. \A u \in Thread \ {t} : th[u].o # Head(mainCh)
    BY <2>3 DEF Ownership
  <2> QED
    BY <2>1, <2>2, <2>4, MarkedOwned
<1>5. ASSUME NEW t \in Thread PROVE ~ReceiveKa(t)
  BY DEF ReceiveKa, Ownership
<1>6. ASSUME NEW t \in Thread, ProbePasses(t) \/ ProbeFails(t) PROVE EarnedInv'
  <2>1. /\ th[t].pc = "probing" /\ th'[t].o = th[t].o
        /\ \A u \in Thread \ {t} : th'[u] = th[u]
    BY <1>1, <1>6, ProbeEffect
  <2>2. obj' = obj /\ born' = born
    BY <1>6 DEF ProbePasses, ProbeFails, OnlyStruct
  <2>3. \A u \in Thread : th'[u].pc \in Testing =>
          th[u].pc \in Testing /\ th'[u].o = th[u].o
    BY <2>1
  <2> QED
    BY <2>2, <2>3, EarnedKept
<1>7. ASSUME NEW t \in Thread, Record(t) PROVE EarnedInv'
  BY <1>7, RecordEarned
<1>8. ASSUME NEW t \in Thread, CommitAdd(t) PROVE EarnedInv'
  BY <1>8, CommitEarned
<1>9. ASSUME NEW t \in Thread, LockAdd(t) PROVE EarnedInv'
  <2>1. /\ obj' = obj /\ th'[t].pc = "publishing"
        /\ \A u \in Thread \ {t} : th'[u] = th[u]
    BY <1>1, <1>9, LockEffect
  <2>2. born' = born
    BY <1>9 DEF LockAdd
  <2>3. \A u \in Thread : th'[u].pc \in Testing =>
          th[u].pc \in Testing /\ th'[u].o = th[u].o
    BY <2>1
  <2> QED
    BY <2>1, <2>2, <2>3, EarnedKept
<1>10. ASSUME NEW t \in Thread, th' = [th EXCEPT ![t].pc = "exited"],
              obj' = obj, born' = born
       PROVE  EarnedInv'
  <2>1. th' = [th EXCEPT ![t] = [th[t] EXCEPT !.pc = "exited"]]
    BY <1>10
  <2>2. [th[t] EXCEPT !.pc = "exited"].pc = "exited"
    BY <1>2 DEF ThreadState
  <2>3. \A u \in Thread : th'[u].pc \in Testing =>
          th[u].pc \in Testing /\ th'[u].o = th[u].o
    BY <1>2, <2>1, <2>2
  <2> QED
    BY <1>10, <2>3, EarnedKept
<1>11. ASSUME NEW t \in Thread, WorkerExits(t) PROVE EarnedInv'
  BY <1>10, <1>11 DEF WorkerExits, poolVars
<1>12. CASE CoordExits
  BY <1>10, <1>12, Constants DEF CoordExits, poolVars
<1>13. ASSUME NEW o \in Obj, Visit(o) PROVE EarnedInv'
  <2>1. /\ obj' = Marked(o) /\ th' = Holding(Coord, o) /\ born' = born
        /\ o \in coord.todo
    BY <1>13 DEF Visit, Visiting
  <2>2. o \in born /\ \A u \in Thread \ {Coord} : th[u].o # o
    BY <1>2, <2>1 DEF Ownership
  <2> QED
    BY <2>1, <2>2, MarkedOwned, Constants
<1>14. ASSUME NEW o \in Obj PROVE ~HandOver(o)
  BY DEF HandOver
<1>15. ~SendKa /\ ~SendMain
  BY Constants DEF SendKa, SendMain, Ownership
<1>16. CASE th' = th /\ obj' = obj /\ born' = born
  BY <1>16, EarnedKept
<1>17. ASSUME NEW o \in Obj, Skip(o) PROVE EarnedInv'
  BY <1>16, <1>17 DEF Skip, poolVars
<1>18. CASE LoopStep
  BY <1>12, <1>13, <1>14, <1>15, <1>17, <1>18 DEF LoopStep
<1>19. CASE Tick \/ NextPhase \/ Cancel \/ UNCHANGED vars
  BY <1>16, <1>19 DEF Tick, NextPhase, Cancel, vars, poolVars, engineVars
<1>20. ASSUME NEW t \in Thread, Step(t) PROVE EarnedInv'
  BY <1>4, <1>5, <1>6, <1>7, <1>8, <1>11, <1>20 DEF Step
<1> QED
  BY <1>3, <1>9, <1>18, <1>19, <1>20 DEF Next

LEMMA InitEarned == StoredEarned /\ Init => EarnedInv
<1> SUFFICES ASSUME StoredEarned, Init PROVE EarnedInv
  OBVIOUS
<1>1. PICK l \in Stored : obj = LoadedHeap(l) /\ born = DOMAIN l
  BY DEF Init
<1>2. DOMAIN l \subseteq Obj /\ \A o \in DOMAIN l : l[o] \in Proxy /\ Earned(l[o])
  BY PoolAssumption, ValidationAssumption
     DEF PoolAssumption, ValidationAssumption, StoredEarned
<1>3. ASSUME NEW o \in born
      PROVE  /\ obj[o].state = "DEAD" => obj[o].fail = MaxFails /\ obj[o].ok = 0
             /\ obj[o].state = "ALIVE" => obj[o].fail = 0 /\ obj[o].ok > 0
  <2>1. obj[o] = [l[o] EXCEPT !.dirty = TRUE] /\ l[o] \in Proxy /\ Earned(l[o])
    BY <1>1, <1>2 DEF LoadedHeap
  <2>2. obj[o].state = l[o].state /\ obj[o].fail = l[o].fail /\ obj[o].ok = l[o].ok
    BY <2>1 DEF Proxy
  <2> QED
    BY <2>1, <2>2 DEF Earned
<1>4. \A t \in Thread : th[t].pc = "idle"
  BY Constants DEF Init
<1> QED
  BY <1>3, <1>4 DEF EarnedInv, StateEarned, Marking

\* In sequential mode, and if the stored rows were earned (RowsEarned of
\* Persistence), no proxy is DEAD before MaxFails failures in a row, and none
\* ALIVE without a success.
THEOREM StatesAreEarned ==
  ASSUME ~Parallel, StoredEarned
  PROVE  Spec => []StateEarned
<1>1. EarnedInv => StateEarned
  BY DEF EarnedInv
<1>2. Init => VInv /\ Owned /\ EarnedInv
  BY InitVInv, InitOwned, InitEarned
<1>3. VInv /\ Owned /\ EarnedInv /\ [Next]_vars => (VInv /\ Owned /\ EarnedInv)'
  BY VInvStep, OwnedStep, EarnedStep
<1> QED
  BY <1>1, <1>2, <1>3, PTL DEF Spec

-----------------------------------------------------------------------------
(* The figures until the first keepalive cycle *)

\* No step changes whom a struct stands for.
LEMMA IdentityKept ==
  ASSUME VInv, [Next]_vars
  PROVE  /\ born \subseteq born'
         /\ \A o \in born : obj'[o].addr = obj[o].addr /\ obj'[o].proto = obj[o].proto
         /\ \A o \in born' \ born : obj'[o] \in Given
<1>1. PoolTypes /\ EngineTypes /\ Filed /\ Begun /\ \A t \in Thread : HoldsOK(t)
  BY DEF VInv, Threads
<1>2. born \subseteq Obj /\ obj \in [Obj -> Proxy]
      /\ mainCh \in Seq(born) /\ kaCh \in Seq(born)
  BY <1>1 DEF EngineTypes, PoolTypes
<1> DEFINE Same == /\ born' = born
                   /\ \A o \in Obj : obj'[o].addr = obj[o].addr /\ obj'[o].proto = obj[o].proto
<1>3. ASSUME NEW o \in Obj, NEW r \in Given, Emit(o, r)
      PROVE  /\ born' = born \cup {o} /\ o \notin born /\ obj'[o] = r
             /\ \A x \in born : obj'[x] = obj[x]
  <2>1. /\ o \notin born /\ obj' = [obj EXCEPT ![o] = r] /\ born' = born \cup {o}
    BY <1>3 DEF Emit, Unissued
  <2> QED
    BY <1>2, <2>1
<1>4. ASSUME NEW o \in Obj, obj' = Marked(o), born' = born PROVE Same
  BY <1>2, <1>4, MarkedEffect
<1>5. ASSUME NEW t \in Thread, Step(t) PROVE Same
  <2>1. CASE Receive(t)
    <3>1. mainCh # <<>> /\ obj' = Marked(Head(mainCh)) /\ born' = born
      BY <2>1 DEF Receive
    <3>2. Head(mainCh) \in Obj
      BY <1>2, <3>1, TakeEffect
    <3> QED
      BY <1>4, <3>1, <3>2
  <2>2. CASE ReceiveKa(t)
    <3>1. kaCh # <<>> /\ obj' = Marked(Head(kaCh)) /\ born' = born
      BY <2>2 DEF ReceiveKa
    <3>2. Head(kaCh) \in Obj
      BY <1>2, <3>1, TakeEffect
    <3> QED
      BY <1>4, <3>1, <3>2
  <2>3. CASE ProbePasses(t) \/ ProbeFails(t) \/ WorkerExits(t)
    BY <2>3 DEF ProbePasses, ProbeFails, WorkerExits, OnlyStruct, poolVars
  <2>4. CASE Record(t)
    <3>1. born' = born
      BY <1>1, <2>4, RecordEffect DEF OnlyStruct
    <3> QED
      BY <1>1, <2>4, <3>1, RecordEffect
  <2>5. CASE CommitAdd(t)
    <3>1. born' = born
      BY <2>5 DEF CommitAdd
    <3> QED
      BY <1>1, <2>5, <3>1, CommitEffect
  <2> QED
    BY <1>5, <2>1, <2>2, <2>3, <2>4, <2>5 DEF Step
<1>6. ASSUME NEW t \in Thread, LockAdd(t) PROVE Same
  <2>1. born' = born
    BY <1>6 DEF LockAdd
  <2> QED
    BY <1>1, <1>6, <2>1, LockEffect
<1>7. ASSUME LoopStep PROVE Same
  <2>1. ASSUME NEW o \in Obj, Visit(o) PROVE Same
    BY <1>4, <2>1 DEF Visit
  <2>2. CASE \E o \in Obj : Skip(o) \/ HandOver(o)
    BY <2>2 DEF Skip, HandOver, poolVars
  <2>3. CASE SendKa \/ SendMain \/ CoordExits
    BY <2>3 DEF SendKa, SendMain, CoordExits, poolVars
  <2> HIDE DEF Same
  <2> QED
    BY <1>7, <2>1, <2>2, <2>3 DEF LoopStep
<1>8. ASSUME Tick \/ NextPhase \/ Cancel \/ UNCHANGED vars PROVE Same
  BY <1>8 DEF Tick, NextPhase, Cancel, vars, poolVars, engineVars
<1> HIDE DEF Same
<1>9. Same \/ \E o \in Obj, r \in Given : Emit(o, r)
  BY <1>5, <1>6, <1>7, <1>8 DEF Next
<1>10. CASE Same
  BY <1>2, <1>10 DEF Same
<1>11. CASE \E o \in Obj, r \in Given : Emit(o, r)
  BY <1>3, <1>11
<1> QED
  BY <1>9, <1>10, <1>11

LEMMA ListedProtoStep == VInv /\ ListedProto /\ [Next]_vars => ListedProto'
<1> SUFFICES ASSUME VInv, ListedProto, [Next]_vars, NEW o \in born'
             PROVE  \E r \in Given : obj'[o].addr = r.addr /\ obj'[o].proto = r.proto
  BY DEF ListedProto
<1>1. CASE o \in born
  BY <1>1, IdentityKept DEF ListedProto
<1>2. CASE o \notin born
  BY <1>2, IdentityKept
<1> QED
  BY <1>1, <1>2

\* A step that writes to nothing in the pool.
LEMMA FiguresKept ==
  ASSUME VInv, FiguresExact, ticks = 0, [Next]_vars,
         proxies' = proxies, aliveIDs' = aliveIDs, count' = count, protoCount' = protoCount,
         \A b \in Addr : Exists(b) => obj'[proxies[b]].state = obj[proxies[b]].state,
         \A t \in Thread : th'[t].pc = "publishing" =>
            /\ th[t].pc = "publishing"
            /\ th'[t].o = th[t].o /\ th'[t].from = th[t].from
  PROVE  FiguresExact'
<1>1. \A b \in Addr : Exists(b) => obj'[proxies[b]].proto = obj[proxies[b]].proto
  BY IdentityKept DEF VInv, Filed
<1>2. \A s \in States : IdsIn(obj, proxies, s)' = IdsIn(obj, proxies, s)
  BY DEF IdsIn, Exists
<1>3. IdsIn(obj, proxies, "ALIVE")' = IdsIn(obj, proxies, "ALIVE")
  BY <1>2
<1>4. \A p \in Protocol : AliveWith(p)' = AliveWith(p)
  BY <1>1, <1>3 DEF AliveWith, IdsIn, Exists
<1>5. ASSUME NEW t \in Thread, th'[t].pc = "publishing"
      PROVE  (th[t].from = PrevState(obj, obj[th[t].o].addr))'
  <2>1. /\ th[t].pc = "publishing"
        /\ th'[t].o = th[t].o /\ th'[t].from = th[t].from
    BY <1>5
  <2>2. th[t].o \in born
    BY <2>1 DEF VInv, Threads, HoldsOK
  <2>3. obj'[th[t].o].addr = obj[th[t].o].addr /\ obj[th[t].o].addr \in Addr
    BY <2>2, IdentityKept DEF VInv, PoolTypes, EngineTypes, Proxy
  <2>4. th[t].from = PrevState(obj, obj[th[t].o].addr)
    BY <2>1 DEF FiguresExact
  <2> QED
    BY <2>1, <2>3, <2>4 DEF PrevState, Exists
<1>6. \A s \in Counted : count'[s] = Cardinality(IdsIn(obj, proxies, s)')
  BY <1>2 DEF FiguresExact
<1>7. RotationExact' /\ ProtoCountsExact'
  BY <1>3, <1>4 DEF FiguresExact, RotationExact, ProtoCountsExact
<1>8. \A t \in Thread : (th[t].pc = "publishing" =>
                           th[t].from = PrevState(obj, obj[th[t].o].addr))'
  BY <1>5
<1> QED
  BY <1>6, <1>7, <1>8 DEF FiguresExact

\* Add's second half brings all figures up to date with the entry it publishes.
LEMMA CommitFigures ==
  ASSUME OneProtocol, VInv, ListedProto, FiguresExact, ticks = 0,
         NEW t \in Thread, CommitAdd(t)
  PROVE  FiguresExact'
<1> DEFINE o == th[t].o
           a == obj[o].addr
           to == obj[o].state
           from == th[t].from
           p == obj[o].proto
<1>1. PoolTypes /\ EngineTypes /\ Threads /\ HoldsOK(t) /\ Filed /\ Begun /\ Tally
  BY DEF VInv, Threads
<1>2. /\ th[t].pc = "publishing" /\ lock = t /\ lock' = NoThread
      /\ o \in Obj /\ a \in Addr /\ to \in States /\ from \in States
      /\ \A x \in Obj \ {o} : obj'[x] = obj[x]
      /\ obj'[o].addr = a /\ obj'[o].proto = p /\ obj'[o].state = to
      /\ proxies' \in [Addr -> Obj \cup {NoObj}]
      /\ proxies'[a] = o /\ \A b \in Addr \ {a} : proxies'[b] = proxies[b]
      /\ aliveIDs' = RotationAfter(obj, proxies', th[t].existed, from, to)
      /\ \A s \in Counted :
           count'[s] = count[s] + (IF to = s THEN 1 ELSE 0) - (IF from = s THEN 1 ELSE 0)
      /\ protoCount' = MoveProto(protoCount, from, to, p)
      /\ th'[t] = IdleThread
      /\ \A u \in Thread \ {t} : th'[u] = th[u]
  BY <1>1, CommitEffect
<1>3. from = PrevState(obj, a)
  BY <1>2 DEF FiguresExact
<1>4. th[t].existed = Exists(a)
  BY <1>1, <1>2 DEF Tally, Reading
<1>5. o \in born /\ p \in Protocol
  BY <1>1, <1>2, Constants DEF HoldsOK, PoolTypes, Proxy
<1>6. \A u \in Thread : th'[u].pc # "publishing"
  BY <1>1, <1>2, Constants DEF Threads, HoldsOK
<1>7. \A x \in Obj : obj'[x].state = obj[x].state /\ obj'[x].proto = obj[x].proto
  BY <1>2
<1>8. \A b \in Addr : Exists(b) => proxies[b] \in Obj /\ proxies[b] \in born
                                   /\ obj[proxies[b]].addr = b
  BY <1>1 DEF Filed, EngineTypes
<1>9. Exists(a) => obj[proxies[a]].proto = p
  <2> SUFFICES ASSUME Exists(a) PROVE obj[proxies[a]].proto = p
    OBVIOUS
  <2>1. PICK r \in Given : a = r.addr /\ p = r.proto
    BY <1>5 DEF ListedProto
  <2>2. PICK q \in Given : obj[proxies[a]].addr = q.addr /\ obj[proxies[a]].proto = q.proto
    BY <1>2, <1>8 DEF ListedProto
  <2>3. q.addr = r.addr
    BY <1>2, <1>8, <2>1, <2>2
  <2> QED
    BY <2>1, <2>2, <2>3 DEF OneProtocol
<1> HIDE DEF a, to, from, p
<1>10. ASSUME NEW s \in Counted
       PROVE  /\ IdsIn(obj, proxies, s) \ {a} = IdsIn(obj', proxies', s) \ {a}
              /\ a \in IdsIn(obj', proxies', s) <=> to = s
              /\ a \in IdsIn(obj, proxies, s) <=> from = s
  <2>1. \A b \in Addr \ {a} : Exists(b) => obj'[proxies[b]].state = obj[proxies[b]].state
    BY <1>7, <1>8
  <2>2. IdsIn(obj, proxies, s) \ {a} = IdsIn(obj', proxies', s) \ {a}
    BY <2>1, <1>2, OthersKept
  <2>3. a \in IdsIn(obj', proxies', s) <=> to = s
    BY <1>2, Constants DEF IdsIn
  <2>4. a \in IdsIn(obj, proxies, s) <=> from = s
    BY <1>2, <1>3 DEF IdsIn, PrevState, Exists
  <2> QED
    BY <2>2, <2>3, <2>4
<1>11. ASSUME NEW s \in Counted PROVE count'[s] = Cardinality(IdsIn(obj', proxies', s))
  <2> DEFINE S == IdsIn(obj, proxies, s)
             T == IdsIn(obj', proxies', s)
  <2>1. S \in SUBSET Addr /\ T \in SUBSET Addr
    BY DEF IdsIn
  <2>2. S \ {a} = T \ {a} /\ (a \in T <=> to = s) /\ (a \in S <=> from = s)
    BY <1>10
  <2>3. count[s] = Cardinality(S)
    BY DEF FiguresExact
  <2>4. count'[s] = count[s] + (IF to = s THEN 1 ELSE 0) - (IF from = s THEN 1 ELSE 0)
    BY <1>2
  <2> HIDE DEF S, T
  <2>5. /\ Cardinality(S) \in Nat /\ Cardinality(T) \in Nat
        /\ Cardinality(T) = Cardinality(S) + (IF a \in T THEN 1 ELSE 0)
                                           - (IF a \in S THEN 1 ELSE 0)
    BY <2>1, <2>2, <1>2, Recount
  <2>6. count'[s] = Cardinality(T)
    BY <2>2, <2>3, <2>4, <2>5
  <2> QED
    BY <2>6 DEF T
<1>12. aliveIDs' = IdsIn(obj', proxies', "ALIVE")
  <2>1. IdsIn(obj, proxies', "ALIVE") = IdsIn(obj', proxies', "ALIVE")
    BY <1>2, <1>7 DEF IdsIn
  <2>2. CASE (from = "ALIVE") # (to = "ALIVE") \/ ~Exists(a)
    <3>1. aliveIDs' = IdsIn(obj, proxies', "ALIVE")
      BY <2>2, <1>2, <1>4 DEF RotationAfter
    <3> QED
      BY <3>1, <2>1
  <2>3. CASE ~((from = "ALIVE") # (to = "ALIVE") \/ ~Exists(a))
    <3>1. aliveIDs' = aliveIDs
      BY <2>3, <1>2, <1>4 DEF RotationAfter
    <3>2. IdsIn(obj, proxies, "ALIVE") = IdsIn(obj', proxies', "ALIVE")
      BY <2>3, <1>10
    <3> QED
      BY <3>1, <3>2 DEF FiguresExact, RotationExact
  <2> QED
    BY <2>2, <2>3
<1>13. ASSUME NEW x \in Protocol
       PROVE  /\ AliveWith(x) \in SUBSET Addr /\ AliveWith(x)' \in SUBSET Addr
              /\ AliveWith(x) \ {a} = AliveWith(x)' \ {a}
              /\ a \in AliveWith(x) <=> (x = p /\ from = "ALIVE")
              /\ a \in AliveWith(x)' <=> (x = p /\ to = "ALIVE")
  <2>1. AliveWith(x) \in SUBSET Addr /\ AliveWith(x)' \in SUBSET Addr
    BY DEF AliveWith, IdsIn
  <2>2. AliveWith(x) \ {a} = AliveWith(x)' \ {a}
    BY <1>2, <1>7, <1>8 DEF AliveWith, IdsIn, Exists
  <2>3. a \in AliveWith(x) <=> (x = p /\ from = "ALIVE")
    BY <1>2, <1>3, <1>9 DEF AliveWith, IdsIn, Exists, PrevState
  <2>4. a \in AliveWith(x)' <=> (x = p /\ to = "ALIVE")
    BY <1>2, Constants DEF AliveWith, IdsIn
  <2> QED
    BY <2>1, <2>2, <2>3, <2>4
<1>14. \A x \in Protocol :
         /\ Cardinality(AliveWith(x)) \in Nat
         /\ Cardinality(AliveWith(x)') = Cardinality(AliveWith(x))
              + (IF x = p /\ to = "ALIVE" THEN 1 ELSE 0)
              - (IF x = p /\ from = "ALIVE" THEN 1 ELSE 0)
  <2> SUFFICES ASSUME NEW x \in Protocol
      PROVE  /\ Cardinality(AliveWith(x)) \in Nat
             /\ Cardinality(AliveWith(x)') = Cardinality(AliveWith(x))
                  + (IF x = p /\ to = "ALIVE" THEN 1 ELSE 0)
                  - (IF x = p /\ from = "ALIVE" THEN 1 ELSE 0)
    OBVIOUS
  <2> DEFINE S == AliveWith(x)
             T == AliveWith(x)'
  <2>1. /\ S \in SUBSET Addr /\ T \in SUBSET Addr /\ S \ {a} = T \ {a}
        /\ a \in S <=> (x = p /\ from = "ALIVE")
        /\ a \in T <=> (x = p /\ to = "ALIVE")
    BY <1>13
  <2> HIDE DEF S, T
  <2>2. /\ Cardinality(S) \in Nat
        /\ Cardinality(T) = Cardinality(S) + (IF a \in T THEN 1 ELSE 0)
                                           - (IF a \in S THEN 1 ELSE 0)
    BY <2>1, <1>2, Recount
  <2>3. /\ Cardinality(S) \in Nat
        /\ Cardinality(T) = Cardinality(S)
             + (IF x = p /\ to = "ALIVE" THEN 1 ELSE 0)
             - (IF x = p /\ from = "ALIVE" THEN 1 ELSE 0)
    BY <2>1, <2>2
  <2> QED
    BY <2>3 DEF S, T
<1>15. protoCount \in [Protocol -> Nat] /\ \A x \in Protocol : protoCount[x] = Cardinality(AliveWith(x))
  BY <1>1 DEF PoolTypes, FiguresExact, ProtoCountsExact
<1>16. from = "ALIVE" => protoCount[p] > 0
  <2> SUFFICES ASSUME from = "ALIVE" PROVE protoCount[p] > 0
    OBVIOUS
  <2> DEFINE S == AliveWith(p)
  <2>1. S \in SUBSET Addr /\ a \in S /\ protoCount[p] = Cardinality(S)
    BY <1>5, <1>13, <1>15 DEF p
  <2> HIDE DEF S
  <2>2. Cardinality(S) = Cardinality(S \ {a}) + 1 /\ Cardinality(S \ {a}) \in Nat
    <3>1. (S \ {a}) \in SUBSET Addr /\ (S \ {a}) \ {a} = S \ {a} /\ a \notin S \ {a}
      BY <2>1
    <3> QED
      BY <3>1, <2>1, <1>2, Recount
  <2> QED
    BY <2>1, <2>2
<1>17. \A x \in Protocol : protoCount'[x] = protoCount[x]
          + (IF x = p /\ to = "ALIVE" THEN 1 ELSE 0)
          - (IF x = p /\ from = "ALIVE" THEN 1 ELSE 0)
  <2>1. p \in Protocol
    BY <1>5 DEF p
  <2> QED
    BY <2>1, <1>2, <1>15, <1>16, MoveProtoStep
<1>18. \A x \in Protocol : protoCount'[x] = Cardinality(AliveWith(x)')
  BY <1>14, <1>15, <1>17
<1>19. RotationExact' /\ ProtoCountsExact'
  BY <1>12, <1>18 DEF RotationExact, ProtoCountsExact
<1>20. (\A s \in Counted : count[s] = Cardinality(IdsIn(obj, proxies, s)))'
  BY <1>11
<1> QED
  BY <1>6, <1>19, <1>20 DEF FiguresExact

LEMMA PipeStep ==
  ASSUME OneProtocol, CountTicks
  PROVE  VInv /\ Owned /\ PipeInv /\ [Next]_vars => PipeInv'
<1> SUFFICES ASSUME VInv, Owned, ListedProto, FiguresExact, [Next]_vars, ticks' = 0
             PROVE  FiguresExact'
  BY ListedProtoStep DEF PipeInv, FiguresExact
<1>1. ticks = 0
  BY TicksBack
<1>2. /\ coord.phase \in {"waiting", "exited"} /\ coord.todo = {}
      /\ th[Coord].pc \in {"idle", "exited"}
      /\ Ownership
  BY <1>1 DEF Owned, FirstCycle, Alone
<1>3. PoolTypes /\ EngineTypes /\ Filed /\ Begun /\ \A t \in Thread : HoldsOK(t)
  BY DEF VInv, Threads
<1>4. /\ obj \in [Obj -> Proxy] /\ mainCh \in Seq(born) /\ born \subseteq Obj
      /\ th \in [Thread -> ThreadState] /\ \A t \in Thread : th[t] \in ThreadState
      /\ Pooled \subseteq born
  BY <1>3, PooledBorn DEF PoolTypes, EngineTypes
<1> DEFINE Untouched == /\ proxies' = proxies /\ aliveIDs' = aliveIDs
                        /\ count' = count /\ protoCount' = protoCount
           Spared == \A b \in Addr : Exists(b) =>
                        obj'[proxies[b]].state = obj[proxies[b]].state
           Paused == \A t \in Thread : th'[t].pc = "publishing" =>
                        /\ th[t].pc = "publishing"
                        /\ th'[t].o = th[t].o /\ th'[t].from = th[t].from
<1>5. ASSUME Untouched, Spared, Paused PROVE FiguresExact'
  BY <1>1, <1>5, FiguresKept
<1>6. ASSUME NEW o \in Obj \ Pooled, \A x \in Obj \ {o} : obj'[x] = obj[x] PROVE Spared
  <2> SUFFICES ASSUME NEW b \in Addr, Exists(b)
               PROVE  obj'[proxies[b]] = obj[proxies[b]]
    OBVIOUS
  <2>1. proxies[b] \in Pooled
    BY DEF Pooled
  <2> QED
    BY <1>4, <1>6, <2>1
<1>7. ASSUME NEW o \in Obj, NEW r \in Given, Emit(o, r) PROVE FiguresExact'
  <2>1. /\ o \notin born /\ obj' = [obj EXCEPT ![o] = r] /\ th' = th
        /\ proxies' = proxies /\ aliveIDs' = aliveIDs
        /\ count' = count /\ protoCount' = protoCount
    BY <1>7 DEF Emit, Unissued
  <2>2. o \notin Pooled /\ \A x \in Obj \ {o} : obj'[x] = obj[x]
    BY <1>4, <2>1
  <2> QED
    BY <1>5, <1>6, <2>1, <2>2
<1>8. ASSUME NEW t \in Thread, Receive(t) PROVE FiguresExact'
  <2> DEFINE o == Head(mainCh)
  <2>1. /\ mainCh # <<>> /\ obj' = Marked(o) /\ th' = Holding(t, o)
        /\ proxies' = proxies /\ aliveIDs' = aliveIDs
        /\ count' = count /\ protoCount' = protoCount
    BY <1>8 DEF Receive
  <2>2. /\ o \in born /\ Len(mainCh) \in Nat /\ Len(mainCh) > 0 /\ o = mainCh[1]
    BY <1>4, <2>1, TakeEffect
  <2>3. o \in Obj /\ o \in Queued(mainCh)
    BY <1>4, <2>2 DEF Queued
  <2> HIDE DEF o
  <2>4. o \notin Pooled
    BY <1>2, <2>3 DEF Ownership
  <2>5. \A x \in Obj \ {o} : obj'[x] = obj[x]
    BY <1>4, <2>1, <2>3, MarkedEffect
  <2>6. th'[t].pc = "probing" /\ \A u \in Thread \ {t} : th'[u] = th[u]
    BY <1>4, <2>1, <2>3, HoldingEffect
  <2>7. Spared
    BY <1>6, <2>3, <2>4, <2>5
  <2>8. Paused
    BY <2>6
  <2> QED
    BY <1>5, <2>1, <2>7, <2>8
<1>9. ASSUME NEW t \in Thread PROVE ~ReceiveKa(t)
  BY <1>2 DEF ReceiveKa, Ownership
<1>10. ASSUME NEW t \in Thread, ProbePasses(t) \/ ProbeFails(t) PROVE FiguresExact'
  <2>1. /\ th'[t].pc \in {"passed", "failed"} /\ \A u \in Thread \ {t} : th'[u] = th[u]
    BY <1>3, <1>10, ProbeEffect
  <2>2. Untouched /\ obj' = obj
    BY <1>10 DEF ProbePasses, ProbeFails, OnlyStruct
  <2>3. Paused
    BY <2>1
  <2> QED
    BY <1>5, <2>2, <2>3
<1>11. ASSUME NEW t \in Thread, Record(t) PROVE FiguresExact'
  <2>1. /\ th[t].pc \in {"passed", "failed", "judging"} /\ th[t].o \in Obj
        /\ th'[t].pc \in {"judging", "adding"} /\ \A u \in Thread \ {t} : th'[u] = th[u]
        /\ \A x \in Obj \ {th[t].o} : obj'[x] = obj[x]
    BY <1>3, <1>11, RecordEffect
  <2>2. t # Coord
    BY <1>2, <2>1
  <2>3. th[t].o \in Obj \ Pooled
    BY <1>2, <2>1, <2>2 DEF Ownership
  <2>4. Spared
    BY <1>6, <2>1, <2>3
  <2>5. Untouched
    BY <1>3, <1>11, RecordEffect DEF OnlyStruct
  <2>6. Paused
    BY <2>1
  <2> QED
    BY <1>5, <2>4, <2>5, <2>6
<1>12. ASSUME NEW t \in Thread, CommitAdd(t) PROVE FiguresExact'
  BY <1>1, <1>12, CommitFigures
<1>13. ASSUME NEW t \in Thread, LockAdd(t) PROVE FiguresExact'
  <2> DEFINE o == th[t].o
             a == obj[o].addr
  <2>1. /\ lock = NoThread /\ obj' = obj /\ proxies' = proxies /\ count' = count
        /\ th'[t].o = o /\ th'[t].from = PrevState(obj, a)
        /\ \A u \in Thread \ {t} : th'[u] = th[u]
    BY <1>3, <1>13, LockEffect
  <2>2. aliveIDs' = aliveIDs /\ protoCount' = protoCount
    BY <1>13 DEF LockAdd
  <2>3. \A u \in Thread : th[u].pc # "publishing"
    BY <1>3, <2>1, Constants DEF HoldsOK
  <2>4. /\ RotationExact' /\ ProtoCountsExact'
        /\ (\A s \in Counted : count[s] = Cardinality(IdsIn(obj, proxies, s)))'
    BY <1>1, <2>1, <2>2 DEF FiguresExact, RotationExact, ProtoCountsExact, AliveWith, IdsIn
  <2>5. (\A u \in Thread : th[u].pc = "publishing" =>
                             th[u].from = PrevState(obj, obj[th[u].o].addr))'
    BY <2>1, <2>3 DEF PrevState, Exists
  <2> QED
    BY <2>4, <2>5 DEF FiguresExact
<1>14. ASSUME NEW t \in Thread, th' = [th EXCEPT ![t].pc = "exited"], obj' = obj, Untouched
       PROVE  FiguresExact'
  <2>1. th' = [th EXCEPT ![t] = [th[t] EXCEPT !.pc = "exited"]]
    BY <1>14
  <2>2. [th[t] EXCEPT !.pc = "exited"].pc = "exited"
    BY <1>4 DEF ThreadState
  <2>3. Paused
    BY <1>4, <2>1, <2>2
  <2> QED
    BY <1>5, <1>14, <2>3
<1>15. ASSUME NEW t \in Thread, WorkerExits(t) PROVE FiguresExact'
  BY <1>14, <1>15 DEF WorkerExits, poolVars
<1>16. CASE LoopStep
  <2>1. CoordExits
    BY <1>2, <1>16 DEF LoopStep, Visit, Skip, HandOver, Visiting, SendKa, SendMain
  <2> QED
    BY <1>14, <2>1, Constants DEF CoordExits, poolVars
<1>17. ~Tick /\ ~NextPhase
  BY <1>1, <1>2 DEF Tick, NextPhase
<1>18. CASE Cancel \/ UNCHANGED vars
  BY <1>5, <1>18 DEF Cancel, vars, poolVars, engineVars
<1>19. ASSUME NEW t \in Thread, Step(t) PROVE FiguresExact'
  BY <1>8, <1>9, <1>10, <1>11, <1>12, <1>15, <1>19 DEF Step
<1> QED
  BY <1>7, <1>13, <1>16, <1>17, <1>18, <1>19 DEF Next

LEMMA InitPipe == Init => PipeInv
<1> SUFFICES ASSUME Init PROVE PipeInv
  OBVIOUS
<1>1. PICK l \in Stored : obj = LoadedHeap(l) /\ born = DOMAIN l
  BY DEF Init
<1>2. DOMAIN l \subseteq Obj /\ \A o \in DOMAIN l : l[o] \in Given /\ l[o] \in Proxy
  BY PoolAssumption, ValidationAssumption DEF PoolAssumption, ValidationAssumption
<1>3. ASSUME NEW o \in born
      PROVE  obj[o].addr = l[o].addr /\ obj[o].proto = l[o].proto /\ l[o] \in Given
  <2>1. obj[o] = [l[o] EXCEPT !.dirty = TRUE] /\ l[o] \in Proxy /\ l[o] \in Given
    BY <1>1, <1>2 DEF LoadedHeap
  <2> QED
    BY <2>1 DEF Proxy
<1>4. ListedProto
  BY <1>3 DEF ListedProto
<1>5. /\ RotationExact /\ ProtoCountsExact
      /\ \A s \in Counted : count[s] = Cardinality(IdsIn(obj, proxies, s))
  BY DEF Init, RotationExact, ProtoCountsExact
<1>6. \A t \in Thread : th[t].pc # "publishing"
  BY Constants DEF Init
<1> QED
  BY <1>4, <1>5, <1>6 DEF PipeInv, FiguresExact

\* Until the first keepalive cycle the incremental figures are those of the map,
\* for any number of workers and through rediscoveries in any state, provided no
\* address is listed under two protocols.  CountTicks makes `ticks' the number of
\* cycles begun.
THEOREM PipelineIsExact ==
  ASSUME OneProtocol, CountTicks
  PROVE  Spec => []PipelineExact
<1>1. VInv /\ PipeInv => PipelineExact
  BY DEF VInv, Tally, Held, PipeInv, FiguresExact, PipelineExact, CountersExact, AtRest
<1>2. Init => VInv /\ Owned /\ PipeInv
  BY InitVInv, InitOwned, InitPipe
<1>3. VInv /\ Owned /\ PipeInv /\ [Next]_vars => (VInv /\ Owned /\ PipeInv)'
  BY VInvStep, OwnedStep, PipeStep
<1> QED
  BY <1>1, <1>2, <1>3, PTL DEF Spec
=============================================================================
