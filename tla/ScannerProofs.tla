--------------------------- MODULE ScannerProofs ---------------------------
(***************************************************************************)
(* Proofs about Scanner, in both modes, for any sources, lists and         *)
(* capacities.                                                             *)
(***************************************************************************)
EXTENDS Scanner, Recursion, FiniteSetTheorems, SequenceTheorems

Ages == Absent..Never

-----------------------------------------------------------------------------
(* deduplicate *)

\* What the pass has after the first n listings.
Passed(list, m, n, acc) ==
  /\ acc.out \in Seq(Found) /\ acc.seen \in [Addr -> Ages]
  /\ AddrsIn(acc.out) = {list[i].addr : i \in {j \in 1..n : ~Recent(m, list[j].addr)}}
  /\ \A i, j \in DOMAIN acc.out : acc.out[i].addr = acc.out[j].addr => i = j
  /\ \A a \in Addr : acc.seen[a] = IF a \in AddrsIn(acc.out) THEN 0 ELSE m[a]

Accumulator == [out : Seq(Found), seen : [Addr -> Ages]]

LEMMA KeepTyped ==
  ASSUME NEW acc \in Accumulator, NEW p \in Found
  PROVE  Keep(acc, p) \in Accumulator
BY ScannerAssumption DEF ScannerAssumption, Keep, Accumulator, Found, Ages, Absent, Never

\* One listing more.
LEMMA KeepStep ==
  ASSUME NEW list \in Seq(Found), NEW m \in [Addr -> Ages], NEW n \in 1..Len(list),
         NEW acc \in Accumulator, Passed(list, m, n - 1, acc)
  PROVE  Passed(list, m, n, Keep(acc, list[n]))
<1> DEFINE p == list[n]
           next == Keep(acc, p)
           Kept(k) == {list[i].addr : i \in {j \in 1..k : ~Recent(m, list[j].addr)}}
<1>1. p \in Found /\ p.addr \in Addr
  <2>1. p \in Found
    BY ElementOfSeq
  <2> QED
    BY <2>1 DEF Found
<1>2. next \in Accumulator
  BY <1>1, KeepTyped
<1>3. Kept(n) = Kept(n - 1) \cup (IF Recent(m, p.addr) THEN {} ELSE {p.addr})
  OBVIOUS
<1>4. AddrsIn(acc.out) = Kept(n - 1)
  BY DEF Passed
<1>5. CASE Recent(acc.seen, p.addr)
  <2>1. next = acc
    BY <1>5 DEF Keep
  <2>2. p.addr \in Kept(n - 1) \/ Recent(m, p.addr)
    BY <1>1, <1>4, <1>5 DEF Passed, Recent
  <2>3. Kept(n) = Kept(n - 1)
    BY <1>3, <2>2
  <2> QED
    BY <2>1, <2>3 DEF Passed
<1>6. CASE ~Recent(acc.seen, p.addr)
  <2>1. /\ next.out = Append(acc.out, p)
        /\ next.seen = [acc.seen EXCEPT ![p.addr] = 0]
    BY <1>6 DEF Keep
  <2>2. p.addr \notin AddrsIn(acc.out) /\ ~Recent(m, p.addr)
    BY <1>1, <1>6, ScannerAssumption DEF ScannerAssumption, Passed, Recent, Absent
  <2>3. acc.out \in Seq(Found)
    BY DEF Accumulator
  <2>4. /\ DOMAIN next.out = 1..(Len(acc.out) + 1) /\ DOMAIN acc.out = 1..Len(acc.out)
        /\ Len(acc.out) \in Nat
        /\ next.out[Len(acc.out) + 1] = p
        /\ \A i \in 1..Len(acc.out) : next.out[i] = acc.out[i]
    BY <1>1, <2>1, <2>3
  <2> HIDE DEF next
  <2>5. AddrsIn(next.out) = AddrsIn(acc.out) \cup {p.addr}
    <3> DEFINE e == Len(acc.out) + 1
    <3>1. DOMAIN next.out = 1..Len(acc.out) \cup {e} /\ e \in DOMAIN next.out
      BY <2>4
    <3>2. AddrsIn(next.out) \subseteq AddrsIn(acc.out) \cup {p.addr}
      BY <2>4, <3>1 DEF AddrsIn
    <3>3. p.addr \in AddrsIn(next.out)
      BY <2>4, <3>1 DEF AddrsIn
    <3>4. AddrsIn(acc.out) \subseteq AddrsIn(next.out)
      BY <2>4, <3>1 DEF AddrsIn
    <3> QED
      BY <3>2, <3>3, <3>4
  <2>6. AddrsIn(next.out) = Kept(n)
    BY <1>3, <1>4, <2>2, <2>5
  <2>7. ASSUME NEW i \in DOMAIN next.out, NEW j \in DOMAIN next.out,
               next.out[i].addr = next.out[j].addr
        PROVE  i = j
    <3> DEFINE e == Len(acc.out) + 1
    <3>1. i \in 1..Len(acc.out) \cup {e} /\ j \in 1..Len(acc.out) \cup {e}
      BY <2>4
    <3>2. \A k \in 1..Len(acc.out) : next.out[k].addr # next.out[e].addr
      BY <2>2, <2>4 DEF AddrsIn
    <3>3. CASE i = e \/ j = e
      BY <2>7, <3>1, <3>2, <3>3
    <3>4. CASE i # e /\ j # e
      BY <2>4, <2>7, <3>1, <3>4 DEF Passed
    <3> QED
      BY <3>3, <3>4
  <2>8. ASSUME NEW a \in Addr
        PROVE  next.seen[a] = IF a \in AddrsIn(next.out) THEN 0 ELSE m[a]
    BY <1>1, <2>1, <2>5 DEF Passed, Accumulator
  <2>9. next.out \in Seq(Found) /\ next.seen \in [Addr -> Ages]
    BY <1>2 DEF Accumulator
  <2>10. Passed(list, m, n, next)
    BY <2>6, <2>7, <2>8, <2>9 DEF Passed
  <2> QED
    BY <2>10 DEF next
<1> QED
  BY <1>5, <1>6

\* What deduplicate returns: of the addresses listed exactly those that are not
\* recent, each once; they and no others are recorded as seen now.
LEMMA DedupReturns ==
  \A list \in Seq(Found), m \in [Addr -> Ages] : Passed(list, m, Len(list), Dedup(list, m))
<1>1. SUFFICES ASSUME NEW list, NEW m, list \in Seq(Found), m \in [Addr -> Ages]
               PROVE  Passed(list, m, Len(list), Dedup(list, m))
  OBVIOUS
<1>2. PICK n : n = Len(list) /\ n \in Nat
  BY <1>1
<1> DEFINE first == [out |-> <<>>, seen |-> m]
           step == [x \in Accumulator \X (1..n) |-> Keep(x[1], list[x[2]])]
           Equation(f) == f = [i \in 0..n |-> IF i = 0 THEN first
                                              ELSE Keep(f[i - 1], list[i])]
           pass == CHOOSE f : Equation(f)
           S == {i \in 0..n : pass[i] \in Accumulator /\ Passed(list, m, i, pass[i])}
<1>3. \A i \in 1..n : list[i] \in Found
  BY <1>1, <1>2, ElementOfSeq
<1>4. first \in Accumulator /\ step \in [Accumulator \X (1..n) -> Accumulator]
  BY <1>1, <1>3, KeepTyped DEF Accumulator
<1>5. \E f \in [0..n -> Accumulator] :
        f[0] = first /\ \A i \in 1..n : f[i] = step[<<f[i - 1], i>>]
  <2>1. n \in Nat
    BY <1>2
  <2> HIDE DEF first, step
  <2> QED
    BY <2>1, <1>4, LoopExists
<1>6. PICK f : /\ f \in [0..n -> Accumulator] /\ f[0] = first
               /\ \A i \in 1..n : f[i] = step[<<f[i - 1], i>>]
  BY <1>5
<1>7. ASSUME NEW i \in 1..n PROVE f[i] = Keep(f[i - 1], list[i])
  <2>1. f[i - 1] \in Accumulator
    BY <1>2, <1>6
  <2> QED
    BY <1>6, <2>1
<1>8. Equation(pass)
  <2>1. Equation(f)
    BY <1>2, <1>6, <1>7
  <2> QED
    BY <2>1
<1> HIDE DEF pass
<1>9. 0 \in S
  <2>1. pass[0] = first
    BY <1>2, <1>8
  <2>2. Passed(list, m, 0, first)
    BY <1>1 DEF Passed, AddrsIn
  <2> QED
    BY <1>2, <1>4, <2>1, <2>2
<1>10. ASSUME NEW i \in 1..n, i - 1 \in S PROVE i \in S
  <2>1. pass[i] = Keep(pass[i - 1], list[i])
    BY <1>2, <1>8
  <2> QED
    BY <1>1, <1>2, <1>3, <1>10, <2>1, KeepTyped, KeepStep
<1>11. n \in S
  <2>1. n \in Nat
    BY <1>2
  <2> HIDE DEF S
  <2> QED
    BY <2>1, <1>9, <1>10, PositionInduction
<1>12. Dedup(list, m) = pass[n]
  BY <1>2 DEF Dedup, pass
<1> QED
  BY <1>2, <1>11, <1>12

-----------------------------------------------------------------------------
(* The inductive invariant *)

Types ==
  /\ TypeOK
  /\ mode \in {"interval", "continuous"} /\ ctx \in {"live", "cancelled"}
  /\ fetch \in [Source -> {"todo", "fetching", "done"}]
  /\ found \in Nat /\ taken \in Nat

\* Proxies wait for the push only during it, so a cycle starts from an empty batch.
Quiet == pc # "pushing" => batch = <<>>

\* The seen map remembers exactly the acceptances that cleanupSeen may not delete
\* yet: what it does not hold was accepted longer than a TTL ago.
SeenIsSince ==
  \A a \in Addr : IF seen[a] = Absent THEN since[a] > TTL ELSE seen[a] = since[a]

IInv == Types /\ Quiet /\ FetchBound /\ Accounted /\ NoDuplicates /\ SeenIsSince

LEMMA InitHolds == Init => IInv
<1> SUFFICES ASSUME Init PROVE IInv
  OBVIOUS
<1>1. TTL \in Nat /\ Never = TTL + 1 /\ Absent = -1
  BY ScannerAssumption DEF ScannerAssumption, Never, Absent
<1>2. <<>> \in Seq(Found) /\ Len(<<>>) = 0
  OBVIOUS
<1>3. Types
  BY <1>1, <1>2, ScannerAssumption DEF ScannerAssumption, Init, Types, TypeOK
<1>4. Quiet /\ NoDuplicates /\ SeenIsSince
  BY <1>1 DEF Init, Quiet, NoDuplicates, SeenIsSince
<1>5. FetchBound
  <2>1. Fetching = {} /\ slots = 0
    BY DEF Init, Fetching
  <2>2. Cardinality(Fetching) = 0
    BY <2>1, FS_EmptySet
  <2> QED
    BY <2>1, <2>2, ScannerAssumption DEF ScannerAssumption, FetchBound
<1>6. Accounted
  BY <1>2 DEF Init, Accounted, Unreported
<1> QED
  BY <1>3, <1>4, <1>5, <1>6 DEF IInv

\* What a cycle's deduplication leaves behind.
LEMMA DeduplicateEffect ==
  ASSUME Types, Deduplicate
  PROVE  /\ batch' \in Seq(Found) /\ found' = Len(batch') /\ seen' \in [Addr -> Ages]
         /\ AddrsIn(batch') = {a \in AddrsIn(all) : ~Recent(seen, a)}
         /\ \A i, j \in DOMAIN batch' : batch'[i].addr = batch'[j].addr => i = j
         /\ \A a \in Addr : seen'[a] = IF a \in AddrsIn(batch') THEN 0 ELSE seen[a]
         /\ since' = [a \in Addr |-> IF a \in AddrsIn(batch') THEN 0 ELSE since[a]]
<1> DEFINE d == Dedup(all, seen)
<1>1. all \in Seq(Found) /\ seen \in [Addr -> Ages]
  BY DEF Types, TypeOK, Ages
<1>2. Passed(all, seen, Len(all), d)
  BY <1>1, DedupReturns
<1>3. batch' = d.out /\ seen' = d.seen /\ found' = Len(d.out)
      /\ since' = [a \in Addr |-> IF a \in AddrsIn(d.out) THEN 0 ELSE since[a]]
  BY DEF Deduplicate
<1>4. DOMAIN all = 1..Len(all)
  BY <1>1
<1> HIDE DEF d
<1>5. AddrsIn(batch') = {a \in AddrsIn(all) : ~Recent(seen, a)}
  <2>1. AddrsIn(d.out) = {all[i].addr : i \in {j \in 1..Len(all) : ~Recent(seen, all[j].addr)}}
    BY <1>2 DEF Passed
  <2>2. {all[i].addr : i \in {j \in 1..Len(all) : ~Recent(seen, all[j].addr)}}
          = {a \in {all[i].addr : i \in 1..Len(all)} : ~Recent(seen, a)}
    OBVIOUS
  <2>3. AddrsIn(all) = {all[i].addr : i \in 1..Len(all)}
    BY <1>4 DEF AddrsIn
  <2> QED
    BY <1>3, <2>1, <2>2, <2>3
<1> QED
  BY <1>2, <1>3, <1>5 DEF Passed

LEMMA SourceFinite == IsFiniteSet(Source)
<1>1. Sources \in [1..Len(Sources) -> Source] /\ Len(Sources) \in Nat
  BY ScannerAssumption, LenProperties DEF ScannerAssumption
<1>2. Source = {Sources[i] : i \in 1..Len(Sources)}
  BY <1>1 DEF Source, Range
<1> QED
  <2>1. IsFiniteSet(1..Len(Sources))
    BY <1>1, FS_Interval
  <2>2. Sources \in Surjection(1..Len(Sources), Source)
    BY <1>1, <1>2 DEF Surjection
  <2> QED
    BY <2>1, <2>2, FS_Surjection

\* While a fetch is under way in continuous mode its token is in the semaphore.
LEMMA TokenHeld ==
  ASSUME Types, FetchBound, NEW s \in Source, fetch[s] = "fetching"
  PROVE  Released \in Nat
<1>1. IsFiniteSet(Fetching) /\ s \in Fetching
  BY SourceFinite, FS_Subset DEF Fetching
<1>2. Cardinality(Fetching) \in Nat /\ Cardinality(Fetching) # 0
  BY <1>1, FS_CardinalityType, FS_EmptySet
<1> QED
  BY <1>2 DEF Types, TypeOK, FetchBound, Released

-----------------------------------------------------------------------------
(* Each step preserves it *)

LEMMA TypesStep == Types /\ FetchBound /\ [Next]_vars => Types'
<1> SUFFICES ASSUME Types, FetchBound, [Next]_vars PROVE Types'
  OBVIOUS
<1>1. TTL \in Nat \ {0} /\ Cap \in Nat \ {0} /\ Never = TTL + 1 /\ Absent = -1
  BY ScannerAssumption DEF ScannerAssumption, Never, Absent
<1> USE DEF Types, TypeOK
<1>2. CASE BeginCycle
  BY <1>1, <1>2 DEF BeginCycle, CleanedUp, stats
<1>3. CASE Deduplicate
  <2>1. /\ batch' \in Seq(Found) /\ found' = Len(batch') /\ seen' \in [Addr -> Absent..Never]
        /\ since' = [a \in Addr |-> IF a \in AddrsIn(batch') THEN 0 ELSE since[a]]
    BY <1>3, DeduplicateEffect DEF Ages
  <2>2. Len(all) \in Nat /\ Len(batch') \in Nat
    BY <2>1, LenProperties
  <2>3. since' \in [Addr -> 0..Never]
    BY <1>1, <2>1
  <2>4. lastFetchCount' \in Nat /\ totalDiscovered' \in Nat
    BY <1>3, <2>1, <2>2 DEF Deduplicate
  <2> QED
    BY <1>3, <2>1, <2>2, <2>3, <2>4 DEF Deduplicate
<1>4. CASE PushSend
  <2>1. chan' = Append(chan, Head(batch)) /\ batch' = Tail(batch) /\ batch # <<>>
        /\ Len(chan) < Cap
    BY <1>4 DEF PushSend
  <2>2. Head(batch) \in Found /\ batch' \in Seq(Found)
    BY <2>1, HeadTailProperties
  <2>3. chan' \in Seq(Found) /\ Len(chan') = Len(chan) + 1 /\ Len(chan) \in Nat
    BY <2>1, <2>2, AppendProperties, LenProperties
  <2> QED
    BY <1>1, <1>4, <2>1, <2>2, <2>3 DEF PushSend, stats
<1>5. CASE PushDrop
  <2>1. batch' \in Seq(Found)
    BY <1>5, HeadTailProperties DEF PushDrop
  <2> QED
    BY <1>5, <2>1 DEF PushDrop, DropCounted
<1>6. CASE PushAbandoned
  BY <1>6 DEF PushAbandoned, stats
<1>7. CASE EndCycle
  BY <1>7 DEF EndCycle
<1>8. CASE Exit
  BY <1>8 DEF Exit, stats
<1>9. ASSUME NEW s \in Source, FetchStep(s) PROVE Types'
  <2>1. CASE FetchInTurn(s) \/ AcquireSlot(s)
    <3>1. Begun(s) /\ slots' \in Nat
      BY <2>1 DEF FetchInTurn, AcquireSlot
    <3>2. fetch' \in [Source -> {"todo", "fetching", "done"}]
      BY <3>1 DEF Begun
    <3> QED
      BY <3>1, <3>2 DEF Begun, stats
  <2>2. CASE GiveUp(s)
    BY <2>2 DEF GiveUp, stats
  <2>3. CASE FetchFails(s)
    <3>1. Released \in Nat
      BY <2>3, TokenHeld DEF FetchFails, Ends
    <3> QED
      BY <2>3, <3>1 DEF FetchFails, Ends, stats
  <2>4. CASE Fetched(s)
    <3>1. PICK list \in Serves[s] : all' = all \o list
      BY <2>4 DEF Fetched
    <3>2. list \in Seq(Found)
      BY <3>1, ScannerAssumption DEF ScannerAssumption
    <3>3. all' \in Seq(Found)
      BY <3>1, <3>2, ConcatProperties
    <3>4. Released \in Nat
      BY <2>4, TokenHeld DEF Fetched, Ends
    <3> QED
      BY <2>4, <3>3, <3>4 DEF Fetched, Ends, stats
  <2> QED
    BY <1>9, <2>1, <2>2, <2>3, <2>4 DEF FetchStep
<1>10. CASE Take
  <2>1. chan' \in Seq(Found) /\ Len(chan') = Len(chan) - 1 /\ Len(chan) \in Nat
    BY <1>10, HeadTailProperties, LenProperties DEF Take
  <2> QED
    BY <1>1, <1>10, <2>1 DEF Take, stats
<1>11. CASE Clock
  BY <1>1, <1>11 DEF Clock, Older, stats
<1>12. CASE Cancel
  BY <1>12 DEF Cancel, stats
<1>13. CASE UNCHANGED vars
  BY <1>13 DEF vars, stats
<1> QED
  BY <1>2, <1>3, <1>4, <1>5, <1>6, <1>7, <1>8, <1>9, <1>10, <1>11, <1>12, <1>13
     DEF Next, LoopStep

LEMMA QuietStep == Quiet /\ [Next]_vars => Quiet'
BY DEF Quiet, Next, LoopStep, FetchStep, BeginCycle, Deduplicate, PushSend, PushDrop,
       PushAbandoned, EndCycle, Exit, FetchInTurn, AcquireSlot, Begun, FetchFails,
       Fetched, Ends, GiveUp, Take, Clock, Cancel,
       vars

LEMMA NoDuplicatesStep == Types /\ NoDuplicates /\ [Next]_vars => NoDuplicates'
<1> SUFFICES ASSUME Types, NoDuplicates, [Next]_vars PROVE NoDuplicates'
  OBVIOUS
<1>1. CASE Deduplicate
  BY <1>1, DeduplicateEffect DEF NoDuplicates
<1>2. CASE PushSend \/ PushDrop
  <2>1. batch \in Seq(Found) /\ batch # <<>> /\ batch' = Tail(batch)
    BY <1>2 DEF Types, TypeOK, PushSend, PushDrop
  <2>2. /\ DOMAIN batch = 1..Len(batch) /\ Len(batch) \in Nat
        /\ DOMAIN batch' = 1..(Len(batch) - 1)
        /\ \A i \in 1..(Len(batch) - 1) : batch'[i] = batch[i + 1]
    BY <2>1, HeadTailProperties, LenProperties
  <2> QED
    BY <2>2 DEF NoDuplicates
<1>3. CASE PushAbandoned
  BY <1>3 DEF PushAbandoned, NoDuplicates
<1>4. CASE UNCHANGED batch
  BY <1>4 DEF NoDuplicates
<1>5. \/ Deduplicate \/ PushSend \/ PushDrop \/ PushAbandoned
      \/ UNCHANGED batch
  BY DEF Next, LoopStep, FetchStep, BeginCycle, EndCycle, Exit, FetchInTurn, AcquireSlot,
         Begun, FetchFails, Fetched, Ends, GiveUp, Take, Clock, Cancel, vars
<1> QED
  BY <1>1, <1>2, <1>3, <1>4, <1>5

LEMMA SeenIsSinceStep == Types /\ SeenIsSince /\ [Next]_vars => SeenIsSince'
<1> SUFFICES ASSUME Types, SeenIsSince, [Next]_vars, NEW a \in Addr
             PROVE  IF seen'[a] = Absent THEN since'[a] > TTL ELSE seen'[a] = since'[a]
  BY DEF SeenIsSince
<1>1. TTL \in Nat \ {0} /\ Never = TTL + 1 /\ Absent = -1
  BY ScannerAssumption DEF ScannerAssumption, Never, Absent
<1>2. seen \in [Addr -> Absent..Never] /\ since \in [Addr -> 0..Never]
  BY DEF Types, TypeOK
<1>3. IF seen[a] = Absent THEN since[a] > TTL ELSE seen[a] = since[a]
  BY DEF SeenIsSince
<1>4. CASE BeginCycle
  <2>1. since' = since /\ seen'[a] = IF seen[a] > TTL THEN Absent ELSE seen[a]
    BY <1>2, <1>4 DEF BeginCycle, CleanedUp
  <2> QED
    BY <1>1, <1>2, <1>3, <2>1
<1>5. CASE Deduplicate
  <2>1. /\ seen'[a] = IF a \in AddrsIn(batch') THEN 0 ELSE seen[a]
        /\ since'[a] = IF a \in AddrsIn(batch') THEN 0 ELSE since[a]
    BY <1>5, DeduplicateEffect
  <2> QED
    BY <1>1, <1>3, <2>1
<1>6. CASE Clock
  <2>1. seen'[a] = Older(seen[a]) /\ since'[a] = Older(since[a])
    BY <1>6 DEF Clock
  <2> QED
    BY <1>1, <1>2, <1>3, <2>1 DEF Older
<1>7. CASE UNCHANGED <<seen, since>>
  BY <1>3, <1>7
<1>8. BeginCycle \/ Deduplicate \/ Clock \/ UNCHANGED <<seen, since>>
  BY DEF Next, LoopStep, FetchStep, PushSend, PushDrop, PushAbandoned, EndCycle, Exit,
         FetchInTurn, AcquireSlot, Begun, FetchFails,
       Fetched, Ends, GiveUp, Take, Cancel, vars
<1> QED
  BY <1>4, <1>5, <1>6, <1>7, <1>8

LEMMA FetchBoundStep == Types /\ FetchBound /\ [Next]_vars => FetchBound'
<1> SUFFICES ASSUME Types, FetchBound, [Next]_vars, mode' = "continuous"
             PROVE  slots' = Cardinality(Fetching') /\ slots' <= MaxFetch
  BY DEF FetchBound
<1>1. MaxFetch \in Nat \ {0} /\ mode = "continuous"
  BY ScannerAssumption DEF ScannerAssumption, Next, LoopStep, FetchStep, BeginCycle,
     Deduplicate, PushSend, PushDrop, PushAbandoned, EndCycle, Exit, FetchInTurn, AcquireSlot,
     Begun, FetchFails, Fetched, Ends, GiveUp, Take, Clock, Cancel, vars
<1>2. fetch \in [Source -> {"todo", "fetching", "done"}] /\ slots \in Nat
  BY DEF Types, TypeOK
<1>3. IsFiniteSet(Fetching) /\ slots = Cardinality(Fetching) /\ slots <= MaxFetch
  BY <1>1, SourceFinite, FS_Subset DEF Fetching, FetchBound
<1>4. CASE BeginCycle
  <2>1. Fetching' = {} /\ slots' = 0
    BY <1>4 DEF BeginCycle, Fetching
  <2> QED
    BY <1>1, <2>1, FS_EmptySet
<1>5. ASSUME NEW s \in Source, AcquireSlot(s)
      PROVE  slots' = Cardinality(Fetching') /\ slots' <= MaxFetch
  <2>1. Fetching' = Fetching \cup {s} /\ s \notin Fetching
    BY <1>2, <1>5 DEF AcquireSlot, Begun, Fetching
  <2>2. slots' = slots + 1 /\ slots < MaxFetch
    BY <1>5 DEF AcquireSlot
  <2> QED
    BY <1>1, <1>2, <1>3, <2>1, <2>2, FS_AddElement
<1>6. ASSUME NEW s \in Source, Ends(s, Released)
      PROVE  slots' = Cardinality(Fetching') /\ slots' <= MaxFetch
  <2>1. Fetching' = Fetching \ {s} /\ s \in Fetching
    BY <1>2, <1>6 DEF Ends, Fetching
  <2>2. slots' = slots - 1
    BY <1>1, <1>6 DEF Ends, Released
  <2>3. Cardinality(Fetching') = Cardinality(Fetching) - 1
    BY <1>3, <2>1, FS_RemoveElement
  <2> QED
    BY <1>1, <1>2, <1>3, <2>2, <2>3
<1>7. CASE Fetching' = Fetching /\ slots' = slots
  BY <1>3, <1>7
<1>8. \/ BeginCycle
      \/ \E s \in Source : AcquireSlot(s) \/ Ends(s, Released)
      \/ Fetching' = Fetching /\ slots' = slots
  <2>1. ASSUME NEW s \in Source, GiveUp(s) PROVE Fetching' = Fetching /\ slots' = slots
    BY <1>2, <2>1 DEF GiveUp, Fetching
  <2>2. ASSUME UNCHANGED <<fetch, slots>> PROVE Fetching' = Fetching /\ slots' = slots
    BY <2>2 DEF Fetching
  <2> QED
    BY <1>1, <2>1, <2>2 DEF Next, LoopStep, FetchStep, Deduplicate, PushSend, PushDrop,
       PushAbandoned, EndCycle, Exit, FetchInTurn, FetchFails, Fetched, Take, Clock, Cancel,
       vars
<1> QED
  BY <1>4, <1>5, <1>6, <1>7, <1>8

LEMMA AccountedStep ==
  Types /\ Types' /\ Quiet /\ Accounted /\ [Next]_vars => Accounted'
<1> SUFFICES ASSUME Types, Types', Quiet, Accounted, [Next]_vars, ctx' = "live"
             PROVE  (totalDiscovered + Unreported
                       = taken + Len(chan) + Len(batch) + dropped)'
  BY DEF Accounted
<1>1. /\ totalDiscovered \in Nat /\ taken \in Nat /\ dropped \in Nat /\ found \in Nat
      /\ chan \in Seq(Found) /\ batch \in Seq(Found)
      /\ Len(chan) \in Nat /\ Len(batch) \in Nat
  BY LenProperties DEF Types, TypeOK
<1>2. ctx = "live" /\ mode' = mode
  BY DEF Next, LoopStep, FetchStep, BeginCycle, Deduplicate, PushSend, PushDrop,
     PushAbandoned, EndCycle, Exit, FetchInTurn, AcquireSlot, Begun, FetchFails,
       Fetched, Ends, GiveUp, Take, Clock, Cancel, vars
<1>3. totalDiscovered + Unreported = taken + Len(chan) + Len(batch) + dropped
  BY <1>2 DEF Accounted
<1>4. CASE Deduplicate
  <2>1. batch = <<>> /\ Len(batch) = 0 /\ Unreported = 0
    BY <1>4 DEF Quiet, Deduplicate, Unreported
  <2>2. Len(batch') \in Nat /\ found' = Len(batch')
    BY <1>4, DeduplicateEffect, LenProperties
  <2>3. /\ pc' = "pushing" /\ UNCHANGED <<taken, chan, dropped>>
        /\ totalDiscovered' = IF mode = "interval" THEN totalDiscovered + Len(batch')
                                                  ELSE totalDiscovered
    BY <1>4 DEF Deduplicate
  <2>4. mode \in {"interval", "continuous"}
    BY DEF Types
  <2>5. totalDiscovered = taken + Len(chan) + dropped
    BY <1>1, <1>3, <2>1
  <2>6. CASE mode = "interval"
    <3>1. Unreported' = 0 /\ totalDiscovered' = totalDiscovered + Len(batch')
      BY <1>2, <2>3, <2>6 DEF Unreported
    <3> QED
      BY <1>1, <2>2, <2>3, <2>5, <3>1
  <2>7. CASE mode = "continuous"
    <3>1. Unreported' = Len(batch') /\ totalDiscovered' = totalDiscovered
      BY <1>2, <2>2, <2>3, <2>7 DEF Unreported
    <3> QED
      BY <1>1, <2>2, <2>3, <2>5, <3>1
  <2> QED
    BY <2>4, <2>6, <2>7
<1>5. CASE PushSend
  <2>1. /\ Len(chan') = Len(chan) + 1 /\ Len(batch') = Len(batch) - 1
    BY <1>1, <1>5, HeadTailProperties, AppendProperties DEF PushSend
  <2>2. UNCHANGED <<totalDiscovered, taken, dropped, pc, found>>
    BY <1>5 DEF PushSend, stats
  <2> QED
    BY <1>1, <1>2, <1>3, <2>1, <2>2 DEF Unreported
<1>6. CASE PushDrop
  <2>1. Len(batch') = Len(batch) - 1 /\ dropped' = dropped + 1
    BY <1>1, <1>6, HeadTailProperties DEF PushDrop, DropCounted
  <2>2. UNCHANGED <<totalDiscovered, taken, chan, pc, found>>
    BY <1>6 DEF PushDrop
  <2> QED
    BY <1>1, <1>2, <1>3, <2>1, <2>2 DEF Unreported
<1>7. CASE EndCycle
  <2>1. /\ pc = "pushing" /\ pc' = "idle" /\ UNCHANGED <<taken, chan, dropped, batch>>
        /\ totalDiscovered' = IF mode = "continuous" THEN totalDiscovered + found
                                                    ELSE totalDiscovered
    BY <1>7 DEF EndCycle
  <2> QED
    BY <1>1, <1>2, <1>3, <2>1 DEF Unreported
<1>8. CASE Take
  <2>1. Len(chan') = Len(chan) - 1 /\ taken' = taken + 1
    BY <1>1, <1>8, HeadTailProperties DEF Take
  <2>2. UNCHANGED <<totalDiscovered, dropped, batch, pc, found>>
    BY <1>8 DEF Take, stats
  <2> QED
    BY <1>1, <1>2, <1>3, <2>1, <2>2 DEF Unreported
<1>9. CASE /\ UNCHANGED <<totalDiscovered, taken, chan, batch, dropped, found>>
           /\ pc' = "pushing" <=> pc = "pushing"
  BY <1>2, <1>3, <1>9 DEF Unreported
<1>10. \/ Deduplicate \/ PushSend \/ PushDrop \/ EndCycle \/ Take
       \/ /\ UNCHANGED <<totalDiscovered, taken, chan, batch, dropped, found>>
          /\ pc' = "pushing" <=> pc = "pushing"
  BY <1>2 DEF Next, LoopStep, FetchStep, BeginCycle, PushAbandoned, Exit, FetchInTurn,
     AcquireSlot, Begun, FetchFails, Fetched, Ends, GiveUp, Clock, Cancel, vars, stats
<1> QED
  BY <1>4, <1>5, <1>6, <1>7, <1>8, <1>9, <1>10

-----------------------------------------------------------------------------
(* Theorems *)

\* The invariant holds in every state of either mode.
THEOREM Invariance == Spec => []IInv
<1>1. Init => IInv
  BY InitHolds
<1>2. IInv /\ [Next]_vars => IInv'
  BY TypesStep, QuietStep, FetchBoundStep, AccountedStep, NoDuplicatesStep, SeenIsSinceStep
     DEF IInv
<1> QED
  BY <1>1, <1>2, PTL DEF Spec

\* Types; the channel is never over its capacity.
THEOREM ScannerTypeCorrect == Spec => []TypeOK
<1>1. IInv => TypeOK
  BY DEF IInv, Types
<1> QED
  BY <1>1, Invariance, PTL

\* The semaphore of fetchAllSources holds one token for each fetch under way and never
\* more than its size, whatever the number of sources, however fetches end, whoever
\* gives up on a signal, and cycle after cycle: no path keeps a slot or frees it twice.
THEOREM FetchesAreBounded == Spec => []FetchBound
<1>1. IInv => FetchBound
  BY DEF IInv
<1> QED
  BY <1>1, Invariance, PTL

\* The scanner's figures: every proxy counted as discovered went to the validator, is
\* on its way there or is counted as dropped, however full the channel was.
THEOREM EveryDiscoveryAccounted == Spec => []Accounted
<1>1. IInv => Accounted
  BY DEF IInv
<1> QED
  BY <1>1, Invariance, PTL

\* deduplicate lets no address through twice, however often the sources list it.
THEOREM BatchesAreSets == Spec => []NoDuplicates
<1>1. IInv => NoDuplicates
  BY DEF IInv
<1> QED
  BY <1>1, Invariance, PTL

\* deduplicate accepts an address again only after a whole TTL, whatever
\* cleanupSeen has deleted by then.
THEOREM TTLIsRespected == Spec => NotWithinTTL
<1>1. IInv /\ [Next]_vars =>
        [\A a \in Addr : (pc = "fetching" /\ pc' = "pushing" /\ a \in AddrsIn(batch'))
                             => since[a] >= TTL]_vars
  <2> SUFFICES ASSUME IInv, [Next]_vars, pc = "fetching", pc' = "pushing",
                      NEW a \in Addr, a \in AddrsIn(batch')
               PROVE  since[a] >= TTL
    OBVIOUS
  <2>1. Deduplicate
    BY DEF Next, LoopStep, FetchStep, BeginCycle, PushSend, PushDrop, PushAbandoned, EndCycle,
       Exit, FetchInTurn, AcquireSlot, Begun, FetchFails,
       Fetched, Ends, GiveUp, Take, Clock, Cancel, vars
  <2>2. ~Recent(seen, a)
    BY <2>1, DeduplicateEffect DEF IInv
  <2>3. TTL \in Nat /\ since[a] \in Int /\ seen[a] \in Int /\ Absent = -1
    BY ScannerAssumption DEF ScannerAssumption, IInv, Types, TypeOK, Absent, Never
  <2>4. IF seen[a] = Absent THEN since[a] > TTL ELSE seen[a] = since[a]
    BY DEF IInv, SeenIsSince
  <2> QED
    BY <2>2, <2>3, <2>4 DEF Recent
<1> QED
  BY <1>1, Invariance, PTL DEF Spec, NotWithinTTL

\* deduplicate loses no address that was not accepted within the TTL.
THEOREM DedupLosesNothing == Spec => NothingLost
<1>1. IInv /\ [Next]_vars =>
        [(pc = "fetching" /\ pc' = "pushing") =>
            \A a \in AddrsIn(all) : since[a] >= TTL => a \in AddrsIn(batch')]_vars
  <2> SUFFICES ASSUME IInv, [Next]_vars, pc = "fetching", pc' = "pushing",
                      NEW a \in AddrsIn(all), since[a] >= TTL
               PROVE  a \in AddrsIn(batch')
    OBVIOUS
  <2>1. Deduplicate
    BY DEF Next, LoopStep, FetchStep, BeginCycle, PushSend, PushDrop, PushAbandoned, EndCycle,
       Exit, FetchInTurn, AcquireSlot, Begun, FetchFails,
       Fetched, Ends, GiveUp, Take, Clock, Cancel, vars
  <2>2. a \in Addr
    <3>1. PICK i \in 1..Len(all) : a = all[i].addr
      BY LenProperties DEF IInv, Types, TypeOK, AddrsIn
    <3>2. all[i] \in Found
      BY <3>1, ElementOfSeq DEF IInv, Types, TypeOK
    <3> QED
      BY <3>1, <3>2 DEF Found
  <2>3. TTL \in Nat /\ since[a] \in Int /\ seen[a] \in Int
    BY <2>2, ScannerAssumption DEF ScannerAssumption, IInv, Types, TypeOK, Absent, Never
  <2>4. IF seen[a] = Absent THEN since[a] > TTL ELSE seen[a] = since[a]
    BY <2>2 DEF IInv, SeenIsSince
  <2>5. ~Recent(seen, a)
    BY <2>3, <2>4 DEF Recent
  <2> QED
    BY <2>1, <2>5, DeduplicateEffect DEF IInv
<1> QED
  BY <1>1, Invariance, PTL DEF Spec, NothingLost
=============================================================================
