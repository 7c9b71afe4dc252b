-------------------------------- MODULE Pool --------------------------------
(***************************************************************************)
(* internal/pool/pool.go: the in-memory proxy pool.                        *)
(*                                                                         *)
(* Proxies are Go structs behind pointers, and the pool keeps the pointer  *)
(* its caller gave it.  A pointer is a member of Obj, `obj' is the heap    *)
(* that says what it points at, and every operator that reads a proxy      *)
(* takes the heap it reads, so that the validation engine (Validation) can *)
(* run the same operators on a heap it writes to without the pool's lock.  *)
(*                                                                         *)
(* Every operation here holds the pool's mutex from its first line to its  *)
(* last, so each is one action.  The specification of this module, PoolSpec*)
(* is the pool in the hands of a caller that hands each struct over and no *)
(* longer writes to it.                                                    *)
(*                                                                         *)
(* Abstracted: HealthScore, LatencyMs, FirstSeen, LastChecked, Source,     *)
(* Country and Anonymity, which no counter and no branch of these          *)
(* operations reads (Add carries HealthScore, LastChecked and FirstSeen    *)
(* along with the two streaks, which stand for the history as a whole).    *)
(***************************************************************************)
EXTENDS Integers, FiniteSets

CONSTANTS
  Addr,         \* host:port pairs; models.ProxyID hashes the pair to the id
  Protocol,
  Given,        \* the structs callers of Add hand over
  Obj, NoObj,   \* pointers to models.Proxy, and nil
  MaxStreak,    \* bound: ConsecutiveOK saturates here (only 0 is told apart)
  MaxFails,     \* validator.max_consecutive_fails; ConsecutiveFail saturates
  MaxDeadTimes  \* bound: the number of timestamps told apart

States == {"DISCOVERED", "VALIDATING", "ALIVE", "DEAD"}
Counted == {"VALIDATING", "ALIVE", "DEAD"}   \* states with an atomic counter

Proxy == [addr : Addr, proto : Protocol, state : States,
          ok : 0..MaxStreak, fail : 0..MaxFails, dirty : BOOLEAN]

ASSUME PoolAssumption ==
  /\ IsFiniteSet(Addr)
  /\ NoObj \notin Obj
  /\ MaxStreak \in Nat \ {0}
  /\ MaxFails \in Nat \ {0}
  /\ MaxDeadTimes \in Nat
  /\ Given \subseteq Proxy

VARIABLES
  obj,          \* the heap: what each pointer points at
  proxies,      \* map id -> pointer, NoObj where the id is absent
  aliveIDs,     \* the cached ids; the slice's order is a map's, so a set
  total,        \* totalVal
  count,        \* aliveVal, validatingVal, deadVal
  protoCount,   \* map protocol -> count, 0 where the key is absent
  deadTimes     \* timestamps of deadTimestamps that are less than 1 h old

poolVars == <<obj, proxies, aliveIDs, total, count, protoCount, deadTimes>>

Exists(a) == proxies[a] # NoObj

\* Ids a map m holds whose struct is in state s.
IdsIn(h, m, s) == {a \in Addr : m[a] # NoObj /\ h[m[a]].state = s}

-----------------------------------------------------------------------------
(* Counters *)

\* updateStateCounter: DISCOVERED has no counter.
Bump(c, s, d) == IF s \in Counted THEN [c EXCEPT ![s] = @ + d] ELSE c

Transfer(c, from, to) == Bump(Bump(c, from, -1), to, 1)

\* A key that reaches zero, or below, is deleted: it then reads as zero.
ReleaseProto(c, p) == [c EXCEPT ![p] = IF @ <= 1 THEN 0 ELSE @ - 1]
ClaimProto(c, p) == [c EXCEPT ![p] = @ + 1]

MoveProtoNoRelease(c, from, to, p) ==   \* mutant
  IF to = "ALIVE" THEN ClaimProto(c, p) ELSE c

MoveProto(c, from, to, p) ==
  LET released == IF from = "ALIVE" THEN ReleaseProto(c, p) ELSE c
  IN  IF to = "ALIVE" THEN ClaimProto(released, p) ELSE released

NoteDeath(from, to) ==
  IF to = "DEAD" /\ from # "DEAD" /\ deadTimes < MaxDeadTimes
  THEN deadTimes + 1 ELSE deadTimes

AdjustCounters(from, to, p) ==
  /\ count' = Transfer(count, from, to)
  /\ protoCount' = MoveProto(protoCount, from, to, p)
  /\ deadTimes' = NoteDeath(from, to)

-----------------------------------------------------------------------------
(* Add *)

MergeStateOnly(h, o) ==   \* mutant: the streaks are not carried over
  LET prev == h[proxies[h[o].addr]]
  IN  IF /\ Exists(h[o].addr)
         /\ h[o].state = "DISCOVERED" /\ prev.state # "DISCOVERED"
      THEN [h EXCEPT ![o].state = prev.state] ELSE h

\* A DISCOVERED struct takes over the history of the one it replaces.
Merge(h, o) ==
  LET prev == h[proxies[h[o].addr]]
  IN  IF /\ Exists(h[o].addr)
         /\ h[o].state = "DISCOVERED" /\ prev.state # "DISCOVERED"
      THEN [h EXCEPT ![o] = [@ EXCEPT !.state = prev.state,
                                      !.ok = prev.ok, !.fail = prev.fail]]
      ELSE h

PrevStateForgotten(h, a) == "DISCOVERED"   \* mutant

PrevState(h, a) == IF Exists(a) THEN h[proxies[a]].state ELSE "DISCOVERED"

RotationOnGain(h, m, existed, from, to) ==   \* mutant
  IF to = "ALIVE" THEN IdsIn(h, m, "ALIVE") ELSE aliveIDs

RotationAfter(h, m, existed, from, to) ==
  IF (from = "ALIVE") # (to = "ALIVE") \/ ~existed
  THEN IdsIn(h, m, "ALIVE") ELSE aliveIDs

\* Add from the point where it has read `existed' and the previous state
\* `from': publishes the pointer and brings counters and aliveIDs up to date.
Publish(h, o, existed, from) ==
  LET a  == h[o].addr
      to == h[o].state
      m  == [proxies EXCEPT ![a] = o]
  IN  /\ obj' = [h EXCEPT ![o].dirty = TRUE]
      /\ proxies' = m
      /\ AdjustCounters(from, to, h[o].proto)
      /\ aliveIDs' = RotationAfter(h, m, existed, from, to)

TotalUncounted(a) == total   \* mutant

TotalAfterAdd(a) == IF Exists(a) THEN total ELSE total + 1

Add(h, o) ==
  LET a == h[o].addr
      g == Merge(h, o)
  IN  /\ total' = TotalAfterAdd(a)
      /\ Publish(g, o, Exists(a), PrevState(g, a))

-----------------------------------------------------------------------------
(* The other operations that write *)

Remove(a) ==
  LET old == obj[proxies[a]]
      m   == [proxies EXCEPT ![a] = NoObj]
  IN  /\ Exists(a)
      /\ proxies' = m
      /\ total' = total - 1
      /\ AdjustCounters(old.state, "DISCOVERED", old.proto)
      /\ aliveIDs' = IF old.state = "ALIVE" THEN IdsIn(obj, m, "ALIVE")
                                            ELSE aliveIDs
      /\ UNCHANGED obj

SeedCounters ==
  /\ total' = Cardinality({a \in Addr : Exists(a)})
  /\ count' = [s \in Counted |-> Cardinality(IdsIn(obj, proxies, s))]
  /\ protoCount' = [p \in Protocol |->
       Cardinality({a \in IdsIn(obj, proxies, "ALIVE") : obj[proxies[a]].proto = p})]
  /\ UNCHANGED <<obj, proxies, aliveIDs, deadTimes>>

\* The copies DirtyAll returns, and the heap once the flags are cleared.
DirtySet == {proxies[a] : a \in {b \in Addr : Exists(b) /\ obj[proxies[b]].dirty}}
Cleaned(h, S) == [o \in Obj |-> IF o \in S THEN [h[o] EXCEPT !.dirty = FALSE]
                                           ELSE h[o]]

DirtyAll ==
  /\ obj' = Cleaned(obj, DirtySet)
  /\ UNCHANGED <<proxies, aliveIDs, total, count, protoCount, deadTimes>>

\* Timestamps grow older than the hour that DetailedStats counts.
TimestampsAge ==
  /\ \E n \in 0..MaxDeadTimes : n < deadTimes /\ deadTimes' = n
  /\ UNCHANGED <<obj, proxies, aliveIDs, total, count, protoCount>>

-----------------------------------------------------------------------------
(* The pool and a caller that respects ownership: it fills a struct nobody *)
(* else holds and adds it, or adds again, unchanged, one the pool holds.   *)

InPool(o) == \E a \in Addr : proxies[a] = o

AddFresh(o, r) == ~InPool(o) /\ Add([obj EXCEPT ![o] = r], o)
AddAgain(o) == InPool(o) /\ Add(obj, o)

PoolInit ==
  /\ obj \in [Obj -> Proxy]
  /\ proxies = [a \in Addr |-> NoObj]
  /\ aliveIDs = {}
  /\ total = 0
  /\ count = [s \in Counted |-> 0]
  /\ protoCount = [p \in Protocol |-> 0]
  /\ deadTimes = 0

PoolNext ==
  \/ \E o \in Obj, r \in Given : AddFresh(o, r)
  \/ \E o \in Obj : AddAgain(o)
  \/ \E a \in Addr : Remove(a)
  \/ SeedCounters
  \/ DirtyAll
  \/ TimestampsAge

PoolSpec == PoolInit /\ [][PoolNext]_poolVars

-----------------------------------------------------------------------------
(* Properties *)

\* Types; no counter is ever negative.
PoolTypeOK ==
  /\ obj \in [Obj -> Proxy]
  /\ proxies \in [Addr -> Obj \cup {NoObj}]
  /\ aliveIDs \subseteq Addr
  /\ total \in Nat
  /\ count \in [Counted -> Nat]
  /\ protoCount \in [Protocol -> Nat]
  /\ deadTimes \in 0..MaxDeadTimes

\* The key a struct is filed under is the id of that struct.
KeysMatch == \A a \in Addr : Exists(a) => obj[proxies[a]].addr = a

\* The incremental counters of Add and Remove agree with a recount of the
\* whole map ("adjusts the atomic counters based on state transitions").
CountersExact ==
  /\ total = Cardinality({a \in Addr : Exists(a)})
  /\ \A s \in Counted : count[s] = Cardinality(IdsIn(obj, proxies, s))

\* aliveIDs is rebuilt often enough: it always lists exactly the ids whose
\* struct is ALIVE, although Add and Remove rebuild it only on some paths.
RotationExact == aliveIDs = IdsIn(obj, proxies, "ALIVE")

AliveWith(p) == {a \in IdsIn(obj, proxies, "ALIVE") : obj[proxies[a]].proto = p}

\* "Protocol counts per alive proxy" (pool.go:50).
ProtoCountsExact ==
  \A p \in Protocol : protoCount[p] = Cardinality(AliveWith(p))

-----------------------------------------------------------------------------
(* Refinement *)

Unknown == [proto |-> "none", state |-> "none", ok |-> 0, fail |-> 0]
Known(p) == [proto |-> p.proto, state |-> p.state, ok |-> p.ok, fail |-> p.fail]

Table == [a \in Addr |-> IF Exists(a) THEN Known(obj[proxies[a]]) ELSE Unknown]
Figures == [total |-> total, count |-> count, protocols |-> protoCount]
Reports == [a \in Addr |-> {Known(r) : r \in {g \in Given : g.addr = a}}]

Contract == INSTANCE PoolContract WITH
  entry <- Table, stats <- Figures, rotation <- aliveIDs, Offered <- Reports

\* Every operation of the pool, its figures included, is an operation of
\* PoolContract or changes nothing there: the incremental counters and the
\* cached ids are never seen to differ from the table, and adding a
\* DISCOVERED struct again loses nothing of what was learnt.  What may be put in
\* the table is what a caller hands over, never a mixture of two reports.
ImplementsContract == Contract!Spec
=============================================================================
