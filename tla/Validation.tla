----------------------------- MODULE Validation -----------------------------
(***************************************************************************)
(* internal/validator/validator.go over internal/pool/pool.go: the workers *)
(* that probe candidates, the keepalive loop that probes pooled proxies    *)
(* again, and the pool they share.                                         *)
(*                                                                         *)
(* A candidate is a pointer, and pool.Add keeps it.  The keepalive loop    *)
(* takes that same pointer back out with pool.All and validateOne writes   *)
(* through it without the pool's lock, so the struct changes inside the    *)
(* pool before Add is called.  validateOne is therefore several steps of   *)
(* the thread that runs it, and Add is two, with the mutex held between    *)
(* them: where it has read the previous entry, and where it has read the   *)
(* new state and brought counters and ids up to date.                      *)
(*                                                                         *)
(* Adjacent plain writes to one struct are one step; reading a streak and  *)
(* writing it back are two.  Time is not modelled: any time may pass       *)
(* between two steps, so a tick may come at any moment and a struct in     *)
(* line for a retry may be due or not.  The scanner appears as Emit, which *)
(* sends one new struct.                                                   *)
(***************************************************************************)
EXTENDS Pool, Sequences

CONSTANTS
  Worker,           \* goroutines of Run
  KaWorker,         \* dedicated keepalive goroutines; may be empty
  Coord, NoThread,  \* the keepalive loop itself, and nobody
  UseMainChannel,   \* validator.keepalive_use_main_channel
  MainCap, KaCap,   \* capacities of the proxy channel and of keepaliveCh
  RetryValidating,  \* retries per cycle (100 in the code)
  RetryDead,        \* retries per cycle (50 in the code)
  Supported,        \* protocols createTransport has a case for
  Stored,           \* what LoadAll may return: functions from structs to Given
  MaxTicks,         \* bound: keepalive cycles, when CountTicks
  CountTicks,
  CanCancel         \* whether a signal may cancel the context

Thread == Worker \cup KaWorker \cup {Coord}
Parallel == KaWorker # {} \/ UseMainChannel

ASSUME ValidationAssumption ==
  /\ Coord \notin Worker \cup KaWorker
  /\ Worker \cap KaWorker = {}
  /\ NoThread \notin Thread
  /\ UseMainChannel \in BOOLEAN /\ CountTicks \in BOOLEAN /\ CanCancel \in BOOLEAN
  /\ MainCap \in Nat \ {0} /\ KaCap \in Nat \ {0}
  /\ RetryValidating \in Nat /\ RetryDead \in Nat /\ MaxTicks \in Nat
  /\ Supported \subseteq Protocol
  /\ \E r \in Given : r.state = "DISCOVERED"   \* what the scanner's parsers make
  \* SaveBatch stores what the pool holds, which is never DISCOVERED.
  /\ \A l \in Stored : /\ DOMAIN l \subseteq Obj
                      /\ \A o \in DOMAIN l : l[o] \in Given /\ l[o].state # "DISCOVERED"

VARIABLES
  th,      \* per thread: where it is in validateOne and what it holds
  lock,    \* who holds the pool's write lock between two steps
  mainCh,  \* the proxy channel
  kaCh,    \* keepaliveCh
  coord,   \* the keepalive loop: phase, structs still to visit, retries done
  ctx,     \* "live" or "cancelled"
  born,    \* structs allocated so far; Obj bounds how many there will be
  ticks

engineVars == <<th, lock, mainCh, kaCh, coord, ctx, born, ticks>>
vars == <<poolVars, engineVars>>

-----------------------------------------------------------------------------
(* Start: main loads the stored proxies, adds each and seeds the counters *)

IdleThread == [pc |-> "idle", o |-> NoObj, tmp |-> 0,
               existed |-> FALSE, from |-> "DISCOVERED"]

Blank == CHOOSE r \in Given : r.state = "DISCOVERED"

LoadedHeap(l) == [o \in Obj |-> IF o \in DOMAIN l
                                THEN [l[o] EXCEPT !.dirty = TRUE] ELSE Blank]
LoadedMap(l) == [a \in Addr |->
  IF \E o \in DOMAIN l : l[o].addr = a
  THEN CHOOSE o \in DOMAIN l : l[o].addr = a ELSE NoObj]

Init ==
  /\ \E l \in Stored :
       /\ obj = LoadedHeap(l)
       /\ proxies = LoadedMap(l)
       /\ born = DOMAIN l
  /\ aliveIDs = IdsIn(obj, proxies, "ALIVE")
  /\ total = Cardinality({a \in Addr : Exists(a)})
  /\ count = [s \in Counted |-> Cardinality(IdsIn(obj, proxies, s))]
  /\ protoCount = [p \in Protocol |-> Cardinality(AliveWith(p))]
  /\ deadTimes = LET n == Cardinality(IdsIn(obj, proxies, "DEAD"))
                 IN  IF n <= MaxDeadTimes THEN n ELSE MaxDeadTimes
  /\ th = [t \in Thread |-> IdleThread]
  /\ lock = NoThread
  /\ mainCh = <<>> /\ kaCh = <<>>
  /\ coord = [phase |-> "waiting", todo |-> {}, done |-> 0]
  /\ ctx = "live"
  /\ ticks = 0

-----------------------------------------------------------------------------
(* The scanner's side of the channel *)

ReissuedToo(o) == TRUE   \* mutant: the scanner sends a struct it sent before
Unissued(o) == o \notin born

\* A push may still succeed after the signal: its select picks any ready case.
Emit(o, r) ==
  /\ Unissued(o)
  /\ r.state = "DISCOVERED"
  /\ Len(mainCh) < MainCap
  /\ obj' = [obj EXCEPT ![o] = r]
  /\ mainCh' = Append(mainCh, o)
  /\ born' = born \cup {o}
  /\ UNCHANGED <<proxies, aliveIDs, total, count, protoCount, deadTimes,
                 th, lock, kaCh, coord, ctx, ticks>>

-----------------------------------------------------------------------------
(* validateOne *)

\* Nothing changes but structs and the position of a thread.
OnlyStruct ==
  UNCHANGED <<proxies, aliveIDs, total, count, protoCount, deadTimes,
              lock, mainCh, kaCh, coord, ctx, born, ticks>>

Unmarked(o) == obj   \* mutant

Marked(o) == [obj EXCEPT ![o].state = "VALIDATING"]
Holding(t, o) == [th EXCEPT ![t] = [@ EXCEPT !.pc = "probing", !.o = o]]

\* A worker takes a candidate off its channel and marks it VALIDATING.
Receive(t) ==
  /\ t \in Worker /\ th[t].pc = "idle" /\ mainCh # <<>>
  /\ obj' = Marked(Head(mainCh))
  /\ th' = Holding(t, Head(mainCh))
  /\ mainCh' = Tail(mainCh)
  /\ UNCHANGED <<proxies, aliveIDs, total, count, protoCount, deadTimes,
                 lock, kaCh, coord, ctx, born, ticks>>

ReceiveKa(t) ==
  /\ t \in KaWorker /\ th[t].pc = "idle" /\ kaCh # <<>>
  /\ obj' = Marked(Head(kaCh))
  /\ th' = Holding(t, Head(kaCh))
  /\ kaCh' = Tail(kaCh)
  /\ UNCHANGED <<proxies, aliveIDs, total, count, protoCount, deadTimes,
                 lock, mainCh, coord, ctx, born, ticks>>

Capped(n, max) == IF n < max THEN n + 1 ELSE max

\* createTransport; how a transport talks to its proxy is part of the probe's
\* outcome.
HasTransport(p) == p.proto \in Supported

\* The probe answers well; ConsecutiveOK is read for its increment.
ProbePasses(t) ==
  LET o == th[t].o IN
  /\ th[t].pc = "probing"
  /\ HasTransport(obj[o])
  /\ th' = [th EXCEPT ![t].pc = "passed", ![t].tmp = Capped(obj[o].ok, MaxStreak)]
  /\ OnlyStruct /\ UNCHANGED obj

\* It errs, times out, is cancelled, has a bad status or shows our own
\* address, or the protocol has no transport: handleFailure begins.
ProbeFails(t) ==
  LET o == th[t].o IN
  /\ th[t].pc = "probing"
  /\ th' = [th EXCEPT ![t].pc = "failed", ![t].tmp = Capped(obj[o].fail, MaxFails)]
  /\ OnlyStruct /\ UNCHANGED obj

Passed(p, n) == [p EXCEPT !.ok = n, !.fail = 0, !.state = "ALIVE"]

JudgedKeepsOK(p) ==   \* mutant: the streak of successes outlives the proxy
  IF p.fail >= MaxFails THEN [p EXCEPT !.state = "DEAD"] ELSE p
Judged(p) == IF p.fail >= MaxFails THEN [p EXCEPT !.state = "DEAD", !.ok = 0] ELSE p

FailedNotAdded(p) == IF p.state = "ALIVE" THEN "adding" ELSE "idle"   \* mutant
AfterRecord(p) == "adding"   \* both outcomes end in pool.Add

Writes(t, p, next) ==
  /\ obj' = [obj EXCEPT ![th[t].o] = p]
  /\ th' = [th EXCEPT ![t].pc = next, ![t].tmp = 0]
  /\ OnlyStruct

RecordPass(t) ==
  LET p == Passed(obj[th[t].o], th[t].tmp) IN
  th[t].pc = "passed" /\ Writes(t, p, AfterRecord(p))

\* handleFailure writes the longer streak, and counts the failure in two atomics.
CountFail(t) ==
  th[t].pc = "failed" /\ Writes(t, [obj[th[t].o] EXCEPT !.fail = th[t].tmp], "judging")

\* Then it reads the streak again, which another thread may have written, and decides.
Judge(t) ==
  LET p == Judged(obj[th[t].o]) IN
  th[t].pc = "judging" /\ Writes(t, p, AfterRecord(p))

Record(t) == RecordPass(t) \/ CountFail(t) \/ Judge(t)

\* pool.Add takes the lock and looks up the previous entry.
LockAdd(t) ==
  LET o == th[t].o
      a == obj[o].addr
      g == Merge(obj, o)
  IN
  /\ th[t].pc = "adding" /\ lock = NoThread
  /\ lock' = t
  /\ obj' = g
  /\ total' = TotalAfterAdd(a)
  /\ th' = [th EXCEPT ![t].pc = "publishing", ![t].existed = Exists(a),
                      ![t].from = PrevState(g, a)]
  /\ UNCHANGED <<proxies, aliveIDs, count, protoCount, deadTimes,
                 mainCh, kaCh, coord, ctx, born, ticks>>

\* pool.Add reads the new state, publishes, unlocks; validateOne returns.
CommitAdd(t) ==
  /\ th[t].pc = "publishing"
  /\ Publish(obj, th[t].o, th[t].existed, th[t].from)
  /\ th' = [th EXCEPT ![t] = IdleThread]
  /\ lock' = NoThread
  /\ UNCHANGED <<total, mainCh, kaCh, coord, ctx, born, ticks>>

-----------------------------------------------------------------------------
(* The keepalive loop *)

WantedNeverStuck ==   \* mutant: both retry loops look for DEAD
  IF coord.phase = "alive" THEN "ALIVE" ELSE "DEAD"

Wanted == CASE coord.phase = "alive"      -> "ALIVE"
            [] coord.phase = "validating" -> "VALIDATING"
            [] coord.phase = "dead"       -> "DEAD"
            [] OTHER                      -> "none"

Cap == IF coord.phase = "validating" THEN RetryValidating ELSE RetryDead

Pooled == {proxies[a] : a \in {b \in Addr : Exists(b)}}

\* Structs of the pool that collectAliveProxies returns, or All where the loop
\* looks at the state of each as it comes to it.
FirstVisits ==
  IF Parallel THEN {o \in Pooled : obj[o].state = "ALIVE"} ELSE Pooled

Visiting(o) == /\ th[Coord].pc = "idle" /\ o \in coord.todo
               /\ coord.phase = "alive" \/ coord.done < Cap

Visited(o) == [coord EXCEPT !.todo = @ \ {o}]

Tick ==
  /\ coord.phase = "waiting" /\ lock = NoThread
  /\ CountTicks => ticks < MaxTicks
  /\ ticks' = IF CountTicks THEN ticks + 1 ELSE ticks
  /\ coord' = [phase |-> "alive", todo |-> FirstVisits, done |-> 0]
  /\ UNCHANGED <<poolVars, th, lock, mainCh, kaCh, ctx, born>>

\* The loop validates a struct itself: any it wants when it is sequential,
\* otherwise only those it retries.
Visit(o) ==
  /\ Visiting(o) /\ obj[o].state = Wanted /\ ctx = "live"
  /\ coord.phase = "alive" => ~Parallel
  /\ obj' = Marked(o)
  /\ th' = Holding(Coord, o)
  /\ coord' = [Visited(o) EXCEPT !.done = IF coord.phase = "alive" THEN 0 ELSE @ + 1]
  /\ UNCHANGED <<proxies, aliveIDs, total, count, protoCount, deadTimes,
                 lock, mainCh, kaCh, ctx, born, ticks>>

\* It passes over a struct in another state, and over a retry checked less
\* than 60 s ago (VALIDATING) or more than an hour ago (DEAD).
Skip(o) ==
  /\ Visiting(o)
  /\ \/ coord.phase = "alive" /\ ~Parallel /\ obj[o].state # "ALIVE"
     \/ coord.phase # "alive"
  /\ coord' = Visited(o)
  /\ UNCHANGED <<poolVars, th, lock, mainCh, kaCh, ctx, born, ticks>>

\* In parallel mode it hands the ALIVE structs on, whatever they are by now.
HandOver(o) ==
  /\ Visiting(o) /\ coord.phase = "alive" /\ Parallel /\ ctx = "live"
  /\ coord' = Visited(o)
  /\ th' = [th EXCEPT ![Coord] =
       [@ EXCEPT !.o = o, !.pc = IF KaWorker # {} THEN "sendKa" ELSE "sendMain"]]
  /\ UNCHANGED <<poolVars, lock, mainCh, kaCh, ctx, born, ticks>>

KaUnbounded == TRUE   \* mutant
KaRoomShort == Len(kaCh) + 1 < KaCap   \* mutant
KaRoom == Len(kaCh) < KaCap

\* The send on keepaliveCh blocks while the channel is full.
SendKa ==
  /\ th[Coord].pc = "sendKa" /\ KaRoom
  /\ kaCh' = Append(kaCh, th[Coord].o)
  /\ th' = [th EXCEPT ![Coord] = IF UseMainChannel THEN [@ EXCEPT !.pc = "sendMain"]
                                                   ELSE IdleThread]
  /\ UNCHANGED <<poolVars, lock, mainCh, coord, ctx, born, ticks>>

\* The push to the main channel gives up when that is full.
SendMain ==
  /\ th[Coord].pc = "sendMain"
  /\ mainCh' = IF Len(mainCh) < MainCap THEN Append(mainCh, th[Coord].o) ELSE mainCh
  /\ th' = [th EXCEPT ![Coord] = IdleThread]
  /\ UNCHANGED <<poolVars, lock, kaCh, coord, ctx, born, ticks>>

PhaseOver == /\ th[Coord].pc = "idle"
             /\ \/ coord.todo = {}
                \/ coord.phase # "alive" /\ coord.done >= Cap

\* The next loop takes a new copy of the map, under the read lock.
NextPhase ==
  /\ PhaseOver
  /\ \/ /\ coord.phase \in {"alive", "validating"} /\ lock = NoThread
        /\ coord' = [phase |-> IF coord.phase = "alive" THEN "validating" ELSE "dead",
                     todo |-> Pooled, done |-> 0]
     \/ /\ coord.phase = "dead"
        /\ coord' = [phase |-> "waiting", todo |-> {}, done |-> 0]
  /\ UNCHANGED <<poolVars, th, lock, mainCh, kaCh, ctx, born, ticks>>

-----------------------------------------------------------------------------
(* Shutdown *)

Cancel ==
  /\ CanCancel /\ ctx = "live"
  /\ ctx' = "cancelled"
  /\ UNCHANGED <<poolVars, th, lock, mainCh, kaCh, coord, born, ticks>>

WaitsForClose(t) == FALSE   \* mutant: only a closed channel ends a worker

\* A worker looks at the context between two candidates only.
WorkerExits(t) ==
  /\ t \in Worker \cup KaWorker /\ th[t].pc = "idle" /\ ctx = "cancelled"
  /\ th' = [th EXCEPT ![t].pc = "exited"]
  /\ UNCHANGED <<poolVars, lock, mainCh, kaCh, coord, ctx, born, ticks>>

\* The loop looks at it while it waits and before each struct it would work on.
CoordExits ==
  /\ ctx = "cancelled" /\ th[Coord].pc = "idle"
  /\ \/ coord.phase = "waiting"
     \/ \E o \in coord.todo : /\ Visiting(o)
                              /\ \/ obj[o].state = Wanted
                                 \/ coord.phase = "alive" /\ Parallel
  /\ coord' = [phase |-> "exited", todo |-> {}, done |-> 0]
  /\ th' = [th EXCEPT ![Coord].pc = "exited"]
  /\ UNCHANGED <<poolVars, lock, mainCh, kaCh, ctx, born, ticks>>

-----------------------------------------------------------------------------

Step(t) == \/ Receive(t) \/ ReceiveKa(t)
           \/ ProbePasses(t) \/ ProbeFails(t) \/ Record(t)
           \/ CommitAdd(t) \/ WorkerExits(t)

LoopStep == \/ \E o \in Obj : Visit(o) \/ Skip(o) \/ HandOver(o)
            \/ SendKa \/ SendMain \/ CoordExits

Next ==
  \/ \E o \in Obj, r \in Given : Emit(o, r)
  \/ \E t \in Thread : Step(t) \/ LockAdd(t)
  \/ Tick \/ NextPhase \/ LoopStep
  \/ Cancel

Spec == Init /\ [][Next]_vars

\* The scheduler runs every goroutine that can run, a probe ends (its context
\* has a timeout) and the ticker fires.  The mutex starves nobody: SF where a
\* step needs it.  A struct due for a retry at infinitely many visits is retried
\* at some: cycles go on past the cooldown of 60 s, and the map's iteration order
\* is random, so neither the cooldown nor the cap excludes it for ever.
Fairness ==
  /\ \A t \in Thread : WF_vars(Step(t)) /\ SF_vars(LockAdd(t))
  /\ WF_vars(LoopStep) /\ SF_vars(Tick \/ NextPhase)
  /\ \A o \in Obj : SF_vars(Visit(o))

FairSpec == Spec /\ Fairness

-----------------------------------------------------------------------------
(* Properties *)

Queued(q) == {q[i] : i \in 1..Len(q)}

\* Types.  A counter may be negative here: the previous state that Add subtracts
\* is whatever the struct says by then, not what was once added for it.
TypeOK ==
  /\ obj \in [Obj -> Proxy]
  /\ proxies \in [Addr -> Obj \cup {NoObj}]
  /\ aliveIDs \subseteq Addr
  /\ total \in Nat /\ count \in [Counted -> Int]
  /\ protoCount \in [Protocol -> Nat] /\ deadTimes \in 0..MaxDeadTimes
  /\ \A t \in Thread :
       /\ th[t].pc \in {"idle", "probing", "passed", "failed", "judging", "adding",
                        "publishing", "sendKa", "sendMain", "exited"}
       /\ th[t].o \in born \cup {NoObj}
       /\ th[t].o = NoObj <=> th[t].pc \in {"idle", "exited"}
       /\ th[t].pc = "publishing" <=> lock = t
  /\ Len(mainCh) <= MainCap /\ Queued(mainCh) \subseteq born
  /\ Len(kaCh) <= KaCap /\ Queued(kaCh) \subseteq born
  /\ coord.phase \in {"waiting", "alive", "validating", "dead", "exited"}
  /\ coord.todo \subseteq Pooled \cup born

\* No thread is between the two steps of Add.
AtRest == lock = NoThread

Working(o) == {t \in Thread : th[t].o = o /\ th[t].pc \notin {"sendKa", "sendMain"}}

\* Nobody is working on what the pool holds under a.
Settled(a) == AtRest /\ Working(proxies[a]) = {}

\* Whatever order the threads' unlocked writes fall in, total is the number of
\* entries and the three state counters add up to it: each Add moves one unit
\* from a counted state to a counted state, or brings one in.
SumConserved ==
  AtRest => /\ total = Cardinality({a \in Addr : Exists(a)})
            /\ total = count["ALIVE"] + count["VALIDATING"] + count["DEAD"]

\* ALIVE is "Confirmed working. Available via /proxy, /proxies, /rotate."
\* (README.md:318), DEAD is "Removed from rotation." (README.md:319): of the
\* proxies nobody is working on, those that are ALIVE are on offer, and those that
\* are DEAD are not.
RotationFollows ==
  \A a \in Addr : (Exists(a) /\ Settled(a)) =>
    /\ obj[proxies[a]].state = "ALIVE" => a \in aliveIDs
    /\ obj[proxies[a]].state = "DEAD" => a \notin aliveIDs

\* The pipeline until the first keepalive cycle begins: figures and ids on offer
\* are those of the map whenever no Add is under way, through rediscoveries of
\* proxies in any state and with several workers.
PipelineExact ==
  (ticks = 0 /\ AtRest) => CountersExact /\ RotationExact /\ ProtoCountsExact

\* A struct is in the hands of one thread at a time ("Each proxy is
\* re-validated exactly once (no duplicate work)", README.md:97): nothing
\* else protects the plain writes of validateOne.
SingleValidator == \A o \in Obj : Cardinality(Working(o)) <= 1

\* A state is earned: a proxy is DEAD only after MaxFails failures in a row and
\* then has no successes to its name, ALIVE only after a success with no
\* failure since.
StateEarned ==
  \A o \in born : /\ obj[o].state = "DEAD" => obj[o].fail = MaxFails /\ obj[o].ok = 0
                  /\ obj[o].state = "ALIVE" => obj[o].fail = 0 /\ obj[o].ok > 0

\* No struct reaches the pool in state DISCOVERED, so the branch of Add that
\* carries history over from the previous entry never runs in this program.
NeverDiscovered == \A a \in Addr : Exists(a) => obj[proxies[a]].state # "DISCOVERED"

\* "Re-discovered proxies with accumulated validation state are preserved"
\* (pool.go:69): a struct that replaces another has passed its probe, or has
\* at least the failures of the one it replaces.
HistoryKept ==
  [][\A a \in Addr :
       (Exists(a) /\ proxies'[a] # proxies[a]) =>
          obj'[proxies'[a]].fail = 0
          \/ obj'[proxies'[a]].fail >= obj[proxies[a]].fail]_vars

\* A candidate on the channel ends up as an entry of the pool.
CandidateLands ==
  \A o \in Obj : (ctx = "live" /\ o \in Queued(mainCh)) ~>
                   (ctx = "cancelled" \/ Exists(obj[o].addr))

\* A proxy that failed, but too seldom to be dead, does not stay VALIDATING for
\* ever: retries make it ALIVE or DEAD.
StuckResolved ==
  \A a \in Addr :
    (Exists(a) /\ obj[proxies[a]].state = "VALIDATING") ~>
      \/ ctx = "cancelled"
      \/ Exists(a) /\ obj[proxies[a]].state \in {"ALIVE", "DEAD"}

\* A keepalive cycle ends, although it sends on a bounded channel and takes the
\* pool's lock, and the next one can begin.
CycleEnds == (coord.phase # "waiting") ~> (coord.phase = "waiting" \/ ctx = "cancelled")

\* After a signal every worker of Run returns.
WorkersStop == (ctx = "cancelled") ~> (\A t \in Worker : th[t].pc = "exited")
=============================================================================
