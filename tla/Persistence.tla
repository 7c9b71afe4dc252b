---------------------------- MODULE Persistence ----------------------------
(***************************************************************************)
(* cmd/proxier/main.go, internal/storage/sqlite.go and pool.DirtyAll: the  *)
(* flush loop, the last flush of a shutdown, the SQLite table, and a       *)
(* process that stops, crashes and starts again, over a pool whose structs *)
(* are being probed.                                                       *)
(*                                                                         *)
(* A flush is DirtyAll, which copies one struct after the other under the  *)
(* pool's read lock, and SaveBatch, one transaction.  The read lock keeps  *)
(* Add out.  It does not keep out validateOne, which writes to the struct  *)
(* being copied, nor a second flush: main's last flush may run beside the  *)
(* periodic one.                                                           *)
(*                                                                         *)
(* Abstracted: who probes (Validation has the workers and the loop; here   *)
(* they are counted, and nothing keeps two of them off one struct);        *)
(* counters and ids on offer, which are not saved (Pool, Validation); a    *)
(* row is the struct without its flag; begin, prepare, exec and commit of  *)
(* a transaction are one step, which fails or not (rollback undoes a       *)
(* part); the clock of the flush loop: a flush may begin at any time.      *)
(***************************************************************************)
EXTENDS Integers

CONSTANTS
  Addr,        \* host:port pairs; an id is the hash of one
  Obj, NoObj,  \* pointers to models.Proxy, and nil
  MaxOK,       \* bound: ConsecutiveOK saturates here (only 0 is told apart)
  MaxFails,    \* validator.max_consecutive_fails; ConsecutiveFail saturates
  MaxProbers,  \* goroutines that may validate one struct at a time, in parallel mode
  Signalled,   \* bound: the modes in which a signal comes
  NoRow,       \* no row under this id
  Slot         \* Slot[a]: the pointer LoadAll allocates for the row of a

Flusher == {"periodic", "final"}
Mode == {"sequential", "parallel"}

State == {"VALIDATING", "ALIVE", "DEAD"}

Proxy == [addr : Addr, state : State,
          ok : 0..MaxOK, fail : 0..MaxFails, dirty : BOOLEAN]

\* How many goroutines wait for their probe of a struct, how many have written a
\* verdict to it and wait to add it, and whether two were at it since it was idle.
Stage == {s \in [probing : 0..MaxProbers, adding : 0..MaxProbers, raced : BOOLEAN] :
            s.probing + s.adding <= MaxProbers}
At(n, m, b) == [probing |-> n, adding |-> m, raced |-> b]
Idle == At(0, 0, FALSE)

ASSUME PersistenceAssumption ==
  /\ Addr # {} /\ NoObj \notin Obj /\ NoRow \notin Proxy
  /\ MaxOK \in Nat \ {0} /\ MaxFails \in Nat \ {0} /\ MaxProbers \in Nat \ {0}
  /\ Signalled \subseteq Mode
  /\ Slot \in [Addr -> Obj]
  /\ \A a, b \in Addr : Slot[a] = Slot[b] => a = b

VARIABLES
  mode,     \* the keepalive configuration: "sequential" is KEEPALIVE_WORKERS=0 and no
            \* main channel, "parallel" any other
  obj,      \* the heap: what each pointer points at
  proxies,  \* the pool's map id -> pointer, NoObj where the id is absent
  proc,     \* "down" or "up"
  ctx,      \* "live" or "cancelled"
  stage,    \* per struct: who is at it
  known,    \* structs the pool has held: the loop and its channels may hold them
  table,    \* the proxies table, by id
  flush,    \* per flusher: where it is, ids to visit, the batch it has copied
  lost,     \* history: ids whose last batch failed
  overlap,  \* history: the two flushes of this process ran at the same time
  torn,     \* history: ids copied once while their struct changed
  shared    \* history: ids one of whose structs had two probers at a time

procVars == <<mode, proc, ctx, proxies, stage, known, shared>>
diskVars == <<table, flush, lost, overlap, torn>>
storeVars == <<obj, procVars, diskVars>>

Exists(a) == proxies[a] # NoObj
InPool(o) == \E a \in Addr : proxies[a] = o

RowAsItIs(r) == r   \* mutant: the copy keeps the flag
RowOf(r) == [r EXCEPT !.dirty = FALSE]

EmptyBatch == [a \in {} |-> NoRow]
IdleFlush == [pc |-> "idle", todo |-> {}, batch |-> EmptyBatch]

InBatch(f, a) == a \in DOMAIN flush[f].batch

\* Flushes that hold the read lock, and flushes under way.
Readers == {f \in Flusher : flush[f].pc \in {"scan", "copying", "copied"}}
Active == {f \in Flusher : flush[f].pc \notin {"idle", "done"}}

NewProxy(a) ==
  [addr |-> a, state |-> "VALIDATING", ok |-> 0, fail |-> 0, dirty |-> FALSE]
Unused == NewProxy(CHOOSE a \in Addr : TRUE)

Probers(o) == stage[o].probing + stage[o].adding

-----------------------------------------------------------------------------
(* The process starts, and stops *)

MemoryMap(l) == [a \in Addr |-> IF a \in l THEN Slot[a] ELSE NoObj]

\* main adds the rows of l, the ids LoadAll returned, and calls SeedCounters.
Memory(l) ==
  /\ proxies' = MemoryMap(l)
  /\ obj' = [o \in Obj |->
       IF \E a \in l : Slot[a] = o
       THEN [table[CHOOSE a \in l : Slot[a] = o] EXCEPT !.dirty = TRUE] ELSE Unused]
  /\ stage' = [o \in Obj |-> Idle]
  /\ known' = {Slot[a] : a \in l}
  /\ ctx' = "live"
  /\ flush' = [f \in Flusher |-> IdleFlush]
  /\ lost' = {} /\ overlap' = FALSE

StoredIds == {a \in Addr : table[a] # NoRow}

\* A load that fails is only logged, and leaves the pool empty.
Boot ==
  /\ proc = "down"
  /\ Memory(StoredIds) \/ Memory({})
  /\ proc' = "up"
  /\ UNCHANGED <<mode, shared, table, torn>>

\* What a process that is not running holds: an empty pool stands for it.
Stop == /\ proc = "up"
        /\ Memory({})
        /\ proc' = "down"
        /\ UNCHANGED <<mode, shared, table, torn>>

\* The process dies at any moment; a batch that is not committed is gone.
Crash == Stop

\* main returns after its last flush, and waits for no other goroutine.
Return == flush["final"].pc = "done" /\ Stop

Signal == /\ proc = "up" /\ ctx = "live" /\ mode \in Signalled
          /\ ctx' = "cancelled"
          /\ UNCHANGED <<obj, mode, proxies, proc, stage, known, shared, diskVars>>

-----------------------------------------------------------------------------
(* validateOne, and the pool.Add at its end *)

\* validateOne takes no lock on the struct.  What the sequential loop takes from the
\* pool no worker can take; otherwise another goroutine may be at it.
Crew == IF mode = "parallel" THEN MaxProbers ELSE 1

Begins(o, r) ==
  /\ proc = "up" /\ Probers(o) < Crew
  /\ obj' = [obj EXCEPT ![o] = [r EXCEPT !.state = "VALIDATING"]]
  /\ stage' = [stage EXCEPT ![o] =
                  At(@.probing + 1, @.adding, @.raced \/ Probers(o) > 0)]
  /\ shared' = IF Probers(o) > 0 THEN shared \cup {r.addr} ELSE shared
  /\ UNCHANGED <<mode, proxies, proc, ctx, diskVars>>

\* A worker takes a candidate, a struct only it knows, perhaps after the signal: its
\* select picks any case that is ready.
Discover(o, a) ==
  /\ ~InPool(o) /\ stage[o] = Idle
  /\ Begins(o, NewProxy(a))
  /\ known' = known \ {o}

\* The loop, a keepalive worker or a worker takes a struct from a copy of the pool,
\* keepaliveCh or the main channel; the pool may have another one by now.
Recheck(o) == o \in known /\ Begins(o, obj[o]) /\ UNCHANGED known

OneMore(n, max) == IF n < max THEN n + 1 ELSE max

ProbedOK(p) == [p EXCEPT !.ok = OneMore(@, MaxOK), !.fail = 0, !.state = "ALIVE"]

DeadTooSoon(p) == [p EXCEPT !.fail = OneMore(@, MaxFails), !.state = "DEAD"]  \* mutant

ProbedBad(p) ==
  LET n == OneMore(p.fail, MaxFails)
  IN  IF n >= MaxFails THEN [p EXCEPT !.fail = n, !.state = "DEAD", !.ok = 0]
                       ELSE [p EXCEPT !.fail = n]

\* The streaks of one of these and the state of one: what is left of writes, or
\* found by reads, that nothing keeps apart.
Mixtures(S) == {[x EXCEPT !.state = y.state] : x \in S, y \in S}

\* A goroutine that is not alone may lose its writes, in part or all of them.
Verdicts(o) ==
  LET fair == {ProbedOK(obj[o]), ProbedBad(obj[o])}
  IN  IF stage[o].raced THEN Mixtures(fair \cup {obj[o]}) ELSE fair

\* The outcome is written to the struct, which the pool may hold.  A signal cancels
\* the probe, and that is a failure like any other.
Verdict(o) ==
  /\ stage[o].probing > 0
  /\ \E p \in Verdicts(o) : obj' = [obj EXCEPT ![o] = p]
  /\ stage' = [stage EXCEPT ![o] = At(@.probing - 1, @.adding + 1, @.raced)]
  /\ UNCHANGED <<mode, proxies, proc, ctx, known, shared, diskVars>>

OneLess(s) ==
  IF s.probing + s.adding = 1 THEN Idle ELSE At(s.probing, s.adding - 1, s.raced)

\* pool.Add, under the write lock.
AddProbed(o) ==
  /\ stage[o].adding > 0 /\ Readers = {}
  /\ proxies' = [proxies EXCEPT ![obj[o].addr] = o]
  /\ obj' = [obj EXCEPT ![o].dirty = TRUE]
  /\ stage' = [stage EXCEPT ![o] = OneLess(@)]
  /\ known' = known \cup {o}
  /\ UNCHANGED <<mode, proc, ctx, shared, diskVars>>

-----------------------------------------------------------------------------
(* A flush *)

OnlyFlush == UNCHANGED <<obj, procVars, table>>

\* DirtyAll takes the read lock.  The periodic loop may start once more after
\* the signal.
StartFlush(f) ==
  /\ proc = "up" /\ flush[f].pc = "idle"
  /\ f = "final" => ctx = "cancelled"
  /\ flush' = [flush EXCEPT ![f] = [pc |-> "scan", batch |-> EmptyBatch,
                                    todo |-> {a \in Addr : Exists(a)}]]
  /\ overlap' = (overlap \/ Active # {})
  /\ OnlyFlush /\ UNCHANGED <<lost, torn>>

SkipClean(f, a) ==
  /\ flush[f].pc = "scan" /\ a \in flush[f].todo /\ ~obj[proxies[a]].dirty
  /\ flush' = [flush EXCEPT ![f].todo = @ \ {a}]
  /\ OnlyFlush /\ UNCHANGED <<lost, overlap, torn>>

With(b, a, r) == [x \in DOMAIN b \cup {a} |-> IF x = a THEN r ELSE b[x]]

BeginCopy(f, a) ==
  /\ flush[f].pc = "scan" /\ a \in flush[f].todo /\ obj[proxies[a]].dirty
  /\ flush' = [flush EXCEPT ![f].pc = "copying",
                            ![f].batch = With(@, a, RowOf(obj[proxies[a]]))]
  /\ OnlyFlush /\ UNCHANGED <<lost, overlap, torn>>

Copying(f, a) == a \in flush[f].todo /\ InBatch(f, a)

\* A struct is copied word by word: state and streaks may be read early or late.
EndCopy(f, a) ==
  /\ flush[f].pc = "copying" /\ Copying(f, a)
  /\ \E r \in Mixtures({flush[f].batch[a], RowOf(obj[proxies[a]])}) :
       /\ flush' = [flush EXCEPT ![f].pc = "copied", ![f].batch[a] = r]
       /\ torn' = IF r \in {flush[f].batch[a], RowOf(obj[proxies[a]])}
                  THEN torn ELSE torn \cup {a}
  /\ OnlyFlush /\ UNCHANGED <<lost, overlap>>

ClearFlag(f, a) ==
  /\ flush[f].pc = "copied" /\ Copying(f, a)
  /\ obj' = [obj EXCEPT ![proxies[a]].dirty = FALSE]
  /\ flush' = [flush EXCEPT ![f].pc = "scan", ![f].todo = @ \ {a}]
  /\ UNCHANGED <<procVars, table, lost, overlap, torn>>

FlushOnce(f) == "done"   \* mutant: the loop runs once
NeverDone(f) == "idle"   \* mutant: main does not go on after its last flush
AfterFlush(f) == IF f = "final" THEN "done" ELSE "idle"

\* The read lock is released; nothing to save is the end of this flush.
EndScan(f) ==
  /\ flush[f].pc = "scan" /\ flush[f].todo = {}
  /\ flush' = [flush EXCEPT ![f].pc = IF flush[f].batch = EmptyBatch
                                      THEN AfterFlush(f) ELSE "saving"]
  /\ OnlyFlush /\ UNCHANGED <<lost, overlap, torn>>

ClearAgain(b) ==   \* mutant
  [o \in Obj |-> [obj[o] EXCEPT !.dirty = @ /\ o \notin {proxies[a] : a \in DOMAIN b}]]
FlagsAfterSave(b) == obj   \* DirtyAll has cleared them; nothing else does

FlushOver(f) == [flush EXCEPT ![f] = [IdleFlush EXCEPT !.pc = AfterFlush(f)]]

\* SaveBatch commits: every row of the batch replaces the one it finds.
Commit(f) ==
  /\ flush[f].pc = "saving"
  /\ table' = [a \in Addr |-> IF InBatch(f, a) THEN flush[f].batch[a] ELSE table[a]]
  /\ obj' = FlagsAfterSave(flush[f].batch)
  /\ lost' = lost \ DOMAIN flush[f].batch
  /\ flush' = FlushOver(f)
  /\ UNCHANGED <<procVars, overlap, torn>>

\* SaveBatch fails and is rolled back; persistPool logs it, the flags stay clear.
SaveFails(f) ==
  /\ flush[f].pc = "saving"
  /\ lost' = lost \cup DOMAIN flush[f].batch
  /\ flush' = FlushOver(f)
  /\ OnlyFlush /\ UNCHANGED <<overlap, torn>>

\* The flush loop returns.
PeriodicStops ==
  /\ ctx = "cancelled" /\ flush["periodic"].pc = "idle"
  /\ flush' = [flush EXCEPT !["periodic"].pc = "done"]
  /\ OnlyFlush /\ UNCHANGED <<lost, overlap, torn>>

-----------------------------------------------------------------------------

StoreInit ==
  /\ mode \in Mode
  /\ obj = [o \in Obj |-> Unused]
  /\ proxies = [a \in Addr |-> NoObj]
  /\ proc = "down" /\ ctx = "live" /\ stage = [o \in Obj |-> Idle]
  /\ table = [a \in Addr |-> NoRow]
  /\ flush = [f \in Flusher |-> IdleFlush]
  /\ known = {} /\ lost = {} /\ overlap = FALSE /\ torn = {} /\ shared = {}

FlushStep(f) ==
  \/ \E a \in Addr : SkipClean(f, a) \/ BeginCopy(f, a) \/ EndCopy(f, a) \/ ClearFlag(f, a)
  \/ EndScan(f) \/ Commit(f) \/ SaveFails(f)

StoreNext ==
  \/ Boot \/ Crash \/ Return \/ Signal
  \/ \E o \in Obj, a \in Addr : Discover(o, a)
  \/ \E o \in Obj : Recheck(o) \/ Verdict(o) \/ AddProbed(o)
  \/ \E f \in Flusher : StartFlush(f) \/ FlushStep(f)
  \/ PeriodicStops

StoreSpec == StoreInit /\ [][StoreNext]_storeVars

\* The timer of the loop fires, a flush under way goes on, and main gets to its last
\* flush and to its end.  No probe has to end, neither signals, crashes nor restarts
\* are fair, and a save may fail every time.
StoreFairness ==
  /\ \A f \in Flusher : WF_storeVars(StartFlush(f) \/ FlushStep(f))
  /\ WF_storeVars(Return)

FairStoreSpec == StoreSpec /\ StoreFairness

-----------------------------------------------------------------------------
(* Properties *)

Settled(a) == Exists(a) /\ stage[proxies[a]] = Idle
InFlight(a) == \E f \in Flusher : InBatch(f, a)

\* What the pool holds under a is what the table holds.
Saved(a) == Exists(a) /\ table[a] = RowOf(obj[proxies[a]])

\* Types; a batch under way and the table file every row under its own id.
StoreTypeOK ==
  /\ obj \in [Obj -> Proxy]
  /\ proxies \in [Addr -> Obj \cup {NoObj}]
  /\ \A a \in Addr : Exists(a) => obj[proxies[a]].addr = a
  /\ mode \in Mode /\ proc \in {"down", "up"} /\ ctx \in {"live", "cancelled"}
  /\ stage \in [Obj -> Stage]
  /\ table \in [Addr -> Proxy \cup {NoRow}]
  /\ \A a \in StoredIds : table[a].addr = a /\ ~table[a].dirty
  /\ \A f \in Flusher :
       /\ flush[f].pc \in {"idle", "scan", "copying", "copied", "saving", "done"}
       /\ flush[f].todo \subseteq {a \in Addr : Exists(a)}
       /\ DOMAIN flush[f].batch \subseteq Addr
       /\ \A a \in DOMAIN flush[f].batch :
            flush[f].batch[a] \in Proxy /\ flush[f].batch[a].addr = a
                                        /\ ~flush[f].batch[a].dirty
  /\ lost \subseteq Addr /\ torn \subseteq Addr /\ overlap \in BOOLEAN
  /\ known \subseteq Obj /\ shared \subseteq Addr

\* A clear flag means saved (DirtyAll "returns copies of every proxy that has been
\* modified since the last persistence flush, then clears the dirty flag",
\* pool.go:240-241): an entry whose flag is clear, which nobody is probing and
\* which is in no batch under way, is in the table as it is, although its struct
\* is written to while it is copied.  There are two exceptions, and no others: its
\* last batch failed, or the two flushes of a shutdown overlapped.
CleanIsSaved ==
  \A a \in Addr :
    (/\ Settled(a) /\ ~obj[proxies[a]].dirty
     /\ ~InFlight(a) /\ a \notin lost /\ ~overlap) => Saved(a)

Excused == torn \cup IF mode = "parallel" THEN shared ELSE {}

\* Whatever order crashes, restarts, failed batches and overlapping flushes come
\* in, a verdict in the table was earned: a row says DEAD only after MaxFails
\* failures in a row, and ALIVE only after a success with no failure since.  The
\* exception is a row that mixes two moments of a struct copied while a probe
\* wrote to it; and with keepalive workers or the main channel, where nothing
\* at validator.go:301 keeps two goroutines off one struct, a row of an address for
\* which that has happened.
RowsEarned ==
  \A a \in StoredIds \ Excused :
    /\ table[a].state = "DEAD" => table[a].fail = MaxFails /\ table[a].ok = 0
    /\ table[a].state = "ALIVE" => table[a].fail = 0 /\ table[a].ok > 0

\* In a process that keeps running, an entry nobody probes any more ends up in the
\* table as it is, unless its last batch failed: no change is left behind by a
\* flush that came at the wrong moment.
CatchesUp ==
  \A a \in Addr :
    <>[](proc = "up" /\ ctx = "live" /\ Settled(a)) => <>[](a \in lost \/ Saved(a))

\* After a signal the process ends: the last flush waits for no probe, and a save
\* that fails is not tried again.
ProcessEnds == (proc = "up" /\ ctx = "cancelled") ~> (proc = "down")
=============================================================================
