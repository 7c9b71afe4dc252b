------------------------------- MODULE Scanner -------------------------------
(***************************************************************************)
(* internal/scanner/scanner.go: the loop that fetches every source, drops  *)
(* the proxies it has seen within the deduplication TTL, and pushes the    *)
(* rest to the validator's channel without ever waiting for room.          *)
(*                                                                         *)
(* Both modes are here; main picks one for the life of the process.        *)
(*   interval    Run and runOnce: one source after the other, figures      *)
(*               updated before the push                                   *)
(*   continuous  RunContinuous, fetchAllSources, pushToChannel: a          *)
(*               goroutine per source behind a semaphore, figures updated  *)
(*               after the push                                            *)
(*                                                                         *)
(* Abstracted: a fetch yields an error or one of the lists Serves names,   *)
(* so downloads and parsers are choices; time is the age of each entry of  *)
(* the seen map in units of which the TTL is a small number; lastRun,      *)
(* nextRun and lastDurationMs are left out.                                *)
(***************************************************************************)
EXTENDS Integers, Sequences, FiniteSets, SequencesExt

CONSTANTS
  Sources,     \* sequence of the configured sources, in order
  Serves,      \* Serves[s]: the lists (sequences of Found) source s may serve
  Addr,        \* host:port keys
  Protocol,
  TTL,         \* dedupTTL
  MaxFetch,    \* size of the semaphore (5 in the code)
  Cap,         \* capacity of the proxy channel
  MaxCycles    \* bound: scan cycles

Found == [addr : Addr, proto : Protocol]
Source == Range(Sources)

ASSUME ScannerAssumption ==
  /\ Sources \in Seq(Source) /\ IsInjective(Sources)
  /\ \A s \in Source : Serves[s] \subseteq Seq(Found)
  /\ TTL \in Nat \ {0} /\ MaxFetch \in Nat \ {0} /\ Cap \in Nat \ {0}
  /\ MaxCycles \in Nat

VARIABLES
  mode,       \* "interval" or "continuous"
  pc,         \* "idle", "fetching", "pushing", "exited"
  fetch,      \* per source: "todo", "fetching", "done"
  slots,      \* tokens in the semaphore of this cycle
  all,        \* what the sources of this cycle gave so far
  seen,       \* age of each key of the seen map; Absent where there is none
  batch,      \* new proxies still to push
  found,      \* how many new proxies this cycle found
  chan,       \* the proxy channel
  lastFetchCount, totalDiscovered, dropped,
  ctx, cycles,
  taken,      \* history: proxies the validator took off the channel
  since       \* history: age of each address's last acceptance

stats == <<lastFetchCount, totalDiscovered, dropped>>
vars == <<mode, pc, fetch, slots, all, seen, batch, found, chan, stats, ctx, cycles,
          taken, since>>

Absent == -1
Never == TTL + 1      \* ages saturate here: any longer ago is the same

Init ==
  /\ mode \in {"interval", "continuous"}
  /\ pc = "idle"
  /\ fetch = [s \in Source |-> "done"]
  /\ slots = 0 /\ all = <<>> /\ batch = <<>> /\ chan = <<>> /\ found = 0
  /\ seen = [a \in Addr |-> Absent]
  /\ lastFetchCount = 0 /\ totalDiscovered = 0 /\ dropped = 0
  /\ ctx = "live" /\ cycles = 0 /\ taken = 0
  /\ since = [a \in Addr |-> Never]

-----------------------------------------------------------------------------
(* A cycle begins: cleanupSeen *)

CleanedEarly(m) ==   \* mutant: entries go a unit before the TTL is over
  [a \in Addr |-> IF m[a] >= TTL - 1 THEN Absent ELSE m[a]]

\* Entries older than the TTL are deleted; one exactly that old is kept.
CleanedUp(m) == [a \in Addr |-> IF m[a] > TTL THEN Absent ELSE m[a]]

BeginCycle ==
  /\ pc = "idle" /\ cycles < MaxCycles
  /\ mode = "continuous" => ctx = "live"
  /\ pc' = "fetching"
  /\ cycles' = cycles + 1
  /\ seen' = CleanedUp(seen)
  /\ fetch' = [s \in Source |-> "todo"]
  /\ slots' = 0   \* fetchAllSources makes a new semaphore
  /\ all' = <<>>
  /\ UNCHANGED <<mode, batch, found, chan, stats, ctx, taken, since>>

-----------------------------------------------------------------------------
(* Fetching *)

Fetching == {s \in Source : fetch[s] = "fetching"}

Begun(s) ==
  /\ pc = "fetching" /\ fetch[s] = "todo"
  /\ fetch' = [fetch EXCEPT ![s] = "fetching"]
  /\ UNCHANGED <<mode, pc, all, seen, batch, found, chan, stats, ctx, cycles,
                 taken, since>>

\* Interval mode takes the sources in their order, with no semaphore.
FetchInTurn(s) ==
  /\ mode = "interval" /\ Fetching = {}
  /\ \A i, j \in DOMAIN Sources :
       (Sources[j] = s /\ i < j) => fetch[Sources[i]] = "done"
  /\ Begun(s)
  /\ UNCHANGED slots

\* In continuous mode any goroutine whose send on the semaphore finds room goes
\* ahead, after a signal too: its select picks any case that is ready.
AcquireSlot(s) ==
  /\ mode = "continuous" /\ slots < MaxFetch
  /\ slots' = slots + 1
  /\ Begun(s)

Ends(s, n) ==
  /\ fetch[s] = "fetching"
  /\ fetch' = [fetch EXCEPT ![s] = "done"]
  /\ slots' = n
  /\ UNCHANGED <<mode, pc, seen, batch, found, chan, stats, ctx, cycles, taken,
                 since>>

\* The receive that the goroutine deferred when it got its slot.
Released == IF mode = "continuous" THEN slots - 1 ELSE slots

\* The request fails (as when it is cancelled), the status is bad or nothing
\* parses: logged and skipped.
FetchFailsLeaks(s) == Ends(s, slots) /\ UNCHANGED all   \* mutant: the slot is kept
FetchFails(s) == Ends(s, Released) /\ UNCHANGED all

\* One of the lists the source serves is appended.
Fetched(s) == Ends(s, Released) /\ \E list \in Serves[s] : all' = all \o list

GiveUpReleases(s) ==   \* mutant: the release is deferred before the select
  /\ mode = "continuous" /\ ctx = "cancelled" /\ fetch[s] = "todo" /\ slots > 0
  /\ fetch' = [fetch EXCEPT ![s] = "done"]
  /\ slots' = slots - 1
  /\ UNCHANGED <<mode, pc, all, seen, batch, found, chan, stats, ctx, cycles,
                 taken, since>>

\* A goroutine that waits for a slot gives up when the context ends.
GiveUp(s) ==
  /\ mode = "continuous" /\ ctx = "cancelled" /\ fetch[s] = "todo"
  /\ fetch' = [fetch EXCEPT ![s] = "done"]
  /\ UNCHANGED <<mode, pc, slots, all, seen, batch, found, chan, stats, ctx,
                 cycles, taken, since>>

-----------------------------------------------------------------------------
(* deduplicate *)

RecentInclusive(m, a) == m[a] # Absent /\ m[a] <= TTL   \* mutant
Recent(m, a) == m[a] # Absent /\ m[a] < TTL

KeepNoRefresh(acc, p) ==   \* mutant: seen[key] = now only for new keys
  IF Recent(acc.seen, p.addr) THEN acc
  ELSE [out  |-> Append(acc.out, p),
        seen |-> IF acc.seen[p.addr] = Absent
                 THEN [acc.seen EXCEPT ![p.addr] = 0] ELSE acc.seen]

\* A listing whose address is not recent is kept, and makes the address recent.
Keep(acc, p) ==
  IF Recent(acc.seen, p.addr) THEN acc
  ELSE [out |-> Append(acc.out, p), seen |-> [acc.seen EXCEPT ![p.addr] = 0]]

\* One pass in list order: the first listing of an address that is not recent
\* is kept, the ones after it are not.
Dedup(list, m) ==
  LET pass[i \in 0..Len(list)] ==
        IF i = 0 THEN [out |-> <<>>, seen |-> m] ELSE Keep(pass[i - 1], list[i])
  IN  pass[Len(list)]

AddrsIn(list) == {list[i].addr : i \in DOMAIN list}

Deduplicate ==
  LET d == Dedup(all, seen) IN
  /\ pc = "fetching" /\ \A s \in Source : fetch[s] = "done"
  /\ pc' = "pushing"
  /\ batch' = d.out
  /\ seen' = d.seen
  /\ found' = Len(d.out)
  /\ since' = [a \in Addr |-> IF a \in AddrsIn(d.out) THEN 0 ELSE since[a]]
  /\ IF mode = "interval"
     THEN /\ lastFetchCount' = Len(all)
          /\ totalDiscovered' = totalDiscovered + Len(d.out)
     ELSE UNCHANGED <<lastFetchCount, totalDiscovered>>
  /\ UNCHANGED <<mode, fetch, slots, all, chan, dropped, ctx, cycles, taken>>

-----------------------------------------------------------------------------
(* The push: a select with ctx.Done, the send and a default *)

DropUncounted == dropped        \* mutant
DropSubtracted == dropped - 1   \* mutant
DropCounted == dropped + 1

PushSend ==
  /\ pc = "pushing" /\ batch # <<>> /\ Len(chan) < Cap
  /\ chan' = Append(chan, Head(batch))
  /\ batch' = Tail(batch)
  /\ UNCHANGED <<mode, pc, fetch, slots, all, seen, found, stats, ctx, cycles,
                 taken, since>>

PushDrop ==
  /\ pc = "pushing" /\ batch # <<>> /\ Len(chan) = Cap /\ ctx = "live"
  /\ dropped' = DropCounted
  /\ batch' = Tail(batch)
  /\ UNCHANGED <<mode, pc, fetch, slots, all, seen, found, chan, lastFetchCount,
                 totalDiscovered, ctx, cycles, taken, since>>

PushAbandoned ==
  /\ pc = "pushing" /\ batch # <<>> /\ ctx = "cancelled"
  /\ batch' = <<>>
  /\ UNCHANGED <<mode, pc, fetch, slots, all, seen, found, chan, stats, ctx,
                 cycles, taken, since>>

\* Continuous mode updates its figures here, whether or not all was pushed,
\* and sleeps; interval mode waits for the ticker.
EndCycle ==
  /\ pc = "pushing" /\ batch = <<>>
  /\ pc' = "idle"
  /\ found' = 0
  /\ all' = <<>>
  /\ IF mode = "continuous"
     THEN /\ lastFetchCount' = found
          /\ totalDiscovered' = totalDiscovered + found
     ELSE UNCHANGED <<lastFetchCount, totalDiscovered>>
  /\ UNCHANGED <<mode, fetch, slots, seen, batch, chan, dropped, ctx, cycles,
                 taken, since>>

-----------------------------------------------------------------------------
(* Surroundings *)

Take ==   \* a validator worker receives
  /\ chan # <<>>
  /\ chan' = Tail(chan)
  /\ taken' = taken + 1
  /\ UNCHANGED <<mode, pc, fetch, slots, all, seen, batch, found, stats, ctx,
                 cycles, since>>

Older(n) == IF n = Absent \/ n = Never THEN n ELSE n + 1

Clock ==
  /\ seen' = [a \in Addr |-> Older(seen[a])]
  /\ since' = [a \in Addr |-> Older(since[a])]
  /\ UNCHANGED <<mode, pc, fetch, slots, all, batch, found, chan, stats, ctx,
                 cycles, taken>>

Cancel ==
  /\ ctx = "live"
  /\ ctx' = "cancelled"
  /\ UNCHANGED <<mode, pc, fetch, slots, all, seen, batch, found, chan, stats,
                 cycles, taken, since>>

IgnoresCancel == FALSE   \* mutant: the select of Run lost its ctx.Done case
MayExit == ctx = "cancelled"

\* Run looks at the context only after its first fetch.
Exit ==
  /\ pc = "idle" /\ MayExit
  /\ mode = "interval" => cycles > 0
  /\ pc' = "exited"
  /\ UNCHANGED <<mode, fetch, slots, all, seen, batch, found, chan, stats, ctx,
                 cycles, taken, since>>

FetchStep(s) == \/ FetchInTurn(s) \/ AcquireSlot(s) \/ FetchFails(s) \/ Fetched(s)
                \/ GiveUp(s)
LoopStep == BeginCycle \/ Deduplicate \/ PushSend \/ PushDrop \/ PushAbandoned
            \/ EndCycle \/ Exit

Next == LoopStep \/ (\E s \in Source : FetchStep(s)) \/ Take \/ Clock \/ Cancel

Spec == Init /\ [][Next]_vars

\* The goroutines run, and a fetch ends: the HTTP client has a timeout of 30 s.
Fairness == /\ WF_vars(LoopStep)
            /\ WF_vars(\E s \in Source : FetchStep(s))

FairSpec == Spec /\ Fairness

-----------------------------------------------------------------------------
(* Properties *)

TypeOK ==
  /\ pc \in {"idle", "fetching", "pushing", "exited"}
  /\ \A s \in Source : fetch[s] \in {"todo", "fetching", "done"}
  /\ slots \in Nat
  /\ seen \in [Addr -> Absent..Never] /\ since \in [Addr -> 0..Never]
  /\ all \in Seq(Found) /\ batch \in Seq(Found) /\ chan \in Seq(Found)
  /\ Len(chan) <= Cap
  /\ lastFetchCount \in Nat /\ totalDiscovered \in Nat /\ dropped \in Nat

\* The semaphore of fetchAllSources ("max 5 concurrent", scanner.go:128) is exact:
\* its tokens are as many as the fetches under way, and no more than MaxFetch,
\* through fetches that fail, goroutines that give up on a signal and any number
\* of cycles.  A slot kept or given back twice would show here.
FetchBound ==
  mode = "continuous" => slots = Cardinality(Fetching) /\ slots <= MaxFetch

\* New proxies that the figures do not count yet.
Unreported == IF mode = "continuous" /\ pc = "pushing" THEN found ELSE 0

\* Until a shutdown every proxy counted as discovered is accounted for: it went
\* to the validator, waits on the channel or in the batch, or counts as dropped.
Accounted ==
  ctx = "live" =>
    totalDiscovered + Unreported = taken + Len(chan) + Len(batch) + dropped

\* A batch names no address twice, though several sources list it.
NoDuplicates ==
  \A i, j \in DOMAIN batch : batch[i].addr = batch[j].addr => i = j

\* An address is accepted again only when a whole TTL has passed since it was
\* accepted last, whatever cleanupSeen deleted in between.
NotWithinTTL ==
  [][\A a \in Addr : (pc = "fetching" /\ pc' = "pushing" /\ a \in AddrsIn(batch'))
                        => since[a] >= TTL]_vars

\* An address that a source of this cycle listed, and that was not accepted
\* within the TTL, is in the batch: dedup loses nothing it should pass on.
NothingLost ==
  [][(pc = "fetching" /\ pc' = "pushing") =>
        \A a \in AddrsIn(all) : since[a] >= TTL => a \in AddrsIn(batch')]_vars

\* A cycle ends whatever its sources do, and after a signal the loop returns.
CycleEnds == (pc = "fetching") ~> (pc \in {"idle", "exited"})
Returns == (ctx = "cancelled") ~> (pc = "exited")
=============================================================================
