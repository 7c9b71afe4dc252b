------------------------------ MODULE Serving ------------------------------
(***************************************************************************)
(* The reading side: handleGetProxy, handleGetProxies and handleRotate of  *)
(* internal/server/server.go, over GetRandom, GetN and GetRoundRobin of    *)
(* internal/pool/pool.go.                                                  *)
(*                                                                         *)
(* A request holds the pool's read lock from the line that lists the       *)
(* candidates to the one that has picked among them, and builds its        *)
(* response after that.  The read lock lets other requests in, which       *)
(* advance the same round-robin index, and it lets validateOne write       *)
(* latency and score of the very structs that are being weighed or sorted. *)
(*                                                                         *)
(* Abstracted: when Add rebuilds the ids on offer, and for which states    *)
(* (Pool, Validation): here it may put any of the ids on offer in any      *)
(* order, which is that of a Go map.  Listing is one step, the sum of the  *)
(* scores included.  A threshold is a real number of [0, total): the       *)
(* scores are small whole numbers, and the middles of the unit intervals,  *)
(* doubled, stand for the thresholds.  The random source does not fail.    *)
(***************************************************************************)
EXTENDS Integers, SequencesExt

CONSTANTS
  Id, ProtoOf,            \* proxies on file, and the protocol of each
  Reading,                \* what a struct may show: [ms, score]
  Client, Asks,           \* goroutines that serve a request, and of which kinds
  Filter,                 \* [proto, ms]; "any" and 0 do not filter
  LimitParam,             \* limits a client may ask for; 0 or less is no number
  DefaultLimit, MaxLimit, \* 10 and 100 in the code
  RrMod                   \* 2^64 in the code

ASSUME ServingAssumption ==
  /\ IsFiniteSet(Id)
  /\ \A r \in Reading : r.ms \in Nat /\ r.score \in Nat
  /\ \A f \in Filter : f.ms \in Int
  /\ LimitParam \subseteq Int
  /\ MaxLimit \in Nat /\ DefaultLimit \in 1..MaxLimit /\ RrMod \in Nat \ {0}

Key == {"latency", "health_score", "random"}

VARIABLES
  val,      \* the heap: what the struct of each id shows now
  order,    \* aliveIDs
  rrIdx,
  req,      \* per client: its request; calm says that no struct has been
            \* written to since it listed the candidates (history)
  turns,    \* history: unfiltered rotations per id, less the smallest
  skewed    \* history: since the last rebuild, the index was taken by a request
            \* with a filter, or wrapped round

servingVars == <<val, order, rrIdx, req, turns, skewed>>

NoRequest == [pc |-> "idle"]
Locked == {c \in Client : req[c].pc = "listed"}

-----------------------------------------------------------------------------
(* The filter *)

Matches(f, i) == /\ f.proto = "any" \/ ProtoOf[i] = f.proto
                 /\ f.ms > 0 => val[i].ms <= f.ms

With(s, f, i) == IF Matches(f, i) THEN Append(s, i) ELSE s

\* filterAlive.  It does not look at the state.
FilterAlive(f) ==
  LET kept[k \in 0..Len(order)] ==
        IF k = 0 THEN <<>> ELSE With(kept[k - 1], f, order[k])
  IN  kept[Len(order)]

Unfiltered(f) == f.proto = "any" /\ f.ms <= 0

-----------------------------------------------------------------------------
(* Weights *)

Scores(s) == [k \in DOMAIN s |-> val[s[k]].score]

\* The sums of the first so many weights.
Sums(w) == LET sum[k \in 0..Len(w)] == IF k = 0 THEN 0 ELSE sum[k - 1] + w[k] IN sum
Total(w) == Sums(w)[Len(w)]

PickByOwnScore(w, t) ==   \* mutant: the scores are not summed up
  LET hits == {k \in DOMAIN w : 2 * w[k] >= t}
  IN  IF hits = {} THEN Len(w) ELSE CHOOSE k \in hits : \A j \in hits : k <= j

\* The first candidate at which the running sum reaches the threshold, else the
\* last one: scores may have fallen since they were summed up.
Pick(w, t) ==
  LET hits == {k \in DOMAIN w : 2 * Sums(w)[k] >= t}
  IN  IF hits = {} THEN Len(w) ELSE CHOOSE k \in hits : \A j \in hits : k <= j

Thresholds(total) == {0} \cup {2 * n - 1 : n \in 1..total}

-----------------------------------------------------------------------------
(* Sorting *)

Sorted(key, s) ==
  CASE key = "latency"      -> \A j, k \in DOMAIN s : j < k => val[s[j]].ms <= val[s[k]].ms
    [] key = "health_score" -> \A j, k \in DOMAIN s : j < k => val[s[j]].score >= val[s[k]].score
    [] OTHER                -> TRUE   \* shuffled

Permuted(s) == {[k \in DOMAIN s |-> s[p[k]]] : p \in SetToSeqs(DOMAIN s)}

\* While a struct changes under sort.Slice the result is some permutation.
SortResults(key, s, calm) ==
  IF calm THEN {r \in Permuted(s) : Sorted(key, r)} ELSE Permuted(s)

LimitUncapped(l) == IF l <= 0 THEN DefaultLimit ELSE l   \* mutant
EffectiveLimit(l) ==
  IF l <= 0 THEN DefaultLimit ELSE IF l > MaxLimit THEN MaxLimit ELSE l

OneMoreThan(s, n) == IF n < Len(s) THEN SubSeq(s, 1, n + 1) ELSE s   \* mutant
Cut(s, n) == IF n > 0 /\ n < Len(s) THEN SubSeq(s, 1, n) ELSE s

-----------------------------------------------------------------------------
(* Requests *)

\* The handler lists the candidates under the read lock.  None at all is answered
\* at once, with 503 or an empty list.
List(c, f, request) ==
  /\ req[c].pc = "idle" /\ request.kind \in Asks[c]
  /\ FilterAlive(f) # <<>>
  /\ req' = [req EXCEPT ![c] = request]
  /\ UNCHANGED <<val, order, rrIdx, turns, skewed>>

AskProxy(c, f) ==
  List(c, f, [pc |-> "listed", kind |-> "proxy", cands |-> FilterAlive(f),
              total |-> Total(Scores(FilterAlive(f))), calm |-> TRUE])
AskRotate(c, f) ==
  List(c, f, [pc |-> "listed", kind |-> "rotate", cands |-> FilterAlive(f),
              plain |-> Unfiltered(f)])
AskProxies(c, f, l, key) ==
  List(c, f, [pc |-> "listed", kind |-> "proxies", cands |-> FilterAlive(f),
              limit |-> EffectiveLimit(l), key |-> key, calm |-> TRUE])

At(c, kind) == req[c].pc = "listed" /\ req[c].kind = kind

\* The response is written out; it shows what the structs say by now.
Serves(c) == req' = [req EXCEPT ![c] = NoRequest]

WeightedPick(c) ==
  IF req[c].total <= 0 THEN DOMAIN req[c].cands
  ELSE {Pick(Scores(req[c].cands), t) : t \in Thresholds(req[c].total)}

PickRandom(c) ==
  /\ At(c, "proxy")
  /\ \E k \in WeightedPick(c) :
       req' = [req EXCEPT ![c] = [pc |-> "picked", kind |-> "proxy", cands |-> <<@.cands[k]>>]]
  /\ UNCHANGED <<val, order, rrIdx, turns, skewed>>

NotAdvanced(n) == n   \* mutant
Advanced(n) == (n + 1) % RrMod

\* Counts kept relative to the smallest.
Served(i) ==
  LET more == [turns EXCEPT ![i] = @ + 1]
      on   == Range(order)
  IN  IF \A j \in on : more[j] > 0 THEN [j \in Id |-> IF j \in on THEN more[j] - 1 ELSE 0]
                                   ELSE more

Rotate(c) ==
  LET n == Len(req[c].cands)
      i == req[c].cands[(rrIdx % n) + 1]
  IN
  /\ At(c, "rotate")
  /\ rrIdx' = Advanced(rrIdx)
  /\ Serves(c)
  /\ skewed' = (skewed \/ ~req[c].plain \/ rrIdx + 1 = RrMod)
  /\ turns' = IF skewed' THEN [j \in Id |-> 0] ELSE Served(i)
  /\ UNCHANGED <<val, order>>

Sort(c) ==
  /\ At(c, "proxies")
  /\ \E s \in SortResults(req[c].key, req[c].cands, req[c].calm) :
       req' = [req EXCEPT ![c] =
         [pc |-> "sorted", kind |-> "proxies", cands |-> @.cands, calm |-> @.calm,
          key |-> @.key, limit |-> @.limit, best |-> Cut(s, @.limit)]]
  /\ UNCHANGED <<val, order, rrIdx, turns, skewed>>

Respond(c) ==
  /\ req[c].pc \in {"picked", "sorted"}
  /\ Serves(c)
  /\ UNCHANGED <<val, order, rrIdx, turns, skewed>>

-----------------------------------------------------------------------------
(* The engine *)

\* validateOne writes to a struct, whoever reads it.
Write(i, r) ==
  /\ val[i] # r
  /\ val' = [val EXCEPT ![i] = r]
  /\ req' = [c \in Client |-> IF "calm" \in DOMAIN req[c]
                              THEN [req[c] EXCEPT !.calm = FALSE] ELSE req[c]]
  /\ UNCHANGED <<order, rrIdx, turns, skewed>>

\* pool.Add, under the write lock.
Rebuild(s) ==
  /\ Locked = {}
  /\ order' = s
  /\ turns' = [j \in Id |-> 0] /\ skewed' = FALSE
  /\ UNCHANGED <<val, rrIdx, req>>

-----------------------------------------------------------------------------

Init ==
  /\ val \in [Id -> Reading]
  /\ order = <<>>
  /\ rrIdx = 0
  /\ req = [c \in Client |-> NoRequest]
  /\ turns = [i \in Id |-> 0] /\ skewed = FALSE

Next ==
  \/ \E c \in Client, f \in Filter :
       \/ AskProxy(c, f) \/ AskRotate(c, f)
       \/ \E l \in LimitParam, key \in Key : AskProxies(c, f, l, key)
  \/ \E c \in Client : PickRandom(c) \/ Rotate(c) \/ Sort(c) \/ Respond(c)
  \/ \E i \in Id, r \in Reading : Write(i, r)
  \/ \E s \in SetToAllKPermutations(Id) : Rebuild(s)

Spec == Init /\ [][Next]_servingVars

-----------------------------------------------------------------------------
(* Properties *)

\* Types; a request that waits has candidates, each at most once, and may be written
\* at most MaxLimit of them ("Limits are capped at 100.", README.md:150).
TypeOK ==
  /\ val \in [Id -> Reading]
  /\ Range(order) \subseteq Id /\ IsInjective(order)
  /\ rrIdx \in 0..(RrMod - 1)
  /\ turns \in [Id -> Nat] /\ skewed \in BOOLEAN
  /\ \A c \in Client : req[c].pc # "idle" =>
       /\ Range(req[c].cands) \subseteq Id /\ IsInjective(req[c].cands)
       /\ req[c].cands # <<>>
       /\ req[c].kind = "proxies" => req[c].limit \in 1..MaxLimit

\* "Round-robin over the ALIVE pool" (README.md:161): clients that rotate at the
\* same time, each without a filter, are served every proxy on offer in turn; none
\* is two turns ahead of another.  A rotation with a filter takes numbers from the
\* same index and upsets this, and nothing else does until the list is rebuilt.
RotateEven == ~skewed => \A i \in Range(order) : turns[i] <= 1

\* "weighted random selection favoring higher health scores" (README.md:127): of the
\* unit intervals of thresholds, as many lead to a candidate as its score says.
Proportional ==
  \A c \in Client :
    (At(c, "proxy") /\ req[c].calm) =>
      LET w == Scores(req[c].cands) IN
      \A k \in DOMAIN w :
        w[k] = Cardinality({n \in 1..req[c].total : Pick(w, 2 * n - 1) = k})

\* /proxies returns as many different candidates as were asked for, and when no struct was
\* written to meanwhile they are in order and none that was left out comes before
\* them.
ListLawful ==
  \A c \in Client : req[c].pc = "sorted" =>
    LET best == req[c].best
        rest == Range(req[c].cands) \ Range(best)
    IN  /\ Range(best) \subseteq Range(req[c].cands) /\ IsInjective(best)
        /\ Len(best) = Min({req[c].limit, Len(req[c].cands)})
        /\ req[c].calm => Sorted(req[c].key, best)
                          /\ \A i \in rest : Sorted(req[c].key, Append(best, i))
=============================================================================
