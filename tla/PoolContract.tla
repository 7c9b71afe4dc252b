---------------------------- MODULE PoolContract ----------------------------
(***************************************************************************)
(* What a caller of internal/pool may rely on, as its comments state it:   *)
(* the pool is a table from proxy ids to what is known of each proxy, the  *)
(* figures of DetailedStats are those of the table, and the ids on offer   *)
(* to GetRandom, GetRoundRobin and GetN are those of the ALIVE entries.    *)
(* There are no counters to keep up to date here: `stats' and `rotation'   *)
(* are computed from the table after each operation.                       *)
(***************************************************************************)
EXTENDS Integers, FiniteSets

CONSTANTS Addr,        \* proxies, by host:port (models.ProxyID)
          Protocol,
          Offered      \* Offered[a]: what callers may report of proxy a

VARIABLES entry,       \* what is known of each proxy, or NoEntry
          stats,       \* what DetailedStats reports
          rotation     \* ids on offer

vars == <<entry, stats, rotation>>

NoEntry == [proto |-> "none", state |-> "none", ok |-> 0, fail |-> 0]

Known(t) == {a \in Addr : t[a] # NoEntry}
WithState(t, s) == {a \in Known(t) : t[a].state = s}

StatsOf(t) ==
  [total     |-> Cardinality(Known(t)),
   count     |-> [s \in {"VALIDATING", "ALIVE", "DEAD"} |->
                    Cardinality(WithState(t, s))],
   protocols |-> [p \in Protocol |->
                    Cardinality({a \in WithState(t, "ALIVE") : t[a].proto = p})]]

\* "Re-discovered proxies with accumulated validation state are preserved."
Learn(old, new) ==
  IF new.state = "DISCOVERED" /\ old # NoEntry /\ old.state # "DISCOVERED"
  THEN [old EXCEPT !.proto = new.proto]
  ELSE new

Publish == stats' = StatsOf(entry') /\ rotation' = WithState(entry', "ALIVE")

Init == /\ entry = [a \in Addr |-> NoEntry]
        /\ stats = StatsOf(entry)
        /\ rotation = {}

Put(a, e) == /\ entry' = [entry EXCEPT ![a] = Learn(@, e)]
             /\ Publish

Drop(a) == /\ entry' = [entry EXCEPT ![a] = NoEntry]
           /\ Publish

Next == \E a \in Addr : Drop(a) \/ \E e \in Offered[a] : Put(a, e)

Spec == Init /\ [][Next]_vars
=============================================================================
