--------------------------- MODULE PoolRefinement ---------------------------
(***************************************************************************)
(* Proof that Pool implements PoolContract: seen through Table, Figures    *)
(* and aliveIDs, every operation of the pool is an operation on the        *)
(* abstract table, or nothing at all.                                      *)
(***************************************************************************)
EXTENDS PoolProofs

USE DEF States, Counted

\* PoolContract counts as Pool does.
LEMMA SameCardinality ==
  ASSUME NEW S
  PROVE  Contract!Cardinality(S) = Cardinality(S)
BY DEF Contract!Cardinality, Cardinality

\* Nothing the pool holds looks like an unknown proxy.
LEMMA KnownIsKnown ==
  ASSUME NEW r \in Proxy
  PROVE  Known(r) # Contract!NoEntry /\ Known(r).state = r.state
BY DEF Known, Contract!NoEntry, Proxy

\* The table has the entries of the map, in the states of their structs.
LEMMA TableView ==
  ASSUME Shape
  PROVE  /\ Contract!Known(Table) = Held
         /\ \A s \in States : Contract!WithState(Table, s) = IdsIn(obj, proxies, s)
<1>1. \A a \in Addr : Exists(a) => obj[proxies[a]] \in Proxy
  BY DEF Shape, Exists
<1>2. \A a \in Addr : Table[a] = IF Exists(a) THEN Known(obj[proxies[a]])
                                              ELSE Contract!NoEntry
  BY DEF Table, Unknown, Contract!NoEntry
<1>3. \A a \in Addr : Table[a] # Contract!NoEntry <=> Exists(a)
  BY <1>1, <1>2, KnownIsKnown
<1>4. Contract!Known(Table) = Held
  BY <1>3 DEF Contract!Known, Held
<1>5. \A a \in Addr : Exists(a) => Table[a].state = obj[proxies[a]].state
  BY <1>1, <1>2, KnownIsKnown
<1>6. ASSUME NEW s \in States
      PROVE  Contract!WithState(Table, s) = IdsIn(obj, proxies, s)
  <2>1. Contract!WithState(Table, s) = {a \in Held : Table[a].state = s}
    BY <1>4 DEF Contract!WithState
  <2>2. IdsIn(obj, proxies, s) = {a \in Held : obj[proxies[a]].state = s}
    BY DEF IdsIn, Held, Exists
  <2> QED
    BY <2>1, <2>2, <1>5 DEF Held
<1> QED
  BY <1>4, <1>6

\* What DetailedStats and the selections read is what the table says.
LEMMA FiguresMatch ==
  ProtoInv => /\ Figures = Contract!StatsOf(Table)
              /\ aliveIDs = Contract!WithState(Table, "ALIVE")
<1> SUFFICES ASSUME ProtoInv
             PROVE  /\ Figures = Contract!StatsOf(Table)
                    /\ aliveIDs = Contract!WithState(Table, "ALIVE")
  OBVIOUS
<1>1. /\ Shape /\ CountersExact /\ RotationExact /\ ProtoCountsExact
      /\ count \in [Counted -> Int] /\ protoCount \in [Protocol -> Nat]
  BY DEF ProtoInv, IInv, Shape
<1>2. /\ Contract!Known(Table) = Held
      /\ \A s \in States : Contract!WithState(Table, s) = IdsIn(obj, proxies, s)
  BY <1>1, TableView
<1>3. total = Cardinality(Contract!Known(Table))
  BY <1>1, <1>2 DEF CountersExact, Held
<1>4. count = [s \in {"VALIDATING", "ALIVE", "DEAD"} |->
                 Cardinality(Contract!WithState(Table, s))]
  BY <1>1, <1>2 DEF CountersExact
<1>5. protoCount = [p \in Protocol |->
        Cardinality({a \in Contract!WithState(Table, "ALIVE") : Table[a].proto = p})]
  <2>1. \A a \in IdsIn(obj, proxies, "ALIVE") : Table[a].proto = obj[proxies[a]].proto
    BY DEF Table, Known, IdsIn, Exists
  <2>2. \A p \in Protocol :
          {a \in Contract!WithState(Table, "ALIVE") : Table[a].proto = p} = AliveWith(p)
    BY <1>2, <2>1 DEF AliveWith
  <2> QED
    BY <1>1, <2>2 DEF ProtoCountsExact
<1>6. aliveIDs = Contract!WithState(Table, "ALIVE")
  BY <1>1, <1>2 DEF RotationExact
<1> QED
  BY <1>3, <1>4, <1>5, <1>6, SameCardinality DEF Figures, Contract!StatsOf

-----------------------------------------------------------------------------
(* The steps *)

\* A step of the abstract table, figures aside.
Report(a, e) == Table' = [Table EXCEPT ![a] = Contract!Learn(@, e)]
Forget(a) == Table' = [Table EXCEPT ![a] = Contract!NoEntry]

\* Adding a struct reports what it says.  A candidate takes over the history of
\* the entry it replaces, which is what Learn does.
LEMMA AddReports ==
  ASSUME ProtoInv, NEW o \in Obj, NEW r \in Given, AddFresh(o, r)
  PROVE  Report(r.addr, Known(r))
<1> DEFINE h == [obj EXCEPT ![o] = r]
           a == r.addr
           g == Merge(h, o)
           prev == obj[proxies[a]]
<1>1. /\ Shape /\ r \in Proxy /\ obj \in [Obj -> Proxy]
      /\ NoObj \notin Obj
  BY PoolAssumption DEF ProtoInv, IInv, Shape, PoolAssumption
<1>2. a \in Addr
  BY <1>1 DEF Proxy
<1>3. h \in [Obj -> Proxy] /\ h[o] = r
  BY <1>1
<1>4. \A b \in Addr : proxies[b] # o
  BY DEF AddFresh, InPool
<1>5. \A b \in Addr : Exists(b) => proxies[b] \in Obj /\ h[proxies[b]] = obj[proxies[b]]
  BY <1>1, <1>4 DEF Shape, Exists
<1>6. /\ g \in [Obj -> Proxy] /\ g[o].addr = a
      /\ \A x \in Obj : x # o => g[x] = h[x]
  BY <1>1, <1>3, MergeStep
<1>7. /\ obj' = [g EXCEPT ![o] = [g[o] EXCEPT !.dirty = TRUE]]
      /\ proxies' = [proxies EXCEPT ![a] = o]
  BY <1>3, <1>6 DEF AddFresh, Add, Publish
<1>8. \A b \in Addr \ {a} :
        /\ proxies'[b] = proxies[b]
        /\ Exists(b) => obj'[proxies[b]] = obj[proxies[b]]
  <2>1. \A b \in Addr \ {a} : proxies'[b] = proxies[b]
    BY <1>1, <1>2, <1>7 DEF Shape
  <2>2. \A x \in Obj : x # o => obj'[x] = h[x]
    <3> HIDE DEF g, h
    <3> QED
      BY <1>6, <1>7
  <2> HIDE DEF g, h, a
  <2> QED
    BY <1>4, <1>5, <2>1, <2>2
<1>9. proxies'[a] = o /\ obj'[o] = [g[o] EXCEPT !.dirty = TRUE]
  BY <1>1, <1>2, <1>6, <1>7 DEF Shape
<1>10. Known(obj'[o]) = Known(g[o])
  BY <1>6, <1>9 DEF Known, Proxy
<1>11. Known(g[o]) = Contract!Learn(Table[a], Known(r))
  <2>1. Table[a] = IF Exists(a) THEN Known(prev) ELSE Contract!NoEntry
    BY <1>2 DEF Table, Unknown, Contract!NoEntry
  <2>2. Exists(a) => prev \in Proxy
    BY <1>1, <1>2, <1>5
  <2>3. Known(r).state = r.state
    BY DEF Known
  <2>4. CASE Exists(a) /\ r.state = "DISCOVERED" /\ prev.state # "DISCOVERED"
    <3>1. g[o] = [r EXCEPT !.state = prev.state, !.ok = prev.ok, !.fail = prev.fail]
      BY <1>2, <1>3, <1>5, <2>4 DEF Merge
    <3>2. Known(g[o]) = [proto |-> r.proto, state |-> prev.state,
                         ok |-> prev.ok, fail |-> prev.fail]
      BY <1>1, <3>1 DEF Known, Proxy
    <3>3. Table[a] = Known(prev) /\ Known(prev) # Contract!NoEntry
      BY <2>1, <2>2, <2>4, KnownIsKnown
    <3>4. Contract!Learn(Table[a], Known(r)) = [Known(prev) EXCEPT !.proto = r.proto]
      BY <2>3, <2>4, <3>3 DEF Contract!Learn, Known
    <3> QED
      BY <3>2, <3>4 DEF Known
  <2>5. CASE ~(Exists(a) /\ r.state = "DISCOVERED" /\ prev.state # "DISCOVERED")
    <3>1. g = h
      BY <1>2, <1>3, <1>5, <2>5 DEF Merge
    <3>2. Contract!Learn(Table[a], Known(r)) = Known(r)
      BY <2>1, <2>3, <2>5 DEF Contract!Learn, Known
    <3> QED
      BY <1>3, <3>1, <3>2
  <2> QED
    BY <2>4, <2>5
<1>12. Table'[a] = Known(obj'[o])
  BY <1>1, <1>2, <1>9 DEF Table, Exists
<1>13. \A b \in Addr \ {a} : Table'[b] = Table[b]
  BY <1>8 DEF Table, Exists
<1>14. Table' = [b \in Addr |-> Table'[b]] /\ Table = [b \in Addr |-> Table[b]]
  BY DEF Table
<1> HIDE DEF h, a, g, prev
<1> QED
  BY <1>2, <1>10, <1>11, <1>12, <1>13, <1>14 DEF Report, a

\* Adding again what the pool holds tells it nothing.
LEMMA AddAgainStutters ==
  ASSUME ProtoInv, NEW o \in Obj, AddAgain(o)
  PROVE  Table' = Table
<1>1. /\ Shape /\ obj \in [Obj -> Proxy] /\ NoObj \notin Obj
  BY PoolAssumption DEF ProtoInv, IInv, Shape, PoolAssumption
<1>2. proxies[obj[o].addr] = o /\ obj[o].addr \in Addr
  BY <1>1 DEF AddAgain, InPool, ProtoInv, IInv, KeysMatch, Exists, Proxy
<1>3. Merge(obj, o) = obj
  BY <1>1, <1>2, MergeStep
<1>4. /\ obj' = [obj EXCEPT ![o] = [obj[o] EXCEPT !.dirty = TRUE]]
      /\ proxies' = proxies
  BY <1>1, <1>2, <1>3 DEF AddAgain, Add, Publish, Shape
<1>5. \A x \in Obj : Known(obj'[x]) = Known(obj[x])
  BY <1>1, <1>4 DEF Known, Proxy
<1>6. \A b \in Addr : Exists(b) => proxies[b] \in Obj
  BY <1>1 DEF Shape, Exists
<1> QED
  BY <1>4, <1>5, <1>6 DEF Table, Exists

\* Clearing the dirty flags tells it nothing either.
LEMMA DirtyAllStutters ==
  ASSUME ProtoInv, DirtyAll
  PROVE  Table' = Table
<1>1. Shape /\ obj \in [Obj -> Proxy]
  BY DEF ProtoInv, IInv, Shape
<1>2. \A x \in Obj : Known(obj'[x]) = Known(obj[x])
  BY <1>1 DEF DirtyAll, Cleaned, Known, Proxy
<1>3. \A b \in Addr : Exists(b) => proxies[b] \in Obj
  BY <1>1 DEF Shape, Exists
<1>4. proxies' = proxies
  BY DEF DirtyAll
<1> QED
  BY <1>2, <1>3, <1>4 DEF Table, Exists

\* Remove forgets one entry.
LEMMA RemoveForgets ==
  ASSUME ProtoInv, NEW a \in Addr, Remove(a)
  PROVE  Forget(a)
<1>1. Shape /\ obj' = obj /\ proxies' = [proxies EXCEPT ![a] = NoObj]
  BY DEF Remove, ProtoInv, IInv
<1>2. proxies'[a] = NoObj /\ \A b \in Addr \ {a} : proxies'[b] = proxies[b]
  BY <1>1 DEF Shape
<1>3. Table'[a] = Contract!NoEntry
  BY <1>2 DEF Table, Exists, Unknown, Contract!NoEntry
<1>4. \A b \in Addr \ {a} : Table'[b] = Table[b]
  BY <1>1, <1>2 DEF Table, Exists
<1>5. Table' = [b \in Addr |-> Table'[b]] /\ Table = [b \in Addr |-> Table[b]]
  BY DEF Table
<1> QED
  BY <1>3, <1>4, <1>5 DEF Forget

\* Every step of the pool changes the table as one abstract operation would.
LEMMA StepOfTable ==
  ASSUME ProtoInv, [PoolNext]_poolVars
  PROVE  \/ Table' = Table
         \/ \E a \in Addr : Forget(a) \/ \E e \in Reports[a] : Report(a, e)
<1>1. ASSUME NEW o \in Obj, NEW r \in Given, AddFresh(o, r)
      PROVE  \E a \in Addr : \E e \in Reports[a] : Report(a, e)
  <2>1. r.addr \in Addr
    BY PoolAssumption DEF PoolAssumption, Proxy
  <2>2. Known(r) \in Reports[r.addr]
    BY <2>1 DEF Reports
  <2> QED
    BY <1>1, <2>1, <2>2, AddReports
<1>2. ASSUME NEW o \in Obj, AddAgain(o) PROVE Table' = Table
  BY <1>2, AddAgainStutters
<1>3. ASSUME NEW a \in Addr, Remove(a) PROVE Forget(a)
  BY <1>3, RemoveForgets
<1>4. CASE SeedCounters
  BY <1>4 DEF SeedCounters, Table, Exists
<1>5. CASE DirtyAll
  BY <1>5, DirtyAllStutters
<1>6. CASE TimestampsAge
  BY <1>6 DEF TimestampsAge, Table, Exists
<1>7. CASE UNCHANGED poolVars
  BY <1>7 DEF poolVars, Table, Exists
<1> QED
  BY <1>1, <1>2, <1>3, <1>4, <1>5, <1>6, <1>7 DEF PoolNext

\* The pool, its incremental figures included, implements the table of
\* PoolContract when no address is listed under two protocols.
THEOREM PoolImplementsContract ==
  ASSUME OneProtocol
  PROVE  PoolSpec => ImplementsContract
<1>1. PoolInit => Contract!Init
  <2> SUFFICES ASSUME PoolInit PROVE Contract!Init
    OBVIOUS
  <2>1. ProtoInv
    BY ProtoInitStep
  <2>2. Table = [a \in Addr |-> Contract!NoEntry]
    BY DEF PoolInit, Table, Exists, Unknown, Contract!NoEntry
  <2> QED
    BY <2>1, <2>2, FiguresMatch DEF Contract!Init, PoolInit
<1>2. (ProtoInv => /\ Figures = Contract!StatsOf(Table)
                   /\ aliveIDs = Contract!WithState(Table, "ALIVE"))'
  BY FiguresMatch, PTL
<1>3. ProtoInv /\ ProtoInv' /\ [PoolNext]_poolVars => [Contract!Next]_(Contract!vars)
  <2> SUFFICES ASSUME ProtoInv, ProtoInv', [PoolNext]_poolVars
               PROVE  [Contract!Next]_(Contract!vars)
    OBVIOUS
  <2>1. /\ Figures = Contract!StatsOf(Table)
        /\ aliveIDs = Contract!WithState(Table, "ALIVE")
    BY FiguresMatch
  <2>2. /\ Figures' = Contract!StatsOf(Table')
        /\ aliveIDs' = Contract!WithState(Table', "ALIVE")
    BY <1>2 DEF Contract!StatsOf, Contract!WithState, Contract!Known, Contract!NoEntry
  <2>3. CASE Table' = Table
    BY <2>1, <2>2, <2>3 DEF Contract!vars
  <2>4. ASSUME NEW a \in Addr, Forget(a) PROVE Contract!Next
    BY <2>2, <2>4 DEF Forget, Contract!Next, Contract!Drop, Contract!Publish
  <2>5. ASSUME NEW a \in Addr, NEW e \in Reports[a], Report(a, e) PROVE Contract!Next
    BY <2>2, <2>5 DEF Report, Contract!Next, Contract!Put, Contract!Publish
  <2> QED
    BY <2>3, <2>4, <2>5, StepOfTable
<1> QED
  BY <1>1, <1>3, ProtoInvariance, PTL DEF PoolSpec, ImplementsContract, Contract!Spec
=============================================================================
