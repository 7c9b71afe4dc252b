---------------------------- MODULE ProbeProofs ----------------------------
(***************************************************************************)
(* Proofs about Probe: who uses which connection, its deadline, and the    *)
(* counters, for any number of goroutines and connections.                 *)
(***************************************************************************)
EXTENDS Probe, FiniteSetTheorems, TLAPS

Places == {"idle", "waiting", "exchanging", "passing", "failing", "passed", "failed", "adding"}

Uses == Dialing \cup {"free", "inUse", "idle"}

Report == [pc : DOMAIN LoadOrder \cup {"done"}, checked : Nat, success : Nat, failure : Nat]

Typed == TypeOK /\ report \in Report

\* Who has a link, and what the connection at its other end is doing.
Links ==
  /\ \A t \in Prober :
       /\ at[t] = "idle" => link[t] = NoConn
       /\ at[t] = "waiting" => link[t] \in Conn /\ conn[link[t]] \in Dialing
       /\ at[t] = "exchanging" => link[t] \in Conn
       /\ at[t] # "waiting" /\ link[t] \in Conn => conn[link[t]] = "inUse"
  /\ \A s, t \in Prober : link[s] \in Conn /\ link[s] = link[t] => s = t
  /\ \A c \in Conn : conn[c] = "inUse" => \E t \in Prober : link[t] = c /\ at[t] # "waiting"

\* A deadline is set for as long as the SOCKS4 handshake reads and writes.
Deadlines == \A c \in Conn : c \in deadline <=> conn[c] \in {"write", "read", "disarm"}

-----------------------------------------------------------------------------
(* The stages of a dial *)

LEMMA Stages ==
  /\ DOMAIN StageAfter = {"connect4", "arm", "write", "read", "disarm", "connect5"}
  /\ StageAfter["connect4"] = "arm" /\ StageAfter["arm"] = "write"
  /\ StageAfter["write"] = "read" /\ StageAfter["read"] = "disarm"
  /\ StageAfter["disarm"] = "reply" /\ StageAfter["connect5"] = "greet"
  /\ Dialing = {"connect4", "arm", "write", "read", "disarm", "connect5",
                "connect", "reply", "greet"}
BY DEF StageAfter, Dialing, LastStage

LEMMA StageStep ==
  ASSUME NEW s \in DOMAIN StageAfter
  PROVE  /\ StageAfter[s] \in Dialing /\ s \in Dialing
         /\ s = "arm" <=> StageAfter[s] = "write"
         /\ s = "disarm" => StageAfter[s] = "reply"
         /\ StageAfter[s] \in {"write", "read", "disarm"} <=> s \in {"arm", "write", "read"}
BY Stages

LEMMA FirstStages == \A p : FirstStage(p) \in {"connect4", "connect5", "connect"}
BY DEF FirstStage

LEMMA Orders ==
  /\ DOMAIN LoadOrder = {"idle", "checked", "success", "failure"}
  /\ LoadOrder["idle"] = "checked" /\ LoadOrder["checked"] = "success"
  /\ LoadOrder["success"] = "failure" /\ LoadOrder["failure"] = "done"
BY DEF LoadOrder

\* The loads of DetailedStats, one by one.
LEMMA Loads ==
  ASSUME report \in Report, checked \in Nat, success \in Nat, failure \in Nat, Load
  PROVE  /\ report' \in Report
         /\ \/ report'.pc = "checked" /\ report'.checked = checked
            \/ /\ report.pc = "checked" /\ report'.pc = "success"
               /\ report'.checked = report.checked /\ report'.success = success
            \/ /\ report.pc = "success" /\ report'.pc = "failure"
               /\ report'.checked = report.checked /\ report'.success = report.success
               /\ report'.failure = failure
            \/ /\ report.pc = "failure" /\ report'.pc = "done"
               /\ report'.checked = report.checked /\ report'.success = report.success
               /\ report'.failure = report.failure
<1>1. CASE report.pc = "idle"
  <2>1. report' = [report EXCEPT !.pc = "checked", !.checked = checked]
    BY <1>1, Orders DEF Load, Report
  <2> QED
    BY <2>1, Orders DEF Report
<1>2. CASE report.pc = "checked"
  <2>1. report' = [report EXCEPT !.pc = "success", !.success = success]
    BY <1>2, Orders DEF Load, Report
  <2> QED
    BY <1>2, <2>1, Orders DEF Report
<1>3. CASE report.pc = "success"
  <2>1. report' = [report EXCEPT !.pc = "failure", !.failure = failure]
    BY <1>3, Orders DEF Load, Report
  <2> QED
    BY <1>3, <2>1, Orders DEF Report
<1>4. CASE report.pc = "failure"
  <2>1. report' = [report EXCEPT !.pc = "done"]
    BY <1>4, Orders DEF Load, Report
  <2> QED
    BY <1>4, <2>1, Orders DEF Report
<1> QED
  BY <1>1, <1>2, <1>3, <1>4, Orders DEF Load

-----------------------------------------------------------------------------
(* The score *)

\* A health score is a share of the full one, and neither a lower latency nor a
\* longer streak ever lowers it.
THEOREM ScoreIsShare ==
  \A ms, ok \in Nat : 0 <= HealthScore(ms, ok) /\ HealthScore(ms, ok) <= FullScore
<1> SUFFICES ASSUME NEW ms \in Nat, NEW ok \in Nat
             PROVE  0 <= HealthScore(ms, ok) /\ HealthScore(ms, ok) <= FullScore
  OBVIOUS
<1> DEFINE l == LatencyPart(ms)
           k == StreakPart(ok)
<1>1. l \in Nat /\ l <= 4900
  BY DEF LatencyPart
<1>2. k \in Nat /\ k <= 10
  BY DEF StreakPart
<1> HIDE DEF l, k
<1>3. 0 <= 4 * l + 2940 * k /\ 4 * l + 2940 * k <= 49000
  BY <1>1, <1>2
<1> QED
  BY <1>3 DEF HealthScore, FullScore, l, k

THEOREM ScoreIsMonotone ==
  \A ms, slower, ok, longer \in Nat :
    ms <= slower /\ ok <= longer => HealthScore(slower, ok) <= HealthScore(ms, longer)
<1> SUFFICES ASSUME NEW ms \in Nat, NEW slower \in Nat, NEW ok \in Nat, NEW longer \in Nat,
                    ms <= slower, ok <= longer
             PROVE  HealthScore(slower, ok) <= HealthScore(ms, longer)
  OBVIOUS
<1>1. LatencyPart(slower) \in Nat /\ LatencyPart(ms) \in Nat /\ LatencyPart(slower) <= LatencyPart(ms)
  BY DEF LatencyPart
<1>2. StreakPart(ok) \in Nat /\ StreakPart(longer) \in Nat /\ StreakPart(ok) <= StreakPart(longer)
  BY DEF StreakPart
<1> QED
  BY <1>1, <1>2 DEF HealthScore

-----------------------------------------------------------------------------
(* Connections and deadlines *)

LEMMA InitLinks == Init => Typed /\ Links /\ Deadlines
<1> SUFFICES ASSUME Init PROVE Typed /\ Links /\ Deadlines
  OBVIOUS
<1>1. Typed
  BY Orders, ProbeAssumption DEF ProbeAssumption, Init, Typed, TypeOK, Report, NoReport
<1>2. Links
  BY ProbeAssumption DEF ProbeAssumption, Init, Links
<1>3. Deadlines
  BY DEF Init, Deadlines
<1> QED
  BY <1>1, <1>2, <1>3

\* A dial that goes on, fails or ends, and a connection put aside that is closed.
LEMMA DialLinks ==
  ASSUME Typed, Links, Deadlines, NEW c \in Conn, DialStep(c) \/ IdleTimeout(c)
  PROVE  Typed' /\ Links' /\ Deadlines'
<1> USE ProbeAssumption DEF ProbeAssumption
<1>1. CASE StageDone(c)
  <2> DEFINE s == conn[c]
             n == StageAfter[s]
  <2>1. /\ s \in Dialing /\ n \in Dialing
        /\ s = "arm" <=> n = "write"
        /\ s = "disarm" => n = "reply"
        /\ n \in {"write", "read", "disarm"} <=> s \in {"arm", "write", "read"}
    BY <1>1, StageStep DEF StageDone
  <2>2. conn' = [conn EXCEPT ![c] = n] /\ UNCHANGED <<at, link, counters, begun, report>>
    BY <1>1 DEF StageDone
  <2>3. deadline' = CASE s = "arm"    -> deadline \cup {c}
                      [] s = "disarm" -> deadline \ {c}
                      [] OTHER        -> deadline
    BY <1>1 DEF StageDone
  <2> HIDE DEF n
  <2>4. Typed'
    BY <2>1, <2>2, <2>3 DEF Typed, TypeOK, counters
  <2>5. Links'
    BY <2>1, <2>2, Stages DEF Links, Typed, TypeOK
  <2>6. Deadlines'
    BY <2>1, <2>2, <2>3 DEF Deadlines, Typed, TypeOK
  <2> QED
    BY <2>4, <2>5, <2>6
<1>2. CASE DialFails(c)
  <2>1. /\ conn[c] \in Dialing /\ conn' = [conn EXCEPT ![c] = "free"]
        /\ deadline' = deadline \ {c} /\ UNCHANGED <<counters, begun, report>>
        /\ at' = [t \in Prober |-> IF t \in Waiter(c) THEN "failing" ELSE at[t]]
        /\ link' = [t \in Prober |-> IF t \in Waiter(c) THEN NoConn ELSE link[t]]
    BY <1>2 DEF DialFails, AfterError
  <2>2. \A t \in Prober : link[t] = c <=> t \in Waiter(c)
    BY <2>1, Stages DEF Links, Waiter
  <2>3. Typed'
    BY <2>1 DEF Typed, TypeOK, counters
  <2>4. Links'
    BY <2>1, <2>2, Stages DEF Links, Typed, TypeOK, Waiter
  <2>5. Deadlines'
    BY <2>1 DEF Deadlines, Typed, TypeOK
  <2> QED
    BY <2>3, <2>4, <2>5
<1>3. CASE Connected(c)
  <2>1. /\ conn[c] \in LastStage
        /\ conn' = [conn EXCEPT ![c] = IF Waiter(c) # {} THEN "inUse" ELSE "idle"]
        /\ at' = [t \in Prober |-> IF t \in Waiter(c) THEN "exchanging" ELSE at[t]]
        /\ UNCHANGED <<link, deadline, counters, begun, report>>
    BY <1>3 DEF Connected
  <2>2. conn[c] \in {"connect", "reply", "greet"}
    BY <2>1 DEF LastStage
  <2>3. \A t \in Prober : link[t] = c <=> t \in Waiter(c)
    BY <2>2 DEF Links, Waiter
  <2>4. Typed'
    BY <2>1 DEF Typed, TypeOK, counters
  <2>5. Links'
    BY <2>1, <2>2, <2>3, Stages DEF Links, Typed, TypeOK, Waiter
  <2>6. Deadlines'
    BY <2>1, <2>2 DEF Deadlines, Typed, TypeOK
  <2> QED
    BY <2>4, <2>5, <2>6
<1>4. CASE IdleTimeout(c)
  <2>1. /\ conn[c] = "idle" /\ conn' = [conn EXCEPT ![c] = "free"]
        /\ deadline' = deadline \ {c} /\ UNCHANGED <<at, link, counters, begun, report>>
    BY <1>4 DEF IdleTimeout
  <2>2. \A t \in Prober : link[t] # c
    BY <2>1, Stages DEF Links
  <2>3. Typed' /\ Links' /\ Deadlines'
    BY <2>1, <2>2 DEF Typed, TypeOK, counters, Links, Deadlines
  <2> QED
    BY <2>3
<1> QED
  BY <1>1, <1>2, <1>3, <1>4 DEF DialStep

\* A prober that is put on the wire takes a connection nobody has.
LEMMA OnWireLinks ==
  ASSUME Typed, Links, Deadlines, NEW t \in Prober, NEW c \in Conn, NEW p,
         OnWire(t, c, p), at[t] = "idle",
         UNCHANGED <<deadline, checked, success, failure, report>>, begun' \in 0..MaxProbes
  PROVE  Typed' /\ Links' /\ Deadlines'
<1> USE ProbeAssumption DEF ProbeAssumption
<1> DEFINE s == FirstStage(p)
<1>1. s \in {"connect4", "connect5", "connect"}
  BY FirstStages
<1>2. /\ conn[c] = "free" /\ conn' = [conn EXCEPT ![c] = s]
      /\ link' = [link EXCEPT ![t] = c] /\ at' = [at EXCEPT ![t] = "waiting"]
  BY DEF OnWire
<1> HIDE DEF s
<1>3. \A u \in Prober : link[u] # c
  BY <1>2, Stages DEF Links
<1>4. Typed'
  BY <1>1, <1>2, Stages DEF Typed, TypeOK
<1>5. Links'
  BY <1>1, <1>2, <1>3, Stages DEF Links, Typed, TypeOK
<1>6. Deadlines'
  BY <1>1, <1>2 DEF Deadlines, Typed, TypeOK
<1> QED
  BY <1>4, <1>5, <1>6

\* A prober that takes a step without touching the wire, and holds what it held.
LEMMA StaysLinks ==
  ASSUME Typed, Links, Deadlines, NEW t \in Prober, NEW q \in Places \ {"idle", "waiting"},
         at' = [at EXCEPT ![t] = q], UNCHANGED wire, at[t] # "waiting",
         q = "exchanging" => at[t] = "exchanging",
         checked' \in Nat, success' \in Nat, failure' \in Nat, begun' \in 0..MaxProbes,
         report' = report
  PROVE  Typed' /\ Links' /\ Deadlines'
<1> USE ProbeAssumption DEF ProbeAssumption, wire
<1>1. Typed'
  BY DEF Typed, TypeOK, Places
<1>2. Links'
  BY Stages DEF Links, Typed, TypeOK
<1>3. Deadlines'
  BY DEF Deadlines
<1> QED
  BY <1>1, <1>2, <1>3

\* A prober that lets go of its connection, which is closed, left to go on with its
\* dial, or put aside.
LEMMA LetsGo ==
  ASSUME Typed, Links, Deadlines, NEW t \in Prober, NEW q \in {"idle", "failing"},
         NEW left \in {"free", "idle"},
         at' = [at EXCEPT ![t] = q], link' = [link EXCEPT ![t] = NoConn],
         \/ at[t] = "waiting" /\ UNCHANGED <<conn, deadline>>
         \/ /\ at[t] # "waiting"
            /\ conn' = [c \in Conn |-> IF c = link[t] THEN left ELSE conn[c]]
            /\ \A c \in Conn \ {link[t]} : c \in deadline' <=> c \in deadline
            /\ deadline' \subseteq deadline,
         UNCHANGED <<counters, begun, report>>
  PROVE  Typed' /\ Links' /\ Deadlines'
<1> USE ProbeAssumption DEF ProbeAssumption
<1>1. Typed'
  BY DEF Typed, TypeOK, counters
<1>2. CASE at[t] = "waiting"
  <2>1. UNCHANGED <<conn, deadline>>
    BY <1>2
  <2>2. Links' /\ Deadlines'
    BY <1>2, <2>1, Stages DEF Links, Deadlines, Typed, TypeOK
  <2> QED
    BY <1>1, <2>2
<1>3. CASE at[t] # "waiting"
  <2>1. /\ conn' = [c \in Conn |-> IF c = link[t] THEN left ELSE conn[c]]
        /\ \A c \in Conn \ {link[t]} : c \in deadline' <=> c \in deadline
        /\ deadline' \subseteq deadline
    BY <1>3
  <2>2. link[t] \in Conn => conn[link[t]] = "inUse" /\ link[t] \notin deadline
    BY <1>3 DEF Links, Deadlines
  <2>3. Links'
    BY <1>3, <2>1, <2>2, Stages DEF Links, Typed, TypeOK
  <2>4. Deadlines'
    BY <2>1, <2>2 DEF Deadlines
  <2> QED
    BY <1>1, <2>3, <2>4
<1> QED
  BY <1>2, <1>3

LEMMA ProbeLinks ==
  ASSUME Typed, Links, Deadlines, NEW t \in Prober, ProbeStep(t)
  PROVE  Typed' /\ Links' /\ Deadlines'
<1> USE ProbeAssumption DEF ProbeAssumption
<1>1. CASE GivesUp(t)
  <2>1. /\ at' = [at EXCEPT ![t] = "failing"] /\ link' = [link EXCEPT ![t] = NoConn]
        /\ UNCHANGED <<counters, begun, report>>
        /\ at[t] \in {"waiting", "exchanging"}
    BY <1>1 DEF GivesUp, MayGiveUp
  <2>2. CASE at[t] = "waiting"
    BY <1>1, <2>1, <2>2, LetsGo DEF GivesUp
  <2>3. CASE at[t] = "exchanging"
    <3>1. /\ conn' = [conn EXCEPT ![link[t]] = "free"] /\ deadline' = deadline \ {link[t]}
          /\ conn \in [Conn -> Uses]
      BY <1>1, <2>3 DEF GivesUp, Typed, TypeOK, Uses
    <3>2. conn' = [c \in Conn |-> IF c = link[t] THEN "free" ELSE conn[c]]
      BY <3>1
    <3>3. /\ \A c \in Conn \ {link[t]} : c \in deadline' <=> c \in deadline
          /\ deadline' \subseteq deadline
      BY <3>1
    <3> QED
      BY <2>1, <2>3, <3>2, <3>3, LetsGo
  <2> QED
    BY <2>1, <2>2, <2>3
<1>2. CASE Answers(t)
  <2>1. PICK q \in {"passing", "failing"} : at' = [at EXCEPT ![t] = q]
    BY <1>2 DEF Answers
  <2> QED
    BY <1>2, <2>1, StaysLinks DEF Answers, counters, Places, Typed, TypeOK
<1>3. CASE CountCheck(t)
  <2> DEFINE q == IF at[t] = "passing" THEN "passed" ELSE "failed"
  <2>1. /\ at' = [at EXCEPT ![t] = q] /\ q \in Places \ {"idle", "waiting", "exchanging"}
        /\ at[t] # "waiting" /\ checked' \in Nat
        /\ UNCHANGED <<wire, success, failure, begun, report>>
    BY <1>3 DEF CountCheck, Places, Typed, TypeOK
  <2> HIDE DEF q
  <2> QED
    BY <2>1, StaysLinks DEF Typed, TypeOK
<1>4. CASE CountOutcome(t)
  <2>1. /\ at' = [at EXCEPT ![t] = "adding"] /\ at[t] # "waiting"
        /\ success' \in Nat /\ failure' \in Nat
        /\ UNCHANGED <<wire, checked, begun, report>>
    BY <1>4 DEF CountOutcome, AfterCount, Typed, TypeOK
  <2> QED
    BY <2>1, StaysLinks DEF Places, Typed, TypeOK
<1>5. CASE Finish(t)
  <2>1. PICK left \in {"free", "idle"} :
          conn' = [c \in Conn |-> IF c = link[t] THEN left ELSE conn[c]]
    BY <1>5 DEF Finish
  <2>2. /\ at' = [at EXCEPT ![t] = "idle"] /\ link' = [link EXCEPT ![t] = NoConn]
        /\ UNCHANGED <<counters, begun, report>> /\ at[t] # "waiting"
    BY <1>5 DEF Finish
  <2>3. deadline' = {c \in deadline : conn'[c] # "free"}
    BY <1>5 DEF Finish
  <2>4. \A c \in Conn \ {link[t]} : c \in deadline' <=> c \in deadline
    BY <2>1, <2>3 DEF Deadlines
  <2> QED
    BY <2>1, <2>2, <2>3, <2>4, LetsGo
<1> QED
  BY <1>1, <1>2, <1>3, <1>4, <1>5 DEF ProbeStep

LEMMA NextLinks ==
  Typed /\ Links /\ Deadlines /\ [Next]_probeVars => Typed' /\ Links' /\ Deadlines'
<1> SUFFICES ASSUME Typed, Links, Deadlines, [Next]_probeVars
             PROVE  Typed' /\ Links' /\ Deadlines'
  OBVIOUS
<1> USE ProbeAssumption DEF ProbeAssumption
<1>1. ASSUME NEW t \in Prober, NEW c \in Conn, BeginHandler(t, c)
      PROVE  Typed' /\ Links' /\ Deadlines'
  BY <1>1, OnWireLinks DEF BeginHandler, counters, Typed, TypeOK
<1>2. ASSUME NEW t \in Prober, NEW c \in Conn, NEW p \in Protocol, Begin(t, p, c)
      PROVE  Typed' /\ Links' /\ Deadlines'
  <2>1. begun' \in 0..MaxProbes
    BY <1>2 DEF Begin, Typed, TypeOK
  <2>2. CASE p \in Supported
    BY <1>2, <2>1, <2>2, OnWireLinks DEF Begin, counters
  <2>3. CASE p \notin Supported
    BY <1>2, <2>1, <2>3, StaysLinks DEF Begin, counters, wire, Places, Typed, TypeOK
  <2> QED
    BY <2>2, <2>3
<1>3. ASSUME NEW t \in Prober, ProbeStep(t) PROVE Typed' /\ Links' /\ Deadlines'
  BY <1>3, ProbeLinks
<1>4. ASSUME NEW c \in Conn, DialStep(c) \/ IdleTimeout(c)
      PROVE  Typed' /\ Links' /\ Deadlines'
  BY <1>4, DialLinks
<1>5. CASE Load \/ Sent
  <2>1. report' \in Report /\ report'.pc \in DOMAIN LoadOrder \cup {"done"}
    <3>1. CASE Load
      BY <3>1, Loads DEF Typed, TypeOK, Report
    <3>2. CASE Sent
      BY <3>2, Orders DEF Sent, NoReport, Report
    <3> QED
      BY <1>5, <3>1, <3>2
  <2>2. UNCHANGED <<at, wire, counters, begun>>
    BY <1>5 DEF Load, Sent
  <2> QED
    BY <2>1, <2>2 DEF Typed, TypeOK, Links, Deadlines, wire, counters
<1>6. CASE UNCHANGED probeVars
  BY <1>6 DEF probeVars, wire, counters, Typed, TypeOK, Links, Deadlines
<1> QED
  BY <1>1, <1>2, <1>3, <1>4, <1>5, <1>6 DEF Next

-----------------------------------------------------------------------------
(* What they come to *)

LEMMA WireInvariant == Spec => [](Typed /\ Links /\ Deadlines)
<1>1. Typed /\ Links /\ Deadlines /\ [Next]_probeVars => (Typed /\ Links /\ Deadlines)'
  BY NextLinks
<1> QED
  BY <1>1, InitLinks, PTL DEF Spec

\* Every variable of a probe keeps its type.
THEOREM ProbeTypeCorrect == Spec => []TypeOK
<1>1. Typed => TypeOK
  BY DEF Typed
<1> QED
  BY <1>1, WireInvariant, PTL

\* A handshake with a SOCKS4 proxy reads and writes under a deadline, and no one
\* gets a connection that has one.
THEOREM DeadlineIsScoped == Spec => []DeadlineScoped
<1>1. Deadlines => DeadlineScoped
  BY DEF Deadlines, DeadlineScoped
<1> QED
  BY <1>1, WireInvariant, PTL

-----------------------------------------------------------------------------
(* The counters *)

InProbe == {"waiting", "exchanging", "passing", "failing"}
Counting == {"passed", "failed"}

Within(f, S) == {t \in Validating : f[t] \in S}

\* A handler of POST /validate has no part in the counting.
Apart == \A t \in Handling : at[t] \notin {"passed", "failed", "adding"}

AddUp == /\ begun = checked + Cardinality(Within(at, InProbe))
         /\ checked = success + failure + Cardinality(Within(at, Counting))

\* What has been loaded of a report, and what may still be added to it.
Close ==
  LET N == Cardinality(Validating) IN
  /\ report.pc = "checked" => report.checked <= success + failure + N
  /\ report.pc = "success" => report.checked <= report.success + failure + N
  /\ report.pc \in {"failure", "done"} => report.checked <= report.success + report.failure + N

LEMMA WithinFinite ==
  ASSUME NEW f, NEW S
  PROVE  /\ IsFiniteSet(Validating) /\ Cardinality(Validating) \in Nat
         /\ IsFiniteSet(Within(f, S)) /\ Cardinality(Within(f, S)) \in Nat
         /\ Cardinality(Within(f, S)) <= Cardinality(Validating)
<1>1. Validating \subseteq Prober /\ Within(f, S) \subseteq Validating
  BY DEF Prober, Within
<1>2. IsFiniteSet(Validating)
  BY <1>1, ProbeAssumption, FS_Subset DEF ProbeAssumption
<1> QED
  BY <1>1, <1>2, FS_Subset, FS_CardinalityType

\* One prober moves: it leaves the places of S, enters them, or does neither.
LEMMA OneMoves ==
  ASSUME NEW S, NEW f \in [Prober -> Places], NEW t \in Prober, NEW q \in Places
  PROVE  LET g == [f EXCEPT ![t] = q]
             n == Cardinality(Within(f, S))
             m == Cardinality(Within(g, S)) IN
         /\ t \notin Validating \/ (f[t] \in S <=> q \in S) => m = n
         /\ t \in Validating /\ f[t] \in S /\ q \notin S => m = n - 1
         /\ t \in Validating /\ f[t] \notin S /\ q \in S => m = n + 1
<1> DEFINE g == [f EXCEPT ![t] = q]
<1>1. Validating \subseteq Prober
  BY DEF Prober
<1>2. ASSUME t \notin Validating \/ (f[t] \in S <=> q \in S)
      PROVE  Within(g, S) = Within(f, S)
  BY <1>1, <1>2 DEF Within
<1>3. ASSUME t \in Validating, f[t] \in S, q \notin S
      PROVE  t \in Within(f, S) /\ Within(g, S) = Within(f, S) \ {t}
  BY <1>1, <1>3 DEF Within
<1>4. ASSUME t \in Validating, f[t] \notin S, q \in S
      PROVE  t \notin Within(f, S) /\ Within(g, S) = Within(f, S) \cup {t}
  BY <1>1, <1>4 DEF Within
<1>5. IsFiniteSet(Within(f, S)) /\ Cardinality(Within(f, S)) \in Nat
  BY WithinFinite
<1> HIDE DEF g
<1>6. ASSUME t \in Validating, f[t] \in S, q \notin S
      PROVE  Cardinality(Within(g, S)) = Cardinality(Within(f, S)) - 1
  BY <1>3, <1>5, <1>6, FS_RemoveElement
<1>7. ASSUME t \in Validating, f[t] \notin S, q \in S
      PROVE  Cardinality(Within(g, S)) = Cardinality(Within(f, S)) + 1
  BY <1>4, <1>5, <1>7, FS_AddElement
<1>8. t \notin Validating \/ (f[t] \in S <=> q \in S)
        => Cardinality(Within(g, S)) = Cardinality(Within(f, S))
  BY <1>2
<1> QED
  BY <1>6, <1>7, <1>8 DEF g

\* A prober that stays where it counts for what it did, and no counter moved.
LEMMA MovesKeepSums ==
  ASSUME Apart, AddUp, NEW t \in Prober,
         \A u \in Prober \ {t} : at'[u] = at[u],
         t \in Validating => /\ (at[t] \in InProbe <=> at'[t] \in InProbe)
                            /\ (at[t] \in Counting <=> at'[t] \in Counting),
         t \in Handling => at'[t] \notin {"passed", "failed", "adding"},
         UNCHANGED <<counters, begun>>
  PROVE  Apart' /\ AddUp'
<1>1. Validating \subseteq Prober /\ Handling \subseteq Prober
  BY DEF Prober
<1>2. Apart'
  BY <1>1 DEF Apart
<1>3. Within(at', InProbe) = Within(at, InProbe) /\ Within(at', Counting) = Within(at, Counting)
  BY <1>1 DEF Within
<1> QED
  BY <1>2, <1>3 DEF AddUp, counters

LEMMA CountingStep ==
  ASSUME Typed, Apart, AddUp, NEW t \in Prober, ProbeStep(t)
  PROVE  Apart' /\ AddUp'
<1>1. /\ at \in [Prober -> Places] /\ checked \in Nat /\ success \in Nat /\ failure \in Nat
      /\ begun \in Nat
  BY ProbeAssumption DEF ProbeAssumption, Typed, TypeOK, Places
<1>2. Validating \cap Handling = {} /\ Prober = Validating \cup Handling
  BY ProbeAssumption DEF ProbeAssumption, Prober
<1>3. CASE GivesUp(t)
  <2>1. /\ at[t] \in {"waiting", "exchanging"} /\ at'[t] = "failing"
        /\ \A u \in Prober \ {t} : at'[u] = at[u]
        /\ UNCHANGED <<counters, begun>>
    BY <1>1, <1>3 DEF GivesUp, MayGiveUp
  <2> QED
    BY <2>1, MovesKeepSums DEF InProbe, Counting
<1>4. CASE Answers(t)
  <2>1. /\ at[t] = "exchanging" /\ at'[t] \in {"passing", "failing"}
        /\ \A u \in Prober \ {t} : at'[u] = at[u]
        /\ UNCHANGED <<counters, begun>>
    BY <1>1, <1>4 DEF Answers
  <2> QED
    BY <2>1, MovesKeepSums DEF InProbe, Counting
<1>5. CASE CountCheck(t)
  <2> DEFINE q == IF at[t] = "passing" THEN "passed" ELSE "failed"
  <2>1. /\ t \in Validating /\ at[t] \in InProbe /\ at[t] \notin Counting
        /\ q \in Places /\ q \notin InProbe /\ q \in Counting
        /\ at' = [at EXCEPT ![t] = q] /\ checked' = checked + 1
        /\ UNCHANGED <<success, failure, begun>>
    BY <1>5 DEF CountCheck, Places, InProbe, Counting
  <2> HIDE DEF q
  <2>2. Apart'
    BY <1>1, <1>2, <2>1 DEF Apart
  <2>3. /\ Cardinality(Within(at', InProbe)) = Cardinality(Within(at, InProbe)) - 1
        /\ Cardinality(Within(at', Counting)) = Cardinality(Within(at, Counting)) + 1
    BY <1>1, <2>1, OneMoves
  <2>4. Cardinality(Within(at, InProbe)) \in Nat /\ Cardinality(Within(at, Counting)) \in Nat
    BY WithinFinite
  <2>5. begun' = checked' + Cardinality(Within(at', InProbe))
    <3> DEFINE n == Cardinality(Within(at, InProbe))
               m == Cardinality(Within(at', InProbe))
    <3>1. begun = checked + n /\ begun' = begun /\ checked' = checked + 1
      BY <2>1 DEF AddUp
    <3>2. n \in Nat /\ m = n - 1
      BY <2>3, <2>4
    <3> HIDE DEF n, m
    <3>3. begun' = checked' + m
      BY <1>1, <3>1, <3>2
    <3> QED
      BY <3>3 DEF m
  <2>6. checked' = success' + failure' + Cardinality(Within(at', Counting))
    <3> DEFINE n == Cardinality(Within(at, Counting))
               m == Cardinality(Within(at', Counting))
    <3>1. /\ checked = success + failure + n /\ checked' = checked + 1
          /\ success' = success /\ failure' = failure
      BY <2>1 DEF AddUp
    <3>2. n \in Nat /\ m = n + 1
      BY <2>3, <2>4
    <3> HIDE DEF n, m
    <3>3. checked' = success' + failure' + m
      BY <1>1, <3>1, <3>2
    <3> QED
      BY <3>3 DEF m
  <2> QED
    BY <2>2, <2>5, <2>6 DEF AddUp
<1>6. CASE CountOutcome(t)
  <2>1. /\ t \in Validating
        /\ at[t] \notin InProbe /\ at[t] \in Counting
        /\ "adding" \in Places /\ "adding" \notin InProbe /\ "adding" \notin Counting
        /\ at' = [at EXCEPT ![t] = "adding"]
        /\ UNCHANGED <<checked, begun>>
    BY <1>2, <1>6 DEF CountOutcome, AfterCount, Places, InProbe, Counting, Apart
  <2>2. \/ success' = success + 1 /\ failure' = failure
        \/ success' = success /\ failure' = failure + 1
    BY <1>1, <1>6 DEF CountOutcome
  <2>3. Apart'
    BY <1>1, <1>2, <2>1 DEF Apart
  <2>4. /\ Cardinality(Within(at', InProbe)) = Cardinality(Within(at, InProbe))
        /\ Cardinality(Within(at', Counting)) = Cardinality(Within(at, Counting)) - 1
    BY <1>1, <2>1, OneMoves
  <2>5. Cardinality(Within(at, InProbe)) \in Nat /\ Cardinality(Within(at, Counting)) \in Nat
    BY WithinFinite
  <2>6. begun' = checked' + Cardinality(Within(at', InProbe))
    BY <2>1, <2>4 DEF AddUp
  <2>7. checked' = success' + failure' + Cardinality(Within(at', Counting))
    <3> DEFINE n == Cardinality(Within(at, Counting))
               m == Cardinality(Within(at', Counting))
    <3>1. checked = success + failure + n /\ checked' = checked
      BY <2>1 DEF AddUp
    <3>2. n \in Nat /\ m = n - 1
      BY <2>4, <2>5
    <3> HIDE DEF n, m
    <3>3. CASE success' = success + 1 /\ failure' = failure
      BY <1>1, <3>1, <3>2, <3>3 DEF m
    <3>4. CASE success' = success /\ failure' = failure + 1
      BY <1>1, <3>1, <3>2, <3>4 DEF m
    <3> QED
      BY <2>2, <3>3, <3>4
  <2> QED
    BY <2>3, <2>6, <2>7 DEF AddUp
<1>7. CASE Finish(t)
  <2>1. /\ at'[t] = "idle" /\ \A u \in Prober \ {t} : at'[u] = at[u]
        /\ UNCHANGED <<counters, begun>>
        /\ at[t] = "adding" \/ t \in Handling
    BY <1>1, <1>7 DEF Finish
  <2> QED
    BY <1>2, <2>1, MovesKeepSums DEF InProbe, Counting
<1> QED
  BY <1>3, <1>4, <1>5, <1>6, <1>7 DEF ProbeStep

\* A dial whose end is told to those that wait for it leaves them in a probe.
LEMMA DialCounting ==
  ASSUME Apart, AddUp, NEW c \in Conn, NEW q \in {"failing", "exchanging"},
         at' = [t \in Prober |-> IF t \in Waiter(c) THEN q ELSE at[t]],
         UNCHANGED <<counters, begun>>
  PROVE  Apart' /\ AddUp'
<1>1. Validating \subseteq Prober /\ Handling \subseteq Prober
  BY DEF Prober
<1>2. Apart'
  BY <1>1 DEF Apart
<1>3. Within(at', InProbe) = Within(at, InProbe) /\ Within(at', Counting) = Within(at, Counting)
  BY <1>1 DEF Within, Waiter, InProbe, Counting
<1> QED
  BY <1>2, <1>3 DEF AddUp, counters

LEMMA NextCounting ==
  Typed /\ Apart /\ AddUp /\ [Next]_probeVars => Apart' /\ AddUp'
<1> SUFFICES ASSUME Typed, Apart, AddUp, [Next]_probeVars PROVE Apart' /\ AddUp'
  OBVIOUS
<1>1. /\ at \in [Prober -> Places] /\ checked \in Nat /\ success \in Nat /\ failure \in Nat
      /\ begun \in Nat
  BY ProbeAssumption DEF ProbeAssumption, Typed, TypeOK, Places
<1>2. Validating \cap Handling = {} /\ Prober = Validating \cup Handling
  BY ProbeAssumption DEF ProbeAssumption, Prober
<1>3. ASSUME NEW t \in Prober, NEW c \in Conn, BeginHandler(t, c) PROVE Apart' /\ AddUp'
  <2>1. /\ t \notin Validating /\ at'[t] = "waiting"
        /\ \A u \in Prober \ {t} : at'[u] = at[u]
        /\ UNCHANGED <<counters, begun>>
    BY <1>1, <1>2, <1>3 DEF BeginHandler, OnWire
  <2> QED
    BY <2>1, MovesKeepSums
<1>4. ASSUME NEW t \in Prober, NEW c \in Conn, NEW p \in Protocol, Begin(t, p, c)
      PROVE  Apart' /\ AddUp'
  <2>1. /\ t \in Validating /\ at[t] = "idle" /\ begun' = begun + 1
        /\ UNCHANGED counters
        /\ \E q \in {"waiting", "failing"} : at' = [at EXCEPT ![t] = q]
    BY <1>4 DEF Begin, OnWire
  <2>2. PICK q \in {"waiting", "failing"} : at' = [at EXCEPT ![t] = q]
    BY <2>1
  <2>3. Apart'
    BY <1>1, <1>2, <2>1, <2>2 DEF Apart
  <2>4. /\ Cardinality(Within(at', InProbe)) = Cardinality(Within(at, InProbe)) + 1
        /\ Cardinality(Within(at', Counting)) = Cardinality(Within(at, Counting))
    <3>1. /\ at[t] \notin InProbe /\ at[t] \notin Counting
          /\ q \in Places /\ q \in InProbe /\ q \notin Counting
      BY <2>1 DEF Places, InProbe, Counting
    <3> QED
      BY <1>1, <2>1, <2>2, <3>1, OneMoves
  <2>5. Cardinality(Within(at, InProbe)) \in Nat
    BY WithinFinite
  <2>6. begun' = checked' + Cardinality(Within(at', InProbe))
    <3> DEFINE n == Cardinality(Within(at, InProbe))
               m == Cardinality(Within(at', InProbe))
    <3>1. begun = checked + n /\ begun' = begun + 1 /\ checked' = checked
      BY <2>1 DEF AddUp, counters
    <3>2. n \in Nat /\ m = n + 1
      BY <2>4, <2>5
    <3> HIDE DEF n, m
    <3>3. begun' = checked' + m
      BY <1>1, <3>1, <3>2
    <3> QED
      BY <3>3 DEF m
  <2> QED
    BY <2>1, <2>3, <2>4, <2>6 DEF AddUp, counters
<1>5. ASSUME NEW t \in Prober, ProbeStep(t) PROVE Apart' /\ AddUp'
  BY <1>5, CountingStep
<1>6. ASSUME NEW c \in Conn, DialStep(c) \/ IdleTimeout(c) PROVE Apart' /\ AddUp'
  <2>1. CASE StageDone(c) \/ IdleTimeout(c)
    BY <2>1 DEF StageDone, IdleTimeout, Apart, AddUp, counters
  <2>2. CASE DialFails(c)
    BY <2>2, DialCounting DEF DialFails
  <2>3. CASE Connected(c)
    BY <2>3, DialCounting DEF Connected
  <2> QED
    BY <1>6, <2>1, <2>2, <2>3 DEF DialStep
<1>7. CASE Load \/ Sent \/ UNCHANGED probeVars
  BY <1>7 DEF Load, Sent, probeVars, Apart, AddUp, counters
<1> QED
  BY <1>3, <1>4, <1>5, <1>6, <1>7 DEF Next

LEMMA InitCounting == Init => Apart /\ AddUp /\ Close
<1> SUFFICES ASSUME Init PROVE Apart /\ AddUp /\ Close
  OBVIOUS
<1>1. Within(at, InProbe) = {} /\ Within(at, Counting) = {}
  BY DEF Init, Within, InProbe, Counting, Prober
<1>2. Apart /\ Close
  BY DEF Init, Apart, Close, NoReport, Prober
<1> QED
  BY <1>1, <1>2, FS_EmptySet DEF Init, AddUp

-----------------------------------------------------------------------------
(* The report *)

\* The counters of outcomes never go down.
LEMMA OutcomesGrow ==
  Typed /\ [Next]_probeVars => success <= success' /\ failure <= failure'
<1> SUFFICES ASSUME Typed, [Next]_probeVars PROVE success <= success' /\ failure <= failure'
  OBVIOUS
<1>1. success \in Nat /\ failure \in Nat
  BY DEF Typed, TypeOK
<1>2. ASSUME NEW t \in Prober, CountOutcome(t) PROVE success <= success' /\ failure <= failure'
  BY <1>1, <1>2 DEF CountOutcome
<1>3. \/ UNCHANGED <<success, failure>>
      \/ \E t \in Prober : CountOutcome(t)
  BY DEF Next, ProbeStep, DialStep, BeginHandler, Begin, GivesUp, Answers, CountCheck, Finish,
         StageDone, DialFails, Connected, IdleTimeout, Load, Sent, probeVars, counters
<1> QED
  BY <1>1, <1>2, <1>3

LEMMA CloseStep ==
  Typed /\ Typed' /\ AddUp /\ Close /\ [Next]_probeVars => Close'
<1> SUFFICES ASSUME Typed, Typed', AddUp, Close, [Next]_probeVars PROVE Close'
  OBVIOUS
<1>1. /\ success \in Nat /\ failure \in Nat /\ success' \in Nat /\ failure' \in Nat
      /\ report \in Report /\ checked \in Nat
  BY DEF Typed, TypeOK
<1>2. success <= success' /\ failure <= failure'
  BY OutcomesGrow
<1>3. Cardinality(Validating) \in Nat /\ checked <= success + failure + Cardinality(Validating)
  BY <1>1, WithinFinite DEF AddUp
<1>4. report.checked \in Nat /\ report.success \in Nat /\ report.failure \in Nat
  BY <1>1 DEF Report
<1>5. CASE report' = report
  BY <1>1, <1>2, <1>3, <1>4, <1>5 DEF Close
<1>6. CASE Load
  <2>1. UNCHANGED <<checked, success, failure>>
    BY <1>6 DEF Load, counters
  <2> QED
    BY <1>1, <1>3, <1>4, <1>6, <2>1, Loads DEF Close
<1>7. CASE Sent
  BY <1>7 DEF Sent, NoReport, Close
<1> QED
  <2>1. report' = report \/ Load \/ Sent
    BY DEF Next, ProbeStep, DialStep, BeginHandler, Begin, GivesUp, Answers, CountCheck,
           CountOutcome, Finish, StageDone, DialFails, Connected, IdleTimeout, probeVars
  <2> QED
    BY <1>5, <1>6, <1>7, <2>1

LEMMA CountInvariant ==
  Spec => []((Typed /\ Links /\ Deadlines) /\ (Apart /\ AddUp /\ Close))
<1>1. /\ (Typed /\ Links /\ Deadlines) /\ (Apart /\ AddUp /\ Close)
      /\ [Next]_probeVars
      => ((Typed /\ Links /\ Deadlines) /\ (Apart /\ AddUp /\ Close))'
  BY NextLinks, NextCounting, CloseStep
<1> QED
  BY <1>1, InitLinks, InitCounting, PTL DEF Spec

\* Every probe of validateOne is one check with one outcome.
THEOREM EveryProbeCounts == Spec => []VerdictsAddUp
<1>1. AddUp => VerdictsAddUp
  BY DEF AddUp, VerdictsAddUp, Within, InProbe, Counting
<1> QED
  BY <1>1, CountInvariant, PTL

\* DetailedStats never shows more checks than outcomes and goroutines.
THEOREM ReportIsClose == Spec => []ReportClose
<1>1. Close => ReportClose
  BY DEF Close, ReportClose
<1> QED
  BY <1>1, CountInvariant, PTL

=============================================================================
