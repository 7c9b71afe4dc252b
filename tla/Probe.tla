------------------------------- MODULE Probe -------------------------------
(***************************************************************************)
(* One probe on the wire: validateOne and createTransport of               *)
(* internal/validator/validator.go, the dialer of internal/socks4, and     *)
(* validateProxy of internal/server, with the validator's counters as      *)
(* DetailedStats reads them.                                               *)
(*                                                                         *)
(* net/http dials in a goroutine of its own, on a context detached from    *)
(* the request's (go.mod asks for Go 1.25).  A probe that times out leaves *)
(* the dial behind; what it yields in the end goes to the idle pool of a   *)
(* transport nobody will use again, until IdleConnTimeout.  A connection   *)
(* therefore has a life of its own here, and a probe waits for one.        *)
(*                                                                         *)
(* Abstracted: the bytes of the handshake and of the answer; latencies and *)
(* their sum; url.Parse, and other steps that fail for no proxy the parsers*)
(* let through.                                                            *)
(***************************************************************************)
EXTENDS Integers, FiniteSets

CONSTANTS
  Validating,   \* goroutines in validateOne
  Handling,     \* goroutines in the handler of POST /validate
  Conn, NoConn, \* connections there can be at a time, and none
  MaxProbes     \* bound: probes begun

Prober == Validating \cup Handling
Supported == {"http", "https", "socks4", "socks5"}
Protocol == Supported \cup {"mixed"}

ASSUME ProbeAssumption ==
  /\ IsFiniteSet(Prober) /\ Validating \cap Handling = {}
  /\ NoConn \notin Conn
  /\ MaxProbes \in Nat

VARIABLES
  at,        \* per prober: where it is
  link,      \* per prober: the connection it waits for or uses
  conn,      \* per connection: what is being done with it
  deadline,  \* connections with a deadline set
  checked, success, failure,   \* the atomic counters
  begun,     \* history: probes begun by validateOne
  report     \* DetailedStats: the loads made so far

counters == <<checked, success, failure>>
wire == <<link, conn, deadline>>
probeVars == <<at, wire, counters, begun, report>>

-----------------------------------------------------------------------------
(* Connections *)

\* The dial: socks4.Dial step by step; golang.org/x/net/proxy's dialer, which is
\* given no context and sets no deadline; or a connect and no more.
FirstStage(p) == CASE p = "socks4" -> "connect4"
                   [] p = "socks5" -> "connect5"
                   [] OTHER        -> "connect"

Handshake == {"arm", "write", "read", "disarm", "reply"}
StageNotCleared ==   \* mutant: the deadline stays
  [connect4 |-> "arm", arm |-> "write", write |-> "read", read |-> "reply",
   disarm |-> "reply", connect5 |-> "greet"]
StageAfter ==
  [connect4 |-> "arm", arm |-> "write", write |-> "read", read |-> "disarm",
   disarm |-> "reply", connect5 |-> "greet"]
LastStage == {"connect", "reply", "greet"}
Dialing == DOMAIN StageAfter \cup LastStage

Waiter(c) == {t \in Prober : link[t] = c /\ at[t] = "waiting"}

StageDone(c) ==
  /\ conn[c] \in DOMAIN StageAfter
  /\ conn' = [conn EXCEPT ![c] = StageAfter[@]]
  /\ deadline' = CASE conn[c] = "arm"    -> deadline \cup {c}
                   [] conn[c] = "disarm" -> deadline \ {c}
                   [] OTHER              -> deadline
  /\ UNCHANGED <<at, link, counters, begun, report>>

RejectedLeftOpen(c) == IF conn[c] = "reply" THEN "leaked" ELSE "free"   \* mutant
AfterError(c) == "free"   \* conn.Close on every path that returns an error

\* A stage errs, the proxy refuses, or the deadline passes; a request that still
\* waits learns of it.
DialFails(c) ==
  /\ conn[c] \in Dialing
  /\ conn' = [conn EXCEPT ![c] = AfterError(c)]
  /\ deadline' = deadline \ {c}
  /\ at' = [t \in Prober |-> IF t \in Waiter(c) THEN "failing" ELSE at[t]]
  /\ link' = [t \in Prober |-> IF t \in Waiter(c) THEN NoConn ELSE link[t]]
  /\ UNCHANGED <<counters, begun, report>>

\* The connection is handed to the request, or put aside if that has given up.
Connected(c) ==
  /\ conn[c] \in LastStage
  /\ conn' = [conn EXCEPT ![c] = IF Waiter(c) # {} THEN "inUse" ELSE "idle"]
  /\ at' = [t \in Prober |-> IF t \in Waiter(c) THEN "exchanging" ELSE at[t]]
  /\ UNCHANGED <<link, deadline, counters, begun, report>>

IdleTimeout(c) ==
  /\ conn[c] = "idle"
  /\ conn' = [conn EXCEPT ![c] = "free"]
  /\ deadline' = deadline \ {c}
  /\ UNCHANGED <<at, link, counters, begun, report>>

-----------------------------------------------------------------------------
(* validateOne *)

OnWire(t, c, p) ==
  /\ conn[c] = "free"
  /\ conn' = [conn EXCEPT ![c] = FirstStage(p)]
  /\ link' = [link EXCEPT ![t] = c]
  /\ at' = [at EXCEPT ![t] = "waiting"]

\* createTransport, and the request is sent.
Begin(t, p, c) ==
  /\ t \in Validating /\ at[t] = "idle" /\ begun < MaxProbes
  /\ begun' = begun + 1
  /\ \/ p \in Supported /\ OnWire(t, c, p)
     \/ p \notin Supported /\ at' = [at EXCEPT ![t] = "failing"]
                           /\ UNCHANGED <<link, conn>>
  /\ UNCHANGED <<deadline, counters, report>>

\* validateProxy speaks HTTP to the proxy (through http.ProxyURL, that knows
\* SOCKS5 too and sets deadlines), never SOCKS4.
BeginHandler(t, c) ==
  /\ t \in Handling /\ at[t] = "idle"
  /\ OnWire(t, c, "http")
  /\ UNCHANGED <<deadline, counters, begun, report>>

OnceConnected(t) == at[t] = "exchanging"   \* mutant: the dial has no time limit
MayGiveUp(t) == at[t] \in {"waiting", "exchanging"}

\* The exchange errs, or the probe's time is up, or the context is cancelled: the
\* transport closes the connection of the exchange, and lets a dial go on.
GivesUp(t) ==
  /\ MayGiveUp(t)
  /\ at' = [at EXCEPT ![t] = "failing"]
  /\ conn' = IF at[t] = "exchanging" THEN [conn EXCEPT ![link[t]] = "free"] ELSE conn
  /\ deadline' = IF at[t] = "exchanging" THEN deadline \ {link[t]} ELSE deadline
  /\ link' = [link EXCEPT ![t] = NoConn]
  /\ UNCHANGED <<counters, begun, report>>

\* A status of 2xx that does not show our own address passes, any other answer
\* fails.  The body is closed when validateOne returns.
Answers(t) ==
  /\ at[t] = "exchanging"
  /\ \E verdict \in {"passing", "failing"} : at' = [at EXCEPT ![t] = verdict]
  /\ UNCHANGED <<wire, counters, begun, report>>

\* The three counters, in the code's order.
CountCheck(t) ==
  /\ t \in Validating /\ at[t] \in {"passing", "failing"}
  /\ checked' = checked + 1
  /\ at' = [at EXCEPT ![t] = IF @ = "passing" THEN "passed" ELSE "failed"]
  /\ UNCHANGED <<wire, success, failure, begun, report>>

FallsThrough(t) == IF at[t] = "failed" THEN "passing" ELSE "adding"   \* mutant
AfterCount(t) == "adding"

CountOutcome(t) ==
  /\ at[t] \in {"passed", "failed"}
  /\ success' = IF at[t] = "passed" THEN success + 1 ELSE success
  /\ failure' = IF at[t] = "failed" THEN failure + 1 ELSE failure
  /\ at' = [at EXCEPT ![t] = AfterCount(t)]
  /\ UNCHANGED <<wire, checked, begun, report>>

\* pool.Add is done, or the handler has its answer.  A body read to its end leaves
\* the connection to the idle pool, unless keep-alives are off.
Finish(t) ==
  /\ \/ at[t] = "adding"
     \/ t \in Handling /\ at[t] \in {"passing", "failing"}
  /\ \E left \in {"free"} \cup (IF t \in Validating THEN {"idle"} ELSE {}) :
       conn' = [c \in Conn |-> IF c = link[t] THEN left ELSE conn[c]]
  /\ deadline' = {c \in deadline : conn'[c] # "free"}
  /\ link' = [link EXCEPT ![t] = NoConn]
  /\ at' = [at EXCEPT ![t] = "idle"]
  /\ UNCHANGED <<counters, begun, report>>

-----------------------------------------------------------------------------
(* DetailedStats: three loads, with anything in between *)

OutcomesFirst ==   \* mutant
  [idle |-> "success", success |-> "failure", failure |-> "checked", checked |-> "done"]
LoadOrder ==
  [idle |-> "checked", checked |-> "success", success |-> "failure", failure |-> "done"]

NoReport == [pc |-> "idle", checked |-> 0, success |-> 0, failure |-> 0]

Load ==
  /\ report.pc \in DOMAIN LoadOrder
  /\ LET next == LoadOrder[report.pc]
         rep == [report EXCEPT !.pc = next]
     IN  report' = CASE next = "checked" -> [rep EXCEPT !.checked = checked]
                     [] next = "success" -> [rep EXCEPT !.success = success]
                     [] next = "failure" -> [rep EXCEPT !.failure = failure]
                     [] OTHER            -> rep
  /\ UNCHANGED <<at, wire, counters, begun>>

Sent ==
  /\ report.pc = "done"
  /\ report' = NoReport
  /\ UNCHANGED <<at, wire, counters, begun>>

-----------------------------------------------------------------------------

Init ==
  /\ at = [t \in Prober |-> "idle"]
  /\ link = [t \in Prober |-> NoConn]
  /\ conn = [c \in Conn |-> "free"]
  /\ deadline = {}
  /\ checked = 0 /\ success = 0 /\ failure = 0
  /\ begun = 0
  /\ report = NoReport

ProbeStep(t) == \/ GivesUp(t) \/ Answers(t)
                \/ CountCheck(t) \/ CountOutcome(t) \/ Finish(t)

DialStep(c) == StageDone(c) \/ DialFails(c) \/ Connected(c)

Next ==
  \/ \E t \in Prober, c \in Conn : BeginHandler(t, c) \/ \E p \in Protocol : Begin(t, p, c)
  \/ \E t \in Prober : ProbeStep(t)
  \/ \E c \in Conn : DialStep(c) \/ IdleTimeout(c)
  \/ Load \/ Sent

Spec == Init /\ [][Next]_probeVars

\* A probe has a time limit, which ends its waiting and its exchange.  A dial step
\* ends: TCP gives up, SetDeadline does not block, and a deadline ends a read and a
\* write.  The exception is the handshake with a SOCKS5 proxy, that has none of
\* these: it ends when the proxy answers, or never.
Timed(c) == conn[c] \notin {"read", "write", "greet"} \/ c \in deadline

Fairness ==
  /\ \A t \in Prober : WF_probeVars(ProbeStep(t))
  /\ \A c \in Conn :
       /\ WF_probeVars(Timed(c) /\ DialStep(c))
       /\ WF_probeVars(IdleTimeout(c))

FairSpec == Spec /\ Fairness

-----------------------------------------------------------------------------
(* calcHealthScore, in units of 1/49000 *)

LatencyPart(ms) == IF ms <= 100 THEN 4900 ELSE IF ms >= 5000 THEN 0 ELSE 5000 - ms
StreakPart(ok) == IF ok > 10 THEN 10 ELSE ok
HealthScore(ms, ok) == 4 * LatencyPart(ms) + 2940 * StreakPart(ok)
FullScore == 49000

-----------------------------------------------------------------------------
(* Properties *)

\* Types; no connection is lost track of.
TypeOK ==
  /\ at \in [Prober -> {"idle", "waiting", "exchanging", "passing", "failing",
                        "passed", "failed", "adding"}]
  /\ link \in [Prober -> Conn \cup {NoConn}]
  /\ conn \in [Conn -> Dialing \cup {"free", "inUse", "idle"}]
  /\ deadline \subseteq Conn
  /\ checked \in Nat /\ success \in Nat /\ failure \in Nat /\ begun \in 0..MaxProbes
  /\ report.pc \in DOMAIN LoadOrder \cup {"done"}

\* "Set write/read deadline for the handshake", "Clear the deadline after handshake so
\* the HTTP exchange can proceed" (socks4.go:49, 67): a SOCKS4 proxy that falls
\* silent is never waited for without a deadline, and whoever gets the connection,
\* the request or the idle pool, gets it without one.
DeadlineScoped ==
  \A c \in Conn : /\ conn[c] \in {"write", "read"} => c \in deadline
                  /\ conn[c] \in {"inUse", "idle", "free"} => c \notin deadline

\* Each probe of validateOne is one check with one outcome, however its timeout and
\* its answer race, and POST /validate leaves the figures alone.
VerdictsAddUp ==
  LET In(S) == Cardinality({t \in Validating : at[t] \in S}) IN
  /\ begun = checked + In({"waiting", "exchanging", "passing", "failing"})
  /\ checked = success + failure + In({"passed", "failed"})

\* A report is torn, but never by more than the probes that were between two
\* counters: the outcomes it shows fall short of its checks by at most one per
\* goroutine.
ReportClose ==
  report.pc = "done" =>
    report.checked <= report.success + report.failure + Cardinality(Validating)

\* "a single slow proxy never blocks the worker" (validator.go:313): every probe
\* ends, whatever its proxy does, the SOCKS5 handshake that has no deadline
\* included.
ProbeEnds == \A t \in Prober : (at[t] # "idle") ~> (at[t] = "idle")

\* Every connection is closed in the end: those of rejected handshakes, of probes
\* that timed out during the dial, and those put aside.  A SOCKS5 handshake that
\* goes unanswered is the exception.
ConnCloses == \A c \in Conn : (conn[c] # "free") ~> (conn[c] \in {"free", "greet"})
=============================================================================
