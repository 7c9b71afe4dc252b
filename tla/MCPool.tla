------------------------------- MODULE MCPool -------------------------------
(* Instances of Pool for TLC. *)
EXTENDS Pool, TLC

CONSTANTS a1, a2, http, socks5

\* What the scanner, the validator and LoadAll hand over: a new candidate, a
\* probed struct that is undecided, alive or dead.  OneEach lists an address
\* under one protocol, TwoNames lists a1 under two.
Plausible(p) ==
  CASE p.state = "DISCOVERED" -> p.ok = 0 /\ p.fail = 0
    [] p.state = "VALIDATING" -> p.fail > 0
    [] p.state = "ALIVE"      -> p.ok > 0 /\ p.fail = 0
    [] p.state = "DEAD"       -> p.ok = 0 /\ p.fail = MaxFails

GivenAs(listed) ==
  {p \in Proxy : ~p.dirty /\ p.proto \in listed[p.addr] /\ Plausible(p)}

OneEach == GivenAs(a1 :> {http} @@ a2 :> {socks5})
TwoNames == GivenAs(a1 :> {http, socks5} @@ a2 :> {http})

ObjSymmetry == Permutations(Obj)

\* AddFresh overwrites a struct before anything reads it, so what the unused
\* structs hold at first does not matter.
MCPoolInit ==
  /\ obj = [o \in Obj |-> [addr |-> a1, proto |-> http, state |-> "DISCOVERED",
                           ok |-> 0, fail |-> 0, dirty |-> FALSE]]
  /\ PoolInit

MCPoolSpec == MCPoolInit /\ [][PoolNext]_poolVars
=============================================================================
