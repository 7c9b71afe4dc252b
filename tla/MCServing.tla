----------------------------- MODULE MCServing -----------------------------
(* An instance of Serving for TLC. *)
EXTENDS Serving, TLC

CONSTANTS p1, p2, p3, c1, c2

MCProtoOf == p1 :> "http" @@ p2 :> "http" @@ p3 :> "socks5"
MCAsks == c1 :> {"proxy", "proxies", "rotate"} @@ c2 :> {"rotate"}
MCReading == {[ms |-> 1, score |-> 2], [ms |-> 3, score |-> 0]}
SymId == Permutations({p1, p2})
MCFilter == {[proto |-> "any", ms |-> 0], [proto |-> "http", ms |-> 2]}
=============================================================================
