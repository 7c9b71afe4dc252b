---------------------------- MODULE MCValidation ----------------------------
(* Instances of Validation for TLC. *)
EXTENDS Validation, TLC

CONSTANTS a1, a2, http, mixed, o1, o2, o3

Row(a, p, s, ok, fail) == [addr |-> a, proto |-> p, state |-> s,
                           ok |-> ok, fail |-> fail, dirty |-> FALSE]

New(a, p) == Row(a, p, "DISCOVERED", 0, 0)

\* Rows a former run may have left.
Rows == {Row(a1, http, "ALIVE", 1, 0), Row(a1, http, "VALIDATING", 0, 1),
         Row(a1, http, "DEAD", 0, MaxFails)}
Alive2 == Row(a2, http, "ALIVE", 1, 0)

\* a2 is listed as "mixed", for which there is no transport.
GivenMixed == {New(a1, http), New(a2, mixed)} \cup Rows
GivenHttp == {New(a1, http), New(a2, http), Alive2} \cup Rows

Nothing == [o \in {} |-> New(a1, http)]
OneRow == {o1 :> r : r \in Rows}
StoredAny == {Nothing} \cup OneRow
StoredRows == OneRow \cup {o1 :> r @@ o2 :> Alive2 : r \in Rows}

SymPipeline == Permutations({o2, o3}) \cup Permutations(Worker)
=============================================================================
