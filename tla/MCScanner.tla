------------------------------ MODULE MCScanner ------------------------------
(* Instances of Scanner for TLC. *)
EXTENDS Scanner, TLC

CONSTANTS a1, a2, http, socks5, s1, s2, s3

F(a, p) == [addr |-> a, proto |-> p]

\* s1 and s2 list the same address under two protocols, s1 twice in one list.
MCSources == <<s1, s2, s3>>
MCServes == s1 :> {<<F(a1, http), F(a2, http), F(a1, http)>>}
         @@ s2 :> {<<F(a1, socks5)>>}
         @@ s3 :> {<<F(a2, http)>>}
==============================================================================
