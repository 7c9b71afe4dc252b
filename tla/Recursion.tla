----------------------------- MODULE Recursion -----------------------------
(***************************************************************************)
(* Lemmas about loops: what a definition by recursion on the position in a *)
(* list is, and how to prove something about it for lists of any length.   *)
(*                                                                         *)
(* The library's induction theorems are about predicates; these are about  *)
(* sets of numbers and functions, so that first-order provers can use      *)
(* them.                                                                   *)
(***************************************************************************)
EXTENDS Integers, Sequences, WellFoundedInduction, TLAPS

\* Induction: a set that holds 0, and n + 1 with every n, holds every number.
LEMMA SetInduction ==
  ASSUME NEW S, 0 \in S, \A n \in Nat : n \in S => n + 1 \in S
  PROVE  Nat \subseteq S
<1> DEFINE T == Nat \ S
           R == {ss \in Nat \X Nat : ss[1] < ss[2]}
<1>1. IsWellFoundedOn(R, Nat)
  BY NatLessThanWellFounded DEF OpToRel
<1>2. SUFFICES ASSUME T # {} PROVE FALSE
  OBVIOUS
<1>3. PICK n \in T : \A m \in T : <<m, n>> \notin R
  <2> T \subseteq Nat
    OBVIOUS
  <2> HIDE DEF T, R
  <2> QED
    BY <1>1, <1>2, WFMin
<1>4. n # 0 /\ n - 1 \in Nat /\ <<n - 1, n>> \in R
  OBVIOUS
<1> QED
  BY <1>3, <1>4

\* The same for the positions of a list.
LEMMA PositionInduction ==
  ASSUME NEW n \in Nat, NEW S, 0 \in S,
         \A i \in 1..n : i - 1 \in S => i \in S
  PROVE  0..n \subseteq S
<1> DEFINE T == {i \in Nat : i <= n => i \in S}
<1>1. 0 \in T
  OBVIOUS
<1>2. ASSUME NEW i \in Nat, i \in T PROVE i + 1 \in T
  <2>1. CASE i + 1 <= n
    <3>1. i + 1 \in 1..n /\ (i + 1) - 1 = i /\ i <= n
      BY <2>1
    <3>2. i \in S
      BY <1>2, <3>1
    <3>3. i + 1 \in S
      BY <3>1, <3>2
    <3> QED
      BY <3>3
  <2> QED
    BY <2>1
<1> HIDE DEF T
<1>3. Nat \subseteq T
  BY <1>1, <1>2, SetInduction
<1> QED
  BY <1>3 DEF T

\* A loop that starts with b and at position i turns x into step[<<x, i>>] has a
\* history: the function of its values, position by position.
LEMMA LoopExists ==
  ASSUME NEW X, NEW b \in X, NEW n \in Nat, NEW step \in [X \X (1..n) -> X]
  PROVE  \E f \in [0..n -> X] :
           f[0] = b /\ \A i \in 1..n : f[i] = step[<<f[i - 1], i>>]
<1> DEFINE History(k, f) == f[0] = b /\ \A i \in 1..k : f[i] = step[<<f[i - 1], i>>]
           S == {k \in 0..n : \E f \in [0..k -> X] : History(k, f)}
<1>1. 0 \in S
  <2> DEFINE f == [i \in 0..0 |-> b]
  <2>1. f \in [0..0 -> X] /\ History(0, f)
    OBVIOUS
  <2> HIDE DEF f
  <2>2. \E g \in [0..0 -> X] : History(0, g)
    BY <2>1
  <2> QED
    BY <2>2
<1>2. ASSUME NEW k \in 1..n, k - 1 \in S PROVE k \in S
  <2>1. PICK f \in [0..(k - 1) -> X] : History(k - 1, f)
    BY <1>2
  <2> DEFINE g == [i \in 0..k |-> IF i = k THEN step[<<f[k - 1], k>>] ELSE f[i]]
  <2>2. f[k - 1] \in X /\ step[<<f[k - 1], k>>] \in X
    OBVIOUS
  <2>3. g \in [0..k -> X]
    BY <2>2
  <2>4. \A i \in 0..(k - 1) : g[i] = f[i]
    OBVIOUS
  <2>5. g[k] = step[<<f[k - 1], k>>]
    OBVIOUS
  <2> HIDE DEF g
  <2>6. ASSUME NEW i \in 1..k PROVE g[i] = step[<<g[i - 1], i>>]
    <3>1. g[i - 1] = f[i - 1]
      BY <2>4
    <3>2. CASE i = k
      BY <2>5, <3>1, <3>2
    <3>3. CASE i # k
      <4>1. i \in 1..(k - 1) /\ i \in 0..(k - 1)
        BY <3>3
      <4> QED
        BY <2>1, <2>4, <3>1, <4>1
    <3> QED
      BY <3>2, <3>3
  <2>7. g[0] = b
    BY <2>1, <2>4
  <2> QED
    BY <2>3, <2>6, <2>7
<1> HIDE DEF S
<1>3. n \in S
  BY <1>1, <1>2, PositionInduction
<1> QED
  BY <1>3 DEF S
=============================================================================
