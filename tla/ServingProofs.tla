--------------------------- MODULE ServingProofs ---------------------------
(***************************************************************************)
(* Proofs about Serving, for any number of proxies and clients, any        *)
(* readings, filters and limits.                                           *)
(***************************************************************************)
EXTENDS Serving, Recursion, FiniteSetTheorems, SequenceTheorems

-----------------------------------------------------------------------------
(* Remainders *)

LEMMA DivMod ==
  ASSUME NEW a \in Nat, NEW n \in Nat \ {0}
  PROVE  a % n \in 0..(n - 1) /\ a \div n \in Nat /\ a = n * (a \div n) + (a % n)
OBVIOUS

LEMMA RemainderIsUnique ==
  ASSUME NEW n \in Nat \ {0}, NEW x \in Int, NEW y \in Int,
         NEW r \in 0..(n - 1), NEW s \in 0..(n - 1), n * x + r = n * y + s
  PROVE  r = s
<1>1. n * (x - y) = s - r
  OBVIOUS
<1>2. x - y >= 1 => n * (x - y) >= n
  OBVIOUS
<1>3. x - y <= -1 => n * (x - y) <= -n
  OBVIOUS
<1> QED
  BY <1>1, <1>2, <1>3

LEMMA NextRemainder ==
  ASSUME NEW a \in Nat, NEW n \in Nat \ {0}
  PROVE  (a + 1) % n = IF (a % n) + 1 = n THEN 0 ELSE (a % n) + 1
<1>1. PICK r \in 0..(n - 1), q \in Nat : a % n = r /\ a = n * q + r
  BY DivMod
<1>2. PICK s \in 0..(n - 1), p \in Nat : (a + 1) % n = s /\ a + 1 = n * p + s
  <2>1. a + 1 \in Nat
    OBVIOUS
  <2> QED
    BY <2>1, DivMod
<1>3. CASE r + 1 = n
  <2>1. n * (q + 1) = n * q + n
    OBVIOUS
  <2>2. n * (q + 1) + 0 = n * p + s
    BY <1>1, <1>2, <1>3, <2>1
  <2>3. 0 = s
    BY <2>2, RemainderIsUnique
  <2> QED
    BY <1>1, <1>2, <1>3, <2>3
<1>4. CASE r + 1 # n
  <2>1. n * q + (r + 1) = n * p + s /\ r + 1 \in 0..(n - 1)
    BY <1>1, <1>2, <1>4
  <2>2. r + 1 = s
    BY <2>1, RemainderIsUnique
  <2> QED
    BY <1>1, <1>2, <1>4, <2>2
<1> QED
  BY <1>3, <1>4

LEMMA SmallRemainder ==
  ASSUME NEW n \in Nat \ {0}, NEW a \in 0..(n - 1)
  PROVE  a % n = a
<1>1. PICK r \in 0..(n - 1), q \in Nat : a % n = r /\ a = n * q + r
  <2>1. a \in Nat
    OBVIOUS
  <2> QED
    BY <2>1, DivMod
<1>2. n * q + r = n * 0 + a
  BY <1>1
<1>3. r = a
  BY <1>2, RemainderIsUnique
<1> QED
  BY <1>1, <1>3

-----------------------------------------------------------------------------
(* filterAlive *)

\* The lists of candidates a request may have: each proxy at most once.
Distinct == {s \in Seq(Id) : IsInjective(s)}

\* What the loop has kept of the first k ids on offer.
KeptOf(f, k, s) ==
  /\ s \in Seq(Id)
  /\ Range(s) = {order[j] : j \in {j \in 1..k : Matches(f, order[j])}}
  /\ IsInjective(s)
  /\ (\A j \in 1..k : Matches(f, order[j])) => s = SubSeq(order, 1, k)

\* One id more.
LEMMA KeptStep ==
  ASSUME NEW f, order \in Distinct, NEW k \in 1..Len(order), NEW s \in Seq(Id),
         KeptOf(f, k - 1, s)
  PROVE  KeptOf(f, k, With(s, f, order[k]))
<1> DEFINE Kept(m) == {order[j] : j \in {j \in 1..m : Matches(f, order[j])}}
<1>1. order \in Seq(Id) /\ DOMAIN order = 1..Len(order) /\ Len(order) \in Nat
      /\ order[k] \in Id
  BY ElementOfSeq DEF Distinct
<1>2. Kept(k) = Kept(k - 1) \cup (IF Matches(f, order[k]) THEN {order[k]} ELSE {})
  OBVIOUS
<1>3. Range(s) = Kept(k - 1) /\ IsInjective(s)
  BY DEF KeptOf
<1>4. CASE ~Matches(f, order[k])
  BY <1>2, <1>3, <1>4 DEF KeptOf, With
<1>5. CASE Matches(f, order[k])
  <2> DEFINE t == Append(s, order[k])
             e == Len(s) + 1
  <2>1. /\ t \in Seq(Id) /\ DOMAIN t = DOMAIN s \cup {e} /\ e \notin DOMAIN s
        /\ t[e] = order[k] /\ \A j \in DOMAIN s : t[j] = s[j]
    BY <1>1
  <2>2. order[k] \notin Kept(k - 1)
    <3>1. \A j \in 1..(k - 1) : order[j] # order[k]
      BY <1>1 DEF Distinct, IsInjective
    <3> QED
      BY <3>1
  <2> HIDE DEF t, e
  <2>3. Range(t) = Range(s) \cup {order[k]}
    BY <2>1 DEF Range
  <2>4. Range(t) = Kept(k)
    BY <1>2, <1>3, <1>5, <2>3
  <2>5. IsInjective(t)
    <3>1. \A j \in DOMAIN s : t[j] # order[k]
      BY <1>3, <2>1, <2>2 DEF Range
    <3> QED
      BY <1>3, <2>1, <3>1 DEF IsInjective
  <2>6. ASSUME \A j \in 1..k : Matches(f, order[j]) PROVE t = SubSeq(order, 1, k)
    <3>1. \A j \in 1..(k - 1) : Matches(f, order[j])
      BY <2>6, <1>1
    <3>2. s = SubSeq(order, 1, k - 1)
      BY <3>1 DEF KeptOf
    <3>3. SubSeq(order, 1, k) = SubSeq(order, 1, k - 1) \o <<order[k]>>
      <4>1. 1 \in 1..Len(order) /\ k \in 1..Len(order)
        BY <1>1
      <4> QED
        BY <4>1, <1>1, SubSeqRecursiveSecond
    <3>4. t = s \o <<order[k]>>
      BY <1>1 DEF t
    <3> QED
      BY <3>2, <3>3, <3>4
  <2>7. KeptOf(f, k, t)
    BY <2>1, <2>4, <2>5, <2>6 DEF KeptOf
  <2> QED
    BY <1>5, <2>7 DEF t, With
<1> QED
  BY <1>4, <1>5

\* filterAlive returns the ids on offer that match, each once; all of them, in
\* their order, when all match.
LEMMA FilterAliveReturns ==
  order \in Distinct => \A f : KeptOf(f, Len(order), FilterAlive(f))
<1>0. SUFFICES ASSUME order \in Distinct, NEW f
               PROVE  KeptOf(f, Len(order), FilterAlive(f))
  OBVIOUS
<1>1. PICK n : n = Len(order) /\ n \in Nat
  BY <1>0 DEF Distinct
<1> DEFINE X == Seq(Id)
           first == <<>>
           step == [x \in X \X (1..n) |-> With(x[1], f, order[x[2]])]
           Equation(g) == g = [k \in 0..n |-> IF k = 0 THEN first
                                              ELSE With(g[k - 1], f, order[k])]
           kept == CHOOSE g : Equation(g)
           S == {k \in 0..n : kept[k] \in X /\ KeptOf(f, k, kept[k])}
<1>2. \A k \in 1..n : order[k] \in Id
  BY <1>0, <1>1, ElementOfSeq DEF Distinct
<1>3. ASSUME NEW s \in X, NEW k \in 1..n PROVE With(s, f, order[k]) \in X
  BY <1>2 DEF With
<1>4. first \in X /\ KeptOf(f, 0, first)
  <2>1. SubSeq(order, 1, 0) = <<>>
    BY SubSeqEmpty
  <2> QED
    BY <2>1 DEF KeptOf, Range, IsInjective
<1>5. ASSUME NEW s \in X, NEW k \in 1..n, KeptOf(f, k - 1, s)
      PROVE  KeptOf(f, k, With(s, f, order[k]))
  BY <1>0, <1>1, <1>5, KeptStep
<1>6. n \in Nat /\ FilterAlive(f) = kept[n]
  BY <1>1 DEF FilterAlive
<1> HIDE DEF X, first, kept
<1>7. step \in [X \X (1..n) -> X]
  BY <1>3
<1>8. \E g \in [0..n -> X] :
        g[0] = first /\ \A k \in 1..n : g[k] = step[<<g[k - 1], k>>]
  <2>1. n \in Nat /\ first \in X
    BY <1>4, <1>6
  <2> HIDE DEF step
  <2> QED
    BY <2>1, <1>7, LoopExists
<1>9. PICK g : /\ g \in [0..n -> X] /\ g[0] = first
               /\ \A k \in 1..n : g[k] = step[<<g[k - 1], k>>]
  BY <1>8
<1>10. ASSUME NEW k \in 1..n PROVE g[k] = With(g[k - 1], f, order[k])
  <2>1. g[k - 1] \in X
    BY <1>6, <1>9
  <2> QED
    BY <1>9, <2>1
<1>11. Equation(kept)
  <2>1. Equation(g)
    BY <1>6, <1>9, <1>10
  <2> QED
    BY <2>1 DEF kept
<1>12. 0 \in S
  <2>1. kept[0] = first
    BY <1>6, <1>11
  <2> QED
    BY <1>4, <1>6, <2>1
<1>13. ASSUME NEW k \in 1..n, k - 1 \in S PROVE k \in S
  <2>1. kept[k] = With(kept[k - 1], f, order[k])
    BY <1>6, <1>11
  <2> QED
    BY <1>3, <1>5, <1>6, <1>13, <2>1
<1>14. n \in S
  <2> HIDE DEF S
  <2> QED
    BY <1>6, <1>12, <1>13, PositionInduction
<1> QED
  BY <1>1, <1>6, <1>14

LEMMA Candidates ==
  ASSUME order \in Distinct, NEW f
  PROVE  /\ FilterAlive(f) \in Distinct /\ Range(FilterAlive(f)) \subseteq Range(order)
         /\ f \in Filter /\ Unfiltered(f) => FilterAlive(f) = order
<1> DEFINE s == FilterAlive(f)
<1>1. KeptOf(f, Len(order), s)
  BY FilterAliveReturns
<1> HIDE DEF s
<1>2. order \in Seq(Id)
  BY DEF Distinct
<1>3. s \in Distinct /\ Range(s) \subseteq Range(order)
  BY <1>1, <1>2 DEF KeptOf, Distinct, Range
<1>4. ASSUME f \in Filter, Unfiltered(f) PROVE s = order
  <2>1. \A i : Matches(f, i)
    BY <1>4, ServingAssumption DEF ServingAssumption, Unfiltered, Matches
  <2>2. s = SubSeq(order, 1, Len(order))
    BY <1>1, <2>1 DEF KeptOf
  <2> QED
    BY <1>2, <2>2, SubSeqFull
<1> QED
  BY <1>3, <1>4 DEF s

-----------------------------------------------------------------------------
(* Weights *)

LEMMA SumsReturns ==
  \A w \in Seq(Nat) :
    /\ Sums(w) \in [0..Len(w) -> Nat] /\ Sums(w)[0] = 0
    /\ \A k \in 1..Len(w) : Sums(w)[k] = Sums(w)[k - 1] + w[k]
<1>0. SUFFICES ASSUME NEW w, w \in Seq(Nat)
               PROVE  /\ Sums(w) \in [0..Len(w) -> Nat] /\ Sums(w)[0] = 0
                      /\ \A k \in 1..Len(w) : Sums(w)[k] = Sums(w)[k - 1] + w[k]
  OBVIOUS
<1>1. PICK n : n = Len(w) /\ n \in Nat
  BY <1>0
<1> DEFINE X == Nat
           first == 0
           step == [x \in X \X (1..n) |-> x[1] + w[x[2]]]
           Equation(g) == g = [k \in 0..n |-> IF k = 0 THEN 0 ELSE g[k - 1] + w[k]]
           sum == CHOOSE g : Equation(g)
<1>2. n \in Nat /\ Sums(w) = sum
  BY <1>1 DEF Sums
<1>3. \A k \in 1..n : w[k] \in Nat
  BY <1>0, <1>1
<1>4. step \in [X \X (1..n) -> X] /\ first \in X
  BY <1>3
<1> HIDE DEF sum
<1>5. \E g \in [0..n -> X] :
        g[0] = first /\ \A k \in 1..n : g[k] = step[<<g[k - 1], k>>]
  <2>1. n \in Nat
    BY <1>2
  <2> HIDE DEF X, first, step
  <2> QED
    BY <2>1, <1>4, LoopExists
<1>6. PICK g : /\ g \in [0..n -> Nat] /\ g[0] = 0
               /\ \A k \in 1..n : g[k] = step[<<g[k - 1], k>>]
  BY <1>5
<1>7. ASSUME NEW k \in 1..n PROVE g[k] = g[k - 1] + w[k]
  <2>1. g[k - 1] \in Nat
    BY <1>2, <1>6
  <2> QED
    BY <1>6, <2>1
<1>8. Equation(sum)
  <2>1. Equation(g)
    BY <1>2, <1>6, <1>7
  <2> QED
    BY <2>1 DEF sum
<1> DEFINE S == {k \in 0..n : sum[k] \in Nat}
<1>9. 0 \in S
  BY <1>2, <1>8
<1>10. ASSUME NEW k \in 1..n, k - 1 \in S PROVE k \in S
  BY <1>2, <1>3, <1>8, <1>10
<1>11. 0..n \subseteq S
  <2>1. n \in Nat
    BY <1>2
  <2> HIDE DEF S
  <2> QED
    BY <2>1, <1>9, <1>10, PositionInduction
<1>12. sum \in [0..n -> Nat]
  BY <1>8, <1>11
<1> QED
  BY <1>1, <1>2, <1>8, <1>12

\* The running sums do not fall, so that the thresholds that stop at position k are
\* those above the sum before it and not above the one with it.
LEMMA SumsRise ==
  \A w \in Seq(Nat) : \A j, k \in 0..Len(w) : j <= k => Sums(w)[j] <= Sums(w)[k]
<1>0. SUFFICES ASSUME NEW w, w \in Seq(Nat), NEW j \in 0..Len(w)
               PROVE  \A k \in 0..Len(w) : j <= k => Sums(w)[j] <= Sums(w)[k]
  OBVIOUS
<1>1. PICK n, s : n = Len(w) /\ n \in Nat /\ s = Sums(w)
  BY <1>0
<1>2. /\ s \in [0..n -> Nat] /\ n \in Nat /\ j \in 0..n
      /\ \A k \in 1..n : w[k] \in Nat /\ s[k] = s[k - 1] + w[k]
  <2>1. /\ Sums(w) \in [0..Len(w) -> Nat]
        /\ \A k \in 1..Len(w) : Sums(w)[k] = Sums(w)[k - 1] + w[k]
    BY <1>0, SumsReturns
  <2>2. \A k \in 1..Len(w) : w[k] \in Nat
    BY <1>0
  <2> QED
    BY <1>0, <1>1, <2>1, <2>2
<1> DEFINE S == {k \in 0..n : j <= k => s[j] <= s[k]}
<1>3. 0 \in S
  BY <1>2
<1>4. ASSUME NEW k \in 1..n, k - 1 \in S PROVE k \in S
  <2>1. s[k] \in Nat /\ s[k - 1] \in Nat /\ s[j] \in Nat /\ s[k - 1] <= s[k]
    <3>1. s[k] = s[k - 1] + w[k] /\ w[k] \in Nat /\ k - 1 \in 0..n /\ k \in 0..n
      BY <1>2
    <3>2. s[k] \in Nat /\ s[k - 1] \in Nat /\ s[j] \in Nat
      BY <1>2, <3>1
    <3> QED
      BY <3>1, <3>2
  <2>2. j <= k => j = k \/ j <= k - 1
    BY <1>2
  <2> QED
    BY <1>2, <1>4, <2>1, <2>2
<1>5. 0..n \subseteq S
  <2>1. n \in Nat
    BY <1>2
  <2> HIDE DEF S
  <2> QED
    BY <2>1, <1>3, <1>4, PositionInduction
<1> QED
  BY <1>1, <1>5

\* Every threshold up to the total stops somewhere.
LEMMA SumsCover ==
  \A w \in Seq(Nat) : \A t \in 1..Total(w) :
    \E k \in 1..Len(w) : Sums(w)[k - 1] < t /\ t <= Sums(w)[k]
<1>0. SUFFICES ASSUME NEW w, w \in Seq(Nat), NEW t \in 1..Total(w)
               PROVE  \E k \in 1..Len(w) : Sums(w)[k - 1] < t /\ t <= Sums(w)[k]
  OBVIOUS
<1>1. PICK n, s : n = Len(w) /\ n \in Nat /\ s = Sums(w)
  BY <1>0
<1>2. s \in [0..n -> Nat] /\ s[0] = 0 /\ n \in Nat /\ t \in 1..s[n]
  BY <1>0, <1>1, SumsReturns DEF Total
<1> DEFINE S == {k \in 0..n : t <= s[k] => \E j \in 1..k : s[j - 1] < t /\ t <= s[j]}
<1>3. 0 \in S
  BY <1>2
<1>4. ASSUME NEW k \in 1..n, k - 1 \in S PROVE k \in S
  <2>1. s[k] \in Nat /\ s[k - 1] \in Nat /\ t \in Nat /\ k \in 1..k
    BY <1>2
  <2>2. CASE t <= s[k - 1]
    <3>1. PICK j \in 1..(k - 1) : s[j - 1] < t /\ t <= s[j]
      BY <1>4, <2>2
    <3>2. j \in 1..k
      OBVIOUS
    <3> QED
      BY <3>1, <3>2
  <2>3. CASE s[k - 1] < t
    BY <2>1, <2>3
  <2> QED
    BY <2>1, <2>2, <2>3
<1>5. n \in S
  <2>1. n \in Nat
    BY <1>2
  <2> HIDE DEF S
  <2> QED
    BY <2>1, <1>3, <1>4, PositionInduction
<1> QED
  BY <1>1, <1>2, <1>5

\* The pick stops at position k for exactly as many unit intervals as it weighs.
LEMMA PickWeighs ==
  ASSUME NEW w \in Seq(Nat), NEW k \in 1..Len(w)
  PROVE  w[k] = Cardinality({t \in 1..Total(w) : Pick(w, 2 * t - 1) = k})
<1> DEFINE s == Sums(w)
           n == Len(w)
<1>1. /\ s \in [0..n -> Nat] /\ s[0] = 0 /\ n \in Nat /\ DOMAIN w = 1..n
      /\ \A j \in 1..n : w[j] \in Nat /\ s[j] = s[j - 1] + w[j]
  BY SumsReturns
<1>2. \A i, j \in 0..n : i <= j => s[i] <= s[j]
  BY SumsRise
<1>3. Total(w) = s[n]
  BY DEF Total
<1>4. \A t \in 1..s[n] : \E j \in 1..n : s[j - 1] < t /\ t <= s[j]
  BY <1>3, SumsCover
<1> HIDE DEF s, n
<1>5. k \in 1..n
  BY DEF n
<1>6. ASSUME NEW t \in 1..s[n], NEW j \in 1..n, s[j - 1] < t, t <= s[j]
      PROVE  Pick(w, 2 * t - 1) = j
  <2> DEFINE hits == {i \in 1..n : 2 * s[i] >= 2 * t - 1}
  <2>1. \A i \in 0..n : s[i] \in Nat
    BY <1>1
  <2>2. j \in hits
    BY <1>6, <2>1
  <2>3. ASSUME NEW i \in hits PROVE j <= i
    <3>1. CASE i <= j - 1
      <4>1. i \in 0..n /\ j - 1 \in 0..n
        BY <1>1
      <4>2. s[i] <= s[j - 1]
        BY <1>2, <3>1, <4>1
      <4> QED
        BY <1>6, <2>1, <4>1, <4>2
    <3> QED
      BY <1>1, <3>1
  <2>4. \A i \in hits : (\A m \in hits : i <= m) => i = j
    BY <1>1, <2>2, <2>3
  <2>5. Pick(w, 2 * t - 1) = CHOOSE i \in hits : \A m \in hits : i <= m
    BY <1>1, <2>2 DEF Pick, s
  <2> HIDE DEF hits
  <2> QED
    BY <2>2, <2>3, <2>4, <2>5
<1>7. s[k - 1] \in Nat /\ s[k] \in Nat /\ s[n] \in Nat /\ s[k] <= s[n]
      /\ s[k] = s[k - 1] + w[k] /\ w[k] \in Nat
  BY <1>1, <1>2, <1>5
<1>8. {t \in 1..Total(w) : Pick(w, 2 * t - 1) = k} = (s[k - 1] + 1)..s[k]
  <2>1. ASSUME NEW t \in 1..s[n] PROVE Pick(w, 2 * t - 1) = k <=> t \in (s[k - 1] + 1)..s[k]
    <3>1. PICK j \in 1..n : s[j - 1] < t /\ t <= s[j]
      BY <1>4
    <3>2. Pick(w, 2 * t - 1) = j
      BY <1>6, <3>1
    <3>3. s[k - 1] < t /\ t <= s[k] => Pick(w, 2 * t - 1) = k
      BY <1>5, <1>6
    <3>4. Pick(w, 2 * t - 1) = k => s[k - 1] < t /\ t <= s[k]
      BY <3>1, <3>2
    <3>5. t \in Nat /\ (t \in (s[k - 1] + 1)..s[k] <=> s[k - 1] < t /\ t <= s[k])
      BY <1>7
    <3> QED
      BY <3>3, <3>4, <3>5
  <2>2. (s[k - 1] + 1)..s[k] \subseteq 1..s[n]
    BY <1>7
  <2> QED
    BY <1>3, <2>1, <2>2
<1>9. Cardinality((s[k - 1] + 1)..s[k]) = w[k]
  <2> DEFINE a == s[k - 1] + 1
             b == s[k]
  <2>1. a \in Int /\ b \in Int /\ w[k] = IF a > b THEN 0 ELSE b - a + 1
    BY <1>7
  <2> HIDE DEF a, b
  <2>2. Cardinality(a..b) = w[k]
    BY <2>1, FS_Interval
  <2> QED
    BY <2>2 DEF a, b
<1> QED
  BY <1>8, <1>9

-----------------------------------------------------------------------------
(* Sorting *)

LEMMA MinOfTwo ==
  ASSUME NEW a \in Int, NEW b \in Int
  PROVE  Min({a, b}) = IF a <= b THEN a ELSE b
<1> DEFINE m == IF a <= b THEN a ELSE b
<1>1. m \in {a, b} /\ m <= a /\ m <= b
  OBVIOUS
<1>2. \A x \in {a, b} : (\A y \in {a, b} : x =< y) => x = m
  OBVIOUS
<1>3. \A y \in {a, b} : m =< y
  BY <1>1
<1> HIDE DEF m
<1>4. Min({a, b}) = m
  BY <1>1, <1>2, <1>3 DEF Min
<1> QED
  BY <1>4 DEF m

\* A permutation of positions takes every position.
LEMMA PositionsPermuted ==
  ASSUME NEW n \in Nat, NEW p \in SetToSeqs(1..n)
  PROVE  /\ p \in [1..n -> 1..n]
         /\ \A i, j \in 1..n : p[i] = p[j] => i = j
         /\ \A j \in 1..n : \E i \in 1..n : p[i] = j
<1>1. IsFiniteSet(1..n) /\ Cardinality(1..n) = n
  <2>1. 1 \in Int /\ n \in Int
    OBVIOUS
  <2>2. IsFiniteSet(1..n) /\ Cardinality(1..n) = IF 1 > n THEN 0 ELSE n - 1 + 1
    BY <2>1, FS_Interval
  <2> QED
    BY <2>2
<1>2. p \in [1..n -> 1..n] /\ \A i, j \in 1..n : p[i] = p[j] => i = j
  BY <1>1 DEF SetToSeqs
<1>3. p \in Injection(1..n, 1..n)
  BY <1>2 DEF Injection, IsInjective
<1>4. p \in Surjection(1..n, 1..n)
  BY <1>1, <1>3, FS_Injection
<1> QED
  BY <1>2, <1>4 DEF Surjection

LEMMA PermutedReturns ==
  ASSUME NEW s \in Distinct, NEW r \in Permuted(s)
  PROVE  r \in Distinct /\ Len(r) = Len(s) /\ Range(r) = Range(s)
<1>1. PICK n : n = Len(s) /\ n \in Nat /\ DOMAIN s = 1..n
  BY DEF Distinct
<1>2. PICK p \in SetToSeqs(1..n) : r = [k \in 1..n |-> s[p[k]]]
  BY <1>1 DEF Permuted
<1>3. /\ p \in [1..n -> 1..n]
      /\ \A i, j \in 1..n : p[i] = p[j] => i = j
      /\ \A j \in 1..n : \E i \in 1..n : p[i] = j
  <2>1. n \in Nat
    BY <1>1
  <2> QED
    BY <2>1, PositionsPermuted
<1>4. \A k \in 1..n : s[k] \in Id
  BY <1>1 DEF Distinct
<1>5. \A k \in 1..n : r[k] = s[p[k]] /\ r[k] \in Id
  BY <1>2, <1>3, <1>4
<1>6. r \in Seq(Id) /\ Len(r) = n /\ DOMAIN r = 1..n
  BY <1>1, <1>2, <1>5
<1>7. IsInjective(r)
  BY <1>1, <1>3, <1>5, <1>6 DEF Distinct, IsInjective
<1>8. Range(r) = Range(s)
  <2>1. Range(r) = {r[k] : k \in 1..n} /\ Range(s) = {s[k] : k \in 1..n}
    BY <1>1, <1>6 DEF Range
  <2>2. \A k \in 1..n : r[k] = s[p[k]] /\ p[k] \in 1..n
    BY <1>3, <1>5
  <2>3. \A j \in 1..n : \E k \in 1..n : s[j] = r[k]
    BY <1>3, <2>2
  <2>4. ASSUME NEW x \in Range(r) PROVE x \in Range(s)
    BY <2>1, <2>2
  <2>5. ASSUME NEW x \in Range(s) PROVE x \in Range(r)
    BY <2>1, <2>3
  <2> QED
    BY <2>4, <2>5
<1> QED
  BY <1>1, <1>6, <1>7, <1>8 DEF Distinct

\* The first m of a list.
LEMMA CutReturns ==
  ASSUME NEW r \in Distinct, NEW limit \in Nat \ {0}
  PROVE  LET b == Cut(r, limit)
             m == Min({limit, Len(r)}) IN
         /\ b \in Distinct /\ Len(b) = m /\ m \in 0..Len(r)
         /\ \A k \in 1..m : b[k] = r[k]
<1>1. PICK n, m : n = Len(r) /\ m = Min({limit, Len(r)})
  OBVIOUS
<1>2. r \in Seq(Id) /\ IsInjective(r) /\ n \in Nat /\ DOMAIN r = 1..n
  BY <1>1 DEF Distinct
<1>3. n \in Int /\ limit \in Int
  BY <1>2
<1>4. m = IF limit <= n THEN limit ELSE n
  BY <1>1, <1>3, MinOfTwo
<1>5. m \in 0..n
  <2>1. n \in Nat
    BY <1>2
  <2> QED
    BY <1>4, <2>1
<1> DEFINE b == Cut(r, limit)
<1>6. CASE limit < n
  <2>1. m = limit
    BY <1>3, <1>4, <1>6
  <2>2. b = SubSeq(r, 1, m)
    <3>1. limit > 0 /\ limit < Len(r)
      BY <1>1, <1>3, <1>6
    <3> QED
      BY <2>1, <3>1 DEF Cut
  <2>3. \A i \in 1..m : r[i] \in Id
    BY <1>1, <1>2, <1>5
  <2>4. /\ b \in Seq(Id) /\ Len(b) = IF 1 <= m THEN m - 1 + 1 ELSE 0
        /\ \A i \in 1..(m - 1 + 1) : b[i] = r[1 + i - 1]
    <3>1. 1 \in Int /\ m \in Int
      BY <1>5
    <3> QED
      BY <2>2, <2>3, <3>1, SubSeqProperties
  <2>5. b \in Seq(Id) /\ Len(b) = m /\ DOMAIN b = 1..m /\ \A i \in 1..m : b[i] = r[i]
    BY <1>5, <2>4
  <2>6. IsInjective(b)
    BY <1>2, <1>5, <2>5 DEF IsInjective
  <2> QED
    BY <1>1, <1>5, <2>5, <2>6 DEF Distinct
<1>7. CASE ~(limit < n)
  <2>1. m = n
    BY <1>3, <1>4, <1>7
  <2>2. b = r
    BY <1>1, <1>7 DEF Cut
  <2> QED
    BY <1>1, <1>5, <2>1, <2>2
<1> QED
  BY <1>6, <1>7

\* What ListLawful says of one response.
Lawful(cands, limit, key, calm, best) ==
  /\ Range(best) \subseteq Range(cands) /\ IsInjective(best)
  /\ Len(best) = Min({limit, Len(cands)})
  /\ calm => Sorted(key, best)
             /\ \A i \in Range(cands) \ Range(best) : Sorted(key, Append(best, i))

LEMMA SortedAlong ==
  ASSUME NEW key, NEW s \in Seq(Id), NEW r \in Seq(Id), Sorted(key, r),
         NEW q \in [DOMAIN s -> DOMAIN r],
         \A k \in DOMAIN s : s[k] = r[q[k]],
         \A j, k \in DOMAIN s : j < k => q[j] < q[k]
  PROVE  Sorted(key, s)
BY DEF Sorted

LEMMA SortIsLawful ==
  ASSUME NEW s \in Distinct, NEW limit \in Nat \ {0}, NEW key, NEW calm \in BOOLEAN,
         NEW r \in SortResults(key, s, calm)
  PROVE  Cut(r, limit) \in Seq(Id) /\ Lawful(s, limit, key, calm, Cut(r, limit))
<1> DEFINE b == Cut(r, limit)
           m == Min({limit, Len(r)})
<1>1. r \in Permuted(s) /\ (calm => Sorted(key, r))
  BY DEF SortResults
<1>2. r \in Distinct /\ Len(r) = Len(s) /\ Range(r) = Range(s)
  BY <1>1, PermutedReturns
<1>3. /\ b \in Distinct /\ Len(b) = m /\ m \in 0..Len(r)
      /\ \A k \in 1..m : b[k] = r[k]
  BY <1>2, CutReturns
<1>4. /\ r \in Seq(Id) /\ IsInjective(r) /\ DOMAIN r = 1..Len(r) /\ Len(r) \in Nat
      /\ b \in Seq(Id) /\ IsInjective(b) /\ DOMAIN b = 1..m
  BY <1>2, <1>3 DEF Distinct
<1>5. Len(b) = Min({limit, Len(s)})
  BY <1>2, <1>3
<1> HIDE DEF b, m
<1>6. Range(b) \subseteq Range(s)
  <2>1. Range(b) \subseteq Range(r)
    BY <1>3, <1>4 DEF Range
  <2> QED
    BY <1>2, <2>1
<1>7. ASSUME calm PROVE Sorted(key, b)
  <2> DEFINE q == [k \in 1..m |-> k]
  <2>1. q \in [DOMAIN b -> DOMAIN r]
    BY <1>3, <1>4
  <2>2. \A k \in DOMAIN b : b[k] = r[q[k]]
    BY <1>3, <1>4
  <2>3. \A j, k \in DOMAIN b : j < k => q[j] < q[k]
    BY <1>4
  <2>4. Sorted(key, r)
    BY <1>1, <1>7
  <2> HIDE DEF q
  <2> QED
    BY <1>4, <2>1, <2>2, <2>3, <2>4, SortedAlong
<1>8. ASSUME calm, NEW i \in Range(s) \ Range(b) PROVE Sorted(key, Append(b, i))
  <2>1. PICK e \in 1..Len(r) : r[e] = i
    BY <1>2, <1>4 DEF Range
  <2>2. m < e
    BY <1>3, <1>4, <1>8, <2>1 DEF Range
  <2> DEFINE a == Append(b, i)
             q == [k \in 1..(m + 1) |-> IF k = m + 1 THEN e ELSE k]
  <2>3. /\ a \in Seq(Id) /\ DOMAIN a = 1..(m + 1) /\ a[m + 1] = i
        /\ \A k \in 1..m : a[k] = b[k]
    <3>1. i \in Id
      BY <1>4, <2>1
    <3> QED
      BY <1>3, <1>4, <3>1
  <2>4. q \in [DOMAIN a -> DOMAIN r]
    BY <1>3, <1>4, <2>3
  <2> HIDE DEF a
  <2>5. \A k \in DOMAIN a : a[k] = r[q[k]]
    BY <1>3, <1>4, <2>1, <2>3
  <2>6. \A j, k \in DOMAIN a : j < k => q[j] < q[k]
    <3>1. m \in Nat /\ e \in Nat
      BY <1>3, <1>4
    <3>2. \A j, k \in 1..(m + 1) : j < k => q[j] < q[k]
      BY <2>2, <3>1
    <3> QED
      BY <2>3, <3>2
  <2>7. Sorted(key, r)
    BY <1>1, <1>8
  <2> HIDE DEF q
  <2>8. Sorted(key, a)
    BY <1>4, <2>3, <2>4, <2>5, <2>6, <2>7, SortedAlong
  <2> QED
    BY <2>8 DEF a
<1> QED
  BY <1>4, <1>5, <1>6, <1>7, <1>8 DEF Lawful, b

-----------------------------------------------------------------------------
(* The inductive invariant *)

Waiting == {s \in Distinct : s # <<>>}

\* The requests there are.
ProxyListed == [pc : {"listed"}, kind : {"proxy"}, cands : Waiting, total : Int,
                calm : BOOLEAN]
RotateListed == [pc : {"listed"}, kind : {"rotate"}, cands : Waiting, plain : BOOLEAN]
ProxiesListed == [pc : {"listed"}, kind : {"proxies"}, cands : Waiting,
                  limit : 1..MaxLimit, key : Key, calm : BOOLEAN]
ProxyPicked == [pc : {"picked"}, kind : {"proxy"}, cands : Waiting]
ProxiesSorted == [pc : {"sorted"}, kind : {"proxies"}, cands : Waiting,
                  calm : BOOLEAN, key : Key, limit : 1..MaxLimit, best : Seq(Id)]
Requests == {NoRequest} \cup ProxyListed \cup RotateListed \cup ProxiesListed
            \cup ProxyPicked \cup ProxiesSorted

Types ==
  /\ val \in [Id -> Reading] /\ order \in Distinct
  /\ rrIdx \in 0..(RrMod - 1)
  /\ turns \in [Id -> Nat] /\ skewed \in BOOLEAN
  /\ req \in [Client -> Requests]

\* An unfiltered rotation that waits was listed from the order still on offer: its
\* read lock keeps the rebuild out.
Current ==
  \A c \in Client : At(c, "rotate") /\ req[c].plain => req[c].cands = order

\* The ids a turn ahead are the m that the index passed last, going round.
JustPassed(q, m, n, p) == (q - m <= p /\ p < q) \/ q - m + n <= p

\* Between two rebuilds and with no filtered rotation the turns go round.
GoneRound ==
  LET n == Len(order) IN
  (~skewed /\ n > 0) =>
    \E m \in 0..(n - 1) :
      \A p \in 0..(n - 1) :
        turns[order[p + 1]] = IF JustPassed(rrIdx % n, m, n, p) THEN 1 ELSE 0

\* A total is that of the scores still shown, unless a struct was written to.
TotalCurrent ==
  \A c \in Client :
    At(c, "proxy") /\ req[c].calm => req[c].total = Total(Scores(req[c].cands))

IInv == Types /\ Current /\ GoneRound /\ TotalCurrent /\ ListLawful

-----------------------------------------------------------------------------
(* Requests *)

LEMMA Kinds ==
  ASSUME NEW x \in Requests
  PROVE  /\ x.pc = "listed" /\ x.kind = "proxy" => x \in ProxyListed
         /\ x.pc = "listed" /\ x.kind = "rotate" => x \in RotateListed
         /\ x.pc = "listed" /\ x.kind = "proxies" => x \in ProxiesListed
         /\ x.pc = "picked" => x \in ProxyPicked
         /\ x.pc = "sorted" => x \in ProxiesSorted
         /\ x.pc \in {"idle", "listed", "picked", "sorted"}
         /\ x.pc = "idle" => x = NoRequest
BY DEF Requests, NoRequest, ProxyListed, RotateListed, ProxiesListed, ProxyPicked,
       ProxiesSorted

LEMMA ScoresTyped ==
  ASSUME val \in [Id -> Reading], NEW s \in Seq(Id)
  PROVE  Scores(s) \in Seq(Nat) /\ Len(Scores(s)) = Len(s) /\ DOMAIN Scores(s) = DOMAIN s
<1> DEFINE w == Scores(s)
<1>1. Len(s) \in Nat /\ DOMAIN s = 1..Len(s) /\ \A k \in 1..Len(s) : s[k] \in Id
  BY ElementOfSeq
<1>2. \A k \in 1..Len(s) : val[s[k]].score \in Nat
  BY <1>1, ServingAssumption DEF ServingAssumption
<1>3. w = [k \in 1..Len(s) |-> val[s[k]].score]
  BY <1>1 DEF Scores
<1>4. w \in Seq(Nat) /\ Len(w) = Len(s) /\ DOMAIN w = 1..Len(s)
  BY <1>1, <1>2, <1>3
<1> QED
  BY <1>1, <1>4

LEMMA TotalTyped == \A w \in Seq(Nat) : Total(w) \in Nat
<1> SUFFICES ASSUME NEW w \in Seq(Nat) PROVE Total(w) \in Nat
  OBVIOUS
<1>1. Sums(w) \in [0..Len(w) -> Nat] /\ Len(w) \in Nat
  BY SumsReturns
<1> QED
  BY <1>1 DEF Total

LEMMA LeastOf ==
  ASSUME NEW n \in Nat, NEW hits \in SUBSET (1..n), hits # {}
  PROVE  (CHOOSE k \in hits : \A j \in hits : k <= j) \in hits
<1> DEFINE Least(k) == k \in hits /\ \A j \in hits : k <= j
           S == {i \in 0..n : (\E j \in hits : j <= i) => \E k \in hits : Least(k)}
<1>1. 0 \in S
  OBVIOUS
<1>2. ASSUME NEW i \in 1..n, i - 1 \in S PROVE i \in S
  <2>1. CASE \E j \in hits : j <= i - 1
    BY <1>2, <2>1
  <2>2. CASE ~\E j \in hits : j <= i - 1
    <3>1. \A j \in hits : i <= j
      BY <2>2
    <3>2. \A j \in hits : j <= i => j = i
      BY <3>1
    <3> QED
      BY <3>1, <3>2
  <2> QED
    BY <2>1, <2>2
<1>3. n \in S
  <2> HIDE DEF S
  <2> QED
    BY <1>1, <1>2, PositionInduction
<1>4. \E k \in hits : \A j \in hits : k <= j
  <2>1. PICK j \in hits : TRUE
    OBVIOUS
  <2>2. j <= n
    BY <2>1
  <2> QED
    BY <1>3, <2>2
<1> QED
  BY <1>4

\* A pick is a position.
LEMMA PickTyped ==
  ASSUME NEW w \in Seq(Nat), Len(w) > 0, NEW t
  PROVE  Pick(w, t) \in 1..Len(w)
<1> DEFINE hits == {k \in DOMAIN w : 2 * Sums(w)[k] >= t}
<1>1. Len(w) \in Nat /\ DOMAIN w = 1..Len(w) /\ Len(w) \in 1..Len(w)
  OBVIOUS
<1>2. hits \in SUBSET (1..Len(w))
  BY <1>1
<1>3. Pick(w, t) = IF hits = {} THEN Len(w) ELSE CHOOSE k \in hits : \A j \in hits : k <= j
  BY DEF Pick
<1> HIDE DEF hits
<1>4. hits # {} => (CHOOSE k \in hits : \A j \in hits : k <= j) \in hits
  BY <1>1, <1>2, LeastOf
<1> QED
  BY <1>1, <1>2, <1>3, <1>4

\* A response stays in order while no struct is written to.
LEMMA LawfulStays ==
  ASSUME val' = val, NEW cands, NEW limit, NEW key, NEW calm, NEW best,
         Lawful(cands, limit, key, calm, best)
  PROVE  Lawful(cands, limit, key, calm, best)'
<1>1. ASSUME NEW s, Sorted(key, s) PROVE Sorted(key, s)'
  BY <1>1 DEF Sorted
<1>2. calm => Sorted(key, best)'
              /\ \A i \in Range(cands) \ Range(best) : Sorted(key, Append(best, i))'
  BY <1>1 DEF Lawful
<1> QED
  BY <1>2 DEF Lawful

\* What one client's request becomes leaves those of the others as good as they were.
LEMMA RequestStep ==
  ASSUME Types, Current, TotalCurrent, ListLawful, NEW c \in Client, NEW x \in Requests,
         req' = [req EXCEPT ![c] = x], val' = val, order' = order,
         x \in RotateListed /\ x.plain => x.cands = order,
         x \in ProxyListed /\ x.calm => x.total = Total(Scores(x.cands)),
         x \in ProxiesSorted => Lawful(x.cands, x.limit, x.key, x.calm, x.best)
  PROVE  req' \in [Client -> Requests] /\ Current' /\ TotalCurrent' /\ ListLawful'
<1>1. /\ req \in [Client -> Requests] /\ req' \in [Client -> Requests] /\ req'[c] = x
      /\ \A d \in Client \ {c} : req'[d] = req[d]
  BY DEF Types
<1>2. Current'
  <2> SUFFICES ASSUME NEW d \in Client, req'[d].pc = "listed", req'[d].kind = "rotate",
                      req'[d].plain
               PROVE  req'[d].cands = order
    BY DEF Current, At
  <2>1. CASE d = c
    <3>1. x \in RotateListed
      BY <1>1, <2>1, Kinds
    <3> QED
      BY <1>1, <2>1, <3>1
  <2>2. CASE d # c
    BY <1>1, <2>2 DEF Current, At
  <2> QED
    BY <2>1, <2>2
<1>3. TotalCurrent'
  <2> SUFFICES ASSUME NEW d \in Client, req'[d].pc = "listed", req'[d].kind = "proxy",
                      req'[d].calm
               PROVE  req'[d].total = Total(Scores(req'[d].cands))
    <3>1. ASSUME NEW d \in Client
          PROVE  Scores(req[d].cands)' = Scores(req'[d].cands)
      BY DEF Scores
    <3>2. ASSUME NEW d \in Client
          PROVE  Total(Scores(req[d].cands))' = Total(Scores(req'[d].cands))
      BY <3>1
    <3> QED
      BY <3>2 DEF TotalCurrent, At
  <2>1. CASE d = c
    <3>1. x \in ProxyListed
      BY <1>1, <2>1, Kinds
    <3> QED
      BY <1>1, <2>1, <3>1
  <2>2. CASE d # c
    BY <1>1, <2>2 DEF TotalCurrent, At
  <2> QED
    BY <2>1, <2>2
<1>4. ListLawful'
  <2> SUFFICES ASSUME NEW d \in Client, NEW y, y = req'[d], y.pc = "sorted"
               PROVE  Lawful(y.cands, y.limit, y.key, y.calm, y.best)'
    BY DEF ListLawful, Lawful
  <2>1. Lawful(y.cands, y.limit, y.key, y.calm, y.best)
    <3>1. CASE d = c
      BY <1>1, <3>1, Kinds
    <3>2. CASE d # c
      BY <1>1, <3>2 DEF ListLawful, Lawful
    <3> QED
      BY <3>1, <3>2
  <2> QED
    BY <2>1, LawfulStays
<1> QED
  BY <1>1, <1>2, <1>3, <1>4

-----------------------------------------------------------------------------
(* Each step preserves the invariant *)

LEMMA InitHolds == Init => IInv
<1> SUFFICES ASSUME Init PROVE IInv
  OBVIOUS
<1>1. <<>> \in Distinct /\ Len(<<>>) = 0
  BY DEF Distinct, IsInjective
<1>2. \A c \in Client : req[c] = NoRequest
  BY DEF Init
<1>3. Types
  <2>1. req \in [Client -> Requests]
    BY DEF Init, Requests
  <2>2. rrIdx \in 0..(RrMod - 1)
    BY ServingAssumption DEF ServingAssumption, Init
  <2>3. turns \in [Id -> Nat]
    BY DEF Init
  <2> QED
    BY <1>1, <2>1, <2>2, <2>3 DEF Init, Types
<1>4. Current /\ TotalCurrent /\ ListLawful
  BY <1>2 DEF Current, TotalCurrent, ListLawful, At, NoRequest
<1>5. GoneRound
  BY <1>1 DEF Init, GoneRound
<1> QED
  BY <1>3, <1>4, <1>5 DEF IInv

\* Any step but a rotation and a rebuild leaves the turns alone.
LEMMA RoundStays ==
  ASSUME GoneRound, order' = order, rrIdx' = rrIdx, turns' = turns, skewed' = skewed
  PROVE  GoneRound'
BY DEF GoneRound

LEMMA ListStep ==
  ASSUME IInv, NEW c \in Client, NEW f, NEW x \in Requests, List(c, f, x),
         x \in RotateListed /\ x.plain => x.cands = order,
         x \in ProxyListed => x.total = Total(Scores(x.cands)),
         x \notin ProxiesSorted
  PROVE  IInv'
<1>1. /\ req' = [req EXCEPT ![c] = x] /\ val' = val /\ order' = order /\ rrIdx' = rrIdx
      /\ turns' = turns /\ skewed' = skewed
  BY DEF List
<1>2. req' \in [Client -> Requests] /\ Current' /\ TotalCurrent' /\ ListLawful'
  BY <1>1, RequestStep DEF IInv
<1>3. Types'
  BY <1>1, <1>2 DEF IInv, Types
<1>4. GoneRound'
  BY <1>1, RoundStays DEF IInv
<1> QED
  BY <1>2, <1>3, <1>4 DEF IInv

LEMMA AskStep ==
  ASSUME IInv, NEW c \in Client, NEW f \in Filter,
         AskProxy(c, f) \/ AskRotate(c, f)
           \/ \E l \in LimitParam, key \in Key : AskProxies(c, f, l, key)
  PROVE  IInv'
<1> DEFINE s == FilterAlive(f)
<1>1. order \in Distinct
  BY DEF IInv, Types
<1>2. s \in Distinct /\ (Unfiltered(f) => s = order)
  BY <1>1, Candidates
<1>3. ASSUME s # <<>> PROVE s \in Waiting
  BY <1>2, <1>3 DEF Waiting
<1>4. CASE AskProxy(c, f)
  <2> DEFINE x == [pc |-> "listed", kind |-> "proxy", cands |-> s,
                   total |-> Total(Scores(s)), calm |-> TRUE]
  <2>1. List(c, f, x) /\ s # <<>>
    BY <1>4 DEF AskProxy, List
  <2>2. Total(Scores(s)) \in Int
    <3>1. Scores(s) \in Seq(Nat)
      BY <1>2, ScoresTyped DEF Distinct, IInv, Types
    <3> QED
      BY <3>1, TotalTyped
  <2> HIDE DEF s
  <2>3. x \in Requests
    BY <1>3, <2>1, <2>2 DEF Requests, ProxyListed
  <2>4. x \notin RotateListed /\ x \notin ProxiesSorted /\ x.total = Total(Scores(x.cands))
    BY DEF RotateListed, ProxiesSorted
  <2> HIDE DEF x
  <2> QED
    BY <2>1, <2>3, <2>4, ListStep
<1>5. CASE AskRotate(c, f)
  <2> DEFINE x == [pc |-> "listed", kind |-> "rotate", cands |-> s,
                   plain |-> Unfiltered(f)]
  <2>1. List(c, f, x) /\ s # <<>>
    BY <1>5 DEF AskRotate, List
  <2>2. Unfiltered(f) \in BOOLEAN
    BY DEF Unfiltered
  <2> HIDE DEF s
  <2>3. x \in Requests
    BY <1>3, <2>1, <2>2 DEF Requests, RotateListed
  <2>4. x \notin ProxyListed /\ x \notin ProxiesSorted /\ (x.plain => x.cands = order)
    BY <1>2 DEF ProxyListed, ProxiesSorted
  <2> HIDE DEF x
  <2> QED
    BY <2>1, <2>3, <2>4, ListStep
<1>6. ASSUME NEW l \in LimitParam, NEW key \in Key, AskProxies(c, f, l, key)
      PROVE  IInv'
  <2> DEFINE x == [pc |-> "listed", kind |-> "proxies", cands |-> s,
                   limit |-> EffectiveLimit(l), key |-> key, calm |-> TRUE]
  <2>1. List(c, f, x) /\ s # <<>>
    BY <1>6 DEF AskProxies, List
  <2>2. EffectiveLimit(l) \in 1..MaxLimit
    BY ServingAssumption DEF ServingAssumption, EffectiveLimit
  <2> HIDE DEF s
  <2>3. x \in Requests
    BY <1>3, <2>1, <2>2 DEF Requests, ProxiesListed
  <2>4. x \notin ProxyListed /\ x \notin ProxiesSorted /\ x \notin RotateListed
    BY DEF ProxyListed, ProxiesSorted, RotateListed
  <2> HIDE DEF x
  <2> QED
    BY <2>1, <2>3, <2>4, ListStep
<1> QED
  BY <1>4, <1>5, <1>6

LEMMA PickStep ==
  ASSUME IInv, NEW c \in Client, PickRandom(c)
  PROVE  IInv'
<1>1. req[c] \in ProxyListed
  BY Kinds DEF IInv, Types, PickRandom, At
<1> DEFINE s == req[c].cands
<1>2. s \in Seq(Id) /\ Len(s) \in Nat /\ Len(s) > 0 /\ DOMAIN s = 1..Len(s)
  <2>1. s \in Seq(Id) /\ s # <<>>
    BY <1>1 DEF ProxyListed, Waiting, Distinct
  <2> HIDE DEF s
  <2> QED
    BY <2>1
<1>3. PICK k \in WeightedPick(c) :
        req' = [req EXCEPT ![c] = [pc |-> "picked", kind |-> "proxy",
                                   cands |-> <<@.cands[k]>>]]
  BY DEF PickRandom
<1>4. k \in 1..Len(s)
  <2>1. CASE req[c].total <= 0
    BY <1>2, <2>1 DEF WeightedPick
  <2>2. CASE ~(req[c].total <= 0)
    <3>1. PICK t : k = Pick(Scores(s), t)
      BY <2>2 DEF WeightedPick
    <3>2. Scores(s) \in Seq(Nat) /\ Len(Scores(s)) = Len(s)
      BY <1>2, ScoresTyped DEF IInv, Types
    <3> HIDE DEF s
    <3>3. k \in 1..Len(Scores(s))
      BY <1>2, <3>1, <3>2, PickTyped
    <3> QED
      BY <3>2, <3>3
  <2> QED
    BY <2>1, <2>2
<1> DEFINE x == [pc |-> "picked", kind |-> "proxy", cands |-> <<s[k]>>]
<1>5. req' = [req EXCEPT ![c] = x]
  BY <1>3
<1>6. x \in Requests
  <2>1. s[k] \in Id
    BY <1>2, <1>4
  <2>2. <<s[k]>> \in Waiting
    BY <2>1 DEF Waiting, Distinct, IsInjective
  <2> QED
    BY <2>2 DEF Requests, ProxyPicked
<1>7. x \notin ProxyListed /\ x \notin RotateListed /\ x \notin ProxiesSorted
  BY DEF ProxyListed, RotateListed, ProxiesSorted
<1>8. val' = val /\ order' = order /\ rrIdx' = rrIdx /\ turns' = turns /\ skewed' = skewed
  BY DEF PickRandom
<1> HIDE DEF x
<1>9. req' \in [Client -> Requests] /\ Current' /\ TotalCurrent' /\ ListLawful'
  BY <1>5, <1>6, <1>7, <1>8, RequestStep DEF IInv
<1>10. Types' /\ GoneRound'
  BY <1>8, <1>9, RoundStays DEF IInv, Types
<1> QED
  BY <1>9, <1>10 DEF IInv

LEMMA SortStep ==
  ASSUME IInv, NEW c \in Client, Sort(c)
  PROVE  IInv'
<1>1. req[c] \in ProxiesListed
  BY Kinds DEF IInv, Types, Sort, At
<1>2. PICK y : y = req[c]
  OBVIOUS
<1>3. /\ y.cands \in Waiting /\ y.limit \in 1..MaxLimit /\ y.key \in Key
      /\ y.calm \in BOOLEAN
  BY <1>1, <1>2 DEF ProxiesListed
<1>4. PICK s \in SortResults(y.key, y.cands, y.calm) :
        req' = [req EXCEPT ![c] =
          [pc |-> "sorted", kind |-> "proxies", cands |-> @.cands, calm |-> @.calm,
           key |-> @.key, limit |-> @.limit, best |-> Cut(s, @.limit)]]
  BY <1>2 DEF Sort
<1> DEFINE x == [pc |-> "sorted", kind |-> "proxies", cands |-> y.cands,
                 calm |-> y.calm, key |-> y.key, limit |-> y.limit,
                 best |-> Cut(s, y.limit)]
<1>5. req' = [req EXCEPT ![c] = x]
  BY <1>2, <1>4
<1>6. Cut(s, y.limit) \in Seq(Id) /\ Lawful(y.cands, y.limit, y.key, y.calm, Cut(s, y.limit))
  <2>1. y.cands \in Distinct /\ y.limit \in Nat \ {0}
    BY <1>3, ServingAssumption DEF ServingAssumption, Waiting
  <2> QED
    BY <1>3, <2>1, SortIsLawful
<1>7. x \in Requests
  BY <1>3, <1>6 DEF Requests, ProxiesSorted
<1>8. x \notin ProxyListed /\ x \notin RotateListed
      /\ Lawful(x.cands, x.limit, x.key, x.calm, x.best)
  BY <1>6 DEF ProxyListed, RotateListed
<1>9. val' = val /\ order' = order /\ rrIdx' = rrIdx /\ turns' = turns /\ skewed' = skewed
  BY DEF Sort
<1> HIDE DEF x
<1>10. req' \in [Client -> Requests] /\ Current' /\ TotalCurrent' /\ ListLawful'
  BY <1>5, <1>7, <1>8, <1>9, RequestStep DEF IInv
<1>11. Types' /\ GoneRound'
  BY <1>9, <1>10, RoundStays DEF IInv, Types
<1> QED
  BY <1>10, <1>11 DEF IInv

LEMMA NoRequestStep ==
  ASSUME IInv, NEW c \in Client, Serves(c), val' = val, order' = order
  PROVE  req' \in [Client -> Requests] /\ Current' /\ TotalCurrent' /\ ListLawful'
<1>1. req' = [req EXCEPT ![c] = NoRequest] /\ NoRequest \in Requests
  BY DEF Serves, Requests
<1>2. NoRequest \notin ProxyListed /\ NoRequest \notin RotateListed
      /\ NoRequest \notin ProxiesSorted
  BY DEF NoRequest, ProxyListed, RotateListed, ProxiesSorted
<1> QED
  BY <1>1, <1>2, RequestStep DEF IInv

LEMMA RespondStep ==
  ASSUME IInv, NEW c \in Client, Respond(c)
  PROVE  IInv'
<1>1. Serves(c) /\ val' = val /\ order' = order /\ rrIdx' = rrIdx
      /\ turns' = turns /\ skewed' = skewed
  BY DEF Respond
<1>2. req' \in [Client -> Requests] /\ Current' /\ TotalCurrent' /\ ListLawful'
  BY <1>1, NoRequestStep
<1>3. Types' /\ GoneRound'
  BY <1>1, <1>2, RoundStays DEF IInv, Types
<1> QED
  BY <1>2, <1>3 DEF IInv

\* The index goes from q to the next position, and the ids a turn ahead with it.
LEMMA PassedStep ==
  ASSUME NEW n \in Nat \ {0}, NEW q \in 0..(n - 1), NEW m \in 0..(n - 1),
         NEW p \in 0..(n - 1)
  PROVE  LET r == IF q + 1 = n THEN 0 ELSE q + 1 IN
         /\ ~JustPassed(q, m, n, q) /\ ~JustPassed(r, 0, n, p)
         /\ m + 1 < n => (JustPassed(r, m + 1, n, p) <=> p = q \/ JustPassed(q, m, n, p))
         /\ m + 1 = n => p = q \/ JustPassed(q, m, n, p)
BY DEF JustPassed

\* Before the last id of a turn there is one more still behind.
LEMMA OneBehind ==
  ASSUME NEW n \in Nat \ {0}, NEW q \in 0..(n - 1), NEW m \in 0..(n - 1), m + 1 < n
  PROVE  \E p \in 0..(n - 1) : p # q /\ ~JustPassed(q, m, n, p)
<1> DEFINE p == IF q + 1 = n THEN 0 ELSE q + 1
<1>1. p \in 0..(n - 1) /\ p # q /\ ~JustPassed(q, m, n, p)
  BY DEF JustPassed
<1> QED
  BY <1>1

\* Plain rotations serve position rrIdx % n of the order, and go round it.
LEMMA RoundStep ==
  ASSUME Types, GoneRound, order' = order, ~skewed, ~skewed',
         NEW n, n = Len(order), n > 0,
         rrIdx' = rrIdx + 1, turns' = Served(order[(rrIdx % n) + 1])
  PROVE  GoneRound'
<1>1. /\ n \in Nat \ {0} /\ rrIdx \in Nat /\ DOMAIN order = 1..n
      /\ turns \in [Id -> Nat]
      /\ \A k \in 1..n : order[k] \in Id
      /\ \A j, k \in 1..n : order[j] = order[k] => j = k
  <2>1. order \in Seq(Id) /\ IsInjective(order) /\ DOMAIN order = 1..n
    BY DEF Types, Distinct
  <2>2. n \in Nat
    BY <2>1
  <2>3. \A k \in 1..n : order[k] \in Id
    BY <2>1, ElementOfSeq
  <2>4. \A j, k \in 1..n : order[j] = order[k] => j = k
    BY <2>1 DEF IsInjective
  <2>5. rrIdx \in Nat /\ turns \in [Id -> Nat]
    BY ServingAssumption DEF ServingAssumption, Types
  <2> QED
    BY <2>1, <2>2, <2>3, <2>4, <2>5
<1> DEFINE q == rrIdx % n
           r == IF q + 1 = n THEN 0 ELSE q + 1
<1>2. q \in 0..(n - 1) /\ (rrIdx + 1) % n = r
  BY <1>1, DivMod, NextRemainder
<1>3. rrIdx' % n = r
  BY <1>2
<1>4. PICK m \in 0..(n - 1) :
        \A p \in 0..(n - 1) :
          turns[order[p + 1]] = IF JustPassed(q, m, n, p) THEN 1 ELSE 0
  BY DEF GoneRound
<1> HIDE DEF q, r
<1> DEFINE i == order[q + 1]
           more == [turns EXCEPT ![i] = @ + 1]
<1>5. i \in Id /\ q + 1 \in 1..n
  BY <1>1, <1>2
<1>6. ASSUME NEW p \in 0..(n - 1)
      PROVE  /\ order[p + 1] \in Id /\ (order[p + 1] = i <=> p = q)
             /\ more[order[p + 1]] = IF p = q \/ JustPassed(q, m, n, p) THEN 1 ELSE 0
  <2>1. p + 1 \in 1..n
    BY <1>1
  <2>2. order[p + 1] \in Id /\ (order[p + 1] = i <=> p = q)
    BY <1>1, <1>2, <1>5, <2>1
  <2>3. more[order[p + 1]] = IF p = q THEN turns[i] + 1 ELSE turns[order[p + 1]]
    BY <1>1, <1>5, <2>2
  <2>4. turns[i] = 0
    <3>1. ~JustPassed(q, m, n, q)
      BY <1>1, <1>2, PassedStep
    <3> QED
      BY <1>2, <1>4, <3>1
  <2> QED
    BY <1>4, <2>2, <2>3, <2>4
<1>7. Range(order) = {order[p + 1] : p \in 0..(n - 1)}
  <2>1. \A k \in 1..n : k - 1 \in 0..(n - 1) /\ (k - 1) + 1 = k
    BY <1>1
  <2>2. \A p \in 0..(n - 1) : p + 1 \in 1..n
    BY <1>1
  <2>3. Range(order) = {order[k] : k \in 1..n}
    BY <1>1 DEF Range
  <2> QED
    BY <2>1, <2>2, <2>3
<1> DEFINE on == Range(order)
<1>8. turns' = IF \A j \in on : more[j] > 0
               THEN [j \in Id |-> IF j \in on THEN more[j] - 1 ELSE 0] ELSE more
  BY DEF Served, q
<1> HIDE DEF i, more, on
<1>9. CASE m + 1 < n
  <2>1. \E o \in 0..(n - 1) : o # q /\ ~JustPassed(q, m, n, o)
    BY <1>1, <1>2, <1>9, OneBehind
  <2>2. ~\A j \in on : more[j] > 0
    BY <1>6, <1>7, <2>1 DEF on
  <2>3. turns' = more
    BY <1>8, <2>2
  <2>4. ASSUME NEW p \in 0..(n - 1)
        PROVE  turns'[order[p + 1]] = IF JustPassed(r, m + 1, n, p) THEN 1 ELSE 0
    <3>1. JustPassed(r, m + 1, n, p) <=> p = q \/ JustPassed(q, m, n, p)
      BY <1>1, <1>2, <1>9, PassedStep DEF r
    <3> QED
      BY <1>6, <2>3, <3>1
  <2>5. m + 1 \in 0..(n - 1)
    BY <1>1, <1>9
  <2> QED
    BY <1>3, <2>4, <2>5 DEF GoneRound
<1>10. CASE ~(m + 1 < n)
  <2>1. m + 1 = n
    BY <1>1, <1>10
  <2>2. \A p \in 0..(n - 1) : more[order[p + 1]] = 1
    <3>1. \A p \in 0..(n - 1) : p = q \/ JustPassed(q, m, n, p)
      BY <1>1, <1>2, <2>1, PassedStep
    <3> QED
      BY <1>6, <3>1
  <2>3. turns' = [j \in Id |-> IF j \in on THEN more[j] - 1 ELSE 0]
    BY <1>7, <1>8, <2>2 DEF on
  <2>4. ASSUME NEW p \in 0..(n - 1)
        PROVE  turns'[order[p + 1]] = IF JustPassed(r, 0, n, p) THEN 1 ELSE 0
    <3>1. ~JustPassed(r, 0, n, p)
      BY <1>1, <1>2, <2>1, PassedStep DEF r
    <3>2. order[p + 1] \in Id /\ order[p + 1] \in on /\ more[order[p + 1]] = 1
      BY <1>6, <1>7, <2>2 DEF on
    <3>3. turns'[order[p + 1]] = 0
      BY <2>3, <3>2
    <3> QED
      BY <3>1, <3>3
  <2>5. 0 \in 0..(n - 1)
    BY <1>1
  <2> QED
    BY <1>3, <2>4, <2>5 DEF GoneRound
<1> QED
  BY <1>9, <1>10

LEMMA RotateStep ==
  ASSUME IInv, NEW c \in Client, Rotate(c)
  PROVE  IInv'
<1>1. /\ val \in [Id -> Reading] /\ order \in Distinct /\ rrIdx \in 0..(RrMod - 1)
      /\ turns \in [Id -> Nat] /\ skewed \in BOOLEAN /\ RrMod \in Nat \ {0}
  BY ServingAssumption DEF ServingAssumption, IInv, Types
<1>2. req[c] \in RotateListed
  BY Kinds DEF IInv, Types, Rotate, At
<1>3. PICK s, n : s = req[c].cands /\ n = Len(s)
  OBVIOUS
<1>4. s \in Seq(Id) /\ n \in Nat \ {0} /\ DOMAIN s = 1..n
  BY <1>2, <1>3 DEF RotateListed, Waiting, Distinct
<1>5. /\ Serves(c) /\ val' = val /\ order' = order /\ rrIdx' = Advanced(rrIdx)
      /\ skewed' = (skewed \/ ~req[c].plain \/ rrIdx + 1 = RrMod)
      /\ turns' = IF skewed' THEN [j \in Id |-> 0] ELSE Served(s[(rrIdx % n) + 1])
  BY <1>3 DEF Rotate
<1>6. req' \in [Client -> Requests] /\ Current' /\ TotalCurrent' /\ ListLawful'
  BY <1>5, NoRequestStep
<1>7. rrIdx' \in 0..(RrMod - 1)
  <2>1. rrIdx + 1 \in Nat
    BY <1>1
  <2> QED
    BY <1>1, <1>5, <2>1, DivMod DEF Advanced
<1>8. turns' \in [Id -> Nat]
  <2>1. s[(rrIdx % n) + 1] \in Id
    <3>1. rrIdx \in Nat
      BY <1>1
    <3>2. rrIdx % n \in 0..(n - 1)
      BY <1>4, <3>1, DivMod
    <3>3. (rrIdx % n) + 1 \in 1..n
      BY <1>4, <3>2
    <3> QED
      BY <1>3, <1>4, <3>3, ElementOfSeq
  <2>2. ASSUME NEW i \in Id PROVE Served(i) \in [Id -> Nat]
    <3> DEFINE more == [turns EXCEPT ![i] = @ + 1]
    <3>1. more \in [Id -> Nat]
      BY <1>1
    <3>2. \A j \in Id : more[j] > 0 => more[j] - 1 \in Nat
      BY <3>1
    <3>3. Served(i) = IF \A j \in Range(order) : more[j] > 0
                      THEN [j \in Id |-> IF j \in Range(order) THEN more[j] - 1 ELSE 0]
                      ELSE more
      BY DEF Served
    <3> HIDE DEF more
    <3> QED
      BY <3>1, <3>2, <3>3
  <2> QED
    BY <1>5, <2>1, <2>2
<1>9. Types'
  BY <1>1, <1>5, <1>6, <1>7, <1>8 DEF Types
<1>10. GoneRound'
  <2>1. CASE skewed'
    BY <2>1 DEF GoneRound
  <2>2. CASE ~skewed'
    <3>1. ~skewed /\ req[c].plain /\ rrIdx + 1 # RrMod
      BY <1>5, <2>2
    <3>2. s = order
      BY <1>3, <3>1 DEF IInv, Current, Rotate
    <3>3. rrIdx' = rrIdx + 1
      <4>1. rrIdx + 1 \in 0..(RrMod - 1)
        BY <1>1, <3>1
      <4>2. (rrIdx + 1) % RrMod = rrIdx + 1
        BY <1>1, <4>1, SmallRemainder
      <4> QED
        BY <1>5, <4>2 DEF Advanced
    <3>4. n = Len(order) /\ n > 0
      BY <1>3, <1>4, <3>2
    <3>5. turns' = Served(order[(rrIdx % n) + 1])
      BY <1>5, <2>2, <3>2
    <3> QED
      BY <1>5, <2>2, <3>1, <3>3, <3>4, <3>5, RoundStep DEF IInv
  <2> QED
    BY <2>1, <2>2
<1> QED
  BY <1>6, <1>9, <1>10 DEF IInv

\* What a write makes of a request.
Disturbed(x) == IF "calm" \in DOMAIN x THEN [x EXCEPT !.calm = FALSE] ELSE x

LEMMA DisturbedReturns ==
  ASSUME NEW x \in Requests
  PROVE  /\ Disturbed(x) \in Requests
         /\ Disturbed(x).pc = x.pc
         /\ x \in ProxyListed => ~Disturbed(x).calm
         /\ x \in ProxiesSorted => Disturbed(x) = [x EXCEPT !.calm = FALSE]
         /\ x \in RotateListed => Disturbed(x) = x
         /\ x.pc = "listed" => Disturbed(x).kind = x.kind
<1>1. CASE x = NoRequest
  <2>1. "calm" \notin DOMAIN x
    BY <1>1 DEF NoRequest
  <2> QED
    BY <1>1, <2>1 DEF Disturbed, NoRequest, ProxyListed, ProxiesSorted
<1>2. CASE x \in ProxyListed
  <2>1. "calm" \in DOMAIN x
    BY <1>2 DEF ProxyListed
  <2>2. Disturbed(x) = [x EXCEPT !.calm = FALSE]
    BY <2>1 DEF Disturbed
  <2>3. [x EXCEPT !.calm = FALSE] \in ProxyListed
    BY <1>2 DEF ProxyListed
  <2> QED
    BY <1>2, <2>2, <2>3 DEF Requests, ProxyListed, RotateListed
<1>3. CASE x \in RotateListed
  <2>1. "calm" \notin DOMAIN x
    BY <1>3 DEF RotateListed
  <2> QED
    BY <1>3, <2>1 DEF Disturbed, RotateListed, ProxyListed, ProxiesSorted
<1>4. CASE x \in ProxiesListed
  <2>1. "calm" \in DOMAIN x
    BY <1>4 DEF ProxiesListed
  <2>2. Disturbed(x) = [x EXCEPT !.calm = FALSE]
    BY <2>1 DEF Disturbed
  <2>3. [x EXCEPT !.calm = FALSE] \in ProxiesListed
    BY <1>4 DEF ProxiesListed
  <2> QED
    BY <1>4, <2>2, <2>3 DEF Requests, ProxiesListed, RotateListed, ProxyListed
<1>5. CASE x \in ProxyPicked
  <2>1. "calm" \notin DOMAIN x
    BY <1>5 DEF ProxyPicked
  <2> QED
    BY <1>5, <2>1 DEF Disturbed, ProxyPicked, ProxyListed, ProxiesSorted
<1>6. CASE x \in ProxiesSorted
  <2>1. "calm" \in DOMAIN x
    BY <1>6 DEF ProxiesSorted
  <2>2. Disturbed(x) = [x EXCEPT !.calm = FALSE]
    BY <2>1 DEF Disturbed
  <2>3. [x EXCEPT !.calm = FALSE] \in ProxiesSorted
    BY <1>6 DEF ProxiesSorted
  <2> QED
    BY <1>6, <2>2, <2>3 DEF Requests, ProxiesSorted, RotateListed, ProxyListed
<1> QED
  BY <1>1, <1>2, <1>3, <1>4, <1>5, <1>6 DEF Requests

LEMMA WriteStep ==
  ASSUME IInv, NEW i \in Id, NEW r \in Reading, Write(i, r)
  PROVE  IInv'
<1>1. /\ val' = [val EXCEPT ![i] = r] /\ order' = order /\ rrIdx' = rrIdx
      /\ turns' = turns /\ skewed' = skewed
      /\ \A c \in Client : req'[c] = Disturbed(req[c])
      /\ req' = [c \in Client |-> Disturbed(req[c])]
  BY DEF Write, Disturbed
<1>2. req \in [Client -> Requests]
  BY DEF IInv, Types
<1>3. req' \in [Client -> Requests]
  BY <1>1, <1>2, DisturbedReturns
<1>4. Types'
  BY <1>1, <1>3 DEF IInv, Types
<1>5. Current'
  <2> SUFFICES ASSUME NEW c \in Client, req'[c].pc = "listed", req'[c].kind = "rotate",
                      req'[c].plain
               PROVE  req'[c].cands = order
    BY <1>1 DEF Current, At
  <2>1. req[c].pc = "listed" /\ req[c].kind = "rotate"
    BY <1>1, <1>2, DisturbedReturns
  <2>2. req[c] \in RotateListed
    BY <1>2, <2>1, Kinds
  <2>3. req'[c] = req[c]
    BY <1>1, <1>2, <2>2, DisturbedReturns
  <2> QED
    BY <2>1, <2>3 DEF IInv, Current, At
<1>6. TotalCurrent'
  <2>1. ASSUME NEW c \in Client, req'[c].pc = "listed", req'[c].kind = "proxy"
        PROVE  ~req'[c].calm
    <3>1. req[c].pc = "listed" /\ req[c].kind = "proxy"
      BY <1>1, <1>2, <2>1, DisturbedReturns
    <3>2. req[c] \in ProxyListed
      BY <1>2, <3>1, Kinds
    <3> QED
      BY <1>1, <1>2, <3>2, DisturbedReturns
  <2> QED
    BY <2>1 DEF TotalCurrent, At
<1>7. ListLawful'
  <2> SUFFICES ASSUME NEW c \in Client, NEW y, y = req'[c], y.pc = "sorted"
               PROVE  Lawful(y.cands, y.limit, y.key, y.calm, y.best)'
    BY DEF ListLawful, Lawful
  <2>1. req[c].pc = "sorted"
    BY <1>1, <1>2, DisturbedReturns
  <2>2. req[c] \in ProxiesSorted
    BY <1>2, <2>1, Kinds
  <2>3. y = [req[c] EXCEPT !.calm = FALSE]
    BY <1>1, <1>2, <2>2, DisturbedReturns
  <2>4. ~y.calm /\ y.cands = req[c].cands /\ y.limit = req[c].limit /\ y.best = req[c].best
    BY <2>2, <2>3 DEF ProxiesSorted
  <2>5. /\ Range(y.best) \subseteq Range(y.cands) /\ IsInjective(y.best)
        /\ Len(y.best) = Min({y.limit, Len(y.cands)})
    BY <2>1, <2>4 DEF IInv, ListLawful
  <2> QED
    BY <2>4, <2>5 DEF Lawful
<1>8. GoneRound'
  BY <1>1, RoundStays DEF IInv
<1> QED
  BY <1>4, <1>5, <1>6, <1>7, <1>8 DEF IInv

\* Any of the ids, in any order.
LEMMA OrdersAreDistinct ==
  ASSUME NEW s \in SetToAllKPermutations(Id)
  PROVE  s \in Distinct
<1>1. PICK T \in SUBSET Id : s \in SetToSeqs(T)
  BY DEF SetToAllKPermutations
<1>2. IsFiniteSet(T)
  BY ServingAssumption, FS_Subset DEF ServingAssumption
<1>3. PICK n \in Nat : n = Cardinality(T)
  BY <1>2, FS_CardinalityType
<1>4. s \in [1..n -> T] /\ \A i, j \in 1..n : i # j => s[i] # s[j]
  BY <1>1, <1>3 DEF SetToSeqs
<1>5. s \in Seq(Id) /\ DOMAIN s = 1..n
  BY <1>4
<1> QED
  BY <1>4, <1>5 DEF Distinct, IsInjective

LEMMA RebuildStep ==
  ASSUME IInv, NEW s \in SetToAllKPermutations(Id), Rebuild(s)
  PROVE  IInv'
<1>1. /\ order' = s /\ turns' = [j \in Id |-> 0] /\ skewed' = FALSE
      /\ val' = val /\ rrIdx' = rrIdx /\ req' = req
      /\ \A c \in Client : req[c].pc # "listed"
  BY DEF Rebuild, Locked
<1>2. s \in Distinct
  BY OrdersAreDistinct
<1>3. Types'
  BY <1>1, <1>2 DEF IInv, Types
<1>4. Current' /\ TotalCurrent'
  BY <1>1 DEF Current, TotalCurrent, At
<1>5. ListLawful'
  <2> SUFFICES ASSUME NEW c \in Client, NEW y, y = req'[c], y.pc = "sorted"
               PROVE  Lawful(y.cands, y.limit, y.key, y.calm, y.best)'
    BY DEF ListLawful, Lawful
  <2>1. Lawful(y.cands, y.limit, y.key, y.calm, y.best)
    BY <1>1 DEF IInv, ListLawful, Lawful
  <2> QED
    BY <1>1, <2>1, LawfulStays
<1>6. GoneRound'
  <2> DEFINE n == Len(order')
  <2> SUFFICES ASSUME n > 0
               PROVE  \E m \in 0..(n - 1) : \A p \in 0..(n - 1) :
                        turns'[order'[p + 1]] = IF JustPassed(rrIdx' % n, m, n, p) THEN 1 ELSE 0
    BY DEF GoneRound
  <2>1. n \in Nat \ {0} /\ \A k \in 1..n : order'[k] \in Id
    <3>1. order' \in Seq(Id)
      BY <1>1, <1>2 DEF Distinct
    <3> QED
      BY <3>1, ElementOfSeq
  <2> HIDE DEF n
  <2>2. rrIdx' = rrIdx /\ rrIdx \in Nat
    BY <1>1, ServingAssumption DEF ServingAssumption, IInv, Types
  <2>3. rrIdx' % n \in 0..(n - 1) /\ 0 \in 0..(n - 1)
    BY <2>1, <2>2, DivMod
  <2>4. ASSUME NEW p \in 0..(n - 1)
        PROVE  ~JustPassed(rrIdx' % n, 0, n, p) /\ turns'[order'[p + 1]] = 0
    <3>1. ~JustPassed(rrIdx' % n, 0, n, p)
      BY <2>1, <2>3 DEF JustPassed
    <3>2. p + 1 \in 1..n
      BY <2>1
    <3> QED
      BY <1>1, <2>1, <3>1, <3>2
  <2> QED
    BY <2>3, <2>4
<1> QED
  BY <1>3, <1>4, <1>5, <1>6 DEF IInv

LEMMA NextHolds == IInv /\ [Next]_servingVars => IInv'
<1> SUFFICES ASSUME IInv, [Next]_servingVars PROVE IInv'
  OBVIOUS
<1>1. ASSUME NEW c \in Client, NEW f \in Filter,
             AskProxy(c, f) \/ AskRotate(c, f)
               \/ \E l \in LimitParam, key \in Key : AskProxies(c, f, l, key)
      PROVE  IInv'
  BY <1>1, AskStep
<1>2. ASSUME NEW c \in Client, PickRandom(c) PROVE IInv'
  BY <1>2, PickStep
<1>3. ASSUME NEW c \in Client, Rotate(c) PROVE IInv'
  BY <1>3, RotateStep
<1>4. ASSUME NEW c \in Client, Sort(c) PROVE IInv'
  BY <1>4, SortStep
<1>5. ASSUME NEW c \in Client, Respond(c) PROVE IInv'
  BY <1>5, RespondStep
<1>6. ASSUME NEW i \in Id, NEW r \in Reading, Write(i, r) PROVE IInv'
  BY <1>6, WriteStep
<1>7. ASSUME NEW s \in SetToAllKPermutations(Id), Rebuild(s) PROVE IInv'
  BY <1>7, RebuildStep
<1>8. CASE UNCHANGED servingVars
  <2>1. /\ val' = val /\ order' = order /\ rrIdx' = rrIdx /\ req' = req
        /\ turns' = turns /\ skewed' = skewed
    BY <1>8 DEF servingVars
  <2>2. Types' /\ GoneRound' /\ Current'
    BY <2>1, RoundStays DEF IInv, Types, Current, At
  <2>3. TotalCurrent'
    <3>1. ASSUME NEW c \in Client
          PROVE  Total(Scores(req[c].cands))' = Total(Scores(req[c].cands))
      BY <2>1 DEF Scores
    <3> QED
      BY <2>1, <3>1 DEF IInv, TotalCurrent, At
  <2>4. ListLawful'
    <3> SUFFICES ASSUME NEW c \in Client, NEW y, y = req'[c], y.pc = "sorted"
                 PROVE  Lawful(y.cands, y.limit, y.key, y.calm, y.best)'
      BY DEF ListLawful, Lawful
    <3>1. Lawful(y.cands, y.limit, y.key, y.calm, y.best)
      BY <2>1 DEF IInv, ListLawful, Lawful
    <3> QED
      BY <2>1, <3>1, LawfulStays
  <2> QED
    BY <2>2, <2>3, <2>4 DEF IInv
<1> QED
  BY <1>1, <1>2, <1>3, <1>4, <1>5, <1>6, <1>7, <1>8 DEF Next

-----------------------------------------------------------------------------
(* What follows *)

\* The invariant of every reachable state: the requests the handlers hold, and how
\* they relate to the list, the index, the turns and the scores.
THEOREM ServingInvariance == Spec => []IInv
<1>1. Init => IInv
  BY InitHolds
<1>2. IInv /\ [Next]_servingVars => IInv'
  BY NextHolds
<1> QED
  BY <1>1, <1>2, PTL DEF Spec

\* Types, and the cap on what a client is given: however a list is asked for, the limit
\* a request holds is between 1 and MaxLimit, and a request that waits has candidates.
THEOREM ServingTypeCorrect == Spec => []TypeOK
<1>1. IInv => TypeOK
  <2> SUFFICES ASSUME IInv PROVE TypeOK
    OBVIOUS
  <2>1. ASSUME NEW s \in Distinct PROVE Range(s) \subseteq Id /\ IsInjective(s)
    BY ElementOfSeq DEF Distinct, Range
  <2>2. ASSUME NEW c \in Client, req[c].pc # "idle"
        PROVE  req[c].cands \in Waiting
               /\ (req[c].kind = "proxies" => req[c].limit \in 1..MaxLimit)
    <3>1. req[c] \in Requests
      BY DEF IInv, Types
    <3> QED
      BY <2>2, <3>1 DEF Requests, NoRequest, ProxyListed, RotateListed, ProxiesListed,
                        ProxyPicked, ProxiesSorted
  <2>3. ASSUME NEW s \in Waiting PROVE s \in Distinct /\ s # <<>>
    BY DEF Waiting
  <2> QED
    BY <2>1, <2>2, <2>3 DEF IInv, Types, TypeOK
<1> QED
  BY <1>1, ServingInvariance, PTL

\* handleRotate: whatever requests interleave, and however the pool is filled, plain
\* rotations never put one proxy on offer two turns ahead of another.
THEOREM RotationsAreEven == Spec => []RotateEven
<1>1. IInv => RotateEven
  <2> SUFFICES ASSUME IInv, ~skewed, NEW i \in Range(order) PROVE turns[i] <= 1
    BY DEF RotateEven
  <2> DEFINE n == Len(order)
  <2>1. order \in Seq(Id) /\ n \in Nat /\ DOMAIN order = 1..n
    BY DEF IInv, Types, Distinct
  <2>2. PICK k \in 1..n : i = order[k]
    BY <2>1 DEF Range
  <2>3. n > 0
    BY <2>1
  <2>4. PICK m \in 0..(n - 1) :
          \A p \in 0..(n - 1) :
            turns[order[p + 1]] = IF JustPassed(rrIdx % n, m, n, p) THEN 1 ELSE 0
    BY <2>3 DEF IInv, GoneRound
  <2> HIDE DEF n
  <2>5. k - 1 \in 0..(n - 1) /\ (k - 1) + 1 = k
    BY <2>1
  <2>6. turns[order[k]] = IF JustPassed(rrIdx % n, m, n, k - 1) THEN 1 ELSE 0
    BY <2>4, <2>5
  <2> QED
    BY <2>2, <2>6
<1> QED
  BY <1>1, ServingInvariance, PTL

\* GetRandom: for any scores, each candidate is picked for exactly as many unit
\* intervals of thresholds as its score says.
THEOREM WeightsAreHonoured == Spec => []Proportional
<1>1. IInv => Proportional
  <2> SUFFICES ASSUME IInv, NEW c \in Client, At(c, "proxy"), req[c].calm,
                      NEW k \in DOMAIN Scores(req[c].cands)
               PROVE  Scores(req[c].cands)[k]
                        = Cardinality({n \in 1..req[c].total :
                                         Pick(Scores(req[c].cands), 2 * n - 1) = k})
    BY DEF Proportional
  <2>1. req[c] \in ProxyListed
    BY Kinds DEF IInv, Types, At
  <2>2. PICK w : w = Scores(req[c].cands)
    OBVIOUS
  <2>3. w \in Seq(Nat)
    BY <2>1, <2>2, ScoresTyped DEF IInv, Types, ProxyListed, Waiting, Distinct
  <2>4. req[c].total = Total(w)
    BY <2>2 DEF IInv, TotalCurrent
  <2>5. k \in 1..Len(w)
    BY <2>2, <2>3
  <2>6. w[k] = Cardinality({n \in 1..Total(w) : Pick(w, 2 * n - 1) = k})
    BY <2>3, <2>5, PickWeighs
  <2> QED
    BY <2>2, <2>4, <2>6
<1> QED
  BY <1>1, ServingInvariance, PTL

\* GetN: for any list, sort key and limit the response holds the right number of
\* different candidates, and in a calm pool they are the best ones in order.
THEOREM ListsAreLawful == Spec => []ListLawful
<1>1. IInv => ListLawful
  BY DEF IInv
<1> QED
  BY <1>1, ServingInvariance, PTL
=============================================================================
