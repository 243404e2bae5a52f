---------------------------- MODULE StrtoxProofs ----------------------------
(***************************************************************************)
(* Proofs about strtoull and strtoll, for every string, every base and     *)
(* unsigned long long of any width.  What a recursive function computes is *)
(* proved by induction; the property of a number is given as the set of    *)
(* the numbers that have it.                                               *)
(***************************************************************************)
EXTENDS Strtox, SequenceTheorems, WellFoundedInduction, TLAPS

-----------------------------------------------------------------------------
(* Induction and recursion over the natural numbers *)

\* A set of numbers has a least one.
LEMMA LeastNumber ==
  ASSUME NEW S, S \subseteq Nat, S # {}
  PROVE  \E x \in S : \A y \in S : x <= y
  <1>1. PICK x \in S : \A y \in S : ~(<<y, x>> \in OpToRel(<, Nat))
    BY NatLessThanWellFounded, WFMin, ZenonT(30)
  <1>2. \A y \in S : ~(y < x)
    BY <1>1, ZenonT(30) DEF OpToRel
  <1> QED
    BY <1>2, SMTT(30)

\* Induction over the numbers, for a set in place of a predicate.
LEMMA Induction ==
  ASSUME NEW S, 0 \in S, \A n \in Nat : n \in S => n + 1 \in S
  PROVE  \A n \in Nat : n \in S
  <1>1. SUFFICES ASSUME NEW T, T = {n \in Nat : n \notin S}, T # {} PROVE FALSE
    OBVIOUS
  <1>2. PICK x \in T : \A y \in T : x <= y
    BY <1>1, LeastNumber, ZenonT(30)
  <1>3. x \in Nat /\ x # 0 /\ x \notin S
    BY <1>1
  <1>4. x - 1 \in Nat /\ ~(x <= x - 1) /\ x = (x - 1) + 1
    BY <1>3
  <1>5. x - 1 \in S
    BY <1>1, <1>2, <1>4
  <1> QED
    BY <1>3, <1>4, <1>5

\* g[n] is the value after n rounds of a loop that starts with d0 and whose round n
\* turns d into F[n][d].
IsLoop(g, D, d0, F) ==
  g \in [Nat -> D] /\ g[0] = d0 /\ \A n \in Nat : g[n + 1] = F[n][g[n]]

\* A function on the numbers may be defined by recursion.
LEMMA Recursion ==
  ASSUME NEW D, NEW d0 \in D, NEW F \in [Nat -> [D -> D]]
  PROVE  \E g : IsLoop(g, D, d0, F)
  <1> DEFINE Upto(h, m) == /\ h \in [0 .. m -> D] /\ h[0] = d0
                           /\ \A k \in 0 .. m - 1 : h[k + 1] = F[k][h[k]]
  <1>1. \A m \in Nat : \E h : Upto(h, m)
    <2> DEFINE S == {m \in Nat : \E h : Upto(h, m)}
    <2>1. 0 \in S
      <3>1. Upto([k \in 0 .. 0 |-> d0], 0)
        OBVIOUS
      <3> QED
        BY <3>1
    <2>2. ASSUME NEW n \in Nat, n \in S PROVE n + 1 \in S
      <3>1. PICK h : Upto(h, n)
        BY <2>2
      <3> DEFINE g == [k \in 0 .. n + 1 |-> IF k <= n THEN h[k] ELSE F[n][h[n]]]
      <3>2. h[n] \in D /\ F[n][h[n]] \in D
        BY <3>1
      <3>3. g \in [0 .. n + 1 -> D] /\ g[0] = d0
        BY <3>1, <3>2
      <3>4. ASSUME NEW k \in 0 .. n PROVE g[k + 1] = F[k][g[k]]
        <4>1. CASE k < n
          <5>1. k \in 0 .. n - 1 /\ k + 1 \in 0 .. n /\ k \in 0 .. n
            BY <4>1
          <5>2. g[k + 1] = h[k + 1] /\ g[k] = h[k]
            BY <5>1
          <5> QED
            BY <3>1, <5>1, <5>2
        <4>2. CASE k = n
          <5>1. g[n + 1] = F[n][h[n]] /\ g[n] = h[n]
            BY SMT
          <5> QED
            BY <4>2, <5>1, Zenon
        <4> QED
          BY <4>1, <4>2
      <3>5. Upto(g, n + 1)
        <4> HIDE DEF g
        <4>1. (n + 1) - 1 = n
          OBVIOUS
        <4> QED
          BY <3>3, <3>4, <4>1
      <3> HIDE DEF Upto, g
      <3> QED
        BY <3>5
    <2> HIDE DEF S
    <2>3. \A n \in Nat : n \in S
      BY <2>1, <2>2, Induction, ZenonT(30)
    <2> QED
      BY <2>3 DEF S
  <1> DEFINE Same(m, n, g, h) == \A k \in Nat : k <= m /\ k <= n => g[k] = h[k]
  <1>2. ASSUME NEW m \in Nat, NEW n \in Nat, NEW g, NEW h, Upto(g, m), Upto(h, n)
        PROVE  Same(m, n, g, h)
    <2> DEFINE S == {k \in Nat : k <= m /\ k <= n => g[k] = h[k]}
    <2>1. 0 \in S
      BY <1>2
    <2>2. ASSUME NEW k \in Nat, k \in S PROVE k + 1 \in S
      <3>1. SUFFICES ASSUME k + 1 <= m, k + 1 <= n PROVE g[k + 1] = h[k + 1]
        OBVIOUS
      <3>2. k \in 0 .. m - 1 /\ k \in 0 .. n - 1 /\ k <= m /\ k <= n
        BY <3>1
      <3>3. g[k] = h[k]
        BY <2>2, <3>2
      <3> QED
        BY <1>2, <3>2, <3>3
    <2> HIDE DEF S
    <2>3. \A n_1 \in Nat : n_1 \in S
      BY <2>1, <2>2, Induction, ZenonT(30)
    <2> QED
      BY <2>3 DEF S
  <1> DEFINE p == [m \in Nat |-> CHOOSE h : Upto(h, m)]
             g == [m \in Nat |-> p[m][m]]
  <1>3. \A m \in Nat : Upto(p[m], m)
    <2> HIDE DEF Upto
    <2> QED
      BY <1>1
  <1> HIDE DEF p
  <1>4. g \in [Nat -> D] /\ g[0] = d0
    BY <1>3
  <1>5. ASSUME NEW n \in Nat PROVE g[n + 1] = F[n][g[n]]
    <2>1. p[n + 1][n] = p[n][n]
      <3>1. Upto(p[n + 1], n + 1) /\ Upto(p[n], n)
        BY <1>3
      <3>2. n + 1 \in Nat /\ n <= n + 1 /\ n <= n
        OBVIOUS
      <3> HIDE DEF Upto
      <3>3. Same(n + 1, n, p[n + 1], p[n])
        <4> HIDE DEF Same
        <4> QED
          BY ONLY <1>2, <3>1, <3>2, n \in Nat, ZenonT(30)
      <3> QED
        BY <3>2, <3>3, ZenonT(30)
    <2>2. Upto(p[n + 1], n + 1)
      BY <1>3
    <2> QED
      BY <2>1, <2>2
  <1>6. IsLoop(g, D, d0, F)
    <2> HIDE DEF g, Upto
    <2> QED
      BY <1>4, <1>5 DEF IsLoop
  <1> QED
    BY <1>6

-----------------------------------------------------------------------------
(* The numeral: Magnitude, a sum of weighted digits, is what the scheme of   *)
(* Horner computes, and so is what the loop over the digits computes.        *)

\* The characters that may be digits.
Digit == {"0", "1", "7", "f", "x"}

\* The values of the digits.
LEMMA ValueFacts ==
  /\ DOMAIN Value = Digit
  /\ Value["0"] = 0 /\ Value["1"] = 1 /\ Value["7"] = 7 /\ Value["f"] = 15 /\ Value["x"] = 33
  BY DEF Value, Digit

\* They are numbers.
LEMMA ValueNat == \A c \in Digit : Value[c] \in Nat
  BY ValueFacts DEF Digit

\* Weight is a power.
LEMMA WeightFacts ==
  ASSUME NEW b \in Nat
  PROVE  /\ \A n \in Nat : Weight(b, n) \in Nat
         /\ Weight(b, 0) = 1
         /\ \A n \in Nat : Weight(b, n + 1) = b * Weight(b, n)
  <1> DEFINE F == [n \in Nat |-> [x \in Nat |-> b * x]]
  <1>1. F \in [Nat -> [Nat -> Nat]]
    OBVIOUS
  <1>2. PICK g : IsLoop(g, Nat, 1, F)
    <2> HIDE DEF F
    <2>1. \A d \in Nat : \E g : IsLoop(g, Nat, d, F)
      BY <1>1, Recursion, ZenonT(30)
    <2> QED
      BY ONLY <2>1, SMT
  <1>20. g \in [Nat -> Nat] /\ g[0] = 1 /\ \A n \in Nat : g[n + 1] = F[n][g[n]]
    BY <1>2 DEF IsLoop
  <1>3. \A n \in Nat : F[n][g[n]] = b * g[n]
    BY <1>20
  <1> HIDE DEF F
  <1>4. ASSUME NEW n \in Nat PROVE Weight(b, n) = g[n]
    <2> DEFINE W(v) == v = [k \in 0 .. n |-> IF k = 0 THEN 1 ELSE b * v[k - 1]]
               w == CHOOSE v : W(v)
    <2>1. W([k \in 0 .. n |-> g[k]])
      <3> DEFINE v == [k \in 0 .. n |-> g[k]]
      <3>1. ASSUME NEW k \in 0 .. n PROVE v[k] = IF k = 0 THEN 1 ELSE b * v[k - 1]
        <4>1. CASE k = 0
          BY <4>1, <1>20
        <4>2. CASE k # 0
          <5>1. k - 1 \in Nat /\ k - 1 \in 0 .. n /\ (k - 1) + 1 = k
            BY <4>2
          <5>2. g[k] = b * g[k - 1]
            BY <1>20, <1>3, <5>1
          <5>3. v[k] = g[k] /\ v[k - 1] = g[k - 1]
            BY <5>1
          <5> QED
            BY <4>2, <5>2, <5>3
        <4> QED
          BY <4>1, <4>2
      <3> QED
        BY <3>1
    <2>2. W(w)
      <3> HIDE DEF W
      <3> QED
        BY <2>1
    <2>5. Weight(b, n) = w[n]
      BY DEF Weight
    <2> HIDE DEF w
    <2>3. w[0] = 1
      BY <2>2
    <2>4. ASSUME NEW k \in 0 .. n - 1 PROVE w[k + 1] = b * w[k]
      <3>1. k + 1 \in 0 .. n /\ k + 1 # 0 /\ (k + 1) - 1 = k
        OBVIOUS
      <3> QED
        BY <2>2, <3>1
    <2> HIDE DEF W
    <2>6. \A k \in Nat : k <= n => w[k] = g[k]
      <3> DEFINE S == {k \in Nat : k <= n => w[k] = g[k]}
      <3>1. 0 \in S
        BY <2>3, <1>20
      <3>2. ASSUME NEW k \in Nat, k \in S PROVE k + 1 \in S
        <4>1. SUFFICES ASSUME k + 1 <= n PROVE w[k + 1] = g[k + 1]
          OBVIOUS
        <4>2. k \in 0 .. n - 1 /\ w[k] = g[k]
          BY <3>2, <4>1
        <4> QED
          BY <2>4, <1>20, <1>3, <4>2
      <3> HIDE DEF S
      <3>3. \A k \in Nat : k \in S
        BY <3>1, <3>2, Induction, ZenonT(30)
      <3> QED
        BY <3>3 DEF S
    <2> QED
      BY <2>5, <2>6
  <1> QED
    BY <1>20, <1>3, <1>4

\* Quotient and remainder.
LEMMA Division ==
  ASSUME NEW m \in Nat, NEW b \in Nat, b > 1
  PROVE  /\ m \div b \in Nat /\ m % b \in 0 .. b - 1
         /\ m = b * (m \div b) + (m % b)
  <1>1. m = b * (m \div b) + (m % b)
    BY SMTT(30)
  <1>2. m % b \in 0 .. b - 1
    BY SMTT(30)
  <1>3. m \div b \in Nat
    BY SMTT(30)
  <1> QED
    BY <1>1, <1>2, <1>3

\* h[k] is the number that the first k digits of u make in base b.
Horner(h, b, u) ==
  /\ h \in [Nat -> Nat] /\ h[0] = 0
  /\ \A k \in 0 .. Len(u) - 1 : h[k + 1] = h[k] * b + Value[u[k + 1]]

\* There is such a sequence of numbers.
LEMMA HornerExists ==
  ASSUME NEW b \in Nat, NEW u \in Seq(Digit)
  PROVE  \E h : Horner(h, b, u)
  <1> DEFINE v(n) == IF n < Len(u) THEN Value[u[n + 1]] ELSE 0
             F == [n \in Nat |-> [x \in Nat |-> x * b + v(n)]]
  <1>1. ASSUME NEW n \in Nat PROVE v(n) \in Nat
    <2>1. CASE n < Len(u)
      <3>1. u[n + 1] \in Digit
        BY <2>1
      <3> QED
        BY <2>1, <3>1, ValueNat
    <2>2. CASE ~(n < Len(u))
      BY <2>2
    <2> QED
      BY <2>1, <2>2
  <1> HIDE DEF v
  <1>2. F \in [Nat -> [Nat -> Nat]]
    <2>1. ASSUME NEW n \in Nat, NEW x \in Nat PROVE x * b + v(n) \in Nat
      <3>1. PICK w \in Nat : w = v(n)
        BY <1>1
      <3>2. x * b + w \in Nat
        OBVIOUS
      <3> QED
        BY <3>1, <3>2
    <2>2. ASSUME NEW n \in Nat PROVE [x \in Nat |-> x * b + v(n)] \in [Nat -> Nat]
      BY <2>1, Zenon
    <2> QED
      BY <2>2, Zenon
  <1>3. PICK h : IsLoop(h, Nat, 0, F)
    <2> HIDE DEF F
    <2>1. \A d \in Nat : \E g : IsLoop(g, Nat, d, F)
      BY <1>2, Recursion, ZenonT(30)
    <2> QED
      BY ONLY <2>1, SMT
  <1>4. h \in [Nat -> Nat] /\ h[0] = 0 /\ \A n \in Nat : h[n + 1] = F[n][h[n]]
    BY <1>3 DEF IsLoop
  <1>5. ASSUME NEW k \in 0 .. Len(u) - 1 PROVE h[k + 1] = h[k] * b + Value[u[k + 1]]
    <2>1. k \in Nat /\ k < Len(u)
      OBVIOUS
    <2>2. h[k + 1] = F[k][h[k]] /\ h[k] \in Nat
      BY <1>4, <2>1
    <2>3. F[k][h[k]] = h[k] * b + v(k)
      BY <2>1, <2>2
    <2> QED
      BY <2>1, <2>2, <2>3 DEF v
  <1> QED
    BY <1>4, <1>5 DEF Horner

\* Its last one is the value of the numeral.
LEMMA MagnitudeIsHorner ==
  ASSUME NEW b \in Nat, NEW u \in Seq(Digit), NEW h, Horner(h, b, u)
  PROVE  Magnitude(<<b, u>>) = h[Len(u)]
  <1> DEFINE L == Len(u)
             A(n) == Value[u[n]] * Weight(b, L - n)
             M(f) == f = [n \in 0 .. L |-> IF n = 0 THEN 0 ELSE f[n - 1] + A(n)]
             sum == CHOOSE f : M(f)
             g == [n \in 0 .. L |-> h[n] * Weight(b, L - n)]
  <1>1. L \in Nat /\ h \in [Nat -> Nat] /\ h[0] = 0
    BY DEF Horner
  <1>2. Magnitude(<<b, u>>) = sum[L]
    BY DEF Magnitude
  <1>3. M(g)
    <2>1. ASSUME NEW n \in 0 .. L PROVE g[n] = IF n = 0 THEN 0 ELSE g[n - 1] + A(n)
      <3>1. CASE n = 0
        <4>1. g[0] = 0 * Weight(b, L)
          BY <1>1, <3>1
        <4>2. Weight(b, L) \in Nat
          BY <1>1, WeightFacts
        <4> QED
          BY <3>1, <4>1, <4>2
      <3>2. CASE n # 0
        <4>1. n - 1 \in Nat /\ n - 1 \in 0 .. L /\ n - 1 \in 0 .. L - 1 /\ L - n \in Nat
              /\ L - (n - 1) = (L - n) + 1 /\ (n - 1) + 1 = n
          BY <3>2, <1>1
        <4>2. PICK w \in Nat : w = Weight(b, L - n)
          BY <4>1, WeightFacts
        <4>3. Weight(b, L - (n - 1)) = b * w
          BY <4>1, <4>2, WeightFacts
        <4>4. PICK p \in Nat : p = h[n - 1]
          BY <1>1, <4>1
        <4>5. PICK v \in Nat : v = Value[u[n]]
          <5>1. u[n] \in Digit
            BY <4>1
          <5> QED
            BY <5>1, ValueNat
        <4>6. h[n] = p * b + v
          BY <4>1, <4>4, <4>5 DEF Horner
        <4>7. g[n] = (p * b + v) * w
          BY <4>2, <4>6
        <4>8. g[n - 1] = p * (b * w)
          BY <4>1, <4>3, <4>4
        <4>9. (p * b + v) * w = p * (b * w) + v * w
          OBVIOUS
        <4> QED
          BY <3>2, <4>2, <4>5, <4>7, <4>8, <4>9
      <3> QED
        BY <3>1, <3>2
    <2> HIDE DEF A
    <2>2. g = [n \in 0 .. L |-> IF n = 0 THEN 0 ELSE g[n - 1] + A(n)]
      <3>1. DOMAIN g = 0 .. L
        OBVIOUS
      <3> QED
        BY <2>1
    <2> HIDE DEF g
    <2> QED
      BY <2>2
  <1>4. M(sum)
    <2> HIDE DEF M
    <2> QED
      BY <1>3
  <1> HIDE DEF sum
  <1>5. sum[0] = 0 /\ \A n \in 0 .. L - 1 : sum[n + 1] = sum[n] + A(n + 1)
    <2> HIDE DEF A
    <2>1. sum[0] = 0
      BY <1>1, <1>4
    <2>2. ASSUME NEW n \in 0 .. L - 1 PROVE sum[n + 1] = sum[n] + A(n + 1)
      <3>1. n + 1 \in 0 .. L /\ n + 1 # 0 /\ (n + 1) - 1 = n
        BY <1>1
      <3> QED
        BY <1>4, <3>1
    <2> QED
      BY <2>1, <2>2
  <1>6. g[0] = 0 /\ \A n \in 0 .. L - 1 : g[n + 1] = g[n] + A(n + 1)
    <2> HIDE DEF A, g
    <2>1. g[0] = 0
      BY <1>1, <1>3
    <2>2. ASSUME NEW n \in 0 .. L - 1 PROVE g[n + 1] = g[n] + A(n + 1)
      <3>1. n + 1 \in 0 .. L /\ n + 1 # 0 /\ (n + 1) - 1 = n
        BY <1>1
      <3> QED
        BY <1>3, <3>1
    <2> QED
      BY <2>1, <2>2
  <1>7. \A n \in Nat : n <= L => sum[n] = g[n]
    <2> DEFINE S == {n \in Nat : n <= L => sum[n] = g[n]}
    <2> HIDE DEF A, g
    <2>1. 0 \in S
      BY <1>5, <1>6
    <2>2. ASSUME NEW n \in Nat, n \in S PROVE n + 1 \in S
      <3>1. SUFFICES ASSUME n + 1 <= L PROVE sum[n + 1] = g[n + 1]
        OBVIOUS
      <3> HIDE DEF L, M
      <3>2. n \in 0 .. L - 1 /\ sum[n] = g[n]
        <4>1. n \in 0 .. L - 1 /\ n <= L
          BY <1>1, <3>1
        <4> QED
          BY <2>2, <4>1, Zenon
      <3>3. sum[n + 1] = sum[n] + A(n + 1) /\ g[n + 1] = g[n] + A(n + 1)
        BY ONLY <1>5, <1>6, <3>2
      <3> QED
        BY <3>2, <3>3, Zenon
    <2> HIDE DEF S
    <2>3. \A n \in Nat : n \in S
      BY <2>1, <2>2, Induction, ZenonT(30)
    <2> QED
      BY <2>3 DEF S
  <1>8. g[L] = h[L]
    <2>1. L \in 0 .. L /\ L - L = 0
      BY <1>1
    <2>2. g[L] = h[L] * Weight(b, 0) /\ h[L] \in Nat
      BY <1>1, <2>1
    <2>3. Weight(b, 0) = 1
      BY WeightFacts
    <2> QED
      BY <2>2, <2>3
  <1>9. L <= L
    BY <1>1
  <1> HIDE DEF g, M, L
  <1>10. Magnitude(<<b, u>>) = h[L]
    BY <1>1, <1>2, <1>7, <1>8, <1>9
  <1> QED
    BY <1>10 DEF L
\* A digit is added if the number fits, and refused otherwise.
AddedIfFits(b, a, any, c) ==
  AddDigit(b, [acc |-> a, any |-> any], c) =
    IF a * b + c <= ULLONG_MAX THEN [acc |-> a * b + c, any |-> 1]
                               ELSE [acc |-> a, any |-> -1]

\* cutoff and cutlim of strtox_main: a digit is refused exactly when the number would
\* not fit, for unsigned long long of any width and any base.
THEOREM DigitFits ==
  ASSUME Wrap \in Nat \ {0}, NEW b \in Nat, b > 1, NEW a \in 0 .. ULLONG_MAX,
         NEW any \in Nat, NEW c \in 0 .. b - 1
  PROVE  AddedIfFits(b, a, any, c)
  <1>1. PICK m, q, r : m = ULLONG_MAX /\ q = m \div b /\ r = m % b
    OBVIOUS
  <1>2. m \in Nat /\ Wrap = m + 1
    BY <1>1, SMTT(30) DEF ULLONG_MAX
  <1>3. q \in Nat /\ r \in 0 .. b - 1 /\ m = b * q + r
    BY <1>1, <1>2, Division, SMTT(30)
  <1>4. (a > q \/ (a = q /\ c > r)) <=> a * b + c > m
    <2>1. CASE a > q
      <3>1. a >= q + 1
        BY <2>1, <1>1, <1>2, <1>3, SMTT(30)
      <3>2. b * a >= b * (q + 1)
        BY <3>1, <1>1, <1>2, <1>3, SMTT(30)
      <3> QED
        BY <2>1, <3>2, <1>1, <1>2, <1>3, SMTT(30)
    <2>2. CASE a = q
      BY <2>2, <1>1, <1>2, <1>3, SMTT(30)
    <2>3. CASE a < q
      <3>1. a + 1 <= q
        BY <2>3, <1>1, <1>2, <1>3, SMTT(30)
      <3>2. b * (a + 1) <= b * q
        BY <3>1, <1>1, <1>2, <1>3, SMTT(30)
      <3> QED
        BY <2>3, <3>2, <1>1, <1>2, <1>3, SMTT(30)
    <2> QED
      BY <2>1, <2>2, <2>3, <1>1, <1>2, <1>3, SMTT(30)
  <1>5. a * b + c \in Nat
    BY <1>1, <1>2, SMTT(30)
  <1>6. a * b + c <= m => (a * b + c) % Wrap = a * b + c
    BY <1>2, <1>5, SMTT(30)
  <1>7. PICK n : n = a * b + c
    OBVIOUS
  <1>8. n \in Nat /\ ((a > q \/ (a = q /\ c > r)) <=> n > m) /\ (n <= m => n % Wrap = n)
    BY <1>4, <1>5, <1>6, <1>7
  <1>9. ASSUME n <= m PROVE AddDigit(b, [acc |-> a, any |-> any], c) = [acc |-> n, any |-> 1]
    <2>1. ~(a > q \/ (a = q /\ c > r)) /\ n % Wrap = n
      BY ONLY <1>2, <1>8, <1>9, SMTT(30)
    <2> QED
      BY <2>1, <1>1, <1>7, SMTT(30) DEF AddDigit
  <1>10. ASSUME ~(n <= m) PROVE AddDigit(b, [acc |-> a, any |-> any], c) = [acc |-> a, any |-> -1]
    <2>1. a > q \/ (a = q /\ c > r)
      BY ONLY <1>2, <1>8, <1>10, SMTT(30)
    <2> QED
      BY <2>1, <1>1, SMTT(30) DEF AddDigit
  <1> QED
    BY <1>1, <1>7, <1>9, <1>10, ZenonT(30) DEF AddedIfFits

\* The states of the loop over the digits.
Loops == [acc : 0 .. ULLONG_MAX, any : {-1, 0, 1}]

\* A round leads from one to another.
LEMMA AddDigitType ==
  ASSUME NEW b \in Nat, NEW x \in Loops, NEW c \in Nat
  PROVE  AddDigit(b, x, c) \in Loops
  <1>1. PICK n : n = x.acc * b + c
    OBVIOUS
  <1>2. n \in Nat
    BY <1>1 DEF Loops
  <1>3. n % Wrap \in 0 .. ULLONG_MAX
    BY <1>2, StrtoxAssumption DEF ULLONG_MAX
  <1>4. [x EXCEPT !.any = -1] \in Loops /\ [acc |-> n % Wrap, any |-> 1] \in Loops
    BY <1>3 DEF Loops
  <1> QED
    BY <1>1, <1>4, Zenon DEF AddDigit

\* The text from first on begins with the digits u of base b.
Spells(str, first, b, u) ==
  /\ u \in Seq(Digit)
  /\ \A k \in 0 .. Len(u) - 1 : CharAt(str, first + k) = u[k + 1] /\ Value[u[k + 1]] < b

\* g[k] is the state of the loop after k rounds.
Rounds(g, str, b, first, u) ==
  /\ g \in [Nat -> Loops] /\ g[0] = [acc |-> 0, any |-> 0]
  /\ AddDigits(str, b, first, first + Len(u)) = g[Len(u)]
  /\ \A k \in 0 .. Len(u) - 1 : g[k + 1] = AddDigit(b, g[k], Value[u[k + 1]])

\* The loop is a recursion over the digits.
LEMMA AddDigitsUnfold ==
  ASSUME NEW b \in Nat, NEW str, NEW first \in Nat, NEW u, Spells(str, first, b, u)
  PROVE  \E g : Rounds(g, str, b, first, u)
  <1> DEFINE L == Len(u)
             z == [acc |-> 0, any |-> 0]
             c(n) == IF n < L THEN Value[u[n + 1]] ELSE 0
             F == [n \in Nat |-> [x \in Loops |-> AddDigit(b, x, c(n))]]
  <1>1. L \in Nat
    BY DEF Spells
  <1>2. ASSUME NEW n \in Nat PROVE c(n) \in Nat
    <2>1. CASE n < L
      <3>1. u[n + 1] \in Digit
        BY <2>1 DEF Spells
      <3> QED
        BY <2>1, <3>1, ValueNat
    <2>2. CASE ~(n < L)
      BY <2>2
    <2> QED
      BY <2>1, <2>2
  <1>3. z \in Loops
    BY StrtoxAssumption DEF Loops, ULLONG_MAX
  <1>4. ASSUME NEW k \in 0 .. L - 1
        PROVE  k \in Nat /\ c(k) = Value[u[k + 1]] /\ CharAt(str, first + k) = u[k + 1]
    <2>1. k \in Nat /\ k < L
      BY <1>1
    <2>2. CharAt(str, first + k) = u[k + 1]
      BY Zenon DEF Spells
    <2> QED
      BY <2>1, <2>2, Zenon
  <1> HIDE DEF c, z
  <1>5. F \in [Nat -> [Loops -> Loops]]
    <2>1. ASSUME NEW n \in Nat PROVE [x \in Loops |-> AddDigit(b, x, c(n))] \in [Loops -> Loops]
      BY <1>2, AddDigitType, Zenon
    <2> QED
      BY <2>1, Zenon
  <1>6. PICK g : IsLoop(g, Loops, z, F)
    <2> HIDE DEF F
    <2> QED
      BY <1>3, <1>5, Recursion, ZenonT(30)
  <1>7. g \in [Nat -> Loops] /\ g[0] = z /\ \A n \in Nat : g[n + 1] = F[n][g[n]]
    BY <1>6, Zenon DEF IsLoop
  <1>8. ASSUME NEW k \in 0 .. L - 1 PROVE g[k + 1] = AddDigit(b, g[k], Value[u[k + 1]])
    <2>1. k \in Nat /\ c(k) = Value[u[k + 1]]
      BY <1>4
    <2>2. g[k + 1] = F[k][g[k]] /\ g[k] \in Loops
      BY <1>7, <2>1
    <2>3. F[k][g[k]] = AddDigit(b, g[k], c(k))
      BY <2>1, <2>2, Zenon
    <2> QED
      BY <2>1, <2>2, <2>3, Zenon
  <1> HIDE DEF F
  <1> DEFINE end == first + L
             W(f) == f = [s \in first .. end |->
                       IF s = first THEN z ELSE AddDigit(b, f[s - 1], Value[CharAt(str, s - 1)])]
             loop == CHOOSE f : W(f)
             f0 == [s \in first .. end |-> g[s - first]]
  <1>9. AddDigits(str, b, first, end) = loop[end]
    BY Zenon DEF AddDigits, z
  <1>10. W(f0)
    <2>1. ASSUME NEW s \in first .. end
          PROVE  f0[s] = IF s = first THEN z ELSE AddDigit(b, f0[s - 1], Value[CharAt(str, s - 1)])
      <3>1. CASE s = first
        BY <1>1, <1>7, <3>1
      <3>2. CASE s # first
        <4> DEFINE k == (s - first) - 1
        <4>1. /\ k \in 0 .. L - 1 /\ k + 1 = s - first /\ s - 1 \in first .. end
              /\ (s - 1) - first = k /\ first + k = s - 1
          BY <1>1, <3>2
        <4>2. g[k + 1] = AddDigit(b, g[k], Value[u[k + 1]]) /\ CharAt(str, first + k) = u[k + 1]
          BY <1>4, <1>8, <4>1
        <4>3. f0[s] = g[k + 1] /\ f0[s - 1] = g[k]
          BY <4>1
        <4> HIDE DEF f0, k
        <4> QED
          BY <3>2, <4>1, <4>2, <4>3
      <3> QED
        BY <3>1, <3>2
    <2>2. DOMAIN f0 = first .. end
      OBVIOUS
    <2> HIDE DEF end
    <2>3. f0 = [s \in first .. end |->
                  IF s = first THEN z ELSE AddDigit(b, f0[s - 1], Value[CharAt(str, s - 1)])]
      BY <2>1
    <2> HIDE DEF f0
    <2> QED
      BY <2>3
  <1>11. W(loop)
    <2> HIDE DEF W
    <2> QED
      BY <1>10
  <1> HIDE DEF loop, f0
  <1>12. loop[first] = z
    BY <1>1, <1>11
  <1>13. ASSUME NEW k \in 0 .. L - 1
         PROVE  loop[first + k + 1] = AddDigit(b, loop[first + k], Value[u[k + 1]])
    <2>1. /\ first + k + 1 \in first .. end /\ first + k + 1 # first
          /\ (first + k + 1) - 1 = first + k
      BY <1>1
    <2>2. CharAt(str, first + k) = u[k + 1]
      BY <1>4
    <2> HIDE DEF end
    <2> QED
      BY <1>11, <2>1, <2>2
  <1> HIDE DEF W, end
  <1>14. \A k \in Nat : k <= L => loop[first + k] = g[k]
    <2> DEFINE S == {k \in Nat : k <= L => loop[first + k] = g[k]}
    <2> HIDE DEF L
    <2>1. 0 \in S
      <3>1. first + 0 = first
        OBVIOUS
      <3> QED
        BY <1>7, <1>12, <3>1
    <2>2. ASSUME NEW k \in Nat, k \in S PROVE k + 1 \in S
      <3>1. SUFFICES ASSUME k + 1 <= L PROVE loop[first + (k + 1)] = g[k + 1]
        OBVIOUS
      <3>2. k \in 0 .. L - 1 /\ k <= L /\ first + (k + 1) = first + k + 1
        BY <1>1, <3>1
      <3>3. loop[first + k] = g[k]
        BY <2>2, <3>2, Zenon
      <3> QED
        BY <1>8, <1>13, <3>2, <3>3, Zenon
    <2> HIDE DEF S
    <2>3. \A k \in Nat : k \in S
      BY <2>1, <2>2, Induction, ZenonT(30)
    <2> QED
      BY <2>3 DEF S
  <1>15. loop[end] = g[L]
    <2> HIDE DEF L
    <2> QED
      BY <1>1, <1>14 DEF end
  <1> QED
    BY <1>7, <1>8, <1>9, <1>15, Zenon DEF z, end, Rounds

\* What the loop has to compute: the number n of k digits, or any = -1 if it does not fit.
Computed(r, n, k) ==
  /\ n <= ULLONG_MAX => r = [acc |-> n, any |-> IF k = 0 THEN 0 ELSE 1]
  /\ n > ULLONG_MAX => r \in Loops /\ r.any = -1
  /\ n \in Nat

\* It does.
LEMMA AddDigitsExact ==
  ASSUME NEW b \in 2 .. 36, NEW str, NEW first \in Nat, NEW u, Spells(str, first, b, u),
         NEW h, Horner(h, b, u), NEW r, r = AddDigits(str, b, first, first + Len(u))
  PROVE  Computed(r, h[Len(u)], Len(u))
  <1>1. PICK L \in Nat : L = Len(u)
    BY DEF Spells
  <1>2. PICK g : /\ g \in [Nat -> Loops] /\ g[0] = [acc |-> 0, any |-> 0]
                 /\ \A k \in 0 .. L - 1 : g[k + 1] = AddDigit(b, g[k], Value[u[k + 1]])
                 /\ r = g[L]
    <2>1. b \in Nat
      OBVIOUS
    <2>2. PICK g : Rounds(g, str, b, first, u)
      BY ONLY <2>1, first \in Nat, Spells(str, first, b, u), AddDigitsUnfold, ZenonT(30)
    <2>3. /\ g \in [Nat -> Loops] /\ g[0] = [acc |-> 0, any |-> 0]
          /\ \A k \in 0 .. L - 1 : g[k + 1] = AddDigit(b, g[k], Value[u[k + 1]])
          /\ r = g[Len(u)]
      BY <1>1, <2>2, Zenon DEF Rounds
    <2> QED
      BY <1>1, <2>2, <2>3, Zenon
  <1>3. /\ h \in [Nat -> Nat] /\ h[0] = 0
        /\ \A k \in 0 .. L - 1 : h[k + 1] = h[k] * b + Value[u[k + 1]]
    BY <1>1, Zenon DEF Horner
  <1>4. \A k \in 0 .. L - 1 : Value[u[k + 1]] \in 0 .. b - 1
    <2> SUFFICES ASSUME NEW k \in 0 .. L - 1 PROVE Value[u[k + 1]] \in 0 .. b - 1
      OBVIOUS
    <2>1. Value[u[k + 1]] < b
      BY <1>1, Zenon DEF Spells
    <2>2. u[k + 1] \in Digit
      <3>1. u \in Seq(Digit) /\ k + 1 \in 1 .. Len(u)
        BY <1>1 DEF Spells
      <3> QED
        BY <3>1
    <2> QED
      BY <2>1, <2>2, ValueNat
  <1> DEFINE Fits(k) == h[k] <= ULLONG_MAX => g[k] = [acc |-> h[k], any |-> IF k = 0 THEN 0 ELSE 1]
             Over(k) == h[k] > ULLONG_MAX => g[k].any = -1
             S == {k \in Nat : k <= L => Fits(k) /\ Over(k)}
  <1>5. 0 \in S
    BY <1>2, <1>3, StrtoxAssumption DEF ULLONG_MAX
  <1>6. ASSUME NEW k \in Nat, k \in S PROVE k + 1 \in S
    <2>1. SUFFICES ASSUME k + 1 <= L PROVE Fits(k + 1) /\ Over(k + 1)
      OBVIOUS
    <2>2. k \in 0 .. L - 1 /\ k <= L /\ k + 1 # 0
      BY <2>1
    <2>3. PICK c \in 0 .. b - 1 : c = Value[u[k + 1]]
      BY <1>4, <2>2
    <2>4. PICK a \in Nat : a = h[k]
      BY <1>3
    <2>5. h[k + 1] = a * b + c /\ g[k + 1] = AddDigit(b, g[k], c)
      BY <1>2, <1>3, <2>2, <2>3, <2>4
    <2>6. a * b + c \in Nat /\ a * b + c >= a
      <3>1. b - 1 \in Nat /\ c \in Nat /\ a * b = a * (b - 1) + a
        OBVIOUS
      <3>2. a * (b - 1) \in Nat
        BY <3>1
      <3> QED
        BY <3>1, <3>2
    <2>7. ULLONG_MAX \in Nat /\ Wrap \in Nat \ {0} /\ b \in Nat /\ b > 1
      BY StrtoxAssumption DEF ULLONG_MAX
    <2>8. Fits(k) /\ Over(k)
      BY <1>6, <2>2
    <2>9. CASE a <= ULLONG_MAX
      <3>1. PICK any \in Nat : any = IF k = 0 THEN 0 ELSE 1
        OBVIOUS
      <3>2. g[k] = [acc |-> a, any |-> any]
        BY <2>4, <2>8, <2>9, <3>1
      <3>3. a \in 0 .. ULLONG_MAX
        BY <2>7, <2>9
      <3>4. g[k + 1] = IF a * b + c <= ULLONG_MAX THEN [acc |-> a * b + c, any |-> 1]
                                                   ELSE [acc |-> a, any |-> -1]
        <4>1. AddedIfFits(b, a, any, c)
          BY ONLY <2>7, <3>3, any \in Nat, c \in 0 .. b - 1, DigitFits, ZenonT(30)
        <4> QED
          BY <2>5, <3>2, <4>1, Zenon DEF AddedIfFits
      <3>5. PICK m \in Nat : m = a * b + c
        BY <2>6
      <3>6. h[k + 1] = m /\ g[k + 1] = IF m <= ULLONG_MAX THEN [acc |-> m, any |-> 1]
                                                          ELSE [acc |-> a, any |-> -1]
        BY <2>5, <3>4, <3>5, Zenon
      <3> QED
        BY <2>2, <2>7, <3>6
    <2>10. CASE ~(a <= ULLONG_MAX)
      <3>1. g[k].any = -1 /\ g[k] \in Loops
        BY <1>2, <2>4, <2>7, <2>8, <2>10
      <3>2. AddDigit(b, g[k], c) = [g[k] EXCEPT !.any = -1]
        BY <3>1 DEF AddDigit
      <3>3. AddDigit(b, g[k], c).any = -1
        BY <3>1, <3>2 DEF Loops
      <3>4. PICK m \in Nat : m = a * b + c
        BY <2>6
      <3>5. m > ULLONG_MAX
        BY <2>6, <2>7, <2>10, <3>4
      <3>6. h[k + 1] = m /\ g[k + 1].any = -1
        BY <2>5, <3>3, <3>4, Zenon
      <3> QED
        BY <2>7, <3>5, <3>6
    <2> QED
      BY <2>9, <2>10
  <1> HIDE DEF S
  <1>7. \A k \in Nat : k \in S
    BY <1>5, <1>6, Induction, ZenonT(30)
  <1>8. Fits(L) /\ Over(L)
    BY <1>7 DEF S
  <1> HIDE DEF Fits, Over
  <1>9. h[L] \in Nat /\ r \in Loops
    BY <1>2, <1>3
  <1> QED
    BY <1>1, <1>2, <1>8, <1>9 DEF Fits, Over, Computed

-----------------------------------------------------------------------------
(* The text: what Skip and Detect find is the longest numeral of the text.    *)

\* The characters of a string and the NUL behind it.
LEMMA CharFacts ==
  ASSUME NEW n \in Nat, NEW str \in [1 .. n -> Characters]
  PROVE  /\ str \in Seq(Characters) /\ Len(str) = n
         /\ \A i \in Nat : i < n => CharAt(str, i) = str[i + 1] /\ CharAt(str, i) \in Characters
         /\ \A i \in Nat : i >= n => CharAt(str, i) = "NUL"
         /\ "NUL" \notin Characters /\ Characters = Digit \union {" ", "+", "-"}
  <1>1. str \in Seq(Characters) /\ Len(str) = n
    OBVIOUS
  <1>2. \A i \in Nat : i < n => CharAt(str, i) = str[i + 1] /\ CharAt(str, i) \in Characters
    BY <1>1 DEF CharAt
  <1>3. \A i \in Nat : i >= n => CharAt(str, i) = "NUL"
    BY <1>1 DEF CharAt
  <1>4. Characters = Digit \union {" ", "+", "-"}
    BY ValueFacts DEF Characters
  <1>5. "NUL" \notin Characters
    BY <1>4 DEF Digit
  <1> QED
    BY <1>1, <1>2, <1>3, <1>4, <1>5

\* The loops that skip characters stop, at the latest at the NUL.
LEMMA SkipFacts ==
  ASSUME NEW n \in Nat, NEW str \in [1 .. n -> Characters], NEW i \in 0 .. n, NEW C,
         "NUL" \notin C
  PROVE  /\ Skip(str, i, C) \in i .. n /\ CharAt(str, Skip(str, i, C)) \notin C
         /\ \A k \in i .. Skip(str, i, C) - 1 : CharAt(str, k) \in C
  <1>1. Len(str) = n
    BY CharFacts
  <1> DEFINE T == {j \in i .. n : CharAt(str, j) \notin C}
  <1>2. n \in T
    <2>1. \A k \in Nat : k >= n => CharAt(str, k) = "NUL"
      BY CharFacts, Zenon
    <2>2. CharAt(str, n) = "NUL"
      BY ONLY <2>1, n \in Nat
    <2>3. n \in i .. n
      OBVIOUS
    <2> QED
      BY <2>2, <2>3
  <1>3. T \subseteq Nat /\ T # {}
    BY <1>2
  <1>4. PICK j \in T : \A k \in T : j <= k
    <2> HIDE DEF T
    <2> QED
      BY <1>3, LeastNumber, ZenonT(30)
  <1>5. j \in i .. n /\ CharAt(str, j) \notin C
    BY <1>4
  <1>6. ASSUME NEW k \in i .. j - 1 PROVE CharAt(str, k) \in C
    BY <1>4, <1>5
  <1>7. \E m \in i .. Len(str) : /\ CharAt(str, m) \notin C
                                 /\ \A k \in i .. m - 1 : CharAt(str, k) \in C
    BY <1>1, <1>5, <1>6
  <1> QED
    BY <1>1, <1>7, Zenon DEF Skip

-----------------------------------------------------------------------------
\* Where the spaces end, and where the sign does.
Sign(str) == Skip(str, 0, {" "})
Signed(str) == CharAt(str, Sign(str)) \in {"-", "+"}
AfterSign(str) == IF Signed(str) THEN Sign(str) + 1 ELSE Sign(str)
\* From i to before j there are digits of base b only.
AllDigits(str, i, j, b) ==
  \A k \in i .. j - 1 : CharAt(str, k) \in DOMAIN Value /\ Value[CharAt(str, k)] < b
\* The part of the text up to e, from its sign and from its first digit on.
Part(str, e) == SubSeq(str, Sign(str) + 1, e)
Body(str, e) == Unsigned(Part(str, e))

\* Both lie in the text, and there are only spaces before the sign.
LEMMA SignFacts ==
  ASSUME NEW n \in Nat, NEW str \in [1 .. n -> Characters]
  PROVE  /\ Sign(str) \in 0 .. n /\ AfterSign(str) \in Sign(str) .. n
         /\ CharAt(str, Sign(str)) # " "
         /\ \A k \in 0 .. Sign(str) - 1 : CharAt(str, k) = " "
  <1>1. /\ Sign(str) \in 0 .. n /\ CharAt(str, Sign(str)) \notin {" "}
        /\ \A k \in 0 .. Sign(str) - 1 : CharAt(str, k) \in {" "}
    <2>1. 0 \in 0 .. n /\ "NUL" \notin {" "}
      OBVIOUS
    <2> QED
      BY <2>1, SkipFacts, Zenon DEF Sign
  <1>5. Sign(str) \in 0 .. n
    BY <1>1, Zenon
  <1>2. Signed(str) => Sign(str) < n
    <2>1. \A k \in Nat : k >= n => CharAt(str, k) = "NUL"
      BY CharFacts, Zenon
    <2>2. Signed(str) => CharAt(str, Sign(str)) # "NUL"
      BY DEF Signed
    <2>3. PICK p \in Nat : p = Sign(str)
      BY <1>5
    <2>4. ~(p >= n) => p < n
      BY SMT
    <2> QED
      BY <2>1, <2>2, <2>3, <2>4, Zenon
  <1>3. AfterSign(str) \in Sign(str) .. n
    <2>1. PICK p \in 0 .. n : p = Sign(str)
      BY <1>5
    <2>2. CASE Signed(str)
      <3>1. AfterSign(str) = p + 1 /\ p < n
        BY <1>2, <2>1, <2>2, Zenon DEF AfterSign
      <3>2. p + 1 \in p .. n
        BY <3>1
      <3> QED
        BY <2>1, <3>1, <3>2
    <2>3. CASE ~Signed(str)
      BY <2>1, <2>3 DEF AfterSign
    <2> QED
      BY <2>2, <2>3
  <1>4. CharAt(str, Sign(str)) # " " /\ \A k \in 0 .. Sign(str) - 1 : CharAt(str, k) = " "
    BY <1>1, Zenon
  <1> QED
    BY <1>1, <1>3, <1>4, Zenon

\* Taking off the sign leaves the text from AfterSign(str) on.
LEMMA BodyFacts ==
  ASSUME NEW n \in Nat, NEW str \in [1 .. n -> Characters], NEW e \in Sign(str) + 1 .. n
  PROVE  /\ Body(str, e) \in Seq(Characters)
         /\ Len(Body(str, e)) = e - AfterSign(str) /\ AfterSign(str) <= e
         /\ \A k \in 1 .. e - AfterSign(str) :
              Body(str, e)[k] = CharAt(str, AfterSign(str) + k - 1)
  <1>1. PICK p \in 0 .. n : p = Sign(str)
    BY SignFacts
  <1>2. PICK s : s = Part(str, e)
    OBVIOUS
  <1>3. e \in p + 1 .. n /\ e \in Int /\ p + 1 \in Int
    BY <1>1
  <1>4. /\ s \in Seq(Characters) /\ Len(s) = e - p
        /\ \A k \in 1 .. e - p : s[k] = str[p + k]
    <2>1. \A k \in p + 1 .. e : str[k] \in Characters
      BY <1>3
    <2>2. /\ s \in Seq(Characters) /\ Len(s) = (IF p + 1 <= e THEN e - (p + 1) + 1 ELSE 0)
          /\ \A k \in 1 .. e - (p + 1) + 1 : s[k] = str[(p + 1) + k - 1]
      <3>1. s = SubSeq(str, p + 1, e)
        BY <1>1, <1>2 DEF Part
      <3>2. SubSeq(str, p + 1, e) \in Seq(Characters)
        BY <1>3, <2>1, SMT
      <3>3. Len(SubSeq(str, p + 1, e)) = (IF p + 1 <= e THEN e - (p + 1) + 1 ELSE 0)
        BY <1>3, SMT
      <3>4. \A k \in 1 .. e - (p + 1) + 1 : SubSeq(str, p + 1, e)[k] = str[(p + 1) + k - 1]
        BY <1>3, SMT
      <3> QED
        BY <3>1, <3>2, <3>3, <3>4, Zenon
    <2>3. Len(s) = e - p /\ e - (p + 1) + 1 = e - p
      BY <1>3, <2>2
    <2>4. \A k \in 1 .. e - p : s[k] = str[p + k]
      <3> SUFFICES ASSUME NEW k \in 1 .. e - p PROVE s[k] = str[p + k]
        OBVIOUS
      <3>1. (p + 1) + k - 1 = p + k /\ k \in 1 .. e - (p + 1) + 1
        BY <1>3
      <3> QED
        BY <2>2, <3>1
    <2> QED
      BY <2>2, <2>3, <2>4
  <1>5. s # <<>> /\ s[1] = CharAt(str, p)
    <2>1. Len(s) > 0 /\ s[1] = str[p + 1]
      BY <1>3, <1>4
    <2>2. \A k \in Nat : k < n => CharAt(str, k) = str[k + 1]
      BY CharFacts, Zenon
    <2>3. CharAt(str, p) = str[p + 1]
      BY ONLY <1>3, <2>2, n \in Nat, p \in 0 .. n
    <2> QED
      BY <1>4, <2>1, <2>3
  <1>6. \A k \in Nat : k < n => CharAt(str, k) = str[k + 1]
    BY CharFacts
  <1>7. CASE Signed(str)
    <2>1. AfterSign(str) = p + 1 /\ Body(str, e) = Tail(s)
      BY <1>1, <1>2, <1>5, <1>7 DEF AfterSign, Signed, Body, Unsigned
    <2>2. /\ Tail(s) \in Seq(Characters) /\ Len(Tail(s)) = e - p - 1
          /\ \A k \in 1 .. e - p - 1 : Tail(s)[k] = s[k + 1]
      BY <1>4, <1>5
    <2>3. ASSUME NEW k \in 1 .. e - (p + 1) PROVE Tail(s)[k] = CharAt(str, (p + 1) + k - 1)
      <3>1. k \in 1 .. e - p - 1 /\ k + 1 \in 1 .. e - p /\ (p + 1) + k - 1 = p + k
        BY <1>3
      <3>2. Tail(s)[k] = str[p + (k + 1)]
        BY <1>4, <2>2, <3>1
      <3>3. CharAt(str, p + k) = str[(p + k) + 1] /\ (p + k) + 1 = p + (k + 1)
        BY <1>3, <1>6
      <3> QED
        BY <3>1, <3>2, <3>3
    <2>4. Len(Tail(s)) = e - (p + 1) /\ p + 1 <= e
      BY <1>3, <2>2
    <2> QED
      BY <2>1, <2>2, <2>3, <2>4, Zenon
  <1>8. CASE ~Signed(str)
    <2>1. AfterSign(str) = p /\ Body(str, e) = s
      BY <1>1, <1>2, <1>5, <1>8 DEF AfterSign, Signed, Body, Unsigned
    <2>2. ASSUME NEW k \in 1 .. e - p PROVE s[k] = CharAt(str, p + k - 1)
      <3>1. CharAt(str, p + k - 1) = str[(p + k - 1) + 1] /\ (p + k - 1) + 1 = p + k
        BY <1>3, <1>6
      <3> QED
        BY <1>4, <3>1
    <2>3. p <= e
      BY <1>3
    <2> QED
      BY <1>4, <2>1, <2>2, <2>3, Zenon
  <1> QED
    BY <1>7, <1>8

-----------------------------------------------------------------------------
\* The base of a numeral without prefix.
PlainBase(str, base) ==
  IF base # 0 THEN base ELSE IF CharAt(str, AfterSign(str)) = "0" THEN 8 ELSE 10
\* The text up to e is a numeral without and with the prefix 0x.
PlainOK(str, base, e) ==
  /\ PlainBase(str, base) \in 2 .. 36 /\ e > AfterSign(str)
  /\ AllDigits(str, AfterSign(str), e, PlainBase(str, base))
HexOK(str, base, e) ==
  /\ base \in {0, 16} /\ e > AfterSign(str) + 2
  /\ CharAt(str, AfterSign(str)) = "0" /\ CharAt(str, AfterSign(str) + 1) = "x"
  /\ AllDigits(str, AfterSign(str) + 2, e, 16)
\* The readings these give.
PlainReading(str, base, e) == <<PlainBase(str, base), Body(str, e)>>
HexDigits(str, e) == SubSeq(Body(str, e), 3, Len(Body(str, e)))

\* Behind the prefix is the text from two characters on.
LEMMA HexDigitsFacts ==
  ASSUME NEW n \in Nat, NEW str \in [1 .. n -> Characters], NEW e \in Sign(str) + 1 .. n,
         e > AfterSign(str) + 2
  PROVE  /\ HexDigits(str, e) \in Seq(Characters)
         /\ Len(HexDigits(str, e)) = e - (AfterSign(str) + 2)
         /\ \A k \in 1 .. e - (AfterSign(str) + 2) :
              HexDigits(str, e)[k] = CharAt(str, (AfterSign(str) + 2) + k - 1)
  <1>1. PICK u, st : u = Body(str, e) /\ st = AfterSign(str)
    OBVIOUS
  <1>2. st \in Nat /\ e \in Nat /\ e > st + 2
    <2>1. Sign(str) \in 0 .. n /\ AfterSign(str) \in Sign(str) .. n
      BY SignFacts, Zenon
    <2> QED
      BY <1>1, <2>1
  <1>3. /\ u \in Seq(Characters) /\ Len(u) = e - st
        /\ \A k \in 1 .. e - st : u[k] = CharAt(str, st + k - 1)
    BY <1>1, BodyFacts, Zenon
  <1>4. PICK w : w = SubSeq(u, 3, Len(u))
    OBVIOUS
  <1>5. w \in Seq(Characters) /\ Len(w) = e - (st + 2)
    BY <1>2, <1>3, <1>4
  <1>6. ASSUME NEW k \in 1 .. e - (st + 2) PROVE w[k] = CharAt(str, (st + 2) + k - 1)
    <2>1. k + 2 \in 1 .. e - st /\ st + (k + 2) - 1 = (st + 2) + k - 1
      BY <1>2
    <2>2. w[k] = u[k + 2]
      BY <1>2, <1>3, <1>4
    <2> QED
      BY <1>3, <2>1, <2>2
  <1>7. w = HexDigits(str, e)
    BY <1>1, <1>4 DEF HexDigits
  <1> QED
    BY <1>1, <1>5, <1>6, <1>7, Zenon

\* The ways to read the text up to e are these two.
LEMMA ReadingsFacts ==
  ASSUME NEW n \in Nat, NEW str \in [1 .. n -> Characters], NEW e \in Sign(str) + 1 .. n,
         NEW base \in Int, NEW r
  PROVE  r \in Readings(Part(str, e), base) <=>
           \/ PlainOK(str, base, e) /\ r = PlainReading(str, base, e)
           \/ HexOK(str, base, e) /\ r = <<16, HexDigits(str, e)>>
  <1>1. PICK u, st : u = Body(str, e) /\ st = AfterSign(str)
    OBVIOUS
  <1>2. st \in Nat /\ e \in Nat /\ e >= st
    <2>1. Sign(str) \in 0 .. n /\ AfterSign(str) \in Sign(str) .. n
      BY SignFacts, Zenon
    <2>2. AfterSign(str) <= e
      BY BodyFacts, Zenon
    <2> QED
      BY <1>1, <2>1, <2>2
  <1>3. /\ u \in Seq(Characters) /\ Len(u) = e - st
        /\ \A k \in 1 .. e - st : u[k] = CharAt(str, st + k - 1)
    BY <1>1, BodyFacts, Zenon
  <1> DEFINE plain == IF base # 0 THEN base ELSE IF u # <<>> /\ u[1] = "0" THEN 8 ELSE 10
             hex == base \in {0, 16} /\ Len(u) > 2 /\ u[1] = "0" /\ u[2] = "x"
             w == SubSeq(u, 3, Len(u))
             Valid(x) == /\ x[1] \in 2 .. 36 /\ x[2] # <<>>
                         /\ \A i \in DOMAIN x[2] : x[2][i] \in DOMAIN Value /\ Value[x[2][i]] < x[1]
  <1>4. r \in Readings(Part(str, e), base) <=>
          (r = <<plain, u>> \/ (hex /\ r = <<16, w>>)) /\ Valid(r)
    <2>1. Unsigned(Part(str, e)) = u
      BY <1>1 DEF Body
    <2>2. Readings(Part(str, e), base) =
            {x \in {<<plain, u>>} \union (IF hex THEN {<<16, w>>} ELSE {}) : Valid(x)}
      BY <2>1, Zenon DEF Readings
    <2> HIDE DEF plain, hex, w, Valid
    <2> QED
      BY <2>2
  <1>5. ASSUME NEW i \in Nat, NEW b, NEW x, x \in Seq(Characters), i <= e, Len(x) = e - i,
               \A k \in 1 .. e - i : x[k] = CharAt(str, i + k - 1)
        PROVE  (\A k \in DOMAIN x : x[k] \in DOMAIN Value /\ Value[x[k]] < b)
                 <=> AllDigits(str, i, e, b)
    <2>1. DOMAIN x = 1 .. e - i
      BY <1>5
    <2>2. ASSUME \A k \in DOMAIN x : x[k] \in DOMAIN Value /\ Value[x[k]] < b,
                 NEW k \in i .. e - 1
          PROVE  CharAt(str, k) \in DOMAIN Value /\ Value[CharAt(str, k)] < b
      <3>1. (k - i) + 1 \in 1 .. e - i /\ i + ((k - i) + 1) - 1 = k
        BY <1>2
      <3>2. x[(k - i) + 1] = CharAt(str, k)
        BY <1>5, <3>1
      <3> QED
        BY <2>1, <2>2, <3>1, <3>2, Zenon
    <2>3. ASSUME AllDigits(str, i, e, b), NEW k \in DOMAIN x
          PROVE  x[k] \in DOMAIN Value /\ Value[x[k]] < b
      <3>1. k \in 1 .. e - i /\ i + k - 1 \in i .. e - 1
        BY <1>2, <2>1
      <3>2. x[k] = CharAt(str, i + k - 1)
        BY <1>5, <3>1
      <3> QED
        BY <2>3, <3>1, <3>2, Zenon DEF AllDigits
    <2> QED
      BY <2>2, <2>3, Zenon DEF AllDigits
  <1>6. ASSUME u # <<>> PROVE e > st /\ plain = PlainBase(str, base)
    <2>1. e > st
      BY <1>2, <1>3, <1>6
    <2>2. u[1] = CharAt(str, st)
      <3>1. 1 \in 1 .. e - st /\ st + 1 - 1 = st
        BY <1>2, <2>1
      <3> QED
        BY <1>3, <3>1
    <2> QED
      BY <1>1, <1>6, <2>1, <2>2, Zenon DEF PlainBase
  <1>7. Valid(<<plain, u>>) <=> PlainOK(str, base, e)
    <2> DEFINE P == <<plain, u>>
    <2>1. Valid(<<plain, u>>) <=> plain \in 2 .. 36 /\ u # <<>> /\ AllDigits(str, st, e, plain)
      <3>1. (\A k \in DOMAIN u : u[k] \in DOMAIN Value /\ Value[u[k]] < plain)
               <=> AllDigits(str, st, e, plain)
        BY <1>2, <1>3, <1>5, Zenon
      <3> HIDE DEF plain
      <3>2. <<plain, u>>[1] = plain /\ <<plain, u>>[2] = u
        OBVIOUS
      <3> QED
        BY <3>1, <3>2, Zenon
    <2>2. e > st => u # <<>>
      BY <1>2, <1>3
    <2> HIDE DEF plain, Valid
    <2> QED
      BY <1>1, <1>6, <2>1, <2>2, Zenon DEF PlainOK
  <1>8. hex /\ Valid(<<16, w>>) <=> HexOK(str, base, e)
    <2>1. Len(u) > 2 <=> e > st + 2
      BY <1>2, <1>3
    <2>2. ASSUME e > st + 2 PROVE /\ u[1] = CharAt(str, st) /\ u[2] = CharAt(str, st + 1)
                                  /\ (Valid(<<16, w>>) <=> AllDigits(str, st + 2, e, 16))
      <3>1. 1 \in 1 .. e - st /\ st + 1 - 1 = st /\ 2 \in 1 .. e - st /\ st + 2 - 1 = st + 1
        BY <1>2, <2>2
      <3>2. u[1] = CharAt(str, st) /\ u[2] = CharAt(str, st + 1)
        BY <1>3, <3>1
      <3>3. /\ w \in Seq(Characters) /\ Len(w) = e - (st + 2)
            /\ \A k \in 1 .. e - (st + 2) : w[k] = CharAt(str, (st + 2) + k - 1)
        <4>1. w = HexDigits(str, e)
          BY <1>1 DEF HexDigits
        <4> QED
          BY <1>1, <2>2, <4>1, HexDigitsFacts, Zenon
      <3>4. w # <<>>
        <4> HIDE DEF w
        <4> QED
          BY <1>2, <2>2, <3>3
      <3>5. (\A k \in DOMAIN w : w[k] \in DOMAIN Value /\ Value[w[k]] < 16)
               <=> AllDigits(str, st + 2, e, 16)
        <4>1. st + 2 \in Nat /\ st + 2 <= e
          BY <1>2, <2>2
        <4> HIDE DEF w
        <4> QED
          BY <1>5, <3>3, <4>1, Zenon
      <3> HIDE DEF w
      <3>6. <<16, w>>[1] = 16 /\ <<16, w>>[2] = w /\ 16 \in 2 .. 36
        OBVIOUS
      <3> QED
        BY <3>2, <3>4, <3>5, <3>6, Zenon
    <2> HIDE DEF w, Valid
    <2> QED
      BY <1>1, <2>1, <2>2, Zenon DEF HexOK
  <1>9. w = HexDigits(str, e)
    BY <1>1 DEF HexDigits
  <1>10. PlainOK(str, base, e) => plain = PlainBase(str, base)
    <2>1. e > st => u # <<>>
      BY <1>2, <1>3
    <2> QED
      BY <1>1, <1>6, <2>1, Zenon DEF PlainOK
  <1> HIDE DEF plain, hex, w, Valid
  <1>11. r = <<plain, u>> /\ Valid(r) <=> PlainOK(str, base, e) /\ r = PlainReading(str, base, e)
    BY <1>1, <1>7, <1>10, Zenon DEF PlainReading
  <1>12. hex /\ r = <<16, w>> /\ Valid(r) <=> HexOK(str, base, e) /\ r = <<16, HexDigits(str, e)>>
    BY <1>8, <1>9, Zenon
  <1> QED
    BY <1>4, <1>11, <1>12, Zenon

\* The digits of base b; the loop over the digits stops at the first other character.
DigitsOf(b) == {c \in DOMAIN Value : Value[c] < b}
\* Detect takes the text for a hexadecimal number.
Prefixed(str, base) ==
  LET st == AfterSign(str)
  IN  /\ base \in {0, 16} /\ CharAt(str, st) = "0" /\ CharAt(str, st + 1) = "x"
      /\ isxdigit(CharAt(str, st + 2))
\* The base and the first digit that it finds, and where the digits end.
Detected(str, base) == Detect(str, AfterSign(str), base)
AfterDigits(str, base) ==
  Skip(str, Detected(str, base).first, DigitsOf(Detected(str, base).base))

\* It decides between the two bases, and the first digit lies in the text.
LEMMA DetectFacts ==
  ASSUME NEW n \in Nat, NEW str \in [1 .. n -> Characters], NEW base \in Int
  PROVE  /\ Prefixed(str, base) =>
              /\ Detected(str, base) = [base |-> 16, first |-> AfterSign(str) + 2]
              /\ AfterSign(str) + 2 < n
         /\ ~Prefixed(str, base) =>
              Detected(str, base) = [base |-> PlainBase(str, base), first |-> AfterSign(str)]
         /\ Detected(str, base).first \in AfterSign(str) .. n /\ Detected(str, base).base \in Int
         /\ AfterSign(str) \in 0 .. n
  <1>1. PICK st : st = AfterSign(str)
    OBVIOUS
  <1>2. st \in 0 .. n
    <2>1. Sign(str) \in 0 .. n /\ AfterSign(str) \in Sign(str) .. n
      BY SignFacts, Zenon
    <2> QED
      BY <1>1, <2>1
  <1>3. ASSUME Prefixed(str, base) PROVE st + 2 < n
    <2>1. \A i \in Nat : i >= n => CharAt(str, i) = "NUL"
      BY CharFacts, Zenon
    <2>2. CharAt(str, st + 2) # "NUL"
      BY <1>1, <1>3, ValueFacts DEF Prefixed, isxdigit, isalnum, Digit
    <2>3. st + 2 \in Nat /\ (~(st + 2 >= n) => st + 2 < n)
      BY <1>2
    <2> QED
      BY <2>1, <2>2, <2>3, Zenon
  <1>4. Prefixed(str, base) => Detected(str, base) = [base |-> 16, first |-> st + 2]
    BY <1>1, Zenon DEF Prefixed, Detected, Detect
  <1>5. ~Prefixed(str, base) => Detected(str, base) = [base |-> PlainBase(str, base), first |-> st]
    BY <1>1, Zenon DEF Prefixed, Detected, Detect, PlainBase
  <1>6. PlainBase(str, base) \in Int
    BY DEF PlainBase
  <1>7. CASE Prefixed(str, base)
    BY <1>1, <1>2, <1>3, <1>4, <1>7
  <1>8. CASE ~Prefixed(str, base)
    BY <1>1, <1>2, <1>5, <1>6, <1>8
  <1> QED
    BY <1>7, <1>8, Zenon

\* The digits end at the first character that is none.
LEMMA EndFacts ==
  ASSUME NEW n \in Nat, NEW str \in [1 .. n -> Characters], NEW base \in Int,
         NEW b, NEW f, b = Detected(str, base).base, f = Detected(str, base).first
  PROVE  /\ b \in Int /\ f \in Nat /\ AfterDigits(str, base) \in f .. n
         /\ AllDigits(str, f, AfterDigits(str, base), b)
         /\ \A e \in Nat : AllDigits(str, f, e, b) => e <= AfterDigits(str, base)
  <1>1. f \in 0 .. n /\ b \in Int
    <2>1. f \in AfterSign(str) .. n /\ b \in Int /\ AfterSign(str) \in 0 .. n
      BY DetectFacts, Zenon
    <2> QED
      BY <2>1
  <1>2. "NUL" \notin DigitsOf(b)
    BY ValueFacts DEF DigitsOf, Digit
  <1>3. PICK g : g = AfterDigits(str, base)
    OBVIOUS
  <1>4. /\ g \in f .. n /\ CharAt(str, g) \notin DigitsOf(b)
        /\ \A k \in f .. g - 1 : CharAt(str, k) \in DigitsOf(b)
    BY <1>1, <1>2, <1>3, SkipFacts, Zenon DEF AfterDigits
  <1>5. AllDigits(str, f, g, b)
    BY <1>4, Zenon DEF AllDigits, DigitsOf
  <1>6. ASSUME NEW e \in Nat, AllDigits(str, f, e, b) PROVE e <= g
    <2>1. g \notin f .. e - 1
      BY <1>4, <1>6, Zenon DEF AllDigits, DigitsOf
    <2> QED
      BY <1>1, <1>4, <2>1
  <1> QED
    BY <1>1, <1>3, <1>4, <1>5, <1>6

-----------------------------------------------------------------------------
\* With a prefix the numeral is the hexadecimal one.
LEMMA PrefixedEnds ==
  ASSUME NEW n \in Nat, NEW str \in [1 .. n -> Characters], NEW base \in Int,
         Prefixed(str, base), NEW e \in Nat
  PROVE  /\ AfterSign(str) + 2 < AfterDigits(str, base) /\ HexOK(str, base, AfterDigits(str, base))
         /\ ~PlainOK(str, base, AfterDigits(str, base))
         /\ PlainOK(str, base, e) \/ HexOK(str, base, e) => e <= AfterDigits(str, base)
  <1>1. PICK st : st = AfterSign(str)
    OBVIOUS
  <1>2. PICK g : g = AfterDigits(str, base)
    OBVIOUS
  <1>3. st \in 0 .. n /\ st + 2 < n
    BY <1>1, DetectFacts, Zenon
  <1>4. Detected(str, base).base = 16 /\ Detected(str, base).first = st + 2
    <2>1. Detected(str, base) = [base |-> 16, first |-> st + 2]
      BY <1>1, DetectFacts, Zenon
    <2> QED
      BY <2>1
  <1>5. /\ g \in st + 2 .. n /\ AllDigits(str, st + 2, g, 16)
        /\ \A i \in Nat : AllDigits(str, st + 2, i, 16) => i <= g
    BY <1>2, <1>4, EndFacts, Zenon
  <1>6. st + 2 < g
    <2>1. CharAt(str, st + 2) \in DOMAIN Value /\ Value[CharAt(str, st + 2)] < 16
      BY <1>1, ValueFacts DEF Prefixed, isxdigit, isalnum, Digit
    <2>2. st + 2 .. (st + 3) - 1 = {st + 2}
      BY <1>3
    <2>3. AllDigits(str, st + 2, st + 3, 16)
      BY <2>1, <2>2, Zenon DEF AllDigits
    <2>4. st + 3 \in Nat
      BY <1>3
    <2>5. st + 3 <= g
      BY <1>5, <2>3, <2>4, Zenon
    <2> QED
      BY <1>3, <1>5, <2>5
  <1>7. HexOK(str, base, g)
    BY <1>1, <1>5, <1>6 DEF HexOK, Prefixed
  <1>8. ASSUME NEW i \in Nat, PlainOK(str, base, i) PROVE i < g /\ i <= g
    <2>1. PlainBase(str, base) \in {8, 16}
      BY <1>1 DEF PlainBase, Prefixed
    <2>2. ~(Value["x"] < PlainBase(str, base))
      BY <2>1, ValueFacts
    <2>3. CharAt(str, st + 1) = "x"
      BY <1>1, Zenon DEF Prefixed
    <2>4. st + 1 \notin st .. i - 1
      BY <1>1, <1>8, <2>2, <2>3, Zenon DEF PlainOK, AllDigits
    <2> QED
      BY <1>3, <1>5, <1>6, <2>4
  <1>9. ~PlainOK(str, base, g)
    <2>1. g \in Nat
      BY <1>3, <1>5
    <2>2. ~(g < g)
      BY <2>1
    <2> QED
      BY <1>8, <2>1, <2>2, Zenon
  <1>10. HexOK(str, base, e) => e <= g
    BY <1>1, <1>5, Zenon DEF HexOK
  <1> QED
    BY <1>1, <1>2, <1>6, <1>7, <1>8, <1>9, <1>10, Zenon

\* Without one it is the plain one, if there is a digit and the base is one.
LEMMA PlainEnds ==
  ASSUME NEW n \in Nat, NEW str \in [1 .. n -> Characters], NEW base \in Int,
         ~Prefixed(str, base), NEW e \in Nat
  PROVE  /\ ~HexOK(str, base, e)
         /\ PlainOK(str, base, e) =>
              /\ PlainBase(str, base) \in 2 .. 36
              /\ AfterSign(str) < AfterDigits(str, base) /\ e <= AfterDigits(str, base)
         /\ PlainBase(str, base) \in 2 .. 36 /\ AfterSign(str) < AfterDigits(str, base)
              => PlainOK(str, base, AfterDigits(str, base))
  <1>1. PICK st : st = AfterSign(str)
    OBVIOUS
  <1>2. PICK g : g = AfterDigits(str, base)
    OBVIOUS
  <1>3. PICK b : b = PlainBase(str, base)
    OBVIOUS
  <1>4. st \in 0 .. n
    BY <1>1, DetectFacts, Zenon
  <1>5. Detected(str, base).base = b /\ Detected(str, base).first = st
    <2>1. Detected(str, base) = [base |-> b, first |-> st]
      BY <1>1, <1>3, DetectFacts, Zenon
    <2> QED
      BY <2>1
  <1>6. /\ g \in st .. n /\ AllDigits(str, st, g, b)
        /\ \A i \in Nat : AllDigits(str, st, i, b) => i <= g
    BY <1>2, <1>5, EndFacts, Zenon
  <1>7. ASSUME HexOK(str, base, e) PROVE FALSE
    <2>1. e > st + 2 /\ AllDigits(str, st + 2, e, 16)
      BY <1>1, <1>7, Zenon DEF HexOK
    <2>2. st + 2 \in st + 2 .. e - 1
      BY <1>4, <2>1
    <2>3. CharAt(str, st + 2) \in DOMAIN Value /\ Value[CharAt(str, st + 2)] < 16
      BY <2>1, <2>2, Zenon DEF AllDigits
    <2>4. CharAt(str, st + 2) # "x"
      BY <2>3, ValueFacts
    <2>5. isxdigit(CharAt(str, st + 2))
      BY <2>3, <2>4, Zenon DEF isxdigit, isalnum
    <2> QED
      BY <1>1, <1>7, <2>5, Zenon DEF HexOK, Prefixed
  <1>8. ASSUME PlainOK(str, base, e) PROVE b \in 2 .. 36 /\ st < g /\ e <= g
    <2>1. b \in 2 .. 36 /\ e > st /\ e <= g
      BY <1>1, <1>3, <1>6, <1>8, Zenon DEF PlainOK
    <2> QED
      BY <1>4, <1>6, <2>1
  <1>9. ASSUME b \in 2 .. 36, st < g PROVE PlainOK(str, base, g)
    <2>1. g > st
      BY <1>4, <1>6, <1>9
    <2> QED
      BY <1>1, <1>3, <1>6, <1>9, <2>1, Zenon DEF PlainOK
  <1> QED
    BY <1>1, <1>2, <1>3, <1>7, <1>8, <1>9, Zenon

-----------------------------------------------------------------------------
(* The ends of the numerals that Expected looks at. *)

Ends(str, base) == {e \in Sign(str) + 1 .. Len(str) : Readings(Part(str, e), base) # {}}

\* u is the text from f to g.
Text(str, f, g, u) ==
  /\ u \in Seq(Characters) /\ Len(u) = g - f
  /\ \A k \in 1 .. g - f : u[k] = CharAt(str, f + k - 1)

\* u are the digits from f to g in base b.
Numeral(str, f, g, b, u) == Spells(str, f, b, u) /\ f + Len(u) = g

\* The characters from f to g are a numeral that the loop over the digits reads.
LEMMA DigitsSpell ==
  ASSUME NEW str, NEW b, NEW f \in Nat, NEW g \in Nat, f <= g, AllDigits(str, f, g, b),
         NEW u, Text(str, f, g, u)
  PROVE  Numeral(str, f, g, b, u)
  <1> USE DEF Text, Numeral
  <1>1. ASSUME NEW k \in 0 .. Len(u) - 1
        PROVE  CharAt(str, f + k) = u[k + 1] /\ u[k + 1] \in Digit /\ Value[u[k + 1]] < b
    <2>1. k + 1 \in 1 .. g - f /\ f + (k + 1) - 1 = f + k /\ f + k \in f .. g - 1
      OBVIOUS
    <2>2. CharAt(str, f + k) = u[k + 1]
      BY <2>1
    <2>3. CharAt(str, f + k) \in DOMAIN Value /\ Value[CharAt(str, f + k)] < b
      BY <2>1, Zenon DEF AllDigits
    <2> QED
      BY <2>2, <2>3, ValueFacts, Zenon
  <1>2. u \in Seq(Digit)
    <2>1. ASSUME NEW k \in 1 .. Len(u) PROVE u[k] \in Digit
      <3>1. k - 1 \in 0 .. Len(u) - 1 /\ (k - 1) + 1 = k
        OBVIOUS
      <3> QED
        BY <1>1, <3>1
    <2> QED
      BY <2>1
  <1> QED
    BY <1>1, <1>2 DEF Spells

\* Without a base or a digit there is no numeral.
LEMMA EndsEmpty ==
  ASSUME NEW n \in Nat, NEW str \in [1 .. n -> Characters], NEW base \in Int,
         NEW b, NEW f, b = Detected(str, base).base, f = Detected(str, base).first,
         ~(b \in 2 .. 36 /\ f < AfterDigits(str, base))
  PROVE  Ends(str, base) = {}
  <1>1. SUFFICES ASSUME NEW e \in Sign(str) + 1 .. n, NEW r \in Readings(Part(str, e), base)
                 PROVE  FALSE
    <2>1. Len(str) = n
      BY CharFacts, Zenon
    <2> QED
      BY <2>1, Zenon DEF Ends
  <1>2. PlainOK(str, base, e) \/ HexOK(str, base, e)
    BY ReadingsFacts, Zenon
  <1>3. e \in Nat
    <2>1. Sign(str) \in 0 .. n
      BY SignFacts, Zenon
    <2> QED
      BY <2>1
  <1>4. CASE Prefixed(str, base)
    <2>1. Detected(str, base) = [base |-> 16, first |-> AfterSign(str) + 2]
      BY <1>4, DetectFacts, Zenon
    <2>2. AfterSign(str) + 2 < AfterDigits(str, base)
      BY <1>3, <1>4, PrefixedEnds, Zenon
    <2>3. b = 16 /\ f = AfterSign(str) + 2
      BY <2>1
    <2> QED
      BY <2>2, <2>3
  <1>5. CASE ~Prefixed(str, base)
    <2>1. Detected(str, base) = [base |-> PlainBase(str, base), first |-> AfterSign(str)]
      BY <1>5, DetectFacts, Zenon
    <2>2. PlainBase(str, base) \in 2 .. 36 /\ AfterSign(str) < AfterDigits(str, base)
      BY <1>2, <1>3, <1>5, PlainEnds, Zenon
    <2>3. b = PlainBase(str, base) /\ f = AfterSign(str)
      BY <2>1
    <2> QED
      BY <2>2, <2>3, Zenon
  <1> QED
    BY <1>4, <1>5

\* Otherwise the longest numeral ends where the digits end, and has one reading.
LEMMA EndsFacts ==
  ASSUME NEW n \in Nat, NEW str \in [1 .. n -> Characters], NEW base \in Int,
         NEW b, NEW f, b = Detected(str, base).base, f = Detected(str, base).first,
         b \in 2 .. 36, f < AfterDigits(str, base)
  PROVE  /\ AfterDigits(str, base) \in Sign(str) + 1 .. n
         /\ AfterDigits(str, base) \in Ends(str, base)
         /\ \A e \in Ends(str, base) : e <= AfterDigits(str, base)
         /\ \E u : /\ Readings(Part(str, AfterDigits(str, base)), base) = {<<b, u>>}
                   /\ Numeral(str, f, AfterDigits(str, base), b, u)
  <1>1. PICK st : st = AfterSign(str)
    OBVIOUS
  <1>2. PICK g : g = AfterDigits(str, base)
    OBVIOUS
  <1>3. PICK p : p = Sign(str)
    OBVIOUS
  <1>4. st \in p .. n /\ p \in 0 .. n /\ f \in st .. n
    <2>1. Sign(str) \in 0 .. n /\ AfterSign(str) \in Sign(str) .. n
      BY SignFacts, Zenon
    <2>2. f \in AfterSign(str) .. n
      BY DetectFacts, Zenon
    <2> QED
      BY <1>1, <1>3, <2>1, <2>2, Zenon
  <1>5. g \in f .. n /\ AllDigits(str, f, g, b)
    BY <1>2, EndFacts, Zenon
  <1>6. g \in p + 1 .. n /\ f < g /\ g \in Nat /\ f \in Nat /\ f <= g
    BY <1>2, <1>4, <1>5
  <1>7. Len(str) = n
    BY CharFacts, Zenon
  <1>8. \A e \in p + 1 .. n : e \in Nat
    BY <1>4
  <1>9. \A e \in Ends(str, base) : e \in Nat /\ (PlainOK(str, base, e) \/ HexOK(str, base, e))
    BY <1>3, <1>7, <1>8, ReadingsFacts, Zenon DEF Ends
  <1>10. \A e \in Ends(str, base) : e <= g
    BY <1>2, <1>9, PrefixedEnds, PlainEnds, Zenon
  <1>11. \E u : /\ Readings(Part(str, g), base) = {<<b, u>>}
                /\ Numeral(str, f, g, b, u)
    <2>1. CASE Prefixed(str, base)
      <3>1. b = 16 /\ f = st + 2
        <4>1. Detected(str, base) = [base |-> 16, first |-> st + 2]
          BY <1>1, <2>1, DetectFacts, Zenon
        <4> QED
          BY <4>1
      <3>2. HexOK(str, base, g) /\ ~PlainOK(str, base, g) /\ g > st + 2
        <4>1. HexOK(str, base, g) /\ ~PlainOK(str, base, g)
          BY <1>2, <1>6, <2>1, PrefixedEnds, Zenon
        <4> QED
          BY <1>1, <4>1, Zenon DEF HexOK
      <3>3. PICK u : u = HexDigits(str, g)
        OBVIOUS
      <3>4. \A r : r \in Readings(Part(str, g), base) <=> r = <<b, u>>
        <4>1. \A r : r \in Readings(Part(str, g), base) <=>
                      \/ PlainOK(str, base, g) /\ r = PlainReading(str, base, g)
                      \/ HexOK(str, base, g) /\ r = <<16, HexDigits(str, g)>>
          BY <1>3, <1>6, ReadingsFacts, ZenonT(30)
        <4> QED
          BY <3>1, <3>2, <3>3, <4>1, Zenon
      <3>5. Text(str, f, g, u)
        <4>1. g \in Sign(str) + 1 .. n /\ g > AfterSign(str) + 2
          BY <1>1, <1>3, <1>6, <3>2, Zenon
        <4>2. Text(str, AfterSign(str) + 2, g, HexDigits(str, g))
          BY <4>1, HexDigitsFacts, Zenon DEF Text
        <4> QED
          BY <1>1, <3>1, <3>3, <4>2, Zenon
      <3>6. Numeral(str, f, g, b, u)
        BY ONLY <1>5, <1>6, <3>5, DigitsSpell, ZenonT(30)
      <3>7. Readings(Part(str, g), base) = {<<b, u>>}
        BY <3>4, Zenon
      <3> QED
        BY <3>6, <3>7, Zenon
    <2>2. CASE ~Prefixed(str, base)
      <3>1. b = PlainBase(str, base) /\ f = st
        <4>1. Detected(str, base) = [base |-> PlainBase(str, base), first |-> st]
          BY <1>1, <2>2, DetectFacts, Zenon
        <4> QED
          BY <4>1
      <3>2. ~HexOK(str, base, g) /\ PlainOK(str, base, g)
        BY <1>1, <1>2, <1>6, <2>2, <3>1, PlainEnds, Zenon
      <3>3. PICK u : u = Body(str, g)
        OBVIOUS
      <3>4. \A r : r \in Readings(Part(str, g), base) <=> r = <<b, u>>
        <4>1. \A r : r \in Readings(Part(str, g), base) <=>
                      \/ PlainOK(str, base, g) /\ r = PlainReading(str, base, g)
                      \/ HexOK(str, base, g) /\ r = <<16, HexDigits(str, g)>>
          BY <1>3, <1>6, ReadingsFacts, ZenonT(30)
        <4> QED
          BY <3>1, <3>2, <3>3, <4>1, Zenon DEF PlainReading
      <3>5. Text(str, f, g, u)
        <4>1. g \in Sign(str) + 1 .. n
          BY <1>3, <1>6, Zenon
        <4>2. Text(str, AfterSign(str), g, Body(str, g))
          BY <4>1, BodyFacts, Zenon DEF Text
        <4> QED
          BY <1>1, <3>1, <3>3, <4>2, Zenon
      <3>6. Numeral(str, f, g, b, u)
        BY ONLY <1>5, <1>6, <3>5, DigitsSpell, ZenonT(30)
      <3>7. Readings(Part(str, g), base) = {<<b, u>>}
        BY <3>4, Zenon
      <3> QED
        BY <3>6, <3>7, Zenon
    <2> QED
      BY <2>1, <2>2, Zenon
  <1>12. g \in Ends(str, base)
    <2>1. Readings(Part(str, g), base) # {}
      BY <1>11, Zenon
    <2> QED
      BY <1>3, <1>6, <1>7, <2>1, Zenon DEF Ends
  <1> QED
    BY <1>2, <1>3, <1>6, <1>10, <1>11, <1>12, Zenon

-----------------------------------------------------------------------------
(* The results *)

\* What strtoull and strtoll have to make of a numeral.
Wrapped(mag, v) == IF mag > ULLONG_MAX THEN ULLONG_MAX ELSE v % Wrap
Clamped(v) == IF v > LLONG_MAX THEN LLONG_MAX ELSE IF v < LLONG_MIN THEN LLONG_MIN ELSE v

\* The limits are in order.
LEMMA Limits ==
  /\ Wrap \in Nat /\ ULLONG_MAX \in Nat /\ LLONG_MAX \in Nat
  /\ ULLONG_MAX = Wrap - 1 /\ LLONG_MAX < Wrap - 1 + 1 /\ LLONG_MIN = -LLONG_MAX - 1
  /\ LLONG_MAX + 1 < Wrap
  BY StrtoxAssumption DEF ULLONG_MAX, LLONG_MAX, LLONG_MIN

\* Negating an unsigned number is what (Wrap - a) % Wrap says.
LEMMA NegatedRemainder ==
  ASSUME NEW a \in Nat, a <= ULLONG_MAX
  PROVE  (Wrap - a) % Wrap = (-a) % Wrap /\ a % Wrap = a
  <1>1. Wrap \in Nat /\ Wrap > 1 /\ a < Wrap
    BY StrtoxAssumption, Limits
  <1>2. a % Wrap = a
    BY <1>1
  <1>3. CASE a = 0
    <2>1. Wrap - a = Wrap
      BY <1>1, <1>3
    <2>3. -a = 0
      <3>1. PICK z : z = -a
        OBVIOUS
      <3>2. z \in Int /\ a + z = 0
        BY <3>1
      <3>3. z = 0
        BY <1>3, <3>2
      <3> QED
        BY <3>1, <3>3, Zenon
    <2>2. Wrap % Wrap = 0 /\ 0 % Wrap = 0
      BY <1>1
    <2> QED
      BY <1>2, <1>3, <2>1, <2>2, <2>3, Zenon
  <1>4. CASE a > 0
    <2>1. (Wrap - a) % Wrap = Wrap - a
      BY <1>1, <1>4
    <2>2. (-a) % Wrap = Wrap - a
      BY <1>1, <1>4
    <2> QED
      BY <1>2, <2>1, <2>2
  <1> QED
    BY <1>3, <1>4

\* The two functions agree with them for every value strtox_main may have read.
LEMMA Converted ==
  ASSUME NEW mag \in Nat, NEW m,
         mag > ULLONG_MAX => m.overflow /\ m.acc = ULLONG_MAX,
         mag <= ULLONG_MAX => ~m.overflow /\ m.acc = mag
  PROVE  /\ m.negative => strtoull(m) = Wrapped(mag, -mag) /\ strtoll(m) = Clamped(-mag)
         /\ ~m.negative => strtoull(m) = Wrapped(mag, mag) /\ strtoll(m) = Clamped(mag)
  <1>1. CASE mag > ULLONG_MAX
    <2>1. m.overflow
      BY <1>1, Zenon
    <2>2. /\ strtoull(m) = ULLONG_MAX
          /\ Wrapped(mag, -mag) = ULLONG_MAX /\ Wrapped(mag, mag) = ULLONG_MAX
      BY <1>1, <2>1, Zenon DEF strtoull, Wrapped
    <2>3. Clamped(-mag) = LLONG_MIN /\ Clamped(mag) = LLONG_MAX
      BY <1>1, Limits DEF Clamped
    <2>4. (m.negative => strtoll(m) = LLONG_MIN) /\ (~m.negative => strtoll(m) = LLONG_MAX)
      BY <2>1, Zenon DEF strtoll
    <2> QED
      BY <2>2, <2>3, <2>4, Zenon
  <1>2. CASE mag <= ULLONG_MAX
    <2>1. ~m.overflow /\ m.acc = mag
      BY <1>2, Zenon
    <2>2. ~(mag > ULLONG_MAX)
      BY <1>2, Limits
    <2>3. (Wrap - mag) % Wrap = (-mag) % Wrap /\ mag % Wrap = mag
      BY <1>2, NegatedRemainder, Zenon
    <2>4. Wrapped(mag, -mag) = (Wrap - mag) % Wrap /\ Wrapped(mag, mag) = mag
      BY <2>2, <2>3, Zenon DEF Wrapped
    <2> DEFINE low == IF mag > LLONG_MAX + 1 THEN LLONG_MIN ELSE -mag
               high == IF mag > LLONG_MAX THEN LLONG_MAX ELSE mag
    <2>5. Clamped(-mag) = low /\ Clamped(mag) = high
      BY <1>2, Limits DEF Clamped
    <2>6. /\ m.negative => /\ strtoull(m) = (Wrap - mag) % Wrap
                           /\ strtoll(m) = low
          /\ ~m.negative => /\ strtoull(m) = mag
                            /\ strtoll(m) = high
      BY <2>1, Zenon DEF strtoull, strtoll
    <2> HIDE DEF low, high
    <2>7. /\ m.negative => strtoll(m) = Clamped(-mag)
          /\ ~m.negative => strtoll(m) = Clamped(mag)
      BY <2>5, <2>6, Zenon
    <2>8. /\ m.negative => strtoull(m) = Wrapped(mag, -mag)
          /\ ~m.negative => strtoull(m) = Wrapped(mag, mag)
      BY <2>4, <2>6, Zenon
    <2> QED
      BY <2>7, <2>8, Zenon
  <1>3. mag > ULLONG_MAX \/ mag <= ULLONG_MAX
    BY Limits
  <1> QED
    BY <1>1, <1>2, <1>3, Zenon

-----------------------------------------------------------------------------
\* Expected skips the same spaces.
LEMMA FirstFacts ==
  ASSUME NEW n \in Nat, NEW str \in [1 .. n -> Characters]
  PROVE  (CHOOSE i \in 0 .. Len(str) : /\ \A k \in 1 .. i : str[k] = " "
                                       /\ i < Len(str) => str[i + 1] # " ") = Sign(str)
  <1> DEFINE P(i) == /\ \A k \in 1 .. i : str[k] = " "
                     /\ i < Len(str) => str[i + 1] # " "
  <1>1. Len(str) = n /\ \A i \in Nat : i < n => CharAt(str, i) = str[i + 1]
    BY CharFacts, Zenon
  <1>2. PICK p : p = Sign(str)
    OBVIOUS
  <1>3. /\ p \in 0 .. n /\ CharAt(str, p) # " "
        /\ \A k \in 0 .. p - 1 : CharAt(str, k) = " "
    BY <1>2, SignFacts, Zenon
  <1>7. p \in 0 .. n
    BY <1>3, Zenon
  <1>4. P(p)
    <2>1. ASSUME NEW k \in 1 .. p PROVE str[k] = " "
      <3>1. k - 1 \in 0 .. p - 1 /\ k - 1 \in Nat /\ k - 1 < n /\ (k - 1) + 1 = k
        BY <1>7
      <3> QED
        BY <1>1, <1>3, <3>1, Zenon
    <2>2. p < n => str[p + 1] # " "
      <3>1. p \in Nat
        BY <1>7
      <3> QED
        BY <1>1, <1>3, <3>1, Zenon
    <2> QED
      BY <1>1, <2>1, <2>2, Zenon
  <1>5. ASSUME NEW i \in 0 .. n, P(i) PROVE i = p
    <2>1. ~(i < p)
      <3>1. SUFFICES ASSUME i < p PROVE FALSE
        OBVIOUS
      <3>2. i \in 0 .. p - 1 /\ i \in Nat /\ i < n
        BY <1>7, <3>1
      <3>3. str[i + 1] = " "
        BY <1>1, <1>3, <3>2, Zenon
      <3> QED
        BY <1>1, <1>5, <3>2, <3>3, Zenon
    <2>2. ~(p < i)
      <3>1. SUFFICES ASSUME p < i PROVE FALSE
        OBVIOUS
      <3>2. p + 1 \in 1 .. i /\ p \in Nat /\ p < n
        BY <1>7, <3>1
      <3>3. str[p + 1] = " "
        BY <1>5, <3>2, Zenon
      <3> QED
        BY <1>1, <1>3, <3>2, <3>3, Zenon
    <2> QED
      BY <1>7, <2>1, <2>2
  <1>6. (CHOOSE i \in 0 .. n : P(i)) = p
    <2> HIDE DEF P
    <2> QED
      BY <1>3, <1>4, <1>5, Zenon
  <1> QED
    BY <1>1, <1>2, <1>6, Zenon

\* Without a numeral, Expected is 0 and the beginning of the text.
LEMMA ExpectedNone ==
  ASSUME NEW n \in Nat, NEW str \in [1 .. n -> Characters], NEW base \in Int,
         Ends(str, base) = {}
  PROVE  Expected(str, base) = <<0, 0, 0>>
  BY FirstFacts, Zenon DEF Expected, Ends, Part

\* Expected is the value mag of the numeral that ends at g.
Answered(str, base, mag, g) ==
  /\ CharAt(str, Sign(str)) = "-" =>
       Expected(str, base) = <<Wrapped(mag, -mag), Clamped(-mag), g>>
  /\ CharAt(str, Sign(str)) # "-" =>
       Expected(str, base) = <<Wrapped(mag, mag), Clamped(mag), g>>

\* With one, it is that of the longest numeral.
LEMMA ExpectedSome ==
  ASSUME NEW n \in Nat, NEW str \in [1 .. n -> Characters], NEW base \in Int, NEW g, NEW r,
         g \in Ends(str, base), \A e \in Ends(str, base) : e <= g,
         Readings(Part(str, g), base) = {r}, NEW mag, mag = Magnitude(r)
  PROVE  Answered(str, base, mag, g)
  <1>1. Len(str) = n /\ \A i \in Nat : i < n => CharAt(str, i) = str[i + 1]
    BY CharFacts, Zenon
  <1>2. PICK p : p = Sign(str)
    OBVIOUS
  <1>3. p \in 0 .. n
    BY <1>2, SignFacts, Zenon
  <1>4. PICK E : E = Ends(str, base)
    OBVIOUS
  <1>5. E = {e \in p + 1 .. Len(str) : Readings(SubSeq(str, p + 1, e), base) # {}}
    BY <1>2, <1>4, Zenon DEF Ends, Part
  <1>6. g \in E /\ g \in p + 1 .. n /\ \A e \in E : e \in Int
    <2>1. g \in E /\ E \subseteq p + 1 .. n
      BY <1>1, <1>4, <1>5, Zenon
    <2> QED
      BY <1>3, <2>1
  <1>7. str[p + 1] = CharAt(str, p)
    BY <1>1, <1>3, <1>6
  <1>8. (CHOOSE e \in E : \A f \in E : f <= e) = g
    <2>1. \A e \in E : (\A f \in E : f <= e) => e = g
      BY <1>4, <1>6
    <2> QED
      BY <1>4, <1>6, <2>1, Zenon
  <1>9. (CHOOSE x \in Readings(SubSeq(str, p + 1, g), base) : TRUE) = r
    <2>1. Readings(SubSeq(str, p + 1, g), base) = {r}
      BY <1>2, Zenon DEF Part
    <2> QED
      BY <2>1, Zenon
  <1>10. (CHOOSE i \in 0 .. Len(str) : /\ \A k \in 1 .. i : str[k] = " "
                                       /\ i < Len(str) => str[i + 1] # " ") = p
    BY <1>2, FirstFacts, Zenon
  <1> DEFINE v == IF str[p + 1] = "-" THEN -mag ELSE mag
  <1>11. Expected(str, base) =
           <<IF mag > ULLONG_MAX THEN ULLONG_MAX ELSE v % Wrap,
             IF v > LLONG_MAX THEN LLONG_MAX ELSE IF v < LLONG_MIN THEN LLONG_MIN ELSE v, g>>
    <2> DEFINE first == CHOOSE i \in 0 .. Len(str) : /\ \A k \in 1 .. i : str[k] = " "
                                                     /\ i < Len(str) => str[i + 1] # " "
               S(i) == {e \in i + 1 .. Len(str) : Readings(SubSeq(str, i + 1, e), base) # {}}
               last(T) == CHOOSE e \in T : \A f \in T : f <= e
               reading(i, e) == CHOOSE x \in Readings(SubSeq(str, i + 1, e), base) : TRUE
               w(i, x) == IF str[i + 1] = "-" THEN -x ELSE x
               Out(T, x, y, e) ==
                 IF T = {} THEN <<0, 0, 0>>
                 ELSE <<IF x > ULLONG_MAX THEN ULLONG_MAX ELSE y % Wrap,
                        IF y > LLONG_MAX THEN LLONG_MAX
                        ELSE IF y < LLONG_MIN THEN LLONG_MIN ELSE y, e>>
               All(i) == LET x == Magnitude(reading(i, last(S(i))))
                         IN  Out(S(i), x, w(i, x), last(S(i)))
    <2>1. Expected(str, base) = All(first)
      BY Zenon DEF Expected
    <2>2. first = p /\ S(p) = E /\ last(E) = g /\ reading(p, g) = r /\ E # {}
      BY <1>5, <1>6, <1>8, <1>9, <1>10, Zenon
    <2>3. v = w(p, mag)
      OBVIOUS
    <2>4. Out(E, mag, v, g) =
           <<IF mag > ULLONG_MAX THEN ULLONG_MAX ELSE v % Wrap,
             IF v > LLONG_MAX THEN LLONG_MAX ELSE IF v < LLONG_MIN THEN LLONG_MIN ELSE v, g>>
      <3> HIDE DEF v
      <3> QED
        BY <2>2, Zenon
    <2> HIDE DEF first, S, last, reading, w, Out, v
    <2>5. All(p) = Out(E, mag, v, g)
      BY <2>2, <2>3, Zenon
    <2> HIDE DEF All
    <2> QED
      BY <2>1, <2>2, <2>4, <2>5, Zenon
  <1>12. Expected(str, base) = <<Wrapped(mag, v), Clamped(v), g>>
    BY <1>11, Zenon DEF Wrapped, Clamped
  <1>13. CharAt(str, p) = "-" => v = -mag
    BY <1>7, Zenon
  <1>14. CharAt(str, p) # "-" => v = mag
    BY <1>7, Zenon
  <1> HIDE DEF v
  <1> QED
    BY <1>2, <1>12, <1>13, <1>14, Zenon DEF Answered

-----------------------------------------------------------------------------
\* What strtox_main returns, in terms of the base and the digits it has found.
Main(acc, overflow, negative, end) ==
  [acc |-> acc, overflow |-> overflow, negative |-> negative, end |-> end]

\* The results of the two functions are the expected ones.
LEMMA ReturnExact ==
  ASSUME NEW n \in Nat, NEW str \in [1 .. n -> Characters], NEW base \in Int,
         NEW m, m = strtox_main(str, base)
  PROVE  <<strtoull(m), strtoll(m), m.end>> = Expected(str, base)
  <1>1. PICK b, f, g : /\ b = Detected(str, base).base /\ f = Detected(str, base).first
                       /\ g = AfterDigits(str, base)
    OBVIOUS
  <1>2. PICK r : r = AddDigits(str, b, f, g)
    OBVIOUS
  <1>3. PICK neg : neg = (CharAt(str, Sign(str)) = "-")
    OBVIOUS
  <1>4. m = IF b < 2 \/ b > 36 THEN Main(0, FALSE, neg, 0)
            ELSE Main(IF r.any < 0 THEN ULLONG_MAX ELSE r.acc, r.any < 0, neg,
                      IF r.any = 0 THEN 0 ELSE g)
    BY <1>1, <1>2, <1>3, Zenon
      DEF strtox_main, Main, Detected, AfterDigits, DigitsOf, Sign, AfterSign, Signed
  <1>5. b \in Int /\ f \in Nat /\ g \in f .. n /\ AllDigits(str, f, g, b)
    BY <1>1, EndFacts, Zenon
  <1>6. ASSUME NEW mag \in Nat, mag > ULLONG_MAX => m.overflow /\ m.acc = ULLONG_MAX,
               mag <= ULLONG_MAX => ~m.overflow /\ m.acc = mag, m.negative = neg
        PROVE  /\ CharAt(str, Sign(str)) = "-" =>
                    strtoull(m) = Wrapped(mag, -mag) /\ strtoll(m) = Clamped(-mag)
               /\ CharAt(str, Sign(str)) # "-" =>
                    strtoull(m) = Wrapped(mag, mag) /\ strtoll(m) = Clamped(mag)
    <2>1. /\ m.negative => strtoull(m) = Wrapped(mag, -mag) /\ strtoll(m) = Clamped(-mag)
          /\ ~m.negative => strtoull(m) = Wrapped(mag, mag) /\ strtoll(m) = Clamped(mag)
      BY <1>6, Converted, Zenon
    <2> QED
      BY <1>3, <1>6, <2>1, Zenon
  \* Nothing has been read.
  <1>7. ASSUME m.acc = 0, ~m.overflow, m.negative = neg, m.end = 0, Ends(str, base) = {}
        PROVE  <<strtoull(m), strtoll(m), m.end>> = Expected(str, base)
    <2>1. Wrapped(0, -0) = 0 /\ Clamped(-0) = 0 /\ Wrapped(0, 0) = 0 /\ Clamped(0) = 0
      <3>1. -0 = 0
        <4>1. PICK z : z = -0
          OBVIOUS
        <4>2. z \in Int /\ 0 + z = 0
          BY <4>1
        <4>3. z = 0
          BY <4>2
        <4> QED
          BY <4>1, <4>3, Zenon
      <3>2. Wrapped(0, 0) = 0 /\ Clamped(0) = 0
        BY Limits, NegatedRemainder DEF Wrapped, Clamped
      <3> QED
        BY <3>1, <3>2, Zenon
    <2>2. ~(0 > ULLONG_MAX) /\ 0 \in Nat
      BY Limits
    <2>3. strtoull(m) = 0 /\ strtoll(m) = 0
      BY <1>6, <1>7, <2>1, <2>2, Zenon
    <2>4. Expected(str, base) = <<0, 0, 0>>
      BY <1>7, ExpectedNone, Zenon
    <2> QED
      BY <1>7, <2>3, <2>4, Zenon
  <1>8. CASE b < 2 \/ b > 36
    <2>1. m = Main(0, FALSE, neg, 0)
      BY <1>4, <1>8, Zenon
    <2>2. m.acc = 0 /\ ~m.overflow /\ m.negative = neg /\ m.end = 0
      <3>1. PICK z, o : z = 0 /\ o = FALSE
        OBVIOUS
      <3>2. m = Main(z, o, neg, z)
        BY <2>1, <3>1, Zenon
      <3>3. m.acc = z /\ m.overflow = o /\ m.negative = neg /\ m.end = z
        BY ONLY <3>2 DEF Main
      <3> QED
        BY <3>1, <3>3, Zenon
    <2>3. ~(b \in 2 .. 36)
      BY <1>5, <1>8
    <2>4. Ends(str, base) = {}
      BY <1>1, <2>3, EndsEmpty, Zenon
    <2> QED
      BY <1>7, <2>2, <2>4, Zenon
  <1>9. ASSUME ~(b < 2 \/ b > 36)
        PROVE  <<strtoull(m), strtoll(m), m.end>> = Expected(str, base)
    <2>1. b \in 2 .. 36 /\ b \in Nat
      BY <1>5, <1>9
    <2>2. m = Main(IF r.any < 0 THEN ULLONG_MAX ELSE r.acc, r.any < 0, neg,
                   IF r.any = 0 THEN 0 ELSE g)
      BY <1>4, <1>9, Zenon
    <2>3. /\ m.acc = IF r.any < 0 THEN ULLONG_MAX ELSE r.acc
          /\ m.overflow = (r.any < 0) /\ m.negative = neg
          /\ m.end = IF r.any = 0 THEN 0 ELSE g
      <3>1. PICK a, o, e : /\ a = IF r.any < 0 THEN ULLONG_MAX ELSE r.acc
                           /\ o = (r.any < 0) /\ e = IF r.any = 0 THEN 0 ELSE g
        BY Zenon
      <3>2. m = Main(a, o, neg, e)
        BY <2>2, <3>1, Zenon
      <3>3. m.acc = a /\ m.overflow = o /\ m.negative = neg /\ m.end = e
        BY ONLY <3>2 DEF Main
      <3> QED
        BY <3>1, <3>3, Zenon
    <2>4. CASE ~(f < g)
      <3>1. g = f
        BY <1>5, <2>4
      <3>2. PICK e : e = <<>>
        OBVIOUS
      <3>3. Spells(str, f, b, e) /\ f + Len(e) = g /\ e \in Seq(Digit) /\ Len(e) = 0
        BY <1>5, <3>1, <3>2 DEF Spells
      <3>4. PICK h : Horner(h, b, e)
        BY <2>1, <3>3, HornerExists, Zenon
      <3>5. h[0] = 0
        BY <3>4, Zenon DEF Horner
      <3>6. r = AddDigits(str, b, f, f + Len(e))
        BY <1>2, <3>3, Zenon
      <3>7. 0 <= ULLONG_MAX
        BY Limits
      <3>8. r = [acc |-> 0, any |-> 0]
        <4>1. Computed(r, h[Len(e)], Len(e))
          BY ONLY <1>5, <2>1, <3>3, <3>4, <3>6, AddDigitsExact, ZenonT(30)
        <4> QED
          BY <3>3, <3>5, <3>7, <4>1, Zenon DEF Computed
      <3>9. r.acc = 0 /\ r.any = 0 /\ ~(r.any < 0)
        BY <3>8
      <3>10. m.acc = 0 /\ ~m.overflow /\ m.end = 0
        BY <2>3, <3>9, Zenon
      <3>11. Ends(str, base) = {}
        BY <1>1, <2>4, EndsEmpty, Zenon
      <3> QED
        BY <1>7, <2>3, <3>10, <3>11, Zenon
    <2>5. CASE f < g
      <3>1. /\ g \in Ends(str, base) /\ \A e \in Ends(str, base) : e <= g
            /\ \E u : Readings(Part(str, g), base) = {<<b, u>>} /\ Numeral(str, f, g, b, u)
        BY <1>1, <2>1, <2>5, EndsFacts, Zenon
      <3>2. PICK u : Readings(Part(str, g), base) = {<<b, u>>} /\ Numeral(str, f, g, b, u)
        BY <3>1, Zenon
      <3>3. Spells(str, f, b, u) /\ f + Len(u) = g /\ u \in Seq(Digit)
        BY <3>2, Zenon DEF Numeral, Spells
      <3>4. PICK h : Horner(h, b, u)
        BY <2>1, <3>3, HornerExists, Zenon
      <3>5. PICK mag : mag = h[Len(u)]
        OBVIOUS
      <3>6. Magnitude(<<b, u>>) = mag
        BY <2>1, <3>3, <3>4, <3>5, MagnitudeIsHorner, Zenon
      <3>7. r = AddDigits(str, b, f, f + Len(u))
        BY <1>2, <3>3, Zenon
      <3>8. Computed(r, h[Len(u)], Len(u))
        BY ONLY <1>5, <2>1, <3>3, <3>4, <3>7, AddDigitsExact, ZenonT(30)
      <3>9. Len(u) # 0
        BY <1>5, <2>5, <3>3
      <3>10. /\ mag <= ULLONG_MAX => r = [acc |-> mag, any |-> 1]
             /\ mag > ULLONG_MAX => r.any = -1
             /\ mag \in Nat
        BY <3>5, <3>8, <3>9, Zenon DEF Computed
      <3>11. mag > ULLONG_MAX => m.overflow /\ m.acc = ULLONG_MAX /\ m.end = g
        <4>1. -1 < 0 /\ -1 # 0
          OBVIOUS
        <4> QED
          BY <2>3, <3>10, <4>1, Zenon
      <3>12. mag <= ULLONG_MAX => ~m.overflow /\ m.acc = mag /\ m.end = g
        <4>1. mag <= ULLONG_MAX => r.acc = mag /\ r.any = 1
          BY <3>10
        <4>2. ~(1 < 0) /\ 1 # 0
          OBVIOUS
        <4> QED
          BY <2>3, <4>1, <4>2, Zenon
      <3>13. m.end = g
        <4>1. mag > ULLONG_MAX \/ mag <= ULLONG_MAX
          BY <3>10, Limits
        <4> QED
          BY <3>11, <3>12, <4>1, Zenon
      <3>14. Answered(str, base, mag, g)
        <4>1. PICK x : x = <<b, u>>
          OBVIOUS
        <4>2. Readings(Part(str, g), base) = {x} /\ mag = Magnitude(x)
          BY <3>2, <3>6, <4>1, Zenon
        <4> QED
          BY <3>1, <4>2, ExpectedSome, ZenonT(30)
      <3>15. /\ CharAt(str, Sign(str)) = "-" =>
                  strtoull(m) = Wrapped(mag, -mag) /\ strtoll(m) = Clamped(-mag)
             /\ CharAt(str, Sign(str)) # "-" =>
                  strtoull(m) = Wrapped(mag, mag) /\ strtoll(m) = Clamped(mag)
        BY <1>6, <2>3, <3>10, <3>11, <3>12, Zenon
      <3> QED
        BY <3>13, <3>14, <3>15, Zenon DEF Answered
    <2> QED
      BY <2>4, <2>5, Zenon
  <1> QED
    BY <1>8, <1>9, Zenon

\* Whatever the string, the base and the width of unsigned long long, strtoull and strtoll
\* return the value of the longest numeral, wrapped or clamped, and the place behind it.
THEOREM NumberExactHolds == StrtoxSpec => []NumberExact
  <1>1. StrtoxInit => NumberExact
    BY DEF StrtoxInit, NumberExact
  <1>2. NumberExact /\ [StrtoxNext]_sx_vars => NumberExact'
    <2>1. SUFFICES ASSUME NumberExact, [StrtoxNext]_sx_vars PROVE NumberExact'
      OBVIOUS
    <2>2. CASE UNCHANGED sx_vars
      BY <2>1, <2>2, Zenon DEF sx_vars, NumberExact
    <2>3. CASE Return
      BY <2>3, Zenon DEF Return, NumberExact
    <2>4. ASSUME NEW n \in 0 .. MaxLength, NEW str \in [1 .. n -> Characters],
                 NEW base \in Bases, Call(str, base)
          PROVE  NumberExact'
      <3>1. n \in Nat /\ base \in Int
        BY StrtoxAssumption
      <3>2. PICK m : /\ m = strtox_main(str, base) /\ sx_call' = <<str, base>>
                     /\ sx_ret' = <<strtoull(m), strtoll(m), m.end>>
        BY <2>4, Zenon DEF Call
      <3>3. sx_ret' = Expected(str, base)
        BY <3>1, <3>2, ReturnExact, Zenon
      <3>4. sx_call'[1] = str /\ sx_call'[2] = base
        BY <3>2
      <3> QED
        BY <3>3, <3>4, Zenon DEF NumberExact
    <2> QED
      BY <2>1, <2>2, <2>3, <2>4, Zenon DEF StrtoxNext
  <1> QED
    BY <1>1, <1>2, PTL DEF StrtoxSpec
=============================================================================
