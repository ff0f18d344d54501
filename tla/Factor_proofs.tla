----------------------------- MODULE Factor_proofs -----------------------------
(***************************************************************************)
(* Theorems about the factorization, for any numbers, limits and random    *)
(* numbers.                                                                *)
(***************************************************************************)
EXTENDS Factor, SequenceTheorems, WellFoundedInduction, TLAPS

-----------------------------------------------------------------------------
(* Recursion.                                                              *)

\* Some function gives out[s] where the loop stops, and elsewhere what it gives after
\* the next step.
Stays(S, Stop, step) == \A s \in S : s \notin Stop => step[s] \in S
HasResult(S, Stop, out, step) ==
    \E T : \E f \in [S -> T] :
        \A s \in S : f[s] = IF s \in Stop THEN out[s] ELSE f[step[s]]

\* A loop has a result, as a function of where it begins: what is given at the
\* end of the path from there, if the path has an end.
LEMMA LoopHasResult ==
  ASSUME NEW S, NEW Stop, NEW out, NEW step, Stays(S, Stop, step)
  PROVE  HasResult(S, Stop, out, step)
<1> DEFINE Path(k, w) ==
             /\ \A i \in 0..(k - 1) : w[i] \notin Stop /\ w[i + 1] = step[w[i]]
             /\ w[k] \in Stop
           Ends(s) == {e \in S : \E k \in Nat : \E w \in [0..k -> S] :
                                    Path(k, w) /\ w[0] = s /\ w[k] = e}
           f == [s \in S |-> out[CHOOSE e : e \in Ends(s)]]
<1>1. ASSUME NEW s \in S, s \in Stop PROVE Ends(s) = {s}
  <2>1. s \in Ends(s)
    <3> DEFINE w == [i \in 0..0 |-> s]
    <3>1. w \in [0..0 -> S] /\ Path(0, w) /\ w[0] = s
      BY <1>1
    <3> QED
      BY <3>1
  <2>2. ASSUME NEW e \in Ends(s) PROVE e = s
    <3>1. PICK k \in Nat : \E w \in [0..k -> S] : Path(k, w) /\ w[0] = s /\ w[k] = e
      OBVIOUS
    <3>2. PICK w \in [0..k -> S] : Path(k, w) /\ w[0] = s /\ w[k] = e
      BY <3>1
    <3>3. k = 0
      <4>1. SUFFICES ASSUME k # 0 PROVE FALSE
        OBVIOUS
      <4>2. 0 \in 0..(k - 1)
        BY <4>1
      <4> QED
        BY <4>2, <3>2, <1>1
    <3> QED
      BY <3>2, <3>3
  <2> QED
    BY <2>1, <2>2
<1>2. ASSUME NEW s \in S, s \notin Stop PROVE Ends(s) = Ends(step[s])
  <2>0. step[s] \in S
    BY <1>2 DEF Stays
  <2>1. ASSUME NEW e \in Ends(s) PROVE e \in Ends(step[s])
    <3>1. PICK k \in Nat : \E w \in [0..k -> S] : Path(k, w) /\ w[0] = s /\ w[k] = e
      OBVIOUS
    <3>2. PICK w \in [0..k -> S] : Path(k, w) /\ w[0] = s /\ w[k] = e
      BY <3>1
    <3>3. k # 0
      BY <3>2, <1>2
    <3> DEFINE v == [i \in 0..(k - 1) |-> w[i + 1]]
    <3>4. k - 1 \in Nat /\ v \in [0..(k - 1) -> S]
      BY <3>3
    <3>5. v[0] = step[s]
      <4>1. 0 \in 0..(k - 1)
        BY <3>3
      <4>2. w[0 + 1] = step[w[0]]
        BY <4>1, <3>2
      <4> QED
        BY <4>1, <4>2, <3>2
    <3>6. v[k - 1] = e /\ v[k - 1] \in Stop
      <4>1. k - 1 \in 0..(k - 1) /\ (k - 1) + 1 = k
        BY <3>3
      <4> QED
        BY <4>1, <3>2
    <3>7. ASSUME NEW i \in 0..(k - 1 - 1) PROVE v[i] \notin Stop /\ v[i + 1] = step[v[i]]
      <4>1. i \in 0..(k - 1) /\ i + 1 \in 0..(k - 1)
        OBVIOUS
      <4>2. w[i + 1] \notin Stop /\ w[(i + 1) + 1] = step[w[i + 1]]
        BY <4>1, <3>2
      <4> QED
        BY <4>1, <4>2
    <3>8. Path(k - 1, v)
      BY <3>6, <3>7
    <3> HIDE DEF v, Path
    <3>9. \E j \in Nat : \E u \in [0..j -> S] : Path(j, u) /\ u[0] = step[s] /\ u[j] = e
      BY <3>4, <3>5, <3>6, <3>8
    <3> QED
      BY <3>9
  <2>2. ASSUME NEW e \in Ends(step[s]) PROVE e \in Ends(s)
    <3>1. PICK k \in Nat :
             \E w \in [0..k -> S] : Path(k, w) /\ w[0] = step[s] /\ w[k] = e
      OBVIOUS
    <3>2. PICK w \in [0..k -> S] : Path(k, w) /\ w[0] = step[s] /\ w[k] = e
      BY <3>1
    <3> DEFINE v == [i \in 0..(k + 1) |-> IF i = 0 THEN s ELSE w[i - 1]]
    <3>3. v \in [0..(k + 1) -> S]
      OBVIOUS
    <3>4. v[0] = s /\ v[k + 1] = e /\ v[k + 1] \in Stop
      <4>1. 0 \in 0..(k + 1) /\ k + 1 \in 0..(k + 1) /\ k + 1 # 0 /\ (k + 1) - 1 = k
        OBVIOUS
      <4> QED
        BY <4>1, <3>2
    <3>5. ASSUME NEW i \in 0..((k + 1) - 1) PROVE v[i] \notin Stop /\ v[i + 1] = step[v[i]]
      <4>0. i \in 0..(k + 1) /\ i + 1 \in 0..(k + 1) /\ i + 1 # 0 /\ (i + 1) - 1 = i
        OBVIOUS
      <4>1. CASE i = 0
        BY <4>0, <4>1, <3>2, <1>2
      <4>2. CASE i # 0
        <5>1. i - 1 \in 0..(k - 1) /\ (i - 1) + 1 = i
          BY <4>2
        <5>2. w[i - 1] \notin Stop /\ w[(i - 1) + 1] = step[w[i - 1]]
          BY <5>1, <3>2
        <5> QED
          BY <5>1, <5>2, <4>0, <4>2
      <4> QED
        BY <4>1, <4>2
    <3>6. Path(k + 1, v)
      BY <3>4, <3>5
    <3>7. k + 1 \in Nat
      OBVIOUS
    <3> HIDE DEF v, Path
    <3>8. \E j \in Nat : \E u \in [0..j -> S] : Path(j, u) /\ u[0] = s /\ u[j] = e
      BY <3>3, <3>4, <3>6, <3>7
    <3> QED
      BY <3>8
  <2> QED
    BY <2>1, <2>2
<1>3. ASSUME NEW s \in S PROVE f[s] = IF s \in Stop THEN out[s] ELSE f[step[s]]
  <2>1. CASE s \in Stop
    <3>1. (CHOOSE e : e \in {s}) = s
      OBVIOUS
    <3> HIDE DEF Ends
    <3> QED
      BY <1>1, <2>1, <3>1
  <2>2. CASE s \notin Stop
    <3>1. Ends(s) = Ends(step[s]) /\ step[s] \in S
      BY <1>2, <2>2 DEF Stays
    <3> HIDE DEF Ends
    <3> QED
      BY <3>1, <2>2
  <2> QED
    BY <2>1, <2>2
<1>4. f \in [S -> {f[s] : s \in S}]
  OBVIOUS
<1> HIDE DEF f
<1> QED
  BY <1>3, <1>4 DEF HasResult

\* A number that is not the least of its kind: induction on naturals.
LEMMA Induction ==
  ASSUME NEW P, P \subseteq Nat, 0 \in P, \A n \in Nat : (\A m \in Nat : m < n => m \in P) => n \in P
  PROVE  P = Nat
<1> DEFINE R == OpToRel(<, Nat)
           Rest0 == Nat \ P
<1>1. IsWellFoundedOn(R, Nat)
  BY NatLessThanWellFounded
<1>2. SUFFICES ASSUME Rest0 # {} PROVE FALSE
  OBVIOUS
<1>3. PICK x \in Rest0 : \A y \in Rest0 : ~(<<y, x>> \in R)
  <2>1. Rest0 \subseteq Nat
    OBVIOUS
  <2> HIDE DEF R, Rest0
  <2> QED
    BY <1>1, <1>2, <2>1, WFMin
<1>4. \A y \in Nat : y < x => y \in P
  BY <1>3 DEF OpToRel
<1> QED
  BY <1>4

-----------------------------------------------------------------------------
(* Remainders and divisors.                                                *)

Divides(d, n) == \E q \in Int : n = q * d

LEMMA RemIsLess ==
  ASSUME NEW a \in Int, NEW b \in Int, a # 0
  PROVE  /\ Rem(b, a) \in Int
         /\ AbsOf(Rem(b, a)) < AbsOf(a)
         /\ b >= 0 => Rem(b, a) >= 0
         /\ \E q \in Int : b = q * a + Rem(b, a)
<1> DEFINE x == AbsOf(b)
           y == AbsOf(a)
           q == x \div y
           r == x % y
<1>1. x \in Nat /\ y \in Nat /\ y > 0
  BY DEF AbsOf
<1>2. q \in Nat /\ r \in 0..(y - 1) /\ x = q * y + r
  <2> HIDE DEF x, y
  <2> QED
    BY <1>1
<1>3. Rem(b, a) = IF b < 0 THEN -r ELSE r
  BY DEF Rem, AbsOf
<1>4. AbsOf(Rem(b, a)) = r
  <2> HIDE DEF q, r, x, y
  <2> QED
    BY <1>2, <1>3 DEF AbsOf
<1>5. PICK p \in {q, -q} : b = p * a + Rem(b, a)
  <2>1. b = (IF b < 0 THEN -x ELSE x) /\ a = (IF a < 0 THEN -y ELSE y)
    BY DEF AbsOf
  <2> HIDE DEF q, r, x, y
  <2>2. (-q) * (-y) = q * y /\ (-q) * y = -(q * y) /\ q * (-y) = -(q * y)
    BY <1>1, <1>2
  <2>3. q * y \in Int
    BY <1>1, <1>2
  <2> QED
    BY <1>1, <1>2, <1>3, <2>1, <2>2, <2>3
<1>6. p \in Int
  <2> HIDE DEF q
  <2> QED
    BY <1>2
<1>7. \E k \in Int : b = k * a + Rem(b, a)
  BY <1>5, <1>6
<1>8. r \in Int /\ r >= 0 /\ r < y
  <2> HIDE DEF q, x, y, r
  <2> QED
    BY <1>1, <1>2
<1>9. Rem(b, a) \in Int /\ (b >= 0 => Rem(b, a) >= 0)
  <2> HIDE DEF r
  <2> QED
    BY <1>3, <1>8
<1> QED
  BY <1>4, <1>7, <1>8, <1>9

LEMMA DividesSum ==
  ASSUME NEW d \in Int, NEW n \in Int, NEW r \in Int, NEW q \in Int, Divides(d, n), Divides(d, r)
  PROVE  Divides(d, q * n + r)
<1>1. PICK u \in Int : n = u * d
  BY DEF Divides
<1>2. PICK v \in Int : r = v * d
  BY DEF Divides
<1>3. q * (u * d) = (q * u) * d /\ (q * u) \in Int
  OBVIOUS
<1>4. (q * u) * d + v * d = (q * u + v) * d
  OBVIOUS
<1>5. q * n + r = (q * u + v) * d
  BY <1>1, <1>2, <1>3, <1>4
<1>6. q * u + v \in Int
  BY <1>3
<1> QED
  BY <1>5, <1>6 DEF Divides

LEMMA GcdTurn ==
  ASSUME NEW a \in Int, NEW b \in Int
  PROVE  Gcd(a, b) = IF a = 0 THEN b ELSE Gcd(Rem(b, a), a)
<1> DEFINE S == Int \X Int
           Stop == {s \in S : s[1] = 0}
           out == [s \in S |-> s[2]]
           step == [s \in S |-> <<Rem(s[2], s[1]), s[1]>>]
           Is(f) == f = [s \in S |-> IF s[1] = 0 THEN s[2] ELSE f[<<Rem(s[2], s[1]), s[1]>>]]
<1>1. Stays(S, Stop, step)
  BY RemIsLess DEF Stays
<1>2. HasResult(S, Stop, out, step)
  <2> HIDE DEF S, Stop, out, step
  <2> QED
    BY <1>1, LoopHasResult
<1>3. \E f : Is(f)
  <2>0. PICK T : \E f \in [S -> T] :
                    \A s \in S : f[s] = IF s \in Stop THEN out[s] ELSE f[step[s]]
    <3> HIDE DEF S, Stop, out, step
    <3> QED
      BY <1>2 DEF HasResult
  <2>1. PICK f \in [S -> T] : \A s \in S : f[s] = IF s \in Stop THEN out[s] ELSE f[step[s]]
    BY <2>0
  <2>2. \A s \in S : f[s] = IF s[1] = 0 THEN s[2] ELSE f[<<Rem(s[2], s[1]), s[1]>>]
    BY <2>1
  <2>3. Is(f)
    BY <2>1, <2>2
  <2> QED
    BY <2>3
<1>4. Is(gcd)
  <2>1. gcd = CHOOSE g : Is(g)
    BY DEF gcd
  <2> HIDE DEF Is
  <2> QED
    BY <1>3, <2>1
<1>5. \A s \in S : gcd[s] = IF s[1] = 0 THEN s[2] ELSE gcd[<<Rem(s[2], s[1]), s[1]>>]
  <2> DEFINE h == gcd
  <2> HIDE DEF h
  <2>1. h = [s \in S |-> IF s[1] = 0 THEN s[2] ELSE h[<<Rem(s[2], s[1]), s[1]>>]]
    BY <1>4 DEF h
  <2>2. \A s \in S : h[s] = IF s[1] = 0 THEN s[2] ELSE h[<<Rem(s[2], s[1]), s[1]>>]
    BY <2>1
  <2> QED
    BY <2>2 DEF h
<1> QED
  BY <1>5 DEF Gcd

GoodGcd(a, b) ==
    /\ Gcd(a, b) \in Int
    /\ Divides(Gcd(a, b), a) /\ Divides(Gcd(a, b), b)
    /\ a >= 0 /\ b >= 0 => Gcd(a, b) >= 0

\* The gcd is a common divisor, and not negative unless an argument is.
LEMMA GcdDivides == ASSUME NEW a \in Int, NEW b \in Int PROVE GoodGcd(a, b)
<1> DEFINE P == {n \in Nat : \A x, y \in Int : AbsOf(x) = n => GoodGcd(x, y)}
<1>1. ASSUME NEW n \in Nat, \A l \in Nat : l < n => l \in P,
             NEW x \in Int, NEW y \in Int, AbsOf(x) = n
      PROVE  GoodGcd(x, y)
  <2>1. CASE x = 0
    <3>1. Gcd(x, y) = y
      BY <2>1, GcdTurn
    <3>2. Divides(y, 0) /\ Divides(y, y)
      <4>1. 0 = 0 * y /\ y = 1 * y /\ 0 \in Int /\ 1 \in Int
        OBVIOUS
      <4>2. Divides(y, 0)
        BY <4>1 DEF Divides
      <4>3. Divides(y, y)
        BY <4>1 DEF Divides
      <4> QED
        BY <4>2, <4>3
    <3> QED
      BY <2>1, <3>1, <3>2 DEF GoodGcd
  <2>2. CASE x # 0
    <3> DEFINE r == Rem(y, x)
    <3>1. /\ r \in Int /\ AbsOf(r) < n /\ AbsOf(r) \in Nat
          /\ y >= 0 => r >= 0
          /\ \E q \in Int : y = q * x + r
      <4>1. r \in Int /\ AbsOf(r) < AbsOf(x) /\ (y >= 0 => r >= 0)
            /\ \E q \in Int : y = q * x + r
        BY <2>2, RemIsLess
      <4> HIDE DEF r
      <4>2. AbsOf(r) \in Nat
        BY <4>1 DEF AbsOf
      <4> QED
        BY <4>1, <4>2, <1>1
    <3> HIDE DEF r
    <3>2. Gcd(x, y) = Gcd(r, x)
      BY <2>2, GcdTurn DEF r
    <3>3. GoodGcd(r, x)
      BY <3>1, <1>1
    <3>4. PICK q \in Int : y = q * x + r
      BY <3>1
    <3>5. Divides(Gcd(r, x), q * x + r)
      BY <3>1, <3>3, DividesSum DEF GoodGcd
    <3> QED
      BY <3>1, <3>2, <3>3, <3>4, <3>5 DEF GoodGcd
  <2> QED
    BY <2>1, <2>2
<1>2. \A n \in Nat : (\A l \in Nat : l < n => l \in P) => n \in P
  BY <1>1
<1>3. 0 \in P
  BY <1>2
<1>4. P = Nat
  <2> HIDE DEF P
  <2>1. P \subseteq Nat
    BY DEF P
  <2> QED
    BY <1>2, <1>3, <2>1, Induction
<1>5. AbsOf(a) \in P
  BY <1>4 DEF AbsOf
<1> QED
  BY <1>5

-----------------------------------------------------------------------------
(* Powers.                                                                 *)

LEMMA MulModIsInt ==
  ASSUME NEW a \in Int, NEW b \in Int, NEW n \in Nat \ {0}
  PROVE  MulMod(a, b, n) \in Int
<1>1. AbsOf(a) \in Int /\ AbsOf(b) \in Int
  BY DEF AbsOf
<1>2. AbsOf(a) * AbsOf(b) \in Int
  BY <1>1
<1>3. (AbsOf(a) * AbsOf(b)) % n \in Int
  BY <1>2
<1> QED
  BY <1>3 DEF MulMod

PowStates == [res : Int, a : Int, k : Nat, n : Nat \ {0}]
PowNext(s) ==
    IF Even(s.k) THEN [s EXCEPT !.a = MulMod(s.a, s.a, s.n), !.k = s.k \div 2]
                 ELSE [s EXCEPT !.res = MulMod(s.res, s.a, s.n), !.k = s.k - 1]

LEMMA PowNextIsLess ==
  ASSUME NEW s \in PowStates, s.k # 0
  PROVE  PowNext(s) \in PowStates /\ PowNext(s).k < s.k
<1>1. MulMod(s.a, s.a, s.n) \in Int /\ MulMod(s.res, s.a, s.n) \in Int
  BY MulModIsInt DEF PowStates
<1>2. s.k \in Nat /\ s.k \div 2 \in Nat /\ s.k \div 2 < s.k /\ s.k - 1 \in Nat
  BY DEF PowStates
<1>3. CASE Even(s.k)
  <2> DEFINE a == MulMod(s.a, s.a, s.n)
             k == s.k \div 2
  <2>1. PowNext(s) = [s EXCEPT !.a = a, !.k = k]
    BY <1>3 DEF PowNext
  <2>2. a \in Int /\ k \in Nat /\ k < s.k
    BY <1>1, <1>2
  <2> HIDE DEF a, k
  <2> QED
    BY <2>1, <2>2 DEF PowStates
<1>4. CASE ~Even(s.k)
  <2> DEFINE res == MulMod(s.res, s.a, s.n)
             k == s.k - 1
  <2>1. PowNext(s) = [s EXCEPT !.res = res, !.k = k]
    BY <1>4 DEF PowNext
  <2>2. res \in Int /\ k \in Nat /\ k < s.k
    BY <1>1, <1>2
  <2> HIDE DEF res, k
  <2> QED
    BY <2>1, <2>2 DEF PowStates
<1> QED
  BY <1>3, <1>4

LEMMA PowModTurn ==
  ASSUME NEW s \in PowStates
  PROVE  powmod[s] = IF s.k = 0 THEN s.res ELSE powmod[PowNext(s)]
<1> DEFINE S == PowStates
           Stop == {x \in S : x.k = 0}
           out == [x \in S |-> x.res]
           step == [x \in S |-> PowNext(x)]
           Is(f) == f = [x \in S |-> IF x.k = 0 THEN x.res ELSE f[PowNext(x)]]
<1>1. Stays(S, Stop, step)
  BY PowNextIsLess DEF Stays
<1>2. HasResult(S, Stop, out, step)
  <2> HIDE DEF S, Stop, out, step
  <2> QED
    BY <1>1, LoopHasResult
<1>3. \E f : Is(f)
  <2>0. PICK T : \E f \in [S -> T] :
                    \A x \in S : f[x] = IF x \in Stop THEN out[x] ELSE f[step[x]]
    <3> HIDE DEF S, Stop, out, step
    <3> QED
      BY <1>2 DEF HasResult
  <2>1. PICK f \in [S -> T] : \A x \in S : f[x] = IF x \in Stop THEN out[x] ELSE f[step[x]]
    BY <2>0
  <2>2. \A x \in S : f[x] = IF x.k = 0 THEN x.res ELSE f[PowNext(x)]
    BY <2>1
  <2> HIDE DEF S
  <2>3. Is(f)
    BY <2>1, <2>2
  <2> QED
    BY <2>3
<1>4. Is(powmod)
  <2>1. powmod = CHOOSE g : Is(g)
    BY DEF powmod, PowStates, PowNext
  <2> HIDE DEF Is
  <2> QED
    BY <1>3, <2>1
<1> DEFINE h == powmod
<1> HIDE DEF h
<1>5. h = [x \in S |-> IF x.k = 0 THEN x.res ELSE h[PowNext(x)]]
  BY <1>4 DEF h
<1>6. h[s] = IF s.k = 0 THEN s.res ELSE h[PowNext(s)]
  BY <1>5
<1> QED
  BY <1>6 DEF h

LEMMA PowIsInt == ASSUME NEW s \in PowStates PROVE powmod[s] \in Int
<1> DEFINE P == {k \in Nat : \A x \in PowStates : x.k = k => powmod[x] \in Int}
<1>1. ASSUME NEW k \in Nat, \A l \in Nat : l < k => l \in P, NEW x \in PowStates, x.k = k
      PROVE  powmod[x] \in Int
  <2>1. CASE k = 0
    BY <1>1, <2>1, PowModTurn DEF PowStates
  <2>2. CASE k # 0
    <3>1. PowNext(x) \in PowStates /\ PowNext(x).k < k /\ PowNext(x).k \in Nat
      BY <1>1, <2>2, PowNextIsLess DEF PowStates
    <3>2. powmod[PowNext(x)] \in Int
      BY <3>1, <1>1
    <3> QED
      BY <1>1, <2>2, <3>2, PowModTurn
  <2> QED
    BY <2>1, <2>2
<1>2. \A k \in Nat : (\A l \in Nat : l < k => l \in P) => k \in P
  BY <1>1
<1>3. 0 \in P
  BY <1>2
<1>4. P = Nat
  <2> HIDE DEF P
  <2>1. P \subseteq Nat
    BY DEF P
  <2> QED
    BY <1>2, <1>3, <2>1, Induction
<1>5. s.k \in P
  BY <1>4 DEF PowStates
<1> QED
  BY <1>5

LEMMA PowModIsInt ==
  ASSUME NEW a \in Int, NEW k \in Nat, NEW n \in Nat \ {0}
  PROVE  PowMod(a, k, n) \in Int
<1>1. [res |-> 1, a |-> a, k |-> k, n |-> n] \in PowStates
  BY DEF PowStates
<1> QED
  BY <1>1, PowIsInt DEF PowMod

-----------------------------------------------------------------------------
(* The largest power of a prime.                                           *)

PowerStates == [cur : Nat, prime : Nat, n : Nat]
PowerNext(s) == [s EXCEPT !.cur = s.cur * s.prime]

LEMMA LargestTurn ==
  ASSUME NEW s \in PowerStates
  PROVE  largest[s] = IF s.cur * s.prime <= s.n THEN largest[PowerNext(s)] ELSE s.cur
<1> DEFINE S == PowerStates
           Stop == {x \in S : ~(x.cur * x.prime <= x.n)}
           out == [x \in S |-> x.cur]
           step == [x \in S |-> PowerNext(x)]
           Is(f) == f = [x \in S |-> IF x.cur * x.prime <= x.n THEN f[PowerNext(x)] ELSE x.cur]
<1>1. Stays(S, Stop, step)
  <2>1. ASSUME NEW x \in S PROVE PowerNext(x) \in S
    <3>1. PICK next \in Nat : next = x.cur * x.prime
      <4>1. x.cur \in Nat /\ x.prime \in Nat
        BY DEF PowerStates
      <4>2. x.cur * x.prime \in Nat
        BY <4>1
      <4> QED
        BY <4>2
    <3> QED
      BY <3>1 DEF PowerStates, PowerNext
  <2> QED
    BY <2>1 DEF Stays
<1>2. HasResult(S, Stop, out, step)
  <2> HIDE DEF S, Stop, out, step
  <2> QED
    BY <1>1, LoopHasResult
<1>3. \E f : Is(f)
  <2>0. PICK T : \E f \in [S -> T] :
                    \A x \in S : f[x] = IF x \in Stop THEN out[x] ELSE f[step[x]]
    <3> HIDE DEF S, Stop, out, step
    <3> QED
      BY <1>2 DEF HasResult
  <2>1. PICK f \in [S -> T] : \A x \in S : f[x] = IF x \in Stop THEN out[x] ELSE f[step[x]]
    BY <2>0
  <2>2. \A x \in S : f[x] = IF x.cur * x.prime <= x.n THEN f[PowerNext(x)] ELSE x.cur
    BY <2>1
  <2> HIDE DEF S
  <2>3. Is(f)
    BY <2>1, <2>2
  <2> QED
    BY <2>3
<1>4. Is(largest)
  <2>1. largest = CHOOSE g : Is(g)
    BY DEF largest, PowerStates, PowerNext
  <2> HIDE DEF Is
  <2> QED
    BY <1>3, <2>1
<1> DEFINE h == largest
<1> HIDE DEF h
<1>5. h = [x \in S |-> IF x.cur * x.prime <= x.n THEN h[PowerNext(x)] ELSE x.cur]
  BY <1>4 DEF h
<1>6. h[s] = IF s.cur * s.prime <= s.n THEN h[PowerNext(s)] ELSE s.cur
  BY <1>5
<1> QED
  BY <1>6 DEF h

LEMMA LargestIsNat ==
  ASSUME NEW prime \in Nat, prime >= 2, NEW n \in Nat
  PROVE  LargestPower(prime, n) \in Nat
<1> DEFINE P == {k \in Nat : \A c \in Nat \ {0} :
                    c <= n /\ n - c = k =>
                        largest[[cur |-> c, prime |-> prime, n |-> n]] \in Nat}
<1>1. ASSUME NEW c \in Nat \ {0}, ~(c * prime <= n)
      PROVE  largest[[cur |-> c, prime |-> prime, n |-> n]] \in Nat
  <2>1. [cur |-> c, prime |-> prime, n |-> n] \in PowerStates
    BY DEF PowerStates
  <2> QED
    BY <1>1, <2>1, LargestTurn
<1>2. ASSUME NEW k \in Nat, \A l \in Nat : l < k => l \in P,
             NEW c \in Nat \ {0}, c <= n, n - c = k
      PROVE  largest[[cur |-> c, prime |-> prime, n |-> n]] \in Nat
  <2> DEFINE s == [cur |-> c, prime |-> prime, n |-> n]
  <2>1. CASE ~(c * prime <= n)
    BY <1>1, <2>1
  <2>2. CASE c * prime <= n
    <3>1. PICK d \in Nat \ {0} : d = c * prime /\ d > c
      <4>1. c * prime = c + c * (prime - 1) /\ c * (prime - 1) >= c
        OBVIOUS
      <4>2. c * prime \in Nat
        OBVIOUS
      <4> QED
        BY <4>1, <4>2
    <3>2. n - d \in Nat /\ n - d < k /\ d <= n
      BY <3>1, <2>2, <1>2
    <3>3. largest[[cur |-> d, prime |-> prime, n |-> n]] \in Nat
      BY <3>2, <1>2
    <3>4. s \in PowerStates /\ PowerNext(s) = [cur |-> d, prime |-> prime, n |-> n]
      BY <3>1 DEF PowerStates, PowerNext
    <3>5. largest[s] = largest[PowerNext(s)]
      BY <2>2, <3>4, LargestTurn
    <3> QED
      BY <3>3, <3>4, <3>5
  <2> QED
    BY <2>1, <2>2
<1>3. \A k \in Nat : (\A l \in Nat : l < k => l \in P) => k \in P
  BY <1>2
<1>4. P = Nat
  <2> HIDE DEF P
  <2>1. P \subseteq Nat
    BY DEF P
  <2>2. 0 \in P
    BY <1>3
  <2> QED
    BY <1>3, <2>1, <2>2, Induction
<1>5. CASE n = 0
  BY <1>1, <1>5 DEF LargestPower
<1>6. CASE n # 0
  <2>1. n - 1 \in P
    <3> HIDE DEF P
    <3> QED
      BY <1>4, <1>6
  <2> QED
    BY <2>1, <1>6 DEF LargestPower
<1> QED
  BY <1>5, <1>6

-----------------------------------------------------------------------------
(* Sequences of numbers.                                                   *)

Elements(s) == {s[i] : i \in DOMAIN s}

LEMMA FirstAndRest ==
  ASSUME NEW t \in Seq(Int), t # <<>>
  PROVE  /\ Head(t) \in Int /\ Tail(t) \in Seq(Int)
         /\ Len(t) \in Nat /\ Len(Tail(t)) \in Nat /\ Len(Tail(t)) < Len(t)
         /\ Head(t) \in Elements(t) /\ Elements(Tail(t)) \subseteq Elements(t)
<1>1. Head(t) \in Int /\ Tail(t) \in Seq(Int) /\ Len(Tail(t)) = Len(t) - 1
  BY HeadTailProperties
<1>2. Len(t) \in Nat /\ Len(Tail(t)) \in Nat /\ DOMAIN t = 1..Len(t)
      /\ DOMAIN Tail(t) = 1..Len(Tail(t))
  BY <1>1, LenProperties
<1>3. Len(t) # 0
  BY EmptySeq
<1>4. Head(t) = t[1] /\ 1 \in DOMAIN t
  BY <1>2, <1>3
<1>5. \A i \in 1..Len(Tail(t)) : Tail(t)[i] = t[i + 1]
  BY HeadTailProperties
<1>6. \A i \in DOMAIN Tail(t) : Tail(t)[i] = t[i + 1] /\ i + 1 \in DOMAIN t
  BY <1>1, <1>2, <1>5
<1>7. Elements(Tail(t)) \subseteq Elements(t)
  BY <1>6 DEF Elements
<1>8. Head(t) \in Elements(t)
  BY <1>4 DEF Elements
<1> QED
  BY <1>1, <1>2, <1>7, <1>8

LEMMA Prefixed ==
  ASSUME NEW t \in Seq(Int), NEW a \in Int
  PROVE  /\ <<a>> \o t \in Seq(Int) /\ <<a>> \o t # <<>>
         /\ Head(<<a>> \o t) = a /\ Tail(<<a>> \o t) = t
         /\ Elements(<<a>> \o t) = {a} \cup Elements(t)
<1> DEFINE u == <<a>> \o t
<1>1. <<a>> \in Seq(Int) /\ Len(<<a>>) = 1 /\ <<a>>[1] = a
  OBVIOUS
<1>2. Len(t) \in Nat /\ DOMAIN t = 1..Len(t)
  BY LenProperties
<1>3. u \in Seq(Int) /\ Len(u) = 1 + Len(t)
      /\ \A i \in 1..(1 + Len(t)) : u[i] = IF i <= 1 THEN a ELSE t[i - 1]
  <2>1. \A i \in 1..(1 + Len(t)) : u[i] = IF i <= 1 THEN <<a>>[i] ELSE t[i - 1]
    BY <1>1, ConcatProperties
  <2>2. u \in Seq(Int) /\ Len(u) = 1 + Len(t)
    BY <1>1, ConcatProperties
  <2> HIDE DEF u
  <2>3. ASSUME NEW i \in 1..(1 + Len(t)), i <= 1 PROVE i = 1
    BY <2>3, <1>2
  <2> QED
    BY <2>1, <2>2, <2>3, <1>1
<1> HIDE DEF u
<1>4. DOMAIN u = 1..Len(u) /\ u # <<>>
  <2>1. Len(u) # 0
    BY <1>2, <1>3
  <2>2. u # <<>>
    BY <2>1, EmptySeq
  <2> QED
    BY <2>2, <1>3, LenProperties
<1>5. Head(u) = a
  <2>1. 1 \in 1..(1 + Len(t))
    BY <1>2
  <2>2. u[1] = a
    BY <2>1, <1>3
  <2> QED
    BY <2>2, <1>3, <1>4
<1>6. Tail(u) = t
  <2>1. Tail(u) \in Seq(Int) /\ Len(Tail(u)) = Len(t)
        /\ \A i \in 1..Len(Tail(u)) : Tail(u)[i] = u[i + 1]
    BY <1>2, <1>3, <1>4, HeadTailProperties
  <2>2. ASSUME NEW i \in 1..Len(t) PROVE Tail(u)[i] = t[i]
    <3>1. i + 1 \in 1..(1 + Len(t)) /\ ~(i + 1 <= 1) /\ (i + 1) - 1 = i
      BY <1>2
    <3> QED
      BY <3>1, <2>1, <1>3
  <2> QED
    BY <2>1, <2>2, SeqEqual
<1>7. Elements(u) = {a} \cup Elements(t)
  <2>1. ASSUME NEW i \in DOMAIN u PROVE u[i] \in {a} \cup Elements(t)
    <3>1. i \in 1..(1 + Len(t))
      BY <1>3, <1>4
    <3>2. i <= 1 \/ i - 1 \in DOMAIN t
      BY <3>1, <1>2
    <3> QED
      BY <3>1, <3>2, <1>3 DEF Elements
  <2>2. ASSUME NEW i \in DOMAIN t PROVE t[i] \in Elements(u)
    <3>1. i + 1 \in 1..(1 + Len(t)) /\ ~(i + 1 <= 1) /\ (i + 1) - 1 = i
      BY <1>2
    <3>2. u[i + 1] = t[i] /\ i + 1 \in DOMAIN u
      BY <3>1, <1>3, <1>4
    <3> QED
      BY <3>2 DEF Elements
  <2>3. a \in Elements(u)
    <3>1. 1 \in 1..(1 + Len(t))
      BY <1>2
    <3>2. u[1] = a /\ 1 \in DOMAIN u
      BY <3>1, <1>3, <1>4
    <3> QED
      BY <3>2 DEF Elements
  <2>4. Elements(u) \subseteq {a} \cup Elements(t)
    BY <2>1 DEF Elements
  <2>5. Elements(t) \subseteq Elements(u)
    BY <2>2 DEF Elements
  <2> QED
    BY <2>3, <2>4, <2>5
<1> QED
  BY <1>3, <1>4, <1>5, <1>6, <1>7 DEF u

LEMMA TwoPrefixed ==
  ASSUME NEW t \in Seq(Int), NEW a \in Int, NEW b \in Int
  PROVE  <<a, b>> \o t = <<a>> \o (<<b>> \o t)
<1>1. <<a>> \in Seq(Int) /\ <<b>> \in Seq(Int) /\ <<a, b>> \in Seq(Int)
  OBVIOUS
<1>2. <<a>> \o <<b>> = <<a, b>>
  <2> DEFINE u == <<a>> \o <<b>>
             v == <<a, b>>
  <2>1. /\ Len(<<a>>) = 1 /\ Len(<<b>>) = 1 /\ <<a>>[1] = a /\ <<b>>[1] = b
        /\ Len(v) = 2 /\ v[1] = a /\ v[2] = b
    OBVIOUS
  <2>2. u \in Seq(Int) /\ Len(u) = Len(<<a>>) + Len(<<b>>)
        /\ \A i \in 1..(Len(<<a>>) + Len(<<b>>)) :
              u[i] = IF i <= Len(<<a>>) THEN <<a>>[i] ELSE <<b>>[i - Len(<<a>>)]
    BY <1>1, ConcatProperties
  <2> HIDE DEF u
  <2>3. Len(u) = 2 /\ u[1] = a /\ u[2] = b
    BY <2>1, <2>2
  <2> HIDE DEF v
  <2>4. \A i \in 1..Len(u) : u[i] = v[i]
    <3>1. \A i \in 1..2 : i = 1 \/ i = 2
      OBVIOUS
    <3> QED
      BY <3>1, <2>1, <2>3
  <2>5. v \in Seq(Int)
    BY <1>1 DEF v
  <2>6. u = v
    BY <2>1, <2>2, <2>3, <2>4, <2>5, SeqEqual
  <2> QED
    BY <2>6 DEF u, v
<1>3. (<<a>> \o <<b>>) \o t = <<a>> \o (<<b>> \o t)
  BY <1>1, ConcatAssociative
<1> QED
  BY <1>2, <1>3

LEMMA Appended ==
  ASSUME NEW t \in Seq(Int), NEW a \in Int
  PROVE  /\ Append(t, a) \in Seq(Int)
         /\ Elements(Append(t, a)) = Elements(t) \cup {a}
<1> DEFINE u == Append(t, a)
<1>1. /\ u \in Seq(Int) /\ Len(u) = Len(t) + 1 /\ u[Len(t) + 1] = a
      /\ \A i \in 1..Len(t) : u[i] = t[i]
  BY AppendProperties
<1> HIDE DEF u
<1>2. Len(t) \in Nat /\ DOMAIN t = 1..Len(t) /\ DOMAIN u = 1..(Len(t) + 1)
  BY <1>1, LenProperties
<1>3. \A i \in DOMAIN u : i \in DOMAIN t \/ i = Len(t) + 1
  BY <1>2
<1>4. Len(t) + 1 \in DOMAIN u /\ DOMAIN t \subseteq DOMAIN u
  BY <1>2
<1>5. Elements(u) = Elements(t) \cup {a}
  BY <1>1, <1>2, <1>3, <1>4 DEF Elements
<1> QED
  BY <1>1, <1>5 DEF u

-----------------------------------------------------------------------------
(* Products.                                                               *)

LEMMA ProductTurn ==
  ASSUME NEW a \in Int, NEW t \in Seq(Int)
  PROVE  product[<<a, t>>] = IF t = <<>> THEN a ELSE product[<<a * Head(t), Tail(t)>>]
<1> DEFINE S == Int \X Seq(Int)
           Stop == {x \in S : x[2] = <<>>}
           out == [x \in S |-> x[1]]
           step == [x \in S |-> <<x[1] * Head(x[2]), Tail(x[2])>>]
           Is(f) == f = [x \in S |-> IF x[2] = <<>> THEN x[1]
                                     ELSE f[<<x[1] * Head(x[2]), Tail(x[2])>>]]
<1>1. Stays(S, Stop, step)
  <2>1. ASSUME NEW x \in S, x \notin Stop PROVE step[x] \in S
    <3>1. x[1] \in Int /\ x[2] \in Seq(Int) /\ x[2] # <<>>
      BY <2>1
    <3>2. Head(x[2]) \in Int /\ Tail(x[2]) \in Seq(Int)
      BY <3>1
    <3>3. x[1] * Head(x[2]) \in Int
      BY <3>1, <3>2
    <3> QED
      BY <3>2, <3>3
  <2> QED
    BY <2>1 DEF Stays
<1>2. HasResult(S, Stop, out, step)
  <2> HIDE DEF S, Stop, out, step
  <2> QED
    BY <1>1, LoopHasResult
<1>3. \E f : Is(f)
  <2>0. PICK T : \E f \in [S -> T] :
                    \A x \in S : f[x] = IF x \in Stop THEN out[x] ELSE f[step[x]]
    <3> HIDE DEF S, Stop, out, step
    <3> QED
      BY <1>2 DEF HasResult
  <2>1. PICK f \in [S -> T] : \A x \in S : f[x] = IF x \in Stop THEN out[x] ELSE f[step[x]]
    BY <2>0
  <2>2. \A x \in S : f[x] = IF x[2] = <<>> THEN x[1]
                                     ELSE f[<<x[1] * Head(x[2]), Tail(x[2])>>]
    BY <2>1
  <2> HIDE DEF S
  <2>3. Is(f)
    BY <2>1, <2>2
  <2> QED
    BY <2>3
<1>4. Is(product)
  <2>1. product = CHOOSE g : Is(g)
    BY DEF product
  <2> HIDE DEF Is
  <2> QED
    BY <1>3, <2>1
<1> DEFINE h == product
<1> HIDE DEF h
<1>5. h = [x \in S |-> IF x[2] = <<>> THEN x[1] ELSE h[<<x[1] * Head(x[2]), Tail(x[2])>>]]
  BY <1>4 DEF h
<1>6. <<a, t>> \in S /\ <<a, t>>[1] = a /\ <<a, t>>[2] = t
  OBVIOUS
<1>7. h[<<a, t>>] = IF t = <<>> THEN a ELSE h[<<a * Head(t), Tail(t)>>]
  BY <1>5, <1>6
<1> QED
  BY <1>7 DEF h

Linear(a, b, t) == product[<<a, t>>] \in Int /\ product[<<a * b, t>>] = a * product[<<b, t>>]

LEMMA ProductIsLinear ==
  ASSUME NEW a \in Int, NEW b \in Int, NEW t \in Seq(Int)
  PROVE  Linear(a, b, t)
<1> DEFINE P == {n \in Nat : \A u \in Seq(Int) : Len(u) = n => \A x, y \in Int : Linear(x, y, u)}
<1>1. ASSUME NEW n \in Nat, \A l \in Nat : l < n => l \in P,
             NEW u \in Seq(Int), Len(u) = n, NEW x \in Int, NEW y \in Int
      PROVE  Linear(x, y, u)
  <2>0. x * y \in Int
    OBVIOUS
  <2>1. CASE u = <<>>
    BY <2>0, <2>1, ProductTurn DEF Linear
  <2>2. CASE u # <<>>
    <3>1. PICK h \in Int : h = Head(u)
      BY <2>2, FirstAndRest
    <3>2. PICK v \in Seq(Int) : v = Tail(u) /\ Len(v) < n /\ Len(v) \in Nat
      BY <2>2, <1>1, FirstAndRest
    <3>3. x * h \in Int /\ y * h \in Int /\ (x * y) * h = x * (y * h)
      OBVIOUS
    <3>4. /\ product[<<x, u>>] = product[<<x * h, v>>]
          /\ product[<<y, u>>] = product[<<y * h, v>>]
          /\ product[<<x * y, u>>] = product[<<(x * y) * h, v>>]
      BY <2>0, <2>2, <3>1, <3>2, ProductTurn
    <3>5. Linear(x * h, y, v) /\ Linear(x, y * h, v)
      BY <1>1, <3>2, <3>3
    <3> QED
      BY <3>3, <3>4, <3>5 DEF Linear
  <2> QED
    BY <2>1, <2>2
<1>2. \A n \in Nat : (\A l \in Nat : l < n => l \in P) => n \in P
  BY <1>1
<1>3. P = Nat
  <2> HIDE DEF P
  <2>1. P \subseteq Nat
    BY DEF P
  <2>2. 0 \in P
    BY <1>2
  <2> QED
    BY <1>2, <2>1, <2>2, Induction
<1>4. Len(t) \in P
  <2> HIDE DEF P
  <2> QED
    BY <1>3
<1> QED
  BY <1>4

LEMMA ProductIsInt == ASSUME NEW t \in Seq(Int) PROVE Product(t) \in Int
  BY ProductIsLinear DEF Product, Linear

LEMMA ProductOfNone == Product(<<>>) = 1
<1>1. PICK one \in Int : one = 1
  OBVIOUS
<1>2. PICK none \in Seq(Int) : none = <<>>
  BY EmptySeq
<1>3. product[<<one, none>>] = one
  BY <1>2, ProductTurn
<1> QED
  BY <1>1, <1>2, <1>3 DEF Product

\* A number in front is a factor.
LEMMA ProductOfFirst ==
  ASSUME NEW t \in Seq(Int), t # <<>>
  PROVE  Product(t) = Head(t) * Product(Tail(t))
<1>1. PICK h \in Int : h = Head(t)
  BY FirstAndRest
<1>2. PICK v \in Seq(Int) : v = Tail(t)
  BY FirstAndRest
<1>0. PICK one \in Int : one = 1
  OBVIOUS
<1>3. product[<<one, t>>] = product[<<one * h, v>>]
  BY <1>1, <1>2, ProductTurn
<1>4. one * h = h * one
  BY <1>0
<1>5. product[<<h * one, v>>] = h * product[<<one, v>>]
  BY ProductIsLinear DEF Linear
<1> QED
  BY <1>0, <1>1, <1>2, <1>3, <1>4, <1>5 DEF Product

LEMMA ProductOfPrefixed ==
  ASSUME NEW t \in Seq(Int), NEW a \in Int
  PROVE  Product(<<a>> \o t) = a * Product(t)
  BY Prefixed, ProductOfFirst

LEMMA ProductOfTwoPrefixed ==
  ASSUME NEW t \in Seq(Int), NEW a \in Int, NEW b \in Int
  PROVE  Product(<<a, b>> \o t) = a * (b * Product(t))
<1>1. PICK u \in Seq(Int) : u = <<b>> \o t
  BY Prefixed
<1>2. Product(<<a>> \o u) = a * Product(u)
  BY ProductOfPrefixed
<1>3. Product(u) = b * Product(t)
  BY <1>1, ProductOfPrefixed
<1> QED
  BY <1>1, <1>2, <1>3, TwoPrefixed

\* So is a number at the end.
LEMMA ProductOfAppended ==
  ASSUME NEW t \in Seq(Int), NEW a \in Int
  PROVE  Product(Append(t, a)) = Product(t) * a
<1> DEFINE P == {n \in Nat : \A u \in Seq(Int) :
                    Len(u) = n => Product(Append(u, a)) = Product(u) * a}
<1>1. ASSUME NEW n \in Nat, \A l \in Nat : l < n => l \in P, NEW u \in Seq(Int), Len(u) = n
      PROVE  Product(Append(u, a)) = Product(u) * a
  <2>1. CASE u = <<>>
    <3>1. Append(u, a) = <<a>> \o <<>> /\ <<>> \in Seq(Int)
      BY <2>1
    <3>2. Product(<<a>> \o <<>>) = a * Product(<<>>)
      BY <3>1, ProductOfPrefixed
    <3> QED
      BY <2>1, <3>1, <3>2, ProductOfNone
  <2>2. CASE u # <<>>
    <3>1. PICK h \in Int : h = Head(u)
      BY <2>2, FirstAndRest
    <3>2. PICK v \in Seq(Int) : v = Tail(u) /\ Len(v) < n /\ Len(v) \in Nat
      BY <2>2, <1>1, FirstAndRest
    <3>3. /\ Append(u, a) \in Seq(Int) /\ Append(u, a) # <<>>
          /\ Head(Append(u, a)) = h /\ Tail(Append(u, a)) = Append(v, a)
      BY <2>2, <3>1, <3>2, AppendProperties, HeadTailAppend
    <3>4. Product(Append(v, a)) = Product(v) * a
      BY <3>2, <1>1
    <3>5. Product(Append(u, a)) = h * (Product(v) * a)
      BY <3>3, <3>4, ProductOfFirst
    <3>6. Product(u) = h * Product(v)
      BY <2>2, <3>1, <3>2, ProductOfFirst
    <3>7. Product(v) \in Int
      BY ProductIsInt
    <3> HIDE DEF P
    <3>8. h * (Product(v) * a) = (h * Product(v)) * a
      BY <3>7
    <3> QED
      BY <3>5, <3>6, <3>8
  <2> QED
    BY <2>1, <2>2
<1>2. \A n \in Nat : (\A l \in Nat : l < n => l \in P) => n \in P
  BY <1>1
<1>3. P = Nat
  <2> HIDE DEF P
  <2>1. P \subseteq Nat
    BY DEF P
  <2>2. 0 \in P
    BY <1>2
  <2> QED
    BY <1>2, <2>1, <2>2, Induction
<1>4. Len(t) \in P
  <2> HIDE DEF P
  <2> QED
    BY <1>3
<1> QED
  BY <1>4

-----------------------------------------------------------------------------
(* Quotients.                                                              *)

LEMMA Division ==
  ASSUME NEW x \in Nat, NEW y \in Nat, y > 0
  PROVE  x \div y \in Nat /\ x % y \in 0..(y - 1) /\ x = (x \div y) * y + (x % y)
<1> DEFINE q == x \div y
           r == x % y
<1>1. q \in Nat /\ r \in 0..(y - 1) /\ x = q * y + r
  OBVIOUS
<1> QED
  BY <1>1

LEMMA Multiple ==
  ASSUME NEW n \in Nat, NEW d \in Nat \ {0}
  PROVE  /\ n % d = 0 => n = (n \div d) * d
         /\ n % d = 0 => Divides(d, n)
         /\ \A k \in Int : n = k * d => n % d = 0 /\ n \div d = k
<1>0. d \in Nat /\ d > 0
  OBVIOUS
<1>1. n \div d \in Int /\ n % d \in 0..(d - 1) /\ n = (n \div d) * d + (n % d)
  BY <1>0, Division
<1>2. n % d = 0 => n = (n \div d) * d
  BY <1>1
<1>3. ASSUME NEW k \in Int, n = k * d PROVE n % d = 0 /\ n \div d = k
  <2> DEFINE q == n \div d
             r == n % d
  <2>1. q \in Int /\ r \in 0..(d - 1) /\ k * d = q * d + r
    BY <1>1, <1>3
  <2> HIDE DEF q, r
  <2>2. (k - q) * d = r
    BY <2>1
  <2>3. CASE k - q >= 1
    <3>1. (k - q) * d >= d
      BY <2>1, <2>3
    <3> QED
      BY <3>1, <2>1, <2>2
  <2>4. CASE k - q <= -1
    <3>1. (k - q) * d <= -d
      BY <2>1, <2>4
    <3> QED
      BY <3>1, <2>1, <2>2
  <2>5. CASE k = q
    BY <2>1, <2>2, <2>5 DEF q, r
  <2> QED
    BY <2>1, <2>3, <2>4, <2>5
<1> QED
  BY <1>1, <1>2, <1>3 DEF Divides

LEMMA DividesIsTransitive ==
  ASSUME NEW a \in Int, NEW b \in Int, NEW c \in Int, Divides(a, b), Divides(b, c)
  PROVE  Divides(a, c)
<1>1. PICK u \in Int : b = u * a
  BY DEF Divides
<1>2. PICK v \in Int : c = v * b
  BY DEF Divides
<1>3. v * (u * a) = (v * u) * a /\ v * u \in Int
  OBVIOUS
<1> QED
  BY <1>1, <1>2, <1>3 DEF Divides

\* A divisor of a positive number is not greater.
LEMMA DividesIsLess ==
  ASSUME NEW d \in Int, NEW n \in Nat \ {0}, Divides(d, n)
  PROVE  d # 0 /\ d <= n
<1>1. PICK q \in Int : n = q * d
  BY DEF Divides
<1>2. d # 0
  BY <1>1
<1>3. CASE d < 0
  BY <1>2, <1>3
<1>4. CASE d > 0
  <2>1. q >= 1
    <3>1. SUFFICES ASSUME q <= 0 PROVE FALSE
      OBVIOUS
    <3>2. q * d <= 0
      BY <1>4, <3>1
    <3> QED
      BY <1>1, <3>2
  <2>2. q * d >= d
    BY <1>4, <2>1
  <2> QED
    BY <1>1, <1>2, <2>2
<1> QED
  BY <1>2, <1>3, <1>4

\* A divisor times the quotient is the number, and the signs agree.
LEMMA QuotientIsExact ==
  ASSUME NEW n \in Nat \ {0}, NEW d \in Int, Divides(d, n)
  PROVE  /\ Quotient(n, d) \in Int /\ d * Quotient(n, d) = n
         /\ d > 0 => Quotient(n, d) > 0
<1>1. PICK k \in Int : n = k * d
  BY DEF Divides
<1>2. d # 0
  BY DividesIsLess
<1>3. Quotient(n, d) = k
  <2>1. CASE d > 0
    <3>1. d \in Nat \ {0} /\ n \in Nat
      BY <2>1
    <3>2. n \div d = k
      BY <1>1, <3>1, Multiple
    <3> QED
      BY <2>1, <3>2 DEF Quotient
  <2>2. CASE d < 0
    <3>1. PICK e \in Nat \ {0} : e = -d
      BY <2>2
    <3>2. n = (-k) * e /\ -k \in Int
      BY <1>1, <3>1
    <3>3. n \div e = -k
      BY <3>1, <3>2, Multiple
    <3> QED
      BY <2>2, <3>1, <3>3 DEF Quotient
  <2> QED
    BY <1>2, <2>1, <2>2
<1>4. ASSUME d > 0 PROVE k > 0
  <2>1. SUFFICES ASSUME k <= 0 PROVE FALSE
    OBVIOUS
  <2>2. k * d <= 0
    BY <1>4, <2>1
  <2> QED
    BY <1>1, <2>2
<1> QED
  BY <1>1, <1>3, <1>4

-----------------------------------------------------------------------------
(* Trial division.                                                         *)

LEMMA LeastOf ==
  ASSUME NEW T \in SUBSET Nat, T # {}
  PROVE  Min(T) \in T /\ \A y \in T : Min(T) <= y
<1> DEFINE P == {n \in Nat : n \in T => \E x \in T : \A y \in T : x <= y}
<1>1. ASSUME NEW n \in Nat, \A l \in Nat : l < n => l \in P, n \in T
      PROVE  \E x \in T : \A y \in T : x <= y
  <2>1. CASE \A y \in T : n <= y
    BY <1>1, <2>1
  <2>2. CASE \E y \in T : ~(n <= y)
    <3>1. PICK y \in T : ~(n <= y)
      BY <2>2
    <3>2. y \in Nat /\ y < n
      BY <3>1
    <3> QED
      BY <3>2, <3>1, <1>1
  <2> QED
    BY <2>1, <2>2
<1>2. \A n \in Nat : (\A l \in Nat : l < n => l \in P) => n \in P
  BY <1>1
<1>3. P = Nat
  <2> HIDE DEF P
  <2>1. P \subseteq Nat
    BY DEF P
  <2>2. 0 \in P
    BY <1>2
  <2> QED
    BY <1>2, <2>1, <2>2, Induction
<1>4. PICK n \in T : TRUE
  OBVIOUS
<1>5. n \in P
  <2> HIDE DEF P
  <2> QED
    BY <1>3
<1>6. \E x \in T : \A y \in T : x <= y
  BY <1>4, <1>5
<1> QED
  BY <1>6 DEF Min

\* What get_primes sieves is prime.
LEMMA PrimesArePrime ==
  ASSUME NEW b \in Int, NEW p \in Primes(b)
  PROVE  p \in Nat /\ PrimeNumber(p) /\ p <= b
<1>1. p \in Nat /\ p >= 2 /\ p <= b
      /\ \A d \in 2..(p - 1) : d * d > p \/ p % d # 0
  BY DEF Primes
<1>2. ASSUME NEW d \in 2..(p - 1), p % d = 0 PROVE FALSE
  <2>1. d \in Nat \ {0} /\ d >= 2 /\ d < p
    BY <1>1
  <2>2. PICK c \in Int : p = c * d
    BY <1>1, <1>2, <2>1, Multiple DEF Divides
  <2>3. c >= 2
    <3>1. SUFFICES ASSUME c <= 1 PROVE FALSE
      OBVIOUS
    <3>2. c * d <= d
      BY <2>1, <3>1
    <3> QED
      BY <1>1, <2>1, <2>2, <3>2
  <2>4. c < p
    <3>1. c * d >= c * 2
      BY <2>1, <2>3
    <3> QED
      BY <1>1, <2>2, <2>3, <3>1
  <2>5. d * d > p
    BY <1>1, <1>2
  <2>6. c < d
    <3>1. SUFFICES ASSUME c >= d PROVE FALSE
      OBVIOUS
    <3>2. c * d >= d * d
      <4> HIDE <2>2
      <4>1. c - d >= 0 /\ d >= 0 /\ c * d = d * d + (c - d) * d
        BY <2>1, <3>1
      <4>2. (c - d) * d >= 0
        BY <2>1, <4>1
      <4> QED
        BY <2>1, <4>1, <4>2
    <3> QED
      BY <2>1, <2>2, <2>5, <3>2
  <2>7. c * c <= c * d
    <3>1. d - c >= 0 /\ c >= 0 /\ c * d = c * c + (d - c) * c
      BY <2>1, <2>3, <2>6
    <3>2. (d - c) * c >= 0
      BY <2>1, <3>1
    <3> QED
      BY <2>1, <3>1, <3>2
  <2>8. p % c = 0
    <3>1. c \in Nat \ {0} /\ p = d * c /\ d \in Int /\ p \in Nat
      BY <1>1, <2>1, <2>2, <2>3
    <3> HIDE <2>2
    <3> QED
      BY <3>1, Multiple
  <2>9. c \in 2..(p - 1) /\ ~(c * c > p)
    BY <1>1, <2>2, <2>3, <2>4, <2>7
  <2> QED
    BY <1>1, <2>8, <2>9
<1>3. \A d \in 2..(p - 1) : p % d # 0
  BY <1>2
<1> QED
  BY <1>1, <1>3 DEF PrimeNumber

\* A number that is not prime has a prime divisor up to its root: the least divisor.
LEMMA LeastDivisor ==
  ASSUME NEW n \in Nat, n >= 2, ~PrimeNumber(n)
  PROVE  \E p \in Nat : /\ p >= 2 /\ p < n /\ p * p <= n /\ n % p = 0
                        /\ \A d \in 2..(p - 1) : p % d # 0
<1> DEFINE T == {x \in 2..(n - 1) : n % x = 0}
<1>0. \E d \in 2..(n - 1) : n % d = 0
  BY DEF PrimeNumber
<1>1. T \in SUBSET Nat /\ T # {}
  <2>1. T # {}
    BY <1>0
  <2>2. \A x \in T : x \in Nat
    OBVIOUS
  <2> HIDE DEF T
  <2> QED
    BY <2>1, <2>2
<1>2. Min(T) \in T /\ \A y \in T : Min(T) <= y
  <2> HIDE DEF T
  <2> QED
    BY <1>1, LeastOf
<1>3. PICK p \in T : \A y \in T : p <= y
  BY <1>2
<1>4. p \in Nat \ {0} /\ p \in Nat /\ p > 0 /\ p \in Int /\ p >= 2 /\ p < n /\ n % p = 0
      /\ n \in Int
  BY <1>1, <1>3
<1>5. PICK c \in Int : n = c * p
  BY <1>4, Multiple DEF Divides
<1>6. c >= 2
  <2>1. SUFFICES ASSUME c <= 1 PROVE FALSE
    OBVIOUS
  <2>2. c * p <= p
    BY <1>4, <2>1
  <2> QED
    BY <1>4, <1>5, <2>2
<1>7. c < n
  <2>1. c * p >= c * 2
    BY <1>4, <1>6
  <2> QED
    BY <1>5, <1>6, <2>1
<1>8. c \in T
  <2>1. c \in Nat \ {0} /\ c * p = p * c
    BY <1>4, <1>6
  <2>2. n % c = 0
    BY <1>4, <1>5, <2>1, Multiple
  <2> QED
    BY <1>6, <1>7, <2>2
<1>9. p * p <= n
  <2>1. p <= c
    BY <1>3, <1>8
  <2>2. c - p >= 0 /\ c * p = p * p + (c - p) * p
    BY <1>4, <2>1
  <2>3. (c - p) * p >= 0
    BY <1>4, <2>2
  <2>4. p * p \in Int
    BY <1>4
  <2> QED
    BY <1>5, <2>2, <2>3, <2>4
<1>10. ASSUME NEW d \in 2..(p - 1), p % d = 0 PROVE FALSE
  <2>1. d \in Nat \ {0} /\ d \in Int /\ d >= 2 /\ d < p /\ p \in Nat
    BY <1>4
  <2>2. Divides(d, p)
    BY <2>1, <1>10, Multiple
  <2>3. Divides(p, n)
    BY <1>4, Multiple
  <2>4. Divides(d, n)
    BY <1>4, <2>1, <2>2, <2>3, DividesIsTransitive
  <2>5. n % d = 0
    BY <2>1, <2>4, Multiple DEF Divides
  <2>6. d \in T
    BY <1>4, <2>1, <2>5
  <2> HIDE DEF T
  <2> QED
    BY <1>3, <2>1, <2>6
<1>11. \A d \in 2..(p - 1) : p % d # 0
  BY <1>10
<1> QED
  BY <1>4, <1>9, <1>11

\* What trial division up to m says of a number.
Divisor(n, m) ==
    LET div == PrimeDivTrivial(n, m)
    IN /\ div \in Nat
       /\ n < 2 => div = 0
       /\ n >= 2 /\ div = 0 => n >= m * m
       /\ div = 1 => n >= 2 /\ PrimeNumber(n)
       /\ div > 1 => PrimeNumber(div) /\ Divides(div, n) /\ ~PrimeNumber(n)

LEMMA TrialDivision ==
  ASSUME NEW n \in Int, NEW m \in Nat
  PROVE  Divisor(n, m)
<1> DEFINE divisors == {d \in Primes(m) : d * d <= n /\ Rem(n, d) = 0}
           div == PrimeDivTrivial(n, m)
<1>1. div = IF n \in {2, 3} THEN 1 ELSE IF n < 2 THEN 0 ELSE IF Even(n) THEN 2
            ELSE IF divisors # {} THEN Min(divisors) ELSE IF n < m * m THEN 1 ELSE 0
  BY DEF PrimeDivTrivial
<1>2. CASE n < 2
  BY <1>1, <1>2 DEF Divisor
<1>3. CASE n \in {2, 3}
  <2>1. div = 1
    BY <1>1, <1>3
  <2>2. PrimeNumber(n)
    <3>1. CASE n = 2
      BY <3>1 DEF PrimeNumber
    <3>2. CASE n = 3
      <4>1. \A d \in 2..(3 - 1) : d = 2
        OBVIOUS
      <4> QED
        BY <3>2, <4>1 DEF PrimeNumber
    <3> QED
      BY <1>3, <3>1, <3>2
  <2> QED
    BY <2>1, <2>2, <1>3 DEF Divisor
<1>4. ASSUME n >= 2, n \notin {2, 3}, Even(n) PROVE Divisor(n, m)
  <2>1. div = 2
    BY <1>1, <1>4
  <2>2. PrimeNumber(2)
    BY DEF PrimeNumber
  <2>3. n \in Nat /\ n % 2 = 0 /\ 2 \in 2..(n - 1)
    BY <1>4 DEF Even
  <2>4. ~PrimeNumber(n)
    BY <2>3 DEF PrimeNumber
  <2>5. Divides(2, n)
    <3>1. PICK two \in Nat \ {0} : two = 2
      OBVIOUS
    <3> QED
      BY <2>3, <3>1, Multiple
  <2> QED
    BY <2>1, <2>2, <2>4, <2>5, <1>4 DEF Divisor
<1>5. ASSUME n >= 2, n \notin {2, 3}, ~Even(n), divisors # {} PROVE Divisor(n, m)
  <2>1. div = Min(divisors)
    BY <1>1, <1>5
  <2>2. divisors \in SUBSET Nat
    BY PrimesArePrime
  <2>3. Min(divisors) \in divisors
    <3> HIDE DEF divisors
    <3> QED
      BY <1>5, <2>2, LeastOf
  <2>4. PICK p \in Primes(m) : p = div /\ p * p <= n /\ Rem(n, p) = 0
    BY <2>1, <2>3
  <2>5. p \in Nat /\ PrimeNumber(p)
    BY PrimesArePrime
  <2>6. p >= 2 /\ p \in Nat \ {0} /\ n \in Nat
    BY <2>5, <1>5 DEF PrimeNumber
  <2>7. n % p = 0
    BY <2>4, <2>6, <1>5 DEF Rem, AbsOf
  <2>8. Divides(p, n)
    BY <2>6, <2>7, Multiple
  <2>9. p < n
    <3>1. p * p >= p * 2
      BY <2>6
    <3> QED
      BY <2>4, <2>6, <3>1
  <2>10. ~PrimeNumber(n)
    BY <2>6, <2>7, <2>9 DEF PrimeNumber
  <2> HIDE DEF div, divisors
  <2>11. div = p
    BY <2>4
  <2> QED
    BY <2>5, <2>6, <2>8, <2>10, <2>11, <1>5 DEF Divisor, div
<1>6. ASSUME n >= 2, n \notin {2, 3}, ~Even(n), divisors = {} PROVE Divisor(n, m)
  <2>1. div = IF n < m * m THEN 1 ELSE 0
    BY <1>1, <1>6
  <2>2. ASSUME n < m * m, ~PrimeNumber(n) PROVE FALSE
    <3>1. n \in Nat
      BY <1>6
    <3>2. PICK p \in Nat : /\ p >= 2 /\ p < n /\ p * p <= n /\ n % p = 0
                           /\ \A d \in 2..(p - 1) : p % d # 0
      BY <1>6, <2>2, <3>1, LeastDivisor
    <3>3. p < m
      <4>1. SUFFICES ASSUME p >= m PROVE FALSE
        OBVIOUS
      <4>2. p - m >= 0 /\ p * p = m * m + ((p - m) * m + (p - m) * p)
        BY <3>2, <4>1
      <4>3. (p - m) * m >= 0 /\ (p - m) * p >= 0
        BY <4>2
      <4>4. m * m \in Int /\ p * p \in Int /\ n \in Int
        OBVIOUS
      <4>5. p * p >= m * m
        BY <4>2, <4>3, <4>4
      <4> QED
        BY <4>4, <4>5, <3>2, <2>2
    <3>4. p \in Primes(m)
      <4>1. p \in 2..m
        BY <3>2, <3>3
      <4>2. \A d \in 2..(p - 1) : d * d > p \/ p % d # 0
        BY <3>2
      <4> QED
        BY <4>1, <4>2 DEF Primes
    <3>5. Rem(n, p) = 0
      BY <3>1, <3>2 DEF Rem, AbsOf
    <3>6. p \in divisors
      BY <3>2, <3>4, <3>5
    <3> QED
      BY <3>6, <1>6
  <2> HIDE DEF div
  <2>3. CASE n < m * m
    BY <2>1, <2>2, <2>3, <1>6 DEF Divisor, div
  <2>4. CASE ~(n < m * m)
    <3>1. n >= m * m
      BY <2>4
    <3> QED
      BY <2>1, <2>4, <3>1, <1>6 DEF Divisor, div
  <2> QED
    BY <2>3, <2>4
<1> QED
  BY <1>2, <1>3, <1>4, <1>5, <1>6

\* Below 29 * 29 trial division decides; nothing below 2 is taken for prime.
LEMMA SmallIsDecided ==
  ASSUME NEW n \in Int
  PROVE  /\ IsPrime(n) => n >= 2
         /\ n < 29 * 29 => (IsPrime(n) <=> PrimeNumber(n))
<1>1. PICK m \in Nat : m = 29
  OBVIOUS
<1> DEFINE div == PrimeDivTrivial(n, 29)
           Rest29 == (n = 2 \/ MillerRabin(n)) /\ LucasSelfridge(n)
<1>2. Divisor(n, 29)
  BY <1>1, TrialDivision
<1>3. IsPrime(n) <=> div = 1 \/ (div = 0 /\ Rest29)
  BY DEF IsPrime
<1>4. Rest29 => n >= 2
  BY DEF MillerRabin
<1> HIDE DEF Rest29
<1>5. IsPrime(n) => n >= 2
  BY <1>2, <1>3, <1>4 DEF Divisor
<1>6. PrimeNumber(n) => n >= 2
  BY DEF PrimeNumber
<1>7. ASSUME n < 29 * 29 PROVE IsPrime(n) <=> PrimeNumber(n)
  BY <1>2, <1>3, <1>4, <1>6, <1>7 DEF Divisor
<1> QED
  BY <1>5, <1>7

\* The root, rounded down.
LEMMA RootIsNat == ASSUME NEW n \in Nat PROVE SqRoot(n) \in Nat
<1> DEFINE T == {x \in Nat : (x + 1) * (x + 1) > n}
<1>1. T \in SUBSET Nat /\ n \in T
  <2>1. (n + 1) * (n + 1) = n * n + 2 * n + 1 /\ n * n >= 0
    OBVIOUS
  <2> QED
    BY <2>1
<1>2. Min(T) \in T /\ \A y \in T : Min(T) <= y
  <2> HIDE DEF T
  <2> QED
    BY <1>1, LeastOf
<1>3. PICK x \in T : \A y \in T : x <= y
  BY <1>2
<1>4. x \in Nat /\ (x + 1) * (x + 1) > n /\ x <= n
  BY <1>1, <1>3
<1>5. x * x <= n
  <2>1. CASE x = 0
    BY <2>1
  <2>2. CASE x # 0
    <3>1. x - 1 \in Nat /\ x - 1 \notin T /\ (x - 1) + 1 = x
      BY <1>3, <1>4, <2>2
    <3>2. x * x \in Int
      BY <1>4
    <3> QED
      BY <3>1, <3>2
  <2> QED
    BY <2>1, <2>2
<1>6. \E y \in 0..n : y * y <= n /\ (y + 1) * (y + 1) > n
  BY <1>4, <1>5
<1>7. SqRoot(n) \in 0..n
  BY <1>6 DEF SqRoot
<1> QED
  BY <1>7

-----------------------------------------------------------------------------
(* The invariant.                                                          *)

Searches ==
    [by : {"none", "bent"}]
    \cup [by : {"monte_carlo"}, b : Int, primes : SUBSET Primes(100)]
    \cup [by : {"rho"}, b0 : Int, b1 : Int, left : Nat]
    \cup [by : {"p_1"}, a : Int]
    \cup [by : {"ferma"}, x : Nat, y : Nat, r : Int]

TypeInv == pq \in Inputs /\ todo \in Seq(Int) /\ result \in Seq(Int) /\ search \in Searches

Positive(s) == \A n \in Elements(s) : n > 0

\* Only positive numbers are split.
SearchInv == search.by # "none" => todo # <<>> /\ Positive(todo)

\* What is left of Fermat's equation x^2 - y^2 = n.
IsRest(s, n) == s.by = "ferma" => s.r = s.x * s.x - s.y * s.y - n
FermaInv == IsRest(search, Number)

\* Numbers are positive, except where pollard_bent has just returned a negative divisor.
SignInv == Positive(todo) \/ (by = "bent" /\ search.by = "none" /\ todo # <<>> /\ Number < 0)

ProductInv == Product(result) * Product(todo) = pq

IInv == TypeInv /\ SearchInv /\ FermaInv /\ SignInv /\ ProductInv /\ CrashIsBents

LEMMA InitIInv == ASSUME FactorAssumption, FactorInit PROVE IInv
<1>1. PICK n \in Nat \ {0} : n = pq
  BY DEF FactorInit, FactorAssumption
<1>2. PICK none \in Seq(Int) : none = <<>>
  BY EmptySeq
<1>3. todo = <<n>> \o none /\ n \in Int
  <2>1. <<n>> = <<n>> \o none
    BY <1>2
  <2> QED
    BY <1>1, <2>1 DEF FactorInit
<1> DEFINE t == <<n>> \o none
<1>4. t \in Seq(Int) /\ Elements(t) = {n} \cup Elements(none) /\ Product(t) = n * Product(none)
  <2> HIDE DEF t
  <2>1. n \in Int
    BY <1>3
  <2> QED
    BY <2>1, Prefixed, ProductOfPrefixed DEF t
<1>5. Elements(none) = {}
  BY <1>2 DEF Elements
<1>6. Product(none) = 1
  BY <1>2, ProductOfNone
<1> HIDE DEF t
<1>0. todo = t
  BY <1>3 DEF t
<1>7. TypeInv
  BY <1>0, <1>4, <1>2 DEF TypeInv, FactorInit, Searches
<1>8. SignInv
  BY <1>0, <1>1, <1>4, <1>5 DEF SignInv, Positive
<1>9. ProductInv
  BY <1>0, <1>1, <1>2, <1>4, <1>6 DEF ProductInv, FactorInit
<1> QED
  BY <1>7, <1>8, <1>9 DEF IInv, SearchInv, FermaInv, IsRest, CrashIsBents, FactorInit

\* The number at hand and the ones that wait.
LEMMA Waiting ==
  ASSUME IInv, todo # <<>>
  PROVE  /\ Number \in Int /\ Tail(todo) \in Seq(Int)
         /\ Product(todo) = Number * Product(Tail(todo))
         /\ Product(Tail(todo)) \in Int /\ Product(result) \in Int
         /\ Positive(todo) => Number > 0 /\ Positive(Tail(todo))
         /\ Number >= 0 => Positive(todo)
<1>1. todo \in Seq(Int) /\ result \in Seq(Int) /\ SignInv
  BY DEF IInv, TypeInv
<1>2. /\ Head(todo) \in Int /\ Tail(todo) \in Seq(Int)
      /\ Head(todo) \in Elements(todo) /\ Elements(Tail(todo)) \subseteq Elements(todo)
  BY <1>1, FirstAndRest
<1>3. Product(todo) = Head(todo) * Product(Tail(todo))
  BY <1>1, ProductOfFirst
<1>4. Product(Tail(todo)) \in Int /\ Product(result) \in Int
  BY <1>1, <1>2, ProductIsInt
<1>5. Positive(todo) => Head(todo) > 0 /\ Positive(Tail(todo))
  BY <1>2 DEF Positive
<1>6. Head(todo) >= 0 => Positive(todo)
  BY <1>1, <1>2 DEF SignInv, Number
<1> QED
  BY <1>2, <1>3, <1>4, <1>5, <1>6 DEF Number

\* A number divides the one at hand, which divides pq.
LEMMA NumberDivides ==
  ASSUME FactorAssumption, IInv, todo # <<>>
  PROVE  pq \in Nat \ {0} /\ Divides(Number, pq)
<1>1. PICK n \in Int : n = Number
  BY Waiting
<1>2. PICK w \in Int : w = Product(Tail(todo))
  BY Waiting
<1>3. PICK v \in Int : v = Product(result)
  BY Waiting
<1>4. v * (n * w) = pq
  BY <1>1, <1>2, <1>3, Waiting DEF IInv, ProductInv
<1>5. v * (n * w) = (v * w) * n /\ v * w \in Int
  OBVIOUS
<1> QED
  BY <1>1, <1>4, <1>5 DEF Divides, IInv, TypeInv, FactorAssumption

-----------------------------------------------------------------------------
(* Steps.                                                                  *)

\* A method that goes on, or begins, keeps the invariant.
LEMMA GoesOnStep ==
  ASSUME IInv, NEW s \in Searches, GoesOn(s), todo # <<>>, Positive(todo), IsRest(s, Number)
  PROVE  IInv'
<1>1. /\ search' = s /\ pq' = pq /\ todo' = todo /\ result' = result /\ by' = by
      /\ ended' = ended
  BY DEF GoesOn
<1>2. TypeInv'
  BY <1>1 DEF IInv, TypeInv
<1>3. SearchInv' /\ SignInv'
  BY <1>1 DEF SearchInv, SignInv, Positive
<1>4. FermaInv'
  BY <1>1 DEF FermaInv, Number
<1>5. ProductInv' /\ CrashIsBents'
  BY <1>1 DEF IInv, ProductInv, CrashIsBents, Number
<1> QED
  BY <1>2, <1>3, <1>4, <1>5 DEF IInv

\* So does one that returns a divisor, which only pollard_bent may make negative.
LEMMA ReturnsStep ==
  ASSUME IInv, ended # "crash", todo # <<>>, Positive(todo),
         NEW d \in Int, Returns(d), Divides(d, Number), d > 0 \/ search.by = "bent"
  PROVE  IInv'
<1>1. PICK n \in Nat \ {0} : n = Number
  BY Waiting
<1>2. PICK t \in Seq(Int) : t = Tail(todo)
  BY Waiting
<1>3. PICK k \in Int : k = Quotient(n, d) /\ d * k = n /\ (d > 0 => k > 0)
  BY <1>1, QuotientIsExact
<1>4. PICK u \in Seq(Int) : u = <<k>> \o t
  BY Prefixed
<1>5. /\ todo' = <<d>> \o u /\ search' = [by |-> "none"] /\ by' = search.by
      /\ pq' = pq /\ result' = result /\ ended' = ended
  BY <1>1, <1>2, <1>3, <1>4, TwoPrefixed DEF Returns
<1>6. /\ todo' \in Seq(Int) /\ todo' # <<>> /\ Head(todo') = d
      /\ Elements(todo') = {d} \cup ({k} \cup Elements(t))
  BY <1>4, <1>5, Prefixed
<1>7. d # 0
  BY <1>1, DividesIsLess
<1>8. TypeInv'
  BY <1>5, <1>6 DEF IInv, TypeInv, Searches
<1>9. SearchInv' /\ FermaInv' /\ CrashIsBents'
  BY <1>5 DEF SearchInv, FermaInv, IsRest, CrashIsBents
<1>10. SignInv'
  <2>1. CASE d > 0
    <3>1. Positive(t)
      BY <1>2, Waiting
    <3>2. Positive(todo')
      BY <2>1, <3>1, <1>3, <1>6 DEF Positive
    <3> QED
      BY <3>2 DEF SignInv, Positive, Elements
  <2>2. CASE ~(d > 0)
    <3>1. d < 0 /\ by' = "bent" /\ search'.by = "none"
      BY <2>2, <1>5, <1>7
    <3> QED
      BY <3>1, <1>6 DEF SignInv, Number
  <2> QED
    BY <2>1, <2>2
<1>11. ProductInv'
  <2>1. PICK w \in Int : w = Product(t)
    BY <1>2, Waiting
  <2>2. Product(todo') = d * (k * w)
    BY <1>4, <1>5, <2>1, ProductOfPrefixed
  <2>3. Product(todo) = n * w
    BY <1>1, <1>2, <2>1, Waiting
  <2>4. d * (k * w) = (d * k) * w
    OBVIOUS
  <2>5. Product(todo') = Product(todo)
    BY <1>3, <2>2, <2>3, <2>4
  <2>6. Product(todo)' = Product(todo)
    BY <2>5 DEF Product
  <2>7. Product(result)' = Product(result)
    BY <1>5 DEF Product
  <2> QED
    BY <1>5, <2>6, <2>7 DEF IInv, ProductInv
<1> QED
  BY <1>8, <1>9, <1>10, <1>11 DEF IInv

LEMMA OneStep == ASSUME IInv, One PROVE IInv'
<1>1. PICK t \in Seq(Int) : t = Tail(todo)
  BY Waiting DEF One, Called
<1>2. /\ todo # <<>> /\ Number = 1 /\ search.by = "none" /\ todo' = t
      /\ pq' = pq /\ result' = result /\ search' = search /\ by' = by /\ ended' = ended
      /\ ended # "crash"
  BY <1>1 DEF One, Called
<1>3. Positive(t)
  BY <1>1, <1>2, Waiting
<1>4. TypeInv' /\ SearchInv' /\ FermaInv'
  BY <1>2 DEF IInv, TypeInv, SearchInv, FermaInv, IsRest
<1>5. SignInv' /\ CrashIsBents'
  BY <1>2, <1>3 DEF SignInv, Positive, CrashIsBents
<1>6. ProductInv'
  <2>1. PICK w \in Int : w = Product(t)
    BY <1>1, <1>2, Waiting
  <2>2. Product(todo) = Product(t)
    BY <1>1, <1>2, <2>1, Waiting
  <2> QED
    BY <1>2, <2>2 DEF IInv, ProductInv
<1> QED
  BY <1>4, <1>5, <1>6 DEF IInv

LEMMA PrimeStep == ASSUME IInv, Prime PROVE IInv'
<1>0. todo # <<>>
  BY DEF Prime, Called
<1>1. PICK t \in Seq(Int) : t = Tail(todo)
  BY <1>0, Waiting
<1>2. PICK n \in Int : n = Number
  BY <1>0, Waiting
<1>3. /\ IsPrime(n) /\ search.by = "none" /\ todo' = t
      /\ result' = Append(result, n)
      /\ pq' = pq /\ search' = search /\ by' = by /\ ended' = ended /\ ended # "crash"
  BY <1>1, <1>2 DEF Prime, Called
<1>4. Positive(t)
  BY <1>0, <1>1, <1>2, <1>3, SmallIsDecided, Waiting
<1>5. result \in Seq(Int) /\ Append(result, n) \in Seq(Int)
  BY Appended DEF IInv, TypeInv
<1>6. TypeInv' /\ SearchInv' /\ FermaInv'
  BY <1>3, <1>5 DEF IInv, TypeInv, SearchInv, FermaInv, IsRest
<1>7. SignInv' /\ CrashIsBents'
  BY <1>3, <1>4 DEF SignInv, Positive, CrashIsBents
<1>8. ProductInv'
  <2>1. PICK w \in Int : w = Product(t)
    BY <1>0, <1>1, Waiting
  <2>2. PICK v \in Int : v = Product(result)
    BY <1>0, Waiting
  <2>3. Product(todo) = n * w
    BY <1>0, <1>1, <1>2, <2>1, Waiting
  <2>4. Product(Append(result, n)) = v * n
    BY <1>5, <2>2, ProductOfAppended
  <2>5. (v * n) * w = v * (n * w)
    OBVIOUS
  <2> QED
    BY <1>3, <2>1, <2>2, <2>3, <2>4, <2>5 DEF IInv, ProductInv
<1> QED
  BY <1>6, <1>7, <1>8 DEF IInv

LEMMA DivideTriviallyStep == ASSUME FactorAssumption, IInv, DivideTrivially PROVE IInv'
<1>0. todo # <<>> /\ ended # "crash" /\ search.by = "none"
  BY DEF DivideTrivially, Called
<1>1. PICK t \in Seq(Int) : t = Tail(todo)
  BY <1>0, Waiting
<1>2. PICK n \in Int : n = Number
  BY <1>0, Waiting
<1>3. PICK m \in Nat : m = TrivialLimit
  BY DEF FactorAssumption
<1>4. PICK d \in Nat : d = PrimeDivTrivial(n, m) /\ Divisor(n, m)
  BY TrialDivision DEF Divisor
<1>5. /\ n # 1 /\ n < m * m
      /\ pq' = pq /\ search' = search /\ by' = by
      /\ IF d = 0 THEN ended' = "crash" /\ todo' = todo /\ result' = result
         ELSE result' = Append(result, d) /\ todo' = <<Rest(n, d)>> \o t /\ ended' = ended
  BY <1>1, <1>2, <1>3, <1>4 DEF DivideTrivially, Small
<1>6. CASE d = 0
  <2>1. n < 2
    <3>1. m * m \in Int
      OBVIOUS
    <3> QED
      BY <1>4, <1>5, <1>6, <3>1 DEF Divisor
  <2>2. ~Positive(todo)
    BY <1>0, <1>2, <1>5, <2>1, Waiting
  <2>3. by = "bent" /\ Number < 0
    BY <2>2 DEF IInv, SignInv
  <2>4. CrashIsBents'
    BY <1>5, <1>6, <2>3 DEF CrashIsBents, Number
  <2>5. TypeInv' /\ SearchInv' /\ FermaInv'
    BY <1>0, <1>5, <1>6 DEF IInv, TypeInv, SearchInv, FermaInv, IsRest
  <2>6. SignInv'
    BY <1>0, <1>5, <1>6, <2>3 DEF SignInv, Number
  <2>7. ProductInv'
    BY <1>5, <1>6 DEF IInv, ProductInv
  <2> QED
    BY <2>4, <2>5, <2>6, <2>7 DEF IInv
<1>7. CASE d # 0
  <2>1. n >= 2
    BY <1>4, <1>7 DEF Divisor
  <2>2. Divides(d, n)
    <3>1. CASE d = 1
      <4>1. n = n * d
        BY <3>1
      <4> QED
        BY <4>1 DEF Divides
    <3>2. CASE d # 1
      BY <1>4, <1>7, <3>2 DEF Divisor
    <3> QED
      BY <3>1, <3>2
  <2>3. PICK k \in Int : n = k * d
    BY <2>2 DEF Divides
  <2>4. Rest(n, d) = k
    <3>1. n \in Nat /\ d \in Nat \ {0}
      BY <1>7, <2>1
    <3> HIDE <2>3
    <3>2. n \div d = k
      BY <2>3, <3>1, Multiple
    <3> QED
      BY <3>2 DEF Rest
  <2>5. k > 0
    <3>1. SUFFICES ASSUME k <= 0 PROVE FALSE
      OBVIOUS
    <3>2. k * d <= 0
      BY <3>1
    <3> QED
      BY <2>1, <2>3, <3>2
  <2>6. Positive(t)
    BY <1>0, <1>1, <1>2, <2>1, Waiting
  <2>7. PICK u \in Seq(Int) : u = <<k>> \o t /\ Elements(u) = {k} \cup Elements(t)
    BY Prefixed
  <2>8. result \in Seq(Int) /\ Append(result, d) \in Seq(Int)
    BY Appended DEF IInv, TypeInv
  <2>9. todo' = u /\ result' = Append(result, d) /\ ended' = ended
    BY <1>5, <1>7, <2>4, <2>7
  <2>10. TypeInv' /\ SearchInv' /\ FermaInv'
    BY <1>0, <1>5, <2>8, <2>9 DEF IInv, TypeInv, SearchInv, FermaInv, IsRest
  <2>11. SignInv' /\ CrashIsBents'
    <3>1. Positive(u)
      BY <2>5, <2>6, <2>7 DEF Positive
    <3> QED
      BY <1>0, <2>9, <3>1 DEF SignInv, Positive, CrashIsBents
  <2>12. ProductInv'
    <3>1. PICK w \in Int : w = Product(t)
      BY <1>0, <1>1, Waiting
    <3>2. PICK v \in Int : v = Product(result)
      BY <1>0, Waiting
    <3>3. Product(todo) = n * w
      BY <1>0, <1>1, <1>2, <3>1, Waiting
    <3>4. Product(Append(result, d)) = v * d
      BY <2>8, <3>2, ProductOfAppended
    <3>5. Product(u) = k * w
      BY <2>7, <3>1, ProductOfPrefixed
    <3>6. (v * d) * (k * w) = v * ((k * d) * w)
      OBVIOUS
    <3> QED
      BY <1>5, <2>3, <2>9, <3>2, <3>3, <3>4, <3>5, <3>6 DEF IInv, ProductInv
  <2> QED
    BY <2>10, <2>11, <2>12 DEF IInv
<1> QED
  BY <1>6, <1>7

LEMMA SplitStep == ASSUME FactorAssumption, IInv, Split PROVE IInv'
<1>0. todo # <<>>
  BY DEF Split, Called
<1>1. PICK n \in Int : n = Number
  BY <1>0, Waiting
<1>2. PICK m \in Nat : m = TrivialLimit /\ m > 0
  BY DEF FactorAssumption
<1>3. n > 0
  <2>1. ~(n < m * m) /\ m * m > 0 /\ m * m \in Int
    BY <1>1, <1>2 DEF Split, Small
  <2> QED
    BY <2>1
<1>4. Positive(todo)
  BY <1>0, <1>1, <1>3, Waiting
<1>5. PICK rand \in Rands :
         search' = [by |-> "monte_carlo", b |-> (rand % 98) + 2, primes |-> Primes(100) \ {2}]
  BY DEF Split
<1>6. PICK b \in Int : b = (rand % 98) + 2
  BY DEF FactorAssumption
<1>7. PICK primes \in SUBSET Primes(100) : primes = Primes(100) \ {2}
  OBVIOUS
<1>8. PICK s \in Searches : s = [by |-> "monte_carlo", b |-> b, primes |-> primes]
  BY DEF Searches
<1>9. GoesOn(s)
  BY <1>5, <1>6, <1>7, <1>8 DEF Split, GoesOn
<1> QED
  BY <1>0, <1>4, <1>8, <1>9, GoesOnStep DEF IsRest

LEMMA FactoredStep == ASSUME IInv, Factored PROVE IInv'
  BY DEF Factored, IInv, TypeInv, SearchInv, FermaInv, IsRest, SignInv, Positive, ProductInv,
         CrashIsBents, Number

\* What a method finds with the gcd.
LEMMA Searched ==
  ASSUME IInv, search.by # "none"
  PROVE  Number \in Nat \ {0} /\ todo # <<>> /\ Positive(todo) /\ search \in Searches
  BY Waiting DEF IInv, SearchInv, TypeInv

LEMMA GcdWithPositive ==
  ASSUME NEW a \in Int, NEW n \in Nat \ {0}
  PROVE  /\ Gcd(a, n) \in Int /\ Divides(Gcd(a, n), n)
         /\ a >= 0 => Gcd(a, n) > 0
<1>1. Gcd(a, n) \in Int /\ Divides(Gcd(a, n), n) /\ (a >= 0 => Gcd(a, n) >= 0)
  BY GcdDivides DEF GoodGcd
<1>2. Gcd(a, n) # 0
  BY <1>1, DividesIsLess
<1> QED
  BY <1>1, <1>2

LEMMA AbsIsNat == ASSUME NEW n \in Int PROVE AbsOf(n) \in Nat
  BY DEF AbsOf

LEMMA ModIsNat == ASSUME NEW a \in Int, NEW n \in Nat \ {0} PROVE a % n \in Nat
  OBVIOUS

LEMMA MonteCarloStep == ASSUME IInv, MonteCarlo PROVE IInv'
<1>0. /\ search.by = "monte_carlo" /\ todo # <<>> /\ Positive(todo) /\ search \in Searches
      /\ search.primes # {} /\ ended # "crash"
  BY Searched DEF MonteCarlo, Searching
<1>1. PICK n \in Nat \ {0} : n = Number
  BY <1>0, Searched
<1>2. /\ search \in [by : {"monte_carlo"}, b : Int, primes : SUBSET Primes(100)]
  BY <1>0 DEF Searches
<1>3. PICK prime \in Nat : prime = Min(search.primes) /\ prime >= 2
  <2>1. PICK set \in SUBSET Primes(100) : set = search.primes /\ set # {}
    BY <1>0, <1>2
  <2>2. set \in SUBSET Nat /\ \A p \in set : p >= 2
    BY <2>1 DEF Primes
  <2>3. Min(set) \in set
    BY <2>1, <2>2, LeastOf
  <2> QED
    BY <2>1, <2>2, <2>3
<1>4. PICK k \in Nat : k = LargestPower(prime, n)
  BY <1>3, LargestIsNat
<1>5. PICK b \in Int : b = PowMod(search.b, k, n)
  BY <1>2, PowModIsInt
<1>6. PICK a \in Int : a = AbsOf(b - 1) /\ a >= 0
  BY AbsIsNat
<1>7. PICK g \in Int : g = Gcd(a, n) /\ g > 0 /\ Divides(g, n)
  BY <1>6, GcdWithPositive
<1>8. IF g \in {1, n}
        THEN GoesOn([search EXCEPT !.b = b, !.primes = search.primes \ {prime}])
        ELSE Returns(g)
  BY <1>1, <1>3, <1>4, <1>5, <1>6, <1>7 DEF MonteCarlo
<1>9. CASE g \in {1, n}
  <2>1. PICK primes \in SUBSET Primes(100) : primes = search.primes \ {prime}
    BY <1>2
  <2> DEFINE s == [search EXCEPT !.b = b, !.primes = primes]
  <2>2. s \in [by : {"monte_carlo"}, b : Int, primes : SUBSET Primes(100)]
    BY <1>2
  <2>3. GoesOn(s)
    BY <1>8, <1>9, <2>1
  <2> HIDE DEF s
  <2>4. s \in Searches /\ s.by = "monte_carlo"
    BY <2>2 DEF Searches
  <2> QED
    BY <1>0, <2>3, <2>4, GoesOnStep DEF IsRest
<1>10. CASE g \notin {1, n}
  BY <1>0, <1>1, <1>7, <1>8, <1>10, ReturnsStep
<1> QED
  BY <1>9, <1>10

LEMMA MonteCarloFailsStep == ASSUME FactorAssumption, IInv, MonteCarloFails PROVE IInv'
<1>0. search.by = "monte_carlo" /\ todo # <<>> /\ Positive(todo)
  BY Searched DEF MonteCarloFails, Searching
<1>1. PICK n \in Nat \ {0} : n = Number
  BY <1>0, Searched
<1>2. PICK rand \in Rands :
         LET b0 == rand % Number
         IN GoesOn([by |-> "rho", b0 |-> b0, b1 |-> (b0 * b0 + 1) % Number,
                    left |-> RhoIterations])
  BY DEF MonteCarloFails
<1>3. rand \in Int /\ RhoIterations \in Nat
  BY DEF FactorAssumption
<1>4. PICK b0 \in Int : b0 = rand % n
  BY <1>3, ModIsNat
<1>5. PICK c \in Int : c = b0 * b0 + 1
  OBVIOUS
<1>6. PICK b1 \in Int : b1 = c % n
  BY ModIsNat
<1>7. PICK s \in Searches : s = [by |-> "rho", b0 |-> b0, b1 |-> b1, left |-> RhoIterations]
  BY <1>3 DEF Searches
<1>8. GoesOn(s)
  BY <1>1, <1>2, <1>4, <1>5, <1>6, <1>7
<1> QED
  BY <1>0, <1>7, <1>8, GoesOnStep DEF IsRest

LEMMA RhoStep == ASSUME IInv, Rho PROVE IInv'
<1>0. /\ search.by = "rho" /\ todo # <<>> /\ Positive(todo) /\ search \in Searches
      /\ ended # "crash"
  BY Searched DEF Rho, Searching
<1>1. PICK n \in Nat \ {0} : n = Number
  BY <1>0, Searched
<1>2. search \in [by : {"rho"}, b0 : Int, b1 : Int, left : Nat]
  BY <1>0 DEF Searches
<1> DEFINE f(x) == (x * x + 1) % n
<1>3. ASSUME NEW x \in Int PROVE f(x) \in Int
  <2>1. PICK c \in Int : c = x * x + 1
    OBVIOUS
  <2> QED
    BY <2>1, ModIsNat
<1>4. PICK a \in Int : a = AbsOf(search.b1 - search.b0) /\ a >= 0
  <2>1. search.b1 - search.b0 \in Int
    BY <1>2
  <2> QED
    BY <2>1, AbsIsNat
<1>5. PICK g \in Int : g = Gcd(a, n) /\ g > 0 /\ Divides(g, n)
  BY <1>4, GcdWithPositive
<1>6. IF g \in {1, n} /\ search.left > 0
        THEN GoesOn([search EXCEPT !.b0 = f(search.b0), !.b1 = f(f(search.b1)),
                                   !.left = search.left - 1])
        ELSE IF g # 1 THEN Returns(g)
        ELSE GoesOn([by |-> "p_1", a |-> 5 % n])
  BY <1>1, <1>4, <1>5 DEF Rho, RhoGcd
<1>7. CASE g \in {1, n} /\ search.left > 0
  <2>1. PICK b0 \in Int : b0 = f(search.b0)
    BY <1>2, <1>3
  <2>2. PICK b1 \in Int : b1 = f(f(search.b1))
    <3>1. search.b1 \in Int
      BY <1>2
    <3> HIDE DEF f
    <3> QED
      BY <3>1, <1>3
  <2>3. PICK left \in Nat : left = search.left - 1
    BY <1>2, <1>7
  <2> HIDE DEF f
  <2> DEFINE s == [search EXCEPT !.b0 = b0, !.b1 = b1, !.left = left]
  <2>4. s \in [by : {"rho"}, b0 : Int, b1 : Int, left : Nat]
    BY <1>2
  <2>5. GoesOn(s)
    BY <1>6, <1>7, <2>1, <2>2, <2>3
  <2> HIDE DEF s
  <2>6. s \in Searches /\ s.by = "rho"
    BY <2>4 DEF Searches
  <2> QED
    BY <1>0, <2>5, <2>6, GoesOnStep DEF IsRest
<1>8. CASE ~(g \in {1, n} /\ search.left > 0) /\ g # 1
  BY <1>0, <1>1, <1>5, <1>6, <1>8, ReturnsStep
<1>9. CASE ~(g \in {1, n} /\ search.left > 0) /\ g = 1
  <2>1. PICK five \in Int : five = 5
    OBVIOUS
  <2>2. PICK b \in Int : b = five % n
    BY ModIsNat
  <2>3. PICK s \in Searches : s = [by |-> "p_1", a |-> b]
    BY DEF Searches
  <2>4. GoesOn(s)
    BY <1>6, <1>9, <2>1, <2>2, <2>3
  <2> QED
    BY <1>0, <2>3, <2>4, GoesOnStep DEF IsRest
<1> QED
  BY <1>7, <1>8, <1>9

LEMMA P1SeeksStep == ASSUME IInv, P1Seeks PROVE IInv'
<1>0. search.by = "p_1" /\ todo # <<>> /\ Positive(todo) /\ search \in Searches
  BY Searched DEF P1Seeks, Searching
<1>1. PICK n \in Nat \ {0} : n = Number
  BY <1>0, Searched
<1>2. search \in [by : {"p_1"}, a : Int]
  BY <1>0 DEF Searches
<1>3. PICK c \in Int : c = search.a * search.a + 3
  BY <1>2
<1>4. PICK a \in Int : a = c % n
  BY ModIsNat
<1> DEFINE s == [search EXCEPT !.a = a]
<1>5. s \in [by : {"p_1"}, a : Int]
  BY <1>2
<1>6. GoesOn(s)
  BY <1>1, <1>3, <1>4 DEF P1Seeks
<1> HIDE DEF s
<1>7. s \in Searches /\ s.by = "p_1"
  BY <1>5 DEF Searches
<1> QED
  BY <1>0, <1>6, <1>7, GoesOnStep DEF IsRest

LEMMA P1Step == ASSUME IInv, P1 PROVE IInv'
<1>0. /\ search.by = "p_1" /\ todo # <<>> /\ Positive(todo) /\ search \in Searches
      /\ ended # "crash"
  BY Searched DEF P1, Searching
<1>1. PICK n \in Nat \ {0} : n = Number
  BY <1>0, Searched
<1>2. search \in [by : {"p_1"}, a : Int]
  BY <1>0 DEF Searches
<1> DEFINE Power(q) == CASE q = 2 -> 8 [] q = 3 -> 9 [] OTHER -> q
           aa(q) == PowMod(search.a, Power(q) % n, n)
           found == {q \in {2, 3, 5, 7, 11, 13} :
                       aa(q) # 0 /\ Gcd(aa(q) - 1, n) \in 2..(n - 1)}
<1>3. IF found = {} THEN GoesOn([by |-> "bent"]) ELSE Returns(Gcd(aa(Min(found)) - 1, n))
  BY <1>1 DEF P1
<1>4. CASE found = {}
  <2> HIDE DEF found
  <2>1. PICK s \in Searches : s = [by |-> "bent"]
    BY DEF Searches
  <2>2. GoesOn(s)
    BY <1>3, <1>4, <2>1
  <2> QED
    BY <1>0, <2>1, <2>2, GoesOnStep DEF IsRest
<1>5. CASE found # {}
  <2>1. found \in SUBSET Nat
    OBVIOUS
  <2>2. Min(found) \in found
    <3> HIDE DEF found
    <3> QED
      BY <1>5, <2>1, LeastOf
  <2>3. PICK q \in found : q = Min(found)
    BY <2>2
  <2>4. q \in Nat /\ Gcd(aa(q) - 1, n) \in 2..(n - 1)
    OBVIOUS
  <2>5. PICK e \in Nat : e = Power(q) % n
    <3>1. Power(q) \in Int
      BY <2>4
    <3> HIDE DEF Power
    <3> QED
      BY <3>1, ModIsNat
  <2>6. PICK p \in Int : p = aa(q)
    BY <1>2, <2>5, PowModIsInt
  <2> HIDE DEF found, aa
  <2>7. PICK b \in Int : b = p - 1
    OBVIOUS
  <2>8. PICK g \in Int : g = Gcd(b, n) /\ Divides(g, n) /\ g > 0
    BY <2>4, <2>6, <2>7, GcdWithPositive
  <2>9. Returns(g)
    BY <1>3, <1>5, <2>3, <2>6, <2>7, <2>8
  <2> QED
    BY <1>0, <1>1, <2>8, <2>9, ReturnsStep
<1> QED
  BY <1>4, <1>5

LEMMA BentStep == ASSUME FactorAssumption, IInv, Bent PROVE IInv'
<1>0. search.by = "bent" /\ todo # <<>> /\ Positive(todo) /\ ended # "crash"
  BY Searched DEF Bent, Searching
<1>1. PICK n \in Nat \ {0} : n = Number
  BY <1>0, Searched
<1>2. PICK rand \in Rands :
         LET b0 == rand % n
             g  == Gcd(((b0 * b0 + 2) % n) - b0, n)
             x  == SqRoot(n)
         IN IF g \in {1, n}
              THEN GoesOn([by |-> "ferma", x |-> x, y |-> 0, r |-> x * x - n])
              ELSE Returns(g)
  BY <1>1 DEF Bent
<1>3. rand \in Int
  BY DEF FactorAssumption
<1>4. PICK b0 \in Int : b0 = rand % n
  BY <1>3, ModIsNat
<1>5. PICK c \in Int : c = b0 * b0 + 2
  OBVIOUS
<1>6. PICK d \in Int : d = c % n
  BY ModIsNat
<1>7. PICK e \in Int : e = d - b0
  OBVIOUS
<1>8. PICK g \in Int : g = Gcd(e, n) /\ Divides(g, n)
  BY GcdWithPositive
<1>9. PICK x \in Nat : x = SqRoot(n)
  <2>1. n \in Nat
    OBVIOUS
  <2> QED
    BY <2>1, RootIsNat
<1>10. IF g \in {1, n} THEN GoesOn([by |-> "ferma", x |-> x, y |-> 0, r |-> x * x - n])
       ELSE Returns(g)
  BY <1>2, <1>4, <1>5, <1>6, <1>7, <1>8, <1>9
<1>11. CASE g \in {1, n}
  <2>1. PICK y \in Nat : y = 0
    OBVIOUS
  <2>2. PICK r \in Int : r = x * x - n /\ r = x * x - y * y - n
    BY <2>1
  <2>3. PICK s \in Searches : s = [by |-> "ferma", x |-> x, y |-> y, r |-> r]
    BY DEF Searches
  <2>4. GoesOn(s)
    BY <1>10, <1>11, <2>1, <2>2, <2>3
  <2>5. IsRest(s, Number)
    BY <1>1, <2>2, <2>3 DEF IsRest
  <2> QED
    BY <1>0, <2>3, <2>4, <2>5, GoesOnStep
<1>12. CASE g \notin {1, n}
  BY <1>0, <1>1, <1>8, <1>10, <1>12, ReturnsStep
<1> QED
  BY <1>11, <1>12

LEMMA FermaMovesStep == ASSUME IInv, FermaMoves PROVE IInv'
<1>0. search.by = "ferma" /\ todo # <<>> /\ Positive(todo) /\ search \in Searches
  BY Searched DEF FermaMoves, Searching
<1>1. PICK n \in Nat \ {0} : n = Number
  BY <1>0, Searched
<1>2. search \in [by : {"ferma"}, x : Nat, y : Nat, r : Int]
  BY <1>0 DEF Searches
<1>3. PICK x \in Nat : x = search.x
  BY <1>2
<1>4. PICK y \in Nat : y = search.y
  BY <1>2
<1>5. PICK r \in Int : r = search.r /\ r = x * x - y * y - n
  BY <1>0, <1>1, <1>2, <1>3, <1>4 DEF IInv, FermaInv, IsRest
<1>6. IF r > 0 THEN GoesOn([search EXCEPT !.y = y + 1, !.r = r - 2 * y - 1])
               ELSE GoesOn([search EXCEPT !.x = x + 1, !.r = r + 2 * x + 1])
  BY <1>3, <1>4, <1>5 DEF FermaMoves
<1>7. CASE r > 0
  <2>1. PICK z \in Nat : z = y + 1
    OBVIOUS
  <2>2. PICK q \in Int : q = r - 2 * y - 1
    OBVIOUS
  <2>3. q = x * x - z * z - n
    <3>1. z * z = y * y + 2 * y + 1
      BY <2>1
    <3> QED
      BY <1>5, <2>2, <3>1
  <2> DEFINE s == [search EXCEPT !.y = z, !.r = q]
  <2>4. s \in [by : {"ferma"}, x : Nat, y : Nat, r : Int] /\ s.x = x /\ s.y = z /\ s.r = q
    BY <1>2, <1>3
  <2>5. GoesOn(s)
    BY <1>6, <1>7, <2>1, <2>2
  <2> HIDE DEF s
  <2>6. s \in Searches /\ IsRest(s, Number)
    BY <1>1, <2>3, <2>4 DEF Searches, IsRest
  <2> QED
    BY <1>0, <2>5, <2>6, GoesOnStep
<1>8. CASE ~(r > 0)
  <2>1. PICK z \in Nat : z = x + 1
    OBVIOUS
  <2>2. PICK q \in Int : q = r + 2 * x + 1
    OBVIOUS
  <2>3. q = z * z - y * y - n
    <3>1. z * z = x * x + 2 * x + 1
      BY <2>1
    <3> QED
      BY <1>5, <2>2, <3>1
  <2> DEFINE s == [search EXCEPT !.x = z, !.r = q]
  <2>4. s \in [by : {"ferma"}, x : Nat, y : Nat, r : Int] /\ s.x = z /\ s.y = y /\ s.r = q
    BY <1>2, <1>4
  <2>5. GoesOn(s)
    BY <1>6, <1>8, <2>1, <2>2
  <2> HIDE DEF s
  <2>6. s \in Searches /\ IsRest(s, Number)
    BY <1>1, <2>3, <2>4 DEF Searches, IsRest
  <2> QED
    BY <1>0, <2>5, <2>6, GoesOnStep
<1> QED
  BY <1>7, <1>8

\* x^2 - y^2 = n has (x - y)(x + y) = n.
LEMMA FermaStep == ASSUME IInv, Ferma PROVE IInv'
<1>0. /\ search.by = "ferma" /\ todo # <<>> /\ Positive(todo) /\ search \in Searches
      /\ ended # "crash"
  BY Searched DEF Ferma, Searching
<1>1. PICK n \in Nat \ {0} : n = Number
  BY <1>0, Searched
<1>2. search \in [by : {"ferma"}, x : Nat, y : Nat, r : Int]
  BY <1>0 DEF Searches
<1>3. PICK x \in Nat : x = search.x
  BY <1>2
<1>4. PICK y \in Nat : y = search.y
  BY <1>2
<1>5. x * x - y * y - n = 0
  BY <1>0, <1>1, <1>3, <1>4 DEF IInv, FermaInv, IsRest, Ferma
<1>6. n = (x + y) * (x - y) /\ x + y \in Nat
  <2>1. (x + y) * (x - y) = x * x - y * y
    OBVIOUS
  <2>2. x * x \in Int /\ y * y \in Int
    OBVIOUS
  <2> QED
    BY <1>5, <2>1, <2>2
<1>7. PICK d \in Int : d = x - y
  OBVIOUS
<1>8. d > 0
  <2>1. SUFFICES ASSUME d <= 0 PROVE FALSE
    OBVIOUS
  <2>2. PICK c \in Nat : c = x + y
    OBVIOUS
  <2>3. c * d <= 0
    BY <2>1
  <2> QED
    BY <1>6, <1>7, <2>2, <2>3
<1>9. Divides(d, n)
  BY <1>6, <1>7 DEF Divides
<1>10. Returns(d)
  BY <1>3, <1>4, <1>7, <1>8 DEF Ferma
<1> QED
  BY <1>0, <1>1, <1>8, <1>9, <1>10, ReturnsStep

LEMMA NextIInv == ASSUME FactorAssumption, IInv, [FactorNext]_factorVars PROVE IInv'
<1>1. ASSUME UNCHANGED factorVars PROVE IInv'
  BY <1>1 DEF IInv, TypeInv, SearchInv, FermaInv, SignInv, Positive, ProductInv, CrashIsBents,
              Number, factorVars
<1>2. CASE One
  BY <1>2, OneStep
<1>3. CASE Prime
  BY <1>3, PrimeStep
<1>4. CASE DivideTrivially
  BY <1>4, DivideTriviallyStep
<1>5. CASE Split
  BY <1>5, SplitStep
<1>6. CASE Factored
  BY <1>6, FactoredStep
<1>7. CASE MonteCarlo
  BY <1>7, MonteCarloStep
<1>8. CASE MonteCarloFails
  BY <1>8, MonteCarloFailsStep
<1>9. CASE Rho
  BY <1>9, RhoStep
<1>10. CASE P1Seeks
  BY <1>10, P1SeeksStep
<1>11. CASE P1
  BY <1>11, P1Step
<1>12. CASE Bent
  BY <1>12, BentStep
<1>13. CASE FermaMoves
  BY <1>13, FermaMovesStep
<1>14. CASE Ferma
  BY <1>14, FermaStep
<1>15. CASE FactorDone
  BY <1>1, <1>15 DEF FactorDone
<1> QED
  BY <1>1, <1>2, <1>3, <1>4, <1>5, <1>6, <1>7, <1>8, <1>9, <1>10, <1>11, <1>12, <1>13, <1>14,
     <1>15 DEF FactorNext

\* factor() returns when there is nothing left.
EndInv == ended = "yes" => todo = <<>>

LEMMA NextEndInv == ASSUME EndInv, [FactorNext]_factorVars PROVE EndInv'
<1>1. CASE One \/ Prime \/ DivideTrivially \/ Split
  BY <1>1 DEF EndInv, One, Prime, DivideTrivially, Split, Called
<1>2. CASE Factored
  BY <1>2 DEF EndInv, Factored
<1>3. ASSUME ended = "no", ended' = ended PROVE EndInv'
  BY <1>3 DEF EndInv
<1>4. CASE MonteCarlo \/ MonteCarloFails \/ Rho \/ P1Seeks \/ P1 \/ Bent \/ FermaMoves \/ Ferma
  <2>1. \A s : GoesOn(s) => ended' = ended
    BY DEF GoesOn
  <2>2. \A d : Returns(d) => ended' = ended
    BY DEF Returns
  <2> QED
    BY <1>3, <1>4, <2>1, <2>2
       DEF MonteCarlo, MonteCarloFails, Rho, P1Seeks, P1, Bent, FermaMoves, Ferma, Searching
<1>5. CASE FactorDone \/ UNCHANGED factorVars
  BY <1>5 DEF EndInv, FactorDone, factorVars
<1> QED
  BY <1>1, <1>2, <1>4, <1>5 DEF FactorNext

-----------------------------------------------------------------------------
(* What is found is prime.                                                 *)

LEMMA NextFoundArePrime ==
  ASSUME FactorAssumption, TestsDecide, IInv, FoundArePrime, [FactorNext]_factorVars
  PROVE  FoundArePrime'
<1>1. ASSUME result' = result, ended' \in {ended, "yes"}, ended = "no" \/ ended' = ended
      PROVE  FoundArePrime'
  BY <1>1 DEF FoundArePrime, Found
<1>2. ASSUME NEW p \in Int, PrimeNumber(p), result' = Append(result, p), ended = "no"
      PROVE  FoundArePrime'
  <2>1. result \in Seq(Int) /\ Elements(Append(result, p)) = Elements(result) \cup {p}
    BY Appended DEF IInv, TypeInv
  <2>2. Found = Elements(result) /\ Found' = Elements(Append(result, p))
    BY <1>2 DEF Found, Elements
  <2> QED
    BY <1>2, <2>1, <2>2 DEF FoundArePrime
<1>3. ASSUME todo # <<>>, NEW n \in Int, n = Number, IsPrime(n) \/ PrimeNumber(n)
      PROVE  IsPrime(n) /\ PrimeNumber(n)
  <2>1. n >= 2
    BY <1>3, SmallIsDecided DEF PrimeNumber
  <2>2. CASE n < 29 * 29
    BY <1>3, <2>2, SmallIsDecided
  <2>3. CASE n >= 29 * 29
    <3>1. pq \in Nat \ {0} /\ pq \in Nat /\ pq \in Inputs /\ Divides(n, pq)
      BY <1>3, NumberDivides DEF IInv, TypeInv
    <3>2. n <= pq
      BY <3>1, DividesIsLess
    <3>3. n \in Nat \ {0}
      BY <2>1
    <3>4. pq % n = 0
      BY <3>1, <3>3, Multiple DEF Divides
    <3>5. n \in (29 * 29)..pq
      BY <2>3, <3>1, <3>2
    <3>6. IsPrime(n) <=> PrimeNumber(n)
      BY <3>1, <3>4, <3>5 DEF TestsDecide
    <3> QED
      BY <1>3, <3>6
  <2> QED
    BY <2>2, <2>3
<1>4. CASE Prime
  <2>1. todo # <<>> /\ ended = "no"
    BY <1>4 DEF Prime, Called
  <2>2. PICK n \in Int : n = Number
    BY <2>1, Waiting
  <2>3. IsPrime(n) /\ result' = Append(result, n)
    BY <1>4, <2>2 DEF Prime
  <2>4. PrimeNumber(n)
    BY <1>3, <2>1, <2>2, <2>3
  <2> QED
    BY <1>2, <2>1, <2>3, <2>4
<1>5. CASE DivideTrivially
  <2>1. todo # <<>> /\ ended = "no"
    BY <1>5 DEF DivideTrivially, Called
  <2>2. PICK n \in Int : n = Number
    BY <2>1, Waiting
  <2>3. PICK m \in Nat : m = TrivialLimit
    BY DEF FactorAssumption
  <2>4. PICK d \in Nat : d = PrimeDivTrivial(n, m) /\ Divisor(n, m)
    BY TrialDivision DEF Divisor
  <2>5. ~IsPrime(n) /\ IF d = 0 THEN ended' = "crash" ELSE result' = Append(result, d)
    BY <1>5, <2>2, <2>3, <2>4 DEF DivideTrivially
  <2>6. CASE d = 0
    BY <2>5, <2>6 DEF FoundArePrime
  <2>7. CASE d = 1
    BY <1>3, <2>1, <2>2, <2>4, <2>5, <2>7 DEF Divisor
  <2>8. CASE d > 1
    <3>1. d \in Int /\ PrimeNumber(d) /\ result' = Append(result, d)
      BY <2>4, <2>5, <2>8 DEF Divisor
    <3> QED
      BY <1>2, <2>1, <3>1
  <2> QED
    BY <2>4, <2>6, <2>7, <2>8
<1>6. CASE One \/ Split \/ MonteCarlo \/ MonteCarloFails \/ Rho \/ P1Seeks \/ P1 \/ Bent
           \/ FermaMoves \/ Ferma \/ FactorDone \/ UNCHANGED factorVars
  <2>1. \A s : GoesOn(s) => result' = result /\ ended' = ended
    BY DEF GoesOn
  <2>2. \A d : Returns(d) => result' = result /\ ended' = ended
    BY DEF Returns
  <2>3. result' = result /\ ended' = ended
    BY <1>6, <2>1, <2>2
       DEF One, Split, MonteCarlo, MonteCarloFails, Rho, P1Seeks, P1, Bent, FermaMoves, Ferma,
           FactorDone, factorVars
  <2> QED
    BY <1>1, <2>3
<1>7. CASE Factored
  BY <1>1, <1>7 DEF Factored
<1> QED
  BY <1>4, <1>5, <1>6, <1>7 DEF FactorNext

LEMMA InitFoundArePrime == ASSUME FactorInit PROVE FoundArePrime
<1>1. DOMAIN result = {}
  BY DEF FactorInit
<1> QED
  BY <1>1 DEF FoundArePrime, Found

-----------------------------------------------------------------------------
(* Theorems.                                                               *)

LEMMA FactorInvariance == ASSUME FactorAssumption PROVE FactorSpec => []IInv
<1>1. FactorInit => IInv
  BY InitIInv
<1>2. IInv /\ [FactorNext]_factorVars => IInv'
  BY NextIInv
<1> QED
  BY <1>1, <1>2, PTL DEF FactorSpec

\* The factors that factorize() has found and the numbers it still has to split
\* multiply to pq, whichever method finds a divisor, and where a divisor is negative.
THEOREM FactorKeepsTheProduct ==
  ASSUME FactorAssumption
  PROVE  FactorSpec => []ProductIsKept
<1>1. IInv => ProductIsKept
  BY DEF IInv, ProductInv, ProductIsKept
<1> QED
  BY <1>1, FactorInvariance, PTL

\* When factor() returns, the product of the factors is pq.
THEOREM FactorResultIsComplete ==
  ASSUME FactorAssumption
  PROVE  FactorSpec => [](ended = "yes" => Product(result) = pq)
<1>1. FactorInit => EndInv
  BY DEF FactorInit, EndInv
<1>2. EndInv /\ [FactorNext]_factorVars => EndInv'
  BY NextEndInv
<1>3. IInv /\ EndInv => (ended = "yes" => Product(result) = pq)
  <2> SUFFICES ASSUME IInv, EndInv, ended = "yes" PROVE Product(result) = pq
    OBVIOUS
  <2>1. PICK v \in Int : v = Product(result)
    BY ProductIsInt DEF IInv, TypeInv
  <2>2. Product(todo) = 1
    BY ProductOfNone DEF EndInv
  <2> QED
    BY <2>1, <2>2 DEF IInv, ProductInv
<1> QED
  BY <1>1, <1>2, <1>3, FactorInvariance, PTL DEF FactorSpec

\* factorize() divides by zero (n / div) only after pollard_bent, whose numbers it does
\* not bring to the right order, returned a negative divisor.
THEOREM FactorCrashesAfterBent ==
  ASSUME FactorAssumption
  PROVE  FactorSpec => []CrashIsBents
<1>1. IInv => CrashIsBents
  BY DEF IInv
<1> QED
  BY <1>1, FactorInvariance, PTL

\* Every factor that factorize() keeps is prime, if isprime() is right about the divisors
\* of pq that are at least 29 * 29: below, trial division decides, and the
\* divisors it takes out itself are the least ones.
THEOREM FactorFindsPrimes ==
  ASSUME FactorAssumption, TestsDecide
  PROVE  FactorSpec => []FoundArePrime
<1>1. FactorInit => FoundArePrime
  BY InitFoundArePrime
<1>2. IInv /\ FoundArePrime /\ [FactorNext]_factorVars => FoundArePrime'
  BY NextFoundArePrime
<1> QED
  BY <1>1, <1>2, FactorInvariance, PTL DEF FactorSpec
=============================================================================
