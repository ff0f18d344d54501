------------------------------- MODULE Factor -------------------------------
(***************************************************************************)
(* The factorization of pq in the handshake (mtx/src/fact.cpp).            *)
(*                                                                         *)
(* factorize() splits a number until what is left is taken for prime:      *)
(* small numbers by trial division, the others by Pollard's and Fermat's   *)
(* methods in turn, the next one when the one before finds nothing (1).    *)
(* A turn of a loop that looks for a divisor is a step.  Random numbers    *)
(* are a choice.  The calls that are still to be made are a stack;         *)
(* negative numbers occur, and % and gcd treat them as C does.             *)
(***************************************************************************)
EXTENDS Integers, Sequences, FiniteSetsExt

CONSTANTS
    Inputs,        \* the numbers to factorize
    Rands,         \* what rand() may return
    TrivialLimit,  \* 1000: numbers below its square are divided by trial
    RhoIterations, \* 100000: the steps of pollard_rho
    Depth          \* bound: the calls that wait, where the code has its stack

FactorAssumption ==
    /\ Inputs \subseteq Nat \ {0}
    /\ Rands \subseteq Nat /\ Rands # {}
    /\ TrivialLimit \in Nat \ {0}
    /\ {RhoIterations, Depth} \subseteq Nat

VARIABLES
    pq,     \* the number that factor() was given
    todo,   \* the numbers that factorize() is still to be called with
    result, \* the factors that were found, with repetitions
    search, \* the method that looks for a divisor, and the variables of its loop
    by,     \* the method that found the last divisor
    ended   \* "no", "yes", or "crash": a division by zero

factorVars == <<pq, todo, result, search, by, ended>>

---------------------------------------------------------------------------
(* Arithmetic.                                                             *)

AbsOf(n) == IF n < 0 THEN -n ELSE n
Even(n) == n % 2 = 0

\* The remainder of C has the sign of the dividend.
Rem(a, b) == IF a < 0 THEN -(AbsOf(a) % AbsOf(b)) ELSE a % AbsOf(b)

Quotient(a, b) == IF b < 0 THEN -(a \div (-b)) ELSE a \div b

MulMod(a, b, n) ==
    LET r == (AbsOf(a) * AbsOf(b)) % n
    IN IF (a < 0) # (b < 0) THEN -r ELSE r

powmod[s \in [res : Int, a : Int, k : Nat, n : Nat \ {0}]] ==
    IF s.k = 0 THEN s.res
    ELSE powmod[IF Even(s.k)
                  THEN [s EXCEPT !.a = MulMod(s.a, s.a, s.n), !.k = s.k \div 2]
                  ELSE [s EXCEPT !.res = MulMod(s.res, s.a, s.n), !.k = s.k - 1]]
PowMod(a, k, n) == powmod[[res |-> 1, a |-> a, k |-> k, n |-> n]]

gcd[s \in Int \X Int] == IF s[1] = 0 THEN s[2] ELSE gcd[<<Rem(s[2], s[1]), s[1]>>]
Gcd(a, b) == gcd[<<a, b>>]

\* transform_num: n = 2^p * q, q odd
Twos(n) == CHOOSE p \in 0..n : n % 2^p = 0 /\ ~Even(n \div 2^p)
Odd(n) == n \div 2^Twos(n)

jacobi[s \in Int \X Int] ==
    LET a  == s[1]
        b  == s[2]
        e1 == IF Even(Twos(a)) \/ b % 8 \in {1, 7} THEN 1 ELSE -1
        e  == IF b % 4 = 3 /\ Odd(a) % 4 = 3 THEN -e1 ELSE e1
    IN IF a \in {0, 1} THEN a
       ELSE IF a < 0 THEN (IF b % 4 < 2 THEN 1 ELSE -1) * jacobi[<<-a, b>>]
       ELSE IF Odd(a) = 1 THEN e ELSE e * jacobi[<<b % Odd(a), Odd(a)>>]
Jacobi(a, b) == jacobi[<<a, b>>]

SqRoot(n) == CHOOSE x \in 0..n : x * x <= n /\ (x + 1) * (x + 1) > n
PerfectSquare(n) == SqRoot(n) * SqRoot(n) = n

\* get_primes, in ascending order
Primes(b) == {n \in 2..b : \A d \in 2..(n - 1) : d * d > n \/ n % d # 0}

---------------------------------------------------------------------------
(* Tests for primes.                                                       *)

PrimeDivTrivialBelowRoot(n, m) ==
    LET divisors == {d \in Primes(m) : d * d < n /\ Rem(n, d) = 0}
    IN IF n \in {2, 3} THEN 1
       ELSE IF n < 2 THEN 0
       ELSE IF Even(n) THEN 2
       ELSE IF divisors # {} THEN Min(divisors)
       ELSE IF n < m * m THEN 1 ELSE 0

\* The least divisor up to m, 1 for a prime, 0 if that is not known.
PrimeDivTrivial(n, m) ==
    LET divisors == {d \in Primes(m) : d * d <= n /\ Rem(n, d) = 0}
    IN IF n \in {2, 3} THEN 1
       ELSE IF n < 2 THEN 0
       ELSE IF Even(n) THEN 2
       ELSE IF divisors # {} THEN Min(divisors)
       ELSE IF n < m * m THEN 1 ELSE 0

\* with base 2, which is the only one used
MillerRabin(n) ==
    /\ n >= 2 /\ ~Even(n)
    /\ LET start == PowMod(2, Odd(n - 1), n)
       IN \/ start = 1
          \/ \E i \in 0..(Twos(n - 1) - 1) : PowMod(start, 2^i, n) = n - 1

Bit(n, k) == (n \div 2^k) % 2 = 1
BitsInNumber(n) == CHOOSE k \in 1..(n + 1) : 2^k > n /\ (k > 1 => 2^(k - 1) <= n)
Halve(x, n) == Rem((IF Even(x) THEN x ELSE x + n) \div 2, n)

\* x, with n added until it is not below low
RaiseTo(x, low, n) == IF x < low THEN x + n * ((low - x + n - 1) \div n) ELSE x

\* Selfridge's choice: 5, -7, 9, ... up to the first with Jacobi symbol -1, or
\* 0 when a divisor of n comes up before.
Selfridge(n) ==
    LET D(i)  == IF Even(i) THEN 5 + 2 * i ELSE -(5 + 2 * i)
        Divides(i) == Gcd(n, AbsOf(D(i))) \in 2..(n - 1)
        Ends(i) == Divides(i) \/ Jacobi(D(i), n) = -1
        last  == CHOOSE i \in 0..n : Ends(i) /\ \A j \in 0..(i - 1) : ~Ends(j)
    IN IF Divides(last) THEN 0 ELSE D(last)

\* One bit of the exponent: U and V of Lucas, and powers of q, are doubled and,
\* for a bit that is set, added.
LucasBit(n, dd, d, s, bit) ==
    LET u2m == MulMod(s.u2m, s.v2m, n)
        v2m == RaiseTo(MulMod(s.v2m, s.v2m, n), s.qm2, n) - s.qm2
        qm  == MulMod(s.qm, s.qm, n)
        u   == MulMod(u2m, s.v, n) + MulMod(v2m, s.u, n)
        v   == MulMod(v2m, s.v, n) + MulMod(MulMod(u2m, s.u, n), dd, n)
        up  == [s EXCEPT !.u2m = u2m, !.v2m = v2m, !.qm = qm, !.qm2 = 2 * qm]
    IN IF ~Bit(d, bit) THEN up
       ELSE [up EXCEPT !.u = Halve(u, n), !.v = Halve(v, n),
                       !.qkd = MulMod(s.qkd, qm, n)]

\* v - 2 * q^(d 2^r), brought back to 0..n-1
LucasSquare(n, s) ==
    LET w == MulMod(s.v, s.v, n) - 2 * s.qkd
        a == IF w < 0 THEN w + n ELSE w
        b == IF a < 0 THEN a + n ELSE a
        c == IF b >= n THEN b - n ELSE b
    IN [s EXCEPT !.v = IF c >= n THEN c - n ELSE c,
                 !.qkd = MulMod(@, @, n)]

LucasSquares(n, s, last) ==
    LET after[r \in 0..last] == IF r = 0 THEN s ELSE LucasSquare(n, after[r - 1])
    IN \E r \in 1..last : after[r].v = 0

LucasSelfridge(n) ==
    /\ n >= 2 /\ ~Even(n) /\ ~PerfectSquare(n)
    /\ LET dd == Selfridge(n)
           q  == (1 - dd) \div 4
           d  == Odd(n + 1)
           s0 == [u |-> 1, v |-> 1, u2m |-> 1, v2m |-> 1, qm |-> q, qm2 |-> 2 * q,
                  qkd |-> q]
           s  == MapThenFoldSet(LAMBDA bit, acc : LucasBit(n, dd, d, acc, bit), s0,
                     LAMBDA bit : bit, Max, 1..(BitsInNumber(d) - 1))
       IN dd # 0 /\ (s.u = 0 \/ s.v = 0 \/ LucasSquares(n, s, Twos(n + 1) - 1))

\* baillie_pomerance_selfridge_wagstaff
IsPrime(n) ==
    LET div == PrimeDivTrivial(n, 29)
    IN div = 1 \/ (div = 0 /\ (n = 2 \/ MillerRabin(n)) /\ LucasSelfridge(n))

---------------------------------------------------------------------------
(* The calls of factorize.                                                 *)

FactorInit ==
    /\ pq \in Inputs
    /\ todo = <<pq>>
    /\ result = <<>>
    /\ search = [by |-> "none"]
    /\ by = "none"
    /\ ended = "no"

Number == Head(todo)
Small == Number < TrivialLimit * TrivialLimit

\* factorize has been called with a number.
Called == ended = "no" /\ todo # <<>> /\ search.by = "none"

One ==
    /\ Called /\ Number = 1
    /\ todo' = Tail(todo)
    /\ UNCHANGED <<pq, result, search, by, ended>>

Prime ==
    /\ Called /\ Number # 1 /\ IsPrime(Number)
    /\ result' = Append(result, Number)
    /\ todo' = Tail(todo)
    /\ UNCHANGED <<pq, search, by, ended>>

\* What is left of a number, its divisor taken out once, or twice.
RestWithout(n, div) == IF n % (div * div) = 0 THEN n \div (div * div) ELSE n \div div
Rest(n, div) == n \div div

\* n / div with div = 0 ends the process.
DivideTrivially ==
    /\ Called /\ Number # 1 /\ ~IsPrime(Number) /\ Small
    /\ LET div == PrimeDivTrivial(Number, TrivialLimit)
       IN IF div = 0
            THEN ended' = "crash" /\ UNCHANGED <<todo, result>>
            ELSE /\ result' = Append(result, div)
                 /\ todo' = <<Rest(Number, div)>> \o Tail(todo)
                 /\ UNCHANGED ended
    /\ UNCHANGED <<pq, search, by>>

Split ==
    /\ Called /\ Number # 1 /\ ~IsPrime(Number) /\ ~Small
    /\ Len(todo) < Depth
    /\ \E rand \in Rands :
          search' = [by |-> "monte_carlo", b |-> (rand % 98) + 2, primes |-> Primes(100) \ {2}]
    /\ UNCHANGED <<pq, todo, result, by, ended>>

\* factor() returns the two smallest keys of the map.
Factored ==
    /\ ended = "no" /\ todo = <<>>
    /\ ended' = "yes"
    /\ UNCHANGED <<pq, todo, result, search, by>>

---------------------------------------------------------------------------
(* Methods that look for a divisor.                                        *)

Searching(method) == ended = "no" /\ search.by = method

\* The method goes on, or the next one begins.
GoesOn(s) == search' = s /\ UNCHANGED <<pq, todo, result, by, ended>>

\* The method returns a divisor: it and the quotient are to be factorized.
Returns(div) ==
    /\ todo' = <<div, Quotient(Number, div)>> \o Tail(todo)
    /\ search' = [by |-> "none"]
    /\ by' = search.by
    /\ UNCHANGED <<pq, result, ended>>

\* Powers of small primes up to n: b^cur - 1 shares a divisor with n.
largest[s \in [cur : Nat, prime : Nat, n : Nat]] ==
    IF s.cur * s.prime <= s.n THEN largest[[s EXCEPT !.cur = s.cur * s.prime]] ELSE s.cur
LargestPower(prime, n) == largest[[cur |-> 1, prime |-> prime, n |-> n]]

MonteCarlo ==
    /\ Searching("monte_carlo") /\ search.primes # {}
    /\ LET prime == Min(search.primes)
           b     == PowMod(search.b, LargestPower(prime, Number), Number)
           g     == Gcd(AbsOf(b - 1), Number)
       IN IF g \in {1, Number}
            THEN GoesOn([search EXCEPT !.b = b, !.primes = search.primes \ {prime}])
            ELSE Returns(g)

MonteCarloFails ==
    /\ Searching("monte_carlo") /\ search.primes = {}
    /\ \E rand \in Rands :
          LET b0 == rand % Number
          IN GoesOn([by |-> "rho", b0 |-> b0, b1 |-> (b0 * b0 + 1) % Number,
                     left |-> RhoIterations])

RhoGcdSigned(b1, b0, n) == Gcd(b1 - b0, n)
RhoGcd(b1, b0, n) == Gcd(AbsOf(b1 - b0), n)

\* What is returned after the last iteration may be 1 or the number itself.
Rho ==
    /\ Searching("rho")
    /\ LET f(x) == (x * x + 1) % Number
           g    == RhoGcd(search.b1, search.b0, Number)
       IN IF g \in {1, Number} /\ search.left > 0
            THEN GoesOn([search EXCEPT !.b0 = f(search.b0), !.b1 = f(f(search.b1)),
                                       !.left = search.left - 1])
            ELSE IF g # 1 THEN Returns(g)
            ELSE GoesOn([by |-> "p_1", a |-> 5 % Number])

\* A number that has no divisor in common with n is looked for.
P1Seeks ==
    /\ Searching("p_1") /\ Gcd(search.a, Number) # 1
    /\ GoesOn([search EXCEPT !.a = (search.a * search.a + 3) % Number])

\* The ten rounds are the same, for a does not change any more.
P1 ==
    /\ Searching("p_1") /\ Gcd(search.a, Number) = 1
    /\ LET Power(q) == CASE q = 2 -> 8 [] q = 3 -> 9 [] OTHER -> q
           aa(q) == PowMod(search.a, Power(q) % Number, Number)
           found == {q \in {2, 3, 5, 7, 11, 13} :
                       aa(q) # 0 /\ Gcd(aa(q) - 1, Number) \in 2..(Number - 1)}
       IN IF found = {} THEN GoesOn([by |-> "bent"])
                        ELSE Returns(Gcd(aa(Min(found)) - 1, Number))

\* The inner loop asks for g == 1 && g == n and never runs: from the second
\* round on, the numbers compared are equal.  The first difference may be
\* negative, and then so is its gcd with n.
Bent ==
    /\ Searching("bent")
    /\ \E rand \in Rands :
          LET b0 == rand % Number
              g  == Gcd(((b0 * b0 + 2) % Number) - b0, Number)
              x  == SqRoot(Number)
          IN IF g \in {1, Number}
               THEN GoesOn([by |-> "ferma", x |-> x, y |-> 0, r |-> x * x - Number])
               ELSE Returns(g)

FermaMoves ==
    /\ Searching("ferma") /\ search.r # 0
    /\ IF search.r > 0
         THEN GoesOn([search EXCEPT !.y = search.y + 1, !.r = search.r - 2 * search.y - 1])
         ELSE GoesOn([search EXCEPT !.x = search.x + 1, !.r = search.r + 2 * search.x + 1])

Ferma ==
    /\ Searching("ferma") /\ search.r = 0
    /\ Returns(IF search.x # search.y THEN search.x - search.y ELSE search.x + search.y)

---------------------------------------------------------------------------
FactorDone == (ended # "no" \/ Len(todo) >= Depth) /\ UNCHANGED factorVars

FactorNext ==
    \/ One \/ Prime \/ DivideTrivially \/ Split \/ Factored
    \/ MonteCarlo \/ MonteCarloFails \/ Rho \/ P1Seeks \/ P1 \/ Bent \/ FermaMoves \/ Ferma
    \/ FactorDone

FactorSpec == FactorInit /\ [][FactorNext]_factorVars

Found == {result[i] : i \in DOMAIN result}

\* The product of a sequence, times s[1].
product[s \in Int \X Seq(Int)] ==
    IF s[2] = <<>> THEN s[1] ELSE product[<<s[1] * Head(s[2]), Tail(s[2])>>]
Product(s) == product[<<1, s>>]

PrimeNumber(n) == n > 1 /\ \A d \in 2..(n - 1) : n % d # 0

---------------------------------------------------------------------------
\* No factor of pq is lost or made up (factorize): the factors found and the
\* numbers left multiply to pq.
ProductIsKept == ended # "crash" => Product(result) * Product(todo) = pq

\* What is taken for prime is prime (isprime, prime_div_trivial), by definition:
\* the tests that decide it (trial division, Miller-Rabin, Lucas) never err on
\* these numbers, and the trial divisor of a small number is its least one.
FoundArePrime == ended # "crash" => \A p \in Found : PrimeNumber(p)

\* The one way to divide by zero is a negative difference in pollard_bent.
CrashIsBents == ended = "crash" => by = "bent" /\ Number < 0

\* Miller-Rabin and Lucas together tell the primes among the divisors of the
\* inputs that trial division leaves open: what FoundArePrime takes for granted.
TestsDecide ==
    \A input \in Inputs : \A n \in (29 * 29)..input :
        input % n = 0 => (IsPrime(n) <=> PrimeNumber(n))
=============================================================================
