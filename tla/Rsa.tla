-------------------------------- MODULE Rsa ---------------------------------
(***************************************************************************)
(* Key generation and modular powers of the two RSA handlers, the relays'   *)
(* and clients' (ServerProject/RSAHandler.cpp, signed words) and the        *)
(* mapping server's (MappingServer/src/RSAHandler.kt, unsigned words).      *)
(* A loop of the source is a recursive function of its variables.           *)
(***************************************************************************)
EXTENDS Integers

CONSTANTS
    Word,      \* bits of int64_t and ULong; p * q is computed in half a word
    KeySize,   \* RSAHandler.kt's keySize
    RandMax,   \* the largest number rand() + 1 can be
    Codes,     \* codes of the characters that messages are made of
    ServerDraws, PeerDraws  \* bound: the pairs of primes that are drawn

\* What a product is cut to: ULong, and int64_t as the build wraps it, with the
\* remainder of C++, which takes the sign of the dividend.
Unsigned(x) == x % 2^Word
SignedHalf(x) == ((x + 2^(Word \div 2 - 1)) % 2^(Word \div 2)) - 2^(Word \div 2 - 1)
Signed(x) == ((x + 2^(Word - 1)) % 2^Word) - 2^(Word - 1)
Remainder(a, n) == IF a >= 0 THEN a % n ELSE -((-a) % n)

IsPrime(n) == n > 1 /\ \A i \in 2 .. n - 1 : i * i <= n => n % i # 0
\* RSAHandler.kt's isPrime tries one divisor more, which 2 does not survive.
KotlinIsPrime(n) == n > 1 /\ \A i \in 2 .. n : (i - 1) * (i - 1) <= n => n % i # 0
KotlinPrimes == {n \in (KeySize \div 2) .. KeySize : KotlinIsPrime(n)}
CppPrimes == {n \in 1 .. RandMax : IsPrime(n)}

Gcd[p \in Nat \X Nat] == IF p[2] = 0 THEN p[1] ELSE Gcd[<<p[2], p[1] % p[2]>>]

\* totient: n without its factors i, and the loop over i.
Without[x \in (Nat \ {0}) \X (Nat \ {0, 1})] ==
    IF x[1] % x[2] = 0 THEN Without[<<x[1] \div x[2], x[2]>>] ELSE x[1]
TotientStates == [n : Nat, i : Nat \ {0, 1}, result : Nat]
TotientRound(s) ==
    IF s.n % s.i = 0
    THEN [n |-> Without[<<s.n, s.i>>], i |-> s.i + 1, result |-> s.result - s.result \div s.i]
    ELSE [s EXCEPT !.i = @ + 1]
TotientLoop[s \in TotientStates] ==
    IF s.i * s.i <= s.n THEN TotientLoop[TotientRound(s)]
    ELSE IF s.n > 1 THEN s.result - s.result \div s.n ELSE s.result
Totient(n) == TotientLoop[[n |-> n, i |-> 2, result |-> n]]

\* generate_e: the candidates; it takes the least and throws when there is none.
Exponents(t) == {e \in 2 .. t - 1 : Gcd[<<e, t>>] = 1}
GenerateE(t) == CHOOSE e \in Exponents(t) : \A f \in Exponents(t) : e <= f

\* calculateD searches for k; calculate_d runs the extended Euclidean algorithm.
CalculateD(e, t) ==
    LET Ks == {k \in 1 .. e : (k * t + 1) % e = 0}
        k  == CHOOSE k \in Ks : \A j \in Ks : k <= j
    IN (k * t + 1) \div e
EuclidStates == {s \in [a : Nat, m : Nat, x : Int, y : Int] : Gcd[<<s.a, s.m>>] = 1}
EuclidRound(s) ==
    [a |-> s.m, m |-> s.a % s.m, x |-> s.y, y |-> s.x - (s.a \div s.m) * s.y]
Euclid[s \in EuclidStates] == IF s.a <= 1 THEN s.x ELSE Euclid[EuclidRound(s)]
ModInverse(a, m) ==
    LET x == Euclid[[a |-> a, m |-> m, x |-> 1, y |-> 0]] IN IF x < 0 THEN x + m ELSE x

\* modPow and mod_pow: square and multiply.
KotlinTimes(a, b, n) == Unsigned(a * b) % n
CppTimes(a, b, n) == Remainder(Signed(a * b), n)
Round(s, square, product) ==
    [s EXCEPT !.base = square, !.exp = @ \div 2,
              !.result = IF s.exp % 2 = 1 THEN product ELSE @]
KotlinRound(s) == Round(s, KotlinTimes(s.base, s.base, s.modulus),
                           KotlinTimes(s.result, s.base, s.modulus))
CppRound(s) == Round(s, CppTimes(s.base, s.base, s.modulus),
                        CppTimes(s.result, s.base, s.modulus))

\* The variables of the loop, in the words of each program.
PowStates(W) == [base : W, exp : Nat, result : W, modulus : Nat \ {0}]
Start(b, e, n) == [base |-> b, exp |-> e, result |-> 1, modulus |-> n]
KotlinLoop[s \in PowStates(Nat)] == IF s.exp = 0 THEN s.result ELSE KotlinLoop[KotlinRound(s)]
CppLoop[s \in PowStates(Int)] == IF s.exp = 0 THEN s.result ELSE CppLoop[CppRound(s)]
KotlinPow(base, exp, n) == KotlinLoop[Start(base, exp, n)]
CppPow(base, exp, n) == CppLoop[Start(base, exp, n)]

\* The key pairs of two primes; p * q is a UInt in the Kotlin handler.
KotlinKey(p, q) ==
    LET n == (p * q) % 2^(Word \div 2)
        t == Totient(n)
        e == GenerateE(t)
    IN [e |-> e, d |-> CalculateD(e, t), n |-> n]
CppKey(p, q) ==
    LET t == Totient(p * q)
        e == GenerateE(t)
    IN [e |-> e, d |-> ModInverse(e, t), n |-> p * q]
KotlinKeys == {KotlinKey(x[1], x[2]) : x \in ServerDraws}
CppKeys == {CppKey(x[1], x[2]) : x \in {y \in PeerDraws : Exponents(Totient(y[1] * y[2])) # {}}}

ASSUME DrawAssumption == /\ ServerDraws \subseteq KotlinPrimes \X KotlinPrimes
                         /\ PeerDraws \subseteq CppPrimes \X CppPrimes
                         /\ Word \in Nat /\ Codes \subseteq Nat

\* Half a word holds the product of two primes of KeySize, which is 65536 in the code, and
\* the characters of the requests are ASCII, less than half of it.
ASSUME SizeAssumption == /\ KeySize \in Nat /\ \A c \in Codes : c < KeySize \div 2
                         /\ \A p, q \in KotlinPrimes : p * q < 2^(Word \div 2)

\* What powers of two are; it holds for every positive Word.
ASSUME WordAssumption == /\ 2^(Word - 1) \in Nat \ {0} /\ 2^Word = 2 * 2^(Word - 1)
                         /\ 2^(Word \div 2) \in Nat \ {0}

\* The keys e, n and k such that texts the mapping server encrypted with e and n are what
\* the owner of k decrypts, and the server's keys that decrypt what a peer encrypted with
\* them.  A negative number has no reading: toULong throws.
ReadableAnswers ==
    {x \in {k.e : k \in CppKeys} \X {k.n : k \in CppKeys} \X CppKeys :
        \A c \in Codes : CppPow(KotlinPow(c, x[1], x[2]), x[3].d, x[3].n) = c}
RequestReaders ==
    {k \in KotlinKeys :
        \A c \in Codes : LET x == CppPow(c, k.e, k.n)
                         IN x >= 0 /\ KotlinPow(x, k.d, k.n) = c}
=============================================================================
