--------------------------- MODULE HeartbeatProofs --------------------------
(***************************************************************************)
(* Proofs about Heartbeat, for every value of its constants: the types, that *)
(* an honest heartbeat passes, and that a living relay survives the loss of *)
(* one heartbeat.                                                           *)
(***************************************************************************)
EXTENDS Heartbeat, Foundations, TLAPS

USE DEF TypeOK

\* connectInLoop leaves its loop before the last attempt is used up.
AttemptsLeft == npc # "dead" => failedAttempts < MaxAttempts

\* What a heartbeat carries: a number that is not prime, and what the search for a
\* condition returned for it.
HonestNumbers(m) == /\ m.nonPrime \in NonPrimes
                    /\ m.condition = FindModuloBase(m.nonPrime)
Honest == \A m \in mail : HonestNumbers(m)

\* Ticks since sendAlive sent a heartbeat or gave one up.
SinceSent == IF npc = "sleep" THEN Interval - rest ELSE Interval

\* At most one heartbeat is on its way, and it is as old as sendAlive's sleep.
OneInFlight ==
    /\ npc # "sleep" => rest = 0
    /\ rest <= Interval
    /\ npc # "dead" /\ mail # {} => npc = "sleep" /\ \E m : mail = {m} /\ m.age = SinceSent

\* How long a listed relay that runs can have been silent.
Budget == (IF misses = 0 THEN 0 ELSE Interval) + (IF mail = {} THEN 0 ELSE Interval) + SinceSent
SilenceBounded ==
    /\ ~ dirUp => ~ listed /\ mail = {}
    /\ listed /\ npc # "dead" /\ misses <= 1 => silent <= Budget

IInv == TypeOK /\ AttemptsLeft /\ Honest /\ OneInFlight /\ SilenceBounded

-----------------------------------------------------------------------------
\* findModuloBase returns 0 or one of the conditions it searches.
LEMMA FindModuloBaseFinds ==
    ASSUME NEW n \in Nat
    PROVE  /\ FindModuloBase(n) \in Nat
           /\ FindModuloBase(n) # 0 => FindModuloBase(n) \in Conditions(n)
<1>1. Conditions(n) \subseteq Nat
  BY RangeAssumption DEF Conditions
<1>2. CASE Conditions(n) = {}
  BY <1>2 DEF FindModuloBase
<1>3. CASE Conditions(n) # {}
  <2>1. Min(Conditions(n)) \in Conditions(n)
    BY <1>1, <1>3, MinIsLeast
  <2> QED
    BY <2>1, <1>1, <1>3 DEF FindModuloBase
<1> QED
  BY <1>2, <1>3

-----------------------------------------------------------------------------
(* Division. *)

\* n leaves the remainder 1 when the number before it leaves none.
LEMMA OneMore ==
    ASSUME NEW n \in Nat \ {0}, NEW d \in Nat, d >= 2
    PROVE  n % d = 1 <=> (n - 1) % d = 0
<1> DEFINE q == n \div d
           p == (n - 1) \div d
           r == n % d
           s == (n - 1) % d
<1>0. n \in Nat /\ n - 1 \in Nat /\ d \in Nat \ {0}
  OBVIOUS
<1>1. q \in Nat /\ r \in 0 .. d - 1 /\ n = d * q + r
  BY <1>0, Division
<1>2. p \in Nat /\ s \in 0 .. d - 1 /\ n - 1 = d * p + s
  BY <1>0, Division
<1> HIDE DEF q, p, r, s
<1>3. d * q \in Nat /\ d * p \in Nat
  BY <1>1, <1>2
<1>4. ASSUME r = 1 PROVE s = 0
  <2>1. d * q + 0 = d * p + s /\ 0 \in 0 .. d - 1
    BY <1>1, <1>2, <1>3, <1>4
  <2> QED
    BY <1>0, <1>1, <1>2, <2>1, QuotientUnique
<1>5. ASSUME s = 0 PROVE r = 1
  <2>1. d * p + 1 = d * q + r /\ 1 \in 0 .. d - 1
    BY <1>1, <1>2, <1>3, <1>5
  <2> QED
    BY <1>0, <1>1, <1>2, <2>1, QuotientUnique
<1> QED
  BY <1>4, <1>5 DEF r, s

\* The least divisor of a number that is not prime is at most its square root.
LEMMA SquareRoot ==
    ASSUME NEW n \in Nat, NEW d \in Nat, 2 <= d, d < n, n % d = 0,
           \A f \in Divisors(n) : d <= f
    PROVE  d * d <= n
<1> DEFINE q == n \div d
<1>1. q \in Nat /\ n = d * q
  BY Division
<1> HIDE DEF q
<1>2. q >= 2
  <2>1. q # 0
    BY <1>1
  <2>2. q # 1
    BY <1>1
  <2> QED
    BY <1>1, <2>1, <2>2
<1>3. q <= n
  <2>1. d * q >= 1 * q
    BY <1>1
  <2> QED
    BY <1>1, <2>1
<1>4. n % q = 0
  <2>0. q \in Nat \ {0}
    BY <1>1, <1>2
  <2>1. n \div q \in Nat /\ (n % q) \in 0 .. q - 1 /\ n = q * (n \div q) + (n % q)
    BY <2>0, Division
  <2>2. q * d + 0 = q * (n \div q) + (n % q) /\ 0 \in 0 .. q - 1
    BY <1>1, <1>2, <2>1
  <2> QED
    BY <1>1, <1>2, <2>1, <2>2, QuotientUnique
<1>5. d <= q
  BY <1>1, <1>2, <1>3, <1>4 DEF Divisors
<1>6. d * d <= d * q
  BY <1>1, <1>5
<1> QED
  BY <1>1, <1>6

\* The numbers that are drawn: none of them is as small as 3.
LEMMA DrawnNumber ==
    ASSUME NEW n \in NonPrimes
    PROVE  n \in Nat /\ n >= 4 /\ Low <= n /\ n <= High
<1>1. n \in Nat /\ Low <= n /\ n <= High /\ n >= 2 /\ ~ IsPrime(n)
  BY RangeAssumption DEF NonPrimes
<1>2. n # 2 /\ n # 3
  <2>1. \A i \in 2 .. n : i * i >= 4
    BY <1>1
  <2>2. PICK i \in 2 .. n : i * i <= n
    BY <1>1 DEF IsPrime
  <2>3. i * i \in Nat
    BY <1>1
  <2> QED
    BY <1>1, <2>1, <2>2, <2>3
<1> QED
  BY <1>1, <1>2

\* The search finds exactly the divisors of the number before, shifted by the port, up to
\* its bound.
LEMMA ConditionDivides ==
    ASSUME NEW n \in NonPrimes, NEW c \in Conditions(n)
    PROVE  c - Port \in Divisors(n - 1) /\ c - Port < n - 1 /\ c \in Nat
<1>1. n \in Nat /\ n >= 4
  BY DrawnNumber
<1>2. Port \in Nat /\ Port >= 1
  BY RangeAssumption
<1>3. c \in Nat /\ c >= Port + 1 /\ c <= (n \div 2) - 1 /\ n % (c - Port) = 1
  BY <1>1, <1>2 DEF Conditions
<1> DEFINE d == c - Port
<1>4. d \in Nat /\ d >= 1 /\ d < n - 1 /\ n % d = 1
  BY <1>1, <1>2, <1>3
<1> HIDE DEF d
<1>5. d >= 2
  <2>1. (n % d) \in 0 .. d - 1
    BY <1>1, <1>4, Division
  <2> QED
    BY <1>4, <2>1
<1>6. (n - 1) % d = 0
  <2>1. n \in Nat \ {0}
    BY <1>1
  <2> QED
    BY <1>4, <1>5, <2>1, OneMore
<1>7. d \in Divisors(n - 1)
  BY <1>1, <1>4, <1>5, <1>6 DEF Divisors
<1> QED
  BY <1>3, <1>4, <1>7 DEF d

\* What the search returns for a number that is drawn.
LEMMA SearchFindsLeast ==
    ASSUME NEW n \in NonPrimes
    PROVE  LET least == Min(Divisors(n - 1))
           IN  FindModuloBase(n) = IF least = n - 1 THEN 0 ELSE Port + least
<1> DEFINE least == Min(Divisors(n - 1))
<1>1. n \in Nat /\ n >= 4 /\ Low <= n /\ n <= High
  BY DrawnNumber
<1>2. Port \in Nat /\ Low \in Nat /\ High \in Nat
  BY RangeAssumption
<1>3. n - 1 \in Divisors(n - 1)
  <2>1. (n - 1) % (n - 1) = 0
    BY <1>1
  <2> QED
    BY <1>1, <2>1 DEF Divisors
<1>4. least \in Divisors(n - 1) /\ \A f \in Divisors(n - 1) : least <= f
  <2>1. Divisors(n - 1) \subseteq Nat
    BY <1>1 DEF Divisors
  <2> QED
    BY <1>3, <2>1, MinIsLeast
<1> HIDE DEF least
<1>5. least \in Nat /\ least >= 2 /\ least <= n - 1 /\ (n - 1) % least = 0
  BY <1>1, <1>4 DEF Divisors
<1>6. CASE least = n - 1
  <2>1. ASSUME NEW c \in Conditions(n) PROVE FALSE
    <3>1. c - Port \in Divisors(n - 1) /\ c - Port < n - 1 /\ c \in Nat
      BY ConditionDivides
    <3>2. least <= c - Port
      BY <1>4, <3>1
    <3> QED
      BY <1>1, <1>2, <1>6, <3>1, <3>2
  <2>2. Conditions(n) = {}
    BY <2>1
  <2>3. FindModuloBase(n) = 0
    BY <2>2 DEF FindModuloBase
  <2> QED
    BY <1>6, <2>3 DEF least
<1>7. CASE least # n - 1
  <2>1. least * least <= n - 1
    BY <1>1, <1>4, <1>5, <1>7, SquareRoot
  <2>2. Port + least < Low \div 2
    <3>1. least \in 2 .. High /\ least * least \in Nat
      BY <1>1, <1>2, <1>5
    <3>2. least * least <= High
      BY <1>1, <1>2, <2>1, <3>1
    <3> QED
      BY <3>1, <3>2, RangeAssumption
  <2>3. Port + least \in Port + 1 .. (n \div 2) - 1
    <3>1. Low \div 2 <= n \div 2 /\ Low \div 2 \in Nat /\ n \div 2 \in Nat
      BY <1>1, <1>2
    <3> QED
      BY <1>2, <1>5, <2>2, <3>1
  <2>4. (Port + least) - Port = least
    BY <1>2, <1>5
  <2>5. n % least = 1
    <3>1. n \in Nat \ {0}
      BY <1>1
    <3> QED
      BY <1>5, <3>1, OneMore
  <2>6. Port + least \in Conditions(n)
    BY <2>3, <2>4, <2>5 DEF Conditions
  <2> DEFINE first == Min(Conditions(n))
  <2>7. first \in Conditions(n) /\ first <= Port + least
    <3>1. Conditions(n) \subseteq Nat
      BY ConditionDivides
    <3> QED
      BY <2>6, <3>1, MinIsLeast
  <2>8. FindModuloBase(n) = first
    BY <2>6 DEF FindModuloBase
  <2> HIDE DEF first
  <2>9. least <= first - Port /\ first \in Nat
    BY <1>4, <2>7, ConditionDivides
  <2>10. first = Port + least
    BY <1>2, <1>5, <2>7, <2>9
  <2> QED
    BY <1>7, <2>8, <2>10 DEF least
<1> QED
  BY <1>6, <1>7

\* A tick makes a heartbeat older and leaves its numbers.
LEMMA OlderMessage ==
    ASSUME NEW m \in Message
    PROVE  /\ Older(m).age = m.age + 1
           /\ Older(m).nonPrime = m.nonPrime /\ Older(m).condition = m.condition
           /\ m.age < MaxDelay => Older(m) \in Message
  BY TimeAssumption DEF Older, Message

\* A third of MAX_TIME_ALIVE, three times, is not more than MAX_TIME_ALIVE.
LEMMA IntervalFits == Interval \in Nat /\ 3 * Interval <= MaxAge /\ MaxDelay < Interval
  BY TimeAssumption, DelayAssumption DEF Interval

-----------------------------------------------------------------------------
LEMMA InitEstablishes == Init => IInv
<1> SUFFICES ASSUME Init PROVE IInv
  OBVIOUS
<1>1. TypeOK
  <2>1. listed \in BOOLEAN /\ dirUp \in BOOLEAN
    BY DEF Init
  <2>2. mail \subseteq Message
    BY DEF Init
  <2> QED
    BY <2>1, <2>2, TimeAssumption DEF Init
<1>2. AttemptsLeft /\ OneInFlight /\ SilenceBounded
  BY TimeAssumption, IntervalFits
     DEF Init, AttemptsLeft, OneInFlight, SilenceBounded, Budget, SinceSent
<1>3. Honest
  BY DEF Init, Honest
<1> QED
  BY <1>1, <1>2, <1>3 DEF IInv

\* Each step preserves the invariant.
LEMMA StepPreserves == IInv /\ [Next]_vars => IInv'
<1> SUFFICES ASSUME IInv, [Next]_vars PROVE IInv'
  OBVIOUS
<1> USE TimeAssumption, IntervalFits
<1> USE DEF IInv, AttemptsLeft, Honest, OneInFlight, SilenceBounded, Budget, SinceSent,
            nodeVars, dirVars
<1>1. CASE ConnectFails
  BY <1>1 DEF ConnectFails, GivesUp
<1>2. CASE Connects
  BY <1>2 DEF Connects
<1>3. CASE SendsAlive
  <2> PICK n \in NonPrimes :
        mail' = mail \cup {[nonPrime |-> n, condition |-> FindModuloBase(n), age |-> 0]}
    BY <1>3 DEF SendsAlive
  <2> DEFINE sent == [nonPrime |-> n, condition |-> FindModuloBase(n), age |-> 0]
  <2>1. mail = {} /\ mail' = {sent}
    BY <1>3 DEF SendsAlive
  <2>2. n \in Low .. High /\ n \in Nat
    BY RangeAssumption DEF NonPrimes
  <2>3. sent \in Message /\ sent.age = 0
        /\ HonestNumbers(sent)
    BY <2>2, FindModuloBaseFinds DEF Message, HonestNumbers
  <2> HIDE DEF sent
  <2> QED
    BY <1>3, <2>1, <2>3 DEF SendsAlive, Message
<1>4. CASE HandshakeBreaks
  BY <1>4 DEF HandshakeBreaks
<1>5. CASE Wakes
  BY <1>5 DEF Wakes, Message
<1>6. ASSUME NEW m \in mail, Accept(m) PROVE IInv'
  BY <1>6 DEF Accept
<1>7. ASSUME NEW m \in mail, Reject(m) PROVE IInv'
  BY <1>7 DEF Reject
<1>8. CASE Sweep
  BY <1>8 DEF Sweep
<1>9. CASE DirectoryStops
  <2>1. TypeOK'
    <3>1. listed' \in BOOLEAN /\ dirUp' \in BOOLEAN
      BY <1>9 DEF DirectoryStops
    <3>2. mail' \subseteq Message
      BY <1>9 DEF DirectoryStops
    <3> QED
      BY <1>9, <3>1, <3>2 DEF DirectoryStops
  <2>2. (AttemptsLeft /\ OneInFlight /\ SilenceBounded)'
    BY <1>9 DEF DirectoryStops
  <2>3. Honest'
    BY <1>9 DEF DirectoryStops
  <2> QED
    BY <2>1, <2>2, <2>3
<1>10. CASE DirectoryStarts
  BY <1>10 DEF DirectoryStarts
<1>11. CASE Tick
  <2>1. ASSUME NEW m \in mail
        PROVE  Older(m) \in Message /\ Older(m).age = m.age + 1 /\ HonestNumbers(Older(m))
    BY <1>11, OlderMessage DEF Tick, Message, HonestNumbers
  <2>2. mail' = {Older(m) : m \in mail}
    BY <1>11 DEF Tick
  <2>3. npc # "dead" => rest > 0 /\ npc = "sleep"
    BY <1>11 DEF Tick
  <2>4. mail' \subseteq Message /\ Honest'
    BY <2>1, <2>2
  <2>5. OneInFlight'
    BY <1>11, <2>1, <2>2, <2>3 DEF Tick
  <2>6. mail' = {} <=> mail = {}
    BY <2>2
  <2> QED
    BY <1>11, <2>3, <2>4, <2>5, <2>6 DEF Tick, Message
<1>12. CASE UNCHANGED vars
  BY <1>12 DEF vars
<1> QED
  BY <1>1, <1>2, <1>3, <1>4, <1>5, <1>6, <1>7, <1>8, <1>9, <1>10, <1>11, <1>12 DEF Next

\* The inductive invariant holds throughout.
LEMMA Inductive == Spec => []IInv
<1> QED
  BY InitEstablishes, StepPreserves, PTL DEF Spec

-----------------------------------------------------------------------------
\* Every variable holds what its declaration in the code allows.
THEOREM TypeCorrect == Spec => []TypeOK
<1>1. IInv => TypeOK
  BY DEF IInv
<1> QED
  BY <1>1, Inductive, PTL

\* Whatever number was drawn and whatever the port, the modulus that
\* buildAliveFormat sends is the one isValidFormat checks.
THEOREM HonestPass == Spec => []HonestHeartbeatsPass
<1>1. IInv => HonestHeartbeatsPass
  <2> SUFFICES ASSUME IInv, NEW m \in mail,
                      m.condition # 0, skew <= m.age, m.age < MaxPing + skew
               PROVE  IsValidFormat(m)
    BY DEF HonestHeartbeatsPass
  <2>1. m \in Message /\ m.nonPrime \in NonPrimes /\ m.condition \in Conditions(m.nonPrime)
    BY RangeAssumption, FindModuloBaseFinds DEF IInv, Honest, HonestNumbers, NonPrimes
  <2> QED
    BY <2>1, TimeAssumption, RangeAssumption
       DEF IInv, Message, NonPrimes, IsValidFormat, IsValidTime, ModulusValid, Distance,
           Conditions
<1> QED
  BY <1>1, Inductive, PTL

\* The search of buildAliveFormat ends with the least divisor above 1 of the number before
\* the one drawn, shifted by the port; it fails only if that number is a prime.
THEOREM SearchExact == Spec => []ConditionIsLeastDivisor
<1>1. IInv => ConditionIsLeastDivisor
  BY SearchFindsLeast DEF IInv, Honest, HonestNumbers, ConditionIsLeastDivisor
<1> QED
  BY <1>1, Inductive, PTL

\* Sending three heartbeats per MAX_TIME_ALIVE survives the loss of one.
THEOREM LossTolerated == Spec => OneLossTolerated
<1>1. IInv /\ [Next]_vars => [Sweep => misses >= 2 \/ npc = "dead" \/ outages > 0]_vars
  BY TimeAssumption, IntervalFits
     DEF IInv, OneInFlight, SilenceBounded, Budget, SinceSent, Sweep
<1> QED
  BY <1>1, Inductive, PTL DEF Spec, OneLossTolerated

\* A directory that runs when the relay starts and never stops never costs the relay its
\* process, whatever its clock: rejected heartbeats do not count as failed attempts.
THEOREM DiesOnlyByOutage == dirUp /\ Spec => [](outages = 0 => SendAliveGoesOn)
<1> DEFINE Inv == outages = 0 => dirUp /\ npc # "dead"
<1>1. dirUp /\ Init => Inv
  BY DEF Init
<1>2. IInv /\ Inv /\ [Next]_vars => Inv'
  <2> SUFFICES ASSUME IInv, Inv, [Next]_vars, outages' = 0 PROVE dirUp' /\ npc' # "dead"
    OBVIOUS
  <2>1. outages \in Nat
    BY TimeAssumption DEF IInv, TypeOK
  <2>2. \/ outages = 0 /\ dirUp' = dirUp /\ npc' \in {npc, "connect", "handshake", "sleep"}
        \/ DirectoryStarts \/ DirectoryStops \/ ~ dirUp
    BY DEF Next, Connects, SendsAlive, Wakes, Accept, Reject, Sweep, Tick, ConnectFails,
           HandshakeBreaks, nodeVars, dirVars, vars
  <2> QED
    BY <2>1, <2>2 DEF DirectoryStarts, DirectoryStops, ConnectFails, HandshakeBreaks,
           Next, Connects, SendsAlive, Wakes, Accept, Reject, Sweep, Tick,
           nodeVars, dirVars, vars
<1>3. Inv => (outages = 0 => SendAliveGoesOn)
  BY DEF SendAliveGoesOn
<1> HIDE DEF Inv
<1> QED
  BY <1>1, <1>2, <1>3, Inductive, PTL DEF Spec
=============================================================================
