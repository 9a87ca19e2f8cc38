----------------------------- MODULE Heartbeat ------------------------------
(***************************************************************************)
(* A relay's heartbeats: Node::sendAlive connects to the directory, sends    *)
(* one message built by buildAliveFormat and sleeps for a third of           *)
(* MAX_TIME_ALIVE; the directory judges the message with isValidFormat and   *)
(* forgets a relay it did not hear of for MAX_TIME_ALIVE.  The vector and    *)
(* the threads of the directory are the subject of module Directory.         *)
(***************************************************************************)
EXTENDS Integers, FiniteSets, FiniteSetsExt

CONSTANTS
    Port,                \* Node::myPort
    Low, High,           \* the range generateNonPrime draws from
    MaxAge, MaxPing,     \* MAX_TIME_ALIVE and MAX_PING_ALIVE_MS, in ticks
    MaxAttempts,         \* ClientConnection::MAX_ATTEMPTS
    Skews,               \* the relay's clock, ahead of the directory's
    MaxDelay,            \* bound: ticks from building a message to its check
    MaxOutages           \* bound: how often the directory stops

\* The real values, Low = 2000000 and any 16-bit port, satisfy it: the least
\* divisor of an odd number up to High lies in the range that is searched.
ASSUME RangeAssumption ==
    /\ Port \in Nat \ {0} /\ Low \in Nat \ {0, 1} /\ High \in Nat
    /\ \A d \in 2 .. High : d * d <= High => Port + d < Low \div 2
ASSUME TimeAssumption ==
    /\ MaxAge \in Nat /\ MaxPing \in Nat /\ MaxDelay \in Nat /\ Skews \subseteq Int
    /\ MaxAttempts \in Nat \ {0} /\ MaxOutages \in Nat
\* A heartbeat is judged before the next one is sent.
ASSUME DelayAssumption == MaxDelay < MaxAge \div 3

VARIABLES
    npc,             \* where sendAlive is
    failedAttempts,  \* ClientConnection::failedAttempts
    rest,            \* ticks left of its Sleep
    mail,            \* heartbeats the directory has not judged yet
    skew,            \* the relay's clock minus the directory's
    dirUp, outages,  \* the directory runs; how often it stopped
    listed,          \* the directory lists the relay
    silent,          \* ticks since a heartbeat was accepted
    misses           \* heartbeats rejected since then

nodeVars == <<npc, failedAttempts, rest>>
dirVars  == <<dirUp, outages, listed, silent, misses>>
vars == <<nodeVars, mail, skew, dirVars>>

-----------------------------------------------------------------------------
(* Utility.cpp. *)

IsPrime(n) == n >= 2 /\ \A i \in 2 .. n : i * i <= n => n % i # 0
NonPrimes == {n \in Low .. High : ~ IsPrime(n)}

\* The first condition in port + 1 .. nonPrime / 2 - 1 that works, or 0.
Conditions(n) == {c \in Port + 1 .. (n \div 2) - 1 : n % (c - Port) = 1}
LastModuloBase(n) == IF Conditions(n) = {} THEN 0 ELSE Max(Conditions(n))
FindModuloBase(n) == IF Conditions(n) = {} THEN 0 ELSE Min(Conditions(n))

\* capture_time() - sent is unsigned: a message from the future is too old.
IsValidTime(age) == age - skew \in 0 .. MaxPing - 1

\* The sign of condition - port does not matter to C++'s %.
Distance(a, b) == IF a < b THEN b - a ELSE a - b
ModulusValidNoPort(n, c) == n % (c + 1) = 1
ModulusValid(n, c) == n % Distance(c, Port) = 1

\* Server::isValidFormat on a message of buildAliveFormat, whose hashes agree.
IsValidFormat(m) == /\ IsValidTime(m.age)
                    /\ ~ IsPrime(m.nonPrime)
                    /\ ModulusValid(m.nonPrime, m.condition)

-----------------------------------------------------------------------------
Init ==
    /\ npc = "connect" /\ failedAttempts = 0 /\ rest = 0
    /\ mail = {}
    /\ skew \in Skews
    /\ dirUp \in BOOLEAN /\ outages = 0
    /\ listed = FALSE /\ silent = 0 /\ misses = 0

\* connectInLoop: two attempts in a row, after which it throws what sendAlive
\* does not catch: the process ends.
GivesUpTooLate == failedAttempts = MaxAttempts
GivesUp == failedAttempts + 1 = MaxAttempts

ConnectFails ==
    /\ npc = "connect" /\ ~ dirUp
    /\ failedAttempts' = failedAttempts + 1
    /\ npc' = IF GivesUp THEN "dead" ELSE "connect"
    /\ UNCHANGED <<rest, mail, skew, dirVars>>

Connects ==
    /\ npc = "connect" /\ dirUp
    /\ failedAttempts' = 0
    /\ npc' = "handshake"
    /\ UNCHANGED <<rest, mail, skew, dirVars>>

\* Sleep(MAX_TIME_ALIVE / 3).
IntervalTooLong == MaxAge \div 2
Interval == MaxAge \div 3

\* Node::handshake and buildAliveFormat.
SendsAlive ==
    /\ npc = "handshake" /\ dirUp
    /\ \E n \in NonPrimes :
         mail' = mail \cup {[nonPrime |-> n, condition |-> FindModuloBase(n), age |-> 0]}
    /\ npc' = "sleep"
    /\ rest' = Interval
    /\ UNCHANGED <<failedAttempts, skew, dirVars>>

\* The directory is gone: an empty key makes CryptoPP throw, which sendAlive
\* catches; a failed send or a reset within a message throws what it does not.
HandshakeBreaks ==
    /\ npc = "handshake" /\ ~ dirUp
    /\ npc' \in {"sleep", "dead"}
    /\ rest' = IF npc' = "sleep" THEN Interval ELSE 0
    /\ UNCHANGED <<failedAttempts, mail, skew, dirVars>>

Wakes ==
    /\ npc = "sleep" /\ rest = 0
    /\ npc' = "connect"
    /\ UNCHANGED <<failedAttempts, rest, mail, skew, dirVars>>

-----------------------------------------------------------------------------
Accept(m) ==
    /\ dirUp /\ m \in mail /\ IsValidFormat(m)
    /\ mail' = mail \ {m}
    /\ listed' = TRUE /\ silent' = 0 /\ misses' = 0
    /\ UNCHANGED <<nodeVars, skew, dirUp, outages>>

Reject(m) ==
    /\ dirUp /\ m \in mail /\ ~ IsValidFormat(m)
    /\ mail' = mail \ {m}
    /\ misses' = IF misses < MaxAge THEN misses + 1 ELSE misses
    /\ UNCHANGED <<nodeVars, skew, dirUp, outages, listed, silent>>

\* checkAliveNodes, once a second.
Sweep ==
    /\ dirUp /\ listed /\ silent > MaxAge
    /\ listed' = FALSE
    /\ UNCHANGED <<nodeVars, mail, skew, dirUp, outages, silent, misses>>

\* The directory keeps its list in memory only.
DirectoryStops ==
    /\ dirUp /\ outages < MaxOutages
    /\ dirUp' = FALSE /\ outages' = outages + 1
    /\ listed' = FALSE /\ mail' = {} /\ silent' = 0 /\ misses' = 0
    /\ UNCHANGED <<nodeVars, skew>>

DirectoryStarts ==
    /\ ~ dirUp
    /\ dirUp' = TRUE
    /\ UNCHANGED <<nodeVars, mail, skew, outages, listed, silent, misses>>

Older(m) == [m EXCEPT !.age = @ + 1]

\* Connecting and shaking hands take less than a tick.
Tick ==
    /\ npc = "dead" \/ (npc = "sleep" /\ rest > 0)
    /\ \A m \in mail : m.age < MaxDelay
    /\ mail' = {Older(m) : m \in mail}
    /\ rest' = IF rest > 0 THEN rest - 1 ELSE 0
    /\ silent' = IF silent <= MaxAge THEN silent + 1 ELSE silent
    /\ UNCHANGED <<npc, failedAttempts, skew, dirUp, outages, listed, misses>>

Next == \/ ConnectFails \/ Connects \/ SendsAlive \/ HandshakeBreaks \/ Wakes
        \/ \E m \in mail : Accept(m) \/ Reject(m)
        \/ Sweep \/ DirectoryStops \/ DirectoryStarts \/ Tick

Spec == Init /\ [][Next]_vars

-----------------------------------------------------------------------------
(* Properties. *)

Message == [nonPrime : Low .. High, condition : Nat, age : 0 .. MaxDelay]

\* Every variable holds what its declaration in the code allows.
TypeOK ==
    /\ npc \in {"connect", "handshake", "sleep", "dead"}
    /\ failedAttempts \in 0 .. MaxAttempts
    /\ rest \in 0 .. MaxAge
    /\ mail \subseteq Message
    /\ skew \in Skews
    /\ dirUp \in BOOLEAN /\ outages \in 0 .. MaxOutages
    /\ listed \in BOOLEAN /\ silent \in 0 .. MaxAge + 1 /\ misses \in 0 .. MaxAge

\* The numbers above 1 that divide n.
Divisors(n) == {d \in 2 .. n : n % d = 0}

\* findModuloBase finds the port plus the least divisor of nonPrime - 1, and
\* fails exactly when nonPrime - 1 is a prime, which happens for even numbers
\* that generateNonPrime does draw.
ConditionIsLeastDivisor ==
    \A m \in mail :
        LET least == Min(Divisors(m.nonPrime - 1))
        IN m.condition = IF least = m.nonPrime - 1 THEN 0 ELSE Port + least

\* What buildAliveFormat builds isValidFormat accepts, if a condition was found,
\* the relay's clock is not ahead and the message was on its way for less than
\* MAX_PING_ALIVE_MS by the two clocks.
HonestHeartbeatsPass ==
    \A m \in mail : (m.condition # 0 /\ skew <= m.age /\ m.age < MaxPing + skew)
                       => IsValidFormat(m)

\* A relay that runs is swept only after two heartbeats in a row were rejected,
\* as long as the directory did not stop: sending three times per
\* MAX_TIME_ALIVE survives one loss.
OneLossTolerated ==
    [][Sweep => misses >= 2 \/ npc = "dead" \/ outages > 0]_vars

\* "Error in sendAlive" (Node.cpp:651): sendAlive catches what goes wrong and
\* goes on with its loop.
SendAliveGoesOn == npc # "dead"
=============================================================================
