---------------------------- MODULE TunnelProofs ----------------------------
(***************************************************************************)
(* Proofs about Circuit, continued: where answers go, what takes a relay or *)
(* a client down, that Circuit implements Tunnel, and what works on a       *)
(* circuit that nothing disturbed, for any number of clients, relays and    *)
(* identifiers and any path lengths.                                        *)
(***************************************************************************)
EXTENDS CircuitProofs, FiniteSetTheorems

Base == Types /\ IInv /\ MapInv

\* The hop that connection l leads to.
Ahead(l) == <<l[1], l[2] + 1>>

\* A conversation the map leads to.
InMap(k) == convMap[at[k]][convId[k]] = k

LEMMA AheadParts == \A l : Ahead(l)[1] = l[1] /\ Ahead(l)[2] = l[2] + 1
  BY DEF Ahead

-----------------------------------------------------------------------------
(* What stays as it is. *)

KeptAt(k) ==
    /\ hs[k] # "none" => hs'[k] # "none" /\ at'[k] = at[k]
    /\ Told(k) => Told(k)' /\ told'[k] = told[k]
    /\ convId[k] # NoId => convId'[k] = convId[k] /\ hs[k] # "none" /\ hs[k] # "key"
    /\ role[k] = "freed" => role'[k] = "freed"
    /\ role[k] = "exit" => role'[k] = "exit"
    /\ role[k] = "relay" => role'[k] \in {"relay", "freed"}
    /\ role[k] # "unset" => nxt'[k] = nxt[k]

LEMMA Kept ==
    ASSUME Base, [Next]_vars, NEW k \in Keys
    PROVE  KeptAt(k)
<1> USE DEF Types, HsType, ConvType
<1>0. /\ Told(k) => Told(k)' /\ told'[k] = told[k]
      /\ hs[k] \in {"none", "key"} => convId[k] = NoId /\ role[k] = "unset"
      /\ role[k] \in {"relay", "exit"} => hs[k] = "done"
  BY ToldForGood DEF Base, IInv, MapInv, ConvInv, ConvAt, HopInv, HandshakeInv, HandshakeAt
<1>a. CASE UNCHANGED <<at, hs, convId, role, nxt>>
  BY <1>0, <1>a DEF KeptAt
<1>1. ASSUME NEW c \in Clients, PathDesign(c) \/ ClientSend(c) \/ HandshakeBroken(c)
                                \/ ConnectEntry(c) \/ ClientReceive(c)
      PROVE  UNCHANGED <<at, hs, convId, role, nxt>>
  BY <1>1 DEF PathDesign, ClientSend, HandshakeBroken, ConnectEntry, ClientReceive,
              hsVars, convVars
<1>2. ASSUME NEW c \in Clients, Connect(c) PROVE KeptAt(k)
  <2>1. hop[c] \in Hops /\ cpc[c] = "connect"
    BY <1>2 DEF Connect, Base, ClientType
  <2>2. hs[<<c, hop[c]>>] = "none"
    BY <2>1 DEF Base, IInv, HopInv, OrderInv, OrderAt, Hops
  <2>3. \/ at' = [at EXCEPT ![<<c, hop[c]>>] = path[c][hop[c]]]
           /\ hs' = [hs EXCEPT ![<<c, hop[c]>>] = "key"]
        \/ UNCHANGED <<at, hs>>
    BY <1>2 DEF Connect
  <2>4. UNCHANGED <<convId, role, nxt>>
    BY <1>2 DEF Connect, convVars
  <2>5. hs[k] # "none" => hs'[k] = hs[k] /\ at'[k] = at[k]
    BY <2>2, <2>3 DEF Base
  <2> QED
    BY <1>0, <2>4, <2>5 DEF KeptAt, Base
<1>3. ASSUME NEW c \in Clients, ReceiveId(c) PROVE KeptAt(k)
  <2>1. UNCHANGED <<at, convId, role, nxt>>
    BY <1>3 DEF ReceiveId, convVars
  <2>2. hs'[k] = hs[k] \/ hs'[k] = "role"
    BY <1>3 DEF ReceiveId, Base
  <2> QED
    BY <1>0, <2>1, <2>2 DEF KeptAt, Base
<1>4. ASSUME NEW j \in Keys, AcceptKey(j) PROVE KeptAt(k)
  <2>1. /\ UNCHANGED <<at, role, nxt>> /\ hs[j] = "key" /\ hs' = [hs EXCEPT ![j] = "id"]
        /\ \A i \in Keys : i # j => convId'[i] = convId[i]
    BY <1>4 DEF AcceptKey, Base
  <2> QED
    BY <1>0, <2>1 DEF KeptAt, Base
<1>5. ASSUME NEW j \in Keys, AcceptRole(j) PROVE KeptAt(k)
  <2>1. /\ UNCHANGED <<at, convId>> /\ hs[j] = "role" /\ hs' = [hs EXCEPT ![j] = "done"]
        /\ \A i \in Keys : i # j => role'[i] = role[i] /\ nxt'[i] = nxt[i]
        /\ role[j] = "freed" => role' = role /\ nxt' = nxt
    BY <1>5 DEF AcceptRole, Base
  <2>2. role[j] \in {"unset", "freed"}
    BY <2>1 DEF Base, IInv, HopInv, HandshakeInv, HandshakeAt
  <2>3. hs[k] # "none" => hs'[k] # "none"
    BY <2>1 DEF Base
  <2>4. role[k] # "unset" => role'[k] = role[k] /\ nxt'[k] = nxt[k]
    BY <2>1, <2>2
  <2> QED
    BY <1>0, <2>1, <2>3, <2>4 DEF KeptAt
<1>6. ASSUME NEW l \in Links, BindFails(l) PROVE KeptAt(k)
  <2>1. UNCHANGED <<at, hs, convId, nxt>>
        /\ role' = [role EXCEPT ![Addressed(l)] = "freed"]
        /\ role[Addressed(l)] \in {"unset", "relay"}
    BY <1>6 DEF BindFails, hsVars
  <2> QED
    BY <1>0, <2>1 DEF KeptAt, Base
<1>7. ASSUME NEW l \in Links,
             \/ BindUnknown(l) \/ Bind(l) \/ DecryptFails(l) \/ Forward(l) \/ Deliver(l)
             \/ ListenerStep(l)
      PROVE  UNCHANGED <<at, hs, convId, role, nxt>>
  BY <1>7 DEF BindUnknown, Bind, DecryptFails, Forward, Deliver, ListenerStep, HostAnswer,
              Backward, Report, hsVars, convVars
<1>8. ASSUME NEW r \in Relays, Crash(r) PROVE UNCHANGED <<at, hs, convId, role, nxt>>
  BY <1>8 DEF Crash, hsVars, convVars
<1>9. CASE UNCHANGED vars
  BY <1>a, <1>9 DEF vars, hsVars, convVars
<1> QED
  BY <1>a, <1>1, <1>2, <1>3, <1>4, <1>5, <1>6, <1>7, <1>8, <1>9
     DEF Next, ClientStep, HandshakeStep, HandlerStep

\* A relay that is down stays down.
LEMMA DownForGood ==
    ASSUME Base, [Next]_vars, NEW r \in Relays, ~ up[r]
    PROVE  ~ up'[r]
<1> USE DEF Base, Types, RelayType
<1>a. ASSUME UNCHANGED up PROVE ~ up'[r]
  BY <1>a
<1>1. ASSUME NEW c \in Clients, PathDesign(c) \/ ClientSend(c) \/ ClientStep(c)
      PROVE  UNCHANGED up
  BY <1>1 DEF PathDesign, ClientSend, ClientStep, Connect, ReceiveId, HandshakeBroken,
              ConnectEntry, ClientReceive, relayVars
<1>2. ASSUME NEW k \in Keys, HandshakeStep(k) PROVE ~ up'[r]
  BY <1>2 DEF HandshakeStep, AcceptKey, AcceptRole, MayCrash, relayVars
<1>3. ASSUME NEW l \in Links, HandlerStep(l) PROVE ~ up'[r]
  BY <1>3 DEF HandlerStep, BindUnknown, Bind, BindFails, DecryptFails, Forward, Deliver,
              MayCrash, relayVars
<1>4. ASSUME NEW l \in Links, ListenerStep(l) PROVE UNCHANGED up
  BY <1>4 DEF ListenerStep, HostAnswer, Backward, Report, relayVars
<1>5. ASSUME NEW q \in Relays, Crash(q) PROVE ~ up'[r]
  BY <1>5 DEF Crash
<1>6. CASE UNCHANGED vars
  BY <1>6 DEF vars, relayVars
<1> QED
  BY <1>a, <1>1, <1>2, <1>3, <1>4, <1>5, <1>6 DEF Next

\* Identifiers that have collided stay so.
LEMMA CollidedForGood ==
    ASSUME Base, [Next]_vars, NEW k \in Keys, Collided(k)
    PROVE  Collided(k)'
<1>1. PICK j \in Keys \ {k} : at[j] = at[k] /\ convId[j] = convId[k] /\ convId[k] # NoId
  BY DEF Collided
<1>2. KeptAt(k) /\ KeptAt(j)
  BY <1>1, Kept
<1>3. at'[j] = at'[k] /\ convId'[j] = convId'[k] /\ convId'[k] # NoId
  BY <1>1, <1>2 DEF KeptAt
<1> QED
  BY <1>1, <1>3 DEF Collided

\* The conversation that the first message of a connection is for is in the map of the
\* relay the connection leads to, and that is where it is found.
LEMMA AddressedKey ==
    ASSUME Base, NEW l \in Links, FirstMessage(l), Addressed(l) # NoKey
    PROVE  LET k == Addressed(l)
           IN /\ k \in Keys /\ InMap(k) /\ role[k] # "freed"
              /\ LinkTo(l) \in Relays
              /\ at[k] = LinkTo(l) /\ convId[k] = Outer(Head(fwd[l])).id
<1> DEFINE k == Addressed(l)
           id == Outer(Head(fwd[l])).id
<1>1. k \in Keys /\ id \in Ids
  BY AddressedType DEF Base, IInv
<1>2. LinkTo(l) \in Relays
  BY DEF Base, IInv, LinkInv, LinkAt, FirstMessage
<1>3. k = convMap[LinkTo(l)][id]
  BY DEF Addressed
<1> HIDE DEF k, id
<1>4. at[k] = LinkTo(l) /\ convId[k] = id /\ role[k] # "freed"
  BY <1>1, <1>2, <1>3, ConstantFacts DEF Base, MapInv, MapFindsConversations
<1> QED
  BY <1>1, <1>2, <1>3, <1>4 DEF InMap, k, id

\* An entry of the map is not replaced; only a handler that fails erases one.
MapMovedAt(k) ==
    /\ InMap(k)' => InMap(k)
    /\ InMap(k) => \/ InMap(k)'
                   \/ /\ role[k] \in {"unset", "relay"} /\ link[k] = "none"
                      /\ role'[k] = "freed"
    /\ convMap[at[k]][convId[k]] # NoKey =>
          convMap'[at'[k]][convId'[k]] # NoKey \/ \E j \in Keys : role'[j] = "freed"

LEMMA MapMoves ==
    ASSUME Base, [Next]_vars, NEW k \in Keys, convId[k] # NoId
    PROVE  MapMovedAt(k)
<1>0. /\ KeptAt(k) /\ at[k] \in Relays /\ convId[k] \in Ids
      /\ at'[k] = at[k] /\ convId'[k] = convId[k]
  <2>1. KeptAt(k) /\ ConvAt(k)
    BY Kept DEF Base, MapInv, ConvInv
  <2>2. hs[k] \in {"none", "key", "id", "role", "done"} /\ convId[k] \in Ids \cup {NoId}
    BY DEF Base, Types, HsType, ConvType
  <2> QED
    BY <2>1, <2>2 DEF KeptAt, ConvAt
<1>a. ASSUME convMap' = convMap PROVE MapMovedAt(k)
  BY <1>0, <1>a DEF MapMovedAt, InMap
<1>1. ASSUME NEW c \in Clients, PathDesign(c) \/ ClientSend(c) \/ ClientStep(c)
      PROVE  convMap' = convMap
  BY <1>1 DEF PathDesign, ClientSend, ClientStep, Connect, ReceiveId, HandshakeBroken,
              ConnectEntry, ClientReceive, convVars
<1>2. ASSUME NEW j \in Keys, AcceptKey(j) PROVE MapMovedAt(k)
  <2>1. PICK id \in Ids : convMap' = [convMap EXCEPT ![at[j]] = Inserted(@, id, j)]
    BY <1>2 DEF AcceptKey
  <2>2. j # k
    BY <1>0, <1>2 DEF AcceptKey, KeptAt
  <2>3. convMap \in [Relays -> [Ids -> Keys \cup {NoKey}]] /\ NoKey \notin Keys
    BY ConstantFacts DEF Base, Types, ConvType
  <2>4. \/ convMap'[at[k]][convId[k]] = convMap[at[k]][convId[k]]
        \/ /\ convMap[at[k]][convId[k]] = NoKey
           /\ convMap'[at[k]][convId[k]] = j
    BY <1>0, <2>1, <2>3 DEF Inserted
  <2> QED
    BY <1>0, <2>2, <2>3, <2>4 DEF MapMovedAt, InMap
<1>3. ASSUME NEW j \in Keys, AcceptRole(j) PROVE convMap' = convMap
  BY <1>3 DEF AcceptRole
<1>4. ASSUME NEW l \in Links, BindFails(l) PROVE MapMovedAt(k)
  <2> DEFINE j == Addressed(l)
  <2>1. /\ j \in Keys /\ link[j] = "none" /\ role[j] \in {"unset", "relay"}
        /\ convMap' = [convMap EXCEPT ![at[j]] = Erased(@, convId[j])]
        /\ role' = [role EXCEPT ![j] = "freed"]
    BY <1>4, AddressedType DEF BindFails, Base, IInv
  <2> HIDE DEF j
  <2>2. role'[j] = "freed"
    BY <2>1 DEF Base, Types, ConvType
  <2>3. convMap \in [Relays -> [Ids -> Keys \cup {NoKey}]] /\ NoKey \notin Keys
    BY ConstantFacts DEF Base, Types, ConvType
  <2>4. \/ convMap'[at[k]][convId[k]] = convMap[at[k]][convId[k]]
        \/ /\ at[j] = at[k] /\ convId[j] = convId[k]
           /\ convMap'[at[k]][convId[k]] = NoKey
    BY <1>0, <2>1, <2>3 DEF Erased
  <2>5. CASE convMap'[at[k]][convId[k]] = convMap[at[k]][convId[k]]
    BY <1>0, <2>5 DEF MapMovedAt, InMap
  <2>6. CASE /\ at[j] = at[k] /\ convId[j] = convId[k]
             /\ convMap'[at[k]][convId[k]] = NoKey
    <3>1. InMap(j)
      BY <1>4, <2>1, AddressedKey DEF BindFails, j
    <3>2. InMap(k) => k = j
      BY <2>6, <3>1 DEF InMap
    <3>3. ~ InMap(k)'
      BY <1>0, <2>3, <2>6 DEF InMap
    <3> QED
      BY <2>1, <2>2, <3>2, <3>3 DEF MapMovedAt
  <2> QED
    BY <2>4, <2>5, <2>6
<1>5. ASSUME NEW l \in Links,
             \/ BindUnknown(l) \/ Bind(l) \/ DecryptFails(l) \/ Forward(l) \/ Deliver(l)
             \/ ListenerStep(l)
      PROVE  convMap' = convMap
  BY <1>5 DEF BindUnknown, Bind, DecryptFails, Forward, Deliver, ListenerStep, HostAnswer,
              Backward, Report, convVars
<1>6. ASSUME NEW r \in Relays, Crash(r) PROVE convMap' = convMap
  BY <1>6 DEF Crash, convVars
<1>7. CASE UNCHANGED vars
  BY <1>a, <1>7 DEF vars, convVars
<1> QED
  BY <1>a, <1>1, <1>2, <1>3, <1>4, <1>5, <1>6, <1>7 DEF Next, HandshakeStep, HandlerStep

-----------------------------------------------------------------------------
(* What a step does to one connection. *)

\* Its threads.
ThreadMoved(l) ==
    \/ bound'[l] = bound[l] /\ handler'[l] = handler[l]
    \/ bound'[l] = bound[l] /\ handler[l] = "run" /\ handler'[l] = "ended"
    \/ \E c \in Clients : /\ l = Entry(c) /\ ConnectEntry(c)
                          /\ bound'[l] = NoKey /\ handler'[l] = "none"
    \/ Bind(l) /\ bound'[l] = Addressed(l) /\ handler'[l] = "run"
    \/ BindFails(l) /\ bound'[l] = Addressed(l) /\ handler'[l] = "ended"

LEMMA ThreadMoves ==
    ASSUME Base, [Next]_vars, NEW l \in Links
    PROVE  ThreadMoved(l)
<1>0. /\ bound \in [Links -> Keys \cup {NoKey}]
      /\ handler \in [Links -> {"none", "run", "ended"}]
  BY DEF Base, Types, ThreadType
<1>a. ASSUME UNCHANGED <<bound, handler>> PROVE ThreadMoved(l)
  BY <1>a DEF ThreadMoved
<1>1. ASSUME NEW c \in Clients,
             \/ PathDesign(c) \/ ClientSend(c) \/ Connect(c) \/ ReceiveId(c)
             \/ HandshakeBroken(c) \/ ClientReceive(c)
      PROVE  UNCHANGED <<bound, handler>>
  BY <1>1 DEF PathDesign, ClientSend, Connect, ReceiveId, HandshakeBroken, ClientReceive,
              threadVars
<1>2. ASSUME NEW c \in Clients, ConnectEntry(c) PROVE ThreadMoved(l)
  BY <1>0, <1>2 DEF ConnectEntry, threadVars, ThreadMoved
<1>3. ASSUME NEW k \in Keys, HandshakeStep(k) PROVE UNCHANGED <<bound, handler>>
  BY <1>3 DEF HandshakeStep, AcceptKey, AcceptRole, threadVars
<1>4. ASSUME NEW m \in Links, Bind(m) PROVE ThreadMoved(l)
  BY <1>0, <1>4 DEF Bind, ThreadMoved
<1>5. ASSUME NEW m \in Links, BindFails(m) PROVE ThreadMoved(l)
  BY <1>0, <1>5 DEF BindFails, ThreadMoved
<1>6. ASSUME NEW m \in Links, DecryptFails(m) \/ Forward(m) PROVE ThreadMoved(l)
  <2>1. /\ bound' = bound /\ handler[m] = "run"
        /\ handler' = handler \/ handler' = [handler EXCEPT ![m] = "ended"]
    BY <1>6 DEF DecryptFails, Forward, Takes
  <2> QED
    BY <1>0, <2>1 DEF ThreadMoved
<1>7. ASSUME NEW m \in Links, BindUnknown(m) \/ Deliver(m) \/ ListenerStep(m)
      PROVE  UNCHANGED <<bound, handler>>
  BY <1>7 DEF BindUnknown, Deliver, ListenerStep, HostAnswer, Backward, Report, threadVars
<1>8. ASSUME NEW r \in Relays, Crash(r) PROVE UNCHANGED <<bound, handler>>
  BY <1>8 DEF Crash, threadVars
<1>9. CASE UNCHANGED vars
  BY <1>a, <1>9 DEF vars, threadVars
<1> QED
  BY <1>a, <1>1, <1>2, <1>3, <1>4, <1>5, <1>6, <1>7, <1>8, <1>9
     DEF Next, ClientStep, HandlerStep

\* An onion that a relay can read is for the hop ahead.
LEMMA TakenHere ==
    ASSUME Base, NEW l \in Links, Takes(l), Readable(l)
    PROVE  /\ bound[l] = Ahead(l) /\ Ahead(l) \in Keys /\ Ahead(l) \in Links
           /\ Ahead(l) # l /\ Told(Ahead(l))
           /\ Head(fwd[l]).body.from = l[1]
<1>1. /\ bound[l] \in Keys /\ Head(fwd[l]).layers[1].key = bound[l]
      /\ Head(fwd[l]) \in Onions /\ OnionAt(l, Head(fwd[l]))
  BY TakenType DEF Base, IInv
<1>2. Len(Head(fwd[l]).layers) \in Nat
  BY <1>1, LenProperties DEF Onions
<1>3. 1 \in 1 .. Len(Head(fwd[l]).layers)
  BY <1>1, <1>2 DEF OnionAt
<1>4. /\ Head(fwd[l]).layers[1].key = Ahead(l) /\ Told(Ahead(l))
      /\ Head(fwd[l]).body.from = l[1]
  BY <1>1, <1>3 DEF OnionAt, Ahead, Told
<1>5. l[2] \in Nat
  BY ConstantFacts
<1>6. Ahead(l) # l
  BY <1>5 DEF Ahead
<1> QED
  BY <1>1, <1>4, <1>6, ConstantFacts

\* Its onions.
FwdMoved(l) ==
    \/ fwd'[l] = fwd[l]
    \/ fwd'[l] = << >> /\ \E c \in Clients : l = Entry(c) /\ ConnectEntry(c)
    \/ /\ fwd[l] # << >> /\ fwd'[l] = Tail(fwd[l]) /\ Takes(l)
       /\ DecryptFails(l) \/ Forward(l) \/ Deliver(l)
    \/ \E c \in Clients : /\ l = Entry(c) /\ ClientSend(c)
                          /\ fwd'[l] = Append(fwd[l], Onion(c, sent[c] + 1))
    \/ \E m \in Links : /\ Forward(m) /\ l = bound[m] /\ l = Ahead(m) /\ fwd[m] # << >>
                        /\ link[l] = "open" /\ up[LinkTo(l)]
                        /\ fwd'[m] = Tail(fwd[m])
                        /\ fwd'[l] = Append(fwd[l], Peel(Head(fwd[m])))

LEMMA FwdMoves ==
    ASSUME Base, [Next]_vars, NEW l \in Links
    PROVE  FwdMoved(l)
<1>0. fwd \in [Links -> Seq(Onions)]
  BY DEF Base, Types, NetType
<1>a. ASSUME fwd' = fwd PROVE FwdMoved(l)
  BY <1>a DEF FwdMoved
<1>1. ASSUME NEW c \in Clients,
             \/ PathDesign(c) \/ Connect(c) \/ ReceiveId(c) \/ HandshakeBroken(c)
             \/ ClientReceive(c)
      PROVE  fwd' = fwd
  BY <1>1 DEF PathDesign, Connect, ReceiveId, HandshakeBroken, ClientReceive, netVars
<1>2. ASSUME NEW c \in Clients, ConnectEntry(c) PROVE FwdMoved(l)
  BY <1>0, <1>2 DEF ConnectEntry, FwdMoved
<1>3. ASSUME NEW c \in Clients, ClientSend(c) PROVE FwdMoved(l)
  BY <1>0, <1>3 DEF ClientSend, FwdMoved
<1>4. ASSUME NEW k \in Keys, HandshakeStep(k) PROVE fwd' = fwd
  BY <1>4 DEF HandshakeStep, AcceptKey, AcceptRole, netVars
<1>5. ASSUME NEW m \in Links, BindUnknown(m) \/ Bind(m) \/ BindFails(m) \/ ListenerStep(m)
      PROVE  fwd' = fwd
  BY <1>5 DEF BindUnknown, Bind, BindFails, ListenerStep, HostAnswer, Backward, Report, netVars
<1>6. ASSUME NEW m \in Links, Takes(m), DecryptFails(m) \/ Forward(m) \/ Deliver(m),
             fwd' = Received(m)
      PROVE  FwdMoved(l)
  BY <1>0, <1>6 DEF Received, Takes, FwdMoved
<1>7. ASSUME NEW m \in Links, DecryptFails(m) \/ Deliver(m) PROVE FwdMoved(l)
  BY <1>6, <1>7 DEF DecryptFails, Deliver
<1>8. ASSUME NEW m \in Links, Forward(m) PROVE FwdMoved(l)
  <2>1. Takes(m) /\ Readable(m) /\ fwd[m] # << >>
    BY <1>8 DEF Forward, Takes
  <2>2. bound[m] = Ahead(m) /\ bound[m] \in Links /\ bound[m] # m
    BY <2>1, TakenHere
  <2>3. CASE fwd' = Received(m)
    BY <1>6, <1>8, <2>1, <2>3
  <2>4. CASE fwd' # Received(m)
    <3>1. /\ link[bound[m]] = "open" /\ ~ Broken(bound[m])
          /\ fwd' = [Received(m) EXCEPT ![bound[m]] = Append(@, Peel(Head(fwd[m])))]
      BY <1>8, <2>4 DEF Forward
    <3>2. /\ fwd'[bound[m]] = Append(fwd[bound[m]], Peel(Head(fwd[m])))
          /\ fwd'[m] = Tail(fwd[m])
          /\ l # m /\ l # bound[m] => fwd'[l] = fwd[l]
      BY <1>0, <2>2, <3>1 DEF Received
    <3> QED
      BY <1>8, <2>1, <2>2, <3>1, <3>2 DEF FwdMoved, Broken
  <2> QED
    BY <2>3, <2>4
<1>9. ASSUME NEW r \in Relays, Crash(r) PROVE fwd' = fwd
  BY <1>9 DEF Crash, netVars
<1>10. CASE UNCHANGED vars
  BY <1>a, <1>10 DEF vars, netVars
<1> QED
  BY <1>a, <1>1, <1>2, <1>3, <1>4, <1>5, <1>7, <1>8, <1>9, <1>10
     DEF Next, ClientStep, HandlerStep

\* Its answers.
NewAnswer(l, msg) ==
    \/ BindFails(l) /\ msg = Answer(Addressed(l), Unreachable(Addressed(l)))
    \/ /\ HostAnswer(l) /\ host[bound[l]] # << >>
       /\ msg = Answer(bound[l], Head(host[bound[l]]))
    \/ /\ Backward(l) /\ back[bound[l]] # << >>
       /\ msg = Wrap(bound[l], Head(back[bound[l]]))
    \/ \E m \in Links : /\ Report(m) /\ l = prv[bound[m]] /\ bound[m] \in Keys
                        /\ msg = Answer(bound[m], Unreachable(bound[m]))
BackMoved(l) ==
    \/ back'[l] = back[l]
    \/ back'[l] = << >> /\ \E c \in Clients : l = Entry(c) /\ ConnectEntry(c)
    \/ /\ back[l] # << >> /\ back'[l] = Tail(back[l])
       /\ \/ \E c \in Clients : l = Entry(c) /\ ClientReceive(c)
          \/ \E m \in Links : l = bound[m] /\ l # m /\ Backward(m)
    \/ /\ link[l] = "open"
       /\ \E msg \in Answers : back'[l] = Append(back[l], msg) /\ NewAnswer(l, msg)

LEMMA BackMoves ==
    ASSUME Base, [Next]_vars, NEW l \in Links
    PROVE  BackMoved(l)
<1>0. back \in [Links -> Seq(Answers)] /\ host \in [Keys -> Seq(Body)]
  BY DEF Base, Types, NetType
<1>a. ASSUME back' = back PROVE BackMoved(l)
  BY <1>a DEF BackMoved
<1>b. ASSUME NEW msg \in Answers, NewAnswer(l, msg), back'[l] = Reply(l, msg)
      PROVE  BackMoved(l)
  BY <1>b DEF Reply, BackMoved
<1>1. ASSUME NEW c \in Clients,
             \/ PathDesign(c) \/ Connect(c) \/ ReceiveId(c) \/ HandshakeBroken(c)
             \/ ClientSend(c)
      PROVE  back' = back
  BY <1>1 DEF PathDesign, Connect, ReceiveId, HandshakeBroken, ClientSend, netVars
<1>2. ASSUME NEW c \in Clients, ConnectEntry(c) PROVE BackMoved(l)
  BY <1>0, <1>2 DEF ConnectEntry, BackMoved
<1>3. ASSUME NEW c \in Clients, ClientReceive(c) PROVE BackMoved(l)
  BY <1>0, <1>3 DEF ClientReceive, BackMoved
<1>4. ASSUME NEW k \in Keys, HandshakeStep(k) PROVE back' = back
  BY <1>4 DEF HandshakeStep, AcceptKey, AcceptRole, netVars
<1>5. ASSUME NEW m \in Links,
             BindUnknown(m) \/ Bind(m) \/ DecryptFails(m) \/ Forward(m) \/ Deliver(m)
      PROVE  back' = back
  BY <1>5 DEF BindUnknown, Bind, DecryptFails, Forward, Deliver, netVars
<1>6. ASSUME NEW m \in Links, BindFails(m) PROVE BackMoved(l)
  <2> DEFINE msg == Answer(Addressed(m), Unreachable(Addressed(m)))
  <2>1. Addressed(m) \in Keys
    BY <1>6, AddressedType DEF BindFails, Base, IInv
  <2>2. msg \in Answers
    <3>1. Unreachable(Addressed(m)) \in Body
      BY <2>1, ConstantFacts DEF Unreachable, Body
    <3> QED
      BY <2>1, <3>1, AnswerType
  <2>3. CASE l = m
    <3>1. NewAnswer(l, msg)
      BY <1>6, <2>3 DEF NewAnswer
    <3>2. back'[l] = Reply(l, msg)
      BY <1>0, <1>6, <2>3 DEF BindFails
    <3> QED
      BY <1>b, <2>2, <3>1, <3>2
  <2>4. CASE l # m
    BY <1>0, <1>6, <2>4 DEF BindFails, BackMoved
  <2> QED
    BY <2>3, <2>4
<1>7. ASSUME NEW m \in Links, HostAnswer(m) PROVE BackMoved(l)
  <2> DEFINE k == bound[m]
             msg == Answer(k, Head(host[k]))
  <2>1. k \in Keys /\ host[k] # << >>
    BY <1>7 DEF HostAnswer, Base, IInv, LinkInv, LinkAt
  <2>2. msg \in Answers
    <3>1. Head(host[k]) \in Body
      BY <1>0, <2>1, HeadTailProperties
    <3> QED
      BY <2>1, <3>1, AnswerType
  <2>3. CASE l = m
    <3>1. NewAnswer(l, msg)
      BY <1>7, <2>1, <2>3 DEF NewAnswer
    <3>2. back'[l] = Reply(l, msg)
      BY <1>0, <1>7, <2>3 DEF HostAnswer
    <3> QED
      BY <1>b, <2>2, <3>1, <3>2
  <2>4. CASE l # m
    BY <1>0, <1>7, <2>4 DEF HostAnswer, BackMoved
  <2> QED
    BY <2>3, <2>4
<1>8. ASSUME NEW m \in Links, Backward(m) PROVE BackMoved(l)
  <2> DEFINE k == bound[m]
             msg == Wrap(k, Head(back[k]))
  <2>1. /\ k \in Keys /\ k \in Links /\ back[k] # << >>
        /\ back' = [back EXCEPT ![k] = Tail(@), ![m] = Reply(m, msg)]
    BY <1>8, ConstantFacts DEF Backward, Base, IInv, LinkInv, LinkAt
  <2>2. msg \in Answers
    <3>1. Head(back[k]) \in Answers
      BY <1>0, <2>1, HeadTailProperties
    <3> QED
      BY <2>1, <3>1, WrapType
  <2>3. CASE l = m
    <3>1. NewAnswer(l, msg)
      BY <1>8, <2>1, <2>3 DEF NewAnswer
    <3>2. back'[l] = Reply(l, msg)
      BY <1>0, <2>1, <2>3
    <3> QED
      BY <1>b, <2>2, <3>1, <3>2
  <2>4. CASE l # m /\ l = k
    BY <1>0, <1>8, <2>1, <2>4 DEF BackMoved
  <2>5. CASE l # m /\ l # k
    BY <1>0, <2>1, <2>5 DEF BackMoved
  <2> QED
    BY <2>3, <2>4, <2>5
<1>9. ASSUME NEW m \in Links, Report(m) PROVE BackMoved(l)
  <2> DEFINE k == bound[m]
             msg == Answer(k, Unreachable(k))
  <2>1. k \in Keys
    BY <1>9 DEF Report, Base, IInv, LinkInv, LinkAt
  <2>2. msg \in Answers
    <3>1. Unreachable(k) \in Body
      BY <2>1, ConstantFacts DEF Unreachable, Body
    <3> QED
      BY <2>1, <3>1, AnswerType
  <2>3. CASE l = prv[k]
    <3>1. NewAnswer(l, msg)
      BY <1>9, <2>1, <2>3 DEF NewAnswer
    <3>2. back'[l] = Reply(l, msg)
      BY <1>0, <1>9, <2>3 DEF Report
    <3> QED
      BY <1>b, <2>2, <3>1, <3>2
  <2>4. CASE l # prv[k]
    BY <1>0, <1>9, <2>4 DEF Report, BackMoved
  <2> QED
    BY <2>3, <2>4
<1>10. ASSUME NEW r \in Relays, Crash(r) PROVE back' = back
  BY <1>10 DEF Crash, netVars
<1>11. CASE UNCHANGED vars
  BY <1>a, <1>11 DEF vars, netVars
<1> QED
  BY <1>a, <1>1, <1>2, <1>3, <1>4, <1>5, <1>6, <1>7, <1>8, <1>9, <1>10, <1>11
     DEF Next, ClientStep, HandlerStep, ListenerStep

\* The messages its host has not answered, and those delivered.
HostMoved(k) ==
    \/ host'[k] = host[k]
    \/ /\ host[k] # << >> /\ host'[k] = Tail(host[k])
       /\ \E l \in Links : HostAnswer(l) /\ bound[l] = k
    \/ \E l \in Links : /\ Deliver(l) /\ bound[l] = k
                        /\ host'[k] = Append(host[k], Head(fwd[l]).body)

LEMMA HostMoves ==
    ASSUME Base, [Next]_vars, NEW k \in Keys
    PROVE  HostMoved(k)
<1>0. host \in [Keys -> Seq(Body)]
  BY DEF Base, Types, NetType
<1>a. ASSUME host' = host PROVE HostMoved(k)
  BY <1>a DEF HostMoved
<1>1. ASSUME NEW c \in Clients, PathDesign(c) \/ ClientSend(c) \/ ClientStep(c)
      PROVE  host' = host
  BY <1>1 DEF PathDesign, ClientSend, ClientStep, Connect, ReceiveId, HandshakeBroken,
              ConnectEntry, ClientReceive, netVars
<1>2. ASSUME NEW j \in Keys, HandshakeStep(j) PROVE host' = host
  BY <1>2 DEF HandshakeStep, AcceptKey, AcceptRole, netVars
<1>3. ASSUME NEW l \in Links,
             \/ BindUnknown(l) \/ Bind(l) \/ BindFails(l) \/ DecryptFails(l) \/ Forward(l)
             \/ Backward(l) \/ Report(l)
      PROVE  host' = host
  BY <1>3 DEF BindUnknown, Bind, BindFails, DecryptFails, Forward, Backward, Report, netVars
<1>4. ASSUME NEW l \in Links, Deliver(l) PROVE HostMoved(k)
  BY <1>0, <1>4 DEF Deliver, HostMoved
<1>5. ASSUME NEW l \in Links, HostAnswer(l) PROVE HostMoved(k)
  BY <1>0, <1>5 DEF HostAnswer, HostMoved
<1>6. ASSUME NEW r \in Relays, Crash(r) PROVE host' = host
  BY <1>6 DEF Crash, netVars
<1>7. CASE UNCHANGED vars
  BY <1>a, <1>7 DEF vars, netVars
<1> QED
  BY <1>a, <1>1, <1>2, <1>3, <1>4, <1>5, <1>6, <1>7 DEF Next, HandlerStep, ListenerStep

-----------------------------------------------------------------------------
(* What holds of the connections of a circuit. *)

\* A handshake is made with the relay that the hop before was told of.
ChainAt(c, i, j) ==
    i < j /\ hs[<<c, j>>] # "none" =>
        /\ Told(<<c, i>>) /\ told[<<c, i>>] # NoRelay
        /\ j = i + 1 => at[<<c, j>>] = told[<<c, i>>]
ChainInv == \A c \in Clients : \A i, j \in Hops : ChainAt(c, i, j)

\* An onion was typed, and names the conversations by their identifiers.
InfoAt(l, onion) ==
    /\ onion.body.n \in 1 .. sent[l[1]]
    /\ \A m \in 1 .. Len(onion.layers) : onion.layers[m].id = convId[onion.layers[m].key]
InfoInv == \A l \in Links : \A j \in 1 .. Len(fwd[l]) : InfoAt(l, fwd[l][j])

\* A connection is served by the conversation it is for, or by one of the same relay
\* with the same identifier.
Serves(l, k) == /\ Ahead(l) \in Keys /\ Told(Ahead(l))
                /\ at[k] = at[Ahead(l)] /\ convId[k] = convId[Ahead(l)]
ServeInv == /\ \A l \in Links : bound[l] # NoKey => Serves(l, bound[l])
            /\ \A k \in Keys : prv[k] # NoLink => Serves(prv[k], k)

\* Relays connect to the next one, exits talk to hosts.
RoleInv == \A k \in Keys : /\ link[k] # "none" => role[k] = "relay"
                           /\ host[k] # << >> => role[k] = "exit"

\* The conversation a handler works on is in the map, and is an exit or connected.
RunInv == \A l \in Links : handler[l] = "run" =>
              /\ bound[l] \in Keys /\ InMap(bound[l])
              /\ role[bound[l]] = "exit" \/ link[bound[l]] # "none"

\* Nothing is on a connection that was not made.
IdleInv == \A l \in Links : link[l] = "none" =>
              fwd[l] = << >> /\ back[l] = << >> /\ handler[l] = "none"

\* The client sends nothing before it is connected to its entry relay.
StartAt(c) ==
    /\ cpc[c] \in {"idle", "connect", "await", "entry"} =>
          link[Entry(c)] = "none" /\ sent[c] = 0
    /\ cpc[c] = "ready" => link[Entry(c)] # "none"
    /\ link[Entry(c)] # "none" => Told(<<c, 1>>)
StartInv == \A c \in Clients : StartAt(c)

\* The connection to the entry relay breaks for good.
FailInv == \A c \in Clients : link[Entry(c)] \in {"broken", "closed"} =>
              ~ InMap(<<c, 1>>) \/ ~ up[at[<<c, 1>>]]

Own == /\ ChainInv /\ InfoInv /\ ServeInv /\ RoleInv /\ RunInv /\ IdleInv
       /\ StartInv /\ FailInv

\* A connection leads to the relay of the hop ahead.
LEMMA LinkToAhead ==
    ASSUME Base, Own, NEW l \in Links, link[l] # "none", Ahead(l) \in Keys,
           hs[Ahead(l)] # "none"
    PROVE  LinkTo(l) = at[Ahead(l)]
<1>1. CASE l[2] = 0
  <2>1. Ahead(l) = <<l[1], 1>>
    BY <1>1 DEF Ahead
  <2> QED
    BY <1>1, <2>1 DEF LinkTo
<1>2. CASE l[2] # 0
  <2>1. /\ l \in Keys /\ l = <<l[1], l[2]>> /\ l[1] \in Clients /\ l[2] \in Hops
    BY <1>2, PathAssumption DEF Links, Keys, Hops
  <2>2. l[2] + 1 \in Hops
    BY DEF Ahead, Keys
  <2>3. ChainAt(l[1], l[2], l[2] + 1)
    BY <2>1, <2>2 DEF Own, ChainInv
  <2>4. at[Ahead(l)] = told[l]
    BY <2>1, <2>3, PathAssumption DEF ChainAt, Ahead, Hops
  <2>5. nxt[l] = told[l]
    BY <2>1 DEF Own, RoleInv, Base, IInv, HopInv, HandshakeInv, HandshakeAt
  <2> QED
    BY <1>2, <2>4, <2>5 DEF LinkTo
<1> QED
  BY <1>1, <1>2

\* The first message of a connection finds a conversation that may serve it.
LEMMA AddressedServes ==
    ASSUME Base, Own, NEW l \in Links, FirstMessage(l)
    PROVE  /\ Ahead(l) \in Keys /\ Told(Ahead(l))
           /\ Addressed(l) = convMap[at[Ahead(l)]][convId[Ahead(l)]]
           /\ Addressed(l) # NoKey => Serves(l, Addressed(l))
<1> DEFINE onion == Head(fwd[l])
<1>1. fwd[l] \in Seq(Onions) /\ fwd[l] # << >> /\ link[l] # "none"
  BY DEF Base, Types, NetType, FirstMessage
<1>2. onion \in Onions /\ onion = fwd[l][1] /\ 1 \in 1 .. Len(fwd[l])
  BY <1>1, HeadTailProperties, EmptySeq
<1>3. OnionAt(l, onion) /\ InfoAt(l, onion)
  BY <1>2 DEF Base, IInv, OnionInv, Own, InfoInv
<1> HIDE DEF onion
<1>4. Len(onion.layers) \in Nat /\ Len(onion.layers) > 0 /\ 1 \in 1 .. Len(onion.layers)
  BY <1>2, <1>3, LenProperties DEF Onions, OnionAt
<1>5. Outer(onion) = onion.layers[1] /\ Outer(onion) \in Layer
  BY <1>2, <1>4, PeelType
<1>6. onion.layers[1].key = Ahead(l) /\ Told(Ahead(l)) /\ onion.layers[1].id = convId[Ahead(l)]
  BY <1>3, <1>4 DEF OnionAt, InfoAt, Ahead, Told
<1>7. Ahead(l) \in Keys
  BY <1>5, <1>6 DEF Layer
<1>8. LinkTo(l) = at[Ahead(l)]
  BY <1>1, <1>6, <1>7, LinkToAhead DEF Told
<1>9. Addressed(l) = convMap[LinkTo(l)][Outer(onion).id]
  BY DEF Addressed, onion
<1>10. Addressed(l) # NoKey => at[Addressed(l)] = LinkTo(l)
                               /\ convId[Addressed(l)] = Outer(onion).id
  BY AddressedKey DEF onion
<1> QED
  BY <1>5, <1>6, <1>7, <1>8, <1>9, <1>10 DEF Serves

\* Its state.
LinkMoved(l) ==
    \/ link'[l] = link[l]
    \/ /\ link[l] = "none" /\ link'[l] = "open" /\ l \in Keys
       /\ role[l] = "relay" /\ up[nxt[l]]
       /\ \E m \in Links : Bind(m) /\ Addressed(m) = l
    \/ /\ link'[l] = "open"
       /\ \E c \in Clients : l = Entry(c) /\ ConnectEntry(c)
    \/ link[l] = "open" /\ link'[l] = "broken" /\ BindFails(l)
    \/ /\ link[l] # "none" /\ link'[l] = "closed"
       /\ link[l] # "open" \/ ~ up[LinkTo(l)]

LEMMA LinkMoves ==
    ASSUME Base, Own, [Next]_vars, NEW l \in Links
    PROVE  LinkMoved(l)
<1>0. link \in [Links -> {"none", "open", "broken", "closed"}]
  BY DEF Base, Types, NetType
<1>a. ASSUME link' = link PROVE LinkMoved(l)
  BY <1>a DEF LinkMoved
<1>1. ASSUME NEW c \in Clients,
             \/ PathDesign(c) \/ Connect(c) \/ ReceiveId(c) \/ HandshakeBroken(c)
             \/ ClientReceive(c)
      PROVE  link' = link
  BY <1>1 DEF PathDesign, Connect, ReceiveId, HandshakeBroken, ClientReceive, netVars
<1>2. ASSUME NEW c \in Clients, ConnectEntry(c) PROVE LinkMoved(l)
  BY <1>0, <1>2 DEF ConnectEntry, LinkMoved
<1>3. ASSUME NEW c \in Clients, ClientSend(c) PROVE LinkMoved(l)
  <2>1. cpc[c] = "ready" /\ StartAt(c)
    BY <1>3 DEF ClientSend, Own, StartInv
  <2>2. CASE l = Entry(c)
    BY <1>0, <1>3, <2>1, <2>2 DEF ClientSend, LinkMoved, StartAt, Broken
  <2>3. CASE l # Entry(c)
    BY <1>0, <1>3, <2>3 DEF ClientSend, LinkMoved
  <2> QED
    BY <2>2, <2>3
<1>4. ASSUME NEW k \in Keys, HandshakeStep(k) PROVE link' = link
  BY <1>4 DEF HandshakeStep, AcceptKey, AcceptRole, netVars
<1>5. ASSUME NEW m \in Links,
             BindUnknown(m) \/ DecryptFails(m) \/ Deliver(m) \/ ListenerStep(m)
      PROVE  link' = link
  BY <1>5 DEF BindUnknown, DecryptFails, Deliver, ListenerStep, HostAnswer, Backward, Report,
              netVars
<1>6. ASSUME NEW m \in Links, Bind(m) PROVE LinkMoved(l)
  <2>1. Addressed(m) \in Keys
    BY <1>6, AddressedKey DEF Bind
  <2> QED
    BY <1>0, <1>6, <2>1 DEF Bind, LinkMoved
<1>7. ASSUME NEW m \in Links, BindFails(m) PROVE LinkMoved(l)
  <2>1. link[m] = "open" /\ link' = [link EXCEPT ![m] = "broken"]
    BY <1>7 DEF BindFails, FirstMessage
  <2> QED
    BY <1>0, <1>7, <2>1 DEF LinkMoved
<1>8. ASSUME NEW m \in Links, Forward(m) PROVE LinkMoved(l)
  <2> DEFINE k == bound[m]
  <2>1. handler[m] = "run" /\ role[k] = "relay"
    BY <1>8 DEF Forward, Takes
  <2>2. link[k] # "none"
    BY <2>1 DEF Own, RunInv
  <2>3. \/ link' = link
        \/ /\ link' = [link EXCEPT ![k] = "closed"]
           /\ link[k] = "closed" \/ Broken(k)
    BY <1>8 DEF Forward
  <2> QED
    BY <1>0, <2>2, <2>3 DEF LinkMoved, Broken
<1>9. ASSUME NEW r \in Relays, Crash(r) PROVE link' = link
  BY <1>9 DEF Crash, netVars
<1>10. CASE UNCHANGED vars
  BY <1>a, <1>10 DEF vars, netVars
<1> QED
  BY <1>a, <1>1, <1>2, <1>3, <1>4, <1>5, <1>6, <1>7, <1>8, <1>9, <1>10
     DEF Next, ClientStep, HandlerStep

\* What the client is doing, what it sent, and which handshake it began.
CpcMoved(c) ==
    \/ cpc'[c] = cpc[c]
    \/ /\ cpc[c] \in {"idle", "connect", "await"}
       /\ cpc'[c] \in {"connect", "await", "entry", "stopped", "wedged"}
    \/ ConnectEntry(c) /\ cpc'[c] \in {"ready", "stopped"}
    \/ ClientReceive(c) /\ cpc'[c] = "wedged"
SentMoved(c) == sent'[c] = sent[c] \/ (ClientSend(c) /\ sent'[c] = sent[c] + 1)
HsMoved(k) ==
    hs'[k] = "none" \/ hs[k] # "none"
    \/ \E c \in Clients : /\ Connect(c) /\ k = <<c, hop[c]>> /\ cpc[c] = "connect"
                          /\ at'[k] = path[c][hop[c]] /\ up[at'[k]] /\ told' = told

LEMMA ClientMoves ==
    ASSUME Base, [Next]_vars
    PROVE  /\ \A c \in Clients : CpcMoved(c) /\ SentMoved(c)
           /\ \A k \in Keys : HsMoved(k)
<1> DEFINE P == /\ \A c \in Clients : CpcMoved(c) /\ SentMoved(c)
                /\ \A k \in Keys : HsMoved(k)
<1>0. /\ cpc \in [Clients -> {"idle", "connect", "await", "entry", "ready", "stopped", "wedged"}]
      /\ sent \in [Clients -> Nat]
      /\ at \in [Keys -> Relays \cup {NoRelay}]
      /\ hs \in [Keys -> {"none", "key", "id", "role", "done"}]
  BY DEF Base, Types, ClientType, UserType, HsType
<1>a. ASSUME UNCHANGED <<cpc, sent, hs>> PROVE P
  BY <1>a DEF CpcMoved, SentMoved, HsMoved
<1>1. ASSUME NEW c \in Clients, PathDesign(c) \/ HandshakeBroken(c) PROVE P
  <2>1. sent' = sent /\ hs' = hs
    BY <1>1 DEF PathDesign, HandshakeBroken, hsVars, userVars
  <2>2. \A d \in Clients : CpcMoved(d)
    BY <1>0, <1>1 DEF PathDesign, HandshakeBroken, StopSession, Wedge, CpcMoved
  <2> QED
    BY <2>1, <2>2 DEF SentMoved, HsMoved
<1>2. ASSUME NEW c \in Clients, Connect(c) PROVE P
  <2>1. sent' = sent
    BY <1>2 DEF Connect, userVars
  <2>2. \A d \in Clients : CpcMoved(d)
    BY <1>0, <1>2 DEF Connect, StopSession, CpcMoved
  <2>3. \A k \in Keys : HsMoved(k)
    <3> SUFFICES ASSUME NEW k \in Keys PROVE HsMoved(k)
      OBVIOUS
    <3>1. \/ hs' = hs
          \/ /\ at' = [at EXCEPT ![<<c, hop[c]>>] = path[c][hop[c]]]
             /\ hs' = [hs EXCEPT ![<<c, hop[c]>>] = "key"]
             /\ up[path[c][hop[c]]]
      BY <1>2 DEF Connect
    <3>2. cpc[c] = "connect" /\ told' = told
      BY <1>2 DEF Connect
    <3>3. CASE k = <<c, hop[c]>>
      BY <1>0, <1>2, <3>1, <3>2, <3>3 DEF HsMoved
    <3>4. CASE k # <<c, hop[c]>>
      BY <1>0, <3>1, <3>4 DEF HsMoved
    <3> QED
      BY <3>3, <3>4
  <2> QED
    BY <2>1, <2>2, <2>3 DEF SentMoved
<1>3. ASSUME NEW c \in Clients, ReceiveId(c) PROVE P
  <2>1. sent' = sent
    BY <1>3 DEF ReceiveId, userVars
  <2>2. \A d \in Clients : CpcMoved(d)
    BY <1>0, <1>3 DEF ReceiveId, CpcMoved
  <2>3. hs[<<c, hop[c]>>] = "id" /\ hs' = [hs EXCEPT ![<<c, hop[c]>>] = "role"]
    BY <1>3 DEF ReceiveId
  <2>4. \A k \in Keys : HsMoved(k)
    BY <1>0, <2>3 DEF HsMoved
  <2> QED
    BY <2>1, <2>2, <2>4 DEF SentMoved
<1>4. ASSUME NEW c \in Clients, ConnectEntry(c) PROVE P
  <2>1. sent' = sent /\ hs' = hs
    BY <1>4 DEF ConnectEntry, hsVars, userVars
  <2>2. \A d \in Clients : CpcMoved(d)
    BY <1>0, <1>4 DEF ConnectEntry, StopSession, CpcMoved
  <2> QED
    BY <2>1, <2>2 DEF SentMoved, HsMoved
<1>5. ASSUME NEW c \in Clients, ClientReceive(c) PROVE P
  <2>1. sent' = sent /\ hs' = hs
    BY <1>5 DEF ClientReceive, hsVars
  <2>2. \A d \in Clients : CpcMoved(d)
    BY <1>0, <1>5 DEF ClientReceive, Wedge, CpcMoved
  <2> QED
    BY <2>1, <2>2 DEF SentMoved, HsMoved
<1>6. ASSUME NEW c \in Clients, ClientSend(c) PROVE P
  BY <1>0, <1>6 DEF ClientSend, clientVars, hsVars, CpcMoved, SentMoved, HsMoved
<1>7. ASSUME NEW k \in Keys, HandshakeStep(k) PROVE P
  <2>1. UNCHANGED <<cpc, sent>> /\ hs[k] # "none" /\ \A j \in Keys \ {k} : hs'[j] = hs[j]
    BY <1>0, <1>7 DEF HandshakeStep, AcceptKey, AcceptRole, clientVars, userVars
  <2> QED
    BY <1>0, <2>1 DEF CpcMoved, SentMoved, HsMoved
<1>8. ASSUME NEW l \in Links, HandlerStep(l) PROVE UNCHANGED <<cpc, sent, hs>>
  BY <1>8 DEF HandlerStep, BindUnknown, Bind, BindFails, DecryptFails, Forward, Deliver,
              clientVars, hsVars, userVars
<1>9. ASSUME NEW l \in Links, ListenerStep(l) PROVE UNCHANGED <<cpc, sent, hs>>
  BY <1>9 DEF ListenerStep, HostAnswer, Backward, Report, clientVars, hsVars, userVars
<1>10. ASSUME NEW r \in Relays, Crash(r) PROVE UNCHANGED <<cpc, sent, hs>>
  BY <1>10 DEF Crash, clientVars, hsVars, userVars
<1>11. CASE UNCHANGED vars
  BY <1>a, <1>11 DEF vars, clientVars, hsVars, userVars
<1> QED
  BY <1>a, <1>1, <1>2, <1>3, <1>4, <1>5, <1>6, <1>7, <1>8, <1>9, <1>10, <1>11
     DEF Next, ClientStep

LEMMA ChainStep ==
    ASSUME Base, Own, [Next]_vars
    PROVE  ChainInv'
<1> SUFFICES ASSUME NEW c \in Clients, NEW i \in Hops, NEW j \in Hops,
                    i < j, hs'[<<c, j>>] # "none"
             PROVE  /\ Told(<<c, i>>)' /\ told'[<<c, i>>] # NoRelay
                    /\ j = i + 1 => at'[<<c, j>>] = told'[<<c, i>>]
  BY DEF ChainInv, ChainAt
<1>0. <<c, i>> \in Keys /\ <<c, j>> \in Keys
  BY ConstantFacts
<1>1. KeptAt(<<c, i>>) /\ KeptAt(<<c, j>>) /\ HsMoved(<<c, j>>)
  BY <1>0, Kept, ClientMoves
<1>2. CASE hs[<<c, j>>] # "none"
  <2>1. ChainAt(c, i, j)
    BY DEF Own, ChainInv
  <2> QED
    BY <1>1, <1>2, <2>1 DEF ChainAt, KeptAt
<1>3. CASE hs[<<c, j>>] = "none"
  <2>1. /\ cpc[c] = "connect" /\ j = hop[c] /\ told' = told
        /\ at'[<<c, j>>] = path[c][j]
    BY <1>1, <1>3 DEF HsMoved
  <2>2. /\ Len(path[c]) \in Hops /\ hop[c] \in 1 .. Len(path[c])
        /\ \A n \in 1 .. Len(path[c]) : path[c][n] \in Relays
    BY <2>1, OnPath DEF Base, Types, IInv
  <2>3. path[c] # << >>
    BY <2>2, EmptySeq
  <2>4. Told(<<c, i>>)
    BY <2>1, <2>3 DEF Base, IInv, HopInv, OrderInv, OrderAt, Told
  <2>5. i <= Len(path[c]) /\ i < Len(path[c]) /\ i + 1 \in 1 .. Len(path[c])
    BY <2>1, <2>2, PathAssumption DEF Hops
  <2>6. told[<<c, i>>] = path[c][i + 1]
    BY <2>4, <2>5 DEF Base, IInv, HopInv, ToldInv, ToldAt, NextHop, Told
  <2> QED
    BY <1>1, <2>1, <2>2, <2>4, <2>5, <2>6, ConstantFacts DEF KeptAt
<1> QED
  BY <1>2, <1>3

\* InfoAt in the next state, of an onion of this one.
InfoNext(l, onion) ==
    /\ onion.body.n \in 1 .. sent'[l[1]]
    /\ \A m \in 1 .. Len(onion.layers) : onion.layers[m].id = convId'[onion.layers[m].key]

\* An onion stays as it was typed.
LEMMA InfoStays ==
    ASSUME Base, [Next]_vars, NEW l \in Links, NEW onion \in Onions,
           OnionAt(l, onion), InfoAt(l, onion)
    PROVE  InfoNext(l, onion)
<1>1. onion.body.n \in 1 .. sent'[l[1]]
  <2>1. SentMoved(l[1]) /\ sent[l[1]] \in Nat
    BY ConstantFacts, ClientMoves DEF Base, Types, UserType
  <2> QED
    BY <2>1 DEF InfoAt, SentMoved
<1>2. ASSUME NEW m \in 1 .. Len(onion.layers)
      PROVE  onion.layers[m].id = convId'[onion.layers[m].key]
  <2> DEFINE k == onion.layers[m].key
  <2>1. onion.layers[m] \in Layer
    BY ElementOfSeq DEF Onions
  <2>2. k \in Keys /\ Told(k) /\ onion.layers[m].id = convId[k]
    BY <2>1 DEF Layer, OnionAt, InfoAt, Told
  <2> HIDE DEF k
  <2>3. convId[k] \in Ids
    BY <2>2 DEF Base, IInv, HopInv, HandshakeInv, HandshakeAt, Told
  <2>4. convId'[k] = convId[k]
    BY <2>2, <2>3, Kept, ConstantFacts DEF KeptAt
  <2> QED
    BY <2>2, <2>4 DEF k
<1> QED
  BY <1>1, <1>2 DEF InfoNext

LEMMA InfoStep ==
    ASSUME Base, Own, [Next]_vars
    PROVE  InfoInv'
<1> SUFFICES ASSUME NEW l \in Links, NEW j \in 1 .. Len(fwd'[l])
             PROVE  InfoNext(l, fwd'[l][j])
  BY DEF InfoInv, InfoAt, InfoNext
<1>0. fwd \in [Links -> Seq(Onions)]
  BY DEF Base, Types, NetType
<1>1. ASSUME NEW m \in 1 .. Len(fwd[l]) PROVE InfoNext(l, fwd[l][m])
  <2>1. fwd[l][m] \in Onions /\ OnionAt(l, fwd[l][m]) /\ InfoAt(l, fwd[l][m])
    BY <1>0, ElementOfSeq DEF Base, IInv, OnionInv, Own, InfoInv
  <2> QED
    BY <2>1, InfoStays
<1>2. FwdMoved(l)
  BY FwdMoves
<1>3. CASE fwd'[l] = fwd[l]
  BY <1>1, <1>3
<1>4. CASE fwd'[l] = << >>
  BY <1>4, EmptySeq
<1>5. CASE fwd[l] # << >> /\ fwd'[l] = Tail(fwd[l])
  BY <1>0, <1>1, <1>5, HeadTailProperties, LenProperties
<1>6. ASSUME NEW onion \in Onions, fwd'[l] = Append(fwd[l], onion), InfoNext(l, onion)
      PROVE  InfoNext(l, fwd'[l][j])
  <2>1. /\ Len(fwd[l]) \in Nat /\ Len(fwd'[l]) = Len(fwd[l]) + 1
        /\ \A i \in 1 .. Len(fwd[l]) : fwd'[l][i] = fwd[l][i]
        /\ fwd'[l][Len(fwd[l]) + 1] = onion
    BY <1>0, <1>6, AppendProperties, LenProperties
  <2> QED
    BY <1>1, <1>6, <2>1
<1>7. ASSUME NEW c \in Clients, l = Entry(c), ClientSend(c),
             fwd'[l] = Append(fwd[l], Onion(c, sent[c] + 1))
      PROVE  InfoNext(l, fwd'[l][j])
  <2> DEFINE onion == Onion(c, sent[c] + 1)
  <2>1. /\ cpc[c] = "ready" /\ sent[c] + 1 \in Nat /\ sent'[c] = sent[c] + 1
        /\ convId' = convId /\ sent[c] \in Nat
    BY <1>7 DEF ClientSend, Base, Types, UserType, convVars
  <2>2. onion \in Onions /\ OnionAt(l, onion) /\ l[1] = c
    BY <1>7, <2>1, OnionType, OnionSent, TypeSplit DEF Base, IInv, Entry
  <2>3. onion.body.n \in 1 .. sent'[c]
    BY <2>1 DEF Onion
  <2>4. ASSUME NEW m \in 1 .. Len(onion.layers)
        PROVE  onion.layers[m].id = convId[onion.layers[m].key]
    <3>1. m \in 1 .. Len(path[c]) /\ onion.layers[m] \in Layer
      BY <2>1, <2>2, OnionType, TypeSplit, ElementOfSeq DEF Base, IInv, Onions
    <3>2. onion.layers[m] = [id |-> hopId[<<c, m>>], key |-> <<c, m>>]
      BY <3>1 DEF Onion
    <3>3. <<c, m>> \in Keys
      BY <3>1, <3>2 DEF Layer
    <3>4. hs[<<c, m>>] \in {"role", "done"}
      <4>1. onion.layers[m].key = <<c, m>>
        BY <3>2
      <4>2. \A n \in 1 .. Len(onion.layers) : /\ onion.layers[n].key = <<l[1], l[2] + n>>
                                              /\ hs[<<l[1], l[2] + n>>] \in {"role", "done"}
        BY <2>2 DEF OnionAt
      <4> QED
        BY <4>1, <4>2
    <3>5. hopId[<<c, m>>] = convId[<<c, m>>]
      BY <3>3, <3>4 DEF Base, IInv, HopInv, HandshakeInv, HandshakeAt
    <3> QED
      BY <3>2, <3>5
  <2> HIDE DEF onion
  <2>5. InfoNext(l, onion)
    BY <2>1, <2>2, <2>3, <2>4 DEF InfoNext
  <2> QED
    BY <1>6, <1>7, <2>2, <2>5 DEF onion
<1>8. ASSUME NEW m \in Links, Forward(m), l = bound[m], l = Ahead(m), fwd[m] # << >>,
             fwd'[l] = Append(fwd[l], Peel(Head(fwd[m])))
      PROVE  InfoNext(l, fwd'[l][j])
  <2> DEFINE onion == Head(fwd[m])
  <2>1. onion \in Onions /\ onion = fwd[m][1] /\ 1 \in 1 .. Len(fwd[m])
    BY <1>0, <1>8, HeadTailProperties, EmptySeq
  <2>2. InfoAt(m, onion) /\ OnionAt(m, onion)
    BY <2>1 DEF Base, IInv, OnionInv, Own, InfoInv
  <2> HIDE DEF onion
  <2>3. Len(onion.layers) \in Nat /\ Len(onion.layers) > 0
    BY <2>1, <2>2, LenProperties DEF Onions, OnionAt
  <2>4. /\ Peel(onion) \in Onions /\ Peel(onion).body = onion.body
        /\ Len(Peel(onion).layers) = Len(onion.layers) - 1
        /\ \A i \in 1 .. Len(onion.layers) - 1 : Peel(onion).layers[i] = onion.layers[i + 1]
    BY <2>1, <2>3, PeelType
  <2>5. sent' = sent /\ convId' = convId
    BY <1>8 DEF Forward, convVars, userVars
  <2>6. l[1] = m[1]
    BY <1>8 DEF Ahead
  <2>7. ASSUME NEW i \in 1 .. Len(onion.layers) - 1
        PROVE  i + 1 \in 1 .. Len(onion.layers)
    BY <2>3
  <2>8. InfoNext(l, Peel(onion))
    BY <2>2, <2>4, <2>5, <2>6, <2>7 DEF InfoAt, InfoNext
  <2> QED
    BY <1>6, <1>8, <2>4, <2>8 DEF onion
<1> QED
  BY <1>2, <1>3, <1>4, <1>5, <1>7, <1>8 DEF FwdMoved

LEMMA ServesStays ==
    ASSUME Base, [Next]_vars, NEW l \in Links, NEW k \in Keys, Serves(l, k)
    PROVE  Serves(l, k)'
<1> DEFINE a == Ahead(l)
<1>1. a \in Keys /\ Told(a) /\ at[k] = at[a] /\ convId[k] = convId[a]
  BY DEF Serves
<1>2. convId[a] \in Ids
  BY <1>1 DEF Base, IInv, HopInv, HandshakeInv, HandshakeAt, Told
<1>3. KeptAt(a) /\ KeptAt(k)
  BY <1>1, Kept
<1>4. Ahead(l)' = a
  BY DEF Ahead
<1> HIDE DEF a
<1>5. hs[a] # "none"
  BY <1>1 DEF Told
<1>6. /\ Told(a)' /\ at'[a] = at[a] /\ convId'[a] = convId[a]
      /\ at'[k] = at[k] /\ convId'[k] = convId[k]
  BY <1>1, <1>2, <1>3, <1>5, ConstantFacts DEF KeptAt
<1> QED
  BY <1>1, <1>4, <1>6 DEF Serves, Told, a

\* Which connections a conversation answers to.
PrvMoved(k) ==
    \/ prv'[k] = prv[k]
    \/ \E l \in Links : /\ Bind(l) \/ BindFails(l)
                        /\ k = Addressed(l) /\ prv'[k] = l

LEMMA PrvMoves ==
    ASSUME Base, [Next]_vars, NEW k \in Keys
    PROVE  PrvMoved(k)
<1>0. prv \in [Keys -> Links \cup {NoLink}]
  BY DEF Base, Types, ConvType
<1>a. ASSUME prv' = prv PROVE PrvMoved(k)
  BY <1>a DEF PrvMoved
<1>1. ASSUME NEW c \in Clients, PathDesign(c) \/ ClientSend(c) \/ ClientStep(c)
      PROVE  prv' = prv
  BY <1>1 DEF PathDesign, ClientSend, ClientStep, Connect, ReceiveId, HandshakeBroken,
              ConnectEntry, ClientReceive, convVars
<1>2. ASSUME NEW j \in Keys, HandshakeStep(j) PROVE prv' = prv
  BY <1>2 DEF HandshakeStep, AcceptKey, AcceptRole
<1>3. ASSUME NEW l \in Links, Bind(l) \/ BindFails(l) PROVE PrvMoved(k)
  <2>1. prv' = [prv EXCEPT ![Addressed(l)] = l]
    BY <1>3 DEF Bind, BindFails
  <2> QED
    BY <1>0, <1>3, <2>1 DEF PrvMoved
<1>4. ASSUME NEW l \in Links,
             BindUnknown(l) \/ DecryptFails(l) \/ Forward(l) \/ Deliver(l) \/ ListenerStep(l)
      PROVE  prv' = prv
  BY <1>4 DEF BindUnknown, DecryptFails, Forward, Deliver, ListenerStep, HostAnswer, Backward,
              Report, convVars
<1>5. ASSUME NEW r \in Relays, Crash(r) PROVE prv' = prv
  BY <1>5 DEF Crash, convVars
<1>6. CASE UNCHANGED vars
  BY <1>a, <1>6 DEF vars, convVars
<1> QED
  BY <1>a, <1>1, <1>2, <1>3, <1>4, <1>5, <1>6 DEF Next, HandlerStep

LEMMA ServeStep ==
    ASSUME Base, Own, [Next]_vars
    PROVE  ServeInv'
<1>1. ASSUME NEW l \in Links, Bind(l) \/ BindFails(l)
      PROVE  Addressed(l) \in Keys /\ Serves(l, Addressed(l))
  BY <1>1, AddressedServes, AddressedKey DEF Bind, BindFails
<1>2. ASSUME NEW l \in Links, NEW k \in Keys, Serves(l, k)
      PROVE  Serves(l, k)'
  BY <1>2, ServesStays
<1>3. ASSUME NEW l \in Links, NEW k \in Keys, bound'[l] = k
      PROVE  Serves(l, k)'
  <2>1. CASE bound[l] = k
    BY <1>2, <2>1, ConstantFacts DEF Own, ServeInv
  <2>2. CASE bound[l] # k
    <3>1. (Bind(l) \/ BindFails(l)) /\ k = Addressed(l)
      BY <1>3, <2>2, ThreadMoves, ConstantFacts DEF ThreadMoved
    <3> QED
      BY <1>1, <1>2, <3>1
  <2> QED
    BY <2>1, <2>2
<1>4. ASSUME NEW k \in Keys, NEW l \in Links, prv'[k] = l
      PROVE  Serves(l, k)'
  <2>1. CASE prv[k] = l
    BY <1>2, <2>1, ConstantFacts DEF Own, ServeInv
  <2>2. CASE prv[k] # l
    <3>1. (Bind(l) \/ BindFails(l)) /\ k = Addressed(l)
      BY <1>4, <2>2, PrvMoves DEF PrvMoved
    <3> QED
      BY <1>1, <1>2, <3>1
  <2> QED
    BY <2>1, <2>2
<1>5. ASSUME NEW l \in Links, bound'[l] # NoKey PROVE Serves(l, bound[l])'
  <2>1. bound'[l] \in Keys
    BY <1>1, <1>5, ThreadMoves DEF ThreadMoved, Base, Types, ThreadType
  <2>2. PICK k \in Keys : bound'[l] = k
    BY <2>1
  <2>3. Serves(l, k)'
    BY <1>3, <2>2
  <2> QED
    BY <2>2, <2>3 DEF Serves
<1>6. ASSUME NEW k \in Keys, prv'[k] # NoLink PROVE Serves(prv[k], k)'
  <2>1. prv'[k] \in Links
    BY <1>6, PrvMoves DEF PrvMoved, Base, Types, ConvType
  <2>2. PICK l \in Links : prv'[k] = l
    BY <2>1
  <2>3. Serves(l, k)'
    BY <1>4, <2>2
  <2> QED
    BY <2>2, <2>3 DEF Serves, Ahead
<1> QED
  BY <1>5, <1>6 DEF ServeInv

\* A conversation is deleted by a handler that fails, before it is connected.
LEMMA FreedBy ==
    ASSUME Base, [Next]_vars, NEW k \in Keys, role[k] # "freed", role'[k] = "freed"
    PROVE  /\ \E l \in Links : BindFails(l) /\ Addressed(l) = k
           /\ link[k] = "none" /\ link'[k] = "none"
           /\ role[k] \in {"unset", "relay"} /\ hs' = hs
<1>0. role \in [Keys -> {"unset", "relay", "exit", "freed"}]
  BY DEF Base, Types, ConvType
<1>1. ASSUME NEW c \in Clients, PathDesign(c) \/ ClientSend(c) \/ ClientStep(c)
      PROVE  role' = role
  BY <1>1 DEF PathDesign, ClientSend, ClientStep, Connect, ReceiveId, HandshakeBroken,
              ConnectEntry, ClientReceive, convVars
<1>2. ASSUME NEW j \in Keys, HandshakeStep(j) PROVE role'[k] # "freed"
  BY <1>0, <1>2 DEF HandshakeStep, AcceptKey, AcceptRole
<1>3. ASSUME NEW l \in Links,
             \/ BindUnknown(l) \/ Bind(l) \/ DecryptFails(l) \/ Forward(l) \/ Deliver(l)
             \/ ListenerStep(l)
      PROVE  role' = role
  BY <1>3 DEF BindUnknown, Bind, DecryptFails, Forward, Deliver, ListenerStep, HostAnswer,
              Backward, Report, convVars
<1>4. ASSUME NEW r \in Relays, Crash(r) PROVE role' = role
  BY <1>4 DEF Crash, convVars
<1>5. CASE UNCHANGED vars
  BY <1>5 DEF vars, convVars
<1>6. PICK l \in Links : BindFails(l)
  BY <1>1, <1>2, <1>3, <1>4, <1>5 DEF Next, HandlerStep
<1>7. Addressed(l) = k
  BY <1>0, <1>6 DEF BindFails
<1>8. /\ link[k] = "none" /\ role[k] \in {"unset", "relay"} /\ hs' = hs
      /\ link[l] = "open" /\ link' = [link EXCEPT ![l] = "broken"]
  BY <1>6, <1>7 DEF BindFails, FirstMessage, hsVars
<1>9. link'[k] = "none"
  BY <1>8, ConstantFacts DEF Base, Types, NetType
<1> QED
  BY <1>6, <1>7, <1>8, <1>9

LEMMA RoleStep ==
    ASSUME Base, Own, [Next]_vars
    PROVE  RoleInv'
<1> SUFFICES ASSUME NEW k \in Keys
             PROVE  /\ link'[k] # "none" => role'[k] = "relay"
                    /\ host'[k] # << >> => role'[k] = "exit"
  BY DEF RoleInv
<1>0. KeptAt(k) /\ k \in Links
  BY Kept, ConstantFacts
<1>1. ASSUME link'[k] # "none" PROVE role'[k] = "relay"
  <2>1. role[k] = "relay"
    <3>1. k # Entry(k[1])
      BY DEF Keys, Entry, Hops
    <3>2. link[k] # "none" \/ role[k] = "relay"
      BY <1>0, <1>1, <3>1, LinkMoves, ConstantFacts DEF LinkMoved, Entry
    <3> QED
      BY <3>2 DEF Own, RoleInv
  <2>2. role'[k] # "freed"
    BY <1>1, <2>1, FreedBy
  <2> QED
    BY <1>0, <2>1, <2>2 DEF KeptAt
<1>2. ASSUME host'[k] # << >> PROVE role'[k] = "exit"
  <2>1. role[k] = "exit"
    BY <1>2, HostMoves DEF HostMoved, HostAnswer, Deliver, Own, RoleInv
  <2> QED
    BY <1>0, <2>1 DEF KeptAt
<1> QED
  BY <1>1, <1>2

LEMMA RunStep ==
    ASSUME Base, Own, [Next]_vars
    PROVE  RunInv'
<1> SUFFICES ASSUME NEW l \in Links, handler'[l] = "run"
             PROVE  /\ bound'[l] \in Keys /\ InMap(bound[l])'
                    /\ role'[bound'[l]] = "exit" \/ link'[bound'[l]] # "none"
  BY DEF RunInv
<1>0. link \in [Links -> {"none", "open", "broken", "closed"}]
  BY DEF Base, Types, NetType
<1>1. CASE Bind(l) /\ bound'[l] = Addressed(l)
  <2> DEFINE k == Addressed(l)
  <2>1. k \in Keys /\ InMap(k) /\ k \in Links
    BY <1>1, AddressedKey, ConstantFacts DEF Bind
  <2>2. UNCHANGED <<at, convId, convMap, role>>
    BY <1>1 DEF Bind, hsVars
  <2>3. role[k] = "exit" \/ link'[k] # "none"
    <3>1. \/ role[k] = "exit" 
          \/ link[k] # "none" /\ link' = link
          \/ link' = [link EXCEPT ![k] = "open"]
      BY <1>1 DEF Bind
    <3> QED
      BY <1>0, <2>1, <3>1
  <2> HIDE DEF k
  <2>4. bound'[l] = k
    BY <1>1 DEF k
  <2> QED
    BY <2>1, <2>2, <2>3, <2>4 DEF InMap
<1>2. CASE bound'[l] = bound[l] /\ handler[l] = "run"
  <2>1. PICK k \in Keys : k = bound[l] /\ InMap(k) /\ (role[k] = "exit" \/ link[k] # "none")
    BY <1>2 DEF Own, RunInv
  <2>2. k \in Links /\ Serves(l, k)
    BY <2>1, ConstantFacts DEF Own, ServeInv
  <2>3. convId[k] # NoId
    BY <2>2, ConstantFacts DEF Serves, Told, Base, IInv, HopInv, HandshakeInv, HandshakeAt
  <2>4. InMap(k)' /\ KeptAt(k)
    BY <2>1, <2>3, MapMoves, Kept DEF MapMovedAt
  <2>5. link[k] # "none" => link'[k] # "none"
    BY <2>2, LinkMoves DEF LinkMoved
  <2> QED
    BY <1>2, <2>1, <2>4, <2>5 DEF KeptAt, InMap
<1> QED
  BY <1>1, <1>2, ThreadMoves DEF ThreadMoved

LEMMA IdleStep ==
    ASSUME Base, Own, [Next]_vars
    PROVE  IdleInv'
<1> SUFFICES ASSUME NEW l \in Links, link'[l] = "none"
             PROVE  fwd'[l] = << >> /\ back'[l] = << >> /\ handler'[l] = "none"
  BY DEF IdleInv
<1>1. link[l] = "none"
  BY LinkMoves DEF LinkMoved
<1>2. fwd[l] = << >> /\ back[l] = << >> /\ handler[l] = "none"
  BY <1>1 DEF Own, IdleInv
<1>3. ASSUME NEW c \in Clients, l = Entry(c) PROVE ~ ClientSend(c)
  BY <1>1, <1>3 DEF ClientSend, Own, StartInv, StartAt
<1>4. fwd'[l] = << >>
  BY <1>1, <1>2, <1>3, FwdMoves DEF FwdMoved
<1>5. back'[l] = << >>
  BY <1>1, <1>2, BackMoves DEF BackMoved
<1>6. handler'[l] = "none"
  BY <1>1, <1>2, ThreadMoves DEF ThreadMoved, Bind, BindFails, FirstMessage
<1> QED
  BY <1>4, <1>5, <1>6

LEMMA StartStep ==
    ASSUME Base, Own, [Next]_vars
    PROVE  StartInv'
<1> SUFFICES ASSUME NEW c \in Clients PROVE StartAt(c)'
  BY DEF StartInv
<1>0. /\ Entry(c) \in Links /\ <<c, 1>> \in Keys /\ Entry(c)' = Entry(c)
      /\ StartAt(c) /\ CpcMoved(c) /\ SentMoved(c) /\ KeptAt(<<c, 1>>)
  BY ConstantFacts, ClientMoves, Kept DEF Own, StartInv, Entry
<1>1. CASE ConnectEntry(c)
  <2>1. /\ cpc'[c] \in {"ready", "stopped"} /\ cpc[c] \in {"entry", "ready"}
        /\ sent' = sent
        /\ cpc'[c] = "ready" => link'[Entry(c)] = "open"
    BY <1>0, <1>1 DEF ConnectEntry, StopSession, Base, Types, ClientType, NetType, userVars
  <2>2. Told(<<c, 1>>)
    <3>1. path[c] # << >> /\ Len(path[c]) \in Nat /\ hop[c] = Len(path[c]) /\ hop[c] \in Hops
      <4>1. OrderAt(c, 1) /\ PathAt(c)
        BY ConstantFacts DEF Base, IInv, HopInv, OrderInv, PathInv
      <4>2. path[c] \in Seq(Relays) /\ hop[c] \in Hops
        BY DEF Base, Types, ClientType
      <4> QED
        BY <2>1, <4>1, <4>2, LenProperties DEF OrderAt, PathAt
    <3>2. OrderAt(c, 1)
      BY ConstantFacts DEF Base, IInv, HopInv, OrderInv
    <3>3. \A h \in Hops : h = 1 \/ 1 < h
      BY PathAssumption DEF Hops
    <3> QED
      BY <2>1, <3>1, <3>2, <3>3 DEF OrderAt, Told
  <2> QED
    BY <1>0, <2>1, <2>2 DEF StartAt, KeptAt
<1>2. CASE ~ ConnectEntry(c)
  <2>1. link'[Entry(c)] = "none" <=> link[Entry(c)] = "none"
    <3>1. ASSUME NEW d \in Clients, Entry(c) = Entry(d) PROVE d = c
      BY <3>1 DEF Entry
    <3>2. Entry(c) \notin Keys
      BY DEF Entry, Keys, Hops
    <3> QED
      BY <1>0, <1>2, <3>1, <3>2, LinkMoves DEF LinkMoved
  <2>2. ClientSend(c) \/ ClientReceive(c) => cpc[c] = "ready"
    BY DEF ClientSend, ClientReceive
  <2>3. cpc'[c] \in {"idle", "connect", "await", "entry"} =>
           cpc[c] \in {"idle", "connect", "await", "entry"}
    BY <1>0, <1>2 DEF CpcMoved
  <2>4. cpc'[c] = "ready" => cpc[c] = "ready"
    BY <1>0, <1>2 DEF CpcMoved
  <2>5. cpc[c] # "ready" => sent'[c] = sent[c]
    BY <1>0, <2>2 DEF SentMoved
  <2> QED
    BY <1>0, <2>1, <2>3, <2>4, <2>5 DEF StartAt, KeptAt
<1> QED
  BY <1>1, <1>2

LEMMA FailStep ==
    ASSUME Base, Own, [Next]_vars
    PROVE  FailInv'
<1> SUFFICES ASSUME NEW c \in Clients, link'[Entry(c)] \in {"broken", "closed"}
             PROVE  ~ InMap(<<c, 1>>)' \/ ~ up'[at'[<<c, 1>>]]
  BY DEF FailInv, Entry
<1> DEFINE l == Entry(c)
           k == <<c, 1>>
<1>0. /\ l \in Links /\ k \in Keys /\ Ahead(l) = k /\ LinkTo(l) = at[k]
      /\ KeptAt(k) /\ StartAt(c) /\ LinkMoved(l)
  BY ConstantFacts, Kept, LinkMoves DEF Ahead, Entry, LinkTo, Own, StartInv
<1>1. link[l] # "none"
  BY <1>0 DEF LinkMoved
<1>2. Told(k)
  BY <1>0, <1>1 DEF StartAt
<1>3. convId[k] # NoId /\ at[k] \in Relays /\ at'[k] = at[k]
  <2>1. hs[k] # "none"
    BY <1>2 DEF Told
  <2> QED
    BY <1>0, <1>2, <2>1, ConstantFacts
       DEF KeptAt, Base, MapInv, ConvInv, ConvAt, IInv, HopInv, HandshakeInv, HandshakeAt, Told
<1> HIDE DEF k
<1>4. InMap(k)' => InMap(k)
  BY <1>0, <1>3, MapMoves DEF MapMovedAt
<1>5. up'[at'[k]] => up[at[k]]
  BY <1>3, DownForGood
<1>6. CASE link[l] \in {"broken", "closed"} \/ ~ up[at[k]]
  BY <1>4, <1>5, <1>6 DEF Own, FailInv, k
<1>7. CASE link[l] = "open" /\ BindFails(l)
  <2> DEFINE j == Addressed(l)
  <2>1. j \in Keys /\ j # NoKey
    BY <1>0, <1>7, AddressedKey, ConstantFacts DEF BindFails
  <2>2. at[j] = at[k] /\ convId[j] = convId[k]
    BY <1>0, <1>7, <2>1, AddressedServes DEF BindFails, Serves
  <2>3. convMap' = [convMap EXCEPT ![at[j]] = Erased(@, convId[j])] /\ UNCHANGED <<at, convId>>
    BY <1>7 DEF BindFails, hsVars
  <2> HIDE DEF j
  <2>4. convId[k] \in Ids /\ convMap \in [Relays -> [Ids -> Keys \cup {NoKey}]] /\ NoKey \notin Keys
    BY <1>0, <1>3, ConstantFacts DEF Base, Types, ConvType
  <2>5. convMap'[at[k]][convId[k]] = NoKey
    BY <1>3, <2>2, <2>3, <2>4 DEF Erased
  <2>6. ~ InMap(k)'
    BY <1>0, <1>3, <2>3, <2>4, <2>5 DEF InMap
  <2> QED
    BY <2>6 DEF k
<1>8. link[l] \in {"none", "open", "broken", "closed"} /\ link'[l] \in {"broken", "closed"}
  BY <1>0 DEF Base, Types, NetType
<1> QED
  BY <1>0, <1>6, <1>7, <1>8 DEF LinkMoved

LEMMA OwnInit == Init => Own
<1> SUFFICES ASSUME Init PROVE Own
  OBVIOUS
<1>1. Len(<< >>) = 0
  BY EmptySeq
<1>2. ChainInv
  BY DEF Init, ChainInv, ChainAt, Hops, Keys
<1>3. InfoInv
  BY <1>1 DEF Init, InfoInv
<1>4. ServeInv /\ RoleInv /\ RunInv /\ IdleInv
  BY ConstantFacts DEF Init, ServeInv, RoleInv, RunInv, IdleInv
<1>5. StartInv /\ FailInv
  BY ConstantFacts DEF Init, StartInv, StartAt, FailInv
<1> QED
  BY <1>2, <1>3, <1>4, <1>5 DEF Own

LEMMA OwnStep ==
    ASSUME Base, Own, [Next]_vars
    PROVE  Own'
  BY ChainStep, InfoStep, ServeStep, RoleStep, RunStep, IdleStep, StartStep, FailStep DEF Own

\* The invariants so far hold throughout.
LEMMA Foundation == Spec => [](Base /\ Own)
<1>1. Init => Base /\ Own
  <2>1. Init => MapInv
    BY NoValueAssumption DEF Init, MapInv, ConvInv, ConvAt, MapFindsConversations
  <2> QED
    BY <2>1, InitEstablishes, OwnInit DEF Base
<1>2. Base /\ Own /\ [Next]_vars => Own'
  BY OwnStep
<1>3. Types /\ IInv /\ MapInv /\ [Next]_vars => MapInv'
  BY MapStep
<1> QED
  BY <1>1, <1>2, <1>3, Inductive, PTL DEF Spec, Base

-----------------------------------------------------------------------------
(* Where answers go. *)

\* A connection served by another conversation than its own is one of a circuit with an
\* identifier that collides.
Strayed(c) == \E i \in Hops : Collided(<<c, i>>)

LEMMA ServesHome ==
    ASSUME Base, NEW l \in Links, NEW k \in Keys, Serves(l, k)
    PROVE  k = Ahead(l) \/ (Collided(Ahead(l)) /\ Strayed(l[1]))
<1> DEFINE a == Ahead(l)
<1>1. a \in Keys /\ Told(a) /\ at[k] = at[a] /\ convId[k] = convId[a]
  BY DEF Serves
<1>2. convId[a] # NoId
  BY <1>1, ConstantFacts DEF Base, IInv, HopInv, HandshakeInv, HandshakeAt, Told
<1>3. a = <<l[1], l[2] + 1>> /\ l[2] + 1 \in Hops
  BY <1>1 DEF Ahead, Keys
<1> HIDE DEF a
<1>4. k # a => Collided(a)
  BY <1>1, <1>2 DEF Collided
<1> QED
  BY <1>3, <1>4 DEF Strayed, a

LEMMA StrayedForGood ==
    ASSUME Base, [Next]_vars, NEW c \in Clients, Strayed(c)
    PROVE  Strayed(c)'
<1>1. PICK i \in Hops : Collided(<<c, i>>)
  BY DEF Strayed
<1>2. Collided(<<c, i>>)'
  BY <1>1, CollidedForGood, ConstantFacts
<1> QED
  BY <1>2 DEF Strayed

\* An answer in the next state was there before, or is new.
LEMMA AnswersMove ==
    ASSUME Base, [Next]_vars, NEW l \in Links, NEW j \in 1 .. Len(back'[l])
    PROVE  \/ \E i \in 1 .. Len(back[l]) : back'[l][j] = back[l][i]
           \/ \E msg \in Answers : back'[l][j] = msg /\ NewAnswer(l, msg)
<1>0. back[l] \in Seq(Answers) /\ BackMoved(l)
  BY BackMoves DEF Base, Types, NetType
<1>1. CASE back'[l] = back[l]
  BY <1>1
<1>2. CASE back'[l] = << >>
  BY <1>2, EmptySeq
<1>3. CASE back[l] # << >> /\ back'[l] = Tail(back[l])
  <2>1. /\ Len(back[l]) \in Nat /\ Len(back'[l]) = Len(back[l]) - 1
        /\ back'[l][j] = back[l][j + 1]
    BY <1>0, <1>3, HeadTailProperties, LenProperties
  <2>2. j + 1 \in 1 .. Len(back[l])
    BY <2>1
  <2> QED
    BY <2>1, <2>2
<1>4. ASSUME NEW msg \in Answers, back'[l] = Append(back[l], msg), NewAnswer(l, msg)
      PROVE  \/ \E i \in 1 .. Len(back[l]) : back'[l][j] = back[l][i]
             \/ back'[l][j] = msg
  <2>1. /\ Len(back[l]) \in Nat /\ Len(back'[l]) = Len(back[l]) + 1
        /\ \A i \in 1 .. Len(back[l]) : back'[l][i] = back[l][i]
        /\ back'[l][Len(back[l]) + 1] = msg
    BY <1>0, <1>4, AppendProperties, LenProperties
  <2> QED
    BY <2>1
<1> QED
  BY <1>0, <1>1, <1>2, <1>3, <1>4 DEF BackMoved

LEMMA HostsMove ==
    ASSUME Base, [Next]_vars, NEW k \in Keys, NEW j \in 1 .. Len(host'[k])
    PROVE  \/ \E i \in 1 .. Len(host[k]) : host'[k][j] = host[k][i]
           \/ \E l \in Links : /\ Deliver(l) /\ bound[l] = k
                               /\ host'[k][j] = Head(fwd[l]).body
<1>0. host[k] \in Seq(Body) /\ HostMoved(k)
  BY HostMoves DEF Base, Types, NetType
<1>1. CASE host'[k] = host[k]
  BY <1>1
<1>2. CASE host[k] # << >> /\ host'[k] = Tail(host[k])
  <2>1. /\ Len(host[k]) \in Nat /\ Len(host'[k]) = Len(host[k]) - 1
        /\ host'[k][j] = host[k][j + 1]
    BY <1>0, <1>2, HeadTailProperties, LenProperties
  <2>2. j + 1 \in 1 .. Len(host[k])
    BY <2>1
  <2> QED
    BY <2>1, <2>2
<1>3. ASSUME NEW l \in Links, Deliver(l), bound[l] = k,
             host'[k] = Append(host[k], Head(fwd[l]).body)
      PROVE  \/ \E i \in 1 .. Len(host[k]) : host'[k][j] = host[k][i]
             \/ host'[k][j] = Head(fwd[l]).body
  <2>1. Head(fwd[l]).body \in Body
    BY <1>3, TakenType DEF Deliver, Onions, Base, IInv
  <2>2. /\ Len(host[k]) \in Nat /\ Len(host'[k]) = Len(host[k]) + 1
        /\ \A i \in 1 .. Len(host[k]) : host'[k][i] = host[k][i]
        /\ host'[k][Len(host[k]) + 1] = Head(fwd[l]).body
    BY <1>0, <1>3, <2>1, AppendProperties, LenProperties
  <2> QED
    BY <2>2
<1> QED
  BY <1>0, <1>1, <1>2, <1>3 DEF HostMoved

\* A host has messages of the client its exit was reached by.
HostInv == \A k \in Keys : \A j \in 1 .. Len(host[k]) : host[k][j].from = k[1]

LEMMA HostStep ==
    ASSUME Base, HostInv, [Next]_vars
    PROVE  HostInv'
<1> SUFFICES ASSUME NEW k \in Keys, NEW j \in 1 .. Len(host'[k])
             PROVE  host'[k][j].from = k[1]
  BY DEF HostInv
<1>1. ASSUME NEW l \in Links, Deliver(l), bound[l] = k
      PROVE  Head(fwd[l]).body.from = k[1]
  BY <1>1, TakenHere, AheadParts DEF Deliver
<1> QED
  BY <1>1, HostsMove DEF HostInv

LEMMA HomeStep ==
    ASSUME Base, Own, HostInv, AnswersStayHome, [Next]_vars
    PROVE  AnswersStayHome'
<1> SUFFICES ASSUME NEW l \in Links, NEW j \in 1 .. Len(back'[l])
             PROVE  back'[l][j].body.from = l[1] \/ Strayed(l[1])'
  BY DEF AnswersStayHome, Strayed
<1>0. l[1] \in Clients /\ (Strayed(l[1]) => Strayed(l[1])')
  BY StrayedForGood, ConstantFacts
<1>a. ASSUME NEW k \in Keys, Serves(l, k) PROVE k[1] = l[1] \/ Strayed(l[1])
  BY <1>a, ServesHome, AheadParts
<1>1. ASSUME NEW i \in 1 .. Len(back[l])
      PROVE  back[l][i].body.from = l[1] \/ Strayed(l[1])
  BY DEF AnswersStayHome, Strayed
<1>2. ASSUME NEW msg \in Answers, NewAnswer(l, msg)
      PROVE  msg.body.from = l[1] \/ Strayed(l[1])
  <2>1. CASE BindFails(l) /\ msg = Answer(Addressed(l), Unreachable(Addressed(l)))
    <3>1. Addressed(l) \in Keys /\ Serves(l, Addressed(l))
      BY <2>1, AddressedServes, AddressedKey DEF BindFails
    <3> QED
      BY <1>a, <2>1, <3>1 DEF Answer, Unreachable
  <2>2. CASE /\ HostAnswer(l) /\ host[bound[l]] # << >>
             /\ msg = Answer(bound[l], Head(host[bound[l]]))
    <3>1. bound[l] \in Keys /\ Serves(l, bound[l])
      BY <2>2, ConstantFacts DEF HostAnswer, Base, IInv, LinkInv, LinkAt, Own, ServeInv
    <3>2. Head(host[bound[l]]) = host[bound[l]][1] /\ 1 \in 1 .. Len(host[bound[l]])
      BY <2>2, <3>1, HeadTailProperties, EmptySeq DEF Base, Types, NetType
    <3>3. Head(host[bound[l]]).from = bound[l][1]
      BY <3>1, <3>2 DEF HostInv
    <3> QED
      BY <1>a, <2>2, <3>1, <3>3 DEF Answer
  <2>3. CASE /\ Backward(l) /\ back[bound[l]] # << >>
             /\ msg = Wrap(bound[l], Head(back[bound[l]]))
    <3> DEFINE k == bound[l]
               old == Head(back[k])
    <3>1. k \in Keys /\ Serves(l, k) /\ k \in Links
      BY <2>3, ConstantFacts DEF Backward, Base, IInv, LinkInv, LinkAt, Own, ServeInv
    <3>2. old = back[k][1] /\ 1 \in 1 .. Len(back[k]) /\ old \in Answers
      BY <2>3, <3>1, HeadTailProperties, EmptySeq DEF Base, Types, NetType
    <3>3. msg.body = old.body
      BY <2>3, <3>2 DEF Wrap, Answers
    <3>4. old.body.from = k[1] \/ Strayed(k[1])
      BY <3>1, <3>2 DEF AnswersStayHome, Strayed
    <3> QED
      BY <1>a, <3>1, <3>3, <3>4
  <2>4. ASSUME NEW m \in Links, l = prv[bound[m]], bound[m] \in Keys,
               msg = Answer(bound[m], Unreachable(bound[m]))
        PROVE  msg.body.from = l[1] \/ Strayed(l[1])
    <3>1. Serves(l, bound[m])
      BY <2>4, ConstantFacts DEF Own, ServeInv
    <3> QED
      BY <1>a, <2>4, <3>1 DEF Answer, Unreachable
  <2> QED
    BY <1>2, <2>1, <2>2, <2>3, <2>4 DEF NewAnswer
<1> QED
  BY <1>0, <1>1, <1>2, AnswersMove

\* An answer reaches another circuit than its own only where an identifier of that
\* circuit is somebody else's too: what a relay reads from the next one goes to the
\* connection its conversation was found for.
THEOREM AnswersKeepHome == Spec => []AnswersStayHome
<1>1. Init => HostInv /\ AnswersStayHome
  BY EmptySeq DEF Init, HostInv, AnswersStayHome
<1>2. Base /\ Own /\ HostInv /\ AnswersStayHome /\ [Next]_vars => (HostInv /\ AnswersStayHome)'
  BY HostStep, HomeStep
<1> QED
  BY <1>1, <1>2, Foundation, PTL DEF Spec

-----------------------------------------------------------------------------
(* What takes a relay down. *)

Downed == {r \in Relays : ~ up[r]}

\* While no conversation was deleted, every identifier given leads somewhere, and a
\* relay is down only by its own crash.
CrashInv ==
    /\ IsFiniteSet(Downed)
    /\ (\A k \in Keys : role[k] # "freed") =>
         /\ \A k \in Keys : convId[k] # NoId => convMap[at[k]][convId[k]] # NoKey
         /\ Cardinality(Downed) = crashes

LEMMA DownedFinite ==
    ASSUME Base, IsFiniteSet(Downed), NEW r \in Relays,
           up' \in {up, [up EXCEPT ![r] = FALSE]}
    PROVE  IsFiniteSet(Downed')
<1>1. Downed' \subseteq Downed \cup {r}
  BY DEF Downed, Base, Types, RelayType
<1> QED
  BY <1>1, FS_AddElement, FS_Subset

LEMMA CrashStep ==
    ASSUME Base, Own, CrashInv, [Next]_vars
    PROVE  CrashInv'
<1> DEFINE Clean == \A k \in Keys : role[k] # "freed"
           Found == \A k \in Keys : convId[k] # NoId => convMap[at[k]][convId[k]] # NoKey
<1>0. up \in [Relays -> BOOLEAN] /\ crashes \in Nat
  BY DEF Base, Types, RelayType
<1>1. Clean' => Clean
  BY Kept DEF KeptAt
<1>2. ASSUME Clean' PROVE Found'
  <2> SUFFICES ASSUME NEW k \in Keys, convId'[k] # NoId
               PROVE  convMap'[at'[k]][convId'[k]] # NoKey
    OBVIOUS
  <2>1. CASE convId[k] # NoId
    BY <1>1, <1>2, <2>1, MapMoves DEF MapMovedAt, CrashInv
  <2>2. CASE convId[k] = NoId
    <3>1. /\ AcceptKey(k)
      <4>1. convId' # convId
        BY <2>2
      <4>2. PICK j \in Keys : AcceptKey(j)
        <5>1. ASSUME NEW c \in Clients, PathDesign(c) \/ ClientSend(c) \/ ClientStep(c)
              PROVE  convId' = convId
          BY <5>1 DEF PathDesign, ClientSend, ClientStep, Connect, ReceiveId,
                      HandshakeBroken, ConnectEntry, ClientReceive, convVars
        <5>2. ASSUME NEW l \in Links, HandlerStep(l) \/ ListenerStep(l)
              PROVE  convId' = convId
          BY <5>2 DEF HandlerStep, BindUnknown, Bind, BindFails, DecryptFails, Forward,
                      Deliver, ListenerStep, HostAnswer, Backward, Report, convVars
        <5>3. ASSUME NEW j \in Keys, AcceptRole(j) PROVE convId' = convId
          BY <5>3 DEF AcceptRole
        <5>4. ASSUME NEW r \in Relays, Crash(r) PROVE convId' = convId
          BY <5>4 DEF Crash, convVars
        <5>5. UNCHANGED vars => convId' = convId
          BY DEF vars, convVars
        <5> QED
          BY <4>1, <5>1, <5>2, <5>3, <5>4, <5>5 DEF Next, HandshakeStep
      <4>3. j = k
        BY <2>2, <4>2 DEF AcceptKey, Base, Types, ConvType
      <4> QED
        BY <4>2, <4>3
    <3>2. PICK id \in Ids : /\ convId' = [convId EXCEPT ![k] = id]
                            /\ convMap' = [convMap EXCEPT ![at[k]] = Inserted(@, id, k)]
                            /\ at' = at
      BY <3>1 DEF AcceptKey
    <3>3. hs[k] = "key"
      BY <3>1 DEF AcceptKey
    <3>4. at[k] \in Relays /\ convId'[k] = id
      BY <3>2, <3>3 DEF Base, MapInv, ConvInv, ConvAt, Types, ConvType
    <3>5. convMap \in [Relays -> [Ids -> Keys \cup {NoKey}]] /\ NoKey \notin Keys
      BY ConstantFacts DEF Base, Types, ConvType
    <3> QED
      BY <3>2, <3>4, <3>5 DEF Inserted
  <2> QED
    BY <2>1, <2>2
<1>a. ASSUME UNCHANGED relayVars PROVE CrashInv'
  BY <1>1, <1>2, <1>a DEF CrashInv, Downed, relayVars
<1>3. ASSUME NEW c \in Clients, PathDesign(c) \/ ClientSend(c) \/ ClientStep(c)
      PROVE  UNCHANGED relayVars
  BY <1>3 DEF PathDesign, ClientSend, ClientStep, Connect, ReceiveId, HandshakeBroken,
              ConnectEntry, ClientReceive
<1>4. ASSUME NEW k \in Keys, HandshakeStep(k) PROVE CrashInv'
  <2>1. CASE UNCHANGED relayVars
    BY <1>a, <2>1
  <2>2. CASE ~ UNCHANGED relayVars
    <3>1. /\ role[k] = "freed" /\ role' = role /\ up[at[k]] /\ hs[k] = "role"
          /\ up' \in {up, [up EXCEPT ![at[k]] = FALSE]}
      BY <1>4, <2>2 DEF HandshakeStep, AcceptKey, AcceptRole, MayCrash, relayVars
    <3>2. at[k] \in Relays
      BY <3>1 DEF Base, MapInv, ConvInv, ConvAt
    <3>3. IsFiniteSet(Downed')
      BY <3>1, <3>2, DownedFinite DEF CrashInv
    <3>4. ~ Clean'
      BY <3>1
    <3> QED
      BY <3>3, <3>4 DEF CrashInv
  <2> QED
    BY <2>1, <2>2
<1>5. ASSUME NEW l \in Links, BindUnknown(l) PROVE CrashInv'
  <2>1. LinkTo(l) \in Relays /\ up' = [up EXCEPT ![LinkTo(l)] = FALSE]
    BY <1>5 DEF BindUnknown, FirstMessage, Base, IInv, LinkInv, LinkAt
  <2>2. IsFiniteSet(Downed')
    BY <2>1, DownedFinite DEF CrashInv
  <2>3. ~ Clean
    <3>1. Ahead(l) \in Keys /\ Told(Ahead(l))
          /\ convMap[at[Ahead(l)]][convId[Ahead(l)]] = NoKey
      BY <1>5, AddressedServes DEF BindUnknown
    <3>2. convId[Ahead(l)] # NoId
      BY <3>1, ConstantFacts DEF Base, IInv, HopInv, HandshakeInv, HandshakeAt, Told
    <3> QED
      BY <3>1, <3>2 DEF CrashInv
  <2> QED
    BY <1>1, <2>2, <2>3 DEF CrashInv
<1>6. ASSUME NEW l \in Links, BindFails(l) PROVE CrashInv'
  <2> DEFINE k == Addressed(l)
  <2>1. k \in Keys /\ at[k] \in Relays
    BY <1>6, AddressedKey DEF BindFails
  <2>2. /\ role' = [role EXCEPT ![k] = "freed"]
        /\ up' \in {up, [up EXCEPT ![at[k]] = FALSE]}
    BY <1>6 DEF BindFails, MayCrash
  <2> HIDE DEF k
  <2>3. IsFiniteSet(Downed')
    BY <2>1, <2>2, DownedFinite DEF CrashInv
  <2>4. role'[k] = "freed"
    BY <2>1, <2>2 DEF Base, Types, ConvType
  <2> QED
    BY <2>1, <2>3, <2>4 DEF CrashInv
<1>7. ASSUME NEW l \in Links,
             Bind(l) \/ DecryptFails(l) \/ Forward(l) \/ Deliver(l) \/ ListenerStep(l)
      PROVE  UNCHANGED relayVars
  BY <1>7 DEF Bind, DecryptFails, Forward, Deliver, ListenerStep, HostAnswer, Backward, Report
<1>8. ASSUME NEW r \in Relays, Crash(r) PROVE CrashInv'
  <2>1. up[r] /\ up' = [up EXCEPT ![r] = FALSE] /\ crashes' = crashes + 1
    BY <1>8 DEF Crash
  <2>2. Downed' = Downed \cup {r} /\ r \notin Downed
    BY <1>0, <2>1 DEF Downed
  <2>3. /\ IsFiniteSet(Downed')
        /\ IsFiniteSet(Downed) /\ Cardinality(Downed') = Cardinality(Downed) + 1
    BY <2>2, FS_AddElement DEF CrashInv
  <2> QED
    BY <1>1, <1>2, <2>1, <2>3 DEF CrashInv
<1>9. CASE UNCHANGED vars
  BY <1>a, <1>9 DEF vars
<1> QED
  BY <1>a, <1>3, <1>4, <1>5, <1>6, <1>7, <1>8, <1>9 DEF Next, HandlerStep

\* A relay process dies only by its own crash, unless a handleNode that could not
\* connect deleted a conversation before.
THEOREM DownCause == Spec => []DownOnlyByCrash
<1>1. Init => CrashInv
  <2> SUFFICES ASSUME Init PROVE CrashInv
    OBVIOUS
  <2>1. Downed = {} /\ crashes = 0
    BY DEF Init, Downed
  <2>2. \A k \in Keys : convId[k] = NoId
    BY DEF Init
  <2> QED
    BY <2>1, <2>2, FS_EmptySet DEF CrashInv
<1>2. Base /\ Own /\ CrashInv /\ [Next]_vars => CrashInv'
  BY CrashStep
<1>3. CrashInv => DownOnlyByCrash
  BY DEF CrashInv, DownOnlyByCrash, Downed
<1> QED
  BY <1>1, <1>2, <1>3, Foundation, PTL DEF Spec

-----------------------------------------------------------------------------
(* What wedges a client. *)

\* The relay of a hop is known from the first message of its handshake.
FreshInv == \A k \in Keys : hs[k] = "none" => at[k] = NoRelay

\* The keys that wrapped an answer on the connection out of hop i.
Whole(c, i) == [m \in 1 .. Len(path[c]) - i |-> <<c, i + m>>]

\* While nothing happened to a circuit, its connections are open and an answer carries
\* one layer of every hop behind.
QuietAt(c) == path[c] # << >> /\ ~ Disturbed(c) =>
    \A i \in 0 .. MaxPath :
        /\ link[<<c, i>>] \in {"none", "open"}
        /\ \A j \in 1 .. Len(back[<<c, i>>]) : back[<<c, i>>][j].wraps = Whole(c, i)
QuietInv == \A c \in Clients : QuietAt(c)

LEMMA FreshStep ==
    ASSUME Base, FreshInv, [Next]_vars
    PROVE  FreshInv'
<1> SUFFICES ASSUME NEW k \in Keys, hs'[k] = "none" PROVE at'[k] = NoRelay
  BY DEF FreshInv
<1>1. hs[k] = "none" /\ at[k] = NoRelay
  BY Kept DEF KeptAt, FreshInv
<1>2. CASE at' = at
  BY <1>1, <1>2
<1>3. CASE at' # at
  <2>1. PICK c \in Clients : Connect(c)
    <3>1. ASSUME NEW c \in Clients,
                 PathDesign(c) \/ ClientSend(c) \/ ReceiveId(c) \/ HandshakeBroken(c)
                 \/ ConnectEntry(c) \/ ClientReceive(c)
          PROVE  at' = at
      BY <3>1 DEF PathDesign, ClientSend, ReceiveId, HandshakeBroken, ConnectEntry,
                  ClientReceive, hsVars
    <3>2. ASSUME NEW l \in Links, HandlerStep(l) \/ ListenerStep(l) PROVE at' = at
      BY <3>2 DEF HandlerStep, BindUnknown, Bind, BindFails, DecryptFails, Forward, Deliver,
                  ListenerStep, HostAnswer, Backward, Report, hsVars
    <3>3. ASSUME NEW j \in Keys, HandshakeStep(j) PROVE at' = at
      BY <3>3 DEF HandshakeStep, AcceptKey, AcceptRole
    <3>4. ASSUME NEW r \in Relays, Crash(r) PROVE at' = at
      BY <3>4 DEF Crash, hsVars
    <3>5. UNCHANGED vars => at' = at
      BY DEF vars, hsVars
    <3> QED
      BY <1>3, <3>1, <3>2, <3>3, <3>4, <3>5 DEF Next, ClientStep
  <2>2. /\ at' = [at EXCEPT ![<<c, hop[c]>>] = path[c][hop[c]]]
        /\ hs' = [hs EXCEPT ![<<c, hop[c]>>] = "key"]
    BY <1>3, <2>1 DEF Connect
  <2>3. k # <<c, hop[c]>>
    BY <2>2 DEF Base, Types, HsType
  <2> QED
    BY <1>1, <2>2, <2>3 DEF Base, Types, HsType
<1> QED
  BY <1>2, <1>3

\* A path is drawn once, and cleared when the session ends.
LEMMA PathMoves ==
    ASSUME Base, [Next]_vars, NEW c \in Clients
    PROVE  \/ path'[c] = path[c]
           \/ path'[c] = << >> /\ cpc[c] # "wedged"
           \/ PathDesign(c) /\ cpc[c] = "idle" /\ path[c] = << >>
<1>0. path \in [Clients -> Seq(Relays)]
  BY DEF Base, Types, ClientType
<1>1. ASSUME NEW d \in Clients, PathDesign(d)
      PROVE  path'[c] = path[c] \/ (PathDesign(c) /\ cpc[c] = "idle" /\ path[c] = << >>)
  <2>1. cpc[d] = "idle" /\ PathAt(d)
    BY <1>1 DEF PathDesign, Base, IInv, HopInv, PathInv
  <2>2. cpc[d] = "idle" => path[d] = << >>
    BY <2>1 DEF PathAt
  <2> QED
    BY <1>0, <1>1, <2>1, <2>2 DEF PathDesign
<1>2. ASSUME NEW d \in Clients, Connect(d) \/ HandshakeBroken(d) \/ ConnectEntry(d)
      PROVE  path'[c] = path[c] \/ (path'[c] = << >> /\ cpc[c] # "wedged")
  BY <1>0, <1>2 DEF Connect, HandshakeBroken, ConnectEntry, StopSession
<1>3. ASSUME NEW d \in Clients, ClientSend(d) \/ ReceiveId(d) \/ ClientReceive(d)
      PROVE  path' = path
  BY <1>3 DEF ClientSend, ReceiveId, ClientReceive, clientVars
<1>4. ASSUME NEW k \in Keys, HandshakeStep(k) PROVE path' = path
  BY <1>4 DEF HandshakeStep, AcceptKey, AcceptRole, clientVars
<1>5. ASSUME NEW l \in Links, HandlerStep(l) \/ ListenerStep(l) PROVE path' = path
  BY <1>5 DEF HandlerStep, BindUnknown, Bind, BindFails, DecryptFails, Forward, Deliver,
              ListenerStep, HostAnswer, Backward, Report, clientVars
<1>6. ASSUME NEW r \in Relays, Crash(r) PROVE path' = path
  BY <1>6 DEF Crash, clientVars
<1>7. CASE UNCHANGED vars
  BY <1>7 DEF vars, clientVars
<1> QED
  BY <1>1, <1>2, <1>3, <1>4, <1>5, <1>6, <1>7 DEF Next, ClientStep

LEMMA DisturbedForGood ==
    ASSUME Base, FreshInv, [Next]_vars, NEW c \in Clients, path'[c] = path[c], Disturbed(c)
    PROVE  Disturbed(c)'
<1>1. PICK i \in Hops :
         \/ at[<<c, i>>] # NoRelay /\ ~ up[at[<<c, i>>]]
         \/ i <= Len(path[c]) /\ ~ up[path[c][i]]
         \/ role[<<c, i>>] = "freed"
         \/ Collided(<<c, i>>)
  BY DEF Disturbed
<1> DEFINE k == <<c, i>>
<1>2. k \in Keys /\ KeptAt(k)
  BY Kept, ConstantFacts
<1> HIDE DEF k
<1>3. CASE at[k] # NoRelay /\ ~ up[at[k]]
  <2>1. hs[k] # "none" /\ at[k] \in Relays
    BY <1>2, <1>3 DEF FreshInv, Base, Types, HsType
  <2>2. at'[k] = at[k] /\ ~ up'[at[k]]
    BY <1>2, <1>3, <2>1, DownForGood DEF KeptAt
  <2> QED
    BY <1>3, <2>2 DEF Disturbed, k
<1>4. CASE i <= Len(path[c]) /\ ~ up[path[c][i]]
  <2>1. path[c] \in Seq(Relays) /\ i \in 1 .. Len(path[c])
    BY <1>4, PathAssumption, LenProperties DEF Base, Types, ClientType, Hops
  <2>2. path[c][i] \in Relays
    BY <2>1, ElementOfSeq
  <2>3. ~ up'[path[c][i]]
    BY <1>4, <2>2, DownForGood
  <2> QED
    BY <1>4, <2>3 DEF Disturbed
<1>5. CASE role[k] = "freed"
  <2>1. role'[k] = "freed"
    BY <1>2, <1>5 DEF KeptAt
  <2> QED
    BY <2>1 DEF Disturbed, k
<1>6. CASE Collided(k)
  <2>1. Collided(k)'
    BY <1>2, <1>6, CollidedForGood
  <2> QED
    BY <2>1 DEF Disturbed, k
<1> QED
  BY <1>1, <1>3, <1>4, <1>5, <1>6 DEF k

\* The hops of a circuit that nothing happened to.
LEMMA QuietHop ==
    ASSUME Base, NEW c \in Clients, path[c] # << >>, ~ Disturbed(c),
           NEW i \in Hops, hs[<<c, i>>] # "none"
    PROVE  /\ i <= Len(path[c]) /\ Len(path[c]) \in Nat
           /\ at[<<c, i>>] \in Relays /\ up[at[<<c, i>>]]
           /\ role[<<c, i>>] = "exit" => i = Len(path[c])
           /\ role[<<c, i>>] = "relay" => i < Len(path[c]) /\ up[nxt[<<c, i>>]]
<1> DEFINE k == <<c, i>>
<1>1. k \in Keys /\ ConvAt(k) /\ HandshakeAt(k) /\ OrderAt(c, i) /\ ToldAt(c, i) /\ PathAt(c)
  BY ConstantFacts DEF Base, MapInv, ConvInv, IInv, HopInv, HandshakeInv, OrderInv, ToldInv,
                       PathInv
<1>2. /\ path[c] \in Seq(Relays) /\ Len(path[c]) \in Hops /\ hop[c] \in 1 .. Len(path[c])
      /\ \A n \in 1 .. Len(path[c]) : path[c][n] \in Relays
  BY <1>1, OnPath DEF PathAt, Base, Types, IInv
<1>3. i <= hop[c] /\ hop[c] \in Nat /\ i \in Nat /\ i >= 1 /\ Len(path[c]) \in Nat
  <2>1. hop[c] \in Nat /\ i \in Nat /\ i >= 1 /\ Len(path[c]) \in Nat
    BY <1>2, PathAssumption DEF Hops
  <2>2. ~ (i > hop[c])
    BY <1>1 DEF OrderAt
  <2> QED
    BY <2>1, <2>2
<1>4. i <= Len(path[c])
  BY <1>2, <1>3
<1>5. at[k] \in Relays /\ up[at[k]]
  <2>1. at[k] \in Relays
    BY <1>1 DEF ConvAt
  <2> QED
    BY <2>1, NoValueAssumption DEF Disturbed
<1>6. i < Len(path[c]) => /\ i + 1 \in 1 .. Len(path[c]) /\ i + 1 \in Hops
                          /\ path[c][i + 1] \in Relays /\ up[path[c][i + 1]]
  <2>1. i < Len(path[c]) => i + 1 \in 1 .. Len(path[c]) /\ i + 1 \in Hops
    BY <1>2, <1>3, PathAssumption DEF Hops
  <2> QED
    BY <1>2, <1>3, <2>1 DEF Disturbed
<1>7. Told(k) => told[k] = NextHop(c, i)
  BY <1>1, <1>4 DEF ToldAt, Told
<1>8. role[k] = "exit" => i = Len(path[c])
  BY <1>1, <1>3, <1>4, <1>6, <1>7, NoValueAssumption DEF HandshakeAt, NextHop, Told
<1>9. role[k] = "relay" => i < Len(path[c]) /\ up[nxt[k]]
  BY <1>1, <1>3, <1>4, <1>6, <1>7 DEF HandshakeAt, NextHop, Told
<1> QED
  BY <1>3, <1>4, <1>5, <1>8, <1>9

LEMMA QuietServes ==
    ASSUME Base, NEW l \in Links, ~ Disturbed(l[1]), NEW k \in Keys, Serves(l, k)
    PROVE  k = Ahead(l)
<1>1. Ahead(l) \in Keys
  BY DEF Serves
<1>2. l[2] + 1 \in Hops /\ Ahead(l) = <<l[1], l[2] + 1>>
  BY <1>1 DEF Ahead, Keys
<1>3. ~ Collided(Ahead(l))
  BY <1>2 DEF Disturbed
<1> QED
  BY <1>3, ServesHome

\* A layer more, on the way back.
LEMMA WholeWrapped ==
    ASSUME NEW c \in Clients, NEW N \in Nat, NEW i \in Nat, i < N
    PROVE  /\ <<<<c, i + 1>>>> \o [m \in 1 .. N - (i + 1) |-> <<c, (i + 1) + m>>]
                = [m \in 1 .. N - i |-> <<c, i + m>>]
           /\ i + 1 = N => <<<<c, i + 1>>>> = [m \in 1 .. N - i |-> <<c, i + m>>]
<1> DEFINE s == <<<<c, i + 1>>>>
           t == [m \in 1 .. N - (i + 1) |-> <<c, (i + 1) + m>>]
           u == [m \in 1 .. N - i |-> <<c, i + m>>]
<1>1. N - (i + 1) \in Nat /\ N - i \in Nat
  OBVIOUS
<1>2. s \in Seq(Clients \X Nat) /\ Len(s) = 1 /\ s[1] = <<c, i + 1>>
  OBVIOUS
<1>3. t \in Seq(Clients \X Nat) /\ Len(t) = N - (i + 1)
  BY <1>1
<1>4. u \in Seq(Clients \X Nat) /\ Len(u) = N - i
  BY <1>1
<1>5. s \o t \in Seq(Clients \X Nat) /\ Len(s \o t) = 1 + (N - (i + 1))
  BY <1>2, <1>3, ConcatProperties
<1>6. ASSUME NEW m \in 1 .. N - i PROVE (s \o t)[m] = u[m]
  <2>1. (s \o t)[m] = IF m <= 1 THEN s[m] ELSE t[m - 1]
    BY <1>2, <1>3, <1>5, ConcatProperties
  <2>2. CASE m = 1
    BY <1>2, <2>1, <2>2
  <2>3. CASE m # 1
    <3>1. m - 1 \in 1 .. N - (i + 1) /\ (i + 1) + (m - 1) = i + m
      BY <2>3
    <3> QED
      BY <2>1, <2>3, <3>1
  <2> QED
    BY <2>2, <2>3
<1>7. s \o t = u
  <2>1. Len(s \o t) = Len(u)
    BY <1>4, <1>5
  <2> HIDE DEF s, t, u
  <2> QED
    BY <1>4, <1>5, <1>6, <2>1, SeqEqual
<1>8. ASSUME i + 1 = N PROVE s = u
  <2>1. Len(u) = 1 /\ u[1] = <<c, i + 1>>
    BY <1>4, <1>8
  <2>2. \A m \in 1 .. Len(s) : s[m] = u[m]
    BY <1>2, <2>1
  <2> HIDE DEF s, u
  <2> QED
    BY <1>2, <1>4, <2>1, <2>2, SeqEqual
<1> QED
  BY <1>7, <1>8

\* A path is drawn for a client that has no connections yet.
LEMMA QuietDrawn ==
    ASSUME Base, Own, NEW c \in Clients, PathDesign(c)
    PROVE  QuietAt(c)'
<1> SUFFICES ASSUME NEW i \in 0 .. MaxPath
             PROVE  link[<<c, i>>] = "none" /\ back[<<c, i>>] = << >>
  BY DEF QuietAt, PathDesign, netVars
<1> DEFINE l == <<c, i>>
<1>1. l \in Links
  BY DEF Links
<1>2. link[l] = "none"
  <2>1. CASE i = 0
    BY <2>1 DEF PathDesign, Own, StartInv, StartAt, Entry
  <2>2. CASE i # 0
    <3>1. i \in Hops /\ l \in Keys
      BY <2>2, PathAssumption DEF Hops, Keys
    <3>2. hs[l] = "none"
      BY <3>1 DEF PathDesign, Base, IInv, HopInv, OrderInv, OrderAt
    <3> QED
      BY <1>1, <3>1, <3>2 DEF Base, IInv, LinkInv, LinkAt
  <2> QED
    BY <2>1, <2>2
<1> QED
  BY <1>1, <1>2 DEF Own, IdleInv

\* A conversation is not deleted on a circuit that stays undisturbed.
LEMMA QuietBinds ==
    ASSUME Base, Own, NEW l \in Links, BindFails(l), ~ Disturbed(l[1])
    PROVE  Disturbed(l[1])'
<1>1. /\ Ahead(l) \in Keys /\ Addressed(l) # NoKey /\ Serves(l, Addressed(l))
      /\ Addressed(l) \in Keys
  BY AddressedServes, AddressedKey DEF BindFails
<1>2. Addressed(l) = Ahead(l)
  BY <1>1, QuietServes
<1>3. role'[Ahead(l)] = "freed"
  BY <1>1, <1>2 DEF BindFails, Base, Types, ConvType
<1>4. l[2] + 1 \in Hops /\ Ahead(l) = <<l[1], l[2] + 1>>
  BY <1>1 DEF Ahead, Keys
<1> QED
  BY <1>3, <1>4 DEF Disturbed

LEMMA QuietLink ==
    ASSUME Base, Own, [Next]_vars, NEW c \in Clients, NEW i \in 0 .. MaxPath,
           path[c] # << >>, ~ Disturbed(c), ~ Disturbed(c)', QuietAt(c)
    PROVE  link'[<<c, i>>] \in {"none", "open"}
<1> DEFINE l == <<c, i>>
<1>1. l \in Links /\ l[1] = c /\ l[2] = i
  BY DEF Links
<1>2. link[l] \in {"none", "open"}
  BY DEF QuietAt
<1>3. LinkMoved(l)
  BY <1>1, LinkMoves
<1>4. ~ BindFails(l)
  BY <1>1, QuietBinds
<1>5. ASSUME link[l] = "open" PROVE up[LinkTo(l)]
  <2>1. CASE i = 0
    <3>1. Told(<<c, 1>>)
      BY <1>5, <2>1 DEF Own, StartInv, StartAt, Entry
    <3>2. up[at[<<c, 1>>]]
      BY <3>1, QuietHop, ConstantFacts DEF Told
    <3> QED
      BY <1>1, <2>1, <3>2 DEF LinkTo
  <2>2. CASE i # 0
    <3>1. i \in Hops /\ l \in Keys
      BY <2>2, PathAssumption DEF Hops, Keys
    <3>2. role[l] = "relay" /\ hs[l] # "none"
      BY <1>5, <3>1 DEF Own, RoleInv, Base, IInv, HopInv, HandshakeInv, HandshakeAt
    <3>3. up[nxt[l]]
      BY <3>1, <3>2, QuietHop
    <3> QED
      BY <1>1, <2>2, <3>3 DEF LinkTo
  <2> QED
    BY <2>1, <2>2
<1> HIDE DEF l
<1> QED
  BY <1>2, <1>3, <1>4, <1>5 DEF LinkMoved, l

LEMMA QuietAnswer ==
    ASSUME Base, Own, NEW c \in Clients, NEW i \in 0 .. MaxPath,
           path[c] # << >>, ~ Disturbed(c), ~ Disturbed(c)', QuietAt(c),
           NEW msg \in Answers, NewAnswer(<<c, i>>, msg)
    PROVE  msg.wraps = Whole(c, i)
<1> DEFINE l == <<c, i>>
           k == <<c, i + 1>>
           N == Len(path[c])
<1>1. l \in Links /\ l[1] = c /\ l[2] = i /\ Ahead(l) = k /\ i \in Nat
  BY DEF Links, Ahead
<1>2. ASSUME NEW j \in Keys, Serves(l, j) PROVE j = k /\ i + 1 \in Hops /\ Told(k)
  <2>1. j = Ahead(l)
    BY <1>1, <1>2, QuietServes
  <2>2. Told(Ahead(l)) /\ Ahead(l) \in Keys
    BY <1>2 DEF Serves
  <2> HIDE DEF l
  <2> QED
    BY <1>1, <2>1, <2>2 DEF Keys
<1>3. ASSUME lstn[l] = "run"
      PROVE  /\ bound[l] = k /\ i + 1 \in Hops /\ hs[k] # "none" /\ k \in Keys
  <2>1. bound[l] \in Keys /\ bound[l] # NoKey
    BY <1>1, <1>3, ConstantFacts DEF Base, IInv, LinkInv, LinkAt
  <2>2. Serves(l, bound[l])
    BY <1>1, <2>1 DEF Own, ServeInv
  <2> QED
    BY <1>2, <2>1, <2>2 DEF Told
<1>4. ~ BindFails(l)
  BY <1>1, QuietBinds
<1>5. CASE HostAnswer(l) /\ msg = Answer(bound[l], Head(host[bound[l]]))
  <2>1. bound[l] = k /\ i + 1 \in Hops /\ hs[k] # "none" /\ role[k] = "exit"
    BY <1>3, <1>5 DEF HostAnswer
  <2>2. i + 1 = N /\ N \in Nat
    BY <2>1, QuietHop
  <2>3. msg.wraps = <<k>>
    BY <1>5, <2>1 DEF Answer
  <2> QED
    BY <1>1, <2>2, <2>3, WholeWrapped DEF Whole
<1>6. CASE Backward(l) /\ back[bound[l]] # << >> /\ msg = Wrap(bound[l], Head(back[bound[l]]))
  <2>1. /\ bound[l] = k /\ i + 1 \in Hops /\ hs[k] # "none" /\ role[k] = "relay" /\ k \in Keys
        /\ back[k] # << >>
    BY <1>3, <1>6 DEF Backward
  <2>2. i + 1 < N /\ N \in Nat
    BY <2>1, QuietHop
  <2>3. back[k] \in Seq(Answers) /\ k \in Links
    BY <2>1, ConstantFacts DEF Base, Types, NetType
  <2>4. 1 \in 1 .. Len(back[k]) /\ Head(back[k]) = back[k][1] /\ back[k][1] \in Answers
    BY <2>1, <2>3, EmptySeq, ElementOfSeq
  <2>5. i + 1 \in 0 .. MaxPath
    BY <2>1, PathAssumption DEF Hops
  <2>6. back[k][1].wraps = Whole(c, i + 1)
    BY <2>4, <2>5 DEF QuietAt
  <2>7. msg.wraps = <<k>> \o Whole(c, i + 1)
    <3>1. msg = [back[k][1] EXCEPT !.wraps = <<k>> \o @]
      BY <1>6, <2>1, <2>4 DEF Wrap
    <3> QED
      BY <2>4, <2>6, <3>1 DEF Answers
  <2>8. i < N /\ N \in Nat /\ i \in Nat
    BY <1>1, <2>2
  <2>9. <<k>> \o Whole(c, i + 1) = Whole(c, i)
    BY <2>8, WholeWrapped DEF Whole
  <2> QED
    BY <2>7, <2>9
<1>7. ASSUME NEW m \in Links, Report(m), l = prv[bound[m]], bound[m] \in Keys
      PROVE  FALSE
  <2>1. prv[bound[m]] # NoLink
    BY <1>1, <1>7, NoValueAssumption
  <2>2. Serves(l, bound[m])
    BY <1>7, <2>1 DEF Own, ServeInv
  <2>3. bound[m] = k /\ i + 1 \in Hops
    BY <1>2, <1>7, <2>2
  <2>4. i + 1 \in 0 .. MaxPath
    BY <2>3, PathAssumption DEF Hops
  <2>5. link[k] # "closed"
    BY <2>4 DEF QuietAt
  <2> QED
    BY <1>7, <2>3, <2>5 DEF Report
<1> QED
  BY <1>4, <1>5, <1>6, <1>7 DEF NewAnswer

LEMMA QuietStep ==
    ASSUME Base, Own, FreshInv, QuietInv, [Next]_vars
    PROVE  QuietInv'
<1> SUFFICES ASSUME NEW c \in Clients, path'[c] # << >>, ~ Disturbed(c)' PROVE QuietAt(c)'
  BY DEF QuietInv, QuietAt
<1>1. CASE PathDesign(c)
  BY <1>1, QuietDrawn
<1>2. CASE path'[c] = path[c]
  <2>1. path[c] # << >> /\ ~ Disturbed(c) /\ QuietAt(c)
    BY <1>2, DisturbedForGood DEF QuietInv
  <2>2. ASSUME NEW i \in 0 .. MaxPath PROVE link'[<<c, i>>] \in {"none", "open"}
    BY <2>1, QuietLink
  <2>3. ASSUME NEW i \in 0 .. MaxPath, NEW j \in 1 .. Len(back'[<<c, i>>])
        PROVE  back'[<<c, i>>][j].wraps = Whole(c, i)
    <3>1. <<c, i>> \in Links
      BY DEF Links
    <3>2. CASE \E m \in 1 .. Len(back[<<c, i>>]) : back'[<<c, i>>][j] = back[<<c, i>>][m]
      BY <2>1, <3>2 DEF QuietAt
    <3>3. CASE \E msg \in Answers : back'[<<c, i>>][j] = msg /\ NewAnswer(<<c, i>>, msg)
      BY <2>1, <3>3, QuietAnswer
    <3> QED
      BY <3>1, <3>2, <3>3, AnswersMove
  <2>4. \A i : Whole(c, i)' = Whole(c, i)
    BY <1>2 DEF Whole
  <2> QED
    BY <2>2, <2>3, <2>4 DEF QuietAt
<1> QED
  BY <1>1, <1>2, PathMoves

\* The two ways in which a thread of the client dies with the path mutex held.
LEMMA WedgedBy ==
    ASSUME Base, [Next]_vars, NEW c \in Clients, cpc[c] # "wedged", cpc'[c] = "wedged"
    PROVE  \/ HandshakeBroken(c) /\ hs[<<c, hop[c]>>] = "id"
           \/ ClientReceive(c) /\ ~ Opens(c, Head(back[Entry(c)]))
<1>0. cpc \in [Clients -> {"idle", "connect", "await", "entry", "ready", "stopped", "wedged"}]
  BY DEF Base, Types, ClientType
<1>1. ASSUME NEW d \in Clients, PathDesign(d) \/ Connect(d) \/ ReceiveId(d) \/ ConnectEntry(d)
      PROVE  FALSE
  <2>1. PathDesign(d) => cpc' = [cpc EXCEPT ![d] = "connect"]
    BY DEF PathDesign
  <2>2. Connect(d) => cpc' \in {[cpc EXCEPT ![d] = "await"], [cpc EXCEPT ![d] = "stopped"]}
    BY DEF Connect, StopSession
  <2>3. ReceiveId(d) => cpc' \in {[cpc EXCEPT ![d] = "entry"], [cpc EXCEPT ![d] = "connect"]}
    BY DEF ReceiveId
  <2>4. ConnectEntry(d) => cpc' \in {[cpc EXCEPT ![d] = "ready"], [cpc EXCEPT ![d] = "stopped"]}
    BY DEF ConnectEntry, StopSession
  <2> QED
    BY <1>0, <1>1, <2>1, <2>2, <2>3, <2>4
<1>2. ASSUME NEW d \in Clients, HandshakeBroken(d)
      PROVE  HandshakeBroken(c) /\ hs[<<c, hop[c]>>] = "id"
  <2>1. \/ cpc' = [cpc EXCEPT ![d] = "stopped"]
        \/ cpc' = [cpc EXCEPT ![d] = "wedged"] /\ hs[<<d, hop[d]>>] = "id"
    BY <1>2 DEF HandshakeBroken, StopSession, Wedge
  <2> QED
    BY <1>0, <1>2, <2>1
<1>3. ASSUME NEW d \in Clients, ClientReceive(d)
      PROVE  ClientReceive(c) /\ ~ Opens(c, Head(back[Entry(c)]))
  <2>1. \/ cpc' = cpc
        \/ cpc' = [cpc EXCEPT ![d] = "wedged"] /\ ~ Opens(d, Head(back[Entry(d)]))
    BY <1>3 DEF ClientReceive, Wedge
  <2> QED
    BY <1>0, <1>3, <2>1
<1>4. ASSUME NEW d \in Clients, ClientSend(d) PROVE FALSE
  BY <1>4 DEF ClientSend, clientVars
<1>5. ASSUME NEW k \in Keys, HandshakeStep(k) PROVE FALSE
  BY <1>5 DEF HandshakeStep, AcceptKey, AcceptRole, clientVars
<1>6. ASSUME NEW l \in Links, HandlerStep(l) \/ ListenerStep(l) PROVE FALSE
  BY <1>6 DEF HandlerStep, BindUnknown, Bind, BindFails, DecryptFails, Forward, Deliver,
              ListenerStep, HostAnswer, Backward, Report, clientVars
<1>7. ASSUME NEW r \in Relays, Crash(r) PROVE FALSE
  BY <1>7 DEF Crash, clientVars
<1>8. ~ UNCHANGED vars
  BY DEF vars, clientVars
<1> QED
  BY <1>1, <1>2, <1>3, <1>4, <1>5, <1>6, <1>7, <1>8 DEF Next, ClientStep

LEMMA WedgedStep ==
    ASSUME Base, Own, FreshInv, QuietInv, WedgedOnlyIfDisturbed, [Next]_vars
    PROVE  WedgedOnlyIfDisturbed'
<1> SUFFICES ASSUME NEW c \in Clients, cpc'[c] = "wedged" PROVE Disturbed(c)'
  BY DEF WedgedOnlyIfDisturbed
<1>1. CASE cpc[c] = "wedged"
  <2>1. path'[c] = path[c]
    BY <1>1, PathMoves
  <2> QED
    BY <1>1, <2>1, DisturbedForGood DEF WedgedOnlyIfDisturbed
<1>2. ASSUME HandshakeBroken(c), hs[<<c, hop[c]>>] = "id" PROVE Disturbed(c)'
  <2>1. hop[c] \in Hops /\ <<c, hop[c]>> \in Keys
    BY ConstantFacts DEF Base, Types, ClientType
  <2>2. at[<<c, hop[c]>>] \in Relays
    BY <1>2, <2>1 DEF Base, MapInv, ConvInv, ConvAt
  <2>3. at'[<<c, hop[c]>>] # NoRelay /\ ~ up'[at'[<<c, hop[c]>>]]
    BY <1>2, <2>2, NoValueAssumption DEF HandshakeBroken, hsVars, relayVars
  <2> QED
    BY <2>1, <2>3 DEF Disturbed
<1>3. ASSUME ClientReceive(c), ~ Opens(c, Head(back[Entry(c)])) PROVE Disturbed(c)'
  <2>1. cpc[c] = "ready" /\ back[Entry(c)] # << >> /\ path' = path
    BY <1>3 DEF ClientReceive
  <2>2. path[c] # << >> /\ Len(path[c]) \in Nat
    BY <2>1, OnPath, ConstantFacts DEF Base, IInv, HopInv, PathInv, PathAt, Types
  <2>3. Disturbed(c)
    <3> SUFFICES ASSUME ~ Disturbed(c) PROVE FALSE
      OBVIOUS
    <3>1. back[Entry(c)] \in Seq(Answers)
      BY ConstantFacts DEF Base, Types, NetType
    <3>2. 1 \in 1 .. Len(back[Entry(c)]) /\ Head(back[Entry(c)]) = back[Entry(c)][1]
      BY <2>1, <3>1, EmptySeq
    <3>3. 0 \in 0 .. MaxPath /\ QuietAt(c)
      BY PathAssumption DEF QuietInv
    <3>4. Head(back[Entry(c)]).wraps = Whole(c, 0)
      BY <2>2, <3>2, <3>3 DEF QuietAt, Entry
    <3>5. Whole(c, 0) = [m \in 1 .. Len(path[c]) |-> <<c, m>>]
      BY <2>2 DEF Whole
    <3> QED
      BY <1>3, <3>4, <3>5 DEF Opens
  <2> QED
    BY <2>1, <2>3, DisturbedForGood
<1> QED
  BY <1>1, <1>2, <1>3, WedgedBy

\* No thread of a client dies with the path mutex held (decrypt, handshakeWithNode)
\* as long as the relays of its circuit run, keep its conversations, and gave it
\* identifiers of its own.
THEOREM WedgedCause == Spec => []WedgedOnlyIfDisturbed
<1>1. Init => FreshInv /\ QuietInv /\ WedgedOnlyIfDisturbed
  BY DEF Init, FreshInv, QuietInv, QuietAt, WedgedOnlyIfDisturbed
<1>2. Base /\ Own /\ FreshInv /\ QuietInv /\ WedgedOnlyIfDisturbed /\ [Next]_vars
        => (FreshInv /\ QuietInv /\ WedgedOnlyIfDisturbed)'
  BY FreshStep, QuietStep, WedgedStep
<1> QED
  BY <1>1, <1>2, Foundation, PTL DEF Spec

-----------------------------------------------------------------------------
(* Where the messages of a client are: counting them along the circuit. *)

\* What is forwarded on the connection out of conversation k is lost.
Cut(k) == link[k] \in {"broken", "closed"} \/ (link[k] = "open" /\ ~ up[nxt[k]])

\* No message that enters connection l will get past its other end any more: its
\* thread ended, or works for another conversation, or the conversation it leads to
\* is cut off, was deleted, or is in a relay that is down.
Dead(l) == LET k == Ahead(l)
           IN \/ handler[l] = "ended"
              \/ handler[l] = "run" /\ bound[l] # k
              \/ Cut(k)
              \/ convId[k] # NoId /\ ~ InMap(k)
              \/ hs[k] # "none" /\ ~ up[at[k]]

\* A client reconnects only when its messages got lost behind the entry already.
LEMMA Reconnects ==
    ASSUME Base, Own, NEW c \in Clients, ConnectEntry(c)
    PROVE  \/ link[Entry(c)] = "none" /\ cpc[c] = "entry" /\ sent[c] = 0 /\ handler[Entry(c)] = "none"
           \/ /\ link[Entry(c)] = "closed"
              /\ \/ convId[<<c, 1>>] # NoId /\ ~ InMap(<<c, 1>>)
                 \/ hs[<<c, 1>>] # "none" /\ ~ up[at[<<c, 1>>]]
<1>0. StartAt(c) /\ Entry(c) \in Links /\ <<c, 1>> \in Keys
  BY ConstantFacts DEF Own, StartInv
<1>1. CASE cpc[c] = "entry"
  BY <1>0, <1>1 DEF StartAt, Own, IdleInv
<1>2. CASE cpc[c] = "ready" /\ link[Entry(c)] = "closed"
  <2>1. Told(<<c, 1>>)
    BY <1>0, <1>2 DEF StartAt
  <2>2. hs[<<c, 1>>] # "none" /\ convId[<<c, 1>>] # NoId
    BY <1>0, <2>1, ConstantFacts DEF Told, Base, IInv, HopInv, HandshakeInv, HandshakeAt
  <2> QED
    BY <1>2, <2>2 DEF Own, FailInv
<1> QED
  BY <1>1, <1>2 DEF ConnectEntry

LEMMA DeadForGood ==
    ASSUME Base, Own, [Next]_vars, NEW l \in Links, Ahead(l) \in Keys, Dead(l)
    PROVE  Dead(l)'
<1> DEFINE k == Ahead(l)
<1>0. /\ k \in Keys /\ k \in Links /\ KeptAt(k) /\ ThreadMoved(l) /\ LinkMoved(k)
      /\ \A c \in Clients : k # Entry(c)
  <2>1. \A c \in Clients : Ahead(l) # Entry(c)
    BY ConstantFacts DEF Ahead, Entry
  <2> QED
    BY <2>1, Kept, ThreadMoves, LinkMoves, ConstantFacts
<1>1. Ahead(l)' = Ahead(l)
  BY DEF Ahead
<1>2. CASE convId[k] # NoId /\ ~ InMap(k)
  <2>1. convId'[k] # NoId /\ ~ InMap(k)'
    BY <1>0, <1>2, MapMoves DEF MapMovedAt, KeptAt
  <2> QED
    BY <1>1, <2>1 DEF Dead
<1>3. CASE hs[k] # "none" /\ ~ up[at[k]]
  <2>1. hs'[k] # "none" /\ at'[k] = at[k] /\ at[k] \in Relays
    BY <1>0, <1>3 DEF KeptAt, Base, MapInv, ConvInv, ConvAt
  <2>2. ~ up'[at'[k]]
    BY <1>3, <2>1, DownForGood
  <2> QED
    BY <1>1, <2>1, <2>2 DEF Dead
<1>4. CASE Cut(k)
  <2>1. CASE link[k] \in {"broken", "closed"}
    <3>1. link'[k] \in {"broken", "closed"}
      BY <1>0, <2>1 DEF LinkMoved
    <3> QED
      BY <1>1, <3>1 DEF Dead, Cut
  <2>2. CASE link[k] = "open" /\ ~ up[nxt[k]]
    <3>1. role[k] = "relay" /\ nxt'[k] = nxt[k]
      BY <1>0, <2>2 DEF Own, RoleInv, KeptAt
    <3>2. nxt[k] \in Relays
      <4>1. nxt[k] = told[k] /\ told[k] # NoRelay
        BY <1>0, <3>1 DEF Base, IInv, HopInv, HandshakeInv, HandshakeAt
      <4> QED
        BY <1>0, <4>1 DEF Base, Types, HsType
    <3>3. ~ up'[nxt'[k]]
      BY <2>2, <3>1, <3>2, DownForGood
    <3>4. link'[k] \in {"open", "broken", "closed"}
      BY <1>0, <2>2 DEF LinkMoved
    <3> QED
      BY <1>1, <3>3, <3>4 DEF Dead, Cut
  <2> QED
    BY <1>4, <2>1, <2>2 DEF Cut
<1>5. ASSUME handler[l] = "ended" \/ (handler[l] = "run" /\ bound[l] # k)
      PROVE  Dead(l)'
  <2>1. ~ Bind(l)
    BY <1>5 DEF Bind, FirstMessage
  <2>2. ASSUME NEW c \in Clients, l = Entry(c), ConnectEntry(c) PROVE Dead(l)'
    <3>1. k = <<c, 1>>
      BY <2>2 DEF Ahead, Entry
    <3>2. \/ convId[k] # NoId /\ ~ InMap(k)
          \/ hs[k] # "none" /\ ~ up[at[k]]
      BY <1>5, <2>2, <3>1, Reconnects
    <3> QED
      BY <1>2, <1>3, <3>2
  <2>3. CASE handler'[l] = "ended"
    BY <2>3 DEF Dead
  <2>4. CASE bound'[l] = bound[l] /\ handler'[l] = handler[l]
    BY <1>1, <1>5, <2>4 DEF Dead
  <2> QED
    BY <1>0, <2>1, <2>2, <2>3, <2>4 DEF ThreadMoved
<1> QED
  BY <1>2, <1>3, <1>4, <1>5 DEF Dead

\* Steps that leave the threads, the connections and the conversations alone.
LEMMA DeadFrame ==
    ASSUME UNCHANGED <<threadVars, link, convVars, hsVars, relayVars>>, NEW l
    PROVE  Dead(l)' = Dead(l)
  BY DEF Dead, Cut, Ahead, InMap, threadVars, convVars, hsVars, relayVars

\* A message that is handed on comes from a connection that is not dead.
LEMMA TakenAlive ==
    ASSUME Base, Own, NEW l \in Links, Takes(l), Readable(l), ~ Cut(Ahead(l))
    PROVE  ~ Dead(l) /\ link[l] # "none"
<1>1. /\ handler[l] = "run" /\ bound[l] = Ahead(l) /\ Ahead(l) \in Keys /\ up[LinkTo(l)]
      /\ hs[Ahead(l)] # "none"
  BY TakenHere DEF Takes, Told
<1>2. InMap(Ahead(l))
  BY <1>1 DEF Own, RunInv
<1>3. link[l] # "none"
  BY <1>1 DEF Own, IdleInv
<1>4. LinkTo(l) = at[Ahead(l)]
  BY <1>1, <1>3, LinkToAhead
<1> QED
  BY <1>1, <1>2, <1>3, <1>4 DEF Dead

\* e[0] messages of client c were sent into a circuit that still works, e[i] got past
\* hop i of it: those between are on the connection out of hop i, in order.
SentAt(c, e) == ~ Dead(Entry(c)) => e[0] = sent[c]
SpanAt(c, i, e) ==
    link[<<c, i>>] # "none" /\ ~ Dead(<<c, i>>) =>
        /\ e[i] = e[i + 1] + Len(fwd[<<c, i>>])
        /\ \A j \in 1 .. Len(fwd[<<c, i>>]) : fwd[<<c, i>>][j].body.n = e[i + 1] + j
CountAt(c, i, e) ==
    /\ role[<<c, i>>] = "exit" => e[i] = Len(delivered[c])
    /\ role[<<c, i>>] # "exit" /\ link[<<c, i>>] = "none" => e[i] = 0
ReachAt(c, i, e) ==
    link[<<c, i>>] = "none" =>
        \A j \in Hops : i < j => e[j] = 0 /\ fwd[<<c, j>>] = << >>
TallyAt(c, e) ==
    /\ SentAt(c, e)
    /\ \A i \in 0 .. MaxPath - 1 : SpanAt(c, i, e)
    /\ \A i \in Hops : CountAt(c, i, e)
    /\ \A i \in 0 .. MaxPath : ReachAt(c, i, e)
    /\ (\A i \in Hops : role[<<c, i>>] # "exit") => delivered[c] = << >>
Tallies  == [0 .. MaxPath -> Nat]
TallyInv == \A c \in Clients : \E e \in Tallies : TallyAt(c, e)

\* A circuit has one exit.
LEMMA UniqueExit ==
    ASSUME Base, ChainInv, NEW c \in Clients, NEW i \in Hops, NEW j \in Hops,
           hs[<<c, i>>] # "none", told[<<c, i>>] = NoRelay, role[<<c, j>>] = "exit"
    PROVE  i = j
<1>1. hs[<<c, j>>] # "none" /\ told[<<c, j>>] = NoRelay
  BY ConstantFacts DEF Base, IInv, HopInv, HandshakeInv, HandshakeAt
<1>2. ~ (i < j) /\ ~ (j < i)
  BY <1>1 DEF ChainInv, ChainAt
<1> QED
  BY <1>2, ConstantFacts

\* Who delivers, and who becomes an exit.
LEMMA DeliveredMoves ==
    ASSUME Base, [Next]_vars, NEW c \in Clients
    PROVE  \/ delivered'[c] = delivered[c]
           \/ \E l \in Links : Deliver(l) /\ l[1] = c
<1>0. delivered \in [Clients -> Seq(Nat)]
  BY DEF Base, Types, UserType
<1>1. ASSUME NEW d \in Clients, PathDesign(d) \/ ClientSend(d) \/ ClientStep(d)
      PROVE  delivered' = delivered
  BY <1>1 DEF PathDesign, ClientSend, ClientStep, Connect, ReceiveId, HandshakeBroken,
              ConnectEntry, ClientReceive, userVars
<1>2. ASSUME NEW k \in Keys, HandshakeStep(k) PROVE delivered' = delivered
  BY <1>2 DEF HandshakeStep, AcceptKey, AcceptRole, userVars
<1>3. ASSUME NEW l \in Links,
             BindUnknown(l) \/ Bind(l) \/ BindFails(l) \/ DecryptFails(l) \/ Forward(l)
             \/ ListenerStep(l)
      PROVE  delivered' = delivered
  BY <1>3 DEF BindUnknown, Bind, BindFails, DecryptFails, Forward, ListenerStep, HostAnswer,
              Backward, Report, userVars
<1>4. ASSUME NEW l \in Links, Deliver(l), l[1] # c PROVE delivered'[c] = delivered[c]
  <2>1. Head(fwd[l]).body.from = l[1]
    BY <1>4, TakenHere DEF Deliver
  <2> QED
    BY <1>0, <1>4, <2>1 DEF Deliver
<1>5. ASSUME NEW r \in Relays, Crash(r) PROVE delivered' = delivered
  BY <1>5 DEF Crash, userVars
<1>6. CASE UNCHANGED vars
  BY <1>6 DEF vars, userVars
<1> QED
  BY <1>1, <1>2, <1>3, <1>4, <1>5, <1>6 DEF Next, HandlerStep

LEMMA ExitMoves ==
    ASSUME Base, [Next]_vars, NEW k \in Keys, role[k] # "exit", role'[k] = "exit"
    PROVE  role[k] = "unset" /\ hs[k] # "none" /\ told[k] = NoRelay
<1>0. role \in [Keys -> {"unset", "relay", "exit", "freed"}]
  BY DEF Base, Types, ConvType
<1>1. role[k] = "unset"
  BY <1>0, Kept DEF KeptAt
<1>2. ASSUME NEW c \in Clients, PathDesign(c) \/ ClientSend(c) \/ ClientStep(c)
      PROVE  role' = role
  BY <1>2 DEF PathDesign, ClientSend, ClientStep, Connect, ReceiveId, HandshakeBroken,
              ConnectEntry, ClientReceive, convVars
<1>3. ASSUME NEW j \in Keys, HandshakeStep(j) PROVE hs[k] # "none" /\ told[k] = NoRelay
  <2>1. CASE AcceptKey(j)
    BY <2>1 DEF AcceptKey
  <2>2. CASE AcceptRole(j)
    <3>1. j = k
      BY <1>0, <2>2 DEF AcceptRole
    <3> QED
      BY <1>0, <2>2, <3>1 DEF AcceptRole
  <2> QED
    BY <1>3, <2>1, <2>2 DEF HandshakeStep
<1>4. ASSUME NEW l \in Links, BindFails(l) PROVE FALSE
  BY <1>0, <1>4 DEF BindFails
<1>5. ASSUME NEW l \in Links,
             BindUnknown(l) \/ Bind(l) \/ DecryptFails(l) \/ Forward(l) \/ Deliver(l)
             \/ ListenerStep(l)
      PROVE  role' = role
  BY <1>5 DEF BindUnknown, Bind, DecryptFails, Forward, Deliver, ListenerStep, HostAnswer,
              Backward, Report, convVars
<1>6. ASSUME NEW r \in Relays, Crash(r) PROVE role' = role
  BY <1>6 DEF Crash, convVars
<1>7. CASE UNCHANGED vars
  BY <1>7 DEF vars, convVars
<1> QED
  BY <1>1, <1>2, <1>3, <1>4, <1>5, <1>6, <1>7 DEF Next, HandlerStep

\* The steps that pass a message of client c on to the next hop.
Handed(c) == \/ ClientSend(c) /\ ~ Broken(Entry(c))
             \/ \E l \in Links : l[1] = c /\ (Deliver(l) \/ (Forward(l) /\ ~ Cut(Ahead(l))))

\* All the others lose messages, or leave them where they are.
LEMMA FrameSpan ==
    ASSUME Base, Own, [Next]_vars, NEW c \in Clients, NEW e \in Tallies, TallyAt(c, e),
           ~ Handed(c), NEW i \in 0 .. MaxPath - 1
    PROVE  SpanAt(c, i, e)'
<1> DEFINE l == <<c, i>>
<1>0. /\ l \in Links /\ Ahead(l) \in Keys /\ l[1] = c /\ Ahead(l) = <<c, i + 1>>
      /\ FwdMoved(l) /\ LinkMoved(l) /\ i + 1 \in Hops
  <2>1. l \in Links /\ i + 1 \in Hops
    BY PathAssumption DEF Links, Hops
  <2> QED
    BY <2>1, ConstantFacts, FwdMoves, LinkMoves DEF Ahead
<1> SUFFICES ASSUME link'[l] # "none", ~ Dead(l)'
             PROVE  /\ e[i] = e[i + 1] + Len(fwd'[l])
                    /\ \A j \in 1 .. Len(fwd'[l]) : fwd'[l][j].body.n = e[i + 1] + j
  BY DEF SpanAt
<1> HIDE DEF l
<1>1. ~ Dead(l)
  BY <1>0, DeadForGood
<1>2. ASSUME NEW m \in Links, Forward(m), l = Ahead(m), link[l] = "open", up[LinkTo(l)]
      PROVE  FALSE
  <2>1. m[1] = c /\ Cut(l)
    BY <1>0, <1>2, AheadParts DEF Handed
  <2>2. l[2] # 0
    BY <1>2, AheadParts, ConstantFacts
  <2> QED
    BY <1>2, <2>1, <2>2 DEF Cut, LinkTo
<1>3. CASE link[l] # "none"
  <2>1. ~ \E d \in Clients : l = Entry(d) /\ ConnectEntry(d)
    <3> SUFFICES ASSUME NEW d \in Clients, l = Entry(d), ConnectEntry(d) PROVE FALSE
      OBVIOUS
    <3>1. Ahead(l) = <<d, 1>>
      BY DEF Ahead, Entry
    <3> QED
      BY <1>1, <1>3, <3>1, Reconnects DEF Dead
  <2>2. ~ DecryptFails(l)
    <3>1. DecryptFails(l) => handler'[l] = "ended"
      BY <1>0 DEF DecryptFails, Base, Types, ThreadType
    <3> QED
      BY <3>1 DEF Dead
  <2>3. ~ Forward(l) /\ ~ Deliver(l)
    <3>1. Forward(l) => Cut(Ahead(l))
      BY <1>0 DEF Handed
    <3> QED
      BY <1>0, <1>1, <3>1 DEF Handed, Dead
  <2>4. ~ \E d \in Clients : l = Entry(d) /\ ClientSend(d)
    <3> SUFFICES ASSUME NEW d \in Clients, l = Entry(d), ClientSend(d) PROVE FALSE
      OBVIOUS
    <3>1. d = c
      BY <1>0 DEF Entry
    <3>2. Broken(l) /\ link[l] \in {"open", "broken", "closed"} /\ link[l] # "closed"
      BY <1>0, <1>3, <3>1 DEF Handed, ClientSend, Base, Types, NetType
    <3>3. /\ Ahead(l) = <<c, 1>> /\ StartAt(c) /\ LinkTo(l) = at[<<c, 1>>]
      BY <1>0, <3>1 DEF Ahead, Entry, Own, StartInv, LinkTo
    <3>4. Told(<<c, 1>>) /\ convId[<<c, 1>>] # NoId /\ hs[<<c, 1>>] # "none"
      BY <1>0, <1>3, <3>1, <3>3, ConstantFacts
         DEF StartAt, Told, Base, IInv, HopInv, HandshakeInv, HandshakeAt
    <3>5. ~ InMap(<<c, 1>>) \/ ~ up[at[<<c, 1>>]]
      BY <3>1, <3>2, <3>3 DEF Own, FailInv, Broken
    <3> QED
      BY <1>1, <3>3, <3>4, <3>5 DEF Dead
  <2>5. fwd'[l] = fwd[l]
    BY <1>0, <1>2, <2>1, <2>2, <2>3, <2>4 DEF FwdMoved
  <2>6. SpanAt(c, i, e)
    BY DEF TallyAt
  <2> QED
    BY <1>1, <1>3, <2>5, <2>6 DEF SpanAt, l
<1>4. CASE link[l] = "none"
  <2>1. fwd[l] = << >> /\ handler[l] = "none"
    BY <1>0, <1>4 DEF Own, IdleInv
  <2>2. ~ \E d \in Clients : l = Entry(d) /\ ClientSend(d)
    BY <1>4 DEF ClientSend, Own, StartInv, StartAt
  <2>3. fwd'[l] = << >>
    BY <1>0, <1>4, <2>1, <2>2 DEF FwdMoved
  <2>4. e[i + 1] = 0
    <3>1. i \in 0 .. MaxPath /\ i < i + 1
      BY PathAssumption
    <3> QED
      BY <1>0, <1>4, <3>1 DEF TallyAt, ReachAt, l
  <2>5. e[i] = 0
    <3>1. CASE l \in Keys /\ role[l] = "relay"
      <4>1. i \in Hops
        BY <3>1 DEF l, Keys
      <4> QED
        BY <1>4, <3>1, <4>1 DEF TallyAt, CountAt, l
    <3>2. ASSUME NEW d \in Clients, l = Entry(d), ConnectEntry(d) PROVE e[i] = 0
      <4>1. d = c /\ i = 0
        BY <3>2 DEF l, Entry
      <4>2. sent[c] = 0
        BY <1>4, <3>2, <4>1, Reconnects
      <4> QED
        BY <1>1, <3>2, <4>1, <4>2 DEF TallyAt, SentAt
    <3> QED
      BY <1>0, <1>4, <3>1, <3>2 DEF LinkMoved
  <2>6. Len(fwd'[l]) = 0
    BY <2>3, EmptySeq
  <2> QED
    BY <2>4, <2>5, <2>6
<1> QED
  BY <1>3, <1>4

LEMMA TallyFrame ==
    ASSUME Base, Own, [Next]_vars, NEW c \in Clients, NEW e \in Tallies, TallyAt(c, e),
           ~ Handed(c)
    PROVE  TallyAt(c, e)'
<1>0. delivered'[c] = delivered[c]
  BY DeliveredMoves DEF Handed
<1>1. ASSUME NEW i \in Hops
      PROVE  /\ <<c, i>> \in Keys /\ <<c, i>> \in Links /\ KeptAt(<<c, i>>)
             /\ LinkMoved(<<c, i>>) /\ FwdMoved(<<c, i>>) /\ CountAt(c, i, e)
  BY ConstantFacts, Kept, LinkMoves, FwdMoves DEF TallyAt
<1>2. SentAt(c, e)'
  <2> SUFFICES ASSUME ~ Dead(Entry(c))' PROVE e[0] = sent'[c]
    BY DEF SentAt, Entry
  <2>1. /\ Entry(c) \in Links /\ Ahead(Entry(c)) = <<c, 1>> /\ <<c, 1>> \in Keys
        /\ StartAt(c) /\ LinkTo(Entry(c)) = at[<<c, 1>>]
    BY ConstantFacts DEF Ahead, Entry, Own, StartInv, LinkTo
  <2>2. ~ Dead(Entry(c))
    BY <2>1, DeadForGood
  <2>3. e[0] = sent[c]
    BY <2>2 DEF TallyAt, SentAt
  <2>4. ~ ClientSend(c)
    <3> SUFFICES ASSUME ClientSend(c) PROVE FALSE
      OBVIOUS
    <3>1. /\ Broken(Entry(c)) /\ cpc[c] = "ready" /\ link[Entry(c)] # "none"
      BY <2>1 DEF Handed, ClientSend, StartAt
    <3>2. convId[<<c, 1>>] # NoId /\ hs[<<c, 1>>] # "none"
      BY <2>1, <3>1, ConstantFacts
         DEF StartAt, Told, Base, IInv, HopInv, HandshakeInv, HandshakeAt
    <3>3. ~ InMap(<<c, 1>>) \/ ~ up[at[<<c, 1>>]]
      BY <2>1, <3>1 DEF Own, FailInv, Broken
    <3> QED
      BY <2>1, <2>2, <3>2, <3>3 DEF Dead
  <2>5. sent'[c] = sent[c]
    BY <2>4, ClientMoves DEF SentMoved
  <2> QED
    BY <2>3, <2>5
<1>3. ASSUME NEW i \in 0 .. MaxPath - 1 PROVE SpanAt(c, i, e)'
  BY FrameSpan
<1>4. ASSUME NEW i \in Hops PROVE CountAt(c, i, e)'
  <2> DEFINE k == <<c, i>>
  <2>0. k \in Keys
    BY <1>1
  <2>1. ASSUME role'[k] = "exit" PROVE e[i] = Len(delivered[c])
    <3>1. CASE role[k] = "exit"
      BY <1>1, <3>1 DEF CountAt
    <3>2. CASE role[k] # "exit"
      <4>1. role[k] = "unset" /\ hs[k] # "none" /\ told[k] = NoRelay
        BY <2>0, <2>1, <3>2, ExitMoves
      <4>2. link[k] = "none"
        BY <1>1, <4>1 DEF Own, RoleInv
      <4>3. e[i] = 0
        BY <1>1, <4>1, <4>2 DEF CountAt
      <4>4. \A j \in Hops : role[<<c, j>>] # "exit"
        BY <3>2, <4>1, UniqueExit DEF Own
      <4>5. delivered[c] = << >>
        BY <4>4 DEF TallyAt
      <4> QED
        BY <4>3, <4>5, EmptySeq
    <3> QED
      BY <3>1, <3>2
  <2>2. ASSUME role'[k] # "exit", link'[k] = "none" PROVE e[i] = 0
    <3>1. role[k] # "exit" /\ link[k] = "none"
      BY <1>1, <2>2 DEF KeptAt, LinkMoved
    <3> QED
      BY <1>1, <3>1 DEF CountAt
  <2> QED
    BY <1>0, <2>1, <2>2 DEF CountAt
<1>5. ASSUME NEW i \in 0 .. MaxPath PROVE ReachAt(c, i, e)'
  <2> SUFFICES ASSUME link'[<<c, i>>] = "none", NEW j \in Hops, i < j
               PROVE  e[j] = 0 /\ fwd'[<<c, j>>] = << >>
    BY DEF ReachAt
  <2>1. LinkMoved(<<c, i>>)
    <3>1. <<c, i>> \in Links
      BY DEF Links
    <3> QED
      BY <3>1, LinkMoves
  <2>2. link[<<c, i>>] = "none"
    BY <2>1 DEF LinkMoved
  <2>3. e[j] = 0 /\ fwd[<<c, j>>] = << >>
    BY <2>2 DEF TallyAt, ReachAt
  <2>4. \A d \in Clients : <<c, j>> # Entry(d)
    BY PathAssumption DEF Entry, Hops
  <2>5. ASSUME NEW m \in Links, Forward(m), <<c, j>> = Ahead(m), link[<<c, j>>] = "open",
               up[LinkTo(<<c, j>>)]
        PROVE  FALSE
    <3>1. m[1] = c /\ Cut(<<c, j>>)
      <4>1. m[1] = Ahead(m)[1]
        BY AheadParts
      <4>2. m[1] = c
        BY <2>5, <4>1
      <4> QED
        BY <2>5, <4>2 DEF Handed
    <3>2. LinkTo(<<c, j>>) = nxt[<<c, j>>]
      BY PathAssumption DEF LinkTo, Hops
    <3> QED
      BY <2>5, <3>1, <3>2 DEF Cut
  <2>6. fwd'[<<c, j>>] = << >>
    BY <1>1, <2>3, <2>4, <2>5 DEF FwdMoved
  <2> QED
    BY <2>3, <2>6
<1>6. ASSUME \A i \in Hops : role'[<<c, i>>] # "exit" PROVE delivered'[c] = << >>
  <2>1. \A i \in Hops : role[<<c, i>>] # "exit"
    BY <1>1, <1>6 DEF KeptAt
  <2> QED
    BY <1>0, <2>1 DEF TallyAt
<1> QED
  BY <1>2, <1>3, <1>4, <1>5, <1>6 DEF TallyAt

\* The user types a message.
LEMMA TallySend ==
    ASSUME Base, Own, NEW c \in Clients, NEW e \in Tallies, TallyAt(c, e),
           ClientSend(c), ~ Broken(Entry(c)),
           NEW f \in Tallies, f = [e EXCEPT ![0] = e[0] + 1]
    PROVE  TallyAt(c, f)'
<1>0. /\ f[0] = e[0] + 1 /\ e[0] \in Nat /\ e[1] \in Nat
      /\ \A i \in Hops : f[i] = e[i] /\ i # 0 /\ i \in 0 .. MaxPath
  BY PathAssumption DEF Tallies, Hops
<1>1. /\ UNCHANGED <<threadVars, link, convVars, hsVars, relayVars, delivered>>
      /\ sent' = [sent EXCEPT ![c] = @ + 1]
      /\ fwd' = [fwd EXCEPT ![Entry(c)] = Append(@, Onion(c, sent[c] + 1))]
  BY DEF ClientSend
<1>2. \A l : Dead(l)' = Dead(l)
  BY <1>1, DeadFrame
<1>3. /\ Entry(c) \in Links /\ sent'[c] = sent[c] + 1 /\ sent[c] \in Nat
      /\ fwd[Entry(c)] \in Seq(Onions)
      /\ fwd'[Entry(c)] = Append(fwd[Entry(c)], Onion(c, sent[c] + 1))
      /\ \A i \in Hops : fwd'[<<c, i>>] = fwd[<<c, i>>]
  BY <1>0, <1>1, ConstantFacts DEF Base, Types, UserType, NetType, Entry
<1>4. SentAt(c, f)'
  BY <1>0, <1>2, <1>3 DEF SentAt, TallyAt, Entry
<1>5. ASSUME NEW i \in 0 .. MaxPath - 1 PROVE SpanAt(c, i, f)'
  <2>0. SpanAt(c, i, e) /\ i + 1 \in Hops /\ link' = link
    BY <1>1, PathAssumption DEF TallyAt, Hops
  <2>1. CASE i # 0
    <3>1. i \in Hops
      BY <2>1, PathAssumption DEF Hops
    <3> QED
      BY <1>0, <1>2, <1>3, <2>0, <3>1 DEF SpanAt
  <2>2. CASE i = 0
    <3> DEFINE q == fwd[Entry(c)]
    <3> SUFFICES ASSUME link[Entry(c)] # "none", ~ Dead(Entry(c))
                 PROVE  /\ f[0] = f[1] + Len(fwd'[Entry(c)])
                        /\ \A j \in 1 .. Len(fwd'[Entry(c)]) :
                              fwd'[Entry(c)][j].body.n = f[1] + j
      BY <1>2, <2>0, <2>2 DEF SpanAt, Entry
    <3>1. /\ e[0] = e[1] + Len(q) /\ e[0] = sent[c] /\ f[1] = e[1]
          /\ \A j \in 1 .. Len(q) : q[j].body.n = e[1] + j
      BY <1>0, <2>0, <2>2 DEF SpanAt, TallyAt, SentAt, Entry
    <3>2. Onion(c, sent[c] + 1).body.n = sent[c] + 1
      BY DEF Onion
    <3>3. Onion(c, sent[c] + 1) \in Onions
      BY <1>3, OnionType, TypeSplit DEF ClientSend, Base, IInv
    <3>4. /\ Len(q) \in Nat /\ Len(fwd'[Entry(c)]) = Len(q) + 1
          /\ \A j \in 1 .. Len(q) : fwd'[Entry(c)][j] = q[j]
          /\ fwd'[Entry(c)][Len(q) + 1] = Onion(c, sent[c] + 1)
      BY <1>3, <3>3, AppendProperties, LenProperties
    <3> HIDE DEF q
    <3>a. /\ e[0] \in Nat /\ e[1] \in Nat /\ f[0] = e[0] + 1 /\ f[1] = e[1]
          /\ e[0] = e[1] + Len(q) /\ e[0] = sent[c]
      BY <1>0, <3>1
    <3>b. Len(q) \in Nat /\ Len(fwd'[Entry(c)]) = Len(q) + 1
      BY <3>4
    <3>5. ASSUME NEW j \in 1 .. Len(q) + 1 PROVE fwd'[Entry(c)][j].body.n = f[1] + j
      <4>1. CASE j \in 1 .. Len(q)
        BY <3>1, <3>4, <4>1
      <4>2. CASE j = Len(q) + 1
        <5>1. fwd'[Entry(c)][j].body.n = sent[c] + 1
          BY <3>2, <3>4, <4>2
        <5>2. sent[c] + 1 = f[1] + (Len(q) + 1)
          BY <3>a, <3>b
        <5> QED
          BY <4>2, <5>1, <5>2
      <4> QED
        BY <3>4, <4>1, <4>2
    <3>6. f[0] = f[1] + Len(fwd'[Entry(c)])
      BY <3>a, <3>b
    <3> QED
      BY <3>4, <3>5, <3>6
  <2> QED
    BY <2>1, <2>2
<1>6. ASSUME NEW i \in Hops PROVE CountAt(c, i, f)'
  <2>1. CountAt(c, i, e)
    BY DEF TallyAt
  <2> QED
    BY <1>0, <1>1, <2>1 DEF CountAt, convVars
<1>7. ASSUME NEW i \in 0 .. MaxPath PROVE ReachAt(c, i, f)'
  <2>1. ReachAt(c, i, e)
    BY DEF TallyAt
  <2> QED
    BY <1>0, <1>1, <1>3, <2>1 DEF ReachAt
<1> QED
  BY <1>1, <1>4, <1>5, <1>6, <1>7 DEF TallyAt, convVars

LEMMA TailCounts ==
    ASSUME NEW S, NEW q \in Seq(S), q # << >>
    PROVE  /\ Len(q) \in Nat /\ Len(q) >= 1 /\ Len(Tail(q)) = Len(q) - 1
           /\ Head(q) = q[1] /\ q[1] \in S
           /\ \A j \in 1 .. Len(q) - 1 : Tail(q)[j] = q[j + 1] /\ j + 1 \in 1 .. Len(q)
<1>1. Len(q) \in Nat /\ Len(q) # 0
  BY EmptySeq, LenProperties
<1>2. Len(Tail(q)) = Len(q) - 1 /\ \A j \in 1 .. Len(Tail(q)) : Tail(q)[j] = q[j + 1]
  BY HeadTailProperties
<1>3. 1 \in 1 .. Len(q) /\ Head(q) = q[1]
  BY <1>1
<1>4. q[1] \in S
  BY <1>3, ElementOfSeq
<1> QED
  BY <1>1, <1>2, <1>3, <1>4

\* The relay of hop i + 1 takes a message from the connection that leads to it.
HandedOn(c, i, e, f) ==
    /\ i \in 0 .. MaxPath - 1 /\ i + 1 \in Hops
    /\ e[i + 1] \in Nat /\ f[i + 1] = e[i + 1] + 1
    /\ \A x \in 0 .. MaxPath : x # i + 1 => f[x] = e[x]
    /\ Head(fwd[<<c, i>>]).body.n = e[i + 1] + 1
    /\ e[i] = f[i + 1] + Len(Tail(fwd[<<c, i>>]))
    /\ \A j \in 1 .. Len(Tail(fwd[<<c, i>>])) : Tail(fwd[<<c, i>>])[j].body.n = f[i + 1] + j
    /\ \A x \in 0 .. MaxPath : x <= i => link[<<c, x>>] # "none"

LEMMA TallyTaken ==
    ASSUME Base, Own, NEW c \in Clients, NEW i \in 0 .. MaxPath, NEW e \in Tallies,
           TallyAt(c, e), Takes(<<c, i>>), Readable(<<c, i>>), ~ Cut(<<c, i + 1>>),
           NEW f \in Tallies, f = [e EXCEPT ![i + 1] = e[i + 1] + 1]
    PROVE  HandedOn(c, i, e, f)
<1> DEFINE l == <<c, i>>
           q == fwd[l]
<1>0. l \in Links /\ Ahead(l) = <<c, i + 1>> /\ i \in Nat
  BY DEF Links, Ahead
<1>1. Ahead(l) \in Keys /\ ~ Dead(l) /\ link[l] # "none"
  BY <1>0, TakenHere, TakenAlive
<1>2. i + 1 \in Hops /\ i \in 0 .. MaxPath - 1
  <2>1. i + 1 \in Hops
    BY <1>0, <1>1 DEF Keys
  <2> QED
    BY <1>0, <2>1, PathAssumption DEF Hops
<1>3. /\ e[i] \in Nat /\ e[i + 1] \in Nat /\ f[i + 1] = e[i + 1] + 1
      /\ \A x \in 0 .. MaxPath : x # i + 1 => f[x] = e[x]
  BY <1>2, PathAssumption DEF Tallies, Hops
<1>4. q \in Seq(Onions) /\ q # << >>
  BY <1>0 DEF Takes, Base, Types, NetType
<1>5. e[i] = e[i + 1] + Len(q) /\ \A j \in 1 .. Len(q) : q[j].body.n = e[i + 1] + j
  BY <1>1, <1>2 DEF TallyAt, SpanAt
<1> HIDE DEF q
<1>6. /\ Len(q) \in Nat /\ Len(q) >= 1 /\ Len(Tail(q)) = Len(q) - 1 /\ Head(q) = q[1]
      /\ \A j \in 1 .. Len(q) - 1 : Tail(q)[j] = q[j + 1] /\ j + 1 \in 1 .. Len(q)
  BY <1>4, TailCounts
<1>7. Head(q).body.n = e[i + 1] + 1
  BY <1>5, <1>6
<1>8. e[i] = f[i + 1] + Len(Tail(q))
  BY <1>3, <1>5, <1>6
<1>9. ASSUME NEW j \in 1 .. Len(Tail(q)) PROVE Tail(q)[j].body.n = f[i + 1] + j
  <2>1. Tail(q)[j] = q[j + 1] /\ j + 1 \in 1 .. Len(q) /\ j \in Nat
    BY <1>6
  <2>2. q[j + 1].body.n = e[i + 1] + (j + 1)
    BY <1>5, <2>1
  <2>3. e[i + 1] + (j + 1) = f[i + 1] + j
    <3>1. \A a, b \in Nat : a + (b + 1) = (a + 1) + b
      OBVIOUS
    <3> QED
      BY <1>3, <2>1, <3>1, Zenon
  <2> QED
    BY <2>1, <2>2, <2>3, Zenon
<1>10. ASSUME NEW x \in 0 .. MaxPath, x <= i PROVE link[<<c, x>>] # "none"
  <2>1. CASE x = i
    BY <1>1, <2>1
  <2>2. CASE x # i
    <3>1. x < i /\ i \in Hops
      BY <1>0, <1>10, <2>2, PathAssumption DEF Hops
    <3>2. ReachAt(c, x, e)
      BY DEF TallyAt
    <3> QED
      BY <1>4, <3>1, <3>2 DEF ReachAt, q
  <2> QED
    BY <2>1, <2>2
<1> QED
  BY <1>2, <1>3, <1>7, <1>8, <1>9, <1>10 DEF q, HandedOn

LEMMA TallyForward ==
    ASSUME Base, Own, NEW c \in Clients, NEW i \in 0 .. MaxPath, NEW e \in Tallies,
           TallyAt(c, e), Forward(<<c, i>>), ~ Cut(<<c, i + 1>>),
           NEW f \in Tallies, f = [e EXCEPT ![i + 1] = e[i + 1] + 1]
    PROVE  TallyAt(c, f)'
<1> DEFINE l == <<c, i>>
           k == <<c, i + 1>>
<1>0. /\ l \in Links /\ Takes(l) /\ Readable(l) /\ Ahead(l) = k /\ i \in Nat
      /\ i \in 0 .. MaxPath - 1 /\ i + 1 \in Hops /\ i + 1 # i
      /\ e[i + 1] \in Nat /\ f[i + 1] = e[i + 1] + 1
      /\ \A x \in 0 .. MaxPath : x # i + 1 => f[x] = e[x]
      /\ Head(fwd[l]).body.n = e[i + 1] + 1
      /\ e[i] = f[i + 1] + Len(Tail(fwd[l]))
      /\ \A j \in 1 .. Len(Tail(fwd[l])) : Tail(fwd[l])[j].body.n = f[i + 1] + j
      /\ \A x \in 0 .. MaxPath : x <= i => link[<<c, x>>] # "none"
  <2>1. l \in Links /\ Takes(l) /\ Readable(l) /\ Ahead(l) = k /\ i \in Nat
    BY DEF Forward, Links, Ahead
  <2>2. HandedOn(c, i, e, f)
    BY <2>1, TallyTaken
  <2>3. /\ i \in 0 .. MaxPath - 1 /\ i + 1 \in Hops /\ i + 1 # i
        /\ e[i + 1] \in Nat /\ f[i + 1] = e[i + 1] + 1
    BY <2>1, <2>2 DEF HandedOn
  <2>4. /\ \A x \in 0 .. MaxPath : x # i + 1 => f[x] = e[x]
        /\ \A x \in 0 .. MaxPath : x <= i => link[<<c, x>>] # "none"
    BY <2>2 DEF HandedOn
  <2>5. /\ Head(fwd[l]).body.n = e[i + 1] + 1
        /\ e[i] = f[i + 1] + Len(Tail(fwd[l]))
    BY <2>2 DEF HandedOn
  <2>6. \A j \in 1 .. Len(Tail(fwd[l])) : Tail(fwd[l])[j].body.n = f[i + 1] + j
    BY <2>2, Zenon DEF HandedOn
  <2> HIDE DEF l, k
  <2> QED
    BY <2>1, <2>3, <2>4, <2>5, <2>6, Zenon
<1>1. /\ bound[l] = k /\ k \in Keys /\ k \in Links /\ k # l /\ role[k] = "relay"
      /\ handler[l] = "run"
  <2>1. bound[l] = k /\ k \in Keys /\ k \in Links /\ k # l
    <3> HIDE DEF l, k
    <3> QED
      BY <1>0, TakenHere
  <2>2. role[bound[l]] = "relay" /\ handler[l] = "run"
    BY DEF Forward, Takes
  <2> QED
    BY <2>1, <2>2, Zenon
<1>2. link[k] = "open" /\ ~ Broken(k)
  <2>1. link[k] # "none"
    BY <1>0, <1>1 DEF Own, RunInv
  <2>2. link[k] = "open" /\ up[nxt[k]]
    BY <1>1, <2>1 DEF Cut, Base, Types, NetType
  <2>3. LinkTo(k) = nxt[k]
    BY <1>0, PathAssumption DEF LinkTo, Hops
  <2> QED
    BY <2>2, <2>3 DEF Broken
<1>3. /\ fwd' = [Received(l) EXCEPT ![k] = Append(@, Peel(Head(fwd[l])))]
      /\ UNCHANGED <<link, threadVars, convVars, hsVars, relayVars, sent, delivered>>
  BY <1>1, <1>2 DEF Forward, threadVars, userVars
<1>4. \A m : Dead(m)' = Dead(m)
  BY <1>3, DeadFrame
<1>5. /\ fwd'[l] = Tail(fwd[l]) /\ fwd'[k] = Append(fwd[k], Peel(Head(fwd[l])))
      /\ \A m \in Links : m # l /\ m # k => fwd'[m] = fwd[m]
      /\ fwd[k] \in Seq(Onions)
  BY <1>0, <1>1, <1>3 DEF Received, Base, Types, NetType
<1>6. /\ Peel(Head(fwd[l])) \in Onions
      /\ Peel(Head(fwd[l])).body = Head(fwd[l]).body
  <2>1. Head(fwd[l]) \in Onions /\ Len(Head(fwd[l]).layers) > 0
    BY <1>0, TakenType DEF Base, IInv
  <2> QED
    BY <2>1, PeelType
<1>7. SentAt(c, f)'
  <2>1. SentAt(c, e) /\ 0 \in 0 .. MaxPath /\ 0 # i + 1
    BY <1>0, PathAssumption DEF TallyAt
  <2> QED
    BY <1>0, <1>3, <1>4, <2>1 DEF SentAt
<1>8. ASSUME NEW x \in 0 .. MaxPath - 1 PROVE SpanAt(c, x, f)'
  <2>0. /\ SpanAt(c, x, e) /\ x \in 0 .. MaxPath /\ x + 1 \in 0 .. MaxPath
        /\ <<c, x>> \in Links /\ x \in Nat
    BY PathAssumption DEF TallyAt, Links
  <2>1. CASE x = i
    <3>1. f[i] = e[i] /\ fwd'[l] = Tail(fwd[l])
      BY <1>0, <1>5, <2>0, <2>1
    <3>2. /\ f[i] = f[i + 1] + Len(fwd'[l])
          /\ \A j \in 1 .. Len(fwd'[l]) : fwd'[l][j].body.n = f[i + 1] + j
      BY <1>0, <3>1, Zenon
    <3> QED
      BY <2>1, <3>2, Zenon DEF SpanAt
  <2>2. CASE x = i + 1
    <3> SUFFICES ASSUME ~ Dead(k)
                 PROVE  /\ f[x] = f[x + 1] + Len(fwd'[k])
                        /\ \A j \in 1 .. Len(fwd'[k]) : fwd'[k][j].body.n = f[x + 1] + j
      BY <1>4, <2>2 DEF SpanAt
    <3> DEFINE q == fwd[k]
               d == e[x + 1]
    <3>1. e[x] = d + Len(q) /\ \A j \in 1 .. Len(q) : q[j].body.n = d + j
      BY <1>2, <2>0, <2>2 DEF SpanAt
    <3>2. f[x + 1] = d /\ d \in Nat /\ f[x] = e[x] + 1
      BY <1>0, <2>0, <2>2 DEF Tallies
    <3>3. /\ Len(q) \in Nat /\ Len(fwd'[k]) = Len(q) + 1
          /\ \A j \in 1 .. Len(q) : fwd'[k][j] = q[j]
          /\ fwd'[k][Len(q) + 1] = Peel(Head(fwd[l]))
      BY <1>5, <1>6, AppendProperties, LenProperties
    <3>4. Peel(Head(fwd[l])).body.n = d + (Len(q) + 1)
      <4>1. Peel(Head(fwd[l])).body.n = e[x] + 1
        BY <1>0, <1>6, <2>2
      <4> HIDE DEF q, d
      <4> QED
        BY <3>1, <3>2, <3>3, <4>1
    <3> HIDE DEF q, d
    <3>5. ASSUME NEW j \in 1 .. Len(q) + 1 PROVE fwd'[k][j].body.n = d + j
      <4>1. CASE j \in 1 .. Len(q)
        BY <3>1, <3>3, <4>1
      <4>2. CASE j = Len(q) + 1
        BY <3>3, <3>4, <4>2
      <4> QED
        BY <3>3, <4>1, <4>2
    <3>6. f[x] = d + Len(fwd'[k])
      BY <3>1, <3>2, <3>3
    <3> QED
      BY <3>2, <3>3, <3>5, <3>6
  <2>3. CASE x # i /\ x # i + 1
    <3>1. f[x] = e[x] /\ f[x + 1] = e[x + 1]
      BY <1>0, <2>0, <2>3
    <3>2. fwd'[<<c, x>>] = fwd[<<c, x>>] /\ link' = link
      BY <1>3, <1>5, <2>0, <2>3
    <3> QED
      BY <1>4, <2>0, <3>1, <3>2 DEF SpanAt
  <2> QED
    BY <2>1, <2>2, <2>3
<1>9. ASSUME NEW x \in Hops PROVE CountAt(c, x, f)'
  <2>0. CountAt(c, x, e) /\ x \in 0 .. MaxPath
    BY PathAssumption DEF TallyAt, Hops
  <2>1. CASE x = i + 1
    BY <1>1, <1>2, <1>3, <2>1 DEF CountAt, convVars
  <2>2. CASE x # i + 1
    BY <1>0, <1>3, <2>0, <2>2 DEF CountAt, convVars
  <2> QED
    BY <2>1, <2>2
<1>10. ASSUME NEW x \in 0 .. MaxPath PROVE ReachAt(c, x, f)'
  <2> SUFFICES ASSUME link[<<c, x>>] = "none", NEW j \in Hops, x < j
               PROVE  f[j] = 0 /\ fwd'[<<c, j>>] = << >>
    BY <1>3 DEF ReachAt
  <2>1. x > i + 1 /\ j # i + 1 /\ j # i /\ j \in 0 .. MaxPath
    <3>1. ~ (x <= i) /\ x # i + 1
      BY <1>0, <1>2
    <3> QED
      BY <1>0, <3>1, PathAssumption DEF Hops
  <2>2. e[j] = 0 /\ fwd[<<c, j>>] = << >>
    BY DEF TallyAt, ReachAt
  <2>3. <<c, j>> \in Links
    BY <2>1 DEF Links
  <2> QED
    BY <1>0, <1>5, <2>1, <2>2, <2>3
<1> QED
  BY <1>3, <1>7, <1>8, <1>9, <1>10 DEF TallyAt, convVars

LEMMA TallyDeliver ==
    ASSUME Base, Own, NEW c \in Clients, NEW i \in 0 .. MaxPath, NEW e \in Tallies,
           TallyAt(c, e), Deliver(<<c, i>>),
           NEW f \in Tallies, f = [e EXCEPT ![i + 1] = e[i + 1] + 1]
    PROVE  /\ TallyAt(c, f)'
           /\ delivered' = [delivered EXCEPT ![c] = Append(@, Len(@) + 1)]
           /\ Len(delivered[c]) < sent[c]
           /\ Head(fwd[<<c, i>>]).body.n = Len(delivered[c]) + 1
<1> DEFINE l == <<c, i>>
           k == <<c, i + 1>>
<1>1. /\ bound[l] = k /\ k \in Keys /\ k \in Links /\ k # l /\ role[k] = "exit"
      /\ Head(fwd[l]).body.from = c /\ l \in Links /\ Ahead(l) = k /\ Told(k)
      /\ Takes(l) /\ Readable(l)
  <2>1. l \in Links /\ Takes(l) /\ Readable(l) /\ Ahead(l) = k /\ l[1] = c
    BY DEF Deliver, Links, Ahead
  <2> QED
    BY <2>1, TakenHere DEF Deliver
<1>2. link[k] = "none" /\ ~ Cut(k)
  BY <1>1 DEF Own, RoleInv, Cut
<1>3. /\ i \in 0 .. MaxPath - 1 /\ i + 1 \in Hops /\ i + 1 # i /\ i \in Nat
      /\ e[i + 1] \in Nat /\ f[i + 1] = e[i + 1] + 1
      /\ \A x \in 0 .. MaxPath : x # i + 1 => f[x] = e[x]
      /\ Head(fwd[l]).body.n = e[i + 1] + 1
      /\ e[i] = f[i + 1] + Len(Tail(fwd[l]))
      /\ \A j \in 1 .. Len(Tail(fwd[l])) : Tail(fwd[l])[j].body.n = f[i + 1] + j
      /\ \A x \in 0 .. MaxPath : x <= i => link[<<c, x>>] # "none"
  <2>1. HandedOn(c, i, e, f)
    BY <1>1, <1>2, TallyTaken
  <2>2. i \in Nat
    OBVIOUS
  <2>3. /\ i \in 0 .. MaxPath - 1 /\ i + 1 \in Hops /\ i + 1 # i
        /\ e[i + 1] \in Nat /\ f[i + 1] = e[i + 1] + 1
    BY <2>1, <2>2 DEF HandedOn
  <2>4. /\ \A x \in 0 .. MaxPath : x # i + 1 => f[x] = e[x]
        /\ \A x \in 0 .. MaxPath : x <= i => link[<<c, x>>] # "none"
    BY <2>1 DEF HandedOn
  <2>5. /\ Head(fwd[l]).body.n = e[i + 1] + 1
        /\ e[i] = f[i + 1] + Len(Tail(fwd[l]))
    BY <2>1 DEF HandedOn
  <2>6. \A j \in 1 .. Len(Tail(fwd[l])) : Tail(fwd[l])[j].body.n = f[i + 1] + j
    BY <2>1, Zenon DEF HandedOn
  <2> HIDE DEF l, k
  <2> QED
    BY <2>2, <2>3, <2>4, <2>5, <2>6
<1>4. e[i + 1] = Len(delivered[c])
  BY <1>1, <1>3 DEF TallyAt, CountAt
<1>5. /\ UNCHANGED <<link, threadVars, convVars, hsVars, relayVars, sent>>
      /\ fwd' = Received(l)
      /\ delivered' = [delivered EXCEPT ![c] = Append(@, Len(delivered[c]) + 1)]
  BY <1>1, <1>3, <1>4 DEF Deliver
<1>6. \A m : Dead(m)' = Dead(m)
  BY <1>5, DeadFrame
<1>7. /\ fwd'[l] = Tail(fwd[l])
      /\ \A m \in Links : m # l => fwd'[m] = fwd[m]
      /\ delivered[c] \in Seq(Nat) /\ Len(delivered'[c]) = Len(delivered[c]) + 1
  BY <1>1, <1>5 DEF Received, Base, Types, NetType, UserType
<1>8. Len(delivered[c]) < sent[c]
  <2>1. fwd[l] \in Seq(Onions) /\ fwd[l] # << >>
    BY <1>1 DEF Takes, Base, Types, NetType
  <2>2. 1 \in 1 .. Len(fwd[l]) /\ Head(fwd[l]) = fwd[l][1]
    BY <2>1, EmptySeq
  <2>3. InfoAt(l, Head(fwd[l]))
    BY <1>1, <2>2 DEF Own, InfoInv
  <2>4. Head(fwd[l]).body.n \in 1 .. sent[c] /\ sent[c] \in Nat
    BY <2>3 DEF InfoAt, Base, Types, UserType
  <2> QED
    BY <1>3, <1>4, <2>4
<1>9. SentAt(c, f)'
  <2>1. SentAt(c, e) /\ 0 \in 0 .. MaxPath /\ 0 # i + 1
    BY <1>3, PathAssumption DEF TallyAt
  <2> QED
    BY <1>3, <1>5, <1>6, <2>1 DEF SentAt
<1>10. ASSUME NEW x \in 0 .. MaxPath - 1 PROVE SpanAt(c, x, f)'
  <2>0. /\ SpanAt(c, x, e) /\ x \in 0 .. MaxPath /\ x + 1 \in 0 .. MaxPath
        /\ <<c, x>> \in Links /\ x \in Nat
    BY PathAssumption DEF TallyAt, Links
  <2>1. CASE x = i
    <3>1. f[i] = e[i] /\ fwd'[l] = Tail(fwd[l])
      BY <1>3, <1>7, <2>0, <2>1
    <3>2. /\ f[i] = f[i + 1] + Len(fwd'[l])
          /\ \A j \in 1 .. Len(fwd'[l]) : fwd'[l][j].body.n = f[i + 1] + j
      BY <1>3, <3>1, Zenon
    <3> QED
      BY <2>1, <3>2, Zenon DEF SpanAt
  <2>2. CASE x = i + 1
    BY <1>2, <1>5, <2>2 DEF SpanAt
  <2>3. CASE x # i /\ x # i + 1
    <3>1. f[x] = e[x] /\ f[x + 1] = e[x + 1]
      BY <1>3, <2>0, <2>3
    <3>2. fwd'[<<c, x>>] = fwd[<<c, x>>] /\ link' = link
      BY <1>5, <1>7, <2>0, <2>3
    <3> QED
      BY <1>6, <2>0, <3>1, <3>2 DEF SpanAt
  <2> QED
    BY <2>1, <2>2, <2>3
<1>11. ASSUME NEW x \in Hops PROVE CountAt(c, x, f)'
  <2>0. CountAt(c, x, e) /\ x \in 0 .. MaxPath /\ role' = role /\ link' = link
    BY <1>5, PathAssumption DEF TallyAt, Hops, convVars
  <2>1. CASE x = i + 1
    BY <1>1, <1>3, <1>4, <1>7, <2>0, <2>1 DEF CountAt
  <2>2. CASE x # i + 1
    <3>1. role[<<c, x>>] # "exit"
      <4>1. told[k] = NoRelay /\ hs[k] # "none"
        BY <1>1 DEF Told, Base, IInv, HopInv, HandshakeInv, HandshakeAt
      <4> QED
        BY <1>3, <2>2, <4>1, UniqueExit DEF Own
    <3> QED
      BY <1>3, <2>0, <2>2, <3>1 DEF CountAt
  <2> QED
    BY <2>1, <2>2
<1>12. ASSUME NEW x \in 0 .. MaxPath PROVE ReachAt(c, x, f)'
  <2> SUFFICES ASSUME link[<<c, x>>] = "none", NEW j \in Hops, x < j
               PROVE  f[j] = 0 /\ fwd'[<<c, j>>] = << >>
    BY <1>5 DEF ReachAt
  <2>1. x > i /\ j # i + 1 /\ j # i /\ j \in 0 .. MaxPath
    BY <1>3, PathAssumption DEF Hops
  <2>2. e[j] = 0 /\ fwd[<<c, j>>] = << >>
    BY DEF TallyAt, ReachAt
  <2>3. <<c, j>> \in Links
    BY <2>1 DEF Links
  <2> QED
    BY <1>3, <1>7, <2>1, <2>2, <2>3
<1>13. ~ \A x \in Hops : role'[<<c, x>>] # "exit"
  BY <1>1, <1>3, <1>5 DEF convVars
<1>14. delivered' = [delivered EXCEPT ![c] = Append(@, Len(@) + 1)]
  BY <1>5
<1>15. Head(fwd[l]).body.n = Len(delivered[c]) + 1
  BY <1>3, <1>4
<1> QED
  BY <1>8, <1>9, <1>10, <1>11, <1>12, <1>13, <1>14, <1>15 DEF TallyAt

LEMMA Counted ==
    ASSUME NEW e \in Tallies, NEW i \in 0 .. MaxPath
    PROVE  [e EXCEPT ![i] = e[i] + 1] \in Tallies
  BY DEF Tallies

LEMMA TallyInit == Init => TallyInv
<1> SUFFICES ASSUME Init, NEW c \in Clients
             PROVE  \E e \in Tallies : TallyAt(c, e)
  BY DEF TallyInv
<1> DEFINE e == [i \in 0 .. MaxPath |-> 0]
<1>1. e \in Tallies /\ \A i \in 0 .. MaxPath : e[i] = 0
  BY DEF Tallies
<1> HIDE DEF e
<1>2. 0 \in 0 .. MaxPath /\ \A i \in Hops : i \in 0 .. MaxPath
  BY PathAssumption DEF Hops
<1>3. \A l \in Links : link[l] = "none" /\ fwd[l] = << >>
  BY DEF Init
<1>4. \A k \in Keys : role[k] = "unset"
  BY DEF Init
<1>5. sent[c] = 0 /\ delivered[c] = << >>
  BY DEF Init
<1>6. SentAt(c, e)
  BY <1>1, <1>2, <1>5 DEF SentAt
<1>7. ASSUME NEW i \in 0 .. MaxPath - 1 PROVE SpanAt(c, i, e)
  <2>1. <<c, i>> \in Links
    BY PathAssumption DEF Links
  <2> QED
    BY <1>3, <2>1 DEF SpanAt
<1>8. ASSUME NEW i \in Hops PROVE CountAt(c, i, e)
  <2>1. role[<<c, i>>] = "unset" /\ e[i] = 0
    BY <1>1, <1>2, <1>4, ConstantFacts
  <2> QED
    BY <2>1 DEF CountAt
<1>9. ASSUME NEW i \in 0 .. MaxPath PROVE ReachAt(c, i, e)
  <2>1. \A j \in Hops : e[j] = 0 /\ fwd[<<c, j>>] = << >>
    BY <1>1, <1>2, <1>3, ConstantFacts
  <2> QED
    BY <2>1 DEF ReachAt
<1> QED
  BY <1>1, <1>5, <1>6, <1>7, <1>8, <1>9 DEF TallyAt

LEMMA TallyStep ==
    ASSUME Base, Own, TallyInv, [Next]_vars
    PROVE  TallyInv'
<1> SUFFICES ASSUME NEW c \in Clients
             PROVE  \E f \in Tallies : TallyAt(c, f)'
  BY DEF TallyInv, Tallies
<1>1. PICK e \in Tallies : TallyAt(c, e)
  BY DEF TallyInv
<1>2. CASE ~ Handed(c)
  BY <1>1, <1>2, TallyFrame
<1>3. CASE ClientSend(c) /\ ~ Broken(Entry(c))
  <2>1. [e EXCEPT ![0] = e[0] + 1] \in Tallies
    BY Counted, PathAssumption
  <2> QED
    BY <1>1, <1>3, <2>1, TallySend
<1>4. ASSUME NEW l \in Links, l[1] = c, Deliver(l) \/ (Forward(l) /\ ~ Cut(Ahead(l)))
      PROVE  \E f \in Tallies : TallyAt(c, f)'
  <2>1. PICK i \in 0 .. MaxPath : l = <<c, i>>
    BY <1>4, ConstantFacts
  <2>2. Ahead(l) = <<c, i + 1>>
    BY <2>1 DEF Ahead
  <2>3. Takes(l) /\ Readable(l)
    BY <1>4 DEF Deliver, Forward
  <2>4. i + 1 \in 0 .. MaxPath
    <3>1. Ahead(l) \in Keys
      BY <2>3, TakenHere
    <3> QED
      BY <2>2, <3>1, PathAssumption DEF Keys, Hops
  <2>5. PICK f \in Tallies : f = [e EXCEPT ![i + 1] = e[i + 1] + 1]
    BY <2>4, Counted
  <2>6. CASE Deliver(l)
    <3>1. TallyAt(c, f)'
      BY <1>1, <2>1, <2>5, <2>6, TallyDeliver
    <3> QED
      BY <3>1
  <2>7. CASE Forward(l) /\ ~ Cut(Ahead(l))
    <3>1. TallyAt(c, f)'
      BY <1>1, <2>1, <2>2, <2>5, <2>7, TallyForward
    <3> QED
      BY <3>1
  <2> QED
    BY <1>4, <2>6, <2>7
<1> QED
  BY <1>2, <1>3, <1>4 DEF Handed

\* What is delivered is the next message, and one that was sent.
LEMMA DeliverPromised ==
    ASSUME Base, Own, TallyInv, NEW l \in Links, Deliver(l)
    PROVE  T!Deliver(l[1])
<1>1. PICK i \in 0 .. MaxPath : l = <<l[1], i>> /\ l[1] \in Clients
  BY ConstantFacts
<1>2. PICK e \in Tallies : TallyAt(l[1], e)
  BY <1>1 DEF TallyInv
<1>3. Ahead(l) \in Keys
  BY TakenHere DEF Deliver
<1>4. i + 1 \in 0 .. MaxPath
  <2>1. l[2] = i
    BY <1>1
  <2> QED
    BY <1>3, <2>1, PathAssumption DEF Ahead, Keys, Hops
<1>5. PICK f \in Tallies : f = [e EXCEPT ![i + 1] = e[i + 1] + 1]
  BY <1>4, Counted
<1>6. /\ delivered' = [delivered EXCEPT ![l[1]] = Append(@, Len(@) + 1)]
      /\ Len(delivered[l[1]]) < sent[l[1]]
  BY <1>1, <1>2, <1>5, TallyDeliver
<1> QED
  BY <1>6 DEF T!Deliver, Deliver

-----------------------------------------------------------------------------
(* In which order answers arrive. *)

\* Wrapped by the hops of its own circuit, in order, and not a report.
Proper(l, msg) ==
    msg.body.n # 0 /\ \A m \in 1 .. Len(msg.wraps) : msg.wraps[m] = <<l[1], l[2] + m>>

\* Such an answer comes from the exit of the circuit.
Genuine(l, msg) ==
    /\ msg.body.from = l[1] /\ Len(msg.wraps) > 0
    /\ l[2] + Len(msg.wraps) \in Hops
    /\ role[<<l[1], l[2] + Len(msg.wraps)>>] = "exit"
GenuineInv == \A l \in Links : \A j \in 1 .. Len(back[l]) :
                  Proper(l, back[l][j]) => Genuine(l, back[l][j])

\* The numbers of the answers on connection l rise, above lo and up to hi.
Spread(l, s, lo, hi) ==
    \A j \in 1 .. Len(s) : Proper(l, s[j]) =>
        /\ lo < s[j].body.n /\ s[j].body.n <= hi
        /\ \A i \in 1 .. Len(s) : i < j /\ Proper(l, s[i]) => s[i].body.n < s[j].body.n
HostSpread(s, lo, hi) ==
    \A j \in 1 .. Len(s) :
        /\ lo < s[j].n /\ s[j].n <= hi
        /\ \A i \in 1 .. Len(s) : i < j => s[i].n < s[j].n

LEMMA SpreadTail ==
    ASSUME NEW l, NEW s \in Seq(Answers), s # << >>, NEW lo \in Nat, NEW hi \in Nat,
           Spread(l, s, lo, hi)
    PROVE  /\ Spread(l, Tail(s), lo, hi)
           /\ Proper(l, Head(s)) => /\ Spread(l, Tail(s), Head(s).body.n, hi)
                                    /\ lo < Head(s).body.n /\ Head(s).body.n <= hi
<1>1. /\ Len(s) \in Nat /\ Len(s) >= 1 /\ Len(Tail(s)) = Len(s) - 1 /\ Head(s) = s[1]
      /\ \A j \in 1 .. Len(s) - 1 : Tail(s)[j] = s[j + 1] /\ j + 1 \in 1 .. Len(s)
  BY TailCounts
<1> DEFINE t == Tail(s)
<1> HIDE DEF t
<1>2. ASSUME NEW j \in 1 .. Len(t), Proper(l, t[j])
      PROVE  /\ lo < t[j].body.n /\ t[j].body.n <= hi
             /\ \A i \in 1 .. Len(t) : i < j /\ Proper(l, t[i]) => t[i].body.n < t[j].body.n
             /\ Proper(l, s[1]) => s[1].body.n < t[j].body.n
  <2>1. t[j] = s[j + 1] /\ j + 1 \in 1 .. Len(s) /\ 1 \in 1 .. Len(s) /\ 1 < j + 1
    BY <1>1 DEF t
  <2>2. ASSUME NEW i \in 1 .. Len(t), i < j
        PROVE  t[i] = s[i + 1] /\ i + 1 \in 1 .. Len(s) /\ i + 1 < j + 1
    BY <1>1, <2>2 DEF t
  <2> QED
    BY <1>2, <2>1, <2>2 DEF Spread
<1>3. Spread(l, t, lo, hi)
  BY <1>2 DEF Spread
<1>4. Proper(l, s[1]) => lo < s[1].body.n /\ s[1].body.n <= hi /\ Spread(l, t, s[1].body.n, hi)
  <2>1. Proper(l, s[1]) => lo < s[1].body.n /\ s[1].body.n <= hi
    BY <1>1 DEF Spread
  <2> QED
    BY <1>2, <2>1 DEF Spread
<1> QED
  BY <1>1, <1>3, <1>4 DEF t

LEMMA SpreadAppend ==
    ASSUME NEW l, NEW s \in Seq(Answers), NEW msg \in Answers,
           NEW lo \in Nat, NEW hi \in Nat, NEW top \in Nat, lo <= hi, hi <= top,
           Spread(l, s, lo, hi), Proper(l, msg) => hi < msg.body.n /\ msg.body.n <= top
    PROVE  Spread(l, Append(s, msg), lo, top)
<1> DEFINE t == Append(s, msg)
<1>1. /\ Len(s) \in Nat /\ Len(t) = Len(s) + 1 /\ t[Len(s) + 1] = msg
      /\ \A j \in 1 .. Len(s) : t[j] = s[j]
  BY AppendProperties, LenProperties
<1> HIDE DEF t
<1>2. msg.body.n \in Nat /\ \A j \in 1 .. Len(s) : s[j] \in Answers /\ s[j].body.n \in Nat
  <2>1. \A j \in 1 .. Len(s) : s[j] \in Answers
    BY ElementOfSeq
  <2> QED
    BY <2>1 DEF Answers, Body
<1>3. ASSUME NEW j \in 1 .. Len(t), Proper(l, t[j])
      PROVE  /\ lo < t[j].body.n /\ t[j].body.n <= top
             /\ \A i \in 1 .. Len(t) : i < j /\ Proper(l, t[i]) => t[i].body.n < t[j].body.n
  <2>1. CASE j \in 1 .. Len(s)
    <3>1. t[j] = s[j] /\ lo < s[j].body.n /\ s[j].body.n <= hi
      BY <1>1, <1>3, <2>1 DEF Spread
    <3>2. ASSUME NEW i \in 1 .. Len(t), i < j, Proper(l, t[i]) PROVE t[i].body.n < t[j].body.n
      <4>1. i \in 1 .. Len(s) /\ t[i] = s[i]
        BY <1>1, <2>1, <3>2
      <4> QED
        BY <1>3, <2>1, <3>1, <3>2, <4>1 DEF Spread
    <3>3. s[j].body.n \in Nat
      BY <1>2, <2>1
    <3>4. lo < t[j].body.n /\ t[j].body.n <= top
      BY <3>1, <3>3
    <3> QED
      BY <3>2, <3>4
  <2>2. CASE j = Len(s) + 1
    <3>1. t[j] = msg /\ hi < msg.body.n /\ msg.body.n <= top
      BY <1>1, <1>3, <2>2
    <3>2. ASSUME NEW i \in 1 .. Len(t), i < j, Proper(l, t[i]) PROVE t[i].body.n < t[j].body.n
      <4>1. i \in 1 .. Len(s) /\ t[i] = s[i]
        BY <1>1, <2>2, <3>2
      <4>2. s[i].body.n <= hi /\ s[i].body.n \in Nat
        BY <1>2, <3>2, <4>1 DEF Spread
      <4> QED
        BY <1>2, <3>1, <4>1, <4>2
    <3> QED
      BY <1>2, <3>1, <3>2
  <2> QED
    BY <1>1, <2>1, <2>2
<1> QED
  BY <1>3 DEF Spread, t

LEMMA HostTail ==
    ASSUME NEW s \in Seq(Body), s # << >>, NEW lo, NEW hi, HostSpread(s, lo, hi)
    PROVE  /\ HostSpread(Tail(s), lo, hi)
           /\ HostSpread(Tail(s), Head(s).n, hi)
           /\ lo < Head(s).n /\ Head(s).n <= hi
<1>1. /\ Len(s) \in Nat /\ Len(s) >= 1 /\ Len(Tail(s)) = Len(s) - 1 /\ Head(s) = s[1]
      /\ \A j \in 1 .. Len(s) - 1 : Tail(s)[j] = s[j + 1] /\ j + 1 \in 1 .. Len(s)
  BY TailCounts
<1> DEFINE t == Tail(s)
<1> HIDE DEF t
<1>2. ASSUME NEW j \in 1 .. Len(t)
      PROVE  /\ lo < t[j].n /\ t[j].n <= hi /\ s[1].n < t[j].n
             /\ \A i \in 1 .. Len(t) : i < j => t[i].n < t[j].n
  <2>1. t[j] = s[j + 1] /\ j + 1 \in 1 .. Len(s) /\ 1 \in 1 .. Len(s) /\ 1 < j + 1
    BY <1>1 DEF t
  <2>2. ASSUME NEW i \in 1 .. Len(t), i < j
        PROVE  t[i] = s[i + 1] /\ i + 1 \in 1 .. Len(s) /\ i + 1 < j + 1
    BY <1>1, <2>2 DEF t
  <2> QED
    BY <2>1, <2>2 DEF HostSpread
<1>3. lo < s[1].n /\ s[1].n <= hi
  BY <1>1 DEF HostSpread
<1> QED
  BY <1>1, <1>2, <1>3 DEF HostSpread, t

LEMMA HostAppend ==
    ASSUME NEW s \in Seq(Body), NEW body \in Body,
           NEW lo \in Nat, NEW hi \in Nat, NEW top \in Nat, lo <= hi, hi <= top,
           HostSpread(s, lo, hi), hi < body.n, body.n <= top
    PROVE  HostSpread(Append(s, body), lo, top)
<1> DEFINE t == Append(s, body)
<1>1. /\ Len(s) \in Nat /\ Len(t) = Len(s) + 1 /\ t[Len(s) + 1] = body
      /\ \A j \in 1 .. Len(s) : t[j] = s[j]
  BY AppendProperties, LenProperties
<1> HIDE DEF t
<1>2. body.n \in Nat /\ \A j \in 1 .. Len(s) : s[j].n \in Nat
  <2>1. \A j \in 1 .. Len(s) : s[j] \in Body
    BY ElementOfSeq
  <2> QED
    BY <2>1 DEF Body
<1>3. ASSUME NEW j \in 1 .. Len(t)
      PROVE  /\ lo < t[j].n /\ t[j].n <= top
             /\ \A i \in 1 .. Len(t) : i < j => t[i].n < t[j].n
  <2>1. CASE j \in 1 .. Len(s)
    <3>1. t[j] = s[j] /\ lo < s[j].n /\ s[j].n <= hi
      BY <1>1, <2>1 DEF HostSpread
    <3>2. ASSUME NEW i \in 1 .. Len(t), i < j PROVE t[i].n < t[j].n
      <4>1. i \in 1 .. Len(s) /\ t[i] = s[i]
        BY <1>1, <2>1, <3>2
      <4> QED
        BY <2>1, <3>1, <3>2, <4>1 DEF HostSpread
    <3>3. s[j].n \in Nat
      BY <1>2, <2>1
    <3>4. lo < t[j].n /\ t[j].n <= top
      BY <3>1, <3>3
    <3> QED
      BY <3>2, <3>4
  <2>2. CASE j = Len(s) + 1
    <3>1. t[j] = body
      BY <1>1, <2>2
    <3>2. ASSUME NEW i \in 1 .. Len(t), i < j PROVE t[i].n < t[j].n
      <4>1. i \in 1 .. Len(s) /\ t[i] = s[i]
        BY <1>1, <2>2, <3>2
      <4>2. s[i].n <= hi /\ s[i].n \in Nat
        BY <1>2, <4>1 DEF HostSpread
      <4> QED
        BY <1>2, <3>1, <4>1, <4>2
    <3> QED
      BY <1>2, <3>1, <3>2
  <2> QED
    BY <1>1, <2>1, <2>2
<1> QED
  BY <1>3 DEF HostSpread, t

\* An answer that was wrapped once more is in order only if it was before.
LEMMA WrapProper ==
    ASSUME Base, NEW l \in Links, NEW k \in Keys, NEW msg \in Answers,
           Proper(l, Wrap(k, msg))
    PROVE  k = Ahead(l) /\ Proper(k, msg)
<1> DEFINE w == msg.wraps
           v == <<k>> \o w
<1>0. /\ w \in Seq(Keys) /\ <<k>> \in Seq(Keys) /\ Len(<<k>>) = 1 /\ <<k>>[1] = k
      /\ Wrap(k, msg).wraps = v /\ Wrap(k, msg).body = msg.body /\ l[2] \in Nat
  BY ConstantFacts DEF Answers, Wrap
<1>1. /\ Len(w) \in Nat /\ Len(v) = 1 + Len(w)
      /\ \A m \in 1 .. 1 + Len(w) : v[m] = IF m <= 1 THEN k ELSE w[m - 1]
  BY <1>0, ConcatProperties, LenProperties
<1> HIDE DEF v
<1>2. msg.body.n # 0 /\ \A m \in 1 .. 1 + Len(w) : v[m] = <<l[1], l[2] + m>>
  BY <1>0, <1>1 DEF Proper
<1>3. k = Ahead(l)
  <2>1. 1 \in 1 .. 1 + Len(w) /\ 1 <= 1
    BY <1>1
  <2>2. v[1] = k
    BY <1>1, <2>1
  <2>3. v[1] = <<l[1], l[2] + 1>>
    BY <1>2, <2>1
  <2> QED
    BY <2>2, <2>3 DEF Ahead
<1>4. ASSUME NEW m \in 1 .. Len(w) PROVE w[m] = <<k[1], k[2] + m>>
  <2>1. m + 1 \in 1 .. 1 + Len(w) /\ ~ (m + 1 <= 1) /\ (m + 1) - 1 = m /\ m \in Nat
    BY <1>1
  <2>2. w[m] = <<l[1], l[2] + (m + 1)>>
    BY <1>1, <1>2, <2>1
  <2>3. l[2] + (m + 1) = (l[2] + 1) + m
    BY <1>0, <2>1
  <2> QED
    BY <1>3, <2>2, <2>3, AheadParts
<1> QED
  BY <1>2, <1>3, <1>4 DEF Proper

LEMMA AnswerProper ==
    ASSUME NEW l \in Links, NEW k \in Keys, NEW body, Proper(l, Answer(k, body))
    PROVE  k = Ahead(l) /\ body.n # 0
<1>1. /\ Answer(k, body).wraps = <<k>> /\ Len(<<k>>) = 1 /\ <<k>>[1] = k
      /\ Answer(k, body).body = body
  BY DEF Answer
<1>2. 1 \in 1 .. Len(<<k>>)
  BY <1>1
<1> QED
  BY <1>1, <1>2 DEF Proper, Ahead

LEMMA NewGenuine ==
    ASSUME Base, Own, HostInv, GenuineInv, NEW l \in Links, NEW msg \in Answers,
           NewAnswer(l, msg), Proper(l, msg)
    PROVE  Genuine(l, msg)
<1> DEFINE k == Ahead(l)
<1>0. l[2] \in Nat /\ k[1] = l[1] /\ k[2] = l[2] + 1 /\ k = <<l[1], l[2] + 1>>
  BY ConstantFacts DEF Ahead
<1>1. ASSUME NEW j \in Keys, msg = Answer(j, Unreachable(j)) PROVE FALSE
  BY <1>1, AnswerProper DEF Unreachable
<1>2. BindFails(l) => Addressed(l) \in Keys
  BY AddressedKey DEF BindFails
<1>3. CASE HostAnswer(l) /\ host[bound[l]] # << >> /\ msg = Answer(bound[l], Head(host[bound[l]]))
  <2>1. bound[l] \in Keys /\ role[bound[l]] = "exit"
    BY <1>3 DEF HostAnswer, Base, IInv, LinkInv, LinkAt
  <2>2. bound[l] = k
    BY <1>3, <2>1, AnswerProper
  <2>3. host[k] \in Seq(Body)
    BY <2>1, <2>2 DEF Base, Types, NetType
  <2>4. 1 \in 1 .. Len(host[k]) /\ Head(host[k]) = host[k][1]
    BY <1>3, <2>2, <2>3, EmptySeq
  <2>5. Head(host[k]).from = l[1]
    BY <1>0, <2>1, <2>2, <2>4 DEF HostInv
  <2>6. msg.wraps = <<k>> /\ msg.body = Head(host[k])
    BY <1>3, <2>2 DEF Answer
  <2>7. Len(msg.wraps) = 1 /\ l[2] + 1 \in Hops
    BY <1>0, <2>1, <2>2, <2>6, ConstantFacts
  <2> QED
    BY <1>0, <2>1, <2>2, <2>5, <2>6, <2>7 DEF Genuine
<1>4. CASE Backward(l) /\ back[bound[l]] # << >> /\ msg = Wrap(bound[l], Head(back[bound[l]]))
  <2>1. bound[l] \in Keys
    BY <1>4 DEF Backward, Base, IInv, LinkInv, LinkAt
  <2>2. back[bound[l]] \in Seq(Answers) /\ bound[l] \in Links
    BY <2>1, ConstantFacts DEF Base, Types, NetType
  <2>3. /\ 1 \in 1 .. Len(back[bound[l]]) /\ Head(back[bound[l]]) = back[bound[l]][1]
        /\ Head(back[bound[l]]) \in Answers
    BY <1>4, <2>2, EmptySeq, ElementOfSeq
  <2>4. bound[l] = k /\ Proper(k, Head(back[k]))
    BY <1>4, <2>1, <2>3, WrapProper
  <2>5. Genuine(k, Head(back[k]))
    BY <2>2, <2>3, <2>4 DEF GenuineInv
  <2> DEFINE w == Head(back[k]).wraps
  <2>6. /\ msg.wraps = <<k>> \o w /\ msg.body = Head(back[k]).body
        /\ w \in Seq(Keys) /\ <<k>> \in Seq(Keys) /\ Len(<<k>>) = 1
    BY <1>4, <2>1, <2>3, <2>4 DEF Wrap, Answers
  <2>7. Len(w) \in Nat /\ Len(msg.wraps) = 1 + Len(w)
    BY <2>6, ConcatProperties, LenProperties
  <2>a. l[2] \in Nat /\ k[2] = l[2] + 1
    BY <1>0
  <2> HIDE DEF k, w
  <2>8. l[2] + Len(msg.wraps) = k[2] + Len(w) /\ Len(msg.wraps) > 0
    BY <2>7, <2>a
  <2>9. /\ msg.body.from = k[1] /\ k[2] + Len(w) \in Hops
        /\ role[<<k[1], k[2] + Len(w)>>] = "exit"
    BY <2>5, <2>6 DEF Genuine, w
  <2> QED
    BY <1>0, <2>8, <2>9 DEF Genuine
<1> QED
  BY <1>1, <1>2, <1>3, <1>4 DEF NewAnswer

LEMMA GenuineStep ==
    ASSUME Base, Own, HostInv, GenuineInv, [Next]_vars
    PROVE  GenuineInv'
<1> SUFFICES ASSUME NEW l \in Links, NEW j \in 1 .. Len(back'[l]), Proper(l, back'[l][j])
             PROVE  /\ Genuine(l, back'[l][j])
                    /\ role'[<<l[1], l[2] + Len(back'[l][j].wraps)>>] = "exit"
  BY DEF GenuineInv, Genuine, Proper
<1>1. Genuine(l, back'[l][j])
  <2>1. CASE \E i \in 1 .. Len(back[l]) : back'[l][j] = back[l][i]
    BY <2>1 DEF GenuineInv
  <2>2. CASE \E msg \in Answers : back'[l][j] = msg /\ NewAnswer(l, msg)
    BY <2>2, NewGenuine
  <2> QED
    BY <2>1, <2>2, AnswersMove
<1> DEFINE i == l[2] + Len(back'[l][j].wraps)
<1>2. <<l[1], i>> \in Keys /\ role[<<l[1], i>>] = "exit"
  BY <1>1, ConstantFacts DEF Genuine
<1> HIDE DEF i
<1>3. role'[<<l[1], i>>] = "exit"
  BY <1>2, Kept DEF KeptAt
<1> QED
  BY <1>1, <1>3 DEF i

\* Answers shown come before those on the way, answers near the client before those
\* behind them, and what the host has before what was not delivered: all numbers on the
\* connection out of hop i lie above g[i] and up to g[i + 1].
RankAt(c, g) ==
    /\ T!LastShown(c) <= g[0]
    /\ \A i, j \in 0 .. MaxPath + 1 : i <= j => g[i] <= g[j]
    /\ g[MaxPath + 1] <= Len(delivered[c])
    /\ \A i \in 0 .. MaxPath : Spread(<<c, i>>, back[<<c, i>>], g[i], g[i + 1])
    /\ \A i \in Hops : HostSpread(host[<<c, i>>], g[MaxPath + 1], Len(delivered[c]))
Ranks   == [0 .. MaxPath + 1 -> Nat]
RankInv == \A c \in Clients : \E g \in Ranks : RankAt(c, g)

LEMMA RankTypes ==
    ASSUME Base, NEW c \in Clients, NEW g \in Ranks
    PROVE  /\ T!LastShown(c) \in Nat /\ Len(delivered[c]) \in Nat
           /\ \A i \in 0 .. MaxPath + 1 : g[i] \in Nat
           /\ \A i \in 0 .. MaxPath : /\ i \in 0 .. MaxPath + 1 /\ i + 1 \in 0 .. MaxPath + 1
                                      /\ i <= i + 1 /\ i + 1 <= MaxPath + 1 /\ <<c, i>> \in Links
           /\ \A i \in Hops : i \in 0 .. MaxPath /\ i # 0 /\ i # MaxPath + 1 /\ <<c, i>> \in Keys
           /\ 0 \in 0 .. MaxPath /\ MaxPath + 1 \in 0 .. MaxPath + 1 /\ 0 # MaxPath + 1
<1>1. shown[c] \in Seq(Body) /\ delivered[c] \in Seq(Nat)
  BY DEF Base, Types, UserType
<1>2. T!LastShown(c) \in Nat
  <2>1. CASE shown[c] = << >>
    BY <2>1 DEF T!LastShown
  <2>2. CASE shown[c] # << >>
    <3>1. Len(shown[c]) \in 1 .. Len(shown[c])
      BY <1>1, <2>2, TailCounts
    <3>2. shown[c][Len(shown[c])] \in Body
      BY <1>1, <3>1, ElementOfSeq
    <3> QED
      BY <2>2, <3>2 DEF T!LastShown, Body
  <2> QED
    BY <2>1, <2>2
<1>3. Len(delivered[c]) \in Nat /\ \A i \in 0 .. MaxPath + 1 : g[i] \in Nat
  BY <1>1, LenProperties DEF Ranks
<1>4. MaxPath \in Nat /\ MaxPath >= 1
  BY ConstantFacts
<1>5. \A i \in 0 .. MaxPath : /\ i \in 0 .. MaxPath + 1 /\ i + 1 \in 0 .. MaxPath + 1
                             /\ i <= i + 1 /\ i + 1 <= MaxPath + 1
  BY <1>4
<1>6. \A i \in 0 .. MaxPath : <<c, i>> \in Links
  BY DEF Links
<1>7. \A i \in Hops : i \in 0 .. MaxPath /\ i # 0 /\ i # MaxPath + 1
  BY <1>4 DEF Hops
<1>8. \A i \in Hops : <<c, i>> \in Keys
  BY ConstantFacts
<1>9. 0 \in 0 .. MaxPath /\ MaxPath + 1 \in 0 .. MaxPath + 1 /\ 0 # MaxPath + 1
  BY <1>4
<1> QED
  BY <1>2, <1>3, <1>5, <1>6, <1>7, <1>8, <1>9

\* The steps that bring an answer for client c nearer to its user.
Passed(c) ==
    \/ /\ ClientReceive(c) /\ Opens(c, Head(back[Entry(c)]))
       /\ Head(back[Entry(c)]).body.n # 0
    \/ \E l \in Links :
         /\ l[1] = c /\ bound[l] = Ahead(l) /\ link[l] = "open"
         /\ HostAnswer(l) \/ (Backward(l) /\ Proper(Ahead(l), Head(back[Ahead(l)])))

LEMMA ShownMoves ==
    ASSUME Base, [Next]_vars, NEW c \in Clients
    PROVE  \/ shown'[c] = shown[c]
           \/ /\ ClientReceive(c) /\ Opens(c, Head(back[Entry(c)]))
              /\ Head(back[Entry(c)]).body.n # 0
<1>0. shown \in [Clients -> Seq(Body)]
  BY DEF Base, Types, UserType
<1>1. ASSUME NEW d \in Clients,
             PathDesign(d) \/ ClientSend(d) \/ Connect(d) \/ ReceiveId(d)
             \/ HandshakeBroken(d) \/ ConnectEntry(d)
      PROVE  shown' = shown
  BY <1>1 DEF PathDesign, ClientSend, Connect, ReceiveId, HandshakeBroken, ConnectEntry, userVars
<1>2. ASSUME NEW d \in Clients, ClientReceive(d)
      PROVE  \/ shown'[c] = shown[c]
             \/ /\ ClientReceive(c) /\ Opens(c, Head(back[Entry(c)]))
                /\ Head(back[Entry(c)]).body.n # 0
  BY <1>0, <1>2 DEF ClientReceive
<1>3. ASSUME NEW k \in Keys, HandshakeStep(k) PROVE shown' = shown
  BY <1>3 DEF HandshakeStep, AcceptKey, AcceptRole, userVars
<1>4. ASSUME NEW l \in Links, HandlerStep(l) \/ ListenerStep(l) PROVE shown' = shown
  BY <1>4 DEF HandlerStep, BindUnknown, Bind, BindFails, DecryptFails, Forward, Deliver,
              ListenerStep, HostAnswer, Backward, Report, userVars
<1>5. ASSUME NEW r \in Relays, Crash(r) PROVE shown' = shown
  BY <1>5 DEF Crash, userVars
<1>6. CASE UNCHANGED vars
  BY <1>6 DEF vars, userVars
<1> QED
  BY <1>1, <1>2, <1>3, <1>4, <1>5, <1>6 DEF Next, ClientStep

LEMMA DeliveredGrows ==
    ASSUME Base, [Next]_vars, NEW c \in Clients
    PROVE  Len(delivered'[c]) \in Nat /\ Len(delivered[c]) <= Len(delivered'[c])
<1>0. delivered \in [Clients -> Seq(Nat)] /\ Len(delivered[c]) \in Nat
  BY LenProperties DEF Base, Types, UserType
<1>1. ASSUME NEW l \in Links, Deliver(l), l[1] = c
      PROVE  Len(delivered'[c]) = Len(delivered[c]) + 1
  <2>1. Head(fwd[l]).body.from = c /\ Head(fwd[l]).body.n \in Nat
    BY <1>1, TakenHere, TakenType DEF Deliver, Base, IInv, Onions, Body
  <2>2. delivered'[c] = Append(delivered[c], Head(fwd[l]).body.n)
    BY <1>0, <1>1, <2>1 DEF Deliver
  <2> QED
    BY <1>0, <2>1, <2>2, AppendProperties
<1> QED
  BY <1>0, <1>1, DeliveredMoves

LEMMA FrameSpread ==
    ASSUME Base, Own, [Next]_vars, NEW c \in Clients, NEW g \in Ranks, RankAt(c, g),
           ~ Passed(c), NEW i \in 0 .. MaxPath
    PROVE  Spread(<<c, i>>, back'[<<c, i>>], g[i], g[i + 1])
<1> DEFINE l == <<c, i>>
<1>0. /\ l \in Links /\ l[1] = c /\ g[i] \in Nat /\ g[i + 1] \in Nat /\ g[i] <= g[i + 1]
      /\ back[l] \in Seq(Answers) /\ BackMoved(l)
      /\ Spread(l, back[l], g[i], g[i + 1])
  <2>1. l \in Links
    BY RankTypes
  <2> QED
    BY <2>1, RankTypes, BackMoves DEF RankAt, Base, Types, NetType
<1> HIDE DEF l
<1>1. CASE back'[l] = << >>
  BY <1>1, EmptySeq DEF Spread, l
<1>2. CASE back[l] # << >> /\ back'[l] = Tail(back[l])
  BY <1>0, <1>2, SpreadTail DEF l
<1>3. ASSUME NEW msg \in Answers, link[l] = "open", back'[l] = Append(back[l], msg),
             NewAnswer(l, msg)
      PROVE  Spread(l, back'[l], g[i], g[i + 1])
  <2>1. ~ Proper(l, msg)
    <3> SUFFICES ASSUME Proper(l, msg) PROVE FALSE
      OBVIOUS
    <3>1. ASSUME NEW j \in Keys, msg = Answer(j, Unreachable(j)) PROVE FALSE
      BY <1>0, <3>1, AnswerProper DEF Unreachable
    <3>2. BindFails(l) => Addressed(l) \in Keys
      BY <1>0, AddressedKey DEF BindFails
    <3>3. HostAnswer(l) \/ Backward(l) => bound[l] \in Keys
      BY <1>0 DEF HostAnswer, Backward, Base, IInv, LinkInv, LinkAt
    <3>4. ASSUME HostAnswer(l), msg = Answer(bound[l], Head(host[bound[l]])) PROVE FALSE
      <4>1. bound[l] = Ahead(l)
        BY <1>0, <3>3, <3>4, AnswerProper
      <4> QED
        BY <1>0, <1>3, <3>4, <4>1 DEF Passed
    <3>5. ASSUME Backward(l), back[bound[l]] # << >>, msg = Wrap(bound[l], Head(back[bound[l]]))
          PROVE  FALSE
      <4>1. back[bound[l]] \in Seq(Answers)
        BY <3>3, <3>5, ConstantFacts DEF Base, Types, NetType
      <4>2. Head(back[bound[l]]) \in Answers
        BY <3>5, <4>1, TailCounts
      <4>3. bound[l] = Ahead(l) /\ Proper(Ahead(l), Head(back[Ahead(l)]))
        BY <1>0, <3>3, <3>5, <4>2, WrapProper
      <4> QED
        BY <1>0, <1>3, <3>5, <4>3 DEF Passed
    <3> QED
      BY <1>3, <3>1, <3>2, <3>4, <3>5 DEF NewAnswer
  <2> QED
    BY <1>0, <1>3, <2>1, SpreadAppend
<1> QED
  BY <1>0, <1>1, <1>2, <1>3 DEF BackMoved, l

LEMMA FrameHost ==
    ASSUME Base, Own, TallyInv, [Next]_vars, NEW c \in Clients, NEW g \in Ranks, RankAt(c, g),
           NEW i \in Hops
    PROVE  HostSpread(host'[<<c, i>>], g[MaxPath + 1], Len(delivered'[c]))
<1> DEFINE k == <<c, i>>
           lo == g[MaxPath + 1]
<1>0. /\ k \in Keys /\ k[1] = c /\ lo \in Nat /\ lo <= Len(delivered[c])
      /\ host[k] \in Seq(Body) /\ HostMoved(k)
      /\ HostSpread(host[k], lo, Len(delivered[c]))
      /\ Len(delivered[c]) \in Nat /\ Len(delivered'[c]) \in Nat
      /\ Len(delivered[c]) <= Len(delivered'[c])
  <2>1. k \in Keys
    BY RankTypes
  <2> QED
    BY <2>1, RankTypes, HostMoves, DeliveredGrows DEF RankAt, Base, Types, NetType
<1> HIDE DEF k, lo
<1>1. ASSUME NEW s \in Seq(Body), HostSpread(s, lo, Len(delivered[c]))
      PROVE  HostSpread(s, lo, Len(delivered'[c]))
  <2>1. \A j \in 1 .. Len(s) : s[j].n \in Nat
    <3>1. \A j \in 1 .. Len(s) : s[j] \in Body
      BY ElementOfSeq
    <3> QED
      BY <3>1 DEF Body
  <2>2. \A j \in 1 .. Len(s) : s[j].n <= Len(delivered'[c])
    BY <1>0, <1>1, <2>1 DEF HostSpread
  <2> QED
    BY <1>1, <2>2 DEF HostSpread
<1>2. CASE host'[k] = host[k]
  BY <1>0, <1>1, <1>2 DEF k, lo
<1>3. CASE host[k] # << >> /\ host'[k] = Tail(host[k])
  <2>1. Tail(host[k]) \in Seq(Body) /\ HostSpread(Tail(host[k]), lo, Len(delivered[c]))
    BY <1>0, <1>3, HostTail, HeadTailProperties
  <2> QED
    BY <1>1, <1>3, <2>1 DEF k, lo
<1>4. ASSUME NEW l \in Links, Deliver(l), bound[l] = k,
             host'[k] = Append(host[k], Head(fwd[l]).body)
      PROVE  HostSpread(host'[k], lo, Len(delivered'[c]))
  <2>1. Ahead(l) = k /\ Head(fwd[l]).body \in Body
    BY <1>4, TakenHere, TakenType DEF Deliver, Onions, Base, IInv
  <2>2. PICK x \in 0 .. MaxPath : l = <<c, x>>
    BY <1>0, <2>1, AheadParts, ConstantFacts
  <2>3. x + 1 \in 0 .. MaxPath
    <3>1. Ahead(l)[2] = x + 1 /\ Ahead(l)[2] \in Hops
      BY <1>0, <2>1, <2>2, AheadParts, ConstantFacts
    <3> QED
      BY <3>1, RankTypes
  <2>4. PICK e \in Tallies : TallyAt(c, e)
    BY DEF TallyInv
  <2>5. PICK f \in Tallies : f = [e EXCEPT ![x + 1] = e[x + 1] + 1]
    BY <2>3, Counted
  <2>6. /\ delivered' = [delivered EXCEPT ![c] = Append(@, Len(@) + 1)]
        /\ Head(fwd[l]).body.n = Len(delivered[c]) + 1
    BY <1>4, <2>2, <2>4, <2>5, TallyDeliver
  <2>7. Len(delivered'[c]) = Len(delivered[c]) + 1
    <3>1. delivered[c] \in Seq(Nat) /\ delivered'[c] = Append(delivered[c], Len(delivered[c]) + 1)
      BY <2>6 DEF Base, Types, UserType
    <3> QED
      BY <1>0, <3>1, AppendProperties
  <2>8. /\ Len(delivered[c]) < Head(fwd[l]).body.n
        /\ Head(fwd[l]).body.n <= Len(delivered'[c])
    BY <1>0, <2>6, <2>7
  <2> QED
    BY <1>0, <1>4, <2>1, <2>8, HostAppend
<1> QED
  BY <1>0, <1>2, <1>3, <1>4 DEF HostMoved, k, lo

LEMMA RankFrame ==
    ASSUME Base, Own, TallyInv, [Next]_vars, NEW c \in Clients, NEW g \in Ranks, RankAt(c, g),
           ~ Passed(c)
    PROVE  RankAt(c, g)'
<1>1. shown'[c] = shown[c]
  BY ShownMoves DEF Passed
<1>2. T!LastShown(c)' = T!LastShown(c)
  BY <1>1 DEF T!LastShown
<1>3. g[MaxPath + 1] <= Len(delivered'[c])
  <2>1. g[MaxPath + 1] <= Len(delivered[c])
    BY DEF RankAt
  <2> QED
    BY <2>1, DeliveredGrows, RankTypes
<1>4. \A i \in 0 .. MaxPath : Spread(<<c, i>>, back'[<<c, i>>], g[i], g[i + 1])
  BY FrameSpread
<1>5. \A i \in Hops : HostSpread(host'[<<c, i>>], g[MaxPath + 1], Len(delivered'[c]))
  BY FrameHost
<1>6. T!LastShown(c) <= g[0] /\ \A i, j \in 0 .. MaxPath + 1 : i <= j => g[i] <= g[j]
  BY DEF RankAt
<1> QED
  BY <1>2, <1>3, <1>4, <1>5, <1>6 DEF RankAt, Spread, HostSpread, Proper

\* The user is shown an answer.
LEMMA OpenedProper ==
    ASSUME Base, NEW c \in Clients, NEW msg \in Answers, Opens(c, msg), msg.body.n # 0
    PROVE  Proper(Entry(c), msg)
<1>1. path[c] \in Seq(Relays) /\ Len(path[c]) \in Nat
  BY LenProperties DEF Base, Types, ClientType
<1>2. msg.wraps = [i \in 1 .. Len(path[c]) |-> <<c, i>>]
  BY DEF Opens
<1>3. Len(msg.wraps) = Len(path[c])
  BY <1>1, <1>2
<1>4. ASSUME NEW m \in 1 .. Len(msg.wraps) PROVE msg.wraps[m] = <<c, 0 + m>>
  BY <1>1, <1>2, <1>3
<1>5. Entry(c)[1] = c /\ Entry(c)[2] = 0
  BY DEF Entry
<1> QED
  BY <1>4, <1>5 DEF Proper

LEMMA RankShow ==
    ASSUME Base, GenuineInv, NEW c \in Clients, NEW g \in Ranks, RankAt(c, g),
           ClientReceive(c), Opens(c, Head(back[Entry(c)])),
           Head(back[Entry(c)]).body.n # 0,
           NEW h \in Ranks, h = [g EXCEPT ![0] = Head(back[Entry(c)]).body.n]
    PROVE  RankAt(c, h)' /\ T!Show(c)
<1> DEFINE l == Entry(c)
           msg == Head(back[l])
           n == msg.body.n
<1>1. /\ l \in Links /\ back[l] \in Seq(Answers) /\ back[l] # << >> /\ l = <<c, 0>>
      /\ 0 \in 0 .. MaxPath
  BY RankTypes DEF Entry, ClientReceive, Base, Types, NetType
<1>2. msg \in Answers /\ msg = back[l][1] /\ 1 \in 1 .. Len(back[l])
  BY <1>1, TailCounts
<1>3. Proper(l, msg) /\ Genuine(l, msg)
  <2>1. Proper(l, msg)
    BY <1>2, OpenedProper
  <2> QED
    BY <1>1, <1>2, <2>1 DEF GenuineInv
<1>4. msg.body \in Body /\ msg.body.from = c /\ n \in Nat
  BY <1>1, <1>2, <1>3 DEF Genuine, Answers, Body
<1>5. /\ ~ (msg.body.n = 0) /\ shown' = [shown EXCEPT ![c] = Append(@, msg.body)]
      /\ back' = [back EXCEPT ![l] = Tail(@)] /\ UNCHANGED <<host, sent, delivered>>
  BY DEF ClientReceive
<1> HIDE DEF l, msg
<1>6. /\ g[0] \in Nat /\ g[1] \in Nat /\ g[0] <= g[1] /\ T!LastShown(c) <= g[0]
      /\ g[1] <= g[MaxPath + 1] /\ g[MaxPath + 1] <= Len(delivered[c])
      /\ g[MaxPath + 1] \in Nat /\ T!LastShown(c) \in Nat /\ Len(delivered[c]) \in Nat
      /\ Spread(l, back[l], g[0], g[1])
  <2>1. 0 + 1 = 1 /\ 0 \in 0 .. MaxPath /\ 0 <= 1 /\ 1 <= MaxPath + 1
    BY PathAssumption
  <2> QED
    BY <1>1, <2>1, RankTypes DEF RankAt
<1>7. Spread(l, Tail(back[l]), n, g[1]) /\ g[0] < n /\ n <= g[1]
  BY <1>1, <1>3, <1>6, SpreadTail DEF msg
<1>8. h[0] = n /\ \A i \in 0 .. MaxPath + 1 : i # 0 => h[i] = g[i]
  BY <1>1, PathAssumption DEF Ranks, msg, l
<1>9. T!LastShown(c)' = n
  <2>1. shown[c] \in Seq(Body) /\ shown'[c] = Append(shown[c], msg.body)
    BY <1>5 DEF Base, Types, UserType
  <2>2. /\ Len(shown[c]) \in Nat /\ Len(shown'[c]) = Len(shown[c]) + 1
        /\ shown'[c][Len(shown[c]) + 1] = msg.body
    BY <1>4, <2>1, AppendProperties, LenProperties
  <2>3. shown'[c] # << >>
    BY <2>2, EmptySeq
  <2> QED
    BY <2>2, <2>3 DEF T!LastShown
<1>10. ASSUME NEW i \in 0 .. MaxPath + 1, NEW j \in 0 .. MaxPath + 1, i <= j
       PROVE  h[i] <= h[j]
  <2>0. g[i] \in Nat /\ g[j] \in Nat /\ g[i] <= g[j]
    BY <1>10, RankTypes DEF RankAt
  <2>1. CASE i # 0
    <3>1. j # 0
      BY <1>10, <2>1, PathAssumption
    <3> QED
      BY <1>8, <2>0, <2>1, <3>1
  <2>2. CASE i = 0 /\ j # 0
    <3>1. 1 <= j /\ 1 \in 0 .. MaxPath + 1
      BY <2>2, PathAssumption
    <3>2. g[1] <= g[j]
      BY <3>1 DEF RankAt
    <3> QED
      BY <1>4, <1>6, <1>7, <1>8, <2>0, <2>2, <3>2
  <2>3. CASE i = 0 /\ j = 0
    BY <1>4, <1>8, <2>3
  <2> QED
    BY <2>1, <2>2, <2>3
<1>11. ASSUME NEW i \in 0 .. MaxPath
       PROVE  Spread(<<c, i>>, back'[<<c, i>>], h[i], h[i + 1])
  <2>0. <<c, i>> \in Links /\ i \in 0 .. MaxPath + 1 /\ i + 1 \in 0 .. MaxPath + 1 /\ i + 1 # 0
    BY RankTypes, PathAssumption
  <2>1. CASE i = 0
    <3>1. back'[l] = Tail(back[l])
      BY <1>1, <1>5 DEF Base, Types, NetType
    <3>2. h[0] = n /\ h[0 + 1] = g[1] /\ 0 + 1 = 1
      BY <1>8, <2>0, <2>1
    <3> QED
      BY <1>1, <1>7, <2>1, <3>1, <3>2
  <2>2. CASE i # 0
    <3>1. back'[<<c, i>>] = back[<<c, i>>]
      BY <1>1, <1>5, <2>0, <2>2 DEF Base, Types, NetType
    <3>2. h[i] = g[i] /\ h[i + 1] = g[i + 1]
      BY <1>8, <2>0, <2>2
    <3> QED
      BY <3>1, <3>2 DEF RankAt
  <2> QED
    BY <2>1, <2>2
<1>12. h[MaxPath + 1] = g[MaxPath + 1]
  BY <1>8, RankTypes
<1>13. \A i \in Hops : HostSpread(host[<<c, i>>], h[MaxPath + 1], Len(delivered[c]))
  BY <1>12 DEF RankAt
<1>14. T!LastShown(c)' <= h[0]
  BY <1>4, <1>8, <1>9
<1>15. RankAt(c, h)'
  BY <1>5, <1>6, <1>10, <1>11, <1>12, <1>13, <1>14 DEF RankAt, Spread, HostSpread, Proper
<1>16. T!Show(c)
  <2>1. n \in (T!LastShown(c) + 1) .. Len(delivered[c])
    BY <1>4, <1>6, <1>7
  <2>2. msg.body = [from |-> c, n |-> n]
    BY <1>4 DEF Body
  <2> QED
    BY <1>5, <2>1, <2>2 DEF T!Show
<1> QED
  BY <1>15, <1>16

\* The exit passes an answer on.
LEMMA RankHost ==
    ASSUME Base, Own, GenuineInv, NEW c \in Clients, NEW i \in 0 .. MaxPath, NEW g \in Ranks,
           RankAt(c, g), HostAnswer(<<c, i>>), bound[<<c, i>>] = <<c, i + 1>>,
           link[<<c, i>>] = "open",
           NEW h \in Ranks,
           h = [x \in 0 .. MaxPath + 1 |-> IF x <= i THEN g[x] ELSE Head(host[<<c, i + 1>>]).n]
    PROVE  RankAt(c, h)'
<1> DEFINE l == <<c, i>>
           k == <<c, i + 1>>
           body == Head(host[k])
           n == body.n
           top == Len(delivered[c])
           M == MaxPath + 1
<1>1. l \in Links /\ i \in Nat /\ i <= MaxPath /\ MaxPath \in Nat
  BY RankTypes, PathAssumption
<1>2. /\ bound[l] = k /\ k \in Keys /\ role[k] = "exit" /\ host[k] # << >>
      /\ i + 1 \in Hops
  <2>1. bound[l] \in Keys
    BY <1>1 DEF HostAnswer, Base, IInv, LinkInv, LinkAt
  <2> QED
    BY <2>1 DEF HostAnswer, Keys
<1>3. host[k] \in Seq(Body) /\ back[l] \in Seq(Answers)
  BY <1>1, <1>2 DEF Base, Types, NetType
<1>4. body \in Body /\ n \in Nat
  <2>1. host[k][1] \in Body /\ Head(host[k]) = host[k][1]
    BY <1>2, <1>3, TailCounts
  <2>2. body \in Body
    BY <2>1
  <2> HIDE DEF body
  <2> QED
    BY <2>2 DEF Body
<1>5. /\ UNCHANGED <<shown, delivered>>
      /\ host' = [host EXCEPT ![k] = Tail(@)]
      /\ back' = [back EXCEPT ![l] = Append(back[l], Answer(k, body))]
  BY <1>2 DEF HostAnswer, Reply, userVars
<1>6. Answer(k, body) \in Answers /\ Answer(k, body).body = body
  BY <1>2, <1>4, AnswerType DEF Answer
<1> HIDE DEF body
<1>7. HostSpread(Tail(host[k]), n, top) /\ g[M] < n /\ n <= top
  <2>1. HostSpread(host[k], g[M], top)
    BY <1>2 DEF RankAt
  <2> QED
    BY <1>2, <1>3, <2>1, HostTail DEF body
<1>8. /\ \A x \in 0 .. M : h[x] = IF x <= i THEN g[x] ELSE n
      /\ \A x \in 0 .. M : g[x] \in Nat /\ g[x] <= g[M]
      /\ \A x, y \in 0 .. M : x <= y => g[x] <= g[y]
  <2>1. \A x \in 0 .. M : x <= M
    BY <1>1
  <2>2. \A x \in 0 .. M : h[x] = IF x <= i THEN g[x] ELSE n
    BY DEF body
  <2> QED
    BY <2>1, <2>2, RankTypes DEF RankAt
<1>9. ASSUME NEW x \in 0 .. M, NEW y \in 0 .. M, x <= y PROVE h[x] <= h[y]
  <2>1. g[x] \in Nat /\ g[y] \in Nat /\ g[x] <= g[y] /\ g[x] < n
    <3>1. g[M] \in Nat
      BY <1>8, RankTypes
    <3> QED
      BY <1>4, <1>7, <1>8, <1>9, <3>1
  <2>2. CASE y <= i
    BY <1>1, <1>8, <1>9, <2>1, <2>2
  <2>3. CASE ~ (y <= i)
    BY <1>4, <1>8, <2>1, <2>3
  <2> QED
    BY <2>2, <2>3
<1>10. h[M] = n /\ h[0] = g[0]
  <2>1. M \in 0 .. M /\ 0 \in 0 .. M /\ ~ (M <= i) /\ 0 <= i
    BY <1>1
  <2> QED
    BY <1>8, <2>1
<1>11. ASSUME NEW x \in 0 .. MaxPath
       PROVE  Spread(<<c, x>>, back'[<<c, x>>], h[x], h[x + 1])
  <2>0. /\ <<c, x>> \in Links /\ x \in 0 .. M /\ x + 1 \in 0 .. M /\ x \in Nat
        /\ Spread(<<c, x>>, back[<<c, x>>], g[x], g[x + 1])
    BY RankTypes DEF RankAt
  <2>1. CASE x < i
    <3>1. back'[<<c, x>>] = back[<<c, x>>]
      BY <1>1, <1>5, <2>0, <2>1 DEF Base, Types, NetType
    <3>2. x <= i /\ x + 1 <= i
      BY <1>1, <2>0, <2>1
    <3>3. h[x] = g[x] /\ h[x + 1] = g[x + 1]
      BY <1>8, <2>0, <3>2
    <3> QED
      BY <2>0, <3>1, <3>3
  <2>2. CASE x = i
    <3>1. back'[l] = Append(back[l], Answer(k, body))
      BY <1>1, <1>5 DEF Base, Types, NetType
    <3>2. h[i] = g[i] /\ h[i + 1] = n
      <4>1. i <= i /\ ~ (i + 1 <= i)
        BY <1>1
      <4> QED
        BY <1>8, <2>0, <2>2, <4>1
    <3>3. g[i] \in Nat /\ g[i + 1] \in Nat /\ g[i] <= g[i + 1] /\ g[i + 1] < n /\ g[i + 1] <= n
      <4>1. g[M] \in Nat /\ g[i + 1] <= g[M] /\ i <= i + 1
        BY <1>8, <2>0, <2>2, RankTypes
      <4> QED
        BY <1>4, <1>7, <1>8, <2>0, <2>2, <4>1
    <3>4. Spread(l, Append(back[l], Answer(k, body)), g[i], n)
      BY <1>3, <1>4, <1>6, <2>0, <2>2, <3>3, SpreadAppend
    <3> QED
      BY <2>2, <3>1, <3>2, <3>4
  <2>3. CASE x > i
    <3>1. back'[<<c, x>>] = back[<<c, x>>]
      BY <1>1, <1>5, <2>0, <2>3 DEF Base, Types, NetType
    <3>2. ASSUME NEW j \in 1 .. Len(back[<<c, x>>]), Proper(<<c, x>>, back[<<c, x>>][j])
          PROVE  FALSE
      <4> DEFINE w == Len(back[<<c, x>>][j].wraps)
      <4>1. Genuine(<<c, x>>, back[<<c, x>>][j])
        BY <2>0, <3>2 DEF GenuineInv
      <4>2. w > 0 /\ x + w \in Hops /\ role[<<c, x + w>>] = "exit"
        BY <4>1 DEF Genuine
      <4>3. w \in Nat
        <5>1. back[<<c, x>>] \in Seq(Answers)
          BY <2>0 DEF Base, Types, NetType
        <5>2. back[<<c, x>>][j] \in Answers
          BY <5>1, ElementOfSeq
        <5> QED
          BY <5>2, LenProperties DEF Answers
      <4> HIDE DEF w
      <4>4. hs[k] # "none" /\ told[k] = NoRelay
        BY <1>2 DEF Base, IInv, HopInv, HandshakeInv, HandshakeAt
      <4>5. i + 1 = x + w
        BY <1>2, <4>2, <4>4, UniqueExit DEF Own
      <4> QED
        BY <1>1, <2>0, <2>3, <4>2, <4>3, <4>5
    <3> QED
      BY <3>1, <3>2 DEF Spread
  <2> QED
    BY <1>1, <2>0, <2>1, <2>2, <2>3
<1>12. ASSUME NEW x \in Hops PROVE HostSpread(host'[<<c, x>>], h[M], top)
  <2>0. <<c, x>> \in Keys
    BY RankTypes
  <2>1. CASE x = i + 1
    <3>1. host'[k] = Tail(host[k])
      BY <1>2, <1>5 DEF Base, Types, NetType
    <3> QED
      BY <1>7, <1>10, <2>1, <3>1
  <2>2. CASE x # i + 1
    <3>1. host'[<<c, x>>] = host[<<c, x>>]
      BY <1>2, <1>5, <2>0, <2>2 DEF Base, Types, NetType
    <3>2. hs[k] # "none" /\ told[k] = NoRelay
      BY <1>2 DEF Base, IInv, HopInv, HandshakeInv, HandshakeAt
    <3>3. role[<<c, x>>] # "exit"
      BY <1>2, <2>2, <3>2, UniqueExit DEF Own
    <3>4. host[<<c, x>>] = << >>
      BY <2>0, <3>3 DEF Own, RoleInv
    <3> QED
      BY <3>1, <3>4, EmptySeq DEF HostSpread
  <2> QED
    BY <2>1, <2>2
<1>13. T!LastShown(c)' = T!LastShown(c)
  BY <1>5 DEF T!LastShown
<1>14. T!LastShown(c) <= h[0] /\ h[M] <= top
  BY <1>7, <1>10 DEF RankAt
<1> QED
  BY <1>5, <1>9, <1>11, <1>12, <1>13, <1>14 DEF RankAt, Spread, HostSpread, Proper

\* A relay passes an answer on.
LEMMA RankBack ==
    ASSUME Base, Own, NEW c \in Clients, NEW i \in 0 .. MaxPath, NEW g \in Ranks,
           RankAt(c, g), Backward(<<c, i>>), bound[<<c, i>>] = <<c, i + 1>>,
           link[<<c, i>>] = "open", Proper(<<c, i + 1>>, Head(back[<<c, i + 1>>])),
           NEW h \in Ranks, h = [g EXCEPT ![i + 1] = Head(back[<<c, i + 1>>]).body.n]
    PROVE  RankAt(c, h)'
<1> DEFINE l == <<c, i>>
           k == <<c, i + 1>>
           msg == Head(back[k])
           n == msg.body.n
           M == MaxPath + 1
<1>1. l \in Links /\ i \in Nat /\ i <= MaxPath /\ MaxPath \in Nat /\ k # l
  BY RankTypes, PathAssumption
<1>2. k \in Keys /\ k \in Links /\ back[k] # << >> /\ i + 1 \in Hops /\ i + 1 \in 0 .. MaxPath
  <2>1. bound[l] \in Keys
    BY <1>1 DEF Backward, Base, IInv, LinkInv, LinkAt
  <2>2. back[bound[l]] # << >>
    BY DEF Backward
  <2>3. i + 1 \in Hops
    BY <2>1 DEF Keys
  <2> QED
    BY <2>1, <2>2, <2>3, RankTypes, ConstantFacts
<1>3. back[k] \in Seq(Answers) /\ back[l] \in Seq(Answers)
  BY <1>1, <1>2 DEF Base, Types, NetType
<1>4. msg \in Answers /\ n \in Nat
  <2>1. back[k][1] \in Answers /\ Head(back[k]) = back[k][1]
    BY <1>2, <1>3, TailCounts
  <2>2. msg \in Answers
    BY <2>1
  <2> HIDE DEF msg
  <2> QED
    BY <2>2 DEF Answers, Body
<1>5. /\ UNCHANGED <<shown, delivered, host>>
      /\ back' = [back EXCEPT ![k] = Tail(@), ![l] = Append(back[l], Wrap(k, msg))]
  BY DEF Backward, Reply, userVars
<1>6. Wrap(k, msg) \in Answers /\ Wrap(k, msg).body.n = n
  BY <1>2, <1>4, WrapType DEF Wrap, Answers
<1>7. /\ back'[k] = Tail(back[k]) /\ back'[l] = Append(back[l], Wrap(k, msg))
      /\ \A m \in Links : m # l /\ m # k => back'[m] = back[m]
  BY <1>1, <1>2, <1>5 DEF Base, Types, NetType
<1> HIDE DEF msg
<1>8. /\ i \in 0 .. M /\ i + 1 \in 0 .. M /\ (i + 1) + 1 \in 0 .. M
      /\ i <= i + 1 /\ i + 1 <= (i + 1) + 1
  BY <1>1, <1>2, RankTypes
<1>9. /\ g[i] \in Nat /\ g[i + 1] \in Nat /\ g[(i + 1) + 1] \in Nat
      /\ g[i] <= g[i + 1] /\ g[i + 1] <= g[(i + 1) + 1]
      /\ Spread(l, back[l], g[i], g[i + 1])
      /\ Spread(k, back[k], g[i + 1], g[(i + 1) + 1])
  BY <1>2, <1>8, RankTypes DEF RankAt
<1>10. /\ Spread(k, Tail(back[k]), n, g[(i + 1) + 1])
       /\ g[i + 1] < n /\ n <= g[(i + 1) + 1]
  BY <1>2, <1>3, <1>9, SpreadTail DEF msg
<1>11. Spread(l, Append(back[l], Wrap(k, msg)), g[i], n)
  <2>1. g[i + 1] <= n /\ n <= n /\ n \in Nat
    BY <1>4, <1>9, <1>10
  <2>2. g[i + 1] < Wrap(k, msg).body.n /\ Wrap(k, msg).body.n <= n
    BY <1>6, <1>10, <2>1
  <2> HIDE DEF l, k
  <2> QED
    BY <1>3, <1>6, <1>9, <2>1, <2>2, SpreadAppend
<1>12. h[i + 1] = n /\ \A x \in 0 .. M : x # i + 1 => h[x] = g[x]
  BY <1>8 DEF Ranks, msg
<1>13. ASSUME NEW x \in 0 .. M, NEW y \in 0 .. M, x <= y PROVE h[x] <= h[y]
  <2>0. g[x] \in Nat /\ g[y] \in Nat /\ g[x] <= g[y] /\ x \in Nat /\ y \in Nat
    BY <1>13, RankTypes DEF RankAt
  <2>1. CASE x # i + 1 /\ y # i + 1
    BY <1>12, <2>0, <2>1
  <2>2. CASE x = i + 1 /\ y = i + 1
    BY <1>4, <1>12, <2>2
  <2>3. CASE x = i + 1 /\ y # i + 1
    <3>1. (i + 1) + 1 <= y
      BY <1>1, <1>13, <2>0, <2>3
    <3>2. g[(i + 1) + 1] <= g[y]
      BY <1>8, <3>1 DEF RankAt
    <3>3. h[x] = n /\ h[y] = g[y]
      BY <1>12, <2>3
    <3> QED
      BY <1>4, <1>9, <1>10, <2>0, <3>2, <3>3
  <2>4. CASE x # i + 1 /\ y = i + 1
    <3>1. h[x] = g[x] /\ h[y] = n /\ g[x] <= g[i + 1]
      BY <1>12, <2>0, <2>4
    <3> QED
      BY <1>4, <1>9, <1>10, <2>0, <3>1
  <2> QED
    BY <2>1, <2>2, <2>3, <2>4
<1>14. ASSUME NEW x \in 0 .. MaxPath
       PROVE  Spread(<<c, x>>, back'[<<c, x>>], h[x], h[x + 1])
  <2>0. /\ <<c, x>> \in Links /\ x \in 0 .. M /\ x + 1 \in 0 .. M /\ x \in Nat
        /\ Spread(<<c, x>>, back[<<c, x>>], g[x], g[x + 1])
    BY RankTypes DEF RankAt
  <2>1. CASE x = i
    <3>1. h[x] = g[i] /\ h[x + 1] = n
      BY <1>8, <1>12, <1>1, <2>1
    <3> QED
      BY <1>7, <1>11, <2>1, <3>1
  <2>2. CASE x = i + 1
    <3>1. h[x] = n /\ h[x + 1] = g[(i + 1) + 1]
      BY <1>8, <1>12, <1>1, <2>2
    <3> QED
      BY <1>7, <1>10, <2>2, <3>1
  <2>3. CASE x # i /\ x # i + 1
    <3>1. h[x] = g[x] /\ h[x + 1] = g[x + 1]
      BY <1>1, <1>12, <2>0, <2>3
    <3>2. back'[<<c, x>>] = back[<<c, x>>]
      BY <1>7, <2>0, <2>3
    <3> QED
      BY <2>0, <3>1, <3>2
  <2> QED
    BY <2>1, <2>2, <2>3
<1>15. h[0] = g[0] /\ h[M] = g[M]
  <2>1. 0 # i + 1 /\ M # i + 1 /\ 0 \in 0 .. M /\ M \in 0 .. M
    BY <1>1, <1>2, RankTypes
  <2> QED
    BY <1>12, <2>1
<1>16. T!LastShown(c)' = T!LastShown(c)
  BY <1>5 DEF T!LastShown
<1>17. T!LastShown(c) <= g[0] /\ g[M] <= Len(delivered[c])
       /\ \A x \in Hops : HostSpread(host[<<c, x>>], g[M], Len(delivered[c]))
  BY DEF RankAt
<1> QED
  BY <1>5, <1>13, <1>14, <1>15, <1>16, <1>17 DEF RankAt, Spread, HostSpread, Proper

LEMMA RankInit == Init => RankInv
<1> SUFFICES ASSUME Init, NEW c \in Clients
             PROVE  \E g \in Ranks : RankAt(c, g)
  BY DEF RankInv
<1> DEFINE g == [i \in 0 .. MaxPath + 1 |-> 0]
<1>1. g \in Ranks /\ \A i \in 0 .. MaxPath + 1 : g[i] = 0
  BY DEF Ranks
<1> HIDE DEF g
<1>2. /\ 0 \in 0 .. MaxPath + 1 /\ MaxPath + 1 \in 0 .. MaxPath + 1
      /\ \A i \in 0 .. MaxPath : /\ i \in 0 .. MaxPath + 1 /\ i + 1 \in 0 .. MaxPath + 1
                                 /\ <<c, i>> \in Links
      /\ \A i \in Hops : <<c, i>> \in Keys
  BY PathAssumption DEF Hops, Links, Keys
<1>3. T!LastShown(c) = 0 /\ Len(delivered[c]) = 0
  BY DEF Init, T!LastShown
<1>4. /\ \A i \in 0 .. MaxPath : back[<<c, i>>] = << >>
      /\ \A i \in Hops : host[<<c, i>>] = << >>
  BY <1>2 DEF Init
<1>5. \A i \in 0 .. MaxPath : Spread(<<c, i>>, back[<<c, i>>], g[i], g[i + 1])
  BY <1>4, EmptySeq DEF Spread
<1>6. \A i \in Hops : HostSpread(host[<<c, i>>], g[MaxPath + 1], Len(delivered[c]))
  BY <1>4, EmptySeq DEF HostSpread
<1>7. T!LastShown(c) <= g[0] /\ g[MaxPath + 1] <= Len(delivered[c])
  BY <1>1, <1>2, <1>3
<1>8. \A i, j \in 0 .. MaxPath + 1 : i <= j => g[i] <= g[j]
  BY <1>1
<1> QED
  BY <1>1, <1>5, <1>6, <1>7, <1>8 DEF RankAt

\* The number of an answer in the client's inbox.
LEMMA InboxNumber ==
    ASSUME Base, NEW l \in Links, back[l] # << >>
    PROVE  Head(back[l]) \in Answers /\ Head(back[l]).body.n \in Nat
<1>1. back[l] \in Seq(Answers)
  BY DEF Base, Types, NetType
<1>2. Head(back[l]) \in Answers
  BY <1>1, TailCounts
<1> QED
  BY <1>2 DEF Answers, Body

LEMMA RankStep ==
    ASSUME Base, Own, TallyInv, GenuineInv, RankInv, [Next]_vars
    PROVE  RankInv'
<1> SUFFICES ASSUME NEW c \in Clients
             PROVE  \E h \in Ranks : RankAt(c, h)'
  BY DEF RankInv, Ranks
<1>1. PICK g \in Ranks : RankAt(c, g)
  BY DEF RankInv
<1>2. CASE ~ Passed(c)
  BY <1>1, <1>2, RankFrame
<1>3. CASE /\ ClientReceive(c) /\ Opens(c, Head(back[Entry(c)]))
           /\ Head(back[Entry(c)]).body.n # 0
  <2> DEFINE n == Head(back[Entry(c)]).body.n
  <2>1. Entry(c) \in Links /\ back[Entry(c)] # << >>
    BY <1>3, RankTypes, <1>1 DEF Entry, ClientReceive
  <2>2. n \in Nat
    BY <2>1, InboxNumber
  <2>3. [g EXCEPT ![0] = n] \in Ranks
    BY <2>2 DEF Ranks
  <2> QED
    BY <1>1, <1>3, <2>3, RankShow
<1>4. ASSUME NEW l \in Links, l[1] = c, bound[l] = Ahead(l), link[l] = "open", HostAnswer(l)
      PROVE  \E h \in Ranks : RankAt(c, h)'
  <2>1. PICK i \in 0 .. MaxPath : l = <<c, i>>
    BY <1>4, ConstantFacts
  <2>2. Ahead(l) = <<c, i + 1>>
    BY <2>1 DEF Ahead
  <2> DEFINE k == <<c, i + 1>>
             n == Head(host[k]).n
             h == [x \in 0 .. MaxPath + 1 |-> IF x <= i THEN g[x] ELSE n]
  <2>3. k \in Keys /\ host[k] # << >>
    BY <1>4, <2>1, <2>2 DEF HostAnswer, Base, IInv, LinkInv, LinkAt
  <2>4. n \in Nat
    <3>1. host[k] \in Seq(Body)
      BY <2>3 DEF Base, Types, NetType
    <3>2. Head(host[k]) \in Body
      BY <2>3, <3>1, TailCounts
    <3> QED
      BY <3>2 DEF Body
  <2>5. h \in Ranks
    <3> HIDE DEF n
    <3> QED
      BY <2>4 DEF Ranks
  <2>6. PICK f \in Ranks : f = h
    BY <2>5
  <2>7. RankAt(c, f)'
    BY <1>1, <1>4, <2>1, <2>2, <2>6, RankHost
  <2> QED
    BY <2>7
<1>5. ASSUME NEW l \in Links, l[1] = c, bound[l] = Ahead(l), link[l] = "open", Backward(l),
             Proper(Ahead(l), Head(back[Ahead(l)]))
      PROVE  \E h \in Ranks : RankAt(c, h)'
  <2>1. PICK i \in 0 .. MaxPath : l = <<c, i>>
    BY <1>5, ConstantFacts
  <2>2. Ahead(l) = <<c, i + 1>>
    BY <2>1 DEF Ahead
  <2> DEFINE k == <<c, i + 1>>
             n == Head(back[k]).body.n
  <2>3. k \in Links /\ back[k] # << >>
    BY <1>5, <2>1, <2>2, ConstantFacts DEF Backward, Base, IInv, LinkInv, LinkAt
  <2>4. n \in Nat
    BY <2>3, InboxNumber
  <2>5. PICK f \in Ranks : f = [g EXCEPT ![i + 1] = n]
    <3> HIDE DEF n
    <3> QED
      BY <2>4 DEF Ranks
  <2>6. RankAt(c, f)'
    BY <1>1, <1>5, <2>1, <2>2, <2>5, RankBack
  <2> QED
    BY <2>6
<1> QED
  BY <1>2, <1>3, <1>4, <1>5 DEF Passed

\* A step of the program is a step of the tunnel, or one that the tunnel does not see.
LEMMA TunnelStep ==
    ASSUME Base, Own, TallyInv, GenuineInv, RankInv, [Next]_vars
    PROVE  [T!Next]_(T!vars)
<1>1. ASSUME NEW c \in Clients, ClientSend(c) PROVE T!Send(c)
  BY <1>1 DEF ClientSend, T!Send
<1>2. ASSUME NEW c \in Clients, ClientReceive(c), Opens(c, Head(back[Entry(c)])),
             Head(back[Entry(c)]).body.n # 0
      PROVE  T!Show(c)
  <2> DEFINE n == Head(back[Entry(c)]).body.n
  <2>1. PICK g \in Ranks : RankAt(c, g)
    BY DEF RankInv
  <2>2. Entry(c) \in Links /\ back[Entry(c)] # << >>
    BY <1>2, ConstantFacts DEF ClientReceive
  <2>3. n \in Nat
    BY <2>2, InboxNumber
  <2>4. [g EXCEPT ![0] = n] \in Ranks
    BY <2>3 DEF Ranks
  <2> QED
    BY <1>2, <2>1, <2>4, RankShow
<1>3. ASSUME NEW l \in Links, Deliver(l) PROVE l[1] \in Clients /\ T!Deliver(l[1])
  BY <1>3, DeliverPromised, ConstantFacts
<1>4. ASSUME NEW c \in Clients, ClientReceive(c),
             ~ (Opens(c, Head(back[Entry(c)])) /\ Head(back[Entry(c)]).body.n # 0)
      PROVE  UNCHANGED T!vars
  BY <1>4 DEF ClientReceive, T!vars
<1>5. ASSUME NEW c \in Clients,
             PathDesign(c) \/ Connect(c) \/ ReceiveId(c) \/ HandshakeBroken(c) \/ ConnectEntry(c)
      PROVE  UNCHANGED T!vars
  BY <1>5 DEF PathDesign, Connect, ReceiveId, HandshakeBroken, ConnectEntry, userVars, T!vars
<1>6. ASSUME NEW k \in Keys, HandshakeStep(k) PROVE UNCHANGED T!vars
  BY <1>6 DEF HandshakeStep, AcceptKey, AcceptRole, userVars, T!vars
<1>7. ASSUME NEW l \in Links,
             BindUnknown(l) \/ Bind(l) \/ BindFails(l) \/ DecryptFails(l) \/ Forward(l)
             \/ ListenerStep(l)
      PROVE  UNCHANGED T!vars
  BY <1>7 DEF BindUnknown, Bind, BindFails, DecryptFails, Forward, ListenerStep, HostAnswer,
              Backward, Report, userVars, T!vars
<1>8. ASSUME NEW r \in Relays, Crash(r) PROVE UNCHANGED T!vars
  BY <1>8 DEF Crash, userVars, T!vars
<1>9. CASE UNCHANGED vars
  BY <1>9 DEF vars, userVars, T!vars
<1>10. ASSUME NEW c \in Clients, PathDesign(c) \/ ClientSend(c) \/ ClientStep(c)
       PROVE  [T!Next]_(T!vars)
  BY <1>1, <1>2, <1>4, <1>5, <1>10 DEF ClientStep, T!Next
<1>11. ASSUME NEW l \in Links, HandlerStep(l) \/ ListenerStep(l)
       PROVE  [T!Next]_(T!vars)
  BY <1>3, <1>7, <1>11 DEF HandlerStep, T!Next
<1> QED
  BY <1>6, <1>8, <1>9, <1>10, <1>11 DEF Next

LEMMA GenuineInit == Init => HostInv /\ GenuineInv
  BY EmptySeq DEF Init, HostInv, GenuineInv

\* A circuit implements the tunnel: its destination gets the client's messages in the
\* order they were typed, none twice and none that was not typed, and the client is shown
\* answers to delivered messages only, in order, whatever collides, crashes or is lost.
THEOREM TunnelKept == Spec => Tunneled
<1> DEFINE Inv == HostInv /\ TallyInv /\ GenuineInv /\ RankInv
<1>1. Init => Inv
  BY GenuineInit, TallyInit, RankInit
<1>2. Base /\ Own /\ Inv /\ [Next]_vars => Inv'
  BY HostStep, TallyStep, GenuineStep, RankStep
<1>3. Init => T!Init
  BY DEF Init, T!Init
<1>4. Base /\ Own /\ Inv /\ [Next]_vars => [T!Next]_(T!vars)
  BY TunnelStep
<1> HIDE DEF Inv
<1> QED
  BY <1>1, <1>2, <1>3, <1>4, Foundation, PTL DEF Spec, Tunneled, T!Spec

-----------------------------------------------------------------------------
(* What works while nothing happened to a circuit. *)

Quiet(c) == path[c] # << >> /\ ~ Disturbed(c)

\* The threads of connection <<c, i>> run once hop i + 1 has something to do for it, and
\* work on its conversation.
WorkAt(c, i) ==
    LET l == <<c, i>>
        k == <<c, i + 1>>
    IN /\ handler[l] # "ended" /\ lstn[l] # "ended"
       /\ handler[l] = "run" => lstn[l] = "run" /\ bound[l] = k
       /\ k \in Keys /\ (link[k] # "none" \/ host[k] # << >>) => handler[l] = "run"
WorkInv == \A c \in Clients : Quiet(c) => \A i \in 0 .. MaxPath : WorkAt(c, i)

\* Nothing listens for a connection that was not made.
RestInv == \A l \in Links : link[l] = "none" => lstn[l] = "none"

\* Each message typed on the circuit is somewhere.
KeptMessage(c, n) == Shown(c, n) \/ Onward(c, n) \/ AtHost(c, n) \/ Homeward(c, n)
KeepInv == \A c \in Clients : Quiet(c) => \A n \in 1 .. sent[c] : KeptMessage(c, n)

\* A client that used its circuit gives it up only when the entry relay is down.
GoneInv == \A c \in Clients : path[c] = << >> /\ sent[c] > 0 =>
    \E i \in Hops : at[<<c, i>>] # NoRelay /\ ~ up[at[<<c, i>>]]

\* A message stays in a queue when one is appended or another one is taken off.
LEMMA StaysQueued ==
    ASSUME NEW S, NEW q \in Seq(S), NEW j \in 1 .. Len(q), NEW e \in S
    PROVE  /\ \E m \in 1 .. Len(Append(q, e)) : Append(q, e)[m] = q[j]
           /\ q[j] = Head(q) \/ \E m \in 1 .. Len(Tail(q)) : Tail(q)[m] = q[j]
           /\ q # << >> /\ Head(q) \in S
<1>1. Len(q) \in Nat /\ j \in Nat /\ j >= 1 /\ j <= Len(q)
  BY LenProperties
<1>2. q # << >>
  BY <1>1, EmptySeq
<1>3. Append(q, e) \in Seq(S) /\ Len(Append(q, e)) = Len(q) + 1 /\ Append(q, e)[j] = q[j]
  BY AppendProperties
<1>4. j \in 1 .. Len(Append(q, e))
  BY <1>1, <1>3
<1>5. Len(Tail(q)) = Len(q) - 1 /\ Head(q) = q[1] /\ q[1] \in S
      /\ \A m \in 1 .. Len(q) - 1 : Tail(q)[m] = q[m + 1]
  BY <1>2, TailCounts
<1>6. CASE j = 1
  BY <1>2, <1>3, <1>4, <1>5, <1>6
<1>7. CASE j # 1
  <2>1. j - 1 \in 1 .. Len(q) - 1 /\ (j - 1) + 1 = j
    BY <1>1, <1>7
  <2>2. Tail(q)[j - 1] = q[j]
    BY <1>5, <2>1
  <2> QED
    BY <1>2, <1>3, <1>4, <1>5, <2>1, <2>2
<1> QED
  BY <1>6, <1>7

LEMMA IsQueued ==
    ASSUME NEW S, NEW q \in Seq(S), NEW e \in S
    PROVE  \E m \in 1 .. Len(Append(q, e)) : Append(q, e)[m] = e
<1>1. Len(q) \in Nat
  BY LenProperties
<1>2. Len(Append(q, e)) = Len(q) + 1 /\ Append(q, e)[Len(q) + 1] = e
  BY AppendProperties
<1>3. Len(q) + 1 \in 1 .. Len(Append(q, e))
  BY <1>1, <1>2
<1> QED
  BY <1>2, <1>3

\* What it listens with.
LstnMoved(l) ==
    \/ lstn'[l] = lstn[l]
    \/ Bind(l) /\ lstn'[l] = "run"
    \/ \E c \in Clients : l = Entry(c) /\ ConnectEntry(c) /\ lstn'[l] = "none"
    \/ Report(l) /\ lstn'[l] = "ended"

LEMMA LstnMoves ==
    ASSUME Base, [Next]_vars, NEW l \in Links
    PROVE  LstnMoved(l)
<1>0. lstn \in [Links -> {"none", "run", "ended"}]
  BY DEF Base, Types, ThreadType
<1>a. ASSUME lstn' = lstn PROVE LstnMoved(l)
  BY <1>a DEF LstnMoved
<1>1. ASSUME NEW c \in Clients,
             \/ PathDesign(c) \/ ClientSend(c) \/ Connect(c) \/ ReceiveId(c)
             \/ HandshakeBroken(c) \/ ClientReceive(c)
      PROVE  lstn' = lstn
  BY <1>1 DEF PathDesign, ClientSend, Connect, ReceiveId, HandshakeBroken, ClientReceive,
              threadVars
<1>2. ASSUME NEW c \in Clients, ConnectEntry(c) PROVE LstnMoved(l)
  BY <1>0, <1>2 DEF ConnectEntry, threadVars, LstnMoved
<1>3. ASSUME NEW k \in Keys, HandshakeStep(k) PROVE lstn' = lstn
  BY <1>3 DEF HandshakeStep, AcceptKey, AcceptRole, threadVars
<1>4. ASSUME NEW m \in Links, Bind(m) PROVE LstnMoved(l)
  BY <1>0, <1>4 DEF Bind, LstnMoved
<1>5. ASSUME NEW m \in Links, Report(m) PROVE LstnMoved(l)
  BY <1>0, <1>5 DEF Report, LstnMoved
<1>6. ASSUME NEW m \in Links,
             \/ BindUnknown(m) \/ BindFails(m) \/ DecryptFails(m) \/ Forward(m) \/ Deliver(m)
             \/ HostAnswer(m) \/ Backward(m)
      PROVE  lstn' = lstn
  BY <1>6 DEF BindUnknown, BindFails, DecryptFails, Forward, Deliver, HostAnswer, Backward,
              threadVars
<1>7. ASSUME NEW r \in Relays, Crash(r) PROVE lstn' = lstn
  BY <1>7 DEF Crash, threadVars
<1>8. CASE UNCHANGED vars
  BY <1>a, <1>8 DEF vars, threadVars
<1> QED
  BY <1>a, <1>1, <1>2, <1>3, <1>4, <1>5, <1>6, <1>7, <1>8
     DEF Next, ClientStep, HandlerStep, ListenerStep

LEMMA RestStep ==
    ASSUME Base, Own, RestInv, [Next]_vars
    PROVE  RestInv'
<1> SUFFICES ASSUME NEW l \in Links, link'[l] = "none" PROVE lstn'[l] = "none"
  BY DEF RestInv
<1>1. link[l] = "none"
  BY LinkMoves DEF LinkMoved
<1>2. lstn[l] = "none" /\ LstnMoved(l)
  BY <1>1, LstnMoves DEF RestInv
<1>3. ~ Bind(l)
  BY <1>1 DEF Bind, FirstMessage
<1>4. ~ Report(l)
  BY <1>2 DEF Report
<1> QED
  BY <1>2, <1>3, <1>4 DEF LstnMoved

\* A connection of the circuit that was made is open, and its relay runs.
LEMMA QuietUp ==
    ASSUME Base, Own, QuietInv, NEW c \in Clients, Quiet(c), NEW i \in 0 .. MaxPath,
           link[<<c, i>>] # "none"
    PROVE  link[<<c, i>>] = "open" /\ up[LinkTo(<<c, i>>)]
<1> DEFINE l == <<c, i>>
<1>1. l \in Links /\ l[1] = c /\ l[2] = i
  BY DEF Links
<1>2. link[l] = "open"
  BY DEF QuietInv, QuietAt, Quiet
<1>3. CASE i = 0
  <2>1. Told(<<c, 1>>)
    BY <1>2, <1>3 DEF Own, StartInv, StartAt, Entry
  <2>2. up[at[<<c, 1>>]]
    BY <2>1, QuietHop, ConstantFacts DEF Told, Quiet
  <2> QED
    BY <1>1, <1>2, <1>3, <2>2 DEF LinkTo
<1>4. CASE i # 0
  <2>1. i \in Hops /\ l \in Keys
    BY <1>4, PathAssumption DEF Hops, Keys
  <2>2. role[l] = "relay" /\ hs[l] # "none"
    BY <1>2, <2>1 DEF Own, RoleInv, Base, IInv, HopInv, HandshakeInv, HandshakeAt
  <2>3. up[nxt[l]]
    BY <2>1, <2>2, QuietHop DEF Quiet
  <2> QED
    BY <1>1, <1>2, <1>4, <2>3 DEF LinkTo
<1> QED
  BY <1>3, <1>4

\* What serves a connection of the circuit is the conversation of the hop ahead, and that
\* conversation serves no other connection.
LEMMA QuietServed ==
    ASSUME Base, Own, NEW c \in Clients, Quiet(c), NEW i \in 0 .. MaxPath, bound[<<c, i>>] \in Keys
    PROVE  bound[<<c, i>>] = <<c, i + 1>> /\ i + 1 \in Hops
<1>1. <<c, i>> \in Links /\ bound[<<c, i>>] # NoKey
  BY NoValueAssumption DEF Links
<1>2. Serves(<<c, i>>, bound[<<c, i>>])
  BY <1>1 DEF Own, ServeInv
<1>3. <<c, i>>[1] = c /\ Ahead(<<c, i>>) = <<c, i + 1>>
  BY DEF Ahead
<1>4. bound[<<c, i>>] = Ahead(<<c, i>>)
  BY <1>1, <1>2, <1>3, QuietServes DEF Quiet
<1> QED
  BY <1>3, <1>4 DEF Keys

LEMMA QuietServer ==
    ASSUME Base, NEW c \in Clients, Quiet(c), NEW i \in 0 .. MaxPath, <<c, i + 1>> \in Keys,
           NEW m \in Links, Serves(m, <<c, i + 1>>)
    PROVE  m = <<c, i>>
<1> DEFINE k == <<c, i + 1>>
<1>1. Ahead(m) \in Keys /\ Told(Ahead(m)) /\ at[k] = at[Ahead(m)] /\ convId[k] = convId[Ahead(m)]
  BY DEF Serves
<1>2. convId[Ahead(m)] # NoId
  BY <1>1, ConstantFacts DEF Base, IInv, HopInv, HandshakeInv, HandshakeAt, Told
<1>3. i + 1 \in Hops
  BY DEF Keys
<1>4. ~ Collided(k)
  BY <1>3 DEF Quiet, Disturbed
<1>5. Ahead(m) = k
  BY <1>1, <1>2, <1>4 DEF Collided
<1>6. m[1] \in Clients /\ m[2] \in 0 .. MaxPath /\ m = <<m[1], m[2]>>
  BY ConstantFacts
<1>7. m[1] = c /\ m[2] + 1 = i + 1
  BY <1>5 DEF Ahead
<1>8. m[2] = i
  BY <1>6, <1>7
<1> QED
  BY <1>6, <1>7, <1>8

LEMMA QuietOpens ==
    ASSUME Base, Own, QuietInv, NEW c \in Clients, Quiet(c), ConnectEntry(c)
    PROVE  link[Entry(c)] = "none" /\ sent[c] = 0
<1>1. 0 \in 0 .. MaxPath
  BY PathAssumption
<1>2. link[Entry(c)] # "closed"
  BY <1>1 DEF QuietInv, QuietAt, Quiet, Entry
<1>3. cpc[c] = "entry"
  BY <1>2 DEF ConnectEntry
<1> QED
  BY <1>3 DEF Own, StartInv, StartAt

\* A relay of the circuit can read what it takes, and can pass it on.
LEMMA QuietTakes ==
    ASSUME Base, Own, QuietInv, NEW c \in Clients, Quiet(c), NEW i \in 0 .. MaxPath,
           WorkAt(c, i), Takes(<<c, i>>)
    PROVE  /\ Readable(<<c, i>>) /\ bound[<<c, i>>] = <<c, i + 1>> /\ i + 1 \in Hops
           /\ role[<<c, i + 1>>] = "relay" =>
                 link[<<c, i + 1>>] = "open" /\ ~ Broken(<<c, i + 1>>)
<1> DEFINE l == <<c, i>>
           k == <<c, i + 1>>
           onion == Head(fwd[l])
<1>1. l \in Links
  BY DEF Links
<1>2. handler[l] = "run" /\ bound[l] = k
  BY DEF WorkAt, Takes
<1>3. k \in Keys /\ (role[k] = "exit" \/ link[k] # "none")
  BY <1>1, <1>2 DEF Own, RunInv
<1>4. i + 1 \in Hops
  BY <1>3 DEF Keys
<1>5. onion \in Onions /\ Len(onion.layers) > 0 /\ OnionAt(l, onion)
  BY <1>1, TakenType DEF Base, IInv
<1> HIDE DEF onion
<1>6. 1 \in 1 .. Len(onion.layers)
  BY <1>5, LenProperties DEF Onions
<1>7. Outer(onion) = onion.layers[1]
  BY <1>5, PeelType
<1>8. onion.layers[1].key = k
  BY <1>5, <1>6 DEF OnionAt
<1>9. Readable(l)
  BY <1>2, <1>7, <1>8 DEF Readable, onion
<1>10. ASSUME role[k] = "relay" PROVE link[k] = "open" /\ ~ Broken(k)
  <2>1. i + 1 \in 0 .. MaxPath /\ link[k] # "none"
    BY <1>3, <1>4, <1>10, PathAssumption DEF Hops
  <2>2. link[k] = "open" /\ up[LinkTo(k)]
    BY <2>1, QuietUp
  <2> QED
    BY <2>2 DEF Broken
<1> QED
  BY <1>2, <1>4, <1>9, <1>10

\* A step in which nothing happens to a circuit.
LEMMA QuietBefore ==
    ASSUME Base, FreshInv, [Next]_vars, NEW c \in Clients, Quiet(c)'
    PROVE  \/ PathDesign(c) /\ path[c] = << >>
           \/ Quiet(c) /\ path'[c] = path[c]
<1>1. path'[c] # << >> /\ ~ Disturbed(c)'
  BY DEF Quiet
<1>2. CASE path'[c] = path[c]
  BY <1>1, <1>2, DisturbedForGood DEF Quiet
<1> QED
  BY <1>1, <1>2, PathMoves

\* Nothing has been sent and nothing runs when the path is drawn.
LEMMA DrawnIdle ==
    ASSUME Base, Own, RestInv, NEW c \in Clients, PathDesign(c)
    PROVE  /\ sent'[c] = 0
           /\ \A i \in 0 .. MaxPath : WorkAt(c, i)'
<1>1. cpc[c] = "idle" /\ UNCHANGED <<link, handler, lstn, bound, host, sent>>
  BY DEF PathDesign, threadVars, netVars, userVars
<1>2. sent'[c] = 0
  BY <1>1 DEF Own, StartInv, StartAt
<1>3. ASSUME NEW k \in Keys, k[1] = c PROVE link[k] = "none" /\ host[k] = << >>
  <2>1. k = <<c, k[2]>> /\ k[2] \in Hops /\ k \in Links
    BY <1>3, ConstantFacts
  <2>2. hs[k] = "none"
    BY <1>1, <2>1 DEF Base, IInv, HopInv, OrderInv, OrderAt
  <2>3. link[k] = "none"
    BY <2>1, <2>2 DEF Base, IInv, LinkInv, LinkAt
  <2>4. role[k] # "exit"
    BY <2>2 DEF Base, IInv, HopInv, HandshakeInv, HandshakeAt
  <2> QED
    BY <2>3, <2>4 DEF Own, RoleInv
<1>4. ASSUME NEW i \in 0 .. MaxPath PROVE WorkAt(c, i)'
  <2> DEFINE l == <<c, i>>
  <2>1. l \in Links
    BY DEF Links
  <2>2. link[l] = "none"
    <3>1. CASE i = 0
      BY <1>1, <3>1 DEF Own, StartInv, StartAt, Entry
    <3>2. CASE i # 0
      <4>1. l \in Keys /\ l[1] = c
        BY <3>2, PathAssumption DEF Hops, Keys
      <4> QED
        BY <1>3, <4>1
    <3> QED
      BY <3>1, <3>2
  <2>3. handler[l] = "none" /\ lstn[l] = "none"
    BY <2>1, <2>2 DEF Own, IdleInv, RestInv
  <2>4. <<c, i + 1>> \in Keys => link[<<c, i + 1>>] = "none" /\ host[<<c, i + 1>>] = << >>
    BY <1>3
  <2> QED
    BY <1>1, <2>3, <2>4 DEF WorkAt
<1> QED
  BY <1>2, <1>4

LEMMA WorkStep ==
    ASSUME Base, Own, FreshInv, QuietInv, RestInv, WorkInv, [Next]_vars
    PROVE  WorkInv'
<1> SUFFICES ASSUME NEW c \in Clients, Quiet(c)', NEW i \in 0 .. MaxPath
             PROVE  WorkAt(c, i)'
  BY DEF WorkInv
<1>1. CASE PathDesign(c)
  BY <1>1, DrawnIdle
<1>2. CASE Quiet(c) /\ path'[c] = path[c]
  <2> DEFINE l == <<c, i>>
             k == <<c, i + 1>>
  <2>1. /\ l \in Links /\ l[1] = c /\ Ahead(l) = k
        /\ ThreadMoved(l) /\ LstnMoved(l)
    <3>1. l \in Links
      BY DEF Links
    <3> QED
      BY <3>1, ThreadMoves, LstnMoves DEF Ahead
  <2>2. WorkAt(c, i)
    BY <1>2 DEF WorkInv
  <2>3. ~ BindFails(l)
    BY <1>2, <2>1, QuietBinds DEF Quiet
  <2>4. ASSUME Takes(l)
        PROVE  Readable(l) /\ bound[l] = k
               /\ (role[k] = "relay" => link[k] = "open" /\ ~ Broken(k))
    BY <1>2, <2>2, <2>4, QuietTakes
  <2>5. handler[l] = "run" => handler'[l] # "ended"
    <3> SUFFICES ASSUME handler[l] = "run", handler'[l] = "ended" PROVE FALSE
      OBVIOUS
    <3>1. PICK m \in Links : DecryptFails(m) \/ (Forward(m) /\ handler' # handler)
      <4>1. ASSUME NEW d \in Clients,
                   PathDesign(d) \/ ClientSend(d) \/ Connect(d) \/ ReceiveId(d)
                   \/ HandshakeBroken(d) \/ ClientReceive(d)
            PROVE  handler' = handler
        BY <4>1 DEF PathDesign, ClientSend, Connect, ReceiveId, HandshakeBroken, ClientReceive,
                    threadVars
      <4>2. ASSUME NEW d \in Clients, ConnectEntry(d)
            PROVE  handler' \in {handler, [handler EXCEPT ![Entry(d)] = "none"]}
        BY <4>2 DEF ConnectEntry, threadVars
      <4>3. ASSUME NEW j \in Keys, HandshakeStep(j) PROVE handler' = handler
        BY <4>3 DEF HandshakeStep, AcceptKey, AcceptRole, threadVars
      <4>4. ASSUME NEW m \in Links, Bind(m) PROVE handler' = [handler EXCEPT ![m] = "run"]
        BY <4>4 DEF Bind
      <4>5. ASSUME NEW m \in Links, BindFails(m)
            PROVE  handler' = [handler EXCEPT ![m] = "ended"] /\ m # l
        BY <2>3, <4>5 DEF BindFails
      <4>6. ASSUME NEW m \in Links, BindUnknown(m) \/ Deliver(m) \/ ListenerStep(m)
            PROVE  handler' = handler
        BY <4>6 DEF BindUnknown, Deliver, ListenerStep, HostAnswer, Backward, Report, threadVars
      <4>7. ASSUME NEW r \in Relays, Crash(r) PROVE handler' = handler
        BY <4>7 DEF Crash, threadVars
      <4>8. UNCHANGED vars => handler' = handler
        BY DEF vars, threadVars
      <4>9. handler \in [Links -> {"none", "run", "ended"}]
        BY DEF Base, Types, ThreadType
      <4> HIDE DEF l
      <4>10. ASSUME NEW d \in Clients, ConnectEntry(d) PROVE FALSE
        BY <2>1, <4>2, <4>9, <4>10
      <4>11. ASSUME NEW m \in Links, Bind(m) \/ BindFails(m) PROVE FALSE
        BY <2>1, <4>4, <4>5, <4>9, <4>11
      <4> QED
        BY <4>1, <4>3, <4>6, <4>7, <4>8, <4>10, <4>11 DEF Next, ClientStep, HandlerStep
    <3>2. handler' = [handler EXCEPT ![m] = "ended"] /\ Takes(m)
      BY <3>1 DEF DecryptFails, Forward
    <3>3. m = l
      BY <2>1, <3>2 DEF Base, Types, ThreadType
    <3>4. Readable(l) /\ bound[l] = k
          /\ (role[k] = "relay" => link[k] = "open" /\ ~ Broken(k))
      BY <2>4, <3>2, <3>3
    <3> QED
      BY <3>1, <3>3, <3>4 DEF DecryptFails, Forward
  <2>6. ASSUME ConnectEntry(c), l = Entry(c) PROVE handler[l] = "none" /\ lstn[l] = "none"
    <3>1. link[l] = "none"
      BY <1>2, <2>6, QuietOpens
    <3> QED
      BY <2>1, <3>1 DEF Own, IdleInv, RestInv
  <2>7. ASSUME NEW d \in Clients, l = Entry(d) PROVE d = c
    BY <2>7 DEF Entry
  <2>8. ASSUME Bind(l) PROVE bound'[l] = k /\ handler'[l] = "run" /\ lstn'[l] = "run"
    <3>1. Addressed(l) = Ahead(l)
      BY <1>2, <2>1, <2>8, AddressedServes, AddressedKey, QuietServes DEF Bind, Quiet
    <3> QED
      BY <2>1, <2>8, <3>1 DEF Bind, Base, Types, ThreadType
  <2>9. ~ Report(l)
    <3> SUFFICES ASSUME Report(l) PROVE FALSE
      OBVIOUS
    <3>1. bound[l] \in Keys
      BY <2>1 DEF Report, Base, IInv, LinkInv, LinkAt
    <3>2. bound[l] = k /\ i + 1 \in Hops
      BY <1>2, <3>1, QuietServed
    <3>3. i + 1 \in 0 .. MaxPath
      BY <3>2, PathAssumption DEF Hops
    <3>4. link[k] # "closed"
      BY <1>2, <3>3 DEF QuietInv, QuietAt, Quiet
    <3> QED
      BY <3>2, <3>4 DEF Report
  <2>10. handler'[l] # "ended" /\ lstn'[l] # "ended"
    <3>1. handler'[l] # "ended"
      BY <2>1, <2>2, <2>3, <2>5 DEF ThreadMoved, WorkAt
    <3>2. lstn'[l] # "ended"
      BY <2>1, <2>2, <2>9 DEF LstnMoved, WorkAt
    <3> QED
      BY <3>1, <3>2
  <2>11. handler'[l] = "run" => lstn'[l] = "run" /\ bound'[l] = k
    <3>1. CASE Bind(l)
      BY <2>8, <3>1
    <3>2. CASE ~ Bind(l)
      <4> SUFFICES ASSUME handler'[l] = "run" PROVE lstn'[l] = "run" /\ bound'[l] = k
        OBVIOUS
      <4>1. bound'[l] = bound[l] /\ handler[l] = "run"
        BY <2>1, <2>3, <3>2 DEF ThreadMoved
      <4>2. lstn[l] = "run" /\ bound[l] = k
        BY <2>2, <4>1 DEF WorkAt
      <4>3. lstn'[l] = lstn[l]
        BY <2>1, <2>6, <2>7, <2>9, <3>2, <4>1 DEF LstnMoved
      <4> QED
        BY <4>1, <4>2, <4>3
    <3> QED
      BY <3>1, <3>2
  <2>12. ASSUME k \in Keys, link'[k] # "none" \/ host'[k] # << >>
         PROVE  handler'[l] = "run"
    <3>0. k \in Links /\ k # Entry(c) /\ \A d \in Clients : k # Entry(d)
      BY <2>12, ConstantFacts DEF Entry
    <3>1. CASE link[k] # "none" \/ host[k] # << >>
      <4>1. handler[l] = "run"
        BY <2>2, <2>12, <3>1 DEF WorkAt
      <4> QED
        BY <2>1, <2>3, <2>5, <2>6, <2>7, <2>8, <4>1 DEF ThreadMoved
    <3>2. CASE link[k] = "none" /\ link'[k] # "none"
      <4>1. PICK m \in Links : Bind(m) /\ Addressed(m) = k
        BY <3>0, <3>2, LinkMoves DEF LinkMoved
      <4>2. Serves(m, k)
        BY <2>12, <4>1, AddressedServes, ConstantFacts DEF Bind
      <4>3. m = l
        BY <1>2, <2>12, <4>2, QuietServer
      <4> QED
        BY <2>8, <4>1, <4>3
    <3>3. CASE host[k] = << >> /\ host'[k] # << >>
      <4>1. PICK m \in Links : Deliver(m) /\ bound[m] = k
        BY <2>12, <3>3, HostMoves DEF HostMoved
      <4>2. Serves(m, k)
        BY <2>12, <4>1, ConstantFacts DEF Own, ServeInv
      <4>3. m = l
        BY <1>2, <2>12, <4>2, QuietServer
      <4> QED
        BY <4>1, <4>3 DEF Deliver, Takes, threadVars
    <3> QED
      BY <2>12, <3>1, <3>2, <3>3
  <2> QED
    BY <2>10, <2>11, <2>12 DEF WorkAt
<1> QED
  BY <1>1, <1>2, QuietBefore

\* A circuit is given up before anything was sent, or because its entry relay is down.
LEMMA PathCleared ==
    ASSUME Base, Own, [Next]_vars, NEW c \in Clients, path[c] # << >>, path'[c] = << >>
    PROVE  \/ sent'[c] = 0
           \/ /\ at[<<c, 1>>] \in Relays /\ ~ up[at[<<c, 1>>]]
              /\ at' = at /\ up' = up
<1>0. path \in [Clients -> Seq(Relays)]
  BY DEF Base, Types, ClientType
<1>1. PICK d \in Clients : \/ PathDesign(d) \/ Connect(d) \/ HandshakeBroken(d)
                           \/ ConnectEntry(d)
  <2>1. ASSUME NEW d \in Clients, ClientSend(d) \/ ReceiveId(d) \/ ClientReceive(d)
        PROVE  path' = path
    BY <2>1 DEF ClientSend, ReceiveId, ClientReceive, clientVars
  <2>2. ASSUME NEW k \in Keys, HandshakeStep(k) PROVE path' = path
    BY <2>2 DEF HandshakeStep, AcceptKey, AcceptRole, clientVars
  <2>3. ASSUME NEW l \in Links, HandlerStep(l) \/ ListenerStep(l) PROVE path' = path
    BY <2>3 DEF HandlerStep, BindUnknown, Bind, BindFails, DecryptFails, Forward, Deliver,
                ListenerStep, HostAnswer, Backward, Report, clientVars
  <2>4. ASSUME NEW r \in Relays, Crash(r) PROVE path' = path
    BY <2>4 DEF Crash, clientVars
  <2>5. UNCHANGED vars => path' = path
    BY DEF vars, clientVars
  <2> QED
    BY <2>1, <2>2, <2>3, <2>4, <2>5 DEF Next, ClientStep
<1>2. d = c
  <2>1. \E p : path' = [path EXCEPT ![d] = p]
    <3>1. ASSUME PathDesign(d) PROVE \E p : path' = [path EXCEPT ![d] = p]
      BY <3>1 DEF PathDesign
    <3>2. ASSUME Connect(d) \/ HandshakeBroken(d) \/ ConnectEntry(d)
          PROVE  path' = [path EXCEPT ![d] = << >>]
      <4>1. path' = path \/ path' = [path EXCEPT ![d] = << >>]
        BY <3>2 DEF Connect, HandshakeBroken, ConnectEntry, StopSession
      <4> QED
        BY <4>1
    <3> QED
      BY <1>1, <3>1, <3>2
  <2> QED
    BY <1>0, <2>1
<1>3. StartAt(c) /\ PathAt(c) /\ ToldAt(c, 1) /\ 1 \in Hops /\ <<c, 1>> \in Keys /\ ConvAt(<<c, 1>>)
  BY ConstantFacts DEF Own, StartInv, Base, MapInv, ConvInv, IInv, HopInv, PathInv, ToldInv
<1>4. CASE PathDesign(c)
  BY <1>3, <1>4 DEF PathDesign, PathAt
<1>5. CASE Connect(c) \/ HandshakeBroken(c)
  BY <1>3, <1>5 DEF Connect, HandshakeBroken, userVars, StartAt
<1>6. CASE ConnectEntry(c)
  <2>1. sent' = sent /\ at' = at /\ up' = up /\ ~ up[path[c][1]]
    BY <1>0, <1>6 DEF ConnectEntry, userVars, hsVars, relayVars
  <2>2. CASE cpc[c] = "entry"
    BY <1>3, <2>1, <2>2 DEF StartAt
  <2>3. CASE cpc[c] # "entry"
    <3>1. Told(<<c, 1>>)
      BY <1>3, <1>6, <2>3 DEF ConnectEntry, StartAt
    <3>2. Len(path[c]) \in Nat /\ Len(path[c]) # 0
      BY <1>0, EmptySeq, LenProperties
    <3>3. 1 <= Len(path[c])
      BY <3>2
    <3>4. at[<<c, 1>>] = path[c][1] /\ at[<<c, 1>>] \in Relays
      BY <1>3, <3>1, <3>3 DEF ToldAt, Told, ConvAt
    <3> QED
      BY <2>1, <3>4
  <2> QED
    BY <2>2, <2>3
<1> QED
  BY <1>1, <1>2, <1>4, <1>5, <1>6

LEMMA GoneStep ==
    ASSUME Base, Own, FreshInv, GoneInv, [Next]_vars
    PROVE  GoneInv'
<1> SUFFICES ASSUME NEW c \in Clients, path'[c] = << >>, sent'[c] > 0
             PROVE  \E i \in Hops : at'[<<c, i>>] # NoRelay /\ ~ up'[at'[<<c, i>>]]
  BY DEF GoneInv
<1>1. CASE path[c] = << >>
  <2>1. cpc[c] \in {"idle", "stopped"}
    BY <1>1 DEF Base, IInv, HopInv, PathInv, PathAt
  <2>2. sent'[c] = sent[c]
    BY <2>1, ClientMoves DEF SentMoved, ClientSend
  <2>3. PICK i \in Hops : at[<<c, i>>] # NoRelay /\ ~ up[at[<<c, i>>]]
    BY <1>1, <2>2 DEF GoneInv
  <2> DEFINE k == <<c, i>>
  <2>4. k \in Keys /\ KeptAt(k)
    BY Kept, ConstantFacts
  <2> HIDE DEF k
  <2>5. hs[k] # "none" /\ at[k] \in Relays
    BY <2>3, <2>4 DEF FreshInv, Base, Types, HsType, k
  <2>6. at'[k] = at[k] /\ ~ up'[at[k]]
    BY <2>3, <2>4, <2>5, DownForGood DEF KeptAt, k
  <2> QED
    BY <2>3, <2>6 DEF k
<1>2. CASE path[c] # << >>
  <2>1. at'[<<c, 1>>] \in Relays /\ ~ up'[at'[<<c, 1>>]]
    BY <1>2, PathCleared
  <2> QED
    BY <2>1, ConstantFacts
<1> QED
  BY <1>1, <1>2

\* Where a message goes.
LEMMA ShownStays ==
    ASSUME Base, QuietInv, [Next]_vars, NEW c \in Clients, NEW n, Shown(c, n)
    PROVE  Shown(c, n)'
<1>1. PICK j \in 1 .. Len(shown[c]) : shown[c][j].n = n
  BY DEF Shown
<1>2. shown[c] \in Seq(Body) /\ shown \in [Clients -> Seq(Body)]
  BY DEF Base, Types, UserType
<1>3. CASE shown'[c] = shown[c]
  BY <1>1, <1>3 DEF Shown
<1>4. CASE shown'[c] # shown[c]
  <2>1. /\ ClientReceive(c) /\ Opens(c, Head(back[Entry(c)]))
        /\ Head(back[Entry(c)]).body.n # 0
    BY <1>4, ShownMoves
  <2>2. Entry(c) \in Links /\ back[Entry(c)] # << >>
    BY <2>1, ConstantFacts DEF ClientReceive
  <2>3. Head(back[Entry(c)]).body \in Body
    BY <2>2, InboxNumber DEF Answers
  <2>4. shown'[c] = Append(shown[c], Head(back[Entry(c)]).body)
    BY <1>2, <2>1 DEF ClientReceive
  <2>5. PICK m \in 1 .. Len(shown'[c]) : shown'[c][m] = shown[c][j]
    BY <1>2, <2>3, <2>4, StaysQueued
  <2> QED
    BY <1>1, <2>5 DEF Shown
<1> QED
  BY <1>3, <1>4

LEMMA OnwardGoes ==
    ASSUME Base, Own, QuietInv, WorkInv, [Next]_vars, NEW c \in Clients, Quiet(c),
           NEW n \in 1 .. sent[c], Onward(c, n)
    PROVE  Onward(c, n)' \/ AtHost(c, n)'
<1>1. PICK i \in 0 .. MaxPath : \E j \in 1 .. Len(fwd[<<c, i>>]) : fwd[<<c, i>>][j].body.n = n
  BY DEF Onward
<1>2. PICK j \in 1 .. Len(fwd[<<c, i>>]) : fwd[<<c, i>>][j].body.n = n
  BY <1>1
<1> DEFINE l == <<c, i>>
           k == <<c, i + 1>>
           onion == Head(fwd[l])
<1>3. l \in Links /\ fwd[l] \in Seq(Onions) /\ FwdMoved(l)
  <2>1. l \in Links
    BY DEF Links
  <2> QED
    BY <2>1, FwdMoves DEF Base, Types, NetType, Onions
<1>4. ASSUME NEW m \in 1 .. Len(fwd'[l]), fwd'[l][m] = fwd[l][j] PROVE Onward(c, n)'
  BY <1>2, <1>4 DEF Onward
<1>5. CASE fwd'[l] = fwd[l]
  BY <1>2, <1>4, <1>5
<1>6. ~ \E d \in Clients : l = Entry(d) /\ ConnectEntry(d)
  <2> SUFFICES ASSUME NEW d \in Clients, l = Entry(d), ConnectEntry(d) PROVE FALSE
    OBVIOUS
  <2>1. sent[c] = 0
    BY QuietOpens DEF Entry
  <2> QED
    BY <2>1
<1>7. ASSUME NEW e \in Onions, fwd'[l] = Append(fwd[l], e) PROVE Onward(c, n)'
  <2>1. \E m \in 1 .. Len(Append(fwd[l], e)) : Append(fwd[l], e)[m] = fwd[l][j]
    BY <1>3, StaysQueued
  <2> QED
    BY <1>4, <1>7, <2>1
<1>8. CASE \E d \in Clients : /\ l = Entry(d) /\ ClientSend(d)
                              /\ fwd'[l] = Append(fwd[l], Onion(d, sent[d] + 1))
  <2>1. PICK d \in Clients : /\ l = Entry(d) /\ ClientSend(d)
                             /\ fwd'[l] = Append(fwd[l], Onion(d, sent[d] + 1))
    BY <1>8
  <2>2. Onion(d, sent[d] + 1) \in Onions
    <3>1. cpc[d] = "ready" /\ sent[d] + 1 \in Nat
      BY <2>1 DEF ClientSend, Base, Types, UserType
    <3> QED
      BY <3>1, OnionType, TypeSplit DEF Base, IInv
  <2> QED
    BY <1>7, <2>1, <2>2
<1>9. CASE \E m \in Links : /\ Forward(m) /\ fwd[m] # << >>
                            /\ fwd'[l] = Append(fwd[l], Peel(Head(fwd[m])))
  <2>1. PICK m \in Links : Forward(m) /\ fwd'[l] = Append(fwd[l], Peel(Head(fwd[m])))
    BY <1>9
  <2>2. Head(fwd[m]) \in Onions /\ Len(Head(fwd[m]).layers) > 0
    BY <2>1, TakenType DEF Forward, Base, IInv
  <2>3. Peel(Head(fwd[m])) \in Onions
    BY <2>2, PeelType
  <2> QED
    BY <1>7, <2>1, <2>3
<1>10. CASE /\ fwd[l] # << >> /\ fwd'[l] = Tail(fwd[l]) /\ Takes(l)
            /\ DecryptFails(l) \/ Forward(l) \/ Deliver(l)
  <2>1. /\ Readable(l) /\ bound[l] = k /\ i + 1 \in Hops
        /\ role[k] = "relay" => link[k] = "open" /\ ~ Broken(k)
    BY <1>10, QuietTakes DEF WorkInv
  <2>2. onion \in Onions /\ Len(onion.layers) > 0 /\ k \in Keys /\ k \in Links
        /\ i + 1 \in 0 .. MaxPath
    BY <1>3, <1>10, <2>1, TakenType, ConstantFacts, PathAssumption DEF Base, IInv, Hops
  <2>3. CASE fwd[l][j] # onion
    <3>1. \E m \in 1 .. Len(Tail(fwd[l])) : Tail(fwd[l])[m] = fwd[l][j]
      BY <1>3, <2>2, <2>3, StaysQueued
    <3> QED
      BY <1>4, <1>10, <3>1
  <2>4. CASE fwd[l][j] = onion /\ Forward(l)
    <3>1. fwd' = [Received(l) EXCEPT ![k] = Append(@, Peel(onion))]
      BY <2>1, <2>4 DEF Forward
    <3>2. Received(l) \in [Links -> Seq(Onions)]
      BY <1>3, <1>10, TakenType DEF Base, IInv
    <3>3. Peel(onion) \in Onions /\ Peel(onion).body = onion.body
      BY <2>2, PeelType
    <3>4. fwd'[k] = Append(Received(l)[k], Peel(onion)) /\ Received(l)[k] \in Seq(Onions)
      BY <2>2, <3>1, <3>2
    <3>a. \A q \in Seq(Onions) : \E m \in 1 .. Len(Append(q, Peel(onion))) :
                                    Append(q, Peel(onion))[m] = Peel(onion)
      BY <3>3, IsQueued
    <3>5. PICK m \in 1 .. Len(fwd'[k]) : fwd'[k][m] = Peel(onion)
      BY <3>4, <3>a
    <3>6. fwd'[k][m].body.n = n
      BY <1>2, <2>4, <3>3, <3>5
    <3> HIDE DEF onion
    <3> QED
      BY <2>2, <3>5, <3>6 DEF Onward
  <2>5. CASE fwd[l][j] = onion /\ Deliver(l)
    <3>1. host' = [host EXCEPT ![k] = Append(@, onion.body)]
      BY <2>1, <2>5 DEF Deliver
    <3> HIDE DEF onion
    <3>2. host \in [Keys -> Seq(Body)] /\ onion.body \in Body
      BY <2>2 DEF Base, Types, NetType, Onions
    <3>3. host'[k] = Append(host[k], onion.body) /\ host[k] \in Seq(Body)
      BY <2>2, <3>1, <3>2
    <3> DEFINE b == onion.body
    <3>b. b \in Body
      BY <3>2
    <3> HIDE DEF b
    <3>a. \A q \in Seq(Body) : \E m \in 1 .. Len(Append(q, b)) :
                                  Append(q, b)[m] = b
      BY <3>b, IsQueued
    <3>4. PICK m \in 1 .. Len(host'[k]) : host'[k][m] = b
      BY <3>3, <3>a DEF b
    <3>5. host'[k][m].n = n
      BY <1>2, <2>5, <3>4 DEF b
    <3> QED
      BY <2>1, <3>4, <3>5 DEF AtHost
  <2>6. ~ DecryptFails(l)
    BY <2>1 DEF DecryptFails
  <2> QED
    BY <1>10, <2>3, <2>4, <2>5, <2>6
<1> QED
  BY <1>3, <1>5, <1>6, <1>8, <1>9, <1>10 DEF FwdMoved

LEMMA HostGoes ==
    ASSUME Base, Own, QuietInv, RestInv, [Next]_vars, NEW c \in Clients, Quiet(c),
           NEW n, AtHost(c, n)
    PROVE  AtHost(c, n)' \/ Homeward(c, n)'
<1>1. PICK h \in Hops : \E j \in 1 .. Len(host[<<c, h>>]) : host[<<c, h>>][j].n = n
  BY DEF AtHost
<1>2. PICK i \in 0 .. MaxPath : h = i + 1
  <2>1. h - 1 \in 0 .. MaxPath /\ h = (h - 1) + 1
    BY PathAssumption DEF Hops
  <2> QED
    BY <2>1
<1> DEFINE l == <<c, i>>
           k == <<c, i + 1>>
           body == Head(host[k])
<1>3. PICK j \in 1 .. Len(host[k]) : host[k][j].n = n
  BY <1>1, <1>2
<1>4. k \in Keys /\ i + 1 \in Hops /\ l \in Links /\ host[k] \in Seq(Body) /\ HostMoved(k)
  <2>1. k \in Keys /\ i + 1 \in Hops /\ l \in Links
    BY <1>2, ConstantFacts DEF Links
  <2> QED
    BY <2>1, HostMoves DEF Base, Types, NetType
<1>5. ASSUME NEW m \in 1 .. Len(host'[k]), host'[k][m] = host[k][j] PROVE AtHost(c, n)'
  BY <1>3, <1>4, <1>5 DEF AtHost
<1>6. CASE host'[k] = host[k]
  BY <1>3, <1>5, <1>6
<1>7. ASSUME NEW m \in Links, Deliver(m), host'[k] = Append(host[k], Head(fwd[m]).body)
      PROVE  AtHost(c, n)'
  <2>1. Head(fwd[m]).body \in Body
    BY <1>7, TakenType DEF Deliver, Base, IInv, Onions
  <2>2. \E x \in 1 .. Len(Append(host[k], Head(fwd[m]).body)) :
            Append(host[k], Head(fwd[m]).body)[x] = host[k][j]
    BY <1>4, <2>1, StaysQueued
  <2> QED
    BY <1>5, <1>7, <2>2
<1>8. ASSUME NEW m \in Links, HostAnswer(m), bound[m] = k, host[k] # << >>,
             host'[k] = Tail(host[k])
      PROVE  AtHost(c, n)' \/ Homeward(c, n)'
  <2>1. Serves(m, k)
    BY <1>4, <1>8, ConstantFacts DEF Own, ServeInv
  <2>2. m = l
    BY <1>4, <2>1, QuietServer
  <2>3. link[l] = "open"
    BY <1>4, <1>8, <2>2, QuietUp DEF HostAnswer, RestInv
  <2>4. body \in Body
    BY <1>4, <1>8, TailCounts
  <2>5. CASE host[k][j] # body
    <3>1. \E x \in 1 .. Len(Tail(host[k])) : Tail(host[k])[x] = host[k][j]
      BY <1>4, <2>4, <2>5, StaysQueued
    <3> QED
      BY <1>5, <1>8, <3>1
  <2>6. CASE host[k][j] = body
    <3>1. back' = [back EXCEPT ![l] = Append(back[l], Answer(k, body))]
      BY <1>8, <2>2, <2>3 DEF HostAnswer, Reply
    <3>2. Answer(k, body) \in Answers /\ Answer(k, body).body = body
      BY <1>4, <2>4, AnswerType DEF Answer
    <3>3. back'[l] = Append(back[l], Answer(k, body)) /\ back[l] \in Seq(Answers)
      BY <1>4, <3>1 DEF Base, Types, NetType
    <3>4. \A q \in Seq(Answers) : \E x \in 1 .. Len(Append(q, Answer(k, body))) :
                                     Append(q, Answer(k, body))[x] = Answer(k, body)
      BY <3>2, IsQueued
    <3>5. PICK x \in 1 .. Len(back'[l]) : back'[l][x] = Answer(k, body)
      BY <3>3, <3>4
    <3>6. back'[l][x].body.n = n
      BY <1>3, <2>6, <3>2, <3>5
    <3> QED
      BY <3>6 DEF Homeward
  <2> QED
    BY <2>5, <2>6
<1> QED
  BY <1>4, <1>6, <1>7, <1>8 DEF HostMoved

\* The client can open what came back on its circuit.
LEMMA QuietOpened ==
    ASSUME Base, QuietInv, NEW c \in Clients, Quiet(c), back[Entry(c)] # << >>
    PROVE  Opens(c, Head(back[Entry(c)]))
<1>1. Entry(c) \in Links /\ 0 \in 0 .. MaxPath
  BY ConstantFacts
<1>2. back[Entry(c)] \in Seq(Answers)
  BY <1>1 DEF Base, Types, NetType
<1>3. 1 \in 1 .. Len(back[Entry(c)]) /\ Head(back[Entry(c)]) = back[Entry(c)][1]
  BY <1>2, TailCounts
<1>4. Head(back[Entry(c)]).wraps = Whole(c, 0)
  BY <1>1, <1>3 DEF QuietInv, QuietAt, Quiet, Entry
<1>5. Len(path[c]) \in Nat
  BY LenProperties DEF Base, Types, ClientType
<1>6. Whole(c, 0) = [m \in 1 .. Len(path[c]) |-> <<c, m>>]
  BY <1>5 DEF Whole
<1> QED
  BY <1>4, <1>6 DEF Opens

LEMMA HomewardGoes ==
    ASSUME Base, Own, QuietInv, RestInv, [Next]_vars, NEW c \in Clients, Quiet(c),
           NEW n \in 1 .. sent[c], Homeward(c, n)
    PROVE  Homeward(c, n)' \/ Shown(c, n)'
<1>1. PICK i \in 0 .. MaxPath : \E j \in 1 .. Len(back[<<c, i>>]) : back[<<c, i>>][j].body.n = n
  BY DEF Homeward
<1>2. PICK j \in 1 .. Len(back[<<c, i>>]) : back[<<c, i>>][j].body.n = n
  BY <1>1
<1> DEFINE l == <<c, i>>
           msg == Head(back[l])
<1>3. l \in Links /\ back[l] \in Seq(Answers) /\ BackMoved(l)
  <2>1. l \in Links
    BY DEF Links
  <2> QED
    BY <2>1, BackMoves DEF Base, Types, NetType
<1>4. ASSUME NEW m \in 1 .. Len(back'[l]), back'[l][m] = back[l][j] PROVE Homeward(c, n)'
  BY <1>2, <1>4 DEF Homeward
<1>5. CASE back'[l] = back[l]
  BY <1>2, <1>4, <1>5
<1>6. ~ \E d \in Clients : l = Entry(d) /\ ConnectEntry(d)
  <2> SUFFICES ASSUME NEW d \in Clients, l = Entry(d), ConnectEntry(d) PROVE FALSE
    OBVIOUS
  <2>1. sent[c] = 0
    BY QuietOpens DEF Entry
  <2> QED
    BY <2>1
<1>7. ASSUME NEW e \in Answers, back'[l] = Append(back[l], e) PROVE Homeward(c, n)'
  <2>1. \E m \in 1 .. Len(Append(back[l], e)) : Append(back[l], e)[m] = back[l][j]
    BY <1>3, StaysQueued
  <2> QED
    BY <1>4, <1>7, <2>1
<1>8. CASE back[l] # << >> /\ back'[l] = Tail(back[l]) /\ back[l][j] # msg
  <2>1. msg \in Answers
    BY <1>3, <1>8, TailCounts
  <2> HIDE DEF msg
  <2>2. \E m \in 1 .. Len(Tail(back[l])) : Tail(back[l])[m] = back[l][j]
    BY <1>3, <1>8, <2>1, StaysQueued DEF msg
  <2> QED
    BY <1>4, <1>8, <2>2
<1>9. ASSUME back[l] # << >>, back[l][j] = msg, NEW d \in Clients, l = Entry(d), ClientReceive(d)
      PROVE  Shown(c, n)'
  <2>1. d = c
    BY <1>9 DEF Entry
  <2>2. Opens(c, msg) /\ l = Entry(c)
    BY <1>9, <2>1, QuietOpened
  <2>3. msg.body.n = n /\ n # 0 /\ msg.body \in Body
    <3>1. msg \in Answers
      BY <1>3, <1>9, TailCounts
    <3> HIDE DEF msg
    <3>2. sent[c] \in Nat
      BY DEF Base, Types, UserType
    <3> QED
      BY <1>2, <1>9, <3>1, <3>2 DEF Answers
  <2>4. shown'[c] = Append(shown[c], msg.body) /\ shown[c] \in Seq(Body)
    BY <1>9, <2>1, <2>2, <2>3 DEF ClientReceive, Base, Types, UserType
  <2>5. \A q \in Seq(Body) : \E x \in 1 .. Len(Append(q, msg.body)) :
                                Append(q, msg.body)[x] = msg.body
    BY <2>3, IsQueued
  <2>6. PICK x \in 1 .. Len(shown'[c]) : shown'[c][x] = msg.body
    BY <2>4, <2>5
  <2> QED
    BY <2>3, <2>6 DEF Shown
<1>10. ASSUME back[l] # << >>, back[l][j] = msg, NEW m \in Links, l = bound[m], l # m, Backward(m)
       PROVE  Homeward(c, n)'
  <2>1. l \in Keys /\ i \in Hops
    <3>1. bound[m] \in Keys
      BY <1>10 DEF Backward, Base, IInv, LinkInv, LinkAt
    <3> QED
      BY <1>10, <3>1 DEF Keys
  <2>2. PICK h \in 0 .. MaxPath : i = h + 1
    <3>1. i - 1 \in 0 .. MaxPath /\ i = (i - 1) + 1
      BY <2>1, PathAssumption DEF Hops
    <3> QED
      BY <3>1
  <2>3. Serves(m, <<c, h + 1>>)
    BY <1>10, <2>1, <2>2, ConstantFacts DEF Own, ServeInv
  <2>4. m = <<c, h>>
    BY <2>1, <2>2, <2>3, QuietServer
  <2>5. link[m] = "open"
    BY <1>10, <2>4, QuietUp DEF Backward, RestInv
  <2>6. msg \in Answers
    BY <1>3, <1>10, TailCounts
  <2> HIDE DEF msg
  <2>7. /\ back' = [back EXCEPT ![l] = Tail(@), ![m] = Append(back[m], Wrap(l, msg))]
        /\ Wrap(l, msg) \in Answers /\ Wrap(l, msg).body = msg.body
    <3>1. Wrap(l, msg) \in Answers
      BY <2>1, <2>6, WrapType
    <3>2. Wrap(l, msg).body = msg.body
      BY <2>6 DEF Wrap, Answers
    <3> QED
      BY <1>10, <2>5, <3>1, <3>2 DEF Backward, Reply, msg
  <2>8. back'[m] = Append(back[m], Wrap(l, msg)) /\ back[m] \in Seq(Answers)
    BY <1>10, <2>7 DEF Base, Types, NetType
  <2>9. \A q \in Seq(Answers) : \E x \in 1 .. Len(Append(q, Wrap(l, msg))) :
                                   Append(q, Wrap(l, msg))[x] = Wrap(l, msg)
    BY <2>7, IsQueued
  <2>10. PICK x \in 1 .. Len(back'[m]) : back'[m][x] = Wrap(l, msg)
    BY <2>8, <2>9
  <2>11. back'[m][x].body.n = n
    BY <1>2, <1>10, <2>7, <2>10
  <2> QED
    BY <2>4, <2>10, <2>11 DEF Homeward
<1> QED
  BY <1>3, <1>5, <1>6, <1>7, <1>8, <1>9, <1>10 DEF BackMoved

LEMMA NewOnward ==
    ASSUME Base, Own, QuietInv, NEW c \in Clients, Quiet(c), ClientSend(c)
    PROVE  \E i \in 0 .. MaxPath : \E j \in 1 .. Len(fwd'[<<c, i>>]) :
               fwd'[<<c, i>>][j].body.n = sent[c] + 1
<1> DEFINE l == Entry(c)
           onion == Onion(c, sent[c] + 1)
<1>1. l = <<c, 0>> /\ 0 \in 0 .. MaxPath /\ l \in Links
  BY ConstantFacts DEF Entry
<1>2. link[l] # "none" /\ cpc[c] = "ready"
  BY DEF Own, StartInv, StartAt, ClientSend
<1>3. link[l] = "open" /\ up[LinkTo(l)]
  BY <1>1, <1>2, QuietUp
<1>4. fwd' = [fwd EXCEPT ![l] = Append(@, onion)]
  BY <1>3 DEF ClientSend, Broken
<1>5. onion \in Onions /\ onion.body.n = sent[c] + 1
  <2>1. sent[c] + 1 \in Nat
    BY DEF Base, Types, UserType
  <2>2. onion \in Onions
    BY <1>2, <2>1, OnionType, TypeSplit DEF Base, IInv
  <2> QED
    BY <2>2 DEF Onion
<1> HIDE DEF onion
<1>6. fwd'[l] = Append(fwd[l], onion) /\ fwd[l] \in Seq(Onions)
  BY <1>1, <1>4 DEF Base, Types, NetType, Onions
<1>7. \A q \in Seq(Onions) : \E m \in 1 .. Len(Append(q, onion)) : Append(q, onion)[m] = onion
  BY <1>5, IsQueued
<1>8. PICK m \in 1 .. Len(fwd'[l]) : fwd'[l][m] = onion
  BY <1>6, <1>7
<1>9. fwd'[<<c, 0>>][m].body.n = sent[c] + 1 /\ m \in 1 .. Len(fwd'[<<c, 0>>])
  BY <1>1, <1>5, <1>8
<1> QED
  BY <1>1, <1>9

LEMMA KeepStep ==
    ASSUME Base, Own, FreshInv, QuietInv, RestInv, WorkInv, KeepInv, [Next]_vars
    PROVE  KeepInv'
<1> SUFFICES ASSUME NEW c \in Clients, Quiet(c)', NEW n \in 1 .. sent'[c]
             PROVE  KeptMessage(c, n)'
  BY DEF KeepInv
<1>1. CASE PathDesign(c)
  <2>1. sent'[c] = 0
    BY <1>1, DrawnIdle
  <2> QED
    BY <2>1
<1>2. CASE Quiet(c) /\ n \in 1 .. sent[c]
  <2>1. KeptMessage(c, n)
    BY <1>2 DEF KeepInv
  <2> QED
    BY <1>2, <2>1, ShownStays, OnwardGoes, HostGoes, HomewardGoes DEF KeptMessage
<1>3. CASE Quiet(c) /\ n \notin 1 .. sent[c]
  <2>1. sent[c] \in Nat /\ (sent'[c] = sent[c] \/ (ClientSend(c) /\ sent'[c] = sent[c] + 1))
    BY ClientMoves DEF SentMoved, Base, Types, UserType
  <2>2. ClientSend(c) /\ n = sent[c] + 1
    BY <1>3, <2>1
  <2>3. \E i \in 0 .. MaxPath : \E j \in 1 .. Len(fwd'[<<c, i>>]) :
            fwd'[<<c, i>>][j].body.n = n
    BY <1>3, <2>2, NewOnward
  <2> QED
    BY <2>3 DEF KeptMessage, Onward
<1> QED
  BY <1>1, <1>2, <1>3, QuietBefore

\* A message that is on its way can go on.
LEMMA OnwardCanGo ==
    ASSUME Base, Own, QuietInv, WorkInv, NEW c \in Clients, Quiet(c), NEW n, Onward(c, n)
    PROVE  CanGoOn(c)
<1>1. PICK i \in 0 .. MaxPath : \E j \in 1 .. Len(fwd[<<c, i>>]) : fwd[<<c, i>>][j].body.n = n
  BY DEF Onward
<1> DEFINE l == <<c, i>>
<1>2. l \in Links /\ fwd[l] \in Seq(Onions) /\ handler[l] \in {"none", "run", "ended"}
  <2>1. l \in Links
    BY DEF Links
  <2> QED
    BY <2>1 DEF Base, Types, NetType, ThreadType, Onions
<1>3. fwd[l] # << >>
  BY <1>1, <1>2, EmptySeq
<1>4. link[l] # "none"
  BY <1>2, <1>3 DEF Own, IdleInv
<1>5. link[l] = "open" /\ up[LinkTo(l)]
  BY <1>4, QuietUp
<1>6. WorkAt(c, i)
  BY DEF WorkInv
<1>7. FirstMessage(l) \/ (Takes(l) /\ Readable(l))
  <2>1. CASE handler[l] = "none"
    BY <1>3, <1>5, <2>1 DEF FirstMessage
  <2>2. CASE handler[l] = "run"
    <3>1. Takes(l)
      BY <1>3, <1>5, <2>2 DEF Takes
    <3> QED
      BY <1>6, <3>1, QuietTakes
  <2> QED
    BY <1>2, <1>6, <2>1, <2>2 DEF WorkAt
<1> QED
  BY <1>7 DEF CanGoOn

\* The listener for hop i + 1 runs when the hop has an answer for it.
LEMMA ListenerRuns ==
    ASSUME Base, Own, QuietInv, RestInv, WorkInv, NEW c \in Clients, Quiet(c),
           NEW i \in 0 .. MaxPath, <<c, i + 1>> \in Keys,
           link[<<c, i + 1>>] # "none" \/ host[<<c, i + 1>>] # << >>
    PROVE  lstn[<<c, i>>] = "run" /\ bound[<<c, i>>] = <<c, i + 1>> /\ up[LinkTo(<<c, i>>)]
<1>1. lstn[<<c, i>>] = "run" /\ bound[<<c, i>>] = <<c, i + 1>>
  BY DEF WorkInv, WorkAt
<1>2. <<c, i>> \in Links
  BY DEF Links
<1>3. link[<<c, i>>] # "none"
  BY <1>1, <1>2 DEF RestInv
<1> QED
  BY <1>1, <1>3, QuietUp

LEMMA HostCanGo ==
    ASSUME Base, Own, QuietInv, RestInv, WorkInv, NEW c \in Clients, Quiet(c),
           NEW n, AtHost(c, n)
    PROVE  CanGoOn(c)
<1>1. PICK h \in Hops : \E j \in 1 .. Len(host[<<c, h>>]) : host[<<c, h>>][j].n = n
  BY DEF AtHost
<1>2. PICK i \in 0 .. MaxPath : h = i + 1
  <2>1. h - 1 \in 0 .. MaxPath /\ h = (h - 1) + 1
    BY PathAssumption DEF Hops
  <2> QED
    BY <2>1
<1> DEFINE k == <<c, i + 1>>
<1>3. k \in Keys /\ host[k] \in Seq(Body)
  BY <1>2, ConstantFacts DEF Base, Types, NetType
<1>4. host[k] # << >>
  BY <1>1, <1>2, <1>3, EmptySeq
<1>5. role[k] = "exit"
  BY <1>3, <1>4 DEF Own, RoleInv
<1>6. lstn[<<c, i>>] = "run" /\ bound[<<c, i>>] = k /\ up[LinkTo(<<c, i>>)]
  BY <1>3, <1>4, ListenerRuns
<1> QED
  BY <1>4, <1>5, <1>6 DEF CanGoOn

LEMMA HomewardCanGo ==
    ASSUME Base, Own, QuietInv, RestInv, WorkInv, WedgedOnlyIfDisturbed, NEW c \in Clients,
           Quiet(c), NEW n, Homeward(c, n)
    PROVE  CanGoOn(c)
<1>1. PICK h \in 0 .. MaxPath : \E j \in 1 .. Len(back[<<c, h>>]) : back[<<c, h>>][j].body.n = n
  BY DEF Homeward
<1>2. <<c, h>> \in Links /\ back[<<c, h>>] \in Seq(Answers)
  <2>1. <<c, h>> \in Links
    BY DEF Links
  <2> QED
    BY <2>1 DEF Base, Types, NetType
<1>3. back[<<c, h>>] # << >>
  BY <1>1, <1>2, EmptySeq
<1>4. link[<<c, h>>] # "none"
  BY <1>2, <1>3 DEF Own, IdleInv
<1>5. link[<<c, h>>] = "open"
  BY <1>4, QuietUp
<1>6. CASE h = 0
  <2>1. cpc[c] \notin {"idle", "connect", "await", "entry"}
    BY <1>4, <1>6 DEF Own, StartInv, StartAt, Entry
  <2>2. cpc[c] # "wedged" /\ cpc[c] # "stopped"
    BY DEF Quiet, WedgedOnlyIfDisturbed, Base, IInv, HopInv, PathInv, PathAt
  <2>3. cpc[c] = "ready"
    BY <2>1, <2>2 DEF Base, Types, ClientType
  <2> QED
    BY <1>3, <1>5, <1>6, <2>3 DEF CanGoOn, Entry
<1>7. CASE h # 0
  <2>1. PICK i \in 0 .. MaxPath : h = i + 1
    <3>1. h - 1 \in 0 .. MaxPath /\ h = (h - 1) + 1
      BY <1>7, PathAssumption
    <3> QED
      BY <3>1
  <2> DEFINE k == <<c, i + 1>>
  <2>2. k \in Keys
    BY <1>7, <2>1, PathAssumption DEF Keys, Hops
  <2>3. role[k] = "relay" /\ link[k] = "open" /\ back[k] # << >>
    BY <1>3, <1>5, <2>1, <2>2 DEF Own, RoleInv
  <2>4. lstn[<<c, i>>] = "run" /\ bound[<<c, i>>] = k /\ up[LinkTo(<<c, i>>)]
    BY <2>2, <2>3, ListenerRuns
  <2> QED
    BY <2>3, <2>4 DEF CanGoOn
<1> QED
  BY <1>6, <1>7

\* As long as the relays of a circuit run, keep its conversations and gave it identifiers
\* of its own, nothing on it is lost, whatever the other circuits do: each message typed
\* is on its way or its answer was shown, and a message on its way is never stuck.
THEOREM UndisturbedWorks == Spec => []UndisturbedCircuitWorks
<1> DEFINE Inv == /\ FreshInv /\ QuietInv /\ WedgedOnlyIfDisturbed
                  /\ RestInv /\ WorkInv /\ KeepInv /\ GoneInv
<1>1. Init => Inv
  <2> SUFFICES ASSUME Init PROVE Inv
    OBVIOUS
  <2>1. FreshInv /\ QuietInv /\ WedgedOnlyIfDisturbed
    BY DEF Init, FreshInv, QuietInv, QuietAt, WedgedOnlyIfDisturbed
  <2>2. RestInv /\ WorkInv /\ KeepInv
    BY DEF Init, RestInv, WorkInv, KeepInv, Quiet
  <2>3. GoneInv
    BY DEF Init, GoneInv
  <2> QED
    BY <2>1, <2>2, <2>3
<1>2. Base /\ Own /\ Inv /\ [Next]_vars => Inv'
  BY FreshStep, QuietStep, WedgedStep, RestStep, WorkStep, KeepStep, GoneStep
<1>3. Base /\ Own /\ Inv => UndisturbedCircuitWorks
  <2> SUFFICES ASSUME Base, Own, Inv, NEW c \in Clients, ~ Disturbed(c), NEW n \in 1 .. sent[c]
               PROVE  Shown(c, n) \/ ((Onward(c, n) \/ AtHost(c, n) \/ Homeward(c, n))
                                        /\ CanGoOn(c))
    BY DEF UndisturbedCircuitWorks
  <2>1. sent[c] > 0
    BY DEF Base, Types, UserType
  <2>2. path[c] # << >>
    BY <2>1 DEF GoneInv, Disturbed
  <2>3. Quiet(c)
    BY <2>2 DEF Quiet
  <2>4. KeptMessage(c, n)
    BY <2>3 DEF KeepInv
  <2> QED
    BY <2>3, <2>4, OnwardCanGo, HostCanGo, HomewardCanGo DEF KeptMessage
<1> HIDE DEF Inv
<1> QED
  BY <1>1, <1>2, <1>3, Foundation, PTL DEF Spec

-----------------------------------------------------------------------------
(* Which reports of an unreachable relay can be read. *)

\* A host is never handed a report; a report on its way back was made by a relay that was
\* told the next one, or by one that then deleted its conversation.
HostNumbers == \A k \in Keys : \A j \in 1 .. Len(host[k]) : host[k][j].n # 0
Reporter(msg) == msg.wraps[Len(msg.wraps)]
ReportAt(msg) == /\ msg.wraps # << >>
                 /\ role[Reporter(msg)] \in {"relay", "freed"}
ReportInv == \A l \in Links : \A j \in 1 .. Len(back[l]) :
                 back[l][j].body.n = 0 => ReportAt(back[l][j])
WarnInv == \A c \in Clients : warned[c] => \E i \in Hops : role[<<c, i>>] = "freed"

LEMMA HostNumbersStep ==
    ASSUME Base, Own, HostNumbers, [Next]_vars
    PROVE  HostNumbers'
<1> SUFFICES ASSUME NEW k \in Keys, NEW j \in 1 .. Len(host'[k])
             PROVE  host'[k][j].n # 0
  BY DEF HostNumbers
<1>1. ASSUME NEW l \in Links, Deliver(l) PROVE Head(fwd[l]).body.n # 0
  <2>1. fwd[l] \in Seq(Onions) /\ fwd[l] # << >>
    BY <1>1 DEF Deliver, Takes, Base, Types, NetType, Onions
  <2>2. 1 \in 1 .. Len(fwd[l]) /\ Head(fwd[l]) = fwd[l][1]
    BY <2>1, EmptySeq
  <2>3. Head(fwd[l]).body.n \in 1 .. sent[l[1]]
    BY <2>2 DEF Own, InfoInv, InfoAt
  <2> QED
    BY <2>3
<1> QED
  BY <1>1, HostsMove DEF HostNumbers

\* The innermost layer stays what it is when a relay adds another one.
LEMMA WrapReporter ==
    ASSUME NEW k \in Keys, NEW msg \in Answers, msg.wraps # << >>
    PROVE  /\ Wrap(k, msg).wraps # << >> /\ Reporter(Wrap(k, msg)) = Reporter(msg)
           /\ Wrap(k, msg).body = msg.body
<1> DEFINE w == msg.wraps
           v == <<k>> \o w
<1>0. /\ w \in Seq(Keys) /\ <<k>> \in Seq(Keys) /\ Len(<<k>>) = 1
      /\ Wrap(k, msg).wraps = v /\ Wrap(k, msg).body = msg.body
  BY DEF Answers, Wrap
<1>1. /\ Len(w) \in Nat /\ Len(w) # 0 /\ Len(v) = 1 + Len(w) /\ v \in Seq(Keys)
      /\ \A m \in 1 .. 1 + Len(w) : v[m] = IF m <= 1 THEN k ELSE w[m - 1]
  BY <1>0, ConcatProperties, LenProperties, EmptySeq
<1> HIDE DEF v, w
<1>2. v[Len(v)] = w[Len(w)] /\ v # << >>
  BY <1>1, EmptySeq
<1> QED
  BY <1>0, <1>2 DEF Reporter, w

LEMMA NewReport ==
    ASSUME Base, Own, HostNumbers, ReportInv, [Next]_vars,
           NEW l \in Links, NEW msg \in Answers, NewAnswer(l, msg), msg.body.n = 0
    PROVE  /\ msg.wraps # << >> /\ Reporter(msg) \in Keys
           /\ role[Reporter(msg)] \in {"relay", "freed"} \/ role'[Reporter(msg)] = "freed"
<1>a. ASSUME NEW k \in Keys, NEW body, msg = Answer(k, body)
      PROVE  msg.wraps # << >> /\ Reporter(msg) = k /\ msg.body = body
  <2>1. msg.wraps = <<k>> /\ Len(<<k>>) = 1 /\ <<k>>[1] = k /\ <<k>> # << >>
    BY <1>a DEF Answer
  <2> QED
    BY <1>a, <2>1 DEF Answer, Reporter
<1>1. CASE BindFails(l) /\ msg = Answer(Addressed(l), Unreachable(Addressed(l)))
  <2>1. Addressed(l) \in Keys
    BY <1>1, AddressedKey DEF BindFails
  <2>2. role'[Addressed(l)] = "freed"
    BY <1>1, <2>1 DEF BindFails, Base, Types, ConvType
  <2> QED
    BY <1>1, <1>a, <2>1, <2>2
<1>2. CASE HostAnswer(l) /\ host[bound[l]] # << >> /\ msg = Answer(bound[l], Head(host[bound[l]]))
  <2>1. bound[l] \in Keys
    BY <1>2 DEF HostAnswer, Base, IInv, LinkInv, LinkAt
  <2>2. 1 \in 1 .. Len(host[bound[l]]) /\ Head(host[bound[l]]) = host[bound[l]][1]
    BY <1>2, <2>1, EmptySeq DEF Base, Types, NetType
  <2>3. msg.body.n # 0
    BY <1>2, <1>a, <2>1, <2>2 DEF HostNumbers
  <2> QED
    BY <2>3
<1>3. CASE Backward(l) /\ back[bound[l]] # << >> /\ msg = Wrap(bound[l], Head(back[bound[l]]))
  <2> DEFINE k == bound[l]
             old == Head(back[k])
  <2>1. k \in Keys /\ k \in Links
    BY <1>3, ConstantFacts DEF Backward, Base, IInv, LinkInv, LinkAt
  <2>2. back[k] \in Seq(Answers)
    BY <2>1 DEF Base, Types, NetType
  <2>3. 1 \in 1 .. Len(back[k]) /\ old = back[k][1] /\ old \in Answers
    BY <1>3, <2>2, EmptySeq, ElementOfSeq
  <2>4. msg.body = old.body
    BY <1>3, <2>3 DEF Wrap, Answers
  <2>5. ReportAt(old)
    BY <2>1, <2>3, <2>4 DEF ReportInv
  <2>6. msg.wraps # << >> /\ Reporter(msg) = Reporter(old)
    BY <1>3, <2>1, <2>3, <2>5, WrapReporter DEF ReportAt
  <2>7. Reporter(old) \in Keys
    <3>1. old.wraps \in Seq(Keys)
      BY <2>3 DEF Answers
    <3> QED
      BY <2>5, <3>1, EmptySeq, LenProperties, ElementOfSeq DEF ReportAt, Reporter
  <2> QED
    BY <2>5, <2>6, <2>7 DEF ReportAt
<1>4. ASSUME NEW m \in Links, Report(m), bound[m] \in Keys,
             msg = Answer(bound[m], Unreachable(bound[m]))
      PROVE  /\ msg.wraps # << >> /\ Reporter(msg) \in Keys
             /\ role[Reporter(msg)] \in {"relay", "freed"}
  BY <1>4, <1>a DEF Report
<1> QED
  BY <1>1, <1>2, <1>3, <1>4 DEF NewAnswer

LEMMA ReportStep ==
    ASSUME Base, Own, HostNumbers, ReportInv, [Next]_vars
    PROVE  ReportInv'
<1> SUFFICES ASSUME NEW l \in Links, NEW j \in 1 .. Len(back'[l]), back'[l][j].body.n = 0
             PROVE  /\ back'[l][j].wraps # << >>
                    /\ role'[Reporter(back'[l][j])] \in {"relay", "freed"}
  BY DEF ReportInv, ReportAt, Reporter
<1> DEFINE msg == back'[l][j]
           k == Reporter(msg)
<1>0. \A i \in Keys : /\ role[i] = "freed" => role'[i] = "freed"
                      /\ role[i] = "relay" => role'[i] \in {"relay", "freed"}
  BY Kept DEF KeptAt
<1>1. CASE \E i \in 1 .. Len(back[l]) : msg = back[l][i]
  <2>1. ReportAt(msg)
    BY <1>1 DEF ReportInv
  <2>2. msg.wraps \in Seq(Keys)
    <3>1. back[l] \in Seq(Answers)
      BY DEF Base, Types, NetType, Answers
    <3>2. PICK i \in 1 .. Len(back[l]) : msg = back[l][i]
      BY <1>1
    <3>3. back[l][i] \in Answers
      BY <3>1, <3>2, ElementOfSeq
    <3> QED
      BY <3>2, <3>3 DEF Answers
  <2>3. k \in Keys
    BY <2>1, <2>2, EmptySeq, LenProperties, ElementOfSeq DEF ReportAt, Reporter
  <2> QED
    BY <1>0, <2>1, <2>3 DEF ReportAt
<1>2. CASE \E new \in Answers : msg = new /\ NewAnswer(l, new)
  <2>1. /\ msg.wraps # << >> /\ k \in Keys
        /\ role[k] \in {"relay", "freed"} \/ role'[k] = "freed"
    BY <1>2, NewReport
  <2> QED
    BY <1>0, <2>1
<1> QED
  BY <1>1, <1>2, AnswersMove

LEMMA WarnStep ==
    ASSUME Base, Own, ReportInv, WarnInv, [Next]_vars
    PROVE  WarnInv'
<1> SUFFICES ASSUME NEW c \in Clients, warned'[c]
             PROVE  \E i \in Hops : role'[<<c, i>>] = "freed"
  BY DEF WarnInv
<1>1. ASSUME NEW i \in Hops, role[<<c, i>>] = "freed"
      PROVE  role'[<<c, i>>] = "freed"
  BY <1>1, Kept, ConstantFacts DEF KeptAt, Keys
<1>2. CASE warned[c]
  BY <1>1, <1>2 DEF WarnInv
<1>3. CASE ~ warned[c]
  <2>1. ClientReceive(c) /\ Opens(c, Head(back[Entry(c)])) /\ Head(back[Entry(c)]).body.n = 0
    <3>1. ASSUME NEW d \in Clients, ClientReceive(d) PROVE d = c
      BY <1>3, <3>1 DEF ClientReceive, Base, Types, UserType
    <3>2. PICK d \in Clients : ClientReceive(d)
      <4>1. ASSUME NEW d \in Clients,
                   \/ PathDesign(d) \/ ClientSend(d) \/ Connect(d) \/ ReceiveId(d)
                   \/ HandshakeBroken(d) \/ ConnectEntry(d)
            PROVE  warned' = warned
        BY <4>1 DEF PathDesign, ClientSend, Connect, ReceiveId, HandshakeBroken,
                    ConnectEntry, userVars
      <4>2. ASSUME NEW k \in Keys, HandshakeStep(k) PROVE warned' = warned
        BY <4>2 DEF HandshakeStep, AcceptKey, AcceptRole, userVars
      <4>3. ASSUME NEW l \in Links, HandlerStep(l) \/ ListenerStep(l) PROVE warned' = warned
        BY <4>3 DEF HandlerStep, BindUnknown, Bind, BindFails, DecryptFails, Forward,
                    Deliver, ListenerStep, HostAnswer, Backward, Report, userVars
      <4>4. CASE (\E r \in Relays : Crash(r)) \/ UNCHANGED vars
        BY <1>3, <4>4 DEF Crash, userVars, vars
      <4> QED
        BY <1>3, <4>1, <4>2, <4>3, <4>4 DEF Next, ClientStep
    <3>3. ClientReceive(c)
      BY <3>1, <3>2
    <3> QED
      BY <1>3, <3>3 DEF ClientReceive, Base, Types, UserType
  <2> DEFINE msg == Head(back[Entry(c)])
             n == Len(path[c])
             k == <<c, n>>
  <2>2. Entry(c) \in Links /\ back[Entry(c)] \in Seq(Answers) /\ back[Entry(c)] # << >>
    BY <2>1, ConstantFacts DEF ClientReceive, Entry, Base, Types, NetType, Answers
  <2>3. 1 \in 1 .. Len(back[Entry(c)]) /\ msg = back[Entry(c)][1]
    BY <2>2, EmptySeq
  <2>4. ReportAt(msg)
    BY <2>1, <2>2, <2>3 DEF ReportInv
  <2>5. /\ cpc[c] = "ready" /\ path[c] # << >> /\ path[c] \in Seq(Relays)
        /\ n <= MaxPath /\ hop[c] = n
    BY <2>1 DEF ClientReceive, Base, Types, ClientType, IInv, HopInv, PathInv, PathAt,
                OrderInv, OrderAt, Hops
  <2>6. n \in Hops /\ n \in Nat
    BY <2>5, EmptySeq, LenProperties, PathAssumption DEF Hops
  <2>7. Reporter(msg) = k
    <3>1. msg.wraps = [i \in 1 .. n |-> <<c, i>>]
      BY <2>1 DEF Opens
    <3>2. Len(msg.wraps) = n
      BY <2>6, <3>1
    <3> QED
      BY <2>6, <3>1, <3>2 DEF Reporter, Hops
  <2>8. k \in Keys /\ hs[k] \in {"role", "done"}
    BY <2>5, <2>6, ConstantFacts DEF Base, IInv, HopInv, OrderInv, OrderAt, Keys
  <2>9. told[k] = NoRelay
    BY <2>6, <2>8 DEF Base, IInv, HopInv, ToldInv, ToldAt, NextHop
  <2>10. role[k] # "relay"
    BY <2>8, <2>9 DEF Base, IInv, HopInv, HandshakeInv, HandshakeAt
  <2>11. role[k] = "freed"
    BY <2>4, <2>7, <2>10 DEF ReportAt
  <2> QED
    BY <1>1, <2>6, <2>11
<1> QED
  BY <1>2, <1>3

\* The user is told of an unreachable relay only if a conversation of the circuit was
\* deleted: what a relay reports of the next one of the path is never readable.
THEOREM ReportsUnread ==
    Spec => [](\A c \in Clients : warned[c] => \E i \in Hops : role[<<c, i>>] = "freed")
<1> DEFINE Inv == HostNumbers /\ ReportInv /\ WarnInv
<1>1. Init => Inv
  BY EmptySeq DEF Init, HostNumbers, ReportInv, WarnInv
<1>2. Base /\ Own /\ Inv /\ [Next]_vars => Inv'
  BY HostNumbersStep, ReportStep, WarnStep
<1>3. Inv => \A c \in Clients : warned[c] => \E i \in Hops : role[<<c, i>>] = "freed"
  BY DEF WarnInv
<1> HIDE DEF Inv
<1> QED
  BY <1>1, <1>2, <1>3, Foundation, PTL DEF Spec

-----------------------------------------------------------------------------
(* What the abstract tunnel promises, and so a circuit. *)

\* What one client's user and his host have seen of each other.
SeenAt(c) ==
    /\ Len(delivered[c]) <= sent[c]
    /\ \A i \in 1 .. Len(delivered[c]) : delivered[c][i] = i
    /\ \A i \in 1 .. Len(shown[c]) :
           shown[c][i].from = c /\ shown[c][i].n \in 1 .. Len(delivered[c])
    /\ \A i, j \in 1 .. Len(shown[c]) : i < j => shown[c][i].n < shown[c][j].n
SeenInv == \A c \in Clients : SeenAt(c)

LEMMA SeenStep ==
    ASSUME UserType, UserType', SeenInv, [T!Next]_(T!vars)
    PROVE  SeenInv'
<1> USE DEF UserType
<1> SUFFICES ASSUME NEW c \in Clients PROVE SeenAt(c)'
  BY DEF SeenInv
<1>0. SeenAt(c) /\ delivered[c] \in Seq(Nat) /\ shown[c] \in Seq(Body) /\ sent[c] \in Nat
  BY DEF SeenInv
<1>1. CASE UNCHANGED <<sent[c], delivered[c], shown[c]>>
  BY <1>0, <1>1 DEF SeenAt
<1>2. CASE T!Send(c)
  <2>1. sent'[c] = sent[c] + 1 /\ delivered' = delivered /\ shown' = shown
    BY <1>2 DEF T!Send
  <2>2. Len(delivered[c]) \in Nat
    BY <1>0, LenProperties
  <2> QED
    BY <1>0, <2>1, <2>2 DEF SeenAt
<1>3. CASE T!Deliver(c)
  <2> DEFINE m == Len(delivered[c])
  <2>1. /\ m < sent[c] /\ delivered'[c] = Append(delivered[c], m + 1)
        /\ sent' = sent /\ shown' = shown
    BY <1>3 DEF T!Deliver
  <2>2. m \in Nat
    BY <1>0, LenProperties
  <2>3. /\ Len(delivered'[c]) = m + 1
        /\ \A i \in 1 .. m : delivered'[c][i] = delivered[c][i]
        /\ delivered'[c][m + 1] = m + 1
    BY <1>0, <2>1, <2>2, AppendProperties
  <2>4. \A i \in 1 .. Len(delivered'[c]) : delivered'[c][i] = i
    <3>1. \A i \in 1 .. m : delivered[c][i] = i
      BY <1>0 DEF SeenAt
    <3> HIDE DEF m
    <3>2. \A i \in 1 .. m + 1 : i \in 1 .. m \/ i = m + 1
      BY <2>2
    <3> QED
      BY <2>3, <3>1, <3>2
  <2>5. \A i \in 1 .. Len(shown[c]) : shown[c][i].from = c /\ shown[c][i].n \in 1 .. m + 1
    BY <1>0, <2>2 DEF SeenAt
  <2>6. \A i, j \in 1 .. Len(shown[c]) : i < j => shown[c][i].n < shown[c][j].n
    BY <1>0 DEF SeenAt
  <2> HIDE DEF m
  <2> QED
    BY <1>0, <2>1, <2>2, <2>3, <2>4, <2>5, <2>6 DEF SeenAt
<1>4. CASE T!Show(c)
  <2> DEFINE a == shown[c]
             m == Len(delivered[c])
  <2>1. PICK n \in (T!LastShown(c) + 1) .. m :
           /\ shown' = [shown EXCEPT ![c] = Append(@, [from |-> c, n |-> n])]
           /\ UNCHANGED <<sent, delivered>>
    BY <1>4 DEF T!Show
  <2> DEFINE e == [from |-> c, n |-> n]
  <2>2. m \in Nat /\ Len(a) \in Nat
    BY <1>0, LenProperties
  <2>3. \A i \in 1 .. Len(a) : a[i].n \in Nat /\ a[i].n <= T!LastShown(c)
    <3>1. ASSUME NEW i \in 1 .. Len(a) PROVE a[i].n \in Nat /\ a[i].n <= T!LastShown(c)
      <4>1. a # << >> /\ Len(a) \in 1 .. Len(a)
        BY <1>0, <2>2, EmptySeq
      <4>2. T!LastShown(c) = a[Len(a)].n
        BY <4>1 DEF T!LastShown
      <4>3. a[i].n \in Nat /\ a[Len(a)].n \in Nat
        BY <1>0, <2>2, <4>1 DEF SeenAt
      <4>4. i < Len(a) \/ i = Len(a)
        BY <2>2
      <4>5. i < Len(a) => a[i].n < a[Len(a)].n
        BY <1>0, <4>1 DEF SeenAt
      <4> HIDE DEF a
      <4> QED
        BY <4>2, <4>3, <4>4, <4>5
    <3> QED
      BY <3>1
  <2>4. T!LastShown(c) \in Nat
    <3>1. CASE a = << >>
      BY <3>1 DEF T!LastShown
    <3>2. CASE a # << >>
      <4>1. Len(a) \in 1 .. Len(a)
        BY <1>0, <2>2, <3>2, EmptySeq
      <4>2. T!LastShown(c) = a[Len(a)].n
        BY <3>2 DEF T!LastShown
      <4> HIDE DEF a
      <4> QED
        BY <2>3, <4>1, <4>2
    <3> QED
      BY <3>1, <3>2
  <2>5. n \in 1 .. m /\ n \in Nat /\ e \in Body /\ e.from = c /\ e.n = n
    BY <2>2, <2>4 DEF Body
  <2>6. shown'[c] = Append(a, e)
    BY <2>1
  <2> HIDE DEF e
  <2>7. /\ Len(shown'[c]) = Len(a) + 1
        /\ \A i \in 1 .. Len(a) : shown'[c][i] = a[i]
        /\ shown'[c][Len(a) + 1] = e
    BY <1>0, <2>5, <2>6, AppendProperties
  <2>8. \A i \in 1 .. Len(a) : a[i].n < n
    BY <2>3, <2>4, <2>5
  <2>9. ASSUME NEW i \in 1 .. Len(shown'[c])
        PROVE  shown'[c][i].from = c /\ shown'[c][i].n \in 1 .. m
    <3>1. i \in 1 .. Len(a) \/ i = Len(a) + 1
      BY <2>2, <2>7
    <3>2. i \in 1 .. Len(a) => a[i].from = c /\ a[i].n \in 1 .. m
      BY <1>0 DEF SeenAt
    <3> HIDE DEF a, m
    <3> QED
      BY <2>5, <2>7, <3>1, <3>2
  <2>10. ASSUME NEW i \in 1 .. Len(shown'[c]), NEW j \in 1 .. Len(shown'[c]), i < j
         PROVE  shown'[c][i].n < shown'[c][j].n
    <3>1. i \in 1 .. Len(a) /\ (j \in 1 .. Len(a) \/ j = Len(a) + 1)
      <4>1. Len(a) \in Nat /\ i \in 1 .. Len(a) + 1 /\ j \in 1 .. Len(a) + 1 /\ i < j
        BY <2>2, <2>7, <2>10
      <4>2. \A b \in Nat : \A x, y \in 1 .. b + 1 :
              x < y => x \in 1 .. b /\ (y \in 1 .. b \/ y = b + 1)
        OBVIOUS
      <4> HIDE DEF a
      <4> QED
        BY <4>1, <4>2
    <3>2. j \in 1 .. Len(a) => a[i].n < a[j].n
      BY <1>0, <2>10, <3>1 DEF SeenAt
    <3> HIDE DEF a
    <3> QED
      BY <2>5, <2>7, <2>8, <3>1, <3>2
  <2> QED
    BY <1>0, <2>1, <2>9, <2>10 DEF SeenAt
<1>5. ASSUME NEW d \in Clients, d # c, T!Send(d) \/ T!Deliver(d) \/ T!Show(d)
      PROVE  UNCHANGED <<sent[c], delivered[c], shown[c]>>
  BY <1>5 DEF T!Send, T!Deliver, T!Show
<1>6. CASE UNCHANGED T!vars
  BY <1>1, <1>6 DEF T!vars
<1> QED
  BY <1>1, <1>2, <1>3, <1>4, <1>5, <1>6 DEF T!Next

\* The host gets a client's messages in the order they were typed, none twice and none
\* invented, and the user sees answers to messages that were delivered, his own, in their
\* order and none twice, whatever relays stop and however identifiers collide.
THEOREM SeenInOrder == Spec => []SeenInv
<1>1. Init => SeenInv
  BY EmptySeq DEF Init, SeenInv, SeenAt
<1>2. Base => UserType
  BY DEF Base, Types
<1>3. UserType /\ UserType' /\ SeenInv /\ [T!Next]_(T!vars) => SeenInv'
  BY SeenStep
<1> QED
  BY <1>1, <1>2, <1>3, Foundation, TunnelKept, PTL DEF Spec, Tunneled, T!Spec
=============================================================================
