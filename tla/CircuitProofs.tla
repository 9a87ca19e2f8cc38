---------------------------- MODULE CircuitProofs ---------------------------
(***************************************************************************)
(* Proofs about Circuit, for any number of clients, relays and identifiers  *)
(* and any path lengths: the types, the agreement of the two ends of every  *)
(* handshake, and the onions on every connection.                           *)
(***************************************************************************)
EXTENDS Circuit, SequenceTheorems, TLAPS

-----------------------------------------------------------------------------
(* The inductive invariant. *)

\* The path, and the hop the client is at.
PathAt(c) ==
    /\ path[c] = << >> => cpc[c] \in {"idle", "stopped"}
    /\ path[c] # << >> => /\ cpc[c] \notin {"idle", "stopped"}
                          /\ hop[c] <= Len(path[c])
                          /\ Len(path[c]) <= MaxPath
    /\ cpc[c] = "idle" => hop[c] = 1
PathInv == \A c \in Clients : PathAt(c)

\* Handshakes are made one hop after the other.
OrderAt(c, i) ==
    LET state == hs[<<c, i>>]
    IN /\ cpc[c] = "idle" => state = "none"
       /\ cpc[c] = "connect" /\ i >= hop[c] => state = "none"
       /\ path[c] # << >> /\ i > hop[c] => state = "none"
       /\ path[c] # << >> /\ i < hop[c] => state \in {"role", "done"}
       /\ cpc[c] \in {"entry", "ready"} => /\ hop[c] = Len(path[c])
                                           /\ i = hop[c] => state \in {"role", "done"}
OrderInv == \A c \in Clients : \A i \in Hops : OrderAt(c, i)

\* What each side of the handshake with hop k has stored when.
HandshakeAt(k) ==
    /\ hs[k] \in {"id", "role", "done"} => convId[k] \in Ids
    /\ hopId[k] = IF hs[k] \in {"role", "done"} THEN convId[k] ELSE NoId
    /\ role[k] \in {"relay", "exit"} => hs[k] = "done" /\ nxt[k] = told[k]
    /\ role[k] = "relay" => told[k] # NoRelay
    /\ role[k] = "exit"  => told[k] = NoRelay
HandshakeInv == \A k \in Keys : HandshakeAt(k)

\* A handshake was made with the relay of the path, which was told the next one.
ToldAt(c, i) ==
    i <= Len(path[c]) =>
        /\ hs[<<c, i>>] # "none" => at[<<c, i>>] = path[c][i]
        /\ hs[<<c, i>>] \in {"role", "done"} => told[<<c, i>>] = NextHop(c, i)
ToldInv == \A c \in Clients : \A i \in Hops : ToldAt(c, i)

\* A connection leads to a relay, and a thread works on a conversation.
LinkAt(l) ==
    /\ link[l] # "none" => LinkTo(l) \in Relays
    /\ link[l] # "none" /\ l \in Keys => hs[l] = "done"
    /\ handler[l] = "run" \/ lstn[l] = "run" => bound[l] \in Keys
LinkInv == \A l \in Links : LinkAt(l)

\* An onion on connection l has one layer for each hop behind l, up to the one
\* that was told it is the exit.
OnionAt(l, onion) ==
    /\ onion.body.from = l[1]
    /\ Len(onion.layers) > 0
    /\ \A m \in 1 .. Len(onion.layers) :
         LET k == <<l[1], l[2] + m>>
         IN /\ onion.layers[m].key = k
            /\ hs[k] \in {"role", "done"}
            /\ told[k] = NoRelay <=> m = Len(onion.layers)
OnionInv == \A l \in Links : \A j \in 1 .. Len(fwd[l]) : OnionAt(l, fwd[l][j])

HopInv == PathInv /\ OrderInv /\ HandshakeInv /\ ToldInv
IInv == HopInv /\ LinkInv /\ OnionInv

Onions  == [layers : Seq(Layer), body : Body]
Answers == [wraps : Seq(Keys), body : Body]

-----------------------------------------------------------------------------
(* Constants, sequences and functions. *)

LEMMA ConstantFacts ==
    /\ MinPath \in Nat /\ MaxPath \in Nat /\ MaxPath >= 1 /\ MinPath >= 1
    /\ 1 \in Hops /\ Hops \subseteq Nat
    /\ Keys \subseteq Links
    /\ \A c \in Clients : /\ Entry(c) \in Links
                          /\ \A i \in Hops : <<c, i>> \in Keys
    /\ \A k \in Keys : k[1] \in Clients /\ k[2] \in Hops /\ k = <<k[1], k[2]>>
    /\ \A l \in Links : l[1] \in Clients /\ l[2] \in 0 .. MaxPath /\ l = <<l[1], l[2]>>
    /\ NoRelay \notin Relays /\ NoId \notin Ids /\ NoKey \notin Keys /\ NoLink \notin Links
  BY PathAssumption, NoValueAssumption DEF Hops, Keys, Links, Entry

\* The layers of an onion, one for each hop.
LEMMA OnionType ==
    ASSUME TypeOK, HopInv, NEW c \in Clients, cpc[c] = "ready", NEW n \in Nat
    PROVE  /\ Onion(c, n) \in Onions
           /\ Len(Onion(c, n).layers) = Len(path[c])
           /\ Len(path[c]) \in 1 .. MaxPath
           /\ \A i \in 1 .. Len(path[c]) : Onion(c, n).layers[i].key = <<c, i>>
<1> DEFINE Lay(i) == [id |-> hopId[<<c, i>>], key |-> <<c, i>>]
           p == path[c]
<1>1. p \in Seq(Relays) /\ Len(p) \in 1 .. MaxPath
  <2>1. p \in Seq(Relays)
    BY DEF TypeOK
  <2>2. p # << >> /\ Len(p) <= MaxPath
    BY DEF HopInv, PathInv, PathAt
  <2> QED
    BY <2>1, <2>2, EmptySeq, ConstantFacts
<1>2. ASSUME NEW i \in 1 .. Len(p)
      PROVE  Lay(i) \in Layer
  <2>1. i \in Hops /\ <<c, i>> \in Keys
    BY <1>1, ConstantFacts DEF Hops
  <2>2. hs[<<c, i>>] \in {"role", "done"}
    BY <1>1, <2>1 DEF HopInv, PathInv, PathAt, OrderInv, OrderAt, Hops
  <2> QED
    BY <2>1, <2>2 DEF HopInv, HandshakeInv, HandshakeAt, Layer
<1>3. Onion(c, n).layers = [i \in 1 .. Len(p) |-> Lay(i)]
  BY DEF Onion
<1>4. Onion(c, n).layers \in Seq(Layer) /\ Len(Onion(c, n).layers) = Len(p)
  BY <1>1, <1>2, <1>3
<1> QED
  BY <1>1, <1>3, <1>4 DEF Onion, Onions, Body

\* The layer a relay peels off, and what is left.
LEMMA PeelType ==
    ASSUME NEW onion \in Onions, Len(onion.layers) > 0
    PROVE  /\ Outer(onion) \in Layer
           /\ Outer(onion) = onion.layers[1]
           /\ Peel(onion) \in Onions
           /\ Peel(onion).body = onion.body
           /\ Len(Peel(onion).layers) = Len(onion.layers) - 1
           /\ \A m \in 1 .. Len(onion.layers) - 1 :
                 Peel(onion).layers[m] = onion.layers[m + 1]
<1>1. onion.layers \in Seq(Layer) /\ onion.layers # << >>
  BY EmptySeq DEF Onions
<1>2. /\ Head(onion.layers) \in Layer
      /\ Head(onion.layers) = onion.layers[1]
      /\ Tail(onion.layers) \in Seq(Layer)
      /\ Len(Tail(onion.layers)) = Len(onion.layers) - 1
      /\ \A m \in 1 .. Len(Tail(onion.layers)) : Tail(onion.layers)[m] = onion.layers[m + 1]
  BY <1>1, HeadTailProperties
<1>3. Peel(onion).layers = Tail(onion.layers) /\ Peel(onion).body = onion.body
      /\ Peel(onion) \in Onions
  BY <1>1, <1>2 DEF Peel, Onions
<1> QED
  BY <1>2, <1>3 DEF Outer

\* A message wrapped on the way back.
LEMMA WrapType ==
    ASSUME NEW msg \in Answers, NEW k \in Keys
    PROVE  Wrap(k, msg) \in Answers
<1>1. <<k>> \in Seq(Keys) /\ <<k>> \o msg.wraps \in Seq(Keys)
  BY ConcatProperties DEF Answers
<1> QED
  BY <1>1 DEF Wrap, Answers

LEMMA AnswerType ==
    ASSUME NEW k \in Keys, NEW body \in Body
    PROVE  Answer(k, body) \in Answers /\ Unreachable(k) \in Body
<1>1. <<k>> \in Seq(Keys)
  OBVIOUS
<1> QED
  BY <1>1, ConstantFacts DEF Answer, Answers, Unreachable, Body

-----------------------------------------------------------------------------
(* Types. *)

ClientType ==
    /\ cpc \in [Clients -> {"idle", "connect", "await", "entry", "ready", "stopped", "wedged"}]
    /\ path \in [Clients -> Seq(Relays)]
    /\ hop \in [Clients -> Hops]
    /\ hopId \in [Keys -> Ids \cup {NoId}]
RelayType == up \in [Relays -> BOOLEAN] /\ crashes \in Nat
HsType ==
    /\ at \in [Keys -> Relays \cup {NoRelay}]
    /\ hs \in [Keys -> {"none", "key", "id", "role", "done"}]
    /\ told \in [Keys -> Relays \cup {NoRelay}]
ConvType ==
    /\ convId \in [Keys -> Ids \cup {NoId}]
    /\ role \in [Keys -> {"unset", "relay", "exit", "freed"}]
    /\ nxt \in [Keys -> Relays \cup {NoRelay}]
    /\ prv \in [Keys -> Links \cup {NoLink}]
    /\ convMap \in [Relays -> [Ids -> Keys \cup {NoKey}]]
ThreadType ==
    /\ bound \in [Links -> Keys \cup {NoKey}]
    /\ handler \in [Links -> {"none", "run", "ended"}]
    /\ lstn \in [Links -> {"none", "run", "ended"}]
NetType ==
    /\ link \in [Links -> {"none", "open", "broken", "closed"}]
    /\ fwd \in [Links -> Seq(Onions)]
    /\ back \in [Links -> Seq(Answers)]
    /\ host \in [Keys -> Seq(Body)]
UserType ==
    /\ sent \in [Clients -> Nat]
    /\ delivered \in [Clients -> Seq(Nat)]
    /\ shown \in [Clients -> Seq(Body)]
    /\ warned \in [Clients -> BOOLEAN]
Types == ClientType /\ RelayType /\ HsType /\ ConvType /\ ThreadType /\ NetType /\ UserType

LEMMA TypeSplit == TypeOK <=> Types
  BY DEF TypeOK, Types, ClientType, RelayType, HsType, ConvType, ThreadType, NetType, UserType,
         Onions, Answers

\* What a step leaves alone keeps its type.
LEMMA TypeFrame ==
    /\ ClientType /\ UNCHANGED clientVars => ClientType'
    /\ RelayType /\ UNCHANGED relayVars => RelayType'
    /\ HsType /\ UNCHANGED hsVars => HsType'
    /\ ConvType /\ UNCHANGED convVars => ConvType'
    /\ ThreadType /\ UNCHANGED threadVars => ThreadType'
    /\ NetType /\ UNCHANGED netVars => NetType'
    /\ UserType /\ UNCHANGED userVars => UserType'
  BY DEF ClientType, RelayType, HsType, ConvType, ThreadType, NetType, UserType,
         clientVars, relayVars, hsVars, convVars, threadVars, netVars, userVars

\* Queues: a message put at the end, and one taken from the front.
LEMMA PutType ==
    ASSUME NEW S, NEW D, NEW f \in [D -> Seq(S)], NEW d \in D, NEW e \in S
    PROVE  [f EXCEPT ![d] = Append(@, e)] \in [D -> Seq(S)]
<1>1. Append(f[d], e) \in Seq(S)
  BY AppendProperties
<1> QED
  BY <1>1

LEMMA TakeType ==
    ASSUME NEW S, NEW D, NEW f \in [D -> Seq(S)], NEW d \in D, f[d] # << >>
    PROVE  /\ Head(f[d]) \in S
           /\ [f EXCEPT ![d] = Tail(@)] \in [D -> Seq(S)]
<1>1. Head(f[d]) \in S /\ Tail(f[d]) \in Seq(S)
  BY HeadTailProperties
<1> QED
  BY <1>1

LEMMA ReplyType ==
    ASSUME NetType, NEW l \in Links, NEW msg \in Answers
    PROVE  Reply(l, msg) \in Seq(Answers)
<1>1. back[l] \in Seq(Answers)
  BY DEF NetType
<1> QED
  BY <1>1, AppendProperties DEF Reply

\* The path of a client in the middle of its handshakes.
LEMMA OnPath ==
    ASSUME ClientType, HopInv, NEW c \in Clients, cpc[c] \notin {"idle", "stopped"}
    PROVE  /\ path[c] \in Seq(Relays)
           /\ Len(path[c]) \in Hops
           /\ hop[c] \in 1 .. Len(path[c])
           /\ \A i \in 1 .. Len(path[c]) : path[c][i] \in Relays /\ <<c, i>> \in Keys
<1>1. path[c] \in Seq(Relays) /\ hop[c] \in Hops
  BY DEF ClientType
<1>2. path[c] # << >> /\ hop[c] <= Len(path[c]) /\ Len(path[c]) <= MaxPath
  BY DEF HopInv, PathInv, PathAt
<1>3. Len(path[c]) \in Nat /\ \A i \in 1 .. Len(path[c]) : path[c][i] \in Relays
  BY <1>1, ElementOfSeq, LenProperties
<1>4. MaxPath \in Nat
  BY ConstantFacts
<1> QED
  BY <1>1, <1>2, <1>3, <1>4 DEF Hops, Keys

\* The conversation the first message of a connection is for.
LEMMA AddressedType ==
    ASSUME Types, LinkInv, OnionInv, NEW l \in Links, FirstMessage(l)
    PROVE  Addressed(l) \in Keys \cup {NoKey} /\ Outer(Head(fwd[l])).id \in Ids
<1>1. fwd[l] \in Seq(Onions) /\ fwd[l] # << >>
  BY DEF Types, NetType, FirstMessage
<1>2. Head(fwd[l]) \in Onions /\ Head(fwd[l]) = fwd[l][1] /\ 1 \in 1 .. Len(fwd[l])
  BY <1>1, HeadTailProperties, EmptySeq
<1>3. Len(Head(fwd[l]).layers) > 0
  BY <1>2 DEF OnionInv, OnionAt
<1>4. Outer(Head(fwd[l])).id \in Ids
  BY <1>2, <1>3, PeelType DEF Layer
<1>5. LinkTo(l) \in Relays
  BY DEF LinkInv, LinkAt, FirstMessage
<1> QED
  BY <1>4, <1>5 DEF Addressed, Types, ConvType

\* An onion that a relay can read is for the conversation of its connection.
LEMMA TakenType ==
    ASSUME Types, OnionInv, NEW l \in Links, Takes(l)
    PROVE  /\ Received(l) \in [Links -> Seq(Onions)]
           /\ Head(fwd[l]) \in Onions
           /\ Head(fwd[l]) = fwd[l][1]
           /\ Len(Head(fwd[l]).layers) > 0
           /\ OnionAt(l, Head(fwd[l]))
           /\ Readable(l) => bound[l] \in Keys /\ Head(fwd[l]).layers[1].key = bound[l]
<1>1. fwd \in [Links -> Seq(Onions)] /\ fwd[l] # << >>
  BY DEF Types, NetType, Takes
<1>2. Head(fwd[l]) \in Onions /\ Received(l) \in [Links -> Seq(Onions)]
  BY <1>1, TakeType DEF Received
<1>3. Head(fwd[l]) = fwd[l][1] /\ 1 \in 1 .. Len(fwd[l])
  BY <1>1, HeadTailProperties, EmptySeq
<1>4. OnionAt(l, Head(fwd[l])) /\ Len(Head(fwd[l]).layers) > 0
  BY <1>3 DEF OnionInv, OnionAt
<1>5. Outer(Head(fwd[l])) \in Layer /\ Outer(Head(fwd[l])) = Head(fwd[l]).layers[1]
  BY <1>2, <1>4, PeelType
<1>6. Readable(l) => bound[l] \in Keys /\ Head(fwd[l]).layers[1].key = bound[l]
  BY <1>5 DEF Readable, Layer
<1> QED
  BY <1>2, <1>3, <1>4, <1>6

LEMMA TypeStep ==
    ASSUME Types, IInv, [Next]_vars
    PROVE  Types'
<1> USE DEF Types, IInv
<1>1. ASSUME NEW c \in Clients, PathDesign(c) PROVE Types'
  <2>1. ASSUME NEW len \in Requests, NEW q \in [1 .. Clamp(len) -> Relays]
        PROVE  q \in Seq(Relays)
    BY PathAssumption DEF Clamp
  <2>2. ClientType'
    BY <1>1, <2>1 DEF PathDesign, ClientType
  <2> QED
    BY <1>1, <2>2, TypeFrame DEF PathDesign
<1>2. ASSUME NEW c \in Clients, ClientSend(c) PROVE Types'
  <2>1. Entry(c) \in Links /\ sent[c] + 1 \in Nat
    <3>1. Entry(c) \in Links
      BY ConstantFacts
    <3>2. sent[c] \in Nat
      BY DEF UserType
    <3> QED
      BY <3>1, <3>2
  <2>2. Onion(c, sent[c] + 1) \in Onions
    BY <1>2, <2>1, OnionType, TypeSplit DEF ClientSend
  <2>3. fwd' \in [Links -> Seq(Onions)]
    <3>1. fwd \in [Links -> Seq(Onions)]
      BY DEF NetType
    <3>2. [fwd EXCEPT ![Entry(c)] = Append(@, Onion(c, sent[c] + 1))] \in [Links -> Seq(Onions)]
      BY <3>1, <2>1, <2>2, PutType
    <3> QED
      BY <1>2, <3>1, <3>2 DEF ClientSend
  <2>4. link' \in [Links -> {"none", "open", "broken", "closed"}]
    BY <1>2, <2>1 DEF ClientSend, NetType
  <2>5. NetType'
    BY <1>2, <2>3, <2>4 DEF ClientSend, NetType
  <2>6. UserType'
    BY <1>2, <2>1 DEF ClientSend, UserType
  <2> QED
    BY <1>2, <2>5, <2>6, TypeFrame DEF ClientSend
<1>3. ASSUME NEW c \in Clients, Connect(c) PROVE Types'
  <2>1. path[c][hop[c]] \in Relays /\ <<c, hop[c]>> \in Keys
    BY <1>3, OnPath DEF Connect
  <2>2. ClientType'
    BY <1>3, EmptySeq, ZenonT(30) DEF Connect, ClientType, StopSession
  <2>3. HsType'
    BY <1>3, <2>1 DEF Connect, HsType
  <2> QED
    BY <1>3, <2>2, <2>3, TypeFrame DEF Connect
<1>4. ASSUME NEW c \in Clients, ReceiveId(c) PROVE Types'
  <2>1. /\ path[c] \in Seq(Relays) /\ Len(path[c]) \in Hops /\ hop[c] \in 1 .. Len(path[c])
        /\ \A i \in 1 .. Len(path[c]) : path[c][i] \in Relays /\ <<c, i>> \in Keys
    BY <1>4, OnPath DEF ReceiveId
  <2>2. NextHop(c, hop[c]) \in Relays \cup {NoRelay}
    <3>1. CASE hop[c] < Len(path[c])
      <4>1. hop[c] + 1 \in 1 .. Len(path[c])
        BY <2>1, <3>1 DEF Hops
      <4> QED
        BY <2>1, <3>1, <4>1 DEF NextHop
    <3> QED
      BY <3>1 DEF NextHop
  <2>3. hop' \in [Clients -> Hops]
    <3>1. ~ LastHop(c) => hop[c] + 1 \in Hops
      BY <2>1, PathAssumption DEF LastHop, Hops
    <3> QED
      BY <1>4, <3>1 DEF ReceiveId, ClientType
  <2>4. hopId' \in [Keys -> Ids \cup {NoId}]
    <3>1. convId[<<c, hop[c]>>] \in Ids \cup {NoId}
      BY <2>1 DEF ConvType
    <3> QED
      BY <1>4, <3>1 DEF ReceiveId, ClientType
  <2>5. cpc' \in [Clients -> {"idle", "connect", "await", "entry", "ready", "stopped", "wedged"}]
    BY <1>4 DEF ReceiveId, ClientType
  <2>6. ClientType'
    BY <1>4, <2>3, <2>4, <2>5 DEF ReceiveId, ClientType
  <2>7. HsType'
    BY <1>4, <2>2 DEF ReceiveId, HsType
  <2> QED
    BY <1>4, <2>6, <2>7, TypeFrame DEF ReceiveId
<1>5. ASSUME NEW c \in Clients, HandshakeBroken(c) PROVE Types'
  <2>1. ClientType'
    BY <1>5, EmptySeq, ZenonT(30) DEF HandshakeBroken, ClientType, StopSession, Wedge
  <2> QED
    BY <1>5, <2>1, TypeFrame DEF HandshakeBroken
<1>6. ASSUME NEW c \in Clients, ConnectEntry(c) PROVE Types'
  <2>1. Entry(c) \in Links /\ << >> \in Seq(Onions) /\ << >> \in Seq(Answers)
    BY ConstantFacts, EmptySeq
  <2>2. ClientType'
    BY <1>6, EmptySeq, ZenonT(30) DEF ConnectEntry, ClientType, StopSession
  <2>3. ThreadType'
    BY <1>6 DEF ConnectEntry, ThreadType, threadVars
  <2>4. NetType'
    <3>1. fwd' \in [Links -> Seq(Onions)]
      BY <1>6, <2>1 DEF ConnectEntry, NetType
    <3>2. back' \in [Links -> Seq(Answers)]
      BY <1>6, <2>1 DEF ConnectEntry, NetType
    <3>3. link' \in [Links -> {"none", "open", "broken", "closed"}]
      BY <1>6, <2>1 DEF ConnectEntry, NetType
    <3> QED
      BY <1>6, <3>1, <3>2, <3>3 DEF ConnectEntry, NetType
  <2> QED
    BY <1>6, <2>2, <2>3, <2>4, TypeFrame DEF ConnectEntry
<1>7. ASSUME NEW c \in Clients, ClientReceive(c) PROVE Types'
  <2>1. Entry(c) \in Links
    BY ConstantFacts
  <2>2. Head(back[Entry(c)]) \in Answers /\ back' \in [Links -> Seq(Answers)]
    BY <1>7, <2>1, TakeType DEF ClientReceive, NetType
  <2>3. Head(back[Entry(c)]).body \in Body
    BY <2>2 DEF Answers
  <2>4. ClientType'
    BY <1>7 DEF ClientReceive, ClientType, Wedge
  <2>5. NetType'
    BY <1>7, <2>2 DEF ClientReceive, NetType
  <2>6. shown' \in [Clients -> Seq(Body)]
    <3>1. shown \in [Clients -> Seq(Body)]
      BY DEF UserType
    <3>2. [shown EXCEPT ![c] = Append(@, Head(back[Entry(c)]).body)] \in [Clients -> Seq(Body)]
      BY <3>1, <2>3, PutType
    <3> QED
      BY <1>7, <3>1, <3>2 DEF ClientReceive
  <2>7. UserType'
    BY <1>7, <2>6 DEF ClientReceive, UserType
  <2> QED
    BY <1>7, <2>4, <2>5, <2>7, TypeFrame DEF ClientReceive
<1>8. ASSUME NEW k \in Keys, AcceptKey(k) PROVE Types'
  <2>1. HsType'
    BY <1>8 DEF AcceptKey, HsType
  <2>2. PICK id \in Ids : /\ convId' = [convId EXCEPT ![k] = id]
                          /\ convMap' = [convMap EXCEPT ![at[k]] = Inserted(@, id, k)]
    BY <1>8 DEF AcceptKey
  <2>3. convMap' \in [Relays -> [Ids -> Keys \cup {NoKey}]]
    <3>1. ASSUME NEW map \in [Ids -> Keys \cup {NoKey}]
          PROVE  Inserted(map, id, k) \in [Ids -> Keys \cup {NoKey}]
      BY DEF Inserted
    <3> QED
      BY <2>2, <3>1 DEF ConvType
  <2>4. ConvType'
    BY <1>8, <2>2, <2>3 DEF AcceptKey, ConvType
  <2> QED
    BY <1>8, <2>1, <2>4, TypeFrame DEF AcceptKey
<1>9. ASSUME NEW k \in Keys, AcceptRole(k) PROVE Types'
  <2>1. RelayType'
    BY <1>9 DEF AcceptRole, RelayType, MayCrash
  <2>2. HsType'
    BY <1>9 DEF AcceptRole, HsType
  <2>3. role' \in [Keys -> {"unset", "relay", "exit", "freed"}]
    BY <1>9 DEF AcceptRole, ConvType
  <2>4. nxt' \in [Keys -> Relays \cup {NoRelay}]
    BY <1>9 DEF AcceptRole, ConvType, HsType
  <2>5. ConvType'
    BY <1>9, <2>3, <2>4 DEF AcceptRole, ConvType
  <2> QED
    BY <1>9, <2>1, <2>2, <2>5, TypeFrame DEF AcceptRole
<1>10. ASSUME NEW l \in Links, BindUnknown(l) PROVE Types'
  <2>1. RelayType'
    BY <1>10 DEF BindUnknown, RelayType
  <2> QED
    BY <1>10, <2>1, TypeFrame DEF BindUnknown
<1>11. ASSUME NEW l \in Links, Bind(l) PROVE Types'
  <2>1. Addressed(l) \in Keys /\ Keys \subseteq Links
    BY <1>11, AddressedType, ConstantFacts DEF Bind
  <2>2. ConvType'
    BY <1>11, <2>1 DEF Bind, ConvType
  <2>3. ThreadType'
    BY <1>11, <2>1 DEF Bind, ThreadType
  <2>4. NetType'
    BY <1>11, <2>1 DEF Bind, NetType
  <2> QED
    BY <1>11, <2>2, <2>3, <2>4, TypeFrame DEF Bind
<1>12. ASSUME NEW l \in Links, BindFails(l) PROVE Types'
  <2>1. Addressed(l) \in Keys
    BY <1>12, AddressedType DEF BindFails
  <2>2. Reply(l, Answer(Addressed(l), Unreachable(Addressed(l)))) \in Seq(Answers)
    <3>1. Unreachable(Addressed(l)) \in Body
      BY <2>1, ConstantFacts DEF Unreachable, Body
    <3> QED
      BY <2>1, <3>1, AnswerType, ReplyType
  <2>3. RelayType'
    BY <1>12 DEF BindFails, RelayType, MayCrash
  <2>4. convMap' \in [Relays -> [Ids -> Keys \cup {NoKey}]]
    <3>1. ASSUME NEW map \in [Ids -> Keys \cup {NoKey}]
          PROVE  Erased(map, convId[Addressed(l)]) \in [Ids -> Keys \cup {NoKey}]
      BY DEF Erased
    <3> QED
      BY <1>12, <3>1 DEF BindFails, ConvType
  <2>5. ConvType'
    BY <1>12, <2>4 DEF BindFails, ConvType
  <2>6. ThreadType'
    BY <1>12, <2>1 DEF BindFails, ThreadType
  <2>7. NetType'
    BY <1>12, <2>2 DEF BindFails, NetType
  <2> QED
    BY <1>12, <2>3, <2>5, <2>6, <2>7, TypeFrame DEF BindFails
<1>13. ASSUME NEW l \in Links, DecryptFails(l) PROVE Types'
  <2>1. Received(l) \in [Links -> Seq(Onions)]
    BY <1>13, TakenType DEF DecryptFails
  <2>2. ThreadType'
    BY <1>13 DEF DecryptFails, ThreadType
  <2>3. NetType'
    BY <1>13, <2>1 DEF DecryptFails, NetType
  <2> QED
    BY <1>13, <2>2, <2>3, TypeFrame DEF DecryptFails
<1>14. ASSUME NEW l \in Links, Forward(l) PROVE Types'
  <2>1. /\ Received(l) \in [Links -> Seq(Onions)] /\ Head(fwd[l]) \in Onions
        /\ Len(Head(fwd[l]).layers) > 0 /\ bound[l] \in Keys /\ Keys \subseteq Links
    BY <1>14, TakenType, ConstantFacts DEF Forward
  <2>2. Peel(Head(fwd[l])) \in Onions
    BY <2>1, PeelType
  <2>3. [Received(l) EXCEPT ![bound[l]] = Append(@, Peel(Head(fwd[l])))]
            \in [Links -> Seq(Onions)]
    BY <2>1, <2>2, PutType
  <2>4. fwd' \in [Links -> Seq(Onions)]
    BY <1>14, <2>1, <2>3 DEF Forward
  <2>5. link' \in [Links -> {"none", "open", "broken", "closed"}]
    BY <1>14 DEF Forward, NetType
  <2>6. NetType'
    BY <1>14, <2>4, <2>5 DEF Forward, NetType
  <2>7. ThreadType'
    BY <1>14 DEF Forward, ThreadType
  <2> QED
    BY <1>14, <2>6, <2>7, TypeFrame DEF Forward
<1>15. ASSUME NEW l \in Links, Deliver(l) PROVE Types'
  <2>1. /\ Received(l) \in [Links -> Seq(Onions)] /\ bound[l] \in Keys
        /\ Head(fwd[l]).body \in Body
    BY <1>15, TakenType DEF Deliver, Onions
  <2>2. host' \in [Keys -> Seq(Body)]
    BY <1>15, <2>1, PutType DEF Deliver, NetType
  <2>3. NetType'
    BY <1>15, <2>1, <2>2 DEF Deliver, NetType
  <2>4. Head(fwd[l]).body.from \in Clients /\ Head(fwd[l]).body.n \in Nat
    BY <2>1 DEF Body
  <2>5. delivered' \in [Clients -> Seq(Nat)]
    BY <1>15, <2>4, PutType DEF Deliver, UserType
  <2>6. UserType'
    BY <1>15, <2>5 DEF Deliver, UserType
  <2> QED
    BY <1>15, <2>3, <2>6, TypeFrame DEF Deliver
<1>16. ASSUME NEW l \in Links, HostAnswer(l) PROVE Types'
  <2>1. bound[l] \in Keys /\ host[bound[l]] # << >>
    BY <1>16 DEF HostAnswer, LinkInv, LinkAt
  <2>2. Head(host[bound[l]]) \in Body /\ host' \in [Keys -> Seq(Body)]
    BY <1>16, <2>1, TakeType DEF HostAnswer, NetType
  <2>3. Reply(l, Answer(bound[l], Head(host[bound[l]]))) \in Seq(Answers)
    BY <2>1, <2>2, AnswerType, ReplyType
  <2>4. NetType'
    BY <1>16, <2>2, <2>3 DEF HostAnswer, NetType
  <2> QED
    BY <1>16, <2>4, TypeFrame DEF HostAnswer
<1>17. ASSUME NEW l \in Links, Backward(l) PROVE Types'
  <2>1. bound[l] \in Keys /\ bound[l] \in Links /\ back[bound[l]] # << >>
    BY <1>17, ConstantFacts DEF Backward, LinkInv, LinkAt
  <2>2. Head(back[bound[l]]) \in Answers /\ Tail(back[bound[l]]) \in Seq(Answers)
    BY <2>1, HeadTailProperties DEF NetType
  <2>3. Reply(l, Wrap(bound[l], Head(back[bound[l]]))) \in Seq(Answers)
    BY <2>1, <2>2, WrapType, ReplyType
  <2>4. NetType'
    BY <1>17, <2>2, <2>3 DEF Backward, NetType
  <2> QED
    BY <1>17, <2>4, TypeFrame DEF Backward
<1>18. ASSUME NEW l \in Links, Report(l) PROVE Types'
  <2>1. bound[l] \in Keys
    BY <1>18 DEF Report, LinkInv, LinkAt
  <2>2. ASSUME prv[bound[l]] \in Links
        PROVE  Reply(prv[bound[l]], Answer(bound[l], Unreachable(bound[l]))) \in Seq(Answers)
    <3>1. Unreachable(bound[l]) \in Body
      BY <2>1, ConstantFacts DEF Unreachable, Body
    <3> QED
      BY <2>1, <2>2, <3>1, AnswerType, ReplyType
  <2>3. NetType'
    BY <1>18, <2>2 DEF Report, NetType
  <2>4. ThreadType'
    BY <1>18 DEF Report, ThreadType
  <2> QED
    BY <1>18, <2>3, <2>4, TypeFrame DEF Report
<1>19. ASSUME NEW r \in Relays, Crash(r) PROVE Types'
  <2>1. RelayType'
    BY <1>19 DEF Crash, RelayType
  <2> QED
    BY <1>19, <2>1, TypeFrame DEF Crash
<1>20. CASE UNCHANGED vars
  BY <1>20, TypeFrame DEF vars
<1> QED
  BY <1>1, <1>2, <1>3, <1>4, <1>5, <1>6, <1>7, <1>8, <1>9, <1>10, <1>11, <1>12, <1>13, <1>14, <1>15, <1>16, <1>17, <1>18, <1>19, <1>20
     DEF Next, ClientStep, HandshakeStep, HandlerStep, ListenerStep

-----------------------------------------------------------------------------
(* The handshakes. *)

hopVars == <<clientVars, hsVars, convId, role, nxt>>

LEMMA HopFrame ==
    ASSUME HopInv, UNCHANGED hopVars
    PROVE  HopInv'
  BY DEF HopInv, PathInv, PathAt, OrderInv, OrderAt, HandshakeInv, HandshakeAt, ToldInv, ToldAt,
         NextHop, hopVars, clientVars, hsVars

\* The path is drawn.
LEMMA HopPathDesign ==
    ASSUME ClientType, HopInv, NEW c \in Clients, PathDesign(c)
    PROVE  HopInv'
<1>1. PICK len \in Requests : \E q \in [1 .. Clamp(len) -> Relays] :
                                 len >= MinPath /\ path' = [path EXCEPT ![c] = q]
  BY DEF PathDesign
<1>2. Clamp(len) \in Hops
  BY <1>1, PathAssumption DEF Clamp, Hops
<1>3. PICK q \in [1 .. Clamp(len) -> Relays] : path' = [path EXCEPT ![c] = q]
  BY <1>1
<1>4. q \in Seq(Relays) /\ Len(q) = Clamp(len)
  BY <1>2 DEF Hops
<1>5. path'[c] # << >> /\ Len(path'[c]) \in Hops
  <2>1. path'[c] = q
    BY <1>3 DEF ClientType
  <2>2. Len(q) # 0
    BY <1>2, <1>4 DEF Hops
  <2> QED
    BY <1>2, <1>4, <2>1, <2>2, EmptySeq
<1>6. hop[c] = 1 /\ \A i \in Hops : hs[<<c, i>>] = "none"
  BY DEF PathDesign, HopInv, PathInv, PathAt, OrderInv, OrderAt
<1>7. /\ \A d \in Clients \ {c} : path'[d] = path[d] /\ cpc'[d] = cpc[d]
      /\ cpc'[c] = "connect" /\ UNCHANGED <<hop, hopId, at, hs, told, convId, role, nxt>>
  BY <1>3 DEF PathDesign, ClientType, hsVars, convVars
<1>8. PathInv'
  <2> SUFFICES ASSUME NEW d \in Clients PROVE PathAt(d)'
    BY DEF PathInv
  <2> QED
    BY <1>5, <1>6, <1>7, PathAssumption DEF HopInv, PathInv, PathAt, Hops
<1>9. OrderInv'
  <2> SUFFICES ASSUME NEW d \in Clients, NEW i \in Hops PROVE OrderAt(d, i)'
    BY DEF OrderInv
  <2> QED
    BY <1>5, <1>6, <1>7 DEF HopInv, OrderInv, OrderAt, Hops
<1>10. HandshakeInv'
  BY <1>7 DEF HopInv, HandshakeInv, HandshakeAt
<1>11. ToldInv'
  <2> SUFFICES ASSUME NEW d \in Clients, NEW i \in Hops PROVE ToldAt(d, i)'
    BY DEF ToldInv
  <2> QED
    BY <1>6, <1>7 DEF HopInv, ToldInv, ToldAt, NextHop
<1> QED
  BY <1>8, <1>9, <1>10, <1>11 DEF HopInv

\* The connection to the next hop of the path, when it succeeds.
LEMMA HopConnect ==
    ASSUME Types, HopInv, NEW c \in Clients, Connect(c), UNCHANGED path
    PROVE  HopInv'
<1> DEFINE k == <<c, hop[c]>>
<1>1. k \in Keys /\ hop[c] \in Hops /\ path[c] # << >>
  BY OnPath, ConstantFacts, EmptySeq DEF Connect, Types, HopInv, PathInv, PathAt
<1>2. hs[k] = "none" /\ cpc[c] = "connect"
  BY <1>1 DEF Connect, HopInv, OrderInv, OrderAt, Hops
<1>3. /\ \A j \in Keys \ {k} : at'[j] = at[j] /\ hs'[j] = hs[j]
      /\ at'[k] = path[c][hop[c]] /\ hs'[k] = "key"
      /\ cpc'[c] = "await" /\ \A d \in Clients \ {c} : cpc'[d] = cpc[d]
      /\ UNCHANGED <<path, hop, hopId, told, convId, role, nxt>>
  <2>1. ~ StopSession(c)
    BY <1>1, <1>2 DEF StopSession, Types, ClientType
  <2> QED
    BY <1>1, <2>1 DEF Connect, convVars, Types, ClientType, HsType
<1>4. \A d \in Clients, i \in Hops :
         /\ <<d, i>> \in Keys
         /\ <<d, i>> = k <=> d = c /\ i = hop[c]
  BY DEF Keys
<1> HIDE DEF k
<1>5. PathInv'
  <2> SUFFICES ASSUME NEW d \in Clients PROVE PathAt(d)'
    BY DEF PathInv
  <2> QED
    BY <1>2, <1>3 DEF HopInv, PathInv, PathAt
<1>6. OrderInv'
  <2> SUFFICES ASSUME NEW d \in Clients, NEW i \in Hops PROVE OrderAt(d, i)'
    BY DEF OrderInv
  <2>1. hop[c] \in Nat /\ i \in Nat
    BY <1>1 DEF Hops
  <2>2. CASE d = c /\ i = hop[c]
    BY <1>1, <1>2, <1>3, <1>4, <2>1, <2>2 DEF OrderAt
  <2>3. CASE ~ (d = c /\ i = hop[c])
    BY <1>2, <1>3, <1>4, <2>1, <2>3 DEF HopInv, OrderInv, OrderAt
  <2> QED
    BY <2>2, <2>3
<1>7. HandshakeInv'
  <2> SUFFICES ASSUME NEW j \in Keys PROVE HandshakeAt(j)'
    BY DEF HandshakeInv
  <2> QED
    BY <1>2, <1>3 DEF HopInv, HandshakeInv, HandshakeAt
<1>8. ToldInv'
  <2> SUFFICES ASSUME NEW d \in Clients, NEW i \in Hops PROVE ToldAt(d, i)'
    BY DEF ToldInv
  <2>1. ToldAt(d, i)
    BY DEF HopInv, ToldInv
  <2>2. CASE d = c /\ i = hop[c]
    BY <1>3, <1>4, <2>2 DEF ToldAt
  <2>3. CASE ~ (d = c /\ i = hop[c])
    BY <1>3, <1>4, <2>1, <2>3 DEF ToldAt, NextHop
  <2> QED
    BY <2>2, <2>3
<1> QED
  BY <1>5, <1>6, <1>7, <1>8 DEF HopInv

\* The second half of a handshake.
LEMMA HopReceiveId ==
    ASSUME Types, HopInv, NEW c \in Clients, ReceiveId(c)
    PROVE  HopInv'
<1> DEFINE k == <<c, hop[c]>>
<1>1. /\ k \in Keys /\ hop[c] \in 1 .. Len(path[c]) /\ Len(path[c]) \in Hops
      /\ path[c] # << >>
  BY OnPath, ConstantFacts, EmptySeq DEF ReceiveId, Types, HopInv, PathInv, PathAt
<1>2. /\ hs[k] = "id" /\ cpc[c] = "await"
      /\ hs'[k] = "role" /\ told'[k] = NextHop(c, hop[c]) /\ hopId'[k] = convId[k]
      /\ \A j \in Keys \ {k} : hs'[j] = hs[j] /\ told'[j] = told[j] /\ hopId'[j] = hopId[j]
      /\ UNCHANGED <<path, at, convId, role, nxt>>
  BY <1>1 DEF ReceiveId, convVars, Types, ClientType, HsType
<1>3. /\ \/ hop[c] = Len(path[c]) /\ cpc'[c] = "entry" /\ hop'[c] = hop[c]
         \/ hop[c] < Len(path[c]) /\ cpc'[c] = "connect" /\ hop'[c] = hop[c] + 1
      /\ \A d \in Clients \ {c} : cpc'[d] = cpc[d] /\ hop'[d] = hop[d]
  BY <1>1 DEF ReceiveId, LastHop, Hops, Types, ClientType
<1>4. \A d \in Clients, i \in Hops :
         /\ <<d, i>> \in Keys
         /\ <<d, i>> = k <=> d = c /\ i = hop[c]
  BY DEF Keys
<1> HIDE DEF k
<1>5. PathInv'
  <2> SUFFICES ASSUME NEW d \in Clients PROVE PathAt(d)'
    BY DEF PathInv
  <2>1. PathAt(d)
    BY DEF HopInv, PathInv
  <2> QED
    BY <2>1, <1>1, <1>2, <1>3 DEF PathAt, Hops
<1>6. OrderInv'
  <2> SUFFICES ASSUME NEW d \in Clients, NEW i \in Hops PROVE OrderAt(d, i)'
    BY DEF OrderInv
  <2>1. OrderAt(d, i) /\ hop[c] \in Nat /\ i \in Nat /\ Len(path[c]) \in Nat
    BY <1>1 DEF HopInv, OrderInv, Hops
  <2>2. CASE d # c
    <3>1. hs'[<<d, i>>] = hs[<<d, i>>] /\ cpc'[d] = cpc[d] /\ hop'[d] = hop[d]
      BY <2>2, <1>2, <1>3, <1>4
    <3> QED
      BY <2>1, <3>1, <1>2 DEF OrderAt
  <2>3. CASE d = c /\ i = hop[c]
    BY <1>1, <1>2, <1>3, <1>4, <2>1, <2>3 DEF OrderAt
  <2>4. CASE d = c /\ i # hop[c]
    <3>1. hs'[<<d, i>>] = hs[<<d, i>>]
      BY <2>4, <1>2, <1>4
    <3> QED
      BY <2>1, <2>4, <3>1, <1>1, <1>2, <1>3 DEF OrderAt
  <2> QED
    BY <2>2, <2>3, <2>4
<1>7. HandshakeInv'
  <2> SUFFICES ASSUME NEW j \in Keys PROVE HandshakeAt(j)'
    BY DEF HandshakeInv
  <2>1. HandshakeAt(j)
    BY DEF HopInv, HandshakeInv
  <2> QED
    BY <2>1, <1>2 DEF HandshakeAt
<1>8. ToldInv'
  <2> SUFFICES ASSUME NEW d \in Clients, NEW i \in Hops PROVE ToldAt(d, i)'
    BY DEF ToldInv
  <2>1. ToldAt(d, i)
    BY DEF HopInv, ToldInv
  <2>2. NextHop(d, i)' = NextHop(d, i)
    BY <1>2 DEF NextHop
  <2>3. CASE d = c /\ i = hop[c]
    BY <1>2, <1>4, <2>1, <2>2, <2>3 DEF ToldAt
  <2>4. CASE ~ (d = c /\ i = hop[c])
    BY <1>2, <1>4, <2>1, <2>2, <2>4 DEF ToldAt
  <2> QED
    BY <2>3, <2>4
<1> QED
  BY <1>5, <1>6, <1>7, <1>8 DEF HopInv

\* The client connects to its entry relay, its session ends, or its thread dies
\* with the mutex held.
LEMMA HopStops ==
    ASSUME ClientType, HopInv, NEW c \in Clients, cpc[c] \notin {"idle", "stopped"},
           \/ StopSession(c)
           \/ Wedge(c) /\ path' = path
           \/ cpc[c] \in {"entry", "ready"} /\ cpc' = [cpc EXCEPT ![c] = "ready"] /\ path' = path,
           UNCHANGED <<hop, hopId, hsVars, convId, role, nxt>>
    PROVE  HopInv'
<1>1. /\ \/ cpc'[c] = "stopped" /\ path'[c] = << >>
         \/ cpc'[c] = "wedged" /\ path'[c] = path[c]
         \/ cpc[c] \in {"entry", "ready"} /\ cpc'[c] = "ready" /\ path'[c] = path[c]
      /\ \A d \in Clients \ {c} : cpc'[d] = cpc[d] /\ path'[d] = path[d]
      /\ UNCHANGED <<hop, hopId, at, hs, told, convId, role, nxt>>
  BY DEF StopSession, Wedge, ClientType, hsVars
<1>2. PathInv'
  <2> SUFFICES ASSUME NEW d \in Clients PROVE PathAt(d)'
    BY DEF PathInv
  <2> QED
    BY <1>1 DEF HopInv, PathInv, PathAt
<1>3. OrderInv'
  <2> SUFFICES ASSUME NEW d \in Clients, NEW i \in Hops PROVE OrderAt(d, i)'
    BY DEF OrderInv
  <2>1. OrderAt(d, i)
    BY DEF HopInv, OrderInv
  <2> QED
    BY <1>1, <2>1 DEF OrderAt
<1>4. HandshakeInv'
  BY <1>1 DEF HopInv, HandshakeInv, HandshakeAt
<1>5. ToldInv'
  <2> SUFFICES ASSUME NEW d \in Clients, NEW i \in Hops PROVE ToldAt(d, i)'
    BY DEF ToldInv
  <2>1. ToldAt(d, i)
    BY DEF HopInv, ToldInv
  <2>2. CASE path'[d] = path[d]
    BY <1>1, <2>1, <2>2 DEF ToldAt, NextHop
  <2>3. CASE path'[d] = << >>
    <3>1. ~ i <= Len(path'[d])
      BY <2>3, EmptySeq DEF Hops
    <3> QED
      BY <3>1 DEF ToldAt
  <2> QED
    BY <1>1, <2>2, <2>3
<1> QED
  BY <1>2, <1>3, <1>4, <1>5 DEF HopInv

\* The relay's half of a handshake.
LEMMA HopAccept ==
    ASSUME Types, HopInv, NEW k \in Keys, AcceptKey(k) \/ AcceptRole(k)
    PROVE  HopInv'
<1>1. /\ UNCHANGED <<cpc, path, hop, hopId, at, told>>
      /\ \A j \in Keys \ {k} : hs'[j] = hs[j] /\ convId'[j] = convId[j]
                               /\ role'[j] = role[j] /\ nxt'[j] = nxt[j]
      /\ hs[k] # "none" /\ hs'[k] # "none"
      /\ hs'[k] \in {"role", "done"} <=> hs[k] \in {"role", "done"}
  BY DEF AcceptKey, AcceptRole, clientVars, Types, HsType, ConvType
<1>2. ASSUME NEW d \in Clients, NEW i \in Hops
      PROVE  /\ hs'[<<d, i>>] = "none" <=> hs[<<d, i>>] = "none"
             /\ hs'[<<d, i>>] \in {"role", "done"} <=> hs[<<d, i>>] \in {"role", "done"}
  <2>1. <<d, i>> \in Keys
    BY DEF Keys
  <2> QED
    BY <1>1, <2>1
<1>3. PathInv'
  BY <1>1 DEF HopInv, PathInv, PathAt
<1>4. OrderInv'
  <2> SUFFICES ASSUME NEW d \in Clients, NEW i \in Hops PROVE OrderAt(d, i)'
    BY DEF OrderInv
  <2>1. OrderAt(d, i)
    BY DEF HopInv, OrderInv
  <2> QED
    BY <1>1, <1>2, <2>1 DEF OrderAt
<1>5. HandshakeInv'
  <2> SUFFICES ASSUME NEW j \in Keys PROVE HandshakeAt(j)'
    BY DEF HandshakeInv
  <2>1. HandshakeAt(j)
    BY DEF HopInv, HandshakeInv
  <2>2. CASE j # k
    BY <1>1, <2>1, <2>2 DEF HandshakeAt
  <2>3. CASE j = k /\ AcceptKey(k)
    BY <1>1, <2>1, <2>3 DEF HandshakeAt, AcceptKey, Types, HsType, ConvType
  <2>4. CASE j = k /\ AcceptRole(k)
    BY <1>1, <2>1, <2>4 DEF HandshakeAt, AcceptRole, Types, HsType, ConvType
  <2> QED
    BY <2>2, <2>3, <2>4
<1>6. ToldInv'
  <2> SUFFICES ASSUME NEW d \in Clients, NEW i \in Hops PROVE ToldAt(d, i)'
    BY DEF ToldInv
  <2>1. ToldAt(d, i) /\ NextHop(d, i)' = NextHop(d, i)
    BY <1>1 DEF HopInv, ToldInv, NextHop
  <2> QED
    BY <1>1, <1>2, <2>1 DEF ToldAt
<1> QED
  BY <1>3, <1>4, <1>5, <1>6 DEF HopInv

LEMMA HopBindFails ==
    ASSUME Types, HopInv, NEW l \in Links, BindFails(l)
    PROVE  HopInv'
<1>1. UNCHANGED <<cpc, path, hop, hopId, at, hs, told, convId, nxt>>
  BY DEF BindFails, clientVars, hsVars
<1>2. PathInv' /\ OrderInv'
  BY <1>1 DEF HopInv, PathInv, PathAt, OrderInv, OrderAt
<1>3. HandshakeInv'
  BY <1>1 DEF HopInv, HandshakeInv, HandshakeAt, BindFails, Types, ConvType
<1>4. ToldInv'
  BY <1>1 DEF HopInv, ToldInv, ToldAt, NextHop
<1> QED
  BY <1>2, <1>3, <1>4 DEF HopInv

LEMMA HopStep ==
    ASSUME Types, HopInv, [Next]_vars
    PROVE  HopInv'
<1>1. ASSUME NEW c \in Clients, PathDesign(c) PROVE HopInv'
  BY <1>1, HopPathDesign DEF Types
<1>2. ASSUME NEW c \in Clients, Connect(c) PROVE HopInv'
  <2>1. CASE UNCHANGED path
    BY <1>2, <2>1, HopConnect
  <2>2. CASE StopSession(c) /\ UNCHANGED <<at, hs>>
    BY <1>2, <2>2, HopStops DEF Connect, Types, convVars, hsVars
  <2> QED
    BY <1>2, <2>1, <2>2 DEF Connect
<1>3. ASSUME NEW c \in Clients, ReceiveId(c) PROVE HopInv'
  BY <1>3, HopReceiveId
<1>4. ASSUME NEW c \in Clients, HandshakeBroken(c) PROVE HopInv'
  BY <1>4, HopStops DEF HandshakeBroken, Types, convVars
<1>5. ASSUME NEW c \in Clients, ConnectEntry(c) PROVE HopInv'
  BY <1>5, HopStops DEF ConnectEntry, Types, convVars
<1>6. ASSUME NEW c \in Clients, ClientReceive(c) PROVE HopInv'
  <2>1. CASE Wedge(c)
    BY <1>6, <2>1, HopStops DEF ClientReceive, Types, convVars
  <2>2. CASE UNCHANGED cpc
    BY <1>6, <2>2, HopFrame DEF ClientReceive, hopVars, clientVars, convVars
  <2> QED
    BY <1>6, <2>1, <2>2 DEF ClientReceive
<1>7. ASSUME NEW k \in Keys, HandshakeStep(k) PROVE HopInv'
  BY <1>7, HopAccept DEF HandshakeStep
<1>8. ASSUME NEW l \in Links, HandlerStep(l) PROVE HopInv'
  <2>1. CASE BindFails(l)
    BY <2>1, HopBindFails
  <2>2. CASE ~ BindFails(l)
    <3>1. UNCHANGED hopVars
      BY <1>8, <2>2 DEF HandlerStep, BindUnknown, Bind, DecryptFails, Forward, Deliver,
                        hopVars, convVars
    <3> QED
      BY <3>1, HopFrame
  <2> QED
    BY <2>1, <2>2
<1>9. ASSUME NEW c \in Clients, ClientSend(c) PROVE HopInv'
  BY <1>9, HopFrame DEF ClientSend, hopVars, convVars
<1>10. ASSUME NEW l \in Links, ListenerStep(l) PROVE HopInv'
  BY <1>10, HopFrame DEF ListenerStep, HostAnswer, Backward, Report, hopVars, convVars
<1>11. ASSUME NEW r \in Relays, Crash(r) PROVE HopInv'
  BY <1>11, HopFrame DEF Crash, hopVars, convVars
<1>12. CASE UNCHANGED vars
  BY <1>12, HopFrame DEF vars, hopVars, convVars
<1> QED
  BY <1>1, <1>2, <1>3, <1>4, <1>5, <1>6, <1>7, <1>8, <1>9, <1>10, <1>11, <1>12
     DEF Next, ClientStep

-----------------------------------------------------------------------------
(* Connections. *)

\* After the handshakes the entry relay is known.
LEMMA EntryRelay ==
    ASSUME Types, HopInv, NEW c \in Clients, cpc[c] \in {"entry", "ready"}
    PROVE  LinkTo(Entry(c)) \in Relays
<1>1. /\ path[c] \in Seq(Relays) /\ Len(path[c]) \in Hops
      /\ hop[c] \in 1 .. Len(path[c]) /\ path[c][1] \in Relays
  BY OnPath, PathAssumption DEF Types, Hops
<1>2. OrderAt(c, 1) /\ ToldAt(c, 1) /\ 1 <= Len(path[c]) /\ path[c] # << >>
  BY <1>1, EmptySeq, PathAssumption DEF HopInv, OrderInv, ToldInv, Hops
<1>3. hs[<<c, 1>>] \in {"role", "done"}
  BY <1>1, <1>2 DEF OrderAt, Hops
<1> QED
  BY <1>1, <1>2, <1>3 DEF ToldAt, LinkTo, Entry

LEMMA LinkStep ==
    ASSUME Types, HopInv, LinkInv, OnionInv, [Next]_vars
    PROVE  LinkInv'
<1> SUFFICES ASSUME NEW l \in Links PROVE LinkAt(l)'
  BY DEF LinkInv
<1>0. LinkAt(l) /\ (l \in Keys <=> l[2] # 0) /\ <<l[1], 1>> \in Keys
  BY PathAssumption DEF LinkInv, Links, Keys, Hops
<1>1. ASSUME UNCHANGED <<link, nxt, bound>>,
             \A k \in Keys : hs[k] = "done" => hs'[k] = "done",
             handler'[l] = "run" => handler[l] = "run", lstn'[l] = "run" => lstn[l] = "run",
             l[2] = 0 /\ link[l] # "none" => at'[<<l[1], 1>>] \in Relays
      PROVE  LinkAt(l)'
  BY <1>0, <1>1 DEF LinkAt, LinkTo
<1>2. l[2] = 0 /\ link[l] # "none" => at[<<l[1], 1>>] \in Relays
  BY <1>0 DEF LinkAt, LinkTo
<1>3. ASSUME NEW c \in Clients, Connect(c) PROVE LinkAt(l)'
  <2>1. path[c][hop[c]] \in Relays
    BY <1>3, OnPath DEF Connect, Types
  <2>2. at'[<<l[1], 1>>] \in Relays \/ at'[<<l[1], 1>>] = at[<<l[1], 1>>]
    BY <1>0, <1>3, <2>1 DEF Connect, Types, HsType
  <2>3. \A k \in Keys : hs[k] = "done" => hs'[k] = "done"
    <3>1. hop[c] \in Hops /\ cpc[c] = "connect"
      BY <1>3 DEF Connect, Types, ClientType
    <3>2. hs[<<c, hop[c]>>] = "none"
      BY <3>1 DEF HopInv, OrderInv, OrderAt, Hops
    <3> QED
      BY <1>3, <3>2 DEF Connect, Types, HsType
  <2> QED
    BY <1>1, <1>2, <1>3, <2>2, <2>3 DEF Connect, convVars, threadVars, netVars
<1>4. ASSUME NEW c \in Clients, ReceiveId(c) PROVE LinkAt(l)'
  <2>1. \A k \in Keys : hs[k] = "done" => hs'[k] = "done"
    BY <1>4 DEF ReceiveId, Types, HsType
  <2> QED
    BY <1>1, <1>2, <1>4, <2>1 DEF ReceiveId, convVars, threadVars, netVars
<1>5. ASSUME NEW c \in Clients, ConnectEntry(c) PROVE LinkAt(l)'
  <2>1. CASE l # Entry(c) \/ UNCHANGED <<link, threadVars>>
    <3>1. link'[l] = link[l] /\ bound'[l] = bound[l] /\ handler'[l] = handler[l]
          /\ lstn'[l] = lstn[l]
      BY <1>5, <2>1 DEF ConnectEntry, threadVars, Types, NetType, ThreadType
    <3> QED
      BY <1>0, <1>5, <3>1 DEF LinkAt, LinkTo, ConnectEntry, hsVars, convVars
  <2>2. CASE l = Entry(c) /\ ~ UNCHANGED <<link, threadVars>>
    <3>1. handler'[l] = "none" /\ lstn'[l] = "none"
      BY <1>5, <2>2 DEF ConnectEntry, Types, ThreadType
    <3>2. LinkTo(l)' \in Relays
      BY <1>5, <2>2, EntryRelay DEF ConnectEntry, LinkTo, Entry, hsVars
    <3>3. l \notin Keys
      BY <1>0, <2>2 DEF Entry
    <3> QED
      BY <3>1, <3>2, <3>3 DEF LinkAt
  <2> QED
    BY <2>1, <2>2
<1>6. ASSUME NEW c \in Clients, ClientSend(c) PROVE LinkAt(l)'
  <2>1. LinkTo(l)' = LinkTo(l) /\ (LinkAt(l) /\ link'[l] = link[l] => LinkAt(l)')
    BY <1>6 DEF LinkAt, LinkTo, ClientSend, hsVars, convVars, threadVars
  <2>2. CASE l # Entry(c)
    BY <1>0, <1>6, <2>1, <2>2 DEF ClientSend, Types, NetType
  <2>3. CASE l = Entry(c)
    BY <1>0, <1>6, <2>1, <2>3, EntryRelay DEF LinkAt, ClientSend, Entry, threadVars
  <2> QED
    BY <2>2, <2>3
<1>7. ASSUME NEW k \in Keys, AcceptKey(k) PROVE LinkAt(l)'
  <2>1. \A j \in Keys : hs[j] = "done" => hs'[j] = "done"
    BY <1>7 DEF AcceptKey, Types, HsType
  <2> QED
    BY <1>1, <1>2, <1>7, <2>1 DEF AcceptKey, threadVars, netVars
<1>8. ASSUME NEW k \in Keys, AcceptRole(k) PROVE LinkAt(l)'
  <2>1. hs'[k] = "done" /\ \A j \in Keys \ {k} : hs'[j] = hs[j] /\ nxt'[j] = nxt[j]
    BY <1>8 DEF AcceptRole, Types, HsType, ConvType
  <2>2. l = k => link[l] = "none"
    BY <1>0, <1>8 DEF LinkAt, AcceptRole
  <2> QED
    BY <1>0, <1>8, <2>1, <2>2 DEF LinkAt, LinkTo, AcceptRole, threadVars, netVars
<1>9. ASSUME NEW m \in Links, Bind(m) PROVE LinkAt(l)'
  <2>1. Addressed(m) \in Keys /\ Addressed(m) \in Links
    BY <1>9, AddressedType, ConstantFacts DEF Bind
  <2>2. handler'[l] = "run" \/ lstn'[l] = "run" => bound'[l] \in Keys
    BY <1>0, <1>9, <2>1 DEF Bind, LinkAt, Types, ThreadType
  <2>3. CASE link'[l] = link[l]
    BY <1>0, <1>9, <2>2, <2>3 DEF Bind, LinkAt, LinkTo, hsVars
  <2>4. CASE link'[l] # link[l]
    <3>1. l = Addressed(m) /\ role[l] = "relay"
      BY <1>9, <2>1, <2>4 DEF Bind, Types, NetType
    <3>2. hs[l] = "done" /\ nxt[l] = told[l] /\ told[l] \in Relays
      BY <2>1, <3>1 DEF HopInv, HandshakeInv, HandshakeAt, Types, HsType
    <3>3. l[2] # 0
      BY <1>0, <2>1, <3>1
    <3> QED
      BY <1>9, <2>2, <3>2, <3>3 DEF Bind, LinkAt, LinkTo, hsVars
  <2> QED
    BY <2>3, <2>4
<1>10. ASSUME NEW m \in Links, BindFails(m) PROVE LinkAt(l)'
  <2>1. Addressed(m) \in Keys
    BY <1>10, AddressedType DEF BindFails
  <2>2. handler'[l] = "run" \/ lstn'[l] = "run" => bound'[l] \in Keys
    BY <1>0, <1>10, <2>1 DEF BindFails, LinkAt, Types, ThreadType
  <2>3. link'[l] # "none" => link[l] # "none"
    BY <1>10 DEF BindFails, FirstMessage, Types, NetType
  <2> QED
    BY <1>0, <1>10, <2>2, <2>3 DEF LinkAt, LinkTo, BindFails, hsVars
<1>11. ASSUME NEW m \in Links, Forward(m) PROVE LinkAt(l)'
  <2>1. bound[m] \in Keys /\ role[bound[m]] = "relay" /\ bound[m] \in Links
    BY <1>11, TakenType, ConstantFacts DEF Forward
  <2>2. nxt[bound[m]] \in Relays /\ hs[bound[m]] = "done" /\ bound[m][2] # 0
    BY <2>1 DEF HopInv, HandshakeInv, HandshakeAt, Types, HsType, Keys, Hops
  <2>3. handler'[l] = "run" => handler[l] = "run"
    BY <1>11 DEF Forward, Types, ThreadType
  <2>4. CASE l = bound[m]
    BY <1>0, <1>11, <2>2, <2>3, <2>4 DEF LinkAt, LinkTo, Forward, hsVars, convVars
  <2>5. CASE l # bound[m]
    <3>1. link'[l] = link[l]
      BY <1>11, <2>1, <2>5 DEF Forward, Types, NetType
    <3> QED
      BY <1>0, <1>11, <2>3, <3>1 DEF LinkAt, LinkTo, Forward, hsVars, convVars
  <2> QED
    BY <2>4, <2>5
<1>12. ASSUME NEW m \in Links, DecryptFails(m) \/ Report(m) PROVE LinkAt(l)'
  <2>1. /\ handler'[l] = "run" => handler[l] = "run"
        /\ lstn'[l] = "run" => lstn[l] = "run"
    BY <1>12 DEF DecryptFails, Report, Types, ThreadType
  <2> QED
    BY <1>1, <1>2, <1>12, <2>1 DEF DecryptFails, Report, hsVars, convVars
<1>13. ASSUME UNCHANGED <<link, bound, handler, lstn, nxt, hsVars>> PROVE LinkAt(l)'
  BY <1>0, <1>13 DEF LinkAt, LinkTo, hsVars
<1>14. ASSUME NEW c \in Clients, PathDesign(c) \/ HandshakeBroken(c) \/ ClientReceive(c)
       PROVE  LinkAt(l)'
  BY <1>13, <1>14 DEF PathDesign, HandshakeBroken, ClientReceive, convVars, threadVars, netVars
<1>15. ASSUME NEW m \in Links,
              BindUnknown(m) \/ Deliver(m) \/ HostAnswer(m) \/ Backward(m)
       PROVE  LinkAt(l)'
  BY <1>13, <1>15 DEF BindUnknown, Deliver, HostAnswer, Backward, convVars, threadVars, netVars
<1>16. ASSUME NEW r \in Relays, Crash(r) PROVE LinkAt(l)'
  BY <1>13, <1>16 DEF Crash, convVars, threadVars, netVars
<1>17. CASE UNCHANGED vars
  BY <1>13, <1>17 DEF vars, convVars, threadVars, netVars
<1> QED
  BY <1>3, <1>4, <1>5, <1>6, <1>7, <1>8, <1>9, <1>10, <1>11, <1>12, <1>14, <1>15, <1>16, <1>17
     DEF Next, ClientStep, HandshakeStep, HandlerStep, ListenerStep

-----------------------------------------------------------------------------
(* Onions. *)

\* What a relay was told is never told again.
Told(k) == hs[k] \in {"role", "done"}

LEMMA ToldForGood ==
    ASSUME Types, HopInv, [Next]_vars
    PROVE  \A k \in Keys : Told(k) => Told(k)' /\ told'[k] = told[k]
<1> USE DEF Told, Types, HsType
<1>1. CASE UNCHANGED hsVars
  BY <1>1 DEF hsVars
<1>2. ASSUME NEW c \in Clients, Connect(c)
      PROVE  \A k \in Keys : Told(k) => Told(k)' /\ told'[k] = told[k]
  <2>1. hop[c] \in Hops /\ cpc[c] = "connect"
    BY <1>2 DEF Connect, ClientType
  <2>2. hs[<<c, hop[c]>>] = "none"
    BY <2>1 DEF HopInv, OrderInv, OrderAt, Hops
  <2> QED
    BY <1>2, <2>2 DEF Connect
<1>3. ASSUME NEW c \in Clients, ReceiveId(c)
      PROVE  \A k \in Keys : Told(k) => Told(k)' /\ told'[k] = told[k]
  BY <1>3 DEF ReceiveId
<1>4. ASSUME NEW k \in Keys, HandshakeStep(k)
      PROVE  \A j \in Keys : Told(j) => Told(j)' /\ told'[j] = told[j]
  BY <1>4 DEF HandshakeStep, AcceptKey, AcceptRole
<1>5. ASSUME NEW c \in Clients,
             PathDesign(c) \/ ClientSend(c) \/ HandshakeBroken(c) \/ ConnectEntry(c)
               \/ ClientReceive(c)
      PROVE  UNCHANGED hsVars
  BY <1>5 DEF PathDesign, ClientSend, HandshakeBroken, ConnectEntry, ClientReceive
<1>6. ASSUME NEW l \in Links, HandlerStep(l) \/ ListenerStep(l)
      PROVE  UNCHANGED hsVars
  BY <1>6 DEF HandlerStep, BindUnknown, Bind, BindFails, DecryptFails, Forward, Deliver,
              ListenerStep, HostAnswer, Backward, Report
<1>7. ASSUME NEW r \in Relays, Crash(r)
      PROVE  UNCHANGED hsVars
  BY <1>7 DEF Crash
<1>8. CASE UNCHANGED vars
  BY <1>1, <1>8 DEF vars
<1> QED
  BY <1>1, <1>2, <1>3, <1>4, <1>5, <1>6, <1>7, <1>8 DEF Next, ClientStep

\* An onion stays where it belongs, whatever the handshakes do.
LEMMA OnionStays ==
    ASSUME \A k \in Keys : Told(k) => Told(k)' /\ told'[k] = told[k],
           NEW l \in Links, NEW onion \in Onions, OnionAt(l, onion)
    PROVE  OnionAt(l, onion)'
<1>1. ASSUME NEW m \in 1 .. Len(onion.layers)
      PROVE  <<l[1], l[2] + m>> \in Keys
  <2>1. onion.layers[m] \in Layer
    BY ElementOfSeq DEF Onions
  <2> QED
    BY <2>1 DEF OnionAt, Layer
<1> QED
  BY <1>1 DEF OnionAt, Told

\* The onion a client wraps belongs on its connection to the entry relay.
LEMMA OnionSent ==
    ASSUME Types, HopInv, NEW c \in Clients, cpc[c] = "ready", NEW n \in Nat
    PROVE  OnionAt(Entry(c), Onion(c, n))
<1> DEFINE onion == Onion(c, n)
           len == Len(path[c])
<1>1. /\ Len(onion.layers) = len /\ len \in 1 .. MaxPath
      /\ \A i \in 1 .. len : onion.layers[i].key = <<c, i>>
      /\ onion.body.from = c
  BY OnionType, TypeSplit DEF Onion
<1>2. Entry(c)[1] = c /\ Entry(c)[2] = 0 /\ MaxPath \in Nat
  BY PathAssumption DEF Entry
<1>3. ASSUME NEW m \in 1 .. len
      PROVE  /\ hs[<<c, m>>] \in {"role", "done"}
             /\ told[<<c, m>>] = NoRelay <=> m = len
  <2>1. m \in Hops /\ path[c] # << >> /\ OrderAt(c, m) /\ ToldAt(c, m)
    BY <1>1, <1>2, EmptySeq DEF HopInv, OrderInv, ToldInv, Hops
  <2>2. hs[<<c, m>>] \in {"role", "done"}
    BY <1>1, <2>1 DEF OrderAt, Hops
  <2>3. told[<<c, m>>] = NextHop(c, m)
    BY <1>1, <2>1, <2>2 DEF ToldAt
  <2>4. m < len => path[c][m + 1] \in Relays
    BY <1>1, <1>2, OnPath DEF Types
  <2> QED
    BY <1>1, <2>2, <2>3, <2>4, NoValueAssumption DEF NextHop
<1> HIDE DEF onion, len
<1>4. \A m \in 1 .. len : Entry(c)[2] + m = m
  BY <1>1, <1>2
<1> QED
  BY <1>1, <1>2, <1>3, <1>4 DEF OnionAt, onion

\* A relay passes an onion on to where the rest of it belongs.
LEMMA OnionForwarded ==
    ASSUME Types, IInv, NEW l \in Links, Forward(l)
    PROVE  OnionAt(bound[l], Peel(Head(fwd[l])))
<1> DEFINE onion == Head(fwd[l])
           k == bound[l]
<1>1. /\ onion \in Onions /\ OnionAt(l, onion) /\ Len(onion.layers) > 0
      /\ k \in Keys /\ onion.layers[1].key = k /\ Len(onion.layers) \in Nat
  BY TakenType, LenProperties DEF Forward, IInv, Onions
<1>2. /\ Peel(onion).body = onion.body
      /\ Len(Peel(onion).layers) = Len(onion.layers) - 1
      /\ \A m \in 1 .. Len(onion.layers) - 1 : Peel(onion).layers[m] = onion.layers[m + 1]
  BY <1>1, PeelType
<1>3. role[k] = "relay"
  BY DEF Forward
<1> HIDE DEF onion, k
<1>4. /\ onion.body.from = l[1]
      /\ \A m \in 1 .. Len(onion.layers) :
           /\ onion.layers[m].key = <<l[1], l[2] + m>>
           /\ hs[<<l[1], l[2] + m>>] \in {"role", "done"}
           /\ told[<<l[1], l[2] + m>>] = NoRelay <=> m = Len(onion.layers)
  BY <1>1 DEF OnionAt
<1>5. k = <<l[1], l[2] + 1>> /\ l[2] \in Nat /\ 1 \in 1 .. Len(onion.layers)
  <2>1. 1 \in 1 .. Len(onion.layers)
    BY <1>1
  <2>2. onion.layers[1].key = <<l[1], l[2] + 1>>
    BY <1>4, <2>1
  <2>3. l[2] \in Nat
    BY ConstantFacts
  <2> QED
    BY <1>1, <2>1, <2>2, <2>3
<1>6. told[k] # NoRelay
  BY <1>1, <1>3 DEF IInv, HopInv, HandshakeInv, HandshakeAt
<1>7. Len(onion.layers) - 1 > 0
  BY <1>1, <1>4, <1>5, <1>6
<1>8. ASSUME NEW m \in 1 .. Len(onion.layers) - 1
      PROVE  <<k[1], k[2] + m>> = <<l[1], l[2] + (m + 1)>> /\ m + 1 \in 1 .. Len(onion.layers)
  <2>1. k[1] = l[1] /\ k[2] = l[2] + 1
    BY <1>5
  <2>2. m \in Nat /\ m + 1 \in 1 .. Len(onion.layers)
    BY <1>1
  <2>3. l[2] \in Nat
    BY <1>5
  <2>4. k[2] + m = l[2] + (m + 1)
    BY <2>1, <2>2, <2>3
  <2> QED
    BY <2>1, <2>2, <2>4
<1>9. ASSUME NEW m \in 1 .. Len(onion.layers) - 1
      PROVE  /\ Peel(onion).layers[m].key = <<k[1], k[2] + m>>
             /\ hs[<<k[1], k[2] + m>>] \in {"role", "done"}
             /\ told[<<k[1], k[2] + m>>] = NoRelay <=> m = Len(onion.layers) - 1
  <2>1. /\ m + 1 \in 1 .. Len(onion.layers)
        /\ <<k[1], k[2] + m>> = <<l[1], l[2] + (m + 1)>>
        /\ Peel(onion).layers[m] = onion.layers[m + 1]
    BY <1>2, <1>8
  <2>2. m + 1 = Len(onion.layers) <=> m = Len(onion.layers) - 1
    BY <1>1
  <2> QED
    BY <1>4, <2>1, <2>2
<1>10. Peel(onion).body.from = k[1]
  BY <1>2, <1>4, <1>5
<1>11. OnionAt(k, Peel(onion))
  BY <1>2, <1>7, <1>9, <1>10 DEF OnionAt
<1> QED
  BY <1>11 DEF onion, k

\* Every onion of the next state was there before, or belongs where it is.
LEMMA OnionsMove ==
    ASSUME Types, IInv, [Next]_vars, NEW l \in Links, NEW j \in 1 .. Len(fwd'[l])
    PROVE  \/ \E i \in 1 .. Len(fwd[l]) : fwd'[l][j] = fwd[l][i]
           \/ OnionAt(l, fwd'[l][j])
<1> DEFINE Stays == \E i \in 1 .. Len(fwd[l]) : fwd'[l][j] = fwd[l][i]
<1>0. fwd \in [Links -> Seq(Onions)]
  BY DEF Types, NetType
<1>1. fwd'[l] = fwd[l] => Stays
  OBVIOUS
<1>2. ASSUME NEW m \in Links, Takes(m),
             fwd'[l] = Received(m)[l]
      PROVE  Stays
  <2>1. CASE l = m
    <3>1. fwd'[l] = Tail(fwd[l]) /\ fwd[l] \in Seq(Onions) /\ fwd[l] # << >>
      BY <1>0, <1>2, <2>1 DEF Received, Takes
    <3>2. /\ Len(fwd[l]) \in Nat /\ Len(fwd'[l]) = Len(fwd[l]) - 1
          /\ fwd'[l][j] = fwd[l][j + 1]
      BY <3>1, HeadTailProperties, LenProperties
    <3>3. j + 1 \in 1 .. Len(fwd[l])
      BY <3>2
    <3> QED
      BY <3>2, <3>3
  <2>2. CASE l # m
    BY <1>0, <1>1, <1>2, <2>2 DEF Received
  <2> QED
    BY <2>1, <2>2
<1>3. ASSUME NEW c \in Clients, ClientSend(c) PROVE Stays \/ OnionAt(l, fwd'[l][j])
  <2>1. CASE l # Entry(c) \/ fwd' = fwd
    BY <1>0, <1>1, <1>3, <2>1 DEF ClientSend
  <2>2. CASE l = Entry(c) /\ fwd' # fwd
    <3> DEFINE onion == Onion(c, sent[c] + 1)
    <3>1. cpc[c] = "ready" /\ sent[c] + 1 \in Nat /\ fwd[l] \in Seq(Onions)
      BY <1>0, <1>3 DEF ClientSend, Types, UserType
    <3>2. onion \in Onions /\ OnionAt(l, onion)
      BY <2>2, <3>1, OnionType, OnionSent, TypeSplit DEF IInv
    <3> HIDE DEF onion
    <3>3. fwd'[l] = Append(fwd[l], onion)
      BY <1>0, <1>3, <2>2 DEF ClientSend, onion
    <3>4. /\ Len(fwd[l]) \in Nat /\ Len(fwd'[l]) = Len(fwd[l]) + 1
          /\ \A i \in 1 .. Len(fwd[l]) : fwd'[l][i] = fwd[l][i]
          /\ fwd'[l][Len(fwd[l]) + 1] = onion
      BY <3>1, <3>2, <3>3, AppendProperties, LenProperties
    <3> QED
      BY <3>2, <3>4
  <2> QED
    BY <2>1, <2>2
<1>4. ASSUME NEW c \in Clients, ConnectEntry(c) PROVE Stays
  <2>1. fwd'[l] = fwd[l] \/ fwd'[l] = << >>
    BY <1>0, <1>4 DEF ConnectEntry
  <2> QED
    BY <1>1, <2>1, EmptySeq
<1>5. ASSUME NEW m \in Links, DecryptFails(m) \/ Deliver(m) PROVE Stays
  BY <1>2, <1>5 DEF DecryptFails, Deliver
<1>6. ASSUME NEW m \in Links, Forward(m) PROVE Stays \/ OnionAt(l, fwd'[l][j])
  <2> DEFINE onion == Peel(Head(fwd[m]))
  <2>1. /\ Received(m) \in [Links -> Seq(Onions)] /\ onion \in Onions /\ Takes(m)
        /\ bound[m] \in Links /\ OnionAt(bound[m], onion)
    BY <1>6, TakenType, PeelType, OnionForwarded, ConstantFacts DEF Forward, IInv
  <2> HIDE DEF onion
  <2>2. CASE fwd'[l] = Received(m)[l]
    BY <1>2, <2>1, <2>2
  <2>3. CASE fwd'[l] # Received(m)[l]
    <3>1. l = bound[m] /\ fwd'[l] = Append(Received(m)[l], onion)
      BY <1>6, <2>1, <2>3 DEF Forward, onion
    <3>2. Received(m)[l] \in Seq(Onions) /\ Received(m)[l] = IF l = m THEN Tail(fwd[l]) ELSE fwd[l]
      BY <1>0, <2>1 DEF Received
    <3>3. /\ Len(Received(m)[l]) \in Nat /\ Len(fwd'[l]) = Len(Received(m)[l]) + 1
          /\ \A i \in 1 .. Len(Received(m)[l]) : fwd'[l][i] = Received(m)[l][i]
          /\ fwd'[l][Len(Received(m)[l]) + 1] = onion
      BY <3>1, <3>2, <2>1, AppendProperties, LenProperties
    <3>4. l # m
      <4>1. bound[m] = <<m[1], m[2] + 1>>
        <5>1. /\ OnionAt(m, Head(fwd[m])) /\ Len(Head(fwd[m]).layers) > 0
              /\ Head(fwd[m]).layers[1].key = bound[m] /\ Len(Head(fwd[m]).layers) \in Nat
          BY <1>6, TakenType, LenProperties DEF Forward, IInv, Onions
        <5>2. 1 \in 1 .. Len(Head(fwd[m]).layers)
          BY <5>1
        <5>3. Head(fwd[m]).layers[1].key = <<m[1], m[2] + 1>>
          BY <5>1, <5>2 DEF OnionAt
        <5> QED
          BY <5>1, <5>3
      <4> QED
        BY <3>1, <4>1 DEF Links
    <3>5. Received(m)[l] = fwd[l]
      BY <3>2, <3>4
    <3> QED
      BY <2>1, <3>1, <3>3, <3>5
  <2> QED
    BY <2>2, <2>3
<1>7. ASSUME NEW c \in Clients,
             PathDesign(c) \/ Connect(c) \/ ReceiveId(c) \/ HandshakeBroken(c) \/ ClientReceive(c)
      PROVE  fwd' = fwd
  BY <1>7 DEF PathDesign, Connect, ReceiveId, HandshakeBroken, ClientReceive, netVars
<1>8. ASSUME NEW k \in Keys, HandshakeStep(k) PROVE fwd' = fwd
  BY <1>8 DEF HandshakeStep, AcceptKey, AcceptRole, netVars
<1>9. ASSUME NEW m \in Links, BindUnknown(m) \/ Bind(m) \/ BindFails(m) \/ ListenerStep(m)
      PROVE  fwd' = fwd
  BY <1>9 DEF BindUnknown, Bind, BindFails, ListenerStep, HostAnswer, Backward, Report, netVars
<1>10. ASSUME NEW r \in Relays, Crash(r) PROVE fwd' = fwd
  BY <1>10 DEF Crash, netVars
<1>11. CASE UNCHANGED vars
  BY <1>1, <1>11 DEF vars, netVars
<1> QED
  BY <1>1, <1>3, <1>4, <1>5, <1>6, <1>7, <1>8, <1>9, <1>10, <1>11
     DEF Next, ClientStep, HandlerStep

LEMMA OnionStep ==
    ASSUME Types, IInv, [Next]_vars, Types'
    PROVE  OnionInv'
<1> SUFFICES ASSUME NEW l \in Links, NEW j \in 1 .. Len(fwd'[l])
             PROVE  OnionAt(l, fwd[l][j])'
  BY DEF OnionInv
<1>1. \A k \in Keys : Told(k) => Told(k)' /\ told'[k] = told[k]
  BY ToldForGood DEF IInv
<1>2. fwd'[l][j] \in Onions
  <2>1. fwd'[l] \in Seq(Onions)
    BY DEF Types, NetType
  <2> QED
    BY <2>1, ElementOfSeq
<1>3. OnionAt(l, fwd'[l][j])
  BY OnionsMove DEF IInv, OnionInv
<1>4. PICK onion \in Onions : onion = fwd'[l][j] /\ OnionAt(l, onion)
  BY <1>2, <1>3
<1>5. OnionAt(l, onion)'
  BY <1>1, <1>4, OnionStays
<1> QED
  BY <1>4, <1>5 DEF OnionAt

-----------------------------------------------------------------------------
(* Conversations. *)

\* A conversation has its relay and its identifier before it is deleted.
ConvAt(k) ==
    /\ hs[k] # "none" => at[k] \in Relays
    /\ hs[k] \in {"none", "key"} => convId[k] = NoId /\ role[k] = "unset"
    /\ hs[k] \in {"id", "role", "done"} => convId[k] \in Ids
ConvInv == \A k \in Keys : ConvAt(k)
MapInv == ConvInv /\ MapFindsConversations

mapVars == <<at, hs, convId, role, convMap>>

\* A conversation that has its own identifier is where the map leads.
LEMMA MapUnique ==
    ASSUME Types, MapInv, NEW k \in Keys, convId[k] # NoId, role[k] # "freed", ~ Collided(k)
    PROVE  convMap[at[k]][convId[k]] = k
  BY DEF MapInv, MapFindsConversations

\* Two different conversations in one place have collided.
LEMMA CollidedPair ==
    ASSUME NEW k \in Keys, NEW j \in Keys, j # k, at[j] = at[k], convId[j] = convId[k],
           convId[k] # NoId
    PROVE  Collided(k)
  BY DEF Collided

LEMMA MapFrame ==
    ASSUME MapInv, UNCHANGED <<at, convId, convMap>>,
           \A k \in Keys : /\ hs'[k] = hs[k] \/ (hs[k] = "id" /\ hs'[k] = "role")
                                             \/ (hs[k] = "role" /\ hs'[k] = "done")
                           /\ role'[k] = "freed" <=> role[k] = "freed"
                           /\ role'[k] = role[k] \/ hs[k] = "role",
           Types
    PROVE  MapInv'
<1>1. ConvInv'
  <2> SUFFICES ASSUME NEW k \in Keys PROVE ConvAt(k)'
    BY DEF ConvInv
  <2>1. ConvAt(k)
    BY DEF MapInv, ConvInv
  <2> QED
    BY <2>1 DEF ConvAt
<1>2. \A k \in Keys : Collided(k)' <=> Collided(k)
  BY DEF Collided
<1>3. \A k \in Keys : convId[k] # NoId /\ role'[k] # "freed" /\ ~ Collided(k)
                         => convMap[at[k]][convId[k]] = k
  BY DEF MapInv, MapFindsConversations
<1>4. \A r \in Relays, id \in Ids : convMap[r][id] # NoKey =>
          /\ convMap[r][id] \in Keys
          /\ at[convMap[r][id]] = r /\ convId[convMap[r][id]] = id
          /\ role'[convMap[r][id]] # "freed"
  BY DEF MapInv, MapFindsConversations, Types, ConvType
<1> QED
  BY <1>1, <1>2, <1>3, <1>4 DEF MapInv, MapFindsConversations

\* The handshake with the next hop begins: its conversation is not there yet.
LEMMA MapConnect ==
    ASSUME Types, HopInv, MapInv, NEW c \in Clients, Connect(c), UNCHANGED path
    PROVE  MapInv'
<1> DEFINE k == <<c, hop[c]>>
<1>1. k \in Keys /\ hop[c] \in Hops /\ cpc[c] = "connect" /\ path[c] # << >>
  BY OnPath, ConstantFacts, EmptySeq DEF Connect, Types, HopInv, PathInv, PathAt
<1>2. hs[k] = "none"
  BY <1>1 DEF HopInv, OrderInv, OrderAt, Types, ClientType, Hops
<1>3. path[c][hop[c]] \in Relays
  <2>1. hop[c] \in 1 .. Len(path[c])
    BY <1>1, PathAssumption DEF HopInv, PathInv, PathAt, Hops, Types, ClientType
  <2> QED
    BY <1>1, <2>1 DEF Types, ClientType
<1>4. CASE UNCHANGED <<at, hs>>
  BY <1>4, MapFrame DEF Connect, convVars
<1>5. CASE at' = [at EXCEPT ![k] = path[c][hop[c]]] /\ hs' = [hs EXCEPT ![k] = "key"]
  <2>1. UNCHANGED <<convId, role, convMap>>
    BY DEF Connect, convVars
  <2>2. convId[k] = NoId /\ role[k] = "unset"
    BY <1>1, <1>2 DEF MapInv, ConvInv, ConvAt
  <2> HIDE DEF k
  <2>3. \A j \in Keys : j # k => at'[j] = at[j] /\ hs'[j] = hs[j]
    BY <1>5 DEF Types, HsType
  <2>4. at'[k] \in Relays /\ hs'[k] = "key"
    BY <1>1, <1>3, <1>5 DEF Types, HsType
  <2>5. ConvInv'
    <3> SUFFICES ASSUME NEW j \in Keys PROVE ConvAt(j)'
      BY DEF ConvInv
    <3>1. ConvAt(j)
      BY DEF MapInv, ConvInv
    <3> QED
      BY <2>1, <2>2, <2>3, <2>4, <3>1 DEF ConvAt
  <2>6. ASSUME NEW j \in Keys, convId[j] # NoId PROVE Collided(j)' <=> Collided(j)
    BY <2>1, <2>2, <2>3, <2>6 DEF Collided
  <2>7. \A j \in Keys : convId[j] # NoId /\ role[j] # "freed" /\ ~ Collided(j)'
                           => convMap[at'[j]][convId[j]] = j
    BY <2>2, <2>3, <2>6 DEF MapInv, MapFindsConversations
  <2>8. ASSUME NEW r \in Relays, NEW id \in Ids, convMap[r][id] # NoKey
        PROVE  /\ convMap[r][id] \in Keys
               /\ at'[convMap[r][id]] = r /\ convId[convMap[r][id]] = id
               /\ role[convMap[r][id]] # "freed"
    <3>1. /\ convMap[r][id] \in Keys
          /\ at[convMap[r][id]] = r /\ convId[convMap[r][id]] = id
          /\ role[convMap[r][id]] # "freed"
      BY <2>8 DEF MapInv, MapFindsConversations, Types, ConvType
    <3>2. convMap[r][id] # k
      BY <2>2, <3>1, NoValueAssumption
    <3> QED
      BY <2>3, <3>1, <3>2
  <2> QED
    BY <2>1, <2>5, <2>7, <2>8 DEF MapInv, MapFindsConversations
<1> QED
  BY <1>4, <1>5 DEF Connect

\* A conversation is made; it gets into the map if its identifier is free.
LEMMA MapAcceptKey ==
    ASSUME Types, MapInv, NEW k \in Keys, AcceptKey(k)
    PROVE  MapInv'
<1>1. PICK id \in Ids : /\ convId' = [convId EXCEPT ![k] = id]
                        /\ convMap' = [convMap EXCEPT ![at[k]] = Inserted(@, id, k)]
  BY DEF AcceptKey
<1>2. hs[k] = "key" /\ hs' = [hs EXCEPT ![k] = "id"] /\ UNCHANGED <<at, role>>
  BY DEF AcceptKey
<1>3. convId[k] = NoId /\ role[k] = "unset" /\ at[k] \in Relays
  BY <1>2 DEF MapInv, ConvInv, ConvAt
<1>4. \A j \in Keys : convId'[j] = (IF j = k THEN id ELSE convId[j])
  BY <1>1 DEF Types, ConvType
<1>5. \A r \in Relays, i \in Ids :
          convMap'[r][i] = (IF r = at[k] /\ i = id /\ convMap[r][i] = NoKey
                            THEN k ELSE convMap[r][i])
  BY <1>1, <1>3 DEF Types, ConvType, Inserted
<1>6. \A r \in Relays, i \in Ids : convMap[r][i] # NoKey =>
          /\ convMap[r][i] \in Keys
          /\ at[convMap[r][i]] = r /\ convId[convMap[r][i]] = i
          /\ role[convMap[r][i]] # "freed"
  BY DEF MapInv, MapFindsConversations, Types, ConvType
<1>7. ConvInv'
  <2> SUFFICES ASSUME NEW j \in Keys PROVE ConvAt(j)'
    BY DEF ConvInv
  <2>1. ConvAt(j) /\ hs'[j] = (IF j = k THEN "id" ELSE hs[j])
    BY <1>2 DEF MapInv, ConvInv, Types, HsType
  <2> QED
    BY <1>2, <1>3, <1>4, <2>1 DEF ConvAt
<1>8. ASSUME NEW j \in Keys, convId'[j] # NoId, role[j] # "freed", ~ Collided(j)'
      PROVE  convMap'[at[j]][convId'[j]] = j
  <2>1. \A i \in Keys : i # j => ~ (at[i] = at[j] /\ convId'[i] = convId'[j])
    BY <1>2, <1>8 DEF Collided
  <2>2. CASE j = k
    <3>1. convMap[at[k]][id] # NoKey => convMap[at[k]][id] # k
      BY <1>3, <1>6, NoValueAssumption
    <3>2. convMap[at[k]][id] = NoKey
      BY <1>3, <1>4, <1>6, <2>1, <2>2, <3>1
    <3> QED
      BY <1>3, <1>4, <1>5, <2>2, <3>2
  <2>3. CASE j # k
    <3>1. convId[j] = convId'[j] /\ convId[j] \in Ids /\ at[j] \in Relays
      BY <1>4, <1>8, <2>3 DEF MapInv, ConvInv, ConvAt, Types, ConvType, HsType
    <3>2. ~ Collided(j)
      BY <1>3, <1>4, <2>1, <3>1, <1>8 DEF Collided
    <3>3. convMap[at[j]][convId[j]] = j
      BY <1>8, <3>1, <3>2, MapUnique
    <3> QED
      BY <1>5, <3>1, <3>3, NoValueAssumption
  <2> QED
    BY <2>2, <2>3
<1>9. ASSUME NEW r \in Relays, NEW i \in Ids, convMap'[r][i] # NoKey
      PROVE  /\ at[convMap'[r][i]] = r /\ convId'[convMap'[r][i]] = i
             /\ role[convMap'[r][i]] # "freed"
  <2>1. CASE convMap[r][i] = NoKey
    BY <1>3, <1>4, <1>5, <1>9, <2>1
  <2>2. CASE convMap[r][i] # NoKey
    <3>1. convMap'[r][i] = convMap[r][i] /\ convMap[r][i] # k
      BY <1>3, <1>5, <1>6, <2>2, NoValueAssumption
    <3> QED
      BY <1>4, <1>6, <2>2, <3>1
  <2> QED
    BY <2>1, <2>2
<1> QED
  BY <1>2, <1>7, <1>8, <1>9 DEF MapInv, MapFindsConversations

\* A conversation is erased under its identifier and deleted.
LEMMA MapBindFails ==
    ASSUME Types, LinkInv, OnionInv, MapInv, NEW l \in Links, BindFails(l)
    PROVE  MapInv'
<1> DEFINE k == Addressed(l)
           id == Outer(Head(fwd[l])).id
<1>1. /\ k # NoKey /\ UNCHANGED <<at, hs, convId>> /\ role' = [role EXCEPT ![k] = "freed"]
      /\ convMap' = [convMap EXCEPT ![at[k]] = Erased(@, convId[k])]
      /\ role[k] \in {"unset", "relay"}
  BY DEF BindFails, hsVars
<1>2. k \in Keys
  BY <1>1, AddressedType DEF BindFails, FirstMessage
<1>3. LinkTo(l) \in Relays /\ id \in Ids
  BY AddressedType DEF BindFails, FirstMessage, LinkInv, LinkAt
<1>4. at[k] = LinkTo(l) /\ convId[k] = id /\ k = convMap[LinkTo(l)][id]
  BY <1>1, <1>3, SMTT(20) DEF MapInv, MapFindsConversations, Addressed
<1> HIDE DEF k, id
<1>5. \A r \in Relays, i \in Ids :
          convMap'[r][i] = (IF r = at[k] /\ i = convId[k] THEN NoKey ELSE convMap[r][i])
  BY <1>1, <1>3, <1>4 DEF Types, ConvType, Erased
<1>6. \A j \in Keys : role'[j] = (IF j = k THEN "freed" ELSE role[j])
  BY <1>1 DEF Types, ConvType
<1>7. ConvInv'
  <2> SUFFICES ASSUME NEW j \in Keys PROVE ConvAt(j)'
    BY DEF ConvInv
  <2>1. ConvAt(j)
    BY DEF MapInv, ConvInv
  <2>2. convId[k] # NoId
    BY <1>3, <1>4, NoValueAssumption
  <2> QED
    BY <1>1, <1>6, <2>1, <2>2 DEF ConvAt
<1>8. ASSUME NEW j \in Keys, convId[j] # NoId, role'[j] # "freed", ~ Collided(j)
      PROVE  convMap'[at[j]][convId[j]] = j
  <2>1. j # k /\ role[j] # "freed"
    BY <1>6, <1>8
  <2>2. convMap[at[j]][convId[j]] = j
    BY <1>8, <2>1, MapUnique
  <2>3. at[j] \in Relays /\ convId[j] \in Ids
    BY <1>8 DEF MapInv, ConvInv, ConvAt, Types, ConvType, HsType
  <2> QED
    BY <1>4, <1>5, <2>1, <2>2, <2>3
<1>9. ASSUME NEW r \in Relays, NEW i \in Ids, convMap'[r][i] # NoKey
      PROVE  /\ at[convMap'[r][i]] = r /\ convId[convMap'[r][i]] = i
             /\ role'[convMap'[r][i]] # "freed"
  <2>1. convMap'[r][i] = convMap[r][i] /\ ~ (r = at[k] /\ i = convId[k])
    BY <1>5, <1>9
  <2>2. /\ convMap[r][i] \in Keys /\ at[convMap[r][i]] = r /\ convId[convMap[r][i]] = i
        /\ role[convMap[r][i]] # "freed"
    BY <1>9, <2>1 DEF MapInv, MapFindsConversations, Types, ConvType
  <2> QED
    BY <1>6, <2>1, <2>2
<1>10. \A j \in Keys : Collided(j)' <=> Collided(j)
  BY <1>1 DEF Collided
<1> QED
  BY <1>1, <1>7, <1>8, <1>9, <1>10 DEF MapInv, MapFindsConversations

LEMMA MapStep ==
    ASSUME Types, IInv, MapInv, [Next]_vars
    PROVE  MapInv'
<1>0. HopInv /\ LinkInv /\ OnionInv
  BY DEF IInv
<1>a. UNCHANGED mapVars => MapInv'
  BY MapFrame DEF mapVars
<1>1. ASSUME NEW c \in Clients, PathDesign(c) \/ ClientSend(c) \/ HandshakeBroken(c)
                                \/ ConnectEntry(c) \/ ClientReceive(c)
      PROVE  MapInv'
  BY <1>1, <1>a DEF PathDesign, ClientSend, HandshakeBroken, ConnectEntry, ClientReceive,
                    mapVars, hsVars, convVars
<1>2. ASSUME NEW c \in Clients, Connect(c) PROVE MapInv'
  <2>1. CASE UNCHANGED path
    BY <1>0, <1>2, <2>1, MapConnect
  <2>2. CASE UNCHANGED <<at, hs>>
    BY <1>2, <1>a, <2>2 DEF Connect, convVars, mapVars
  <2> QED
    BY <1>2, <2>1, <2>2 DEF Connect
<1>3. ASSUME NEW c \in Clients, ReceiveId(c) PROVE MapInv'
  <2>1. UNCHANGED <<at, convId, convMap, role>>
    BY <1>3 DEF ReceiveId, convVars
  <2>2. \A k \in Keys : hs'[k] = hs[k] \/ (hs[k] = "id" /\ hs'[k] = "role")
    BY <1>3 DEF ReceiveId, Types, HsType
  <2> QED
    BY <2>1, <2>2, MapFrame
<1>4. ASSUME NEW k \in Keys, AcceptKey(k) PROVE MapInv'
  BY <1>4, MapAcceptKey
<1>5. ASSUME NEW k \in Keys, AcceptRole(k) PROVE MapInv'
  <2>1. UNCHANGED <<at, convId, convMap>>
    BY <1>5 DEF AcceptRole
  <2>2. \A j \in Keys : /\ hs'[j] = hs[j] \/ (hs[j] = "role" /\ hs'[j] = "done")
                        /\ role'[j] = "freed" <=> role[j] = "freed"
                        /\ role'[j] = role[j] \/ hs[j] = "role"
    BY <1>5 DEF AcceptRole, Types, HsType, ConvType
  <2> QED
    BY <2>1, <2>2, MapFrame
<1>6. ASSUME NEW l \in Links, HandlerStep(l) PROVE MapInv'
  <2>1. CASE BindFails(l)
    BY <1>0, <2>1, MapBindFails
  <2>2. CASE ~ BindFails(l)
    BY <1>6, <1>a, <2>2 DEF HandlerStep, BindUnknown, Bind, DecryptFails, Forward, Deliver,
                            mapVars, hsVars, convVars
  <2> QED
    BY <2>1, <2>2
<1>7. ASSUME NEW l \in Links, ListenerStep(l) PROVE MapInv'
  BY <1>7, <1>a DEF ListenerStep, HostAnswer, Backward, Report, mapVars, hsVars, convVars
<1>8. ASSUME NEW r \in Relays, Crash(r) PROVE MapInv'
  BY <1>8, <1>a DEF Crash, mapVars, hsVars, convVars
<1>9. CASE UNCHANGED vars
  BY <1>9, <1>a DEF vars, mapVars, hsVars, convVars
<1> QED
  BY <1>1, <1>2, <1>3, <1>4, <1>5, <1>6, <1>7, <1>8, <1>9
     DEF Next, ClientStep, HandshakeStep

-----------------------------------------------------------------------------
(* Theorems. *)

LEMMA InitEstablishes == Init => Types /\ IInv
<1> SUFFICES ASSUME Init PROVE Types /\ IInv
  OBVIOUS
<1>1. \A S : << >> \in Seq(S)
  BY EmptySeq
<1>2. ClientType /\ RelayType /\ HsType
  BY <1>1, PathAssumption DEF Init, ClientType, RelayType, HsType, Hops
<1>3. ConvType /\ ThreadType
  BY DEF Init, ConvType, ThreadType
<1>4. NetType
  <2>1. link \in [Links -> {"none", "open", "broken", "closed"}]
    BY DEF Init
  <2>2. fwd \in [Links -> Seq(Onions)]
    BY <1>1 DEF Init
  <2>3. back \in [Links -> Seq(Answers)] /\ host \in [Keys -> Seq(Body)]
    BY <1>1 DEF Init
  <2> QED
    BY <2>1, <2>2, <2>3 DEF NetType
<1>5. UserType
  <2>1. sent \in [Clients -> Nat] /\ warned \in [Clients -> BOOLEAN]
    BY DEF Init
  <2>2. delivered \in [Clients -> Seq(Nat)] /\ shown \in [Clients -> Seq(Body)]
    BY <1>1 DEF Init
  <2> QED
    BY <2>1, <2>2 DEF UserType
<1>6. Len(<< >>) = 0
  BY EmptySeq
<1>7. HopInv
  <2>1. PathInv
    BY DEF Init, PathInv, PathAt
  <2>2. OrderInv
    <3> SUFFICES ASSUME NEW c \in Clients, NEW i \in Hops PROVE OrderAt(c, i)
      BY DEF OrderInv
    <3>1. <<c, i>> \in Keys
      BY DEF Keys
    <3> QED
      BY <3>1 DEF Init, OrderAt
  <2>3. HandshakeInv
    BY DEF Init, HandshakeInv, HandshakeAt
  <2>4. ToldInv
    BY <1>6 DEF Init, ToldInv, ToldAt, Hops
  <2> QED
    BY <2>1, <2>2, <2>3, <2>4 DEF HopInv
<1>8. LinkInv
  BY DEF Init, LinkInv, LinkAt
<1>9. OnionInv
  BY <1>6 DEF Init, OnionInv
<1> QED
  BY <1>2, <1>3, <1>4, <1>5, <1>7, <1>8, <1>9 DEF Types, IInv

\* The inductive invariant holds throughout.
LEMMA Inductive == Spec => [](Types /\ IInv)
<1>1. Types /\ IInv /\ [Next]_vars => (Types /\ IInv)'
  <2> SUFFICES ASSUME Types, IInv, [Next]_vars PROVE Types' /\ IInv'
    OBVIOUS
  <2>1. Types'
    BY TypeStep
  <2>2. HopInv' /\ LinkInv'
    BY HopStep, LinkStep DEF IInv
  <2>3. OnionInv'
    BY <2>1, OnionStep
  <2> QED
    BY <2>1, <2>2, <2>3 DEF IInv
<1> QED
  BY <1>1, InitEstablishes, PTL DEF Spec

\* Every variable holds what its declaration in the code allows.
THEOREM TypeCorrect == Spec => []TypeOK
<1>1. Types => TypeOK
  BY TypeSplit
<1> QED
  BY <1>1, Inductive, PTL

\* What a client recorded of a hop is what the relay of that hop stored: the same
\* identifier and, once the relay knows its place, the next relay of the path.
THEOREM HandshakesAgree == Spec => []HopsAgree
<1>1. Types /\ IInv => HopsAgree
  <2> SUFFICES ASSUME Types, IInv, NEW c \in Clients, NEW i \in 1 .. Len(path[c]),
                      hopId[<<c, i>>] # NoId
               PROVE  /\ at[<<c, i>>] = path[c][i]
                      /\ hopId[<<c, i>>] = convId[<<c, i>>]
                      /\ role[<<c, i>>] = "exit"  => i = Len(path[c])
                      /\ role[<<c, i>>] = "relay" =>
                            i < Len(path[c]) /\ nxt[<<c, i>>] = path[c][i + 1]
    BY DEF HopsAgree
  <2>1. path[c] # << >>
    BY EmptySeq
  <2>2. cpc[c] \notin {"idle", "stopped"}
    BY <2>1 DEF IInv, HopInv, PathInv, PathAt
  <2>3. /\ Len(path[c]) \in Nat /\ Len(path[c]) <= MaxPath
        /\ \A j \in 1 .. Len(path[c]) : path[c][j] \in Relays /\ <<c, j>> \in Keys
    BY <2>2, OnPath, PathAssumption DEF Types, IInv, Hops
  <2>4. i \in Hops /\ <<c, i>> \in Keys /\ i <= Len(path[c])
    BY <2>3, PathAssumption DEF Hops
  <2>5. HandshakeAt(<<c, i>>) /\ ToldAt(c, i)
    BY <2>4 DEF IInv, HopInv, HandshakeInv, ToldInv
  <2>6. hs[<<c, i>>] \in {"role", "done"} /\ hopId[<<c, i>>] = convId[<<c, i>>]
    BY <2>5 DEF HandshakeAt
  <2>7. at[<<c, i>>] = path[c][i] /\ told[<<c, i>>] = NextHop(c, i)
    BY <2>4, <2>5, <2>6 DEF ToldAt
  <2>8. i < Len(path[c]) => path[c][i + 1] \in Relays
    <3>1. i < Len(path[c]) => i + 1 \in 1 .. Len(path[c])
      BY <2>3
    <3> QED
      BY <2>3, <3>1
  <2>9. role[<<c, i>>] = "exit" => i = Len(path[c])
    BY <2>3, <2>4, <2>5, <2>7, <2>8, NoValueAssumption DEF HandshakeAt, NextHop
  <2>10. role[<<c, i>>] = "relay" => i < Len(path[c]) /\ nxt[<<c, i>>] = path[c][i + 1]
    BY <2>5, <2>7 DEF HandshakeAt, NextHop
  <2> QED
    BY <2>6, <2>7, <2>9, <2>10
<1> QED
  BY <1>1, Inductive, PTL

\* No relay ever forwards an onion that is not for it: the connection out of hop
\* i carries onions of its own circuit, with the layers of the hops behind it.
THEOREM OnionsKeepPlace == Spec => []OnionsInPlace
<1>1. Types /\ IInv => OnionsInPlace
  <2> SUFFICES ASSUME Types, IInv, NEW l \in Links, NEW j \in 1 .. Len(fwd[l])
               PROVE  /\ fwd[l][j].body.from = l[1]
                      /\ \A m \in 1 .. Len(fwd[l][j].layers) :
                            fwd[l][j].layers[m].key = <<l[1], l[2] + m>>
                      /\ Len(fwd[l][j].layers) > 0
                      /\ path[l[1]] # << >> =>
                            Len(fwd[l][j].layers) = Len(path[l[1]]) - l[2]
    BY DEF OnionsInPlace
  <2> DEFINE onion == fwd[l][j]
             len == Len(onion.layers)
             c == l[1]
  <2>1. OnionAt(l, onion)
    BY DEF IInv, OnionInv
  <2>2. onion \in Onions
    <3>1. fwd[l] \in Seq(Onions)
      BY DEF Types, NetType
    <3> QED
      BY <3>1, ElementOfSeq
  <2>3. c \in Clients /\ l[2] \in Nat
    BY ConstantFacts
  <2>4. ASSUME path[c] # << >> PROVE len = Len(path[c]) - l[2]
    <3> DEFINE i == l[2] + len
    <3>1. len \in Nat /\ len > 0 /\ onion.layers[len] \in Layer
      BY <2>1, <2>2, ElementOfSeq, LenProperties DEF OnionAt, Onions
    <3>2. /\ onion.layers[len].key = <<c, i>>
          /\ hs[<<c, i>>] \in {"role", "done"} /\ told[<<c, i>>] = NoRelay
      BY <2>1, <3>1 DEF OnionAt
    <3>3. i \in Hops
      BY <3>1, <3>2 DEF Layer, Keys
    <3>4. OrderAt(c, i) /\ ToldAt(c, i) /\ PathAt(c)
      BY <2>3, <3>3 DEF IInv, HopInv, OrderInv, ToldInv, PathInv
    <3>5. /\ hop[c] \in Nat /\ Len(path[c]) \in Nat
          /\ \A n \in 1 .. Len(path[c]) : path[c][n] \in Relays
      BY <2>3, <2>4, <3>4, OnPath DEF PathAt, Types, IInv, Hops
    <3>6. i \in Nat /\ i <= hop[c] /\ i <= Len(path[c])
      <4>1. i \in Nat
        BY <2>3, <3>1
      <4> HIDE DEF i
      <4>2. ~ (i > hop[c]) /\ hop[c] <= Len(path[c])
        BY <2>4, <3>2, <3>4 DEF OrderAt, PathAt
      <4> QED
        BY <3>5, <4>1, <4>2
    <3>7. NextHop(c, i) = NoRelay
      BY <3>2, <3>4, <3>6 DEF ToldAt
    <3>8. i < Len(path[c]) => path[c][i + 1] \in Relays
      <4> HIDE DEF i
      <4>1. i \in Nat /\ i > 0
        BY <3>3 DEF Hops
      <4>2. i < Len(path[c]) => i + 1 \in 1 .. Len(path[c])
        BY <3>5, <4>1
      <4> QED
        BY <3>5, <4>2
    <3>9. i = Len(path[c])
      BY <3>5, <3>6, <3>7, <3>8, NoValueAssumption DEF NextHop
    <3> QED
      BY <2>3, <3>1, <3>9
  <2> QED
    BY <2>1, <2>4 DEF OnionAt
<1> QED
  BY <1>1, Inductive, PTL

\* The map of a relay leads to every live conversation whose identifier is its own,
\* and never to a deleted one, whatever the order of handshakes and deletions.
THEOREM MapFinds == Spec => []MapFindsConversations
<1>1. Init => MapInv
  BY NoValueAssumption DEF Init, MapInv, ConvInv, ConvAt, MapFindsConversations
<1>2. Types /\ IInv /\ MapInv /\ [Next]_vars => MapInv'
  BY MapStep
<1>3. MapInv => MapFindsConversations
  BY DEF MapInv
<1> QED
  BY <1>1, <1>2, <1>3, Inductive, PTL DEF Spec
=============================================================================
