---------------------------- MODULE MappingProofs ---------------------------
(***************************************************************************)
(* Proofs about MappingServer, for any peers, names, connections, answer    *)
(* lengths and key pairs: the types, whose answers can be garbled, which    *)
(* registrations can get the same name, what a relay's saved addresses are  *)
(* worth, that lookups and registrations are those of NameService, and      *)
(* which requests the server drops, from what the modular powers of the     *)
(* two programs compute.                                                    *)
(***************************************************************************)
EXTENDS MappingServer, Foundations, TLAPS

-----------------------------------------------------------------------------
(* The inductive invariant. *)

KeyInv == peerKey \in [{"client", "relay"} -> CppKeys]
Key(c) == peerKey[Kind(c)]

\* What the thread of a connection has done so far.
Asking == {"idle", "key", "mod", "request", "refused"}
Answering == {"encrypt", "modulus", "sent", "done"}
ConnInv ==
    \A c \in Conns :
        /\ pc[c] = "idle" => peer[c] = None /\ cipher[c] = << >>
        /\ pc[c] # "idle" => \/ peer[c] \in Clients
                             \/ peer[c] \in Relays /\ wanted[c] \in AllNames
        /\ pc[c] \in Asking => content[c] = None
        /\ pc[c] \in {"put", "encrypt", "modulus", "sent"} => content[c] # None
        /\ content[c] # None /\ peer[c] \in Clients => content[c] \in Names
        /\ content[c] # None /\ peer[c] \in Relays => content[c] \in Addresses \cup {NotFound}
        /\ pc[c] = "put" => peer[c] \in Clients
        /\ pc[c] # "done" => told[c] = Unread
        /\ c \in entered => pc[c] \in Answering /\ peer[c] \in Clients /\ content[c] # None

\* Two connections that are open have met.
Met(c, d) == {c, d} \in met
MetInv ==
    /\ \A c, d \in Conns : c # d /\ Open(c) /\ Open(d) => Met(c, d)
    /\ \A c, d \in Conns : Met(c, d) => pc[c] # "idle" /\ pc[d] # "idle"

\* A name is in the map because it is predefined or was put there.
NameInv ==
    /\ \A u \in Predefined : names[u] = u
    /\ \A u \in AllNames : names[u] # None =>
           u \in Predefined \/ \E d \in entered : content[d] = u /\ peer[d] = names[u]
    /\ \A d \in entered : names[content[d]] # None
    /\ \A c \in Conns : content[c] \in Names /\ pc[c] # "put" /\ c \notin entered => Overlapped(c)

\* What a relay was told of a name is current unless the name was given twice.
Twice(u) == \E c, d \in Conns : c # d /\ content[c] = u /\ content[d] = u
LookInv ==
    \A c \in Conns : peer[c] \in Relays /\ content[c] \in Addresses =>
        content[c] = names[wanted[c]] \/ Twice(wanted[c])

\* The shared handler holds the key of every connection that is open, unless
\* one of the other kind was open at the same time.
Cross(c) == \E d \in Conns : Met(c, d) /\ Kind(d) # Kind(c)
GetsOwnKey(c) ==
    /\ pc[c] \in {"mod", "request", "put", "encrypt", "modulus"} => shared.e = Key(c).e
    /\ pc[c] \in {"request", "put", "encrypt", "modulus"} => shared.n = Key(c).n
    /\ pc[c] = "modulus" => exponent[c] = Key(c).e
    /\ \A i \in 1 .. Len(cipher[c]) :
           cipher[c][i].e = Key(c).e /\ cipher[c][i].n = Key(c).n
SharedInv == \A c \in Conns : ~ Cross(c) => GetsOwnKey(c)

IInv == /\ TypeOK /\ KeyInv /\ ConnInv /\ MetInv /\ NameInv /\ LookInv /\ SharedInv
        /\ SameNameOnlyOnOverlap /\ SavedIsCurrent /\ GarbledOnlyAcrossKinds

-----------------------------------------------------------------------------
(* Keys and types. *)

\* The exponent and the modulus of a key pair are natural numbers.
LEMMA KeyIsNat == ASSUME NEW k \in CppKeys PROVE k.e \in Nat /\ k.n \in Nat
<1>1. PICK x \in PeerDraws : Exponents(Totient(x[1] * x[2])) # {} /\ k = CppKey(x[1], x[2])
  BY DEF CppKeys
<1>2. x[1] \in Nat /\ x[2] \in Nat
  BY DrawAssumption DEF CppPrimes
<1> DEFINE t == Totient(x[1] * x[2])
<1>3. Exponents(t) \subseteq Nat
  <2>1. Exponents(t) \subseteq 2 .. t - 1
    BY Zenon DEF Exponents
  <2> QED
    BY <2>1
<1>4. GenerateE(t) = Min(Exponents(t))
  BY DEF GenerateE, Min
<1>5. GenerateE(t) \in Nat
  BY <1>1, <1>3, <1>4, MinIsLeast
<1>6. k.e = GenerateE(t) /\ k.n = x[1] * x[2]
  BY <1>1 DEF CppKey
<1> QED
  BY <1>2, <1>5, <1>6

LEMMA TypeInit == Init => TypeOK /\ KeyInv /\ ConnInv
<1> SUFFICES ASSUME Init PROVE TypeOK /\ KeyInv /\ ConnInv
  OBVIOUS
<1>1. KeyInv /\ ConnInv
  BY DEF Init, KeyInv, ConnInv
<1>2. names \in [AllNames -> Addresses \cup {None}]
  BY DEF Init, AllNames, Addresses
<1>3. saved \in [Relays -> [AllNames -> Addresses \cup {None}]]
  BY DEF Init
<1>4. shared \in Keys /\ exponent \in [Conns -> Nat] /\ cipher \in [Conns -> Seq(Keys)]
  BY DEF Init, NoKeys, Keys
<1>5. /\ pc \in [Conns -> {"idle", "key", "mod", "request", "refused", "put", "encrypt",
                           "modulus", "sent", "done"}]
      /\ peer \in [Conns -> Peers \cup {None}]
      /\ wanted \in [Conns -> AllNames \cup {None}]
      /\ content \in [Conns -> Names \cup Addresses \cup {NotFound, None}]
      /\ told \in [Conns -> Names \cup Addresses \cup {NotFound, Unread, Garbled, Nothing}]
      /\ entered \subseteq Conns /\ met \subseteq SUBSET Conns
  BY DEF Init
<1> QED
  BY <1>1, <1>2, <1>3, <1>4, <1>5 DEF TypeOK

LEMMA TypeStep == TypeOK /\ KeyInv /\ ConnInv /\ [Next]_vars => TypeOK' /\ KeyInv'
<1> SUFFICES ASSUME TypeOK, KeyInv, ConnInv, [Next]_vars PROVE TypeOK' /\ KeyInv'
  OBVIOUS
<1>0. \A c \in Conns : pc[c] # "idle" => Key(c) \in CppKeys
  BY DEF KeyInv, Key, Kind, KindOf
<1>a. KeyInv'
  BY DEF Next, vars, keyVars, ServerStep, PeerStep, Connect, SetPublicKey, SetModulus, Refuse,
         LookUp, Choose, Put, ReadExponent, EncryptCharacter, PeerReads, PeerGivesUp, KeyInv
<1> USE <1>a, DisjointAssumption DEF TypeOK, Goto, keyVars, connVars
<1>1. ASSUME NEW c \in Conns, Connect(c) PROVE TypeOK'
  <2>1. peer' \in [Conns -> Peers \cup {None}] /\ wanted' \in [Conns -> AllNames \cup {None}]
    <3>1. CASE \E p \in Clients : peer' = [peer EXCEPT ![c] = p] /\ UNCHANGED wanted
      BY <3>1 DEF Peers
    <3>2. CASE \E r \in Relays, u \in AllNames :
                   peer' = [peer EXCEPT ![c] = r] /\ wanted' = [wanted EXCEPT ![c] = u]
      BY <3>2 DEF Peers
    <3> QED
      BY <1>1, <3>1, <3>2 DEF Connect
  <2>2. met' \subseteq SUBSET Conns
    <3> SUFFICES ASSUME NEW m \in met' PROVE m \subseteq Conns
      OBVIOUS
    <3>1. m \in met \/ \E d \in Conns : m = {c, d}
      BY <1>1 DEF Connect
    <3>2. CASE m \in met
      BY <3>2
    <3>3. CASE \E d \in Conns : m = {c, d}
      BY <3>3
    <3> QED
      BY <3>1, <3>2, <3>3
  <2>3. pc' \in [Conns -> {"idle", "key", "mod", "request", "refused", "put", "encrypt",
                           "modulus", "sent", "done"}]
    BY <1>1 DEF Connect
  <2> QED
    BY <1>1, <2>1, <2>2, <2>3 DEF Connect
<1>2. ASSUME NEW c \in Conns, SetPublicKey(c) PROVE TypeOK'
  <2>1. Key(c).e \in Nat
    BY <1>2, <1>0, KeyIsNat DEF SetPublicKey
  <2>2. shared' = [shared EXCEPT !.e = Key(c).e]
    BY <1>2 DEF SetPublicKey, Key
  <2>3. shared' \in Keys
    BY <2>1, <2>2 DEF Keys
  <2> QED
    BY <1>2, <2>3 DEF SetPublicKey
<1>3. ASSUME NEW c \in Conns, SetModulus(c) PROVE TypeOK'
  <2>1. Key(c).n \in Nat
    BY <1>3, <1>0, KeyIsNat DEF SetModulus
  <2>2. shared' = [shared EXCEPT !.n = Key(c).n]
    BY <1>3 DEF SetModulus, Key
  <2>3. shared' \in Keys
    BY <2>1, <2>2 DEF Keys
  <2> QED
    BY <1>3, <2>3 DEF SetModulus
<1>4. ASSUME NEW c \in Conns, Refuse(c) PROVE TypeOK'
  BY <1>4 DEF Refuse
<1>5. ASSUME NEW c \in Conns, LookUp(c) PROVE TypeOK'
  <2>1. wanted[c] \in AllNames
    BY <1>5 DEF LookUp, ConnInv
  <2>2. Found(wanted[c]) \subseteq Addresses \cup {NotFound}
    BY <2>1 DEF Found
  <2>3. content' \in [Conns -> Names \cup Addresses \cup {NotFound, None}]
    BY <1>5, <2>2 DEF LookUp
  <2> QED
    BY <1>5, <2>3 DEF LookUp
<1>6. ASSUME NEW c \in Conns, Choose(c) PROVE TypeOK'
  BY <1>6 DEF Choose, Free
<1>7. ASSUME NEW c \in Conns, Put(c) PROVE TypeOK'
  <2>1. content[c] \in Names /\ peer[c] \in Clients
    BY <1>7 DEF Put, ConnInv
  <2>2. names' \in [AllNames -> Addresses \cup {None}] /\ entered' \subseteq Conns
    BY <1>7, <2>1 DEF Put, AllNames, Addresses
  <2> QED
    BY <1>7, <2>2 DEF Put
<1>8. ASSUME NEW c \in Conns, ReadExponent(c) PROVE TypeOK'
  <2>1. shared.e \in Nat
    BY DEF Keys
  <2> QED
    BY <1>8, <2>1 DEF ReadExponent
<1>9. ASSUME NEW c \in Conns, EncryptCharacter(c) PROVE TypeOK'
  <2>1. [e |-> exponent[c], n |-> shared.n] \in Keys
    BY DEF Keys
  <2>2. Append(cipher[c], [e |-> exponent[c], n |-> shared.n]) \in Seq(Keys)
    BY <2>1
  <2>3. cipher' = [cipher EXCEPT ![c] = Append(cipher[c], [e |-> exponent[c], n |-> shared.n])]
    BY <1>9 DEF EncryptCharacter
  <2>4. cipher' \in [Conns -> Seq(Keys)]
    BY <2>2, <2>3
  <2>5. pc' \in [Conns -> {"idle", "key", "mod", "request", "refused", "put", "encrypt",
                           "modulus", "sent", "done"}]
    BY <1>9 DEF EncryptCharacter
  <2> QED
    BY <1>9, <2>4, <2>5 DEF EncryptCharacter
<1>10. ASSUME NEW c \in Conns, PeerReads(c) PROVE TypeOK'
  <2>1. Reads(c) \in {content[c], Garbled} /\ content[c] # None
    BY <1>10 DEF Reads, PeerReads, ConnInv
  <2>2. told' \in [Conns -> Names \cup Addresses \cup {NotFound, Unread, Garbled, Nothing}]
    BY <1>10, <2>1 DEF PeerReads
  <2>3. saved' \in [Relays -> [AllNames -> Addresses \cup {None}]]
    <3>1. CASE UNCHANGED saved
      BY <3>1
    <3>2. CASE /\ peer[c] \in Relays /\ Reads(c) \in Addresses
               /\ saved' = [saved EXCEPT ![peer[c]][wanted[c]] = Reads(c)]
      BY <3>2
    <3> QED
      BY <1>10, <3>1, <3>2 DEF PeerReads
  <2>4. cipher' \in [Conns -> Seq(Keys)]
    BY <1>10 DEF PeerReads
  <2> QED
    BY <1>10, <2>2, <2>3, <2>4 DEF PeerReads
<1>11. ASSUME NEW c \in Conns, PeerGivesUp(c) PROVE TypeOK'
  BY <1>11 DEF PeerGivesUp
<1>12. CASE UNCHANGED vars
  BY <1>12 DEF vars
<1> QED
  BY <1>a, <1>1, <1>2, <1>3, <1>4, <1>5, <1>6, <1>7, <1>8, <1>9, <1>10, <1>11, <1>12
     DEF Next, ServerStep, PeerStep

LEMMA ConnStep == TypeOK /\ ConnInv /\ [Next]_vars => ConnInv'
<1> SUFFICES ASSUME TypeOK, ConnInv, [Next]_vars PROVE ConnInv'
  OBVIOUS
<1> USE DisjointAssumption
    DEF TypeOK, ConnInv, Asking, Answering, Goto, keyVars, connVars, Peers
<1>1. ASSUME NEW c \in Conns, Connect(c) PROVE ConnInv'
  BY <1>1 DEF Connect
<1>2. ASSUME NEW c \in Conns, SetPublicKey(c) PROVE ConnInv'
  BY <1>2 DEF SetPublicKey
<1>3. ASSUME NEW c \in Conns, SetModulus(c) PROVE ConnInv'
  BY <1>3 DEF SetModulus
<1>4. ASSUME NEW c \in Conns, Refuse(c) PROVE ConnInv'
  BY <1>4 DEF Refuse
<1>5. ASSUME NEW c \in Conns, LookUp(c) PROVE ConnInv'
  <2>1. peer[c] \in Relays /\ wanted[c] \in AllNames /\ peer[c] \notin Clients
    BY <1>5 DEF LookUp
  <2>2. Found(wanted[c]) \subseteq Addresses \cup {NotFound}
    BY <2>1 DEF Found
  <2>3. PICK a \in Addresses \cup {NotFound} : content' = [content EXCEPT ![c] = a]
    BY <1>5, <2>2 DEF LookUp
  <2>4. a # None
    BY DEF Addresses
  <2> QED
    BY <1>5, <2>1, <2>3, <2>4 DEF LookUp
<1>6. ASSUME NEW c \in Conns, Choose(c) PROVE ConnInv'
  BY <1>6 DEF Choose, Free
<1>7. ASSUME NEW c \in Conns, Put(c) PROVE ConnInv'
  BY <1>7 DEF Put
<1>8. ASSUME NEW c \in Conns, ReadExponent(c) PROVE ConnInv'
  BY <1>8 DEF ReadExponent
<1>9. ASSUME NEW c \in Conns, EncryptCharacter(c) PROVE ConnInv'
  BY <1>9 DEF EncryptCharacter
<1>10. ASSUME NEW c \in Conns, PeerReads(c) PROVE ConnInv'
  BY <1>10 DEF PeerReads
<1>11. ASSUME NEW c \in Conns, PeerGivesUp(c) PROVE ConnInv'
  BY <1>11 DEF PeerGivesUp
<1>12. CASE UNCHANGED vars
  BY <1>12 DEF vars
<1> QED
  BY <1>1, <1>2, <1>3, <1>4, <1>5, <1>6, <1>7, <1>8, <1>9, <1>10, <1>11, <1>12
     DEF Next, ServerStep, PeerStep

-----------------------------------------------------------------------------
(* Meetings. *)

LEMMA MetInit == Init => MetInv
  BY DEF Init, MetInv, Met, Open

LEMMA MetConnect ==
    ASSUME NEW c \in Conns, Connect(c), NEW x \in Conns, NEW y \in Conns
    PROVE  Met(x, y)' <=> Met(x, y) \/ (x = c /\ Open(y)) \/ (y = c /\ Open(x))
<1>1. met' = met \cup {{c, d} : d \in {z \in Conns : Open(z)}}
  BY DEF Connect
<1>2. Met(x, y)' <=> {x, y} \in met'
  BY DEF Met
<1>3. (\E d \in Conns : Open(d) /\ {x, y} = {c, d}) <=> (x = c /\ Open(y)) \/ (y = c /\ Open(x))
  OBVIOUS
<1>4. {x, y} \in met' <=> {x, y} \in met \/ \E d \in Conns : Open(d) /\ {x, y} = {c, d}
  BY <1>1
<1> QED
  BY <1>2, <1>3, <1>4 DEF Met

LEMMA MetStep == TypeOK /\ MetInv /\ [Next]_vars => MetInv'
<1> SUFFICES ASSUME TypeOK, MetInv, [Next]_vars PROVE MetInv'
  OBVIOUS
<1>1. ASSUME NEW c \in Conns, Connect(c) PROVE MetInv'
  <2>1. /\ pc[c] = "idle" /\ pc' = [pc EXCEPT ![c] = "key"]
        /\ \A x, y \in Conns :
              Met(x, y)' <=> Met(x, y) \/ (x = c /\ Open(y)) \/ (y = c /\ Open(x))
    BY <1>1, MetConnect DEF Connect, Goto
  <2>2. \A x \in Conns : (Open(x)' <=> Open(x) \/ x = c) /\ (Open(x) => pc[x] # "idle")
    BY <2>1 DEF Open, TypeOK
  <2>3. \A x \in Conns : pc'[x] = (IF x = c THEN "key" ELSE pc[x])
    BY <2>1 DEF TypeOK
  <2>4. \A x, y \in Conns : x # y /\ Open(x)' /\ Open(y)' => Met(x, y)'
    BY <2>1, <2>2 DEF MetInv
  <2>5. \A x, y \in Conns : Met(x, y)' => pc'[x] # "idle" /\ pc'[y] # "idle"
    BY <2>1, <2>2, <2>3 DEF MetInv
  <2> QED
    BY <2>4, <2>5 DEF MetInv
<1>2. ASSUME met' = met,
             \A c \in Conns : (Open(c)' => Open(c)) /\ (pc[c] # "idle" => pc'[c] # "idle")
      PROVE  MetInv'
  <2>1. \A x, y \in Conns : Met(x, y)' <=> Met(x, y)
    BY <1>2 DEF Met
  <2> QED
    BY <1>2, <2>1 DEF MetInv
<1>3. ASSUME NEW c \in Conns, ServerStep(c) \/ PeerStep(c) PROVE MetInv'
  <2>1. met' = met /\ \A x \in Conns : (Open(x)' => Open(x)) /\ (pc[x] # "idle" => pc'[x] # "idle")
    BY <1>3 DEF ServerStep, PeerStep, SetPublicKey, SetModulus, Refuse, LookUp, Choose, Put,
                ReadExponent, EncryptCharacter, PeerReads, PeerGivesUp, TypeOK, Goto, Open
  <2> QED
    BY <2>1, <1>2
<1>4. CASE UNCHANGED vars
  BY <1>2, <1>4 DEF vars, connVars, Open
<1> QED
  BY <1>1, <1>3, <1>4 DEF Next

\* The meetings of a connection stay.
LEMMA MetStays == TypeOK /\ ConnInv /\ MetInv /\ [Next]_vars =>
    /\ \A c, d \in Conns : Met(c, d) => Met(c, d)'
    /\ \A c \in Conns : pc[c] # "idle" => peer'[c] = peer[c] /\ pc'[c] # "idle"
<1> SUFFICES ASSUME TypeOK, ConnInv, MetInv, [Next]_vars
             PROVE  /\ \A c, d \in Conns : Met(c, d) => Met(c, d)'
                    /\ \A c \in Conns : pc[c] # "idle" => peer'[c] = peer[c] /\ pc'[c] # "idle"
  OBVIOUS
<1>1. ASSUME NEW d \in Conns, Connect(d)
      PROVE  /\ \A c, e \in Conns : Met(c, e) => Met(c, e)'
             /\ \A c \in Conns : pc[c] # "idle" => peer'[c] = peer[c] /\ pc'[c] # "idle"
  <2>1. \A c, e \in Conns : Met(c, e) => Met(c, e)'
    BY <1>1, MetConnect
  <2> QED
    BY <1>1, <2>1 DEF Connect, TypeOK, Goto
<1>2. CASE UNCHANGED <<peer, met>> /\ \A c \in Conns : pc[c] # "idle" => pc'[c] # "idle"
  BY <1>2 DEF Met
<1>3. CASE \E c \in Conns : ServerStep(c) \/ PeerStep(c)
  <2>1. UNCHANGED <<peer, met>> /\ \A c \in Conns : pc[c] # "idle" => pc'[c] # "idle"
    BY <1>3 DEF ServerStep, PeerStep, SetPublicKey, SetModulus, Refuse, LookUp, Choose, Put,
                ReadExponent, EncryptCharacter, PeerReads, PeerGivesUp, TypeOK, Goto
  <2> QED
    BY <2>1, <1>2
<1>4. CASE UNCHANGED vars
  BY <1>2, <1>4 DEF vars, connVars
<1> QED
  BY <1>1, <1>3, <1>4 DEF Next

LEMMA OverlapStays == TypeOK /\ ConnInv /\ MetInv /\ [Next]_vars =>
    /\ \A c \in Conns : Overlapped(c) => Overlapped(c)'
    /\ \A c \in Conns : Cross(c) => Cross(c)'
<1> SUFFICES ASSUME TypeOK, ConnInv, MetInv, [Next]_vars, NEW c \in Conns
             PROVE  (Overlapped(c) => Overlapped(c)') /\ (Cross(c) => Cross(c)')
  OBVIOUS
<1>1. ASSUME Overlapped(c) PROVE Overlapped(c)'
  BY <1>1, MetStays DEF Overlapped, Met
<1>2. ASSUME Cross(c) PROVE Cross(c)'
  <2>1. PICK d \in Conns : Met(c, d) /\ Kind(d) # Kind(c)
    BY <1>2 DEF Cross
  <2>2. Met(c, d)' /\ peer'[c] = peer[c] /\ peer'[d] = peer[d]
    BY <2>1, MetStays DEF MetInv
  <2>3. Kind(d)' # Kind(c)'
    BY <2>1, <2>2 DEF Kind
  <2> QED
    BY <2>2, <2>3 DEF Cross
<1> QED
  BY <1>1, <1>2

-----------------------------------------------------------------------------
(* Names. *)

LEMMA NameInit == Init => NameInv /\ SameNameOnlyOnOverlap
  BY DisjointAssumption DEF Init, NameInv, SameNameOnlyOnOverlap, AllNames

LEMMA NameStep ==
    TypeOK /\ ConnInv /\ MetInv /\ NameInv /\ [Next]_vars => NameInv'
<1> SUFFICES ASSUME TypeOK, ConnInv, MetInv, NameInv, [Next]_vars PROVE NameInv'
  OBVIOUS
<1>0. \A c \in Conns : Overlapped(c) => Overlapped(c)'
  BY OverlapStays
<1> USE <1>0, DisjointAssumption
    DEF TypeOK, ConnInv, NameInv, Asking, Answering, Goto, keyVars, connVars, AllNames, Addresses
<1>1. ASSUME NEW c \in Conns, Connect(c) PROVE NameInv'
  BY <1>1 DEF Connect
<1>2. ASSUME NEW c \in Conns, SetPublicKey(c) PROVE NameInv'
  BY <1>2 DEF SetPublicKey
<1>3. ASSUME NEW c \in Conns, SetModulus(c) PROVE NameInv'
  BY <1>3 DEF SetModulus
<1>4. ASSUME NEW c \in Conns, Refuse(c) PROVE NameInv'
  BY <1>4 DEF Refuse
<1>5. ASSUME NEW c \in Conns, LookUp(c) PROVE NameInv'
  <2>1. peer[c] \in Relays /\ wanted[c] \in AllNames /\ c \notin entered
    BY <1>5 DEF LookUp
  <2>2. PICK a \in Found(wanted[c]) : content' = [content EXCEPT ![c] = a]
    BY <1>5 DEF LookUp
  <2>3. a \in Addresses \cup {NotFound} /\ a \notin Names
    BY <2>1, <2>2 DEF Found
  <2>4. \A d \in Conns : content'[d] = (IF d = c THEN a ELSE content[d])
    BY <2>2
  <2>5. UNCHANGED <<names, entered, peer, saved, wanted>> /\ pc' = [pc EXCEPT ![c] = "encrypt"]
    BY <1>5 DEF LookUp

  <2>6. \A d \in Conns : content'[d] \in Names /\ pc'[d] # "put" /\ d \notin entered => Overlapped(d)
    BY <2>3, <2>4, <2>5
  <2>7. \A d \in entered : content'[d] = content[d]
    BY <2>1, <2>4
  <2>8. \A v \in AllNames : names'[v] # None =>
            v \in Predefined \/ \E d \in entered' : content'[d] = v /\ peer'[d] = names'[v]
    <3> SUFFICES ASSUME NEW v \in AllNames, names[v] # None, v \notin Predefined
                 PROVE  \E d \in entered : content'[d] = v /\ peer[d] = names[v]
      BY <2>5
    <3>1. PICK d \in entered : content[d] = v /\ peer[d] = names[v]
      OBVIOUS
    <3> QED
      BY <3>1, <2>7
  <2>9. /\ \A v \in Predefined : names'[v] = v
        /\ \A d \in entered' : names'[content'[d]] # None
    BY <2>5, <2>7
  <2> QED
    BY <2>8, <2>9, <2>6, <1>0, <2>5
<1>6. ASSUME NEW c \in Conns, Choose(c) PROVE NameInv'
  <2>1. c \notin entered
    BY <1>6 DEF Choose
  <2>2. PICK u \in Names : content' = [content EXCEPT ![c] = u]
    BY <1>6 DEF Choose, Free
  <2>3. \A d \in Conns : content'[d] = (IF d = c THEN u ELSE content[d])
    BY <2>2
  <2>4. UNCHANGED <<names, entered, peer>> /\ pc' = [pc EXCEPT ![c] = "put"]
    BY <1>6 DEF Choose
  <2>5. \A d \in Conns : content'[d] \in Names /\ pc'[d] # "put" /\ d \notin entered => Overlapped(d)
    BY <2>3, <2>4
  <2>6. \A d \in entered : content'[d] = content[d]
    BY <2>1, <2>3
  <2>8. \A v \in AllNames : names'[v] # None =>
            v \in Predefined \/ \E d \in entered' : content'[d] = v /\ peer'[d] = names'[v]
    <3> SUFFICES ASSUME NEW v \in AllNames, names[v] # None, v \notin Predefined
                 PROVE  \E d \in entered : content'[d] = v /\ peer[d] = names[v]
      BY <2>4
    <3>1. PICK d \in entered : content[d] = v /\ peer[d] = names[v]
      OBVIOUS
    <3> QED
      BY <3>1, <2>6
  <2>9. /\ \A v \in Predefined : names'[v] = v
        /\ \A d \in entered' : names'[content'[d]] # None
    BY <2>4, <2>6
  <2> QED
    BY <2>8, <2>9, <2>5, <1>0, <2>4
<1>7. ASSUME NEW c \in Conns, Put(c) PROVE NameInv'
  <2>1. /\ pc[c] = "put" /\ content[c] \in Names /\ peer[c] \in Clients /\ content[c] \notin Predefined
        /\ UNCHANGED <<content, peer>> /\ pc' = [pc EXCEPT ![c] = "encrypt"]
    BY <1>7 DEF Put
  <2>2. CASE names' = [names EXCEPT ![content[c]] = peer[c]] /\ entered' = entered \cup {c}
    <3>1. \A u \in AllNames : names'[u] = (IF u = content[c] THEN peer[c] ELSE names[u])
      BY <2>2
    <3>2. ASSUME NEW u \in Predefined PROVE names'[u] = u
      <4>1. u \in AllNames /\ u # content[c] /\ names[u] = u
        BY <2>1
      <4> QED
        BY <3>1, <4>1
    <3>3. \A u \in AllNames : names'[u] # None =>
              u \in Predefined \/ \E d \in entered' : content'[d] = u /\ peer'[d] = names'[u]
      BY <2>1, <2>2, <3>1
    <3>4. \A d \in entered : content[d] \in AllNames
      OBVIOUS
    <3>5. \A d \in entered' : names'[content'[d]] # None
      BY <2>1, <2>2, <3>1, <3>4
    <3>6. \A d \in Conns : content'[d] \in Names /\ pc'[d] # "put" /\ d \notin entered' =>
              Overlapped(d)
      BY <2>1, <2>2
    <3> QED
      BY <3>2, <3>3, <3>5, <3>6
  <2>3. CASE UNCHANGED <<names, entered>> /\ \E d \in Conns \ {c} : pc[d] = "put"
    <3>1. Overlapped(c)
      BY <2>1, <2>3 DEF MetInv, Met, Open, Overlapped
    <3>2. \A d \in Conns : content'[d] \in Names /\ pc'[d] # "put" /\ d \notin entered' =>
              Overlapped(d)
      BY <2>1, <2>3, <3>1
    <3> QED
      BY <2>1, <2>3, <3>2
  <2> QED
    BY <1>7, <2>2, <2>3 DEF Put
<1>8. ASSUME NEW c \in Conns, ReadExponent(c) PROVE NameInv'
  BY <1>8 DEF ReadExponent
<1>9. ASSUME NEW c \in Conns, EncryptCharacter(c) PROVE NameInv'
  BY <1>9 DEF EncryptCharacter
<1>10. ASSUME NEW c \in Conns, PeerReads(c) PROVE NameInv'
  BY <1>10 DEF PeerReads
<1>11. ASSUME NEW c \in Conns, PeerGivesUp(c) PROVE NameInv'
  BY <1>11 DEF PeerGivesUp
<1>12. CASE UNCHANGED vars
  BY <1>12 DEF vars
<1> QED
  BY <1>1, <1>2, <1>3, <1>4, <1>5, <1>6, <1>7, <1>8, <1>9, <1>10, <1>11, <1>12
     DEF Next, ServerStep, PeerStep

LEMMA SameNameStep ==
    TypeOK /\ ConnInv /\ MetInv /\ NameInv /\ SameNameOnlyOnOverlap /\ [Next]_vars
        => SameNameOnlyOnOverlap'
<1> SUFFICES ASSUME TypeOK, ConnInv, MetInv, NameInv, SameNameOnlyOnOverlap, [Next]_vars
             PROVE  SameNameOnlyOnOverlap'
  OBVIOUS
<1>0. \A c \in Conns : Overlapped(c) => Overlapped(c)'
  BY OverlapStays
<1> USE <1>0, DisjointAssumption
    DEF TypeOK, ConnInv, SameNameOnlyOnOverlap, Asking, Answering, Goto, keyVars, connVars
<1>1. ASSUME NEW c \in Conns, Connect(c) PROVE SameNameOnlyOnOverlap'
  BY <1>1 DEF Connect
<1>2. ASSUME NEW c \in Conns, SetPublicKey(c) PROVE SameNameOnlyOnOverlap'
  BY <1>2 DEF SetPublicKey
<1>3. ASSUME NEW c \in Conns, SetModulus(c) PROVE SameNameOnlyOnOverlap'
  BY <1>3 DEF SetModulus
<1>4. ASSUME NEW c \in Conns, Refuse(c) PROVE SameNameOnlyOnOverlap'
  BY <1>4 DEF Refuse
<1>5. ASSUME NEW c \in Conns, LookUp(c) PROVE SameNameOnlyOnOverlap'
  <2>1. peer[c] \in Relays /\ wanted[c] \in AllNames /\ c \notin entered
    BY <1>5 DEF LookUp
  <2>2. PICK a \in Found(wanted[c]) : content' = [content EXCEPT ![c] = a]
    BY <1>5 DEF LookUp
  <2>3. a \in Addresses \cup {NotFound} /\ a \notin Names
    BY <2>1, <2>2 DEF Found
  <2>4. \A d \in Conns : content'[d] = (IF d = c THEN a ELSE content[d])
    BY <2>2
  <2>5. UNCHANGED <<names, entered, peer, saved, wanted>> /\ pc' = [pc EXCEPT ![c] = "encrypt"]
    BY <1>5 DEF LookUp

  <2>6. \A d \in Conns : content'[d] \in Names => content'[d] = content[d]
    BY <2>3, <2>4
  <2> SUFFICES ASSUME NEW x \in Conns, NEW y \in Conns, x # y,
                      content'[x] \in Names, content'[x] = content'[y]
               PROVE  Overlapped(x)' \/ Overlapped(y)'
    OBVIOUS
  <2>7. Overlapped(x) \/ Overlapped(y)
    BY <2>6
  <2> QED
    BY <1>0, <2>7
<1>6. ASSUME NEW c \in Conns, Choose(c) PROVE SameNameOnlyOnOverlap'
  <2>1. PICK u \in Names : names[u] = None /\ content' = [content EXCEPT ![c] = u]
    BY <1>6 DEF Choose, Free
  <2>2. \A d \in Conns : content'[d] = (IF d = c THEN u ELSE content[d])
    BY <2>1
  <2>3. ASSUME NEW d \in Conns, d # c, content[d] = u PROVE Overlapped(d) \/ Overlapped(c)
    <3>1. d \notin entered
      BY <2>1, <2>3 DEF NameInv
    <3>2. CASE pc[d] = "put"
      BY <1>6, <2>3, <3>2 DEF Choose, MetInv, Met, Open, Overlapped
    <3>3. CASE pc[d] # "put"
      BY <2>3, <3>1, <3>3 DEF NameInv
    <3> QED
      BY <3>2, <3>3
  <2> SUFFICES ASSUME NEW x \in Conns, NEW y \in Conns, x # y,
                      content'[x] \in Names, content'[x] = content'[y]
               PROVE  Overlapped(x) \/ Overlapped(y)
    BY <1>0
  <2>4. CASE x # c /\ y # c
    BY <2>2, <2>4
  <2>5. CASE x = c \/ y = c
    BY <2>2, <2>3, <2>5
  <2> QED
    BY <2>4, <2>5
<1>7. ASSUME NEW c \in Conns, Put(c) PROVE SameNameOnlyOnOverlap'
  BY <1>7 DEF Put
<1>8. ASSUME NEW c \in Conns, ReadExponent(c) PROVE SameNameOnlyOnOverlap'
  BY <1>8 DEF ReadExponent
<1>9. ASSUME NEW c \in Conns, EncryptCharacter(c) PROVE SameNameOnlyOnOverlap'
  BY <1>9 DEF EncryptCharacter
<1>10. ASSUME NEW c \in Conns, PeerReads(c) PROVE SameNameOnlyOnOverlap'
  BY <1>10 DEF PeerReads
<1>11. ASSUME NEW c \in Conns, PeerGivesUp(c) PROVE SameNameOnlyOnOverlap'
  BY <1>11 DEF PeerGivesUp
<1>12. CASE UNCHANGED vars
  BY <1>12 DEF vars
<1> QED
  BY <1>1, <1>2, <1>3, <1>4, <1>5, <1>6, <1>7, <1>8, <1>9, <1>10, <1>11, <1>12
     DEF Next, ServerStep, PeerStep

LEMMA LookInit == Init => LookInv /\ SavedIsCurrent
  BY DisjointAssumption DEF Init, LookInv, SavedIsCurrent

\* A name that is in the map and is put there again was given twice.
LEMMA PutTwice ==
    ASSUME TypeOK, ConnInv, NameInv, NEW c \in Conns, pc[c] = "put", names[content[c]] # None
    PROVE  Twice(content[c])
<1>1. content[c] \in Names /\ content[c] \notin Predefined
  BY DisjointAssumption DEF ConnInv, Addresses
<1>2. PICK d \in entered : content[d] = content[c]
  BY <1>1 DEF NameInv, AllNames
<1>3. d \in Conns /\ pc[d] # "put"
  BY DEF TypeOK, ConnInv, Answering
<1> QED
  BY <1>2, <1>3 DEF Twice

LEMMA TwiceStays ==
    ASSUME TypeOK, ConnInv, [Next]_vars, NEW u \in AllNames, Twice(u)
    PROVE  Twice(u)'
<1>1. \A c \in Conns : content[c] # None => content'[c] = content[c]
  BY DEF TypeOK, ConnInv, Asking, Next, vars, connVars, ServerStep, PeerStep, Connect,
         SetPublicKey, SetModulus, Refuse, LookUp, Choose, Put, ReadExponent,
         EncryptCharacter, PeerReads, PeerGivesUp
<1>2. u # None
  BY DisjointAssumption DEF AllNames, Addresses
<1> QED
  BY <1>1, <1>2 DEF Twice

LEMMA LookStep ==
    TypeOK /\ ConnInv /\ NameInv /\ LookInv /\ SavedIsCurrent /\ [Next]_vars
        => LookInv' /\ SavedIsCurrent'
<1> SUFFICES ASSUME TypeOK, ConnInv, NameInv, LookInv, SavedIsCurrent, [Next]_vars
             PROVE  LookInv' /\ SavedIsCurrent'
  OBVIOUS
<1>0. \A u \in AllNames : Twice(u) => Twice(u)'
  BY TwiceStays
<1>a. \A r \in Relays, u \in AllNames : saved[r][u] \notin {None, names[u]} => Twice(u)
  BY DEF SavedIsCurrent, Twice
<1>b. SUFFICES LookInv' /\ \A r \in Relays, u \in AllNames :
                     saved'[r][u] \notin {None, names'[u]} => Twice(u)'
  BY DEF SavedIsCurrent, Twice
<1> USE <1>0, <1>a, DisjointAssumption
    DEF TypeOK, ConnInv, LookInv, Asking, Answering, Goto, keyVars, connVars
<1>1. ASSUME NEW c \in Conns, Connect(c) PROVE (LookInv' /\ \A r \in Relays, u \in AllNames :
                     saved'[r][u] \notin {None, names'[u]} => Twice(u)')
  BY <1>1, ZenonT(30) DEF Connect
<1>2. ASSUME NEW c \in Conns, SetPublicKey(c) PROVE (LookInv' /\ \A r \in Relays, u \in AllNames :
                     saved'[r][u] \notin {None, names'[u]} => Twice(u)')
  BY <1>2 DEF SetPublicKey
<1>3. ASSUME NEW c \in Conns, SetModulus(c) PROVE (LookInv' /\ \A r \in Relays, u \in AllNames :
                     saved'[r][u] \notin {None, names'[u]} => Twice(u)')
  BY <1>3 DEF SetModulus
<1>4. ASSUME NEW c \in Conns, Refuse(c) PROVE (LookInv' /\ \A r \in Relays, u \in AllNames :
                     saved'[r][u] \notin {None, names'[u]} => Twice(u)')
  BY <1>4 DEF Refuse
<1>5. ASSUME NEW c \in Conns, LookUp(c) PROVE (LookInv' /\ \A r \in Relays, u \in AllNames :
                     saved'[r][u] \notin {None, names'[u]} => Twice(u)')
  <2>1. peer[c] \in Relays /\ wanted[c] \in AllNames /\ c \notin entered
    BY <1>5 DEF LookUp
  <2>2. PICK a \in Found(wanted[c]) : content' = [content EXCEPT ![c] = a]
    BY <1>5 DEF LookUp
  <2>3. a \in Addresses \cup {NotFound} /\ a \notin Names
    BY <2>1, <2>2 DEF Found
  <2>4. \A d \in Conns : content'[d] = (IF d = c THEN a ELSE content[d])
    BY <2>2
  <2>5. UNCHANGED <<names, entered, peer, saved, wanted>> /\ pc' = [pc EXCEPT ![c] = "encrypt"]
    BY <1>5 DEF LookUp

  <2>6. a \in Addresses => a = names[wanted[c]]
    BY <2>1, <2>2 DEF Found
  <2>7. LookInv'
    BY <2>1, <2>4, <2>5, <2>6, ZenonT(30)
  <2> QED
    BY <2>5, <2>7
<1>6. ASSUME NEW c \in Conns, Choose(c) PROVE (LookInv' /\ \A r \in Relays, u \in AllNames :
                     saved'[r][u] \notin {None, names'[u]} => Twice(u)')
  BY <1>6 DEF Choose, Free
<1>7. ASSUME NEW c \in Conns, Put(c) PROVE (LookInv' /\ \A r \in Relays, u \in AllNames :
                     saved'[r][u] \notin {None, names'[u]} => Twice(u)')
  <2>1. /\ content[c] \in Names /\ UNCHANGED <<content, peer, saved, wanted>>
        /\ \A u \in AllNames : names'[u] # names[u] => u = content[c]
    BY <1>7 DEF Put, AllNames
  <2>2. \A u \in AllNames : names'[u] # names[u] => names[u] = None \/ Twice(u)
    BY <1>7, <2>1, PutTwice DEF Put
  <2>3. ASSUME NEW x \in Conns, peer[x] \in Relays, content[x] \in Addresses
        PROVE  content[x] = names'[wanted[x]] \/ Twice(wanted[x])'
    <3>1. wanted[x] \in AllNames /\ content[x] # None
      BY <2>3 DEF Addresses, Peers
    <3>2. content[x] = names[wanted[x]] \/ Twice(wanted[x])
      BY <2>3
    <3>3. Twice(wanted[x]) => Twice(wanted[x])'
      BY <2>1, <3>1 DEF Twice
    <3> QED
      BY <2>2, <3>1, <3>2, <3>3
  <2>4. ASSUME NEW r \in Relays, NEW u \in AllNames, saved'[r][u] \notin {None, names'[u]}
        PROVE  Twice(u)'
    BY <2>1, <2>2, <2>4
  <2> QED
    BY <2>1, <2>3, <2>4
<1>8. ASSUME NEW c \in Conns, ReadExponent(c) PROVE (LookInv' /\ \A r \in Relays, u \in AllNames :
                     saved'[r][u] \notin {None, names'[u]} => Twice(u)')
  BY <1>8 DEF ReadExponent
<1>9. ASSUME NEW c \in Conns, EncryptCharacter(c) PROVE (LookInv' /\ \A r \in Relays, u \in AllNames :
                     saved'[r][u] \notin {None, names'[u]} => Twice(u)')
  BY <1>9 DEF EncryptCharacter
<1>10. ASSUME NEW c \in Conns, PeerReads(c) PROVE (LookInv' /\ \A r \in Relays, u \in AllNames :
                     saved'[r][u] \notin {None, names'[u]} => Twice(u)')
  <2>1. Reads(c) \in {content[c], Garbled}
    BY DEF Reads
  <2>2. /\ UNCHANGED <<names, content, peer, wanted>>
        /\ \A u : Twice(u)' <=> Twice(u)
    BY <1>10 DEF PeerReads, Twice
  <2>3. LookInv'
    BY <2>2
  <2>4. CASE UNCHANGED saved
    BY <2>2, <2>3, <2>4
  <2>5. CASE /\ peer[c] \in Relays /\ Reads(c) \in Addresses
             /\ saved' = [saved EXCEPT ![peer[c]][wanted[c]] = Reads(c)]
    <3>1. Reads(c) = content[c] /\ content[c] \in Addresses /\ wanted[c] \in AllNames
      BY <2>1, <2>5
    <3>2. content[c] = names[wanted[c]] \/ Twice(wanted[c])
      BY <2>5, <3>1
    <3>3. \A r \in Relays, u \in AllNames :
              saved'[r][u] = (IF r = peer[c] /\ u = wanted[c] THEN content[c] ELSE saved[r][u])
      BY <2>5, <3>1
    <3>4. ASSUME NEW r \in Relays, NEW u \in AllNames, saved'[r][u] \notin {None, names'[u]}
          PROVE  Twice(u)
      <4>1. CASE r = peer[c] /\ u = wanted[c]
        BY <2>2, <3>2, <3>3, <3>4, <4>1
      <4>2. CASE ~ (r = peer[c] /\ u = wanted[c])
        BY <2>2, <3>3, <3>4, <4>2
      <4> QED
        BY <4>1, <4>2
    <3> QED
      BY <2>2, <2>3, <3>4
  <2> QED
    BY <1>10, <2>4, <2>5 DEF PeerReads
<1>11. ASSUME NEW c \in Conns, PeerGivesUp(c) PROVE (LookInv' /\ \A r \in Relays, u \in AllNames :
                     saved'[r][u] \notin {None, names'[u]} => Twice(u)')
  BY <1>11 DEF PeerGivesUp
<1>12. CASE UNCHANGED vars
  BY <1>12 DEF vars
<1> QED
  BY <1>1, <1>2, <1>3, <1>4, <1>5, <1>6, <1>7, <1>8, <1>9, <1>10, <1>11, <1>12
     DEF Next, ServerStep, PeerStep

-----------------------------------------------------------------------------
(* Keys in the shared handler. *)

LEMMA SharedInit == Init => SharedInv /\ GarbledOnlyAcrossKinds
  BY DisjointAssumption DEF Init, SharedInv, GetsOwnKey, GarbledOnlyAcrossKinds

LEMMA SharedStep ==
    TypeOK /\ KeyInv /\ ConnInv /\ MetInv /\ SharedInv /\ [Next]_vars => SharedInv'
<1> SUFFICES ASSUME TypeOK, KeyInv, ConnInv, MetInv, SharedInv, [Next]_vars,
                    NEW x \in Conns, ~ Cross(x)'
             PROVE  GetsOwnKey(x)'
  BY DEF SharedInv
<1>a. GetsOwnKey(x)
  BY OverlapStays DEF SharedInv
<1>b. \A c \in Conns : Open(c) /\ Open(x) => Key(c) = Key(x)
  <2>1. ~ Cross(x)
    BY OverlapStays
  <2>2. \A c \in Conns : Open(c) /\ Open(x) => Kind(c) = Kind(x)
    BY <2>1 DEF MetInv, Cross
  <2> QED
    BY <2>2 DEF Key
<1>c. pc[x] # "idle" => Key(x)' = Key(x)
  <2>1. peerKey' = peerKey
    BY DEF Next, vars, keyVars, ServerStep, PeerStep, Connect, SetPublicKey, SetModulus, Refuse,
           LookUp, Choose, Put, ReadExponent, EncryptCharacter, PeerReads, PeerGivesUp
  <2>2. pc[x] # "idle" => peer'[x] = peer[x]
    BY MetStays
  <2> QED
    BY <2>1, <2>2 DEF Key, Kind
<1>d. ASSUME pc'[x] \in {"idle", "key"}, cipher'[x] = << >> PROVE GetsOwnKey(x)'
  <2>1. \A i \in 1 .. Len(cipher'[x]) : FALSE
    BY <1>d
  <2> QED
    BY <1>d, <2>1 DEF GetsOwnKey
<1> USE <1>a, <1>b, <1>c, <1>d
    DEF TypeOK, ConnInv, GetsOwnKey, Asking, Goto, keyVars, connVars, Open
<1>1. ASSUME NEW c \in Conns, Connect(c) PROVE GetsOwnKey(x)'
  BY <1>1 DEF Connect
<1>2. ASSUME NEW c \in Conns, SetPublicKey(c) PROVE GetsOwnKey(x)'
  <2>1. /\ shared' = [shared EXCEPT !.e = Key(c).e] /\ Open(c)
        /\ UNCHANGED <<cipher, exponent>> /\ \A d \in Conns : d # c => pc'[d] = pc[d]
    BY <1>2 DEF SetPublicKey, Key
  <2>2. shared'.e = Key(c).e /\ shared'.n = shared.n
    BY <2>1 DEF Keys
  <2>3. pc[x] # "idle" /\ Open(x) => shared'.e = Key(x)'.e
    BY <2>1, <2>2
  <2> QED
    BY <1>2, <2>1, <2>2, <2>3 DEF SetPublicKey
<1>3. ASSUME NEW c \in Conns, SetModulus(c) PROVE GetsOwnKey(x)'
  <2>1. /\ shared' = [shared EXCEPT !.n = Key(c).n] /\ Open(c)
        /\ UNCHANGED <<cipher, exponent>> /\ \A d \in Conns : d # c => pc'[d] = pc[d]
    BY <1>3 DEF SetModulus, Key
  <2>2. shared'.n = Key(c).n /\ shared'.e = shared.e
    BY <2>1 DEF Keys
  <2>3. pc[x] # "idle" /\ Open(x) => shared'.n = Key(x)'.n
    BY <2>1, <2>2
  <2> QED
    BY <1>3, <2>1, <2>2, <2>3 DEF SetModulus
<1>4. ASSUME NEW c \in Conns, Refuse(c) PROVE GetsOwnKey(x)'
  BY <1>4 DEF Refuse
<1>5. ASSUME NEW c \in Conns, LookUp(c) PROVE GetsOwnKey(x)'
  BY <1>5 DEF LookUp
<1>6. ASSUME NEW c \in Conns, Choose(c) PROVE GetsOwnKey(x)'
  BY <1>6 DEF Choose, Free
<1>7. ASSUME NEW c \in Conns, Put(c) PROVE GetsOwnKey(x)'
  BY <1>7 DEF Put
<1>8. ASSUME NEW c \in Conns, ReadExponent(c) PROVE GetsOwnKey(x)'
  BY <1>8 DEF ReadExponent
<1>9. ASSUME NEW c \in Conns, EncryptCharacter(c) PROVE GetsOwnKey(x)'
  BY <1>9 DEF EncryptCharacter
<1>10. ASSUME NEW c \in Conns, PeerReads(c) PROVE GetsOwnKey(x)'
  BY <1>10 DEF PeerReads
<1>11. ASSUME NEW c \in Conns, PeerGivesUp(c) PROVE GetsOwnKey(x)'
  BY <1>11 DEF PeerGivesUp
<1>12. CASE UNCHANGED vars
  BY <1>12 DEF vars
<1> QED
  BY <1>1, <1>2, <1>3, <1>4, <1>5, <1>6, <1>7, <1>8, <1>9, <1>10, <1>11, <1>12
     DEF Next, ServerStep, PeerStep

LEMMA GarbledStep ==
    TypeOK /\ KeyInv /\ ConnInv /\ MetInv /\ SharedInv /\ GarbledOnlyAcrossKinds /\ [Next]_vars
        => GarbledOnlyAcrossKinds'
<1> SUFFICES ASSUME TypeOK, KeyInv, ConnInv, MetInv, SharedInv, GarbledOnlyAcrossKinds, [Next]_vars,
                    NEW x \in Conns, told'[x] = Garbled
             PROVE  (<<Key(x).e, Key(x).n, Key(x)>> \notin ReadableAnswers)' \/ Cross(x)'
  BY DEF GarbledOnlyAcrossKinds, Key, Cross, Met
<1>1. pc[x] # "idle" => Key(x)' = Key(x)
  <2>1. peerKey' = peerKey
    BY DEF Next, vars, keyVars, ServerStep, PeerStep, Connect, SetPublicKey, SetModulus, Refuse,
           LookUp, Choose, Put, ReadExponent, EncryptCharacter, PeerReads, PeerGivesUp
  <2>2. pc[x] # "idle" => peer'[x] = peer[x]
    BY MetStays
  <2> QED
    BY <2>1, <2>2 DEF Key, Kind
<1>2. CASE told[x] = Garbled
  <2>1. pc[x] = "done"
    BY <1>2, DisjointAssumption DEF ConnInv
  <2>2. <<Key(x).e, Key(x).n, Key(x)>> \notin ReadableAnswers \/ Cross(x)
    BY <1>2 DEF GarbledOnlyAcrossKinds, Key, Cross, Met
  <2>3. Cross(x) => Cross(x)'
    BY OverlapStays
  <2> QED
    BY <1>1, <2>1, <2>2, <2>3
<1>3. CASE told[x] # Garbled
  <2>1. PeerReads(x)
    <3>1. ASSUME NEW c \in Conns, Connect(c) \/ ServerStep(c) PROVE FALSE
      BY <1>3, <3>1 DEF ServerStep, Connect, SetPublicKey, SetModulus, Refuse, LookUp, Choose,
                        Put, ReadExponent, EncryptCharacter
    <3>2. ASSUME NEW c \in Conns, PeerGivesUp(c) PROVE FALSE
      BY <1>3, <3>2, DisjointAssumption DEF PeerGivesUp, TypeOK
    <3>3. ASSUME NEW c \in Conns, PeerReads(c), c # x PROVE FALSE
      BY <1>3, <3>3 DEF PeerReads, TypeOK
    <3>4. CASE UNCHANGED vars
      BY <1>3, <3>4 DEF vars, connVars
    <3> QED
      BY <3>1, <3>2, <3>3, <3>4 DEF Next, PeerStep
  <2>2. pc[x] = "sent" /\ Reads(x) = Garbled
    BY <2>1 DEF PeerReads, TypeOK
  <2>3. content[x] # Garbled
    BY <2>2, DisjointAssumption DEF TypeOK, ConnInv
  <2>4. PICK i \in 1 .. Len(cipher[x]) :
            <<cipher[x][i].e, cipher[x][i].n, Key(x)>> \notin ReadableAnswers
    BY <2>2, <2>3 DEF Reads, Key
  <2>5. CASE Cross(x)
    BY <2>5, OverlapStays
  <2>6. CASE ~ Cross(x)
    <3>1. cipher[x][i].e = Key(x).e /\ cipher[x][i].n = Key(x).n
      BY <2>6 DEF SharedInv, GetsOwnKey
    <3> QED
      BY <1>1, <2>2, <2>4, <3>1
  <2> QED
    BY <2>5, <2>6
<1> QED
  BY <1>2, <1>3

-----------------------------------------------------------------------------
(* The server implements NameService. *)

Registered == {<<u, u>> : u \in Predefined} \cup {<<content[c], peer[c]>> : c \in entered}
Registering == {c \in Conns : pc[c] = "put"}
FoundOf(c) == IF peer[c] \in Relays /\ content[c] # None
              THEN <<wanted[c], content[c]>> ELSE Unread
ReadOf(c) == IF peer[c] \in Relays /\ told[c] # Nothing THEN told[c] ELSE Unread
FoundAll == [c \in Conns |-> FoundOf(c)]
ReadAll == [c \in Conns |-> ReadOf(c)]

LEMMA NameServiceInit == Init => NS!Init
<1> SUFFICES ASSUME Init PROVE NS!Init
  OBVIOUS
<1>1. Registered = {<<u, u>> : u \in Predefined}
  BY DEF Init, Registered
<1>2. Registering = {}
  BY DEF Init, Registering
<1>3. FoundAll = [c \in Conns |-> Unread] /\ ReadAll = [c \in Conns |-> Unread]
  BY DEF Init, FoundAll, ReadAll, FoundOf, ReadOf
<1> QED
  BY <1>1, <1>2, <1>3 DEF NS!Init, Registered, Registering, FoundAll, ReadAll, FoundOf, ReadOf

\* The registered addresses are those of the map.
LEMMA RegisteredIsMap ==
    ASSUME TypeOK, ConnInv, NameInv, NEW u \in AllNames
    PROVE  /\ names[u] = None => \A p \in Registered : p[1] # u
           /\ names[u] # None => <<u, names[u]>> \in Registered
<1> USE DisjointAssumption DEF TypeOK, NameInv, AllNames, Addresses, Registered
<1>1. ASSUME names[u] = None, NEW p \in Registered PROVE p[1] # u
  <2>1. CASE \E v \in Predefined : p = <<v, v>>
    BY <1>1, <2>1
  <2>2. CASE \E d \in entered : p = <<content[d], peer[d]>>
    BY <1>1, <2>2
  <2> QED
    BY <2>1, <2>2
<1>2. ASSUME names[u] # None PROVE <<u, names[u]>> \in Registered
  BY <1>2
<1> QED
  BY <1>1, <1>2

LEMMA RegisteredStays ==
    ASSUME entered' = entered, \A c \in entered : content'[c] = content[c] /\ peer'[c] = peer[c]
    PROVE  Registered' = Registered
  BY DEF Registered

\* A step that leaves what was registered, found and read alone is a stutter.
LEMMA NameServiceStutter ==
    ASSUME entered' = entered, \A c \in entered : content'[c] = content[c] /\ peer'[c] = peer[c],
           Registering' = Registering,
           \A c \in Conns : FoundOf(c)' = FoundOf(c) /\ ReadOf(c)' = ReadOf(c)
    PROVE  UNCHANGED NS!vars
<1>1. Registered' = Registered
  BY RegisteredStays
<1>2. FoundAll' = FoundAll /\ ReadAll' = ReadAll
  BY DEF FoundAll, ReadAll
<1> QED
  BY <1>1, <1>2 DEF NS!vars, Registered, Registering, FoundAll, ReadAll, FoundOf, ReadOf

LEMMA NameServiceStep == IInv /\ [Next]_vars => [NS!Next]_(NS!vars)
<1> SUFFICES ASSUME IInv, [Next]_vars PROVE NS!Next \/ UNCHANGED NS!vars
  OBVIOUS
<1>0. TypeOK /\ ConnInv /\ MetInv /\ NameInv
  BY DEF IInv
<1> USE <1>0, DisjointAssumption DEF TypeOK, ConnInv, Asking, Answering, Goto, keyVars, connVars
<1>1. ASSUME NEW c \in Conns, Connect(c) PROVE UNCHANGED NS!vars
  <2>1. /\ entered' = entered /\ c \notin entered
        /\ \A d \in entered : content'[d] = content[d] /\ peer'[d] = peer[d]
    BY <1>1 DEF Connect
  <2>2. Registering' = Registering
    BY <1>1 DEF Connect, Registering
  <2>3. \A d \in Conns : FoundOf(d)' = FoundOf(d) /\ ReadOf(d)' = ReadOf(d)
    BY <1>1, ZenonT(30) DEF Connect, FoundOf, ReadOf
  <2> QED
    BY <2>1, <2>2, <2>3, NameServiceStutter
<1>2. ASSUME NEW c \in Conns, \/ SetPublicKey(c) \/ SetModulus(c) \/ Refuse(c)
                              \/ ReadExponent(c) \/ EncryptCharacter(c)
      PROVE  UNCHANGED NS!vars
  <2>1. UNCHANGED <<content, peer, wanted, told, entered>>
    BY <1>2 DEF SetPublicKey, SetModulus, Refuse, ReadExponent, EncryptCharacter
  <2>2. Registering' = Registering
    BY <1>2 DEF SetPublicKey, SetModulus, Refuse, ReadExponent, EncryptCharacter, Registering
  <2> QED
    BY <2>1, <2>2, NameServiceStutter DEF FoundOf, ReadOf
<1>3. ASSUME NEW c \in Conns, LookUp(c) PROVE NS!Next
  <2>1. /\ pc[c] = "request" /\ peer[c] \in Relays /\ wanted[c] \in AllNames
        /\ c \notin entered /\ content[c] = None
        /\ UNCHANGED <<peer, wanted, told, entered>>
    BY <1>3 DEF LookUp
  <2>2. PICK a \in Found(wanted[c]) : content' = [content EXCEPT ![c] = a]
    BY <1>3 DEF LookUp
  <2>3. a \in Addresses \cup {NotFound} /\ a # None
    BY <2>1, <2>2 DEF Found, Addresses
  <2>4. IF a = NotFound THEN Registering # {} \/ \A p \in Registered : p[1] # wanted[c]
                        ELSE <<wanted[c], a>> \in Registered
    <3>1. CASE a = NotFound
      <4>1. names[wanted[c]] # NotFound
        BY <2>1
      <4>2. names[wanted[c]] = None \/ \E d \in Conns : pc[d] = "put"
        BY <2>2, <3>1, <4>1 DEF Found
      <4> QED
        BY <2>1, <3>1, <4>2, RegisteredIsMap DEF Registering
    <3>2. CASE a # NotFound
      <4>1. a = names[wanted[c]] /\ names[wanted[c]] # None
        BY <2>2, <2>3, <3>2 DEF Found
      <4> QED
        BY <2>1, <3>2, <4>1, RegisteredIsMap
    <3> QED
      BY <3>1, <3>2
  <2>5. FoundAll[c] = Unread /\ FoundAll' = [FoundAll EXCEPT ![c] = <<wanted[c], a>>]
    BY <2>1, <2>2, <2>3 DEF FoundAll, FoundOf
  <2>6. Registered' = Registered /\ Registering' = Registering /\ ReadAll' = ReadAll
    <3>1. \A d \in entered : content'[d] = content[d]
      BY <2>1, <2>2
    <3>2. Registered' = Registered
      BY <2>1, <3>1, RegisteredStays
    <3>3. Registering' = Registering /\ ReadAll' = ReadAll
      BY <1>3, <2>1 DEF LookUp, Registering, ReadAll, ReadOf
    <3> QED
      BY <3>2, <3>3
  <2>7. NS!Find(c)
    <3> HIDE <1>0 DEF TypeOK, ConnInv
    <3> QED
      BY <2>1, <2>3, <2>4, <2>5, <2>6
         DEF NS!Find, Registered, Registering, FoundAll, ReadAll, FoundOf, ReadOf
  <2> QED
    BY <2>7 DEF NS!Next
<1>4. ASSUME NEW c \in Conns, Choose(c) PROVE NS!Next
  <2>1. /\ pc[c] = "request" /\ peer[c] \in Clients /\ c \notin entered
        /\ pc' = [pc EXCEPT ![c] = "put"]
        /\ UNCHANGED <<peer, wanted, told, entered>>
        /\ \A d \in Conns : d # c => content'[d] = content[d]
    BY <1>4 DEF Choose
  <2>2. Registering' = Registering \cup {c}
    BY <2>1 DEF Registering
  <2>3. Registered' = Registered
    <3>1. \A d \in entered : content'[d] = content[d]
      BY <2>1
    <3> QED
      BY <2>1, <3>1, RegisteredStays
  <2>4. FoundAll' = FoundAll /\ ReadAll' = ReadAll
    <3>1. c \in Conns /\ peer[c] \notin Relays
      BY <2>1
    <3>2. \A d \in Conns : FoundOf(d)' = FoundOf(d) /\ ReadOf(d)' = ReadOf(d)
      BY <2>1, <3>1 DEF FoundOf, ReadOf
    <3> QED
      BY <3>2 DEF FoundAll, ReadAll
  <2>5. NS!Begin(c)
    BY <2>2, <2>3, <2>4
       DEF NS!Begin, Registered, Registering, FoundAll, ReadAll, FoundOf, ReadOf
  <2> QED
    BY <2>5 DEF NS!Next
<1>5. ASSUME NEW c \in Conns, Put(c) PROVE NS!Next
  <2>1. /\ pc[c] = "put" /\ peer[c] \in Clients /\ content[c] \in Names
        /\ pc' = [pc EXCEPT ![c] = "encrypt"]
        /\ UNCHANGED <<content, peer, wanted, told>>
    BY <1>5 DEF Put
  <2>2. Registering' = Registering \ {c} /\ c \in Registering
    BY <2>1 DEF Registering
  <2>3. FoundAll' = FoundAll /\ ReadAll' = ReadAll
    BY <2>1 DEF FoundAll, ReadAll, FoundOf, ReadOf
  <2>4. CASE entered' = entered \cup {c}
    <3>1. Registered' = Registered \cup {<<content[c], peer[c]>>}
      BY <2>1, <2>4 DEF Registered
    <3>2. content[c] \in AllNames /\ peer[c] \in Addresses
      BY <2>1 DEF AllNames, Addresses
    <3>3. NS!Register(c)
      BY <2>2, <2>3, <3>1, <3>2
         DEF NS!Register, Registered, Registering, FoundAll, ReadAll, FoundOf, ReadOf
    <3> QED
      BY <3>3 DEF NS!Next
  <2>5. CASE entered' = entered /\ \E d \in Conns \ {c} : pc[d] = "put"
    <3>1. Registered' = Registered /\ Registering # {c}
      BY <2>1, <2>5 DEF Registered, Registering
    <3>2. NS!Lose(c)
      BY <2>2, <2>3, <3>1
         DEF NS!Lose, Registered, Registering, FoundAll, ReadAll, FoundOf, ReadOf
    <3> QED
      BY <3>2 DEF NS!Next
  <2> QED
    BY <1>5, <2>4, <2>5 DEF Put
<1>6. ASSUME NEW c \in Conns, PeerReads(c) PROVE NS!Next \/ UNCHANGED NS!vars
  <2>1. /\ pc[c] = "sent" /\ UNCHANGED <<content, peer, wanted, entered>>
        /\ told[c] = Unread /\ content[c] # None /\ pc' = [pc EXCEPT ![c] = "done"]
        /\ told' = [told EXCEPT ![c] = Reads(c)]
    BY <1>6 DEF PeerReads
  <2>2. Reads(c) \in {content[c], Garbled}
    BY DEF Reads
  <2>3. Registering' = Registering /\ Registered' = Registered /\ FoundAll' = FoundAll
    BY <2>1 DEF Registering, Registered, FoundAll, FoundOf
  <2>4. CASE peer[c] \in Relays
    <3>1. wanted[c] \in AllNames /\ content[c] \in Addresses \cup {NotFound}
      BY <2>1, <2>4
    <3>2. FoundAll[c] = <<wanted[c], content[c]>> /\ FoundAll[c] # Unread
      BY <2>1, <2>4, <3>1 DEF FoundAll, FoundOf
    <3>3. ReadAll[c] = Unread /\ ReadAll' = [ReadAll EXCEPT ![c] = Reads(c)]
      <4>1. Reads(c) # Nothing
        BY <2>2, <3>1
      <4> QED
        BY <2>1, <2>4, <4>1 DEF ReadAll, ReadOf
    <3>4. Reads(c) \in {FoundAll[c][2], Garbled}
      BY <2>2, <3>2
    <3>5. NS!Read(c)
      <4> HIDE <1>0 DEF TypeOK, ConnInv
      <4> QED
        BY <2>3, <3>2, <3>3, <3>4
           DEF NS!Read, Registered, Registering, FoundAll, ReadAll, FoundOf, ReadOf
    <3> QED
      BY <3>5 DEF NS!Next
  <2>5. CASE peer[c] \notin Relays
    <3>1. \A d \in Conns : FoundOf(d)' = FoundOf(d) /\ ReadOf(d)' = ReadOf(d)
      BY <2>1, <2>5 DEF FoundOf, ReadOf
    <3> QED
      BY <2>1, <2>3, <3>1, NameServiceStutter
  <2> QED
    BY <2>4, <2>5
<1>7. ASSUME NEW c \in Conns, PeerGivesUp(c) PROVE UNCHANGED NS!vars
  <2>1. /\ UNCHANGED <<content, peer, wanted, entered>> /\ told[c] = Unread
        /\ told' = [told EXCEPT ![c] = Nothing] /\ pc[c] = "refused"
        /\ pc' = [pc EXCEPT ![c] = "done"]
    BY <1>7 DEF PeerGivesUp
  <2>2. Registering' = Registering
    BY <2>1 DEF Registering
  <2>3. \A d \in Conns : FoundOf(d)' = FoundOf(d) /\ ReadOf(d)' = ReadOf(d)
    BY <2>1 DEF FoundOf, ReadOf
  <2> QED
    BY <2>1, <2>2, <2>3, NameServiceStutter
<1>8. CASE UNCHANGED vars
  <2>1. UNCHANGED <<content, peer, wanted, told, entered, pc>>
    BY <1>8 DEF vars
  <2>2. Registering' = Registering
    BY <2>1 DEF Registering
  <2> QED
    BY <2>1, <2>2, NameServiceStutter DEF FoundOf, ReadOf
<1> QED
  BY <1>1, <1>2, <1>3, <1>4, <1>5, <1>6, <1>7, <1>8 DEF Next, ServerStep, PeerStep

-----------------------------------------------------------------------------
(* Modular powers (module Rsa). *)

\* What fits into a word is not cut.
LEMMA Uncut ==
    ASSUME NEW x \in Nat
    PROVE  /\ x < 2^Word => Unsigned(x) = x
           /\ x < 2^(Word - 1) => Signed(x) = x
<1> DEFINE h == 2^(Word - 1)
           w == 2^Word
<1>1. h \in Nat \ {0} /\ w = 2 * h
  BY WordAssumption
<1> HIDE DEF h, w
<1>2. w \in Nat \ {0}
  BY <1>1
<1>3. ASSUME NEW y \in Nat, y < w PROVE y % w = y
  BY <1>2, <1>3, SmallRemainder
<1>4. ASSUME x < h PROVE ((x + h) % w) - h = x
  <2>1. (x + h) % w = x + h
    BY <1>1, <1>3, <1>4
  <2> QED
    BY <1>1, <2>1
<1> QED
  BY <1>3, <1>4 DEF Unsigned, Signed, h, w

\* The bits of the exponent run out.
LEMMA Halved == \A e \in Nat : e # 0 => e \div 2 \in Nat /\ e \div 2 < e
  OBVIOUS

LEMMA KotlinRounds ==
    ASSUME NEW s \in PowStates(Nat)
    PROVE  /\ KotlinRound(s) \in PowStates(Nat)
           /\ KotlinRound(s).exp = s.exp \div 2
<1> DEFINE n == s.modulus
<1>0. n \in Nat \ {0} /\ s.base \in Nat /\ s.result \in Nat /\ s.exp \in Nat
  BY DEF PowStates
<1>1. ASSUME NEW x \in Nat PROVE Unsigned(x) % n \in Nat
  <2>1. 2^Word \in Nat \ {0}
    BY WordAssumption
  <2> DEFINE w == 2^Word
  <2>2. x % w \in Nat
    <3> HIDE DEF w
    <3> QED
      BY <2>1, Division DEF w
  <2> DEFINE y == x % w
  <2> HIDE DEF y, n
  <2>3. y % n \in Nat
    BY <1>0, <2>2, Division DEF y
  <2> QED
    BY <2>3 DEF Unsigned, y
<1>2. s.base * s.base \in Nat /\ s.result * s.base \in Nat
  BY <1>0
<1>3. /\ KotlinTimes(s.base, s.base, n) \in Nat /\ KotlinTimes(s.result, s.base, n) \in Nat
      /\ s.exp \div 2 \in Nat
  BY <1>0, <1>1, <1>2 DEF KotlinTimes
<1> QED
  BY <1>0, <1>3 DEF KotlinRound, Round, PowStates

LEMMA CppRounds ==
    ASSUME NEW s \in PowStates(Int)
    PROVE  /\ CppRound(s) \in PowStates(Int)
           /\ CppRound(s).exp = s.exp \div 2
<1> DEFINE n == s.modulus
<1>0. n \in Nat \ {0} /\ s.base \in Int /\ s.result \in Int /\ s.exp \in Nat
  BY DEF PowStates
<1>1. ASSUME NEW x \in Int PROVE Remainder(Signed(x), n) \in Int
  <2> DEFINE h == 2^(Word - 1)
             w == 2^Word
  <2>1. h \in Nat /\ w \in Nat \ {0}
    BY WordAssumption
  <2> DEFINE y == Signed(x)
  <2>2. y \in Int
    <3> HIDE DEF h, w
    <3>1. (x + h) \in Int
      BY <2>1
    <3>2. ((x + h) % w) - h \in Int
      BY <2>1, <3>1
    <3> QED
      BY <3>2 DEF Signed, h, w
  <2> HIDE DEF y, n
  <2>3. Remainder(y, n) \in Int
    BY <1>0, <2>2 DEF Remainder
  <2> QED
    BY <2>3 DEF y
<1>2. s.base * s.base \in Int /\ s.result * s.base \in Int
  BY <1>0
<1>3. /\ CppTimes(s.base, s.base, n) \in Int /\ CppTimes(s.result, s.base, n) \in Int
      /\ s.exp \div 2 \in Nat
  BY <1>0, <1>1, <1>2 DEF CppTimes
<1> QED
  BY <1>0, <1>3 DEF CppRound, Round, PowStates

\* The two functions are what their definitions say.
LEMMA KotlinLoopIs ==
    \A s \in PowStates(Nat) :
        KotlinLoop[s] = IF s.exp = 0 THEN s.result ELSE KotlinLoop[KotlinRound(s)]
<1> DEFINE D == PowStates(Nat)
           stop == {s \in D : s.exp = 0}
           mu == [s \in D |-> s.exp]
           val == [s \in D |-> s.result]
           next == [s \in D |-> KotlinRound(s)]
           Is(f) == f = [s \in D |-> IF s.exp = 0 THEN s.result ELSE f[KotlinRound(s)]]
<1>0. \A s \in D : s.exp \in Nat /\ s.result \in Nat
  BY DEF PowStates
<1>1. val \in [D -> Nat]
  BY <1>0
<1>2. Ends(D, mu, stop, next)
  BY <1>0, KotlinRounds, Halved DEF Ends
<1>3. \E f \in [D -> Nat] : Runs(f, D, stop, val, next)
  <2> HIDE DEF D, mu, val, next, stop
  <2> QED
    BY <1>1, <1>2, LoopExists
<1>4. \E f : Is(f)
  <2>1. PICK f \in [D -> Nat] : Runs(f, D, stop, val, next)
    BY <1>3
  <2>2. \A s \in D : f[s] = IF s.exp = 0 THEN s.result ELSE f[KotlinRound(s)]
    BY <2>1 DEF Runs
  <2>3. Is(f)
    <3> HIDE DEF D
    <3> QED
      BY <2>2
  <2> QED
    BY <2>3
<1>5. KotlinLoop = CHOOSE f : Is(f)
  BY DEF KotlinLoop
<1>6. Is(KotlinLoop)
  <2> HIDE DEF Is
  <2> QED
    BY <1>4, <1>5
<1> HIDE DEF D
<1> QED
  BY <1>6 DEF D

LEMMA CppLoopIs ==
    \A s \in PowStates(Int) :
        CppLoop[s] = IF s.exp = 0 THEN s.result ELSE CppLoop[CppRound(s)]
<1> DEFINE D == PowStates(Int)
           stop == {s \in D : s.exp = 0}
           mu == [s \in D |-> s.exp]
           val == [s \in D |-> s.result]
           next == [s \in D |-> CppRound(s)]
           Is(f) == f = [s \in D |-> IF s.exp = 0 THEN s.result ELSE f[CppRound(s)]]
<1>0. \A s \in D : s.exp \in Nat /\ s.result \in Int
  BY DEF PowStates
<1>1. val \in [D -> Int]
  BY <1>0
<1>2. Ends(D, mu, stop, next)
  BY <1>0, CppRounds, Halved DEF Ends
<1>3. \E f \in [D -> Int] : Runs(f, D, stop, val, next)
  <2> HIDE DEF D, mu, val, next, stop
  <2> QED
    BY <1>1, <1>2, LoopExists
<1>4. \E f : Is(f)
  <2>1. PICK f \in [D -> Int] : Runs(f, D, stop, val, next)
    BY <1>3
  <2>2. \A s \in D : f[s] = IF s.exp = 0 THEN s.result ELSE f[CppRound(s)]
    BY <2>1 DEF Runs
  <2>3. Is(f)
    <3> HIDE DEF D
    <3> QED
      BY <2>2
  <2> QED
    BY <2>3
<1>5. CppLoop = CHOOSE f : Is(f)
  BY DEF CppLoop
<1>6. Is(CppLoop)
  <2> HIDE DEF Is
  <2> QED
    BY <1>4, <1>5
<1> HIDE DEF D
<1> QED
  BY <1>6 DEF D

\* Loop states whose products stay below a limit.
Fits(limit) ==
    {s \in PowStates(Nat) : /\ s.result < s.modulus /\ s.modulus * s.modulus < limit
                            /\ s.base * s.base < limit /\ s.result * s.base < limit}

\* The remainder of the e-th power of b is base ^ exp * result.
Computes(s, b, e, n) ==
    /\ s.modulus = n
    /\ \E i \in Nat, j \in Nat : /\ s.base % n = Powers(b)[i] % n
                                 /\ s.result % n = Powers(b)[j] % n
                                 /\ i * s.exp + j = e

PlainRound(s) == Round(s, (s.base * s.base) % s.modulus, (s.result * s.base) % s.modulus)

LEMMA Products ==
    ASSUME NEW a \in Nat, NEW b \in Nat, NEW n \in Nat, a <= n, b <= n
    PROVE  a * b <= n * n
<1>1. a * b <= n * b
  OBVIOUS
<1>2. n * b <= n * n
  OBVIOUS
<1> QED
  BY <1>1, <1>2

LEMMA PlainRounds ==
    ASSUME NEW limit \in Nat, NEW s \in Fits(limit)
    PROVE  PlainRound(s) \in Fits(limit)
<1> DEFINE n == s.modulus
           b == s.base
           r == s.result
           c == (b * b) % n
           q == IF s.exp % 2 = 1 THEN (r * b) % n ELSE r
<1>1. /\ n \in Nat \ {0} /\ b \in Nat /\ r \in Nat /\ s.exp \in Nat
      /\ r < n /\ n * n < limit /\ b * b < limit /\ r * b < limit
  BY DEF Fits, PowStates
<1>2. b * b \in Nat /\ r * b \in Nat
  BY <1>1
<1>3. \A x \in Nat : x % n \in 0 .. n - 1
  <2> HIDE DEF n
  <2> QED
    BY <1>1, Division
<1>4. c \in Nat /\ c < n /\ (r * b) % n \in Nat /\ (r * b) % n < n
  <2> HIDE DEF n
  <2> QED
    BY <1>1, <1>2, <1>3
<1>5. q \in Nat /\ q < n
  BY <1>1, <1>4
<1>6. s.exp \div 2 \in Nat
  BY <1>1
<1>7. /\ PlainRound(s) \in PowStates(Nat) /\ PlainRound(s).modulus = n
      /\ PlainRound(s).base = c /\ PlainRound(s).result = q
  BY <1>1, <1>4, <1>6 DEF PlainRound, Round, Fits, PowStates
<1> HIDE DEF n, b, r, c, q
<1>8. c * c <= n * n /\ q * c <= n * n
  BY <1>1, <1>4, <1>5, Products
<1>9. c * c < limit /\ q * c < limit
  <2>1. c * c \in Nat /\ q * c \in Nat /\ n * n \in Nat
    BY <1>1, <1>4, <1>5
  <2> QED
    BY <1>1, <1>8, <2>1
<1> QED
  BY <1>1, <1>5, <1>7, <1>9 DEF Fits

LEMMA PlainComputes ==
    ASSUME NEW limit \in Nat, NEW s \in Fits(limit), s.exp # 0,
           NEW b \in Nat, NEW e \in Nat, NEW n \in Nat \ {0}, Computes(s, b, e, n)
    PROVE  Computes(PlainRound(s), b, e, n)
<1> DEFINE P == Powers(b)
           h == s.exp \div 2
           c == (s.base * s.base) % n
           q == (s.result * s.base) % n
<1>1. /\ s.modulus = n /\ s.base \in Nat /\ s.result \in Nat /\ s.exp \in Nat
      /\ s \in PowStates(Nat)
  BY DEF Fits, PowStates, Computes
<1>2. PICK i \in Nat, j \in Nat :
          s.base % n = P[i] % n /\ s.result % n = P[j] % n /\ i * s.exp + j = e
  BY DEF Computes
<1>3. P \in [Nat -> Nat] /\ P[i + i] = P[i] * P[i] /\ P[j + i] = P[j] * P[i]
  BY PowersAre, PowersAdd
<1>4. h \in Nat /\ (s.exp = 2 * h \/ (s.exp = 2 * h + 1 /\ s.exp % 2 = 1))
      /\ (s.exp % 2 = 1 => s.exp = 2 * h + 1)
  <2>1. \A x \in Nat : /\ x \div 2 \in Nat
                       /\ x = 2 * (x \div 2) \/ (x = 2 * (x \div 2) + 1 /\ x % 2 = 1)
                       /\ x % 2 = 1 => x = 2 * (x \div 2) + 1
    OBVIOUS
  <2> QED
    BY <1>1, <2>1
<1> HIDE DEF P, h
<1>5. \A x \in Nat : (x % n) % n = x % n
  <2> SUFFICES ASSUME NEW x \in Nat PROVE (x % n) % n = x % n
    OBVIOUS
  <2>1. x % n \in 0 .. n - 1
    BY Division
  <2> QED
    BY <2>1, SmallRemainder
<1>6. c % n = P[i + i] % n /\ q % n = P[j + i] % n
  <2>1. P[i] \in Nat /\ P[j] \in Nat /\ s.base * s.base \in Nat /\ s.result * s.base \in Nat
    BY <1>1, <1>3
  <2>5. /\ s.base \in Int /\ s.result \in Int /\ P[i] \in Int /\ P[j] \in Int
        /\ Congruent(s.base, P[i], n) /\ Congruent(s.result, P[j], n)
    BY <1>1, <1>2, <2>1 DEF Congruent
  <2>2. Congruent(s.base * s.base, P[i] * P[i], n)
    BY <2>5, CongruentProduct
  <2>3. Congruent(s.result * s.base, P[j] * P[i], n)
    BY <2>5, CongruentProduct
  <2>4. c % n = c /\ q % n = q
    BY <1>5, <2>1
  <2> QED
    BY <1>3, <2>2, <2>3, <2>4 DEF Congruent
<1>7. /\ PlainRound(s).modulus = n /\ PlainRound(s).base = c /\ PlainRound(s).exp = h
      /\ PlainRound(s).result = IF s.exp % 2 = 1 THEN q ELSE s.result
  BY <1>1 DEF PlainRound, Round, PowStates, h
<1> HIDE DEF c, q
<1>8. CASE s.exp % 2 = 1
  <2>1. (i + i) * h + (j + i) = e
    <3>1. s.exp = 2 * h + 1
      BY <1>4, <1>8
    <3>2. i * (2 * h + 1) + j = e
      BY <1>2, <3>1
    <3> QED
      BY <1>4, <3>2
  <2> QED
    BY <1>6, <1>7, <1>8, <2>1 DEF Computes, P
<1>9. CASE s.exp % 2 # 1
  <2>1. (i + i) * h + j = e
    <3>1. s.exp = 2 * h
      BY <1>4, <1>9
    <3>2. i * (2 * h) + j = e
      BY <1>2, <3>1
    <3> QED
      BY <1>4, <3>2
  <2> QED
    BY <1>2, <1>6, <1>7, <1>9, <2>1 DEF Computes, P
<1> QED
  BY <1>8, <1>9

\* A loop whose rounds are plain as long as its products fit computes powers.
LEMMA PlainLoop ==
    ASSUME NEW limit \in Nat, NEW W, Nat \subseteq W, NEW f, NEW round,
           \A s \in PowStates(W) : f[s] = IF s.exp = 0 THEN s.result ELSE f[round[s]],
           \A s \in Fits(limit) : round[s] = PlainRound(s),
           NEW b \in Nat, NEW e \in Nat, NEW n \in Nat \ {0, 1}, b < n, n * n < limit
    PROVE  f[Start(b, e, n)] = Powers(b)[e] % n
<1> DEFINE D == Fits(limit)
           stop == {s \in D : s.exp = 0}
           mu == [s \in D |-> s.exp]
           val == [s \in D |-> s.result]
           next == [s \in D |-> PlainRound(s)]
           I == {s \in D : Computes(s, b, e, n)}
           s0 == Start(b, e, n)
<1>1. \A s \in D : s \in PowStates(Nat) /\ s \in PowStates(W) /\ s.exp \in Nat
  BY DEF Fits, PowStates
<1>2. Ends(D, mu, stop, next)
  <2>1. \A s \in D : PlainRound(s).exp = s.exp \div 2
    BY DEF PlainRound, Round, Fits, PowStates
  <2> QED
    BY <1>1, <2>1, PlainRounds, Halved DEF Ends
<1>3. Runs(f, D, stop, val, next)
  BY <1>1 DEF Runs
<1>4. \A s \in I \ stop : next[s] \in I
  <2> SUFFICES ASSUME NEW s \in D, s.exp # 0, Computes(s, b, e, n)
               PROVE  PlainRound(s) \in I
    OBVIOUS
  <2> QED
    BY PlainRounds, PlainComputes
<1>5. s0 \in I
  <2>1. b * b <= n * n /\ 1 * b <= n * n
    BY Products
  <2>2. b * b \in Nat /\ 1 * b \in Nat /\ n * n \in Nat
    OBVIOUS
  <2>3. b * b < limit /\ 1 * b < limit
    BY <2>1, <2>2
  <2>4. s0 \in D
    BY <2>3 DEF Fits, Start, PowStates
  <2>5. Powers(b)[1] = b /\ Powers(b)[0] = 1
    <3>1. Powers(b)[0 + 1] = b * Powers(b)[0] /\ Powers(b)[0] = 1
      BY PowersAre
    <3> QED
      BY <3>1
  <2>6. 1 * e + 0 = e
    OBVIOUS
  <2>7. Computes(s0, b, e, n)
    BY <2>5, <2>6 DEF Computes, Start
  <2> QED
    BY <2>4, <2>7
<1>6. \A y \in I \cap stop : val[y] = Powers(b)[e] % n
  <2> SUFFICES ASSUME NEW y \in D, y.exp = 0, Computes(y, b, e, n)
               PROVE  y.result = Powers(b)[e] % n
    OBVIOUS
  <2>1. y.modulus = n /\ y.result \in 0 .. n - 1 /\ y.result % n = y.result
    BY SmallRemainder DEF Computes, Fits, PowStates
  <2>2. PICK i \in Nat, j \in Nat : y.result % n = Powers(b)[j] % n /\ i * y.exp + j = e
    BY DEF Computes
  <2>3. j = e
    BY <2>2
  <2> QED
    BY <2>1, <2>2, <2>3
<1>7. I \in SUBSET D
  OBVIOUS
<1> HIDE DEF D, stop, mu, val, next, I, s0
<1>8. \A s \in I : \E y \in I \cap stop : f[s] = val[y]
  BY <1>2, <1>3, <1>4, <1>7, LoopEnds
<1> QED
  BY <1>5, <1>6, <1>8 DEF s0

\* The mapping server's program computes powers as long as the square of the modulus fits
\* into an unsigned word.
THEOREM KotlinPower ==
    ASSUME NEW b \in Nat, NEW e \in Nat, NEW n \in Nat \ {0, 1}, b < n, n * n < 2^Word
    PROVE  KotlinPow(b, e, n) = Powers(b)[e] % n
<1> DEFINE limit == 2^Word
           round == [s \in PowStates(Nat) |-> KotlinRound(s)]
<1>1. limit \in Nat
  BY WordAssumption
<1>2. \A s \in PowStates(Nat) :
          KotlinLoop[s] = IF s.exp = 0 THEN s.result ELSE KotlinLoop[round[s]]
  BY KotlinLoopIs
<1>3. ASSUME NEW s \in Fits(limit) PROVE round[s] = PlainRound(s)
  <2>1. s \in PowStates(Nat) /\ s.base * s.base \in Nat /\ s.result * s.base \in Nat
    BY DEF Fits, PowStates
  <2>2. s.base * s.base < 2^Word /\ s.result * s.base < 2^Word
    BY DEF Fits
  <2>3. Unsigned(s.base * s.base) = s.base * s.base
        /\ Unsigned(s.result * s.base) = s.result * s.base
    BY <2>1, <2>2, Uncut
  <2> QED
    BY <2>1, <2>3 DEF KotlinRound, KotlinTimes, PlainRound
<1> HIDE DEF limit, round
<1> QED
  BY <1>1, <1>2, <1>3, PlainLoop DEF KotlinPow, limit

\* The other program has one bit less.
THEOREM CppPower ==
    ASSUME NEW b \in Nat, NEW e \in Nat, NEW n \in Nat \ {0, 1}, b < n, n * n < 2^(Word - 1)
    PROVE  CppPow(b, e, n) = Powers(b)[e] % n
<1> DEFINE limit == 2^(Word - 1)
           round == [s \in PowStates(Int) |-> CppRound(s)]
<1>1. limit \in Nat
  BY WordAssumption
<1>2. \A s \in PowStates(Int) :
          CppLoop[s] = IF s.exp = 0 THEN s.result ELSE CppLoop[round[s]]
  BY CppLoopIs
<1>3. ASSUME NEW s \in Fits(limit) PROVE round[s] = PlainRound(s)
  <2>1. /\ s \in PowStates(Nat) /\ s \in PowStates(Int)
        /\ s.base * s.base \in Nat /\ s.result * s.base \in Nat
    BY DEF Fits, PowStates
  <2>2. s.base * s.base < 2^(Word - 1) /\ s.result * s.base < 2^(Word - 1)
    BY DEF Fits
  <2>3. Signed(s.base * s.base) = s.base * s.base
        /\ Signed(s.result * s.base) = s.result * s.base
    BY <2>1, <2>2, Uncut
  <2>4. \A x \in Nat, n1 \in Nat : Remainder(x, n1) = x % n1
    BY DEF Remainder
  <2> QED
    BY <2>1, <2>3, <2>4 DEF CppRound, CppTimes, PlainRound, PowStates
<1> HIDE DEF limit, round
<1> QED
  BY <1>1, <1>2, <1>3, PlainLoop DEF CppPow, limit

-----------------------------------------------------------------------------
(* The exponents of a key pair. *)

\* Euclid's algorithm comes to its end: Gcd is what its definition says.
LEMMA GcdIs ==
    \A p \in Nat \X Nat : Gcd[p] = IF p[2] = 0 THEN p[1] ELSE Gcd[<<p[2], p[1] % p[2]>>]
<1> DEFINE D == Nat \X Nat
           V == Nat
           stop == {p \in D : p[2] = 0}
           mu == [p \in D |-> p[2]]
           val == [p \in D |-> p[1]]
           next == [p \in D |-> <<p[2], p[1] % p[2]>>]
           Is(f) == f = [p \in D |-> IF p[2] = 0 THEN p[1] ELSE f[<<p[2], p[1] % p[2]>>]]
<1>1. val \in [D -> V]
  OBVIOUS
<1>2. Ends(D, mu, stop, next)
  <2>1. mu \in [D -> Nat] /\ stop \in SUBSET D
    OBVIOUS
  <2>2. ASSUME NEW p \in D \ stop PROVE next[p] \in D /\ mu[next[p]] < mu[p]
    <3>1. p[1] \in Nat /\ p[2] \in Nat \ {0}
      OBVIOUS
    <3>2. p[1] % p[2] \in 0 .. p[2] - 1
      BY <3>1, Division
    <3>3. next[p] = <<p[2], p[1] % p[2]>> /\ next[p] \in D
      BY <3>1, <3>2
    <3>4. mu[next[p]] = p[1] % p[2] /\ mu[p] = p[2]
      BY <3>3
    <3> QED
      BY <3>1, <3>2, <3>3, <3>4
  <2> QED
    BY <2>1, <2>2 DEF Ends
<1>3. \E f \in [D -> V] : Runs(f, D, stop, val, next)
  <2> HIDE DEF D, V, mu, val, next, stop
  <2> QED
    BY <1>1, <1>2, LoopExists
<1>4. \E f : Is(f)
  <2>1. PICK f \in [D -> V] : Runs(f, D, stop, val, next)
    BY <1>3
  <2>2. \A p \in D : f[p] = IF p[2] = 0 THEN p[1] ELSE f[<<p[2], p[1] % p[2]>>]
    BY <2>1 DEF Runs
  <2>3. Is(f)
    <3> HIDE DEF D, V
    <3> QED
      BY <2>1, <2>2
  <2> QED
    BY <2>3
<1>5. Gcd = CHOOSE f : Is(f)
  BY DEF Gcd
<1>6. Is(Gcd)
  <2> HIDE DEF Is
  <2> QED
    BY <1>4, <1>5
<1> HIDE DEF D
<1> QED
  BY <1>6 DEF D

\* A round of mod_inverse keeps what the two numbers have in common.
LEMMA EuclidRounds ==
    ASSUME NEW s \in EuclidStates, s.a > 1
    PROVE  s.m # 0 /\ EuclidRound(s) \in EuclidStates /\ EuclidRound(s).m < s.m
<1> DEFINE p == <<s.a, s.m>>
<1>1. s.a \in Nat /\ s.m \in Nat /\ s.x \in Int /\ s.y \in Int /\ Gcd[p] = 1
  BY DEF EuclidStates
<1>2. p \in Nat \X Nat /\ p[1] = s.a /\ p[2] = s.m
  BY <1>1
<1> HIDE DEF p
<1>3. s.m # 0 /\ Gcd[<<s.m, s.a % s.m>>] = 1
  BY <1>1, <1>2, GcdIs
<1>4. s.a % s.m \in 0 .. s.m - 1 /\ s.a \div s.m \in Nat
  BY <1>1, <1>3, Division
<1>5. s.x - (s.a \div s.m) * s.y \in Int
  BY <1>1, <1>4
<1> QED
  BY <1>1, <1>3, <1>4, <1>5 DEF EuclidStates, EuclidRound

LEMMA EuclidIs ==
    \A s \in EuclidStates : Euclid[s] = IF s.a <= 1 THEN s.x ELSE Euclid[EuclidRound(s)]
<1> DEFINE D == EuclidStates
           V == Int
           stop == {s \in D : s.a <= 1}
           mu == [s \in D |-> s.m]
           val == [s \in D |-> s.x]
           next == [s \in D |-> EuclidRound(s)]
           Is(f) == f = [s \in D |-> IF s.a <= 1 THEN s.x ELSE f[EuclidRound(s)]]
<1>0. \A s \in D : s.a \in Nat /\ s.m \in Nat /\ s.x \in Int
  BY DEF EuclidStates
<1>1. val \in [D -> V]
  BY <1>0
<1>2. Ends(D, mu, stop, next)
  BY <1>0, EuclidRounds DEF Ends
<1>3. \E f \in [D -> V] : Runs(f, D, stop, val, next)
  <2> HIDE DEF D, V, mu, val, next, stop
  <2> QED
    BY <1>1, <1>2, LoopExists
<1>4. \E f : Is(f)
  <2>1. PICK f \in [D -> V] : Runs(f, D, stop, val, next)
    BY <1>3
  <2>2. \A s \in D : f[s] = IF s.a <= 1 THEN s.x ELSE f[EuclidRound(s)]
    BY <2>1 DEF Runs
  <2>3. Is(f)
    <3> HIDE DEF D, V
    <3> QED
      BY <2>1, <2>2
  <2> QED
    BY <2>3
<1>5. Euclid = CHOOSE f : Is(f)
  BY DEF Euclid
<1>6. Is(Euclid)
  <2> HIDE DEF Is
  <2> QED
    BY <1>4, <1>5
<1> HIDE DEF D
<1> QED
  BY <1>6 DEF D

\* What x and y are worth between two rounds of mod_inverse(e, t): multiples of e that leave
\* the remainders a and m, of opposite signs and not larger than t.
Opposite(a, m, x, z, t) == x \in Nat /\ z \in Nat /\ a * z + m * x = t
Inverts(s, e, t) ==
    /\ s.a >= 1 /\ s.x \in -t .. t
    /\ \E u \in Int : e * s.x = s.a + u * t
    /\ \E v \in Int : e * s.y = s.m + v * t
    /\ Opposite(s.a, s.m, s.x, 0 - s.y, t) \/ Opposite(s.a, s.m, 0 - s.x, s.y, t)

LEMMA OppositeRound ==
    ASSUME NEW m \in Nat, NEW q \in Nat, NEW r \in Nat, NEW x, NEW z, NEW t \in Nat,
           Opposite(m * q + r, m, x, z, t)
    PROVE  Opposite(m, r, z, x + q * z, t)
<1>1. x \in Nat /\ z \in Nat /\ (m * q + r) * z + m * x = t
  BY DEF Opposite
<1>2. (m * q + r) * z = m * (q * z) + r * z
  BY <1>1
<1>3. m * (x + q * z) = m * x + m * (q * z)
  BY <1>1
<1>4. q * z \in Nat
  BY <1>1
<1>5. m * (x + q * z) + r * z = t
  <2> DEFINE A == m * (q * z)
             B == r * z
             C == m * x
  <2>1. A \in Int /\ B \in Int /\ C \in Int
    BY <1>1, <1>4
  <2>2. (A + B) + C = t /\ m * (x + q * z) = C + A
    BY <1>1, <1>2, <1>3
  <2> HIDE DEF A, B, C
  <2>3. (C + A) + B = t
    BY <2>1, <2>2
  <2> QED
    BY <2>2, <2>3 DEF B
<1> QED
  BY <1>1, <1>4, <1>5 DEF Opposite

LEMMA InvertsRound ==
    ASSUME NEW e \in Nat, NEW t \in Nat, NEW s \in EuclidStates, s.a > 1, Inverts(s, e, t)
    PROVE  Inverts(EuclidRound(s), e, t)
<1> DEFINE a == s.a
           m == s.m
           x == s.x
           y == s.y
           q == a \div m
           r == a % m
           w == x - q * y
<1>1. a \in Nat /\ m \in Nat \ {0} /\ x \in Int /\ y \in Int /\ a >= 1
  <2>1. s.m # 0
    BY EuclidRounds
  <2> QED
    BY <2>1 DEF EuclidStates
<1>2. q \in Nat /\ r \in Nat /\ a = m * q + r
  <2>1. a \div m \in Nat /\ (a % m) \in 0 .. m - 1 /\ a = m * (a \div m) + (a % m)
    <3> HIDE DEF a, m
    <3> QED
      BY <1>1, Division
  <2> HIDE DEF a, m
  <2>2. a % m \in Nat
    BY <1>1, <2>1
  <2> QED
    BY <2>1, <2>2
<1>3. /\ EuclidRound(s).a = m /\ EuclidRound(s).m = r
      /\ EuclidRound(s).x = y /\ EuclidRound(s).y = w
  BY DEF EuclidRound
<1>4. PICK u \in Int : e * x = a + u * t
  BY DEF Inverts
<1>5. PICK v \in Int : e * y = m + v * t
  BY DEF Inverts
<1>6. Opposite(a, m, x, 0 - y, t) \/ Opposite(a, m, 0 - x, y, t)
  BY DEF Inverts
<1> HIDE DEF a, m, x, y, q, r
<1>7. \E k \in Int : e * w = r + k * t
  <2> DEFINE k == u - q * v
  <2>1. k \in Int
    BY <1>2
  <2>2. e * w = e * x - q * (e * y)
    BY <1>1, <1>2
  <2>3. k * t = u * t - q * (v * t)
    BY <1>2
  <2>4. q * (e * y) = q * m + q * (v * t)
    <3>1. \A b \in Int : q * (m + b) = q * m + q * b
      BY <1>1, <1>2
    <3>2. v * t \in Int
      OBVIOUS
    <3> QED
      BY <1>5, <3>1, <3>2
  <2>5. e * w = r + k * t
    <3> DEFINE A == u * t
               B == q * (v * t)
               C == q * m
    <3>1. A \in Int /\ B \in Int /\ C \in Int /\ a = C + r /\ r \in Int
      BY <1>1, <1>2
    <3>2. e * w = (a + A) - (C + B) /\ k * t = A - B
      BY <1>4, <2>2, <2>3, <2>4
    <3> HIDE DEF A, B, C, k, w
    <3>3. (a + A) - (C + B) = r + (A - B)
      BY <3>1
    <3> QED
      BY <3>2, <3>3
  <2> HIDE DEF k
  <2> QED
    BY <2>1, <2>5
<1>8. Opposite(m, r, y, 0 - w, t) \/ Opposite(m, r, 0 - y, w, t)
  <2>1. CASE Opposite(a, m, x, 0 - y, t)
    <3>1. Opposite(m, r, 0 - y, x + q * (0 - y), t)
      BY <1>1, <1>2, <2>1, OppositeRound
    <3>2. x + q * (0 - y) = w
      BY <1>1, <1>2
    <3> QED
      BY <3>1, <3>2
  <2>2. CASE Opposite(a, m, 0 - x, y, t)
    <3>1. Opposite(m, r, y, (0 - x) + q * y, t)
      BY <1>1, <1>2, <2>2, OppositeRound
    <3>2. (0 - x) + q * y = 0 - w
      BY <1>1, <1>2
    <3> QED
      BY <3>1, <3>2
  <2> QED
    BY <1>6, <2>1, <2>2
<1>9. y \in -t .. t
  <2>1. \A i \in Nat, j \in Nat : Opposite(a, m, i, j, t) => j <= t
    <3> SUFFICES ASSUME NEW i \in Nat, NEW j \in Nat, a * j + m * i = t PROVE j <= t
      BY DEF Opposite
    <3>1. a * j >= j /\ m * i >= 0 /\ a * j \in Nat /\ m * i \in Nat
      BY <1>1
    <3> QED
      BY <3>1
  <2>2. CASE Opposite(a, m, x, 0 - y, t)
    <3>1. x \in Nat /\ 0 - y \in Nat
      BY <2>2 DEF Opposite
    <3>2. 0 - y <= t
      BY <2>1, <2>2, <3>1
    <3> QED
      BY <1>1, <3>1, <3>2
  <2>3. CASE Opposite(a, m, 0 - x, y, t)
    <3>1. 0 - x \in Nat /\ y \in Nat
      BY <2>3 DEF Opposite
    <3>2. y <= t
      BY <2>1, <2>3, <3>1
    <3> QED
      BY <1>1, <3>1, <3>2
  <2> QED
    BY <1>6, <2>2, <2>3
<1>10. m >= 1
  BY <1>1
<1>11. \E k \in Int : e * y = m + k * t
  BY <1>5
<1> DEFINE next == EuclidRound(s)
<1> HIDE DEF w, next
<1> QED
  BY <1>3, <1>7, <1>8, <1>9, <1>10, <1>11 DEF Inverts, next

\* mod_inverse finds the private exponent of every public one.
THEOREM InverseFound ==
    ASSUME NEW t \in Nat, NEW e \in Exponents(t)
    PROVE  ModInverse(e, t) \in 1 .. t - 1 /\ (e * ModInverse(e, t)) % t = 1
<1> DEFINE D == EuclidStates
           stop == {s \in D : s.a <= 1}
           mu == [s \in D |-> s.m]
           val == [s \in D |-> s.x]
           next == [s \in D |-> EuclidRound(s)]
           I == {s \in D : Inverts(s, e, t)}
           s0 == [a |-> e, m |-> t, x |-> 1, y |-> 0]
           x0 == Euclid[s0]
<1>1. e \in Nat /\ e >= 2 /\ e < t /\ Gcd[<<e, t>>] = 1 /\ t >= 3
  <2>1. e \in 2 .. t - 1 /\ Gcd[<<e, t>>] = 1
    BY Zenon DEF Exponents
  <2> QED
    BY <2>1
<1>2. Ends(D, mu, stop, next)
  <2>1. \A s \in D : s.a \in Nat /\ s.m \in Nat
    BY DEF EuclidStates
  <2> QED
    BY <2>1, EuclidRounds DEF Ends
<1>3. Runs(Euclid, D, stop, val, next)
  BY EuclidIs DEF Runs
<1>4. \A s \in I \ stop : next[s] \in I
  <2> SUFFICES ASSUME NEW s \in D, ~ (s.a <= 1), Inverts(s, e, t) PROVE EuclidRound(s) \in I
    OBVIOUS
  <2>1. s.a > 1
    BY DEF EuclidStates
  <2> QED
    BY <1>1, <2>1, EuclidRounds, InvertsRound
<1>5. s0 \in I
  <2>1. s0 \in D
    BY <1>1 DEF EuclidStates
  <2>2. (\E u \in Int : e * 1 = e + u * t) /\ (\E v \in Int : e * 0 = t + v * t)
    <3>1. e * 1 = e + 0 * t
      BY <1>1
    <3>2. e * 0 = t + (-1) * t
      BY <1>1
    <3> QED
      BY <3>1, <3>2
  <2>3. e * 0 + t * 1 = t
    BY <1>1
  <2>4. Opposite(e, t, 1, 0, t)
    BY <2>3 DEF Opposite
  <2>5. Inverts(s0, e, t)
    <3>1. 0 - 0 = 0
      OBVIOUS
    <3> QED
      BY <1>1, <2>2, <2>4, <3>1 DEF Inverts
  <2> QED
    BY <2>1, <2>5
<1>6. ASSUME NEW s \in I \cap stop PROVE val[s] \in -t .. t /\ \E u \in Int : e * val[s] = 1 + u * t
  <2>1. s.a = 1 /\ val[s] = s.x /\ Inverts(s, e, t)
    BY DEF Inverts, EuclidStates
  <2> QED
    BY <2>1 DEF Inverts
<1>7. I \in SUBSET D
  OBVIOUS
<1> HIDE DEF D, stop, mu, val, next, I, s0, x0
<1>8. \A s \in I : \E y \in I \cap stop : Euclid[s] = val[y]
  BY <1>2, <1>3, <1>4, <1>7, LoopEnds
<1>9. x0 \in -t .. t
  BY <1>5, <1>6, <1>8 DEF x0
<1>10. PICK u \in Int : e * x0 = 1 + u * t
  BY <1>5, <1>6, <1>8 DEF x0
<1> DEFINE d == IF x0 < 0 THEN x0 + t ELSE x0
<1>11. ModInverse(e, t) = d
  BY DEF ModInverse, s0, x0
<1>12. d \in 0 .. t
  BY <1>9
<1>13. PICK v \in Int : e * d = 1 + v * t
  <2>1. CASE x0 < 0
    <3>1. e * (x0 + t) = e * x0 + e * t
      BY <1>1, <1>9
    <3>2. (u + e) * t = u * t + e * t
      BY <1>1
    <3>3. e * d = 1 + (u + e) * t
      BY <1>1, <1>10, <2>1, <3>1, <3>2
    <3>4. u + e \in Int
      BY <1>1
    <3> HIDE DEF d
    <3> QED
      BY <3>3, <3>4
  <2>2. CASE ~ (x0 < 0)
    BY <1>10, <2>2
  <2> QED
    BY <2>1, <2>2
<1> HIDE DEF d
<1> DEFINE g == e * d
<1>14. g \in Int /\ t \in Nat \ {0} /\ g = 1 + v * t
  BY <1>1, <1>12, <1>13
<1> HIDE DEF g
<1>15. g % t = 1
  <2>1. g % t = 1 % t
    BY <1>14, SameRemainder
  <2>2. 1 % t = 1
    BY <1>1, SmallRemainder
  <2> QED
    BY <2>1, <2>2
<1>16. d # 0 /\ d # t
  <2>1. ASSUME d = 0 \/ d = t PROVE FALSE
    <3>1. \E w \in Int : g = 0 + w * t
      <4>1. e * 0 = 0 + 0 * t /\ e * t = 0 + e * t
        BY <1>1
      <4> QED
        BY <1>1, <2>1, <4>1 DEF g
    <3>2. g % t = 0 % t
      BY <1>14, <3>1, SameRemainder
    <3>3. 0 % t = 0
      BY <1>1, SmallRemainder
    <3> QED
      BY <1>15, <3>2, <3>3
  <2> QED
    BY <2>1
<1> QED
  BY <1>11, <1>12, <1>15, <1>16 DEF g

\* calculateD finds a private exponent of every public one, too: its search has an end.
THEOREM SearchFound ==
    ASSUME NEW t \in Nat, NEW e \in Exponents(t)
    PROVE  CalculateD(e, t) \in Nat /\ (e * CalculateD(e, t)) % t = 1
<1> DEFINE d == ModInverse(e, t)
           Ks == {k \in 1 .. e : (k * t + 1) % e = 0}
           g == e * d
<1>1. e \in Nat /\ e >= 2 /\ e < t /\ t \in Nat \ {0}
  <2>1. e \in 2 .. t - 1
    BY Zenon DEF Exponents
  <2> QED
    BY <2>1
<1>2. d \in 1 .. t - 1 /\ g % t = 1
  BY InverseFound
<1> HIDE DEF d
<1>3. g \in Nat /\ g >= e /\ g <= e * (t - 1)
  <2>1. \A i \in Nat, j \in Nat : i >= 1 /\ i <= j => e * i >= e /\ e * i <= e * j
    BY <1>1
  <2> QED
    BY <1>1, <1>2, <2>1
<1> DEFINE u == g \div t
<1>4. u \in Nat /\ g = t * u + 1
  <2> HIDE DEF g
  <2> QED
    BY <1>1, <1>2, <1>3, Division
<1> HIDE DEF u
<1>5. u \in 1 .. e
  <2>1. u # 0
    <3>1. t * 0 + 1 = 1
      BY <1>1
    <3> HIDE DEF g
    <3> QED
      BY <1>1, <1>3, <1>4, <3>1
  <2>2. ~ (u > e)
    <3> SUFFICES ASSUME u > e PROVE FALSE
      OBVIOUS
    <3>1. t * u >= t * e
      BY <1>1, <1>4
    <3>2. e * (t - 1) = t * e - e /\ t * e \in Nat
      BY <1>1
    <3> HIDE DEF g
    <3> QED
      BY <1>1, <1>3, <1>4, <3>1, <3>2
  <2> QED
    BY <1>1, <1>4, <2>1, <2>2
<1>6. Ks # {}
  <2>1. u * t + 1 = g /\ g = 0 + d * e /\ d \in Int /\ e \in Nat \ {0}
    BY <1>1, <1>2, <1>4
  <2>2. g % e = 0 % e
    <3> HIDE DEF g
    <3> QED
      BY <1>3, <2>1, SameRemainder
  <2>3. 0 % e = 0
    BY <1>1, SmallRemainder
  <2>4. (u * t + 1) % e = 0
    BY <2>1, <2>2, <2>3
  <2> QED
    BY <1>5, <2>4
<1> DEFINE k == Min(Ks)
<1>7. k \in Ks
  <2>1. Ks \subseteq Nat
    OBVIOUS
  <2> HIDE DEF Ks
  <2> QED
    BY <1>6, <2>1, MinIsLeast
<1> DEFINE h == k * t + 1
           D == h \div e
<1>8. k \in Nat /\ h \in Nat /\ h % e = 0
  <2> HIDE DEF k
  <2> QED
    BY <1>1, <1>7
<1>9. CalculateD(e, t) = D
  BY DEF CalculateD, Min
<1>10. D \in Nat /\ h = e * D
  <2>1. D \in Nat /\ h = e * D + 0
    <3> HIDE DEF h
    <3>1. h \div e \in Nat /\ h = e * (h \div e) + (h % e)
      <4>1. e \in Nat \ {0}
        BY <1>1
      <4> QED
        BY <1>8, <4>1, Division
    <3> QED
      BY <1>8, <3>1
  <2> HIDE DEF D, h
  <2> QED
    BY <1>1, <2>1
<1> HIDE DEF D, k
<1>11. (e * D) % t = 1
  <2>1. e * D = 1 + k * t /\ e * D \in Int
    BY <1>1, <1>8, <1>10
  <2> DEFINE w == e * D
  <2>2. w = 1 + k * t /\ w \in Int
    BY <2>1
  <2> HIDE DEF w
  <2>3. w % t = 1 % t
    BY <1>1, <1>8, <2>2, SameRemainder
  <2>4. 1 % t = 1
    BY <1>1, SmallRemainder
  <2> QED
    BY <2>3, <2>4 DEF w
<1> QED
  BY <1>9, <1>10, <1>11

-----------------------------------------------------------------------------
(* The totient of the product of two primes. *)

\* Trial division up to the square root finds the primes.
LEMMA PrimesFound ==
    ASSUME NEW n \in Nat, IsPrime(n)
    PROVE  Prime(n)
<1> SUFFICES ASSUME NEW d \in 2 .. n - 1, Divides(d, n) PROVE FALSE
  BY DEF IsPrime, Prime
<1>1. n > 1 /\ \A i \in 2 .. n - 1 : i * i <= n => n % i # 0
  BY DEF IsPrime
<1>2. PICK k \in Int : n = d * k
  BY DEF Divides
<1>3. k \in 2 .. n - 1
  <2>1. k <= 0 => d * k <= 0
    OBVIOUS
  <2>2. k = 1 => d * k = d
    OBVIOUS
  <2>3. k >= n => d * k >= 2 * k
    OBVIOUS
  <2> QED
    BY <1>1, <1>2, <2>1, <2>2, <2>3
<1>4. Divides(k, n)
  <2>1. n = k * d /\ d \in Int
    BY <1>2, <1>3
  <2> QED
    BY <2>1 DEF Divides
<1>5. n % d = 0 /\ n % k = 0
  <2>1. n \in Int /\ d \in Nat \ {0} /\ k \in Nat \ {0}
    BY <1>3
  <2> QED
    BY <1>4, <2>1, DividesIs
<1>6. d <= k => d * d <= n
  BY <1>2, <1>3
<1>7. k <= d => k * k <= n
  BY <1>2, <1>3
<1>8. d <= k \/ k <= d
  BY <1>3
<1>9. ~ (d * d <= n) /\ ~ (k * k <= n)
  BY <1>1, <1>3, <1>5, Zenon
<1> QED
  BY <1>6, <1>7, <1>8, <1>9, Zenon

\* n without its factors i.
Pairs == (Nat \ {0}) \X (Nat \ {0, 1})

LEMMA WithoutIs ==
    \A x \in Pairs :
        /\ Without[x] = IF x[1] % x[2] = 0 THEN Without[<<x[1] \div x[2], x[2]>>] ELSE x[1]
        /\ Without[x] \in Nat \ {0} /\ Without[x] <= x[1]
<1> DEFINE D == Pairs
           V == Nat \ {0}
           stop == {x \in D : x[1] % x[2] # 0}
           mu == [x \in D |-> x[1]]
           val == [x \in D |-> x[1]]
           next == [x \in D |-> <<x[1] \div x[2], x[2]>>]
           Is(f) == f = [x \in D |-> IF x[1] % x[2] = 0 THEN f[<<x[1] \div x[2], x[2]>>]
                                     ELSE x[1]]
<1>1. \A x \in D : x[1] \in Nat \ {0} /\ x[2] \in Nat \ {0, 1}
  BY DEF Pairs
<1>2. ASSUME NEW x \in D, x[1] % x[2] = 0
      PROVE  <<x[1] \div x[2], x[2]>> \in D /\ x[1] \div x[2] \in Nat /\ x[1] \div x[2] < x[1]
  <2> DEFINE a == x[1]
             b == x[2]
             q == a \div b
  <2>1. a \in Nat \ {0} /\ b \in Nat \ {0, 1} /\ b \in Nat \ {0} /\ a % b = 0
    BY <1>1, <1>2
  <2> HIDE DEF a, b
  <2>2. q \in Nat /\ a = b * q + 0
    BY <2>1, Division
  <2> HIDE DEF q
  <2>3. q # 0
    BY <2>1, <2>2
  <2>4. b * q >= 2 * q
    BY <2>1, <2>2
  <2>5. q < a
    BY <2>1, <2>2, <2>3, <2>4
  <2> QED
    BY <2>1, <2>2, <2>3, <2>5 DEF Pairs, a, b, q
<1>3. val \in [D -> V]
  BY <1>1
<1>4. Ends(D, mu, stop, next)
  <2>1. mu \in [D -> Nat] /\ stop \in SUBSET D
    BY <1>1
  <2>2. ASSUME NEW x \in D \ stop PROVE next[x] \in D /\ mu[next[x]] < mu[x]
    BY <1>2
  <2> QED
    BY <2>1, <2>2 DEF Ends
<1>5. \E f \in [D -> V] : Runs(f, D, stop, val, next)
  <2> HIDE DEF D, V, mu, val, next, stop
  <2> QED
    BY <1>3, <1>4, LoopExists
<1>6. \E f : Is(f)
  <2>1. PICK f \in [D -> V] : Runs(f, D, stop, val, next)
    BY <1>5
  <2>2. \A x \in D : f[x] = IF x[1] % x[2] = 0 THEN f[<<x[1] \div x[2], x[2]>>] ELSE x[1]
    BY <2>1 DEF Runs
  <2>3. Is(f)
    <3> HIDE DEF D, V
    <3> QED
      BY <2>1, <2>2
  <2> QED
    BY <2>3
<1>7. Without = CHOOSE f : Is(f)
  BY DEF Without, Pairs
<1>8. Is(Without)
  <2> HIDE DEF Is
  <2> QED
    BY <1>6, <1>7
<1>9. \A x \in D : Without[x] = IF x[1] % x[2] = 0 THEN Without[<<x[1] \div x[2], x[2]>>]
                                ELSE x[1]
  <2> HIDE DEF D
  <2> QED
    BY <1>8
<1>10. ASSUME NEW x \in D PROVE Without[x] \in Nat \ {0} /\ Without[x] <= x[1]
  <2> DEFINE I == {y \in D : y[1] <= x[1]}
  <2>1. Runs(Without, D, stop, val, next)
    BY <1>9 DEF Runs
  <2>2. \A y \in I \ stop : next[y] \in I
    <3> SUFFICES ASSUME NEW y \in I \ stop PROVE next[y] \in I
      OBVIOUS
    <3>1. y \in D /\ y[1] % y[2] = 0 /\ y[1] <= x[1]
      OBVIOUS
    <3>2. /\ <<y[1] \div y[2], y[2]>> \in D /\ y[1] \div y[2] \in Nat /\ y[1] \div y[2] < y[1]
          /\ y[1] \in Nat /\ x[1] \in Nat
      BY <1>1, <1>2, <3>1
    <3> QED
      BY <3>1, <3>2
  <2>3. I \in SUBSET D /\ x \in I
    BY <1>1
  <2>4. \E y \in I \cap stop : Without[x] = val[y]
    <3> HIDE DEF I, D, stop, next, mu, val
    <3> QED
      BY <1>4, <2>1, <2>2, <2>3, LoopEnds
  <2> QED
    BY <1>1, <2>4
<1> HIDE DEF D
<1> QED
  BY <1>9, <1>10 DEF D

\* A round of the loop over i.
LEMMA TotientRounds ==
    ASSUME NEW s \in TotientStates, s.i * s.i <= s.n
    PROVE  /\ TotientRound(s) \in TotientStates /\ s.i <= s.n
           /\ TotientRound(s).i = s.i + 1 /\ TotientRound(s).n <= s.n
<1> DEFINE p == <<s.n, s.i>>
           q == s.result \div s.i
<1>1. s.n \in Nat /\ s.i \in Nat \ {0, 1} /\ s.i \in Nat \ {0} /\ s.result \in Nat
  BY DEF TotientStates
<1>2. s.i <= s.n
  <2>1. s.i * s.i >= s.i
    BY <1>1
  <2>2. s.i * s.i \in Nat
    BY <1>1
  <2> QED
    BY <1>1, <2>1, <2>2
<1>3. p \in Pairs /\ p[1] = s.n
  BY <1>1, <1>2 DEF Pairs
<1>4. Without[p] \in Nat \ {0} /\ Without[p] <= s.n
  BY <1>3, WithoutIs
<1>5. s.result - q \in Nat
  <2> DEFINE a == s.result
             b == s.i
             r == a % b
  <2>1. a \in Nat /\ b \in Nat \ {0}
    BY <1>1
  <2> HIDE DEF a, b
  <2>2. a \div b \in Nat /\ r \in Nat /\ a = b * (a \div b) + r
    BY <2>1, Division
  <2> DEFINE k == a \div b
  <2> HIDE DEF k, r
  <2>3. b * k >= k /\ b * k \in Nat
    BY <2>1, <2>2 DEF k
  <2>4. a - k \in Nat
    BY <2>1, <2>2, <2>3 DEF k
  <2> QED
    BY <2>4 DEF a, b, k
<1> HIDE DEF q
<1>6. CASE s.n % s.i = 0
  <2>1. TotientRound(s) = [n |-> Without[p], i |-> s.i + 1, result |-> s.result - q]
    BY <1>6 DEF TotientRound, q
  <2> HIDE DEF p
  <2> QED
    BY <1>1, <1>2, <1>4, <1>5, <2>1 DEF TotientStates
<1>7. CASE s.n % s.i # 0
  <2>1. TotientRound(s) = [s EXCEPT !.i = @ + 1]
    BY <1>7 DEF TotientRound
  <2> QED
    BY <1>1, <1>2, <2>1 DEF TotientStates
<1> QED
  BY <1>6, <1>7

\* The loop ends: i grows, and does not get above n.
TotientEnd == {s \in TotientStates : ~ (s.i * s.i <= s.n)}
TotientMeasure == [s \in TotientStates |-> IF s.i <= s.n THEN s.n - s.i + 1 ELSE 0]
TotientValue == [s \in TotientStates |->
                    IF s.n > 1 THEN s.result - s.result \div s.n ELSE s.result]
TotientNext == [s \in TotientStates |-> TotientRound(s)]

LEMMA TotientEnds == Ends(TotientStates, TotientMeasure, TotientEnd, TotientNext)
<1>1. \A s \in TotientStates : s.n \in Nat /\ s.i \in Nat
  BY DEF TotientStates
<1>2. TotientMeasure \in [TotientStates -> Nat] /\ TotientEnd \in SUBSET TotientStates
  BY <1>1 DEF TotientMeasure, TotientEnd
<1>3. ASSUME NEW s \in TotientStates \ TotientEnd
      PROVE  TotientNext[s] \in TotientStates /\ TotientMeasure[TotientNext[s]] < TotientMeasure[s]
  <2> DEFINE r == TotientRound(s)
  <2>1. r \in TotientStates /\ s.i <= s.n /\ r.i = s.i + 1 /\ r.n <= s.n
    BY TotientRounds DEF TotientEnd
  <2>2. TotientNext[s] = r
    BY DEF TotientNext
  <2> HIDE DEF r
  <2>3. r.n \in Nat /\ r.i \in Nat /\ s.n \in Nat /\ s.i \in Nat
    BY <1>1, <2>1
  <2> QED
    BY <2>1, <2>2, <2>3 DEF TotientMeasure
<1> QED
  BY <1>2, <1>3 DEF Ends

LEMMA TotientIs == Runs(TotientLoop, TotientStates, TotientEnd, TotientValue, TotientNext)
<1> DEFINE D == TotientStates
           V == Int
           Is(f) == f = [s \in D |-> IF s.i * s.i <= s.n THEN f[TotientRound(s)]
                                     ELSE IF s.n > 1 THEN s.result - s.result \div s.n
                                          ELSE s.result]
<1>1. TotientValue \in [D -> V]
  <2>1. ASSUME NEW s \in D PROVE TotientValue[s] \in Int
    <3>1. s.n \in Nat /\ s.result \in Nat
      BY DEF TotientStates
    <3>2. CASE s.n > 1
      <4>1. s.result \div s.n \in Nat
        <5>1. s.n \in Nat \ {0}
          BY <3>1, <3>2
        <5> QED
          BY <3>1, <5>1, Division
      <4> QED
        BY <3>1, <3>2, <4>1 DEF TotientValue
    <3>3. CASE ~ (s.n > 1)
      BY <3>1, <3>3 DEF TotientValue
    <3> QED
      BY <3>2, <3>3
  <2> QED
    BY <2>1 DEF TotientValue
<1>2. \E f \in [D -> V] : Runs(f, D, TotientEnd, TotientValue, TotientNext)
  <2> HIDE DEF D, V
  <2>1. Ends(D, TotientMeasure, TotientEnd, TotientNext)
    BY TotientEnds DEF D
  <2> QED
    BY <1>1, <2>1, LoopExists
<1>3. \E f : Is(f)
  <2>1. PICK f \in [D -> V] : Runs(f, D, TotientEnd, TotientValue, TotientNext)
    BY <1>2
  <2>2. \A s \in D : f[s] = IF s.i * s.i <= s.n THEN f[TotientRound(s)]
                            ELSE IF s.n > 1 THEN s.result - s.result \div s.n ELSE s.result
    BY <2>1 DEF Runs, TotientEnd, TotientValue, TotientNext
  <2>3. Is(f)
    <3> HIDE DEF D, V
    <3> QED
      BY <2>1, <2>2
  <2> QED
    BY <2>3
<1>4. TotientLoop = CHOOSE f : Is(f)
  BY DEF TotientLoop
<1>5. Is(TotientLoop)
  <2> HIDE DEF Is
  <2> QED
    BY <1>3, <1>4
<1>6. \A s \in D : TotientLoop[s] = IF s.i * s.i <= s.n THEN TotientLoop[TotientRound(s)]
                                    ELSE IF s.n > 1 THEN s.result - s.result \div s.n
                                         ELSE s.result
  <2> HIDE DEF D
  <2> QED
    BY <1>5
<1> QED
  BY <1>6 DEF Runs, TotientEnd, TotientValue, TotientNext

\* What the loop knows of the product of the primes p < q: nothing is found before p, and
\* only q is left after it.
Searching(s, p, q) == s.n = p * q /\ s.result = p * q /\ s.i <= p
Left(s, p, q) == s.n = q /\ s.result = q * (p - 1) /\ s.i > p

\* Nothing below the smaller prime divides the product.
LEMMA NothingBefore ==
    ASSUME NEW p \in Nat, NEW q \in Nat, Prime(p), Prime(q), p <= q, NEW i \in 2 .. p - 1
    PROVE  (p * q) % i # 0
<1> DEFINE n == p * q
<1>1. p > 1 /\ q > 1 /\ n \in Int /\ i \in Nat \ {0} /\ i \in Nat
  BY DEF Prime
<1> SUFFICES ASSUME Divides(i, n) PROVE FALSE
  <2> HIDE DEF n
  <2>1. Divides(i, n) <=> n % i = 0
    BY <1>1, DividesIs
  <2> QED
    BY <2>1 DEF n
<1>2. PICK k \in Int : n = i * k
  BY DEF Divides
<1>3. Divides(p, i * k)
  <2>1. i * k = p * q /\ q \in Int
    BY <1>1, <1>2
  <2> QED
    BY <2>1 DEF Divides
<1>4. Divides(p, i) \/ Divides(p, k)
  BY <1>1, <1>3, PrimeDividesFactor
<1>5. ~ Divides(p, i)
  <2> SUFFICES ASSUME Divides(p, i) PROVE FALSE
    OBVIOUS
  <2>1. i \in Int /\ 0 - p < i /\ i < p
    OBVIOUS
  <2>2. i = 0
    BY <2>1, SmallMultiple
  <2> QED
    BY <2>2
<1>6. PICK m \in Int : k = p * m
  BY <1>4, <1>5 DEF Divides
<1>7. q = i * m
  <2>1. p * q = p * (i * m)
    BY <1>2, <1>6
  <2>2. \A x \in Int, y \in Int : p * x = p * y => x = y
    BY <1>1
  <2>3. i * m \in Int
    BY <1>6
  <2> QED
    BY <2>1, <2>2, <2>3
<1>8. Divides(i, q)
  BY <1>7 DEF Divides
<1>9. i \in 2 .. q - 1
  OBVIOUS
<1> QED
  BY <1>8, <1>9 DEF Prime

\* The smaller prime is taken out of the product once.
LEMMA PrimeTaken ==
    ASSUME NEW p \in Nat, NEW q \in Nat, Prime(p), Prime(q), p < q
    PROVE  /\ (p * q) % p = 0 /\ (p * q) \div p = q
           /\ Without[<<p * q, p>>] = q
<1>1. p > 1 /\ q > 1 /\ p \in Nat \ {0} /\ q \in Nat \ {0}
  BY DEF Prime
<1> DEFINE n == p * q
           z == 0
<1>2. n \in Nat \ {0}
  BY <1>1
<1>3. n % p = 0 /\ n \div p = q
  <2>1. n = p * q + z /\ z \in 0 .. p - 1
    BY <1>1
  <2>2. n \div p \in Nat /\ n % p \in 0 .. p - 1 /\ n = p * (n \div p) + (n % p)
    <3> HIDE DEF n
    <3> QED
      BY <1>1, <1>2, Division
  <2> DEFINE k == n \div p
             r == n % p
  <2>3. p * k + r = p * q + z /\ k \in Nat /\ r \in 0 .. p - 1
    BY <2>1, <2>2
  <2> HIDE DEF k, r, n, z
  <2>4. k = q /\ r = z
    BY <1>1, <2>1, <2>3, QuotientUnique
  <2> QED
    BY <2>4 DEF k, r, z
<1> HIDE DEF n
<1> DEFINE x == <<n, p>>
           y == <<q, p>>
<1>4. x \in Pairs /\ y \in Pairs /\ x[1] = n /\ x[2] = p /\ y[1] = q /\ y[2] = p
  BY <1>1, <1>2 DEF Pairs
<1>5. q % p # 0
  <2>1. p \in 2 .. q - 1
    BY <1>1
  <2>2. ~ Divides(p, q)
    BY <2>1 DEF Prime
  <2> QED
    BY <1>1, <2>2, DividesIs
<1>6. Without[x] = Without[<<n \div p, p>>]
  <2> HIDE DEF x
  <2> QED
    BY <1>3, <1>4, WithoutIs
<1>7. Without[y] = q
  <2> HIDE DEF y
  <2> QED
    BY <1>4, <1>5, WithoutIs
<1> QED
  BY <1>3, <1>6, <1>7 DEF n

LEMMA TotientOfTwo ==
    ASSUME NEW p \in Nat, NEW q \in Nat, Prime(p), Prime(q), p < q
    PROVE  Totient(p * q) = (p - 1) * (q - 1)
<1> DEFINE n == p * q
           I == {s \in TotientStates : Searching(s, p, q) \/ Left(s, p, q)}
           start == [n |-> n, i |-> 2, result |-> n]
<1>1. p > 1 /\ q > 1 /\ n \in Nat /\ q * (p - 1) \in Nat /\ n - q = q * (p - 1)
  BY DEF Prime
<1>2. start \in I
  <2> HIDE DEF n
  <2> QED
    BY <1>1 DEF TotientStates, Searching, n
<1>3. ASSUME NEW s \in I, s.i * s.i <= s.n, Searching(s, p, q), s.i < p
      PROVE  TotientRound(s) \in I
  <2>1. s.n % s.i # 0
    <3>1. s.i \in 2 .. p - 1 /\ s.n = p * q
      BY <1>3 DEF TotientStates, Searching
    <3> QED
      BY <3>1, NothingBefore
  <2>2. TotientRound(s) = [s EXCEPT !.i = @ + 1] /\ TotientRound(s) \in TotientStates
    BY <1>3, <2>1, TotientRounds DEF TotientRound
  <2>3. s.i \in Nat /\ s.i + 1 <= p
    BY <1>3 DEF TotientStates
  <2> QED
    BY <1>3, <2>2, <2>3 DEF Searching, TotientStates
<1>4. ASSUME NEW s \in I, s.i * s.i <= s.n, Searching(s, p, q), s.i = p
      PROVE  TotientRound(s) \in I
  <2>1. s.n = n /\ s.result = n /\ s.i = p
    BY <1>4 DEF Searching
  <2>2. s.n % s.i = 0 /\ s.result \div s.i = q /\ Without[<<s.n, s.i>>] = q
    BY <2>1, PrimeTaken
  <2>3. TotientRound(s) = [n |-> q, i |-> p + 1, result |-> n - q]
    BY <2>1, <2>2 DEF TotientRound
  <2>4. TotientRound(s) \in TotientStates
    BY <1>4, TotientRounds
  <2> HIDE DEF n
  <2> QED
    BY <1>1, <2>3, <2>4 DEF Left
<1>5. ASSUME NEW s \in I, s.i * s.i <= s.n, Left(s, p, q)
      PROVE  TotientRound(s) \in I
  <2>1. s.i \in Nat \ {0, 1} /\ s.n = q /\ s.i > p
    BY <1>5 DEF Left, TotientStates
  <2>2. s.i \in 2 .. q - 1
    <3>1. s.i * s.i >= 2 * s.i
      BY <2>1
    <3>2. s.i * s.i \in Nat /\ s.i * s.i <= q
      BY <1>5, <2>1
    <3> QED
      BY <2>1, <3>1, <3>2
  <2>3. s.n % s.i # 0
    <3>1. ~ Divides(s.i, q)
      BY <2>2 DEF Prime
    <3>2. s.i \in Nat \ {0} /\ q \in Int
      BY <2>1
    <3> QED
      BY <2>1, <3>1, <3>2, DividesIs
  <2>4. TotientRound(s) = [s EXCEPT !.i = @ + 1] /\ TotientRound(s) \in TotientStates
    BY <1>5, <2>3, TotientRounds DEF TotientRound
  <2> QED
    BY <1>5, <2>1, <2>4 DEF Left, TotientStates
<1>6. \A s \in I \ TotientEnd : TotientNext[s] \in I
  <2> SUFFICES ASSUME NEW s \in I, s \notin TotientEnd PROVE TotientRound(s) \in I
    BY DEF TotientNext
  <2>1. s \in TotientStates /\ s.i * s.i <= s.n
    BY DEF TotientEnd
  <2>2. Searching(s, p, q) /\ s.i \in Nat => s.i < p \/ s.i = p
    BY DEF Searching
  <2>3. s.i \in Nat
    BY <2>1 DEF TotientStates
  <2> QED
    BY <1>3, <1>4, <1>5, <2>1, <2>2, <2>3
<1>7. PICK s \in I \cap TotientEnd : TotientLoop[start] = TotientValue[s]
  <2>1. I \in SUBSET TotientStates
    OBVIOUS
  <2> HIDE DEF I, start
  <2>2. \A x \in I : \E y \in I \cap TotientEnd : TotientLoop[x] = TotientValue[y]
    BY <1>6, <2>1, TotientEnds, TotientIs, LoopEnds
  <2> QED
    BY <1>2, <2>2
<1>8. Left(s, p, q) /\ s \in TotientStates
  <2>1. s.i \in Nat /\ ~ (s.i * s.i <= s.n) /\ s \in TotientStates
    BY <1>7 DEF TotientEnd, TotientStates
  <2>2. ~ Searching(s, p, q)
    <3> SUFFICES ASSUME s.n = n, s.i <= p PROVE FALSE
      BY DEF Searching
    <3>1. s.i * s.i <= p * p
      BY <2>1
    <3>2. p * p <= n /\ p * p \in Nat /\ s.i * s.i \in Nat
      BY <1>1, <2>1
    <3> HIDE DEF n
    <3> QED
      BY <1>1, <2>1, <3>1, <3>2
  <2> QED
    BY <1>7, <2>1, <2>2
<1>9. TotientValue[s] = q * (p - 1) - (q * (p - 1)) \div q
  BY <1>1, <1>8 DEF Left, TotientValue
<1>10. (q * (p - 1)) \div q = p - 1
  <2> DEFINE m == p - 1
             w == q * m
             z == 0
             k == w \div q
             r == w % q
  <2>1. m \in Nat /\ w \in Nat /\ q \in Nat \ {0} /\ z \in 0 .. q - 1 /\ w = q * m + z
    BY <1>1
  <2> HIDE DEF w
  <2>2. k \in Nat /\ r \in 0 .. q - 1 /\ w = q * k + r
    BY <2>1, Division
  <2> HIDE DEF k, r, z, m
  <2>3. q * k + r = q * m + z
    BY <2>1, <2>2
  <2>4. k = m
    BY <2>1, <2>2, <2>3, QuotientUnique
  <2> QED
    BY <2>4 DEF k, m, w
<1>11. q * (p - 1) - (p - 1) = (p - 1) * (q - 1)
  BY <1>1
<1> QED
  BY <1>7, <1>9, <1>10, <1>11 DEF Totient

\* The square of a prime: nothing is found before p, and nothing is left after it.
LEMMA TotientOfSquare ==
    ASSUME NEW p \in Nat, Prime(p)
    PROVE  Totient(p * p) = p * (p - 1)
<1> DEFINE n == p * p
           Done(s) == s.n = 1 /\ s.result = n - p /\ s.i > p
           I == {s \in TotientStates : Searching(s, p, p) \/ Done(s)}
           start == [n |-> n, i |-> 2, result |-> n]
<1>1. p > 1 /\ n \in Nat \ {0} /\ n - p \in Nat /\ n - p = p * (p - 1) /\ p \in Nat \ {0, 1}
  <2>1. p > 1
    BY DEF Prime
  <2>2. \A x \in Nat : x > 1 => x * x \in Nat \ {0} /\ x * x - x \in Nat
                                 /\ x * x - x = x * (x - 1)
    OBVIOUS
  <2> QED
    BY <2>1, <2>2
<1>2. start \in I
  <2> HIDE DEF n
  <2> QED
    BY <1>1 DEF TotientStates, Searching, n
<1>3. ASSUME NEW s \in I, s.i * s.i <= s.n, Searching(s, p, p), s.i < p
      PROVE  TotientRound(s) \in I
  <2>1. s.n % s.i # 0
    <3>1. s.i \in 2 .. p - 1 /\ s.n = p * p
      BY <1>3 DEF TotientStates, Searching
    <3> QED
      BY <3>1, NothingBefore
  <2>2. TotientRound(s) = [s EXCEPT !.i = @ + 1] /\ TotientRound(s) \in TotientStates
    BY <1>3, <2>1, TotientRounds DEF TotientRound
  <2>3. s.i \in Nat /\ s.i + 1 <= p
    BY <1>3 DEF TotientStates
  <2> QED
    BY <1>3, <2>2, <2>3 DEF Searching, TotientStates
<1>4. n % p = 0 /\ n \div p = p /\ p % p = 0 /\ p \div p = 1 /\ 1 % p = 1
  <2> DEFINE z == 0
             one == 1
             k == n \div p
             r == n % p
             l == p \div p
             v == p % p
             a == p
  <2>1. /\ n = p * a + z /\ p = p * one + z /\ a \in Nat
        /\ z \in 0 .. p - 1 /\ one \in 0 .. p - 1 /\ one \in Nat /\ p \in Nat \ {0}
    BY <1>1
  <2>2. k \in Nat /\ r \in 0 .. p - 1 /\ n = p * k + r
    <3> HIDE DEF n
    <3> QED
      BY <1>1, <2>1, Division
  <2>3. l \in Nat /\ v \in 0 .. p - 1 /\ p = p * l + v
    BY <2>1, Division
  <2> HIDE DEF n, k, r, l, v, z, a
  <2>4. p * k + r = p * a + z /\ p * l + v = p * one + z
    BY <2>1, <2>2, <2>3
  <2>5. one % p = one
    BY <2>1, SmallRemainder
  <2> HIDE DEF one
  <2>6. k = a /\ r = z
    <3>1. /\ p * k + r = p * a + z /\ k \in Nat /\ a \in Nat
          /\ r \in 0 .. p - 1 /\ z \in 0 .. p - 1 /\ p \in Nat \ {0}
      BY <2>1, <2>2, <2>4
    <3> QED
      BY <3>1, QuotientUnique
  <2>7. l = one /\ v = z
    BY <2>1, <2>3, <2>4, QuotientUnique
  <2> QED
    BY <2>1, <2>5, <2>6, <2>7 DEF k, r, l, v, z, one, a
<1>5. Without[<<n, p>>] = 1
  <2> DEFINE x == <<n, p>>
             y == <<p, p>>
             one == 1
             w == <<one, p>>
  <2>1. /\ x \in Pairs /\ y \in Pairs /\ w \in Pairs
        /\ x[1] = n /\ x[2] = p /\ y[1] = p /\ y[2] = p /\ w[1] = one /\ w[2] = p
    BY <1>1 DEF Pairs
  <2>2. Without[x] = Without[<<n \div p, p>>]
    <3> HIDE DEF x, n
    <3> QED
      BY <1>4, <2>1, WithoutIs
  <2>3. Without[y] = Without[<<p \div p, p>>]
    <3> HIDE DEF y
    <3> QED
      BY <1>4, <2>1, WithoutIs
  <2>4. Without[w] = one
    <3>1. one % p # 0
      BY <1>4
    <3> HIDE DEF w, one
    <3> QED
      BY <2>1, <3>1, WithoutIs
  <2> QED
    BY <1>4, <2>2, <2>3, <2>4
<1>6. ASSUME NEW s \in I, s.i * s.i <= s.n, Searching(s, p, p), s.i = p
      PROVE  TotientRound(s) \in I
  <2>1. s.n = n /\ s.result = n /\ s.i = p
    BY <1>6 DEF Searching
  <2>2. s.n % s.i = 0 /\ s.result \div s.i = p /\ Without[<<s.n, s.i>>] = 1
    BY <1>4, <1>5, <2>1
  <2>3. TotientRound(s) = [n |-> 1, i |-> p + 1, result |-> n - p]
    BY <2>1, <2>2 DEF TotientRound
  <2>4. TotientRound(s) \in TotientStates
    BY <1>6, TotientRounds
  <2> HIDE DEF n
  <2> QED
    BY <1>1, <2>3, <2>4
<1>7. ASSUME NEW s \in I, Done(s) PROVE ~ (s.i * s.i <= s.n)
  <2>1. s.i \in Nat /\ s.i > 1 /\ s.n = 1
    BY <1>1, <1>7 DEF TotientStates
  <2>2. s.i * s.i > 1
    BY <2>1
  <2> QED
    BY <2>1, <2>2
<1>8. \A s \in I \ TotientEnd : TotientNext[s] \in I
  <2> SUFFICES ASSUME NEW s \in I, s \notin TotientEnd PROVE TotientRound(s) \in I
    BY DEF TotientNext
  <2>1. s \in TotientStates /\ s.i * s.i <= s.n
    BY DEF TotientEnd
  <2>2. Searching(s, p, p) /\ s.i \in Nat => s.i < p \/ s.i = p
    BY DEF Searching
  <2>3. s.i \in Nat
    BY <2>1 DEF TotientStates
  <2> QED
    BY <1>3, <1>6, <1>7, <2>1, <2>2, <2>3
<1>9. PICK s \in I \cap TotientEnd : TotientLoop[start] = TotientValue[s]
  <2>1. I \in SUBSET TotientStates
    OBVIOUS
  <2> HIDE DEF I, start
  <2>2. \A x \in I : \E y \in I \cap TotientEnd : TotientLoop[x] = TotientValue[y]
    BY <1>8, <2>1, TotientEnds, TotientIs, LoopEnds
  <2> QED
    BY <1>2, <2>2
<1>10. Done(s) /\ s \in TotientStates
  <2>1. s.i \in Nat /\ ~ (s.i * s.i <= s.n) /\ s \in TotientStates
    BY <1>9 DEF TotientEnd, TotientStates
  <2>2. ~ Searching(s, p, p)
    <3> SUFFICES ASSUME s.n = n, s.i <= p PROVE FALSE
      BY DEF Searching
    <3>1. s.i * s.i <= p * p
      BY <2>1
    <3> QED
      BY <2>1, <3>1
  <2> QED
    BY <1>9, <2>1, <2>2
<1>11. TotientValue[s] = n - p
  BY <1>10 DEF TotientValue
<1> QED
  BY <1>1, <1>9, <1>11 DEF Totient

\* totient of the product of two primes.
THEOREM TotientOfPrimes ==
    ASSUME NEW p \in Nat, NEW q \in Nat, IsPrime(p), IsPrime(q)
    PROVE  Totient(p * q) = IF p = q THEN p * (p - 1) ELSE (p - 1) * (q - 1)
<1>1. Prime(p) /\ Prime(q)
  BY PrimesFound
<1>2. CASE p < q
  BY <1>1, <1>2, TotientOfTwo
<1>3. CASE q < p
  <2>1. Totient(q * p) = (q - 1) * (p - 1)
    BY <1>1, <1>3, TotientOfTwo
  <2>2. q * p = p * q /\ (q - 1) * (p - 1) = (p - 1) * (q - 1)
    OBVIOUS
  <2> QED
    BY <1>3, <2>1, <2>2
<1>4. CASE p = q
  BY <1>1, <1>4, TotientOfSquare
<1> QED
  BY <1>2, <1>3, <1>4

-----------------------------------------------------------------------------
(* What is encrypted for a key is decrypted with it. *)

\* There is an exponent for every totient above 2: one less than it.
LEMMA ExponentExists ==
    ASSUME NEW t \in Nat, t >= 3
    PROVE  Exponents(t) # {}
<1> DEFINE m == t - 1
           one == 1
           z == 0
<1>1. /\ m \in Nat \ {0} /\ m \in Nat /\ t \in Nat \ {0} /\ m \in 2 .. t - 1
      /\ m \in 0 .. t - 1 /\ one \in 0 .. m - 1 /\ t = one + one * m /\ one \in Nat /\ z \in Nat
      /\ one \in Int /\ t \in Int /\ m # z /\ one # z
  OBVIOUS
<1>2. m % one = z
  OBVIOUS
<1> HIDE DEF m, one
<1>3. m % t = m
  BY <1>1, SmallRemainder
<1>4. t % m = one
  <2>1. t % m = one % m
    BY <1>1, SameRemainder
  <2>2. one % m = one
    BY <1>1, SmallRemainder
  <2> QED
    BY <2>1, <2>2
<1> HIDE DEF z
<1>5. \A a \in Nat, b \in Nat : Gcd[<<a, b>>] = IF b = z THEN a ELSE Gcd[<<b, a % b>>]
  <2> SUFFICES ASSUME NEW a \in Nat, NEW b \in Nat
               PROVE  Gcd[<<a, b>>] = IF b = z THEN a ELSE Gcd[<<b, a % b>>]
    OBVIOUS
  <2> DEFINE p == <<a, b>>
  <2>1. p \in Nat \X Nat /\ p[1] = a /\ p[2] = b
    OBVIOUS
  <2> HIDE DEF p
  <2>2. Gcd[p] = IF b = z THEN a ELSE Gcd[<<b, a % b>>]
    BY <2>1, GcdIs DEF z
  <2> QED
    BY <2>2 DEF p
<1>6. Gcd[<<m, t>>] = Gcd[<<t, m>>] /\ Gcd[<<t, m>>] = Gcd[<<m, one>>]
  <2>1. t # z
    BY <1>1 DEF z
  <2> QED
    BY <1>1, <1>3, <1>4, <1>5, <2>1
<1>7. Gcd[<<m, one>>] = Gcd[<<one, z>>] /\ Gcd[<<one, z>>] = one
  BY <1>1, <1>2, <1>5
<1>8. Gcd[<<m, t>>] = 1
  BY <1>6, <1>7 DEF one
<1> QED
  BY <1>1, <1>8 DEF Exponents

\* The exponents and the totient of a key are right for every number, or for every number
\* that the prime does not divide if it was drawn twice.
LEMMA TakesBack ==
    ASSUME NEW p \in Nat, NEW q \in Nat, IsPrime(p), IsPrime(q),
           NEW g \in Nat, g % Totient(p * q) = 1,
           NEW c \in Nat, p # q \/ c = 0 \/ ~ Divides(p, c)
    PROVE  Congruent(Powers(c)[g], c, p * q)
<1>1. Prime(p) /\ Prime(q)
  BY PrimesFound
<1>2. Totient(p * q) = IF p = q THEN p * (p - 1) ELSE (p - 1) * (q - 1)
  BY TotientOfPrimes
<1>3. CASE p # q
  BY <1>1, <1>2, <1>3, RoundTrip
<1>4. CASE p = q /\ ~ Divides(p, c)
  <2>1. g % (p * (p - 1)) = 1
    BY <1>2, <1>4
  <2>2. Congruent(Powers(c)[g], c, p * p)
    BY <1>1, <1>4, <2>1, RoundTripSquare
  <2> QED
    BY <1>4, <2>2
<1>5. CASE p = q /\ c = 0
  <2> DEFINE t == p * (p - 1)
             h == g - 1
  <2>1. t \in Nat \ {0} /\ g % t = 1
    <3>1. p > 1
      BY <1>1 DEF Prime
    <3>2. \A x \in Nat : x > 1 => x * (x - 1) \in Nat \ {0}
      OBVIOUS
    <3> QED
      BY <1>2, <1>5, <3>1, <3>2
  <2>2. h \in Nat /\ g = h + 1
    <3> HIDE DEF t
    <3>1. PICK k \in Nat : g = 1 + t * k
      BY <2>1, OneAbove
    <3>2. t * k \in Nat
      BY <2>1
    <3> QED
      BY <3>1, <3>2
  <2> HIDE DEF h
  <2>3. Powers(c)[h + 1] = c * Powers(c)[h] /\ Powers(c)[h] \in Nat
    BY <2>2, PowersAre
  <2>4. Powers(c)[g] = c
    BY <1>5, <2>2, <2>3
  <2> QED
    BY <2>4 DEF Congruent
<1> QED
  BY <1>3, <1>4, <1>5

\* isPrime of RSAHandler.kt finds the odd primes.
LEMMA OddPrimes ==
    ASSUME NEW n \in Nat, KotlinIsPrime(n)
    PROVE  IsPrime(n) /\ n >= 3
<1>1. n > 1 /\ \A i \in 2 .. n : (i - 1) * (i - 1) <= n => n % i # 0
  BY DEF KotlinIsPrime
<1>2. n # 2
  <2>1. 2 \in 2 .. 2 /\ (2 - 1) * (2 - 1) <= 2 /\ 2 % 2 = 0
    OBVIOUS
  <2> QED
    BY <1>1, <2>1
<1>3. ASSUME NEW i \in 2 .. n - 1, i * i <= n PROVE n % i # 0
  <2>1. (i - 1) * (i - 1) <= i * i
    OBVIOUS
  <2>2. i \in 2 .. n /\ (i - 1) * (i - 1) \in Nat /\ i * i \in Nat
    OBVIOUS
  <2>3. (i - 1) * (i - 1) <= n
    BY <1>3, <2>1, <2>2
  <2> QED
    BY <1>1, <2>2, <2>3, Zenon
<1> QED
  BY <1>1, <1>2, <1>3 DEF IsPrime

\* What the server draws, and the key it makes of it.
LEMMA ServerKeyIs ==
    ASSUME NEW k \in KotlinKeys
    PROVE  \E p \in Nat, q \in Nat :
               /\ IsPrime(p) /\ IsPrime(q) /\ p >= 3 /\ q >= 3 /\ p >= KeySize \div 2
               /\ k.n = p * q /\ k.e = GenerateE(Totient(p * q))
               /\ k.d = CalculateD(k.e, Totient(p * q))
<1>1. PICK x \in ServerDraws : k = KotlinKey(x[1], x[2])
  BY DEF KotlinKeys
<1> DEFINE p == x[1]
           q == x[2]
           h == 2^(Word \div 2)
           n == p * q
<1>2. p \in KotlinPrimes /\ q \in KotlinPrimes
  BY DrawAssumption
<1>3. /\ p \in Nat /\ q \in Nat /\ p >= KeySize \div 2
      /\ KotlinIsPrime(p) /\ KotlinIsPrime(q)
  <2>1. \A y \in Int : KotlinIsPrime(y) => y \in Nat
    BY DEF KotlinIsPrime
  <2>2. KeySize \div 2 \in Int
    BY SizeAssumption
  <2> HIDE DEF p, q
  <2> QED
    BY <1>2, <2>1, <2>2, SizeAssumption DEF KotlinPrimes
<1> HIDE DEF p, q
<1>4. IsPrime(p) /\ IsPrime(q) /\ p >= 3 /\ q >= 3
  BY <1>3, OddPrimes
<1>5. n \in Nat /\ n < h /\ h \in Nat \ {0}
  <2>1. n \in Nat
    BY <1>3
  <2> HIDE DEF h
  <2> QED
    BY <1>2, <2>1, SizeAssumption, WordAssumption DEF h
<1>6. n % h = n
  <2> HIDE DEF n, h
  <2>1. n \in 0 .. h - 1
    BY <1>5
  <2> QED
    BY <1>5, <2>1, SmallRemainder
<1>7. k = [e |-> GenerateE(Totient(n)), d |-> CalculateD(GenerateE(Totient(n)), Totient(n)),
           n |-> n]
  BY <1>1, <1>6 DEF KotlinKey, p, q
<1>8. k.n = n /\ k.e = GenerateE(Totient(n)) /\ k.d = CalculateD(k.e, Totient(n))
  BY <1>7
<1> QED
  BY <1>3, <1>4, <1>8

\* The exponent is one of the candidates.
LEMMA ExponentIs ==
    ASSUME NEW t, Exponents(t) # {}
    PROVE  GenerateE(t) \in Exponents(t)
<1>1. Exponents(t) \subseteq Nat
  <2>1. Exponents(t) \subseteq 2 .. t - 1
    BY Zenon DEF Exponents
  <2>2. \A i \in 2 .. t - 1 : i \in Nat
    OBVIOUS
  <2> QED
    BY <2>1, <2>2
<1>2. GenerateE(t) = Min(Exponents(t))
  BY DEF GenerateE, Min
<1> QED
  BY <1>1, <1>2, MinIsLeast

\* A server whose modulus fits into the peers' words reads what they encrypt for it.
LEMMA RequestIsRead ==
    ASSUME NEW k \in KotlinKeys, k.n * k.n < 2^(Word - 1)
    PROVE  k \in RequestReaders
<1>1. PICK p \in Nat, q \in Nat :
               /\ IsPrime(p) /\ IsPrime(q) /\ p >= 3 /\ q >= 3 /\ p >= KeySize \div 2
               /\ k.n = p * q /\ k.e = GenerateE(Totient(p * q))
               /\ k.d = CalculateD(k.e, Totient(p * q))
  BY ServerKeyIs
<1> DEFINE h == 2^(Word - 1)
           n == p * q
           t == Totient(n)
           e == k.e
           d == k.d
<1>2. n \in Nat \ {0, 1} /\ n \in Nat \ {0} /\ n >= p
  BY <1>1
<1>3. t \in Nat /\ t >= 3
  <2>1. t = IF p = q THEN p * (p - 1) ELSE (p - 1) * (q - 1)
    BY <1>1, TotientOfPrimes
  <2>2. p * (p - 1) \in Nat /\ p * (p - 1) >= 3
    BY <1>1
  <2>3. p # q => (p - 1) * (q - 1) \in Nat /\ (p - 1) * (q - 1) >= 3
    BY <1>1
  <2> HIDE DEF t
  <2> QED
    BY <2>1, <2>2, <2>3
<1>4. k.n = n /\ e = GenerateE(t) /\ d = CalculateD(e, t) /\ n * n < h
  BY <1>1
<1> HIDE DEF t, e, d
<1>5. e \in Exponents(t)
  BY <1>3, <1>4, ExponentExists, ExponentIs
<1>6. e \in Nat /\ d \in Nat /\ (e * d) % t = 1
  <2>1. e \in 2 .. t - 1
    BY <1>5, Zenon DEF Exponents
  <2>2. d \in Nat /\ (e * d) % t = 1
    BY <1>3, <1>4, <1>5, SearchFound
  <2> QED
    BY <2>1, <2>2
<1>7. n * n < 2^Word
  <2>1. n * n \in Nat /\ h \in Nat /\ 2^Word = 2 * h
    BY <1>2, WordAssumption
  <2> HIDE DEF n, h
  <2> QED
    BY <1>4, <2>1
<1>8. ASSUME NEW c \in Codes
      PROVE  LET x == CppPow(c, e, n) IN x >= 0 /\ KotlinPow(x, d, n) = c
  <2> DEFINE b == Powers(c)[e] % n
  <2>1. c \in Nat /\ c < p
    <3>1. KeySize \div 2 \in Nat
      BY SizeAssumption
    <3> QED
      BY <1>1, <3>1, DrawAssumption, SizeAssumption
  <2>2. c = 0 \/ ~ Divides(p, c)
    <3>1. c \in Int /\ 0 - p < c /\ c < p
      BY <2>1
    <3> QED
      BY <3>1, SmallMultiple
  <2>3. Congruent(Powers(c)[e * d], c, n)
    <3> DEFINE g == e * d
    <3>1. g \in Nat /\ g % Totient(p * q) = 1
      BY <1>6 DEF t
    <3> HIDE DEF g
    <3>2. Congruent(Powers(c)[g], c, p * q)
      BY <1>1, <2>1, <2>2, <3>1, TakesBack
    <3> QED
      BY <3>2 DEF g
  <2>4. c < n
    BY <1>2, <2>1
  <2> HIDE DEF n
  <2>5. Powers(b)[d] % n = c
    BY <1>2, <1>6, <2>1, <2>3, <2>4, Deciphered
  <2>6. CppPow(c, e, n) = b
    BY <1>2, <1>4, <1>6, <2>1, <2>4, CppPower
  <2>7. b \in 0 .. n - 1
    <3>1. Powers(c)[e] \in Nat
      BY <1>6, <2>1, PowersAre
    <3> QED
      BY <1>2, <3>1, Division
  <2> HIDE DEF b
  <2>8. b \in Nat /\ b < n /\ b >= 0
    BY <1>2, <2>7
  <2>9. KotlinPow(b, d, n) = Powers(b)[d] % n
    BY <1>2, <1>6, <1>7, <2>8, KotlinPower
  <2> QED
    BY <2>5, <2>6, <2>8, <2>9
<1>9. \A c \in Codes : LET x == CppPow(c, k.e, k.n) IN x >= 0 /\ KotlinPow(x, k.d, k.n) = c
  BY <1>4, <1>8 DEF e, d
<1> QED
  BY <1>9 DEF RequestReaders

\* A peer's key is weak if a character's code is not below its modulus, if the square of its
\* modulus does not fit into a signed word, or if it was made of one prime that divides a
\* code.
WeakKey(k) ==
    \E x \in PeerDraws :
        /\ k = CppKey(x[1], x[2])
        /\ \/ k.n * k.n >= 2^(Word - 1)
           \/ \E c \in Codes : c >= k.n
           \/ x[1] = x[2] /\ \E c \in Codes : c # 0 /\ c % x[1] = 0

\* With any other key a peer reads what the server encrypts for it.
LEMMA OwnMailRead ==
    ASSUME NEW k \in CppKeys, ~ WeakKey(k)
    PROVE  <<k.e, k.n, k>> \in ReadableAnswers
<1>1. PICK x \in PeerDraws : Exponents(Totient(x[1] * x[2])) # {} /\ k = CppKey(x[1], x[2])
  BY DEF CppKeys
<1> DEFINE p == x[1]
           q == x[2]
           n == p * q
           t == Totient(n)
           e == k.e
           d == k.d
           h == 2^(Word - 1)
<1>2. p \in Nat /\ q \in Nat /\ IsPrime(p) /\ IsPrime(q)
  BY DrawAssumption DEF CppPrimes
<1>3. /\ k.n * k.n < h \/ ~ (k.n * k.n \in Int /\ h \in Int)
      /\ \A c \in Codes : ~ (c >= k.n)
      /\ p = q => \A c \in Codes : c = 0 \/ c % p # 0
  <2>1. \A a \in Int, b \in Int : ~ (a >= b) => a < b
    OBVIOUS
  <2>2. /\ ~ (k.n * k.n >= h)
        /\ \A c \in Codes : ~ (c >= k.n)
        /\ p = q => \A c \in Codes : c = 0 \/ c % p # 0
    BY <1>1, Zenon DEF WeakKey
  <2> QED
    BY <2>1, <2>2
<1>4. k.e = GenerateE(t) /\ k.d = ModInverse(GenerateE(t), t) /\ k.n = n
  BY <1>1 DEF CppKey
<1> HIDE DEF p, q
<1>5. p > 1 /\ q > 1
  BY <1>2 DEF IsPrime
<1>6. n \in Nat \ {0, 1} /\ n \in Nat \ {0} /\ n * n \in Nat /\ h \in Nat /\ 2^Word = 2 * h
  <2>1. \A a \in Nat, b \in Nat : a > 1 /\ b > 1 => a * b \in Nat \ {0, 1}
    OBVIOUS
  <2>2. n \in Nat \ {0, 1}
    BY <1>2, <1>5, <2>1
  <2> HIDE DEF n
  <2> QED
    BY <2>2, WordAssumption
<1>7. t \in Nat
  <2>1. t = IF p = q THEN p * (p - 1) ELSE (p - 1) * (q - 1)
    BY <1>2, TotientOfPrimes
  <2>2. p * (p - 1) \in Nat /\ (p - 1) * (q - 1) \in Nat
    <3>1. p - 1 \in Nat /\ q - 1 \in Nat
      BY <1>2, <1>5
    <3>2. \A a \in Nat, b \in Nat : a * b \in Nat
      OBVIOUS
    <3> QED
      BY <1>2, <3>1, <3>2
  <2> HIDE DEF t
  <2> QED
    BY <2>1, <2>2
<1>8. e = GenerateE(t) /\ d = ModInverse(e, t) /\ Exponents(t) # {}
  BY <1>1, <1>4 DEF p, q
<1> HIDE DEF t, e, d
<1>9. e \in Exponents(t)
  BY <1>8, ExponentIs
<1>10. e \in Nat /\ d \in Nat /\ (e * d) % t = 1
  <2>1. e \in 2 .. t - 1
    BY <1>9, Zenon DEF Exponents
  <2>2. d \in 1 .. t - 1 /\ (e * d) % t = 1
    BY <1>7, <1>8, <1>9, InverseFound
  <2> QED
    BY <2>1, <2>2
<1>11. n * n < h /\ n * n < 2^Word
  <2>1. n * n < h
    BY <1>3, <1>4, <1>6
  <2> HIDE DEF n, h
  <2> QED
    BY <1>6, <2>1
<1>12. ASSUME NEW c \in Codes
       PROVE  CppPow(KotlinPow(c, e, n), d, n) = c
  <2> DEFINE b == Powers(c)[e] % n
  <2>1. c \in Nat /\ c < n
    <3>1. c \in Nat /\ ~ (c >= n)
      BY <1>3, <1>4, DrawAssumption
    <3> HIDE DEF n
    <3> QED
      BY <1>6, <3>1
  <2>2. p # q \/ c = 0 \/ ~ Divides(p, c)
    <3>1. p = q => c = 0 \/ c % p # 0
      BY <1>3
    <3>2. c \in Int /\ p \in Nat \ {0}
      BY <1>2, <1>5, <2>1
    <3> QED
      BY <3>1, <3>2, DividesIs
  <2>3. Congruent(Powers(c)[e * d], c, n)
    <3> DEFINE g == e * d
    <3>1. g \in Nat /\ g % Totient(p * q) = 1
      BY <1>10 DEF t
    <3> HIDE DEF g
    <3>2. Congruent(Powers(c)[g], c, p * q)
      BY <1>2, <2>1, <2>2, <3>1, TakesBack
    <3> QED
      BY <3>2 DEF g
  <2> HIDE DEF n
  <2>5. Powers(b)[d] % n = c
    BY <1>6, <1>10, <2>1, <2>3, Deciphered
  <2>6. KotlinPow(c, e, n) = b
    BY <1>6, <1>10, <1>11, <2>1, KotlinPower
  <2>7. b \in 0 .. n - 1
    <3>1. Powers(c)[e] \in Nat
      BY <1>10, <2>1, PowersAre
    <3> QED
      BY <1>6, <3>1, Division
  <2> HIDE DEF b
  <2>8. b \in Nat /\ b < n
    BY <1>6, <2>7
  <2>9. CppPow(b, d, n) = Powers(b)[d] % n
    BY <1>6, <1>10, <1>11, <2>8, CppPower
  <2> QED
    BY <2>5, <2>6, <2>9
<1>13. \A c \in Codes : CppPow(KotlinPow(c, k.e, k.n), k.d, k.n) = c
  BY <1>4, <1>12 DEF e, d
<1> DEFINE y == <<k.e, k.n, k>>
<1>14. y \in {j.e : j \in CppKeys} \X {j.n : j \in CppKeys} \X CppKeys
  OBVIOUS
<1>15. y[1] = k.e /\ y[2] = k.n /\ y[3] = k
  OBVIOUS
<1> HIDE DEF y
<1>16. y \in ReadableAnswers
  BY <1>13, <1>14, <1>15 DEF ReadableAnswers
<1> QED
  BY <1>16 DEF y

-----------------------------------------------------------------------------
(* The requests that are dropped. *)

\* Whether the server can read its requests is settled by its key.
DropInv ==
    /\ serverKey \in KotlinKeys
    /\ \A c \in Conns : pc[c] = "refused" \/ told[c] = Nothing => serverKey \notin RequestReaders

LEMMA DropStep == TypeOK /\ ConnInv /\ DropInv /\ [Next]_vars => DropInv'
<1> SUFFICES ASSUME TypeOK, ConnInv, DropInv, [Next]_vars PROVE DropInv'
  OBVIOUS
<1> USE DEF DropInv
<1>1. CASE UNCHANGED vars
  BY <1>1 DEF vars, connVars, keyVars
<1>2. ASSUME NEW c \in Conns,
             \/ Connect(c) \/ SetPublicKey(c) \/ SetModulus(c) \/ LookUp(c) \/ Choose(c)
             \/ Put(c) \/ ReadExponent(c) \/ EncryptCharacter(c)
      PROVE  DropInv'
  <2>1. UNCHANGED <<serverKey, told>> /\ \E l : l # "refused" /\ pc' = [pc EXCEPT ![c] = l]
    BY <1>2 DEF Connect, SetPublicKey, SetModulus, LookUp, Choose, Put, ReadExponent,
                EncryptCharacter, Goto, keyVars
  <2> QED
    BY <2>1 DEF TypeOK
<1>3. ASSUME NEW c \in Conns, Refuse(c) PROVE DropInv'
  BY <1>3 DEF Refuse, Goto, keyVars, TypeOK
<1>4. ASSUME NEW c \in Conns, PeerReads(c) PROVE DropInv'
  <2>1. Reads(c) # Nothing
    BY <1>4, DisjointAssumption DEF PeerReads, Reads, TypeOK, ConnInv
  <2>2. UNCHANGED serverKey /\ pc' = [pc EXCEPT ![c] = "done"]
        /\ told' = [told EXCEPT ![c] = Reads(c)]
    BY <1>4 DEF PeerReads, Goto, keyVars
  <2> HIDE DEF Reads
  <2> QED
    BY <2>1, <2>2 DEF TypeOK
<1>5. ASSUME NEW c \in Conns, PeerGivesUp(c) PROVE DropInv'
  BY <1>5 DEF PeerGivesUp, Goto, keyVars, TypeOK
<1> QED
  BY <1>1, <1>2, <1>3, <1>4, <1>5 DEF Next, ServerStep, PeerStep

-----------------------------------------------------------------------------
(* Theorems. *)

LEMMA Invariance == Spec => []IInv
<1>1. Init => IInv
  BY TypeInit, MetInit, NameInit, LookInit, SharedInit DEF IInv
<1>2. IInv /\ [Next]_vars => IInv'
  BY TypeStep, ConnStep, MetStep, NameStep, SameNameStep, LookStep, SharedStep, GarbledStep
     DEF IInv
<1> QED
  BY <1>1, <1>2, PTL DEF Spec

\* Every variable of the server and its peers keeps its type.
THEOREM TypeCorrect == Spec => []TypeOK
<1>1. IInv => TypeOK
  BY DEF IInv
<1> QED
  BY <1>1, Invariance, PTL

\* Two registrations get the same name only if one overlapped another connection.
THEOREM SameNameCause == Spec => []SameNameOnlyOnOverlap
<1>1. IInv => SameNameOnlyOnOverlap
  BY DEF IInv
<1> QED
  BY <1>1, Invariance, PTL

\* What a relay saved of a name is current unless the name was given twice.
THEOREM SavedCurrent == Spec => []SavedIsCurrent
<1>1. IInv => SavedIsCurrent
  BY DEF IInv
<1> QED
  BY <1>1, Invariance, PTL

\* The shared handler garbles answers only between peers of different programs.
THEOREM GarbledCause == Spec => []GarbledOnlyAcrossKinds
<1>1. IInv => GarbledOnlyAcrossKinds
  BY DEF IInv
<1> QED
  BY <1>1, Invariance, PTL

\* A peer gets an answer that it cannot read only if its own key is weak, or a connection of
\* the other program was open at the same time.
THEOREM GarbledByWeakKeys ==
    Spec => [](\A c \in Conns : told[c] = Garbled =>
                   \/ WeakKey(peerKey[Kind(c)])
                   \/ \E d \in Conns : {c, d} \in met /\ Kind(d) # Kind(c))
<1> DEFINE Claim == \A c \in Conns : told[c] = Garbled =>
                        \/ WeakKey(peerKey[Kind(c)])
                        \/ \E d \in Conns : {c, d} \in met /\ Kind(d) # Kind(c)
<1>1. IInv => Claim
  <2> SUFFICES ASSUME IInv, NEW c \in Conns, told[c] = Garbled,
                      ~ \E d \in Conns : {c, d} \in met /\ Kind(d) # Kind(c)
               PROVE  WeakKey(peerKey[Kind(c)])
    OBVIOUS
  <2> DEFINE k == peerKey[Kind(c)]
  <2>1. k \in CppKeys
    BY DEF IInv, KeyInv, Kind, KindOf
  <2>2. <<k.e, k.n, k>> \notin ReadableAnswers
    BY DEF IInv, GarbledOnlyAcrossKinds
  <2> HIDE DEF k
  <2>3. WeakKey(k)
    BY <2>1, <2>2, OwnMailRead
  <2> QED
    BY <2>3 DEF k
<1>2. Spec => []Claim
  <2> HIDE DEF Claim
  <2> QED
    BY <1>1, Invariance, PTL
<1> QED
  BY <1>2

\* The server drops a request only when the square of its modulus does not fit into the
\* peers' words.
THEOREM DroppedCause == Spec => []DroppedOnlyOnOverflow
<1>1. Init => DropInv
  BY DisjointAssumption DEF Init, DropInv
<1>2. IInv /\ DropInv /\ [Next]_vars => DropInv'
  BY DropStep DEF IInv
<1>3. DropInv => DroppedOnlyOnOverflow
  <2> SUFFICES ASSUME DropInv, NEW c \in Conns, pc[c] = "refused" \/ told[c] = Nothing
               PROVE  serverKey.n * serverKey.n >= 2^(Word - 1)
    BY DEF DroppedOnlyOnOverflow
  <2>1. serverKey \in KotlinKeys /\ ~ (serverKey.n * serverKey.n < 2^(Word - 1))
    BY RequestIsRead DEF DropInv
  <2>2. serverKey.n \in Nat
    <3>1. PICK p \in Nat, q \in Nat : serverKey.n = p * q
      BY <2>1, ServerKeyIs
    <3> QED
      BY <3>1
  <2>3. serverKey.n * serverKey.n \in Nat /\ 2^(Word - 1) \in Nat
    BY <2>2, WordAssumption
  <2> QED
    BY <2>1, <2>3
<1> QED
  BY <1>1, <1>2, <1>3, Invariance, PTL DEF Spec

\* The mapping server is a name service: its steps are those of NameService, or
\* leave what was registered, found and read alone.
THEOREM ServesNames == Spec => NamesServed
<1>1. Init => NS!Init
  BY NameServiceInit
<1>2. IInv /\ [Next]_vars => [NS!Next]_(NS!vars)
  BY NameServiceStep
<1> QED
  BY <1>1, <1>2, Invariance, PTL DEF Spec, NamesServed, NS!Spec
=============================================================================
