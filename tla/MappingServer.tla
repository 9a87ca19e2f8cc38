--------------------------- MODULE MappingServer ----------------------------
(***************************************************************************)
(* The mapping server (MappingServer/src/Server.kt) and those who ask it:   *)
(* clients that get a user name (Client::getUsernameFromKotlin) and exit    *)
(* relays that get a user's address (Node::getPropertiesByUsername).  Every *)
(* connection has a thread; all threads encrypt with the one peer key that  *)
(* the server's RSAHandler holds.                                           *)
(* rand() is never seeded, so a process's primes depend on its program      *)
(* only: clients have one key pair and relays another (peerKey).            *)
(***************************************************************************)
EXTENDS Rsa, Sequences, FiniteSets

CONSTANTS
    Clients, Relays,
    Names,          \* the user names generateUsername draws from
    Predefined,     \* the names Server::start puts into the map
    MaxConns,       \* bound: connections the server serves
    Length,         \* bound: characters of an answer
    NotFound, Unread, Garbled, Nothing, None

Peers == Clients \cup Relays
Conns == 1 .. MaxConns
AllNames == Names \cup Predefined

\* The address of a predefined name is represented by the name, the address of
\* a client by the client.
Addresses == Clients \cup Predefined

ASSUME BoundAssumption == MaxConns \in Nat /\ Length \in Nat \ {0}
ASSUME DisjointAssumption ==
    /\ Clients \cap Relays = {}
    /\ Names \cap Addresses = {}
    /\ {NotFound, Unread, Garbled, Nothing, None} \cap (Names \cup Addresses) = {}
    /\ NotFound \notin {Unread, Garbled, Nothing, None}
    /\ Unread \notin {Garbled, Nothing, None}
    /\ Garbled \notin {Nothing, None}
    /\ Nothing # None
    /\ None \notin Relays
    /\ Unread \notin AllNames \X (Names \cup Addresses \cup {NotFound})

VARIABLES
    serverKey,  \* the server's own key pair
    peerKey,    \* the key pair of the clients and that of the relays
    shared,     \* rsaHandler.clientPublicKey and clientModulus
    names,      \* usernamesMap
    saved,      \* savedUsernames of each relay
    pc,         \* what the thread of a connection does next
    peer,       \* who made the connection
    wanted,     \* the name a relay asks for
    content,    \* the answer before it is encrypted
    exponent,   \* clientPublicKey as modPow's caller read it
    cipher,     \* the encrypted characters: the keys each was encrypted with
    told,       \* what the peer decrypted
    entered,    \* history: the connections whose name went into the map
    met         \* history: pairs of connections open at the same time

keyVars == <<serverKey, peerKey>>
connVars == <<pc, peer, wanted, content, exponent, cipher, told>>
vars == <<keyVars, shared, names, saved, connVars, entered, met>>

KindOf(p) == IF p \in Clients THEN "client" ELSE "relay"
Kind(c) == KindOf(peer[c])
Open(c) == pc[c] \notin {"idle", "sent", "refused", "done"}

NoKeys == [e |-> 0, n |-> 0]

Init ==
    /\ serverKey \in KotlinKeys
    /\ peerKey \in [{"client", "relay"} -> CppKeys]
    /\ shared = NoKeys
    /\ names = [u \in AllNames |-> IF u \in Predefined THEN u ELSE None]
    /\ saved = [r \in Relays |-> [u \in AllNames |-> None]]
    /\ pc = [c \in Conns |-> "idle"]
    /\ peer = [c \in Conns |-> None]
    /\ wanted = [c \in Conns |-> None]
    /\ content = [c \in Conns |-> None]
    /\ exponent = [c \in Conns |-> 0]
    /\ cipher = [c \in Conns |-> << >>]
    /\ told = [c \in Conns |-> Unread]
    /\ entered = {}
    /\ met = {}

Goto(c, label) == pc' = [pc EXCEPT ![c] = label]

-----------------------------------------------------------------------------
(* The peers. *)

\* A client or an exit relay connects and sends its public key; a relay does
\* so for a name it has not saved.
Connect(c) ==
    /\ pc[c] = "idle"
    /\ \A d \in Conns : d < c => pc[d] # "idle"
    /\ \/ \E p \in Clients : peer' = [peer EXCEPT ![c] = p] /\ UNCHANGED wanted
       \/ \E r \in Relays, u \in AllNames :
            /\ saved[r][u] = None
            /\ peer' = [peer EXCEPT ![c] = r]
            /\ wanted' = [wanted EXCEPT ![c] = u]
    /\ Goto(c, "key")
    /\ met' = met \cup {{c, d} : d \in {x \in Conns : Open(x)}}
    /\ UNCHANGED <<keyVars, shared, names, saved, content, exponent, cipher, told, entered>>

\* The peer decrypts the answer.  A relay keeps an address it got in
\* savedUsernames, where std::map's insert leaves an older one alone.
Reads(c) ==
    IF \A i \in 1 .. Len(cipher[c]) :
          <<cipher[c][i].e, cipher[c][i].n, peerKey[Kind(c)]>> \in ReadableAnswers
    THEN content[c] ELSE Garbled
PeerReadsAndFrees(c) ==
    /\ pc[c] = "sent"
    /\ told' = [told EXCEPT ![c] = Reads(c)]
    /\ saved' = IF Reads(c) \in Addresses /\ peer[c] \in Relays
                   /\ saved[peer[c]][wanted[c]] = None
                THEN [saved EXCEPT ![peer[c]][wanted[c]] = Reads(c)]
                ELSE saved
    /\ names' = [u \in AllNames |-> IF u = content[c] THEN None ELSE names[u]]
    /\ cipher' = [cipher EXCEPT ![c] = << >>]
    /\ Goto(c, "done")
    /\ UNCHANGED <<keyVars, shared, peer, wanted, content, exponent, entered, met>>
PeerReads(c) ==
    /\ pc[c] = "sent"
    /\ told' = [told EXCEPT ![c] = Reads(c)]
    /\ saved' = IF Reads(c) \in Addresses /\ peer[c] \in Relays
                   /\ saved[peer[c]][wanted[c]] = None
                THEN [saved EXCEPT ![peer[c]][wanted[c]] = Reads(c)]
                ELSE saved
    /\ cipher' = [cipher EXCEPT ![c] = << >>]
    /\ Goto(c, "done")
    /\ UNCHANGED <<keyVars, shared, names, peer, wanted, content, exponent, entered, met>>

\* The server closed the connection without an answer: parsing "" throws.
PeerGivesUp(c) ==
    /\ pc[c] = "refused"
    /\ told' = [told EXCEPT ![c] = Nothing]
    /\ Goto(c, "done")
    /\ UNCHANGED <<keyVars, shared, names, saved, peer, wanted, content, exponent, cipher,
                   entered, met>>

-----------------------------------------------------------------------------
(* The server's thread of a connection: Server::handleConnection. *)

\* setClientPublicKey and setClientModulus, on the handler all threads share.
SetPublicKey(c) ==
    /\ pc[c] = "key"
    /\ shared' = [shared EXCEPT !.e = peerKey[Kind(c)].e]
    /\ Goto(c, "mod")
    /\ UNCHANGED <<keyVars, names, saved, peer, wanted, content, exponent, cipher, told,
                   entered, met>>
SetModulusOnce(c) ==
    /\ pc[c] = "mod"
    /\ shared' = IF shared.n = 0 THEN [shared EXCEPT !.n = peerKey[Kind(c)].n] ELSE shared
    /\ Goto(c, "request")
    /\ UNCHANGED <<keyVars, names, saved, peer, wanted, content, exponent, cipher, told,
                   entered, met>>
SetModulus(c) ==
    /\ pc[c] = "mod"
    /\ shared' = [shared EXCEPT !.n = peerKey[Kind(c)].n]
    /\ Goto(c, "request")
    /\ UNCHANGED <<keyVars, names, saved, peer, wanted, content, exponent, cipher, told,
                   entered, met>>

\* The request arrives; one that cannot be decrypted fails to parse, as an
\* address and as an exit relay's question, and the catch closes the connection.
RefuseOpen(c) ==
    /\ pc[c] = "request"
    /\ serverKey \notin RequestReaders
    /\ UNCHANGED vars
Refuse(c) ==
    /\ pc[c] = "request"
    /\ serverKey \notin RequestReaders
    /\ Goto(c, "refused")
    /\ UNCHANGED <<keyVars, shared, names, saved, peer, wanted, content, exponent, cipher,
                   told, entered, met>>

\* What usernamesMap[username]?.toString() ?: "null" finds.  While another thread
\* puts into the map, get may miss an entry: nothing synchronises the map.
FoundAnything(u) == {names[u]}
FoundLess(u) == {names[u], NotFound} \ {None}
Found(u) ==
    LET putting == \E d \in Conns : pc[d] = "put"
    IN (IF names[u] = None \/ putting THEN {NotFound} ELSE {}) \cup ({names[u]} \ {None})

\* An exit relay's question.  After "Not found" the server writes a second
\* answer, "null", which parseEncryptedString of the relay does not look at.
LookUp(c) ==
    /\ pc[c] = "request"
    /\ serverKey \in RequestReaders
    /\ peer[c] \in Relays
    /\ \E a \in Found(wanted[c]) : content' = [content EXCEPT ![c] = a]
    /\ Goto(c, "encrypt")
    /\ UNCHANGED <<keyVars, shared, names, saved, peer, wanted, exponent, cipher, told,
                   entered, met>>

\* A client's address: draw names until one is not in the map.  When all are,
\* the loop never ends.
FreeOrNot == Names
Free == {u \in Names : names[u] = None}
Choose(c) ==
    /\ pc[c] = "request"
    /\ serverKey \in RequestReaders
    /\ peer[c] \in Clients
    /\ \E u \in Free : content' = [content EXCEPT ![c] = u]
    /\ Goto(c, "put")
    /\ UNCHANGED <<keyVars, shared, names, saved, peer, wanted, exponent, cipher, told,
                   entered, met>>

\* usernamesMap[username] = connectionPair; two threads that put at the same
\* time may lose one of the entries.
Put(c) ==
    /\ pc[c] = "put"
    /\ \/ /\ names' = [names EXCEPT ![content[c]] = peer[c]]
          /\ entered' = entered \cup {c}
       \/ /\ \E d \in Conns \ {c} : pc[d] = "put"
          /\ UNCHANGED <<names, entered>>
    /\ Goto(c, "encrypt")
    /\ UNCHANGED <<keyVars, shared, saved, peer, wanted, content, exponent, cipher, told, met>>

\* encrypt reads clientPublicKey and clientModulus for every character.
ReadExponent(c) ==
    /\ pc[c] = "encrypt"
    /\ exponent' = [exponent EXCEPT ![c] = shared.e]
    /\ Goto(c, "modulus")
    /\ UNCHANGED <<keyVars, shared, names, saved, peer, wanted, content, cipher, told,
                   entered, met>>
EncryptCharacter(c) ==
    /\ pc[c] = "modulus"
    /\ cipher' = [cipher EXCEPT ![c] = Append(@, [e |-> exponent[c], n |-> shared.n])]
    /\ exponent' = [exponent EXCEPT ![c] = 0]
    /\ Goto(c, IF Len(cipher[c]) + 1 = Length THEN "sent" ELSE "encrypt")
    /\ UNCHANGED <<keyVars, shared, names, saved, peer, wanted, content, told, entered, met>>

-----------------------------------------------------------------------------
ServerStep(c) == \/ SetPublicKey(c) \/ SetModulus(c) \/ Refuse(c) \/ LookUp(c)
                 \/ Choose(c) \/ Put(c) \/ ReadExponent(c) \/ EncryptCharacter(c)
PeerStep(c) == PeerReads(c) \/ PeerGivesUp(c)

Next == \E c \in Conns : Connect(c) \/ ServerStep(c) \/ PeerStep(c)

Spec == Init /\ [][Next]_vars

\* Threads of the server and the peers that wait for an answer run; nobody has
\* to connect.
Fairness == \A c \in Conns : WF_vars(ServerStep(c)) /\ WF_vars(PeerStep(c))
FairSpec == Spec /\ Fairness

-----------------------------------------------------------------------------
(* Properties. *)

Keys == [e : Nat, n : Nat]

\* Every variable holds what its declaration in the code allows.
TypeOK ==
    /\ shared \in Keys
    /\ names \in [AllNames -> Addresses \cup {None}]
    /\ saved \in [Relays -> [AllNames -> Addresses \cup {None}]]
    /\ pc \in [Conns -> {"idle", "key", "mod", "request", "refused", "put", "encrypt",
                         "modulus", "sent", "done"}]
    /\ peer \in [Conns -> Peers \cup {None}]
    /\ wanted \in [Conns -> AllNames \cup {None}]
    /\ content \in [Conns -> Names \cup Addresses \cup {NotFound, None}]
    /\ exponent \in [Conns -> Nat]
    /\ cipher \in [Conns -> Seq(Keys)]
    /\ told \in [Conns -> Names \cup Addresses \cup {NotFound, Unread, Garbled, Nothing}]
    /\ entered \subseteq Conns
    /\ met \subseteq SUBSET Conns

Overlapped(c) == \E d \in Conns \ {c} : {c, d} \in met

\* A peer whose key pair can read its own mail gets an unreadable answer only
\* if a connection of the other program, client or relay, was open at the same
\* time and left its key, or half of it, in the shared handler.
GarbledOnlyAcrossKinds ==
    \A c \in Conns : told[c] = Garbled =>
        LET k == peerKey[Kind(c)]
        IN \/ <<k.e, k.n, k>> \notin ReadableAnswers
           \/ \E d \in Conns : {c, d} \in met /\ Kind(d) # Kind(c)

\* A request is dropped without an answer only when the square of the server's
\* modulus does not fit into the peers' signed words: mod_pow (RSAHandler.cpp)
\* then overflows where modPow (RSAHandler.kt) does not.
DroppedOnlyOnOverflow ==
    \A c \in Conns : pc[c] = "refused" \/ told[c] = Nothing =>
        serverKey.n * serverKey.n >= 2^(Word - 1)

\* Two registrations get the same name only if one of them overlapped another
\* connection: checking the map and putting into it are two steps.
SameNameOnlyOnOverlap ==
    \A c, d \in Conns : c # d /\ content[c] \in Names /\ content[c] = content[d]
        => Overlapped(c) \/ Overlapped(d)

\* What a relay saved of a name is what the map says of it, for ever, unless
\* the name was given twice: nobody ever tells the relay of a change.
SavedIsCurrent ==
    \A r \in Relays, u \in AllNames : saved[r][u] \notin {None, names[u]} =>
        \E c, d \in Conns : c # d /\ content[c] = u /\ content[d] = u

\* Lookups and registrations are those of a name service.
NS == INSTANCE NameService WITH
        Predefined  <- {<<u, u>> : u \in Predefined},
        registered  <- {<<u, u>> : u \in Predefined} \cup
                       {<<content[c], peer[c]>> : c \in entered},
        registering <- {c \in Conns : pc[c] = "put"},
        found <- [c \in Conns |-> IF peer[c] \in Relays /\ content[c] # None
                                  THEN <<wanted[c], content[c]>> ELSE Unread],
        read  <- [c \in Conns |-> IF peer[c] \in Relays /\ told[c] # Nothing
                                  THEN told[c] ELSE Unread]
NamesServed == NS!Spec

\* Every connection comes to its end, with an answer or without, unless all the
\* names are taken when a client asks for one: none that has begun stays open for ever.
EveryoneAnswered ==
    []<>((\A c \in Conns : pc[c] \in {"idle", "done"}) \/ \A u \in Names : names[u] # None)
=============================================================================
