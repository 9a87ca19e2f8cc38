------------------------------ MODULE Circuit -------------------------------
(***************************************************************************)
(* The life of a circuit: a client designs a path of relays, shakes hands   *)
(* with each of them in turn, connects to the first one and exchanges       *)
(* onions with a host behind the last one (ClientProject/Client.cpp,        *)
(* NodeProject/Node.cpp, ServerProject/ClientConnection.cpp).               *)
(*                                                                          *)
(* A client c has one circuit.  The handshake with its i-th hop makes one   *)
(* AES key and one ConversationObject, both named by the pair <<c, i>>.     *)
(* Link <<c, 0>> is the client's connection to its entry relay, link        *)
(* <<c, i>> the one that conversation object <<c, i>> keeps in nxtNode.     *)
(* The circuit is followed for less than PATH_TIMEOUT: the expiry of        *)
(* conversations is left out.                                               *)
(***************************************************************************)
EXTENDS Naturals, Sequences, FiniteSets

CONSTANTS
    Clients, Relays,
    Ids,                 \* conversation identifiers a relay can draw
    MinPath, MaxPath,    \* DEFAULT_PATH_LENGTH and MAX_PATH_LENGTH
    Requests,            \* path lengths the user asks for
    MaxMsgs,             \* bound: messages typed per client
    MaxCrashes,          \* bound: relays that stop on their own
    NoRelay, NoId, NoKey, NoLink

Hops  == 1 .. MaxPath
Keys  == Clients \X Hops
Links == Clients \X (0 .. MaxPath)

ASSUME PathAssumption == /\ MinPath \in Nat \ {0} /\ MaxPath \in Nat
                         /\ MinPath <= MaxPath /\ Requests \subseteq Nat
ASSUME BoundAssumption == MaxMsgs \in Nat /\ MaxCrashes \in Nat
ASSUME NoValueAssumption == /\ NoRelay \notin Relays /\ NoId \notin Ids
                            /\ NoKey \notin Keys /\ NoLink \notin Links

VARIABLES
    cpc,       \* what the client's handleClient thread is doing
    path,      \* currentPath: the relays of the circuit
    hop,       \* the hop handshakeWithCurrentPath is at
    hopId,     \* RelayObject::conversationId of each hop
    up,        \* the relay processes that run
    crashes,   \* how many relays stopped on their own
    at,        \* the relay a handshake was made with
    hs,        \* the message the relay or the client has to read next
    told,      \* the last message of a handshake: next relay, or EXIT_NODE
    convId,    \* ConversationObject::conversationId
    role,      \* what the conversation object knows of its place in the path
    nxt,       \* ConversationObject::nxtIP and nxtPort
    prv,       \* ConversationObject::prvNodeSocket
    convMap,   \* Node::conversationsMap of each relay
    link,      \* state of a connection, as its initiator sees it
    bound,     \* the conversation object a connection's threads work on
    handler,   \* the thread in handleNode or handleNodeAsExit
    lstn,      \* the thread in listenToNextNode or listenToHosts
    fwd, back, \* messages in flight on a connection, in the two directions
    host,      \* messages the host has not answered, per exit conversation
    sent, delivered, shown,
    warned     \* the user was shown a NODE_UNREACHABLE report

clientVars == <<cpc, path, hop, hopId>>
relayVars  == <<up, crashes>>
hsVars     == <<at, hs, told>>
convVars   == <<convId, role, nxt, prv, convMap>>
threadVars == <<bound, handler, lstn>>
netVars    == <<link, fwd, back, host>>
userVars   == <<sent, delivered, shown, warned>>
vars == <<clientVars, relayVars, hsVars, convVars, threadVars, netVars, userVars>>

Entry(c) == <<c, 0>>
LinkTo(l) == IF l[2] = 0 THEN at[<<l[1], 1>>] ELSE nxt[l]

\* The other end is gone: what is sent may vanish or be refused.
Broken(l) == link[l] = "broken" \/ ~ up[LinkTo(l)]

Clamp(len) == IF len > MaxPath THEN MaxPath ELSE len

\* handshakeWithCurrentPath has no hop left after this one.
LastHopTooLate(c) == hop[c] > Len(path[c])
LastHop(c) == hop[c] = Len(path[c])

\* What a client tells hop i: the next relay, or (NoRelay) EXIT_NODE.
NextHopItself(c, i) == IF i < Len(path[c]) THEN path[c][i] ELSE NoRelay
NextHop(c, i) == IF i < Len(path[c]) THEN path[c][i + 1] ELSE NoRelay

\* Client::encrypt: one layer per hop, the entry relay's outermost, each one
\* the conversation id for the relay followed by the AES ciphertext.
Onion(c, n) ==
    [layers |-> [i \in 1 .. Len(path[c]) |-> [id |-> hopId[<<c, i>>], key |-> <<c, i>>]],
     body   |-> [from |-> c, n |-> n]]
Outer(onion) == Head(onion.layers)
PeelNothing(onion) == onion
Peel(onion) == [onion EXCEPT !.layers = Tail(@)]

\* AesHandler::encryptAES on the way back, and Client::decrypt, which opens a
\* message only when it carries one layer of every hop, in path order.
Answer(k, body) == [wraps |-> <<k>>, body |-> body]
WrapNothing(k, msg) == msg
Wrap(k, msg) == [msg EXCEPT !.wraps = <<k>> \o @]
OpensBackwards(c, msg) ==
    msg.wraps = [i \in 1 .. Len(path[c]) |-> <<c, Len(path[c]) + 1 - i>>]
Opens(c, msg) == msg.wraps = [i \in 1 .. Len(path[c]) |-> <<c, i>>]

\* conversationsMap: std::map::insert keeps an old entry; removeConversationFromMap.
Inserted(map, id, k) == IF map[id] = NoKey THEN [map EXCEPT ![id] = k] ELSE map
ErasedNothing(map, id) == map
Erased(map, id) == [map EXCEPT ![id] = NoKey]

\* The body of a NODE_UNREACHABLE report from conversation k.
Unreachable(k) == [from |-> k[1], n |-> 0]

\* IConnection::receiveData takes the next message of connection l.
ReceivedStale(l) == fwd
ReceivedAll(l) == [fwd EXCEPT ![l] = << >>]
Received(l) == [fwd EXCEPT ![l] = Tail(@)]

\* IConnection::sendData to the initiator of a connection: errors are ignored.
Reply(l, msg) == IF link[l] = "open" THEN Append(back[l], msg) ELSE back[l]

Init ==
    /\ cpc = [c \in Clients |-> "idle"]
    /\ path = [c \in Clients |-> << >>]
    /\ hop = [c \in Clients |-> 1]
    /\ hopId = [k \in Keys |-> NoId]
    /\ up = [r \in Relays |-> TRUE]
    /\ crashes = 0
    /\ at = [k \in Keys |-> NoRelay]
    /\ hs = [k \in Keys |-> "none"]
    /\ told = [k \in Keys |-> NoRelay]
    /\ convId = [k \in Keys |-> NoId]
    /\ role = [k \in Keys |-> "unset"]
    /\ nxt = [k \in Keys |-> NoRelay]
    /\ prv = [k \in Keys |-> NoLink]
    /\ convMap = [r \in Relays |-> [i \in Ids |-> NoKey]]
    /\ link = [l \in Links |-> "none"]
    /\ bound = [l \in Links |-> NoKey]
    /\ handler = [l \in Links |-> "none"]
    /\ lstn = [l \in Links |-> "none"]
    /\ fwd = [l \in Links |-> << >>]
    /\ back = [l \in Links |-> << >>]
    /\ host = [k \in Keys |-> << >>]
    /\ sent = [c \in Clients |-> 0]
    /\ delivered = [c \in Clients |-> << >>]
    /\ shown = [c \in Clients |-> << >>]
    /\ warned = [c \in Clients |-> FALSE]

-----------------------------------------------------------------------------
(* The client: path design, handshakes, traffic. *)

\* handleClient on a START PATH DESIGN command: lengths below the minimum are
\* refused, longer ones clamped; each hop is drawn from the relays the
\* directory listed, which may have stopped since, and may repeat.
PathDesign(c) ==
    /\ cpc[c] = "idle"
    /\ \E len \in Requests :
         /\ len >= MinPath
         /\ \E p \in [1 .. Clamp(len) -> Relays] : path' = [path EXCEPT ![c] = p]
    /\ cpc' = [cpc EXCEPT ![c] = "connect"]
    /\ UNCHANGED <<hop, hopId, relayVars, hsVars, convVars, threadVars, netVars, userVars>>

\* stopCurrentElectornConnection: the path is cleared, the session ends.
StopSession(c) ==
    /\ cpc' = [cpc EXCEPT ![c] = "stopped"]
    /\ path' = [path EXCEPT ![c] = << >>]

\* An exception while handshakeWithNode or decrypt holds currentPathMutex:
\* nobody releases it, and no thread of the client gets past it any more.
Wedge(c) == cpc' = [cpc EXCEPT ![c] = "wedged"]

\* handshakeWithNode: connect, and send the AES key under the relay's ECC key.
Connect(c) ==
    LET k == <<c, hop[c]>>
        r == path[c][hop[c]]
    IN /\ cpc[c] = "connect"
       /\ \/ /\ up[r]
             /\ at' = [at EXCEPT ![k] = r]
             /\ hs' = [hs EXCEPT ![k] = "key"]
             /\ cpc' = [cpc EXCEPT ![c] = "await"]
             /\ UNCHANGED path
          \/ /\ ~ up[r]
             /\ StopSession(c)
             /\ UNCHANGED <<at, hs>>
       /\ UNCHANGED <<hop, hopId, relayVars, told, convVars, threadVars, netVars, userVars>>

\* handshakeWithNode, second half: record key and id, tell the relay its next
\* hop and go on without waiting for the relay to have read it.
ReceiveId(c) ==
    LET k == <<c, hop[c]>>
    IN /\ cpc[c] = "await"
       /\ hs[k] = "id"
       /\ hopId' = [hopId EXCEPT ![k] = convId[k]]
       /\ hs' = [hs EXCEPT ![k] = "role"]
       /\ told' = [told EXCEPT ![k] = NextHop(c, hop[c])]
       /\ \/ /\ LastHop(c)
             /\ cpc' = [cpc EXCEPT ![c] = "entry"]
             /\ UNCHANGED hop
          \/ /\ ~ LastHop(c)
             /\ cpc' = [cpc EXCEPT ![c] = "connect"]
             /\ hop' = [hop EXCEPT ![c] = @ + 1]
       /\ UNCHANGED <<path, relayVars, at, convVars, threadVars, netVars, userVars>>

\* The relay died during the handshake: receiveData returns "" and decrypting
\* that throws; or the id arrived and the send after it throws, with
\* currentPathMutex held.
HandshakeBroken(c) ==
    LET k == <<c, hop[c]>>
    IN /\ cpc[c] = "await"
       /\ ~ up[at[k]]
       /\ \/ StopSession(c)
          \/ hs[k] = "id" /\ Wedge(c) /\ UNCHANGED path
       /\ UNCHANGED <<hop, hopId, relayVars, hsVars, convVars, threadVars, netVars, userVars>>

\* connectToEntryNode, after the design and again when a later message finds
\* the connection inactive; a new connection starts with new threads.
ConnectEntry(c) ==
    LET l == Entry(c)
    IN /\ \/ cpc[c] = "entry"
          \/ cpc[c] = "ready" /\ link[l] = "closed" /\ sent[c] < MaxMsgs
       /\ \/ /\ up[path[c][1]]
             /\ cpc' = [cpc EXCEPT ![c] = "ready"]
             /\ link' = [link EXCEPT ![l] = "open"]
             /\ bound' = [bound EXCEPT ![l] = NoKey]
             /\ handler' = [handler EXCEPT ![l] = "none"]
             /\ lstn' = [lstn EXCEPT ![l] = "none"]
             /\ fwd' = [fwd EXCEPT ![l] = << >>]
             /\ back' = [back EXCEPT ![l] = << >>]
             /\ UNCHANGED path
          \/ /\ ~ up[path[c][1]]
             /\ StopSession(c)
             /\ UNCHANGED <<link, threadVars, fwd, back>>
       /\ UNCHANGED <<hop, hopId, relayVars, hsVars, convVars, host, userVars>>

\* splitResponseAndSend: the onion goes to the entry relay.  A send on a broken
\* connection is swallowed by the socket, or fails and closes it.
ClientSend(c) ==
    LET l == Entry(c)
    IN /\ cpc[c] = "ready"
       /\ link[l] # "closed"
       /\ sent[c] < MaxMsgs
       /\ sent' = [sent EXCEPT ![c] = @ + 1]
       /\ \/ /\ ~ Broken(l)
             /\ fwd' = [fwd EXCEPT ![l] = Append(@, Onion(c, sent[c] + 1))]
             /\ UNCHANGED link
          \/ /\ Broken(l)
             /\ link' \in {link, [link EXCEPT ![l] = "closed"]}
             /\ UNCHANGED fwd
       /\ UNCHANGED <<clientVars, relayVars, hsVars, convVars, threadVars, back, host,
                      delivered, shown, warned>>

\* receiveMessagesForElectron: a message that does not open makes decrypt throw
\* while it holds currentPathMutex.
ClientReceive(c) ==
    LET l   == Entry(c)
        msg == Head(back[l])
    IN /\ cpc[c] = "ready"
       /\ link[l] # "closed"
       /\ back[l] # << >>
       /\ back' = [back EXCEPT ![l] = Tail(@)]
       /\ \/ /\ Opens(c, msg)
             /\ msg.body.n # 0
             /\ shown' = [shown EXCEPT ![c] = Append(@, msg.body)]
             /\ UNCHANGED <<cpc, warned>>
          \/ /\ Opens(c, msg)
             /\ msg.body.n = 0
             /\ warned' = [warned EXCEPT ![c] = TRUE]
             /\ UNCHANGED <<cpc, shown>>
          \/ /\ ~ Opens(c, msg)
             /\ Wedge(c)
             /\ UNCHANGED <<shown, warned>>
       /\ UNCHANGED <<path, hop, hopId, relayVars, hsVars, convVars, threadVars,
                      link, fwd, host, sent, delivered>>

-----------------------------------------------------------------------------
(* The relay: the thread of a handshake. *)

\* clientHandshake: make the conversation under an id drawn at random, put it
\* in the map unless the id is taken, send the id.
AcceptKey(k) ==
    /\ hs[k] = "key"
    /\ up[at[k]]
    /\ \E id \in Ids :
         /\ convId' = [convId EXCEPT ![k] = id]
         /\ convMap' = [convMap EXCEPT ![at[k]] = Inserted(@, id, k)]
    /\ hs' = [hs EXCEPT ![k] = "id"]
    /\ UNCHANGED <<clientVars, relayVars, at, told, role, nxt, prv, threadVars,
                   netVars, userVars>>

\* Undefined behaviour in relay r: the process dies or goes on.
MayCrash(r) == up' \in {up, [up EXCEPT ![r] = FALSE]}

\* clientHandshake, last message: next relay or EXIT_NODE.  When the
\* conversation was deleted meanwhile, this writes to freed memory.
AcceptRole(k) ==
    /\ hs[k] = "role"
    /\ up[at[k]]
    /\ hs' = [hs EXCEPT ![k] = "done"]
    /\ \/ /\ role[k] # "freed"
          /\ role' = [role EXCEPT ![k] = IF told[k] = NoRelay THEN "exit" ELSE "relay"]
          /\ nxt' = [nxt EXCEPT ![k] = told[k]]
          /\ UNCHANGED up
       \/ /\ role[k] = "freed"
          /\ MayCrash(at[k])
          /\ UNCHANGED <<role, nxt>>
    /\ UNCHANGED <<clientVars, crashes, at, told, convId, prv, convMap, threadVars,
                   netVars, userVars>>

-----------------------------------------------------------------------------
(* The relay: the threads of a connection. *)

\* handleClient reads the first message of connection l at an open relay.
FirstMessage(l) == /\ link[l] = "open"
                   /\ handler[l] = "none"
                   /\ fwd[l] # << >>
                   /\ up[LinkTo(l)]
AddressedAnyhow(l) ==
    LET found == {convMap[LinkTo(l)][id] : id \in Ids} \ {NoKey}
    IN IF found = {} THEN NoKey ELSE CHOOSE k \in found : TRUE
Addressed(l) == convMap[LinkTo(l)][Outer(Head(fwd[l])).id]

\* findConversationBy finds nothing and handleClient dereferences the null.
BindUnknown(l) ==
    /\ FirstMessage(l)
    /\ Addressed(l) = NoKey
    /\ up' = [up EXCEPT ![LinkTo(l)] = FALSE]
    /\ UNCHANGED <<clientVars, crashes, hsVars, convVars, threadVars, netVars, userVars>>

\* handleNode with a next node that is connected or can be, or handleNodeAsExit:
\* the conversation answers to this connection from now on.
Bind(l) ==
    LET k == Addressed(l)
    IN /\ FirstMessage(l)
       /\ k # NoKey
       /\ \/ /\ role[k] = "exit" \/ link[k] # "none"
             /\ UNCHANGED link
          \/ /\ role[k] = "relay" /\ link[k] = "none" /\ up[nxt[k]]
             /\ link' = [link EXCEPT ![k] = "open"]
       /\ prv' = [prv EXCEPT ![k] = l]
       /\ bound' = [bound EXCEPT ![l] = k]
       /\ handler' = [handler EXCEPT ![l] = "run"]
       /\ lstn' = [lstn EXCEPT ![l] = "run"]
       /\ UNCHANGED <<clientVars, relayVars, hsVars, convId, role, nxt, convMap,
                      fwd, back, host, userVars>>

\* handleNode cannot connect to the next node, or was not told which one it is:
\* report it, erase the conversation (which closes the connection) and delete
\* it a second time.
BindFails(l) ==
    LET k == Addressed(l)
    IN /\ FirstMessage(l)
       /\ k # NoKey
       /\ link[k] = "none"
       /\ \/ role[k] = "unset"
          \/ role[k] = "relay" /\ ~ up[nxt[k]]
       /\ prv' = [prv EXCEPT ![k] = l]
       /\ back' = [back EXCEPT ![l] = Reply(l, Answer(k, Unreachable(k)))]
       /\ convMap' = [convMap EXCEPT ![at[k]] = Erased(@, convId[k])]
       /\ role' = [role EXCEPT ![k] = "freed"]
       /\ link' = [link EXCEPT ![l] = "broken"]
       /\ bound' = [bound EXCEPT ![l] = k]
       /\ handler' = [handler EXCEPT ![l] = "ended"]
       /\ MayCrash(at[k])
       /\ UNCHANGED <<clientVars, crashes, hsVars, convId, nxt, lstn, fwd, host, userVars>>

\* handleNode's or handleNodeAsExit's loop takes the next message of l.
Takes(l) == /\ handler[l] = "run"
            /\ fwd[l] # << >>
            /\ up[LinkTo(l)]
ReadableAnyhow(l) == TRUE
Readable(l) == Outer(Head(fwd[l])).key = bound[l]

\* decryptAES throws: the thread ends, its socket stays open.
DecryptFails(l) ==
    /\ Takes(l)
    /\ ~ Readable(l)
    /\ fwd' = Received(l)
    /\ handler' = [handler EXCEPT ![l] = "ended"]
    /\ UNCHANGED <<clientVars, relayVars, hsVars, convVars, bound, lstn, link, back, host,
                   userVars>>

\* handleNode: peel a layer and pass the rest on.
Forward(l) ==
    LET k == bound[l]
    IN /\ Takes(l)
       /\ Readable(l)
       /\ role[k] = "relay"
       /\ \/ /\ link[k] = "open" /\ ~ Broken(k)
             /\ fwd' = [Received(l) EXCEPT ![k] = Append(@, Peel(Head(fwd[l])))]
             /\ UNCHANGED <<link, handler>>
          \/ /\ link[k] # "closed" /\ Broken(k)
             /\ fwd' = Received(l)
             /\ UNCHANGED <<link, handler>>
          \/ /\ link[k] = "closed" \/ Broken(k)
             /\ fwd' = Received(l)
             /\ link' = [link EXCEPT ![k] = "closed"]
             /\ handler' = [handler EXCEPT ![l] = "ended"]
       /\ UNCHANGED <<clientVars, relayVars, hsVars, convVars, bound, lstn, back, host, userVars>>

\* handleNodeAsExit: peel the last layer and hand the message to its host.
Deliver(l) ==
    LET k == bound[l]
        body == Head(fwd[l]).body
    IN /\ Takes(l)
       /\ Readable(l)
       /\ role[k] = "exit"
       /\ fwd' = Received(l)
       /\ host' = [host EXCEPT ![k] = Append(@, body)]
       /\ delivered' = [delivered EXCEPT ![body.from] = Append(@, body.n)]
       /\ UNCHANGED <<clientVars, relayVars, hsVars, convVars, threadVars, link, back,
                      sent, shown, warned>>

\* The host answers; listenToHosts, started for connection l, sends the answer
\* back on that connection.
HostAnswer(l) ==
    LET k == bound[l]
    IN /\ lstn[l] = "run"
       /\ up[LinkTo(l)]
       /\ role[k] = "exit"
       /\ host[k] # << >>
       /\ host' = [host EXCEPT ![k] = Tail(@)]
       /\ back' = [back EXCEPT ![l] = Reply(l, Answer(k, Head(host[k])))]
       /\ UNCHANGED <<clientVars, relayVars, hsVars, convVars, threadVars, link, fwd, userVars>>

\* listenToNextNode: wrap what the next node sent and pass it back.
Backward(l) ==
    LET k == bound[l]
    IN /\ lstn[l] = "run"
       /\ up[LinkTo(l)]
       /\ role[k] = "relay"
       /\ link[k] # "closed"
       /\ back[k] # << >>
       /\ back' = [back EXCEPT ![k] = Tail(@), ![l] = Reply(l, Wrap(k, Head(back[k])))]
       /\ UNCHANGED <<clientVars, relayVars, hsVars, convVars, threadVars, link, fwd, host,
                      userVars>>

\* listenToNextNode finds the connection to the next node inactive.
Report(l) ==
    LET k == bound[l]
    IN /\ lstn[l] = "run"
       /\ up[LinkTo(l)]
       /\ role[k] = "relay"
       /\ link[k] = "closed"
       /\ back' = [back EXCEPT ![prv[k]] = Reply(prv[k], Answer(k, Unreachable(k)))]
       /\ lstn' = [lstn EXCEPT ![l] = "ended"]
       /\ UNCHANGED <<clientVars, relayVars, hsVars, convVars, bound, handler, link, fwd, host,
                      userVars>>

\* A relay's machine stops.
Crash(r) ==
    /\ up[r]
    /\ crashes < MaxCrashes
    /\ crashes' = crashes + 1
    /\ up' = [up EXCEPT ![r] = FALSE]
    /\ UNCHANGED <<clientVars, hsVars, convVars, threadVars, netVars, userVars>>

-----------------------------------------------------------------------------
ClientStep(c) == \/ Connect(c) \/ ReceiveId(c) \/ HandshakeBroken(c)
                 \/ ConnectEntry(c) \/ ClientReceive(c)
HandshakeStep(k) == AcceptKey(k) \/ AcceptRole(k)
HandlerStep(l) == \/ BindUnknown(l) \/ Bind(l) \/ BindFails(l)
                  \/ DecryptFails(l) \/ Forward(l) \/ Deliver(l)
ListenerStep(l) == HostAnswer(l) \/ Backward(l) \/ Report(l)

Next == \/ \E c \in Clients : PathDesign(c) \/ ClientSend(c) \/ ClientStep(c)
        \/ \E k \in Keys : HandshakeStep(k)
        \/ \E l \in Links : HandlerStep(l) \/ ListenerStep(l)
        \/ \E r \in Relays : Crash(r)

Spec == Init /\ [][Next]_vars

\* Every thread that can run runs; the user and the crashes are free.  Answers
\* are among the listener's steps: the host is taken to answer.
Fairness == /\ \A c \in Clients : WF_vars(ClientStep(c))
            /\ \A k \in Keys : WF_vars(HandshakeStep(k))
            /\ \A l \in Links : WF_vars(HandlerStep(l)) /\ WF_vars(ListenerStep(l))
FairSpec == Spec /\ Fairness

-----------------------------------------------------------------------------
(* Properties. *)

Body  == [from : Clients, n : Nat]
Layer == [id : Ids, key : Keys]

\* Every variable holds what its declaration in the code allows.
TypeOK ==
    /\ cpc \in [Clients -> {"idle", "connect", "await", "entry", "ready", "stopped", "wedged"}]
    /\ path \in [Clients -> Seq(Relays)]
    /\ hop \in [Clients -> Hops]
    /\ hopId \in [Keys -> Ids \cup {NoId}]
    /\ up \in [Relays -> BOOLEAN]
    /\ crashes \in Nat
    /\ at \in [Keys -> Relays \cup {NoRelay}]
    /\ hs \in [Keys -> {"none", "key", "id", "role", "done"}]
    /\ told \in [Keys -> Relays \cup {NoRelay}]
    /\ convId \in [Keys -> Ids \cup {NoId}]
    /\ role \in [Keys -> {"unset", "relay", "exit", "freed"}]
    /\ nxt \in [Keys -> Relays \cup {NoRelay}]
    /\ prv \in [Keys -> Links \cup {NoLink}]
    /\ convMap \in [Relays -> [Ids -> Keys \cup {NoKey}]]
    /\ link \in [Links -> {"none", "open", "broken", "closed"}]
    /\ bound \in [Links -> Keys \cup {NoKey}]
    /\ handler \in [Links -> {"none", "run", "ended"}]
    /\ lstn \in [Links -> {"none", "run", "ended"}]
    /\ fwd \in [Links -> Seq([layers : Seq(Layer), body : Body])]
    /\ back \in [Links -> Seq([wraps : Seq(Keys), body : Body])]
    /\ host \in [Keys -> Seq(Body)]
    /\ sent \in [Clients -> Nat]
    /\ delivered \in [Clients -> Seq(Nat)]
    /\ shown \in [Clients -> Seq(Body)]
    /\ warned \in [Clients -> BOOLEAN]

\* Two conversations of one relay were given the same identifier.
Collided(k) == /\ convId[k] # NoId
               /\ \E j \in Keys \ {k} : at[j] = at[k] /\ convId[j] = convId[k]

\* Something happened to the circuit of client c that no thread repairs: a
\* relay it used is down, one of its conversations was deleted, or an
\* identifier it was given is somebody else's too.
Disturbed(c) == \E i \in Hops :
    LET k == <<c, i>>
    IN \/ at[k] # NoRelay /\ ~ up[at[k]]
       \/ i <= Len(path[c]) /\ ~ up[path[c][i]]
       \/ role[k] = "freed"
       \/ Collided(k)

\* What the client recorded of a hop (handshakeWithNode) is what the relay of
\* that hop stored (clientHandshake): the same identifier, and, once the relay
\* knows its place, the next relay of the client's path, or none at the exit.
HopsAgree ==
    \A c \in Clients : \A i \in 1 .. Len(path[c]) :
        LET k == <<c, i>>
        IN hopId[k] # NoId =>
             /\ at[k] = path[c][i]
             /\ hopId[k] = convId[k]
             /\ role[k] = "exit"  => i = Len(path[c])
             /\ role[k] = "relay" => i < Len(path[c]) /\ nxt[k] = path[c][i + 1]

\* conversationsMap finds a conversation that was not deleted under its own
\* identifier, unless another conversation of that relay has the identifier
\* too; and it never finds a deleted one, or one of another relay.
MapFindsConversations ==
    /\ \A k \in Keys : convId[k] # NoId /\ role[k] # "freed" /\ ~ Collided(k)
                         => convMap[at[k]][convId[k]] = k
    /\ \A r \in Relays, id \in Ids : convMap[r][id] # NoKey =>
            LET k == convMap[r][id] IN at[k] = r /\ convId[k] = id /\ role[k] # "freed"

\* The connection out of hop i carries onions of its own circuit only, with
\* one layer for each of the hops behind it and none for those before: even
\* when identifiers collide, no relay forwards an onion that is not for it.
OnionsInPlace ==
    \A l \in Links : \A j \in 1 .. Len(fwd[l]) :
        LET onion == fwd[l][j]
        IN /\ onion.body.from = l[1]
           /\ \A m \in 1 .. Len(onion.layers) : onion.layers[m].key = <<l[1], l[2] + m>>
           /\ Len(onion.layers) > 0
           /\ path[l[1]] # << >> => Len(onion.layers) = Len(path[l[1]]) - l[2]

\* Where message n of client c is: shown as an answer, on a connection towards
\* the exit, at the host, or in an answer on its way back.
Shown(c, n)    == \E j \in 1 .. Len(shown[c]) : shown[c][j].n = n
Onward(c, n)   == \E i \in 0 .. MaxPath : \E j \in 1 .. Len(fwd[<<c, i>>]) :
                      fwd[<<c, i>>][j].body.n = n
AtHost(c, n)   == \E i \in Hops : \E j \in 1 .. Len(host[<<c, i>>]) : host[<<c, i>>][j].n = n
Homeward(c, n) == \E i \in 0 .. MaxPath : \E j \in 1 .. Len(back[<<c, i>>]) :
                      back[<<c, i>>][j].body.n = n

\* A thread at one of the circuit's connections, or the client, can take the
\* next message or answer.
CanGoOn(c) ==
    \/ \E i \in 0 .. MaxPath :
         LET l == <<c, i>>
         IN \/ FirstMessage(l)
            \/ Takes(l) /\ Readable(l)
            \/ /\ lstn[l] = "run" /\ up[LinkTo(l)]
               /\ \/ role[bound[l]] = "exit" /\ host[bound[l]] # << >>
                  \/ /\ role[bound[l]] = "relay" /\ link[bound[l]] # "closed"
                     /\ back[bound[l]] # << >>
    \/ cpc[c] = "ready" /\ link[Entry(c)] # "closed" /\ back[Entry(c)] # << >>

\* A client whose circuit was not disturbed does not lose its path mutex to a
\* thread that died in decrypt or handshakeWithNode.
WedgedOnlyIfDisturbed == \A c \in Clients : cpc[c] = "wedged" => Disturbed(c)

\* A circuit that was not disturbed loses nothing and does not get stuck: its
\* client is not wedged, each message typed is on its way or its answer was
\* shown, and while one is on its way some thread can take it further.
UndisturbedCircuitWorks ==
    /\ WedgedOnlyIfDisturbed
    /\ \A c \in Clients : ~ Disturbed(c) =>
         \A n \in 1 .. sent[c] :
           \/ Shown(c, n)
           \/ (Onward(c, n) \/ AtHost(c, n) \/ Homeward(c, n)) /\ CanGoOn(c)

\* Without a deleted conversation no relay process dies but by its own crash:
\* every null dereference and double delete goes back to a handleNode that
\* could not connect, or was not told where to.
DownOnlyByCrash ==
    (\A k \in Keys : role[k] # "freed") => Cardinality({r \in Relays : ~ up[r]}) = crashes

\* Answers keep to the circuit they belong to, unless one of its identifiers
\* collides: then two listeners compete for the answers of one conversation.
AnswersStayHome ==
    \A l \in Links : \A j \in 1 .. Len(back[l]) :
        back[l][j].body.from = l[1] \/ \E i \in Hops : Collided(<<l[1], i>>)

\* A circuit implements the abstract tunnel: in-order, at-most-once delivery
\* of what was typed, answers only to what was delivered.
T == INSTANCE Tunnel WITH
         Clients <- Clients, sent <- sent, delivered <- delivered, shown <- shown
Tunneled == T!Spec

\* Every message typed on an undisturbed circuit is answered on the screen.
EveryMessageAnswered ==
    \A c \in Clients : \A n \in 1 .. MaxMsgs :
        (sent[c] >= n) ~> (Disturbed(c) \/ \E j \in 1 .. Len(shown[c]) : shown[c][j].n = n)

\* "Handshake completed" (Client.cpp:152): when the client has finished its
\* handshakes, every relay of the path knows its place in it.
HandshakeCompleted ==
    \A c \in Clients : cpc[c] \in {"entry", "ready"} =>
        \A i \in 1 .. Len(path[c]) :
            up[at[<<c, i>>]] => role[<<c, i>>] \in {"relay", "exit"}

\* "Next node unreachable. Design new path without" (Node.cpp:612): a report
\* that comes in at the client can be read there.
ReportReadable ==
    \A c \in Clients : cpc[c] = "ready" =>
        \A j \in 1 .. Len(back[Entry(c)]) :
            back[Entry(c)][j].body = Unreachable(<<c, 1>>) => Opens(c, back[Entry(c)][j])
=============================================================================
