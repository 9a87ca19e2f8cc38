---------------------------- MODULE Conversation ----------------------------
(***************************************************************************)
(* One conversation in a relay, from the first message after its handshake  *)
(* until it is too old, with the two threads that share the                 *)
(* ConversationObject: the handler (handleNode or handleNodeAsExit) and the *)
(* listener (listenToNextNode or listenToHosts).  Undefined behaviour is    *)
(* recorded in damage; the relay crashes or goes on.                        *)
(***************************************************************************)
EXTENDS Integers, Sequences

CONSTANTS
    Hosts,        \* what messages are sent to
    Electrons,    \* the hosts that listen at LOCAL_CLIENT_PORT
    MaxMessages,  \* bound: messages from the previous relay
    MaxAnswers,   \* bound: answers of the next relay or the hosts
    None

ASSUME ConversationAssumption ==
    /\ Electrons \subseteq Hosts
    /\ MaxMessages \in Nat \ {0} /\ MaxAnswers \in Nat
    /\ None \notin Hosts

VARIABLES
    role,      \* isExitNode()
    old,       \* isTooOld()
    inMap,     \* conversationsMap holds the conversation
    deleted,   \* the ConversationObject was deleted
    down,      \* the relay's process has crashed
    damage,    \* history: the kinds of undefined behaviour and of uncaught exceptions
    prev,      \* the socket to the previous relay
    arrived,   \* messages received so far
    msg,       \* received: its format, and where it goes
    hpc, lpc,  \* the handler and the listener
    nextUp,    \* the next relay can be reached
    next,      \* the connection to it
    up,        \* the hosts that can be reached
    dest,      \* destinationMap and the connectionActive of its connections
    todo, cursor,  \* the hosts collectMessages has yet to visit, and its iterator
    answers,   \* answers given so far
    pending,   \* answers that wait in a connection's socket
    box,       \* the conversation's messageQueue
    sent       \* history: how often each message went to its host

objVars == <<role, old, inMap, deleted>>
crashVars == <<down, damage>>
prevVars == <<prev, arrived, msg, sent>>
nextVars == <<nextUp, next>>
hostVars == <<up, dest, answers, pending>>
passVars == <<todo, cursor, box>>
vars == <<objVars, crashVars, prevVars, hpc, lpc, nextVars, hostVars, passVars>>

Kinds == {"user", "addr"}
NoMessage == [kind |-> "none", host |-> None]

Init ==
    /\ role \in {"middle", "exit"}
    /\ old = FALSE /\ inMap = TRUE /\ deleted = FALSE
    /\ down = FALSE /\ damage = {}
    /\ prev = "open" /\ arrived = 1
    /\ msg \in [kind : Kinds, host : Hosts]
    /\ sent = [m \in 1 .. MaxMessages |-> 0]
    /\ hpc = "start" /\ lpc = "none"
    /\ nextUp = TRUE /\ next = "none"
    /\ up = Hosts
    /\ dest = [h \in Hosts |-> "none"]
    /\ answers = 0
    /\ pending = [h \in Hosts |-> "no"]
    /\ todo = {} /\ cursor = None /\ box = << >>

\* Undefined behaviour: the relay crashes, or the thread goes on.
Harm(k) == damage' = damage \cup {k} /\ down' \in BOOLEAN

\* removeConversationFromMap deletes the object, whose destructor closes its
\* connections, and its caller deletes it again.
Remove ==
    /\ inMap' = FALSE
    /\ deleted' = TRUE
    /\ Harm("double")
    /\ prev' = "closed"

-----------------------------------------------------------------------------
(* The outside: time, other relays and hosts. *)

Expire ==
    /\ ~ old
    /\ old' = TRUE
    /\ UNCHANGED <<role, inMap, deleted, crashVars, prevVars, hpc, lpc, nextVars, hostVars,
                   passVars>>
NextFails ==
    /\ role = "middle" /\ nextUp
    /\ nextUp' = FALSE
    /\ UNCHANGED <<objVars, crashVars, prevVars, hpc, lpc, next, hostVars, passVars>>
HostFails(h) ==
    /\ role = "exit" /\ h \in up
    /\ up' = up \ {h}
    /\ UNCHANGED <<objVars, crashVars, prevVars, hpc, lpc, nextVars, dest, answers, pending,
                   passVars>>

\* A host answers; its text may contain the separator of the messages ("odd").
HostAnswers(h) ==
    /\ h \in up /\ dest[h] = "open" /\ pending[h] = "no"
    /\ answers < MaxAnswers
    /\ answers' = answers + 1
    /\ \E text \in {"plain", "odd"} : pending' = [pending EXCEPT ![h] = text]
    /\ UNCHANGED <<objVars, crashVars, prevVars, hpc, lpc, nextVars, up, dest, passVars>>

-----------------------------------------------------------------------------
(* The handler: handleNode and handleNodeAsExit. *)

ConnectNext ==
    /\ role = "middle" /\ hpc = "start" /\ nextUp
    /\ next' = "open"
    /\ hpc' = "top"
    /\ lpc' = "look"
    /\ UNCHANGED <<objVars, crashVars, prevVars, nextUp, hostVars, passVars>>

\* sendNodeUnreachable, and the conversation is deleted, twice.
NextUnreachable ==
    /\ role = "middle" /\ hpc = "start" /\ ~ nextUp
    /\ Remove
    /\ hpc' = "ended"
    /\ UNCHANGED <<role, old, arrived, msg, sent, lpc, nextVars, hostVars, passVars>>

ListenToHosts ==
    /\ role = "exit" /\ hpc = "start"
    /\ hpc' = "top"
    /\ lpc' = "pass"
    /\ UNCHANGED <<objVars, crashVars, prevVars, nextVars, hostVars, passVars>>

\* The head of the loop.
Fresh ==
    /\ hpc = "top"
    /\ ~ old /\ ~ deleted
    /\ hpc' = "send"
    /\ UNCHANGED <<objVars, crashVars, prevVars, lpc, nextVars, hostVars, passVars>>
HandlerExpires ==
    /\ hpc = "top"
    /\ old /\ ~ deleted
    /\ Remove
    /\ hpc' = "ended"
    /\ UNCHANGED <<role, old, arrived, msg, sent, lpc, nextVars, hostVars, passVars>>

\* The listener has deleted the object.
HandlerStale ==
    /\ hpc \in {"top", "send", "use"}
    /\ deleted
    /\ Harm("stale")
    /\ hpc' = "ended"
    /\ UNCHANGED <<objVars, prevVars, lpc, nextVars, hostVars, passVars>>

\* handleNode: "" is not passed on.  A failure ends the thread; the listener
\* sees that the connection was closed.
PassOn ==
    /\ role = "middle" /\ hpc = "send" /\ ~ deleted
    /\ \/ /\ nextUp \/ msg = NoMessage
          /\ hpc' = "receive"
          /\ UNCHANGED next
       \/ /\ ~ nextUp /\ msg # NoMessage
          /\ next' = "closed"
          /\ hpc' = "ended"
    /\ UNCHANGED <<objVars, crashVars, prevVars, lpc, nextUp, hostVars, passVars>>

\* handleNodeAsExit: substr of "" throws, which ends the thread.
NothingToSend ==
    /\ role = "exit" /\ hpc = "send" /\ ~ deleted /\ msg = NoMessage
    /\ hpc' = "ended"
    /\ UNCHANGED <<objVars, crashVars, prevVars, lpc, nextVars, hostVars, passVars>>

\* The user's address cannot be found out, or the host cannot be reached:
\* sendCouldNotFindUsername, sendCouldNotConnectToHost.
NotSent ==
    /\ role = "exit" /\ hpc = "send" /\ ~ deleted /\ msg # NoMessage
    /\ \/ msg.kind = "user"
       \/ msg.host \notin up /\ dest[msg.host] # "open"
    /\ hpc' = "receive"
    /\ UNCHANGED <<objVars, crashVars, prevVars, lpc, nextVars, hostVars, passVars>>

\* hasDestinationInMap and addActiveConnection, or getConnection of
\* sendToUsername, which takes a connection that was closed.
Reusable(m) == dest[m.host] = "open" \/ (m.kind = "user" /\ dest[m.host] = "closed")
FindConnection ==
    /\ role = "exit" /\ hpc = "send" /\ ~ deleted /\ msg # NoMessage
    /\ \/ Reusable(msg) /\ UNCHANGED <<dest, pending>>
       \/ /\ ~ Reusable(msg) /\ msg.host \in up
          /\ dest' = [dest EXCEPT ![msg.host] = "open"]
          /\ pending' = [pending EXCEPT ![msg.host] = "no"]
    /\ hpc' = "use"
    /\ UNCHANGED <<objVars, crashVars, prevVars, lpc, nextVars, up, answers, passVars>>

\* The message is sent.  The connection to another client's application is
\* removed at once, wherever the listener's iterator is.
RemovesConnection(m) == m.kind = "user" /\ m.host \in Electrons
Send ==
    /\ role = "exit" /\ hpc = "use" /\ ~ deleted
    /\ dest[msg.host] = "open" /\ msg.host \in up
    /\ sent' = [sent EXCEPT ![arrived] = @ + 1]
    /\ IF RemovesConnection(msg)
       THEN /\ dest' = [dest EXCEPT ![msg.host] = "none"]
            /\ pending' = [pending EXCEPT ![msg.host] = "no"]
            /\ IF cursor = msg.host THEN Harm("freed") ELSE UNCHANGED crashVars
       ELSE UNCHANGED <<dest, pending, crashVars>>
    /\ hpc' = "receive"
    /\ UNCHANGED <<objVars, prev, arrived, msg, lpc, nextVars, up, answers, passVars>>

\* It cannot be sent: the connection is closed but stays in the map, and the
\* client is told.
SendFails ==
    /\ role = "exit" /\ hpc = "use" /\ ~ deleted
    /\ \/ dest[msg.host] = "closed"
       \/ dest[msg.host] = "open" /\ msg.host \notin up
    /\ dest' = [dest EXCEPT ![msg.host] = "closed"]
    /\ hpc' = "receive"
    /\ UNCHANGED <<objVars, crashVars, prevVars, lpc, nextVars, up, answers, pending, passVars>>

\* The listener has removed the connection that was found.
ConnectionGone ==
    /\ role = "exit" /\ hpc = "use" /\ ~ deleted
    /\ dest[msg.host] = "none"
    /\ Harm("lost")
    /\ hpc' = "receive"
    /\ UNCHANGED <<objVars, prevVars, lpc, nextVars, hostVars, passVars>>

ReceiveMessage ==
    /\ hpc = "receive" /\ prev = "open"
    /\ arrived < MaxMessages
    /\ arrived' = arrived + 1
    /\ msg' \in [kind : Kinds, host : Hosts]
    /\ hpc' = "top"
    /\ UNCHANGED <<objVars, crashVars, prev, sent, lpc, nextVars, hostVars, passVars>>

PreviousCloses ==
    /\ prev = "open"
    /\ prev' = "closed"
    /\ UNCHANGED <<objVars, crashVars, arrived, msg, sent, hpc, lpc, nextVars, hostVars, passVars>>

\* receiveData returns "" on a closed socket.
ReceiveNothing ==
    /\ hpc = "receive" /\ prev = "closed"
    /\ msg' = NoMessage
    /\ hpc' = "top"
    /\ UNCHANGED <<objVars, crashVars, prev, arrived, sent, lpc, nextVars, hostVars, passVars>>

\* The socket closes within a message: receiveData throws, which ends the
\* thread.  After a message to a user name the exception is caught and received
\* still holds that message.
KeepsAnyMessage == role = "exit"  \* mutant: every exception is caught
KeepsMessage == role = "exit" /\ msg.kind = "user"
ReceiveHalf ==
    /\ hpc = "receive" /\ prev = "open"
    /\ prev' = "closed"
    /\ hpc' = IF KeepsMessage THEN "top" ELSE "ended"
    /\ UNCHANGED <<objVars, crashVars, arrived, msg, sent, lpc, nextVars, hostVars, passVars>>

-----------------------------------------------------------------------------
(* The listener of a relay in the middle: listenToNextNode. *)

\* The handler has deleted the object.
ListenerStale ==
    /\ lpc \in {"look", "pass", "visit", "drain", "forward"}
    /\ deleted
    /\ Harm("stale")
    /\ lpc' = "ended"
    /\ UNCHANGED <<objVars, prevVars, hpc, nextVars, hostVars, passVars>>

ListenerExpires ==
    /\ lpc = "look" /\ old /\ ~ deleted
    /\ Remove
    /\ lpc' = "ended"
    /\ UNCHANGED <<role, old, arrived, msg, sent, hpc, nextVars, hostVars, passVars>>

\* sendNodeUnreachable when the handler closed the connection.
ListenerReports ==
    /\ lpc = "look" /\ ~ old /\ ~ deleted
    /\ lpc' = IF next = "closed" THEN "ended" ELSE "read"
    /\ UNCHANGED <<objVars, crashVars, prevVars, hpc, nextVars, hostVars, passVars>>

\* An answer is wrapped and passed back; on a broken connection receiveData
\* returns "".
PassBack ==
    /\ lpc = "read" /\ nextUp
    /\ answers < MaxAnswers
    /\ answers' = answers + 1
    /\ IF deleted THEN Harm("stale") ELSE UNCHANGED crashVars
    /\ lpc' = "look"
    /\ UNCHANGED <<objVars, prevVars, hpc, nextVars, up, dest, pending, passVars>>
ReadNothing ==
    /\ lpc = "read"
    /\ ~ nextUp \/ next = "closed" \/ deleted
    /\ lpc' = "look"
    /\ UNCHANGED <<objVars, crashVars, prevVars, hpc, nextVars, hostVars, passVars>>

-----------------------------------------------------------------------------
(* The listener of an exit relay: collectMessages and listenToHosts. *)

BeginPass ==
    /\ lpc = "pass" /\ ~ deleted
    /\ todo' = {h \in Hosts : dest[h] # "none"}
    /\ lpc' = "visit"
    /\ UNCHANGED <<objVars, crashVars, prevVars, hpc, nextVars, hostVars, cursor, box>>

Visit(h) ==
    /\ lpc = "visit" /\ ~ deleted
    /\ cursor = None /\ h \in todo
    /\ todo' = todo \ {h}
    /\ cursor' = IF dest[h] # "none" THEN h ELSE None
    /\ UNCHANGED <<objVars, crashVars, prevVars, hpc, lpc, nextVars, hostVars, box>>

\* receiveDataFromTcp finds nothing or an answer.
LegitAlways(text) == TRUE  \* mutant: noise is queued as well
Legit(text) == text # "no"
Collect ==
    /\ lpc = "visit" /\ ~ deleted /\ cursor # None
    /\ dest[cursor] = "open" /\ cursor \in up
    /\ box' = IF Legit(pending[cursor]) THEN Append(box, pending[cursor]) ELSE box
    /\ pending' = [pending EXCEPT ![cursor] = "no"]
    /\ cursor' = None
    /\ UNCHANGED <<objVars, crashVars, prevVars, hpc, lpc, nextVars, up, dest, answers, todo>>

\* receiveDataFromTcp throws.  The connection is deleted and its entry erased,
\* and the loop goes on from that entry; not so for another client's application.
RemovableAll(h) == TRUE  \* mutant: other clients' applications too
Removable(h) == h \notin Electrons
CollectFails ==
    /\ lpc = "visit" /\ ~ deleted /\ cursor # None
    /\ dest[cursor] = "closed" \/ (dest[cursor] = "open" /\ cursor \notin up)
    /\ IF Removable(cursor)
       THEN /\ dest' = [dest EXCEPT ![cursor] = "none"]
            /\ pending' = [pending EXCEPT ![cursor] = "no"]
            /\ Harm("iterator")
       ELSE UNCHANGED <<dest, pending, crashVars>>
    /\ cursor' = None
    /\ UNCHANGED <<objVars, prevVars, hpc, lpc, nextVars, up, answers, todo, box>>

\* The handler has removed the connection the iterator is at.
CollectGone ==
    /\ lpc = "visit" /\ ~ deleted /\ cursor # None
    /\ dest[cursor] = "none"
    /\ cursor' = None
    /\ UNCHANGED <<objVars, crashVars, prevVars, hpc, lpc, nextVars, hostVars, todo, box>>

EndPass ==
    /\ lpc = "visit" /\ ~ deleted
    /\ cursor = None /\ todo = {}
    /\ lpc' = "drain"
    /\ UNCHANGED <<objVars, crashVars, prevVars, hpc, nextVars, hostVars, passVars>>

\* When the conversation is too old the thread ends: "handleNodeAsExit() will
\* remove the conversation from the map".
AfterPassGoOn == "forward"  \* mutant: the age is not looked at
AfterPass == IF old THEN "ended" ELSE "forward"
Drain ==
    /\ lpc = "drain" /\ ~ deleted
    /\ lpc' = AfterPass
    /\ UNCHANGED <<objVars, crashVars, prevVars, hpc, nextVars, hostVars, passVars>>

\* A message is parsed, wrapped and passed back.  No one catches what the parser
\* throws at an odd one: the process ends.
Forward ==
    /\ lpc = "forward" /\ ~ deleted /\ box # << >>
    /\ box' = Tail(box)
    /\ IF Head(box) = "odd" THEN down' = TRUE /\ damage' = damage \cup {"format"}
                            ELSE UNCHANGED crashVars
    /\ UNCHANGED <<objVars, prevVars, hpc, lpc, nextVars, hostVars, todo, cursor>>
NextPass ==
    /\ lpc = "forward" /\ ~ deleted /\ box = << >>
    /\ lpc' = "pass"
    /\ UNCHANGED <<objVars, crashVars, prevVars, hpc, nextVars, hostVars, passVars>>

-----------------------------------------------------------------------------
Outside == \/ Expire \/ NextFails \/ PreviousCloses \/ ReceiveMessage \/ ReceiveHalf \/ PassBack
           \/ \E h \in Hosts : HostFails(h) \/ HostAnswers(h)
Handler == \/ ConnectNext \/ NextUnreachable \/ ListenToHosts \/ Fresh \/ HandlerExpires
           \/ HandlerStale \/ PassOn \/ NothingToSend \/ NotSent \/ FindConnection \/ Send
           \/ SendFails \/ ConnectionGone \/ ReceiveNothing
Listener == \/ ListenerStale \/ ListenerExpires \/ ListenerReports \/ ReadNothing \/ BeginPass
            \/ (\E h \in Hosts : Visit(h)) \/ Collect \/ CollectFails \/ CollectGone \/ EndPass
            \/ Drain \/ Forward \/ NextPass

Next == ~ down /\ (Outside \/ Handler \/ Listener)

Spec == Init /\ [][Next]_vars

\* The relay's threads run; what comes from outside need not come.
Fairness == WF_vars(~ down /\ Handler) /\ WF_vars(~ down /\ Listener)
FairSpec == Spec /\ Fairness

-----------------------------------------------------------------------------
(* Properties. *)

\* Every variable holds what its declaration in the code allows.
TypeOK ==
    /\ role \in {"middle", "exit"}
    /\ old \in BOOLEAN /\ inMap \in BOOLEAN /\ deleted \in BOOLEAN /\ down \in BOOLEAN
    /\ damage \subseteq {"double", "stale", "iterator", "freed", "lost", "format"}
    /\ prev \in {"open", "closed"}
    /\ arrived \in 1 .. MaxMessages
    /\ msg \in [kind : Kinds, host : Hosts] \cup {NoMessage}
    /\ hpc \in {"start", "top", "send", "use", "receive", "ended"}
    /\ lpc \in {"none", "look", "read", "pass", "visit", "drain", "forward", "ended"}
    /\ nextUp \in BOOLEAN /\ next \in {"none", "open", "closed"}
    /\ up \subseteq Hosts
    /\ dest \in [Hosts -> {"none", "open", "closed"}]
    /\ todo \subseteq Hosts /\ cursor \in Hosts \cup {None}
    /\ answers \in 0 .. MaxAnswers
    /\ pending \in [Hosts -> {"no", "plain", "odd"}]
    /\ box \in Seq({"plain", "odd"})
    /\ sent \in [1 .. MaxMessages -> Nat]

\* The relay's memory is misused, and the relay crashes, only in these cases: the
\* conversation is too old or its next relay away (both threads delete it, and
\* each twice), a host cannot be reached, a message by user name went to another
\* client's application, or a host's text cannot be parsed.
DamageHasCause ==
    /\ down => damage # {}
    /\ "double" \in damage => old \/ ~ nextUp
    /\ "stale" \in damage => old
    /\ "iterator" \in damage \/ "lost" \in damage => \E h \in Hosts \ Electrons : h \notin up
    /\ "freed" \in damage => Electrons # {} /\ \E m \in 1 .. MaxMessages : sent[m] > 0
    /\ "format" \in damage => answers > 0

\* A message is sent to its host twice at most, and twice only when it is the
\* last one, goes to a user name, and the connection broke in the one after it.
DuplicateOnlyAfterCut ==
    \A m \in 1 .. MaxMessages : sent[m] > 1 =>
        /\ sent[m] = 2 /\ m = arrived
        /\ prev = "closed"
        /\ msg.kind \in {"user", "none"}

\* A conversation that is too old leaves the map, or each of its threads has
\* ended or waits for data: a listener does not run on for it.
OldLeavesOrWaits ==
    (old /\ inMap) ~> (\/ ~ inMap \/ down
                       \/ hpc \in {"receive", "ended"} /\ lpc \in {"none", "read", "ended"})
=============================================================================
