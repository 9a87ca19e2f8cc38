------------------------------ MODULE Session -------------------------------
(***************************************************************************)
(* The client process and the connections ("sessions") of its desktop       *)
(* application.  Every session has three threads: handleClient,             *)
(* receiveMessagesForElectron, which holds a pointer to a local variable of *)
(* the first, and sendMessageFromQueue.  All sessions share stopElectron,   *)
(* the current path, its age and mutex, the timers, and messageQueue.       *)
(* A path is the number of its design; module Circuit models what happens   *)
(* on it.  Undefined behaviour ends the model: nothing is claimed after it. *)
(***************************************************************************)
EXTENDS Integers

CONSTANTS
    MaxSessions,      \* bound: connections of the desktop application
    MaxEvents,        \* bound: paths that are designed, messages that other
                      \* clients push, and overlaps of sessions, together
    PathTimeout,      \* PATH_TIMEOUT, in ticks
    ElectronTimeout,  \* ELECTRON_TIMEOUT, in ticks
    None, Dead        \* nobody; a thread that has ended

Sessions == 1 .. MaxSessions

ASSUME SessionAssumption ==
    /\ MaxSessions \in Nat /\ MaxEvents \in Nat
    /\ PathTimeout \in Nat /\ ElectronTimeout \in Nat
    /\ None \notin Int /\ Dead \notin Int /\ None # Dead

VARIABLES
    stopElectron,
    path,      \* currentPath: the number of its design, 0 when it is empty
    designs,   \* paths designed so far
    age,       \* currentPathAliveTime
    timers,    \* threads in checkConnectionAliveTimer
    owner,     \* who keeps currentPathMutex after an exception
    pc,        \* handleClient of each session
    complete,  \* pathDesignComplete
    kind,      \* the format of the message being sent
    entry,     \* entryNodeConnection: the path whose first relay it leads to, 0 for null
    active,    \* its connectionActive
    freed,     \* it was deleted
    quiet,     \* time since lastReceivedTime, -1 when that is 0
    rpc,       \* receiveMessagesForElectron
    rconn,     \* the connection it reads from: a path
    rcurrent,  \* that connection is still entryNodeConnection
    queue,     \* how many messages messageQueue holds
    pushed,    \* how many were pushed so far
    qpc,       \* sendMessageFromQueue
    ub,        \* undefined behaviour happened: in which way
    since,     \* history: ticks since the age was last reset
    crowded,   \* history: two timers ran since then
    overlapped,  \* history: sessions that ran at the same time as another
    expired,     \* history: a timer found the path too old
    failed       \* history: a relay could not be reached

flagVars == <<stopElectron, path, designs, owner>>
timeVars == <<age, timers, since, crowded, expired>>
handlerVars == <<pc, complete, kind, entry, active, freed, quiet>>
receiverVars == <<rpc, rconn, rcurrent>>
queueVars == <<queue, pushed, qpc>>
historyVars == <<overlapped, failed>>
vars == <<flagVars, timeVars, handlerVars, receiverVars, queueVars, historyVars, ub>>

Running(s) == pc[s] \notin {"out", "ended"}
Serving(s) == qpc[s] \notin {"none", "ended"}
Begun(s) == pc[s] # "out"
Events == designs + pushed + (IF overlapped = {} THEN 0 ELSE 1)

Init ==
    /\ stopElectron = FALSE /\ path = 0 /\ designs = 0 /\ owner = None
    /\ age = 0 /\ timers = 0
    /\ since = 0 /\ crowded = FALSE /\ expired = FALSE
    /\ pc = [s \in Sessions |-> "out"]
    /\ complete = [s \in Sessions |-> FALSE]
    /\ kind = [s \in Sessions |-> "addr"]
    /\ entry = [s \in Sessions |-> 0]
    /\ active = [s \in Sessions |-> FALSE]
    /\ freed = [s \in Sessions |-> FALSE]
    /\ quiet = [s \in Sessions |-> -1]
    /\ rpc = [s \in Sessions |-> "none"]
    /\ rconn = [s \in Sessions |-> 0]
    /\ rcurrent = [s \in Sessions |-> FALSE]
    /\ queue = 0 /\ pushed = 0
    /\ qpc = [s \in Sessions |-> "none"]
    /\ overlapped = {} /\ failed = FALSE
    /\ ub = "none"

\* currentPathMutex can be locked: nobody left it locked, or this thread did
\* (the build's mutex counts the locks of its owner).
Locks(t) == owner \in {None, t}
PathAvailableShort == path # 0 /\ age < PathTimeout
PathAvailable == path # 0 /\ age <= PathTimeout

-----------------------------------------------------------------------------
(* Time: checkConnectionAliveTimer. *)

Least2(a, b) == IF a < b THEN a ELSE b

\* A second passes; every timer adds it to the age.  Those that find the path
\* too old then empty it (or wait for the mutex for ever) and end; the others end
\* when stopElectron is set.
TooOldNever == 0
TooOld == IF age + timers > PathTimeout THEN Least2(timers, age + timers - PathTimeout) ELSE 0
Tick ==
    /\ age' = age + timers
    /\ path' = IF TooOld > 0 /\ owner = None THEN 0 ELSE path
    /\ expired' = (expired \/ TooOld > 0)
    /\ timers' = IF stopElectron THEN 0 ELSE timers - TooOld
    /\ since' = Least2(since + 1, PathTimeout + 1)
    /\ quiet' = [s \in Sessions |-> IF quiet[s] = -1 THEN -1
                                    ELSE Least2(quiet[s] + 1, ElectronTimeout + 1)]
    /\ UNCHANGED <<stopElectron, designs, owner, crowded, pc, complete, kind,
                   entry, active, freed, receiverVars, queueVars, historyVars, ub>>

-----------------------------------------------------------------------------
(* acceptSocket and handleClient. *)

AcceptKeepsFlag(s) ==
    /\ pc[s] = "out"
    /\ \A t \in Sessions : t < s => Begun(t)
    /\ (\E t \in Sessions : Running(t)) => Events < MaxEvents
    /\ pc' = [pc EXCEPT ![s] = "loop"]
    /\ rpc' = [rpc EXCEPT ![s] = "look"]
    /\ qpc' = [qpc EXCEPT ![s] = "look"]
    /\ overlapped' = overlapped \cup
           (IF \E t \in Sessions : Running(t) THEN {s} \cup {t \in Sessions : Running(t)} ELSE {})
    /\ UNCHANGED <<flagVars, timeVars, complete, kind, entry, active, freed, quiet,
                   rconn, rcurrent, queue, pushed, failed, ub>>
\* The application connects: its threads start and stopElectron is cleared.
Accept(s) ==
    /\ pc[s] = "out"
    /\ \A t \in Sessions : t < s => Begun(t)
    /\ (\E t \in Sessions : Running(t)) => Events < MaxEvents
    /\ stopElectron' = FALSE
    /\ pc' = [pc EXCEPT ![s] = "loop"]
    /\ rpc' = [rpc EXCEPT ![s] = "look"]
    /\ qpc' = [qpc EXCEPT ![s] = "look"]
    /\ overlapped' = overlapped \cup
           (IF \E t \in Sessions : Running(t) THEN {s} \cup {t \in Sessions : Running(t)} ELSE {})
    /\ UNCHANGED <<path, designs, owner, timeVars, complete, kind, entry, active, freed, quiet,
                   rconn, rcurrent, queue, pushed, failed, ub>>

\* The application closes its socket: the loop spins on the "" of receiveData.
Leave(s) ==
    /\ pc[s] = "loop"
    /\ pc' = [pc EXCEPT ![s] = "gone"]
    /\ UNCHANGED <<flagVars, timeVars, complete, kind, entry, active, freed, quiet,
                   receiverVars, queueVars, historyVars, ub>>

StopKeepsFlag(s, where) ==
    /\ Locks(s)
    /\ path' = 0
    /\ UNCHANGED stopElectron
    /\ complete' = [complete EXCEPT ![s] = FALSE]
    /\ pc' = [pc EXCEPT ![s] = where]
\* stopCurrentElectornConnection; the handler goes on to where: it returns, or,
\* after the catch (...), looks at the loop's condition ("stop").
Stop(s, where) ==
    /\ Locks(s)
    /\ path' = 0
    /\ stopElectron' = TRUE
    /\ complete' = [complete EXCEPT ![s] = FALSE]
    /\ pc' = [pc EXCEPT ![s] = where]

\* electronClientDisconnected, looked at after receiveData returned: with a
\* message, or with "" when the socket is closed.
TooQuiet(s) == quiet[s] > ElectronTimeout
TimesOut(s) ==
    /\ pc[s] \in {"loop", "gone"}
    /\ TooQuiet(s)
    /\ Stop(s, "return")
    /\ UNCHANGED <<designs, owner, timeVars, kind, entry, active, freed, quiet,
                   receiverVars, queueVars, overlapped, failed, ub>>

\* The condition of the loop; on a closed socket the loop spins on it.
GoOn(s) ==
    /\ pc[s] \in {"check", "stop", "cut"}
    /\ ~ stopElectron
    /\ pc' = [pc EXCEPT ![s] = IF pc[s] = "cut" THEN "gone" ELSE "loop"]
    /\ kind' = [kind EXCEPT ![s] = "addr"]
    /\ UNCHANGED <<flagVars, timeVars, complete, entry, active, freed, quiet,
                   receiverVars, queueVars, historyVars, ub>>

\* The handler returns: its variables are gone, its connection is not closed.
Return(s) ==
    /\ \/ pc[s] = "return"
       \/ stopElectron /\ pc[s] \in {"check", "stop", "cut"}
       \/ stopElectron /\ pc[s] = "gone" /\ ~ TooQuiet(s)
    /\ pc' = [pc EXCEPT ![s] = "ended"]
    /\ complete' = [complete EXCEPT ![s] = FALSE]
    /\ kind' = [kind EXCEPT ![s] = "addr"]
    /\ entry' = [entry EXCEPT ![s] = 0]
    /\ freed' = [freed EXCEPT ![s] = FALSE]
    /\ quiet' = [quiet EXCEPT ![s] = -1]
    /\ UNCHANGED <<flagVars, timeVars, active, receiverVars, queueVars, historyVars, ub>>

\* The socket closes within a message: receiveData throws.
HearsHalf(s) ==
    /\ pc[s] = "loop"
    /\ Stop(s, "cut")
    /\ UNCHANGED <<designs, owner, timeVars, kind, entry, active, freed, quiet,
                   receiverVars, queueVars, overlapped, failed, ub>>

\* A message comes: lastReceivedTime is the present.
Hears(s) ==
    /\ pc[s] = "loop"
    /\ ~ TooQuiet(s)
    /\ quiet' = [quiet EXCEPT ![s] = 0]

\* A path design command; one with an invalid length leaves an empty path.
HearsDesign(s) ==
    /\ Hears(s)
    /\ Locks(s)
    /\ path' = 0
    /\ \E where \in {"name", "check"} : pc' = [pc EXCEPT ![s] = where]
    /\ UNCHANGED <<stopElectron, designs, owner, timeVars, complete, kind, entry,
                   active, freed, receiverVars, queueVars, historyVars, ub>>

\* A message for a path that is too old.
HearsTooLate(s) ==
    /\ Hears(s)
    /\ age > PathTimeout
    /\ Locks(s)
    /\ path' = 0
    /\ complete' = [complete EXCEPT ![s] = FALSE]
    /\ pc' = [pc EXCEPT ![s] = "check"]
    /\ UNCHANGED <<stopElectron, designs, owner, timeVars, kind, entry, active, freed,
                   receiverVars, queueVars, historyVars, ub>>

\* A message without a path: "Path design not completed".
HearsInVain(s) ==
    /\ Hears(s)
    /\ age <= PathTimeout
    /\ complete[s] => Locks(s) /\ path = 0
    /\ pc' = [pc EXCEPT ![s] = "check"]
    /\ UNCHANGED <<flagVars, timeVars, complete, kind, entry, active, freed,
                   receiverVars, queueVars, historyVars, ub>>

\* The connection that is used or replaced.
ValidSocketNever(s) == FALSE
ValidSocket(s) == entry[s] # 0 /\ active[s] /\ ~ freed[s]

\* A message to send, to an address or to a user name.  A connection whose
\* socket was closed is deleted, whatever the receiver does with it.
HearsMessage(s, k) ==
    /\ Hears(s)
    /\ complete[s] /\ Locks(s) /\ PathAvailable
    /\ kind' = [kind EXCEPT ![s] = k]
    /\ IF ValidSocket(s)
       THEN pc' = [pc EXCEPT ![s] = "send"] /\ UNCHANGED <<freed, ub>>
       ELSE /\ pc' = [pc EXCEPT ![s] = "reconnect"]
            /\ freed' = [freed EXCEPT ![s] = entry[s] # 0]
            /\ ub' = IF freed[s] \/ (rpc[s] = "read" /\ rcurrent[s]) THEN "freed" ELSE ub
    /\ UNCHANGED <<flagVars, timeVars, complete, entry, active, receiverVars,
                   queueVars, historyVars>>

-----------------------------------------------------------------------------
(* Path design. *)

\* The mapping server or the directory cannot be reached.
DesignFails(s) ==
    /\ pc[s] = "name"
    /\ \E where \in {"return", "stop"} : Stop(s, where)
    /\ UNCHANGED <<designs, owner, timeVars, kind, entry, active, freed, quiet,
                   receiverVars, queueVars, overlapped, failed, ub>>

StartPathDesign(s) ==
    /\ pc[s] = "name"
    /\ Events < MaxEvents
    /\ Locks(s)
    /\ path' = designs + 1
    /\ designs' = designs + 1
    /\ pc' = [pc EXCEPT ![s] = "age"]
    /\ UNCHANGED <<stopElectron, owner, timeVars, complete, kind, entry, active, freed,
                   quiet, receiverVars, queueVars, historyVars, ub>>

ResetAgeNot(s) ==
    /\ pc[s] = "age"
    /\ since' = 0
    /\ crowded' = (timers >= 2)
    /\ pc' = [pc EXCEPT ![s] = "handshake"]
    /\ UNCHANGED <<flagVars, age, timers, expired, complete, kind, entry, active,
                   freed, quiet, receiverVars, queueVars, historyVars, ub>>
ResetAge(s) ==
    /\ pc[s] = "age"
    /\ age' = 0
    /\ since' = 0
    /\ crowded' = (timers >= 2)
    /\ pc' = [pc EXCEPT ![s] = "handshake"]
    /\ UNCHANGED <<flagVars, timers, expired, complete, kind, entry, active,
                   freed, quiet, receiverVars, queueVars, historyVars, ub>>

\* handshakeWithCurrentPath: its loop is over at once when another thread has
\* emptied the path.  A timer starts in any case.
Handshake(s) ==
    /\ pc[s] = "handshake"
    /\ Locks(s)
    /\ timers' = timers + 1
    /\ crowded' = (crowded \/ timers >= 1)
    /\ complete' = [complete EXCEPT ![s] = TRUE]
    /\ pc' = [pc EXCEPT ![s] = "connect"]
    /\ UNCHANGED <<flagVars, age, since, expired, kind, entry, active, freed,
                   quiet, receiverVars, queueVars, historyVars, ub>>

\* A relay fails, with currentPathMutex locked when it is the role message that
\* cannot be sent; or the path was emptied under a handshake, and at throws.
HandshakeFails(s) ==
    /\ pc[s] = "handshake"
    /\ Stop(s, "stop")
    /\ \/ path # 0 /\ failed' = TRUE /\ owner' \in {owner, s}
       \/ path = 0 /\ owner' = s /\ UNCHANGED failed
    /\ UNCHANGED <<designs, timeVars, kind, entry, active, freed, quiet,
                   receiverVars, queueVars, overlapped, ub>>

ConnectedOnce(s, where) ==
    /\ Locks(s)
    /\ path # 0
    /\ entry' = IF entry[s] = 0 THEN [entry EXCEPT ![s] = path] ELSE entry
    /\ active' = [active EXCEPT ![s] = TRUE]
    /\ freed' = [freed EXCEPT ![s] = FALSE]
    /\ pc' = [pc EXCEPT ![s] = where]
    /\ UNCHANGED <<flagVars, timeVars, complete, kind, quiet, receiverVars,
                   queueVars, historyVars, ub>>
\* connectToEntryNode.  The connection of an earlier design is not closed: the
\* receiver goes on reading from it.
Connected(s, where) ==
    /\ Locks(s)
    /\ path # 0
    /\ entry' = [entry EXCEPT ![s] = path]
    /\ active' = [active EXCEPT ![s] = TRUE]
    /\ freed' = [freed EXCEPT ![s] = FALSE]
    /\ rcurrent' = [rcurrent EXCEPT ![s] = FALSE]
    /\ pc' = [pc EXCEPT ![s] = where]
    /\ UNCHANGED <<flagVars, timeVars, complete, kind, quiet, rpc, rconn,
                   queueVars, historyVars, ub>>

\* currentPath.at(0) throws with the mutex locked, or the relay is away.
NotConnected(s, where) ==
    /\ Stop(s, where)
    /\ \/ path = 0 /\ owner' = s /\ UNCHANGED failed
       \/ path # 0 /\ failed' = TRUE /\ UNCHANGED owner
    /\ UNCHANGED <<designs, timeVars, kind, entry, active, freed, quiet,
                   receiverVars, queueVars, overlapped, ub>>

Connect(s) == pc[s] = "connect" /\ (Connected(s, "check") \/ NotConnected(s, "return"))
Reconnect(s) == pc[s] = "reconnect" /\ (Connected(s, "send") \/ NotConnected(s, "stop"))

-----------------------------------------------------------------------------
(* splitResponseAndSend: an exception ends the session when the message is *)
(* for a user name, and is answered with an error when it is for an address. *)

Throws(s) ==
    IF kind[s] = "user" THEN Stop(s, "stop")
    ELSE pc' = [pc EXCEPT ![s] = "check"] /\ UNCHANGED <<path, stopElectron, complete>>

\* pathAvailable, and later the layers: the mutex is free in between.
CheckPath(s) ==
    /\ pc[s] = "send"
    /\ Locks(s)
    /\ IF PathAvailable
       THEN pc' = [pc EXCEPT ![s] = "layers"] /\ UNCHANGED <<path, stopElectron, complete>>
       ELSE Throws(s)
    /\ UNCHANGED <<designs, owner, timeVars, kind, entry, active, freed, quiet,
                   receiverVars, queueVars, overlapped, failed, ub>>

\* encrypt wraps the message in the layers of the path as it is now, none when
\* it is empty, and sends it to the relay the connection leads to.
Encrypt(s) ==
    /\ pc[s] = "layers"
    /\ Locks(s)
    /\ \/ /\ pc' = [pc EXCEPT ![s] = "check"]
          /\ UNCHANGED <<path, stopElectron, complete, active, failed>>
       \/ /\ Throws(s)
          /\ active' = [active EXCEPT ![s] = FALSE]
          /\ failed' = TRUE
    /\ UNCHANGED <<designs, owner, timeVars, kind, entry, freed, quiet,
                   receiverVars, queueVars, overlapped, ub>>

-----------------------------------------------------------------------------
(* receiveMessagesForElectron. *)

\* The pointer leads to a variable of handleClient, which may have returned,
\* and from there to a connection, which may be deleted.
LookAtEntry(s) ==
    /\ rpc[s] = "look"
    /\ \/ /\ stopElectron
          /\ rpc' = [rpc EXCEPT ![s] = "ended"]
          /\ UNCHANGED <<rconn, rcurrent, ub>>
       \/ /\ ~ stopElectron
          /\ pc[s] = "ended" \/ freed[s]
          /\ ub' = IF pc[s] = "ended" THEN "slot" ELSE "freed"
          /\ UNCHANGED receiverVars
       \/ /\ ~ stopElectron /\ pc[s] # "ended" /\ ~ freed[s] /\ entry[s] # 0
          /\ rpc' = [rpc EXCEPT ![s] = "read"]
          /\ rconn' = [rconn EXCEPT ![s] = entry[s]]
          /\ rcurrent' = [rcurrent EXCEPT ![s] = TRUE]
          /\ UNCHANGED ub
    /\ UNCHANGED <<flagVars, timeVars, handlerVars, queueVars, historyVars>>

\* An answer or a report comes.  decrypt throws when the path is not available,
\* and, with the mutex locked, when it is not the one the answer came over.
Answer(s) ==
    /\ rpc[s] = "read"
    /\ rcurrent[s] => active[s]
    /\ owner = None
    /\ rpc' = [rpc EXCEPT ![s] = IF PathAvailable /\ path = rconn[s] THEN "look" ELSE "ended"]
    /\ rconn' = [rconn EXCEPT ![s] = 0]
    /\ rcurrent' = [rcurrent EXCEPT ![s] = FALSE]
    /\ owner' = IF PathAvailable /\ path # rconn[s] THEN Dead ELSE owner
    /\ UNCHANGED <<stopElectron, path, designs, timeVars, handlerVars, queueVars, historyVars, ub>>

\* The socket is closed, here or at the relay: receiveData returns "".
ReadNothing(s) ==
    /\ rpc[s] = "read"
    /\ rpc' = [rpc EXCEPT ![s] = "look"]
    /\ rconn' = [rconn EXCEPT ![s] = 0]
    /\ rcurrent' = [rcurrent EXCEPT ![s] = FALSE]
    /\ UNCHANGED <<flagVars, timeVars, handlerVars, queueVars, historyVars, ub>>

-----------------------------------------------------------------------------
(* messageQueue: acceptSocket pushes, every sendMessageFromQueue pops. *)

Push ==
    /\ Events < MaxEvents
    /\ pushed' = pushed + 1
    /\ queue' = queue + 1
    /\ UNCHANGED <<flagVars, timeVars, handlerVars, receiverVars, qpc,
                   historyVars, ub>>

LookAtQueue(s) ==
    /\ qpc[s] = "look"
    /\ queue > 0 \/ stopElectron
    /\ qpc' = [qpc EXCEPT ![s] = IF queue > 0 THEN "front" ELSE "ended"]
    /\ UNCHANGED <<flagVars, timeVars, handlerVars, receiverVars, queue, pushed,
                   historyVars, ub>>

\* front and pop on an empty queue are undefined.
Front(s) ==
    /\ qpc[s] = "front"
    /\ IF queue = 0 THEN ub' = "queue" /\ UNCHANGED qpc
       ELSE qpc' = [qpc EXCEPT ![s] = "pop"] /\ UNCHANGED ub
    /\ UNCHANGED <<flagVars, timeVars, handlerVars, receiverVars, queue, pushed, historyVars>>
Pop(s) ==
    /\ qpc[s] = "pop"
    /\ IF queue = 0 THEN ub' = "queue" /\ UNCHANGED <<queue, qpc>>
       ELSE queue' = queue - 1 /\ qpc' = [qpc EXCEPT ![s] = "look"] /\ UNCHANGED ub
    /\ UNCHANGED <<flagVars, timeVars, handlerVars, receiverVars, pushed, historyVars>>

-----------------------------------------------------------------------------
Application(s) == \/ Accept(s) \/ Leave(s) \/ HearsHalf(s) \/ HearsDesign(s)
                  \/ HearsTooLate(s) \/ HearsInVain(s)
                  \/ \E k \in {"addr", "user"} : HearsMessage(s, k)
Handler(s) == \/ GoOn(s) \/ Return(s) \/ TimesOut(s) \/ DesignFails(s)
              \/ StartPathDesign(s) \/ ResetAge(s) \/ Handshake(s) \/ HandshakeFails(s)
              \/ Connect(s) \/ Reconnect(s) \/ CheckPath(s) \/ Encrypt(s)
Receiver(s) == LookAtEntry(s) \/ Answer(s) \/ ReadNothing(s)
Sender(s) == LookAtQueue(s) \/ Front(s) \/ Pop(s)

Next == /\ ub = "none"
        /\ \/ Tick \/ Push
           \/ \E s \in Sessions : \/ Application(s) \/ Handler(s) \/ Receiver(s) \/ Sender(s)

Spec == Init /\ [][Next]_vars

\* Time passes, and the timers and the queue's threads run; nothing else has to.
Fairness == /\ WF_vars(ub = "none" /\ Tick)
            /\ \A s \in Sessions : WF_vars(ub = "none" /\ Sender(s))
FairSpec == Spec /\ Fairness

-----------------------------------------------------------------------------
(* Properties. *)

\* Every variable holds what its declaration in the code allows.
TypeOK ==
    /\ stopElectron \in BOOLEAN
    /\ designs \in 0 .. MaxEvents
    /\ path \in 0 .. designs
    /\ timers \in 0 .. designs
    /\ age \in 0 .. PathTimeout + MaxEvents
    /\ owner \in Sessions \cup {None, Dead}
    /\ pc \in [Sessions -> {"out", "loop", "gone", "check", "stop", "cut", "return", "name", "age", "handshake", "connect",
                            "reconnect", "send", "layers", "ended"}]
    /\ complete \in [Sessions -> BOOLEAN]
    /\ kind \in [Sessions -> {"addr", "user"}]
    /\ entry \in [Sessions -> 0 .. MaxEvents]
    /\ active \in [Sessions -> BOOLEAN]
    /\ freed \in [Sessions -> BOOLEAN]
    /\ quiet \in [Sessions -> -1 .. ElectronTimeout + 1]
    /\ rpc \in [Sessions -> {"none", "look", "read", "ended"}]
    /\ rconn \in [Sessions -> 0 .. MaxEvents]
    /\ rcurrent \in [Sessions -> BOOLEAN]
    /\ pushed \in 0 .. MaxEvents
    /\ queue \in 0 .. pushed
    /\ qpc \in [Sessions -> {"none", "look", "front", "pop", "ended"}]
    /\ since \in 0 .. PathTimeout + 1
    /\ {crowded, expired, failed} \subseteq BOOLEAN
    /\ overlapped \subseteq Sessions
    /\ ub \in {"none", "slot", "freed", "queue"}

\* stopElectron is one flag for all sessions: a session that ends without a
\* reason of its own was ended by one that ran at the same time, never by one
\* that had ended before it began.
StopOnlyByOverlap ==
    [][\A s \in Sessions :
           Return(s) /\ pc[s] \in {"check", "gone"} => s \in overlapped]_vars

\* A message leaves with the layers of the path whose first relay gets it; it
\* can leave with others, or as plain text, only when another session ran, or
\* when a timer emptied the path between pathAvailable and the loop of encrypt.
LayersFitConnection ==
    [][\A s \in Sessions :
           Encrypt(s) => path = entry[s] \/ s \in overlapped \/ expired]_vars

\* The session of a user who designs one path, alone, within the path's life and
\* with relays that can be reached, works: the mutex is free, the connection
\* leads to the path, and the receiving thread listens to it.
Undisturbed(s) == /\ {t \in Sessions : Begun(t)} = {s}
                  /\ designs <= 1 /\ ~ expired /\ ~ failed
QuietSessionWorks ==
    \A s \in Sessions : Undisturbed(s) /\ complete[s] /\ entry[s] # 0 /\ path # 0 =>
        /\ owner = None /\ entry[s] = path /\ active[s]
        /\ rpc[s] = "look" \/ (rpc[s] = "read" /\ rconn[s] = path)

\* The threads of one session never meet an empty queue in front and pop, nor a
\* variable of a handler that has returned: it takes a second session.  The
\* receiver uses a deleted connection only after sending over it failed.
MisuseHasCause ==
    /\ ub \in {"queue", "slot"} => \E s, t \in Sessions : s # t /\ Begun(s) /\ Begun(t)
    /\ ub = "freed" => failed

\* A timer empties a path before PATH_TIMEOUT has passed since its design only
\* when a second timer counted too: every design starts one.
ExpiryIsLate ==
    [][Tick /\ path # 0 /\ path' = 0 => since >= PathTimeout \/ crowded]_vars

\* When the last session has ended, the timers and the queue's threads end too,
\* unless another session begins.
IdleClientRests ==
    ((\E s \in Sessions : Begun(s)) /\ (\A s \in Sessions : ~ Running(s)))
        ~> (\/ timers = 0 /\ \A s \in Sessions : ~ Serving(s)
            \/ \E s \in Sessions : Running(s)
            \/ ub # "none")
=============================================================================
