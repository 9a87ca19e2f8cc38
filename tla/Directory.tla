----------------------------- MODULE Directory ------------------------------
(***************************************************************************)
(* The directory server (ServerProject/Server.cpp): one thread per          *)
(* connection (handleClient), one thread that sweeps dead nodes             *)
(* (checkAliveNodes), the vector aliveNodes they share and the mutex that   *)
(* should protect it.  The mutex is the one of the MSVC runtime the project *)
(* is built with (toolset v143, Release): it keeps the owner's thread id    *)
(* and a count, a thread that owns it locks it again without waiting, and   *)
(* unlock decrements the count whoever calls it.                            *)
(***************************************************************************)
EXTENDS Integers, FiniteSets, FiniteSetsExt, SequencesExt

CONSTANTS
    Nodes,               \* the relays that may send heartbeats
    Handlers,            \* bound: connections served at the same time
    Objs,                \* bound: NodeData objects on the heap
    Sweeper,             \* the thread in checkAliveNodes
    NoThread, Gone,      \* nobody; a thread that has ended
    NoObj,
    MaxAge,              \* MAX_TIME_ALIVE, in ticks
    MaxLag,              \* bound: ticks that pass inside one nodeIsDead
    MaxAborts            \* bound: connections whose handler throws

Threads == Handlers \cup {Sweeper}

ASSUME ThreadAssumption == /\ Sweeper \notin Handlers /\ NoThread \notin Threads
                           /\ Gone \notin Threads /\ Gone # NoThread
ASSUME HandlerAssumption == IsFiniteSet(Handlers)
ASSUME NodeAssumption == Nodes # {}
ASSUME ObjAssumption == NoObj \notin Objs
ASSUME NumberAssumption == MaxAge \in Nat /\ MaxLag \in Nat /\ MaxAborts \in Nat

VARIABLES
    owner, count,   \* aliveNodesMutex
    vec,            \* aliveNodes
    live,           \* the NodeData objects allocated and not deleted
    node,           \* the node an object describes
    age,            \* ticks since NodeData::lastAliveMessageTime
    hpc, hnode, hobj,  \* a handler: where it is, its node, its pointer
    spc, idx, seen, lag, touched,  \* the sweeper: see CheckNode
    running,        \* the node processes that send heartbeats
    silent,         \* ticks since a heartbeat of the node was handled
    overlapped,     \* nodes that had two connections at the same time
    lost,           \* nodes whose heartbeat went to an object not theirs
    aborts          \* connections whose handler threw

mutex   == <<owner, count>>
objVars == <<vec, live, node, age>>
hVars   == <<hpc, hnode, hobj>>
sVars   == <<spc, idx, seen, lag, touched>>
vars == <<mutex, objVars, hVars, sVars, running, silent, overlapped, lost, aborts>>

\* What a variable holds that nobody reads.
AnyNode == CHOOSE n \in Nodes : TRUE

AgeCap == MaxAge + MaxLag + 1
Older(a) == IF a < AgeCap THEN a + 1 ELSE a

Init ==
    /\ owner = NoThread /\ count = 0
    /\ vec = << >>
    /\ live = {}
    /\ node = [o \in Objs |-> AnyNode]
    /\ age = [o \in Objs |-> 0]
    /\ hpc = [h \in Handlers |-> "idle"]
    /\ hnode = [h \in Handlers |-> AnyNode]
    /\ hobj = [h \in Handlers |-> NoObj]
    /\ spc = "sleep" /\ idx = 1 /\ seen = 0 /\ lag = 0 /\ touched = FALSE
    /\ running = [n \in Nodes |-> TRUE]
    /\ silent = [n \in Nodes |-> 0]
    /\ overlapped = {}
    /\ lost = {}
    /\ aborts = 0

-----------------------------------------------------------------------------
(* std::mutex as MSVC implements it. *)

CanLock(t) == owner \in {t, NoThread}
Lock(t) == /\ CanLock(t)
           /\ owner' = t
           /\ count' = count + 1

\* The owner after an unlock: nobody when the count comes down to zero.
OwnerAfterUnlock == IF count = 1 THEN NoThread ELSE owner

Unlock(t) == /\ count' = count - 1
             /\ owner' = OwnerAfterUnlock

\* A thread that unlocks and ends: if the mutex is still its own, it belongs to
\* a thread that no longer exists.
UnlockAndEnd(t) == /\ count' = count - 1
                   /\ owner' = IF OwnerAfterUnlock = t THEN Gone ELSE OwnerAfterUnlock
Ended(t) == owner' = IF owner = t THEN Gone ELSE owner

-----------------------------------------------------------------------------
(* handleClient. *)

Leaves(h) == /\ hpc' = [hpc EXCEPT ![h] = "idle"]
             /\ hnode' = [hnode EXCEPT ![h] = AnyNode]
             /\ hobj' = [hobj EXCEPT ![h] = NoObj]

Serving(n) == {h \in Handlers : hpc[h] \notin {"idle", "wantList", "list", "failed"} /\ hnode[h] = n}

\* A heartbeat that passes isValidFormat.
Heartbeat(h, n) ==
    /\ hpc[h] = "idle"
    /\ running[n]
    /\ hpc' = [hpc EXCEPT ![h] = "wantFind"]
    /\ hnode' = [hnode EXCEPT ![h] = n]
    /\ overlapped' = IF Serving(n) = {} THEN overlapped ELSE overlapped \cup {n}
    /\ UNCHANGED <<mutex, objVars, hobj, sVars, running, silent, lost, aborts>>

\* A client that asks for the list of nodes.
ListRequest(h) ==
    /\ hpc[h] = "idle"
    /\ hpc' = [hpc EXCEPT ![h] = "wantList"]
    /\ UNCHANGED <<mutex, objVars, hnode, hobj, sVars, running, silent, overlapped, lost, aborts>>

\* The peer closes before it sent its key, or in the middle of a message: asHex
\* or receiveData throws, and one of the handlers at the end of handleClient
\* runs.  Nothing is locked by this thread.
PeerVanishes(h) ==
    /\ hpc[h] = "idle"
    /\ aborts < MaxAborts
    /\ aborts' = aborts + 1
    /\ hpc' = [hpc EXCEPT ![h] = "failed"]
    /\ UNCHANGED <<mutex, objVars, hnode, hobj, sVars, running, silent, overlapped, lost>>

\* The catch clauses unlock the mutex all the same.
UnlockOnFailure(h) ==
    /\ hpc[h] = "failed"
    /\ UnlockAndEnd(h)
    /\ Leaves(h)
    /\ UNCHANGED <<objVars, sVars, running, silent, overlapped, lost, aborts>>

HandlerLocksNothing(h) ==
    /\ \/ hpc[h] = "wantFind" /\ hpc' = [hpc EXCEPT ![h] = "find"]
       \/ hpc[h] = "wantPush" /\ hpc' = [hpc EXCEPT ![h] = "push"]
       \/ hpc[h] = "wantList" /\ hpc' = [hpc EXCEPT ![h] = "list"]
    /\ UNCHANGED <<mutex, objVars, hnode, hobj, sVars, running, silent, overlapped, lost, aborts>>
HandlerLocks(h) ==
    /\ Lock(h)
    /\ \/ hpc[h] = "wantFind" /\ hpc' = [hpc EXCEPT ![h] = "find"]
       \/ hpc[h] = "wantPush" /\ hpc' = [hpc EXCEPT ![h] = "push"]
       \/ hpc[h] = "wantList" /\ hpc' = [hpc EXCEPT ![h] = "list"]
    /\ UNCHANGED <<objVars, hnode, hobj, sVars, running, silent, overlapped, lost, aborts>>

\* getNodeInVector: the first object of the node at or after a position.
FirstFrom(start, n) ==
    LET found == {i \in start .. Len(vec) : node[vec[i]] = n}
    IN IF found = {} THEN NoObj ELSE vec[Min(found)]
FirstOfTooLate(n) == FirstFrom(2, n)
FirstOf(n) == FirstFrom(1, n)

Find(h) ==
    /\ hpc[h] = "find"
    /\ hobj' = [hobj EXCEPT ![h] = FirstOf(hnode[h])]
    /\ hpc' = [hpc EXCEPT ![h] = IF FirstOf(hnode[h]) = NoObj THEN "wantPush" ELSE "update"]
    /\ Unlock(h)
    /\ UNCHANGED <<objVars, hnode, sVars, running, silent, overlapped, lost, aborts>>

\* A node that was not found gets a new object, possibly in memory that another
\* handler still points to.
Push(h) ==
    /\ hpc[h] = "push"
    /\ \E o \in Objs :
         /\ o \notin live
         /\ vec' = Append(vec, o)
         /\ live' = live \cup {o}
         /\ node' = [node EXCEPT ![o] = hnode[h]]
         /\ age' = [age EXCEPT ![o] = 0]
    /\ silent' = [silent EXCEPT ![hnode[h]] = 0]
    /\ UnlockAndEnd(h)
    /\ Leaves(h)
    /\ UNCHANGED <<sVars, running, overlapped, lost, aborts>>

\* The sweeper is in nodeIsDead for this object.
Checking(o) == spc \in {"now", "last"} /\ vec[idx] = o

\* updateLastAliveMessageTime on the pointer found earlier, without the mutex.
\* A write to a deleted object is lost,
\* or renews the node that has the memory now.
Update(h) ==
    LET o == hobj[h]
    IN /\ hpc[h] = "update"
       /\ age' = IF o \in live THEN [age EXCEPT ![o] = 0] ELSE age
       /\ touched' = (touched \/ Checking(o))
       /\ lost' = IF o \in live /\ node[o] = hnode[h] THEN lost ELSE lost \cup {hnode[h]}
       /\ silent' = [silent EXCEPT ![hnode[h]] = 0]
       /\ Ended(h)
       /\ Leaves(h)
       /\ UNCHANGED <<count, vec, live, node, spc, idx, seen, lag, running,
                      overlapped, aborts>>

\* sendNodesToClient copies the vector, unlocks and answers.
SendNodesLocked(h) ==
    /\ hpc[h] = "list"
    /\ Ended(h)
    /\ Leaves(h)
    /\ UNCHANGED <<count, objVars, sVars, running, silent, overlapped, lost, aborts>>
SendNodes(h) ==
    /\ hpc[h] = "list"
    /\ UnlockAndEnd(h)
    /\ Leaves(h)
    /\ UNCHANGED <<objVars, sVars, running, silent, overlapped, lost, aborts>>

-----------------------------------------------------------------------------
(* checkAliveNodes. *)

\* The loop over aliveNodes: where it starts, and whether it goes on.
FirstIndexBefore == 0
FirstIndex == 1
InLoopShort == idx < Len(vec)
InLoop == idx <= Len(vec)

SweepLocks ==
    /\ spc = "sleep"
    /\ Lock(Sweeper)
    /\ spc' = "loop"
    /\ idx' = FirstIndex
    /\ UNCHANGED <<objVars, hVars, seen, lag, touched, running, silent, overlapped, lost, aborts>>

\* nodeIsDead starts: it reads the clock and the object's time stamp, in the
\* order the compiler chose.
CheckNode ==
    /\ spc = "loop"
    /\ InLoop
    /\ spc' \in {"now", "last"}
    /\ seen' = age[vec[idx]]
    /\ lag' = 0
    /\ touched' = FALSE
    /\ UNCHANGED <<mutex, objVars, hVars, idx, running, silent, overlapped, lost, aborts>>

\* The clock first: the difference of two unsigned numbers is huge when the
\* time stamp was renewed after the clock was read.
DeadByNowEarly == age[vec[idx]] < lag \/ age[vec[idx]] - lag >= MaxAge
DeadByNow == age[vec[idx]] < lag \/ age[vec[idx]] - lag > MaxAge
\* The time stamp first.
DeadByLastEarly == seen + lag >= MaxAge
DeadByLast == seen + lag > MaxAge
Dead == IF spc = "now" THEN DeadByNow ELSE DeadByLast

\* nodeIsDead returns: its local variables are gone.
Checked == seen' = 0 /\ lag' = 0 /\ touched' = FALSE

SpareNode ==
    /\ spc \in {"now", "last"}
    /\ ~ Dead
    /\ spc' = "loop"
    /\ idx' = idx + 1
    /\ Checked
    /\ UNCHANGED <<mutex, objVars, hVars, running, silent, overlapped, lost, aborts>>

\* delete, erase and on to printNodes.
WithoutNext(i) == RemoveAt(vec, IF i < Len(vec) THEN i + 1 ELSE i)
Without(i) == RemoveAt(vec, i)
RemoveNode ==
    /\ spc \in {"now", "last"}
    /\ Dead
    /\ live' = live \ {vec[idx]}
    /\ vec' = Without(idx)
    /\ age' = [age EXCEPT ![vec[idx]] = 0]
    /\ node' = [node EXCEPT ![vec[idx]] = AnyNode]
    /\ spc' = "print"
    /\ Checked
    /\ UNCHANGED <<mutex, hVars, idx, running, silent, overlapped, lost, aborts>>

\* printNodes locks the mutex a second time.
PrintLocks ==
    /\ spc = "print"
    /\ Lock(Sweeper)
    /\ spc' = "printing"
    /\ UNCHANGED <<objVars, hVars, idx, seen, lag, touched, running, silent, overlapped, lost,
                   aborts>>

\* It unlocks, and the loop goes on behind the node that moved up.
PrintUnlocks ==
    /\ spc = "printing"
    /\ Unlock(Sweeper)
    /\ spc' = "loop"
    /\ idx' = idx + 1
    /\ UNCHANGED <<objVars, hVars, seen, lag, touched, running, silent, overlapped, lost, aborts>>

SweepEnds ==
    /\ spc = "loop"
    /\ ~ InLoop
    /\ Unlock(Sweeper)
    /\ spc' = "sleep"
    /\ idx' = FirstIndex
    /\ UNCHANGED <<objVars, hVars, seen, lag, touched, running, silent, overlapped, lost,
                   aborts>>

-----------------------------------------------------------------------------
Tick ==
    /\ spc \in {"now", "last"} => lag < MaxLag
    /\ age' = [o \in Objs |-> IF o \in live THEN Older(age[o]) ELSE age[o]]
    /\ silent' = [n \in Nodes |-> Older(silent[n])]
    /\ lag' = IF spc \in {"now", "last"} THEN lag + 1 ELSE lag
    /\ UNCHANGED <<mutex, vec, live, node, hVars, spc, idx, seen, touched, running, overlapped,
                   lost, aborts>>

\* A node process ends for good.
NodeStops(n) ==
    /\ running[n]
    /\ running' = [running EXCEPT ![n] = FALSE]
    /\ UNCHANGED <<mutex, objVars, hVars, sVars, silent, overlapped, lost, aborts>>

HandlerStep(h) == UnlockOnFailure(h) \/ Find(h) \/ Push(h) \/ Update(h) \/ SendNodes(h)
SweeperStep == \/ CheckNode \/ SpareNode \/ RemoveNode
               \/ PrintUnlocks \/ SweepEnds

Next == \/ \E h \in Handlers : \/ \E n \in Nodes : Heartbeat(h, n)
                               \/ ListRequest(h) \/ PeerVanishes(h)
                               \/ HandlerLocks(h) \/ HandlerStep(h)
        \/ SweepLocks \/ PrintLocks \/ SweeperStep
        \/ Tick
        \/ \E n \in Nodes : NodeStops(n)

Spec == Init /\ [][Next]_vars

\* Threads run; time passes, for a computation does not outlast every tick; and a
\* thread that keeps asking for a mutex that is released again and again gets it
\* in the end.
Fairness == /\ \A h \in Handlers : WF_vars(HandlerStep(h)) /\ SF_vars(HandlerLocks(h))
            /\ WF_vars(SweeperStep) /\ SF_vars(SweepLocks) /\ SF_vars(PrintLocks)
            /\ SF_vars(Tick)
FairSpec == Spec /\ Fairness

-----------------------------------------------------------------------------
(* Properties. *)

\* Every variable holds what its declaration in the code allows.
TypeOK ==
    /\ owner \in Threads \cup {NoThread, Gone}
    /\ count \in Int
    /\ vec \in Seq(Objs)
    /\ live \subseteq Objs
    /\ node \in [Objs -> Nodes]
    /\ age \in [Objs -> 0 .. AgeCap]
    /\ hpc \in [Handlers -> {"idle", "failed", "wantFind", "find", "wantPush", "push", "update",
                             "wantList", "list"}]
    /\ hnode \in [Handlers -> Nodes]
    /\ hobj \in [Handlers -> Objs \cup {NoObj}]
    /\ spc \in {"sleep", "loop", "now", "last", "print", "printing"}
    /\ idx \in Nat \ {0}
    /\ seen \in 0 .. AgeCap
    /\ lag \in 0 .. MaxLag
    /\ touched \in BOOLEAN
    /\ running \in [Nodes -> BOOLEAN]
    /\ silent \in [Nodes -> 0 .. AgeCap]
    /\ overlapped \subseteq Nodes
    /\ lost \subseteq Nodes
    /\ aborts \in 0 .. MaxAborts

\* The threads between a lock and the matching unlock.
Inside == {h \in Handlers : hpc[h] \in {"find", "push", "list"}}
SweeperInside == spc # "sleep"

\* As long as no handler has failed, one thread at a time is between lock and
\* unlock, whatever the other connections and the sweep do.
Exclusion ==
    aborts = 0 =>
        /\ Cardinality(Inside) <= 1
        /\ SweeperInside => Inside = {}

\* The account of the mutex: its count is the number of locks held, less one for
\* every handler that failed and unlocked what it did not hold.  It is never
\* made good again: with every thread outside, the count stays below zero.
LockAccount ==
    count = Cardinality(Inside)
            + (IF spc = "printing" THEN 2 ELSE IF SweeperInside THEN 1 ELSE 0)
            - (aborts - Cardinality({h \in Handlers : hpc[h] = "failed"}))

\* The vector lists each live object once, and no object that was deleted.
VectorMatchesHeap ==
    /\ ToSet(vec) = live
    /\ IsInjective(vec)

Listed(n) == {i \in 1 .. Len(vec) : node[vec[i]] = n}

\* A node is listed twice only when two of its connections were served at the
\* same time: getNodeInVector and push_back are two critical sections.
ListedOnce == \A n \in Nodes \ overlapped : Cardinality(Listed(n)) <= 1

\* checkAliveNodes removes an object only if its last heartbeat is older than
\* MAX_TIME_ALIVE, or a heartbeat was written while nodeIsDead computed.
RemovedOnlyIfStale == [][RemoveNode => age[vec[idx]] > MaxAge \/ touched]_vars

\* A node that never overlaps its own connections and was silent for no more
\* than MAX_TIME_ALIVE does not have its heartbeat written to a deleted object,
\* as long as no handler has failed and no late heartbeat of another node was
\* written to memory that is used again.
PunctualHeartbeatCounts ==
    [][lost = {} /\ aborts = 0 => \A n \in lost' : silent[n] > MaxAge \/ n \in overlapped]_vars

\* As long as no handler fails, a node that stopped leaves the list for good.
StoppedNodesLeave ==
    \A n \in Nodes : ~ running[n] ~> (aborts > 0 \/ [](Listed(n) = {}))

\* As long as no handler fails, every connection is served to its end.
ConnectionsEnd ==
    \A h \in Handlers : hpc[h] # "idle" ~> (aborts > 0 \/ hpc[h] = "idle")

\* "Node ... is dead" (Server.cpp:339): the node whose object is deleted sent no
\* heartbeat for MAX_TIME_ALIVE.
RemovedIsDead == [][RemoveNode => silent[node[vec[idx]]] > MaxAge]_vars
=============================================================================
