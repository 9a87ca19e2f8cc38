--------------------------- MODULE DirectoryProofs --------------------------
(***************************************************************************)
(* Proofs about Directory, for any number of nodes, connections and objects: *)
(* the types, the mutex, the vector and its heap, what the sweep removes,    *)
(* and when a node can be listed twice.                                      *)
(***************************************************************************)
EXTENDS Directory, Foundations, FiniteSetTheorems, SequenceTheorems, TLAPS

-----------------------------------------------------------------------------
(* Sequences. *)

\* std::vector::erase: the elements behind position i move up by one.
LEMMA RemoveAtMovesUp ==
    ASSUME NEW S, NEW s \in Seq(S), NEW i \in 1 .. Len(s)
    PROVE  /\ RemoveAt(s, i) \in Seq(S)
           /\ Len(RemoveAt(s, i)) = Len(s) - 1
           /\ \A j \in 1 .. Len(s) - 1 : RemoveAt(s, i)[j] = IF j < i THEN s[j] ELSE s[j + 1]
<1> DEFINE a == SubSeq(s, 1, i - 1)
           b == SubSeq(s, i + 1, Len(s))
           c == a \o b
<1>1. Len(s) \in Nat /\ i \in Nat /\ i >= 1 /\ i <= Len(s) /\ \A j \in 1 .. Len(s) : s[j] \in S
  BY LenProperties, ElementOfSeq
<1>2. a \in Seq(S) /\ Len(a) = i - 1 /\ \A j \in 1 .. i - 1 : a[j] = s[j]
  <2>1. CASE i = 1
    BY <2>1, <1>1, SubSeqProperties
  <2>2. CASE i > 1
    BY <2>2, <1>1, SubSeqProperties
  <2> QED
    BY <2>1, <2>2, <1>1
<1>3. b \in Seq(S) /\ Len(b) = Len(s) - i /\ \A j \in 1 .. Len(s) - i : b[j] = s[j + i]
  <2>1. CASE i = Len(s)
    BY <2>1, <1>1, SubSeqProperties
  <2>2. CASE i < Len(s)
    BY <2>2, <1>1, SubSeqProperties
  <2> QED
    BY <2>1, <2>2, <1>1
<1> HIDE DEF a, b
<1>4. /\ c \in Seq(S)
      /\ Len(c) = Len(a) + Len(b)
      /\ \A j \in 1 .. Len(a) + Len(b) : c[j] = IF j <= Len(a) THEN a[j] ELSE b[j - Len(a)]
  BY <1>2, <1>3, ConcatProperties
<1>5. RemoveAt(s, i) = c
  BY DEF RemoveAt, a, b
<1> HIDE DEF c
<1>6. Len(a) + Len(b) = Len(s) - 1
  BY <1>1, <1>2, <1>3
<1>7. ASSUME NEW j \in 1 .. Len(s) - 1
      PROVE  c[j] = IF j < i THEN s[j] ELSE s[j + 1]
  <2>1. c[j] = IF j <= i - 1 THEN a[j] ELSE b[j - (i - 1)]
    BY <1>2, <1>4, <1>6
  <2>2. CASE j < i
    <3>1. j \in 1 .. i - 1 /\ j <= i - 1
      BY <2>2, <1>1
    <3> QED
      BY <2>1, <2>2, <3>1, <1>2
  <2>3. CASE ~ j < i
    <3>1. ~ (j <= i - 1) /\ j - (i - 1) \in 1 .. Len(s) - i /\ (j - (i - 1)) + i = j + 1
      BY <2>3, <1>1
    <3> QED
      BY <2>1, <2>3, <3>1, <1>3
  <2> QED
    BY <2>2, <2>3
<1> QED
  BY <1>4, <1>5, <1>6, <1>7

-----------------------------------------------------------------------------
(* The inductive invariant. *)

\* The object that is checked is in the vector.
IdxInv == spc \in {"now", "last"} => idx \in 1 .. Len(vec)

\* VectorMatchesHeap, in terms of positions.
HeapInv == /\ live = {vec[i] : i \in 1 .. Len(vec)}
           /\ \A i, j \in 1 .. Len(vec) : vec[i] = vec[j] => i = j

Failed == {h \in Handlers : hpc[h] = "failed"}
SweeperHolds == IF spc = "printing" THEN 2 ELSE IF SweeperInside THEN 1 ELSE 0
AccountInv == count = Cardinality(Inside) + SweeperHolds - (aborts - Cardinality(Failed))

\* Who is between lock and unlock while no handler has failed.
FailedInv == aborts = 0 => Failed = {}
OwnerInv ==
    aborts = 0 =>
        /\ owner # Gone
        /\ owner = NoThread => count = 0 /\ Inside = {} /\ ~ SweeperInside
        /\ owner \in Handlers => count = 1 /\ Inside = {owner} /\ ~ SweeperInside
        /\ owner = Sweeper => count = SweeperHolds /\ Inside = {} /\ SweeperInside

\* What nodeIsDead has read is what the object holds, unless it was renewed.
StaleInv ==
    spc \in {"now", "last"} /\ ~ touched =>
        age[vec[idx]] = IF seen + lag < AgeCap THEN seen + lag ELSE AgeCap

\* A node whose connections never overlapped has one handler at most, and no
\* object while that handler is about to make one.
ServedInv ==
    \A n \in Nodes \ overlapped :
        /\ \A g, h \in Serving(n) : g = h
        /\ \A h \in Serving(n) : hpc[h] \in {"wantPush", "push"} => Listed(n) = {}
        /\ \A i, j \in Listed(n) : i = j

-----------------------------------------------------------------------------
(* Types. *)

nodeVars == <<running, silent, overlapped, lost, aborts>>

MutexType == owner \in Threads \cup {NoThread, Gone} /\ count \in Int
ObjType ==
    /\ vec \in Seq(Objs)
    /\ live \subseteq Objs
    /\ node \in [Objs -> Nodes]
    /\ age \in [Objs -> 0 .. AgeCap]
HandlerType ==
    /\ hpc \in [Handlers -> {"idle", "failed", "wantFind", "find", "wantPush", "push", "update",
                             "wantList", "list"}]
    /\ hnode \in [Handlers -> Nodes]
    /\ hobj \in [Handlers -> Objs \cup {NoObj}]
SweepType ==
    /\ spc \in {"sleep", "loop", "now", "last", "print", "printing"}
    /\ idx \in Nat \ {0}
    /\ seen \in 0 .. AgeCap
    /\ lag \in 0 .. MaxLag
    /\ touched \in BOOLEAN
NodeType ==
    /\ running \in [Nodes -> BOOLEAN]
    /\ silent \in [Nodes -> 0 .. AgeCap]
    /\ overlapped \subseteq Nodes
    /\ lost \subseteq Nodes
    /\ aborts \in 0 .. MaxAborts
Types == MutexType /\ ObjType /\ HandlerType /\ SweepType /\ NodeType

LEMMA TypeSplit == TypeOK <=> Types
  BY DEF TypeOK, Types, MutexType, ObjType, HandlerType, SweepType, NodeType

LEMMA TypeFrame ==
    /\ MutexType /\ UNCHANGED mutex => MutexType'
    /\ ObjType /\ UNCHANGED objVars => ObjType'
    /\ HandlerType /\ UNCHANGED hVars => HandlerType'
    /\ SweepType /\ UNCHANGED sVars => SweepType'
    /\ NodeType /\ UNCHANGED nodeVars => NodeType'
  BY DEF MutexType, ObjType, HandlerType, SweepType, NodeType,
         mutex, objVars, hVars, sVars, nodeVars

LEMMA ConstantFacts ==
    /\ AnyNode \in Nodes
    /\ AgeCap \in Nat /\ 0 \in 0 .. AgeCap
    /\ \A a \in 0 .. AgeCap : Older(a) \in 0 .. AgeCap
    /\ MaxAge \in Nat /\ MaxLag \in Nat /\ MaxAborts \in Nat
  BY NodeAssumption, NumberAssumption DEF AnyNode, AgeCap, Older

\* getNodeInVector finds the first object of the node, if there is one.
LEMMA FirstOfFound ==
    ASSUME ObjType, NEW n \in Nodes
    PROVE  IF Listed(n) = {} THEN FirstOf(n) = NoObj
                             ELSE \E i \in Listed(n) : FirstOf(n) = vec[i] /\ vec[i] \in Objs
<1>1. FirstOf(n) = IF Listed(n) = {} THEN NoObj ELSE vec[Min(Listed(n))]
  BY DEF FirstOf, FirstFrom, Listed
<1>2. ASSUME Listed(n) # {} PROVE Min(Listed(n)) \in Listed(n)
  <2>1. Listed(n) \subseteq Nat
    BY DEF Listed
  <2> QED
    BY <1>2, <2>1, MinIsLeast
<1>3. \A i \in Listed(n) : vec[i] \in Objs
  BY ElementOfSeq DEF Listed, ObjType
<1> QED
  BY <1>1, <1>2, <1>3

\* The mutex, whoever locks or unlocks it.
LEMMA MutexTypes ==
    ASSUME MutexType, NEW t \in Threads
    PROVE  /\ Lock(t) => MutexType'
           /\ Unlock(t) => MutexType'
           /\ UnlockAndEnd(t) => MutexType'
           /\ Ended(t) /\ count' = count => MutexType'
  BY DEF MutexType, Lock, Unlock, UnlockAndEnd, Ended, OwnerAfterUnlock

LEMMA LeavesType ==
    ASSUME HandlerType, NEW h \in Handlers, Leaves(h)
    PROVE  HandlerType'
  BY NodeAssumption DEF HandlerType, Leaves, AnyNode

LEMMA CheckType ==
    ASSUME SweepType, spc' \in {"loop", "now", "last", "print"}, idx' \in Nat \ {0},
           seen' \in 0 .. AgeCap, lag' = 0, touched' = FALSE
    PROVE  SweepType'
<1>1. touched' \in BOOLEAN
  OBVIOUS
<1>2. lag' \in 0 .. MaxLag
  BY ConstantFacts
<1> QED
  BY <1>1, <1>2 DEF SweepType

LEMMA TypeStep ==
    ASSUME Types, IdxInv, HeapInv, [Next]_vars
    PROVE  Types'
<1> USE DEF Types
<1>1. ASSUME NEW h \in Handlers, NEW n \in Nodes, Heartbeat(h, n) PROVE Types'
  <2>1. HandlerType'
    BY <1>1 DEF Heartbeat, HandlerType
  <2>2. NodeType'
    BY <1>1 DEF Heartbeat, NodeType
  <2> QED
    BY <1>1, <2>1, <2>2, TypeFrame DEF Heartbeat
<1>2. ASSUME NEW h \in Handlers, ListRequest(h) PROVE Types'
  <2>1. HandlerType'
    BY <1>2 DEF ListRequest, HandlerType
  <2> QED
    BY <1>2, <2>1, TypeFrame DEF ListRequest, nodeVars
<1>3. ASSUME NEW h \in Handlers, PeerVanishes(h) PROVE Types'
  <2>1. HandlerType'
    BY <1>3 DEF PeerVanishes, HandlerType
  <2>2. aborts' \in 0 .. MaxAborts
    BY <1>3, ConstantFacts DEF PeerVanishes, NodeType
  <2>3. NodeType'
    BY <1>3, <2>2 DEF PeerVanishes, NodeType
  <2> QED
    BY <1>3, <2>1, <2>3, TypeFrame DEF PeerVanishes
<1>4. ASSUME NEW h \in Handlers, UnlockOnFailure(h) PROVE Types'
  <2>1. MutexType'
    BY <1>4, MutexTypes DEF UnlockOnFailure, Threads
  <2> QED
    BY <1>4, <2>1, LeavesType, TypeFrame DEF UnlockOnFailure, nodeVars
<1>5. ASSUME NEW h \in Handlers, HandlerLocks(h) PROVE Types'
  <2>1. MutexType'
    BY <1>5, MutexTypes DEF HandlerLocks, Threads
  <2>2. HandlerType'
    BY <1>5 DEF HandlerLocks, HandlerType
  <2> QED
    BY <1>5, <2>1, <2>2, TypeFrame DEF HandlerLocks, nodeVars
<1>6. ASSUME NEW h \in Handlers, Find(h) PROVE Types'
  <2>1. MutexType'
    BY <1>6, MutexTypes DEF Find, Threads
  <2>2. FirstOf(hnode[h]) \in Objs \cup {NoObj}
    BY FirstOfFound DEF HandlerType
  <2>3. HandlerType'
    BY <1>6, <2>2 DEF Find, HandlerType
  <2> QED
    BY <1>6, <2>1, <2>3, TypeFrame DEF Find, nodeVars
<1>7. ASSUME NEW h \in Handlers, Push(h) PROVE Types'
  <2>1. MutexType'
    BY <1>7, MutexTypes DEF Push, Threads
  <2>2. PICK o \in Objs : /\ vec' = Append(vec, o)
                          /\ live' = live \cup {o}
                          /\ node' = [node EXCEPT ![o] = hnode[h]]
                          /\ age' = [age EXCEPT ![o] = 0]
    BY <1>7 DEF Push
  <2>3. ObjType'
    BY <2>2, ConstantFacts, AppendProperties DEF ObjType, HandlerType
  <2>4. NodeType'
    BY <1>7, ConstantFacts DEF Push, NodeType
  <2>5. HandlerType'
    BY <1>7, LeavesType DEF Push
  <2> QED
    BY <1>7, <2>1, <2>3, <2>4, <2>5, TypeFrame DEF Push
<1>8. ASSUME NEW h \in Handlers, Update(h) PROVE Types'
  <2>1. MutexType'
    BY <1>8, MutexTypes DEF Update, Threads
  <2>2. ObjType'
    BY <1>8, ConstantFacts DEF Update, ObjType
  <2>3. HandlerType'
    BY <1>8, LeavesType DEF Update
  <2>4. touched' \in BOOLEAN
    BY <1>8, Zenon DEF Update, SweepType, Checking
  <2>5. SweepType'
    BY <1>8, <2>4 DEF Update, SweepType
  <2>6. lost' \subseteq Nodes
    BY <1>8 DEF Update, NodeType, HandlerType
  <2>7. NodeType'
    BY <1>8, <2>6, ConstantFacts DEF Update, NodeType
  <2> QED
    BY <2>1, <2>2, <2>3, <2>5, <2>7
<1>9. ASSUME NEW h \in Handlers, SendNodes(h) PROVE Types'
  <2>1. MutexType'
    BY <1>9, MutexTypes DEF SendNodes, Threads
  <2> QED
    BY <1>9, <2>1, LeavesType, TypeFrame DEF SendNodes, nodeVars
<1>10. ASSUME SweepLocks \/ SweepEnds \/ PrintLocks \/ PrintUnlocks PROVE Types'
  <2>1. MutexType'
    BY <1>10, MutexTypes DEF SweepLocks, SweepEnds, PrintLocks, PrintUnlocks, Threads
  <2>2. SweepType'
    BY <1>10 DEF SweepLocks, SweepEnds, PrintLocks, PrintUnlocks, SweepType, FirstIndex
  <2> QED
    BY <1>10, <2>1, <2>2, TypeFrame
       DEF SweepLocks, SweepEnds, PrintLocks, PrintUnlocks, nodeVars
<1>11. ASSUME CheckNode PROVE Types'
  <2>1. vec[idx] \in Objs
    BY <1>11, ElementOfSeq, LenProperties DEF CheckNode, InLoop, ObjType, SweepType
  <2>2. age[vec[idx]] \in 0 .. AgeCap
    BY <2>1 DEF ObjType
  <2>3. SweepType'
    BY <1>11, <2>2, CheckType DEF CheckNode, SweepType
  <2> QED
    BY <1>11, <2>3, TypeFrame DEF CheckNode, nodeVars
<1>12. ASSUME SpareNode PROVE Types'
  <2>1. SweepType'
    <3>1. idx' \in Nat \ {0} /\ seen' \in 0 .. AgeCap
      BY <1>12, ConstantFacts DEF SpareNode, Checked, SweepType
    <3> QED
      BY <1>12, <3>1, CheckType DEF SpareNode, Checked
  <2> QED
    BY <1>12, <2>1, TypeFrame DEF SpareNode, nodeVars
<1>13. ASSUME RemoveNode PROVE Types'
  <2>1. SweepType'
    <3>1. idx' \in Nat \ {0} /\ seen' \in 0 .. AgeCap
      BY <1>13, ConstantFacts DEF RemoveNode, Checked, SweepType
    <3> QED
      BY <1>13, <3>1, CheckType DEF RemoveNode, Checked
  <2>2. vec' \in Seq(Objs)
    BY <1>13, RemoveAtMovesUp DEF RemoveNode, Without, IdxInv, ObjType
  <2>3. ObjType'
    BY <1>13, <2>2, ConstantFacts DEF RemoveNode, ObjType
  <2> QED
    BY <1>13, <2>1, <2>3, TypeFrame DEF RemoveNode, nodeVars
<1>14. ASSUME Tick PROVE Types'
  <2>1. ObjType'
    BY <1>14, ConstantFacts DEF Tick, ObjType
  <2>2. lag' \in 0 .. MaxLag
    BY <1>14, ConstantFacts DEF Tick, SweepType
  <2>3. SweepType'
    BY <1>14, <2>2 DEF Tick, SweepType
  <2>4. NodeType'
    BY <1>14, ConstantFacts DEF Tick, NodeType
  <2> QED
    BY <1>14, <2>1, <2>3, <2>4, TypeFrame DEF Tick
<1>15. ASSUME NEW n \in Nodes, NodeStops(n) PROVE Types'
  <2>1. NodeType'
    BY <1>15 DEF NodeStops, NodeType
  <2> QED
    BY <1>15, <2>1, TypeFrame DEF NodeStops
<1>16. CASE UNCHANGED vars
  BY <1>16, TypeFrame DEF vars, nodeVars
<1> QED
  BY <1>1, <1>2, <1>3, <1>4, <1>5, <1>6, <1>7, <1>8, <1>9, <1>10, <1>11, <1>12, <1>13, <1>14,
     <1>15, <1>16 DEF Next, HandlerStep, SweeperStep

-----------------------------------------------------------------------------
(* The vector and the heap. *)

\* The position the sweep looks at, and the vector, change in few steps.
LEMMA IdxStep ==
    ASSUME Types, IdxInv, HeapInv, [Next]_vars
    PROVE  IdxInv'
<1>1. CASE UNCHANGED <<spc, idx, vec>>
  BY <1>1 DEF IdxInv
<1>2. ASSUME NEW h \in Handlers, Push(h) PROVE IdxInv'
  <2>1. PICK o \in Objs : vec' = Append(vec, o)
    BY <1>2 DEF Push
  <2>2. Len(vec) \in Nat /\ Len(vec') = Len(vec) + 1
    BY <2>1, AppendProperties, LenProperties DEF Types, ObjType
  <2> QED
    BY <1>2, <2>2 DEF Push, IdxInv, sVars
<1>3. CASE CheckNode
  <2>1. Len(vec) \in Nat
    BY LenProperties DEF Types, ObjType
  <2> QED
    BY <1>3, <2>1 DEF CheckNode, InLoop, IdxInv, Types, SweepType, objVars
<1>4. CASE SpareNode \/ RemoveNode \/ SweepLocks \/ SweepEnds \/ PrintLocks \/ PrintUnlocks
  BY <1>4 DEF SpareNode, RemoveNode, SweepLocks, SweepEnds, PrintLocks, PrintUnlocks, IdxInv
<1>5. ASSUME NEW h \in Handlers, (\E n \in Nodes : Heartbeat(h, n)) \/ ListRequest(h)
                 \/ PeerVanishes(h) \/ HandlerLocks(h) \/ UnlockOnFailure(h) \/ Find(h)
                 \/ Update(h) \/ SendNodes(h)
      PROVE  UNCHANGED <<spc, idx, vec>>
  BY <1>5 DEF Heartbeat, ListRequest, PeerVanishes, HandlerLocks, UnlockOnFailure, Find,
              Update, SendNodes, objVars, sVars
<1>6. CASE Tick \/ (\E n \in Nodes : NodeStops(n))
  BY <1>1, <1>6 DEF Tick, NodeStops, objVars, sVars
<1>7. CASE UNCHANGED vars
  BY <1>1, <1>7 DEF vars, objVars, sVars
<1> QED
  BY <1>1, <1>2, <1>3, <1>4, <1>5, <1>6, <1>7 DEF Next, HandlerStep, SweeperStep

\* A new object is put at the end: the other positions keep theirs.
LEMMA HeapPush ==
    ASSUME Types, HeapInv, NEW o \in Objs, o \notin live,
           vec' = Append(vec, o), live' = live \cup {o}
    PROVE  HeapInv'
<1>1. /\ Len(vec) \in Nat /\ Len(vec') = Len(vec) + 1 /\ vec'[Len(vec) + 1] = o
      /\ \A i \in 1 .. Len(vec) : vec'[i] = vec[i]
  BY AppendProperties, LenProperties DEF Types, ObjType
<1>2. \A i \in 1 .. Len(vec') : i \in 1 .. Len(vec) \/ i = Len(vec) + 1
  BY <1>1
<1>3. \A i \in 1 .. Len(vec) : i \in 1 .. Len(vec') /\ vec[i] \in live
  BY <1>1 DEF HeapInv
<1>4. Len(vec) + 1 \in 1 .. Len(vec')
  BY <1>1
<1>5. live' = {vec'[i] : i \in 1 .. Len(vec')}
  <2>1. ASSUME NEW x \in live' PROVE \E i \in 1 .. Len(vec') : x = vec'[i]
    <3>1. CASE x = o
      BY <3>1, <1>1, <1>4
    <3>2. CASE x \in live
      BY <3>2, <1>1, <1>3 DEF HeapInv
    <3> QED
      BY <3>1, <3>2
  <2>2. ASSUME NEW i \in 1 .. Len(vec') PROVE vec'[i] \in live'
    BY <1>1, <1>2, <1>3
  <2> QED
    BY <2>1, <2>2
<1>6. ASSUME NEW i \in 1 .. Len(vec'), NEW j \in 1 .. Len(vec'), vec'[i] = vec'[j]
      PROVE  i = j
  <2>1. CASE i \in 1 .. Len(vec) /\ j \in 1 .. Len(vec)
    BY <1>1, <1>6, <2>1 DEF HeapInv
  <2>2. CASE i = Len(vec) + 1 \/ j = Len(vec) + 1
    BY <1>1, <1>2, <1>3, <1>6, <2>2
  <2> QED
    BY <1>2, <2>1, <2>2
<1> QED
  BY <1>5, <1>6 DEF HeapInv

\* An object is erased and deleted: the ones behind it move up.
LEMMA HeapRemove ==
    ASSUME Types, HeapInv, idx \in 1 .. Len(vec),
           vec' = Without(idx), live' = live \ {vec[idx]}
    PROVE  HeapInv'
<1> DEFINE old(j) == IF j < idx THEN j ELSE j + 1
<1>1. /\ Len(vec) \in Nat /\ Len(vec') = Len(vec) - 1
      /\ \A j \in 1 .. Len(vec) - 1 : vec'[j] = vec[old(j)]
  BY RemoveAtMovesUp, LenProperties DEF Types, ObjType, Without
<1>2. \A j \in 1 .. Len(vec') : old(j) \in 1 .. Len(vec) /\ old(j) # idx
  BY <1>1
<1>3. \A i, j \in 1 .. Len(vec') : old(i) = old(j) => i = j
  BY <1>1
<1>4. ASSUME NEW i \in 1 .. Len(vec), i # idx
      PROVE  \E j \in 1 .. Len(vec') : old(j) = i
  <2>1. CASE i < idx
    BY <2>1, <1>1
  <2>2. CASE i > idx
    <3>1. i - 1 \in 1 .. Len(vec') /\ old(i - 1) = i
      BY <2>2, <1>1
    <3> QED
      BY <3>1
  <2> QED
    BY <1>4, <2>1, <2>2
<1> HIDE DEF old
<1>5. \A j \in 1 .. Len(vec') : vec'[j] = vec[old(j)]
  BY <1>1
<1>6. live' = {vec'[i] : i \in 1 .. Len(vec')}
  <2>1. ASSUME NEW x \in live' PROVE \E j \in 1 .. Len(vec') : x = vec'[j]
    <3>1. PICK i \in 1 .. Len(vec) : x = vec[i] /\ i # idx
      BY DEF HeapInv
    <3> QED
      BY <3>1, <1>4, <1>5
  <2>2. ASSUME NEW j \in 1 .. Len(vec') PROVE vec'[j] \in live'
    BY <1>2, <1>5 DEF HeapInv
  <2> QED
    BY <2>1, <2>2
<1>7. ASSUME NEW i \in 1 .. Len(vec'), NEW j \in 1 .. Len(vec'), vec'[i] = vec'[j]
      PROVE  i = j
  <2>1. vec[old(i)] = vec[old(j)]
    BY <1>5, <1>7
  <2>2. old(i) \in 1 .. Len(vec) /\ old(j) \in 1 .. Len(vec)
    BY <1>2
  <2>3. old(i) = old(j)
    BY <2>1, <2>2 DEF HeapInv
  <2> QED
    BY <2>3, <1>3
<1> QED
  BY <1>6, <1>7 DEF HeapInv

LEMMA HeapStep ==
    ASSUME Types, IdxInv, HeapInv, [Next]_vars
    PROVE  HeapInv'
<1>1. CASE UNCHANGED <<vec, live>>
  BY <1>1 DEF HeapInv
<1>2. ASSUME NEW h \in Handlers, Push(h) PROVE HeapInv'
  BY <1>2, HeapPush DEF Push
<1>3. CASE RemoveNode
  BY <1>3, HeapRemove DEF RemoveNode, IdxInv
<1>4. CASE SpareNode \/ CheckNode \/ SweepLocks \/ SweepEnds \/ PrintLocks \/ PrintUnlocks \/ Tick
  BY <1>1, <1>4 DEF SpareNode, CheckNode, SweepLocks, SweepEnds, PrintLocks, PrintUnlocks, Tick,
                    objVars
<1>5. ASSUME NEW h \in Handlers, (\E n \in Nodes : Heartbeat(h, n)) \/ ListRequest(h)
                 \/ PeerVanishes(h) \/ HandlerLocks(h) \/ UnlockOnFailure(h) \/ Find(h)
                 \/ Update(h) \/ SendNodes(h)
      PROVE  UNCHANGED <<vec, live>>
  BY <1>5 DEF Heartbeat, ListRequest, PeerVanishes, HandlerLocks, UnlockOnFailure, Find,
              Update, SendNodes, objVars
<1>6. CASE (\E n \in Nodes : NodeStops(n)) \/ UNCHANGED vars
  BY <1>1, <1>6 DEF NodeStops, vars, objVars
<1> QED
  BY <1>1, <1>2, <1>3, <1>4, <1>5, <1>6 DEF Next, HandlerStep, SweeperStep

-----------------------------------------------------------------------------
(* The mutex. *)

LEMMA FiniteThreads ==
    /\ IsFiniteSet(Inside) /\ Cardinality(Inside) \in Nat
    /\ IsFiniteSet(Failed) /\ Cardinality(Failed) \in Nat
  BY HandlerAssumption, FS_Subset, FS_CardinalityType DEF Inside, Failed

\* How the steps of a handler change the two sets.
LEMMA HandlerMoves ==
    ASSUME Types, NEW h \in Handlers
    PROVE  /\ (\E n \in Nodes : Heartbeat(h, n)) \/ ListRequest(h) \/ Update(h)
                => Inside' = Inside /\ Failed' = Failed
           /\ PeerVanishes(h) => Inside' = Inside /\ Failed' = Failed \cup {h} /\ h \notin Failed
           /\ UnlockOnFailure(h) => Inside' = Inside /\ Failed' = Failed \ {h} /\ h \in Failed
           /\ HandlerLocks(h) => Inside' = Inside \cup {h} /\ h \notin Inside /\ Failed' = Failed
           /\ Find(h) \/ Push(h) \/ SendNodes(h)
                => Inside' = Inside \ {h} /\ h \in Inside /\ Failed' = Failed
<1> USE DEF Types, HandlerType, Inside, Failed
<1>1. ASSUME (\E n \in Nodes : Heartbeat(h, n)) \/ ListRequest(h) \/ Update(h)
      PROVE  Inside' = Inside /\ Failed' = Failed
  BY <1>1 DEF Heartbeat, ListRequest, Update, Leaves
<1>2. ASSUME PeerVanishes(h)
      PROVE  Inside' = Inside /\ Failed' = Failed \cup {h} /\ h \notin Failed
  BY <1>2 DEF PeerVanishes
<1>3. ASSUME UnlockOnFailure(h)
      PROVE  Inside' = Inside /\ Failed' = Failed \ {h} /\ h \in Failed
  BY <1>3 DEF UnlockOnFailure, Leaves
<1>4. ASSUME HandlerLocks(h)
      PROVE  Inside' = Inside \cup {h} /\ h \notin Inside /\ Failed' = Failed
  BY <1>4 DEF HandlerLocks
<1>5. ASSUME Find(h) \/ Push(h) \/ SendNodes(h)
      PROVE  Inside' = Inside \ {h} /\ h \in Inside /\ Failed' = Failed
  BY <1>5 DEF Find, Push, SendNodes, Leaves
<1> QED
  BY <1>1, <1>2, <1>3, <1>4, <1>5

LEMMA AccountStep ==
    ASSUME Types, AccountInv, [Next]_vars
    PROVE  AccountInv'
<1> USE FiniteThreads DEF AccountInv
<1>0. count \in Int /\ aborts \in Int /\ SweeperHolds \in Int
  BY DEF Types, MutexType, NodeType, SweeperHolds
<1>1. ASSUME NEW h \in Handlers,
             (\E n \in Nodes : Heartbeat(h, n)) \/ ListRequest(h) \/ Update(h)
      PROVE  AccountInv'
  <2>1. Inside' = Inside /\ Failed' = Failed
    BY <1>1, HandlerMoves
  <2>2. UNCHANGED <<count, aborts, spc>>
    BY <1>1 DEF Heartbeat, ListRequest, Update, mutex, sVars
  <2> QED
    BY <2>1, <2>2 DEF SweeperHolds, SweeperInside
<1>2. ASSUME NEW h \in Handlers, PeerVanishes(h) PROVE AccountInv'
  <2>1. Inside' = Inside /\ Cardinality(Failed') = Cardinality(Failed) + 1
    BY <1>2, HandlerMoves, FS_AddElement
  <2>2. UNCHANGED <<count, spc>> /\ aborts' = aborts + 1
    BY <1>2 DEF PeerVanishes, mutex, sVars
  <2>3. SweeperHolds' = SweeperHolds
    BY <2>2 DEF SweeperHolds, SweeperInside
  <2> QED
    BY <1>0, <2>1, <2>2, <2>3
<1>3. ASSUME NEW h \in Handlers, UnlockOnFailure(h) PROVE AccountInv'
  <2>1. Inside' = Inside /\ Cardinality(Failed') = Cardinality(Failed) - 1
    BY <1>3, HandlerMoves, FS_RemoveElement
  <2>2. UNCHANGED <<aborts, spc>> /\ count' = count - 1
    BY <1>3 DEF UnlockOnFailure, UnlockAndEnd, sVars
  <2>3. SweeperHolds' = SweeperHolds
    BY <2>2 DEF SweeperHolds, SweeperInside
  <2> QED
    BY <1>0, <2>1, <2>2, <2>3
<1>4. ASSUME NEW h \in Handlers, HandlerLocks(h) PROVE AccountInv'
  <2>1. Failed' = Failed /\ Cardinality(Inside') = Cardinality(Inside) + 1
    BY <1>4, HandlerMoves, FS_AddElement
  <2>2. UNCHANGED <<aborts, spc>> /\ count' = count + 1
    BY <1>4 DEF HandlerLocks, Lock, sVars
  <2>3. SweeperHolds' = SweeperHolds
    BY <2>2 DEF SweeperHolds, SweeperInside
  <2> QED
    BY <1>0, <2>1, <2>2, <2>3
<1>5. ASSUME NEW h \in Handlers, Find(h) \/ Push(h) \/ SendNodes(h) PROVE AccountInv'
  <2>1. Failed' = Failed /\ Cardinality(Inside') = Cardinality(Inside) - 1
    BY <1>5, HandlerMoves, FS_RemoveElement
  <2>2. UNCHANGED <<aborts, spc>> /\ count' = count - 1
    BY <1>5 DEF Find, Push, SendNodes, Unlock, UnlockAndEnd, sVars
  <2>3. SweeperHolds' = SweeperHolds
    BY <2>2 DEF SweeperHolds, SweeperInside
  <2> QED
    BY <1>0, <2>1, <2>2, <2>3
<1>6. ASSUME UNCHANGED <<hpc, aborts>>, count' - count = SweeperHolds' - SweeperHolds,
             count' \in Int, SweeperHolds' \in Int
      PROVE  AccountInv'
  <2>1. Inside' = Inside /\ Failed' = Failed
    BY <1>6 DEF Inside, Failed
  <2> QED
    BY <1>0, <1>6, <2>1
<1>7. CASE SweepLocks \/ PrintLocks
  <2>1. count' = count + 1 /\ SweeperHolds' = SweeperHolds + 1
    BY <1>7 DEF SweepLocks, PrintLocks, Lock, SweeperHolds, SweeperInside
  <2> QED
    BY <1>0, <1>6, <1>7, <2>1 DEF SweepLocks, PrintLocks, hVars
<1>8. CASE SweepEnds \/ PrintUnlocks
  <2>1. count' = count - 1 /\ SweeperHolds' = SweeperHolds - 1
    BY <1>8 DEF SweepEnds, PrintUnlocks, Unlock, SweeperHolds, SweeperInside
  <2> QED
    BY <1>0, <1>6, <1>8, <2>1 DEF SweepEnds, PrintUnlocks, hVars
<1>9. CASE CheckNode \/ SpareNode \/ RemoveNode \/ Tick
  <2>1. count' = count /\ SweeperHolds' = SweeperHolds
    BY <1>9 DEF CheckNode, SpareNode, RemoveNode, Tick, mutex, SweeperHolds, SweeperInside
  <2> QED
    BY <1>0, <1>6, <1>9, <2>1 DEF CheckNode, SpareNode, RemoveNode, Tick, hVars
<1>10. CASE (\E n \in Nodes : NodeStops(n)) \/ UNCHANGED vars
  <2>1. count' = count /\ SweeperHolds' = SweeperHolds
    BY <1>10 DEF NodeStops, vars, mutex, sVars, SweeperHolds, SweeperInside
  <2> QED
    BY <1>0, <1>6, <1>10, <2>1 DEF NodeStops, vars, hVars
<1> QED
  BY <1>1, <1>2, <1>3, <1>4, <1>5, <1>7, <1>8, <1>9, <1>10 DEF Next, HandlerStep, SweeperStep

\* No handler fails unless it is counted.
LEMMA FailedStep ==
    ASSUME Types, FailedInv, [Next]_vars
    PROVE  FailedInv'
<1> SUFFICES ASSUME aborts' = 0 PROVE Failed' = {}
  BY DEF FailedInv
<1>1. CASE \E h \in Handlers : PeerVanishes(h)
  BY <1>1 DEF PeerVanishes, Types, NodeType
<1>2. ASSUME NEW h \in Handlers,
             (\E n \in Nodes : Heartbeat(h, n)) \/ ListRequest(h) \/ Update(h)
               \/ UnlockOnFailure(h) \/ HandlerLocks(h) \/ Find(h) \/ Push(h) \/ SendNodes(h)
      PROVE  Failed' \subseteq Failed /\ aborts' = aborts
  <2>1. Failed' \subseteq Failed
    BY <1>2, HandlerMoves
  <2>2. aborts' = aborts
    BY <1>2 DEF Heartbeat, ListRequest, Update, UnlockOnFailure, HandlerLocks, Find, Push, SendNodes
  <2> QED
    BY <2>1, <2>2
<1>3. ASSUME UNCHANGED <<hpc, aborts>> PROVE Failed' = {}
  BY <1>3 DEF FailedInv, Failed
<1>4. CASE SweeperStep \/ SweepLocks \/ PrintLocks \/ Tick \/ UNCHANGED vars
             \/ (\E n \in Nodes : NodeStops(n))
  BY <1>3, <1>4 DEF SweeperStep, CheckNode, SpareNode, RemoveNode, PrintUnlocks, SweepEnds,
                    SweepLocks, PrintLocks, Tick, NodeStops, vars, hVars
<1> QED
  BY <1>1, <1>2, <1>4 DEF FailedInv, Next, HandlerStep

\* While no handler has failed, the thread that owns the mutex is the one that
\* is between lock and unlock.
LEMMA OwnerStep ==
    ASSUME Types, FailedInv, OwnerInv, [Next]_vars
    PROVE  OwnerInv'
<1> SUFFICES ASSUME aborts' = 0 PROVE OwnerInv'
  BY DEF OwnerInv
<1>0. /\ Sweeper \notin Handlers /\ Sweeper # NoThread /\ Gone # NoThread
      /\ Gone \notin Handlers /\ Gone # Sweeper /\ NoThread \notin Handlers
  BY ThreadAssumption DEF Threads
<1>1. ASSUME NEW h \in Handlers, PeerVanishes(h) PROVE FALSE
  BY <1>1 DEF PeerVanishes, Types, NodeType
<1>2. ASSUME NEW h \in Handlers, (\E n \in Nodes : Heartbeat(h, n)) \/ ListRequest(h)
      PROVE  OwnerInv'
  <2>1. Inside' = Inside
    BY <1>2, HandlerMoves
  <2>2. UNCHANGED <<owner, count, spc, aborts>>
    BY <1>2 DEF Heartbeat, ListRequest, mutex, sVars
  <2> QED
    BY <2>1, <2>2 DEF OwnerInv, SweeperHolds, SweeperInside
<1>3. ASSUME NEW h \in Handlers, UnlockOnFailure(h) PROVE FALSE
  <2>1. h \in Failed /\ aborts = 0
    BY <1>3 DEF UnlockOnFailure, Failed
  <2> QED
    BY <2>1 DEF FailedInv
<1>4. ASSUME NEW h \in Handlers, HandlerLocks(h) PROVE OwnerInv'
  <2>1. /\ Inside' = Inside \cup {h} /\ h \notin Inside
        /\ owner \in {h, NoThread} /\ owner' = h /\ count' = count + 1
        /\ spc' = spc /\ aborts = 0
    BY <1>4, HandlerMoves DEF HandlerLocks, Lock, CanLock, sVars
  <2>2. owner = NoThread
    BY <2>1 DEF OwnerInv
  <2>3. count' = 1 /\ Inside' = {h} /\ ~ SweeperInside'
    BY <2>1, <2>2 DEF OwnerInv, SweeperInside
  <2> QED
    BY <1>0, <2>1, <2>3 DEF OwnerInv
<1>5. ASSUME NEW h \in Handlers, Find(h) \/ Push(h) \/ SendNodes(h) PROVE OwnerInv'
  <2>1. Inside' = Inside \ {h} /\ h \in Inside /\ spc' = spc /\ aborts = 0
    BY <1>5, HandlerMoves DEF Find, Push, SendNodes, sVars
  <2>2. owner = h /\ count = 1 /\ Inside = {h} /\ ~ SweeperInside
    BY <2>1 DEF OwnerInv, Types, MutexType, Threads
  <2>3. owner' = NoThread /\ count' = 0
    BY <1>0, <1>5, <2>2 DEF Find, Push, SendNodes, Unlock, UnlockAndEnd, OwnerAfterUnlock
  <2> QED
    BY <1>0, <2>1, <2>2, <2>3 DEF OwnerInv, SweeperInside
<1>6. ASSUME NEW h \in Handlers, Update(h) PROVE OwnerInv'
  <2>1. Inside' = Inside /\ h \notin Inside /\ count' = count /\ spc' = spc /\ aborts = 0
    BY <1>6, HandlerMoves DEF Update, Inside
  <2>2. owner # h
    BY <2>1 DEF OwnerInv
  <2>3. owner' = owner
    BY <1>6, <2>2 DEF Update, Ended
  <2> QED
    BY <2>1, <2>3 DEF OwnerInv, SweeperHolds, SweeperInside
<1>7. ASSUME UNCHANGED <<hpc, aborts>> PROVE Inside' = Inside /\ aborts = 0
  BY <1>7 DEF Inside
<1>8. CASE SweepLocks \/ PrintLocks
  <2>1. Inside' = Inside /\ aborts = 0
    BY <1>7, <1>8 DEF SweepLocks, PrintLocks, hVars
  <2>2. /\ owner \in {Sweeper, NoThread} /\ owner' = Sweeper /\ count' = count + 1
        /\ \/ spc = "sleep" /\ spc' = "loop"
           \/ spc = "print" /\ spc' = "printing"
    BY <1>8 DEF SweepLocks, PrintLocks, Lock, CanLock
  <2>3. Inside = {} /\ count = SweeperHolds
    BY <2>1, <2>2 DEF OwnerInv, SweeperHolds, SweeperInside
  <2>4. SweeperHolds' = SweeperHolds + 1 /\ SweeperInside'
    BY <2>2 DEF SweeperHolds, SweeperInside
  <2> QED
    BY <1>0, <2>1, <2>2, <2>3, <2>4 DEF OwnerInv
<1>9. CASE SweepEnds \/ PrintUnlocks
  <2>1. Inside' = Inside /\ aborts = 0
    BY <1>7, <1>9 DEF SweepEnds, PrintUnlocks, hVars
  <2>2. /\ count' = count - 1 /\ owner' = OwnerAfterUnlock
        /\ \/ spc = "loop" /\ spc' = "sleep"
           \/ spc = "printing" /\ spc' = "loop"
    BY <1>9 DEF SweepEnds, PrintUnlocks, Unlock
  <2>3. owner = Sweeper /\ Inside = {} /\ count = SweeperHolds
    BY <2>1, <2>2 DEF OwnerInv, SweeperInside, Types, MutexType, Threads
  <2> QED
    BY <1>0, <2>1, <2>2, <2>3 DEF OwnerInv, OwnerAfterUnlock, SweeperHolds, SweeperInside
<1>10. CASE CheckNode \/ SpareNode \/ RemoveNode
  <2>1. /\ Inside' = Inside /\ aborts = 0
        /\ UNCHANGED <<owner, count>>
        /\ SweeperHolds' = SweeperHolds /\ SweeperInside' /\ SweeperInside
    BY <1>7, <1>10 DEF CheckNode, SpareNode, RemoveNode, mutex, hVars, SweeperHolds, SweeperInside
  <2> QED
    BY <2>1 DEF OwnerInv
<1>11. CASE Tick \/ (\E n \in Nodes : NodeStops(n)) \/ UNCHANGED vars
  <2>1. Inside' = Inside /\ aborts = 0 /\ UNCHANGED <<owner, count, spc>>
    BY <1>7, <1>11 DEF Tick, NodeStops, vars, mutex, hVars, sVars
  <2> QED
    BY <2>1 DEF OwnerInv, SweeperHolds, SweeperInside
<1> QED
  BY <1>1, <1>2, <1>3, <1>4, <1>5, <1>6, <1>8, <1>9, <1>10, <1>11
     DEF Next, HandlerStep, SweeperStep

-----------------------------------------------------------------------------
(* What the sweep removes. *)

LEMMA StaleStep ==
    ASSUME Types, IdxInv, HeapInv, StaleInv, [Next]_vars
    PROVE  StaleInv'
<1> DEFINE Capped(n) == IF n < AgeCap THEN n ELSE AgeCap
<1>0. /\ AgeCap \in Nat /\ seen \in Nat /\ seen <= AgeCap /\ lag \in Nat
      /\ \A o \in Objs : age[o] \in Nat /\ age[o] <= AgeCap
  BY ConstantFacts DEF Types, SweepType, ObjType
<1>1. ASSUME NEW h \in Handlers, Push(h) PROVE StaleInv'
  <2> SUFFICES ASSUME spc \in {"now", "last"}, ~ touched
               PROVE  age'[vec'[idx]] = age[vec[idx]]
    BY <1>1 DEF StaleInv, Push, sVars
  <2>1. PICK o \in Objs : /\ o \notin live /\ vec' = Append(vec, o)
                          /\ age' = [age EXCEPT ![o] = 0]
    BY <1>1 DEF Push
  <2>2. idx \in 1 .. Len(vec) /\ vec[idx] \in live
    BY DEF IdxInv, HeapInv
  <2>3. vec'[idx] = vec[idx]
    BY <2>1, <2>2, AppendProperties DEF Types, ObjType
  <2> QED
    BY <2>1, <2>2, <2>3 DEF Types, ObjType
<1>2. ASSUME NEW h \in Handlers, Update(h) PROVE StaleInv'
  <2> SUFFICES ASSUME spc \in {"now", "last"}, ~ touched' PROVE age'[vec[idx]] = age[vec[idx]] /\ ~ touched
    BY <1>2 DEF StaleInv, Update
  <2>1. ~ touched /\ vec[idx] # hobj[h]
    BY <1>2 DEF Update, Checking
  <2> QED
    BY <1>2, <2>1 DEF Update, Types, ObjType
<1>3. CASE CheckNode
  <2>1. vec[idx] \in Objs
    BY <1>3, ElementOfSeq, LenProperties DEF CheckNode, InLoop, Types, ObjType, SweepType
  <2>2. age[vec[idx]] \in Nat /\ age[vec[idx]] <= AgeCap
    BY <1>0, <2>1
  <2>3. /\ seen' = age[vec[idx]] /\ lag' = 0 /\ UNCHANGED <<age, vec, idx>>
    BY <1>3 DEF CheckNode, objVars
  <2> QED
    BY <1>0, <2>2, <2>3 DEF StaleInv, AgeCap
<1>4. CASE Tick
  <2> SUFFICES ASSUME spc \in {"now", "last"}, ~ touched
               PROVE  age'[vec[idx]] = Capped(seen + lag')
    BY <1>4 DEF StaleInv, Tick, AgeCap
  <2>1. vec[idx] \in live /\ vec[idx] \in Objs /\ age[vec[idx]] = Capped(seen + lag)
    BY DEF IdxInv, HeapInv, StaleInv, Types, ObjType, AgeCap
  <2>2. age'[vec[idx]] = Older(age[vec[idx]]) /\ lag' = lag + 1
    BY <1>4, <2>1 DEF Tick
  <2> QED
    BY <1>0, <2>1, <2>2 DEF Older
<1>5. CASE SpareNode \/ RemoveNode \/ SweepLocks \/ SweepEnds \/ PrintLocks \/ PrintUnlocks
  BY <1>5 DEF SpareNode, RemoveNode, SweepLocks, SweepEnds, PrintLocks, PrintUnlocks, StaleInv
<1>6. ASSUME UNCHANGED <<vec, age, spc, idx, seen, lag, touched>> PROVE StaleInv'
  BY <1>6 DEF StaleInv, AgeCap
<1>7. ASSUME NEW h \in Handlers, (\E n \in Nodes : Heartbeat(h, n)) \/ ListRequest(h)
                 \/ PeerVanishes(h) \/ HandlerLocks(h) \/ UnlockOnFailure(h) \/ Find(h)
                 \/ SendNodes(h)
      PROVE  UNCHANGED <<vec, age, spc, idx, seen, lag, touched>>
  BY <1>7 DEF Heartbeat, ListRequest, PeerVanishes, HandlerLocks, UnlockOnFailure, Find,
              SendNodes, objVars, sVars
<1>8. CASE (\E n \in Nodes : NodeStops(n)) \/ UNCHANGED vars
  BY <1>6, <1>8 DEF NodeStops, vars, objVars, sVars
<1> QED
  BY <1>1, <1>2, <1>3, <1>4, <1>5, <1>6, <1>7, <1>8 DEF Next, HandlerStep, SweeperStep

-----------------------------------------------------------------------------
(* When a node is listed twice. *)

\* What the steps of a handler do to the nodes they serve.
LEMMA ServingMoves ==
    ASSUME Types, NEW h \in Handlers, NEW m \in Nodes
    PROVE  /\ \A n \in Nodes : Heartbeat(h, n) =>
                /\ m = n /\ m \notin overlapped' => Serving(m)' = {h} /\ hpc'[h] = "wantFind"
                /\ m # n => Serving(m)' = Serving(m)
                /\ h \notin Serving(m)
           /\ ListRequest(h) \/ PeerVanishes(h) \/ UnlockOnFailure(h) \/ SendNodes(h)
                => Serving(m)' = Serving(m) /\ h \notin Serving(m)
           /\ HandlerLocks(h) \/ Find(h) => Serving(m)' = Serving(m)
           /\ Push(h) \/ Update(h) => Serving(m)' = Serving(m) \ {h}
           /\ Find(h) \/ Push(h) \/ Update(h) => (h \in Serving(m) <=> hnode[h] = m)
<1> USE DEF Types, HandlerType, Serving
<1>1. ASSUME NEW n \in Nodes, Heartbeat(h, n)
      PROVE  /\ m = n /\ m \notin overlapped' => Serving(m)' = {h} /\ hpc'[h] = "wantFind"
             /\ m # n => Serving(m)' = Serving(m)
             /\ h \notin Serving(m)
  <2>1. /\ hpc[h] = "idle" /\ hpc' = [hpc EXCEPT ![h] = "wantFind"]
        /\ hnode' = [hnode EXCEPT ![h] = n]
    BY <1>1 DEF Heartbeat
  <2>2. m = n /\ m \notin overlapped' => Serving(m) = {}
    BY <1>1 DEF Heartbeat
  <2>3. Serving(m)' = IF m = n THEN Serving(m) \cup {h} ELSE Serving(m)
    BY <2>1
  <2> QED
    BY <2>1, <2>2, <2>3
<1>2. ASSUME ListRequest(h) \/ PeerVanishes(h) \/ UnlockOnFailure(h) \/ SendNodes(h)
      PROVE  Serving(m)' = Serving(m) /\ h \notin Serving(m)
  BY <1>2 DEF ListRequest, PeerVanishes, UnlockOnFailure, SendNodes, Leaves
<1>3. ASSUME HandlerLocks(h) \/ Find(h) PROVE Serving(m)' = Serving(m)
  BY <1>3 DEF HandlerLocks, Find
<1>4. ASSUME Push(h) \/ Update(h) PROVE Serving(m)' = Serving(m) \ {h}
  BY <1>4 DEF Push, Update, Leaves
<1>5. ASSUME Find(h) \/ Push(h) \/ Update(h) PROVE h \in Serving(m) <=> hnode[h] = m
  BY <1>5 DEF Find, Push, Update
<1> QED
  BY <1>1, <1>2, <1>3, <1>4, <1>5

\* A new object is listed for its node, and for no other.
LEMMA ListedPush ==
    ASSUME Types, HeapInv, NEW h \in Handlers, Push(h), NEW m \in Nodes
    PROVE  /\ m # hnode[h] => Listed(m)' = Listed(m)
           /\ m = hnode[h] /\ Listed(m) = {} => \A i, j \in Listed(m)' : i = j
<1>1. PICK o \in Objs : /\ o \notin live /\ vec' = Append(vec, o)
                        /\ node' = [node EXCEPT ![o] = hnode[h]]
  BY DEF Push
<1>2. /\ Len(vec) \in Nat /\ Len(vec') = Len(vec) + 1 /\ vec'[Len(vec) + 1] = o
      /\ \A i \in 1 .. Len(vec) : vec'[i] = vec[i]
  BY <1>1, AppendProperties, LenProperties DEF Types, ObjType
<1>3. ASSUME NEW i \in 1 .. Len(vec)
      PROVE  node'[vec'[i]] = node[vec[i]] /\ i \in 1 .. Len(vec')
  <2>1. vec[i] \in live /\ vec[i] \in Objs
    BY DEF HeapInv, Types, ObjType
  <2> QED
    BY <1>1, <1>2, <2>1 DEF Types, ObjType
<1>4. node'[vec'[Len(vec) + 1]] = hnode[h]
  BY <1>1, <1>2 DEF Types, ObjType
<1>5. \A i \in 1 .. Len(vec') : i \in 1 .. Len(vec) \/ i = Len(vec) + 1
  BY <1>2
<1>6. ASSUME m # hnode[h] PROVE Listed(m)' = Listed(m)
  BY <1>3, <1>4, <1>5, <1>6 DEF Listed
<1>7. ASSUME m = hnode[h], Listed(m) = {} PROVE \A i, j \in Listed(m)' : i = j
  <2>1. Listed(m)' \subseteq {Len(vec) + 1}
    BY <1>3, <1>5, <1>7 DEF Listed
  <2> QED
    BY <2>1
<1> QED
  BY <1>6, <1>7

\* Removing an object lists no node that was not listed, and none again.
LEMMA ListedRemove ==
    ASSUME Types, IdxInv, HeapInv, RemoveNode, NEW m \in Nodes
    PROVE  /\ Listed(m) = {} => Listed(m)' = {}
           /\ (\A i, j \in Listed(m) : i = j) => \A i, j \in Listed(m)' : i = j
<1> DEFINE old(j) == IF j < idx THEN j ELSE j + 1
<1>1. idx \in 1 .. Len(vec) /\ vec' = Without(idx)
      /\ node' = [node EXCEPT ![vec[idx]] = AnyNode]
  BY DEF RemoveNode, IdxInv
<1>2. /\ Len(vec) \in Nat /\ Len(vec') = Len(vec) - 1
      /\ \A j \in 1 .. Len(vec) - 1 : vec'[j] = vec[old(j)]
  BY <1>1, RemoveAtMovesUp, LenProperties DEF Types, ObjType, Without
<1>3. \A j \in 1 .. Len(vec') : old(j) \in 1 .. Len(vec) /\ old(j) # idx
  BY <1>1, <1>2
<1>4. \A i, j \in 1 .. Len(vec') : old(i) = old(j) => i = j
  BY <1>1, <1>2
<1>5. \A j \in 1 .. Len(vec') : vec'[j] = vec[old(j)]
  BY <1>2
<1> HIDE DEF old
<1>6. ASSUME NEW j \in Listed(m)' PROVE j \in 1 .. Len(vec') /\ old(j) \in Listed(m)
  <2>1. j \in 1 .. Len(vec') /\ node'[vec'[j]] = m
    BY DEF Listed
  <2>2. vec'[j] # vec[idx] /\ vec'[j] = vec[old(j)] /\ vec'[j] \in Objs
    BY <1>1, <1>3, <1>5, <2>1, ElementOfSeq DEF HeapInv, Types, ObjType
  <2>3. node[vec[old(j)]] = m
    BY <1>1, <2>1, <2>2 DEF Types, ObjType
  <2> QED
    BY <1>3, <2>1, <2>3 DEF Listed
<1> QED
  BY <1>4, <1>6

LEMMA ServedStep ==
    ASSUME Types, IdxInv, HeapInv, ServedInv, [Next]_vars
    PROVE  ServedInv'
<1> DEFINE Alone(m) == /\ \A g, h \in Serving(m) : g = h
                       /\ \A h \in Serving(m) : hpc[h] \in {"wantPush", "push"} => Listed(m) = {}
                       /\ \A i, j \in Listed(m) : i = j
<1>0. SUFFICES ASSUME NEW m \in Nodes, m \notin overlapped' PROVE Alone(m)'
  BY DEF ServedInv
<1>1. m \notin overlapped /\ Alone(m)
  <2>1. overlapped \subseteq overlapped'
    <3>1. ASSUME NEW h \in Handlers, NEW n \in Nodes, Heartbeat(h, n)
          PROVE  overlapped \subseteq overlapped'
      BY <3>1 DEF Heartbeat
    <3>2. ASSUME NEW h \in Handlers, ListRequest(h) \/ PeerVanishes(h) \/ HandlerLocks(h)
                                       \/ HandlerStep(h)
          PROVE  overlapped' = overlapped
      BY <3>2 DEF ListRequest, PeerVanishes, HandlerLocks, HandlerStep, UnlockOnFailure, Find,
                  Push, Update, SendNodes
    <3>3. CASE SweeperStep \/ SweepLocks \/ PrintLocks \/ Tick \/ UNCHANGED vars
                 \/ (\E n \in Nodes : NodeStops(n))
      BY <3>3 DEF SweeperStep, CheckNode, SpareNode, RemoveNode, PrintUnlocks, SweepEnds,
                  SweepLocks, PrintLocks, Tick, NodeStops, vars
    <3> QED
      BY <3>1, <3>2, <3>3 DEF Next
  <2> QED
    BY <2>1, <1>0 DEF ServedInv
<1>2. ASSUME UNCHANGED <<vec, node>> PROVE Listed(m)' = Listed(m)
  BY <1>2 DEF Listed
<1>3. ASSUME NEW h \in Handlers, NEW n \in Nodes, Heartbeat(h, n) PROVE Alone(m)'
  <2>1. Listed(m)' = Listed(m)
    BY <1>2, <1>3 DEF Heartbeat, objVars
  <2>2. CASE m = n
    <3>1. Serving(m)' = {h} /\ hpc'[h] = "wantFind"
      BY <1>0, <1>3, <2>2, ServingMoves
    <3> QED
      BY <1>1, <2>1, <3>1
  <2>3. CASE m # n
    <3>1. Serving(m)' = Serving(m) /\ h \notin Serving(m)
      BY <1>3, <2>3, ServingMoves
    <3>2. \A g \in Serving(m) : hpc'[g] = hpc[g]
      BY <1>3, <3>1 DEF Heartbeat, Types, HandlerType, Serving
    <3> QED
      BY <1>1, <2>1, <3>1, <3>2
  <2> QED
    BY <2>2, <2>3
<1>4. ASSUME NEW h \in Handlers,
             ListRequest(h) \/ PeerVanishes(h) \/ UnlockOnFailure(h) \/ SendNodes(h)
      PROVE  Alone(m)'
  <2>1. Listed(m)' = Listed(m)
    BY <1>2, <1>4 DEF ListRequest, PeerVanishes, UnlockOnFailure, SendNodes, objVars
  <2>2. Serving(m)' = Serving(m) /\ h \notin Serving(m)
    BY <1>4, ServingMoves
  <2>3. \A g \in Serving(m) : hpc'[g] = hpc[g]
    BY <1>4, <2>2 DEF ListRequest, PeerVanishes, UnlockOnFailure, SendNodes, Leaves,
                      Types, HandlerType, Serving
  <2> QED
    BY <1>1, <2>1, <2>2, <2>3
<1>5. ASSUME NEW h \in Handlers, HandlerLocks(h) PROVE Alone(m)'
  <2>1. Listed(m)' = Listed(m)
    BY <1>2, <1>5 DEF HandlerLocks, objVars
  <2>2. Serving(m)' = Serving(m)
    BY <1>5, ServingMoves
  <2>3. \A g \in Serving(m) : hpc'[g] \in {"wantPush", "push"} => hpc[g] \in {"wantPush", "push"}
    BY <1>5 DEF HandlerLocks, Types, HandlerType, Serving
  <2> QED
    BY <1>1, <2>1, <2>2, <2>3
<1>6. ASSUME NEW h \in Handlers, Find(h) PROVE Alone(m)'
  <2>1. Listed(m)' = Listed(m)
    BY <1>2, <1>6 DEF Find, objVars
  <2>2. Serving(m)' = Serving(m) /\ (h \in Serving(m) <=> hnode[h] = m)
    BY <1>6, ServingMoves
  <2>3. ASSUME NEW g \in Serving(m), hpc'[g] \in {"wantPush", "push"} PROVE Listed(m) = {}
    <3>1. CASE g = h
      <4>1. hnode[h] = m /\ FirstOf(m) = NoObj
        BY <1>6, <2>2, <2>3, <3>1 DEF Find, Types, HandlerType
      <4> QED
        BY <4>1, FirstOfFound, ObjAssumption DEF Types
    <3>2. CASE g # h
      BY <1>1, <1>6, <2>3, <3>2 DEF Find, Types, HandlerType, Serving
    <3> QED
      BY <3>1, <3>2
  <2> QED
    BY <1>1, <2>1, <2>2, <2>3
<1>7. ASSUME NEW h \in Handlers, Push(h) PROVE Alone(m)'
  <2>1. Serving(m)' = Serving(m) \ {h} /\ (h \in Serving(m) <=> hnode[h] = m)
    BY <1>7, ServingMoves
  <2>2. CASE hnode[h] = m
    <3>1. Listed(m) = {} /\ Serving(m)' = {}
      BY <1>1, <1>7, <2>1, <2>2 DEF Push
    <3> QED
      BY <1>7, <2>2, <3>1, ListedPush
  <2>3. CASE hnode[h] # m
    <3>1. Listed(m)' = Listed(m)
      BY <1>7, <2>3, ListedPush
    <3>2. \A g \in Serving(m)' : hpc'[g] = hpc[g]
      BY <1>7, <2>1 DEF Push, Leaves, Types, HandlerType, Serving
    <3> QED
      BY <1>1, <2>1, <3>1, <3>2
  <2> QED
    BY <2>2, <2>3
<1>8. ASSUME NEW h \in Handlers, Update(h) PROVE Alone(m)'
  <2>1. Listed(m)' = Listed(m)
    BY <1>2, <1>8 DEF Update
  <2>2. Serving(m)' = Serving(m) \ {h}
    BY <1>8, ServingMoves
  <2>3. \A g \in Serving(m)' : hpc'[g] = hpc[g]
    BY <1>8, <2>2 DEF Update, Leaves, Types, HandlerType, Serving
  <2> QED
    BY <1>1, <2>1, <2>2, <2>3
<1>9. ASSUME UNCHANGED <<hpc, hnode>> PROVE Serving(m)' = Serving(m)
  BY <1>9 DEF Serving
<1>10. CASE RemoveNode
  <2>1. Serving(m)' = Serving(m) /\ hpc' = hpc
    BY <1>9, <1>10 DEF RemoveNode, hVars
  <2> QED
    BY <1>1, <1>10, <2>1, ListedRemove
<1>11. CASE CheckNode \/ SpareNode \/ SweepLocks \/ SweepEnds \/ PrintLocks \/ PrintUnlocks \/ Tick
               \/ (\E n \in Nodes : NodeStops(n)) \/ UNCHANGED vars
  <2>1. UNCHANGED <<vec, node, hpc, hnode>>
    BY <1>11 DEF CheckNode, SpareNode, SweepLocks, SweepEnds, PrintLocks, PrintUnlocks, Tick,
                 NodeStops, vars, objVars, hVars
  <2> QED
    BY <1>1, <1>2, <1>9, <2>1
<1> QED
  BY <1>3, <1>4, <1>5, <1>6, <1>7, <1>8, <1>10, <1>11 DEF Next, HandlerStep, SweeperStep

-----------------------------------------------------------------------------
(* Theorems. *)

IInv == /\ Types /\ IdxInv /\ HeapInv
        /\ AccountInv /\ FailedInv /\ OwnerInv
        /\ StaleInv /\ ServedInv

LEMMA InitEstablishes == Init => IInv
<1> SUFFICES ASSUME Init PROVE IInv
  OBVIOUS
<1>1. << >> \in Seq(Objs) /\ Len(<< >>) = 0
  BY EmptySeq
<1>2. MutexType
  BY DEF Init, MutexType
<1>3. ObjType
  BY <1>1, ConstantFacts DEF Init, ObjType
<1>4. HandlerType
  BY ConstantFacts DEF Init, HandlerType
<1>5. touched \in BOOLEAN
  BY DEF Init
<1>6. SweepType
  BY <1>5, ConstantFacts DEF Init, SweepType
<1>7. NodeType
  BY ConstantFacts DEF Init, NodeType
<1>8. IdxInv /\ StaleInv
  BY DEF Init, IdxInv, StaleInv
<1>9. HeapInv
  BY <1>1 DEF Init, HeapInv
<1>10. Inside = {} /\ Failed = {} /\ ~ SweeperInside
  BY DEF Init, Inside, Failed, SweeperInside
<1>11. AccountInv /\ FailedInv
  BY <1>10, FS_EmptySet DEF Init, AccountInv, FailedInv, SweeperHolds, SweeperInside
<1>12. OwnerInv
  BY <1>10, ThreadAssumption DEF Init, OwnerInv, Threads
<1>13. ServedInv
  BY <1>1 DEF Init, ServedInv, Serving, Listed
<1> QED
  BY <1>2, <1>3, <1>4, <1>6, <1>7, <1>8, <1>9, <1>11, <1>12, <1>13 DEF IInv, Types

\* The inductive invariant holds throughout.
LEMMA Inductive == Spec => []IInv
<1>1. IInv /\ [Next]_vars => IInv'
  <2> SUFFICES ASSUME IInv, [Next]_vars PROVE IInv'
    OBVIOUS
  <2> USE DEF IInv
  <2>1. Types' /\ IdxInv' /\ HeapInv'
    BY TypeStep, IdxStep, HeapStep
  <2>2. AccountInv' /\ FailedInv' /\ OwnerInv'
    BY AccountStep, FailedStep, OwnerStep
  <2>3. StaleInv' /\ ServedInv'
    BY StaleStep, ServedStep
  <2> QED
    BY <2>1, <2>2, <2>3
<1> QED
  BY <1>1, InitEstablishes, PTL DEF Spec

\* Every variable holds what its declaration in the code allows.
THEOREM TypeCorrect == Spec => []TypeOK
<1>1. IInv => TypeOK
  BY TypeSplit DEF IInv
<1> QED
  BY <1>1, Inductive, PTL

\* As long as no handler has failed, the mutex that is locked twice and unlocked
\* by whoever likes does what a mutex is for.
THEOREM MutualExclusion == Spec => []Exclusion
<1>1. IInv => Exclusion
  <2> SUFFICES ASSUME IInv, aborts = 0
               PROVE  Cardinality(Inside) <= 1 /\ (SweeperInside => Inside = {})
    BY DEF Exclusion
  <2>1. Inside = {} \/ (Inside = {owner} /\ ~ SweeperInside)
    BY DEF IInv, OwnerInv, Types, MutexType, Threads
  <2>2. Cardinality({}) = 0 /\ Cardinality({owner}) = 1
    BY FS_EmptySet, FS_Singleton
  <2> QED
    BY <2>1, <2>2
<1> QED
  BY <1>1, Inductive, PTL

\* The count of the mutex is the number of locks held, less one for every
\* handler that failed.
THEOREM CountIsAccount == Spec => []LockAccount
<1>1. IInv => LockAccount
  BY DEF IInv, AccountInv, LockAccount, SweeperHolds, Failed
<1> QED
  BY <1>1, Inductive, PTL

\* The vector lists each live object once, and no deleted one, even when the
\* mutex no longer excludes anybody.
THEOREM VectorIsHeap == Spec => []VectorMatchesHeap
<1>1. IInv => VectorMatchesHeap
  <2> SUFFICES ASSUME IInv PROVE ToSet(vec) = live /\ IsInjective(vec)
    BY DEF VectorMatchesHeap
  <2>1. DOMAIN vec = 1 .. Len(vec)
    BY LenProperties DEF IInv, Types, ObjType
  <2> QED
    BY <2>1 DEF IInv, HeapInv, ToSet, IsInjective
<1> QED
  BY <1>1, Inductive, PTL

\* A node whose connections never overlapped is listed once at most.
THEOREM NodesListedOnce == Spec => []ListedOnce
<1>1. IInv => ListedOnce
  <2> SUFFICES ASSUME IInv, NEW n \in Nodes \ overlapped
               PROVE  Cardinality(Listed(n)) <= 1
    BY DEF ListedOnce
  <2>1. \A i, j \in Listed(n) : i = j
    BY DEF IInv, ServedInv
  <2>2. Listed(n) = {} \/ \E i : Listed(n) = {i}
    BY <2>1
  <2>3. Cardinality({}) = 0 /\ \A i : Cardinality({i}) = 1
    BY FS_EmptySet, FS_Singleton
  <2>4. Cardinality(Listed(n)) = 0 \/ Cardinality(Listed(n)) = 1
    BY <2>2, <2>3
  <2> QED
    BY <2>4
<1> QED
  BY <1>1, Inductive, PTL

\* What nodeIsDead found dead is older than MAX_TIME_ALIVE, unless it was renewed.
LEMMA StaleRemoved ==
    ASSUME IInv, RemoveNode, ~ touched
    PROVE  age[vec[idx]] > MaxAge
<1> DEFINE a == age[vec[idx]]
<1>1. /\ spc \in {"now", "last"} /\ (spc = "now" => DeadByNow) /\ (spc = "last" => DeadByLast)
  BY DEF RemoveNode, Dead
<1>2. a = IF seen + lag < AgeCap THEN seen + lag ELSE AgeCap
  BY <1>1 DEF IInv, StaleInv
<1>3. /\ seen \in Nat /\ seen <= AgeCap /\ lag \in Nat /\ lag <= MaxLag
      /\ MaxAge \in Nat /\ MaxLag \in Nat /\ AgeCap = MaxAge + MaxLag + 1
  BY NumberAssumption DEF IInv, Types, SweepType, AgeCap
<1>4. (spc = "now" => a < lag \/ a - lag > MaxAge) /\ (spc = "last" => seen + lag > MaxAge)
  BY <1>1 DEF DeadByNow, DeadByLast
<1> QED
  BY <1>1, <1>2, <1>3, <1>4

\* Only what is older than MAX_TIME_ALIVE is removed, or what was renewed while
\* nodeIsDead computed.
THEOREM OnlyStaleRemoved == Spec => RemovedOnlyIfStale
<1>1. IInv /\ [Next]_vars => [RemoveNode => age[vec[idx]] > MaxAge \/ touched]_vars
  BY StaleRemoved
<1> QED
  BY <1>1, Inductive, PTL DEF Spec, RemovedOnlyIfStale

-----------------------------------------------------------------------------
(* When a heartbeat is lost. *)

\* While no heartbeat was lost: what a handler found for its node is still listed for it,
\* or the node was silent for too long; an object is not older than its node's silence;
\* and after a write during nodeIsDead the next heartbeat of that node waits for the sweep.
Owned(n, o) == o \in live /\ node[o] = n
FoundAt(n)  == \A h \in Serving(n) : hpc[h] = "update" => Owned(n, hobj[h]) \/ silent[n] > MaxAge
SilentAt(n) == \A o \in live : node[o] = n => age[o] <= silent[n]
TouchAt(n)  == spc \in {"now", "last"} /\ touched /\ node[vec[idx]] = n =>
                   \A h \in Serving(n) : hpc[h] = "wantFind"
PunctualAt(n) == FoundAt(n) /\ SilentAt(n) /\ TouchAt(n)
PunctualInv == lost = {} /\ aborts = 0 => \A n \in Nodes \ overlapped : PunctualAt(n)

LEMMA OnlyMore ==
    ASSUME Types, [Next]_vars
    PROVE  /\ lost \subseteq lost' /\ overlapped \subseteq overlapped'
           /\ aborts' = 0 => aborts = 0
<1>1. ASSUME NEW h \in Handlers, NEW n \in Nodes, Heartbeat(h, n)
      PROVE  overlapped \subseteq overlapped' /\ lost' = lost /\ aborts' = aborts
  BY <1>1 DEF Heartbeat
<1>2. ASSUME NEW h \in Handlers, PeerVanishes(h)
      PROVE  overlapped' = overlapped /\ lost' = lost /\ aborts' = aborts + 1
  BY <1>2 DEF PeerVanishes
<1>3. ASSUME NEW h \in Handlers, Update(h)
      PROVE  overlapped' = overlapped /\ lost \subseteq lost' /\ aborts' = aborts
  BY <1>3 DEF Update
<1>4. ASSUME NEW h \in Handlers, ListRequest(h) \/ HandlerLocks(h) \/ UnlockOnFailure(h)
                                   \/ Find(h) \/ Push(h) \/ SendNodes(h)
      PROVE  overlapped' = overlapped /\ lost' = lost /\ aborts' = aborts
  BY <1>4 DEF ListRequest, HandlerLocks, UnlockOnFailure, Find, Push, SendNodes
<1>5. CASE SweeperStep \/ SweepLocks \/ PrintLocks \/ Tick \/ UNCHANGED vars
             \/ (\E n \in Nodes : NodeStops(n))
  BY <1>5 DEF SweeperStep, CheckNode, SpareNode, RemoveNode, PrintUnlocks, SweepEnds,
              SweepLocks, PrintLocks, Tick, NodeStops, vars
<1>6. aborts \in Nat
  BY ConstantFacts DEF Types, NodeType
<1> QED
  BY <1>1, <1>2, <1>3, <1>4, <1>5, <1>6 DEF Next, HandlerStep

\* While nodeIsDead computes, no other thread has the mutex.
LEMMA SweepAlone ==
    ASSUME Types, OwnerInv, aborts = 0, spc \in {"now", "last"}
    PROVE  \A h \in Handlers : ~ HandlerLocks(h) /\ ~ Find(h) /\ ~ Push(h)
<1>1. SweeperInside
  BY DEF SweeperInside
<1>2. Inside = {} /\ owner = Sweeper
  BY <1>1 DEF OwnerInv, Types, MutexType, Threads
<1>3. \A h \in Handlers : h # Sweeper /\ Sweeper # NoThread
  BY ThreadAssumption DEF Threads
<1> QED
  BY <1>2, <1>3 DEF HandlerLocks, Lock, CanLock, Find, Push, Inside

\* A live object of a node is one of its listed ones.
LEMMA OwnedListed ==
    ASSUME HeapInv, NEW n, NEW o, Owned(n, o)
    PROVE  \E i \in Listed(n) : vec[i] = o
  BY DEF HeapInv, Owned, Listed

LEMMA SilenceGrows ==
    ASSUME Types, NEW a \in 0 .. AgeCap, NEW b \in 0 .. AgeCap
    PROVE  /\ a <= b => Older(a) <= Older(b)
           /\ a > MaxAge => Older(a) > MaxAge
  BY NumberAssumption DEF Older, AgeCap

LEMMA FrameAt ==
    ASSUME NEW m \in Nodes, PunctualAt(m), UNCHANGED <<live, node, age, silent>>,
           Serving(m)' \subseteq Serving(m),
           \A g \in Serving(m)' : /\ hpc'[g] = "update" => hpc[g] = "update" /\ hobj'[g] = hobj[g]
                                  /\ spc' \in {"now", "last"} /\ touched' => hpc'[g] = hpc[g],
           spc' \in {"now", "last"} /\ touched' => /\ spc \in {"now", "last"} /\ touched
                                                   /\ vec'[idx'] = vec[idx]
    PROVE  PunctualAt(m)'
<1>1. FoundAt(m)'
  BY DEF PunctualAt, FoundAt, Owned
<1>2. SilentAt(m)'
  BY DEF PunctualAt, SilentAt
<1>3. TouchAt(m)'
  BY DEF PunctualAt, TouchAt
<1> QED
  BY <1>1, <1>2, <1>3 DEF PunctualAt

LEMMA PunctualStep ==
    ASSUME IInv, PunctualInv, [Next]_vars
    PROVE  PunctualInv'
<1> SUFFICES ASSUME lost' = {}, aborts' = 0, NEW m \in Nodes \ overlapped'
             PROVE  PunctualAt(m)'
  BY DEF PunctualInv
<1>0. /\ Types /\ IdxInv /\ HeapInv /\ OwnerInv /\ StaleInv /\ ServedInv
      /\ lost = {} /\ aborts = 0 /\ m \in Nodes /\ m \notin overlapped
      /\ m \notin overlapped'
  BY OnlyMore DEF IInv
<1>1. /\ PunctualAt(m)
      /\ \A g, h \in Serving(m) : g = h
      /\ \A h \in Serving(m) : hpc[h] \in {"wantPush", "push"} => Listed(m) = {}
      /\ \A i, j \in Listed(m) : i = j
  BY <1>0 DEF PunctualInv, ServedInv
<1>2. ASSUME NEW h \in Handlers, NEW n \in Nodes, Heartbeat(h, n) PROVE PunctualAt(m)'
  <2>1. UNCHANGED <<live, node, age, silent, vec, idx, spc, touched>>
    BY <1>2 DEF Heartbeat, objVars, sVars
  <2>2. CASE m = n
    <3>1. Serving(m)' = {h} /\ hpc'[h] = "wantFind"
      BY <1>0, <1>2, <2>2, ServingMoves
    <3>2. SilentAt(m)'
      BY <1>1, <2>1 DEF PunctualAt, SilentAt
    <3> QED
      BY <3>1, <3>2 DEF PunctualAt, FoundAt, TouchAt
  <2>3. CASE m # n
    <3>1. Serving(m)' = Serving(m) /\ h \notin Serving(m)
      BY <1>0, <1>2, <2>3, ServingMoves
    <3>2. \A g \in Serving(m) : hpc'[g] = hpc[g] /\ hobj'[g] = hobj[g]
      BY <1>0, <1>2, <3>1 DEF Heartbeat, Types, HandlerType, Serving
    <3> QED
      BY <1>1, <2>1, <3>1, <3>2, FrameAt
  <2> QED
    BY <2>2, <2>3
<1>3. ASSUME NEW h \in Handlers,
             ListRequest(h) \/ PeerVanishes(h) \/ UnlockOnFailure(h) \/ SendNodes(h)
      PROVE  PunctualAt(m)'
  <2>1. UNCHANGED <<live, node, age, silent, vec, idx, spc, touched>>
    BY <1>3 DEF ListRequest, PeerVanishes, UnlockOnFailure, SendNodes, objVars, sVars
  <2>2. Serving(m)' = Serving(m) /\ h \notin Serving(m)
    BY <1>0, <1>3, ServingMoves
  <2>3. \A g \in Serving(m) : hpc'[g] = hpc[g] /\ hobj'[g] = hobj[g]
    BY <1>0, <1>3, <2>2 DEF ListRequest, PeerVanishes, UnlockOnFailure, SendNodes, Leaves,
                            Types, HandlerType, Serving
  <2> QED
    BY <1>1, <2>1, <2>2, <2>3, FrameAt
<1>4. ASSUME NEW h \in Handlers, HandlerLocks(h) PROVE PunctualAt(m)'
  <2>1. UNCHANGED <<live, node, age, silent, vec, idx, spc, touched, hobj>>
        /\ spc \notin {"now", "last"}
    BY <1>0, <1>4, SweepAlone DEF HandlerLocks, objVars, sVars
  <2>2. Serving(m)' = Serving(m)
    BY <1>0, <1>4, ServingMoves
  <2>3. \A g \in Serving(m) : hpc'[g] = "update" => hpc[g] = "update"
    BY <1>0, <1>4 DEF HandlerLocks, Types, HandlerType, Serving
  <2> QED
    BY <1>1, <2>1, <2>2, <2>3, FrameAt
<1>5. ASSUME NEW h \in Handlers, Find(h) PROVE PunctualAt(m)'
  <2>1. UNCHANGED <<live, node, age, silent, vec, idx, spc, touched>>
        /\ spc \notin {"now", "last"}
    BY <1>0, <1>5, SweepAlone DEF Find, objVars, sVars
  <2>2. Serving(m)' = Serving(m) /\ (h \in Serving(m) <=> hnode[h] = m)
    BY <1>0, <1>5, ServingMoves
  <2>3. ASSUME NEW g \in Serving(m), hpc'[g] = "update"
        PROVE  Owned(m, hobj'[g]) \/ silent[m] > MaxAge
    <3>1. CASE g = h
      <4>1. hnode[h] = m /\ FirstOf(m) # NoObj /\ hobj'[h] = FirstOf(m)
        BY <1>0, <1>5, <2>2, <2>3, <3>1 DEF Find, Types, HandlerType
      <4>2. \E i \in Listed(m) : FirstOf(m) = vec[i]
        BY <1>0, <4>1, FirstOfFound DEF Types
      <4> QED
        BY <1>0, <3>1, <4>1, <4>2 DEF Owned, Listed, HeapInv
    <3>2. CASE g # h
      <4>1. hpc[g] = "update" /\ hobj'[g] = hobj[g]
        BY <1>0, <1>5, <2>3, <3>2 DEF Find, Types, HandlerType, Serving
      <4> QED
        BY <1>1, <4>1 DEF PunctualAt, FoundAt
    <3> QED
      BY <3>1, <3>2
  <2>4. SilentAt(m)'
    BY <1>1, <2>1 DEF PunctualAt, SilentAt
  <2> QED
    BY <2>1, <2>2, <2>3, <2>4 DEF PunctualAt, FoundAt, TouchAt, Owned
<1>6. ASSUME NEW h \in Handlers, Push(h) PROVE PunctualAt(m)'
  <2>0. Serving(m)' = Serving(m) \ {h} /\ (h \in Serving(m) <=> hnode[h] = m)
    BY <1>0, <1>6, ServingMoves
  <2>1. spc' = spc /\ spc \notin {"now", "last"}
    BY <1>0, <1>6, SweepAlone DEF Push, sVars
  <2>2. PICK o \in Objs : /\ o \notin live /\ live' = live \cup {o}
                          /\ node' = [node EXCEPT ![o] = hnode[h]]
                          /\ age' = [age EXCEPT ![o] = 0]
    BY <1>6 DEF Push
  <2>3. /\ silent' = [silent EXCEPT ![hnode[h]] = 0] /\ hpc[h] = "push"
        /\ \A g \in Handlers : g # h => hpc'[g] = hpc[g] /\ hobj'[g] = hobj[g]
    BY <1>0, <1>6 DEF Push, Leaves, Types, HandlerType
  <2>4. \A x \in live : x \in live' /\ node'[x] = node[x] /\ age'[x] = age[x]
    BY <1>0, <2>2 DEF Types, ObjType
  <2>5. node'[o] = hnode[h] /\ age'[o] = 0
    BY <1>0, <2>2 DEF Types, ObjType
  <2>6. TouchAt(m)'
    BY <2>1 DEF TouchAt
  <2>7. CASE hnode[h] = m
    <3>1. Listed(m) = {} /\ Serving(m)' = {}
      BY <1>1, <2>0, <2>3, <2>7
    <3>2. \A x \in live : node[x] # m
      BY <1>0, <3>1, OwnedListed DEF Owned
    <3>3. silent'[m] = 0
      BY <1>0, <2>3, <2>7 DEF Types, NodeType
    <3>4. SilentAt(m)'
      BY <2>2, <2>4, <2>5, <3>2, <3>3 DEF SilentAt
    <3> QED
      BY <2>6, <3>1, <3>4 DEF PunctualAt, FoundAt
  <2>8. CASE hnode[h] # m
    <3>1. silent'[m] = silent[m]
      BY <1>0, <2>3, <2>8 DEF Types, NodeType
    <3>2. SilentAt(m)'
      BY <1>1, <2>2, <2>4, <2>5, <2>8, <3>1 DEF PunctualAt, SilentAt
    <3>3. \A g \in Serving(m)' : g \in Handlers /\ g # h /\ g \in Serving(m)
      BY <2>0 DEF Serving
    <3>4. FoundAt(m)'
      BY <1>1, <2>3, <2>4, <3>1, <3>3 DEF PunctualAt, FoundAt, Owned
    <3> QED
      BY <2>6, <3>2, <3>4 DEF PunctualAt
  <2> QED
    BY <2>7, <2>8
<1>7. ASSUME NEW h \in Handlers, Update(h) PROVE PunctualAt(m)'
  <2>0. Serving(m)' = Serving(m) \ {h} /\ (h \in Serving(m) <=> hnode[h] = m)
    BY <1>0, <1>7, ServingMoves
  <2>1. Owned(hnode[h], hobj[h])
    BY <1>7 DEF Update, Owned
  <2>2. /\ age' = [age EXCEPT ![hobj[h]] = 0]
        /\ silent' = [silent EXCEPT ![hnode[h]] = 0]
        /\ touched' = (touched \/ Checking(hobj[h]))
        /\ UNCHANGED <<live, node, vec, spc, idx>>
        /\ \A g \in Handlers : g # h => hpc'[g] = hpc[g] /\ hobj'[g] = hobj[g]
    BY <1>0, <1>7, <2>1 DEF Update, Leaves, Types, HandlerType, Owned
  <2>3. \A g \in Serving(m)' : g \in Handlers /\ g # h /\ g \in Serving(m)
    BY <2>0 DEF Serving
  <2>4. CASE hnode[h] = m
    <3>1. Serving(m)' = {}
      BY <1>1, <2>0, <2>4
    <3>2. \A o \in live : node[o] = m => o = hobj[h]
      BY <1>0, <1>1, <2>1, <2>4, OwnedListed DEF Owned
    <3>3. age'[hobj[h]] = 0 /\ silent'[m] = 0
      BY <1>0, <2>1, <2>2, <2>4 DEF Types, ObjType, NodeType, Owned
    <3>4. SilentAt(m)'
      BY <2>2, <3>2, <3>3 DEF SilentAt
    <3> QED
      BY <3>1, <3>4 DEF PunctualAt, FoundAt, TouchAt
  <2>5. CASE hnode[h] # m
    <3>1. silent'[m] = silent[m]
      BY <1>0, <2>2, <2>5 DEF Types, NodeType
    <3>2. \A o \in live : node[o] = m => age'[o] = age[o]
      BY <1>0, <2>1, <2>2, <2>5 DEF Types, ObjType, Owned
    <3>3. SilentAt(m)'
      BY <1>1, <2>2, <3>1, <3>2 DEF PunctualAt, SilentAt
    <3>4. FoundAt(m)'
      BY <1>1, <2>2, <2>3, <3>1 DEF PunctualAt, FoundAt, Owned
    <3>5. TouchAt(m)'
      <4>1. node[vec[idx]] = m => ~ Checking(hobj[h])
        BY <2>1, <2>5 DEF Checking, Owned
      <4> QED
        BY <1>1, <2>2, <2>3, <4>1 DEF PunctualAt, TouchAt
    <3> QED
      BY <3>3, <3>4, <3>5 DEF PunctualAt
  <2> QED
    BY <2>4, <2>5
<1>8. ASSUME UNCHANGED <<hpc, hnode>> PROVE Serving(m)' = Serving(m)
  BY <1>8 DEF Serving
<1>9. CASE RemoveNode
  <2>1. /\ live' = live \ {vec[idx]} /\ silent' = silent /\ spc' = "print"
        /\ UNCHANGED <<hpc, hnode, hobj>>
    BY <1>9 DEF RemoveNode, hVars
  <2>2. \A o \in live' : o \in live /\ node'[o] = node[o] /\ age'[o] = age[o]
    BY <1>0, <1>9, <2>1 DEF RemoveNode, Types, ObjType
  <2>3. SilentAt(m)'
    BY <1>1, <2>1, <2>2 DEF PunctualAt, SilentAt
  <2>4. ASSUME NEW g \in Serving(m), hpc[g] = "update", Owned(m, vec[idx]) PROVE silent[m] > MaxAge
    <3>1. spc \in {"now", "last"}
      BY <1>9 DEF RemoveNode
    <3>2. ~ touched
      BY <1>1, <2>4, <3>1 DEF PunctualAt, TouchAt, Owned
    <3>3. age[vec[idx]] > MaxAge
      BY <1>9, <3>2, StaleRemoved
    <3>4. age[vec[idx]] <= silent[m]
      BY <1>1, <2>4 DEF PunctualAt, SilentAt, Owned
    <3>5. age[vec[idx]] \in Nat
      BY <1>0, <2>4 DEF Types, ObjType, Owned
    <3>6. silent[m] \in Nat
      BY <1>0 DEF Types, NodeType
    <3>7. MaxAge \in Nat
      BY ConstantFacts
    <3> HIDE DEF Owned
    <3> QED
      BY <3>3, <3>4, <3>5, <3>6, <3>7
  <2>5. FoundAt(m)'
    <3> SUFFICES ASSUME NEW g \in Serving(m), hpc[g] = "update", ~ (silent[m] > MaxAge)
                 PROVE  Owned(m, hobj[g])'
      BY <1>8, <2>1 DEF FoundAt, Owned
    <3>1. Owned(m, hobj[g]) /\ hobj[g] # vec[idx]
      BY <1>1, <2>4 DEF PunctualAt, FoundAt
    <3> QED
      BY <2>1, <2>2, <3>1 DEF Owned
  <2> QED
    BY <2>1, <2>3, <2>5 DEF PunctualAt, TouchAt
<1>10. CASE CheckNode \/ SpareNode \/ SweepLocks \/ SweepEnds \/ PrintLocks \/ PrintUnlocks
               \/ (\E n \in Nodes : NodeStops(n)) \/ UNCHANGED vars
  <2>1. UNCHANGED <<live, node, age, silent, hpc, hnode, hobj>>
    BY <1>10 DEF CheckNode, SpareNode, SweepLocks, SweepEnds, PrintLocks, PrintUnlocks,
                 NodeStops, vars, objVars, hVars
  <2>2. spc' \in {"now", "last"} /\ touched' => UNCHANGED <<spc, touched, vec, idx>>
    BY <1>10 DEF CheckNode, SpareNode, SweepLocks, SweepEnds, PrintLocks, PrintUnlocks,
                 NodeStops, vars, objVars, sVars, Checked
  <2> QED
    BY <1>1, <1>8, <2>1, <2>2, FrameAt
<1>11. CASE Tick
  <2>1. UNCHANGED <<live, node, vec, spc, idx, touched, hpc, hnode, hobj>>
    BY <1>11 DEF Tick, hVars
  <2>2. /\ \A o \in live : age'[o] = Older(age[o]) /\ age[o] \in 0 .. AgeCap
        /\ silent'[m] = Older(silent[m]) /\ silent[m] \in 0 .. AgeCap
    BY <1>0, <1>11 DEF Tick, Types, ObjType, NodeType
  <2>3. SilentAt(m)'
    BY <1>0, <1>1, <2>1, <2>2, SilenceGrows DEF PunctualAt, SilentAt
  <2>4. silent[m] > MaxAge => silent'[m] > MaxAge
    BY <1>0, <2>2, SilenceGrows
  <2>5. FoundAt(m)'
    BY <1>1, <1>8, <2>1, <2>4 DEF PunctualAt, FoundAt, Owned
  <2>6. TouchAt(m)'
    BY <1>1, <1>8, <2>1 DEF PunctualAt, TouchAt
  <2> QED
    BY <2>3, <2>5, <2>6 DEF PunctualAt
<1> QED
  BY <1>2, <1>3, <1>4, <1>5, <1>6, <1>7, <1>9, <1>10, <1>11 DEF Next, HandlerStep, SweeperStep

\* A heartbeat is written to a deleted object, or to another node's, only if its node was
\* silent for longer than MAX_TIME_ALIVE or overlapped its own connections, while no
\* handler failed and no such heartbeat came before.
THEOREM PunctualCounts == Spec => PunctualHeartbeatCounts
<1>1. Init => PunctualInv
  BY DEF Init, PunctualInv, PunctualAt, FoundAt, SilentAt, TouchAt, Serving
<1>2. IInv /\ PunctualInv /\ [Next]_vars => PunctualInv'
  BY PunctualStep
<1>3. IInv /\ PunctualInv /\ [Next]_vars
        => [lost = {} /\ aborts = 0 =>
               \A n \in lost' : silent[n] > MaxAge \/ n \in overlapped]_vars
  <2> SUFFICES ASSUME IInv, PunctualInv, Next, lost = {}, aborts = 0, NEW n \in lost',
                      n \notin overlapped
               PROVE  silent[n] > MaxAge
    OBVIOUS
  <2>1. PICK h \in Handlers : Update(h)
    BY DEF Next, Heartbeat, ListRequest, PeerVanishes, HandlerLocks, HandlerStep,
           UnlockOnFailure, Find, Push, SendNodes, SweepLocks, PrintLocks, SweeperStep,
           CheckNode, SpareNode, RemoveNode, PrintUnlocks, SweepEnds, Tick, NodeStops
  <2>2. n = hnode[h] /\ hpc[h] = "update" /\ ~ Owned(n, hobj[h])
    BY <2>1 DEF Update, Owned
  <2>3. n \in Nodes /\ h \in Serving(n)
    BY <2>2 DEF Serving, IInv, Types, HandlerType
  <2> QED
    BY <2>2, <2>3 DEF PunctualInv, PunctualAt, FoundAt
<1> QED
  BY <1>1, <1>2, <1>3, Inductive, PTL DEF Spec, PunctualHeartbeatCounts

\* The sweep removes a node that is not silent only if a heartbeat was written while
\* nodeIsDead computed, the node overlapped its own connections, a heartbeat was lost or
\* a handler failed.
THEOREM RemovedWasSilent ==
    Spec => [][RemoveNode => \/ silent[node[vec[idx]]] > MaxAge
                             \/ touched \/ node[vec[idx]] \in overlapped
                             \/ lost # {} \/ aborts > 0]_vars
<1>1. Init => PunctualInv
  BY DEF Init, PunctualInv, PunctualAt, FoundAt, SilentAt, TouchAt, Serving
<1>2. IInv /\ PunctualInv /\ [Next]_vars => PunctualInv'
  BY PunctualStep
<1>3. IInv /\ PunctualInv /\ [Next]_vars
        => [RemoveNode => \/ silent[node[vec[idx]]] > MaxAge
                          \/ touched \/ node[vec[idx]] \in overlapped
                          \/ lost # {} \/ aborts > 0]_vars
  <2> SUFFICES ASSUME IInv, PunctualInv, RemoveNode, ~ touched, lost = {}, ~ (aborts > 0),
                      node[vec[idx]] \notin overlapped
               PROVE  silent[node[vec[idx]]] > MaxAge
    OBVIOUS
  <2> DEFINE o == vec[idx]
             n == node[o]
  <2>1. idx \in 1 .. Len(vec)
    BY DEF RemoveNode, IInv, IdxInv
  <2>2. o \in live
    BY <2>1 DEF IInv, HeapInv
  <2>3. n \in Nodes \ overlapped
    BY <2>2 DEF IInv, Types, ObjType
  <2>4. aborts = 0
    BY ConstantFacts DEF IInv, Types, NodeType
  <2>5. age[o] <= silent[n]
    BY <2>2, <2>3, <2>4 DEF PunctualInv, PunctualAt, SilentAt
  <2>6. age[o] > MaxAge
    BY StaleRemoved
  <2>7. age[o] \in Nat /\ silent[n] \in Nat /\ MaxAge \in Nat
    BY <2>2, <2>3, ConstantFacts, NumberAssumption DEF IInv, Types, ObjType, NodeType
  <2> QED
    BY <2>5, <2>6, <2>7
<1> QED
  BY <1>1, <1>2, <1>3, Inductive, PTL DEF Spec

\* As long as no handler fails, the mutex belongs to a thread that still has to unlock it,
\* never to one that ended, and when nobody holds it its count is zero.
THEOREM NeverOrphaned ==
    Spec => [](aborts = 0 => /\ owner \in Inside \cup {NoThread, Sweeper}
                             /\ owner = Sweeper <=> SweeperInside
                             /\ owner = NoThread <=> count = 0)
<1>1. IInv => (aborts = 0 => /\ owner \in Inside \cup {NoThread, Sweeper}
                             /\ owner = Sweeper <=> SweeperInside
                             /\ owner = NoThread <=> count = 0)
  BY ThreadAssumption
     DEF IInv, OwnerInv, Types, MutexType, Threads, SweeperHolds, SweeperInside
<1> QED
  BY <1>1, Inductive, PTL
=============================================================================
