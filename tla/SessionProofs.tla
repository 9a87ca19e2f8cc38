---------------------------- MODULE SessionProofs ---------------------------
(***************************************************************************)
(* Proofs about Session, for any number of sessions, designs and messages   *)
(* and any timeouts: the types, which session can stop another, when a path *)
(* expires, what a session can rely on, and what misuse of memory takes.    *)
(***************************************************************************)
EXTENDS Session, FiniteSetTheorems, TLAPS

-----------------------------------------------------------------------------
(* The inductive invariant. *)

Types ==
    /\ stopElectron \in BOOLEAN
    /\ designs \in 0 .. MaxEvents /\ path \in 0 .. designs
    /\ timers \in Nat /\ age \in Nat
    /\ owner \in Sessions \cup {None, Dead}
    /\ pc \in [Sessions -> {"out", "loop", "gone", "check", "stop", "cut", "return", "name",
                            "age", "handshake", "connect", "reconnect", "send", "layers",
                            "ended"}]
    /\ complete \in [Sessions -> BOOLEAN]
    /\ kind \in [Sessions -> {"addr", "user"}]
    /\ entry \in [Sessions -> 0 .. designs]
    /\ active \in [Sessions -> BOOLEAN] /\ freed \in [Sessions -> BOOLEAN]
    /\ quiet \in [Sessions -> -1 .. ElectronTimeout + 1]
    /\ rpc \in [Sessions -> {"none", "look", "read", "ended"}]
    /\ rconn \in [Sessions -> 0 .. designs]
    /\ rcurrent \in [Sessions -> BOOLEAN]
    /\ pushed \in 0 .. MaxEvents /\ queue \in 0 .. pushed
    /\ qpc \in [Sessions -> {"none", "look", "front", "pop", "ended"}]
    /\ since \in 0 .. PathTimeout + 1
    /\ crowded \in BOOLEAN /\ expired \in BOOLEAN /\ failed \in BOOLEAN
    /\ overlapped \subseteq Sessions
    /\ ub \in {"none", "slot", "freed", "queue"}

\* Each design starts one timer, those that are under way included.
Pending == {s \in Sessions : pc[s] \in {"age", "handshake"}}
CountInv == /\ timers + Cardinality(Pending) <= designs
            /\ age + timers + Cardinality(Pending) <= PathTimeout + designs

\* A lone timer counts seconds.
TimerInv == /\ timers >= 2 => crowded
            /\ ~ crowded => age <= since \/ since >= PathTimeout
            /\ age > PathTimeout => expired

\* What has not begun has left no trace.
BegunInv ==
    /\ \A s \in Sessions : ~ Begun(s) =>
           qpc[s] = "none" /\ rpc[s] = "none" /\ ~ complete[s] /\ entry[s] = 0
    /\ \A s \in Sessions : Begun(s) => rpc[s] # "none"
    /\ \A s \in Sessions : pc[s] = "ended" => ~ complete[s]
    /\ owner # None => \E s \in Sessions : Begun(s)
    /\ \A s \in Sessions : pc[s] \in {"age", "handshake", "connect", "reconnect"} => designs >= 1

\* Two sessions that run overlap; only such a session is stopped by another.
OverlapInv ==
    /\ \A s, t \in Sessions : s # t /\ Running(s) /\ Running(t) => s \in overlapped
    /\ stopElectron => \A s \in Sessions :
          Running(s) /\ pc[s] \notin {"return", "stop", "cut"} => s \in overlapped

\* As long as there has been one session only, it has set the flag when it ends,
\* and its sender alone takes messages from the queue.
Alone == \A s, t \in Sessions : Begun(s) /\ Begun(t) => s = t
Ending == {"return", "stop", "cut", "ended"}
AloneInv ==
    Alone => /\ \A s \in Sessions : pc[s] \in Ending => stopElectron
             /\ stopElectron => path = 0 /\ \A s \in Sessions : pc[s] \in Ending \cup {"out"}
             /\ \A s \in Sessions : qpc[s] \in {"front", "pop"} => queue > 0

\* The entry connection and the thread that reads from it.
EntryInv ==
    /\ ~ failed => \A s \in Sessions : ~ freed[s] /\ (entry[s] # 0 => active[s])
    /\ \A s \in Sessions : rpc[s] = "read" => rconn[s] # 0
    /\ \A s \in Sessions : rcurrent[s] => entry[s] # 0 \/ pc[s] = "ended"

\* The connection of a session leads to the path, once the design is complete.
LayerInv ==
    \A s \in Sessions : s \notin overlapped /\ ~ expired =>
        /\ pc[s] \in {"send", "layers"} => path = entry[s]
        /\ complete[s] /\ path # 0 /\ pc[s] \notin {"age", "handshake", "connect"} =>
              path = entry[s]

\* In an undisturbed session the mutex or the receiver is lost only with the path.
Sole(s) == Begun(s) /\ \A t \in Sessions : Begun(t) => t = s
QuietInv ==
    \A s \in Sessions : Sole(s) /\ designs <= 1 /\ ~ expired /\ ~ failed =>
        /\ owner # None => designs = 1 /\ path = 0
        /\ rpc[s] = "ended" => path = 0 /\ (designs = 1 \/ stopElectron)

IInv == /\ Types /\ CountInv /\ TimerInv /\ BegunInv /\ OverlapInv /\ AloneInv /\ EntryInv
        /\ LayerInv /\ QuietInv /\ MisuseHasCause

-----------------------------------------------------------------------------
(* Types. *)

LEMMA TypeInit == Init => Types
<1> SUFFICES ASSUME Init PROVE Types
  OBVIOUS
<1>1. /\ pc \in [Sessions -> {"out"}] /\ kind \in [Sessions -> {"addr"}]
      /\ rpc \in [Sessions -> {"none"}] /\ qpc \in [Sessions -> {"none"}]
      /\ entry \in [Sessions -> {0}] /\ rconn \in [Sessions -> {0}]
      /\ quiet \in [Sessions -> {-1}]
  BY DEF Init
<1>2. /\ complete \in [Sessions -> BOOLEAN] /\ active \in [Sessions -> BOOLEAN]
      /\ freed \in [Sessions -> BOOLEAN] /\ rcurrent \in [Sessions -> BOOLEAN]
  BY DEF Init
<1>3. /\ quiet \in [Sessions -> -1 .. ElectronTimeout + 1]
      /\ entry \in [Sessions -> 0 .. designs] /\ rconn \in [Sessions -> 0 .. designs]
  BY <1>1, SessionAssumption DEF Init
<1>4. /\ pc \in [Sessions -> {"out", "loop", "gone", "check", "stop", "cut", "return", "name",
                              "age", "handshake", "connect", "reconnect", "send", "layers",
                              "ended"}]
      /\ kind \in [Sessions -> {"addr", "user"}]
      /\ rpc \in [Sessions -> {"none", "look", "read", "ended"}]
      /\ qpc \in [Sessions -> {"none", "look", "front", "pop", "ended"}]
  BY <1>1
<1>5. /\ designs \in 0 .. MaxEvents /\ path \in 0 .. designs /\ timers \in Nat /\ age \in Nat
      /\ pushed \in 0 .. MaxEvents /\ queue \in 0 .. pushed
      /\ since \in 0 .. PathTimeout + 1
  BY SessionAssumption DEF Init
<1>6. /\ stopElectron \in BOOLEAN /\ owner \in Sessions \cup {None, Dead}
      /\ crowded \in BOOLEAN /\ expired \in BOOLEAN /\ failed \in BOOLEAN
      /\ overlapped \subseteq Sessions /\ ub \in {"none", "slot", "freed", "queue"}
  BY DEF Init
<1> QED
  BY <1>2, <1>3, <1>4, <1>5, <1>6 DEF Types

LEMMA TypeStep == Types /\ [Next]_vars => Types'
<1> SUFFICES ASSUME Types, [Next]_vars PROVE Types'
  OBVIOUS
<1> USE SessionAssumption DEF Types, flagVars, timeVars, handlerVars, receiverVars, queueVars, historyVars
<1>1. CASE Tick
  BY <1>1 DEF Tick, TooOld, Least2
<1>2. CASE Push
  BY <1>2 DEF Push, Events
<1>3. ASSUME NEW s \in Sessions, Accept(s) PROVE Types'
  BY <1>3 DEF Accept
<1>4. ASSUME NEW s \in Sessions, Leave(s) PROVE Types'
  BY <1>4 DEF Leave
<1>5. ASSUME NEW s \in Sessions, HearsHalf(s) PROVE Types'
  BY <1>5 DEF HearsHalf, Stop
<1>6. ASSUME NEW s \in Sessions, HearsDesign(s) PROVE Types'
  BY <1>6 DEF HearsDesign, Hears
<1>7. ASSUME NEW s \in Sessions, HearsTooLate(s) PROVE Types'
  BY <1>7 DEF HearsTooLate, Hears
<1>8. ASSUME NEW s \in Sessions, HearsInVain(s) PROVE Types'
  BY <1>8 DEF HearsInVain, Hears
<1>9. ASSUME NEW s \in Sessions, NEW k \in {"addr", "user"}, HearsMessage(s, k) PROVE Types'
  <2>1. CASE ValidSocket(s)
    BY <1>9, <2>1 DEF HearsMessage, Hears
  <2>2. CASE ~ ValidSocket(s)
    <3>1. /\ freed' = [freed EXCEPT ![s] = entry[s] # 0]
          /\ pc' = [pc EXCEPT ![s] = "reconnect"] /\ kind' = [kind EXCEPT ![s] = k]
          /\ quiet' = [quiet EXCEPT ![s] = 0]
          /\ ub' \in {ub, "freed"}
      BY <1>9, <2>2 DEF HearsMessage, Hears
    <3>2. (entry[s] # 0) \in BOOLEAN
      OBVIOUS
    <3>3. freed' \in [Sessions -> BOOLEAN]
      BY <3>1, <3>2, Zenon
    <3>4. /\ pc' \in [Sessions -> {"out", "loop", "gone", "check", "stop", "cut", "return", "name", "age", "handshake",
                 "connect", "reconnect", "send", "layers", "ended"}]
          /\ kind' \in [Sessions -> {"addr", "user"}]
          /\ quiet' \in [Sessions -> -1 .. ElectronTimeout + 1]
          /\ ub' \in {"none", "slot", "freed", "queue"}
      BY <3>1
    <3> QED
      BY <1>9, <3>3, <3>4 DEF HearsMessage, Hears
  <2> QED
    BY <2>1, <2>2
<1>10. ASSUME NEW s \in Sessions, GoOn(s) PROVE Types'
  BY <1>10 DEF GoOn
<1>11. ASSUME NEW s \in Sessions, Return(s) PROVE Types'
  BY <1>11 DEF Return
<1>12. ASSUME NEW s \in Sessions, TimesOut(s) PROVE Types'
  BY <1>12 DEF TimesOut, Stop
<1>13. ASSUME NEW s \in Sessions, DesignFails(s) PROVE Types'
  BY <1>13 DEF DesignFails, Stop
<1>14. ASSUME NEW s \in Sessions, StartPathDesign(s) PROVE Types'
  BY <1>14 DEF StartPathDesign, Events
<1>15. ASSUME NEW s \in Sessions, ResetAge(s) PROVE Types'
  BY <1>15 DEF ResetAge
<1>16. ASSUME NEW s \in Sessions, Handshake(s) PROVE Types'
  BY <1>16 DEF Handshake
<1>17. ASSUME NEW s \in Sessions, HandshakeFails(s) PROVE Types'
  <2>1. owner' \in Sessions \cup {None, Dead} /\ failed' \in BOOLEAN
    BY <1>17 DEF HandshakeFails
  <2>2. /\ stopElectron' \in BOOLEAN /\ path' = 0 /\ complete' \in [Sessions -> BOOLEAN]
        /\ pc' \in [Sessions -> {"out", "loop", "gone", "check", "stop", "cut", "return", "name", "age", "handshake",
                 "connect", "reconnect", "send", "layers", "ended"}]
    BY <1>17 DEF HandshakeFails, Stop
  <2> QED
    BY <1>17, <2>1, <2>2 DEF HandshakeFails
<1>18. ASSUME NEW s \in Sessions, Connect(s) PROVE Types'
  <2>1. CASE Connected(s, "check")
    BY <2>1 DEF Connected
  <2>2. CASE NotConnected(s, "return")
    <3>1. owner' \in Sessions \cup {None, Dead} /\ failed' \in BOOLEAN
      BY <2>2 DEF NotConnected
    <3>2. /\ stopElectron' \in BOOLEAN /\ path' = 0 /\ complete' \in [Sessions -> BOOLEAN]
          /\ pc' \in [Sessions -> {"out", "loop", "gone", "check", "stop", "cut", "return", "name", "age", "handshake",
                 "connect", "reconnect", "send", "layers", "ended"}]
      BY <2>2 DEF NotConnected, Stop
    <3> QED
      BY <2>2, <3>1, <3>2 DEF NotConnected
  <2> QED
    BY <1>18, <2>1, <2>2 DEF Connect
<1>19. ASSUME NEW s \in Sessions, Reconnect(s) PROVE Types'
  <2>1. CASE Connected(s, "send")
    BY <2>1 DEF Connected
  <2>2. CASE NotConnected(s, "stop")
    <3>1. owner' \in Sessions \cup {None, Dead} /\ failed' \in BOOLEAN
      BY <2>2 DEF NotConnected
    <3>2. /\ stopElectron' \in BOOLEAN /\ path' = 0 /\ complete' \in [Sessions -> BOOLEAN]
          /\ pc' \in [Sessions -> {"out", "loop", "gone", "check", "stop", "cut", "return", "name", "age", "handshake",
                 "connect", "reconnect", "send", "layers", "ended"}]
      BY <2>2 DEF NotConnected, Stop
    <3> QED
      BY <2>2, <3>1, <3>2 DEF NotConnected
  <2> QED
    BY <1>19, <2>1, <2>2 DEF Reconnect
<1>20. ASSUME NEW s \in Sessions, CheckPath(s) PROVE Types'
  <2>1. /\ path' \in 0 .. designs /\ stopElectron' \in BOOLEAN
        /\ complete' \in [Sessions -> BOOLEAN]
        /\ pc' \in [Sessions -> {"out", "loop", "gone", "check", "stop", "cut", "return", "name", "age", "handshake",
                 "connect", "reconnect", "send", "layers", "ended"}]
    <3>1. CASE pc' = [pc EXCEPT ![s] = "layers"] /\ UNCHANGED <<path, stopElectron, complete>>
      BY <3>1
    <3>2. CASE Throws(s)
      <4>1. CASE Stop(s, "stop")
        BY <4>1 DEF Stop
      <4>2. CASE pc' = [pc EXCEPT ![s] = "check"] /\ UNCHANGED <<path, stopElectron, complete>>
        BY <4>2
      <4> QED
        BY <3>2, <4>1, <4>2 DEF Throws
    <3> QED
      BY <1>20, <3>1, <3>2 DEF CheckPath
  <2> QED
    BY <1>20, <2>1 DEF CheckPath
<1>21. ASSUME NEW s \in Sessions, Encrypt(s) PROVE Types'
  <2>1. /\ path' \in 0 .. designs /\ stopElectron' \in BOOLEAN
        /\ complete' \in [Sessions -> BOOLEAN]
        /\ pc' \in [Sessions -> {"out", "loop", "gone", "check", "stop", "cut", "return", "name", "age", "handshake",
                 "connect", "reconnect", "send", "layers", "ended"}]
    <3>1. CASE pc' = [pc EXCEPT ![s] = "check"] /\ UNCHANGED <<path, stopElectron, complete>>
      BY <3>1
    <3>2. CASE Throws(s)
      <4>1. CASE Stop(s, "stop")
        BY <4>1 DEF Stop
      <4>2. CASE pc' = [pc EXCEPT ![s] = "check"] /\ UNCHANGED <<path, stopElectron, complete>>
        BY <4>2
      <4> QED
        BY <3>2, <4>1, <4>2 DEF Throws
    <3> QED
      BY <1>21, <3>1, <3>2 DEF Encrypt
  <2>2. active' \in [Sessions -> BOOLEAN] /\ failed' \in BOOLEAN
    BY <1>21 DEF Encrypt
  <2> QED
    BY <1>21, <2>1, <2>2 DEF Encrypt
<1>22. ASSUME NEW s \in Sessions, LookAtEntry(s) PROVE Types'
  <2>1. /\ rpc' \in [Sessions -> {"none", "look", "read", "ended"}]
        /\ rcurrent' \in [Sessions -> BOOLEAN]
    BY <1>22 DEF LookAtEntry
  <2>2. rconn' \in [Sessions -> 0 .. designs]
    BY <1>22 DEF LookAtEntry
  <2>3. ub' \in {"none", "slot", "freed", "queue"}
    BY <1>22 DEF LookAtEntry
  <2> QED
    BY <1>22, <2>1, <2>2, <2>3 DEF LookAtEntry
<1>23. ASSUME NEW s \in Sessions, Answer(s) PROVE Types'
  BY <1>23 DEF Answer, PathAvailable
<1>24. ASSUME NEW s \in Sessions, ReadNothing(s) PROVE Types'
  BY <1>24 DEF ReadNothing
<1>25. ASSUME NEW s \in Sessions, LookAtQueue(s) PROVE Types'
  BY <1>25 DEF LookAtQueue
<1>26. ASSUME NEW s \in Sessions, Front(s) PROVE Types'
  BY <1>26 DEF Front
<1>27. ASSUME NEW s \in Sessions, Pop(s) PROVE Types'
  BY <1>27 DEF Pop
<1>28. CASE UNCHANGED vars
  BY <1>28 DEF vars
<1> QED
  BY <1>1, <1>2, <1>3, <1>4, <1>5, <1>6, <1>7, <1>8, <1>9, <1>10, <1>11, <1>12, <1>13,
     <1>14, <1>15, <1>16, <1>17, <1>18, <1>19, <1>20, <1>21, <1>22, <1>23, <1>24,
     <1>25, <1>26, <1>27, <1>28
     DEF Next, Application, Handler, Receiver, Sender

-----------------------------------------------------------------------------
(* Timers. *)

LEMMA PendingFinite == IsFiniteSet(Pending) /\ Cardinality(Pending) \in Nat
<1>1. IsFiniteSet(Sessions)
  BY FS_Interval, SessionAssumption DEF Sessions
<1>2. IsFiniteSet(Pending)
  BY <1>1, FS_Subset DEF Pending
<1> QED
  BY <1>2, FS_CardinalityType

\* A handler's step makes its design pending, or no longer pending, or neither.
LEMMA PendingMoves ==
    ASSUME Types, NEW s \in Sessions, NEW where, pc' = [pc EXCEPT ![s] = where]
    PROVE  /\ pc[s] \notin {"age", "handshake"} /\ where \notin {"age", "handshake"} =>
                 Cardinality(Pending') = Cardinality(Pending)
           /\ pc[s] \in {"age", "handshake"} /\ where \in {"age", "handshake"} =>
                 Cardinality(Pending') = Cardinality(Pending)
           /\ pc[s] \notin {"age", "handshake"} /\ where \in {"age", "handshake"} =>
                 Cardinality(Pending') = Cardinality(Pending) + 1
           /\ pc[s] \in {"age", "handshake"} /\ where \notin {"age", "handshake"} =>
                 Cardinality(Pending') = Cardinality(Pending) - 1
<1> USE DEF Types
<1>1. pc[s] \notin {"age", "handshake"} /\ where \notin {"age", "handshake"} =>
          Pending' = Pending
  BY DEF Pending
<1>2. pc[s] \in {"age", "handshake"} /\ where \in {"age", "handshake"} => Pending' = Pending
  BY DEF Pending
<1>3. pc[s] \notin {"age", "handshake"} /\ where \in {"age", "handshake"} =>
          Pending' = Pending \cup {s} /\ s \notin Pending
  BY DEF Pending
<1>4. pc[s] \in {"age", "handshake"} /\ where \notin {"age", "handshake"} =>
          Pending' = Pending \ {s} /\ s \in Pending
  BY DEF Pending
<1> HIDE DEF Types
<1>5. s \notin Pending => Cardinality(Pending \cup {s}) = Cardinality(Pending) + 1
  BY PendingFinite, FS_AddElement
<1>6. s \in Pending => Cardinality(Pending \ {s}) = Cardinality(Pending) - 1
  BY PendingFinite, FS_RemoveElement
<1> QED
  BY <1>1, <1>2, <1>3, <1>4, <1>5, <1>6

LEMMA CountInit == Init => CountInv
<1> SUFFICES ASSUME Init PROVE CountInv
  OBVIOUS
<1>1. Pending = {}
  BY DEF Init, Pending
<1> QED
  BY <1>1, FS_EmptySet, SessionAssumption DEF Init, CountInv

LEMMA CountStep == Types /\ CountInv /\ [Next]_vars => CountInv'
<1> SUFFICES ASSUME Types, CountInv, [Next]_vars PROVE CountInv'
  OBVIOUS
<1>0. Cardinality(Pending) \in Nat
  BY PendingFinite
<1>a. pc' = pc => Cardinality(Pending') = Cardinality(Pending)
  BY DEF Pending
<1>b. /\ designs \in Nat /\ timers \in Nat /\ age \in Nat /\ PathTimeout \in Nat
      /\ pc \in [Sessions -> {"out", "loop", "gone", "check", "stop", "cut", "return", "name",
                              "age", "handshake", "connect", "reconnect", "send", "layers",
                              "ended"}]
  BY SessionAssumption DEF Types
<1> USE DEF CountInv, flagVars, timeVars, handlerVars, receiverVars, queueVars, historyVars
<1>1. CASE Tick
  BY <1>1, <1>0, <1>a, <1>b, PendingMoves DEF Tick, TooOld, Least2
<1>2. CASE Push
  BY <1>2, <1>0, <1>a, <1>b, PendingMoves DEF Push, Events
<1>3. ASSUME NEW s \in Sessions, Accept(s) PROVE CountInv'
  <2>1. /\ pc[s] \notin {"age", "handshake"} /\ pc' = [pc EXCEPT ![s] = "loop"]
        /\ "loop" \notin {"age", "handshake"}
    BY <1>3 DEF Accept
  <2>2. Cardinality(Pending') = Cardinality(Pending)
    BY <2>1, PendingMoves, Zenon
  <2> QED
    BY <1>3, <2>2, <1>0, <1>b DEF Accept
<1>4. ASSUME NEW s \in Sessions, Leave(s) PROVE CountInv'
  <2>1. /\ pc[s] \notin {"age", "handshake"} /\ pc' = [pc EXCEPT ![s] = "gone"]
        /\ "gone" \notin {"age", "handshake"}
    BY <1>4 DEF Leave
  <2>2. Cardinality(Pending') = Cardinality(Pending)
    BY <2>1, PendingMoves, Zenon
  <2> QED
    BY <1>4, <2>2, <1>0, <1>b DEF Leave
<1>5. ASSUME NEW s \in Sessions, HearsHalf(s) PROVE CountInv'
  <2>1. /\ pc[s] \notin {"age", "handshake"} /\ pc' = [pc EXCEPT ![s] = "cut"]
        /\ "cut" \notin {"age", "handshake"}
    BY <1>5 DEF HearsHalf, Stop
  <2>2. Cardinality(Pending') = Cardinality(Pending)
    BY <2>1, PendingMoves, Zenon
  <2> QED
    BY <1>5, <2>2, <1>0, <1>b DEF HearsHalf, Stop
<1>6. ASSUME NEW s \in Sessions, HearsDesign(s) PROVE CountInv'
  BY <1>6, <1>0, <1>a, <1>b, PendingMoves DEF HearsDesign, Hears
<1>7. ASSUME NEW s \in Sessions, HearsTooLate(s) PROVE CountInv'
  <2>1. /\ pc[s] \notin {"age", "handshake"} /\ pc' = [pc EXCEPT ![s] = "check"]
        /\ "check" \notin {"age", "handshake"}
    BY <1>7 DEF HearsTooLate, Hears
  <2>2. Cardinality(Pending') = Cardinality(Pending)
    BY <2>1, PendingMoves, Zenon
  <2> QED
    BY <1>7, <2>2, <1>0, <1>b DEF HearsTooLate, Hears
<1>8. ASSUME NEW s \in Sessions, HearsInVain(s) PROVE CountInv'
  <2>1. /\ pc[s] \notin {"age", "handshake"} /\ pc' = [pc EXCEPT ![s] = "check"]
        /\ "check" \notin {"age", "handshake"}
    BY <1>8 DEF HearsInVain, Hears
  <2>2. Cardinality(Pending') = Cardinality(Pending)
    BY <2>1, PendingMoves, Zenon
  <2> QED
    BY <1>8, <2>2, <1>0, <1>b DEF HearsInVain, Hears
<1>9. ASSUME NEW s \in Sessions, NEW k \in {"addr", "user"}, HearsMessage(s, k) PROVE CountInv'
  BY <1>9, <1>0, <1>a, <1>b, PendingMoves DEF HearsMessage, Hears, ValidSocket, PathAvailable
<1>10. ASSUME NEW s \in Sessions, GoOn(s) PROVE CountInv'
  <2>1. pc[s] \notin {"age", "handshake"}
    BY <1>10 DEF GoOn
  <2>2. PICK where \in {"gone", "loop"} : /\ pc' = [pc EXCEPT ![s] = where]
                                        /\ where \notin {"age", "handshake"}
    BY <1>10 DEF GoOn
  <2>3. Cardinality(Pending') = Cardinality(Pending)
    BY <2>1, <2>2, PendingMoves, Zenon
  <2> QED
    BY <1>10, <2>3, <1>0, <1>b DEF GoOn
<1>11. ASSUME NEW s \in Sessions, Return(s) PROVE CountInv'
  BY <1>11, <1>0, <1>a, <1>b, PendingMoves DEF Return
<1>12. ASSUME NEW s \in Sessions, TimesOut(s) PROVE CountInv'
  <2>1. /\ pc[s] \notin {"age", "handshake"} /\ pc' = [pc EXCEPT ![s] = "return"]
        /\ "return" \notin {"age", "handshake"}
    BY <1>12 DEF TimesOut, Stop
  <2>2. Cardinality(Pending') = Cardinality(Pending)
    BY <2>1, PendingMoves, Zenon
  <2> QED
    BY <1>12, <2>2, <1>0, <1>b DEF TimesOut, Stop
<1>13. ASSUME NEW s \in Sessions, DesignFails(s) PROVE CountInv'
  BY <1>13, <1>0, <1>a, <1>b, PendingMoves DEF DesignFails, Stop
<1>14. ASSUME NEW s \in Sessions, StartPathDesign(s) PROVE CountInv'
  <2>1. /\ pc[s] \notin {"age", "handshake"} /\ pc' = [pc EXCEPT ![s] = "age"]
        /\ "age" \in {"age", "handshake"}
    BY <1>14 DEF StartPathDesign, Events
  <2>2. Cardinality(Pending') = Cardinality(Pending) + 1
    BY <2>1, PendingMoves, Zenon
  <2> QED
    BY <1>14, <2>2, <1>0, <1>b DEF StartPathDesign, Events
<1>15. ASSUME NEW s \in Sessions, ResetAge(s) PROVE CountInv'
  <2>1. /\ pc[s] \in {"age", "handshake"} /\ pc' = [pc EXCEPT ![s] = "handshake"]
        /\ "handshake" \in {"age", "handshake"}
    BY <1>15 DEF ResetAge
  <2>2. Cardinality(Pending') = Cardinality(Pending)
    BY <2>1, PendingMoves, Zenon
  <2> QED
    BY <1>15, <2>2, <1>0, <1>b DEF ResetAge
<1>16. ASSUME NEW s \in Sessions, Handshake(s) PROVE CountInv'
  <2>1. /\ pc[s] \in {"age", "handshake"} /\ pc' = [pc EXCEPT ![s] = "connect"]
        /\ "connect" \notin {"age", "handshake"}
    BY <1>16 DEF Handshake
  <2>2. Cardinality(Pending') = Cardinality(Pending) - 1
    BY <2>1, PendingMoves, Zenon
  <2> QED
    BY <1>16, <2>2, <1>0, <1>b DEF Handshake
<1>17. ASSUME NEW s \in Sessions, HandshakeFails(s) PROVE CountInv'
  <2>1. /\ pc[s] \in {"age", "handshake"} /\ pc' = [pc EXCEPT ![s] = "stop"]
        /\ "stop" \notin {"age", "handshake"}
    BY <1>17 DEF HandshakeFails, Stop
  <2>2. Cardinality(Pending') = Cardinality(Pending) - 1
    BY <2>1, PendingMoves, Zenon
  <2> QED
    BY <1>17, <2>2, <1>0, <1>b DEF HandshakeFails, Stop
<1>18. ASSUME NEW s \in Sessions, Connect(s) PROVE CountInv'
  BY <1>18, <1>0, <1>a, <1>b, PendingMoves DEF Connect, Connected, NotConnected, Stop
<1>19. ASSUME NEW s \in Sessions, Reconnect(s) PROVE CountInv'
  BY <1>19, <1>0, <1>a, <1>b, PendingMoves DEF Reconnect, Connected, NotConnected, Stop
<1>20. ASSUME NEW s \in Sessions, CheckPath(s) PROVE CountInv'
  BY <1>20, <1>0, <1>a, <1>b, PendingMoves DEF CheckPath, Throws, Stop
<1>21. ASSUME NEW s \in Sessions, Encrypt(s) PROVE CountInv'
  BY <1>21, <1>0, <1>a, <1>b, PendingMoves DEF Encrypt, Throws, Stop
<1>22. ASSUME NEW s \in Sessions, LookAtEntry(s) PROVE CountInv'
  BY <1>22, <1>0, <1>a, <1>b, PendingMoves DEF LookAtEntry
<1>23. ASSUME NEW s \in Sessions, Answer(s) PROVE CountInv'
  BY <1>23, <1>0, <1>a, <1>b, PendingMoves DEF Answer, PathAvailable
<1>24. ASSUME NEW s \in Sessions, ReadNothing(s) PROVE CountInv'
  BY <1>24, <1>0, <1>a, <1>b, PendingMoves DEF ReadNothing
<1>25. ASSUME NEW s \in Sessions, LookAtQueue(s) PROVE CountInv'
  BY <1>25, <1>0, <1>a, <1>b, PendingMoves DEF LookAtQueue
<1>26. ASSUME NEW s \in Sessions, Front(s) PROVE CountInv'
  BY <1>26, <1>0, <1>a, <1>b, PendingMoves DEF Front
<1>27. ASSUME NEW s \in Sessions, Pop(s) PROVE CountInv'
  BY <1>27, <1>0, <1>a, <1>b, PendingMoves DEF Pop
<1>28. CASE UNCHANGED vars
  BY <1>28, <1>0, <1>a, <1>b, PendingMoves DEF vars
<1> QED
  BY <1>1, <1>2, <1>3, <1>4, <1>5, <1>6, <1>7, <1>8, <1>9, <1>10, <1>11, <1>12, <1>13,
     <1>14, <1>15, <1>16, <1>17, <1>18, <1>19, <1>20, <1>21, <1>22, <1>23, <1>24,
     <1>25, <1>26, <1>27, <1>28
     DEF Next, Application, Handler, Receiver, Sender

LEMMA TimerInit == Init => TimerInv
  BY SessionAssumption DEF Init, TimerInv

LEMMA TimerStep == Types /\ TimerInv /\ [Next]_vars => TimerInv'
<1> SUFFICES ASSUME Types, TimerInv, [Next]_vars PROVE TimerInv'
  OBVIOUS
<1> USE SessionAssumption DEF Types, TimerInv, flagVars, timeVars, handlerVars, receiverVars, queueVars, historyVars
<1>1. CASE Tick
  <2>1. TooOld \in Nat /\ TooOld <= timers
    BY DEF TooOld, Least2
  <2>2. age' = age + timers /\ timers' <= timers /\ timers' \in Nat
    BY <1>1, <2>1 DEF Tick
  <2>3. /\ since' = (IF since + 1 < PathTimeout + 1 THEN since + 1 ELSE PathTimeout + 1)
        /\ crowded' <=> crowded
    BY <1>1 DEF Tick, Least2
  <2>4. ~ crowded' => age' <= since' \/ since' >= PathTimeout
    <3>1. timers >= 2 => crowded
      OBVIOUS
    <3>2. ~ crowded => timers <= 1
      BY <3>1
    <3>3. ~ crowded => age <= since \/ since >= PathTimeout
      OBVIOUS
    <3>4. timers \in Nat /\ age \in Nat /\ since \in Nat /\ PathTimeout \in Nat
      OBVIOUS
    <3> HIDE DEF Types, TimerInv
    <3>5. CASE crowded
      BY <2>3, <3>5
    <3>6. CASE ~ crowded
      <4>1. age' <= age + 1 /\ age' \in Nat
        BY <2>2, <3>2, <3>4, <3>6
      <4>2. since' >= PathTimeout \/ (since' = since + 1 /\ since < PathTimeout)
        BY <2>3, <3>4
      <4> QED
        BY <3>3, <3>4, <3>6, <4>1, <4>2
    <3> QED
      BY <3>5, <3>6
  <2>5. age' > PathTimeout => expired'
    <3>1. age + timers > PathTimeout /\ timers > 0 => TooOld > 0
      BY DEF TooOld, Least2
    <3>2. expired' = (expired \/ TooOld > 0)
      BY <1>1 DEF Tick
    <3>3. CASE timers > 0
      <4>1. age' > PathTimeout => TooOld > 0
        BY <2>2, <3>1, <3>3
      <4> QED
        BY <3>2, <4>1, Zenon
    <3>4. CASE timers = 0
      <4>1. age' = age /\ (age > PathTimeout => expired)
        BY <2>2, <3>4
      <4> QED
        BY <3>2, <4>1, Zenon
    <3> QED
      BY <3>3, <3>4
  <2> QED
    BY <2>2, <2>3, <2>4, <2>5
<1>2. CASE Push
  BY <1>2 DEF Push, Events
<1>3. ASSUME NEW s \in Sessions, Accept(s) PROVE TimerInv'
  BY <1>3 DEF Accept
<1>4. ASSUME NEW s \in Sessions, Leave(s) PROVE TimerInv'
  BY <1>4 DEF Leave
<1>5. ASSUME NEW s \in Sessions, HearsHalf(s) PROVE TimerInv'
  BY <1>5 DEF HearsHalf, Stop
<1>6. ASSUME NEW s \in Sessions, HearsDesign(s) PROVE TimerInv'
  BY <1>6 DEF HearsDesign, Hears
<1>7. ASSUME NEW s \in Sessions, HearsTooLate(s) PROVE TimerInv'
  BY <1>7 DEF HearsTooLate, Hears
<1>8. ASSUME NEW s \in Sessions, HearsInVain(s) PROVE TimerInv'
  BY <1>8 DEF HearsInVain, Hears
<1>9. ASSUME NEW s \in Sessions, NEW k \in {"addr", "user"}, HearsMessage(s, k) PROVE TimerInv'
  BY <1>9 DEF HearsMessage, Hears, ValidSocket, PathAvailable
<1>10. ASSUME NEW s \in Sessions, GoOn(s) PROVE TimerInv'
  BY <1>10 DEF GoOn
<1>11. ASSUME NEW s \in Sessions, Return(s) PROVE TimerInv'
  BY <1>11 DEF Return
<1>12. ASSUME NEW s \in Sessions, TimesOut(s) PROVE TimerInv'
  BY <1>12 DEF TimesOut, Stop
<1>13. ASSUME NEW s \in Sessions, DesignFails(s) PROVE TimerInv'
  BY <1>13 DEF DesignFails, Stop
<1>14. ASSUME NEW s \in Sessions, StartPathDesign(s) PROVE TimerInv'
  BY <1>14 DEF StartPathDesign, Events
<1>15. ASSUME NEW s \in Sessions, ResetAge(s) PROVE TimerInv'
  BY <1>15 DEF ResetAge
<1>16. ASSUME NEW s \in Sessions, Handshake(s) PROVE TimerInv'
  <2>1. /\ timers' = timers + 1 /\ (crowded' <=> crowded \/ timers >= 1)
        /\ age' = age /\ since' = since /\ expired' = expired
    BY <1>16 DEF Handshake
  <2>2. timers' >= 2 => crowded'
    BY <2>1
  <2>3. ~ crowded' => ~ crowded
    BY <2>1
  <2> QED
    BY <2>1, <2>2, <2>3
<1>17. ASSUME NEW s \in Sessions, HandshakeFails(s) PROVE TimerInv'
  BY <1>17 DEF HandshakeFails, Stop
<1>18. ASSUME NEW s \in Sessions, Connect(s) PROVE TimerInv'
  BY <1>18 DEF Connect, Connected, NotConnected, Stop
<1>19. ASSUME NEW s \in Sessions, Reconnect(s) PROVE TimerInv'
  BY <1>19 DEF Reconnect, Connected, NotConnected, Stop
<1>20. ASSUME NEW s \in Sessions, CheckPath(s) PROVE TimerInv'
  BY <1>20 DEF CheckPath, Throws, Stop
<1>21. ASSUME NEW s \in Sessions, Encrypt(s) PROVE TimerInv'
  BY <1>21 DEF Encrypt, Throws, Stop
<1>22. ASSUME NEW s \in Sessions, LookAtEntry(s) PROVE TimerInv'
  BY <1>22 DEF LookAtEntry
<1>23. ASSUME NEW s \in Sessions, Answer(s) PROVE TimerInv'
  BY <1>23 DEF Answer, PathAvailable
<1>24. ASSUME NEW s \in Sessions, ReadNothing(s) PROVE TimerInv'
  BY <1>24 DEF ReadNothing
<1>25. ASSUME NEW s \in Sessions, LookAtQueue(s) PROVE TimerInv'
  BY <1>25 DEF LookAtQueue
<1>26. ASSUME NEW s \in Sessions, Front(s) PROVE TimerInv'
  BY <1>26 DEF Front
<1>27. ASSUME NEW s \in Sessions, Pop(s) PROVE TimerInv'
  BY <1>27 DEF Pop
<1>28. CASE UNCHANGED vars
  BY <1>28 DEF vars
<1> QED
  BY <1>1, <1>2, <1>3, <1>4, <1>5, <1>6, <1>7, <1>8, <1>9, <1>10, <1>11, <1>12, <1>13,
     <1>14, <1>15, <1>16, <1>17, <1>18, <1>19, <1>20, <1>21, <1>22, <1>23, <1>24,
     <1>25, <1>26, <1>27, <1>28
     DEF Next, Application, Handler, Receiver, Sender

-----------------------------------------------------------------------------
(* Sessions. *)

LEMMA BegunInit == Init => BegunInv /\ OverlapInv
  BY SessionAssumption DEF Init, BegunInv, OverlapInv, Begun, Running

LEMMA BegunStep == Types /\ BegunInv /\ [Next]_vars => BegunInv'
<1> SUFFICES ASSUME Types, BegunInv, [Next]_vars PROVE BegunInv'
  OBVIOUS
<1> USE SessionAssumption DEF Types, BegunInv, Begun, flagVars, timeVars, handlerVars, receiverVars, queueVars, historyVars
<1>1. CASE Tick
  BY <1>1 DEF Tick, TooOld, Least2
<1>2. CASE Push
  BY <1>2 DEF Push, Events
<1>3. ASSUME NEW s \in Sessions, Accept(s) PROVE BegunInv'
  BY <1>3 DEF Accept
<1>4. ASSUME NEW s \in Sessions, Leave(s) PROVE BegunInv'
  BY <1>4 DEF Leave
<1>5. ASSUME NEW s \in Sessions, HearsHalf(s) PROVE BegunInv'
  BY <1>5 DEF HearsHalf, Stop
<1>6. ASSUME NEW s \in Sessions, HearsDesign(s) PROVE BegunInv'
  BY <1>6 DEF HearsDesign, Hears
<1>7. ASSUME NEW s \in Sessions, HearsTooLate(s) PROVE BegunInv'
  BY <1>7 DEF HearsTooLate, Hears
<1>8. ASSUME NEW s \in Sessions, HearsInVain(s) PROVE BegunInv'
  BY <1>8 DEF HearsInVain, Hears
<1>9. ASSUME NEW s \in Sessions, NEW k \in {"addr", "user"}, HearsMessage(s, k) PROVE BegunInv'
  BY <1>9 DEF HearsMessage, Hears, ValidSocket, PathAvailable
<1>10. ASSUME NEW s \in Sessions, GoOn(s) PROVE BegunInv'
  BY <1>10 DEF GoOn
<1>11. ASSUME NEW s \in Sessions, Return(s) PROVE BegunInv'
  BY <1>11 DEF Return
<1>12. ASSUME NEW s \in Sessions, TimesOut(s) PROVE BegunInv'
  BY <1>12 DEF TimesOut, Stop
<1>13. ASSUME NEW s \in Sessions, DesignFails(s) PROVE BegunInv'
  BY <1>13 DEF DesignFails, Stop
<1>14. ASSUME NEW s \in Sessions, StartPathDesign(s) PROVE BegunInv'
  BY <1>14 DEF StartPathDesign, Events
<1>15. ASSUME NEW s \in Sessions, ResetAge(s) PROVE BegunInv'
  BY <1>15 DEF ResetAge
<1>16. ASSUME NEW s \in Sessions, Handshake(s) PROVE BegunInv'
  BY <1>16 DEF Handshake
<1>17. ASSUME NEW s \in Sessions, HandshakeFails(s) PROVE BegunInv'
  BY <1>17 DEF HandshakeFails, Stop
<1>18. ASSUME NEW s \in Sessions, Connect(s) PROVE BegunInv'
  BY <1>18 DEF Connect, Connected, NotConnected, Stop
<1>19. ASSUME NEW s \in Sessions, Reconnect(s) PROVE BegunInv'
  BY <1>19 DEF Reconnect, Connected, NotConnected, Stop
<1>20. ASSUME NEW s \in Sessions, CheckPath(s) PROVE BegunInv'
  BY <1>20 DEF CheckPath, Throws, Stop
<1>21. ASSUME NEW s \in Sessions, Encrypt(s) PROVE BegunInv'
  BY <1>21 DEF Encrypt, Throws, Stop
<1>22. ASSUME NEW s \in Sessions, LookAtEntry(s) PROVE BegunInv'
  BY <1>22 DEF LookAtEntry
<1>23. ASSUME NEW s \in Sessions, Answer(s) PROVE BegunInv'
  <2>1. Begun(s)
    BY <1>23 DEF Answer
  <2> QED
    BY <1>23, <2>1 DEF Answer
<1>24. ASSUME NEW s \in Sessions, ReadNothing(s) PROVE BegunInv'
  BY <1>24 DEF ReadNothing
<1>25. ASSUME NEW s \in Sessions, LookAtQueue(s) PROVE BegunInv'
  BY <1>25 DEF LookAtQueue
<1>26. ASSUME NEW s \in Sessions, Front(s) PROVE BegunInv'
  BY <1>26 DEF Front
<1>27. ASSUME NEW s \in Sessions, Pop(s) PROVE BegunInv'
  BY <1>27 DEF Pop
<1>28. CASE UNCHANGED vars
  BY <1>28 DEF vars
<1> QED
  BY <1>1, <1>2, <1>3, <1>4, <1>5, <1>6, <1>7, <1>8, <1>9, <1>10, <1>11, <1>12, <1>13,
     <1>14, <1>15, <1>16, <1>17, <1>18, <1>19, <1>20, <1>21, <1>22, <1>23, <1>24,
     <1>25, <1>26, <1>27, <1>28
     DEF Next, Application, Handler, Receiver, Sender

LEMMA OverlapStep == Types /\ OverlapInv /\ [Next]_vars => OverlapInv'
<1> SUFFICES ASSUME Types, OverlapInv, [Next]_vars PROVE OverlapInv'
  OBVIOUS
<1> USE SessionAssumption DEF Types, OverlapInv, Running, flagVars, timeVars, handlerVars, receiverVars, queueVars, historyVars
<1>1. CASE Tick
  BY <1>1 DEF Tick, TooOld, Least2
<1>2. CASE Push
  BY <1>2 DEF Push, Events
<1>3. ASSUME NEW s \in Sessions, Accept(s) PROVE OverlapInv'
  BY <1>3 DEF Accept
<1>4. ASSUME NEW s \in Sessions, Leave(s) PROVE OverlapInv'
  BY <1>4 DEF Leave
<1>5. ASSUME NEW s \in Sessions, HearsHalf(s) PROVE OverlapInv'
  BY <1>5 DEF HearsHalf, Stop
<1>6. ASSUME NEW s \in Sessions, HearsDesign(s) PROVE OverlapInv'
  BY <1>6 DEF HearsDesign, Hears
<1>7. ASSUME NEW s \in Sessions, HearsTooLate(s) PROVE OverlapInv'
  BY <1>7 DEF HearsTooLate, Hears
<1>8. ASSUME NEW s \in Sessions, HearsInVain(s) PROVE OverlapInv'
  BY <1>8 DEF HearsInVain, Hears
<1>9. ASSUME NEW s \in Sessions, NEW k \in {"addr", "user"}, HearsMessage(s, k) PROVE OverlapInv'
  BY <1>9, SMTT(20) DEF HearsMessage, Hears, ValidSocket, PathAvailable
<1>10. ASSUME NEW s \in Sessions, GoOn(s) PROVE OverlapInv'
  BY <1>10 DEF GoOn
<1>11. ASSUME NEW s \in Sessions, Return(s) PROVE OverlapInv'
  BY <1>11 DEF Return
<1>12. ASSUME NEW s \in Sessions, TimesOut(s) PROVE OverlapInv'
  BY <1>12 DEF TimesOut, Stop
<1>13. ASSUME NEW s \in Sessions, DesignFails(s) PROVE OverlapInv'
  BY <1>13 DEF DesignFails, Stop
<1>14. ASSUME NEW s \in Sessions, StartPathDesign(s) PROVE OverlapInv'
  BY <1>14 DEF StartPathDesign, Events
<1>15. ASSUME NEW s \in Sessions, ResetAge(s) PROVE OverlapInv'
  BY <1>15 DEF ResetAge
<1>16. ASSUME NEW s \in Sessions, Handshake(s) PROVE OverlapInv'
  BY <1>16 DEF Handshake
<1>17. ASSUME NEW s \in Sessions, HandshakeFails(s) PROVE OverlapInv'
  BY <1>17 DEF HandshakeFails, Stop
<1>18. ASSUME NEW s \in Sessions, Connect(s) PROVE OverlapInv'
  BY <1>18 DEF Connect, Connected, NotConnected, Stop
<1>19. ASSUME NEW s \in Sessions, Reconnect(s) PROVE OverlapInv'
  BY <1>19 DEF Reconnect, Connected, NotConnected, Stop
<1>20. ASSUME NEW s \in Sessions, CheckPath(s) PROVE OverlapInv'
  BY <1>20 DEF CheckPath, Throws, Stop
<1>21. ASSUME NEW s \in Sessions, Encrypt(s) PROVE OverlapInv'
  BY <1>21 DEF Encrypt, Throws, Stop
<1>22. ASSUME NEW s \in Sessions, LookAtEntry(s) PROVE OverlapInv'
  BY <1>22 DEF LookAtEntry
<1>23. ASSUME NEW s \in Sessions, Answer(s) PROVE OverlapInv'
  BY <1>23 DEF Answer, PathAvailable
<1>24. ASSUME NEW s \in Sessions, ReadNothing(s) PROVE OverlapInv'
  BY <1>24 DEF ReadNothing
<1>25. ASSUME NEW s \in Sessions, LookAtQueue(s) PROVE OverlapInv'
  BY <1>25 DEF LookAtQueue
<1>26. ASSUME NEW s \in Sessions, Front(s) PROVE OverlapInv'
  BY <1>26 DEF Front
<1>27. ASSUME NEW s \in Sessions, Pop(s) PROVE OverlapInv'
  BY <1>27 DEF Pop
<1>28. CASE UNCHANGED vars
  BY <1>28 DEF vars
<1> QED
  BY <1>1, <1>2, <1>3, <1>4, <1>5, <1>6, <1>7, <1>8, <1>9, <1>10, <1>11, <1>12, <1>13,
     <1>14, <1>15, <1>16, <1>17, <1>18, <1>19, <1>20, <1>21, <1>22, <1>23, <1>24,
     <1>25, <1>26, <1>27, <1>28
     DEF Next, Application, Handler, Receiver, Sender

LEMMA AloneInit == Init => AloneInv
  BY SessionAssumption DEF Init, AloneInv, Ending

LEMMA AloneStep == Types /\ BegunInv /\ AloneInv /\ [Next]_vars => AloneInv'
<1> SUFFICES ASSUME Types, BegunInv, AloneInv, [Next]_vars PROVE AloneInv'
  OBVIOUS
<1> USE SessionAssumption DEF Types, BegunInv, AloneInv, Alone, Begun, Ending, flagVars, timeVars, handlerVars, receiverVars, queueVars, historyVars
<1>1. CASE Tick
  BY <1>1 DEF Tick, TooOld, Least2
<1>2. CASE Push
  BY <1>2 DEF Push, Events
<1>3. ASSUME NEW s \in Sessions, Accept(s) PROVE AloneInv'
  BY <1>3 DEF Accept
<1>4. ASSUME NEW s \in Sessions, Leave(s) PROVE AloneInv'
  BY <1>4 DEF Leave
<1>5. ASSUME NEW s \in Sessions, HearsHalf(s) PROVE AloneInv'
  BY <1>5 DEF HearsHalf, Stop
<1>6. ASSUME NEW s \in Sessions, HearsDesign(s) PROVE AloneInv'
  BY <1>6 DEF HearsDesign, Hears
<1>7. ASSUME NEW s \in Sessions, HearsTooLate(s) PROVE AloneInv'
  BY <1>7 DEF HearsTooLate, Hears
<1>8. ASSUME NEW s \in Sessions, HearsInVain(s) PROVE AloneInv'
  BY <1>8 DEF HearsInVain, Hears
<1>9. ASSUME NEW s \in Sessions, NEW k \in {"addr", "user"}, HearsMessage(s, k) PROVE AloneInv'
  BY <1>9 DEF HearsMessage, Hears, ValidSocket, PathAvailable
<1>10. ASSUME NEW s \in Sessions, GoOn(s) PROVE AloneInv'
  BY <1>10 DEF GoOn
<1>11. ASSUME NEW s \in Sessions, Return(s) PROVE AloneInv'
  BY <1>11 DEF Return
<1>12. ASSUME NEW s \in Sessions, TimesOut(s) PROVE AloneInv'
  BY <1>12 DEF TimesOut, Stop
<1>13. ASSUME NEW s \in Sessions, DesignFails(s) PROVE AloneInv'
  BY <1>13 DEF DesignFails, Stop
<1>14. ASSUME NEW s \in Sessions, StartPathDesign(s) PROVE AloneInv'
  BY <1>14 DEF StartPathDesign, Events
<1>15. ASSUME NEW s \in Sessions, ResetAge(s) PROVE AloneInv'
  BY <1>15 DEF ResetAge
<1>16. ASSUME NEW s \in Sessions, Handshake(s) PROVE AloneInv'
  BY <1>16 DEF Handshake
<1>17. ASSUME NEW s \in Sessions, HandshakeFails(s) PROVE AloneInv'
  BY <1>17 DEF HandshakeFails, Stop
<1>18. ASSUME NEW s \in Sessions, Connect(s) PROVE AloneInv'
  BY <1>18 DEF Connect, Connected, NotConnected, Stop
<1>19. ASSUME NEW s \in Sessions, Reconnect(s) PROVE AloneInv'
  BY <1>19 DEF Reconnect, Connected, NotConnected, Stop
<1>20. ASSUME NEW s \in Sessions, CheckPath(s) PROVE AloneInv'
  BY <1>20 DEF CheckPath, Throws, Stop
<1>21. ASSUME NEW s \in Sessions, Encrypt(s) PROVE AloneInv'
  BY <1>21 DEF Encrypt, Throws, Stop
<1>22. ASSUME NEW s \in Sessions, LookAtEntry(s) PROVE AloneInv'
  BY <1>22 DEF LookAtEntry
<1>23. ASSUME NEW s \in Sessions, Answer(s) PROVE AloneInv'
  BY <1>23 DEF Answer, PathAvailable
<1>24. ASSUME NEW s \in Sessions, ReadNothing(s) PROVE AloneInv'
  BY <1>24 DEF ReadNothing
<1>25. ASSUME NEW s \in Sessions, LookAtQueue(s) PROVE AloneInv'
  BY <1>25 DEF LookAtQueue
<1>26. ASSUME NEW s \in Sessions, Front(s) PROVE AloneInv'
  BY <1>26 DEF Front
<1>27. ASSUME NEW s \in Sessions, Pop(s) PROVE AloneInv'
  BY <1>27 DEF Pop
<1>28. CASE UNCHANGED vars
  BY <1>28 DEF vars
<1> QED
  BY <1>1, <1>2, <1>3, <1>4, <1>5, <1>6, <1>7, <1>8, <1>9, <1>10, <1>11, <1>12, <1>13,
     <1>14, <1>15, <1>16, <1>17, <1>18, <1>19, <1>20, <1>21, <1>22, <1>23, <1>24,
     <1>25, <1>26, <1>27, <1>28
     DEF Next, Application, Handler, Receiver, Sender

-----------------------------------------------------------------------------
(* The entry connection. *)

LEMMA EntryInit == Init => EntryInv /\ LayerInv
  BY SessionAssumption DEF Init, EntryInv, LayerInv

LEMMA EntryStep == Types /\ EntryInv /\ [Next]_vars => EntryInv'
<1> SUFFICES ASSUME Types, EntryInv, [Next]_vars PROVE EntryInv'
  OBVIOUS
<1> USE SessionAssumption DEF Types, EntryInv, flagVars, timeVars, handlerVars, receiverVars, queueVars, historyVars
<1>1. CASE Tick
  BY <1>1 DEF Tick, TooOld, Least2
<1>2. CASE Push
  BY <1>2 DEF Push, Events
<1>3. ASSUME NEW s \in Sessions, Accept(s) PROVE EntryInv'
  BY <1>3 DEF Accept
<1>4. ASSUME NEW s \in Sessions, Leave(s) PROVE EntryInv'
  BY <1>4 DEF Leave
<1>5. ASSUME NEW s \in Sessions, HearsHalf(s) PROVE EntryInv'
  BY <1>5 DEF HearsHalf, Stop
<1>6. ASSUME NEW s \in Sessions, HearsDesign(s) PROVE EntryInv'
  BY <1>6 DEF HearsDesign, Hears
<1>7. ASSUME NEW s \in Sessions, HearsTooLate(s) PROVE EntryInv'
  BY <1>7 DEF HearsTooLate, Hears
<1>8. ASSUME NEW s \in Sessions, HearsInVain(s) PROVE EntryInv'
  BY <1>8 DEF HearsInVain, Hears
<1>9. ASSUME NEW s \in Sessions, NEW k \in {"addr", "user"}, HearsMessage(s, k) PROVE EntryInv'
  BY <1>9 DEF HearsMessage, Hears, ValidSocket, PathAvailable
<1>10. ASSUME NEW s \in Sessions, GoOn(s) PROVE EntryInv'
  BY <1>10 DEF GoOn
<1>11. ASSUME NEW s \in Sessions, Return(s) PROVE EntryInv'
  BY <1>11 DEF Return
<1>12. ASSUME NEW s \in Sessions, TimesOut(s) PROVE EntryInv'
  BY <1>12 DEF TimesOut, Stop
<1>13. ASSUME NEW s \in Sessions, DesignFails(s) PROVE EntryInv'
  BY <1>13 DEF DesignFails, Stop
<1>14. ASSUME NEW s \in Sessions, StartPathDesign(s) PROVE EntryInv'
  BY <1>14 DEF StartPathDesign, Events
<1>15. ASSUME NEW s \in Sessions, ResetAge(s) PROVE EntryInv'
  BY <1>15 DEF ResetAge
<1>16. ASSUME NEW s \in Sessions, Handshake(s) PROVE EntryInv'
  BY <1>16 DEF Handshake
<1>17. ASSUME NEW s \in Sessions, HandshakeFails(s) PROVE EntryInv'
  BY <1>17 DEF HandshakeFails, Stop
<1>18. ASSUME NEW s \in Sessions, Connect(s) PROVE EntryInv'
  BY <1>18 DEF Connect, Connected, NotConnected, Stop
<1>19. ASSUME NEW s \in Sessions, Reconnect(s) PROVE EntryInv'
  BY <1>19 DEF Reconnect, Connected, NotConnected, Stop
<1>20. ASSUME NEW s \in Sessions, CheckPath(s) PROVE EntryInv'
  BY <1>20 DEF CheckPath, Throws, Stop
<1>21. ASSUME NEW s \in Sessions, Encrypt(s) PROVE EntryInv'
  BY <1>21 DEF Encrypt, Throws, Stop
<1>22. ASSUME NEW s \in Sessions, LookAtEntry(s) PROVE EntryInv'
  BY <1>22 DEF LookAtEntry
<1>23. ASSUME NEW s \in Sessions, Answer(s) PROVE EntryInv'
  BY <1>23 DEF Answer, PathAvailable
<1>24. ASSUME NEW s \in Sessions, ReadNothing(s) PROVE EntryInv'
  BY <1>24 DEF ReadNothing
<1>25. ASSUME NEW s \in Sessions, LookAtQueue(s) PROVE EntryInv'
  BY <1>25 DEF LookAtQueue
<1>26. ASSUME NEW s \in Sessions, Front(s) PROVE EntryInv'
  BY <1>26 DEF Front
<1>27. ASSUME NEW s \in Sessions, Pop(s) PROVE EntryInv'
  BY <1>27 DEF Pop
<1>28. CASE UNCHANGED vars
  BY <1>28 DEF vars
<1> QED
  BY <1>1, <1>2, <1>3, <1>4, <1>5, <1>6, <1>7, <1>8, <1>9, <1>10, <1>11, <1>12, <1>13,
     <1>14, <1>15, <1>16, <1>17, <1>18, <1>19, <1>20, <1>21, <1>22, <1>23, <1>24,
     <1>25, <1>26, <1>27, <1>28
     DEF Next, Application, Handler, Receiver, Sender

LEMMA LayerStep == Types /\ BegunInv /\ OverlapInv /\ LayerInv /\ [Next]_vars => LayerInv'
<1> SUFFICES ASSUME Types, BegunInv, OverlapInv, LayerInv, [Next]_vars PROVE LayerInv'
  OBVIOUS
<1> USE SessionAssumption DEF Types, BegunInv, Begun, Running, OverlapInv, LayerInv, flagVars, timeVars, handlerVars, receiverVars, queueVars, historyVars
<1>1. CASE Tick
  BY <1>1 DEF Tick, TooOld, Least2
<1>2. CASE Push
  BY <1>2 DEF Push, Events
<1>3. ASSUME NEW s \in Sessions, Accept(s) PROVE LayerInv'
  BY <1>3 DEF Accept
<1>4. ASSUME NEW s \in Sessions, Leave(s) PROVE LayerInv'
  BY <1>4 DEF Leave
<1>5. ASSUME NEW s \in Sessions, HearsHalf(s) PROVE LayerInv'
  BY <1>5 DEF HearsHalf, Stop
<1>6. ASSUME NEW s \in Sessions, HearsDesign(s) PROVE LayerInv'
  BY <1>6 DEF HearsDesign, Hears
<1>7. ASSUME NEW s \in Sessions, HearsTooLate(s) PROVE LayerInv'
  BY <1>7 DEF HearsTooLate, Hears
<1>8. ASSUME NEW s \in Sessions, HearsInVain(s) PROVE LayerInv'
  BY <1>8 DEF HearsInVain, Hears
<1>9. ASSUME NEW s \in Sessions, NEW k \in {"addr", "user"}, HearsMessage(s, k) PROVE LayerInv'
  BY <1>9 DEF HearsMessage, Hears, ValidSocket, PathAvailable
<1>10. ASSUME NEW s \in Sessions, GoOn(s) PROVE LayerInv'
  BY <1>10 DEF GoOn
<1>11. ASSUME NEW s \in Sessions, Return(s) PROVE LayerInv'
  BY <1>11 DEF Return
<1>12. ASSUME NEW s \in Sessions, TimesOut(s) PROVE LayerInv'
  BY <1>12 DEF TimesOut, Stop
<1>13. ASSUME NEW s \in Sessions, DesignFails(s) PROVE LayerInv'
  BY <1>13 DEF DesignFails, Stop
<1>14. ASSUME NEW s \in Sessions, StartPathDesign(s) PROVE LayerInv'
  BY <1>14 DEF StartPathDesign, Events
<1>15. ASSUME NEW s \in Sessions, ResetAge(s) PROVE LayerInv'
  BY <1>15 DEF ResetAge
<1>16. ASSUME NEW s \in Sessions, Handshake(s) PROVE LayerInv'
  BY <1>16 DEF Handshake
<1>17. ASSUME NEW s \in Sessions, HandshakeFails(s) PROVE LayerInv'
  BY <1>17 DEF HandshakeFails, Stop
<1>18. ASSUME NEW s \in Sessions, Connect(s) PROVE LayerInv'
  BY <1>18 DEF Connect, Connected, NotConnected, Stop
<1>19. ASSUME NEW s \in Sessions, Reconnect(s) PROVE LayerInv'
  BY <1>19 DEF Reconnect, Connected, NotConnected, Stop
<1>20. ASSUME NEW s \in Sessions, CheckPath(s) PROVE LayerInv'
  BY <1>20 DEF CheckPath, Throws, Stop
<1>21. ASSUME NEW s \in Sessions, Encrypt(s) PROVE LayerInv'
  BY <1>21 DEF Encrypt, Throws, Stop
<1>22. ASSUME NEW s \in Sessions, LookAtEntry(s) PROVE LayerInv'
  BY <1>22 DEF LookAtEntry
<1>23. ASSUME NEW s \in Sessions, Answer(s) PROVE LayerInv'
  BY <1>23 DEF Answer, PathAvailable
<1>24. ASSUME NEW s \in Sessions, ReadNothing(s) PROVE LayerInv'
  BY <1>24 DEF ReadNothing
<1>25. ASSUME NEW s \in Sessions, LookAtQueue(s) PROVE LayerInv'
  BY <1>25 DEF LookAtQueue
<1>26. ASSUME NEW s \in Sessions, Front(s) PROVE LayerInv'
  BY <1>26 DEF Front
<1>27. ASSUME NEW s \in Sessions, Pop(s) PROVE LayerInv'
  BY <1>27 DEF Pop
<1>28. CASE UNCHANGED vars
  BY <1>28 DEF vars
<1> QED
  BY <1>1, <1>2, <1>3, <1>4, <1>5, <1>6, <1>7, <1>8, <1>9, <1>10, <1>11, <1>12, <1>13,
     <1>14, <1>15, <1>16, <1>17, <1>18, <1>19, <1>20, <1>21, <1>22, <1>23, <1>24,
     <1>25, <1>26, <1>27, <1>28
     DEF Next, Application, Handler, Receiver, Sender

LEMMA QuietInit == Init => QuietInv
  BY DEF Init, QuietInv, Sole, Begun

LEMMA QuietStep ==
    Types /\ TimerInv /\ BegunInv /\ AloneInv /\ EntryInv /\ QuietInv /\ [Next]_vars => QuietInv'
<1> SUFFICES ASSUME Types, TimerInv, BegunInv, AloneInv, EntryInv, QuietInv, [Next]_vars
             PROVE  QuietInv'
  OBVIOUS
<1> USE SessionAssumption
    DEF Types, BegunInv, AloneInv, Alone, Ending, QuietInv, Sole, Begun,
        flagVars, timeVars, handlerVars, receiverVars, queueVars, historyVars
<1>1. CASE Tick
  BY <1>1 DEF Tick, TooOld, Least2
<1>2. CASE Push
  BY <1>2 DEF Push, Events
<1>3. ASSUME NEW s \in Sessions, Accept(s) PROVE QuietInv'
  BY <1>3 DEF Accept
<1>4. ASSUME NEW s \in Sessions, Leave(s) PROVE QuietInv'
  BY <1>4 DEF Leave
<1>5. ASSUME NEW s \in Sessions, HearsHalf(s) PROVE QuietInv'
  BY <1>5 DEF HearsHalf, Stop
<1>6. ASSUME NEW s \in Sessions, HearsDesign(s) PROVE QuietInv'
  BY <1>6 DEF HearsDesign, Hears
<1>7. ASSUME NEW s \in Sessions, HearsTooLate(s) PROVE QuietInv'
  BY <1>7 DEF HearsTooLate, Hears
<1>8. ASSUME NEW s \in Sessions, HearsInVain(s) PROVE QuietInv'
  BY <1>8 DEF HearsInVain, Hears
<1>9. ASSUME NEW s \in Sessions, NEW k \in {"addr", "user"}, HearsMessage(s, k) PROVE QuietInv'
  BY <1>9 DEF HearsMessage, Hears, ValidSocket, PathAvailable
<1>10. ASSUME NEW s \in Sessions, GoOn(s) PROVE QuietInv'
  BY <1>10 DEF GoOn
<1>11. ASSUME NEW s \in Sessions, Return(s) PROVE QuietInv'
  BY <1>11 DEF Return
<1>12. ASSUME NEW s \in Sessions, TimesOut(s) PROVE QuietInv'
  BY <1>12 DEF TimesOut, Stop
<1>13. ASSUME NEW s \in Sessions, DesignFails(s) PROVE QuietInv'
  BY <1>13 DEF DesignFails, Stop
<1>14. ASSUME NEW s \in Sessions, StartPathDesign(s) PROVE QuietInv'
  BY <1>14 DEF StartPathDesign, Events
<1>15. ASSUME NEW s \in Sessions, ResetAge(s) PROVE QuietInv'
  BY <1>15 DEF ResetAge
<1>16. ASSUME NEW s \in Sessions, Handshake(s) PROVE QuietInv'
  BY <1>16 DEF Handshake
<1>17. ASSUME NEW s \in Sessions, HandshakeFails(s) PROVE QuietInv'
  BY <1>17 DEF HandshakeFails, Stop
<1>18. ASSUME NEW s \in Sessions, Connect(s) PROVE QuietInv'
  BY <1>18 DEF Connect, Connected, NotConnected, Stop
<1>19. ASSUME NEW s \in Sessions, Reconnect(s) PROVE QuietInv'
  BY <1>19 DEF Reconnect, Connected, NotConnected, Stop
<1>20. ASSUME NEW s \in Sessions, CheckPath(s) PROVE QuietInv'
  BY <1>20 DEF CheckPath, Throws, Stop
<1>21. ASSUME NEW s \in Sessions, Encrypt(s) PROVE QuietInv'
  BY <1>21 DEF Encrypt, Throws, Stop
<1>22. ASSUME NEW s \in Sessions, LookAtEntry(s) PROVE QuietInv'
  BY <1>22 DEF LookAtEntry
<1>23. ASSUME NEW s \in Sessions, Answer(s) PROVE QuietInv'
  <2> SUFFICES ASSUME NEW t \in Sessions, Sole(t), designs <= 1, ~ expired, ~ failed
               PROVE  /\ owner' # None => designs = 1 /\ path' = 0
                      /\ rpc'[t] = "ended" => path' = 0 /\ (designs = 1 \/ stopElectron)
    BY <1>23 DEF Answer
  <2>1. Begun(s) /\ t = s
    BY <1>23 DEF Answer
  <2>2. age <= PathTimeout
    BY DEF TimerInv
  <2>3. rconn[s] # 0 /\ rconn[s] \in 0 .. designs /\ path \in 0 .. designs
    BY <1>23 DEF Answer, EntryInv
  <2>4. designs = 1 /\ (path # 0 => path = rconn[s])
    BY <2>3
  <2>5. PathAvailable <=> path # 0
    BY <2>2, <2>3 DEF PathAvailable
  <2>6. owner' = owner /\ path' = path
    BY <1>23, <2>4, <2>5 DEF Answer
  <2>7. rpc'[s] = "ended" => path = 0
    BY <1>23, <2>4, <2>5 DEF Answer
  <2> QED
    BY <2>1, <2>4, <2>6, <2>7
<1>24. ASSUME NEW s \in Sessions, ReadNothing(s) PROVE QuietInv'
  BY <1>24 DEF ReadNothing
<1>25. ASSUME NEW s \in Sessions, LookAtQueue(s) PROVE QuietInv'
  BY <1>25 DEF LookAtQueue
<1>26. ASSUME NEW s \in Sessions, Front(s) PROVE QuietInv'
  BY <1>26 DEF Front
<1>27. ASSUME NEW s \in Sessions, Pop(s) PROVE QuietInv'
  BY <1>27 DEF Pop
<1>28. CASE UNCHANGED vars
  BY <1>28 DEF vars
<1> QED
  BY <1>1, <1>2, <1>3, <1>4, <1>5, <1>6, <1>7, <1>8, <1>9, <1>10, <1>11, <1>12, <1>13,
     <1>14, <1>15, <1>16, <1>17, <1>18, <1>19, <1>20, <1>21, <1>22, <1>23, <1>24,
     <1>25, <1>26, <1>27, <1>28
     DEF Next, Application, Handler, Receiver, Sender

-----------------------------------------------------------------------------
(* Misuse. *)

LEMMA MisuseInit == Init => MisuseHasCause
  BY DEF Init, MisuseHasCause

LEMMA MisuseStep ==
    Types /\ BegunInv /\ AloneInv /\ EntryInv /\ MisuseHasCause /\ [Next]_vars => MisuseHasCause'
<1> SUFFICES ASSUME Types, BegunInv, AloneInv, EntryInv, MisuseHasCause, [Next]_vars
             PROVE  MisuseHasCause'
  OBVIOUS
<1> USE SessionAssumption
    DEF Types, BegunInv, AloneInv, EntryInv, Alone, Ending, Begun, MisuseHasCause,
        flagVars, timeVars, handlerVars, receiverVars, queueVars, historyVars
<1>1. CASE Tick
  BY <1>1 DEF Tick, TooOld, Least2
<1>2. CASE Push
  BY <1>2 DEF Push, Events
<1>3. ASSUME NEW s \in Sessions, Accept(s) PROVE MisuseHasCause'
  BY <1>3 DEF Accept
<1>4. ASSUME NEW s \in Sessions, Leave(s) PROVE MisuseHasCause'
  BY <1>4 DEF Leave
<1>5. ASSUME NEW s \in Sessions, HearsHalf(s) PROVE MisuseHasCause'
  BY <1>5 DEF HearsHalf, Stop
<1>6. ASSUME NEW s \in Sessions, HearsDesign(s) PROVE MisuseHasCause'
  BY <1>6 DEF HearsDesign, Hears
<1>7. ASSUME NEW s \in Sessions, HearsTooLate(s) PROVE MisuseHasCause'
  BY <1>7 DEF HearsTooLate, Hears
<1>8. ASSUME NEW s \in Sessions, HearsInVain(s) PROVE MisuseHasCause'
  BY <1>8 DEF HearsInVain, Hears
<1>9. ASSUME NEW s \in Sessions, NEW k \in {"addr", "user"}, HearsMessage(s, k) PROVE MisuseHasCause'
  BY <1>9 DEF HearsMessage, Hears, ValidSocket, PathAvailable
<1>10. ASSUME NEW s \in Sessions, GoOn(s) PROVE MisuseHasCause'
  BY <1>10 DEF GoOn
<1>11. ASSUME NEW s \in Sessions, Return(s) PROVE MisuseHasCause'
  BY <1>11 DEF Return
<1>12. ASSUME NEW s \in Sessions, TimesOut(s) PROVE MisuseHasCause'
  BY <1>12 DEF TimesOut, Stop
<1>13. ASSUME NEW s \in Sessions, DesignFails(s) PROVE MisuseHasCause'
  BY <1>13 DEF DesignFails, Stop
<1>14. ASSUME NEW s \in Sessions, StartPathDesign(s) PROVE MisuseHasCause'
  BY <1>14 DEF StartPathDesign, Events
<1>15. ASSUME NEW s \in Sessions, ResetAge(s) PROVE MisuseHasCause'
  BY <1>15 DEF ResetAge
<1>16. ASSUME NEW s \in Sessions, Handshake(s) PROVE MisuseHasCause'
  BY <1>16 DEF Handshake
<1>17. ASSUME NEW s \in Sessions, HandshakeFails(s) PROVE MisuseHasCause'
  BY <1>17 DEF HandshakeFails, Stop
<1>18. ASSUME NEW s \in Sessions, Connect(s) PROVE MisuseHasCause'
  BY <1>18 DEF Connect, Connected, NotConnected, Stop
<1>19. ASSUME NEW s \in Sessions, Reconnect(s) PROVE MisuseHasCause'
  BY <1>19 DEF Reconnect, Connected, NotConnected, Stop
<1>20. ASSUME NEW s \in Sessions, CheckPath(s) PROVE MisuseHasCause'
  BY <1>20 DEF CheckPath, Throws, Stop
<1>21. ASSUME NEW s \in Sessions, Encrypt(s) PROVE MisuseHasCause'
  BY <1>21 DEF Encrypt, Throws, Stop
<1>22. ASSUME NEW s \in Sessions, LookAtEntry(s) PROVE MisuseHasCause'
  BY <1>22 DEF LookAtEntry
<1>23. ASSUME NEW s \in Sessions, Answer(s) PROVE MisuseHasCause'
  BY <1>23 DEF Answer, PathAvailable
<1>24. ASSUME NEW s \in Sessions, ReadNothing(s) PROVE MisuseHasCause'
  BY <1>24 DEF ReadNothing
<1>25. ASSUME NEW s \in Sessions, LookAtQueue(s) PROVE MisuseHasCause'
  BY <1>25 DEF LookAtQueue
<1>26. ASSUME NEW s \in Sessions, Front(s) PROVE MisuseHasCause'
  BY <1>26 DEF Front
<1>27. ASSUME NEW s \in Sessions, Pop(s) PROVE MisuseHasCause'
  BY <1>27 DEF Pop
<1>28. CASE UNCHANGED vars
  BY <1>28 DEF vars
<1> QED
  BY <1>1, <1>2, <1>3, <1>4, <1>5, <1>6, <1>7, <1>8, <1>9, <1>10, <1>11, <1>12, <1>13,
     <1>14, <1>15, <1>16, <1>17, <1>18, <1>19, <1>20, <1>21, <1>22, <1>23, <1>24,
     <1>25, <1>26, <1>27, <1>28
     DEF Next, Application, Handler, Receiver, Sender

-----------------------------------------------------------------------------
(* Theorems. *)

LEMMA Invariance == Spec => []IInv
<1>1. Init => IInv
  BY TypeInit, CountInit, TimerInit, BegunInit, AloneInit, EntryInit, QuietInit, MisuseInit DEF IInv
<1>2. IInv /\ [Next]_vars => IInv'
  BY TypeStep, CountStep, TimerStep, BegunStep, OverlapStep, AloneStep, EntryStep, LayerStep,
     QuietStep, MisuseStep DEF IInv
<1> QED
  BY <1>1, <1>2, PTL DEF Spec

\* Every variable of the client keeps its type; in particular the age of the path
\* stays within PATH_TIMEOUT and one second for each design.
THEOREM TypeCorrect == Spec => []TypeOK
<1>1. IInv => TypeOK
  <2> SUFFICES ASSUME IInv PROVE TypeOK
    OBVIOUS
  <2>1. timers \in 0 .. designs /\ age \in 0 .. PathTimeout + MaxEvents
    BY PendingFinite, SessionAssumption DEF IInv, Types, CountInv
  <2>2. /\ entry \in [Sessions -> 0 .. MaxEvents] /\ rconn \in [Sessions -> 0 .. MaxEvents]
        /\ {crowded, expired, failed} \subseteq BOOLEAN
    BY SessionAssumption DEF IInv, Types
  <2> QED
    BY <2>1, <2>2 DEF IInv, Types, TypeOK
<1> QED
  BY <1>1, Invariance, PTL

\* A session is stopped by another only if the two ran at the same time.
THEOREM StopNeedsOverlap == Spec => StopOnlyByOverlap
<1>1. IInv /\ [Next]_vars =>
        [\A s \in Sessions : Return(s) /\ pc[s] \in {"check", "gone"} => s \in overlapped]_vars
  BY DEF IInv, OverlapInv, Return, Running
<1> QED
  BY <1>1, Invariance, PTL DEF Spec, StopOnlyByOverlap

\* A path is emptied early only when two timers counted.
THEOREM ExpiryLate == Spec => ExpiryIsLate
<1>1. IInv /\ [Next]_vars =>
        [Tick /\ path # 0 /\ path' = 0 => since >= PathTimeout \/ crowded]_vars
  BY SessionAssumption DEF IInv, Types, TimerInv, Tick, TooOld, Least2
<1> QED
  BY <1>1, Invariance, PTL DEF Spec, ExpiryIsLate

\* A message gets the layers of the path it is sent on, unless another session
\* ran or the path expired.
THEOREM LayersFit == Spec => LayersFitConnection
<1>1. IInv /\ [Next]_vars =>
        [\A s \in Sessions : Encrypt(s) => path = entry[s] \/ s \in overlapped \/ expired]_vars
  BY DEF IInv, LayerInv, Encrypt
<1> QED
  BY <1>1, Invariance, PTL DEF Spec, LayersFitConnection

\* What a session alone, with one path, can rely on.
THEOREM QuietWorks == Spec => []QuietSessionWorks
<1>1. IInv => QuietSessionWorks
  <2> SUFFICES ASSUME IInv, NEW s \in Sessions, Undisturbed(s), complete[s], entry[s] # 0, path # 0
               PROVE  /\ owner = None /\ entry[s] = path /\ active[s]
                      /\ rpc[s] = "look" \/ (rpc[s] = "read" /\ rconn[s] = path)
    BY DEF QuietSessionWorks
  <2>1. Sole(s) /\ designs <= 1 /\ ~ expired /\ ~ failed
    BY DEF Undisturbed, Sole
  <2>2. /\ path \in 0 .. designs /\ entry[s] \in 0 .. designs /\ rconn[s] \in 0 .. designs
        /\ designs \in Nat /\ rpc[s] \in {"none", "look", "read", "ended"}
    BY DEF IInv, Types
  <2>3. path = 1 /\ entry[s] = 1 /\ rconn[s] \in {0, 1}
    BY <2>1, <2>2
  <2>4. owner = None /\ rpc[s] # "ended"
    BY <2>1, <2>3 DEF IInv, QuietInv
  <2>5. active[s] /\ rpc[s] # "none" /\ (rpc[s] = "read" => rconn[s] # 0)
    BY <2>1 DEF IInv, EntryInv, BegunInv, Sole
  <2> QED
    BY <2>2, <2>3, <2>4, <2>5
<1> QED
  BY <1>1, Invariance, PTL

\* The queue and the handler's variables are misused only when there is a second
\* session, a connection only after a relay failed.
THEOREM MisuseCauses == Spec => []MisuseHasCause
<1>1. IInv => MisuseHasCause
  BY DEF IInv
<1> QED
  BY <1>1, Invariance, PTL
=============================================================================
