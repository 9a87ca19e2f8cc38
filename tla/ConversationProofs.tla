-------------------------- MODULE ConversationProofs ------------------------
(***************************************************************************)
(* Proofs about Conversation, for any hosts and any number of messages and  *)
(* answers: the types, the causes of damage, and which message can be sent  *)
(* twice.                                                                   *)
(***************************************************************************)
EXTENDS Conversation, SequenceTheorems, TLAPS

-----------------------------------------------------------------------------
(* The inductive invariant. *)

\* Who holds the deleted conversation, and what the handler is about to use.
StartInv == hpc = "start" => lpc = "none"
DeletedInv == deleted => old \/ (hpc = "ended" /\ lpc = "none")
UseInv == hpc = "use" => msg # NoMessage

\* A connection is closed, and one that the handler has found is removed, only
\* when its host is away.
ClosedInv == \A h \in Hosts : dest[h] = "closed" => h \notin up
FoundInv == hpc = "use" /\ dest[msg.host] = "none" => msg.host \in (Hosts \ Electrons) \ up

\* What waits to be passed back is an answer.
AnswerInv == (box # << >> \/ \E h \in Hosts : pending[h] # "no") => answers > 0

DamageInv == /\ StartInv /\ DeletedInv /\ UseInv /\ ClosedInv /\ FoundInv /\ AnswerInv
             /\ DamageHasCause

\* How often a message has been sent, before and after the handler's next try.
SentInv ==
    /\ \A m \in 1 .. MaxMessages : m > arrived => sent[m] = 0
    /\ \A m \in 1 .. MaxMessages : m < arrived => sent[m] <= 1
    /\ prev = "open" => sent[arrived] <= 1
    /\ hpc \in {"start", "top", "send", "use"} =>
          /\ prev = "open" => sent[arrived] = 0
          /\ msg # NoMessage => sent[arrived] <= 1
          /\ msg # NoMessage /\ sent[arrived] = 1 => msg.kind = "user"
    /\ sent[arrived] <= 2
    /\ sent[arrived] = 2 => msg.kind \in {"user", "none"}

IInv == TypeOK /\ DamageInv /\ SentInv

-----------------------------------------------------------------------------
(* Types. *)

CrashType == down \in BOOLEAN /\ damage \subseteq {"double", "stale", "iterator", "freed", "lost", "format"}
HostType == /\ dest \in [Hosts -> {"none", "open", "closed"}]
            /\ pending \in [Hosts -> {"no", "plain", "odd"}]

LEMMA TypeInit == Init => TypeOK
<1> SUFFICES ASSUME Init PROVE TypeOK
  OBVIOUS
<1>1. box \in Seq({"plain", "odd"})
  BY EmptySeq DEF Init
<1>2. sent \in [1 .. MaxMessages -> Nat] /\ arrived \in 1 .. MaxMessages
  BY ConversationAssumption DEF Init
<1>3. /\ dest \in [Hosts -> {"none", "open", "closed"}]
      /\ pending \in [Hosts -> {"no", "plain", "odd"}]
      /\ answers \in 0 .. MaxAnswers
  BY ConversationAssumption DEF Init
<1>4. old \in BOOLEAN /\ inMap \in BOOLEAN /\ deleted \in BOOLEAN /\ down \in BOOLEAN /\ nextUp \in BOOLEAN
  BY DEF Init
<1> QED
  BY <1>1, <1>2, <1>3, <1>4 DEF Init, TypeOK

LEMMA TypeStep == TypeOK /\ [Next]_vars => TypeOK'
<1> SUFFICES ASSUME TypeOK, [Next]_vars PROVE TypeOK'
  OBVIOUS
<1> USE ConversationAssumption
    DEF TypeOK, CrashType, HostType, objVars, crashVars, prevVars, nextVars, hostVars, passVars
<1>1. CASE Expire
  BY <1>1 DEF Expire
<1>2. CASE NextFails
  <2>1. nextUp' \in BOOLEAN
    BY <1>2 DEF NextFails
  <2> QED
    BY <2>1, <1>2 DEF NextFails
<1>3. CASE PreviousCloses
  BY <1>3 DEF PreviousCloses
<1>4. CASE ReceiveMessage
  BY <1>4 DEF ReceiveMessage
<1>5. CASE ReceiveHalf
  BY <1>5 DEF ReceiveHalf, KeepsMessage
<1>6. CASE PassBack
  <2>1. CrashType'
    BY <1>6 DEF PassBack, Harm
  <2>2. answers' \in 0 .. MaxAnswers
    BY <1>6 DEF PassBack
  <2> QED
    BY <2>1, <2>2, <1>6 DEF PassBack
<1>7. ASSUME NEW h \in Hosts, HostFails(h) PROVE TypeOK'
  BY <1>7 DEF HostFails
<1>8. ASSUME NEW h \in Hosts, HostAnswers(h) PROVE TypeOK'
  BY <1>8 DEF HostAnswers
<1>9. CASE ConnectNext
  BY <1>9 DEF ConnectNext
<1>10. CASE NextUnreachable
  BY <1>10 DEF NextUnreachable, Remove, Harm
<1>11. CASE ListenToHosts
  BY <1>11 DEF ListenToHosts
<1>12. CASE Fresh
  BY <1>12 DEF Fresh
<1>13. CASE HandlerExpires
  BY <1>13 DEF HandlerExpires, Remove, Harm
<1>14. CASE HandlerStale
  BY <1>14 DEF HandlerStale, Harm
<1>15. CASE PassOn
  BY <1>15 DEF PassOn, NoMessage
<1>16. CASE NothingToSend
  BY <1>16 DEF NothingToSend, NoMessage
<1>17. CASE NotSent
  BY <1>17 DEF NotSent
<1>18. CASE FindConnection
  <2>1. msg.host \in Hosts
    BY <1>18 DEF FindConnection
  <2>2. HostType'
    BY <2>1, <1>18 DEF FindConnection
  <2> QED
    BY <2>2, <1>18 DEF FindConnection
<1>19. CASE Send
  <2>1. CrashType'
    BY <1>19 DEF Send, Harm
  <2>2. HostType'
    BY <1>19 DEF Send
  <2>3. sent' \in [1 .. MaxMessages -> Nat]
    BY <1>19 DEF Send
  <2> QED
    BY <2>1, <2>2, <2>3, <1>19 DEF Send
<1>20. CASE SendFails
  <2>1. dest' \in [Hosts -> {"none", "open", "closed"}]
    BY <1>20 DEF SendFails
  <2> QED
    BY <2>1, <1>20 DEF SendFails
<1>21. CASE ConnectionGone
  BY <1>21 DEF ConnectionGone, Harm
<1>22. CASE ReceiveNothing
  BY <1>22 DEF ReceiveNothing, NoMessage
<1>23. CASE ListenerStale
  BY <1>23 DEF ListenerStale, Harm
<1>24. CASE ListenerExpires
  BY <1>24 DEF ListenerExpires, Remove, Harm
<1>25. CASE ListenerReports
  BY <1>25 DEF ListenerReports
<1>26. CASE ReadNothing
  BY <1>26 DEF ReadNothing
<1>27. CASE BeginPass
  BY <1>27 DEF BeginPass
<1>28. ASSUME NEW h \in Hosts, Visit(h) PROVE TypeOK'
  BY <1>28 DEF Visit
<1>29. CASE Collect
  BY <1>29 DEF Collect, Legit
<1>30. CASE CollectFails
  <2>1. CrashType'
    BY <1>30 DEF CollectFails, Harm
  <2>2. HostType'
    BY <1>30 DEF CollectFails
  <2> QED
    BY <2>1, <2>2, <1>30 DEF CollectFails
<1>31. CASE CollectGone
  BY <1>31 DEF CollectGone
<1>32. CASE EndPass
  BY <1>32 DEF EndPass
<1>33. CASE Drain
  BY <1>33 DEF Drain, AfterPass
<1>34. CASE Forward
  <2>1. box' \in Seq({"plain", "odd"})
    BY <1>34, HeadTailProperties DEF Forward
  <2>2. CrashType'
    BY <1>34 DEF Forward
  <2> QED
    BY <2>1, <2>2, <1>34 DEF Forward
<1>35. CASE NextPass
  BY <1>35 DEF NextPass
<1>36. CASE UNCHANGED vars
  BY <1>36 DEF vars
<1> QED
  BY <1>1, <1>2, <1>3, <1>4, <1>5, <1>6, <1>7, <1>8, <1>9, <1>10, <1>11, <1>12, <1>13,
     <1>14, <1>15, <1>16, <1>17, <1>18, <1>19, <1>20, <1>21, <1>22, <1>23, <1>24, <1>25,
     <1>26, <1>27, <1>28, <1>29, <1>30, <1>31, <1>32, <1>33, <1>34, <1>35, <1>36 DEF Next,
     Outside, Handler, Listener

-----------------------------------------------------------------------------
(* Damage. *)

LEMMA DamageInit == Init => DamageInv
  BY ConversationAssumption
     DEF Init, DamageInv, StartInv, DeletedInv, UseInv, ClosedInv, FoundInv, AnswerInv,
         DamageHasCause

LEMMA DamageStep == TypeOK /\ DamageInv /\ [Next]_vars => DamageInv'
<1> SUFFICES ASSUME TypeOK, DamageInv, [Next]_vars PROVE DamageInv'
  OBVIOUS
<1> USE ConversationAssumption
    DEF TypeOK, objVars, crashVars, prevVars, nextVars, hostVars, passVars,
        DamageInv, StartInv, DeletedInv, UseInv, ClosedInv, FoundInv, AnswerInv, DamageHasCause
<1>1. CASE Expire
  BY <1>1 DEF Expire
<1>2. CASE NextFails
  BY <1>2 DEF NextFails
<1>3. CASE PreviousCloses
  BY <1>3 DEF PreviousCloses
<1>4. CASE ReceiveMessage
  BY <1>4 DEF ReceiveMessage
<1>5. CASE ReceiveHalf
  BY <1>5 DEF ReceiveHalf, KeepsMessage
<1>6. CASE PassBack
  <2>1. /\ damage \subseteq damage' /\ damage' \subseteq damage \cup {"stale"}
        /\ "stale" \in damage' => "stale" \in damage \/ deleted
        /\ down' => down \/ damage' # {}
    BY <1>6 DEF PassBack, Harm
  <2>2. answers' > 0
    BY <1>6 DEF PassBack
  <2>3. DamageHasCause'
    BY <2>1, <2>2, <1>6 DEF PassBack
  <2> QED
    BY <2>2, <2>3, <1>6 DEF PassBack
<1>7. ASSUME NEW h \in Hosts, HostFails(h) PROVE DamageInv'
  BY <1>7 DEF HostFails
<1>8. ASSUME NEW h \in Hosts, HostAnswers(h) PROVE DamageInv'
  BY <1>8 DEF HostAnswers
<1>9. CASE ConnectNext
  BY <1>9 DEF ConnectNext
<1>10. CASE NextUnreachable
  BY <1>10 DEF NextUnreachable, Remove, Harm
<1>11. CASE ListenToHosts
  BY <1>11 DEF ListenToHosts
<1>12. CASE Fresh
  BY <1>12 DEF Fresh
<1>13. CASE HandlerExpires
  BY <1>13 DEF HandlerExpires, Remove, Harm
<1>14. CASE HandlerStale
  BY <1>14 DEF HandlerStale, Harm
<1>15. CASE PassOn
  BY <1>15 DEF PassOn, NoMessage
<1>16. CASE NothingToSend
  BY <1>16 DEF NothingToSend, NoMessage
<1>17. CASE NotSent
  BY <1>17 DEF NotSent
<1>18. CASE FindConnection
  BY <1>18 DEF FindConnection, Reusable
<1>19. CASE Send
  <2>1. msg.host \in Hosts /\ sent'[arrived] > 0 /\ arrived \in 1 .. MaxMessages
    BY <1>19 DEF Send, NoMessage
  <2>2. /\ damage \subseteq damage' /\ damage' \subseteq damage \cup {"freed"}
        /\ "freed" \in damage' => "freed" \in damage \/ msg.host \in Electrons
        /\ down' => down \/ damage' # {}
    BY <1>19 DEF Send, Harm, RemovesConnection
  <2>3. \A m \in 1 .. MaxMessages : sent[m] > 0 => sent'[m] > 0
    BY <1>19 DEF Send
  <2>4. DamageHasCause'
    BY <2>1, <2>2, <2>3, <1>19, ZenonT(30) DEF Send
  <2>5. /\ \A h \in Hosts : dest'[h] = "closed" => dest[h] = "closed"
        /\ \A h \in Hosts : pending'[h] # "no" => pending[h] # "no"
    BY <2>1, <1>19 DEF Send
  <2> QED
    BY <2>4, <2>5, <1>19 DEF Send
<1>20. CASE SendFails
  BY <1>20 DEF SendFails
<1>21. CASE ConnectionGone
  BY <1>21 DEF ConnectionGone, Harm
<1>22. CASE ReceiveNothing
  BY <1>22 DEF ReceiveNothing, NoMessage
<1>23. CASE ListenerStale
  BY <1>23 DEF ListenerStale, Harm
<1>24. CASE ListenerExpires
  BY <1>24 DEF ListenerExpires, Remove, Harm
<1>25. CASE ListenerReports
  BY <1>25 DEF ListenerReports
<1>26. CASE ReadNothing
  BY <1>26 DEF ReadNothing
<1>27. CASE BeginPass
  BY <1>27 DEF BeginPass
<1>28. ASSUME NEW h \in Hosts, Visit(h) PROVE DamageInv'
  BY <1>28 DEF Visit
<1>29. CASE Collect
  BY <1>29 DEF Collect, Legit
<1>30. CASE CollectFails
  <2>1. cursor \in Hosts /\ cursor \notin up
    BY <1>30 DEF CollectFails
  <2>2. /\ damage \subseteq damage' /\ damage' \subseteq damage \cup {"iterator"}
        /\ "iterator" \in damage' => "iterator" \in damage \/ cursor \notin Electrons
        /\ down' => down \/ damage' # {}
    BY <1>30 DEF CollectFails, Harm, Removable
  <2>3. DamageHasCause'
    BY <2>1, <2>2, <1>30 DEF CollectFails
  <2>4. /\ \A h \in Hosts : dest'[h] = "closed" => dest[h] = "closed"
        /\ \A h \in Hosts : dest'[h] = "none" =>
              dest[h] = "none" \/ h \in (Hosts \ Electrons) \ up
        /\ \A h \in Hosts : pending'[h] # "no" => pending[h] # "no"
    BY <2>1, <1>30 DEF CollectFails, Removable
  <2>5. hpc = "use" => msg.host \in Hosts
    BY DEF NoMessage
  <2> QED
    BY <2>3, <2>4, <2>5, <1>30 DEF CollectFails
<1>31. CASE CollectGone
  BY <1>31 DEF CollectGone
<1>32. CASE EndPass
  BY <1>32 DEF EndPass
<1>33. CASE Drain
  BY <1>33 DEF Drain, AfterPass
<1>34. CASE Forward
  <2>1. answers > 0
    BY <1>34 DEF Forward
  <2>2. /\ damage \subseteq damage' /\ damage' \subseteq damage \cup {"format"}
        /\ down' => down \/ damage' # {}
    BY <1>34 DEF Forward
  <2> QED
    BY <2>1, <2>2, <1>34 DEF Forward
<1>35. CASE NextPass
  BY <1>35 DEF NextPass
<1>36. CASE UNCHANGED vars
  BY <1>36 DEF vars
<1> QED
  BY <1>1, <1>2, <1>3, <1>4, <1>5, <1>6, <1>7, <1>8, <1>9, <1>10, <1>11, <1>12, <1>13,
     <1>14, <1>15, <1>16, <1>17, <1>18, <1>19, <1>20, <1>21, <1>22, <1>23, <1>24, <1>25,
     <1>26, <1>27, <1>28, <1>29, <1>30, <1>31, <1>32, <1>33, <1>34, <1>35, <1>36 DEF Next,
     Outside, Handler, Listener

-----------------------------------------------------------------------------
(* Messages that are sent twice. *)

LEMMA SentInit == Init => SentInv
  BY ConversationAssumption DEF Init, SentInv

LEMMA SentStep == TypeOK /\ UseInv /\ SentInv /\ [Next]_vars => SentInv'
<1> SUFFICES ASSUME TypeOK, UseInv, SentInv, [Next]_vars PROVE SentInv'
  OBVIOUS
<1> USE ConversationAssumption
    DEF TypeOK, objVars, crashVars, prevVars, nextVars, hostVars, passVars, SentInv, UseInv
<1>1. CASE Expire
  BY <1>1 DEF Expire
<1>2. CASE NextFails
  BY <1>2 DEF NextFails
<1>3. CASE PreviousCloses
  BY <1>3 DEF PreviousCloses
<1>4. CASE ReceiveMessage
  BY <1>4 DEF ReceiveMessage
<1>5. CASE ReceiveHalf
  BY <1>5 DEF ReceiveHalf, KeepsMessage
<1>6. CASE PassBack
  BY <1>6 DEF PassBack, Harm
<1>7. ASSUME NEW h \in Hosts, HostFails(h) PROVE SentInv'
  BY <1>7 DEF HostFails
<1>8. ASSUME NEW h \in Hosts, HostAnswers(h) PROVE SentInv'
  BY <1>8 DEF HostAnswers
<1>9. CASE ConnectNext
  BY <1>9 DEF ConnectNext
<1>10. CASE NextUnreachable
  BY <1>10 DEF NextUnreachable, Remove, Harm
<1>11. CASE ListenToHosts
  BY <1>11 DEF ListenToHosts
<1>12. CASE Fresh
  BY <1>12 DEF Fresh
<1>13. CASE HandlerExpires
  BY <1>13 DEF HandlerExpires, Remove, Harm
<1>14. CASE HandlerStale
  BY <1>14 DEF HandlerStale, Harm
<1>15. CASE PassOn
  BY <1>15 DEF PassOn, NoMessage
<1>16. CASE NothingToSend
  BY <1>16 DEF NothingToSend, NoMessage
<1>17. CASE NotSent
  BY <1>17 DEF NotSent
<1>18. CASE FindConnection
  BY <1>18 DEF FindConnection, Reusable
<1>19. CASE Send
  BY <1>19 DEF Send, Harm, RemovesConnection
<1>20. CASE SendFails
  BY <1>20 DEF SendFails
<1>21. CASE ConnectionGone
  BY <1>21 DEF ConnectionGone, Harm
<1>22. CASE ReceiveNothing
  BY <1>22 DEF ReceiveNothing, NoMessage
<1>23. CASE ListenerStale
  BY <1>23 DEF ListenerStale, Harm
<1>24. CASE ListenerExpires
  BY <1>24 DEF ListenerExpires, Remove, Harm
<1>25. CASE ListenerReports
  BY <1>25 DEF ListenerReports
<1>26. CASE ReadNothing
  BY <1>26 DEF ReadNothing
<1>27. CASE BeginPass
  BY <1>27 DEF BeginPass
<1>28. ASSUME NEW h \in Hosts, Visit(h) PROVE SentInv'
  BY <1>28 DEF Visit
<1>29. CASE Collect
  BY <1>29 DEF Collect, Legit
<1>30. CASE CollectFails
  BY <1>30 DEF CollectFails, Harm, Removable
<1>31. CASE CollectGone
  BY <1>31 DEF CollectGone
<1>32. CASE EndPass
  BY <1>32 DEF EndPass
<1>33. CASE Drain
  BY <1>33 DEF Drain, AfterPass
<1>34. CASE Forward
  BY <1>34 DEF Forward
<1>35. CASE NextPass
  BY <1>35 DEF NextPass
<1>36. CASE UNCHANGED vars
  BY <1>36 DEF vars
<1> QED
  BY <1>1, <1>2, <1>3, <1>4, <1>5, <1>6, <1>7, <1>8, <1>9, <1>10, <1>11, <1>12, <1>13,
     <1>14, <1>15, <1>16, <1>17, <1>18, <1>19, <1>20, <1>21, <1>22, <1>23, <1>24, <1>25,
     <1>26, <1>27, <1>28, <1>29, <1>30, <1>31, <1>32, <1>33, <1>34, <1>35, <1>36 DEF Next,
     Outside, Handler, Listener

-----------------------------------------------------------------------------
(* Theorems. *)

LEMMA Invariance == Spec => []IInv
<1>1. Init => IInv
  BY TypeInit, DamageInit, SentInit DEF IInv
<1>2. IInv /\ [Next]_vars => IInv'
  BY TypeStep, DamageStep, SentStep DEF IInv, DamageInv
<1> QED
  BY <1>1, <1>2, PTL DEF Spec

\* Every variable of a conversation keeps its type.
THEOREM TypeCorrect == Spec => []TypeOK
<1>1. IInv => TypeOK
  BY DEF IInv
<1> QED
  BY <1>1, Invariance, PTL

\* The relay's memory is misused only in the listed cases, whatever its hosts are
\* and however many messages pass.
THEOREM DamageCauses == Spec => []DamageHasCause
<1>1. IInv => DamageHasCause
  BY DEF IInv, DamageInv
<1> QED
  BY <1>1, Invariance, PTL

\* A message reaches its host twice only after the connection broke in the one
\* that follows a message to a user name, and never three times.
THEOREM DuplicateCause == Spec => []DuplicateOnlyAfterCut
<1>1. IInv => DuplicateOnlyAfterCut
  <2> SUFFICES ASSUME IInv, NEW m \in 1 .. MaxMessages, sent[m] > 1
               PROVE  sent[m] = 2 /\ m = arrived /\ prev = "closed" /\ msg.kind \in {"user", "none"}
    BY DEF DuplicateOnlyAfterCut
  <2>1. arrived \in 1 .. MaxMessages /\ sent[m] \in Nat /\ prev \in {"open", "closed"}
    BY DEF IInv, TypeOK
  <2>2. m = arrived
    BY <2>1, ConversationAssumption DEF IInv, SentInv
  <2> QED
    BY <2>1, <2>2 DEF IInv, SentInv
<1> QED
  BY <1>1, Invariance, PTL
=============================================================================
