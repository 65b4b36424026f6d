------------------------ MODULE LoggerDeliveryProofs ------------------------
(***************************************************************************)
(* Proof that internal_log_routine() is Delivery, in both modes and while  *)
(* the sinks are configured, for applications that add and discard sinks   *)
(* only before they log and later at most replace one.                     *)
(***************************************************************************)
EXTENDS LoggerPipeProofs

\* The refinement mapping.
TakenBy(s) == {m \in Message : s \in Present /\ Accepts(logger_sink_map[s], m)}
InHand == {msg[t] : t \in {u \in Threads : InRoutine(u)}}
WaitingAt(s) == {msg[t] : t \in {u \in Threads : Carries(u, s)}}

Takes == [s \in Sinks |-> TakenBy(s)]
Given == handled \cup InHand
Waiting == [s \in Sinks |-> WaitingAt(s)]

LEMMA OnlyInRoutine ==
  ASSUME NEW t \in Threads, NEW s \in Sinks
  PROVE  /\ Carries(t, s) => pc[t] \in RoutePC
         /\ Carries(t, s)' => pc'[t] \in RoutePC
BY DEF Carries, RoutePC

-----------------------------------------------------------------------------
(* What a thread in the routine has in hand.                               *)

\* A message that was taken from the queue is not the one at its front, and
\* none was taken twice.
LEMMA TakenOnce ==
  ASSUME IInv, Trail, NEW i \in DOMAIN taken, NEW j \in DOMAIN History, i < j
  PROVE  taken[i] # History[j]
<1>1. /\ Len(taken) \in Nat /\ Len(log_msg_queue) \in Nat /\ History \in Seq(Message)
      /\ DOMAIN taken = 1 .. Len(taken)
      /\ DOMAIN History = 1 .. Len(taken) + Len(log_msg_queue)
      /\ \A k \in DOMAIN taken : History[k] = taken[k]
  BY HistoryParts
<1>2. i \in DOMAIN History /\ History[i] = taken[i] BY ONLY <1>1, i \in DOMAIN taken
<1>3. History[i].seq \in Nat
  <2>1. History[i] \in Message BY <1>1, <1>2
  <2> QED BY <2>1, LoggerAssumption DEF Message
<1>4. ASSUME taken[i] = History[j] PROVE FALSE
  <2>1. History[i] = History[j] BY <1>2, <1>4
  <2>2. History[i].seq < History[j].seq
    BY <1>2, <2>1 DEF Trail, InSubmissionOrder
  <2> QED BY <1>3, <2>1, <2>2
<1> QED BY <1>4

\* The routine is not done with the message of a thread that is in it.
LEMMA InHandUnhandled ==
  ASSUME IInv, Trail, NEW t \in Threads, pc[t] \in RoutePC
  PROVE  msg[t] \in Message /\ msg[t] \notin handled
<1>1. msg[t] \in Message /\ msg[t] # NoMsg
  BY NoMsgIsNone DEF IInv, LocalsFit
<1>2. CASE Async
  <2>1. t = Worker BY <1>2 DEF Trail, Threading, ByMode, Threads
  <2>2. taken # << >> /\ msg[Worker] = taken[Len(taken)]
    BY <1>1, <2>1 DEF Trail, Threading, WorkersMessage
  <2>3. Len(taken) \in Nat /\ DOMAIN taken = 1 .. Len(taken) /\ Len(taken) # 0
        /\ Len(log_msg_queue) \in Nat
        /\ DOMAIN History = 1 .. Len(taken) + Len(log_msg_queue)
        /\ \A k \in DOMAIN taken : History[k] = taken[k]
    <3>1. taken \in Seq(Message) BY DEF IInv, TypeOK
    <3>2. Len(taken) # 0 BY <2>2, <3>1
    <3> QED BY <3>2, HistoryParts
  <2>4. Done = Len(taken) - 1 BY <1>1, <2>1 DEF Done
  <2>5. handled = {taken[i] : i \in 1 .. Done} BY <1>2 DEF Trail, HandledSoFar
  <2>6. ASSUME NEW i \in 1 .. Done PROVE taken[i] # msg[t]
    <3>1. /\ i \in DOMAIN taken /\ Len(taken) \in DOMAIN taken
          /\ Len(taken) \in DOMAIN History /\ i < Len(taken)
      BY ONLY <2>3, <2>4, i \in 1 .. Done
    <3>2. taken[i] # History[Len(taken)] BY <3>1, TakenOnce
    <3> QED BY <2>1, <2>2, <2>3, <3>1, <3>2
  <2> QED BY <1>1, <2>5, <2>6
<1>3. CASE ~ Async
  <2>1. pc[Worker] \in {"exited", "crashed"} BY <1>3 DEF IInv, DtorAlone
  <2>2. t \in App BY <2>1 DEF Threads, RoutePC
  <2>3. /\ msg[t].from = t /\ msg[t].seq = Submitted(t) + 1 /\ Submitted(t) \in Nat
    BY <1>1, <2>2, Counters DEF Trail
  <2>4. \A m \in handled : m.from = t => m.seq <= Submitted(t)
    BY <1>3, <2>2 DEF Trail, HandledSoFar
  <2>5. ASSUME msg[t] \in handled PROVE FALSE
    <3>1. Submitted(t) + 1 <= Submitted(t) BY <2>3, <2>4, <2>5
    <3> QED BY ONLY <2>3, <3>1
  <2> QED BY <1>1, <2>5
<1> QED BY <1>2, <1>3

\* write_log() gives the routine a message that it never had, in synchronous
\* mode ...
LEMMA LoggedIsNew ==
  ASSUME IInv, Trail, ~ Async, NEW t \in App, NEW l \in Levels, WriteLog(t, l)
  PROVE  msg'[t] \in Message /\ msg'[t] \notin Given
<1>1. /\ pc[t] = "idle" /\ sent[t] \in Nat /\ sent[t] < MaxMsgs /\ MaxMsgs \in Nat
      /\ msg'[t] = [from |-> t, seq |-> sent[t] + 1, lvl |-> l]
  BY LoggerAssumption DEF WriteLog, IInv, TypeOK, Threads
<1>2. msg'[t] \in Message
  <2>1. sent[t] + 1 \in 1 .. MaxMsgs + 1 BY ONLY <1>1
  <2>2. l \in LOG_LEVEL
    BY LoggerAssumption DEF LOG_LEVEL, EAL_DEBUG, EAL_STACK, EAL_INTERNAL
  <2> QED BY <1>1, <2>1, <2>2 DEF Message
<1>3. msg[t] = NoMsg
  BY <1>1 DEF Trail, Threading, OwnMessage, RoutePC
<1>4. ASSUME msg'[t] \in handled PROVE FALSE
  <2>1. msg'[t].from = t /\ msg'[t].seq = sent[t] + 1 BY <1>1
  <2>2. Submitted(t) = sent[t] BY <1>3 DEF Submitted
  <2>3. sent[t] + 1 <= sent[t] BY <1>4, <2>1, <2>2 DEF Trail, HandledSoFar
  <2> QED BY ONLY <1>1, <2>3
<1>5. ASSUME NEW u \in Threads, InRoutine(u) PROVE msg[u] # msg'[t]
  <2>1. pc[Worker] \in {"exited", "crashed"} BY DEF IInv, DtorAlone
  <2>2. u \in App /\ u # t BY <1>1, <1>5, <2>1 DEF Threads, RoutePC, InRoutine
  <2>3. msg[u].from = u BY <1>5, <2>2, Counters DEF Trail, InRoutine
  <2> QED BY <1>1, <2>2, <2>3
<1> QED BY <1>2, <1>4, <1>5 DEF Given, InHand

\* ... and pop() in asynchronous mode.
LEMMA PoppedIsNew ==
  ASSUME IInv, Trail, Async, Pop
  PROVE  msg'[Worker] \in Message /\ msg'[Worker] \notin Given
<1>1. /\ pc[Worker] = "pop" /\ log_msg_queue # << >> /\ Worker \in Threads
      /\ msg'[Worker] = Head(log_msg_queue)
  BY DEF Pop, LogMsgQueue!Pop, IInv, TypeOK, Threads
<1>2. /\ log_msg_queue \in Seq(Message) /\ 1 \in DOMAIN log_msg_queue
      /\ Head(log_msg_queue) = log_msg_queue[1] /\ Head(log_msg_queue) \in Message
  BY <1>1 DEF IInv, TypeOK
<1>3. /\ Len(taken) \in Nat /\ Len(log_msg_queue) \in Nat
      /\ DOMAIN taken = 1 .. Len(taken) /\ DOMAIN log_msg_queue = 1 .. Len(log_msg_queue)
      /\ DOMAIN History = 1 .. Len(taken) + Len(log_msg_queue)
      /\ History[Len(taken) + 1] = log_msg_queue[1]
  BY <1>2, HistoryParts
<1>4. Done \in {Len(taken), Len(taken) - 1} BY DEF Done
<1>5. handled = {taken[i] : i \in 1 .. Done} BY DEF Trail, HandledSoFar
<1>6. ASSUME NEW i \in 1 .. Done PROVE taken[i] # msg'[Worker]
  <2>1. i \in DOMAIN taken /\ Len(taken) + 1 \in DOMAIN History /\ i < Len(taken) + 1
    BY ONLY <1>2, <1>3, <1>4, i \in 1 .. Done
  <2>2. taken[i] # History[Len(taken) + 1] BY <2>1, TakenOnce
  <2> QED BY <1>1, <1>2, <1>3, <2>2
<1>7. \A u \in Threads : ~ InRoutine(u)
  BY <1>1 DEF Trail, Threading, ByMode, Threads, InRoutine, RoutePC
<1> QED BY <1>1, <1>2, <1>5, <1>6, <1>7 DEF Given, InHand

-----------------------------------------------------------------------------
(* The steps of Delivery.                                                  *)

\* Nothing moves in the routine, whatever happens to the sinks.
LEMMA ConfigureStep ==
  ASSUME WalksStay PROVE Routine!Next
<1>1. Given' = Given
  <2>1. \A t \in Threads : InRoutine(t)' <=> InRoutine(t) BY DEF WalksStay, InRoutine
  <2>2. \A t \in Threads : InRoutine(t) => msg'[t] = msg[t] BY DEF WalksStay, InRoutine
  <2>3. InHand' = InHand BY <2>1, <2>2 DEF InHand
  <2> QED BY <2>3 DEF Given, WalksStay
<1>2. Waiting' = Waiting
  <2>1. ASSUME NEW s \in Sinks PROVE WaitingAt(s)' = WaitingAt(s)
    <3>1. \A t \in Threads : Carries(t, s)' = Carries(t, s) BY DEF WalksStay
    <3>2. \A t \in Threads : Carries(t, s) => msg'[t] = msg[t]
      BY OnlyInRoutine DEF WalksStay
    <3> QED BY <3>1, <3>2 DEF WaitingAt
  <2> QED BY <2>1 DEF Waiting
<1>3. Takes' \in [Sinks -> SUBSET Message] BY DEF Takes, TakenBy
<1>4. out' = out /\ handled' = handled BY DEF WalksStay
<1>5. Routine!Configure
  BY <1>1, <1>2, <1>3, <1>4
  DEF Routine!Configure, Takes, TakenBy, Given, InHand, Waiting, WaitingAt
<1> QED BY <1>5 DEF Routine!Next

\* The sinks stay what they are, and so does what they take.
LEMMA TakesStay == ASSUME logger_sink_map' = logger_sink_map PROVE Takes' = Takes
BY DEF Takes, TakenBy, Present, Accepts

\* t begins to route a new message.
LEMMA GiveStep ==
  ASSUME NEW t \in Threads, pc[t] \notin RoutePC, pc'[t] = "route_begin",
         msg'[t] \in Message, msg'[t] \notin Given,
         \A u \in Threads \ {t} : pc'[u] = pc[u] /\ it'[u] = it[u] /\ msg'[u] = msg[u],
         UNCHANGED <<logger_sink_map, handled, out>>
  PROVE  Routine!Next
<1>1. PICK m \in Message : m = msg'[t] /\ m \notin Given OBVIOUS
<1>2. Given' = Given \cup {m}
  <2>1. \A u \in Threads \ {t} : InRoutine(u)' <=> InRoutine(u) BY DEF InRoutine
  <2>2. ~ InRoutine(t) /\ InRoutine(t)' BY DEF InRoutine, RoutePC
  <2>3. InHand' = InHand \cup {m} BY <1>1, <2>1, <2>2 DEF InHand
  <2> QED BY <2>3 DEF Given
<1>3. Waiting' = [s \in Sinks |-> Waiting[s] \cup {m}]
  <2>1. ASSUME NEW s \in Sinks PROVE WaitingAt(s)' = WaitingAt(s) \cup {m}
    <3>1. \A u \in Threads \ {t} : Carries(u, s)' <=> Carries(u, s) BY DEF Carries
    <3>2. ~ Carries(t, s) BY OnlyInRoutine
    <3>3. Carries(t, s)' BY DEF Carries
    <3> QED BY <1>1, <3>1, <3>2, <3>3 DEF WaitingAt
  <2> QED BY <2>1 DEF Waiting
<1>4. Takes' = Takes BY TakesStay
<1>5. Routine!Give(m)
  BY <1>1, <1>2, <1>3, <1>4
  DEF Routine!Give, Takes, TakenBy, Given, InHand, Waiting, WaitingAt
<1> QED BY <1>5 DEF Routine!Next

\* t leaves the sinks in S behind, and the routine with the last.
LEMMA OfferStep ==
  ASSUME IInv, Trail, NEW t \in Threads, WalkFrame(t), pc[t] \in RoutePC,
         NEW S \in SUBSET Sinks,
         \A s \in S : Carries(t, s) /\ ~ Carries(t, s)',
         \A s \in Sinks \ S : Carries(t, s)' = Carries(t, s),
         out' = [s \in Sinks |-> IF s \in S /\ msg[t] \in TakenBy(s)
                                 THEN Append(out[s], msg[t]) ELSE out[s]],
         \/ msg'[t] = msg[t] /\ handled' = handled /\ pc'[t] \in RoutePC
         \/ /\ handled' = handled \cup {msg[t]} /\ pc'[t] \notin RoutePC
            /\ \A s \in Sinks : ~ Carries(t, s)'
  PROVE  Routine!Next
<1>1. PICK m \in Message : m = msg[t] /\ m \notin handled BY InHandUnhandled
<1>2. /\ \A u \in Threads \ {t} : pc'[u] = pc[u] /\ it'[u] = it[u] /\ msg'[u] = msg[u]
      /\ logger_sink_map' = logger_sink_map
  BY DEF WalkFrame
<1>3. \A u \in Threads \ {t} : InRoutine(u) => msg[u] # m
  BY <1>1, OwnMessages DEF InRoutine
<1>4. \A u \in Threads \ {t}, s \in Sinks : Carries(u, s)' = Carries(u, s)
  BY <1>2 DEF Carries
<1>5. \A u \in Threads \ {t}, s \in Sinks : Carries(u, s) => msg[u] # m
  BY <1>3, OnlyInRoutine DEF InRoutine
<1>6. \A u \in Threads \ {t} : InRoutine(u)' <=> InRoutine(u) BY <1>2 DEF InRoutine
<1>7. InRoutine(t) BY DEF InRoutine
<1>8. m \in Given \ handled BY <1>1, <1>7 DEF Given, InHand
<1>9. Given' = Given
  <2>1. CASE msg'[t] = msg[t] /\ handled' = handled /\ pc'[t] \in RoutePC
    <3>1. InRoutine(t)' BY <2>1 DEF InRoutine
    <3>2. InHand' = InHand BY <1>2, <1>6, <1>7, <2>1, <3>1 DEF InHand
    <3> QED BY <2>1, <3>2 DEF Given
  <2>2. CASE handled' = handled \cup {msg[t]} /\ pc'[t] \notin RoutePC
    <3>1. ~ InRoutine(t)' BY <2>2 DEF InRoutine
    <3>2. InHand = InHand' \cup {m} BY <1>1, <1>2, <1>6, <1>7, <3>1 DEF InHand
    <3> QED BY <1>1, <2>2, <3>2 DEF Given
  <2> QED BY <2>1, <2>2
<1>10. ASSUME NEW s \in S
       PROVE  m \in WaitingAt(s) /\ WaitingAt(s)' = WaitingAt(s) \ {m}
  <2>1. s \in Sinks OBVIOUS
  <2>2. Carries(t, s) /\ ~ Carries(t, s)' OBVIOUS
  <2>3. m \in WaitingAt(s) BY <1>1, <2>2 DEF WaitingAt
  <2>4. WaitingAt(s)' = WaitingAt(s) \ {m}
    BY <1>1, <1>2, <1>4, <1>5, <2>1, <2>2 DEF WaitingAt
  <2> QED BY <2>3, <2>4
<1>11. ASSUME NEW s \in Sinks \ S PROVE WaitingAt(s)' = WaitingAt(s)
  <2>1. Carries(t, s)' = Carries(t, s) OBVIOUS
  <2>2. Carries(t, s) => msg'[t] = msg[t] BY <2>1
  <2> QED BY <1>2, <1>4, <2>1, <2>2 DEF WaitingAt
<1>12. Waiting' = [s \in Sinks |-> IF s \in S THEN Waiting[s] \ {m} ELSE Waiting[s]]
  BY <1>10, <1>11 DEF Waiting
<1>13. \A s \in S : m \in Waiting[s] BY <1>10 DEF Waiting
<1>14. out' = [s \in Sinks |-> IF s \in S /\ m \in Takes[s] THEN Append(out[s], m)
                               ELSE out[s]]
  BY <1>1 DEF Takes
<1>15. \/ UNCHANGED handled
       \/ handled' = handled \cup {m} /\ \A s \in Sinks : m \notin Waiting'[s]
  <2>1. ASSUME \A s \in Sinks : ~ Carries(t, s)' PROVE \A s \in Sinks : m \notin Waiting'[s]
    <3>1. ASSUME NEW s \in Sinks PROVE m \notin WaitingAt(s)'
      BY <1>2, <1>4, <1>5, <2>1 DEF WaitingAt
    <3> QED BY <3>1 DEF Waiting
  <2> QED BY <1>1, <2>1
<1>16. Takes' = Takes BY <1>2, TakesStay
<1>17. Routine!Offer(m, S)
  BY <1>8, <1>9, <1>12, <1>13, <1>14, <1>15, <1>16
  DEF Routine!Offer, Takes, TakenBy, Given, InHand, Waiting, WaitingAt
<1>18. m \in Given BY <1>8
<1> QED BY <1>17, <1>18 DEF Routine!Next, Given, InHand

\* A step of the walk over the map offers the message of t to some sinks.
LEMMA WalkStep ==
  ASSUME IInv, Trail, NEW t \in Threads, WalkFrame(t), Walks(t)
  PROVE  Routine!Next
<1>0. pc[t] \in RoutePC /\ out \in [Sinks -> Seq(Message)]
  BY DEF Walks, WalksOn, Decides, Writes, RoutePC, IInv, TypeOK
<1>1. msg[t] \in Message BY <1>0, InHandUnhandled
\* It goes past the keys that have no sink.
<1>2. CASE WalksOn(t)
  <2>1. PICK S \in SUBSET Sinks : S = {s \in Sinks : Carries(t, s) /\ ~ Carries(t, s)'} OBVIOUS
  <2>2. \A s \in S : Carries(t, s) /\ ~ Carries(t, s)' BY <2>1
  <2>3. \A s \in Sinks \ S : Carries(t, s)' = Carries(t, s)
    BY <1>2, <2>1 DEF WalksOn, Carries
  <2>4. \A s \in S : TakenBy(s) = {}
    <3>1. \A s \in S : s \notin Present BY <1>2, <2>2 DEF WalksOn
    <3> QED BY <3>1 DEF TakenBy
  <2>5. out' = [s \in Sinks |-> IF s \in S /\ msg[t] \in TakenBy(s)
                                THEN Append(out[s], msg[t]) ELSE out[s]]
    BY <1>0, <1>2, <2>4 DEF WalksOn
  <2>6. \/ msg'[t] = msg[t] /\ handled' = handled /\ pc'[t] \in RoutePC
        \/ /\ handled' = handled \cup {msg[t]} /\ pc'[t] \notin RoutePC
           /\ \A s \in Sinks : ~ Carries(t, s)'
    BY <1>2 DEF WalksOn
  <2> QED BY <1>0, <2>2, <2>3, <2>5, <2>6, OfferStep
\* A sink turns the message down, or is locked.
<1>3. CASE Decides(t)
  <2>1. PICK S \in SUBSET Sinks :
          /\ \A s \in S : Carries(t, s) /\ ~ Carries(t, s)' /\ msg[t] \notin TakenBy(s)
          /\ \A s \in Sinks \ S : Carries(t, s)' = Carries(t, s)
    <3>1. CASE \A s \in Sinks : Carries(t, s)' = Carries(t, s)
      <4> WITNESS {} \in SUBSET Sinks
      <4> QED BY <3>1
    <3>2. ASSUME NEW k \in Present, Carries(t, k), ~ Carries(t, k)',
                 ~ Accepts(logger_sink_map[k], msg[t]),
                 \A s \in Sinks \ {k} : Carries(t, s)' = Carries(t, s)
          PROVE  \E S \in SUBSET Sinks :
                   /\ \A s \in S : Carries(t, s) /\ ~ Carries(t, s)' /\ msg[t] \notin TakenBy(s)
                   /\ \A s \in Sinks \ S : Carries(t, s)' = Carries(t, s)
      <4>1. {k} \in SUBSET Sinks BY DEF Present
      <4>2. msg[t] \notin TakenBy(k) BY <3>2 DEF TakenBy
      <4> QED BY <3>2, <4>1, <4>2
    <3> QED BY <1>3, <3>1, <3>2 DEF Decides
  <2>2. out' = [s \in Sinks |-> IF s \in S /\ msg[t] \in TakenBy(s)
                                THEN Append(out[s], msg[t]) ELSE out[s]]
    BY <1>0, <1>3, <2>1 DEF Decides
  <2>3. msg'[t] = msg[t] /\ handled' = handled /\ pc'[t] \in RoutePC
    BY <1>3 DEF Decides
  <2> QED BY <1>0, <2>1, <2>2, <2>3, OfferStep
\* A sink writes it.
<1>4. ASSUME NEW k \in Present, Writes(t, k) PROVE Routine!Next
  <2>1. k \in Sinks BY DEF Present
  <2>2. {k} \in SUBSET Sinks BY <2>1
  <2>3. \A s \in {k} : Carries(t, s) /\ ~ Carries(t, s)' BY <1>4 DEF Writes
  <2>4. \A s \in Sinks \ {k} : Carries(t, s)' = Carries(t, s) BY <1>4 DEF Writes
  <2>5. msg[t] \in TakenBy(k) BY <1>1, <1>4 DEF Writes, TakenBy
  <2>6. out' = [s \in Sinks |-> IF s \in {k} /\ msg[t] \in TakenBy(s)
                                THEN Append(out[s], msg[t]) ELSE out[s]]
    BY <1>0, <1>4, <2>5 DEF Writes
  <2>7. msg'[t] = msg[t] /\ handled' = handled /\ pc'[t] \in RoutePC
    BY <1>4 DEF Writes
  <2> QED BY <1>0, <2>2, <2>3, <2>4, <2>6, <2>7, OfferStep
<1> QED BY <1>2, <1>3, <1>4 DEF Walks

-----------------------------------------------------------------------------
LEMMA DeliveryStep ==
  ASSUME SinkChanges # "any", IInv, Trail, [Next]_vars
  PROVE  Routine!Next
<1>0. /\ pc \in [Threads -> {"idle", "push", "crashed"} \cup ConfPC \cup RoutePC
                            \cup DtorPC \cup WorkerPC]
      /\ msg \in [Threads -> Message \cup {NoMsg}] /\ sent \in [App -> 0 .. MaxMsgs + 1]
      /\ App \subseteq Threads /\ Worker \in Threads /\ MaxMsgs \in Nat
  BY LoggerAssumption DEF IInv, TypeOK, Threads
<1>1. ASSUME NEW t \in App, NEW l \in Levels, WriteLog(t, l) PROVE Routine!Next
  <2>1. /\ pc[t] = "idle" /\ pc'[t] = IF Async THEN "push" ELSE "route_begin"
        /\ \A u \in Threads \ {t} : pc'[u] = pc[u] /\ it'[u] = it[u] /\ msg'[u] = msg[u]
        /\ UNCHANGED <<logger_sink_map, handled, out, taken, it>>
        /\ sent' = [sent EXCEPT ![t] = @ + 1]
    BY <1>0, <1>1 DEF WriteLog, Goto, queueVars, routeVars
  <2>2. pc[t] \notin RoutePC BY <2>1 DEF RoutePC
  <2>3. CASE ~ Async
    <3>1. pc'[t] = "route_begin" BY <2>1, <2>3
    <3>2. msg'[t] \in Message /\ msg'[t] \notin Given BY <1>1, <2>3, LoggedIsNew
    <3>3. t \in Threads BY <1>0
    <3> QED BY <2>1, <2>2, <3>1, <3>2, <3>3, GiveStep
  <2>4. CASE Async
    <3>1. pc'[t] \notin RoutePC BY <2>1, <2>4 DEF RoutePC
    <3>2. \A s \in Sinks : Carries(t, s)' = Carries(t, s)
      BY <2>1, <2>4 DEF Carries
    <3>3. \A u \in Threads \ {t}, s \in Sinks : Carries(u, s)' = Carries(u, s)
      BY <2>1 DEF Carries
    <3>4. \A u \in App : sent'[u] >= sent[u] BY <1>0, <2>1
    <3>5. WalksStay BY <2>1, <2>2, <3>1, <3>2, <3>3, <3>4 DEF WalksStay
    <3> QED BY <3>5, ConfigureStep
  <2> QED BY <2>3, <2>4
<1>2. CASE Pop
  <2>1. /\ pc[Worker] = "pop" /\ pc'[Worker] = "route_begin"
        /\ \A u \in Threads \ {Worker} : pc'[u] = pc[u] /\ it'[u] = it[u] /\ msg'[u] = msg[u]
        /\ UNCHANGED <<logger_sink_map, handled, out>>
    BY <1>0, <1>2 DEF Pop, Goto, routeVars
  <2>2. pc[Worker] \notin RoutePC BY <2>1 DEF RoutePC
  <2>3. Async BY <2>1 DEF IInv, DtorAlone
  <2>4. msg'[Worker] \in Message /\ msg'[Worker] \notin Given BY <1>2, <2>3, PoppedIsNew
  <2> QED BY <1>0, <2>1, <2>2, <2>4, GiveStep
<1>3. CASE Elsewhere BY <1>3, ElsewhereStays, ConfigureStep
<1>4. ASSUME NEW t \in Threads, WalkFrame(t), Walks(t) PROVE Routine!Next
  BY <1>4, WalkStep
<1> QED BY <1>1, <1>2, <1>3, <1>4, PipeSteps

\* In both modes, for any threads, sinks, calls and bounds: whatever is configured
\* meanwhile, internal_log_routine() offers each message once to every sink, at
\* one instant, with the settings of which the sink writes it or does not, and
\* returns when it has left none out.
THEOREM DeliveryRefinement == SinkChanges # "any" => (Spec => ImplementsDelivery)
<1> SUFFICES ASSUME SinkChanges # "any" PROVE Spec => ImplementsDelivery OBVIOUS
<1>1. Init => Routine!Init
  <2> SUFFICES ASSUME Init PROVE Routine!Init OBVIOUS
  <2>1. \A t \in Threads : pc[t] \notin RoutePC BY DEF Init, RoutePC
  <2>2. InHand = {} BY <2>1 DEF InHand, InRoutine
  <2>3. \A s \in Sinks : WaitingAt(s) = {} BY <2>1, OnlyInRoutine DEF WaitingAt
  <2>4. \A s \in Sinks : TakenBy(s) = {} BY DEF Init, TakenBy, Present
  <2>5. Given = {} BY <2>2 DEF Given, Init
  <2>6. Waiting = [s \in Sinks |-> {}] BY <2>3 DEF Waiting
  <2>7. Takes = [s \in Sinks |-> {}] BY <2>4 DEF Takes
  <2>8. handled = {} /\ out = [s \in Sinks |-> << >>] BY DEF Init
  <2> QED BY <2>5, <2>6, <2>7, <2>8
    DEF Routine!Init, Given, InHand, Waiting, WaitingAt, Takes, TakenBy
<1>2. IInv /\ Trail /\ [Next]_vars => [Routine!Next]_(Routine!vars) BY DeliveryStep
<1> QED BY <1>1, <1>2, TrailInvariance, PTL DEF Spec, ImplementsDelivery, Routine!Spec
=============================================================================
