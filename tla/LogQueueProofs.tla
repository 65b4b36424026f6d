--------------------------- MODULE LogQueueProofs ---------------------------
(***************************************************************************)
(* Proofs about LogQueue, for any number of threads and any bound: its     *)
(* mutex discipline, that pop() finds a message, that no wake-up is lost,  *)
(* and that every step is a step of the abstract queue.                    *)
(***************************************************************************)
EXTENDS LogQueue, FiniteSetTheorems, SequenceTheorems, TLAPS

\* A pusher in push() has begun at least one call: its message has a number.
PushesCounted == \A t \in Pushers : pc[t] \in PushPC => pushes[t] >= 1

\* Whoever sleeps on the condition variable is in wait().
SleepersWait == \A t \in cond_var_queue : pc[t] = "pop_wait"

\* What every step preserves.  PopHasMessage needs MutexDiscipline: nobody else
\* shortens the queue between the test of the predicate and the pop.
IInv ==
  /\ TypeOK
  /\ MutexDiscipline
  /\ PopHasMessage
  /\ PushesCounted
  /\ SleepersWait

\* The constructor leaves an empty queue, a free mutex and no thread in a call.
LEMMA InitIInv == Init => IInv
  BY ThreadsAssumption
  DEF Init, IInv, TypeOK, MutexDiscipline, PopHasMessage, PushesCounted,
      SleepersWait, Threads, PushPC, EmptyPC, PopPC, CriticalPC

\* Each action of a pusher preserves the invariant.
LEMMA PusherIInv == ASSUME IInv, NEW t \in Pushers, Pusher(t) PROVE IInv'
<1> USE ThreadsAssumption
    DEF IInv, TypeOK, MutexDiscipline, PopHasMessage, PushesCounted,
        SleepersWait, Threads, PushPC, EmptyPC, PopPC, CriticalPC, Goto, Acquire
<1>1. CASE PushCall(t) BY <1>1 DEF PushCall
<1>2. CASE PushLock(t) BY <1>2 DEF PushLock
<1>3. CASE PushEnqueue(t)
  <2>1. Current(t) \in Message BY <1>3 DEF PushEnqueue, Current, Message
  <2>2. msg_queue' = Append(msg_queue, Current(t)) /\ msg_queue \in Seq(Message)
    BY <1>3 DEF PushEnqueue
  <2>3. msg_queue' \in Seq(Message) /\ msg_queue' # << >>
    <3> HIDE DEF TypeOK, IInv
    <3> QED BY <2>1, <2>2
  <2> QED BY <1>3, <2>3 DEF PushEnqueue
<1>4. CASE PushNotify(t) BY <1>4 DEF PushNotify
<1>5. CASE EmptyCall(t) BY <1>5 DEF EmptyCall
<1>6. CASE EmptyLock(t) BY <1>6 DEF EmptyLock
<1>7. CASE EmptyRead(t) BY <1>7 DEF EmptyRead
<1> QED BY <1>1, <1>2, <1>3, <1>4, <1>5, <1>6, <1>7 DEF Pusher

\* Each action of a consumer preserves the invariant.
LEMMA PopperIInv == ASSUME IInv, NEW t \in Poppers, Popper(t) PROVE IInv'
<1> USE ThreadsAssumption
    DEF IInv, TypeOK, MutexDiscipline, PopHasMessage, PushesCounted,
        SleepersWait, Threads, PushPC, EmptyPC, PopPC, CriticalPC, Goto, Acquire
<1>1. CASE PopCall(t) BY <1>1 DEF PopCall
<1>2. CASE PopLock(t) BY <1>2 DEF PopLock
<1>3. CASE PopTest(t) BY <1>3 DEF PopTest
<1>4. CASE PopWake(t) BY <1>4 DEF PopWake
<1>5. CASE PopTake(t)
  <2>1. msg_queue # << >> BY <1>5 DEF PopTake
  <2>2. Head(msg_queue) \in Message /\ Tail(msg_queue) \in Seq(Message) BY <2>1
  <2>3. msg_queue' \in Seq(Message) /\ popped' \in Seq(Message) BY <1>5, <2>2 DEF PopTake
  <2> QED BY <1>5, <2>3 DEF PopTake
<1>6. CASE SpuriousWake(t) BY <1>6 DEF SpuriousWake
<1> QED BY <1>1, <1>2, <1>3, <1>4, <1>5, <1>6 DEF Popper

\* IInv is an invariant.
THEOREM Invariance == Spec => []IInv
<1>1. IInv /\ [Next]_vars => IInv'
  <2> SUFFICES ASSUME IInv, [Next]_vars PROVE IInv' OBVIOUS
  <2>1. CASE \E t \in Pushers : Pusher(t) BY <2>1, PusherIInv
  <2>2. CASE \E t \in Poppers : Popper(t) BY <2>2, PopperIInv
  <2>3. CASE UNCHANGED vars
    BY <2>3 DEF vars, IInv, TypeOK, MutexDiscipline, PopHasMessage, PushesCounted,
                SleepersWait
  <2> QED BY <2>1, <2>2, <2>3 DEF Next
<1> QED BY InitIInv, <1>1, PTL DEF Spec

\* Type correctness of LogQueue.
THEOREM TypeCorrect == Spec => []TypeOK
  BY Invariance, PTL DEF IInv

\* The mutex of LogQueue is owned by exactly the thread in a critical section.
THEOREM MutualExclusion == Spec => []MutexDiscipline
  BY Invariance, PTL DEF IInv

\* LogQueue::pop() never takes the front of an empty queue.
THEOREM PopFindsMessage == Spec => []PopHasMessage
  BY Invariance, PTL DEF IInv
-----------------------------------------------------------------------------
(* No lost wake-up: counting consumers that are awake and pushers that     *)
(* have not notified yet, step by step.                                    *)

\* The two sets that NoLostWakeup counts are finite.
LEMMA CountsFinite ==
  /\ IsFiniteSet(Awake) /\ Cardinality(Awake) \in Nat
  /\ IsFiniteSet(Notifying) /\ Cardinality(Notifying) \in Nat
  /\ IsFiniteSet(Awake') /\ Cardinality(Awake') \in Nat
  /\ IsFiniteSet(Notifying') /\ Cardinality(Notifying') \in Nat
<1>1. \A S \in SUBSET Threads : IsFiniteSet(S) /\ Cardinality(S) \in Nat
  BY ThreadsAssumption, FS_Subset, FS_CardinalityType
<1>2. Awake \in SUBSET Threads /\ Notifying \in SUBSET Threads
  BY DEF Awake, Notifying, Threads
<1>3. Awake' \in SUBSET Threads /\ Notifying' \in SUBSET Threads
  BY DEF Awake, Notifying, Threads
<1> QED BY <1>1, <1>2, <1>3

\* A step that leaves the queue's length and the notifying pushers alone, puts
\* nobody to sleep and keeps everybody awake who was, loses no wake-up.
LEMMA QuietStep ==
  ASSUME NoLostWakeup, TypeOK,
         msg_queue' = msg_queue, cond_var_queue' \subseteq cond_var_queue,
         Notifying' = Notifying, Awake \subseteq Awake'
  PROVE  NoLostWakeup'
<1>1. Cardinality(Awake) <= Cardinality(Awake') BY CountsFinite, FS_Subset
<1>2. Len(msg_queue) \in Nat BY DEF TypeOK
<1> QED BY <1>1, <1>2, CountsFinite DEF NoLostWakeup

\* push(): the message that enters is covered by its pusher, which notifies, and
\* then by the consumer that it wakes.
LEMMA PusherWakes ==
  ASSUME IInv, IInv', NoLostWakeup, NEW t \in Pushers, Pusher(t)
  PROVE  NoLostWakeup'
<1> USE ThreadsAssumption DEF IInv, TypeOK, SleepersWait, Goto, Acquire, Threads
<1>0. t \notin Poppers OBVIOUS
<1>1. CASE PushEnqueue(t)
  <2>1. Notifying' = Notifying \cup {t} /\ t \notin Notifying /\ Awake' = Awake
    BY <1>0, <1>1 DEF PushEnqueue, Notifying, Awake
  <2>2. Cardinality(Notifying') = Cardinality(Notifying) + 1
    BY <2>1, CountsFinite, FS_AddElement
  <2>3. msg_queue \in Seq(Message) /\ msg_queue' = Append(msg_queue, Current(t))
    BY <1>1 DEF PushEnqueue
  <2>4. Len(msg_queue') = Len(msg_queue) + 1 /\ Len(msg_queue) \in Nat BY <2>3
  <2>5. cond_var_queue' = cond_var_queue BY <1>1 DEF PushEnqueue
  <2> QED BY <2>1, <2>2, <2>4, <2>5, CountsFinite DEF NoLostWakeup
<1>2. CASE PushNotify(t)
  <2>1. Notifying' = Notifying \ {t} /\ t \in Notifying /\ msg_queue' = msg_queue
    BY <1>2 DEF PushNotify, Notifying
  <2>2. Cardinality(Notifying') = Cardinality(Notifying) - 1
    BY <2>1, CountsFinite, FS_RemoveElement
  <2>3. Len(msg_queue) \in Nat OBVIOUS
  <2>4. CASE cond_var_queue = {} BY <1>2, <2>4 DEF PushNotify, NoLostWakeup
  <2>5. ASSUME NEW w \in cond_var_queue, cond_var_queue' = cond_var_queue \ {w}
        PROVE  NoLostWakeup'
    <3>1. Awake' = Awake \cup {w} /\ w \notin Awake
      BY <1>0, <1>2, <2>5 DEF PushNotify, Awake, PopPC
    <3>2. Cardinality(Awake') = Cardinality(Awake) + 1
      BY <3>1, CountsFinite, FS_AddElement
    <3> QED BY <2>1, <2>2, <2>3, <2>5, <3>2, CountsFinite DEF NoLostWakeup
  <2> QED BY <1>2, <2>4, <2>5 DEF PushNotify
<1>3. CASE PushCall(t) \/ PushLock(t) \/ EmptyCall(t) \/ EmptyLock(t) \/ EmptyRead(t)
  <2>1. msg_queue' = msg_queue /\ cond_var_queue' = cond_var_queue
    BY <1>3 DEF PushCall, PushLock, EmptyCall, EmptyLock, EmptyRead
  <2>2. Notifying' = Notifying /\ Awake' = Awake
    BY <1>0, <1>3
    DEF PushCall, PushLock, EmptyCall, EmptyLock, EmptyRead, Notifying, Awake
  <2> QED BY <2>1, <2>2, QuietStep
<1> QED BY <1>1, <1>2, <1>3 DEF Pusher

\* pop(): a consumer sleeps only on an empty queue, and one that goes takes a
\* message with it.
LEMMA PopperWakes ==
  ASSUME IInv, IInv', NoLostWakeup, NEW t \in Poppers, Popper(t)
  PROVE  NoLostWakeup'
<1> USE ThreadsAssumption DEF IInv, TypeOK, SleepersWait, Goto, Acquire, Threads
<1>0. t \notin Pushers OBVIOUS
<1>1. CASE PopTest(t)
  <2>1. CASE msg_queue # << >>
    <3>1. msg_queue' = msg_queue /\ cond_var_queue' = cond_var_queue
      BY <1>1, <2>1 DEF PopTest
    <3>2. Notifying' = Notifying /\ Awake \subseteq Awake'
      BY <1>0, <1>1, <2>1 DEF PopTest, Notifying, Awake, PopPC
    <3> QED BY <3>1, <3>2, QuietStep
  <2>2. CASE msg_queue = << >>
    <3>1. Len(msg_queue') = 0 BY <1>1, <2>2 DEF PopTest
    <3> QED BY <3>1, CountsFinite DEF NoLostWakeup
  <2> QED BY <2>1, <2>2
<1>2. CASE PopTake(t)
  <2>1. Awake' = Awake \ {t} /\ t \in Awake /\ Notifying' = Notifying
    BY <1>0, <1>2 DEF PopTake, Notifying, Awake, PopPC
  <2>2. Cardinality(Awake') = Cardinality(Awake) - 1
    BY <2>1, CountsFinite, FS_RemoveElement
  <2>3. msg_queue \in Seq(Message) /\ msg_queue # << >> /\ msg_queue' = Tail(msg_queue)
    BY <1>2 DEF PopTake, PopHasMessage
  <2>4. Len(msg_queue') = Len(msg_queue) - 1 /\ Len(msg_queue) \in Nat
    BY <2>3, HeadTailProperties
  <2>5. cond_var_queue' = cond_var_queue BY <1>2 DEF PopTake
  <2> QED BY <2>1, <2>2, <2>4, <2>5, CountsFinite DEF NoLostWakeup
<1>3. CASE PopCall(t) \/ PopLock(t) \/ PopWake(t) \/ SpuriousWake(t)
  <2>1. msg_queue' = msg_queue /\ cond_var_queue' \subseteq cond_var_queue
    BY <1>3 DEF PopCall, PopLock, PopWake, SpuriousWake
  <2>2. Notifying' = Notifying /\ Awake \subseteq Awake'
    BY <1>0, <1>3 DEF PopCall, PopLock, PopWake, SpuriousWake, Notifying, Awake, PopPC
  <2> QED BY <2>1, <2>2, QuietStep
<1> QED BY <1>1, <1>2, <1>3 DEF Popper

\* While a consumer of LogQueue sleeps, every message in the queue has a
\* consumer awake to take it or a pusher about to wake one.
THEOREM WakeupsKept == Spec => []NoLostWakeup
<1>1. Init => NoLostWakeup BY DEF Init, NoLostWakeup
<1>2. IInv /\ IInv' /\ NoLostWakeup /\ [Next]_vars => NoLostWakeup'
  <2> SUFFICES ASSUME IInv, IInv', NoLostWakeup, [Next]_vars PROVE NoLostWakeup'
    OBVIOUS
  <2>1. CASE \E t \in Pushers : Pusher(t) BY <2>1, PusherWakes
  <2>2. CASE \E t \in Poppers : Popper(t) BY <2>2, PopperWakes
  <2>3. CASE UNCHANGED vars
    BY <2>3, QuietStep DEF vars, Awake, Notifying, IInv
  <2> QED BY <2>1, <2>2, <2>3 DEF Next
<1> QED BY <1>1, <1>2, Invariance, PTL DEF Spec
-----------------------------------------------------------------------------
(* Order and completeness of what pop() returns.                           *)

\* What a step does to the sequence of all messages that ever entered.
LEMMA EnteredStep ==
  ASSUME IInv, [Next]_vars
  PROVE  /\ Entered \in Seq(Message)
         /\ \/ Entered' = Entered
               /\ \A u \in Pushers : EnteredBy(u)' = EnteredBy(u)
            \/ \E t \in Pushers :
                 /\ Current(t) \in Message
                 /\ Entered' = Append(Entered, Current(t))
                 /\ EnteredBy(t) = 1 .. pushes[t] - 1
                 /\ EnteredBy(t)' = 1 .. pushes[t]
                 /\ pushes[t] \in Nat \ {0}
                 /\ \A u \in Pushers \ {t} : EnteredBy(u)' = EnteredBy(u)
<1>0. popped \in Seq(Message) /\ msg_queue \in Seq(Message) BY DEF IInv, TypeOK
<1>1. Entered \in Seq(Message) BY <1>0, ConcatProperties DEF Entered
<1>2. ASSUME NEW t \in Pushers, PushEnqueue(t)
      PROVE  /\ Current(t) \in Message
             /\ Entered' = Append(Entered, Current(t))
             /\ EnteredBy(t) = 1 .. pushes[t] - 1
             /\ EnteredBy(t)' = 1 .. pushes[t]
             /\ pushes[t] \in Nat \ {0}
             /\ \A u \in Pushers \ {t} : EnteredBy(u)' = EnteredBy(u)
  <2>1. Current(t) \in Message /\ pushes[t] \in Nat \ {0}
    BY <1>2, ThreadsAssumption
    DEF PushEnqueue, Current, Message, IInv, TypeOK, PushesCounted, PushPC
  <2>2. Entered' = Append(Entered, Current(t))
    <3>1. popped' = popped /\ msg_queue' = Append(msg_queue, Current(t))
      BY <1>2 DEF PushEnqueue
    <3> DEFINE last == <<Current(t)>>
    <3>2. last \in Seq(Message) BY <2>1
    <3>3. msg_queue' = msg_queue \o last BY <1>0, <2>1, <3>1, AppendIsConcat
    <3>4. popped \o (msg_queue \o last) = (popped \o msg_queue) \o last
      BY <1>0, <3>2, ConcatAssociative
    <3>5. Append(Entered, Current(t)) = Entered \o last
      BY <1>1, <2>1, AppendIsConcat
    <3> QED BY <3>1, <3>3, <3>4, <3>5 DEF Entered
  <2>3. EnteredBy(t) = 1 .. pushes[t] - 1 BY <1>2 DEF PushEnqueue, EnteredBy
  <2>4. pc' = [pc EXCEPT ![t] = "push_notify"] /\ pushes' = pushes
    BY <1>2 DEF PushEnqueue, Goto
  <2>5. EnteredBy(t)' = 1 .. pushes[t]
    BY <2>4 DEF EnteredBy, IInv, TypeOK, Threads
  <2>6. \A u \in Pushers \ {t} : EnteredBy(u)' = EnteredBy(u)
    BY <2>4 DEF EnteredBy, IInv, TypeOK, Threads
  <2> QED BY <2>1, <2>2, <2>3, <2>5, <2>6
<1>3. ASSUME NEW t \in Poppers, PopTake(t)
      PROVE  Entered' = Entered /\ \A u \in Pushers : EnteredBy(u)' = EnteredBy(u)
  <2> DEFINE m == Head(msg_queue)
             rest == Tail(msg_queue)
  <2>1. msg_queue # << >> BY <1>3 DEF PopTake, IInv, PopHasMessage, Threads
  <2>2. m \in Message /\ rest \in Seq(Message) /\ msg_queue = <<m>> \o rest
    BY <1>0, <2>1, HeadTailProperties
  <2>3. popped' = Append(popped, m) /\ msg_queue' = rest BY <1>3 DEF PopTake
  <2>4. Append(popped, m) = popped \o <<m>> BY <1>0, <2>2, AppendIsConcat
  <2>5. <<m>> \in Seq(Message) BY <2>2
  <2>6. (popped \o <<m>>) \o rest = popped \o (<<m>> \o rest)
    BY <1>0, <2>2, <2>5, ConcatAssociative
  <2>7. Entered' = Entered BY <2>2, <2>3, <2>4, <2>6 DEF Entered
  <2>8. pc' = [pc EXCEPT ![t] = "idle"] /\ pushes' = pushes
    BY <1>3 DEF PopTake, Goto
  <2>9. \A u \in Pushers : u # t BY ThreadsAssumption
  <2> QED BY <2>7, <2>8, <2>9 DEF EnteredBy, IInv, TypeOK, Threads
<1>4. ASSUME NEW t \in Pushers, Pusher(t), ~ PushEnqueue(t)
      PROVE  Entered' = Entered /\ \A u \in Pushers : EnteredBy(u)' = EnteredBy(u)
  <2>1. Entered' = Entered
    BY <1>4 DEF Pusher, PushCall, PushLock, PushNotify, EmptyCall, EmptyLock,
                EmptyRead, Acquire, Entered
  <2>2. \A u \in Pushers \ {t} : EnteredBy(u)' = EnteredBy(u)
    BY <1>4 DEF Pusher, PushCall, PushLock, PushNotify, EmptyCall, EmptyLock,
                EmptyRead, Acquire, Goto, EnteredBy, IInv, TypeOK, Threads
  <2>3. pushes[t] \in Nat BY DEF IInv, TypeOK
  <2>4. CASE PushCall(t)
    <3>1. pushes'[t] = pushes[t] + 1 /\ pc'[t] = "push_lock" /\ pc[t] = "idle"
      BY <2>4 DEF PushCall, Goto, IInv, TypeOK, Threads
    <3>2. pushes'[t] - 1 = pushes[t] BY <2>3, <3>1
    <3> QED BY <2>1, <2>2, <3>1, <3>2 DEF EnteredBy
  <2>5. CASE PushLock(t) \/ PushNotify(t) \/ EmptyCall(t) \/ EmptyLock(t) \/ EmptyRead(t)
    <3>1. EnteredBy(t)' = EnteredBy(t)
      BY <1>4, <2>5
      DEF PushLock, PushNotify, EmptyCall, EmptyLock, EmptyRead, Acquire, Goto,
          EnteredBy, IInv, TypeOK, Threads
    <3> QED BY <2>1, <2>2, <3>1
  <2> QED BY <1>4, <2>4, <2>5 DEF Pusher
<1>5. ASSUME NEW t \in Poppers, Popper(t), ~ PopTake(t)
      PROVE  Entered' = Entered /\ \A u \in Pushers : EnteredBy(u)' = EnteredBy(u)
  <2>1. \A u \in Pushers : u # t BY ThreadsAssumption
  <2> QED
    BY <1>5, <2>1
    DEF Popper, PopCall, PopLock, PopTest, PopWake, SpuriousWake, Acquire, Goto,
        Entered, EnteredBy, IInv, TypeOK, Threads
<1>6. CASE UNCHANGED vars BY <1>1, <1>6 DEF vars, Entered, EnteredBy
<1>7. CASE \E t \in Pushers : Pusher(t)
  <2> PICK t \in Pushers : Pusher(t) BY <1>7
  <2>1. CASE PushEnqueue(t) BY <1>1, <1>2, <2>1
  <2>2. CASE ~ PushEnqueue(t)
    <3>1. Entered' = Entered /\ \A u \in Pushers : EnteredBy(u)' = EnteredBy(u)
      BY <1>4, <2>2
    <3> QED BY <1>1, <3>1
  <2> QED BY <2>1, <2>2
<1>8. CASE \E t \in Poppers : Popper(t)
  <2> PICK t \in Poppers : Popper(t) BY <1>8
  <2>1. Entered' = Entered /\ \A u \in Pushers : EnteredBy(u)' = EnteredBy(u)
    BY <1>3, <1>5
  <2> QED BY <1>1, <2>1
<1> QED BY <1>1, <1>6, <1>7, <1>8 DEF Next
\* The fields of the messages in a sequence.
LEMMA MessageFields ==
  ASSUME NEW s \in Seq(Message)
  PROVE  \A i \in DOMAIN s : s[i].from \in Pushers /\ s[i].seq \in Nat
<1>1. \A i \in DOMAIN s : s[i] \in Message OBVIOUS
<1>2. \A m \in Message : m.from \in Pushers /\ m.seq \in Nat
  BY ThreadsAssumption DEF Message
<1> QED BY <1>1, <1>2

\* Order and completeness survive both kinds of step: none enters, or the next
\* message of one pusher enters at the end.
LEMMA OrderStep ==
  ASSUME IInv, ExactlyOnceInOrder, [Next]_vars
  PROVE  ExactlyOnceInOrder'
<1> DEFINE by == [u \in Pushers |-> EnteredBy(u)]
           E == Entered
           EE == Entered'
<1>1. E \in Seq(Message) BY EnteredStep
<1>2. /\ \A i, j \in DOMAIN E :
           i < j /\ E[i].from = E[j].from => E[i].seq < E[j].seq
      /\ \A u \in Pushers : \A n \in by[u] :
           \E i \in DOMAIN E : E[i] = [from |-> u, seq |-> n]
      /\ \A i \in DOMAIN E : E[i].seq \in by[E[i].from]
  <2>1. \A i \in DOMAIN E : E[i].from \in Pushers BY <1>1, MessageFields
  <2> QED BY <2>1 DEF ExactlyOnceInOrder
<1>3. SUFFICES
      /\ \A i \in DOMAIN EE : EE[i].from \in Pushers
      /\ \A i, j \in DOMAIN EE :
           i < j /\ EE[i].from = EE[j].from => EE[i].seq < EE[j].seq
      /\ \A u \in Pushers : \A n \in by'[u] :
           \E i \in DOMAIN EE : EE[i] = [from |-> u, seq |-> n]
      /\ \A i \in DOMAIN EE : EE[i].seq \in by'[EE[i].from]
  BY DEF ExactlyOnceInOrder, EnteredBy
<1>4. CASE EE = E /\ \A u \in Pushers : EnteredBy(u)' = EnteredBy(u)
  <2>1. by' = by BY <1>4
  <2>2. \A i \in DOMAIN E : E[i].from \in Pushers BY <1>1, MessageFields
  <2> HIDE DEF by, E, EE
  <2> QED BY <1>2, <1>4, <2>1, <2>2
<1>5. ASSUME NEW t \in Pushers,
             Current(t) \in Message,
             EE = Append(E, Current(t)),
             EnteredBy(t) = 1 .. pushes[t] - 1,
             EnteredBy(t)' = 1 .. pushes[t],
             pushes[t] \in Nat \ {0},
             \A u \in Pushers \ {t} : EnteredBy(u)' = EnteredBy(u)
      PROVE  /\ \A i \in DOMAIN EE : EE[i].from \in Pushers
             /\ \A i, j \in DOMAIN EE :
                  i < j /\ EE[i].from = EE[j].from => EE[i].seq < EE[j].seq
             /\ \A u \in Pushers : \A n \in by'[u] :
                  \E i \in DOMAIN EE : EE[i] = [from |-> u, seq |-> n]
             /\ \A i \in DOMAIN EE : EE[i].seq \in by'[EE[i].from]
  <2> DEFINE k == Len(E) + 1
             c == pushes[t]
  <2>1. by[t] = 1 .. c - 1 /\ by'[t] = 1 .. c BY <1>5
  <2>2. \A u \in Pushers : u # t => by'[u] = by[u] BY <1>5
  <2>3. c \in Nat \ {0} /\ k \in Nat \ {0} BY <1>1, <1>5
  <2>4. /\ DOMAIN E = 1 .. k - 1 /\ DOMAIN EE = 1 .. k
        /\ EE[k] = Current(t)
        /\ \A i \in 1 .. k - 1 : EE[i] = E[i]
    BY <1>1, <1>5
  <2>5. Current(t) = [from |-> t, seq |-> c] BY DEF Current
  <2>6. \A i \in DOMAIN E : E[i].from \in Pushers /\ E[i].seq \in Nat
    BY <1>1, MessageFields
  <2> HIDE DEF by, E, EE, k, c
  <2>7. \A i \in DOMAIN EE : EE[i].from \in Pushers BY <2>3, <2>4, <2>5, <2>6
  <2>8. \A i \in 1 .. k - 1 : E[i].from = t => E[i].seq < c
    BY <1>2, <2>1, <2>3, <2>4, <2>6
  <2>9. \A i, j \in DOMAIN EE :
          i < j /\ EE[i].from = EE[j].from => EE[i].seq < EE[j].seq
    <3> TAKE i, j \in DOMAIN EE
    <3> HAVE i < j /\ EE[i].from = EE[j].from
    <3>1. i \in 1 .. k - 1 BY <2>3, <2>4
    <3>2. CASE j = k BY <2>4, <2>5, <2>8, <3>1, <3>2
    <3>3. CASE j # k
      <4>1. j \in 1 .. k - 1 BY <2>3, <2>4, <3>3
      <4> QED BY <1>2, <2>4, <3>1, <4>1
    <3> QED BY <3>2, <3>3
  <2>10. \A u \in Pushers : \A n \in by'[u] :
           \E i \in DOMAIN EE : EE[i] = [from |-> u, seq |-> n]
    <3> TAKE u \in Pushers
    <3> TAKE n \in by'[u]
    <3>1. CASE u = t /\ n = c BY <2>3, <2>4, <2>5, <3>1
    <3>2. CASE u # t \/ n # c
      <4>1. n \in by[u] BY <2>1, <2>2, <2>3, <3>2
      <4>2. PICK i \in DOMAIN E : E[i] = [from |-> u, seq |-> n] BY <1>2, <4>1
      <4>3. i \in DOMAIN EE /\ EE[i] = E[i] BY <2>3, <2>4, <4>2
      <4> QED BY <4>2, <4>3
    <3> QED BY <3>1, <3>2
  <2>11. \A i \in DOMAIN EE : EE[i].seq \in by'[EE[i].from]
    <3> TAKE i \in DOMAIN EE
    <3>1. CASE i = k BY <2>1, <2>3, <2>4, <2>5, <3>1
    <3>2. CASE i # k
      <4>1. i \in DOMAIN E /\ EE[i] = E[i] BY <2>3, <2>4, <3>2
      <4>2. E[i].seq \in by[E[i].from] /\ E[i].from \in Pushers BY <1>2, <2>6, <4>1
      <4>3. by[E[i].from] \subseteq by'[E[i].from] BY <2>1, <2>2, <2>3, <4>2
      <4> QED BY <4>1, <4>2, <4>3
    <3> QED BY <3>1, <3>2
  <2> QED BY <2>7, <2>9, <2>10, <2>11
<1> QED BY <1>4, <1>5, EnteredStep

\* Every message whose push() has run was popped or is in the queue of LogQueue,
\* exactly once, in the order in which its thread pushed.
THEOREM OrderKept == Spec => []ExactlyOnceInOrder
<1>1. Init => ExactlyOnceInOrder
  BY DEF Init, ExactlyOnceInOrder, Entered, EnteredBy, Threads
<1> QED BY <1>1, OrderStep, Invariance, PTL DEF Spec
\* What pop() has returned stays returned.
LEMMA PoppedGrows ==
  ASSUME IInv, [Next]_vars
  PROVE  \A i \in DOMAIN popped : i \in DOMAIN popped' /\ popped'[i] = popped[i]
<1>1. popped \in Seq(Message) /\ msg_queue \in Seq(Message) BY DEF IInv, TypeOK
<1>2. ASSUME NEW t \in Poppers, PopTake(t)
      PROVE  \A i \in DOMAIN popped : i \in DOMAIN popped' /\ popped'[i] = popped[i]
  <2>1. Head(msg_queue) \in Message
    BY <1>1, <1>2, HeadTailProperties DEF PopTake, IInv, PopHasMessage, Threads
  <2>2. popped' = Append(popped, Head(msg_queue)) BY <1>2 DEF PopTake
  <2> QED BY <1>1, <2>1, <2>2
<1>3. popped' = popped \/ \E t \in Poppers : PopTake(t)
  BY DEF Next, vars, Pusher, Popper, PushCall, PushLock, PushEnqueue, PushNotify,
         EmptyCall, EmptyLock, EmptyRead, PopCall, PopLock, PopTest, PopWake,
         SpuriousWake, Acquire
<1> QED BY <1>2, <1>3

\* An answer of empty() holds until its caller pushes again; a new one is given
\* under the mutex, when all that entered has been popped.
LEMMA EmptyStep ==
  ASSUME IInv, ExactlyOnceInOrder, EmptyMeansPopped, [Next]_vars
  PROVE  EmptyMeansPopped'
<1> SUFFICES ASSUME NEW t \in Pushers, answer'[t], NEW n \in 1 .. pushes'[t]
             PROVE  \E i \in DOMAIN popped' : popped'[i] = [from |-> t, seq |-> n]
  BY DEF EmptyMeansPopped
<1>1. CASE EmptyRead(t)
  <2>1. answer'[t] = (msg_queue = << >>) /\ pushes' = pushes /\ popped' = popped
    BY <1>1 DEF EmptyRead, IInv, TypeOK
  <2>2. Entered = popped BY <2>1, ConcatEmptySeq DEF Entered, IInv, TypeOK
  <2>3. EnteredBy(t) = 1 .. pushes[t] BY <1>1 DEF EmptyRead, EnteredBy
  <2> QED BY <2>1, <2>2, <2>3 DEF ExactlyOnceInOrder
<1>2. CASE ~ EmptyRead(t)
  <2>1. answer[t] /\ pushes'[t] = pushes[t]
    BY <1>2
    DEF Next, vars, Pusher, Popper, PushCall, PushLock, PushEnqueue, PushNotify,
        EmptyCall, EmptyLock, EmptyRead, PopCall, PopLock, PopTest, PopWake, PopTake,
        SpuriousWake, Acquire, IInv, TypeOK
  <2>2. PICK i \in DOMAIN popped : popped[i] = [from |-> t, seq |-> n]
    BY <2>1 DEF EmptyMeansPopped
  <2> QED BY <2>2, PoppedGrows
<1> QED BY <1>1, <1>2

\* A thread that LogQueue::empty() told TRUE, and that has not pushed since, has
\* no message left in the queue: pop() has returned them all.
THEOREM EmptyIsTrue == Spec => []EmptyMeansPopped
<1>1. Init => EmptyMeansPopped BY DEF Init, EmptyMeansPopped
<1> QED BY <1>1, EmptyStep, Invariance, OrderKept, PTL DEF Spec

-----------------------------------------------------------------------------
(* LogQueue implements Fifo: the safety part of ImplementsFifo.            *)

\* Where the queue changes, a message enters at its end or the front is popped.
LEMMA StepRefines ==
  ASSUME IInv, [Next]_vars
  PROVE  [Queue!Next]_<<msg_queue, popped>>
<1>1. ASSUME NEW t \in Pushers, PushEnqueue(t) PROVE Queue!Next
  <2>1. Current(t) \in Message
    BY <1>1, ThreadsAssumption
    DEF PushEnqueue, Current, Message, IInv, TypeOK, PushesCounted, PushPC
  <2>2. Queue!Push(Current(t)) BY <1>1 DEF PushEnqueue, Queue!Push
  <2> QED BY <2>1, <2>2 DEF Queue!Next
<1>2. ASSUME NEW t \in Poppers, PopTake(t) PROVE Queue!Next
  <2>1. msg_queue # << >> BY <1>2 DEF PopTake, IInv, PopHasMessage, Threads
  <2> QED BY <1>2, <2>1 DEF PopTake, Queue!Pop, Queue!Next
<1>3. \/ UNCHANGED <<msg_queue, popped>>
      \/ \E t \in Pushers : PushEnqueue(t)
      \/ \E t \in Poppers : PopTake(t)
  BY DEF Next, vars, Pusher, Popper, PushCall, PushLock, PushNotify,
         EmptyCall, EmptyLock, EmptyRead, PopCall, PopLock, PopTest, PopWake,
         SpuriousWake, Acquire
<1> QED BY <1>1, <1>2, <1>3

\* The monitor built of mutex and condition variable behaves, step by step, as
\* the abstract queue whose push() and pop() are atomic.
THEOREM Refinement == Spec => Queue!Spec
<1>1. Init => Queue!Init BY DEF Init, Queue!Init
<1> QED BY <1>1, StepRefines, Invariance, PTL DEF Spec, Queue!Spec
=============================================================================
