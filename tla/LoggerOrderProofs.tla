-------------------------- MODULE LoggerOrderProofs --------------------------
(***************************************************************************)
(* Proofs about Logger, in both modes and for every use of the sinks: no   *)
(* message overtakes an earlier one of its thread on the way to the sinks, *)
(* none is lost on that way, and what the destructor and queue_empty() may *)
(* therefore be trusted to say.                                            *)
(***************************************************************************)
EXTENDS LoggerProofs

logVars == <<log_msg_queue, taken, msg, sent, handled, saw_empty>>

\* How many messages of thread t went into the queue or, in synchronous mode,
\* through the loop over the sinks.
Submitted(t) == IF msg[t] = NoMsg THEN sent[t] ELSE sent[t] - 1

\* Every message that was ever in the queue, in that order, and how many of
\* them the background thread is done with.
History == taken \o log_msg_queue
Done == IF msg[Worker] = NoMsg THEN Len(taken) ELSE Len(taken) - 1

\* Who uses the queue and who walks over the sinks depends on the mode.
ByMode ==
  IF Async THEN \A t \in App : pc[t] \notin RoutePC
  ELSE /\ \A t \in App : pc[t] \notin {"push", "dtor_poll", "dtor_stop", "dtor_exit", "dtor_join"}
       /\ log_msg_queue = << >> /\ taken = << >> /\ msg[Worker] = NoMsg

\* The message a thread works on is the last it logged; outside a call of
\* write_log() it has none.
OwnMessage == \A t \in App :
  /\ msg[t] = NoMsg \/ (msg[t].from = t /\ msg[t].seq = sent[t])
  /\ pc[t] \notin RoutePC \cup {"push", "crashed"} => msg[t] = NoMsg

\* The background thread works on the message that it popped last.
WorkersMessage ==
  /\ pc[Worker] \in WorkerPC => msg[Worker] = NoMsg
  /\ msg[Worker] # NoMsg => taken # << >> /\ msg[Worker] = taken[Len(taken)]

Threading == ByMode /\ OwnMessage /\ WorkersMessage

-----------------------------------------------------------------------------
(* The steps of Logger, by what they do to messages.                       *)

\* t walks past the last sink.
Finishes(t) ==
  /\ pc[t] \in {"route_begin", "route_next"}
  /\ pc' = [pc EXCEPT ![t] = IF t = Worker THEN "check_stop" ELSE "idle"]
  /\ handled' = handled \cup {msg[t]}
  /\ msg' = [msg EXCEPT ![t] = NoMsg]
  /\ UNCHANGED <<log_msg_queue, taken, sent, saw_empty, out, polls>>

\* t configures a sink, walks on, or looks at the stop flag.
Moves(t) ==
  /\ pc' = [pc EXCEPT ![t] = pc'[t]]
  /\ \/ t \in App /\ pc[t] \in {"idle"} \cup ConfPC /\ pc'[t] \in {"idle"} \cup ConfPC
     \/ pc[t] \in RoutePC /\ pc'[t] \in RoutePC
     \/ t = Worker /\ pc[t] = "check_stop" /\ pc'[t] \in {"pop", "exited"}
  /\ UNCHANGED <<logVars, polls>>

\* The steps of the destructor that log nothing.
DtorMoves(t) ==
  DtorStart(t) \/ DtorPoll(t) \/ DtorStop(t) \/ DtorJoin(t) \/ DtorMembers(t)

\* A configuration call changes no message.
LEMMA ConfMoves ==
  ASSUME IInv, NEW t \in App, (\E c \in Calls : ConfCall(t, c)) \/ ConfLock(t) \/ ConfApply(t)
  PROVE  Moves(t)
<1> USE DEF Moves, Goto, queueVars, lifeVars, routeVars, callVars, logVars, ConfPC
<1>0. pc \in [Threads -> {"idle", "push", "crashed"} \cup ConfPC \cup RoutePC \cup DtorPC \cup WorkerPC]
      /\ t \in Threads
  BY DEF IInv, TypeOK, Threads
<1>1. CASE \E c \in Calls : ConfCall(t, c) BY <1>0, <1>1 DEF ConfCall
<1>2. CASE ConfLock(t) BY <1>0, <1>2 DEF ConfLock
<1>3. CASE ConfApply(t)
  BY <1>0, <1>3 DEF ConfApply, InitSink, DiscardSink, SetEnabled, SetMinLvl, SetFormat,
                    IsInitialized, ConfReturn
<1> QED BY <1>1, <1>2, <1>3

\* A step of the loop over the map ends it, or changes no message.
LEMMA RouteMoves ==
  ASSUME IInv, NEW t \in Threads, Route(t) \/ RouteLock(t)
  PROVE  Finishes(t) \/ Moves(t)
<1> USE DEF Moves, Goto, queueVars, lifeVars, routeVars, callVars, logVars, RoutePC
<1>0. pc \in [Threads -> {"idle", "push", "crashed"} \cup ConfPC \cup RoutePC \cup DtorPC \cup WorkerPC]
  BY DEF IInv, TypeOK
<1>1. ASSUME NEW k, RouteTo(t, k), pc[t] \in {"route_begin", "route_next"},
             UNCHANGED <<queueVars, lifeVars, callVars, logger_sink_map, logger_mutex_map, out>>
      PROVE  Finishes(t) \/ Moves(t)
  <2>1. CASE k = End BY <1>0, <1>1, <2>1 DEF RouteTo, Finishes
  <2>2. CASE k # End BY <1>0, <1>1, <2>2 DEF RouteTo
  <2> QED BY <2>1, <2>2
<1>2. CASE RouteBegin(t) BY <1>1, <1>2 DEF RouteBegin
<1>3. CASE RouteNext(t)
  <2>1. \E k : RouteTo(t, k) BY <1>3 DEF RouteNext
  <2> QED BY <1>1, <1>3, <2>1 DEF RouteNext
<1>4. CASE RouteLock(t) BY <1>0, <1>4 DEF RouteLock
<1>5. CASE RouteCheck(t)
  <2>1. UNCHANGED <<logVars, polls>> BY <1>5 DEF RouteCheck, Unlock
  <2>2. \/ pc' = [pc EXCEPT ![t] = "route_write"] \/ pc' = [pc EXCEPT ![t] = "route_next"]
    BY <1>5 DEF RouteCheck, Unlock
  <2>3. pc[t] = "route_check" BY <1>5 DEF RouteCheck
  <2> QED BY ONLY <1>0, <2>1, <2>2, <2>3, t \in Threads DEF Moves, RoutePC
<1>6. CASE RouteWrite(t) BY <1>0, <1>6 DEF RouteWrite, Unlock
<1> QED BY <1>2, <1>3, <1>4, <1>5, <1>6 DEF Route

\* Every step of Logger is one of these.
LEMMA Steps ==
  ASSUME IInv, [Next]_vars
  PROVE  \/ \E t \in App : \/ \E l \in Levels : WriteLog(t, l)
                           \/ Push(t) \/ QueueEmpty(t) \/ DtorExit(t) \/ DtorMoves(t)
         \/ \E t \in Threads : Finishes(t) \/ Moves(t)
         \/ Pop \/ Crash \/ UNCHANGED vars
<1>1. ASSUME NEW t \in App, (\E c \in Calls : ConfCall(t, c)) \/ ConfLock(t) \/ ConfApply(t)
      PROVE  \E u \in Threads : Moves(u)
  BY <1>1, ConfMoves DEF Threads
<1>2. ASSUME NEW t \in Threads, Route(t) \/ RouteLock(t)
      PROVE  Finishes(t) \/ Moves(t)
  BY <1>2, RouteMoves
<1>3. CheckStop => Moves(Worker)
  BY DEF CheckStop, Moves, Goto, IInv, TypeOK, Threads, queueVars, lifeVars, routeVars,
         callVars, logVars
<1>4. Worker \in Threads BY DEF Threads
<1> QED BY <1>1, <1>2, <1>3, <1>4 DEF Next, Dtor, DtorMoves, Terminated

-----------------------------------------------------------------------------
(* Who works on which message.                                             *)

LEMMA InitThreading == Init => Threading
<1> SUFFICES ASSUME Init PROVE Threading OBVIOUS
<1> QED
  BY LoggerAssumption
  DEF Init, Threads, Threading, ByMode, OwnMessage, WorkersMessage, RoutePC, WorkerPC

\* No message has the caller of NoMsg.
LEMMA NoMsgIsNone == NoMsg \notin Message /\ Worker \notin App /\ NoThread \notin App
  BY LoggerAssumption DEF NoMsg, Message, Threads

\* A step that leaves the queue, the messages and the background thread alone.
LEMMA SameThreading ==
  ASSUME Threading, UNCHANGED <<log_msg_queue, taken, msg, sent>>,
         pc'[Worker] \in WorkerPC => msg[Worker] = NoMsg,
         \A t \in App : pc'[t] \notin RoutePC \cup {"push", "crashed"} => msg[t] = NoMsg,
         \A t \in App :
           IF Async THEN pc'[t] \notin RoutePC
           ELSE pc'[t] \notin {"push", "dtor_poll", "dtor_stop", "dtor_exit", "dtor_join"}
  PROVE  Threading'
  BY DEF Threading, ByMode, OwnMessage, WorkersMessage

LEMMA WriteThreading ==
  ASSUME IInv, Threading, NEW t \in App, NEW l \in Levels, WriteLog(t, l)
  PROVE  Threading'
<1> USE NoMsgIsNone, LoggerAssumption
    DEF WriteLog, Goto, queueVars, IInv, TypeOK, Threading, Threads, RoutePC, WorkerPC
<1>1. ByMode' BY DEF ByMode
<1>2. OwnMessage' BY DEF OwnMessage, NoMsg
<1>3. WorkersMessage' BY DEF WorkersMessage
<1> QED BY <1>1, <1>2, <1>3

LEMMA PushThreading ==
  ASSUME IInv, Threading, NEW t \in App, Push(t)
  PROVE  Threading'
<1> USE NoMsgIsNone, LoggerAssumption
    DEF Push, Goto, queueVars, callVars, IInv, TypeOK, Threading, Threads, RoutePC, WorkerPC
<1>0. taken' = taken BY DEF LogMsgQueue!Push
<1>1. Async BY DEF ByMode
<1>2. ByMode' BY <1>1 DEF ByMode
<1>3. OwnMessage' BY DEF OwnMessage, NoMsg
<1>4. WorkersMessage' BY <1>0 DEF WorkersMessage
<1> QED BY <1>2, <1>3, <1>4

LEMMA ExitThreading ==
  ASSUME IInv, Threading, NEW t \in App, DtorExit(t)
  PROVE  Threading'
<1> USE NoMsgIsNone, LoggerAssumption
    DEF DtorExit, Goto, queueVars, callVars, IInv, TypeOK, Threading, Threads, RoutePC, WorkerPC
<1>0. taken' = taken BY DEF LogMsgQueue!Push
<1>1. Async BY DEF ByMode
<1>2. ByMode' BY <1>1 DEF ByMode
<1>3. OwnMessage' BY DEF OwnMessage, NoMsg
<1>4. WorkersMessage' BY <1>0 DEF WorkersMessage
<1> QED BY <1>2, <1>3, <1>4

LEMMA PopThreading ==
  ASSUME IInv, Threading, Pop PROVE Threading'
<1> USE NoMsgIsNone, LoggerAssumption
    DEF Pop, Goto, queueVars, callVars, IInv, TypeOK, Threading, Threads, RoutePC, WorkerPC
<1>0. log_msg_queue # << >> /\ taken' = Append(taken, Head(log_msg_queue))
  BY DEF LogMsgQueue!Pop
<1>1. Async BY <1>0 DEF ByMode
<1>2. ByMode' BY <1>1 DEF ByMode
<1>3. OwnMessage' BY DEF OwnMessage, NoMsg
<1>4. WorkersMessage'
  <2>1. Head(log_msg_queue) \in Message BY <1>0
  <2>2. taken \in Seq(Message) BY DEF TypeOK
  <2>3. Len(taken') = Len(taken) + 1 /\ taken' # << >> /\ taken'[Len(taken')] = Head(log_msg_queue)
    BY ONLY <1>0, <2>1, <2>2
  <2>4. msg'[Worker] = Head(log_msg_queue) /\ pc'[Worker] = "route_begin" OBVIOUS
  <2> QED BY ONLY <2>3, <2>4 DEF WorkersMessage, WorkerPC
<1> QED BY <1>2, <1>3, <1>4

LEMMA FinishThreading ==
  ASSUME IInv, Threading, NEW t \in Threads, Finishes(t)
  PROVE  Threading'
<1> USE NoMsgIsNone, LoggerAssumption
    DEF Finishes, IInv, TypeOK, Threading, Threads, RoutePC, WorkerPC
<1>1. ByMode' BY DEF ByMode
<1>2. OwnMessage' BY DEF OwnMessage, NoMsg
<1>3. WorkersMessage' BY DEF WorkersMessage
<1> QED BY <1>1, <1>2, <1>3

LEMMA MoveThreading ==
  ASSUME IInv, Threading, NEW t \in Threads, Moves(t)
  PROVE  Threading'
<1> USE NoMsgIsNone
    DEF Moves, logVars, IInv, TypeOK, Threading, Threads, RoutePC, WorkerPC, ConfPC
<1>1. UNCHANGED <<log_msg_queue, taken, msg, sent>> OBVIOUS
<1>2. pc'[Worker] \in WorkerPC => msg[Worker] = NoMsg BY DEF WorkersMessage
<1>3. \A u \in App : pc'[u] \notin RoutePC \cup {"push", "crashed"} => msg[u] = NoMsg
  BY DEF OwnMessage
<1>4. \A u \in App : IF Async THEN pc'[u] \notin RoutePC
        ELSE pc'[u] \notin {"push", "dtor_poll", "dtor_stop", "dtor_exit", "dtor_join"}
  BY DEF ByMode
<1> QED BY ONLY Threading, <1>1, <1>2, <1>3, <1>4, SameThreading DEF RoutePC, WorkerPC

LEMMA DtorThreading ==
  ASSUME IInv, Threading, NEW t \in App, DtorMoves(t)
  PROVE  Threading'
<1> USE NoMsgIsNone
    DEF DtorMoves, DtorStart, DtorPoll, DtorStop, DtorJoin, DtorMembers, Goto, queueVars,
        lifeVars, routeVars, callVars, IInv, TypeOK, Threading, Threads, RoutePC, WorkerPC
<1>1. UNCHANGED <<log_msg_queue, taken, msg, sent>> OBVIOUS
<1>2. pc'[Worker] = pc[Worker] OBVIOUS
<1>3. \A u \in App : pc'[u] \notin RoutePC \cup {"push", "crashed"} => msg[u] = NoMsg
  BY DEF OwnMessage
<1>4. \A u \in App : IF Async THEN pc'[u] \notin RoutePC
        ELSE pc'[u] \notin {"push", "dtor_poll", "dtor_stop", "dtor_exit", "dtor_join"}
  BY DEF ByMode
<1>5. pc'[Worker] \in WorkerPC => msg[Worker] = NoMsg BY <1>2 DEF WorkersMessage
<1> QED BY ONLY Threading, <1>1, <1>5, <1>3, <1>4, SameThreading DEF RoutePC, WorkerPC

LEMMA NextThreading ==
  ASSUME IInv, Threading, [Next]_vars PROVE Threading'
<1>1. ASSUME NEW t \in App, QueueEmpty(t) PROVE Threading'
  BY <1>1 DEF QueueEmpty, queueVars, Threading, ByMode, OwnMessage, WorkersMessage
<1>2. CASE Crash
  BY <1>2, LoggerAssumption
  DEF Crash, queueVars, callVars, Threading, ByMode, OwnMessage, WorkersMessage, Threads,
      RoutePC, WorkerPC
<1>3. CASE UNCHANGED vars
  BY <1>3 DEF vars, Threading, ByMode, OwnMessage, WorkersMessage
<1> QED
  BY Steps, <1>1, <1>2, <1>3, WriteThreading, PushThreading, ExitThreading, PopThreading,
     FinishThreading, MoveThreading, DtorThreading

-----------------------------------------------------------------------------
(* The order of the queue.                                                 *)

InSubmissionOrder ==
  /\ \A i, j \in DOMAIN History :
       i < j /\ History[i].from = History[j].from => History[i].seq < History[j].seq
  /\ \A i \in DOMAIN History, t \in App :
       History[i].from = t => History[i].seq <= Submitted(t)
  /\ Async => \A t \in App : \A n \in 1 .. Submitted(t) :
       \E i \in DOMAIN History : History[i].from = t /\ History[i].seq = n

\* The queue continues what was taken from it.
LEMMA HistoryParts ==
  ASSUME IInv
  PROVE  /\ History \in Seq(Message)
         /\ Len(taken) \in Nat /\ Len(log_msg_queue) \in Nat
         /\ DOMAIN taken = 1 .. Len(taken) /\ DOMAIN log_msg_queue = 1 .. Len(log_msg_queue)
         /\ DOMAIN History = 1 .. Len(taken) + Len(log_msg_queue)
         /\ \A i \in DOMAIN taken : History[i] = taken[i]
         /\ \A i \in DOMAIN log_msg_queue : History[Len(taken) + i] = log_msg_queue[i]
<1>1. taken \in Seq(Message) /\ log_msg_queue \in Seq(Message) BY DEF IInv, TypeOK
<1>2. History \in Seq(Message) /\ Len(History) = Len(taken) + Len(log_msg_queue)
  BY <1>1, ConcatProperties DEF History
<1>3. \A i \in 1 .. Len(History) :
        History[i] = IF i <= Len(taken) THEN taken[i] ELSE log_msg_queue[i - Len(taken)]
  BY <1>1, ConcatProperties DEF History
<1>4. Len(taken) \in Nat /\ Len(log_msg_queue) \in Nat BY <1>1
<1>5. DOMAIN taken = 1 .. Len(taken) /\ DOMAIN log_msg_queue = 1 .. Len(log_msg_queue)
      /\ DOMAIN History = 1 .. Len(History)
  BY <1>1, <1>2
<1>6. \A i \in DOMAIN taken : History[i] = taken[i] BY ONLY <1>2, <1>3, <1>4, <1>5
<1>7. \A i \in DOMAIN log_msg_queue : History[Len(taken) + i] = log_msg_queue[i]
  BY ONLY <1>2, <1>3, <1>4, <1>5
<1> QED BY <1>2, <1>4, <1>5, <1>6, <1>7

\* push() makes the history longer, pop() leaves it as it is.
LEMMA PushedHistory ==
  ASSUME IInv, NEW m \in Message, LogMsgQueue!Push(m)
  PROVE  History' = Append(History, m)
<1>1. taken \in Seq(Message) /\ log_msg_queue \in Seq(Message) BY DEF IInv, TypeOK
<1>2. taken' = taken /\ log_msg_queue' = log_msg_queue \o <<m>>
  BY <1>1, AppendIsConcat DEF LogMsgQueue!Push
<1>3. taken \o (log_msg_queue \o <<m>>) = (taken \o log_msg_queue) \o <<m>>
  BY <1>1, ConcatAssociative
<1>4. History \in Seq(Message) BY <1>1, ConcatProperties DEF History
<1>5. Append(History, m) = History \o <<m>> BY <1>4, AppendIsConcat
<1> QED BY <1>2, <1>3, <1>5 DEF History

LEMMA PoppedHistory ==
  ASSUME IInv, LogMsgQueue!Pop PROVE History' = History
<1> DEFINE m == Head(log_msg_queue)
           rest == Tail(log_msg_queue)
<1>1. taken \in Seq(Message) /\ log_msg_queue \in Seq(Message) BY DEF IInv, TypeOK
<1>2. log_msg_queue # << >> /\ taken' = Append(taken, m) /\ log_msg_queue' = rest
  BY DEF LogMsgQueue!Pop
<1>3. m \in Message /\ rest \in Seq(Message) BY <1>1, <1>2
<1>4. log_msg_queue = <<m>> \o rest BY <1>1, <1>2, HeadTailProperties
<1>5. Append(taken, m) = taken \o <<m>> BY <1>1, <1>3, AppendIsConcat
<1>6. (taken \o <<m>>) \o rest = taken \o (<<m>> \o rest)
  BY <1>1, <1>3, ConcatAssociative
<1> QED BY <1>2, <1>4, <1>5, <1>6 DEF History

\* One more message of thread t, the next one of it.
LEMMA OneMoreInOrder ==
  ASSUME IInv, InSubmissionOrder, NEW t \in App, NEW m \in Message,
         m.from = t, Submitted(t) \in Nat, m.seq = Submitted(t) + 1,
         History' = Append(History, m),
         \A u \in App : Submitted(u)' = IF u = t THEN Submitted(u) + 1 ELSE Submitted(u)
  PROVE  InSubmissionOrder'
<1>1. History \in Seq(Message) BY HistoryParts
<1>2. /\ DOMAIN History = 1 .. Len(History) /\ Len(History) \in Nat
      /\ DOMAIN History' = 1 .. Len(History) + 1
      /\ \A i \in DOMAIN History : History'[i] = History[i] /\ History[i] \in Message
      /\ History'[Len(History) + 1] = m
  BY <1>1
<1>3. \A x \in Message : x.from \in App /\ x.seq \in Nat
  BY LoggerAssumption DEF Message
<1>4. \A i, j \in DOMAIN History' :
        i < j /\ History'[i].from = History'[j].from => History'[i].seq < History'[j].seq
  <2>1. SUFFICES ASSUME NEW i \in DOMAIN History', NEW j \in DOMAIN History',
                        i < j, History'[i].from = History'[j].from
                 PROVE  History'[i].seq < History'[j].seq
    OBVIOUS
  <2>2. i \in DOMAIN History BY <1>2, <2>1
  <2>3. CASE j \in DOMAIN History BY <1>2, <2>1, <2>2, <2>3 DEF InSubmissionOrder
  <2>4. CASE j = Len(History) + 1
    <3>1. History[i].seq <= Submitted(t) BY <1>2, <2>1, <2>2, <2>4 DEF InSubmissionOrder
    <3>2. History[i].seq \in Nat BY <1>2, <1>3, <2>2
    <3> QED BY <1>2, <2>2, <2>4, <3>1, <3>2
  <2> QED BY <1>2, <2>3, <2>4
<1>5. ASSUME NEW i \in DOMAIN History', NEW u \in App, History'[i].from = u
      PROVE  History'[i].seq <= Submitted(u)'
  <2>1. CASE i \in DOMAIN History
    <3>1. History[i].seq <= Submitted(u) /\ History[i].seq \in Nat
      BY <1>2, <1>3, <1>5, <2>1 DEF InSubmissionOrder
    <3> QED BY <1>2, <2>1, <3>1
  <2>2. CASE i = Len(History) + 1 BY <1>2, <1>5, <2>2
  <2> QED BY <1>2, <2>1, <2>2
<1>6. ASSUME Async, NEW u \in App, NEW n \in 1 .. Submitted(u)'
      PROVE  \E i \in DOMAIN History' : History'[i].from = u /\ History'[i].seq = n
  <2>1. CASE n \in 1 .. Submitted(u)
    BY <1>2, <1>6, <2>1 DEF InSubmissionOrder
  <2>2. CASE u = t /\ n = Submitted(t) + 1
    <3>1. Len(History) + 1 \in DOMAIN History' BY ONLY <1>2
    <3>2. History'[Len(History) + 1].from = u /\ History'[Len(History) + 1].seq = n
      BY <1>2, <2>2
    <3> QED BY ONLY <3>1, <3>2
  <2> QED BY <1>6, <2>1, <2>2
<1> QED BY <1>4, <1>5, <1>6 DEF InSubmissionOrder

\* Nothing new in the queue.
LEMMA SameOrder ==
  ASSUME InSubmissionOrder, History' = History,
         \A u \in App : Submitted(u)' = Submitted(u)
  PROVE  InSubmissionOrder'
  BY DEF InSubmissionOrder

\* The counters of a thread that logs.
LEMMA Counters ==
  ASSUME IInv, Threading, NEW t \in App
  PROVE  /\ sent[t] \in Nat /\ Submitted(t) \in Nat /\ Submitted(t) <= sent[t]
         /\ msg[t] # NoMsg => msg[t] \in Message /\ msg[t].from = t
                              /\ msg[t].seq = Submitted(t) + 1 /\ sent[t] = Submitted(t) + 1
         /\ pc[t] \in RoutePC \cup {"push"} => msg[t] # NoMsg
<1>1. sent[t] \in Nat /\ msg[t] \in Message \cup {NoMsg}
  BY LoggerAssumption DEF IInv, TypeOK, Threads
<1>2. msg[t] # NoMsg => msg[t].from = t /\ msg[t].seq = sent[t]
  BY DEF Threading, OwnMessage
<1>3. \A x \in Message : x.seq \in Nat /\ x.seq >= 1
  BY LoggerAssumption DEF Message
<1>4. pc[t] \in RoutePC \cup {"push"} => msg[t] # NoMsg
  BY NoMsgIsNone DEF IInv, LocalsFit, Threads
<1> QED BY <1>1, <1>2, <1>3, <1>4 DEF Submitted

LEMMA NextOrder ==
  ASSUME IInv, Threading, InSubmissionOrder, [Next]_vars
  PROVE  InSubmissionOrder'
<1> USE DEF Goto, queueVars, lifeVars, routeVars, callVars, logVars
<1>0. /\ msg \in [Threads -> Message \cup {NoMsg}] /\ sent \in [App -> 0 .. MaxMsgs + 1]
      /\ App \subseteq Threads /\ MaxMsgs \in Nat
  BY LoggerAssumption DEF IInv, TypeOK, Threads
<1>1. ASSUME NEW t \in App, NEW l \in Levels, WriteLog(t, l) PROVE InSubmissionOrder'
  <2>1. msg[t] = NoMsg BY <1>1 DEF WriteLog, Threading, OwnMessage, RoutePC
  <2>2. History' = History BY <1>1 DEF WriteLog, History
  <2>3. /\ sent' = [sent EXCEPT ![t] = @ + 1]
        /\ msg' = [msg EXCEPT ![t] = [from |-> t, seq |-> sent[t] + 1, lvl |-> l]]
    BY <1>1 DEF WriteLog
  <2>4. [from |-> t, seq |-> sent[t] + 1, lvl |-> l] # NoMsg
    BY NoMsgIsNone DEF NoMsg
  <2>5. \A u \in App : Submitted(u)' = Submitted(u)
    BY <1>0, <2>1, <2>3, <2>4 DEF Submitted
  <2> QED BY <2>2, <2>5, SameOrder
<1>2. ASSUME NEW t \in App, Push(t) PROVE InSubmissionOrder'
  <2>1. msg[t] # NoMsg BY <1>2, Counters DEF Push
  <2>2. LogMsgQueue!Push(msg[t]) BY <1>2 DEF Push
  <2>3. msg' = [msg EXCEPT ![t] = NoMsg] /\ sent' = sent BY <1>2 DEF Push
  <2>4. sent[t] = Submitted(t) + 1 BY <2>1, Counters
  <2>5. \A u \in App : Submitted(u)' = IF u = t THEN Submitted(u) + 1 ELSE Submitted(u)
    BY <1>0, <2>1, <2>3, <2>4 DEF Submitted
  <2> QED BY <2>1, <2>2, <2>5, Counters, PushedHistory, OneMoreInOrder
<1>3. ASSUME NEW t \in App, DtorExit(t) PROVE InSubmissionOrder'
  <2> DEFINE m == [from |-> t, seq |-> sent[t] + 1, lvl |-> EAL_INTERNAL]
  <2>1. msg[t] = NoMsg BY <1>3 DEF DtorExit, Threading, OwnMessage, RoutePC
  <2>2. LogMsgQueue!Push(m) BY <1>3 DEF DtorExit
  <2>3. msg' = msg /\ sent' = [sent EXCEPT ![t] = @ + 1] BY <1>3 DEF DtorExit
  <2>4. Submitted(t) = sent[t] BY <2>1 DEF Submitted
  <2>5. sent[t] \in 0 .. MaxMsgs
    BY <1>0, <1>3 DEF DtorExit, IInv, SentBounded
  <2>6. m \in Message BY <1>0, <2>5 DEF Message, LOG_LEVEL, EAL_DEBUG, EAL_INTERNAL
  <2>7. m.from = t /\ m.seq = Submitted(t) + 1 BY <2>4
  <2>8. \A u \in App : Submitted(u)' = IF u = t THEN Submitted(u) + 1 ELSE Submitted(u)
    BY <1>0, <2>1, <2>3 DEF Submitted
  <2> HIDE DEF m
  <2> QED BY <2>2, <2>6, <2>7, <2>8, Counters, PushedHistory, OneMoreInOrder
<1>4. CASE Pop
  <2>1. History' = History BY <1>4, PoppedHistory DEF Pop
  <2>2. \A u \in App : Submitted(u)' = Submitted(u)
    BY <1>0, <1>4, NoMsgIsNone DEF Pop, Submitted
  <2> QED BY <2>1, <2>2, SameOrder
<1>5. ASSUME NEW t \in Threads, Finishes(t) PROVE InSubmissionOrder'
  <2>1. History' = History BY <1>5 DEF Finishes, History
  <2>2. CASE t = Worker
    <3>1. \A u \in App : Submitted(u)' = Submitted(u)
      BY <1>0, <1>5, <2>2, NoMsgIsNone DEF Finishes, Submitted
    <3> QED BY <2>1, <3>1, SameOrder
  <2>3. CASE t \in App
    <3>1. ~ Async BY <1>5, <2>3 DEF Finishes, RoutePC, Threading, ByMode
    <3>2. Len(taken) = 0 /\ Len(log_msg_queue) = 0 BY <3>1 DEF Threading, ByMode
    <3>3. DOMAIN History' = {} BY <2>1, <3>2, HistoryParts
    <3> QED BY <3>1, <3>3 DEF InSubmissionOrder
  <2> QED BY <2>2, <2>3 DEF Threads
<1>6. ASSUME UNCHANGED <<log_msg_queue, taken, msg, sent>> PROVE InSubmissionOrder'
  BY <1>6, SameOrder DEF History, Submitted
<1>7. ASSUME NEW t \in App, QueueEmpty(t) \/ DtorMoves(t)
      PROVE  UNCHANGED <<log_msg_queue, taken, msg, sent>>
  BY <1>7 DEF QueueEmpty, DtorMoves, DtorStart, DtorPoll, DtorStop, DtorJoin, DtorMembers
<1>8. ASSUME NEW t \in Threads, Moves(t)
      PROVE  UNCHANGED <<log_msg_queue, taken, msg, sent>>
  BY <1>8 DEF Moves
<1>9. Crash \/ UNCHANGED vars => UNCHANGED <<log_msg_queue, taken, msg, sent>>
  BY DEF Crash, vars
<1> QED BY Steps, <1>1, <1>2, <1>3, <1>4, <1>5, <1>6, <1>7, <1>8, <1>9

-----------------------------------------------------------------------------
(* What went to all sinks.                                                 *)

\* In asynchronous mode what was taken from the queue, but for the message that
\* the background thread works on; in synchronous mode what was submitted.
HandledSoFar ==
  IF Async THEN handled = {taken[i] : i \in 1 .. Done}
  ELSE \A t \in App :
         /\ \A m \in handled : m.from = t => m.seq <= Submitted(t)
         /\ \A n \in 1 .. Submitted(t) : Handled(t, n)

LEMMA NextHandled ==
  ASSUME IInv, Threading, HandledSoFar, [Next]_vars
  PROVE  HandledSoFar'
<1> USE DEF Goto, queueVars, lifeVars, routeVars, callVars, logVars
<1>0. /\ msg \in [Threads -> Message \cup {NoMsg}] /\ sent \in [App -> 0 .. MaxMsgs + 1]
      /\ App \subseteq Threads /\ Worker \in Threads /\ MaxMsgs \in Nat
      /\ handled \subseteq Message
  BY LoggerAssumption DEF IInv, TypeOK, Threads
<1>1. ASSUME UNCHANGED <<taken, handled>>, msg'[Worker] = msg[Worker],
             ~ Async => \A t \in App : Submitted(t)' = Submitted(t)
      PROVE  HandledSoFar'
  BY <1>1 DEF HandledSoFar, Done, Handled
<1>2. ASSUME NEW t \in App, NEW l \in Levels, WriteLog(t, l) PROVE HandledSoFar'
  <2>1. msg[t] = NoMsg BY <1>2 DEF WriteLog, Threading, OwnMessage, RoutePC
  <2>2. /\ sent' = [sent EXCEPT ![t] = @ + 1]
        /\ msg' = [msg EXCEPT ![t] = [from |-> t, seq |-> sent[t] + 1, lvl |-> l]]
        /\ UNCHANGED <<taken, handled>>
    BY <1>2 DEF WriteLog
  <2>3. [from |-> t, seq |-> sent[t] + 1, lvl |-> l] # NoMsg
    BY NoMsgIsNone DEF NoMsg
  <2>4. \A u \in App : Submitted(u)' = Submitted(u)
    BY <1>0, <2>1, <2>2, <2>3 DEF Submitted
  <2> QED BY <1>0, <1>1, <2>2, <2>4, NoMsgIsNone
<1>3. ASSUME NEW t \in App, Push(t) \/ DtorExit(t) PROVE HandledSoFar'
  <2>1. Async BY <1>3 DEF Push, DtorExit, Threading, ByMode
  <2>2. UNCHANGED <<taken, handled>> /\ msg'[Worker] = msg[Worker]
    BY <1>0, <1>3, NoMsgIsNone DEF Push, DtorExit, LogMsgQueue!Push
  <2> QED BY <1>1, <2>1, <2>2
<1>4. CASE Pop
  <2> DEFINE m == Head(log_msg_queue)
  <2>1. log_msg_queue # << >> /\ taken' = Append(taken, m) /\ handled' = handled
        /\ msg' = [msg EXCEPT ![Worker] = m] /\ pc[Worker] = "pop"
    BY <1>4 DEF Pop, LogMsgQueue!Pop
  <2>2. Async BY <2>1 DEF Threading, ByMode
  <2>3. log_msg_queue \in Seq(Message) /\ taken \in Seq(Message) BY DEF IInv, TypeOK
  <2>4. m \in Message BY <2>1, <2>3
  <2>5. msg[Worker] = NoMsg BY <2>1 DEF Threading, WorkersMessage, WorkerPC
  <2>6. m # NoMsg BY <2>4, NoMsgIsNone
  <2>7. msg'[Worker] = m BY <1>0, <2>1
  <2> HIDE DEF m
  <2>8. Len(taken') = Len(taken) + 1 /\ Len(taken) \in Nat
        /\ \A i \in 1 .. Len(taken) : taken'[i] = taken[i]
    BY <2>1, <2>3, <2>4
  <2>9. Done = Len(taken) /\ Done' = Len(taken)
    BY <2>5, <2>6, <2>7, <2>8 DEF Done
  <2>10. {taken'[i] : i \in 1 .. Len(taken)} = {taken[i] : i \in 1 .. Len(taken)}
    BY <2>8
  <2> QED BY <2>1, <2>2, <2>9, <2>10 DEF HandledSoFar
<1>5. ASSUME NEW t \in Threads, Finishes(t) PROVE HandledSoFar'
  <2>1. /\ handled' = handled \cup {msg[t]} /\ msg' = [msg EXCEPT ![t] = NoMsg]
        /\ UNCHANGED <<taken, sent>> /\ pc[t] \in RoutePC
    BY <1>5 DEF Finishes, RoutePC
  <2>2. CASE t = Worker
    <3>1. pc[Worker] # "exited" /\ pc[Worker] # "crashed" BY <2>1, <2>2 DEF RoutePC
    <3>2. Async BY <3>1 DEF IInv, DtorAlone
    <3>3. msg[Worker] # NoMsg BY <2>1, <2>2, NoMsgIsNone DEF IInv, LocalsFit, Threads
    <3>4. taken # << >> /\ msg[Worker] = taken[Len(taken)]
      BY <3>3 DEF Threading, WorkersMessage
    <3>5. taken \in Seq(Message) BY DEF IInv, TypeOK
    <3>6. Len(taken) \in Nat /\ Len(taken) >= 1 BY <3>4, <3>5
    <3>7. Done = Len(taken) - 1 /\ Done' = Len(taken)
      BY <1>0, <2>1, <2>2, <3>3 DEF Done
    <3>8. handled' = {taken[i] : i \in 1 .. Len(taken) - 1} \cup {taken[Len(taken)]}
      BY <2>1, <2>2, <3>2, <3>4, <3>7 DEF HandledSoFar
    <3>9. 1 .. Len(taken) = (1 .. Len(taken) - 1) \cup {Len(taken)} BY <3>6
    <3>10. handled' = {taken[i] : i \in 1 .. Len(taken)} BY <3>8, <3>9
    <3> QED BY <2>1, <3>2, <3>7, <3>10 DEF HandledSoFar
  <2>3. CASE t \in App
    <3>1. ~ Async BY <2>1, <2>3 DEF Threading, ByMode
    <3>2. /\ msg[t] \in Message /\ msg[t].from = t /\ msg[t].seq = Submitted(t) + 1
          /\ sent[t] = Submitted(t) + 1 /\ Submitted(t) \in Nat
      BY <2>1, <2>3, Counters
    <3>3. \A u \in App : Submitted(u)' = IF u = t THEN Submitted(u) + 1 ELSE Submitted(u)
      BY <1>0, <2>1, <2>3, <3>2, NoMsgIsNone DEF Submitted
    <3>4. ASSUME NEW u \in App, NEW m \in handled', m.from = u
          PROVE  m.seq <= Submitted(u)'
      <4>1. CASE m \in handled
        <5>1. m.seq <= Submitted(u) BY <3>1, <3>4, <4>1 DEF HandledSoFar
        <5>2. m \in Message /\ m.seq \in Nat BY <1>0, <4>1 DEF Message
        <5> QED BY <3>2, <3>3, <5>1, <5>2
      <4>2. CASE m = msg[t] BY <3>2, <3>3, <3>4, <4>2
      <4> QED BY <2>1, <3>4, <4>1, <4>2
    <3>5. ASSUME NEW u \in App, NEW n \in 1 .. Submitted(u)' PROVE Handled(u, n)'
      <4>1. CASE n \in 1 .. Submitted(u) BY <2>1, <3>1, <4>1 DEF HandledSoFar, Handled
      <4>2. CASE u = t /\ n = Submitted(t) + 1 BY <2>1, <3>2, <4>2 DEF Handled
      <4> QED BY <3>2, <3>3, <3>5, <4>1, <4>2
    <3> QED BY <3>1, <3>4, <3>5 DEF HandledSoFar
  <2> QED BY <2>2, <2>3 DEF Threads
<1>6. ASSUME NEW t \in App, QueueEmpty(t) \/ DtorMoves(t)
      PROVE  UNCHANGED <<taken, handled, msg, sent>>
  BY <1>6 DEF QueueEmpty, DtorMoves, DtorStart, DtorPoll, DtorStop, DtorJoin, DtorMembers
<1>7. ASSUME NEW t \in Threads, Moves(t) PROVE UNCHANGED <<taken, handled, msg, sent>>
  BY <1>7 DEF Moves
<1>8. Crash \/ UNCHANGED vars => UNCHANGED <<taken, handled, msg, sent>>
  BY DEF Crash, vars
<1>9. UNCHANGED <<taken, handled, msg, sent>> => HandledSoFar'
  BY <1>1 DEF Submitted
<1> QED BY Steps, <1>2, <1>3, <1>4, <1>5, <1>6, <1>7, <1>8, <1>9

-----------------------------------------------------------------------------
(* What an empty queue says.                                               *)

\* A thread that queue_empty() told TRUE and that has not logged since has no
\* message on the way into the queue or in it.
SeenEmpty == ~ Crashed => \A t \in saw_empty : pc[t] \notin DtorPC =>
  /\ msg[t] = NoMsg
  /\ \A i \in DOMAIN log_msg_queue : log_msg_queue[i].from # t

\* A destructor that did not give up waiting found the queue empty, and puts
\* nothing but its own last message there.
Drained == polls < MaxPolls => \A t \in App :
  /\ pc[t] \in {"dtor_stop", "dtor_exit"} => log_msg_queue = << >>
  /\ pc[t] \in {"dtor_join", "dtor_members", "destroyed"} =>
       \A i \in DOMAIN log_msg_queue :
         log_msg_queue[i].from = t /\ log_msg_queue[i].seq = sent[t]

\* What push() and pop() leave of a property of all messages in the queue.
LEMMA PushedElements ==
  ASSUME IInv, NEW m \in Message, LogMsgQueue!Push(m)
  PROVE  \A i \in DOMAIN log_msg_queue' :
           \/ i \in DOMAIN log_msg_queue /\ log_msg_queue'[i] = log_msg_queue[i]
           \/ log_msg_queue'[i] = m
<1>1. log_msg_queue \in Seq(Message) /\ log_msg_queue' = Append(log_msg_queue, m)
  BY DEF IInv, TypeOK, LogMsgQueue!Push
<1> QED BY <1>1

LEMMA PoppedElements ==
  ASSUME IInv, LogMsgQueue!Pop
  PROVE  \A i \in DOMAIN log_msg_queue' :
           i + 1 \in DOMAIN log_msg_queue /\ log_msg_queue'[i] = log_msg_queue[i + 1]
<1>1. /\ log_msg_queue \in Seq(Message) /\ log_msg_queue # << >>
      /\ log_msg_queue' = Tail(log_msg_queue)
  BY DEF IInv, TypeOK, LogMsgQueue!Pop
<1> QED BY <1>1

LEMMA NextSeenEmpty ==
  ASSUME IInv, Threading, SeenEmpty, [Next]_vars
  PROVE  SeenEmpty'
<1> USE NoMsgIsNone, LoggerAssumption
    DEF Goto, queueVars, lifeVars, routeVars, callVars, logVars
<1>0. /\ msg \in [Threads -> Message \cup {NoMsg}] /\ saw_empty \subseteq App
      /\ App \subseteq Threads /\ Worker \in Threads
      /\ sent \in [App -> 0 .. MaxMsgs + 1]
      /\ pc \in [Threads -> {"idle", "push", "crashed"} \cup ConfPC \cup RoutePC
                            \cup DtorPC \cup WorkerPC]
  BY DEF IInv, TypeOK, Threads
<1>1. ASSUME NEW t \in App, NEW l \in Levels, WriteLog(t, l) PROVE SeenEmpty'
  BY <1>0, <1>1 DEF WriteLog, SeenEmpty, Crashed, DtorPC
<1>2. ASSUME NEW t \in App, Push(t) PROVE SeenEmpty'
  <2>1. LogMsgQueue!Push(msg[t]) BY <1>2 DEF Push
  <2>2. msg[t] \in Message /\ msg[t] # NoMsg /\ msg[t].from = t
    BY <1>0, <1>2, Counters DEF Push
  <2>3. pc[t] = "push" /\ pc' = [pc EXCEPT ![t] = "idle"] /\ saw_empty' = saw_empty
        /\ msg' = [msg EXCEPT ![t] = NoMsg]
    BY <1>2 DEF Push
  <2>4. ASSUME NEW u \in saw_empty, pc'[u] \notin DtorPC, ~ Crashed'
        PROVE  msg'[u] = NoMsg /\ \A i \in DOMAIN log_msg_queue' : log_msg_queue'[i].from # u
    <3>1. ~ Crashed BY <1>0, <2>3, <2>4 DEF Crashed
    <3>2. t \notin saw_empty BY <2>2, <2>3, <3>1 DEF SeenEmpty, DtorPC
    <3>3. pc'[u] = pc[u] /\ msg'[u] = msg[u] /\ u # t BY <1>0, <2>3, <3>2
    <3>4. msg[u] = NoMsg /\ \A i \in DOMAIN log_msg_queue : log_msg_queue[i].from # u
      BY <2>4, <3>1, <3>3 DEF SeenEmpty
    <3> QED BY <2>1, <2>2, <3>3, <3>4, PushedElements
  <2> QED BY <2>3, <2>4 DEF SeenEmpty
<1>3. ASSUME NEW t \in App, QueueEmpty(t) PROVE SeenEmpty'
  <2>1. log_msg_queue = << >> => DOMAIN log_msg_queue = {} OBVIOUS
  <2> QED
    BY <1>0, <1>3, <2>1
    DEF QueueEmpty, SeenEmpty, Crashed, Threading, OwnMessage, RoutePC
<1>4. ASSUME NEW t \in App, DtorExit(t) PROVE SeenEmpty'
  <2> DEFINE m == [from |-> t, seq |-> sent[t] + 1, lvl |-> EAL_INTERNAL]
  <2>1. LogMsgQueue!Push(m) /\ m.from = t BY <1>4 DEF DtorExit
  <2>2. sent[t] \in 0 .. MaxMsgs
    BY <1>0, <1>4 DEF DtorExit, IInv, SentBounded
  <2>3. m \in Message BY <2>2 DEF Message, LOG_LEVEL, EAL_DEBUG, EAL_INTERNAL
  <2>4. UNCHANGED <<msg, saw_empty>> /\ pc' = [pc EXCEPT ![t] = "dtor_join"]
    BY <1>4 DEF DtorExit
  <2> HIDE DEF m
  <2>5. \A u \in App : pc'[u] \notin DtorPC => u # t /\ pc[u] \notin DtorPC
    BY <1>0, <2>4 DEF DtorPC
  <2>6. ~ Crashed' => ~ Crashed BY <1>0, <2>4 DEF Crashed
  <2> QED BY <1>0, <2>1, <2>3, <2>4, <2>5, <2>6, PushedElements DEF SeenEmpty
<1>5. CASE Pop
  <2>1. LogMsgQueue!Pop BY <1>5 DEF Pop
  <2>2. /\ \A u \in App : pc'[u] = pc[u] /\ msg'[u] = msg[u]
        /\ saw_empty' = saw_empty /\ ~ Crashed
    BY <1>0, <1>5 DEF Pop, Crashed
  <2> QED BY <1>0, <2>1, <2>2, PoppedElements DEF SeenEmpty
<1>6. ASSUME NEW t \in Threads, Finishes(t) PROVE SeenEmpty'
  <2>1. \A u \in App : pc'[u] \notin DtorPC => pc[u] \notin DtorPC
    BY <1>0, <1>6 DEF Finishes, DtorPC
  <2>2. \A u \in App : msg[u] = NoMsg => msg'[u] = NoMsg BY <1>0, <1>6 DEF Finishes
  <2>3. ~ Crashed' => ~ Crashed BY <1>0, <1>6 DEF Finishes, Crashed
  <2> QED BY <1>0, <1>6, <2>1, <2>2, <2>3 DEF Finishes, SeenEmpty
<1>7. ASSUME NEW t \in Threads, Moves(t) PROVE SeenEmpty'
  <2>1. \A u \in App : pc'[u] \notin DtorPC => pc[u] \notin DtorPC
    BY <1>0, <1>7 DEF Moves, DtorPC, ConfPC, RoutePC
  <2>2. ~ Crashed' => ~ Crashed BY <1>0, <1>7 DEF Moves, Crashed, ConfPC, RoutePC
  <2> QED BY <1>0, <1>7, <2>1, <2>2 DEF Moves, SeenEmpty
<1>8. ASSUME NEW t \in App, DtorMoves(t) PROVE SeenEmpty'
  <2>1. UNCHANGED <<log_msg_queue, msg, saw_empty>> /\ pc'[Worker] = pc[Worker]
    BY <1>0, <1>8 DEF DtorMoves, DtorStart, DtorPoll, DtorStop, DtorJoin, DtorMembers
  <2>2. \A u \in App : pc'[u] \notin DtorPC => pc[u] \notin DtorPC
    BY <1>0, <1>8 DEF DtorMoves, DtorStart, DtorPoll, DtorStop, DtorJoin, DtorMembers, DtorPC
  <2> QED BY <1>0, <2>1, <2>2 DEF SeenEmpty, Crashed
<1>9. CASE Crash
  BY <1>9 DEF Crash, SeenEmpty, Crashed, Threads
<1>10. CASE UNCHANGED vars BY <1>10 DEF vars, SeenEmpty, Crashed
<1> QED
  BY Steps, <1>1, <1>2, <1>3, <1>4, <1>5, <1>6, <1>7, <1>8, <1>9, <1>10

LEMMA NextDrained ==
  ASSUME IInv, Threading, Drained, [Next]_vars
  PROVE  Drained'
<1> USE LoggerAssumption
    DEF Goto, queueVars, lifeVars, routeVars, callVars, logVars
<1>0. /\ App \subseteq Threads /\ Worker \in Threads /\ Worker \notin App
      /\ pc \in [Threads -> {"idle", "push", "crashed"} \cup ConfPC \cup RoutePC
                            \cup DtorPC \cup WorkerPC]
      /\ sent \in [App -> 0 .. MaxMsgs + 1] /\ polls \in 0 .. MaxPolls
  BY DEF IInv, TypeOK, Threads
\* A step that changes neither the queue nor the destructor's position.
<1>1. ASSUME UNCHANGED log_msg_queue, UNCHANGED polls,
             \A u \in App : /\ pc'[u] \in DtorPC => pc'[u] = pc[u]
                            /\ pc[u] \in DtorPC => sent'[u] = sent[u]
      PROVE  Drained'
  BY <1>1 DEF Drained, DtorPC
\* While the destructor runs, nobody else is in a call.
<1>2. ASSUME NEW t \in App, pc[t] \notin DtorPC \cup {"idle", "crashed"}
      PROVE  \A u \in App : pc[u] \notin DtorPC
  BY <1>2 DEF IInv, DtorAlone
<1>3. ASSUME NEW t \in App, NEW l \in Levels, WriteLog(t, l) PROVE Drained'
  <2>1. \A u \in App : /\ pc'[u] \in DtorPC => pc'[u] = pc[u]
                       /\ pc[u] \in DtorPC => sent'[u] = sent[u]
    BY <1>0, <1>3 DEF WriteLog, DtorPC
  <2> QED BY <1>1, <1>3, <2>1 DEF WriteLog
<1>4. ASSUME NEW t \in App, Push(t) PROVE Drained'
  <2>1. \A u \in App : pc[u] \notin DtorPC BY <1>2, <1>4 DEF Push, DtorPC
  <2>2. \A u \in App : pc'[u] \notin DtorPC BY <1>0, <1>4, <2>1 DEF Push, DtorPC
  <2> QED BY <2>2 DEF Drained, DtorPC
<1>5. ASSUME NEW t \in App, QueueEmpty(t) PROVE Drained'
  BY <1>1, <1>5 DEF QueueEmpty
<1>6. ASSUME NEW t \in App, DtorExit(t) PROVE Drained'
  <2> DEFINE m == [from |-> t, seq |-> sent[t] + 1, lvl |-> EAL_INTERNAL]
  <2>1. LogMsgQueue!Push(m) /\ m.from = t /\ m.seq = sent[t] + 1 BY <1>6 DEF DtorExit
  <2>2. sent[t] \in 0 .. MaxMsgs
    BY <1>0, <1>6 DEF DtorExit, IInv, SentBounded
  <2>3. m \in Message BY <2>2 DEF Message, LOG_LEVEL, EAL_DEBUG, EAL_INTERNAL
  <2>4. /\ pc[t] = "dtor_exit" /\ pc' = [pc EXCEPT ![t] = "dtor_join"]
        /\ polls' = polls /\ sent'[t] = sent[t] + 1
    BY <1>0, <1>6 DEF DtorExit
  <2>5. \A u \in App \ {t} : pc'[u] = "idle"
    BY <1>0, <2>4 DEF IInv, DtorAlone, DtorPC
  <2>6. pc'[t] = "dtor_join" BY <1>0, <2>4
  <2> HIDE DEF m
  <2>7. ASSUME polls < MaxPolls, NEW i \in DOMAIN log_msg_queue'
        PROVE  log_msg_queue'[i] = m
    <3>1. log_msg_queue = << >> BY <2>4, <2>7 DEF Drained
    <3> QED BY <2>1, <2>3, <2>7, <3>1, PushedElements
  <2> QED BY <2>1, <2>4, <2>5, <2>6, <2>7 DEF Drained
<1>7. ASSUME NEW t \in App, DtorMoves(t) PROVE Drained'
  <2>1. UNCHANGED <<log_msg_queue, sent>>
    BY <1>7 DEF DtorMoves, DtorStart, DtorPoll, DtorStop, DtorJoin, DtorMembers
  <2>2. CASE DtorStart(t)
    <3>1. \A u \in App : pc[u] = "idle" BY <2>2 DEF DtorStart
    <3>2. polls' = polls /\ \A u \in App :
            pc'[u] \in {"idle"} \cup (IF Async THEN {"dtor_poll"} ELSE {"dtor_members"})
      BY <1>0, <2>2, <3>1 DEF DtorStart
    <3>3. ~ Async => DOMAIN log_msg_queue = {} BY DEF Threading, ByMode
    <3> QED BY <2>1, <3>2, <3>3 DEF Drained
  <2>3. CASE DtorPoll(t)
    <3>1. \A u \in App \ {t} : pc'[u] = "idle"
      BY <1>0, <2>3 DEF DtorPoll, IInv, DtorAlone, DtorPC
    <3>2. \/ pc'[t] = "dtor_poll"
          \/ /\ pc'[t] = "dtor_stop" /\ polls' = polls
             /\ log_msg_queue = << >> \/ polls = MaxPolls
      BY <1>0, <2>3 DEF DtorPoll
    <3> QED BY <2>1, <3>1, <3>2 DEF Drained
  <2>4. CASE DtorStop(t)
    <3>1. pc[t] = "dtor_stop" /\ polls' = polls /\ pc' = [pc EXCEPT ![t] = "dtor_exit"]
      BY <2>4 DEF DtorStop
    <3> QED BY <1>0, <2>1, <3>1 DEF Drained
  <2>5. CASE DtorJoin(t)
    <3>1. pc[t] = "dtor_join" /\ polls' = polls /\ pc' = [pc EXCEPT ![t] = "dtor_members"]
      BY <2>5 DEF DtorJoin
    <3> QED BY <1>0, <2>1, <3>1 DEF Drained
  <2>6. CASE DtorMembers(t)
    <3>1. pc[t] = "dtor_members" /\ polls' = polls /\ pc' = [pc EXCEPT ![t] = "destroyed"]
      BY <2>6 DEF DtorMembers
    <3> QED BY <1>0, <2>1, <3>1 DEF Drained
  <2> QED BY <1>7, <2>2, <2>3, <2>4, <2>5, <2>6 DEF DtorMoves
<1>8. ASSUME NEW t \in Threads, Finishes(t) \/ Moves(t) PROVE Drained'
  <2>1. UNCHANGED log_msg_queue /\ UNCHANGED polls /\ UNCHANGED sent
    BY <1>8 DEF Finishes, Moves
  <2>2. \A u \in App : pc'[u] \in DtorPC => pc'[u] = pc[u]
    BY <1>0, <1>8 DEF Finishes, Moves, DtorPC, ConfPC, RoutePC
  <2> QED BY <1>1, <2>1, <2>2
<1>9. CASE Pop
  <2>1. LogMsgQueue!Pop BY <1>9 DEF Pop
  <2>2. \A u \in App : pc'[u] = pc[u] BY <1>0, <1>9 DEF Pop
  <2>3. UNCHANGED <<sent, polls>> BY <1>9 DEF Pop
  <2>4. log_msg_queue # << >> BY <2>1 DEF LogMsgQueue!Pop
  <2> QED BY <2>1, <2>2, <2>3, <2>4, PoppedElements DEF Drained
<1>10. CASE Crash
  <2>1. \A u \in App : pc'[u] \notin DtorPC BY <1>0, <1>10 DEF Crash, DtorPC
  <2> QED BY <2>1 DEF Drained, DtorPC
<1>11. CASE UNCHANGED vars BY <1>1, <1>11 DEF vars
<1> QED
  BY Steps, <1>3, <1>4, <1>5, <1>6, <1>7, <1>8, <1>9, <1>10, <1>11

-----------------------------------------------------------------------------
(* The invariant, and what it says of the log.                             *)

Trail == Threading /\ InSubmissionOrder /\ HandledSoFar /\ SeenEmpty /\ Drained

\* A new Logger has nothing submitted, nothing handled and nothing seen.
LEMMA InitTrail == ASSUME Init, IInv PROVE Trail
<1> USE DEF Init
<1>1. Len(taken) = 0 /\ Len(log_msg_queue) = 0 OBVIOUS
<1>2. DOMAIN History = {} BY <1>1, HistoryParts
<1>3. \A t \in App : Submitted(t) = 0 BY DEF Submitted, Threads
<1>4. InSubmissionOrder BY <1>2, <1>3 DEF InSubmissionOrder
<1>5. HandledSoFar
  <2>1. msg[Worker] = NoMsg BY DEF Threads
  <2>2. Done = 0 BY <1>1, <2>1 DEF Done
  <2>3. {taken[i] : i \in 1 .. Done} = {} BY <2>2
  <2> QED BY <1>3, <2>3 DEF HandledSoFar
<1>6. SeenEmpty BY DEF SeenEmpty
<1>7. Drained
  <2>1. \A t \in App : pc[t] = "idle" BY DEF Threads
  <2> QED BY <2>1 DEF Drained
<1> QED BY <1>4, <1>5, <1>6, <1>7, InitThreading DEF Trail

\* The invariant: with IInv, Trail is inductive.
THEOREM TrailInvariance == Spec => [](IInv /\ Trail)
<1>1. Init /\ IInv => Trail BY InitTrail
<1>2. IInv /\ Trail /\ [Next]_vars => Trail'
  <2> SUFFICES ASSUME IInv, Trail, [Next]_vars PROVE Trail' OBVIOUS
  <2> QED
    BY NextThreading, NextOrder, NextHandled, NextSeenEmpty, NextDrained DEF Trail
<1> QED BY LoggerInvariance, <1>1, <1>2, PTL DEF Spec

\* In asynchronous mode a message that was submitted is in the history, and the
\* background thread is done with all but the end of what it took.
LEMMA Submissions ==
  ASSUME IInv, Trail, Async, NEW t \in App, NEW n \in 1 .. Submitted(t)
  PROVE  \E i \in DOMAIN History :
           /\ History[i].from = t /\ History[i].seq = n
           /\ \/ Handled(t, n)
              \/ i = Len(taken) /\ msg[Worker] # NoMsg /\ msg[Worker] = History[i]
              \/ \E k \in DOMAIN log_msg_queue : log_msg_queue[k] = History[i]
<1>1. PICK i \in DOMAIN History : History[i].from = t /\ History[i].seq = n
  BY DEF Trail, InSubmissionOrder
<1>2. /\ Len(taken) \in Nat /\ Len(log_msg_queue) \in Nat
      /\ DOMAIN taken = 1 .. Len(taken) /\ DOMAIN log_msg_queue = 1 .. Len(log_msg_queue)
      /\ i \in 1 .. Len(taken) + Len(log_msg_queue)
      /\ \A k \in DOMAIN taken : History[k] = taken[k]
      /\ \A k \in DOMAIN log_msg_queue : History[Len(taken) + k] = log_msg_queue[k]
  BY HistoryParts
<1>3. CASE i \in 1 .. Done
  <2>1. Done \in {Len(taken), Len(taken) - 1} BY DEF Done
  <2>2. i \in DOMAIN taken BY ONLY <1>2, <1>3, <2>1
  <2>3. taken[i] \in handled BY <1>3 DEF Trail, HandledSoFar
  <2> QED BY <1>1, <1>2, <2>2, <2>3 DEF Handled
<1>4. CASE i \in DOMAIN taken /\ i \notin 1 .. Done
  <2>1. msg[Worker] # NoMsg /\ i = Len(taken) BY <1>2, <1>4 DEF Done
  <2>2. msg[Worker] = taken[Len(taken)]
    BY <2>1 DEF Trail, Threading, WorkersMessage
  <2> QED BY <1>1, <1>2, <1>4, <2>1, <2>2
<1>5. CASE i \notin DOMAIN taken
  <2> DEFINE k == i - Len(taken)
  <2>1. k \in DOMAIN log_msg_queue /\ Len(taken) + k = i BY ONLY <1>2, <1>5
  <2>2. log_msg_queue[k] = History[i] BY ONLY <1>2, <2>1
  <2> QED BY <1>1, <2>1, <2>2
<1> QED BY <1>3, <1>4, <1>5

\* A message goes through internal_log_routine() only after all earlier ones of
\* its thread, in both modes: what is lost when the destructor gives up waiting
\* is the end of each thread's log, never a gap in it.
THEOREM NoGapsKept == Spec => []NoGaps
<1>1. IInv /\ Trail => NoGaps
  <2> SUFFICES ASSUME IInv, Trail, NEW m \in handled, NEW n \in 1 .. m.seq - 1
               PROVE  Handled(m.from, n)
    BY DEF NoGaps
  <2>1. m \in Message /\ m.from \in App /\ m.seq \in Nat
    BY LoggerAssumption DEF IInv, TypeOK, Message
  <2>2. Submitted(m.from) \in Nat BY <2>1, Counters DEF Trail
  <2>3. CASE ~ Async
    <3>1. m.seq <= Submitted(m.from) BY <2>1, <2>3 DEF Trail, HandledSoFar
    <3>2. n \in 1 .. Submitted(m.from) BY <2>1, <2>2, <3>1
    <3> QED BY <2>1, <2>3, <3>2 DEF Trail, HandledSoFar
  <2>4. CASE Async
    <3>1. PICK i \in 1 .. Done : m = taken[i] BY <2>4 DEF Trail, HandledSoFar
    <3>2. Done \in {Len(taken), Len(taken) - 1} BY DEF Done
    <3>3. /\ Len(taken) \in Nat /\ Len(log_msg_queue) \in Nat
          /\ DOMAIN taken = 1 .. Len(taken)
          /\ DOMAIN History = 1 .. Len(taken) + Len(log_msg_queue)
          /\ \A k \in DOMAIN taken : History[k] = taken[k]
      BY HistoryParts
    <3>4. i \in DOMAIN taken /\ i \in DOMAIN History /\ Done \in Int
      BY ONLY <3>1, <3>2, <3>3
    <3>5. History[i] = m BY <3>1, <3>3, <3>4
    <3>6. m.seq <= Submitted(m.from) BY <2>1, <3>4, <3>5 DEF Trail, InSubmissionOrder
    <3>7. n \in 1 .. Submitted(m.from) BY <2>1, <2>2, <3>6
    <3>8. PICK j \in DOMAIN History : History[j].from = m.from /\ History[j].seq = n
      BY <2>1, <2>4, <3>7 DEF Trail, InSubmissionOrder
    <3>9. ~ (i < j) /\ i # j
      <4>1. i < j => m.seq < n BY <3>4, <3>5, <3>8 DEF Trail, InSubmissionOrder
      <4>2. ~ (m.seq < n) /\ n # m.seq BY <2>1
      <4> QED BY <3>5, <3>8, <4>1, <4>2
    <3>10. j \in 1 .. Done /\ j \in DOMAIN taken BY <3>1, <3>2, <3>3, <3>4, <3>8, <3>9
    <3>11. taken[j] \in handled BY <2>4, <3>10 DEF Trail, HandledSoFar
    <3>12. History[j] = taken[j] BY <3>3, <3>10
    <3> QED BY <3>8, <3>11, <3>12 DEF Handled
  <2> QED BY <2>3, <2>4
<1> QED BY TrailInvariance, <1>1, PTL

\* A destructor that did not give up waiting loses no message but, at most, the
\* "Logger EXIT" of its own, which no sink writes: what was in the queue and in
\* the background thread's hands is written before the members are destroyed.
THEOREM DrainedExitKept == Spec => []DrainedExit
<1>1. IInv /\ Trail => DrainedExit
  <2> SUFFICES ASSUME IInv, Trail, NEW d \in App, pc[d] = "destroyed", polls < MaxPolls,
                      NEW t \in App, NEW n \in 1 .. sent[t]
               PROVE  Handled(t, n) \/ (Async /\ pc[t] = "destroyed" /\ n = sent[t])
    BY DEF DrainedExit, Destroyed
  <2>1. pc[Worker] = "exited" /\ \A u \in App : pc[u] \in {"idle", "destroyed"}
    BY DEF IInv, DtorAlone, DtorPC
  <2>2. msg[Worker] = NoMsg /\ msg[t] = NoMsg
    BY <2>1 DEF Trail, Threading, WorkersMessage, OwnMessage, WorkerPC, RoutePC
  <2>3. n \in 1 .. Submitted(t) BY <2>2 DEF Submitted
  <2>4. CASE Async
    <3>1. PICK i \in DOMAIN History :
            /\ History[i].from = t /\ History[i].seq = n
            /\ \/ Handled(t, n)
               \/ \E k \in DOMAIN log_msg_queue : log_msg_queue[k] = History[i]
      BY <2>2, <2>3, <2>4, Submissions
    <3>2. \A k \in DOMAIN log_msg_queue :
            log_msg_queue[k].from = d /\ log_msg_queue[k].seq = sent[d]
      BY DEF Trail, Drained
    <3> QED BY <2>4, <3>1, <3>2
  <2>5. CASE ~ Async BY <2>3, <2>5 DEF Trail, HandledSoFar
  <2> QED BY <2>4, <2>5
<1> QED BY TrailInvariance, <1>1, PTL

\* When queue_empty() has told a thread TRUE, all messages of that thread are
\* written, but for its last, which the background thread may be working on.
THEOREM EmptyQueueLeavesOneKept == Spec => []EmptyQueueLeavesOne
<1>1. IInv /\ Trail => EmptyQueueLeavesOne
  <2> SUFFICES ASSUME IInv, Trail, ~ Crashed, NEW t \in saw_empty, NEW n \in 1 .. sent[t],
                      pc[t] \notin DtorPC
               PROVE  \/ Handled(t, n)
                      \/ msg[Worker].from = t /\ msg[Worker].seq = n /\ n = sent[t]
    BY DEF EmptyQueueLeavesOne
  <2>1. t \in App BY DEF IInv, TypeOK
  <2>2. msg[t] = NoMsg /\ \A k \in DOMAIN log_msg_queue : log_msg_queue[k].from # t
    BY DEF Trail, SeenEmpty
  <2>3. Submitted(t) = sent[t] /\ sent[t] \in Nat BY <2>1, <2>2, Counters DEF Submitted, Trail
  <2>4. CASE Async
    <3>1. ASSUME NEW k \in 1 .. sent[t]
          PROVE  \E i \in DOMAIN History :
                   /\ History[i].from = t /\ History[i].seq = k
                   /\ Handled(t, k) \/ (i = Len(taken) /\ msg[Worker] = History[i])
      BY <2>1, <2>2, <2>3, <2>4, <3>1, Submissions
    <3>2. PICK i \in DOMAIN History :
            /\ History[i].from = t /\ History[i].seq = n
            /\ Handled(t, n) \/ (i = Len(taken) /\ msg[Worker] = History[i])
      BY <3>1
    <3>3. CASE ~ Handled(t, n)
      <4>1. sent[t] \in 1 .. sent[t] BY <2>3
      <4>2. PICK j \in DOMAIN History : History[j].from = t /\ History[j].seq = sent[t]
        BY <3>1, <4>1
      <4>3. j \in 1 .. Len(taken)
        <5>1. /\ Len(taken) \in Nat /\ Len(log_msg_queue) \in Nat
              /\ DOMAIN log_msg_queue = 1 .. Len(log_msg_queue)
              /\ j \in 1 .. Len(taken) + Len(log_msg_queue)
              /\ \A k \in DOMAIN log_msg_queue : History[Len(taken) + k] = log_msg_queue[k]
          BY HistoryParts
        <5>2. j \notin 1 .. Len(taken) => j - Len(taken) \in DOMAIN log_msg_queue
                                          /\ Len(taken) + (j - Len(taken)) = j
          BY ONLY <5>1
        <5> QED BY <2>2, <4>2, <5>1, <5>2
      <4>4. i = Len(taken) /\ msg[Worker] = History[i] BY <3>2, <3>3
      <4>5. j < i => sent[t] < n BY <3>2, <4>2 DEF Trail, InSubmissionOrder
      <4>6. ~ (sent[t] < n) BY <2>3
      <4>7. j = i
        <5>1. Len(taken) \in Nat BY HistoryParts
        <5> QED BY <4>3, <4>4, <4>5, <4>6, <5>1
      <4> QED BY <3>2, <4>2, <4>4, <4>7
    <3> QED BY <3>2, <3>3
  <2>5. CASE ~ Async BY <2>1, <2>3, <2>5 DEF Trail, HandledSoFar
  <2> QED BY <2>4, <2>5
<1> QED BY TrailInvariance, <1>1, PTL
=============================================================================
