---------------------------- MODULE LoggerProofs ----------------------------
(***************************************************************************)
(* Proofs about Logger, for any threads, sinks, severities, calls and      *)
(* bounds and in both modes: its types, the discipline of the sinks'       *)
(* mutexes, that a decision to write holds until the write, and that an    *)
(* application that only replaces sinks while it logs meets no undefined   *)
(* behaviour.                                                              *)
(***************************************************************************)
EXTENDS Logger, SequenceTheorems, TLAPS

\* In the loop over the map, after its begin().
WalkPC == RoutePC \ {"route_begin"}

\* The local variables of each thread fit the place where it is.  An iterator
\* that is not dangling points to a sink of the map.
LocalsFit == \A t \in Threads :
  /\ pc[t] \in ConfPC => call[t] \in Call
  /\ pc[t] \in RoutePC \cup {"push"} => msg[t] \in Message
  /\ pc[t] \in WalkPC => it[t] \in Sinks /\ (t \in dangling \/ it[t] \in Present)
  /\ it[t] # End => pc[t] \in WalkPC \cup {"crashed"}

\* Only the destructor logs beyond MaxMsgs, once.
SentBounded == \A t \in App :
  pc[t] \notin {"dtor_join", "dtor_members", "destroyed", "crashed"} => sent[t] <= MaxMsgs

\* The destructor runs alone, and the members go after the background thread.
DtorAlone ==
  /\ \A t \in App : pc[t] \in DtorPC =>
       ~ alive /\ \A u \in App \ {t} : pc[u] = "idle"
  /\ ~ alive => \A t \in App : pc[t] \in DtorPC \cup {"idle", "crashed"}
  /\ \A t \in App : pc[t] \in {"dtor_members", "destroyed"} => pc[Worker] = "exited"
  /\ ~ Async => pc[Worker] \in {"exited", "crashed"}

\* The process ends with all its threads.
CrashIsTotal == \A t, u \in Threads : pc[t] = "crashed" => pc[u] = "crashed"

\* Before anything is logged there is no message anywhere.
NothingLogged == \A t \in App : sent[t] = 0
NoMessageYet == NothingLogged =>
  log_msg_queue = << >> /\ \A t \in Threads : pc[t] \notin RoutePC \cup {"push"}

\* A call that must not meet other calls runs alone, before anything is logged.
SetUpAlone == \A t \in App : pc[t] \in ConfPC /\ ~ AnyTime(call[t]) =>
  NothingLogged /\ \A u \in App \ {t} : pc[u] = "idle"

\* No iterator is lost if sinks are only replaced while messages are logged.
KeepsNodes == SinkChanges # "any" => dangling = {}

\* What every step preserves.
IInv ==
  /\ TypeOK
  /\ LocalsFit
  /\ SentBounded
  /\ MutexDiscipline
  /\ DecisionHolds
  /\ DtorAlone
  /\ CrashIsTotal
  /\ NoMessageYet
  /\ SetUpAlone
  /\ KeepsNodes
-----------------------------------------------------------------------------
\* The position of an iterator is a key of the set or the end.
LEMMA IteratorInside ==
  ASSUME NEW S \in SUBSET Sinks PROVE IteratorAt(S) \in S \cup {End}
<1>1. Sinks \subseteq {0, 1, 2}
  BY LoggerAssumption DEF EAL_CONSOLE, EAL_FILE_SIMPLE
<1>2. \E k \in S \cup {End} : \A j \in S \cup {End} : k <= j
  <2>1. CASE 0 \in S BY <1>1, <2>1 DEF End
  <2>2. CASE 0 \notin S /\ 1 \in S BY <1>1, <2>2 DEF End
  <2>3. CASE 0 \notin S /\ 1 \notin S /\ 2 \in S BY <1>1, <2>3 DEF End
  <2>4. CASE 0 \notin S /\ 1 \notin S /\ 2 \notin S BY <1>1, <2>4 DEF End
  <2> QED BY <2>1, <2>2, <2>3, <2>4
<1> QED BY <1>2 DEF IteratorAt

\* No key is the past-the-end position, and NoCall and NoMsg are neither.
LEMMA EndOutside == End \notin Sinks
  BY LoggerAssumption DEF End, EAL_CONSOLE, EAL_FILE_SIMPLE

\* The constructor leaves no message, no sink and no thread in a call.
LEMMA InitIInv == Init => IInv
<1> SUFFICES ASSUME Init PROVE IInv OBVIOUS
<1> USE LoggerAssumption, EndOutside DEF Init, Threads
<1>1. TypeOK
  <2>1. log_msg_queue \in Seq(Message) /\ taken \in Seq(Message) /\ out \in [Sinks -> Seq(Message)]
    OBVIOUS
  <2>2. pc \in [Threads -> {"idle", "push", "crashed"} \cup ConfPC \cup RoutePC \cup DtorPC \cup WorkerPC]
    BY DEF WorkerPC
  <2>3. sent \in [App -> 0 .. MaxMsgs + 1] /\ polls \in 0 .. MaxPolls OBVIOUS
  <2> QED BY <2>1, <2>2, <2>3 DEF TypeOK, WorkerPC
<1>2. LocalsFit /\ CrashIsTotal /\ NoMessageYet
  BY DEF LocalsFit, CrashIsTotal, NoMessageYet, ConfPC, RoutePC, WalkPC
<1>3. SentBounded /\ SetUpAlone /\ KeepsNodes /\ DtorAlone
  BY DEF SentBounded, SetUpAlone, KeepsNodes, DtorAlone, ConfPC, DtorPC
<1>4. MutexDiscipline /\ DecisionHolds
  BY DEF MutexDiscipline, DecisionHolds, Holds
<1> QED BY <1>1, <1>2, <1>3, <1>4 DEF IInv

\* write_log() and queue_empty() preserve the invariant.
LEMMA LogIInv ==
  ASSUME IInv, NEW t \in App,
         (\E l \in Levels : WriteLog(t, l)) \/ Push(t) \/ QueueEmpty(t)
  PROVE  IInv'
<1> USE LoggerAssumption
    DEF Threads, Goto, queueVars, lifeVars, routeVars, callVars, IInv, TypeOK
<1> USE DEF LocalsFit, SentBounded, MutexDiscipline, DecisionHolds, DtorAlone,
        CrashIsTotal, NoMessageYet, NothingLogged, SetUpAlone, KeepsNodes,
        ConfPC, RoutePC, WalkPC, DtorPC, WorkerPC, Holds, Crashed, Present,
        AnyTime, MayCall
<1>1. CASE \E l \in Levels : WriteLog(t, l)
  <2> PICK l \in Levels : WriteLog(t, l) BY <1>1
  <2>1. [from |-> t, seq |-> sent[t] + 1, lvl |-> l] \in Message
    BY DEF WriteLog, Message, LOG_LEVEL, EAL_DEBUG, EAL_INTERNAL, EAL_STACK
  <2>2. TypeOK' BY <2>1 DEF WriteLog
  <2>3. LocalsFit' /\ SentBounded' /\ NoMessageYet' BY <2>1 DEF WriteLog
  <2>4. MutexDiscipline' /\ DecisionHolds' BY DEF WriteLog
  <2>5. DtorAlone' /\ SetUpAlone' BY DEF WriteLog
  <2>6. CrashIsTotal' /\ KeepsNodes' BY DEF WriteLog
  <2> QED BY <2>2, <2>3, <2>4, <2>5, <2>6
<1>2. CASE Push(t)
  <2>1. msg[t] \in Message BY <1>2 DEF Push
  <2>2. LogMsgQueue!Push(msg[t]) BY <1>2 DEF Push
  <2>3. log_msg_queue' \in Seq(Message) /\ taken' = taken
    BY <2>1, <2>2 DEF LogMsgQueue!Push
  <2>4. TypeOK' BY <1>2, <2>3 DEF Push
  <2>5. LocalsFit' /\ SentBounded' /\ NoMessageYet' BY <1>2 DEF Push
  <2>6. MutexDiscipline' /\ DecisionHolds' BY <1>2 DEF Push
  <2>7. DtorAlone' /\ SetUpAlone' /\ CrashIsTotal' /\ KeepsNodes' BY <1>2 DEF Push
  <2> QED BY <2>4, <2>5, <2>6, <2>7
<1>3. CASE QueueEmpty(t)
  BY <1>3 DEF QueueEmpty
<1> QED BY <1>1, <1>2, <1>3

\* Entering a configuration call, and locking the sink's mutex in it.
LEMMA ConfEnterIInv ==
  ASSUME IInv, NEW t \in App, (\E c \in Calls : ConfCall(t, c)) \/ ConfLock(t)
  PROVE  IInv'
<1> USE LoggerAssumption, EndOutside
    DEF Threads, Goto, queueVars, lifeVars, routeVars, callVars, IInv, TypeOK
<1> USE DEF LocalsFit, SentBounded, MutexDiscipline, DecisionHolds, DtorAlone,
        CrashIsTotal, NoMessageYet, NothingLogged, SetUpAlone, KeepsNodes,
        ConfPC, RoutePC, WalkPC, DtorPC, WorkerPC, Holds, Crashed, Present,
        AnyTime, MayCall
<1>1. CASE \E c \in Calls : ConfCall(t, c)
  <2> PICK c \in Calls : ConfCall(t, c) BY <1>1
  <2>1. TypeOK' BY DEF ConfCall
  <2>2. LocalsFit' /\ SentBounded' /\ NoMessageYet' BY DEF ConfCall
  <2>3. MutexDiscipline' /\ DecisionHolds' BY DEF ConfCall
  <2>4. DtorAlone' /\ CrashIsTotal' /\ KeepsNodes' BY DEF ConfCall
  <2>5. SetUpAlone' BY DEF ConfCall
  <2> QED BY <2>1, <2>2, <2>3, <2>4, <2>5
<1>2. CASE ConfLock(t)
  <2>1. call[t].sink \in Sinks BY <1>2 DEF ConfLock, Call
  <2>2. TypeOK' BY <1>2, <2>1 DEF ConfLock
  <2>3. LocalsFit' /\ SentBounded' /\ NoMessageYet' BY <1>2 DEF ConfLock
  <2>4. MutexDiscipline' BY <1>2, <2>1 DEF ConfLock
  <2>5. DecisionHolds' BY <1>2 DEF ConfLock
  <2>6. DtorAlone' /\ CrashIsTotal' /\ KeepsNodes' /\ SetUpAlone' BY <1>2 DEF ConfLock
  <2> QED BY <2>2, <2>3, <2>4, <2>5, <2>6
<1> QED BY <1>1, <1>2

\* A call that leaves the sink as new.  Only discard_sink takes a sink away, and
\* then every iterator at it is lost; no other call loses one.
LEMMA ConfReturnIInv ==
  ASSUME IInv, NEW t \in App, NEW op, NEW new \in Sink \cup {NoSink}, NEW lost,
         ConfReturn(t, op, new, lost),
         lost \subseteq {u \in Threads : it[u] = call[t].sink},
         lost # {} => op = "discard_sink",
         new = NoSink /\ call[t].sink \in Present =>
           op = "discard_sink" /\ {u \in Threads : it[u] = call[t].sink} \subseteq lost
  PROVE  IInv'
<1> USE LoggerAssumption, EndOutside
    DEF Threads, Goto, queueVars, lifeVars, routeVars, callVars, IInv, TypeOK
<1> USE DEF LocalsFit, SentBounded, MutexDiscipline, DecisionHolds, DtorAlone,
        CrashIsTotal, NoMessageYet, NothingLogged, SetUpAlone, KeepsNodes,
        ConfPC, RoutePC, WalkPC, DtorPC, WorkerPC, Holds, Crashed, Present,
        AnyTime, MayCall
<1> USE DEF ConfReturn
<1>1. call[t].sink \in Sinks BY DEF Call
<1>2. TypeOK' BY <1>1
<1>3. Present' = IF new = NoSink THEN Present \ {call[t].sink}
                 ELSE Present \cup {call[t].sink}
  BY <1>1
<1>4. LocalsFit' BY <1>1
<1>5. MutexDiscipline' BY <1>1
<1>6. DecisionHolds'
  <2>1. ASSUME NEW u \in Threads, pc[u] = "route_write", ~ Crashed
        PROVE  it[u] # call[t].sink
    <3>1. Holds(t, call[t].sink) OBVIOUS
    <3>2. it[u] = call[t].sink => Holds(u, call[t].sink) BY <2>1
    <3>3. u # t BY <2>1
    <3>4. \A v \in Threads : Holds(v, call[t].sink) => logger_mutex_map[call[t].sink] = v
      BY ONLY IInv, <1>1, <2>1 DEF IInv, MutexDiscipline
    <3> HIDE DEF Holds
    <3> QED BY ONLY <3>1, <3>2, <3>3, <3>4, t \in App DEF Threads
  <2> QED BY <1>1, <2>1
<1>7. op = "discard_sink" /\ SinkChanges # "any" => NothingLogged /\ \A u \in App \ {t} : pc[u] = "idle"
  OBVIOUS
<1>8. KeepsNodes' BY <1>1, <1>7
<1>9. SetUpAlone' BY <1>1, <1>7
<1>10. SentBounded' /\ NoMessageYet' /\ DtorAlone' /\ CrashIsTotal' OBVIOUS
<1> QED BY <1>2, <1>4, <1>5, <1>6, <1>8, <1>9, <1>10

\* Each of the configuration calls preserves the invariant.
LEMMA ConfApplyIInv == ASSUME IInv, NEW t \in App, ConfApply(t) PROVE IInv'
<1> DEFINE s == call[t].sink
           sink == logger_sink_map[s]
<1>1. s \in Sinks /\ call[t] \in Call
  BY DEF IInv, LocalsFit, ConfApply, InitSink, DiscardSink, SetEnabled, SetMinLvl,
         SetFormat, IsInitialized, ConfReturn, ConfPC, Threads, Call
<1>2. sink \in Sink \cup {NoSink} BY <1>1 DEF IInv, TypeOK
<1>3. s \in Present <=> sink # NoSink BY <1>1 DEF Present
<1>4. CASE InitSink(t)
  <2>1. [enabled |-> call[t].enabled, min_lvl |-> call[t].min_lvl] \in Sink
    BY <1>1 DEF Call, Sink
  <2>2. [enabled |-> call[t].enabled, min_lvl |-> call[t].min_lvl] # NoSink
    BY <2>1, LoggerAssumption
  <2> QED BY <1>4, <2>1, <2>2, ConfReturnIInv DEF InitSink
<1>5. CASE DiscardSink(t)
  BY <1>3, <1>5, ConfReturnIInv DEF DiscardSink
<1>6. CASE SetEnabled(t)
  <2>1. sink \in Sink => [sink EXCEPT !.enabled = call[t].enabled] \in Sink
    BY <1>1 DEF Call, Sink
  <2>2. NoSink \notin Sink BY LoggerAssumption
  <2> QED BY <1>2, <1>3, <1>6, <2>1, <2>2, ConfReturnIInv DEF SetEnabled
<1>7. CASE SetMinLvl(t)
  <2>1. sink \in Sink => [sink EXCEPT !.min_lvl = call[t].min_lvl] \in Sink
    BY <1>1 DEF Call, Sink
  <2>2. NoSink \notin Sink BY LoggerAssumption
  <2> QED BY <1>2, <1>3, <1>7, <2>1, <2>2, ConfReturnIInv DEF SetMinLvl
<1>8. CASE SetFormat(t) BY <1>2, <1>3, <1>8, ConfReturnIInv DEF SetFormat
<1>9. CASE IsInitialized(t) BY <1>2, <1>3, <1>9, ConfReturnIInv DEF IsInitialized
<1> QED BY <1>4, <1>5, <1>6, <1>7, <1>8, <1>9 DEF ConfApply

\* The walk goes on at a key of the map, or the message is done with.
LEMMA WalkIInv ==
  ASSUME IInv, NEW t \in Threads, NEW k \in Present \cup {End},
         pc[t] \in {"route_begin", "route_next"}, RouteTo(t, k),
         dangling' \in {dangling, dangling \ {t}},
         UNCHANGED <<queueVars, lifeVars, callVars, logger_sink_map,
                     logger_mutex_map, out>>
  PROVE  IInv'
<1> USE LoggerAssumption, EndOutside
    DEF RouteTo, Threads, Goto, queueVars, lifeVars, callVars, IInv
<1>1. msg[t] \in Message /\ pc[t] \in RoutePC BY DEF LocalsFit, RoutePC
<1>2. k # End => k \in Sinks /\ logger_sink_map[k] # NoSink BY DEF Present
<1>3. \/ pc' = [pc EXCEPT ![t] = "route_lock"] /\ k # End /\ msg' = msg
      \/ pc' = [pc EXCEPT ![t] = IF t = Worker THEN "check_stop" ELSE "idle"] /\ k = End
  OBVIOUS
<1>4. TypeOK'
  <2> USE DEF TypeOK
  <2>1. it' \in [Threads -> Sinks \cup {End}] BY <1>2
  <2>2. pc' \in [Threads -> {"idle", "push", "crashed"} \cup ConfPC \cup RoutePC
                            \cup DtorPC \cup WorkerPC]
    BY <1>3 DEF RoutePC, WorkerPC
  <2>3. /\ pc'[Worker] \in {"crashed"} \cup RoutePC \cup WorkerPC
        /\ \A u \in App : pc'[u] \notin WorkerPC
    BY <1>3 DEF RoutePC, WorkerPC
  <2>4. msg' \in [Threads -> Message \cup {NoMsg}] /\ handled' \in SUBSET Message
    BY <1>1
  <2> QED BY <2>1, <2>2, <2>3, <2>4
<1>5. LocalsFit'
  BY <1>2, <1>3 DEF TypeOK, LocalsFit, WalkPC, ConfPC, RoutePC, Present, WorkerPC
<1>6. MutexDiscipline'
  <2>1. /\ pc[t] \notin {"conf_apply", "route_check", "route_write"}
        /\ pc'[t] \notin {"conf_apply", "route_check", "route_write"}
        /\ \A u \in Threads \ {t} : pc'[u] = pc[u] /\ it'[u] = it[u]
    BY <1>3 DEF TypeOK
  <2>2. \A u \in Threads, s \in Sinks : Holds(u, s)' <=> Holds(u, s)
    BY <2>1 DEF Holds
  <2>3. Crashed' => Crashed BY <1>1, <1>3 DEF Crashed, TypeOK
  <2>4. Crashed => Crashed' BY <1>1, <1>3 DEF Crashed, TypeOK, RoutePC
  <2> QED BY <2>2, <2>3, <2>4 DEF MutexDiscipline
<1>7. DecisionHolds' BY <1>3 DEF TypeOK, DecisionHolds, Crashed, Present
<1>8. SentBounded' /\ CrashIsTotal' /\ KeepsNodes'
  <2>1. SentBounded' BY <1>3 DEF TypeOK, SentBounded
  <2>2. CrashIsTotal' BY <1>3 DEF TypeOK, CrashIsTotal
  <2>3. KeepsNodes' BY DEF KeepsNodes
  <2> QED BY <2>1, <2>2, <2>3
<1>9. NoMessageYet'
  BY <1>1, <1>3 DEF TypeOK, NoMessageYet, NothingLogged, RoutePC
<1>10. DtorAlone'
  <2>1. t \in App => alive BY <1>1 DEF DtorAlone, RoutePC, DtorPC
  <2>2. t \in App => \A u \in App : pc[u] \notin DtorPC BY <2>1 DEF DtorAlone
  <2>3. t = Worker => Async /\ \A u \in App : pc'[u] = pc[u] /\ pc[Worker] # "exited"
    BY <1>1, <1>3 DEF TypeOK, DtorAlone, RoutePC
  <2>4. t \in App => pc'[Worker] = pc[Worker] /\ \A u \in App : pc'[u] \notin DtorPC
    BY <1>3, <2>2 DEF TypeOK, DtorPC
  <2> QED BY <2>1, <2>2, <2>3, <2>4 DEF DtorAlone, DtorPC
<1>11. SetUpAlone'
  BY <1>1, <1>3 DEF TypeOK, SetUpAlone, NothingLogged, ConfPC, RoutePC, AnyTime, Present
<1> QED BY <1>4, <1>5, <1>6, <1>7, <1>8, <1>9, <1>10, <1>11

\* Each step of the loop over the map preserves the invariant.
LEMMA RouteIInv ==
  ASSUME IInv, NEW t \in Threads, Route(t) \/ RouteLock(t) PROVE IInv'
<1>1. CASE RouteBegin(t)
  <2>1. IteratorAt(Present) \in Present \cup {End}
    BY IteratorInside DEF Present
  <2> QED BY <1>1, <2>1, WalkIInv DEF RouteBegin
<1>2. CASE RouteNext(t)
  <2>1. IteratorAt({s \in Present : s > it[t]}) \in Present \cup {End}
    BY IteratorInside DEF Present
  <2> QED BY <1>2, <2>1, WalkIInv DEF RouteNext
<1> USE LoggerAssumption, EndOutside
    DEF Threads, Goto, queueVars, lifeVars, routeVars, callVars, IInv, TypeOK
<1> USE DEF LocalsFit, SentBounded, MutexDiscipline, DecisionHolds, DtorAlone,
        CrashIsTotal, NoMessageYet, NothingLogged, SetUpAlone, KeepsNodes,
        ConfPC, RoutePC, WalkPC, DtorPC, WorkerPC, Holds, Crashed, Present,
        AnyTime, MayCall
<1>3. CASE RouteLock(t)
  <2>1. it[t] \in Sinks BY <1>3 DEF RouteLock
  <2>2. TypeOK' BY <1>3, <2>1 DEF RouteLock
  <2>3. LocalsFit' BY <1>3 DEF RouteLock
  <2>4. MutexDiscipline' BY <1>3, <2>1 DEF RouteLock
  <2>5. DecisionHolds' /\ SentBounded' /\ NoMessageYet' BY <1>3 DEF RouteLock
  <2>6. DtorAlone' /\ CrashIsTotal' /\ KeepsNodes' /\ SetUpAlone' BY <1>3 DEF RouteLock
  <2> QED BY <2>2, <2>3, <2>4, <2>5, <2>6
<1>4. CASE RouteCheck(t)
  <2> USE DEF RouteCheck, Unlock
  <2>1. it[t] \in Sinks BY <1>4
  <2>2. TypeOK'
    <3>1. \/ pc' = [pc EXCEPT ![t] = "route_write"] /\ UNCHANGED logger_mutex_map
          \/ /\ pc' = [pc EXCEPT ![t] = "route_next"]
             /\ logger_mutex_map' = [logger_mutex_map EXCEPT ![it[t]] = NoThread]
      BY ONLY <1>4 DEF RouteCheck, Unlock, Goto
    <3>2. UNCHANGED <<queueVars, lifeVars, callVars, routeVars, logger_sink_map, msg>>
      BY <1>4
    <3>3. logger_mutex_map' \in [Sinks -> Threads \cup {NoThread}]
      <4>1. logger_mutex_map \in [Sinks -> Threads \cup {NoThread}] OBVIOUS
      <4> QED BY ONLY <2>1, <3>1, <4>1
    <3>4. /\ pc' \in [Threads -> {"idle", "push", "crashed"} \cup ConfPC \cup RoutePC
                                 \cup DtorPC \cup WorkerPC]
          /\ pc'[Worker] \in {"crashed"} \cup RoutePC \cup WorkerPC
          /\ \A u \in App : pc'[u] \notin WorkerPC
      BY ONLY IInv, t \in Threads, <3>1 DEF IInv, TypeOK, RoutePC, WorkerPC, Threads
    <3> QED BY ONLY IInv, <3>2, <3>3, <3>4
      DEF IInv, TypeOK, queueVars, lifeVars, callVars, routeVars
  <2>3. LocalsFit' BY <1>4
  <2>4. MutexDiscipline' BY <1>4, <2>1
  <2>5. DecisionHolds' BY <1>4, <2>1
  <2>6. SentBounded' /\ NoMessageYet' /\ DtorAlone' BY <1>4
  <2>7. CrashIsTotal' /\ KeepsNodes' BY <1>4
  <2>8. SetUpAlone' BY <1>4
  <2> QED BY <2>2, <2>3, <2>4, <2>5, <2>6, <2>7, <2>8
<1>5. CASE RouteWrite(t)
  <2> USE DEF RouteWrite, Unlock
  <2>1. it[t] \in Sinks /\ msg[t] \in Message BY <1>5
  <2>2. Append(out[it[t]], msg[t]) \in Seq(Message)
    <3>1. out[it[t]] \in Seq(Message) BY <2>1
    <3> QED BY ONLY <2>1, <3>1
  <2>3. out' \in [Sinks -> Seq(Message)] BY <1>5, <2>2
  <2>4. TypeOK' BY <1>5, <2>1, <2>3
  <2>5. LocalsFit' BY <1>5
  <2>6. MutexDiscipline' BY <1>5, <2>1
  <2>7. DecisionHolds' BY <1>5
  <2>8. SentBounded' /\ NoMessageYet' /\ DtorAlone' BY <1>5
  <2>9. CrashIsTotal' /\ KeepsNodes' /\ SetUpAlone' BY <1>5
  <2> QED BY <2>4, <2>5, <2>6, <2>7, <2>8, <2>9
<1> QED BY <1>1, <1>2, <1>3, <1>4, <1>5 DEF Route

\* The steps of the background thread outside the loop preserve the invariant.
LEMMA WorkerIInv == ASSUME IInv, CheckStop \/ Pop PROVE IInv'
<1> USE LoggerAssumption, EndOutside
    DEF Threads, Goto, queueVars, lifeVars, routeVars, callVars, IInv, TypeOK
<1> USE DEF LocalsFit, SentBounded, MutexDiscipline, DecisionHolds, DtorAlone,
        CrashIsTotal, NoMessageYet, NothingLogged, SetUpAlone, KeepsNodes,
        ConfPC, RoutePC, WalkPC, DtorPC, WorkerPC, Holds, Crashed, Present,
        AnyTime, MayCall
<1>1. CASE CheckStop
  <2>1. TypeOK' /\ LocalsFit' BY <1>1 DEF CheckStop
  <2>2. SentBounded' /\ NoMessageYet' /\ DtorAlone' BY <1>1 DEF CheckStop
  <2>3. MutexDiscipline' /\ DecisionHolds' BY <1>1 DEF CheckStop
  <2>4. CrashIsTotal' /\ KeepsNodes' /\ SetUpAlone' BY <1>1 DEF CheckStop
  <2> QED BY <2>1, <2>2, <2>3, <2>4
<1>2. CASE Pop
  <2>1. LogMsgQueue!Pop BY <1>2 DEF Pop
  <2>2. log_msg_queue # << >> BY <2>1 DEF LogMsgQueue!Pop
  <2>3. Head(log_msg_queue) \in Message /\ Tail(log_msg_queue) \in Seq(Message)
    BY <2>2
  <2>4. log_msg_queue' \in Seq(Message) /\ taken' \in Seq(Message)
    BY <2>1, <2>3 DEF LogMsgQueue!Pop
  <2>5. TypeOK' BY <1>2, <2>3, <2>4 DEF Pop
  <2>6. LocalsFit' BY <1>2, <2>3 DEF Pop
  <2>7. SentBounded' /\ NoMessageYet' /\ DtorAlone' BY <1>2, <2>2 DEF Pop
  <2>8. MutexDiscipline' /\ DecisionHolds' BY <1>2 DEF Pop
  <2>9. CrashIsTotal' /\ KeepsNodes' /\ SetUpAlone' BY <1>2 DEF Pop
  <2> QED BY <2>5, <2>6, <2>7, <2>8, <2>9
<1> QED BY <1>1, <1>2

\* The destructor starts alone and stays alone; each of its steps preserves the
\* invariant.
LEMMA DtorIInv ==
  ASSUME IInv, NEW t \in App, DtorStart(t) \/ Dtor(t) PROVE IInv'
<1> USE LoggerAssumption, EndOutside
    DEF Threads, Goto, queueVars, lifeVars, routeVars, callVars, IInv, TypeOK
<1> USE DEF LocalsFit, SentBounded, MutexDiscipline, DecisionHolds, DtorAlone,
        CrashIsTotal, NoMessageYet, NothingLogged, SetUpAlone, KeepsNodes,
        ConfPC, RoutePC, WalkPC, DtorPC, WorkerPC, Holds, Crashed, Present,
        AnyTime, MayCall
<1>1. CASE DtorStart(t) \/ DtorPoll(t) \/ DtorStop(t)
  <2> USE DEF DtorStart, DtorPoll, DtorStop
  <2>1. TypeOK'
    <3>1. CASE DtorStart(t) BY <3>1
    <3>2. CASE DtorPoll(t) BY <3>2
    <3>3. CASE DtorStop(t) BY <3>3
    <3> QED BY <1>1, <3>1, <3>2, <3>3
  <2>2. LocalsFit' BY <1>1
  <2>3. SentBounded' /\ NoMessageYet'
    <3>1. SentBounded' BY <1>1
    <3>2. NoMessageYet' BY <1>1
    <3> QED BY <3>1, <3>2
  <2>4. MutexDiscipline' /\ DecisionHolds' BY <1>1
  <2>5. DtorAlone'
    <3>1. CASE DtorStart(t)
      <4>1. \A u \in App : pc[u] = "idle" BY <3>1
      <4>2. /\ \A u \in App \ {t} : pc'[u] = "idle"
            /\ pc'[t] = IF Async THEN "dtor_poll" ELSE "dtor_members"
            /\ pc'[Worker] = pc[Worker] /\ ~ alive'
        BY <3>1, <4>1
      <4>3. ~ Async => pc[Worker] = "exited" BY <4>1
      <4> QED BY <4>2, <4>3
    <3>2. CASE DtorPoll(t)
      <4>1. /\ pc[t] = "dtor_poll" /\ alive' = alive
            /\ pc' = pc \/ pc' = [pc EXCEPT ![t] = "dtor_stop"]
        BY <3>2
      <4>2. ~ alive /\ (\A u \in App \ {t} : pc[u] = "idle") /\ DtorAlone BY <4>1
      <4>3. /\ pc'[t] \in {"dtor_poll", "dtor_stop"} /\ pc'[Worker] = pc[Worker]
            /\ \A u \in App \ {t} : pc'[u] = "idle"
        BY <4>1, <4>2
      <4> QED BY ONLY <4>1, <4>2, <4>3 DEF DtorAlone, DtorPC
    <3>3. CASE DtorStop(t) BY <3>3
    <3> QED BY <1>1, <3>1, <3>2, <3>3
  <2>6. CrashIsTotal'
    <3>1. /\ \A u \in Threads \ {t} : pc'[u] = pc[u]
          /\ pc[t] # "crashed" /\ pc'[t] # "crashed"
      BY <1>1
    <3>2. \A u \in Threads : pc[u] # "crashed"
      BY ONLY <3>1, CrashIsTotal, t \in Threads DEF CrashIsTotal
    <3> QED BY ONLY <3>1, <3>2 DEF CrashIsTotal
  <2>7. KeepsNodes'
    <3>1. UNCHANGED dangling BY <1>1
    <3> QED BY ONLY <3>1, KeepsNodes DEF KeepsNodes
  <2>8. SetUpAlone'
    <3>1. \A u \in App : pc[u] \notin ConfPC BY <1>1
    <3>2. \A u \in App : pc'[u] \notin ConfPC BY <1>1, <3>1
    <3> QED BY ONLY <3>2 DEF SetUpAlone
  <2> QED BY <2>1, <2>2, <2>3, <2>4, <2>5, <2>6, <2>7, <2>8
<1>2. CASE DtorExit(t)
  <2> DEFINE m == [from |-> t, seq |-> sent[t] + 1, lvl |-> EAL_INTERNAL]
  <2>0. sent[t] \in 0 .. MaxMsgs
    <3>1. pc[t] = "dtor_exit" BY <1>2 DEF DtorExit
    <3>2. sent[t] \in 0 .. MaxMsgs + 1 /\ sent[t] <= MaxMsgs BY <3>1
    <3> QED BY ONLY LoggerAssumption, <3>2
  <2>1. m \in Message
    BY ONLY LoggerAssumption, t \in App, <2>0
    DEF Message, LOG_LEVEL, EAL_DEBUG, EAL_INTERNAL
  <2>2. LogMsgQueue!Push(m) BY <1>2 DEF DtorExit
  <2>3. log_msg_queue' \in Seq(Message) /\ taken' = taken
    BY <2>1, <2>2 DEF LogMsgQueue!Push
  <2>4. TypeOK'
    <3>1. sent' \in [App -> 0 .. MaxMsgs + 1] BY <1>2, <2>0 DEF DtorExit
    <3> HIDE DEF m
    <3> QED BY <1>2, <2>3, <3>1 DEF DtorExit
  <2>5. LocalsFit' /\ SentBounded' /\ NoMessageYet' BY <1>2 DEF DtorExit
  <2>6. MutexDiscipline' /\ DecisionHolds' BY <1>2 DEF DtorExit
  <2>7. DtorAlone' BY <1>2 DEF DtorExit
  <2>8. CrashIsTotal' /\ KeepsNodes' /\ SetUpAlone' BY <1>2 DEF DtorExit
  <2> QED BY <2>4, <2>5, <2>6, <2>7, <2>8
<1>3. CASE DtorJoin(t)
  <2> USE DEF DtorJoin
  <2>1. TypeOK' /\ LocalsFit' BY <1>3
  <2>2. SentBounded' /\ NoMessageYet' BY <1>3
  <2>3. MutexDiscipline' /\ DecisionHolds' BY <1>3
  <2>4. DtorAlone' BY <1>3
  <2>5. CrashIsTotal' /\ KeepsNodes' /\ SetUpAlone' BY <1>3
  <2> QED BY <2>1, <2>2, <2>3, <2>4, <2>5
<1>4. CASE DtorMembers(t)
  <2> USE DEF DtorMembers
  <2>1. \A u \in Threads \ {t} : pc[u] \in {"idle", "exited"} BY <1>4
  <2>2. TypeOK' BY <1>4
  <2>3. LocalsFit' BY <1>4, <2>1
  <2>4. SentBounded' /\ NoMessageYet' BY <1>4
  <2>5. MutexDiscipline' BY <1>4
  <2>6. DecisionHolds' BY <1>4, <2>1
  <2>7. DtorAlone' BY <1>4
  <2>8. CrashIsTotal' /\ KeepsNodes' BY <1>4
  <2>9. SetUpAlone' BY <1>4, <2>1
  <2> QED BY <2>2, <2>3, <2>4, <2>5, <2>6, <2>7, <2>8, <2>9
<1> QED BY <1>1, <1>2, <1>3, <1>4 DEF Dtor

\* After the end of the process nothing is left to break.
LEMMA CrashIInv == ASSUME IInv, Crash PROVE IInv'
<1> USE LoggerAssumption
    DEF Crash, Threads, queueVars, lifeVars, routeVars, callVars, IInv
<1>1. TypeOK' BY DEF TypeOK, RoutePC, WorkerPC
<1>2. LocalsFit' BY DEF LocalsFit, ConfPC, RoutePC, WalkPC
<1>3. SentBounded' /\ CrashIsTotal' /\ KeepsNodes' /\ SetUpAlone'
  BY DEF SentBounded, CrashIsTotal, KeepsNodes, SetUpAlone, ConfPC
<1>4. MutexDiscipline' /\ DecisionHolds' BY DEF MutexDiscipline, DecisionHolds, Crashed
<1>5. DtorAlone' BY DEF DtorAlone, DtorPC
<1>6. NoMessageYet' BY DEF NoMessageYet, NothingLogged, RoutePC
<1> QED BY <1>1, <1>2, <1>3, <1>4, <1>5, <1>6

\* Every step preserves it.
LEMMA NextIInv == ASSUME IInv, [Next]_vars PROVE IInv'
<1>1. ASSUME NEW t \in App,
             \/ \E l \in Levels : WriteLog(t, l)
             \/ Push(t) \/ QueueEmpty(t)
             \/ \E c \in Calls : ConfCall(t, c)
             \/ ConfLock(t) \/ ConfApply(t) \/ DtorStart(t) \/ Dtor(t)
      PROVE  IInv'
  BY <1>1, LogIInv, ConfEnterIInv, ConfApplyIInv, DtorIInv
<1>2. ASSUME NEW t \in Threads, Route(t) \/ RouteLock(t) PROVE IInv'
  BY <1>2, RouteIInv
<1>3. CASE CheckStop \/ Pop BY <1>3, WorkerIInv
<1>4. CASE Crash BY <1>4, CrashIInv
<1>5. CASE UNCHANGED vars
  BY <1>5
  DEF vars, IInv, TypeOK, LocalsFit, SentBounded, MutexDiscipline, DecisionHolds,
      DtorAlone, CrashIsTotal, NoMessageYet, NothingLogged, SetUpAlone, KeepsNodes,
      Holds, Crashed, Present, AnyTime
<1> QED BY <1>1, <1>2, <1>3, <1>4, <1>5 DEF Next, Terminated

\* IInv is an invariant.
THEOREM LoggerInvariance == Spec => []IInv
<1>1. IInv /\ [Next]_vars => IInv' BY NextIInv
<1> QED BY InitIInv, <1>1, PTL DEF Spec

\* Type correctness of Logger, in both modes.
THEOREM LoggerTypeCorrect == Spec => []TypeOK
  BY LoggerInvariance, PTL DEF IInv

\* Each sink's mutex is owned by exactly the thread that configures the sink or
\* delivers to it, even when sinks come and go while messages are logged.
THEOREM SinkMutualExclusion == Spec => []MutexDiscipline
  BY LoggerInvariance, PTL DEF IInv

\* Between Sink::prepare_log_message()'s decision to write and the write, no
\* set_enabled(), set_min_lvl(), init_*_sink() or discard_sink() intervenes.
THEOREM DecisionsHold == Spec => []DecisionHolds
  BY LoggerInvariance, PTL DEF IInv

-----------------------------------------------------------------------------
(* An application that adds and discards sinks only before it logs, and    *)
(* with one thread, and later at most gives an existing sink new settings, *)
(* never has two threads at std::map logger_sink_map with one about to     *)
(* change its structure, never keeps an iterator to an erased node, and    *)
(* therefore meets no undefined behaviour, whatever else its threads call. *)

\* What the invariant says of one state of such an application.
LEMMA KeepingNodesIsSafe ==
  ASSUME IInv, SinkChanges # "any" PROVE SinkMapRaceFree /\ NoDanglingSink
<1>1. NoDanglingSink BY DEF IInv, KeepsNodes, NoDanglingSink
<1>2. ASSUME NEW t \in App, NEW u \in Threads, t # u, Restructures(t)
      PROVE  ~ Traverses(u)
  <2>1. pc[t] \in ConfPC /\ ~ AnyTime(call[t])
    BY <1>2 DEF Restructures, ConfPC, AnyTime
  <2>2. NothingLogged /\ \A v \in App \ {t} : pc[v] = "idle"
    BY <2>1 DEF IInv, SetUpAlone
  <2>3. pc[u] \notin RoutePC BY <2>2 DEF IInv, NoMessageYet
  <2>4. u \in App => pc[u] = "idle" BY <1>2, <2>2
  <2>5. u = Worker => pc[u] \notin ConfPC
    BY DEF IInv, TypeOK, RoutePC, WorkerPC, ConfPC
  <2> QED BY <2>3, <2>4, <2>5 DEF Traverses, RoutePC, ConfPC, Threads
<1> QED BY <1>1, <1>2 DEF SinkMapRaceFree

\* With such an application no iterator of internal_log_routine() dangles.
THEOREM NoSinkDangles == SinkChanges # "any" => (Spec => []NoDanglingSink)
<1> SUFFICES ASSUME SinkChanges # "any" PROVE Spec => []NoDanglingSink OBVIOUS
<1>1. IInv => NoDanglingSink BY KeepingNodesIsSafe
<1> QED BY LoggerInvariance, <1>1, PTL

\* With such an application no two threads race on logger_sink_map.
THEOREM SinkMapNeverRaces == SinkChanges # "any" => (Spec => []SinkMapRaceFree)
<1> SUFFICES ASSUME SinkChanges # "any" PROVE Spec => []SinkMapRaceFree OBVIOUS
<1>1. IInv => SinkMapRaceFree BY KeepingNodesIsSafe
<1> QED BY LoggerInvariance, <1>1, PTL
=============================================================================
