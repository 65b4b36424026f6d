-------------------------- MODULE LoggerPipeProofs --------------------------
(***************************************************************************)
(* Proofs about what the sinks are given, for applications that add and    *)
(* discard sinks only before they log and later at most replace one: in    *)
(* which order, to which sinks, and that the asynchronous Logger is        *)
(* LogPipe, one ordered pipe for each sink.                                *)
(***************************************************************************)
EXTENDS LoggerOrderProofs

-----------------------------------------------------------------------------
(* The walk over the map.                                                  *)

\* The iterator stands at the first of the keys that are left.
LEMMA IteratorFirst ==
  ASSUME NEW S \in SUBSET Sinks
  PROVE  /\ IteratorAt(S) \in S \cup {End}
         /\ \A j \in S : IteratorAt(S) <= j /\ j # End
<1>1. Sinks \subseteq {0, 1, 2}
  BY LoggerAssumption DEF EAL_CONSOLE, EAL_FILE_SIMPLE
<1>2. \E k \in S \cup {End} : \A j \in S \cup {End} : k <= j
  <2>1. CASE 0 \in S BY <1>1, <2>1 DEF End
  <2>2. CASE 0 \notin S /\ 1 \in S BY <1>1, <2>2 DEF End
  <2>3. CASE 0 \notin S /\ 1 \notin S /\ 2 \in S BY <1>1, <2>3 DEF End
  <2>4. CASE 0 \notin S /\ 1 \notin S /\ 2 \notin S BY <1>1, <2>4 DEF End
  <2> QED BY <2>1, <2>2, <2>3, <2>4
<1> QED BY <1>2, EndOutside DEF IteratorAt

\* What a step of the walk of t does not touch.
WalkFrame(t) ==
  /\ \A u \in Threads \ {t} : pc'[u] = pc[u] /\ it'[u] = it[u] /\ msg'[u] = msg[u]
  /\ UNCHANGED <<log_msg_queue, taken, sent, saw_empty, logger_sink_map, polls>>

\* t goes to the next sink of the map, or finishes after the last.
WalksOn(t) ==
  /\ pc[t] \in {"route_begin", "route_next"}
  /\ out' = out
  /\ \A s \in Present : Carries(t, s) = Carries(t, s)'
  /\ \A s \in Sinks : Carries(t, s)' => Carries(t, s)
  /\ \/ msg'[t] = msg[t] /\ handled' = handled /\ pc'[t] \in RoutePC
     \/ /\ handled' = handled \cup {msg[t]} /\ pc'[t] \notin RoutePC
        /\ \A s \in Sinks : ~ Carries(t, s)'

\* The sink at which t stands decides, or t locks it.
Decides(t) ==
  /\ out' = out /\ handled' = handled /\ msg'[t] = msg[t]
  /\ pc[t] \in RoutePC /\ pc'[t] \in RoutePC
  /\ \/ \A s \in Sinks : Carries(t, s)' = Carries(t, s)
     \/ \E k \in Present :
          /\ Carries(t, k) /\ ~ Carries(t, k)' /\ ~ Accepts(logger_sink_map[k], msg[t])
          /\ \A s \in Sinks \ {k} : Carries(t, s)' = Carries(t, s)

\* t hands its message to sink k, at which it stands.
Writes(t, k) ==
  /\ handled' = handled /\ msg'[t] = msg[t]
  /\ pc[t] \in RoutePC /\ pc'[t] \in RoutePC
  /\ Carries(t, k) /\ ~ Carries(t, k)' /\ Accepts(logger_sink_map[k], msg[t])
  /\ \A s \in Sinks \ {k} : Carries(t, s)' = Carries(t, s)
  /\ out' = [out EXCEPT ![k] = Append(@, msg[t])]

Walks(t) == WalksOn(t) \/ Decides(t) \/ \E k \in Present : Writes(t, k)

\* RouteBegin and RouteNext visit the sinks of the map in order, none twice.
LEMMA WalkLeads ==
  ASSUME IInv, NEW t \in Threads, NEW S \in SUBSET Present,
         pc[t] \in {"route_begin", "route_next"},
         pc[t] = "route_begin" => S = Present,
         pc[t] = "route_next" => S = {s \in Present : s > it[t]},
         RouteTo(t, IteratorAt(S)),
         UNCHANGED <<queueVars, lifeVars, callVars, logger_sink_map, out>>
  PROVE  WalkFrame(t) /\ WalksOn(t)
<1> DEFINE k == IteratorAt(S)
<1> USE DEF Goto, queueVars, lifeVars, callVars
<1>0. /\ pc \in [Threads -> {"idle", "push", "crashed"} \cup ConfPC \cup RoutePC
                            \cup DtorPC \cup WorkerPC]
      /\ it \in [Threads -> Sinks \cup {End}] /\ msg \in [Threads -> Message \cup {NoMsg}]
      /\ Sinks \subseteq Int /\ Present \subseteq Sinks
  BY LoggerAssumption DEF IInv, TypeOK, Present, EAL_CONSOLE, EAL_FILE_SIMPLE
<1>1. k \in S \cup {End} /\ \A j \in S : k <= j /\ j # End
  BY <1>0, IteratorFirst
<1>2. it[t] \in Int
  <2>1. it[t] \in Sinks \cup {End} BY <1>0
  <2>2. Sinks \subseteq Int /\ End \in Int BY <1>0 DEF End
  <2> QED BY ONLY <2>1, <2>2
<1> HIDE DEF k
<1>3. it' = [it EXCEPT ![t] = k] BY DEF RouteTo, k
<1>4. CASE k # End
  <2>1. pc' = [pc EXCEPT ![t] = "route_lock"] /\ UNCHANGED <<msg, handled>>
    BY <1>4 DEF RouteTo, k
  <2>2. k \in S BY <1>1, <1>4
  <2>3. \A s \in Sinks : Carries(t, s)' <=> s >= k
    BY <1>0, <1>3, <2>1 DEF Carries
  <2>4. \A s \in Sinks : Carries(t, s) <=> (pc[t] = "route_begin" \/ s > it[t])
    BY <1>0 DEF Carries
  <2>5. \A s \in Present : Carries(t, s) <=> s \in S BY <1>0, <2>4
  <2>6. \A s \in Present : s >= k <=> s \in S
    BY <1>0, <1>1, <1>2, <2>2
  <2>7. \A s \in Sinks : s >= k => Carries(t, s)
    BY <1>0, <1>2, <2>2, <2>4
  <2>8. \A s \in Present : Carries(t, s) = Carries(t, s)'
    BY <1>0, <2>3, <2>5, <2>6 DEF Carries
  <2>9. WalkFrame(t) BY <1>0, <1>3, <2>1 DEF WalkFrame
  <2>10. pc'[t] \in RoutePC /\ msg'[t] = msg[t] BY <1>0, <2>1 DEF RoutePC
  <2> QED BY <2>1, <2>3, <2>7, <2>8, <2>9, <2>10 DEF WalksOn
<1>5. CASE k = End
  <2>1. /\ pc' = [pc EXCEPT ![t] = IF t = Worker THEN "check_stop" ELSE "idle"]
        /\ handled' = handled \cup {msg[t]} /\ msg' = [msg EXCEPT ![t] = NoMsg]
    BY <1>5 DEF RouteTo, k
  <2>2. pc'[t] \notin RoutePC BY <1>0, <2>1 DEF RoutePC
  <2>3. \A s \in Sinks : ~ Carries(t, s)' BY <2>2 DEF Carries, RoutePC
  <2>4. S = {}
    <3>1. S \subseteq {0, 1, 2}
      BY <1>0, LoggerAssumption DEF EAL_CONSOLE, EAL_FILE_SIMPLE
    <3> QED BY <1>1, <1>5, <3>1 DEF End
  <2>5. \A s \in Present : ~ Carries(t, s) BY <1>0, <2>4 DEF Carries
  <2>6. WalkFrame(t) BY <1>0, <1>3, <2>1 DEF WalkFrame
  <2>7. \A s \in Present : Carries(t, s) = Carries(t, s)'
    BY <1>0, <2>3, <2>5 DEF Carries
  <2> QED BY <2>1, <2>2, <2>3, <2>6, <2>7 DEF WalksOn
<1> QED BY <1>4, <1>5

\* Every step of internal_log_routine() is one of the three.
LEMMA RouteSteps ==
  ASSUME IInv, SinkChanges # "any", NEW t \in Threads, Route(t) \/ RouteLock(t)
  PROVE  WalkFrame(t) /\ Walks(t)
<1> USE DEF Walks, Goto, queueVars, lifeVars, routeVars, callVars
<1>0. /\ pc \in [Threads -> {"idle", "push", "crashed"} \cup ConfPC \cup RoutePC
                            \cup DtorPC \cup WorkerPC]
      /\ it \in [Threads -> Sinks \cup {End}] /\ msg \in [Threads -> Message \cup {NoMsg}]
      /\ Sinks \subseteq Int /\ Present \subseteq Sinks /\ dangling = {}
  BY LoggerAssumption DEF IInv, TypeOK, Present, KeepsNodes, EAL_CONSOLE, EAL_FILE_SIMPLE
<1>1. CASE RouteBegin(t)
  BY <1>1, WalkLeads DEF RouteBegin
<1>2. CASE RouteNext(t)
  <2> DEFINE S == {s \in Present : s > it[t]}
  <2>1. /\ pc[t] = "route_next" /\ RouteTo(t, IteratorAt(S))
        /\ UNCHANGED <<queueVars, lifeVars, callVars, logger_sink_map, out>>
    BY <1>0, <1>2 DEF RouteNext
  <2>2. S \in SUBSET Present OBVIOUS
  <2>3. pc[t] # "route_begin" BY <2>1
  <2> HIDE DEF S
  <2>4. pc[t] = "route_next" => S = {s \in Present : s > it[t]} BY DEF S
  <2> QED BY <2>1, <2>2, <2>3, <2>4, WalkLeads
<1>3. ASSUME pc[t] \in {"route_lock", "route_check", "route_write"} PROVE it[t] \in Present
  BY <1>0, <1>3 DEF IInv, LocalsFit, WalkPC, RoutePC
<1>4. CASE RouteLock(t)
  <2>1. pc[t] = "route_lock" /\ pc' = [pc EXCEPT ![t] = "route_check"]
        /\ UNCHANGED <<queueVars, lifeVars, callVars, routeVars, logger_sink_map, msg>>
    BY <1>4 DEF RouteLock
  <2>2. \A s \in Sinks : Carries(t, s)' = Carries(t, s) BY <1>0, <2>1 DEF Carries
  <2>3. WalkFrame(t) BY <1>0, <2>1 DEF WalkFrame
  <2>4. pc[t] \in RoutePC /\ pc'[t] \in RoutePC BY <1>0, <2>1 DEF RoutePC
  <2> QED BY <2>1, <2>2, <2>3, <2>4 DEF Decides
<1>5. CASE RouteCheck(t)
  <2>1. pc[t] = "route_check"
        /\ UNCHANGED <<queueVars, lifeVars, callVars, routeVars, logger_sink_map, msg>>
    BY <1>5 DEF RouteCheck
  <2>2. CASE Accepts(logger_sink_map[it[t]], msg[t])
    <3>1. pc' = [pc EXCEPT ![t] = "route_write"] BY <1>0, <1>5, <2>2 DEF RouteCheck
    <3>2. \A s \in Sinks : Carries(t, s)' = Carries(t, s) BY <1>0, <2>1, <3>1 DEF Carries
    <3>3. WalkFrame(t) BY <1>0, <2>1, <3>1 DEF WalkFrame
    <3>4. pc[t] \in RoutePC /\ pc'[t] \in RoutePC BY <1>0, <2>1, <3>1 DEF RoutePC
    <3> QED BY <2>1, <3>2, <3>3, <3>4 DEF Decides
  <2>3. CASE ~ Accepts(logger_sink_map[it[t]], msg[t])
    <3>1. pc' = [pc EXCEPT ![t] = "route_next"] BY <1>0, <1>5, <2>3 DEF RouteCheck, Unlock
    <3>2. PICK k \in Present : k = it[t] /\ k \in Int BY <1>0, <1>3, <2>1
    <3>3. Carries(t, k) BY <2>1, <3>2 DEF Carries
    <3>4. ~ Carries(t, k)' BY <1>0, <2>1, <3>1, <3>2 DEF Carries
    <3>5. \A s \in Sinks \ {k} : Carries(t, s)' = Carries(t, s)
      BY <1>0, <2>1, <3>1, <3>2 DEF Carries
    <3>6. WalkFrame(t) BY <1>0, <2>1, <3>1 DEF WalkFrame
    <3>7. pc[t] \in RoutePC /\ pc'[t] \in RoutePC BY <1>0, <2>1, <3>1 DEF RoutePC
    <3> QED BY <2>1, <2>3, <3>2, <3>3, <3>4, <3>5, <3>6, <3>7 DEF Decides
  <2> QED BY <2>2, <2>3
<1>6. CASE RouteWrite(t)
  <2>1. /\ pc[t] = "route_write" /\ pc' = [pc EXCEPT ![t] = "route_next"]
        /\ UNCHANGED <<queueVars, lifeVars, callVars, logger_sink_map, msg, it, handled>>
        /\ out' = [out EXCEPT ![it[t]] = Append(@, msg[t])]
    BY <1>6 DEF RouteWrite, Unlock
  <2>2. PICK k \in Present : k = it[t] /\ k \in Int BY <1>0, <1>3, <2>1
  <2>3. Accepts(logger_sink_map[k], msg[t])
    <3>1. ~ Crashed BY <2>1 DEF Crashed, IInv, CrashIsTotal, Threads
    <3> QED BY <2>1, <2>2, <3>1 DEF IInv, DecisionHolds
  <2>4. Carries(t, k) BY <2>1, <2>2 DEF Carries
  <2>5. ~ Carries(t, k)' BY <1>0, <2>1, <2>2 DEF Carries
  <2>6. \A s \in Sinks \ {k} : Carries(t, s)' = Carries(t, s)
    BY <1>0, <2>1, <2>2 DEF Carries
  <2>7. WalkFrame(t) BY <1>0, <2>1 DEF WalkFrame
  <2>8. pc[t] \in RoutePC /\ pc'[t] \in RoutePC BY <1>0, <2>1 DEF RoutePC
  <2> QED BY <2>1, <2>2, <2>3, <2>4, <2>5, <2>6, <2>7, <2>8 DEF Writes
<1> QED BY <1>1, <1>2, <1>4, <1>5, <1>6 DEF Route

\* A step outside internal_log_routine() that takes nothing from the queue.
Configures(t) == (\E c \in Calls : ConfCall(t, c)) \/ ConfLock(t) \/ ConfApply(t)
Elsewhere ==
  \/ \E t \in App : Push(t) \/ QueueEmpty(t) \/ DtorExit(t) \/ DtorMoves(t) \/ Configures(t)
  \/ CheckStop
  \/ UNCHANGED vars

\* Every step of an application that keeps the sinks it has.
LEMMA PipeSteps ==
  ASSUME IInv, SinkChanges # "any", [Next]_vars
  PROVE  \/ \E t \in Threads : WalkFrame(t) /\ Walks(t)
         \/ \E t \in App, l \in Levels : WriteLog(t, l)
         \/ Pop
         \/ Elsewhere
<1>1. ~ Crash BY KeepingNodesIsSafe DEF Crash
<1>2. ASSUME NEW t \in Threads, Route(t) \/ RouteLock(t)
      PROVE  WalkFrame(t) /\ Walks(t)
  BY <1>2, RouteSteps
<1> QED BY <1>1, <1>2 DEF Next, Dtor, DtorMoves, Terminated, Elsewhere, Configures

\* Such a step outside the routine leaves alone what is on its way to the sinks.
WalksStay ==
  /\ UNCHANGED <<out, handled, taken>>
  /\ \A t \in Threads :
       /\ pc[t] \in RoutePC <=> pc'[t] \in RoutePC
       /\ pc[t] \in RoutePC => msg'[t] = msg[t]
       /\ \A s \in Sinks : Carries(t, s)' = Carries(t, s)
  /\ \A t \in App : sent'[t] >= sent[t]

LEMMA ElsewhereStays == ASSUME IInv, Elsewhere PROVE WalksStay
<1> USE DEF Goto, queueVars, lifeVars, routeVars, callVars
<1>0. /\ pc \in [Threads -> {"idle", "push", "crashed"} \cup ConfPC \cup RoutePC
                            \cup DtorPC \cup WorkerPC]
      /\ it \in [Threads -> Sinks \cup {End}] /\ msg \in [Threads -> Message \cup {NoMsg}]
      /\ sent \in [App -> 0 .. MaxMsgs + 1] /\ App \subseteq Threads /\ Worker \in Threads
  BY DEF IInv, TypeOK, Threads
\* One thread changes its place, neither from the routine nor into it.
<1>1. ASSUME NEW t \in Threads, pc' = [pc EXCEPT ![t] = pc'[t]],
             pc[t] \notin RoutePC, pc'[t] \notin RoutePC,
             UNCHANGED <<out, handled, taken, it>>,
             \A u \in Threads \ {t} : msg'[u] = msg[u],
             \A u \in App : sent'[u] >= sent[u]
      PROVE  WalksStay
  <2>1. \A u \in Threads \ {t} : pc'[u] = pc[u] BY <1>0, <1>1
  <2>2. \A s \in Sinks : Carries(t, s)' = Carries(t, s) BY <1>1 DEF Carries, RoutePC
  <2>3. \A u \in Threads \ {t}, s \in Sinks : Carries(u, s)' = Carries(u, s)
    BY <1>1, <2>1 DEF Carries
  <2> QED BY <1>1, <2>1, <2>2, <2>3 DEF WalksStay
<1>2. \A u \in App : sent[u] >= sent[u] BY <1>0
<1>3. ASSUME NEW t \in App, Push(t) PROVE WalksStay
  <2>1. /\ pc[t] = "push" /\ pc' = [pc EXCEPT ![t] = "idle"]
        /\ UNCHANGED <<out, handled, taken, it, sent>> /\ msg' = [msg EXCEPT ![t] = NoMsg]
    BY <1>3 DEF Push, LogMsgQueue!Push
  <2>2. pc[t] \notin RoutePC /\ pc'[t] \notin RoutePC /\ pc' = [pc EXCEPT ![t] = pc'[t]]
    BY <1>0, <2>1 DEF RoutePC
  <2>3. \A u \in Threads \ {t} : msg'[u] = msg[u] BY <1>0, <2>1
  <2> QED BY <1>0, <1>1, <1>2, <2>1, <2>2, <2>3
<1>4. ASSUME NEW t \in App, QueueEmpty(t) PROVE WalksStay
  <2>1. UNCHANGED <<out, handled, taken, it, sent, msg, pc>> BY <1>4 DEF QueueEmpty
  <2> QED BY <1>2, <2>1 DEF WalksStay, Carries
<1>5. ASSUME NEW t \in App, DtorExit(t) PROVE WalksStay
  <2>1. /\ pc[t] = "dtor_exit" /\ pc' = [pc EXCEPT ![t] = "dtor_join"]
        /\ UNCHANGED <<out, handled, taken, it, msg>>
        /\ sent' = [sent EXCEPT ![t] = @ + 1]
    BY <1>5 DEF DtorExit, LogMsgQueue!Push
  <2>2. pc[t] \notin RoutePC /\ pc'[t] \notin RoutePC /\ pc' = [pc EXCEPT ![t] = pc'[t]]
    BY <1>0, <2>1 DEF RoutePC
  <2>3. \A u \in App : sent'[u] >= sent[u] BY <1>0, <2>1
  <2> QED BY <1>0, <1>1, <2>1, <2>2, <2>3
<1>6. ASSUME NEW t \in App, DtorMoves(t) PROVE WalksStay
  <2>1. /\ UNCHANGED <<out, handled, taken, it, msg, sent>>
        /\ pc[t] \in DtorPC \cup {"idle"}
        /\ \/ pc' = pc
           \/ \E p \in DtorPC : pc' = [pc EXCEPT ![t] = p]
    <3>1. CASE DtorStart(t)
      <4>1. pc[t] = "idle" BY <3>1 DEF DtorStart
      <4> QED BY <3>1, <4>1 DEF DtorStart, DtorPC
    <3>2. CASE DtorPoll(t) BY <3>2 DEF DtorPoll, DtorPC
    <3>3. CASE DtorStop(t) BY <3>3 DEF DtorStop, DtorPC
    <3>4. CASE DtorJoin(t) BY <3>4 DEF DtorJoin, DtorPC
    <3>5. CASE DtorMembers(t) BY <3>5 DEF DtorMembers, DtorPC
    <3> QED BY <1>6, <3>1, <3>2, <3>3, <3>4, <3>5 DEF DtorMoves
  <2>2. \A p \in DtorPC \cup {"idle"} : p \notin RoutePC BY DEF DtorPC, RoutePC
  <2>3. CASE pc' = pc
    BY <1>0, <1>1, <1>2, <2>1, <2>2, <2>3
  <2>4. CASE \E p \in DtorPC : pc' = [pc EXCEPT ![t] = p]
    <3>1. pc' = [pc EXCEPT ![t] = pc'[t]] /\ pc'[t] \in DtorPC BY <1>0, <2>4
    <3> QED BY <1>0, <1>1, <1>2, <2>1, <2>2, <3>1
  <2> QED BY <2>1, <2>3, <2>4
<1>7. ASSUME NEW t \in App, Configures(t) PROVE WalksStay
  <2>1. /\ pc[t] \in {"idle"} \cup ConfPC
        /\ \E p \in {"idle"} \cup ConfPC : pc' = [pc EXCEPT ![t] = p]
        /\ UNCHANGED <<out, handled, taken, it, msg, sent>>
    <3>1. CASE \E c \in Calls : ConfCall(t, c) BY <3>1 DEF ConfCall, ConfPC
    <3>2. CASE ConfLock(t) BY <3>2 DEF ConfLock, ConfPC
    <3>3. CASE ConfApply(t)
      BY <3>3 DEF ConfApply, InitSink, DiscardSink, SetEnabled, SetMinLvl, SetFormat,
                  IsInitialized, ConfReturn, ConfPC
    <3> QED BY <1>7, <3>1, <3>2, <3>3 DEF Configures
  <2>2. \A p \in ConfPC \cup {"idle"} : p \notin RoutePC BY DEF ConfPC, RoutePC
  <2>3. pc' = [pc EXCEPT ![t] = pc'[t]] /\ pc'[t] \in {"idle"} \cup ConfPC BY <1>0, <2>1
  <2> QED BY <1>0, <1>1, <1>2, <2>1, <2>2, <2>3
<1>8. CASE CheckStop
  <2>1. /\ pc[Worker] = "check_stop"
        /\ \E p \in {"exited", "pop"} : pc' = [pc EXCEPT ![Worker] = p]
        /\ UNCHANGED <<out, handled, taken, it, msg, sent>>
    BY <1>8 DEF CheckStop
  <2>2. pc' = [pc EXCEPT ![Worker] = pc'[Worker]] /\ pc'[Worker] \in {"exited", "pop"}
    BY <1>0, <2>1
  <2>3. pc[Worker] \notin RoutePC /\ pc'[Worker] \notin RoutePC BY <2>1, <2>2 DEF RoutePC
  <2> QED BY <1>0, <1>1, <1>2, <2>1, <2>2, <2>3
<1>9. CASE UNCHANGED vars
  BY <1>2, <1>9 DEF vars, WalksStay, Carries
<1> QED BY <1>3, <1>4, <1>5, <1>6, <1>7, <1>8, <1>9 DEF Elsewhere

-----------------------------------------------------------------------------
(* The order of the lines.                                                 *)

\* A write adds one line to one sink.
LEMMA Appended ==
  ASSUME IInv, NEW t \in Threads, NEW k \in Present, Writes(t, k)
  PROVE  /\ k \in Sinks /\ msg[t] \in Message
         /\ \A s \in Sinks \ {k} : out'[s] = out[s]
         /\ Len(out[k]) \in Nat
         /\ DOMAIN out[k] = 1 .. Len(out[k])
         /\ DOMAIN out'[k] = 1 .. Len(out[k]) + 1
         /\ \A i \in DOMAIN out[k] : out'[k][i] = out[k][i]
         /\ out'[k][Len(out[k]) + 1] = msg[t]
<1>1. k \in Sinks /\ msg[t] \in Message
  BY DEF Writes, Present, IInv, LocalsFit
<1>2. out \in [Sinks -> Seq(Message)] /\ out' = [out EXCEPT ![k] = Append(@, msg[t])]
  BY DEF Writes, IInv, TypeOK
<1>3. out[k] \in Seq(Message) /\ out'[k] = Append(out[k], msg[t])
  BY <1>1, <1>2
<1> QED BY <1>1, <1>2, <1>3

\* A sink has only lines that were taken from the queue, and not yet the one
\* that is on its way to it.
Reached == \A s \in Sinks : \A i \in DOMAIN out[s] : \E j \in DOMAIN taken :
  out[s][i] = taken[j] /\ (Carries(Worker, s) => j < Len(taken))

InQueueOrder == Async => Reached /\ OneOrderForAllSinks

LEMMA NextQueueOrder ==
  ASSUME IInv, Trail, InQueueOrder, SinkChanges # "any", [Next]_vars
  PROVE  InQueueOrder'
<1> SUFFICES ASSUME Async PROVE Reached' /\ OneOrderForAllSinks' BY DEF InQueueOrder
<1>0. /\ Reached /\ OneOrderForAllSinks /\ taken \in Seq(Message) /\ Worker \in Threads
      /\ App \subseteq Threads /\ Worker \notin App
  BY LoggerAssumption DEF InQueueOrder, IInv, TypeOK, Threads
<1>1. ASSUME UNCHANGED <<out, taken>>,
             \A s \in Sinks : Carries(Worker, s)' => Carries(Worker, s)
      PROVE  Reached' /\ OneOrderForAllSinks'
  BY <1>0, <1>1 DEF Reached, OneOrderForAllSinks, Before
<1>2. CASE Elsewhere
  BY <1>0, <1>1, <1>2, ElsewhereStays DEF WalksStay
<1>3. ASSUME NEW t \in App, NEW l \in Levels, WriteLog(t, l)
      PROVE  Reached' /\ OneOrderForAllSinks'
  <2>1. UNCHANGED <<out, taken, it>> /\ pc'[Worker] = pc[Worker]
    BY <1>0, <1>3 DEF WriteLog, Goto, queueVars, routeVars, IInv, TypeOK
  <2> QED BY <1>1, <2>1 DEF Carries
<1>4. CASE Pop
  <2>1. out' = out /\ log_msg_queue # << >> /\ taken' = Append(taken, Head(log_msg_queue))
    BY <1>4 DEF Pop, LogMsgQueue!Pop, routeVars
  <2>2. log_msg_queue \in Seq(Message) BY DEF IInv, TypeOK
  <2>3. Head(log_msg_queue) \in Message BY <2>1, <2>2
  <2>4. /\ Len(taken) \in Nat /\ Len(taken') = Len(taken) + 1
        /\ DOMAIN taken = 1 .. Len(taken) /\ DOMAIN taken' = 1 .. Len(taken) + 1
        /\ \A j \in DOMAIN taken : taken'[j] = taken[j]
    BY <1>0, <2>1, <2>3
  <2>5. \A j \in DOMAIN taken : j \in DOMAIN taken' /\ j < Len(taken') BY ONLY <2>4
  <2>6. Reached' BY <1>0, <2>1, <2>4, <2>5 DEF Reached
  <2>7. ASSUME NEW m, NEW n, Before(m, n) PROVE Before(m, n)'
    BY <2>4, <2>5, <2>7 DEF Before
  <2>8. OneOrderForAllSinks' BY <1>0, <2>1, <2>7 DEF OneOrderForAllSinks
  <2> QED BY <2>6, <2>8
<1>5. ASSUME NEW t \in Threads, WalkFrame(t), Walks(t)
      PROVE  Reached' /\ OneOrderForAllSinks'
  <2>1. pc[t] \in RoutePC BY <1>5 DEF Walks, WalksOn, Decides, Writes, RoutePC
  <2>2. t = Worker BY <2>1 DEF Trail, Threading, ByMode, Threads
  <2>3. taken' = taken BY <1>5 DEF WalkFrame
  <2>4. CASE WalksOn(t) \/ Decides(t)
    <3>1. out' = out /\ \A s \in Sinks : Carries(Worker, s)' => Carries(Worker, s)
      BY <2>2, <2>4 DEF WalksOn, Decides
    <3> QED BY <1>1, <2>3, <3>1
  <2>5. ASSUME NEW k \in Present, Writes(t, k)
        PROVE  Reached' /\ OneOrderForAllSinks'
    <3> DEFINE last == Len(out[k]) + 1
    <3>1. /\ k \in Sinks /\ \A s \in Sinks \ {k} : out'[s] = out[s]
          /\ Len(out[k]) \in Nat
          /\ DOMAIN out[k] = 1 .. Len(out[k]) /\ DOMAIN out'[k] = 1 .. last
          /\ \A i \in DOMAIN out[k] : out'[k][i] = out[k][i]
          /\ out'[k][last] = msg[t]
      BY <2>5, Appended
    <3>2. Carries(Worker, k) /\ ~ Carries(Worker, k)'
          /\ \A s \in Sinks \ {k} : Carries(Worker, s)' = Carries(Worker, s)
      BY <2>2, <2>5 DEF Writes
    <3>3. msg[Worker] # NoMsg
      BY <2>1, <2>2, NoMsgIsNone DEF IInv, LocalsFit
    <3>4. taken # << >> /\ msg[t] = taken[Len(taken)]
      BY <2>2, <3>3 DEF Trail, Threading, WorkersMessage
    <3>5. Len(taken) \in DOMAIN taken /\ Len(taken) \in Nat BY <1>0, <3>4
    <3>6. \A i \in DOMAIN out[k] : \E j \in DOMAIN taken :
            out[k][i] = taken[j] /\ j < Len(taken)
      BY <1>0, <3>1, <3>2 DEF Reached
    <3>7. \A i \in DOMAIN out'[k] : i \in DOMAIN out[k] \/ i = last BY ONLY <3>1
    <3>8. Reached'
      <4>1. ASSUME NEW s \in Sinks \ {k}, NEW i \in DOMAIN out'[s]
            PROVE  \E j \in DOMAIN taken' :
                     out'[s][i] = taken'[j] /\ (Carries(Worker, s)' => j < Len(taken'))
        BY <1>0, <2>3, <3>1, <3>2, <4>1 DEF Reached
      <4>2. ASSUME NEW i \in DOMAIN out'[k]
            PROVE  \E j \in DOMAIN taken' : out'[k][i] = taken'[j]
        BY <2>3, <3>1, <3>4, <3>5, <3>6, <3>7
      <4> QED BY <3>2, <4>1, <4>2 DEF Reached
    <3>9. \A m, n : Before(m, n)' = Before(m, n) BY <2>3 DEF Before
    <3>10. ASSUME NEW i \in DOMAIN out'[k], NEW j \in DOMAIN out'[k], i < j
           PROVE  Before(out'[k][i], out'[k][j])
      <4>1. i \in DOMAIN out[k] BY ONLY <3>1, <3>10
      <4>2. CASE j \in DOMAIN out[k]
        BY <1>0, <3>1, <3>10, <4>1, <4>2 DEF OneOrderForAllSinks
      <4>3. CASE j = last
        BY <3>1, <3>4, <3>5, <3>6, <4>1, <4>3 DEF Before
      <4> QED BY <3>7, <3>10, <4>2, <4>3
    <3>11. OneOrderForAllSinks'
      BY <1>0, <3>1, <3>9, <3>10 DEF OneOrderForAllSinks
    <3> QED BY <3>8, <3>11
  <2> QED BY <1>5, <2>4, <2>5 DEF Walks
<1> QED BY PipeSteps, <1>2, <1>3, <1>4, <1>5

\* In synchronous mode a sink has only lines that were logged, and not yet the
\* one that its caller is taking to it.
LoggedInOrder == ~ Async =>
  /\ \A s \in Sinks : \A i \in DOMAIN out[s], t \in App : out[s][i].from = t =>
       out[s][i].seq <= sent[t] /\ (Carries(t, s) => out[s][i].seq < sent[t])
  /\ CallerOrder

LEMMA NextLoggedInOrder ==
  ASSUME IInv, Trail, LoggedInOrder, SinkChanges # "any", [Next]_vars
  PROVE  LoggedInOrder'
<1> DEFINE Below(s, i, t) == out[s][i].from = t =>
             out[s][i].seq <= sent[t] /\ (Carries(t, s) => out[s][i].seq < sent[t])
           AllBelow == \A s \in Sinks : \A i \in DOMAIN out[s], t \in App : Below(s, i, t)
<1> SUFFICES ASSUME ~ Async PROVE AllBelow' /\ CallerOrder' BY DEF LoggedInOrder
<1>0. /\ AllBelow /\ CallerOrder /\ App \subseteq Threads /\ MaxMsgs \in Nat
      /\ sent \in [App -> 0 .. MaxMsgs + 1] /\ out \in [Sinks -> Seq(Message)]
      /\ pc \in [Threads -> {"idle", "push", "crashed"} \cup ConfPC \cup RoutePC
                            \cup DtorPC \cup WorkerPC]
  BY LoggerAssumption DEF LoggedInOrder, IInv, TypeOK, Threads
<1>1. ASSUME NEW s \in Sinks, NEW i \in DOMAIN out[s] PROVE out[s][i].seq \in Nat
  <2>1. out[s] \in Seq(Message) BY <1>0
  <2>2. out[s][i] \in Message BY <2>1
  <2> QED BY <1>0, <2>2 DEF Message
<1>2. ASSUME out' = out, \A t \in App : sent'[t] >= sent[t] /\ sent'[t] \in Nat,
             \A t \in App, s \in Sinks : Carries(t, s)' => Carries(t, s) \/ sent'[t] > sent[t]
      PROVE  AllBelow' /\ CallerOrder'
  <2>1. ASSUME NEW s \in Sinks, NEW i \in DOMAIN out[s], NEW t \in App PROVE Below(s, i, t)'
    <3>1. Below(s, i, t) BY <1>0
    <3>2. out[s][i].seq \in Nat BY <1>1
    <3>3. sent[t] \in Nat BY <1>0
    <3>4. /\ out'[s][i] = out[s][i] /\ sent'[t] >= sent[t] /\ sent'[t] \in Nat
          /\ Carries(t, s)' => Carries(t, s) \/ sent'[t] > sent[t]
      BY <1>2
    <3> QED BY ONLY <3>1, <3>2, <3>3, <3>4
  <2> QED BY <1>0, <1>2, <2>1 DEF CallerOrder
<1>3. sent' \in [App -> 0 .. MaxMsgs + 1]
  <2>1. IInv' BY NextIInv
  <2> QED BY <2>1 DEF IInv, TypeOK
<1>4. CASE Elsewhere
  <2>1. WalksStay BY <1>4, ElsewhereStays
  <2> QED BY <1>0, <1>2, <1>3, <2>1 DEF WalksStay
<1>5. ASSUME NEW t \in App, NEW l \in Levels, WriteLog(t, l)
      PROVE  AllBelow' /\ CallerOrder'
  <2>1. /\ UNCHANGED <<out, it>> /\ sent' = [sent EXCEPT ![t] = @ + 1]
        /\ \A u \in App \ {t} : pc'[u] = pc[u]
    BY <1>0, <1>5 DEF WriteLog, Goto, routeVars
  <2>2. sent'[t] > sent[t] /\ \A u \in App : sent'[u] >= sent[u] BY <1>0, <2>1
  <2>3. \A u \in App \ {t}, s \in Sinks : Carries(u, s)' = Carries(u, s)
    BY <2>1 DEF Carries
  <2> QED BY <1>0, <1>2, <1>3, <2>1, <2>2, <2>3
<1>6. ~ Pop
  <2>1. log_msg_queue = << >> BY DEF Trail, Threading, ByMode
  <2> QED BY <2>1 DEF Pop, LogMsgQueue!Pop
<1>7. ASSUME NEW t \in Threads, WalkFrame(t), Walks(t)
      PROVE  AllBelow' /\ CallerOrder'
  <2>1. pc[t] \in RoutePC BY <1>7 DEF Walks, WalksOn, Decides, Writes, RoutePC
  <2>2. t \in App
    <3>1. pc[Worker] \in {"exited", "crashed"} BY DEF IInv, DtorAlone
    <3> QED BY <2>1, <3>1 DEF RoutePC, Threads
  <2>3. /\ sent' = sent
        /\ \A u \in App \ {t}, s \in Sinks : Carries(u, s)' = Carries(u, s)
    BY <1>0, <1>7 DEF WalkFrame, Carries
  <2>4. CASE WalksOn(t) \/ Decides(t)
    <3>1. out' = out /\ \A s \in Sinks : Carries(t, s)' => Carries(t, s)
      BY <2>4 DEF WalksOn, Decides
    <3> QED BY <1>0, <1>2, <1>3, <2>3, <3>1
  <2>5. ASSUME NEW k \in Present, Writes(t, k)
        PROVE  AllBelow' /\ CallerOrder'
    <3> DEFINE last == Len(out[k]) + 1
    <3>1. /\ k \in Sinks /\ \A s \in Sinks \ {k} : out'[s] = out[s]
          /\ Len(out[k]) \in Nat
          /\ DOMAIN out[k] = 1 .. Len(out[k]) /\ DOMAIN out'[k] = 1 .. last
          /\ \A i \in DOMAIN out[k] : out'[k][i] = out[k][i]
          /\ out'[k][last] = msg[t]
      BY <2>5, Appended
    <3>2. Carries(t, k) /\ ~ Carries(t, k)'
          /\ \A s \in Sinks \ {k} : Carries(t, s)' = Carries(t, s)
      BY <2>5 DEF Writes
    <3>3. msg[t].from = t /\ msg[t].seq = sent[t] /\ sent[t] \in Nat
      BY <2>1, <2>2, Counters DEF Trail
    <3>4. \A i \in DOMAIN out'[k] : i \in DOMAIN out[k] \/ i = last BY ONLY <3>1
    <3>5. ASSUME NEW s \in Sinks, NEW i \in DOMAIN out'[s], NEW u \in App
          PROVE  Below(s, i, u)'
      <4>1. CASE i \in DOMAIN out[s] /\ out'[s][i] = out[s][i]
        <5>1. Below(s, i, u) BY <1>0, <4>1
        <5>2. Carries(u, s)' => Carries(u, s) BY <2>3, <3>2, <3>5
        <5> QED BY <2>3, <4>1, <5>1, <5>2
      <4>2. CASE s = k /\ i = last
        BY <2>3, <3>1, <3>2, <3>3, <4>2
      <4> QED BY <3>1, <3>4, <3>5, <4>1, <4>2
    <3>6. ASSUME NEW s \in Sinks, NEW i \in DOMAIN out'[s], NEW j \in DOMAIN out'[s],
                 i < j, out'[s][i].from = out'[s][j].from
          PROVE  out'[s][i].seq < out'[s][j].seq
      <4>1. CASE s # k \/ j \in DOMAIN out[k]
        <5>1. i \in DOMAIN out[s] /\ j \in DOMAIN out[s]
          BY <3>1, <3>4, <3>6, <4>1
        <5>2. out'[s][i] = out[s][i] /\ out'[s][j] = out[s][j] BY <3>1, <3>6, <5>1
        <5> QED BY <1>0, <3>6, <5>1, <5>2 DEF CallerOrder
      <4>2. CASE s = k /\ j = last
        <5>1. i \in DOMAIN out[k] BY <3>1, <3>6, <4>2
        <5>2. out[k][i].from = t BY <3>1, <3>3, <3>6, <4>2, <5>1
        <5>3. out[k][i].seq < sent[t] BY <1>0, <2>2, <3>1, <3>2, <5>1, <5>2
        <5> QED BY <3>1, <3>3, <4>2, <5>1, <5>3
      <4> QED BY <3>4, <3>6, <4>1, <4>2
    <3>7. CallerOrder' BY <3>6 DEF CallerOrder
    <3> QED BY <3>5, <3>7
  <2> QED BY <1>7, <2>4, <2>5 DEF Walks
<1> QED BY PipeSteps, <1>4, <1>5, <1>6, <1>7

LEMMA InitOut == Init => InQueueOrder /\ LoggedInOrder
<1> SUFFICES ASSUME Init PROVE InQueueOrder /\ LoggedInOrder OBVIOUS
<1>1. \A s \in Sinks : DOMAIN out[s] = {} BY DEF Init
<1> QED
  BY <1>1 DEF InQueueOrder, Reached, OneOrderForAllSinks, LoggedInOrder, CallerOrder

THEOREM LinesInvariance ==
  SinkChanges # "any" => (Spec => [](IInv /\ Trail /\ InQueueOrder /\ LoggedInOrder))
<1> SUFFICES ASSUME SinkChanges # "any"
             PROVE  Spec => [](IInv /\ Trail /\ InQueueOrder /\ LoggedInOrder)
  OBVIOUS
<1>1. IInv /\ Trail /\ InQueueOrder /\ [Next]_vars => InQueueOrder' BY NextQueueOrder
<1>2. IInv /\ Trail /\ LoggedInOrder /\ [Next]_vars => LoggedInOrder'
  BY NextLoggedInOrder
<1> QED BY InitOut, TrailInvariance, <1>1, <1>2, PTL DEF Spec

\* In asynchronous mode all sinks show the messages in the order of the queue,
\* and none twice.
THEOREM OneOrderKept ==
  Async /\ SinkChanges # "any" => (Spec => []OneOrderForAllSinks)
<1> SUFFICES ASSUME Async, SinkChanges # "any" PROVE Spec => []OneOrderForAllSinks
  OBVIOUS
<1>1. InQueueOrder => OneOrderForAllSinks BY DEF InQueueOrder
<1>2. Spec => [](IInv /\ Trail /\ InQueueOrder /\ LoggedInOrder) BY LinesInvariance
<1> QED BY <1>1, <1>2, PTL

\* In both modes a sink shows the messages of a thread in the order in which it
\* logged them, and none twice.
THEOREM CallerOrderKept == SinkChanges # "any" => (Spec => []CallerOrder)
<1> SUFFICES ASSUME SinkChanges # "any" PROVE Spec => []CallerOrder OBVIOUS
<1>1. IInv /\ Trail /\ InQueueOrder /\ LoggedInOrder => CallerOrder
  <2> SUFFICES ASSUME IInv, Trail, InQueueOrder, Async PROVE CallerOrder
    BY DEF LoggedInOrder
  <2> SUFFICES ASSUME NEW s \in Sinks, NEW i \in DOMAIN out[s], NEW j \in DOMAIN out[s],
                      i < j, out[s][i].from = out[s][j].from
               PROVE  out[s][i].seq < out[s][j].seq
    BY DEF CallerOrder
  <2>1. Before(out[s][i], out[s][j]) BY DEF InQueueOrder, OneOrderForAllSinks
  <2>2. PICK a \in DOMAIN taken, b \in DOMAIN taken :
          a < b /\ taken[a] = out[s][i] /\ taken[b] = out[s][j]
    BY <2>1 DEF Before
  <2>3. /\ a \in DOMAIN History /\ b \in DOMAIN History
        /\ History[a] = taken[a] /\ History[b] = taken[b]
    <3>1. /\ Len(taken) \in Nat /\ Len(log_msg_queue) \in Nat
          /\ DOMAIN taken = 1 .. Len(taken)
          /\ DOMAIN History = 1 .. Len(taken) + Len(log_msg_queue)
          /\ \A i_1 \in DOMAIN taken : History[i_1] = taken[i_1]
      BY HistoryParts
    <3> QED BY <3>1
  <2> QED BY <2>2, <2>3 DEF Trail, InSubmissionOrder
<1>2. Spec => [](IInv /\ Trail /\ InQueueOrder /\ LoggedInOrder) BY LinesInvariance
<1> QED BY <1>1, <1>2, PTL

-----------------------------------------------------------------------------
(* The asynchronous Logger is LogPipe: the safety of ImplementsLogPipe.    *)

\* What is on its way to sink s: the refinement mapping's pending[s].
Pending(s) == (IF Carries(Worker, s) THEN <<msg[Worker]>> ELSE << >>) \o log_msg_queue

LEMMA PendingParts ==
  ASSUME IInv, NEW s \in Sinks
  PROVE  /\ log_msg_queue \in Seq(Message)
         /\ Carries(Worker, s) => /\ msg[Worker] \in Message /\ Pending(s) # << >>
                           /\ Head(Pending(s)) = msg[Worker]
                           /\ Tail(Pending(s)) = log_msg_queue
         /\ ~ Carries(Worker, s) => Pending(s) = log_msg_queue
<1>1. log_msg_queue \in Seq(Message) BY DEF IInv, TypeOK
<1>2. ASSUME Carries(Worker, s)
      PROVE  /\ msg[Worker] \in Message /\ Pending(s) # << >>
             /\ Head(Pending(s)) = msg[Worker] /\ Tail(Pending(s)) = log_msg_queue
  <2>1. msg[Worker] \in Message BY <1>2 DEF Carries, IInv, LocalsFit, RoutePC, Threads
  <2>2. Pending(s) = <<msg[Worker]>> \o log_msg_queue BY <1>2 DEF Pending
  <2>3. <<msg[Worker]>> \in Seq(Message) BY <2>1
  <2> QED BY <1>1, <2>1, <2>2, <2>3
<1>3. ~ Carries(Worker, s) => Pending(s) = log_msg_queue
  BY <1>1, ConcatEmptySeq DEF Pending
<1> QED BY <1>1, <1>2, <1>3

\* write_log() submits its message to every pipe.
LEMMA SubmitStep ==
  ASSUME IInv, NEW m \in Message, LogMsgQueue!Push(m), out' = out, ~ Destroyed, ~ Destroyed',
         msg'[Worker] = msg[Worker], \A s \in Sinks : Carries(Worker, s)' = Carries(Worker, s)
  PROVE  Pipe!Next
<1>1. log_msg_queue' = Append(log_msg_queue, m) /\ log_msg_queue \in Seq(Message)
  BY DEF LogMsgQueue!Push, IInv, TypeOK
<1>2. ASSUME NEW s \in Sinks PROVE Pending(s)' = Append(Pending(s), m)
  <2>1. CASE Carries(Worker, s)
    <3>1. Pending(s) = <<msg[Worker]>> \o log_msg_queue BY <2>1 DEF Pending
    <3>2. Pending(s)' = <<msg[Worker]>> \o Append(log_msg_queue, m)
      BY <1>1, <2>1 DEF Pending
    <3>3. msg[Worker] \in Message BY <2>1, PendingParts
    <3>4. <<msg[Worker]>> \in Seq(Message) BY <3>3
    <3>5. /\ Append(log_msg_queue, m) = log_msg_queue \o <<m>>
          /\ <<m>> \in Seq(Message) /\ Pending(s) \in Seq(Message)
      BY <1>1, <3>1, <3>4, AppendIsConcat, ConcatProperties
    <3>6. Append(Pending(s), m) = Pending(s) \o <<m>> BY <3>5, AppendIsConcat
    <3> QED BY <1>1, <3>1, <3>2, <3>4, <3>5, <3>6, ConcatAssociative
  <2>2. CASE ~ Carries(Worker, s)
    <3>1. Pending(s) = log_msg_queue BY <2>2, PendingParts
    <3>2. Pending(s)' = << >> \o Append(log_msg_queue, m) BY <1>1, <2>2 DEF Pending
    <3>3. Append(log_msg_queue, m) \in Seq(Message) BY <1>1
    <3> QED BY <3>1, <3>2, <3>3, ConcatEmptySeq
  <2> QED BY <2>1, <2>2
<1>3. [s \in Sinks |-> Pending(s)]' = [s \in Sinks |-> Append([r \in Sinks |-> Pending(r)][s], m)]
  BY <1>2
<1>4. Destroyed' = Destroyed BY DEF Destroyed
<1>5. Pipe!Submit(m) BY <1>3, <1>4 DEF Pipe!Submit, Pending
<1> QED BY <1>5 DEF Pipe!Next

\* The background thread passes a message on: to sink k it is written, past the
\* sinks that it has left otherwise it is not.
LEMMA PassOnStep ==
  ASSUME IInv, ~ Destroyed, ~ Destroyed', log_msg_queue' = log_msg_queue,
         \A s \in Sinks : Carries(Worker, s)' => Carries(Worker, s) /\ msg'[Worker] = msg[Worker],
         \/ out' = out
         \/ \E k \in Sinks : /\ Carries(Worker, k) /\ ~ Carries(Worker, k)'
                             /\ out' = [out EXCEPT ![k] = Append(@, msg[Worker])]
  PROVE  Pipe!Next
<1> DEFINE S == {s \in Sinks : Carries(Worker, s) /\ ~ Carries(Worker, s)'}
           pending == [s \in Sinks |-> Pending(s)]
<1>1. PICK W \in SUBSET S :
        out' = [s \in Sinks |-> IF s \in W THEN Append(out[s], Head(pending[s])) ELSE out[s]]
  <2>0. out \in [Sinks -> Seq(Message)] BY DEF IInv, TypeOK
  <2>1. CASE out' = out
    <3> WITNESS {} \in SUBSET S
    <3> QED BY <2>0, <2>1
  <2>2. ASSUME NEW k \in Sinks, Carries(Worker, k), ~ Carries(Worker, k)',
               out' = [out EXCEPT ![k] = Append(@, msg[Worker])]
        PROVE  \E W \in SUBSET S :
                 out' = [s \in Sinks |-> IF s \in W THEN Append(out[s], Head(pending[s]))
                                         ELSE out[s]]
    <3>0. {k} \in SUBSET S BY <2>2
    <3> WITNESS {k} \in SUBSET S
    <3>1. Head(pending[k]) = msg[Worker] BY <2>2, PendingParts
    <3> QED BY <2>0, <2>2, <3>1
  <2> QED BY <2>1, <2>2
<1>2. \A s \in S : pending[s] # << >> BY PendingParts
<1>3. ASSUME NEW s \in Sinks
      PROVE  Pending(s)' = IF s \in S THEN Tail(Pending(s)) ELSE Pending(s)
  <2>1. CASE s \in S
    <3>1. Tail(Pending(s)) = log_msg_queue /\ log_msg_queue \in Seq(Message)
      BY <2>1, PendingParts
    <3>2. Pending(s)' = << >> \o log_msg_queue BY <2>1 DEF Pending
    <3> QED BY <2>1, <3>1, <3>2, ConcatEmptySeq
  <2>2. CASE s \notin S
    <3>1. Carries(Worker, s)' = Carries(Worker, s) BY <2>2 DEF Carries
    <3> QED BY <2>2, <3>1 DEF Pending
  <2> QED BY <2>1, <2>2
<1>4. pending' = [s \in Sinks |-> IF s \in S THEN Tail(pending[s]) ELSE pending[s]]
  BY <1>3
<1>5. Destroyed' = Destroyed BY DEF Destroyed
<1>6. Pipe!PassOn(S, W) BY <1>1, <1>2, <1>4, <1>5 DEF Pipe!PassOn, Pending
<1> QED BY <1>6 DEF Pipe!Next

\* Where a step neither submits nor passes on, the pipes are as they were.
LEMMA PipeStays ==
  ASSUME UNCHANGED <<log_msg_queue, out>>,
         Destroyed' = Destroyed, \A s \in Sinks : Carries(Worker, s)' = Carries(Worker, s),
         \A s \in Sinks : Carries(Worker, s)' => msg'[Worker] = msg[Worker]
  PROVE  UNCHANGED Pipe!vars
<1>1. \A s \in Sinks : Pending(s)' = Pending(s) BY DEF Pending
<1>2. [s \in Sinks |-> Pending(s)]' = [s \in Sinks |-> Pending(s)] BY <1>1
<1> QED BY <1>2 DEF Pipe!vars, Pending

LEMMA PipeStep ==
  ASSUME Async, SinkChanges # "any", IInv, Trail, [Next]_vars
  PROVE  [Pipe!Next]_(Pipe!vars)
<1> SUFFICES Pipe!Next \/ UNCHANGED Pipe!vars OBVIOUS
<1> USE DEF Goto, queueVars, lifeVars, routeVars, callVars
<1>0. /\ pc \in [Threads -> {"idle", "push", "crashed"} \cup ConfPC \cup RoutePC
                            \cup DtorPC \cup WorkerPC]
      /\ msg \in [Threads -> Message \cup {NoMsg}] /\ sent \in [App -> 0 .. MaxMsgs + 1]
      /\ App \subseteq Threads /\ Worker \in Threads /\ Worker \notin App /\ MaxMsgs \in Nat
  BY LoggerAssumption DEF IInv, TypeOK, Threads
<1>1. ASSUME NEW t \in App, pc[t] \notin {"destroyed", "idle", "crashed"} PROVE ~ Destroyed
  <2>1. \A u \in App : pc[u] = "destroyed" => u = t
    BY <1>1 DEF IInv, DtorAlone, DtorPC
  <2> QED BY <1>1, <2>1 DEF Destroyed
<1>4. ASSUME WalksStay
      PROVE  /\ out' = out /\ \A s \in Sinks : Carries(Worker, s)' = Carries(Worker, s)
             /\ \A s \in Sinks : Carries(Worker, s)' => msg'[Worker] = msg[Worker]
  <2>1. \A s \in Sinks : Carries(Worker, s) => pc[Worker] \in RoutePC BY DEF Carries, RoutePC
  <2> QED BY <1>0, <1>4, <2>1 DEF WalksStay
\* A step of one thread of the application that leaves the queue alone.
<1>5. ASSUME WalksStay, log_msg_queue' = log_msg_queue,
             \A u \in App : pc'[u] = "destroyed" <=> pc[u] = "destroyed"
      PROVE  UNCHANGED Pipe!vars
  <2>1. Destroyed' = Destroyed BY <1>5 DEF Destroyed
  <2> QED BY <1>4, <1>5, <2>1, PipeStays
<1>6. ASSUME NEW t \in Threads, WalkFrame(t), Walks(t) PROVE Pipe!Next
  <2>1. pc[t] \in RoutePC BY <1>6 DEF Walks, WalksOn, Decides, Writes, RoutePC
  <2>2. t = Worker BY <2>1 DEF Trail, Threading, ByMode, Threads
  <2>3. log_msg_queue' = log_msg_queue /\ \A u \in App : pc'[u] = pc[u]
    BY <1>0, <1>6, <2>2 DEF WalkFrame
  <2>4. ~ Destroyed BY <2>1, <2>2 DEF Destroyed, IInv, DtorAlone, RoutePC
  <2>5. ~ Destroyed' BY <2>3, <2>4 DEF Destroyed
  <2>6. CASE WalksOn(t) \/ Decides(t)
    <3>1. /\ out' = out
          /\ \A s \in Sinks : Carries(Worker, s)' =>
               Carries(Worker, s) /\ msg'[Worker] = msg[Worker]
      BY <2>2, <2>6 DEF WalksOn, Decides
    <3> QED BY <2>3, <2>4, <2>5, <3>1, PassOnStep
  <2>7. ASSUME NEW k \in Present, Writes(t, k) PROVE Pipe!Next
    <3>1. /\ k \in Sinks /\ Carries(Worker, k) /\ ~ Carries(Worker, k)'
          /\ out' = [out EXCEPT ![k] = Append(@, msg[Worker])]
      BY <2>2, <2>7 DEF Writes, Present
    <3>2. \A s \in Sinks : Carries(Worker, s)' => Carries(Worker, s) /\ msg'[Worker] = msg[Worker]
      BY <2>2, <2>7 DEF Writes
    <3> QED BY <2>3, <2>4, <2>5, <3>1, <3>2, PassOnStep
  <2> QED BY <1>6, <2>6, <2>7 DEF Walks
<1>7. ASSUME NEW t \in App, NEW l \in Levels, WriteLog(t, l) PROVE UNCHANGED Pipe!vars
  <2>1. /\ UNCHANGED <<log_msg_queue, out, it>> /\ pc'[Worker] = pc[Worker]
        /\ msg'[Worker] = msg[Worker]
        /\ \A u \in App : pc'[u] = "destroyed" <=> pc[u] = "destroyed"
    BY <1>0, <1>7 DEF WriteLog
  <2>2. Destroyed' = Destroyed BY <2>1 DEF Destroyed
  <2>3. \A s \in Sinks : Carries(Worker, s)' = Carries(Worker, s) BY <2>1 DEF Carries
  <2> QED BY <2>1, <2>2, <2>3, PipeStays
<1>8. CASE Pop
  <2>1. /\ log_msg_queue # << >> /\ log_msg_queue' = Tail(log_msg_queue)
        /\ msg'[Worker] = Head(log_msg_queue) /\ out' = out
        /\ pc[Worker] = "pop" /\ pc' = [pc EXCEPT ![Worker] = "route_begin"]
    BY <1>0, <1>8 DEF Pop, LogMsgQueue!Pop
  <2>2. log_msg_queue \in Seq(Message) BY DEF IInv, TypeOK
  <2>3. log_msg_queue = <<msg'[Worker]>> \o log_msg_queue'
    BY <2>1, <2>2, HeadTailProperties
  <2>4. \A s \in Sinks : ~ Carries(Worker, s) /\ Carries(Worker, s)' BY <1>0, <2>1 DEF Carries
  <2>5. \A s \in Sinks : Pending(s) = log_msg_queue BY <2>4, PendingParts
  <2>6. \A s \in Sinks : Pending(s)' = <<msg'[Worker]>> \o log_msg_queue'
    BY <2>4 DEF Pending
  <2>7. [s \in Sinks |-> Pending(s)]' = [s \in Sinks |-> Pending(s)] BY <2>3, <2>5, <2>6
  <2>8. Destroyed' = Destroyed BY <1>0, <2>1 DEF Destroyed
  <2> QED BY <2>1, <2>7, <2>8 DEF Pipe!vars, Pending
<1>9. CASE Elsewhere
  <2>0. WalksStay BY <1>9, ElsewhereStays
  <2>1. ASSUME NEW t \in App, Push(t) PROVE Pipe!Next
    <3>1. /\ pc[t] = "push" /\ pc' = [pc EXCEPT ![t] = "idle"] /\ LogMsgQueue!Push(msg[t])
          /\ msg'[Worker] = msg[Worker]
      BY <1>0, <2>1 DEF Push
    <3>2. msg[t] \in Message BY <3>1, Counters DEF Trail
    <3>3. ~ Destroyed BY <1>1, <3>1
    <3>4. ~ Destroyed' BY <1>0, <3>1, <3>3 DEF Destroyed
    <3> QED BY <1>4, <2>0, <3>1, <3>2, <3>3, <3>4, SubmitStep
  <2>2. ASSUME NEW t \in App, DtorExit(t) PROVE Pipe!Next
    <3> DEFINE m == [from |-> t, seq |-> sent[t] + 1, lvl |-> EAL_INTERNAL]
    <3>1. /\ pc[t] = "dtor_exit" /\ pc' = [pc EXCEPT ![t] = "dtor_join"]
          /\ LogMsgQueue!Push(m) /\ msg' = msg
      BY <2>2 DEF DtorExit
    <3>2. sent[t] \in 0 .. MaxMsgs
      <4>1. sent[t] <= MaxMsgs BY <3>1 DEF IInv, SentBounded
      <4>2. sent[t] \in 0 .. MaxMsgs + 1 BY <1>0
      <4>3. MaxMsgs \in Nat BY <1>0
      <4> QED BY ONLY <4>1, <4>2, <4>3
    <3>3. m \in Message BY <1>0, <3>2 DEF Message, LOG_LEVEL, EAL_DEBUG, EAL_INTERNAL
    <3>4. ~ Destroyed BY <1>1, <3>1
    <3>5. ~ Destroyed' BY <1>0, <3>1, <3>4 DEF Destroyed
    <3> HIDE DEF m
    <3> QED BY <1>4, <2>0, <3>1, <3>3, <3>4, <3>5, SubmitStep
  <2>3. ASSUME NEW t \in App, QueueEmpty(t) PROVE UNCHANGED Pipe!vars
    <3>1. log_msg_queue' = log_msg_queue /\ pc' = pc BY <2>3 DEF QueueEmpty
    <3> QED BY <1>5, <2>0, <3>1
  <2>4. ASSUME NEW t \in App, Configures(t) PROVE UNCHANGED Pipe!vars
    <3>1. Moves(t) BY <2>4, ConfMoves DEF Configures
    <3>2. /\ log_msg_queue' = log_msg_queue /\ pc' = [pc EXCEPT ![t] = pc'[t]]
          /\ pc[t] # "destroyed" /\ pc'[t] # "destroyed"
      BY <1>0, <3>1 DEF Moves, logVars, ConfPC, RoutePC
    <3> QED BY <1>0, <1>5, <2>0, <3>2
  <2>5. ASSUME NEW t \in App, DtorMoves(t) PROVE Pipe!Next \/ UNCHANGED Pipe!vars
    <3>1. log_msg_queue' = log_msg_queue
      BY <2>5 DEF DtorMoves, DtorStart, DtorPoll, DtorStop, DtorJoin, DtorMembers
    <3>2. CASE DtorMembers(t)
      <4>1. pc[t] = "dtor_members" /\ pc' = [pc EXCEPT ![t] = "destroyed"]
        BY <3>2 DEF DtorMembers
      <4>2. ~ Destroyed BY <1>1, <4>1
      <4>3. Destroyed' BY <1>0, <4>1 DEF Destroyed
      <4>4. \A s \in Sinks : Pending(s)' = Pending(s)
        BY <1>4, <2>0, <3>1 DEF Pending
      <4>5. [s \in Sinks |-> Pending(s)]' = [s \in Sinks |-> Pending(s)] BY <4>4
      <4>6. Destroyed' = TRUE BY <4>3 DEF Destroyed
      <4>7. Pipe!Close BY <1>4, <2>0, <4>2, <4>5, <4>6 DEF Pipe!Close, Pending
      <4> QED BY <4>7 DEF Pipe!Next
    <3>3. CASE ~ DtorMembers(t)
      <4>1. \A u \in App : pc'[u] = "destroyed" <=> pc[u] = "destroyed"
        <5>1. CASE DtorStart(t)
          <6>1. pc[t] = "idle" BY <5>1 DEF DtorStart
          <6> QED BY <1>0, <5>1, <6>1 DEF DtorStart
        <5>2. CASE DtorPoll(t) BY <1>0, <5>2 DEF DtorPoll
        <5>3. CASE DtorStop(t) BY <1>0, <5>3 DEF DtorStop
        <5>4. CASE DtorJoin(t) BY <1>0, <5>4 DEF DtorJoin
        <5> QED BY <2>5, <3>3, <5>1, <5>2, <5>3, <5>4 DEF DtorMoves
      <4> QED BY <1>5, <2>0, <3>1, <4>1
    <3> QED BY <3>2, <3>3
  <2>6. CASE CheckStop
    <3>1. log_msg_queue' = log_msg_queue /\ \A u \in App : pc'[u] = pc[u]
      BY <1>0, <2>6 DEF CheckStop
    <3> QED BY <1>5, <2>0, <3>1
  <2>7. CASE UNCHANGED vars BY <1>5, <2>0, <2>7 DEF vars
  <2> QED BY <1>9, <2>1, <2>2, <2>3, <2>4, <2>5, <2>6, <2>7 DEF Elsewhere
<1> QED BY PipeSteps, <1>6, <1>7, <1>8, <1>9

\* The asynchronous Logger, with its queue, its background thread, the mutexes
\* of its sinks and its destructor, behaves step by step as one ordered pipe
\* for each sink, for any threads, sinks, calls and bounds.
THEOREM PipeRefinement ==
  Async /\ SinkChanges # "any" => (Spec => ImplementsLogPipe)
<1> SUFFICES ASSUME Async, SinkChanges # "any" PROVE Spec => ImplementsLogPipe OBVIOUS
<1>1. Init => Pipe!Init
  <2> SUFFICES ASSUME Init PROVE Pipe!Init OBVIOUS
  <2>1. \A s \in Sinks : ~ Carries(Worker, s) BY DEF Init, Carries, Threads
  <2>2. IInv BY InitIInv
  <2>3. \A s \in Sinks : Pending(s) = << >> BY <2>1, <2>2, PendingParts DEF Init
  <2>4. Destroyed = FALSE BY DEF Init, Destroyed, Threads
  <2>5. [s \in Sinks |-> Pending(s)] = [s \in Sinks |-> << >>] BY <2>3
  <2> QED BY <2>4, <2>5 DEF Pipe!Init, Pending, Init
<1>2. IInv /\ Trail /\ [Next]_vars => [Pipe!Next]_(Pipe!vars) BY PipeStep
<1> QED BY <1>1, <1>2, TrailInvariance, PTL DEF Spec, ImplementsLogPipe, Pipe!Spec

-----------------------------------------------------------------------------
(* Which sinks a message goes to.                                          *)

\* An application that configures its sinks before it logs and only then.
KeepsSettings ==
  /\ SinkChanges = "none"
  /\ \A c \in Calls : c.op \notin {"set_enabled", "set_min_lvl"}

CallsMade == \A t \in App : pc[t] \in ConfPC => call[t] \in Calls

Written(m, s) == \E i \in DOMAIN out[s] : out[s][i] = m

\* Each sink of the map has the messages that went to all sinks if and only if
\* it accepts them; and so with a message that is on its way, when that has
\* left the sink behind, and it has it not before.
Delivered == \A s \in Present :
  /\ \A m \in handled : Written(m, s) <=> Accepts(logger_sink_map[s], m)
  /\ \A t \in Threads : pc[t] \in RoutePC =>
       IF Carries(t, s) THEN ~ Written(msg[t], s)
       ELSE Written(msg[t], s) <=> Accepts(logger_sink_map[s], msg[t])

LEMMA NextCallsMade == ASSUME IInv, CallsMade, [Next]_vars PROVE CallsMade'
<1> USE LoggerAssumption DEF Goto, queueVars, lifeVars, routeVars, callVars, CallsMade, ConfPC
<1>0. /\ pc \in [Threads -> {"idle", "push", "crashed"} \cup ConfPC \cup RoutePC
                            \cup DtorPC \cup WorkerPC]
      /\ call \in [App -> Call \cup {NoCall}] /\ App \subseteq Threads
  BY DEF IInv, TypeOK, Threads
<1>1. ASSUME call' = call, \A t \in App : pc'[t] \in ConfPC => pc[t] \in ConfPC
      PROVE  CallsMade'
  BY <1>1
<1>2. ASSUME NEW t \in App, NEW l \in Levels, WriteLog(t, l) PROVE CallsMade'
  BY <1>0, <1>1, <1>2 DEF WriteLog
<1>3. ASSUME NEW t \in App, Push(t) \/ QueueEmpty(t) \/ DtorExit(t) PROVE CallsMade'
  BY <1>0, <1>1, <1>3 DEF Push, QueueEmpty, DtorExit
<1>4. ASSUME NEW t \in App, DtorMoves(t) PROVE CallsMade'
  BY <1>0, <1>1, <1>4 DEF DtorMoves, DtorStart, DtorPoll, DtorStop, DtorJoin, DtorMembers
<1>5. ASSUME NEW t \in App, Configures(t) PROVE CallsMade'
  <2>1. CASE \E c \in Calls : ConfCall(t, c) BY <1>0, <2>1 DEF ConfCall
  <2>2. CASE ConfLock(t) BY <1>0, <1>1, <2>2 DEF ConfLock
  <2>3. CASE ConfApply(t)
    BY <1>0, <2>3 DEF ConfApply, InitSink, DiscardSink, SetEnabled, SetMinLvl, SetFormat,
                      IsInitialized, ConfReturn
  <2> QED BY <1>5, <2>1, <2>2, <2>3 DEF Configures
<1>6. ASSUME NEW t \in Threads, Route(t) \/ RouteLock(t) PROVE CallsMade'
  <2>1. call' = call
    BY <1>6 DEF Route, RouteBegin, RouteLock, RouteCheck, RouteWrite, RouteNext
  <2>2. Finishes(t) \/ Moves(t) BY <1>6, RouteMoves
  <2>3. pc[t] \in RoutePC
    BY <1>6 DEF Route, RouteBegin, RouteLock, RouteCheck, RouteWrite, RouteNext, RoutePC
  <2>4. pc' = [pc EXCEPT ![t] = pc'[t]] /\ pc'[t] \notin ConfPC
    BY <1>0, <2>2, <2>3 DEF Finishes, Moves, RoutePC
  <2> QED BY <1>0, <1>1, <2>1, <2>4
<1>7. CASE CheckStop \/ Pop
  BY <1>0, <1>1, <1>7 DEF CheckStop, Pop
<1>8. CASE Crash BY <1>0, <1>8 DEF Crash
<1>9. CASE UNCHANGED vars BY <1>1, <1>9 DEF vars
<1> QED
  BY <1>2, <1>3, <1>4, <1>5, <1>6, <1>7, <1>8, <1>9
  DEF Next, Dtor, DtorMoves, Terminated, Configures

\* Such an application changes the map only before it logs, or destroys it.
LEMMA MapChanges ==
  ASSUME IInv, CallsMade, KeepsSettings, Elsewhere
  PROVE  logger_sink_map' = logger_sink_map \/ NothingLogged \/ Present' = {}
<1> USE DEF queueVars, lifeVars, routeVars, callVars
<1>1. ASSUME NEW t \in App, ConfApply(t), ~ NothingLogged
      PROVE  logger_sink_map' = logger_sink_map
  <2>1. pc[t] = "conf_apply"
    BY <1>1 DEF ConfApply, InitSink, DiscardSink, SetEnabled, SetMinLvl, SetFormat,
                IsInitialized, ConfReturn
  <2>2. call[t] \in Calls /\ AnyTime(call[t])
    BY <1>1, <2>1 DEF CallsMade, ConfPC, IInv, SetUpAlone
  <2>3. call[t].op \notin {"init_sink", "discard_sink", "set_enabled", "set_min_lvl"}
    BY <2>2 DEF KeepsSettings, AnyTime
  <2>4. logger_sink_map' = [logger_sink_map EXCEPT
          ![call[t].sink] = logger_sink_map[call[t].sink]]
    BY <1>1, <2>3 DEF ConfApply, InitSink, DiscardSink, SetEnabled, SetMinLvl, SetFormat,
                      IsInitialized, ConfReturn
  <2> QED BY <2>4 DEF IInv, TypeOK
<1>2. ASSUME NEW t \in App, Configures(t) PROVE logger_sink_map' = logger_sink_map \/ NothingLogged
  BY <1>1, <1>2 DEF Configures, ConfCall, ConfLock
<1>3. ASSUME NEW t \in App, DtorMoves(t) PROVE logger_sink_map' = logger_sink_map \/ Present' = {}
  <2>1. DtorMembers(t) => Present' = {} BY DEF DtorMembers, Present
  <2> QED BY <1>3, <2>1 DEF DtorMoves, DtorStart, DtorPoll, DtorStop, DtorJoin
<1> QED
  BY <1>2, <1>3 DEF Elsewhere, Push, QueueEmpty, DtorExit, CheckStop, vars

\* Before anything is logged nothing was handled, and nobody walks.
LEMMA NothingHandled ==
  ASSUME IInv, Trail, NothingLogged
  PROVE  handled = {} /\ \A t \in Threads : pc[t] \notin RoutePC
<1>1. \A t \in App : Submitted(t) <= 0
  BY Counters DEF NothingLogged, Trail
<1>2. \A m \in handled : m \in Message /\ m.from \in App /\ m.seq \in Nat /\ m.seq >= 1
  BY LoggerAssumption DEF IInv, TypeOK, Message
<1>3. ASSUME NEW m \in handled PROVE m.seq <= Submitted(m.from)
  <2>1. CASE Async
    <3>1. PICK i \in 1 .. Done : m = taken[i] BY <2>1 DEF Trail, HandledSoFar
    <3>2. Done \in {Len(taken), Len(taken) - 1} BY DEF Done
    <3>3. /\ Len(taken) \in Nat /\ Len(log_msg_queue) \in Nat
          /\ DOMAIN taken = 1 .. Len(taken)
          /\ DOMAIN History = 1 .. Len(taken) + Len(log_msg_queue)
          /\ \A k \in DOMAIN taken : History[k] = taken[k]
      BY HistoryParts
    <3>4. i \in DOMAIN taken /\ i \in DOMAIN History BY ONLY <3>1, <3>2, <3>3
    <3>5. History[i] = m BY <3>1, <3>3, <3>4
    <3> QED BY <1>2, <3>4, <3>5 DEF Trail, InSubmissionOrder
  <2>2. CASE ~ Async BY <1>2, <2>2 DEF Trail, HandledSoFar
  <2> QED BY <2>1, <2>2
<1>4. ASSUME NEW m \in handled PROVE FALSE
  <2>1. m.seq <= Submitted(m.from) /\ Submitted(m.from) <= 0 /\ m.seq >= 1
    BY <1>1, <1>2, <1>3
  <2>2. m.seq \in Nat /\ Submitted(m.from) \in Nat BY <1>2, Counters DEF Trail
  <2> QED BY ONLY <2>1, <2>2
<1> QED BY <1>4 DEF IInv, NoMessageYet

\* Two threads in the routine have two messages, and a thread there has one.
LEMMA OwnMessages ==
  ASSUME IInv, Trail, NEW t \in Threads, NEW u \in Threads, t # u,
         pc[t] \in RoutePC, pc[u] \in RoutePC
  PROVE  msg[t] # msg[u]
<1>1. CASE Async BY <1>1 DEF Trail, Threading, ByMode, Threads
<1>2. CASE ~ Async
  <2>1. pc[Worker] \in {"exited", "crashed"} BY <1>2 DEF IInv, DtorAlone
  <2>2. t \in App /\ u \in App BY <2>1 DEF Threads, RoutePC
  <2>3. msg[t].from = t /\ msg[u].from = u BY <2>2, Counters DEF Trail
  <2> QED BY <2>3
<1> QED BY <1>1, <1>2

\* No sink has a line of a message that is about to be logged ...
LEMMA NewIsUnwritten ==
  ASSUME IInv, LoggedInOrder, ~ Async, NEW t \in App, NEW l \in Levels, WriteLog(t, l),
         NEW s \in Sinks
  PROVE  ~ Written(msg'[t], s)
<1>1. msg'[t].from = t /\ msg'[t].seq = sent[t] + 1 /\ sent[t] \in Nat
  <2>1. msg' = [msg EXCEPT ![t] = [from |-> t, seq |-> sent[t] + 1, lvl |-> l]]
    BY DEF WriteLog
  <2>2. msg'[t] = [from |-> t, seq |-> sent[t] + 1, lvl |-> l]
    BY <2>1 DEF IInv, TypeOK, Threads
  <2>3. sent[t] \in Nat BY LoggerAssumption DEF IInv, TypeOK
  <2> QED BY <2>2, <2>3
<1>2. ASSUME NEW i \in DOMAIN out[s], out[s][i] = msg'[t] PROVE FALSE
  <2>1. out[s][i].seq <= sent[t] BY <1>1, <1>2 DEF LoggedInOrder
  <2> QED BY <1>1, <1>2, <2>1
<1> QED BY <1>2 DEF Written

\* ... or taken from the queue.
LEMMA FrontIsUnwritten ==
  ASSUME IInv, Trail, InQueueOrder, Async, log_msg_queue # << >>, NEW s \in Sinks
  PROVE  ~ Written(Head(log_msg_queue), s)
<1>1. /\ Len(taken) \in Nat /\ Len(log_msg_queue) \in Nat
      /\ DOMAIN taken = 1 .. Len(taken) /\ DOMAIN log_msg_queue = 1 .. Len(log_msg_queue)
      /\ DOMAIN History = 1 .. Len(taken) + Len(log_msg_queue)
      /\ \A i \in DOMAIN taken : History[i] = taken[i]
      /\ \A i \in DOMAIN log_msg_queue : History[Len(taken) + i] = log_msg_queue[i]
  BY HistoryParts
<1>2. log_msg_queue \in Seq(Message) BY DEF IInv, TypeOK
<1>3. 1 \in DOMAIN log_msg_queue /\ Head(log_msg_queue) = log_msg_queue[1]
      /\ Head(log_msg_queue) \in Message
  BY <1>2
<1>4. Len(taken) + 1 \in DOMAIN History /\ History[Len(taken) + 1] = Head(log_msg_queue)
  BY <1>1, <1>3
<1>5. Head(log_msg_queue).seq \in Nat BY <1>3, LoggerAssumption DEF Message
<1>6. ASSUME NEW i \in DOMAIN out[s], out[s][i] = Head(log_msg_queue) PROVE FALSE
  <2>1. PICK j \in DOMAIN taken : out[s][i] = taken[j] BY DEF InQueueOrder, Reached
  <2>2. j \in DOMAIN History /\ j < Len(taken) + 1 BY ONLY <1>1, <2>1
  <2>3. History[j] = Head(log_msg_queue) BY <1>1, <1>6, <2>1
  <2>4. History[j].seq < History[Len(taken) + 1].seq
    BY <1>4, <2>2, <2>3 DEF Trail, InSubmissionOrder
  <2> QED BY <1>4, <1>5, <2>3, <2>4
<1> QED BY <1>6 DEF Written

LEMMA NextDelivered ==
  ASSUME IInv, Trail, InQueueOrder, LoggedInOrder, CallsMade, Delivered, KeepsSettings,
         [Next]_vars
  PROVE  Delivered'
<1> USE DEF Goto, queueVars, lifeVars, routeVars, callVars
<1>0. /\ pc \in [Threads -> {"idle", "push", "crashed"} \cup ConfPC \cup RoutePC
                            \cup DtorPC \cup WorkerPC]
      /\ msg \in [Threads -> Message \cup {NoMsg}]
      /\ App \subseteq Threads /\ Worker \in Threads /\ Worker \notin App
      /\ SinkChanges # "any" /\ Present \subseteq Sinks
  BY LoggerAssumption DEF IInv, TypeOK, Threads, Present, KeepsSettings
\* What the invariant says of one sink, of a handled message, of one on its way.
<1> DEFINE Right(m, s) == Written(m, s) <=> Accepts(logger_sink_map[s], m)
           OnWay(t, s) == pc[t] \in RoutePC =>
             IF Carries(t, s) THEN ~ Written(msg[t], s) ELSE Right(msg[t], s)
<1>1. \A s \in Present : /\ \A m \in handled : Right(m, s)
                         /\ \A t \in Threads : OnWay(t, s)
  BY DEF Delivered
<1>2. ASSUME \A s \in Present' : /\ \A m \in handled' : Right(m, s)'
                                 /\ \A t \in Threads : OnWay(t, s)'
      PROVE  Delivered'
  BY <1>2 DEF Delivered
\* A step that changes neither the sinks nor their lines.
<1>3. ASSUME UNCHANGED <<logger_sink_map, out>>
      PROVE  /\ Present' = Present
             /\ \A m, s : Written(m, s)' <=> Written(m, s)
             /\ \A m \in handled, s \in Present : Right(m, s)'
             /\ \A t \in Threads, s \in Present :
                  /\ pc'[t] \in RoutePC => pc[t] \in RoutePC
                  /\ pc'[t] \in RoutePC => msg'[t] = msg[t]
                  /\ Carries(t, s)' = Carries(t, s)
                  => OnWay(t, s)'
  <2>1. Present' = Present BY <1>3 DEF Present
  <2>2. \A m, s : Written(m, s)' <=> Written(m, s) BY <1>3 DEF Written
  <2>3. \A m, s : Right(m, s)' <=> Right(m, s) BY <1>3, <2>2
  <2>4. \A m \in handled, s \in Present : Right(m, s)' BY <1>1, <2>3
  <2>5. ASSUME NEW t \in Threads, NEW s \in Present,
               /\ pc'[t] \in RoutePC => pc[t] \in RoutePC
               /\ pc'[t] \in RoutePC => msg'[t] = msg[t]
               /\ Carries(t, s)' = Carries(t, s)
        PROVE  OnWay(t, s)'
    BY <1>1, <1>3, <2>2, <2>5
  <2> QED BY <2>1, <2>2, <2>4, <2>5
<1>4. CASE Elsewhere
  <2>1. WalksStay BY <1>4, ElsewhereStays
  <2>2. CASE logger_sink_map' = logger_sink_map
    <3>1. UNCHANGED <<logger_sink_map, out, handled>> BY <2>1, <2>2 DEF WalksStay
    <3>2. \A t \in Threads, s \in Present : OnWay(t, s)'
      BY <1>0, <1>3, <2>1, <3>1 DEF WalksStay
    <3> QED BY <1>2, <1>3, <3>1, <3>2
  <2>3. CASE NothingLogged
    <3>1. handled' = {} /\ \A t \in Threads : pc'[t] \notin RoutePC
      BY <2>1, <2>3, NothingHandled DEF WalksStay
    <3> QED BY <1>2, <3>1
  <2>4. CASE Present' = {} BY <1>2, <2>4
  <2> QED BY <1>4, <2>2, <2>3, <2>4, MapChanges
<1>5. ASSUME NEW t \in App, NEW l \in Levels, WriteLog(t, l) PROVE Delivered'
  <2>1. /\ UNCHANGED <<logger_sink_map, out, handled, it>>
        /\ \A u \in Threads \ {t} : pc'[u] = pc[u] /\ msg'[u] = msg[u]
        /\ pc'[t] = IF Async THEN "push" ELSE "route_begin"
    BY <1>0, <1>5 DEF WriteLog
  <2>2. \A u \in Threads \ {t}, s \in Present : OnWay(u, s)'
    BY <1>3, <2>1 DEF Carries
  <2>3. \A s \in Present : OnWay(t, s)'
    <3>1. CASE Async BY <2>1, <3>1 DEF RoutePC
    <3>2. CASE ~ Async
      <4>1. \A s \in Present : Carries(t, s)' BY <2>1, <3>2 DEF Carries
      <4>2. \A s \in Present : ~ Written(msg'[t], s) BY <1>0, <1>5, <3>2, NewIsUnwritten
      <4>3. \A s \in Present : ~ Written(msg[t], s)' BY <1>3, <2>1, <4>2 DEF Written
      <4> QED BY <4>1, <4>3
    <3> QED BY <3>1, <3>2
  <2> QED BY <1>2, <1>3, <2>1, <2>2, <2>3
<1>6. CASE Pop
  <2>1. /\ UNCHANGED <<logger_sink_map, out, handled, it>> /\ log_msg_queue # << >>
        /\ pc[Worker] = "pop" /\ pc'[Worker] = "route_begin"
        /\ msg'[Worker] = Head(log_msg_queue)
        /\ \A u \in Threads \ {Worker} : pc'[u] = pc[u] /\ msg'[u] = msg[u]
    BY <1>0, <1>6 DEF Pop, LogMsgQueue!Pop
  <2>2. Async BY <2>1 DEF IInv, DtorAlone
  <2>3. \A u \in Threads \ {Worker}, s \in Present : OnWay(u, s)'
    BY <1>3, <2>1 DEF Carries
  <2>4. \A s \in Present : OnWay(Worker, s)'
    <3>1. \A s \in Present : Carries(Worker, s)' BY <2>1 DEF Carries
    <3>2. \A s \in Present : ~ Written(msg'[Worker], s)
      BY <1>0, <2>1, <2>2, FrontIsUnwritten
    <3>3. \A s \in Present : ~ Written(msg[Worker], s)' BY <2>1, <3>2 DEF Written
    <3> QED BY <3>1, <3>3
  <2> QED BY <1>2, <1>3, <2>1, <2>3, <2>4
<1>7. ASSUME NEW t \in Threads, WalkFrame(t), Walks(t) PROVE Delivered'
  <2>1. /\ logger_sink_map' = logger_sink_map /\ Present' = Present
        /\ \A u \in Threads \ {t} : pc'[u] = pc[u] /\ msg'[u] = msg[u]
        /\ \A u \in Threads \ {t}, s \in Sinks : Carries(u, s)' = Carries(u, s)
    BY <1>7 DEF WalkFrame, Carries, Present
  <2>2. pc[t] \in RoutePC BY <1>7 DEF Walks, WalksOn, Decides, Writes, RoutePC
  <2>3. ASSUME out' = out PROVE \A u \in Threads \ {t}, s \in Present : OnWay(u, s)'
    BY <1>0, <1>3, <2>1, <2>3
  <2>4. CASE WalksOn(t)
    <3>1. out' = out /\ \A s \in Present : Carries(t, s)' = Carries(t, s)
      BY <2>4 DEF WalksOn
    <3>2. \A u \in Threads \ {t}, s \in Present : OnWay(u, s)' BY <2>3, <3>1
    <3>3. CASE msg'[t] = msg[t] /\ handled' = handled /\ pc'[t] \in RoutePC
      <4>1. \A s \in Present : OnWay(t, s)' BY <1>3, <2>1, <2>2, <3>1, <3>3
      <4> QED BY <1>2, <1>3, <2>1, <3>1, <3>2, <3>3, <4>1
    <3>4. CASE /\ handled' = handled \cup {msg[t]} /\ pc'[t] \notin RoutePC
               /\ \A s \in Sinks : ~ Carries(t, s)'
      <4>1. \A s \in Present : OnWay(t, s)' BY <3>4
      <4>2. \A s \in Present : Right(msg[t], s) BY <1>0, <1>1, <2>2, <3>1, <3>4
      <4>3. \A m, s : Right(m, s) <=>
              (Written(m, s)' <=> Accepts(logger_sink_map'[s], m))
        BY <1>3, <2>1, <3>1
      <4>4. \A m \in handled', s \in Present : Right(m, s)
        BY <1>1, <3>4, <4>2
      <4>5. \A m \in handled', s \in Present : Right(m, s)'
        BY <4>3, <4>4
      <4> QED BY <1>2, <2>1, <3>2, <4>1, <4>5
    <3> QED BY <2>4, <3>3, <3>4 DEF WalksOn
  <2>5. CASE Decides(t)
    <3>1. out' = out /\ handled' = handled /\ msg'[t] = msg[t] BY <2>5 DEF Decides
    <3>2. \A u \in Threads \ {t}, s \in Present : OnWay(u, s)' BY <2>3, <3>1
    <3>3. ASSUME NEW s \in Present PROVE OnWay(t, s)'
      <4>1. CASE Carries(t, s)' = Carries(t, s)
        BY <1>3, <2>1, <2>2, <3>1, <4>1
      <4>2. CASE /\ Carries(t, s) /\ ~ Carries(t, s)'
                 /\ ~ Accepts(logger_sink_map[s], msg[t])
        <5>1. ~ Written(msg[t], s) BY <1>1, <2>2, <4>2
        <5>2. ~ Written(msg[t], s)' BY <3>1, <5>1 DEF Written
        <5>3. ~ Accepts(logger_sink_map[s], msg[t])'
          BY <2>1, <3>1, <4>2 DEF Accepts
        <5> QED BY <4>2, <5>2, <5>3
      <4> QED BY <1>0, <2>5, <4>1, <4>2 DEF Decides
    <3> QED BY <1>2, <1>3, <2>1, <3>1, <3>2, <3>3
  <2>6. ASSUME NEW k \in Present, Writes(t, k) PROVE Delivered'
    <3>1. /\ k \in Sinks /\ \A s \in Sinks \ {k} : out'[s] = out[s]
          /\ DOMAIN out[k] = 1 .. Len(out[k]) /\ Len(out[k]) \in Nat
          /\ DOMAIN out'[k] = 1 .. Len(out[k]) + 1
          /\ \A i \in DOMAIN out[k] : out'[k][i] = out[k][i]
          /\ out'[k][Len(out[k]) + 1] = msg[t]
      BY <2>6, Appended
    <3>2. /\ handled' = handled /\ msg'[t] = msg[t] /\ pc'[t] \in RoutePC
          /\ Carries(t, k) /\ ~ Carries(t, k)' /\ Accepts(logger_sink_map[k], msg[t])
          /\ \A s \in Sinks \ {k} : Carries(t, s)' = Carries(t, s)
      BY <2>6 DEF Writes
    <3>3. \A m, s : s \in Sinks \ {k} =>
            ((\E i \in DOMAIN out'[s] : out'[s][i] = m) <=> Written(m, s))
      BY <3>1 DEF Written
    <3>4. ASSUME NEW m
          PROVE  (\E i \in DOMAIN out'[k] : out'[k][i] = m) <=> Written(m, k) \/ m = msg[t]
      <4>1. \A i : i \in DOMAIN out'[k] <=> i \in DOMAIN out[k] \/ i = Len(out[k]) + 1
        BY ONLY <3>1
      <4> QED BY <3>1, <4>1 DEF Written
    <3>5. ASSUME NEW m \in handled, NEW s \in Present
          PROVE  (\E i \in DOMAIN out'[s] : out'[s][i] = m) <=> Accepts(logger_sink_map[s], m)
      BY <1>0, <1>1, <3>2, <3>3, <3>4
    <3>6. \A m \in handled', s \in Present' : Right(m, s)'
      BY <2>1, <3>2, <3>5 DEF Written
    <3>7. ASSUME NEW u \in Threads \ {t}, NEW s \in Present, pc[u] \in RoutePC
          PROVE  /\ Written(msg[u], s) <=> \E i \in DOMAIN out'[s] : out'[s][i] = msg[u]
                 /\ Carries(u, s)' = Carries(u, s)
      <4>1. msg[u] # msg[t] BY <2>2, <3>7, OwnMessages
      <4> QED BY <1>0, <2>1, <3>3, <3>4, <4>1
    <3>8. \A u \in Threads \ {t}, s \in Present : OnWay(u, s)'
      BY <1>1, <2>1, <3>7 DEF Written
    <3>9. ASSUME NEW s \in Present PROVE OnWay(t, s)'
      <4>1. CASE s = k
        <5>1. \E i \in DOMAIN out'[k] : out'[k][i] = msg[t] BY <3>4
        <5> QED BY <2>1, <3>2, <4>1, <5>1 DEF Written
      <4>2. CASE s # k
        <5>1. s \in Sinks \ {k} BY <1>0, <4>2
        <5>2. OnWay(t, s) BY <1>1
        <5> QED BY <2>1, <2>2, <3>2, <3>3, <5>1, <5>2 DEF Written
      <4> QED BY <4>1, <4>2
    <3> QED BY <1>2, <2>1, <3>6, <3>8, <3>9
  <2> QED BY <1>7, <2>4, <2>5, <2>6 DEF Walks
<1> QED BY <1>0, <1>4, <1>5, <1>6, <1>7, PipeSteps

\* No message is twice in the output of a sink.
Once == \A s \in Sinks : \A i, j \in DOMAIN out[s] : out[s][i] = out[s][j] => i = j

\* Two lines of one thread are two messages.
LEMMA NumberedOnce == ASSUME IInv, CallerOrder PROVE Once
<1> SUFFICES ASSUME NEW s \in Sinks, NEW i \in DOMAIN out[s], NEW j \in DOMAIN out[s],
                    out[s][i] = out[s][j]
             PROVE  i = j
  BY DEF Once
<1>1. PICK lines : lines = out[s] OBVIOUS
<1>2. lines \in Seq(Message) BY <1>1 DEF IInv, TypeOK
<1>3. i \in Nat /\ j \in Nat /\ lines[i] \in Message /\ lines[j] \in Message BY <1>1, <1>2
<1>4. lines[i].seq \in Nat /\ lines[j].seq \in Nat
  BY <1>3, LoggerAssumption DEF Message
<1>5. \A k, l \in DOMAIN lines :
        k < l /\ lines[k].from = lines[l].from => lines[k].seq < lines[l].seq
  BY <1>1 DEF CallerOrder
<1>6. lines[i] = lines[j] BY <1>1
<1>7. ~ i < j
  <2>1. i < j => lines[i].seq < lines[j].seq BY <1>1, <1>5, <1>6
  <2> QED BY <1>4, <1>6, <2>1
<1>8. ~ j < i
  <2>1. j < i => lines[j].seq < lines[i].seq BY <1>1, <1>5, <1>6
  <2> QED BY <1>4, <1>6, <2>1
<1> QED BY <1>3, <1>7, <1>8

\* Where the application configures its sinks before it logs, each message that
\* went through internal_log_routine() is once in each sink that accepts it and
\* not in the others, in both modes.
THEOREM DeliveredKept == KeepsSettings => (Spec => []DeliveredAsConfigured)
<1> SUFFICES ASSUME KeepsSettings PROVE Spec => []DeliveredAsConfigured OBVIOUS
<1>1. SinkChanges # "any" BY DEF KeepsSettings
<1>2. Init => CallsMade /\ Delivered
  <2>1. Init => CallsMade BY DEF Init, CallsMade, Threads, ConfPC
  <2>2. Init => Present = {} BY DEF Init, Present
  <2> QED BY <2>1, <2>2 DEF Delivered
<1>3. Spec => [](IInv /\ Trail /\ InQueueOrder /\ LoggedInOrder)
  BY <1>1, LinesInvariance
<1>4. IInv /\ CallsMade /\ [Next]_vars => CallsMade' BY NextCallsMade
<1>5. IInv /\ Trail /\ InQueueOrder /\ LoggedInOrder /\ CallsMade /\ Delivered
      /\ [Next]_vars => Delivered'
  BY NextDelivered
<1>6. Spec => []CallerOrder BY <1>1, CallerOrderKept
<1>7. IInv /\ CallerOrder /\ Delivered => DeliveredAsConfigured
  <2> SUFFICES ASSUME Once, Delivered, NEW m \in handled, NEW s \in Present
               PROVE  LET at == {i \in DOMAIN out[s] : out[s][i] = m} IN
                      IF Accepts(logger_sink_map[s], m)
                      THEN \E i \in DOMAIN out[s] : at = {i} ELSE at = {}
    BY NumberedOnce DEF DeliveredAsConfigured
  <2>1. s \in Sinks BY DEF Present
  <2>2. (\E i \in DOMAIN out[s] : out[s][i] = m) <=> Accepts(logger_sink_map[s], m)
    BY DEF Delivered, Written
  <2>3. \A i, j \in DOMAIN out[s] : out[s][i] = m /\ out[s][j] = m => i = j
    BY <2>1 DEF Once
  <2> QED BY <2>2, <2>3
<1> QED BY <1>2, <1>3, <1>4, <1>5, <1>6, <1>7, PTL DEF Spec
=============================================================================
