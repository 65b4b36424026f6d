------------------------------- MODULE Logger -------------------------------
(***************************************************************************)
(* ealogger::Logger (ealogger.h, ealogger.cpp): application threads log    *)
(* through one Logger and reconfigure its sinks while they do.  In         *)
(* asynchronous mode write_log() puts the message on the queue and the     *)
(* background thread takes it from there to every sink; in synchronous     *)
(* mode the caller does that itself.  Either way internal_log_routine()    *)
(* walks the std::map of sinks and locks each sink's own mutex in turn;    *)
(* nothing locks the map itself.                                           *)
(*                                                                         *)
(* The queue is the abstract one of Fifo, which LogQueue implements.  A    *)
(* sink is what decides whether it writes a message: its enabled flag and  *)
(* its minimum severity.  How a line is formatted is Sink's business.      *)
(***************************************************************************)
EXTENDS Naturals, Sequences

CONSTANTS
  App,               \* the application's threads
  Worker,            \* logger_thread, the background thread
  NoThread,          \* the owner of an unlocked mutex
  Sinks,             \* the LOGGER_SINK keys the application uses
  Levels,            \* the LOG_LEVELs of its messages
  Calls,             \* the calls it makes to configure sinks
  Async,             \* the constructor's argument
  SinkChanges,       \* how sinks come and go while messages are logged:
                     \* "none", "replace" (a sink by a new one) or "any"
  MaxMsgs,           \* bound: how often each thread calls write_log()
  MaxPolls,          \* how often the destructor polls the queue (100)
  NoSink             \* a key that the map does not hold

Threads == App \cup {Worker}

\* enum class LOG_LEVEL, in the order of severity
EAL_DEBUG == 0
EAL_INFO == 1
EAL_WARNING == 2
EAL_ERROR == 3
EAL_FATAL == 4
EAL_STACK == 5
EAL_INTERNAL == 6
LOG_LEVEL == EAL_DEBUG .. EAL_INTERNAL

\* enum class LOGGER_SINK, and the past-the-end position of the map's iterators
EAL_CONSOLE == 0
EAL_SYSLOG == 1
EAL_FILE_SIMPLE == 2
End == 3

\* A LogMessage: its caller, the how-manieth of that caller it is, its severity.
\* Its log type is STACK if and only if its severity is EAL_STACK.
Message == [from : App, seq : 1 .. MaxMsgs + 1, lvl : LOG_LEVEL]

\* A Sink, as far as it decides what is written.
Sink == [enabled : BOOLEAN, min_lvl : LOG_LEVEL]

\* A call of one of the methods that look a sink up under its mutex.
Ops == {"init_sink", "discard_sink", "set_enabled", "set_min_lvl", "set_format",
        "is_initialized"}
Call == [op : Ops, sink : Sinks, enabled : BOOLEAN, min_lvl : LOG_LEVEL]

ASSUME LoggerAssumption ==
  /\ Worker \notin App
  /\ NoThread \notin Threads
  /\ Sinks \subseteq EAL_CONSOLE .. EAL_FILE_SIMPLE
  /\ Levels \subseteq EAL_DEBUG .. EAL_STACK
  /\ Calls \subseteq Call
  /\ Async \in BOOLEAN
  /\ SinkChanges \in {"none", "replace", "any"}
  /\ MaxMsgs \in Nat
  /\ MaxPolls \in Nat
  /\ NoSink \notin Sink

VARIABLES
  log_msg_queue,       \* LogQueue log_msg_queue
  taken,               \* history: what its pop() has returned
  logger_sink_map,     \* the sink at each key, or NoSink
  logger_mutex_map,    \* the owner of each key's mutex, or NoThread
  logger_thread_stop,  \* bool logger_thread_stop
  pc,                  \* where each thread is
  msg,                 \* the message each thread is working on
  call,                \* the configuration call each thread is in
  it,                  \* the iterator of each thread's walk over the map
  dangling,            \* threads whose iterator points to an erased node
  sent,                \* how many messages each thread has logged
  out,                 \* history: the lines handed to each sink's write_message()
  handled,             \* history: the messages that went to all sinks
  saw_empty,           \* threads that queue_empty() told TRUE since they last logged
  alive,               \* the destructor has not begun
  polls                \* the destructor's counter i

vars == <<log_msg_queue, taken, logger_sink_map, logger_mutex_map,
          logger_thread_stop, pc, msg, call, it, dangling, sent, out, handled,
          saw_empty, alive, polls>>

queueVars == <<log_msg_queue, taken>>
lifeVars == <<logger_thread_stop, alive, polls>>
routeVars == <<it, dangling, out, handled>>
callVars == <<call, sent, saw_empty>>

LogMsgQueue == INSTANCE Fifo WITH queue <- log_msg_queue

\* The keys in the map, and where an iterator stands that has yet to visit S.
Present == {s \in Sinks : logger_sink_map[s] # NoSink}
IteratorAt(S) == CHOOSE k \in S \cup {End} : \A j \in S \cup {End} : k <= j

NoMsg == [from |-> NoThread, seq |-> 0, lvl |-> EAL_INTERNAL]
NoCall == [op |-> "none", sink |-> End, enabled |-> FALSE, min_lvl |-> EAL_DEBUG]

Goto(t, place) == pc' = [pc EXCEPT ![t] = place]

\* The state the constructor leaves: three mutexes, no sink, and in
\* asynchronous mode the background thread on its way into its loop.
Init ==
  /\ log_msg_queue = << >> /\ taken = << >>
  /\ logger_sink_map = [s \in Sinks |-> NoSink]
  /\ logger_mutex_map = [s \in Sinks |-> NoThread]
  /\ logger_thread_stop = FALSE
  /\ pc = [t \in Threads |-> IF t \in App THEN "idle"
                             ELSE IF Async THEN "check_stop" ELSE "exited"]
  /\ msg = [t \in Threads |-> NoMsg]
  /\ call = [t \in App |-> NoCall]
  /\ it = [t \in Threads |-> End]
  /\ dangling = {}
  /\ sent = [t \in App |-> 0]
  /\ out = [s \in Sinks |-> << >>]
  /\ handled = {}
  /\ saw_empty = {}
  /\ alive = TRUE
  /\ polls = 0

-----------------------------------------------------------------------------
(* What the application does with the set of sinks.  It may call           *)
(* init_*_sink() and discard_sink() before anything is logged, while no    *)
(* other thread is in a call; once messages are logged, never ("none"), to *)
(* give an existing sink new settings ("replace"), or as the interface     *)
(* allows ("any").                                                         *)

ConfPC == {"conf_lock", "conf_apply"}

\* The application makes call c whatever its other threads do.
AnyTime(c) ==
  \/ c.op \notin {"init_sink", "discard_sink"}
  \/ SinkChanges = "any"
  \/ SinkChanges = "replace" /\ c.op = "init_sink" /\ c.sink \in Present

MayCall == alive /\ \A u \in App : pc[u] \in ConfPC => AnyTime(call[u])

-----------------------------------------------------------------------------
(* void write_log(std::string msg, LOG_LEVEL lvl, ...) *)

\* Mutant: a shortcut, the caller routes the message when the queue is empty.
WriteLogShortcut(t, l) ==
  /\ pc[t] = "idle"
  /\ MayCall
  /\ sent[t] < MaxMsgs
  /\ sent' = [sent EXCEPT ![t] = @ + 1]
  /\ msg' = [msg EXCEPT ![t] = [from |-> t, seq |-> sent[t] + 1, lvl |-> l]]
  /\ saw_empty' = saw_empty \ {t}
  /\ Goto(t, IF Async /\ log_msg_queue # << >> THEN "push" ELSE "route_begin")
  /\ UNCHANGED <<queueVars, lifeVars, routeVars, logger_sink_map,
                 logger_mutex_map, call>>

\* The caller builds the message; then it pushes it, or routes it itself.
WriteLog(t, l) ==
  /\ pc[t] = "idle"
  /\ MayCall
  /\ sent[t] < MaxMsgs
  /\ sent' = [sent EXCEPT ![t] = @ + 1]
  /\ msg' = [msg EXCEPT ![t] = [from |-> t, seq |-> sent[t] + 1, lvl |-> l]]
  /\ saw_empty' = saw_empty \ {t}
  /\ Goto(t, IF Async THEN "push" ELSE "route_begin")
  /\ UNCHANGED <<queueVars, lifeVars, routeVars, logger_sink_map,
                 logger_mutex_map, call>>

\* Mutant: a full queue (here: one message) drops what does not fit.
PushDropping(t) ==
  /\ pc[t] = "push"
  /\ IF log_msg_queue = << >> THEN LogMsgQueue!Push(msg[t]) ELSE UNCHANGED queueVars
  /\ msg' = [msg EXCEPT ![t] = NoMsg]
  /\ Goto(t, "idle")
  /\ UNCHANGED <<lifeVars, routeVars, callVars, logger_sink_map, logger_mutex_map>>

Push(t) ==
  /\ pc[t] = "push"
  /\ LogMsgQueue!Push(msg[t])
  /\ msg' = [msg EXCEPT ![t] = NoMsg]
  /\ Goto(t, "idle")
  /\ UNCHANGED <<lifeVars, routeVars, callVars, logger_sink_map, logger_mutex_map>>

\* Mutant: one message left counts as empty.
QueueEmptyOffByOne(t) ==
  /\ pc[t] = "idle"
  /\ MayCall
  /\ saw_empty' = IF Len(log_msg_queue) <= 1 THEN saw_empty \cup {t} ELSE saw_empty
  /\ UNCHANGED <<queueVars, lifeVars, routeVars, logger_sink_map,
                 logger_mutex_map, pc, msg, call, sent>>

\* bool queue_empty()
QueueEmpty(t) ==
  /\ pc[t] = "idle"
  /\ MayCall
  /\ saw_empty' = IF log_msg_queue = << >> THEN saw_empty \cup {t} ELSE saw_empty
  /\ UNCHANGED <<queueVars, lifeVars, routeVars, logger_sink_map,
                 logger_mutex_map, pc, msg, call, sent>>

-----------------------------------------------------------------------------
(* init_*_sink, discard_sink, set_*, is_initialized: lock the mutex of the *)
(* sink, look the sink up, act on it, unlock.                              *)

ConfCall(t, c) ==
  /\ pc[t] = "idle"
  /\ MayCall
  /\ AnyTime(c) \/ \A u \in App : pc[u] = "idle" /\ sent[u] = 0
  /\ call' = [call EXCEPT ![t] = c]
  /\ Goto(t, "conf_lock")
  /\ UNCHANGED <<queueVars, lifeVars, routeVars, logger_sink_map,
                 logger_mutex_map, msg, sent, saw_empty>>

ConfLock(t) ==
  /\ pc[t] = "conf_lock"
  /\ logger_mutex_map[call[t].sink] = NoThread
  /\ logger_mutex_map' = [logger_mutex_map EXCEPT ![call[t].sink] = t]
  /\ Goto(t, "conf_apply")
  /\ UNCHANGED <<queueVars, lifeVars, routeVars, callVars, logger_sink_map, msg>>

\* Mutant: a return that skips the unlock.
ConfReturnLocked(t, op, new, lost) ==
  /\ pc[t] = "conf_apply"
  /\ call[t].op = op
  /\ logger_sink_map' = [logger_sink_map EXCEPT ![call[t].sink] = new]
  /\ dangling' = dangling \cup lost
  /\ call' = [call EXCEPT ![t] = NoCall]
  /\ Goto(t, "idle")
  /\ UNCHANGED <<queueVars, lifeVars, logger_mutex_map, it, out, handled, msg,
                 sent, saw_empty>>

\* The call of op that t is in leaves the sink as new and the iterators of
\* the threads in lost without a node, and returns.
ConfReturn(t, op, new, lost) ==
  /\ pc[t] = "conf_apply"
  /\ call[t].op = op
  /\ logger_sink_map' = [logger_sink_map EXCEPT ![call[t].sink] = new]
  /\ dangling' = dangling \cup lost
  /\ logger_mutex_map' = [logger_mutex_map EXCEPT ![call[t].sink] = NoThread]
  /\ call' = [call EXCEPT ![t] = NoCall]
  /\ Goto(t, "idle")
  /\ UNCHANGED <<queueVars, lifeVars, it, out, handled, msg, sent, saw_empty>>

\* Mutant: erase(key) and emplace(key, ...) instead of an assignment.
InitSinkErasing(t) ==
  ConfReturn(t, "init_sink",
    [enabled |-> call[t].enabled, min_lvl |-> call[t].min_lvl],
    {u \in Threads : it[u] = call[t].sink /\ call[t].sink \in Present})

\* logger_sink_map[key] = make_shared<...>: a new node, or a new sink in the
\* node that is there, which no iterator loses.
InitSink(t) ==
  ConfReturn(t, "init_sink",
    [enabled |-> call[t].enabled, min_lvl |-> call[t].min_lvl], {})

\* logger_sink_map.erase(key): iterators at the erased node are lost.
DiscardSink(t) ==
  ConfReturn(t, "discard_sink", NoSink,
    {u \in Threads : it[u] = call[t].sink /\ call[t].sink \in Present})

\* Mutant: a sink that is switched off leaves the map.
SetEnabledDiscarding(t) ==
  LET sink == logger_sink_map[call[t].sink] IN
  ConfReturn(t, "set_enabled",
    IF sink = NoSink \/ ~ call[t].enabled THEN NoSink
    ELSE [sink EXCEPT !.enabled = call[t].enabled], {})

\* logger_sink_map.at(key)->set_...: std::out_of_range is swallowed.
SetEnabled(t) ==
  LET sink == logger_sink_map[call[t].sink] IN
  ConfReturn(t, "set_enabled",
    IF sink = NoSink THEN NoSink ELSE [sink EXCEPT !.enabled = call[t].enabled], {})

SetMinLvl(t) ==
  LET sink == logger_sink_map[call[t].sink] IN
  ConfReturn(t, "set_min_lvl",
    IF sink = NoSink THEN NoSink ELSE [sink EXCEPT !.min_lvl = call[t].min_lvl], {})

\* set_msg_template, set_datetime_pattern: what they set is in Sink.
SetFormat(t) == ConfReturn(t, "set_format", logger_sink_map[call[t].sink], {})

\* find(key) reads; the answer may be stale as soon as the mutex is free.
IsInitialized(t) == ConfReturn(t, "is_initialized", logger_sink_map[call[t].sink], {})

ConfApply(t) ==
  \/ InitSink(t) \/ DiscardSink(t) \/ SetEnabled(t) \/ SetMinLvl(t)
  \/ SetFormat(t) \/ IsInitialized(t)

-----------------------------------------------------------------------------
(* void internal_log_routine(std::shared_ptr<LogMessage> m): in            *)
(* synchronous mode by every caller, in asynchronous mode by the Worker.   *)

RoutePC == {"route_begin", "route_lock", "route_check", "route_write", "route_next"}

\* Sink::prepare_log_message up to the formatting.  sink.cpp includes no
\* header that defines EALOGGER_PRINT_INTERNAL, so INTERNAL is never written.
Accepts(sink, m) ==
  /\ sink.enabled
  /\ m.lvl >= sink.min_lvl \/ m.lvl = EAL_STACK
  /\ m.lvl # EAL_INTERNAL

\* The walk of t goes on at key k, or is over and t leaves the routine.
RouteTo(t, k) ==
  /\ it' = [it EXCEPT ![t] = k]
  /\ \/ /\ k # End
        /\ Goto(t, "route_lock")
        /\ UNCHANGED <<msg, handled>>
     \/ /\ k = End
        /\ handled' = handled \cup {msg[t]}
        /\ msg' = [msg EXCEPT ![t] = NoMsg]
        /\ Goto(t, IF t = Worker THEN "check_stop" ELSE "idle")

Unlock(t) ==
  /\ logger_mutex_map' = [logger_mutex_map EXCEPT ![it[t]] = NoThread]
  /\ Goto(t, "route_next")

RouteBegin(t) ==
  /\ pc[t] = "route_begin"
  /\ RouteTo(t, IteratorAt(Present))
  /\ UNCHANGED <<queueVars, lifeVars, callVars, logger_sink_map,
                 logger_mutex_map, dangling, out>>

\* Mutant: no lock_guard around prepare_log_message().
RouteLockSkipped(t) ==
  /\ pc[t] = "route_lock"
  /\ Goto(t, "route_check")
  /\ UNCHANGED <<queueVars, lifeVars, callVars, routeVars, logger_sink_map,
                 logger_mutex_map, msg>>

RouteLock(t) ==
  /\ pc[t] = "route_lock"
  /\ logger_mutex_map[it[t]] = NoThread
  /\ logger_mutex_map' = [logger_mutex_map EXCEPT ![it[t]] = t]
  /\ Goto(t, "route_check")
  /\ UNCHANGED <<queueVars, lifeVars, callVars, routeVars, logger_sink_map, msg>>

\* Mutant: return instead of continue, the first sink that turns a message
\* down ends the loop.
RouteCheckReturning(t) ==
  /\ pc[t] = "route_check"
  /\ IF t \notin dangling /\ Accepts(logger_sink_map[it[t]], msg[t])
     THEN Goto(t, "route_write") /\ UNCHANGED <<logger_mutex_map, msg, it, handled>>
     ELSE /\ logger_mutex_map' = [logger_mutex_map EXCEPT ![it[t]] = NoThread]
          /\ RouteTo(t, End)
  /\ UNCHANGED <<queueVars, lifeVars, callVars, dangling, out, logger_sink_map>>

\* Mutant: a message that is turned down leaves the mutex locked.
RouteCheckLocked(t) ==
  /\ pc[t] = "route_check"
  /\ IF t \notin dangling /\ Accepts(logger_sink_map[it[t]], msg[t])
     THEN Goto(t, "route_write")
     ELSE Goto(t, "route_next")
  /\ UNCHANGED <<queueVars, lifeVars, callVars, routeVars, logger_sink_map,
                 logger_mutex_map, msg>>

\* The sink decides.  A destroyed sink that does not end the process writes nothing.
RouteCheck(t) ==
  /\ pc[t] = "route_check"
  /\ IF t \notin dangling /\ Accepts(logger_sink_map[it[t]], msg[t])
     THEN Goto(t, "route_write") /\ UNCHANGED logger_mutex_map
     ELSE Unlock(t)
  /\ UNCHANGED <<queueVars, lifeVars, callVars, routeVars, logger_sink_map, msg>>

RouteWrite(t) ==
  /\ pc[t] = "route_write"
  /\ out' = [out EXCEPT ![it[t]] = Append(@, msg[t])]
  /\ Unlock(t)
  /\ UNCHANGED <<queueVars, lifeVars, callVars, logger_sink_map, msg, it,
                 dangling, handled>>

\* Bound: walks from an erased node are not followed to a sink with more lines,
\* as they can bring one message to one sink again and again.
LineBound == MaxMsgs + 1

\* Mutant: the sink that was written to is visited again.
RouteNextSame(t) ==
  /\ pc[t] = "route_next"
  /\ RouteTo(t, IteratorAt({s \in Present : s >= it[t]}))
  /\ UNCHANGED <<queueVars, lifeVars, callVars, logger_sink_map,
                 logger_mutex_map, dangling, out>>

\* Mutant: a walk that has lost its node is given up, and its message with it.
RouteNextGivingUp(t) ==
  /\ pc[t] = "route_next"
  /\ IF t \notin dangling THEN RouteTo(t, IteratorAt({s \in Present : s > it[t]}))
     ELSE /\ it' = [it EXCEPT ![t] = End]
          /\ msg' = [msg EXCEPT ![t] = NoMsg]
          /\ Goto(t, IF t = Worker THEN "check_stop" ELSE "idle")
          /\ UNCHANGED handled
  /\ dangling' = dangling \ {t}
  /\ UNCHANGED <<queueVars, lifeVars, callVars, logger_sink_map,
                 logger_mutex_map, out>>

\* ++ on the iterator.  From an erased node it may lead anywhere in the map.
RouteNext(t) ==
  /\ pc[t] = "route_next"
  /\ \/ t \notin dangling /\ RouteTo(t, IteratorAt({s \in Present : s > it[t]}))
     \/ /\ t \in dangling
        /\ \E k \in {s \in Present : Len(out[s]) < LineBound} \cup {End} : RouteTo(t, k)
  /\ dangling' = dangling \ {t}
  /\ UNCHANGED <<queueVars, lifeVars, callVars, logger_sink_map,
                 logger_mutex_map, out>>

Route(t) == RouteBegin(t) \/ RouteCheck(t) \/ RouteWrite(t) \/ RouteNext(t)

-----------------------------------------------------------------------------
(* void thread_entry_point() *)

\* Mutant: the loop also ends when there is nothing to do.
CheckStopIdle ==
  /\ pc[Worker] = "check_stop"
  /\ Goto(Worker, IF logger_thread_stop \/ log_msg_queue = << >> THEN "exited" ELSE "pop")
  /\ UNCHANGED <<queueVars, lifeVars, routeVars, callVars, logger_sink_map,
                 logger_mutex_map, msg>>

CheckStop ==
  /\ pc[Worker] = "check_stop"
  /\ Goto(Worker, IF logger_thread_stop THEN "exited" ELSE "pop")
  /\ UNCHANGED <<queueVars, lifeVars, routeVars, callVars, logger_sink_map,
                 logger_mutex_map, msg>>

Pop ==
  /\ pc[Worker] = "pop"
  /\ LogMsgQueue!Pop
  /\ msg' = [msg EXCEPT ![Worker] = Head(log_msg_queue)]
  /\ Goto(Worker, "route_begin")
  /\ UNCHANGED <<lifeVars, routeVars, callVars, logger_sink_map, logger_mutex_map>>

-----------------------------------------------------------------------------
(* ~Logger(), by one thread, when no other thread is in a call or will     *)
(* make one: the lifetime rule of C++ objects.                             *)

DtorStart(t) ==
  /\ alive
  /\ \A u \in App : pc[u] = "idle"
  /\ alive' = FALSE
  /\ Goto(t, IF Async THEN "dtor_poll" ELSE "dtor_members")
  /\ UNCHANGED <<queueVars, routeVars, callVars, logger_sink_map,
                 logger_mutex_map, logger_thread_stop, msg, polls>>

\* Mutants: the loop is left out; its counter goes one too far.
DtorPollSkipped(t) ==
  /\ pc[t] = "dtor_poll"
  /\ Goto(t, "dtor_stop")
  /\ UNCHANGED <<queueVars, routeVars, callVars, logger_sink_map,
                 logger_mutex_map, logger_thread_stop, msg, alive, polls>>

DtorPollOffByOne(t) ==
  /\ pc[t] = "dtor_poll"
  /\ IF log_msg_queue = << >> \/ polls > MaxPolls
     THEN Goto(t, "dtor_stop") /\ UNCHANGED polls
     ELSE polls' = polls + 1 /\ UNCHANGED pc
  /\ UNCHANGED <<queueVars, routeVars, callVars, logger_sink_map,
                 logger_mutex_map, logger_thread_stop, msg, alive>>

\* One round of the loop that waits for the queue to be empty.
DtorPoll(t) ==
  /\ pc[t] = "dtor_poll"
  /\ IF log_msg_queue = << >> \/ polls = MaxPolls
     THEN Goto(t, "dtor_stop") /\ UNCHANGED polls
     ELSE polls' = polls + 1 /\ UNCHANGED pc
  /\ UNCHANGED <<queueVars, routeVars, callVars, logger_sink_map,
                 logger_mutex_map, logger_thread_stop, msg, alive>>

DtorStop(t) ==
  /\ pc[t] = "dtor_stop"
  /\ logger_thread_stop' = TRUE
  /\ Goto(t, "dtor_exit")
  /\ UNCHANGED <<queueVars, routeVars, callVars, logger_sink_map,
                 logger_mutex_map, msg, alive, polls>>

\* Mutant: the stop flag is set, but nothing wakes the background thread.
DtorExitSilent(t) ==
  /\ pc[t] = "dtor_exit"
  /\ Goto(t, "dtor_join")
  /\ UNCHANGED <<queueVars, lifeVars, routeVars, callVars, logger_sink_map,
                 logger_mutex_map, msg>>

\* write_log("Logger EXIT", EAL_INTERNAL, ...)
DtorExit(t) ==
  /\ pc[t] = "dtor_exit"
  /\ sent' = [sent EXCEPT ![t] = @ + 1]
  /\ LogMsgQueue!Push([from |-> t, seq |-> sent[t] + 1, lvl |-> EAL_INTERNAL])
  /\ Goto(t, "dtor_join")
  /\ UNCHANGED <<lifeVars, routeVars, logger_sink_map, logger_mutex_map, msg,
                 call, saw_empty>>

\* Mutant: detach() instead of join().
DtorJoinDetached(t) ==
  /\ pc[t] = "dtor_join"
  /\ Goto(t, "dtor_members")
  /\ UNCHANGED <<queueVars, lifeVars, routeVars, callVars, logger_sink_map,
                 logger_mutex_map, msg>>

DtorJoin(t) ==
  /\ pc[t] = "dtor_join"
  /\ pc[Worker] = "exited"
  /\ Goto(t, "dtor_members")
  /\ UNCHANGED <<queueVars, lifeVars, routeVars, callVars, logger_sink_map,
                 logger_mutex_map, msg>>

\* After the body: the sinks are destroyed with the map.
DtorMembers(t) ==
  /\ pc[t] = "dtor_members"
  /\ logger_sink_map' = [s \in Sinks |-> NoSink]
  /\ Goto(t, "destroyed")
  /\ UNCHANGED <<queueVars, lifeVars, routeVars, callVars, logger_mutex_map, msg>>

Dtor(t) ==
  DtorPoll(t) \/ DtorStop(t) \/ DtorExit(t) \/ DtorJoin(t) \/ DtorMembers(t)

-----------------------------------------------------------------------------
\* t is about to change the structure of the map: insert a key or erase one.
Restructures(t) ==
  /\ pc[t] = "conf_apply"
  /\ \/ call[t].op = "init_sink" /\ call[t].sink \notin Present
     \/ call[t].op = "discard_sink" /\ call[t].sink \in Present

\* t is about to follow the structure of the map: begin(), ++, at(), find(), [].
Traverses(t) == pc[t] \in {"conf_apply", "route_begin", "route_next"}

\* No two threads are about to use the map at once, one of them to change it:
\* that would be a data race on std::map, whatever sinks the two are about.
SinkMapRaceFree ==
  \A t \in App, u \in Threads : t # u /\ Restructures(t) => ~ Traverses(u)

\* No thread is inside internal_log_routine() with an iterator to an erased
\* node, which its next step dereferences.
NoDanglingSink == dangling = {}

\* Undefined behaviour may end the process.
Crash ==
  /\ ~ (SinkMapRaceFree /\ NoDanglingSink)
  /\ pc' = [t \in Threads |-> "crashed"]
  /\ UNCHANGED <<queueVars, lifeVars, routeVars, callVars, logger_sink_map,
                 logger_mutex_map, msg>>

Ended == \A t \in App : pc[t] \in {"crashed", "destroyed"} \/ (~ alive /\ pc[t] = "idle")
Terminated == Ended /\ UNCHANGED vars

Next ==
  \/ \E t \in App :
       \/ \E l \in Levels : WriteLog(t, l)
       \/ Push(t)
       \/ QueueEmpty(t)
       \/ \E c \in Calls : ConfCall(t, c)
       \/ ConfLock(t)
       \/ ConfApply(t)
       \/ DtorStart(t)
       \/ Dtor(t)
  \/ \E t \in Threads : Route(t) \/ RouteLock(t)
  \/ CheckStop
  \/ Pop
  \/ Crash
  \/ Terminated

Spec == Init /\ [][Next]_vars

\* A thread inside a call, and the background thread, keep running; one that
\* waits for a sink's mutex gets it if it is released again and again.  Nobody
\* has to log, to configure, to poll or to destroy the Logger.
Fairness ==
  /\ WF_vars(CheckStop) /\ WF_vars(Pop)
  /\ \A t \in Threads : WF_vars(Route(t)) /\ SF_vars(RouteLock(t))
  /\ \A t \in App :
       /\ WF_vars(Push(t)) /\ WF_vars(ConfApply(t)) /\ SF_vars(ConfLock(t))
       /\ WF_vars(Dtor(t))

FairSpec == Spec /\ Fairness

-----------------------------------------------------------------------------
(* Properties.                                                             *)

DtorPC == {"dtor_poll", "dtor_stop", "dtor_exit", "dtor_join", "dtor_members",
           "destroyed"}
WorkerPC == {"check_stop", "pop", "exited"}

TypeOK ==
  /\ log_msg_queue \in Seq(Message)
  /\ taken \in Seq(Message)
  /\ logger_sink_map \in [Sinks -> Sink \cup {NoSink}]
  /\ logger_mutex_map \in [Sinks -> Threads \cup {NoThread}]
  /\ logger_thread_stop \in BOOLEAN
  /\ pc \in [Threads -> {"idle", "push", "crashed"} \cup ConfPC \cup RoutePC
                        \cup DtorPC \cup WorkerPC]
  /\ pc[Worker] \in {"crashed"} \cup RoutePC \cup WorkerPC
  /\ \A t \in App : pc[t] \notin WorkerPC
  /\ msg \in [Threads -> Message \cup {NoMsg}]
  /\ call \in [App -> Call \cup {NoCall}]
  /\ it \in [Threads -> Sinks \cup {End}]
  /\ dangling \in SUBSET Threads
  /\ sent \in [App -> 0 .. MaxMsgs + 1]
  /\ out \in [Sinks -> Seq(Message)]
  /\ handled \in SUBSET Message
  /\ saw_empty \in SUBSET App
  /\ alive \in BOOLEAN
  /\ polls \in 0 .. MaxPolls

Crashed == pc[Worker] = "crashed"
Destroyed == \E t \in App : pc[t] = "destroyed"

\* Thread t is between the lock_guard for sink s and the end of its scope.
Holds(t, s) ==
  \/ pc[t] = "conf_apply" /\ call[t].sink = s
  \/ pc[t] \in {"route_check", "route_write"} /\ it[t] = s

\* A sink's mutex is owned by exactly the thread that is configuring the sink
\* or delivering to it: no path through the eight methods and the routing loop
\* keeps it, and no two threads are ever inside the same sink.
MutexDiscipline ==
  ~ Crashed =>
    \A t \in Threads, s \in Sinks : logger_mutex_map[s] = t <=> Holds(t, s)

\* Between the moment a sink decided to write a message and the write, nobody
\* disables it, raises its minimum severity or replaces it: when set_enabled(s,
\* false) or set_min_lvl has returned, no line that they forbid is written.
DecisionHolds ==
  ~ Crashed =>
    \A t \in Threads : pc[t] = "route_write" =>
      it[t] \in Present /\ Accepts(logger_sink_map[it[t]], msg[t])

\* m went into the queue, or into the loop of its own caller, before n did.
Before(m, n) == \E i, j \in DOMAIN taken : i < j /\ taken[i] = m /\ taken[j] = n

\* In asynchronous mode every sink shows the messages in the one order in which
\* the queue handed them over, and none twice, whatever was reconfigured
\* meanwhile: the log of one sink never contradicts the log of another.
OneOrderForAllSinks ==
  \A s \in Sinks : \A i, j \in DOMAIN out[s] :
    i < j => Before(out[s][i], out[s][j])

\* The message of thread t is still on its way to sink s.
Carries(t, s) ==
  \/ pc[t] = "route_begin"
  \/ pc[t] \in {"route_lock", "route_check", "route_write"} /\ s >= it[t]
  \/ pc[t] = "route_next" /\ s > it[t]

\* The asynchronous Logger, with its queue, its background thread, its mutexes
\* and its destructor, implements one ordered pipe per sink: every step of any
\* thread submits one message to all sinks, moves sinks one message on, closes
\* the pipes, or is invisible to a reader of the logs.
Pipe == INSTANCE LogPipe WITH
  pending <- [s \in Sinks |-> (IF Carries(Worker, s) THEN <<msg[Worker]>> ELSE << >>)
                              \o log_msg_queue],
  lines <- out,
  closed <- Destroyed
ImplementsLogPipe == Pipe!Spec

\* In either mode, and while the sinks are reconfigured, each message is offered
\* once to every sink, which writes it if and only if its settings of that very
\* moment accept it; internal_log_routine() returns when all were offered it.  The
\* decision, the write and the walk over the map look like single instants.
InRoutine(t) == pc[t] \in RoutePC
Routine == INSTANCE Delivery WITH
  takes <- [s \in Sinks |-> {m \in Message : s \in Present /\ Accepts(logger_sink_map[s], m)}],
  given <- handled \cup {msg[t] : t \in {u \in Threads : InRoutine(u)}},
  waiting <- [s \in Sinks |-> {msg[t] : t \in {u \in Threads : Carries(u, s)}}],
  lines <- out
ImplementsDelivery == Routine!Spec

\* In either mode a sink shows the messages of one thread in the order in which
\* that thread logged them, and none twice.
CallerOrder ==
  \A s \in Sinks : \A i, j \in DOMAIN out[s] :
    i < j /\ out[s][i].from = out[s][j].from => out[s][i].seq < out[s][j].seq

\* When internal_log_routine() has returned, the message is once in the output of
\* each sink whose settings accept it, and not at all in that of the others: a
\* sink that turns it down does not keep it from the sinks after it, and none is
\* visited twice or skipped.  Stated for applications that do not change settings
\* while they log.
DeliveredAsConfigured ==
  \A m \in handled, s \in Present :
    LET at == {i \in DOMAIN out[s] : out[s][i] = m} IN
    IF Accepts(logger_sink_map[s], m) THEN \E i \in DOMAIN out[s] : at = {i} ELSE at = {}

\* The n-th message of thread t went through internal_log_routine().
Handled(t, n) == \E m \in handled : m.from = t /\ m.seq = n

\* What a destructor that gave up waiting loses is the end of the log, never a
\* gap in it: a message of a thread is routed only after all its earlier ones.
NoGaps ==
  \A m \in handled : \A n \in 1 .. m.seq - 1 : Handled(m.from, n)

\* When the destructor has not given up waiting, every message that was logged
\* went to the sinks before the Logger is gone, the last one included, which
\* the background thread may still be writing when the queue is empty.
DrainedExit ==
  Destroyed /\ polls < MaxPolls =>
    \A t \in App : \A n \in 1 .. sent[t] :
      Handled(t, n) \/ (Async /\ pc[t] = "destroyed" /\ n = sent[t])

\* A thread that queue_empty() told TRUE, and that has not logged since, has at
\* most one message that is not yet written, the one in the Worker's hands.
EmptyQueueLeavesOne ==
  ~ Crashed => \A t \in saw_empty : \A n \in 1 .. sent[t] :
    Handled(t, n) \/ (msg[Worker].from = t /\ msg[Worker].seq = n /\ n = sent[t])
                  \/ pc[t] \in DtorPC

\* The destructor returns: the background thread always notices the stop flag,
\* whether it was blocked in pop(), busy with a message, or about to check.
DtorReturns == ~ alive ~> Destroyed

\* Every message that was logged goes to the sinks, unless the Logger is
\* destroyed before.
Unhandled(t, n) == t \in App /\ sent[t] >= n /\ ~ Handled(t, n)
EventuallyHandled ==
  \A t \in App : \A n \in 1 .. MaxMsgs : Unhandled(t, n) ~> (Handled(t, n) \/ Destroyed)

\* Every call returns, however the threads contend for the sinks.
CallsReturn == \A t \in App :
  pc[t] \in ConfPC \cup RoutePC \cup {"push"} ~> pc[t] = "idle"

-----------------------------------------------------------------------------
(* What the documentation says and the code does not keep.                 *)

\* examples/ealogger_bench.cpp takes an empty queue for "all messages are
\* written to the logfile".
EmptyQueueMeansWritten ==
  \A t \in saw_empty : \A n \in 1 .. sent[t] : Handled(t, n)
=============================================================================
