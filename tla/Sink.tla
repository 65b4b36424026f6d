-------------------------------- MODULE Sink --------------------------------
(***************************************************************************)
(* ealogger::Sink (sink.h, sink.cpp), the base class of all sinks, as      *)
(* Logger uses it: every call is made with Logger's mutex for that sink    *)
(* held.  Inside, a sink locks five mutexes of its own, three of them      *)
(* around other statements or in pairs; mtx_enabled and mtx_min_lvl        *)
(* protect one read or one write and are never seen locked.  localtime()   *)
(* gives all threads, whatever sink they are in, the same struct.          *)
(***************************************************************************)
EXTENDS LogLine

CONSTANTS
  App,               \* the application's threads
  Worker,            \* logger_thread
  NoThread,          \* the owner of an unlocked mutex
  Sinks,             \* the keys of the sinks
  Modes,             \* the modes to consider: a set of values of async
  Configs,           \* the settings that sinks are constructed with
  Calls,             \* the calls that are made
  Templates,         \* templates, texts and paths on which what a line is made by
  Texts,             \* is compared with what it is made for
  Paths

Threads == App \cup {Worker}

\* A call: its method, its sink, and its argument, a setting or a message.
Ops == {"init_sink", "set_msg_template", "set_datetime_pattern", "set_enabled",
        "set_min_lvl", "prepare_log_message"}
Call == [op : Ops, sink : Sinks, config : Config, message : Message]

\* A Sink object: its settings and the specifiers it replaces.
Object == [msg_template : Text, datetime_pattern : Text, enabled : BOOLEAN,
           min_lvl : LOG_LEVEL, vec_conv_patterns : SUBSET Range(Specifiers)]

ASSUME SinkAssumption ==
  /\ Worker \notin App
  /\ NoThread \notin Threads
  /\ Modes \subseteq BOOLEAN
  /\ Configs \subseteq Config
  /\ Calls \subseteq Call

ASSUME InputsAssumption ==
  /\ Templates \subseteq Text
  /\ Texts \subseteq Text
  /\ Paths \subseteq Text /\ \A path \in Paths : Len(path) < SIZE

VARIABLES
  async,             \* Logger::async_logging
  sink,              \* the settings of each sink and its vec_conv_patterns
  logger_mutex,      \* the owner of each sink's mutex in logger_mutex_map
  mtx,               \* the owners of each sink's own mutexes
  timeinfo,          \* the struct that localtime() returns
  pc,                \* where each thread is
  call,              \* the call each thread is in
  msg,               \* the string msg of each thread's prepare_log_message()
  line               \* history: the last line handed to a write_message()

vars == <<async, sink, logger_mutex, mtx, timeinfo, pc, call, msg, line>>

Settings(s) == [msg_template |-> sink[s].msg_template,
                datetime_pattern |-> sink[s].datetime_pattern,
                enabled |-> sink[s].enabled, min_lvl |-> sink[s].min_lvl]

Promise == INSTANCE SinkPromise WITH
  config <- [s \in Sinks |-> Settings(s)], Messages <- {c.message : c \in Calls}

NoCall == [op |-> "none"]

\* The constructor with its fill_conv_patterns(true), on an object nobody else
\* knows yet.
New(config) ==
  [msg_template |-> config.msg_template, datetime_pattern |-> config.datetime_pattern,
   enabled |-> config.enabled, min_lvl |-> config.min_lvl,
   vec_conv_patterns |-> ConvPatterns(config.msg_template)]

\* The mutexes of a sink that are seen locked.
Mutexes == {"msg_template", "datetime_pattern", "conv_pattern"}
Unlocked == [k \in Mutexes |-> NoThread]

Init ==
  /\ async \in Modes
  /\ sink \in [Sinks -> {New(config) : config \in Configs}]
  /\ logger_mutex = [s \in Sinks |-> NoThread]
  /\ mtx = [s \in Sinks |-> Unlocked]
  /\ timeinfo \in Times
  /\ pc = [t \in Threads |-> "idle"]
  /\ call = [t \in Threads |-> NoCall]
  /\ msg = [t \in Threads |-> << >>]
  /\ line = Promise!NoLine

-----------------------------------------------------------------------------
(* The places of a call and the mutex that its next statement locks.       *)

\* Mutant: set_msg_template() calls fill_conv_patterns(true).
LocksTwice ==
  [set_msg_template |-> {"msg_template"},
   fill_conv_patterns |-> {"conv_pattern", "msg_template"},
   set_datetime_pattern |-> {"datetime_pattern"},
   prep_template |-> {"msg_template"},
   prep_patterns |-> {"conv_pattern"},
   prep_localtime |-> {"datetime_pattern"}]

\* fill_conv_patterns(false) does not lock the template's mutex, its caller has.
Locks ==
  [set_msg_template |-> {"msg_template"},
   fill_conv_patterns |-> {"conv_pattern"},
   set_datetime_pattern |-> {"datetime_pattern"},
   prep_template |-> {"msg_template"},
   prep_patterns |-> {"conv_pattern"},
   prep_localtime |-> {"datetime_pattern"}]

\* The mutexes of the sink that t could lock now.
Here(t) == call[t].sink
CanLock(t) ==
  pc[t] \in DOMAIN Locks => \A k \in Locks[pc[t]] : mtx[Here(t)][k] = NoThread

At(t, place) == pc[t] = place /\ CanLock(t)
Goto(t, place) == pc' = [pc EXCEPT ![t] = place] /\ UNCHANGED <<logger_mutex, call>>

\* Mutant: the string is a member of the sink, not a local variable.
ReturnKeeping(t) ==
  /\ pc' = [pc EXCEPT ![t] = "idle"]
  /\ call' = [call EXCEPT ![t] = NoCall]
  /\ UNCHANGED msg
  /\ logger_mutex' = [logger_mutex EXCEPT ![Here(t)] = NoThread]

\* The call returns to Logger, whose lock_guard releases the mutex.
Return(t) ==
  /\ pc' = [pc EXCEPT ![t] = "idle"]
  /\ call' = [call EXCEPT ![t] = NoCall]
  /\ msg' = [msg EXCEPT ![t] = << >>]
  /\ logger_mutex' = [logger_mutex EXCEPT ![Here(t)] = NoThread]

\* In asynchronous mode the Worker alone delivers messages to the sinks.
Enter(t, c) ==
  /\ pc[t] = "idle"
  /\ IF c.op = "prepare_log_message" THEN (t = Worker) = async ELSE t # Worker
  /\ pc' = [pc EXCEPT ![t] = "lock"]
  /\ call' = [call EXCEPT ![t] = c]
  /\ UNCHANGED <<async, sink, logger_mutex, mtx, timeinfo, msg, line>>

\* Mutant: Logger calls the sink without a lock_guard, as if its own mutexes
\* were enough.
LockSinkNot(t) ==
  /\ pc[t] = "lock"
  /\ pc' = [pc EXCEPT ![t] = call[t].op]
  /\ UNCHANGED <<async, sink, logger_mutex, mtx, timeinfo, call, msg, line>>

LockSink(t) ==
  /\ pc[t] = "lock"
  /\ logger_mutex[Here(t)] = NoThread
  /\ logger_mutex' = [logger_mutex EXCEPT ![Here(t)] = t]
  /\ pc' = [pc EXCEPT ![t] = call[t].op]
  /\ UNCHANGED <<async, sink, mtx, timeinfo, call, msg, line>>

-----------------------------------------------------------------------------
(* The calls that configure a sink.                                        *)

\* The template is set, and its mutex stays locked ...
SetMsgTemplate(t) ==
  /\ At(t, "set_msg_template")
  /\ sink' = [sink EXCEPT ![Here(t)].msg_template = call[t].config.msg_template]
  /\ mtx' = [mtx EXCEPT ![Here(t)]["msg_template"] = t]
  /\ Goto(t, "fill_conv_patterns")
  /\ UNCHANGED <<async, timeinfo, msg, line>>

\* ... until the vector is filled.
FillConvPatterns(t) ==
  /\ At(t, "fill_conv_patterns")
  /\ sink' = [sink EXCEPT ![Here(t)].vec_conv_patterns =
                ConvPatterns(sink[Here(t)].msg_template)]
  /\ mtx' = [mtx EXCEPT ![Here(t)]["msg_template"] = NoThread]
  /\ Return(t)
  /\ UNCHANGED <<async, timeinfo, line>>

\* The calls of one statement leave the sink as new.
Configure(t, op, new, mutexes) ==
  /\ At(t, op)
  /\ sink' = [sink EXCEPT ![Here(t)] = new]
  /\ mtx' = [mtx EXCEPT ![Here(t)] = mutexes]
  /\ Return(t)
  /\ UNCHANGED <<async, timeinfo, line>>

\* logger_sink_map[key] = make_shared<...>: another object, with new mutexes.
InitSink(t) == Configure(t, "init_sink", New(call[t].config), Unlocked)

SetDatetimePattern(t) ==
  Configure(t, "set_datetime_pattern",
    [sink[Here(t)] EXCEPT !.datetime_pattern = call[t].config.datetime_pattern],
    mtx[Here(t)])

\* SinkConsole::config_changed() does nothing; that of SinkFile is in SinkFile.
SetEnabled(t) ==
  Configure(t, "set_enabled",
    [sink[Here(t)] EXCEPT !.enabled = call[t].config.enabled], mtx[Here(t)])

SetMinLvl(t) ==
  Configure(t, "set_min_lvl",
    [sink[Here(t)] EXCEPT !.min_lvl = call[t].config.min_lvl], mtx[Here(t)])

-----------------------------------------------------------------------------
(* void prepare_log_message(const std::shared_ptr<LogMessage> &)           *)

PrepEnabled(t) ==
  /\ At(t, "prepare_log_message")
  /\ IF sink[Here(t)].enabled THEN Goto(t, "prep_min_lvl") /\ UNCHANGED msg
     ELSE Return(t)
  /\ UNCHANGED <<async, sink, mtx, timeinfo, line>>

PrepMinLvl(t) ==
  /\ At(t, "prep_min_lvl")
  /\ IF ~ SevereEnough(sink[Here(t)].min_lvl, call[t].message) THEN Return(t)
     ELSE /\ Goto(t, IF call[t].message.lvl = EAL_STACK THEN "prep_stack"
                                                        ELSE "prep_template")
          /\ UNCHANGED msg
  /\ UNCHANGED <<async, sink, mtx, timeinfo, line>>

PrepStack(t) ==
  /\ At(t, "prep_stack")
  /\ msg' = [msg EXCEPT ![t] = call[t].message.info["m"]]
  /\ Goto(t, "prep_write")
  /\ UNCHANGED <<async, sink, mtx, timeinfo, line>>

\* The template is copied; its mutex is free again before the next is locked.
PrepTemplate(t) ==
  /\ At(t, "prep_template")
  /\ msg' = [msg EXCEPT ![t] = sink[Here(t)].msg_template]
  /\ Goto(t, "prep_patterns")
  /\ UNCHANGED <<async, sink, mtx, timeinfo, line>>

\* mtx_conv_pattern is locked until the end of the loop over the vector, in
\* which %d comes first.
PrepPatterns(t) ==
  /\ At(t, "prep_patterns")
  /\ mtx' = [mtx EXCEPT ![Here(t)]["conv_pattern"] = t]
  /\ Goto(t, IF "d" \in sink[Here(t)].vec_conv_patterns THEN "prep_localtime"
                                                         ELSE "prep_substitute")
  /\ UNCHANGED <<async, sink, timeinfo, msg, line>>

PrepLocaltime(t) ==
  /\ At(t, "prep_localtime")
  /\ mtx' = [mtx EXCEPT ![Here(t)]["datetime_pattern"] = t]
  /\ timeinfo' = call[t].message.time
  /\ Goto(t, "prep_strftime")
  /\ UNCHANGED <<async, sink, msg, line>>

\* What strftime() reads: what the last localtime() of any thread left there, or
\* anything while another thread is about to write there.
Readable(t) ==
  IF \E u \in Threads \ {t} : pc[u] = "prep_localtime" THEN Times ELSE {timeinfo}

PrepStrftime(t) ==
  /\ At(t, "prep_strftime")
  /\ \E time \in Readable(t) :
       \E text \in FormatTime(time, sink[Here(t)].datetime_pattern, Garbage) :
         msg' = [msg EXCEPT ![t] = Replaced(@, "d", text)]
  /\ mtx' = [mtx EXCEPT ![Here(t)]["datetime_pattern"] = NoThread]
  /\ Goto(t, "prep_substitute")
  /\ UNCHANGED <<async, sink, timeinfo, line>>

PrepSubstitute(t) ==
  /\ At(t, "prep_substitute")
  /\ msg' = [msg EXCEPT ![t] =
               Substitute(sink[Here(t)].vec_conv_patterns, @, Value(call[t].message))]
  /\ mtx' = [mtx EXCEPT ![Here(t)]["conv_pattern"] = NoThread]
  /\ Goto(t, "prep_write")
  /\ UNCHANGED <<async, sink, timeinfo, line>>

\* write_message()
PrepWrite(t) ==
  /\ At(t, "prep_write")
  /\ line' = [sink |-> Here(t), text |-> msg[t]]
  /\ Return(t)
  /\ UNCHANGED <<async, sink, mtx, timeinfo>>

Configuring(t) ==
  \/ SetMsgTemplate(t) \/ FillConvPatterns(t) \/ InitSink(t)
  \/ SetDatetimePattern(t) \/ SetEnabled(t) \/ SetMinLvl(t)

Preparing(t) ==
  \/ PrepEnabled(t) \/ PrepMinLvl(t) \/ PrepStack(t) \/ PrepTemplate(t)
  \/ PrepPatterns(t) \/ PrepLocaltime(t) \/ PrepStrftime(t)
  \/ PrepSubstitute(t) \/ PrepWrite(t)

Next ==
  \E t \in Threads :
    \/ \E c \in Calls : Enter(t, c)
    \/ LockSink(t) \/ Configuring(t) \/ Preparing(t)

Spec == Init /\ [][Next]_vars

-----------------------------------------------------------------------------
(* Properties.                                                             *)

PrepPC == {"prepare_log_message", "prep_min_lvl", "prep_stack", "prep_template",
           "prep_patterns", "prep_localtime", "prep_strftime", "prep_substitute",
           "prep_write"}

\* What of the state's type does not need to know what the strings hold.
Shape ==
  /\ async \in BOOLEAN
  /\ sink \in [Sinks -> Object]
  /\ logger_mutex \in [Sinks -> Threads \cup {NoThread}]
  /\ mtx \in [Sinks -> [Mutexes -> Threads \cup {NoThread}]]
  /\ timeinfo \in Times
  /\ pc \in [Threads -> {"idle", "lock", "fill_conv_patterns"} \cup Ops \cup PrepPC]
  /\ call \in [Threads -> Calls \cup {NoCall}]
  /\ DOMAIN msg = Threads
  /\ \A t \in Threads :
       /\ pc[t] = "idle" <=> call[t] = NoCall
       /\ pc[t] \notin PrepPC => msg[t] = << >>

TypeOK ==
  /\ Shape
  /\ msg \in [Threads -> Text]
  /\ line.sink \in Sinks \cup {Promise!NoLine.sink}
  /\ line.text \in Text

Inside(t) == pc[t] \notin {"idle", "lock"}

\* A thread inside a sink never waits: neither for another thread, nor for itself,
\* although set_msg_template() calls fill_conv_patterns() with the template's mutex
\* locked.  So no call can wait for ever for Logger's mutex either.
NeverBlockedInside == \A t \in Threads : Inside(t) => CanLock(t)

\* A thread that has copied the template and then takes the vector of patterns, with
\* the template's mutex free in between, finds the patterns of its own copy, and they
\* stay the sink's as long as the time takes: no set_msg_template() and no new sink
\* comes between, and none is halfway through.
PatternsFit ==
  \A t \in Threads : pc[t] \in {"prep_patterns", "prep_localtime", "prep_strftime"} =>
    /\ msg[t] = sink[Here(t)].msg_template
    /\ sink[Here(t)].vec_conv_patterns = ConvPatterns(msg[t])

\* The substitution on every template, with every text as the message and as the
\* formatted time: one specifier after the other is as good as all at once, unless
\* a value or a stray % makes a specifier whose turn is still to come.  Templates
\* with %t are left out: the code has nothing to put in.  This is about functions,
\* not states, so it is enough to look where the sinks are new.
SubstitutedAtOnce ==
  Init =>
    \A template \in Templates, text, datetime \in Texts :
      SubstitutesAtOnce(template, datetime,
        [c \in {"f", "F", "l", "u", "h", "m", "s"} |-> IF c = "m" THEN text ELSE Host])

\* get_file_name() on every path, again where the sinks are new.
FileNamesRight == Init => \A path \in Paths : IsLastElement(path, FileName(path))

\* All the steps of all calls of all threads look, from outside, as if each call
\* took effect at one instant: a line is made of the settings of one moment and
\* of its own message, and only if they accept it.
ImplementsSinkPromise == Promise!Spec
=============================================================================
