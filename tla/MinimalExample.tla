--------------------------- MODULE MinimalExample ----------------------------
(***************************************************************************)
(* The program of README.md, "Minimum Code example", on Logger: one thread *)
(* constructs a Logger, sets the console's minimum severity, logs five     *)
(* messages and destroys the Logger.                                       *)
(***************************************************************************)
EXTENDS Logger

VARIABLE
  statement          \* the statement that the thread comes to next

\* log->set_min_lvl(con::LOGGER_SINK::EAL_CONSOLE, con::LOG_LEVEL::EAL_INFO)
SetMinLvlCall ==
  [op |-> "set_min_lvl", sink |-> EAL_CONSOLE, enabled |-> FALSE, min_lvl |-> EAL_INFO]

\* log->eal_debug(), eal_info(), eal_warn(), eal_error(), eal_fatal()
Logged == <<EAL_DEBUG, EAL_INFO, EAL_WARNING, EAL_ERROR, EAL_FATAL>>

\* The thread comes to the next statement when the last has returned.
Statement(t) ==
  /\ \/ statement = 1 /\ ConfCall(t, SetMinLvlCall)
     \/ statement - 1 \in DOMAIN Logged /\ WriteLog(t, Logged[statement - 1])
     \/ statement = Len(Logged) + 2 /\ DtorStart(t)
  /\ statement' = statement + 1

\* What is inside the statements, and what the background thread does.
Proceed ==
  /\ \/ \E t \in App :
          Push(t) \/ ConfLock(t) \/ ConfApply(t) \/ Dtor(t)
     \/ \E t \in Threads : Route(t) \/ RouteLock(t)
     \/ CheckStop \/ Pop \/ Terminated
  /\ UNCHANGED statement

ExampleSpec ==
  /\ Init /\ statement = 1
  /\ [][Proceed \/ \E t \in App : Statement(t)]_<<vars, statement>>

\* README.md: "This will output" the lines of INFO, WARNING, ERROR and FATAL, and
\* "the DEBUG level message is not printed".  When set_min_lvl() has returned before
\* anything is logged, as here it has, the console shows the messages from that
\* severity on that have gone to the sinks, and no others.
ThisWillOutput ==
  \A m \in handled : m.lvl # EAL_INTERNAL =>
    ((\E i \in DOMAIN out[EAL_CONSOLE] : out[EAL_CONSOLE][i] = m) <=> m.lvl >= EAL_INFO)
=============================================================================
