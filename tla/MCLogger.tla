------------------------------ MODULE MCLogger ------------------------------
(* Logger with small sets of threads, sinks, severities and calls for TLC. *)
EXTENDS Logger, TLC

CallOf(op, s, e, l) == [op |-> op, sink |-> s, enabled |-> e, min_lvl |-> l]

\* The console and the file: two keys of the map, in its order.
TwoSinks == {EAL_CONSOLE, EAL_FILE_SIMPLE}

\* A severity below a sink's minimum of WARNING; a stack trace, which no minimum
\* keeps out.
InfoStack == {EAL_INFO, EAL_STACK}
InfoOnly == {EAL_INFO}

\* The console from WARNING on, or disabled; the file with everything, or with
\* nothing but stack traces, or discarded again.
SetUp ==
  { CallOf("init_sink", EAL_CONSOLE, TRUE, EAL_WARNING),
    CallOf("init_sink", EAL_CONSOLE, FALSE, EAL_DEBUG),
    CallOf("init_sink", EAL_FILE_SIMPLE, TRUE, EAL_DEBUG),
    CallOf("init_sink", EAL_FILE_SIMPLE, TRUE, EAL_INTERNAL),
    CallOf("discard_sink", EAL_FILE_SIMPLE, FALSE, EAL_DEBUG) }

InitOnly ==
  { CallOf("init_sink", EAL_CONSOLE, TRUE, EAL_DEBUG),
    CallOf("init_sink", EAL_FILE_SIMPLE, TRUE, EAL_DEBUG) }

\* The sinks are set up, and one of them gets a new format while others log.
SetUpFormat == SetUp \cup { CallOf("set_format", EAL_CONSOLE, FALSE, EAL_DEBUG) }

\* The console is switched off, and on again by a new sink where that is allowed.
SwitchOff == InitOnly \cup { CallOf("set_enabled", EAL_CONSOLE, FALSE, EAL_DEBUG) }
SwitchOffAsk ==
  SwitchOff \cup { CallOf("is_initialized", EAL_CONSOLE, FALSE, EAL_DEBUG) }

\* The console comes and goes, and is raised to WARNING, while others log.
OneSink == {EAL_CONSOLE}
HotCalls ==
  { CallOf("init_sink", EAL_CONSOLE, TRUE, EAL_DEBUG),
    CallOf("discard_sink", EAL_CONSOLE, FALSE, EAL_DEBUG),
    CallOf("set_min_lvl", EAL_CONSOLE, FALSE, EAL_WARNING) }

DiscardOnly ==
  { CallOf("init_sink", EAL_CONSOLE, TRUE, EAL_DEBUG),
    CallOf("discard_sink", EAL_CONSOLE, FALSE, EAL_DEBUG) }

Symmetry == Permutations(App)
=============================================================================
