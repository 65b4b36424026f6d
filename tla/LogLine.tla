------------------------------- MODULE LogLine -------------------------------
(***************************************************************************)
(* What a sink makes of a message: whether it writes it, and which line,   *)
(* as a function of the sink's settings and of what localtime() says.      *)
(***************************************************************************)
EXTENDS Utility, ConversionPattern

CONSTANTS
  Char,              \* the characters; a time or a severity is one as well
  Times,             \* the times of messages, and torn mixtures of them
  Host,              \* what get_hostname() returns
  Garbage            \* what a character buffer may hold that nobody filled

\* A text is a sequence of characters.
Text == Seq(Char)

\* enum class LOG_LEVEL and loglevel_lookup
EAL_STACK == 5
EAL_INTERNAL == 6
LOG_LEVEL == 0 .. EAL_INTERNAL
loglevel_lookup ==
  [l \in LOG_LEVEL |-> <<(<<"DEBUG", "INFO", "WARNING", "ERROR", "FATAL",
                            "Stacktrace", "INTERNAL">>)[l + 1]>>]

ASSUME TextAssumption ==
  /\ Times \subseteq Char
  /\ Host \in Text
  /\ Garbage \subseteq Text /\ Garbage # {}
  /\ \A l \in LOG_LEVEL : loglevel_lookup[l] \in Text

\* A LogMessage: its severity, its time, and the texts that %F, %l, %u and %m
\* stand for.  Its log type is STACK if and only if its severity is EAL_STACK;
\* then the text of %m is the stack trace.
Message == [lvl : LOG_LEVEL, time : Times, info : [{"F", "l", "u", "m"} -> Text]]

\* The settings of a sink.
Config == [msg_template : Text, datetime_pattern : Text, enabled : BOOLEAN,
           min_lvl : LOG_LEVEL]

\* What is put in for the specifiers other than %d.
Value(m) ==
  [c \in {"f", "F", "l", "u", "h", "m", "s"} |->
     IF c = "f" THEN FileName(m.info["F"])
     ELSE IF c = "h" THEN Host
     ELSE IF c = "s" THEN loglevel_lookup[m.lvl]
     ELSE m.info[c]]

\* The severity check of prepare_log_message().  sink.cpp includes no header
\* that defines EALOGGER_PRINT_INTERNAL.
SevereEnough(min_lvl, m) ==
  (m.lvl >= min_lvl \/ m.lvl = EAL_STACK) /\ m.lvl # EAL_INTERNAL

Accepts(config, m) == config.enabled /\ SevereEnough(config.min_lvl, m)

\* The lines that a sink may write for m when the time it formats is one of T.
Lines(config, m, T) ==
  IF m.lvl = EAL_STACK THEN {m.info["m"]}
  ELSE {Render(ConvPatterns(config.msg_template), config.msg_template, datetime, Value(m)) :
          datetime \in UNION {FormatTime(time, config.datetime_pattern, Garbage) : time \in T}}
=============================================================================
