------------------------------- MODULE MCSink --------------------------------
(* Sink with small sets of threads, sinks, settings and messages for TLC. *)
EXTENDS Sink

TwoSinks == {"console", "file"}
AnyMode == BOOLEAN

AnyString == STRING
TwoTimes == {"1", "2"}
HostName == <<"h">>
\* An uninitialised buffer may hold a specifier.
Leftovers == {<<"?">>, <<"%", "m">>}

Info(text) == [F |-> <<"/", "x">>, l |-> <<"7">>, u |-> <<"g">>, m |-> text]
\* INFO with a specifier in its text; ERROR; a stack trace.
Tricky == [lvl |-> 1, time |-> "1", info |-> Info(<<"5", "%", "s">>)]
Severe == [lvl |-> 3, time |-> "2", info |-> Info(<<"b">>)]
Stack == [lvl |-> EAL_STACK, time |-> "2", info |-> Info(<<"S">>)]

Dated == <<"%", "d", "%", "m">>
Full == <<"%", "%", "t", "%", "f", "%", "s", "%", "s">>

\* The time alone, and a pattern whose result does not fit into the buffer.
Short == <<"T">>
Long == [i \in 1 .. BufferSize |-> "T"]

Setting(template, pattern, on, lvl) ==
  [msg_template |-> template, datetime_pattern |-> pattern, enabled |-> on, min_lvl |-> lvl]
Default == Setting(Dated, Short, TRUE, 0)
Constructed == {Default}

CallOf(op, s, config, m) == [op |-> op, sink |-> s, config |-> config, message |-> m]

FewCalls ==
  { CallOf("prepare_log_message", "console", Default, m) : m \in {Tricky, Severe, Stack} }
  \cup { CallOf("prepare_log_message", "file", Default, Severe) }
  \cup { CallOf("set_msg_template", "console", Setting(template, Short, TRUE, 0), Severe) :
           template \in {Dated, Full} }
  \cup { CallOf("set_datetime_pattern", "console", Setting(Dated, Long, TRUE, 0), Severe),
         CallOf("set_enabled", "console", Setting(Dated, Short, FALSE, 0), Severe),
         CallOf("set_min_lvl", "console", Setting(Dated, Short, TRUE, 2), Severe),
         CallOf("init_sink", "console", Default, Severe) }

\* Templates in which specifiers follow each other, stand alone, are repeated, or
\* are not known.
ShortTemplates ==
  UNION {[1 .. n -> {"%", "d", "m", "s", "t"}] : n \in 0 .. 4}
  \cup {<<"%", "s", "%", "m", "-", "%", "s">>, Full}
\* Nothing; a letter that a stray % waits for; texts that make a specifier with what
\* follows; specifiers that are looked for before, with or after that of the text.
ShortTexts == {<< >>, <<"s">>, <<"%">>, <<"%", "d">>, <<"%", "s">>, <<"d", "%", "m">>}
ShortPaths == UNION {[1 .. n -> {"/", "\\", "x"}] : n \in 0 .. 4}
=============================================================================
