---------------------------- MODULE SinkPromise -----------------------------
(***************************************************************************)
(* What the sinks behind one Logger promise: each call takes effect at one *)
(* instant.  A line is made of one template and one datetime pattern, both *)
(* in force when it is written, and only if the settings of that instant   *)
(* accept the message.  In asynchronous mode it shows the time of its      *)
(* message; in synchronous mode the code promises no more than some time.  *)
(***************************************************************************)
EXTENDS LogLine

CONSTANTS
  Sinks,             \* the keys of the sinks
  Messages           \* the messages of the application

VARIABLES
  async,             \* the mode of the Logger
  config,            \* the settings of each sink
  line               \* the last line written: its sink and its text

vars == <<async, config, line>>

NoLine == [sink |-> "none", text |-> << >>]

Init ==
  /\ async \in BOOLEAN
  /\ config \in [Sinks -> Config]
  /\ line = NoLine

\* One setting of one sink changes, or all of them when the sink is replaced.
Set(s) ==
  /\ config' \in [Sinks -> Config]
  /\ \A r \in Sinks \ {s} : config'[r] = config[r]
  /\ UNCHANGED <<async, line>>

Write(s, m) ==
  /\ Accepts(config[s], m)
  /\ \E text \in Lines(config[s], m, IF async THEN {m.time} ELSE Times) :
       line' = [sink |-> s, text |-> text]
  /\ UNCHANGED <<async, config>>

Next ==
  \E s \in Sinks :
    \/ Set(s)
    \/ \E m \in Messages : Write(s, m)

Spec == Init /\ [][Next]_vars
=============================================================================
