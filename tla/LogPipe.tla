------------------------------ MODULE LogPipe -------------------------------
(***************************************************************************)
(* What an asynchronous ealogger::Logger promises: one pipe per sink.      *)
(* write_log() puts the message at the end of every pipe; each pipe hands  *)
(* its messages over in that order, and its sink writes each one or turns  *)
(* it down.  Whatever is in the pipes when the Logger is destroyed is      *)
(* lost.  Nothing here says how threads, locks and the map do that.        *)
(***************************************************************************)
EXTENDS Sequences

CONSTANTS
  Sinks,             \* the keys of the sinks
  Message            \* the messages

VARIABLES
  pending,           \* the messages on their way to each sink
  lines,             \* what each sink has written
  closed             \* the Logger is destroyed

vars == <<pending, lines, closed>>

Init ==
  /\ pending = [s \in Sinks |-> << >>]
  /\ lines = [s \in Sinks |-> << >>]
  /\ closed = FALSE

Submit(m) ==
  /\ ~ closed
  /\ pending' = [s \in Sinks |-> Append(pending[s], m)]
  /\ UNCHANGED <<lines, closed>>

\* The next message of each sink in S leaves its pipe; those in W write it.
PassOn(S, W) ==
  /\ ~ closed
  /\ \A s \in S : pending[s] # << >>
  /\ pending' = [s \in Sinks |-> IF s \in S THEN Tail(pending[s]) ELSE pending[s]]
  /\ lines' = [s \in Sinks |-> IF s \in W THEN Append(lines[s], Head(pending[s]))
                               ELSE lines[s]]
  /\ UNCHANGED closed

Close ==
  /\ ~ closed
  /\ closed' = TRUE
  /\ UNCHANGED <<pending, lines>>

Next ==
  \/ \E m \in Message : Submit(m)
  \/ \E S \in SUBSET Sinks : \E W \in SUBSET S : PassOn(S, W)
  \/ Close

Spec == Init /\ [][Next]_vars
=============================================================================
