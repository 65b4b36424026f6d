------------------------------ MODULE Delivery ------------------------------
(***************************************************************************)
(* What ealogger::Logger::internal_log_routine() promises, whoever runs it *)
(* and whatever is configured meanwhile: a message is offered once to each *)
(* sink, each time at one instant, and the sink writes it if and only if   *)
(* its settings of that instant accept it.  When the routine returns, no   *)
(* sink is left out.  Nothing here says how a walk over a map and a mutex  *)
(* for each sink do that.                                                  *)
(***************************************************************************)
EXTENDS Sequences

CONSTANTS
  Sinks,             \* the keys of the sinks
  Message            \* the messages

VARIABLES
  takes,             \* the messages that each sink would write now
  given,             \* the messages that were given to the routine
  waiting,           \* those that each sink has yet to be offered
  handled,           \* those that the routine is done with
  lines              \* what each sink has written

vars == <<takes, given, waiting, handled, lines>>

Init ==
  /\ takes = [s \in Sinks |-> {}]
  /\ given = {}
  /\ waiting = [s \in Sinks |-> {}]
  /\ handled = {}
  /\ lines = [s \in Sinks |-> << >>]

\* Sinks are added, discarded, or given other settings.
Configure ==
  /\ takes' \in [Sinks -> SUBSET Message]
  /\ UNCHANGED <<given, waiting, handled, lines>>

\* The routine is called with a message that it never had before.
Give(m) ==
  /\ m \notin given
  /\ given' = given \cup {m}
  /\ waiting' = [s \in Sinks |-> waiting[s] \cup {m}]
  /\ UNCHANGED <<takes, handled, lines>>

\* The sinks in S are offered m, and the routine may return after the last sink.
Offer(m, S) ==
  /\ m \in given \ handled
  /\ \A s \in S : m \in waiting[s]
  /\ waiting' = [s \in Sinks |-> IF s \in S THEN waiting[s] \ {m} ELSE waiting[s]]
  /\ lines' = [s \in Sinks |-> IF s \in S /\ m \in takes[s] THEN Append(lines[s], m)
                               ELSE lines[s]]
  /\ \/ UNCHANGED handled
     \/ handled' = handled \cup {m} /\ \A s \in Sinks : m \notin waiting'[s]
  /\ UNCHANGED <<takes, given>>

Next ==
  \/ Configure
  \/ \E m \in Message : Give(m)
  \/ \E m \in given, S \in SUBSET Sinks : Offer(m, S)

Spec == Init /\ [][Next]_vars
=============================================================================
