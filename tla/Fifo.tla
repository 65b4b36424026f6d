-------------------------------- MODULE Fifo --------------------------------
(***************************************************************************)
(* What ealogger::LogQueue promises to its callers: messages are handed    *)
(* over one at a time, in the order in which push() took effect, none      *)
(* lost and none handed over twice.  Each of push() and pop() takes effect *)
(* in one step.  LogQueue.tla shows that the mutex and the condition       *)
(* variable implement this; Logger.tla uses these two steps as its queue.  *)
(***************************************************************************)
EXTENDS Sequences

CONSTANT Message     \* the LogMessage objects that can be queued

VARIABLES
  queue,             \* LogQueue::msg_queue
  taken              \* history: what pop() has returned, in that order

Init ==
  /\ queue = << >>
  /\ taken = << >>

Push(m) ==
  /\ queue' = Append(queue, m)
  /\ UNCHANGED taken

\* pop() blocks while the queue is empty.
Pop ==
  /\ queue # << >>
  /\ taken' = Append(taken, Head(queue))
  /\ queue' = Tail(queue)

Next == Pop \/ \E m \in Message : Push(m)

Spec == Init /\ [][Next]_<<queue, taken>>

\* What the queue promises beyond safety as long as somebody calls pop(): a
\* message that is in the queue does not stay there.
FairSpec == Spec /\ WF_<<queue, taken>>(Pop)
=============================================================================
