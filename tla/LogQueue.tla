------------------------------ MODULE LogQueue ------------------------------
(***************************************************************************)
(* ealogger::LogQueue (logqueue.h, logqueue.cpp): a std::queue of messages *)
(* guarded by one mutex, with a condition variable that wakes a consumer.  *)
(*                                                                         *)
(* Pushers are the application's threads: they call push() and empty().    *)
(* Poppers call pop() in a loop; ealogger has one, the background thread   *)
(* of a Logger, but the class does not depend on it.                       *)
(*                                                                         *)
(* A call is cut where another thread can run: on entry, where the mutex   *)
(* is acquired, between the statements of the critical section, and where  *)
(* wait() gives the mutex up.                                              *)
(***************************************************************************)
EXTENDS Naturals, Sequences, FiniteSets

CONSTANTS
  Pushers,           \* threads that call push() and empty()
  Poppers,           \* threads that call pop()
  MaxPush,           \* bound: how often each pusher calls push()
  NoThread           \* the owner of an unlocked mutex

Threads == Pushers \cup Poppers

ASSUME ThreadsAssumption ==
  /\ IsFiniteSet(Threads)
  /\ Pushers \cap Poppers = {}
  /\ NoThread \notin Threads
  /\ MaxPush \in Nat

\* The n-th message that thread t pushes.
Message == [from : Pushers, seq : 1 .. MaxPush]

VARIABLES
  msg_queue,         \* std::queue<std::shared_ptr<LogMessage>> msg_queue
  mtx,               \* the owner of std::mutex mtx, or NoThread
  cond_var_queue,    \* threads blocked in cond_var_queue.wait()
  pc,                \* where each thread is in its call
  pushes,            \* how many calls of push() each pusher has begun
  answer,            \* the last answer of empty(), until the next push()
  popped             \* history: what pop() has returned, in that order

vars == <<msg_queue, mtx, cond_var_queue, pc, pushes, answer, popped>>

PushPC == {"push_lock", "push_enqueue", "push_notify"}
EmptyPC == {"empty_lock", "empty_read"}
PopPC == {"pop_lock", "pop_test", "pop_wait", "pop_take"}

Init ==
  /\ msg_queue = << >>
  /\ mtx = NoThread
  /\ cond_var_queue = {}
  /\ pc = [t \in Threads |-> "idle"]
  /\ pushes = [t \in Pushers |-> 0]
  /\ answer = [t \in Pushers |-> FALSE]
  /\ popped = << >>

\* The message that t is pushing.
Current(t) == [from |-> t, seq |-> pushes[t]]

Goto(t, place) == pc' = [pc EXCEPT ![t] = place]

\* std::lock_guard and std::unique_lock: t waits at from until mtx is free.
Acquire(t, from, to) ==
  /\ pc[t] = from
  /\ mtx = NoThread
  /\ mtx' = t
  /\ Goto(t, to)
  /\ UNCHANGED <<msg_queue, cond_var_queue, pushes, answer, popped>>

-----------------------------------------------------------------------------
(* void push(std::shared_ptr<LogMessage> m) *)

PushCall(t) ==
  /\ pc[t] = "idle"
  /\ pushes[t] < MaxPush
  /\ pushes' = [pushes EXCEPT ![t] = @ + 1]
  /\ answer' = [answer EXCEPT ![t] = FALSE]
  /\ Goto(t, "push_lock")
  /\ UNCHANGED <<msg_queue, mtx, cond_var_queue, popped>>

PushLock(t) == Acquire(t, "push_lock", "push_enqueue")

\* Mutant: the newest message goes to the front, as on a stack.
PushEnqueueAtFront(t) ==
  /\ pc[t] = "push_enqueue"
  /\ msg_queue' = <<Current(t)>> \o msg_queue
  /\ Goto(t, "push_notify")
  /\ UNCHANGED <<mtx, cond_var_queue, pushes, answer, popped>>

PushEnqueue(t) ==
  /\ pc[t] = "push_enqueue"
  /\ msg_queue' = Append(msg_queue, Current(t))
  /\ Goto(t, "push_notify")
  /\ UNCHANGED <<mtx, cond_var_queue, pushes, answer, popped>>

\* Mutant: push() does not notify.
PushNotifyNobody(t) ==
  /\ pc[t] = "push_notify"
  /\ mtx' = NoThread
  /\ Goto(t, "idle")
  /\ UNCHANGED <<msg_queue, cond_var_queue, pushes, answer, popped>>

\* notify_one() wakes one blocked thread, if there is one; it is called with
\* the mutex held, which the end of the scope releases.
PushNotify(t) ==
  /\ pc[t] = "push_notify"
  /\ \/ cond_var_queue = {} /\ UNCHANGED cond_var_queue
     \/ \E w \in cond_var_queue : cond_var_queue' = cond_var_queue \ {w}
  /\ mtx' = NoThread
  /\ Goto(t, "idle")
  /\ UNCHANGED <<msg_queue, pushes, answer, popped>>

-----------------------------------------------------------------------------
(* bool empty() *)

EmptyCall(t) ==
  /\ pc[t] = "idle"
  /\ Goto(t, "empty_lock")
  /\ UNCHANGED <<msg_queue, mtx, cond_var_queue, pushes, answer, popped>>

EmptyLock(t) == Acquire(t, "empty_lock", "empty_read")

\* Mutant: one message left counts as empty.
EmptyReadOffByOne(t) ==
  /\ pc[t] = "empty_read"
  /\ answer' = [answer EXCEPT ![t] = Len(msg_queue) <= 1]
  /\ mtx' = NoThread
  /\ Goto(t, "idle")
  /\ UNCHANGED <<msg_queue, cond_var_queue, pushes, popped>>

\* Mutant: empty() goes on as pop() does when there is a message.
EmptyReadTakes(t) ==
  /\ pc[t] = "empty_read"
  /\ Goto(t, IF msg_queue = << >> THEN "idle" ELSE "pop_take")
  /\ UNCHANGED <<msg_queue, mtx, cond_var_queue, pushes, answer, popped>>

EmptyRead(t) ==
  /\ pc[t] = "empty_read"
  /\ answer' = [answer EXCEPT ![t] = (msg_queue = << >>)]
  /\ mtx' = NoThread
  /\ Goto(t, "idle")
  /\ UNCHANGED <<msg_queue, cond_var_queue, pushes, popped>>

-----------------------------------------------------------------------------
(* std::shared_ptr<LogMessage> pop() *)

PopCall(t) ==
  /\ pc[t] = "idle"
  /\ Goto(t, "pop_lock")
  /\ UNCHANGED <<msg_queue, mtx, cond_var_queue, pushes, answer, popped>>

PopLock(t) == Acquire(t, "pop_lock", "pop_test")

\* Mutant: the thread sleeps with the mutex held.
PopTestKeepsMutex(t) ==
  /\ pc[t] = "pop_test"
  /\ \/ msg_queue # << >> /\ Goto(t, "pop_take") /\ UNCHANGED cond_var_queue
     \/ /\ msg_queue = << >>
        /\ Goto(t, "pop_wait")
        /\ cond_var_queue' = cond_var_queue \cup {t}
  /\ UNCHANGED <<msg_queue, mtx, pushes, answer, popped>>

\* wait(lock, pred) is while (!pred()) wait(lock): the thread either goes on
\* with the mutex or gives it up and blocks, in one step.
PopTest(t) ==
  /\ pc[t] = "pop_test"
  /\ \/ /\ msg_queue # << >>
        /\ Goto(t, "pop_take")
        /\ UNCHANGED <<mtx, cond_var_queue>>
     \/ /\ msg_queue = << >>
        /\ Goto(t, "pop_wait")
        /\ mtx' = NoThread
        /\ cond_var_queue' = cond_var_queue \cup {t}
  /\ UNCHANGED <<msg_queue, pushes, answer, popped>>

\* Mutant: if (!pred()) wait(lock), which trusts the wake-up.
PopWakeTrusting(t) ==
  /\ t \notin cond_var_queue
  /\ Acquire(t, "pop_wait", "pop_take")

\* A woken thread takes the mutex back before it tests the predicate again.
PopWake(t) ==
  /\ t \notin cond_var_queue
  /\ Acquire(t, "pop_wait", "pop_test")

\* Mutant: back() instead of front().
PopTakeBack(t) ==
  /\ pc[t] = "pop_take"
  /\ popped' = Append(popped, msg_queue[Len(msg_queue)])
  /\ msg_queue' = Tail(msg_queue)
  /\ mtx' = NoThread
  /\ Goto(t, "idle")
  /\ UNCHANGED <<cond_var_queue, pushes, answer>>

\* front(), pop(), and the release of the mutex on return.
PopTake(t) ==
  /\ pc[t] = "pop_take"
  /\ popped' = Append(popped, Head(msg_queue))
  /\ msg_queue' = Tail(msg_queue)
  /\ mtx' = NoThread
  /\ Goto(t, "idle")
  /\ UNCHANGED <<cond_var_queue, pushes, answer>>

\* A condition variable may wake a thread that nobody notified.
SpuriousWake(t) ==
  /\ t \in cond_var_queue
  /\ cond_var_queue' = cond_var_queue \ {t}
  /\ UNCHANGED <<msg_queue, mtx, pc, pushes, answer, popped>>

-----------------------------------------------------------------------------
Pusher(t) ==
  \/ PushCall(t) \/ PushLock(t) \/ PushEnqueue(t) \/ PushNotify(t)
  \/ EmptyCall(t) \/ EmptyLock(t) \/ EmptyRead(t)

Popper(t) ==
  \/ PopCall(t) \/ PopLock(t) \/ PopTest(t) \/ PopWake(t) \/ PopTake(t)
  \/ SpuriousWake(t)

Next == (\E t \in Pushers : Pusher(t)) \/ (\E t \in Poppers : Popper(t))

Spec == Init /\ [][Next]_vars

\* A thread inside a call keeps running (weak fairness), and one that waits
\* for the mutex gets it if it is released again and again (strong fairness:
\* a critical section is a few instructions, so no thread can hold the mutex
\* away from another forever).  Poppers always call pop() again, as
\* Logger::thread_entry_point does.  Nobody has to call push() or empty(),
\* and no wake-up is spurious of necessity.
Fairness ==
  /\ \A t \in Pushers :
       /\ SF_vars(PushLock(t)) /\ WF_vars(PushEnqueue(t) \/ PushNotify(t))
       /\ SF_vars(EmptyLock(t)) /\ WF_vars(EmptyRead(t))
  /\ \A t \in Poppers :
       /\ WF_vars(PopCall(t)) /\ SF_vars(PopLock(t)) /\ SF_vars(PopWake(t))
       /\ WF_vars(PopTest(t) \/ PopTake(t))

FairSpec == Spec /\ Fairness

-----------------------------------------------------------------------------
TypeOK ==
  /\ msg_queue \in Seq(Message)
  /\ mtx \in Threads \cup {NoThread}
  /\ cond_var_queue \in SUBSET Poppers
  /\ pc \in [Threads -> {"idle"} \cup PushPC \cup EmptyPC \cup PopPC]
  /\ \A t \in Pushers : pc[t] \in {"idle"} \cup PushPC \cup EmptyPC
  /\ \A t \in Poppers : pc[t] \in {"idle"} \cup PopPC
  /\ pushes \in [Pushers -> 0 .. MaxPush]
  /\ answer \in [Pushers -> BOOLEAN]
  /\ popped \in Seq(Message)

\* Where a thread owns the mutex.
CriticalPC == {"push_enqueue", "push_notify", "empty_read", "pop_test", "pop_take"}

\* The mutex is held by exactly the thread that is inside a critical section,
\* over every exit of every call, wait() included: a path of push(), pop() or
\* empty() that kept it or gave it up early would show here.
MutexDiscipline == \A t \in Threads : pc[t] \in CriticalPC <=> mtx = t

\* pop() never takes the front of an empty std::queue, which would be undefined
\* behaviour, however many consumers were woken, notified or not.
PopHasMessage == \A t \in Threads : pc[t] = "pop_take" => msg_queue # << >>

\* Consumers of pop() that are awake, and pushers that still have to notify.
Awake == {t \in Poppers : pc[t] \in PopPC /\ t \notin cond_var_queue}
Notifying == {t \in Pushers : pc[t] = "push_notify"}

\* No wake-up is lost: while a consumer sleeps in wait(), every message in the
\* queue has a consumer that is awake to take it or a pusher about to wake one.
\* Otherwise a message would stay in the queue while a consumer sleeps.
NoLostWakeup ==
  cond_var_queue # {} =>
    Len(msg_queue) <= Cardinality(Awake) + Cardinality(Notifying)

\* Every message that entered the queue, popped or not, in order of entry.
Entered == popped \o msg_queue

\* The messages of t whose push() has put them into the queue.
EnteredBy(t) ==
  1 .. (IF pc[t] \in {"push_lock", "push_enqueue"} THEN pushes[t] - 1 ELSE pushes[t])

\* Every message whose push() has run is in the queue or was popped, exactly
\* once, and the messages of one thread keep the order in which it pushed them.
ExactlyOnceInOrder ==
  /\ \A i, j \in DOMAIN Entered :
       i < j /\ Entered[i].from = Entered[j].from => Entered[i].seq < Entered[j].seq
  /\ \A t \in Pushers : \A n \in EnteredBy(t) :
       \E i \in DOMAIN Entered : Entered[i] = [from |-> t, seq |-> n]
  /\ \A i \in DOMAIN Entered : Entered[i].seq \in EnteredBy(Entered[i].from)

\* A thread that was told the queue is empty, and has not pushed since, knows
\* that pop() has returned all its messages: what the destructor of Logger and
\* the examples poll empty() for.
EmptyMeansPopped ==
  \A t \in Pushers : answer[t] =>
    \A n \in 1 .. pushes[t] :
      \E i \in DOMAIN popped : popped[i] = [from |-> t, seq |-> n]

\* The monitor built of mutex and condition variable implements the abstract
\* queue, its promise of progress included.
Queue == INSTANCE Fifo WITH queue <- msg_queue, taken <- popped
ImplementsFifo == Queue!FairSpec
=============================================================================
