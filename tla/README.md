# ealogger in TLA+

ealogger is a C++11 logging library. The threads of an application call one
`Logger`. In asynchronous mode (the default) a message goes through a queue to
one background thread; in synchronous mode the caller does that thread's work
itself. Either way the message is offered in turn to every *sink* (console,
file, syslog), which filters it, formats it and writes it.

This directory models the part of the library that is hard to test: the queue's
mutex and condition variable, the interplay of callers, background thread,
per-sink mutexes, unguarded map and destructor, the mutexes inside a sink and
the line that it makes of a message, and the life of the log file.
TLC checks the models on small instances, TLAPS proves the most important of
their properties for all instances.

## Inventory

| Part | State | Operations | What is hard, and what makes it correct |
|---|---|---|---|
| `LogQueue` (`logqueue.cpp`) | `std::queue`, one mutex, one condition variable | `push`, `pop` (blocks), `empty` | wake-ups lost, spurious or stolen; every message handed over once, in order; what an answer of `empty` means |
| `Logger` (`ealogger.cpp`) | map of sinks, map of mutexes, stop flag, thread, queue | `write_log`, `queue_empty`, `init_*_sink`, `discard_sink`, `set_*`, `is_initialized`, destructor, thread loop, routing loop | the map of sinks has no lock of its own; settings change while lines are written; the destructor races the background thread and has a time limit |
| `Sink` (`sink.cpp`) | enabled, minimum severity, template, date pattern, vector of patterns, a mutex for each | `set_*`, `prepare_log_message` | a decision to write that is stale when the write comes; a mutex that stays locked while a helper runs; a template that does not go with the patterns; the times of two threads in one struct |
| `SinkFile` (`sink_file.cpp`) | stream, path, flush flag, two mutexes | open, close, write, `config_changed`, `set_log_file` | failing writes are swallowed, half a line perhaps written, failing closes are not; re-initialisation opens before it closes, perhaps another file; rotation |
| `SinkConsole`, `SinkSyslog` | none; a lookup table | write | nothing of their own: they are a `Sink` and a key of the map |
| `LogMessage` | immutable | accessors | none |
| `ConversionPattern` | immutable | find and replace a specifier | a value that was put in is searched again for later specifiers |
| `utility.h` | none; libc's static `tm` | time, host name, file name, backtrace | `localtime` in two threads; `npos + 1`; a time that does not fit into the buffer |
| signal handler | one static flag | set on SIGUSR1 | nothing reads the flag |

The parts meet in few places. `write_log` calls `LogQueue::push` or the routing
loop; the background thread calls `LogQueue::pop` and the routing loop; the
routing loop and the configuration calls lock the same mutex per sink; the
destructor polls `LogQueue::empty`, sets the stop flag under a mutex, pushes one
more message and joins. `PROJECT.json` lists each hazard at its line of the source
with the properties that watch it.

## Modules

| Module | Models | Used by |
|---|---|---|
| `Fifo` | what `LogQueue` promises: atomic `Push` and `Pop` | `LogQueue` (refines it), `Logger` (runs on it) |
| `LogQueue` | `push`, `pop`, `empty` down to lock, wait and notify | |
| `LogPipe` | what an asynchronous `Logger` promises: one ordered pipe per sink | `Logger` (refines it) |
| `Delivery` | what `internal_log_routine` promises in either mode: each sink is asked once, at one instant | `Logger` (refines it) |
| `Logger` | every method of `Logger`, its thread and its destructor | |
| `Utility` | the functions of `utility.h` that a line needs | `LogLine` |
| `ConversionPattern` | finding and replacing the specifiers of a template | `LogLine` |
| `LogLine` | whether a sink writes a message, and which line, as a function of its settings and a time | `Sink`, `SinkPromise` |
| `SinkPromise` | what the sinks promise: each call takes effect at one instant | `Sink` (refines it) |
| `Sink` | every method of `Sink`, cut at its own mutexes and at `localtime` | |
| `MinimalExample` | the program of README.md, on `Logger` | |
| `LogFiles` | what a file sink promises: files that only grow | `SinkFile` (refines it) |
| `SinkFile` | the file sink, its stream and the world around it | |
| `LogQueueProofs`, `LoggerProofs`, `LoggerOrderProofs`, `LoggerPipeProofs`, `LoggerDeliveryProofs`, `SinkProofs`, `LogLineProofs`, `SinkFileProofs` | proofs | |
| `MCLogQueue`, `MCLogger`, `MCSink`, `MCSinkFile` | sets and bounds for TLC | the `.cfg` files |

The modules meet at what one promises and another relies on. `Logger` runs on
`Fifo`, which `LogQueue` implements. `Logger` gives a sink one caller at a time
(`MutexDiscipline`, `DecisionHolds`), which `Sink` relies on and has as `logger_mutex`,
`LockSink` and `Return`. `Sink` shows that a call to a sink may be taken for one step
(`SinkPromise`), which is what `Logger` and `SinkFile` make of it.

### LogQueue

A call is cut wherever another thread can run: entry, acquiring `mtx`, each
statement of the critical section, and `wait`, which gives the mutex up.
`PushLock`, `PushEnqueue`, `PushNotify` are the three statements of `push` (the
notification is sent with the mutex held, and the scope then ends). `PopTest` is
one evaluation of the predicate of `wait(lock, pred)`: go on, or block and
release in one step. `PopWake` is a woken thread taking the mutex back, and
`SpuriousWake` a wake-up that nobody sent. `popped` and `answer` are history: what
`pop` returned, and what each pusher was last told by `empty`. ealogger runs one
consumer; the module allows any number, because with one no notification can go
to the wrong thread.

### Logger

`pc` says where each thread is; the names of its values follow the methods.
`Async` chooses the mode. The queue is `Fifo` by instantiation, which `LogQueue` is
shown to implement. The actions follow the source's units of atomicity:

* `WriteLog`, `Push`: the message is built, then pushed; in synchronous mode the
  caller goes to `route_begin`.
* `ConfCall`, `ConfLock`, `ConfApply`: the methods of one form, which lock the
  sink's mutex, look the sink up and act on it. `ConfApply` is one of `InitSink`,
  `DiscardSink`, `SetEnabled`, `SetMinLvl`, `SetFormat`, `IsInitialized`. A sink
  that is not there makes `at` throw, which the code swallows: nothing changes.
* `RouteBegin`, `RouteLock`, `RouteCheck`, `RouteWrite`, `RouteNext`: the `for`
  over the map. `it` is the iterator; the mutex is held in `route_check` and
  `route_write` only, as the `lock_guard` of the loop body.
* `CheckStop`, `Pop`: the background thread. `DtorStart` to `DtorMembers`: the
  destructor with its polls, its stop flag, its message and its join, then the
  destruction of the members.

Nothing in the code guards the map itself. Erasing a key makes the iterators at
it `dangling`; stepping on from such a node may lead to any key or to the end,
and whenever the map is changed and used at once (`SinkMapRaceFree`) or an iterator
dangles, the process may `Crash`. The constant `SinkChanges` says how sinks come
and go while messages are logged: `"none"`, `"replace"` (an existing sink by a new
one, which changes no node), or `"any"`, as the interface allows.

`handled`, `out`, `taken`, `sent` and `saw_empty` are history. A sink is what decides
whether it writes: its enabled flag and minimum severity. Stack traces pass every
minimum. Messages of severity INTERNAL are never written, because `sink.cpp`
includes no header that could define `EALOGGER_PRINT_INTERNAL`.

Two abstract specifications say what this comes to. `LogPipe` is about the
asynchronous mode as a whole, queue and destructor included, and leaves open
which of the messages a sink writes. `Delivery` is about the routing loop, in both
modes and with any number of threads in it, and leaves open in which order the
messages come: each message is given to the loop once, and from then on waits
for every sink until the sink is offered it; at that instant, and at no other,
the sink's settings decide whether it becomes a line (`takes`), however these
change before and after; and the loop returns when the message waits for no
sink. A key without a sink takes nothing.

The destructor runs only when no thread is in a call, and nobody calls after it
has begun: the C++ rule about the lifetime of objects, not a lock of the code.

`DeliveredAsConfigured` says of each message and sink how often and why: a message
that was routed is at exactly one place in the output of a sink that accepts it, and
at none of one that does not.

`MinimalExample` is a client: the statements of README.md's program, one after the
other, each a call of `Logger`.

### Sink, LogLine, ConversionPattern, Utility

`Logger` has a mutex for each sink, and a sink has five more inside. `Sink` models
all the calls of any number of threads to any number of sinks, of which the
`Worker` makes the deliveries in asynchronous mode and the application's threads
do in synchronous mode. `LockSink` and `Return` are the `lock_guard` of `Logger` around
each call. `pc` names the place in the method, and `Locks` the mutexes that the next
statement locks; a statement that locks and unlocks is one action, and a mutex
that stays locked from one action to the next is in `mtx`. So `set_msg_template` is
`SetMsgTemplate`, which sets the template and keeps its mutex, then
`FillConvPatterns`, which locks the patterns' and fills the vector.
`mtx_enabled` and `mtx_min_lvl` protect a single statement each, so nobody sees them
locked.

`prepare_log_message` is cut into `PrepEnabled`, `PrepMinLvl`, then for a stack trace
`PrepStack`, else `PrepTemplate` (copies the template and gives its mutex back),
`PrepPatterns` (locks the vector), `PrepLocaltime` and `PrepStrftime` if the time is asked
for, `PrepSubstitute`, and last `PrepWrite`. `localtime` returns a pointer to one struct for
the whole process: `timeinfo`. `strftime` reads what the last call of any thread left
there, and while another thread is about to write there, a data race, it may read
any time at all. `format_time_to_string` has a buffer of 80 characters that is never
initialised; a time that does not fit leaves anything in it (`Garbage`).

Texts are sequences of characters here, and only here, because how one
replacement reads what another put in is the question. `Char` is the set of
characters; a time and a severity count as one. `Pass` searches a text once from
left to right and goes on behind what it puts in, as the `while` of
`replace_conversion_pattern` does. `Replaced` is that function, one `Pass` for one
specifier; `Substitute` is the loop over the vector, a `Pass` for each specifier over
what the one before has made; and `AtOnce` is what a reader of the template expects:
one `Pass` for all specifiers, in which nothing is read twice. The documentation
offers `%t` too, for which the code has no case; a template with it has no `AtOnce` to
be compared with, and is excluded (see *Findings*).
`FileName` counts as `std::size_t` does, modulo `SIZE`, because `get_file_name` relies on
`npos + 1` being 0. A pattern of `strftime` is only what matters to the buffer: where
the time goes, and how long the result is.

`SinkPromise` says what all those steps are for: a line is made of one template and
one date pattern, both in force at the instant of the write, which accept the
message at that instant; in asynchronous mode it shows the message's own time, in
synchronous mode some time.

### SinkFile

Behind `Logger`, all calls about a sink hold its mutex, so a call is one action.
`InitFileSink` takes any of `Paths` as its `logfile`, so an application may go over to
another file and later come back to one that it used before. It keeps the order of
`map[key] = make_shared<SinkFile>(...)`: the new sink opens its file, perhaps the
same one, before the old one flushes and closes its own.

The world outside has a say in each call: a file cannot be opened, or the disk is
full when a buffer goes to it. Between calls logrotate may rename a file and send
SIGUSR1, so that several files come to stand at one path, one after the other. A
stream is its file, its buffer and whether it has failed. A line is two pieces,
`Begin` and `End`, which stand for the two insertions of `write_message`, or for the
place where a buffer was full. A write may stay in the buffer or go through, cut
anywhere (`Cuts`); when it fails, before the line, inside or at the flush
(`WriteFailed`), the exception is swallowed, what the buffer held so far stays there,
as in libstdc++'s `basic_filebuf`, and the stream refuses every later line. So half a
line can reach the file, but only of a message that was not accepted.
`close_file` lets its exception out: through `set_enabled` to the application, or out
of the destructor, which ends the program. Whether `flush` on a stream that failed
before throws depends on the library, so both happen. Two assumptions remain: one
transfer of a buffer to the disk takes all of it or nothing, and two names in `Paths`
are two files.

`LogFiles` is what remains when stream, buffer and disk are forgotten: a message
that reaches the sink is left out (`Drop`) or goes, whole or its beginning, to the
end of the newest file of a path (`Add`), and is accepted only if it is whole; only the
end of the program takes something away, from the ends of files (`Terminate`). Its
`contents` are what a file holds followed by the buffer of a stream that is open on
it, so opening, closing, flushing, failing, replacing the sink and rotating the file
are all invisible.

## Runs

Bounds are the constants commented *bound* in each module.

| Run | Instance | Shows |
|---|---|---|
| `queue` | 2 pushers, 2 poppers, 2 messages each | all safety properties, and `ImplementsFifo`: the monitor refines `Fifo!FairSpec`, so a message in the queue is popped |
| `async` | 2 threads, 2 messages each, 2 sinks, `"replace"`, 1 poll | mutexes, stale decisions, one order in all sinks, no gaps, the drained exit, what `queue_empty` leaves, no race on the map; refinement of `Delivery` |
| `async_fair` | 2 threads, 1 message each, every set-up of 2 sinks, one of which gets a new format meanwhile, 1 poll | exact delivery; refinement of `LogPipe`; the destructor returns; every message is routed |
| `sync` | 2 threads, 2 messages each, one sink switched off and asked for meanwhile | the order of each caller, stale decisions, every call returns; refinement of `Delivery` by two loops at once |
| `hot` | 2 threads, 2 messages each, one sink inserted, erased and raised at any time | what holds in spite of undefined behaviour: mutexes and the order of routing |
| `sink` | 2 threads and the background thread, 2 sinks, both modes, 10 calls | nobody waits inside a sink; template and patterns fit; refinement of `SinkPromise`; the substitution and the file names on all short inputs |
| `file` | 3 messages, 2 log files, 2 files at the path of each, all faults | order and completeness of the files; refinement of `LogFiles` |
| `empty_queue` | 1 thread | violated: an empty queue does not mean that all is written (`ealogger_bench.cpp`) |
| `hot_discard` | 1 thread | violated: a discarded sink is still in use by the background thread ("threadsafe", `ealogger.h`) |
| `readme` | the program of README.md | violated: `set_min_lvl` finds no console, its exception is swallowed, and nothing is printed |
| `file_enabled` | no faults | violated: `set_enabled(true)` closes the file of an enabled sink (`sink_file.h`) |
| `file_rotation` | rotation only | violated: after SIGUSR1 lines still go to the renamed file (README.md) |

Why these bounds are enough. Two threads meet in every pair of calls; two
messages of one thread are needed for its order and two threads for interleaved
ones; two sinks give the routing loop a first, a next and an end, and a sink that
turns a message down in front of one that takes it. One poll reaches the queue
found empty, found full and the time limit. Two consumers make a notification go
to one of several. `hot` has one sink only, so that two threads with two messages each
fit: from a node that another thread erased, the loop may come to the end early, or to
the sink once more, and the message after it still has to wait. `async_fair` and `sync`
check that whoever waits for a sink's mutex gets it while others take it: the
background thread against `set_format`, two routing loops against each other and
against three kinds of calls. In `file`, three lines can go to one log file, then
another, then the first again; or before a rotation, after it, and to another file; or
one each into the file, into the buffer of a stream that fails, and behind it. In `sink`, two threads and the `Worker` may be in two
sinks at once, and behind the mutex of one; the messages are one that contains a
specifier, one of higher severity and a stack trace, and the settings are changed
one at a time to ones that turn a message down, lack the time, or make it longer
than the buffer. Threads repeat the calls for ever: the run has no
bound on their number. `SubstitutedAtOnce` compares
`Render` with `AtOnce` for each of `Templates`, here those of up to four of the characters
`% d m s t` and a few longer ones, with `Texts` that are empty, hold specifiers or halves
of them; `FileNamesRight` takes each of `Paths`, those of up to four of `/ \ x`. Both are
about functions and looked at in the initial states only. `Unambiguous` is when the two
must agree: the template has no `%t`, no `%` stands right before a specifier, and
every value that is put in is `Inert`, that is, does not end in `%` and holds no specifier
of the template whose turn is still to come. The message `5%d` is allowed, then, and
`5%s` is where the template has no `%s`. `LineBound` cuts walks from an erased node, which could
bring one message to one sink for ever. The invariants that matter most are
proved without any bound.

`Logger`'s threads are interchangeable, and runs without liveness properties use
that symmetry (`Delivery`, which `async` checks step by step, does not tell messages
of different threads apart either). Runs that check only safety say `Spec`; deadlock is checked in all.

Every property of a passing run has a mutant: an operator in the module, marked
*Mutant*, that changes an action the way a bug would, and under which TLC finds
the property violated.

### Fairness

A thread inside a call keeps running, and so does the background thread: weak
fairness of each step. A thread that waits for a mutex gets it if it is released
again and again: strong fairness of the locking steps, because `std::mutex`
queues nobody but critical sections here are short and a waiting thread is not
passed over for ever by a real scheduler. Poppers of `LogQueue` call `pop` again, as
`thread_entry_point` does; in `Logger` that loop is part of the model. Nobody has to
log, to configure, to poll or to destroy, no wake-up is spurious of necessity,
and the destructor's loop ends by its own counter.

## Proofs

TLAPS checks every proof. They hold for every value of the constants that
satisfies the named assumptions: `ThreadsAssumption` in `LogQueue` (pushers and
poppers are finite and disjoint sets of threads), `LoggerAssumption` in `Logger` (the
background thread is not one of the application's, the keys and severities are
those of the enumerations, `NoSink` is no sink), `SinkAssumption` in `Sink` (again the
threads, and that settings and calls are such), `InputsAssumption` in `Sink` (texts are
texts, and paths shorter than `SIZE`), `TextAssumption` in `LogLine` (times, severities,
host name and what an uninitialised buffer holds are made of `Char`, and it holds
something), `SinkFileAssumption` and `NoSinkAssumption` in `SinkFile` (bounds are
numbers, and `NoSink` is no sink), and
`SizeAssumption` in `Utility`. TLC evaluates
them in every run of these modules, and found each invariant true on a small
instance before it was proved.

### `LogQueueProofs`

| Theorem | States |
|---|---|
| `TypeCorrect`, `MutualExclusion`, `PopFindsMessage` | `TypeOK`, `MutexDiscipline`, `PopHasMessage` |
| `WakeupsKept` | `NoLostWakeup` |
| `OrderKept` | `ExactlyOnceInOrder`: each message is handed over once, those of one pusher in the order of its calls |
| `EmptyIsTrue` | `EmptyMeansPopped`: when `empty` tells a pusher yes, `pop` has taken all that it pushed |
| `Refinement` | every behaviour of the monitor is one of `Queue!Spec`, the abstract `Fifo` |

The inductive invariant `IInv` is `TypeOK` with four parts. `PopHasMessage` is not
inductive without `MutexDiscipline`: between the test of the predicate and
`pop()` nobody else may be in the critical section. `PushesCounted` makes the
message that `push` enqueues a numbered one, which `TypeOK` of the queue needs.
`SleepersWait` ties the condition variable's waiters to `pop_wait`, so that a
consumer is never counted as awake and asleep.

`WakeupsKept` is a counting argument on top of it: the messages in the queue are
at most as many as the consumers awake and the pushers that have yet to notify,
while anybody sleeps. `push` adds one message and one notifier; `notify_one`
exchanges the notifier for an awakened consumer; a consumer falls asleep only on
an empty queue, and leaves only with a message. Every other step changes neither
side (`QuietStep`). `Refinement` maps `PushEnqueue` to `Push`, `PopTake` to `Pop` and all
other steps to stuttering; order follows from what entered the queue being what
left it, then what is in it.

### `LoggerProofs`

| Theorem | States |
|---|---|
| `LoggerTypeCorrect` | `TypeOK` in both modes |
| `SinkMutualExclusion` | `MutexDiscipline`: no path keeps a sink's mutex, no two threads are in one sink |
| `DecisionsHold` | `DecisionHolds`: nothing changes between a sink's decision and the write |
| `NoSinkDangles`, `SinkMapNeverRaces` | `SinkChanges # "any"` implies `NoDanglingSink` and `SinkMapRaceFree` |

The last two say when the unguarded map is harmless: if an application adds and
discards sinks only alone and before anything is logged, and afterwards at most
re-initialises sinks that are there, then it meets no undefined behaviour,
whatever else its threads call at once. `hot_discard` shows that the condition
cannot be dropped.

The inductive invariant `IInv` has ten parts. `DecisionHolds` needs
`MutexDiscipline` (the thread that configures the sink is not the one that writes
to it), `LocalsFit` (an iterator that does not dangle is at a sink of the map) and
`DtorAlone` (the members are destroyed when nobody else is in a call and the
background thread has been joined). `TypeOK` needs `SentBounded`, because the
destructor logs one message more. The two theorems about the map need
`SetUpAlone` (a call that must not meet others met none when it began, and still
meets none), `NoMessageYet` (before anything is logged nobody is in the loop),
`KeepsNodes` and `CrashIsTotal`. There is one lemma for each group of actions;
`ConfReturnIInv` states once what the six configuration calls have in common, and
`WalkIInv` what `begin()` and `++` have.

### `LoggerOrderProofs`

| Theorem | States |
|---|---|
| `NoGapsKept` | `NoGaps`: no message overtakes an earlier one of its thread, whatever the sinks do |
| `DrainedExitKept` | `DrainedExit`: a destructor that did not give up has waited for every message |
| `EmptyQueueLeavesOneKept` | `EmptyQueueLeavesOne` |

All three hold in both modes and for every use of the sinks, undefined behaviour
short of a crash included. The inductive invariant adds `Trail` to `IInv`. `Threading`
says where a message is while it is between `write_log` and the sinks: with its
caller, in the queue, or as the last of `taken` with the background thread.
`InSubmissionOrder` numbers the messages of each thread in the history of the queue,
`taken` followed by what is queued; `HandledSoFar` says that what has been routed is
exactly what the background thread is done with, so a prefix of that history.
`NoGaps` is a consequence. `SeenEmpty` carries what a poll of the queue was told over
the steps of the others, and `Drained` the same for the destructor, which must
still rely on the join for the last message. `Steps` groups the actions by what they
do to the trail, so that each part is proved for a few kinds of step and not for
each of thirty.

### `LoggerPipeProofs`

| Theorem | States | If |
|---|---|---|
| `OneOrderKept` | `OneOrderForAllSinks` | asynchronous, `SinkChanges # "any"` |
| `CallerOrderKept` | `CallerOrder` | `SinkChanges # "any"` |
| `PipeRefinement` | `ImplementsLogPipe` | asynchronous, `SinkChanges # "any"` |
| `DeliveredKept` | `DeliveredAsConfigured` | `KeepsSettings`: sinks are configured only before logging |

The condition on `SinkChanges` is the one under which the map is harmless, and it
is needed: an iterator at an erased node may lead to a sink twice. `Carries` says
that a thread has not yet passed a sink with its message, and `WalkLeads`, the heart
of the module, that the loop takes the sinks of the map in order, one at a time,
and passes none without its decision, whatever sinks the others replace. From there `Reached` and `InQueueOrder` (asynchronous) and
`LoggedInOrder` (synchronous) keep the lines of each sink in order, and `Delivered` says
which messages a sink has while one is half way through the map. That it has none of
them twice (`Once`) follows from `CallerOrder`: the numbers of a thread's messages
increase in every sink.

The refinement takes as `pending` of a sink the message that the background thread
still carries to it, then the queue. `Push` and the destructor's own message
(`DtorExit`) are `Submit`; a step of the loop is `PassOn` for the sinks it passes, with a
line for the one that is written to; `DtorMembers` is `Close`; every other step
stutters. `Crash` does not occur, by `LoggerProofs`.

### `LoggerDeliveryProofs`

| Theorem | States | If |
|---|---|---|
| `DeliveryRefinement` | `ImplementsDelivery`, in both modes | `SinkChanges # "any"` |

`WriteLog` (synchronous) and `Pop` (asynchronous) are `Give`; every step of the loop is
`Offer`, to the sink that writes or turns the message down, to the keys without a
sink that `++` passes, or to none; everything else is `Configure`, because what the
sinks take may change with any call. The proof uses that those steps are of three
kinds, which `LoggerPipeProofs` has shown (`PipeSteps`), and the invariants of the
two modules before it for three facts about messages: one that is given was never
given before (`LoggedIsNew`, `PoppedIsNew`), one that a thread has in hand is not handled
yet (`InHandUnhandled`), and two threads in the loop have two (`OwnMessages`), so that a
step of one thread takes nothing from what waits on account of another. The
condition is again the one under which the map is harmless.

### `SinkProofs`

| Theorem | States |
|---|---|
| `NoDeadlockInside` | `NeverBlockedInside`: no thread ever waits for a mutex of a sink's own |
| `PatternsAlwaysFit` | `PatternsFit` |
| `SinkRefinesPromise` | `ImplementsSinkPromise` |
| `SinkTypeCorrect` | `TypeOK`, the texts included |
| `SubstitutedAtOnceAlways`, `FileNamesRightAlways` | `SubstitutedAtOnce`, `FileNamesRight`, for any inputs |

`NeverBlockedInside` is about a mutex that a thread might lock twice, as the helper
of `set_msg_template` would if it took the template's again, and about two that two
threads might wait for. (The constructor takes the template's mutex with the patterns'
locked, `set_msg_template` the other way round; but nobody else knows an object that
is being constructed.) `OneInside` says that `Logger`'s mutex is owned by exactly the
thread inside, and `InnerOwned` that a mutex inside is locked only at the places of
`HeldAt`, so that it is either free or one's own, and one's own is never locked
twice.

`PatternsFit` is about the template that a thread has copied: when it goes through the
patterns, its copy is still the sink's template and the patterns are those of the
copy. The vector lags behind the stored template only between `SetMsgTemplate` and
`FillConvPatterns` (`VectorsFit`), and what a thread copied cannot be replaced while it
is inside (`OneInside`). For the refinement, `Fits` says what the unfinished
line of a thread is at each place of `prepare_log_message`, in terms of the settings
as they are *now*: the template, the template with the time put in, or a
finished line. Any step of another thread leaves that alone, because it is at
another sink or outside (`OthersFit`), with one exception, the shared struct: in
synchronous mode the time is any time, in asynchronous mode only the `Worker` asks
for it. What replacing a specifier does to a text plays no part in these three.

`SinkTypeCorrect` does need it. Its invariant `TextsTyped` says that the unfinished line
of each thread and the last line written are texts; `SubstituteType` and `RenderType` of
`LogLineProofs` say that the loop of `prepare_log_message` makes texts of texts.

### `LogLineProofs`

| Theorem | States |
|---|---|
| `SubstitutionIsAtOnce` | `SubstitutesAtOnce`, for every template, time and values |
| `FileNameIsLastElement` | `IsLastElement`, for every path shorter than `SIZE` |

The first is about texts of any length, and the only proof here by induction over
data. The library's theorems of induction cannot be used for it, but what they
say about a *set* can: a set of positions that holds the last one, and with each
position the one before it, holds them all (`Backwards`, from the well-foundedness
of `<`, and `Induction` the other way). Each induction names its set and is
about one text. `RestsExist` and `RestsAt` give the recursive function that `Pass` is
made of its equation, `PassType`, `PassSpecifier` and `PassPlain` say what it does at the
front of a text, and `PassNothing` and `PassAbsent` when it does nothing.

The heart is `TwoPasses`: a pass for some specifiers and then a pass for one more is
one pass for all of them, if no `%` stands before a specifier and the values put in
first are `Harmless` to the one that comes later, that is, neither hold it nor end in
`%`. It goes from the end of the template to its front and shows at each position that
the second pass meets there what the template has, or values that it copies: no
specifier can begin in a value and end behind it, as the value does not end in `%`,
nor end in one, since the `%` before it would stand in the template right before a
specifier.
`SubstitutionIsAtOnce` then adds the specifiers one by one in the order of the
vector; those that the template lacks change nothing (`PassAbsent`, and `Stays`: no value
has brought one in). No part of `Unambiguous` can be dropped: `%%dm%m` with an empty
time and the message `X` becomes `XX` and not `%mX`; `%m%s` with the message `5%s` shows
the severity twice; and so does `%ms%s` with a message that ends in `%`.

`FileNameIsLastElement` rests on `LastPosition`, that a finite set of positions has
a last one, and on `npos + 1` being 0 modulo `SIZE`.

### `SinkFileProofs`

| Theorem | States |
|---|---|
| `SinkFileTypeCorrect` | `TypeOK` |
| `LinesKeepOrder` | `LinesInOrder`, for each path: over buffers, failures, replaced sinks, rotated files, and other log files used in between |
| `AcceptedLinesKept` | `NothingLost` |
| `SinkFileRefinesLogFiles` | `ImplementsLogFiles` |

They hold for any number of log files, files at each path and lines, and all
faults at once. `LinesInOrder` and `NothingLost` are inductive with `OnNewest` (an open
stream is on the newest file of its path, a closed one has an empty buffer),
`NewFilesEmpty` and `NoFutureLines`. The three cases that matter are a new sink that
opens the file before the old one flushes into it, a flush that fails, and a log file
that was used before: every line in it, and in every older file of its path, is from
before the next, whatever went elsewhere meanwhile. Order and completeness are stated
of pieces, so that a line cut short by one failure is never completed by another.

The refinement goes along: each lemma about a step ends in `PromisedStep`, that the
step is one of `LogFiles` or changes nothing there. Two lemmas hold what all steps
come to. `SameContentsIInv`: the contents stay, and the step is a stutter or a `Drop`, or
each file is left without its buffer, which is a `Terminate`, because a file is a prefix
of its contents. `OneMoreLineIInv`: the newest file of one path has one more line, or
the beginning of one, which is an `Add` since all files behind it are empty. `LogFiles`
says more than the invariants: a line that was buffered with an error, and so was not
accepted, does not vanish either.

### Only model-checked

* Liveness and everything about fairness (`DtorReturns`, `EventuallyHandled`,
  `CallsReturn`, the fairness part of `ImplementsFifo`): TLAPS does not reason about
  `ENABLED` here. Every other property of a passing run is a theorem, under the
  conditions given above.
* The `violation` runs, which are counterexamples and need no proof.

## Findings

Five documented statements do not hold; each has a `violation` run above and an
entry in `PROJECT.json`. While modelling, some further traits of the code came
up that contradict no line of it, or that a run cannot contradict:

* The documentation offers `%t`, the thread's id (`conversion_pattern.h`).
  `prepare_log_message` has no case for it, so it stays in the line as it is.
  `SubstitutedAtOnce` says nothing of such templates.
* A specifier in the text of a message or in a formatted time, as in `5%s`, is
  expanded like one of the template if its turn is later. `SubstitutedAtOnce` says
  when that cannot happen.
* In synchronous mode two sinks may format a time at once, and a line may show
  that of another message: `SinkPromise` promises no more.
* A formatted time of 80 characters or more is whatever the buffer held.
* A message takes its time before it waits for the queue's mutex, so the times of
  the lines of two threads may go backwards. The order of lines is that of the queue.

## Not modelled

* `SinkFile::set_log_file`: not reachable through `Logger`. It locks `mtx_log_file` and
  then calls `open_file`, which locks it again.
* `SinkSyslog::write_message`: without `EALOGGER_SYSLOG`, which no header that it
  includes defines, its body is empty. `SinkConsole::write_message` is one insertion
  into `std::cout`, and the stream is the environment.
* `stack_trace` of `utility.h`: a backtrace, demangled. It is a text of the message.
* Calls of `localtime` by the application itself, which share the struct too.
* Exceptions for want of memory or threads, and `signal` failing in the constructor.
* Two loggers, and the signal handler they share.
* `Logger` on the concrete queue in one instance: `LogQueue` implements `Fifo`, on
  which `Logger` runs, and `Logger` uses of it only what `Fifo` offers.
* Tests, examples and build files keep no state of the library. They were read
  for what they say of it, and two findings quote them.

No further part of the library keeps state.
