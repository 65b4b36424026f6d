------------------------------ MODULE SinkFile -------------------------------
(***************************************************************************)
(* ealogger::SinkFile (sink_file.h, sink_file.cpp) as Logger uses it: one  *)
(* sink at a time, every call under the sink's mutex, so that each call is *)
(* one action.  The world outside has its say in them: a file cannot be    *)
(* opened, the disk is full.  Between two calls logrotate may rename a log *)
(* file and send SIGUSR1.                                                  *)
(*                                                                         *)
(* Line n is two pieces, cut where its way to the disk is: its beginning   *)
(* is the number 2n - 1, the rest with the newline is 2n.                  *)
(***************************************************************************)
EXTENDS Naturals, Sequences

CONSTANTS
  Paths,             \* the log files that the application names
  Faults,            \* what may happen outside: "full", "unwritable", "rotate"
  MaxLines,          \* bound: how many messages reach the sink
  MaxFiles,          \* bound: how many files come to stand at a path
  NoSink             \* there is no file sink

ASSUME SinkFileAssumption ==
  /\ Faults \subseteq {"full", "unwritable", "rotate"}
  /\ MaxLines \in Nat
  /\ MaxFiles \in Nat \ {0}

\* The file a stream is open on: the how-manieth at its path, or none.
Closed == 0
File == 1 .. MaxFiles
Line == 1 .. MaxLines
Piece == 1 .. 2 * MaxLines

Begin(n) == 2 * n - 1
End(n) == 2 * n

\* std::ofstream file_stream: its file, its buffer, its badbit.
Stream == [file : File \cup {Closed}, buffer : Seq(Piece), failed : BOOLEAN]
ClosedStream == [file |-> Closed, buffer |-> << >>, failed |-> FALSE]

\* A SinkFile object.
Sink == [log_file : Paths, enabled : BOOLEAN, flush_buffer : BOOLEAN, file_stream : Stream]

ASSUME NoSinkAssumption == NoSink \notin Sink

VARIABLES
  sink,              \* the file sink, or NoSink
  disk,              \* what is in each file of each path
  path,              \* the file at each path, or Closed if there is none
  files,             \* how many files there have been at each path
  signal_SIGUSR1,    \* Logger::signal_SIGUSR1
  terminated,        \* std::terminate() was called
  lines,             \* history: how many messages reached the sink
  accepted           \* history: the lines written without an error

vars == <<sink, disk, path, files, signal_SIGUSR1, terminated, lines, accepted>>

historyVars == <<lines, accepted>>

Init ==
  /\ sink = NoSink
  /\ disk = [p \in Paths |-> [f \in File |-> << >>]]
  /\ path = [p \in Paths |-> Closed]
  /\ files = [p \in Paths |-> 0]
  /\ signal_SIGUSR1 = FALSE
  /\ terminated = FALSE
  /\ lines = 0
  /\ accepted = {}

-----------------------------------------------------------------------------
(* open_file() and close_file(), as parts of the calls below.              *)

\* The file that an open_file() now would be about: a new one if there is none
\* yet, or logrotate has renamed the last.
Target(p) == IF path[p] = Closed THEN files[p] + 1 ELSE path[p]

\* May open(log_file, app) succeed, and may it fail?
Opens(p) ==
  {opened \in BOOLEAN : IF opened THEN Target(p) <= MaxFiles ELSE "unwritable" \in Faults}

\* The stream after it.  That it failed, the catch block keeps to itself.
OpenFile(p, opened) ==
  IF opened THEN [ClosedStream EXCEPT !.file = Target(p)] ELSE ClosedStream

\* Mutant: std::ios::trunc instead of std::ios::app.
OpenedOnTruncated(d, p, opened) ==
  IF opened THEN [d EXCEPT ![p][Target(p)] = << >>] ELSE d

\* What it does to the files: it keeps what they hold ...
OpenedOn(d, p, opened) == d

\* ... and makes one at the path if there is none.
Placed(p, opened) ==
  /\ path' = IF opened THEN [path EXCEPT ![p] = Target(p)] ELSE path
  /\ files' = IF opened /\ path[p] = Closed THEN [files EXCEPT ![p] = @ + 1] ELSE files

\* May close_file() end with an exception?  It does when the buffer cannot be
\* written; on a stream that has failed before, flush() throws with some
\* libraries and not with others.
CloseThrows(stream) ==
  {throws \in BOOLEAN :
     throws => stream.failed \/ ("full" \in Faults /\ stream.buffer # << >>)}

\* The files after flush() and close().
ClosedOn(d, s) ==
  LET stream == s.file_stream IN
  IF stream.file = Closed THEN d
  ELSE [d EXCEPT ![s.log_file][stream.file] = @ \o stream.buffer]

-----------------------------------------------------------------------------
\* Mutant: once the file is open, the constructor moves log_file on.
BuiltMoved(p, on, flush, opened) ==
  [log_file |-> NoSink, enabled |-> on, flush_buffer |-> flush,
   file_stream |-> OpenFile(p, opened)]

\* SinkFile's constructor.
Built(p, on, flush, opened) ==
  [log_file |-> p, enabled |-> on, flush_buffer |-> flush,
   file_stream |-> OpenFile(p, opened)]

\* Logger::init_file_sink, with any logfile: make_shared builds the new sink,
\* whose constructor opens the file of an enabled one, before the assignment
\* destroys the old one, which closes its own.  An exception that leaves the
\* destructor ends the program.
InitFileSink(p, on, flush) ==
  /\ ~ terminated
  /\ \E opened \in IF on THEN Opens(p) ELSE {FALSE} :
       /\ LET d == OpenedOn(disk, p, opened) IN
          IF sink = NoSink
          THEN disk' = d /\ UNCHANGED terminated
          ELSE \E throws \in CloseThrows(sink.file_stream) :
                 /\ disk' = IF throws THEN d ELSE ClosedOn(d, sink)
                 /\ terminated' = throws
       /\ sink' = Built(p, on, flush, opened)
       /\ Placed(p, opened)
  /\ UNCHANGED <<historyVars, signal_SIGUSR1>>

\* Mutant: the destructor catches what close_file() throws.
DiscardSinkCatching ==
  /\ ~ terminated
  /\ sink # NoSink
  /\ \E throws \in CloseThrows(sink.file_stream) :
       disk' = IF throws THEN disk ELSE ClosedOn(disk, sink)
  /\ sink' = NoSink
  /\ UNCHANGED <<historyVars, path, files, signal_SIGUSR1, terminated>>

\* Logger::discard_sink, and the end of the Logger: ~SinkFile().
DiscardSink ==
  /\ ~ terminated
  /\ sink # NoSink
  /\ \E throws \in CloseThrows(sink.file_stream) :
       /\ disk' = IF throws THEN disk ELSE ClosedOn(disk, sink)
       /\ terminated' = throws
  /\ sink' = NoSink
  /\ UNCHANGED <<historyVars, path, files, signal_SIGUSR1>>

\* set_enabled(FALSE): config_changed() does nothing.
Disable ==
  /\ ~ terminated
  /\ sink # NoSink
  /\ sink' = [sink EXCEPT !.enabled = FALSE]
  /\ UNCHANGED <<historyVars, disk, path, files, signal_SIGUSR1, terminated>>

\* set_enabled(TRUE): config_changed() closes a file that is open.  What
\* close_file() throws passes through set_enabled() to the application.
EnableOpen ==
  /\ ~ terminated
  /\ sink # NoSink
  /\ sink.file_stream.file # Closed
  /\ \E throws \in CloseThrows(sink.file_stream) :
       /\ disk' = IF throws THEN disk ELSE ClosedOn(disk, sink)
       /\ sink' = [sink EXCEPT !.enabled = TRUE,
                    !.file_stream = IF throws THEN [@ EXCEPT !.failed = TRUE]
                                              ELSE ClosedStream]
  /\ UNCHANGED <<historyVars, path, files, signal_SIGUSR1, terminated>>

\* set_enabled(TRUE): config_changed() opens a file that is closed.
EnableClosed ==
  /\ ~ terminated
  /\ sink # NoSink
  /\ sink.file_stream.file = Closed
  /\ \E opened \in Opens(sink.log_file) :
       /\ sink' = [sink EXCEPT !.enabled = TRUE,
                    !.file_stream = OpenFile(sink.log_file, opened)]
       /\ disk' = OpenedOn(disk, sink.log_file, opened)
       /\ Placed(sink.log_file, opened)
  /\ UNCHANGED <<historyVars, signal_SIGUSR1, terminated>>

-----------------------------------------------------------------------------
(* Sink::prepare_log_message() and SinkFile::write_message().              *)

\* The next message reaches the sink, which leaves the stream and the files so.
Write(stream, d, acc) ==
  /\ ~ terminated
  /\ sink # NoSink
  /\ lines < MaxLines
  /\ lines' = lines + 1
  /\ sink' = [sink EXCEPT !.file_stream = stream]
  /\ disk' = d
  /\ accepted' = accepted \cup acc
  /\ UNCHANGED <<path, files, signal_SIGUSR1, terminated>>

Takes ==
  /\ sink # NoSink
  /\ sink.enabled
  /\ sink.file_stream.file # Closed
  /\ ~ sink.file_stream.failed

\* The sink is disabled, or the file is closed, or << on a stream that has
\* failed throws, which the catch block keeps to itself.
WriteNothing == sink # NoSink /\ ~ Takes /\ Write(sink.file_stream, disk, {})

\* The next message's line, and how a full buffer may cut it: what still goes to
\* the disk and what stays behind.
NextLine == <<Begin(lines + 1), End(lines + 1)>>
Cuts == {[out |-> << >>, kept |-> NextLine],
         [out |-> <<Begin(lines + 1)>>, kept |-> <<End(lines + 1)>>],
         [out |-> NextLine, kept |-> << >>]}

\* The line stays in the stream's buffer.
WriteBuffered ==
  /\ Takes /\ ~ sink.flush_buffer
  /\ Write([sink.file_stream EXCEPT !.buffer = @ \o NextLine], disk, {lines + 1})

\* The buffer is full, or flush_buffer is set, and the disk takes it.
WriteThrough ==
  /\ Takes
  /\ \E cut \in Cuts :
       /\ sink.flush_buffer => cut.kept = << >>
       /\ LET st == sink.file_stream IN
          Write([st EXCEPT !.buffer = cut.kept],
                [disk EXCEPT ![sink.log_file][st.file] = (@ \o st.buffer) \o cut.out],
                {lines + 1})

\* Mutant: the catch block writes the line once more.
WriteFailedRetrying ==
  /\ Takes /\ "full" \in Faults
  /\ LET st == [sink.file_stream EXCEPT !.failed = TRUE] IN
     Write([st EXCEPT !.buffer = (@ \o NextLine) \o NextLine], disk, {})

\* The disk takes nothing, and what the buffer holds stays there: the line, if
\* only flush() fails, or the beginning of it, or nothing, if << for the message
\* or for the newline does.  The stream takes no line from now on.
WriteFailed ==
  /\ Takes /\ "full" \in Faults
  /\ LET st == [sink.file_stream EXCEPT !.failed = TRUE] IN
     \/ Write(st, disk, {})
     \/ Write([st EXCEPT !.buffer = @ \o <<Begin(lines + 1)>>], disk, {})
     \/ sink.flush_buffer /\ Write([st EXCEPT !.buffer = @ \o NextLine], disk, {})

-----------------------------------------------------------------------------
\* The world outside: logrotate renames a file and sends SIGUSR1;
\* Logger::logrotate() notes the signal in a flag, which nothing reads.
Logrotate(p) ==
  /\ "rotate" \in Faults
  /\ ~ terminated
  /\ path[p] # Closed
  /\ path' = [path EXCEPT ![p] = Closed]
  /\ signal_SIGUSR1' = TRUE
  /\ UNCHANGED <<sink, disk, files, terminated, historyVars>>

Terminated == terminated /\ UNCHANGED vars

Next ==
  \/ \E p \in Paths, on, flush \in BOOLEAN : InitFileSink(p, on, flush)
  \/ DiscardSink \/ Disable \/ EnableOpen \/ EnableClosed
  \/ WriteNothing \/ WriteBuffered \/ WriteThrough \/ WriteFailed
  \/ \E p \in Paths : Logrotate(p)
  \/ Terminated

Spec == Init /\ [][Next]_vars

-----------------------------------------------------------------------------
TypeOK ==
  /\ sink \in Sink \cup {NoSink}
  /\ disk \in [Paths -> [File -> Seq(Piece)]]
  /\ files \in [Paths -> 0 .. MaxFiles]
  /\ path \in [Paths -> {Closed} \cup File]
  /\ \A p \in Paths : path[p] \in {Closed, files[p]}
  /\ signal_SIGUSR1 \in BOOLEAN /\ terminated \in BOOLEAN
  /\ lines \in 0 .. MaxLines
  /\ accepted \subseteq Line

\* What is in file f of path p, and in the buffer of a stream that is open on it.
Contents(p, f) ==
  disk[p][f] \o IF sink # NoSink /\ sink.log_file = p /\ sink.file_stream.file = f
                THEN sink.file_stream.buffer ELSE << >>

Increasing(s) == \A i, j \in DOMAIN s : i < j => s[i] < s[j]

\* Every file holds the lines in the order in which they were logged, none
\* twice, and no file holds a line that belongs before those of an older file of
\* the same path: a sink that replaces another opens its file before the other
\* flushes its buffer, perhaps into the same file, a stream that failed keeps a
\* buffer that may be flushed later, and an application may come back to a
\* logfile after it used another one.
LinesInOrder ==
  \A p \in Paths :
    /\ \A f \in File : Increasing(Contents(p, f))
    /\ \A f, g \in File : f < g =>
         \A i \in DOMAIN Contents(p, f), j \in DOMAIN Contents(p, g) :
           Contents(p, f)[i] < Contents(p, g)[j]

\* A line that was written without an error is in a file, or in the buffer of the
\* stream or half there, and in one piece, whatever was disabled, replaced,
\* rotated or out of space since, unless the program was terminated.
NothingLost ==
  ~ terminated =>
    \A n \in accepted : \E p \in Paths, f \in File :
      \E i \in DOMAIN Contents(p, f) :
        /\ i + 1 \in DOMAIN Contents(p, f)
        /\ Contents(p, f)[i] = Begin(n) /\ Contents(p, f)[i + 1] = End(n)

\* The file sink does what LogFiles promises: until the program ends no file loses
\* a line, or gets one anywhere but at its end, or any when its path has a newer
\* one, and only a line that was not accepted is cut short.
Promise == INSTANCE LogFiles
             WITH contents <- [p \in Paths |-> [f \in File |-> Contents(p, f)]]
ImplementsLogFiles == Promise!Spec

\* sink_file.h: config_changed() "opens or closes logfile according to
\* Sink#enabled": the file of an enabled sink is open, and its lines are written.
OpenWhenEnabled ==
  sink # NoSink /\ sink.enabled => sink.file_stream.file # Closed

\* README.md: the library registers a signal handler for SIGUSR1 "and is
\* compatible with logrotate": once it was signalled, no line goes to a file
\* that was renamed before.
FollowsRotation ==
  [][signal_SIGUSR1 /\ accepted' # accepted
       => sink'.file_stream.file = path'[sink'.log_file]]_vars
=============================================================================
