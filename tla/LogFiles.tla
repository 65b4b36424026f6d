------------------------------ MODULE LogFiles ------------------------------
(***************************************************************************)
(* What an ealogger::SinkFile promises about the files at its paths: they  *)
(* only grow, one line at a time, and only the newest of each path.  A     *)
(* message that reaches the sink becomes a line, a line cut short, or      *)
(* nothing; one that was written without an error has become a line.  Only *)
(* the end of the program takes something away, and that from the end of   *)
(* a file.  Nothing here says how a stream, its buffer and the disk do     *)
(* that, or when a file is open.                                           *)
(***************************************************************************)
EXTENDS Naturals, Sequences

CONSTANTS
  Paths,             \* the log files that the application names
  File               \* the files that come to stand at a path, by age

VARIABLES
  contents,          \* what each file of each path holds, written or on its way
  lines,             \* how many messages reached the sink
  accepted,          \* the messages that were written without an error
  terminated         \* the program has ended

vars == <<contents, lines, accepted, terminated>>

Init ==
  /\ contents = [p \in Paths |-> [f \in File |-> << >>]]
  /\ lines = 0
  /\ accepted = {}
  /\ terminated = FALSE

\* The next message is left out.
Drop ==
  /\ ~ terminated
  /\ lines' = lines + 1
  /\ UNCHANGED <<contents, accepted, terminated>>

\* The two pieces of a line.
Begin(n) == 2 * n - 1
End(n) == 2 * n

\* The next message goes to the end of file f of path p: all of its line, without
\* an error or with one, or the beginning of it.
Add(p, f) ==
  /\ ~ terminated
  /\ \A g \in File : g > f => contents[p][g] = << >>
  /\ lines' = lines + 1
  /\ \/ /\ contents' = [contents EXCEPT ![p][f] = @ \o <<Begin(lines + 1), End(lines + 1)>>]
        /\ accepted' \in {accepted, accepted \cup {lines + 1}}
     \/ /\ contents' = [contents EXCEPT ![p][f] = @ \o <<Begin(lines + 1)>>]
        /\ UNCHANGED accepted
  /\ UNCHANGED terminated

\* The program ends, and each file keeps only the first part of what it held.
Terminate ==
  /\ ~ terminated
  /\ terminated' = TRUE
  /\ DOMAIN contents' = Paths
  /\ \A p \in Paths :
       /\ DOMAIN contents'[p] = File
       /\ \A f \in File : \E n \in 0 .. Len(contents[p][f]) :
            contents'[p][f] = SubSeq(contents[p][f], 1, n)
  /\ UNCHANGED <<lines, accepted>>

Next == Drop \/ Terminate \/ \E p \in Paths, f \in File : Add(p, f)

Spec == Init /\ [][Next]_vars
=============================================================================
