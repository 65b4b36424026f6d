--------------------------- MODULE SinkFileProofs ----------------------------
(***************************************************************************)
(* Proofs about SinkFile, for any set of paths, every combination of       *)
(* faults and any number of lines and files: types, the order of the       *)
(* lines, that no accepted line is lost, and that the files are those that *)
(* LogFiles promises.                                                      *)
(***************************************************************************)
EXTENDS SinkFile, SequenceTheorems, TLAPS

\* The stream is closed and its buffer empty, or open on the newest file of the
\* sink's path.
OnNewest ==
  sink # NoSink =>
    /\ sink.file_stream.file \in {Closed, files[sink.log_file]}
    /\ sink.file_stream.file = Closed => sink.file_stream.buffer = << >>

\* Files that there have not been are empty.
NewFilesEmpty == \A p \in Paths, f \in File : f > files[p] => disk[p][f] = << >>

\* No file holds a line that did not reach the sink yet.
NoFutureLines ==
  \A p \in Paths, f \in File : \A i \in DOMAIN Contents(p, f) : Contents(p, f)[i] <= 2 * lines

\* What every step preserves.
IInv == TypeOK /\ OnNewest /\ NewFilesEmpty /\ NoFutureLines /\ LinesInOrder /\ NothingLost

\* What every step is to LogFiles.
PromisedStep == [Promise!Next]_(Promise!vars)

Files == [Paths -> [File -> Seq(Piece)]]

-----------------------------------------------------------------------------
\* Sequences of pieces.

LEMMA IncreasingPrefix ==
  ASSUME NEW s \in Seq(Nat), NEW t \in Seq(Nat), Increasing(s \o t)
  PROVE  Increasing(s)
<1>1. DOMAIN s = 1 .. Len(s) /\ Len(s) \in Nat /\ Len(t) \in Nat OBVIOUS
<1>2. DOMAIN (s \o t) = 1 .. Len(s) + Len(t) OBVIOUS
<1>3. \A i \in 1 .. Len(s) : (s \o t)[i] = s[i] OBVIOUS
<1> QED BY <1>1, <1>2, <1>3 DEF Increasing

\* A line, or the beginning of one, behind a file's contents.
LEMMA LineBehind ==
  ASSUME NEW s \in Seq(Nat), NEW n \in Nat, n > 0,
         NEW t, t \in {<<Begin(n)>>, <<Begin(n), End(n)>>}
  PROVE  /\ s \o t \in Seq(Nat)
         /\ Len(t) \in {1, 2}
         /\ DOMAIN (s \o t) = 1 .. Len(s) + Len(t)
         /\ \A i \in 1 .. Len(s) : (s \o t)[i] = s[i]
         /\ \A i \in DOMAIN (s \o t) : i = Len(s) + 1 => (s \o t)[i] = Begin(n)
         /\ \A i \in DOMAIN (s \o t) : i = Len(s) + 2 => (s \o t)[i] = End(n)
<1>1. Begin(n) \in Nat /\ End(n) \in Nat BY DEF Begin, End
<1>2. CASE t = <<Begin(n)>>
  <2> DEFINE b == Begin(n)
  <2>1. b \in Nat /\ t = <<b>> BY <1>1, <1>2
  <2> HIDE DEF b
  <2>2. /\ s \o t \in Seq(Nat) /\ Len(t) = 1
        /\ DOMAIN (s \o t) = 1 .. Len(s) + 1
        /\ \A i \in 1 .. Len(s) : (s \o t)[i] = s[i]
        /\ (s \o t)[Len(s) + 1] = b
    BY <2>1
  <2> QED BY <2>2 DEF b
<1>3. CASE t = <<Begin(n), End(n)>>
  <2> DEFINE b == Begin(n)
             e == End(n)
  <2>1. b \in Nat /\ e \in Nat /\ t = <<b, e>> BY <1>1, <1>3
  <2> HIDE DEF b, e
  <2>2. /\ s \o t \in Seq(Nat) /\ Len(t) = 2
        /\ DOMAIN (s \o t) = 1 .. Len(s) + 2
        /\ \A i \in 1 .. Len(s) : (s \o t)[i] = s[i]
        /\ (s \o t)[Len(s) + 1] = b /\ (s \o t)[Len(s) + 2] = e
    BY <2>1
  <2> QED BY <2>2 DEF b, e
<1> QED BY <1>2, <1>3

LEMMA IncreasingBehind ==
  ASSUME NEW s \in Seq(Nat), NEW n \in Nat, n > 0, Increasing(s),
         \A i \in DOMAIN s : s[i] < Begin(n),
         NEW t, t \in {<<Begin(n)>>, <<Begin(n), End(n)>>}
  PROVE  /\ Increasing(s \o t)
         /\ \A i \in DOMAIN (s \o t) : \/ i \in DOMAIN s /\ (s \o t)[i] = s[i]
                                       \/ (s \o t)[i] >= Begin(n)
         /\ \A i \in DOMAIN (s \o t) : (s \o t)[i] <= End(n)
<1> DEFINE u == s \o t
           k == Len(t)
<1>1. /\ k \in {1, 2}
      /\ DOMAIN u = 1 .. Len(s) + k
      /\ \A i \in 1 .. Len(s) : u[i] = s[i]
      /\ \A i \in DOMAIN u : i = Len(s) + 1 => u[i] = Begin(n)
      /\ \A i \in DOMAIN u : i = Len(s) + 2 => u[i] = End(n)
  <2>1. k \in {1, 2} BY LineBehind
  <2>2. DOMAIN u = 1 .. Len(s) + k BY LineBehind
  <2>3. \A i \in 1 .. Len(s) : u[i] = s[i] BY LineBehind
  <2>4. \A i \in DOMAIN u : i = Len(s) + 1 => u[i] = Begin(n) BY LineBehind
  <2>5. \A i \in DOMAIN u : i = Len(s) + 2 => u[i] = End(n) BY LineBehind
  <2> QED BY <2>1, <2>2, <2>3, <2>4, <2>5
<1>2. /\ Len(s) \in Nat /\ DOMAIN s = 1 .. Len(s) /\ \A i \in 1 .. Len(s) : s[i] \in Nat
  OBVIOUS
<1>3. \A i, j \in 1 .. Len(s) : i < j => s[i] < s[j] BY <1>2 DEF Increasing
<1>4. \A i \in 1 .. Len(s) : s[i] < 2 * n - 1 BY <1>2 DEF Begin
<1>5. Begin(n) = 2 * n - 1 /\ End(n) = 2 * n
  BY DEF Begin, End
<1> HIDE DEF u, k
<1>6. Increasing(u)
  <2> SUFFICES ASSUME NEW i \in DOMAIN u, NEW j \in DOMAIN u, i < j PROVE u[i] < u[j]
    BY DEF Increasing
  <2>1. i \in Nat /\ j \in Nat BY <1>1, <1>2
  <2>2. CASE j <= Len(s)
    <3>1. i \in 1 .. Len(s) /\ j \in 1 .. Len(s) BY <1>1, <1>2, <2>1, <2>2
    <3> QED BY <1>1, <1>3, <3>1
  <2>3. CASE j = Len(s) + 1
    <3>1. i \in 1 .. Len(s) BY <1>1, <1>2, <2>1, <2>3
    <3> QED BY <1>1, <1>2, <1>4, <1>5, <2>3, <3>1
  <2>4. CASE j = Len(s) + 2 /\ k = 2
    <3>1. i \in 1 .. Len(s) \/ i = Len(s) + 1 BY <1>1, <1>2, <2>1, <2>4
    <3>2. u[j] = 2 * n BY <1>1, <1>5, <2>4
    <3>3. CASE i \in 1 .. Len(s) BY <1>1, <1>2, <1>4, <3>2, <3>3
    <3>4. CASE i = Len(s) + 1 BY <1>1, <1>5, <3>2, <3>4
    <3> QED BY <3>1, <3>3, <3>4
  <2>5. j \in 1 .. Len(s) + k BY <1>1
  <2>6. j <= Len(s) \/ j = Len(s) + 1 \/ (j = Len(s) + 2 /\ k = 2)
    BY ONLY <1>1, <1>2, <2>1, <2>5
  <2> QED BY <2>2, <2>3, <2>4, <2>6
<1>7. ASSUME NEW i \in DOMAIN u
      PROVE  /\ (i \in DOMAIN s /\ u[i] = s[i]) \/ u[i] >= Begin(n)
             /\ u[i] <= End(n)
  <2>1. i \in 1 .. Len(s) \/ i = Len(s) + 1 \/ (i = Len(s) + 2 /\ k = 2)
    BY <1>1, <1>2
  <2>2. CASE i \in 1 .. Len(s) BY <1>1, <1>2, <1>4, <1>5, <2>2
  <2>3. CASE i = Len(s) + 1 BY <1>1, <1>5, <2>3
  <2>4. CASE i = Len(s) + 2 /\ k = 2 BY <1>1, <1>5, <2>4
  <2> QED BY <2>1, <2>2, <2>3, <2>4
<1> QED BY <1>6, <1>7 DEF u

\* The contents of a file: what it holds, and the buffer of the stream that is
\* open on it.
LEMMA ContentsType ==
  ASSUME TypeOK, NEW p \in Paths, NEW f \in File
  PROVE  /\ disk[p][f] \in Seq(Piece) /\ Contents(p, f) \in Seq(Piece)
         /\ disk[p][f] \in Seq(Nat) /\ Contents(p, f) \in Seq(Nat)
         /\ sink # NoSink => sink.file_stream.buffer \in Seq(Piece)
         /\ sink = NoSink \/ sink.log_file # p \/ sink.file_stream.file # f
              => Contents(p, f) = disk[p][f]
<1>1. disk[p][f] \in Seq(Piece) BY DEF TypeOK
<1>2. sink # NoSink => sink.file_stream.buffer \in Seq(Piece)
  BY DEF TypeOK, Sink, Stream
<1>3. << >> \in Seq(Piece) OBVIOUS
<1>4. Contents(p, f) \in Seq(Piece) BY <1>1, <1>2, <1>3, ConcatProperties DEF Contents
<1>5. sink = NoSink \/ sink.log_file # p \/ sink.file_stream.file # f
        => Contents(p, f) = disk[p][f]
  BY <1>1, ConcatEmptySeq DEF Contents
<1>6. Piece \subseteq Nat BY SinkFileAssumption DEF Piece
<1>7. disk[p][f] \in Seq(Nat) /\ Contents(p, f) \in Seq(Nat)
  BY <1>1, <1>4, <1>6, SeqMonotonic
<1> QED BY <1>1, <1>2, <1>4, <1>5, <1>7

\* A file is a prefix of its contents.
LEMMA DiskIsPrefix ==
  ASSUME TypeOK, NEW p \in Paths, NEW f \in File
  PROVE  \E t \in Seq(Nat) : Contents(p, f) = disk[p][f] \o t
<1>1. << >> \in Seq(Nat) OBVIOUS
<1>2. Piece \subseteq Nat BY SinkFileAssumption DEF Piece
<1>3. sink # NoSink => sink.file_stream.buffer \in Seq(Nat)
  BY <1>2, ContentsType, SeqMonotonic
<1> QED BY <1>1, <1>3 DEF Contents

\* Files that there have not been yet have no contents.
LEMMA NewContentsEmpty ==
  ASSUME TypeOK, OnNewest, NewFilesEmpty, NEW p \in Paths, NEW f \in File, f > files[p]
  PROVE  Contents(p, f) = << >>
<1>1. f \in Nat /\ files[p] \in Nat /\ f # Closed
  BY SinkFileAssumption DEF File, TypeOK, Closed
<1>2. sink = NoSink \/ sink.log_file # p \/ sink.file_stream.file # f
  BY <1>1 DEF OnNewest
<1> QED BY <1>2, ContentsType DEF NewFilesEmpty

\* close_file() moves the buffer to the end of the file.
LEMMA ClosedContents ==
  ASSUME TypeOK, sink # NoSink
  PROVE  /\ ClosedOn(disk, sink) \in Files
         /\ \A p \in Paths, f \in File : ClosedOn(disk, sink)[p][f] = Contents(p, f)
<1> DEFINE st == sink.file_stream
           q == sink.log_file
<1>1. st.file \in File \cup {Closed} /\ q \in Paths BY DEF TypeOK, Sink, Stream
<1>2. disk \in Files BY DEF TypeOK, Files
<1>3. CASE st.file = Closed
  <2>1. \A f \in File : st.file # f BY <1>3 DEF File, Closed
  <2> QED BY <1>2, <1>3, <2>1, ContentsType DEF ClosedOn
<1>4. CASE st.file # Closed
  <2>1. st.file \in File BY <1>1, <1>4
  <2> DEFINE new == disk[q][st.file] \o st.buffer
  <2>2. ClosedOn(disk, sink) = [disk EXCEPT ![q][st.file] = new]
    BY <1>4 DEF ClosedOn
  <2>3. Contents(q, st.file) = new BY DEF Contents
  <2>4. new \in Seq(Piece) BY <1>1, <2>1, <2>3, ContentsType
  <2>5. \A p \in Paths, f \in File : q # p \/ st.file # f => Contents(p, f) = disk[p][f]
    BY ContentsType
  <2> HIDE DEF new, st, q
  <2> DEFINE d == ClosedOn(disk, sink)
             h == st.file
  <2> HIDE DEF d, h
  <2>6. h \in File /\ q \in Paths /\ d = [disk EXCEPT ![q][h] = new]
    BY <1>1, <2>1, <2>2 DEF d, h
  <2>7. /\ d \in Files /\ d[q][h] = new
        /\ \A p \in Paths, f \in File : p # q \/ f # h => d[p][f] = disk[p][f]
    <3>1. d \in Files BY <1>2, <2>4, <2>6 DEF Files
    <3>2. d[q][h] = new BY <1>2, <2>4, <2>6 DEF Files
    <3>3. \A p \in Paths, f \in File : p # q \/ f # h => d[p][f] = disk[p][f]
      BY <1>2, <2>4, <2>6 DEF Files
    <3> QED BY <3>1, <3>2, <3>3
  <2> QED BY <2>3, <2>5, <2>7 DEF d, h
<1> QED BY <1>3, <1>4

-----------------------------------------------------------------------------
\* What the steps do to the contents of the files.

\* Steps that leave the contents alone, or end the program and lose a buffer.
LEMMA SameContentsIInv ==
  ASSUME IInv, TypeOK', OnNewest', NewFilesEmpty', ~ terminated,
         lines' \in {lines, lines + 1}, accepted' = accepted, terminated' => lines' = lines,
         \A p \in Paths, f \in File : \/ Contents(p, f)' = Contents(p, f)
                                      \/ terminated' /\ Contents(p, f)' = disk[p][f]
  PROVE  IInv' /\ PromisedStep
<1>1. lines \in Nat /\ lines' \in Nat /\ lines' >= lines
  <2>1. lines \in 0 .. MaxLines BY DEF IInv, TypeOK
  <2> QED BY <2>1, SinkFileAssumption
<1>2. ASSUME NEW p \in Paths, NEW f \in File
      PROVE  /\ Contents(p, f) \in Seq(Nat) /\ Contents(p, f)' \in Seq(Nat)
             /\ DOMAIN Contents(p, f)' \subseteq DOMAIN Contents(p, f)
             /\ \A i \in DOMAIN Contents(p, f)' : Contents(p, f)'[i] = Contents(p, f)[i]
             /\ Increasing(Contents(p, f)')
  <2>1. Contents(p, f) \in Seq(Nat) /\ disk[p][f] \in Seq(Nat) BY ContentsType DEF IInv
  <2>2. Increasing(Contents(p, f)) BY DEF IInv, LinesInOrder
  <2>3. CASE Contents(p, f)' = Contents(p, f) BY <2>1, <2>2, <2>3
  <2>4. CASE Contents(p, f)' = disk[p][f]
    <3>1. PICK t \in Seq(Nat) : Contents(p, f) = disk[p][f] \o t BY DiskIsPrefix DEF IInv
    <3>2. Increasing(disk[p][f]) BY <2>1, <2>2, <3>1, IncreasingPrefix
    <3>3. /\ DOMAIN disk[p][f] \subseteq DOMAIN Contents(p, f)
          /\ \A i \in DOMAIN disk[p][f] : disk[p][f][i] = Contents(p, f)[i]
      BY <2>1, <3>1
    <3> QED BY <2>1, <2>4, <3>2, <3>3
  <2> QED BY <2>3, <2>4
<1>3. NoFutureLines'
  <2>1. ASSUME NEW p \in Paths, NEW f \in File, NEW i \in DOMAIN Contents(p, f)'
        PROVE  Contents(p, f)'[i] <= 2 * lines'
    <3>1. i \in DOMAIN Contents(p, f) /\ Contents(p, f)'[i] = Contents(p, f)[i] BY <1>2
    <3>2. Contents(p, f)[i] \in Nat BY <1>2, <3>1
    <3>3. Contents(p, f)[i] <= 2 * lines BY <3>1 DEF IInv, NoFutureLines
    <3> QED BY <1>1, <3>1, <3>2, <3>3
  <2> QED BY <2>1 DEF NoFutureLines
<1>4. LinesInOrder'
  <2>1. \A p \in Paths : \A f, g \in File : f < g =>
          \A i \in DOMAIN Contents(p, f)', j \in DOMAIN Contents(p, g)' :
            Contents(p, f)'[i] < Contents(p, g)'[j]
    BY <1>2 DEF IInv, LinesInOrder
  <2> QED BY <1>2, <2>1 DEF LinesInOrder
<1>5. NothingLost'
  <2>1. ~ terminated' => \A p \in Paths, f \in File : Contents(p, f)' = Contents(p, f)
    OBVIOUS
  <2> QED BY <2>1 DEF IInv, NothingLost, Begin, End
<1> DEFINE held == [p \in Paths |-> [f \in File |-> Contents(p, f)]]
<1>6. ASSUME ~ terminated' PROVE PromisedStep
  <2>1. terminated' = terminated BY <1>6 DEF IInv, TypeOK
  <2>2. held' = held BY <1>6
  <2> QED BY <2>1, <2>2 DEF PromisedStep, Promise!Next, Promise!Drop, Promise!vars
<1>7. ASSUME terminated' PROVE PromisedStep
  <2>1. ASSUME NEW p \in Paths, NEW f \in File
        PROVE  \E n \in 0 .. Len(Contents(p, f)) :
                 Contents(p, f)' = SubSeq(Contents(p, f), 1, n)
    <3>1. Contents(p, f) \in Seq(Nat) /\ disk[p][f] \in Seq(Nat) BY ContentsType DEF IInv
    <3>2. CASE Contents(p, f)' = Contents(p, f)
      <4>1. /\ Len(Contents(p, f)) \in 0 .. Len(Contents(p, f))
            /\ Contents(p, f) = SubSeq(Contents(p, f), 1, Len(Contents(p, f)))
        BY <3>1
      <4> QED BY <3>2, <4>1
    <3>3. CASE Contents(p, f)' = disk[p][f]
      <4>1. PICK t \in Seq(Nat) : Contents(p, f) = disk[p][f] \o t BY DiskIsPrefix DEF IInv
      <4>2. /\ Len(disk[p][f]) \in 0 .. Len(Contents(p, f))
            /\ disk[p][f] = SubSeq(Contents(p, f), 1, Len(disk[p][f]))
        BY <3>1, <4>1
      <4> QED BY <3>3, <4>2
    <3> QED BY <3>2, <3>3
  <2>2. /\ DOMAIN held' = Paths
        /\ \A p \in Paths :
             /\ DOMAIN held'[p] = File
             /\ \A f \in File : \E n \in 0 .. Len(held[p][f]) :
                  held'[p][f] = SubSeq(held[p][f], 1, n)
    BY <2>1
  <2>3. terminated' = TRUE /\ lines' = lines BY <1>7
  <2>4. Promise!Terminate BY <2>2, <2>3 DEF Promise!Terminate
  <2> QED BY <2>4 DEF PromisedStep, Promise!Next
<1> QED BY <1>3, <1>4, <1>5, <1>6, <1>7 DEF IInv

\* Steps that put the next line, or the beginning of it, behind the contents of
\* the newest file of a path.
LEMMA OneMoreLineIInv ==
  ASSUME IInv, TypeOK', OnNewest', NewFilesEmpty', ~ terminated,
         NEW q \in Paths, NEW newest \in File, newest = files[q],
         NEW added, added \in {<<Begin(lines + 1)>>, NextLine},
         terminated' = terminated, lines' = lines + 1,
         accepted' = accepted \/ (added = NextLine /\ accepted' = accepted \cup {lines + 1}),
         Contents(q, newest)' = Contents(q, newest) \o added,
         \A p \in Paths, f \in File :
           p # q \/ f # newest => Contents(p, f)' = Contents(p, f)
  PROVE  IInv' /\ PromisedStep
<1> DEFINE old == Contents(q, newest)
           new == old \o added
           n == lines + 1
<1>1. /\ lines \in Nat /\ n \in Nat /\ n > 0 /\ files[q] \in Nat /\ File \subseteq Nat
      /\ added \in {<<Begin(n)>>, <<Begin(n), End(n)>>}
  BY SinkFileAssumption DEF IInv, TypeOK, File, NextLine
<1>2. \A p \in Paths, f \in File : /\ Contents(p, f) \in Seq(Nat)
                                   /\ Increasing(Contents(p, f))
  BY ContentsType DEF IInv, LinesInOrder
<1>3. old \in Seq(Nat) /\ Increasing(old) BY <1>2
<1>4. \A p \in Paths, f \in File : \A i \in DOMAIN Contents(p, f) :
        Contents(p, f)[i] \in Nat /\ Contents(p, f)[i] <= 2 * lines
  BY <1>2 DEF IInv, NoFutureLines
<1>5. Begin(n) = 2 * lines + 1 /\ End(n) = 2 * lines + 2 /\ 2 * lines' = 2 * lines + 2
  BY <1>1 DEF Begin, End
<1>6. \A i \in DOMAIN old : old[i] < Begin(n) BY <1>1, <1>4, <1>5
<1> HIDE DEF n
<1>7. /\ Increasing(new)
      /\ \A i \in DOMAIN new : \/ i \in DOMAIN old /\ new[i] = old[i]
                               \/ new[i] >= Begin(n)
      /\ \A i \in DOMAIN new : new[i] <= End(n)
  <2> HIDE DEF old
  <2>1. Increasing(new) BY <1>1, <1>3, <1>6, IncreasingBehind
  <2>2. \A i \in DOMAIN new : \/ i \in DOMAIN old /\ new[i] = old[i]
                              \/ new[i] >= Begin(n)
    BY <1>1, <1>3, <1>6, IncreasingBehind
  <2>3. \A i \in DOMAIN new : new[i] <= End(n) BY <1>1, <1>3, <1>6, IncreasingBehind
  <2> QED BY <2>1, <2>2, <2>3
<1>8. new \in Seq(Nat)
  <2> HIDE DEF old
  <2> QED BY <1>1, <1>3, LineBehind
<1>9. Contents(q, newest)' = new OBVIOUS
<1> HIDE DEF new
<1>10. \A f \in File : f > newest => Contents(q, f) = << >>
  BY NewContentsEmpty DEF IInv
<1>11. NoFutureLines'
  <2>1. ASSUME NEW p \in Paths, NEW f \in File, NEW i \in DOMAIN Contents(p, f)'
        PROVE  Contents(p, f)'[i] <= 2 * lines'
    <3>1. CASE p = q /\ f = newest BY <1>5, <1>7, <1>9, <3>1
    <3>2. CASE p # q \/ f # newest
      <4>1. Contents(p, f)' = Contents(p, f) BY <3>2
      <4>2. Contents(p, f)[i] \in Nat /\ Contents(p, f)[i] <= 2 * lines BY <1>4, <4>1
      <4> QED BY <1>1, <1>5, <4>1, <4>2
    <3> QED BY <3>1, <3>2
  <2> QED BY <2>1 DEF NoFutureLines
<1>12. LinesInOrder'
  <2>1. \A p \in Paths, f \in File : Increasing(Contents(p, f)') BY <1>2, <1>7, <1>9
  <2>2. ASSUME NEW p \in Paths, NEW f \in File, NEW g \in File, f < g,
               NEW i \in DOMAIN Contents(p, f)', NEW j \in DOMAIN Contents(p, g)'
        PROVE  Contents(p, f)'[i] < Contents(p, g)'[j]
    <3>1. CASE p = q /\ f = newest
      <4>1. Contents(p, g) = << >> BY <1>1, <1>10, <2>2, <3>1
      <4>2. p # q \/ g # newest BY <1>1, <2>2, <3>1
      <4>3. Contents(p, g)' = << >> BY <4>1, <4>2
      <4> QED BY <4>3
    <3>2. CASE p = q /\ f # newest /\ g = newest
      <4>1. Contents(p, f)' = Contents(p, f) BY <3>2
      <4>2. CASE Contents(p, g)'[j] >= Begin(n)
        <5>1. Contents(p, f)[i] \in Nat /\ Contents(p, f)[i] <= 2 * lines BY <1>4, <4>1
        <5>2. Contents(p, g)'[j] \in Nat BY <1>8, <1>9, <3>2
        <5> QED BY <1>1, <1>5, <4>1, <4>2, <5>1, <5>2
      <4>3. CASE j \in DOMAIN old /\ Contents(p, g)'[j] = old[j]
        BY <2>2, <3>2, <4>1, <4>3 DEF IInv, LinesInOrder
      <4> QED BY <1>7, <1>9, <3>2, <4>2, <4>3
    <3>3. CASE p # q \/ (f # newest /\ g # newest)
      <4>1. Contents(p, f)' = Contents(p, f) /\ Contents(p, g)' = Contents(p, g) BY <3>3
      <4> QED BY <2>2, <4>1 DEF IInv, LinesInOrder
    <3> QED BY <3>1, <3>2, <3>3
  <2> QED BY <2>1, <2>2 DEF LinesInOrder
<1>13. NothingLost'
  <2>1. ASSUME NEW m \in accepted'
        PROVE  \E p \in Paths, f \in File : \E i \in DOMAIN Contents(p, f)' :
                 /\ i + 1 \in DOMAIN Contents(p, f)'
                 /\ Contents(p, f)'[i] = Begin(m) /\ Contents(p, f)'[i + 1] = End(m)
    <3>1. CASE m \notin accepted
      <4>1. added = <<Begin(n), End(n)>> /\ m = n BY <2>1, <3>1 DEF NextLine, n
      <4>2. /\ Len(old) + 1 \in DOMAIN new /\ Len(old) + 1 + 1 \in DOMAIN new
            /\ new[Len(old) + 1] = Begin(n) /\ new[Len(old) + 1 + 1] = End(n)
        <5> HIDE DEF old
        <5> DEFINE b == Begin(n)
                   e == End(n)
        <5>1. new = old \o <<b, e>> /\ old \in Seq(Nat) BY <1>3, <4>1 DEF new
        <5> HIDE DEF b, e
        <5>2. /\ Len(old) + 1 \in DOMAIN new /\ Len(old) + 1 + 1 \in DOMAIN new
              /\ new[Len(old) + 1] = b /\ new[Len(old) + 1 + 1] = e
          BY ONLY <5>1
        <5> QED BY <5>2 DEF b, e
      <4> QED BY <1>9, <4>1, <4>2
    <3>2. CASE m \in accepted
      <4>1. PICK p \in Paths, f \in File : \E i \in DOMAIN Contents(p, f) :
              /\ i + 1 \in DOMAIN Contents(p, f)
              /\ Contents(p, f)[i] = Begin(m) /\ Contents(p, f)[i + 1] = End(m)
        BY <3>2 DEF IInv, NothingLost
      <4>2. CASE p # q \/ f # newest
        <5>1. Contents(p, f)' = Contents(p, f) BY <4>2
        <5> QED BY <4>1, <5>1
      <4>3. CASE p = q /\ f = newest
        <5>1. PICK i \in DOMAIN old :
                i + 1 \in DOMAIN old /\ old[i] = Begin(m) /\ old[i + 1] = End(m)
          BY <4>1, <4>3
        <5>2. \A k \in DOMAIN old : k \in DOMAIN new /\ new[k] = old[k]
          <6> HIDE DEF old
          <6>1. added \in Seq(Nat)
            BY <1>1 DEF Begin, End
          <6> QED BY <1>3, <6>1 DEF new
        <5> QED BY <1>9, <5>1, <5>2
      <4> QED BY <4>2, <4>3
    <3> QED BY <3>1, <3>2
  <2> QED BY <2>1 DEF NothingLost, Begin, End
<1>14. Promise!Add(q, newest)
  <2> DEFINE held == [p \in Paths |-> [f \in File |-> Contents(p, f)]]
  <2>1. held' = [held EXCEPT ![q][newest] = held[q][newest] \o added]
    <3>1. held[q][newest] \o added = new BY DEF new
    <3>2. held' = [p \in Paths |-> [f \in File |-> IF p = q /\ f = newest THEN new
                                                  ELSE Contents(p, f)]]
      BY <1>9
    <3>3. [held EXCEPT ![q][newest] = new]
            = [p \in Paths |-> [f \in File |-> IF p = q /\ f = newest THEN new
                                              ELSE Contents(p, f)]]
      OBVIOUS
    <3> QED BY <3>1, <3>2, <3>3
  <2>2. \A g \in File : g > newest => held[q][g] = << >> BY <1>10
  <2>3. /\ Promise!Begin(lines + 1) = Begin(lines + 1) /\ Promise!End(lines + 1) = End(lines + 1)
    BY DEF Promise!Begin, Promise!End, Begin, End
  <2>4. \/ added = <<Promise!Begin(lines + 1), Promise!End(lines + 1)>>
        \/ added = <<Promise!Begin(lines + 1)>> /\ accepted' = accepted
    BY <2>3 DEF NextLine
  <2> HIDE DEF held
  <2>5. \/ /\ held' = [held EXCEPT ![q][newest] = @ \o <<Promise!Begin(lines + 1), Promise!End(lines + 1)>>]
           /\ accepted' \in {accepted, accepted \cup {lines + 1}}
        \/ /\ held' = [held EXCEPT ![q][newest] = @ \o <<Promise!Begin(lines + 1)>>]
           /\ UNCHANGED accepted
    BY <2>1, <2>4
  <2> QED BY <2>2, <2>5 DEF Promise!Add, held
<1> QED BY <1>11, <1>12, <1>13, <1>14 DEF IInv, PromisedStep, Promise!Next

-----------------------------------------------------------------------------
\* Each step preserves the invariant.

LEMMA InitIInv == Init => IInv
<1> SUFFICES ASSUME Init PROVE IInv OBVIOUS
<1>1. TypeOK
  <2>1. << >> \in Seq(Piece) OBVIOUS
  <2>2. disk \in [Paths -> [File -> Seq(Piece)]] BY <2>1 DEF Init
  <2>3. files \in [Paths -> 0 .. MaxFiles] /\ lines \in 0 .. MaxLines
    BY SinkFileAssumption DEF Init
  <2> QED BY <2>2, <2>3 DEF TypeOK, Init, Closed
<1>2. \A p \in Paths, f \in File : disk[p][f] = << >> /\ Contents(p, f) = << >>
  BY <1>1, ContentsType DEF Init
<1>3. OnNewest /\ NewFilesEmpty /\ NoFutureLines
  BY <1>2 DEF Init, OnNewest, NewFilesEmpty, NoFutureLines
<1>4. LinesInOrder
  <2>1. DOMAIN << >> = {} OBVIOUS
  <2>2. Increasing(<< >>) BY <2>1 DEF Increasing
  <2> QED BY <1>2, <2>1, <2>2 DEF LinesInOrder
<1>5. NothingLost BY DEF Init, NothingLost
<1> QED BY <1>1, <1>3, <1>4, <1>5 DEF IInv

\* Types of the counters and the files at the paths.
PathsOK ==
  /\ files \in [Paths -> 0 .. MaxFiles]
  /\ path \in [Paths -> {Closed} \cup File]
  /\ \A p \in Paths : path[p] \in {Closed, files[p]}

\* What open_file() leaves.
LEMMA Opening ==
  ASSUME TypeOK, NEW p \in Paths, NEW opened \in Opens(p), Placed(p, opened)
  PROVE  /\ opened \in BOOLEAN
         /\ OpenFile(p, opened) \in Stream /\ OpenFile(p, opened).buffer = << >>
         /\ PathsOK' /\ \A q \in Paths : files'[q] >= files[q]
         /\ OpenFile(p, opened).file \in {Closed, files'[p]}
<1>1. /\ files[p] \in Nat /\ files[p] <= MaxFiles /\ MaxFiles \in Nat \ {0}
      /\ path[p] = Closed \/ path[p] = files[p]
      /\ path[p] # Closed => path[p] \in File
      /\ PathsOK
  BY SinkFileAssumption DEF TypeOK, PathsOK
<1>2. opened \in BOOLEAN BY DEF Opens
<1>3. ClosedStream \in Stream /\ ClosedStream.file = Closed /\ ClosedStream.buffer = << >>
  <2>1. << >> \in Seq(Piece) OBVIOUS
  <2> QED BY <2>1 DEF ClosedStream, Stream
<1>4. CASE ~ opened
  <2>1. OpenFile(p, opened) = ClosedStream /\ path' = path /\ files' = files
    BY <1>4 DEF OpenFile, Placed
  <2>2. \A q \in Paths : files[q] \in Nat BY <1>1, SinkFileAssumption DEF PathsOK
  <2> QED BY <1>1, <1>2, <1>3, <2>1, <2>2 DEF PathsOK
<1>5. CASE opened
  <2> DEFINE t == Target(p)
  <2>1. t <= MaxFiles BY <1>5 DEF Opens
  <2>2. /\ t \in File /\ t >= files[p]
        /\ t = IF path[p] = Closed THEN files[p] + 1 ELSE files[p]
    BY <1>1, <2>1 DEF Target, File
  <2>3. OpenFile(p, opened) = [ClosedStream EXCEPT !.file = t] BY <1>5 DEF OpenFile
  <2>4. path' = [path EXCEPT ![p] = t] BY <1>5 DEF Placed
  <2>5. files' = [files EXCEPT ![p] = t]
    <3>1. CASE path[p] = Closed BY <1>5, <2>2, <3>1 DEF Placed
    <3>2. CASE path[p] # Closed
      <4>1. files' = files /\ t = files[p] BY <1>5, <2>2, <3>2 DEF Placed
      <4> QED BY <1>1, <4>1 DEF PathsOK
    <3> QED BY <3>1, <3>2
  <2> HIDE DEF t
  <2>6. /\ OpenFile(p, opened) \in Stream /\ OpenFile(p, opened).file = t
        /\ OpenFile(p, opened).buffer = << >>
    BY <1>3, <2>2, <2>3 DEF Stream, ClosedStream
  <2>7. t \in 0 .. MaxFiles BY <2>2, SinkFileAssumption DEF File
  <2>8. PathsOK'
    <3>1. files' \in [Paths -> 0 .. MaxFiles] BY <1>1, <2>5, <2>7 DEF PathsOK
    <3>2. path' \in [Paths -> {Closed} \cup File] BY <1>1, <2>2, <2>4 DEF PathsOK
    <3>3. \A q \in Paths : path'[q] \in {Closed, files'[q]}
      BY <1>1, <2>4, <2>5 DEF PathsOK
    <3> QED BY <3>1, <3>2, <3>3 DEF PathsOK
  <2>9. \A q \in Paths : files'[q] >= files[q]
    <3>1. \A q \in Paths : files[q] \in Nat BY <1>1, SinkFileAssumption DEF PathsOK
    <3>2. \A q \in Paths : files'[q] = IF q = p THEN t ELSE files[q]
      BY <1>1, <2>5 DEF PathsOK
    <3> QED BY <2>2, <3>1, <3>2
  <2>10. files'[p] = t BY <1>1, <2>5 DEF PathsOK
  <2> QED BY <1>2, <2>6, <2>8, <2>9, <2>10
<1> QED BY <1>2, <1>4, <1>5

\* Steps after which the stream's buffer is empty, and either was so before or
\* was written to its file, or was lost with the program.
LEMMA EmptyBufferIInv ==
  ASSUME IInv, ~ terminated, terminated' \in BOOLEAN, accepted' = accepted, lines' = lines,
         signal_SIGUSR1' \in BOOLEAN, PathsOK', \A q \in Paths : files'[q] >= files[q],
         sink' \in Sink \cup {NoSink},
         sink' # NoSink => /\ sink'.file_stream.buffer = << >>
                           /\ sink'.file_stream.file \in {Closed, files'[sink'.log_file]},
         \/ sink # NoSink /\ disk' = ClosedOn(disk, sink)
         \/ disk' = disk /\ \A p \in Paths, f \in File :
                              terminated' \/ Contents(p, f) = disk[p][f]
  PROVE  IInv' /\ PromisedStep
<1>1. disk' \in Files
  BY ClosedContents DEF IInv, TypeOK, Files
<1>2. TypeOK' BY <1>1 DEF IInv, TypeOK, PathsOK, Files
<1>3. OnNewest' BY DEF OnNewest
<1>4. \A p \in Paths, f \in File :
        disk'[p][f] = Contents(p, f) \/ (terminated' /\ disk'[p][f] = disk[p][f])
  BY ClosedContents DEF IInv
<1>5. ASSUME NEW p \in Paths, NEW f \in File PROVE Contents(p, f)' = disk'[p][f]
  <2>1. disk'[p][f] \in Seq(Piece) BY <1>1 DEF Files
  <2>2. disk'[p][f] \o << >> = disk'[p][f] BY <2>1, ConcatEmptySeq
  <2> DEFINE rest == IF sink' # NoSink /\ sink'.log_file = p /\ sink'.file_stream.file = f
                     THEN sink'.file_stream.buffer ELSE << >>
  <2>3. rest = << >> OBVIOUS
  <2>4. Contents(p, f)' = disk'[p][f] \o rest BY DEF Contents
  <2> QED BY <2>2, <2>3, <2>4
<1>6. NewFilesEmpty'
  <2> SUFFICES ASSUME NEW p \in Paths, NEW f \in File, f > files'[p]
               PROVE  disk'[p][f] = << >>
    BY DEF NewFilesEmpty
  <2>1. f \in Nat /\ files[p] \in Nat /\ files'[p] \in Nat /\ files'[p] >= files[p]
    BY SinkFileAssumption DEF File, IInv, TypeOK, PathsOK
  <2>2. f > files[p] BY <2>1
  <2>3. disk[p][f] = << >> /\ Contents(p, f) = << >>
    BY <2>2, NewContentsEmpty DEF IInv, NewFilesEmpty
  <2> QED BY <1>4, <2>3
<1> QED BY <1>2, <1>3, <1>4, <1>5, <1>6, SameContentsIInv

LEMMA InitFileSinkIInv ==
  ASSUME IInv, NEW p \in Paths, NEW on \in BOOLEAN, NEW flush \in BOOLEAN,
         InitFileSink(p, on, flush)
  PROVE  IInv' /\ PromisedStep
<1>1. /\ ~ terminated
      /\ UNCHANGED <<signal_SIGUSR1, lines, accepted>>
  BY DEF InitFileSink, historyVars
<1>2. PICK opened \in IF on THEN Opens(p) ELSE {FALSE} :
        /\ IF sink = NoSink
           THEN disk' = OpenedOn(disk, p, opened) /\ UNCHANGED terminated
           ELSE \E throws \in CloseThrows(sink.file_stream) :
                  /\ disk' = IF throws THEN OpenedOn(disk, p, opened)
                             ELSE ClosedOn(OpenedOn(disk, p, opened), sink)
                  /\ terminated' = throws
        /\ sink' = Built(p, on, flush, opened)
        /\ Placed(p, opened)
  BY DEF InitFileSink
<1>3. TypeOK /\ signal_SIGUSR1' \in BOOLEAN /\ terminated \in BOOLEAN
  BY <1>1 DEF IInv, TypeOK
<1> DEFINE stream == OpenFile(p, opened)
<1>4. /\ PathsOK' /\ \A q \in Paths : files'[q] >= files[q]
      /\ stream \in Stream /\ stream.buffer = << >> /\ stream.file \in {Closed, files'[p]}
  <2>1. CASE on BY <1>2, <1>3, <2>1, Opening
  <2>2. CASE ~ on
    <3>1. << >> \in Seq(Piece) OBVIOUS
    <3>2. opened = FALSE BY <1>2, <2>2
    <3>3. stream = [file |-> Closed, buffer |-> << >>, failed |-> FALSE]
      BY <3>2 DEF OpenFile, ClosedStream
    <3>4. path' = path /\ files' = files BY <1>2, <3>2 DEF Placed
    <3>5. \A q \in Paths : files[q] \in Nat BY <1>3, SinkFileAssumption DEF TypeOK
    <3>6. PathsOK' BY <1>3, <3>4 DEF PathsOK, TypeOK
    <3> HIDE DEF stream
    <3> QED BY <3>1, <3>3, <3>4, <3>5, <3>6 DEF Stream
  <2> QED BY <2>1, <2>2
<1> HIDE DEF stream
<1>5. /\ sink' \in Sink /\ sink'.log_file = p
      /\ sink'.file_stream.buffer = << >> /\ sink'.file_stream.file \in {Closed, files'[p]}
  <2>1. sink' = [log_file |-> p, enabled |-> on, flush_buffer |-> flush, file_stream |-> stream]
    BY <1>2 DEF Built, stream
  <2> QED BY <1>4, <2>1 DEF Sink
<1>6. /\ terminated' \in BOOLEAN
      /\ \/ sink # NoSink /\ disk' = ClosedOn(disk, sink)
         \/ disk' = disk /\ \A q \in Paths, f \in File :
                              terminated' \/ Contents(q, f) = disk[q][f]
  <2>1. OpenedOn(disk, p, opened) = disk BY DEF OpenedOn
  <2>2. CASE sink = NoSink
    <3>1. disk' = disk /\ terminated' = terminated BY <1>2, <2>1, <2>2
    <3>2. \A q \in Paths, f \in File : Contents(q, f) = disk[q][f]
      BY <1>3, <2>2, ContentsType
    <3> QED BY <1>3, <3>1, <3>2
  <2>3. CASE sink # NoSink
    <3>1. PICK throws \in CloseThrows(sink.file_stream) :
            /\ disk' = IF throws THEN disk ELSE ClosedOn(disk, sink)
            /\ terminated' = throws
      BY <1>2, <2>1, <2>3
    <3>2. throws \in BOOLEAN BY <3>1 DEF CloseThrows
    <3> QED BY <2>3, <3>1, <3>2
  <2> QED BY <2>2, <2>3
<1> QED BY <1>1, <1>3, <1>4, <1>5, <1>6, EmptyBufferIInv

\* Types of what most steps leave alone.
LEMMA OldPaths ==
  ASSUME IInv
  PROVE  /\ PathsOK /\ \A q \in Paths : files[q] \in Nat
         /\ signal_SIGUSR1 \in BOOLEAN /\ terminated \in BOOLEAN
         /\ lines \in 0 .. MaxLines /\ lines <= MaxLines
         /\ sink \in Sink \cup {NoSink}
         /\ sink # NoSink => sink.log_file \in Paths /\ sink.file_stream \in Stream
BY SinkFileAssumption DEF IInv, TypeOK, PathsOK, Sink

LEMMA DiscardSinkIInv ==
  ASSUME IInv, DiscardSink
  PROVE  IInv' /\ PromisedStep
<1>1. /\ ~ terminated /\ sink # NoSink /\ sink' = NoSink
      /\ UNCHANGED <<signal_SIGUSR1, lines, accepted, path, files>>
  BY DEF DiscardSink, historyVars
<1>2. PICK throws \in CloseThrows(sink.file_stream) :
        /\ disk' = IF throws THEN disk ELSE ClosedOn(disk, sink)
        /\ terminated' = throws
  BY DEF DiscardSink
<1>3. throws \in BOOLEAN BY <1>2 DEF CloseThrows
<1>4. /\ signal_SIGUSR1' \in BOOLEAN /\ PathsOK'
      /\ \A q \in Paths : files'[q] >= files[q]
  BY <1>1, OldPaths DEF PathsOK
<1> QED BY <1>1, <1>2, <1>3, <1>4, EmptyBufferIInv

LEMMA EnableClosedIInv ==
  ASSUME IInv, EnableClosed
  PROVE  IInv' /\ PromisedStep
<1> DEFINE q == sink.log_file
<1>1. /\ ~ terminated /\ sink # NoSink /\ sink.file_stream.file = Closed
      /\ UNCHANGED <<signal_SIGUSR1, lines, accepted, terminated>>
  BY DEF EnableClosed, historyVars
<1>2. PICK opened \in Opens(q) :
        /\ sink' = [sink EXCEPT !.enabled = TRUE, !.file_stream = OpenFile(q, opened)]
        /\ disk' = disk
        /\ Placed(q, opened)
  BY DEF EnableClosed, OpenedOn
<1>3. TypeOK /\ sink \in Sink /\ q \in Paths BY <1>1, OldPaths DEF IInv
<1> DEFINE stream == OpenFile(q, opened)
<1>4. /\ PathsOK' /\ \A p \in Paths : files'[p] >= files[p]
      /\ stream \in Stream /\ stream.buffer = << >> /\ stream.file \in {Closed, files'[q]}
  BY <1>2, <1>3, Opening
<1> HIDE DEF stream
<1>5. sink' \in Sink /\ sink'.file_stream = stream /\ sink'.log_file = q
  <2>1. sink' = [sink EXCEPT !.enabled = TRUE, !.file_stream = stream] BY <1>2 DEF stream
  <2> QED BY <1>3, <1>4, <2>1 DEF Sink
<1>6. \A p \in Paths, f \in File : Contents(p, f) = disk[p][f]
  <2>1. \A f \in File : sink.file_stream.file # f BY <1>1 DEF File, Closed
  <2> QED BY <1>3, <2>1, ContentsType
<1>7. signal_SIGUSR1' \in BOOLEAN /\ terminated' \in BOOLEAN BY <1>1, OldPaths
<1> QED BY <1>1, <1>2, <1>4, <1>5, <1>6, <1>7, EmptyBufferIInv

\* Steps that leave the files and the stream's file and buffer as they are.
LEMMA KeptIInv ==
  ASSUME IInv, ~ terminated, terminated' = terminated, accepted' = accepted,
         lines' \in {lines, lines + 1}, lines' <= MaxLines, disk' = disk, files' = files,
         PathsOK', signal_SIGUSR1' \in BOOLEAN, sink' \in Sink \cup {NoSink},
         sink' = NoSink <=> sink = NoSink,
         sink # NoSink => /\ sink'.log_file = sink.log_file
                          /\ sink'.file_stream.file = sink.file_stream.file
                          /\ sink'.file_stream.buffer = sink.file_stream.buffer
  PROVE  IInv' /\ PromisedStep
<1>1. lines' \in 0 .. MaxLines BY SinkFileAssumption DEF IInv, TypeOK
<1>2. TypeOK' BY <1>1 DEF IInv, TypeOK, PathsOK
<1>3. OnNewest' BY DEF IInv, OnNewest
<1>4. NewFilesEmpty' BY DEF IInv, NewFilesEmpty
<1>5. \A p \in Paths, f \in File : Contents(p, f)' = Contents(p, f) BY DEF Contents
<1> QED BY <1>2, <1>3, <1>4, <1>5, SameContentsIInv

LEMMA EnableOpenIInv ==
  ASSUME IInv, EnableOpen
  PROVE  IInv' /\ PromisedStep
<1>1. /\ ~ terminated /\ sink # NoSink
      /\ UNCHANGED <<signal_SIGUSR1, lines, accepted, path, files, terminated>>
  BY DEF EnableOpen, historyVars
<1>2. PICK throws \in CloseThrows(sink.file_stream) :
        /\ disk' = IF throws THEN disk ELSE ClosedOn(disk, sink)
        /\ sink' = [sink EXCEPT !.enabled = TRUE,
                      !.file_stream = IF throws THEN [@ EXCEPT !.failed = TRUE]
                                                ELSE ClosedStream]
  BY DEF EnableOpen
<1>3. sink \in Sink /\ sink.file_stream \in Stream /\ lines <= MaxLines
  BY <1>1, OldPaths
<1>4. /\ signal_SIGUSR1' \in BOOLEAN /\ terminated' \in BOOLEAN
      /\ PathsOK' /\ \A q \in Paths : files'[q] >= files[q]
      /\ NoSink \notin Sink
  BY <1>1, NoSinkAssumption, OldPaths DEF PathsOK
<1>5. CASE throws
  <2> DEFINE stream == [sink.file_stream EXCEPT !.failed = TRUE]
  <2>1. /\ stream \in Stream /\ stream.file = sink.file_stream.file
        /\ stream.buffer = sink.file_stream.buffer
    BY <1>3 DEF Stream
  <2>2. sink' = [sink EXCEPT !.enabled = TRUE, !.file_stream = stream] /\ disk' = disk
    BY <1>2, <1>5
  <2> HIDE DEF stream
  <2>3. sink' \in Sink /\ sink'.file_stream = stream /\ sink'.log_file = sink.log_file
    BY <1>3, <2>1, <2>2 DEF Sink
  <2> QED BY <1>1, <1>3, <1>4, <2>1, <2>2, <2>3, KeptIInv
<1>6. CASE ~ throws
  <2>1. << >> \in Seq(Piece) OBVIOUS
  <2>2. ClosedStream \in Stream /\ ClosedStream.buffer = << >> /\ ClosedStream.file = Closed
    BY <2>1 DEF ClosedStream, Stream
  <2>3. sink' = [sink EXCEPT !.enabled = TRUE, !.file_stream = ClosedStream]
        /\ disk' = ClosedOn(disk, sink)
    BY <1>2, <1>6
  <2>4. sink' \in Sink /\ sink'.file_stream = ClosedStream BY <1>3, <2>2, <2>3 DEF Sink
  <2> QED BY <1>1, <1>4, <2>2, <2>3, <2>4, EmptyBufferIInv
<1> QED BY <1>5, <1>6

LEMMA DisableIInv ==
  ASSUME IInv, Disable
  PROVE  IInv' /\ PromisedStep
<1>1. /\ ~ terminated /\ sink # NoSink
      /\ UNCHANGED <<signal_SIGUSR1, lines, accepted, disk, path, files, terminated>>
      /\ sink' = [sink EXCEPT !.enabled = FALSE]
  BY DEF Disable, historyVars
<1>2. sink \in Sink /\ lines <= MaxLines BY <1>1, OldPaths
<1>3. /\ sink' \in Sink /\ sink'.file_stream = sink.file_stream
      /\ sink'.log_file = sink.log_file
  BY <1>1, <1>2 DEF Sink
<1>4. PathsOK' /\ signal_SIGUSR1' \in BOOLEAN BY <1>1, OldPaths DEF PathsOK
<1> QED BY <1>1, <1>2, <1>3, <1>4, NoSinkAssumption, KeptIInv

LEMMA LogrotateIInv ==
  ASSUME IInv, NEW p \in Paths, Logrotate(p)
  PROVE  IInv' /\ PromisedStep
<1>1. /\ ~ terminated /\ path' = [path EXCEPT ![p] = Closed] /\ signal_SIGUSR1' = TRUE
      /\ UNCHANGED <<lines, accepted, sink, disk, files, terminated>>
  BY DEF Logrotate, historyVars
<1>2. PathsOK' BY <1>1, OldPaths DEF PathsOK
<1>3. sink' \in Sink \cup {NoSink} /\ lines <= MaxLines BY <1>1, OldPaths
<1> QED BY <1>1, <1>2, <1>3, KeptIInv

\* What a step of the sink's Write() has in common.
LEMMA Writing ==
  ASSUME IInv, NEW stream \in Stream, NEW d, NEW acc, Write(stream, d, acc)
  PROVE  /\ ~ terminated /\ sink # NoSink /\ sink \in Sink
         /\ lines + 1 \in Line /\ lines' = lines + 1 /\ lines' \in 0 .. MaxLines
         /\ disk' = d /\ accepted' = accepted \cup acc
         /\ sink' \in Sink /\ sink' # NoSink /\ sink'.file_stream = stream
         /\ sink'.log_file = sink.log_file
         /\ UNCHANGED <<path, files, signal_SIGUSR1, terminated>>
         /\ signal_SIGUSR1' \in BOOLEAN /\ PathsOK'
<1>1. /\ ~ terminated /\ sink # NoSink /\ lines < MaxLines /\ lines' = lines + 1
      /\ sink' = [sink EXCEPT !.file_stream = stream]
      /\ disk' = d /\ accepted' = accepted \cup acc
      /\ UNCHANGED <<path, files, signal_SIGUSR1, terminated>>
  BY DEF Write
<1>2. sink \in Sink /\ lines \in Nat /\ MaxLines \in Nat
  BY <1>1, OldPaths, SinkFileAssumption
<1>3. lines + 1 \in Line /\ lines' \in 0 .. MaxLines BY <1>1, <1>2 DEF Line
<1>4. sink' \in Sink /\ sink'.file_stream = stream /\ sink'.log_file = sink.log_file
  BY <1>1, <1>2 DEF Sink
<1>5. sink' # NoSink BY <1>4, NoSinkAssumption
<1>6. signal_SIGUSR1' \in BOOLEAN /\ PathsOK' BY <1>1, OldPaths DEF PathsOK
<1> QED BY <1>1, <1>2, <1>3, <1>4, <1>5, <1>6

\* Steps that leave the message out.
LEMMA WriteNoneIInv ==
  ASSUME IInv, NEW stream \in Stream, Write(stream, disk, {}), sink # NoSink,
         stream.file = sink.file_stream.file, stream.buffer = sink.file_stream.buffer
  PROVE  IInv' /\ PromisedStep
<1>1. /\ ~ terminated /\ lines' = lines + 1 /\ lines' \in 0 .. MaxLines
      /\ disk' = disk /\ accepted' = accepted
      /\ sink' \in Sink /\ sink' # NoSink /\ sink'.file_stream = stream
      /\ sink'.log_file = sink.log_file
      /\ UNCHANGED <<path, files, signal_SIGUSR1, terminated>>
      /\ signal_SIGUSR1' \in BOOLEAN /\ PathsOK'
  BY Writing
<1>2. lines' <= MaxLines BY <1>1, SinkFileAssumption
<1> QED BY <1>1, <1>2, KeptIInv

\* Steps that put it, or its beginning, behind what the file holds that the stream
\* is open on, in the buffer or on the disk.
LEMMA WriteOneIInv ==
  ASSUME IInv, NEW stream \in Stream, NEW d \in Files, NEW acc,
         NEW added, added \in {<<Begin(lines + 1)>>, NextLine},
         acc = {} \/ (acc = {lines + 1} /\ added = NextLine),
         Write(stream, d, acc), Takes,
         stream.file = sink.file_stream.file,
         \A p \in Paths, f \in File :
           p # sink.log_file \/ f # stream.file => d[p][f] = disk[p][f],
         d[sink.log_file][stream.file] \o stream.buffer
           = (disk[sink.log_file][stream.file] \o sink.file_stream.buffer) \o added
  PROVE  IInv' /\ PromisedStep
<1> DEFINE newest == stream.file
<1>0. PICK q \in Paths : q = sink.log_file
  BY OldPaths DEF Takes
<1>1. /\ ~ terminated /\ sink \in Sink /\ lines + 1 \in Line
      /\ lines' = lines + 1 /\ lines' \in 0 .. MaxLines
      /\ disk' = d /\ accepted' = accepted \cup acc
      /\ sink' \in Sink /\ sink' # NoSink /\ sink'.file_stream = stream
      /\ sink'.log_file = q
      /\ UNCHANGED <<path, files, signal_SIGUSR1, terminated>>
      /\ signal_SIGUSR1' \in BOOLEAN /\ PathsOK'
  BY <1>0, Writing
<1>2. /\ sink # NoSink /\ sink.file_stream.file # Closed
      /\ newest = files[q] /\ newest \in File
  BY <1>0, <1>1 DEF Takes, IInv, OnNewest, Sink, Stream
<1>3. TypeOK'
  <2>1. accepted' \subseteq Line BY <1>1 DEF IInv, TypeOK
  <2>2. terminated' \in BOOLEAN BY <1>1, OldPaths
  <2> QED BY <1>1, <2>1, <2>2 DEF TypeOK, PathsOK, Files
<1>4. OnNewest' BY <1>1, <1>2 DEF OnNewest
<1>5. NewFilesEmpty'
  <2> SUFFICES ASSUME NEW p \in Paths, NEW f \in File, f > files[p] PROVE d[p][f] = << >>
    BY <1>1 DEF NewFilesEmpty
  <2>1. f # files[p]
    <3>1. files[p] \in Nat BY ONLY IInv, p \in Paths, OldPaths
    <3>2. f \in Nat BY ONLY f \in File, SinkFileAssumption DEF File
    <3> QED BY ONLY f > files[p], <3>1, <3>2
  <2> QED BY <1>0, <1>2, <2>1 DEF IInv, NewFilesEmpty
<1>6. Contents(q, newest)' = Contents(q, newest) \o added
  <2>1. Contents(q, newest)' = d[q][newest] \o stream.buffer BY <1>0, <1>1, <1>2 DEF Contents
  <2>2. Contents(q, newest) = disk[q][newest] \o sink.file_stream.buffer
    BY <1>0, <1>2 DEF Contents
  <2> QED BY <1>0, <2>1, <2>2
<1>7. \A p \in Paths, f \in File : p # q \/ f # newest => Contents(p, f)' = Contents(p, f)
  BY <1>0, <1>1, <1>2 DEF Contents
<1>8. /\ terminated' = terminated
      /\ accepted' = accepted \/ (added = NextLine /\ accepted' = accepted \cup {lines + 1})
  BY <1>1
<1> HIDE DEF newest
<1>9. added \in {<<Begin(lines + 1)>>, NextLine} OBVIOUS
<1> QED BY ONLY IInv, <1>1, <1>2, <1>3, <1>4, <1>5, <1>6, <1>7, <1>8, <1>9, OneMoreLineIInv

\* The pieces of the next line are pieces.
LEMMA NextLineType ==
  ASSUME lines + 1 \in Line
  PROVE  /\ NextLine \in Seq(Piece)
         /\ <<Begin(lines + 1)>> \in Seq(Piece) /\ <<End(lines + 1)>> \in Seq(Piece)
         /\ NextLine = <<Begin(lines + 1)>> \o <<End(lines + 1)>>
<1> DEFINE b == Begin(lines + 1)
           e == End(lines + 1)
<1>1. b \in Piece /\ e \in Piece
  <2> DEFINE n == lines + 1
  <2>1. n \in 1 .. MaxLines /\ MaxLines \in Nat BY SinkFileAssumption DEF Line
  <2> HIDE DEF n
  <2>2. 2 * n - 1 \in 1 .. 2 * MaxLines /\ 2 * n \in 1 .. 2 * MaxLines BY <2>1
  <2> QED BY <2>2 DEF n, Begin, End, Piece
<1>2. NextLine = <<b, e>> BY DEF NextLine
<1> HIDE DEF b, e
<1>3. /\ <<b, e>> \in Seq(Piece) /\ <<b>> \in Seq(Piece) /\ <<e>> \in Seq(Piece)
  BY <1>1
<1>4. <<b, e>> = <<b>> \o <<e>>
  <2>1. <<b>> \in Seq(Piece) /\ <<b, e>> = Append(<<b>>, e) BY <1>1
  <2> QED BY <1>1, <2>1, AppendIsConcat
<1> QED BY <1>2, <1>3, <1>4 DEF b, e

\* Where a line goes makes no difference to the contents.
LEMMA LineInBuffer ==
  ASSUME NEW s \in Seq(Piece), NEW t \in Seq(Piece), NEW u \in Seq(Piece)
  PROVE  s \o (t \o u) = (s \o t) \o u /\ t \o u \in Seq(Piece)
<1>1. t \o u \in Seq(Piece) BY ConcatProperties
<1>2. (s \o t) \o u = s \o (t \o u) BY ConcatAssociative, SMTT(30)
<1> QED BY <1>1, <1>2

LEMMA CutsType ==
  ASSUME lines + 1 \in Line, NEW cut \in Cuts
  PROVE  cut.out \in Seq(Piece) /\ cut.kept \in Seq(Piece) /\ cut.out \o cut.kept = NextLine
<1>1. << >> \in Seq(Piece) OBVIOUS
<1>2. CASE cut = [out |-> << >>, kept |-> NextLine]
  BY <1>1, <1>2, NextLineType, ConcatEmptySeq
<1>3. CASE cut = [out |-> <<Begin(lines + 1)>>, kept |-> <<End(lines + 1)>>]
  BY <1>3, NextLineType
<1>4. CASE cut = [out |-> NextLine, kept |-> << >>]
  BY <1>1, <1>4, NextLineType, ConcatEmptySeq
<1> QED BY <1>2, <1>3, <1>4 DEF Cuts

LEMMA WriteIInv ==
  ASSUME IInv, WriteNothing \/ WriteBuffered \/ WriteThrough \/ WriteFailed
  PROVE  IInv' /\ PromisedStep
<1> DEFINE st == sink.file_stream
           q == sink.log_file
           n == lines + 1
<1>1. /\ sink # NoSink /\ ~ terminated /\ lines < MaxLines
  BY DEF WriteNothing, WriteBuffered, WriteThrough, WriteFailed, Takes, Write
<1>2. st \in Stream /\ q \in Paths /\ n \in Line
  BY <1>1, OldPaths, SinkFileAssumption DEF Line
<1>3. st.buffer \in Seq(Piece) /\ st.file \in File \cup {Closed} BY <1>2 DEF Stream
<1>4. disk \in Files BY DEF IInv, TypeOK, Files
<1>5. CASE WriteNothing
  BY <1>1, <1>2, <1>5, WriteNoneIInv DEF WriteNothing
<1>6. ASSUME Takes PROVE st.file \in File /\ disk[q][st.file] \in Seq(Piece)
  BY <1>2, <1>3, <1>4, <1>6 DEF Takes, Files
<1>7. /\ NextLine \in Seq(Piece) /\ <<Begin(n)>> \in Seq(Piece)
  BY <1>2, NextLineType
\* A step that only adds to the buffer.
<1>8. ASSUME Takes, NEW added, added \in {<<Begin(n)>>, NextLine},
             NEW stream, stream = [st EXCEPT !.buffer = st.buffer \o added]
                         \/ stream = [st EXCEPT !.failed = TRUE, !.buffer = st.buffer \o added],
             NEW acc, acc = {} \/ (acc = {n} /\ added = NextLine),
             Write(stream, disk, acc)
      PROVE  IInv' /\ PromisedStep
  <2> DEFINE d == disk[q][st.file]
             b == st.buffer
  <2>1. added \in Seq(Piece) BY <1>7, <1>8
  <2>2. d \in Seq(Piece) /\ b \in Seq(Piece) BY <1>3, <1>6, <1>8
  <2>3. b \o added \in Seq(Piece) /\ d \o (b \o added) = (d \o b) \o added
    <3> HIDE DEF d, b
    <3> QED BY <2>1, <2>2, LineInBuffer
  <2> DEFINE c == b \o added
  <2>4. c \in Seq(Piece) BY <2>3
  <2>5. stream = [st EXCEPT !.buffer = c] \/ stream = [st EXCEPT !.failed = TRUE, !.buffer = c]
    BY <1>8
  <2>6. d \o c = (d \o b) \o added BY <2>3
  <2> HIDE DEF c
  <2>7. stream \in Stream /\ stream.file = st.file /\ stream.buffer = c
    BY <1>2, <2>4, <2>5 DEF Stream
  <2>8. disk[q][stream.file] \o stream.buffer = (disk[q][stream.file] \o st.buffer) \o added
    BY <2>6, <2>7
  <2> HIDE DEF d, b, st, q
  <2> QED BY <1>4, <1>8, <2>7, <2>8, WriteOneIInv DEF st, q
<1>9. CASE WriteBuffered
  <2> DEFINE stream == [st EXCEPT !.buffer = st.buffer \o NextLine]
  <2>1. Takes /\ Write(stream, disk, {n}) BY <1>9 DEF WriteBuffered
  <2> HIDE DEF NextLine
  <2> QED BY <1>8, <2>1
<1>10. CASE WriteThrough
  <2>1. Takes BY <1>10 DEF WriteThrough
  <2>2. PICK cut \in Cuts :
          Write([st EXCEPT !.buffer = cut.kept],
                [disk EXCEPT ![q][st.file] = (disk[q][st.file] \o st.buffer) \o cut.out],
                {n})
    BY <1>10 DEF WriteThrough
  <2> DEFINE x == disk[q][st.file]
             b == st.buffer
             new == (x \o b) \o cut.out
             stream == [st EXCEPT !.buffer = cut.kept]
             d == [disk EXCEPT ![q][st.file] = new]
  <2>3. /\ cut.out \in Seq(Piece) /\ cut.kept \in Seq(Piece)
        /\ cut.out \o cut.kept = NextLine
    BY <1>2, CutsType
  <2>4. stream \in Stream /\ stream.file = st.file /\ stream.buffer = cut.kept
    BY <1>2, <2>3 DEF Stream
  <2>5. x \in Seq(Piece) /\ b \in Seq(Piece) BY <1>3, <1>6, <2>1
  <2>6. new \in Seq(Piece) /\ new \o cut.kept = (x \o b) \o NextLine
    <3> DEFINE o == cut.out
               k == cut.kept
    <3>1. o \in Seq(Piece) /\ k \in Seq(Piece) /\ o \o k = NextLine BY <2>3
    <3> DEFINE w == x \o b
    <3>2. w \in Seq(Piece) BY <2>5, ConcatProperties
    <3> HIDE DEF x, b, o, k, w
    <3>3. w \o o \in Seq(Piece) BY <3>1, <3>2, ConcatProperties
    <3>4. (w \o o) \o k = w \o (o \o k) BY ONLY <3>1, <3>2, LineInBuffer
    <3> QED BY <3>1, <3>3, <3>4 DEF o, k, w
  <2>7. st.file \in File BY <1>6, <2>1
  <2>8. /\ d \in Files /\ d[q][st.file] = new
        /\ \A p \in Paths, f \in File : p # q \/ f # st.file => d[p][f] = disk[p][f]
    <3> HIDE DEF new
    <3> QED BY <1>2, <1>4, <2>6, <2>7 DEF Files
  <2>9. Write(stream, d, {n}) BY <2>2
  <2>10. d[q][stream.file] \o stream.buffer
           = (disk[q][stream.file] \o st.buffer) \o NextLine
    <3> HIDE DEF new, d, stream
    <3> QED BY <2>4, <2>6, <2>8
  <2>11. {n} = {lines + 1} /\ NextLine \in {<<Begin(lines + 1)>>, NextLine} OBVIOUS
  <2> HIDE DEF stream, d, new
  <2> QED BY <2>1, <2>4, <2>8, <2>9, <2>10, <2>11, WriteOneIInv
<1>11. CASE WriteFailed
  <2> DEFINE failed == [st EXCEPT !.failed = TRUE]
             torn == [failed EXCEPT !.buffer = failed.buffer \o <<Begin(n)>>]
             behind == [failed EXCEPT !.buffer = failed.buffer \o NextLine]
  <2>1. /\ Takes
        /\ Write(failed, disk, {}) \/ Write(torn, disk, {}) \/ Write(behind, disk, {})
    BY <1>11 DEF WriteFailed
  <2>2. failed \in Stream /\ failed.file = st.file /\ failed.buffer = st.buffer
    BY <1>2 DEF Stream
  <2>3. CASE Write(failed, disk, {})
    <3> HIDE DEF failed
    <3> QED BY <1>1, <2>2, <2>3, WriteNoneIInv
  <2>4. torn = [st EXCEPT !.failed = TRUE, !.buffer = st.buffer \o <<Begin(n)>>]
    BY <1>2 DEF Stream
  <2>5. behind = [st EXCEPT !.failed = TRUE, !.buffer = st.buffer \o NextLine]
    BY <1>2 DEF Stream
  <2>6. CASE Write(torn, disk, {})
    <3> HIDE DEF torn
    <3> QED BY <1>8, <2>1, <2>4, <2>6
  <2>7. CASE Write(behind, disk, {})
    <3> HIDE DEF behind
    <3> QED BY <1>8, <2>1, <2>5, <2>7
  <2> QED BY <2>1, <2>3, <2>6, <2>7
<1> QED BY <1>5, <1>9, <1>10, <1>11

LEMMA NextIInv == IInv /\ [Next]_vars => IInv' /\ PromisedStep
<1> SUFFICES ASSUME IInv, [Next]_vars PROVE IInv' /\ PromisedStep OBVIOUS
<1>1. CASE UNCHANGED vars
  <2>1. /\ sink' = sink /\ disk' = disk /\ path' = path /\ files' = files
        /\ signal_SIGUSR1' = signal_SIGUSR1
        /\ terminated' = terminated /\ lines' = lines /\ accepted' = accepted
    BY <1>1 DEF vars
  <2>2. TypeOK' /\ OnNewest' /\ NewFilesEmpty'
    BY <2>1 DEF IInv, TypeOK, OnNewest, NewFilesEmpty
  <2>3. \A p \in Paths, f \in File : Contents(p, f)' = Contents(p, f) BY <2>1 DEF Contents
  <2>4. PromisedStep BY <2>1, <2>3 DEF PromisedStep, Promise!vars
  <2>5. NoFutureLines' BY <2>1, <2>3 DEF IInv, NoFutureLines
  <2>6. LinesInOrder' BY <2>3 DEF IInv, LinesInOrder
  <2>7. NothingLost' BY <2>1, <2>3 DEF IInv, NothingLost
  <2> QED BY <2>2, <2>4, <2>5, <2>6, <2>7 DEF IInv
<1>2. CASE \E p \in Paths, on, flush \in BOOLEAN : InitFileSink(p, on, flush)
  BY <1>2, InitFileSinkIInv
<1>3. CASE DiscardSink \/ EnableOpen \/ EnableClosed \/ Disable
  BY <1>3, DiscardSinkIInv, EnableOpenIInv, EnableClosedIInv, DisableIInv
<1>4. CASE WriteNothing \/ WriteBuffered \/ WriteThrough \/ WriteFailed
  BY <1>4, WriteIInv
<1>5. CASE \E p \in Paths : Logrotate(p) BY <1>5, LogrotateIInv
<1> QED BY <1>1, <1>2, <1>3, <1>4, <1>5 DEF Next, Terminated

-----------------------------------------------------------------------------

\* The invariant: the stream is never open on another file than the newest of the
\* sink's path, and the lines of all files and of its buffer are in order.
THEOREM SinkFileInvariance == Spec => []IInv
BY InitIInv, NextIInv, PTL DEF Spec

\* Types, for any paths and any bound on lines and files.
THEOREM SinkFileTypeCorrect == Spec => []TypeOK
<1>1. IInv => TypeOK BY DEF IInv
<1> QED BY <1>1, SinkFileInvariance, PTL

\* However often the sink is replaced, with the same log file or another, toggled,
\* failed or rotated away, the lines stay in order, within each file and from one
\* file of a path to the next.
THEOREM LinesKeepOrder == Spec => []LinesInOrder
<1>1. IInv => LinesInOrder BY DEF IInv
<1> QED BY <1>1, SinkFileInvariance, PTL

\* No line is lost that was written without an error, until the program ends.
THEOREM AcceptedLinesKept == Spec => []NothingLost
<1>1. IInv => NothingLost BY DEF IInv
<1> QED BY <1>1, SinkFileInvariance, PTL

\* SinkFile keeps LogFiles' promise: the files only grow, line by line and at the
\* end of the newest of a path, until the program ends.
THEOREM SinkFileRefinesLogFiles == Spec => ImplementsLogFiles
<1>1. Init => Promise!Init
  <2> SUFFICES ASSUME Init PROVE Promise!Init OBVIOUS
  <2>1. TypeOK BY InitIInv DEF IInv
  <2>2. \A p \in Paths, f \in File : Contents(p, f) = << >>
    BY <2>1, ContentsType DEF Init
  <2> QED BY <2>2 DEF Init, Promise!Init
<1>2. IInv /\ [Next]_vars => [Promise!Next]_(Promise!vars) BY NextIInv DEF PromisedStep
<1> QED BY <1>1, <1>2, SinkFileInvariance, PTL DEF Spec, Promise!Spec, ImplementsLogFiles
=============================================================================
