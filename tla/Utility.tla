------------------------------- MODULE Utility -------------------------------
(***************************************************************************)
(* What the functions of utility.h that a log line needs return.  A string *)
(* is a sequence of characters.                                            *)
(***************************************************************************)
EXTENDS Naturals, Sequences

CONSTANT
  SIZE               \* bound: std::size_t counts modulo SIZE (2^64)

ASSUME SizeAssumption == SIZE \in Nat \ {0}

npos == SIZE - 1

Separators == {"/", "\\"}

\* path.find_last_of(chars), which counts from 0.
FindLastOf(path, chars) ==
  LET found == {i \in DOMAIN path : path[i] \in chars} IN
  IF found = {} THEN npos ELSE (CHOOSE i \in found : \A j \in found : j <= i) - 1

\* Mutant: without the + 1 the separator stays in the name.
FileNameOffByOne(path) ==
  SubSeq(path, (FindLastOf(path, Separators) % SIZE) + 1, Len(path))

\* std::string get_file_name(const std::string &absolute_path): for a path
\* without a separator pos + 1 wraps around to 0.
FileName(path) ==
  SubSeq(path, ((FindLastOf(path, Separators) + 1) % SIZE) + 1, Len(path))

\* std::strftime, for patterns in which TimeField stands for the fields of the
\* time and every other character for itself.
TimeField == "T"
Strftime(pattern, time) ==
  [i \in DOMAIN pattern |-> IF pattern[i] = TimeField THEN time ELSE pattern[i]]

\* char buffer[80]
BufferSize == 80

\* What std::string format_time_to_string(std::time_t t, time_format) may return
\* when localtime's struct holds time.  A text that does not fit, with its NUL,
\* into the buffer leaves the buffer undefined, which was never initialised.
FormatTime(time, pattern, Garbage) ==
  IF Len(pattern) < BufferSize THEN {Strftime(pattern, time)} ELSE Garbage

-----------------------------------------------------------------------------
\* FileName(path) is what follows the last separator of the path, or the whole
\* path if it has none: get_file_name() relies on npos + 1 being 0.
IsLastElement(path, name) ==
  \E k \in 0 .. Len(path) :
    /\ name = SubSeq(path, k + 1, Len(path))
    /\ k = 0 \/ path[k] \in Separators
    /\ \A i \in k + 1 .. Len(path) : path[i] \notin Separators
=============================================================================
