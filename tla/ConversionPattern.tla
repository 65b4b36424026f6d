-------------------------- MODULE ConversionPattern --------------------------
(***************************************************************************)
(* conversion_pattern.h and Sink::fill_conv_patterns(): how the specifiers *)
(* of a message template are found and replaced.  A specifier %c is known  *)
(* by its letter c.                                                        *)
(***************************************************************************)
EXTENDS Naturals, Sequences, Functions

\* PATTERN_TYPE, in the order in which fill_conv_patterns() looks for them.
Specifiers == <<"d", "f", "F", "l", "u", "h", "t", "m", "s">>

\* Specifier %c stands at position i of the text.
StandsAt(text, c, i) == i \in 1 .. Len(text) - 1 /\ text[i] = "%" /\ text[i + 1] = c

\* vec_conv_patterns after fill_conv_patterns(): the specifiers in the template.
\* The vector holds them in the order of Specifiers, so a set says it all.
ConvPatterns(template) ==
  {c \in Range(Specifiers) : \E i \in DOMAIN template : StandsAt(template, c, i)}

\* What the text from each of its positions on becomes when it is searched once
\* from left to right, put[c] is put in for each %c with a c in DOMAIN put, and the
\* search goes on behind what was put in.
Rests(text, put) ==
  LET rest[i \in 1 .. Len(text) + 2] ==
        IF i > Len(text) THEN << >>
        ELSE IF \E c \in DOMAIN put : StandsAt(text, c, i) THEN put[text[i + 1]] \o rest[i + 2]
        ELSE <<text[i]>> \o rest[i + 1]
  IN rest

Pass(text, put) == Rests(text, put)[1]

\* Mutant: if instead of while, only the first occurrence is replaced.
ReplacedFirst(text, c, value) ==
  LET rest[i \in 1 .. Len(text) + 2] ==
        IF i > Len(text) THEN << >>
        ELSE IF StandsAt(text, c, i) THEN value \o SubSeq(text, i + 2, Len(text))
             ELSE <<text[i]>> \o rest[i + 1]
  IN rest[1]

\* void replace_conversion_pattern(std::string &msg, std::string new_value)
Replaced(text, c, value) == Pass(text, [letter \in {c} |-> value])

\* The loop of prepare_log_message() over vec_conv_patterns from %f on.  Nothing
\* is ever put in for %t.
Substitute(patterns, text, value) ==
  LET after[n \in 0 .. Len(Specifiers)] ==
        IF n = 0 THEN text
        ELSE IF Specifiers[n] \in patterns \ {"d", "t"}
             THEN Replaced(after[n - 1], Specifiers[n], value[Specifiers[n]])
             ELSE after[n - 1]
  IN after[Len(Specifiers)]

\* The whole loop: %d, the first specifier of all, gets the formatted time.
Render(patterns, template, datetime, value) ==
  Substitute(patterns,
             IF "d" \in patterns THEN Replaced(template, "d", datetime) ELSE template,
             value)

-----------------------------------------------------------------------------
\* What is put in for each specifier that prepare_log_message() has a case for: all
\* that conversion_pattern.h documents but %t.
PutIn(datetime, value) ==
  [c \in Range(Specifiers) \ {"t"} |-> IF c = "d" THEN datetime ELSE value[c]]

\* What a reader of the template expects: one pass from left to right, in which
\* a value that is put in is never looked at again.
AtOnce(template, datetime, value) == Pass(template, PutIn(datetime, value))

\* What is put in for the n-th specifier ends in no % and holds no specifier of the
\* template that is looked for later.
Inert(patterns, text, n) ==
  /\ text # << >> => text[Len(text)] # "%"
  /\ \A k \in n + 1 .. Len(Specifiers) : Specifiers[k] \in patterns =>
       \A i \in DOMAIN text : ~ StandsAt(text, Specifiers[k], i)

\* No % stands right before a specifier, nothing that is put in makes a specifier
\* whose turn is still to come, and the template asks for no thread id.
Unambiguous(template, datetime, value) ==
  LET patterns == ConvPatterns(template) IN
  /\ "t" \notin patterns
  /\ \A i \in DOMAIN template, c \in patterns :
       StandsAt(template, c, i + 1) => template[i] # "%"
  /\ \A n \in DOMAIN Specifiers : Specifiers[n] \in patterns =>
       Inert(patterns, PutIn(datetime, value)[Specifiers[n]], n)

\* For such a template and such values, replacing one specifier after the other
\* in the growing text, as prepare_log_message() does, is replacing all at once:
\* a value is looked at again, but only for what comes later in PATTERN_TYPE.
SubstitutesAtOnce(template, datetime, value) ==
  Unambiguous(template, datetime, value) =>
    Render(ConvPatterns(template), template, datetime, value)
      = AtOnce(template, datetime, value)
=============================================================================
