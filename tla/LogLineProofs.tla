---------------------------- MODULE LogLineProofs ----------------------------
(***************************************************************************)
(* Proofs about what a line is made of, for all texts: replacing one       *)
(* specifier after the other is replacing all at once, and get_file_name() *)
(* is right for every path that fits into memory.                          *)
(***************************************************************************)
EXTENDS LogLine, SequenceTheorems, WellFoundedInduction, TLAPS

-----------------------------------------------------------------------------
(* Induction over sets of numbers.                                         *)

\* A set that holds 0 and with each number the next holds all numbers.
LEMMA Induction ==
  ASSUME NEW S, 0 \in S, \A k \in Nat : k \in S => k + 1 \in S
  PROVE  Nat \subseteq S
<1> DEFINE R == OpToRel(<, Nat)
           T == Nat \ S
<1>1. SUFFICES ASSUME T # {} PROVE FALSE OBVIOUS
<1>2. IsWellFoundedOn(R, Nat) BY NatLessThanWellFounded
<1>3. T \subseteq Nat OBVIOUS
<1>4. PICK x \in T : \A y \in T : <<y, x>> \notin R
  <2> HIDE DEF T, R
  <2> QED BY <1>1, <1>2, <1>3, WFMin, Zenon
<1>5. x \in Nat /\ x # 0 /\ x - 1 \in Nat OBVIOUS
<1>6. x - 1 \in T BY <1>5
<1>7. <<x - 1, x>> \in R BY <1>5 DEF OpToRel
<1> QED BY <1>4, <1>6, <1>7

\* A set that holds each position when it holds all later ones holds them all.
LEMMA Backwards ==
  ASSUME NEW n \in Nat, NEW S,
         \A i \in 1 .. n : (\A j \in 1 .. n : j > i => j \in S) => i \in S
  PROVE  1 .. n \subseteq S
<1> DEFINE K == {k \in Nat : \A i \in 1 .. n : i > n - k => i \in S}
<1>1. 0 \in K OBVIOUS
<1>2. ASSUME NEW k \in Nat, k \in K PROVE k + 1 \in K
  <2>1. SUFFICES ASSUME NEW i \in 1 .. n, i > n - (k + 1) PROVE i \in S OBVIOUS
  <2>2. \A j \in 1 .. n : j > i => j \in S BY <1>2, <2>1
  <2> QED BY <2>2
<1>3. n \in K
  <2> HIDE DEF K
  <2> QED BY <1>1, <1>2, Induction
<1> QED BY <1>3

\* A set of positions of a sequence has a last one.
LEMMA LastPosition ==
  ASSUME NEW n \in Nat, NEW S \in SUBSET (1 .. n), S # {}
  PROVE  \E i \in S : \A j \in S : j <= i
<1> DEFINE T == {k \in Nat : (\E i \in S : i >= n - k) => \E i \in S : \A j \in S : j <= i}
<1>1. 0 \in T OBVIOUS
<1>2. ASSUME NEW k \in Nat, k \in T PROVE k + 1 \in T
  <2>1. SUFFICES ASSUME NEW i \in S, i >= n - (k + 1)
                 PROVE  \E l \in S : \A j \in S : j <= l
    OBVIOUS
  <2>2. CASE \E l \in S : l >= n - k BY <1>2, <2>2
  <2>3. CASE \A l \in S : l < n - k
    <3>1. \A j \in S : j <= i BY <2>1, <2>3
    <3> QED BY <3>1
  <2> QED BY <2>2, <2>3
<1>3. n \in T
  <2> HIDE DEF T
  <2> QED BY <1>1, <1>2, Induction
<1>4. PICK i \in S : i >= n - n
  <2>1. \A i \in S : i >= n - n OBVIOUS
  <2> QED BY <2>1
<1> QED BY <1>3, <1>4

-----------------------------------------------------------------------------
(* The recursive functions are what their definitions say they are.        *)

\* A specifier for which something is put in stands at position i.
Hit(text, put, i) == \E c \in DOMAIN put : StandsAt(text, c, i)

\* What is put in are texts.
PutsTexts(put) == \A c \in DOMAIN put : put[c] \in Text

\* The value of the function at position i in terms of its later values.
RestAt(rest, text, put, i) ==
  IF i > Len(text) THEN << >>
  ELSE IF Hit(text, put, i) THEN put[text[i + 1]] \o rest[i + 2]
  ELSE <<text[i]>> \o rest[i + 1]

LEMMA RestAtType ==
  ASSUME NEW text \in Text, NEW put, PutsTexts(put),
         NEW i \in 1 .. Len(text) + 2, NEW rest,
         \A j \in 1 .. Len(text) + 2 : j > i => rest[j] \in Text
  PROVE  RestAt(rest, text, put, i) \in Text
<1>1. CASE i > Len(text) BY <1>1 DEF RestAt, Text
<1>2. CASE ~ i > Len(text) /\ Hit(text, put, i)
  <2>1. put[text[i + 1]] \in Text BY <1>2 DEF Hit, StandsAt, PutsTexts
  <2>2. rest[i + 2] \in Text BY <1>2 DEF Text
  <2>3. RestAt(rest, text, put, i) = put[text[i + 1]] \o rest[i + 2] BY <1>2 DEF RestAt
  <2> QED BY <2>1, <2>2, <2>3 DEF Text
<1>3. CASE ~ i > Len(text) /\ ~ Hit(text, put, i)
  <2>1. text[i] \in Char BY <1>3 DEF Text
  <2>2. rest[i + 1] \in Text BY <1>3 DEF Text
  <2>3. <<text[i]>> \in Text BY <2>1 DEF Text
  <2> QED BY <1>3, <2>2, <2>3 DEF RestAt, Text
<1> QED BY <1>1, <1>2, <1>3

LEMMA RestsExist ==
  ASSUME NEW text \in Text, NEW put, PutsTexts(put)
  PROVE  \E rest : rest = [i \in 1 .. Len(text) + 2 |-> RestAt(rest, text, put, i)]
<1> DEFINE n == Len(text)
           Last(k) == {i \in 1 .. n + 2 : i > n + 2 - k}
           K == {k \in Nat : k <= n + 2 =>
                   \E rest \in [1 .. n + 2 -> Text] :
                     \A i \in Last(k) : rest[i] = RestAt(rest, text, put, i)}
<1>0. n \in Nat BY DEF Text
<1>1. 0 \in K
  <2>1. [i \in 1 .. n + 2 |-> << >>] \in [1 .. n + 2 -> Text] BY DEF Text
  <2>2. Last(0) = {} BY <1>0
  <2> QED BY <2>1, <2>2
<1>2. ASSUME NEW k \in Nat, k \in K PROVE k + 1 \in K
  <2>1. SUFFICES ASSUME k + 1 <= n + 2
                 PROVE  \E rest \in [1 .. n + 2 -> Text] :
                          \A i \in Last(k + 1) : rest[i] = RestAt(rest, text, put, i)
    OBVIOUS
  <2>2. PICK rest \in [1 .. n + 2 -> Text] :
          \A i \in Last(k) : rest[i] = RestAt(rest, text, put, i)
    BY <1>0, <1>2, <2>1
  <2> DEFINE p == n + 2 - k
             new == [rest EXCEPT ![p] = RestAt(rest, text, put, p)]
  <2>3. p \in 1 .. n + 2 BY <1>0, <2>1
  <2>4. RestAt(rest, text, put, p) \in Text BY <2>3, RestAtType
  <2>5. new \in [1 .. n + 2 -> Text] BY <2>3, <2>4
  <2>6. ASSUME NEW i \in Last(k + 1) PROVE new[i] = RestAt(new, text, put, i)
    <3>1. i \in 1 .. n + 2 /\ i >= p BY <1>0
    <3>2. \A j \in 1 .. n + 2 : j > i => new[j] = rest[j] BY <1>0, <3>1
    <3>3. RestAt(new, text, put, i) = RestAt(rest, text, put, i)
      <4>1. i <= Len(text) => new[i + 1] = rest[i + 1] /\ new[i + 2] = rest[i + 2]
        BY <1>0, <3>1, <3>2
      <4> QED BY <1>0, <3>1, <4>1 DEF RestAt
    <3>4. CASE i = p BY <2>3, <3>3, <3>4
    <3>5. CASE i # p
      <4>1. i \in Last(k) BY <1>0, <3>1, <3>5
      <4> QED BY <2>2, <3>1, <3>3, <3>5, <4>1
    <3> QED BY <3>4, <3>5
  <2> HIDE DEF new
  <2> QED BY <2>5, <2>6
<1>3. n + 2 \in K
  <2> HIDE DEF K
  <2> QED BY <1>0, <1>1, <1>2, Induction
<1>4. PICK rest \in [1 .. n + 2 -> Text] :
        \A i \in Last(n + 2) : rest[i] = RestAt(rest, text, put, i)
  BY <1>0, <1>3
<1>5. \A i \in 1 .. n + 2 : rest[i] = RestAt(rest, text, put, i) BY <1>0, <1>4
<1>6. rest = [i \in 1 .. n + 2 |-> RestAt(rest, text, put, i)] BY <1>5
<1> QED BY <1>6, Zenon

\* Rests() is a function with values of its own, and they are texts.
LEMMA RestsEquation ==
  ASSUME NEW text \in Text, NEW put, PutsTexts(put)
  PROVE  /\ Rests(text, put) \in [1 .. Len(text) + 2 -> Text]
         /\ \A i \in 1 .. Len(text) + 2 :
              Rests(text, put)[i] = RestAt(Rests(text, put), text, put, i)
<1> DEFINE n == Len(text)
           rest == Rests(text, put)
<1>0. n \in Nat BY DEF Text
<1>1. rest = CHOOSE r : r = [i \in 1 .. n + 2 |-> RestAt(r, text, put, i)]
  BY DEF Rests, RestAt, Hit
<1>2. rest = [i \in 1 .. n + 2 |-> RestAt(rest, text, put, i)]
  <2> HIDE DEF rest, n
  <2> QED BY <1>1, RestsExist, Zenon DEF n
<1>3. \A i \in 1 .. n + 2 : rest[i] = RestAt(rest, text, put, i)
  <2> HIDE DEF rest
  <2> QED BY <1>2
<1> DEFINE T == {i \in 1 .. n + 2 : rest[i] \in Text}
<1> HIDE DEF rest
<1>4. ASSUME NEW i \in 1 .. n + 2, \A j \in 1 .. n + 2 : j > i => j \in T PROVE i \in T
  <2>1. RestAt(rest, text, put, i) \in Text BY <1>4, RestAtType
  <2> QED BY <1>3, <2>1
<1>7. \A i \in 1 .. n + 2 : rest[i] \in Text
  <2>1. n + 2 \in Nat BY <1>0
  <2> HIDE DEF T
  <2>2. 1 .. n + 2 \subseteq T BY <1>4, <2>1, Backwards
  <2> QED BY <2>2 DEF T
<1>8. rest \in [1 .. n + 2 -> Text] BY <1>2, <1>7
<1> QED BY <1>3, <1>8 DEF rest

LEMMA RestsAt ==
  ASSUME NEW text \in Text, NEW put, PutsTexts(put),
         NEW i \in 1 .. Len(text) + 2
  PROVE  LET rest == Rests(text, put) IN
         /\ i > Len(text) => rest[i] = << >>
         /\ Hit(text, put, i) =>
              i < Len(text) /\ text[i] = "%" /\ text[i + 1] \in DOMAIN put
                /\ rest[i] = put[text[i + 1]] \o rest[i + 2]
         /\ i <= Len(text) /\ ~ Hit(text, put, i) => rest[i] = <<text[i]>> \o rest[i + 1]
<1>1. Len(text) \in Nat BY DEF Text
<1>2. Rests(text, put)[i] = RestAt(Rests(text, put), text, put, i) BY RestsEquation
<1>3. Hit(text, put, i) => i < Len(text) /\ text[i] = "%" /\ text[i + 1] \in DOMAIN put
  BY <1>1 DEF Hit, StandsAt
<1> DEFINE rest == Rests(text, put)
<1> HIDE DEF rest
<1>4. rest[i] = RestAt(rest, text, put, i) BY <1>2 DEF rest
<1>5. i > Len(text) => rest[i] = << >> BY <1>4 DEF RestAt
<1>6. ~ i > Len(text) /\ Hit(text, put, i) => rest[i] = put[text[i + 1]] \o rest[i + 2]
  BY <1>4 DEF RestAt
<1>7. ~ i > Len(text) /\ ~ Hit(text, put, i) => rest[i] = <<text[i]>> \o rest[i + 1]
  BY <1>4 DEF RestAt
<1>8. i <= Len(text) <=> ~ i > Len(text) BY <1>1
<1>9. i < Len(text) => ~ i > Len(text) BY <1>1
<1> QED BY <1>3, <1>5, <1>6, <1>7, <1>8, <1>9 DEF rest

-----------------------------------------------------------------------------
(* One pass over a text.                                                   *)

\* The pass over what stands behind a prefix does not depend on the prefix.
LEMMA BehindPrefix ==
  ASSUME NEW a \in Text, NEW w \in Text, NEW put, PutsTexts(put),
         NEW i \in 1 .. Len(w) + 2
  PROVE  Rests(a \o w, put)[Len(a) + i] = Rests(w, put)[i]
<1> DEFINE m == Len(a)
           n == Len(w)
           text == a \o w
           T == {k \in 1 .. n + 2 : Rests(text, put)[m + k] = Rests(w, put)[k]}
<1>1. m \in Nat /\ n \in Nat /\ text \in Text /\ Len(text) = m + n BY DEF Text
<1>2. \A k \in 1 .. n : text[m + k] = w[k] BY DEF Text
<1>3. ASSUME NEW k \in 1 .. n + 2, \A j \in 1 .. n + 2 : j > k => j \in T PROVE k \in T
  <2> HIDE DEF text, m, n
  <2>1. PICK l : l = m + k /\ l \in 1 .. Len(text) + 2 BY <1>1
  <2>2. ASSUME NEW j \in 1 .. n + 2, j > k PROVE Rests(text, put)[m + j] = Rests(w, put)[j]
    BY <1>3, <2>2
  <2> HIDE DEF T
  <2>3. k <= n => /\ Rests(text, put)[l + 1] = Rests(w, put)[k + 1]
                  /\ Rests(text, put)[l + 2] = Rests(w, put)[k + 2]
    <3>1. l + 1 = m + (k + 1) /\ l + 2 = m + (k + 2) BY <1>1, <2>1
    <3>2. k <= n => k + 1 \in 1 .. n + 2 /\ k + 2 \in 1 .. n + 2 /\ k + 1 > k /\ k + 2 > k
      BY <1>1
    <3> QED BY <2>2, <3>1, <3>2
  <2>4. k <= n => text[l] = w[k] BY <1>2, <2>1
  <2>5. k < n => text[l + 1] = w[k + 1]
    <3>1. l + 1 = m + (k + 1) BY <1>1, <2>1
    <3>2. k < n => k + 1 \in 1 .. n BY <1>1
    <3> QED BY <1>2, <3>1, <3>2
  <2>6. Hit(text, put, l) <=> Hit(w, put, k)
    <3>1. \A c : StandsAt(text, c, l) <=> StandsAt(w, c, k)
      <4>1. k \in 1 .. n - 1 => k < n /\ k <= n BY <1>1
      <4>2. l \in 1 .. Len(text) - 1 => k < n BY <1>1, <2>1
      <4> QED BY <1>1, <2>1, <2>4, <2>5 DEF StandsAt, n
    <3> QED BY <3>1 DEF Hit
  <2>7. l > Len(text) <=> k > n BY <1>1, <2>1
  <2>8. l <= Len(text) <=> k <= n BY <1>1, <2>1
  <2>9. Rests(text, put)[l] = Rests(w, put)[k]
    <3>1. CASE k > n
      <4>1. Rests(text, put)[l] = << >> BY <1>1, <2>1, <2>7, <3>1, RestsAt
      <4>2. Rests(w, put)[k] = << >> BY <3>1, RestsAt DEF n
      <4> QED BY <4>1, <4>2
    <3>2. CASE Hit(w, put, k)
      <4>1. Rests(text, put)[l] = put[text[l + 1]] \o Rests(text, put)[l + 2]
        BY <1>1, <2>1, <2>6, <3>2, RestsAt
      <4>2. k < n /\ Rests(w, put)[k] = put[w[k + 1]] \o Rests(w, put)[k + 2]
        BY <3>2, RestsAt DEF n
      <4>3. k <= n BY <1>1, <4>2
      <4> QED BY <2>3, <2>5, <4>1, <4>2, <4>3
    <3>3. CASE k <= n /\ ~ Hit(w, put, k)
      <4>1. Rests(text, put)[l] = <<text[l]>> \o Rests(text, put)[l + 1]
        BY <1>1, <2>1, <2>6, <2>8, <3>3, RestsAt
      <4>2. Rests(w, put)[k] = <<w[k]>> \o Rests(w, put)[k + 1]
        BY <3>3, RestsAt DEF n
      <4> QED BY <2>3, <2>4, <3>3, <4>1, <4>2
    <3> QED BY <1>1, <3>1, <3>2, <3>3
  <2> QED BY <2>1, <2>9 DEF T
<1>4. 1 .. n + 2 \subseteq T
  <2>1. n + 2 \in Nat BY <1>1
  <2> HIDE DEF T
  <2> QED BY <1>3, <2>1, Backwards
<1> QED BY <1>4

LEMMA PassType ==
  ASSUME NEW text \in Text, NEW put, PutsTexts(put)
  PROVE  Pass(text, put) \in Text
<1>1. 1 \in 1 .. Len(text) + 2 BY DEF Text
<1> QED BY <1>1, RestsEquation DEF Pass

LEMMA PassEmpty ==
  ASSUME NEW put, PutsTexts(put) PROVE Pass(<< >>, put) = << >>
<1>1. PICK text : text = << >> OBVIOUS
<1>2. text \in Text /\ Len(text) = 0 BY <1>1 DEF Text
<1>3. 1 \in 1 .. Len(text) + 2 /\ 1 > Len(text) BY <1>2
<1>4. Rests(text, put)[1] = << >> BY <1>2, <1>3, RestsAt
<1> QED BY <1>1, <1>4 DEF Pass

\* A character with which no specifier begins stays.
LEMMA PassChar ==
  ASSUME NEW a \in Char, NEW w \in Text, NEW put, PutsTexts(put),
         a = "%" => w = << >> \/ w[1] \notin DOMAIN put
  PROVE  Pass(<<a>> \o w, put) = <<a>> \o Pass(w, put)
<1> DEFINE text == <<a>> \o w
<1>1. <<a>> \in Text /\ text \in Text /\ Len(w) \in Nat BY DEF Text
<1>2. Len(<<a>>) = 1 /\ Len(text) = Len(w) + 1 /\ text[1] = a BY DEF Text
<1>3. Len(w) > 0 => text[2] = w[1] BY DEF Text
<1>4. w = << >> => Len(w) = 0 OBVIOUS
<1> HIDE DEF text
<1>5. 1 \in 1 .. Len(text) + 2 /\ 1 <= Len(text) BY <1>1, <1>2
<1>6. ~ Hit(text, put, 1)
  <2>1. SUFFICES ASSUME Hit(text, put, 1) PROVE FALSE OBVIOUS
  <2>2. 1 < Len(text) /\ text[1] = "%" /\ text[1 + 1] \in DOMAIN put
    BY <1>1, <1>5, <2>1, RestsAt
  <2>3. Len(w) > 0 BY <1>1, <1>2, <2>2
  <2> QED BY <1>2, <1>3, <1>4, <2>2, <2>3
<1>7. Rests(text, put)[1] = <<a>> \o Rests(text, put)[1 + 1]
  BY <1>1, <1>2, <1>5, <1>6, RestsAt
<1>8. Rests(text, put)[1 + 1] = Rests(w, put)[1]
  <2>1. 1 \in 1 .. Len(w) + 2 BY <1>1
  <2>2. Rests(<<a>> \o w, put)[Len(<<a>>) + 1] = Rests(w, put)[1] BY <1>1, <2>1, BehindPrefix
  <2> QED BY <1>2, <2>2 DEF text
<1> QED BY <1>7, <1>8 DEF Pass, text

\* Neither does it depend on a character, or on two.
LEMMA BehindOne ==
  ASSUME NEW a \in Char, NEW w \in Text, NEW put, PutsTexts(put), NEW i \in 1 .. Len(w) + 2
  PROVE  /\ <<a>> \o w \in Text /\ Len(<<a>> \o w) = Len(w) + 1
         /\ Rests(<<a>> \o w, put)[1 + i] = Rests(w, put)[i]
<1>1. PICK d : d = <<a>> OBVIOUS
<1>2. d \in Text BY <1>1 DEF Text
<1>3. Len(d) = 1 BY <1>1
<1>4. Rests(d \o w, put)[Len(d) + i] = Rests(w, put)[i] BY <1>2, BehindPrefix, Zenon
<1>5. d \o w \in Text /\ Len(d \o w) = Len(d) + Len(w) BY <1>2, ConcatProperties DEF Text
<1>6. Len(d) + Len(w) = Len(w) + 1 BY <1>3 DEF Text
<1> QED BY <1>1, <1>3, <1>4, <1>5, <1>6, Zenon

LEMMA BehindTwo ==
  ASSUME NEW a \in Char, NEW b \in Char, NEW w \in Text, NEW put, PutsTexts(put)
  PROVE  Rests(<<a>> \o (<<b>> \o w), put)[3] = Rests(w, put)[1]
<1>1. PICK v : v = <<b>> \o w OBVIOUS
<1>2. 1 \in 1 .. Len(w) + 2 BY DEF Text
<1>3. v \in Text /\ Len(v) = Len(w) + 1 /\ Rests(v, put)[1 + 1] = Rests(w, put)[1]
  <2>1. <<b>> \o w \in Text BY <1>2, BehindOne, Zenon
  <2>2. Len(<<b>> \o w) = Len(w) + 1 BY <1>2, BehindOne, Zenon
  <2>3. PICK i : i = 1 /\ i \in 1 .. Len(w) + 2 BY <1>2
  <2>4. Rests(<<b>> \o w, put)[1 + i] = Rests(w, put)[i] BY <2>3, BehindOne
  <2> QED BY <1>1, <2>1, <2>2, <2>3, <2>4, Zenon
<1>4. 1 + 1 \in 1 .. Len(v) + 2 BY <1>3 DEF Text
<1>5. Rests(<<a>> \o v, put)[1 + (1 + 1)] = Rests(v, put)[1 + 1]
  <2>1. PICK i : i = 1 + 1 OBVIOUS
  <2>2. v \in Text /\ i \in 1 .. Len(v) + 2 BY <1>3, <1>4, <2>1
  <2>3. Rests(<<a>> \o v, put)[1 + i] = Rests(v, put)[i] BY <2>2, BehindOne
  <2> QED BY <2>1, <2>3, Zenon
<1>6. 1 + (1 + 1) = 3 OBVIOUS
<1> QED BY <1>1, <1>3, <1>5, <1>6, Zenon

\* A specifier is replaced.
LEMMA PassSpecifier ==
  ASSUME NEW put, PutsTexts(put),
         NEW a \in Char, a = "%", NEW letter \in Char, letter \in DOMAIN put, NEW w \in Text
  PROVE  Pass(<<a>> \o (<<letter>> \o w), put) = put[letter] \o Pass(w, put)
<1>1. PICK v : v = <<letter>> \o w OBVIOUS
<1>2. PICK text : text = <<a>> \o v OBVIOUS
<1>3. <<a>> \in Text /\ <<letter>> \in Text /\ Len(w) \in Nat BY DEF Text
<1>4. Len(<<a>>) = 1 /\ Len(<<letter>>) = 1 OBVIOUS
<1>5. v \in Text /\ Len(v) = Len(w) + 1 /\ v[1] = letter BY <1>1 DEF Text
<1>6. text \in Text /\ Len(text) = Len(w) + 2 /\ text[1] = a /\ text[2] = letter
  BY <1>2, <1>5, <1>3 DEF Text
<1>7. Rests(text, put)[3] = Rests(w, put)[1] BY <1>1, <1>2, BehindTwo, Zenon
<1>8. 1 \in 1 .. Len(text) + 2 /\ 1 \in 1 .. Len(text) - 1 BY <1>3, <1>6
<1>9. Hit(text, put, 1) BY <1>6, <1>8 DEF Hit, StandsAt
<1>10. Rests(text, put)[1] = put[text[1 + 1]] \o Rests(text, put)[1 + 2]
  BY <1>6, <1>8, <1>9, RestsAt
<1>11. 1 + 1 = 2 /\ 1 + 2 = 3 OBVIOUS
<1>12. Rests(text, put)[1] = put[letter] \o Rests(w, put)[1]
  BY <1>6, <1>7, <1>10, <1>11, Zenon
<1> QED BY <1>1, <1>2, <1>12, Zenon DEF Pass

\* No specifier for a letter in L stands in the text, or begins with its last
\* character.
Stays(text, L) ==
  /\ text # << >> => text[Len(text)] # "%"
  /\ \A c \in L : \A i \in DOMAIN text : ~ StandsAt(text, c, i)

\* Such a text stays as well.
LEMMA PassPlain ==
  ASSUME NEW u \in Text, NEW w \in Text, NEW put, PutsTexts(put), Stays(u, DOMAIN put)
  PROVE  Pass(u \o w, put) = u \o Pass(w, put)
<1> DEFINE n == Len(u)
           text == u \o w
           T == {i \in 1 .. n + 1 : Rests(text, put)[i] = SubSeq(u, i, n) \o Pass(w, put)}
<1>1. n \in Nat /\ text \in Text /\ Len(text) = n + Len(w) /\ Len(w) \in Nat BY DEF Text
<1>2. \A i \in 1 .. n : text[i] = u[i] BY DEF Text
<1>3. Rests(text, put)[n + 1] = Pass(w, put)
  <2>1. 1 \in 1 .. Len(w) + 2 BY <1>1
  <2>2. Rests(u \o w, put)[Len(u) + 1] = Rests(w, put)[1] BY <2>1, BehindPrefix
  <2> QED BY <2>2 DEF Pass
<1>4. Pass(w, put) \in Seq(Char) BY PassType DEF Text
<1> HIDE DEF text, n
<1>5. ASSUME NEW i \in 1 .. n + 1, \A j \in 1 .. n + 1 : j > i => j \in T PROVE i \in T
  <2>1. CASE i = n + 1
    <3>1. SubSeq(u, i, n) = << >>
      <4>1. u \in Seq(Char) /\ i \in Int /\ n \in Int /\ n < i BY <1>1, <2>1 DEF Text
      <4> QED BY <4>1, SubSeqEmpty
    <3>2. << >> \o Pass(w, put) = Pass(w, put) BY <1>4, ConcatEmptySeq
    <3> QED BY <1>3, <2>1, <3>1, <3>2
  <2>2. CASE i \in 1 .. n
    <3>1. i \in 1 .. Len(text) + 2 /\ i <= Len(text) BY <1>1, <2>2
    <3>2. ~ Hit(text, put, i)
      <4>1. SUFFICES ASSUME NEW c \in DOMAIN put, StandsAt(text, c, i) PROVE FALSE
        BY DEF Hit
      <4>2. text[i] = "%" /\ text[i + 1] = c BY <4>1 DEF StandsAt
      <4>3. u[i] = "%" BY <1>2, <2>2, <4>2
      <4>4. CASE i = n
        <5>1. u # << >> BY <1>1, <2>2 DEF n
        <5> QED BY <4>3, <4>4, <5>1 DEF Stays, n
      <4>5. CASE i # n
        <5>1. i + 1 \in 1 .. n /\ i \in 1 .. n - 1 BY <1>1, <2>2, <4>5
        <5>2. u[i + 1] = c BY <1>2, <4>2, <5>1
        <5>3. StandsAt(u, c, i) BY <4>3, <5>1, <5>2 DEF StandsAt, n
        <5>4. i \in DOMAIN u BY <2>2 DEF Text, n
        <5> QED BY <4>1, <5>3, <5>4 DEF Stays
      <4> QED BY <4>4, <4>5
    <3>3. Rests(text, put)[i] = <<u[i]>> \o Rests(text, put)[i + 1]
      <4>1. Rests(text, put)[i] = <<text[i]>> \o Rests(text, put)[i + 1]
        BY <1>1, <3>1, <3>2, RestsAt
      <4> QED BY <1>2, <2>2, <4>1
    <3>4. Rests(text, put)[i + 1] = SubSeq(u, i + 1, n) \o Pass(w, put)
      <4>1. i + 1 \in 1 .. n + 1 /\ i + 1 > i BY <1>1, <2>2
      <4> QED BY <1>5, <4>1
    <3>5. SubSeq(u, i, n) = <<u[i]>> \o SubSeq(u, i + 1, n)
      <4>1. u \in Seq(Char) /\ i \in 1 .. Len(u) /\ n \in i .. Len(u)
        BY <1>1, <2>2 DEF Text, n
      <4> QED BY <4>1, SubSeqRecursiveFirst
    <3>6. <<u[i]>> \o (SubSeq(u, i + 1, n) \o Pass(w, put))
            = (<<u[i]>> \o SubSeq(u, i + 1, n)) \o Pass(w, put)
      <4>1. u[i] \in Char BY <2>2 DEF Text, n
      <4>2. <<u[i]>> \in Seq(Char) BY <4>1
      <4>3. SubSeq(u, i + 1, n) \in Seq(Char)
        <5>1. \A k \in i + 1 .. n : u[k] \in Char BY <1>1, <2>2 DEF Text, n
        <5>2. i + 1 \in Nat /\ n \in Nat BY <1>1, <2>2
        <5> QED BY <5>1, <5>2
      <4>4. \A a, b, c \in Seq(Char) : a \o (b \o c) = (a \o b) \o c BY ConcatAssociative
      <4> HIDE DEF T
      <4> QED BY <1>4, <4>2, <4>3, <4>4, Zenon
    <3>7. Rests(text, put)[i] = SubSeq(u, i, n) \o Pass(w, put)
      BY <3>3, <3>4, <3>5, <3>6
    <3> QED BY <3>7
  <2> QED BY <1>1, <2>1, <2>2
<1>6. 1 .. n + 1 \subseteq T
  <2>1. n + 1 \in Nat BY <1>1
  <2> HIDE DEF T
  <2> QED BY <1>5, <2>1, Backwards
<1>7. Rests(text, put)[1] = SubSeq(u, 1, n) \o Pass(w, put) BY <1>1, <1>6
<1>8. SubSeq(u, 1, n) = u BY SubSeqFull DEF Text, n
<1> QED BY <1>7, <1>8 DEF Pass, text

-----------------------------------------------------------------------------
(* One pass after the other.                                               *)

\* What is put in when only the specifiers in D are replaced.
Only(put, D) == [c \in D |-> put[c]]

\* A specifier in D stands at position i.
Starts(text, D, i) == i \in 1 .. Len(text) - 1 /\ text[i] = "%" /\ text[i + 1] \in D

LEMMA OnlyPutsTexts ==
  ASSUME NEW put, PutsTexts(put), NEW D \in SUBSET DOMAIN put
  PROVE  PutsTexts(Only(put, D)) /\ DOMAIN Only(put, D) = D
BY DEF PutsTexts, Only

LEMMA HitOnly ==
  ASSUME NEW text, NEW put, NEW D, NEW i PROVE Hit(text, Only(put, D), i) <=> Starts(text, D, i)
BY DEF Hit, Only, Starts, StandsAt

LEMMA RestsOnly ==
  ASSUME NEW text \in Text, NEW put, PutsTexts(put), NEW D \in SUBSET DOMAIN put,
         NEW i \in 1 .. Len(text) + 2
  PROVE  LET rest == Rests(text, Only(put, D)) IN
         /\ rest[i] \in Text
         /\ i > Len(text) => rest[i] = << >>
         /\ Starts(text, D, i) => rest[i] = put[text[i + 1]] \o rest[i + 2]
         /\ i <= Len(text) /\ ~ Starts(text, D, i) => rest[i] = <<text[i]>> \o rest[i + 1]
<1>1. PICK only : only = Only(put, D) OBVIOUS
<1>2. PutsTexts(only) /\ DOMAIN only = D BY <1>1, OnlyPutsTexts
<1>3. Hit(text, only, i) <=> Starts(text, D, i) BY <1>1, HitOnly
<1>4. PICK rest : rest = Rests(text, only) OBVIOUS
<1>5. rest[i] \in Text BY <1>2, <1>4, RestsEquation
<1>6. i > Len(text) => rest[i] = << >> BY <1>2, <1>4, RestsAt
<1>7. ASSUME Starts(text, D, i) PROVE rest[i] = put[text[i + 1]] \o rest[i + 2]
  <2>1. rest[i] = only[text[i + 1]] \o rest[i + 2]
    BY <1>2, <1>3, <1>4, <1>7, RestsAt, Zenon
  <2>2. only[text[i + 1]] = put[text[i + 1]] BY <1>1, <1>7 DEF Only, Starts
  <2> QED BY <2>1, <2>2, Zenon
<1>8. i <= Len(text) /\ ~ Starts(text, D, i) => rest[i] = <<text[i]>> \o rest[i + 1]
  BY <1>2, <1>3, <1>4, RestsAt, Zenon
<1> QED BY <1>1, <1>4, <1>5, <1>6, <1>7, <1>8, Zenon

\* Where nothing is put in, nothing changes.
LEMMA PassNothing ==
  ASSUME NEW text \in Text, NEW put, PutsTexts(put) PROVE Pass(text, Only(put, {})) = text
<1>1. PICK n : n = Len(text) /\ n \in Nat BY DEF Text
<1>2. PICK rest : rest = Rests(text, Only(put, {})) OBVIOUS
<1> DEFINE T == {i \in 1 .. n + 1 : rest[i] = SubSeq(text, i, n)}
<1>3. ASSUME NEW i \in 1 .. n + 1, \A j \in 1 .. n + 1 : j > i => j \in T PROVE i \in T
  <2>1. {} \in SUBSET DOMAIN put /\ ~ Starts(text, {}, i) BY DEF Starts
  <2>2. i \in 1 .. Len(text) + 2 BY <1>1
  <2>3. CASE i = n + 1
    <3>1. i > Len(text) BY <1>1, <2>3
    <3>2. rest[i] = << >> BY <1>2, <2>1, <2>2, <3>1, RestsOnly, Zenon
    <3>3. SubSeq(text, i, n) = << >>
      <4>1. i \in Int /\ n \in Int /\ n < i BY <1>1, <2>3
      <4> QED BY <4>1, SubSeqEmpty
    <3> QED BY <3>2, <3>3
  <2>4. CASE i \in 1 .. n
    <3>1. i <= Len(text) BY <1>1, <2>4
    <3>2. rest[i] = <<text[i]>> \o rest[i + 1]
      BY <1>2, <2>1, <2>2, <3>1, RestsOnly, Zenon
    <3>3. i + 1 \in T BY <1>1, <1>3, <2>4
    <3>4. rest[i + 1] = SubSeq(text, i + 1, n) BY <3>3
    <3>5. SubSeq(text, i, n) = <<text[i]>> \o SubSeq(text, i + 1, n)
      <4>1. text \in Seq(Char) /\ i \in 1 .. Len(text) /\ n \in i .. Len(text)
        BY <1>1, <2>4 DEF Text
      <4> QED BY <4>1, SubSeqRecursiveFirst
    <3>6. rest[i] = SubSeq(text, i, n) BY <3>2, <3>4, <3>5, Zenon
    <3> QED BY <3>6
  <2> QED BY <1>1, <2>3, <2>4
<1>4. 1 .. n + 1 \subseteq T
  <2>1. n + 1 \in Nat BY <1>1
  <2> HIDE DEF T
  <2> QED BY <1>3, <2>1, Backwards
<1>5. rest[1] = SubSeq(text, 1, n)
  <2>1. 1 \in 1 .. n + 1 BY <1>1
  <2>2. 1 \in T BY <1>4, <2>1
  <2> QED BY <2>2
<1>6. SubSeq(text, 1, n) = text BY <1>1, SubSeqFull DEF Text
<1> QED BY <1>2, <1>5, <1>6, Zenon DEF Pass

\* A specifier that does not occur does not matter.
LEMMA PassAbsent ==
  ASSUME NEW text \in Text, NEW put, PutsTexts(put), NEW D \in SUBSET DOMAIN put,
         NEW letter \in DOMAIN put, \A i \in DOMAIN text : ~ StandsAt(text, letter, i)
  PROVE  Pass(text, Only(put, D \cup {letter})) = Pass(text, Only(put, D))
<1>1. PICK n : n = Len(text) /\ n \in Nat BY DEF Text
<1>2. PICK E : E = D \cup {letter} /\ E \in SUBSET DOMAIN put OBVIOUS
<1>3. PICK less : less = Rests(text, Only(put, D)) OBVIOUS
<1>4. PICK more : more = Rests(text, Only(put, E)) OBVIOUS
<1> DEFINE T == {i \in 1 .. n + 2 : more[i] = less[i]}
<1>5. ASSUME NEW i \in 1 .. n + 2, \A j \in 1 .. n + 2 : j > i => j \in T PROVE i \in T
  <2>1. Starts(text, E, i) <=> Starts(text, D, i)
    <3>1. i \in 1 .. n - 1 => i \in DOMAIN text BY <1>1 DEF Text
    <3> QED BY <1>1, <1>2, <3>1 DEF Starts, StandsAt
  <2>2. CASE i > n
    <3>1. i \in 1 .. Len(text) + 2 /\ i > Len(text) BY <1>1, <2>2
    <3>2. less[i] = << >> BY <1>3, <3>1, RestsOnly, Zenon
    <3>3. more[i] = << >> BY <1>2, <1>4, <3>1, RestsOnly, Zenon
    <3> QED BY <3>2, <3>3
  <2>3. CASE Starts(text, D, i)
    <3>1. i + 2 \in T BY <1>1, <1>5, <2>3 DEF Starts
    <3>2. more[i + 2] = less[i + 2] BY <3>1
    <3>3. less[i] = put[text[i + 1]] \o less[i + 2]
      BY <1>1, <1>3, <2>3, RestsOnly, Zenon
    <3>4. more[i] = put[text[i + 1]] \o more[i + 2]
      BY <1>1, <1>2, <1>4, <2>1, <2>3, RestsOnly, Zenon
    <3> QED BY <3>2, <3>3, <3>4, Zenon
  <2>4. CASE i <= n /\ ~ Starts(text, D, i)
    <3>1. i + 1 \in T BY <1>1, <1>5, <2>4
    <3>2. more[i + 1] = less[i + 1] BY <3>1
    <3>3. less[i] = <<text[i]>> \o less[i + 1]
      BY <1>1, <1>3, <2>4, RestsOnly, Zenon
    <3>4. i \in 1 .. Len(text) + 2 /\ i <= Len(text) /\ ~ Starts(text, E, i)
      BY <1>1, <2>1, <2>4
    <3>5. more[i] = <<text[i]>> \o more[i + 1]
      BY <1>2, <1>4, <3>4, RestsOnly, Zenon
    <3> QED BY <3>2, <3>3, <3>5, Zenon
  <2> QED BY <1>1, <2>2, <2>3, <2>4
<1>6. 1 .. n + 2 \subseteq T
  <2>1. n + 2 \in Nat BY <1>1
  <2> HIDE DEF T
  <2> QED BY <1>5, <2>1, Backwards
<1>7. more[1] = less[1] BY <1>1, <1>6
<1> QED BY <1>2, <1>3, <1>4, <1>7, Zenon DEF Pass

\* Nothing that is put in for a specifier in D makes one for the letter.
Harmless(text, put, D, letter) ==
  /\ \A c \in D, i \in DOMAIN text : StandsAt(text, c, i) => Stays(put[c], {letter})
  /\ \A i \in DOMAIN text, c \in DOMAIN put : StandsAt(text, c, i + 1) => text[i] # "%"
  /\ "%" \notin DOMAIN put

\* Replacing the specifiers in D, and then another one in what has become of the
\* text, is replacing them all at once.
LEMMA TwoPasses ==
  ASSUME NEW text \in Text, NEW put, PutsTexts(put), NEW D \in SUBSET DOMAIN put,
         NEW letter, letter \in DOMAIN put \ D, Harmless(text, put, D, letter)
  PROVE  Pass(Pass(text, Only(put, D)), Only(put, {letter}))
           = Pass(text, Only(put, D \cup {letter}))
<1>1. PICK n : n = Len(text) /\ n \in Nat BY DEF Text
<1>2. PICK E : E = D \cup {letter} OBVIOUS
<1>3. E \in SUBSET DOMAIN put BY <1>2
<1>4. PICK first : first = Rests(text, Only(put, D)) OBVIOUS
<1>5. PICK both : both = Rests(text, Only(put, E)) OBVIOUS
<1>6. PICK second : second = Only(put, {letter}) OBVIOUS
<1>7. PutsTexts(second) /\ DOMAIN second = {letter} /\ second[letter] = put[letter]
  <2>1. PutsTexts(second) /\ DOMAIN second = {letter} BY <1>6, OnlyPutsTexts
  <2> QED BY <1>6, <2>1 DEF Only
<1>8. \A i \in 1 .. n + 2 : first[i] \in Text
  <2>1. SUFFICES ASSUME NEW i \in 1 .. n + 2 PROVE first[i] \in Text OBVIOUS
  <2>2. i \in 1 .. Len(text) + 2 BY <1>1
  <2> QED BY <1>4, <2>2, RestsOnly, Zenon
<1> DEFINE T == {i \in 1 .. n + 2 : Pass(first[i], second) = both[i]}
<1>9. ASSUME NEW i \in 1 .. n + 2, \A j \in 1 .. n + 2 : j > i => j \in T PROVE i \in T
  <2>1. i \in 1 .. Len(text) + 2 BY <1>1
  <2>2. CASE i > n
    <3>1. i > Len(text) BY <1>1, <2>2
    <3>2. first[i] = << >> BY <1>4, <2>1, <3>1, RestsOnly, Zenon
    <3>3. both[i] = << >> BY <1>3, <1>5, <2>1, <3>1, RestsOnly, Zenon
    <3>4. Pass(<< >>, second) = << >> BY <1>7, PassEmpty, Zenon
    <3> QED BY <3>2, <3>3, <3>4, Zenon
  <2>3. CASE Starts(text, D, i)
    <3>1. PICK c : c = text[i + 1] /\ c \in D BY <2>3 DEF Starts
    <3>2. i + 2 \in 1 .. n + 2 /\ i + 2 > i BY <1>1, <2>3 DEF Starts
    <3>3. Pass(first[i + 2], second) = both[i + 2] BY <1>9, <3>2
    <3>4. first[i] = put[c] \o first[i + 2]
      BY <1>4, <2>1, <2>3, <3>1, RestsOnly, Zenon
    <3>5. Starts(text, E, i) BY <1>2, <2>3 DEF Starts
    <3>6. both[i] = put[c] \o both[i + 2]
      BY <1>3, <1>5, <2>1, <3>1, <3>5, RestsOnly, Zenon
    <3>7. PICK u : u = put[c] OBVIOUS
    <3>8. u \in Text /\ Stays(u, DOMAIN second)
      <4>1. StandsAt(text, c, i) /\ i \in DOMAIN text
        BY <1>1, <2>3, <3>1 DEF Starts, StandsAt, Text
      <4>2. Stays(put[c], {letter}) BY <3>1, <4>1 DEF Harmless
      <4> QED BY <1>7, <3>1, <3>7, <4>2 DEF PutsTexts
    <3>9. PICK rest : rest = first[i + 2] /\ rest \in Text BY <1>8, <3>2
    <3>10. Pass(u \o rest, second) = u \o Pass(rest, second) BY <1>7, <3>8, <3>9, PassPlain
    <3>11. Pass(first[i], second) = both[i]
      BY <3>3, <3>4, <3>6, <3>7, <3>9, <3>10, Zenon
    <3> QED BY <3>11
  <2>4. CASE StandsAt(text, letter, i)
    <3>1. i \in 1 .. n - 1 /\ text[i] = "%" /\ text[i + 1] = letter
      BY <1>1, <2>4 DEF StandsAt
    <3>2. /\ i + 1 \in 1 .. n + 2 /\ i + 2 \in 1 .. n + 2 /\ i + 2 > i /\ i <= n
          /\ i + 1 <= n
      BY <1>1, <3>1
    <3>3. ~ Starts(text, D, i) /\ Starts(text, E, i)
      BY <1>1, <1>2, <3>1 DEF Starts
    <3>4. ~ Starts(text, D, i + 1) BY <3>1 DEF Starts, Harmless
    <3>5. first[i] = <<text[i]>> \o first[i + 1]
      <4>1. i <= Len(text) /\ ~ Starts(text, D, i) BY <1>1, <3>2, <3>3
      <4> QED BY <1>4, <2>1, <4>1, RestsOnly, Zenon
    <3>6. first[i + 1] = <<text[i + 1]>> \o first[i + 2]
      <4>1. PICK j : j = i + 1 OBVIOUS
      <4>2. j \in 1 .. Len(text) + 2 /\ j <= Len(text) /\ ~ Starts(text, D, j)
        BY <1>1, <3>2, <3>4, <4>1
      <4>3. first[j] = <<text[j]>> \o first[j + 1] BY <1>4, <4>2, RestsOnly, Zenon
      <4>4. j + 1 = i + 2 BY <4>1
      <4> QED BY <4>1, <4>3, <4>4, Zenon
    <3>7. both[i] = put[letter] \o both[i + 2]
      BY <1>3, <1>5, <2>1, <3>1, <3>3, RestsOnly, Zenon
    <3>8. Pass(first[i + 2], second) = both[i + 2] BY <1>9, <3>2
    <3>9. PICK rest : rest = first[i + 2] /\ rest \in Text BY <1>8, <3>2
    <3>10. PICK a : a = text[i] OBVIOUS
    <3>11. a \in Char /\ a = "%" /\ letter \in Char
      <4>1. i \in 1 .. Len(text) /\ i + 1 \in 1 .. Len(text) BY <1>1, <3>1
      <4> QED BY <3>1, <3>10, <4>1 DEF Text
    <3>12. Pass(<<a>> \o (<<letter>> \o rest), second) = second[letter] \o Pass(rest, second)
      <4>1. letter \in DOMAIN second BY <1>7
      <4> QED BY <1>7, <3>9, <3>11, <4>1, PassSpecifier
    <3>13. Pass(first[i], second) = both[i]
      BY <1>7, <3>1, <3>5, <3>6, <3>7, <3>8, <3>9, <3>10, <3>12, Zenon
    <3> QED BY <3>13
  <2>5. CASE i <= n /\ ~ Starts(text, D, i) /\ ~ StandsAt(text, letter, i)
    <3>1. i + 1 \in 1 .. n + 2 /\ i + 1 > i /\ i <= Len(text) BY <1>1, <2>5
    <3>2. ~ Starts(text, E, i) BY <1>2, <2>5 DEF Starts, StandsAt
    <3>3. first[i] = <<text[i]>> \o first[i + 1]
      BY <1>4, <2>1, <2>5, <3>1, RestsOnly, Zenon
    <3>4. both[i] = <<text[i]>> \o both[i + 1]
      BY <1>3, <1>5, <2>1, <3>1, <3>2, RestsOnly, Zenon
    <3>5. Pass(first[i + 1], second) = both[i + 1] BY <1>9, <3>1
    <3>6. PICK rest : rest = first[i + 1] /\ rest \in Text BY <1>8, <3>1
    <3>7. text[i] \in Char BY <1>1, <2>5, <3>1 DEF Text
    <3>8. ASSUME text[i] = "%" PROVE rest = << >> \/ rest[1] \notin DOMAIN second
      <4>1. PICK j : j = i + 1 /\ j \in 1 .. Len(text) + 2 BY <1>1, <3>1
      <4>2. CASE i = n
        <5>1. j > Len(text) BY <1>1, <4>1, <4>2
        <5>2. first[j] = << >> BY <1>4, <4>1, <5>1, RestsOnly, Zenon
        <5> QED BY <3>6, <4>1, <5>2
      <4>3. CASE i < n
        <5>1. i \in DOMAIN text /\ j <= Len(text) /\ i \in 1 .. Len(text) - 1
          BY <1>1, <4>1, <4>3 DEF Text
        <5>2. ~ Starts(text, D, j)
          <6>1. ASSUME Starts(text, D, j) PROVE FALSE
            <7>1. PICK c \in D : c = text[j + 1] BY <6>1 DEF Starts
            <7>2. StandsAt(text, c, i + 1) BY <4>1, <6>1, <7>1 DEF Starts, StandsAt
            <7> QED BY <3>8, <5>1, <7>1, <7>2 DEF Harmless
          <6> QED BY <6>1
        <5>3. first[j] = <<text[j]>> \o first[j + 1]
          BY <1>4, <4>1, <5>1, <5>2, RestsOnly, Zenon
        <5>4. text[j] # letter BY <2>5, <3>8, <4>1, <5>1 DEF StandsAt
        <5>5. first[j + 1] \in Text
          <6>1. j + 1 \in 1 .. n + 2 BY <1>1, <4>1, <5>1
          <6> QED BY <1>8, <6>1
        <5>6. rest[1] = text[j]
          <6>1. PICK later : later = first[j + 1] /\ later \in Text BY <5>5
          <6>2. rest = <<text[j]>> \o later BY <3>6, <4>1, <5>3, <6>1, Zenon
          <6> QED BY <6>1, <6>2 DEF Text
        <5> QED BY <1>7, <5>4, <5>6
      <4> QED BY <1>1, <2>5, <4>2, <4>3
    <3>9. Pass(<<text[i]>> \o rest, second) = <<text[i]>> \o Pass(rest, second)
      BY <1>7, <3>6, <3>7, <3>8, PassChar, Zenon
    <3>10. Pass(first[i], second) = both[i] BY <3>3, <3>4, <3>5, <3>6, <3>9, Zenon
    <3> QED BY <3>10
  <2> QED BY <1>1, <2>2, <2>3, <2>4, <2>5
<1>10. 1 .. n + 2 \subseteq T
  <2>1. n + 2 \in Nat BY <1>1
  <2> HIDE DEF T
  <2> QED BY <1>9, <2>1, Backwards
<1>11. Pass(first[1], second) = both[1]
  <2>1. 1 \in 1 .. n + 2 BY <1>1
  <2>2. 1 \in T BY <1>10, <2>1
  <2> QED BY <2>2
<1>12. Pass(text, Only(put, D)) = first[1] /\ Pass(text, Only(put, E)) = both[1]
  BY <1>4, <1>5, Zenon DEF Pass
<1> QED BY <1>2, <1>6, <1>11, <1>12, Zenon

-----------------------------------------------------------------------------
(* The loop of prepare_log_message().                                      *)

\* The specifiers for which something other than the time is put in.
Letters == {"f", "F", "l", "u", "h", "m", "s"}

LEMMA SpecifiersAre ==
  /\ Len(Specifiers) = 9 /\ DOMAIN Specifiers = 1 .. 9
  /\ \A n \in 1 .. 9 : Specifiers[n] \in Letters \cup {"d", "t"}
  /\ \A n \in 2 .. 9 : Specifiers[n] # "d"
  /\ \A n, k \in 1 .. 9 : n # k => Specifiers[n] # Specifiers[k]
  /\ Range(Specifiers) = Letters \cup {"d", "t"}
<1>1. Len(Specifiers) = 9 /\ DOMAIN Specifiers = 1 .. 9 BY DEF Specifiers
<1>2. /\ Specifiers[1] = "d" /\ Specifiers[2] = "f" /\ Specifiers[3] = "F"
      /\ Specifiers[4] = "l" /\ Specifiers[5] = "u" /\ Specifiers[6] = "h"
      /\ Specifiers[7] = "t" /\ Specifiers[8] = "m" /\ Specifiers[9] = "s"
  BY DEF Specifiers
<1>3. \A n \in 1 .. 9 : n \in {1, 2, 3, 4, 5, 6, 7, 8, 9} OBVIOUS
<1>4. \A n \in 1 .. 9 : Specifiers[n] \in Letters \cup {"d", "t"} BY <1>2, <1>3 DEF Letters
<1>5. \A n \in 2 .. 9 : Specifiers[n] # "d" BY <1>2
<1>6. \A n, k \in 1 .. 9 : n # k => Specifiers[n] # Specifiers[k] BY <1>2, <1>3
<1>7. Letters \cup {"d", "t"} \subseteq {Specifiers[n] : n \in 1 .. 9} BY <1>2 DEF Letters
<1>8. Range(Specifiers) = {Specifiers[n] : n \in 1 .. 9} BY <1>1 DEF Range
<1>9. Range(Specifiers) \subseteq Letters \cup {"d", "t"} BY <1>4, <1>8
<1> QED BY <1>1, <1>4, <1>5, <1>6, <1>7, <1>8, <1>9

LEMMA ReplacedType ==
  ASSUME NEW text \in Text, NEW c, NEW value \in Text
  PROVE  Replaced(text, c, value) \in Text
<1>1. PutsTexts([letter \in {c} |-> value]) BY DEF PutsTexts
<1> QED BY <1>1, PassType DEF Replaced

\* The value of the function at n in terms of the one before.
AfterAt(after, patterns, text, value, n) ==
  IF n = 0 THEN text
  ELSE IF Specifiers[n] \in patterns \ {"d", "t"}
       THEN Replaced(after[n - 1], Specifiers[n], value[Specifiers[n]])
       ELSE after[n - 1]

LEMMA AfterAtType ==
  ASSUME NEW patterns, NEW text \in Text, NEW value,
         \A c \in Letters : value[c] \in Text, NEW after, NEW k \in 0 .. 8, after[k] \in Text
  PROVE  AfterAt(after, patterns, text, value, k + 1) \in Text
<1>1. k + 1 \in 1 .. 9 /\ k + 1 - 1 = k OBVIOUS
<1>2. PICK c : c = Specifiers[k + 1] /\ c \in Letters \cup {"d", "t"}
  BY <1>1, SpecifiersAre
<1>3. CASE c \in patterns \ {"d", "t"}
  <2>1. value[c] \in Text BY <1>2, <1>3
  <2>2. Replaced(after[k], c, value[c]) \in Text BY <2>1, ReplacedType
  <2> QED BY <1>1, <1>2, <1>3, <2>2 DEF AfterAt
<1>4. CASE c \notin patterns \ {"d", "t"} BY <1>1, <1>2, <1>4 DEF AfterAt
<1> QED BY <1>3, <1>4

LEMMA AfterExists ==
  ASSUME NEW patterns, NEW text \in Text, NEW value,
         \A c \in Letters : value[c] \in Text
  PROVE  \E after : after = [n \in 0 .. 9 |-> AfterAt(after, patterns, text, value, n)]
<1> DEFINE K == {k \in Nat : k <= 9 =>
                   \E after \in [0 .. 9 -> Text] :
                     \A n \in 0 .. k : after[n] = AfterAt(after, patterns, text, value, n)}
<1>1. 0 \in K
  <2>1. PICK after : after = [n \in 0 .. 9 |-> text] OBVIOUS
  <2>2. after \in [0 .. 9 -> Text] BY <2>1
  <2>3. \A n \in 0 .. 0 : after[n] = AfterAt(after, patterns, text, value, n)
    BY <2>1 DEF AfterAt
  <2> QED BY <2>2, <2>3
<1>2. ASSUME NEW k \in Nat, k \in K PROVE k + 1 \in K
  <2>1. SUFFICES ASSUME k + 1 <= 9
                 PROVE  \E after \in [0 .. 9 -> Text] : \A n \in 0 .. k + 1 :
                          after[n] = AfterAt(after, patterns, text, value, n)
    OBVIOUS
  <2>2. PICK after \in [0 .. 9 -> Text] :
          \A n \in 0 .. k : after[n] = AfterAt(after, patterns, text, value, n)
    BY <1>2, <2>1
  <2>3. PICK next : next = AfterAt(after, patterns, text, value, k + 1) OBVIOUS
  <2>4. next \in Text
    <3>1. k \in 0 .. 8 /\ after[k] \in Text BY <2>1
    <3> QED BY <2>3, <3>1, AfterAtType
  <2> DEFINE new == [after EXCEPT ![k + 1] = next]
  <2>5. new \in [0 .. 9 -> Text] BY <2>4
  <2>6. new[k + 1] = next /\ \A n \in 0 .. k : new[n] = after[n] BY <2>1
  <2> HIDE DEF new
  <2>7. ASSUME NEW n \in 0 .. k + 1 PROVE new[n] = AfterAt(new, patterns, text, value, n)
    <3>1. n # 0 => new[n - 1] = after[n - 1] BY <2>6
    <3>2. AfterAt(new, patterns, text, value, n) = AfterAt(after, patterns, text, value, n)
      BY <3>1 DEF AfterAt
    <3> QED BY <2>2, <2>3, <2>6, <3>2
  <2> QED BY <2>5, <2>7
<1>3. 9 \in K
  <2> HIDE DEF K
  <2> QED BY <1>1, <1>2, Induction
<1>4. PICK after \in [0 .. 9 -> Text] :
        \A n \in 0 .. 9 : after[n] = AfterAt(after, patterns, text, value, n)
  BY <1>3
<1>5. after = [n \in 0 .. 9 |-> AfterAt(after, patterns, text, value, n)] BY <1>4
<1> QED BY <1>5, Zenon

\* What the text is after each specifier.
IsAfter(after, patterns, text, value) ==
  /\ after \in [0 .. 9 -> Text]
  /\ after[0] = text
  /\ \A n \in 1 .. 9 :
       after[n] = IF Specifiers[n] \in patterns \ {"d", "t"}
                  THEN Replaced(after[n - 1], Specifiers[n], value[Specifiers[n]])
                  ELSE after[n - 1]
  /\ Substitute(patterns, text, value) = after[9]

LEMMA SubstituteIs ==
  ASSUME NEW patterns, NEW text \in Text, NEW value,
         \A c \in Letters : value[c] \in Text
  PROVE  \E after : IsAfter(after, patterns, text, value)
<1> DEFINE after == CHOOSE f : f = [n \in 0 .. 9 |-> AfterAt(f, patterns, text, value, n)]
<1>1. after = [n \in 0 .. 9 |-> AfterAt(after, patterns, text, value, n)]
  <2>1. \E f : f = [n \in 0 .. 9 |-> AfterAt(f, patterns, text, value, n)] BY AfterExists
  <2> QED BY <2>1, Zenon
<1>2. Len(Specifiers) = 9 BY SpecifiersAre
<1>3. Substitute(patterns, text, value) = after[9]
  BY <1>2, Zenon DEF Substitute, AfterAt
<1> HIDE DEF after
<1>4. \A n \in 0 .. 9 : after[n] = AfterAt(after, patterns, text, value, n) BY <1>1
<1>5. after[0] = text BY <1>4 DEF AfterAt
<1>6. ASSUME NEW n \in 1 .. 9
      PROVE  after[n] = IF Specifiers[n] \in patterns \ {"d", "t"}
                        THEN Replaced(after[n - 1], Specifiers[n], value[Specifiers[n]])
                        ELSE after[n - 1]
  <2>1. n \in 0 .. 9 /\ n # 0 OBVIOUS
  <2> QED BY <1>4, <2>1, Zenon DEF AfterAt
<1> DEFINE K == {k \in Nat : k <= 9 => after[k] \in Text}
<1>7. 0 \in K BY <1>5
<1>8. ASSUME NEW k \in Nat, k \in K PROVE k + 1 \in K
  <2>1. SUFFICES ASSUME k + 1 <= 9 PROVE after[k + 1] \in Text OBVIOUS
  <2>2. k \in 0 .. 8 /\ k + 1 \in 0 .. 9 /\ after[k] \in Text BY <1>8, <2>1
  <2>3. AfterAt(after, patterns, text, value, k + 1) \in Text BY <2>2, AfterAtType
  <2> QED BY <1>4, <2>2, <2>3
<1>9. Nat \subseteq K
  <2> HIDE DEF K
  <2> QED BY <1>7, <1>8, Induction
<1>10. \A n \in 0 .. 9 : after[n] \in Text BY <1>9
<1>11. after \in [0 .. 9 -> Text] BY <1>1, <1>10
<1>12. IsAfter(after, patterns, text, value) BY <1>3, <1>5, <1>6, <1>11 DEF IsAfter
<1> QED BY <1>12

LEMMA SubstituteType ==
  ASSUME NEW patterns, NEW text \in Text, NEW value,
         \A c \in Letters : value[c] \in Text
  PROVE  Substitute(patterns, text, value) \in Text
<1>1. PICK after : IsAfter(after, patterns, text, value) BY SubstituteIs
<1> QED BY <1>1 DEF IsAfter

LEMMA ReplacedIsPass ==
  ASSUME NEW text, NEW put, NEW letter
  PROVE  Replaced(text, letter, put[letter]) = Pass(text, Only(put, {letter}))
<1>1. [l \in {letter} |-> put[letter]] = [l \in {letter} |-> put[l]] OBVIOUS
<1> QED BY <1>1, Zenon DEF Replaced, Only

\* Rendering a message makes a text.
LEMMA RenderType ==
  ASSUME NEW patterns, NEW template \in Text, NEW datetime \in Text, NEW value,
         \A c \in Letters : value[c] \in Text
  PROVE  Render(patterns, template, datetime, value) \in Text
<1>1. PICK text : text = IF "d" \in patterns THEN Replaced(template, "d", datetime)
                                             ELSE template
  OBVIOUS
<1>2. text \in Text BY <1>1, ReplacedType
<1>3. Substitute(patterns, text, value) \in Text BY <1>2, SubstituteType
<1> QED BY <1>1, <1>3, Zenon DEF Render

\* For every template, every time and every value, what prepare_log_message() makes
\* of a template by replacing one specifier after the other, each by searching the
\* growing text from its start, is what one pass over the template makes of it:
\* unless a value or a stray % makes a specifier whose turn is still to come, or the
\* template asks for a thread id, which nothing is put in for.
THEOREM SubstitutionIsAtOnce ==
  ASSUME NEW template \in Text, NEW datetime \in Text, NEW value \in [Letters -> Text]
  PROVE  SubstitutesAtOnce(template, datetime, value)
<1> DEFINE put == [c \in Range(Specifiers) \ {"t"} |-> IF c = "d" THEN datetime ELSE value[c]]
           patterns == ConvPatterns(template)
           Done(n) == ({"d"} \cup {Specifiers[k] : k \in 1 .. n}) \ {"t"}
<1>1. SUFFICES ASSUME Unambiguous(template, datetime, value)
               PROVE  Render(patterns, template, datetime, value) = Pass(template, put)
  BY Zenon DEF SubstitutesAtOnce, AtOnce, PutIn
<1>2. DOMAIN put = Letters \cup {"d"} BY SpecifiersAre DEF Letters
<1>3. put["d"] = datetime /\ \A c \in Letters : put[c] = value[c]
  BY SpecifiersAre DEF Letters
<1>4. PutsTexts(put)
  <2>1. \A c \in Letters : value[c] \in Text OBVIOUS
  <2> HIDE DEF put
  <2> QED BY <1>2, <1>3, <2>1 DEF PutsTexts
<1>5. \A n \in 1 .. 9 : Specifiers[n] \in patterns => Inert(patterns, put[Specifiers[n]], n)
  <2>1. put = PutIn(datetime, value) BY DEF PutIn
  <2> QED BY <1>1, <2>1, SpecifiersAre DEF Unambiguous
<1>6. \A i \in DOMAIN template, c \in DOMAIN put :
        StandsAt(template, c, i + 1) => template[i] # "%"
  <2> SUFFICES ASSUME NEW i \in DOMAIN template, NEW c \in DOMAIN put,
                      StandsAt(template, c, i + 1)
               PROVE  template[i] # "%"
    OBVIOUS
  <2>1. DOMAIN put \subseteq Range(Specifiers) BY <1>2, SpecifiersAre
  <2>2. i + 1 \in DOMAIN template BY DEF StandsAt, Text
  <2>3. c \in patterns BY <2>1, <2>2 DEF ConvPatterns
  <2> QED BY <1>1, <2>3 DEF Unambiguous
<1>7. "%" \notin DOMAIN put BY <1>2 DEF Letters
<1> HIDE DEF put
<1>8. ASSUME NEW k \in 0 .. 8, Specifiers[k + 1] # "d", Specifiers[k + 1] \in patterns
      PROVE  Harmless(template, put, Done(k), Specifiers[k + 1])
  <2>1. SUFFICES ASSUME NEW c \in Done(k), NEW i \in DOMAIN template,
                        StandsAt(template, c, i)
                 PROVE  Stays(put[c], {Specifiers[k + 1]})
    BY <1>6, <1>7 DEF Harmless
  <2>2. Specifiers[1] = "d" BY DEF Specifiers
  <2>3. PICK n \in 1 .. 9 : n <= k /\ c = Specifiers[n]
    <3>1. k # 0 BY <1>8, <2>2
    <3> QED BY <2>2, <3>1
  <2>4. c \in patterns
    <3>1. c \in Range(Specifiers) BY <2>3, SpecifiersAre DEF Range
    <3> QED BY <2>1, <3>1 DEF ConvPatterns
  <2>5. Inert(patterns, put[c], n) BY <1>5, <2>3, <2>4
  <2>6. k + 1 \in n + 1 .. Len(Specifiers) BY <2>3, SpecifiersAre
  <2> QED BY <1>8, <2>5, <2>6 DEF Inert, Stays
<1>9. \A letter \in DOMAIN put \ patterns : \A i \in DOMAIN template :
        ~ StandsAt(template, letter, i)
  BY <1>2, SpecifiersAre DEF ConvPatterns
<1> HIDE DEF patterns
<1>10. \A n \in 0 .. 9 : Done(n) \in SUBSET DOMAIN put
  <2>1. SUFFICES ASSUME NEW n \in 0 .. 9 PROVE Done(n) \in SUBSET DOMAIN put OBVIOUS
  <2>2. \A k \in 1 .. n : Specifiers[k] \in Letters \cup {"d", "t"} BY SpecifiersAre
  <2> QED BY <1>2, <2>2
\* The time first.
<1>11. PICK text : text = IF "d" \in patterns THEN Replaced(template, "d", datetime)
                                               ELSE template
  OBVIOUS
<1>12. text \in Text BY <1>11, ReplacedType
<1>13. text = Pass(template, Only(put, Done(0)))
  <2>1. Done(0) = {"d"} OBVIOUS
  <2>2. CASE "d" \in patterns
    <3>1. Replaced(template, "d", put["d"]) = Pass(template, Only(put, {"d"}))
      BY ReplacedIsPass
    <3>2. put["d"] = datetime BY <1>3
    <3> HIDE DEF Done
    <3> QED BY <1>11, <2>1, <2>2, <3>1, <3>2, Zenon
  <2>3. CASE "d" \notin patterns
    <3>1. {} \cup {"d"} = {"d"} /\ {} \in SUBSET DOMAIN put OBVIOUS
    <3>2. "d" \in DOMAIN put /\ \A i \in DOMAIN template : ~ StandsAt(template, "d", i)
      BY <1>2, <1>9, <2>3
    <3>3. Pass(template, Only(put, {} \cup {"d"})) = Pass(template, Only(put, {}))
      BY <1>4, <3>1, <3>2, PassAbsent
    <3>4. Pass(template, Only(put, {})) = template BY <1>4, PassNothing
    <3> QED BY <1>11, <2>1, <2>3, <3>1, <3>3, <3>4, Zenon
  <2> QED BY <2>2, <2>3
\* Then the others.
<1>14. PICK after : IsAfter(after, patterns, text, value)
  <2>1. \A c \in Letters : value[c] \in Text OBVIOUS
  <2> QED BY <1>12, <2>1, SubstituteIs
<1> DEFINE K == {k \in Nat : k <= 9 => after[k] = Pass(template, Only(put, Done(k)))}
<1>15. 0 \in K BY <1>13, <1>14 DEF IsAfter
<1>16. ASSUME NEW k \in Nat, k \in K PROVE k + 1 \in K
  <2>1. SUFFICES ASSUME k + 1 <= 9
                 PROVE  after[k + 1] = Pass(template, Only(put, Done(k + 1)))
    OBVIOUS
  <2>2. after[k] = Pass(template, Only(put, Done(k))) BY <1>16, <2>1
  <2>3. k + 1 \in 1 .. 9 /\ k \in 0 .. 9 /\ k + 1 - 1 = k BY <2>1
  <2>4. PICK letter : letter = Specifiers[k + 1] OBVIOUS
  <2>5. letter \in Letters \cup {"d", "t"} BY <2>3, <2>4, SpecifiersAre
  <2>6. after[k + 1] = IF letter \in patterns \ {"d", "t"}
                       THEN Replaced(after[k], letter, value[letter]) ELSE after[k]
    <3>1. PICK n : n = k + 1 /\ n \in 1 .. 9 /\ n - 1 = k BY <2>3
    <3>2. after[n] = IF Specifiers[n] \in patterns \ {"d", "t"}
                     THEN Replaced(after[n - 1], Specifiers[n], value[Specifiers[n]])
                     ELSE after[n - 1]
      BY <1>14, <3>1, Zenon DEF IsAfter
    <3> QED BY <2>4, <3>1, <3>2, Zenon
  <2>7. Done(k + 1) = Done(k) \cup ({letter} \ {"t"})
    <3>1. 1 .. k + 1 = (1 .. k) \cup {k + 1} OBVIOUS
    <3> QED BY <2>4, <3>1
  <2>8. CASE letter \in {"d", "t"}
    <3>1. Done(k + 1) = Done(k) BY <2>7, <2>8
    <3> QED BY <2>2, <2>6, <2>8, <3>1
  <2>9. CASE letter \notin {"d", "t"}
    <3>1. letter \in Letters /\ letter \in DOMAIN put BY <1>2, <2>5, <2>9
    <3>2. letter \notin Done(k)
      <4>1. \A i \in 1 .. k : Specifiers[i] # letter BY <2>3, <2>4, SpecifiersAre
      <4> QED BY <2>9, <4>1
    <3>3. Done(k + 1) = Done(k) \cup {letter} BY <2>7, <2>9
    <3>4. PICK D : D = Done(k) OBVIOUS
    <3>5. D \in SUBSET DOMAIN put /\ letter \notin D BY <1>10, <2>3, <3>2, <3>4
    <3> HIDE DEF Done
    <3>6. CASE letter \in patterns
      <4>1. after[k + 1] = Replaced(after[k], letter, value[letter])
        BY <2>6, <2>9, <3>6
      <4>2. Replaced(after[k], letter, put[letter]) = Pass(after[k], Only(put, {letter}))
        BY ReplacedIsPass
      <4>3. Harmless(template, put, D, letter)
        <5>1. letter # "d" BY <2>9
        <5>2. k \in 0 .. 8 BY <2>3
        <5> QED BY <1>8, <2>4, <3>4, <3>6, <5>1, <5>2
      <4>4. Pass(Pass(template, Only(put, D)), Only(put, {letter}))
              = Pass(template, Only(put, D \cup {letter}))
        BY <1>4, <3>1, <3>5, <4>3, TwoPasses
      <4>5. put[letter] = value[letter] BY <1>3, <3>1
      <4> QED BY <2>2, <3>3, <3>4, <4>1, <4>2, <4>4, <4>5, Zenon
    <3>7. CASE letter \notin patterns
      <4>1. after[k + 1] = after[k] BY <2>6, <3>7
      <4>2. \A i \in DOMAIN template : ~ StandsAt(template, letter, i) BY <1>9, <3>1, <3>7
      <4>3. Pass(template, Only(put, D \cup {letter})) = Pass(template, Only(put, D))
        BY <1>4, <3>1, <3>5, <4>2, PassAbsent
      <4> QED BY <2>2, <3>3, <3>4, <4>1, <4>3, Zenon
    <3> QED BY <3>6, <3>7
  <2> QED BY <2>8, <2>9
<1>17. 9 \in K
  <2> HIDE DEF K
  <2> QED BY <1>15, <1>16, Induction
<1>18. after[9] = Pass(template, Only(put, Done(9))) BY <1>17
<1>19. Only(put, Done(9)) = put
  <2>1. {Specifiers[k] : k \in 1 .. 9} = Range(Specifiers) BY SpecifiersAre DEF Range
  <2>2. Done(9) = DOMAIN put BY <1>2, <2>1, SpecifiersAre DEF Letters
  <2>3. Only(put, DOMAIN put) = put BY DEF put, Only
  <2> QED BY <2>2, <2>3, Zenon
<1>20. Substitute(patterns, text, value) = Pass(template, put)
  BY <1>14, <1>18, <1>19, Zenon DEF IsAfter
<1> QED BY <1>11, <1>20, Zenon DEF Render

\* For every path shorter than std::size_t can count, get_file_name() returns
\* what follows the last separator, or the path itself if it has none.
THEOREM FileNameIsLastElement ==
  ASSUME NEW path \in Text, Len(path) < SIZE
  PROVE  IsLastElement(path, FileName(path))
<1> DEFINE found == {i \in DOMAIN path : path[i] \in Separators}
<1>1. Len(path) \in Nat /\ DOMAIN path = 1 .. Len(path) BY DEF Text
<1>2. CASE found = {}
  <2>1. FindLastOf(path, Separators) = SIZE - 1 BY <1>2 DEF FindLastOf, npos
  <2>2. (SIZE - 1 + 1) % SIZE = 0 BY SizeAssumption
  <2>3. FileName(path) = SubSeq(path, 0 + 1, Len(path)) BY <2>1, <2>2 DEF FileName
  <2> QED BY <1>1, <1>2, <2>3 DEF IsLastElement
<1>3. CASE found # {}
  <2> DEFINE last == CHOOSE i \in found : \A j \in found : j <= i
  <2>1. last \in found /\ \A j \in found : j <= last
    BY <1>1, <1>3, LastPosition
  <2>2. FindLastOf(path, Separators) = last - 1 BY <1>3 DEF FindLastOf
  <2>3. last \in 1 .. Len(path) BY <1>1, <2>1
  <2> HIDE DEF last
  <2>4. (last - 1 + 1) % SIZE = last BY SizeAssumption, <2>3
  <2>5. FileName(path) = SubSeq(path, last + 1, Len(path)) BY <2>2, <2>4 DEF FileName
  <2>6. \A i \in last + 1 .. Len(path) : path[i] \notin Separators
    BY <1>1, <2>1, <2>3
  <2>7. path[last] \in Separators BY <2>1
  <2> QED BY <1>1, <2>3, <2>5, <2>6, <2>7 DEF IsLastElement
<1> QED BY <1>2, <1>3
-----------------------------------------------------------------------------
(* What goes into a line are texts.                                        *)

LEMMA FileNameType ==
  ASSUME NEW path \in Text PROVE FileName(path) \in Text
<1> DEFINE found == {i \in DOMAIN path : path[i] \in Separators}
           k == ((FindLastOf(path, Separators) + 1) % SIZE) + 1
<1>1. Len(path) \in Nat /\ DOMAIN path = 1 .. Len(path) BY DEF Text
<1>2. FindLastOf(path, Separators) \in Nat
  <2>1. CASE found = {} BY <2>1, SizeAssumption DEF FindLastOf, npos
  <2>2. CASE found # {}
    <3> DEFINE last == CHOOSE i \in found : \A j \in found : j <= i
    <3>1. last \in found BY <1>1, <2>2, LastPosition
    <3>2. FindLastOf(path, Separators) = last - 1 BY <2>2 DEF FindLastOf
    <3> HIDE DEF last
    <3> QED BY <1>1, <3>1, <3>2
  <2> QED BY <2>1, <2>2
<1>3. k \in Nat /\ k >= 1 BY <1>2, SizeAssumption
<1> HIDE DEF k
<1>4. \A i \in k .. Len(path) : path[i] \in Char BY <1>1, <1>3 DEF Text
<1>5. SubSeq(path, k, Len(path)) \in Seq(Char) BY <1>1, <1>3, <1>4, SubSeqProperties
<1> QED BY <1>5 DEF FileName, Text, k

LEMMA FormatTimeType ==
  ASSUME NEW time \in Times, NEW pattern \in Text
  PROVE  FormatTime(time, pattern, Garbage) \subseteq Text
<1>1. time \in Char BY TextAssumption
<1>2. Strftime(pattern, time) \in Text
  <2>1. Len(pattern) \in Nat /\ DOMAIN pattern = 1 .. Len(pattern) BY DEF Text
  <2>2. \A i \in 1 .. Len(pattern) : pattern[i] \in Char BY DEF Text
  <2>3. Strftime(pattern, time) \in [1 .. Len(pattern) -> Char]
    BY <1>1, <2>1, <2>2 DEF Strftime
  <2> QED BY <2>1, <2>3, SeqDef DEF Text
<1> QED BY <1>2, TextAssumption DEF FormatTime

LEMMA ValueType ==
  ASSUME NEW m \in Message PROVE Value(m) \in [Letters -> Text]
<1>1. m.lvl \in LOG_LEVEL /\ m.info \in [{"F", "l", "u", "m"} -> Text] BY DEF Message
<1>2. FileName(m.info["F"]) \in Text
  <2>1. m.info["F"] \in Text BY <1>1
  <2> QED BY <2>1, FileNameType
<1>3. Host \in Text /\ loglevel_lookup[m.lvl] \in Text BY <1>1, TextAssumption
<1>4. \A c \in {"F", "l", "u", "m"} : m.info[c] \in Text BY <1>1
<1> QED BY <1>2, <1>3, <1>4 DEF Value, Letters
=============================================================================
