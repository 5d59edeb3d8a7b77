------------------------- MODULE SettingsFileProofs -------------------------
(***************************************************************************)
(* Proofs about SettingsFile, for any table of settings and all texts.     *)
(*                                                                         *)
(* Agreement needs an inductive invariant of its own: each writer has just *)
(* the rest of the text to write, and a place of the file that does not    *)
(* hold what it should is in front of a writer.                            *)
(*                                                                         *)
(* The properties of what is loaded follow from what the reader makes of a *)
(* part of the text.  That is proved by induction, first over the          *)
(* characters of a value, then over the names.  The induction theorems of  *)
(* the library have an operator as a parameter; WFMin, which has none,     *)
(* takes their place in Induction below.                                   *)
(***************************************************************************)
EXTENDS SettingsFile, SequenceTheorems, WellFoundedInduction, TLAPS

-----------------------------------------------------------------------------
(* The first-order form of the induction over the natural numbers.         *)

Less == {ss \in Nat \X Nat : ss[1] < ss[2]}

LEMMA LessWellFounded == IsWellFoundedOn(Less, Nat)
BY NatLessThanWellFounded, Zenon DEF OpToRel, Less

\* A set with zero and the successors of its members has all natural numbers.
LEMMA Induction ==
  ASSUME NEW S, 0 \in S, \A n \in Nat : n \in S => n + 1 \in S
  PROVE  Nat \subseteq S
<1>1. SUFFICES ASSUME Nat \ S # {} PROVE FALSE
  OBVIOUS
<1>2. PICK x \in Nat \ S : \A y \in Nat \ S : ~ (<<y, x>> \in Less)
  <2>1. Nat \ S \subseteq Nat
    OBVIOUS
  <2>2. QED
    BY ONLY <1>1, <2>1, LessWellFounded, WFMin
<1>3. x - 1 \in Nat \ S
  <2>1. x # 0
    OBVIOUS
  <2>2. QED
    BY <2>1
<1>4. <<x - 1, x>> \in Less
  BY <1>3 DEF Less
<1>5. QED
  BY <1>2, <1>3, <1>4

-----------------------------------------------------------------------------
(* Sequences of sequences, one after the other.                            *)

\* f[i] is what the first i sequences make.
Joined(f, ss, n) ==
    f = [i \in 1 .. n |-> IF i = 1 THEN ss[i] ELSE f[i - 1] \o ss[i]]

\* The recursive function within FlattenSeq exists.
LEMMA JoinedExists ==
  ASSUME NEW T, NEW ss \in Seq(T), NEW n \in Nat
  PROVE  \E f : Joined(f, ss, n)
<1> DEFINE S == {k \in Nat : \E f : Joined(f, ss, k)}
<1>1. 0 \in S
  <2> DEFINE f == [i \in 1 .. 0 |-> i]
  <2>1. Joined(f, ss, 0)
    BY DEF Joined
  <2>2. QED
    BY <2>1
<1>2. ASSUME NEW k \in Nat, k \in S PROVE k + 1 \in S
  <2>1. PICK f : Joined(f, ss, k)
    BY <1>2
  <2> DEFINE g == [i \in 1 .. k + 1 |->
                     IF i <= k THEN f[i] ELSE IF i = 1 THEN ss[i] ELSE f[i - 1] \o ss[i]]
             G == [i \in 1 .. k + 1 |-> IF i = 1 THEN ss[i] ELSE g[i - 1] \o ss[i]]
  <2>2. ASSUME NEW i \in 1 .. k + 1 PROVE g[i] = G[i]
    <3>1. i # 1 => g[i - 1] = f[i - 1]
      OBVIOUS
    <3>2. ASSUME i <= k PROVE f[i] = IF i = 1 THEN ss[i] ELSE f[i - 1] \o ss[i]
      <4>1. i \in 1 .. k
        BY <3>2
      <4>2. QED
        BY <2>1, <4>1 DEF Joined
    <3>3. QED
      BY <3>1, <3>2
  <2>3. Joined(g, ss, k + 1)
    <3> HIDE DEF G
    <3>1. DOMAIN G = 1 .. k + 1 /\ G = [i \in 1 .. k + 1 |-> G[i]]
      BY DEF G
    <3>2. g = G
      BY <2>2, <3>1
    <3>3. QED
      BY <3>2, Zenon DEF Joined, G
  <2>4. QED
    <3> HIDE DEF g
    <3>1. QED
      BY <2>3
<1>3. n \in S
  <2> HIDE DEF S
  <2>1. QED
    BY <1>1, <1>2, Induction
<1>4. QED
  BY <1>3

\* The first n values of the function do not depend on how far it goes.
LEMMA JoinedUnique ==
  ASSUME NEW ss, NEW tt, NEW n \in Nat, NEW m \in Nat, n <= m,
         \A i \in 1 .. n : ss[i] = tt[i],
         NEW f, Joined(f, ss, n), NEW g, Joined(g, tt, m)
  PROVE  \A i \in 1 .. n : f[i] = g[i]
<1> DEFINE S == {k \in Nat : k \in 1 .. n => f[k] = g[k]}
<1>1. 0 \in S
  OBVIOUS
<1>2. ASSUME NEW k \in Nat, k \in S PROVE k + 1 \in S
  <2>1. SUFFICES ASSUME k + 1 \in 1 .. n PROVE f[k + 1] = g[k + 1]
    OBVIOUS
  <2>2. f[k + 1] = IF k + 1 = 1 THEN ss[k + 1] ELSE f[(k + 1) - 1] \o ss[k + 1]
    <3>1. f = [i \in 1 .. n |-> IF i = 1 THEN ss[i] ELSE f[i - 1] \o ss[i]]
      BY Zenon DEF Joined
    <3>2. QED
      BY <2>1, <3>1, Zenon
  <2>3. g[k + 1] = IF k + 1 = 1 THEN tt[k + 1] ELSE g[(k + 1) - 1] \o tt[k + 1]
    <3>1. k + 1 \in 1 .. m
      BY <2>1
    <3>2. g = [i \in 1 .. m |-> IF i = 1 THEN tt[i] ELSE g[i - 1] \o tt[i]]
      BY Zenon DEF Joined
    <3>3. QED
      BY <3>1, <3>2, Zenon
  <2>4. k + 1 # 1 => f[(k + 1) - 1] = g[(k + 1) - 1]
    BY <1>2, <2>1
  <2>5. QED
    BY <2>1, <2>2, <2>3, <2>4
<1>3. Nat \subseteq S
  <2> HIDE DEF S
  <2>1. QED
    BY <1>1, <1>2, Induction
<1>4. QED
  BY <1>3

Agree(ss, tt, n) == \A i \in 1 .. n : ss[i] = tt[i]

\* One sequence more leaves what was joined before.
LEMMA JoinedNext ==
  ASSUME NEW ss, NEW tt, NEW n \in Nat, Agree(ss, tt, n),
         NEW f, Joined(f, ss, n), NEW g, Joined(g, tt, n + 1)
  PROVE  Agree(f, g, n)
<1>1. n + 1 \in Nat /\ n <= n + 1
  OBVIOUS
<1>2. QED
  BY <1>1, JoinedUnique DEF Agree

LEMMA FlattenIs ==
  ASSUME NEW T, NEW ss \in Seq(T), ss # <<>>
  PROVE  \E f : Joined(f, ss, Len(ss)) /\ FlattenSeq(ss) = f[Len(ss)]
<1> DEFINE F == CHOOSE f : Joined(f, ss, Len(ss))
<1>1. Joined(F, ss, Len(ss))
  <2>1. Len(ss) \in Nat
    OBVIOUS
  <2>2. \E f : Joined(f, ss, Len(ss))
    BY <2>1, JoinedExists
  <2>3. QED
    BY <2>2, Zenon
<1>2. FlattenSeq(ss) = F[Len(ss)]
  <2>1. Len(ss) # 0
    OBVIOUS
  <2>2. QED
    BY <2>1, Zenon DEF FlattenSeq, Joined
<1>3. QED
  BY <1>1, <1>2

LEMMA FlattenEmpty == FlattenSeq(<<>>) = <<>>
<1>1. Len(<<>>) = 0
  OBVIOUS
<1>2. QED
  BY <1>1, Zenon DEF FlattenSeq

\* The form in which induction over sequences is used.
LEMMA SequenceInduction ==
  ASSUME NEW T, NEW S, <<>> \in S,
         \A s \in Seq(T), e \in T : s \in S => Append(s, e) \in S
  PROVE  Seq(T) \subseteq S
<1> DEFINE R == {n \in Nat : \A s \in Seq(T) : Len(s) = n => s \in S}
<1>1. 0 \in R
  <2>1. \A s \in Seq(T) : Len(s) = 0 => s = <<>>
    OBVIOUS
  <2>2. QED
    BY <2>1
<1>2. ASSUME NEW n \in Nat, n \in R PROVE n + 1 \in R
  <2>1. SUFFICES ASSUME NEW s \in Seq(T), Len(s) = n + 1 PROVE s \in S
    OBVIOUS
  <2> DEFINE t == SubSeq(s, 1, n)
  <2>2. t \in Seq(T) /\ Len(t) = n /\ s[n + 1] \in T
    BY <2>1
  <2>3. s = Append(t, s[n + 1])
    BY <2>1
  <2>4. t \in S
    BY <1>2, <2>2
  <2> HIDE DEF t
  <2>5. Append(t, s[n + 1]) \in S
    BY <2>2, <2>4
  <2>6. QED
    BY <2>3, <2>5
<1>3. Nat \subseteq R
  <2> HIDE DEF R
  <2>1. QED
    BY <1>1, <1>2, Induction
<1>4. QED
  BY <1>3

\* FlattenSeq, from the last sequence.
LEMMA FlattenAppend ==
  ASSUME NEW C, NEW ss \in Seq(Seq(C)), FlattenSeq(ss) \in Seq(C), NEW s \in Seq(C)
  PROVE  FlattenSeq(Append(ss, s)) = FlattenSeq(ss) \o s
<1> DEFINE tt == Append(ss, s)
           n == Len(ss)
<1>1. tt \in Seq(Seq(C)) /\ tt # <<>> /\ Len(tt) = n + 1 /\ n \in Nat
      /\ tt[n + 1] = s /\ \A i \in 1 .. n : ss[i] = tt[i]
  OBVIOUS
<1> HIDE DEF tt, n
<1>2. PICK g : Joined(g, tt, n + 1) /\ FlattenSeq(tt) = g[n + 1]
  BY <1>1, FlattenIs
<1>3. g[n + 1] = IF n + 1 = 1 THEN s ELSE g[n] \o s
  <2>1. g = [i \in 1 .. n + 1 |-> IF i = 1 THEN tt[i] ELSE g[i - 1] \o tt[i]]
    BY <1>2, Zenon DEF Joined
  <2>2. n + 1 \in 1 .. n + 1 /\ (n + 1) - 1 = n
    BY <1>1
  <2>3. g[n + 1] = IF n + 1 = 1 THEN tt[n + 1] ELSE g[(n + 1) - 1] \o tt[n + 1]
    BY <2>1, <2>2, Zenon
  <2>4. QED
    BY <1>1, <2>2, <2>3
<1>4. CASE n = 0
  <2>1. ss = <<>>
    BY <1>4 DEF n
  <2>2. FlattenSeq(ss) = <<>>
    BY <2>1, FlattenEmpty
  <2>3. FlattenSeq(tt) = s
    BY <1>2, <1>3, <1>4
  <2>4. FlattenSeq(ss) \o s = s
    BY <2>2
  <2>5. QED
    BY <2>3, <2>4 DEF tt
<1>5. CASE n # 0
  <2>1. ss # <<>>
    BY <1>5 DEF n
  <2>2. PICK f : Joined(f, ss, n) /\ FlattenSeq(ss) = f[n]
    BY <2>1, FlattenIs DEF n
  <2>3. \A i \in 1 .. n : f[i] = g[i]
    <3>1. n \in Nat /\ Agree(ss, tt, n)
      BY <1>1 DEF Agree
    <3>2. Joined(g, tt, n + 1) /\ Joined(f, ss, n)
      BY <1>2, <2>2
    <3>3. Agree(f, g, n)
      BY <3>1, <3>2, JoinedNext
    <3>4. QED
      BY <3>3 DEF Agree
  <2>4. f[n] = g[n]
    BY <1>1, <1>5, <2>3
  <2>5. FlattenSeq(tt) = FlattenSeq(ss) \o s
    BY <1>1, <1>2, <1>3, <1>5, <2>2, <2>4
  <2>6. QED
    BY <2>5 DEF tt
<1>6. QED
  BY <1>4, <1>5

LEMMA FlattenType ==
  ASSUME NEW C, NEW ss \in Seq(Seq(C))
  PROVE  FlattenSeq(ss) \in Seq(C)
<1> DEFINE S == {tt \in Seq(Seq(C)) : FlattenSeq(tt) \in Seq(C)}
<1>1. <<>> \in S
  <2>1. <<>> \in Seq(Seq(C)) /\ <<>> \in Seq(C)
    OBVIOUS
  <2>2. QED
    BY <2>1, FlattenEmpty, Zenon
<1>2. ASSUME NEW tt \in Seq(Seq(C)), NEW s \in Seq(C), tt \in S
      PROVE  Append(tt, s) \in S
  <2>1. FlattenSeq(Append(tt, s)) = FlattenSeq(tt) \o s
    BY <1>2, FlattenAppend
  <2>2. FlattenSeq(tt) \in Seq(C) /\ Append(tt, s) \in Seq(Seq(C))
    BY <1>2
  <2>3. FlattenSeq(tt) \o s \in Seq(C)
    BY <2>2
  <2>4. QED
    BY <2>1, <2>2, <2>3, Zenon
<1>3. Seq(Seq(C)) \subseteq S
  <2> HIDE DEF S
  <2>1. QED
    BY <1>1, <1>2, SequenceInduction
<1>4. QED
  BY <1>3

\* FlattenSeq of two sequences of sequences.
LEMMA FlattenConcat ==
  ASSUME NEW C, NEW ss \in Seq(Seq(C)), NEW tt \in Seq(Seq(C))
  PROVE  FlattenSeq(ss \o tt) = FlattenSeq(ss) \o FlattenSeq(tt)
<1> DEFINE S == {uu \in Seq(Seq(C)) : FlattenSeq(ss \o uu) = FlattenSeq(ss) \o FlattenSeq(uu)}
<1>0. FlattenSeq(ss) \in Seq(C)
  BY FlattenType
<1>1. <<>> \in S
  <2>1. ss \o <<>> = ss /\ FlattenSeq(ss) \o <<>> = FlattenSeq(ss) /\ <<>> \in Seq(Seq(C))
    BY <1>0
  <2>2. QED
    BY <2>1, FlattenEmpty
<1>2. ASSUME NEW uu \in Seq(Seq(C)), NEW s \in Seq(C), uu \in S
      PROVE  Append(uu, s) \in S
  <2>1. ss \o Append(uu, s) = Append(ss \o uu, s)
    OBVIOUS
  <2>2. FlattenSeq(uu) \in Seq(C) /\ FlattenSeq(ss \o uu) \in Seq(C) /\ ss \o uu \in Seq(Seq(C))
    <3>1. ss \o uu \in Seq(Seq(C))
      OBVIOUS
    <3>2. QED
      BY <3>1, FlattenType, Zenon
  <2>3. FlattenSeq(Append(uu, s)) = FlattenSeq(uu) \o s
    BY <2>2, FlattenAppend
  <2>4. FlattenSeq(Append(ss \o uu, s)) = FlattenSeq(ss \o uu) \o s
    BY <2>2, FlattenAppend
  <2>5. FlattenSeq(ss \o uu) = FlattenSeq(ss) \o FlattenSeq(uu)
    BY <1>2
  <2>6. (FlattenSeq(ss) \o FlattenSeq(uu)) \o s = FlattenSeq(ss) \o (FlattenSeq(uu) \o s)
    <3>1. \A a, b \in Seq(C) : (a \o b) \o s = a \o (b \o s)
      OBVIOUS
    <3>2. QED
      BY <1>0, <2>2, <3>1
  <2>7. Append(uu, s) \in Seq(Seq(C))
    OBVIOUS
  <2>8. FlattenSeq(ss \o Append(uu, s)) = FlattenSeq(ss) \o FlattenSeq(Append(uu, s))
    BY <2>1, <2>3, <2>4, <2>5, <2>6
  <2>9. QED
    BY <2>7, <2>8
<1>3. Seq(Seq(C)) \subseteq S
  <2> HIDE DEF S
  <2>1. QED
    BY <1>1, <1>2, SequenceInduction
<1>4. QED
  BY <1>3

-----------------------------------------------------------------------------
(* The reader, character by character.                                     *)

Strings == Seq(Chars)
Values == [Settings -> Strings]

Readers ==
    [comment : BOOLEAN, escape : BOOLEAN, quote : BOOLEAN, reading_key : BOOLEAN,
     was_non_space : BOOLEAN, temporary_spaces : Strings, oss : Strings,
     stored_key : Strings, read : Values]

LEMMA SpecialChars ==
  /\ Settings \subseteq Chars /\ Escaped \subseteq Chars
  /\ Blank \in Chars /\ NewLine \in Chars /\ Nul \in Chars
  /\ "#" \in Chars /\ "=" \in Chars /\ "\\" \in Chars /\ "quote" \in Chars
BY DEF Chars, Escaped, Blank, NewLine, Nul

LEMMA StringsType ==
  /\ <<>> \in Strings
  /\ \A s \in Strings, c \in Chars : Append(s, c) \in Strings /\ s \o <<c>> \in Strings
  /\ \A s, t \in Strings : s \o t \in Strings
BY DEF Strings

LEMMA FinishType ==
  ASSUME NEW r \in Readers, NEW complete \in BOOLEAN
  PROVE  FinishString(r, complete) \in Readers
<1>1. CASE complete /\ r.reading_key
  <2>1. FinishString(r, complete) = [r EXCEPT !.oss = <<>>]
    BY <1>1, Zenon DEF FinishString
  <2>2. QED
    BY <2>1, StringsType DEF Readers
<1>2. CASE ~ (complete /\ r.reading_key)
  <2> DEFINE R == OnReadKeyValue(r.read, r.stored_key, r.oss)
             key == IF r.reading_key THEN r.oss ELSE r.stored_key
             read == IF r.reading_key THEN r.read ELSE R
  <2>1. R \in Values
    <3>1. \A s \in Settings : (IF r.stored_key = <<s>> THEN r.oss ELSE r.read[s]) \in Strings
      BY DEF Readers, Values
    <3>2. QED
      BY <3>1 DEF OnReadKeyValue, Values
  <2>2. FinishString(r, complete)
           = [r EXCEPT !.oss = <<>>,
                       !.stored_key = IF r.reading_key THEN r.oss ELSE @,
                       !.read = IF r.reading_key THEN @ ELSE OnReadKeyValue(@, r.stored_key, r.oss),
                       !.reading_key = ~@,
                       !.was_non_space = FALSE,
                       !.temporary_spaces = <<>>]
    BY <1>2, Zenon DEF FinishString
  <2> HIDE DEF R
  <2>3. key \in Strings /\ read \in Values
    BY <2>1 DEF Readers
  <2>4. FinishString(r, complete)
           = [r EXCEPT !.oss = <<>>, !.stored_key = key, !.read = read,
                       !.reading_key = ~ r.reading_key,
                       !.was_non_space = FALSE, !.temporary_spaces = <<>>]
    BY <2>2, Zenon DEF R
  <2> HIDE DEF key, read
  <2>5. QED
    BY <2>3, <2>4, StringsType DEF Readers
<1>3. QED
  BY <1>1, <1>2

LEMMA PushType ==
  ASSUME NEW r \in Readers, NEW c \in Chars
  PROVE  PushChar(r, c) \in Readers
<1> DEFINE q == [r EXCEPT !.was_non_space = @ \/ ~IsSpace(c)]
<1>1. q \in Readers
  BY DEF Readers, IsSpace
<1>2. ASSUME NEW p \in Readers PROVE PushEscaped(p, c) \in Readers
  <2>1. (IF c = Nul THEN p.oss ELSE Append(p.oss, c)) \in Strings
    BY StringsType DEF Readers
  <2>2. QED
    BY <2>1 DEF PushEscaped, Readers
<1>3. ASSUME NEW p \in Readers PROVE PushPlain(p, c) \in Readers
  <2>1. FinishString(p, TRUE) \in Readers /\ FinishString(p, FALSE) \in Readers
    BY FinishType
  <2>2. [FinishString(p, TRUE) EXCEPT !.comment = TRUE] \in Readers
    BY <2>1 DEF Readers
  <2>3. [p EXCEPT !.escape = TRUE] \in Readers /\ [p EXCEPT !.quote = ~@] \in Readers
    BY DEF Readers
  <2>4. [p EXCEPT !.temporary_spaces = Append(@, c)] \in Readers
    BY StringsType DEF Readers
  <2>5. [p EXCEPT !.oss = (@ \o p.temporary_spaces) \o <<c>>, !.temporary_spaces = <<>>] \in Readers
    <3>1. (p.oss \o p.temporary_spaces) \o <<c>> \in Strings
      BY StringsType DEF Readers
    <3>2. QED
      BY <3>1, StringsType DEF Readers
  <2>6. QED
    BY <2>1, <2>2, <2>3, <2>4, <2>5, Zenon DEF PushPlain
<1>4. [r EXCEPT !.comment = (c # NewLine)] \in Readers
  BY DEF Readers
<1>5. PushEscaped(q, c) \in Readers /\ PushPlain(q, c) \in Readers
  <2> HIDE DEF q
  <2>1. QED
    BY <1>1, <1>2, <1>3
<1>6. PushChar(r, c) = (IF r.comment THEN [r EXCEPT !.comment = (c # NewLine)]
                        ELSE IF c = Blank /\ ~r.was_non_space THEN r
                        ELSE IF r.escape THEN PushEscaped(q, c)
                        ELSE PushPlain(q, c))
  BY Zenon DEF PushChar
<1>7. QED
  BY <1>4, <1>5, <1>6

\* f[i] is the reader after i characters.
Pushed(f, r, text, n) ==
    f = [i \in 0 .. n |-> IF i = 0 THEN r ELSE PushChar(f[i - 1], text[i])]

\* The recursive function within PushAll exists.
LEMMA PushedExists ==
  ASSUME NEW r, NEW text, NEW n \in Nat
  PROVE  \E f : Pushed(f, r, text, n)
<1> DEFINE S == {k \in Nat : \E f : Pushed(f, r, text, k)}
<1>1. 0 \in S
  <2> DEFINE f == [i \in 0 .. 0 |-> r]
             F == [i \in 0 .. 0 |-> IF i = 0 THEN r ELSE PushChar(f[i - 1], text[i])]
  <2>1. f = F
    <3>1. \A i \in 0 .. 0 : F[i] = r
      OBVIOUS
    <3>2. QED
      BY <3>1
  <2>2. Pushed(f, r, text, 0)
    BY <2>1, Zenon DEF Pushed
  <2>3. QED
    BY <2>2
<1>2. ASSUME NEW k \in Nat, k \in S PROVE k + 1 \in S
  <2>1. PICK f : Pushed(f, r, text, k)
    BY <1>2
  <2> DEFINE g == [i \in 0 .. k + 1 |->
                     IF i <= k THEN f[i] ELSE IF i = 0 THEN r ELSE PushChar(f[i - 1], text[i])]
             G == [i \in 0 .. k + 1 |-> IF i = 0 THEN r ELSE PushChar(g[i - 1], text[i])]
  <2>2. ASSUME NEW i \in 0 .. k + 1 PROVE g[i] = G[i]
    <3>1. i # 0 => g[i - 1] = f[i - 1]
      OBVIOUS
    <3>2. ASSUME i <= k PROVE f[i] = IF i = 0 THEN r ELSE PushChar(f[i - 1], text[i])
      <4>1. i \in 0 .. k
        BY <3>2
      <4>2. QED
        BY <2>1, <4>1, Zenon DEF Pushed
    <3>3. QED
      BY <3>1, <3>2
  <2>3. Pushed(g, r, text, k + 1)
    <3> HIDE DEF G
    <3>1. DOMAIN G = 0 .. k + 1 /\ G = [i \in 0 .. k + 1 |-> G[i]]
      BY DEF G
    <3>2. g = G
      BY <2>2, <3>1
    <3>3. QED
      BY <3>2, Zenon DEF Pushed, G
  <2>4. QED
    <3> HIDE DEF g
    <3>1. QED
      BY <2>3
<1>3. n \in S
  <2> HIDE DEF S
  <2>1. QED
    BY <1>1, <1>2, Induction
<1>4. QED
  BY <1>3

LEMMA PushedAgree ==
  ASSUME NEW r, NEW ss, NEW tt, NEW n \in Nat, Agree(ss, tt, n),
         NEW f, Pushed(f, r, ss, n), NEW g, Pushed(g, r, tt, n + 1)
  PROVE  f[n] = g[n]
<1> DEFINE S == {k \in Nat : k \in 0 .. n => f[k] = g[k]}
<1>1. f = [i \in 0 .. n |-> IF i = 0 THEN r ELSE PushChar(f[i - 1], ss[i])]
  BY Zenon DEF Pushed
<1>2. g = [i \in 0 .. n + 1 |-> IF i = 0 THEN r ELSE PushChar(g[i - 1], tt[i])]
  BY Zenon DEF Pushed
<1>3. 0 \in S
  <2>1. 0 \in 0 .. n /\ 0 \in 0 .. n + 1
    OBVIOUS
  <2>2. f[0] = r
    BY <1>1, <2>1, Zenon
  <2>3. g[0] = r
    BY <1>2, <2>1, Zenon
  <2>4. QED
    BY <2>2, <2>3
<1>4. ASSUME NEW k \in Nat, k \in S PROVE k + 1 \in S
  <2>1. SUFFICES ASSUME k + 1 \in 0 .. n PROVE f[k + 1] = g[k + 1]
    OBVIOUS
  <2>2. f[k + 1] = IF k + 1 = 0 THEN r ELSE PushChar(f[(k + 1) - 1], ss[k + 1])
    BY <1>1, <2>1, Zenon
  <2>3. g[k + 1] = IF k + 1 = 0 THEN r ELSE PushChar(g[(k + 1) - 1], tt[k + 1])
    <3>1. k + 1 \in 0 .. n + 1
      BY <2>1
    <3>2. QED
      BY <1>2, <3>1, Zenon
  <2>4. k + 1 # 0 /\ f[(k + 1) - 1] = g[(k + 1) - 1] /\ ss[k + 1] = tt[k + 1]
    BY <1>4, <2>1 DEF Agree
  <2>5. QED
    BY <2>2, <2>3, <2>4, Zenon
<1>5. Nat \subseteq S
  <2> HIDE DEF S
  <2>1. QED
    BY <1>3, <1>4, Induction
<1>6. QED
  BY <1>5

LEMMA PushAllIs ==
  ASSUME NEW r, NEW text, Len(text) \in Nat
  PROVE  \E f : Pushed(f, r, text, Len(text)) /\ PushAll(r, text) = f[Len(text)]
<1> DEFINE F == CHOOSE f : Pushed(f, r, text, Len(text))
<1>1. Pushed(F, r, text, Len(text))
  <2>1. \E f : Pushed(f, r, text, Len(text))
    BY PushedExists
  <2>2. QED
    BY <2>1, Zenon
<1>2. PushAll(r, text) = F[Len(text)]
  BY Zenon DEF PushAll, Pushed
<1>3. QED
  BY <1>1, <1>2

LEMMA PushAllEmpty ==
  ASSUME NEW r
  PROVE  PushAll(r, <<>>) = r
<1> DEFINE t == <<>>
<1>1. Len(t) = 0
  OBVIOUS
<1> HIDE DEF t
<1>2. PICK f : Pushed(f, r, t, Len(t)) /\ PushAll(r, t) = f[Len(t)]
  BY <1>1, PushAllIs
<1>3. f = [i \in 0 .. 0 |-> IF i = 0 THEN r ELSE PushChar(f[i - 1], t[i])]
  BY <1>1, <1>2, Zenon DEF Pushed
<1>4. f[0] = r
  <2>1. 0 \in 0 .. 0
    OBVIOUS
  <2>2. QED
    BY <1>3, <2>1, Zenon
<1>5. QED
  BY <1>1, <1>2, <1>4 DEF t

\* A text is read character by character: the last one is pushed last.
LEMMA PushAllAppend ==
  ASSUME NEW r, NEW T, NEW text \in Seq(T), NEW c \in T
  PROVE  PushAll(r, Append(text, c)) = PushChar(PushAll(r, text), c)
<1> DEFINE t == Append(text, c)
           n == Len(text)
<1>1. n \in Nat /\ Len(t) = n + 1 /\ t[n + 1] = c /\ \A i \in 1 .. n : text[i] = t[i]
  OBVIOUS
<1> HIDE DEF t
<1>2. PICK f : Pushed(f, r, text, n) /\ PushAll(r, text) = f[n]
  BY <1>1, PushAllIs
<1> HIDE DEF n
<1>3. PICK g : Pushed(g, r, t, n + 1) /\ PushAll(r, t) = g[n + 1]
  <2>0. Len(t) \in Nat
    BY <1>1
  <2>1. PICK g : Pushed(g, r, t, Len(t)) /\ PushAll(r, t) = g[Len(t)]
    BY <2>0, PushAllIs, Zenon
  <2>2. QED
    BY <1>1, <2>1
<1>4. Agree(text, t, n)
  BY <1>1 DEF Agree
<1>5. f[n] = g[n]
  BY <1>1, <1>2, <1>3, <1>4, PushedAgree
<1>6. g[n + 1] = PushChar(g[n], c)
  <2>1. g = [i \in 0 .. n + 1 |-> IF i = 0 THEN r ELSE PushChar(g[i - 1], t[i])]
    BY <1>3, Zenon DEF Pushed
  <2>2. n + 1 \in 0 .. n + 1 /\ n + 1 # 0 /\ (n + 1) - 1 = n
    BY <1>1
  <2>3. g[n + 1] = IF n + 1 = 0 THEN r ELSE PushChar(g[(n + 1) - 1], t[n + 1])
    BY <2>1, <2>2, Zenon
  <2>4. QED
    BY <1>1, <2>2, <2>3
<1>7. QED
  BY <1>2, <1>3, <1>5, <1>6 DEF t

\* A text is read in parts.
LEMMA PushAllConcat ==
  ASSUME NEW r, NEW T, NEW s \in Seq(T), NEW t \in Seq(T)
  PROVE  PushAll(r, s \o t) = PushAll(PushAll(r, s), t)
<1> DEFINE S == {u \in Seq(T) : PushAll(r, s \o u) = PushAll(PushAll(r, s), u)}
<1>1. <<>> \in S
  <2>1. s \o <<>> = s /\ <<>> \in Seq(T)
    OBVIOUS
  <2>2. QED
    BY <2>1, PushAllEmpty
<1>2. ASSUME NEW u \in Seq(T), NEW c \in T, u \in S PROVE Append(u, c) \in S
  <2>1. s \o Append(u, c) = Append(s \o u, c) /\ s \o u \in Seq(T) /\ Append(u, c) \in Seq(T)
    OBVIOUS
  <2>2. PushAll(r, Append(s \o u, c)) = PushChar(PushAll(r, s \o u), c)
    <3>1. ASSUME NEW v \in Seq(T) PROVE PushAll(r, Append(v, c)) = PushChar(PushAll(r, v), c)
      BY PushAllAppend
    <3>2. QED
      BY <2>1, <3>1
  <2> DEFINE q == PushAll(r, s)
  <2> HIDE DEF q
  <2>3. PushAll(q, Append(u, c)) = PushChar(PushAll(q, u), c)
    BY PushAllAppend
  <2>4. PushAll(r, s \o u) = PushAll(q, u)
    BY <1>2 DEF q
  <2>5. QED
    BY <2>1, <2>2, <2>3, <2>4 DEF q
<1>3. Seq(T) \subseteq S
  <2> HIDE DEF S
  <2>1. QED
    BY <1>1, <1>2, SequenceInduction
<1>4. QED
  BY <1>3

LEMMA PushAllType ==
  ASSUME NEW r \in Readers, NEW text \in Seq(Chars)
  PROVE  PushAll(r, text) \in Readers
<1> DEFINE S == {t \in Seq(Chars) : PushAll(r, t) \in Readers}
<1>1. <<>> \in S
  <2>1. <<>> \in Seq(Chars)
    OBVIOUS
  <2>2. QED
    BY <2>1, PushAllEmpty
<1>2. ASSUME NEW t \in Seq(Chars), NEW c \in Chars, t \in S PROVE Append(t, c) \in S
  <2>1. PushAll(r, Append(t, c)) = PushChar(PushAll(r, t), c)
    BY PushAllAppend
  <2>2. PushAll(r, t) \in Readers
    BY <1>2
  <2>3. PushChar(PushAll(r, t), c) \in Readers
    BY <2>2, PushType
  <2>4. Append(t, c) \in Seq(Chars)
    OBVIOUS
  <2>5. QED
    BY <2>1, <2>3, <2>4
<1>3. Seq(Chars) \subseteq S
  <2> HIDE DEF S
  <2>1. QED
    BY <1>1, <1>2, SequenceInduction
<1>4. QED
  BY <1>3

-----------------------------------------------------------------------------
(* What the writer makes.                                                  *)

\* A character as it is written.
Written(c) == IF c \in Escaped THEN <<"\\", c>> ELSE <<c>>

LEMMA WrittenType ==
  ASSUME NEW c \in Chars
  PROVE  Written(c) \in Seq(Chars)
BY SpecialChars DEF Written

LEMMA WriteEscapedEmpty == WriteEscaped(<<>>) = <<>>
<1> DEFINE s == [i \in DOMAIN <<>> |-> Written(<<>>[i])]
<1>1. s = <<>>
  OBVIOUS
<1>2. WriteEscaped(<<>>) = FlattenSeq(s)
  BY Zenon DEF WriteEscaped, Written
<1>3. QED
  BY <1>1, <1>2, FlattenEmpty

\* A text is escaped character by character.
LEMMA WriteEscapedAppend ==
  ASSUME NEW text \in Seq(Chars), NEW c \in Chars
  PROVE  WriteEscaped(Append(text, c)) = WriteEscaped(text) \o Written(c)
<1> DEFINE s == [i \in DOMAIN text |-> Written(text[i])]
           u == Append(text, c)
           t == [i \in DOMAIN u |-> Written(u[i])]
<1>1. s \in Seq(Seq(Chars)) /\ Len(s) = Len(text)
  <2>1. \A i \in 1 .. Len(text) : Written(text[i]) \in Seq(Chars)
    BY WrittenType
  <2>2. QED
    BY <2>1
<1>2. t = Append(s, Written(c))
  <2>1. DOMAIN u = 1 .. Len(text) + 1 /\ u[Len(text) + 1] = c
        /\ \A i \in 1 .. Len(text) : u[i] = text[i]
    OBVIOUS
  <2> HIDE DEF u
  <2>2. \A i \in 1 .. Len(text) + 1 : t[i] = Append(s, Written(c))[i]
    BY <1>1, <2>1
  <2>3. DOMAIN t = DOMAIN Append(s, Written(c))
    BY <1>1, <2>1
  <2>4. QED
    BY <1>1, <2>1, <2>2, <2>3
<1>3. WriteEscaped(text) = FlattenSeq(s)
  BY Zenon DEF WriteEscaped, Written
<1>4. WriteEscaped(u) = FlattenSeq(t)
  BY Zenon DEF WriteEscaped, Written
<1>5. FlattenSeq(Append(s, Written(c))) = FlattenSeq(s) \o Written(c)
  <2>1. Written(c) \in Seq(Chars) /\ FlattenSeq(s) \in Seq(Chars)
    BY <1>1, WrittenType, FlattenType
  <2> HIDE DEF s
  <2>2. QED
    BY <1>1, <2>1, FlattenAppend
<1>6. QED
  BY <1>2, <1>3, <1>4, <1>5

LEMMA WriteEscapedType ==
  ASSUME NEW text \in Seq(Chars)
  PROVE  WriteEscaped(text) \in Seq(Chars)
<1> DEFINE S == {t \in Seq(Chars) : WriteEscaped(t) \in Seq(Chars)}
<1>1. <<>> \in S
  <2>1. <<>> \in Seq(Chars)
    OBVIOUS
  <2>2. QED
    BY <2>1, WriteEscapedEmpty, Zenon
<1>2. ASSUME NEW t \in Seq(Chars), NEW c \in Chars, t \in S PROVE Append(t, c) \in S
  <2>1. WriteEscaped(Append(t, c)) = WriteEscaped(t) \o Written(c)
    BY WriteEscapedAppend
  <2>2. WriteEscaped(t) \in Seq(Chars) /\ Written(c) \in Seq(Chars)
    BY <1>2, WrittenType
  <2>3. WriteEscaped(t) \o Written(c) \in Seq(Chars) /\ Append(t, c) \in Seq(Chars)
    BY <2>2
  <2>4. QED
    BY <2>1, <2>3, Zenon
<1>3. Seq(Chars) \subseteq S
  <2> HIDE DEF S
  <2>1. QED
    BY <1>1, <1>2, SequenceInduction
<1>4. QED
  BY <1>3

\* The name of a setting is written as it is.
LEMMA WriteName ==
  ASSUME NEW s \in Settings
  PROVE  WriteEscaped(<<s>>) = <<s>>
<1>1. s \notin Escaped /\ s \in Chars
  BY NamesAssumption DEF Chars
<1>2. WriteEscaped(Append(<<>>, s)) = WriteEscaped(<<>>) \o Written(s)
  <2>1. <<>> \in Seq(Chars)
    OBVIOUS
  <2>2. QED
    BY <1>1, <2>1, WriteEscapedAppend
<1>3. Append(<<>>, s) = <<s>> /\ <<>> \o <<s>> = <<s>>
  OBVIOUS
<1>4. QED
  BY <1>1, <1>2, <1>3, WriteEscapedEmpty DEF Written

LEMMA WriteType ==
  ASSUME NEW s \in Settings, NEW text \in Seq(Chars)
  PROVE  Write(s, text) \in Seq(Chars)
<1>1. WriteEscaped(<<s>>) \in Seq(Chars)
  BY WriteName, SpecialChars
<1>2. WriteEscaped(text) \in Seq(Chars) /\ <<"=">> \in Seq(Chars) /\ <<NewLine>> \in Seq(Chars)
  BY WriteEscapedType, SpecialChars
<1>3. QED
  BY <1>1, <1>2 DEF Write

LEMMA ChangedType ==
  ASSUME NEW v
  PROVE  Changed(v) \in Seq(Settings)
<1>1. Chosen(v) \in Seq(Seq(Settings))
  <2>1. Names \in Seq(Settings)
    BY NamesAssumption
  <2>2. \A i \in 1 .. Len(Names) :
           (IF v[Names[i]] # Defaults[Names[i]] THEN <<Names[i]>> ELSE <<>>) \in Seq(Settings)
    <3>1. \A i \in 1 .. Len(Names) : Names[i] \in Settings
      BY <2>1
    <3>2. QED
      BY <3>1
  <2> DEFINE f == [i \in 1 .. Len(Names) |->
                     IF v[Names[i]] # Defaults[Names[i]] THEN <<Names[i]>> ELSE <<>>]
  <2>3. f \in Seq(Seq(Settings))
    BY <2>1, <2>2
  <2>4. DOMAIN Names = 1 .. Len(Names)
    BY <2>1
  <2>5. Chosen(v) = f
    BY <2>4, Zenon DEF Chosen
  <2>6. QED
    BY <2>3, <2>5
<1>2. QED
  BY <1>1, FlattenType DEF Changed

LEMMA LinesType ==
  ASSUME NEW v \in Values
  PROVE  Lines(v) \in Seq(Seq(Chars)) /\ Text(v) \in Seq(Chars)
<1> DEFINE changed == Changed(v)
<1>1. changed \in Seq(Settings)
  BY ChangedType
<1> HIDE DEF changed
<1>2. Lines(v) = [i \in DOMAIN changed |-> Write(changed[i], v[changed[i]])]
  BY Zenon DEF Lines, changed
<1>3. \A i \in 1 .. Len(changed) : Write(changed[i], v[changed[i]]) \in Seq(Chars)
  <2>1. ASSUME NEW i \in 1 .. Len(changed) PROVE Write(changed[i], v[changed[i]]) \in Seq(Chars)
    <3>1. changed[i] \in Settings
      BY <1>1
    <3>2. v[changed[i]] \in Seq(Chars)
      BY <3>1 DEF Values, Strings
    <3>3. QED
      BY <3>1, <3>2, WriteType
  <2>2. QED
    BY <2>1
<1>4. Lines(v) \in Seq(Seq(Chars))
  BY <1>1, <1>2, <1>3
<1>5. QED
  BY <1>4, FlattenType DEF Text

\* FlattenSeq, from the first sequence.
LEMMA FlattenHead ==
  ASSUME NEW C, NEW ss \in Seq(Seq(C)), ss # <<>>
  PROVE  FlattenSeq(ss) = Head(ss) \o FlattenSeq(Tail(ss))
<1> DEFINE h == Head(ss)
           t == Tail(ss)
           u == Append(<<>>, h)
<1>1. h \in Seq(C) /\ t \in Seq(Seq(C)) /\ <<>> \in Seq(Seq(C)) /\ u \in Seq(Seq(C)) /\ ss = u \o t
  OBVIOUS
<1>2. FlattenSeq(u) = FlattenSeq(<<>>) \o h
  <2>1. FlattenSeq(<<>>) \in Seq(C)
    <3>1. <<>> \in Seq(C)
      OBVIOUS
    <3>2. QED
      BY <3>1, FlattenEmpty, Zenon
  <2> HIDE DEF h
  <2>2. QED
    BY <1>1, <2>1, FlattenAppend
<1>3. FlattenSeq(u \o t) = FlattenSeq(u) \o FlattenSeq(t)
  <2> HIDE DEF u, t
  <2>1. QED
    BY <1>1, FlattenConcat
<1>4. <<>> \o h = h
  BY <1>1
<1> HIDE DEF h, t, u
<1>5. QED
  BY <1>1, <1>2, <1>3, <1>4, FlattenEmpty DEF h, t

-----------------------------------------------------------------------------
(* The states of the specification.                                        *)

Types ==
    /\ value \in [Bots -> Values] /\ disk \in Strings
    /\ lines \in [Bots -> Seq(Strings)] /\ at \in [Bots -> Nat]
    /\ saving \subseteq Bots /\ saves \subseteq Values /\ cut \in BOOLEAN
    /\ load \in {<<>>} \cup (Bots \X BOOLEAN)

LEMMA FreshType == Fresh \in Readers
<1>1. Defaults \in Values
  BY TextsAssumption DEF Values, Strings
<1>2. QED
  BY <1>1, StringsType DEF Fresh, Readers

LEMMA LoadFromType ==
  ASSUME NEW text \in Strings, NEW old
  PROVE  LoadFrom(text, old) \in Values
<1>1. PushAll(Fresh, text) \in Readers
  BY FreshType, PushAllType DEF Strings
<1>2. FinishString(PushAll(Fresh, text), TRUE) \in Readers
  BY <1>1, FinishType
<1>3. QED
  BY <1>2 DEF LoadFrom, Readers

LEMMA FailedReadType ==
  ASSUME NEW text \in Strings, NEW n \in 0 .. Len(text), NEW garbage \in Garbage
  PROVE  FailedRead(text, n, garbage) \in Values
<1>1. SubSeq(text, 1, n) \in Seq(Chars) /\ garbage \in Chars
  BY GarbageAssumption DEF Strings
<1>2. PushAll(Fresh, SubSeq(text, 1, n)) \in Readers
  BY <1>1, FreshType, PushAllType
<1>3. PushChar(PushAll(Fresh, SubSeq(text, 1, n)), garbage) \in Readers
  BY <1>1, <1>2, PushType
<1>4. QED
  BY <1>3 DEF FailedRead, Readers

\* What is in the file after a line was written.
LEMMA PutIs ==
  ASSUME disk \in Strings, NEW from \in Nat, NEW text \in Strings
  PROVE  /\ Put(from, text) \in Strings
         /\ Len(Put(from, text)) = IF Len(disk) > from + Len(text) THEN Len(disk) ELSE from + Len(text)
         /\ \A i \in 1 .. Len(Put(from, text)) :
               Put(from, text)[i] = IF i \in from + 1 .. from + Len(text) THEN text[i - from]
                                    ELSE IF i <= Len(disk) THEN disk[i] ELSE Nul
<1> DEFINE end == from + Len(text)
           n == IF Len(disk) > end THEN Len(disk) ELSE end
           p == [i \in 1 .. n |-> IF i \in from + 1 .. end THEN text[i - from]
                                  ELSE IF i <= Len(disk) THEN disk[i] ELSE Nul]
<1>1. n \in Nat /\ Len(text) \in Nat /\ Len(disk) \in Nat
  BY DEF Strings
<1>2. ASSUME NEW i \in 1 .. n PROVE p[i] \in Chars
  <2>1. i \in from + 1 .. end => text[i - from] \in Chars
    BY <1>1 DEF Strings
  <2>2. i <= Len(disk) => disk[i] \in Chars
    BY <1>1 DEF Strings
  <2>3. QED
    BY <2>1, <2>2, SpecialChars
<1> HIDE DEF n
<1>3. p \in Seq(Chars) /\ Len(p) = n
  <2>1. p = [i \in 1 .. n |-> p[i]]
    OBVIOUS
  <2> HIDE DEF p
  <2>2. QED
    BY <1>1, <1>2, <2>1
<1>4. Put(from, text) = p
  BY Zenon DEF Put, n
<1>5. \A i \in 1 .. n : p[i] = IF i \in from + 1 .. end THEN text[i - from]
                               ELSE IF i <= Len(disk) THEN disk[i] ELSE Nul
  OBVIOUS
<1> HIDE DEF p
<1>6. QED
  BY <1>3, <1>4, <1>5, Zenon DEF n, Strings

LEMMA SaveToType ==
  ASSUME Types, NEW b \in Bots, NEW v \in Values, SaveTo(b, v)
  PROVE  /\ disk' \in Strings /\ lines' \in [Bots -> Seq(Strings)] /\ at' \in [Bots -> Nat]
         /\ saving' \subseteq Bots /\ saves' \subseteq Values /\ cut' \in BOOLEAN
<1>1. Lines(v) \in Seq(Strings)
  BY LinesType DEF Strings
<1>2. QED
  BY <1>1, StringsType DEF SaveTo, Types, Truncated

LEMMA ChangedValueType ==
  ASSUME Types, NEW b \in Bots, NEW s \in Settings, NEW text \in Texts,
         value' = [value EXCEPT ![b][s] = text]
  PROVE  value' \in [Bots -> Values]
<1>1. text \in Strings
  BY TextsAssumption DEF Strings
<1>2. [value[b] EXCEPT ![s] = text] \in Values
  BY <1>1 DEF Types, Values
<1>3. value' = [value EXCEPT ![b] = [value[b] EXCEPT ![s] = text]]
  OBVIOUS
<1>4. QED
  BY <1>2, <1>3 DEF Types

LEMMA TypesInit == Init => Types
<1>1. Starts \subseteq Values
  BY TextsAssumption DEF Values, Strings
<1>2. <<>> \in Seq(Strings)
  OBVIOUS
<1>3. SUFFICES ASSUME Init PROVE Types
  OBVIOUS
<1>4. value \in [Bots -> Values]
  BY <1>1, <1>3 DEF Init
<1>5. lines \in [Bots -> Seq(Strings)] /\ at \in [Bots -> Nat]
  BY <1>2, <1>3 DEF Init
<1>6. disk \in Strings /\ saving \subseteq Bots /\ saves \subseteq Values /\ cut \in BOOLEAN
      /\ load \in {<<>>} \cup (Bots \X BOOLEAN)
  BY <1>3, StringsType DEF Init
<1>7. QED
  BY <1>4, <1>5, <1>6 DEF Types

LEMMA DefaultsType == Defaults \in Values
BY TextsAssumption DEF Values, Strings

\* Each action keeps the types.
LEMMA TypesNext == Types /\ [Next]_vars => Types'
<1>1. SUFFICES ASSUME Types, Next PROVE Types'
  BY DEF Types, vars
<1>2. ASSUME NEW b \in Bots, NEW s \in Settings, NEW text \in Texts, Change(b, s, text)
      PROVE  Types'
  BY <1>1, <1>2, ChangedValueType DEF Change, Types
<1>3. ASSUME NEW b \in Bots, NEW s \in Settings, NEW text \in Texts, CatSet(b, s, text)
      PROVE  Types'
  <2>1. value' \in [Bots -> Values]
    BY <1>1, <1>3, ChangedValueType DEF CatSet
  <2>2. value'[b] \in Values /\ SaveTo(b, value'[b])
    BY <1>3, <2>1 DEF CatSet
  <2>3. ASSUME NEW v, v = value'[b]
        PROVE  /\ disk' \in Strings /\ lines' \in [Bots -> Seq(Strings)] /\ at' \in [Bots -> Nat]
               /\ saving' \subseteq Bots /\ saves' \subseteq Values /\ cut' \in BOOLEAN
    BY <1>1, <2>2, <2>3, SaveToType
  <2>4. load' = load
    BY <1>3 DEF CatSet
  <2>5. QED
    BY <1>1, <2>1, <2>3, <2>4 DEF Types
<1>4. ASSUME NEW b \in Bots, Save(b) PROVE Types'
  <2>1. value[b] \in Values /\ SaveTo(b, value[b])
    BY <1>1, <1>4 DEF Save, Types
  <2>2. ASSUME NEW v, v = value[b]
        PROVE  /\ disk' \in Strings /\ lines' \in [Bots -> Seq(Strings)] /\ at' \in [Bots -> Nat]
               /\ saving' \subseteq Bots /\ saves' \subseteq Values /\ cut' \in BOOLEAN
    BY <1>1, <2>1, <2>2, SaveToType
  <2>3. value' = value /\ load' = load
    BY <1>4 DEF Save
  <2>4. QED
    BY <1>1, <2>2, <2>3 DEF Types
<1>5. ASSUME NEW b \in Bots, lines[b] # <<>> PROVE Head(lines[b]) \in Strings /\ Tail(lines[b]) \in Seq(Strings)
  BY <1>1, <1>5 DEF Types
<1>6. ASSUME NEW b \in Bots, WriteLine(b) PROVE Types'
  <2>1. Head(lines[b]) \in Strings /\ Tail(lines[b]) \in Seq(Strings)
    BY <1>5, <1>6 DEF WriteLine
  <2>2. Put(at[b], Head(lines[b])) \in Strings
    BY <1>1, <2>1, PutIs DEF Types
  <2>3. at[b] + Len(Head(lines[b])) \in Nat
    BY <1>1, <2>1 DEF Types, Strings
  <2>4. QED
    BY <1>1, <1>6, <2>1, <2>2, <2>3 DEF WriteLine, Types
<1>7. ASSUME NEW b \in Bots, Close(b) PROVE Types'
  BY <1>1, <1>7 DEF Close, Types
<1>8. ASSUME NEW b \in Bots, Ends(b)
      PROVE  /\ lines' \in [Bots -> Seq(Strings)] /\ at' \in [Bots -> Nat]
             /\ saving' \subseteq Bots /\ saves' \subseteq Values /\ cut' \in BOOLEAN
             /\ load' \in {<<>>} \cup (Bots \X BOOLEAN)
  <2>1. <<>> \in Seq(Strings)
    OBVIOUS
  <2>2. QED
    BY <1>1, <1>8, <2>1 DEF Ends, Types
<1>9. ASSUME NEW b \in Bots, DiskFull(b) PROVE Types'
  <2>1. Head(lines[b]) \in Strings
    BY <1>5, <1>9 DEF DiskFull
  <2>2. PICK n \in 0 .. Len(Head(lines[b])) - 1 :
           disk' = IF n = 0 THEN disk ELSE Put(at[b], SubSeq(Head(lines[b]), 1, n))
    BY <1>9 DEF DiskFull
  <2>3. SubSeq(Head(lines[b]), 1, n) \in Strings
    BY <2>1 DEF Strings
  <2>4. Put(at[b], SubSeq(Head(lines[b]), 1, n)) \in Strings
    BY <1>1, <2>3, PutIs DEF Types
  <2>5. disk' \in Strings /\ value' = value /\ Ends(b)
    BY <1>1, <1>9, <2>2, <2>4 DEF Types, DiskFull
  <2>6. QED
    BY <1>1, <1>8, <2>5 DEF Types
<1>10. ASSUME NEW b \in Bots, Killed(b) PROVE Types'
  <2>1. Ends(b) /\ disk' = disk /\ value' \in [Bots -> Values]
    BY <1>1, <1>10, DefaultsType DEF Killed, Types
  <2>2. QED
    BY <1>1, <1>8, <2>1 DEF Types
<1>11. ASSUME NEW b \in Bots, Load(b) PROVE Types'
  <2>1. LoadFrom(disk, value[b]) \in Values
    BY <1>1, LoadFromType DEF Types
  <2>2. QED
    BY <1>1, <1>11, <2>1 DEF Load, Types
<1>12. ASSUME NEW b \in Bots, LoadFails(b) PROVE Types'
  <2>1. PICK n \in 0 .. Len(disk), garbage \in Garbage :
           value' = [value EXCEPT ![b] = FailedRead(disk, n, garbage)]
    BY <1>12 DEF LoadFails
  <2>2. FailedRead(disk, n, garbage) \in Values
    BY <1>1, FailedReadType DEF Types
  <2>3. QED
    BY <1>1, <1>12, <2>1, <2>2 DEF LoadFails, Types
<1>13. QED
  BY <1>1, <1>2, <1>3, <1>4, <1>6, <1>7, <1>9, <1>10, <1>11, <1>12 DEF Next

\* The file holds characters only, the writers have natural numbers for their
\* places and whole lines to write, and loadFrom gives every setting a text,
\* whatever the file holds and wherever the read ends.
THEOREM TypeCorrect == Spec => []Types
<1>1. Init => Types
  BY TypesInit
<1>2. Types /\ [Next]_vars => Types'
  BY TypesNext
<1>3. QED
  BY <1>1, <1>2, PTL DEF Spec

-----------------------------------------------------------------------------
(* Agreement.                                                              *)

\* What is behind the first a of t.
Rest(t, a) == SubSeq(t, a + 1, Len(t))

\* What b has still to write is the rest of the text of v from its place on.
Remaining(b, v) ==
    /\ at[b] <= Len(Text(v))
    /\ Rest(Text(v), at[b]) = FlattenSeq(lines[b])

\* Every bot that is saving writes settings that one of these saves began with.
Writing == \A b \in saving : \E v \in saves : Remaining(b, v)

\* A place in the file holds the right character, or a bot that is still to come
\* to it will put it there.
Filled(v) ==
    /\ Len(disk) <= Len(Text(v))
    /\ \A i \in 1 .. Len(Text(v)) :
          \/ i <= Len(disk) /\ disk[i] = Text(v)[i]
          \/ \E b \in saving : at[b] < i

AgreementInv ==
    /\ Writing
    /\ ~cut => \A v \in saves : saves = {v} => Filled(v)

\* h is in t behind its first a.
Matches(t, a, h) == \A i \in 1 .. Len(h) : t[a + i] = h[i]

\* The next line of a writer is what the text has behind its place.
LEMMA Behind ==
  ASSUME NEW t \in Strings, NEW a \in Nat, a <= Len(t), NEW ss \in Seq(Strings), ss # <<>>,
         Rest(t, a) = FlattenSeq(ss)
  PROVE  /\ a + Len(Head(ss)) <= Len(t)
         /\ Matches(t, a, Head(ss))
         /\ Rest(t, a + Len(Head(ss))) = FlattenSeq(Tail(ss))
<1> DEFINE h == Head(ss)
           r == FlattenSeq(Tail(ss))
           u == Rest(t, a)
           x == Rest(t, a + Len(h))
<1>1. h \in Seq(Chars) /\ Tail(ss) \in Seq(Seq(Chars)) /\ ss \in Seq(Seq(Chars)) /\ t \in Seq(Chars)
  BY DEF Strings
<1>2. r \in Seq(Chars) /\ FlattenSeq(ss) = h \o r
  BY <1>1, FlattenType, FlattenHead
<1> HIDE DEF h, r
<1>3. Len(u) = Len(t) - a /\ \A i \in 1 .. Len(t) - a : u[i] = t[a + i]
  BY <1>1 DEF Rest
<1> HIDE DEF u
<1>4. u = h \o r
  BY <1>2 DEF u
<1>5. /\ Len(u) = Len(h) + Len(r) /\ Len(h) \in Nat /\ Len(r) \in Nat /\ Len(t) \in Nat
      /\ \A i \in 1 .. Len(h) : u[i] = h[i]
      /\ \A i \in 1 .. Len(r) : u[Len(h) + i] = r[i]
  <2> DEFINE y == h \o r
  <2>1. /\ Len(y) = Len(h) + Len(r) /\ Len(h) \in Nat /\ Len(r) \in Nat /\ Len(t) \in Nat
        /\ \A i \in 1 .. Len(h) : y[i] = h[i]
        /\ \A i \in 1 .. Len(r) : y[Len(h) + i] = r[i]
    BY <1>1, <1>2
  <2>2. u = y
    BY <1>4
  <2> HIDE DEF y
  <2>3. QED
    BY <2>1, <2>2
<1>6. a + Len(h) + Len(r) = Len(t)
  <2>1. Len(t) - a = Len(h) + Len(r) /\ Len(h) \in Nat /\ Len(r) \in Nat /\ Len(t) \in Nat
    BY <1>3, <1>5, Zenon
  <2>2. ASSUME NEW k \in Nat, NEW m \in Nat, NEW n \in Nat, n - a = k + m PROVE a + k + m = n
    BY <2>2
  <2>3. QED
    BY <2>1, <2>2
<1>7. \A i \in 1 .. Len(h) : t[a + i] = h[i]
  BY <1>3, <1>5, <1>6
<1>8. x \in Seq(Chars) /\ Len(x) = Len(r) /\ \A i \in 1 .. Len(r) : x[i] = t[(a + Len(h)) + i]
  BY <1>1, <1>5, <1>6 DEF Rest
<1> HIDE DEF x
<1>9. ASSUME NEW i \in 1 .. Len(r) PROVE x[i] = r[i]
  <2>1. u[Len(h) + i] = t[a + (Len(h) + i)]
    BY <1>3, <1>5, <1>6
  <2>2. (a + Len(h)) + i = a + (Len(h) + i)
    BY <1>5
  <2>3. x[i] = t[a + (Len(h) + i)]
    BY <1>8, <2>2
  <2>4. u[Len(h) + i] = r[i]
    BY <1>5
  <2>5. QED
    BY <2>1, <2>3, <2>4
<1>10. x = r
  BY <1>2, <1>8, <1>9
<1>11. QED
  BY <1>5, <1>6, <1>7, <1>10 DEF x, r, h, Matches

LEMMA TextType ==
  ASSUME NEW v \in Values
  PROVE  Text(v) \in Strings /\ Len(Text(v)) \in Nat
BY LinesType DEF Strings

LEMMA FlattenStrings ==
  ASSUME NEW ss \in Seq(Strings)
  PROVE  FlattenSeq(ss) \in Seq(Chars)
BY FlattenType DEF Strings

LEMMA NothingBehind ==
  ASSUME NEW C, NEW t \in Seq(C), NEW a \in Nat, a <= Len(t), Rest(t, a) = <<>>
  PROVE  a = Len(t) /\ Len(t) \in Nat
<1>1. Len(SubSeq(t, a + 1, Len(t))) = Len(t) - a
  OBVIOUS
<1>2. Len(<<>>) = 0
  OBVIOUS
<1>3. QED
  BY <1>1, <1>2 DEF Rest

\* An opening, of the bot b for the settings v.
LEMMA AgreementSaveTo ==
  ASSUME Types, AgreementInv, NEW b \in Bots, NEW v \in Values, SaveTo(b, v)
  PROVE  AgreementInv'
<1>1. /\ b \notin saving /\ saving' = saving \cup {b}
      /\ disk' = <<>> /\ at' = [at EXCEPT ![b] = 0] /\ lines' = [lines EXCEPT ![b] = Lines(v)]
      /\ saves' = (IF saving = {} THEN {} ELSE saves) \cup {v}
      /\ cut' = (cut /\ saving # {})
  BY DEF SaveTo, Truncated
<1>2. at'[b] = 0 /\ lines'[b] = Lines(v) /\ Text(v) \in Strings /\ Len(Text(v)) \in Nat
  BY <1>1, TextType DEF Types
<1>3. Remaining(b, v)'
  <2>1. Rest(Text(v), 0) = Text(v)
    BY <1>2 DEF Strings, Rest
  <2>2. QED
    BY <1>2, <2>1 DEF Remaining, Text
<1>4. ASSUME NEW c \in saving PROVE \E w \in saves' : Remaining(c, w)'
  <2>1. PICK w \in saves : Remaining(c, w)
    BY <1>4 DEF AgreementInv, Writing
  <2>2. w \in saves'
    BY <1>1, <1>4, <2>1
  <2>3. at'[c] = at[c] /\ lines'[c] = lines[c]
    BY <1>1, <1>4 DEF Types
  <2>4. Remaining(c, w)'
    BY <2>1, <2>3 DEF Remaining
  <2>5. QED
    BY <2>2, <2>4
<1>5. Writing'
  BY <1>1, <1>3, <1>4 DEF Writing
<1>6. ASSUME NEW w \in saves' PROVE Filled(w)'
  <2>1. w \in Values
    BY <1>1 DEF Types
  <2>2. Len(Text(w)) \in Nat /\ Len(disk') = 0
    BY <1>1, <2>1, TextType
  <2>3. \A i \in 1 .. Len(Text(w)) : b \in saving' /\ at'[b] < i
    BY <1>1, <1>2, <2>2
  <2>4. QED
    BY <2>2, <2>3 DEF Filled
<1>7. QED
  BY <1>5, <1>6 DEF AgreementInv

\* One line: it is what the text has at its place.
LEMMA AgreementWriteLine ==
  ASSUME Types, AgreementInv, NEW b \in Bots, WriteLine(b)
  PROVE  AgreementInv'
<1> DEFINE h == Head(lines[b])
           r == FlattenSeq(Tail(lines[b]))
           end == at[b] + Len(h)
<1>1. /\ b \in saving /\ lines[b] # <<>> /\ disk' = Put(at[b], h)
      /\ at' = [at EXCEPT ![b] = @ + Len(h)] /\ lines' = [lines EXCEPT ![b] = Tail(@)]
      /\ saving' = saving /\ saves' = saves /\ cut' = cut
  BY DEF WriteLine
<1>2. lines[b] \in Seq(Strings) /\ at[b] \in Nat
  BY DEF Types
<1>3. h \in Strings /\ Tail(lines[b]) \in Seq(Strings)
  BY <1>1, <1>2
<1>4. r \in Seq(Chars) /\ h \in Seq(Chars) /\ FlattenSeq(lines[b]) = h \o r
  <2>1. r \in Seq(Chars)
    BY <1>3, FlattenStrings
  <2>2. FlattenSeq(lines[b]) = h \o r
    BY <1>1, <1>2, FlattenHead DEF Strings
  <2>3. QED
    BY <1>3, <2>1, <2>2 DEF Strings
<1>5. at'[b] = end /\ lines'[b] = Tail(lines[b])
  BY <1>1, <1>2 DEF Types
<1>6. \A c \in saving \ {b} : at'[c] = at[c] /\ lines'[c] = lines[c]
  BY <1>1 DEF Types
<1> HIDE DEF h, r
<1>7. ASSUME NEW v \in saves, Remaining(b, v)
      PROVE  /\ Remaining(b, v)' /\ end <= Len(Text(v))
             /\ \A i \in 1 .. Len(h) : Text(v)[at[b] + i] = h[i]
  <2>1. Text(v) \in Strings /\ at[b] <= Len(Text(v))
        /\ Rest(Text(v), at[b]) = FlattenSeq(lines[b])
    BY <1>7, TextType DEF Remaining, Types
  <2>2. /\ at[b] + Len(h) <= Len(Text(v))
        /\ \A i \in 1 .. Len(h) : Text(v)[at[b] + i] = h[i]
        /\ Rest(Text(v), at[b] + Len(h)) = r
    <3>1. ASSUME NEW t, t = Text(v)
          PROVE  at[b] + Len(h) <= Len(t) /\ Matches(t, at[b], h) /\ Rest(t, at[b] + Len(h)) = r
      <4>1. t \in Strings /\ at[b] <= Len(t) /\ Rest(t, at[b]) = FlattenSeq(lines[b])
        BY <2>1, <3>1
      <4>2. QED
        BY <1>1, <1>2, <4>1, Behind DEF h, r
    <3>2. QED
      BY <3>1, Zenon DEF Matches
  <2>3. Remaining(b, v)'
    BY <1>5, <2>2 DEF Remaining, r
  <2>4. QED
    BY <2>2, <2>3
<1>8. Writing'
  <2>1. ASSUME NEW c \in saving PROVE \E v \in saves : Remaining(c, v)'
    <3>1. PICK v \in saves : Remaining(c, v)
      BY DEF AgreementInv, Writing
    <3>2. CASE c = b
      BY <1>7, <3>1, <3>2
    <3>3. CASE c # b
      <4>1. Remaining(c, v)'
        BY <1>6, <3>1, <3>3 DEF Remaining
      <4>2. QED
        BY <4>1
    <3>4. QED
      BY <3>2, <3>3
  <2>2. QED
    BY <1>1, <2>1 DEF Writing
<1>9. ASSUME ~cut, NEW v \in saves, saves = {v} PROVE Filled(v)'
  <2>1. Filled(v) /\ Remaining(b, v)
    BY <1>1, <1>9 DEF AgreementInv, Writing
  <2>2. end <= Len(Text(v)) /\ \A i \in 1 .. Len(h) : Text(v)[at[b] + i] = h[i]
    BY <1>7, <2>1
  <2>3. /\ Len(disk') = IF Len(disk) > end THEN Len(disk) ELSE end
        /\ \A i \in 1 .. Len(disk') :
              disk'[i] = IF i \in at[b] + 1 .. end THEN h[i - at[b]]
                         ELSE IF i <= Len(disk) THEN disk[i] ELSE Nul
    BY <1>1, <1>2, <1>3, PutIs DEF Types
  <2>4. Len(disk) \in Nat /\ Len(h) \in Nat /\ Len(Text(v)) \in Nat
    BY <1>4, TextType DEF Types, Strings
  <2>5. Len(disk') <= Len(Text(v))
    BY <2>1, <2>2, <2>3 DEF Filled
  <2>6. ASSUME NEW i \in 1 .. Len(Text(v))
        PROVE  \/ i <= Len(disk') /\ disk'[i] = Text(v)[i]
               \/ \E c \in saving : at'[c] < i
    <3>1. CASE i \in at[b] + 1 .. end
      <4>1. i \in 1 .. Len(disk') /\ i - at[b] \in 1 .. Len(h)
        BY <1>2, <2>3, <2>4, <3>1
      <4>2. disk'[i] = h[i - at[b]]
        BY <2>3, <3>1, <4>1
      <4>3. h[i - at[b]] = Text(v)[at[b] + (i - at[b])]
        BY <2>2, <4>1
      <4>4. at[b] + (i - at[b]) = i
        BY <1>2
      <4>5. QED
        BY <4>1, <4>2, <4>3, <4>4
    <3>2. CASE i > end
      BY <1>1, <1>5, <3>2
    <3>3. CASE i <= at[b]
      <4>1. CASE i <= Len(disk) /\ disk[i] = Text(v)[i]
        <5>1. i \in 1 .. Len(disk') /\ i \notin at[b] + 1 .. end
          BY <1>2, <2>3, <2>4, <3>3, <4>1
        <5>2. disk'[i] = disk[i]
          BY <2>3, <4>1, <5>1
        <5>3. QED
          BY <4>1, <5>1, <5>2
      <4>2. CASE \E c \in saving : at[c] < i
        <5>1. PICK c \in saving : at[c] < i
          BY <4>2
        <5>2. c # b
          BY <1>2, <3>3, <5>1
        <5>3. QED
          BY <1>6, <5>1, <5>2
      <4>3. QED
        BY <2>1, <4>1, <4>2 DEF Filled
    <3>4. QED
      BY <1>2, <2>4, <3>1, <3>2, <3>3
  <2>7. QED
    BY <1>1, <2>5, <2>6 DEF Filled
<1>10. QED
  BY <1>1, <1>8, <1>9 DEF AgreementInv

\* A bot that leaves: it has nothing more to write, or it was cut short.
LEMMA AgreementLeave ==
  ASSUME Types, AgreementInv, NEW b \in Bots, b \in saving, saving' = saving \ {b}, saves' = saves,
         \A c \in saving \ {b} : at'[c] = at[c] /\ lines'[c] = lines[c],
         cut' \/ (disk' = disk /\ lines[b] = <<>> /\ cut' = cut)
  PROVE  AgreementInv'
<1>1. Writing'
  <2>1. ASSUME NEW c \in saving \ {b} PROVE \E v \in saves : Remaining(c, v)'
    <3>1. PICK v \in saves : Remaining(c, v)
      BY DEF AgreementInv, Writing
    <3>2. Remaining(c, v)'
      BY <3>1 DEF Remaining
    <3>3. QED
      BY <3>2
  <2>2. QED
    BY <2>1 DEF Writing
<1>2. ASSUME ~cut', NEW v \in saves, saves = {v} PROVE Filled(v)'
  <2>1. disk' = disk /\ lines[b] = <<>> /\ ~cut
    BY <1>2
  <2>2. Filled(v) /\ Remaining(b, v)
    BY <1>2, <2>1 DEF AgreementInv, Writing
  <2>3. at[b] = Len(Text(v)) /\ Len(Text(v)) \in Nat
    <3>1. Rest(Text(v), at[b]) = <<>> /\ at[b] <= Len(Text(v))
      BY <2>1, <2>2, FlattenEmpty DEF Remaining
    <3>2. Text(v) \in Seq(Chars) /\ at[b] \in Nat
      BY TextType DEF Types, Strings
    <3>3. QED
      BY <3>1, <3>2, NothingBehind
  <2>4. \A i \in 1 .. Len(Text(v)) : ~ (at[b] < i)
    BY <2>3
  <2>5. \A c \in saving \ {b} : at'[c] = at[c]
    OBVIOUS
  <2>6. QED
    BY <2>1, <2>2, <2>4, <2>5 DEF Filled
<1>3. QED
  BY <1>1, <1>2 DEF AgreementInv

LEMMA AgreementSame ==
  ASSUME AgreementInv, UNCHANGED <<disk, lines, at, saving, saves, cut>>
  PROVE  AgreementInv'
BY DEF AgreementInv, Writing, Remaining, Filled

\* Each action keeps the inductive invariant of the agreement.
LEMMA AgreementNext == Types /\ AgreementInv /\ [Next]_vars => AgreementInv'
<1>1. SUFFICES ASSUME Types, AgreementInv, [Next]_vars PROVE AgreementInv'
  OBVIOUS
<1>2. CASE UNCHANGED vars
  BY <1>1, <1>2, AgreementSame DEF vars
<1>3. ASSUME NEW b \in Bots, NEW s \in Settings, NEW text \in Texts, Change(b, s, text)
      PROVE  AgreementInv'
  BY <1>1, <1>3, AgreementSame DEF Change
<1>4. ASSUME NEW b \in Bots, NEW s \in Settings, NEW text \in Texts, CatSet(b, s, text)
      PROVE  AgreementInv'
  <2>1. value' \in [Bots -> Values]
    BY <1>1, <1>4, ChangedValueType DEF CatSet
  <2>2. value'[b] \in Values /\ SaveTo(b, value'[b])
    BY <1>4, <2>1 DEF CatSet
  <2>3. ASSUME NEW v, v = value'[b] PROVE AgreementInv'
    BY <1>1, <2>2, <2>3, AgreementSaveTo
  <2>4. QED
    BY <2>3
<1>5. ASSUME NEW b \in Bots, Save(b) PROVE AgreementInv'
  <2>1. value[b] \in Values /\ SaveTo(b, value[b])
    BY <1>1, <1>5 DEF Save, Types
  <2>2. ASSUME NEW v, v = value[b] PROVE AgreementInv'
    BY <1>1, <2>1, <2>2, AgreementSaveTo
  <2>3. QED
    BY <2>2
<1>6. ASSUME NEW b \in Bots, WriteLine(b) PROVE AgreementInv'
  BY <1>1, <1>6, AgreementWriteLine
<1>7. ASSUME NEW b \in Bots, Close(b) PROVE AgreementInv'
  <2>1. /\ b \in saving /\ saving' = saving \ {b} /\ saves' = saves /\ cut' = cut
        /\ lines' = lines /\ lines[b] = <<>> /\ disk' = disk /\ at' = [at EXCEPT ![b] = 0]
    BY <1>7 DEF Close
  <2>2. \A c \in saving \ {b} : at'[c] = at[c] /\ lines'[c] = lines[c]
    BY <1>1, <2>1 DEF Types
  <2>3. QED
    BY <1>1, <2>1, <2>2, AgreementLeave
<1>8. ASSUME NEW b \in Bots, Ends(b) PROVE AgreementInv'
  <2>1. /\ b \in saving /\ saving' = saving \ {b} /\ saves' = saves /\ cut'
        /\ lines' = [lines EXCEPT ![b] = <<>>] /\ at' = [at EXCEPT ![b] = 0]
    BY <1>8 DEF Ends
  <2>2. \A c \in saving \ {b} : at'[c] = at[c] /\ lines'[c] = lines[c]
    BY <1>1, <2>1 DEF Types
  <2>3. QED
    BY <1>1, <2>1, <2>2, AgreementLeave
<1>9. ASSUME NEW b \in Bots, DiskFull(b) \/ Killed(b) PROVE AgreementInv'
  BY <1>8, <1>9 DEF DiskFull, Killed
<1>10. ASSUME NEW b \in Bots, Load(b) \/ LoadFails(b) PROVE AgreementInv'
  BY <1>1, <1>10, AgreementSame DEF Load, LoadFails
<1>11. QED
  BY <1>1, <1>2, <1>3, <1>4, <1>5, <1>6, <1>7, <1>9, <1>10 DEF Next

\* Bots that save the same settings to one file leave it as one of them alone
\* would (ofstream::open truncates, each writer goes on at its own place), for
\* every number of bots, settings and saves.
THEOREM AgreementHolds == Spec => []Agreement
<1>1. Init => AgreementInv
  BY DEF Init, AgreementInv, Writing
<1>2. Types /\ AgreementInv /\ [Next]_vars => AgreementInv'
  BY AgreementNext
<1>3. Types /\ AgreementInv => Agreement
  <2>1. SUFFICES ASSUME Types, AgreementInv, saving = {}, ~cut, NEW v \in saves, saves = {v}
                 PROVE  disk = Text(v)
    BY DEF Agreement
  <2>2. Filled(v)
    BY <2>1 DEF AgreementInv
  <2>3. /\ Len(disk) <= Len(Text(v))
        /\ \A i \in 1 .. Len(Text(v)) : i <= Len(disk) /\ disk[i] = Text(v)[i]
    BY <2>1, <2>2 DEF Filled
  <2>4. disk \in Seq(Chars) /\ Text(v) \in Seq(Chars)
    BY <2>1, TextType DEF Types, Strings
  <2>5. Len(disk) = Len(Text(v))
    <3>1. CASE Len(Text(v)) = 0
      BY <2>3, <2>4, <3>1
    <3>2. CASE Len(Text(v)) # 0
      <4>1. Len(Text(v)) \in 1 .. Len(Text(v))
        BY <2>4, <3>2
      <4>2. QED
        BY <2>3, <2>4, <4>1
    <3>3. QED
      BY <3>1, <3>2
  <2>6. QED
    BY <2>3, <2>4, <2>5
<1>4. QED
  BY <1>1, <1>2, <1>3, TypeCorrect, PTL DEF Spec

-----------------------------------------------------------------------------
(* What the reader makes of what the writer writes.                        *)

\* Between two characters of the text that the writer was given.
Calm(r) == r \in Readers /\ ~r.comment /\ ~r.escape

\* Nothing is finished between r and p.
Within(r, p) ==
    p.reading_key = r.reading_key /\ p.stored_key = r.stored_key /\ p.read = r.read

\* What pushChar does first.
LEMMA PushIs ==
  ASSUME NEW r \in Readers, ~r.comment, NEW c, ~ (c = Blank /\ ~r.was_non_space)
  PROVE  \E q \in Readers :
            /\ q = [r EXCEPT !.was_non_space = @ \/ ~IsSpace(c)]
            /\ PushChar(r, c) = IF r.escape THEN PushEscaped(q, c) ELSE PushPlain(q, c)
<1> DEFINE q == [r EXCEPT !.was_non_space = @ \/ ~IsSpace(c)]
<1>1. q \in Readers
  BY DEF Readers, IsSpace
<1>2. PushChar(r, c) = IF r.escape THEN PushEscaped(q, c) ELSE PushPlain(q, c)
  BY Zenon DEF PushChar
<1> HIDE DEF q
<1>3. QED
  BY <1>1, <1>2 DEF q

\* A blank in front of a key or value.
LEMMA Skipped ==
  ASSUME NEW r \in Readers, ~r.comment, ~r.was_non_space
  PROVE  PushChar(r, Blank) = r
BY DEF PushChar

\* The escape character.
LEMMA PushBackslash ==
  ASSUME NEW r, Calm(r), NEW p, p = PushChar(r, "\\")
  PROVE  /\ p \in Readers /\ ~p.comment /\ p.escape /\ Within(r, p)
         /\ p.quote = r.quote /\ p.was_non_space
         /\ p.temporary_spaces = r.temporary_spaces /\ p.oss = r.oss
<1>1. PICK q \in Readers : /\ q = [r EXCEPT !.was_non_space = @ \/ ~IsSpace("\\")]
                           /\ p = PushPlain(q, "\\")
  BY PushIs DEF Calm, Blank
<1>2. p = [q EXCEPT !.escape = TRUE]
  BY <1>1 DEF PushPlain, EndsLine, NewLine, Blank
<1>3. q.was_non_space
  BY <1>1 DEF IsSpace, Blank, NewLine, Calm, Readers
<1>4. QED
  BY <1>1, <1>2, <1>3 DEF Calm, Readers, Within

\* The character after it.
LEMMA PushAfter ==
  ASSUME NEW r \in Readers, ~r.comment, r.escape, r.was_non_space, NEW c \in Escaped,
         NEW p, p = PushChar(r, c)
  PROVE  /\ Calm(p) /\ Within(r, p)
         /\ p.quote = r.quote /\ p.was_non_space
         /\ p.temporary_spaces = r.temporary_spaces /\ p.oss = Append(r.oss, c)
<1>1. PICK q \in Readers : /\ q = [r EXCEPT !.was_non_space = @ \/ ~IsSpace(c)]
                           /\ p = PushEscaped(q, c)
  BY PushIs
<1>2. c # Nul /\ c \in Chars
  BY SpecialChars DEF Escaped, Nul, NewLine
<1>3. p \in Readers
  BY <1>2, PushType
<1>4. p = [q EXCEPT !.oss = Append(q.oss, c), !.escape = FALSE]
  BY <1>1, <1>2 DEF PushEscaped
<1>5. QED
  BY <1>1, <1>3, <1>4 DEF Calm, Readers, Within

\* A character that goes to the text, with the blanks before it.
Pushes(r, c, p) ==
    /\ p.quote = r.quote /\ p.was_non_space
    /\ p.temporary_spaces = <<>> /\ p.oss = (r.oss \o r.temporary_spaces) \o <<c>>

\* An ordinary character.
LEMMA PushText ==
  ASSUME NEW r, Calm(r), NEW c \in Chars \ Escaped, c # "quote",
         c = Blank => r.was_non_space /\ r.quote, NEW p, p = PushChar(r, c)
  PROVE  Calm(p) /\ Within(r, p) /\ Pushes(r, c, p)
<1>1. PICK q \in Readers : /\ q = [r EXCEPT !.was_non_space = @ \/ ~IsSpace(c)]
                           /\ p = PushPlain(q, c)
  BY PushIs DEF Calm
<1>2. p \in Readers
  BY PushType DEF Calm
<1>3. c # "\\" /\ c # "#" /\ c # "=" /\ c # NewLine
  BY DEF Escaped
<1>4. q.quote = r.quote /\ q.was_non_space
  BY <1>1, <1>3 DEF IsSpace, Calm, Readers
<1>5. p = [q EXCEPT !.oss = (@ \o q.temporary_spaces) \o <<c>>, !.temporary_spaces = <<>>]
  BY <1>1, <1>3, <1>4 DEF PushPlain, EndsLine
<1>6. q.oss = r.oss /\ q.temporary_spaces = r.temporary_spaces /\ ~q.comment /\ ~q.escape /\ Within(r, q)
  BY <1>1 DEF Calm, Readers, Within
<1>7. /\ ~p.comment /\ ~p.escape /\ Within(q, p) /\ p.quote = q.quote /\ p.was_non_space = q.was_non_space
      /\ p.temporary_spaces = <<>> /\ p.oss = (q.oss \o q.temporary_spaces) \o <<c>>
  BY <1>1, <1>5, <1>6 DEF Readers, Within
<1>8. QED
  BY <1>2, <1>4, <1>6, <1>7 DEF Calm, Within, Pushes

\* A blank outside a quotation.
LEMMA PushBlank ==
  ASSUME NEW r, Calm(r), r.was_non_space, ~r.quote, NEW p, p = PushChar(r, Blank)
  PROVE  /\ Calm(p) /\ Within(r, p) /\ ~p.quote /\ p.was_non_space
         /\ p.temporary_spaces = Append(r.temporary_spaces, Blank) /\ p.oss = r.oss
<1>1. PICK q \in Readers : /\ q = [r EXCEPT !.was_non_space = @ \/ ~IsSpace(Blank)]
                           /\ p = PushPlain(q, Blank)
  BY PushIs DEF Calm
<1>2. p \in Readers
  BY PushType, SpecialChars DEF Calm
<1>3. Blank # "\\" /\ Blank # "#" /\ Blank # "=" /\ Blank # NewLine /\ Blank # "quote"
  BY DEF Blank, NewLine
<1>4. q.quote = r.quote /\ q.was_non_space
  BY <1>1 DEF Calm, Readers
<1>5. p = [q EXCEPT !.temporary_spaces = Append(@, Blank)]
  BY <1>1, <1>3, <1>4 DEF PushPlain, EndsLine
<1>6. QED
  BY <1>1, <1>2, <1>4, <1>5 DEF Calm, Readers, Within

\* A quotation mark.
LEMMA PushQuote ==
  ASSUME NEW r, Calm(r), NEW p, p = PushChar(r, "quote")
  PROVE  /\ Calm(p) /\ Within(r, p) /\ p.was_non_space
         /\ p.temporary_spaces = r.temporary_spaces /\ p.oss = r.oss
         /\ p.quote = ~r.quote
<1>1. PICK q \in Readers : /\ q = [r EXCEPT !.was_non_space = @ \/ ~IsSpace("quote")]
                           /\ p = PushPlain(q, "quote")
  BY PushIs DEF Calm, Blank
<1>2. p \in Readers
  BY PushType, SpecialChars DEF Calm
<1>3. q.quote = r.quote /\ q.was_non_space
  BY <1>1 DEF Calm, Readers, IsSpace, Blank, NewLine
<1>4. p = [q EXCEPT !.quote = ~@]
  BY <1>1 DEF PushPlain, EndsLine, NewLine, Blank
<1>5. QED
  BY <1>1, <1>2, <1>3, <1>4 DEF Calm, Readers, Within

\* The end of a key.
LEMMA PushEquals ==
  ASSUME NEW r, Calm(r), r.reading_key, NEW p, p = PushChar(r, "=")
  PROVE  /\ Calm(p) /\ p.read = r.read /\ p.quote = r.quote
         /\ r.quote => p.reading_key
         /\ ~r.quote => /\ ~p.reading_key /\ p.stored_key = r.oss /\ ~p.was_non_space
                        /\ p.oss = <<>> /\ p.temporary_spaces = <<>>
<1>1. PICK q \in Readers : /\ q = [r EXCEPT !.was_non_space = @ \/ ~IsSpace("=")]
                           /\ p = PushPlain(q, "=")
  BY PushIs DEF Calm, Blank
<1>2. p \in Readers
  BY PushType, SpecialChars DEF Calm
<1>3. q.quote = r.quote /\ q.reading_key /\ ~q.comment /\ ~q.escape /\ q.read = r.read /\ q.oss = r.oss
  BY <1>1 DEF Calm, Readers
<1>4. CASE r.quote
  <2>1. p = [q EXCEPT !.oss = (@ \o q.temporary_spaces) \o <<"=">>, !.temporary_spaces = <<>>]
    BY <1>1, <1>3, <1>4 DEF PushPlain, EndsLine, NewLine, Blank
  <2>2. QED
    BY <1>2, <1>3, <1>4, <2>1 DEF Calm, Readers
<1>5. CASE ~r.quote
  <2>1. p = FinishString(q, FALSE)
    BY <1>1, <1>3, <1>5 DEF PushPlain, EndsLine, NewLine, Blank
  <2>2. p = [q EXCEPT !.oss = <<>>, !.stored_key = q.oss, !.read = q.read, !.reading_key = FALSE,
                      !.was_non_space = FALSE, !.temporary_spaces = <<>>]
    BY <1>3, <2>1 DEF FinishString
  <2>3. QED
    BY <1>2, <1>3, <1>5, <2>2 DEF Calm, Readers
<1>6. QED
  BY <1>4, <1>5

\* The end of a line.
LEMMA PushNewLine ==
  ASSUME NEW r, Calm(r), NEW p, p = PushChar(r, NewLine)
  PROVE  /\ Calm(p) /\ p.quote = r.quote /\ p.reading_key /\ p.oss = <<>>
         /\ r.reading_key => /\ p.read = r.read /\ p.was_non_space = r.was_non_space
                             /\ p.temporary_spaces = r.temporary_spaces
         /\ ~r.reading_key => /\ p.read = OnReadKeyValue(r.read, r.stored_key, r.oss)
                              /\ ~p.was_non_space /\ p.temporary_spaces = <<>>
<1>1. PICK q \in Readers : /\ q = [r EXCEPT !.was_non_space = @ \/ ~IsSpace(NewLine)]
                           /\ p = PushPlain(q, NewLine)
  BY PushIs DEF Calm, Blank, NewLine
<1>2. p \in Readers
  BY PushType, SpecialChars DEF Calm
<1>3. /\ q.quote = r.quote /\ q.reading_key = r.reading_key /\ ~q.comment /\ ~q.escape
      /\ q.read = r.read /\ q.oss = r.oss /\ q.stored_key = r.stored_key
      /\ q.was_non_space = r.was_non_space /\ q.temporary_spaces = r.temporary_spaces
  BY <1>1 DEF Calm, Readers, IsSpace
<1>4. p = FinishString(q, TRUE)
  BY <1>1 DEF PushPlain, EndsLine, NewLine, Blank
<1>5. CASE r.reading_key
  <2>1. p = [q EXCEPT !.oss = <<>>]
    BY <1>3, <1>4, <1>5 DEF FinishString
  <2>2. QED
    BY <1>2, <1>3, <1>5, <2>1 DEF Calm, Readers
<1>6. CASE ~r.reading_key
  <2> DEFINE R == OnReadKeyValue(q.read, q.stored_key, q.oss)
  <2>1. p = [q EXCEPT !.oss = <<>>, !.stored_key = q.stored_key, !.read = R,
                      !.reading_key = TRUE, !.was_non_space = FALSE, !.temporary_spaces = <<>>]
    BY <1>3, <1>4, <1>6 DEF FinishString
  <2>2. R = OnReadKeyValue(r.read, r.stored_key, r.oss)
    BY <1>3
  <2> HIDE DEF R
  <2>3. QED
    BY <1>2, <1>3, <1>6, <2>1, <2>2 DEF Calm, Readers
<1>7. QED
  BY <1>5, <1>6

-----------------------------------------------------------------------------
(* Beginnings of strings.                                                  *)

Begins(s, t) == \E u \in Strings : t = s \o u

LEMMA BeginsSelf ==
  ASSUME NEW s \in Strings
  PROVE  Begins(s, s) /\ Begins(<<>>, s)
<1>1. s = s \o <<>> /\ s = <<>> \o s
  BY DEF Strings
<1>2. QED
  BY <1>1, StringsType DEF Begins

LEMMA BeginsThen ==
  ASSUME NEW r \in Strings, NEW s, NEW t, Begins(r, s), Begins(s, t)
  PROVE  Begins(r, t)
<1>1. PICK u \in Strings : s = r \o u
  BY DEF Begins
<1>2. PICK w \in Strings : t = s \o w
  BY DEF Begins
<1>3. u \o w \in Strings /\ (r \o u) \o w = r \o (u \o w)
  BY DEF Strings
<1>4. QED
  BY <1>1, <1>2, <1>3 DEF Begins

\* The definition of the library.
LEMMA BeginsIs ==
  ASSUME NEW s \in Strings, NEW t \in Strings
  PROVE  Begins(s, t) <=> IsPrefix(s, t)
<1>0. s \in Seq(Chars) /\ t \in Seq(Chars) /\ Len(s) \in Nat /\ Len(t) \in Nat
  BY DEF Strings
<1>1. ASSUME Begins(s, t) PROVE IsPrefix(s, t)
  <2>1. PICK u \in Strings : t = s \o u
    BY <1>1 DEF Begins
  <2> DEFINE w == s \o u
  <2>2. w \in Seq(Chars) /\ Len(s) <= Len(w) /\ SubSeq(s, 1, Len(s)) = s
        /\ SubSeq(w, 1, Len(s)) = s
    BY <1>0 DEF Strings
  <2>3. t = w
    BY <2>1
  <2> HIDE DEF w
  <2>4. QED
    BY <2>2, <2>3 DEF IsPrefix
<1>2. ASSUME IsPrefix(s, t) PROVE Begins(s, t)
  <2> DEFINE u == SubSeq(t, Len(s) + 1, Len(t))
  <2>1. Len(s) <= Len(t) /\ SubSeq(s, 1, Len(s)) = SubSeq(t, 1, Len(s)) /\ SubSeq(s, 1, Len(s)) = s
    BY <1>0, <1>2 DEF IsPrefix
  <2>2. t = SubSeq(t, 1, Len(s)) \o u
    <3>1. Len(s) <= Len(t)
      BY <2>1
    <3>2. ASSUME NEW n \in Nat, n <= Len(t)
          PROVE  t = SubSeq(t, 1, n) \o SubSeq(t, n + 1, Len(t))
      <4> DEFINE a == SubSeq(t, 1, n)
                 b == SubSeq(t, n + 1, Len(t))
                 y == a \o b
      <4>1. /\ a \in Seq(Chars) /\ Len(a) = n /\ \A i \in 1 .. n : a[i] = t[i]
            /\ b \in Seq(Chars) /\ Len(b) = Len(t) - n
            /\ \A i \in 1 .. Len(t) - n : b[i] = t[n + i]
        BY <1>0, <3>2
      <4> HIDE DEF a, b
      <4>2. /\ y \in Seq(Chars) /\ Len(y) = Len(t) /\ \A i \in 1 .. n : y[i] = a[i]
            /\ \A i \in 1 .. Len(t) - n : y[n + i] = b[i]
        BY <1>0, <3>2, <4>1
      <4> HIDE DEF y
      <4>3. ASSUME NEW i \in 1 .. Len(t) PROVE t[i] = y[i]
        <5>1. CASE i <= n
          BY <4>1, <4>2, <5>1
        <5>2. CASE i > n
          <6>1. i - n \in 1 .. Len(t) - n /\ n + (i - n) = i
            BY <1>0, <5>2
          <6>2. b[i - n] = t[i]
            BY <4>1, <6>1
          <6>3. y[i] = b[i - n]
            BY <4>2, <6>1
          <6>4. QED
            BY <6>2, <6>3
        <5>3. QED
          BY <5>1, <5>2
      <4>4. t = y
        BY <1>0, <4>2, <4>3
      <4>5. QED
        BY <4>4 DEF y, a, b
    <3>3. QED
      BY <1>0, <3>1, <3>2
  <2>3. u \in Strings
    BY <1>0, <2>1 DEF Strings
  <2> HIDE DEF u
  <2>4. t = s \o u
    BY <2>1, <2>2
  <2>5. QED
    BY <2>3, <2>4 DEF Begins
<1>3. QED
  BY <1>1, <1>2

\* A beginning of two strings, one after the other, ends in the first or in the
\* second.
LEMMA BeginsConcat ==
  ASSUME NEW s \in Strings, NEW t \in Strings, NEW q \in Strings, Begins(q, s \o t)
  PROVE  Begins(q, s) \/ \E w \in Strings : q = s \o w /\ Begins(w, t)
<1>0. s \in Seq(Chars) /\ t \in Seq(Chars) /\ q \in Seq(Chars)
      /\ Len(s) \in Nat /\ Len(t) \in Nat /\ Len(q) \in Nat
  BY DEF Strings
<1>1. PICK u \in Strings : s \o t = q \o u
  BY DEF Begins
<1>2. u \in Seq(Chars) /\ Len(u) \in Nat
  BY DEF Strings
<1>3. Len(s) + Len(t) = Len(q) + Len(u)
  <2>1. Len(s \o t) = Len(s) + Len(t) /\ Len(q \o u) = Len(q) + Len(u)
    BY <1>0, <1>2
  <2>2. QED
    BY <1>1, <2>1
<1> DEFINE x == s \o t
<1>4. /\ \A i \in 1 .. Len(s) : x[i] = s[i]
      /\ \A i \in 1 .. Len(t) : x[Len(s) + i] = t[i]
  BY <1>0
<1>5. /\ \A i \in 1 .. Len(q) : x[i] = q[i]
      /\ \A i \in 1 .. Len(u) : x[Len(q) + i] = u[i]
  <2> DEFINE y == q \o u
  <2>1. /\ \A i \in 1 .. Len(q) : y[i] = q[i]
        /\ \A i \in 1 .. Len(u) : y[Len(q) + i] = u[i]
    BY <1>0, <1>2
  <2>2. x = y
    BY <1>1
  <2> HIDE DEF x, y
  <2>3. QED
    BY <2>1, <2>2
<1> HIDE DEF x
<1>6. CASE Len(q) <= Len(s)
  <2>1. q = SubSeq(s, 1, Len(q))
    <3> DEFINE y == SubSeq(s, 1, Len(q))
    <3>1. y \in Seq(Chars) /\ Len(y) = Len(q) /\ \A i \in 1 .. Len(q) : y[i] = s[i]
      BY <1>0, <1>6
    <3>2. \A i \in 1 .. Len(q) : i \in 1 .. Len(s)
      BY <1>0, <1>6
    <3>3. \A i \in 1 .. Len(q) : q[i] = y[i]
      BY <1>4, <1>5, <3>1, <3>2
    <3> HIDE DEF y
    <3>4. q = y
      BY <1>0, <3>1, <3>3
    <3>5. QED
      BY <3>4 DEF y
  <2>2. SubSeq(q, 1, Len(q)) = q
    BY <1>0
  <2>3. IsPrefix(q, s)
    BY <1>6, <2>1, <2>2 DEF IsPrefix
  <2>4. QED
    BY <2>3, BeginsIs
<1>7. CASE Len(q) > Len(s)
  <2> DEFINE w == SubSeq(q, Len(s) + 1, Len(q))
  <2>1. /\ w \in Seq(Chars) /\ Len(w) = Len(q) - Len(s)
        /\ \A i \in 1 .. Len(q) - Len(s) : w[i] = q[Len(s) + i]
    BY <1>0, <1>7
  <2> HIDE DEF w
  <2>2. q = s \o w
    <3> DEFINE y == s \o w
    <3>1. /\ y \in Seq(Chars) /\ Len(y) = Len(q)
          /\ \A i \in 1 .. Len(s) : y[i] = s[i]
          /\ \A i \in 1 .. Len(w) : y[Len(s) + i] = w[i]
      BY <1>0, <1>7, <2>1
    <3> HIDE DEF y
    <3>2. ASSUME NEW i \in 1 .. Len(q) PROVE q[i] = y[i]
      <4>1. CASE i <= Len(s)
        BY <1>0, <1>4, <1>5, <1>7, <3>1, <4>1
      <4>2. CASE i > Len(s)
        <5>1. i - Len(s) \in 1 .. Len(q) - Len(s) /\ Len(s) + (i - Len(s)) = i
          BY <1>0, <4>2
        <5>2. w[i - Len(s)] = q[i]
          BY <2>1, <5>1
        <5>3. y[i] = w[i - Len(s)]
          BY <2>1, <3>1, <5>1
        <5>4. QED
          BY <5>2, <5>3
      <4>3. QED
        BY <1>0, <4>1, <4>2
    <3>3. q = y
      BY <1>0, <3>1, <3>2
    <3>4. QED
      BY <3>3 DEF y
  <2>3. w = SubSeq(t, 1, Len(w))
    <3> DEFINE y == SubSeq(t, 1, Len(w))
    <3>1. Len(w) \in Nat /\ Len(w) <= Len(t)
      BY <1>0, <1>2, <1>3, <1>7, <2>1
    <3>2. y \in Seq(Chars) /\ Len(y) = Len(w) /\ \A i \in 1 .. Len(w) : y[i] = t[i]
      BY <1>0, <3>1
    <3> HIDE DEF y
    <3>3. ASSUME NEW i \in 1 .. Len(w) PROVE w[i] = y[i]
      <4>1. i \in 1 .. Len(t) /\ Len(s) + i \in 1 .. Len(q) /\ i \in 1 .. Len(q) - Len(s)
        BY <1>0, <1>7, <2>1, <3>1
      <4>2. t[i] = q[Len(s) + i]
        BY <1>4, <1>5, <4>1
      <4>3. w[i] = q[Len(s) + i]
        BY <2>1, <4>1
      <4>4. QED
        BY <3>2, <4>2, <4>3
    <3>4. w = y
      BY <2>1, <3>2, <3>3
    <3>5. QED
      BY <3>4 DEF y
  <2>4. Len(w) <= Len(t) /\ SubSeq(w, 1, Len(w)) = w
    BY <1>0, <1>2, <1>3, <1>7, <2>1
  <2>5. w \in Strings
    BY <2>1 DEF Strings
  <2>6. IsPrefix(w, t)
    BY <2>3, <2>4 DEF IsPrefix
  <2>7. Begins(w, t)
    BY <2>5, <2>6, BeginsIs
  <2>8. QED
    BY <2>2, <2>5, <2>7
<1>8. QED
  BY <1>0, <1>6, <1>7

LEMMA BeginsEmpty ==
  ASSUME NEW w \in Strings, Begins(w, <<>>)
  PROVE  w = <<>>
<1>1. PICK u \in Strings : <<>> = w \o u
  BY DEF Begins
<1>2. w \in Seq(Chars) /\ u \in Seq(Chars)
  BY DEF Strings
<1>3. Len(w \o u) = Len(w) + Len(u) /\ Len(w) \in Nat /\ Len(u) \in Nat
  BY <1>2
<1>4. Len(w) = 0
  BY <1>1, <1>3
<1>5. QED
  BY <1>2, <1>4

LEMMA PushOne ==
  ASSUME NEW r, NEW c \in Chars
  PROVE  PushAll(r, <<c>>) = PushChar(r, c)
<1>1. <<>> \in Seq(Chars) /\ Append(<<>>, c) = <<c>>
  OBVIOUS
<1>2. PushAll(r, Append(<<>>, c)) = PushChar(PushAll(r, <<>>), c)
  BY <1>1, PushAllAppend
<1>3. QED
  BY <1>1, <1>2, PushAllEmpty

LEMMA PushTwo ==
  ASSUME NEW r, NEW b \in Chars, NEW c \in Chars
  PROVE  PushAll(r, <<b, c>>) = PushChar(PushChar(r, b), c)
<1>1. <<b>> \in Seq(Chars) /\ Append(<<b>>, c) = <<b, c>>
  <2>1. <<b>> \in Seq(Chars)
    OBVIOUS
  <2>2. Append(<<b>>, c) = <<b, c>>
    <3> DEFINE s == Append(<<b>>, c)
               t == <<b, c>>
    <3>1. s \in Seq(Chars) /\ Len(s) = 2 /\ s[1] = b /\ s[2] = c
      OBVIOUS
    <3>2. t \in Seq(Chars) /\ Len(t) = 2 /\ t[1] = b /\ t[2] = c
      OBVIOUS
    <3> HIDE DEF s, t
    <3>3. \A i \in 1 .. 2 : s[i] = t[i]
      BY <3>1, <3>2
    <3>4. s = t
      BY <3>1, <3>2, <3>3
    <3>5. QED
      BY <3>4 DEF s, t
  <2>3. QED
    BY <2>1, <2>2
<1>2. PushAll(r, Append(<<b>>, c)) = PushChar(PushAll(r, <<b>>), c)
  BY <1>1, PushAllAppend
<1>3. QED
  BY <1>1, <1>2, PushOne

\* What the written form of one character does to the reader.
Reads(r, c, p) ==
    /\ Calm(p) /\ Within(r, p)
    /\ c \in Escaped => /\ p.quote = r.quote /\ p.was_non_space
                        /\ p.temporary_spaces = r.temporary_spaces /\ p.oss = Append(r.oss, c)
    /\ c = "quote" => /\ p.quote = ~r.quote /\ p.was_non_space
                      /\ p.temporary_spaces = r.temporary_spaces /\ p.oss = r.oss
    /\ c = Blank /\ ~r.was_non_space =>
          /\ p.quote = r.quote /\ ~p.was_non_space
          /\ p.temporary_spaces = r.temporary_spaces /\ p.oss = r.oss
    /\ c = Blank /\ r.was_non_space /\ ~r.quote =>
          /\ ~p.quote /\ p.was_non_space
          /\ p.temporary_spaces = Append(r.temporary_spaces, Blank) /\ p.oss = r.oss
    /\ c = Blank /\ r.was_non_space /\ r.quote => Pushes(r, c, p)
    /\ c \notin Escaped \cup {"quote", Blank} => Pushes(r, c, p)

\* What the writer makes of a character is read as Reads says.
LEMMA ReadsWritten ==
  ASSUME NEW r, Calm(r), NEW c \in Chars
  PROVE  Reads(r, c, PushAll(r, Written(c)))
<1> DEFINE p == PushAll(r, Written(c))
<1>0. "quote" # Blank /\ "quote" \notin Escaped /\ Blank \notin Escaped
  BY DEF Blank, Escaped, NewLine
<1>1. CASE c \in Escaped
  <2> DEFINE m == PushChar(r, "\\")
  <2>1. p = PushChar(m, c)
    BY <1>1, PushTwo, SpecialChars DEF Written
  <2> HIDE DEF m, p
  <2>2. /\ m \in Readers /\ ~m.comment /\ m.escape /\ Within(r, m)
        /\ m.quote = r.quote /\ m.was_non_space
        /\ m.temporary_spaces = r.temporary_spaces /\ m.oss = r.oss
    BY PushBackslash DEF m
  <2>3. /\ Calm(p) /\ Within(m, p)
        /\ p.quote = m.quote /\ p.was_non_space
        /\ p.temporary_spaces = m.temporary_spaces /\ p.oss = Append(m.oss, c)
    BY <1>1, <2>1, <2>2, PushAfter
  <2>4. Reads(r, c, p)
    BY <1>0, <1>1, <2>2, <2>3 DEF Reads, Within
  <2>5. QED
    BY <2>4 DEF p
<1>2. CASE c \notin Escaped
  <2>1. p = PushChar(r, c)
    BY <1>2, PushOne DEF Written
  <2> HIDE DEF p
  <2>2. CASE c = "quote"
    <3>1. /\ Calm(p) /\ Within(r, p) /\ p.was_non_space
          /\ p.temporary_spaces = r.temporary_spaces /\ p.oss = r.oss
          /\ p.quote = ~r.quote
      BY <2>1, <2>2, PushQuote
    <3>2. QED
      BY <1>0, <2>2, <3>1 DEF Reads, p
  <2>3. CASE c = Blank /\ ~r.was_non_space
    <3>1. p = r
      BY <2>1, <2>3, Skipped DEF Calm
    <3>2. Reads(r, c, p)
      BY <1>0, <2>3, <3>1 DEF Reads, Within
    <3>3. QED
      BY <3>2 DEF p
  <2>4. CASE c = Blank /\ r.was_non_space /\ ~r.quote
    <3>1. /\ Calm(p) /\ Within(r, p) /\ ~p.quote /\ p.was_non_space
          /\ p.temporary_spaces = Append(r.temporary_spaces, Blank) /\ p.oss = r.oss
      BY <2>1, <2>4, PushBlank
    <3>2. QED
      BY <1>0, <2>4, <3>1 DEF Reads, p
  <2>5. CASE c # "quote" /\ (c = Blank => r.was_non_space /\ r.quote)
    <3>1. Calm(p) /\ Within(r, p) /\ Pushes(r, c, p)
      BY <1>2, <2>1, <2>5, PushText
    <3>2. QED
      BY <1>0, <1>2, <2>5, <3>1 DEF Reads, p
  <2>6. QED
    BY <2>2, <2>3, <2>4, <2>5
<1>3. QED
  BY <1>1, <1>2

\* A string is read character by character.
LEMMA ReadsAppend ==
  ASSUME NEW r, NEW text \in Strings, NEW c \in Chars
  PROVE  PushAll(r, WriteEscaped(Append(text, c)))
            = PushAll(PushAll(r, WriteEscaped(text)), Written(c))
<1>1. WriteEscaped(Append(text, c)) = WriteEscaped(text) \o Written(c)
  BY WriteEscapedAppend DEF Strings
<1>2. WriteEscaped(text) \in Seq(Chars) /\ Written(c) \in Seq(Chars)
  BY WriteEscapedType, WrittenType DEF Strings
<1>3. ASSUME NEW s \in Seq(Chars), NEW t \in Seq(Chars)
      PROVE  PushAll(r, s \o t) = PushAll(PushAll(r, s), t)
  BY PushAllConcat
<1>4. QED
  BY <1>1, <1>2, <1>3

\* The text that was read so far stays.
LEMMA ReadsGrow ==
  ASSUME NEW r, Calm(r), NEW c, NEW p, c \in Chars, Reads(r, c, p)
  PROVE  Begins(r.oss, p.oss)
<1>1. r.oss \in Strings /\ r.temporary_spaces \in Strings
  BY DEF Calm, Readers
<1>2. CASE p.oss = r.oss
  BY <1>1, <1>2, BeginsSelf
<1>3. CASE p.oss = Append(r.oss, c)
  <2>1. Append(r.oss, c) = r.oss \o <<c>> /\ <<c>> \in Strings
    BY <1>1 DEF Strings
  <2>2. QED
    BY <1>3, <2>1 DEF Begins
<1>4. CASE p.oss = (r.oss \o r.temporary_spaces) \o <<c>>
  <2>1. (r.oss \o r.temporary_spaces) \o <<c>> = r.oss \o (r.temporary_spaces \o <<c>>)
        /\ r.temporary_spaces \o <<c>> \in Strings
    <3>1. \A s, t \in Seq(Chars) : (s \o t) \o <<c>> = s \o (t \o <<c>>)
      OBVIOUS
    <3>2. QED
      BY <1>1, <3>1, StringsType DEF Strings
  <2>2. QED
    BY <1>4, <2>1 DEF Begins
<1>5. QED
  BY <1>2, <1>3, <1>4 DEF Reads, Pushes

\* Nothing that the writer escapes finishes a key or a value.
LEMMA EscapedKeeps ==
  ASSUME NEW r, Calm(r), NEW text \in Strings
  PROVE  LET p == PushAll(r, WriteEscaped(text))
         IN  Calm(p) /\ Within(r, p) /\ Begins(r.oss, p.oss)
<1> DEFINE After(t) == PushAll(r, WriteEscaped(t))
           S == {t \in Strings : Calm(After(t)) /\ Within(r, After(t)) /\ Begins(r.oss, After(t).oss)}
<1>0. r.oss \in Strings
  BY DEF Calm, Readers
<1>1. <<>> \in S
  <2>1. After(<<>>) = r
    BY WriteEscapedEmpty, PushAllEmpty
  <2>2. Within(r, r) /\ Begins(r.oss, r.oss)
    BY <1>0, BeginsSelf DEF Within
  <2>3. QED
    BY <2>1, <2>2, StringsType
<1>2. ASSUME NEW t \in Strings, NEW c \in Chars, t \in S PROVE Append(t, c) \in S
  <2> DEFINE m == After(t)
             p == After(Append(t, c))
  <2>1. p = PushAll(m, Written(c))
    BY ReadsAppend
  <2>2. Calm(m) /\ Within(r, m) /\ Begins(r.oss, m.oss)
    BY <1>2
  <2> HIDE DEF m, p
  <2>3. Reads(m, c, p)
    BY <2>1, <2>2, ReadsWritten
  <2>4. Begins(m.oss, p.oss)
    BY <2>2, <2>3, ReadsGrow
  <2>5. Begins(r.oss, p.oss)
    BY <1>0, <2>2, <2>4, BeginsThen
  <2>6. Calm(p) /\ Within(r, p)
    BY <2>2, <2>3 DEF Reads, Within
  <2>7. Append(t, c) \in Strings
    BY StringsType
  <2>8. QED
    BY <2>5, <2>6, <2>7 DEF p
<1>3. Seq(Chars) \subseteq S
  <2>1. \A t \in Seq(Chars), c \in Chars : t \in S => Append(t, c) \in S
    BY <1>2 DEF Strings
  <2> HIDE DEF S
  <2>2. QED
    BY <1>1, <2>1, SequenceInduction
<1>4. QED
  BY <1>3 DEF Strings

\* A string that is cut within what the writer makes of it.
LEMMA EscapedCut ==
  ASSUME NEW r, Calm(r), NEW text \in Strings, NEW q \in Strings, Begins(q, WriteEscaped(text))
  PROVE  LET p == PushAll(r, q)
         IN  p \in Readers /\ ~p.comment /\ Within(r, p)
             /\ Begins(p.oss, PushAll(r, WriteEscaped(text)).oss)
<1> DEFINE After(t) == PushAll(r, WriteEscaped(t))
           Fine(t, w) == LET p == PushAll(r, w)
                         IN  p \in Readers /\ ~p.comment /\ Within(r, p) /\ Begins(p.oss, After(t).oss)
           S == {t \in Strings : \A w \in Strings : Begins(w, WriteEscaped(t)) => Fine(t, w)}
<1>0. r \in Readers /\ r.oss \in Strings
  BY DEF Calm, Readers
<1>1. <<>> \in S
  <2>1. \A w \in Strings : Begins(w, <<>>) => w = <<>>
    BY BeginsEmpty
  <2>2. Fine(<<>>, <<>>)
    <3>1. PushAll(r, <<>>) = r /\ After(<<>>) = r
      BY PushAllEmpty, WriteEscapedEmpty
    <3>2. QED
      BY <1>0, <3>1, BeginsSelf DEF Within, Calm
  <2> HIDE DEF Fine
  <2>3. QED
    BY <2>1, <2>2, StringsType, WriteEscapedEmpty
<1>2. ASSUME NEW t \in Strings, NEW c \in Chars, t \in S PROVE Append(t, c) \in S
  <2> DEFINE m == After(t)
             n == After(Append(t, c))
  <2>1. n = PushAll(m, Written(c))
    BY ReadsAppend
  <2>2. Calm(m) /\ Within(r, m)
    BY EscapedKeeps
  <2>3. Append(t, c) \in Strings /\ WriteEscaped(t) \in Strings /\ Written(c) \in Strings
        /\ WriteEscaped(Append(t, c)) = WriteEscaped(t) \o Written(c)
    BY StringsType, WriteEscapedType, WrittenType, WriteEscapedAppend DEF Strings
  <2> HIDE DEF m, n
  <2>4. Reads(m, c, n)
    BY <2>1, <2>2, ReadsWritten
  <2>5. Begins(m.oss, n.oss)
    BY <2>2, <2>4, ReadsGrow
  <2>6. ASSUME NEW w \in Strings, Begins(w, WriteEscaped(t)) PROVE Fine(Append(t, c), w)
    <3>1. Fine(t, w)
      BY <1>2, <2>6
    <3> DEFINE p == PushAll(r, w)
    <3>2. p \in Readers /\ ~p.comment /\ Within(r, p) /\ Begins(p.oss, m.oss)
      BY <3>1 DEF m
    <3>3. p.oss \in Strings
      BY <3>2 DEF Readers
    <3> HIDE DEF p
    <3>4. Begins(p.oss, n.oss)
      BY <2>5, <3>2, <3>3, BeginsThen
    <3>5. QED
      BY <3>2, <3>4 DEF p, n
  <2>7. ASSUME NEW x \in Strings, Begins(x, Written(c)) PROVE Fine(Append(t, c), WriteEscaped(t) \o x)
    <3> DEFINE p == PushAll(r, WriteEscaped(t) \o x)
    <3>1. p = PushAll(m, x)
      BY <2>3, PushAllConcat DEF m, Strings
    <3> HIDE DEF p
    <3>2. x = <<>> \/ x = Written(c) \/ (c \in Escaped /\ x = <<"\\">>)
      <4>1. PICK u \in Strings : Written(c) = x \o u
        BY <2>7 DEF Begins
      <4>2. CASE c \in Escaped
        <5>1. x \in Seq(Chars) /\ u \in Seq(Chars) /\ Len(x) \in Nat /\ Len(u) \in Nat
          BY DEF Strings
        <5>2. Len(x \o u) = Len(x) + Len(u) /\ Len(Written(c)) = 2 /\ Written(c)[1] = "\\"
          BY <4>2, <5>1 DEF Written
        <5>3. Len(x) + Len(u) = 2
          BY <4>1, <5>2
        <5>4. CASE Len(x) = 0
          BY <5>1, <5>4
        <5>5. CASE Len(x) = 1
          <6>1. (x \o u)[1] = x[1]
            BY <5>1, <5>3, <5>5, ConcatProperties
          <6>2. x[1] = "\\"
            BY <4>1, <5>2, <6>1
          <6>3. x = <<"\\">>
            BY <5>1, <5>5, <6>2
          <6>4. QED
            BY <4>2, <6>3
        <5>6. CASE Len(x) = 2
          <6>1. u = <<>>
            BY <5>1, <5>3, <5>6
          <6>2. x \o u = x
            BY <5>1, <6>1
          <6>3. QED
            BY <4>1, <6>2
        <5>7. \A k, l \in Nat : k + l = 2 => k = 0 \/ k = 1 \/ k = 2
          OBVIOUS
        <5>8. QED
          BY <5>1, <5>3, <5>4, <5>5, <5>6, <5>7, Zenon
      <4>3. CASE c \notin Escaped
        <5>1. x \in Seq(Chars) /\ u \in Seq(Chars) /\ Len(x) \in Nat /\ Len(u) \in Nat
          BY DEF Strings
        <5>2. Len(x \o u) = Len(x) + Len(u) /\ Len(Written(c)) = 1
          BY <4>3, <5>1 DEF Written
        <5>3. Len(x) + Len(u) = 1
          BY <4>1, <5>2
        <5>4. CASE Len(x) = 0
          BY <5>1, <5>4
        <5>5. CASE Len(x) = 1
          <6>1. u = <<>>
            BY <5>1, <5>3, <5>5
          <6>2. x \o u = x
            BY <5>1, <6>1
          <6>3. QED
            BY <4>1, <6>2
        <5>6. \A k, l \in Nat : k + l = 1 => k = 0 \/ k = 1
          OBVIOUS
        <5>7. QED
          BY <5>1, <5>3, <5>4, <5>5, <5>6, Zenon
      <4>4. QED
        BY <4>2, <4>3
    <3>3. m.oss \in Strings /\ n.oss \in Strings
      BY <2>2, <2>4 DEF Calm, Readers, Reads
    <3>4. CASE x = <<>>
      <4>1. p = m
        BY <3>1, <3>4, PushAllEmpty
      <4>2. QED
        BY <2>2, <2>5, <4>1 DEF Calm, p, n
    <3>5. CASE x = Written(c)
      <4>1. p = n
        BY <2>1, <3>1, <3>5
      <4>2. QED
        BY <2>2, <2>4, <3>3, <4>1, BeginsSelf DEF Calm, Reads, Within, p, n
    <3>6. CASE c \in Escaped /\ x = <<"\\">>
      <4>1. p = PushChar(m, "\\")
        BY <3>1, <3>6, PushOne, SpecialChars
      <4>2. p \in Readers /\ ~p.comment /\ Within(m, p) /\ p.oss = m.oss
        BY <2>2, <4>1, PushBackslash
      <4>3. QED
        BY <2>2, <2>5, <4>2 DEF Within, p, n
    <3>7. QED
      BY <3>2, <3>4, <3>5, <3>6
  <2> HIDE DEF Fine
  <2>8. ASSUME NEW w \in Strings, Begins(w, WriteEscaped(Append(t, c))) PROVE Fine(Append(t, c), w)
    <3>1. Begins(w, WriteEscaped(t)) \/ \E x \in Strings : w = WriteEscaped(t) \o x /\ Begins(x, Written(c))
      <4>1. ASSUME NEW a \in Strings, NEW b \in Strings, Begins(w, a \o b)
            PROVE  Begins(w, a) \/ \E x \in Strings : w = a \o x /\ Begins(x, b)
        BY <4>1, BeginsConcat
      <4>2. Begins(w, WriteEscaped(t) \o Written(c))
        BY <2>3, <2>8
      <4>3. QED
        BY <2>3, <4>1, <4>2
    <3>2. QED
      BY <2>6, <2>7, <3>1
  <2>9. QED
    BY <2>3, <2>8
<1>3. Seq(Chars) \subseteq S
  <2>1. \A t \in Seq(Chars), c \in Chars : t \in S => Append(t, c) \in S
    BY <1>2 DEF Strings
  <2> HIDE DEF S
  <2>2. QED
    BY <1>1, <2>1, SequenceInduction
<1>4. QED
  BY <1>3 DEF Strings

\* What is read of a string depends on nothing but the quotation, the blanks and
\* the text so far.
SameText(r, q) ==
    /\ r.quote = q.quote /\ r.was_non_space = q.was_non_space
    /\ r.temporary_spaces = q.temporary_spaces /\ r.oss = q.oss

\* Two readers with the same text go on alike.
LEMMA SameReads ==
  ASSUME NEW r, NEW q, Calm(r), Calm(q), SameText(r, q), NEW text \in Strings
  PROVE  SameText(PushAll(r, WriteEscaped(text)), PushAll(q, WriteEscaped(text)))
<1> DEFINE S == {t \in Strings : SameText(PushAll(r, WriteEscaped(t)), PushAll(q, WriteEscaped(t)))}
<1>1. <<>> \in S
  BY StringsType, WriteEscapedEmpty, PushAllEmpty
<1>2. ASSUME NEW t \in Strings, NEW c \in Chars, t \in S PROVE Append(t, c) \in S
  <2> DEFINE m == PushAll(r, WriteEscaped(t))
             n == PushAll(q, WriteEscaped(t))
             x == PushAll(m, Written(c))
             y == PushAll(n, Written(c))
  <2>1. Calm(m) /\ Calm(n) /\ SameText(m, n)
    BY <1>2, EscapedKeeps
  <2>2. PushAll(r, WriteEscaped(Append(t, c))) = x /\ PushAll(q, WriteEscaped(Append(t, c))) = y
    BY ReadsAppend
  <2> HIDE DEF m, n
  <2>3. Reads(m, c, x) /\ Reads(n, c, y)
    BY <2>1, ReadsWritten
  <2> HIDE DEF x, y
  <2>4. SameText(x, y)
    BY <2>1, <2>3 DEF SameText, Reads, Pushes, Calm, Readers
  <2>5. Append(t, c) \in Strings
    BY StringsType
  <2>6. QED
    BY <2>2, <2>4, <2>5
<1>3. Seq(Chars) \subseteq S
  <2>1. \A t \in Seq(Chars), c \in Chars : t \in S => Append(t, c) \in S
    BY <1>2 DEF Strings
  <2> HIDE DEF S
  <2>2. QED
    BY <1>1, <2>1, SequenceInduction
<1>4. QED
  BY <1>3 DEF Strings

LEMMA RangeAppend ==
  ASSUME NEW t \in Strings, NEW c
  PROVE  Range(Append(t, c)) = Range(t) \cup {c}
<1>1. t \in Seq(Chars)
  BY DEF Strings
<1> DEFINE u == Append(t, c)
<1>2. DOMAIN u = 1 .. Len(t) + 1 /\ DOMAIN t = 1 .. Len(t) /\ u[Len(t) + 1] = c
      /\ \A i \in 1 .. Len(t) : u[i] = t[i]
  BY <1>1
<1> HIDE DEF u
<1>3. Len(t) \in Nat
  BY <1>1
<1>4. Range(u) = Range(t) \cup {c}
  BY <1>2, <1>3 DEF Range
<1>5. QED
  BY <1>4 DEF u

LEMMA RangeEmpty == Range(<<>>) = {}
BY DEF Range

\* Without quotation marks the quotation stays as it is.
LEMMA QuoteKept ==
  ASSUME NEW r, Calm(r), NEW text \in Strings, "quote" \notin Range(text)
  PROVE  PushAll(r, WriteEscaped(text)).quote = r.quote
<1> DEFINE S == {t \in Strings : "quote" \notin Range(t) => PushAll(r, WriteEscaped(t)).quote = r.quote}
<1>1. <<>> \in S
  BY StringsType, WriteEscapedEmpty, PushAllEmpty
<1>2. ASSUME NEW t \in Strings, NEW c \in Chars, t \in S PROVE Append(t, c) \in S
  <2> DEFINE m == PushAll(r, WriteEscaped(t))
             x == PushAll(m, Written(c))
  <2>1. Calm(m)
    BY EscapedKeeps
  <2>2. PushAll(r, WriteEscaped(Append(t, c))) = x
    BY ReadsAppend
  <2>3. Append(t, c) \in Strings
    BY StringsType
  <2>4. "quote" \notin Range(Append(t, c)) => m.quote = r.quote /\ c # "quote"
    BY <1>2, RangeAppend
  <2> HIDE DEF m
  <2>5. Reads(m, c, x)
    BY <2>1, ReadsWritten
  <2> HIDE DEF x
  <2>6. c # "quote" => x.quote = m.quote
    BY <2>1, <2>5 DEF Reads, Pushes, Calm, Readers
  <2>7. QED
    BY <2>2, <2>3, <2>4, <2>6
<1>3. Seq(Chars) \subseteq S
  <2>1. \A t \in Seq(Chars), c \in Chars : t \in S => Append(t, c) \in S
    BY <1>2 DEF Strings
  <2> HIDE DEF S
  <2>2. QED
    BY <1>1, <2>1, SequenceInduction
<1>4. QED
  BY <1>3 DEF Strings

-----------------------------------------------------------------------------
(* Which values are read as they were written.                             *)

ValueStart == [Fresh EXCEPT !.reading_key = FALSE]

\* The reader after a value that was written.
AfterValue(text) == PushAll(ValueStart, WriteEscaped(text))

Meaning(text) == AfterValue(text).oss

LEMMA ValueStartIs ==
  /\ Calm(ValueStart) /\ ~ValueStart.quote /\ ~ValueStart.was_non_space /\ ~ValueStart.reading_key
  /\ ValueStart.temporary_spaces = <<>> /\ ValueStart.oss = <<>>
<1>1. ValueStart \in Readers
  BY FreshType DEF ValueStart, Readers
<1>2. QED
  BY <1>1 DEF ValueStart, Fresh, Calm

LEMMA AfterValueEmpty == AfterValue(<<>>) = ValueStart
BY WriteEscapedEmpty, PushAllEmpty DEF AfterValue

\* The value, character by character.
LEMMA AfterValueAppend ==
  ASSUME NEW t \in Strings, NEW c \in Chars
  PROVE  Calm(AfterValue(t)) /\ Reads(AfterValue(t), c, AfterValue(Append(t, c)))
<1>1. Calm(AfterValue(t))
  BY ValueStartIs, EscapedKeeps DEF AfterValue
<1>2. AfterValue(Append(t, c)) = PushAll(AfterValue(t), Written(c))
  BY ReadsAppend DEF AfterValue
<1>3. QED
  BY <1>1, <1>2, ReadsWritten

LEMMA MeaningType ==
  ASSUME NEW t \in Strings
  PROVE  Meaning(t) \in Strings
<1>1. Calm(AfterValue(t))
  BY ValueStartIs, EscapedKeeps DEF AfterValue
<1>2. QED
  BY <1>1 DEF Meaning, Calm, Readers

\* Induction over the strings, with the reader after them.
LEMMA StringInduction ==
  ASSUME NEW S, <<>> \in S, \A t \in Strings, c \in Chars : t \in S => Append(t, c) \in S
  PROVE  Strings \subseteq S
BY SequenceInduction DEF Strings

Without(c, s) == \A i \in 1 .. Len(s) : s[i] # c

LEMMA WithoutIs ==
  ASSUME NEW s \in Strings, NEW c
  PROVE  Without(c, s) <=> c \notin Range(s)
<1>1. DOMAIN s = 1 .. Len(s)
  BY DEF Strings
<1>2. QED
  BY <1>1 DEF Without, Range

LEMMA WithoutConcat ==
  ASSUME NEW c, NEW s \in Strings, NEW t \in Strings, Without(c, s), Without(c, t)
  PROVE  Without(c, s \o t)
<1> DEFINE u == s \o t
<1>1. Len(s) \in Nat /\ Len(t) \in Nat /\ Len(u) = Len(s) + Len(t)
      /\ (\A i \in 1 .. Len(s) : u[i] = s[i]) /\ (\A i \in 1 .. Len(t) : u[Len(s) + i] = t[i])
  BY DEF Strings
<1> HIDE DEF u
<1>2. ASSUME NEW i \in 1 .. Len(u) PROVE u[i] # c
  <2>1. CASE i <= Len(s)
    BY <1>1, <2>1 DEF Without
  <2>2. CASE i > Len(s)
    <3>1. i - Len(s) \in 1 .. Len(t) /\ Len(s) + (i - Len(s)) = i
      BY <1>1, <2>2
    <3>2. u[i] = t[i - Len(s)]
      BY <1>1, <3>1
    <3>3. QED
      BY <3>1, <3>2 DEF Without
  <2>3. QED
    BY <1>1, <2>1, <2>2
<1>3. QED
  BY <1>2 DEF u, Without

LEMMA WithoutOne ==
  ASSUME NEW c, NEW d, c # d
  PROVE  Without(c, <<d>>) /\ Without(c, <<>>)
BY DEF Without

LEMMA AppendConcat ==
  ASSUME NEW s \in Strings, NEW c \in Chars
  PROVE  Append(s, c) = s \o <<c>> /\ <<c>> \in Strings
BY DEF Strings

\* No quotation mark is read as a character.
LEMMA MeaningQuote ==
  ASSUME NEW text \in Strings
  PROVE  "quote" \notin Range(Meaning(text))
<1> DEFINE S == {t \in Strings : /\ Without("quote", AfterValue(t).oss)
                                 /\ Without("quote", AfterValue(t).temporary_spaces)}
<1>0. "quote" # Blank /\ "quote" \notin Escaped
  BY DEF Blank, Escaped, NewLine
<1>1. <<>> \in S
  <2>1. Without("quote", <<>>)
    BY DEF Without
  <2>2. QED
    BY <2>1, AfterValueEmpty, ValueStartIs, StringsType
<1>2. ASSUME NEW t \in Strings, NEW c \in Chars, t \in S PROVE Append(t, c) \in S
  <2> DEFINE r == AfterValue(t)
             p == AfterValue(Append(t, c))
  <2>1. Calm(r) /\ Reads(r, c, p) /\ Without("quote", r.oss) /\ Without("quote", r.temporary_spaces)
    BY <1>2, AfterValueAppend
  <2> HIDE DEF r, p
  <2>2. r.oss \in Strings /\ r.temporary_spaces \in Strings
    BY <2>1 DEF Calm, Readers
  <2>3. Without("quote", <<>>)
    BY DEF Without
  <2>4. CASE c = "quote"
    BY <1>0, <2>1, <2>4, StringsType DEF Reads, p
  <2>5. CASE c # "quote"
    <3>1. Without("quote", <<c>>) /\ <<c>> \in Strings
      BY <2>5, WithoutOne, AppendConcat, StringsType
    <3>2. Without("quote", r.oss \o <<c>>)
      BY <2>1, <2>2, <3>1, WithoutConcat
    <3>3. Without("quote", r.temporary_spaces \o <<c>>)
      BY <2>1, <2>2, <3>1, WithoutConcat
    <3>4. Without("quote", (r.oss \o r.temporary_spaces) \o <<c>>)
      <4>1. Without("quote", r.oss \o r.temporary_spaces) /\ r.oss \o r.temporary_spaces \in Strings
        BY <2>1, <2>2, WithoutConcat, StringsType
      <4>2. QED
        BY <3>1, <4>1, WithoutConcat
    <3>5. Append(r.oss, c) = r.oss \o <<c>> /\ Append(r.temporary_spaces, c) = r.temporary_spaces \o <<c>>
      BY <2>2, AppendConcat
    <3>6. Without("quote", p.oss) /\ Without("quote", p.temporary_spaces)
      <4>1. CASE c \in Escaped
        BY <2>1, <3>2, <3>5, <4>1 DEF Reads
      <4>2. CASE c = Blank /\ ~r.was_non_space
        BY <2>1, <4>2 DEF Reads
      <4>3. CASE c = Blank /\ r.was_non_space /\ ~r.quote
        BY <2>1, <3>3, <3>5, <4>3 DEF Reads
      <4>4. CASE c \notin Escaped /\ (c = Blank => r.was_non_space /\ r.quote)
        BY <2>1, <2>3, <2>5, <3>4, <4>4 DEF Reads, Pushes
      <4>5. QED
        BY <1>0, <4>1, <4>2, <4>3, <4>4
    <3>7. QED
      BY <3>6, StringsType DEF p
  <2>6. QED
    BY <2>4, <2>5
<1>3. text \in S
  <2> HIDE DEF S
  <2>1. QED
    BY <1>1, <1>2, StringInduction
<1>4. QED
  BY <1>3, MeaningType, WithoutIs DEF Meaning

\* No blank is read as the first character of a value without quotation marks.
LEMMA MeaningHead ==
  ASSUME NEW text \in Strings, "quote" \notin Range(text)
  PROVE  Meaning(text) # <<>> => Meaning(text)[1] # Blank
<1> DEFINE Fine(r) == /\ ~r.quote
                      /\ ~r.was_non_space => r.oss = <<>> /\ r.temporary_spaces = <<>>
                      /\ r.was_non_space => r.oss # <<>> /\ r.oss[1] # Blank
           S == {t \in Strings : "quote" \notin Range(t) => Fine(AfterValue(t))}
<1>0. Blank \notin Escaped
  BY DEF Blank, Escaped, NewLine
<1>1. <<>> \in S
  BY AfterValueEmpty, ValueStartIs, StringsType
<1>2. ASSUME NEW t \in Strings, NEW c \in Chars, t \in S PROVE Append(t, c) \in S
  <2> DEFINE r == AfterValue(t)
             p == AfterValue(Append(t, c))
  <2>1. SUFFICES ASSUME "quote" \notin Range(Append(t, c)) PROVE Fine(p)
    BY StringsType
  <2>2. "quote" \notin Range(t) /\ c # "quote"
    BY <2>1, RangeAppend
  <2>3. Calm(r) /\ Reads(r, c, p) /\ Fine(r)
    BY <1>2, <2>2, AfterValueAppend
  <2> HIDE DEF r, p
  <2>4. r.oss \in Strings /\ r.temporary_spaces \in Strings /\ p.was_non_space \in BOOLEAN
    BY <2>3 DEF Calm, Readers, Reads
  <2>5. ASSUME NEW o \in Strings, o # <<>>, o[1] # Blank, NEW w \in Strings
        PROVE  /\ Append(o, c) # <<>> /\ Append(o, c)[1] # Blank
               /\ (o \o w) \o <<c>> # <<>> /\ ((o \o w) \o <<c>>)[1] # Blank
    <3>1. o \in Seq(Chars) /\ Len(o) # 0 /\ w \in Seq(Chars)
      BY <2>5 DEF Strings
    <3>2. Append(o, c) # <<>> /\ Append(o, c)[1] = o[1]
      BY <3>1
    <3>3. (o \o w) \in Seq(Chars) /\ (o \o w)[1] = o[1] /\ Len(o \o w) > 0
      BY <3>1
    <3>4. ASSUME NEW x \in Seq(Chars), Len(x) > 0 PROVE x \o <<c>> # <<>> /\ (x \o <<c>>)[1] = x[1]
      BY <3>4
    <3>5. QED
      BY <2>5, <3>2, <3>3, <3>4
  <2>6. /\ Append(<<>>, c) # <<>> /\ Append(<<>>, c)[1] = c
        /\ (<<>> \o <<>>) \o <<c>> # <<>> /\ ((<<>> \o <<>>) \o <<c>>)[1] = c
    <3>1. Append(<<>>, c) = <<c>> /\ (<<>> \o <<>>) \o <<c>> = <<c>>
      OBVIOUS
    <3>2. <<c>> # <<>> /\ <<c>>[1] = c
      OBVIOUS
    <3>3. QED
      BY <3>1, <3>2
  <2>7. CASE c = Blank
    BY <1>0, <2>3, <2>7 DEF Reads
  <2>8. CASE c # Blank
    <3>1. ~p.quote /\ p.was_non_space
          /\ (p.oss = Append(r.oss, c) \/ p.oss = (r.oss \o r.temporary_spaces) \o <<c>>)
      BY <2>2, <2>3, <2>8 DEF Reads, Pushes
    <3>2. CASE r.was_non_space
      BY <2>3, <2>4, <2>5, <3>1, <3>2
    <3>3. CASE ~r.was_non_space
      <4>1. p.oss # <<>> /\ p.oss[1] = c
        BY <2>3, <2>6, <3>1, <3>3
      <4>2. QED
        BY <2>8, <3>1, <4>1
    <3>4. QED
      BY <3>2, <3>3
  <2>9. QED
    BY <2>7, <2>8
<1>3. text \in S
  <2> HIDE DEF S
  <2>1. QED
    BY <1>1, <1>2, StringInduction
<1>4. QED
  BY <1>3 DEF Meaning

\* No blank in front of a character that the writer escapes.
Tidy(t) == \A i \in 1 .. Len(t) - 1 : t[i] = Blank => t[i + 1] \notin Escaped

\* All of t has been read, but for the blanks at its end.
ReadSoFar(t, oss, spaces) ==
    /\ t = oss \o spaces
    /\ \A i \in 1 .. Len(spaces) : spaces[i] = Blank
    /\ oss # <<>> => oss[Len(oss)] # Blank
    /\ t # <<>> => oss # <<>>

\* A character has been read in the place of another one.
Displaced(t, oss) == \E k \in 1 .. Len(oss) : k <= Len(t) /\ oss[k] # t[k]

LEMMA TidyAppend ==
  ASSUME NEW t \in Strings, NEW c
  PROVE  Tidy(Append(t, c)) <=> Tidy(t) /\ (t # <<>> /\ t[Len(t)] = Blank => c \notin Escaped)
<1> DEFINE u == Append(t, c)
           n == Len(t)
<1>1. n \in Nat /\ Len(u) = n + 1 /\ u[n + 1] = c /\ (\A i \in 1 .. n : u[i] = t[i])
      /\ (t # <<>> <=> n # 0)
  BY DEF Strings
<1> HIDE DEF u, n
<1>2. ASSUME Tidy(u) PROVE Tidy(t) /\ (t # <<>> /\ t[n] = Blank => c \notin Escaped)
  <2>1. \A i \in 1 .. n : u[i] = Blank => u[i + 1] \notin Escaped
    BY <1>1, <1>2 DEF Tidy
  <2>2. ASSUME NEW i \in 1 .. n - 1, t[i] = Blank PROVE t[i + 1] \notin Escaped
    <3>1. i \in 1 .. n /\ i + 1 \in 1 .. n
      BY <1>1
    <3>2. QED
      BY <1>1, <2>1, <2>2, <3>1
  <2>3. ASSUME t # <<>>, t[n] = Blank PROVE c \notin Escaped
    <3>1. n \in 1 .. n
      BY <1>1, <2>3
    <3>2. QED
      BY <1>1, <2>1, <2>3, <3>1
  <2>4. QED
    BY <2>2, <2>3 DEF Tidy, n
<1>3. ASSUME Tidy(t), t # <<>> /\ t[n] = Blank => c \notin Escaped PROVE Tidy(u)
  <2>1. ASSUME NEW i \in 1 .. n, u[i] = Blank PROVE u[i + 1] \notin Escaped
    <3>1. CASE i = n
      BY <1>1, <1>3, <2>1, <3>1
    <3>2. CASE i # n
      <4>1. i \in 1 .. n - 1 /\ i + 1 \in 1 .. n
        BY <1>1, <3>2
      <4>2. u[i] = t[i] /\ u[i + 1] = t[i + 1]
        BY <1>1, <4>1
      <4>3. QED
        BY <1>3, <2>1, <4>1, <4>2 DEF Tidy, n
    <3>3. QED
      BY <3>1, <3>2
  <2>2. QED
    BY <1>1, <2>1 DEF Tidy
<1>4. QED
  BY <1>2, <1>3 DEF u, n

LEMMA DisplacedGrows ==
  ASSUME NEW t \in Strings, NEW oss \in Strings, NEW c, NEW o \in Strings, Begins(oss, o),
         Displaced(t, oss)
  PROVE  Displaced(Append(t, c), o)
<1>1. PICK k \in 1 .. Len(oss) : k <= Len(t) /\ oss[k] # t[k]
  BY DEF Displaced
<1>2. PICK u \in Strings : o = oss \o u
  BY DEF Begins
<1> DEFINE x == oss \o u
           y == Append(t, c)
<1>3. Len(oss) \in Nat /\ Len(x) >= Len(oss) /\ (\A i \in 1 .. Len(oss) : x[i] = oss[i]) /\ Len(x) \in Nat
  BY DEF Strings
<1>4. Len(t) \in Nat /\ Len(y) = Len(t) + 1 /\ (\A i \in 1 .. Len(t) : y[i] = t[i])
  BY DEF Strings
<1>5. o = x
  BY <1>2
<1> HIDE DEF x, y
<1>6. k \in 1 .. Len(o) /\ o[k] = oss[k]
  BY <1>1, <1>3, <1>5
<1>7. k <= Len(y) /\ y[k] = t[k]
  BY <1>1, <1>3, <1>4
<1>8. Displaced(y, o)
  BY <1>1, <1>6, <1>7 DEF Displaced
<1>9. QED
  BY <1>8 DEF y

\* A character that is escaped comes in front of the blanks before it.
LEMMA DisplacedBy ==
  ASSUME NEW oss \in Strings, NEW spaces \in Strings, spaces # <<>>, spaces[1] = Blank,
         NEW c \in Escaped
  PROVE  Displaced(Append(oss \o spaces, c), Append(oss, c))
<1> DEFINE t == oss \o spaces
           n == Len(oss)
           x == Append(t, c)
           o == Append(oss, c)
<1>0. Blank \notin Escaped
  BY DEF Blank, Escaped, NewLine
<1>1. n \in Nat /\ Len(spaces) \in Nat /\ Len(spaces) # 0
  BY DEF Strings
<1>2. t \in Seq(Chars) /\ Len(t) = n + Len(spaces) /\ t[n + 1] = spaces[1]
  BY <1>1, ConcatProperties DEF Strings
<1>3. Len(o) = n + 1 /\ o[n + 1] = c
  BY DEF Strings
<1> HIDE DEF t
<1>4. x[n + 1] = t[n + 1] /\ Len(x) = Len(t) + 1
  BY <1>1, <1>2
<1> HIDE DEF x, o, n
<1>5. n + 1 \in 1 .. Len(o) /\ n + 1 <= Len(x) /\ o[n + 1] # x[n + 1]
  BY <1>0, <1>1, <1>2, <1>3, <1>4
<1>6. Displaced(x, o)
  BY <1>5 DEF Displaced
<1>7. QED
  BY <1>6 DEF x, o, t

LEMMA LastOf ==
  ASSUME NEW oss \in Strings, NEW spaces \in Strings, spaces # <<>>
  PROVE  (oss \o spaces)[Len(oss \o spaces)] = spaces[Len(spaces)] /\ oss \o spaces # <<>>
         /\ oss \o spaces # oss
<1>1. Len(spaces) \in Nat /\ Len(spaces) # 0 /\ Len(oss) \in Nat
      /\ oss \in Seq(Chars) /\ spaces \in Seq(Chars)
  BY DEF Strings
<1>2. Len(oss \o spaces) = Len(oss) + Len(spaces)
  BY <1>1
<1>3. (oss \o spaces)[Len(oss) + Len(spaces)] = spaces[Len(spaces)]
  BY <1>1, ConcatProperties
<1>4. oss \o spaces # <<>> /\ oss \o spaces # oss
  <2>1. Len(<<>>) = 0
    OBVIOUS
  <2>2. QED
    BY <1>1, <1>2, <2>1
<1>5. QED
  BY <1>2, <1>3, <1>4

\* A value without quotation marks and blanks before it, character by character.
LEMMA MeaningTidy ==
  ASSUME NEW text \in Strings, "quote" \notin Range(text), text # <<>> => text[1] # Blank
  PROVE  LET r == AfterValue(text)
         IN  (Tidy(text) => ReadSoFar(text, r.oss, r.temporary_spaces))
             /\ (~Tidy(text) => Displaced(text, r.oss))
<1> DEFINE Fine(t, r) == /\ ~r.quote /\ (t # <<>> => r.was_non_space)
                         /\ Tidy(t) => ReadSoFar(t, r.oss, r.temporary_spaces)
                         /\ ~Tidy(t) => Displaced(t, r.oss)
           S == {t \in Strings : "quote" \notin Range(t) /\ (t # <<>> => t[1] # Blank)
                                    => Fine(t, AfterValue(t))}
<1>0. Blank \notin Escaped
  BY DEF Blank, Escaped, NewLine
<1>1. <<>> \in S
  <2>1. Tidy(<<>>) /\ ReadSoFar(<<>>, <<>>, <<>>)
    BY DEF Tidy, ReadSoFar
  <2>2. QED
    BY <2>1, AfterValueEmpty, ValueStartIs, StringsType
<1>2. ASSUME NEW t \in Strings, NEW c \in Chars, t \in S PROVE Append(t, c) \in S
  <2> DEFINE u == Append(t, c)
             r == AfterValue(t)
             p == AfterValue(u)
             oss == r.oss
             spaces == r.temporary_spaces
  <2>0. u \in Strings /\ u = t \o <<c>> /\ <<c>> \in Strings
    BY StringsType, AppendConcat
  <2>1. SUFFICES ASSUME "quote" \notin Range(u), u # <<>> => u[1] # Blank PROVE Fine(u, p)
    BY <2>0
  <2>2. "quote" \notin Range(t) /\ c # "quote"
    BY <2>1, RangeAppend
  <2>3. (t # <<>> => t[1] # Blank) /\ (t = <<>> => c # Blank)
    <3>1. t # <<>> => u[1] = t[1] /\ u # <<>>
      BY DEF Strings
    <3>2. t = <<>> => u[1] = c /\ u # <<>>
      OBVIOUS
    <3>3. QED
      BY <2>1, <3>1, <3>2
  <2>4. Calm(r) /\ Reads(r, c, p) /\ Fine(t, r)
    BY <1>2, <2>2, <2>3, AfterValueAppend
  <2>5. Tidy(u) <=> Tidy(t) /\ (t # <<>> /\ t[Len(t)] = Blank => c \notin Escaped)
    BY TidyAppend
  <2> HIDE DEF r, p, u
  <2>6. oss \in Strings /\ spaces \in Strings /\ p.oss \in Strings /\ Begins(oss, p.oss)
        /\ p.temporary_spaces \in Strings
    BY <2>4, ReadsGrow DEF Calm, Readers, Reads
  <2>7. ~p.quote /\ p.was_non_space
    BY <2>2, <2>3, <2>4 DEF Reads, Pushes, Calm, Readers
  <2>8. CASE ~Tidy(t)
    <3>1. Displaced(u, p.oss)
      BY <2>4, <2>6, <2>8, DisplacedGrows DEF u
    <3>2. QED
      BY <2>5, <2>7, <2>8, <3>1
  <2>9. CASE Tidy(t)
    <3>1. ReadSoFar(t, oss, spaces)
      BY <2>4, <2>9
    <3> HIDE DEF oss, spaces
    <3>2. t = oss \o spaces /\ \A i \in 1 .. Len(spaces) : spaces[i] = Blank
      BY <3>1 DEF ReadSoFar
    <3>3. CASE c = Blank
      <4>1. t # <<>> /\ r.was_non_space /\ oss # <<>>
        BY <2>3, <2>4, <3>1, <3>3 DEF ReadSoFar
      <4>2. p.oss = oss /\ p.temporary_spaces = Append(spaces, Blank)
        BY <2>4, <3>3, <4>1 DEF Reads, oss, spaces
      <4>3. u = oss \o Append(spaces, Blank)
        <5>1. \A x, y \in Seq(Chars) : Append(x \o y, Blank) = x \o Append(y, Blank)
          BY SpecialChars
        <5>2. QED
          BY <2>6, <3>2, <3>3, <5>1 DEF u, Strings, oss, spaces
      <4>4. \A i \in 1 .. Len(Append(spaces, Blank)) : Append(spaces, Blank)[i] = Blank
        <5>1. spaces \in Seq(Chars)
          BY <2>6 DEF Strings, spaces
        <5>2. QED
          BY <3>2, <5>1
      <4>5. ReadSoFar(u, p.oss, p.temporary_spaces)
        BY <3>1, <4>1, <4>2, <4>3, <4>4 DEF ReadSoFar
      <4>6. QED
        BY <1>0, <2>5, <2>7, <2>9, <3>3, <4>5
    <3>4. CASE c \in Escaped
      <4>1. p.oss = Append(oss, c) /\ p.temporary_spaces = spaces
        BY <2>4, <3>4 DEF Reads, oss, spaces
      <4>2. CASE spaces = <<>>
        <5>1. t = oss
          BY <2>6, <3>2, <4>2 DEF Strings, oss
        <5>2. Tidy(u)
          BY <2>5, <2>9, <3>1, <5>1 DEF ReadSoFar
        <5>3. u = p.oss
          BY <4>1, <5>1 DEF u
        <5>4. ReadSoFar(u, p.oss, p.temporary_spaces)
          <6>1. u = u \o <<>>
            BY <2>0 DEF Strings
          <6>2. u[Len(u)] = c /\ c # Blank
            BY <1>0, <3>4 DEF u, Strings
          <6>3. QED
            BY <4>1, <4>2, <5>3, <6>1, <6>2 DEF ReadSoFar
        <5>5. QED
          BY <2>7, <5>2, <5>4
      <4>3. CASE spaces # <<>>
        <5>1. spaces[1] = Blank /\ spaces[Len(spaces)] = Blank
          <6>1. 1 \in 1 .. Len(spaces) /\ Len(spaces) \in 1 .. Len(spaces)
            BY <2>6, <4>3 DEF Strings, spaces
          <6>2. QED
            BY <3>2, <6>1
        <5>2. t # <<>> /\ t[Len(t)] = Blank
          BY <2>6, <3>2, <4>3, <5>1, LastOf DEF oss, spaces
        <5>3. ~Tidy(u)
          BY <2>5, <3>4, <5>2
        <5>4. Displaced(u, p.oss)
          BY <2>6, <3>2, <3>4, <4>1, <4>3, <5>1, DisplacedBy DEF u, oss, spaces
        <5>5. QED
          BY <2>7, <5>3, <5>4
      <4>4. QED
        BY <4>2, <4>3
    <3>5. CASE c # Blank /\ c \notin Escaped
      <4>1. p.oss = (oss \o spaces) \o <<c>> /\ p.temporary_spaces = <<>>
        BY <2>2, <2>4, <3>5 DEF Reads, Pushes, oss, spaces
      <4>2. p.oss = u
        BY <2>0, <3>2, <4>1
      <4>3. Tidy(u)
        BY <2>5, <2>9, <3>5
      <4>4. ReadSoFar(u, p.oss, p.temporary_spaces)
        <5>1. u = u \o <<>>
          BY <2>0 DEF Strings
        <5>2. u[Len(u)] = c
          BY DEF u, Strings
        <5>3. QED
          BY <3>5, <4>1, <4>2, <5>1, <5>2 DEF ReadSoFar
      <4>5. QED
        BY <2>7, <4>3, <4>4
    <3>6. QED
      BY <3>3, <3>4, <3>5
  <2>10. QED
    BY <2>8, <2>9
<1>3. text \in S
  <2> HIDE DEF S
  <2>1. QED
    BY <1>1, <1>2, StringInduction
<1>4. QED
  BY <1>3

\* Exactly the safe values are read as they were written.
LEMMA SafeMeaning ==
  ASSUME NEW text \in Strings
  PROVE  Meaning(text) = text <=> Safe(text)
<1>0. text \in Seq(Chars) /\ Len(text) \in Nat
  BY DEF Strings
<1>1. Safe(text) <=> /\ "quote" \notin Range(text)
                     /\ text # <<>> => text[1] # Blank /\ text[Len(text)] # Blank
                     /\ Tidy(text)
  BY <1>0 DEF Safe, Tidy, Last
<1>2. CASE "quote" \in Range(text)
  BY <1>1, <1>2, MeaningQuote
<1>3. CASE "quote" \notin Range(text) /\ text # <<>> /\ text[1] = Blank
  <2>1. Meaning(text) # text
    BY <1>3, MeaningHead
  <2>2. QED
    BY <1>1, <1>3, <2>1
<1>4. CASE "quote" \notin Range(text) /\ (text # <<>> => text[1] # Blank)
  <2> DEFINE oss == AfterValue(text).oss
             spaces == AfterValue(text).temporary_spaces
  <2>1. /\ Tidy(text) => ReadSoFar(text, oss, spaces)
        /\ ~Tidy(text) => Displaced(text, oss)
    BY <1>4, MeaningTidy
  <2>2. oss = Meaning(text)
    BY DEF Meaning
  <2>3. oss \in Strings /\ spaces \in Strings
    <3>1. Calm(AfterValue(text))
      BY ValueStartIs, EscapedKeeps DEF AfterValue
    <3>2. QED
      BY <3>1 DEF Calm, Readers
  <2> HIDE DEF oss, spaces
  <2>4. CASE ~Tidy(text)
    <3>1. oss # text
      BY <2>1, <2>4 DEF Displaced
    <3>2. QED
      BY <1>1, <2>2, <2>4, <3>1
  <2>5. CASE Tidy(text)
    <3>1. /\ text = oss \o spaces /\ \A i \in 1 .. Len(spaces) : spaces[i] = Blank
          /\ oss # <<>> => oss[Len(oss)] # Blank
          /\ text # <<>> => oss # <<>>
      BY <2>1, <2>5 DEF ReadSoFar
    <3>2. CASE spaces = <<>>
      <4>1. text = oss
        BY <2>3, <3>1, <3>2 DEF Strings
      <4>2. QED
        BY <1>1, <1>4, <2>2, <2>5, <3>1, <4>1
    <3>3. CASE spaces # <<>>
      <4>1. text # oss /\ text # <<>> /\ text[Len(text)] = spaces[Len(spaces)]
        BY <2>3, <3>1, <3>3, LastOf
      <4>2. spaces[Len(spaces)] = Blank
        <5>1. Len(spaces) \in 1 .. Len(spaces)
          BY <2>3, <3>3 DEF Strings
        <5>2. QED
          BY <3>1, <5>1
      <4>3. QED
        BY <1>1, <2>2, <4>1, <4>2
    <3>4. QED
      BY <3>2, <3>3
  <2>6. QED
    BY <2>4, <2>5
<1>5. QED
  BY <1>2, <1>3, <1>4

-----------------------------------------------------------------------------
(* One line of the file.                                                   *)

\* At the start of a line.  A quotation that no line closed, and the blanks that
\* it had left, may still be there.
LineStart(r) == Calm(r) /\ r.reading_key /\ r.oss = <<>>

Clean(r) == ~r.quote /\ ~r.was_non_space /\ r.temporary_spaces = <<>>

\* Within a line of the setting s: before its value, or with a part of it; or
\* nothing that is read here will be found to be a setting.
InLine(r, s, text) ==
    ~r.reading_key => /\ Begins(r.oss, Meaning(text))
                      /\ \A n \in Settings : r.stored_key = <<n>> => n = s

LEMMA FreshStart ==
  /\ LineStart(Fresh) /\ Clean(Fresh) /\ Fresh.read = Defaults
BY FreshType DEF LineStart, Clean, Calm, Fresh

\* A key that has blanks before a name is no name.
LEMMA KeyLength ==
  ASSUME NEW k \in Strings, NEW s, NEW n, k \o <<s>> = <<n>>
  PROVE  s = n
<1> DEFINE x == k \o <<s>>
           y == <<n>>
<1>1. Len(x) = Len(k) + 1 /\ x[Len(k) + 1] = s /\ Len(k) \in Nat
  BY ConcatProperties DEF Strings
<1>2. Len(y) = 1 /\ y[1] = n
  OBVIOUS
<1>3. x = y
  OBVIOUS
<1> HIDE DEF x, y
<1>4. Len(k) + 1 = 1
  BY <1>1, <1>2, <1>3
<1>5. QED
  BY <1>1, <1>2, <1>3, <1>4

\* The name, and the sign after it.
LEMMA ReadsName ==
  ASSUME NEW r, LineStart(r), NEW s \in Settings
  PROVE  LET k == PushChar(r, s)
             p == PushChar(k, "=")
         IN  /\ k \in Readers /\ ~k.comment /\ k.reading_key /\ k.read = r.read
             /\ Calm(p) /\ p.read = r.read /\ p.quote = r.quote
             /\ r.quote => p.reading_key
             /\ ~r.quote => /\ ~p.reading_key /\ SameText(p, ValueStart)
                            /\ \A n \in Settings : p.stored_key = <<n>> => n = s
                            /\ Clean(r) => p.stored_key = <<s>>
<1> DEFINE k == PushChar(r, s)
           p == PushChar(k, "=")
<1>1. s \in Chars \ Escaped /\ s # "quote" /\ s # Blank
  BY NamesAssumption DEF Chars
<1>2. Calm(k) /\ Within(r, k) /\ Pushes(r, s, k)
  BY <1>1, PushText DEF LineStart
<1>3. k.quote = r.quote /\ k.reading_key /\ k.read = r.read
      /\ k.oss = (<<>> \o r.temporary_spaces) \o <<s>>
  BY <1>2 DEF Within, Pushes, LineStart
<1> HIDE DEF k
<1>4. /\ Calm(p) /\ p.read = k.read /\ p.quote = k.quote
      /\ k.quote => p.reading_key
      /\ ~k.quote => /\ ~p.reading_key /\ p.stored_key = k.oss /\ ~p.was_non_space
                     /\ p.oss = <<>> /\ p.temporary_spaces = <<>>
  BY <1>2, <1>3, PushEquals
<1> HIDE DEF p
<1>5. r.temporary_spaces \in Strings
  BY DEF LineStart, Calm, Readers
<1>6. k.oss = r.temporary_spaces \o <<s>>
  <2>1. \A t \in Strings : <<>> \o t = t
    BY DEF Strings
  <2>2. QED
    BY <1>3, <1>5, <2>1
<1>7. \A n \in Settings : k.oss = <<n>> => n = s
  BY <1>5, <1>6, KeyLength
<1>8. Clean(r) => k.oss = <<s>>
  BY <1>6 DEF Clean
<1>9. ~r.quote => SameText(p, ValueStart)
  <2>1. p.quote \in BOOLEAN /\ p.was_non_space \in BOOLEAN /\ ValueStart.quote \in BOOLEAN
        /\ ValueStart.was_non_space \in BOOLEAN
    BY <1>4, ValueStartIs DEF Calm, Readers
  <2>2. QED
    BY <1>3, <1>4, <2>1, ValueStartIs DEF SameText
<1>10. QED
  BY <1>2, <1>3, <1>4, <1>7, <1>8, <1>9 DEF Calm, k, p

\* The value after it.
LEMMA ReadsValue ==
  ASSUME NEW r, Calm(r), ~r.reading_key => SameText(r, ValueStart), NEW text \in Strings
  PROVE  LET p == PushAll(r, WriteEscaped(text))
         IN  /\ Calm(p) /\ Within(r, p)
             /\ ~r.reading_key => p.oss = Meaning(text)
<1>1. Calm(PushAll(r, WriteEscaped(text))) /\ Within(r, PushAll(r, WriteEscaped(text)))
  BY EscapedKeeps
<1>2. ~r.reading_key => SameText(PushAll(r, WriteEscaped(text)), AfterValue(text))
  BY ValueStartIs, SameReads DEF AfterValue
<1>3. QED
  BY <1>1, <1>2 DEF SameText, Meaning

\* A whole line.
LEMMA ReadsLine ==
  ASSUME NEW r, LineStart(r), NEW s \in Settings, NEW text \in Strings
  PROVE  LET p == PushAll(r, Write(s, text))
         IN  /\ LineStart(p)
             /\ p.read = r.read \/ p.read = OnReadKeyValue(r.read, <<s>>, Meaning(text))
             /\ Clean(r) => /\ p.read = OnReadKeyValue(r.read, <<s>>, Meaning(text))
                            /\ "quote" \notin Range(text) => Clean(p)
<1> DEFINE k == PushChar(r, s)
           e == PushChar(k, "=")
           v == PushAll(e, WriteEscaped(text))
           p == PushChar(v, NewLine)
<1>1. PushAll(r, Write(s, text)) = p
  <2>1. s \in Chars /\ "=" \in Chars /\ NewLine \in Chars
    BY SpecialChars
  <2>2. PushAll(r, <<s>> \o <<"=">>) = e
    <3>1. <<s>> \in Seq(Chars) /\ <<"=">> \in Seq(Chars)
      BY <2>1
    <3>2. ASSUME NEW a \in Seq(Chars), NEW b \in Seq(Chars)
          PROVE  PushAll(r, a \o b) = PushAll(PushAll(r, a), b)
      BY PushAllConcat
    <3>3. QED
      BY <2>1, <3>1, <3>2, PushOne
  <2>3. PushAll(r, (<<s>> \o <<"=">>) \o WriteEscaped(text)) = v
    <3>1. <<s>> \o <<"=">> \in Seq(Chars) /\ WriteEscaped(text) \in Seq(Chars)
      BY <2>1, WriteEscapedType DEF Strings
    <3>2. ASSUME NEW a \in Seq(Chars), NEW b \in Seq(Chars)
          PROVE  PushAll(r, a \o b) = PushAll(PushAll(r, a), b)
      BY PushAllConcat
    <3>3. QED
      BY <2>2, <3>1, <3>2
  <2>4. PushAll(r, ((<<s>> \o <<"=">>) \o WriteEscaped(text)) \o <<NewLine>>) = p
    <3>1. (<<s>> \o <<"=">>) \o WriteEscaped(text) \in Seq(Chars) /\ <<NewLine>> \in Seq(Chars)
      BY <2>1, WriteEscapedType DEF Strings
    <3>2. ASSUME NEW a \in Seq(Chars), NEW b \in Seq(Chars)
          PROVE  PushAll(r, a \o b) = PushAll(PushAll(r, a), b)
      BY PushAllConcat
    <3>3. PushAll(v, <<NewLine>>) = p
      BY <2>1, PushOne
    <3>4. QED
      BY <2>3, <3>1, <3>2, <3>3
  <2>5. QED
    BY <2>4, WriteName DEF Write
<1>2. /\ Calm(e) /\ e.read = r.read /\ e.quote = r.quote
      /\ r.quote => e.reading_key
      /\ ~r.quote => /\ ~e.reading_key /\ SameText(e, ValueStart)
                     /\ \A n \in Settings : e.stored_key = <<n>> => n = s
                     /\ Clean(r) => e.stored_key = <<s>>
  BY ReadsName
<1> HIDE DEF e
<1>3. Calm(v) /\ Within(e, v) /\ (~e.reading_key => v.oss = Meaning(text))
  BY <1>2, ReadsValue
<1>4. "quote" \notin Range(text) => v.quote = e.quote
  BY <1>2, QuoteKept
<1> HIDE DEF v
<1>5. /\ Calm(p) /\ p.quote = v.quote /\ p.reading_key /\ p.oss = <<>>
      /\ v.reading_key => p.read = v.read
      /\ ~v.reading_key => /\ p.read = OnReadKeyValue(v.read, v.stored_key, v.oss)
                           /\ ~p.was_non_space /\ p.temporary_spaces = <<>>
  BY <1>3, PushNewLine
<1> HIDE DEF p
<1>6. LineStart(p)
  BY <1>5 DEF LineStart
<1>7. r.read \in Values /\ r.quote \in BOOLEAN /\ e.reading_key \in BOOLEAN
  BY <1>2 DEF LineStart, Calm, Readers
<1>8. CASE e.reading_key
  <2>1. r.quote
    BY <1>2, <1>8
  <2>2. p.read = r.read
    BY <1>2, <1>3, <1>5, <1>8 DEF Within
  <2>3. QED
    BY <1>1, <1>6, <2>1, <2>2 DEF Clean
<1>9. CASE ~e.reading_key
  <2>1. /\ ~r.quote /\ p.read = OnReadKeyValue(r.read, e.stored_key, Meaning(text))
        /\ ~p.was_non_space /\ p.temporary_spaces = <<>>
    BY <1>2, <1>3, <1>5, <1>7, <1>9 DEF Within
  <2>2. Clean(r) => e.stored_key = <<s>>
    BY <1>2, <2>1
  <2>3. p.read = r.read \/ p.read = OnReadKeyValue(r.read, <<s>>, Meaning(text))
    <3>1. CASE e.stored_key = <<s>>
      BY <2>1, <3>1
    <3>2. CASE e.stored_key # <<s>>
      <4>1. \A n \in Settings : e.stored_key # <<n>>
        BY <1>2, <2>1, <3>2
      <4>2. OnReadKeyValue(r.read, e.stored_key, Meaning(text)) = [n \in Settings |-> r.read[n]]
        BY <4>1 DEF OnReadKeyValue
      <4>3. r.read = [n \in Settings |-> r.read[n]]
        BY <1>7 DEF Values
      <4>4. QED
        BY <2>1, <4>2, <4>3
    <3>3. QED
      BY <3>1, <3>2
  <2>4. "quote" \notin Range(text) => Clean(p)
    BY <1>2, <1>4, <1>5, <2>1 DEF Clean
  <2>5. QED
    BY <1>1, <1>6, <2>1, <2>2, <2>3, <2>4
<1>10. QED
  BY <1>7, <1>8, <1>9

\* A line that is cut.
LEMMA BeginsOne ==
  ASSUME NEW c \in Chars, NEW w \in Strings, Begins(w, <<c>>)
  PROVE  w = <<>> \/ w = <<c>>
<1>1. PICK u \in Strings : <<c>> = w \o u
  BY DEF Begins
<1>2. w \in Seq(Chars) /\ u \in Seq(Chars) /\ Len(w) \in Nat /\ Len(u) \in Nat
  BY DEF Strings
<1>3. Len(w \o u) = Len(w) + Len(u) /\ Len(<<c>>) = 1
  BY <1>2
<1>4. Len(w) + Len(u) = 1
  BY <1>1, <1>3
<1>5. CASE Len(w) = 0
  BY <1>2, <1>5
<1>6. CASE Len(w) = 1
  <2>1. u = <<>>
    BY <1>2, <1>4, <1>6
  <2>2. w \o u = w
    BY <1>2, <2>1
  <2>3. QED
    BY <1>1, <2>2
<1>7. \A k, l \in Nat : k + l = 1 => k = 0 \/ k = 1
  OBVIOUS
<1>8. QED
  BY <1>2, <1>4, <1>5, <1>6, <1>7, Zenon

\* PushAllConcat for texts.
LEMMA Splitting ==
  ASSUME NEW r, NEW a \in Strings, NEW b \in Strings
  PROVE  PushAll(r, a \o b) = PushAll(PushAll(r, a), b)
BY PushAllConcat DEF Strings

\* The three parts of a line.
LEMMA LineParts ==
  ASSUME NEW s \in Settings, NEW text \in Strings, NEW q \in Strings, Begins(q, Write(s, text)),
         q # Write(s, text)
  PROVE  \/ q = <<>> \/ q = <<s>>
         \/ \E w \in Strings : q = (<<s>> \o <<"=">>) \o w /\ Begins(w, WriteEscaped(text))
<1> DEFINE name == <<s>>
           sign == <<"=">>
           end == <<NewLine>>
           written == WriteEscaped(text)
<1>1. name \in Strings /\ sign \in Strings /\ end \in Strings /\ written \in Strings
  BY SpecialChars, WriteEscapedType DEF Strings
<1>2. Write(s, text) = ((name \o sign) \o written) \o end
  BY WriteName DEF Write
<1>3. s \in Chars /\ "=" \in Chars /\ NewLine \in Chars
  BY SpecialChars
<1>4. (name \o sign) \in Strings /\ (name \o sign) \o written \in Strings
  BY <1>1, StringsType
<1>5. \A w \in Strings : w \o <<>> = w
  BY DEF Strings
<1>6. \A w \in Strings : Begins(w, name) => w = <<>> \/ w = name
  BY <1>3, BeginsOne
<1>7. \A w \in Strings : Begins(w, sign) => w = <<>> \/ w = sign
  BY <1>3, BeginsOne
<1>8. \A w \in Strings : Begins(w, end) => w = <<>> \/ w = end
  BY <1>3, BeginsOne
<1>9. \A w \in Strings : Begins(<<>>, w) /\ Begins(w, w)
  BY BeginsSelf
<1> HIDE DEF name, sign, end, written
<1>10. \A a, b \in Strings : Begins(q, a \o b) =>
          Begins(q, a) \/ \E w \in Strings : q = a \o w /\ Begins(w, b)
  BY BeginsConcat
<1>11. Begins(q, (name \o sign) \o written)
  <2>1. Begins(q, (name \o sign) \o written)
        \/ \E w \in Strings : q = ((name \o sign) \o written) \o w /\ Begins(w, end)
    BY <1>1, <1>2, <1>4, <1>10
  <2>2. ASSUME NEW w \in Strings, q = ((name \o sign) \o written) \o w, Begins(w, end)
        PROVE  Begins(q, (name \o sign) \o written)
    <3>1. w = <<>>
      BY <1>2, <1>8, <2>2
    <3>2. QED
      BY <1>4, <1>5, <1>9, <2>2, <3>1
  <2>3. QED
    BY <2>1, <2>2
<1>12. CASE \E w \in Strings : q = (name \o sign) \o w /\ Begins(w, written)
  BY <1>12 DEF name, sign, written
<1>13. CASE Begins(q, name \o sign)
  <2>1. Begins(q, name) \/ \E w \in Strings : q = name \o w /\ Begins(w, sign)
    BY <1>1, <1>10, <1>13
  <2>2. CASE Begins(q, name)
    BY <1>6, <2>2 DEF name
  <2>3. ASSUME NEW w \in Strings, q = name \o w, Begins(w, sign)
        PROVE  q = name \/ (q = (name \o sign) \o <<>> /\ Begins(<<>>, written))
    <3>1. w = <<>> \/ w = sign
      BY <1>7, <2>3
    <3>2. QED
      BY <1>1, <1>4, <1>5, <1>9, <2>3, <3>1
  <2>4. QED
    BY <1>4, <2>1, <2>2, <2>3, StringsType DEF name, sign, written
<1>14. QED
  BY <1>1, <1>4, <1>10, <1>11, <1>12, <1>13

\* What is read of a line that is cut.
LEMMA ReadsCut ==
  ASSUME NEW r, LineStart(r), NEW s \in Settings, NEW text \in Strings,
         NEW q \in Strings, Begins(q, Write(s, text)), q # Write(s, text)
  PROVE  LET p == PushAll(r, q)
         IN  p \in Readers /\ ~p.comment /\ p.read = r.read /\ InLine(p, s, text)
<1> DEFINE p == PushAll(r, q)
           k == PushChar(r, s)
           e == PushChar(k, "=")
<1>1. /\ k \in Readers /\ ~k.comment /\ k.reading_key /\ k.read = r.read
      /\ Calm(e) /\ e.read = r.read
      /\ ~e.reading_key => /\ SameText(e, ValueStart)
                           /\ \A n \in Settings : e.stored_key = <<n>> => n = s
  <2>1. r.quote \in BOOLEAN
    BY DEF LineStart, Calm, Readers
  <2>2. QED
    BY <2>1, ReadsName
<1>2. s \in Chars /\ "=" \in Chars
  BY SpecialChars
<1>3. CASE q = <<>>
  <2>1. p = r
    BY <1>3, PushAllEmpty
  <2>2. QED
    BY <2>1 DEF LineStart, Calm, InLine
<1>4. CASE q = <<s>>
  <2>1. p = k
    BY <1>2, <1>4, PushOne
  <2> HIDE DEF k
  <2>2. QED
    BY <1>1, <2>1 DEF InLine
<1>5. ASSUME NEW w \in Strings, q = (<<s>> \o <<"=">>) \o w, Begins(w, WriteEscaped(text))
      PROVE  p \in Readers /\ ~p.comment /\ p.read = r.read /\ InLine(p, s, text)
  <2> DEFINE v == PushAll(e, WriteEscaped(text))
  <2>1. p = PushAll(e, w)
    <3>1. <<s>> \in Strings /\ <<"=">> \in Strings /\ <<s>> \o <<"=">> \in Strings
      BY <1>2, StringsType DEF Strings
    <3>2. \A a, b \in Strings : PushAll(r, a \o b) = PushAll(PushAll(r, a), b)
      BY Splitting
    <3>3. PushAll(r, <<s>> \o <<"=">>) = e
      BY <1>2, <3>1, <3>2, PushOne
    <3>4. PushAll(r, (<<s>> \o <<"=">>) \o w) = PushAll(PushAll(r, <<s>> \o <<"=">>), w)
      BY <3>1, <3>2
    <3>5. QED
      BY <1>5, <3>3, <3>4
  <2> HIDE DEF e, p
  <2>2. p \in Readers /\ ~p.comment /\ Within(e, p) /\ Begins(p.oss, v.oss)
    BY <1>1, <1>5, <2>1, EscapedCut
  <2>3. ~e.reading_key => v.oss = Meaning(text)
    BY <1>1, ReadsValue
  <2>4. QED
    BY <1>1, <2>2, <2>3 DEF Within, InLine
<1>6. QED
  BY <1>3, <1>4, <1>5, LineParts

\* What is left in the settings when the reading ends at p: the end of the file
\* completes the value, and the character of a failed read can do so.
Ending(p, read) ==
    \/ read = p.read
    \/ ~p.reading_key /\ read = OnReadKeyValue(p.read, p.stored_key, p.oss)

\* The end of the file.
LEMMA EndingFinish ==
  ASSUME NEW p \in Readers
  PROVE  Ending(p, FinishString(p, TRUE).read)
BY DEF Readers, Ending, FinishString

\* The character that was not read.
LEMMA EndingGarbage ==
  ASSUME NEW p \in Readers, ~p.comment, NEW g \in Chars
  PROVE  Ending(p, PushChar(p, g).read)
<1>1. CASE g = Blank /\ ~p.was_non_space
  BY <1>1, Skipped DEF Ending
<1>2. CASE ~ (g = Blank /\ ~p.was_non_space)
  <2>1. PICK q \in Readers :
           /\ q = [p EXCEPT !.was_non_space = @ \/ ~IsSpace(g)]
           /\ PushChar(p, g) = IF p.escape THEN PushEscaped(q, g) ELSE PushPlain(q, g)
    BY <1>2, PushIs
  <2>2. Within(p, q) /\ q.oss = p.oss
    BY <2>1 DEF Readers, Within
  <2>3. PushEscaped(q, g).read = q.read
    BY DEF PushEscaped, Readers
  <2>4. Ending(q, PushPlain(q, g).read)
    <3>1. Ending(q, FinishString(q, TRUE).read)
      BY EndingFinish
    <3>2. [FinishString(q, TRUE) EXCEPT !.comment = TRUE].read = FinishString(q, TRUE).read
      BY FinishType DEF Readers
    <3>3. q.reading_key => FinishString(q, FALSE).read = q.read
      BY DEF FinishString, Readers
    <3>4. /\ [q EXCEPT !.escape = TRUE].read = q.read
          /\ [q EXCEPT !.quote = ~@].read = q.read
          /\ [q EXCEPT !.temporary_spaces = Append(@, g)].read = q.read
          /\ [q EXCEPT !.oss = (@ \o q.temporary_spaces) \o <<g>>, !.temporary_spaces = <<>>].read = q.read
      BY DEF Readers
    <3>5. \/ PushPlain(q, g).read = FinishString(q, TRUE).read
          \/ PushPlain(q, g).read = q.read
      <4>1. q.quote \in BOOLEAN /\ q.reading_key \in BOOLEAN
        BY DEF Readers
      <4>2. CASE g = "\\"
        BY <3>4, <4>2 DEF PushPlain, EndsLine, NewLine, Blank
      <4>3. CASE g = "#" /\ ~q.quote
        BY <3>2, <4>3 DEF PushPlain, EndsLine, NewLine, Blank
      <4>4. CASE g = "quote"
        BY <3>4, <4>4 DEF PushPlain, EndsLine, NewLine, Blank
      <4>5. CASE g = "=" /\ ~q.quote /\ q.reading_key
        BY <3>3, <4>5 DEF PushPlain, EndsLine, NewLine, Blank
      <4>6. CASE g = NewLine
        BY <4>6 DEF PushPlain, EndsLine, NewLine, Blank
      <4>7. CASE g = Blank /\ ~q.quote
        BY <3>4, <4>7 DEF PushPlain, EndsLine, NewLine, Blank
      <4>8. CASE /\ g # "\\" /\ ~ (g = "#" /\ ~q.quote) /\ g # "quote"
                 /\ ~ (g = "=" /\ ~q.quote /\ q.reading_key) /\ g # NewLine
                 /\ ~ (g = Blank /\ ~q.quote)
        BY <3>4, <4>8 DEF PushPlain, EndsLine, NewLine, Blank
      <4>9. QED
        BY <4>2, <4>3, <4>4, <4>5, <4>6, <4>7, <4>8
    <3>6. QED
      BY <3>1, <3>5 DEF Ending
  <2>5. p.escape \in BOOLEAN
    BY DEF Readers
  <2>6. QED
    BY <2>1, <2>2, <2>3, <2>4, <2>5 DEF Within, Ending
<1>3. QED
  BY <1>1, <1>2

\* It is read for the setting of the line, or not at all.
LEMMA EndingInLine ==
  ASSUME NEW p \in Readers, NEW s \in Settings, NEW text \in Strings, InLine(p, s, text),
         NEW read, Ending(p, read)
  PROVE  \A n \in Settings : read[n] = p.read[n] \/ (n = s /\ Begins(read[n], Meaning(text)))
<1>1. CASE read = p.read
  BY <1>1
<1>2. CASE ~p.reading_key /\ read = OnReadKeyValue(p.read, p.stored_key, p.oss)
  <2>1. ASSUME NEW n \in Settings
        PROVE  read[n] = p.read[n] \/ (n = s /\ Begins(read[n], Meaning(text)))
    <3>1. read[n] = IF p.stored_key = <<n>> THEN p.oss ELSE p.read[n]
      BY <1>2 DEF OnReadKeyValue
    <3>2. QED
      BY <1>2, <3>1 DEF InLine
  <2>2. QED
    BY <2>1
<1>3. QED
  BY <1>1, <1>2 DEF Ending

\* What one line alone gives its setting.
LEMMA LoadLine ==
  ASSUME NEW s \in Settings, NEW text \in Strings, NEW old
  PROVE  LoadFrom(Write(s, text), old)[s] = Meaning(text)
<1> DEFINE p == PushAll(Fresh, Write(s, text))
<1>1. LineStart(p) /\ p.read = OnReadKeyValue(Fresh.read, <<s>>, Meaning(text))
  BY FreshStart, ReadsLine
<1> HIDE DEF p
<1>2. FinishString(p, TRUE).read = p.read
  BY <1>1 DEF LineStart, Calm, Readers, FinishString
<1>3. QED
  BY <1>1, <1>2 DEF LoadFrom, OnReadKeyValue, p

-----------------------------------------------------------------------------
(* The whole file, one name after the other.                               *)

ChosenTo(v, n) ==
    [i \in 1 .. n |-> IF v[Names[i]] # Defaults[Names[i]] THEN <<Names[i]>> ELSE <<>>]

ChangedTo(v, n) == FlattenSeq(ChosenTo(v, n))

LinesOf(v, changed) == [i \in DOMAIN changed |-> Write(changed[i], v[changed[i]])]

\* The text of the changed settings among the first n.
TextTo(v, n) == FlattenSeq(LinesOf(v, ChangedTo(v, n)))

Line(v, n) == IF v[Names[n]] # Defaults[Names[n]] THEN Write(Names[n], v[Names[n]]) ELSE <<>>

LEMMA NamesType ==
  /\ Len(Names) \in Nat \ {0} /\ DOMAIN Names = 1 .. Len(Names)
  /\ \A i \in 1 .. Len(Names) : Names[i] \in Settings
  /\ \A s \in Settings : \E i \in 1 .. Len(Names) : s = Names[i]
  /\ \A i, j \in 1 .. Len(Names) : Names[i] = Names[j] => i = j
<1>1. Names \in Seq(Settings) /\ Names # <<>>
  BY NamesAssumption
<1>2. Len(Names) \in Nat \ {0} /\ DOMAIN Names = 1 .. Len(Names)
  BY <1>1
<1>3. QED
  BY <1>1, <1>2, NamesAssumption DEF Settings, Range

LEMMA ChosenType ==
  ASSUME NEW v, NEW n \in 0 .. Len(Names)
  PROVE  ChosenTo(v, n) \in Seq(Seq(Settings)) /\ Len(ChosenTo(v, n)) = n
<1>1. \A i \in 1 .. n : <<Names[i]>> \in Seq(Settings)
  BY NamesType
<1>2. n \in Nat
  BY NamesType
<1>3. ChosenTo(v, n) \in [1 .. n -> Seq(Settings)]
  BY <1>1 DEF ChosenTo
<1>4. QED
  BY <1>2, <1>3

LEMMA ChangedToType ==
  ASSUME NEW v, NEW n \in 0 .. Len(Names)
  PROVE  ChangedTo(v, n) \in Seq(Settings)
BY ChosenType, FlattenType DEF ChangedTo

LEMMA LinesOfType ==
  ASSUME NEW v \in Values, NEW changed \in Seq(Settings)
  PROVE  LinesOf(v, changed) \in Seq(Seq(Chars)) /\ Len(LinesOf(v, changed)) = Len(changed)
<1>1. Len(changed) \in Nat /\ DOMAIN changed = 1 .. Len(changed)
      /\ \A i \in 1 .. Len(changed) : changed[i] \in Settings
  OBVIOUS
<1>2. \A s \in Settings : Write(s, v[s]) \in Seq(Chars)
  BY WriteType DEF Values, Strings
<1>3. LinesOf(v, changed) \in [1 .. Len(changed) -> Seq(Chars)]
  BY <1>1, <1>2 DEF LinesOf
<1>4. QED
  BY <1>1, <1>3

LEMMA TextToType ==
  ASSUME NEW v \in Values, NEW n \in 0 .. Len(Names)
  PROVE  TextTo(v, n) \in Strings
BY ChangedToType, LinesOfType, FlattenType DEF TextTo, Strings

LEMMA LineType ==
  ASSUME NEW v \in Values, NEW n \in 1 .. Len(Names)
  PROVE  Line(v, n) \in Strings /\ Names[n] \in Settings /\ v[Names[n]] \in Strings
<1>1. Names[n] \in Settings /\ v[Names[n]] \in Strings
  BY NamesType DEF Values
<1>2. QED
  BY <1>1, WriteType, StringsType DEF Line, Strings

LEMMA TextNone ==
  ASSUME NEW v
  PROVE  TextTo(v, 0) = <<>>
<1>1. ChosenTo(v, 0) = <<>>
  BY DEF ChosenTo
<1>2. ChangedTo(v, 0) = <<>>
  BY <1>1, FlattenEmpty DEF ChangedTo
<1>3. LinesOf(v, <<>>) = <<>>
  BY DEF LinesOf
<1>4. QED
  BY <1>2, <1>3, FlattenEmpty DEF TextTo

\* One name more.
LEMMA TextNext ==
  ASSUME NEW v \in Values, NEW n \in Nat, n + 1 <= Len(Names)
  PROVE  TextTo(v, n + 1) = TextTo(v, n) \o Line(v, n + 1)
<1> DEFINE s == Names[n + 1]
           x == IF v[s] # Defaults[s] THEN <<s>> ELSE <<>>
           c == ChangedTo(v, n)
<1>1. n \in 0 .. Len(Names) /\ n + 1 \in 1 .. Len(Names) /\ n + 1 \in 0 .. Len(Names)
  BY NamesType
<1>2. s \in Settings
  BY <1>1, NamesType
<1>3. ChosenTo(v, n) \in Seq(Seq(Settings)) /\ Len(ChosenTo(v, n)) = n
      /\ ChosenTo(v, n + 1) \in Seq(Seq(Settings)) /\ Len(ChosenTo(v, n + 1)) = n + 1
  BY <1>1, ChosenType
<1>4. x \in Seq(Settings)
  BY <1>2
<1>5. ChosenTo(v, n + 1) = Append(ChosenTo(v, n), x)
  <2>1. \A i \in 1 .. n : ChosenTo(v, n + 1)[i] = ChosenTo(v, n)[i]
    BY DEF ChosenTo
  <2>2. ChosenTo(v, n + 1)[n + 1] = x
    BY DEF ChosenTo
  <2> HIDE DEF x
  <2>3. ASSUME NEW a \in Seq(Seq(Settings)), NEW b \in Seq(Seq(Settings)), Len(a) = n,
               Len(b) = n + 1, \A i \in 1 .. n : b[i] = a[i], b[n + 1] = x
        PROVE  b = Append(a, x)
    <3>1. Append(a, x) \in Seq(Seq(Settings)) /\ Len(Append(a, x)) = n + 1
          /\ (\A i \in 1 .. n : Append(a, x)[i] = a[i]) /\ Append(a, x)[n + 1] = x
      BY <1>4, <2>3
    <3>2. \A i \in 1 .. n + 1 : b[i] = Append(a, x)[i]
      <4>1. \A i \in 1 .. n + 1 : i \in 1 .. n \/ i = n + 1
        OBVIOUS
      <4>2. QED
        BY <2>3, <3>1, <4>1
    <3>3. QED
      BY <2>3, <3>1, <3>2
  <2>4. QED
    BY <1>3, <2>1, <2>2, <2>3
<1>6. c \in Seq(Settings)
  BY <1>1, ChangedToType
<1>7. ChangedTo(v, n + 1) = c \o x
  BY <1>3, <1>4, <1>5, <1>6, FlattenAppend DEF ChangedTo
<1> HIDE DEF c
<1>8. CASE v[s] = Defaults[s]
  <2>1. c \o x = c
    BY <1>6, <1>8
  <2> HIDE DEF x
  <2>2. TextTo(v, n + 1) = TextTo(v, n)
    <3>1. ChangedTo(v, n + 1) = c
      BY <1>7, <2>1
    <3>2. QED
      BY <3>1 DEF TextTo, c
  <2>3. TextTo(v, n) \in Seq(Chars)
    BY <1>1, TextToType DEF Strings
  <2>4. Line(v, n + 1) = <<>>
    BY <1>8 DEF Line
  <2>5. \A t \in Seq(Chars) : t \o <<>> = t
    OBVIOUS
  <2>6. QED
    BY <2>2, <2>3, <2>4, <2>5
<1>9. CASE v[s] # Defaults[s]
  <2> DEFINE ls == LinesOf(v, c)
             w == Write(s, v[s])
  <2>1. w \in Seq(Chars) /\ Line(v, n + 1) = w
    BY <1>1, <1>9, LineType DEF Line, Strings
  <2>2. ls \in Seq(Seq(Chars)) /\ Len(ls) = Len(c)
    BY <1>6, LinesOfType
  <2>3. LinesOf(v, c \o <<s>>) = Append(ls, w)
    <3>1. c \o <<s>> = Append(c, s)
      BY <1>2, <1>6
    <3>2. LinesOf(v, Append(c, s)) = Append(LinesOf(v, c), w)
      <4> DEFINE d == Append(c, s)
                 m == Len(c)
      <4>1. m \in Nat /\ DOMAIN d = 1 .. m + 1 /\ d[m + 1] = s /\ (\A i \in 1 .. m : d[i] = c[i])
            /\ DOMAIN c = 1 .. m /\ d \in Seq(Settings) /\ Len(d) = m + 1
        BY <1>2, <1>6
      <4> HIDE DEF d, m, w
      <4>2. LinesOf(v, d) \in Seq(Seq(Chars)) /\ Len(LinesOf(v, d)) = m + 1
        BY <4>1, LinesOfType
      <4>3. (\A i \in 1 .. m : LinesOf(v, d)[i] = ls[i]) /\ LinesOf(v, d)[m + 1] = w
        BY <4>1 DEF LinesOf, w
      <4> HIDE DEF ls
      <4>4. ASSUME NEW a \in Seq(Seq(Chars)), NEW b \in Seq(Seq(Chars)), Len(a) = m,
                   Len(b) = m + 1, \A i \in 1 .. m : b[i] = a[i], b[m + 1] = w
            PROVE  b = Append(a, w)
        <5>1. Append(a, w) \in Seq(Seq(Chars)) /\ Len(Append(a, w)) = m + 1
              /\ (\A i \in 1 .. m : Append(a, w)[i] = a[i]) /\ Append(a, w)[m + 1] = w
          BY <2>1, <4>1, <4>4
        <5>2. \A i \in 1 .. m + 1 : b[i] = Append(a, w)[i]
          <6>1. \A i \in 1 .. m + 1 : i \in 1 .. m \/ i = m + 1
            BY <4>1
          <6>2. QED
            BY <4>4, <5>1, <6>1
        <5>3. QED
          BY <4>4, <5>1, <5>2
      <4>5. LinesOf(v, d) = Append(ls, w)
        BY <2>2, <4>2, <4>3, <4>4 DEF m
      <4>6. QED
        BY <4>5 DEF d, ls, w
    <3>3. QED
      BY <3>1, <3>2
  <2>4. x = <<s>>
    BY <1>9
  <2>5. FlattenSeq(ls) \in Seq(Chars)
    BY <2>2, FlattenType
  <2> HIDE DEF ls, w
  <2>6. FlattenSeq(Append(ls, w)) = FlattenSeq(ls) \o w
    BY <2>1, <2>2, <2>5, FlattenAppend
  <2>7. QED
    BY <1>7, <2>1, <2>3, <2>4, <2>6 DEF TextTo, ls, c
<1>10. QED
  BY <1>8, <1>9

\* The text of all names is the file.
LEMMA TextWhole ==
  ASSUME NEW v
  PROVE  TextTo(v, Len(Names)) = Text(v)
<1>1. ChosenTo(v, Len(Names)) = Chosen(v)
  BY NamesType DEF ChosenTo, Chosen
<1>2. ChangedTo(v, Len(Names)) = Changed(v)
  BY <1>1 DEF ChangedTo, Changed
<1>3. LinesOf(v, Changed(v)) = Lines(v)
  BY Zenon DEF LinesOf, Lines
<1>4. QED
  BY <1>2, <1>3 DEF TextTo, Text

\* A part of the text ends within a line of it, or is all of it.
CutIn(v, q, m) ==
    \E w \in Strings : q = TextTo(v, m) \o w /\ Begins(w, Line(v, m + 1)) /\ w # Line(v, m + 1)

\* Where a part of the text ends.
LEMMA TextCut ==
  ASSUME NEW v \in Values, NEW n \in 0 .. Len(Names), NEW q \in Strings, Begins(q, TextTo(v, n))
  PROVE  q = TextTo(v, n) \/ \E m \in 0 .. n - 1 : CutIn(v, q, m)
<1> DEFINE Fine(i) == Begins(q, TextTo(v, i)) =>
                         q = TextTo(v, i) \/ \E m \in 0 .. i - 1 : CutIn(v, q, m)
           S == {i \in Nat : i <= Len(Names) => Fine(i)}
<1>0. Len(Names) \in Nat
  BY NamesType
<1>1. 0 \in S
  <2>1. Begins(q, <<>>) => q = <<>>
    BY BeginsEmpty
  <2>2. QED
    BY <2>1, TextNone
<1>2. ASSUME NEW i \in Nat, i \in S PROVE i + 1 \in S
  <2>1. SUFFICES ASSUME i + 1 <= Len(Names), Begins(q, TextTo(v, i + 1))
                 PROVE  q = TextTo(v, i + 1) \/ \E m \in 0 .. i : CutIn(v, q, m)
    OBVIOUS
  <2>2. i <= Len(Names) /\ i \in 0 .. Len(Names) /\ i + 1 \in 1 .. Len(Names)
        /\ 0 .. i - 1 \subseteq 0 .. i /\ i \in 0 .. i
    BY <1>0, <2>1
  <2>3. Fine(i)
    BY <1>2, <2>2
  <2>4. TextTo(v, i + 1) = TextTo(v, i) \o Line(v, i + 1)
    BY <2>1, TextNext
  <2>5. TextTo(v, i) \in Strings /\ Line(v, i + 1) \in Strings
    BY <2>2, TextToType, LineType
  <2>6. ASSUME NEW w \in Strings, q = TextTo(v, i) \o w, Begins(w, Line(v, i + 1))
        PROVE  q = TextTo(v, i + 1) \/ \E m \in 0 .. i : CutIn(v, q, m)
    <3>1. CASE w = Line(v, i + 1)
      BY <2>4, <2>6, <3>1
    <3>2. CASE w # Line(v, i + 1)
      BY <2>2, <2>6, <3>2 DEF CutIn
    <3>3. QED
      BY <3>1, <3>2
  <2>7. CASE Begins(q, TextTo(v, i))
    <3>1. CASE q = TextTo(v, i)
      <4>1. <<>> \in Strings /\ Begins(<<>>, Line(v, i + 1))
        BY <2>5, BeginsSelf, StringsType
      <4>2. \A t \in Strings : t \o <<>> = t
        BY DEF Strings
      <4>3. q = TextTo(v, i) \o <<>>
        BY <2>5, <3>1, <4>2
      <4>4. QED
        BY <2>6, <4>1, <4>3
    <3>2. CASE \E m \in 0 .. i - 1 : CutIn(v, q, m)
      BY <2>2, <3>2
    <3>3. QED
      BY <2>3, <2>7, <3>1, <3>2
  <2>8. Begins(q, TextTo(v, i)) \/ \E w \in Strings : q = TextTo(v, i) \o w /\ Begins(w, Line(v, i + 1))
    <3>1. \A a, b \in Strings : Begins(q, a \o b) =>
             Begins(q, a) \/ \E w \in Strings : q = a \o w /\ Begins(w, b)
      BY BeginsConcat
    <3>2. QED
      BY <2>1, <2>4, <2>5, <3>1
  <2>9. QED
    BY <2>6, <2>7, <2>8
<1>3. n \in S
  <2> HIDE DEF S
  <2>1. QED
    BY <1>0, <1>1, <1>2, Induction
<1>4. QED
  BY <1>3

\* What the first n names have after they were read.
Expected(v, s) == IF v[s] # Defaults[s] THEN Meaning(v[s]) ELSE Defaults[s]

NoQuote(v, n) == \A j \in 1 .. n : "quote" \notin Range(v[Names[j]])

ReadTo(v, n, r) ==
    /\ LineStart(r)
    /\ \A i \in 1 .. n : r.read[Names[i]] \in {Defaults[Names[i]], Meaning(v[Names[i]])}
    /\ \A i \in n + 1 .. Len(Names) : r.read[Names[i]] = Defaults[Names[i]]
    /\ NoQuote(v, n) => Clean(r)
    /\ \A i \in 1 .. n : NoQuote(v, i - 1) => r.read[Names[i]] = Expected(v, Names[i])

\* One line more is read.
LEMMA ReadsNext ==
  ASSUME NEW v \in Values, NEW n \in Nat, n + 1 <= Len(Names), NEW r, ReadTo(v, n, r)
  PROVE  ReadTo(v, n + 1, PushAll(r, Line(v, n + 1)))
<1> DEFINE s == Names[n + 1]
           p == PushAll(r, Line(v, n + 1))
<1>1. Len(Names) \in Nat /\ n + 1 \in 1 .. Len(Names)
      /\ \A i \in 1 .. Len(Names) : Names[i] \in Settings /\ (Names[i] = s => i = n + 1)
  BY NamesType
<1>2. s \in Settings /\ v[s] \in Strings
  BY <1>1, LineType
<1>3. LineStart(r) /\ (NoQuote(v, n) => Clean(r))
  BY DEF ReadTo
<1>4. NoQuote(v, n + 1) <=> NoQuote(v, n) /\ "quote" \notin Range(v[s])
  <2>1. 1 .. n + 1 = (1 .. n) \cup {n + 1}
    OBVIOUS
  <2>2. QED
    BY <2>1 DEF NoQuote
<1>5. /\ LineStart(p)
      /\ \A t \in Settings \ {s} : p.read[t] = r.read[t]
      /\ p.read[s] \in {r.read[s], Meaning(v[s])}
      /\ NoQuote(v, n + 1) => Clean(p)
      /\ Clean(r) /\ v[s] # Defaults[s] => p.read[s] = Meaning(v[s])
      /\ v[s] = Defaults[s] => p.read[s] = r.read[s]
  <2>1. CASE v[s] = Defaults[s]
    <3>1. p = r
      BY <2>1, PushAllEmpty DEF Line
    <3> HIDE DEF p
    <3>2. QED
      BY <1>3, <1>4, <2>1, <3>1
  <2>2. CASE v[s] # Defaults[s]
    <3>1. p = PushAll(r, Write(s, v[s]))
      BY <2>2 DEF Line
    <3> HIDE DEF p
    <3>2. /\ LineStart(p)
          /\ p.read = r.read \/ p.read = OnReadKeyValue(r.read, <<s>>, Meaning(v[s]))
          /\ Clean(r) => /\ p.read = OnReadKeyValue(r.read, <<s>>, Meaning(v[s]))
                         /\ "quote" \notin Range(v[s]) => Clean(p)
      BY <1>2, <1>3, <3>1, ReadsLine
    <3>3. \A t \in Settings : <<s>> = <<t>> <=> t = s
      OBVIOUS
    <3>4. \A t \in Settings : OnReadKeyValue(r.read, <<s>>, Meaning(v[s]))[t]
                                 = IF t = s THEN Meaning(v[s]) ELSE r.read[t]
      BY <3>3 DEF OnReadKeyValue
    <3>5. QED
      BY <1>2, <1>3, <1>4, <2>2, <3>2, <3>4
  <2>3. QED
    BY <2>1, <2>2
<1> HIDE DEF p
<1>6. r.read[s] = Defaults[s]
  BY <1>1 DEF ReadTo
<1>7. ASSUME NEW i \in 1 .. n + 1
      PROVE  /\ p.read[Names[i]] \in {Defaults[Names[i]], Meaning(v[Names[i]])}
             /\ NoQuote(v, i - 1) => p.read[Names[i]] = Expected(v, Names[i])
  <2>1. CASE i = n + 1
    <3>1. i - 1 = n /\ Names[i] = s
      BY <2>1
    <3>2. QED
      BY <1>3, <1>5, <1>6, <3>1 DEF Expected
  <2>2. CASE i # n + 1
    <3>1. i \in 1 .. n /\ Names[i] \in Settings \ {s}
      BY <1>1, <2>2
    <3>2. p.read[Names[i]] = r.read[Names[i]]
      BY <1>5, <3>1
    <3>3. QED
      BY <3>1, <3>2 DEF ReadTo
  <2>3. QED
    BY <2>1, <2>2
<1>8. ASSUME NEW i \in (n + 1) + 1 .. Len(Names)
      PROVE  p.read[Names[i]] = Defaults[Names[i]]
  <2>1. i \in n + 1 .. Len(Names) /\ Names[i] \in Settings \ {s}
    BY <1>1
  <2>2. QED
    BY <1>5, <2>1 DEF ReadTo
<1>9. QED
  BY <1>5, <1>7, <1>8 DEF ReadTo, p

\* The reader after the lines of the first n names.
LEMMA ReadsText ==
  ASSUME NEW v \in Values, NEW n \in 0 .. Len(Names)
  PROVE  ReadTo(v, n, PushAll(Fresh, TextTo(v, n)))
<1> DEFINE S == {i \in Nat : i <= Len(Names) => ReadTo(v, i, PushAll(Fresh, TextTo(v, i)))}
<1>0. Len(Names) \in Nat
  BY NamesType
<1>1. 0 \in S
  <2>1. PushAll(Fresh, TextTo(v, 0)) = Fresh
    BY TextNone, PushAllEmpty
  <2>2. ReadTo(v, 0, Fresh)
    BY FreshStart DEF ReadTo
  <2>3. QED
    BY <2>1, <2>2
<1>2. ASSUME NEW i \in Nat, i \in S PROVE i + 1 \in S
  <2>1. SUFFICES ASSUME i + 1 <= Len(Names) PROVE ReadTo(v, i + 1, PushAll(Fresh, TextTo(v, i + 1)))
    OBVIOUS
  <2>2. i <= Len(Names) /\ i \in 0 .. Len(Names) /\ i + 1 \in 1 .. Len(Names)
    BY <1>0, <2>1
  <2>3. ReadTo(v, i, PushAll(Fresh, TextTo(v, i)))
    BY <1>2, <2>2
  <2>4. TextTo(v, i) \in Strings /\ Line(v, i + 1) \in Strings
    BY <2>2, TextToType, LineType
  <2>5. PushAll(Fresh, TextTo(v, i) \o Line(v, i + 1))
           = PushAll(PushAll(Fresh, TextTo(v, i)), Line(v, i + 1))
    BY <2>4, Splitting
  <2>6. TextTo(v, i + 1) = TextTo(v, i) \o Line(v, i + 1)
    BY <2>1, TextNext
  <2>7. QED
    BY <2>1, <2>3, <2>5, <2>6, ReadsNext
<1>3. n \in S
  <2> HIDE DEF S
  <2>1. QED
    BY <1>0, <1>1, <1>2, Induction
<1>4. QED
  BY <1>3

\* The settings after the first m are read, one more is read in part, and the
\* others are not.
ReadUpTo(v, m, read) ==
    /\ \A i \in 1 .. m : /\ read[Names[i]] \in {Defaults[Names[i]], Meaning(v[Names[i]])}
                         /\ NoQuote(v, i - 1) => read[Names[i]] = Expected(v, Names[i])
    /\ m < Len(Names) => \/ read[Names[m + 1]] = Defaults[Names[m + 1]]
                         \/ Begins(read[Names[m + 1]], Meaning(v[Names[m + 1]]))
    /\ \A i \in m + 2 .. Len(Names) : read[Names[i]] = Defaults[Names[i]]

\* What is read of a part of the file, whether the read fails at its end or not.
LEMMA ReadsPart ==
  ASSUME NEW v \in Values, NEW q \in Strings, Begins(q, Text(v)),
         NEW read, Ending(PushAll(Fresh, q), read)
  PROVE  \E m \in 0 .. Len(Names) :
            /\ ReadUpTo(v, m, read)
            /\ q = Text(v) => m = Len(Names)
<1>0. Len(Names) \in Nat /\ Len(Names) \in 0 .. Len(Names)
  BY NamesType
<1>1. q = TextTo(v, Len(Names)) \/ \E m \in 0 .. Len(Names) - 1 : CutIn(v, q, m)
  BY <1>0, TextWhole, TextCut
<1>2. CASE q = Text(v)
  <2> DEFINE r == PushAll(Fresh, q)
  <2>1. ReadTo(v, Len(Names), r)
    BY <1>0, <1>2, TextWhole, ReadsText
  <2> HIDE DEF r
  <2>2. Ending(r, read)
    BY DEF r
  <2>3. read = r.read
    BY <2>1, <2>2 DEF ReadTo, LineStart, Ending
  <2>4. ReadUpTo(v, Len(Names), read)
    BY <1>0, <2>1, <2>3 DEF ReadTo, ReadUpTo
  <2>5. QED
    BY <1>0, <2>4
<1>3. ASSUME q # Text(v), NEW m \in 0 .. Len(Names) - 1, CutIn(v, q, m)
      PROVE  ReadUpTo(v, m, read)
  <2> DEFINE s == Names[m + 1]
             r == PushAll(Fresh, TextTo(v, m))
             p == PushAll(Fresh, q)
  <2>1. m \in 0 .. Len(Names) /\ m + 1 \in 1 .. Len(Names) /\ m \in Nat
    BY <1>0
  <2>2. s \in Settings /\ v[s] \in Strings /\ Line(v, m + 1) \in Strings
    BY <2>1, LineType
  <2>3. PICK w \in Strings : /\ q = TextTo(v, m) \o w
                             /\ Begins(w, Line(v, m + 1)) /\ w # Line(v, m + 1)
    BY <1>3 DEF CutIn
  <2>4. Line(v, m + 1) = Write(s, v[s])
    BY <2>3, BeginsEmpty DEF Line
  <2>5. ReadTo(v, m, r)
    BY <2>1, ReadsText
  <2>6. p = PushAll(r, w)
    BY <2>1, <2>3, Splitting, TextToType
  <2> HIDE DEF r, p
  <2>7. p \in Readers /\ ~p.comment /\ p.read = r.read /\ InLine(p, s, v[s])
    BY <2>2, <2>3, <2>4, <2>5, <2>6, ReadsCut DEF ReadTo
  <2>8. Ending(p, read)
    BY DEF p
  <2>9. \A n \in Settings : read[n] = r.read[n] \/ (n = s /\ Begins(read[n], Meaning(v[s])))
    <3>1. \A n \in Settings : read[n] = p.read[n] \/ (n = s /\ Begins(read[n], Meaning(v[s])))
      BY <2>2, <2>7, <2>8, EndingInLine
    <3>2. QED
      BY <2>7, <3>1
  <2>10. \A i \in 1 .. Len(Names) : Names[i] \in Settings /\ (i # m + 1 => Names[i] # s)
    BY <2>1, NamesType
  <2>11. \A i \in 1 .. Len(Names) : i # m + 1 => read[Names[i]] = r.read[Names[i]]
    BY <2>9, <2>10
  <2>12. ASSUME NEW i \in 1 .. m
         PROVE  /\ read[Names[i]] \in {Defaults[Names[i]], Meaning(v[Names[i]])}
                /\ NoQuote(v, i - 1) => read[Names[i]] = Expected(v, Names[i])
    <3>1. i \in 1 .. Len(Names) /\ i # m + 1
      BY <1>0
    <3>2. QED
      BY <2>5, <2>11, <3>1 DEF ReadTo
  <2>13. read[s] = Defaults[s] \/ Begins(read[s], Meaning(v[s]))
    <3>1. m + 1 \in m + 1 .. Len(Names)
      BY <1>0
    <3>2. r.read[s] = Defaults[s]
      BY <2>5, <3>1 DEF ReadTo
    <3>3. QED
      BY <2>2, <2>9, <3>2
  <2>14. ASSUME NEW i \in m + 2 .. Len(Names) PROVE read[Names[i]] = Defaults[Names[i]]
    <3>1. i \in 1 .. Len(Names) /\ i # m + 1 /\ i \in m + 1 .. Len(Names)
      BY <1>0
    <3>2. QED
      BY <2>5, <2>11, <3>1 DEF ReadTo
  <2>15. QED
    BY <2>12, <2>13, <2>14 DEF ReadUpTo
<1>4. CASE q # Text(v)
  <2>1. PICK m \in 0 .. Len(Names) - 1 : CutIn(v, q, m)
    BY <1>1, <1>4, TextWhole
  <2>2. m \in 0 .. Len(Names)
    BY <1>0
  <2>3. QED
    BY <1>3, <1>4, <2>1, <2>2
<1>5. QED
  BY <1>2, <1>4

\* How the settings of the bot that has loaded the file came out of it.
Loaded ==
    load # <<>> =>
        /\ \E q \in Strings : Begins(q, disk) /\ Ending(PushAll(Fresh, q), value[load[1]])
        /\ load[2] => value[load[1]] = LoadFrom(disk, Defaults)

LEMMA LoadedInit == Init => Loaded
BY DEF Init, Loaded

\* A read to the end of the file.
LEMMA LoadFromEnding ==
  ASSUME NEW text \in Strings, NEW old
  PROVE  Ending(PushAll(Fresh, text), LoadFrom(text, old))
<1>1. PushAll(Fresh, text) \in Readers
  BY FreshType, PushAllType DEF Strings
<1>2. QED
  BY <1>1, EndingFinish DEF LoadFrom

\* A read that fails has read a part of the file.  Within a comment, which some
\* other file may have, the character that was not read is skipped.
LEMMA FailedReadEnding ==
  ASSUME NEW text \in Strings, NEW n \in 0 .. Len(text), NEW g \in Garbage
  PROVE  \E q \in Strings : Begins(q, text) /\ Ending(PushAll(Fresh, q), FailedRead(text, n, g))
<1> DEFINE q == SubSeq(text, 1, n)
           u == SubSeq(text, n + 1, Len(text))
           p == PushAll(Fresh, q)
<1>1. q \in Seq(Chars) /\ u \in Seq(Chars) /\ text = q \o u
  <2>1. text \in Seq(Chars) /\ Len(text) \in Nat
    BY DEF Strings
  <2>2. 1 \in 1 .. Len(text) + 1 /\ n \in 1 - 1 .. Len(text) /\ Len(text) \in n .. Len(text)
    BY <2>1
  <2>3. q \o u = SubSeq(text, 1, Len(text))
    BY <2>1, <2>2, ConcatAdjacentSubSeq
  <2>4. q \in Seq(Chars) /\ u \in Seq(Chars)
    BY <2>1
  <2>5. QED
    BY <2>1, <2>3, <2>4, SubSeqFull
<1>2. p \in Readers /\ g \in Chars
  BY <1>1, FreshType, PushAllType, GarbageAssumption
<1>3. FailedRead(text, n, g) = PushChar(p, g).read
  BY DEF FailedRead
<1> HIDE DEF q, u, p
<1>4. Ending(p, PushChar(p, g).read)
  <2>1. CASE p.comment
    <3>1. PushChar(p, g).read = p.read
      BY <1>2, <2>1 DEF PushChar, Readers
    <3>2. QED
      BY <3>1 DEF Ending
  <2>2. CASE ~p.comment
    BY <1>2, <2>2, EndingGarbage
  <2>3. QED
    BY <2>1, <2>2
<1>5. Begins(q, text)
  BY <1>1 DEF Begins, Strings
<1>6. QED
  BY <1>1, <1>3, <1>4, <1>5 DEF p, Strings

\* Each action keeps it; only a load ends a behaviour.
LEMMA LoadedNext == Types /\ Loaded /\ [Next]_vars => Loaded'
<1> SUFFICES ASSUME Types, Loaded, [Next]_vars PROVE Loaded'
  OBVIOUS
<1>1. CASE UNCHANGED vars
  BY <1>1 DEF vars, Loaded
<1>2. CASE Next
  <2>1. load = <<>>
    BY <1>2 DEF Next, More
  <2>2. PICK b \in Bots :
          \/ \E s \in Settings, text \in Texts : Change(b, s, text) \/ CatSet(b, s, text)
          \/ Save(b) \/ WriteLine(b) \/ Close(b) \/ DiskFull(b) \/ Killed(b)
          \/ Load(b) \/ LoadFails(b)
    BY <1>2 DEF Next
  <2>3. disk \in Strings /\ value \in [Bots -> Values]
    BY DEF Types
  <2>4. CASE Load(b)
    <3>1. load' = <<b, TRUE>> /\ disk' = disk /\ value'[b] = LoadFrom(disk, value[b])
      BY <2>3, <2>4 DEF Load
    <3>2. LoadFrom(disk, value[b]) = LoadFrom(disk, Defaults)
      BY DEF LoadFrom
    <3>3. Begins(disk, disk) /\ Ending(PushAll(Fresh, disk), LoadFrom(disk, value[b]))
      BY <2>3, BeginsSelf, LoadFromEnding
    <3>4. load'[1] = b /\ load'[2] = TRUE
      BY <3>1
    <3>5. QED
      BY <2>3, <3>1, <3>2, <3>3, <3>4 DEF Loaded
  <2>5. CASE LoadFails(b)
    <3>1. PICK n \in 0 .. Len(disk), g \in Garbage :
             value' = [value EXCEPT ![b] = FailedRead(disk, n, g)]
      BY <2>5 DEF LoadFails
    <3>2. load' = <<b, FALSE>> /\ disk' = disk /\ value'[b] = FailedRead(disk, n, g)
      BY <2>3, <2>5, <3>1 DEF LoadFails
    <3>3. PICK q \in Strings :
             Begins(q, disk) /\ Ending(PushAll(Fresh, q), FailedRead(disk, n, g))
      BY <2>3, FailedReadEnding
    <3>4. load'[1] = b /\ load'[2] = FALSE
      BY <3>2
    <3>5. QED
      BY <3>2, <3>3, <3>4 DEF Loaded
  <2>6. CASE \/ \E s \in Settings, text \in Texts : Change(b, s, text) \/ CatSet(b, s, text)
             \/ Save(b) \/ WriteLine(b) \/ Close(b) \/ DiskFull(b) \/ Killed(b)
    <3>1. load' = load
      BY <2>6 DEF Change, CatSet, Save, WriteLine, Close, DiskFull, Killed, Ends
    <3>2. QED
      BY <2>1, <3>1 DEF Loaded
  <2>7. QED
    BY <2>2, <2>4, <2>5, <2>6
<1>3. QED
  BY <1>1, <1>2

\* load's types, and a file that is a part of what was saved.
LEMMA PartLoaded ==
  ASSUME Types, Loaded, load # <<>>, NEW v \in saves, IsPrefix(disk, Text(v))
  PROVE  \E m \in 0 .. Len(Names) : ReadUpTo(v, m, value[load[1]])
<1>1. PICK q \in Strings : Begins(q, disk) /\ Ending(PushAll(Fresh, q), value[load[1]])
  BY DEF Loaded
<1>2. v \in Values /\ disk \in Strings
  BY DEF Types
<1>3. Begins(disk, Text(v))
  BY <1>2, TextType, BeginsIs
<1>4. Begins(q, Text(v))
  BY <1>1, <1>3, BeginsThen
<1>5. QED
  BY <1>1, <1>2, <1>4, ReadsPart

\* The types and the last load imply OwnLine.
LEMMA OwnLineFollows == Types /\ Loaded => OwnLine
<1> SUFFICES ASSUME Types, Loaded, load # <<>>, NEW v \in saves, IsPrefix(disk, Text(v)),
                    NEW s \in Settings
             PROVE  \/ value[load[1]][s] = Defaults[s]
                    \/ IsPrefix(value[load[1]][s], LoadFrom(Write(s, v[s]), Defaults)[s])
  BY DEF OwnLine
<1> DEFINE read == value[load[1]]
<1>1. v \in Values /\ read \in Values /\ v[s] \in Strings /\ read[s] \in Strings
  <2>1. load[1] \in Bots
    BY DEF Types
  <2>2. QED
    BY <2>1 DEF Types, Values
<1>2. PICK m \in 0 .. Len(Names) : ReadUpTo(v, m, read)
  BY PartLoaded
<1>3. PICK i \in 1 .. Len(Names) : s = Names[i]
  BY NamesType
<1> HIDE DEF read
<1>4. Meaning(v[s]) \in Strings
  BY <1>1, MeaningType
<1>5. read[s] = Defaults[s] \/ Begins(read[s], Meaning(v[s]))
  <2>0. Len(Names) \in Nat
    BY NamesType
  <2>1. CASE i <= m
    <3>1. read[s] \in {Defaults[s], Meaning(v[s])}
      BY <1>2, <1>3, <2>1 DEF ReadUpTo
    <3>2. QED
      BY <1>4, <3>1, BeginsSelf
  <2>2. CASE i = m + 1
    BY <1>2, <1>3, <2>0, <2>2 DEF ReadUpTo
  <2>3. CASE i > m + 1
    <3>1. i \in m + 2 .. Len(Names)
      BY <2>0, <2>3
    <3>2. QED
      BY <1>2, <1>3, <3>1 DEF ReadUpTo
  <2>4. QED
    BY <2>0, <2>1, <2>2, <2>3
<1>6. LoadFrom(Write(s, v[s]), Defaults)[s] = Meaning(v[s])
  BY <1>1, LoadLine
<1>7. Begins(read[s], Meaning(v[s])) <=> IsPrefix(read[s], Meaning(v[s]))
  BY <1>1, <1>4, BeginsIs
<1>8. QED
  BY <1>5, <1>6, <1>7 DEF read

\* A value that is safe has no quotation mark, and is read as it was written.
LEMMA SafeExpected ==
  ASSUME NEW v \in Values, NEW s \in Settings, Safe(v[s])
  PROVE  Meaning(v[s]) = v[s] /\ Expected(v, s) = v[s] /\ "quote" \notin Range(v[s])
<1>1. v[s] \in Strings
  BY DEF Values
<1>2. Meaning(v[s]) = v[s]
  BY <1>1, SafeMeaning
<1>3. QED
  BY <1>2 DEF Expected, Safe

\* The types and the last load imply InOrder.
LEMMA InOrderFollows == Types /\ Loaded => InOrder
<1> SUFFICES ASSUME Types, Loaded, load # <<>>, NEW v \in saves, IsPrefix(disk, Text(v)),
                    \A s \in Settings : Safe(v[s])
             PROVE  \E k \in DOMAIN Names :
                       /\ \A i \in 1 .. k - 1 : value[load[1]][Names[i]] = v[Names[i]]
                       /\ \/ value[load[1]][Names[k]] = Defaults[Names[k]]
                          \/ IsPrefix(value[load[1]][Names[k]], v[Names[k]])
                       /\ \A i \in k + 1 .. Len(Names) :
                             value[load[1]][Names[i]] = Defaults[Names[i]]
  BY DEF InOrder
<1> DEFINE read == value[load[1]]
<1>1. v \in Values /\ read \in Values
  <2>1. load[1] \in Bots
    BY DEF Types
  <2>2. QED
    BY <2>1 DEF Types
<1>2. PICK m \in 0 .. Len(Names) : ReadUpTo(v, m, read)
  BY PartLoaded
<1> HIDE DEF read
<1>3. /\ Len(Names) \in Nat \ {0} /\ DOMAIN Names = 1 .. Len(Names)
      /\ \A i \in 1 .. Len(Names) : Names[i] \in Settings
  BY NamesType
<1>4. \A i \in 1 .. Len(Names) :
         /\ Meaning(v[Names[i]]) = v[Names[i]] /\ Expected(v, Names[i]) = v[Names[i]]
         /\ "quote" \notin Range(v[Names[i]])
         /\ v[Names[i]] \in Strings /\ read[Names[i]] \in Strings
  BY <1>1, <1>3, SafeExpected DEF Values
<1>5. ASSUME NEW i \in 1 .. m PROVE read[Names[i]] = v[Names[i]]
  <2>1. i \in 1 .. Len(Names) /\ \A j \in 1 .. i - 1 : j \in 1 .. Len(Names)
    BY <1>3
  <2>2. NoQuote(v, i - 1)
    BY <1>4, <2>1 DEF NoQuote
  <2>3. QED
    BY <1>2, <1>4, <2>1, <2>2 DEF ReadUpTo
<1>6. CASE m = Len(Names)
  <2> DEFINE k == Len(Names)
  <2>1. k \in DOMAIN Names /\ k \in 1 .. m /\ \A i \in 1 .. k - 1 : i \in 1 .. m
    BY <1>3, <1>6
  <2>2. IsPrefix(v[Names[k]], v[Names[k]])
    BY <1>3, <1>4, <2>1, BeginsSelf, BeginsIs
  <2>3. k + 1 .. Len(Names) = {}
    BY <1>3
  <2>4. read[Names[k]] = v[Names[k]] /\ \A i \in 1 .. k - 1 : read[Names[i]] = v[Names[i]]
    BY <1>5, <2>1
  <2> HIDE DEF k
  <2>5. QED
    BY <2>1, <2>2, <2>3, <2>4 DEF read
<1>7. CASE m # Len(Names)
  <2> DEFINE k == m + 1
  <2>1. /\ k \in DOMAIN Names /\ k \in 1 .. Len(Names) /\ m < Len(Names) /\ k - 1 = m
        /\ k + 1 = m + 2
    <3>1. \A n \in Nat : \A j \in 0 .. n : j # n =>
             j + 1 \in 1 .. n /\ j < n /\ (j + 1) - 1 = j /\ (j + 1) + 1 = j + 2
      OBVIOUS
    <3>2. QED
      BY <1>3, <1>7, <3>1
  <2>2. \A i \in 1 .. k - 1 : read[Names[i]] = v[Names[i]]
    BY <1>5, <2>1
  <2>3. read[Names[k]] = Defaults[Names[k]] \/ IsPrefix(read[Names[k]], v[Names[k]])
    BY <1>2, <1>4, <2>1, BeginsIs DEF ReadUpTo
  <2>4. \A i \in k + 1 .. Len(Names) : read[Names[i]] = Defaults[Names[i]]
    BY <1>2, <2>1 DEF ReadUpTo
  <2> HIDE DEF k
  <2>5. QED
    BY <2>1, <2>2, <2>3, <2>4 DEF read
<1>8. QED
  BY <1>6, <1>7

\* The types and the last load imply RoundTrip.
LEMMA RoundTripFollows == Types /\ Loaded => RoundTrip
<1> SUFFICES ASSUME Types, Loaded, load # <<>>, load[2], NEW v \in saves, disk = Text(v),
                    NEW i \in DOMAIN Names, ~QuoteBefore(v, i)
             PROVE  value[load[1]][Names[i]] = v[Names[i]]
                       <=> Safe(v[Names[i]]) \/ v[Names[i]] = Defaults[Names[i]]
  BY DEF RoundTrip
<1> DEFINE read == value[load[1]]
           s == Names[i]
<1>1. v \in Values /\ disk \in Strings
  BY DEF Types
<1>2. /\ Len(Names) \in Nat /\ i \in 1 .. Len(Names) /\ s \in Settings
  BY NamesType
<1>3. read = LoadFrom(disk, Defaults)
  BY DEF Loaded
<1> HIDE DEF read
<1>4. Ending(PushAll(Fresh, disk), read) /\ Begins(disk, Text(v))
  BY <1>1, <1>3, LoadFromEnding, BeginsSelf
<1>5. ReadUpTo(v, Len(Names), read)
  BY <1>1, <1>4, ReadsPart
<1>6. NoQuote(v, i - 1)
  BY DEF QuoteBefore, NoQuote
<1>7. read[s] = Expected(v, s)
  BY <1>2, <1>5, <1>6 DEF ReadUpTo
<1>8. Meaning(v[s]) = v[s] <=> Safe(v[s])
  <2>1. v[s] \in Strings
    BY <1>1, <1>2 DEF Values
  <2>2. QED
    BY <2>1, SafeMeaning
<1>9. QED
  BY <1>7, <1>8 DEF Expected, read

\* The inductive invariant of the three theorems below.
LEMMA LoadedHolds == Spec => [](Types /\ Loaded)
<1>1. Init => Types /\ Loaded
  BY TypesInit, LoadedInit
<1>2. Types /\ Loaded /\ [Next]_vars => (Types /\ Loaded)'
  BY TypesNext, LoadedNext
<1>3. QED
  BY <1>1, <1>2, PTL DEF Spec

\* A file that was written completely gives back, up to the first setting with
\* a quotation mark, exactly the safe values and the defaults (writeEscaped
\* against pushChar, saveTo with only_changed against the reset in loadFrom), for
\* every table of settings and all texts.
THEOREM RoundTripHolds == Spec => []RoundTrip
BY LoadedHolds, RoundTripFollows, PTL

\* Wherever the file or the read ends, each setting has its default or a
\* beginning of what its own line says (finishString clears the key, the value
\* and the blanks).
THEOREM OwnLineHolds == Spec => []OwnLine
BY LoadedHolds, OwnLineFollows, PTL

\* A file that was cut short, or a read of it that fails, gives back safe values
\* in the order of the names up to one that may be cut, and the defaults of all
\* after it.
THEOREM InOrderHolds == Spec => []InOrder
BY LoadedHolds, InOrderFollows, PTL
=============================================================================
