----------------------------- MODULE TextProofs -----------------------------
(***************************************************************************)
(* Text: the pieces a turn streams, the prompts of a conversation, the     *)
(* choice of the next token, and the pieces a text is cut into before its  *)
(* characters are merged.                                                  *)
(*                                                                         *)
(* Streaming.  Decoded is a recursive function over the bytes, so what it  *)
(* computes is shown by induction: it runs through the bytes one by one    *)
(* (DecodedRun), a valid front does not change what follows (DecodeConcat) *)
(* and drain_valid_utf8 drains the longest valid front (ValidUpToFacts).   *)
(* The invariant Streaming then says that what was streamed is the text of *)
(* a front of the bytes, and the buffer the rest of them.                  *)
(*                                                                         *)
(* Prompts.  Every template is a start, the messages one by one and an     *)
(* end; the answer and the next question go behind the messages, and how   *)
(* the answer is written begins with the end of this prompt.               *)
(*                                                                         *)
(* Sampling.  The candidates can be sorted (OrderExists), what top_k and   *)
(* top_p leave of them are the first ones (TopKIsFirst,                    *)
(* RetainedIsNucleus), and the needle falls on the one whose share it is   *)
(* in (NeedleFalls).                                                       *)
(*                                                                         *)
(* Pieces.  What each alternative of the pattern matches is stated by      *)
(* positions (Contracted, Wordy, Numeric, Marked2, Spaced); the branches   *)
(* of the scanner are then taken one by one, each with the lemma that the  *)
(* earlier alternatives match nothing where it is reached (PieceIsMatch).  *)
(***************************************************************************)
EXTENDS Utf8Stream, ChatTemplate, Sampler, Tokenization, SequenceTheorems, FiniteSetTheorems,
        WellFoundedInduction, TLAPS

\* A set of numbers that is not empty has a least one.
LEMMA LeastOf ==
    ASSUME NEW S \in SUBSET Nat, S # {}
    PROVE  \E m \in S : \A n \in S : m <= n
<1>1. \A x, y \in Nat : x < y => <<x, y>> \in OpToRel(<, Nat)
  BY DEF OpToRel
<1>2. PICK m \in S : \A x \in S : ~ (<<x, m>> \in OpToRel(<, Nat))
  BY NatLessThanWellFounded, WFMin
<1>3. \A n \in S : ~(n < m) /\ n \in Nat /\ m \in Nat
  BY <1>1, <1>2
<1>4. QED
  BY <1>3

\* Induction over numbers, for a set that says what is to be shown of each.
LEMMA SetInduction ==
    ASSUME NEW S, 0 \in S, \A n \in Nat : n \in S => n + 1 \in S
    PROVE  Nat \subseteq S
<1> SUFFICES ASSUME Nat \ S # {} PROVE FALSE
  OBVIOUS
<1>1. PICK m \in Nat \ S : \A n \in Nat \ S : m <= n
  BY LeastOf
<1>2. m # 0 /\ m - 1 \in Nat /\ m - 1 \in S
  BY <1>1
<1>3. QED
  BY <1>1, <1>2

\* Elements at the end of a sequence.
LEMMA Appended ==
    ASSUME NEW S, NEW s \in Seq(S), NEW d \in S, NEW e \in S
    PROVE  /\ Append(s, d) \in Seq(S) /\ Append(s, d) = s \o <<d>>
           /\ Append(Append(s, d), e) \in Seq(S)
           /\ Append(Append(s, d), e) = s \o <<d, e>>
           /\ s \o <<>> = s /\ <<>> \in Seq(S) /\ <<d>> \in Seq(S) /\ <<d, e>> \in Seq(S)
OBVIOUS

-----------------------------------------------------------------------------
Chars == Seq(Bytes \union {"U+FFFD"})
Texts == Seq(Chars)
Partial == [chars : Texts, part : Seq(Bytes)]
Nothing == [chars |-> <<>>, part |-> <<>>]

\* What is decoded of no bytes.
LEMMA NothingPartial == Nothing \in Partial
BY DEF Nothing, Partial, Texts

\* A function that is given step by step exists.
LEMMA RunExists ==
    ASSUME NEW n \in Nat, NEW F \in [1..n -> [Partial -> Partial]]
    PROVE  \E run \in [0..n -> Partial] :
              run[0] = Nothing /\ \A i \in 1..n : run[i] = F[i][run[i - 1]]
<1> DEFINE Runs(k) == {run \in [0..k -> Partial] :
                          run[0] = Nothing /\ \A i \in 1..k : run[i] = F[i][run[i - 1]]}
           S == {k \in Nat : k > n \/ Runs(k) # {}}
<1>1. 0 \in S
  <2>1. [i \in 0..0 |-> Nothing] \in Runs(0)
    BY NothingPartial
  <2>2. QED
    BY <2>1
<1>2. ASSUME NEW k \in Nat, k \in S PROVE k + 1 \in S
  <2>1. CASE k + 1 > n
    BY <2>1
  <2>2. CASE k + 1 <= n
    <3>1. PICK run \in Runs(k) : TRUE
      BY <1>2, <2>2
    <3>2. run[k] \in Partial /\ F[k + 1][run[k]] \in Partial
      BY <2>2, <3>1
    <3> DEFINE more == [i \in 0..(k + 1) |-> IF i = k + 1 THEN F[k + 1][run[k]] ELSE run[i]]
    <3>3. more \in [0..(k + 1) -> Partial] /\ more[0] = Nothing
      BY <3>1, <3>2
    <3>4. ASSUME NEW i \in 1..(k + 1) PROVE more[i] = F[i][more[i - 1]]
      <4>1. CASE i = k + 1
        BY <4>1
      <4>2. CASE i \in 1..k
        <5>1. more[i] = run[i] /\ more[i - 1] = run[i - 1]
          BY <4>2
        <5>2. run[i] = F[i][run[i - 1]]
          BY <3>1, <4>2
        <5>3. QED
          BY <5>1, <5>2
      <4>3. QED
        BY <3>4, <4>1, <4>2
    <3>5. more \in Runs(k + 1)
      BY <3>3, <3>4
    <3>6. QED
      BY <3>5
  <2>3. QED
    BY <2>1, <2>2
<1>3. Nat \subseteq S
  BY <1>1, <1>2, SetInduction
<1>4. Runs(n) # {}
  BY <1>3
<1>5. QED
  BY <1>4

\* One byte more, the cases of Step.
LEMMA StepCases ==
    ASSUME NEW acc \in Partial, NEW byte \in Bytes
    PROVE  /\ Step(acc, byte) \in Partial
           /\ \E more \in Texts : Step(acc, byte).chars = acc.chars \o more
<1> DEFINE broken == IF acc.part = <<>> THEN acc.chars ELSE Append(acc.chars, Replacement)
           grown == Append(acc.part, byte)
<1>1. acc.chars \in Texts /\ acc.part \in Seq(Bytes)
  BY DEF Partial
<1>2. /\ Replacement \in Chars /\ <<byte>> \in Chars
      /\ <<byte>> \in Seq(Bytes) /\ <<>> \in Seq(Bytes)
      /\ grown \in Seq(Bytes) /\ grown \in Chars
  BY <1>1 DEF Replacement, Chars
<1>3. /\ Append(acc.chars, grown) \in Texts
      /\ Append(acc.chars, Replacement) \in Texts
      /\ Append(acc.chars, <<byte>>) \in Texts
      /\ Append(Append(acc.chars, Replacement), <<byte>>) \in Texts
      /\ Append(Append(acc.chars, Replacement), Replacement) \in Texts
  BY <1>1, <1>2, Appended DEF Texts
<1>4. PICK chars, part : Step(acc, byte) = [chars |-> chars, part |-> part]
         /\ chars \in {acc.chars, broken, Append(acc.chars, grown), Append(broken, <<byte>>),
                       Append(broken, Replacement)}
         /\ part \in {<<>>, grown, <<byte>>}
  BY DEF Step
<1>5. chars \in {acc.chars, Append(acc.chars, grown), Append(acc.chars, Replacement),
                 Append(acc.chars, <<byte>>), Append(Append(acc.chars, Replacement), <<byte>>),
                 Append(Append(acc.chars, Replacement), Replacement)}
  BY <1>4
<1>6. chars \in Texts /\ part \in Seq(Bytes)
  BY <1>1, <1>2, <1>3, <1>4, <1>5
<1>7. ASSUME NEW d \in Chars, NEW e \in Chars
      PROVE  /\ acc.chars = acc.chars \o <<>> /\ <<>> \in Texts
             /\ Append(acc.chars, d) = acc.chars \o <<d>> /\ <<d>> \in Texts
             /\ Append(Append(acc.chars, d), e) = acc.chars \o <<d, e>> /\ <<d, e>> \in Texts
  BY <1>1, Appended DEF Texts
<1> HIDE DEF broken, grown
<1>8. \E more \in Texts : chars = acc.chars \o more
  BY <1>2, <1>5, <1>7
<1>9. QED
  BY <1>4, <1>6, <1>8 DEF Partial

\* The states the decoder goes through.
Run(octets, run) ==
    /\ run \in [0..Len(octets) -> Partial]
    /\ run[0] = Nothing
    /\ \A i \in 1..Len(octets) : run[i] = Step(run[i - 1], octets[i])

\* Decoded goes through the bytes one by one, whatever their number.
LEMMA DecodedRun ==
    ASSUME NEW octets \in Seq(Bytes)
    PROVE  \E run : Run(octets, run) /\ Decoded(octets) = run[Len(octets)]
<1> DEFINE F == [i \in 1..Len(octets) |-> [acc \in Partial |-> Step(acc, octets[i])]]
           after(f) == [n \in 0..Len(octets) |->
                           IF n = 0 THEN [chars |-> <<>>, part |-> <<>>]
                           ELSE Step(f[n - 1], octets[n])]
<1>1. F \in [1..Len(octets) -> [Partial -> Partial]]
  BY StepCases
<1>2. \E run \in [0..Len(octets) -> Partial] :
         run[0] = Nothing /\ \A i \in 1..Len(octets) : run[i] = F[i][run[i - 1]]
  <2>1. Len(octets) \in Nat
    OBVIOUS
  <2> HIDE DEF F
  <2>2. QED
    BY <1>1, <2>1, RunExists
<1> PICK run \in [0..Len(octets) -> Partial] :
         run[0] = Nothing /\ \A i \in 1..Len(octets) : run[i] = F[i][run[i - 1]]
  BY <1>2
<1>3. \A i \in 1..Len(octets) : run[i] = Step(run[i - 1], octets[i])
  <2> TAKE i \in 1..Len(octets)
  <2>1. run[i - 1] \in Partial
    BY <1>2
  <2>2. QED
    BY <1>2, <2>1
<1>4. run = after(run)
  BY <1>3 DEF Nothing
<1> DEFINE f == CHOOSE f : f = after(f)
<1>5. f = after(f)
  BY <1>4
<1>6. Decoded(octets) = f[Len(octets)]
  BY DEF Decoded
<1> HIDE DEF f
<1>7. ASSUME NEW k \in Nat, k <= Len(octets) => f[k] = run[k], k + 1 <= Len(octets)
      PROVE  f[k + 1] = run[k + 1]
  <2>1. f[k + 1] = Step(f[k], octets[k + 1])
    BY <1>5, <1>7
  <2>2. QED
    BY <1>3, <1>7, <2>1
<1>8. f[0] = run[0]
  BY <1>2, <1>5 DEF Nothing
<1> DEFINE S == {k \in Nat : k <= Len(octets) => f[k] = run[k]}
<1>9. Nat \subseteq S
  <2>1. 0 \in S
    BY <1>8
  <2>2. \A k \in Nat : k \in S => k + 1 \in S
    BY <1>7
  <2> HIDE DEF S
  <2>3. QED
    BY <2>1, <2>2, SetInduction
<1>10. Decoded(octets) = run[Len(octets)]
  BY <1>6, <1>9
<1>11. QED
  BY <1>2, <1>3, <1>10 DEF Run

\* There is only one such run, also for a beginning of the bytes.
LEMMA OneRun ==
    ASSUME NEW octets \in Seq(Bytes), NEW more \in Seq(Bytes), Len(octets) <= Len(more),
           \A i \in 1..Len(octets) : octets[i] = more[i],
           NEW run, NEW longer, Run(octets, run), Run(more, longer),
           NEW n \in 0..Len(octets)
    PROVE  run[n] = longer[n]
<1> DEFINE S == {k \in Nat : k <= Len(octets) => run[k] = longer[k]}
<1>1. 0 \in S
  BY DEF Run
<1>2. ASSUME NEW k \in Nat, k \in S PROVE k + 1 \in S
  <2>1. CASE k + 1 <= Len(octets)
    <3>1. run[k] = longer[k] /\ octets[k + 1] = more[k + 1]
      BY <1>2, <2>1
    <3>2. run[k + 1] = Step(run[k], octets[k + 1]) /\ longer[k + 1] = Step(longer[k], more[k + 1])
      <4>1. k + 1 \in 1..Len(octets) /\ k + 1 \in 1..Len(more) /\ (k + 1) - 1 = k
        BY <2>1
      <4>2. QED
        BY <4>1 DEF Run
    <3>3. QED
      BY <3>1, <3>2
  <2>2. QED
    BY <2>1
<1> HIDE DEF S
<1>3. Nat \subseteq S
  BY <1>1, <1>2, SetInduction
<1>4. QED
  BY <1>3 DEF S

\* What it decodes is characters, and bytes of a character it has begun.
LEMMA DecodedType == ASSUME NEW octets \in Seq(Bytes) PROVE Decoded(octets) \in Partial
BY DecodedRun DEF Run

\* Of no bytes it decodes nothing.
LEMMA DecodedEmpty == Decoded(<<>>) = Nothing
<1>1. <<>> \in Seq(Bytes) /\ Len(<<>>) = 0
  OBVIOUS
<1>2. PICK run : Run(<<>>, run) /\ Decoded(<<>>) = run[Len(<<>>)]
  BY <1>1, DecodedRun
<1>3. QED
  BY <1>1, <1>2 DEF Run

\* One byte more is one step more.
LEMMA DecodedAppend ==
    ASSUME NEW octets \in Seq(Bytes), NEW byte \in Bytes
    PROVE  Decoded(Append(octets, byte)) = Step(Decoded(octets), byte)
<1> DEFINE more == Append(octets, byte)  n == Len(octets)
<1>1. /\ more \in Seq(Bytes) /\ Len(more) = n + 1 /\ n \in Nat /\ more[n + 1] = byte
      /\ \A i \in 1..n : octets[i] = more[i]
  OBVIOUS
<1> HIDE DEF more, n
<1>2. PICK run : Run(octets, run) /\ Decoded(octets) = run[n]
  BY DecodedRun DEF n
<1>3. PICK longer : Run(more, longer) /\ Decoded(more) = longer[n + 1]
  BY <1>1, DecodedRun
<1>4. run[n] = longer[n]
  BY <1>1, <1>2, <1>3, OneRun DEF n
<1>5. longer[n + 1] = Step(longer[n], byte)
  <2>1. n + 1 \in 1..Len(more) /\ (n + 1) - 1 = n
    BY <1>1
  <2>2. QED
    BY <1>1, <1>3, <2>1 DEF Run
<1>6. QED
  BY <1>2, <1>3, <1>4, <1>5 DEF more

\* An element appended to two sequences is appended to the second.
LEMMA AppendAfter ==
    ASSUME NEW S, NEW x \in Seq(S), NEW y \in Seq(S), NEW d \in S
    PROVE  Append(x \o y, d) = x \o Append(y, d) /\ Append(y, d) \in Seq(S)
OBVIOUS

\* The characters already decoded stay in front of what a step makes of the next byte.
LEMMA StepShift ==
    ASSUME NEW x \in Texts, NEW acc \in Partial, NEW byte \in Bytes
    PROVE  Step([chars |-> x \o acc.chars, part |-> acc.part], byte)
             = [chars |-> x \o Step(acc, byte).chars, part |-> Step(acc, byte).part]
<1> DEFINE far == [chars |-> x \o acc.chars, part |-> acc.part]
           broken == IF acc.part = <<>> THEN acc.chars ELSE Append(acc.chars, Replacement)
           brokenFar == IF acc.part = <<>> THEN far.chars ELSE Append(far.chars, Replacement)
           grown == Append(acc.part, byte)
<1>1. acc.chars \in Texts /\ acc.part \in Seq(Bytes)
  BY DEF Partial
<1>2. /\ Replacement \in Chars /\ <<byte>> \in Chars
      /\ grown \in Chars
  BY <1>1 DEF Replacement, Chars
<1>3. ASSUME NEW y \in Texts, NEW d \in Chars
      PROVE  Append(x \o y, d) = x \o Append(y, d) /\ Append(y, d) \in Texts
  BY AppendAfter DEF Texts
<1>4. broken \in Texts /\ brokenFar = x \o broken
  BY <1>1, <1>2, <1>3
<1>5. far.part = acc.part /\ far.chars = x \o acc.chars
  OBVIOUS
<1>6. Append(far.chars, grown) = x \o Append(acc.chars, grown)
  BY <1>1, <1>2, <1>3, <1>5
<1>7. /\ Append(brokenFar, <<byte>>) = x \o Append(broken, <<byte>>)
      /\ Append(brokenFar, Replacement) = x \o Append(broken, Replacement)
  BY <1>2, <1>3, <1>4
<1>8. CASE byte = "cont" /\ acc.part # <<>>
  <2>1. Step(acc, byte) = IF Len(grown) = Width(grown[1])
                          THEN [chars |-> Append(acc.chars, grown), part |-> <<>>]
                          ELSE [chars |-> acc.chars, part |-> grown]
    BY <1>8 DEF Step
  <2>2. Step(far, byte) = IF Len(grown) = Width(grown[1])
                          THEN [chars |-> Append(far.chars, grown), part |-> <<>>]
                          ELSE [chars |-> far.chars, part |-> grown]
    BY <1>5, <1>8 DEF Step
  <2> HIDE DEF grown
  <2>3. CASE Len(grown) = Width(grown[1])
    <3>1. Step(acc, byte).chars = Append(acc.chars, grown) /\ Step(acc, byte).part = <<>>
      BY <2>1, <2>3
    <3>2. Step(far, byte) = [chars |-> Append(far.chars, grown), part |-> <<>>]
      BY <2>2, <2>3
    <3>3. QED
      BY <1>6, <3>1, <3>2
  <2>4. CASE Len(grown) # Width(grown[1])
    <3>1. Step(acc, byte).chars = acc.chars /\ Step(acc, byte).part = grown
      BY <2>1, <2>4
    <3>2. Step(far, byte) = [chars |-> far.chars, part |-> grown]
      BY <2>2, <2>4
    <3>3. QED
      BY <1>5, <3>1, <3>2
  <2>5. QED
    BY <2>3, <2>4
<1>9. CASE byte = "ascii"
  <2>1. Step(acc, byte) = [chars |-> Append(broken, <<byte>>), part |-> <<>>]
    BY <1>9 DEF Step
  <2>2. Step(far, byte) = [chars |-> Append(brokenFar, <<byte>>), part |-> <<>>]
    BY <1>5, <1>9 DEF Step
  <2> HIDE DEF broken, brokenFar
  <2>3. Step(acc, byte).chars = Append(broken, <<byte>>) /\ Step(acc, byte).part = <<>>
    BY <2>1
  <2>4. QED
    BY <1>7, <2>2, <2>3
<1>10. CASE byte \in {"lead2", "lead3"}
  <2>1. Step(acc, byte) = [chars |-> broken, part |-> <<byte>>]
    BY <1>10 DEF Step
  <2>2. Step(far, byte) = [chars |-> brokenFar, part |-> <<byte>>]
    BY <1>5, <1>10 DEF Step
  <2> HIDE DEF broken, brokenFar
  <2>3. QED
    BY <1>4, <2>1, <2>2
<1>11. CASE ~ (byte = "cont" /\ acc.part # <<>>) /\ byte \notin {"ascii", "lead2", "lead3"}
  <2>1. Step(acc, byte) = [chars |-> Append(broken, Replacement), part |-> <<>>]
    BY <1>11 DEF Step
  <2>2. Step(far, byte) = [chars |-> Append(brokenFar, Replacement), part |-> <<>>]
    BY <1>5, <1>11 DEF Step
  <2> HIDE DEF broken, brokenFar
  <2>3. QED
    BY <1>7, <2>1, <2>2
<1>12. QED
  BY <1>8, <1>9, <1>10, <1>11

\* A sequence that is not empty has a last element.
LEMMA LastOf ==
    ASSUME NEW c \in Seq(Bytes), NEW k \in Nat, Len(c) = k + 1
    PROVE  \E d \in Seq(Bytes), e \in Bytes : c = Append(d, e) /\ Len(d) = k /\ d = SubSeq(c, 1, k)
<1> DEFINE d == SubSeq(c, 1, k)
<1>1. d \in Seq(Bytes) /\ Len(d) = k /\ c[k + 1] \in Bytes /\ \A i \in 1..k : d[i] = c[i]
  OBVIOUS
<1> HIDE DEF d
<1>2. /\ Append(d, c[k + 1]) \in Seq(Bytes) /\ Len(Append(d, c[k + 1])) = Len(c)
      /\ \A i \in 1..Len(c) : Append(d, c[k + 1])[i] = c[i]
  BY <1>1
<1>3. c = Append(d, c[k + 1])
  BY <1>2, SeqEqual
<1>4. QED
  BY <1>1, <1>3 DEF d

\* After whole characters the decoder starts anew.
LEMMA DecodeConcat ==
    ASSUME NEW a \in Seq(Bytes), Decoded(a).part = <<>>, NEW b \in Seq(Bytes)
    PROVE  Decoded(a \o b) = [chars |-> Decoded(a).chars \o Decoded(b).chars,
                              part  |-> Decoded(b).part]
<1> DEFINE P(c) == Decoded(a \o c) = [chars |-> Decoded(a).chars \o Decoded(c).chars,
                                      part  |-> Decoded(c).part]
           S == {k \in Nat : \A c \in Seq(Bytes) : Len(c) = k => P(c)}
<1>1. Decoded(a) \in Partial /\ Decoded(a).chars \in Texts
  BY DecodedType DEF Partial
<1>2. 0 \in S
  <2> HIDE DEF P
  <2> SUFFICES ASSUME NEW c \in Seq(Bytes), Len(c) = 0 PROVE P(c)
    OBVIOUS
  <2> HIDE DEF S
  <2>1. c = <<>>
    OBVIOUS
  <2>6. a \o c = a
    BY <2>1
  <2> USE DEF P
  <2>2. Decoded(c).chars = <<>> /\ Decoded(c).part = <<>>
    BY <2>1, DecodedEmpty DEF Nothing
  <2>3. Decoded(a).chars \o <<>> = Decoded(a).chars
    BY <1>1 DEF Texts
  <2>4. Decoded(a) = [chars |-> Decoded(a).chars, part |-> Decoded(a).part]
    BY <1>1 DEF Partial
  <2>5. QED
    BY <2>1, <2>2, <2>3, <2>4, <2>6
<1>3. ASSUME NEW k \in Nat, k \in S PROVE k + 1 \in S
  <2> HIDE DEF P
  <2> SUFFICES ASSUME NEW c \in Seq(Bytes), Len(c) = k + 1 PROVE P(c)
    OBVIOUS
  <2> USE DEF P
  <2>1. PICK d \in Seq(Bytes), e \in Bytes : c = Append(d, e) /\ Len(d) = k
    BY LastOf
  <2>2. P(d)
    BY <1>3, <2>1
  <2>3. a \o c = Append(a \o d, e) /\ a \o d \in Seq(Bytes)
    BY <2>1
  <2>4. Decoded(c) = Step(Decoded(d), e) /\ Decoded(d) \in Partial
    BY <2>1, DecodedAppend, DecodedType
  <2>5. Decoded(a \o c) = Step(Decoded(a \o d), e)
    BY <2>3, DecodedAppend
  <2> HIDE DEF S
  <2>6. Step([chars |-> Decoded(a).chars \o Decoded(d).chars, part |-> Decoded(d).part], e)
          = [chars |-> Decoded(a).chars \o Step(Decoded(d), e).chars,
             part  |-> Step(Decoded(d), e).part]
    BY <1>1, <2>4, StepShift
  <2>7. QED
    BY <2>2, <2>4, <2>5, <2>6
<1>4. Nat \subseteq S
  <2> HIDE DEF S
  <2>1. QED
    BY <1>2, <1>3, SetInduction
<1>5. Len(b) \in Nat
  OBVIOUS
<1>6. P(b)
  <2> HIDE DEF P
  <2>1. QED
    BY <1>4, <1>5
<1>7. QED
  BY <1>6

\* The same of two texts.
LEMMA AppendText ==
    ASSUME NEW x \in Texts, NEW y \in Texts, NEW d \in Chars
    PROVE  Append(x \o y, d) = x \o Append(y, d) /\ Append(y, d) \in Texts
<1>1. x \in Seq(Chars) /\ y \in Seq(Chars)
  BY DEF Texts
<1>2. Append(x \o y, d) = x \o Append(y, d) /\ Append(y, d) \in Seq(Chars)
  BY <1>1, AppendAfter
<1>3. QED
  BY <1>2 DEF Texts

\* What DecodeConcat says of the fields.
LEMMA DecodeParts ==
    ASSUME NEW a \in Seq(Bytes), Decoded(a).part = <<>>, NEW b \in Seq(Bytes)
    PROVE  /\ Decoded(a \o b).chars = Decoded(a).chars \o Decoded(b).chars
           /\ Decoded(a \o b).part = Decoded(b).part
<1> DEFINE c == Decoded(a).chars \o Decoded(b).chars  d == Decoded(a \o b)
<1>1. d = [chars |-> c, part |-> Decoded(b).part]
  BY DecodeConcat
<1> HIDE DEF c, d
<1>2. d.chars = c /\ d.part = Decoded(b).part
  BY <1>1
<1>3. QED
  BY <1>2 DEF c, d

\* No bytes are a valid text.
LEMMA EmptyValid == <<>> \in Seq(Bytes) /\ IsUtf8(<<>>)
BY DecodedEmpty DEF IsUtf8, Nothing

\* Two valid texts, one after the other.
LEMMA JoinValid ==
    ASSUME NEW a \in Seq(Bytes), NEW b \in Seq(Bytes), IsUtf8(a), IsUtf8(b)
    PROVE  IsUtf8(a \o b) /\ Decoded(a \o b).chars = Decoded(a).chars \o Decoded(b).chars
<1>1. /\ Decoded(a).chars \in Seq(Chars) /\ Decoded(b).chars \in Seq(Chars)
      /\ Decoded(a).part = <<>> /\ Decoded(b).part = <<>>
  BY DecodedType DEF IsUtf8, Partial, Texts
<1>2. /\ Decoded(a \o b).chars = Decoded(a).chars \o Decoded(b).chars
      /\ Decoded(a \o b).part = <<>>
  BY <1>1, DecodeParts
<1>3. ASSUME NEW s \in Seq(Chars), NEW t \in Seq(Chars),
             \A i \in DOMAIN s : s[i] # Replacement, \A i \in DOMAIN t : t[i] # Replacement,
             NEW i \in DOMAIN (s \o t)
      PROVE  (s \o t)[i] # Replacement
  <2>1. CASE i \in DOMAIN s
    BY <1>3, <2>1
  <2>2. CASE i - Len(s) \in DOMAIN t
    BY <1>3, <2>2
  <2>3. QED
    BY <2>1, <2>2
<1>4. QED
  BY <1>1, <1>2, <1>3 DEF IsUtf8

\* valid_up_to is the length of the longest beginning that is valid.
LEMMA ValidUpToFacts ==
    ASSUME NEW buffer \in Seq(Bytes)
    PROVE  /\ ValidUpTo(buffer) \in 0..Len(buffer)
           /\ IsUtf8(SubSeq(buffer, 1, ValidUpTo(buffer)))
           /\ \A n \in 0..Len(buffer) : IsUtf8(SubSeq(buffer, 1, n)) => n <= ValidUpTo(buffer)
<1> DEFINE V == {n \in 0..Len(buffer) : IsUtf8(SubSeq(buffer, 1, n))}
           gaps == {k \in 0..Len(buffer) : Len(buffer) - k \in V}
<1>1. Len(buffer) \in Nat /\ V \subseteq 0..Len(buffer)
  OBVIOUS
<1>2. 0 \in V
  <2>1. SubSeq(buffer, 1, 0) = <<>>
    OBVIOUS
  <2>2. IsUtf8(SubSeq(buffer, 1, 0))
    BY <2>1, EmptyValid
  <2>3. QED
    BY <2>2, <1>1
<1>3. ValidUpTo(buffer) = CHOOSE x \in V : \A y \in V : x >= y
  BY DEF ValidUpTo, Max
<1> HIDE DEF V
<1>4. Len(buffer) \in gaps /\ gaps \in SUBSET Nat
  BY <1>1, <1>2
<1>5. PICK m \in gaps : \A k \in gaps : m <= k
  <2> HIDE DEF gaps
  <2>1. QED
    BY <1>4, LeastOf
<1>6. Len(buffer) - m \in V /\ m \in 0..Len(buffer)
  BY <1>5
<1>7. ASSUME NEW y \in V PROVE Len(buffer) - m >= y
  <2>1. y \in 0..Len(buffer)
    BY <1>1
  <2>2. Len(buffer) - y \in 0..Len(buffer) /\ Len(buffer) - (Len(buffer) - y) = y
    BY <1>1, <2>1
  <2>3. Len(buffer) - y \in gaps
    BY <2>2
  <2>4. m <= Len(buffer) - y
    BY <1>5, <2>3
  <2>5. QED
    BY <1>1, <1>6, <2>1, <2>4
<1>8. ValidUpTo(buffer) \in V /\ \A y \in V : ValidUpTo(buffer) >= y
  BY <1>3, <1>6, <1>7
<1>9. ValidUpTo(buffer) \in 0..Len(buffer)
  BY <1>1, <1>8
<1>10. IsUtf8(SubSeq(buffer, 1, ValidUpTo(buffer)))
  BY <1>8 DEF V
<1>11. ASSUME NEW n \in 0..Len(buffer), IsUtf8(SubSeq(buffer, 1, n)) PROVE n <= ValidUpTo(buffer)
  <2>1. n \in V
    BY <1>11 DEF V
  <2>2. QED
    BY <1>8, <1>9, <2>1
<1>12. QED
  BY <1>9, <1>10, <1>11

\* Where a sequence is cut.
LEMMA Cut ==
    ASSUME NEW s \in Seq(Bytes), NEW v \in 0..Len(s)
    PROVE  /\ SubSeq(s, 1, v) \in Seq(Bytes) /\ SubSeq(s, v + 1, Len(s)) \in Seq(Bytes)
           /\ Len(SubSeq(s, 1, v)) = v /\ Len(SubSeq(s, v + 1, Len(s))) = Len(s) - v
           /\ s = SubSeq(s, 1, v) \o SubSeq(s, v + 1, Len(s))
           /\ \A m \in 0..(Len(s) - v) :
                 SubSeq(s, 1, v + m) = SubSeq(s, 1, v) \o SubSeq(SubSeq(s, v + 1, Len(s)), 1, m)
<1> DEFINE a == SubSeq(s, 1, v)  b == SubSeq(s, v + 1, Len(s))
<1>1. /\ a \in Seq(Bytes) /\ b \in Seq(Bytes) /\ Len(a) = v /\ Len(b) = Len(s) - v
      /\ \A i \in 1..v : a[i] = s[i]
      /\ \A i \in 1..(Len(s) - v) : b[i] = s[v + i]
  OBVIOUS
<1> HIDE DEF a, b
<1>2. /\ a \o b \in Seq(Bytes) /\ Len(a \o b) = Len(s)
      /\ \A i \in 1..Len(s) : (a \o b)[i] = IF i <= v THEN a[i] ELSE b[i - v]
  BY <1>1, ConcatProperties
<1>3. s = a \o b
  <2>1. ASSUME NEW i \in 1..Len(s) PROVE (a \o b)[i] = s[i]
    <3>1. CASE i <= v
      BY <1>1, <1>2, <3>1
    <3>2. CASE i > v
      <4>1. i - v \in 1..(Len(s) - v) /\ v + (i - v) = i
        BY <1>1, <3>2
      <4>2. QED
        BY <1>1, <1>2, <3>2, <4>1
    <3>3. i <= v \/ i > v
      OBVIOUS
    <3>4. QED
      BY <3>1, <3>2, <3>3
  <2>2. QED
    BY <1>2, <2>1, SeqEqual
<1>4. ASSUME NEW m \in 0..(Len(s) - v)
      PROVE  SubSeq(s, 1, v + m) = a \o SubSeq(b, 1, m)
  <2> DEFINE c == SubSeq(b, 1, m)  d == SubSeq(s, 1, v + m)
  <2>1. c \in Seq(Bytes) /\ Len(c) = m /\ \A i \in 1..m : c[i] = b[i]
    BY <1>1
  <2>2. d \in Seq(Bytes) /\ Len(d) = v + m /\ \A i \in 1..(v + m) : d[i] = s[i]
    OBVIOUS
  <2> HIDE DEF c, d
  <2>3. /\ a \o c \in Seq(Bytes) /\ Len(a \o c) = v + m
        /\ \A i \in 1..(v + m) : (a \o c)[i] = IF i <= v THEN a[i] ELSE c[i - v]
    <3>1. /\ a \o c \in Seq(Bytes) /\ Len(a \o c) = Len(a) + Len(c)
          /\ \A i \in 1..(Len(a) + Len(c)) :
                (a \o c)[i] = IF i <= Len(a) THEN a[i] ELSE c[i - Len(a)]
      BY <1>1, <2>1, ConcatProperties
    <3>2. QED
      BY <1>1, <2>1, <3>1
  <2>4. ASSUME NEW i \in 1..(v + m) PROVE (a \o c)[i] = d[i]
    <3>1. CASE i <= v
      BY <1>1, <2>2, <2>3, <3>1
    <3>2. CASE i > v
      <4>1. i - v \in 1..m /\ i - v \in 1..(Len(s) - v) /\ v + (i - v) = i
        BY <1>1, <3>2
      <4>2. (a \o c)[i] = c[i - v]
        BY <2>3, <3>2
      <4>3. c[i - v] = b[i - v]
        BY <2>1, <4>1
      <4>4. b[i - v] = s[i]
        BY <1>1, <4>1
      <4>5. QED
        BY <2>2, <4>2, <4>3, <4>4
    <3>3. i <= v \/ i > v
      OBVIOUS
    <3>4. QED
      BY <3>1, <3>2, <3>3
  <2>5. a \o c = d
    BY <2>2, <2>3, <2>4, SeqEqual
  <2>6. QED
    BY <2>5 DEF c, d
<1>5. QED
  BY <1>1, <1>3, <1>4 DEF a, b

\* drain_valid_utf8 before the end: whole characters go, and what stays begins with none.
LEMMA DrainMore ==
    ASSUME NEW buffer \in Seq(Bytes)
    PROVE  \E front \in Seq(Bytes) :
              /\ buffer = front \o Drain(buffer, FALSE).rest
              /\ IsUtf8(front) /\ Drain(buffer, FALSE).piece = Decoded(front).chars
              /\ Drain(buffer, FALSE).rest \in Seq(Bytes)
              /\ ValidUpTo(Drain(buffer, FALSE).rest) = 0
<1> DEFINE v == ValidUpTo(buffer)  d == Drain(buffer, FALSE)
           front == SubSeq(buffer, 1, v)  rest == SubSeq(buffer, v + 1, Len(buffer))
<1>1. /\ v \in 0..Len(buffer) /\ IsUtf8(front) /\ Len(buffer) \in Nat
      /\ \A n \in 0..Len(buffer) : IsUtf8(SubSeq(buffer, 1, n)) => n <= v
  BY ValidUpToFacts
<1> HIDE DEF v
<1>2. /\ front \in Seq(Bytes) /\ rest \in Seq(Bytes) /\ buffer = front \o rest
      /\ Len(front) = v /\ Len(rest) = Len(buffer) - v
      /\ \A m \in 0..(Len(buffer) - v) : SubSeq(buffer, 1, v + m) = front \o SubSeq(rest, 1, m)
  BY <1>1, Cut
<1>3. ValidPrefix(buffer) = Decoded(front).chars
  BY DEF ValidPrefix, v
<1> HIDE DEF front, rest
<1>4. ValidUpTo(rest) = 0
  <2>1. /\ ValidUpTo(rest) \in 0..Len(rest) /\ IsUtf8(SubSeq(rest, 1, ValidUpTo(rest)))
    BY <1>2, ValidUpToFacts
  <2>2. SubSeq(rest, 1, ValidUpTo(rest)) \in Seq(Bytes)
    BY <1>2, <2>1, Cut
  <2>3. IsUtf8(front \o SubSeq(rest, 1, ValidUpTo(rest)))
    BY <1>1, <1>2, <2>1, <2>2, JoinValid
  <2>4. IsUtf8(SubSeq(buffer, 1, v + ValidUpTo(rest)))
    BY <1>1, <1>2, <2>1, <2>3
  <2>5. v + ValidUpTo(rest) \in 0..Len(buffer)
    BY <1>1, <1>2, <2>1
  <2>6. v + ValidUpTo(rest) <= v
    BY <1>1, <2>4, <2>5
  <2>7. QED
    BY <1>1, <1>2, <2>1, <2>6
<1>5. CASE IsUtf8(buffer)
  <2>1. d = [piece |-> Decoded(front).chars, rest |-> <<>>]
    BY <1>3, <1>5 DEF Drain
  <2>2. SubSeq(buffer, 1, Len(buffer)) = buffer
    OBVIOUS
  <2> HIDE DEF d
  <2>7. IsUtf8(SubSeq(buffer, 1, Len(buffer)))
    BY <1>5, <2>2
  <2>3. v = Len(buffer)
    <3>1. Len(buffer) <= v
      BY <1>1, <2>7
    <3>2. QED
      BY <1>1, <3>1
  <2>4. rest = <<>>
    BY <1>1, <1>2, <2>3
  <2>5. d.rest = rest /\ d.piece = Decoded(front).chars
    BY <2>1, <2>4
  <2>6. QED
    BY <1>1, <1>2, <1>4, <2>5 DEF d
<1>6. CASE ~ IsUtf8(buffer) /\ v > 0
  <2>1. d = [piece |-> Decoded(front).chars, rest |-> rest]
    BY <1>3, <1>6 DEF Drain, v, rest
  <2> HIDE DEF d
  <2>2. d.rest = rest /\ d.piece = Decoded(front).chars
    BY <2>1
  <2>3. QED
    BY <1>1, <1>2, <1>4, <2>2 DEF d
<1>7. CASE ~ IsUtf8(buffer) /\ v = 0
  <2>1. d = [piece |-> <<>>, rest |-> buffer]
    BY <1>7 DEF Drain, v
  <2>2. front = <<>>
    BY <1>2, <1>7
  <2>3. Decoded(front).chars = <<>> /\ <<>> \o buffer = buffer
    BY <2>2, DecodedEmpty DEF Nothing
  <2> HIDE DEF d
  <2>4. d.rest = buffer /\ d.piece = Decoded(front).chars /\ buffer = front \o d.rest
    BY <2>1, <2>2, <2>3
  <2>5. QED
    BY <1>1, <1>2, <1>7, <2>4 DEF d, v
<1>8. QED
  <2>1. v > 0 \/ v = 0
    BY <1>1
  <2>2. QED
    BY <2>1, <1>5, <1>6, <1>7

\* and at the end of what begins with no character, nothing stays.
LEMMA DrainEnd ==
    ASSUME NEW buffer \in Seq(Bytes), buffer # <<>>, ValidUpTo(buffer) = 0
    PROVE  Drain(buffer, TRUE) = [piece |-> Lossy(buffer), rest |-> <<>>]
<1>1. Len(buffer) \in Nat /\ Len(buffer) > 0 /\ SubSeq(buffer, 1, Len(buffer)) = buffer
  OBVIOUS
<1>2. ~ IsUtf8(buffer)
  <2>1. \A n \in 0..Len(buffer) : IsUtf8(SubSeq(buffer, 1, n)) => n <= 0
    BY ValidUpToFacts
  <2>2. ~ IsUtf8(SubSeq(buffer, 1, Len(buffer)))
    BY <1>1, <2>1
  <2>3. QED
    BY <1>1, <2>2
<1>3. QED
  BY <1>2 DEF Drain

\* from_utf8_lossy after whole characters.
LEMMA LossyAfter ==
    ASSUME NEW a \in Seq(Bytes), NEW b \in Seq(Bytes), Decoded(a).part = <<>>
    PROVE  /\ Lossy(a \o b) = Decoded(a).chars \o Lossy(b)
           /\ Lossy(b) \in Texts
<1>1. /\ Decoded(a).chars \in Texts /\ Decoded(b).chars \in Texts
  BY DecodedType DEF Partial
<1>2. /\ Decoded(a \o b).chars = Decoded(a).chars \o Decoded(b).chars
      /\ Decoded(a \o b).part = Decoded(b).part
  BY DecodeParts
<1>3. Replacement \in Chars
  BY DEF Replacement, Chars
<1>4. /\ Append(Decoded(a).chars \o Decoded(b).chars, Replacement)
           = Decoded(a).chars \o Append(Decoded(b).chars, Replacement)
      /\ Append(Decoded(b).chars, Replacement) \in Texts
  BY <1>1, <1>3, AppendText
<1>5. QED
  BY <1>1, <1>2, <1>4 DEF Lossy

\* What has been sent is whole characters, and what is pending begins with none.
Streaming ==
    /\ bytes \in Seq(Bytes) /\ pending \in Seq(Bytes)
    /\ IF ended = "complete" THEN streamed = Lossy(bytes)
       ELSE /\ ValidUpTo(pending) = 0
            /\ \E sent \in Seq(Bytes) :
                  bytes = sent \o pending /\ IsUtf8(sent) /\ streamed = Decoded(sent).chars

\* Three sequences of bytes, grouped either way.
LEMMA Regrouped ==
    ASSUME NEW a \in Seq(Bytes), NEW b \in Seq(Bytes), NEW c \in Seq(Bytes)
    PROVE  a \o (b \o c) = (a \o b) \o c
OBVIOUS

\* The buffered stream keeps its invariant.
LEMMA StreamingHolds == ASSUME Buffered PROVE Spec => []Streaming
<1>1. Init => Streaming
  <2> SUFFICES ASSUME Init PROVE Streaming
    OBVIOUS
  <2>1. bytes = <<>> /\ pending = <<>> /\ streamed = <<>> /\ ended = "no"
    BY DEF Init
  <2>2. ValidUpTo(<<>>) = 0
    <3>1. <<>> \in Seq(Bytes) /\ Len(<<>>) = 0
      OBVIOUS
    <3>2. ValidUpTo(<<>>) \in 0..Len(<<>>)
      BY <3>1, ValidUpToFacts
    <3>3. QED
      BY <3>1, <3>2
  <2>3. Decoded(<<>>).chars = <<>> /\ <<>> \o <<>> = <<>>
    BY DecodedEmpty DEF Nothing
  <2>4. QED
    BY <2>1, <2>2, <2>3, EmptyValid DEF Streaming
<1>2. Streaming /\ [Next]_vars => Streaming'
  <2> SUFFICES ASSUME Streaming, [Next]_vars PROVE Streaming'
    OBVIOUS
  <2>1. CASE Generate
    <3>1. PICK token \in Vocabulary : bytes' = bytes \o token /\ Sent(StreamOf(token))
      BY <2>1 DEF Generate
    <3>2. token \in Seq(Bytes)
      BY Utf8StreamAssumption
    <3>3. ended = "no" /\ ended' = "no"
      BY <2>1 DEF Generate
    <3> DEFINE buffer == pending \o token  d == Drain(buffer, FALSE)
    <3>4. streamed' = streamed \o d.piece /\ pending' = d.rest
      BY <3>1 DEF Sent, StreamOf
    <3>5. buffer \in Seq(Bytes) /\ bytes' \in Seq(Bytes)
      BY <3>1, <3>2 DEF Streaming
    <3> HIDE DEF d
    <3>6. PICK front \in Seq(Bytes) :
             /\ buffer = front \o d.rest /\ IsUtf8(front) /\ d.piece = Decoded(front).chars
             /\ d.rest \in Seq(Bytes) /\ ValidUpTo(d.rest) = 0
      BY <3>5, DrainMore DEF d
    <3>7. PICK sent \in Seq(Bytes) :
             bytes = sent \o pending /\ IsUtf8(sent) /\ streamed = Decoded(sent).chars
      BY <3>3 DEF Streaming
    <3>8. /\ IsUtf8(sent \o front) /\ sent \o front \in Seq(Bytes)
          /\ streamed' = Decoded(sent \o front).chars
      <4>1. /\ IsUtf8(sent \o front)
            /\ Decoded(sent \o front).chars = Decoded(sent).chars \o Decoded(front).chars
        BY <3>6, <3>7, JoinValid
      <4>2. streamed' = Decoded(sent).chars \o Decoded(front).chars
        BY <3>4, <3>6, <3>7
      <4>3. sent \o front \in Seq(Bytes)
        BY <3>6, <3>7
      <4>4. QED
        BY <4>1, <4>2, <4>3
    <3>9. bytes' = (sent \o front) \o pending'
      <4>1. bytes' = (sent \o pending) \o token
        BY <3>1, <3>7
      <4>2. (sent \o pending) \o token = sent \o (pending \o token)
        BY <3>2, <3>7 DEF Streaming
      <4>3. sent \o (front \o d.rest) = (sent \o front) \o d.rest
        <5>1. sent \in Seq(Bytes) /\ front \in Seq(Bytes) /\ d.rest \in Seq(Bytes)
          BY <3>6, <3>7
        <5>2. QED
          BY <5>1, Regrouped
      <4>4. bytes' = sent \o buffer
        BY <4>1, <4>2
      <4>5. buffer = front \o pending' /\ d.rest = pending'
        BY <3>4, <3>6
      <4> HIDE DEF buffer
      <4>6. QED
        BY <4>3, <4>4, <4>5
    <3>10. ValidUpTo(pending') = 0 /\ pending' \in Seq(Bytes)
      BY <3>4, <3>6
    <3> HIDE DEF buffer
    <3>11. QED
      BY <3>3, <3>5, <3>8, <3>9, <3>10 DEF Streaming, ValidUpTo, IsUtf8, Decoded
  <2>2. CASE Complete
    <3>1. ended = "no" /\ ended' = "complete" /\ bytes' = bytes
      BY <2>2 DEF Complete
    <3>2. PICK sent \in Seq(Bytes) :
             bytes = sent \o pending /\ IsUtf8(sent) /\ streamed = Decoded(sent).chars
      BY <3>1 DEF Streaming
    <3>3. pending \in Seq(Bytes) /\ Decoded(sent).part = <<>> /\ Decoded(sent).chars \in Texts
      BY <3>2, DecodedType DEF Streaming, IsUtf8, Partial
    <3>4. Lossy(bytes) = streamed \o Lossy(pending)
      BY <3>2, <3>3, LossyAfter
    <3>5. pending' \in Seq(Bytes) /\ streamed' = Lossy(bytes)
      <4>1. CASE pending = <<>>
        <5>1. streamed' = streamed /\ pending' = pending
          BY <2>2, <4>1 DEF Complete
        <5>2. Lossy(<<>>) = <<>>
          BY DecodedEmpty DEF Lossy, Nothing
        <5>3. streamed \o <<>> = streamed
          BY <3>2, <3>3 DEF Texts
        <5>4. QED
          BY <3>3, <3>4, <4>1, <5>1, <5>2, <5>3
      <4>2. CASE pending # <<>>
        <5>1. ValidUpTo(pending) = 0
          BY <3>1 DEF Streaming
        <5>2. Drain(pending, TRUE) = [piece |-> Lossy(pending), rest |-> <<>>]
          BY <3>3, <4>2, <5>1, DrainEnd
        <5>3. Sent(Drain(pending, TRUE))
          BY <2>2, <4>2 DEF Complete
        <5>4. streamed' = streamed \o Lossy(pending) /\ pending' = <<>>
          <6> DEFINE drained == Drain(pending, TRUE)
          <6>1. drained = [piece |-> Lossy(pending), rest |-> <<>>]
            BY <5>2
          <6>2. streamed' = streamed \o drained.piece /\ pending' = drained.rest
            BY <5>3 DEF Sent
          <6> HIDE DEF drained
          <6>3. QED
            BY <6>1, <6>2
        <5>5. QED
          BY <3>4, <5>4
      <4>3. QED
        BY <4>1, <4>2
    <3>6. Lossy(bytes)' = Lossy(bytes)
      BY <3>1
    <3>7. QED
      BY <3>1, <3>3, <3>5, <3>6 DEF Streaming
  <2>3. CASE Fail \/ UNCHANGED vars
    <3>1. /\ UNCHANGED <<bytes, pending, streamed>>
          /\ ended' = "complete" <=> ended = "complete"
      BY <2>3 DEF Fail, vars
    <3>2. QED
      BY <3>1 DEF Streaming
  <2>4. QED
    BY <2>1, <2>2, <2>3 DEF Next
<1>3. QED
  BY <1>1, <1>2, PTL DEF Spec

\* What a buffered turn has streamed is at any time the beginning of the text of the
\* whole answer, and all of it when the turn ends: drain_valid_utf8 loses no character at
\* the seam between two tokens, and writes none twice.
THEOREM StreamedText == ASSUME Buffered PROVE Spec => []StreamIsText
<1>1. Streaming => StreamIsText
  <2> SUFFICES ASSUME Streaming PROVE StreamIsText
    OBVIOUS
  <2>1. CASE ended = "complete"
    <3>1. streamed = Lossy(bytes) /\ bytes \in Seq(Bytes)
      BY <2>1 DEF Streaming
    <3>2. Lossy(bytes) \in Texts
      <4>1. Decoded(<<>>).part = <<>> /\ <<>> \in Seq(Bytes)
        BY DecodedEmpty DEF Nothing
      <4>2. QED
        BY <3>1, <4>1, LossyAfter
    <3>3. IsPrefix(streamed, Lossy(bytes))
      BY <3>1, <3>2 DEF IsPrefix, Texts
    <3>4. QED
      BY <3>1, <3>3 DEF StreamIsText
  <2>2. CASE ended # "complete"
    <3>1. PICK sent \in Seq(Bytes) :
             bytes = sent \o pending /\ IsUtf8(sent) /\ streamed = Decoded(sent).chars
      BY <2>2 DEF Streaming
    <3>2. pending \in Seq(Bytes) /\ Decoded(sent).part = <<>> /\ streamed \in Texts
      BY <3>1, DecodedType DEF Streaming, IsUtf8, Partial
    <3>3. Lossy(bytes) = streamed \o Lossy(pending) /\ Lossy(pending) \in Texts
      BY <3>1, <3>2, LossyAfter
    <3>4. ASSUME NEW s \in Seq(Chars), NEW t \in Seq(Chars) PROVE IsPrefix(s, s \o t)
      BY DEF IsPrefix
    <3>5. IsPrefix(streamed, streamed \o Lossy(pending))
      BY <3>2, <3>3, <3>4 DEF Texts
    <3>6. QED
      BY <2>2, <3>3, <3>5 DEF StreamIsText
  <2>3. QED
    BY <2>1, <2>2
<1>2. QED
  BY <1>1, StreamingHolds, PTL

\* The beginning of a beginning.
LEMMA Shorter ==
    ASSUME NEW c \in Seq(Bytes), NEW k \in 0..Len(c), NEW n \in 1..k
    PROVE  SubSeq(SubSeq(c, 1, k), 1, n) = SubSeq(c, 1, n)
<1> DEFINE d == SubSeq(c, 1, k)
<1>1. d \in Seq(Bytes) /\ Len(d) = k /\ \A i \in 1..k : d[i] = c[i]
  OBVIOUS
<1> HIDE DEF d
<1>2. /\ SubSeq(d, 1, n) \in Seq(Bytes) /\ SubSeq(c, 1, n) \in Seq(Bytes)
      /\ Len(SubSeq(d, 1, n)) = n /\ Len(SubSeq(c, 1, n)) = n
      /\ \A i \in 1..n : SubSeq(d, 1, n)[i] = SubSeq(c, 1, n)[i]
  BY <1>1
<1>3. SubSeq(d, 1, n) = SubSeq(c, 1, n)
  BY <1>2, SeqEqual
<1>4. QED
  BY <1>3 DEF d

\* Bytes no beginning of which is text, without any that is invalid, are the beginning
\* of one character.
LEMMA Unfinished ==
    ASSUME NEW b \in Seq(Bytes), ValidUpTo(b) = 0,
           Replacement \notin Range(Decoded(b).chars)
    PROVE  Decoded(b).chars = <<>> /\ Decoded(b).part = b
<1> DEFINE whole(c) == \A n \in 1..Len(c) : ~ IsUtf8(SubSeq(c, 1, n))
           clean(c) == \A i \in DOMAIN Decoded(c).chars : Decoded(c).chars[i] # Replacement
           P(c) == whole(c) /\ clean(c) => Decoded(c).chars = <<>> /\ Decoded(c).part = c
           S == {k \in Nat : \A c \in Seq(Bytes) : Len(c) = k => P(c)}
<1>1. 0 \in S
  <2> HIDE DEF P
  <2> SUFFICES ASSUME NEW c \in Seq(Bytes), Len(c) = 0 PROVE P(c)
    OBVIOUS
  <2>1. c = <<>>
    OBVIOUS
  <2>2. Decoded(c).chars = <<>> /\ Decoded(c).part = c
    BY <2>1, DecodedEmpty DEF Nothing
  <2>3. QED
    BY <2>2 DEF P
<1>2. ASSUME NEW k \in Nat, k \in S PROVE k + 1 \in S
  <2> HIDE DEF P
  <2> SUFFICES ASSUME NEW c \in Seq(Bytes), Len(c) = k + 1 PROVE P(c)
    OBVIOUS
  <2> SUFFICES ASSUME whole(c), clean(c) PROVE Decoded(c).chars = <<>> /\ Decoded(c).part = c
    BY DEF P
  <2>1. PICK d \in Seq(Bytes), e \in Bytes : c = Append(d, e) /\ Len(d) = k /\ d = SubSeq(c, 1, k)
    BY LastOf
  <2>2. P(d)
    BY <1>2, <2>1
  <2> HIDE DEF S
  <2>3. /\ Decoded(c) = Step(Decoded(d), e) /\ Decoded(d) \in Partial /\ Decoded(c) \in Partial
        /\ Decoded(d).chars \in Seq(Chars) /\ Decoded(c).chars \in Seq(Chars)
    <3>1. Decoded(c) = Step(Decoded(d), e) /\ Decoded(d) \in Partial /\ Decoded(c) \in Partial
      BY <2>1, DecodedAppend, DecodedType
    <3>2. QED
      BY <3>1 DEF Partial, Texts
  <2>4. whole(d)
    <3> SUFFICES ASSUME NEW n \in 1..Len(d) PROVE ~ IsUtf8(SubSeq(d, 1, n))
      OBVIOUS
    <3>1. k \in 0..Len(c) /\ n \in 1..k /\ n \in 1..Len(c)
      BY <2>1
    <3>3. SubSeq(d, 1, n) = SubSeq(c, 1, n)
      <4>1. SubSeq(SubSeq(c, 1, k), 1, n) = SubSeq(c, 1, n)
        BY <3>1, Shorter
      <4>2. QED
        BY <2>1, <4>1
    <3>2. QED
      BY <3>1, <3>3
  <2>5. clean(d)
    <3>1. PICK more \in Texts : Decoded(c).chars = Decoded(d).chars \o more
      BY <2>3, StepCases
    <3>2. ASSUME NEW s \in Seq(Chars), NEW t \in Seq(Chars), NEW i \in DOMAIN s
          PROVE  i \in DOMAIN (s \o t) /\ (s \o t)[i] = s[i]
      OBVIOUS
    <3>3. more \in Seq(Chars)
      BY DEF Texts
    <3> SUFFICES ASSUME NEW i \in DOMAIN Decoded(d).chars PROVE Decoded(d).chars[i] # Replacement
      OBVIOUS
    <3>4. i \in DOMAIN Decoded(c).chars /\ Decoded(c).chars[i] = Decoded(d).chars[i]
      BY <2>3, <3>1, <3>2, <3>3
    <3>5. QED
      BY <3>4
  <2>6. Decoded(d).chars = <<>> /\ Decoded(d).part = d
    BY <2>2, <2>4, <2>5 DEF P
  <2>7. Decoded(c).part # <<>>
    <3>1. SubSeq(c, 1, k + 1) = c /\ k + 1 \in 1..Len(c)
      OBVIOUS
    <3>2. ~ IsUtf8(c)
      BY <3>1
    <3>3. QED
      BY <3>2 DEF IsUtf8
  <2>8. ASSUME NEW s \in Seq(Chars), \E t \in Seq(Chars) : s = Append(t, Replacement)
        PROVE  \E i \in DOMAIN s : s[i] = Replacement
    <3>1. PICK t \in Seq(Chars) : s = Append(t, Replacement)
      BY <2>8
    <3>2. Len(t) + 1 \in DOMAIN s /\ s[Len(t) + 1] = Replacement
      BY <3>1
    <3>3. QED
      BY <3>2
  <2>9. CASE e = "cont" /\ d # <<>>
    <3>1. Decoded(c) = IF Len(c) = Width(c[1])
                       THEN [chars |-> Append(Decoded(d).chars, c), part |-> <<>>]
                       ELSE [chars |-> Decoded(d).chars, part |-> c]
      BY <2>1, <2>3, <2>6, <2>9 DEF Step
    <3>2. Len(c) # Width(c[1])
      BY <2>7, <3>1
    <3>3. Decoded(c) = [chars |-> Decoded(d).chars, part |-> c]
      BY <3>1, <3>2
    <3>4. QED
      BY <2>6, <3>3
  <2> DEFINE broken == IF d = <<>> THEN Decoded(d).chars ELSE Append(Decoded(d).chars, Replacement)
  <2>10. CASE e \in {"lead2", "lead3"}
    <3>1. Decoded(c) = [chars |-> broken, part |-> <<e>>]
      BY <2>3, <2>6, <2>10 DEF Step
    <3>2. d = <<>>
      <4> SUFFICES ASSUME d # <<>> PROVE FALSE
        OBVIOUS
      <4>1. Decoded(c).chars = Append(Decoded(d).chars, Replacement)
        BY <3>1
      <4>2. QED
        BY <2>3, <2>8, <4>1
    <3>3. c = <<e>>
      <4>1. Append(<<>>, e) = <<e>>
        OBVIOUS
      <4>2. QED
        BY <2>1, <3>2, <4>1
    <3>4. Decoded(c) = [chars |-> Decoded(d).chars, part |-> c]
      BY <3>1, <3>2, <3>3
    <3>5. QED
      BY <2>6, <3>4
  <2>11. CASE ~ (e = "cont" /\ d # <<>>) /\ e \notin {"lead2", "lead3"}
    <3>1. Decoded(c).part = <<>>
      <4>1. CASE e = "ascii"
        <5>1. Decoded(c) = [chars |-> Append(broken, <<e>>), part |-> <<>>]
          BY <2>3, <2>6, <4>1 DEF Step
        <5> HIDE DEF broken
        <5>2. QED
          BY <5>1
      <4>2. CASE e # "ascii"
        <5>1. Decoded(c) = [chars |-> Append(broken, Replacement), part |-> <<>>]
          BY <2>3, <2>6, <2>11, <4>2 DEF Step
        <5> HIDE DEF broken
        <5>2. QED
          BY <5>1
      <4>3. QED
        BY <4>1, <4>2
    <3>2. QED
      BY <2>7, <3>1
  <2>12. QED
    BY <2>9, <2>10, <2>11
<1>3. Nat \subseteq S
  <2> HIDE DEF S
  <2>1. QED
    BY <1>1, <1>2, SetInduction
<1>4. P(b)
  <2>1. Len(b) \in Nat
    OBVIOUS
  <2> HIDE DEF P
  <2>2. QED
    BY <1>3, <2>1
<1>5. whole(b)
  <2>1. \A n \in 0..Len(b) : IsUtf8(SubSeq(b, 1, n)) => n <= 0
    BY ValidUpToFacts
  <2>2. QED
    BY <2>1
<1>6. clean(b)
  BY DEF Range
<1>7. QED
  BY <1>4, <1>5, <1>6

\* Of bytes that are valid so far, drain_valid_utf8 withholds those of the
\* character not finished yet and no other.
THEOREM WithheldIsUnfinished == Spec => []WithholdsOnlyUnfinished
<1>1. CASE Buffered
  <2>1. Streaming => WithholdsOnlyUnfinished
    <3> SUFFICES ASSUME Streaming, ended = "no",
                        Replacement \notin Range(Decoded(bytes).chars)
                 PROVE  streamed = Decoded(bytes).chars /\ pending = Decoded(bytes).part
      BY DEF WithholdsOnlyUnfinished
    <3>1. PICK sent \in Seq(Bytes) :
             bytes = sent \o pending /\ IsUtf8(sent) /\ streamed = Decoded(sent).chars
      BY DEF Streaming
    <3>2. /\ pending \in Seq(Bytes) /\ ValidUpTo(pending) = 0 /\ Decoded(sent).part = <<>>
          /\ streamed \in Seq(Chars) /\ Decoded(pending).chars \in Seq(Chars)
      BY <3>1, DecodedType DEF Streaming, IsUtf8, Partial, Texts
    <3>3. /\ Decoded(bytes).chars = streamed \o Decoded(pending).chars
          /\ Decoded(bytes).part = Decoded(pending).part
      BY <3>1, <3>2, DecodeParts
    <3>4. Replacement \notin Range(Decoded(pending).chars)
      <4>1. ASSUME NEW s \in Seq(Chars), NEW t \in Seq(Chars), NEW i \in DOMAIN t
            PROVE  Len(s) + i \in DOMAIN (s \o t) /\ (s \o t)[Len(s) + i] = t[i]
        OBVIOUS
      <4>2. ASSUME NEW i \in DOMAIN Decoded(pending).chars
            PROVE  Decoded(pending).chars[i] # Replacement
        <5>1. /\ Len(streamed) + i \in DOMAIN Decoded(bytes).chars
              /\ Decoded(bytes).chars[Len(streamed) + i] = Decoded(pending).chars[i]
          BY <3>2, <3>3, <4>1
        <5>2. QED
          BY <5>1 DEF Range
      <4>3. QED
        BY <4>2 DEF Range
    <3>5. Decoded(pending).chars = <<>> /\ Decoded(pending).part = pending
      BY <3>2, <3>4, Unfinished
    <3>6. QED
      BY <3>2, <3>3, <3>5
  <2>2. QED
    BY <1>1, <2>1, StreamingHolds, PTL
<1>2. CASE ~ Buffered
  <2>1. WithholdsOnlyUnfinished
    BY <1>2 DEF WithholdsOnlyUnfinished
  <2>2. QED
    BY <2>1, PTL
<1>3. QED
  BY <1>1, <1>2

-----------------------------------------------------------------------------
(* The concatenation of a sequence of sequences, element by element.       *)

Flattening(s, run) ==
    /\ run[0] = <<>>
    /\ \A i \in 1..Len(s) : run[i] = run[i - 1] \o s[i]

\* The sequences can be joined one after the other.
LEMMA FlatteningExists ==
    ASSUME NEW S, NEW s \in Seq(Seq(S))
    PROVE  \E run \in [0..Len(s) -> Seq(S)] : Flattening(s, run)
<1> DEFINE Runs(k) == {run \in [0..k -> Seq(S)] :
                          run[0] = <<>> /\ \A i \in 1..k : run[i] = run[i - 1] \o s[i]}
           K == {k \in Nat : k > Len(s) \/ Runs(k) # {}}
<1>1. 0 \in K
  <2>1. [i \in 0..0 |-> <<>>] \in Runs(0)
    OBVIOUS
  <2>2. QED
    BY <2>1
<1>2. Len(s) \in Nat
  OBVIOUS
<1>3. ASSUME NEW k \in Nat, k + 1 <= Len(s), NEW run \in Runs(k) PROVE Runs(k + 1) # {}
  <2>1. run[k] \in Seq(S) /\ s[k + 1] \in Seq(S)
    BY <1>3
  <2> DEFINE last == run[k] \o s[k + 1]
             more == [i \in 0..(k + 1) |-> IF i = k + 1 THEN last ELSE run[i]]
  <2>2. last \in Seq(S)
    BY <2>1
  <2>3. ASSUME NEW i \in 1..(k + 1) PROVE more[i] = more[i - 1] \o s[i]
    <3>1. CASE i = k + 1
      <4>1. more[k + 1] = last /\ more[k] = run[k] /\ (k + 1) - 1 = k
        <5> HIDE DEF last
        <5>1. QED
          OBVIOUS
      <4> HIDE DEF more
      <4>2. QED
        BY <3>1, <4>1
    <3>2. CASE i \in 1..k
      <4>1. more[i] = run[i] /\ more[i - 1] = run[i - 1]
        BY <3>2
      <4>2. run[i] = run[i - 1] \o s[i]
        BY <3>2
      <4> HIDE DEF more
      <4>3. QED
        BY <4>1, <4>2
    <3>3. i = k + 1 \/ i \in 1..k
      OBVIOUS
    <3> HIDE DEF more
    <3>4. QED
      BY <3>1, <3>2, <3>3
  <2> HIDE DEF last
  <2>4. more \in [0..(k + 1) -> Seq(S)] /\ more[0] = <<>>
    BY <2>2
  <2> HIDE DEF more
  <2>5. more \in Runs(k + 1)
    BY <2>3, <2>4
  <2>6. QED
    BY <2>5
<1>4. ASSUME NEW k \in Nat, k \in K PROVE k + 1 \in K
  <2> HIDE DEF Runs
  <2>1. k + 1 > Len(s) \/ k + 1 <= Len(s)
    BY <1>2
  <2>2. CASE k + 1 <= Len(s)
    <3>1. Runs(k) # {}
      BY <1>2, <1>4, <2>2
    <3>2. Runs(k + 1) # {}
      BY <1>3, <2>2, <3>1
    <3>3. QED
      BY <3>2
  <2>3. QED
    BY <2>1, <2>2
<1>5. Nat \subseteq K
  <2> HIDE DEF K
  <2>1. QED
    BY <1>1, <1>4, SetInduction
<1>6. Runs(Len(s)) # {}
  <2> HIDE DEF Runs
  <2>1. QED
    BY <1>2, <1>5
<1>7. QED
  BY <1>6 DEF Flattening

\* And what FlattenSeq chooses is where that joining ends.
LEMMA FlattenedRun ==
    ASSUME NEW S, NEW s \in Seq(Seq(S)), NEW run \in [0..Len(s) -> Seq(S)],
           Flattening(s, run)
    PROVE  FlattenSeq(s) = run[Len(s)]
<1> DEFINE next(f) == [i \in 1..Len(s) |-> IF i = 1 THEN s[i] ELSE f[i - 1] \o s[i]]
           g == [i \in 1..Len(s) |-> run[i]]
           flat == CHOOSE f : f = next(f)
<1>1. CASE Len(s) = 0
  BY <1>1 DEF FlattenSeq, Flattening
<1>2. CASE Len(s) # 0
  <2>1. g = next(g)
    <3>1. ASSUME NEW i \in 1..Len(s)
          PROVE  g[i] = IF i = 1 THEN s[i] ELSE g[i - 1] \o s[i]
      <4>1. run[i] = run[i - 1] \o s[i]
        BY DEF Flattening
      <4>2. CASE i = 1
        <5>1. run[1] = <<>> \o s[1] /\ s[1] \in Seq(S)
          <6>1. run[0] = <<>> /\ run[i - 1] = run[0] /\ s[1] \in Seq(S)
            BY <4>2 DEF Flattening
          <6>2. QED
            BY <4>1, <4>2, <6>1
        <5>2. g[1] = run[1]
          BY <4>2
        <5> HIDE DEF g
        <5>3. QED
          BY <4>2, <5>1, <5>2
      <4>3. CASE i # 1
        <5>1. g[i] = run[i] /\ g[i - 1] = run[i - 1]
          BY <4>3
        <5> HIDE DEF g
        <5>2. QED
          BY <4>1, <4>3, <5>1
      <4>4. QED
        BY <4>2, <4>3
    <3>2. QED
      BY <3>1
  <2> HIDE DEF g
  <2>2. flat = next(flat)
    BY <2>1
  <2>3. FlattenSeq(s) = flat[Len(s)]
    BY <1>2 DEF FlattenSeq
  <2> HIDE DEF flat
  <2> DEFINE K == {k \in Nat : k + 1 <= Len(s) => flat[k + 1] = run[k + 1]}
  <2>4. 0 \in K
    <3>1. Len(s) \in Nat /\ 1 \in 1..Len(s)
      BY <1>2
    <3>2. flat[1] = s[1] /\ s[1] \in Seq(S)
      BY <2>2, <3>1
    <3>3. run[1] = <<>> \o s[1]
      <4>1. /\ \A i \in 1..Len(s) : run[i] = run[i - 1] \o s[i]
            /\ run[0] = <<>>
        BY DEF Flattening
      <4>2. ASSUME NEW i \in 1..Len(s), i = 1 PROVE run[i] = <<>> \o s[i]
        <5>1. i - 1 = 0
          BY <4>2
        <5>2. run[i - 1] = <<>>
          BY <4>1, <5>1
        <5>3. QED
          BY <4>1, <5>2
      <4>3. QED
        BY <3>1, <4>2
    <3>4. QED
      BY <3>2, <3>3
  <2>5. ASSUME NEW k \in Nat, k \in K PROVE k + 1 \in K
    <3> SUFFICES ASSUME (k + 1) + 1 <= Len(s) PROVE flat[(k + 1) + 1] = run[(k + 1) + 1]
      OBVIOUS
    <3> DEFINE j == (k + 1) + 1
    <3>1. j \in 1..Len(s) /\ j # 1 /\ j - 1 = k + 1
      OBVIOUS
    <3>2. flat[j - 1] = run[j - 1]
      BY <2>5, <3>1
    <3> HIDE DEF j
    <3>3. flat[j] = flat[j - 1] \o s[j]
      BY <2>2, <3>1
    <3>4. run[j] = run[j - 1] \o s[j]
      BY <3>1 DEF Flattening
    <3>5. QED
      BY <3>2, <3>3, <3>4 DEF j
  <2>6. Nat \subseteq K
    <3> HIDE DEF K
    <3>1. QED
      BY <2>4, <2>5, SetInduction
  <2>7. Len(s) - 1 \in Nat /\ (Len(s) - 1) + 1 = Len(s)
    BY <1>2
  <2>8. flat[Len(s)] = run[Len(s)]
    <3>1. Len(s) - 1 \in K
      BY <2>6, <2>7
    <3>2. flat[(Len(s) - 1) + 1] = run[(Len(s) - 1) + 1]
      BY <2>7, <3>1
    <3>3. QED
      BY <2>7, <3>2
  <2>9. QED
    BY <2>3, <2>8
<1>3. QED
  BY <1>1, <1>2

\* What follows from it: the empty sequence, and one element more.
LEMMA FlattenAppend ==
    ASSUME NEW S, NEW s \in Seq(Seq(S)), NEW e \in Seq(S)
    PROVE  /\ FlattenSeq(s) \in Seq(S)
           /\ FlattenSeq(Append(s, e)) = FlattenSeq(s) \o e
<1>1. PICK run \in [0..Len(s) -> Seq(S)] : Flattening(s, run)
  BY FlatteningExists
<1>2. FlattenSeq(s) = run[Len(s)] /\ run[Len(s)] \in Seq(S)
  <2>1. FlattenSeq(s) = run[Len(s)]
    BY <1>1, FlattenedRun
  <2>2. Len(s) \in 0..Len(s)
    OBVIOUS
  <2>3. QED
    BY <2>1, <2>2
<1> DEFINE n == Len(s)  longer == Append(s, e)  last == run[n] \o e
           more == [i \in 0..(n + 1) |-> IF i = n + 1 THEN last ELSE run[i]]
<1>3. /\ longer \in Seq(Seq(S)) /\ Len(longer) = n + 1 /\ longer[n + 1] = e /\ n \in Nat
      /\ \A i \in 1..n : longer[i] = s[i]
  OBVIOUS
<1>4. last \in Seq(S)
  BY <1>2
<1> HIDE DEF longer
<1>5. ASSUME NEW i \in 1..(n + 1) PROVE more[i] = more[i - 1] \o longer[i]
  <2>1. CASE i = n + 1
    <3>1. more[n + 1] = last /\ more[n] = run[n] /\ (n + 1) - 1 = n
      BY <1>3
    <3> HIDE DEF more, n
    <3>2. QED
      BY <1>3, <2>1, <3>1
  <2>2. CASE i \in 1..n
    <3>1. more[i] = run[i] /\ more[i - 1] = run[i - 1]
      BY <2>2
    <3>2. run[i] = run[i - 1] \o s[i]
      BY <1>1, <2>2 DEF Flattening
    <3> HIDE DEF more, n
    <3>3. QED
      BY <1>3, <2>2, <3>1, <3>2
  <2>3. i = n + 1 \/ i \in 1..n
    BY <1>3
  <2> HIDE DEF more, n
  <2>4. QED
    BY <2>1, <2>2, <2>3
<1>6. more \in [0..(n + 1) -> Seq(S)] /\ more[0] = <<>> /\ more[n + 1] = last
  <2> HIDE DEF last
  <2>1. QED
    BY <1>1, <1>3, <1>4 DEF Flattening
<1> HIDE DEF more
<1>7. Flattening(longer, more)
  BY <1>3, <1>5, <1>6 DEF Flattening
<1>8. FlattenSeq(longer) = more[n + 1]
  <2>1. more \in [0..Len(longer) -> Seq(S)]
    BY <1>3, <1>6
  <2>2. FlattenSeq(longer) = more[Len(longer)]
    BY <1>3, <1>7, <2>1, FlattenedRun
  <2>3. QED
    BY <1>3, <2>2
<1>9. QED
  BY <1>2, <1>6, <1>8 DEF longer

\* Of no sequences it makes the empty one.
LEMMA FlattenEmpty == FlattenSeq(<<>>) = <<>>
BY DEF FlattenSeq

\* The first and the last of a set of places.
LEMMA Ends ==
    ASSUME NEW n \in Nat, NEW S \in SUBSET (0..n), S # {}
    PROVE  Min(S) \in S /\ Max(S) \in S /\ \A y \in S : Min(S) <= y /\ y <= Max(S)
<1>1. S \in SUBSET Nat
  OBVIOUS
<1>2. PICK low \in S : \A y \in S : low <= y
  BY <1>1, LeastOf
<1> DEFINE gaps == {k \in 0..n : n - k \in S}
<1>3. gaps \in SUBSET Nat /\ gaps # {}
  <2>1. PICK y \in S : TRUE
    OBVIOUS
  <2>2. n - y \in 0..n /\ n - (n - y) = y
    BY <2>1
  <2>3. n - y \in gaps
    BY <2>1, <2>2
  <2>4. gaps \subseteq 0..n
    OBVIOUS
  <2> HIDE DEF gaps
  <2>5. QED
    BY <2>3, <2>4
<1>4. PICK m \in gaps : \A k \in gaps : m <= k
  <2> HIDE DEF gaps
  <2>1. QED
    BY <1>3, LeastOf
<1>5. n - m \in S /\ m \in 0..n
  BY <1>4
<1>6. ASSUME NEW y \in S PROVE y <= n - m
  <2>1. y \in 0..n
    OBVIOUS
  <2>2. n - y \in 0..n /\ n - (n - y) = y
    BY <2>1
  <2>3. n - y \in gaps
    BY <2>2
  <2>4. m <= n - y
    BY <1>4, <2>3
  <2>5. QED
    BY <1>5, <2>1, <2>4
<1>7. \A x, y \in S : x \in Int /\ (x >= y <=> y <= x)
  BY <1>1
<1>8. Min(S) \in S /\ \A y \in S : Min(S) <= y
  <2>1. \E x \in S : \A y \in S : x =< y
    BY <1>2
  <2>2. QED
    BY <2>1 DEF Min
<1>9. Max(S) \in S /\ \A y \in S : Max(S) >= y
  <2>1. \E x \in S : \A y \in S : x >= y
    BY <1>5, <1>6, <1>7
  <2>2. QED
    BY <2>1 DEF Max
<1>10. QED
  BY <1>7, <1>8, <1>9

\* What str::trim leaves is a text.
LEMMA TrimText == ASSUME NEW t \in Seq(Nat) PROVE Trim(t) \in Seq(Nat)
<1> DEFINE solid == {i \in DOMAIN t : t[i] \notin Blank}
<1>1. CASE solid = {}
  BY <1>1 DEF Trim
<1>2. CASE solid # {}
  <2>1. Trim(t) = SubSeq(t, Min(solid), Max(solid))
    BY <1>2 DEF Trim
  <2>2. solid \in SUBSET (0..Len(t)) /\ solid \subseteq 1..Len(t) /\ Len(t) \in Nat
    OBVIOUS
  <2> HIDE DEF solid
  <2>3. Min(solid) \in 1..Len(t) /\ Max(solid) \in 1..Len(t)
    BY <1>2, <2>2, Ends
  <2>4. ASSUME NEW a \in 1..Len(t), NEW b \in 1..Len(t) PROVE SubSeq(t, a, b) \in Seq(Nat)
    OBVIOUS
  <2>5. QED
    BY <2>1, <2>3, <2>4
<1>3. QED
  BY <1>1, <1>2

-----------------------------------------------------------------------------
Markers ==
    {"[gMASK]<sop>", "<|system|>", "<|user|>", "<|assistant|>", "<think>", "</think>",
     "<|im_start|>", "<|im_end|>", "<bos>", "<|turn>", "<turn|>", "<|channel>thought",
     "<channel|>", "system", "user", "assistant", "model"}
Symbols == Nat \union Markers
Prompts == Seq(Symbols)
Messages == [role : {"system", "user", "assistant"}, content : Seq(Nat)]

\* The rendered messages, one after the other, for a way F to render one.
LEMMA RenderedMore ==
    ASSUME NEW F \in [Messages -> Prompts], NEW m \in Seq(Messages), NEW x \in Messages
    PROVE  /\ FlattenSeq([i \in DOMAIN m |-> F[m[i]]]) \in Prompts
           /\ FlattenSeq([i \in DOMAIN Append(m, x) |-> F[Append(m, x)[i]]])
                = FlattenSeq([i \in DOMAIN m |-> F[m[i]]]) \o F[x]
<1> DEFINE s == [i \in DOMAIN m |-> F[m[i]]]
           longer == [i \in DOMAIN Append(m, x) |-> F[Append(m, x)[i]]]
<1>1. s \in Seq(Prompts) /\ Len(s) = Len(m) /\ \A i \in 1..Len(m) : s[i] = F[m[i]]
  <2> HIDE DEF Prompts
  <2>1. s \in [1..Len(m) -> Prompts] /\ Len(m) \in Nat
    OBVIOUS
  <2>2. QED
    BY <2>1
<1>2. F[x] \in Prompts
  OBVIOUS
<1>3. longer = Append(s, F[x])
  <2> DEFINE more == Append(m, x)
  <2>1. /\ DOMAIN more = 1..(Len(m) + 1) /\ more[Len(m) + 1] = x /\ Len(m) \in Nat
        /\ \A i \in 1..Len(m) : more[i] = m[i]
    OBVIOUS
  <2> HIDE DEF more
  <2> DEFINE l == [i \in DOMAIN more |-> F[more[i]]]
  <2>2. /\ DOMAIN l = 1..(Len(m) + 1) /\ l[Len(m) + 1] = F[x]
        /\ \A i \in 1..Len(m) : l[i] = F[m[i]]
    BY <2>1
  <2> HIDE DEF s, Prompts
  <2>3. /\ DOMAIN Append(s, F[x]) = 1..(Len(m) + 1) /\ Append(s, F[x])[Len(m) + 1] = F[x]
        /\ \A i \in 1..Len(m) : Append(s, F[x])[i] = F[m[i]]
    BY <1>1, <1>2
  <2>4. \A i \in DOMAIN l : l[i] = Append(s, F[x])[i]
    <3>1. \A i \in 1..(Len(m) + 1) : i = Len(m) + 1 \/ i \in 1..Len(m)
      BY <2>1
    <3> HIDE DEF l
    <3>2. QED
      BY <2>2, <2>3, <3>1
  <2>5. l = Append(s, F[x])
    <3>1. Append(s, F[x]) = [i \in 1..(Len(m) + 1) |-> Append(s, F[x])[i]]
      BY <1>1, <1>2, <2>3
    <3>2. l = [i \in 1..(Len(m) + 1) |-> Append(s, F[x])[i]]
      BY <2>2, <2>4
    <3>3. QED
      BY <3>1, <3>2
  <2>6. QED
    BY <2>5 DEF more
<1> HIDE DEF s, longer
<1>4. FlattenSeq(s) \in Prompts /\ FlattenSeq(Append(s, F[x])) = FlattenSeq(s) \o F[x]
  <2>1. s \in Seq(Seq(Symbols)) /\ F[x] \in Seq(Symbols)
    BY <1>1, <1>2 DEF Prompts
  <2>2. QED
    BY <2>1, FlattenAppend DEF Prompts
<1>5. QED
  BY <1>3, <1>4 DEF s, longer

LEMMA PromptJoin ==
    ASSUME NEW a \in Prompts, NEW b \in Prompts
    PROVE  /\ a \o b \in Prompts
           /\ IsPrefix(a, a \o b)
           /\ Len(a \o b) = Len(a) + Len(b) /\ Len(a) \in Nat /\ Len(b) \in Nat
           /\ SubSeq(a \o b, 1, Len(a)) = a
           /\ a \o <<>> = a
BY DEF IsPrefix, Prompts

\* A prompt is not the error.
LEMMA LongerThanOne ==
    ASSUME NEW a \in Prompts, Len(a) >= 2
    PROVE  a # SystemMessageOrder
<1>1. Len(SystemMessageOrder) = 1
  BY DEF SystemMessageOrder
<1>2. Len(a) # 1
  BY DEF Prompts
<1>3. QED
  BY <1>1, <1>2

\* The order of the roles is not disturbed by an answer and a question.
LEMMA StillMisplaced ==
    ASSUME NEW m \in Seq(Messages), NEW x \in Messages, NEW y \in Messages,
           x.role # "system", y.role # "system"
    PROVE  Misplaced(Append(Append(m, x), y)) <=> Misplaced(m)
<1> DEFINE longer == Append(Append(m, x), y)
<1>1. /\ Len(longer) = Len(m) + 2 /\ Len(m) \in Nat
      /\ longer[Len(m) + 1] = x /\ longer[Len(m) + 2] = y
      /\ \A i \in 1..Len(m) : longer[i] = m[i]
  <2> HIDE DEF Messages
  <2>1. QED
    OBVIOUS
<1> HIDE DEF longer
<1>2. ASSUME Misplaced(m) PROVE Misplaced(longer)
  <2>1. PICK i \in 2..Len(m) : m[i].role = "system"
    BY <1>2 DEF Misplaced
  <2>2. i \in 2..Len(longer) /\ longer[i] = m[i]
    BY <1>1, <2>1
  <2>3. QED
    BY <2>1, <2>2 DEF Misplaced
<1>3. ASSUME Misplaced(longer) PROVE Misplaced(m)
  <2>1. PICK i \in 2..Len(longer) : longer[i].role = "system"
    BY <1>3 DEF Misplaced
  <2>2. i # Len(m) + 1 /\ i # Len(m) + 2
    BY <1>1, <2>1
  <2>3. i \in 2..Len(m) /\ longer[i] = m[i]
    BY <1>1, <2>1, <2>2
  <2>4. QED
    BY <2>1, <2>3 DEF Misplaced
<1>4. QED
  BY <1>2, <1>3 DEF longer

LEMMA MessageText ==
    ASSUME NEW x \in Messages
    PROVE  x.content \in Prompts /\ Trim(x.content) \in Prompts /\ x.role \in Symbols
<1>1. x.content \in Seq(Nat) /\ x.role \in {"system", "user", "assistant"}
  BY DEF Messages
<1>2. Trim(x.content) \in Seq(Nat)
  BY <1>1, TrimText
<1>3. \A t \in Seq(Nat) : t \in Prompts
  BY DEF Prompts, Symbols
<1>4. x.role \in Symbols
  <2>1. \A r \in {"system", "user", "assistant"} : r \in Symbols
    BY DEF Symbols, Markers
  <2>2. QED
    BY <1>1, <2>1
<1>5. x.content \in Prompts /\ Trim(x.content) \in Prompts
  BY <1>1, <1>2, <1>3
<1>6. QED
  BY <1>4, <1>5

\* Concatenation under a name, for the provers.
Concat(a, b) == a \o b

\* Two prompts joined are a prompt.
LEMMA Joins ==
    ASSUME NEW a \in Prompts, NEW b \in Prompts
    PROVE  Concat(a, b) \in Prompts
BY DEF Prompts, Concat

\* Three prompts, joined in either order.
LEMMA Rejoins ==
    ASSUME NEW a \in Prompts, NEW b \in Prompts, NEW c \in Prompts
    PROVE  Concat(Concat(a, b), c) = Concat(a, Concat(b, c))
BY DEF Prompts, Concat

\* The rendered messages of a conversation, for a way F to render one.
Rendering(F, m) == FlattenSeq([i \in DOMAIN m |-> F[m[i]]])

\* The template of a message as a function.
LEMMA TurnShape ==
    ASSUME NEW F \in [Messages -> Prompts], NEW m \in Seq(Messages),
           NEW x \in Messages, NEW y \in Messages,
           NEW h \in Prompts, NEW e \in Prompts
    PROVE  /\ Rendering(F, m) \in Prompts
           /\ Concat(Concat(h, Rendering(F, Append(Append(m, x), y))), e)
                = Concat(Concat(Concat(h, Rendering(F, m)), F[x]), Concat(F[y], e))
<1>1. /\ Rendering(F, m) \in Prompts
      /\ Rendering(F, Append(m, x)) = Concat(Rendering(F, m), F[x])
  BY RenderedMore DEF Concat, Rendering
<1>2. Append(m, x) \in Seq(Messages)
  <2> HIDE DEF Messages
  <2>1. QED
    OBVIOUS
<1>3. Rendering(F, Append(Append(m, x), y)) = Concat(Rendering(F, Append(m, x)), F[y])
  BY <1>2, RenderedMore DEF Concat, Rendering
<1>4. F[x] \in Prompts /\ F[y] \in Prompts
  OBVIOUS
<1>5. Concat(Concat(h, Concat(Concat(Rendering(F, m), F[x]), F[y])), e)
         = Concat(Concat(Concat(h, Rendering(F, m)), F[x]), Concat(F[y], e))
  BY <1>1, <1>4, Joins, Rejoins
<1>6. QED
  BY <1>1, <1>3, <1>5

\* What is written is a prompt.
LEMMA Written ==
    /\ <<>> \in Prompts
    /\ \A a \in Symbols : <<a>> \in Prompts
    /\ \A a, b \in Symbols : <<a, b>> \in Prompts
    /\ \A a, b, c \in Symbols : <<a, b, c>> \in Prompts
    /\ \A a, b, c, d \in Symbols : <<a, b, c, d>> \in Prompts
    /\ Markers \subseteq Symbols
BY DEF Prompts, Symbols

\* A prompt, with the answer that came of it, begins the prompt of the next turn.
LEMMA TurnExtends ==
    ASSUME NEW F \in [Messages -> Prompts], NEW m \in Seq(Messages),
           NEW x \in Messages, NEW y \in Messages,
           NEW h \in Prompts, NEW e \in Prompts, NEW t \in Prompts,
           NEW held \in Prompts, NEW rest \in Prompts,
           F[x] = Concat(Concat(t, held), rest)
    PROVE  IsPrefix(Concat(Concat(Concat(h, Rendering(F, m)), t), held),
                    Concat(Concat(h, Rendering(F, Append(Append(m, x), y))), e))
<1> DEFINE f == Rendering(F, m)
           kept == Concat(Concat(Concat(h, f), t), held)
           after == Concat(rest, Concat(F[y], e))
<1>1. /\ f \in Prompts
      /\ Concat(Concat(h, Rendering(F, Append(Append(m, x), y))), e)
           = Concat(Concat(Concat(h, f), F[x]), Concat(F[y], e))
  BY TurnShape
<1> HIDE DEF f
<1>2. F[y] \in Prompts /\ F[x] \in Prompts
  OBVIOUS
<1>3. Concat(Concat(Concat(h, f), F[x]), Concat(F[y], e)) = Concat(kept, after)
  <2>1. Concat(F[y], e) \in Prompts /\ Concat(h, f) \in Prompts /\ Concat(t, held) \in Prompts
    BY <1>1, <1>2, Joins, Rejoins
  <2>2. Concat(Concat(h, f), Concat(Concat(t, held), rest))
          = Concat(Concat(Concat(h, f), Concat(t, held)), rest)
    BY <2>1, Joins, Rejoins
  <2>3. Concat(Concat(h, f), Concat(t, held)) = kept /\ kept \in Prompts
    BY <2>1, Joins, Rejoins
  <2>4. Concat(Concat(kept, rest), Concat(F[y], e)) = Concat(kept, Concat(rest, Concat(F[y], e)))
    BY <2>1, <2>3, Joins, Rejoins
  <2>5. QED
    BY <2>2, <2>3, <2>4
<1>4. kept \in Prompts /\ after \in Prompts
  BY <1>1, <1>2, Joins, Rejoins
<1>5. ASSUME NEW a \in Prompts, NEW b \in Prompts PROVE IsPrefix(a, Concat(a, b))
  BY PromptJoin DEF Concat
<1> HIDE DEF kept, after
<1>6. IsPrefix(kept, Concat(kept, after))
  BY <1>4, <1>5
<1>7. QED
  BY <1>1, <1>3, <1>6 DEF kept, f

Reply(m, answer) ==
    m \o <<[role |-> "assistant", content |-> answer], [role |-> "user", content |-> <<>>]>>

\* A reply and an empty question, one after the other.
LEMMA ReplyMessages ==
    ASSUME NEW m \in Seq(Messages), NEW answer \in Seq(Nat)
    PROVE  \E x, y \in Messages :
              /\ x.role = "assistant" /\ x.content = answer
              /\ y.role = "user" /\ y.content = <<>>
              /\ Reply(m, answer) = Append(Append(m, x), y)
<1> DEFINE x == [role |-> "assistant", content |-> answer]  y == [role |-> "user", content |-> <<>>]
<1>1. x \in Messages /\ y \in Messages
  <2>1. <<>> \in Seq(Nat)
    OBVIOUS
  <2>2. QED
    BY <2>1 DEF Messages
<1>2. x.role = "assistant" /\ x.content = answer /\ y.role = "user" /\ y.content = <<>>
  OBVIOUS
<1>3. Reply(m, answer) = m \o <<x, y>>
  BY DEF Reply
<1> HIDE DEF x, y
<1>4. m \o <<x, y>> = Append(Append(m, x), y)
  <2> HIDE DEF Messages
  <2>1. QED
    BY <1>1
<1>5. QED
  BY <1>1, <1>2, <1>3, <1>4

\* What a template writes is made of symbols.
LEMMA Marked ==
    /\ \A a \in Markers : <<a>> \in Prompts
    /\ \A a \in Markers, b \in Symbols : <<a, b>> \in Prompts
    /\ \A a, b \in Markers : <<a, b>> \in Prompts
    /\ \A a, b, c \in Markers : <<a, b, c>> \in Prompts
    /\ \A a, b, c, d \in Markers : <<a, b, c, d>> \in Prompts
BY Written

GlmWay == [x \in Messages |-> GlmMessage(x)]
QwenWay == [x \in Messages |-> QwenMessage(x)]
GemmaWay == [x \in Messages |-> GemmaMessage(x)]

\* A message has one of three roles, and its content is text.
LEMMA MessageCases ==
    ASSUME NEW x \in Messages
    PROVE  /\ x.role \in Symbols
           /\ x.role = "system" \/ x.role = "user" \/ x.role = "assistant"
           /\ x.content \in Prompts /\ Trim(x.content) \in Prompts
BY MessageText DEF Messages

\* What the templates write around the messages are prompts.
LEMMA Constants ==
    /\ <<"<|assistant|>", "<think>", "</think>">> \in Prompts
    /\ <<"<|system|>">> \in Prompts /\ <<"<|user|>">> \in Prompts /\ <<"[gMASK]<sop>">> \in Prompts
    /\ <<"<|assistant|>", "<think>">> \in Prompts /\ <<"</think>">> \in Prompts
    /\ <<"<think>", "</think>">> \in Prompts /\ <<"<|im_end|>">> \in Prompts
    /\ <<"<|im_start|>", "assistant", "<think>">> \in Prompts
    /\ <<"<|im_start|>", "assistant", "<think>", "</think>">> \in Prompts
    /\ <<"<bos>">> \in Prompts /\ <<"<turn|>">> \in Prompts
    /\ <<"<|turn>", "model">> \in Prompts /\ <<"<|channel>thought", "<channel|>">> \in Prompts
    /\ <<"<|turn>", "model", "<|channel>thought", "<channel|>">> \in Prompts
    /\ \A r \in Symbols : <<"<|im_start|>", r>> \in Prompts /\ <<"<|turn>", r>> \in Prompts
    /\ <<>> \in Prompts
<1>1. /\ "<|assistant|>" \in Markers /\ "<think>" \in Markers /\ "</think>" \in Markers
      /\ "<|system|>" \in Markers /\ "<|user|>" \in Markers /\ "[gMASK]<sop>" \in Markers
      /\ "<|im_start|>" \in Markers /\ "<|im_end|>" \in Markers /\ "assistant" \in Markers
      /\ "<bos>" \in Markers /\ "<turn|>" \in Markers /\ "<|turn>" \in Markers
      /\ "model" \in Markers /\ "<|channel>thought" \in Markers /\ "<channel|>" \in Markers
  BY DEF Markers
<1>2. <<>> \in Prompts
  BY Written
<1>3. QED
  BY <1>1, <1>2, Marked

\* GLM renders every message of a conversation.
LEMMA GlmIsWay == GlmWay \in [Messages -> Prompts]
<1> SUFFICES ASSUME NEW x \in Messages PROVE GlmMessage(x) \in Prompts
  BY DEF GlmWay
<1>1. ASSUME NEW a \in Prompts, NEW b \in Prompts PROVE a \o b \in Prompts
  BY DEF Prompts
<1>2. GlmMessage(x) \in {<<"<|system|>">> \o x.content, <<"<|user|>">> \o x.content,
                         <<"<|assistant|>", "<think>", "</think>">> \o Trim(x.content)}
  BY MessageCases DEF GlmMessage
<1>3. /\ x.content \in Prompts /\ Trim(x.content) \in Prompts
      /\ <<"<|system|>">> \in Prompts /\ <<"<|user|>">> \in Prompts
      /\ <<"<|assistant|>", "<think>", "</think>">> \in Prompts
  BY MessageCases, Constants
<1>4. QED
  BY <1>1, <1>2, <1>3

\* Qwen does.
LEMMA QwenIsWay == QwenWay \in [Messages -> Prompts]
<1> SUFFICES ASSUME NEW x \in Messages PROVE QwenMessage(x) \in Prompts
  BY DEF QwenWay
<1> DEFINE thought == IF x.role = "assistant" THEN <<"<think>", "</think>">> ELSE <<>>
<1>1. thought \in Prompts
  BY Constants
<1>2. QwenMessage(x) = Concat(Concat(Concat(<<"<|im_start|>", x.role>>, thought),
                                     Trim(x.content)), <<"<|im_end|>">>)
  BY DEF QwenMessage, Concat
<1> HIDE DEF thought
<1>3. QED
  <2>1. /\ <<"<|im_start|>", x.role>> \in Prompts /\ Trim(x.content) \in Prompts
        /\ <<"<|im_end|>">> \in Prompts
    BY MessageCases, Constants
  <2>2. QED
    BY <1>1, <1>2, <2>1, Joins

\* And Gemma does.
LEMMA GemmaIsWay == GemmaWay \in [Messages -> Prompts]
<1> SUFFICES ASSUME NEW x \in Messages PROVE GemmaMessage(x) \in Prompts
  BY DEF GemmaWay
<1> DEFINE role == IF x.role = "assistant" THEN "model" ELSE x.role
<1>1. role \in Symbols
  BY MessageCases, Written DEF Markers
<1>2. GemmaMessage(x) = Concat(Concat(<<"<|turn>", role>>, Trim(x.content)), <<"<turn|>">>)
  BY DEF GemmaMessage, Concat
<1> HIDE DEF role
<1>3. QED
  <2>1. /\ <<"<|turn>", role>> \in Prompts /\ Trim(x.content) \in Prompts
        /\ <<"<turn|>">> \in Prompts
    BY <1>1, MessageCases, Constants
  <2>2. QED
    BY <1>2, <2>1, Joins

\* Tuples, one after the other.
LEMMA TwoAndOne ==
    ASSUME NEW S, NEW a \in S, NEW b \in S, NEW c \in S
    PROVE  <<a, b>> \o <<c>> = <<a, b, c>>
<1>1. /\ <<a, b>> \in Seq(S) /\ <<c>> \in Seq(S) /\ <<a, b, c>> \in Seq(S)
      /\ Len(<<a, b, c>>) = 3 /\ Len(<<a, b>>) = 2 /\ Len(<<c>>) = 1
  OBVIOUS
<1>2. <<a, b>> \o <<c>> \in Seq(S) /\ Len(<<a, b>> \o <<c>>) = 3
  OBVIOUS
<1>3. \A i \in 1..3 : (<<a, b>> \o <<c>>)[i] = <<a, b, c>>[i]
  <2>1. /\ (<<a, b>> \o <<c>>)[1] = a
        /\ (<<a, b>> \o <<c>>)[2] = b
        /\ (<<a, b>> \o <<c>>)[3] = c
    OBVIOUS
  <2>2. QED
    BY <2>1
<1>4. QED
  BY <1>1, <1>2, <1>3, SeqEqual

\* Three symbols and one are four.
LEMMA ThreeAndOne ==
    ASSUME NEW S, NEW a \in S, NEW b \in S, NEW c \in S, NEW d \in S
    PROVE  <<a, b, c>> \o <<d>> = <<a, b, c, d>>
<1>1. /\ <<a, b, c>> \in Seq(S) /\ <<d>> \in Seq(S) /\ <<a, b, c, d>> \in Seq(S)
      /\ Len(<<a, b, c, d>>) = 4 /\ Len(<<a, b, c>>) = 3 /\ Len(<<d>>) = 1
  OBVIOUS
<1>2. <<a, b, c>> \o <<d>> \in Seq(S) /\ Len(<<a, b, c>> \o <<d>>) = 4
  OBVIOUS
<1>3. \A i \in 1..4 : (<<a, b, c>> \o <<d>>)[i] = <<a, b, c, d>>[i]
  <2>1. /\ (<<a, b, c>> \o <<d>>)[1] = a
        /\ (<<a, b, c>> \o <<d>>)[2] = b
        /\ (<<a, b, c>> \o <<d>>)[3] = c
        /\ (<<a, b, c>> \o <<d>>)[4] = d
    OBVIOUS
  <2>2. QED
    BY <2>1
<1>4. QED
  BY <1>1, <1>2, <1>3, SeqEqual

\* Two symbols and two are four.
LEMMA TwoAndTwo ==
    ASSUME NEW S, NEW a \in S, NEW b \in S, NEW c \in S, NEW d \in S
    PROVE  <<a, b>> \o <<c, d>> = <<a, b, c, d>>
<1>1. /\ <<a, b>> \in Seq(S) /\ <<c, d>> \in Seq(S) /\ <<a, b, c, d>> \in Seq(S)
      /\ Len(<<a, b, c, d>>) = 4 /\ Len(<<a, b>>) = 2 /\ Len(<<c, d>>) = 2
  OBVIOUS
<1>2. <<a, b>> \o <<c, d>> \in Seq(S) /\ Len(<<a, b>> \o <<c, d>>) = 4
  OBVIOUS
<1>3. \A i \in 1..4 : (<<a, b>> \o <<c, d>>)[i] = <<a, b, c, d>>[i]
  <2>1. /\ (<<a, b>> \o <<c, d>>)[1] = a
        /\ (<<a, b>> \o <<c, d>>)[2] = b
        /\ (<<a, b>> \o <<c, d>>)[3] = c
        /\ (<<a, b>> \o <<c, d>>)[4] = d
    OBVIOUS
  <2>2. QED
    BY <2>1
<1>4. QED
  BY <1>1, <1>2, <1>3, SeqEqual

\* How the prefixes a template writes before an answer come apart.
LEMMA Written2 ==
    /\ Concat(<<"<|assistant|>", "<think>">>, <<"</think>">>)
         = <<"<|assistant|>", "<think>", "</think>">>
    /\ Concat(<<"<|im_start|>", "assistant", "<think>">>, <<"</think>">>)
         = <<"<|im_start|>", "assistant", "<think>", "</think>">>
    /\ Concat(<<"<|im_start|>", "assistant">>, <<"<think>", "</think>">>)
         = <<"<|im_start|>", "assistant", "<think>", "</think>">>
    /\ Concat(<<"<|turn>", "model">>, <<"<|channel>thought", "<channel|>">>)
         = <<"<|turn>", "model", "<|channel>thought", "<channel|>">>
<1>1. /\ "<|assistant|>" \in Markers /\ "<think>" \in Markers /\ "</think>" \in Markers
      /\ "<|im_start|>" \in Markers /\ "assistant" \in Markers /\ "<|turn>" \in Markers
      /\ "model" \in Markers /\ "<|channel>thought" \in Markers /\ "<channel|>" \in Markers
  BY DEF Markers
<1>2. \A a, b, c \in Markers : Concat(<<a, b>>, <<c>>) = <<a, b, c>>
  BY TwoAndOne DEF Concat
<1>3. \A a, b, c, d \in Markers : Concat(<<a, b, c>>, <<d>>) = <<a, b, c, d>>
  BY ThreeAndOne DEF Concat
<1>4. \A a, b, c, d \in Markers : Concat(<<a, b>>, <<c, d>>) = <<a, b, c, d>>
  BY TwoAndTwo DEF Concat
<1>5. QED
  BY <1>1, <1>2, <1>3, <1>4

\* Nothing joined to a prompt leaves it as it is.
LEMMA EmptyJoins ==
    ASSUME NEW a \in Prompts PROVE Concat(a, <<>>) = a /\ Concat(<<>>, a) = a
<1>1. a \in Seq(Symbols)
  BY DEF Prompts
<1>2. a \o <<>> = a /\ <<>> \o a = a
  BY <1>1
<1>3. QED
  BY <1>2 DEF Concat

\* The messages rendered one after the other are a prompt.
LEMMA RenderingType ==
    ASSUME NEW F \in [Messages -> Prompts], NEW m \in Seq(Messages)
    PROVE  Rendering(F, m) \in Prompts
<1>1. PICK x : x \in Messages
  <2>1. <<>> \in Seq(Nat)
    OBVIOUS
  <2>2. [role |-> "user", content |-> <<>>] \in Messages
    BY <2>1 DEF Messages
  <2>3. QED
    BY <2>2
<1>2. QED
  BY <1>1, RenderedMore DEF Rendering

\* A GLM prompt: the start, the messages, and the beginning of an answer.
LEMMA GlmShape ==
    ASSUME NEW m \in Seq(Messages)
    PROVE  /\ GlmRender(m, FALSE) = Concat(Concat(<<"[gMASK]<sop>">>, Rendering(GlmWay, m)),
                                           <<"<|assistant|>", "<think>", "</think>">>)
           /\ Rendering(GlmWay, m) \in Prompts
<1>1. [i \in DOMAIN m |-> GlmMessage(m[i])] = [i \in DOMAIN m |-> GlmWay[m[i]]]
  <2>1. \A i \in DOMAIN m : m[i] \in Messages
    OBVIOUS
  <2>2. QED
    BY <2>1 DEF GlmWay
<1>2. Rendering(GlmWay, m) \in Prompts
  BY GlmIsWay, RenderingType
<1>3. GlmRender(m, FALSE)
         = Concat(Concat(Concat(<<"[gMASK]<sop>">>, Rendering(GlmWay, m)),
                         <<"<|assistant|>", "<think>">>), <<"</think>">>)
  BY <1>1 DEF GlmRender, Concat, Rendering
<1>4. Concat(<<"[gMASK]<sop>">>, Rendering(GlmWay, m)) \in Prompts
  BY <1>2, Constants, Joins
<1> DEFINE hf == Concat(<<"[gMASK]<sop>">>, Rendering(GlmWay, m))
           a == <<"<|assistant|>", "<think>">>  b == <<"</think>">>
<1>5. a \in Prompts /\ b \in Prompts /\ Concat(a, b) = <<"<|assistant|>", "<think>", "</think>">>
  BY Constants, Written2
<1> HIDE DEF hf, a, b
<1>6. Concat(Concat(hf, a), b) = Concat(hf, Concat(a, b))
  BY <1>4, <1>5, Rejoins DEF hf
<1>7. QED
  BY <1>2, <1>3, <1>5, <1>6 DEF hf, a, b

\* GLM's next prompt goes on from this one and its trimmed answer.
LEMMA GlmTurns ==
    ASSUME NEW m \in Seq(Messages), NEW answer \in Seq(Nat)
    PROVE  /\ GlmRender(m, FALSE) # SystemMessageOrder
           /\ IsPrefix(GlmRender(m, FALSE) \o Trim(answer), GlmRender(Reply(m, answer), FALSE))
<1>1. PICK x, y \in Messages :
         /\ x.role = "assistant" /\ x.content = answer
         /\ Reply(m, answer) = Append(Append(m, x), y)
  BY ReplyMessages
<1> DEFINE h == <<"[gMASK]<sop>">>  e == <<"<|assistant|>", "<think>", "</think>">>
           f == Rendering(GlmWay, m)  longer == Append(Append(m, x), y)
<1>2. GlmRender(m, FALSE) = Concat(Concat(h, f), e) /\ f \in Prompts
  BY GlmShape
<1>3. longer \in Seq(Messages)
  <2> HIDE DEF Messages
  <2>1. QED
    BY <1>1
<1>4. GlmRender(longer, FALSE) = Concat(Concat(h, Rendering(GlmWay, longer)), e)
  <2> HIDE DEF longer
  <2>1. QED
    BY <1>3, GlmShape
<1>5. h \in Prompts /\ e \in Prompts /\ Len(e) = 3
  BY Constants
<1>6. Trim(answer) \in Prompts
  BY <1>1, MessageText
<1>7. GlmWay[x] = Concat(Concat(e, Trim(answer)), <<>>) /\ <<>> \in Prompts
  <2>1. GlmWay[x] = Concat(e, Trim(answer))
    BY <1>1 DEF GlmWay, GlmMessage, Concat
  <2> HIDE DEF e
  <2>2. QED
    BY <1>5, <1>6, <2>1, Constants, Joins, EmptyJoins
<1> HIDE DEF h, e, f
<1>8. IsPrefix(Concat(Concat(Concat(h, f), e), Trim(answer)),
               Concat(Concat(h, Rendering(GlmWay, longer)), e))
  BY <1>1, <1>5, <1>6, <1>7, GlmIsWay, TurnExtends DEF f
<1>9. Concat(Concat(h, f), e) # SystemMessageOrder
  <2>1. Concat(h, f) \in Prompts
    BY <1>2, <1>5, Joins
  <2>2. Concat(Concat(h, f), e) \in Prompts /\ Len(Concat(Concat(h, f), e)) >= 2
    <3>1. ASSUME NEW a \in Prompts, NEW b \in Prompts, Len(b) >= 2
          PROVE  Concat(a, b) \in Prompts /\ Len(Concat(a, b)) >= 2
      BY <3>1, PromptJoin DEF Concat
    <3>2. e \in Prompts /\ Len(e) >= 2
      BY <1>5
    <3>3. QED
      BY <2>1, <3>1, <3>2
  <2>3. QED
    BY <2>2, LongerThanOne
<1>10. QED
  BY <1>1, <1>2, <1>4, <1>8, <1>9 DEF Concat

\* Two symbols joined on are what the last two are.
LEMMA LastTwoDropped ==
    ASSUME NEW a \in Prompts, NEW b \in Prompts, Len(b) = 2
    PROVE  SubSeq(Concat(a, b), 1, Len(Concat(a, b)) - 2) = a
<1> DEFINE c == a \o b
<1>1. Len(c) = Len(a) + Len(b) /\ Len(a) \in Nat /\ SubSeq(c, 1, Len(a)) = a
  BY PromptJoin
<1>2. Concat(a, b) = c
  BY DEF Concat
<1> HIDE DEF c
<1>3. Len(c) - 2 = Len(a)
  BY <1>1
<1>4. QED
  BY <1>1, <1>2, <1>3

\* A prompt that ends in two symbols is not the error.
LEMMA JoinedLength ==
    ASSUME NEW a \in Prompts, NEW b \in Prompts, Len(b) >= 2
    PROVE  Concat(a, b) # SystemMessageOrder
<1>1. Concat(a, b) \in Prompts /\ Len(Concat(a, b)) >= 2
  BY PromptJoin DEF Concat
<1>2. QED
  BY <1>1, LongerThanOne

\* A Qwen prompt: the messages, and the beginning of an answer.
LEMMA QwenShape ==
    ASSUME NEW m \in Seq(Messages), ~ Misplaced(m)
    PROVE  /\ QwenRender(m, FALSE) = Concat(Concat(<<>>, Rendering(QwenWay, m)),
                                            <<"<|im_start|>", "assistant", "<think>", "</think>">>)
           /\ Rendering(QwenWay, m) \in Prompts
<1> DEFINE f == Rendering(QwenWay, m)
           a == <<"<|im_start|>", "assistant", "<think>">>  b == <<"</think>">>
<1>1. [i \in DOMAIN m |-> QwenMessage(m[i])] = [i \in DOMAIN m |-> QwenWay[m[i]]]
  <2>1. \A i \in DOMAIN m : m[i] \in Messages
    OBVIOUS
  <2>2. QED
    BY <2>1 DEF QwenWay
<1>2. f \in Prompts
  BY QwenIsWay, RenderingType
<1>3. QwenRender(m, FALSE) = Concat(Concat(f, a), b)
  BY <1>1 DEF QwenRender, Concat, Rendering
<1>4. /\ a \in Prompts /\ b \in Prompts
      /\ Concat(a, b) = <<"<|im_start|>", "assistant", "<think>", "</think>">>
  BY Constants, Written2
<1> HIDE DEF f, a, b
<1>5. Concat(Concat(f, a), b) = Concat(f, Concat(a, b)) /\ Concat(<<>>, f) = f
  BY <1>2, <1>4, Rejoins, EmptyJoins
<1>6. QED
  BY <1>2, <1>3, <1>4, <1>5 DEF f

\* Qwen's next prompt goes on from this one and its answer, or both are the error.
LEMMA QwenTurns ==
    ASSUME NEW m \in Seq(Messages), NEW answer \in Seq(Nat)
    PROVE  IF Misplaced(m) THEN QwenRender(Reply(m, answer), FALSE) = SystemMessageOrder
           ELSE /\ QwenRender(m, FALSE) # SystemMessageOrder
                /\ IsPrefix(QwenRender(m, FALSE) \o Trim(answer),
                            QwenRender(Reply(m, answer), FALSE))
<1>1. PICK x, y \in Messages :
         /\ x.role = "assistant" /\ x.content = answer /\ y.role = "user"
         /\ Reply(m, answer) = Append(Append(m, x), y)
  BY ReplyMessages
<1> DEFINE e == <<"<|im_start|>", "assistant", "<think>", "</think>">>  rest == <<"<|im_end|>">>
           f == Rendering(QwenWay, m)  longer == Append(Append(m, x), y)
<1>2. Misplaced(longer) <=> Misplaced(m)
  BY <1>1, StillMisplaced
<1>3. CASE Misplaced(m)
  BY <1>1, <1>2, <1>3 DEF QwenRender
<1>4. CASE ~ Misplaced(m)
  <2>1. QwenRender(m, FALSE) = Concat(Concat(<<>>, f), e) /\ f \in Prompts
    BY <1>4, QwenShape
  <2>2. longer \in Seq(Messages)
    <3> HIDE DEF Messages
    <3>1. QED
      BY <1>1
  <2>3. QwenRender(longer, FALSE) = Concat(Concat(<<>>, Rendering(QwenWay, longer)), e)
    <3> HIDE DEF longer
    <3>1. QED
      BY <1>2, <1>4, <2>2, QwenShape
  <2>4. e \in Prompts /\ Len(e) >= 2 /\ <<>> \in Prompts /\ rest \in Prompts
    BY Constants
  <2>5. Trim(answer) \in Prompts
    BY <1>1, MessageText
  <2>6. QwenWay[x] = Concat(Concat(e, Trim(answer)), rest)
    <3>1. QwenWay[x] = Concat(Concat(Concat(<<"<|im_start|>", "assistant">>,
                                            <<"<think>", "</think>">>), Trim(answer)), rest)
      BY <1>1 DEF QwenWay, QwenMessage, Concat
    <3>2. QED
      BY <3>1, Written2
  <2> HIDE DEF e, f, rest
  <2>7. IsPrefix(Concat(Concat(Concat(<<>>, f), e), Trim(answer)),
                 Concat(Concat(<<>>, Rendering(QwenWay, longer)), e))
    BY <1>1, <2>4, <2>5, <2>6, QwenIsWay, TurnExtends DEF f
  <2>8. Concat(Concat(<<>>, f), e) # SystemMessageOrder
    <3>1. Concat(<<>>, f) \in Prompts
      BY <2>1, <2>4, Joins
    <3>2. QED
      BY <2>4, <3>1, JoinedLength
  <2>9. QED
    BY <1>1, <1>4, <2>1, <2>3, <2>7, <2>8 DEF Concat
<1>5. QED
  BY <1>3, <1>4

\* A Gemma prompt: the start, the messages, and the beginning of an answer.
LEMMA GemmaShape ==
    ASSUME NEW m \in Seq(Messages), ~ Misplaced(m)
    PROVE  /\ GemmaRender(m) = Concat(Concat(<<"<bos>">>, Rendering(GemmaWay, m)),
                                      <<"<|turn>", "model", "<|channel>thought", "<channel|>">>)
           /\ Rendering(GemmaWay, m) \in Prompts
<1>1. [i \in DOMAIN m |-> GemmaMessage(m[i])] = [i \in DOMAIN m |-> GemmaWay[m[i]]]
  <2>1. \A i \in DOMAIN m : m[i] \in Messages
    OBVIOUS
  <2>2. QED
    BY <2>1 DEF GemmaWay
<1>2. Rendering(GemmaWay, m) \in Prompts
  BY GemmaIsWay, RenderingType
<1>3. QED
  BY <1>1, <1>2 DEF GemmaRender, Concat, Rendering

\* Gemma's next prompt goes on from this one without the two symbols that close its thoughts.
LEMMA GemmaTurns ==
    ASSUME NEW m \in Seq(Messages), NEW answer \in Seq(Nat)
    PROVE  IF Misplaced(m) THEN GemmaRender(Reply(m, answer)) = SystemMessageOrder
           ELSE /\ GemmaRender(m) # SystemMessageOrder
                /\ IsPrefix(SubSeq(GemmaRender(m), 1, Len(GemmaRender(m)) - 2) \o <<>>,
                            GemmaRender(Reply(m, answer)))
<1>1. PICK x, y \in Messages :
         /\ x.role = "assistant" /\ x.content = answer /\ y.role = "user"
         /\ Reply(m, answer) = Append(Append(m, x), y)
  BY ReplyMessages
<1> DEFINE h == <<"<bos>">>  t == <<"<|turn>", "model">>  u == <<"<|channel>thought", "<channel|>">>
           e == <<"<|turn>", "model", "<|channel>thought", "<channel|>">>
           end == <<"<turn|>">>  rest == Concat(Trim(answer), end)
           f == Rendering(GemmaWay, m)  longer == Append(Append(m, x), y)
<1>2. Misplaced(longer) <=> Misplaced(m)
  BY <1>1, StillMisplaced
<1>3. CASE Misplaced(m)
  BY <1>1, <1>2, <1>3 DEF GemmaRender
<1>4. CASE ~ Misplaced(m)
  <2>1. GemmaRender(m) = Concat(Concat(h, f), e) /\ f \in Prompts
    BY <1>4, GemmaShape
  <2>2. longer \in Seq(Messages)
    <3> HIDE DEF Messages
    <3>1. QED
      BY <1>1
  <2>3. GemmaRender(longer) = Concat(Concat(h, Rendering(GemmaWay, longer)), e)
    <3> HIDE DEF longer
    <3>1. QED
      BY <1>2, <1>4, <2>2, GemmaShape
  <2>4. /\ h \in Prompts /\ t \in Prompts /\ u \in Prompts /\ e \in Prompts /\ end \in Prompts
        /\ <<>> \in Prompts /\ Len(e) >= 2 /\ Len(u) = 2 /\ e = Concat(t, u)
    BY Constants, Written2
  <2>5. Trim(answer) \in Prompts
    BY <1>1, MessageText
  <2>6. GemmaWay[x] = Concat(Concat(t, <<>>), rest) /\ rest \in Prompts
    <3>1. GemmaWay[x] = Concat(Concat(t, Trim(answer)), end)
      BY <1>1 DEF GemmaWay, GemmaMessage, Concat
    <3> HIDE DEF t, end
    <3>2. Concat(Concat(t, Trim(answer)), end) = Concat(t, rest) /\ rest \in Prompts
      BY <2>4, <2>5, Joins, Rejoins
    <3>3. Concat(t, <<>>) = t
      BY <2>4, EmptyJoins
    <3>4. QED
      BY <3>1, <3>2, <3>3
  <2> HIDE DEF h, t, u, e, end, rest, f
  <2>7. IsPrefix(Concat(Concat(Concat(h, f), t), <<>>),
                 Concat(Concat(h, Rendering(GemmaWay, longer)), e))
    BY <1>1, <2>4, <2>6, GemmaIsWay, TurnExtends DEF f
  <2>8. Concat(h, f) \in Prompts /\ Concat(Concat(h, f), t) \in Prompts
    BY <2>1, <2>4, Joins
  <2>9. Concat(Concat(h, f), e) # SystemMessageOrder
    BY <2>4, <2>8, JoinedLength
  <2>10. SubSeq(GemmaRender(m), 1, Len(GemmaRender(m)) - 2) = Concat(Concat(h, f), t)
    <3>1. GemmaRender(m) = Concat(Concat(Concat(h, f), t), u)
      BY <2>1, <2>4, <2>8, Rejoins
    <3>2. QED
      BY <2>4, <2>8, <3>1, LastTwoDropped
  <2>11. QED
    BY <1>1, <1>4, <2>1, <2>3, <2>7, <2>9, <2>10 DEF Concat
<1>5. QED
  BY <1>3, <1>4

-----------------------------------------------------------------------------
ChatTypeOK ==
    /\ template \in {"glm", "qwen", "gemma"}
    /\ conversation \in Seq(Messages)

\* Every template renders the next turn's prompt as a continuation of this turn's and its
\* trimmed answer (Gemma's, of this turn's without the thought channel it opens): the
\* session extends its cache.  A conversation that is refused now is refused then.
THEOREM TurnsExtend == ChatSpec => []TurnsExtendPrompt
<1>1. ChatInit => ChatTypeOK
  <2>1. <<>> \in Seq(Messages)
    OBVIOUS
  <2>2. QED
    BY <2>1 DEF ChatInit, ChatTypeOK
<1>2. ChatTypeOK /\ [Say]_chatVars => ChatTypeOK'
  <2> SUFFICES ASSUME ChatTypeOK, [Say]_chatVars PROVE ChatTypeOK'
    OBVIOUS
  <2>1. CASE Say
    <3>1. PICK message \in Messages : conversation' = Append(conversation, message)
      BY <2>1, ChatTemplateAssumption DEF Say, Messages
    <3>2. conversation' \in Seq(Messages)
      <4> HIDE DEF Messages
      <4>1. QED
        BY <3>1 DEF ChatTypeOK
    <3>3. QED
      BY <2>1, <3>2 DEF Say, ChatTypeOK
  <2>2. CASE UNCHANGED chatVars
    BY <2>2 DEF chatVars, ChatTypeOK
  <2>3. QED
    BY <2>1, <2>2
<1>3. ChatTypeOK => TurnsExtendPrompt
  <2> SUFFICES ASSUME ChatTypeOK PROVE TurnsExtendPrompt
    OBVIOUS
  <2> DEFINE prompt == Render(template, conversation, FALSE)
             next(answer) == Render(template, Reply(conversation, answer), FALSE)
             held(answer) == IF template = "gemma" THEN <<>> ELSE Trim(answer)
  <2>1. ASSUME NEW answer \in Contents
        PROVE  IF prompt = SystemMessageOrder THEN next(answer) = prompt
               ELSE IsPrefix(Lasting(prompt) \o held(answer), next(answer))
    <3>1. answer \in Seq(Nat) /\ conversation \in Seq(Messages)
      BY ChatTemplateAssumption DEF ChatTypeOK
    <3>2. CASE template = "glm"
      BY <3>1, <3>2, GlmTurns DEF Render, Lasting
    <3>3. CASE template = "qwen"
      <4>1. /\ prompt = QwenRender(conversation, FALSE)
            /\ next(answer) = QwenRender(Reply(conversation, answer), FALSE)
            /\ held(answer) = Trim(answer) /\ Lasting(prompt) = prompt
        BY <3>3 DEF Render, Lasting
      <4>2. Misplaced(conversation) => prompt = SystemMessageOrder
        BY <4>1 DEF QwenRender
      <4> HIDE DEF prompt, next, held
      <4>3. QED
        BY <3>1, <4>1, <4>2, QwenTurns
    <3>4. CASE template = "gemma"
      <4>1. /\ prompt = GemmaRender(conversation)
            /\ next(answer) = GemmaRender(Reply(conversation, answer))
            /\ held(answer) = <<>> /\ Lasting(prompt) = SubSeq(prompt, 1, Len(prompt) - 2)
        BY <3>4 DEF Render, Lasting
      <4>2. Misplaced(conversation) => prompt = SystemMessageOrder
        BY <4>1 DEF GemmaRender
      <4> HIDE DEF prompt, next, held
      <4>3. QED
        BY <3>1, <4>1, <4>2, GemmaTurns
    <3>5. QED
      BY <3>2, <3>3, <3>4 DEF ChatTypeOK
  <2>2. QED
    BY <2>1 DEF TurnsExtendPrompt, Reply
<1>4. QED
  BY <1>1, <1>2, <1>3, PTL DEF ChatSpec

-----------------------------------------------------------------------------
(***************************************************************************)
(* Sampling.  The weight of a set of tokens is a fold in an order nobody   *)
(* fixes: a token adds its weight, whichever the fold takes first.         *)
(***************************************************************************)
OneOf(s) == CHOOSE x \in s : TRUE

IsWeights(S, g) == \A x \in S : g[x] \in Nat

\* A fold of the weights of the subsets of S, in the order OneOf gives.
IsSum(S, g, sum) ==
    /\ sum \in [SUBSET S -> Nat]
    /\ \A s \in SUBSET S : sum[s] = IF s = {} THEN 0 ELSE g[OneOf(s)] + sum[s \ {OneOf(s)}]

\* Subsets of finite sets.
LEMMA FiniteParts ==
    ASSUME NEW S, IsFiniteSet(S)
    PROVE  /\ Cardinality(S) \in Nat
           /\ \A s \in SUBSET S :
                 /\ IsFiniteSet(s) /\ Cardinality(s) \in Nat
                 /\ Cardinality(s) <= Cardinality(S)
                 /\ Cardinality(s) = 0 <=> s = {}
                 /\ \A x \in s : Cardinality(s \ {x}) = Cardinality(s) - 1
                 /\ s # {} => OneOf(s) \in s /\ s \ {OneOf(s)} \in SUBSET S
<1>1. Cardinality(S) \in Nat
  BY FS_CardinalityType
<1>2. ASSUME NEW s \in SUBSET S
      PROVE  /\ IsFiniteSet(s) /\ Cardinality(s) \in Nat
             /\ Cardinality(s) <= Cardinality(S) /\ (Cardinality(s) = 0 <=> s = {})
  BY FS_Subset, FS_CardinalityType, FS_EmptySet
<1>3. ASSUME NEW s \in SUBSET S, NEW x \in s PROVE Cardinality(s \ {x}) = Cardinality(s) - 1
  BY <1>2, FS_RemoveElement
<1>4. ASSUME NEW s \in SUBSET S, s # {} PROVE OneOf(s) \in s /\ s \ {OneOf(s)} \in SUBSET S
  BY <1>4 DEF OneOf
<1>5. QED
  BY <1>1, <1>2, <1>3, <1>4

\* There is a fold of the weights of a finite set.
LEMMA SumExists ==
    ASSUME NEW S, IsFiniteSet(S), NEW g, IsWeights(S, g)
    PROVE  \E sum : IsSum(S, g, sum)
<1> DEFINE Upto(n) == {s \in SUBSET S : Cardinality(s) <= n}
           Sums(n) == {sum \in [Upto(n) -> Nat] :
                         \A s \in Upto(n) :
                            sum[s] = IF s = {} THEN 0 ELSE g[OneOf(s)] + sum[s \ {OneOf(s)}]}
           K == {n \in Nat : Sums(n) # {}}
<1>1. 0 \in K
  <2>1. ASSUME NEW s \in Upto(0) PROVE s = {}
    <3>1. s \in SUBSET S /\ Cardinality(s) <= 0
      OBVIOUS
    <3>2. Cardinality(s) \in Nat /\ (Cardinality(s) = 0 => s = {})
      BY <3>1, FiniteParts
    <3> HIDE DEF Upto
    <3>3. QED
      BY <3>1, <3>2
  <2>2. [s \in Upto(0) |-> 0] \in Sums(0)
    BY <2>1
  <2>3. QED
    BY <2>2
<1>2. ASSUME NEW n \in Nat, n \in K PROVE n + 1 \in K
  <2>1. PICK sum : sum \in Sums(n)
    BY <1>2
  <2> DEFINE next == [s \in Upto(n + 1) |->
                        IF s = {} THEN 0 ELSE g[OneOf(s)] + sum[s \ {OneOf(s)}]]
  <2>2. ASSUME NEW s \in Upto(n + 1), s # {}
        PROVE  s \ {OneOf(s)} \in Upto(n) /\ g[OneOf(s)] \in Nat
    <3>1. s \in SUBSET S /\ Cardinality(s) <= n + 1
      OBVIOUS
    <3>2. /\ OneOf(s) \in s /\ s \ {OneOf(s)} \in SUBSET S
          /\ Cardinality(s \ {OneOf(s)}) = Cardinality(s) - 1 /\ Cardinality(s) \in Nat
      BY <2>2, <3>1, FiniteParts
    <3>3. QED
      BY <3>1, <3>2 DEF IsWeights
  <2>3. \A s \in Upto(n) : next[s] = sum[s] /\ s \in Upto(n + 1)
    <3>1. SUFFICES ASSUME NEW s \in Upto(n) PROVE next[s] = sum[s] /\ s \in Upto(n + 1)
      OBVIOUS
    <3>2. s \in Upto(n + 1)
      <4>1. Cardinality(s) \in Nat
        BY FiniteParts
      <4>2. QED
        BY <4>1
    <3>3. QED
      BY <2>1, <3>2
  <2>4. next \in [Upto(n + 1) -> Nat]
    BY <2>1, <2>2
  <2>5. next \in Sums(n + 1)
    BY <2>2, <2>3, <2>4
  <2> HIDE DEF Sums, next
  <2>6. QED
    BY <2>5
<1>3. Nat \subseteq K
  <2> HIDE DEF K
  <2>1. QED
    BY <1>1, <1>2, SetInduction
<1>4. PICK sum : sum \in Sums(Cardinality(S))
  <2>1. Cardinality(S) \in K
    BY <1>3, FiniteParts
  <2> HIDE DEF Sums
  <2>2. QED
    BY <2>1
<1>5. Upto(Cardinality(S)) = SUBSET S
  BY FiniteParts
<1>6. sum \in [SUBSET S -> Nat] /\ \A s \in SUBSET S :
          sum[s] = IF s = {} THEN 0 ELSE g[OneOf(s)] + sum[s \ {OneOf(s)}]
  BY <1>4, <1>5
<1>7. QED
  BY <1>6 DEF IsSum

\* Folds over a set and over a part of it agree on the part.
LEMMA SumsAgree ==
    ASSUME NEW S, IsFiniteSet(S), NEW T \in SUBSET S, NEW g, IsWeights(S, g),
           NEW a, IsSum(S, g, a), NEW b, IsSum(T, g, b)
    PROVE  a[T] = b[T]
<1> DEFINE K == {n \in Nat : \A s \in SUBSET T : Cardinality(s) = n => a[s] = b[s]}
<1>1. IsFiniteSet(T)
  BY FS_Subset
<1>2. 0 \in K
  <2>1. \A s \in SUBSET T : Cardinality(s) = 0 => s = {}
    BY <1>1, FiniteParts
  <2>2. a[{}] = 0 /\ b[{}] = 0
    BY DEF IsSum
  <2>3. QED
    BY <2>1, <2>2
<1>3. ASSUME NEW n \in Nat, n \in K PROVE n + 1 \in K
  <2> SUFFICES ASSUME NEW s \in SUBSET T, Cardinality(s) = n + 1 PROVE a[s] = b[s]
    OBVIOUS
  <2> DEFINE x == OneOf(s)  t == s \ {OneOf(s)}
  <2>1. s # {} /\ x \in s /\ t \in SUBSET T /\ Cardinality(t) = n
    BY <1>1, FiniteParts
  <2>2. a[t] = b[t]
    BY <1>3, <2>1
  <2>3. s \in SUBSET S /\ s \in SUBSET T
    OBVIOUS
  <2>4. a[s] = g[x] + a[t]
    BY <2>1, <2>3 DEF IsSum
  <2>5. b[s] = g[x] + b[t]
    BY <2>1, <2>3 DEF IsSum
  <2> HIDE DEF x, t
  <2>6. QED
    BY <2>2, <2>4, <2>5
<1>4. Nat \subseteq K
  <2> HIDE DEF K
  <2>1. QED
    BY <1>2, <1>3, SetInduction
<1>5. QED
  BY <1>1, <1>4, FiniteParts

\* One more element adds its weight, whichever the fold takes first.
LEMMA SumAdds ==
    ASSUME NEW S, IsFiniteSet(S), NEW g, IsWeights(S, g), NEW a, IsSum(S, g, a),
           NEW p \in S, NEW s0 \in SUBSET S, p \notin s0
    PROVE  a[s0 \union {p}] = a[s0] + g[p]
<1> DEFINE K == {n \in Nat : \A s \in SUBSET S, q \in S : Cardinality(s) = n /\ q \notin s =>
                               a[s \union {q}] = a[s] + g[q]}
<1>1. \A s \in SUBSET S : a[s] \in Nat
  BY DEF IsSum
<1>2. \A q \in S : g[q] \in Nat
  BY DEF IsWeights
<1>3. 0 \in K
  <2> SUFFICES ASSUME NEW s \in SUBSET S, NEW q \in S, Cardinality(s) = 0
               PROVE  a[s \union {q}] = a[s] + g[q]
    OBVIOUS
  <2>1. s = {}
    BY FiniteParts
  <2>2. OneOf({q}) = q /\ {q} \ {q} = {} /\ {q} \in SUBSET S
    BY DEF OneOf
  <2>3. a[{}] = 0 /\ a[{q}] = g[q] + a[{}]
    BY <2>2 DEF IsSum
  <2>4. s \union {q} = {q}
    BY <2>1
  <2>5. QED
    BY <1>2, <2>1, <2>3, <2>4
<1>4. ASSUME NEW n \in Nat, n \in K PROVE n + 1 \in K
  <2> SUFFICES ASSUME NEW s \in SUBSET S, NEW q \in S, Cardinality(s) = n + 1, q \notin s
               PROVE  a[s \union {q}] = a[s] + g[q]
    OBVIOUS
  <2> DEFINE more == s \union {q}  x == OneOf(s \union {q})  t == s \ {OneOf(s \union {q})}
  <2>1. more \in SUBSET S /\ more # {} /\ x \in more
    BY DEF OneOf
  <2>2. a[more] = g[x] + a[more \ {x}]
    BY <2>1 DEF IsSum
  <2>3. CASE x = q
    <3>1. more \ {x} = s
      BY <2>3
    <3> HIDE DEF more, x
    <3>2. a[more] = g[q] + a[s]
      BY <2>2, <2>3, <3>1
    <3>3. QED
      BY <1>1, <1>2, <3>2 DEF more
  <2>4. CASE x # q
    <3>1. x \in s /\ t \in SUBSET S /\ x \notin t /\ q \notin t /\ x \in S
      BY <2>1, <2>4
    <3>2. Cardinality(t) = n
      <4>1. Cardinality(s \ {x}) = Cardinality(s) - 1
        BY <3>1, FiniteParts
      <4>2. QED
        BY <4>1
    <3>3. more \ {x} = t \union {q} /\ s = t \union {x}
      BY <2>1, <2>4, <3>1
    <3> HIDE DEF more, x, t
    <3>4. a[t \union {q}] = a[t] + g[q] /\ a[t \union {x}] = a[t] + g[x]
      BY <1>4, <3>1, <3>2
    <3>5. a[more] = g[x] + (a[t] + g[q]) /\ a[s] = a[t] + g[x]
      BY <2>2, <3>3, <3>4
    <3>6. a[t] \in Nat /\ g[x] \in Nat /\ g[q] \in Nat
      BY <1>1, <1>2, <3>1
    <3>7. a[more] = a[s] + g[q]
      BY <3>5, <3>6
    <3>8. QED
      BY <3>7 DEF more
  <2>5. QED
    BY <2>3, <2>4
<1>5. Nat \subseteq K
  <2> HIDE DEF K
  <2>1. QED
    BY <1>3, <1>4, SetInduction
<1>6. Cardinality(s0) \in Nat
  BY FiniteParts
<1>7. QED
  BY <1>5, <1>6

-----------------------------------------------------------------------------
WeightsOf == [token \in Finite |-> Weight[logits[token]]]

\* The weight of a set of tokens is such a fold.
LEMMA WeightFolds ==
    ASSUME NEW T \in SUBSET Finite, IsFiniteSet(T), IsWeights(Finite, WeightsOf)
    PROVE  \E sum : IsSum(T, WeightsOf, sum) /\ WeightOf(T) = sum[T]
<1> DEFINE g == WeightsOf
           body(f) == [s \in SUBSET T |->
                         IF s = {} THEN 0 ELSE Weight[logits[OneOf(s)]] + f[s \ {OneOf(s)}]]
           iter == CHOOSE f : f = body(f)
<1>1. \A f : body(f) = [s \in SUBSET T |-> IF s = {} THEN 0 ELSE g[OneOf(s)] + f[s \ {OneOf(s)}]]
  <2>1. \A s \in SUBSET T : s # {} => OneOf(s) \in Finite
    BY FiniteParts
  <2>2. QED
    BY <2>1 DEF WeightsOf
<1>2. IsWeights(T, g)
  BY DEF IsWeights
<1>3. iter = body(iter)
  <2>1. PICK sum : IsSum(T, g, sum)
    <3> HIDE DEF g
    <3>1. QED
      BY <1>2, SumExists
  <2>2. sum = body(sum)
    <3> HIDE DEF g
    <3>0. sum = [s \in SUBSET T |-> sum[s]]
      BY <2>1 DEF IsSum
    <3>1. sum = [s \in SUBSET T |-> IF s = {} THEN 0 ELSE g[OneOf(s)] + sum[s \ {OneOf(s)}]]
      BY <2>1, <3>0 DEF IsSum
    <3>2. QED
      BY <1>1, <3>1
  <2> HIDE DEF body
  <2>3. QED
    BY <2>2
<1>4. WeightOf(T) = iter[T]
  BY DEF WeightOf, MapThenSumSet, MapThenFoldSet, OneOf
<1> HIDE DEF iter, body, g
<1>5. IsSum(T, g, iter)
  <2> DEFINE again == [s \in SUBSET T |-> IF s = {} THEN 0 ELSE g[OneOf(s)] + iter[s \ {OneOf(s)}]]
  <2>1. iter = again
    BY <1>1, <1>3
  <2>2. PICK sum : IsSum(T, g, sum)
    BY <1>2, SumExists
  <2>3. \A s \in SUBSET T : iter[s] = sum[s]
    <3> DEFINE K == {n \in Nat : \A s \in SUBSET T : Cardinality(s) = n => iter[s] = sum[s]}
    <3>0. \A s \in SUBSET T : iter[s] = IF s = {} THEN 0 ELSE g[OneOf(s)] + iter[s \ {OneOf(s)}]
      BY <2>1
    <3>00. \A s \in SUBSET T : sum[s] = IF s = {} THEN 0 ELSE g[OneOf(s)] + sum[s \ {OneOf(s)}]
      BY <2>2 DEF IsSum
    <3>1. 0 \in K
      <4>1. \A s \in SUBSET T : Cardinality(s) = 0 => s = {}
        BY FiniteParts
      <4>2. QED
        BY <3>0, <3>00, <4>1
    <3>2. ASSUME NEW n \in Nat, n \in K PROVE n + 1 \in K
      <4> SUFFICES ASSUME NEW s \in SUBSET T, Cardinality(s) = n + 1 PROVE iter[s] = sum[s]
        OBVIOUS
      <4> DEFINE x == OneOf(s)  t == s \ {OneOf(s)}
      <4>1. s # {} /\ x \in s /\ t \in SUBSET T /\ Cardinality(t) = n
        BY FiniteParts
      <4>2. iter[t] = sum[t]
        BY <3>2, <4>1
      <4>3. iter[s] = g[x] + iter[t] /\ sum[s] = g[x] + sum[t]
        BY <3>0, <3>00, <4>1
      <4>4. QED
        BY <4>2, <4>3
    <3>3. Nat \subseteq K
      <4> HIDE DEF K
      <4>1. QED
        BY <3>1, <3>2, SetInduction
    <3>4. QED
      BY <3>3, FiniteParts
  <2>4. iter \in [SUBSET T -> Nat]
    <3>1. \A s \in SUBSET T : iter[s] \in Nat
      BY <2>2, <2>3 DEF IsSum
    <3>2. QED
      BY <2>1, <3>1
  <2>5. QED
    BY <2>1, <2>2, <2>3, <2>4 DEF IsSum
<1>6. QED
  BY <1>4, <1>5 DEF g

\* So a token adds its weight to that of tokens it is not among.
LEMMA WeightAdds ==
    ASSUME IsFiniteSet(Finite), IsWeights(Finite, WeightsOf),
           NEW T \in SUBSET Finite, NEW t \in Finite, t \notin T
    PROVE  /\ WeightOf(T) \in Nat
           /\ WeightOf(T \union {t}) = WeightOf(T) + Weight[logits[t]]
<1> DEFINE S == T \union {t}
<1>1. S \in SUBSET Finite /\ IsFiniteSet(S) /\ IsFiniteSet(T) /\ T \in SUBSET S /\ t \in S
  <2>1. S \in SUBSET Finite
    OBVIOUS
  <2> HIDE DEF S
  <2>2. IsFiniteSet(S) /\ IsFiniteSet(T)
    BY <2>1, FS_Subset
  <2>3. QED
    BY <2>1, <2>2 DEF S
<1> HIDE DEF S
<1>2. PICK a : IsSum(S, WeightsOf, a) /\ WeightOf(S) = a[S]
  BY <1>1, WeightFolds
<1>3. PICK b : IsSum(T, WeightsOf, b) /\ WeightOf(T) = b[T]
  BY <1>1, WeightFolds
<1>4. IsWeights(S, WeightsOf)
  BY <1>1 DEF IsWeights
<1>5. a[T] = b[T]
  BY <1>1, <1>2, <1>3, <1>4, SumsAgree
<1>6. a[T \union {t}] = a[T] + WeightsOf[t]
  BY <1>1, <1>2, <1>4, SumAdds
<1>7. WeightsOf[t] = Weight[logits[t]]
  BY DEF WeightsOf
<1>8. b[T] \in Nat
  BY <1>3 DEF IsSum
<1>9. QED
  BY <1>2, <1>3, <1>5, <1>6, <1>7, <1>8 DEF S

\* No tokens weigh nothing.
LEMMA WeightOfNone ==
    ASSUME IsWeights(Finite, WeightsOf)
    PROVE  WeightOf({}) = 0
<1>1. PICK b : IsSum({}, WeightsOf, b) /\ WeightOf({}) = b[{}]
  BY WeightFolds, FS_EmptySet
<1>2. QED
  BY <1>1 DEF IsSum

\* The logits a forward pass gives: finitely many tokens, ordered, each with a weight.
LEMMA FiniteTokens ==
    ASSUME logits \in LogitVectors
    PROVE  /\ Finite \subseteq Nat /\ IsFiniteSet(Finite) /\ IsWeights(Finite, WeightsOf)
           /\ \A t \in Finite : logits[t] \in Int /\ Weight[logits[t]] \in Nat
<1>1. /\ DOMAIN logits \subseteq Nat /\ IsFiniteSet(DOMAIN logits)
      /\ \A t \in Finite : logits[t] \in Int /\ Weight[logits[t]] \in Nat
  BY SamplerAssumption DEF Finite
<1>2. Finite \in SUBSET DOMAIN logits
  BY DEF Finite
<1>3. IsFiniteSet(Finite)
  BY <1>1, <1>2, FS_Subset
<1>4. IsWeights(Finite, WeightsOf)
  BY <1>1 DEF IsWeights, WeightsOf
<1>5. QED
  BY <1>1, <1>2, <1>3, <1>4

\* Of two candidates one comes before the other.
LEMMA BeforeOrders ==
    ASSUME logits \in LogitVectors
    PROVE  /\ \A a \in Finite : ~Before(a, a)
           /\ \A a, b \in Finite : a # b => Before(a, b) \/ Before(b, a)
           /\ \A a, b, c \in Finite : Before(a, b) /\ Before(b, c) => Before(a, c)
BY FiniteTokens DEF Before

\* What comes before a candidate that comes before another comes before that, and is less.
LEMMA AheadGrows ==
    ASSUME logits \in LogitVectors, NEW a \in Finite, NEW b \in Finite, Before(a, b)
    PROVE  Cardinality(Ahead(a)) < Cardinality(Ahead(b))
<1>1. Ahead(b) \in SUBSET Finite /\ Ahead(a) \in SUBSET Ahead(b) /\ a \in Ahead(b) /\ a \notin Ahead(a)
  BY BeforeOrders DEF Ahead
<1>2. IsFiniteSet(Ahead(b)) /\ IsFiniteSet(Ahead(a))
  BY <1>1, FiniteTokens, FS_Subset
<1>3. /\ Cardinality(Ahead(a)) <= Cardinality(Ahead(b))
      /\ Cardinality(Ahead(b)) = Cardinality(Ahead(a)) => Ahead(b) = Ahead(a)
  BY <1>1, <1>2, FS_Subset
<1>4. Cardinality(Ahead(a)) \in Nat /\ Cardinality(Ahead(b)) \in Nat
  BY <1>2, FS_CardinalityType
<1>5. QED
  BY <1>1, <1>3, <1>4

IsOrder(order) ==
    /\ order \in [1..Cardinality(Finite) -> Finite] /\ Range(order) = Finite
    /\ \A m, n \in DOMAIN order : m < n => Before(order[m], order[n])

\* The candidates can be sorted: each at the place the number of those before it gives.
LEMMA OrderExists ==
    ASSUME logits \in LogitVectors
    PROVE  \E order : IsOrder(order)
<1> DEFINE N == Cardinality(Finite)
           rank == [t \in Finite |-> Cardinality(Ahead(t)) + 1]
           order == [n \in 1..N |-> CHOOSE t \in Finite : rank[t] = n]
<1>1. IsFiniteSet(Finite) /\ N \in Nat
  BY FiniteTokens, FS_CardinalityType
<1>2. rank \in [Finite -> 1..N]
  <2> SUFFICES ASSUME NEW t \in Finite PROVE Cardinality(Ahead(t)) + 1 \in 1..N
    OBVIOUS
  <2>1. Ahead(t) \in SUBSET (Finite \ {t})
    BY BeforeOrders DEF Ahead
  <2>2. IsFiniteSet(Finite \ {t}) /\ Cardinality(Finite \ {t}) = N - 1
    BY <1>1, FS_RemoveElement
  <2>3. Cardinality(Ahead(t)) <= N - 1 /\ IsFiniteSet(Ahead(t))
    BY <2>1, <2>2, FS_Subset
  <2>4. Cardinality(Ahead(t)) \in Nat
    BY <2>3, FS_CardinalityType
  <2> HIDE DEF N
  <2>5. QED
    BY <1>1, <2>3, <2>4
<1>3. \A a, b \in Finite : Before(a, b) => rank[a] < rank[b]
  <2> SUFFICES ASSUME NEW a \in Finite, NEW b \in Finite, Before(a, b) PROVE rank[a] < rank[b]
    OBVIOUS
  <2>1. Cardinality(Ahead(a)) < Cardinality(Ahead(b))
    BY AheadGrows
  <2>2. rank[a] \in Int /\ rank[b] \in Int
    BY <1>2
  <2>3. IsFiniteSet(Ahead(a)) /\ IsFiniteSet(Ahead(b))
    BY <1>1, FS_Subset DEF Ahead
  <2>4. Cardinality(Ahead(a)) \in Nat /\ Cardinality(Ahead(b)) \in Nat
    BY <2>3, FS_CardinalityType
  <2>5. QED
    BY <2>1, <2>4
<1> HIDE DEF rank
<1>4. \A a, b \in Finite : rank[a] = rank[b] => a = b
  <2>1. \A a \in Finite : rank[a] \in Int
    BY <1>2
  <2>2. QED
    BY <1>3, <2>1, BeforeOrders
<1>5. \A n \in 1..N : \E t \in Finite : rank[t] = n
  <2>1. IsFiniteSet(1..N) /\ Cardinality(1..N) = N
    BY <1>1, FS_Interval
  <2>2. rank \in Injection(Finite, 1..N)
    BY <1>2, <1>4 DEF Injection, IsInjective
  <2>3. rank \in Surjection(Finite, 1..N)
    BY <2>1, <2>2, FS_Injection
  <2>4. QED
    BY <2>3 DEF Surjection
<1>6. order \in [1..N -> Finite] /\ \A n \in 1..N : rank[order[n]] = n
  BY <1>5
<1> HIDE DEF order
<1>7. Range(order) = Finite
  <2>1. \A t \in Finite : rank[t] \in 1..N /\ order[rank[t]] = t
    BY <1>2, <1>4, <1>6
  <2>2. QED
    BY <1>6, <2>1 DEF Range
<1>8. ASSUME NEW m \in 1..N, NEW n \in 1..N, m < n PROVE Before(order[m], order[n])
  <2>1. order[m] \in Finite /\ order[n] \in Finite /\ rank[order[m]] = m /\ rank[order[n]] = n
    BY <1>6
  <2>2. order[m] # order[n]
    BY <1>8, <2>1
  <2>3. ~Before(order[n], order[m])
    BY <1>3, <1>8, <2>1
  <2>4. QED
    BY <2>1, <2>2, <2>3, BeforeOrders
<1>9. QED
  BY <1>6, <1>7, <1>8 DEF IsOrder

\* The first n candidates.
First(n) == {Candidates[k] : k \in 1..n}

\* The candidates are sorted, and those before one are the first ones.
LEMMA CandidatesSorted ==
    ASSUME logits \in LogitVectors
    PROVE  /\ Cardinality(Finite) \in Nat /\ IsOrder(Candidates)
           /\ Candidates \in Seq(Finite) /\ Len(Candidates) = Cardinality(Finite)
<1>1. Cardinality(Finite) \in Nat
  BY FiniteTokens, FS_CardinalityType
<1>2. IsOrder(Candidates)
  BY OrderExists DEF Candidates, IsOrder
<1> DEFINE N == Cardinality(Finite)
<1>3. N \in Nat /\ Candidates \in [1..N -> Finite]
  BY <1>1, <1>2 DEF IsOrder
<1> HIDE DEF N
<1>4. Candidates \in Seq(Finite) /\ Len(Candidates) = N
  BY <1>3
<1>5. QED
  BY <1>1, <1>2, <1>4 DEF N

\* The first candidates, one by one.
LEMMA FirstOnes ==
    ASSUME logits \in LogitVectors, NEW N, N = Cardinality(Finite)
    PROVE  /\ First(0) = {} /\ First(N) = Finite
           /\ \A n \in 0..N : First(n) \in SUBSET Finite
           /\ \A n \in 1..N : /\ Candidates[n] \in Finite
                              /\ Candidates[n] \notin First(n - 1)
                              /\ First(n) = First(n - 1) \union {Candidates[n]}
                              /\ Ahead(Candidates[n]) = First(n - 1)
           /\ \A n \in 0..N : \A k \in 1..N : Candidates[k] \in First(n) <=> k <= n
<1>1. /\ N \in Nat /\ Candidates \in [1..N -> Finite] /\ Range(Candidates) = Finite
      /\ \A m, n \in 1..N : m < n => Before(Candidates[m], Candidates[n])
  BY CandidatesSorted DEF IsOrder
<1>2. \A m, n \in 1..N : Candidates[m] = Candidates[n] => m = n
  <2>1. \A m, n \in 1..N : m < n => Candidates[m] # Candidates[n]
    BY <1>1, BeforeOrders
  <2>2. QED
    BY <1>1, <2>1
<1>3. First(0) = {}
  BY DEF First
<1>4. First(N) = Finite
  BY <1>1 DEF First, Range
<1>5. \A n \in 0..N : First(n) \in SUBSET Finite
  BY <1>1 DEF First
<1>6. ASSUME NEW n \in 0..N, NEW k \in 1..N PROVE Candidates[k] \in First(n) <=> k <= n
  <2>1. \A j \in 1..n : j \in 1..N
    BY <1>1
  <2>2. QED
    BY <1>1, <1>2, <2>1 DEF First
<1>7. ASSUME NEW n \in 1..N
      PROVE  /\ Candidates[n] \in Finite
             /\ Candidates[n] \notin First(n - 1)
             /\ First(n) = First(n - 1) \union {Candidates[n]}
             /\ Ahead(Candidates[n]) = First(n - 1)
  <2>1. Candidates[n] \in Finite
    BY <1>1
  <2>2. n - 1 \in 0..N
    BY <1>1
  <2>3. Candidates[n] \notin First(n - 1)
    BY <1>1, <1>6, <2>2
  <2>4. First(n) = First(n - 1) \union {Candidates[n]}
    <3>1. 1..n = (1..(n - 1)) \union {n}
      BY <1>1
    <3>2. QED
      BY <3>1 DEF First
  <2>5. ASSUME NEW t \in Finite PROVE Before(t, Candidates[n]) <=> t \in First(n - 1)
    <3>1. PICK k \in 1..N : Candidates[k] = t
      BY <1>1 DEF Range
    <3>2. Before(Candidates[k], Candidates[n]) <=> k < n
      BY <1>1, BeforeOrders
    <3>3. Candidates[k] \in First(n - 1) <=> k <= n - 1
      BY <1>6, <2>2
    <3>4. QED
      BY <3>1, <3>2, <3>3
  <2>6. Ahead(Candidates[n]) = First(n - 1)
    BY <1>5, <2>2, <2>5 DEF Ahead
  <2>7. QED
    BY <2>1, <2>3, <2>4, <2>6
<1>8. QED
  BY <1>3, <1>4, <1>5, <1>6, <1>7

\* The weight of the first candidates, and their number.
LEMMA FirstWeights ==
    ASSUME logits \in LogitVectors, NEW N, N = Cardinality(Finite)
    PROVE  /\ WeightOf(First(0)) = 0
           /\ \A n \in 0..N : WeightOf(First(n)) \in Nat /\ Cardinality(First(n)) = n
           /\ \A n \in 1..N : /\ Weight[logits[Candidates[n]]] \in Nat
                              /\ WeightOf(First(n)) =
                                    WeightOf(First(n - 1)) + Weight[logits[Candidates[n]]]
<1>1. N \in Nat
  BY CandidatesSorted
<1>2. IsFiniteSet(Finite) /\ IsWeights(Finite, WeightsOf)
  BY FiniteTokens
<1>3. ASSUME NEW n \in 1..N
      PROVE  /\ Weight[logits[Candidates[n]]] \in Nat
             /\ WeightOf(First(n - 1)) \in Nat
             /\ WeightOf(First(n)) = WeightOf(First(n - 1)) + Weight[logits[Candidates[n]]]
  <2>1. /\ Candidates[n] \in Finite /\ Candidates[n] \notin First(n - 1)
        /\ First(n) = First(n - 1) \union {Candidates[n]}
    BY FirstOnes
  <2>2. n - 1 \in 0..N
    BY <1>1
  <2>3. First(n - 1) \in SUBSET Finite
    BY <2>2, FirstOnes
  <2>4. QED
    BY <1>2, <2>1, <2>3, WeightAdds, FiniteTokens
<1>4. WeightOf(First(0)) = 0
  BY <1>2, FirstOnes, WeightOfNone
<1>5. ASSUME NEW n \in 0..N PROVE WeightOf(First(n)) \in Nat
  <2>1. CASE n = 0
    BY <1>4, <2>1
  <2>2. CASE n # 0
    <3>1. n \in 1..N
      BY <1>1, <2>2
    <3>2. QED
      BY <1>3, <3>1
  <2>3. QED
    BY <2>1, <2>2
<1>6. \A n \in 0..N : Cardinality(First(n)) = n
  <2> DEFINE K == {n \in Nat : n <= N => Cardinality(First(n)) = n}
  <2>1. 0 \in K
    BY FirstOnes, FS_EmptySet
  <2>2. ASSUME NEW n \in Nat, n \in K PROVE n + 1 \in K
    <3> SUFFICES ASSUME n + 1 <= N PROVE Cardinality(First(n + 1)) = n + 1
      OBVIOUS
    <3>1. n \in 0..N /\ n + 1 \in 1..N /\ (n + 1) - 1 = n
      BY <1>1
    <3>2. /\ Candidates[n + 1] \notin First((n + 1) - 1)
          /\ First(n + 1) = First((n + 1) - 1) \union {Candidates[n + 1]}
      BY <3>1, FirstOnes
    <3>3. IsFiniteSet(First(n))
      BY <1>2, <3>1, FirstOnes, FS_Subset
    <3>4. Cardinality(First(n)) = n
      BY <2>2, <3>1
    <3>5. QED
      BY <3>1, <3>2, <3>3, <3>4, FS_AddElement
  <2>3. Nat \subseteq K
    <3> HIDE DEF K
    <3>1. QED
      BY <2>1, <2>2, SetInduction
  <2>4. QED
    BY <2>3
<1>7. QED
  BY <1>3, <1>4, <1>5, <1>6

IsRun(n, w, f) ==
    f = [k \in 0..n |-> IF k = 0 THEN 0 ELSE f[k - 1] + w[k]]

\* Numbers can be added up one by one.
LEMMA RunOfSums ==
    ASSUME NEW n \in Nat, NEW w
    PROVE  \E f : IsRun(n, w, f)
<1> DEFINE K == {m \in Nat : \E f : IsRun(m, w, f)}
<1>1. 0 \in K
  <2> DEFINE f == [k \in 0..0 |-> 0]
  <2>1. f = [k \in 0..0 |-> IF k = 0 THEN 0 ELSE f[k - 1] + w[k]]
    OBVIOUS
  <2> HIDE DEF f
  <2>2. QED
    BY <2>1 DEF IsRun
<1>2. ASSUME NEW m \in Nat, m \in K PROVE m + 1 \in K
  <2>1. PICK f : IsRun(m, w, f)
    BY <1>2
  <2> DEFINE g == [k \in 0..(m + 1) |-> IF k = 0 THEN 0 ELSE f[k - 1] + w[k]]
  <2>2. \A k \in 0..m : g[k] = f[k]
    <3>1. \A k \in 0..m : f[k] = IF k = 0 THEN 0 ELSE f[k - 1] + w[k]
      BY <2>1 DEF IsRun
    <3>2. QED
      BY <3>1
  <2>3. \A k \in 0..(m + 1) : g[k] = IF k = 0 THEN 0 ELSE g[k - 1] + w[k]
    <3> SUFFICES ASSUME NEW k \in 0..(m + 1)
                 PROVE  g[k] = IF k = 0 THEN 0 ELSE g[k - 1] + w[k]
      OBVIOUS
    <3>1. CASE k = 0
      BY <3>1
    <3>2. CASE k # 0
      <4>1. k - 1 \in 0..m
        BY <3>2
      <4>2. g[k - 1] = f[k - 1]
        BY <2>2, <4>1
      <4>3. g[k] = f[k - 1] + w[k]
        BY <3>2
      <4> HIDE DEF g
      <4>4. QED
        BY <3>2, <4>2, <4>3
    <3>3. QED
      BY <3>1, <3>2
  <2>4. g = [k \in 0..(m + 1) |-> g[k]]
    OBVIOUS
  <2> HIDE DEF g
  <2>5. g = [k \in 0..(m + 1) |-> IF k = 0 THEN 0 ELSE g[k - 1] + w[k]]
    BY <2>3, <2>4
  <2>6. QED
    BY <2>5 DEF IsRun
<1>3. Nat \subseteq K
  <2> HIDE DEF K
  <2>1. QED
    BY <1>1, <1>2, SetInduction
<1>4. QED
  BY <1>3

\* The cumulative weights are such a run.
LEMMA CumulativeRuns ==
    ASSUME NEW tokens, Len(tokens) \in Nat
    PROVE  /\ Cumulative(tokens)[0] = 0
           /\ \A n \in 1..Len(tokens) :
                 Cumulative(tokens)[n] = Cumulative(tokens)[n - 1] + Weight[logits[tokens[n]]]
<1> DEFINE N == Len(tokens)
           w == [k \in 1..N |-> Weight[logits[tokens[k]]]]
           body(f) == [k \in 0..N |-> IF k = 0 THEN 0 ELSE f[k - 1] + Weight[logits[tokens[k]]]]
           iter == CHOOSE f : f = body(f)
<1>1. Cumulative(tokens) = iter
  BY DEF Cumulative
<1>2. \A f : body(f) = [k \in 0..N |-> IF k = 0 THEN 0 ELSE f[k - 1] + w[k]]
  <2> SUFFICES ASSUME NEW f
               PROVE  body(f) = [k \in 0..N |-> IF k = 0 THEN 0 ELSE f[k - 1] + w[k]]
    OBVIOUS
  <2>1. \A k \in 0..N : k # 0 => k \in 1..N
    OBVIOUS
  <2> HIDE DEF N
  <2>2. QED
    BY <2>1
<1>3. \E f : f = body(f)
  <2>1. PICK f : IsRun(N, w, f)
    <3> HIDE DEF w
    <3>1. QED
      BY RunOfSums
  <2> HIDE DEF body, w, N
  <2>2. QED
    BY <1>2, <2>1 DEF IsRun
<1>4. iter = body(iter)
  <2> HIDE DEF body
  <2>1. QED
    BY <1>3
<1>5. /\ iter[0] = 0
      /\ \A n \in 1..N : iter[n] = iter[n - 1] + Weight[logits[tokens[n]]]
  <2> DEFINE c == iter
  <2>1. c = [k \in 0..N |-> IF k = 0 THEN 0 ELSE c[k - 1] + Weight[logits[tokens[k]]]]
    BY <1>4
  <2>2. N \in Nat
    OBVIOUS
  <2> HIDE DEF c, N
  <2>3. c[0] = 0 /\ \A n \in 1..N : c[n] = c[n - 1] + Weight[logits[tokens[n]]]
    BY <2>1, <2>2
  <2>4. QED
    BY <2>3 DEF c
<1> HIDE DEF iter, body, w
<1>6. QED
  BY <1>1, <1>5

\* The first candidates in their order.
LEMMA FirstCumulative ==
    ASSUME logits \in LogitVectors, NEW m \in 0..Cardinality(Finite)
    PROVE  LET tokens == SubSeq(Candidates, 1, m) IN
           /\ tokens \in Seq(Finite) /\ Len(tokens) = m
           /\ \A n \in 1..m : tokens[n] = Candidates[n]
           /\ \A n \in 0..m : Cumulative(tokens)[n] = WeightOf(First(n))
<1> DEFINE tokens == SubSeq(Candidates, 1, m)  N == Cardinality(Finite)
<1>1. N \in Nat /\ Candidates \in Seq(Finite) /\ Len(Candidates) = N
  BY CandidatesSorted
<1>2. m \in Nat /\ m <= N
  BY <1>1
<1>3. tokens \in Seq(Finite) /\ Len(tokens) = m /\ \A n \in 1..m : tokens[n] = Candidates[n]
  <2> HIDE DEF N
  <2>1. QED
    BY <1>1, <1>2
<1> HIDE DEF tokens, N
<1> DEFINE K == {n \in Nat : n <= m => Cumulative(tokens)[n] = WeightOf(First(n))}
<1>4. 0 \in K
  <2>1. Cumulative(tokens)[0] = 0
    BY <1>2, <1>3, CumulativeRuns
  <2>2. WeightOf(First(0)) = 0
    BY FirstWeights
  <2>3. QED
    BY <2>1, <2>2
<1>5. ASSUME NEW n \in Nat, n \in K PROVE n + 1 \in K
  <2> SUFFICES ASSUME n + 1 <= m PROVE Cumulative(tokens)[n + 1] = WeightOf(First(n + 1))
    OBVIOUS
  <2>1. n + 1 \in 1..m /\ n + 1 \in 1..N /\ (n + 1) - 1 = n /\ n <= m
    BY <1>1, <1>2
  <2>2. Cumulative(tokens)[n + 1] = Cumulative(tokens)[(n + 1) - 1] + Weight[logits[tokens[n + 1]]]
    BY <1>2, <1>3, <2>1, CumulativeRuns
  <2>3. WeightOf(First(n + 1)) = WeightOf(First((n + 1) - 1)) + Weight[logits[Candidates[n + 1]]]
    BY <2>1, FirstWeights DEF N
  <2>4. Cumulative(tokens)[n] = WeightOf(First(n))
    BY <1>5, <2>1
  <2>5. tokens[n + 1] = Candidates[n + 1]
    BY <1>3, <2>1
  <2>6. QED
    BY <2>1, <2>2, <2>3, <2>4, <2>5
<1>6. Nat \subseteq K
  <2> HIDE DEF K
  <2>1. QED
    BY <1>4, <1>5, SetInduction
<1>7. \A n \in 0..m : Cumulative(tokens)[n] = WeightOf(First(n))
  BY <1>2, <1>6
<1>8. QED
  BY <1>3, <1>7 DEF tokens

\* Taking the first of the first ones takes the first ones.
LEMMA FirstOfFirst ==
    ASSUME NEW S, NEW s \in Seq(S), NEW m \in 0..Len(s), NEW n \in 0..m
    PROVE  SubSeq(SubSeq(s, 1, m), 1, n) = SubSeq(s, 1, n)
OBVIOUS

\* A sequence is all of its elements.
LEMMA AllOfIt ==
    ASSUME NEW S, NEW s \in Seq(S)
    PROVE  s = SubSeq(s, 1, Len(s))
OBVIOUS

\* What Min finds.
LEMMA LeastIn ==
    ASSUME NEW S \in SUBSET Nat, S # {}
    PROVE  Min(S) \in S /\ \A n \in S : Min(S) <= n
BY LeastOf DEF Min

\* More candidates weigh no less.
LEMMA WeightsGrow ==
    ASSUME logits \in LogitVectors, NEW N, N = Cardinality(Finite),
           NEW m \in 0..N, NEW n \in 0..N, m <= n
    PROVE  WeightOf(First(m)) <= WeightOf(First(n))
<1>1. N \in Nat
  BY CandidatesSorted
<1> DEFINE K == {d \in Nat : m + d <= N => WeightOf(First(m)) <= WeightOf(First(m + d))}
<1>2. \A k \in 0..N : WeightOf(First(k)) \in Nat
  BY FirstWeights
<1>3. 0 \in K
  <2>1. m + 0 = m
    OBVIOUS
  <2>2. WeightOf(First(m)) \in Nat
    BY <1>2
  <2>3. QED
    BY <2>1, <2>2
<1>4. ASSUME NEW d \in Nat, d \in K PROVE d + 1 \in K
  <2> SUFFICES ASSUME m + (d + 1) <= N
               PROVE  WeightOf(First(m)) <= WeightOf(First(m + (d + 1)))
    OBVIOUS
  <2> DEFINE k == m + (d + 1)
  <2>1. k \in 1..N /\ k \in 0..N /\ k - 1 = m + d /\ k - 1 \in 0..N
    BY <1>1
  <2>2. WeightOf(First(m)) <= WeightOf(First(m + d))
    BY <1>1, <1>4, <2>1
  <2> HIDE DEF k
  <2>3. /\ Weight[logits[Candidates[k]]] \in Nat
        /\ WeightOf(First(k)) = WeightOf(First(k - 1)) + Weight[logits[Candidates[k]]]
    BY <2>1, FirstWeights
  <2>4. WeightOf(First(k)) \in Nat /\ WeightOf(First(k - 1)) \in Nat /\ WeightOf(First(m)) \in Nat
    BY <1>2, <2>1
  <2>5. WeightOf(First(m)) <= WeightOf(First(k))
    BY <2>1, <2>2, <2>3, <2>4
  <2>6. QED
    BY <2>5 DEF k
<1>5. Nat \subseteq K
  <2> HIDE DEF K
  <2>1. QED
    BY <1>3, <1>4, SetInduction
<1>6. n - m \in Nat /\ m + (n - m) = n
  BY <1>1
<1>7. n - m \in K
  BY <1>5, <1>6
<1>8. QED
  BY <1>1, <1>6, <1>7

\* What top_k leaves: the first candidates, as the nucleus counts them.
LEMMA TopKIsFirst ==
    ASSUME logits \in LogitVectors, config \in Configs, Finite # {}
    PROVE  \E L \in 1..Cardinality(Finite) :
              /\ TopK = SubSeq(Candidates, 1, L)
              /\ Kept = First(L)
              /\ config.top_k = 1 => L = 1
<1> DEFINE N == Cardinality(Finite)
<1>1. N \in Nat /\ N # 0
  BY CandidatesSorted, FiniteTokens, FS_EmptySet
<1>2. config.top_k \in Nat
  BY SamplerAssumption
<1>3. Candidates \in Seq(Finite) /\ Len(Candidates) = N
  BY CandidatesSorted
<1> HIDE DEF N
<1>4. ASSUME NEW L \in 1..N, config.top_k = 0 => L = N,
             config.top_k # 0 => L <= config.top_k /\ (L = N \/ L = config.top_k)
      PROVE  Kept = First(L)
  <2>1. ASSUME NEW n \in 1..N PROVE Candidates[n] \in Kept <=> n <= L
    <3>1. Ahead(Candidates[n]) = First(n - 1) /\ Candidates[n] \in Finite
      BY FirstOnes DEF N
    <3>2. n - 1 \in 0..N
      BY <1>1
    <3>3. Cardinality(First(n - 1)) = n - 1
      BY <3>2, FirstWeights DEF N
    <3>4. Candidates[n] \in Kept <=> (config.top_k = 0 \/ n - 1 < config.top_k)
      BY <3>1, <3>3 DEF Kept
    <3>5. QED
      BY <1>1, <1>2, <1>4, <3>4
  <2>2. L \in 0..N
    BY <1>1
  <2>3. \A n \in 1..N : Candidates[n] \in First(L) <=> n <= L
    BY <2>2, FirstOnes DEF N
  <2>4. \A t \in Finite : \E n \in 1..N : Candidates[n] = t
    BY CandidatesSorted DEF IsOrder, Range, N
  <2>5. Kept \subseteq Finite /\ First(L) \subseteq Finite
    BY <2>2, FirstOnes DEF Kept, N
  <2>6. QED
    BY <2>1, <2>3, <2>4, <2>5
<1>5. CASE config.top_k = 0
  <2>1. TopK = SubSeq(Candidates, 1, N)
    BY <1>3, <1>5, AllOfIt DEF TopK
  <2>2. N \in 1..N
    BY <1>1
  <2>3. Kept = First(N)
    BY <1>4, <1>5, <2>2
  <2>4. QED
    BY <1>5, <2>1, <2>2, <2>3 DEF N
<1>6. CASE config.top_k # 0
  <2> DEFINE L == Min({config.top_k, N})
  <2>1. TopK = SubSeq(Candidates, 1, L)
    <3>1. config.top_k > 0
      BY <1>2, <1>6
    <3>2. TopK = SubSeq(Candidates, 1, Min({config.top_k, Len(Candidates)}))
      BY <3>1 DEF TopK
    <3>3. QED
      BY <1>3, <3>2
  <2>2. L \in {config.top_k, N} /\ L <= config.top_k /\ L <= N
    <3>1. {config.top_k, N} \in SUBSET Nat
      BY <1>1, <1>2
    <3>2. QED
      BY <3>1, LeastIn
  <2> HIDE DEF L
  <2>3. L \in 1..N /\ (L = N \/ L = config.top_k) /\ (config.top_k = 1 => L = 1)
    BY <1>1, <1>2, <1>6, <2>2
  <2>4. Kept = First(L)
    BY <1>4, <1>6, <2>2, <2>3
  <2>5. QED
    BY <2>1, <2>3, <2>4 DEF N
<1>7. QED
  BY <1>5, <1>6

\* What reaches a cutoff, more does too.
LEMMA MoreReaches ==
    ASSUME NEW a \in Nat, NEW b \in Nat, NEW d \in Nat, NEW x \in Nat, a <= b, a * d >= x
    PROVE  b * d >= x
<1>1. PICK c \in Nat : b = a + c
  <2>1. b - a \in Nat /\ b = a + (b - a)
    OBVIOUS
  <2>2. QED
    BY <2>1
<1>2. b * d = a * d + c * d /\ c * d \in Nat /\ a * d \in Nat
  BY <1>1
<1>3. QED
  BY <1>2

Heavy(n) == WeightOf(First(n))

\* What top_p leaves: again the first candidates, and these are the nucleus.
LEMMA RetainedIsNucleus ==
    ASSUME logits \in LogitVectors, config \in Configs, Finite # {}
    PROVE  \E R \in 1..Cardinality(Finite) :
              /\ Retained = SubSeq(Candidates, 1, R)
              /\ config.greedy \/ Nucleus = First(R)
              /\ config.top_k = 1 => R = 1
<1> DEFINE N == Cardinality(Finite)  den == config.top_p.den  num == config.top_p.num
<1>1. N \in Nat /\ den \in Nat /\ num \in Nat /\ Candidates \in Seq(Finite) /\ Len(Candidates) = N
  BY CandidatesSorted, SamplerAssumption
<1>2. PICK L \in 1..N : /\ TopK = SubSeq(Candidates, 1, L)
                        /\ Kept = First(L)
                        /\ config.top_k = 1 => L = 1
  BY TopKIsFirst
<1> HIDE DEF N, den, num
<1>3. L \in Nat /\ L <= N /\ L \in 0..N
  BY <1>1
<1>4. Len(TopK) = L /\ \A n \in 0..L : Cumulative(TopK)[n] = Heavy(n)
  BY <1>2, <1>3, FirstCumulative DEF N, Heavy
<1>5. Mass(TopK) = Heavy(L) /\ \A n \in 1..L : Cumulative(TopK)[n] = Heavy(n)
  BY <1>3, <1>4 DEF Mass
<1>6. \A n \in 1..L : Reaches(n) <=> Heavy(n) * den >= Heavy(L) * num
  BY <1>5 DEF Reaches, den, num
<1>7. \A n \in 0..N : Heavy(n) \in Nat
  BY FirstWeights DEF N, Heavy
<1>8. \A n \in 0..N : Heavy(n) * den \in Nat /\ Heavy(n) * num \in Nat
  BY <1>1, <1>7
<1> DEFINE Reach(n) == Heavy(n) * den >= Heavy(L) * num
           R == IF {n \in 1..L : Reaches(n)} = {} THEN L ELSE Min({n \in 1..L : Reaches(n)})
<1>9. /\ R \in 1..L
      /\ \A n \in 1..L : n < R => ~Reach(n)
      /\ R = L \/ Reach(R)
  <2> DEFINE enough == {n \in 1..L : Reaches(n)}
  <2>1. enough \in SUBSET Nat /\ \A n \in 1..L : n \in enough <=> Reach(n)
    BY <1>3, <1>6
  <2>2. CASE enough = {}
    <3>1. R = L
      BY <2>2
    <3> HIDE DEF enough, R, Reach
    <3>2. QED
      BY <1>2, <2>1, <2>2, <3>1
  <2>3. CASE enough # {}
    <3>1. R = Min(enough)
      BY <2>3
    <3>2. enough \subseteq 1..L
      OBVIOUS
    <3> HIDE DEF enough, R, Reach
    <3>3. Min(enough) \in enough /\ \A n \in enough : Min(enough) <= n
      BY <2>1, <2>3, LeastIn
    <3>4. \A n \in 1..L : n < R => n \notin enough
      <4> SUFFICES ASSUME NEW n \in enough, n < R PROVE FALSE
        OBVIOUS
      <4>1. R \in 1..L /\ n \in 1..L /\ R <= n
        BY <3>1, <3>2, <3>3
      <4>2. QED
        BY <1>3, <4>1
    <3>5. QED
      BY <2>1, <3>1, <3>2, <3>3, <3>4
  <2>4. QED
    BY <2>2, <2>3
<1>10. Retained = SubSeq(Candidates, 1, R)
  <2>1. Retained = SubSeq(TopK, 1, R)
    BY <1>4 DEF Retained
  <2> HIDE DEF R, Reach
  <2>2. R \in 0..L
    BY <1>3, <1>9
  <2>3. QED
    BY <1>1, <1>2, <1>3, <2>1, <2>2, FirstOfFirst
<1> HIDE DEF R
<1>11. R \in 1..N /\ R \in 0..N /\ R \in Nat
  BY <1>1, <1>3, <1>9
<1>12. ASSUME ~config.greedy, NEW n \in 1..N PROVE Candidates[n] \in Nucleus <=> n <= R
  <2>1. /\ Candidates[n] \in Finite /\ Ahead(Candidates[n]) = First(n - 1)
        /\ Candidates[n] \in First(L) <=> n <= L
    BY <1>3, FirstOnes DEF N
  <2>2. n - 1 \in 0..N
    BY <1>1
  <2>3. First(n - 1) = {} <=> n = 1
    <3>1. CASE n = 1
      BY <3>1, FirstOnes DEF N
    <3>2. CASE n # 1
      <4>1. 1 \in 1..N /\ 1 <= n - 1
        BY <1>1, <3>2
      <4>2. Candidates[1] \in First(n - 1)
        BY <2>2, <4>1, FirstOnes DEF N
      <4>3. QED
        BY <3>2, <4>2
    <3>3. QED
      BY <3>1, <3>2
  <2>4. Candidates[n] \in Nucleus <=>
           n <= L /\ (n = 1 \/ Heavy(n - 1) * den < Heavy(L) * num)
    BY <1>2, <1>12, <2>1, <2>3 DEF Nucleus, Heavy, den, num
  <2>5. CASE n <= R
    <3>1. n <= L
      BY <1>3, <1>9, <2>5
    <3>2. CASE n = 1
      BY <2>4, <2>5, <3>1, <3>2
    <3>3. CASE n # 1
      <4>1. n - 1 \in 1..L /\ n - 1 < R
        BY <1>3, <1>11, <2>5, <3>1, <3>3
      <4>2. ~(Heavy(n - 1) * den >= Heavy(L) * num)
        BY <1>9, <4>1
      <4>3. Heavy(n - 1) * den < Heavy(L) * num
        BY <1>3, <1>8, <2>2, <4>2
      <4>4. QED
        BY <2>4, <2>5, <3>1, <4>3
    <3>4. QED
      BY <3>2, <3>3
  <2>6. CASE n > R
    <3>1. n # 1 /\ R <= n - 1
      BY <1>9, <1>11, <2>6
    <3>2. CASE R = L
      BY <1>3, <2>4, <2>6, <3>2
    <3>3. CASE R # L
      <4>1. Heavy(R) * den >= Heavy(L) * num
        BY <1>9, <3>3
      <4>2. Heavy(R) <= Heavy(n - 1)
        BY <1>11, <2>2, <3>1, WeightsGrow DEF N, Heavy
      <4>3. Heavy(n - 1) * den >= Heavy(L) * num
        BY <1>1, <1>3, <1>7, <1>8, <1>11, <2>2, <4>1, <4>2, MoreReaches
      <4>4. ~(Heavy(n - 1) * den < Heavy(L) * num)
        BY <1>3, <1>8, <2>2, <4>3
      <4>5. QED
        BY <1>11, <2>4, <2>6, <3>1, <4>4
    <3>4. QED
      BY <3>2, <3>3
  <2>7. QED
    BY <1>11, <2>5, <2>6
<1>13. config.greedy \/ Nucleus = First(R)
  <2> SUFFICES ASSUME ~config.greedy PROVE Nucleus = First(R)
    OBVIOUS
  <2>1. \A n \in 1..N : Candidates[n] \in First(R) <=> n <= R
    BY <1>11, FirstOnes DEF N
  <2>2. \A t \in Finite : \E n \in 1..N : Candidates[n] = t
    BY CandidatesSorted DEF IsOrder, Range, N
  <2>3. Nucleus \subseteq Finite /\ First(R) \subseteq Finite
    BY <1>11, FirstOnes DEF Nucleus, Kept, N
  <2>4. QED
    BY <1>12, <2>1, <2>2, <2>3
<1>14. config.top_k = 1 => R = 1
  BY <1>2, <1>9
<1>15. QED
  BY <1>10, <1>11, <1>13, <1>14 DEF N

\* The needle falls on the token whose share it is in.
LEMMA NeedleFalls ==
    ASSUME logits \in LogitVectors, NEW R \in 1..Cardinality(Finite),
           Retained = SubSeq(Candidates, 1, R), NEW needle \in Nat
    PROVE  \E n \in 1..R :
              /\ Needled(Retained, needle) = Candidates[n]
              /\ needle < Heavy(R) => Heavy(n - 1) <= needle /\ needle < Heavy(n)
<1> DEFINE N == Cardinality(Finite)
           beyond == {n \in 1..R : needle < Cumulative(Retained)[n]}
<1>1. N \in Nat /\ R \in Nat /\ R \in 0..N /\ R # 0 /\ R <= N
  BY CandidatesSorted
<1>2. /\ Len(Retained) = R /\ \A n \in 1..R : Retained[n] = Candidates[n]
      /\ \A n \in 0..R : Cumulative(Retained)[n] = Heavy(n)
  BY <1>1, FirstCumulative DEF Heavy
<1>3. Needled(Retained, needle) = Retained[IF beyond = {} THEN R ELSE Min(beyond)]
  BY <1>2 DEF Needled
<1>4. \A n \in 1..R : n \in beyond <=> needle < Heavy(n)
  BY <1>1, <1>2
<1>5. beyond \in SUBSET Nat /\ beyond \subseteq 1..R
  BY <1>1
<1>6. \A n \in 0..N : Heavy(n) \in Nat
  BY FirstWeights DEF Heavy
<1>7. Heavy(0) = 0
  BY FirstWeights DEF Heavy
<1> HIDE DEF beyond, N
<1>8. R \in 1..R
  BY <1>1
<1>9. CASE beyond = {}
  <2>1. ~(needle < Heavy(R))
    BY <1>4, <1>8, <1>9
  <2>2. Needled(Retained, needle) = Candidates[R]
    BY <1>2, <1>3, <1>8, <1>9
  <2>3. QED
    BY <1>8, <2>1, <2>2
<1>10. CASE beyond # {}
  <2> DEFINE n == Min(beyond)
  <2>1. n \in beyond /\ \A k \in beyond : n <= k
    BY <1>5, <1>10, LeastIn
  <2>2. Needled(Retained, needle) = Retained[n]
    BY <1>3, <1>10
  <2> HIDE DEF n
  <2>3. n \in 1..R /\ n \in Nat /\ needle < Heavy(n)
    BY <1>1, <1>4, <1>5, <2>1
  <2>4. Needled(Retained, needle) = Candidates[n]
    BY <1>2, <2>2, <2>3
  <2>5. Heavy(n - 1) <= needle
    <3>1. CASE n = 1
      <4>1. n - 1 = 0
        BY <3>1
      <4>2. QED
        BY <1>7, <4>1
    <3>2. CASE n # 1
      <4>1. n - 1 \in 1..R /\ n - 1 \in 0..N /\ n - 1 < n
        BY <1>1, <2>3, <3>2
      <4>2. n - 1 \notin beyond
        BY <1>1, <2>1, <2>3, <4>1
      <4>3. ~(needle < Heavy(n - 1)) /\ Heavy(n - 1) \in Nat
        BY <1>4, <1>6, <4>1, <4>2
      <4>4. QED
        BY <4>3
    <3>3. QED
      BY <3>1, <3>2
  <2>6. QED
    BY <2>3, <2>4, <2>5
<1>11. QED
  BY <1>9, <1>10

\* The tokens that may be drawn.
Drawable == IF Finite = {} THEN {Refused} ELSE Nucleus

\* The first candidate alone is what greedy decoding may draw.
LEMMA GreedyNucleus ==
    ASSUME logits \in LogitVectors, Finite # {}, config.greedy
    PROVE  Nucleus = {Candidates[1]} /\ Cardinality(Nucleus) = 1
<1> DEFINE N == Cardinality(Finite)
<1>1. N \in Nat /\ N # 0
  BY CandidatesSorted, FiniteTokens, FS_EmptySet
<1>2. \A t \in Finite : \E n \in 1..N : Candidates[n] = t
  BY CandidatesSorted DEF IsOrder, Range
<1> HIDE DEF N
<1>3. ASSUME NEW n \in 1..N
      PROVE  /\ Candidates[n] \in Finite
             /\ Ahead(Candidates[n]) = {} <=> n = 1
  <2>1. Candidates[n] \in Finite /\ Ahead(Candidates[n]) = First(n - 1)
    BY FirstOnes DEF N
  <2>2. CASE n = 1
    BY <2>1, <2>2, FirstOnes DEF N
  <2>3. CASE n # 1
    <3>1. 1 \in 1..N /\ n - 1 \in 0..N /\ 1 <= n - 1
      BY <1>1, <2>3
    <3>2. Candidates[1] \in First(n - 1)
      BY <3>1, FirstOnes DEF N
    <3>3. QED
      BY <2>1, <2>3, <3>2
  <2>4. QED
    BY <2>2, <2>3
<1>4. 1 \in 1..N
  BY <1>1
<1>5. Nucleus = {t \in Finite : Ahead(t) = {}}
  BY DEF Nucleus
<1>6. Nucleus = {Candidates[1]}
  BY <1>2, <1>3, <1>4, <1>5
<1>7. QED
  BY <1>6, FS_Singleton

\* Whatever the random number is, the token drawn is of the nucleus.
LEMMA DrawsFromNucleus ==
    ASSUME logits \in LogitVectors, config \in Configs
    PROVE  \A needle \in 0..Mass(Retained) : Select(needle) \in Drawable
<1> SUFFICES ASSUME NEW needle \in 0..Mass(Retained) PROVE Select(needle) \in Drawable
  OBVIOUS
<1>1. CASE Finite = {}
  BY <1>1 DEF Select, Drawable
<1>2. CASE Finite # {}
  <2> DEFINE N == Cardinality(Finite)
  <2>1. PICK R \in 1..N : /\ Retained = SubSeq(Candidates, 1, R)
                          /\ config.greedy \/ Nucleus = First(R)
                          /\ config.top_k = 1 => R = 1
    BY <1>2, RetainedIsNucleus
  <2>2. N \in Nat
    BY CandidatesSorted
  <2>3. \A n \in 1..R : Candidates[n] \in First(R)
    BY DEF First
  <2>4. CASE config.greedy
    <3>1. Select(needle) = Candidates[1]
      BY <1>2, <2>4 DEF Select
    <3>2. QED
      BY <1>2, <2>4, <3>1, GreedyNucleus DEF Drawable
  <2>5. CASE ~config.greedy /\ config.top_k = 1
    <3>1. Select(needle) = Candidates[1]
      BY <1>2, <2>5 DEF Select
    <3>2. Candidates[1] \in Nucleus
      BY <2>1, <2>3, <2>5
    <3>3. QED
      BY <1>2, <3>1, <3>2 DEF Drawable
  <2>6. CASE ~config.greedy /\ config.top_k # 1
    <3>1. Select(needle) = Needled(Retained, needle)
      BY <1>2, <2>6 DEF Select
    <3>2. needle \in Nat
      <4>1. R \in 0..N /\ R \in 0..R
        BY <2>1, <2>2
      <4> HIDE DEF N
      <4>2. Len(Retained) = R /\ Cumulative(Retained)[R] = WeightOf(First(R))
        BY <2>1, <4>1, FirstCumulative DEF N
      <4>3. WeightOf(First(R)) \in Nat
        BY <4>1, FirstWeights DEF N
      <4>4. Mass(Retained) \in Nat
        BY <4>2, <4>3 DEF Mass
      <4>5. QED
        BY <4>4
    <3>3. \E n \in 1..R : Needled(Retained, needle) = Candidates[n]
      BY <2>1, <3>2, NeedleFalls
    <3>4. QED
      BY <1>2, <2>1, <2>3, <2>6, <3>1, <3>3 DEF Drawable
  <2>7. QED
    BY <2>4, <2>5, <2>6
<1>3. QED
  BY <1>1, <1>2

\* Every token of a nucleus of several has the share of the random numbers its weight is.
LEMMA SharesAreWeights ==
    ASSUME logits \in LogitVectors, config \in Configs, Finite # {}, Cardinality(Nucleus) > 1
    PROVE  \A token \in Nucleus :
              Cardinality({needle \in 0..(WeightOf(Nucleus) - 1) : Select(needle) = token})
                 = Weight[logits[token]]
<1> DEFINE N == Cardinality(Finite)
<1>1. N \in Nat
  BY CandidatesSorted
<1>2. ~config.greedy
  BY GreedyNucleus
<1>3. PICK R \in 1..N : /\ Retained = SubSeq(Candidates, 1, R)
                        /\ Nucleus = First(R)
                        /\ config.top_k = 1 => R = 1
  BY <1>2, RetainedIsNucleus
<1> HIDE DEF N
<1>4. R \in Nat /\ R \in 0..N /\ R <= N
  BY <1>1
<1>5. config.top_k # 1
  <2>1. Cardinality(Nucleus) = R
    BY <1>3, <1>4, FirstWeights DEF N
  <2>2. QED
    BY <1>3, <1>4, <2>1
<1>6. \A needle : Select(needle) = Needled(Retained, needle)
  BY <1>2, <1>5 DEF Select
<1>7. \A n \in 0..N : Heavy(n) \in Nat
  BY FirstWeights DEF Heavy, N
<1>8. \A m, n \in 0..N : m <= n => Heavy(m) <= Heavy(n)
  BY WeightsGrow DEF Heavy, N
<1>9. WeightOf(Nucleus) = Heavy(R)
  BY <1>3 DEF Heavy
<1>10. \A m, n \in 1..N : Candidates[m] = Candidates[n] => m = n
  <2>1. \A m, n \in 1..N : m < n => Before(Candidates[m], Candidates[n]) /\ Candidates[m] \in Finite
    BY CandidatesSorted DEF IsOrder, N
  <2>2. \A m, n \in 1..N : m < n => Candidates[m] # Candidates[n]
    BY <2>1, BeforeOrders
  <2>3. QED
    BY <1>1, <2>2
<1>11. ASSUME NEW n \in 1..R
       PROVE  {needle \in 0..(Heavy(R) - 1) : Select(needle) = Candidates[n]}
                 = Heavy(n - 1)..(Heavy(n) - 1)
  <2>1. n \in Nat /\ n \in 0..N /\ n - 1 \in 0..N /\ n <= R /\ n \in 1..N
    BY <1>1, <1>4
  <2>2. Heavy(n) \in Nat /\ Heavy(n - 1) \in Nat /\ Heavy(R) \in Nat /\ Heavy(n) <= Heavy(R)
    BY <1>4, <1>7, <1>8, <2>1
  <2>3. ASSUME NEW needle \in Nat, needle < Heavy(R)
        PROVE  Select(needle) = Candidates[n] <=> (Heavy(n - 1) <= needle /\ needle < Heavy(n))
    <3>1. PICK k \in 1..R : /\ Needled(Retained, needle) = Candidates[k]
                            /\ Heavy(k - 1) <= needle /\ needle < Heavy(k)
      BY <1>3, <2>3, NeedleFalls DEF N
    <3>2. k \in Nat /\ k \in 0..N /\ k - 1 \in 0..N /\ k \in 1..N
      BY <1>1, <1>4
    <3>3. Select(needle) = Candidates[n] <=> k = n
      BY <1>6, <1>10, <2>1, <3>1, <3>2
    <3>4. Heavy(k) \in Nat /\ Heavy(k - 1) \in Nat
      BY <1>7, <3>2
    <3>5. k < n => Heavy(k) <= Heavy(n - 1)
      BY <1>8, <2>1, <3>2
    <3>6. n < k => Heavy(n) <= Heavy(k - 1)
      BY <1>8, <2>1, <3>2
    <3>7. (Heavy(n - 1) <= needle /\ needle < Heavy(n)) => k = n
      BY <2>1, <2>2, <3>1, <3>2, <3>4, <3>5, <3>6
    <3>8. QED
      BY <3>1, <3>3, <3>7
  <2>4. \A needle : needle \in 0..(Heavy(R) - 1) <=> needle \in Nat /\ needle < Heavy(R)
    BY <2>2
  <2>5. \A needle : needle \in Heavy(n - 1)..(Heavy(n) - 1) <=>
           needle \in Nat /\ Heavy(n - 1) <= needle /\ needle < Heavy(n)
    BY <2>2
  <2>6. \A needle \in Nat : needle < Heavy(n) => needle < Heavy(R)
    BY <2>2
  <2>7. QED
    BY <2>3, <2>4, <2>5, <2>6
<1>12. ASSUME NEW n \in 1..R
       PROVE  Cardinality(Heavy(n - 1)..(Heavy(n) - 1)) = Weight[logits[Candidates[n]]]
  <2>1. n \in 1..N /\ n - 1 \in 0..N /\ n \in 0..N
    BY <1>1, <1>4
  <2>2. /\ Weight[logits[Candidates[n]]] \in Nat
        /\ Heavy(n) = Heavy(n - 1) + Weight[logits[Candidates[n]]]
    BY <2>1, FirstWeights DEF Heavy, N
  <2>3. Heavy(n) \in Nat /\ Heavy(n - 1) \in Nat
    BY <1>7, <2>1
  <2>4. Cardinality(Heavy(n - 1)..(Heavy(n) - 1)) =
           IF Heavy(n - 1) > Heavy(n) - 1 THEN 0 ELSE (Heavy(n) - 1) - Heavy(n - 1) + 1
    <3>1. Heavy(n) - 1 \in Int /\ Heavy(n - 1) \in Int
      BY <2>3
    <3>2. QED
      BY <3>1, FS_Interval
  <2>5. QED
    BY <2>2, <2>3, <2>4
<1>13. \A token \in Nucleus : \E n \in 1..R : token = Candidates[n]
  BY <1>3 DEF First
<1>14. QED
  <2> SUFFICES ASSUME NEW token \in Nucleus
               PROVE  Cardinality({needle \in 0..(WeightOf(Nucleus) - 1) : Select(needle) = token})
                         = Weight[logits[token]]
    OBVIOUS
  <2>1. PICK n \in 1..R : token = Candidates[n]
    BY <1>13
  <2>2. {needle \in 0..(WeightOf(Nucleus) - 1) : Select(needle) = token}
           = Heavy(n - 1)..(Heavy(n) - 1)
    BY <1>9, <1>11, <2>1
  <2>3. QED
    BY <1>12, <2>1, <2>2

\* WeightOf, for logits that are given.
WeightIn(l, tokens) == MapThenSumSet(LAMBDA token : Weight[l[token]], tokens)

\* The nucleus depends on the logits and the configuration only.
LEMMA DrawableStays ==
    ASSUME UNCHANGED <<logits, config>>
    PROVE  Drawable' = Drawable
<1>1. Finite' = Finite
  BY DEF Finite
<1>2. \A a, b : Before(a, b)' <=> Before(a, b)
  BY DEF Before
<1>3. \A t : Ahead(t)' = Ahead(t)
  BY <1>1, <1>2 DEF Ahead
<1>4. Kept' = Kept
  BY <1>1, <1>3 DEF Kept
<1>5. \A tokens : WeightOf(tokens) = WeightIn(logits, tokens)
  BY DEF WeightOf, WeightIn
<1>6. \A tokens : WeightOf(tokens)' = WeightIn(logits', tokens)
  <2>1. \A tokens : WeightOf(tokens)' = WeightIn(logits, tokens)'
    BY DEF WeightOf, WeightIn
  <2>2. QED
    BY <2>1
<1>7. \A tokens : WeightOf(tokens)' = WeightOf(tokens)
  BY <1>5, <1>6
<1>8. WeightOf(Kept)' = WeightOf(Kept)
  BY <1>4, <1>5, <1>6
<1>9. \A t : WeightOf(Ahead(t))' = WeightOf(Ahead(t))
  BY <1>3, <1>5, <1>6
<1>10. Nucleus' = Nucleus
  BY <1>1, <1>3, <1>4, <1>8, <1>9 DEF Nucleus
<1>11. QED
  BY <1>1, <1>10 DEF Drawable, Refused

Sampling ==
    /\ logits \in LogitVectors /\ config \in Configs
    /\ drawn \subseteq Drawable

\* Over all logits, configurations and random numbers Sampler::select draws a token of the
\* nucleus, never a masked one, and each as often as its weight says: the sort, the truncation,
\* the cutoff and the walk to the needle agree with the definition of the nucleus.
THEOREM SamplerDraws == SamplerSpec => []SamplesNucleus
<1>1. SamplerInit => Sampling
  BY DEF SamplerInit, Sampling
<1>2. Sampling /\ [Draw]_samplerVars => Sampling'
  <2> SUFFICES ASSUME Sampling, [Draw]_samplerVars PROVE Sampling'
    OBVIOUS
  <2>1. UNCHANGED <<logits, config>>
    BY DEF Draw, samplerVars
  <2>2. Drawable' = Drawable
    BY <2>1, DrawableStays
  <2>3. drawn' \subseteq Drawable
    <3>1. CASE Draw
      <4>1. PICK needle \in 0..Mass(Retained) : drawn' = {Select(needle)}
        BY <3>1 DEF Draw
      <4>2. Select(needle) \in Drawable
        BY DrawsFromNucleus DEF Sampling
      <4>3. QED
        BY <4>1, <4>2
    <3>2. CASE UNCHANGED samplerVars
      BY <3>2 DEF Sampling, samplerVars
    <3>3. QED
      BY <3>1, <3>2
  <2>4. QED
    BY <2>1, <2>2, <2>3 DEF Sampling
<1>3. Sampling => SamplesNucleus
  <2> SUFFICES ASSUME Sampling PROVE SamplesNucleus
    OBVIOUS
  <2>1. CASE Finite = {}
    BY <2>1 DEF Sampling, Drawable, SamplesNucleus
  <2>2. CASE Finite # {}
    <3>1. drawn \subseteq Nucleus
      BY <2>2 DEF Sampling, Drawable
    <3>2. Cardinality(Nucleus) > 1 => \A token \in Nucleus :
             Cardinality({needle \in 0..(WeightOf(Nucleus) - 1) : Select(needle) = token})
                = Weight[logits[token]]
      BY <2>2, SharesAreWeights DEF Sampling
    <3>3. QED
      BY <2>2, <3>1, <3>2 DEF SamplesNucleus
  <2>3. QED
    BY <2>1, <2>2
<1>4. QED
  BY <1>1, <1>2, <1>3, PTL DEF SamplerSpec

-----------------------------------------------------------------------------
(* The pieces of a text, by positions: Over(t, i, j, C) says that the      *)
(* characters from i to before j are of class C.                           *)

Over(t, i, j, C) == \A p \in i..(j - 1) : t[p] \in C

\* The characters that are punctuation, in whatever text.
Marks == Nat \ (Letters \union Numbers \union Whitespace)

\* The least and the greatest number of a set, once they are known.
LEMMA MinThis ==
    ASSUME NEW S \in SUBSET Nat, NEW m \in S, \A n \in S : m <= n
    PROVE  Min(S) = m
<1>1. Min(S) \in S /\ Min(S) <= m
  BY LeastIn
<1>2. Min(S) \in Nat /\ m \in Nat /\ m <= Min(S)
  BY <1>1
<1>3. QED
  BY <1>1, <1>2

LEMMA MaxThis ==
    ASSUME NEW S \in SUBSET Nat, NEW m \in S, \A n \in S : n <= m
    PROVE  Max(S) = m
<1>1. \A n \in S : (\A x \in S : n >= x) => n = m
  OBVIOUS
<1>2. \A x \in S : m >= x
  OBVIOUS
<1>3. QED
  BY <1>1, <1>2 DEF Max

\* A set of numbers with a bound has a greatest one.
LEMMA MaxIs ==
    ASSUME NEW S \in SUBSET Nat, S # {}, NEW b \in Nat, \A n \in S : n <= b
    PROVE  Max(S) \in S /\ \A n \in S : n <= Max(S)
<1> DEFINE D == {b - n : n \in S}
<1>1. D \in SUBSET Nat /\ D # {}
  <2>1. \A n \in S : b - n \in Nat
    OBVIOUS
  <2>2. QED
    BY <2>1
<1>2. PICK d \in D : \A x \in D : d <= x
  BY <1>1, LeastOf
<1>3. PICK m \in S : d = b - m
  BY <1>2
<1>4. \A n \in S : n <= m
  <2> TAKE n \in S
  <2>1. d <= b - n
    BY <1>2
  <2>2. QED
    BY <1>3, <2>1
<1>5. QED
  BY <1>4, MaxThis

\* A run ends before a character of another class, or with the text.
LEMMA RunEnds ==
    ASSUME NEW t \in Seq(Nat), NEW i \in 1..(Len(t) + 1), NEW C
    PROVE  /\ RunEnd(t, i, C) \in i..(Len(t) + 1)
           /\ Over(t, i, RunEnd(t, i, C), C)
           /\ RunEnd(t, i, C) <= Len(t) => t[RunEnd(t, i, C)] \notin C
           /\ At(t, i, C) => RunEnd(t, i, C) > i
           /\ \A j \in i..(Len(t) + 1) : Over(t, i, j, C) <=> j <= RunEnd(t, i, C)
<1> DEFINE S == {j \in i..(Len(t) + 1) : j > Len(t) \/ t[j] \notin C}
           e == RunEnd(t, i, C)
<1>1. S \in SUBSET Nat /\ Len(t) + 1 \in S
  OBVIOUS
<1>2. e = Min(S)
  BY DEF RunEnd
<1>3. e \in S /\ \A j \in S : e <= j
  BY <1>1, <1>2, LeastIn
<1>4. Over(t, i, e, C)
  BY <1>3 DEF Over
<1>5. \A j \in i..(Len(t) + 1) : Over(t, i, j, C) <=> j <= e
  BY <1>3, <1>4 DEF Over
<1>6. At(t, i, C) => e > i
  BY <1>3 DEF At
<1>7. QED
  BY <1>3, <1>4, <1>5, <1>6

\* A part of a text and the classes of its parts.
LEMMA Part ==
    ASSUME NEW t \in Seq(Nat), NEW i \in 1..Len(t), NEW j \in (i + 1)..(Len(t) + 1)
    PROVE  LET w == SubSeq(t, i, j - 1) IN
           /\ w \in Seq(Nat) /\ Len(w) = j - i
           /\ \A x \in 1..(j - i) : w[x] = t[i + x - 1]
OBVIOUS

\* A part is all of one class where the text is over these positions.
LEMMA PartOver ==
    ASSUME NEW t \in Seq(Nat), NEW i \in 1..(Len(t) + 1), NEW j \in 1..(Len(t) + 1), i <= j, NEW C
    PROVE  All(SubSeq(t, i, j - 1), C) <=> Over(t, i, j, C)
<1> DEFINE w == SubSeq(t, i, j - 1)
<1>1. DOMAIN w = 1..(j - i) /\ \A x \in 1..(j - i) : w[x] = t[i + x - 1]
  OBVIOUS
<1>2. All(w, C) <=> \A x \in 1..(j - i) : t[i + x - 1] \in C
  BY <1>1 DEF All, Range
<1>3. \A p \in i..(j - 1) : p - i + 1 \in 1..(j - i) /\ i + (p - i + 1) - 1 = p
  OBVIOUS
<1>4. \A x \in 1..(j - i) : i + x - 1 \in i..(j - 1)
  OBVIOUS
<1>5. QED
  BY <1>2, <1>3, <1>4 DEF Over

\* A part of a part is a part; of what is punctuation in it, too.
LEMMA PartOfPart ==
    ASSUME NEW t \in Seq(Nat), NEW i \in 1..Len(t), NEW j \in (i + 1)..(Len(t) + 1),
           NEW n \in 0..(j - i), NEW m \in n..(j - i)
    PROVE  LET w == SubSeq(t, i, j - 1) IN
           /\ \A C : All(SubSeq(w, n + 1, m), C) <=> Over(t, i + n, i + m, C)
           /\ All(SubSeq(w, n + 1, m), PunctuationOf(w)) <=> Over(t, i + n, i + m, Marks)
<1> DEFINE w == SubSeq(t, i, j - 1)
           v == SubSeq(w, n + 1, m)
           u == SubSeq(t, i + n, i + m - 1)
<1>1. w \in Seq(Nat) /\ Len(w) = j - i /\ \A x \in 1..(j - i) : w[x] = t[i + x - 1]
  BY Part
<1>2. v = u
  <2>1. v \in Seq(Nat) /\ Len(v) = m - n /\ \A x \in 1..(m - n) : v[x] = w[n + x]
    BY <1>1
  <2>2. u \in Seq(Nat) /\ Len(u) = m - n /\ \A x \in 1..(m - n) : u[x] = t[i + n + x - 1]
    OBVIOUS
  <2>3. \A x \in 1..(m - n) : n + x \in 1..(j - i) /\ i + (n + x) - 1 = i + n + x - 1
    OBVIOUS
  <2>4. \A x \in 1..(m - n) : v[x] = u[x]
    BY <1>1, <2>1, <2>2, <2>3
  <2>5. QED
    BY <2>1, <2>2, <2>4
<1>3. \A C : All(v, C) <=> Over(t, i + n, i + m, C)
  <2>1. i + n \in 1..(Len(t) + 1) /\ i + m \in 1..(Len(t) + 1) /\ i + n <= i + m
    OBVIOUS
  <2>2. \A C : All(u, C) <=> Over(t, i + n, i + m, C)
    BY <2>1, PartOver
  <2>3. QED
    BY <1>2, <2>2
<1>4. \A p \in (i + n)..(i + m - 1) : t[p] \in Nat /\ t[p] \in Range(w)
  <2> SUFFICES ASSUME NEW p \in (i + n)..(i + m - 1) PROVE t[p] \in Nat /\ t[p] \in Range(w)
    OBVIOUS
  <2>1. p - i + 1 \in 1..(j - i) /\ p \in 1..Len(t)
    OBVIOUS
  <2>2. w[p - i + 1] = t[p] /\ p - i + 1 \in DOMAIN w
    BY <1>1, <2>1
  <2>3. t[p] \in Nat
    BY <2>1
  <2>4. QED
    BY <2>2, <2>3 DEF Range
<1>5. Over(t, i + n, i + m, PunctuationOf(w)) <=> Over(t, i + n, i + m, Marks)
  BY <1>4 DEF Over, PunctuationOf, Marks
<1> HIDE DEF w
<1>6. QED
  BY <1>3, <1>5 DEF w

\* The punctuation of a text is what of it is in no other class.
LEMMA MarksOf ==
    ASSUME NEW t \in Seq(Nat), NEW p \in 1..Len(t)
    PROVE  t[p] \in PunctuationOf(t) <=> t[p] \in Marks
<1>1. t[p] \in Nat /\ t[p] \in Range(t)
  BY DEF Range
<1>2. QED
  BY <1>1 DEF PunctuationOf, Marks

-----------------------------------------------------------------------------
(* Each alternative, by positions.                                         *)

LEMMA Contracted ==
    ASSUME NEW t \in Seq(Nat), NEW i \in 1..Len(t), NEW j \in (i + 1)..(Len(t) + 1)
    PROVE  j \in MatchEnds(1, t, i) <=>
             /\ t[i] = Apostrophe
             /\ \/ j = i + 2 /\ Lower(t[i + 1]) \in Contractions1
                \/ j = i + 3 /\ <<Lower(t[i + 1]), Lower(t[i + 2])>> \in Contractions2
<1> DEFINE w == SubSeq(t, i, j - 1)
<1>1. Len(w) = j - i /\ \A x \in 1..(j - i) : w[x] = t[i + x - 1]
  BY Part
<1>2. w[1] = t[i] /\ (j - i >= 2 => w[2] = t[i + 1]) /\ (j - i >= 3 => w[3] = t[i + 2])
  <2>1. i + 1 - 1 = i /\ i + 2 - 1 = i + 1 /\ i + 3 - 1 = i + 2 /\ 1 \in 1..(j - i)
        /\ (j - i >= 2 => 2 \in 1..(j - i)) /\ (j - i >= 3 => 3 \in 1..(j - i))
    OBVIOUS
  <2> HIDE DEF w
  <2>2. QED
    BY <1>1, <2>1
<1> DEFINE next == IF j > Len(t) THEN TextEnd ELSE t[j]
<1>3. j \in MatchEnds(1, t, i) <=> InLanguage(1, w, next)
  BY DEF MatchEnds
<1> HIDE DEF w, next
<1>4. InLanguage(1, w, next) <=>
        /\ w[1] = Apostrophe
        /\ \/ Len(w) = 2 /\ Lower(w[2]) \in Contractions1
           \/ Len(w) = 3 /\ <<Lower(w[2]), Lower(w[3])>> \in Contractions2
  BY DEF InLanguage
<1>5. CASE j = i + 2
  <2>1. Len(w) = 2 /\ w[2] = t[i + 1]
    BY <1>1, <1>2, <1>5
  <2>2. j # i + 3
    BY <1>5
  <2>3. QED
    BY <1>2, <1>3, <1>4, <1>5, <2>1, <2>2, Zenon
<1>6. CASE j = i + 3
  <2>1. Len(w) = 3 /\ w[2] = t[i + 1] /\ w[3] = t[i + 2]
    BY <1>1, <1>2, <1>6
  <2>2. j # i + 2
    BY <1>6
  <2>3. QED
    BY <1>2, <1>3, <1>4, <1>6, <2>1, <2>2, Zenon
<1>7. CASE j # i + 2 /\ j # i + 3
  <2>1. Len(w) # 2 /\ Len(w) # 3
    BY <1>1, <1>7
  <2>2. QED
    BY <1>3, <1>4, <1>7, <2>1, Zenon
<1>8. QED
  BY <1>5, <1>6, <1>7

LEMMA Wordy ==
    ASSUME NEW t \in Seq(Nat), NEW i \in 1..Len(t), NEW j \in (i + 1)..(Len(t) + 1)
    PROVE  j \in MatchEnds(2, t, i) <=>
             \/ Over(t, i, j, Letters)
             \/ /\ j > i + 1 /\ t[i] \notin Letters \union Numbers \union Newlines
                /\ Over(t, i + 1, j, Letters)
<1> DEFINE w == SubSeq(t, i, j - 1)
<1>1. w \in Seq(Nat) /\ Len(w) = j - i /\ w[1] = t[i]
  BY Part
<1>2. \A n \in {0, 1} : All(Tail2(w, n), Letters) <=> Over(t, i + n, j, Letters)
  <2> TAKE n \in {0, 1}
  <2>1. n \in 0..(j - i) /\ j - i \in n..(j - i) /\ i + (j - i) = j
    OBVIOUS
  <2>2. QED
    BY <1>1, <2>1, PartOfPart DEF Tail2
<1>3. j \in MatchEnds(2, t, i) <=>
        \E n \in {0, 1} :
          /\ Len(w) > n /\ All(Tail2(w, n), Letters)
          /\ n = 1 => w[1] \notin Letters \union Numbers \union Newlines
  BY DEF MatchEnds, InLanguage
<1> HIDE DEF w
<1>4. i + 0 = i
  OBVIOUS
<1>5. QED
  BY <1>1, <1>2, <1>3, <1>4

LEMMA Numeric ==
    ASSUME NEW t \in Seq(Nat), NEW i \in 1..Len(t), NEW j \in (i + 1)..(Len(t) + 1)
    PROVE  j \in MatchEnds(3, t, i) <=> j <= i + 3 /\ Over(t, i, j, Numbers)
<1> DEFINE w == SubSeq(t, i, j - 1)
<1>1. Len(w) = j - i
  BY Part
<1>2. All(w, Numbers) <=> Over(t, i, j, Numbers)
  BY PartOver
<1>3. j \in MatchEnds(3, t, i) <=> Len(w) \in 1..3 /\ All(w, Numbers)
  BY DEF MatchEnds, InLanguage
<1>4. QED
  BY <1>1, <1>2, <1>3

LEMMA Marked2 ==
    ASSUME NEW t \in Seq(Nat), NEW i \in 1..Len(t), NEW j \in (i + 1)..(Len(t) + 1)
    PROVE  j \in MatchEnds(4, t, i) <=>
             \E n \in {0, 1}, m \in 1..(j - i) :
               /\ m > n /\ Over(t, i + n, i + m, Marks) /\ Over(t, i + m, j, Newlines)
               /\ n = 1 => t[i] = Space
<1> DEFINE w == SubSeq(t, i, j - 1)
<1>1. w \in Seq(Nat) /\ Len(w) = j - i /\ w[1] = t[i]
  BY Part
<1>2. \A n \in {0, 1}, m \in 1..(j - i) : m > n =>
         (All(SubSeq(w, n + 1, m), PunctuationOf(w)) <=> Over(t, i + n, i + m, Marks))
  BY PartOfPart
<1>3. \A m \in 1..(j - i) : All(Tail2(w, m), Newlines) <=> Over(t, i + m, j, Newlines)
  <2> TAKE m \in 1..(j - i)
  <2>1. m \in 0..(j - i) /\ j - i \in m..(j - i) /\ i + (j - i) = j
    OBVIOUS
  <2>2. QED
    BY <1>1, <2>1, PartOfPart DEF Tail2
<1>4. j \in MatchEnds(4, t, i) <=>
        \E n \in {0, 1}, m \in 1..Len(w) :
           /\ m > n /\ All(SubSeq(w, n + 1, m), PunctuationOf(w))
           /\ All(Tail2(w, m), Newlines)
           /\ n = 1 => w[1] = Space
  BY DEF MatchEnds, InLanguage
<1> HIDE DEF w
<1>5. QED
  BY <1>1, <1>2, <1>3, <1>4

LEMMA Spaced ==
    ASSUME NEW t \in Seq(Nat), NEW i \in 1..Len(t), NEW j \in (i + 1)..(Len(t) + 1)
    PROVE  /\ j \in MatchEnds(5, t, i) <=> Over(t, i, j, Whitespace) /\ t[j - 1] \in Newlines
           /\ j \in MatchEnds(6, t, i) <=>
                Over(t, i, j, Whitespace) /\ (j <= Len(t) => t[j] \in Whitespace)
           /\ j \in MatchEnds(7, t, i) <=> Over(t, i, j, Whitespace)
<1> DEFINE w == SubSeq(t, i, j - 1)
           next == IF j > Len(t) THEN TextEnd ELSE t[j]
<1>1. Len(w) = j - i /\ w[Len(w)] = t[j - 1]
  <2>1. Len(w) = j - i /\ w[j - i] = t[i + (j - i) - 1]
    BY Part
  <2>2. i + (j - i) - 1 = j - 1
    OBVIOUS
  <2>3. QED
    BY <2>1, <2>2
<1>2. All(w, Whitespace) <=> Over(t, i, j, Whitespace)
  BY PartOver
<1>3. j \in MatchEnds(5, t, i) <=> All(w, Whitespace) /\ w[Len(w)] \in Newlines
  BY DEF MatchEnds, InLanguage
<1>4. j \in MatchEnds(6, t, i) <=> All(w, Whitespace) /\ next \in Whitespace \union {TextEnd}
  BY DEF MatchEnds, InLanguage
<1>5. j \in MatchEnds(7, t, i) <=> All(w, Whitespace)
  BY DEF MatchEnds, InLanguage
<1>6. next \in Whitespace \union {TextEnd} <=> (j <= Len(t) => t[j] \in Whitespace)
  <2>1. j <= Len(t) => t[j] \in Nat
    OBVIOUS
  <2>2. QED
    BY <2>1 DEF TextEnd
<1>7. QED
  BY <1>1, <1>2, <1>3, <1>4, <1>5, <1>6

\* A match is not empty and ends in the text.
LEMMA EndsInText ==
    ASSUME NEW t \in Seq(Nat), NEW i \in 1..Len(t), NEW k
    PROVE  /\ MatchEnds(k, t, i) \subseteq (i + 1)..(Len(t) + 1)
           /\ (i + 1)..(Len(t) + 1) \in SUBSET Nat
BY DEF MatchEnds

\* The alternative that matches first, and its longest match.
LEMMA FirstMatch ==
    ASSUME NEW t \in Seq(Nat), NEW i \in 1..Len(t), NEW k \in 1..7,
           NEW v \in MatchEnds(k, t, i), \A j \in MatchEnds(k, t, i) : j <= v,
           \A l \in 1..(k - 1) : MatchEnds(l, t, i) = {}
    PROVE  PatternEnd(t, i) = v
<1> DEFINE S == {l \in 1..7 : MatchEnds(l, t, i) # {}}
<1>1. S \in SUBSET Nat /\ k \in S
  OBVIOUS
<1>2. \A l \in S : k <= l
  OBVIOUS
<1>3. Min(S) = k
  BY <1>1, <1>2, MinThis
<1>4. Max(MatchEnds(k, t, i)) = v
  BY EndsInText, MaxThis
<1>5. QED
  BY <1>3, <1>4 DEF PatternEnd

\* A contraction of three characters: 're, 've or 'll, in either case.
LEMMA LongContraction ==
    ASSUME NEW t \in Seq(Nat), NEW i \in 1..Len(t), t[i] = Apostrophe, i + 1 < Len(t),
           <<Lower(t[i + 1]), Lower(t[i + 2])>> \in Contractions2
    PROVE  PatternEnd(t, i) = i + 3
<1>1. i + 3 \in (i + 1)..(Len(t) + 1)
  OBVIOUS
<1>2. i + 3 \in MatchEnds(1, t, i)
  BY <1>1, Contracted
<1>3. \A j \in MatchEnds(1, t, i) : j <= i + 3
  <2> TAKE j \in MatchEnds(1, t, i)
  <2>1. j \in (i + 1)..(Len(t) + 1)
    BY EndsInText
  <2>2. j = i + 2 \/ j = i + 3
    BY <2>1, Contracted
  <2>3. QED
    BY <2>2
<1>4. QED
  BY <1>2, <1>3, FirstMatch

\* A contraction of two characters.
LEMMA ShortContraction ==
    ASSUME NEW t \in Seq(Nat), NEW i \in 1..Len(t), t[i] = Apostrophe, i < Len(t),
           ~(i + 1 < Len(t) /\ <<Lower(t[i + 1]), Lower(t[i + 2])>> \in Contractions2),
           Lower(t[i + 1]) \in Contractions1
    PROVE  PatternEnd(t, i) = i + 2
<1>1. i + 2 \in (i + 1)..(Len(t) + 1)
  OBVIOUS
<1>2. i + 2 \in MatchEnds(1, t, i)
  BY <1>1, Contracted
<1>3. \A j \in MatchEnds(1, t, i) : j <= i + 2
  <2> TAKE j \in MatchEnds(1, t, i)
  <2>1. j \in (i + 1)..(Len(t) + 1)
    BY EndsInText
  <2>2. \/ j = i + 2
        \/ j = i + 3 /\ <<Lower(t[i + 1]), Lower(t[i + 2])>> \in Contractions2
    BY <2>1, Contracted
  <2>3. j = i + 3 => i + 1 < Len(t)
    BY <2>1
  <2>4. QED
    BY <2>2, <2>3
<1>4. QED
  BY <1>2, <1>3, FirstMatch

\* Without one the first alternative matches nothing.
LEMMA NoContraction ==
    ASSUME NEW t \in Seq(Nat), NEW i \in 1..Len(t),
           ~(/\ t[i] = Apostrophe /\ i + 1 < Len(t)
             /\ <<Lower(t[i + 1]), Lower(t[i + 2])>> \in Contractions2),
           ~(t[i] = Apostrophe /\ i < Len(t) /\ Lower(t[i + 1]) \in Contractions1)
    PROVE  MatchEnds(1, t, i) = {}
<1> SUFFICES ASSUME NEW j \in MatchEnds(1, t, i) PROVE FALSE
  OBVIOUS
<1>1. j \in (i + 1)..(Len(t) + 1)
  BY EndsInText
<1>2. /\ t[i] = Apostrophe
      /\ \/ j = i + 2 /\ Lower(t[i + 1]) \in Contractions1
         \/ j = i + 3 /\ <<Lower(t[i + 1]), Lower(t[i + 2])>> \in Contractions2
  BY <1>1, Contracted
<1>3. j = i + 2 => i < Len(t)
  BY <1>1
<1>4. j = i + 3 => i + 1 < Len(t)
  BY <1>1
<1>5. QED
  BY <1>2, <1>3, <1>4

\* Where the letters of a piece begin.
WordFrom(t, i) == IF t[i] \in Letters \union Numbers \union Newlines THEN i ELSE i + 1

\* Letters, with at most one character of no other class before them.
LEMMA WordMatch ==
    ASSUME NEW t \in Seq(Nat), NEW i \in 1..Len(t), MatchEnds(1, t, i) = {},
           At(t, WordFrom(t, i), Letters)
    PROVE  PatternEnd(t, i) = RunEnd(t, WordFrom(t, i), Letters)
<1> DEFINE w == WordFrom(t, i)
           v == RunEnd(t, w, Letters)
<1>1. w \in 1..Len(t) /\ (w = i \/ w = i + 1) /\ t[w] \in Letters
  BY DEF WordFrom, At
<1>2. v \in (w + 1)..(Len(t) + 1) /\ Over(t, w, v, Letters)
      /\ \A j \in w..(Len(t) + 1) : Over(t, w, j, Letters) => j <= v
  BY <1>1, RunEnds
<1> HIDE DEF v
<1>3. v \in MatchEnds(2, t, i)
  <2>1. v \in (i + 1)..(Len(t) + 1)
    BY <1>1, <1>2
  <2>2. CASE w = i
    BY <1>2, <2>1, <2>2, Wordy
  <2>3. CASE w = i + 1
    <3>1. t[i] \notin Letters \union Numbers \union Newlines
      BY <2>3 DEF WordFrom
    <3>2. v > i + 1
      BY <1>2, <2>3
    <3>3. QED
      BY <1>2, <2>1, <2>3, <3>1, <3>2, Wordy
  <2>4. QED
    BY <1>1, <2>2, <2>3
<1>4. \A j \in MatchEnds(2, t, i) : j <= v
  <2> TAKE j \in MatchEnds(2, t, i)
  <2>1. j \in (i + 1)..(Len(t) + 1)
    BY EndsInText
  <2>2. CASE Over(t, i, j, Letters)
    <3>1. t[i] \in Letters
      BY <2>1, <2>2 DEF Over
    <3>2. w = i
      BY <3>1 DEF WordFrom
    <3>3. QED
      BY <1>2, <2>1, <2>2, <3>2
  <2>3. CASE /\ j > i + 1 /\ t[i] \notin Letters \union Numbers \union Newlines
             /\ Over(t, i + 1, j, Letters)
    <3>1. w = i + 1
      BY <2>3 DEF WordFrom
    <3>2. QED
      BY <1>2, <2>1, <2>3, <3>1
  <2>4. QED
    BY <2>1, <2>2, <2>3, Wordy
<1>5. \A l \in 1..(2 - 1) : MatchEnds(l, t, i) = {}
  OBVIOUS
<1>6. QED
  BY <1>3, <1>4, <1>5, FirstMatch DEF v

\* Where the scanner finds no letters the second alternative matches nothing.
LEMMA NoWord ==
    ASSUME NEW t \in Seq(Nat), NEW i \in 1..Len(t), ~At(t, WordFrom(t, i), Letters)
    PROVE  MatchEnds(2, t, i) = {} /\ t[i] \notin Letters
<1> SUFFICES ASSUME NEW j \in MatchEnds(2, t, i) PROVE FALSE
  BY DEF WordFrom, At
<1>1. j \in (i + 1)..(Len(t) + 1)
  BY EndsInText
<1>2. CASE Over(t, i, j, Letters)
  BY <1>1, <1>2 DEF Over, WordFrom, At
<1>3. CASE /\ j > i + 1 /\ t[i] \notin Letters \union Numbers \union Newlines
           /\ Over(t, i + 1, j, Letters)
  BY <1>1, <1>3 DEF Over, WordFrom, At
<1>4. QED
  BY <1>1, <1>2, <1>3, Wordy

\* Three numbers at most.
LEMMA NumberMatch ==
    ASSUME NEW t \in Seq(Nat), NEW i \in 1..Len(t), t[i] \in Numbers,
           MatchEnds(1, t, i) = {}, MatchEnds(2, t, i) = {}
    PROVE  PatternEnd(t, i) = Min({RunEnd(t, i, Numbers), i + 3})
<1> DEFINE e == RunEnd(t, i, Numbers)
           v == Min({e, i + 3})
<1>1. e \in (i + 1)..(Len(t) + 1)
      /\ \A j \in i..(Len(t) + 1) : Over(t, i, j, Numbers) <=> j <= e
  BY RunEnds DEF At
<1> HIDE DEF e
<1>2. v \in {e, i + 3} /\ v <= e /\ v <= i + 3
  <2>1. {e, i + 3} \in SUBSET Nat
    BY <1>1
  <2>2. QED
    BY <2>1, LeastIn
<1> HIDE DEF v
<1>3. v \in (i + 1)..(Len(t) + 1)
  BY <1>1, <1>2
<1>4. v \in MatchEnds(3, t, i)
  BY <1>1, <1>2, <1>3, Numeric
<1>5. \A j \in MatchEnds(3, t, i) : j <= v
  <2> TAKE j \in MatchEnds(3, t, i)
  <2>1. j \in (i + 1)..(Len(t) + 1)
    BY EndsInText
  <2>2. j <= i + 3 /\ j <= e
    BY <1>1, <2>1, Numeric
  <2>3. QED
    BY <1>2, <2>2
<1>6. \A l \in 1..(3 - 1) : MatchEnds(l, t, i) = {}
  <2>1. \A l \in 1..(3 - 1) : l = 1 \/ l = 2
    OBVIOUS
  <2>2. QED
    BY <2>1
<1>7. PatternEnd(t, i) = v
  BY <1>4, <1>5, <1>6, FirstMatch
<1>8. QED
  BY <1>7 DEF v, e

\* Where no number begins the third alternative matches nothing.
LEMMA NoNumber ==
    ASSUME NEW t \in Seq(Nat), NEW i \in 1..Len(t), t[i] \notin Numbers
    PROVE  MatchEnds(3, t, i) = {}
<1> SUFFICES ASSUME NEW j \in MatchEnds(3, t, i) PROVE FALSE
  OBVIOUS
<1>1. j \in (i + 1)..(Len(t) + 1)
  BY EndsInText
<1>2. Over(t, i, j, Numbers)
  BY <1>1, Numeric
<1>3. QED
  BY <1>1, <1>2 DEF Over

\* Where the punctuation of a piece begins.
MarkFrom(t, i) == IF t[i] = Space /\ At(t, i + 1, PunctuationOf(t)) THEN i + 1 ELSE i

\* Neither a space nor a newline is punctuation.
LEMMA MarksApart == Space \notin Marks /\ \A c \in Newlines : c \notin Marks
BY ByteBpeAssumption DEF Marks

\* Where a match of the fourth alternative must have its punctuation.
LEMMA MarksBegin ==
    ASSUME NEW t \in Seq(Nat), NEW i \in 1..Len(t), NEW j \in (i + 1)..(Len(t) + 1),
           NEW n \in {0, 1}, NEW m \in 1..(j - i), m > n,
           Over(t, i + n, i + m, Marks), n = 1 => t[i] = Space
    PROVE  MarkFrom(t, i) = i + n /\ At(t, i + n, PunctuationOf(t))
<1>1. i + n \in 1..Len(t) /\ i + n \in (i + n)..(i + m - 1)
  OBVIOUS
<1>2. t[i + n] \in Marks
  BY <1>1 DEF Over
<1>3. At(t, i + n, PunctuationOf(t))
  BY <1>1, <1>2, MarksOf DEF At
<1>4. CASE n = 0
  <2>1. t[i] # Space
    BY <1>2, <1>4, MarksApart
  <2>2. i + n = i
    BY <1>4
  <2>3. QED
    BY <1>3, <2>1, <2>2 DEF MarkFrom
<1>5. CASE n = 1
  BY <1>3, <1>5 DEF MarkFrom
<1>6. QED
  BY <1>4, <1>5

\* Where the scanner finds no punctuation the fourth alternative matches nothing.
LEMMA NoMark ==
    ASSUME NEW t \in Seq(Nat), NEW i \in 1..Len(t),
           ~At(t, MarkFrom(t, i), PunctuationOf(t))
    PROVE  MatchEnds(4, t, i) = {}
<1> SUFFICES ASSUME NEW j \in MatchEnds(4, t, i) PROVE FALSE
  OBVIOUS
<1>1. j \in (i + 1)..(Len(t) + 1)
  BY EndsInText
<1>2. PICK n \in {0, 1}, m \in 1..(j - i) :
        /\ m > n /\ Over(t, i + n, i + m, Marks) /\ Over(t, i + m, j, Newlines)
        /\ n = 1 => t[i] = Space
  BY <1>1, Marked2
<1>3. QED
  BY <1>1, <1>2, MarksBegin

\* Punctuation, with at most one space before it and the newlines after it.
LEMMA MarkMatch ==
    ASSUME NEW t \in Seq(Nat), NEW i \in 1..Len(t),
           At(t, MarkFrom(t, i), PunctuationOf(t)),
           MatchEnds(1, t, i) = {}, MatchEnds(2, t, i) = {}, MatchEnds(3, t, i) = {}
    PROVE  PatternEnd(t, i) = RunEnd(t, RunEnd(t, MarkFrom(t, i), PunctuationOf(t)), Newlines)
<1> DEFINE from == MarkFrom(t, i)
           n == from - i
           e == RunEnd(t, from, PunctuationOf(t))
           v == RunEnd(t, e, Newlines)
<1>1. /\ from \in 1..Len(t) /\ n \in {0, 1} /\ from = i + n
      /\ n = 1 => t[i] = Space
  <2>1. from = i \/ from = i + 1
    BY DEF MarkFrom
  <2>2. from <= Len(t)
    BY DEF At
  <2>3. from = i + 1 => t[i] = Space
    BY DEF MarkFrom
  <2>4. QED
    BY <2>1, <2>2, <2>3
<1> HIDE DEF from
<1>2. /\ e \in (from + 1)..(Len(t) + 1) /\ Over(t, from, e, PunctuationOf(t))
      /\ \A j \in from..(Len(t) + 1) : Over(t, from, j, PunctuationOf(t)) => j <= e
  <2>1. from \in 1..(Len(t) + 1) /\ At(t, from, PunctuationOf(t))
    BY <1>1 DEF from
  <2>2. QED
    BY <2>1, RunEnds
<1> HIDE DEF e
<1>3. /\ v \in e..(Len(t) + 1) /\ Over(t, e, v, Newlines)
      /\ \A j \in e..(Len(t) + 1) : Over(t, e, j, Newlines) => j <= v
  <2>1. e \in 1..(Len(t) + 1)
    BY <1>1, <1>2
  <2>2. QED
    BY <2>1, RunEnds
<1> HIDE DEF v
<1>4. v \in MatchEnds(4, t, i)
  <2>1. v \in (i + 1)..(Len(t) + 1) /\ e - i \in 1..(v - i) /\ e - i > n /\ i + (e - i) = e
    BY <1>1, <1>2, <1>3
  <2>2. Over(t, from, e, Marks)
    <3> SUFFICES ASSUME NEW p \in from..(e - 1) PROVE t[p] \in Marks
      BY DEF Over
    <3>1. p \in 1..Len(t)
      BY <1>1, <1>2
    <3>2. t[p] \in PunctuationOf(t)
      BY <1>2 DEF Over
    <3>3. QED
      BY <3>1, <3>2, MarksOf
  <2>3. /\ e - i > n /\ Over(t, i + n, i + (e - i), Marks) /\ Over(t, i + (e - i), v, Newlines)
        /\ n = 1 => t[i] = Space
    BY <1>1, <1>3, <2>1, <2>2
  <2> HIDE DEF n
  <2>4. \E q \in {0, 1}, m \in 1..(v - i) :
          /\ m > q /\ Over(t, i + q, i + m, Marks) /\ Over(t, i + m, v, Newlines)
          /\ q = 1 => t[i] = Space
    BY <1>1, <2>1, <2>3
  <2>5. QED
    BY <2>1, <2>4, Marked2
<1>5. \A j \in MatchEnds(4, t, i) : j <= v
  <2> TAKE j \in MatchEnds(4, t, i)
  <2>1. j \in (i + 1)..(Len(t) + 1)
    BY EndsInText
  <2>2. PICK q \in {0, 1}, m \in 1..(j - i) :
          /\ m > q /\ Over(t, i + q, i + m, Marks) /\ Over(t, i + m, j, Newlines)
          /\ q = 1 => t[i] = Space
    BY <2>1, Marked2
  <2>3. from = i + q
    BY <2>1, <2>2, MarksBegin DEF from
  <2>4. i + m \in from..(Len(t) + 1)
    BY <2>1, <2>2, <2>3
  <2>5. i + m <= e
    <3>1. Over(t, from, i + m, PunctuationOf(t))
      <4> SUFFICES ASSUME NEW p \in from..(i + m - 1) PROVE t[p] \in PunctuationOf(t)
        BY DEF Over
      <4>1. p \in 1..Len(t)
        BY <1>1, <2>4
      <4>2. t[p] \in Marks
        BY <2>2, <2>3 DEF Over
      <4>3. QED
        BY <4>1, <4>2, MarksOf
    <3>2. QED
      BY <1>2, <2>4, <3>1
  <2>6. CASE i + m = e
    <3>1. Over(t, e, j, Newlines)
      BY <2>2, <2>6
    <3>2. j \in e..(Len(t) + 1)
      BY <2>1, <2>6
    <3>3. QED
      BY <1>3, <3>1, <3>2
  <2>7. CASE i + m < e
    <3>1. i + m \in from..(e - 1) /\ i + m \in 1..Len(t)
      BY <1>1, <1>2, <2>4, <2>7
    <3>2. t[i + m] \in Marks
      BY <1>2, <3>1, MarksOf DEF Over
    <3>3. ~(i + m \in (i + m)..(j - 1))
      BY <2>2, <3>2, MarksApart DEF Over
    <3>4. j <= i + m
      BY <2>1, <3>3
    <3>5. QED
      BY <1>1, <1>2, <1>3, <2>1, <2>7, <3>4
  <2>8. QED
    BY <1>1, <1>2, <2>4, <2>5, <2>6, <2>7
<1>6. \A l \in 1..(4 - 1) : MatchEnds(l, t, i) = {}
  <2>1. \A l \in 1..(4 - 1) : l = 1 \/ l = 2 \/ l = 3
    OBVIOUS
  <2>2. QED
    BY <2>1
<1>7. PatternEnd(t, i) = v
  BY <1>4, <1>5, <1>6, FirstMatch
<1>8. QED
  BY <1>7 DEF v, e, from

\* Whitespace: up to its last newline, or without the last one before a word, or all of it.
LEMMA SpaceMatch ==
    ASSUME NEW t \in Seq(Nat), NEW i \in 1..Len(t), t[i] \in Whitespace,
           \A l \in 1..4 : MatchEnds(l, t, i) = {}
    PROVE  PatternEnd(t, i) = SpaceEnd(t, i)
<1> DEFINE e == RunEnd(t, i, Whitespace)
           newlines == {j \in i..(e - 1) : t[j] \in Newlines}
<1>1. /\ e \in (i + 1)..(Len(t) + 1) /\ (e <= Len(t) => t[e] \notin Whitespace)
      /\ \A j \in i..(Len(t) + 1) : Over(t, i, j, Whitespace) <=> j <= e
  BY RunEnds DEF At
<1>2. SpaceEnd(t, i) = IF newlines # {} THEN Max(newlines) + 1
                       ELSE IF e <= Len(t) THEN Max({e - 1, i + 1})
                       ELSE e
  BY DEF SpaceEnd
<1> HIDE DEF e
<1>3. CASE newlines # {}
  <2> DEFINE last == Max(newlines)
             v == last + 1
  <2>1. last \in newlines /\ \A j \in newlines : j <= last
    <3>1. newlines \in SUBSET Nat /\ Len(t) \in Nat /\ \A j \in newlines : j <= Len(t)
      BY <1>1
    <3>2. QED
      BY <1>3, <3>1, MaxIs
  <2> HIDE DEF last
  <2>2. v \in (i + 1)..(Len(t) + 1) /\ v <= e /\ v - 1 = last
    BY <1>1, <2>1
  <2>3. v \in MatchEnds(5, t, i)
    <3>1. t[v - 1] \in Newlines
      BY <2>1, <2>2
    <3>2. Over(t, i, v, Whitespace)
      BY <1>1, <2>2
    <3>3. QED
      BY <2>2, <3>1, <3>2, Spaced
  <2>4. \A j \in MatchEnds(5, t, i) : j <= v
    <3> TAKE j \in MatchEnds(5, t, i)
    <3>1. j \in (i + 1)..(Len(t) + 1)
      BY EndsInText
    <3>2. j <= e /\ t[j - 1] \in Newlines
      BY <1>1, <3>1, Spaced
    <3>3. j - 1 \in newlines
      BY <1>1, <3>1, <3>2
    <3>4. QED
      BY <2>1, <3>1, <3>3
  <2>5. \A l \in 1..(5 - 1) : MatchEnds(l, t, i) = {}
    OBVIOUS
  <2> HIDE DEF v
  <2>6. PatternEnd(t, i) = v
    BY <2>3, <2>4, <2>5, FirstMatch
  <2>7. QED
    BY <1>2, <1>3, <2>6 DEF v, last
<1>4. CASE newlines = {}
  <2>1. MatchEnds(5, t, i) = {}
    <3> SUFFICES ASSUME NEW j \in MatchEnds(5, t, i) PROVE FALSE
      OBVIOUS
    <3>1. j \in (i + 1)..(Len(t) + 1)
      BY EndsInText
    <3>2. j <= e /\ t[j - 1] \in Newlines
      BY <1>1, <3>1, Spaced
    <3>3. j - 1 \in newlines
      BY <1>1, <3>1, <3>2
    <3>4. QED
      BY <1>4, <3>3
  <2>2. \A l \in 1..(6 - 1) : MatchEnds(l, t, i) = {}
    <3>1. \A l \in 1..(6 - 1) : l \in 1..4 \/ l = 5
      OBVIOUS
    <3>2. QED
      BY <2>1, <3>1
  <2>3. \A j \in (i + 1)..(Len(t) + 1) :
          j \in MatchEnds(6, t, i) <=> j <= e /\ (j <= Len(t) => t[j] \in Whitespace)
    BY <1>1, Spaced
  <2>4. CASE e = Len(t) + 1
    <3>1. e \in MatchEnds(6, t, i) /\ \A j \in MatchEnds(6, t, i) : j <= e
      BY <1>1, <2>3, <2>4, EndsInText
    <3>2. PatternEnd(t, i) = e
      BY <2>2, <3>1, FirstMatch
    <3>3. QED
      BY <1>2, <1>4, <2>4, <3>2
  <2>5. CASE e <= Len(t) /\ e > i + 1
    <3>1. Over(t, i, e, Whitespace)
      BY <1>1
    <3>2. e - 1 \in (i + 1)..(Len(t) + 1) /\ t[e - 1] \in Whitespace
      BY <1>1, <2>5, <3>1 DEF Over
    <3>3. e - 1 \in MatchEnds(6, t, i)
      BY <1>1, <2>3, <3>2
    <3>4. \A j \in MatchEnds(6, t, i) : j <= e - 1
      BY <1>1, <2>3, <2>5, EndsInText
    <3>5. PatternEnd(t, i) = e - 1
      BY <2>2, <3>3, <3>4, FirstMatch
    <3>6. Max({e - 1, i + 1}) = e - 1
      <4>1. {e - 1, i + 1} \in SUBSET Nat /\ \A n \in {e - 1, i + 1} : n <= e - 1
        BY <1>1, <3>2
      <4>2. QED
        BY <4>1, MaxThis
    <3>7. QED
      BY <1>2, <1>4, <2>5, <3>5, <3>6
  <2>6. CASE e <= Len(t) /\ e = i + 1
    <3>1. MatchEnds(6, t, i) = {}
      BY <1>1, <2>3, <2>6, EndsInText
    <3>2. \A l \in 1..(7 - 1) : MatchEnds(l, t, i) = {}
      <4>1. \A l \in 1..(7 - 1) : l \in 1..(6 - 1) \/ l = 6
        OBVIOUS
      <4>2. QED
        BY <2>2, <3>1, <4>1
    <3>3. e \in MatchEnds(7, t, i)
      BY <1>1, Spaced
    <3>4. \A j \in MatchEnds(7, t, i) : j <= e
      BY <1>1, Spaced, EndsInText
    <3>5. PatternEnd(t, i) = e
      BY <3>2, <3>3, <3>4, FirstMatch
    <3>6. Max({e - 1, i + 1}) = e
      BY <1>1, <2>6, MaxThis
    <3>7. QED
      BY <1>2, <1>4, <2>6, <3>5, <3>6
  <2>7. QED
    BY <1>1, <2>4, <2>5, <2>6
<1>5. QED
  BY <1>3, <1>4

\* The scanner's next piece is the pattern's next match.
LEMMA PieceIsMatch ==
    ASSUME NEW t \in Seq(Nat), NEW i \in 1..Len(t)
    PROVE  PieceEnd(t, i) = PatternEnd(t, i)
<1> DEFINE tail == IF i < Len(t) THEN Lower(t[i + 1]) ELSE 0
           tail2 == IF i + 1 < Len(t) THEN Lower(t[i + 2]) ELSE 0
           marks == PunctuationOf(t)
           long == t[i] = Apostrophe /\ <<tail, tail2>> \in Contractions2
           short == t[i] = Apostrophe /\ tail \in Contractions1
           word == WordFrom(t, i)
           mark == MarkFrom(t, i)
<1>1. PieceEnd(t, i) =
        IF long THEN i + 3
        ELSE IF short THEN i + 2
        ELSE IF At(t, word, Letters) THEN RunEnd(t, word, Letters)
        ELSE IF t[i] \in Numbers THEN Min({RunEnd(t, i, Numbers), i + 3})
        ELSE IF At(t, mark, marks) THEN RunEnd(t, RunEnd(t, mark, marks), Newlines)
        ELSE IF t[i] \in Whitespace THEN SpaceEnd(t, i)
        ELSE i + 1
  BY DEF PieceEnd, WordFrom, MarkFrom
<1>2. long <=> /\ t[i] = Apostrophe /\ i + 1 < Len(t)
               /\ <<Lower(t[i + 1]), Lower(t[i + 2])>> \in Contractions2
  <2>1. CASE i + 1 < Len(t)
    <3>1. tail = Lower(t[i + 1]) /\ tail2 = Lower(t[i + 2])
      BY <2>1
    <3>2. QED
      BY <2>1, <3>1
  <2>2. CASE ~(i + 1 < Len(t))
    <3>1. tail2 = 0
      BY <2>2
    <3>2. \A x : <<x, 0>> \notin Contractions2
      BY DEF Contractions2
    <3>3. QED
      BY <2>2, <3>1, <3>2
  <2>3. QED
    BY <2>1, <2>2
<1>3. short <=> t[i] = Apostrophe /\ i < Len(t) /\ Lower(t[i + 1]) \in Contractions1
  <2>1. 0 \notin Contractions1
    BY DEF Contractions1
  <2>2. QED
    BY <2>1
<1> HIDE DEF long, short, word, mark, marks
<1>4. CASE long
  BY <1>1, <1>2, <1>4, LongContraction
<1>5. CASE ~long /\ short
  BY <1>1, <1>2, <1>3, <1>5, ShortContraction
<1>6. CASE ~long /\ ~short
  <2>1. MatchEnds(1, t, i) = {}
    BY <1>2, <1>3, <1>6, NoContraction
  <2>2. CASE At(t, word, Letters)
    BY <1>1, <1>6, <2>1, <2>2, WordMatch DEF word
  <2>3. CASE ~At(t, word, Letters)
    <3>1. MatchEnds(2, t, i) = {} /\ t[i] \notin Letters
      BY <2>3, NoWord DEF word
    <3>2. CASE t[i] \in Numbers
      BY <1>1, <1>6, <2>1, <2>3, <3>1, <3>2, NumberMatch
    <3>3. CASE t[i] \notin Numbers
      <4>1. MatchEnds(3, t, i) = {}
        BY <3>3, NoNumber
      <4>2. CASE At(t, mark, marks)
        BY <1>1, <1>6, <2>1, <2>3, <3>1, <3>3, <4>1, <4>2, MarkMatch DEF mark, marks
      <4>3. CASE ~At(t, mark, marks)
        <5>1. MatchEnds(4, t, i) = {}
          BY <4>3, NoMark DEF mark, marks
        <5>2. t[i] \in Whitespace
          <6>1. CASE mark = i
            <7>1. t[i] \notin Marks
              BY <4>3, <6>1, MarksOf DEF At, marks
            <7>2. t[i] \in Nat
              OBVIOUS
            <7>3. QED
              BY <3>1, <3>3, <7>1, <7>2 DEF Marks
          <6>2. CASE mark # i
            BY <6>2, ByteBpeAssumption DEF mark, MarkFrom
          <6>3. QED
            BY <6>1, <6>2
        <5>3. \A l \in 1..4 : MatchEnds(l, t, i) = {}
          <6>1. \A l \in 1..4 : l = 1 \/ l = 2 \/ l = 3 \/ l = 4
            OBVIOUS
          <6>2. QED
            BY <2>1, <3>1, <4>1, <5>1, <6>1
        <5>4. PatternEnd(t, i) = SpaceEnd(t, i)
          BY <5>2, <5>3, SpaceMatch
        <5>5. QED
          BY <1>1, <1>6, <2>3, <3>3, <4>3, <5>2, <5>4
      <4>4. QED
        BY <4>2, <4>3
    <3>4. QED
      BY <3>2, <3>3
  <2>4. QED
    BY <2>2, <2>3
<1>7. QED
  BY <1>4, <1>5, <1>6

\* Both cut a text at the same places.
LEMMA PiecesAreMatches ==
    ASSUME NEW t \in Seq(Nat)
    PROVE  Pretokens(t) = PatternPieces(t)
<1>1. [i \in DOMAIN t |-> PieceEnd(t, i)] = [i \in DOMAIN t |-> PatternEnd(t, i)]
  BY PieceIsMatch
<1>2. QED
  BY <1>1 DEF Pretokens, PatternPieces

\* The file is one of the files, and the text has only characters.
Encoding ==
    /\ file \in DOMAIN TokenizerFiles
    /\ text \in Seq(Nat)

\* pretoken_ranges is the pattern of the GPT-2 family for every text and whatever characters
\* are letters, numbers and whitespace: in each piece the scanner applies the first alternative
\* that matches and takes its longest match, and no character is left for the branch
\* behind them all.
THEOREM ScannerIsPattern == TokenizationSpec => []PiecesMatchPattern
<1>1. TokenizationInit => Encoding
  BY DEF TokenizationInit, Encoding
<1>2. Encoding /\ [TokenizationNext]_tokenizationVars => Encoding'
  <2> SUFFICES ASSUME Encoding, [TokenizationNext]_tokenizationVars PROVE Encoding'
    OBVIOUS
  <2>1. CASE Build
    BY <2>1 DEF Encoding, Build
  <2>2. CASE Lengthen
    <3>1. PICK c \in Alphabet[Family] : text' = Append(text, c)
      BY <2>2 DEF Lengthen
    <3>2. c \in Nat
      BY <3>1, TokenizationAssumption DEF Encoding, Family
    <3>3. QED
      BY <2>2, <3>1, <3>2 DEF Encoding, Lengthen
  <2>3. CASE UNCHANGED tokenizationVars
    BY <2>3 DEF Encoding, tokenizationVars
  <2>4. QED
    BY <2>1, <2>2, <2>3 DEF TokenizationNext
<1>3. Encoding => PiecesMatchPattern
  BY PiecesAreMatches DEF Encoding, PiecesMatchPattern
<1>4. QED
  BY <1>1, <1>2, <1>3, PTL DEF TokenizationSpec
=============================================================================
