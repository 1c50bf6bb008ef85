------------------------- MODULE ModelSessionProofs -------------------------
(***************************************************************************)
(* Proofs about the sessions of a model: what a resident session of any    *)
(* family holds, for every vocabulary, context length and schedule of      *)
(* layers, and which sessions stay resident, for every set of session      *)
(* names, every limit and every number of requests.                        *)
(***************************************************************************)
EXTENDS ModelSession, SessionPool, SessionLruProofs, SequenceTheorems,
        WellFoundedInduction, TLAPS

(***************************************************************************)
(* Where a turn stands.  While a prompt is read, the session holds a       *)
(* proper prefix of it; afterwards the prompt with what was generated.     *)
(***************************************************************************)
Reading ==
    phase = "prefill" =>
        /\ Len(tokens) < Len(prompt)
        /\ tokens = SubSeq(prompt, 1, Len(tokens))
        /\ Len(prompt) + limit <= MaxContext
        /\ made = <<>> /\ limit # 0

Answering ==
    phase = "decode" =>
        /\ tokens = prompt \o made
        /\ logits = tokens /\ current = tokens
        /\ Len(prompt) + limit <= MaxContext
        /\ Len(made) < limit

\* In a session that can be cut back, the prefix that a failing turn returns to is still
\* there, and the logits kept for it are its own.
Returnable ==
    phase # "idle" =>
        /\ reusable \in 0..Len(tokens)
        /\ stable \in {Nothing, SubSeq(tokens, 1, reusable)}

KvInv ==
    /\ TurnTypeOK
    /\ phase = "idle" => logits \in {Nothing, tokens}
    /\ Reading /\ Answering
    /\ Returnable
-----------------------------------------------------------------------------
\* Gemma: every layer stands at the end of the tokens and has, below it, the entries of
\* exactly these tokens.  So it is as long as no ring is shorter than the context.
RingsCover == \A l \in DOMAIN Capacity : Capacity[l] = MaxContext

RingsFollow ==
    /\ pos = [l \in DOMAIN Capacity |-> Len(tokens)]
    /\ ring \in [DOMAIN Capacity -> [0..(MaxContext - 1) -> Contexts]]
    /\ \A l \in DOMAIN Capacity, q \in 0..(Len(tokens) - 1) :
          ring[l][q] = SubSeq(tokens, 1, q + 1)

GemmaInv == KvInv /\ RingsFollow

\* GLM-5.2: the caches and the history are those of the tokens.  A schedule that starts
\* with a shared layer serves histories of at most TopK tokens.
Choice(s) == IF Len(s) <= TopK THEN Nothing ELSE s

CachesFollow ==
    /\ latent = [l \in Glm!Layers |-> tokens]
    /\ keys = [l \in Glm!Layers |-> IF l \in Glm!Full THEN tokens ELSE <<>>]
    /\ history = [n \in 1..Len(tokens) |-> Choice(SubSeq(tokens, 1, n))]
    /\ selection = Choice(tokens)
    /\ 1 \in Glm!Full \/ Len(tokens) <= TopK

GlmInv == KvInv /\ CachesFollow

\* Qwen: the state of every layer has absorbed exactly the tokens, and their logits are there.
LayersFollow ==
    /\ position = Len(tokens)
    /\ absorbed = [l \in Qwen!Layers |-> tokens]

QwenInv ==
    /\ TurnTypeOK
    /\ phase = "idle" => logits = tokens
    /\ Reading /\ Answering
    /\ LayersFollow
    /\ NeverMissingLogits

Inv ==
    /\ architecture \in {"gemma4", "glm_moe_dsa", "qwen35"}
    /\ architecture = "gemma4" /\ RingsCover => GemmaInv
    /\ architecture = "glm_moe_dsa" => GlmInv
    /\ architecture = "qwen35" => QwenInv
-----------------------------------------------------------------------------
\* A set of natural numbers that is bounded has a maximum.
LEMMA HasMaximum ==
    ASSUME NEW S \in SUBSET Nat, S # {}, NEW b \in Nat, \A x \in S : x <= b
    PROVE  \E m \in S : \A x \in S : x <= m
<1> DEFINE D == {b - x : x \in S}
<1>1. D \in SUBSET Nat /\ D # {}
  <2>1. \A x \in S : b - x \in Nat
    OBVIOUS
  <2>2. QED
    BY <2>1
<1>2. \A x, y \in Nat : x < y => <<x, y>> \in OpToRel(<, Nat)
  BY DEF OpToRel
<1> HIDE DEF D
<1>3. PICK d \in D : \A y \in D : ~ (<<y, d>> \in OpToRel(<, Nat))
  BY <1>1, NatLessThanWellFounded, WFMin
<1>4. \A y \in D : ~ (y < d)
  BY <1>1, <1>2, <1>3
<1>5. PICK m \in S : d = b - m
  BY DEF D
<1>6. \A x \in S : b - x \in D
  BY DEF D
<1>7. \A x \in S : ~ (b - x < b - m)
  BY <1>4, <1>5, <1>6
<1>8. \A x \in S : x <= m
  BY <1>7
<1>9. QED
  BY <1>8

\* A context is a sequence of tokens that fits.
LEMMA ContextsAreSequences ==
    \A s : s \in Contexts <=> s \in Seq(Tokens) /\ Len(s) <= MaxContext
<1>1. MaxContext \in Nat
  BY TurnAssumption
<1>2. ASSUME NEW s \in Contexts PROVE s \in Seq(Tokens) /\ Len(s) <= MaxContext
  <2>1. PICK n \in 0..MaxContext : s \in [1..n -> Tokens]
    BY <1>2 DEF Contexts
  <2>2. s \in Seq(Tokens) /\ Len(s) = n
    BY <2>1, <1>1
  <2>3. QED
    BY <2>1, <2>2, <1>1
<1>3. ASSUME NEW s \in Seq(Tokens), Len(s) <= MaxContext PROVE s \in Contexts
  <2>1. Len(s) \in 0..MaxContext /\ s \in [1..Len(s) -> Tokens]
    BY <1>1, <1>3
  <2>2. QED
    BY <2>1 DEF Contexts
<1>4. QED
  BY <1>2, <1>3

\* The empty context exists.
LEMMA EmptyContext == <<>> \in Contexts
<1>1. <<>> \in Seq(Tokens) /\ Len(<<>>) <= MaxContext
  BY TurnAssumption
<1>2. QED
  BY <1>1, ContextsAreSequences

\* A token more is a context as long as there is room for it.
LEMMA LongerContext ==
    ASSUME NEW s \in Contexts, NEW t \in Tokens, Len(s) < MaxContext
    PROVE  Append(s, t) \in Contexts /\ Len(Append(s, t)) = Len(s) + 1
<1>1. s \in Seq(Tokens)
  BY ContextsAreSequences
<1>2. Append(s, t) \in Seq(Tokens) /\ Len(Append(s, t)) = Len(s) + 1
  BY <1>1
<1>3. Len(s) + 1 <= MaxContext
  BY <1>1, TurnAssumption
<1>4. Len(Append(s, t)) <= MaxContext
  BY <1>2, <1>3
<1>5. QED
  BY <1>2, <1>4, ContextsAreSequences

\* A prefix of a context is a context, and its own prefixes are prefixes of the whole.
LEMMA ShorterContext ==
    ASSUME NEW s \in Contexts, NEW k \in 0..Len(s)
    PROVE  /\ SubSeq(s, 1, k) \in Contexts /\ Len(SubSeq(s, 1, k)) = k
           /\ \A n \in 0..k : SubSeq(SubSeq(s, 1, k), 1, n) = SubSeq(s, 1, n)
<1>1. s \in Seq(Tokens) /\ Len(s) \in Nat /\ Len(s) <= MaxContext /\ MaxContext \in Nat
  BY ContextsAreSequences, TurnAssumption
<1>2. SubSeq(s, 1, k) \in Seq(Tokens) /\ Len(SubSeq(s, 1, k)) = k
  BY <1>1
<1>3. SubSeq(s, 1, k) \in Contexts
  <2>1. k <= MaxContext
    BY <1>1
  <2>2. QED
    BY <1>2, <2>1, ContextsAreSequences
<1>4. ASSUME NEW n \in 0..k PROVE SubSeq(SubSeq(s, 1, k), 1, n) = SubSeq(s, 1, n)
  BY <1>1, <1>4
<1>5. QED
  BY <1>2, <1>3, <1>4

\* A token after a concatenation is a token after its second part.
LEMMA AppendToPart ==
    ASSUME NEW r \in Seq(Tokens), NEW s \in Seq(Tokens), NEW t \in Tokens
    PROVE  /\ Append(r \o s, t) = r \o Append(s, t)
           /\ Append(s, t) \in Seq(Tokens) /\ Len(Append(s, t)) = Len(s) + 1
OBVIOUS

\* common_prefix_length finds a length up to which both sequences agree.
LEMMA ReuseAgrees ==
    ASSUME NEW p \in Seq(Tokens), tokens \in Seq(Tokens)
    PROVE  /\ Reuse(p) \in Nat /\ Reuse(p) <= Len(tokens) /\ Reuse(p) <= Len(p)
           /\ SubSeq(tokens, 1, Reuse(p)) = SubSeq(p, 1, Reuse(p))
<1> DEFINE C == CommonPrefixes({tokens, p})
           L == LongestCommonPrefix({tokens, p})
<1>1. \A c \in C : /\ c \in Seq(Tokens)
                   /\ Len(c) <= Len(tokens) /\ Len(c) <= Len(p)
                   /\ SubSeq(c, 1, Len(c)) = SubSeq(tokens, 1, Len(c))
                   /\ SubSeq(c, 1, Len(c)) = SubSeq(p, 1, Len(c))
  BY DEF CommonPrefixes, Prefixes, IsPrefix
<1>2. SubSeq(tokens, 1, 0) \in C
  <2>1. SubSeq(tokens, 1, 0) \in Prefixes(tokens)
    BY DEF Prefixes
  <2>2. IsPrefix(SubSeq(tokens, 1, 0), tokens) /\ IsPrefix(SubSeq(tokens, 1, 0), p)
    BY DEF IsPrefix
  <2>3. QED
    BY <2>1, <2>2 DEF CommonPrefixes
<1>3. L = CHOOSE longest \in C : \A other \in C : Len(other) <= Len(longest)
  BY DEF LongestCommonPrefix
<1> HIDE DEF C, L
<1> DEFINE S == {Len(c) : c \in C}
<1>4. S \in SUBSET Nat /\ S # {} /\ (\A x \in S : x <= Len(p)) /\ Len(p) \in Nat
  <2>1. \A c \in C : Len(c) \in Nat /\ Len(c) <= Len(p)
    BY <1>1
  <2>2. C # {} /\ Len(p) \in Nat
    BY <1>2
  <2>3. QED
    BY <2>1, <2>2
<1>5. PICK m \in S : \A x \in S : x <= m
  BY <1>4, HasMaximum
<1>6. \E longest \in C : \A other \in C : Len(other) <= Len(longest)
  BY <1>5
<1>7. L \in C
  BY <1>3, <1>6
<1>8. Reuse(p) = Len(L)
  BY DEF Reuse, L
<1>9. QED
  BY <1>1, <1>7, <1>8-----------------------------------------------------------------------------
(***************************************************************************)
(* The control of a turn, for both families whose sessions can be cut      *)
(* back.  What the layers compute comes in as a hypothesis.                *)
(***************************************************************************)
\* A new session.
LEMMA KvInvInit == KvInit => KvInv
<1> SUFFICES ASSUME KvInit PROVE KvInv
  OBVIOUS
<1>1. TurnTypeOK
  BY EmptyContext, TurnAssumption DEF KvInit, TurnInit, TurnTypeOK, Nothing, Values
<1>2. QED
  BY <1>1 DEF KvInit, TurnInit, KvInv, Reading, Answering, Returnable, Nothing

\* Between two turns only the logits have to fit the tokens.
LEMMA KvIdle ==
    ASSUME tokens' \in Contexts, logits' \in {Nothing, tokens'}, KvOver,
           outcome' \in {"none", "complete", "failed", "missing_logits"}
    PROVE  KvInv'
<1>1. TurnTypeOK'
  BY EmptyContext, TurnAssumption DEF TurnTypeOK, KvOver, NoTurn, Nothing, Values
<1>2. QED
  BY <1>1 DEF KvOver, NoTurn, KvInv, Reading, Answering, Returnable

\* A request keeps the common prefix, and its logits when nothing is cut off.
LEMMA KvRequest ==
    ASSUME KvInv, NEW p \in Contexts, NEW n \in 1..MaxContext, Request(p, n),
           tokens' = SubSeq(tokens, 1, Reuse(p))
    PROVE  KvInv'
<1> USE TurnAssumption
<1>1. /\ tokens \in Seq(Tokens) /\ tokens \in Contexts /\ logits \in {Nothing, tokens}
      /\ p \in Seq(Tokens) /\ p # <<>> /\ Len(p) + n <= MaxContext
      /\ logits' = Stable(p)
  BY ContextsAreSequences DEF KvInv, TurnTypeOK, Request, Admissible
<1> DEFINE k == Reuse(p)
<1>2. /\ k \in Nat /\ k <= Len(tokens) /\ k <= Len(p)
      /\ SubSeq(tokens, 1, k) = SubSeq(p, 1, k)
  BY <1>1, ReuseAgrees
<1>3. tokens' \in Contexts /\ tokens' \in Seq(Tokens) /\ Len(tokens') = k
  <2>1. k \in 0..Len(tokens)
    BY <1>1, <1>2
  <2>2. QED
    BY <1>1, <2>1, ShorterContext, ContextsAreSequences
<1>4. k = Len(tokens) => tokens' = tokens
  BY <1>1
<1>5. k = Len(p) => tokens' = p
  BY <1>1, <1>2
<1>6. Stable(p) \in {Nothing, tokens'}
  BY <1>1, <1>4 DEF Stable
<1>7. CASE Missing(p) /\ KvOver /\ outcome' = "missing_logits"
  BY <1>1, <1>3, <1>6, <1>7, KvIdle
<1>8. CASE ~ Missing(p) /\ StartTurn(p, n)
  <2>1. /\ prompt' = p /\ limit' = n /\ reusable' = k /\ stable' = Stable(p)
        /\ current' = (IF k = Len(p) THEN Stable(p) ELSE Nothing)
        /\ phase' = (IF k = Len(p) THEN "decode" ELSE "prefill")
        /\ made' = <<>> /\ outcome' = "none"
    BY <1>8 DEF StartTurn
  <2>2. k = Len(p) => Stable(p) = tokens'
    BY <1>6, <1>8 DEF Missing
  <2>3. stable' \in {Nothing, SubSeq(tokens', 1, reusable')} /\ reusable' \in 0..Len(tokens')
    <3>1. SubSeq(tokens', 1, k) = tokens'
      BY <1>3
    <3>2. QED
      BY <1>2, <1>3, <1>6, <2>1, <3>1
  <2>4. TurnTypeOK'
    <3>1. Stable(p) \in Values /\ Nothing \in Values
      BY <1>3, <1>6, EmptyContext DEF Values, Nothing
    <3>2. logits' \in Values /\ current' \in Values
      BY <1>1, <2>1, <3>1
    <3>3. limit' \in 0..MaxContext
      BY <2>1
    <3>4. phase' \in {"idle", "prefill", "decode"} /\ prompt' \in Contexts /\ made' \in Contexts
      BY <2>1, EmptyContext
    <3>5. QED
      BY <1>3, <2>1, <3>2, <3>3, <3>4 DEF TurnTypeOK
  <2>5. Reading'
    BY <1>1, <1>2, <1>3, <2>1 DEF Reading
  <2>6. Answering'
    BY <1>1, <1>5, <2>1, <2>2 DEF Answering
  <2>7. QED
    BY <2>1, <2>3, <2>4, <2>5, <2>6 DEF KvInv, Returnable
<1>9. QED
  BY <1>7, <1>8 DEF Request

\* A prefix that a turn may return to outlives another token.
LEMMA StillReturnable ==
    ASSUME KvInv, phase # "idle", NEW t \in Tokens, tokens' = Append(tokens, t),
           UNCHANGED <<reusable, stable>>
    PROVE  Returnable'
<1>1. tokens \in Seq(Tokens) /\ reusable \in 0..Len(tokens)
      /\ stable \in {Nothing, SubSeq(tokens, 1, reusable)}
  BY ContextsAreSequences DEF KvInv, TurnTypeOK, Returnable
<1>2. Len(tokens') = Len(tokens) + 1 /\ SubSeq(tokens', 1, reusable) = SubSeq(tokens, 1, reusable)
  BY <1>1
<1>3. reusable \in 0..Len(tokens')
  BY <1>1, <1>2
<1>4. QED
  BY <1>1, <1>2, <1>3 DEF Returnable

\* What a session that reads its prompt knows about the next token.
LEMMA NextPromptToken ==
    ASSUME TurnTypeOK, Reading, phase = "prefill"
    PROVE  /\ tokens \in Seq(Tokens) /\ prompt \in Seq(Tokens) /\ limit \in Nat
           /\ Len(tokens) < Len(prompt) /\ Len(tokens) < MaxContext
           /\ Len(prompt) + limit <= MaxContext /\ limit # 0 /\ made = <<>>
           /\ prompt[Len(tokens) + 1] \in Tokens
           /\ Append(tokens, prompt[Len(tokens) + 1]) \in Contexts
           /\ Append(tokens, prompt[Len(tokens) + 1]) = SubSeq(prompt, 1, Len(tokens) + 1)
<1> USE TurnAssumption
<1>1. /\ prompt \in Seq(Tokens) /\ tokens \in Seq(Tokens) /\ limit \in Nat
      /\ Len(tokens) < Len(prompt) /\ tokens = SubSeq(prompt, 1, Len(tokens))
      /\ Len(prompt) + limit <= MaxContext /\ made = <<>> /\ limit # 0
      /\ tokens \in Contexts
  BY ContextsAreSequences DEF TurnTypeOK, Reading
<1>2. prompt[Len(tokens) + 1] \in Tokens /\ Len(tokens) < MaxContext
  BY <1>1
<1>3. Append(tokens, prompt[Len(tokens) + 1]) = SubSeq(prompt, 1, Len(tokens) + 1)
  BY <1>1
<1>4. QED
  BY <1>1, <1>2, <1>3, LongerContext

\* A prompt token is read: the session stays a prefix of the prompt, and is all of it with
\* the last one, whose logits are kept.
LEMMA ReadingGoesOn ==
    ASSUME TurnTypeOK, Reading, phase = "prefill",
           tokens' = Append(tokens, prompt[Len(tokens) + 1]),
           logits' \in {Nothing, tokens'},
           current' = IF Len(tokens) + 1 = Len(prompt) THEN logits' ELSE Nothing,
           Len(tokens) + 1 = Len(prompt) => logits' = tokens',
           phase' = IF Len(tokens) + 1 = Len(prompt) THEN "decode" ELSE "prefill",
           UNCHANGED <<prompt, limit, made, outcome>>
    PROVE  TurnTypeOK' /\ Reading' /\ Answering'
<1> USE TurnAssumption
<1>1. /\ tokens \in Seq(Tokens) /\ prompt \in Seq(Tokens) /\ limit \in Nat
      /\ Len(tokens) < Len(prompt) /\ limit # 0 /\ made = <<>>
      /\ Len(prompt) + limit <= MaxContext
      /\ prompt[Len(tokens) + 1] \in Tokens
      /\ tokens' \in Contexts /\ tokens' = SubSeq(prompt, 1, Len(tokens) + 1)
  BY NextPromptToken
<1>2. tokens' \in Seq(Tokens) /\ Len(tokens') = Len(tokens) + 1
  BY <1>1
<1>3. Len(tokens) + 1 = Len(prompt) => tokens' = prompt
  BY <1>1
<1>4. TurnTypeOK'
  BY <1>1, EmptyContext DEF TurnTypeOK, Values, Nothing
<1>5. Reading'
  BY <1>1, <1>2 DEF Reading
<1>6. Answering'
  BY <1>1, <1>3 DEF Answering
<1>7. QED
  BY <1>4, <1>5, <1>6

\* There is room for a token that is fed back.
LEMMA RoomToAnswer ==
    ASSUME TurnTypeOK, Answering, phase = "decode", Len(made) + 1 < limit
    PROVE  /\ tokens \in Seq(Tokens) /\ prompt \in Seq(Tokens) /\ made \in Seq(Tokens)
           /\ limit \in Nat /\ tokens = prompt \o made
           /\ Len(prompt) + limit <= MaxContext /\ Len(tokens) < MaxContext
<1> USE TurnAssumption
<1>1. /\ prompt \in Seq(Tokens) /\ made \in Seq(Tokens) /\ limit \in Nat
      /\ tokens \in Seq(Tokens) /\ tokens = prompt \o made
      /\ Len(prompt) + limit <= MaxContext
  BY ContextsAreSequences DEF TurnTypeOK, Answering
<1>2. Len(tokens) = Len(prompt) + Len(made)
  BY <1>1
<1>3. Len(tokens) < MaxContext
  BY <1>1, <1>2
<1>4. QED
  BY <1>1, <1>3

\* A generated token that is fed back extends the session and its logits.
LEMMA AnsweringGoesOn ==
    ASSUME TurnTypeOK, Answering, phase = "decode", Len(made) + 1 < limit,
           NEW t \in Tokens, tokens' = Append(tokens, t), made' = Append(made, t),
           logits' = tokens', current' = logits',
           UNCHANGED <<phase, prompt, limit, outcome>>
    PROVE  TurnTypeOK' /\ Reading' /\ Answering'
<1> USE TurnAssumption
<1>1. /\ prompt \in Seq(Tokens) /\ made \in Seq(Tokens) /\ limit \in Nat
      /\ tokens = prompt \o made /\ Len(tokens) < MaxContext
      /\ Len(prompt) + limit <= MaxContext
  BY RoomToAnswer
<1>2. /\ tokens' = prompt \o made'
      /\ made' \in Seq(Tokens) /\ Len(made') = Len(made) + 1
  BY <1>1, AppendToPart
<1>3. tokens' \in Contexts
  BY <1>1, LongerContext DEF TurnTypeOK
<1>4. made' \in Contexts
  <2>1. Len(made') <= MaxContext
    BY <1>1, <1>2
  <2>2. QED
    BY <1>2, <2>1, ContextsAreSequences
<1>5. TurnTypeOK'
  BY <1>3, <1>4 DEF TurnTypeOK, Values
<1>6. Reading'
  BY DEF Reading
<1>7. Answering'
  <2>1. Len(made') < limit
    BY <1>1, <1>2
  <2>2. QED
    BY <1>1, <1>2, <2>1 DEF Answering
<1>8. QED
  BY <1>5, <1>6, <1>7

\* A failing turn returns to the common prefix and the logits kept for it.
LEMMA KvRollback ==
    ASSUME KvInv, phase # "idle", tokens' = SubSeq(tokens, 1, reusable), logits' = stable,
           KvOver, outcome' = "failed"
    PROVE  KvInv'
<1>1. reusable \in 0..Len(tokens) /\ tokens \in Contexts /\ logits' \in {Nothing, tokens'}
  BY DEF KvInv, TurnTypeOK, Returnable
<1>2. tokens' \in Contexts
  BY <1>1, ShorterContext
<1>3. QED
  BY <1>1, <1>2, KvIdle

\* A turn that ends leaves the session with its tokens and their logits.
LEMMA KvFinish == ASSUME KvInv, Finish PROVE KvInv'
<1>1. tokens' \in Contexts /\ logits' \in {Nothing, tokens'}
  BY DEF KvInv, TurnTypeOK, Answering, Finish
<1>2. QED
  BY <1>1, KvIdle DEF Finish-----------------------------------------------------------------------------
(***************************************************************************)
(* Gemma.                                                                  *)
(***************************************************************************)
\* The turns of Gemma are those of KvTurn.
LEMMA GemmaTurns ==
    /\ Gemma!KvInit => KvInit
    /\ \A p : Gemma!Reuse(p) = Reuse(p)
    /\ \A p, n : Gemma!Request(p, n) => Request(p, n)
    /\ Gemma!Finish => Finish
    /\ Gemma!KvOver => KvOver
    /\ Gemma!Contexts = Contexts
<1>1. \A p : Gemma!Reuse(p) = Reuse(p)
  BY DEF Gemma!Reuse, Reuse, Gemma!LongestCommonPrefix, LongestCommonPrefix,
         Gemma!CommonPrefixes, CommonPrefixes, Gemma!Prefixes, Prefixes,
         Gemma!IsPrefix, IsPrefix
<1>2. Gemma!KvOver <=> KvOver
  BY DEF Gemma!KvOver, KvOver, Gemma!NoTurn, NoTurn, Gemma!Nothing, Nothing
<1>3. ASSUME NEW p, NEW n, Gemma!Request(p, n) PROVE Request(p, n)
  BY <1>1, <1>2, <1>3
  DEF Gemma!Request, Request, Gemma!Missing, Missing, Gemma!StartTurn, StartTurn,
      Gemma!Stable, Stable, Gemma!Admissible, Admissible, Gemma!Nothing, Nothing
<1>4. Gemma!KvInit => KvInit
  BY DEF Gemma!KvInit, KvInit, Gemma!TurnInit, TurnInit, Gemma!Nothing, Nothing
<1>5. Gemma!Finish => Finish
  BY <1>2 DEF Gemma!Finish, Finish
<1>6. Gemma!Contexts = Contexts
  BY DEF Gemma!Contexts, Contexts
<1>7. QED
  BY <1>1, <1>2, <1>3, <1>4, <1>5, <1>6

\* A position below the capacity is its own slot.
LEMMA OwnSlot ==
    ASSUME NEW l \in DOMAIN Capacity, RingsCover, NEW q \in 0..(MaxContext - 1)
    PROVE  Gemma!Slot(l, q) = q
<1>1. MaxContext \in Nat /\ q \in Nat /\ q < MaxContext
  BY TurnAssumption
<1>2. q % MaxContext = q
  BY <1>1
<1>3. QED
  BY <1>2 DEF Gemma!Slot, RingsCover

\* A new cache.
LEMMA RingsInit == RingsCover /\ Gemma!Init => RingsFollow
<1> SUFFICES ASSUME RingsCover, Gemma!Init PROVE RingsFollow
  OBVIOUS
<1>1. tokens = <<>> /\ pos = [l \in DOMAIN Capacity |-> 0]
      /\ ring = [l \in DOMAIN Capacity |-> [s \in 0..(Capacity[l] - 1) |-> <<>>]]
  BY DEF Gemma!Init, Gemma!KvInit, Gemma!TurnInit, Gemma!Layers, Gemma!Nothing
<1>2. ring \in [DOMAIN Capacity -> [0..(MaxContext - 1) -> Contexts]]
  BY <1>1, EmptyContext DEF RingsCover
<1>3. Len(tokens) = 0
  BY <1>1
<1>4. QED
  BY <1>1, <1>2, <1>3 DEF RingsFollow

\* A cache that follows the tokens follows every prefix of them.
LEMMA RingsCut ==
    ASSUME TurnTypeOK, RingsFollow, NEW k \in 0..Len(tokens),
           pos' = Gemma!Truncated(pos, k), tokens' = SubSeq(tokens, 1, k),
           ring' \in [DOMAIN Capacity -> [0..(MaxContext - 1) -> Contexts]],
           \A l \in DOMAIN Capacity, q \in 0..(k - 1) : ring'[l][q] = ring[l][q]
    PROVE  RingsFollow'
<1>1. tokens \in Contexts /\ tokens \in Seq(Tokens) /\ Len(tokens) \in Nat
  BY ContextsAreSequences DEF TurnTypeOK
<1>2. Len(tokens') = k /\ \A n \in 0..k : SubSeq(tokens', 1, n) = SubSeq(tokens, 1, n)
  BY <1>1, ShorterContext
<1>3. pos' = [l \in DOMAIN Capacity |-> k]
  <2>1. \A l \in DOMAIN Capacity : pos[l] = Len(tokens)
    BY DEF RingsFollow
  <2>2. \A l \in DOMAIN Capacity : (IF k < pos[l] THEN k ELSE pos[l]) = k
    BY <1>1, <2>1
  <2>3. QED
    BY <2>2 DEF Gemma!Truncated, Gemma!Layers
<1>4. ASSUME NEW l \in DOMAIN Capacity, NEW q \in 0..(k - 1)
      PROVE  ring'[l][q] = SubSeq(tokens', 1, q + 1)
  <2>1. q \in 0..(Len(tokens) - 1) /\ q + 1 \in 0..k
    BY <1>1
  <2>2. QED
    BY <1>2, <2>1 DEF RingsFollow
<1>5. QED
  BY <1>2, <1>3, <1>4 DEF RingsFollow
\* Attention reads entries of the session's own tokens: what a pass computes is their context.
LEMMA RingsIntact ==
    ASSUME TurnTypeOK, RingsCover, RingsFollow, Len(tokens) < MaxContext, NEW t \in Tokens
    PROVE  Gemma!Computed(t) = Append(tokens, t) /\ Append(tokens, t) \in Contexts
<1>1. tokens \in Contexts /\ Len(tokens) \in Nat /\ MaxContext \in Nat
  BY ContextsAreSequences, TurnAssumption DEF TurnTypeOK
<1>2. ASSUME NEW l \in DOMAIN Capacity PROVE Gemma!Intact(l, Len(tokens))
  <2>1. Capacity[l] = MaxContext
    BY DEF RingsCover
  <2>2. Gemma!Window(l, Len(tokens)) \subseteq 0..(Len(tokens) - 1)
    BY <1>1, <2>1 DEF Gemma!Window
  <2>3. ASSUME NEW q \in Gemma!Window(l, Len(tokens))
        PROVE  ring[l][Gemma!Slot(l, q)] = SubSeq(tokens, 1, q + 1)
    <3>1. q \in 0..(Len(tokens) - 1)
      BY <2>2
    <3>2. q \in 0..(MaxContext - 1)
      BY <1>1, <3>1
    <3>3. Gemma!Slot(l, q) = q
      BY <3>2, OwnSlot
    <3>4. QED
      BY <3>1, <3>3 DEF RingsFollow
  <2>4. QED
    BY <2>3 DEF Gemma!Intact
<1>3. Gemma!Computed(t) = Append(tokens, t)
  BY <1>2 DEF Gemma!Computed, Gemma!Layers
<1>4. QED
  BY <1>1, <1>3, LongerContext

\* The layers that were reached have the new entry behind the others, which stay.
LEMMA RingsAppended ==
    ASSUME TurnTypeOK, RingsCover, RingsFollow, Len(tokens) < MaxContext,
           NEW entry \in Contexts, NEW upto, ring' = Gemma!Appended(entry, upto)
    PROVE  /\ ring' \in [DOMAIN Capacity -> [0..(MaxContext - 1) -> Contexts]]
           /\ \A l \in DOMAIN Capacity, q \in 0..(Len(tokens) - 1) : ring'[l][q] = ring[l][q]
           /\ \A l \in DOMAIN Capacity : l <= upto => ring'[l][Len(tokens)] = entry
<1>1. Len(tokens) \in 0..(MaxContext - 1) /\ MaxContext \in Nat
  BY ContextsAreSequences, TurnAssumption DEF TurnTypeOK
<1>2. \A l \in DOMAIN Capacity : Gemma!Slot(l, pos[l]) = Len(tokens)
  BY <1>1, OwnSlot DEF RingsFollow
<1>3. \A l \in DOMAIN Capacity :
          /\ ring[l] \in [0..(MaxContext - 1) -> Contexts]
          /\ ring'[l] = IF l <= upto THEN [ring[l] EXCEPT ![Len(tokens)] = entry] ELSE ring[l]
  BY <1>2 DEF Gemma!Appended, Gemma!Layers, RingsFollow
<1>4. \A l \in DOMAIN Capacity : ring'[l] \in [0..(MaxContext - 1) -> Contexts]
  BY <1>3
<1>5. ring' \in [DOMAIN Capacity -> [0..(MaxContext - 1) -> Contexts]]
  BY <1>4 DEF Gemma!Appended, Gemma!Layers
<1>6. \A l \in DOMAIN Capacity, q \in 0..(Len(tokens) - 1) : ring'[l][q] = ring[l][q]
  <2>1. \A q \in 0..(Len(tokens) - 1) : q \in 0..(MaxContext - 1) /\ q # Len(tokens)
    BY <1>1
  <2>2. QED
    BY <1>3, <2>1
<1>7. \A l \in DOMAIN Capacity : l <= upto => ring'[l][Len(tokens)] = entry
  BY <1>1, <1>3
<1>8. QED
  BY <1>5, <1>6, <1>7

\* A completed pass: the caches follow the longer history.
LEMMA RingsForward ==
    ASSUME TurnTypeOK, RingsCover, RingsFollow, Len(tokens) < MaxContext,
           NEW t \in Tokens, Gemma!Forward(t)
    PROVE  tokens' = Append(tokens, t) /\ RingsFollow'
<1>1. /\ tokens \in Seq(Tokens) /\ Len(tokens) \in Nat
      /\ tokens' = Append(tokens, t) /\ Len(tokens') = Len(tokens) + 1
      /\ \A n \in 0..Len(tokens) : SubSeq(tokens', 1, n) = SubSeq(tokens, 1, n)
      /\ SubSeq(tokens', 1, Len(tokens) + 1) = tokens'
  BY ContextsAreSequences DEF TurnTypeOK, Gemma!Forward
<1>2. Gemma!Computed(t) = tokens' /\ tokens' \in Contexts
  BY <1>1, RingsIntact
<1>3. ring' = Gemma!Appended(tokens', Len(Capacity)) /\ pos' = [l \in DOMAIN Capacity |-> pos[l] + 1]
  BY <1>2 DEF Gemma!Forward, Gemma!Layers
<1>4. \A l \in DOMAIN Capacity : l <= Len(Capacity)
  BY GemmaAssumption
<1>5. /\ ring' \in [DOMAIN Capacity -> [0..(MaxContext - 1) -> Contexts]]
      /\ \A l \in DOMAIN Capacity, q \in 0..(Len(tokens) - 1) : ring'[l][q] = ring[l][q]
      /\ \A l \in DOMAIN Capacity : ring'[l][Len(tokens)] = tokens'
  BY <1>2, <1>3, <1>4, RingsAppended
<1>6. pos' = [l \in DOMAIN Capacity |-> Len(tokens')]
  BY <1>1, <1>3 DEF RingsFollow
<1>7. ASSUME NEW l \in DOMAIN Capacity, NEW q \in 0..(Len(tokens') - 1)
      PROVE  ring'[l][q] = SubSeq(tokens', 1, q + 1)
  <2>1. CASE q = Len(tokens)
    BY <1>1, <1>5, <2>1
  <2>2. CASE q # Len(tokens)
    <3>1. q \in 0..(Len(tokens) - 1) /\ q + 1 \in 0..Len(tokens)
      BY <1>1, <2>2
    <3>2. QED
      BY <1>1, <1>5, <3>1 DEF RingsFollow
  <2>3. QED
    BY <2>1, <2>2
<1>8. QED
  BY <1>1, <1>5, <1>6, <1>7 DEF RingsFollow

\* The rollback of a turn, after whatever a failing pass appended.
LEMMA GemmaRollback ==
    ASSUME GemmaInv, phase # "idle", Gemma!Rollback,
           ring' \in [DOMAIN Capacity -> [0..(MaxContext - 1) -> Contexts]],
           \A l \in DOMAIN Capacity, q \in 0..(Len(tokens) - 1) : ring'[l][q] = ring[l][q]
    PROVE  GemmaInv'
<1>1. /\ pos' = Gemma!Truncated(pos, reusable) /\ tokens' = SubSeq(tokens, 1, reusable)
      /\ logits' = stable /\ KvOver /\ outcome' = "failed"
  BY GemmaTurns DEF Gemma!Rollback
<1>2. reusable \in 0..Len(tokens) /\ Len(tokens) \in Nat /\ TurnTypeOK /\ RingsFollow
  BY ContextsAreSequences DEF GemmaInv, KvInv, TurnTypeOK, Returnable
<1>3. \A l \in DOMAIN Capacity, q \in 0..(reusable - 1) : ring'[l][q] = ring[l][q]
  <2>1. \A q \in 0..(reusable - 1) : q \in 0..(Len(tokens) - 1)
    BY <1>2
  <2>2. QED
    BY <2>1
<1>4. RingsFollow'
  BY <1>1, <1>2, <1>3, RingsCut
<1>5. KvInv'
  BY <1>1, KvRollback DEF GemmaInv
<1>6. QED
  BY <1>4, <1>5 DEF GemmaInv

\* A pass that fails between two layers.
LEMMA GemmaFailureKeepsInv ==
    ASSUME GemmaInv, RingsCover, phase # "idle", Len(tokens) < MaxContext,
           NEW t \in Tokens, Gemma!ForwardFails(t)
    PROVE  GemmaInv'
<1>1. TurnTypeOK /\ RingsFollow
  BY DEF GemmaInv, KvInv
<1>2. Gemma!Computed(t) \in Contexts
  BY <1>1, RingsIntact
<1>3. PICK upto \in 0..Len(Capacity) : ring' = Gemma!Appended(Gemma!Computed(t), upto)
  BY DEF Gemma!ForwardFails
<1>4. Gemma!Rollback
  BY DEF Gemma!ForwardFails
<1>5. QED
  BY <1>1, <1>2, <1>3, <1>4, RingsAppended, GemmaRollback
\* Every step of a Gemma session keeps its invariant.
LEMMA GemmaStep == ASSUME RingsCover, GemmaInv, Gemma!Next PROVE GemmaInv'
<1>1. KvInv /\ TurnTypeOK /\ Reading /\ Answering /\ RingsFollow
  BY DEF GemmaInv, KvInv
<1>2. ASSUME NEW p \in Contexts, NEW n \in 1..MaxContext, Gemma!BeginTurn(p, n)
      PROVE  GemmaInv'
  <2>1. /\ Request(p, n) /\ tokens' = SubSeq(tokens, 1, Reuse(p))
        /\ pos' = Gemma!Truncated(pos, Reuse(p)) /\ ring' = ring
    BY <1>2, GemmaTurns DEF Gemma!BeginTurn
  <2>2. KvInv'
    BY <1>1, <2>1, KvRequest
  <2>3. Reuse(p) \in 0..Len(tokens)
    BY <1>1, ReuseAgrees, ContextsAreSequences DEF TurnTypeOK
  <2>4. RingsFollow'
    BY <1>1, <2>1, <2>3, RingsCut DEF RingsFollow
  <2>5. QED
    BY <2>2, <2>4 DEF GemmaInv
<1>3. CASE Gemma!Prefill
  <2> DEFINE t == prompt[Len(tokens) + 1]
  <2>1. /\ phase = "prefill" /\ Gemma!Forward(t)
        /\ logits' = IF Len(tokens) + 1 = Len(prompt)
                     THEN Gemma!Computed(prompt[Len(prompt)]) ELSE Nothing
        /\ current' = logits'
        /\ phase' = IF Len(tokens) + 1 = Len(prompt) THEN "decode" ELSE "prefill"
        /\ UNCHANGED <<prompt, limit, reusable, stable, made, outcome>>
    BY <1>3 DEF Gemma!Prefill, Gemma!request, Gemma!reuse, Gemma!Nothing, Nothing
  <2>2. t \in Tokens /\ Len(tokens) < MaxContext
    BY <1>1, <2>1, NextPromptToken
  <2>3. tokens' = Append(tokens, t) /\ RingsFollow'
    BY <1>1, <2>1, <2>2, RingsForward
  <2>4. Gemma!Computed(t) = tokens'
    BY <1>1, <2>2, <2>3, RingsIntact
  <2>5. Len(tokens) + 1 = Len(prompt) => logits' = tokens'
    BY <2>1, <2>4
  <2>6. /\ logits' \in {Nothing, tokens'}
        /\ current' = IF Len(tokens) + 1 = Len(prompt) THEN logits' ELSE Nothing
    BY <2>1, <2>5
  <2>7. TurnTypeOK' /\ Reading' /\ Answering'
    BY <1>1, <2>1, <2>3, <2>5, <2>6, ReadingGoesOn
  <2>8. Returnable'
    BY <1>1, <2>1, <2>2, <2>3, StillReturnable
  <2>9. QED
    BY <2>1, <2>3, <2>7, <2>8 DEF GemmaInv, KvInv
<1>4. CASE Gemma!PrefillFails
  <2>1. phase = "prefill" /\ Gemma!ForwardFails(prompt[Len(tokens) + 1])
    BY <1>4 DEF Gemma!PrefillFails
  <2>2. prompt[Len(tokens) + 1] \in Tokens /\ Len(tokens) < MaxContext
    BY <1>1, <2>1, NextPromptToken
  <2>3. QED
    BY <2>1, <2>2, GemmaFailureKeepsInv
<1>5. CASE Gemma!Decode
  <2>1. PICK t \in Tokens :
            Gemma!Forward(t) /\ made' = Append(made, t) /\ logits' = Gemma!Computed(t)
    BY <1>5 DEF Gemma!Decode
  <2>2. /\ phase = "decode" /\ Len(made) + 1 < limit /\ current' = logits'
        /\ UNCHANGED <<phase, prompt, limit, reusable, stable, outcome>>
    BY <1>5 DEF Gemma!Decode, Gemma!request, Gemma!reuse
  <2>3. Len(tokens) < MaxContext
    BY <1>1, <2>2, RoomToAnswer
  <2>4. tokens' = Append(tokens, t) /\ RingsFollow'
    BY <1>1, <2>1, <2>3, RingsForward
  <2>5. logits' = tokens'
    BY <1>1, <2>1, <2>3, <2>4, RingsIntact
  <2>6. TurnTypeOK' /\ Reading' /\ Answering'
    BY <1>1, <2>1, <2>2, <2>4, <2>5, AnsweringGoesOn
  <2>7. Returnable'
    BY <1>1, <2>2, <2>4, StillReturnable
  <2>8. QED
    BY <2>2, <2>4, <2>6, <2>7 DEF GemmaInv, KvInv
<1>6. CASE Gemma!DecodeFails
  <2>1. phase = "decode" /\ Len(made) + 1 < limit /\ \E t \in Tokens : Gemma!ForwardFails(t)
    BY <1>6 DEF Gemma!DecodeFails
  <2>2. Len(tokens) < MaxContext
    BY <1>1, <2>1, RoomToAnswer
  <2>3. QED
    BY <2>1, <2>2, GemmaFailureKeepsInv
<1>7. CASE Gemma!SelectFails
  <2>1. phase # "idle" /\ Gemma!Rollback /\ ring' = ring
    BY <1>7 DEF Gemma!SelectFails
  <2>2. QED
    BY <1>1, <2>1, GemmaRollback DEF RingsFollow
<1>8. CASE Gemma!EndTurn
  <2>1. Finish /\ UNCHANGED <<ring, pos, tokens>>
    BY <1>8, GemmaTurns DEF Gemma!EndTurn, Gemma!cacheVars, Finish
  <2>2. KvInv'
    BY <1>1, <2>1, KvFinish
  <2>3. QED
    BY <1>1, <2>1, <2>2 DEF GemmaInv, RingsFollow
<1>9. QED
  BY <1>2, <1>3, <1>4, <1>5, <1>6, <1>7, <1>8, GemmaTurns DEF Gemma!Next
-----------------------------------------------------------------------------
(***************************************************************************)
(* GLM-5.2.                                                                *)
(***************************************************************************)
\* The turns of GLM-5.2 are those of KvTurn.
LEMMA GlmTurns ==
    /\ Glm!KvInit => KvInit
    /\ \A p : Glm!Reuse(p) = Reuse(p)
    /\ \A p, n : Glm!Request(p, n) => Request(p, n)
    /\ Glm!Finish => Finish
    /\ Glm!KvOver => KvOver
    /\ Glm!Contexts = Contexts
<1>1. \A p : Glm!Reuse(p) = Reuse(p)
  BY DEF Glm!Reuse, Reuse, Glm!LongestCommonPrefix, LongestCommonPrefix,
         Glm!CommonPrefixes, CommonPrefixes, Glm!Prefixes, Prefixes,
         Glm!IsPrefix, IsPrefix
<1>2. Glm!KvOver <=> KvOver
  BY DEF Glm!KvOver, KvOver, Glm!NoTurn, NoTurn, Glm!Nothing, Nothing
<1>3. ASSUME NEW p, NEW n, Glm!Request(p, n) PROVE Request(p, n)
  BY <1>1, <1>2, <1>3
  DEF Glm!Request, Request, Glm!Missing, Missing, Glm!StartTurn, StartTurn,
      Glm!Stable, Stable, Glm!Admissible, Admissible, Glm!Nothing, Nothing
<1>4. Glm!KvInit => KvInit
  BY DEF Glm!KvInit, KvInit, Glm!TurnInit, TurnInit, Glm!Nothing, Nothing
<1>5. Glm!Finish => Finish
  BY <1>2 DEF Glm!Finish, Finish
<1>6. Glm!Contexts = Contexts
  BY DEF Glm!Contexts, Contexts
<1>7. QED
  BY <1>1, <1>2, <1>3, <1>4, <1>5, <1>6

\* New caches.
LEMMA CachesInit == Glm!Init => CachesFollow
<1> SUFFICES ASSUME Glm!Init PROVE CachesFollow
  OBVIOUS
<1>1. /\ tokens = <<>> /\ latent = [l \in Glm!Layers |-> <<>>]
      /\ keys = [l \in Glm!Layers |-> <<>>] /\ selection = <<>> /\ history = <<>>
  BY DEF Glm!Init, Glm!KvInit, Glm!TurnInit, Glm!Nothing
<1>2. Len(tokens) = 0 /\ 0 <= TopK
  BY <1>1, GlmAssumption
<1>3. selection = Choice(tokens) /\ history = [n \in 1..Len(tokens) |-> Choice(SubSeq(tokens, 1, n))]
  BY <1>1, <1>2 DEF Choice, Nothing
<1>4. QED
  BY <1>1, <1>2, <1>3 DEF CachesFollow

\* Some full layer is at or below a layer, or none is; then After is its choice, or what
\* the last token left.
LEMMA AfterChosen ==
    ASSUME NEW l \in Glm!Layers, NEW t
    PROVE  \/ \E f \in Glm!Full : f <= l /\ Glm!After(l, t) = Glm!Chosen(f, t)
           \/ Glm!After(l, t) = selection /\ ~ \E f \in Glm!Full : f <= l
<1>1. CASE ~ \E f \in Glm!Full : f <= l
  BY <1>1 DEF Glm!After
<1>2. CASE \E f \in Glm!Full : f <= l
  <2> DEFINE S == {f \in Glm!Full : f <= l}
             top == CHOOSE f \in Glm!Full : f <= l /\ \A g \in Glm!Full : g <= l => g <= f
  <2>1. Glm!Full \subseteq Nat /\ l \in Nat
    BY GlmAssumption DEF Glm!Full, Glm!Layers
  <2>2. PICK m \in S : \A x \in S : x <= m
    <3>1. S \in SUBSET Nat /\ S # {} /\ \A x \in S : x <= l
      BY <1>2, <2>1
    <3>2. QED
      BY <2>1, <3>1, HasMaximum
  <2>3. \E f \in Glm!Full : f <= l /\ \A g \in Glm!Full : g <= l => g <= f
    BY <2>2
  <2>4. top \in Glm!Full /\ top <= l
    BY <2>3
  <2>5. Glm!After(l, t) = Glm!Chosen(top, t)
    BY <1>2 DEF Glm!After
  <2>6. QED
    BY <2>4, <2>5
<1>3. QED
  BY <1>1, <1>2
\* What a full layer chooses: nothing while every position fits, then from all of them.
LEMMA FullLayersChoose ==
    ASSUME TurnTypeOK, CachesFollow, NEW f \in Glm!Full, NEW t \in Tokens
    PROVE  Glm!Chosen(f, t) = Choice(Append(tokens, t))
<1>1. keys[f] = tokens
  BY DEF CachesFollow, Glm!Full
<1>2. /\ tokens \in Seq(Tokens) /\ Len(tokens) \in Nat /\ TopK \in Nat
      /\ Len(Append(tokens, t)) = Len(tokens) + 1
  BY ContextsAreSequences, GlmAssumption DEF TurnTypeOK
<1>3. Len(tokens) < TopK <=> Len(Append(tokens, t)) <= TopK
  BY <1>2
<1>4. QED
  BY <1>1, <1>3 DEF Glm!Chosen, Choice, Glm!Nothing, Nothing

\* The layers of a model are numbered from 1.
LEMMA FirstLayer == 1 \in Glm!Layers /\ \A l \in Glm!Layers : l \in 1..Len(Kinds)
BY GlmAssumption DEF Glm!Layers

\* Where the first layer is full, every layer finds the choice of this very token.
LEMMA FirstFullServes ==
    ASSUME TurnTypeOK, CachesFollow, 1 \in Glm!Full, NEW l \in Glm!Layers, NEW t \in Tokens
    PROVE  Glm!After(l, t) = Choice(Append(tokens, t))
<1>1. 1 <= l
  BY FirstLayer
<1>2. PICK f \in Glm!Full : Glm!After(l, t) = Glm!Chosen(f, t)
  BY <1>1, AfterChosen
<1>3. QED
  BY <1>2, FullLayersChoose

\* So no layer of such a model lacks a choice.
LEMMA NoneLacks ==
    ASSUME TurnTypeOK, CachesFollow, 1 \in Glm!Full, NEW l \in Glm!Layers, NEW t \in Tokens
    PROVE  ~ Glm!Lacks(l, t)
<1>1. Glm!After(l, t) = Choice(Append(tokens, t))
  BY FirstFullServes
<1>2. tokens \in Seq(Tokens) /\ Len(Append(tokens, t)) = Len(tokens) + 1
  BY ContextsAreSequences DEF TurnTypeOK
<1>3. Append(tokens, t) # <<>>
  <2>1. Len(<<>>) = 0 /\ Len(tokens) + 1 # 0
    BY <1>2
  <2>2. QED
    BY <1>2, <2>1
<1>4. Len(tokens) + 1 > TopK => Glm!After(l, t) # <<>>
  BY <1>1, <1>2, <1>3, GlmAssumption DEF Choice
<1>5. QED
  BY <1>4 DEF Glm!Lacks, Glm!Nothing

\* A pass that reaches its end found the right choice in every layer, whatever the schedule;
\* one that starts with a shared layer ends only while attention is dense.
LEMMA EveryLayerServed ==
    ASSUME TurnTypeOK, CachesFollow, NEW t \in Tokens, \A l \in Glm!Layers : ~ Glm!Lacks(l, t)
    PROVE  /\ \A l \in Glm!Layers : Glm!After(l, t) = Choice(Append(tokens, t))
           /\ 1 \in Glm!Full \/ Len(tokens) + 1 <= TopK
<1>1. CASE 1 \in Glm!Full
  BY <1>1, FirstFullServes
<1>2. CASE 1 \notin Glm!Full
  <2>1. Len(tokens) <= TopK /\ selection = Nothing
    BY <1>2 DEF CachesFollow, Choice
  <2>2. ~ \E f \in Glm!Full : f <= 1
    <3>1. \A f \in Glm!Full : f \in Glm!Layers
      BY DEF Glm!Full
    <3>2. \A f \in Glm!Full : f \in Nat /\ f >= 1
      BY <3>1, FirstLayer
    <3>3. QED
      BY <1>2, <3>2
  <2>3. Glm!After(1, t) = Nothing
    BY <2>1, <2>2 DEF Glm!After
  <2>4. tokens \in Seq(Tokens) /\ Len(tokens) \in Nat /\ TopK \in Nat
        /\ Len(Append(tokens, t)) = Len(tokens) + 1
    BY ContextsAreSequences, GlmAssumption DEF TurnTypeOK
  <2>5. Len(tokens) + 1 <= TopK
    BY <1>2, <2>3, <2>4, FirstLayer DEF Glm!Lacks, Glm!Nothing, Nothing
  <2>6. Choice(Append(tokens, t)) = Nothing
    BY <2>4, <2>5 DEF Choice
  <2>7. \A l \in Glm!Layers : Glm!After(l, t) = Nothing
    BY <2>1, <2>6, AfterChosen, FullLayersChoose
  <2>8. QED
    BY <2>5, <2>6, <2>7
<1>3. QED
  BY <1>1, <1>2

\* A completed pass: caches and history follow, and the logits are those of the context.
LEMMA CachesForward ==
    ASSUME TurnTypeOK, CachesFollow, NEW t \in Tokens, Glm!Forward(t)
    PROVE  /\ tokens' = Append(tokens, t) /\ CachesFollow'
           /\ Glm!Computed(t) = Append(tokens, t)
<1>1. /\ tokens' = Append(tokens, t) /\ tokens \in Seq(Tokens) /\ tokens' \in Seq(Tokens)
      /\ Len(tokens) \in Nat /\ TopK \in Nat /\ Len(tokens') = Len(tokens) + 1
      /\ \A n \in 1..Len(tokens) : SubSeq(tokens', 1, n) = SubSeq(tokens, 1, n)
      /\ SubSeq(tokens', 1, Len(tokens')) = tokens'
  BY ContextsAreSequences, GlmAssumption DEF TurnTypeOK, Glm!Forward
<1>2. /\ \A l \in Glm!Layers : Glm!After(l, t) = Choice(tokens')
      /\ 1 \in Glm!Full \/ Len(tokens') <= TopK
  BY <1>1, EveryLayerServed DEF Glm!Forward
<1>3. Glm!Sound(t)
  <2>1. Choice(tokens') = IF Len(tokens) < TopK THEN <<>> ELSE Append(tokens, t)
    BY <1>1 DEF Choice, Nothing
  <2>2. \A l \in Glm!Layers : latent[l] = tokens
    BY DEF CachesFollow
  <2>3. QED
    BY <1>2, <2>1, <2>2 DEF Glm!Sound, Glm!Nothing
<1>4. Len(Kinds) \in Glm!Layers /\ \A l \in Glm!Layers : l <= Len(Kinds)
  BY GlmAssumption DEF Glm!Layers
<1>5. latent' = [l \in Glm!Layers |-> tokens']
  BY <1>1, <1>3, <1>4 DEF Glm!Forward, Glm!Pushed, CachesFollow
<1>6. keys' = [l \in Glm!Layers |-> IF l \in Glm!Full THEN tokens' ELSE <<>>]
  BY <1>1, <1>3, <1>4 DEF Glm!Forward, Glm!Pushed, CachesFollow
<1>7. selection' = Choice(tokens')
  BY <1>2, <1>4 DEF Glm!Forward
<1>8. history' = [n \in 1..Len(tokens') |-> Choice(SubSeq(tokens', 1, n))]
  <2>1. /\ history = [n \in 1..Len(tokens) |-> Choice(SubSeq(tokens, 1, n))]
        /\ history' = Append(history, Choice(tokens'))
    BY <1>7 DEF Glm!Forward, CachesFollow
  <2>2. Len(history) = Len(tokens) /\ DOMAIN history = 1..Len(tokens)
    BY <1>1, <2>1
  <2>3. history' = [n \in 1..(Len(tokens) + 1) |->
                      IF n = Len(tokens) + 1 THEN Choice(tokens') ELSE history[n]]
    BY <2>1, <2>2
  <2>4. \A n \in 1..(Len(tokens) + 1) :
          (IF n = Len(tokens) + 1 THEN Choice(tokens') ELSE history[n])
              = Choice(SubSeq(tokens', 1, n))
    <3>1. \A n \in 1..Len(tokens) : history[n] = Choice(SubSeq(tokens', 1, n))
      BY <1>1, <2>1
    <3>2. \A n \in 1..(Len(tokens) + 1) : n = Len(tokens') \/ n \in 1..Len(tokens)
      BY <1>1
    <3>3. QED
      BY <1>1, <3>1, <3>2
  <2>5. QED
    BY <1>1, <2>3, <2>4
<1>9. Glm!Computed(t) = Append(tokens, t)
  BY <1>3 DEF Glm!Computed
<1>10. QED
  BY <1>1, <1>2, <1>5, <1>6, <1>7, <1>8, <1>9 DEF CachesFollow
\* Vec::truncate to a length that is not longer.
LEMMA KeptPrefix ==
    ASSUME NEW S, NEW s \in Seq(S), NEW k \in 0..Len(s)
    PROVE  Glm!Kept(s, k) = SubSeq(s, 1, k)
<1>1. Len(s) \in Nat /\ k \in Nat /\ k <= Len(s)
  OBVIOUS
<1>2. (IF k < Len(s) THEN k ELSE Len(s)) = k
  BY <1>1
<1>3. QED
  BY <1>2 DEF Glm!Kept

\* A pass that did not complete leaves entries that its own rollback cuts off again.
LEMMA PushedUndone ==
    ASSUME TurnTypeOK, CachesFollow, NEW t \in Tokens, NEW upto, NEW keyed
    PROVE  /\ Glm!Undone(Glm!Pushed(latent, Glm!Layers, upto, t)) = latent
           /\ Glm!Undone(Glm!Pushed(keys, Glm!Full, keyed, t)) = keys
<1> DEFINE T == Tokens \cup {Garbage}
           x == IF Glm!Sound(t) THEN t ELSE Garbage
<1>1. tokens \in Seq(T) /\ x \in T /\ tokens \in Seq(Tokens) /\ Len(tokens) \in Nat
  BY ContextsAreSequences DEF TurnTypeOK
<1> HIDE DEF T, x
<1>2. /\ Glm!Kept(tokens, Len(tokens)) = tokens
      /\ Glm!Kept(Append(tokens, x), Len(tokens)) = tokens
  <2>1. /\ Append(tokens, x) \in Seq(T) /\ Len(tokens) \in 0..Len(Append(tokens, x))
        /\ SubSeq(Append(tokens, x), 1, Len(tokens)) = tokens
        /\ SubSeq(tokens, 1, Len(tokens)) = tokens /\ Len(tokens) \in 0..Len(tokens)
    BY <1>1
  <2>2. QED
    BY <1>1, <2>1, KeptPrefix
<1>3. Glm!Kept(<<>>, Len(tokens)) = <<>>
  <2>1. Len(<<>>) = 0 /\ ~ (Len(tokens) < 0)
    BY <1>1
  <2>2. QED
    BY <2>1 DEF Glm!Kept
<1>4. Len(latent[1]) = Len(tokens)
  BY FirstLayer DEF CachesFollow
<1>5. Glm!Undone(Glm!Pushed(latent, Glm!Layers, upto, t)) = latent
  BY <1>2, <1>4 DEF Glm!Undone, Glm!Cut, Glm!Pushed, CachesFollow, x
<1>6. Glm!Undone(Glm!Pushed(keys, Glm!Full, keyed, t)) = keys
  BY <1>2, <1>3, <1>4 DEF Glm!Undone, Glm!Cut, Glm!Pushed, CachesFollow, x
<1>7. QED
  BY <1>5, <1>6

\* A session that is cut back follows what is left of the tokens.
LEMMA CachesCut ==
    ASSUME TurnTypeOK, CachesFollow, NEW k \in 0..Len(tokens),
           Glm!Truncate(latent, keys, history, k)
    PROVE  tokens' = SubSeq(tokens, 1, k) /\ CachesFollow'
<1>1. /\ tokens \in Contexts /\ tokens \in Seq(Tokens) /\ Len(tokens) \in Nat /\ k \in Nat
      /\ k <= Len(tokens) /\ TopK \in Nat
  BY ContextsAreSequences, GlmAssumption DEF TurnTypeOK
<1>2. Glm!Kept(tokens, k) = SubSeq(tokens, 1, k)
  BY <1>1, KeptPrefix
<1>3. tokens' = SubSeq(tokens, 1, k)
  BY <1>2 DEF Glm!Truncate
<1>4. Len(tokens') = k /\ tokens' \in Seq(Tokens)
      /\ \A n \in 0..k : SubSeq(tokens', 1, n) = SubSeq(tokens, 1, n)
  BY <1>1, <1>3, ShorterContext, ContextsAreSequences
<1>5. Glm!Kept(<<>>, k) = <<>>
  <2>1. Len(<<>>) = 0 /\ ~ (k < 0)
    BY <1>1
  <2>2. QED
    BY <2>1 DEF Glm!Kept
<1>6. latent' = [l \in Glm!Layers |-> tokens']
  BY <1>2, <1>3 DEF Glm!Truncate, Glm!Cut, CachesFollow
<1>7. keys' = [l \in Glm!Layers |-> IF l \in Glm!Full THEN tokens' ELSE <<>>]
  BY <1>2, <1>3, <1>5 DEF Glm!Truncate, Glm!Cut, CachesFollow
<1>8. history' = [n \in 1..Len(tokens') |-> Choice(SubSeq(tokens', 1, n))]
  <2> DEFINE all == {Choice(SubSeq(tokens, 1, n)) : n \in 1..Len(tokens)}
  <2>1. history = [n \in 1..Len(tokens) |-> Choice(SubSeq(tokens, 1, n))]
    BY DEF CachesFollow
  <2>2. history \in Seq(all) /\ Len(history) = Len(tokens)
    <3>1. history \in [1..Len(tokens) -> all]
      BY <2>1
    <3> HIDE DEF all
    <3>2. QED
      BY <1>1, <3>1
  <2> HIDE DEF all
  <2>3. history' = SubSeq(history, 1, k)
    BY <2>2, KeptPrefix DEF Glm!Truncate
  <2>4. history' = [n \in 1..k |-> history[n]]
    BY <1>1, <2>2, <2>3
  <2>5. \A n \in 1..k : history[n] = Choice(SubSeq(tokens', 1, n))
    <3>1. \A n \in 1..k : n \in 1..Len(tokens) /\ n \in 0..k
      BY <1>1
    <3>2. QED
      BY <1>4, <2>1, <3>1
  <2>6. QED
    BY <1>4, <2>4, <2>5
<1>9. selection' = Choice(tokens')
  <2>1. selection' = IF history' = <<>> THEN <<>> ELSE history'[Len(history')]
    BY DEF Glm!Truncate, Glm!Last, Glm!Nothing
  <2>2. Len(history') = k /\ DOMAIN history' = 1..k
    BY <1>1, <1>4, <1>8
  <2>3. CASE k = 0
    <3>1. history' = <<>>
      BY <1>4, <1>8, <2>3
    <3>2. QED
      BY <1>1, <1>4, <2>1, <2>3, <3>1 DEF Choice, Nothing
  <2>4. CASE k # 0
    <3>1. k \in 1..k
      BY <1>1, <2>4
    <3>2. history' # <<>>
      BY <2>2, <3>1
    <3>3. history'[k] = Choice(SubSeq(tokens', 1, k))
      BY <1>4, <1>8, <3>1
    <3>4. SubSeq(tokens', 1, k) = tokens'
      BY <1>4
    <3>5. QED
      BY <2>1, <2>2, <3>2, <3>3, <3>4
  <2>5. QED
    BY <2>3, <2>4
<1>10. 1 \in Glm!Full \/ Len(tokens') <= TopK
  BY <1>1, <1>4 DEF CachesFollow
<1>11. QED
  BY <1>3, <1>6, <1>7, <1>8, <1>9, <1>10 DEF CachesFollow

\* The rollback of a turn.
LEMMA GlmRollback ==
    ASSUME GlmInv, phase # "idle", Glm!Rollback(latent, keys)
    PROVE  GlmInv'
<1>1. /\ Glm!Truncate(latent, keys, history, reusable)
      /\ logits' = stable /\ KvOver /\ outcome' = "failed"
  BY GlmTurns DEF Glm!Rollback
<1>2. reusable \in 0..Len(tokens) /\ TurnTypeOK /\ CachesFollow
  BY DEF GlmInv, KvInv, Returnable
<1>3. tokens' = SubSeq(tokens, 1, reusable) /\ CachesFollow'
  BY <1>1, <1>2, CachesCut
<1>4. KvInv'
  BY <1>1, <1>3, KvRollback DEF GlmInv
<1>5. QED
  BY <1>3, <1>4 DEF GlmInv

\* A pass that fails or is cancelled on its way.
LEMMA GlmFailureKeepsInv ==
    ASSUME GlmInv, phase # "idle", NEW t \in Tokens, Glm!ForwardFails(t)
    PROVE  GlmInv'
<1>1. TurnTypeOK /\ CachesFollow
  BY DEF GlmInv, KvInv
<1>2. PICK upto \in 0..Len(Kinds), keyed \in 0..Len(Kinds) :
          Glm!Rollback(Glm!Undone(Glm!Pushed(latent, Glm!Layers, upto, t)),
                       Glm!Undone(Glm!Pushed(keys, Glm!Full, keyed, t)))
  BY DEF Glm!ForwardFails
<1>3. Glm!Rollback(latent, keys)
  BY <1>1, <1>2, PushedUndone
<1>4. QED
  BY <1>3, GlmRollback

\* Every step of a GLM-5.2 session keeps its invariant.
LEMMA GlmStep == ASSUME GlmInv, Glm!Next PROVE GlmInv'
<1>1. KvInv /\ TurnTypeOK /\ Reading /\ Answering /\ CachesFollow
  BY DEF GlmInv, KvInv
<1>2. ASSUME NEW p \in Contexts, NEW n \in 1..MaxContext, Glm!BeginTurn(p, n)
      PROVE  GlmInv'
  <2>1. Request(p, n) /\ Glm!Truncate(latent, keys, history, Reuse(p))
    BY <1>2, GlmTurns DEF Glm!BeginTurn
  <2>2. Reuse(p) \in 0..Len(tokens)
    BY <1>1, ReuseAgrees, ContextsAreSequences DEF TurnTypeOK
  <2>3. tokens' = SubSeq(tokens, 1, Reuse(p)) /\ CachesFollow'
    BY <1>1, <2>1, <2>2, CachesCut
  <2>4. KvInv'
    BY <1>1, <2>1, <2>3, KvRequest
  <2>5. QED
    BY <2>3, <2>4 DEF GlmInv
<1>3. CASE Glm!Prefill
  <2> DEFINE t == prompt[Len(tokens) + 1]
  <2>1. /\ phase = "prefill" /\ Glm!Forward(t) /\ logits' = Glm!Computed(t)
        /\ current' = IF Len(tokens) + 1 = Len(prompt) THEN logits' ELSE Nothing
        /\ phase' = IF Len(tokens) + 1 = Len(prompt) THEN "decode" ELSE "prefill"
        /\ UNCHANGED <<prompt, limit, reusable, stable, made, outcome>>
    BY <1>3 DEF Glm!Prefill, Glm!request, Glm!reuse, Glm!Nothing, Nothing
  <2>2. t \in Tokens
    BY <1>1, <2>1, NextPromptToken
  <2>3. tokens' = Append(tokens, t) /\ CachesFollow' /\ logits' = tokens'
    BY <1>1, <2>1, <2>2, CachesForward
  <2>4. TurnTypeOK' /\ Reading' /\ Answering'
    BY <1>1, <2>1, <2>3, ReadingGoesOn
  <2>5. Returnable'
    BY <1>1, <2>1, <2>2, <2>3, StillReturnable
  <2>6. QED
    BY <2>1, <2>3, <2>4, <2>5 DEF GlmInv, KvInv
<1>4. CASE Glm!PrefillFails
  <2>1. phase = "prefill" /\ Glm!ForwardFails(prompt[Len(tokens) + 1])
    BY <1>4 DEF Glm!PrefillFails
  <2>2. prompt[Len(tokens) + 1] \in Tokens
    BY <1>1, <2>1, NextPromptToken
  <2>3. QED
    BY <2>1, <2>2, GlmFailureKeepsInv
<1>5. CASE Glm!Decode
  <2>1. PICK t \in Tokens :
            Glm!Forward(t) /\ made' = Append(made, t) /\ logits' = Glm!Computed(t)
    BY <1>5 DEF Glm!Decode
  <2>2. /\ phase = "decode" /\ Len(made) + 1 < limit /\ current' = logits'
        /\ UNCHANGED <<phase, prompt, limit, reusable, stable, outcome>>
    BY <1>5 DEF Glm!Decode, Glm!request, Glm!reuse
  <2>3. tokens' = Append(tokens, t) /\ CachesFollow' /\ logits' = tokens'
    BY <1>1, <2>1, CachesForward
  <2>4. TurnTypeOK' /\ Reading' /\ Answering'
    BY <1>1, <2>1, <2>2, <2>3, AnsweringGoesOn
  <2>5. Returnable'
    BY <1>1, <2>2, <2>3, StillReturnable
  <2>6. QED
    BY <2>2, <2>3, <2>4, <2>5 DEF GlmInv, KvInv
<1>6. CASE Glm!DecodeFails
  BY <1>6, GlmFailureKeepsInv DEF Glm!DecodeFails
<1>7. CASE Glm!SelectFails
  BY <1>7, GlmRollback DEF Glm!SelectFails
<1>8. CASE Glm!EndTurn
  <2>1. Finish /\ UNCHANGED <<latent, keys, selection, history, tokens>>
    BY <1>8, GlmTurns DEF Glm!EndTurn, Glm!caches, Finish
  <2>2. KvInv'
    BY <1>1, <2>1, KvFinish
  <2>3. QED
    BY <1>1, <2>1, <2>2 DEF GlmInv, CachesFollow
<1>9. QED
  BY <1>2, <1>3, <1>4, <1>5, <1>6, <1>7, <1>8, GlmTurns DEF Glm!Next-----------------------------------------------------------------------------
(***************************************************************************)
(* Qwen 3.5.                                                               *)
(***************************************************************************)
\* A cleared session between two turns.
LEMMA ClearKeepsInv ==
    ASSUME Qwen!Clear, NoTurn, outcome' = "failed"
    PROVE  QwenInv'
<1>1. /\ tokens' = <<>> /\ logits' = <<>> /\ position' = 0
      /\ absorbed' = [l \in Qwen!Layers |-> <<>>]
  BY DEF Qwen!Clear, Qwen!Nothing
<1>2. TurnTypeOK'
  BY <1>1, EmptyContext, TurnAssumption DEF TurnTypeOK, NoTurn, Nothing, Values
<1>3. LayersFollow'
  BY <1>1 DEF LayersFollow
<1>4. QED
  BY <1>1, <1>2, <1>3 DEF QwenInv, NoTurn, Reading, Answering, NeverMissingLogits

\* The start of a turn keeps the session or clears it; its logits are there when needed.
LEMMA QwenBeginKeepsInv ==
    ASSUME QwenInv, NEW p \in Contexts, NEW n \in 1..MaxContext, Qwen!BeginTurn(p, n)
    PROVE  QwenInv'
<1> USE TurnAssumption
<1>1. /\ p \in Seq(Tokens) /\ p # <<>> /\ Len(p) + n <= MaxContext
      /\ phase = "idle" /\ tokens \in Seq(Tokens) /\ logits = tokens /\ tokens \in Contexts
  BY ContextsAreSequences DEF QwenInv, TurnTypeOK, Qwen!BeginTurn, Qwen!Admissible
<1>2. ~ Qwen!Missing(p)
  BY <1>1 DEF Qwen!Missing, Qwen!Nothing
<1>3. /\ Qwen!Prepare(p)
      /\ phase' = IF tokens' = p THEN "decode" ELSE "prefill"
      /\ current' = IF tokens' = p THEN logits' ELSE Nothing
      /\ prompt' = p /\ limit' = n /\ made' = <<>> /\ outcome' = "none"
  BY <1>2 DEF Qwen!BeginTurn, Qwen!Nothing, Nothing
<1>4. /\ tokens' \in Contexts /\ logits' = tokens'
      /\ Qwen!IsPrefix(tokens', p)
      /\ LayersFollow'
  <2>1. CASE Qwen!Extends(p)
    BY <2>1, <1>1, <1>3 DEF Qwen!Prepare, Qwen!Extends, Qwen!stateVars, QwenInv, LayersFollow
  <2>2. CASE ~ Qwen!Extends(p)
    BY <2>2, <1>1, <1>3, EmptyContext
    DEF Qwen!Prepare, Qwen!Clear, LayersFollow, Qwen!Nothing, Qwen!IsPrefix
  <2>3. QED
    BY <2>1, <2>2
<1>5. tokens' \in Seq(Tokens) /\ Len(tokens') <= Len(p) /\ tokens' = SubSeq(p, 1, Len(tokens'))
  BY <1>4, <1>1, ContextsAreSequences DEF Qwen!IsPrefix
<1>6. TurnTypeOK'
  BY <1>1, <1>3, <1>4, EmptyContext DEF TurnTypeOK, Values, Nothing
<1>7. Reading'
  <2>1. tokens' # p => Len(tokens') < Len(p)
    BY <1>1, <1>5
  <2>2. QED
    BY <2>1, <1>1, <1>3, <1>5 DEF Reading
<1>8. Answering'
  BY <1>1, <1>3, <1>4 DEF Answering
<1>9. QED
  BY <1>3, <1>4, <1>6, <1>7, <1>8 DEF QwenInv, NeverMissingLogits

\* A completed forward pass: every layer follows, and what it computes is the context.
LEMMA LayersForward ==
    ASSUME TurnTypeOK, LayersFollow, NEW t \in Tokens, Qwen!Forward(t)
    PROVE  /\ tokens' = Append(tokens, t) /\ LayersFollow'
           /\ Qwen!Computed(t) = Append(tokens, t)
<1>1. tokens' = Append(tokens, t) /\ Len(tokens') = Len(tokens) + 1
  BY ContextsAreSequences DEF TurnTypeOK, Qwen!Forward
<1>2. Qwen!Computed(t) = Append(tokens, t)
  BY DEF Qwen!Computed, LayersFollow
<1>3. \A l \in Qwen!Layers : l <= Len(Recurrent)
  BY QwenAssumption DEF Qwen!Layers
<1>4. absorbed' = [l \in Qwen!Layers |-> tokens']
  BY <1>1, <1>3 DEF Qwen!Forward, Qwen!Through, LayersFollow
<1>5. position' = Len(tokens')
  BY <1>1 DEF Qwen!Forward, LayersFollow
<1>6. QED
  BY <1>1, <1>2, <1>4, <1>5 DEF LayersFollow

\* Every step of a Qwen session keeps its invariant.
LEMMA QwenStep == ASSUME QwenInv, Qwen!Next PROVE QwenInv'
<1>1. TurnTypeOK /\ Reading /\ Answering /\ LayersFollow /\ NeverMissingLogits
  BY DEF QwenInv
<1>2. ASSUME NEW p \in Contexts, NEW n \in 1..MaxContext, Qwen!BeginTurn(p, n)
      PROVE  QwenInv'
  BY <1>2, QwenBeginKeepsInv
<1>3. CASE Qwen!Prefill
  <2> DEFINE t == prompt[Len(tokens) + 1]
  <2>1. /\ phase = "prefill" /\ Qwen!Forward(t)
        /\ logits' = IF Len(tokens) + 1 = Len(prompt)
                     THEN Qwen!Computed(prompt[Len(prompt)]) ELSE Nothing
        /\ current' = logits'
        /\ phase' = IF Len(tokens) + 1 = Len(prompt) THEN "decode" ELSE "prefill"
        /\ UNCHANGED <<prompt, limit, made, outcome>>
    BY <1>3 DEF Qwen!Prefill, Qwen!request, Qwen!Nothing, Nothing
  <2>2. t \in Tokens
    BY <1>1, <2>1, NextPromptToken
  <2>3. tokens' = Append(tokens, t) /\ LayersFollow' /\ Qwen!Computed(t) = tokens'
    BY <1>1, <2>1, <2>2, LayersForward
  <2>4. Len(tokens) + 1 = Len(prompt) => logits' = tokens'
    BY <2>1, <2>3
  <2>5. /\ logits' \in {Nothing, tokens'}
        /\ current' = IF Len(tokens) + 1 = Len(prompt) THEN logits' ELSE Nothing
    BY <2>1, <2>4
  <2>6. TurnTypeOK' /\ Reading' /\ Answering'
    BY <1>1, <2>1, <2>3, <2>4, <2>5, ReadingGoesOn
  <2>7. QED
    BY <1>1, <2>1, <2>3, <2>6 DEF QwenInv, NeverMissingLogits
<1>4. CASE Qwen!Decode
  <2>1. PICK t \in Tokens :
            Qwen!Forward(t) /\ made' = Append(made, t) /\ logits' = Qwen!Computed(t)
    BY <1>4 DEF Qwen!Decode
  <2>2. /\ phase = "decode" /\ Len(made) + 1 < limit /\ current' = logits'
        /\ UNCHANGED <<phase, prompt, limit, outcome>>
    BY <1>4 DEF Qwen!Decode, Qwen!request
  <2>3. tokens' = Append(tokens, t) /\ LayersFollow' /\ logits' = tokens'
    BY <1>1, <2>1, LayersForward
  <2>4. TurnTypeOK' /\ Reading' /\ Answering'
    BY <1>1, <2>1, <2>2, <2>3, AnsweringGoesOn
  <2>5. QED
    BY <1>1, <2>2, <2>3, <2>4 DEF QwenInv, NeverMissingLogits
<1>5. CASE Qwen!TurnFails
  BY <1>5, ClearKeepsInv
  DEF Qwen!TurnFails, Qwen!Fails, Qwen!NoTurn, NoTurn, Qwen!Nothing, Nothing
<1>6. CASE Qwen!EndTurn
  <2>1. /\ phase = "decode" /\ NoTurn /\ outcome' = "complete"
        /\ UNCHANGED <<absorbed, position, tokens, logits>>
    BY <1>6 DEF Qwen!EndTurn, Qwen!NoTurn, NoTurn, Qwen!Nothing, Nothing, Qwen!stateVars
  <2>2. TurnTypeOK'
    BY <1>1, <2>1, EmptyContext, TurnAssumption DEF TurnTypeOK, NoTurn, Nothing, Values
  <2>3. Reading' /\ Answering' /\ LayersFollow' /\ logits' = tokens'
    BY <1>1, <2>1 DEF NoTurn, Reading, Answering, LayersFollow
  <2>4. QED
    BY <2>1, <2>2, <2>3 DEF QwenInv, NeverMissingLogits
<1>7. QED
  BY <1>2, <1>3, <1>4, <1>5, <1>6 DEF Qwen!Next, Qwen!Contexts, Contexts
-----------------------------------------------------------------------------
(***************************************************************************)
(* A session of any family.                                                *)
(***************************************************************************)
\* A new session satisfies the invariant of its family.
LEMMA InvInit == Init => Inv
<1> SUFFICES ASSUME Init PROVE Inv
  OBVIOUS
<1>1. Gemma!Init /\ Glm!Init /\ Qwen!Init /\ architecture \in {"gemma4", "glm_moe_dsa", "qwen35"}
  BY DEF Init
<1>2. KvInv
  BY <1>1, GemmaTurns, KvInvInit DEF Gemma!Init
<1>3. RingsCover => GemmaInv
  BY <1>1, <1>2, RingsInit DEF GemmaInv
<1>4. GlmInv
  BY <1>1, <1>2, CachesInit DEF GlmInv
<1>5. QwenInv
  <2>1. /\ tokens = <<>> /\ logits = <<>> /\ phase = "idle" /\ outcome = "none"
        /\ position = 0 /\ absorbed = [l \in Qwen!Layers |-> <<>>]
    BY <1>1 DEF Qwen!Init, Qwen!TurnInit, Qwen!Nothing
  <2>2. LayersFollow
    BY <2>1 DEF LayersFollow
  <2>3. QED
    BY <1>2, <2>1, <2>2 DEF QwenInv, KvInv, NeverMissingLogits
<1>6. QED
  BY <1>1, <1>3, <1>4, <1>5 DEF Inv

\* Every step is one of the family's code.
LEMMA InvStep == Inv /\ [Next]_vars => Inv'
<1> SUFFICES ASSUME Inv, [Next]_vars PROVE Inv'
  OBVIOUS
<1>1. CASE GemmaTurn
  <2>1. architecture = "gemma4" /\ architecture' = architecture /\ Gemma!Next
    BY <1>1 DEF GemmaTurn
  <2>2. RingsCover => GemmaInv'
    BY <2>1, GemmaStep DEF Inv
  <2>3. QED
    BY <2>1, <2>2 DEF Inv, RingsCover
<1>2. CASE GlmTurn
  <2>1. architecture = "glm_moe_dsa" /\ architecture' = architecture /\ Glm!Next
    BY <1>2 DEF GlmTurn
  <2>2. GlmInv'
    BY <2>1, GlmStep DEF Inv
  <2>3. QED
    BY <2>1, <2>2 DEF Inv
<1>3. CASE QwenTurn
  <2>1. architecture = "qwen35" /\ architecture' = architecture /\ Qwen!Next
    BY <1>3 DEF QwenTurn
  <2>2. QwenInv'
    BY <2>1, QwenStep DEF Inv
  <2>3. QED
    BY <2>1, <2>2 DEF Inv
<1>4. CASE UNCHANGED vars
  <2>1. UNCHANGED <<architecture, tokens, logits, phase, prompt, limit, current, made, outcome,
                    reusable, stable, ring, pos, latent, keys, selection, history,
                    absorbed, position>>
    BY <1>4 DEF vars, turnVars, request, reuse, gemmaVars, glmVars, qwenVars
  <2>2. /\ TurnTypeOK => TurnTypeOK'
        /\ Reading => Reading'
        /\ Answering => Answering'
        /\ Returnable => Returnable'
    <3>1. TurnTypeOK => TurnTypeOK'
      BY <2>1 DEF TurnTypeOK
    <3>2. Reading => Reading'
      BY <2>1 DEF Reading
    <3>3. Answering => Answering'
      BY <2>1 DEF Answering
    <3>4. Returnable => Returnable'
      BY <2>1 DEF Returnable
    <3>5. QED
      BY <3>1, <3>2, <3>3, <3>4
  <2>3. KvInv => KvInv'
    <3>1. (phase = "idle" => logits \in {Nothing, tokens})
              => (phase = "idle" => logits \in {Nothing, tokens})'
      BY <2>1 DEF Nothing
    <3>2. QED
      BY <2>2, <3>1 DEF KvInv
  <2>4. GemmaInv => GemmaInv'
    BY <2>1, <2>3 DEF GemmaInv, RingsFollow
  <2>5. GlmInv => GlmInv'
    BY <2>1, <2>3 DEF GlmInv, CachesFollow
  <2>6. QwenInv => QwenInv'
    BY <2>1, <2>2 DEF QwenInv, LayersFollow, NeverMissingLogits
  <2>7. QED
    BY <2>1, <2>4, <2>5, <2>6 DEF Inv, RingsCover
<1>5. QED
  BY <1>1, <1>2, <1>3, <1>4 DEF Next

\* A session of GLM-5.2 or Qwen, or one of Gemma whose rings are as long as the context:
\* always on the CPU, and on Metal while the window covers the context.
Unwrapped == architecture = "gemma4" => RingsCover

\* A session stays of the family it was loaded as.
LEMMA StaysUnwrapped == Unwrapped /\ [Next]_vars => Unwrapped'
BY DEF Unwrapped, RingsCover, Next, GemmaTurn, GlmTurn, QwenTurn, vars

\* The invariant of its family holds in every reachable state of a session.
THEOREM SessionInvariance == Spec => []Inv
BY InvInit, InvStep, PTL DEF Spec

\* Every variable of a turn keeps its type; no turn exceeds the context.
THEOREM SessionTypes == Unwrapped /\ Spec => []TurnTypeOK
<1>1. Inv /\ Unwrapped => TurnTypeOK
  BY DEF Inv, Unwrapped, GemmaInv, GlmInv, KvInv, QwenInv
<1>2. QED
  BY <1>1, SessionInvariance, StaysUnwrapped, PTL DEF Spec

\* Whatever turns, truncations, failures and cancellations came before, every token is
\* selected on the logits of exactly the prompt and the tokens generated so far.
THEOREM SelectionOnHistory == Unwrapped /\ Spec => []SelectsOnHistory
<1>1. Inv /\ Unwrapped => Answering
  BY DEF Inv, Unwrapped, GemmaInv, GlmInv, KvInv, QwenInv
<1>2. Answering => SelectsOnHistory
  BY DEF Answering, SelectsOnHistory
<1>3. QED
  BY <1>1, <1>2, SessionInvariance, StaysUnwrapped, PTL DEF Spec

\* Between turns the layers of the session hold exactly the cached tokens.
THEOREM CoherentBetweenTurns == Unwrapped /\ Spec => []SessionCoherent
<1>1. GemmaInv => Gemma!SessionCoherent
  BY DEF GemmaInv, KvInv, RingsFollow, Gemma!SessionCoherent, Gemma!Layers, Gemma!Nothing, Nothing
<1>2. GlmInv => Glm!SessionCoherent
  <2> SUFFICES ASSUME GlmInv, phase = "idle" PROVE Glm!SessionCoherent
    BY DEF Glm!SessionCoherent
  <2>1. /\ tokens \in Seq(Tokens) /\ Len(tokens) \in Nat /\ TopK \in Nat
        /\ logits \in {Nothing, tokens} /\ CachesFollow
    BY ContextsAreSequences, GlmAssumption DEF GlmInv, KvInv, TurnTypeOK
  <2>2. \A l \in Glm!Layers : latent[l] = tokens /\ (l \in Glm!Full => keys[l] = tokens)
    BY <2>1 DEF CachesFollow
  <2>3. DOMAIN history = 1..Len(tokens) /\ Len(history) = Len(tokens)
    BY <2>1 DEF CachesFollow
  <2>4. \A n \in DOMAIN history : history[n] \in {Nothing, SubSeq(tokens, 1, n)}
    BY <2>1 DEF CachesFollow, Choice
  <2>5. selection = IF tokens = <<>> THEN Nothing ELSE history[Len(history)]
    <3>1. CASE tokens = <<>>
      BY <2>1, <3>1 DEF CachesFollow, Choice, Nothing
    <3>2. CASE tokens # <<>>
      <4>1. Len(tokens) \in 1..Len(tokens) /\ SubSeq(tokens, 1, Len(tokens)) = tokens
        BY <2>1, <3>2
      <4>2. QED
        BY <2>1, <2>3, <3>2, <4>1 DEF CachesFollow
    <3>3. QED
      BY <3>1, <3>2
  <2>6. QED
    BY <2>1, <2>2, <2>3, <2>4, <2>5 DEF Glm!SessionCoherent, Glm!Last, Glm!Nothing, Nothing
<1>3. QwenInv => Qwen!SessionCoherent
  BY DEF QwenInv, LayersFollow, Qwen!SessionCoherent
<1>4. Inv /\ Unwrapped => SessionCoherent
  BY <1>1, <1>2, <1>3 DEF Inv, Unwrapped, SessionCoherent
<1>5. QED
  BY <1>4, SessionInvariance, StaysUnwrapped, PTL DEF Spec

\* No Qwen turn is refused for logits that the session lost, and no GLM-5.2 turn dies of a
\* shared layer that finds no choice, for every schedule, index_topk and length of history.
THEOREM HeldTurnsAreServed == Spec => []HeldTurnsServed
<1>1. QwenInv => NeverMissingLogits
  BY DEF QwenInv
<1>2. GlmInv => Glm!SharedLayersServed
  BY NoneLacks DEF GlmInv, KvInv, Glm!SharedLayersServed
<1>3. Inv => HeldTurnsServed
  BY <1>1, <1>2 DEF Inv, HeldTurnsServed
<1>4. QED
  BY <1>3, SessionInvariance, PTL
-----------------------------------------------------------------------------
(***************************************************************************)
(* ResidentsMostRecent is not inductive: which session is dropped is       *)
(* decided on last_used, so the invariant has to tie last_used to the      *)
(* order of uses.                                                          *)
(***************************************************************************)
StampsFollowUses ==
    \A s, t \in Resident(pool) : pool[s] < pool[t] => UsedAfter(t, s)

PoolInv ==
    /\ PoolTypeOK
    /\ PoolBounded
    /\ StampsDistinct
    /\ StampsFollowUses
    /\ ResidentsMostRecent

\* A pool that satisfies PoolTypeOK is one of SessionLru's.
LEMMA PoolIsPool == PoolTypeOK => pool \in Pools
BY SMT DEF PoolTypeOK, Pools

\* A job of x puts x after every other session and keeps the order of the others.
LEMMA ServeOrders ==
    ASSUME PoolTypeOK, NEW x \in SessionIds, uses' = Append(uses, x)
    PROVE  /\ \A t \in SessionIds : t # x => UsedAfter(x, t)'
           /\ \A s, t \in SessionIds : UsedAfter(s, t) /\ t # x => UsedAfter(s, t)'
<1>1. /\ uses \in Seq(SessionIds) /\ Len(uses) \in Nat
      /\ Len(uses') = Len(uses) + 1
      /\ uses'[Len(uses) + 1] = x
      /\ \A k \in 1..Len(uses) : uses'[k] = uses[k]
  BY DEF PoolTypeOK
<1>2. ASSUME NEW t \in SessionIds, t # x
      PROVE  UsedAfter(x, t)'
  <2>1. Len(uses) + 1 \in 1..Len(uses')
    BY <1>1
  <2>2. \A k \in (Len(uses) + 1)..Len(uses') : uses'[k] # t
    BY <1>1, <1>2
  <2>3. QED
    BY <1>1, <2>1, <2>2 DEF UsedAfter
<1>3. ASSUME NEW s \in SessionIds, NEW t \in SessionIds, UsedAfter(s, t), t # x
      PROVE  UsedAfter(s, t)'
  <2>1. PICK i \in 1..Len(uses) : uses[i] = s /\ \A k \in i..Len(uses) : uses[k] # t
    BY <1>3 DEF UsedAfter
  <2>2. i \in 1..Len(uses') /\ uses'[i] = s
    BY <1>1, <2>1
  <2>3. ASSUME NEW k \in i..Len(uses')
        PROVE  uses'[k] # t
    <3>1. CASE k = Len(uses) + 1
      BY <1>1, <1>3, <3>1
    <3>2. CASE k \in i..Len(uses)
      BY <1>1, <2>1, <3>2
    <3>3. QED
      BY <1>1, <2>1, <3>1, <3>2
  <2>4. QED
    BY <2>2, <2>3 DEF UsedAfter
<1>4. QED
  BY <1>2, <1>3

\* Evicting the oldest session of a pool that satisfies the invariant: those left keep
\* their stamps and were all used after whatever is not resident any more.
LEMMA EvictionKeepsOrder ==
    ASSUME PoolInv, NEW left \in AfterEviction(pool)
    PROVE  /\ left \in Pools
           /\ Resident(left) \subseteq Resident(pool)
           /\ \A s \in Resident(left) : left[s] = pool[s]
           /\ \A s \in Resident(left), t \in SessionIds \ Resident(left) : UsedAfter(s, t)
           /\ Cardinality(Resident(left)) < MaxSess
           /\ left \in [SessionIds -> 0..clock]
<1>1. pool \in Pools /\ pool \in [SessionIds -> 0..clock] /\ clock \in Nat
  BY PoolIsPool DEF PoolInv, PoolTypeOK
<1>2. Cardinality(Resident(left)) < MaxSess
  BY <1>1, EvictionMakesRoom DEF PoolInv, PoolBounded
<1>3. left \in Pools
  BY <1>1, EvictionShape
<1>4. CASE left = pool
  BY <1>1, <1>2, <1>4 DEF PoolInv, ResidentsMostRecent
<1>5. ASSUME NEW v \in Oldest(pool), left = [pool EXCEPT ![v] = 0],
             Resident(left) = Resident(pool) \ {v}
      PROVE  /\ Resident(left) \subseteq Resident(pool)
             /\ \A s \in Resident(left) : left[s] = pool[s]
             /\ \A s \in Resident(left), t \in SessionIds \ Resident(left) : UsedAfter(s, t)
             /\ left \in [SessionIds -> 0..clock]
  <2>1. v \in Resident(pool) /\ Resident(pool) \subseteq SessionIds
    BY DEF Oldest, Resident
  <2>2. \A s \in Resident(left) : left[s] = pool[s]
    BY <1>1, <1>5, <2>1 DEF Pools
  <2>3. ASSUME NEW s \in Resident(left)
        PROVE  UsedAfter(s, v)
    <3>1. s \in Resident(pool) /\ s # v /\ s \in SessionIds
      BY <1>5, <2>1
    <3>2. pool[v] <= pool[s] /\ pool[v] # pool[s]
      BY <2>1, <3>1 DEF Oldest, PoolInv, StampsDistinct
    <3>3. pool[v] < pool[s]
      BY <1>1, <2>1, <3>1, <3>2 DEF Pools
    <3>4. QED
      BY <2>1, <3>1, <3>3 DEF PoolInv, StampsFollowUses
  <2>4. \A s \in Resident(left), t \in SessionIds \ Resident(left) : UsedAfter(s, t)
    BY <1>5, <2>3 DEF PoolInv, ResidentsMostRecent
  <2>5. left \in [SessionIds -> 0..clock]
    BY <1>1, <1>5, <2>1 DEF Pools
  <2>6. QED
    BY <1>5, <2>2, <2>4, <2>5
<1>6. QED
  BY <1>1, <1>2, <1>3, <1>4, <1>5, EvictionShape

\* Serving session s out of a pool whose residents keep the order re-establishes the
\* invariant, whether s was resident or was created in the room left for it.
LEMMA ServeKeepsInv ==
    ASSUME PoolInv, NEW s \in SessionIds, NEW left \in [SessionIds -> 0..clock],
           \A t \in Resident(left) : t \in Resident(pool) /\ left[t] = pool[t],
           \A r \in Resident(left), t \in SessionIds \ Resident(left) : UsedAfter(r, t),
           \/ s \in Resident(left) /\ Cardinality(Resident(left)) <= MaxSess
           \/ Cardinality(Resident(left)) < MaxSess,
           clock' = clock + 1, Serve(s, left)
    PROVE  PoolInv'
<1>1. /\ clock \in Nat /\ uses \in Seq(SessionIds) /\ left \in Pools
      /\ pool' = Touch(left, s, clock + 1) /\ uses' = Append(uses, s)
      /\ PoolTypeOK
  <2>1. clock \in Nat /\ uses \in Seq(SessionIds) /\ PoolTypeOK
    BY DEF PoolInv, PoolTypeOK
  <2>2. left \in Pools
    BY <2>1 DEF Pools
  <2>3. QED
    BY <2>1, <2>2 DEF Serve
<1>2. pool' = [left EXCEPT ![s] = clock + 1]
  BY <1>1 DEF Touch
<1>3. Resident(pool)' = Resident(left) \cup {s}
  BY <1>1, TouchResident DEF Resident
<1>4. /\ pool'[s] = clock + 1
      /\ \A t \in Resident(left) : t # s => pool'[t] = left[t] /\ left[t] < clock + 1
  BY <1>1, <1>2 DEF Resident, Pools
<1>5. PoolTypeOK'
  <2>1. pool' \in [SessionIds -> 0..(clock + 1)]
    BY <1>1, <1>2
  <2>2. QED
    BY <1>1, <2>1 DEF PoolTypeOK
<1>6. PoolBounded'
  <2>1. Cardinality(Resident(Touch(left, s, clock + 1))) <= MaxSess
    BY <1>1, TouchBounded
  <2>2. QED
    BY <1>1, <2>1 DEF PoolBounded, Resident
<1>7. StampsDistinct'
  BY <1>3, <1>4 DEF StampsDistinct, PoolInv, Resident
<1>8. StampsFollowUses'
  <2> SUFFICES ASSUME NEW a \in Resident(pool)', NEW b \in Resident(pool)', pool'[a] < pool'[b]
               PROVE  UsedAfter(b, a)'
    BY DEF StampsFollowUses
  <2>1. a \in SessionIds /\ b \in SessionIds
    BY DEF Resident
  <2>2. a # s
    <3>1. SUFFICES ASSUME a = s PROVE FALSE
      OBVIOUS
    <3>2. clock + 1 < pool'[b] /\ pool'[b] \in 0..(clock + 1)
      BY <1>4, <1>5, <1>1, <2>1, <3>1 DEF PoolTypeOK
    <3>3. QED
      BY <3>2, <1>1
  <2>3. CASE b = s
    BY <1>1, <2>1, <2>2, <2>3, ServeOrders
  <2>4. CASE b # s
    <3>1. pool[a] < pool[b] /\ a \in Resident(pool) /\ b \in Resident(pool)
      BY <1>3, <1>4, <2>2, <2>4
    <3>2. UsedAfter(b, a)
      BY <3>1 DEF PoolInv, StampsFollowUses
    <3>3. QED
      BY <1>1, <2>1, <2>2, <3>2, ServeOrders
  <2>5. QED
    BY <2>3, <2>4
<1>9. ResidentsMostRecent'
  <2> SUFFICES ASSUME NEW a \in Resident(pool)', NEW t \in SessionIds, t \notin Resident(pool)'
               PROVE  UsedAfter(a, t)'
    BY DEF ResidentsMostRecent
  <2>1. a \in SessionIds /\ t # s /\ t \notin Resident(left)
    BY <1>3 DEF Resident
  <2>2. CASE a = s
    BY <1>1, <2>1, <2>2, ServeOrders
  <2>3. CASE a # s
    <3>1. UsedAfter(a, t)
      BY <1>3, <2>1, <2>3
    <3>2. QED
      BY <1>1, <2>1, <3>1, ServeOrders
  <2>4. QED
    BY <2>2, <2>3
<1>10. QED
  BY <1>5, <1>6, <1>7, <1>8, <1>9 DEF PoolInv

\* An empty pool satisfies the invariant.
LEMMA PoolInvInit == PoolInit => PoolInv
<1> SUFFICES ASSUME PoolInit PROVE PoolInv
  OBVIOUS
<1>1. Resident(pool) = {}
  BY DEF PoolInit, EmptyPool, Resident
<1>2. PoolBounded
  BY <1>1, FS_EmptySet, SessionLruAssumption DEF PoolBounded
<1>3. PoolTypeOK
  BY DEF PoolInit, EmptyPool, PoolTypeOK
<1>4. QED
  BY <1>1, <1>2, <1>3 DEF PoolInv, StampsDistinct, StampsFollowUses, ResidentsMostRecent

\* Every request keeps the invariant, a failed creation included.
LEMMA PoolInvStep == PoolInv /\ [PoolNext]_poolVars => PoolInv'
<1> SUFFICES ASSUME PoolInv, [PoolNext]_poolVars PROVE PoolInv'
  OBVIOUS
<1>1. ASSUME NEW s \in SessionIds, ReuseSession(s) PROVE PoolInv'
  <2>1. pool \in [SessionIds -> 0..clock]
    BY DEF PoolInv, PoolTypeOK
  <2>2. QED
    BY <1>1, <2>1, ServeKeepsInv DEF ReuseSession, PoolInv, ResidentsMostRecent, PoolBounded
<1>2. ASSUME NEW s \in SessionIds, Create(s) PROVE PoolInv'
  <2>1. PICK left \in AfterEviction(pool) : Serve(s, left)
    BY <1>2 DEF Create
  <2>2. QED
    BY <1>2, <2>1, EvictionKeepsOrder, ServeKeepsInv DEF Create
<1>3. ASSUME NEW s \in SessionIds, CreateFails(s) PROVE PoolInv'
  <2>1. /\ pool' \in AfterEviction(pool) /\ clock' = clock + 1 /\ uses' = uses
        /\ clock \in Nat /\ uses \in Seq(SessionIds)
    BY <1>3 DEF CreateFails, PoolInv, PoolTypeOK
  <2>2. /\ Resident(pool)' \subseteq Resident(pool)
        /\ \A a \in Resident(pool)' : pool'[a] = pool[a]
        /\ \A a \in Resident(pool)', t \in SessionIds \ Resident(pool)' : UsedAfter(a, t)
        /\ Cardinality(Resident(pool)') < MaxSess
        /\ pool' \in [SessionIds -> 0..clock]
    BY <2>1, EvictionKeepsOrder DEF Resident
  <2>3. \A a, t : UsedAfter(a, t)' <=> UsedAfter(a, t)
    BY <2>1 DEF UsedAfter
  <2>4. PoolTypeOK'
    BY <2>1, <2>2 DEF PoolTypeOK
  <2>5. PoolBounded'
    <3>1. Cardinality(Resident(pool)') \in Nat /\ MaxSess \in Nat
      BY ResidentFinite, SessionLruAssumption DEF Resident
    <3>2. QED
      BY <2>2, <3>1 DEF PoolBounded
  <2>6. StampsDistinct'
    BY <2>2 DEF PoolInv, StampsDistinct
  <2>7. StampsFollowUses'
    BY <2>2, <2>3 DEF PoolInv, StampsFollowUses
  <2>8. ResidentsMostRecent'
    BY <2>2, <2>3 DEF ResidentsMostRecent
  <2>9. QED
    BY <2>4, <2>5, <2>6, <2>7, <2>8 DEF PoolInv
<1>4. ASSUME UNCHANGED poolVars PROVE PoolInv'
  BY <1>4 DEF poolVars, PoolInv, PoolTypeOK, PoolBounded, StampsDistinct, StampsFollowUses,
              ResidentsMostRecent, UsedAfter, Resident
<1>5. QED
  BY <1>1, <1>2, <1>3, <1>4 DEF PoolNext

\* The residency map of a worker stays well typed, within its limit, and ordered by use.
THEOREM PoolInvariant == PoolSpec => []PoolInv
BY PoolInvInit, PoolInvStep, PTL DEF PoolSpec

\* The worker of a model never keeps more than the limit of resident sessions.
THEOREM PoolIsBounded == PoolSpec => []PoolBounded
<1>1. PoolInv => PoolBounded
  BY DEF PoolInv
<1>2. QED
  BY <1>1, PoolInvariant, PTL

\* Eviction is a deterministic LRU: whatever is resident was used after whatever is not.
THEOREM PoolIsLru == PoolSpec => []ResidentsMostRecent
<1>1. PoolInv => ResidentsMostRecent
  BY DEF PoolInv
<1>2. QED
  BY <1>1, PoolInvariant, PTL

\* One request loses at most one session, and that one is the least recently used.
THEOREM PoolEvictsOnlyOldest == PoolSpec => EvictsOnlyOldest
<1> DEFINE Lost == \A s \in Resident(pool) \ Resident(pool') :
                      \A t \in Resident(pool) : t # s => t \in Resident(pool') /\ UsedAfter(t, s)
<1>1. PoolInv /\ [PoolNext]_poolVars => [Lost]_poolVars
  <2> SUFFICES ASSUME PoolInv, PoolNext,
                      NEW s \in Resident(pool) \ Resident(pool'), NEW t \in Resident(pool), t # s
               PROVE  t \in Resident(pool') /\ UsedAfter(t, s)
    OBVIOUS
  <2>1. pool \in Pools /\ clock \in Nat
    BY PoolIsPool DEF PoolInv, PoolTypeOK
  <2>2. ASSUME NEW left \in AfterEviction(pool), Resident(left) \subseteq Resident(pool')
        PROVE  t \in Resident(pool') /\ UsedAfter(t, s)
    <3>1. PICK v \in Oldest(pool) : Resident(left) = Resident(pool) \ {v}
      BY <2>1, <2>2, EvictionShape
    <3>2. v = s
      BY <2>2, <3>1
    <3>3. t \in Resident(left) /\ s \in SessionIds \ Resident(left)
      BY <3>1, <3>2 DEF Resident
    <3>4. QED
      BY <2>2, <3>3, EvictionKeepsOrder
  <2>3. ASSUME NEW x \in SessionIds, ReuseSession(x) PROVE FALSE
    <3>1. pool' = Touch(pool, x, clock + 1)
      BY <2>3 DEF ReuseSession, Serve
    <3>2. QED
      BY <2>1, <3>1, TouchResident
  <2>4. ASSUME NEW x \in SessionIds, Create(x) PROVE t \in Resident(pool') /\ UsedAfter(t, s)
    <3>1. PICK left \in AfterEviction(pool) : pool' = Touch(left, x, clock + 1)
      BY <2>4 DEF Create, Serve
    <3>2. Resident(left) \subseteq Resident(pool')
      BY <2>1, <3>1, EvictionShape, TouchResident
    <3>3. QED
      BY <2>2, <3>2
  <2>5. ASSUME NEW x \in SessionIds, CreateFails(x) PROVE t \in Resident(pool') /\ UsedAfter(t, s)
    BY <2>2, <2>5 DEF CreateFails
  <2>6. QED
    BY <2>3, <2>4, <2>5 DEF PoolNext
<1>2. QED
  BY <1>1, PoolInvariant, PTL DEF PoolSpec, EvictsOnlyOldest
=============================================================================
