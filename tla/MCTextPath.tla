----------------------------- MODULE MCTextPath -----------------------------
(***************************************************************************)
(* The way of a text through a turn, composed and made small for TLC:      *)
(* messages are rendered (ChatTemplate), the prompt becomes tokens         *)
(* (Tokenization), each forward pass gives logits one token is drawn from  *)
(* (Sampler), and the bytes of the drawn tokens are streamed as text       *)
(* (Utf8Stream).  The parts share no state, so a behaviour is one of one   *)
(* part.                                                                   *)
(***************************************************************************)
EXTENDS MCUtf8Stream, Tokenization, Sampler, ChatTemplate

VARIABLES
    part  \* the part of the path

pathVars == <<part, vars, tokenizationVars, samplerVars, chatVars>>

PathInit ==
    \/ /\ part = "stream" /\ Init
       /\ file = "none" /\ built = "no" /\ text = <<>>
       /\ logits = <<>> /\ config = <<>> /\ drawn = {}
       /\ template = "glm" /\ conversation = <<>>
    \/ /\ part = "tokenizer" /\ Init /\ TokenizationInit
       /\ logits = <<>> /\ config = <<>> /\ drawn = {}
       /\ template = "glm" /\ conversation = <<>>
    \/ /\ part = "sampler" /\ Init /\ SamplerInit
       /\ file = "none" /\ built = "no" /\ text = <<>>
       /\ template = "glm" /\ conversation = <<>>
    \/ /\ part = "template" /\ Init /\ ChatInit
       /\ file = "none" /\ built = "no" /\ text = <<>>
       /\ logits = <<>> /\ config = <<>> /\ drawn = {}

PathNext ==
    \/ part = "stream" /\ Next /\ UNCHANGED <<part, tokenizationVars, samplerVars, chatVars>>
    \/ part = "tokenizer" /\ TokenizationNext /\ UNCHANGED <<part, vars, samplerVars, chatVars>>
    \/ part = "sampler" /\ Draw /\ UNCHANGED <<part, vars, tokenizationVars, chatVars>>
    \/ part = "template" /\ Say /\ UNCHANGED <<part, vars, tokenizationVars, samplerVars>>

PathSpec == PathInit /\ [][PathNext]_pathVars
-----------------------------------------------------------------------------
(* Tokenizer files: one of each family with merges that cut characters,    *)
(* and files that a constructor has to refuse.                             *)

s == 115
r == 114
e == 101
S == 83
eAcute == 233
one == 49
sp == 32
nl == 10
tab == 9
cr == 13
quote == 39
dot == 46

Words == {s, r, e, S, eAcute}
Digits == {one}
Blanks == {sp, nl, cr, tab}

\* The byte-level characters of the alphabet: a space, a newline, a tab and the two bytes of
\* an accented letter have characters of their own.
Single == <<<<s>>, <<r>>, <<e>>, <<S>>, <<one>>, <<quote>>, <<dot>>,
            <<195>>, <<169>>, <<288>>, <<266>>, <<265>>>>

Merged == <<<<r, e>>, <<s, r>>, <<s, r, e>>, <<288, s>>, <<s, 195>>, <<195, 169>>>>

Numbered(texts) == [t \in Range(texts) |-> (CHOOSE i \in DOMAIN texts : texts[i] = t) - 1]

Merges == <<<<<<s>>, <<195>>>>, <<<<r>>, <<e>>>>, <<<<s>>, <<r>>>>, <<<<s>>, <<r, e>>>>,
            <<<<288>>, <<s>>>>, <<<<195>>, <<169>>>>>>

AddedTokens == <<[id |-> 20, content |-> <<s, dot>>, special |-> FALSE],
                 [id |-> 22, content |-> <<s, dot, one>>, special |-> TRUE],
                 [id |-> 0, content |-> <<s>>, special |-> FALSE]>>

GlmFile == [bpe |-> TRUE, vocab |-> Numbered(Single \o Merged),
            added |-> SubSeq(AddedTokens, 1, 2), merges |-> Merges]

\* The added token `s` has the id of the vocabulary's entry of the same text.
GlmRanked == [GlmFile EXCEPT !.merges = <<>>, !.added = AddedTokens]

GlmTwice == [GlmFile EXCEPT !.added[2].id = 3]
GlmSame == [GlmFile EXCEPT !.added[2].content = <<s, dot>>]
GlmHigh == [GlmFile EXCEPT !.added[1].id = 60]
GlmShared == [GlmFile EXCEPT !.vocab[<<r, e>>] = 1]

QwenFile ==
    [model |-> "gpt2", pre |-> "qwen35",
     tokens |-> Single \o Merged \o <<<<quote, one>>, <<one, dot>>>>,
     token_type |-> [i \in 1..20 |-> IF i < 19 THEN 1 ELSE i - 16],
     merges |-> Merges, eos_token_id |-> 18]

QwenShort == [QwenFile EXCEPT !.token_type = SubSeq(@, 1, 19)]
QwenTwice == [QwenFile EXCEPT !.tokens[20] = <<s>>]
QwenEos == [QwenFile EXCEPT !.eos_token_id = 20]

low == 9601
ByteToken(h, l) == <<60, 48, 120, h, l, 62>>

GemmaTokens == <<<<1>>, <<2>>, <<3>>, <<4>>, <<5>>, <<6>>, <<7>>, <<8>>,
    <<s>>, <<r>>, <<e>>, <<low>>, <<s, r>>, <<r, e>>, <<low, s>>, <<low, s, r>>,
    <<s, r, e, s>>, <<e, s>>, ByteToken(67, 51), ByteToken(65, 57), ByteToken(50, 101)>>

Named == [pad |-> <<1>>, eos |-> <<2>>, bos |-> <<3>>, unk |-> <<4>>, end_of_turn |-> <<5>>,
          turn |-> <<6>>, channel |-> <<7>>, channel_end |-> <<8>>]

GemmaFile ==
    [model |-> "llama", pre |-> "gemma4", add_bos_token |-> FALSE, add_eos_token |-> FALSE,
     tokens |-> GemmaTokens,
     scores |-> <<0, 0, 0, 0, 0, 0, 0, 0, 1, 1, 1, 1, 5, 7, 5, 9, 3, 6, 0, 0, 0>>,
     token_type |-> [i \in 1..21 |-> IF i <= 8 THEN 3 ELSE IF i >= 19 THEN 6 ELSE 1],
     eos_token_ids |-> <<1, 4>>, bos_token_id |-> 2, eos_token_id |-> 1,
     padding_token_id |-> 0, unknown_token_id |-> 3]

GemmaShort == [GemmaFile EXCEPT !.scores = SubSeq(@, 1, 20)]
GemmaTurn == [GemmaFile EXCEPT !.eos_token_ids = <<1>>]
GemmaTwice == [GemmaFile EXCEPT !.tokens[18] = <<s>>]
GemmaSwapped == [GemmaFile EXCEPT !.bos_token_id = 0]
GemmaUnnamed == [key \in DOMAIN GemmaFile \ {"model"} |-> GemmaFile[key]]
GemmaMissing == [key \in DOMAIN GemmaFile \ {"unknown_token_id"} |-> GemmaFile[key]]

Glm(content) == [family |-> "glm", content |-> content]
Qwen(content) == [family |-> "qwen", content |-> content]
Gemma(content) == [family |-> "gemma", content |-> content]

Files ==
    [glm |-> Glm(GlmFile), glmRanked |-> Glm(GlmRanked), glmTwice |-> Glm(GlmTwice),
     glmSame |-> Glm(GlmSame), glmHigh |-> Glm(GlmHigh), glmShared |-> Glm(GlmShared),
     qwen |-> Qwen(QwenFile), qwenShort |-> Qwen(QwenShort), qwenTwice |-> Qwen(QwenTwice),
     qwenEos |-> Qwen(QwenEos), gemma |-> Gemma(GemmaFile), gemmaShort |-> Gemma(GemmaShort),
     gemmaTurn |-> Gemma(GemmaTurn), gemmaTwice |-> Gemma(GemmaTwice),
     gemmaSwapped |-> Gemma(GemmaSwapped), gemmaUnnamed |-> Gemma(GemmaUnnamed),
     gemmaMissing |-> Gemma(GemmaMissing)]

Bytewise == Words \union Digits \union {sp, nl, tab, quote, dot}
Alphabets == [glm |-> Bytewise, qwen |-> Bytewise,
              gemma |-> {s, r, e, sp, low, dot, 5} \union {eAcute}]

StopMarks ==
    [endoftext |-> <<quote, one>>, im_end |-> <<2>>, fim_pad |-> <<3>>, repo_name |-> <<4>>,
     file_sep |-> <<5>>]
-----------------------------------------------------------------------------
(* Logits, sampling configurations and messages.                           *)

\* Three tokens; equal logits and masked ones among them.
ThreeLogits == [0..2 -> {NonFinite, 0, 1, 3}]
Powers == [logit \in {0, 1, 3} |-> 2 ^ logit]

Fraction(n, d) == [num |-> n, den |-> d]

\* Every way of the filters: none, the whole vocabulary, more than it, and cutoffs at and
\* between the cumulative weights.
Configurations ==
    [greedy : BOOLEAN, top_k : {0, 1, 2, 5},
     top_p : {Fraction(1, 2), Fraction(4, 5), Fraction(1, 1)}]

\* A message of blanks only, and blanks around a word.
Messages == {<<>>, <<s>>, <<sp, s, nl>>}
=============================================================================
