----------------------------- MODULE ScoredSpm -----------------------------
(***************************************************************************)
(* The tokenizer of Gemma 4 (Gemma4Tokenizer, src/gemma4.rs): scored       *)
(* SentencePiece over the GGUF metadata.  The candidate merges wait in a   *)
(* heap while the symbols they speak of change; an outdated candidate is   *)
(* recognised when it is taken out.  Texts are sequences of code points.   *)
(*                                                                         *)
(* A tokenizer is a record: tokens (a sequence of texts, the id is the     *)
(* position less one), types, scores, and the ids bos and unknown.         *)
(***************************************************************************)
EXTENDS Characters, FiniteSets, Functions

CONSTANTS
    VocabularySize,  \* 262144
    SpecialTexts     \* [name -> text]: pad, eos, bos, unk, end_of_turn and the channels

LowLine == 9601  \* the character that stands for a space in the tokens

Control == 3
UserDefined == 4
TokenTypes == 0..6

-----------------------------------------------------------------------------
\* Gemma4Tokenizer::take_from_gguf: what is accepted, in the order of its checks; the
\* arrays are taken out of the metadata whatever comes of them.
ScalarKeys ==
    {"bos_token_id", "eos_token_id", "padding_token_id", "unknown_token_id", "add_bos_token",
     "add_eos_token"}
TakenKeys == {"tokens", "scores", "token_type", "eos_token_ids"}

TakeFromGguf(metadata) ==
    LET tokens == metadata["tokens"]
        ids    == 0..(Len(tokens) - 1)
        stops  == Range(metadata["eos_token_ids"])
        IdOf(name) == IF SpecialTexts[name] \in Range(tokens)
                      THEN (CHOOSE i \in DOMAIN tokens : tokens[i] = SpecialTexts[name]) - 1
                      ELSE -1
        given == [pad |-> metadata["padding_token_id"], eos |-> metadata["eos_token_id"],
                  bos |-> metadata["bos_token_id"], unk |-> metadata["unknown_token_id"]]
    IN  IF \/ ~({"model", "pre"} \subseteq DOMAIN metadata)
           \/ metadata["model"] # "llama" \/ metadata["pre"] # "gemma4"
        THEN Rejected("model")
        ELSE IF ~(ScalarKeys \subseteq DOMAIN metadata) THEN Rejected("missing")
        ELSE IF metadata["add_bos_token"] \/ metadata["add_eos_token"] THEN Rejected("bos")
        ELSE IF ~(TakenKeys \subseteq DOMAIN metadata) THEN Rejected("missing")
        ELSE IF \/ Len(tokens) # VocabularySize
                \/ Len(metadata["scores"]) # Len(tokens)
                \/ Len(metadata["token_type"]) # Len(tokens)
             THEN Rejected("length")
        ELSE IF ~(Range(metadata["token_type"]) \subseteq TokenTypes) THEN Rejected("type")
        ELSE IF Cardinality(Range(tokens)) < Len(tokens) THEN Rejected("duplicate")
        ELSE IF ~(Range(given) \union stops \subseteq ids) \/ given.eos \notin stops
             THEN Rejected("id")
        ELSE IF \E name \in DOMAIN given : IdOf(name) # given[name] THEN Rejected("special")
        ELSE IF \E name \in DOMAIN SpecialTexts : IdOf(name) = -1 THEN Rejected("special")
        ELSE IF IdOf("end_of_turn") \notin stops THEN Rejected("id")
        ELSE [tokens |-> tokens, types |-> metadata["token_type"],
              scores |-> metadata["scores"], bos |-> given.bos, unknown |-> given.unk,
              stops |-> stops]

-----------------------------------------------------------------------------
(* The vocabulary.                                                         *)

SpmKnown(tokenizer, text) == text \in Range(tokenizer.tokens)
SpmIdOf(tokenizer, text) == (CHOOSE i \in DOMAIN tokenizer.tokens : tokenizer.tokens[i] = text) - 1

IsSpecial(tokenizer, id) == tokenizer.types[id + 1] \in {Control, UserDefined}
Specials(tokenizer) ==
    {id \in 0..(Len(tokenizer.tokens) - 1) :
        IsSpecial(tokenizer, id) /\ tokenizer.tokens[id + 1] # <<>>}

HexDigit(char, digit) ==
    char \in (IF digit < 10 THEN {48 + digit} ELSE {55 + digit, 87 + digit})

\* parse_byte_token: the byte of a text "<0x..>", as a set of at most one; the parser of
\* the two digits also takes a sign for the first.
ByteOf(text) ==
    {byte \in 0..255 :
        /\ Len(text) = 6 /\ SubSeq(text, 1, 3) = <<60, 48, 120>> /\ text[6] = 62
        /\ HexDigit(text[4], byte \div 16) \/ (byte < 16 /\ text[4] = 43)
        /\ HexDigit(text[5], byte % 16)}

\* byte_tokens: the last token of a byte.
IdsOfByte(tokenizer, byte) ==
    {id \in 0..(Len(tokenizer.tokens) - 1) : byte \in ByteOf(tokenizer.tokens[id + 1])}

-----------------------------------------------------------------------------
(* encode_spm: the symbols are a linked list of texts, the work a set of   *)
(* candidates [score, left, right, byteLen].                               *)

NoSymbol == 0

Candidate(tokenizer, symbols, left, right) ==
    LET combined == symbols[left].text \o symbols[right].text
    IN  IF SpmKnown(tokenizer, combined)
        THEN {[score |-> tokenizer.scores[SpmIdOf(tokenizer, combined) + 1],
               left |-> left, right |-> right, byteLen |-> Len(BytesOf(combined))]}
        ELSE {}

Queued(tokenizer, symbols, left, right) ==
    IF left = NoSymbol \/ right = NoSymbol THEN {} ELSE Candidate(tokenizer, symbols, left, right)

\* The order of the heap: the highest score, then the leftmost.
FirstCandidate(work) ==
    CHOOSE c \in work : \A d \in work :
        c.score > d.score \/ (c.score = d.score /\ c.left <= d.left)

\* Mutant of Outdated: the length of what would be merged is not compared.
OutdatedByLinks(symbols, c) ==
    \/ ~symbols[c.left].active \/ ~symbols[c.right].active
    \/ symbols[c.left].next # c.right

\* The checks that skip a candidate.
Outdated(symbols, c) ==
    \/ ~symbols[c.left].active \/ ~symbols[c.right].active
    \/ symbols[c.left].next # c.right
    \/ Len(BytesOf(symbols[c.left].text \o symbols[c.right].text)) # c.byteLen

\* The right symbol joins the left one.
Joined(symbols, c) ==
    LET next == symbols[c.right].next
    IN  [i \in DOMAIN symbols |->
            IF i = c.left
            THEN [symbols[i] EXCEPT !.text = @ \o symbols[c.right].text, !.next = next]
            ELSE IF i = c.right THEN [symbols[i] EXCEPT !.text = <<>>, !.active = FALSE]
            ELSE IF i = next THEN [symbols[i] EXCEPT !.previous = c.left]
            ELSE symbols[i]]

\* One iteration of the loop.
PopOnce(tokenizer, state) ==
    LET c      == FirstCandidate(state.work)
        rest   == state.work \ {c}
        joined == Joined(state.symbols, c)
    IN  IF state.work = {} THEN state
        ELSE IF Outdated(state.symbols, c) THEN [state EXCEPT !.work = rest]
        ELSE [symbols |-> joined,
              work |-> rest
                  \union Queued(tokenizer, joined, joined[c.left].previous, c.left)
                  \union Queued(tokenizer, joined, c.left, joined[c.left].next)]

\* The symbols when the heap is empty; every pop either drops a candidate or joins two
\* symbols and adds at most two, so three pops for each character are enough.
SpmSymbols(tokenizer, text) ==
    LET symbols == [i \in DOMAIN text |->
                       [text |-> <<text[i]>>, active |-> TRUE,
                        previous |-> i - 1, next |-> IF i = Len(text) THEN NoSymbol ELSE i + 1]]
        work == UNION {Queued(tokenizer, symbols, i, i + 1) : i \in 1..(Len(text) - 1)}
        Pop(state, round) == PopOnce(tokenizer, state)
        final == FoldLeft(Pop, [symbols |-> symbols, work |-> work], text \o text \o text)
        chain[i \in 0..Len(text)] ==
            IF i = NoSymbol THEN <<>>
            ELSE <<final.symbols[i].text>> \o chain[final.symbols[i].next]
    IN  IF text = <<>> THEN <<>> ELSE chain[1]

\* emit_spm_symbol: the bytes of a symbol without a token.
EmitSymbol(tokenizer, text) ==
    LET bytes == BytesOf(text)
    IN  IF SpmKnown(tokenizer, text) THEN <<SpmIdOf(tokenizer, text)>>
        ELSE [i \in DOMAIN bytes |->
                 IF IdsOfByte(tokenizer, bytes[i]) = {} THEN tokenizer.unknown
                 ELSE Max(IdsOfByte(tokenizer, bytes[i]))]

\* encode_raw: every space becomes the low line, and one more leads.
Normalized(raw) ==
    <<LowLine>> \o [i \in DOMAIN raw |-> IF raw[i] = Space THEN LowLine ELSE raw[i]]

EncodeRaw(tokenizer, raw) ==
    LET symbols == SpmSymbols(tokenizer, Normalized(raw))
    IN  IF raw = <<>> THEN <<>>
        ELSE FlattenSeq([i \in DOMAIN symbols |-> EmitSymbol(tokenizer, symbols[i])])

SpecialsAt(tokenizer, text, i) ==
    {id \in Specials(tokenizer) :
        IsPrefix(tokenizer.tokens[id + 1], SubSeq(text, i, Len(text)))}

\* encode: the special tokens of the text and, between them, what is raw.
SpmEncode(tokenizer, text, addBos) ==
    LET Length(id) == Len(tokenizer.tokens[id + 1])
        from[i \in 1..(Len(text) + 1)] ==
            LET hits == {j \in i..Len(text) : SpecialsAt(tokenizer, text, j) # {}}
                next == Min(hits)
                here == SpecialsAt(tokenizer, text, next)
                special == CHOOSE id \in here : \A other \in here : Length(id) >= Length(other)
            IN  IF hits = {} THEN EncodeRaw(tokenizer, SubSeq(text, i, Len(text)))
                ELSE EncodeRaw(tokenizer, SubSeq(text, i, next - 1))
                        \o <<special>> \o from[next + Length(special)]
    IN  (IF addBos THEN <<tokenizer.bos>> ELSE <<>>) \o from[1]

\* decode: a byte token is its byte, every other token its text with spaces.
SpmDecode(tokenizer, ids, skipSpecial) ==
    LET Text(id) == tokenizer.tokens[id + 1]
        Spaced(text) == [i \in DOMAIN text |-> IF text[i] = LowLine THEN Space ELSE text[i]]
        BytesOfToken(id) ==
            IF id >= Len(tokenizer.tokens) \/ (skipSpecial /\ IsSpecial(tokenizer, id)) THEN <<>>
            ELSE IF ByteOf(Text(id)) # {} THEN SetToSeq(ByteOf(Text(id)))
            ELSE BytesOf(Spaced(Text(id)))
    IN  FlattenSeq([i \in DOMAIN ids |-> BytesOfToken(ids[i])])
=============================================================================
