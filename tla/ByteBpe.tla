------------------------------ MODULE ByteBpe ------------------------------
(***************************************************************************)
(* The byte-level BPE tokenizers of GLM-5.2 (src/glm52/tokenizer.rs, read  *)
(* from tokenizer.json) and Qwen 3.5 (src/qwen35/tokenizer.rs, read from   *)
(* the GGUF metadata): what each constructor accepts, and the encoding and *)
(* decoding they share.  A text is a sequence of code points, a token text *)
(* as well; inside a token of the vocabulary every byte is one character.  *)
(*                                                                         *)
(* A tokenizer is a record: vocabulary (text -> id), ranks (pair -> rank), *)
(* byId (whether merges are ranked by the id of what they make), atoms     *)
(* (the ids that are searched in the text as they are), decoded (id ->     *)
(* [text, verbatim, special]) and stops.                                   *)
(***************************************************************************)
EXTENDS Characters, FiniteSets, Functions

CONSTANTS
    MaxTokenId,                   \* MAX_TOKEN_ID
    Letters, Numbers, Whitespace  \* the code points char::is_alphabetic, is_numeric and
                                  \* is_whitespace hold of

-----------------------------------------------------------------------------
(* Bytes and their characters.                                             *)

DirectBytes == (33..126) \union (161..172) \union (174..255)

\* byte_to_unicode.
ByteToChar ==
    [byte \in 0..255 |->
        IF byte \in DirectBytes THEN byte ELSE 256 + Cardinality((0..(byte - 1)) \ DirectBytes)]

CharToByte == [char \in Range(ByteToChar) |-> CHOOSE byte \in 0..255 : ByteToChar[byte] = char]

ByteLevel(text) == LET bytes == BytesOf(text) IN [i \in DOMAIN bytes |-> ByteToChar[bytes[i]]]

-----------------------------------------------------------------------------
(* What the constructors accept.                                           *)

\* A merge is a pair of texts, or Malformed: no separator, an empty side, no string.
Malformed == <<>>

\* HashMap::insert for every merge: a repeated pair keeps its last rank.
Ranked(merges) ==
    [pair \in Range(merges) |-> Max({rank \in 1..Len(merges) : merges[rank] = pair})]

Repeated(added, i) == \E j \in 1..(i - 1) : added[j].content = added[i].content

\* Mutant of AddedClash: an added token may take the id of another one.
AddedRepeats(file) == \E i \in DOMAIN file.added : Repeated(file.added, i)

\* An added token whose text was added before, or whose id is taken, by a token of the
\* vocabulary of another text or by another added token.
AddedClash(file) ==
    LET added == file.added
        Taken(i) == \/ added[i].id \in Range(file.vocab)
                    \/ \E j \in 1..(i - 1) : added[j].id = added[i].id
        Own(i) == /\ added[i].content \in DOMAIN file.vocab
                  /\ file.vocab[added[i].content] = added[i].id
    IN  \E i \in DOMAIN added : Repeated(added, i) \/ (Taken(i) /\ ~Own(i))

\* The table of what an id decodes to: added tokens as they are, before the vocabulary.
GlmDecoded(file, ids) ==
    LET Added(id) == {a \in Range(file.added) : a.id = id}
    IN  [id \in ids |->
            IF Added(id) # {}
            THEN LET a == CHOOSE a \in Added(id) : TRUE
                 IN  [text |-> a.content, verbatim |-> TRUE, special |-> a.special]
            ELSE [text |-> CHOOSE text \in DOMAIN file.vocab : file.vocab[text] = id,
                  verbatim |-> FALSE, special |-> FALSE]]

\* Glm52Tokenizer::from_raw: file = [bpe, vocab, added, merges]; bpe is FALSE when the kind
\* or the flags of the model are others, added a sequence of [id, content, special].
GlmFromRaw(file) ==
    LET ids == Range(file.vocab) \union {a.id : a \in Range(file.added)}
    IN  IF ~file.bpe \/ \E id \in ids : id > MaxTokenId THEN Rejected("unsupported")
        ELSE IF Cardinality(Range(file.vocab)) < Cardinality(DOMAIN file.vocab) \/ AddedClash(file)
             THEN Rejected("duplicate")
        ELSE IF Malformed \in Range(file.merges) THEN Rejected("unsupported")
        ELSE [vocabulary |-> file.vocab, ranks |-> Ranked(file.merges),
              byId |-> file.merges = <<>>, atoms |-> {a.id : a \in Range(file.added)},
              decoded |-> GlmDecoded(file, ids)]

\* An entry of the wrong type is refused as a missing one is, so it is left out as well.
Has(metadata, key) == key \in DOMAIN metadata

StopTexts == {"endoftext", "im_end", "fim_pad", "repo_name", "file_sep"}

\* Qwen35Tokenizer::from_gguf: the metadata of the file, keys without "tokenizer.ggml.";
\* Marker gives the texts of the stop tokens it looks up by name.
QwenFromGguf(metadata, Marker) ==
    LET tokens == metadata["tokens"]
        types  == metadata["token_type"]
        ids    == 0..(Len(tokens) - 1)
        IdOf(text) == (CHOOSE i \in DOMAIN tokens : tokens[i] = text) - 1
        named  == {Marker[name] : name \in StopTexts} \intersect Range(tokens)
    IN  IF ~(Has(metadata, "model") /\ metadata["model"] = "gpt2") THEN Rejected("model")
        ELSE IF ~(Has(metadata, "pre") /\ metadata["pre"] = "qwen35") THEN Rejected("pre")
        ELSE IF \E key \in {"tokens", "token_type", "merges"} : ~Has(metadata, key)
             THEN Rejected("missing")
        ELSE IF Len(tokens) # Len(types) THEN Rejected("length")
        ELSE IF Cardinality(Range(tokens)) < Len(tokens) THEN Rejected("duplicate token")
        ELSE IF Malformed \in Range(metadata["merges"]) THEN Rejected("merge")
        ELSE IF ~Has(metadata, "eos_token_id") \/ metadata["eos_token_id"] >= Len(tokens)
             THEN Rejected("eos")
        ELSE [vocabulary |-> [text \in Range(tokens) |-> IdOf(text)],
              ranks |-> Ranked(metadata["merges"]),
              byId |-> FALSE,
              atoms |-> {id \in ids : types[id + 1] \in {3, 4}},
              decoded |-> [id \in ids |-> [text |-> tokens[id + 1],
                                           verbatim |-> types[id + 1] = 3,
                                           special |-> types[id + 1] = 3]],
              stops |-> {metadata["eos_token_id"]} \union {IdOf(text) : text \in named}]

-----------------------------------------------------------------------------
(* The pieces a text is cut into before they are merged (pretoken_ranges,   *)
(* the same in both files).                                                *)

Newlines == {10, 13}
Apostrophe == 39

\* They are whitespace to char::is_whitespace.
ASSUME ByteBpeAssumption == Newlines \union {Space} \subseteq Whitespace

\* is_punctuation_group.
PunctuationOf(text) == Range(text) \ (Letters \union Numbers \union Whitespace)

\* to_ascii_lowercase.
Lower(c) == IF c \in 65..90 THEN c + 32 ELSE c

Contractions1 == {115, 116, 109, 100}                       \* s t m d
Contractions2 == {<<114, 101>>, <<118, 101>>, <<108, 108>>} \* re ve ll

\* The end of the run of characters of a class that begins at i: the position after it.
RunEnd(text, i, class) ==
    Min({j \in i..(Len(text) + 1) : j > Len(text) \/ text[j] \notin class})

At(text, i, class) == i <= Len(text) /\ text[i] \in class

\* Mutant of SpaceEnd: a run of spaces keeps the one before a word.
SpaceEndGreedy(text, i) == RunEnd(text, i, Whitespace)

\* The end of a whitespace piece.
SpaceEnd(text, i) ==
    LET end      == RunEnd(text, i, Whitespace)
        newlines == {j \in i..(end - 1) : text[j] \in Newlines}
    IN  IF newlines # {} THEN Max(newlines) + 1
        ELSE IF end <= Len(text) THEN Max({end - 1, i + 1})
        ELSE end

\* The position after the piece that begins at i: the first rule that applies.
PieceEnd(text, i) ==
    LET marks == PunctuationOf(text)
        c     == text[i]
        tail  == IF i < Len(text) THEN Lower(text[i + 1]) ELSE 0
        tail2 == IF i + 1 < Len(text) THEN Lower(text[i + 2]) ELSE 0
        word  == IF c \in Letters \union Numbers \union Newlines THEN i ELSE i + 1
        mark  == IF c = Space /\ At(text, i + 1, marks) THEN i + 1 ELSE i
    IN  IF c = Apostrophe /\ <<tail, tail2>> \in Contractions2 THEN i + 3
        ELSE IF c = Apostrophe /\ tail \in Contractions1 THEN i + 2
        ELSE IF At(text, word, Letters) THEN RunEnd(text, word, Letters)
        ELSE IF c \in Numbers THEN Min({RunEnd(text, i, Numbers), i + 3})
        ELSE IF At(text, mark, marks) THEN RunEnd(text, RunEnd(text, mark, marks), Newlines)
        ELSE IF c \in Whitespace THEN SpaceEnd(text, i)
        ELSE i + 1

\* A text as the pieces that end before ends[i] where they begin at i.
CutAt(text, ends) ==
    LET from[i \in 1..(Len(text) + 1)] ==
            IF i > Len(text) THEN <<>>
            ELSE <<SubSeq(text, i, ends[i] - 1)>> \o from[ends[i]]
    IN  from[1]

\* pretoken_ranges, as the pieces themselves.
Pretokens(text) == CutAt(text, [i \in DOMAIN text |-> PieceEnd(text, i)])

-----------------------------------------------------------------------------
(* Encoding.                                                               *)

\* The rank of merging two symbols; smaller is merged first.
RankOf(tokenizer, left, right) ==
    IF tokenizer.byId THEN tokenizer.vocabulary[left \o right]
    ELSE tokenizer.ranks[<<left, right>>]

Mergeable(tokenizer, left, right) ==
    IF tokenizer.byId THEN left \o right \in DOMAIN tokenizer.vocabulary
    ELSE <<left, right>> \in DOMAIN tokenizer.ranks

MergePairs(tokenizer, symbols) ==
    {i \in 1..(Len(symbols) - 1) : Mergeable(tokenizer, symbols[i], symbols[i + 1])}

\* One round of the merge loop: the leftmost pair of the lowest rank.
MergeOnce(tokenizer, symbols) ==
    LET pairs == MergePairs(tokenizer, symbols)
        Rank(i) == RankOf(tokenizer, symbols[i], symbols[i + 1])
        best  == {i \in pairs : \A j \in pairs : Rank(i) <= Rank(j)}
        at    == Min(best)
    IN  IF pairs = {} THEN symbols
        ELSE SubSeq(symbols, 1, at - 1) \o <<symbols[at] \o symbols[at + 1]>>
                \o SubSeq(symbols, at + 2, Len(symbols))

\* A symbol without a token: the encoding fails with UnknownSymbol.
Unknown == -1

IdOrUnknown(tokenizer, text) ==
    IF text \in DOMAIN tokenizer.vocabulary THEN tokenizer.vocabulary[text] ELSE Unknown

\* encode_piece.
EncodePiece(tokenizer, piece) ==
    LET encoded == ByteLevel(piece)
        Round(symbols, round) == MergeOnce(tokenizer, symbols)
        symbols == FoldLeft(Round, [i \in DOMAIN encoded |-> <<encoded[i]>>], encoded)
    IN  IF encoded \in DOMAIN tokenizer.vocabulary THEN <<tokenizer.vocabulary[encoded]>>
        ELSE [i \in DOMAIN symbols |-> IdOrUnknown(tokenizer, symbols[i])]

\* encode_chunk.
EncodeChunk(tokenizer, chunk) ==
    LET pieces == Pretokens(chunk)
    IN  FlattenSeq([i \in DOMAIN pieces |-> EncodePiece(tokenizer, pieces[i])])

AtomsAt(tokenizer, text, i) ==
    {id \in tokenizer.atoms :
        IsPrefix(tokenizer.decoded[id].text, SubSeq(text, i, Len(text)))}

\* encode: between the tokens found in the text as they are, the leftmost and of those
\* the longest first, the chunks are merged.
BpeEncode(tokenizer, text) ==
    LET Length(id) == Len(tokenizer.decoded[id].text)
        from[i \in 1..(Len(text) + 1)] ==
            LET hits == {j \in i..Len(text) : AtomsAt(tokenizer, text, j) # {}}
                next == Min(hits)
                here == AtomsAt(tokenizer, text, next)
                atom == CHOOSE id \in here : \A other \in here : Length(id) >= Length(other)
            IN  IF i > Len(text) THEN <<>>
                ELSE IF hits = {} THEN EncodeChunk(tokenizer, SubSeq(text, i, Len(text)))
                ELSE EncodeChunk(tokenizer, SubSeq(text, i, next - 1))
                        \o <<atom>> \o from[next + Length(atom)]
    IN  from[1]

-----------------------------------------------------------------------------
(* Decoding.                                                               *)

\* decode_token_bytes; Unknown where a character stands for no byte.
DecodeTokenBytes(tokenizer, id, includeSpecial) ==
    LET token == tokenizer.decoded[id]
    IN  IF token.special /\ ~includeSpecial THEN <<>>
        ELSE IF token.verbatim THEN BytesOf(token.text)
        ELSE [i \in DOMAIN token.text |->
                 IF token.text[i] \in DOMAIN CharToByte THEN CharToByte[token.text[i]]
                 ELSE Unknown]

\* decode.
BpeDecode(tokenizer, ids, includeSpecial) ==
    FlattenSeq([i \in DOMAIN ids |-> DecodeTokenBytes(tokenizer, ids[i], includeSpecial)])
=============================================================================
