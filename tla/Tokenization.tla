---------------------------- MODULE Tokenization ----------------------------
(***************************************************************************)
(* A tokenizer is built from a file of one of the three families and then  *)
(* given texts of growing length.  Files that a constructor refuses stay   *)
(* without a tokenizer.                                                    *)
(***************************************************************************)
EXTENDS ByteBpe, ScoredSpm

CONSTANTS
    Marker,                              \* the texts of Qwen's stop tokens
    TokenizerFiles,                      \* name -> [family, content]
    Alphabet,                            \* the characters of the texts of a family
    MaxText                              \* a bound: the longest text

ASSUME TokenizationAssumption ==
    /\ \A name \in DOMAIN TokenizerFiles : TokenizerFiles[name].family \in DOMAIN Alphabet
    /\ \A family \in DOMAIN Alphabet : Alphabet[family] \subseteq Nat

VARIABLES
    file,   \* the name of the file
    built,  \* "no", "yes" or "rejected"
    text    \* the text to encode

tokenizationVars == <<file, built, text>>

\* from_directory, from_gguf and take_from_gguf.
FromFile(family, content) ==
    CASE family = "glm" -> GlmFromRaw(content)
      [] family = "qwen" -> QwenFromGguf(content, Marker)
      [] family = "gemma" -> TakeFromGguf(content)

Tokenizers ==
    [name \in DOMAIN TokenizerFiles |->
        FromFile(TokenizerFiles[name].family, TokenizerFiles[name].content)]

tokenizer == Tokenizers[file]
Family == TokenizerFiles[file].family

TokenizationInit == file \in DOMAIN TokenizerFiles /\ built = "no" /\ text = <<>>

\* The constructor succeeds or refuses the file.
Build ==
    /\ built = "no"
    /\ built' = IF "error" \in DOMAIN tokenizer THEN "rejected" ELSE "yes"
    /\ UNCHANGED <<file, text>>

\* One more character to encode.
Lengthen ==
    /\ built = "yes" /\ Len(text) < MaxText
    /\ \E c \in Alphabet[Family] : text' = Append(text, c)
    /\ UNCHANGED <<file, built>>

TokenizationNext == Build \/ Lengthen

TokenizationSpec == TokenizationInit /\ [][TokenizationNext]_tokenizationVars
-----------------------------------------------------------------------------
(* The pattern that pretoken_ranges stands for, as languages of words:     *)
(*   contraction | [^\r\n\p{L}\p{N}]?\p{L}+ | \p{N}{1,3} |                 *)
(*   ?[^\s\p{L}\p{N}]+[\r\n]* (a space before) | \s*[\r\n]+ |              *)
(*   \s+ not before a character that is no whitespace | \s+                *)

All(word, S) == Range(word) \subseteq S
Tail2(word, n) == SubSeq(word, n + 1, Len(word))

\* No character: what follows the last one of a text.
TextEnd == -1

\* word is matched by alternative k when next is the character after it.
InLanguage(k, word, next) ==
    \/ /\ k = 1 /\ word[1] = Apostrophe
       /\ \/ Len(word) = 2 /\ Lower(word[2]) \in Contractions1
          \/ Len(word) = 3 /\ <<Lower(word[2]), Lower(word[3])>> \in Contractions2
    \/ /\ k = 2
       /\ \E n \in {0, 1} :
             /\ Len(word) > n /\ All(Tail2(word, n), Letters)
             /\ n = 1 => word[1] \notin Letters \union Numbers \union Newlines
    \/ k = 3 /\ Len(word) \in 1..3 /\ All(word, Numbers)
    \/ /\ k = 4
       /\ \E n \in {0, 1}, m \in 1..Len(word) :
             /\ m > n /\ All(SubSeq(word, n + 1, m), PunctuationOf(word))
             /\ All(Tail2(word, m), Newlines)
             /\ n = 1 => word[1] = Space
    \/ k = 5 /\ All(word, Whitespace) /\ word[Len(word)] \in Newlines
    \/ k = 6 /\ All(word, Whitespace) /\ next \in Whitespace \union {TextEnd}
    \/ k = 7 /\ All(word, Whitespace)

\* Where a match of alternative k from i on may end.
MatchEnds(k, t, i) ==
    {j \in (i + 1)..(Len(t) + 1) :
        InLanguage(k, SubSeq(t, i, j - 1), IF j > Len(t) THEN TextEnd ELSE t[j])}

\* The first alternative that matches something at i, and its longest match.
PatternEnd(t, i) ==
    Max(MatchEnds(Min({k \in 1..7 : MatchEnds(k, t, i) # {}}), t, i))

PatternPieces(t) == CutAt(t, [i \in DOMAIN t |-> PatternEnd(t, i)])

\* The tokenizers' scanner is the pattern of the GPT-2 family: cut where the leftmost
\* alternative's longest match ends, so no character is skipped or taken twice.
PiecesMatchPattern ==
    built = "yes" /\ Family # "gemma" => Pretokens(text) = PatternPieces(text)

\* The bytes of a text without its spaces: Gemma adds a space to every raw part and writes
\* the low line as a space.
Spaceless(bytes) ==
    LET low == <<226, 150, 129>>
        from[i \in 1..(Len(bytes) + 1)] ==
            IF i > Len(bytes) THEN <<>>
            ELSE IF bytes[i] = Space THEN from[i + 1]
            ELSE IF IsPrefix(low, SubSeq(bytes, i, Len(bytes))) THEN from[i + 3]
            ELSE <<bytes[i]>> \o from[i + 1]
    IN  from[1]

\* Whatever text a tokenizer built from an accepted file is given, decoding the encoding
\* gives the text again (tests/glm52_tokenizer_reference.rs:79, tests/qwen35_reference.rs:62,
\* and but for spaces tests/local_ollama_smoke.rs:130): special tokens, multi-byte
\* characters cut by merges and characters without a token included.
RoundTrip ==
    built = "yes" =>
        IF Family = "gemma"
        THEN LET ids == SpmEncode(tokenizer, text, FALSE)
             IN  Spaceless(SpmDecode(tokenizer, ids, FALSE)) = Spaceless(BytesOf(text))
        ELSE LET ids == BpeEncode(tokenizer, text)
             IN  Unknown \notin Range(ids)
                 /\ BpeDecode(tokenizer, ids, TRUE) = BytesOf(text)

\* Merging the adjacent pair with the best-scored token, the leftmost of equals, as long
\* as there is one.
GreedyOnce(symbols) ==
    LET Joint(i) == symbols[i] \o symbols[i + 1]
        Score(i) == tokenizer.scores[SpmIdOf(tokenizer, Joint(i)) + 1]
        pairs == {i \in 1..(Len(symbols) - 1) : SpmKnown(tokenizer, Joint(i))}
        best  == Min({i \in pairs : \A j \in pairs : Score(i) >= Score(j)})
    IN  IF pairs = {} THEN symbols
        ELSE SubSeq(symbols, 1, best - 1) \o <<Joint(best)>>
                \o SubSeq(symbols, best + 2, Len(symbols))

\* NOTES.md, "scored SentencePiece": the heap with its outdated candidates merges exactly
\* what rescanning all pairs after every merge would, so no stale merge is ever applied and
\* none that a merge made possible is missed.
MergesAreGreedy ==
    built = "yes" /\ Family = "gemma" =>
        SpmSymbols(tokenizer, text)
            = FoldLeft(LAMBDA symbols, c : GreedyOnce(symbols),
                       [i \in DOMAIN text |-> <<text[i]>>], text)
=============================================================================
