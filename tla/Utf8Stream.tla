----------------------------- MODULE Utf8Stream -----------------------------
(***************************************************************************)
(* The text a generation streams.  GLM-5.2 and Qwen 3.5 (src/glm52/cpu.rs, *)
(* src/qwen35/cpu.rs) are buffered: the bytes of each token join the       *)
(* pending ones, what is valid UTF-8 is sent, and the rest waits for the   *)
(* next token or for the end, when it is replaced as the decoding of the   *)
(* whole answer does.  Gemma (src/gemma4/cpu.rs and metal.rs) decodes each *)
(* token on its own (tokenizer.decode(&[next], true)) and the whole answer *)
(* once more for the result.                                               *)
(***************************************************************************)
EXTENDS Integers, Sequences, SequencesExt

(***************************************************************************)
(* What the standard library does with bytes that may be UTF-8             *)
(* (std::str::from_utf8, String::from_utf8_lossy), over classes of bytes:  *)
(* a byte that is a character, the leads of characters of two and three    *)
(* bytes, a continuation, and a byte that occurs in no character.  Leads   *)
(* of four bytes and the leads that restrict their first continuation      *)
(* behave as these do.                                                     *)
(***************************************************************************)
Bytes == {"ascii", "lead2", "lead3", "cont", "bad"}

\* A character is the sequence of its bytes; U+FFFD replaces bytes that are none.
Replacement == <<"U+FFFD">>

Width(lead) == [ascii |-> 1, lead2 |-> 2, lead3 |-> 3, cont |-> 1, bad |-> 1][lead]

\* One more byte after the characters `chars` and the beginning `part` of the next one.
Step(acc, byte) ==
    LET grown  == Append(acc.part, byte)
        broken == IF acc.part = <<>> THEN acc.chars ELSE Append(acc.chars, Replacement)
    IN  CASE byte = "cont" /\ acc.part # <<>> ->
               IF Len(grown) = Width(grown[1])
               THEN [chars |-> Append(acc.chars, grown), part |-> <<>>]
               ELSE [chars |-> acc.chars, part |-> grown]
          [] byte = "ascii" -> [chars |-> Append(broken, <<byte>>), part |-> <<>>]
          [] byte \in {"lead2", "lead3"} -> [chars |-> broken, part |-> <<byte>>]
          [] OTHER -> [chars |-> Append(broken, Replacement), part |-> <<>>]

Decoded(bytes) ==
    LET after[n \in 0..Len(bytes)] ==
            IF n = 0 THEN [chars |-> <<>>, part |-> <<>>] ELSE Step(after[n - 1], bytes[n])
    IN  after[Len(bytes)]

\* String::from_utf8_lossy.
Lossy(bytes) ==
    LET d == Decoded(bytes) IN
    IF d.part = <<>> THEN d.chars ELSE Append(d.chars, Replacement)

\* std::str::from_utf8 succeeds.
IsUtf8(bytes) ==
    LET d == Decoded(bytes) IN d.part = <<>> /\ \A i \in DOMAIN d.chars : d.chars[i] # Replacement

\* valid_up_to: the longest beginning that is valid, and its characters.
ValidUpTo(bytes) == Max({n \in 0..Len(bytes) : IsUtf8(SubSeq(bytes, 1, n))})
ValidPrefix(bytes) == Decoded(SubSeq(bytes, 1, ValidUpTo(bytes))).chars
-----------------------------------------------------------------------------
CONSTANTS
    Vocabulary, \* the byte strings of the tokens
    Buffered,   \* whether incomplete characters wait in pending_utf8
    MaxTokens   \* the turn's maximum_new_tokens, and a bound

ASSUME Utf8StreamAssumption ==
    /\ Buffered \in BOOLEAN
    /\ Vocabulary \subseteq Seq(Bytes)
    /\ MaxTokens \in Nat

VARIABLES
    count,      \* number of generated tokens
    bytes,      \* the bytes of all generated tokens
    pending,    \* pending_utf8
    streamed,   \* the characters passed to on_token so far
    ended       \* "no", "complete" or "failed"

vars == <<count, bytes, pending, streamed, ended>>

Init ==
    /\ count = 0
    /\ bytes = <<>> /\ pending = <<>> /\ streamed = <<>>
    /\ ended = "no"

\* Mutant of Drain: the valid prefix is sent but only a whole buffer is taken out.
DrainKeeping(buffer, final) ==
    CASE IsUtf8(buffer) -> [piece |-> ValidPrefix(buffer), rest |-> <<>>]
      [] ~IsUtf8(buffer) /\ ValidUpTo(buffer) > 0 ->
           [piece |-> ValidPrefix(buffer), rest |-> buffer]
      [] OTHER -> [piece |-> IF final THEN Lossy(buffer) ELSE <<>>,
                   rest  |-> IF final THEN <<>> ELSE buffer]

\* Mutant of Drain: a buffer that is not valid as a whole waits.
DrainWhole(buffer, final) ==
    IF IsUtf8(buffer) \/ final
    THEN [piece |-> Lossy(buffer), rest |-> <<>>]
    ELSE [piece |-> <<>>, rest |-> buffer]

\* drain_valid_utf8.
Drain(buffer, final) ==
    CASE IsUtf8(buffer) -> [piece |-> ValidPrefix(buffer), rest |-> <<>>]
      [] ~IsUtf8(buffer) /\ ValidUpTo(buffer) > 0 ->
           [piece |-> ValidPrefix(buffer),
            rest  |-> SubSeq(buffer, ValidUpTo(buffer) + 1, Len(buffer))]
      [] OTHER -> [piece |-> IF final THEN Lossy(buffer) ELSE <<>>,
                   rest  |-> IF final THEN <<>> ELSE buffer]

Sent(drained) ==
    /\ streamed' = streamed \o drained.piece
    /\ pending' = drained.rest

\* What the stream makes of the bytes of one more token.
StreamOf(token) ==
    IF Buffered THEN Drain(pending \o token, FALSE) ELSE [piece |-> Lossy(token), rest |-> <<>>]

\* A generated token that is no stop token.
Generate ==
    /\ ended = "no" /\ count < MaxTokens
    /\ \E token \in Vocabulary :
         /\ bytes' = bytes \o token
         /\ Sent(StreamOf(token))
    /\ count' = count + 1
    /\ UNCHANGED ended

\* A stop token or the end of the budget: what is pending is flushed.
Complete ==
    /\ ended = "no"
    /\ IF pending = <<>> THEN UNCHANGED <<streamed, pending>> ELSE Sent(Drain(pending, TRUE))
    /\ ended' = "complete"
    /\ UNCHANGED <<count, bytes>>

\* A forward pass fails or the flag is seen: nothing is flushed.
Fail ==
    /\ ended = "no"
    /\ ended' = "failed"
    /\ UNCHANGED <<count, bytes, pending, streamed>>

Next == Generate \/ Complete \/ Fail

Spec == Init /\ [][Next]_vars
-----------------------------------------------------------------------------
\* CONTRIBUTING_MODELS.md, "UTF-8-safe streaming": what was streamed is at any time the
\* beginning of the text of the whole answer, whatever follows, and all of it at the end:
\* no character is split, lost, doubled or replaced because it came in two tokens.
StreamIsText ==
    /\ IsPrefix(streamed, Lossy(bytes))
    /\ ended = "complete" => streamed = Lossy(bytes)

\* As long as the answer has no invalid byte, only an unfinished character is withheld.
WithholdsOnlyUnfinished ==
    Buffered /\ ended = "no" /\ Replacement \notin Range(Decoded(bytes).chars) =>
        streamed = Decoded(bytes).chars /\ pending = Decoded(bytes).part
=============================================================================
