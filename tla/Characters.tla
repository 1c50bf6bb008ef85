----------------------------- MODULE Characters -----------------------------
(* Texts as sequences of code points, and their bytes (str::as_bytes), for *)
(* characters of up to three bytes.                                        *)
EXTENDS Integers, Sequences, SequencesExt

\* What a constructor that refuses its file returns.
Rejected(error) == [error |-> error]

Space == 32

Utf8Bytes(c) ==
    IF c < 128 THEN <<c>>
    ELSE IF c < 2048 THEN <<192 + (c \div 64), 128 + (c % 64)>>
    ELSE <<224 + (c \div 4096), 128 + ((c \div 64) % 64), 128 + (c % 64)>>

BytesOf(text) == FlattenSeq([i \in DOMAIN text |-> Utf8Bytes(text[i])])

\* str::trim, over spaces and newlines.
Blank == {9, 10, 13, Space}

Trim(text) ==
    LET solid == {i \in DOMAIN text : text[i] \notin Blank}
    IN  IF solid = {} THEN <<>> ELSE SubSeq(text, Min(solid), Max(solid))
=============================================================================
