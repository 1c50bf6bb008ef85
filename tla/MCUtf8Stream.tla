---------------------------- MODULE MCUtf8Stream ----------------------------
(* Small instances of the streamed text for TLC. *)
EXTENDS Utf8Stream

\* Byte-level tokens: every class alone, and tokens that begin or end within a character.
ByteTokens ==
    {<<x>> : x \in Bytes}
        \cup {<<"ascii", "lead3">>, <<"cont", "cont">>, <<"cont", "ascii">>, <<"lead2", "cont">>}

\* Gemma's tokens: whole characters, and single bytes for the characters without a token.
ByteFallback ==
    {<<"ascii">>, <<"lead2", "cont">>, <<"lead3", "cont", "cont">>, <<"lead2">>, <<"cont">>}
=============================================================================
