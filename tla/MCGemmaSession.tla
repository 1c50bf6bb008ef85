--------------------------- MODULE MCGemmaSession ---------------------------
(* Small instances of the Gemma session for TLC. *)
EXTENDS GemmaSession

CONSTANTS a, b

TwoTokens == {a, b}

\* A CPU cache, or a Metal cache whose window covers the context.
Unwrapped == <<4, 4>>

\* One full and one sliding layer, as on Metal beyond the window.
FullAndSliding == <<4, 2>>
=============================================================================
