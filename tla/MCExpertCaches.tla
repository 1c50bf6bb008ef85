--------------------------- MODULE MCExpertCaches ---------------------------
(***************************************************************************)
(* The two caches of routed experts, made small for TLC: the one of        *)
(* GLM-5.2 and the streamed one of Gemma on Metal.  A loaded model has one *)
(* of them, as its architecture decides (src/architecture.rs, load).       *)
(***************************************************************************)
EXTENDS GlmExpertCache, FiniteSetsExt

CONSTANTS
    Torn        \* a buffer a failed read has partly overwritten

ASSUME TornAssumption == Torn \notin Experts

VARIABLES
    architecture,   \* the family of the model
    \* the state of the streamed cache
    sTag, sLast, sPinned, sGate, sDown, sClock, sPc, sWant, sAt, sGiven, sCalls

Streamed == INSTANCE ExpertCache WITH
    tag <- sTag, last <- sLast, pinned <- sPinned, gate <- sGate, down <- sDown,
    clock <- sClock, pc <- sPc, want <- sWant, at <- sAt, given <- sGiven, calls <- sCalls

streamedVars ==
    <<sTag, sLast, sPinned, sGate, sDown, sClock, sPc, sWant, sAt, sGiven, sCalls>>

EitherInit ==
    /\ architecture \in {"glm_moe_dsa", "gemma4"}
    /\ Init /\ Streamed!Init

GlmStep ==
    /\ architecture = "glm_moe_dsa"
    /\ Next
    /\ UNCHANGED <<architecture, streamedVars>>

GemmaStep ==
    /\ architecture = "gemma4"
    /\ Streamed!Next
    /\ UNCHANGED <<architecture, vars>>

EitherSpec == EitherInit /\ [][GlmStep \/ GemmaStep]_<<architecture, vars, streamedVars>>
-----------------------------------------------------------------------------
\* A slot of the streamed cache is pinned exactly while use_expert runs, so a call finds
\* every slot unpinned: AllSlotsPinned cannot happen, and no error path leaks a pin.
PinsReleased == Streamed!PinsReleased

\* Each layer of the streamed cache is a deterministic LRU: a resident expert was acquired
\* after the last acquisition of any expert that is not resident.
ResidentsMostRecent == Streamed!ResidentsMostRecent

CONSTANTS e1, e2, e3, l1, l2

ThreeExperts == {e1, e2, e3}
TwoLayers    == {l1, l2}

\* Experts of different encodings have different sizes.
Sizes == [e \in ThreeExperts |-> IF e = e1 THEN 1 ELSE IF e = e2 THEN 3 ELSE 5]

\* README: generation profiles report the resident bytes of the expert cache: the running
\* account of stats.resident_bytes equals the bytes of the experts actually held, through
\* evictions, failed loads and cancelled loads.
ResidentBytesExact ==
    resident = MapThenSumSet(LAMBDA ls : Bytes(value[ls[1]][ls[2]]), Layers \X Slots)
=============================================================================
