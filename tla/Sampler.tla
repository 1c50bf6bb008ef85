------------------------------ MODULE Sampler ------------------------------
(***************************************************************************)
(* The choice of the next token (Sampler, src/runtime.rs).  logits is a    *)
(* function from token ids to integers or NonFinite (an infinity, a NaN,   *)
(* or a masked token); config is [greedy, top_k, top_p], top_p a fraction  *)
(* [num, den].  The weight of a logit, exp((logit - maximum) / temperature)*)
(* in the code, is any number that is not negative: a small one underflows *)
(* to zero, the largest is one, so the check of the total never fails.     *)
(* The random number is the needle's place in the retained weight;         *)
(* rounding may put it at the very end.                                    *)
(***************************************************************************)
EXTENDS Integers, Sequences, SequencesExt, FiniteSets, Functions

CONSTANTS
    NonFinite,
    Weight,        \* the weight of a finite logit
    LogitVectors,  \* the logits a forward pass may give
    Configs        \* the validated sampling configurations

ASSUME SamplerAssumption ==
    /\ \A vector \in LogitVectors :
         /\ DOMAIN vector \subseteq Nat /\ IsFiniteSet(DOMAIN vector)
         /\ \A token \in DOMAIN vector : vector[token] # NonFinite =>
              vector[token] \in Int /\ Weight[vector[token]] \in Nat
    /\ \A c \in Configs : c.top_k \in Nat /\ c.top_p.num \in Nat /\ c.top_p.den \in Nat

VARIABLES
    logits, config,  \* what is sampled from
    drawn            \* the tokens chosen so far, a bound: at most one

samplerVars == <<logits, config, drawn>>

Finite == {token \in DOMAIN logits : logits[token] # NonFinite}

\* The order of the candidates: by logit, then by id.
Before(a, b) == logits[a] > logits[b] \/ (logits[a] = logits[b] /\ a < b)

Candidates ==
    CHOOSE order \in [1..Cardinality(Finite) -> Finite] :
        Range(order) = Finite /\ \A m, n \in DOMAIN order : m < n => Before(order[m], order[n])

\* top_k: zero keeps all.
TopK ==
    IF config.top_k > 0 THEN SubSeq(Candidates, 1, Min({config.top_k, Len(Candidates)}))
    ELSE Candidates

\* The weight of the first tokens, for every number of them.
Cumulative(tokens) ==
    LET sum[n \in 0..Len(tokens)] ==
            IF n = 0 THEN 0 ELSE sum[n - 1] + Weight[logits[tokens[n]]]
    IN  sum

Mass(tokens) == Cumulative(tokens)[Len(tokens)]

\* Whether the first n tokens reach the cutoff.
Reaches(n) ==
    Cumulative(TopK)[n] * config.top_p.den >= Mass(TopK) * config.top_p.num

\* Mutant of Retained: the token that crosses the cutoff is dropped.
RetainedBelow ==
    LET below == {n \in 1..Len(TopK) : ~Reaches(n)}
    IN  SubSeq(TopK, 1, IF below = {} THEN 1 ELSE Max(below))

\* top_p: the shortest prefix whose weight reaches the cutoff.
Retained ==
    LET enough == {n \in 1..Len(TopK) : Reaches(n)}
    IN  SubSeq(TopK, 1, IF enough = {} THEN Len(TopK) ELSE Min(enough))

\* The first token whose cumulative weight exceeds the needle, else the last.
Needled(tokens, needle) ==
    LET beyond == {n \in 1..Len(tokens) : needle < Cumulative(tokens)[n]}
    IN  tokens[IF beyond = {} THEN Len(tokens) ELSE Min(beyond)]

\* An error: no logit is finite.
Refused == -1

\* Sampler::select.
Select(needle) ==
    IF Finite = {} THEN Refused
    ELSE IF config.greedy \/ config.top_k = 1 THEN Candidates[1]
    ELSE Needled(Retained, needle)

SamplerInit == logits \in LogitVectors /\ config \in Configs /\ drawn = {}

\* unit_f64 times the retained weight; its rounding may give the weight itself.
Draw ==
    /\ drawn = {}
    /\ \E needle \in 0..Mass(Retained) : drawn' = {Select(needle)}
    /\ UNCHANGED <<logits, config>>

SamplerSpec == SamplerInit /\ [][Draw]_samplerVars
-----------------------------------------------------------------------------
(* The nucleus, without sorting: a token belongs to it when fewer than     *)
(* top_k tokens come before it and their weight is below the cutoff.       *)

Ahead(token) == {other \in Finite : Before(other, token)}
WeightOf(tokens) == MapThenSumSet(LAMBDA token : Weight[logits[token]], tokens)
Kept == {token \in Finite : config.top_k = 0 \/ Cardinality(Ahead(token)) < config.top_k}

Nucleus ==
    IF config.greedy THEN {token \in Finite : Ahead(token) = {}}
    ELSE {token \in Kept :
             \/ Ahead(token) = {}
             \/ WeightOf(Ahead(token)) * config.top_p.den < WeightOf(Kept) * config.top_p.num}

\* src/runtime.rs, SamplingConfig ("Probability mass retained after top-k filtering", "Zero
\* disables top-k filtering", "Zero selects deterministic greedy decoding"): a token is only
\* drawn from the nucleus, never one whose logit is masked, and over all random numbers
\* each token of the nucleus as often as its weight says.
SamplesNucleus ==
    LET total == WeightOf(Nucleus)
        Share(token) == Cardinality({needle \in 0..(total - 1) : Select(needle) = token})
    IN  IF Finite = {} THEN drawn \subseteq {Refused}
        ELSE /\ drawn \subseteq Nucleus
             /\ Cardinality(Nucleus) > 1 =>
                  \A token \in Nucleus : Share(token) = Weight[logits[token]]
=============================================================================
