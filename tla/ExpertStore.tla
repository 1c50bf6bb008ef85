----------------------------- MODULE ExpertStore -----------------------------
(***************************************************************************)
(* What an expert cache promises its caller, whatever it keeps resident:   *)
(* a call either fails or runs the caller's computation on the weights of  *)
(* exactly the expert that was asked for.  NOTES.md: "placement changes    *)
(* speed, not model semantics: a cache miss must load the same expert at   *)
(* the same precision rather than substitute, skip, or silently requantize *)
(* it".                                                                    *)
(***************************************************************************)
CONSTANTS Experts, NoExpert, Failure

VARIABLES
    wanted, \* the expert asked for, NoExpert between calls
    given   \* what the last call ended with: weights of an expert, or Failure

svars == <<wanted, given>>

Init == wanted = NoExpert /\ given = Failure

Ask ==
    /\ wanted = NoExpert
    /\ wanted' \in Experts
    /\ UNCHANGED given

Fail ==
    /\ wanted' = NoExpert
    /\ given' = Failure

Serve ==
    /\ wanted # NoExpert
    /\ wanted' = NoExpert
    /\ given' = wanted

Spec == Init /\ [][Ask \/ Fail \/ Serve]_svars
=============================================================================
