------------------------------ MODULE MCRuntime ------------------------------
(* Small instances of the scheduler for TLC. *)
EXTENDS RuntimeService, TLC

CONSTANTS j1, j2, s1, s2, m1, m2

TwoJobs == {j1, j2}

NoSessions  == {}
TwoSessions == {s1, s2}

OneModel  == {m1}
TwoModels == {m1, m2}

\* Jobs, sessions and models are interchangeable: nothing in the scheduler orders them.
AllSymmetry == Permutations(Jobs) \cup Permutations(SessionIds) \cup Permutations(Models)
=============================================================================
