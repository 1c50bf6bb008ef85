------------------------------- MODULE SlotLru -------------------------------
(***************************************************************************)
(* The slot choice shared by the two expert caches (src/expert.rs and      *)
(* src/glm52/expert.rs): min_by_key on (expert.is_some(), last_used,       *)
(* index).  tag[s] is the expert a slot is labelled with, last[s] its      *)
(* last_used.                                                              *)
(***************************************************************************)
EXTENDS Integers, FiniteSets

CONSTANTS Experts, NoExpert, SlotCount

ASSUME SlotAssumption ==
    /\ NoExpert \notin Experts
    /\ SlotCount \in Nat \ {0}

Slots == 0..(SlotCount - 1)

Occupied(tag) == {s \in Slots : tag[s] # NoExpert}

\* Slot s comes no later than slot t in the key order.
Precedes(tag, last, s, t) ==
    \/ tag[s] = NoExpert /\ tag[t] # NoExpert
    \/ /\ tag[s] = NoExpert <=> tag[t] = NoExpert
       /\ last[s] < last[t] \/ (last[s] = last[t] /\ s <= t)

\* Mutant of VictimOf: the age of a slot is ignored once every slot is filled.
FirstOf(tag, last, free) ==
    CHOOSE s \in free : \A t \in free :
        \/ tag[s] = NoExpert /\ tag[t] # NoExpert
        \/ (tag[s] = NoExpert <=> tag[t] = NoExpert) /\ s <= t

VictimOf(tag, last, free) ==
    CHOOSE s \in free : \A t \in free : Precedes(tag, last, s, t)
=============================================================================
