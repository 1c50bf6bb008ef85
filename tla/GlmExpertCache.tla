--------------------------- MODULE GlmExpertCache ---------------------------
(***************************************************************************)
(* The routed-expert cache of GLM-5.2 (src/glm52/expert.rs,                *)
(* Glm52ExpertCache): one per model, behind a Mutex, with slots per sparse *)
(* layer and one clock for all layers.  with_expert holds the lock, so     *)
(* calls do not overlap; the cancellation flag may be set at any time.     *)
(* Unlike src/expert.rs a miss reads into fresh tensors and commits them   *)
(* to the slot in one assignment at the end.  Weights are abstracted to    *)
(* the expert they belong to.                                              *)
(***************************************************************************)
EXTENDS SlotLru

CONSTANTS
    Layers,     \* the sparse layers
    Size,       \* CachedExpert::resident_bytes of each expert
    Failure,    \* the call returned an error
    MaxCalls    \* bound on the clock

ASSUME GlmCacheAssumption ==
    /\ Size \in [Experts -> Nat]
    /\ Failure \notin Experts
    /\ Layers # {} /\ IsFiniteSet(Layers)
    /\ MaxCalls \in Nat

VARIABLES
    tag,        \* CacheSlot.expert, per layer and slot
    last,       \* CacheSlot.last_used
    value,      \* CacheSlot.value: the expert whose weights the slot holds
    clock,      \* Glm52ExpertCache.clock
    resident,   \* stats.resident_bytes
    pc,         \* where the current with_expert call stands
    layer,      \* the layer it asks in
    want,       \* the expert it asks for
    at,         \* the slot acquire returned
    given       \* what the last call gave its caller

slotVars == <<tag, last, value, resident>>
vars == <<slotVars, clock, pc, layer, want, at, given>>

Init ==
    /\ tag = [l \in Layers |-> [s \in Slots |-> NoExpert]]
    /\ last = [l \in Layers |-> [s \in Slots |-> 0]]
    /\ value = [l \in Layers |-> [s \in Slots |-> NoExpert]]
    /\ clock = 0
    /\ resident = 0
    /\ pc = "idle"
    /\ layer \in Layers
    /\ want = NoExpert
    /\ at = 0
    /\ given = Failure

Abort ==
    /\ pc' = "idle"
    /\ want' = NoExpert
    /\ given' = Failure

\* with_expert up to acquire: cancelled, no such expert in the layer, or go on.
Call ==
    /\ pc = "idle" /\ clock < MaxCalls
    /\ layer' \in Layers
    /\ \/ Abort
       \/ /\ want' \in Experts
          /\ pc' = "acquire"
          /\ UNCHANGED given
    /\ UNCHANGED <<slotVars, clock, at>>

Acquired(s) ==
    /\ last' = [last EXCEPT ![layer][s] = clock + 1]
    /\ clock' = clock + 1
    /\ at' = s
    /\ pc' = "acquired"

\* Mutant of Hit: the lookup runs over the slots of another layer.
HitAnyLayer ==
    /\ pc = "acquire"
    /\ \E l \in Layers, s \in Slots :
         /\ tag[l][s] = want
         /\ Acquired(s)
    /\ UNCHANGED <<tag, value, resident, layer, want, given>>

Hit ==
    /\ pc = "acquire"
    /\ \E s \in Slots :
         /\ tag[layer][s] = want
         /\ Acquired(s)
    /\ UNCHANGED <<tag, value, resident, layer, want, given>>

\* Mutant of Miss: the slot is filled without looking for the expert first.
MissWithoutFind(s) ==
    /\ pc = "acquire"
    /\ s = VictimOf(tag[layer], last[layer], Slots)

Miss(s) ==
    /\ pc = "acquire"
    /\ \A t \in Slots : tag[layer][t] # want
    /\ s = VictimOf(tag[layer], last[layer], Slots)

Bytes(e) == IF e = NoExpert THEN 0 ELSE Size[e]

\* All tensors loaded and the flag still clear: the slot is replaced as a whole.
Load ==
    /\ \E s \in Slots :
         /\ Miss(s)
         /\ resident' = (resident - Bytes(value[layer][s])) + Size[want]
         /\ tag' = [tag EXCEPT ![layer][s] = want]
         /\ value' = [value EXCEPT ![layer][s] = want]
         /\ Acquired(s)
    /\ UNCHANGED <<layer, want, given>>

\* Mutant of LoadFails: the evicted expert is taken off the account before the reads.
LoadFailsAfterDebit ==
    /\ \E s \in Slots :
         /\ Miss(s)
         /\ resident' = resident - Bytes(value[layer][s])
    /\ clock' = clock + 1
    /\ Abort
    /\ UNCHANGED <<tag, last, value, layer, at>>

\* A read or a tensor check failed, or the flag was set during the reads.
LoadFails ==
    /\ \E s \in Slots : Miss(s)
    /\ clock' = clock + 1
    /\ Abort
    /\ UNCHANGED <<slotVars, layer, at>>

\* The last look at the flag, then use_expert runs on the slot's value or fails.
Use ==
    /\ pc = "acquired"
    /\ pc' = "idle"
    /\ want' = NoExpert
    /\ given' \in {value[layer][at], Failure}
    /\ UNCHANGED <<slotVars, clock, layer, at>>

Next == Call \/ Hit \/ Load \/ LoadFails \/ Use

Spec == Init /\ [][Next]_vars
-----------------------------------------------------------------------------
\* The label of a slot always tells what it holds, whichever loads failed or were
\* cancelled before, and no expert is held twice in a layer.
LabelsHonest ==
    \A l \in Layers : \A s, t \in Slots :
        /\ value[l][s] = tag[l][s]
        /\ tag[l][s] = tag[l][t] /\ tag[l][s] # NoExpert => s = t

\* NOTES.md: "a cache miss must load the same expert at the same precision rather than
\* substitute, skip, or silently requantize it": with_expert implements ExpertStore even
\* when reads fail and calls are cancelled.
Store == INSTANCE ExpertStore WITH wanted <- want

ServesRequested == Store!Spec
=============================================================================
