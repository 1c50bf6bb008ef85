----------------------------- MODULE ExpertCache -----------------------------
(***************************************************************************)
(* One layer of the streamed expert cache of Gemma on Metal (src/expert.rs,*)
(* ExpertCache).  Layers share nothing else.  with_expert takes &mut       *)
(* self, so calls do not overlap; a step is one stretch between two looks  *)
(* at the cancellation flag, which another thread sets at any time.  The   *)
(* weights in a slot's two buffers are abstracted to the expert they       *)
(* belong to; the counters of ExpertCacheStats, which are only reported,   *)
(* are left out.                                                           *)
(***************************************************************************)
EXTENDS SlotLru, Sequences

CONSTANTS
    Torn,           \* a buffer a failed read has partly overwritten
    Failure,        \* the call returned an error
    MaxCalls        \* bound on the layer's clock

VARIABLES
    tag,        \* ExpertSlot.expert
    last,       \* ExpertSlot.last_used
    pinned,     \* ExpertSlot.pinned
    gate, down, \* what the slot's buffers hold
    clock,      \* LayerCache.clock
    pc,         \* where the current with_expert call stands
    want,       \* the expert it asks for
    at,         \* the slot acquire returned
    given,      \* what the last call gave its caller
    calls       \* history: the experts acquired, in order

slotVars == <<tag, last, gate, down>>
vars == <<slotVars, pinned, clock, pc, want, at, given, calls>>

Contents == Experts \cup {NoExpert, Torn}

Init ==
    /\ tag = [s \in Slots |-> NoExpert]
    /\ last = [s \in Slots |-> 0]
    /\ pinned = [s \in Slots |-> FALSE]
    /\ gate = [s \in Slots |-> NoExpert]
    /\ down = [s \in Slots |-> NoExpert]
    /\ clock = 0
    /\ pc = "idle"
    /\ want = NoExpert
    /\ at = 0
    /\ given = Failure
    /\ calls = <<>>
-----------------------------------------------------------------------------
\* The call ends with an error.
Abort ==
    /\ pc' = "idle"
    /\ want' = NoExpert
    /\ given' = Failure

\* with_expert up to acquire: cancelled already, an index out of range, or go on.
Call ==
    /\ pc = "idle" /\ clock < MaxCalls
    /\ \/ Abort
       \/ /\ want' \in Experts
          /\ pc' = "acquire"
          /\ UNCHANGED given
    /\ UNCHANGED <<slotVars, pinned, clock, at, calls>>

Acquired(s) ==
    /\ last' = [last EXCEPT ![s] = clock + 1]
    /\ clock' = clock + 1
    /\ at' = s
    /\ calls' = Append(calls, want)
    /\ pc' = "acquired"

Hit ==
    /\ pc = "acquire"
    /\ \E s \in Slots :
         /\ tag[s] = want
         /\ Acquired(s)
    /\ UNCHANGED <<tag, gate, down, pinned, want, given>>

Unpinned == {s \in Slots : ~pinned[s]}

\* A miss, up to the reads.
Miss(s) ==
    /\ pc = "acquire"
    /\ \A t \in Slots : tag[t] # want
    /\ Unpinned # {}
    /\ s = VictimOf(tag, last, Unpinned)

Load ==
    /\ \E s \in Slots :
         /\ Miss(s)
         /\ gate' = [gate EXCEPT ![s] = want]
         /\ down' = [down EXCEPT ![s] = want]
         /\ tag' = [tag EXCEPT ![s] = want]
         /\ Acquired(s)
    /\ UNCHANGED <<pinned, want, given>>

\* The two reads run in parallel into the slot's own buffers and either may fail after
\* any number of bytes; the error returns before the slot's label is touched.
AfterRead(old) == {old, Torn, want}

LoadFails ==
    /\ \E s \in Slots :
         /\ Miss(s)
         /\ \E g \in AfterRead(gate[s]), d \in AfterRead(down[s]) :
              /\ g # want \/ d # want
              /\ gate' = [gate EXCEPT ![s] = g]
              /\ down' = [down EXCEPT ![s] = d]
    /\ clock' = clock + 1
    /\ Abort
    /\ UNCHANGED <<tag, last, pinned, at, calls>>

\* The second look at the flag, then the slot is pinned.
Pin ==
    /\ pc = "acquired"
    /\ \/ /\ Abort
          /\ UNCHANGED pinned
       \/ /\ pinned' = [pinned EXCEPT ![at] = TRUE]
          /\ pc' = "use"
          /\ UNCHANGED <<want, given>>
    /\ UNCHANGED <<slotVars, clock, at, calls>>

\* Mutant of Use: the error of use_expert returns before the pin is taken back.
UseLeakingPin ==
    /\ pc = "use"
    /\ given' \in {IF gate[at] = down[at] THEN gate[at] ELSE Torn, Failure}
    /\ pinned' = [pinned EXCEPT ![at] = given' = Failure]
    /\ pc' = "idle"
    /\ want' = NoExpert
    /\ UNCHANGED <<slotVars, clock, at, calls>>

\* use_expert runs both projections on the slot, or fails; either way the pin goes.
Use ==
    /\ pc = "use"
    /\ pinned' = [pinned EXCEPT ![at] = FALSE]
    /\ given' \in {IF gate[at] = down[at] THEN gate[at] ELSE Torn, Failure}
    /\ pc' = "idle"
    /\ want' = NoExpert
    /\ UNCHANGED <<slotVars, clock, at, calls>>

Next == Call \/ Hit \/ Load \/ LoadFails \/ Pin \/ Use

Spec == Init /\ [][Next]_vars
-----------------------------------------------------------------------------
\* A slot is pinned exactly while use_expert runs, so a call finds every slot unpinned:
\* AllSlotsPinned cannot happen, and no error path leaks a pin.
PinsReleased == \A s \in Slots : pinned[s] <=> pc = "use" /\ s = at

\* Each layer is a deterministic LRU: a resident expert was acquired after the last
\* acquisition of any expert that is not resident.
AcquiredAfter(e, f) ==
    \E i \in 1..Len(calls) : calls[i] = e /\ \A k \in i..Len(calls) : calls[k] # f

ResidentsMostRecent ==
    \A s \in Occupied(tag) : \A e \in Experts :
        (\A t \in Slots : tag[t] # e) => AcquiredAfter(tag[s], e)

\* NOTES.md: "a cache miss must load the same expert at the same precision rather than
\* substitute, skip, or silently requantize it": with_expert implements ExpertStore.
Store == INSTANCE ExpertStore WITH wanted <- want

ServesRequested == Store!Spec
=============================================================================
