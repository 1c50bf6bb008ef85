-------------------------- MODULE ModelStoreProofs --------------------------
(***************************************************************************)
(* Models on disk: the removal of managed models by any number of          *)
(* overlapping invocations, the layout of an accepted GGUF file and the    *)
(* index of an accepted SafeTensors checkpoint, reads of tensors by any    *)
(* number of threads, and what opening a model checks.                     *)
(*                                                                         *)
(* Removal.  Of the invocations that remove one file, at most one gets     *)
(* past the rename: the invariant Inv places every file that is being      *)
(* removed, and follows it until it is deleted or put back.  And an entry  *)
(* nobody asked to remove stays, with its file: the invariant Sparing says *)
(* that it is in every copy of the registry an invocation may still write. *)
(*                                                                         *)
(* Loading.  What the configuration and the bindings of each architecture  *)
(* check is enough for the forward pass: block by block, every contract a  *)
(* kernel has on its tensors follows from what was checked when the model  *)
(* was opened.  And the layout of a GLM matrix follows from its lengths.   *)
(***************************************************************************)
EXTENDS Catalog, Gguf, SafeTensors, TensorReads, ModelLoading, FiniteSetTheorems,
        SequenceTheorems, WellFoundedInduction, TLAPS

\* The invocation stands between the rename and the deletion.
Holds(c) == pc[c] \in {"record", "delete"}

Functions ==
    /\ pc \in [Commands -> {"ready", "resolve", "quarantine", "record", "delete", "done"}]
    /\ outcome \in [Commands -> {"none", "refused", "failed", "removed", "unkept",
                             "crashed"}]
    /\ asked \in [Commands -> Names \cup {NoName}]
    /\ DOMAIN managed = Commands

Placed ==
    /\ disk \cap quarantine = {}
    /\ \A c \in Commands : Holds(c) => Target(c) \in quarantine
    /\ \A c \in Removers : pc[c] = "done" /\ Target(c) \notin disk \cup quarantine

Inv == Functions /\ Placed /\ OneRemover

LEMMA SameTarget ==
    ASSUME NEW c \in Commands, asked'[c] = asked[c], managed'[c] = managed[c]
    PROVE  Target(c)' = Target(c)
BY DEF Target, Index, Matches

LEMMA InvInit == Init => Inv
BY DEF Init, Inv, Functions, Placed, OneRemover, Holds, PastRename, Removers

\* An invocation that neither takes, records nor gives back a file.
LEMMA Aside ==
    ASSUME Inv, NEW c \in Commands, Functions',
           disk' = disk, quarantine' = quarantine,
           pc' = [pc EXCEPT ![c] = pc'[c]],
           \A d \in Commands \ {c} : outcome'[d] = outcome[d] /\ Target(d)' = Target(d),
           Holds(c)' => Holds(c) /\ Target(c)' = Target(c),
           outcome'[c] # "removed"
    PROVE  Inv'
<1>1. \A d \in Commands : Holds(d)' => Holds(d) /\ Target(d)' = Target(d)
  BY DEF Inv, Functions, Holds
<1>2. Removers' \subseteq Removers /\ \A d \in Removers' : Target(d)' = Target(d) /\ d # c
  BY DEF Removers
<1>3. Placed'
  BY <1>1, <1>2 DEF Inv, Functions, Placed, Removers
<1>4. \A d \in Commands : PastRename(d)' => PastRename(d) /\ Target(d)' = Target(d)
  BY <1>1, <1>2 DEF PastRename, Holds
<1>5. OneRemover'
  BY <1>4 DEF Inv, OneRemover
<1> QED
  BY <1>3, <1>5 DEF Inv

LEMMA InvStep == Inv /\ [Next]_vars => Inv'
<1> SUFFICES ASSUME Inv, [Next]_vars PROVE Inv'
  OBVIOUS
<1> USE DEF Inv, Functions
<1>1. ASSUME NEW c \in Commands, Discover(c) PROVE Inv'
  <2>1. \A d \in Commands \ {c} : Target(d)' = Target(d)
    BY <1>1, SameTarget DEF Discover
  <2>2. Functions'
    BY <1>1 DEF Discover, Goto
  <2>3. outcome[c] # "removed"
    BY <1>1 DEF Placed, Removers, Discover
  <2> QED
    BY <1>1, <2>1, <2>2, <2>3, Aside DEF Discover, Goto, Holds, stores
<1>2. ASSUME NEW c \in Commands, UNCHANGED <<asked, managed>> PROVE Target(c)' = Target(c)
  BY <1>2, SameTarget
<1>3. ASSUME NEW c \in Commands,
             Resolve(c) \/ QuarantineFails(c) \/ DeleteFails(c) \/ Crash(c)
      PROVE  Inv'
  <2>1. UNCHANGED <<stores, asked, managed>>
    BY <1>3 DEF Resolve, QuarantineFails, DeleteFails, Crash
  <2>2. Functions'
    BY <1>3, <2>1 DEF Resolve, QuarantineFails, DeleteFails, Crash, End, Goto
  <2>3. ~Holds(c)' /\ outcome'[c] # "removed"
    BY <1>3 DEF Resolve, QuarantineFails, DeleteFails, Crash, End, Goto, Holds, Running,
                Placed, Removers
  <2>4. /\ pc' = [pc EXCEPT ![c] = pc'[c]]
        /\ \A d \in Commands \ {c} : outcome'[d] = outcome[d]
    BY <1>3 DEF Resolve, QuarantineFails, DeleteFails, Crash, End, Goto
  <2> QED
    BY <1>2, <2>1, <2>2, <2>3, <2>4, Aside DEF stores
<1>4. ASSUME NEW c \in Commands, Quarantine(c) PROVE Inv'
  <2>1. \A d \in Commands : Target(d)' = Target(d)
    BY <1>2, <1>4 DEF Quarantine
  <2>2. Functions' /\ Removers' = Removers
    BY <1>4 DEF Quarantine, Goto, Removers
  <2>3. \A d \in Commands : d # c => (Holds(d)' <=> Holds(d))
    BY <1>4 DEF Quarantine, Goto, Holds
  <2>4. Placed'
    BY <1>4, <2>1, <2>2, <2>3 DEF Quarantine, Goto, Placed, Removers
  <2>5. \A d \in Commands : PastRename(d) => Target(d) \notin disk
    BY DEF PastRename, Placed, Holds
  <2>6. OneRemover'
    BY <1>4, <2>1, <2>2, <2>3, <2>5 DEF OneRemover, PastRename, Quarantine, Holds
  <2> QED
    BY <2>2, <2>4, <2>6
<1>5. ASSUME NEW c \in Commands, Record(c) PROVE Inv'
  <2>1. \A d \in Commands : Target(d)' = Target(d)
    BY <1>2, <1>5 DEF Record
  <2>2. Functions' /\ Removers' = Removers /\ \A d \in Commands : Holds(d)' <=> Holds(d)
    BY <1>5 DEF Record, Goto, Removers, Holds
  <2>3. Placed'
    BY <1>5, <2>1, <2>2 DEF Record, Goto, Placed, Removers
  <2>4. OneRemover'
    BY <2>1, <2>2 DEF OneRemover, PastRename, Holds
  <2> QED
    BY <2>2, <2>3, <2>4
<1>6. ASSUME NEW c \in Commands, RecordFails(c) PROVE Inv'
  <2>1. \A d \in Commands : Target(d)' = Target(d)
    BY <1>2, <1>6 DEF RecordFails
  <2>2. Functions' /\ Removers' = Removers /\ Holds(c) /\ ~Holds(c)'
    BY <1>6 DEF RecordFails, End, Goto, Removers, Holds, Placed
  <2>3. \A d \in Commands : d # c => (Holds(d)' <=> Holds(d))
    BY <1>6 DEF RecordFails, End, Goto, Holds
  <2>4. \A d \in Commands : d # c /\ PastRename(d) => Target(d) # Target(c)
    BY <2>2 DEF OneRemover, PastRename, Holds
  <2>5. Placed'
    BY <1>6, <2>1, <2>2, <2>3, <2>4
    DEF RecordFails, End, Goto, Placed, Removers, PastRename, Holds
  <2>6. OneRemover'
    BY <2>1, <2>2, <2>3 DEF OneRemover, PastRename, Holds
  <2> QED
    BY <2>2, <2>5, <2>6
<1>7. ASSUME NEW c \in Commands, Delete(c) PROVE Inv'
  <2>1. \A d \in Commands : Target(d)' = Target(d)
    BY <1>2, <1>7 DEF Delete
  <2>2. Functions' /\ Removers' = Removers \cup {c} /\ Holds(c) /\ ~Holds(c)'
    BY <1>7 DEF Delete, End, Goto, Removers, Holds
  <2>3. \A d \in Commands : d # c => (Holds(d)' <=> Holds(d))
    BY <1>7 DEF Delete, End, Goto, Holds
  <2>4. \A d \in Commands : d # c /\ PastRename(d) => Target(d) # Target(c)
    BY <2>2 DEF OneRemover, PastRename, Holds
  <2>5. Placed'
    BY <1>7, <2>1, <2>2, <2>3, <2>4
    DEF Delete, End, Goto, Placed, Removers, PastRename, Holds
  <2>6. \A d \in Commands : PastRename(d)' <=> PastRename(d)
    BY <2>2, <2>3 DEF PastRename, Holds
  <2>7. OneRemover'
    BY <2>1, <2>6 DEF OneRemover
  <2> QED
    BY <2>2, <2>5, <2>7
<1>8. ASSUME NEW c \in Commands, KeepFails(c) PROVE Inv'
  <2>1. \A d \in Commands : Target(d)' = Target(d)
    BY <1>2, <1>8 DEF KeepFails
  <2>2. Functions' /\ Removers' = Removers
    BY <1>8 DEF KeepFails, End, Goto, Removers, Placed
  <2>3. \A d \in Commands : (Holds(d)' => Holds(d)) /\ (PastRename(d)' => PastRename(d))
    BY <1>8, <2>2 DEF KeepFails, End, Goto, Holds, PastRename
  <2>4. Placed'
    BY <1>8, <2>1, <2>2, <2>3 DEF KeepFails, End, Goto, Placed, Removers
  <2>5. OneRemover'
    BY <2>1, <2>3 DEF OneRemover
  <2> QED
    BY <2>2, <2>4, <2>5
<1>9. CASE UNCHANGED vars
  BY <1>9, <1>2
  DEF vars, stores, Placed, OneRemover, PastRename, Holds, Removers
<1> QED
  BY <1>1, <1>3, <1>4, <1>5, <1>6, <1>7, <1>8, <1>9 DEF Next

\* Of two invocations of rm that remove one file, at the same time or one after the other,
\* at most one ever holds it and reports the removal.
THEOREM AtMostOneRemover == Spec => []OneRemover
<1>1. Inv => OneRemover
  BY DEF Inv
<1> QED
  BY <1>1, InvInit, InvStep, PTL DEF Spec
-----------------------------------------------------------------------------
Unasked(e) == \A c \in Commands : asked[c] # e.name

SparingTypes ==
    /\ registry \in Seq(Entries) /\ written \in Seq(Entries)
    /\ managed \in [Commands -> Seq(Entries)]
    /\ asked \in [Commands -> Names \cup {NoName}]
    /\ pc \in [Commands -> {"ready", "resolve", "quarantine", "record", "delete", "done"}]
    /\ \A c \in Commands : pc[c] = "ready" => asked[c] = NoName

\* A registry, or a copy of it, that misses nothing nobody asked to remove.
Complete(r) ==
    /\ ToSet(r) \subseteq ToSet(written)
    /\ \A e \in ToSet(written) : Unasked(e) => e \in ToSet(r)

Sparing ==
    /\ SparingTypes
    /\ Complete(registry)
    /\ \A c \in Commands : Running(c) => Complete(managed[c])
    /\ \A c \in Commands :
         pc[c] \in {"quarantine", "record"} => Matches(c) # {} /\ ~SharesPath(c)

\* What is left of a sequence when one element is taken out.
LEMMA Removed ==
    ASSUME NEW S, NEW s \in Seq(S), NEW i \in DOMAIN s
    PROVE  /\ RemoveAt(s, i) \in Seq(S)
           /\ ToSet(RemoveAt(s, i)) \subseteq ToSet(s)
           /\ \A j \in DOMAIN s : j # i => s[j] \in ToSet(RemoveAt(s, i))
           /\ \A e \in ToSet(RemoveAt(s, i)) : \E j \in DOMAIN s : j # i /\ e = s[j]
<1> DEFINE r == RemoveAt(s, i)
<1>1. /\ r \in Seq(S) /\ Len(r) = Len(s) - 1
      /\ \A k \in 1..Len(r) : r[k] = IF k < i THEN s[k] ELSE s[k + 1]
  <2>1. i \in 1..Len(s) /\ Len(s) \in Nat
    OBVIOUS
  <2>2. /\ SubSeq(s, 1, i - 1) \in Seq(S) /\ Len(SubSeq(s, 1, i - 1)) = i - 1
        /\ \A k \in 1..(i - 1) : SubSeq(s, 1, i - 1)[k] = s[k]
    BY <2>1
  <2>3. /\ SubSeq(s, i + 1, Len(s)) \in Seq(S)
        /\ Len(SubSeq(s, i + 1, Len(s))) = Len(s) - i
        /\ \A k \in 1..(Len(s) - i) : SubSeq(s, i + 1, Len(s))[k] = s[i + k]
    BY <2>1
  <2> DEFINE before == SubSeq(s, 1, i - 1)
             after  == SubSeq(s, i + 1, Len(s))
  <2>4. r = before \o after
    BY DEF RemoveAt
  <2> HIDE DEF r, before, after
  <2>5. r \in Seq(S) /\ Len(r) = Len(s) - 1
    <3>1. before \in Seq(S) /\ Len(before) = i - 1
      BY <2>2 DEF before
    <3>2. after \in Seq(S) /\ Len(after) = Len(s) - i
      BY <2>3 DEF after
    <3> QED
      BY <2>1, <2>4, <3>1, <3>2
  <2>6. ASSUME NEW k \in 1..Len(r) PROVE r[k] = IF k < i THEN s[k] ELSE s[k + 1]
    <3>1. before \in Seq(S) /\ after \in Seq(S) /\ Len(before) = i - 1
      BY <2>2, <2>3 DEF before, after
    <3>2. r[k] = IF k <= i - 1 THEN before[k] ELSE after[k - (i - 1)]
      BY <2>1, <2>4, <2>5, <2>6, <3>1
    <3>3. CASE k < i
      BY <2>1, <2>2, <3>2, <3>3 DEF before
    <3>4. CASE k >= i
      <4>1. k - (i - 1) \in 1..(Len(s) - i) /\ i + (k - (i - 1)) = k + 1
        BY <2>1, <2>5, <3>4
      <4>2. after[k - (i - 1)] = s[k + 1]
        BY <2>3, <4>1 DEF after
      <4> QED
        BY <2>1, <3>2, <3>4, <4>2
    <3> QED
      BY <2>1, <3>3, <3>4
  <2> QED
    BY <2>5, <2>6
<1>2. ToSet(r) \subseteq ToSet(s)
  BY <1>1 DEF ToSet
<1>3. ASSUME NEW j \in DOMAIN s, j # i PROVE s[j] \in ToSet(r)
  <2>1. CASE j < i
    <3>1. j \in 1..Len(r) /\ r[j] = s[j]
      BY <1>1, <2>1
    <3> QED
      BY <1>1, <3>1 DEF ToSet
  <2>2. CASE j > i
    <3>1. j - 1 \in 1..Len(r) /\ r[j - 1] = s[j]
      BY <1>1, <2>2
    <3> QED
      BY <1>1, <3>1 DEF ToSet
  <2> QED
    BY <1>3, <2>1, <2>2
<1>4. ASSUME NEW e \in ToSet(r) PROVE \E j \in DOMAIN s : j # i /\ e = s[j]
  <2>1. PICK k \in 1..Len(r) : e = r[k]
    BY <1>1 DEF ToSet
  <2>2. CASE k < i
    <3>1. k \in DOMAIN s /\ k # i /\ e = s[k]
      BY <1>1, <2>1, <2>2
    <3> QED
      BY <3>1
  <2>3. CASE k >= i
    <3>1. k + 1 \in DOMAIN s /\ k + 1 # i /\ e = s[k + 1]
      BY <1>1, <2>1, <2>3
    <3> QED
      BY <3>1
  <2> QED
    BY <1>1, <2>1, <2>2, <2>3
<1> QED
  BY <1>1, <1>2, <1>3, <1>4

\* The registry that c writes still has what nobody asked to remove.
LEMMA RecordsComplete ==
    ASSUME Sparing, NEW c \in Commands, pc[c] = "record"
    PROVE  /\ RemoveAt(managed[c], Index(c)) \in Seq(Entries)
           /\ Complete(RemoveAt(managed[c], Index(c)))
<1>1. /\ Index(c) \in DOMAIN managed[c]
      /\ managed[c][Index(c)].name = asked[c]
  BY DEF Sparing, Index, Matches
<1>2. managed[c] \in Seq(Entries) /\ Complete(managed[c])
  BY DEF Sparing, SparingTypes, Running
<1>3. ASSUME NEW e \in ToSet(written), Unasked(e)
      PROVE  e \in ToSet(RemoveAt(managed[c], Index(c)))
  <2>1. PICK j \in DOMAIN managed[c] : e = managed[c][j]
    BY <1>2, <1>3 DEF Complete, ToSet
  <2>2. j # Index(c)
    BY <1>1, <1>3, <2>1 DEF Unasked
  <2> QED
    BY <1>1, <1>2, <2>1, <2>2, Removed
<1> QED
  BY <1>1, <1>2, <1>3, Removed DEF Complete

LEMMA SparingInit == Init => Sparing
<1> SUFFICES ASSUME Init PROVE Sparing
  OBVIOUS
<1>1. registry \in Seq(Entries)
  BY CatalogAssumption DEF Init, Entries
<1>2. SparingTypes
  BY <1>1 DEF Init, SparingTypes
<1>3. Complete(registry)
  BY DEF Init, Complete
<1>4. \A c \in Commands : pc[c] = "ready"
  BY DEF Init
<1> QED
  BY <1>2, <1>3, <1>4 DEF Sparing, Running

LEMMA SparingStep == Sparing /\ [Next]_vars => Sparing'
<1> SUFFICES ASSUME Sparing, [Next]_vars PROVE Sparing'
  OBVIOUS
<1>1. ASSUME NEW c \in Commands, Discover(c) PROVE Sparing'
  <2>1. PICK n \in Names : asked' = [asked EXCEPT ![c] = n]
    BY <1>1 DEF Discover
  <2>2. SparingTypes'
    BY <1>1 DEF Discover, Goto, Sparing, SparingTypes, stores, past
  <2>3. asked[c] = NoName
    BY <1>1 DEF Discover, Sparing, SparingTypes
  <2>4. written' = written /\ registry' = registry
    BY <1>1 DEF Discover, stores, past
  <2>5. \A e \in ToSet(written) : e.name \in Names /\ (Unasked(e)' => Unasked(e))
    <3> SUFFICES ASSUME NEW e \in ToSet(written)
                 PROVE  e.name \in Names /\ (Unasked(e)' => Unasked(e))
      OBVIOUS
    <3>1. e.name \in Names
      <4>1. PICK i \in DOMAIN written : e = written[i]
        BY DEF ToSet
      <4>2. written[i] \in Entries
        BY DEF Sparing, SparingTypes
      <4> QED
        BY <4>1, <4>2 DEF Entries
    <3> QED
      BY <2>1, <2>3, <3>1, CatalogAssumption DEF Unasked, Sparing, SparingTypes
  <2>6. ASSUME NEW r, Complete(r) PROVE Complete(r)'
    BY <2>4, <2>5, <2>6 DEF Complete
  <2>7. Complete(registry)'
    BY <2>4, <2>5 DEF Sparing, Complete
  <2>8. ASSUME NEW d \in Commands, Running(d)' PROVE Complete(managed[d])'
    <3>1. CASE d = c
      <4>1. managed'[d] = registry
        BY <1>1, <3>1 DEF Discover, Sparing, SparingTypes
      <4> QED
        BY <2>4, <2>5, <4>1 DEF Sparing, Complete
    <3>2. CASE d # c
      <4>1. managed'[d] = managed[d] /\ Running(d)
        BY <1>1, <2>8, <3>2 DEF Discover, Goto, Running, Sparing, SparingTypes
      <4> QED
        BY <2>4, <2>5, <4>1 DEF Sparing, Complete
    <3> QED
      BY <3>1, <3>2
  <2>9. ASSUME NEW d \in Commands, pc'[d] \in {"quarantine", "record"}
        PROVE  Matches(d)' # {} /\ ~SharesPath(d)'
    <3>1. d # c /\ pc'[d] = pc[d] /\ managed'[d] = managed[d] /\ asked'[d] = asked[d]
      BY <1>1, <2>9 DEF Discover, Goto, Sparing, SparingTypes
    <3>2. Matches(d)' = Matches(d) /\ Index(d)' = Index(d)
      BY <3>1 DEF Matches, Index
    <3> QED
      BY <2>9, <3>1, <3>2 DEF Sparing, SharesPath
  <2> QED
    BY <2>2, <2>7, <2>8, <2>9 DEF Sparing
<1>2. ASSUME NEW c \in Commands, UNCHANGED <<asked, managed, past>>,
             pc' = [pc EXCEPT ![c] = pc'[c]], pc'[c] # "ready",
             pc'[c] \in {"resolve", "quarantine", "record", "delete", "done"},
             pc'[c] # "done" => Running(c),
             pc'[c] \in {"quarantine", "record"} => Matches(c) # {} /\ ~SharesPath(c),
             registry' \in Seq(Entries), Complete(registry')
      PROVE  Sparing'
  <2>1. \A d \in Commands : /\ Matches(d)' = Matches(d)
                            /\ SharesPath(d)' <=> SharesPath(d)
    BY <1>2 DEF Matches, SharesPath, Index
  <2>2. \A r : Complete(r) => Complete(r)'
    BY <1>2 DEF Complete, Unasked, past
  <2>3. SparingTypes'
    BY <1>2 DEF Sparing, SparingTypes, past
  <2>4. \A d \in Commands : Running(d)' => Running(d)
    BY <1>2 DEF Running, Sparing, SparingTypes
  <2>5. Complete(registry)'
    BY <1>2 DEF Complete, Unasked, past
  <2>6. ASSUME NEW d \in Commands, Running(d)' PROVE Complete(managed[d])'
    BY <1>2, <2>4, <2>6 DEF Sparing, Complete, Unasked, past
  <2>7. ASSUME NEW d \in Commands, pc'[d] \in {"quarantine", "record"}
        PROVE  Matches(d)' # {} /\ ~SharesPath(d)'
    BY <1>2, <2>1, <2>7 DEF Sparing, SparingTypes
  <2> QED
    BY <2>3, <2>5, <2>6, <2>7 DEF Sparing
<1>3. ASSUME NEW c \in Commands, Resolve(c) PROVE Sparing'
  <2>1. pc'[c] = "quarantine" => Matches(c) # {} /\ ~SharesPath(c)
    <3>1. Resolves(c) => Matches(c) # {}
      BY FS_EmptySet DEF Resolves
    <3>2. pc'[c] = "quarantine" => Resolves(c) /\ ~SharesPath(c)
      BY <1>3 DEF Resolve, End, Goto, Sparing, SparingTypes
    <3> QED
      BY <3>1, <3>2
  <2>2. /\ pc' = [pc EXCEPT ![c] = pc'[c]] /\ pc'[c] \in {"quarantine", "done"}
        /\ UNCHANGED <<registry, asked, managed, past>> /\ Running(c)
    BY <1>3 DEF Resolve, End, Goto, stores, history, Running, Sparing, SparingTypes
  <2> QED
    BY <1>2, <2>1, <2>2 DEF Sparing, SparingTypes
<1>4. ASSUME NEW c \in Commands, Quarantine(c) PROVE Sparing'
  BY <1>2, <1>4 DEF Quarantine, Goto, history, Running, Sparing, SparingTypes
<1>5. ASSUME NEW c \in Commands,
             \/ QuarantineFails(c) \/ KeepFails(c) \/ RecordFails(c)
             \/ Delete(c) \/ DeleteFails(c) \/ Crash(c)
      PROVE  Sparing'
  <2>1. /\ pc' = [pc EXCEPT ![c] = pc'[c]] /\ pc'[c] = "done"
        /\ UNCHANGED <<registry, asked, managed, past>>
    BY <1>5 DEF QuarantineFails, KeepFails, RecordFails, Delete, DeleteFails, Crash, End,
                Goto, stores, history, Sparing, SparingTypes
  <2> QED
    BY <1>2, <2>1 DEF Sparing, SparingTypes
<1>6. ASSUME NEW c \in Commands, Record(c) PROVE Sparing'
  BY <1>2, <1>6, RecordsComplete DEF Record, Goto, history, Running, Sparing, SparingTypes
<1>7. CASE UNCHANGED vars
  BY <1>7 DEF vars, stores, history, past, Sparing, SparingTypes, Complete, Unasked, Running,
              Matches, SharesPath, Index
<1> QED
  BY <1>1, <1>3, <1>4, <1>5, <1>6, <1>7 DEF Next

\* A step keeps the entries nobody asked to remove, and the files of those no other path
\* leads to.
LEMMA SparingSpares ==
    ASSUME Sparing, [Next]_vars, NEW e \in Bystanders
    PROVE  /\ e \in ToSet(registry')
           /\ Canonical[e.path] \in disk /\ ~Aliased(e) => Canonical[e.path] \in disk'
<1>1. e \in ToSet(written) /\ Unasked(e) /\ e \in ToSet(registry)
  BY DEF Bystanders, Sparing, Complete, Unasked
<1>2. e \in ToSet(registry')
  <2>1. ASSUME NEW c \in Commands, Record(c) PROVE e \in ToSet(registry')
    BY <1>1, <2>1, RecordsComplete DEF Record, Complete
  <2>2. CASE registry' = registry
    BY <1>1, <2>2
  <2> QED
    BY <2>1, <2>2
    DEF Next, Discover, Resolve, Quarantine, QuarantineFails, KeepFails, RecordFails,
        Delete, DeleteFails, Crash, stores, vars
<1>3. ASSUME NEW c \in Commands, Quarantine(c) \/ KeepFails(c), Canonical[e.path] \in disk, ~Aliased(e)
      PROVE  Canonical[e.path] \in disk'
  <2>1. /\ Index(c) \in DOMAIN managed[c] /\ managed[c][Index(c)].name = asked[c]
        /\ ~SharesPath(c) /\ Complete(managed[c])
    BY <1>3 DEF Quarantine, KeepFails, Sparing, Index, Matches, Running
  <2>2. managed[c][Index(c)] \in ToSet(written)
    BY <2>1 DEF Complete, ToSet
  <2>3. PICK j \in DOMAIN managed[c] : e = managed[c][j]
    BY <1>1, <2>1 DEF Complete, ToSet
  <2>4. j # Index(c)
    BY <1>1, <2>1, <2>3 DEF Unasked
  <2>5. managed[c][Index(c)].path # e.path
    BY <2>1, <2>3, <2>4 DEF SharesPath
  <2>6. Target(c) # Canonical[e.path]
    BY <1>3, <2>2, <2>5 DEF Aliased, Target
  <2> QED
    BY <1>3, <2>6 DEF Quarantine, KeepFails
<1>4. ASSUME Canonical[e.path] \in disk, ~Aliased(e) PROVE Canonical[e.path] \in disk'
  <2>1. CASE disk \subseteq disk'
    BY <1>4, <2>1
  <2> QED
    BY <1>3, <1>4, <2>1
    DEF Next, Discover, Resolve, QuarantineFails, Record, RecordFails, Delete, DeleteFails,
        Crash, stores, vars
<1> QED
  BY <1>2, <1>4

\* README: "Removal is intentionally strict": whatever invocations of rm overlap, fail or
\* are killed, an entry nobody asked to remove stays registered, and keeps its file unless
\* another path of the registry leads to it.
THEOREM OthersAreSpared == Spec => SparesOthers
<1> DEFINE Spared == \A e \in Bystanders :
        /\ e \in ToSet(registry')
        /\ Canonical[e.path] \in disk /\ ~Aliased(e) => Canonical[e.path] \in disk'
<1>1. Sparing /\ [Next]_vars => Spared
  BY SparingSpares
<1> QED
  BY <1>1, SparingInit, SparingStep, PTL DEF Spec, SparesOthers
-----------------------------------------------------------------------------
(***************************************************************************)
(* What is promised of invocations that do not overlap.  Then the copy of  *)
(* the registry that an invocation works on is the registry, until it is   *)
(* recorded; and whatever is missing on disk or in the registry is what    *)
(* the current invocation holds, or what a completed one has removed.      *)
(***************************************************************************)
Holding  == {c \in Commands : Holds(c)}
Recorded == {c \in Commands : pc[c] = "delete"} \cup Removers

\* The entry an invocation removes.
Entry(c) == managed[c][Index(c)]

\* An invocation past its checks has one entry, and no other has its path.
Checked ==
    \A c \in Commands :
        pc[c] \in {"quarantine", "record", "delete"} \/ c \in Removers =>
            /\ Matches(c) = {Index(c)}
            /\ ~SharesPath(c)

Sequential ==
    ~overlapped =>
        /\ \A c, d \in Commands : Running(c) /\ Running(d) => c = d
        /\ \A c \in Commands :
              pc[c] \in {"resolve", "quarantine", "record"} => managed[c] = registry
        /\ \A c \in Commands :
              pc[c] = "delete" => registry = RemoveAt(managed[c], Index(c))

Forgotten ==
    ~overlapped =>
        \A c \in Recorded : \A e \in ToSet(registry) : e.name # asked[c]

Accounted ==
    ~overlapped /\ ~mishap =>
        /\ disk \subseteq stored
        /\ quarantine = {Target(c) : c \in Holding}
        /\ stored \ disk = {Target(c) : c \in Holding \cup Removers}
        /\ ToSet(written) \ ToSet(registry) = {Entry(c) : c \in Recorded}

OneByOne ==
    /\ Inv /\ Sparing
    /\ outcome \in [Commands -> {"none", "refused", "failed", "removed", "unkept",
                             "crashed"}]
    /\ Checked /\ Sequential /\ Forgotten /\ Accounted

LEMMA SameEntry ==
    ASSUME NEW c, asked'[c] = asked[c], managed'[c] = managed[c]
    PROVE  /\ Matches(c)' = Matches(c) /\ Index(c)' = Index(c)
           /\ Entry(c)' = Entry(c) /\ Target(c)' = Target(c)
           /\ SharesPath(c)' <=> SharesPath(c)
<1>1. Matches(c)' = Matches(c)
  BY DEF Matches
<1>2. Index(c)' = Index(c)
  BY <1>1 DEF Index
<1> QED
  BY <1>1, <1>2 DEF Entry, Target, SharesPath

LEMMA SameEntries ==
    ASSUME UNCHANGED <<asked, managed>>
    PROVE  \A c : /\ Matches(c)' = Matches(c) /\ Index(c)' = Index(c)
                  /\ Entry(c)' = Entry(c) /\ Target(c)' = Target(c)
                  /\ SharesPath(c)' <=> SharesPath(c)
BY SameEntry

\* What a record of c takes out of its copy: its one entry, and nothing else.
LEMMA TakesItsEntry ==
    ASSUME OneByOne, NEW c \in Commands, pc[c] \in {"record", "delete"}
    PROVE  /\ ToSet(RemoveAt(managed[c], Index(c))) = ToSet(managed[c]) \ {Entry(c)}
           /\ \A e \in ToSet(RemoveAt(managed[c], Index(c))) :
                 e.name # asked[c] /\ e.path # Entry(c).path
           /\ Entry(c) \in ToSet(managed[c])
<1> DEFINE r == RemoveAt(managed[c], Index(c))
<1>1. managed[c] \in Seq(Entries) /\ Matches(c) = {Index(c)} /\ ~SharesPath(c)
  BY DEF OneByOne, Checked, Sparing, SparingTypes
<1>2. Index(c) \in DOMAIN managed[c] /\ Entry(c) \in ToSet(managed[c])
  BY <1>1 DEF Matches, Entry, ToSet
<1>3. ASSUME NEW e \in ToSet(r)
      PROVE  e \in ToSet(managed[c]) /\ e.name # asked[c] /\ e.path # Entry(c).path
  <2>1. PICK j \in DOMAIN managed[c] : j # Index(c) /\ e = managed[c][j]
    BY <1>1, <1>2, <1>3, Removed
  <2>2. j \notin Matches(c)
    BY <1>1, <2>1
  <2> QED
    BY <1>1, <2>1, <2>2 DEF Matches, SharesPath, Entry, ToSet
<1>4. ASSUME NEW e \in ToSet(managed[c]), e # Entry(c) PROVE e \in ToSet(r)
  <2>1. PICK j \in DOMAIN managed[c] : e = managed[c][j]
    BY <1>4 DEF ToSet
  <2>2. j # Index(c)
    BY <1>4, <2>1 DEF Entry
  <2> QED
    BY <1>1, <1>2, <2>1, <2>2, Removed
<1>5. Entry(c) \notin ToSet(r)
  BY <1>3
<1> QED
  BY <1>2, <1>3, <1>4, <1>5

LEMMA OneByOneInit == Init => OneByOne
<1> SUFFICES ASSUME Init PROVE OneByOne
  OBVIOUS
<1>1. /\ \A c \in Commands : pc[c] = "ready" /\ outcome[c] = "none"
      /\ outcome \in [Commands -> {"none", "refused", "failed", "removed", "unkept",
                             "crashed"}]
  BY DEF Init
<1>2. Removers = {} /\ Holding = {} /\ Recorded = {} /\ \A c \in Commands : ~Running(c)
  BY <1>1 DEF Removers, Holding, Holds, Recorded, Running
<1>3. Checked /\ Sequential /\ Forgotten
  BY <1>1, <1>2 DEF Checked, Sequential, Forgotten
<1>4. Accounted
  BY <1>2 DEF Init, Accounted
<1> QED
  BY <1>1, <1>3, <1>4, InvInit, SparingInit DEF OneByOne

LEMMA CheckedStep == OneByOne /\ [Next]_vars => Checked'
<1> SUFFICES ASSUME OneByOne, [Next]_vars,
                    NEW c \in Commands,
                    pc'[c] \in {"quarantine", "record", "delete"} \/ outcome'[c] = "removed"
             PROVE  Matches(c)' = {Index(c)'} /\ ~SharesPath(c)'
  BY DEF Checked, Removers
<1> USE DEF OneByOne, Sparing, SparingTypes
<1>1. CASE pc'[c] = pc[c] /\ outcome'[c] = outcome[c]
  <2>1. Matches(c) = {Index(c)} /\ ~SharesPath(c)
    BY <1>1 DEF Checked, Removers
  <2>2. asked'[c] = asked[c] /\ managed'[c] = managed[c]
    <3>1. ASSUME NEW d \in Commands, Discover(d)
          PROVE  asked'[c] = asked[c] /\ managed'[c] = managed[c]
      <4>1. c # d
        BY <1>1, <3>1 DEF Discover, Inv, Placed, Removers
      <4> QED
        BY <3>1, <4>1 DEF Discover
    <3> QED
      BY <3>1 DEF Next, vars, Resolve, Quarantine, QuarantineFails, KeepFails, Record,
                  RecordFails, Delete, DeleteFails, Crash
  <2> QED
    BY <2>1, <2>2, SameEntry
<1>2. CASE Resolve(c)
  <2>1. UNCHANGED <<asked, managed>>
    BY <1>2 DEF Resolve
  <2>2. Resolves(c) /\ ~SharesPath(c)
    BY <1>2 DEF Resolve, End, Goto, Inv, Placed, Removers
  <2>3. PICK i : Matches(c) = {i}
    <3>1. Matches(c) \subseteq 1..Len(managed[c]) /\ Len(managed[c]) \in Nat
      BY DEF Matches
    <3>2. IsFiniteSet(Matches(c))
      <4>1. IsFiniteSet(1..Len(managed[c]))
        BY <3>1, FS_Interval
      <4> QED
        BY <3>1, <4>1, FS_Subset
    <3> QED
      BY <2>2, <3>2, FS_Singleton DEF Resolves
  <2>4. Matches(c) = {Index(c)}
    BY <2>3 DEF Index
  <2> QED
    BY <2>1, <2>2, <2>4, SameEntries
<1>3. CASE Quarantine(c) \/ Record(c) \/ Delete(c)
  <2>1. UNCHANGED <<asked, managed>> /\ pc[c] \in {"quarantine", "record", "delete"}
    BY <1>3 DEF Quarantine, Record, Delete
  <2> QED
    BY <2>1, SameEntries DEF Checked
<1>4. ~(\/ QuarantineFails(c) \/ KeepFails(c) \/ RecordFails(c)
        \/ DeleteFails(c) \/ Crash(c) \/ Discover(c))
  BY DEF QuarantineFails, KeepFails, RecordFails, DeleteFails, Crash, Discover, End, Goto,
         Inv, Placed, Removers
<1>5. ASSUME NEW d \in Commands, d # c,
             \/ Discover(d) \/ Resolve(d)
             \/ Quarantine(d) \/ QuarantineFails(d) \/ KeepFails(d)
             \/ Record(d) \/ RecordFails(d) \/ Delete(d) \/ DeleteFails(d) \/ Crash(d)
      PROVE  pc'[c] = pc[c] /\ outcome'[c] = outcome[c]
  BY <1>5 DEF Discover, Resolve, Quarantine, QuarantineFails, KeepFails, Record,
              RecordFails, Delete, DeleteFails, Crash, End, Goto
<1>6. CASE UNCHANGED vars
  BY <1>1, <1>6 DEF vars
<1> QED
  BY <1>1, <1>2, <1>3, <1>4, <1>5, <1>6 DEF Next

\* Every step but Discover leaves the names and the copies alone, and is of one invocation.
Works(c) ==
    \/ Resolve(c) \/ Quarantine(c) \/ QuarantineFails(c) \/ KeepFails(c)
    \/ Record(c) \/ RecordFails(c) \/ Delete(c) \/ DeleteFails(c) \/ Crash(c)

LEMMA Working ==
    ASSUME OneByOne, NEW c \in Commands, Works(c)
    PROVE  /\ UNCHANGED <<asked, managed, written, stored, overlapped>>
           /\ Running(c) /\ c \notin Removers
           /\ \A d \in Commands \ {c} : pc'[d] = pc[d] /\ outcome'[d] = outcome[d]
           /\ ~mishap' => ~mishap
<1> USE DEF OneByOne, Sparing, SparingTypes
<1>1. /\ UNCHANGED <<asked, managed, written, stored, overlapped>>
      /\ Running(c) /\ ~mishap' => ~mishap
  BY DEF Works, Resolve, Quarantine, QuarantineFails, KeepFails, Record, RecordFails,
         Delete, DeleteFails, Crash, Running, history, past
<1>2. Running(c)
  BY DEF Works, Resolve, Quarantine, QuarantineFails, KeepFails, Record, RecordFails,
         Delete, DeleteFails, Crash, Running
<1>3. ~mishap' => ~mishap
  BY DEF Works, Resolve, Quarantine, QuarantineFails, KeepFails, Record, RecordFails,
         Delete, DeleteFails, Crash, history
<1>4. \A d \in Commands \ {c} : pc'[d] = pc[d] /\ outcome'[d] = outcome[d]
  BY DEF Works, Resolve, Quarantine, QuarantineFails, KeepFails, Record, RecordFails,
         Delete, DeleteFails, Crash, End, Goto
<1>5. c \notin Removers
  BY <1>2 DEF Inv, Placed, Running
<1> QED
  BY <1>1, <1>2, <1>3, <1>4, <1>5

LEMMA Discovering ==
    ASSUME OneByOne, NEW c \in Commands, Discover(c)
    PROVE  /\ UNCHANGED <<registry, disk, quarantine, written, stored, mishap, outcome>>
           /\ Removers' = Removers /\ c \notin Removers
           /\ Holding' = Holding /\ Recorded' = Recorded /\ c \notin Holding \cup Recorded
           /\ \A d \in Commands \ {c} :
                 /\ pc'[d] = pc[d] /\ asked'[d] = asked[d] /\ managed'[d] = managed[d]
           /\ pc'[c] = "resolve" /\ managed'[c] = registry
           /\ ~overlapped' => ~overlapped /\ \A d \in Commands : ~Running(d)
<1> USE DEF OneByOne, Sparing, SparingTypes
<1>1. /\ UNCHANGED <<registry, disk, quarantine, written, stored, mishap, outcome>>
      /\ Removers' = Removers
  BY DEF Discover, stores, past, Removers
<1>2. c \notin Removers
  BY DEF Inv, Placed, Discover
<1>3. /\ pc[c] = "ready" /\ pc'[c] = "resolve" /\ managed'[c] = registry
      /\ \A d \in Commands \ {c} :
            pc'[d] = pc[d] /\ asked'[d] = asked[d] /\ managed'[d] = managed[d]
  BY DEF Discover, Goto
<1>4. Holding' = Holding /\ c \notin Holding
  BY <1>3 DEF Holding, Holds
<1>5. Recorded' = Recorded /\ c \notin Recorded
  BY <1>1, <1>2, <1>3 DEF Recorded
<1>6. ~overlapped' => ~overlapped /\ \A d \in Commands : ~Running(d)
  BY DEF Discover
<1> QED
  BY <1>1, <1>2, <1>3, <1>4, <1>5, <1>6

LEMMA SequentialStep == OneByOne /\ [Next]_vars => Sequential'
<1> SUFFICES ASSUME OneByOne, [Next]_vars, ~overlapped' PROVE Sequential'
  BY DEF Sequential
<1> DEFINE Alone == \A c, d \in Commands : Running(c) /\ Running(d) => c = d
           Reads(c) == pc[c] \in {"resolve", "quarantine", "record"} => managed[c] = registry
           Wrote(c) == pc[c] = "delete" => registry = RemoveAt(managed[c], Index(c))
<1> SUFFICES Alone' /\ \A d \in Commands : Reads(d)' /\ Wrote(d)'
  BY DEF Sequential
<1>1. ~overlapped => Alone /\ \A d \in Commands : Reads(d) /\ Wrote(d)
  BY DEF OneByOne, Sequential
<1> HIDE DEF OneByOne
<1>2. ASSUME NEW c \in Commands, Discover(c)
      PROVE  Alone' /\ \A d \in Commands : Reads(d)' /\ Wrote(d)'
  <2>1. \A d \in Commands : d # c => pc'[d] \in {"ready", "done"}
    BY <1>2, Discovering DEF Running
  <2> QED
    BY <1>2, <2>1, Discovering DEF Running
<1>3. ASSUME NEW c \in Commands, Works(c)
      PROVE  Alone' /\ \A d \in Commands : Reads(d)' /\ Wrote(d)'
  <2>1. /\ ~overlapped /\ Running(c) /\ UNCHANGED <<asked, managed>>
        /\ \A d \in Commands \ {c} : pc'[d] = pc[d]
    BY <1>3, Working
  <2>2. \A d \in Commands \ {c} : pc'[d] \in {"ready", "done"}
    BY <1>1, <2>1 DEF Running
  <2>3. Alone' /\ \A d \in Commands \ {c} : Reads(d)' /\ Wrote(d)'
    BY <2>2 DEF Running
  <2>4. Index(c)' = Index(c)
    BY <2>1, SameEntries
  <2>5. CASE Record(c)
    <3>1. /\ pc[c] = "record" /\ pc'[c] = "delete"
          /\ registry' = RemoveAt(managed[c], Index(c))
      BY <2>5 DEF Record, Goto, OneByOne, Sparing, SparingTypes
    <3> QED
      BY <2>1, <2>3, <2>4, <3>1
  <2>6. CASE ~Record(c)
    <3>1. registry' = registry
      BY <1>3, <2>6 DEF Works, Resolve, Quarantine, QuarantineFails, KeepFails,
                        RecordFails, Delete, DeleteFails, Crash, stores
    <3>2. \/ pc'[c] = "done"
          \/ pc'[c] \in {"quarantine", "record"} /\ pc[c] \in {"resolve", "quarantine"}
      BY <1>3, <2>6 DEF Works, Resolve, Quarantine, QuarantineFails, KeepFails,
                        RecordFails, Delete, DeleteFails, Crash, End, Goto, OneByOne, Sparing, SparingTypes
    <3>3. Reads(c)' /\ Wrote(c)'
      BY <1>1, <2>1, <3>1, <3>2
    <3> QED
      BY <2>3, <3>3
  <2> QED
    BY <2>5, <2>6
<1>4. CASE UNCHANGED vars
  <2>1. UNCHANGED <<pc, asked, managed, registry, overlapped>>
    BY <1>4 DEF vars, stores, history
  <2>2. \A d \in Commands : Index(d)' = Index(d)
    BY <2>1, SameEntries
  <2> QED
    BY <1>1, <2>1, <2>2 DEF Running
<1> QED
  BY <1>2, <1>3, <1>4 DEF Next, Works

\* What each step does to the sets that the accounts are about.
LEMMA Movements ==
    ASSUME OneByOne, NEW c \in Commands
    PROVE  /\ Resolve(c) \/ QuarantineFails(c) =>
                UNCHANGED <<Holding, Removers, Recorded>>
           /\ Quarantine(c) => /\ Holding' = Holding \cup {c}
                               /\ UNCHANGED <<Removers, Recorded>>
           /\ Record(c) => /\ Recorded' = Recorded \cup {c}
                           /\ UNCHANGED <<Holding, Removers>> /\ c \in Holding
           /\ KeepFails(c) => UNCHANGED <<Holding, Removers, Recorded>>
           /\ RecordFails(c) => /\ Holding' = Holding \ {c} /\ c \in Holding
                                /\ UNCHANGED <<Removers, Recorded>>
           /\ Delete(c) => /\ Holding' = Holding \ {c} /\ c \in Holding
                           /\ Removers' = Removers \cup {c}
                           /\ Recorded' = Recorded
           /\ DeleteFails(c) \/ Crash(c) => Recorded' \subseteq Recorded
<1> USE DEF Holding, Holds, Recorded, Removers, End, Goto
<1>1. Works(c) => /\ c \notin Removers
                  /\ \A d \in Commands \ {c} : pc'[d] = pc[d] /\ outcome'[d] = outcome[d]
  BY Working
<1> USE DEF OneByOne, Sparing, SparingTypes
<1>2. Resolve(c) \/ QuarantineFails(c) =>
        /\ pc'[c] \in {"quarantine", "done"} /\ pc[c] \in {"resolve", "quarantine"}
        /\ outcome'[c] # "removed"
  BY <1>1 DEF Resolve, QuarantineFails, Works
<1>3. Resolve(c) \/ QuarantineFails(c) => UNCHANGED <<Holding, Removers, Recorded>>
  BY <1>1, <1>2 DEF Works
<1>4. Quarantine(c) => /\ Holding' = Holding \cup {c}
                       /\ UNCHANGED <<Removers, Recorded>>
  BY <1>1 DEF Quarantine, Works
<1>5. Record(c) => /\ Recorded' = Recorded \cup {c}
                   /\ UNCHANGED <<Holding, Removers>> /\ c \in Holding
  BY <1>1 DEF Record, Works
<1>6. RecordFails(c) => /\ Holding' = Holding \ {c} /\ c \in Holding
                        /\ UNCHANGED <<Removers, Recorded>>
  BY <1>1 DEF RecordFails, Works
<1>7. Delete(c) => /\ Holding' = Holding \ {c} /\ c \in Holding
                   /\ Removers' = Removers \cup {c}
                   /\ Recorded' = Recorded
  BY <1>1 DEF Delete, Works
<1>8. DeleteFails(c) \/ Crash(c) => Recorded' \subseteq Recorded
  BY <1>1 DEF DeleteFails, Crash, Works
<1>9. KeepFails(c) => /\ pc'[c] = "done" /\ pc[c] = "quarantine"
                      /\ outcome'[c] # "removed"
  BY DEF KeepFails
<1>10. KeepFails(c) => UNCHANGED <<Holding, Removers, Recorded>>
  BY <1>1, <1>9 DEF Works
<1> QED
  BY <1>3, <1>4, <1>5, <1>6, <1>7, <1>8, <1>10

LEMMA ForgottenStep == OneByOne /\ [Next]_vars => Forgotten'
<1> SUFFICES ASSUME OneByOne, [Next]_vars, ~overlapped',
                    NEW d \in Commands, d \in Recorded', NEW e \in ToSet(registry')
             PROVE  e.name # asked'[d]
  BY DEF Forgotten, Recorded, Removers
<1>1. ASSUME ~overlapped, d \in Recorded, e \in ToSet(registry) PROVE e.name # asked[d]
  BY <1>1 DEF OneByOne, Forgotten
<1>2. ASSUME NEW c \in Commands, Discover(c) PROVE e.name # asked'[d]
  <2>1. d \in Recorded /\ d # c /\ ~overlapped /\ asked'[d] = asked[d] /\ registry' = registry
    BY <1>2, Discovering
  <2> QED
    BY <1>1, <2>1
<1>3. ASSUME NEW c \in Commands, Works(c) PROVE e.name # asked'[d]
  <2>1. ~overlapped /\ asked' = asked
    BY <1>3, Working
  <2>2. CASE Record(c)
    <3>1. /\ registry' = RemoveAt(managed[c], Index(c)) /\ managed[c] = registry
          /\ pc[c] = "record"
      BY <2>1, <2>2 DEF Record, OneByOne, Sequential
    <3>2. e \in ToSet(registry) /\ e.name # asked[c]
      BY <3>1, TakesItsEntry
    <3>3. d = c \/ d \in Recorded
      BY <2>2, Movements
    <3> QED
      BY <1>1, <2>1, <3>2, <3>3
  <2>3. CASE ~Record(c)
    <3>1. registry' = registry
      BY <1>3, <2>3 DEF Works, Resolve, Quarantine, QuarantineFails, KeepFails,
                        RecordFails, Delete, DeleteFails, Crash, stores
    <3>2. d \in Recorded
      BY <1>3, <2>3, Movements DEF Works
    <3> QED
      BY <1>1, <2>1, <3>1, <3>2
  <2> QED
    BY <2>2, <2>3
<1>4. CASE UNCHANGED vars
  BY <1>1, <1>4 DEF vars, stores, history, Recorded, Removers
<1> QED
  BY <1>2, <1>3, <1>4 DEF Next, Works

\* Two invocations that hold a file or removed one do not do so with the same.
LEMMA ApartTargets ==
    ASSUME OneByOne, NEW c \in Holding, NEW d \in Holding \cup Removers, c # d
    PROVE  Target(c) # Target(d)
BY DEF OneByOne, Inv, OneRemover, PastRename, Holding, Holds, Removers

LEMMA AccountedStep == OneByOne /\ [Next]_vars => Accounted'
<1> DEFINE Held    == quarantine = {Target(c) : c \in Holding}
           Gone    == stored \ disk = {Target(c) : c \in Holding \cup Removers}
           Dropped == ToSet(written) \ ToSet(registry) = {Entry(c) : c \in Recorded}
<1> SUFFICES ASSUME OneByOne, [Next]_vars, ~overlapped', ~mishap'
             PROVE  (disk \subseteq stored)' /\ Held' /\ Gone' /\ Dropped'
  BY DEF Accounted
<1>1. ~overlapped /\ ~mishap => disk \subseteq stored /\ Held /\ Gone /\ Dropped
  BY DEF OneByOne, Accounted
<1>2. ASSUME NEW c \in Commands, Discover(c)
      PROVE  (disk \subseteq stored)' /\ Held' /\ Gone' /\ Dropped'
  <2>1. /\ ~overlapped /\ ~mishap
        /\ UNCHANGED <<registry, disk, quarantine, written, stored>>
        /\ UNCHANGED <<Holding, Removers, Recorded>>
    BY <1>2, Discovering
  <2>2. \A d \in Holding \cup Removers \cup Recorded :
           Target(d)' = Target(d) /\ Entry(d)' = Entry(d)
    <3> SUFFICES ASSUME NEW d \in Holding \cup Removers \cup Recorded
                 PROVE  Target(d)' = Target(d) /\ Entry(d)' = Entry(d)
      OBVIOUS
    <3>1. asked'[d] = asked[d] /\ managed'[d] = managed[d]
      BY <1>2, Discovering DEF Holding, Removers, Recorded
    <3> QED
      BY <3>1, SameEntry
  <2> QED
    BY <1>1, <2>1, <2>2
<1>3. ASSUME NEW c \in Commands, Works(c)
      PROVE  (disk \subseteq stored)' /\ Held' /\ Gone' /\ Dropped'
  <2>1. /\ ~overlapped /\ ~mishap /\ UNCHANGED <<asked, managed, written, stored>>
    BY <1>3, Working
  <2>2. \A d : Target(d)' = Target(d) /\ Entry(d)' = Entry(d)
    BY <2>1, SameEntries
  <2>3. disk \subseteq stored /\ Held /\ Gone /\ Dropped
    BY <1>1, <2>1
  <2>4. CASE Resolve(c) \/ QuarantineFails(c)
    <3>1. UNCHANGED <<registry, disk, quarantine, Holding, Removers, Recorded>>
      BY <2>4, Movements DEF Resolve, QuarantineFails, stores
    <3> QED
      BY <2>1, <2>2, <2>3, <3>1
  <2>5. CASE Quarantine(c)
    <3>1. /\ Target(c) \in disk /\ disk' = disk \ {Target(c)}
          /\ quarantine' = quarantine \cup {Target(c)} /\ registry' = registry
          /\ Holding' = Holding \cup {c} /\ UNCHANGED <<Removers, Recorded>>
      BY <2>5, Movements DEF Quarantine
    <3> QED
      BY <2>1, <2>2, <2>3, <3>1
  <2>6. CASE Record(c)
    <3>1. /\ registry' = RemoveAt(managed[c], Index(c)) /\ managed[c] = registry
          /\ pc[c] = "record" /\ UNCHANGED <<disk, quarantine>>
      BY <2>1, <2>6 DEF Record, OneByOne, Sequential
    <3>2. /\ Recorded' = Recorded \cup {c} /\ UNCHANGED <<Holding, Removers>>
      BY <2>6, Movements
    <3>3. ToSet(registry') = ToSet(registry) \ {Entry(c)} /\ Entry(c) \in ToSet(registry)
      BY <3>1, TakesItsEntry
    <3>4. ToSet(registry) \subseteq ToSet(written)
      BY DEF OneByOne, Sparing, Complete
    <3> HIDE DEF Held, Gone
    <3>5. Dropped'
      BY <2>1, <2>2, <2>3, <3>2, <3>3, <3>4
    <3>6. Held' /\ Gone'
      BY <2>1, <2>2, <2>3, <3>1, <3>2 DEF Held, Gone
    <3> QED
      BY <2>1, <2>3, <3>1, <3>5, <3>6
  <2>7. CASE RecordFails(c)
    <3>1. /\ disk' = disk \cup {Target(c)} /\ quarantine' = quarantine \ {Target(c)}
          /\ registry' = registry
          /\ Holding' = Holding \ {c} /\ c \in Holding /\ UNCHANGED <<Removers, Recorded>>
      BY <2>7, Movements DEF RecordFails
    <3>2. \A d \in (Holding \cup Removers) \ {c} : Target(d) # Target(c)
      BY <3>1, ApartTargets
    <3>3. c \notin Removers
      BY <1>3, Working
    <3> QED
      BY <2>1, <2>2, <2>3, <3>1, <3>2, <3>3
  <2>8. CASE Delete(c)
    <3>1. /\ disk' = disk /\ quarantine' = quarantine \ {Target(c)} /\ registry' = registry
          /\ Holding' = Holding \ {c} /\ c \in Holding
          /\ Removers' = Removers \cup {c} /\ Recorded' = Recorded
      BY <2>8, Movements DEF Delete
    <3>2. \A d \in (Holding \cup Removers) \ {c} : Target(d) # Target(c)
      BY <3>1, ApartTargets
    <3> QED
      BY <2>1, <2>2, <2>3, <3>1, <3>2
  <2>9. ~(KeepFails(c) \/ DeleteFails(c) \/ Crash(c))
    BY DEF KeepFails, DeleteFails, Crash
  <2> QED
    BY <1>3, <2>4, <2>5, <2>6, <2>7, <2>8, <2>9 DEF Works
<1>4. CASE UNCHANGED vars
  <2>1. /\ UNCHANGED <<registry, disk, quarantine, written, stored, overlapped, mishap>>
        /\ UNCHANGED <<asked, managed>>
        /\ UNCHANGED <<Holding, Removers, Recorded>>
    BY <1>4 DEF vars, stores, history, past, Holding, Holds, Removers, Recorded
  <2>2. \A d : Target(d)' = Target(d) /\ Entry(d)' = Entry(d)
    BY <2>1, SameEntries
  <2> QED
    BY <1>1, <2>1, <2>2
<1> QED
  BY <1>2, <1>3, <1>4 DEF Next, Works

LEMMA OneByOneStep == OneByOne /\ [Next]_vars => OneByOne'
<1> SUFFICES ASSUME OneByOne, [Next]_vars PROVE OneByOne'
  OBVIOUS
<1>1. Inv' /\ Sparing'
  BY InvStep, SparingStep DEF OneByOne
<1>2. outcome' \in [Commands -> {"none", "refused", "failed", "removed", "unkept",
                             "crashed"}]
  <2>1. outcome \in [Commands -> {"none", "refused", "failed", "removed", "unkept",
                             "crashed"}]
    BY DEF OneByOne
  <2> QED
    BY <2>1 DEF Next, vars, Discover, Resolve, Quarantine, QuarantineFails, KeepFails,
                Record, RecordFails, Delete, DeleteFails, Crash, End
<1> QED
  BY <1>1, <1>2, CheckedStep, SequentialStep, ForgottenStep, AccountedStep DEF OneByOne

\* rm prints "Removed": whatever invocations overlap, fail or are killed before and after,
\* the file is under neither of its names, and as long as none overlap the name is not
\* registered again.
THEOREM RemovedStaysGone == Spec => []RemovedIsGone
<1>1. OneByOne => RemovedIsGone
  BY DEF OneByOne, Inv, Placed, Forgotten, Recorded, RemovedIsGone, Removers
<1> QED
  BY <1>1, OneByOneInit, OneByOneStep, PTL DEF Spec

\* remove: when no invocation overlaps another, none is killed and no restore or deletion
\* fails, the files and the entries that are missing in the end are exactly those of the
\* removals that were reported.
THEOREM ErrorsRestore == Spec => []ErrorsPutBack
<1>1. OneByOne => ErrorsPutBack
  <2> SUFFICES ASSUME OneByOne, ~overlapped, ~mishap, \A c \in Commands : ~Running(c)
               PROVE  /\ quarantine = {}
                      /\ stored \ disk = {Target(c) : c \in Removers}
                      /\ ToSet(written) \ ToSet(registry)
                            = {managed[c][Index(c)] : c \in Removers}
    BY DEF ErrorsPutBack
  <2>1. Holding = {} /\ Recorded = Removers
    BY DEF Running, Holding, Holds, Recorded, Removers
  <2>2. /\ quarantine = {Target(c) : c \in Holding}
        /\ stored \ disk = {Target(c) : c \in Holding \cup Removers}
        /\ ToSet(written) \ ToSet(registry) = {Entry(c) : c \in Recorded}
    BY DEF OneByOne, Accounted
  <2> QED
    BY <2>1, <2>2 DEF Entry
<1> QED
  BY <1>1, OneByOneInit, OneByOneStep, PTL DEF Spec

\* Only a deletion destroys a file, and the registry names that file no more; or else a
\* quarantine name could not be kept.
LEMMA StepForgetsFirst ==
    ASSUME OneByOne, [Next]_vars, ~overlapped', NEW e \in ToSet(registry'), ~Aliased(e),
           Canonical[e.path] \in disk \cup quarantine
    PROVE  Canonical[e.path] \in disk' \cup quarantine' \cup Unkept'
<1>1. ASSUME NEW c \in Commands, Delete(c) PROVE Canonical[e.path] # Target(c)
  <2>1. pc[c] = "delete" /\ registry' = registry /\ ~overlapped
    BY <1>1 DEF Delete, history
  <2>2. registry = RemoveAt(managed[c], Index(c))
    BY <2>1 DEF OneByOne, Sequential
  <2>3. e.path # Entry(c).path /\ Entry(c) \in ToSet(managed[c])
    BY <2>1, <2>2, TakesItsEntry
  <2>4. Entry(c) \in ToSet(written)
    BY <2>1, <2>3 DEF OneByOne, Sparing, Complete, Running
  <2> QED
    BY <2>3, <2>4 DEF Aliased, Entry, Target
<1>2. ASSUME NEW c \in Commands, Works(c), ~Delete(c), ~KeepFails(c)
      PROVE  disk \cup quarantine \subseteq disk' \cup quarantine'
  BY <1>2 DEF Works, Resolve, Quarantine, QuarantineFails, Record, RecordFails, DeleteFails,
              Crash, stores
<1>3. ASSUME NEW c \in Commands, Delete(c)
      PROVE  disk' = disk /\ quarantine' = quarantine \ {Target(c)}
  BY <1>3 DEF Delete
<1>4. ASSUME (\E c \in Commands : Discover(c)) \/ UNCHANGED vars
      PROVE  disk' = disk /\ quarantine' = quarantine
  BY <1>4 DEF Discover, vars, stores
<1>5. ASSUME NEW c \in Commands, KeepFails(c)
      PROVE  /\ disk' = disk \ {Target(c)} /\ quarantine' = quarantine
             /\ Target(c) \in Unkept'
  <2>1. Target(c)' = Target(c)
    BY <1>5, SameTarget DEF KeepFails
  <2>2. outcome'[c] = "unkept"
    BY <1>5 DEF KeepFails, End, OneByOne, Inv, Functions
  <2> QED
    BY <1>5, <2>1, <2>2 DEF KeepFails, Unkept
<1> QED
  BY <1>1, <1>2, <1>3, <1>4, <1>5 DEF Next, Works

\* remove: the file of a registered entry stays under one of its two names, whichever step
\* fails or is the last before the process is killed, as long as invocations do not overlap
\* and the quarantine name can be kept.
THEOREM NothingDestroyedEarly == Spec => ForgottenBeforeDestroyed
<1> DEFINE Forgets == \A e \in ToSet(registry') :
        ~overlapped' /\ ~Aliased(e) /\ Canonical[e.path] \in disk \cup quarantine =>
            Canonical[e.path] \in disk' \cup quarantine' \cup Unkept'
<1>1. OneByOne /\ [Next]_vars => Forgets
  BY StepForgetsFirst
<1> QED
  BY <1>1, OneByOneInit, OneByOneStep, PTL DEF Spec, ForgottenBeforeDestroyed
-----------------------------------------------------------------------------
(***************************************************************************)
(* Positional reads.  What a reader has is the beginning of its request,   *)
(* and no step of another reader touches it; the file's length and shared  *)
(* cursor decide how much it gets, never what.                             *)
(***************************************************************************)
ReadTypes ==
    /\ at \in [Readers -> {"idle", "seek", "read", "done", "failed"}]
    /\ request \in [Readers -> Requests \cup {<<>>}]
    /\ DOMAIN got = Readers
    /\ size \in Nat

\* The bytes a reader has are the first it asked for.
Prefix(q, bytes) ==
    /\ Len(bytes) <= q.bytes
    /\ \A i \in 1..Len(bytes) : bytes[i] = Ranges[q.tensor].start + q.offset + i - 1

Reading(r) ==
    /\ at[r] # "seek" /\ got[r] \in Seq(Int)
    /\ at[r] = "idle" => got[r] = <<>>
    /\ at[r] \in {"read", "done"} =>
         /\ request[r] \in Requests /\ ~OutOfBounds(request[r])
         /\ Prefix(request[r], got[r])
    /\ at[r] = "done" => Len(got[r]) = request[r].bytes

ReadsInv == ReadTypes /\ (handle.positional => \A r \in Readers : Reading(r))

LEMMA ReadsInitially == ReadsInit => ReadsInv
BY ReadsAssumption DEF ReadsInit, ReadsInv, ReadTypes, Reading

\* A read appended to what there is, when it continues what was read so far.
LEMMA Continued ==
    ASSUME NEW s \in Seq(Int), NEW more \in Seq(Int), NEW first \in Int,
           \A i \in 1..Len(s) : s[i] = first + i - 1,
           \A i \in 1..Len(more) : more[i] = first + Len(s) + i - 1
    PROVE  /\ Len(s \o more) = Len(s) + Len(more)
           /\ \A i \in 1..Len(s \o more) : (s \o more)[i] = first + i - 1
<1>1. Len(s \o more) = Len(s) + Len(more)
  OBVIOUS
<1>2. ASSUME NEW i \in 1..(Len(s) + Len(more)) PROVE (s \o more)[i] = first + i - 1
  <2>1. CASE i <= Len(s)
    <3>1. (s \o more)[i] = s[i] /\ i \in 1..Len(s)
      BY <2>1
    <3> QED
      BY <3>1
  <2>2. CASE i > Len(s)
    <3>1. (s \o more)[i] = more[i - Len(s)] /\ i - Len(s) \in 1..Len(more)
      BY <2>2
    <3>2. more[i - Len(s)] = first + Len(s) + (i - Len(s)) - 1
      BY <3>1
    <3> QED
      BY <3>1, <3>2
  <2> QED
    BY <2>1, <2>2
<1> QED
  BY <1>1, <1>2

\* The bytes of one read, behind those there were.
LEMMA Extended ==
    ASSUME NEW q \in Requests, NEW s \in Seq(Int), Prefix(q, s), q.tensor \in DOMAIN Ranges,
           NEW n \in Nat, n <= q.bytes - Len(s),
           NEW from \in Int, from = Ranges[q.tensor].start + q.offset + Len(s)
    PROVE  /\ Prefix(q, s \o [i \in 1..n |-> from + i - 1])
           /\ s \o [i \in 1..n |-> from + i - 1] \in Seq(Int)
<1> DEFINE more == [i \in 1..n |-> from + i - 1]
           first == Ranges[q.tensor].start + q.offset
<1>1. Len(s) \in Nat /\ q.bytes \in Nat /\ first \in Int
  BY ReadsAssumption
<1>2. more \in Seq(Int) /\ Len(more) = n
  OBVIOUS
<1>3. \A i \in 1..Len(more) : more[i] = first + Len(s) + i - 1
  BY <1>2
<1>4. \A i \in 1..Len(s) : s[i] = first + i - 1
  BY DEF Prefix
<1>5. s \o more \in Seq(Int)
  BY <1>2
<1>6. /\ Len(s \o more) = Len(s) + Len(more)
      /\ \A i \in 1..Len(s \o more) : (s \o more)[i] = first + i - 1
  <2> HIDE DEF more, first
  <2> QED
    BY <1>1, <1>2, <1>3, <1>4, Continued
<1>7. Len(s \o more) <= q.bytes
  BY <1>1, <1>2, <1>6
<1>8. \A i \in 1..Len(s \o more) : (s \o more)[i] = Ranges[q.tensor].start + q.offset + i - 1
  BY <1>6
<1>9. Prefix(q, s \o more)
  <2> HIDE DEF more, first
  <2> QED
    BY <1>7, <1>8 DEF Prefix
<1> QED
  BY <1>5, <1>9 DEF more

LEMMA ReadsStep == ReadsInv /\ [ReadsNext]_readVars => ReadsInv'
<1> SUFFICES ASSUME ReadsInv, [ReadsNext]_readVars PROVE ReadsInv'
  OBVIOUS
<1> USE DEF ReadTypes
\* A step of one reader that changes only what it has.
<1>1. ASSUME NEW r \in Readers, handle' = handle, ReadTypes',
             \A o \in Readers \ {r} :
                 at'[o] = at[o] /\ request'[o] = request[o] /\ got'[o] = got[o],
             handle.positional => Reading(r)'
      PROVE  ReadsInv'
  <2>1. \A o \in Readers \ {r} : Reading(o) => Reading(o)'
    BY <1>1 DEF Reading
  <2> QED
    BY <1>1, <2>1 DEF ReadsInv
<1>2. ASSUME NEW r \in Readers, BeginRead(r) PROVE ReadsInv'
  <2>1. PICK q \in Requests :
          /\ request' = [request EXCEPT ![r] = q]
          /\ at' = [at EXCEPT ![r] = IF OutOfBounds(q) THEN "failed"
                                     ELSE IF handle.positional THEN "read" ELSE "seek"]
    BY <1>2 DEF BeginRead
  <2>2. ReadTypes' /\ UNCHANGED <<handle, got>>
    BY <1>2, <2>1 DEF BeginRead, ReadsInv
  <2>3. handle.positional => Reading(r)'
    <3> SUFFICES ASSUME handle.positional PROVE Reading(r)'
      OBVIOUS
    <3>1. got'[r] = <<>> /\ request'[r] = q
      BY <1>2, <2>1, <2>2 DEF BeginRead, ReadsInv, Reading
    <3>2. Prefix(q, <<>>)
      BY ReadsAssumption DEF Prefix
    <3>3. \/ at'[r] = "failed"
          \/ at'[r] = "read" /\ ~OutOfBounds(q)
      BY <2>1 DEF ReadsInv
    <3> QED
      BY <3>1, <3>2, <3>3 DEF Reading
  <2> QED
    BY <1>1, <2>1, <2>2, <2>3 DEF ReadsInv
<1>3. ASSUME NEW r \in Readers, Seek(r) PROVE ReadsInv'
  <2>1. /\ at' = [at EXCEPT ![r] = "read"] /\ UNCHANGED <<handle, size, request, got>>
        /\ cursor' = Wanted(r) /\ at[r] = "seek"
    BY <1>3 DEF Seek
  <2>2. ~handle.positional
    BY <2>1 DEF ReadsInv, Reading
  <2> QED
    BY <2>1, <2>2 DEF ReadsInv
<1>4. ASSUME NEW r \in Readers, ReadSome(r) PROVE ReadsInv'
  <2> DEFINE from == IF handle.positional THEN Wanted(r) ELSE cursor
             most == Min({Left(r), size - from})
  <2>1. /\ \/ at' = [at EXCEPT ![r] = "failed"] /\ got' = got
           \/ /\ at' = at
              /\ \E n \in 1..most :
                    got' = [got EXCEPT ![r] = @ \o [i \in 1..n |-> from + i - 1]]
        /\ at[r] = "read" /\ UNCHANGED <<handle, size, request>>
    BY <1>4 DEF ReadSome
  <2>2. ReadTypes'
    BY <2>1 DEF ReadsInv
  <2>3. \A o \in Readers \ {r} :
           at'[o] = at[o] /\ request'[o] = request[o] /\ got'[o] = got[o]
    BY <2>1 DEF ReadsInv
  <2>4. handle.positional => Reading(r)'
    <3> SUFFICES ASSUME handle.positional PROVE Reading(r)'
      OBVIOUS
    <3> DEFINE q == request[r]
               s == got[r]
    <3>1. /\ q \in Requests /\ ~OutOfBounds(q) /\ Prefix(q, s) /\ s \in Seq(Int)
          /\ Reading(r)
      BY <2>1 DEF ReadsInv, Reading
    <3>2. CASE at' = [at EXCEPT ![r] = "failed"] /\ got' = got
      BY <3>1, <3>2 DEF Reading, ReadsInv
    <3>3. ASSUME at' = at, NEW n \in 1..most,
                 got' = [got EXCEPT ![r] = @ \o [i \in 1..n |-> from + i - 1]]
          PROVE  Reading(r)'
      <4>1. /\ q.tensor \in DOMAIN Ranges /\ q.bytes \in Nat /\ q.offset \in Nat
            /\ Ranges[q.tensor].start \in Nat /\ Len(s) \in Nat
        BY <3>1, ReadsAssumption DEF OutOfBounds
      <4>2. from = Ranges[q.tensor].start + q.offset + Len(s) /\ from \in Int
        BY <4>1 DEF Wanted
      <4>3. Left(r) \in Int /\ Left(r) = q.bytes - Len(s) /\ size - from \in Int
        BY <4>1, <4>2 DEF Left, ReadsInv
      <4>4. most \in Int /\ most <= Left(r)
        <5> HIDE DEF from
        <5>1. \A x, y \in Int : Min({x, y}) \in Int /\ Min({x, y}) <= x
          <6> SUFFICES ASSUME NEW x \in Int, NEW y \in Int
                       PROVE  Min({x, y}) \in Int /\ Min({x, y}) <= x
            OBVIOUS
          <6>1. \E m \in {x, y} : \A k \in {x, y} : m <= k
            OBVIOUS
          <6>2. Min({x, y}) \in {x, y} /\ \A k \in {x, y} : Min({x, y}) <= k
            BY <6>1 DEF Min
          <6> QED
            BY <6>2
        <5> QED
          BY <4>3, <5>1
      <4>5. n \in Nat /\ n <= q.bytes - Len(s)
        <5> HIDE DEF most, q, s
        <5> QED
          BY <3>3, <4>3, <4>4
      <4>6. got'[r] = s \o [i \in 1..n |-> from + i - 1]
        BY <3>3 DEF ReadsInv
      <4>7. Prefix(q, got'[r]) /\ got'[r] \in Seq(Int)
        <5> HIDE DEF from, most, q, s
        <5> QED
          BY <3>1, <4>1, <4>2, <4>5, <4>6, Extended
      <4> QED
        BY <2>1, <3>1, <3>3, <4>7 DEF Reading
    <3> QED
      BY <2>1, <3>2, <3>3
  <2> HIDE DEF from, most
  <2> QED
    BY <1>1, <2>1, <2>2, <2>3, <2>4
<1>5. ASSUME NEW r \in Readers, Interrupted(r) \/ EndRead(r) PROVE ReadsInv'
  <2>1. /\ at'[r] \in {"read", "done", "failed"} /\ at[r] = "read"
        /\ at' = [at EXCEPT ![r] = at'[r]]
        /\ UNCHANGED <<handle, size, cursor, request, got>>
    BY <1>5 DEF Interrupted, EndRead, ReadsInv
  <2>2. at'[r] = "done" => Left(r) = 0
    BY <1>5 DEF Interrupted, EndRead, ReadsInv
  <2>3. handle.positional => Reading(r)'
    <3> SUFFICES ASSUME handle.positional PROVE Reading(r)'
      OBVIOUS
    <3>1. Reading(r) /\ request'[r] = request[r] /\ got'[r] = got[r]
      BY <2>1 DEF ReadsInv
    <3>2. at'[r] = "done" => Len(got[r]) = request[r].bytes
      <4>1. request[r].bytes \in Nat /\ Len(got[r]) \in Nat
        BY <2>1, <3>1, ReadsAssumption DEF Reading, ReadsInv
      <4> QED
        BY <2>2, <4>1 DEF Left
    <3> QED
      BY <2>1, <3>1, <3>2 DEF Reading
  <2> QED
    BY <1>1, <2>1, <2>3 DEF ReadsInv
<1>6. CASE Truncate
  BY <1>6, ReadsAssumption DEF Truncate, ReadsInv, Reading
<1>7. CASE UNCHANGED readVars
  BY <1>7 DEF readVars, ReadsInv, Reading
<1> QED
  BY <1>2, <1>3, <1>4, <1>5, <1>6, <1>7 DEF ReadsNext

\* src/gguf.rs:607, "The file descriptor is shared safely between readers": a positional read
\* that succeeds delivers exactly the bytes of its request, all of its tensor, whatever
\* other readers, signals and a file that shrinks do meanwhile.
THEOREM ReadsAreExact == ReadsSpec => []ReadsExact
<1>1. ReadsInv => ReadsExact
  <2> SUFFICES ASSUME ReadsInv, handle.positional, NEW r \in Readers, at[r] = "done"
               PROVE  Exact(r)
    BY DEF ReadsExact
  <2> DEFINE q == request[r]
             t == Ranges[q.tensor]
  <2>1. /\ q \in Requests /\ ~OutOfBounds(q) /\ Prefix(q, got[r]) /\ Len(got[r]) = q.bytes
        /\ got[r] \in Seq(Int)
    BY DEF ReadsInv, ReadTypes, Reading
  <2>2. /\ q.tensor \in DOMAIN Ranges /\ q.offset + q.bytes <= t.bytes
        /\ q.offset \in Nat /\ q.bytes \in Nat /\ t.start \in Nat /\ t.bytes \in Nat
    BY <2>1, ReadsAssumption DEF OutOfBounds
  <2>3. DOMAIN got[r] = 1..q.bytes
    BY <2>1
  <2>4. \A i \in 1..q.bytes : got[r][i] = t.start + q.offset + i - 1
    BY <2>1, <2>2 DEF Prefix
  <2>5. got[r] = [i \in 1..q.bytes |-> t.start + q.offset + i - 1]
    <3>1. got[r] = [i \in 1..q.bytes |-> got[r][i]]
      BY <2>1, <2>3
    <3> QED
      BY <2>4, <3>1
  <2>6. \A i \in 1..q.bytes : got[r][i] \in t.start..(t.start + t.bytes - 1)
    BY <2>2, <2>4
  <2> QED
    BY <2>3, <2>5, <2>6 DEF Exact
<1> QED
  BY <1>1, ReadsInitially, ReadsStep, PTL DEF ReadsSpec
-----------------------------------------------------------------------------
(***************************************************************************)
(* The layout of a GGUF file.  Only neighbours in the order of offsets are *)
(* compared; since the order is sorted, the end of a tensor lies before    *)
(* every later one.  The index ends where the reader stands, and the data  *)
(* begins behind it.                                                       *)
(***************************************************************************)
RawTensors ==
    [name : TensorNames, shape : Shapes, kind : Kinds \cap DOMAIN Layout, offset : Offsets]

GgufTypes ==
    /\ fileLen \in Nat /\ position \in Nat /\ dataOffset \in Nat
    /\ \A key \in DOMAIN metadata : metadata[key] \in Values
    /\ raw \in Seq(RawTensors)

GgufInv ==
    /\ GgufTypes
    /\ position <= fileLen
    /\ phase \in {"tensors", "layout", "accepted"} => Alignment # 0
    /\ \A i, j \in DOMAIN raw : i # j => raw[i].name # raw[j].name
    /\ phase \in {"layout", "accepted"} => dataOffset = AlignUp(position)
    /\ phase = "accepted" =>
         /\ \A i \in DOMAIN raw : ~Misplaced(raw[i])
         /\ \E order \in Orders : ~Overlapping(order)

LEMMA AlignmentIsNatural == GgufTypes => Alignment \in Nat
BY GgufAssumption DEF GgufTypes, Alignment

LEMMA Division ==
    ASSUME NEW x \in Nat, NEW a \in Nat \ {0}
    PROVE  /\ x \div a \in Nat /\ x % a \in 0..(a - 1)
           /\ x = a * (x \div a) + (x % a)
OBVIOUS

\* align_up: the next multiple.
LEMMA AlignsUp ==
    ASSUME NEW n \in Nat, NEW a \in Nat \ {0}
    PROVE  /\ ((n + a - 1) \div a) * a \in Nat
           /\ n <= ((n + a - 1) \div a) * a
           /\ (((n + a - 1) \div a) * a) % a = 0
<1> DEFINE q == (n + a - 1) \div a
           m == (n + a - 1) % a
<1>1. q \in Nat /\ m \in 0..(a - 1) /\ n + a - 1 = a * q + m
  OBVIOUS
<1> HIDE DEF q, m
<1>2. a * q = q * a /\ q * a \in Nat
  BY <1>1
<1>3. n <= q * a
  BY <1>1, <1>2
<1>4. (q * a) % a = 0
  BY <1>1
<1> QED
  BY <1>2, <1>3, <1>4 DEF q

\* A multiple of the alignment behind a multiple is one.
LEMMA AlignedSum ==
    ASSUME NEW x \in Nat, NEW y \in Nat, NEW a \in Nat \ {0}, x % a = 0, y % a = 0
    PROVE  (x + y) % a = 0
<1>1. PICK p \in Nat : x = p * a
  <2>1. x = a * (x \div a) + (x % a) /\ x \div a \in Nat
    BY Division
  <2> QED
    BY <2>1
<1>2. PICK q \in Nat : y = q * a
  <2>1. y = a * (y \div a) + (y % a) /\ y \div a \in Nat
    BY Division
  <2> QED
    BY <2>1
<1>3. x + y = (p + q) * a
  BY <1>1, <1>2
<1>4. ((p + q) * a) % a = 0
  OBVIOUS
<1> QED
  BY <1>3, <1>4

\* Between neighbours in order and apart, everything is.
LEMMA NeighboursSuffice ==
    ASSUME NEW n \in Nat, NEW start \in [1..n -> Int], NEW end \in [1..n -> Int],
           \A i \in 2..n : start[i - 1] <= start[i] /\ end[i - 1] <= start[i]
    PROVE  \A i, j \in 1..n : i < j => end[i] <= start[j]
<1> SUFFICES ASSUME NEW i \in 1..n, NEW b \in 1..n, i < b, ~(end[i] <= start[b])
             PROVE  FALSE
  OBVIOUS
<1> DEFINE Bad == {j \in Nat : j \in 1..n /\ i < j /\ ~(end[i] <= start[j])}
<1>1. b \in Bad /\ Bad \subseteq Nat
  OBVIOUS
<1>2. \A x, y \in Nat : x < y => <<x, y>> \in OpToRel(<, Nat)
  BY DEF OpToRel
<1>3. PICK j \in Bad : \A k \in Bad : ~(<<k, j>> \in OpToRel(<, Nat))
  <2> HIDE DEF Bad
  <2> QED
    BY <1>1, NatLessThanWellFounded, WFMin
<1>4. \A k \in Bad : ~(k < j)
  BY <1>2, <1>3
<1>5. CASE j = i + 1
  <2>1. j \in 2..n /\ j - 1 = i
    BY <1>5
  <2> QED
    BY <2>1
<1>6. CASE j > i + 1
  <2>1. j - 1 \in 1..n /\ i < j - 1 /\ j - 1 < j /\ j \in 2..n
    BY <1>6
  <2>2. j - 1 \notin Bad
    BY <1>4, <2>1
  <2>3. end[i] <= start[j - 1]
    BY <2>1, <2>2
  <2>4. start[j - 1] <= start[j]
    BY <2>1
  <2>5. end[i] \in Int /\ start[j - 1] \in Int /\ start[j] \in Int
    BY <2>1
  <2> QED
    BY <2>3, <2>4, <2>5
<1> QED
  BY <1>5, <1>6

LEMMA GgufInitially == GgufInit => GgufInv
BY GgufAssumption DEF GgufInit, GgufInv, GgufTypes

\* The bytes of a value are not fewer than none.
LEMMA ValueBytesNatural == \A value \in Values : ValueBytes(value) \in Nat
<1> SUFFICES ASSUME NEW value \in Values PROVE ValueBytes(value) \in Nat
  OBVIOUS
<1>1. value.word \in Nat /\ value.count \in Nat
  BY GgufAssumption
<1>2. \A kind : ScalarBytes(kind) \in Nat
  BY DEF ScalarBytes
<1>3. \A x, y \in Nat : x * y \in Nat
  OBVIOUS
<1> DEFINE element == IF value.element = 8 THEN 8 + value.word ELSE ScalarBytes(value.element)
<1>4. element \in Nat
  BY <1>1, <1>2
<1>5. value.count * element \in Nat
  <2> HIDE DEF element
  <2> QED
    BY <1>1, <1>3, <1>4
<1>6. 12 + value.count * element \in Nat
  <2> HIDE DEF element
  <2> QED
    BY <1>5
<1> QED
  BY <1>1, <1>2, <1>6 DEF ValueBytes

LEMMA GgufStep == GgufInv /\ [GgufNext]_ggufVars => GgufInv'
<1> SUFFICES ASSUME GgufInv, [GgufNext]_ggufVars PROVE GgufInv'
  OBVIOUS
<1>1. ASSUME GgufFails PROVE GgufInv'
  BY <1>1 DEF GgufFails, GgufInv, GgufTypes, Alignment
<1>2. CASE ReadHeader
  <2>1. CASE GgufFails
    BY <1>1, <2>1
  <2>2. CASE /\ phase' = "entries" /\ position' = 24 /\ Available(24)
             /\ UNCHANGED <<fileLen, metadata, raw, dataOffset>>
    BY <2>2 DEF Available, GgufInv, GgufTypes
  <2> QED
    BY <1>2, <2>1, <2>2 DEF ReadHeader
<1>3. CASE ReadEntry
  <2>1. CASE GgufFails
    BY <1>1, <2>1
  <2>2. ASSUME NEW key \in Keys, NEW value \in Values,
               Available(8 + 1 + 4 + ValueBytes(value)),
               position' = position + (8 + 1 + 4 + ValueBytes(value)),
               metadata' = [k \in DOMAIN metadata \cup {key} |->
                              IF k = key THEN value ELSE metadata[k]],
               phase = "entries",
               UNCHANGED <<fileLen, phase, tensorsLeft, raw, dataOffset>>
        PROVE  GgufInv'
    <3>1. position' \in Nat /\ position' <= fileLen
      BY <2>2, ValueBytesNatural DEF Available, GgufInv, GgufTypes
    <3>2. \A k \in DOMAIN metadata' : metadata'[k] \in Values
      BY <2>2 DEF GgufInv, GgufTypes
    <3> QED
      BY <2>2, <3>1, <3>2 DEF GgufInv, GgufTypes
  <2> QED
    BY <1>3, <2>1, <2>2 DEF ReadEntry
<1>4. CASE EndEntries
  <2>1. CASE GgufFails
    BY <1>1, <2>1
  <2>2. CASE /\ Alignment # 0 /\ phase' = "tensors"
             /\ UNCHANGED <<fileLen, position, entriesLeft, tensorsLeft, metadata, raw,
                            dataOffset>>
    BY <2>2 DEF GgufInv, GgufTypes, Alignment
  <2> QED
    BY <1>4, <2>1, <2>2 DEF EndEntries
<1>5. CASE ReadTensor
  <2>1. CASE GgufFails
    BY <1>1, <2>1
  <2>2. ASSUME NEW name \in TensorNames, NEW shape \in Shapes, NEW kind \in Kinds,
               NEW offset \in Offsets, phase = "tensors",
               Available(8 + 1 + 4 + 8 * Len(shape) + 4 + 8),
               \A i \in DOMAIN raw : raw[i].name # name,
               kind \in DOMAIN Layout,
               position' = position + (8 + 1 + 4 + 8 * Len(shape) + 4 + 8),
               raw' = Append(raw, [name |-> name, shape |-> shape, kind |-> kind,
                                   offset |-> offset]),
               UNCHANGED <<fileLen, phase, entriesLeft, metadata, dataOffset>>
        PROVE  GgufInv'
    <3> DEFINE tensor == [name |-> name, shape |-> shape, kind |-> kind, offset |-> offset]
    <3>1. position' \in Nat /\ position' <= fileLen
      BY <2>2, GgufAssumption DEF Available, GgufInv, GgufTypes
    <3>2. tensor \in RawTensors /\ tensor.name = name
      BY <2>2 DEF RawTensors
    <3>3. raw \in Seq(RawTensors)
      BY DEF GgufInv, GgufTypes
    <3> HIDE DEF tensor
    <3>4. /\ raw' \in Seq(RawTensors) /\ Len(raw') = Len(raw) + 1
          /\ \A i \in 1..Len(raw) : raw'[i] = raw[i]
          /\ raw'[Len(raw) + 1] = tensor
      BY <2>2, <3>2, <3>3 DEF tensor
    <3>5. \A i, j \in DOMAIN raw' : i # j => raw'[i].name # raw'[j].name
      <4>1. \A i, j \in 1..Len(raw) : i # j => raw[i].name # raw[j].name
        BY <3>3 DEF GgufInv
      <4>2. \A i \in 1..Len(raw) : raw[i].name # name
        BY <2>2, <3>3
      <4>3. DOMAIN raw' = 1..(Len(raw) + 1)
        BY <3>4
      <4> QED
        BY <3>2, <3>3, <3>4, <4>1, <4>2, <4>3
    <3> QED
      BY <2>2, <3>1, <3>4, <3>5 DEF GgufInv, GgufTypes, Alignment
  <2> QED
    BY <1>5, <2>1, <2>2 DEF ReadTensor
<1>6. CASE EndTensors
  <2>1. CASE GgufFails
    BY <1>1, <2>1
  <2>2. CASE /\ phase = "tensors" /\ phase' = "layout" /\ dataOffset' = AlignUp(position)
             /\ UNCHANGED <<fileLen, position, entriesLeft, tensorsLeft, metadata, raw>>
    <3>1. position \in Nat /\ Alignment \in Nat \ {0}
      BY <2>2, AlignmentIsNatural DEF GgufInv, GgufTypes
    <3>2. AlignUp(position) \in Nat
      BY <3>1, AlignsUp DEF AlignUp
    <3>3. Alignment' = Alignment /\ AlignUp(position)' = AlignUp(position)
      BY <2>2 DEF Alignment, AlignUp
    <3> QED
      BY <2>2, <3>1, <3>2, <3>3 DEF GgufInv, GgufTypes
  <2> QED
    BY <1>6, <2>1, <2>2 DEF EndTensors
<1>7. CASE Validate
  <2>1. CASE GgufFails
    BY <1>1, <2>1
  <2>2. CASE /\ phase = "layout"
             /\ UNCHANGED <<fileLen, position, entriesLeft, tensorsLeft, metadata, raw,
                            dataOffset>>
             /\ \E order \in Orders :
                  (\A i \in DOMAIN raw : ~Misplaced(raw[i])) /\ ~Overlapping(order)
    <3>1. /\ Alignment' = Alignment /\ AlignUp(position)' = AlignUp(position)
          /\ Orders' = Orders
      BY <2>2 DEF Alignment, AlignUp, Orders, TensorStart
    <3>2. \A order : Overlapping(order)' <=> Overlapping(order)
      BY <2>2 DEF Overlapping, TensorEnd, TensorStart
    <3>3. \A tensor : Misplaced(tensor)' <=> Misplaced(tensor)
      BY <2>2, <3>1 DEF Misplaced, TensorEnd, TensorStart
    <3> QED
      BY <2>2, <3>1, <3>2, <3>3 DEF GgufInv, GgufTypes
  <2> QED
    BY <1>7, <2>1, <2>2 DEF Validate
<1>8. CASE UNCHANGED ggufVars
  <2>1. UNCHANGED <<fileLen, position, phase, metadata, raw, dataOffset>>
    BY <1>8 DEF ggufVars
  <2>2. /\ Alignment' = Alignment /\ AlignUp(position)' = AlignUp(position)
        /\ Orders' = Orders
    BY <2>1 DEF Alignment, AlignUp, Orders, TensorStart
  <2>3. \A order : Overlapping(order)' <=> Overlapping(order)
    BY <2>1 DEF Overlapping, TensorEnd, TensorStart
  <2>4. \A tensor : Misplaced(tensor)' <=> Misplaced(tensor)
    BY <2>1, <2>2 DEF Misplaced, TensorEnd, TensorStart
  <2> QED
    BY <2>1, <2>2, <2>3, <2>4 DEF GgufInv, GgufTypes
<1> QED
  BY <1>2, <1>3, <1>4, <1>5, <1>6, <1>7, <1>8 DEF GgufNext

\* The length of a tensor is not negative.
LEMMA TensorsHaveLength ==
    ASSUME NEW tensor \in RawTensors
    PROVE  tensor.offset \in Nat /\ Length(tensor.shape, tensor.kind) \in Nat
<1>1. /\ Product(tensor.shape) \in Nat
      /\ Layout[tensor.kind][1] \in Nat \ {0} /\ Layout[tensor.kind][2] \in Nat
  BY GgufAssumption DEF RawTensors
<1>2. \A x, y \in Nat : x * y \in Nat
  OBVIOUS
<1>3. Product(tensor.shape) \div Layout[tensor.kind][1] \in Nat
  BY <1>1, Division
<1>4. tensor.offset \in Nat
  BY GgufAssumption DEF RawTensors
<1> QED
  BY <1>1, <1>2, <1>3, <1>4 DEF Length

\* In an accepted file, tensors do not overlap: each has a place in the order.
LEMMA AcceptedApart ==
    ASSUME GgufInv, phase = "accepted", NEW i \in DOMAIN raw, NEW j \in DOMAIN raw, i # j
    PROVE  \/ TensorEnd(raw[i]) <= TensorStart(raw[j])
           \/ TensorEnd(raw[j]) <= TensorStart(raw[i])
<1>1. PICK order \in Orders : ~Overlapping(order)
  BY DEF GgufInv
<1> DEFINE n == Len(raw)
           start == [k \in 1..n |-> TensorStart(raw[order[k]])]
           end   == [k \in 1..n |-> TensorEnd(raw[order[k]])]
<1>2. raw \in Seq(RawTensors) /\ n \in Nat /\ DOMAIN raw = 1..n
  BY DEF GgufInv, GgufTypes
<1>3. order \in [1..n -> 1..n] /\ Range(order) = 1..n
  BY <1>1, <1>2 DEF Orders
<1>4. Len(order) = n
  BY <1>2, <1>3
<1>5. \A k \in 1..n : TensorStart(raw[k]) \in Int /\ TensorEnd(raw[k]) \in Int
  <2> SUFFICES ASSUME NEW k \in 1..n
               PROVE  TensorStart(raw[k]) \in Int /\ TensorEnd(raw[k]) \in Int
    OBVIOUS
  <2>1. raw[k] \in RawTensors
    BY <1>2
  <2>2. dataOffset \in Nat
    BY DEF GgufInv, GgufTypes
  <2>3. raw[k].offset \in Nat /\ Length(raw[k].shape, raw[k].kind) \in Nat
    BY <2>1, TensorsHaveLength
  <2> QED
    BY <2>2, <2>3 DEF TensorEnd, TensorStart
<1>6. \A k \in 2..n : k - 1 \in 1..n /\ k \in 1..n
  BY <1>2
<1>7. \A k \in 2..n : start[k - 1] <= start[k] /\ end[k - 1] <= start[k]
  <2> SUFFICES ASSUME NEW k \in 2..n
               PROVE  start[k - 1] <= start[k] /\ end[k - 1] <= start[k]
    OBVIOUS
  <2>1. TensorStart(raw[order[k - 1]]) <= TensorStart(raw[order[k]])
    BY <1>1, <1>2 DEF Orders
  <2>2. ~(TensorStart(raw[order[k]]) < TensorEnd(raw[order[k - 1]]))
    BY <1>1, <1>4 DEF Overlapping
  <2>3. /\ order[k] \in 1..n /\ order[k - 1] \in 1..n
        /\ start[k] = TensorStart(raw[order[k]]) /\ end[k - 1] = TensorEnd(raw[order[k - 1]])
        /\ start[k - 1] = TensorStart(raw[order[k - 1]])
    BY <1>3, <1>6
  <2> HIDE DEF start, end
  <2> QED
    BY <1>5, <2>1, <2>2, <2>3
<1>8. start \in [1..n -> Int] /\ end \in [1..n -> Int]
  BY <1>3, <1>5
<1>9. \A p, q \in 1..n : p < q => end[p] <= start[q]
  <2> HIDE DEF start, end, n
  <2> QED
    BY <1>2, <1>7, <1>8, NeighboursSuffice
<1>10. PICK p \in 1..n, q \in 1..n : order[p] = i /\ order[q] = j
  BY <1>2, <1>3 DEF Range
<1>11. p < q \/ q < p
  BY <1>10
<1> QED
  BY <1>9, <1>10, <1>11

\* CONTRIBUTING_MODELS.md, "Reject missing, duplicate, truncated, overlapping, unaligned":
\* whatever an accepted GGUF file says, its tensors have different names and lie aligned,
\* inside the file, behind the index and apart from each other; and the reader never stands
\* behind the end of the file.
THEOREM TensorsLieApart == GgufSpec => []TensorsInPlace
<1>1. GgufInv => TensorsInPlace
  <2> SUFFICES ASSUME GgufInv PROVE TensorsInPlace
    OBVIOUS
  <2>1. ASSUME phase = "accepted", NEW i \in DOMAIN raw
        PROVE  /\ TensorStart(raw[i]) % Alignment = 0
               /\ position <= TensorStart(raw[i]) /\ TensorStart(raw[i]) <= fileLen
               /\ TensorEnd(raw[i]) <= fileLen
    <3>1. raw[i] \in RawTensors /\ raw[i].offset \in Nat
      <4>1. raw[i] \in RawTensors
        BY <2>1 DEF GgufInv, GgufTypes
      <4> QED
        BY <4>1, TensorsHaveLength
    <3>2. /\ position \in Nat /\ fileLen \in Nat /\ Alignment \in Nat \ {0}
          /\ dataOffset = AlignUp(position) /\ ~Misplaced(raw[i])
      BY <2>1, AlignmentIsNatural DEF GgufInv, GgufTypes
    <3>3. /\ dataOffset \in Nat /\ position <= dataOffset
          /\ dataOffset % Alignment = 0
      BY <3>2, AlignsUp DEF AlignUp
    <3>4. raw[i].offset % Alignment = 0
      BY <3>2 DEF Misplaced
    <3>5. TensorStart(raw[i]) % Alignment = 0
      BY <3>1, <3>2, <3>3, <3>4, AlignedSum DEF TensorStart
    <3>6. TensorStart(raw[i]) \in Nat /\ position <= TensorStart(raw[i])
      BY <3>1, <3>2, <3>3 DEF TensorStart
    <3>7. /\ Length(raw[i].shape, raw[i].kind) \in Nat
          /\ TensorEnd(raw[i]) = TensorStart(raw[i]) + Length(raw[i].shape, raw[i].kind)
      BY <3>1, TensorsHaveLength DEF TensorEnd
    <3>8. TensorEnd(raw[i]) <= fileLen
      BY <3>2, <3>6, <3>7 DEF Misplaced
    <3> QED
      BY <3>2, <3>5, <3>6, <3>7, <3>8
  <2> QED
    BY <2>1, AcceptedApart DEF TensorsInPlace, GgufInv
<1> QED
  BY <1>1, GgufInitially, GgufStep, PTL DEF GgufSpec

-----------------------------------------------------------------------------
\* A set of numbers that is not empty has a least one.
LEMMA LeastOf ==
    ASSUME NEW S \in SUBSET Nat, S # {}
    PROVE  \E m \in S : \A n \in S : m <= n
<1>1. \A x, y \in Nat : x < y => <<x, y>> \in OpToRel(<, Nat)
  BY DEF OpToRel
<1>2. PICK m \in S : \A x \in S : ~ (<<x, m>> \in OpToRel(<, Nat))
  BY NatLessThanWellFounded, WFMin
<1>3. \A n \in S : ~(n < m) /\ n \in Nat /\ m \in Nat
  BY <1>1, <1>2
<1>4. QED
  BY <1>3

\* A product divides exactly.
LEMMA ProductDivides ==
    ASSUME NEW a \in Nat, NEW w \in Nat, w # 0
    PROVE  (a * w) \div w = a /\ (a * w) % w = 0
OBVIOUS

\* What is a multiple is the product of the quotient.
LEMMA Quotient ==
    ASSUME NEW a \in Nat, NEW w \in Nat, w # 0, a % w = 0
    PROVE  a = (a \div w) * w /\ a \div w \in Nat
OBVIOUS

\* A positive factor cancels.
LEMMA Cancel ==
    ASSUME NEW a \in Nat, NEW b \in Nat, NEW w \in Nat, w # 0, a * w = b * w
    PROVE  a = b
OBVIOUS

\* Quotients that are rounded up.
LEMMA CeilFacts ==
    ASSUME NEW c \in Nat, NEW g \in Nat, g # 0, c # 0
    PROVE  /\ CeilDiv(c, g) \in Nat /\ CeilDiv(c, g) >= 1
           /\ g > 1 /\ c > 1 => CeilDiv(c, g) < c
           /\ c % g = 0 => CeilDiv(c, g) = c \div g
BY DEF CeilDiv

\* The row of a matrix holds some bytes and some scales; half bytes need fewer bytes.
LEMMA RowFacts ==
    ASSUME NEW c \in Nat, c > 1, NEW layout \in {0} \union GroupSizes
    PROVE  /\ RowBytes(layout, c) \in {c, CeilDiv(c, 2)}
           /\ RowBytes(layout, c) \in Nat \ {0} /\ ScalesPerRow(layout, c) \in Nat \ {0}
           /\ layout = 0 => RowBytes(layout, c) = c /\ ScalesPerRow(layout, c) = 1
           /\ layout # 0 => RowBytes(layout, c) = CeilDiv(c, 2) /\ CeilDiv(c, 2) < c
<1>1. CeilDiv(c, 2) \in Nat \ {0} /\ CeilDiv(c, 2) < c
  BY CeilFacts
<1>2. layout # 0 => CeilDiv(c, layout) \in Nat \ {0}
  BY CeilFacts DEF GroupSizes
<1>3. QED
  BY <1>1, <1>2 DEF RowBytes, ScalesPerRow

\* A scale for each row tells bytes from half bytes.
LEMMA BytesOrHalves ==
    ASSUME NEW c \in Nat, c > 1, NEW r \in Nat \ {0}, NEW s \in Nat, NEW h \in Nat \ {0}, h < c,
           NEW k \in Nat \ {0}, r * c = s * h, r = s * k
    PROVE  FALSE
<1>1. s # 0
  BY SMT
<1>2. r * c = (s * k) * c
  BY SMT
<1>3. (s * k) * c = (k * c) * s
  BY SMT
<1>4. (k * c) * s = h * s
  BY <1>2, <1>3
<1>5. k * c = h
  BY <1>1, <1>4, Cancel
<1>6. k * c >= c
  BY SMT
<1>7. QED
  BY <1>5, <1>6

\* Bytes and scales fit one number of rows, and one kind of layout.
LEMMA OneFit ==
    ASSUME NEW c \in Nat, c > 1, NEW bytes \in Nat, NEW scales \in Nat,
           NEW r \in Nat \ {0}, NEW g \in {0} \union GroupSizes, Fits(g, r, c, bytes, scales),
           NEW q \in Nat, NEW k \in {0} \union GroupSizes, Fits(k, q, c, bytes, scales)
    PROVE  q = r /\ (k = 0) = (g = 0)
<1> DEFINE wide == RowBytes(g, c)  narrow == RowBytes(k, c)
           perRow == ScalesPerRow(g, c)  other == ScalesPerRow(k, c)
<1>1. bytes = r * wide /\ bytes = q * narrow /\ scales = r * perRow /\ scales = q * other
  BY DEF Fits
<1>2. wide \in Nat \ {0} /\ narrow \in Nat \ {0} /\ perRow \in Nat \ {0} /\ other \in Nat \ {0}
  BY RowFacts
<1>3. q # 0
  <2>1. r * wide # 0 /\ 0 * narrow = 0
    BY <1>2, SMT
  <2>2. QED
    BY <1>1, <2>1
<1>4. CASE (k = 0) = (g = 0)
  <2>1. narrow = wide
    BY <1>4, RowFacts
  <2>2. QED
    BY <1>1, <1>2, <1>4, <2>1, Cancel
<1>5. CASE g = 0 /\ k # 0
  <2>1. wide = c /\ perRow = 1 /\ narrow < c
    BY <1>5, RowFacts
  <2>2. r * c = q * narrow /\ r = q * other
    BY <1>1, <2>1
  <2>3. QED
    BY <1>2, <2>1, <2>2, BytesOrHalves
<1>6. CASE g # 0 /\ k = 0
  <2>1. narrow = c /\ other = 1 /\ wide < c
    BY <1>6, RowFacts
  <2>2. q * c = r * wide /\ q = r * perRow
    BY <1>1, <2>1
  <2>3. QED
    BY <1>2, <1>3, <2>1, <2>2, BytesOrHalves
<1>7. QED
  BY <1>4, <1>5, <1>6

\* So a matrix that fits has one match, and its layout is found from its numbers alone.
LEMMA OneLayout ==
    ASSUME NEW c \in Nat, c > 1, NEW bytes \in Nat, NEW scales \in Nat, NEW r \in Nat \ {0},
           NEW g \in {0} \union GroupSizes, Fits(g, r, c, bytes, scales)
    PROVE  \E k \in {0} \union GroupSizes :
              /\ Fits(k, r, c, bytes, scales)
              /\ Matching(r, c, bytes, scales) = {k}
              /\ Inferred(c, bytes, scales) = {[rows |-> r, layout |-> k]}
<1> DEFINE groups == {k \in GroupSizes : Fits(k, r, c, bytes, scales)}
<1>1. \E k \in {0} \union GroupSizes :
         Fits(k, r, c, bytes, scales) /\ Matching(r, c, bytes, scales) = {k}
  <2>1. CASE g = 0
    <3>1. groups = {}
      <4> SUFFICES ASSUME NEW k \in GroupSizes, Fits(k, r, c, bytes, scales) PROVE FALSE
        OBVIOUS
      <4>1. k # 0
        BY DEF GroupSizes
      <4>2. k \in {0} \union GroupSizes /\ r \in Nat
        OBVIOUS
      <4>3. (k = 0) = (g = 0)
        BY <4>2, OneFit
      <4>4. QED
        BY <2>1, <4>1, <4>3
    <3>2. QED
      BY <2>1, <3>1 DEF Matching
  <2>2. CASE g # 0
    <3>1. ~Fits(0, r, c, bytes, scales)
      BY <2>2, OneFit
    <3>2. groups \in SUBSET Nat /\ groups # {}
      BY <2>2 DEF GroupSizes
    <3>3. PICK k \in groups : \A other \in groups : k <= other
      BY <3>2, LeastOf
    <3>4. \A l \in groups : (\A other \in groups : l <= other) => l = k
      BY <3>2, <3>3
    <3>5. Matching(r, c, bytes, scales) = {k}
      BY <3>1, <3>3, <3>4 DEF Matching
    <3>6. QED
      BY <3>3, <3>5
  <2>3. QED
    BY <2>1, <2>2
<1>2. PICK k \in {0} \union GroupSizes :
         Fits(k, r, c, bytes, scales) /\ Matching(r, c, bytes, scales) = {k}
  BY <1>1
<1> DEFINE widths == {w \in {c, CeilDiv(c, 2)} : bytes % w = 0}
<1>3. RowBytes(k, c) \in widths /\ bytes \div RowBytes(k, c) = r
  <2>1. bytes = r * RowBytes(k, c)
    BY <1>2 DEF Fits
  <2>2. QED
    BY <2>1, RowFacts, ProductDivides
<1>4. ASSUME NEW w \in widths, NEW l \in Matching(bytes \div w, c, bytes, scales)
      PROVE  bytes \div w = r /\ l = k
  <2>1. l \in {0} \union GroupSizes /\ Fits(l, bytes \div w, c, bytes, scales)
    BY DEF Matching
  <2>2. w \in Nat \ {0}
    BY CeilFacts
  <2>3. bytes \div w \in Nat
    BY <2>2, Quotient
  <2>4. bytes \div w = r
    BY <2>1, <2>3, OneFit
  <2>5. QED
    BY <1>2, <2>4
<1>5. Inferred(c, bytes, scales) =
         UNION {{[rows |-> bytes \div w, layout |-> l] :
                    l \in Matching(bytes \div w, c, bytes, scales)} : w \in widths}
  BY DEF Inferred
<1>6. Inferred(c, bytes, scales) \subseteq {[rows |-> r, layout |-> k]}
  BY <1>4, <1>5
<1>7. [rows |-> r, layout |-> k] \in Inferred(c, bytes, scales)
  BY <1>2, <1>3, <1>5
<1>8. QED
  BY <1>2, <1>6, <1>7

\* A step succeeds when its tensor has the shape and a type that is decoded.
LEMMA StepSucceeds ==
    ASSUME NEW store, NEW need, HasShape(store, need),
           \A name \in DOMAIN store : store[name].kind \in RunnableKinds
    PROVE  ~StepFails(store, need)
BY DEF StepFails, HasShape

\* What a layer of Gemma computes with is in its contract.
LEMMA GemmaStepsBound ==
    ASSUME NEW config, NEW store, NEW vocabulary, NEW blk \in 1..config.layer_count,
           GemmaBound(config, store, vocabulary),
           NEW need \in AttentionSteps(config, store, blk)
                            \union FeedForwardSteps(config, blk)
    PROVE  HasShape(store, need)
<1>1. LayerContract(config, blk) \subseteq GemmaContract(config, vocabulary)
  BY DEF GemmaContract
<1>2. FeedForwardSteps(config, blk) \subseteq LayerContract(config, blk)
  BY DEF FeedForwardSteps, LayerContract
<1>3. AttentionSteps(config, store, blk) \subseteq LayerContract(config, blk)
  <2>1. config.sliding_layers[blk] \/ <<blk, "attn_v">> \notin DOMAIN store
    BY DEF GemmaBound
  <2>2. QED
    BY <2>1 DEF AttentionSteps, LayerContract
<1>4. QED
  BY <1>1, <1>2, <1>3 DEF GemmaBound

\* The numbers that are prescribed agree with each other.
LEMMA PinnedAgree ==
    ASSUME NEW blk \in 1..Pinned.layer_count, NEW pairs \in Nat, pairs <= 256
    PROVE  /\ Pinned.experts_used \in 1..Pinned.expert_count
           /\ Pinned.attention_heads % Pinned.kv_heads_by_layer[blk] = 0
           /\ ~RopeFails(HeadSize(Pinned, blk),
                         IF Pinned.sliding_layers[blk] THEN Pinned.rope_dimensions_swa \div 2
                         ELSE pairs)
<1>1. blk \in 1..GemmaLayers
  BY DEF Pinned
<1>2. /\ Pinned.sliding_layers[blk] = (blk % 6 # 0)
      /\ Pinned.kv_heads_by_layer[blk] = IF blk % 6 # 0 THEN 8 ELSE 2
  BY <1>1 DEF Pinned
<1>3. /\ Pinned.experts_used = 8 /\ Pinned.expert_count = 128 /\ Pinned.attention_heads = 16
      /\ Pinned.key_length = 512 /\ Pinned.key_length_swa = 256 /\ Pinned.rope_dimensions_swa = 256
  BY DEF Pinned
<1>4. QED
  BY <1>2, <1>3 DEF HeadSize, RopeFails

\* A Gemma model that opened has every tensor the pass reads, of the shape it reads it in.
LEMMA GemmaRuns ==
    ASSUME NEW c \in Candidates, c.family = "gemma4", GemmaOpens(c),
           \A name \in DOMAIN c.tensors : c.tensors[name].kind \in RunnableKinds
    PROVE  /\ ~GemmaEdgesFail(c.config, c.tensors, c.vocabulary)
           /\ \A blk \in 1..c.config.layer_count :
                 ~GemmaLayerFails(c.config, c.tensors, blk, c.pairs)
<1>1. c.config = Pinned /\ GemmaBound(c.config, c.tensors, c.vocabulary)
  BY DEF GemmaOpens, GemmaConfigured
<1>2. ~GemmaEdgesFail(c.config, c.tensors, c.vocabulary)
  <2>1. /\ HasShape(c.tensors, Need(0, "token_embd", <<c.config.hidden_size, c.vocabulary>>))
        /\ HasShape(c.tensors, Need(0, "output_norm", <<c.config.hidden_size>>))
        /\ ~Tied(c.tensors) =>
              HasShape(c.tensors, Need(0, "output", <<c.config.hidden_size, c.vocabulary>>))
    BY <1>1 DEF GemmaBound, GemmaContract
  <2>2. QED
    BY <2>1, StepSucceeds DEF GemmaEdgesFail
<1>3. c.pairs \in Nat /\ c.pairs <= 256
  <2>1. HasShape(c.tensors, Need(0, "rope_freqs", <<c.config.rope_dimensions \div 2>>))
    BY <1>1 DEF GemmaBound, GemmaContract
  <2>2. c.config.rope_dimensions \div 2 = 256
    BY <1>1 DEF Pinned
  <2>3. <<0, "rope_freqs">> \in DOMAIN c.tensors /\ c.tensors[<<0, "rope_freqs">>].shape = <<256>>
    BY <2>1, <2>2 DEF HasShape, Need
  <2>4. QED
    BY <2>3, ModelLoadingAssumption
<1>4. ASSUME NEW blk \in 1..c.config.layer_count
      PROVE  ~GemmaLayerFails(c.config, c.tensors, blk, c.pairs)
  <2>1. \A need \in AttentionSteps(c.config, c.tensors, blk)
                        \union FeedForwardSteps(c.config, blk) : ~StepFails(c.tensors, need)
    BY <1>1, GemmaStepsBound, StepSucceeds
  <2>2. QED
    BY <1>1, <1>3, <2>1, PinnedAgree DEF GemmaLayerFails
<1>5. QED
  BY <1>2, <1>4

\* What is needed with a shape is there in a type that is decoded.
LEMMA QwenStepSucceeds ==
    ASSUME NEW config, NEW store, NEW vocabulary, QwenBound(config, store, vocabulary),
           NEW need \in QwenContract(config, vocabulary)
    PROVE  HasShape(store, need) /\ ~StepFails(store, need)
BY DEF QwenBound, Decodable, StepFails, RunnableKinds

\* The contract of a layer.
LEMMA QwenLayerContract ==
    ASSUME NEW config, NEW vocabulary, NEW blk \in 1..LayerCount(config)
    PROVE  /\ FullAttention(config, blk) =>
                 FullContract(config, blk) \subseteq QwenContract(config, vocabulary)
           /\ ~FullAttention(config, blk) =>
                 RecurrentContract(config, blk) \subseteq QwenContract(config, vocabulary)
           /\ {Need(blk, "attn_norm", <<config.hidden_size>>),
               Need(blk, "post_attention_norm", <<config.hidden_size>>),
               Need(blk, "ffn_gate", <<config.hidden_size, config.feed_forward_size>>),
               Need(blk, "ffn_up", <<config.hidden_size, config.feed_forward_size>>),
               Need(blk, "ffn_down", <<config.feed_forward_size, config.hidden_size>>)}
                 \subseteq QwenContract(config, vocabulary)
BY DEF QwenContract

\* The heads of an accepted configuration divide what they share.
LEMMA QwenHeads ==
    ASSUME NEW config, QwenConfigured(config), \A key \in DOMAIN config : config[key] \in Nat
    PROVE  /\ config.recurrent_state_size \in Nat \ {0}
           /\ config.recurrent_key_heads \in Nat \ {0}
           /\ config.recurrent_value_heads \in Nat \ {0}
           /\ config.recurrent_inner_size
                 = config.recurrent_value_heads * config.recurrent_state_size
           /\ ValueHeadSize(config) = config.recurrent_state_size
           /\ LayerCount(config) \in Nat \ {0}
<1>1. \A key \in QwenKeys : config[key] \in Nat
  BY DEF QwenConfigured
<1>2. \A key \in QwenKeys \ {"rope_dimensions"} : config[key] \in Nat \ {0}
  BY <1>1 DEF QwenConfigured
<1>3. /\ config.recurrent_state_size \in Nat \ {0} /\ config.recurrent_key_heads \in Nat \ {0}
      /\ config.recurrent_value_heads \in Nat \ {0} /\ config.recurrent_inner_size \in Nat
      /\ config.block_count \in Nat
  BY <1>2 DEF QwenKeys
<1>4. config.recurrent_inner_size
         = config.recurrent_value_heads
              * (config.recurrent_inner_size \div config.recurrent_value_heads)
  <2>1. config.recurrent_inner_size % config.recurrent_value_heads = 0
    BY DEF QwenConfigured, HeadsAgree
  <2>2. /\ config.recurrent_inner_size
              = (config.recurrent_inner_size \div config.recurrent_value_heads)
                   * config.recurrent_value_heads
        /\ config.recurrent_inner_size \div config.recurrent_value_heads \in Nat
    BY <1>3, <2>1, Quotient
  <2>3. QED
    BY <1>3, <2>2
<1>5. ValueHeadSize(config) = config.recurrent_state_size
  BY DEF QwenConfigured, HeadsAgree
<1>6. LayerCount(config) \in Nat \ {0}
  <2>1. NextnLayers(config) \in Nat
    BY DEF NextnLayers
  <2>2. QED
    BY <1>3, <2>1 DEF LayerCount, QwenConfigured
<1>7. QED
  BY <1>3, <1>4, <1>5, <1>6 DEF ValueHeadSize

\* A product below the word is what it seems.
LEMMA Unwrapped ==
    ASSUME NEW n \in Nat, n < SizeWord PROVE Wrapped(n) = n
BY GgufBindingAssumption DEF Wrapped

\* A full attention block of Qwen.
LEMMA QwenFullRuns ==
    ASSUME NEW config, NEW store, NEW vocabulary, NEW blk \in 1..LayerCount(config),
           QwenConfigured(config), QwenBound(config, store, vocabulary),
           config.rope_dimensions # 0, QwenFits(config), FullAttention(config, blk),
           \A key \in DOMAIN config : config[key] \in Nat
    PROVE  ~FullAttentionFails(config, store, blk)
<1>1. \A need \in FullContract(config, blk) : ~StepFails(store, need)
  BY QwenLayerContract, QwenStepSucceeds
<1>2. /\ config.rope_dimensions <= config.key_length /\ config.rope_dimensions % 2 = 0
      /\ config.attention_heads % config.kv_heads = 0
      /\ config.rope_dimensions \in Nat /\ config.key_length \in Nat
  BY DEF QwenConfigured, HeadsAgree, QwenKeys
<1>3. ~(config.rope_dimensions > config.key_length)
  BY <1>2
<1> DEFINE wide == config.attention_heads * config.key_length
<1>4. wide \in Nat /\ wide * 2 \in Nat /\ wide * 2 < SizeWord
  <2>1. config.attention_heads \in Nat /\ config.key_length \in Nat
    BY DEF QwenConfigured, QwenKeys
  <2>2. wide \in Nat
    BY <2>1, SMT
  <2>3. QED
    BY <2>2 DEF QwenFits
<1>5. ~(wide * 2 > Wrapped(Wrapped(wide) * 2))
  <2> HIDE DEF wide
  <2>1. Wrapped(wide) = wide /\ Wrapped(wide * 2) = wide * 2
    BY <1>4, Unwrapped, GgufBindingAssumption
  <2>2. QED
    BY <1>4, <2>1
<1>6. QED
  BY <1>1, <1>2, <1>3, <1>5 DEF FullAttentionFails, FullContract

\* A recurrent block of Qwen.
LEMMA QwenRecurrentRuns ==
    ASSUME NEW config, NEW store, NEW vocabulary, NEW blk \in 1..LayerCount(config),
           QwenConfigured(config), QwenBound(config, store, vocabulary), QwenFits(config),
           ~FullAttention(config, blk), \A key \in DOMAIN config : config[key] \in Nat
    PROVE  ~RecurrentFails(config, store, blk)
<1> DEFINE inner == config.recurrent_inner_size  heads == config.recurrent_value_heads
           dim == config.recurrent_state_size   keys == config.recurrent_key_heads
           conv == Need(blk, "ssm_conv1d",
                        <<config.convolution_kernel, ProjectionSize(config)>>)
<1>1. /\ dim \in Nat \ {0} /\ keys \in Nat \ {0} /\ heads \in Nat \ {0}
      /\ inner = heads * dim /\ ValueHeadSize(config) = dim
  BY QwenHeads
<1>2. \A need \in RecurrentContract(config, blk) :
         HasShape(store, need) /\ ~StepFails(store, need)
  BY QwenLayerContract, QwenStepSucceeds
<1>3. conv \in RecurrentContract(config, blk)
  BY DEF RecurrentContract
<1>4. /\ store[<<blk, "ssm_conv1d">>].shape
            = <<config.convolution_kernel, ProjectionSize(config)>>
      /\ store[<<blk, "ssm_conv1d">>].kind \in RunnableKinds
  BY <1>2, <1>3 DEF HasShape, StepFails, Need
<1>5. ~(2 * (dim * keys) + heads * dim > ProjectionSize(config))
  <2>1. 2 * dim * keys = 2 * (dim * keys) /\ dim * keys \in Nat /\ heads * dim \in Nat
    BY <1>1, SMT
  <2>2. 2 * dim * keys + inner \in Nat
    BY <1>1, <2>1
  <2>3. ProjectionSize(config) = 2 * dim * keys + inner
    BY <2>2, Unwrapped DEF ProjectionSize, QwenFits
  <2>4. QED
    BY <1>1, <2>1, <2>3
<1>6. /\ ~(heads * dim > inner)
      /\ ~(heads * dim * dim > Wrapped(heads * dim * ValueHeadSize(config)))
  <2>1. heads * dim \in Nat /\ heads * dim * dim \in Nat
    BY <1>1, SMT
  <2>2. Wrapped(heads * dim * ValueHeadSize(config)) = heads * dim * dim
    BY <1>1, <2>1, Unwrapped DEF QwenFits
  <2>3. QED
    BY <1>1, <2>1, <2>2
<1>7. keys # 0
  BY <1>1
<1>8. \A need \in {Need(blk, "attn_qkv", <<config.hidden_size, ProjectionSize(config)>>),
                   Need(blk, "attn_gate", <<config.hidden_size, inner>>),
                   Need(blk, "ssm_alpha", <<config.hidden_size, heads>>),
                   Need(blk, "ssm_beta", <<config.hidden_size, heads>>),
                   Need(blk, "ssm_dt", <<heads>>), Need(blk, "ssm_a", <<heads>>),
                   Need(blk, "ssm_norm", <<dim>>),
                   Need(blk, "ssm_out", <<inner, config.hidden_size>>)} :
         ~StepFails(store, need)
  <2>1. Need(blk, "ssm_norm", <<dim>>) = Need(blk, "ssm_norm", <<ValueHeadSize(config)>>)
    BY <1>1
  <2> HIDE DEF dim
  <2>2. QED
    BY <1>2, <2>1 DEF RecurrentContract
<1>9. QED
  BY <1>4, <1>5, <1>6, <1>7, <1>8 DEF RecurrentFails

\* A Qwen model that opened, rotates something and has no product that wraps runs in all
\* its blocks.
LEMMA QwenRuns ==
    ASSUME NEW c \in Candidates, c.family = "qwen35", QwenOpens(c),
           c.config.rope_dimensions # 0, QwenFits(c.config)
    PROVE  /\ ~QwenEdgesFail(c.config, c.tensors, c.vocabulary)
           /\ LayerCount(c.config) \in Nat
           /\ \A blk \in 1..LayerCount(c.config) :
                 ~QwenLayerFails(c.config, c.tensors, blk)
<1>1. /\ QwenConfigured(c.config) /\ QwenBound(c.config, c.tensors, c.vocabulary)
      /\ \A key \in DOMAIN c.config : c.config[key] \in Nat
  BY ModelLoadingAssumption DEF QwenOpens
<1>2. ~QwenEdgesFail(c.config, c.tensors, c.vocabulary)
  <2>1. {Need(0, "token_embd", <<c.config.hidden_size, c.vocabulary>>),
         Need(0, "output_norm", <<c.config.hidden_size>>),
         Need(0, "output", <<c.config.hidden_size, c.vocabulary>>)}
           \subseteq QwenContract(c.config, c.vocabulary)
    BY DEF QwenContract
  <2>2. QED
    BY <1>1, <2>1, QwenStepSucceeds DEF QwenEdgesFail
<1>3. ASSUME NEW blk \in 1..LayerCount(c.config)
      PROVE  ~QwenLayerFails(c.config, c.tensors, blk)
  <2>1. IF FullAttention(c.config, blk) THEN ~FullAttentionFails(c.config, c.tensors, blk)
        ELSE ~RecurrentFails(c.config, c.tensors, blk)
    BY <1>1, QwenFullRuns, QwenRecurrentRuns
  <2>2. \A need \in {Need(blk, "attn_norm", <<c.config.hidden_size>>),
               Need(blk, "post_attention_norm", <<c.config.hidden_size>>),
               Need(blk, "ffn_gate", <<c.config.hidden_size, c.config.feed_forward_size>>),
               Need(blk, "ffn_up", <<c.config.hidden_size, c.config.feed_forward_size>>),
               Need(blk, "ffn_down", <<c.config.feed_forward_size, c.config.hidden_size>>)} :
           ~StepFails(c.tensors, need)
    BY <1>1, QwenLayerContract, QwenStepSucceeds
  <2>3. QED
    BY <2>1, <2>2 DEF QwenLayerFails
<1>4. QED
  BY <1>1, <1>2, <1>3, QwenHeads

\* Loading promises nothing about matrices of one column.
Ambiguous(store, need) ==
    need.packed /\ need.shape[2] = 1 /\ store[need.name].dtype = "U8"

\* A product with a matrix of the contract gives its rows.
LEMMA RowsOfMatrix ==
    ASSUME NEW store, NEW name, NEW r \in Nat \ {0}, NEW c \in Nat \ {0},
           Bindable(store, Matrix(name, r, c)), ~Ambiguous(store, Matrix(name, r, c))
    PROVE  Rows(store, name, c) = r
<1> DEFINE t == store[name]  bytes == t.shape[1]  scales == store[Scales(name)].shape[1]
<1>0. /\ Matrix(name, r, c).name = name /\ Matrix(name, r, c).packed
      /\ Matrix(name, r, c).shape = <<r, c>>
  BY DEF Matrix
<1>1. CASE t.dtype = "U8"
  <2>1. c > 1
    BY <1>0, <1>1 DEF Ambiguous
  <2>2. Matching(r, c, bytes, scales) # {}
    BY <1>0, <1>1 DEF Bindable
  <2>3. PICK g \in {0} \union GroupSizes : Fits(g, r, c, bytes, scales)
    BY <2>2 DEF Matching
  <2>4. bytes \in Nat /\ scales \in Nat
    <3>1. RowBytes(g, c) \in Nat /\ ScalesPerRow(g, c) \in Nat
      BY <2>1, RowFacts
    <3>2. bytes = r * RowBytes(g, c) /\ scales = r * ScalesPerRow(g, c)
      BY <2>3 DEF Fits
    <3> HIDE DEF bytes, scales
    <3>3. QED
      BY <3>1, <3>2
  <2> HIDE DEF bytes, scales
  <2>5. PICK k \in {0} \union GroupSizes :
           Inferred(c, bytes, scales) = {[rows |-> r, layout |-> k]}
    BY <2>1, <2>3, <2>4, OneLayout
  <2>6. Cardinality(Inferred(c, bytes, scales)) = 1
    BY <2>5, FS_Singleton
  <2>7. (CHOOSE f \in Inferred(c, bytes, scales) : TRUE).rows = r
    <3>1. (CHOOSE f \in Inferred(c, bytes, scales) : TRUE) \in Inferred(c, bytes, scales)
      BY <2>5
    <3>2. QED
      BY <2>5, <3>1
  <2>8. QED
    BY <1>1, <2>6, <2>7 DEF Rows, bytes, scales
<1>2. CASE t.dtype # "U8"
  <2>1. t.shape = <<r, c>>
    BY <1>0, <1>2 DEF Bindable
  <2>2. QED
    BY <1>2, <2>1 DEF Rows
<1>3. QED
  BY <1>1, <1>2

\* A vector of the contract has its length, a table its rows.
LEMMA LengthOfPlain ==
    ASSUME NEW store, NEW name, NEW n, Bindable(store, Plain(name, <<n>>))
    PROVE  Length1(store, name) = n
<1>1. store[name].shape = <<n>>
  BY DEF Bindable, Plain
<1>2. QED
  BY <1>1 DEF Length1

\* The rows of a matrix that is not quantised are those it was bound with.
LEMMA RowsOfPlain ==
    ASSUME NEW store, NEW name, NEW r, NEW c, Bindable(store, Plain(name, <<r, c>>))
    PROVE  Rows(store, name, c) = r
<1>1. store[name].shape = <<r, c>> /\ store[name].dtype # "U8"
  BY DEF Bindable, Plain
<1>2. QED
  BY <1>1 DEF Rows

\* The sizes of an accepted configuration are positive.
LEMMA GlmSizes ==
    ASSUME NEW config, GlmConfigured(config)
    PROVE  /\ config.vocab_size \in Nat \ {0} /\ config.hidden_size \in Nat \ {0}
           /\ config.num_hidden_layers \in Nat \ {0} /\ config.num_attention_heads \in Nat \ {0}
           /\ config.n_routed_experts \in Nat \ {0} /\ config.moe_intermediate_size \in Nat \ {0}
           /\ config.intermediate_size \in Nat \ {0} /\ config.q_lora_rank \in Nat \ {0}
           /\ config.kv_lora_rank \in Nat \ {0} /\ config.qk_nope_head_dim \in Nat \ {0}
           /\ config.qk_rope_head_dim \in Nat \ {0} /\ config.v_head_dim \in Nat \ {0}
           /\ config.n_shared_experts \in Nat \ {0} /\ config.index_n_heads \in Nat \ {0}
           /\ config.index_head_dim \in Nat \ {0}
<1>1. ASSUME NEW key \in DOMAIN Limits PROVE config[key] \in Nat \ {0}
  <2>1. Limits[key][1] \in Nat \ {0} /\ Limits[key][2] \in Nat
    BY GlmBindingAssumption
  <2>2. config[key] \in Limits[key][1]..Limits[key][2]
    BY DEF GlmConfigured
  <2>3. QED
    BY <2>1, <2>2
<1>2. QED
  BY <1>1, GlmBindingAssumption

\* An accepted model of which loading promises everything.
GlmReady(config, store) ==
    /\ GlmConfigured(config) /\ GlmBound(config, store)
    /\ ~(DsaEnabled(config, store) /\ IndexerKinds(config)[1] = "shared")
    /\ \A need \in GlmContract(config, store) : ~Ambiguous(store, need)

\* What the contract names is there as it wants it.
LEMMA ContractGives ==
    ASSUME NEW config, NEW store, GlmReady(config, store), NEW name
    PROVE  /\ \A r, c \in Nat \ {0} :
                 Matrix(name, r, c) \in GlmContract(config, store) => Rows(store, name, c) = r
           /\ \A n : Plain(name, <<n>>) \in GlmContract(config, store) =>
                        Length1(store, name) = n
           /\ \A r, c : Plain(name, <<r, c>>) \in GlmContract(config, store) =>
                           Rows(store, name, c) = r
BY RowsOfMatrix, LengthOfPlain, RowsOfPlain DEF GlmReady, GlmBound

\* What a block of GLM is bound with is in the model's contract.
LEMMA GlmLayerContract ==
    ASSUME NEW config, NEW store, NEW blk \in 1..config.num_hidden_layers
    PROVE  /\ AttentionContract(config, blk) \subseteq GlmContract(config, store)
           /\ MlpContract(config, blk) \subseteq GlmContract(config, store)
           /\ DsaEnabled(config, store) /\ IndexerKinds(config)[blk] = "full" =>
                 IndexerContract(config, blk) \subseteq GlmContract(config, store)
BY DEF GlmContract

\* The attention of a GLM block.
LEMMA GlmAttentionRuns ==
    ASSUME NEW config, NEW store, GlmReady(config, store),
           NEW blk \in 1..config.num_hidden_layers
    PROVE  /\ ~GlmAttentionFails(config, store, blk)
           /\ Length1(store, <<blk, "input_norm">>) = config.hidden_size
           /\ Length1(store, <<blk, "post_attention_norm">>) = config.hidden_size
<1> DEFINE h == config.hidden_size    q == config.q_lora_rank  kv == config.kv_lora_rank
           n == config.num_attention_heads   nope == config.qk_nope_head_dim
           rope == config.qk_rope_head_dim   v == config.v_head_dim
<1>1. AttentionContract(config, blk) \subseteq GlmContract(config, store)
  BY GlmLayerContract
<1>2. /\ Matrix(<<blk, "q_a">>, q, h) \in AttentionContract(config, blk)
      /\ Plain(<<blk, "q_a_norm">>, <<q>>) \in AttentionContract(config, blk)
      /\ Matrix(<<blk, "q_b">>, n * (nope + rope), q) \in AttentionContract(config, blk)
      /\ Matrix(<<blk, "kv_a">>, kv + rope, h) \in AttentionContract(config, blk)
      /\ Plain(<<blk, "kv_a_norm">>, <<kv>>) \in AttentionContract(config, blk)
      /\ Matrix(<<blk, "kv_b">>, n * (nope + v), kv) \in AttentionContract(config, blk)
      /\ Matrix(<<blk, "o">>, h, n * v) \in AttentionContract(config, blk)
      /\ Plain(<<blk, "input_norm">>, <<h>>) \in AttentionContract(config, blk)
      /\ Plain(<<blk, "post_attention_norm">>, <<h>>) \in AttentionContract(config, blk)
  BY DEF AttentionContract
<1>3. /\ h \in Nat \ {0} /\ q \in Nat \ {0} /\ kv \in Nat \ {0} /\ n \in Nat \ {0}
      /\ nope \in Nat \ {0} /\ rope \in Nat \ {0} /\ v \in Nat \ {0}
  BY GlmSizes DEF GlmReady
<1> HIDE DEF h, q, kv, n, nope, rope, v
<1>4. /\ n * (nope + rope) \in Nat \ {0} /\ kv + rope \in Nat \ {0}
      /\ n * (nope + v) \in Nat \ {0} /\ n * v \in Nat \ {0}
  BY <1>3, SMT
<1>5. /\ Rows(store, <<blk, "q_a">>, h) = q
      /\ Length1(store, <<blk, "q_a_norm">>) = q
      /\ Rows(store, <<blk, "q_b">>, q) = n * (nope + rope)
      /\ Rows(store, <<blk, "kv_a">>, h) = kv + rope
      /\ Length1(store, <<blk, "kv_a_norm">>) = kv
      /\ Rows(store, <<blk, "kv_b">>, kv) = n * (nope + v)
      /\ Rows(store, <<blk, "o">>, n * v) = h
  BY <1>1, <1>2, <1>3, <1>4, ContractGives
<1>6. ~(n * (nope + rope) < n * (nope + rope)) /\ ~(n * (nope + v) < n * (nope + v))
  BY <1>4
<1>7. ~GlmAttentionFails(config, store, blk)
  BY <1>5, <1>6 DEF GlmAttentionFails, h, q, kv, n, nope, rope, v
<1>8. /\ Length1(store, <<blk, "input_norm">>) = h
      /\ Length1(store, <<blk, "post_attention_norm">>) = h
  BY <1>1, <1>2, ContractGives
<1>9. QED
  BY <1>7, <1>8 DEF h

\* The indexer of a GLM block that has one.
LEMMA GlmIndexRuns ==
    ASSUME NEW config, NEW store, GlmReady(config, store),
           NEW blk \in 1..config.num_hidden_layers,
           DsaEnabled(config, store), IndexerKinds(config)[blk] = "full"
    PROVE  ~GlmIndexFails(config, store, blk)
<1> DEFINE h == config.hidden_size   q == config.q_lora_rank
           n == config.index_n_heads   dim == config.index_head_dim
<1>1. IndexerContract(config, blk) \subseteq GlmContract(config, store)
  BY GlmLayerContract
<1>2. /\ Matrix(<<blk, "index_q">>, n * dim, q) \in IndexerContract(config, blk)
      /\ Matrix(<<blk, "index_k">>, dim, h) \in IndexerContract(config, blk)
      /\ Matrix(<<blk, "index_projection">>, n, h) \in IndexerContract(config, blk)
      /\ Plain(<<blk, "index_norm">>, <<dim>>) \in IndexerContract(config, blk)
      /\ Plain(<<blk, "index_bias">>, <<dim>>) \in IndexerContract(config, blk)
  BY DEF IndexerContract
<1>3. /\ h \in Nat \ {0} /\ q \in Nat \ {0} /\ n \in Nat \ {0} /\ dim \in Nat \ {0}
      /\ config.qk_rope_head_dim \in Nat /\ dim >= config.qk_rope_head_dim
  BY GlmSizes DEF GlmReady, GlmConfigured, RotaryFits
<1> HIDE DEF h, q, n, dim
<1>4. n * dim \in Nat \ {0}
  BY <1>3, SMT
<1>5. /\ Rows(store, <<blk, "index_q">>, q) = n * dim
      /\ Rows(store, <<blk, "index_k">>, h) = dim
      /\ Rows(store, <<blk, "index_projection">>, h) = n
      /\ Length1(store, <<blk, "index_norm">>) = dim
      /\ Length1(store, <<blk, "index_bias">>) = dim
  BY <1>1, <1>2, <1>3, <1>4, ContractGives
<1>6. ~(dim < config.qk_rope_head_dim) /\ ~(n * dim < n * dim) /\ n # 0
  BY <1>3, <1>4
<1>7. QED
  BY <1>5, <1>6 DEF GlmIndexFails, h, q, n, dim

\* The three matrices of a feed-forward block fit each other.
LEMMA MlpRuns ==
    ASSUME NEW config, NEW store, GlmReady(config, store), NEW gate, NEW up, NEW down,
           NEW h \in Nat \ {0}, NEW w \in Nat \ {0},
           {Matrix(gate, w, h), Matrix(up, w, h), Matrix(down, h, w)}
               \subseteq GlmContract(config, store)
    PROVE  ~MlpFails(store, gate, up, down, h)
<1>1. Rows(store, gate, h) = w /\ Rows(store, up, h) = w /\ Rows(store, down, w) = h
  BY ContractGives
<1>2. QED
  BY <1>1 DEF MlpFails

\* The dense or routed multilayer perceptron of a GLM block.
LEMMA GlmMlpRuns ==
    ASSUME NEW config, NEW store, GlmReady(config, store),
           NEW blk \in 1..config.num_hidden_layers
    PROVE  ~GlmMlpFails(config, store, blk)
<1> DEFINE h == config.hidden_size  d == config.intermediate_size
           m == config.moe_intermediate_size  wide == config.n_shared_experts * m
           experts == config.n_routed_experts
<1>1. MlpContract(config, blk) \subseteq GlmContract(config, store)
  BY GlmLayerContract
<1>2. /\ h \in Nat \ {0} /\ d \in Nat \ {0} /\ m \in Nat \ {0} /\ experts \in Nat \ {0}
      /\ config.n_shared_experts \in Nat \ {0}
  BY GlmSizes DEF GlmReady
<1>3. wide \in Nat \ {0}
  BY <1>2, SMT
<1>4. CASE blk <= config.first_k_dense_replace
  <2>1. {Matrix(<<blk, "gate">>, d, h), Matrix(<<blk, "up">>, d, h),
         Matrix(<<blk, "down">>, h, d)} \subseteq MlpContract(config, blk)
    BY <1>4 DEF MlpContract
  <2>2. ~MlpFails(store, <<blk, "gate">>, <<blk, "up">>, <<blk, "down">>, h)
    BY <1>1, <1>2, <2>1, MlpRuns
  <2>3. QED
    BY <1>4, <2>2 DEF GlmMlpFails
<1>5. CASE ~(blk <= config.first_k_dense_replace)
  <2>1. /\ Plain(<<blk, "router">>, <<experts, h>>) \in MlpContract(config, blk)
        /\ Plain(<<blk, "correction">>, <<experts>>) \in MlpContract(config, blk)
        /\ {Matrix(<<blk, "shared_gate">>, wide, h), Matrix(<<blk, "shared_up">>, wide, h),
            Matrix(<<blk, "shared_down">>, h, wide)} \subseteq MlpContract(config, blk)
        /\ \A e \in 1..experts :
              {Matrix(<<blk, "gate", e>>, m, h), Matrix(<<blk, "up", e>>, m, h),
               Matrix(<<blk, "down", e>>, h, m)} \subseteq MlpContract(config, blk)
    BY <1>5 DEF MlpContract
  <2> HIDE DEF h, d, m, wide, experts
  <2>2. Rows(store, <<blk, "router">>, h) = experts
        /\ Length1(store, <<blk, "correction">>) = experts
    BY <1>1, <2>1, ContractGives
  <2>3. ~MlpFails(store, <<blk, "shared_gate">>, <<blk, "shared_up">>,
                  <<blk, "shared_down">>, h)
    BY <1>1, <1>2, <1>3, <2>1, MlpRuns
  <2>4. \A e \in 1..experts :
           ~MlpFails(store, <<blk, "gate", e>>, <<blk, "up", e>>, <<blk, "down", e>>, h)
    BY <1>1, <1>2, <2>1, MlpRuns
  <2>5. ~(experts < experts)
    BY <1>2
  <2>6. QED
    BY <1>5, <2>2, <2>3, <2>4, <2>5 DEF GlmMlpFails, h, experts
<1>6. QED
  BY <1>4, <1>5

\* A GLM model that opened runs in all its blocks.
LEMMA GlmRuns ==
    ASSUME NEW config, NEW store, GlmReady(config, store)
    PROVE  /\ ~GlmEdgesFail(config, store)
           /\ \A blk \in 1..config.num_hidden_layers : ~GlmLayerFails(config, store, blk)
<1>1. ~GlmEdgesFail(config, store)
  <2>1. /\ Matrix(<<0, "embed">>, config.vocab_size, config.hidden_size)
              \in GlmContract(config, store)
        /\ Matrix(<<0, "lm_head">>, config.vocab_size, config.hidden_size)
              \in GlmContract(config, store)
        /\ Plain(<<0, "norm">>, <<config.hidden_size>>) \in GlmContract(config, store)
    BY DEF GlmContract
  <2>2. config.vocab_size \in Nat \ {0} /\ config.hidden_size \in Nat \ {0}
    BY GlmSizes DEF GlmReady
  <2>3. /\ Rows(store, <<0, "embed">>, config.hidden_size) = config.vocab_size
        /\ Rows(store, <<0, "lm_head">>, config.hidden_size) = config.vocab_size
        /\ Length1(store, <<0, "norm">>) = config.hidden_size
    BY <2>1, <2>2, ContractGives
  <2>4. ~(config.vocab_size < config.vocab_size)
    BY <2>2
  <2>5. QED
    BY <2>3, <2>4 DEF GlmEdgesFail
<1>2. ASSUME NEW blk \in 1..config.num_hidden_layers
      PROVE  ~GlmLayerFails(config, store, blk)
  <2>1. 1 \in 1..blk
    BY GlmSizes DEF GlmReady
  <2>2. ~SelectionMissing(config, store, blk)
    BY <2>1 DEF SelectionMissing, GlmReady
  <2>3. QED
    BY <2>2, GlmAttentionRuns, GlmIndexRuns, GlmMlpRuns DEF GlmLayerFails
<1>3. QED
  BY <1>1, <1>2

\* What an accepted model still stumbles over was never promised.
LEMMA AcceptedRuns ==
    ASSUME NEW c \in Candidates, Opens(c), ~Unpromised(c)
    PROVE  /\ ~EdgesFail(c)
           /\ LayersOf(c) \in Nat
           /\ \A l \in 1..LayersOf(c) : ~LayerFails(c, l)
<1>1. CASE c.family = "gemma4"
  <2>1. \A name \in DOMAIN c.tensors : c.tensors[name].kind \in RunnableKinds
    BY <1>1 DEF Unpromised
  <2>2. GemmaOpens(c)
    BY <1>1 DEF Opens
  <2>3. LayersOf(c) = c.config.layer_count
    BY <1>1 DEF LayersOf
  <2>4. c.config.layer_count \in Nat
    BY <2>2, GgufBindingAssumption DEF GemmaOpens, GemmaConfigured, Pinned
  <2>5. QED
    BY <1>1, <2>1, <2>2, <2>3, <2>4, GemmaRuns DEF EdgesFail, LayerFails
<1>2. CASE c.family = "qwen35"
  <2>1. /\ c.config.rope_dimensions # 0 /\ QwenFits(c.config)
        /\ QwenOpens(c) /\ LayersOf(c) = LayerCount(c.config)
    BY <1>2 DEF Unpromised, Opens, LayersOf
  <2>2. QED
    BY <1>2, <2>1, QwenRuns DEF EdgesFail, LayerFails
<1>3. CASE c.family = "glm_moe_dsa"
  <2>1. GlmOpens(c) /\ LayersOf(c) = c.config.num_hidden_layers
    BY <1>3 DEF Opens, LayersOf
  <2>2. GlmReady(c.config, c.tensors)
    BY <1>3, <2>1 DEF Unpromised, GlmOpens, GlmReady, Ambiguous
  <2>3. c.config.num_hidden_layers \in Nat
    BY <2>2, GlmSizes DEF GlmReady
  <2>4. QED
    BY <1>3, <2>1, <2>2, <2>3, GlmRuns DEF EdgesFail, LayerFails
<1>4. QED
  BY <1>1, <1>2, <1>3 DEF Opens

\* Where loading and the pass stand; a pass that fails is one nothing was promised about.
Loading ==
    /\ progress \in {"closed", "refused", "opened", "ran", "failed"} => candidate \in Candidates
    /\ progress \in {"closed", "opened"} => layer \in Nat
    /\ progress = "closed" => layer = 0
    /\ progress = "opened" =>
         /\ Opens(candidate)
         /\ Unpromised(candidate) \/ layer \in 0..LayersOf(candidate)
    /\ progress = "failed" => Unpromised(candidate)
    /\ progress \in {"written", "read"} => candidate \in Matrices
    /\ progress = "read" =>
         inferred = Inferred(candidate.columns, BytesWritten(candidate), ScalesWritten(candidate))

\* Loading keeps its invariant.
LEMMA LoadingHolds == LoadSpec => []Loading
<1>1. LoadInit => Loading
  BY DEF LoadInit, Loading
<1>2. Loading /\ [LoadNext]_loadVars => Loading'
  <2> SUFFICES ASSUME Loading, [LoadNext]_loadVars PROVE Loading'
    OBVIOUS
  <2>1. CASE Open
    <3>1. /\ progress = "closed" /\ progress' = IF Opens(candidate) THEN "opened" ELSE "refused"
          /\ candidate' = candidate /\ layer' = layer
      BY <2>1 DEF Open
    <3>2. candidate \in Candidates /\ layer = 0
      BY <3>1 DEF Loading
    <3>3. Opens(candidate) => Unpromised(candidate) \/ 0 \in 0..LayersOf(candidate)
      BY <3>2, AcceptedRuns
    <3>4. progress' = "opened" => Opens(candidate)'
      BY <3>1
    <3>5. progress' = "opened" => (Unpromised(candidate) \/ layer \in 0..LayersOf(candidate))'
      BY <3>1, <3>2, <3>3
    <3>6. QED
      BY <3>1, <3>2, <3>4, <3>5 DEF Loading
  <2>2. CASE ForwardFails
    <3>1. /\ progress = "opened" /\ Stuck /\ progress' = "failed"
          /\ candidate' = candidate
      BY <2>2 DEF ForwardFails
    <3>2. candidate \in Candidates /\ Opens(candidate) /\ layer \in Nat
          /\ (Unpromised(candidate) \/ layer \in 0..LayersOf(candidate))
      BY <3>1 DEF Loading
    <3>3. Unpromised(candidate)
      <4> SUFFICES ASSUME ~Unpromised(candidate) PROVE FALSE
        OBVIOUS
      <4>1. /\ ~EdgesFail(candidate) /\ LayersOf(candidate) \in Nat
            /\ \A l \in 1..LayersOf(candidate) : ~LayerFails(candidate, l)
        BY <3>2, AcceptedRuns
      <4>2. layer # 0 => layer \in 1..LayersOf(candidate)
        BY <3>2, <4>1
      <4>3. QED
        BY <3>1, <4>1, <4>2 DEF Stuck
    <3>4. Unpromised(candidate)'
      BY <3>1, <3>3
    <3>5. QED
      BY <3>1, <3>2, <3>4 DEF Loading
  <2>3. CASE ForwardLayer
    <3>1. /\ progress = "opened" /\ candidate' = candidate
          /\ \/ progress' = "ran" /\ layer' = layer
             \/ layer # LayersOf(candidate) /\ layer' = layer + 1 /\ progress' = "opened"
      BY <2>3 DEF ForwardLayer
    <3>2. candidate \in Candidates /\ Opens(candidate) /\ layer \in Nat
          /\ (Unpromised(candidate) \/ layer \in 0..LayersOf(candidate))
      BY <3>1 DEF Loading
    <3>3. ~Unpromised(candidate) => LayersOf(candidate) \in Nat
      BY <3>2, AcceptedRuns
    <3>4. ASSUME progress' = "opened"
          PROVE  layer' \in Nat /\ (Unpromised(candidate) \/ layer' \in 0..LayersOf(candidate))
      BY <3>1, <3>2, <3>3, <3>4
    <3>5. Opens(candidate)'
      BY <3>1, <3>2
    <3>6. progress' = "opened" => (Unpromised(candidate) \/ layer \in 0..LayersOf(candidate))'
      BY <3>1, <3>4
    <3>7. QED
      BY <3>1, <3>2, <3>4, <3>5, <3>6 DEF Loading
  <2>4. CASE InferLayout
    <3>1. /\ progress = "written" /\ progress' = "read" /\ candidate' = candidate
          /\ inferred' = Inferred(candidate.columns, BytesWritten(candidate),
                                  ScalesWritten(candidate))
      BY <2>4 DEF InferLayout
    <3>2. (inferred = Inferred(candidate.columns, BytesWritten(candidate),
                               ScalesWritten(candidate)))'
      BY <3>1
    <3>3. candidate \in Matrices
      BY <3>1 DEF Loading
    <3>4. QED
      BY <3>1, <3>2, <3>3 DEF Loading
  <2>5. CASE UNCHANGED loadVars
    <3>1. progress' = progress /\ candidate' = candidate /\ layer' = layer /\ inferred' = inferred
      BY <2>5 DEF loadVars
    <3>2. Opens(candidate)' = Opens(candidate) /\ Unpromised(candidate)' = Unpromised(candidate)
          /\ LayersOf(candidate)' = LayersOf(candidate)
      BY <3>1
    <3>3. Inferred(candidate.columns, BytesWritten(candidate), ScalesWritten(candidate))'
            = Inferred(candidate.columns, BytesWritten(candidate), ScalesWritten(candidate))
      BY <3>1
    <3>4. QED
      BY <3>1, <3>2, <3>3 DEF Loading
  <2>6. QED
    BY <2>1, <2>2, <2>3, <2>4, <2>5 DEF LoadNext
<1>3. QED
  BY <1>1, <1>2, PTL DEF LoadSpec

\* A model whose configuration is accepted and whose tensors are all bound runs
\* through every block of the forward pass, whatever the sizes are: a pass that
\* fails is that of a model in Unpromised, whose case the checks let through.
THEOREM OpenedRun == LoadSpec => []OpenedModelsRun
<1>1. Loading => OpenedModelsRun
  BY DEF Loading, OpenedModelsRun
<1>2. QED
  BY <1>1, LoadingHolds, PTL

\* A group size that divides the columns is told by the number of scales.
LEMMA EqualGroups ==
    ASSUME NEW c \in Nat \ {0}, c % 768 = 0, NEW g \in GroupSizes, NEW k \in GroupSizes,
           ScalesPerRow(g, c) = ScalesPerRow(k, c)
    PROVE  g = k
<1>1. ASSUME NEW l \in GroupSizes
      PROVE  l \in Nat \ {0} /\ c % l = 0
  BY DEF GroupSizes
<1>2. CeilDiv(c, g) = c \div g /\ CeilDiv(c, k) = c \div k
  BY <1>1, CeilFacts
<1>3. c \div g = c \div k
  BY <1>2 DEF ScalesPerRow, GroupSizes
<1> DEFINE quotient == c \div g
<1>4. g \in Nat \ {0} /\ k \in Nat \ {0} /\ c % g = 0 /\ c % k = 0
  BY <1>1
<1>5. c = quotient * g /\ quotient \in Nat
  BY <1>4, Quotient
<1>6. c = quotient * k
  <2>1. c = (c \div k) * k
    BY <1>4, Quotient
  <2>2. QED
    BY <1>3, <2>1
<1> HIDE DEF quotient
<1>7. quotient # 0
  BY <1>4, <1>5
<1>8. g * quotient = k * quotient
  BY <1>4, <1>5, <1>6
<1>9. QED
  BY <1>4, <1>5, <1>7, <1>8, Cancel

\* The match of a written matrix is what was written, as far as the numbers tell.
LEMMA WrittenIsFound ==
    ASSUME NEW m \in Matrices, m.columns > 1
    PROVE  LET found == Inferred(m.columns, BytesWritten(m), ScalesWritten(m)) IN
           \E f \in found :
              /\ found = {f}
              /\ f.rows = m.rows
              /\ (f.layout = 0) = (m.layout = 0)
              /\ m.columns % 768 = 0 => f.layout = m.layout
              /\ f.layout = Resolved(m.rows, m.columns, BytesWritten(m), ScalesWritten(m))
<1> DEFINE r == m.rows  c == m.columns  g == m.layout
           bytes == BytesWritten(m)  scales == ScalesWritten(m)
<1>1. r \in Nat \ {0} /\ c \in Nat \ {0} /\ g \in {0} \union GroupSizes /\ c > 1
  BY ModelLoadingAssumption
<1>2. Fits(g, r, c, bytes, scales)
  BY DEF Fits, BytesWritten, ScalesWritten
<1>3. bytes \in Nat /\ scales \in Nat
  <2>1. RowBytes(g, c) \in Nat /\ ScalesPerRow(g, c) \in Nat
    BY <1>1, RowFacts
  <2>2. bytes = r * RowBytes(g, c) /\ scales = r * ScalesPerRow(g, c)
    BY DEF BytesWritten, ScalesWritten
  <2> HIDE DEF r, c, g, bytes, scales
  <2>3. QED
    BY <1>1, <2>1, <2>2
<1> HIDE DEF r, c, g, bytes, scales
<1>4. PICK k \in {0} \union GroupSizes :
         /\ Fits(k, r, c, bytes, scales)
         /\ Matching(r, c, bytes, scales) = {k}
         /\ Inferred(c, bytes, scales) = {[rows |-> r, layout |-> k]}
  BY <1>1, <1>2, <1>3, OneLayout
<1>5. (k = 0) = (g = 0)
  BY <1>1, <1>2, <1>3, <1>4, OneFit
<1>6. ASSUME c % 768 = 0 PROVE k = g
  <2>1. CASE g = 0
    BY <1>5, <2>1
  <2>2. CASE g # 0
    <3>1. g \in GroupSizes /\ k \in GroupSizes
      BY <1>1, <1>5, <2>2
    <3>2. ScalesPerRow(g, c) \in Nat /\ ScalesPerRow(k, c) \in Nat
      BY <1>1, RowFacts
    <3>3. ScalesPerRow(g, c) * r = ScalesPerRow(k, c) * r
      BY <1>1, <1>2, <1>4, <3>2 DEF Fits
    <3>4. ScalesPerRow(g, c) = ScalesPerRow(k, c)
      BY <1>1, <3>2, <3>3, Cancel
    <3>5. QED
      BY <1>1, <1>6, <3>1, <3>4, EqualGroups
  <2>3. QED
    BY <2>1, <2>2
<1>7. Resolved(r, c, bytes, scales) = k
  <2>1. k <= k
    BY DEF GroupSizes
  <2>2. QED
    BY <1>4, <2>1 DEF Resolved
<1>8. QED
  BY <1>4, <1>5, <1>6, <1>7 DEF r, c, g, bytes, scales

\* infer_quantization_from_scale_count has only the lengths of the weights and of the scales
\* to tell how a matrix was quantised: with more than one column it finds the rows and the
\* bits, and the group when all divide the columns.
THEOREM LayoutsRecovered == LoadSpec => []LayoutRecovered
<1>1. Loading => LayoutRecovered
  BY WrittenIsFound DEF Loading, LayoutRecovered
<1>2. QED
  BY <1>1, LoadingHolds, PTL

-----------------------------------------------------------------------------
(***************************************************************************)
(* The index of a SafeTensors checkpoint.  The invariant says of every     *)
(* tensor read so far what the index promises in the end; what one shard   *)
(* adds to it is checked against its neighbours in the order of their      *)
(* beginnings only, and against the names the earlier shards had.          *)
(***************************************************************************)
ShardRecords == [name : ShardNames, fileLen : Nat, dataOffset : Nat]
TensorRecords == [name : Nat, shard : Nat, start : Nat, bytes : Nat]

SafeTypes ==
    /\ weightMap \in WeightMaps
    /\ files \in [DOMAIN files -> ShardFiles] /\ DOMAIN files \subseteq ShardNames
    /\ stage \in {"open", "reading", "accepted", "failed"}
    /\ stage = "reading" => queue \in Seq(DOMAIN files)
    /\ shards \in Seq(ShardRecords)
    /\ tensors \in Seq(TensorRecords)

InShard(t) ==
    /\ t.shard \in DOMAIN shards
    /\ shards[t.shard].dataOffset <= t.start
    /\ t.start + t.bytes <= shards[t.shard].fileLen
    /\ Indexed => t.name \in DOMAIN weightMap /\ weightMap[t.name] = shards[t.shard].name

Disjoint(t, u) ==
    t.shard = u.shard /\ t.bytes > 0 /\ u.bytes > 0 =>
        t.start + t.bytes <= u.start \/ u.start + u.bytes <= t.start

\* Each tensor where it should be, and every two different and apart.
Consistent(list) ==
    /\ \A i \in DOMAIN list : InShard(list[i])
    /\ \A i, j \in DOMAIN list : i # j =>
          list[i].name # list[j].name /\ Disjoint(list[i], list[j])

SafeInv ==
    /\ SafeTypes
    /\ Consistent(tensors)
    /\ stage = "accepted" =>
         /\ \A i \in 2..Len(tensors) : tensors[i - 1].name < tensors[i].name
         /\ Indexed => \A name \in DOMAIN weightMap : \E i \in DOMAIN tensors : tensors[i].name = name

\* A sort goes through all of a finite set of places, and through none twice.
LEMMA SortedPlaces ==
    ASSUME NEW n \in Nat, NEW S \in SUBSET (1..n)
    PROVE  /\ Cardinality(S) \in Nat
           /\ \A order \in [1..Cardinality(S) -> S] : Range(order) = S =>
                 \A k, l \in 1..Cardinality(S) : order[k] = order[l] => k = l
<1>1. IsFiniteSet(S) /\ Cardinality(S) \in Nat
  <2>1. IsFiniteSet(1..n)
    BY FS_Interval
  <2>2. IsFiniteSet(S)
    BY <2>1, FS_Subset
  <2>3. QED
    BY <2>2, FS_CardinalityType
<1>2. ASSUME NEW order \in [1..Cardinality(S) -> S], Range(order) = S
      PROVE  \A k, l \in 1..Cardinality(S) : order[k] = order[l] => k = l
  <2> DEFINE m == Cardinality(S)
  <2>1. IsFiniteSet(1..m) /\ Cardinality(1..m) = m
    BY <1>1, FS_Interval
  <2>2. order \in Surjection(1..m, S)
    BY <1>2 DEF Surjection, Range
  <2> HIDE DEF m
  <2>3. order \in Injection(1..m, S)
    <3>1. Cardinality(1..m) = Cardinality(S)
      BY <2>1 DEF m
    <3>2. QED
      BY <1>1, <2>1, <2>2, <3>1, FS_SurjSameCardinalityImpliesInj
  <2>4. QED
    BY <2>3 DEF Injection, IsInjective, m
<1>3. QED
  BY <1>1, <1>2

\* What is sorted goes through the set, and the keys do not fall.
LEMMA SortedBy ==
    ASSUME NEW S, Cardinality(S) \in Nat, NEW key, NEW order, order \in Sorted(S, key)
    PROVE  /\ order \in [1..Cardinality(S) -> S] /\ Range(order) = S
           /\ \A k \in 2..Cardinality(S) :
                 order[k] \in S /\ order[k - 1] \in S /\ key[order[k - 1]] <= key[order[k]]
<1>1. /\ order \in [1..Cardinality(S) -> S] /\ Range(order) = S
      /\ \A k \in 2..Cardinality(S) : key[order[k - 1]] <= key[order[k]]
  BY DEF Sorted
<1>2. \A k \in 2..Cardinality(S) : k \in 1..Cardinality(S) /\ k - 1 \in 1..Cardinality(S)
  OBVIOUS
<1>3. QED
  BY <1>1, <1>2

\* Ranges whose neighbours by their beginnings are apart are apart.
LEMMA RangesApart ==
    ASSUME NEW n \in Nat, NEW S \in SUBSET (1..n),
           NEW first \in [1..n -> Nat], NEW last \in [1..n -> Nat],
           NEW order \in [1..Cardinality(S) -> S], Range(order) = S,
           \A k \in 2..Cardinality(S) : first[order[k - 1]] <= first[order[k]],
           \A k \in 2..Cardinality(S) : ~(last[order[k - 1]] > first[order[k]]),
           NEW i \in S, NEW j \in S, i # j
    PROVE  last[i] <= first[j] \/ last[j] <= first[i]
<1> DEFINE m == Cardinality(S)
           start == [k \in 1..m |-> first[order[k]]]  end == [k \in 1..m |-> last[order[k]]]
<1>1. m \in Nat
  BY SortedPlaces
<1>2. PICK p \in 1..m, q \in 1..m : order[p] = i /\ order[q] = j
  BY DEF Range
<1>3. \A k \in 1..m : order[k] \in 1..n
  OBVIOUS
<1>4. start \in [1..m -> Int] /\ end \in [1..m -> Int]
  <2>1. \A k \in 1..m : first[order[k]] \in Int /\ last[order[k]] \in Int
    BY <1>3
  <2> HIDE DEF m
  <2>2. QED
    BY <2>1
<1>5. \A k \in 2..m : start[k - 1] <= start[k] /\ end[k - 1] <= start[k]
  <2> SUFFICES ASSUME NEW k \in 2..m PROVE start[k - 1] <= start[k] /\ end[k - 1] <= start[k]
    OBVIOUS
  <2>1. k \in 1..m /\ k - 1 \in 1..m
    BY <1>1
  <2>2. start[k] \in Int /\ start[k - 1] \in Int /\ end[k - 1] \in Int
    BY <1>4, <2>1
  <2>3. start[k - 1] <= start[k] /\ ~(end[k - 1] > start[k])
    BY <2>1
  <2> HIDE DEF start, end
  <2>4. QED
    BY <2>2, <2>3
<1> HIDE DEF start, end, m
<1>6. \A k, l \in 1..m : k < l => end[k] <= start[l]
  BY <1>1, <1>4, <1>5, NeighboursSuffice
<1>7. p < q \/ q < p
  BY <1>1, <1>2
<1>8. end[p] <= start[q] \/ end[q] <= start[p]
  BY <1>6, <1>7
<1>9. QED
  BY <1>2, <1>8 DEF start, end

ShardEntries == [name : Nat, dtype : STRING, shape : Seq(Nat), start : Nat, end : Nat]

\* What read_shard_header compares is enough: no two tensors of a shard overlap.
LEMMA EntriesApart ==
    ASSUME NEW entries \in Seq(ShardEntries), ~Overlaps(entries)
    PROVE  \A i, j \in DOMAIN entries :
              i # j /\ entries[i].end > entries[i].start /\ entries[j].end > entries[j].start =>
                 entries[i].end <= entries[j].start \/ entries[j].end <= entries[i].start
<1> DEFINE n == Len(entries)
           first == [k \in 1..n |-> entries[k].start]  last == [k \in 1..n |-> entries[k].end]
           held == {k \in 1..n : last[k] > first[k]}
<1>1. DOMAIN entries = 1..n /\ n \in Nat /\ \A k \in 1..n : entries[k] \in ShardEntries
  OBVIOUS
<1>2. first \in [1..n -> Nat] /\ last \in [1..n -> Nat]
  BY <1>1 DEF ShardEntries
<1>3. Cardinality(held) \in Nat /\ held \in SUBSET (1..n)
  <2>1. held \in SUBSET (1..n)
    OBVIOUS
  <2> HIDE DEF held
  <2>2. QED
    BY <1>1, <2>1, SortedPlaces
<1>4. PICK order \in [1..Cardinality(held) -> held] :
         /\ Range(order) = held
         /\ \A k \in 2..Cardinality(held) : entries[order[k - 1]].start <= entries[order[k]].start
         /\ \A k \in 2..Cardinality(held) : ~(entries[order[k - 1]].end > entries[order[k]].start)
  <2> DEFINE key == [i \in held |-> entries[i].start]
  <2>1. held = {k \in DOMAIN entries : entries[k].end > entries[k].start}
    BY <1>1
  <2> HIDE DEF held
  <2>2. PICK order \in Sorted(held, key) :
           \A k \in 2..Cardinality(held) : ~(entries[order[k - 1]].end > entries[order[k]].start)
    BY <2>1 DEF Overlaps
  <2>3. /\ order \in [1..Cardinality(held) -> held] /\ Range(order) = held
        /\ \A k \in 2..Cardinality(held) :
              order[k] \in held /\ order[k - 1] \in held /\ key[order[k - 1]] <= key[order[k]]
    <3> HIDE DEF key
    <3>1. QED
      BY <1>3, <2>2, SortedBy
  <2>4. \A k \in 2..Cardinality(held) : entries[order[k - 1]].start <= entries[order[k]].start
    BY <2>3
  <2>5. QED
    BY <2>2, <2>3, <2>4
<1>5. \A k \in 2..Cardinality(held) : order[k] \in 1..n /\ order[k - 1] \in 1..n
  <2> SUFFICES ASSUME NEW k \in 2..Cardinality(held)
               PROVE  order[k] \in 1..n /\ order[k - 1] \in 1..n
    OBVIOUS
  <2> HIDE DEF held
  <2>1. k \in 1..Cardinality(held) /\ k - 1 \in 1..Cardinality(held)
    BY <1>3
  <2>2. QED
    BY <1>3, <1>4, <2>1
<1>6. \A k \in 2..Cardinality(held) : first[order[k - 1]] <= first[order[k]]
  <2> HIDE DEF held
  <2>1. QED
    BY <1>4, <1>5
<1>7. \A k \in 2..Cardinality(held) : ~(last[order[k - 1]] > first[order[k]])
  <2> HIDE DEF held
  <2>1. QED
    BY <1>4, <1>5
<1>8. \A i, j \in held : i # j => last[i] <= first[j] \/ last[j] <= first[i]
  <2> HIDE DEF held, first, last, n
  <2>1. QED
    BY <1>1, <1>2, <1>3, <1>4, <1>6, <1>7, RangesApart
<1>9. QED
  BY <1>1, <1>8

\* A tensor as the index keeps it.
Read(entry, number, offset) ==
    [name |-> entry.name, shard |-> number, start |-> offset + entry.start,
     bytes |-> entry.end - entry.start]

\* The step of a shard that is accepted.
Adds(shard, content) ==
    /\ stage = "reading" /\ queue # <<>> /\ shard = Head(queue) /\ content = files[shard]
    /\ ~BadShard(content)
    /\ \A i \in DOMAIN content.entries : ~Unexpected(content.entries[i].name, shard)
    /\ queue' = Tail(queue) /\ weightMap' = weightMap /\ files' = files /\ stage' = stage
    /\ shards' = Append(shards, [name |-> shard, fileLen |-> content.fileLen,
                                 dataOffset |-> 8 + content.headerLen])
    /\ tensors' = tensors \o [i \in DOMAIN content.entries |->
                     Read(content.entries[i], Len(shards) + 1, 8 + content.headerLen)]

\* Its tensors fit to those read before.
LEMMA ShardFits ==
    ASSUME SafeTypes, Consistent(tensors), NEW shard, NEW content, Adds(shard, content)
    PROVE  SafeTypes' /\ Consistent(tensors)'
<1> DEFINE entries == content.entries
           n == Len(tensors)  m == Len(entries)  number == Len(shards) + 1
           offset == 8 + content.headerLen  record == [name |-> shard, fileLen |-> content.fileLen,
                                                       dataOffset |-> offset]
           new == [i \in 1..m |-> Read(entries[i], number, offset)]
<1>1. /\ shard \in DOMAIN files /\ shard \in ShardNames /\ content \in ShardFiles
      /\ Tail(queue) \in Seq(DOMAIN files)
  <2>1. queue \in Seq(DOMAIN files) /\ queue # <<>> /\ shard = Head(queue)
    BY DEF SafeTypes, Adds
  <2>2. shard \in DOMAIN files /\ Tail(queue) \in Seq(DOMAIN files)
    BY <2>1
  <2>3. content = files[shard]
    BY DEF Adds
  <2>4. QED
    BY <2>2, <2>3 DEF SafeTypes
<1>2. /\ content.fileLen \in Nat /\ content.headerLen \in Nat /\ entries \in Seq(ShardEntries)
  BY <1>1, SafeAssumption DEF ShardEntries
<1>3. /\ DOMAIN entries = 1..m /\ m \in Nat
      /\ \A i \in 1..m : entries[i] \in ShardEntries
  BY <1>2
<1>4. /\ tensors' = tensors \o new
      /\ shards' = Append(shards, record)
      /\ weightMap' = weightMap /\ files' = files /\ stage' = stage /\ queue' = Tail(queue)
  BY <1>3 DEF Adds
<1>5. \A i \in 1..m :
         /\ entries[i].start <= entries[i].end
         /\ entries[i].end <= content.fileLen - offset
  <2>1. \A i \in 1..m : ~BadEntry(entries[i], content.fileLen - 8 - content.headerLen)
    BY <1>3 DEF BadShard, Adds
  <2> SUFFICES ASSUME NEW i \in 1..m
               PROVE  entries[i].start <= entries[i].end /\ entries[i].end <= content.fileLen - offset
    OBVIOUS
  <2>2. /\ ~(entries[i].end < entries[i].start)
        /\ ~(entries[i].end > content.fileLen - 8 - content.headerLen)
    BY <2>1 DEF BadEntry
  <2>3. entries[i].start \in Nat /\ entries[i].end \in Nat
    BY <1>3 DEF ShardEntries
  <2> HIDE DEF entries, m
  <2>4. content.fileLen - 8 - content.headerLen = content.fileLen - offset
    BY <1>2
  <2>5. QED
    BY <1>2, <2>2, <2>3, <2>4
<1>6. \A i, j \in 1..m : i # j => entries[i].name # entries[j].name
  <2>1. ~BadShard(content)
    BY DEF Adds
  <2>2. \A i, j \in DOMAIN entries : i # j => entries[i].name # entries[j].name
    BY <2>1 DEF BadShard
  <2> HIDE DEF entries, m
  <2>3. QED
    BY <1>3, <2>2
<1>7. \A i, j \in 1..m :
         i # j /\ entries[i].end > entries[i].start /\ entries[j].end > entries[j].start =>
            entries[i].end <= entries[j].start \/ entries[j].end <= entries[i].start
  <2>1. ~Overlaps(entries)
    BY DEF BadShard, Adds
  <2> HIDE DEF entries, m
  <2>2. QED
    BY <1>2, <1>3, <2>1, EntriesApart
<1>8. \A i \in 1..m :
         /\ \A k \in DOMAIN tensors : tensors[k].name # entries[i].name
         /\ Indexed => /\ entries[i].name \in DOMAIN weightMap
                       /\ weightMap[entries[i].name] = shard
  BY <1>3 DEF Unexpected, Adds
<1>9. /\ shards \in Seq(ShardRecords) /\ tensors \in Seq(TensorRecords)
      /\ DOMAIN tensors = 1..n /\ n \in Nat /\ number \in Nat
  <2>1. shards \in Seq(ShardRecords) /\ tensors \in Seq(TensorRecords)
    BY DEF SafeTypes
  <2>2. QED
    BY <2>1
<1>10. record \in ShardRecords /\ offset \in Nat
  <2>1. offset \in Nat
    BY <1>2
  <2> HIDE DEF offset
  <2>2. QED
    BY <1>1, <1>2, <2>1 DEF ShardRecords
<1> HIDE DEF entries, record
<1>11. \A i \in 1..m : new[i] \in TensorRecords
  <2> SUFFICES ASSUME NEW i \in 1..m PROVE new[i] \in TensorRecords
    OBVIOUS
  <2>1. /\ entries[i].name \in Nat /\ entries[i].start \in Nat /\ entries[i].end \in Nat
        /\ entries[i].start <= entries[i].end
    BY <1>3, <1>5 DEF ShardEntries
  <2>2. offset + entries[i].start \in Nat /\ entries[i].end - entries[i].start \in Nat
    BY <1>10, <2>1
  <2>3. new[i] = Read(entries[i], number, offset)
    OBVIOUS
  <2> HIDE DEF new, offset, number
  <2>4. QED
    BY <1>9, <2>1, <2>2, <2>3 DEF Read, TensorRecords
<1>12. new \in Seq(TensorRecords) /\ Len(new) = m
  <2>1. new = [i \in 1..m |-> new[i]]
    OBVIOUS
  <2> HIDE DEF new, m
  <2>2. QED
    BY <1>3, <1>11, <2>1
<1>13. /\ shards' \in Seq(ShardRecords) /\ tensors' \in Seq(TensorRecords)
       /\ DOMAIN shards' = 1..number /\ DOMAIN shards = 1..(number - 1)
       /\ shards'[number] = record /\ \A k \in 1..(number - 1) : shards'[k] = shards[k]
  <2> DEFINE l == Len(shards)
  <2>1. l \in Nat /\ shards' = Append(shards, record) /\ DOMAIN shards = 1..l
    BY <1>4, <1>9
  <2>2. /\ shards' \in Seq(ShardRecords) /\ Len(shards') = l + 1
        /\ shards'[l + 1] = record /\ \A k \in 1..l : shards'[k] = shards[k]
    BY <1>9, <1>10, <2>1
  <2>3. number = l + 1 /\ number - 1 = l
    BY <2>1
  <2>4. tensors' \in Seq(TensorRecords)
    <3> HIDE DEF new
    <3>1. QED
      BY <1>4, <1>9, <1>12
  <2> HIDE DEF l, number
  <2>5. QED
    BY <2>1, <2>2, <2>3, <2>4
<1>14. /\ DOMAIN tensors' = 1..(n + m)
       /\ \A k \in 1..n : tensors'[k] = tensors[k]
       /\ \A k \in 1..(n + m) : k \notin 1..n => k - n \in 1..m /\ tensors'[k] = new[k - n]
  <2> HIDE DEF new, m, n
  <2>1. tensors \in Seq(TensorRecords) /\ Len(tensors) = n /\ new \in Seq(TensorRecords)
    BY <1>9, <1>12 DEF n
  <2>2. DOMAIN tensors' = 1..(n + m)
    BY <1>3, <1>4, <1>12, <2>1
  <2>3. ASSUME NEW k \in 1..n PROVE tensors'[k] = tensors[k]
    BY <1>3, <1>4, <1>12, <2>1
  <2>4. ASSUME NEW k \in 1..(n + m), k \notin 1..n
        PROVE  k - n \in 1..m /\ tensors'[k] = new[k - n]
    <3>1. n \in Nat /\ k - n \in 1..m /\ k > n
      BY <1>3, <1>9, <2>4
    <3>2. QED
      BY <1>4, <1>12, <2>1, <3>1
  <2>5. QED
    BY <2>2, <2>3, <2>4
<1>15. SafeTypes'
  BY <1>1, <1>4, <1>13 DEF SafeTypes
<1>16. \A i \in 1..m :
          /\ new[i].name = entries[i].name /\ new[i].shard = number
          /\ new[i].start = offset + entries[i].start
          /\ new[i].bytes = entries[i].end - entries[i].start
  <2> SUFFICES ASSUME NEW i \in 1..m
               PROVE  /\ new[i].name = entries[i].name /\ new[i].shard = number
                      /\ new[i].start = offset + entries[i].start
                      /\ new[i].bytes = entries[i].end - entries[i].start
    OBVIOUS
  <2>1. new[i] = Read(entries[i], number, offset)
    OBVIOUS
  <2> HIDE DEF new, offset, number, m
  <2>2. QED
    BY <2>1 DEF Read
<1>17. \A i \in 1..m : entries[i].start \in Nat /\ entries[i].end \in Nat
  BY <1>3 DEF ShardEntries
<1>18. record.name = shard /\ record.fileLen = content.fileLen /\ record.dataOffset = offset
  BY DEF record
<1>19. \A k \in 1..n : tensors[k] \in TensorRecords
  BY <1>9
<1>20. number > 0
  BY <1>9
<1> HIDE DEF new, offset, number, m, n
<1>21. ASSUME NEW k \in DOMAIN tensors'
       PROVE  /\ tensors'[k].shard \in DOMAIN shards'
              /\ shards'[tensors'[k].shard].dataOffset <= tensors'[k].start
              /\ tensors'[k].start + tensors'[k].bytes <= shards'[tensors'[k].shard].fileLen
              /\ Indexed => /\ tensors'[k].name \in DOMAIN weightMap
                            /\ weightMap[tensors'[k].name] = shards'[tensors'[k].shard].name
  <2>1. CASE k \in 1..n
    <3>1. tensors'[k] = tensors[k] /\ InShard(tensors[k])
      BY <1>9, <1>14, <2>1 DEF Consistent
    <3>2. tensors[k].shard \in DOMAIN shards /\ number - 1 \in Nat
      BY <1>13, <3>1 DEF InShard, number
    <3>3. /\ tensors[k].shard \in DOMAIN shards'
          /\ shards'[tensors[k].shard] = shards[tensors[k].shard]
      BY <1>9, <1>13, <3>2
    <3>4. QED
      BY <3>1, <3>3 DEF InShard
  <2>2. CASE k \notin 1..n
    <3> DEFINE i == k - n
    <3>1. i \in 1..m /\ tensors'[k] = new[i]
      BY <1>14, <2>2
    <3> HIDE DEF i
    <3>2. number \in DOMAIN shards' /\ shards'[number] = record
      <4>1. number \in 1..number
        BY <1>9, <1>20
      <4>2. QED
        BY <1>13, <4>1
    <3>3. offset <= offset + entries[i].start
      BY <1>10, <1>17, <3>1
    <3>4. (offset + entries[i].start) + (entries[i].end - entries[i].start) <= content.fileLen
      BY <1>2, <1>5, <1>10, <1>17, <3>1
    <3>5. QED
      BY <1>8, <1>16, <1>18, <3>1, <3>2, <3>3, <3>4
  <2>3. QED
    BY <2>1, <2>2
<1>22. ASSUME NEW i \in 1..m, NEW k \in 1..n
       PROVE  new[i].name # tensors[k].name /\ new[i].shard # tensors[k].shard
  <2>1. InShard(tensors[k]) /\ tensors[k].name # entries[i].name
    BY <1>8, <1>9 DEF Consistent
  <2>2. tensors[k].shard \in 1..(number - 1)
    BY <1>13, <2>1 DEF InShard
  <2>3. tensors[k].shard # number
    BY <1>9, <2>2
  <2>4. QED
    BY <1>16, <2>1, <2>3
<1>23. ASSUME NEW i \in 1..m, NEW j \in 1..m, i # j
       PROVE  new[i].name # new[j].name /\ Disjoint(new[i], new[j])
  <2>1. new[i].name # new[j].name
    BY <1>6, <1>16, <1>23
  <2>2. ASSUME new[i].bytes > 0, new[j].bytes > 0
        PROVE  \/ new[i].start + new[i].bytes <= new[j].start
               \/ new[j].start + new[j].bytes <= new[i].start
    <3>1. entries[i].end > entries[i].start /\ entries[j].end > entries[j].start
      BY <1>16, <1>17, <2>2
    <3>2. entries[i].end <= entries[j].start \/ entries[j].end <= entries[i].start
      BY <1>7, <1>23, <3>1
    <3>3. /\ new[i].start + new[i].bytes = offset + entries[i].end
          /\ new[j].start + new[j].bytes = offset + entries[j].end
      BY <1>10, <1>16, <1>17
    <3>4. QED
      BY <1>10, <1>16, <1>17, <3>2, <3>3
  <2>3. QED
    BY <2>1, <2>2 DEF Disjoint
<1>24. ASSUME NEW k \in DOMAIN tensors', NEW l \in DOMAIN tensors', k # l
       PROVE  tensors'[k].name # tensors'[l].name /\ Disjoint(tensors'[k], tensors'[l])
  <2>1. CASE k \in 1..n /\ l \in 1..n
    BY <1>9, <1>14, <1>24, <2>1 DEF Consistent
  <2>2. CASE k \in 1..n /\ l \notin 1..n
    <3>1. tensors'[k] = tensors[k] /\ l - n \in 1..m /\ tensors'[l] = new[l - n]
      BY <1>14, <2>2
    <3>2. QED
      BY <1>22, <2>2, <3>1 DEF Disjoint
  <2>3. CASE k \notin 1..n /\ l \in 1..n
    <3>1. tensors'[l] = tensors[l] /\ k - n \in 1..m /\ tensors'[k] = new[k - n]
      BY <1>14, <2>3
    <3>2. QED
      BY <1>22, <2>3, <3>1 DEF Disjoint
  <2>4. CASE k \notin 1..n /\ l \notin 1..n
    <3>1. /\ k - n \in 1..m /\ tensors'[k] = new[k - n]
          /\ l - n \in 1..m /\ tensors'[l] = new[l - n]
      BY <1>14, <2>4
    <3>2. k - n # l - n
      BY <1>3, <1>9, <1>14, <1>24
    <3>3. QED
      BY <1>23, <3>1, <3>2
  <2>5. QED
    BY <2>1, <2>2, <2>3, <2>4
<1>25. Consistent(tensors)'
  BY <1>4, <1>21, <1>24 DEF Consistent, InShard, Disjoint, Indexed
<1>26. QED
  BY <1>15, <1>25

\* A function on the first numbers is a sequence.
LEMMA ListIsSeq ==
    ASSUME NEW S, NEW n \in Nat, NEW list \in [1..n -> S]
    PROVE  list \in Seq(S) /\ DOMAIN list = 1..n /\ Len(list) = n
OBVIOUS

\* Sorting the tensors by their names keeps what holds of every two of them.
LEMMA SortKeeps ==
    ASSUME SafeTypes, Consistent(tensors), UNCHANGED <<weightMap, files, shards>>,
           NEW order \in [1..Cardinality(DOMAIN tensors) -> DOMAIN tensors],
           Range(order) = DOMAIN tensors,
           \A k \in 2..Cardinality(DOMAIN tensors) :
              tensors[order[k - 1]].name <= tensors[order[k]].name,
           tensors' = [k \in DOMAIN tensors |-> tensors[order[k]]]
    PROVE  /\ tensors' \in Seq(TensorRecords) /\ Consistent(tensors)'
           /\ \A i \in 2..Len(tensors') : tensors'[i - 1].name < tensors'[i].name
           /\ \A k \in DOMAIN tensors : \E i \in DOMAIN tensors' : tensors'[i].name = tensors[k].name
<1> DEFINE n == Len(tensors)
<1>1. /\ n \in Nat /\ DOMAIN tensors = 1..n
      /\ \A k \in 1..n : tensors[k] \in TensorRecords /\ tensors[k].name \in Nat
  <2>1. tensors \in Seq(TensorRecords)
    BY DEF SafeTypes
  <2>2. /\ n \in Nat /\ DOMAIN tensors = 1..n /\ \A k \in 1..n : tensors[k] \in TensorRecords
    BY <2>1
  <2>3. QED
    BY <2>2 DEF TensorRecords
<1> HIDE DEF n
<1>2. Cardinality(DOMAIN tensors) = n
  BY <1>1, FS_Interval
<1>3. /\ order \in [1..n -> 1..n] /\ Range(order) = 1..n
      /\ tensors' = [k \in 1..n |-> tensors[order[k]]]
  BY <1>1, <1>2
<1>4. \A k, l \in 1..n : order[k] = order[l] => k = l
  <2>1. 1..n \in SUBSET (1..n) /\ Cardinality(1..n) = n
    BY <1>1, <1>2
  <2>2. \A other \in [1..Cardinality(1..n) -> 1..n] : Range(other) = 1..n =>
           \A k, l \in 1..Cardinality(1..n) : other[k] = other[l] => k = l
    BY <1>1, <2>1, SortedPlaces
  <2>3. QED
    BY <1>3, <2>1, <2>2
<1>5. tensors' \in Seq(TensorRecords) /\ DOMAIN tensors' = 1..n /\ Len(tensors') = n
  <2>1. \A k \in 1..n : tensors[order[k]] \in TensorRecords
    BY <1>1, <1>3
  <2>2. tensors' \in [1..n -> TensorRecords]
    BY <1>3, <2>1
  <2>3. QED
    BY <1>1, <2>2, ListIsSeq
<1>6. \A k \in 1..n : order[k] \in 1..n /\ tensors'[k] = tensors[order[k]]
  BY <1>3
<1>7. Consistent(tensors)'
  <2>1. \A k \in 1..n : InShard(tensors[order[k]])
    BY <1>1, <1>6 DEF Consistent
  <2>2. \A k, l \in 1..n : k # l => /\ tensors[order[k]].name # tensors[order[l]].name
                                    /\ Disjoint(tensors[order[k]], tensors[order[l]])
    BY <1>1, <1>4, <1>6 DEF Consistent
  <2>3. QED
    BY <1>5, <1>6, <2>1, <2>2 DEF Consistent, InShard, Disjoint, Indexed
<1>8. ASSUME NEW i \in 2..n PROVE tensors'[i - 1].name < tensors'[i].name
  <2>1. i \in 1..n /\ i - 1 \in 1..n /\ i # i - 1
    BY <1>1
  <2>2. /\ tensors'[i].name \in Nat /\ tensors'[i - 1].name \in Nat
        /\ tensors'[i - 1].name <= tensors'[i].name
    BY <1>1, <1>2, <1>6, <2>1
  <2>3. tensors[order[i]].name # tensors[order[i - 1]].name
    BY <1>1, <1>4, <1>6, <2>1 DEF Consistent
  <2>4. QED
    BY <1>6, <2>1, <2>2, <2>3
<1>9. ASSUME NEW k \in 1..n PROVE \E i \in 1..n : tensors'[i].name = tensors[k].name
  <2>1. PICK i \in 1..n : order[i] = k
    BY <1>3 DEF Range
  <2>2. QED
    BY <1>6, <2>1
<1>10. \A i \in 2..Len(tensors') : tensors'[i - 1].name < tensors'[i].name
  <2>1. Len(tensors') = n
    BY <1>5
  <2>2. \A i \in 2..n : tensors'[i - 1].name < tensors'[i].name
    BY <1>8
  <2>3. QED
    BY <2>1, <2>2
<1>11. \A k \in DOMAIN tensors : \E i \in DOMAIN tensors' : tensors'[i].name = tensors[k].name
  <2>1. DOMAIN tensors = 1..n
    BY <1>1
  <2>2. DOMAIN tensors' = 1..n
    BY <1>5
  <2>3. \A k \in 1..n : \E i \in 1..n : tensors'[i].name = tensors[k].name
    BY <1>9
  <2>4. QED
    BY <2>1, <2>2, <2>3
<1>12. QED
  BY <1>5, <1>7, <1>10, <1>11

\* The shards that are to be read exist, each once.
LEMMA QueueOfFiles ==
    ASSUME SafeTypes, NEW names, names \subseteq DOMAIN files,
           queue' \in Sorted(names, [name \in names |-> name])
    PROVE  queue' \in Seq(DOMAIN files)
<1>1. IsFiniteSet(names)
  <2>1. names \in SUBSET ShardNames
    BY DEF SafeTypes
  <2>2. QED
    BY <2>1, SafeAssumption, FS_Subset
<1>2. Cardinality(names) \in Nat
  BY <1>1, FS_CardinalityType
<1>3. queue' \in [1..Cardinality(names) -> names]
  BY DEF Sorted
<1> DEFINE count == Cardinality(names)  line == queue'
<1>4. count \in Nat /\ line \in [1..count -> names]
  BY <1>2, <1>3
<1> HIDE DEF count, line
<1>5. line \in Seq(DOMAIN files)
  <2>1. \A k \in 1..count : line[k] \in DOMAIN files
    BY <1>4
  <2>2. line \in [1..count -> DOMAIN files]
    BY <1>4, <2>1
  <2>3. QED
    BY <1>4, <2>2, ListIsSeq
<1>6. QED
  BY <1>5 DEF line

\* The invariant holds of an empty index, and no step breaks it.
LEMMA SafeHolds == SafeSpec => []SafeInv
<1>1. SafeInit => SafeInv
  <2> SUFFICES ASSUME SafeInit PROVE SafeInv
    OBVIOUS
  <2>1. /\ weightMap \in WeightMaps /\ files \in UNION {[names -> ShardFiles] : names \in SUBSET ShardNames}
        /\ stage = "open" /\ shards = <<>> /\ tensors = <<>>
    BY DEF SafeInit
  <2>2. DOMAIN tensors = {} /\ tensors \in Seq(TensorRecords) /\ shards \in Seq(ShardRecords)
    BY <2>1
  <2>3. files \in [DOMAIN files -> ShardFiles] /\ DOMAIN files \subseteq ShardNames
    BY <2>1
  <2>4. SafeTypes
    BY <2>1, <2>2, <2>3 DEF SafeTypes
  <2>5. Consistent(tensors)
    BY <2>2 DEF Consistent
  <2>6. QED
    BY <2>1, <2>4, <2>5 DEF SafeInv
<1>2. SafeInv /\ [SafeNext]_safeVars => SafeInv'
  <2> SUFFICES ASSUME SafeInv, [SafeNext]_safeVars PROVE SafeInv'
    OBVIOUS
  <2>1. SafeTypes /\ Consistent(tensors)
    BY DEF SafeInv
  <2>2. ASSUME SafeFails PROVE SafeInv'
    <3>1. stage' = "failed" /\ UNCHANGED <<weightMap, files, queue, shards, tensors>>
      BY <2>2 DEF SafeFails
    <3>2. QED
      BY <2>1, <3>1 DEF SafeInv, SafeTypes, Consistent, InShard, Disjoint, Indexed
  <2>3. CASE OpenDirectory
    <3>1. CASE SafeFails
      BY <2>2, <3>1
    <3>2. CASE ~SafeFails
      <4>1. PICK names :
               /\ names \subseteq DOMAIN files
               /\ queue' \in Sorted(names, [name \in names |-> name])
               /\ stage' = "reading" /\ UNCHANGED <<weightMap, files, shards, tensors>>
        BY <2>3, <3>2 DEF OpenDirectory
      <4>2. queue' \in Seq(DOMAIN files)
        BY <2>1, <4>1, QueueOfFiles
      <4>3. SafeTypes'
        BY <2>1, <4>1, <4>2 DEF SafeTypes
      <4>4. Consistent(tensors)'
        BY <2>1, <4>1 DEF Consistent, InShard, Disjoint, Indexed
      <4>5. QED
        BY <4>1, <4>3, <4>4 DEF SafeInv
    <3>3. QED
      BY <3>1, <3>2
  <2>4. CASE ReadShard
    <3>1. CASE SafeFails
      BY <2>2, <3>1
    <3>2. CASE ~SafeFails
      <4>1. Adds(Head(queue), files[Head(queue)])
        BY <2>4, <3>2 DEF ReadShard, Adds, Read
      <4>2. PICK shard, content : Adds(shard, content)
        BY <4>1
      <4>3. SafeTypes' /\ Consistent(tensors)'
        BY <2>1, <4>2, ShardFits
      <4>4. stage' = "reading"
        BY <4>2 DEF Adds
      <4>5. QED
        BY <4>3, <4>4 DEF SafeInv
    <3>3. QED
      BY <3>1, <3>2
  <2>5. CASE Finish
    <3>1. CASE SafeFails
      BY <2>2, <3>1
    <3>2. CASE ~SafeFails
      <4>1. ~Missing /\ stage' = "accepted" /\ UNCHANGED <<weightMap, files, queue, shards>>
        BY <2>5, <3>2 DEF Finish
      <4>2. PICK order \in [1..Cardinality(DOMAIN tensors) -> DOMAIN tensors] :
               /\ Range(order) = DOMAIN tensors
               /\ \A k \in 2..Cardinality(DOMAIN tensors) :
                     tensors[order[k - 1]].name <= tensors[order[k]].name
               /\ tensors' = [k \in DOMAIN tensors |-> tensors[order[k]]]
        <5> DEFINE key == [i \in DOMAIN tensors |-> tensors[i].name]
        <5>1. PICK order \in Sorted(DOMAIN tensors, key) :
                 tensors' = [k \in DOMAIN tensors |-> tensors[order[k]]]
          BY <2>5, <3>2 DEF Finish
        <5>2. Cardinality(DOMAIN tensors) \in Nat
          <6>1. PICK n \in Nat : DOMAIN tensors = 1..n
            BY <2>1 DEF SafeTypes
          <6>2. Cardinality(1..n) \in Nat
            BY FS_Interval
          <6>3. QED
            BY <6>1, <6>2
        <5> HIDE DEF key
        <5>3. /\ order \in [1..Cardinality(DOMAIN tensors) -> DOMAIN tensors]
              /\ Range(order) = DOMAIN tensors
              /\ \A k \in 2..Cardinality(DOMAIN tensors) :
                    /\ order[k] \in DOMAIN tensors /\ order[k - 1] \in DOMAIN tensors
                    /\ key[order[k - 1]] <= key[order[k]]
          BY <5>1, <5>2, SortedBy
        <5>4. \A k \in 2..Cardinality(DOMAIN tensors) :
                 tensors[order[k - 1]].name <= tensors[order[k]].name
          BY <5>3 DEF key
        <5>5. QED
          BY <5>1, <5>3, <5>4
      <4>3. /\ tensors' \in Seq(TensorRecords) /\ Consistent(tensors)'
            /\ \A i \in 2..Len(tensors') : tensors'[i - 1].name < tensors'[i].name
            /\ \A k \in DOMAIN tensors : \E i \in DOMAIN tensors' : tensors'[i].name = tensors[k].name
        BY <2>1, <4>1, <4>2, SortKeeps
      <4>4. SafeTypes'
        BY <2>1, <4>1, <4>3 DEF SafeTypes
      <4>5. ASSUME Indexed', NEW name \in DOMAIN weightMap'
            PROVE  \E i \in DOMAIN tensors' : tensors'[i].name = name
        <5>1. PICK k \in DOMAIN tensors : tensors[k].name = name
          BY <4>1, <4>5 DEF Missing, Indexed
        <5>2. QED
          BY <4>3, <5>1
      <4>6. QED
        BY <4>3, <4>4, <4>5 DEF SafeInv
    <3>3. QED
      BY <3>1, <3>2
  <2>6. CASE UNCHANGED safeVars
    BY <2>1, <2>6 DEF safeVars, SafeInv, SafeTypes, Consistent, InShard, Disjoint, Indexed
  <2>7. QED
    BY <2>3, <2>4, <2>5, <2>6 DEF SafeNext
<1>3. QED
  BY <1>1, <1>2, PTL DEF SafeSpec

\* README.md, "validates single-file or indexed sharded snapshots": whatever the shards hold and
\* the index says, an accepted checkpoint names every tensor once, in order and in the shard
\* the index gives it to, none is missing, and their bytes lie in the shards and apart.
THEOREM IndexIsComplete == SafeSpec => []IndexComplete
<1>1. SafeInv => IndexComplete
  <2> SUFFICES ASSUME SafeInv, stage = "accepted"
               PROVE  IndexComplete
    BY DEF IndexComplete
  <2>1. /\ SafeTypes /\ Consistent(tensors)
        /\ \A i \in 2..Len(tensors) : tensors[i - 1].name < tensors[i].name
        /\ Indexed => \A name \in DOMAIN weightMap : \E i \in DOMAIN tensors : tensors[i].name = name
    BY DEF SafeInv
  <2>2. \A i \in DOMAIN tensors : i > 1 => i \in 2..Len(tensors)
    BY <2>1 DEF SafeTypes
  <2>3. \A i \in DOMAIN tensors :
           /\ i > 1 => tensors[i - 1].name < tensors[i].name
           /\ tensors[i].shard \in DOMAIN shards
           /\ shards[tensors[i].shard].dataOffset <= tensors[i].start
           /\ tensors[i].start + tensors[i].bytes <= shards[tensors[i].shard].fileLen
    BY <2>1, <2>2 DEF Consistent, InShard
  <2>4. \A i, j \in DOMAIN tensors : i # j => Disjoint(tensors[i], tensors[j])
    BY <2>1 DEF Consistent
  <2>5. ASSUME Indexed
        PROVE  weightMap = [name \in {tensors[i].name : i \in DOMAIN tensors} |->
                              LET i == CHOOSE i \in DOMAIN tensors : tensors[i].name = name
                              IN  shards[tensors[i].shard].name]
    <3> DEFINE names == {tensors[i].name : i \in DOMAIN tensors}
               place(name) == CHOOSE i \in DOMAIN tensors : tensors[i].name = name
    <3>1. weightMap \in [DOMAIN weightMap -> ShardNames]
      BY <2>1, <2>5, SafeAssumption DEF SafeTypes, Indexed
    <3>2. \A i \in DOMAIN tensors : /\ tensors[i].name \in DOMAIN weightMap
                                    /\ weightMap[tensors[i].name] = shards[tensors[i].shard].name
      BY <2>1, <2>5 DEF Consistent, InShard
    <3>3. DOMAIN weightMap = names
      <4>1. ASSUME NEW name \in DOMAIN weightMap PROVE name \in names
        BY <2>1, <2>5
      <4>2. ASSUME NEW name \in names PROVE name \in DOMAIN weightMap
        BY <3>2
      <4>3. QED
        BY <4>1, <4>2
    <3>4. \A name \in names : weightMap[name] = shards[tensors[place(name)].shard].name
      BY <3>2
    <3>5. weightMap = [name \in names |-> weightMap[name]]
      BY <3>1, <3>3
    <3>6. weightMap = [name \in names |-> shards[tensors[place(name)].shard].name]
      <4> HIDE DEF names, place
      <4>1. QED
        BY <3>4, <3>5
    <3>7. QED
      BY <3>6
  <2>6. QED
    BY <2>3, <2>4, <2>5 DEF IndexComplete, Disjoint
<1>2. QED
  BY <1>1, SafeHolds, PTL
=============================================================================
