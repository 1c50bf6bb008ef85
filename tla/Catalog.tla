------------------------------ MODULE Catalog ------------------------------
(***************************************************************************)
(* Removal of managed models (src/model.rs, ModelCatalog::discover and     *)
(* remove, as `diskmule rm` of src/lib.rs calls them).  Every invocation   *)
(* is a process of its own: it reads registry.json, renames the model file *)
(* to a quarantine name, writes the registry without the entry and deletes *)
(* the quarantined file.  No lock keeps two invocations apart, any of the  *)
(* steps may fail, and the process may die between two of them.            *)
(*                                                                         *)
(* A file keeps its identity under a quarantine name.  Nothing in src/     *)
(* adds an entry or a file: a registry is written by hand, so it may name  *)
(* missing or unsafe files, one file twice, or one name twice.             *)
(***************************************************************************)
EXTENDS Integers, Sequences, SequencesExt, FiniteSets

CONSTANTS
    Commands,   \* invocations of rm
    Names, NoName,
    Ollama,     \* the names Ollama's store has
    Files,      \* the regular files below the managed root
    Unsafe,     \* where a path leads that is absolute, traversing, linked or outside
    Canonical,  \* the file behind each path a registry can hold
    Registries  \* the registries somebody may have written

ASSUME CatalogAssumption ==
    /\ NoName \notin Names /\ Ollama \subseteq Names
    /\ Unsafe \notin Files
    /\ \A path \in DOMAIN Canonical : Canonical[path] \in Files \cup {Unsafe}
    /\ \A r \in Registries : r \in Seq([name : Names, path : DOMAIN Canonical])

VARIABLES
    registry,   \* registry.json
    disk,       \* the files under their own names
    quarantine, \* the files under a .diskmule-removing- name
    pc,         \* where each invocation stands
    asked,      \* the name it is to remove
    managed,    \* ModelCatalog.managed, its copy of the registry
    outcome,    \* how it ended
    written,    \* history: the registry there was in the beginning
    stored,     \* history: the files there were
    overlapped, \* history: two invocations ran at the same time
    mishap      \* history: one was killed, or could not keep, restore or delete

stores  == <<registry, disk, quarantine>>
past    == <<written, stored>>
history == <<past, overlapped, mishap>>
vars    == <<stores, pc, asked, managed, outcome, history>>

Init ==
    /\ registry \in Registries /\ written = registry
    /\ disk \in SUBSET Files /\ stored = disk
    /\ quarantine = {}
    /\ pc = [c \in Commands |-> "ready"]
    /\ asked = [c \in Commands |-> NoName]
    /\ managed = [c \in Commands |-> <<>>]
    /\ outcome = [c \in Commands |-> "none"]
    /\ overlapped = FALSE /\ mishap = FALSE

Running(c) == pc[c] \notin {"ready", "done"}

Goto(c, where) == pc' = [pc EXCEPT ![c] = where]

End(c, how) == Goto(c, "done") /\ outcome' = [outcome EXCEPT ![c] = how]
-----------------------------------------------------------------------------
\* discover: the registry is read once, and the invocation works on its copy.
Discover(c) ==
    /\ pc[c] = "ready"
    /\ \E n \in Names : asked' = [asked EXCEPT ![c] = n]
    /\ managed' = [managed EXCEPT ![c] = registry]
    /\ Goto(c, "resolve")
    /\ overlapped' = (overlapped \/ \E d \in Commands : Running(d))
    /\ UNCHANGED <<stores, outcome, past, mishap>>

\* The entries of the invocation's copy that have the name.
Matches(c) == {i \in DOMAIN managed[c] : managed[c][i].name = asked[c]}

\* The index of the one entry to remove, and the file it names.
Index(c)  == CHOOSE i \in Matches(c) : TRUE
Target(c) == Canonical[managed[c][Index(c)].path]

\* resolve: one record of this name, and not one of Ollama.  The set of loaded models
\* is empty in every invocation.
Resolves(c) == Cardinality(Matches(c)) = 1 /\ asked[c] \notin Ollama

\* validate_managed_target: a regular file below the root.
Validates(c) == Target(c) # Unsafe /\ Target(c) \in disk

\* Mutant of SharesPath: entries are told apart by their names only.
SharesName(c) ==
    \E i \in DOMAIN managed[c] \ {Index(c)} : managed[c][i].name = asked[c]

\* Another entry has the same path; the paths are compared, not the files behind them.
SharesPath(c) ==
    \E i \in DOMAIN managed[c] \ {Index(c)} : managed[c][i].path = managed[c][Index(c)].path

Resolve(c) ==
    /\ pc[c] = "resolve"
    /\ IF Resolves(c) /\ Validates(c) /\ ~SharesPath(c)
       THEN Goto(c, "quarantine") /\ UNCHANGED outcome
       ELSE End(c, "refused")
    /\ UNCHANGED <<stores, asked, managed, history>>
-----------------------------------------------------------------------------
\* Mutant of Quarantine: the file is deleted at once.
QuarantineNothing(c) ==
    /\ pc[c] = "quarantine" /\ Target(c) \in disk
    /\ disk' = disk \ {Target(c)}
    /\ Goto(c, "record")
    /\ UNCHANGED <<registry, quarantine, asked, managed, outcome, history>>

\* Mutant of Quarantine: it does not matter if the file is no longer there.
QuarantineAnyway(c) ==
    /\ pc[c] = "quarantine"
    /\ disk' = disk \ {Target(c)}
    /\ quarantine' = quarantine \cup {Target(c)}
    /\ Goto(c, "record")
    /\ UNCHANGED <<registry, asked, managed, outcome, history>>

\* quarantine_target: the file is renamed within its directory.
Quarantine(c) ==
    /\ pc[c] = "quarantine" /\ Target(c) \in disk
    /\ disk' = disk \ {Target(c)}
    /\ quarantine' = quarantine \cup {Target(c)}
    /\ Goto(c, "record")
    /\ UNCHANGED <<registry, asked, managed, outcome, history>>

\* No quarantine name can be made, or the file cannot be renamed, for one because
\* another invocation took it.
QuarantineFails(c) ==
    /\ pc[c] = "quarantine"
    /\ End(c, "failed")
    /\ UNCHANGED <<stores, asked, managed, history>>

\* The quarantine name is a temporary file until keep() makes it last.  That cannot fail on
\* unix; elsewhere, where its attributes cannot be set, the error deletes what has the name,
\* and that is the model by then.
KeepFails(c) ==
    /\ pc[c] = "quarantine" /\ Target(c) \in disk
    /\ disk' = disk \ {Target(c)}
    /\ End(c, "unkept")
    /\ mishap' = TRUE
    /\ UNCHANGED <<registry, quarantine, asked, managed, past, overlapped>>

\* Mutant of Record: the entry is taken out of the copy after the registry is written.
RecordCopy(c) ==
    /\ pc[c] = "record"
    /\ registry' = managed[c]
    /\ Goto(c, "delete")
    /\ UNCHANGED <<disk, quarantine, asked, managed, outcome, history>>

\* write_managed_registry: the copy without the entry replaces the registry in one rename.
Record(c) ==
    /\ pc[c] = "record"
    /\ registry' = RemoveAt(managed[c], Index(c))
    /\ Goto(c, "delete")
    /\ UNCHANGED <<disk, quarantine, asked, managed, outcome, history>>

\* Mutant of RecordFails: the error returns before the file is renamed back.
RecordFailsAtOnce(c) ==
    /\ pc[c] = "record"
    /\ End(c, "failed")
    /\ UNCHANGED <<stores, asked, managed, history>>

\* The registry cannot be written; the file is renamed back, and an error of that is ignored.
RecordFails(c) ==
    /\ pc[c] = "record"
    /\ \/ /\ disk' = disk \cup {Target(c)}
          /\ quarantine' = quarantine \ {Target(c)}
          /\ UNCHANGED mishap
       \/ mishap' = TRUE /\ UNCHANGED <<disk, quarantine>>
    /\ End(c, "failed")
    /\ UNCHANGED <<registry, asked, managed, past, overlapped>>

Delete(c) ==
    /\ pc[c] = "delete"
    /\ quarantine' = quarantine \ {Target(c)}
    /\ End(c, "removed")
    /\ UNCHANGED <<registry, disk, asked, managed, history>>

DeleteFails(c) ==
    /\ pc[c] = "delete"
    /\ End(c, "failed")
    /\ mishap' = TRUE
    /\ UNCHANGED <<stores, asked, managed, past, overlapped>>

\* The process is killed between two steps.  What it left is never looked at again.
Crash(c) ==
    /\ Running(c)
    /\ End(c, "crashed")
    /\ mishap' = TRUE
    /\ UNCHANGED <<stores, asked, managed, past, overlapped>>

Next == \E c \in Commands :
    \/ Discover(c) \/ Resolve(c)
    \/ Quarantine(c) \/ QuarantineFails(c) \/ KeepFails(c)
    \/ Record(c) \/ RecordFails(c)
    \/ Delete(c) \/ DeleteFails(c)
    \/ Crash(c)

Spec == Init /\ [][Next]_vars
-----------------------------------------------------------------------------
Entries == [name : Names, path : DOMAIN Canonical]

\* Another entry reaches the file by another path (through a linked directory, or in
\* another case on a file system that ignores it).
Aliased(e) ==
    \E f \in ToSet(written) : f.path # e.path /\ Canonical[f.path] = Canonical[e.path]

\* An entry no invocation was asked to remove.
Bystanders == {e \in ToSet(registry) : \A c \in Commands : asked[c] # e.name}

\* README: "Removal is intentionally strict. DiskMule refuses ... files shared by multiple
\* registry entries": an entry nobody asked to remove stays in the registry and keeps its
\* file, whatever invocations overlap, fail or are killed.
SparesOthers ==
    [][\A e \in Bystanders :
         /\ e \in ToSet(registry')
         /\ Canonical[e.path] \in disk /\ ~Aliased(e) => Canonical[e.path] \in disk']_vars

\* README: DiskMule refuses "files shared by multiple registry entries": no entry loses its
\* file to the removal of another one, whichever paths the two reach it by.
SharedFilesKept ==
    [][\A e \in Bystanders : Canonical[e.path] \in disk => Canonical[e.path] \in disk']_vars

\* The files that were deleted because their quarantine name could not be kept.
Unkept == {Target(c) : c \in {d \in Commands : outcome[d] = "unkept"}}

\* remove: the file is kept under its quarantine name until the registry has forgotten it,
\* so an invocation that fails or is killed at any point destroys no file the registry
\* still names, as long as invocations do not overlap; the one exception is a name that
\* keep() cannot make last, where the system is not unix.
ForgottenBeforeDestroyed ==
    [][\A e \in ToSet(registry') :
         ~overlapped' /\ ~Aliased(e) /\ Canonical[e.path] \in disk \cup quarantine =>
             Canonical[e.path] \in disk' \cup quarantine' \cup Unkept']_vars

\* The invocations that reported a removal.
Removers == {c \in Commands : outcome[c] = "removed"}

\* remove: an invocation that reports an error has put everything back, unless keep(), the
\* restore or the deletion itself failed: no file is missing or left under a quarantine name.
ErrorsPutBack ==
    ~overlapped /\ ~mishap /\ (\A c \in Commands : ~Running(c)) =>
        /\ quarantine = {}
        /\ stored \ disk = {Target(c) : c \in Removers}
        /\ ToSet(written) \ ToSet(registry) = {managed[c][Index(c)] : c \in Removers}

\* rm prints "Removed": the name is no longer registered and the file no longer on disk,
\* under either name, whatever later invocations do.
RemovedIsGone ==
    \A c \in Removers :
        /\ Target(c) \notin disk \cup quarantine
        /\ ~overlapped => \A e \in ToSet(registry) : e.name # asked[c]

\* The invocation holds the file of its entry under a quarantine name, or deleted it.
PastRename(c) == pc[c] \in {"record", "delete"} \/ c \in Removers

\* quarantine_target: of two invocations that remove one file, even at the same time, at
\* most one gets past the rename.
OneRemover ==
    \A c, d \in Commands : c # d /\ PastRename(c) /\ PastRename(d) => Target(c) # Target(d)
=============================================================================
