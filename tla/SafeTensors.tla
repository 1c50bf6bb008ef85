----------------------------- MODULE SafeTensors -----------------------------
(***************************************************************************)
(* Opening a safetensors checkpoint (SafeTensorIndex::open, src/           *)
(* safetensors.rs): one file, a directory with an index that names the     *)
(* shard of every tensor, or a directory whose shards are listed.  The     *)
(* shards are read one after the other, in the order of their names.       *)
(***************************************************************************)
EXTENDS Integers, Sequences, SequencesExt, FiniteSets, Functions

CONSTANTS
    SafeWord,       \* 2^64
    ShardNames,     \* the names of files, in their order: 1..n
    SafeNames,      \* those validate_shard_name lets pass: a plain name, no path
    NoIndex,        \* the directory has no index, or the path is a file
    ShardFiles,     \* what a shard may hold: [fileLen, headerLen, entries]
    Widths,         \* [dtype -> byte width] of the supported types
    MaxHeader,      \* MAX_HEADER_BYTES
    WeightMaps,     \* the weight maps an index may have, and NoIndex
    MaxShards, MaxRank  \* MAX_SHARDS, MAX_DIMENSIONS

\* Names are numbers, so that they have an order; the numbers of a header are unsigned.
ASSUME SafeAssumption ==
    /\ IsFiniteSet(ShardNames)
    /\ \A content \in ShardFiles :
         /\ content.fileLen \in Nat /\ content.headerLen \in Nat
         /\ content.entries \in Seq([name : Nat, dtype : STRING, shape : Seq(Nat),
                                     start : Nat, end : Nat])
    /\ \A map \in WeightMaps \ {NoIndex} : map \in [DOMAIN map -> ShardNames]

VARIABLES
    weightMap,  \* name of a tensor -> shard name, or NoIndex
    files,      \* shard name -> content, for the shards that exist
    stage,      \* "open", "reading", "accepted" or "failed"
    queue,      \* the shards still to read
    shards,     \* the shards read: [name, dataOffset, fileLen]
    tensors     \* their tensors: [name, shard, start, bytes]

safeVars == <<weightMap, files, stage, queue, shards, tensors>>

SafeFails == stage' = "failed" /\ UNCHANGED <<weightMap, files, queue, shards, tensors>>

SafeInit ==
    /\ weightMap \in WeightMaps
    /\ files \in UNION {[names -> ShardFiles] : names \in SUBSET ShardNames}
    /\ stage = "open" /\ queue = <<>> /\ shards = <<>> /\ tensors = <<>>

Indexed == weightMap # NoIndex

\* What a sort by a key may make of a set: each once, and none behind one with a greater key.
Sorted(S, key) ==
    {order \in [1..Cardinality(S) -> S] :
        /\ Range(order) = S
        /\ \A k \in 2..Cardinality(S) : key[order[k - 1]] <= key[order[k]]}

\* SafeTensorIndex::open: the shards the index names, or those in the directory.
OpenDirectory ==
    /\ stage = "open"
    /\ LET names == IF Indexed THEN Range(weightMap) ELSE DOMAIN files IN
       IF \/ ~Indexed /\ names = {}
          \/ Cardinality(names) > MaxShards
          \/ Indexed /\ ~(names \subseteq SafeNames \intersect DOMAIN files)
       THEN SafeFails
       ELSE /\ stage' = "reading"
            /\ queue' \in Sorted(names, [name \in names |-> name])
            /\ UNCHANGED <<weightMap, files, shards, tensors>>

-----------------------------------------------------------------------------
(* The header of one shard: entries is a sequence of [name, dtype, shape,  *)
(* start, end], offsets relative to the data.                              *)

Elements(shape) == FoldLeft(LAMBDA total, dimension : total * dimension, 1, shape)

\* The checks of one entry, for a payload of `payload` bytes.  The product is checked factor
\* by factor: a dimension of zero behind an overflow comes too late.
BadEntry(entry, payload) ==
    \/ entry.dtype \notin DOMAIN Widths \/ Len(entry.shape) > MaxRank
    \/ \E n \in DOMAIN entry.shape : Elements(SubSeq(entry.shape, 1, n)) >= SafeWord
    \/ Elements(entry.shape) * Widths[entry.dtype] >= SafeWord
    \/ entry.end < entry.start
    \/ entry.end - entry.start # Elements(entry.shape) * Widths[entry.dtype]
    \/ entry.end > payload

\* Mutant of Overlaps: only an equal beginning is an overlap.
OverlapsAtStart(entries) ==
    \E i, j \in DOMAIN entries : i # j /\ entries[i].start = entries[j].start

\* The ranges that are not empty, by their beginning; two of one beginning overlap in
\* whatever order they come.
Overlaps(entries) ==
    LET held == {i \in DOMAIN entries : entries[i].end > entries[i].start}
    IN  \A order \in Sorted(held, [i \in held |-> entries[i].start]) :
          \E k \in 2..Cardinality(held) : entries[order[k - 1]].end > entries[order[k]].start

\* read_shard_header refuses the shard.
BadShard(content) ==
    \/ content.headerLen > MaxHeader
    \/ 8 + content.headerLen > content.fileLen
    \/ \E i, j \in DOMAIN content.entries :
         i # j /\ content.entries[i].name = content.entries[j].name
    \/ \E i \in DOMAIN content.entries :
         BadEntry(content.entries[i], content.fileLen - 8 - content.headerLen)
    \/ Overlaps(content.entries)

\* The tensor is known already, or the index gives it to another shard or to none.
Unexpected(name, shard) ==
    \/ \E i \in DOMAIN tensors : tensors[i].name = name
    \/ Indexed /\ (name \notin DOMAIN weightMap \/ weightMap[name] # shard)

\* One iteration of from_shard_paths.
ReadShard ==
    /\ stage = "reading" /\ queue # <<>>
    /\ LET shard   == Head(queue)
           content == files[shard]
           entries == content.entries
       IN  IF BadShard(content) \/ \E i \in DOMAIN entries : Unexpected(entries[i].name, shard)
           THEN SafeFails
           ELSE /\ queue' = Tail(queue)
                /\ shards' = Append(shards, [name |-> shard, fileLen |-> content.fileLen,
                                             dataOffset |-> 8 + content.headerLen])
                /\ tensors' = tensors \o [i \in DOMAIN entries |->
                       [name |-> entries[i].name, shard |-> Len(shards) + 1,
                        start |-> 8 + content.headerLen + entries[i].start,
                        bytes |-> entries[i].end - entries[i].start]]
                /\ UNCHANGED <<weightMap, files, stage>>

\* Mutant of Missing: the index is trusted.
MissingIgnored == FALSE

\* A tensor of the index that no shard had.
Missing == Indexed /\ ~(DOMAIN weightMap \subseteq {tensors[i].name : i \in DOMAIN tensors})

\* The end of from_shard_paths: the tensors by name.
Finish ==
    /\ stage = "reading" /\ queue = <<>>
    /\ IF Missing THEN SafeFails
       ELSE /\ stage' = "accepted"
            /\ \E order \in Sorted(DOMAIN tensors, [i \in DOMAIN tensors |-> tensors[i].name]) :
                 tensors' = [k \in DOMAIN tensors |-> tensors[order[k]]]
            /\ UNCHANGED <<weightMap, files, queue, shards>>

SafeNext == OpenDirectory \/ ReadShard \/ Finish

SafeSpec == SafeInit /\ [][SafeNext]_safeVars
-----------------------------------------------------------------------------
\* README.md, "validates single-file or indexed sharded snapshots": the index of an accepted
\* checkpoint names every tensor once and in order, each in the shard the weight map says
\* and none beyond it, and the bytes of the tensors of a shard lie in its data and apart.
IndexComplete ==
    stage = "accepted" =>
        /\ \A i \in DOMAIN tensors : LET t == tensors[i] IN
             /\ i > 1 => tensors[i - 1].name < t.name
             /\ t.shard \in DOMAIN shards
             /\ shards[t.shard].dataOffset <= t.start
             /\ t.start + t.bytes <= shards[t.shard].fileLen
        /\ \A i, j \in DOMAIN tensors : LET t == tensors[i] u == tensors[j] IN
             i # j /\ t.shard = u.shard /\ t.bytes > 0 /\ u.bytes > 0 =>
                t.start + t.bytes <= u.start \/ u.start + u.bytes <= t.start
        /\ Indexed => weightMap = [name \in {tensors[i].name : i \in DOMAIN tensors} |->
                          LET i == CHOOSE i \in DOMAIN tensors : tensors[i].name = name
                          IN  shards[tensors[i].shard].name]
=============================================================================
