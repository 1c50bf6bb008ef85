---------------------------- MODULE MCModelStore ----------------------------
(***************************************************************************)
(* Models on disk, composed and made small for TLC: a managed model is     *)
(* removed, the tensor files of a model are indexed and read, and a model  *)
(* is opened.  The parts share no state, so a behaviour is one of one part.*)
(***************************************************************************)
EXTENDS MCCatalog, Gguf, SafeTensors, TensorReads, MCModelLoading

VARIABLE part  \* the part of the behaviour

storeVars == <<part, vars, ggufVars, safeVars, readVars, loadVars>>

NoCatalog ==
    /\ registry = <<>> /\ disk = {} /\ quarantine = {}
    /\ pc = [c \in Commands |-> "done"]
    /\ asked = [c \in Commands |-> NoName]
    /\ managed = [c \in Commands |-> <<>>]
    /\ outcome = [c \in Commands |-> "none"]
    /\ written = registry /\ stored = disk
    /\ overlapped = FALSE /\ mishap = FALSE

NoGguf ==
    /\ fileLen = 0 /\ position = 0 /\ phase = "none"
    /\ entriesLeft = 0 /\ tensorsLeft = 0
    /\ metadata = <<>> /\ raw = <<>> /\ dataOffset = 0

NoSafeTensors ==
    /\ weightMap = NoIndex /\ files = <<>> /\ stage = "none"
    /\ queue = <<>> /\ shards = <<>> /\ tensors = <<>>

NoReads ==
    /\ handle = [positional |-> TRUE, retries |-> TRUE] /\ size = 0 /\ cursor = 0
    /\ request = <<>> /\ at = [r \in Readers |-> "idle"] /\ got = <<>> /\ interrupts = 0

NoModel == candidate = <<>> /\ progress = "none" /\ layer = 0 /\ inferred = {}

StoreInit ==
    \/ part = "catalog" /\ Init /\ NoGguf /\ NoSafeTensors /\ NoReads /\ NoModel
    \/ part = "gguf" /\ GgufInit /\ NoCatalog /\ NoSafeTensors /\ NoReads /\ NoModel
    \/ part = "safetensors" /\ SafeInit /\ NoCatalog /\ NoGguf /\ NoReads /\ NoModel
    \/ part = "reads" /\ ReadsInit /\ NoCatalog /\ NoGguf /\ NoSafeTensors /\ NoModel
    \/ part = "loading" /\ LoadInit /\ NoCatalog /\ NoGguf /\ NoSafeTensors /\ NoReads

StoreNext ==
    \/ part = "catalog" /\ Next /\ UNCHANGED <<part, ggufVars, safeVars, readVars, loadVars>>
    \/ part = "gguf" /\ GgufNext /\ UNCHANGED <<part, vars, safeVars, readVars, loadVars>>
    \/ part = "safetensors" /\ SafeNext /\ UNCHANGED <<part, vars, ggufVars, readVars, loadVars>>
    \/ part = "reads" /\ ReadsNext /\ UNCHANGED <<part, vars, ggufVars, safeVars, loadVars>>
    \/ part = "loading" /\ LoadNext /\ UNCHANGED <<part, vars, ggufVars, safeVars, readVars>>

StoreSpec == StoreInit /\ [][StoreNext]_storeVars

-----------------------------------------------------------------------------
(* The instance: reads.                                                    *)

CONSTANTS r1, r2

TwoReaders == {r1, r2}

\* Two tensors of two bytes behind an index of one, the second ending the file.
TwoTensors == [gate |-> [start |-> 1, bytes |-> 2], down |-> [start |-> 3, bytes |-> 2]]

Asked ==
    {[tensor |-> "gate", offset |-> o, bytes |-> n] : o \in 0..2, n \in 1..2}
    \union {[tensor |-> "down", offset |-> 0, bytes |-> n] : n \in {0, 2, 3}}
    \union {[tensor |-> "lost", offset |-> 0, bytes |-> 1]}

\* src/gguf.rs and src/safetensors.rs on unix, and both elsewhere.
AnyHandle ==
    {[positional |-> TRUE, retries |-> TRUE], [positional |-> TRUE, retries |-> FALSE],
     [positional |-> FALSE, retries |-> TRUE]}

-----------------------------------------------------------------------------
(* The instance: containers.                                               *)

\* kinds 0 (F32), 2 (Q4_0) and 12 (Q4_K) of src/gguf.rs; 9 is not supported.
Blocks == (0 :> <<1, 4>>) @@ (2 :> <<32, 18>>) @@ (12 :> <<256, 144>>)

\* A value of each way through the reader and each of its limits.
Scalar(kind, word) == [kind |-> kind, word |-> word, element |-> 0, count |-> 0]
ArrayOf(element, count, word) == [kind |-> 9, word |-> word, element |-> element, count |-> count]

SomeValues ==
    {Scalar(4, 16), Scalar(4, 0), Scalar(4, 24), Scalar(7, 2), Scalar(8, 3), Scalar(8, 9),
     Scalar(13, 0), ArrayOf(9, 0, 0), ArrayOf(13, 0, 0), ArrayOf(4, 2, 0), ArrayOf(8, 2, 3),
     ArrayOf(5, 4, 0), ArrayOf(8, 1, 3), ArrayOf(7, 1, 2)}

SomeShapes == {<<>>, <<0>>, <<8>>, <<32>>, <<16, 2>>, <<64, 64, 2>>, <<1, 1, 1, 1, 1>>}

-----------------------------------------------------------------------------
Entry(name, dtype, shape, start, end) ==
    [name |-> name, dtype |-> dtype, shape |-> shape, start |-> start, end |-> end]

Bytes == [F32 |-> 4, U8 |-> 1]

\* Shards right and wrong: one tensor, two, two in the other order, overlapping in and out of
\* order, empty, doubled, too short, of a wrong length, a type without a width.
Contents(fileBytes, headerBytes, entries) ==
    [fileLen |-> fileBytes, headerLen |-> headerBytes, entries |-> entries]

SomeShards ==
    {Contents(16, 4, <<Entry(1, "F32", <<1>>, 0, 4)>>),
     Contents(16, 4, <<Entry(2, "U8", <<2, 2>>, 0, 4)>>),
     Contents(14, 4, <<Entry(1, "U8", <<2>>, 0, 2)>>),
     Contents(16, 4, <<Entry(2, "U8", <<1>>, 3, 4), Entry(1, "U8", <<3>>, 0, 3)>>),
     Contents(16, 4, <<Entry(1, "U8", <<3>>, 0, 3), Entry(2, "U8", <<2>>, 2, 4)>>),
     Contents(16, 4, <<Entry(1, "U8", <<2>>, 1, 3), Entry(3, "U8", <<0>>, 2, 2)>>),
     Contents(16, 4, <<Entry(2, "U8", <<1>>, 0, 1), Entry(2, "U8", <<1>>, 1, 2)>>),
     Contents(15, 4, <<Entry(1, "F32", <<1>>, 0, 4)>>),
     Contents(16, 4, <<Entry(1, "F32", <<1>>, 0, 3)>>),
     Contents(16, 4, <<Entry(1, "F32", <<1>>, 4, 0)>>),
     Contents(16, 4, <<Entry(1, "I4", <<1>>, 0, 1)>>),
     Contents(40, 4, <<Entry(1, "F32", <<8, 8>>, 0, 4)>>),
     Contents(16, 4, <<Entry(1, "U8", <<1, 1, 1, 1>>, 0, 1)>>),
     Contents(16, 4, <<Entry(1, "U8", <<16, 16, 0>>, 0, 0)>>),
     Contents(16, 9, <<>>), Contents(16, 4, <<>>), Contents(9, 4, <<>>)}

\* No index, an empty one, or one for one to three tensors in any shards; shard 3 is a path.
SomeMaps ==
    {NoIndex} \union UNION {[names -> 1..3] : names \in {{}, {1}, {1, 2}, {1, 3}, {1, 2, 3}}}
=============================================================================
