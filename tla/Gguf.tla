-------------------------------- MODULE Gguf --------------------------------
(***************************************************************************)
(* Reading the index of a GGUF file (GgufFile::read_from_with_arrays and   *)
(* BoundedReader, src/gguf.rs).  Only the length of the file is known; its *)
(* content is whatever is read next, so every choice of a count, a key, a  *)
(* value or a tensor stands for the bytes found there.  Lengths and        *)
(* offsets are bytes; arithmetic is checked against a word as wide as Word.*)
(***************************************************************************)
EXTENDS Integers, Sequences, SequencesExt, FiniteSets, Functions, TLC

CONSTANTS
    Word,                   \* 2^64
    Lengths,                \* lengths of files
    Counts,                 \* what the two counts of the header may say
    MaxCount,               \* MAX_TENSORS and MAX_METADATA_ENTRIES
    Keys,                   \* metadata keys; "alignment" is general.alignment
    CapturedKeys,           \* the keys whose arrays are kept
    Values,                 \* metadata values [kind, word, element, count], see below
    MaxString, MaxArray, MaxCaptured, MaxCapturedBytes,  \* the limits of the values
    TensorNames, Shapes, Kinds, Offsets,  \* of the tensors
    Layout                  \* [block elements, block bytes] of the supported kinds

Product(shape) == FoldLeft(LAMBDA total, dimension : total * dimension, 1, shape)

\* Numbers in a file are not negative; nor is, therefore, the product of dimensions.
ASSUME GgufAssumption ==
    /\ Lengths \cup Offsets \subseteq Nat
    /\ \A value \in Values : value.word \in Nat /\ value.count \in Nat
    /\ \A shape \in Shapes : Len(shape) \in Nat /\ Product(shape) \in Nat
    /\ \A kind \in DOMAIN Layout : Layout[kind][1] \in Nat \ {0} /\ Layout[kind][2] \in Nat

VARIABLES
    fileLen, position,  \* of the reader
    phase,              \* "header", "entries", "tensors", "layout", "accepted" or "failed"
    entriesLeft, tensorsLeft,
    metadata,           \* key -> value
    raw,                \* the tensors as read: [name, shape, kind, offset]
    dataOffset          \* where the tensor data begins

ggufVars == <<fileLen, position, phase, entriesLeft, tensorsLeft, metadata, raw, dataOffset>>

\* BoundedReader::ensure_available.
Available(length) == position + length < Word /\ position + length <= fileLen

GgufFails ==
    /\ phase' = "failed"
    /\ UNCHANGED <<fileLen, position, entriesLeft, tensorsLeft, metadata, raw, dataOffset>>

GgufInit ==
    /\ fileLen \in Lengths /\ position = 0 /\ phase = "header"
    /\ entriesLeft = 0 /\ tensorsLeft = 0
    /\ metadata = <<>> /\ raw = <<>> /\ dataOffset = 0

\* The magic number, the version and the two counts: 4 + 4 + 8 + 8 bytes.
ReadHeader ==
    /\ phase = "header"
    /\ \E magic \in BOOLEAN, version \in 1..4, tensorCount, entryCount \in Counts :
         IF Available(24) /\ magic /\ version \in {2, 3}
               /\ tensorCount <= MaxCount /\ entryCount <= MaxCount
         THEN /\ phase' = "entries" /\ position' = 24
              /\ entriesLeft' = entryCount /\ tensorsLeft' = tensorCount
              /\ UNCHANGED <<fileLen, metadata, raw, dataOffset>>
         ELSE GgufFails

-----------------------------------------------------------------------------
(* Metadata.  kind 7 is a BOOL, 8 a string of `word` bytes, 9 an array of  *)
(* `count` elements of kind `element`; the elements of an array of strings *)
(* have `word` bytes, those of an array of BOOLs are `word`.               *)

ScalarBytes(kind) ==
    CASE kind \in {0, 1, 7} -> 1
      [] kind \in {2, 3} -> 2
      [] kind \in {4, 5, 6} -> 4
      [] kind \in {10, 11, 12} -> 8
      [] OTHER -> 0

ValueBytes(value) ==
    CASE value.kind = 8 -> 8 + value.word
      [] value.kind = 9 ->
           12 + value.count * (IF value.element = 8 THEN 8 + value.word
                               ELSE ScalarBytes(value.element))
      [] OTHER -> ScalarBytes(value.kind)

\* read_metadata_array: what a captured array may hold; a String object is 24 bytes.
OverBudget(value) ==
    \/ value.count > MaxCaptured
    \/ value.count * (IF value.element = 8 THEN 24 + value.word ELSE ScalarBytes(value.element))
         > MaxCapturedBytes

\* read_metadata_value and skip_metadata_value: the element kind of an array that is
\* skipped is only looked at when there is an element.
BadValue(key, value) ==
    \/ value.kind \notin 0..12
    \/ value.kind = 7 /\ value.word > 1
    \/ value.kind = 8 /\ value.word > MaxString
    \/ /\ value.kind = 9
       /\ \/ value.element = 9
          \/ value.count > MaxArray
          \/ /\ value.count > 0 \/ key \in CapturedKeys
             /\ value.element \notin 0..12
          \/ /\ value.count > 0
             /\ \/ value.element = 7 /\ value.word > 1
                \/ value.element = 8 /\ value.word > MaxString
          \/ key \in CapturedKeys /\ OverBudget(value)

\* One metadata entry; keys are one byte long here.
ReadEntry ==
    /\ phase = "entries" /\ entriesLeft > 0
    /\ \E key \in Keys, value \in Values :
         LET length == 8 + 1 + 4 + ValueBytes(value) IN
         IF Available(length) /\ ~BadValue(key, value) /\ key \notin DOMAIN metadata
         THEN /\ position' = position + length
              /\ entriesLeft' = entriesLeft - 1
              /\ metadata' = [k \in DOMAIN metadata \cup {key} |->
                               IF k = key THEN value ELSE metadata[k]]
              /\ UNCHANGED <<fileLen, phase, tensorsLeft, raw, dataOffset>>
         ELSE GgufFails

\* general.alignment, 32 by default; zero stands for a value of another type.
Alignment ==
    IF "alignment" \notin DOMAIN metadata THEN 32
    ELSE IF metadata["alignment"].kind = 4 THEN metadata["alignment"].word
    ELSE 0

\* is_power_of_two; 2^31 is beyond the integers of TLC.
PowerOfTwo(n) == \E e \in 0..30 : n = 2 ^ e

EndEntries ==
    /\ phase = "entries" /\ entriesLeft = 0
    /\ IF Alignment # 0 /\ PowerOfTwo(Alignment)
       THEN /\ phase' = "tensors"
            /\ UNCHANGED <<fileLen, position, entriesLeft, tensorsLeft, metadata, raw, dataOffset>>
       ELSE GgufFails

-----------------------------------------------------------------------------
(* Tensors.                                                                *)

\* tensor_byte_len, where it is defined: whole blocks, rounded down for a shape without
\* dimensions.
Length(shape, kind) == (Product(shape) \div Layout[kind][1]) * Layout[kind][2]

BadLength(shape, kind) ==
    \/ Product(shape) >= Word
    \/ shape # <<>> /\ shape[1] % Layout[kind][1] # 0
    \/ Length(shape, kind) >= Word

\* The entry of one tensor; names are one byte long here.
ReadTensor ==
    /\ phase = "tensors" /\ tensorsLeft > 0
    /\ \E name \in TensorNames, shape \in Shapes, kind \in Kinds, offset \in Offsets :
         LET length == 8 + 1 + 4 + 8 * Len(shape) + 4 + 8 IN
         IF /\ Available(length)
            /\ \A i \in DOMAIN raw : raw[i].name # name
            /\ Len(shape) <= 4 /\ 0 \notin Range(shape)
            /\ kind \in DOMAIN Layout /\ ~BadLength(shape, kind)
         THEN /\ position' = position + length
              /\ tensorsLeft' = tensorsLeft - 1
              /\ raw' = Append(raw, [name |-> name, shape |-> shape, kind |-> kind,
                                     offset |-> offset])
              /\ UNCHANGED <<fileLen, phase, entriesLeft, metadata, dataOffset>>
         ELSE GgufFails

\* align_up.
AlignUp(n) == ((n + Alignment - 1) \div Alignment) * Alignment

EndTensors ==
    /\ phase = "tensors" /\ tensorsLeft = 0
    /\ IF position + Alignment - 1 < Word /\ AlignUp(position) <= fileLen
       THEN /\ phase' = "layout" /\ dataOffset' = AlignUp(position)
            /\ UNCHANGED <<fileLen, position, entriesLeft, tensorsLeft, metadata, raw>>
       ELSE GgufFails

TensorStart(tensor) == dataOffset + tensor.offset
TensorEnd(tensor) == TensorStart(tensor) + Length(tensor.shape, tensor.kind)

\* Alignment, overflow and bounds of one tensor.
Misplaced(tensor) ==
    \/ tensor.offset % Alignment # 0
    \/ TensorStart(tensor) >= Word \/ TensorEnd(tensor) >= Word
    \/ TensorEnd(tensor) > fileLen

\* Mutant of Overlapping: only an equal beginning is an overlap.
OverlappingAtStart(order) ==
    \E i \in 2..Len(order) : TensorStart(raw[order[i]]) = TensorStart(raw[order[i - 1]])

\* validate_non_overlapping: the tensors in the order of their offsets.
Overlapping(order) ==
    \E i \in 2..Len(order) : TensorStart(raw[order[i]]) < TensorEnd(raw[order[i - 1]])

\* The sort is unstable: tensors of one offset come in any order.
Orders ==
    {order \in [DOMAIN raw -> DOMAIN raw] :
        /\ Range(order) = DOMAIN raw
        /\ \A i \in 2..Len(raw) : TensorStart(raw[order[i - 1]]) <= TensorStart(raw[order[i]])}

\* The rest of read_from_with_arrays.
Validate ==
    /\ phase = "layout"
    /\ \E order \in Orders :
         IF (\A i \in DOMAIN raw : ~Misplaced(raw[i])) /\ ~Overlapping(order)
         THEN /\ phase' = "accepted"
              /\ UNCHANGED <<fileLen, position, entriesLeft, tensorsLeft, metadata, raw,
                             dataOffset>>
         ELSE GgufFails

GgufNext ==
    ReadHeader \/ ReadEntry \/ EndEntries \/ ReadTensor \/ EndTensors \/ Validate

GgufSpec == GgufInit /\ [][GgufNext]_ggufVars
-----------------------------------------------------------------------------
\* CONTRIBUTING_MODELS.md, "Reject missing, duplicate, truncated, overlapping, unaligned":
\* the reader never passes the end of the file, and the tensors of an accepted file have
\* different names and lie aligned, inside the file, behind the index and apart from each
\* other.
TensorsInPlace ==
    /\ position <= fileLen
    /\ phase = "accepted" =>
         /\ \A i \in DOMAIN raw :
              /\ TensorStart(raw[i]) % Alignment = 0
              /\ position <= TensorStart(raw[i]) /\ TensorStart(raw[i]) <= fileLen
              /\ TensorEnd(raw[i]) <= fileLen
         /\ \A i, j \in DOMAIN raw :
              i # j => raw[i].name # raw[j].name
                       /\ (TensorEnd(raw[i]) <= TensorStart(raw[j]) \/ TensorEnd(raw[j]) <= TensorStart(raw[i]))
=============================================================================
