----------------------------- MODULE TensorReads -----------------------------
(***************************************************************************)
(* Reads of parts of tensors by several threads through one descriptor     *)
(* (TensorSource::read_tensor_at and read_exact_at, src/gguf.rs; the same  *)
(* in src/safetensors.rs).  A read may be short, be interrupted, or find   *)
(* that another process has shortened the file.  A byte is the position it *)
(* was read from.                                                          *)
(***************************************************************************)
EXTENDS Integers, Sequences, SequencesExt

CONSTANTS
    Readers,
    Ranges,       \* the tensors of the accepted index: name -> [start, bytes]
    Requests,     \* [tensor, offset, bytes]; a tensor may be unknown
    Handles,      \* how files are read: a set of the records below
    FileBytes,    \* the length of the file when it was opened
    MaxInterrupts \* a bound: signals

ASSUME ReadsAssumption ==
    /\ FileBytes \in Nat
    /\ \A t \in DOMAIN Ranges : Ranges[t].start \in Nat /\ Ranges[t].bytes \in Nat
    /\ \A q \in Requests : q.offset \in Nat /\ q.bytes \in Nat

VARIABLES
    handle,      \* positional: read_at of unix, else a clone that shares the file's cursor;
                 \* retries: an interrupted read is tried again, as all but src/safetensors.rs
                 \* on unix do
    size,        \* the length of the file now
    cursor,      \* the position the handles share
    request,     \* the request of a reader
    at,          \* "idle", "seek", "read", "done" or "failed"
    got,         \* the bytes a reader has
    interrupts   \* signals so far

readVars == <<handle, size, cursor, request, at, got, interrupts>>

ReadsInit ==
    /\ handle \in Handles
    /\ size = FileBytes /\ cursor = 0 /\ interrupts = 0
    /\ request = [r \in Readers |-> <<>>]
    /\ at = [r \in Readers |-> "idle"]
    /\ got = [r \in Readers |-> <<>>]

\* Mutant of OutOfBounds: the end may pass the tensor by one.
OutOfBoundsLate(q) ==
    q.tensor \notin DOMAIN Ranges \/ q.offset + q.bytes > Ranges[q.tensor].bytes + 1

\* The checks before any I/O: an unknown tensor, or an end behind its bytes.
OutOfBounds(q) ==
    q.tensor \notin DOMAIN Ranges \/ q.offset + q.bytes > Ranges[q.tensor].bytes

\* read_tensor_at.
BeginRead(r) ==
    /\ at[r] = "idle"
    /\ \E q \in Requests :
         /\ request' = [request EXCEPT ![r] = q]
         /\ at' = [at EXCEPT ![r] = IF OutOfBounds(q) THEN "failed"
                                    ELSE IF handle.positional THEN "read" ELSE "seek"]
    /\ UNCHANGED <<handle, size, cursor, got, interrupts>>

\* The first byte still to read.
Wanted(r) == Ranges[request[r].tensor].start + request[r].offset + Len(got[r])
Left(r) == request[r].bytes - Len(got[r])

\* Without read_at: a seek of the cloned handle.
Seek(r) ==
    /\ at[r] = "seek"
    /\ cursor' = Wanted(r)
    /\ at' = [at EXCEPT ![r] = "read"]
    /\ UNCHANGED <<handle, size, request, got, interrupts>>

\* A successful read of some of the bytes; none at the end of the file.
ReadSome(r) ==
    /\ at[r] = "read" /\ Left(r) > 0
    /\ LET from == IF handle.positional THEN Wanted(r) ELSE cursor
           most == Min({Left(r), size - from})
       IN  IF most <= 0
           THEN /\ at' = [at EXCEPT ![r] = "failed"]
                /\ UNCHANGED <<cursor, got>>
           ELSE \E n \in 1..most :
                /\ got' = [got EXCEPT ![r] = @ \o [i \in 1..n |-> from + i - 1]]
                /\ cursor' = IF handle.positional THEN cursor ELSE from + n
                /\ UNCHANGED at
    /\ UNCHANGED <<handle, size, request, interrupts>>

Interrupted(r) ==
    /\ at[r] = "read" /\ Left(r) > 0 /\ interrupts < MaxInterrupts
    /\ interrupts' = interrupts + 1
    /\ at' = [at EXCEPT ![r] = IF handle.retries THEN "read" ELSE "failed"]
    /\ UNCHANGED <<handle, size, cursor, request, got>>

EndRead(r) ==
    /\ at[r] = "read" /\ Left(r) = 0
    /\ at' = [at EXCEPT ![r] = "done"]
    /\ UNCHANGED <<handle, size, cursor, request, got, interrupts>>

\* Another process shortens the file.
Truncate ==
    /\ size = FileBytes
    /\ \E n \in 0..(FileBytes - 1) : size' = n
    /\ UNCHANGED <<handle, cursor, request, at, got, interrupts>>

ReadsNext ==
    Truncate \/ \E r \in Readers : BeginRead(r) \/ Seek(r) \/ ReadSome(r) \/ Interrupted(r) \/ EndRead(r)

ReadsSpec == ReadsInit /\ [][ReadsNext]_readVars
-----------------------------------------------------------------------------
\* A reader that is done has the bytes it asked for, all of them of its tensor.
Exact(r) ==
    LET q == request[r]
        t == Ranges[q.tensor]
    IN  /\ got[r] = [i \in 1..q.bytes |-> t.start + q.offset + i - 1]
        /\ \A i \in DOMAIN got[r] : got[r][i] \in t.start..(t.start + t.bytes - 1)

\* src/gguf.rs:607, "The file descriptor is shared safely between readers and every request
\* is checked against the tensor's declared byte range": whatever others read meanwhile, a
\* positional read that succeeds delivers the bytes of its request.
ReadsExact ==
    handle.positional => \A r \in Readers : at[r] = "done" => Exact(r)
=============================================================================
