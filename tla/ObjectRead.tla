----------------------------- MODULE ObjectRead -----------------------------
(***************************************************************************)
(* S3Client.getObjectParallel, which reads a large object in parts: ranges *)
(* of bytes of one size, fetched into temporary files by several fibers    *)
(* and put together in order.                                              *)
(***************************************************************************)
EXTENDS Integers, Sequences, FiniteSets, FiniteSetsExt

CONSTANTS
  MaxSize,   \* bound: bytes of an object
  Threads    \* parts that are fetched at once

ASSUME ObjectReadAssumption == MaxSize \in Nat \ {0} /\ Threads \in Nat \ {0}

VARIABLES
  size,      \* of the object
  chunk,     \* size of a part, the quotient of two rounded numbers: any
  fetched,   \* parts that are in a temporary file
  emitted,   \* parts that are in the stream
  bytes,     \* the stream so far
  ended      \* "no", "done" or "failed"

objectVars == <<size, chunk, fetched, emitted, bytes, ended>>

Smaller(a, b) == IF a < b THEN a ELSE b

\* The ends of the parts: 0L.until(size + chunkSize, step = chunkSize), none beyond the
\* object; a part is between two of them.
Ends == (size + chunk - 1) \div chunk + 1
\* Mutant: the last part is not cut.
EndOfWhole(i) == i * chunk

EndOf(i) == Smaller(i * chunk, size)
Parts == 1..(Ends - 1)
BytesOf(i) == [n \in 1..(EndOf(i) - EndOf(i - 1)) |-> EndOf(i - 1) + n - 1]

ObjectInit ==
  /\ size \in 1..MaxSize /\ chunk \in 1..MaxSize
  /\ fetched = {} /\ emitted = 0 /\ bytes = <<>> /\ ended = "no"

\* parEvalMap keeps at most so many requests ahead of the stream.
FetchPart ==
  /\ ended = "no"
  /\ \E i \in Parts \ fetched : i <= emitted + Threads /\ fetched' = fetched \cup {i}
  /\ UNCHANGED <<size, chunk, emitted, bytes, ended>>

EmitPart ==
  /\ ended = "no" /\ emitted + 1 \in fetched
  /\ emitted' = emitted + 1
  /\ bytes' = bytes \o BytesOf(emitted + 1)
  /\ UNCHANGED <<size, chunk, fetched, ended>>

\* A request fails, and with it the stream.
ReadFails ==
  /\ ended = "no" /\ Parts \ fetched # {}
  /\ ended' = "failed"
  /\ UNCHANGED <<size, chunk, fetched, emitted, bytes>>

ReadEnds ==
  /\ ended = "no" /\ emitted = Ends - 1
  /\ ended' = "done"
  /\ UNCHANGED <<size, chunk, fetched, emitted, bytes>>

ObjectNext == FetchPart \/ EmitPart \/ ReadFails \/ ReadEnds

ObjectSpec == ObjectInit /\ [][ObjectNext]_objectVars

-----------------------------------------------------------------------------
\* The stream is always a beginning of the object, whatever order its parts
\* arrive in, and all of it if it does not fail.
ReadsTheObject ==
  /\ bytes = [n \in 1..Len(bytes) |-> n - 1]
  /\ Len(bytes) <= size
  /\ ended = "done" => Len(bytes) = size
=============================================================================
