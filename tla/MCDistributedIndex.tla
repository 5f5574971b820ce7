------------------------- MODULE MCDistributedIndex -------------------------
(* Values for the constants of DistributedIndex that a cfg cannot write. *)
EXTENDS DistributedIndex

\* Two files of one name differ in size if they differ in the number of
\* their documents or segments, and only then.
MCSizeOf == [b \in Body |-> 1 + Cardinality(b)]
=============================================================================
