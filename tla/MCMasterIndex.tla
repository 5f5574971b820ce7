--------------------------- MODULE MCMasterIndex ---------------------------
(* Values for the constants of MasterHistory that a cfg cannot write. *)
EXTENDS MasterHistory

\* Two files of one name differ in size if they differ in the number of
\* their documents or segments, and only then.
MCSizeOf == [b \in Body |-> 1 + Cardinality(b)]
=============================================================================
