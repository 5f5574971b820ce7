----------------------------- MODULE MCIngestion ----------------------------
(***************************************************************************)
(* A small instance of the indexer process and its sources.                *)
(***************************************************************************)
EXTENDS Ingestion

\* Two versions of one document and one of another, in different partitions.
MCIdOf == <<"a", "a", "b">>
MCPartOf == [id \in {"a", "b"} |-> IF id = "a" THEN "p" ELSE "q"]

-----------------------------------------------------------------------------
\* An index is a view of the last versions of the documents of a compacted
\* topic (docs/docs/features/indexing/overview.md:95), so none is in it twice.
OneVersionPerId == source = "kafka" => \A id \in Ids : ~Doubled(disk, id)
=============================================================================
