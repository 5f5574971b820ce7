----------------------------- MODULE Documents ------------------------------
(***************************************************************************)
(* The documents an Indexer (Indexer.scala) keeps in its Lucene            *)
(* IndexWriter, and those of the last commit.  addDocuments embeds a batch,*)
(* deletes every document with an id of the batch and adds the batch: two  *)
(* calls of the writer, between which other fibers flush, delete and add.  *)
(***************************************************************************)
EXTENDS Versions, Sequences, FiniteSets

CONSTANT Callers  \* fibers that call addDocuments

VARIABLES
  live,     \* [Version -> Nat], copies a reader of the writer would find
  disk,     \* [Version -> Nat], copies in the last commit
  batch,    \* [Callers -> Seq(Version)], what addDocuments was called with
  step      \* [Callers -> Steps], how far that call is

docVars == <<live, disk, batch, step>>

Steps == {"idle", "embed", "add"}

DocumentsTypeOK ==
  /\ live \in [Version -> Nat] /\ disk \in [Version -> Nat]
  /\ batch \in [Callers -> Seq(Version)]
  /\ step \in [Callers -> Steps]

DocumentsInit ==
  /\ live = [v \in Version |-> 0] /\ disk = live
  /\ batch = [c \in Callers |-> <<>>]
  /\ step = [c \in Callers |-> "idle"]

-----------------------------------------------------------------------------
InBatch(c) == {batch[c][i] : i \in DOMAIN batch[c]}

BatchIds(c) == {IdOf[v] : v \in InBatch(c)}

Copies(v, docs) == Cardinality({i \in DOMAIN docs : docs[i] = v})

\* The versions of an id that an index holds.
Held(index, id) == {v \in Version : IdOf[v] = id /\ index[v] > 0}

\* More than one document of the index has this id.
Doubled(index, id) ==
  \E v \in Held(index, id) : index[v] > 1 \/ Held(index, id) # {v}

Without(index, ids) == [v \in Version |-> IF IdOf[v] \in ids THEN 0 ELSE index[v]]

\* The call is between its two calls of the writer.
InGap(c) == step[c] = "add"

Return(c) == /\ step' = [step EXCEPT ![c] = "idle"]
             /\ batch' = [batch EXCEPT ![c] = <<>>]

-----------------------------------------------------------------------------
AddDocuments(c, docs) ==
  /\ step[c] = "idle"
  /\ step' = [step EXCEPT ![c] = "embed"]
  /\ batch' = [batch EXCEPT ![c] = docs]
  /\ UNCHANGED <<live, disk>>

\* Mutant: nothing is deleted.
DeleteNothing(c) ==
  /\ step[c] = "embed"
  /\ step' = [step EXCEPT ![c] = "add"]
  /\ UNCHANGED <<live, disk, batch>>

\* The embeddings have arrived.
DeleteOld(c) ==
  /\ step[c] = "embed"
  /\ live' = Without(live, BatchIds(c))
  /\ step' = [step EXCEPT ![c] = "add"]
  /\ UNCHANGED <<disk, batch>>

AddNew(c) ==
  /\ step[c] = "add"
  /\ live' = [v \in Version |-> live[v] + Copies(v, batch[c])]
  /\ Return(c)
  /\ UNCHANGED disk

\* The embedding fails, a field cannot be written, or the writer refuses the
\* documents, as it does when a term is too long: then it adds none of them.
AddFails(c) ==
  /\ step[c] # "idle"
  /\ Return(c)
  /\ UNCHANGED <<live, disk>>

\* delete(docid), and delete(filters) with a filter that selects these ids or
\* with none, which selects all.
DeleteDocuments(ids) ==
  /\ live' = Without(live, ids)
  /\ UNCHANGED <<disk, batch, step>>

\* writer.commit(), which flush() skips when nothing has changed.
Commit == disk' = live /\ UNCHANGED <<live, batch, step>>
=============================================================================
