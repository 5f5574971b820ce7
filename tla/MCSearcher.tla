----------------------------- MODULE MCSearcher -----------------------------
(* Values for the constants of Searcher that a cfg cannot write. *)
EXTENDS Searcher, TLC

\* No request is different from another.
QuerySymmetry == Permutations(Queries)

\* A local index without a commit, and a slave that found a commit.
AnyStart == {[kind |-> "local", commit |-> 0, seqnum |-> 0],
             [kind |-> "slave", commit |-> 1, seqnum |-> 3]}
LocalStart == {s \in AnyStart : s.kind = "local"}
SlaveStart == {s \in AnyStart : s.kind = "slave"}
=============================================================================
