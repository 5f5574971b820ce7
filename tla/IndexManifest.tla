--------------------------- MODULE IndexManifest ---------------------------
(***************************************************************************)
(* index.json: the list of the files of one Lucene commit, with the        *)
(* sequence number the commit was given, and the difference between two    *)
(* such lists (IndexManifest.scala).                                       *)
(*                                                                         *)
(* A commit g of an IndexWriter writes one segment <<"seg", g>> (all of    *)
(* _g.si, _g.cfs, ...) and one <<"segments", g>> (segments_g).  A manifest *)
(* lists a file with its size; size 0 stands for "not listed", as no index *)
(* file is empty.  The mapping that index.json also carries is left out.   *)
(***************************************************************************)
EXTENDS Naturals, FiniteSets

CONSTANTS
  MaxDocs,      \* bound: documents ever accepted
  MaxGen,       \* bound: Lucene commits in one directory
  SizeOf        \* the size of a file with a given body

Body == SUBSET ((1..MaxDocs) \cup (1..MaxGen))

ASSUME BoundsAssumption == MaxDocs \in Nat /\ MaxGen \in Nat \ {0}
ASSUME SizeAssumption == SizeOf \in [Body -> Nat \ {0}]

Gen == 1..MaxGen
Seg(g) == <<"seg", g>>
Segments(g) == <<"segments", g>>
FileName == {"seg", "segments"} \X Gen
MANIFEST_FILE_NAME == <<"index.json", 0>>

-----------------------------------------------------------------------------
(* Manifests.  "torn" is an index.json that exists but does not decode: an  *)
(* output that was created and not filled.                                  *)

Manifest == [st : {"absent", "torn", "whole"}, seqnum : Nat, files : [FileName -> Nat]]

NoFiles == [f \in FileName |-> 0]
NoManifest == [st |-> "absent", seqnum |-> 0, files |-> NoFiles]
TornManifest == [st |-> "torn", seqnum |-> 0, files |-> NoFiles]
MakeManifest(files, seqnum) == [st |-> "whole", seqnum |-> seqnum, files |-> files]

Listed(m) == {f \in FileName : m.files[f] # 0}

-----------------------------------------------------------------------------
(* The operations that bring a directory with manifest `target` to the      *)
(* files of `source`.  `target` is NoManifest where the code passes None.   *)
(* The order of the list is that of a Scala Set: unspecified, so a set.     *)

Add(f) == [op |-> "Add", file |-> f]
Del(f) == [op |-> "Del", file |-> f]
ChangedFileOp == [op : {"Add", "Del"}, file : FileName \cup {MANIFEST_FILE_NAME}]

\* Mutant: files that only the target has are left in place.
DiffKeepsOld(source, target) ==
  {Add(f) : f \in {g \in Listed(source) : source.files[g] # target.files[g]}}
    \cup {Add(MANIFEST_FILE_NAME)}

\* Mutant: index.json itself is forgotten.
DiffWithoutManifest(source, target) ==
  {Add(f) : f \in {g \in Listed(source) : source.files[g] # target.files[g]}}
    \cup {Del(f) : f \in Listed(target) \ Listed(source)}

Diff(source, target) ==
  {Add(f) : f \in {g \in Listed(source) : source.files[g] # target.files[g]}}
    \cup {Del(f) : f \in Listed(target) \ Listed(source)}
    \cup {Add(MANIFEST_FILE_NAME)}
=============================================================================
