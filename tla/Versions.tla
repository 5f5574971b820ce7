------------------------------ MODULE Versions ------------------------------
(***************************************************************************)
(* The documents that are indexed.  A version is what one message, line or *)
(* request element says of the document with its _id; versions are         *)
(* numbered in the order in which their authors made them.                 *)
(***************************************************************************)
EXTENDS Naturals

CONSTANTS
  LastVersion,  \* versions are 1..LastVersion
  IdOf          \* the _id of a version

Version == 1..LastVersion

ASSUME VersionsAssumption == LastVersion \in Nat /\ DOMAIN IdOf = Version

Ids == {IdOf[v] : v \in Version}
=============================================================================
