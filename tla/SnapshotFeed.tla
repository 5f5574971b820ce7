---------------------------- MODULE SnapshotFeed ----------------------------
(***************************************************************************)
(* What the object store promises the searchers: a sequence of commits,    *)
(* numbered as they are made, of which the newest is published sooner or   *)
(* later.  A publication may pass over commits, it never goes back and it  *)
(* never shows one that was not made.                                      *)
(***************************************************************************)
EXTENDS Naturals

VARIABLES
  committed,    \* the number of commits made
  published     \* the one the object store describes, 0 before the first

vars == <<committed, published>>

Init == committed = 0 /\ published = 0

Commit == committed' = committed + 1 /\ UNCHANGED published

Publish == published < committed /\ published' = committed /\ UNCHANGED committed

Next == Commit \/ Publish

Spec == Init /\ [][Next]_vars /\ WF_vars(Publish)
=============================================================================
