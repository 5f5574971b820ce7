---------------------------- MODULE MCComponents ----------------------------
(***************************************************************************)
(* Small instances of the components of Components.tla.                    *)
(***************************************************************************)
EXTENDS Components, MCIngestion

\* One text, two in both orders, one twice.
MCBatches == {<<"x">>, <<"x", "y">>, <<"y", "x">>, <<"x", "x">>}

\* One text of a document and one of a query share a key, and two of a third task.
MCKeyOf ==
  [v \in Tasks \X Texts |->
     CASE v \in {<<"doc", "x">>, <<"query", "x">>} -> v
       [] v \in {<<"doc", "y">>, <<"query", "y">>} -> <<"doc", "y">>
       [] OTHER -> <<"raw", "x">>]

\* A few of the floats, in 1/60: those from -3 to 4 that the requests need, three
\* great ones, and infinity.  The others are rounded down to one of them.
MCInfinity == 10000
MCFloats ==
  {-180, -120, -60, -30, -20, 0, 1, 2, 3, 15, 20, 30, 40, 50, 60, 90, 120, 180, 240,
   3600, 3660, 3720, MCInfinity}
MCRound(n) ==
  IF \A f \in MCFloats : f > n THEN Min(MCFloats) ELSE Max({f \in MCFloats : f <= n})

MCPlus(x, y) == MCRound(x + y)

\* 1 / 0 is infinity.
MCReciprocal(k, index) ==
  LET n == MCRound(k + 60 * index)
  IN  IF n = 0 THEN MCInfinity
      ELSE IF n > 0 THEN MCRound(3600 \div n) ELSE MCRound(-(3600 \div (-n)))

\* One and two rankings, with k of -1, 0, a half and 2; three rankings with the
\* default k of 60, where the second and the third place tie; and none.
MCRequests ==
  [k : {-60, 0, 30, 120}, size : {2}, window : {2, 3}, queries : {1, 2}]
    \cup [k : {3600}, size : {2}, window : {2}, queries : {0, 3}]
    \cup [k : {3600}, size : {2}, window : {3}, queries : {2}]

\* Bounds as far as one beyond the least and the greatest long.
MCMin == -2
MCBounds == -6..6

\* Types that may change their options, one that may not, and text, which may
\* become the id.
MCSchemas ==
  [type : {"int", "float"}, options : {"plain", "facet"}]
    \cup [type : {"text", "id"}, options : {"plain"}]

=============================================================================
