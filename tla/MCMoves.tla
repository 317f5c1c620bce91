------------------------------ MODULE MCMoves ------------------------------
(* Model checking of SecretaryMoves.  The secretary lives at home, moves   *)
(* and is brought home; or it stands in the Cloud with a surrendered copy  *)
(* at home, and two returns are driven by its own install, or one return   *)
(* by two installs; or two moves follow each other.                        *)
EXTENDS SecretaryMoves

CONSTANTS r1, r2, L

Scene(begins, stir, lived, pasted) ==
    [begins |-> begins, stir |-> stir, lived |-> lived, pasted |-> pasted]
MovesAndReturns ==
    { Scene("local", {"live", "work"}, 2, {<<Home, r1>>}),
      Scene("local", {"live", "ask"}, 1, {<<Home, r1>>}),
      Scene("surrendered", {}, 1, {<<Home, r1>>, <<Home, r2>>}),
      Scene("surrendered", {"terminal"}, 1, {<<Home, r1>>, <<L, r1>>}) }
MovesOnly == {Scene("local", {"work"}, 1, {})}
=============================================================================
