--------------------------- MODULE MCDrawablePool ---------------------------
(* Three drawables from a pool limited to two: the third can only be had    *)
(* once a texture came back.  Plans with and without the original frame.    *)
(* Textures are interchangeable, so safety is checked up to a permutation.  *)
EXTENDS DrawablePool, TLC

CONSTANTS t1, t2, t3

MCTextures == {t1, t2, t3}
MCSymmetry == Permutations(MCTextures)

MCPlans == {<<0, TRUE>>, <<1, TRUE>>, <<1, FALSE>>}
MCOnePlan == {<<1, TRUE>>}
MCNoFaults == {}
MCSkip == {"skip"}
=============================================================================
