-------------------------- MODULE MCPartialFrames --------------------------
(* Up to three iterations of one to three frames, so an iteration can be    *)
(* abandoned before its first, second or third frame; on Metal two contexts *)
(* and frames with no, one or two generated frames.                         *)
EXTENDS MetalFrames

MCTotals == {1, 3}
MCBoth == {TRUE, FALSE}
MCPlans == {<<0, TRUE>>, <<1, TRUE>>, <<2, FALSE>>, <<2, TRUE>>}
=============================================================================
