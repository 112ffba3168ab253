-------------------------- MODULE MCFrameTimeline --------------------------
(* Three frames of the game, so that both source layers are reused, with    *)
(* one or two generated frames each in any combination.                     *)
EXTENDS FrameTimeline

MCInserted == {1, 2}
MCAnySubmit == {"copyin", "prepass", "main", "copyout"}
=============================================================================
