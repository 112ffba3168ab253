---------------------------- MODULE FrameStream ----------------------------
(***************************************************************************)
(* What frame generation promises the game: for every frame it asks about, *)
(* the generated frames between the previous frame and this one, each      *)
(* once, in order, and all of them before those of the next frame.  The    *)
(* stream may stop at any point: the frame is abandoned.                   *)
(***************************************************************************)
EXTENDS Naturals, Sequences

CONSTANT Counts   \* how many generated frames may be asked for

VARIABLES
  asked,   \* for each frame of the game, how many frames to generate
  shown    \* the generated frames, as <<previous frame, frame, slot>>

vars == <<asked, shown>>

Init == asked = <<>> /\ shown = <<>>

(* The position after the last generated frame shown: frame and slot.      *)
Upcoming ==
  IF shown = <<>> THEN <<1, 1>>
  ELSE LET f == shown[Len(shown)][2]
           k == shown[Len(shown)][3]
       IN IF k < asked[f] THEN <<f, k + 1>> ELSE <<f + 1, 1>>

(* The game is at most one frame ahead of what is generated for it.        *)
Ask(n) ==
  /\ Upcoming[1] >= Len(asked)
  /\ asked' = Append(asked, n)
  /\ shown' = shown

Show ==
  /\ Upcoming[1] <= Len(asked)
  /\ shown' = Append(shown, <<Upcoming[1] - 1, Upcoming[1], Upcoming[2]>>)
  /\ asked' = asked

Next == (\E n \in Counts : Ask(n)) \/ Show

Spec == Init /\ [][Next]_vars
=============================================================================
