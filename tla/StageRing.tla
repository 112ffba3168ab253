----------------------------- MODULE StageRing -----------------------------
(***************************************************************************)
(* The ring of stage textures of metal/generator.rs.  While upscaling on    *)
(* MoltenVK, each shown frame is written at the game's size into the next   *)
(* texture of the ring, on the pipeline, and its present scales that        *)
(* texture into the real drawable, on the present queue.  Nothing waits for *)
(* a present, so only the number of real drawables keeps a texture from     *)
(* being written again while its present still reads it.                    *)
(***************************************************************************)
EXTENDS Naturals, Sequences

CONSTANTS
  RealDrawables,   \* drawables of the real layer
  MaxShown,        \* bound on the frames shown
  MaxResets        \* bound on the resets: resizes and frames given up

VARIABLES
  ring, ringNext,       \* Worker::ring and Worker::ring_next
  made,                 \* textures made so far; each has its number
  target,               \* a real drawable is acquired for the frame at hand
  shown,                \* frames shown so far
  resets,
  writes, reads,        \* unfinished copies and presents: <<frame, texture>>
  onScreen              \* real drawables whose present is done

vars == <<ring, ringNext, made, target, shown, resets, writes, reads, onScreen>>

Init ==
  /\ ring = <<>> /\ ringNext = 0 /\ made = 0
  /\ target = FALSE /\ shown = 0 /\ resets = 0
  /\ writes = <<>> /\ reads = <<>> /\ onScreen = 0

(* next_real: a drawable is neither being presented nor on screen.          *)
NextReal ==
  /\ ~target /\ shown < MaxShown
  /\ Len(reads) + onScreen < RealDrawables
  /\ target' = TRUE
  /\ UNCHANGED <<ring, ringNext, made, shown, resets, writes, reads, onScreen>>

Stages == 4

(* stage() and the copy and present that follow: the ring grows to its size *)
(* on the first calls, and the texture is picked by a running count.        *)
Grown == IF Len(ring) < Stages THEN Append(ring, made + 1) ELSE ring

Show ==
  LET texture == Grown[(ringNext % Len(Grown)) + 1]
  IN /\ target
     /\ ring' = Grown
     /\ made' = made + (Len(Grown) - Len(ring))
     /\ ringNext' = ringNext + 1
     /\ target' = FALSE /\ shown' = shown + 1
     /\ writes' = Append(writes, <<shown + 1, texture>>)
     /\ reads' = Append(reads, <<shown + 1, texture>>)
     /\ UNCHANGED <<resets, onScreen>>

(* reset() after a frame was given up, its drawable dropped, or when the    *)
(* size changes: the pipeline is idle then, the presents are not.           *)
Reset ==
  /\ resets < MaxResets
  /\ writes = <<>>
  /\ resets' = resets + 1
  /\ ring' = <<>>
  /\ target' = FALSE
  /\ UNCHANGED <<ringNext, made, shown, writes, reads, onScreen>>

WriteCompletes ==
  /\ writes # <<>>
  /\ writes' = Tail(writes)
  /\ UNCHANGED <<ring, ringNext, made, target, shown, resets, reads, onScreen>>

Unwritten(f) == \E i \in 1..Len(writes) : writes[i][1] = f

(* The present queue runs in order; a present waits for its own copy.       *)
ReadCompletes ==
  /\ reads # <<>>
  /\ ~Unwritten(Head(reads)[1])
  /\ reads' = Tail(reads)
  /\ onScreen' = onScreen + 1
  /\ UNCHANGED <<ring, ringNext, made, target, shown, resets, writes>>

(* A frame leaves the screen when a later one has replaced it.              *)
LeaveScreen ==
  /\ onScreen > 1
  /\ onScreen' = onScreen - 1
  /\ UNCHANGED <<ring, ringNext, made, target, shown, resets, writes, reads>>

Done == shown = MaxShown /\ reads = <<>> /\ UNCHANGED vars

Next ==
  \/ NextReal \/ Show \/ Reset
  \/ WriteCompletes \/ ReadCompletes \/ LeaveScreen
  \/ Done

Spec == Init /\ [][Next]_vars

-----------------------------------------------------------------------------
(* "Three real drawables bound the presents in flight, so the fourth        *)
(* texture back is never still read": no copy is submitted into a texture   *)
(* that an earlier frame's unfinished present reads.                        *)
NeverStillRead ==
  \A w \in 1..Len(writes), r \in 1..Len(reads) :
    reads[r][1] < writes[w][1] => reads[r][2] # writes[w][2]
=============================================================================
