---------------------------- MODULE PassSchedule ----------------------------
(***************************************************************************)
(* The pipeline: its signature (generator/signature.rs), the order of its   *)
(* passes and their memory.  101 images; image 0 is the source, and pass p  *)
(* writes image p + 1, so a pass is named here by the image it writes.  The *)
(* constructor sorts the passes into stages, then gives each image that is  *)
(* not pinned the stages it must survive; from these and the sizes of the   *)
(* images the planner of MemoryPlan places all but the external ones.  The  *)
(* stages before the split then run once per game frame and the rest once   *)
(* per generated frame, over the shared memory, on one of two engines: the  *)
(* Vulkan pipeline under a context, or Metal itself (generator/native.rs).  *)
(***************************************************************************)
EXTENDS MemoryPlan

CONSTANTS
  MaxIterations,   \* bound on the game frames
  Totals,          \* generated frames an iteration may have
  Stamps           \* timestamps the caller asks for; 0: none

ASSUME ScheduleAssumption ==
  /\ MaxIterations \in Nat /\ Totals \subseteq Nat
  /\ Stamps \subseteq Nat

-----------------------------------------------------------------------------
(* The tables.                                                              *)

Source == 0
Mip == 1
BetaMip == 34
Destination == 100

ImageIds == 0..Destination
Passes == 1..Destination

(* Passes before this one are the pre-pass.                                 *)
SplitPass == 35

Levels == 0..6
Pyramid(level) == 29 - 4 * level

(* A chain of five: gamma at each of the main pass's seven steps, delta and *)
(* epsilon at the last three, where a step takes fifteen images.            *)
Chains == [kind : {"gamma", "delta", "epsilon"}, step : Levels]

Kinds(step) == IF step < 4 THEN {"gamma"} ELSE {"gamma", "delta", "epsilon"}

ChainStart(kind, step) ==
  IF step < 4 THEN BetaMip + 1 + 5 * step
  ELSE BetaMip + 21 + 15 * (step - 4)
       + CASE kind = "gamma" -> 0 [] kind = "delta" -> 5 [] kind = "epsilon" -> 10

(* The result of a chain at the step before, if there is one.               *)
Before(kind, step) ==
  IF step > 0 /\ kind \in Kinds(step - 1) THEN {ChainStart(kind, step - 1) + 4} ELSE {}

FirstInputs(kind, step) ==
  {Pyramid(6 - step)} \cup
  IF kind = "epsilon" THEN Before("gamma", step) \cup Before("delta", step) ELSE Before(kind, step)

LastInputs(kind, step) ==
  Before(kind, step) \cup IF kind = "epsilon" THEN {} ELSE {BetaMip}

(* What a pass reads, pre-pass and main pass.                               *)
PrePassInputs(x) ==
  CASE x = Mip -> {Source}
    [] x \in 2..29 -> IF (x - 2) % 4 = 0 THEN {Mip} ELSE {x - 1}
    [] x = 30 -> {Pyramid(0)}
    [] x \in 31..BetaMip -> {x - 1}

ChainInputs(x) ==
  LET c == CHOOSE c \in Chains : c.kind \in Kinds(c.step) /\ x - ChainStart(c.kind, c.step) \in 0..4
      k == x - ChainStart(c.kind, c.step)
  IN CASE k = 0 -> FirstInputs(c.kind, c.step)
       [] k \in 1..3 -> {x - 1}
       [] k = 4 -> {x - 1} \cup LastInputs(c.kind, c.step)

Inputs ==
  [x \in Passes |->
     IF x < SplitPass THEN PrePassInputs(x)
     ELSE IF x < Destination THEN ChainInputs(x)
     ELSE {Source} \cup {ChainStart(kind, 6) + 4 : kind \in Kinds(6)}]

(* Flag P: images that survive from frame to frame, and the external ones.  *)
Pinned == {Source, Destination} \cup {Pyramid(level) : level \in Levels}

-----------------------------------------------------------------------------
VARIABLES
  progress,                     \* "schedule", "lifetimes", "plan" or "run"
  written, remaining, main,     \* of the schedule loop; main: its bound has moved on
  stages, split,                \* Signature::stages and Signature::split
  lifetime, at,                 \* Image::lifetime, and the stage of that loop
  engine,                       \* what runs the stages: "vulkan" or "native", once there are frames
  iteration, total, frame,      \* game frames begun; generated frames wanted and produced
  generated, timestamp,         \* the next one's main pass is submitted; the last one's timestamp
  params,                       \* Pipeline::params: the timestamp recorded for each slot
  block,                        \* the uniform block of the Vulkan pipeline
  queue,                        \* what was encoded and has not run to its end
  sourceLayers, holds           \* iterations of the source's two layers, and the run each
                                \* other image's texels are of

scheduleVars == <<written, remaining, main, stages, split>>
frameVars == <<engine, iteration, total, frame, generated, timestamp, params>>
gpuVars == <<block, queue, sourceLayers, holds>>
planVars == <<inputVars, todo, placed, transient, pinned, offset, walkVars>>
pipelineVars == <<progress, scheduleVars, lifetime, at, frameVars, gpuVars, planVars>>

Destroyed == <<-1, -1>>

PipelineInit ==
  /\ progress = "schedule"
  /\ written = {Source} /\ remaining = Passes /\ main = FALSE
  /\ stages = <<>> /\ split = 0
  /\ lifetime = [x \in ImageIds |-> None] /\ at = 0
  /\ engine = "none"
  /\ iteration = 0 /\ total = 0 /\ frame = 0
  /\ generated = FALSE /\ timestamp = 0 /\ params = <<>>
  /\ block = [iteration |-> 0, timestamp |-> 0] /\ queue = <<>>
  /\ sourceLayers = [l \in 0..1 |-> 0] /\ holds = [x \in Passes |-> Destroyed]
  /\ size = [i \in Items |-> 0] /\ life = [i \in Items |-> None]
  /\ todo = {} /\ placed = <<>> /\ transient = 0 /\ pinned = 0
  /\ offset = [i \in Items |-> 0] /\ item = 0 /\ off = 0 /\ next = 1

(* The passes in bounds whose inputs are written.                           *)
InBound(x) == main = (x >= SplitPass)
Readied == {x \in remaining : InBound(x) /\ Inputs[x] \subseteq written}

Schedule ==
  /\ progress = "schedule" /\ remaining # {} /\ Readied # {}
  /\ stages' = Append(stages, Readied)
  /\ written' = written \cup Readied
  /\ remaining' = remaining \ Readied
  /\ UNCHANGED <<progress, main, split, lifetime, at, frameVars, gpuVars, planVars>>

(* The pre-pass is scheduled; stuck in the main pass is an assertion.       *)
MoveBound ==
  /\ progress = "schedule" /\ remaining # {} /\ Readied = {} /\ ~main
  /\ main' = TRUE
  /\ split' = Len(stages)
  /\ UNCHANGED <<progress, written, remaining, stages, lifetime, at, frameVars, gpuVars, planVars>>

Scheduled ==
  /\ progress = "schedule" /\ remaining = {}
  /\ progress' = "lifetimes"
  /\ UNCHANGED <<scheduleVars, lifetime, at, frameVars, gpuVars, planVars>>

(* Stage `at` writes its outputs and is the last so far to read its inputs. *)
(* Within a stage a read comes after the write of an earlier pass only, and *)
(* no pass reads what its own stage writes.                                 *)
Reads(st) == UNION {Inputs[x] : x \in stages[st + 1]}

Lifetimes ==
  /\ progress = "lifetimes" /\ at < Len(stages)
  /\ lifetime' = [x \in ImageIds |->
       IF x \in stages[at + 1] \ Pinned THEN <<at, at>>
       ELSE IF lifetime[x] # None /\ x \in Reads(at) THEN <<lifetime[x][1], at>>
       ELSE lifetime[x]]
  /\ at' = at + 1
  /\ UNCHANGED <<progress, scheduleVars, frameVars, gpuVars, planVars>>

-----------------------------------------------------------------------------
(* Memory, for a source of 512 by 512: sizes in units of the smallest image.*)

(* Pixels of a pyramid level, and of the one before its last halving.       *)
Area(level) == 4^(6 - level)
Doubled(level) == 4 * Area(level)

(* Performance mode has half the layers.                                    *)
Layers(perf) == IF perf THEN 1 ELSE 2

PyramidSize(x, perf) ==
  LET level == 6 - (x - 2) \div 4
  IN CASE (x - 2) % 4 \in {0, 1} -> Layers(perf) * Doubled(level)
       [] (x - 2) % 4 = 2 -> 2 * Layers(perf) * Area(level)
       [] (x - 2) % 4 = 3 -> 6 * Layers(perf) * Area(level)

(* The result of a chain is half float.                                     *)
ChainSize(x, perf) ==
  LET c == CHOOSE c \in Chains : c.kind \in Kinds(c.step) /\ x - ChainStart(c.kind, c.step) \in 0..4
      k == x - ChainStart(c.kind, c.step)
      layers == CASE k = 0 -> IF c.kind = "epsilon" THEN Layers(perf) ELSE 3
                  [] k \in 1..3 -> IF c.kind = "epsilon" THEN Layers(perf) ELSE 2 * Layers(perf)
                  [] k = 4 -> 2
  IN layers * Area(6 - c.step)

(* The mipmaps are seven and six images of a byte per pixel, one after the  *)
(* other.                                                                   *)
ImageSize(x, perf) ==
  CASE x = Mip -> (4^8 - 4) \div 3
    [] x \in 2..29 -> PyramidSize(x, perf)
    [] x \in 30..33 -> 2 * Area(0)
    [] x = BetaMip -> (4^6 - 1) \div 3
    [] x > BetaMip -> ChainSize(x, perf)

(* The items of the plan: all but the external images, in their order.      *)
Load(perf) ==
  /\ progress = "lifetimes" /\ at = Len(stages)
  /\ progress' = "plan"
  /\ size' = [i \in Items |-> ImageSize(i, perf)]
  /\ life' = [i \in Items |-> lifetime[i]]
  /\ todo' = Items
  /\ UNCHANGED <<scheduleVars, lifetime, at, frameVars, gpuVars, placed, transient, pinned, offset, walkVars>>

(* plan(), step by step.                                                    *)
Plan ==
  /\ progress = "plan"
  /\ PickLargest \/ Walk \/ Place
  /\ UNCHANGED <<progress, scheduleVars, lifetime, at, frameVars, gpuVars>>

(* Images in the memory of x.                                               *)
Aliases(x) ==
  IF x \notin Items THEN {}
  ELSE {y \in Items \ {x} : Shares(x, y) /\ offset[x] < End(y) /\ offset[y] < End(x)}

-----------------------------------------------------------------------------
(* What the caller encodes: copies of a game's frame into the source, pre-  *)
(* passes, main passes and copies of the destination.  Each carries the     *)
(* parameters it is to run with, and a pass the stage it is at.             *)
Entry(op, f, stamp, stage) ==
  [op |-> op, iteration |-> iteration', frame |-> f, at |-> stage,
   block |-> [iteration |-> iteration', timestamp |-> stamp]]

(* The timestamp a frame is generated for: on Vulkan, without one, its      *)
(* place among the iteration's frames, here in twelfths.                    *)
Stamp(ts) == IF engine = "vulkan" /\ ts = 0 THEN (12 * (frame + 1)) \div (total + 1) ELSE ts

(* param_update: the buffer of a slot is recorded again for another stamp.  *)
ParamUpdate(ts) ==
  IF engine = "vulkan"
  THEN [slot \in DOMAIN params \cup {frame} |-> IF slot = frame THEN Stamp(ts) ELSE params[slot]]
  ELSE params

(* On Vulkan it goes ahead of the main pass in one batch.                   *)
MainEntries(ts) ==
  IF engine = "vulkan"
  THEN <<Entry("update", frame + 1, ParamUpdate(ts)[frame], 0), Entry("main", frame + 1, Stamp(ts), split)>>
  ELSE <<Entry("main", frame + 1, Stamp(ts), split)>>

(* settle(): everything committed so far.                                   *)
Settled == queue = <<>>

(* A game frame, once everything before is complete, whether or not the     *)
(* last one got all its frames: it is copied into the next layer of the     *)
(* source, and the pre-pass runs with what the block holds from the last    *)
(* main pass, but for the iteration, which the host writes.                 *)
Begin ==
  /\ \/ progress = "plan" /\ todo = {} /\ engine' \in {"vulkan", "native"}
     \/ progress = "run" /\ engine' = engine
  /\ Settled
  /\ iteration < MaxIterations
  /\ progress' = "run"
  /\ iteration' = iteration + 1 /\ frame' = 0 /\ generated' = FALSE
  /\ \E n \in Totals : total' = n
  /\ block' = [block EXCEPT !.iteration = iteration + 1]
  /\ queue' = <<Entry("copyin", 0, timestamp, 0), Entry("prepass", 0, timestamp, 0)>>
  /\ UNCHANGED <<scheduleVars, lifetime, at, timestamp, params, sourceLayers, holds, planVars>>

(* The main pass of the next frame, ahead of the image it is copied to.     *)
MainPass(ts) ==
  /\ progress = "run" /\ frame < total /\ ~generated
  /\ iteration' = iteration
  /\ generated' = TRUE
  /\ timestamp' = Stamp(ts)
  /\ params' = ParamUpdate(ts)
  /\ queue' = queue \o MainEntries(ts)
  /\ UNCHANGED <<progress, scheduleVars, lifetime, at, engine, total, frame, block, sourceLayers, holds, planVars>>

(* And its copy to that image.                                              *)
Produce ==
  /\ progress = "run" /\ generated
  /\ iteration' = iteration
  /\ queue' = Append(queue, Entry("copyout", frame + 1, timestamp, 0))
  /\ frame' = frame + 1
  /\ generated' = FALSE
  /\ UNCHANGED <<progress, scheduleVars, lifetime, at, engine, total, timestamp, params,
                 block, sourceLayers, holds, planVars>>

-----------------------------------------------------------------------------
(* What keeps the GPU from running what is encoded side by side: on Vulkan  *)
(* the semaphores of the two sides, which FrameTimeline is about; natively  *)
(* a fence between the passes, and the tracking of hazards on the textures  *)
(* that are not placed in a heap.                                           *)
Writes(op) == CASE op = "copyin" -> {Source} [] op = "main" -> {Destination} [] OTHER -> {}
Tracked(op) ==
  CASE op \in {"copyin", "prepass"} -> {Source}
    [] op = "main" -> {Source, Destination}
    [] op = "copyout" -> {Destination}

(* Mutant: the encoders are not fenced off from one another.                *)
NoFence(a, b) == FALSE

Fenced(a, b) == {a.op, b.op} \subseteq {"prepass", "main"}

Hazard(a, b) == (Writes(a.op) \cap Tracked(b.op)) \cup (Tracked(a.op) \cap Writes(b.op)) # {}

Waits(a, b) == engine = "vulkan" \/ Fenced(a, b) \/ Hazard(a, b)

MayRun(k) == \A j \in 1..(k - 1) : ~Waits(queue[j], queue[k])

(* A barrier: a stage starts when all of the one before has run.            *)
Limit(op) == CASE op = "prepass" -> split [] op = "main" -> Len(stages) [] OTHER -> 0

StageOf(e) == stages[e.at + 1]

Ran(k) ==
  queue' = IF queue[k].at + 1 < Limit(queue[k].op) THEN [queue EXCEPT ![k].at = @ + 1]
           ELSE SubSeq(queue, 1, k - 1) \o SubSeq(queue, k + 1, Len(queue))

RunCopyIn(k) ==
  /\ queue[k].op = "copyin"
  /\ sourceLayers' = [sourceLayers EXCEPT ![queue[k].iteration % 2] = queue[k].iteration]
  /\ UNCHANGED <<block, holds>>

RunUpdate(k) ==
  /\ queue[k].op = "update"
  /\ block' = [block EXCEPT !.timestamp = queue[k].block.timestamp]
  /\ UNCHANGED <<sourceLayers, holds>>

(* The passes of a stage write their images, and whatever shared the memory *)
(* is gone.                                                                 *)
RunStage(k) ==
  LET e == queue[k]
  IN /\ e.op \in {"prepass", "main"}
     /\ \E gone \in {UNION {Aliases(x) : x \in StageOf(e)}} :
          holds' = [x \in Passes |-> IF x \in gone THEN Destroyed
                                   ELSE IF x \in StageOf(e) THEN <<e.iteration, e.frame>>
                                   ELSE holds[x]]
     /\ UNCHANGED <<block, sourceLayers>>

RunCopyOut(k) ==
  /\ queue[k].op = "copyout"
  /\ UNCHANGED <<block, sourceLayers, holds>>

Run ==
  /\ \E k \in {k \in 1..Len(queue) : MayRun(k)} :
       /\ RunCopyIn(k) \/ RunUpdate(k) \/ RunStage(k) \/ RunCopyOut(k)
       /\ Ran(k)
  /\ UNCHANGED <<progress, scheduleVars, lifetime, at, frameVars, planVars>>

Done ==
  /\ progress = "run" /\ Settled /\ frame = total /\ iteration = MaxIterations
  /\ UNCHANGED pipelineVars

PipelineNext ==
  \/ Schedule \/ MoveBound \/ Scheduled \/ Lifetimes
  \/ \E perf \in BOOLEAN : Load(perf)
  \/ Plan
  \/ Begin \/ \E ts \in Stamps : MainPass(ts)
  \/ Produce \/ Run \/ Done

PipelineSpec == PipelineInit /\ [][PipelineNext]_pipelineVars

-----------------------------------------------------------------------------
(* What the planner's constants are when its images are these.              *)
TablesFit ==
  /\ N = Destination - 1
  /\ 0..Destination \subseteq Stages
  /\ \A i \in Items, perf \in BOOLEAN : ImageSize(i, perf) \in Sizes

(* Whatever may run next reads what it should: the two game frames in the   *)
(* source, what the pre-pass of its own iteration or its own main pass      *)
(* wrote, and the parameters it was encoded with; a copy out reads its own  *)
(* frame.  The passes of a stage, which run side by side, leave one         *)
(* another's images alone.  So it is in the second main pass of an          *)
(* iteration as in the first, although images share memory with those that  *)
(* later stages and frames write, though the caller is frames ahead of the  *)
(* GPU, and on either engine (Signature::new, plan, Pipeline::encode).      *)
Written(e, y) ==
  IF y = Source
  THEN sourceLayers[e.iteration % 2] = e.iteration /\ sourceLayers[(e.iteration + 1) % 2] = e.iteration - 1
  ELSE holds[y] = <<e.iteration, IF y < SplitPass THEN 0 ELSE e.frame>>

InputsFresh ==
  \A k \in {k \in 1..Len(queue) : MayRun(k)} :
    LET e == queue[k]
        reads == IF e.op = "copyout" THEN {Destination}
                 ELSE IF e.op \in {"prepass", "main"} THEN UNION {Inputs[x] : x \in StageOf(e)} ELSE {}
    IN /\ \A y \in reads : Written(e, y)
       /\ e.op \in {"prepass", "main"} =>
            /\ engine = "vulkan" => block = e.block
            /\ \A x \in StageOf(e) : Aliases(x) \cap (reads \cup StageOf(e)) = {}
=============================================================================
