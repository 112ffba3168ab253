---------------------------- MODULE MetalFrames ----------------------------
(***************************************************************************)
(* The presentation worker of metal/generator.rs as a caller of the        *)
(* generation context on MoltenVK: its Wrapper counts the sync timeline on  *)
(* its own, submits each main pass before it asks for the drawable, and     *)
(* waits for the frame before by a fence of the worker, which outlives the  *)
(* context.  An iteration that fails half way is never continued: the       *)
(* queue is drained and the context dropped for a new one.  A frame may     *)
(* have no generated frame at all.                                          *)
(*                                                                         *)
(* It shares the variables of the other caller, PartialFrames: `value` is   *)
(* sync_counter, `frame` the iteration of the Wrapper, `want` the frames    *)
(* inserted.  The run takes either caller.                                  *)
(***************************************************************************)
EXTENDS PartialFrames

CONSTANTS
  Plans,        \* <<inserted, show_original>> of the worker's frames
  MaxContexts   \* bound on the contexts it builds

ASSUME MetalAssumption ==
  /\ \A p \in Plans : p \in Nat \X BOOLEAN /\ (p[1] > 0 \/ p[2])
  /\ MaxContexts \in Nat

VARIABLES
  caller,         \* "validate" or "metal"
  showOriginal,   \* of the frame being generated
  remaining,      \* Wrapper: generated frames not copied out yet
  inFlight,       \* Wrapper: something was submitted
  framePending,   \* Worker: the fence will be signalled
  contexts        \* Wrappers made so far

wrapperVars == <<showOriginal, remaining, inFlight, framePending, contexts>>
allVars == <<vars, caller, wrapperVars>>

MetalInit ==
  /\ Init
  /\ caller \in {"validate", "metal"}
  /\ caller = "metal" => protocol = FALSE
  /\ showOriginal = FALSE /\ remaining = 0 /\ inFlight = FALSE
  /\ framePending = FALSE /\ contexts = 1

Sync(v) == Only("sync", v)
KeepContext == UNCHANGED <<memoryVars, blockIteration, countVars>>

(* A frame from the channel; generate() begins with the worker's settle().  *)
Take(p) ==
  /\ pc = "idle" /\ frame < MaxFrames
  /\ pc' = "settle"
  /\ want' = p[1] /\ showOriginal' = p[2]
  /\ UNCHANGED <<contextVars, value, frame, protocol, remaining, inFlight, framePending, contexts>>

(* Mutant: the worker trusts the context to wait for the frame before.      *)
WaitedForNothing == TRUE

FrameWaited == framePending => fence["wrapper"] = "signalled"

FrameSettled ==
  /\ pc = "settle" /\ FrameWaited
  /\ fence' = IF framePending THEN [fence EXCEPT !["wrapper"] = "idle"] ELSE fence
  /\ framePending' = FALSE
  /\ pc' = "copyin"
  /\ UNCHANGED <<batches, done, running, lost, memoryVars, blockIteration, countVars,
                 value, frame, want, protocol, showOriginal, remaining, inFlight, contexts>>

(* Wrapper::dispatch: the copy in, then the iteration.                      *)
MetalCopyIn ==
  /\ pc = "copyin"
  /\ Submit(Batch("copyin", frame + 1, 0, frame % 2, Nothing, Sync(value + 1), "none"), fence)
  /\ frame' = frame + 1
  /\ inFlight' = TRUE
  /\ pc' = "dispatch"
  /\ UNCHANGED <<done, running, lost, value, want, protocol,
                 showOriginal, remaining, framePending, contexts>>
  /\ KeepContext

AfterFrames == IF showOriginal THEN "original" ELSE "idle"

MetalDispatch ==
  /\ pc = "dispatch"
  /\ Dispatch(frame, want, FALSE, TRUE)
  /\ remaining' = want
  /\ value' = value + 1
  /\ pc' = IF want > 0 THEN "acquire" ELSE AfterFrames
  /\ UNCHANGED <<frame, want, protocol, showOriginal, inFlight, framePending, contexts>>

(* Wrapper::generate: the main pass, before the drawable is asked for.      *)
Early ==
  /\ pc = "acquire"
  /\ Acquire(frame, FALSE, TRUE)
  /\ pc' = "copyout"
  /\ UNCHANGED <<value, frame, want, protocol, wrapperVars>>

(* Wrapper::acquire: the generated frame copied out, the next one's main    *)
(* pass announced to; the last copy of a frame carries the worker's fence.  *)
Produce ==
  LET more == remaining > 1
      last == ~more /\ ~showOriginal
  IN /\ pc = "copyout"
     /\ Submit(Batch("copyout", frame, want - remaining + 1, 0, Sync(value + 1),
                     Sync(IF more THEN value + 2 ELSE 0),
                     IF last THEN "wrapper" ELSE "none"), fence)
     /\ remaining' = remaining - 1
     /\ value' = IF more THEN value + 2 ELSE value + 1
     /\ framePending' = (framePending \/ last)
     /\ pc' = IF more THEN "acquire" ELSE AfterFrames
     /\ UNCHANGED <<done, running, lost, frame, want, protocol, showOriginal, inFlight, contexts>>
     /\ KeepContext

(* Worker::original: the game's own frame, which no image of the context    *)
(* takes part in.                                                           *)
Original ==
  /\ pc = "original"
  /\ Submit(Batch("original", frame, want + 1, 0, Nothing, Nothing, "wrapper"), fence)
  /\ framePending' = TRUE
  /\ pc' = "idle"
  /\ UNCHANGED <<done, running, lost, value, frame, want, protocol,
                 showOriginal, remaining, inFlight, contexts>>
  /\ KeepContext

(* The frame ends here, before its copy in or after any later step: no      *)
(* drawable, a copy refused, a present not built, another size.             *)
GiveUp ==
  /\ pc \in {"idle", "copyin", "acquire", "copyout", "original"}
  /\ pc = "idle" => framePending
  /\ pc = "acquire" => index > 0
  /\ pc' = "drain"
  /\ UNCHANGED <<contextVars, value, frame, want, protocol, wrapperVars>>

(* Wrapper::destroy: the queue is drained, then the context settles.        *)
Drain ==
  /\ pc = "drain"
  /\ inFlight => Drained
  /\ inFlight' = FALSE
  /\ pc' = "dropping"
  /\ UNCHANGED <<contextVars, value, frame, want, protocol,
                 showOriginal, remaining, framePending, contexts>>

(* Wrapper::new: a context with semaphores, fence and images of its own;    *)
(* the worker keeps its fence.                                              *)
Renew ==
  /\ pc = "dropped" /\ contexts < MaxContexts
  /\ contexts' = contexts + 1
  /\ batches' = <<>> /\ done' = 0 /\ running' = {}
  /\ fence' = [fence EXCEPT !["context"] = "idle"]
  /\ source' = [l \in 0..1 |-> 0] /\ features' = <<0, 0>>
  /\ destination' = [pair |-> <<0, 0>>, of |-> <<0, 0>>, slot |-> 0]
  /\ blockIteration' = 0 /\ output' = <<>>
  /\ first' = TRUE /\ iteration' = 0 /\ total' = 0 /\ index' = 0
  /\ syncValue' = 0 /\ internalValue' = 0 /\ fencePending' = FALSE /\ unsignaled' = FALSE
  /\ value' = 0 /\ frame' = 0 /\ remaining' = 0
  /\ pc' = "idle"
  /\ UNCHANGED <<lost, want, protocol, showOriginal, inFlight, framePending>>

(* The GPU: a copy of the game's own frame leaves the context's images be.  *)
RunOriginal ==
  /\ \E i \in Unfinished \ running :
       /\ batches[i].op = "original" /\ Ready(i)
       /\ running' = running \cup {i}
  /\ UNCHANGED <<batches, done, fence, lost, memoryVars, blockIteration, countVars>>

RunContext ==
  /\ \E i \in Unfinished \ running :
       /\ batches[i].op # "original" /\ Ready(i)
       /\ running' = running \cup {i}
       /\ Effect(batches[i])
  /\ UNCHANGED <<batches, done, fence, lost, blockIteration, countVars>>

MetalGpu ==
  /\ RunOriginal \/ RunContext \/ Complete
  /\ UNCHANGED <<callerVars, wrapperVars>>

Metal ==
  \/ \E p \in Plans : Take(p)
  \/ FrameSettled \/ MetalCopyIn \/ MetalDispatch \/ Early \/ Produce \/ Original
  \/ GiveUp \/ Drain \/ Renew
  \/ Drop /\ UNCHANGED wrapperVars
  \/ MetalGpu

Validate == Next /\ UNCHANGED wrapperVars

(* The worker also waits for a next frame, or ends with its last context.   *)
Done ==
  /\ \/ pc = "idle" /\ frame = MaxFrames
     \/ pc = "dropped" /\ contexts = MaxContexts
  /\ UNCHANGED <<vars, wrapperVars>>

EitherNext ==
  /\ \/ caller = "validate" /\ Validate
     \/ caller = "metal" /\ (Metal \/ Done)
  /\ UNCHANGED caller

(* A call returns as soon as it may, and the queue goes on: the game's own  *)
(* work, which a copy in waits for, completes.                              *)
Return ==
  /\ \/ caller = "validate" /\ (Start \/ Drop) /\ UNCHANGED wrapperVars
     \/ caller = "metal" /\ (FrameSettled \/ MetalDispatch \/ Drain)
     \/ caller = "metal" /\ Drop /\ UNCHANGED wrapperVars
  /\ UNCHANGED caller

QueueRuns == MetalGpu /\ UNCHANGED caller

EitherSpec == MetalInit /\ [][EitherNext]_allVars /\ WF_allVars(Return) /\ WF_allVars(QueueRuns)

-----------------------------------------------------------------------------
(* What is recorded again is not in use: the parameter buffer of a slot     *)
(* (Pipeline::param_update), and on Metal the command buffer of the copy in *)
(* and of each frame shown, begun anew every frame (Wrapper::dispatch,      *)
(* Wrapper::acquire, Worker::copy).                                         *)
RecordedIdle ==
  /\ ParametersIdle
  /\ caller = "metal" =>
       \A i, j \in Unfinished :
         /\ batches[i].op \in {"copyin", "copyout", "original"}
         /\ batches[j].op \in {"copyin", "copyout", "original"}
         /\ batches[i].slot = batches[j].slot
         => i = j
=============================================================================
