--------------------------- MODULE FrameTimeline ---------------------------
(***************************************************************************)
(* Generation on the game's own queue: the Wrapper of shim/context.rs,     *)
(* driven by Fixed::run of shim/fixed.rs, around one generation context.   *)
(*                                                                         *)
(* For every frame the game presents, the wrapper copies it in, starts the *)
(* iteration, and for each generated frame submits the main pass, acquires *)
(* a swapchain image, copies out and presents; then the game's own frame   *)
(* is presented.  Any step may fail, and then the wrapper is drained and   *)
(* dropped.  The GPU runs concurrently with all of it.                     *)
(***************************************************************************)
EXTENDS GenContext

CONSTANTS
  Inserted,    \* how many frames a present may ask to insert (multiplier - 1)
  MaxFrames,   \* bound on the frames the game presents
  Refusable,   \* submits the driver may refuse while the device stays usable
  MayLose      \* the device may be lost at any time

ASSUME TimelineAssumption ==
  /\ Inserted \subseteq Nat \ {0}
  /\ MaxFrames \in Nat
  /\ Refusable \subseteq {"copyin", "prepass", "main", "copyout"}
  /\ MayLose \in BOOLEAN

VARIABLES
  (* fields of Wrapper *)
  wIteration, remaining, syncCounter, inFlight, generated,
  (* where run() is, its loop index, and the frames asked for so far *)
  pc, slot, asked

wrapperVars == <<wIteration, remaining, syncCounter, inFlight, generated>>
hostVars == <<pc, slot, asked>>
vars == <<contextVars, wrapperVars, hostVars>>

Frame == Len(asked)
Wanted == asked[Frame]

Init ==
  /\ ContextInit
  /\ wIteration = 0 /\ remaining = 0 /\ syncCounter = 0
  /\ inFlight = FALSE /\ generated = FALSE
  /\ pc = "idle" /\ slot = 0 /\ asked = <<>>

(* Whether a submit of this kind succeeds: refused ones leave no batch.    *)
Outcome(op, accepted) == (accepted /\ ~lost) \/ (~accepted /\ (lost \/ op \in Refusable))

-----------------------------------------------------------------------------
(* The game presents a frame and run() is entered.                         *)
Present(n) ==
  /\ pc = "idle" /\ Frame < MaxFrames
  /\ asked' = Append(asked, n)
  /\ pc' = "copyin"
  /\ UNCHANGED <<contextVars, wrapperVars, slot>>

(* Mutant: the copy in does not wait for the previous frame's last copy.   *)
Unguarded == TRUE

(* Every frame but the first waits for the fence of the last copy out.     *)
PreviousCopied == wIteration # 0 => fence["wrapper"] = "signalled"

(* Mutant: both frames of a pair land in one layer.                        *)
SameLayer == 0

Layer == wIteration % 2

(* Wrapper::dispatch, up to the context: copy the game's frame in.         *)
CopyIn(accepted) ==
  LET reset == IF wIteration # 0 THEN [fence EXCEPT !["wrapper"] = "idle"] ELSE fence
  IN /\ pc = "copyin" /\ PreviousCopied
     /\ Outcome("copyin", accepted)
     /\ IF accepted
        THEN /\ Submit(Batch("copyin", Frame, 0, Layer, Nothing,
                             Only("sync", syncCounter + 1), "none"), reset)
             /\ inFlight' = TRUE
             /\ pc' = "prepass"
        ELSE /\ fence' = reset
             /\ pc' = "failed"
             /\ UNCHANGED <<batches, inFlight>>
     /\ UNCHANGED <<done, running, lost, memoryVars, blockIteration, countVars,
                    wIteration, remaining, syncCounter, generated, slot, asked>>

(* Wrapper::dispatch, the rest: the context settles and starts over.       *)
StartIteration(accepted) ==
  /\ pc = "prepass"
  /\ Outcome("prepass", accepted)
  /\ Dispatch(Frame, Wanted, FALSE, accepted)
  /\ IF accepted
     THEN /\ remaining' = Wanted
          /\ syncCounter' = syncCounter + 1
          /\ wIteration' = wIteration + 1
          /\ slot' = 0
          /\ pc' = "generate"
     ELSE /\ pc' = "failed"
          /\ UNCHANGED <<remaining, syncCounter, wIteration, slot>>
  /\ UNCHANGED <<inFlight, generated, asked>>

(* Wrapper::generate: the main pass, before the swapchain image is there.  *)
Generate(accepted) ==
  /\ pc = "generate"
  /\ ~generated /\ remaining > 0
  /\ Outcome("main", accepted)
  /\ Acquire(Frame, FALSE, accepted)
  /\ generated' = accepted
  /\ pc' = IF accepted THEN "image" ELSE "failed"
  /\ UNCHANGED <<wIteration, remaining, syncCounter, inFlight, slot, asked>>

(* run() gets a swapchain image within a second, or not.                   *)
AcquireImage(found) ==
  /\ pc = "image"
  /\ pc' = IF found THEN "copyout" ELSE "failed"
  /\ UNCHANGED <<contextVars, wrapperVars, slot, asked>>

(* Mutant: the copy out tells the next main pass before the last one too.  *)
AlwaysSignal == syncCounter + 2

(* The copy out waits for the main pass and signals all but the last time. *)
CopyOutSignal == IF remaining > 1 THEN syncCounter + 2 ELSE 0

(* Mutant: the completion fence is looked for after the last copy.         *)
LateFence == IF remaining = 0 THEN "wrapper" ELSE "none"

CopyOutFence == IF remaining = 1 THEN "wrapper" ELSE "none"

(* Mutant: the value of the signal is not counted.                         *)
OnlyWait == syncCounter + 1

CountedCopyOut == IF remaining > 1 THEN syncCounter + 2 ELSE syncCounter + 1

(* Wrapper::acquire, the main pass being in flight: copy out.              *)
CopyOut(accepted) ==
  /\ pc = "copyout"
  /\ generated
  /\ Outcome("copyout", accepted)
  /\ generated' = FALSE
  /\ IF accepted
     THEN /\ Submit(Batch("copyout", Frame, slot + 1, 0,
                          Only("sync", syncCounter + 1),
                          Only("sync", CopyOutSignal),
                          CopyOutFence), fence)
          /\ remaining' = remaining - 1
          /\ syncCounter' = CountedCopyOut
          /\ pc' = "present"
     ELSE /\ pc' = "failed"
          /\ UNCHANGED <<batches, fence, remaining, syncCounter>>
  /\ UNCHANGED <<done, running, lost, memoryVars, blockIteration, countVars,
                 wIteration, inFlight, slot, asked>>

(* The generated frame is presented: on to the next, or to the game's own. *)
PresentGenerated(shown) ==
  /\ pc = "present"
  /\ slot' = slot + 1
  /\ pc' = IF ~shown THEN "failed"
           ELSE IF slot + 1 < Wanted THEN "generate" ELSE "last"
  /\ UNCHANGED <<contextVars, wrapperVars, asked>>

PresentOriginal(shown) ==
  /\ pc = "last"
  /\ pc' = IF shown THEN "idle" ELSE "failed"
  /\ UNCHANGED <<contextVars, wrapperVars, slot, asked>>

(* The swapchain is destroyed, or its configuration changed.               *)
Close ==
  /\ pc = "idle"
  /\ pc' = "failed"
  /\ UNCHANGED <<contextVars, wrapperVars, slot, asked>>

(* Wrapper::idle: drain the queue the game shares, partial frames included.*)
Idle ==
  /\ pc = "failed"
  /\ inFlight => Drained \/ lost
  /\ inFlight' = FALSE
  /\ pc' = "dropping"
  /\ UNCHANGED <<contextVars, wIteration, remaining, syncCounter, generated, slot, asked>>

(* Dropping the wrapper drops its context, which settles once more.        *)
DropContext ==
  /\ pc = "dropping"
  /\ \/ Settled /\ fence' = SettledFence /\ fencePending' = FALSE
     \/ ~Settled /\ lost /\ UNCHANGED <<fence, fencePending>>
  /\ pc' = "dropped"
  /\ UNCHANGED <<batches, done, running, lost, memoryVars, blockIteration,
                 first, iteration, total, index, syncValue, internalValue, unsignaled,
                 wrapperVars, slot, asked>>

(* A wait on a lost device returns an error.                               *)
WaitLost ==
  /\ lost /\ pc \in {"copyin", "prepass"}
  /\ pc' = "failed"
  /\ UNCHANGED <<contextVars, wrapperVars, slot, asked>>

LoseDevice ==
  /\ MayLose /\ ~lost
  /\ lost' = TRUE
  /\ UNCHANGED <<batches, done, running, fence, memoryVars, blockIteration, countVars,
                 wrapperVars, hostVars>>

Dropped == pc = "dropped" /\ UNCHANGED vars

Host ==
  \/ \E ok \in BOOLEAN :
       \/ CopyIn(ok) \/ StartIteration(ok) \/ Generate(ok) \/ AcquireImage(ok)
       \/ CopyOut(ok) \/ PresentGenerated(ok) \/ PresentOriginal(ok)
  \/ Idle \/ DropContext \/ WaitLost

Gpu == (Run \/ Complete) /\ UNCHANGED <<wrapperVars, hostVars>>

Next ==
  \/ \E n \in Inserted : Present(n)
  \/ Host
  \/ Gpu
  \/ Close
  \/ LoseDevice
  \/ Dropped

(* The thread inside vkQueuePresentKHR or a destroy call keeps running and *)
(* the GPU works off its queue; the game need not present, nor the device  *)
(* survive.                                                                *)
Fairness == WF_vars(Host) /\ WF_vars(Gpu)

Spec == Init /\ [][Next]_vars /\ Fairness

-----------------------------------------------------------------------------
TypeOK ==
  /\ batches \in Seq(Batches)
  /\ \A i \in 1..Len(batches) : batches[i].layer \in 0..1
  /\ done \in 0..Len(batches) /\ running \subseteq Unfinished
  /\ fence \in [Fences -> {"idle", "pending", "signalled"}]
  /\ lost \in BOOLEAN /\ first \in BOOLEAN /\ fencePending \in BOOLEAN
  /\ unsignaled = FALSE   \* the wrapper never uses the unsignalled protocol
  /\ iteration \in Nat /\ total \in Nat /\ index \in Nat
  /\ syncValue \in Nat /\ internalValue \in Nat
  /\ wIteration \in Nat /\ remaining \in Nat /\ syncCounter \in Nat
  /\ inFlight \in BOOLEAN /\ generated \in BOOLEAN
  /\ slot \in Nat
  /\ asked \in Seq(Inserted)
  /\ pc \in {"idle", "copyin", "prepass", "generate", "image", "copyout",
             "present", "last", "failed", "dropping", "dropped"}

(* The wrapper and the context count the sync timeline independently and   *)
(* never disagree: at every point of a frame the wrapper's sync_counter,   *)
(* the context's sync_value and the last value any submitted batch signals *)
(* differ by exactly what is still to be submitted.                        *)
BetweenFrames ==
  /\ syncCounter = Pending["sync"] /\ syncValue = syncCounter
  /\ remaining = 0 /\ ~generated /\ index = total

BeforeMainPass ==
  /\ syncCounter = Pending["sync"]
  /\ IF index = 0 THEN syncValue = syncCounter ELSE syncValue + 1 = syncCounter
  /\ remaining = total - index /\ remaining > 0 /\ ~generated

BeforeCopyOut ==
  /\ syncCounter + 1 = Pending["sync"] /\ syncValue = Pending["sync"]
  /\ remaining = total - index + 1 /\ index > 0 /\ index <= total /\ generated

InStep ==
  /\ pc \notin {"failed", "dropping", "dropped"} => internalValue = Pending["internal"]
  /\ pc \notin {"idle", "failed", "dropping", "dropped"} => asked # <<>>
  /\ pc \in {"idle", "copyin", "last"} => BetweenFrames
  /\ pc = "prepass" =>
       /\ Pending["sync"] = syncCounter + 1 /\ syncValue = syncCounter
       /\ remaining = 0 /\ ~generated /\ index = total
  /\ pc = "generate" => BeforeMainPass /\ index = slot /\ total = Wanted
  /\ pc \in {"image", "copyout"} => BeforeCopyOut /\ index = slot + 1 /\ total = Wanted
  /\ pc = "present" =>
       /\ index = slot + 1 /\ total = Wanted
       /\ IF index = total THEN BetweenFrames ELSE BeforeMainPass

(* The command buffers that are not recorded for simultaneous use.         *)
Recorded(b) ==
  CASE b.op = "copyin" -> <<"pass", 0>>
    [] b.op = "main" -> <<"param", b.slot>>
    [] b.op = "copyout" -> <<"inner", b.slot>>
    [] OTHER -> <<"pre-pass", 0>>

(* A command buffer is not re-recorded or submitted while an earlier       *)
(* submit of it is unfinished: pass.cb, inner.cb and the parameter buffers *)
(* are all reused from frame to frame.  Nor is a fence.                    *)
ReuseSafe ==
  /\ FenceDiscipline
  /\ \A i, j \in Unfinished :
       batches[i].op # "prepass" /\ Recorded(batches[i]) = Recorded(batches[j]) => i = j

(* Every present of the game ends, and a dropped wrapper is really gone:   *)
(* no fence, timeline or queue wait lasts forever.                         *)
CallsReturn ==
  /\ pc = "copyin" ~> pc \in {"idle", "dropped"}
  /\ pc = "failed" ~> pc = "dropped"

(* The generated frames the swapchain has been given, as what they are.    *)
Shown ==
  [i \in DOMAIN output |->
    <<output[i].image.pair[1], output[i].image.pair[2], output[i].image.slot>>]

(* Seen from the swapchain, generation is a stream of frames in order.     *)
Stream == INSTANCE FrameStream WITH Counts <- Inserted, shown <- Shown

StreamsFrames == Stream!Spec
=============================================================================
