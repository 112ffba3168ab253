--------------------------- MODULE PartialFrames ---------------------------
(***************************************************************************)
(* The other caller of the generation context: bin/validate.rs, which      *)
(* drives it directly, on either protocol, and abandons iterations in the  *)
(* middle (its --partial regression).  It keeps one count of the sync      *)
(* timeline, `value`: the last value it or the context signals.            *)
(* MetalFrames adds a third caller and the specification they run under.   *)
(***************************************************************************)
EXTENDS GenContext

CONSTANTS
  Totals,      \* generated frames per iteration
  MaxFrames,   \* bound on the iterations
  Protocols    \* members of BOOLEAN: the unsignaled argument the caller passes

ASSUME PartialAssumption ==
  Totals \subseteq Nat \ {0} /\ MaxFrames \in Nat /\ Protocols \subseteq BOOLEAN

VARIABLES value, frame, want, protocol, pc

callerVars == <<value, frame, want, protocol, pc>>
vars == <<contextVars, callerVars>>

Init ==
  /\ ContextInit
  /\ value = 0 /\ frame = 0 /\ want = 0
  /\ protocol \in Protocols
  /\ pc = "idle"

(* Mutant: every frame is drawn into the first layer.                      *)
FirstLayer == 0

DrawLayer == frame % 2

(* A frame is drawn into the source: after the last thing the previous     *)
(* iteration signalled, and announced to the pre-pass.                     *)
CopyIn(n) ==
  /\ pc = "idle" /\ frame < MaxFrames
  /\ frame' = frame + 1
  /\ want' = n
  /\ Submit(Batch("copyin", frame + 1, 0, DrawLayer,
                  IF protocol THEN Nothing ELSE Only("sync", value),
                  IF protocol THEN Nothing ELSE Only("sync", value + 1), "none"), fence)
  /\ value' = IF protocol THEN value ELSE value + 1
  /\ pc' = "dispatch"
  /\ UNCHANGED <<done, running, lost, memoryVars, blockIteration, countVars, protocol>>

Start ==
  /\ pc = "dispatch"
  /\ Dispatch(frame, want, protocol, TRUE)
  /\ pc' = "acquire"
  /\ UNCHANGED <<value, frame, want, protocol>>

More == index + 1 < total

Generate ==
  /\ pc = "acquire"
  /\ Acquire(frame, protocol, TRUE)
  /\ pc' = IF ~protocol THEN "copyout" ELSE IF More THEN "acquire" ELSE "idle"
  /\ UNCHANGED <<value, frame, want, protocol>>

(* The frame is read back, and the next main pass announced to, if any.    *)
CopyOut ==
  LET more == index < total
  IN /\ pc = "copyout"
     /\ Submit(Batch("copyout", frame, index, 0, Only("sync", value + 1),
                     Only("sync", IF more THEN value + 2 ELSE 0), "none"), fence)
     /\ value' = IF more THEN value + 2 ELSE value + 1
     /\ pc' = IF more THEN "acquire" ELSE "idle"
     /\ UNCHANGED <<done, running, lost, memoryVars, blockIteration, countVars,
                    frame, want, protocol>>

(* The caller stops short of the frames it dispatched.                     *)
Abandon ==
  /\ pc = "acquire"
  /\ pc' = "idle"
  /\ UNCHANGED <<contextVars, value, frame, want, protocol>>

(* The context is dropped and settles what is left.                        *)
Close ==
  /\ pc = "idle"
  /\ pc' = "dropping"
  /\ UNCHANGED <<contextVars, value, frame, want, protocol>>

Drop ==
  /\ pc = "dropping"
  /\ Settled
  /\ fence' = SettledFence
  /\ fencePending' = FALSE
  /\ pc' = "dropped"
  /\ UNCHANGED <<batches, done, running, lost, memoryVars, blockIteration, first, iteration,
                 total, index, syncValue, internalValue, unsignaled,
                 value, frame, want, protocol>>

Dropped == pc = "dropped" /\ UNCHANGED vars

Gpu == (Run \/ Complete) /\ UNCHANGED callerVars

Next ==
  \/ \E n \in Totals : CopyIn(n)
  \/ Start \/ Generate \/ CopyOut \/ Abandon \/ Close \/ Drop
  \/ Gpu
  \/ Dropped

-----------------------------------------------------------------------------
(* The images of the signalled protocol are intact whatever was abandoned  *)
(* before; the unsignalled one lets iterations overlap and promises none.  *)
SignalledIntact == ~protocol => FramesIntact

(* "the next dispatch and the drop must still return": after a partial     *)
(* iteration, which never submits the completion fence, settle() waits for *)
(* something else that does come.  So do the waits of the Metal worker, for *)
(* the frame before and for the queue.                                      *)
CallsReturn ==
  \A wait \in {"settle", "dispatch", "drain", "dropping"} : pc = wait ~> pc # wait
=============================================================================
