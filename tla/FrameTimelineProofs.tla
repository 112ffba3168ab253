------------------------ MODULE FrameTimelineProofs ------------------------
(***************************************************************************)
(* Proofs about the timeline protocol of shim/context.rs and               *)
(* generator/mod.rs, for any number of frames, any counts of generated     *)
(* frames, any refused submits, with or without device loss.               *)
(*                                                                         *)
(* The inductive invariant of the first half is the agreement of the two   *)
(* sides' counters (InStep) with what it makes of every batch submitted    *)
(* (NeverStalls, SignalsAdvance); neither of the latter is inductive by    *)
(* itself.  The second half adds what the log looks like, why the GPU can  *)
(* only run it in order, and what the images then hold: command buffers    *)
(* and fences are never reused too early, every generated frame is what it *)
(* is presented as, and all of it together implements FrameStream.         *)
(***************************************************************************)
EXTENDS FrameTimeline, TLAPS

USE ContextAssumption, TimelineAssumption

TimelineInv == TypeOK /\ InStep /\ NeverStalls /\ SignalsAdvance

(* What vkQueueSubmit does to the submission log: a batch that waits for   *)
(* nothing beyond what is pending and signals only beyond it is safe.      *)
LEMMA SubmitKeeps ==
  ASSUME batches \in Seq(Batches), NEW b \in Batches, NEW f,
         NeverStalls, SignalsAdvance, Submit(b, f),
         \A s \in Sems : b.wait[s] <= Pending[s],
         \A s \in Sems : b.signal[s] # 0 => b.signal[s] > Pending[s]
  PROVE  /\ batches' \in Seq(Batches)
         /\ Len(batches') = Len(batches) + 1
         /\ \A i \in 1..Len(batches) : batches'[i] = batches[i]
         /\ batches'[Len(batches) + 1] = b
         /\ Pending' = b.after
         /\ NeverStalls' /\ SignalsAdvance'
  <1>1. batches' = Append(batches, b)
    BY DEF Submit
  <1>2. /\ batches' \in Seq(Batches)
        /\ Len(batches') = Len(batches) + 1
        /\ \A i \in 1..Len(batches) : batches'[i] = batches[i]
        /\ batches'[Len(batches) + 1] = b
    BY <1>1
  <1>3. Len(batches) \in Nat
    OBVIOUS
  <1>4. \A i \in 0..Len(batches) : After(i)' = After(i)
    BY <1>2, <1>3 DEF After
  <1>5. Pending' = b.after
    BY <1>2, <1>3 DEF Pending, After
  <1>6. NeverStalls'
    <2> SUFFICES ASSUME NEW i \in 1..Len(batches'), NEW s \in Sems
                 PROVE  batches'[i].wait[s] <= After(i - 1)'[s]
      BY DEF NeverStalls
    <2>1. CASE i \in 1..Len(batches)
      <3>1. i - 1 \in 0..Len(batches)
        BY <2>1, <1>3
      <3> QED
        BY <2>1, <3>1, <1>2, <1>4 DEF NeverStalls
    <2>2. CASE i = Len(batches) + 1
      <3>1. After(i - 1)' = Pending
        BY <2>2, <1>3, <1>4 DEF Pending
      <3> QED
        BY <2>2, <3>1, <1>2
    <2> QED
      BY <2>1, <2>2, <1>2, <1>3
  <1>7. SignalsAdvance'
    <2> SUFFICES ASSUME NEW i \in 1..Len(batches'), NEW s \in Sems, batches'[i].signal[s] # 0
                 PROVE  batches'[i].signal[s] > After(i - 1)'[s]
      BY DEF SignalsAdvance
    <2>1. CASE i \in 1..Len(batches)
      <3>1. i - 1 \in 0..Len(batches)
        BY <2>1, <1>3
      <3> QED
        BY <2>1, <3>1, <1>2, <1>4 DEF SignalsAdvance
    <2>2. CASE i = Len(batches) + 1
      <3>1. After(i - 1)' = Pending
        BY <2>2, <1>3, <1>4 DEF Pending
      <3> QED
        BY <2>2, <3>1, <1>2
    <2> QED
      BY <2>1, <2>2, <1>2, <1>3
  <1> QED
    BY <1>2, <1>5, <1>6, <1>7

(* The values pending on the timelines are numbers.                        *)
LEMMA PendingType ==
  ASSUME batches \in Seq(Batches)
  PROVE  Pending \in [Sems -> Nat]
  <1>1. CASE Len(batches) = 0
    BY <1>1 DEF Pending, After, Nothing
  <1>2. CASE Len(batches) # 0
    <2>1. batches[Len(batches)] \in Batches
      BY <1>2
    <2>2. batches[Len(batches)].after \in [Sems -> Nat]
      BY <2>1 DEF Batches
    <2> QED
      BY <1>2, <2>2 DEF Pending, After
  <1> QED
    BY <1>1, <1>2

(* The two value vectors batches are built from.                           *)
LEMMA VectorTypes ==
  /\ Nothing \in [Sems -> Nat]
  /\ \A s \in Sems : Nothing[s] = 0
  /\ \A m \in Sems, v \in Nat :
       /\ Only(m, v) \in [Sems -> Nat]
       /\ \A s \in Sems : Only(m, v)[s] = IF s = m THEN v ELSE 0
  BY DEF Nothing, Only

(* The start.                                                              *)
LEMMA InitTimelineInv == Init => TimelineInv
  BY DEF Init, ContextInit, TimelineInv, TypeOK, InStep, NeverStalls, SignalsAdvance,
         BetweenFrames, Pending, After, Nothing, Unfinished, Sems

FenceStates == [Fences -> {"idle", "pending", "signalled"}]

(* The queue part of the type invariant survives a submit.                 *)
QueueTypes ==
  /\ batches \in Seq(Batches)
  /\ \A i \in 1..Len(batches) : batches[i].layer \in 0..1
  /\ done \in 0..Len(batches) /\ running \subseteq Unfinished
  /\ fence \in FenceStates

(* A well typed batch leaves the queue well typed.                         *)
LEMMA SubmitTypes ==
  ASSUME QueueTypes, NEW b \in Batches, b.layer \in 0..1, NEW f \in FenceStates,
         Submit(b, f), UNCHANGED <<done, running>>
  PROVE  QueueTypes'
  <1>1. batches' = Append(batches, b)
    BY DEF Submit
  <1>2. /\ batches' \in Seq(Batches)
        /\ Len(batches') = Len(batches) + 1
        /\ \A i \in 1..Len(batches) : batches'[i] = batches[i]
        /\ batches'[Len(batches) + 1] = b
    BY <1>1 DEF QueueTypes
  <1>3. Len(batches) \in Nat /\ done \in 0..Len(batches)
    BY DEF QueueTypes
  <1>4. \A i \in 1..Len(batches') : batches'[i].layer \in 0..1
    <2> TAKE i \in 1..Len(batches')
    <2>1. CASE i \in 1..Len(batches)
      BY <2>1, <1>2 DEF QueueTypes
    <2>2. CASE i = Len(batches) + 1
      BY <2>2, <1>2
    <2> QED
      BY <2>1, <2>2, <1>2, <1>3
  <1>5. done' \in 0..Len(batches') /\ running' \subseteq Unfinished'
    BY <1>2, <1>3 DEF QueueTypes, Unfinished
  <1>6. fence' \in FenceStates
    BY DEF Submit, FenceStates, Batches
  <1> QED
    BY <1>2, <1>4, <1>5, <1>6 DEF QueueTypes

(* The rest of the type invariant: the host's fields.                      *)
HostTypes ==
  /\ lost \in BOOLEAN /\ first \in BOOLEAN /\ fencePending \in BOOLEAN
  /\ unsignaled = FALSE
  /\ iteration \in Nat /\ total \in Nat /\ index \in Nat
  /\ syncValue \in Nat /\ internalValue \in Nat
  /\ wIteration \in Nat /\ remaining \in Nat /\ syncCounter \in Nat
  /\ inFlight \in BOOLEAN /\ generated \in BOOLEAN
  /\ slot \in Nat
  /\ asked \in Seq(Inserted)
  /\ pc \in {"idle", "copyin", "prepass", "generate", "image", "copyout",
             "present", "last", "failed", "dropping", "dropped"}

(* The two parts make up the type invariant.                               *)
LEMMA TypesSplit == TypeOK <=> QueueTypes /\ HostTypes
  BY DEF TypeOK, QueueTypes, HostTypes, FenceStates

(* Steps that submit nothing leave the log and what follows from it alone. *)
LEMMA LogUnchanged ==
  ASSUME UNCHANGED batches
  PROVE  /\ Pending' = Pending
         /\ NeverStalls' <=> NeverStalls
         /\ SignalsAdvance' <=> SignalsAdvance
  BY DEF Pending, After, NeverStalls, SignalsAdvance

(* All of it for one submit: the log stays safe and well typed, and what is *)
(* pending moves to what the batch signals.                                *)
LEMMA SubmitBatch ==
  ASSUME QueueTypes, NeverStalls, SignalsAdvance,
         NEW op \in {"copyin", "prepass", "main", "copyout"},
         NEW fr \in Nat, NEW sl \in Nat, NEW la \in 0..1,
         NEW w \in [Sems -> Nat], NEW g \in [Sems -> Nat],
         NEW f \in Fences \cup {"none"}, NEW fs \in FenceStates,
         Submit(Batch(op, fr, sl, la, w, g, f), fs), UNCHANGED <<done, running>>,
         \A s \in Sems : w[s] <= Pending[s],
         \A s \in Sems : g[s] # 0 => g[s] > Pending[s]
  PROVE  /\ QueueTypes' /\ NeverStalls' /\ SignalsAdvance'
         /\ \A s \in Sems : Pending'[s] = IF g[s] > 0 THEN g[s] ELSE Pending[s]
  <1> DEFINE b == Batch(op, fr, sl, la, w, g, f)
  <1>1. batches \in Seq(Batches) /\ la \in Nat
    BY DEF QueueTypes
  <1>2. /\ b \in Batches /\ b.wait = w /\ b.signal = g /\ b.layer = la
        /\ b.after = [s \in Sems |-> IF g[s] > 0 THEN g[s] ELSE Pending[s]]
    BY <1>1, PendingType DEF Batch, Batches
  <1>3. Submit(b, fs)
    OBVIOUS
  <1> HIDE DEF b
  <1>4. QueueTypes'
    BY <1>2, <1>3, SubmitTypes
  <1>5. NeverStalls' /\ SignalsAdvance' /\ Pending' = b.after
    BY <1>1, <1>2, <1>3, SubmitKeeps
  <1> QED
    BY <1>2, <1>4, <1>5

(* Copying the game's frame in: the wrapper signals its next value.        *)
LEMMA CopyInKeeps ==
  ASSUME TimelineInv, NEW ok \in BOOLEAN, CopyIn(ok)
  PROVE  TimelineInv'
  <1> DEFINE r == IF wIteration # 0 THEN [fence EXCEPT !["wrapper"] = "idle"] ELSE fence
             g == Only("sync", syncCounter + 1)
  <1>1. QueueTypes /\ HostTypes /\ InStep /\ NeverStalls /\ SignalsAdvance
    BY TypesSplit DEF TimelineInv
  <1>2. r \in FenceStates
    BY <1>1 DEF QueueTypes, FenceStates
  <1>3. BetweenFrames /\ internalValue = Pending["internal"] /\ pc = "copyin" /\ asked # <<>>
    BY <1>1 DEF InStep, CopyIn
  <1>4. CASE ok
    <2>1. /\ Submit(Batch("copyin", Frame, 0, Layer, Nothing, g, "none"), r)
          /\ UNCHANGED <<done, running>> /\ pc' = "prepass" /\ inFlight' = TRUE
      BY <1>4 DEF CopyIn
    <2>2. Frame \in Nat /\ Layer \in 0..1 /\ syncCounter + 1 \in Nat
      BY <1>1 DEF Frame, Layer, HostTypes
    <2>3. /\ Nothing \in [Sems -> Nat] /\ \A s \in Sems : Nothing[s] = 0
          /\ g \in [Sems -> Nat] /\ g["sync"] = syncCounter + 1 /\ g["internal"] = 0
      BY <2>2, VectorTypes DEF Sems
    <2>4. Pending \in [Sems -> Nat]
      BY <1>1, PendingType DEF QueueTypes
    <2> HIDE DEF r, g
    <2>5. \A s \in Sems : g[s] # 0 => g[s] > Pending[s]
      BY <1>1, <1>3, <2>3 DEF Sems, BetweenFrames, HostTypes
    <2>6. \A s \in Sems : Nothing[s] <= Pending[s]
      BY <2>3, <2>4
    <2>7. /\ QueueTypes' /\ NeverStalls' /\ SignalsAdvance'
          /\ \A s \in Sems : Pending'[s] = IF g[s] > 0 THEN g[s] ELSE Pending[s]
      <3>1. "none" \in Fences \cup {"none"} /\ 0 \in Nat
        OBVIOUS
      <3>2. Submit(Batch("copyin", Frame, 0, Layer, Nothing, g, "none"), r) /\ UNCHANGED <<done, running>>
        BY <2>1
      <3>3. Nothing \in [Sems -> Nat] /\ g \in [Sems -> Nat] /\ Frame \in Nat /\ Layer \in 0..1
        BY <2>2, <2>3
      <3> QED
        BY <1>1, <1>2, <2>5, <2>6, <3>1, <3>2, <3>3, SubmitBatch, ZenonT(60)
    <2>8. Pending'["sync"] = syncCounter + 1 /\ Pending'["internal"] = Pending["internal"]
      BY <1>1, <2>3, <2>7 DEF Sems, HostTypes
    <2>9. HostTypes'
      BY <1>1, <2>1 DEF CopyIn, HostTypes, countVars
    <2>10. InStep'
      BY <1>3, <2>1, <2>8 DEF CopyIn, InStep, BetweenFrames, countVars
    <2> QED
      BY <2>7, <2>9, <2>10, TypesSplit DEF TimelineInv, TypeOK, QueueTypes, HostTypes, FenceStates
  <1>5. CASE ~ok
    <2>1. UNCHANGED <<batches, done, running>> /\ fence' = r /\ pc' = "failed"
      BY <1>5 DEF CopyIn
    <2> HIDE DEF r
    <2>2. QueueTypes'
      BY <1>1, <1>2, <2>1 DEF QueueTypes, Unfinished
    <2>3. HostTypes'
      BY <1>1, <1>5, <2>1 DEF CopyIn, HostTypes, countVars
    <2>4. InStep'
      BY <2>1 DEF InStep
    <2> QED
      BY <1>1, <2>1, <2>2, <2>3, <2>4, LogUnchanged
         DEF TimelineInv, TypeOK, QueueTypes, HostTypes, FenceStates
  <1> QED
    BY <1>4, <1>5

(* A refused submit: nothing is in the log, and the wrapper is drained.    *)
LEMMA RefusedKeeps ==
  ASSUME TimelineInv, UNCHANGED <<batches, done, running>>, fence' \in FenceStates,
         HostTypes', pc' \in {"failed", "dropping", "dropped"}
  PROVE  TimelineInv'
  <1>1. QueueTypes /\ NeverStalls /\ SignalsAdvance
    BY TypesSplit DEF TimelineInv
  <1>2. QueueTypes'
    BY <1>1 DEF QueueTypes, Unfinished
  <1>3. InStep'
    BY DEF InStep
  <1> QED
    BY <1>1, <1>2, <1>3, LogUnchanged
       DEF TimelineInv, TypeOK, QueueTypes, HostTypes, FenceStates

(* The number of frames wanted of a present is a positive number.          *)
LEMMA WantedType ==
  ASSUME asked \in Seq(Inserted), asked # <<>>
  PROVE  Frame \in Nat /\ Wanted \in Inserted /\ Wanted \in Nat /\ Wanted > 0
  <1>1. Len(asked) \in Nat \ {0}
    OBVIOUS
  <1>2. Wanted \in Inserted
    BY <1>1 DEF Frame, Wanted
  <1>3. Inserted \subseteq Nat \ {0}
    BY TimelineAssumption
  <1> QED
    BY <1>1, <1>2, <1>3 DEF Frame

(* Starting an iteration: the context waits for the copy in, whose value   *)
(* it computes from its own count.                                         *)
LEMMA StartIterationKeeps ==
  ASSUME TimelineInv, NEW ok \in BOOLEAN, StartIteration(ok)
  PROVE  TimelineInv'
  <1> DEFINE sv == syncValue + Partial + 1
             iv == internalValue + 1
             w == Only("sync", sv)
             g == Only("internal", iv)
             f == IF Wanted = 0 THEN "context" ELSE "none"
  <1>1. QueueTypes /\ HostTypes /\ InStep /\ NeverStalls /\ SignalsAdvance
    BY TypesSplit DEF TimelineInv
  <1>2. SettledFence \in FenceStates
    BY <1>1 DEF QueueTypes, FenceStates, SettledFence
  <1>3. /\ pc = "prepass" /\ internalValue = Pending["internal"] /\ asked # <<>>
        /\ Pending["sync"] = syncCounter + 1 /\ syncValue = syncCounter
        /\ remaining = 0 /\ ~generated /\ index = total
    BY <1>1 DEF InStep, StartIteration
  <1>4. Partial = 0
    BY <1>1, <1>3 DEF Partial, HostTypes
  <1>5. /\ UNCHANGED <<done, running, lost, inFlight, generated, asked>>
        /\ syncValue' = sv /\ internalValue' = iv /\ first' = FALSE
        /\ iteration' = IF first THEN 0 ELSE iteration + 1
    BY DEF StartIteration, Dispatch
  <1>6. Frame \in Nat /\ Wanted \in Nat /\ Wanted > 0
    BY <1>1, <1>3, WantedType DEF HostTypes
  <1>7. sv = syncCounter + 1 /\ sv \in Nat /\ iv \in Nat
    BY <1>1, <1>3, <1>4 DEF HostTypes
  <1>8. CASE ok
    <2>1. /\ Submit(Batch("prepass", Frame, 0, 0, w, g, f), SettledFence)
          /\ fencePending' = (Wanted = 0) /\ unsignaled' = FALSE
          /\ total' = Wanted /\ index' = 0 /\ remaining' = Wanted
          /\ syncCounter' = syncCounter + 1 /\ wIteration' = wIteration + 1
          /\ slot' = 0 /\ pc' = "generate"
      BY <1>8 DEF StartIteration, Dispatch, FreshIndex
    <2>2. f \in Fences \cup {"none"} /\ 0 \in Nat /\ 0 \in 0..1
      BY <1>6
    <2>3. /\ w \in [Sems -> Nat] /\ w["sync"] = sv /\ w["internal"] = 0
          /\ g \in [Sems -> Nat] /\ g["sync"] = 0 /\ g["internal"] = iv
      BY <1>7, VectorTypes DEF Sems
    <2>4. Pending \in [Sems -> Nat]
      BY <1>1, PendingType DEF QueueTypes
    <2>5. internalValue \in Nat /\ syncCounter \in Nat
      BY <1>1 DEF HostTypes
    <2>6. iv > Pending["internal"]
      BY <1>3, <2>5
    <2> HIDE DEF w, g, f
    <2>7. /\ \A s \in Sems : w[s] <= Pending[s]
          /\ \A s \in Sems : g[s] # 0 => g[s] > Pending[s]
      BY <1>3, <1>7, <2>3, <2>4, <2>6 DEF Sems
    <2>8. /\ QueueTypes' /\ NeverStalls' /\ SignalsAdvance'
          /\ \A s \in Sems : Pending'[s] = IF g[s] > 0 THEN g[s] ELSE Pending[s]
      BY <1>1, <1>2, <1>5, <1>6, <2>1, <2>2, <2>3, <2>7, SubmitBatch, ZenonT(60)
    <2>9. Pending'["sync"] = Pending["sync"] /\ Pending'["internal"] = iv
      BY <2>3, <2>5, <2>8 DEF Sems
    <2>10. HostTypes'
      <3>1. fencePending' \in BOOLEAN /\ first' \in BOOLEAN
        BY <1>5, <2>1
      <3>2. iteration' \in Nat
        BY <1>1, <1>5 DEF HostTypes
      <3> QED
        BY <1>1, <1>5, <1>6, <1>7, <2>1, <3>1, <3>2 DEF HostTypes
    <2>11. Wanted' = Wanted
      BY <1>5 DEF Wanted, Frame
    <2>12. InStep'
      BY <1>3, <1>5, <1>6, <1>7, <2>1, <2>5, <2>9, <2>11 DEF InStep, BeforeMainPass
    <2> QED
      BY <2>8, <2>10, <2>12, TypesSplit
         DEF TimelineInv, TypeOK, QueueTypes, HostTypes, FenceStates
  <1>9. CASE ~ok
    <2>1. /\ UNCHANGED <<batches, unsignaled, total, index>>
          /\ fence' = SettledFence /\ fencePending' = FALSE /\ pc' = "failed"
          /\ UNCHANGED <<remaining, syncCounter, wIteration, slot>>
      BY <1>9 DEF StartIteration, Dispatch
    <2>2. HostTypes'
      <3>1. iteration' \in Nat
        BY <1>1, <1>5 DEF HostTypes
      <3> QED
        BY <1>1, <1>5, <1>7, <2>1, <3>1 DEF HostTypes
    <2> QED
      BY <1>2, <1>5, <2>1, <2>2, RefusedKeeps
  <1> QED
    BY <1>8, <1>9

(* The main pass: it waits for the previous copy out, or for the pre-pass. *)
LEMMA GenerateKeeps ==
  ASSUME TimelineInv, NEW ok \in BOOLEAN, Generate(ok)
  PROVE  TimelineInv'
  <1> DEFINE before == IF index > 0 THEN syncValue + 1 ELSE syncValue
             w == IF index = 0 THEN Only("internal", internalValue) ELSE Only("sync", before)
             g == Only("sync", before + 1)
             f == IF index = total - 1 THEN "context" ELSE "none"
  <1>1. QueueTypes /\ HostTypes /\ InStep /\ NeverStalls /\ SignalsAdvance
    BY TypesSplit DEF TimelineInv
  <1>2. /\ pc = "generate" /\ internalValue = Pending["internal"] /\ asked # <<>>
        /\ BeforeMainPass /\ index = slot /\ total = Wanted
    BY <1>1 DEF InStep, Generate
  <1>3. /\ UNCHANGED <<done, running, lost, blockIteration, first, iteration, total,
                      internalValue, unsignaled>>
        /\ UNCHANGED <<wIteration, remaining, syncCounter, inFlight, slot, asked>>
        /\ syncValue' = before + 1 /\ generated' = ok
    BY DEF Generate, Acquire
  <1>4. Frame \in Nat /\ Wanted \in Nat
    BY <1>1, <1>2, WantedType DEF HostTypes
  <1>5. /\ syncCounter = Pending["sync"] /\ before = syncCounter
        /\ syncCounter \in Nat /\ index \in Nat /\ total \in Nat /\ syncValue \in Nat
        /\ internalValue \in Nat
        /\ remaining = total - index /\ remaining > 0
    BY <1>1, <1>2 DEF BeforeMainPass, HostTypes
  <1>6. CASE ok
    <2>1. /\ Submit(Batch("main", Frame, index + 1, 0, w, g, f), fence)
          /\ fencePending' = (fencePending \/ index = total - 1)
          /\ index' = index + 1 /\ pc' = "image"
      BY <1>6 DEF Generate, Acquire
    <2>2. f \in Fences \cup {"none"} /\ 0 \in 0..1 /\ index + 1 \in Nat
      BY <1>5 DEF Fences
    <2>3. /\ w \in [Sems -> Nat] /\ w["sync"] \in {0, syncCounter}
          /\ w["internal"] \in {0, internalValue}
          /\ g \in [Sems -> Nat] /\ g["sync"] = syncCounter + 1 /\ g["internal"] = 0
      BY <1>5, VectorTypes DEF Sems
    <2>4. Pending \in [Sems -> Nat] /\ fence \in FenceStates
      BY <1>1, PendingType DEF QueueTypes
    <2> HIDE DEF before, w, g, f
    <2>5. /\ \A s \in Sems : w[s] <= Pending[s]
          /\ \A s \in Sems : g[s] # 0 => g[s] > Pending[s]
      BY <1>2, <1>5, <2>3, <2>4 DEF Sems
    <2>6. /\ QueueTypes' /\ NeverStalls' /\ SignalsAdvance'
          /\ \A s \in Sems : Pending'[s] = IF g[s] > 0 THEN g[s] ELSE Pending[s]
      <3>1. Submit(Batch("main", Frame, index + 1, 0, w, g, f), fence) /\ UNCHANGED <<done, running>>
        BY <1>3, <2>1
      <3>2. /\ w \in [Sems -> Nat] /\ g \in [Sems -> Nat]
        BY <2>3
      <3> QED
        BY <1>1, <1>4, <2>2, <2>4, <2>5, <3>1, <3>2, SubmitBatch, ZenonT(60)
    <2>7. Pending'["sync"] = syncCounter + 1 /\ Pending'["internal"] = Pending["internal"]
      BY <1>5, <2>3, <2>6 DEF Sems
    <2>8. HostTypes'
      BY <1>1, <1>3, <1>5, <1>6, <2>1 DEF HostTypes
    <2>9. Wanted' = Wanted
      BY <1>3 DEF Wanted, Frame
    <2>10. InStep'
      BY <1>2, <1>3, <1>5, <1>6, <2>1, <2>7, <2>9 DEF InStep, BeforeCopyOut
    <2> QED
      BY <2>6, <2>8, <2>10, TypesSplit
         DEF TimelineInv, TypeOK, QueueTypes, HostTypes, FenceStates
  <1>7. CASE ~ok
    <2>1. UNCHANGED <<batches, fence, fencePending, index>> /\ pc' = "failed"
      BY <1>7 DEF Generate, Acquire
    <2>2. HostTypes'
      BY <1>1, <1>3, <1>5, <1>7, <2>1 DEF HostTypes
    <2>3. fence' \in FenceStates
      BY <1>1, <2>1 DEF QueueTypes
    <2> QED
      BY <1>3, <2>1, <2>2, <2>3, RefusedKeeps
  <1> QED
    BY <1>6, <1>7

(* The copy out: it waits for the main pass and lets the next one run.     *)
LEMMA CopyOutKeeps ==
  ASSUME TimelineInv, NEW ok \in BOOLEAN, CopyOut(ok)
  PROVE  TimelineInv'
  <1> DEFINE w == Only("sync", syncCounter + 1)
             g == Only("sync", CopyOutSignal)
  <1>1. QueueTypes /\ HostTypes /\ InStep /\ NeverStalls /\ SignalsAdvance
    BY TypesSplit DEF TimelineInv
  <1>2. /\ pc = "copyout" /\ internalValue = Pending["internal"] /\ asked # <<>>
        /\ BeforeCopyOut /\ index = slot + 1 /\ total = Wanted
    BY <1>1 DEF InStep, CopyOut
  <1>3. /\ UNCHANGED <<done, running, lost, blockIteration, countVars>>
        /\ UNCHANGED <<wIteration, inFlight, slot, asked>>
        /\ generated' = FALSE
    BY DEF CopyOut
  <1>4. Frame \in Nat
    BY <1>1, <1>2, WantedType DEF HostTypes
  <1>5. /\ Pending["sync"] = syncCounter + 1 /\ syncValue = syncCounter + 1
        /\ syncCounter \in Nat /\ index \in Nat /\ total \in Nat /\ slot \in Nat
        /\ remaining \in Nat /\ remaining = total - index + 1 /\ index <= total
    BY <1>1, <1>2 DEF BeforeCopyOut, HostTypes
  <1>6. CASE ok
    <2>1. /\ Submit(Batch("copyout", Frame, slot + 1, 0, w, g, CopyOutFence), fence)
          /\ remaining' = remaining - 1 /\ syncCounter' = CountedCopyOut /\ pc' = "present"
      BY <1>6 DEF CopyOut
    <2>2. CopyOutFence \in Fences \cup {"none"} /\ 0 \in 0..1 /\ slot + 1 \in Nat
      BY <1>5 DEF Fences, CopyOutFence
    <2>3. /\ CopyOutSignal = IF remaining > 1 THEN syncCounter + 2 ELSE 0
          /\ CountedCopyOut = IF remaining > 1 THEN syncCounter + 2 ELSE syncCounter + 1
      BY DEF CopyOutSignal, CountedCopyOut
    <2>4. CopyOutSignal \in Nat /\ syncCounter + 1 \in Nat /\ CountedCopyOut \in Nat
      BY <1>5, <2>3
    <2>5. /\ w \in [Sems -> Nat] /\ w["sync"] = syncCounter + 1 /\ w["internal"] = 0
          /\ g \in [Sems -> Nat] /\ g["sync"] = CopyOutSignal /\ g["internal"] = 0
      BY <2>4, VectorTypes DEF Sems
    <2>6. Pending \in [Sems -> Nat] /\ fence \in FenceStates
      BY <1>1, PendingType DEF QueueTypes
    <2> HIDE DEF w, g
    <2>7. /\ \A s \in Sems : w[s] <= Pending[s]
          /\ \A s \in Sems : g[s] # 0 => g[s] > Pending[s]
      BY <1>5, <2>3, <2>5, <2>6 DEF Sems
    <2>8. /\ QueueTypes' /\ NeverStalls' /\ SignalsAdvance'
          /\ \A s \in Sems : Pending'[s] = IF g[s] > 0 THEN g[s] ELSE Pending[s]
      BY <1>1, <1>3, <1>4, <2>1, <2>2, <2>5, <2>6, <2>7, SubmitBatch, ZenonT(60)
    <2>9. Pending'["sync"] = CountedCopyOut /\ Pending'["internal"] = Pending["internal"]
      BY <1>5, <2>3, <2>5, <2>8 DEF Sems
    <2>10. HostTypes'
      <3>1. remaining' \in Nat
        BY <1>5, <2>1
      <3> QED
        BY <1>1, <1>3, <2>1, <2>4, <3>1 DEF HostTypes, countVars
    <2>11. Wanted' = Wanted
      BY <1>3 DEF Wanted, Frame
    <2>12. InStep'
      BY <1>2, <1>3, <1>5, <2>1, <2>3, <2>9, <2>11
         DEF InStep, BeforeMainPass, BetweenFrames, countVars
    <2> QED
      BY <2>8, <2>10, <2>12, TypesSplit
         DEF TimelineInv, TypeOK, QueueTypes, HostTypes, FenceStates
  <1>7. CASE ~ok
    <2>1. UNCHANGED <<batches, fence, remaining, syncCounter>> /\ pc' = "failed"
      BY <1>7 DEF CopyOut
    <2>2. HostTypes'
      BY <1>1, <1>3, <2>1 DEF HostTypes, countVars
    <2>3. fence' \in FenceStates
      BY <1>1, <2>1 DEF QueueTypes
    <2> QED
      BY <1>3, <2>1, <2>2, <2>3, RefusedKeeps
  <1> QED
    BY <1>6, <1>7

(* A step that submits nothing keeps the invariant if it keeps the types   *)
(* and the agreement of the counters.                                      *)
LEMMA LogKeeps ==
  ASSUME TimelineInv, UNCHANGED batches, QueueTypes', HostTypes', InStep'
  PROVE  TimelineInv'
  BY LogUnchanged DEF TimelineInv, TypeOK, QueueTypes, HostTypes, FenceStates

(* The host's steps that leave the context and the queue alone.            *)
LEMMA HostStepKeeps ==
  ASSUME TimelineInv, UNCHANGED contextVars,
         \/ \E n \in Inserted : Present(n)
         \/ \E ok \in BOOLEAN : AcquireImage(ok) \/ PresentGenerated(ok) \/ PresentOriginal(ok)
         \/ Close \/ Idle \/ WaitLost
  PROVE  TimelineInv'
  <1>1. QueueTypes /\ HostTypes /\ InStep
    BY TypesSplit DEF TimelineInv
  <1>2. UNCHANGED <<queueVars, blockIteration, countVars>>
    BY DEF contextVars
  <1>3. QueueTypes'
    BY <1>1, <1>2 DEF QueueTypes, Unfinished, queueVars
  <1>4. Pending' = Pending
    BY <1>2, LogUnchanged DEF queueVars
  <1>5. CASE \E n \in Inserted : Present(n)
    <2> PICK n \in Inserted : Present(n)
      BY <1>5
    <2>1. asked \in Seq(Inserted) /\ asked' = Append(asked, n)
      BY <1>1 DEF Present, HostTypes
    <2>2. asked' \in Seq(Inserted) /\ asked' # <<>>
      BY <2>1
    <2>3. HostTypes'
      BY <1>1, <1>2, <2>2 DEF Present, HostTypes, queueVars, countVars, wrapperVars
    <2>4. InStep'
      BY <1>1, <1>2, <1>4, <2>2
         DEF Present, InStep, BetweenFrames, countVars, wrapperVars
    <2> QED
      BY <1>2, <1>3, <2>3, <2>4, LogKeeps DEF queueVars
  <1>6. CASE \E ok \in BOOLEAN : AcquireImage(ok) \/ PresentOriginal(ok)
    <2> PICK ok \in BOOLEAN : AcquireImage(ok) \/ PresentOriginal(ok)
      BY <1>6
    <2>1. HostTypes'
      BY <1>1, <1>2
         DEF AcquireImage, PresentOriginal, HostTypes, queueVars, countVars, wrapperVars
    <2>2. Wanted' = Wanted
      BY DEF AcquireImage, PresentOriginal, Wanted, Frame
    <2>3. InStep'
      BY <1>1, <1>2, <1>4, <2>2
         DEF AcquireImage, PresentOriginal, InStep, BetweenFrames, BeforeCopyOut,
             countVars, wrapperVars
    <2> QED
      BY <1>2, <1>3, <2>1, <2>3, LogKeeps DEF queueVars
  <1>7. CASE \E shown \in BOOLEAN : PresentGenerated(shown)
    <2> PICK shown \in BOOLEAN : PresentGenerated(shown)
      BY <1>7
    <2>1. HostTypes'
      BY <1>1, <1>2 DEF PresentGenerated, HostTypes, queueVars, countVars, wrapperVars
    <2>2. Wanted' = Wanted
      BY DEF PresentGenerated, Wanted, Frame
    <2>3. /\ internalValue = Pending["internal"] /\ asked # <<>>
          /\ index = slot + 1 /\ total = Wanted
          /\ IF index = total THEN BetweenFrames ELSE BeforeMainPass
      BY <1>1 DEF PresentGenerated, InStep
    <2>4. index # total => index < total
      BY <1>1, <2>3 DEF BeforeMainPass, HostTypes
    <2>5. BetweenFrames' = BetweenFrames /\ BeforeMainPass' = BeforeMainPass
      BY <1>2, <1>4 DEF PresentGenerated, BetweenFrames, BeforeMainPass, countVars, wrapperVars
    <2>6. /\ slot' = slot + 1
          /\ pc' = IF ~shown THEN "failed"
                   ELSE IF slot + 1 < Wanted THEN "generate" ELSE "last"
          /\ UNCHANGED <<asked, internalValue, index, total>>
      BY <1>2 DEF PresentGenerated, countVars
    <2>7. InStep'
      <3>1. CASE pc' = "generate"
        <4>1. slot + 1 < Wanted
          BY <2>6, <3>1
        <4>2. index # total
          BY <1>1, <2>3, <4>1, WantedType DEF HostTypes
        <4> QED
          BY <1>4, <2>2, <2>3, <2>5, <2>6, <3>1, <4>2 DEF InStep
      <3>2. CASE pc' = "last"
        <4>1. ~(slot + 1 < Wanted)
          BY <2>6, <3>2
        <4>2. index = total
          BY <1>1, <2>3, <2>4, <4>1, WantedType DEF HostTypes
        <4> QED
          BY <1>4, <2>2, <2>3, <2>5, <2>6, <3>2, <4>2 DEF InStep
      <3>3. CASE pc' = "failed"
        BY <3>3 DEF InStep
      <3> QED
        BY <2>6, <3>1, <3>2, <3>3
    <2> QED
      BY <1>2, <1>3, <2>1, <2>7, LogKeeps DEF queueVars
  <1>8. CASE Close \/ Idle \/ WaitLost
    <2>1. HostTypes' /\ pc' \in {"failed", "dropping"}
      BY <1>1, <1>2, <1>8 DEF Close, Idle, WaitLost, HostTypes, queueVars, countVars, wrapperVars
    <2>2. UNCHANGED <<batches, done, running>> /\ fence' \in FenceStates
      BY <1>1, <1>2 DEF QueueTypes, queueVars
    <2> QED
      BY <2>1, <2>2, RefusedKeeps
  <1> QED
    BY <1>5, <1>6, <1>7, <1>8

(* The GPU's steps and the loss of the device.                             *)
LEMMA DeviceStepKeeps ==
  ASSUME TimelineInv, Gpu \/ LoseDevice
  PROVE  TimelineInv'
  <1>1. QueueTypes /\ HostTypes /\ InStep
    BY TypesSplit DEF TimelineInv
  <1>2. UNCHANGED <<batches, countVars, wrapperVars, hostVars>>
    BY DEF Gpu, Run, Complete, LoseDevice
  <1>3. lost' \in BOOLEAN
    BY <1>1 DEF Gpu, Run, Complete, LoseDevice, HostTypes
  <1>4. HostTypes'
    BY <1>1, <1>2, <1>3 DEF HostTypes, countVars, wrapperVars, hostVars
  <1>5. Pending' = Pending
    BY <1>2, LogUnchanged
  <1>6. InStep'
    BY <1>1, <1>2, <1>5
       DEF InStep, BetweenFrames, BeforeMainPass, BeforeCopyOut, Wanted, Frame,
           countVars, wrapperVars, hostVars
  <1>7. QueueTypes'
    <2>1. CASE Run /\ UNCHANGED <<wrapperVars, hostVars>>
      BY <1>1, <2>1 DEF Run, QueueTypes, Unfinished
    <2>2. CASE Complete /\ UNCHANGED <<wrapperVars, hostVars>>
      <3>1. /\ done + 1 \in running /\ done' = done + 1
            /\ running' = running \ {done + 1} /\ batches' = batches
        BY <2>2 DEF Complete
      <3>2. done \in Nat /\ Len(batches) \in Nat /\ done + 1 \in 1..Len(batches)
        BY <1>1, <3>1 DEF QueueTypes, Unfinished
      <3>3. running' \subseteq Unfinished' /\ done' \in 0..Len(batches')
        BY <1>1, <3>1, <3>2 DEF QueueTypes, Unfinished
      <3>4. batches[done + 1].fence \in Fences \cup {"none"}
        <4>1. batches[done + 1] \in Batches
          BY <1>1, <3>2 DEF QueueTypes
        <4> QED
          BY <4>1 DEF Batches
      <3>5. fence' \in FenceStates
        BY <1>1, <2>2, <3>4 DEF Complete, QueueTypes, FenceStates
      <3> QED
        BY <1>1, <3>1, <3>3, <3>5 DEF QueueTypes
    <2>3. CASE LoseDevice
      BY <1>1, <2>3 DEF LoseDevice, QueueTypes, Unfinished
    <2> QED
      BY <2>1, <2>2, <2>3 DEF Gpu
  <1> QED
    BY <1>2, <1>4, <1>6, <1>7, LogKeeps

(* Dropping the wrapper and its context.                                   *)
LEMMA DropKeeps ==
  ASSUME TimelineInv, DropContext
  PROVE  TimelineInv'
  <1>1. QueueTypes /\ HostTypes
    BY TypesSplit DEF TimelineInv
  <1>2. fence' \in FenceStates /\ fencePending' \in BOOLEAN
    BY <1>1 DEF DropContext, QueueTypes, HostTypes, FenceStates, SettledFence
  <1>3. HostTypes'
    BY <1>1, <1>2 DEF DropContext, HostTypes, wrapperVars
  <1>4. UNCHANGED <<batches, done, running>> /\ pc' = "dropped"
    BY DEF DropContext
  <1> QED
    BY <1>2, <1>3, <1>4, RefusedKeeps

(* Steps that change nothing.                                              *)
LEMMA StutterKeeps ==
  ASSUME TimelineInv, UNCHANGED vars
  PROVE  TimelineInv'
  BY DEF TimelineInv, TypeOK, InStep, NeverStalls, SignalsAdvance, BetweenFrames,
         BeforeMainPass, BeforeCopyOut, Pending, After, Wanted, Frame, Unfinished,
         vars, contextVars, queueVars, countVars, wrapperVars, hostVars

(* Every step keeps the counters and the log in step.                      *)
LEMMA NextTimelineInv == TimelineInv /\ [Next]_vars => TimelineInv'
  <1> SUFFICES ASSUME TimelineInv, [Next]_vars
               PROVE  TimelineInv'
    OBVIOUS
  <1>1. CASE \E n \in Inserted : Present(n)
    <2>1. UNCHANGED contextVars
      BY <1>1 DEF Present
    <2> QED
      BY <1>1, <2>1, HostStepKeeps
  <1>2. CASE Host
    <2>1. CASE \E ok \in BOOLEAN : CopyIn(ok) \/ StartIteration(ok) \/ Generate(ok) \/ CopyOut(ok)
      BY <2>1, CopyInKeeps, StartIterationKeeps, GenerateKeeps, CopyOutKeeps
    <2>2. CASE \/ \E ok \in BOOLEAN : AcquireImage(ok) \/ PresentGenerated(ok) \/ PresentOriginal(ok)
               \/ WaitLost
      <3>1. UNCHANGED contextVars
        BY <2>2 DEF AcquireImage, PresentGenerated, PresentOriginal, WaitLost
      <3> QED
        BY <2>2, <3>1, HostStepKeeps
    <2>3. CASE Idle
      <3>1. UNCHANGED contextVars
        BY <2>3 DEF Idle
      <3> QED
        BY <2>3, <3>1, HostStepKeeps
    <2>4. CASE DropContext
      BY <2>4, DropKeeps
    <2> QED
      BY <1>2, <2>1, <2>2, <2>3, <2>4 DEF Host
  <1>3. CASE Gpu \/ LoseDevice
    BY <1>3, DeviceStepKeeps
  <1>4. CASE Close
    <2>1. UNCHANGED contextVars
      BY <1>4 DEF Close
    <2> QED
      BY <1>4, <2>1, HostStepKeeps
  <1>5. CASE Dropped \/ UNCHANGED vars
    BY <1>5, StutterKeeps DEF Dropped
  <1> QED
    BY <1>1, <1>2, <1>3, <1>4, <1>5 DEF Next

(* The counters of the two sides and the log they produced stay in step.   *)
THEOREM TimelineInvariant == Spec => []TimelineInv
  BY InitTimelineInv, NextTimelineInv, PTL DEF Spec

(* Every state of the protocol is well typed.                              *)
THEOREM TimelineTypes == Spec => []TypeOK
  <1>1. TimelineInv => TypeOK
    BY DEF TimelineInv
  <1> QED
    BY <1>1, TimelineInvariant, PTL

(* The wrapper's sync_counter and the context's sync_value never disagree. *)
THEOREM CountersInStep == Spec => []InStep
  <1>1. TimelineInv => InStep
    BY DEF TimelineInv
  <1> QED
    BY <1>1, TimelineInvariant, PTL

(* No batch waits for a timeline value that no earlier batch signals.      *)
THEOREM QueueNeverStalls == Spec => []NeverStalls
  <1>1. TimelineInv => NeverStalls
    BY DEF TimelineInv
  <1> QED
    BY <1>1, TimelineInvariant, PTL

(* Every timeline only ever moves forward.                                 *)
THEOREM TimelinesAdvance == Spec => []SignalsAdvance
  <1>1. TimelineInv => SignalsAdvance
    BY DEF TimelineInv
  <1> QED
    BY <1>1, TimelineInvariant, PTL
-----------------------------------------------------------------------------
(* The log itself.  What a batch is for says where it may stand: a frame   *)
(* is its copy in, its pre-pass, and a main pass and a copy out per slot.  *)

(* Whether c is what comes right after b.                                  *)
Follows(b, c) ==
  CASE b.op = "copyin" -> c.op = "prepass" /\ c.frame = b.frame
    [] b.op = "prepass" -> c.op = "main" /\ c.frame = b.frame /\ c.slot = 1
    [] b.op = "main" -> c.op = "copyout" /\ c.frame = b.frame /\ c.slot = b.slot
    [] b.op = "copyout" ->
         IF b.slot < asked[b.frame]
         THEN c.op = "main" /\ c.frame = b.frame /\ c.slot = b.slot + 1
         ELSE c.op = "copyin" /\ c.frame = b.frame + 1

(* The place of a batch in its frame.                                      *)
Rank(b) ==
  CASE b.op = "copyin" -> 0
    [] b.op = "prepass" -> 1
    [] b.op = "main" -> 2 * b.slot
    [] b.op = "copyout" -> 2 * b.slot + 1

Before(b, c) == b.frame < c.frame \/ (b.frame = c.frame /\ Rank(b) < Rank(c))

(* The layer a frame is copied to, and the fence its last passes carry.    *)
LayerOf(f) == (f + 1) % 2
FenceOf(b) ==
  IF b.op = "main" /\ b.slot = asked[b.frame] THEN "context"
  ELSE IF b.op = "copyout" /\ b.slot = asked[b.frame] THEN "wrapper"
  ELSE "none"

WellMade(b) ==
  /\ b.frame \in 1..Frame
  /\ b.op \in {"main", "copyout"} => b.slot \in 1..asked[b.frame]
  /\ b.op = "copyin" => b.layer = LayerOf(b.frame)
  /\ b.fence = FenceOf(b)

Opens(b) == b.op = "copyin" /\ b.frame = 1

Last == batches[Len(batches)]

Log ==
  /\ \A i \in 1..Len(batches) : WellMade(batches[i])
  /\ batches # <<>> => Opens(batches[1])
  /\ \A i \in 1..(Len(batches) - 1) : Follows(batches[i], batches[i + 1])
  /\ \A i, j \in 1..Len(batches) : i < j => Before(batches[i], batches[j])

(* Where the log ends at each point of a frame.                            *)
Ended(f) ==
  IF f = 0 THEN batches = <<>>
  ELSE batches # <<>> /\ Last.op = "copyout" /\ Last.frame = f /\ Last.slot = asked[f]

Ends(op, k) == batches # <<>> /\ Last.op = op /\ Last.frame = Frame /\ Last.slot = k

LogEnd ==
  /\ pc \in {"idle", "last"} => Ended(Frame) /\ wIteration = Frame
  /\ pc = "copyin" => Ended(Frame - 1) /\ wIteration = Frame - 1
  /\ pc = "prepass" => Ends("copyin", 0) /\ wIteration = Frame - 1
  /\ pc = "generate" =>
       /\ IF slot = 0 THEN Ends("prepass", 0) ELSE Ends("copyout", slot)
       /\ slot < Wanted /\ wIteration = Frame
  /\ pc \in {"image", "copyout"} => Ends("main", slot + 1) /\ slot < Wanted /\ wIteration = Frame
  /\ pc = "present" => Ends("copyout", slot + 1) /\ slot < Wanted /\ wIteration = Frame
  /\ pc \in {"idle", "copyin", "prepass", "generate", "image", "copyout", "present", "last"} =>
       IF wIteration = 0 THEN first
       ELSE ~first /\ iteration = wIteration - 1 /\ blockIteration = iteration

-----------------------------------------------------------------------------
(* The waits.  Each batch but a copy in waits for a value that only the    *)
(* one before it signals, and a copy in is submitted to an empty queue: so *)
(* the GPU, free as it is, runs them in order.                             *)

(* No batch before the last reaches what is pending on s.                  *)
Fresh(s) == \A k \in 0..(Len(batches) - 1) : After(k)[s] < Pending[s]

Rising == \A k \in 0..Len(batches), s \in Sems : After(k)[s] <= Pending[s]

Chained ==
  \A i \in 1..Len(batches) :
    batches[i].op # "copyin" =>
      \E s \in Sems : \A k \in 0..(i - 2) : After(k)[s] < batches[i].wait[s]

Awaited ==
  /\ pc \in {"prepass", "image", "copyout"} => Fresh("sync")
  /\ pc = "generate" => Fresh(IF index = 0 THEN "internal" ELSE "sync")
  /\ pc = "present" /\ remaining > 0 => Fresh("sync")

(* What is unfinished belongs to one frame, whose parameters are written.  *)
Underway ==
  /\ running \subseteq {done + 1}
  /\ \A i \in Unfinished :
       /\ batches[i].frame = Last.frame
       /\ batches[i].op = "copyin" => i = done + 1
       /\ batches[i].op \in {"prepass", "main"} => blockIteration = batches[i].frame - 1
  /\ \A f \in Fences : fence[f] = "pending" <=> \E i \in Unfinished : batches[i].fence = f

-----------------------------------------------------------------------------
(* Memory.  Batches take effect in order, so what the images hold is a     *)
(* matter of the last one that did.                                        *)
Effected == IF running = {} THEN done ELSE done + 1

Pair(f) == <<f - 1, f>>

(* The next frame to be copied out.                                        *)
NextAfter(b) ==
  CASE b.op = "copyout" ->
         IF b.slot < asked[b.frame] THEN <<b.frame, b.slot + 1>> ELSE <<b.frame + 1, 1>>
    [] b.op = "main" -> <<b.frame, b.slot>>
    [] OTHER -> <<b.frame, 1>>

(* What the images hold once b has taken effect.                           *)
Holds(b) ==
  /\ source[LayerOf(b.frame)] = b.frame
  /\ source[1 - LayerOf(b.frame)] = b.frame - 1
  /\ b.op # "copyin" => features = Pair(b.frame)
  /\ b.op \in {"main", "copyout"} =>
       destination = [pair |-> Pair(b.frame), of |-> Pair(b.frame), slot |-> b.slot]
  /\ Stream!Upcoming = NextAfter(b)

(* An output as it has to be: the frame it is presented as.                *)
Intact(o) ==
  /\ o.frame \in 1..Frame /\ o.slot \in 1..asked[o.frame]
  /\ o = [frame |-> o.frame, slot |-> o.slot,
          image |-> [pair |-> Pair(o.frame), of |-> Pair(o.frame), slot |-> o.slot]]

Outputs ==
  [frame : Nat, slot : Nat,
   image : [pair : Int \X Int, of : Int \X Int, slot : Nat]]

Memory ==
  /\ source \in [0..1 -> Nat]
  /\ output \in Seq(Outputs)
  /\ \A i \in 1..Len(output) : Intact(output[i])
  /\ IF Effected = 0
     THEN source = [l \in 0..1 |-> 0] /\ Stream!Upcoming = <<1, 1>>
     ELSE Holds(batches[Effected])

StreamInv ==
  /\ TimelineInv
  /\ Log /\ LogEnd
  /\ Rising /\ Chained /\ Awaited
  /\ Underway
  /\ Memory

-----------------------------------------------------------------------------
(* The parts of a log the steps are about.                                 *)
Typed == QueueTypes /\ asked \in Seq(Inserted)

(* Every frame asks for at least one generated frame.                      *)
LEMMA AskedTypes ==
  ASSUME asked \in Seq(Inserted)
  PROVE  Frame \in Nat /\ \A f \in 1..Frame : asked[f] \in Inserted /\ asked[f] \in Nat /\ asked[f] > 0
  <1>1. Inserted \subseteq Nat \ {0}
    BY TimelineAssumption
  <1>2. Len(asked) \in Nat /\ \A f \in 1..Len(asked) : asked[f] \in Inserted
    OBVIOUS
  <1>3. \A f \in 1..Len(asked) : asked[f] \in Nat \ {0}
    BY <1>1, <1>2
  <1> QED
    BY <1>2, <1>3 DEF Frame

(* What vkQueueSubmit leaves of the log, and what it adds.                 *)
LEMMA Appended ==
  ASSUME batches \in Seq(Batches), NEW b \in Batches, batches' = Append(batches, b)
  PROVE  /\ batches' \in Seq(Batches) /\ Len(batches) \in Nat
         /\ Len(batches') = Len(batches) + 1
         /\ \A i \in 1..Len(batches) : batches'[i] = batches[i]
         /\ batches'[Len(batches) + 1] = b
         /\ Last' = b
         /\ \A i \in 0..Len(batches) : After(i)' = After(i)
         /\ Pending' = b.after
  <1>1. /\ batches' \in Seq(Batches) /\ Len(batches) \in Nat
        /\ Len(batches') = Len(batches) + 1
        /\ \A i \in 1..Len(batches) : batches'[i] = batches[i]
        /\ batches'[Len(batches) + 1] = b
    OBVIOUS
  <1>2. Last' = b
    BY <1>1 DEF Last
  <1>3. \A i \in 0..Len(batches) : After(i)' = After(i)
    BY <1>1 DEF After
  <1>4. Pending' = b.after
    BY <1>1 DEF Pending, After
  <1> QED
    BY <1>1, <1>2, <1>3, <1>4

(* The fields of a batch the order is made of, and its rank.               *)
LEMMA RankType ==
  ASSUME NEW b \in Batches
  PROVE  Rank(b) \in Nat /\ b.frame \in Nat /\ b.slot \in Nat
         /\ b.op \in {"copyin", "prepass", "main", "copyout"}
  <1>1. b.frame \in Nat /\ b.slot \in Nat /\ b.op \in {"copyin", "prepass", "main", "copyout"}
    BY DEF Batches
  <1> QED
    BY <1>1 DEF Rank

(* The rank of each kind of batch.                                         *)
LEMMA RankOf ==
  ASSUME NEW b
  PROVE  /\ b.op = "copyin" => Rank(b) = 0
         /\ b.op = "prepass" => Rank(b) = 1
         /\ b.op = "main" => Rank(b) = 2 * b.slot
         /\ b.op = "copyout" => Rank(b) = 2 * b.slot + 1
  BY DEF Rank

(* What comes right after a batch comes after it.                          *)
LEMMA FollowsBefore ==
  ASSUME NEW b \in Batches, NEW c \in Batches, Follows(b, c)
  PROVE  Before(b, c)
  <1> USE RankOf, RankType
  <1>1. CASE b.op = "copyin"
    BY <1>1 DEF Follows, Before
  <1>2. CASE b.op = "prepass"
    BY <1>2 DEF Follows, Before
  <1>3. CASE b.op = "main"
    BY <1>3 DEF Follows, Before
  <1>4. CASE b.op = "copyout"
    BY <1>4 DEF Follows, Before
  <1> QED
    BY <1>1, <1>2, <1>3, <1>4

(* The order of the batches is transitive.                                 *)
LEMMA BeforeTransitive ==
  ASSUME NEW b \in Batches, NEW c \in Batches, NEW d \in Batches, Before(b, c), Before(c, d)
  PROVE  Before(b, d)
  BY RankType DEF Before

(* A batch that comes next keeps the log in order.                         *)
LEMMA LogAppend ==
  ASSUME Typed, Log, NEW b \in Batches, batches' = Append(batches, b), asked' = asked,
         WellMade(b), IF batches = <<>> THEN Opens(b) ELSE Follows(Last, b)
  PROVE  Log'
  <1> DEFINE n == Len(batches)
  <1>1. /\ batches' \in Seq(Batches) /\ n \in Nat /\ Len(batches') = n + 1
        /\ \A i \in 1..n : batches'[i] = batches[i] /\ batches[i] \in Batches
        /\ batches'[n + 1] = b
    BY Appended DEF Typed, QueueTypes
  <1> HIDE DEF n
  <1>2. \A i \in 1..Len(batches') : WellMade(batches[i])' 
    <2> TAKE i \in 1..Len(batches')
    <2>1. CASE i \in 1..n
      <3>1. WellMade(batches[i])
        BY <2>1 DEF Log, n
      <3> QED
        BY <1>1, <2>1, <3>1 DEF WellMade, FenceOf, Frame
    <2>2. CASE i = n + 1
      BY <1>1, <2>2 DEF WellMade, FenceOf, Frame
    <2> QED
      BY <1>1, <2>1, <2>2
  <1>3. Opens(batches'[1])
    <2>1. CASE batches = <<>>
      BY <1>1, <2>1 DEF n
    <2>2. CASE batches # <<>>
      <3>1. n > 0
        BY <2>2 DEF n, Typed, QueueTypes
      <3> QED
        BY <1>1, <2>2, <3>1 DEF Log
    <2> QED
      BY <2>1, <2>2
  <1>4. \A i \in 1..(Len(batches') - 1) : Follows(batches[i], batches[i + 1])'
    <2> TAKE i \in 1..(Len(batches') - 1)
    <2>1. CASE i \in 1..(n - 1)
      <3>1. Follows(batches[i], batches[i + 1])
        BY <2>1 DEF Log, n
      <3>2. batches'[i] = batches[i] /\ batches'[i + 1] = batches[i + 1]
        BY <1>1, <2>1
      <3> QED
        BY <3>1, <3>2 DEF Follows
    <2>2. CASE i = n /\ n > 0
      <3>1. batches # <<>>
        BY <2>2 DEF n
      <3>2. Follows(batches[i], b) /\ batches'[i] = batches[i] /\ batches'[i + 1] = b
        BY <1>1, <2>2, <3>1 DEF Last, n
      <3> QED
        BY <3>2 DEF Follows
    <2> QED
      BY <1>1, <2>1, <2>2
  <1>5. \A i \in 1..n : Before(batches[i], b)
    <2> SUFFICES ASSUME NEW i \in 1..n PROVE Before(batches[i], b)
      OBVIOUS
    <2>1. batches # <<>> /\ Last = batches[n] /\ Last \in Batches /\ batches[i] \in Batches
      BY <1>1 DEF Last, n
    <2>2. Before(Last, b)
      BY <2>1, FollowsBefore
    <2>3. CASE i = n
      BY <2>1, <2>2, <2>3
    <2>4. CASE i < n
      <3>1. Before(batches[i], batches[n])
        BY <1>1, <2>4 DEF Log, n
      <3> QED
        BY <2>1, <2>2, <3>1, BeforeTransitive
    <2> QED
      BY <1>1, <2>3, <2>4
  <1>6. \A i, j \in 1..Len(batches') : i < j => Before(batches[i], batches[j])'
    <2> SUFFICES ASSUME NEW i \in 1..Len(batches'), NEW j \in 1..Len(batches'), i < j
                 PROVE  Before(batches[i], batches[j])'
      OBVIOUS
    <2>1. CASE j \in 1..n
      <3>1. i \in 1..n
        BY <1>1, <2>1
      <3>2. Before(batches[i], batches[j])
        BY <2>1, <3>1 DEF Log, n
      <3> QED
        BY <1>1, <2>1, <3>1, <3>2 DEF Before, Rank
    <2>2. CASE j = n + 1
      <3>1. i \in 1..n
        BY <1>1, <2>2
      <3>2. Before(batches[i], b)
        BY <1>5, <3>1
      <3> QED
        BY <1>1, <2>2, <3>1, <3>2 DEF Before, Rank
    <2> QED
      BY <1>1, <2>1, <2>2
  <1> QED
    BY <1>2, <1>3, <1>4, <1>6 DEF Log, Opens

(* The waits of a batch that waits for what is pending, and of a copy in.  *)
LEMMA WaitsAppend ==
  ASSUME Typed, Rising, Chained, NEW b \in Batches, batches' = Append(batches, b),
         b.after = [s \in Sems |-> IF b.signal[s] > 0 THEN b.signal[s] ELSE Pending[s]],
         \A s \in Sems : b.signal[s] # 0 => b.signal[s] > Pending[s],
         b.op = "copyin" \/ \E s \in Sems : b.wait[s] = Pending[s] /\ Fresh(s)
  PROVE  /\ Rising' /\ Chained'
         /\ \A s \in Sems : b.signal[s] # 0 => Fresh(s)'
  <1> DEFINE n == Len(batches)
  <1>1. /\ n \in Nat /\ Len(batches') = n + 1
        /\ \A i \in 1..n : batches'[i] = batches[i]
        /\ batches'[n + 1] = b
        /\ \A i \in 0..n : After(i)' = After(i)
        /\ Pending' = b.after
    BY Appended DEF Typed, QueueTypes
  <1>2. Pending \in [Sems -> Nat]
    BY PendingType DEF Typed, QueueTypes
  <1>3. \A k \in 0..n : After(k) \in [Sems -> Nat]
    <2> TAKE k \in 0..n
    <2>1. CASE k = 0
      BY <2>1, VectorTypes DEF After
    <2>2. CASE k # 0
      <3>1. batches[k] \in Batches
        BY <1>1, <2>2 DEF Typed, QueueTypes
      <3> QED
        BY <2>2, <3>1 DEF After, Batches
    <2> QED
      BY <2>1, <2>2
  <1>4. b.signal \in [Sems -> Nat] /\ b.wait \in [Sems -> Nat]
    BY DEF Batches
  <1>5. \A k \in 0..n, s \in Sems : After(k)[s] <= Pending[s]
    BY DEF Rising, n
  <1> HIDE DEF n
  <1>6. \A s \in Sems : b.after[s] = IF b.signal[s] > 0 THEN b.signal[s] ELSE Pending[s]
    OBVIOUS
  <1>7. \A s \in Sems : Pending[s] <= b.after[s] /\ Pending[s] \in Nat /\ b.after[s] \in Nat
    <2> TAKE s \in Sems
    <2>1. b.signal[s] \in Nat /\ Pending[s] \in Nat
      BY <1>2, <1>4
    <2>2. b.signal[s] # 0 => b.signal[s] > Pending[s]
      OBVIOUS
    <2> QED
      BY <1>6, <2>1, <2>2
  <1>8. Rising'
    <2> SUFFICES ASSUME NEW k \in 0..(n + 1), NEW s \in Sems
                 PROVE  After(k)'[s] <= Pending'[s]
      BY <1>1 DEF Rising
    <2>1. CASE k = n + 1
      <3>1. After(k)' = Pending'
        BY <1>1, <2>1 DEF Pending
      <3> QED
        BY <1>1, <1>7, <3>1
    <2>2. CASE k \in 0..n
      <3>1. After(k)[s] <= Pending[s] /\ After(k)[s] \in Nat
        BY <1>3, <1>5, <2>2
      <3> QED
        BY <1>1, <1>7, <2>2, <3>1
    <2> QED
      BY <1>1, <2>1, <2>2
  <1>9. ASSUME NEW s \in Sems, b.signal[s] # 0
        PROVE  Fresh(s)'
    <2> SUFFICES ASSUME NEW k \in 0..n
                 PROVE  After(k)'[s] < Pending'[s]
      BY <1>1 DEF Fresh
    <2>1. After(k)[s] <= Pending[s] /\ After(k)[s] \in Nat /\ Pending[s] \in Nat
      BY <1>2, <1>3, <1>5
    <2>2. b.signal[s] > Pending[s] /\ b.after[s] = b.signal[s] /\ b.signal[s] \in Nat
      BY <1>4, <1>6, <1>9
    <2> QED
      BY <1>1, <2>1, <2>2
  <1>10. Chained'
    <2> SUFFICES ASSUME NEW i \in 1..(n + 1), batches'[i].op # "copyin"
                 PROVE  \E s \in Sems : \A k \in 0..(i - 2) : After(k)'[s] < batches'[i].wait[s]
      BY <1>1 DEF Chained
    <2>1. CASE i \in 1..n
      <3>1. PICK s \in Sems : \A k \in 0..(i - 2) : After(k)[s] < batches[i].wait[s]
        BY <1>1, <2>1 DEF Chained, n
      <3>2. \A k \in 0..(i - 2) : After(k)'[s] < batches'[i].wait[s]
        BY <1>1, <2>1, <3>1
      <3> QED
        BY <3>2
    <2>2. CASE i = n + 1
      <3>1. PICK s \in Sems : b.wait[s] = Pending[s] /\ Fresh(s)
        BY <1>1, <2>2
      <3>2. \A k \in 0..(i - 2) : After(k)'[s] < batches'[i].wait[s]
        BY <1>1, <2>2, <3>1 DEF Fresh, n
      <3> QED
        BY <3>2
    <2> QED
      BY <1>1, <2>1, <2>2
  <1> QED
    BY <1>8, <1>9, <1>10

(* A batch of the frame under way, or the first of the next.               *)
LEMMA UnderwayAppend ==
  ASSUME Typed, Underway, NEW b \in Batches, NEW fs \in FenceStates, Submit(b, fs),
         UNCHANGED <<done, running>>,
         \A f \in Fences : fs[f] = "pending" <=> \E i \in Unfinished : batches[i].fence = f,
         Unfinished = {} \/ (b.frame = Last.frame /\ b.op # "copyin"),
         \A i \in Unfinished :
           batches[i].op \in {"prepass", "main"} => blockIteration' = batches[i].frame - 1,
         b.op \in {"prepass", "main"} => blockIteration' = b.frame - 1
  PROVE  Underway'
  <1> DEFINE n == Len(batches)
  <1>1. /\ n \in Nat /\ Len(batches') = n + 1
        /\ \A i \in 1..n : batches'[i] = batches[i]
        /\ batches'[n + 1] = b
        /\ Last' = b
    BY Appended DEF Typed, QueueTypes, Submit
  <1>2. done \in 0..n
    BY DEF Typed, QueueTypes
  <1>3. Unfinished = (done + 1)..n
    BY DEF Unfinished
  <1> HIDE DEF n
  <1>4. Unfinished' = (done + 1)..(n + 1)
    BY <1>1 DEF Unfinished
  <1>5. /\ Unfinished' = Unfinished \cup {n + 1}
        /\ \A i \in Unfinished : batches'[i] = batches[i]
    BY <1>1, <1>2, <1>3, <1>4
  <1>6. Unfinished = {} => n + 1 = done + 1
    BY <1>1, <1>2, <1>3
  <1>7. running' \subseteq {done' + 1}
    BY DEF Underway
  <1>8. \A i \in Unfinished' :
          /\ batches'[i].frame = Last'.frame
          /\ batches'[i].op = "copyin" => i = done' + 1
          /\ batches'[i].op \in {"prepass", "main"} => blockIteration' = batches'[i].frame - 1
    <2> TAKE i \in Unfinished'
    <2>1. CASE i \in Unfinished
      <3>1. /\ batches[i].frame = Last.frame
            /\ batches[i].op = "copyin" => i = done + 1
        BY <2>1 DEF Underway
      <3>2. b.frame = Last.frame
        BY <2>1
      <3> QED
        BY <1>1, <1>5, <2>1, <3>1, <3>2
    <2>2. CASE i = n + 1
      BY <1>1, <1>6, <2>2
    <2> QED
      BY <1>5, <2>1, <2>2
  <1>9. ASSUME NEW f \in Fences
        PROVE  fence'[f] = "pending" <=> \E i \in Unfinished' : batches'[i].fence = f
    <2>1. (\E i \in Unfinished' : batches'[i].fence = f)
          <=> (\E i \in Unfinished : batches[i].fence = f) \/ b.fence = f
      BY <1>1, <1>5
    <2>2. fence' = IF b.fence = "none" THEN fs ELSE [fs EXCEPT ![b.fence] = "pending"]
      BY DEF Submit
    <2>3. f # "none" /\ DOMAIN fs = Fences
      BY DEF Fences, FenceStates
    <2>4. fence'[f] = "pending" <=> fs[f] = "pending" \/ b.fence = f
      BY <2>2, <2>3
    <2> QED
      BY <2>1, <2>4
  <1> QED
    BY <1>7, <1>8, <1>9 DEF Underway

(* What is submitted, or completed, changes nothing of what took effect.   *)
LEMMA MemoryKept ==
  ASSUME Memory, UNCHANGED <<memoryVars, asked>>, Effected' = Effected,
         Effected # 0 => batches'[Effected] = batches[Effected]
  PROVE  Memory'
  <1>1. UNCHANGED <<source, features, destination, output, asked>>
    BY DEF memoryVars
  <1>2. Stream!Upcoming' = Stream!Upcoming
    BY <1>1 DEF Stream!Upcoming, Shown
  <1>3. \A i \in 1..Len(output) : Intact(output[i])'
    <2> TAKE i \in 1..Len(output)
    <2>1. Intact(output[i])
      BY DEF Memory
    <2> QED
      BY <1>1, <2>1 DEF Intact, Frame
  <1>4. CASE Effected = 0
    BY <1>1, <1>2, <1>3, <1>4 DEF Memory
  <1>5. CASE Effected # 0
    <2> DEFINE b == batches[Effected]
    <2>1. Holds(b)
      BY <1>5 DEF Memory
    <2>2. batches'[Effected'] = b
      BY <1>5
    <2> HIDE DEF b
    <2>3. Holds(batches[Effected])'
      BY <1>1, <1>2, <2>1, <2>2 DEF Holds, NextAfter
    <2> QED
      BY <1>1, <1>3, <1>5, <2>3 DEF Memory
  <1> QED
    BY <1>4, <1>5

(* The last batch that took effect is in the log; what runs is next.       *)
LEMMA EffectedType ==
  ASSUME Typed, Underway
  PROVE  /\ Effected \in 0..Len(batches) /\ Len(batches) \in Nat /\ done \in Nat
         /\ running # {} => done + 1 \in Unfinished
  <1>1. done \in 0..Len(batches) /\ Len(batches) \in Nat
    BY DEF Typed, QueueTypes
  <1>2. running \subseteq (done + 1)..Len(batches) /\ running \subseteq {done + 1}
    BY DEF Typed, QueueTypes, Underway, Unfinished
  <1>3. ASSUME running # {}
        PROVE  done + 1 \in Unfinished /\ done + 1 \in 1..Len(batches)
    <2>1. PICK i \in running : i = done + 1 /\ i \in (done + 1)..Len(batches)
      BY <1>2, <1>3
    <2> QED
      BY <1>1, <2>1 DEF Unfinished
  <1> QED
    BY <1>1, <1>3 DEF Effected

(* A submit takes no effect yet.                                           *)
LEMMA MemoryAppend ==
  ASSUME Typed, Underway, Memory, NEW b \in Batches, batches' = Append(batches, b),
         UNCHANGED <<done, running, memoryVars, asked>>
  PROVE  Memory'
  <1>1. Effected' = Effected
    BY DEF Effected
  <1>2. Effected # 0 => batches'[Effected] = batches[Effected]
    BY EffectedType, Appended DEF Typed, QueueTypes
  <1> QED
    BY <1>1, <1>2, MemoryKept

(* Unfinished batches of one frame differ in their rank.                   *)
LEMMA SamePlace ==
  ASSUME Typed, Log, Underway, NEW i \in Unfinished, NEW j \in Unfinished,
         Rank(batches[i]) = Rank(batches[j])
  PROVE  i = j
  <1>1. i \in 1..Len(batches) /\ j \in 1..Len(batches)
    BY DEF Typed, QueueTypes, Unfinished
  <1>2. batches[i].frame = batches[j].frame
    BY DEF Underway
  <1>3. batches[i] \in Batches /\ batches[j] \in Batches
    BY <1>1 DEF Typed, QueueTypes
  <1>4. Rank(batches[i]) \in Nat /\ batches[i].frame \in Nat
    BY <1>3, RankType
  <1>5. ~Before(batches[i], batches[j]) /\ ~Before(batches[j], batches[i])
    BY <1>2, <1>4 DEF Before
  <1>6. ~(i < j) /\ ~(j < i)
    BY <1>1, <1>5 DEF Log
  <1> QED
    BY <1>1, <1>6

(* Of the unfinished batches at most one carries a fence.                  *)
LEMMA OneUser ==
  ASSUME Typed, Log, Underway, NEW i \in Unfinished, NEW j \in Unfinished,
         batches[i].fence \in Fences, batches[i].fence = batches[j].fence
  PROVE  i = j
  <1>1. i \in 1..Len(batches) /\ j \in 1..Len(batches)
    BY DEF Typed, QueueTypes, Unfinished
  <1>2. batches[i].frame = batches[j].frame
    BY DEF Underway
  <1>3. batches[i].fence = FenceOf(batches[i]) /\ batches[j].fence = FenceOf(batches[j])
    BY <1>1 DEF Log, WellMade
  <1>4. batches[i].fence # "none"
    BY DEF Fences
  <1>5. /\ batches[i].op = batches[j].op /\ batches[i].slot = batches[j].slot
        /\ batches[i].op \in {"main", "copyout"}
    BY <1>2, <1>3, <1>4 DEF FenceOf
  <1>6. Rank(batches[i]) = Rank(batches[j])
    BY <1>5, RankOf
  <1> QED
    BY <1>6, SamePlace

(* What the invariant says of types.                                      *)
LEMMA StreamTypes ==
  ASSUME StreamInv
  PROVE  /\ Typed /\ QueueTypes /\ HostTypes /\ InStep
         /\ batches \in Seq(Batches) /\ Len(batches) \in Nat
         /\ Frame \in Nat /\ wIteration \in Nat /\ slot \in Nat
  <1>1. QueueTypes /\ HostTypes /\ InStep
    BY TypesSplit DEF StreamInv, TimelineInv
  <1> QED
    BY <1>1, AskedTypes DEF Typed, QueueTypes, HostTypes

(* The host moves on: it submits nothing, and asks for nothing.            *)
LEMMA QuietKeeps ==
  ASSUME StreamInv, TimelineInv', LogEnd', Awaited',
         UNCHANGED <<batches, done, running, asked, memoryVars>>,
         \A f \in Fences : fence'[f] = "pending" <=> fence[f] = "pending",
         \A i \in Unfinished :
           batches[i].op \in {"prepass", "main"} => blockIteration' = blockIteration
  PROVE  StreamInv'
  <1>1. Log /\ Rising /\ Chained /\ Underway /\ Memory
    BY DEF StreamInv
  <1>2. Log'
    <2>1. \A i \in 1..Len(batches) : WellMade(batches[i])'
      BY <1>1 DEF Log, WellMade, FenceOf, Frame
    <2>2. \A i \in 1..(Len(batches) - 1) : Follows(batches[i], batches[i + 1])'
      BY <1>1 DEF Log, Follows
    <2>3. \A i, j \in 1..Len(batches) : i < j => Before(batches[i], batches[j])'
      BY <1>1 DEF Log, Before, Rank
    <2> QED
      BY <1>1, <2>1, <2>2, <2>3 DEF Log, Opens
  <1>3. Rising' /\ Chained'
    BY <1>1 DEF Rising, Chained, After, Pending
  <1>4. Underway'
    BY <1>1 DEF Underway, Unfinished, Last
  <1>5. Memory'
    BY <1>1, MemoryKept DEF Effected
  <1> QED
    BY <1>2, <1>3, <1>4, <1>5 DEF StreamInv

(* Nothing is said of where the log ends once the frame is given up.       *)
LEMMA GivenUp ==
  ASSUME pc \in {"failed", "dropping", "dropped"}
  PROVE  LogEnd /\ Awaited
  BY DEF LogEnd, Awaited

(* When a frame is copied in, all of the frame before is done: the wrapper *)
(* has waited for the fence of its last copy out.                          *)
LEMMA DrainedAtCopyIn ==
  ASSUME StreamInv, pc = "copyin", PreviousCopied
  PROVE  Unfinished = {} /\ Frame > 0 /\ wIteration = Frame - 1 /\ Ended(Frame - 1)
  <1>1. /\ Typed /\ Len(batches) \in Nat /\ Frame \in Nat
        /\ Ended(Frame - 1) /\ wIteration = Frame - 1 /\ wIteration \in Nat
    BY StreamTypes DEF StreamInv, LogEnd
  <1>2. Frame > 0
    BY <1>1
  <1>3. CASE Frame = 1
    BY <1>1, <1>2, <1>3 DEF Ended, Unfinished, Typed, QueueTypes
  <1>4. CASE Frame # 1
    <2>1. batches # <<>> /\ Last.op = "copyout" /\ Last.slot = asked[Last.frame]
      BY <1>1, <1>4 DEF Ended
    <2>2. Len(batches) \in 1..Len(batches)
      BY <1>1, <2>1 DEF Typed, QueueTypes
    <2>3. Last.fence = "wrapper"
      BY <2>1, <2>2 DEF StreamInv, Log, WellMade, FenceOf, Last
    <2>4. fence["wrapper"] = "signalled"
      BY <1>1, <1>4 DEF PreviousCopied
    <2>5. Len(batches) \notin Unfinished
      BY <2>3, <2>4 DEF StreamInv, Underway, Fences, Last
    <2> QED
      BY <1>1, <1>2, <2>5 DEF Unfinished, Typed, QueueTypes
  <1> QED
    BY <1>1, <1>2, <1>3, <1>4

(* The copy in.                                                            *)
LEMMA CopyInStream ==
  ASSUME StreamInv, NEW ok \in BOOLEAN, CopyIn(ok)
  PROVE  StreamInv'
  <1> DEFINE r == IF wIteration # 0 THEN [fence EXCEPT !["wrapper"] = "idle"] ELSE fence
             g == Only("sync", syncCounter + 1)
             b == Batch("copyin", Frame, 0, Layer, Nothing, g, "none")
  <1>1. /\ Typed /\ HostTypes /\ InStep /\ QueueTypes
        /\ batches \in Seq(Batches) /\ Len(batches) \in Nat /\ Frame \in Nat
    BY StreamTypes
  <1>2. /\ Log /\ LogEnd /\ Rising /\ Chained /\ Underway /\ Memory /\ TimelineInv
    BY DEF StreamInv
  <1>3. TimelineInv'
    BY <1>2, CopyInKeeps
  <1>4. /\ pc = "copyin" /\ PreviousCopied
        /\ UNCHANGED <<done, running, memoryVars, blockIteration, first, iteration,
                       wIteration, asked>>
    BY DEF CopyIn, countVars
  <1>5. Unfinished = {} /\ Frame > 0 /\ wIteration = Frame - 1 /\ Ended(Frame - 1)
    BY <1>4, DrainedAtCopyIn
  <1>6. fence \in FenceStates
    BY <1>1 DEF QueueTypes
  <1>7. r \in FenceStates /\ \A f \in Fences : r[f] # "pending"
    BY <1>2, <1>5, <1>6 DEF Underway, FenceStates, Fences
  <1>8. CASE ok
    <2>1. Submit(b, r) /\ pc' = "prepass"
      BY <1>8 DEF CopyIn
    <2>2. Layer \in 0..1 /\ Layer = LayerOf(Frame)
      BY <1>1, <1>5 DEF Layer, LayerOf
    <2>3. Pending["sync"] = syncCounter /\ syncCounter \in Nat
      BY <1>1, <1>4 DEF InStep, BetweenFrames, HostTypes
    <2>4. /\ Nothing \in [Sems -> Nat]
          /\ g \in [Sems -> Nat] /\ g["sync"] = syncCounter + 1 /\ g["internal"] = 0
      BY <2>3, VectorTypes DEF Sems
    <2> HIDE DEF r, g
    <2>5. /\ b \in Batches
          /\ b.op = "copyin" /\ b.frame = Frame /\ b.slot = 0 /\ b.layer = Layer
          /\ b.signal = g /\ b.fence = "none"
          /\ b.after = [s \in Sems |-> IF b.signal[s] > 0 THEN b.signal[s] ELSE Pending[s]]
      <3>1. /\ "copyin" \in {"copyin", "prepass", "main", "copyout"}
            /\ 0 \in Nat /\ Layer \in Nat /\ "none" \in Fences \cup {"none"}
        BY <2>2
      <3>2. b = Batch("copyin", Frame, 0, Layer, Nothing, g, "none")
        OBVIOUS
      <3> HIDE DEF b
      <3> QED
        BY <1>1, <2>4, <3>1, <3>2, PendingType DEF Batch, Batches
    <2> HIDE DEF b
    <2>6. WellMade(b)
      BY <1>1, <1>5, <2>2, <2>5 DEF WellMade, FenceOf
    <2>7. IF batches = <<>> THEN Opens(b) ELSE Follows(Last, b)
      <3>1. CASE Frame = 1
        BY <1>5, <2>5, <3>1 DEF Ended, Opens
      <3>2. CASE Frame # 1
        <4>1. /\ batches # <<>> /\ Last.op = "copyout" /\ Last.frame = Frame - 1
              /\ Last.slot = asked[Last.frame]
          BY <1>1, <1>5, <3>2 DEF Ended
        <4>2. asked[Frame - 1] \in Nat
          BY <1>1, <1>5, <3>2, AskedTypes DEF Typed
        <4> QED
          BY <1>1, <2>5, <4>1, <4>2 DEF Follows
      <3> QED
        BY <3>1, <3>2
    <2>8. batches' = Append(batches, b)
      BY <2>1 DEF Submit
    <2>9. Log'
      BY <1>1, <1>2, <1>4, <2>5, <2>6, <2>7, <2>8, LogAppend
    <2>10. \A s \in Sems : b.signal[s] # 0 => b.signal[s] > Pending[s]
      BY <2>3, <2>4, <2>5 DEF Sems
    <2>11. Rising' /\ Chained' /\ \A s \in Sems : b.signal[s] # 0 => Fresh(s)'
      BY <1>1, <1>2, <2>5, <2>8, <2>10, WaitsAppend
    <2>12. Fresh("sync")'
      <3>1. b.signal["sync"] # 0 /\ "sync" \in Sems
        BY <2>3, <2>4, <2>5 DEF Sems
      <3> QED
        BY <2>11, <3>1
    <2>13. Awaited'
      BY <2>1, <2>12 DEF Awaited
    <2>14. Underway'
      BY <1>1, <1>2, <1>4, <1>5, <1>7, <2>1, <2>5, UnderwayAppend
    <2>15. Memory'
      BY <1>1, <1>2, <1>4, <2>5, <2>8, MemoryAppend
    <2>16. LogEnd'
      <3>1. batches' # <<>> /\ Last' = b
        BY <1>1, <2>5, <2>8, Appended
      <3> QED
        BY <1>2, <1>4, <1>5, <2>1, <2>5, <3>1 DEF LogEnd, Ends, Frame
    <2> QED
      BY <1>3, <2>9, <2>11, <2>13, <2>14, <2>15, <2>16 DEF StreamInv
  <1>9. CASE ~ok
    <2>1. batches' = batches /\ fence' = r /\ pc' = "failed"
      BY <1>9 DEF CopyIn
    <2>2. LogEnd' /\ Awaited'
      BY <2>1, GivenUp DEF LogEnd, Awaited
    <2>3. \A f \in Fences : fence'[f] = "pending" <=> fence[f] = "pending"
      BY <1>2, <1>5, <1>7, <2>1 DEF Underway
    <2> QED
      BY <1>3, <1>4, <2>1, <2>2, <2>3, QuietKeeps
  <1> QED
    BY <1>8, <1>9

(* settle() resets a fence that has been signalled.                        *)
LEMMA SettledPending ==
  ASSUME Settled, fence \in FenceStates
  PROVE  /\ SettledFence \in FenceStates
         /\ \A f \in Fences : SettledFence[f] = "pending" <=> fence[f] = "pending"
  <1>1. CASE fencePending
    <2>1. fence["context"] = "signalled"
      BY <1>1 DEF Settled, SettleOnTimelines
    <2>2. SettledFence = [fence EXCEPT !["context"] = "idle"]
      BY <1>1 DEF SettledFence
    <2> QED
      BY <2>1, <2>2 DEF FenceStates, Fences
  <1>2. CASE ~fencePending
    BY <1>2 DEF SettledFence
  <1> QED
    BY <1>1, <1>2

(* The pre-pass: the parameter block is written for this frame only.       *)
LEMMA StartIterationStream ==
  ASSUME StreamInv, NEW ok \in BOOLEAN, StartIteration(ok)
  PROVE  StreamInv'
  <1> DEFINE sv == syncValue + Partial + 1
             iv == internalValue + 1
             w == Only("sync", sv)
             g == Only("internal", iv)
             f == IF Wanted = 0 THEN "context" ELSE "none"
             b == Batch("prepass", Frame, 0, 0, w, g, f)
  <1>1. /\ Typed /\ HostTypes /\ InStep /\ QueueTypes
        /\ batches \in Seq(Batches) /\ Len(batches) \in Nat /\ Frame \in Nat
    BY StreamTypes
  <1>2. /\ Log /\ LogEnd /\ Rising /\ Chained /\ Awaited /\ Underway /\ Memory /\ TimelineInv
    BY DEF StreamInv
  <1>3. TimelineInv'
    BY <1>2, StartIterationKeeps
  <1>4. /\ pc = "prepass" /\ Settled /\ first' = FALSE
        /\ iteration' = IF first THEN 0 ELSE iteration + 1
        /\ blockIteration' = iteration'
        /\ UNCHANGED <<done, running, memoryVars, asked>>
    BY DEF StartIteration, Dispatch
  <1>5. /\ Pending["sync"] = syncCounter + 1 /\ syncValue = syncCounter /\ index = total
        /\ internalValue = Pending["internal"] /\ asked # <<>>
        /\ syncCounter \in Nat /\ internalValue \in Nat /\ total \in Nat
    BY <1>1, <1>4 DEF InStep, HostTypes
  <1>6. Wanted \in Nat /\ Wanted > 0 /\ Frame > 0
    BY <1>1, <1>5, WantedType DEF Typed, Frame
  <1>7. /\ Ends("copyin", 0) /\ wIteration = Frame - 1
        /\ IF wIteration = 0 THEN first ELSE ~first /\ iteration = wIteration - 1
    BY <1>2, <1>4 DEF LogEnd
  <1>8. iteration' = Frame - 1
    BY <1>1, <1>4, <1>7
  <1>9. /\ SettledFence \in FenceStates
        /\ \A x \in Fences : SettledFence[x] = "pending" <=> fence[x] = "pending"
    BY <1>1, <1>4, SettledPending DEF QueueTypes
  <1>10. \A i \in Unfinished : batches[i].op = "copyin"
    <2> TAKE i \in Unfinished
    <2>1. Len(batches) \in Unfinished /\ i <= Len(batches) /\ i \in Nat /\ i >= done + 1
      BY <1>1 DEF Unfinished, QueueTypes
    <2>2. Len(batches) = done + 1
      BY <1>2, <1>7, <2>1 DEF Underway, Ends, Last
    <2> QED
      BY <1>1, <1>7, <2>1, <2>2 DEF Ends, Last, QueueTypes
  <1>11. CASE ok
    <2>1. /\ Submit(b, SettledFence)
          /\ index' = 0 /\ slot' = 0 /\ pc' = "generate" /\ wIteration' = wIteration + 1
      BY <1>11 DEF StartIteration, Dispatch, FreshIndex
    <2>2. sv = syncCounter + 1
      BY <1>5 DEF Partial
    <2>3. /\ w \in [Sems -> Nat] /\ w["sync"] = syncCounter + 1
          /\ g \in [Sems -> Nat] /\ g["internal"] = internalValue + 1 /\ g["sync"] = 0
      BY <1>5, <2>2, VectorTypes DEF Sems
    <2>4. f = "none"
      BY <1>6
    <2> HIDE DEF w, g, f
    <2>5. /\ b \in Batches
          /\ b.op = "prepass" /\ b.frame = Frame /\ b.slot = 0
          /\ b.signal = g /\ b.wait = w /\ b.fence = "none"
          /\ b.after = [s \in Sems |-> IF b.signal[s] > 0 THEN b.signal[s] ELSE Pending[s]]
      BY <1>1, <2>3, <2>4, PendingType DEF Batch, Batches
    <2> HIDE DEF b
    <2>6. WellMade(b)
      BY <1>1, <1>6, <2>5 DEF WellMade, FenceOf
    <2>7. batches # <<>> /\ Last.frame = Frame /\ Follows(Last, b)
      BY <1>7, <2>5 DEF Follows, Ends
    <2>8. batches' = Append(batches, b)
      BY <2>1 DEF Submit
    <2>9. Log'
      BY <1>1, <1>2, <1>4, <2>5, <2>6, <2>7, <2>8, LogAppend
    <2>10. \A s \in Sems : b.signal[s] # 0 => b.signal[s] > Pending[s]
      BY <1>5, <2>3, <2>5 DEF Sems
    <2>11. \E s \in Sems : b.wait[s] = Pending[s] /\ Fresh(s)
      BY <1>2, <1>4, <1>5, <2>3, <2>5 DEF Sems, Awaited
    <2>12. Rising' /\ Chained' /\ \A s \in Sems : b.signal[s] # 0 => Fresh(s)'
      BY <1>1, <1>2, <2>5, <2>8, <2>10, <2>11, WaitsAppend
    <2>13. Fresh("internal")'
      <3>1. b.signal["internal"] # 0 /\ "internal" \in Sems
        BY <1>5, <2>3, <2>5 DEF Sems
      <3> QED
        BY <2>12, <3>1
    <2>14. Awaited'
      BY <2>1, <2>13 DEF Awaited
    <2>15. Underway'
      <3>1. \A x \in Fences : SettledFence[x] = "pending"
                                <=> \E i \in Unfinished : batches[i].fence = x
        BY <1>2, <1>9 DEF Underway
      <3> QED
        BY <1>1, <1>2, <1>4, <1>8, <1>9, <1>10, <2>1, <2>5, <2>7, <3>1, UnderwayAppend
    <2>16. Memory'
      BY <1>1, <1>2, <1>4, <2>5, <2>8, MemoryAppend
    <2>17. LogEnd'
      <3>1. batches' # <<>> /\ Last' = b /\ Frame' = Frame /\ Wanted' = Wanted
        BY <1>1, <1>4, <2>5, <2>8, Appended DEF Frame, Wanted
      <3>2. wIteration' = Frame /\ Frame > 0
        BY <1>1, <1>6, <1>7, <2>1
      <3> QED
        BY <1>1, <1>4, <1>6, <1>8, <2>1, <2>5, <3>1, <3>2 DEF LogEnd, Ends
    <2> QED
      BY <1>3, <2>9, <2>12, <2>14, <2>15, <2>16, <2>17 DEF StreamInv
  <1>12. CASE ~ok
    <2>1. batches' = batches /\ fence' = SettledFence /\ pc' = "failed"
      BY <1>12 DEF StartIteration, Dispatch
    <2>2. LogEnd' /\ Awaited'
      BY <2>1 DEF LogEnd, Awaited
    <2> QED
      BY <1>3, <1>4, <1>9, <1>10, <2>1, <2>2, QuietKeeps
  <1> QED
    BY <1>11, <1>12

(* The main pass.                                                          *)
LEMMA GenerateStream ==
  ASSUME StreamInv, NEW ok \in BOOLEAN, Generate(ok)
  PROVE  StreamInv'
  <1> DEFINE before == IF index > 0 THEN syncValue + 1 ELSE syncValue
             w == IF index = 0 THEN Only("internal", internalValue) ELSE Only("sync", before)
             g == Only("sync", before + 1)
             f == IF index = total - 1 THEN "context" ELSE "none"
             b == Batch("main", Frame, index + 1, 0, w, g, f)
  <1>1. /\ Typed /\ HostTypes /\ InStep /\ QueueTypes
        /\ batches \in Seq(Batches) /\ Len(batches) \in Nat /\ Frame \in Nat
    BY StreamTypes
  <1>2. /\ Log /\ LogEnd /\ Rising /\ Chained /\ Awaited /\ Underway /\ Memory /\ TimelineInv
    BY DEF StreamInv
  <1>3. TimelineInv'
    BY <1>2, GenerateKeeps
  <1>4. /\ pc = "generate"
        /\ UNCHANGED <<done, running, memoryVars, asked, blockIteration, first, iteration,
                       wIteration, slot>>
    BY DEF Generate, Acquire
  <1>5. /\ internalValue = Pending["internal"] /\ asked # <<>>
        /\ BeforeMainPass /\ index = slot /\ total = Wanted
    BY <1>1, <1>4 DEF InStep
  <1>6. /\ Pending["sync"] = syncCounter /\ before = syncCounter
        /\ syncCounter \in Nat /\ internalValue \in Nat /\ slot \in Nat
    BY <1>1, <1>5 DEF BeforeMainPass, HostTypes
  <1>7. Wanted \in Nat /\ Frame > 0 /\ Wanted = asked[Frame]
    BY <1>1, <1>5, WantedType DEF Typed, Frame, Wanted
  <1>8. /\ IF slot = 0 THEN Ends("prepass", 0) ELSE Ends("copyout", slot)
        /\ slot < Wanted /\ wIteration = Frame
        /\ ~first /\ iteration = wIteration - 1 /\ blockIteration = iteration
    BY <1>1, <1>2, <1>4, <1>7 DEF LogEnd
  <1>9. CASE ok
    <2>1. Submit(b, fence) /\ index' = index + 1 /\ pc' = "image"
      BY <1>9 DEF Generate, Acquire
    <2>2. /\ w \in [Sems -> Nat]
          /\ index = 0 => w["internal"] = internalValue
          /\ index # 0 => w["sync"] = syncCounter
          /\ g \in [Sems -> Nat] /\ g["sync"] = syncCounter + 1 /\ g["internal"] = 0
      <3>1. before \in Nat /\ before + 1 \in Nat
        BY <1>6
      <3> HIDE DEF before
      <3>2. \A m \in Sems, v \in Nat : Only(m, v) \in [Sems -> Nat] /\ Only(m, v)[m] = v
        BY VectorTypes
      <3>3. "sync" \in Sems /\ "internal" \in Sems
        BY DEF Sems
      <3>4. g["internal"] = 0
        BY <3>1, <3>3, VectorTypes
      <3> QED
        BY <1>6, <3>1, <3>2, <3>3, <3>4
    <2>3. f = IF slot + 1 = Wanted THEN "context" ELSE "none"
      BY <1>5, <1>6, <1>7
    <2>4. fence \in FenceStates /\ f \in Fences \cup {"none"} /\ index + 1 \in Nat
      BY <1>1, <1>5, <1>6 DEF QueueTypes, Fences
    <2> HIDE DEF before, w, g, f
    <2>5. /\ b \in Batches
          /\ b.op = "main" /\ b.frame = Frame /\ b.slot = slot + 1
          /\ b.signal = g /\ b.wait = w /\ b.fence = f
          /\ b.after = [s \in Sems |-> IF b.signal[s] > 0 THEN b.signal[s] ELSE Pending[s]]
      BY <1>1, <1>5, <2>2, <2>4, PendingType DEF Batch, Batches
    <2> HIDE DEF b
    <2>6. WellMade(b)
      BY <1>1, <1>6, <1>7, <1>8, <2>3, <2>5 DEF WellMade, FenceOf
    <2>7. batches # <<>> /\ Last.frame = Frame /\ Follows(Last, b)
      <3>1. CASE slot = 0
        <4>1. batches # <<>> /\ Last.op = "prepass" /\ Last.frame = Frame
          BY <1>8, <3>1 DEF Ends
        <4>2. b.slot = 1
          BY <2>5, <3>1
        <4> QED
          BY <2>5, <4>1, <4>2 DEF Follows
      <3>2. CASE slot # 0
        <4>1. batches # <<>> /\ Last.op = "copyout" /\ Last.frame = Frame /\ Last.slot = slot
          BY <1>8, <3>2 DEF Ends
        <4>2. Last.slot < asked[Last.frame]
          BY <1>7, <1>8, <4>1
        <4> QED
          BY <2>5, <4>1, <4>2 DEF Follows
      <3> QED
        BY <3>1, <3>2
    <2>8. batches' = Append(batches, b)
      BY <2>1 DEF Submit
    <2>9. Log'
      BY <1>1, <1>2, <1>4, <2>5, <2>6, <2>7, <2>8, LogAppend
    <2>10. \A s \in Sems : b.signal[s] # 0 => b.signal[s] > Pending[s]
      BY <1>6, <2>2, <2>5 DEF Sems
    <2>11. \E s \in Sems : b.wait[s] = Pending[s] /\ Fresh(s)
      <3>1. Fresh(IF index = 0 THEN "internal" ELSE "sync")
        BY <1>2, <1>4 DEF Awaited
      <3>2. CASE index = 0
        BY <1>5, <2>2, <2>5, <3>1, <3>2 DEF Sems
      <3>3. CASE index # 0
        BY <1>6, <2>2, <2>5, <3>1, <3>3 DEF Sems
      <3> QED
        BY <3>2, <3>3
    <2>12. Rising' /\ Chained' /\ \A s \in Sems : b.signal[s] # 0 => Fresh(s)'
      BY <1>1, <1>2, <2>5, <2>8, <2>10, <2>11, WaitsAppend
    <2>13. Fresh("sync")'
      <3>1. b.signal["sync"] # 0 /\ "sync" \in Sems
        BY <1>6, <2>2, <2>5 DEF Sems
      <3> QED
        BY <2>12, <3>1
    <2>14. Awaited'
      BY <2>1, <2>13 DEF Awaited
    <2>15. Underway'
      <3>1. /\ \A x \in Fences : fence[x] = "pending"
                                   <=> \E i \in Unfinished : batches[i].fence = x
            /\ \A i \in Unfinished : batches[i].op \in {"prepass", "main"}
                                       => blockIteration' = batches[i].frame - 1
        BY <1>2, <1>4 DEF Underway
      <3>2. blockIteration' = b.frame - 1
        BY <1>4, <1>8, <2>5
      <3> QED
        BY <1>1, <1>2, <1>4, <2>1, <2>4, <2>5, <2>7, <3>1, <3>2, UnderwayAppend
    <2>16. Memory'
      BY <1>1, <1>2, <1>4, <2>5, <2>8, MemoryAppend
    <2>17. LogEnd'
      <3>1. batches' # <<>> /\ Last' = b /\ Frame' = Frame /\ Wanted' = Wanted
        BY <1>1, <1>4, <2>5, <2>8, Appended DEF Frame, Wanted
      <3> QED
        BY <1>1, <1>4, <1>7, <1>8, <2>1, <2>5, <3>1 DEF LogEnd, Ends
    <2> QED
      BY <1>3, <2>9, <2>12, <2>14, <2>15, <2>16, <2>17 DEF StreamInv
  <1>10. CASE ~ok
    <2>1. batches' = batches /\ fence' = fence /\ pc' = "failed"
      BY <1>10 DEF Generate, Acquire
    <2>2. LogEnd' /\ Awaited'
      BY <2>1 DEF LogEnd, Awaited
    <2> QED
      BY <1>3, <1>4, <2>1, <2>2, QuietKeeps
  <1> QED
    BY <1>9, <1>10

(* The copy out.                                                           *)
LEMMA CopyOutStream ==
  ASSUME StreamInv, NEW ok \in BOOLEAN, CopyOut(ok)
  PROVE  StreamInv'
  <1> DEFINE w == Only("sync", syncCounter + 1)
             g == Only("sync", CopyOutSignal)
             b == Batch("copyout", Frame, slot + 1, 0, w, g, CopyOutFence)
  <1>1. /\ Typed /\ HostTypes /\ InStep /\ QueueTypes
        /\ batches \in Seq(Batches) /\ Len(batches) \in Nat /\ Frame \in Nat
    BY StreamTypes
  <1>2. /\ Log /\ LogEnd /\ Rising /\ Chained /\ Awaited /\ Underway /\ Memory /\ TimelineInv
    BY DEF StreamInv
  <1>3. TimelineInv'
    BY <1>2, CopyOutKeeps
  <1>4. /\ pc = "copyout"
        /\ UNCHANGED <<done, running, memoryVars, asked, blockIteration, first, iteration,
                       wIteration, slot>>
    BY DEF CopyOut, countVars
  <1>5. asked # <<>> /\ BeforeCopyOut /\ index = slot + 1 /\ total = Wanted
    BY <1>1, <1>4 DEF InStep
  <1>6. /\ Pending["sync"] = syncCounter + 1
        /\ syncCounter \in Nat /\ slot \in Nat /\ remaining \in Nat
    BY <1>1, <1>5 DEF BeforeCopyOut, HostTypes
  <1>7. Wanted \in Nat /\ Frame > 0 /\ Wanted = asked[Frame]
    BY <1>1, <1>5, WantedType DEF Typed, Frame, Wanted
  <1>8. /\ Ends("main", slot + 1) /\ slot < Wanted /\ wIteration = Frame
        /\ ~first /\ iteration = wIteration - 1 /\ blockIteration = iteration
    BY <1>1, <1>2, <1>4, <1>7 DEF LogEnd
  <1>9. remaining = Wanted - slot
    BY <1>5, <1>6, <1>7 DEF BeforeCopyOut
  <1>10. CASE ok
    <2>1. Submit(b, fence) /\ remaining' = remaining - 1 /\ pc' = "present"
      BY <1>10 DEF CopyOut
    <2>2. CopyOutSignal = (IF remaining > 1 THEN syncCounter + 2 ELSE 0) /\ CopyOutSignal \in Nat
      BY <1>6 DEF CopyOutSignal
    <2>3. /\ w \in [Sems -> Nat] /\ w["sync"] = syncCounter + 1
          /\ g \in [Sems -> Nat] /\ g["sync"] = CopyOutSignal /\ g["internal"] = 0
      BY <1>6, <2>2, VectorTypes DEF Sems
    <2>4. CopyOutFence = IF slot + 1 = Wanted THEN "wrapper" ELSE "none"
      BY <1>6, <1>7, <1>9 DEF CopyOutFence
    <2>5. fence \in FenceStates /\ CopyOutFence \in Fences \cup {"none"} /\ slot + 1 \in Nat
      BY <1>1, <1>6, <2>4 DEF QueueTypes, Fences
    <2> HIDE DEF w, g
    <2>6. /\ b \in Batches
          /\ b.op = "copyout" /\ b.frame = Frame /\ b.slot = slot + 1
          /\ b.signal = g /\ b.wait = w /\ b.fence = CopyOutFence
          /\ b.after = [s \in Sems |-> IF b.signal[s] > 0 THEN b.signal[s] ELSE Pending[s]]
      BY <1>1, <2>3, <2>5, PendingType DEF Batch, Batches
    <2> HIDE DEF b
    <2>7. WellMade(b)
      BY <1>1, <1>6, <1>7, <1>8, <2>4, <2>6 DEF WellMade, FenceOf
    <2>8. batches # <<>> /\ Last.frame = Frame /\ Follows(Last, b)
      BY <1>8, <2>6 DEF Follows, Ends
    <2>9. batches' = Append(batches, b)
      BY <2>1 DEF Submit
    <2>10. Log'
      BY <1>1, <1>2, <1>4, <2>6, <2>7, <2>8, <2>9, LogAppend
    <2>11. \A s \in Sems : b.signal[s] # 0 => b.signal[s] > Pending[s]
      BY <1>6, <2>2, <2>3, <2>6 DEF Sems
    <2>12. \E s \in Sems : b.wait[s] = Pending[s] /\ Fresh(s)
      BY <1>2, <1>4, <1>6, <2>3, <2>6 DEF Sems, Awaited
    <2>13. Rising' /\ Chained' /\ \A s \in Sems : b.signal[s] # 0 => Fresh(s)'
      BY <1>1, <1>2, <2>6, <2>9, <2>11, <2>12, WaitsAppend
    <2>14. ASSUME remaining' > 0
           PROVE  Fresh("sync")'
      <3>1. b.signal["sync"] # 0 /\ "sync" \in Sems
        BY <1>6, <2>1, <2>2, <2>3, <2>6, <2>14 DEF Sems
      <3> QED
        BY <2>13, <3>1
    <2>15. Awaited'
      BY <2>1, <2>14 DEF Awaited
    <2>16. Underway'
      <3>1. /\ \A x \in Fences : fence[x] = "pending"
                                   <=> \E i \in Unfinished : batches[i].fence = x
            /\ \A i \in Unfinished : batches[i].op \in {"prepass", "main"}
                                       => blockIteration' = batches[i].frame - 1
        BY <1>2, <1>4 DEF Underway
      <3> QED
        BY <1>1, <1>2, <1>4, <2>1, <2>5, <2>6, <2>8, <3>1, UnderwayAppend
    <2>17. Memory'
      BY <1>1, <1>2, <1>4, <2>6, <2>9, MemoryAppend
    <2>18. LogEnd'
      <3>1. batches' # <<>> /\ Last' = b /\ Frame' = Frame /\ Wanted' = Wanted
        BY <1>1, <1>4, <2>6, <2>9, Appended DEF Frame, Wanted
      <3> QED
        BY <1>1, <1>4, <1>7, <1>8, <2>1, <2>6, <3>1 DEF LogEnd, Ends
    <2> QED
      BY <1>3, <2>10, <2>13, <2>15, <2>16, <2>17, <2>18 DEF StreamInv
  <1>11. CASE ~ok
    <2>1. batches' = batches /\ fence' = fence /\ pc' = "failed"
      BY <1>11 DEF CopyOut
    <2>2. LogEnd' /\ Awaited'
      BY <2>1 DEF LogEnd, Awaited
    <2> QED
      BY <1>3, <1>4, <2>1, <2>2, QuietKeeps
  <1> QED
    BY <1>10, <1>11

(* The wrapper's steps that only move along, and those that give up.       *)
LEMMA HostStream ==
  ASSUME StreamInv, TimelineInv',
         \/ \E ok \in BOOLEAN : AcquireImage(ok) \/ PresentGenerated(ok) \/ PresentOriginal(ok)
         \/ Close \/ Idle \/ DropContext \/ WaitLost \/ LoseDevice \/ UNCHANGED vars
  PROVE  StreamInv'
  <1>1. /\ Typed /\ HostTypes /\ InStep /\ QueueTypes
        /\ batches \in Seq(Batches) /\ Len(batches) \in Nat /\ Frame \in Nat
    BY StreamTypes
  <1>2. LogEnd /\ Awaited
    BY DEF StreamInv
  <1>3. CASE \/ \E ok \in BOOLEAN : AcquireImage(ok) \/ PresentOriginal(ok)
             \/ UNCHANGED vars \/ LoseDevice
    <2>1. /\ UNCHANGED <<batches, done, running, asked, memoryVars, fence, blockIteration>>
          /\ UNCHANGED <<first, iteration, wIteration, slot, index, remaining>>
          /\ \/ pc' = pc \/ pc' = "failed"
             \/ pc = "image" /\ pc' = "copyout"
             \/ pc = "last" /\ pc' = "idle"
      BY <1>3 DEF AcquireImage, PresentOriginal, vars, hostVars, contextVars, queueVars,
                  countVars, wrapperVars, LoseDevice
    <2>2. Frame' = Frame /\ Wanted' = Wanted /\ Last' = Last
      BY <2>1 DEF Frame, Wanted, Last
    <2>3. \A s \in Sems : Fresh(s)' = Fresh(s)
      BY <2>1 DEF Fresh, Pending, After
    <2>4. Fresh("sync")' = Fresh("sync") /\ Fresh("internal")' = Fresh("internal")
      BY <2>3 DEF Sems
    <2>5. Awaited'
      BY <1>2, <2>1, <2>4 DEF Awaited
    <2>6. LogEnd'
      BY <1>2, <2>1, <2>2 DEF LogEnd, Ends, Ended
    <2> QED
      BY <2>1, <2>5, <2>6, QuietKeeps
  <1>4. CASE \E ok \in BOOLEAN : PresentGenerated(ok)
    <2>1. PICK ok \in BOOLEAN : PresentGenerated(ok)
      BY <1>4
    <2>2. /\ UNCHANGED <<batches, done, running, asked, memoryVars, fence, blockIteration>>
          /\ UNCHANGED <<first, iteration, wIteration, index, remaining>>
          /\ pc = "present" /\ slot' = slot + 1
          /\ pc' = IF ~ok THEN "failed" ELSE IF slot + 1 < Wanted THEN "generate" ELSE "last"
      BY <2>1 DEF PresentGenerated, vars, hostVars, contextVars, queueVars, countVars, wrapperVars
    <2>3. Frame' = Frame /\ Wanted' = Wanted /\ Last' = Last
      BY <2>2 DEF Frame, Wanted, Last
    <2>4. /\ Ends("copyout", slot + 1) /\ slot < Wanted /\ wIteration = Frame
          /\ IF wIteration = 0 THEN first
             ELSE ~first /\ iteration = wIteration - 1 /\ blockIteration = iteration
          /\ remaining > 0 => Fresh("sync")
      BY <1>2, <2>2 DEF LogEnd, Awaited
    <2>5. /\ index = slot + 1 /\ total = Wanted /\ asked # <<>>
          /\ index # total => remaining > 0
      BY <1>1, <2>2 DEF InStep, BeforeMainPass
    <2>6. Wanted \in Nat /\ slot \in Nat /\ Wanted = asked[Frame] /\ Frame > 0
      <3>1. slot \in Nat
        BY <1>1 DEF HostTypes
      <3> QED
        BY <1>1, <2>5, <3>1, WantedType DEF Typed, Frame, Wanted
    <2>7. Fresh("sync")' = Fresh("sync")
      BY <2>2 DEF Fresh, Pending, After
    <2>8. Awaited'
      BY <2>2, <2>4, <2>5, <2>6, <2>7 DEF Awaited
    <2>9. LogEnd'
      <3>1. CASE pc' = "failed"
        BY <3>1 DEF LogEnd
      <3>2. CASE pc' = "generate"
        <4>1. slot + 1 < Wanted /\ slot' # 0
          BY <2>2, <2>6, <3>2
        <4> QED
          BY <2>2, <2>3, <2>4, <3>2, <4>1 DEF LogEnd, Ends
      <3>3. CASE pc' = "last"
        <4>1. slot + 1 = asked[Frame]
          BY <2>2, <2>4, <2>6, <3>3
        <4> QED
          BY <2>2, <2>3, <2>4, <2>6, <3>3, <4>1 DEF LogEnd, Ends, Ended
      <3> QED
        BY <2>2, <3>1, <3>2, <3>3
    <2> QED
      BY <2>2, <2>8, <2>9, QuietKeeps
  <1>5. CASE Close \/ Idle \/ DropContext \/ WaitLost
    <2>1. /\ UNCHANGED <<batches, done, running, asked, memoryVars, blockIteration>>
          /\ pc' \in {"failed", "dropping", "dropped"}
      BY <1>5 DEF Close, Idle, DropContext, WaitLost, hostVars, contextVars, queueVars
    <2>2. LogEnd' /\ Awaited'
      BY <2>1 DEF LogEnd, Awaited
    <2>3. \A f \in Fences : fence'[f] = "pending" <=> fence[f] = "pending"
      <3>1. fence' = fence \/ (Settled /\ fence' = SettledFence)
        BY <1>5 DEF Close, Idle, DropContext, WaitLost, contextVars, queueVars
      <3> QED
        BY <1>1, <3>1, SettledPending DEF QueueTypes
    <2> QED
      BY <2>1, <2>2, <2>3, QuietKeeps
  <1> QED
    BY <1>3, <1>4, <1>5

(* The frame and the slot after an output.                                 *)
Successor(o) ==
  IF o.image.slot < asked[o.image.pair[2]]
  THEN <<o.image.pair[2], o.image.slot + 1>>
  ELSE <<o.image.pair[2] + 1, 1>>

(* What is shown of a sequence of outputs.                                 *)
ShownOf(out) ==
  [i \in DOMAIN out |-> <<out[i].image.pair[1], out[i].image.pair[2], out[i].image.slot>>]

(* The last of what is shown is the last output.                           *)
LEMMA ShownFacts ==
  ASSUME NEW out \in Seq(Outputs)
  PROVE  /\ Len(ShownOf(out)) = Len(out)
         /\ ShownOf(out) = <<>> <=> out = <<>>
         /\ out # <<>> => /\ ShownOf(out)[Len(out)][2] = out[Len(out)].image.pair[2]
                          /\ ShownOf(out)[Len(out)][3] = out[Len(out)].image.slot
  <1> DEFINE n == Len(out)
             sh == ShownOf(out)
  <1>1. n \in Nat /\ DOMAIN out = 1..n
    OBVIOUS
  <1>2. sh = [i \in 1..n |-> <<out[i].image.pair[1], out[i].image.pair[2], out[i].image.slot>>]
    BY <1>1 DEF ShownOf
  <1>3. DOMAIN sh = 1..n
    BY <1>2
  <1>4. Len(sh) = n
    BY <1>1, <1>3
  <1>5. sh = <<>> <=> out = <<>>
    <2>1. CASE n = 0
      BY <1>1, <1>3, <2>1
    <2>2. CASE n # 0
      BY <1>1, <1>3, <2>2
    <2> QED
      BY <2>1, <2>2
  <1>6. ASSUME out # <<>>
        PROVE  /\ sh[n][2] = out[n].image.pair[2]
               /\ sh[n][3] = out[n].image.slot
    <2>1. n \in 1..n
      BY <1>1, <1>6
    <2> QED
      BY <1>2, <2>1
  <1> QED
    BY <1>4, <1>5, <1>6

(* The next generated frame follows the last output: now, and after a step. *)
LEMMA UpcomingIs ==
  ASSUME output \in Seq(Outputs)
  PROVE  Stream!Upcoming = IF output = <<>> THEN <<1, 1>> ELSE Successor(output[Len(output)])
  <1>1. Shown = ShownOf(output)
    BY DEF Shown, ShownOf
  <1>2. /\ Len(Shown) = Len(output)
        /\ Shown = <<>> <=> output = <<>>
        /\ output # <<>> => /\ Shown[Len(output)][2] = output[Len(output)].image.pair[2]
                          /\ Shown[Len(output)][3] = output[Len(output)].image.slot
    BY <1>1, ShownFacts
  <1> QED
    BY <1>2 DEF Stream!Upcoming, Successor

(* The same after a step.                                                  *)
LEMMA UpcomingNext ==
  ASSUME output' \in Seq(Outputs)
  PROVE  Stream!Upcoming' = IF output' = <<>> THEN <<1, 1>> ELSE Successor(output[Len(output)])'
  <1>1. Shown' = ShownOf(output')
    BY DEF Shown, ShownOf
  <1>2. /\ Len(Shown') = Len(output')
        /\ Shown' = <<>> <=> output' = <<>>
        /\ output' # <<>> => /\ Shown'[Len(output')][2] = output'[Len(output')].image.pair[2]
                          /\ Shown'[Len(output')][3] = output'[Len(output')].image.slot
    BY <1>1, ShownFacts
  <1> QED
    BY <1>2 DEF Stream!Upcoming, Successor

(* The two layers take turns.                                              *)
LEMMA Layers ==
  \A f \in Nat :
    /\ LayerOf(f) \in 0..1 /\ 1 - LayerOf(f) \in 0..1 /\ LayerOf(f) # 1 - LayerOf(f)
    /\ LayerOf(f + 1) = 1 - LayerOf(f)
    /\ LayerOf(f) = 1 - LayerOf(f + 1)
    /\ f > 0 => (f - 1) % 2 = LayerOf(f)
  BY DEF LayerOf

(* A batch whose turn has come takes effect.                               *)
TakesEffect(b) ==
  /\ Effect(b)
  /\ IF done = 0
     THEN Opens(b) /\ source = [l \in 0..1 |-> 0] /\ Stream!Upcoming = <<1, 1>>
     ELSE Holds(batches[done]) /\ WellMade(batches[done]) /\ Follows(batches[done], b)
  /\ b.op \in {"prepass", "main"} => blockIteration = b.frame - 1

(* What the abstract stream does meanwhile.                                *)
Shows(b) ==
  IF b.op = "copyout" THEN Stream!Show ELSE UNCHANGED Shown

(* It leaves the images as they have to be, and shows the right frame.     *)
LEMMA EffectHolds ==
  ASSUME asked \in Seq(Inserted), batches \in Seq(Batches), done \in 0..Len(batches),
         source \in [0..1 -> Nat], output \in Seq(Outputs),
         \A i \in 1..Len(output) : Intact(output[i]),
         NEW b \in Batches, WellMade(b), TakesEffect(b), UNCHANGED asked
  PROVE  /\ source' \in [0..1 -> Nat] /\ output' \in Seq(Outputs)
         /\ \A i \in 1..Len(output') : Intact(output[i])'
         /\ Holds(b)'
         /\ Shows(b)
  <1> DEFINE f == b.frame
             l == LayerOf(f)
             p == batches[done]
  <1>1. /\ f \in 1..Frame /\ Frame \in Nat /\ b.slot \in Nat
        /\ b.op \in {"copyin", "prepass", "main", "copyout"}
        /\ b.op \in {"main", "copyout"} => b.slot \in 1..asked[f]
        /\ b.op = "copyin" => b.layer = l
        /\ \A x \in 1..Frame : asked[x] \in Nat
    BY RankType, AskedTypes DEF WellMade
  <1>2. f \in Nat /\ f > 0 /\ f - 1 \in Nat
    BY <1>1
  <1>3. l \in 0..1 /\ 1 - l \in 0..1 /\ (f - 1) % 2 = l /\ l # 1 - l
    BY <1>2, Layers, Zenon
  <1>4. done # 0 => p \in Batches
    OBVIOUS
  <1>5. /\ Effect(b)
        /\ done = 0 => Opens(b) /\ source = [x \in 0..1 |-> 0] /\ Stream!Upcoming = <<1, 1>>
        /\ done # 0 => Holds(p) /\ WellMade(p) /\ Follows(p, b)
        /\ b.op \in {"prepass", "main"} => blockIteration = f - 1
    BY DEF TakesEffect
  <1>6. Frame' = Frame /\ asked' = asked
    BY DEF Frame
  <1> HIDE DEF f, l, p
  <1>7. ASSUME UNCHANGED output
        PROVE  /\ output' \in Seq(Outputs)
               /\ \A i \in 1..Len(output') : Intact(output[i])'
               /\ Stream!Upcoming' = Stream!Upcoming /\ UNCHANGED Shown
    <2>1. \A i \in 1..Len(output) : Intact(output[i])'
      BY <1>6, <1>7 DEF Intact
    <2>2. Shown' = Shown
      BY <1>7 DEF Shown
    <2> QED
      BY <1>6, <1>7, <2>1, <2>2 DEF Stream!Upcoming
  <1>8. CASE b.op = "copyin"
    <2>1. /\ source' = [source EXCEPT ![b.layer] = b.frame]
          /\ UNCHANGED <<features, destination, output>>
      BY <1>5, <1>8 DEF Effect
    <2>2. source' \in [0..1 -> Nat] /\ source'[l] = f /\ source'[1 - l] = source[1 - l]
      BY <1>1, <1>2, <1>3, <1>8, <2>1 DEF f
    <2>3. source[1 - l] = f - 1 /\ Stream!Upcoming = <<f, 1>>
      <3>1. CASE done = 0
        BY <1>3, <1>5, <3>1 DEF Opens, f
      <3>2. CASE done # 0
        <4>1. p.op = "copyout" /\ ~(p.slot < asked[p.frame]) /\ f = p.frame + 1
          <5>1. p.op \in {"copyin", "prepass", "main", "copyout"}
            BY <1>4, <3>2, RankType
          <5> QED
            BY <1>5, <1>8, <3>2, <5>1 DEF Follows, f
        <4>2. p.frame \in Nat
          BY <1>4, <3>2, RankType
        <4>3. LayerOf(p.frame) = 1 - l
          BY <4>1, <4>2, Layers, Zenon DEF l
        <4>4. source[LayerOf(p.frame)] = p.frame /\ Stream!Upcoming = <<p.frame + 1, 1>>
          BY <1>5, <3>2, <4>1 DEF Holds, NextAfter
        <4> QED
          BY <4>1, <4>2, <4>3, <4>4
      <3> QED
        BY <3>1, <3>2
    <2>4. Stream!Upcoming' = <<f, 1>>
      BY <1>7, <2>1, <2>3
    <2>5. NextAfter(b)' = <<f, 1>>
      BY <1>8 DEF NextAfter, f
    <2>6. Holds(b)'
      BY <1>8, <2>2, <2>3, <2>4, <2>5 DEF Holds, f, l
    <2> QED
      BY <1>7, <1>8, <2>1, <2>2, <2>6 DEF Shows
  <1>9. CASE b.op \in {"prepass", "main", "copyout"}
    <2>1. done # 0 /\ p.frame = f /\ p.op \in {"copyin", "prepass", "main", "copyout"}
      <3>1. done # 0
        BY <1>5, <1>9 DEF Opens
      <3>2. p.op \in {"copyin", "prepass", "main", "copyout"}
        BY <1>4, <3>1, RankType
      <3> QED
        BY <1>5, <1>9, <3>1, <3>2 DEF Follows, f
    <2>2. /\ source[l] = f /\ source[1 - l] = f - 1
          /\ p.op # "copyin" => features = Pair(f)
          /\ p.op \in {"main", "copyout"} =>
               destination = [pair |-> Pair(f), of |-> Pair(f), slot |-> p.slot]
          /\ Stream!Upcoming = NextAfter(p)
      BY <1>5, <2>1 DEF Holds, l
    <2>3. source' = source
      BY <1>5, <1>9 DEF Effect
    <2>4. b.op \in {"prepass", "main"} => <<Previous, Current>> = Pair(f)
      BY <1>3, <1>5, <2>2 DEF Previous, Current, Pair
    <2>5. CASE b.op = "prepass"
      <3>1. features' = <<Previous, Current>> /\ UNCHANGED <<destination, output>>
        BY <1>5, <2>5 DEF Effect
      <3>2. p.op = "copyin"
        BY <1>5, <2>1, <2>5 DEF Follows
      <3>3. Stream!Upcoming' = <<f, 1>>
        BY <1>7, <2>1, <2>2, <3>1, <3>2 DEF NextAfter
      <3>4. NextAfter(b)' = <<f, 1>>
        BY <2>5 DEF NextAfter, f
      <3>5. Holds(b)'
        BY <2>2, <2>3, <2>4, <2>5, <3>1, <3>3, <3>4 DEF Holds, f, l, Pair
      <3> QED
        BY <1>7, <2>3, <2>5, <3>1, <3>5 DEF Shows
    <2>6. CASE b.op = "main"
      <3>1. /\ destination' = [pair |-> <<Previous, Current>>, of |-> features, slot |-> b.slot]
            /\ UNCHANGED <<features, output>>
        BY <1>5, <2>6 DEF Effect
      <3>2. \/ p.op = "prepass" /\ b.slot = 1
            \/ p.op = "copyout" /\ p.slot < asked[p.frame] /\ b.slot = p.slot + 1
        BY <1>5, <2>1, <2>6 DEF Follows
      <3>3. Stream!Upcoming' = <<f, b.slot>>
        BY <1>7, <2>1, <2>2, <3>1, <3>2 DEF NextAfter
      <3>4. NextAfter(b)' = <<f, b.slot>>
        BY <2>6 DEF NextAfter, f
      <3>5. Holds(b)'
        BY <2>2, <2>3, <2>4, <2>6, <3>1, <3>2, <3>3, <3>4 DEF Holds, f, l, Pair
      <3> QED
        BY <1>7, <2>3, <2>6, <3>1, <3>5 DEF Shows
    <2>7. CASE b.op = "copyout"
      <3> DEFINE o == [frame |-> b.frame, slot |-> b.slot, image |-> destination]
      <3>1. output' = Append(output, o) /\ UNCHANGED <<features, destination>>
        BY <1>5, <2>7 DEF Effect
      <3>2. p.op = "main" /\ p.slot = b.slot
        BY <1>5, <2>1, <2>7 DEF Follows
      <3>3. /\ features = Pair(f)
            /\ destination = [pair |-> Pair(f), of |-> Pair(f), slot |-> b.slot]
        BY <2>2, <3>2
      <3>4. /\ o \in Outputs /\ o.frame = f /\ o.slot = b.slot
            /\ o.image.slot = b.slot /\ o.image.pair[1] = f - 1 /\ o.image.pair[2] = f
            /\ o = [frame |-> f, slot |-> b.slot,
                    image |-> [pair |-> Pair(f), of |-> Pair(f), slot |-> b.slot]]
        BY <1>1, <1>2, <3>3 DEF Outputs, Pair, f
      <3> HIDE DEF o
      <3>5. /\ output' \in Seq(Outputs) /\ Len(output') = Len(output) + 1
            /\ Len(output) \in Nat
            /\ \A i \in 1..Len(output) : output'[i] = output[i]
            /\ output'[Len(output) + 1] = o
        BY <3>1, <3>4
      <3>6. \A i \in 1..Len(output') : Intact(output[i])'
        <4> TAKE i \in 1..Len(output')
        <4>1. CASE i \in 1..Len(output)
          <5>1. Intact(output[i])
            BY <4>1
          <5> QED
            BY <1>6, <3>5, <4>1, <5>1 DEF Intact
        <4>2. CASE i = Len(output) + 1
          BY <1>1, <1>6, <2>7, <3>4, <3>5, <4>2 DEF Intact
        <4> QED
          BY <3>5, <4>1, <4>2
      <3>7. Stream!Upcoming = <<f, b.slot>>
        BY <2>1, <2>2, <3>2 DEF NextAfter
      <3>8. Shown' = Append(Shown, <<f - 1, f, b.slot>>)
        <4>1. DOMAIN output = 1..Len(output) /\ DOMAIN output' = 1..(Len(output) + 1)
          BY <3>5
        <4>2. ASSUME NEW i \in 1..Len(output)
              PROVE  output[i].image.pair \in Int \X Int /\ output[i].image.slot \in Nat
          <5>1. output[i] \in Outputs
            OBVIOUS
          <5> QED
            BY <5>1 DEF Outputs
        <4>3. Shown \in Seq(Int \X Int \X Nat) /\ Len(Shown) = Len(output)
          BY <3>5, <4>1, <4>2 DEF Shown
        <4> QED
          BY <3>4, <3>5, <4>1, <4>3 DEF Shown
      <3>9. Stream!Show
        BY <1>1, <1>6, <3>7, <3>8 DEF Stream!Show, Frame
      <3>10. Stream!Upcoming' = NextAfter(b)'
        <4>1. output' # <<>> /\ output'[Len(output')] = o
          BY <3>5
        <4>2. Stream!Upcoming' = Successor(output[Len(output)])'
          BY <3>5, <4>1, UpcomingNext
        <4>3. Stream!Upcoming' = IF b.slot < asked'[f] THEN <<f, b.slot + 1>> ELSE <<f + 1, 1>>
          BY <3>4, <4>1, <4>2 DEF Successor
        <4> QED
          BY <2>7, <4>3 DEF NextAfter, f
      <3>11. Holds(b)'
        BY <2>2, <2>3, <2>7, <3>1, <3>3, <3>10 DEF Holds, f, l, Pair
      <3> QED
        BY <2>3, <2>7, <3>5, <3>6, <3>9, <3>11 DEF Shows
    <2> QED
      BY <1>9, <2>5, <2>6, <2>7
  <1> QED
    BY <1>1, <1>8, <1>9

(* The GPU has nothing to choose: what it may start is the next batch.     *)
LEMMA OnlyTheNext ==
  ASSUME Typed, Chained, Underway, NEW i \in Unfinished, Ready(i)
  PROVE  i = done + 1
  <1>1. /\ done \in 0..Len(batches) /\ Len(batches) \in Nat /\ batches \in Seq(Batches)
        /\ i \in (done + 1)..Len(batches) /\ i \in 1..Len(batches)
    BY DEF Typed, QueueTypes, Unfinished
  <1>2. CASE batches[i].op = "copyin"
    BY <1>2 DEF Underway
  <1>3. CASE batches[i].op # "copyin"
    <2>1. PICK s \in Sems : \A k \in 0..(i - 2) : After(k)[s] < batches[i].wait[s]
      BY <1>1, <1>3 DEF Chained
    <2>2. batches[i].wait[s] <= After(done)[s]
      BY DEF Ready, Payload
    <2>3. batches[i].wait[s] \in Nat
      <3>1. batches[i] \in Batches
        BY <1>1
      <3> QED
        BY <3>1 DEF Batches
    <2>4. After(done)[s] \in Nat
      <3>1. CASE done = 0
        BY <3>1, VectorTypes DEF After
      <3>2. CASE done # 0
        <4>1. batches[done] \in Batches
          BY <1>1, <3>2
        <4> QED
          BY <3>2, <4>1 DEF After, Batches
      <3> QED
        BY <3>1, <3>2
    <2>5. ~(After(done)[s] < batches[i].wait[s])
      BY <2>2, <2>3, <2>4
    <2>6. done \notin 0..(i - 2)
      BY <2>1, <2>5
    <2> QED
      BY <1>1, <2>6
  <1> QED
    BY <1>2, <1>3

(* The GPU starts a batch.                                                 *)
LEMMA RunStream ==
  ASSUME StreamInv, TimelineInv', Run, UNCHANGED <<wrapperVars, hostVars>>
  PROVE  StreamInv' /\ [Stream!Next]_(Stream!vars)
  <1>1. /\ Typed /\ QueueTypes /\ batches \in Seq(Batches) /\ Len(batches) \in Nat
        /\ asked \in Seq(Inserted)
    BY StreamTypes DEF Typed
  <1>2. /\ Log /\ LogEnd /\ Rising /\ Chained /\ Awaited /\ Underway /\ Memory /\ TimelineInv
    BY DEF StreamInv
  <1>3. PICK i \in Unfinished \ running :
          Ready(i) /\ running' = running \cup {i} /\ Effect(batches[i])
    BY DEF Run
  <1>4. i = done + 1
    BY <1>1, <1>2, <1>3, OnlyTheNext
  <1>5. /\ UNCHANGED <<batches, done, fence, blockIteration, asked, pc, slot, wIteration, index,
                       remaining, first, iteration>>
    BY DEF Run, countVars, wrapperVars, hostVars
  <1>6. running = {} /\ running' = {done + 1}
    BY <1>2, <1>3, <1>4 DEF Underway
  <1>7. done \in 0..Len(batches) /\ done + 1 \in 1..Len(batches) /\ done + 1 \in Unfinished
    BY <1>1, <1>3, <1>4 DEF QueueTypes, Unfinished
  <1>8. Effected = done /\ Effected' = done + 1
    BY <1>5, <1>6, <1>7 DEF Effected
  <1> DEFINE b == batches[done + 1]
  <1>9. b \in Batches /\ WellMade(b)
    BY <1>1, <1>2, <1>7 DEF Log
  <1>10. TakesEffect(b)
    <2>1. b.op \in {"prepass", "main"} => blockIteration = b.frame - 1
      BY <1>2, <1>7 DEF Underway
    <2>2. CASE done = 0
      <3>1. batches # <<>>
        BY <1>7
      <3>2. Opens(b)
        BY <1>2, <2>2, <3>1 DEF Log
      <3> QED
        BY <1>2, <1>3, <1>4, <1>8, <2>1, <2>2, <3>2 DEF TakesEffect, Memory
    <2>3. CASE done # 0
      <3>1. done \in 1..(Len(batches) - 1)
        BY <1>1, <1>7, <2>3
      <3>2. Follows(batches[done], b) /\ WellMade(batches[done])
        BY <1>1, <1>2, <3>1 DEF Log
      <3>3. Holds(batches[done])
        BY <1>2, <1>8, <2>3 DEF Memory
      <3> QED
        BY <1>3, <1>4, <2>1, <2>3, <3>2, <3>3 DEF TakesEffect
    <2> QED
      BY <2>2, <2>3
  <1>11. /\ source' \in [0..1 -> Nat] /\ output' \in Seq(Outputs)
         /\ \A k \in 1..Len(output') : Intact(output[k])'
         /\ Holds(b)'
         /\ Shows(b)
    <2>1. /\ source \in [0..1 -> Nat] /\ output \in Seq(Outputs)
          /\ \A k \in 1..Len(output) : Intact(output[k])
      BY <1>2 DEF Memory
    <2>2. /\ asked \in Seq(Inserted) /\ batches \in Seq(Batches) /\ done \in 0..Len(batches)
          /\ b \in Batches /\ WellMade(b) /\ TakesEffect(b) /\ UNCHANGED asked
      BY <1>1, <1>5, <1>7, <1>9, <1>10
    <2>3. ASSUME NEW c \in Batches, WellMade(c), TakesEffect(c)
          PROVE  /\ source' \in [0..1 -> Nat] /\ output' \in Seq(Outputs)
                 /\ \A k \in 1..Len(output') : Intact(output[k])'
                 /\ Holds(c)' /\ Shows(c)
      BY <2>1, <2>2, <2>3, EffectHolds
    <2>4. b' = b
      BY <1>5
    <2> QED
      BY <2>2, <2>3, <2>4
  <1>12. Memory'
    BY <1>5, <1>7, <1>8, <1>11 DEF Memory
  <1>13. Log'
    <2>1. \A k \in 1..Len(batches) : WellMade(batches[k])'
      BY <1>2, <1>5 DEF Log, WellMade, FenceOf, Frame
    <2>2. \A k \in 1..(Len(batches) - 1) : Follows(batches[k], batches[k + 1])'
      BY <1>2, <1>5 DEF Log, Follows
    <2>3. \A k, j \in 1..Len(batches) : k < j => Before(batches[k], batches[j])'
      BY <1>2, <1>5 DEF Log, Before, Rank
    <2> QED
      BY <1>2, <1>5, <2>1, <2>2, <2>3 DEF Log, Opens
  <1>14. Rising' /\ Chained' /\ Awaited'
    <2>1. \A s \in Sems : Fresh(s)' = Fresh(s)
      BY <1>5 DEF Fresh, Pending, After
    <2>2. Fresh("sync")' = Fresh("sync") /\ Fresh("internal")' = Fresh("internal")
      BY <2>1 DEF Sems
    <2>3. Awaited'
      BY <1>2, <1>5, <2>2 DEF Awaited
    <2> QED
      BY <1>2, <1>5, <2>3 DEF Rising, Chained, After, Pending
  <1>15. LogEnd'
    <2>1. Frame' = Frame /\ Wanted' = Wanted /\ Last' = Last
      BY <1>5 DEF Frame, Wanted, Last
    <2> QED
      BY <1>2, <1>5, <2>1 DEF LogEnd, Ends, Ended
  <1>16. Underway'
    BY <1>2, <1>5, <1>6 DEF Underway, Unfinished, Last
  <1>17. [Stream!Next]_(Stream!vars)
    BY <1>5, <1>11 DEF Shows, Stream!Next, Stream!vars
  <1> QED
    BY <1>12, <1>13, <1>14, <1>15, <1>16, <1>17 DEF StreamInv

(* A fence is signalled for the one batch that carries it.                 *)
LEMMA CompleteStream ==
  ASSUME StreamInv, TimelineInv', Complete, UNCHANGED <<wrapperVars, hostVars>>
  PROVE  StreamInv'
  <1>1. /\ Typed /\ QueueTypes /\ batches \in Seq(Batches) /\ Len(batches) \in Nat
        /\ asked \in Seq(Inserted)
    BY StreamTypes DEF Typed
  <1>2. /\ Log /\ LogEnd /\ Rising /\ Chained /\ Awaited /\ Underway /\ Memory /\ TimelineInv
    BY DEF StreamInv
  <1>3. /\ UNCHANGED <<batches, memoryVars, blockIteration, asked, pc, slot, wIteration, index,
                       remaining, first, iteration>>
        /\ done + 1 \in running /\ done' = done + 1 /\ running' = running \ {done + 1}
        /\ fence' = IF batches[done + 1].fence = "none" THEN fence
                    ELSE [fence EXCEPT ![batches[done + 1].fence] = "signalled"]
    BY DEF Complete, countVars, wrapperVars, hostVars
  <1>4. /\ done \in 0..Len(batches) /\ done + 1 \in 1..Len(batches) /\ done + 1 \in Unfinished
        /\ running = {done + 1} /\ running' = {}
    <2>1. running \subseteq {done + 1} /\ done + 1 \in running /\ running' = running \ {done + 1}
      BY <1>2, <1>3 DEF Underway
    <2>2. running = {done + 1} /\ running' = {}
      BY <2>1
    <2>3. done + 1 \in Unfinished
      BY <1>1, <2>1 DEF QueueTypes
    <2> QED
      BY <1>1, <2>2, <2>3 DEF QueueTypes, Unfinished
  <1>5. Unfinished' = Unfinished \ {done + 1}
    BY <1>1, <1>3, <1>4 DEF Unfinished
  <1>6. Effected' = Effected
    BY <1>3, <1>4 DEF Effected
  <1>7. Memory'
    BY <1>2, <1>3, <1>6, MemoryKept
  <1>8. Log'
    <2>1. \A k \in 1..Len(batches) : WellMade(batches[k])'
      BY <1>2, <1>3 DEF Log, WellMade, FenceOf, Frame
    <2>2. \A k \in 1..(Len(batches) - 1) : Follows(batches[k], batches[k + 1])'
      BY <1>2, <1>3 DEF Log, Follows
    <2>3. \A k, j \in 1..Len(batches) : k < j => Before(batches[k], batches[j])'
      BY <1>2, <1>3 DEF Log, Before, Rank
    <2> QED
      BY <1>2, <1>3, <2>1, <2>2, <2>3 DEF Log, Opens
  <1>9. Rising' /\ Chained' /\ Awaited'
    <2>1. \A s \in Sems : Fresh(s)' = Fresh(s)
      BY <1>3 DEF Fresh, Pending, After
    <2>2. Fresh("sync")' = Fresh("sync") /\ Fresh("internal")' = Fresh("internal")
      BY <2>1 DEF Sems
    <2>3. Awaited'
      BY <1>2, <1>3, <2>2 DEF Awaited
    <2> QED
      BY <1>2, <1>3, <2>3 DEF Rising, Chained, After, Pending
  <1>10. LogEnd'
    <2>1. Frame' = Frame /\ Wanted' = Wanted /\ Last' = Last
      BY <1>3 DEF Frame, Wanted, Last
    <2> QED
      BY <1>2, <1>3, <2>1 DEF LogEnd, Ends, Ended
  <1>11. Underway'
    <2>1. \A i \in Unfinished' :
            /\ batches'[i].frame = Last'.frame
            /\ batches'[i].op = "copyin" => i = done' + 1
            /\ batches'[i].op \in {"prepass", "main"} => blockIteration' = batches'[i].frame - 1
      BY <1>2, <1>3, <1>5 DEF Underway, Last
    <2>2. ASSUME NEW f \in Fences
          PROVE  fence'[f] = "pending" <=> \E i \in Unfinished' : batches'[i].fence = f
      <3>1. fence[f] = "pending" <=> \E i \in Unfinished : batches[i].fence = f
        BY <1>2 DEF Underway
      <3>2. f # "none" /\ DOMAIN fence = Fences
        BY <1>1 DEF Fences, FenceStates, QueueTypes
      <3>3. CASE batches[done + 1].fence = f
        <4>1. \A i \in Unfinished : batches[i].fence = f => i = done + 1
          BY <1>1, <1>2, <1>4, <3>3, OneUser
        <4>2. fence'[f] = "signalled"
          BY <1>3, <3>2, <3>3
        <4> QED
          BY <1>3, <1>5, <4>1, <4>2
      <3>4. CASE batches[done + 1].fence # f
        <4>1. fence'[f] = fence[f]
          BY <1>3, <3>2, <3>4
        <4> QED
          BY <1>3, <1>5, <3>1, <3>4, <4>1
      <3> QED
        BY <3>3, <3>4
    <2> QED
      BY <1>4, <2>1, <2>2 DEF Underway
  <1> QED
    BY <1>7, <1>8, <1>9, <1>10, <1>11 DEF StreamInv

(* The game presents: the frames before keep what they asked for.          *)
LEMMA PresentStream ==
  ASSUME StreamInv, TimelineInv', NEW n \in Inserted, Present(n)
  PROVE  StreamInv' /\ Stream!Ask(n)
  <1>1. /\ Typed /\ QueueTypes /\ batches \in Seq(Batches) /\ Len(batches) \in Nat
        /\ asked \in Seq(Inserted) /\ Frame \in Nat
    BY StreamTypes DEF Typed
  <1>2. /\ Log /\ LogEnd /\ Rising /\ Chained /\ Awaited /\ Underway /\ Memory /\ TimelineInv
    BY DEF StreamInv
  <1>3. /\ UNCHANGED <<batches, done, running, fence, source, features, destination, output,
                       blockIteration, first, iteration, wIteration, slot>>
        /\ pc = "idle" /\ pc' = "copyin" /\ asked' = Append(asked, n)
    BY DEF Present, contextVars, queueVars, memoryVars, countVars, wrapperVars
  <1>4. Frame' = Frame + 1 /\ \A f \in 1..Frame : asked'[f] = asked[f]
    BY <1>1, <1>3 DEF Frame
  <1>5. \A i \in 1..Len(batches) : WellMade(batches[i])'
    <2> TAKE i \in 1..Len(batches)
    <2>1. WellMade(batches[i])
      BY <1>2 DEF Log
    <2>2. batches[i].frame \in 1..Frame' /\ asked'[batches[i].frame] = asked[batches[i].frame]
      BY <1>1, <1>4, <2>1 DEF WellMade
    <2>3. batches' = batches
      BY <1>3
    <2> QED
      BY <2>1, <2>2, <2>3 DEF WellMade, FenceOf
  <1>6. \A i \in 1..Len(batches) : asked'[batches[i].frame] = asked[batches[i].frame]
    BY <1>2, <1>4 DEF Log, WellMade
  <1>7. Log'
    <2>1. \A i \in 1..(Len(batches) - 1) : Follows(batches[i], batches[i + 1])'
      <3> TAKE i \in 1..(Len(batches) - 1)
      <3>1. Follows(batches[i], batches[i + 1])
        BY <1>2 DEF Log
      <3>2. asked'[batches[i].frame] = asked[batches[i].frame]
        BY <1>1, <1>6
      <3> QED
        BY <1>3, <3>1, <3>2 DEF Follows
    <2>2. \A i, j \in 1..Len(batches) : i < j => Before(batches[i], batches[j])'
      BY <1>2, <1>3 DEF Log, Before, Rank
    <2> QED
      BY <1>2, <1>3, <1>5, <2>1, <2>2 DEF Log, Opens
  <1>8. Rising' /\ Chained'
    BY <1>2, <1>3 DEF Rising, Chained, After, Pending
  <1>9. Awaited'
    BY <1>3 DEF Awaited, Fresh
  <1>10. LogEnd'
    <2>1. Ended(Frame) /\ wIteration = Frame
      BY <1>2, <1>3 DEF LogEnd
    <2>2. Frame' - 1 = Frame
      BY <1>1, <1>4
    <2>3. Last' = Last
      BY <1>3 DEF Last
    <2>4. Ended(Frame - 1)'
      <3>1. CASE Frame = 0
        BY <1>3, <2>1, <2>2, <3>1 DEF Ended
      <3>2. CASE Frame # 0
        <4>1. asked'[Frame] = asked[Frame]
          BY <1>1, <1>4, <3>2
        <4> QED
          BY <1>3, <2>1, <2>2, <2>3, <3>2, <4>1 DEF Ended
      <3> QED
        BY <3>1, <3>2
    <2>5. IF wIteration = 0 THEN first
          ELSE ~first /\ iteration = wIteration - 1 /\ blockIteration = iteration
      BY <1>2, <1>3 DEF LogEnd
    <2> QED
      BY <1>3, <2>1, <2>2, <2>4, <2>5 DEF LogEnd
  <1>11. Underway'
    BY <1>2, <1>3 DEF Underway, Unfinished, Last
  <1>12. \A i \in 1..Len(output) : Intact(output[i])'
    <2> TAKE i \in 1..Len(output)
    <2>1. Intact(output[i])
      BY <1>2 DEF Memory
    <2>2. output[i].frame \in 1..Frame' /\ asked'[output[i].frame] = asked[output[i].frame]
      BY <1>1, <1>4, <2>1 DEF Intact
    <2>3. output' = output
      BY <1>3
    <2> QED
      BY <2>1, <2>2, <2>3 DEF Intact
  <1>13. Shown' = Shown
    BY <1>3 DEF Shown
  <1>14. Stream!Upcoming' = Stream!Upcoming
    <2>1. output' \in Seq(Outputs)
      BY <1>2, <1>3 DEF Memory
    <2>2. Stream!Upcoming' = IF output = <<>> THEN <<1, 1>> ELSE Successor(output[Len(output)])'
      BY <1>3, <2>1, UpcomingNext
    <2>3. Stream!Upcoming = IF output = <<>> THEN <<1, 1>> ELSE Successor(output[Len(output)])
      BY <1>2, UpcomingIs DEF Memory
    <2>4. ASSUME output # <<>>
          PROVE  Successor(output[Len(output)])' = Successor(output[Len(output)])
      <3>1. Len(output) \in 1..Len(output)
        BY <1>2, <2>4 DEF Memory
      <3> DEFINE o == output[Len(output)]
      <3>2. o.image.pair = Pair(o.frame) /\ o.frame \in 1..Frame /\ o.image.slot = o.slot
        <4>1. Intact(o)
          BY <1>2, <3>1 DEF Memory
        <4> HIDE DEF o
        <4> QED
          BY <4>1 DEF Intact
      <3>3. o.image.pair[2] = o.frame
        BY <3>2 DEF Pair
      <3> QED
        BY <1>3, <1>4, <3>2, <3>3 DEF Successor
    <2> QED
      BY <2>2, <2>3, <2>4
  <1>15. Memory'
    <2>1. Effected' = Effected
      BY <1>3 DEF Effected
    <2>2. CASE Effected = 0
      BY <1>2, <1>3, <1>12, <1>14, <2>1, <2>2 DEF Memory
    <2>3. CASE Effected # 0
      <3>1. Effected \in 1..Len(batches)
        BY <1>1, <1>2, <2>3, EffectedType
      <3> DEFINE b == batches[Effected]
      <3>2. Holds(b) /\ asked'[b.frame] = asked[b.frame]
        BY <1>2, <1>6, <2>3, <3>1 DEF Memory
      <3>3. NextAfter(b)' = NextAfter(b)
        BY <1>3, <2>1, <3>2 DEF NextAfter
      <3>4. Holds(b)'
        BY <1>3, <1>14, <2>1, <3>2, <3>3 DEF Holds
      <3> QED
        BY <1>2, <1>3, <1>12, <2>1, <2>3, <3>4 DEF Memory
    <2> QED
      BY <2>2, <2>3
  <1>16. Stream!Upcoming[1] >= Frame
    <2>1. Ended(Frame)
      BY <1>2, <1>3 DEF LogEnd
    <2>2. CASE Frame = 0
      <3>1. Effected = 0
        BY <1>1, <1>2, <2>1, <2>2, EffectedType DEF Ended
      <3> QED
        BY <1>2, <2>2, <3>1 DEF Memory
    <2>3. CASE Frame # 0
      <3>1. batches # <<>> /\ Last.op = "copyout" /\ Last.frame = Frame /\ Last.slot = asked[Frame]
        BY <2>1, <2>3 DEF Ended
      <3>2. Len(batches) \in 1..Len(batches) /\ asked[Frame] \in Nat
        BY <1>1, <2>3, <3>1, AskedTypes
      <3>3. done \in 0..Len(batches) /\ \A i \in Unfinished : batches[i].frame = Frame
        BY <1>1, <1>2, <3>1 DEF QueueTypes, Underway
      <3>4. ASSUME NEW b, Holds(b), b.frame = Frame,
                   b.op \in {"copyin", "prepass", "main", "copyout"}
            PROVE  Stream!Upcoming[1] >= Frame
        <4>1. NextAfter(b)[1] \in {Frame, Frame + 1}
          BY <3>4 DEF NextAfter
        <4> QED
          BY <1>1, <3>4, <4>1 DEF Holds
      <3>5. CASE running # {}
        <4>1. done + 1 \in Unfinished /\ Effected = done + 1 /\ done + 1 # 0
          BY <1>1, <1>2, <3>5, EffectedType DEF Effected
        <4>2. batches[done + 1] \in Batches
          BY <1>1, <3>3, <4>1 DEF Unfinished
        <4>3. Holds(batches[done + 1])
          BY <1>2, <4>1 DEF Memory
        <4> QED
          BY <3>3, <3>4, <4>1, <4>2, <4>3, RankType
      <3>6. CASE running = {} /\ done = Len(batches)
        <4>1. Effected = Len(batches) /\ Len(batches) # 0
          BY <3>2, <3>6 DEF Effected
        <4>2. Holds(Last)
          BY <1>2, <4>1 DEF Memory, Last
        <4> QED
          BY <3>1, <3>4, <4>2
      <3>7. CASE running = {} /\ done # Len(batches) /\ done = 0
        <4>1. Effected = 0 /\ 1 \in Unfinished
          BY <1>1, <3>3, <3>7 DEF Effected, Unfinished
        <4>2. Frame = 1
          BY <1>2, <3>1, <3>3, <4>1 DEF Log, Opens
        <4> QED
          BY <1>2, <4>1, <4>2 DEF Memory
      <3>8. CASE running = {} /\ done # Len(batches) /\ done # 0
        <4> DEFINE p == batches[done]
                   q == batches[done + 1]
        <4>1. Effected = done /\ done + 1 \in Unfinished /\ done \in 1..(Len(batches) - 1)
          BY <1>1, <3>3, <3>8 DEF Effected, Unfinished
        <4>2. Holds(p) /\ Follows(p, q) /\ q.frame = Frame /\ p \in Batches
          BY <1>1, <1>2, <3>3, <3>8, <4>1 DEF Memory, Log
        <4>3. p.frame \in Nat /\ p.op \in {"copyin", "prepass", "main", "copyout"}
          BY <4>2, RankType
        <4> HIDE DEF p, q
        <4>4. \/ p.frame = Frame
              \/ p.op = "copyout" /\ ~(p.slot < asked[p.frame]) /\ Frame = p.frame + 1
          BY <4>2, <4>3 DEF Follows
        <4>5. CASE p.frame = Frame
          BY <3>4, <4>2, <4>3, <4>5
        <4>6. CASE p.op = "copyout" /\ ~(p.slot < asked[p.frame]) /\ Frame = p.frame + 1
          <5>1. NextAfter(p) = <<Frame, 1>>
            BY <4>6 DEF NextAfter
          <5> QED
            BY <1>1, <4>2, <5>1 DEF Holds
        <4> QED
          BY <4>4, <4>5, <4>6
      <3> QED
        BY <3>5, <3>6, <3>7, <3>8
    <2> QED
      BY <2>2, <2>3
  <1>17. Stream!Ask(n)
    BY <1>3, <1>13, <1>16 DEF Stream!Ask, Frame
  <1> QED
    BY <1>7, <1>8, <1>9, <1>10, <1>11, <1>15, <1>17 DEF StreamInv

(* The start.                                                              *)
LEMMA InitStream == Init => StreamInv /\ Stream!Init
  <1> SUFFICES ASSUME Init
               PROVE  StreamInv /\ Stream!Init
    OBVIOUS
  <1>1. /\ batches = <<>> /\ done = 0 /\ running = {} /\ output = <<>> /\ asked = <<>>
        /\ source = [l \in 0..1 |-> 0] /\ fence = [f \in Fences |-> "idle"]
        /\ pc = "idle" /\ wIteration = 0 /\ first = TRUE
    BY DEF Init, ContextInit
  <1>2. TimelineInv
    BY InitTimelineInv
  <1>3. Log
    BY <1>1 DEF Log
  <1>4. LogEnd
    BY <1>1 DEF LogEnd, Ended, Frame
  <1>5. Rising /\ Chained
    <2>1. After(0) = Nothing /\ Pending = Nothing /\ Len(batches) = 0
      BY <1>1 DEF After, Pending
    <2> QED
      BY <2>1, VectorTypes DEF Rising, Chained
  <1>6. Awaited
    BY <1>1 DEF Awaited
  <1>7. Underway
    BY <1>1 DEF Underway, Unfinished
  <1>8. output \in Seq(Outputs)
    BY <1>1
  <1>9. Stream!Upcoming = <<1, 1>>
    BY <1>1, <1>8, UpcomingIs
  <1>10. Memory
    BY <1>1, <1>8, <1>9 DEF Memory, Effected
  <1>11. Stream!Init
    <2>1. Shown = ShownOf(output)
      BY DEF Shown, ShownOf
    <2> QED
      BY <1>1, <1>8, <2>1, ShownFacts DEF Stream!Init
  <1> QED
    BY <1>2, <1>3, <1>4, <1>5, <1>6, <1>7, <1>10, <1>11 DEF StreamInv

(* The abstract stream does not see what copies nothing out.               *)
LEMMA Unseen ==
  ASSUME UNCHANGED <<asked, memoryVars>>
  PROVE  [Stream!Next]_(Stream!vars)
  BY DEF memoryVars, Shown, Stream!vars

(* Every step, with what the abstract stream makes of it.                  *)
LEMMA NextStream == StreamInv /\ [Next]_vars => StreamInv' /\ [Stream!Next]_(Stream!vars)
  <1> SUFFICES ASSUME StreamInv, [Next]_vars
               PROVE  StreamInv' /\ [Stream!Next]_(Stream!vars)
    OBVIOUS
  <1>1. TimelineInv'
    BY NextTimelineInv DEF StreamInv
  <1>2. CASE \E n \in Inserted : Present(n)
    <2>1. PICK n \in Inserted : Present(n)
      BY <1>2
    <2> QED
      BY <1>1, <2>1, PresentStream DEF Stream!Next
  <1>3. CASE \E ok \in BOOLEAN : CopyIn(ok) \/ StartIteration(ok) \/ Generate(ok) \/ CopyOut(ok)
    <2>1. StreamInv'
      BY <1>3, CopyInStream, StartIterationStream, GenerateStream, CopyOutStream
    <2>2. UNCHANGED <<asked, memoryVars>>
      BY <1>3 DEF CopyIn, StartIteration, Generate, CopyOut, Dispatch, Acquire
    <2> QED
      BY <2>1, <2>2, Unseen
  <1>4. CASE \/ \E ok \in BOOLEAN : AcquireImage(ok) \/ PresentGenerated(ok) \/ PresentOriginal(ok)
             \/ Close \/ Idle \/ DropContext \/ WaitLost \/ LoseDevice \/ UNCHANGED vars
    <2>1. StreamInv'
      BY <1>1, <1>4, HostStream
    <2>2. UNCHANGED <<asked, memoryVars>>
      BY <1>4 DEF AcquireImage, PresentGenerated, PresentOriginal, Close, Idle, DropContext,
                  WaitLost, LoseDevice, vars, contextVars, hostVars
    <2> QED
      BY <2>1, <2>2, Unseen
  <1>5. CASE Gpu
    <2>1. CASE Run /\ UNCHANGED <<wrapperVars, hostVars>>
      BY <1>1, <2>1, RunStream
    <2>2. CASE Complete /\ UNCHANGED <<wrapperVars, hostVars>>
      <3>1. UNCHANGED <<asked, memoryVars>>
        BY <2>2 DEF Complete, hostVars
      <3> QED
        BY <1>1, <2>2, <3>1, CompleteStream, Unseen
    <2> QED
      BY <1>5, <2>1, <2>2 DEF Gpu
  <1> QED
    BY <1>2, <1>3, <1>4, <1>5 DEF Next, Host, Dropped

(* The log, the waits and the memory stay as described above.              *)
THEOREM StreamInvariant == Spec => []StreamInv
  <1>1. Init => StreamInv
    BY InitStream
  <1>2. StreamInv /\ [Next]_vars => StreamInv'
    BY NextStream
  <1> QED
    BY <1>1, <1>2, PTL DEF Spec

(* No command buffer is submitted again, and no fence is handed out again, *)
(* before the GPU is done with its previous use.                           *)
THEOREM ReuseHolds == Spec => []ReuseSafe
  <1>1. ASSUME StreamInv
        PROVE  ReuseSafe
    <2>1. Typed /\ Log /\ Underway
      BY <1>1, StreamTypes DEF StreamInv
    <2>2. FenceDiscipline
      BY <2>1, OneUser DEF FenceDiscipline, Underway
    <2>3. ASSUME NEW i \in Unfinished, NEW j \in Unfinished, batches[i].op # "prepass",
                 Recorded(batches[i]) = Recorded(batches[j])
          PROVE  i = j
      <3>1. batches[i] \in Batches /\ batches[j] \in Batches
        BY <2>1 DEF Typed, QueueTypes, Unfinished
      <3>2. /\ batches[i].op \in {"copyin", "prepass", "main", "copyout"}
            /\ batches[j].op \in {"copyin", "prepass", "main", "copyout"}
        BY <3>1, RankType
      <3>3. /\ batches[j].op = batches[i].op
            /\ batches[i].op \in {"main", "copyout"} => batches[j].slot = batches[i].slot
        BY <2>3, <3>2 DEF Recorded
      <3>4. Rank(batches[i]) = Rank(batches[j])
        BY <2>3, <3>2, <3>3, RankOf
      <3> QED
        BY <2>1, <3>4, SamePlace
    <2> QED
      BY <2>2, <2>3 DEF ReuseSafe
  <1> QED
    BY <1>1, StreamInvariant, PTL

(* Every frame copied out is the frame it is presented as: generated from  *)
(* this frame and the one before, features included, for its own slot.     *)
THEOREM FramesHold == Spec => []FramesIntact
  <1>1. ASSUME StreamInv
        PROVE  FramesIntact
    <2>1. \A i \in 1..Len(output) : Intact(output[i])
      BY <1>1 DEF StreamInv, Memory
    <2> SUFFICES ASSUME NEW i \in 1..Len(output)
                 PROVE  output[i].image = [pair |-> Pair(output[i].frame),
                                           of |-> Pair(output[i].frame), slot |-> output[i].slot]
      BY DEF FramesIntact, Pair
    <2> DEFINE o == output[i]
    <2>2. Intact(o)
      BY <2>1
    <2> HIDE DEF o
    <2>3. o.image = [pair |-> Pair(o.frame), of |-> Pair(o.frame), slot |-> o.slot]
      BY <2>2 DEF Intact
    <2> QED
      BY <2>3 DEF o
  <1> QED
    BY <1>1, StreamInvariant, PTL

(* Seen from the swapchain, the wrapper, the context and the GPU together  *)
(* implement the abstract stream of generated frames.                      *)
THEOREM StreamImplemented == Spec => StreamsFrames
  <1>1. Init => Stream!Init
    BY InitStream
  <1>2. StreamInv /\ [Next]_vars => [Stream!Next]_(Stream!vars)
    BY NextStream
  <1> QED
    BY <1>1, <1>2, StreamInvariant, PTL DEF Spec, StreamsFrames, Stream!Spec
=============================================================================
