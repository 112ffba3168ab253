----------------------------- MODULE GenContext -----------------------------
(***************************************************************************)
(* One generation context (generator/mod.rs, Context) and the Vulkan queue *)
(* it shares with its caller.                                              *)
(*                                                                         *)
(* The context turns the game's frame, copied into one of two source       *)
(* layers by the caller, into `total` generated frames: one pre-pass per   *)
(* iteration, then one main pass per generated frame, each overwriting the *)
(* single destination image the caller copies out of.  The order between   *)
(* the two sides is carried by two timeline semaphores whose values both   *)
(* sides count on their own.                                               *)
(*                                                                         *)
(* `batches` is everything ever submitted, in submission order.  The GPU   *)
(* runs a batch once the semaphore values it waits for are reached and     *)
(* completes batches (semaphore signals, fence) in submission order.       *)
(***************************************************************************)
EXTENDS Integers, Sequences

CONSTANTS
  TimelineWait,  \* vkWaitSemaphores(KHR) exists; else settle drains the queue
  InOrder        \* a batch starts only when all earlier ones are complete

ASSUME ContextAssumption == TimelineWait \in BOOLEAN /\ InOrder \in BOOLEAN

Sems == {"sync", "internal"}
Fences == {"context", "wrapper"}

VARIABLES
  (* the queue, its semaphores and fences, and the device's health *)
  batches, done, running, fence, lost,
  (* GPU memory: two source layers, what the pre-pass saw, the destination, *)
  (* the iteration in the parameter block, and every frame copied out       *)
  source, features, destination, blockIteration, output,
  (* fields of Context *)
  first, iteration, total, index, syncValue, internalValue, fencePending,
  unsignaled

queueVars == <<batches, done, running, fence, lost>>
memoryVars == <<source, features, destination, output>>
countVars == <<first, iteration, total, index, syncValue, internalValue,
               fencePending, unsignaled>>
contextVars == <<queueVars, memoryVars, blockIteration, countVars>>

Nothing == [s \in Sems |-> 0]
Only(sem, value) == [s \in Sems |-> IF s = sem THEN value ELSE 0]

(* Semaphore values once the first i batches are complete.                 *)
After(i) == IF i = 0 THEN Nothing ELSE batches[i].after
Payload == After(done)
Pending == After(Len(batches))

-----------------------------------------------------------------------------
(* The queue.                                                              *)

(* A batch: what it does, for which iteration (of the two sides' counters, *)
(* frame 1 is the first) and slot, in which command buffer, the values it  *)
(* waits for and signals (0: none) and the fence it signals.               *)
Batch(op, frame, slot, layer, wait, signal, f) ==
  [op |-> op, frame |-> frame, slot |-> slot, layer |-> layer,
   wait |-> wait, signal |-> signal, fence |-> f,
   after |-> [s \in Sems |-> IF signal[s] > 0 THEN signal[s] ELSE Pending[s]]]

Batches ==
  [op : {"copyin", "prepass", "main", "copyout"},
   frame : Nat, slot : Nat, layer : Nat,
   wait : [Sems -> Nat], signal : [Sems -> Nat], after : [Sems -> Nat],
   fence : Fences \cup {"none"}]

(* vkQueueSubmit accepts the batch, with the fences as they then are.      *)
Submit(b, fences) ==
  /\ batches' = Append(batches, b)
  /\ fence' = IF b.fence = "none" THEN fences
              ELSE [fences EXCEPT ![b.fence] = "pending"]

Unfinished == (done + 1) .. Len(batches)

Ready(i) ==
  /\ \A s \in Sems : batches[i].wait[s] <= Payload[s]
  /\ InOrder => i = done + 1

(* The layers a pass reads follow the iteration the host wrote last.       *)
Current == source[blockIteration % 2]
Previous == source[1 - (blockIteration % 2)]

Effect(b) ==
  CASE b.op = "copyin" ->
         /\ source' = [source EXCEPT ![b.layer] = b.frame]
         /\ UNCHANGED <<features, destination, output>>
    [] b.op = "prepass" ->
         /\ features' = <<Previous, Current>>
         /\ UNCHANGED <<source, destination, output>>
    [] b.op = "main" ->
         /\ destination' = [pair |-> <<Previous, Current>>, of |-> features, slot |-> b.slot]
         /\ UNCHANGED <<source, features, output>>
    [] b.op = "copyout" ->
         /\ output' = Append(output, [frame |-> b.frame, slot |-> b.slot, image |-> destination])
         /\ UNCHANGED <<source, features, destination>>

(* The GPU does the work of a batch it has not started.                    *)
Run ==
  /\ ~lost
  /\ \E i \in Unfinished \ running :
       /\ Ready(i)
       /\ running' = running \cup {i}
       /\ Effect(batches[i])
  /\ UNCHANGED <<batches, done, fence, lost, blockIteration, countVars>>

(* Signals and fences happen once the batch and all before it are done.    *)
Complete ==
  /\ ~lost
  /\ done + 1 \in running
  /\ done' = done + 1
  /\ running' = running \ {done + 1}
  /\ fence' = IF batches[done + 1].fence = "none" THEN fence
              ELSE [fence EXCEPT ![batches[done + 1].fence] = "signalled"]
  /\ UNCHANGED <<batches, lost, memoryVars, blockIteration, countVars>>

Drained == done = Len(batches)

-----------------------------------------------------------------------------
(* The context.                                                            *)

ContextInit ==
  /\ batches = <<>> /\ done = 0 /\ running = {} /\ lost = FALSE
  /\ fence = [f \in Fences |-> "idle"]
  /\ source = [l \in 0..1 |-> 0]
  /\ features = <<0, 0>>
  /\ destination = [pair |-> <<0, 0>>, of |-> <<0, 0>>, slot |-> 0]
  /\ blockIteration = 0
  /\ output = <<>>
  /\ first = TRUE
  /\ iteration = 0 /\ total = 0 /\ index = 0
  /\ syncValue = 0 /\ internalValue = 0
  /\ fencePending = FALSE /\ unsignaled = FALSE

(* The timeline values settle() waits for when no fence is pending.        *)
SettleValues ==
  [s \in Sems |-> CASE s = "internal" -> internalValue
                    [] s = "sync" -> IF index > 0 /\ ~unsignaled THEN syncValue ELSE 0]

SettleOnTimelines == ~fencePending /\ ~first /\ TimelineWait /\ ~(unsignaled /\ index > 0)

(* settle() returns: the fence, the timelines, or the whole queue.         *)
Settled ==
  CASE fencePending -> fence["context"] = "signalled"
    [] SettleOnTimelines -> \A s \in Sems : SettleValues[s] <= Payload[s]
    [] OTHER -> first \/ Drained

(* the fence is reset once it has been waited for *)
SettledFence == IF fencePending THEN [fence EXCEPT !["context"] = "idle"] ELSE fence

(* Mutant: the pre-signal left by a partial iteration is not skipped.      *)
NoPartial == 0

(* A partial signalled iteration left one value of the caller unconsumed.  *)
Partial == IF ~first /\ 0 < index /\ index < total THEN 1 ELSE 0

FreshIndex == 0

(* dispatch(): settle, then submit the pre-pass of a new iteration; the    *)
(* counters move before the submit, which the driver may refuse.           *)
Dispatch(frame, n, unsig, accepted) ==
  LET sv == syncValue + Partial + 1
      iv == internalValue + 1
  IN /\ Settled
     /\ first' = FALSE
     /\ iteration' = IF first THEN 0 ELSE iteration + 1
     /\ blockIteration' = iteration'
     /\ syncValue' = sv
     /\ internalValue' = iv
     /\ IF accepted
        THEN /\ Submit(Batch("prepass", frame, 0, 0,
                             IF unsig THEN Nothing ELSE Only("sync", sv),
                             Only("internal", iv),
                             IF n = 0 THEN "context" ELSE "none"), SettledFence)
             /\ fencePending' = (n = 0)
             /\ unsignaled' = unsig
             /\ total' = n
             /\ index' = FreshIndex
        ELSE /\ fence' = SettledFence
             /\ fencePending' = FALSE
             /\ UNCHANGED <<batches, unsignaled, total, index>>
     /\ UNCHANGED <<done, running, lost, memoryVars>>

(* acquire(): the main pass of the next generated frame.                   *)
Acquire(frame, unsig, accepted) ==
  LET before == IF index > 0 /\ ~unsig THEN syncValue + 1 ELSE syncValue
      wait == IF index = 0 THEN Only("internal", internalValue)
              ELSE IF unsig THEN Nothing ELSE Only("sync", before)
      last == index = total - 1
  IN /\ 0 < total /\ index < total
     /\ syncValue' = before + 1
     /\ IF accepted
        THEN /\ Submit(Batch("main", frame, index + 1, 0, wait,
                             IF unsig THEN Nothing ELSE Only("sync", before + 1),
                             IF last THEN "context" ELSE "none"), fence)
             /\ fencePending' = (fencePending \/ last)
             /\ index' = index + 1
        ELSE UNCHANGED <<batches, fence, fencePending, index>>
     /\ UNCHANGED <<done, running, lost, memoryVars, blockIteration,
                    first, iteration, total, internalValue, unsignaled>>

-----------------------------------------------------------------------------
(* What every caller of the context relies on.                             *)

(* The queue is never stuck behind a wait nobody will satisfy: what each   *)
(* batch waits for is signalled by batches submitted before it.  The two   *)
(* sides count these values separately (sync_counter of the wrapper,       *)
(* sync_value of the context).                                             *)
NeverStalls ==
  \A i \in 1..Len(batches) : \A s \in Sems :
    batches[i].wait[s] <= After(i - 1)[s]

(* Every signal moves its timeline forward, as Vulkan demands of a value   *)
(* relative to those already pending.                                      *)
SignalsAdvance ==
  \A i \in 1..Len(batches) : \A s \in Sems :
    batches[i].signal[s] # 0 => batches[i].signal[s] > After(i - 1)[s]

(* Every copied-out image is the frame it is presented as: generated from  *)
(* this frame and the one before, features included, for its own slot.     *)
FramesIntact ==
  \A i \in 1..Len(output) :
    LET f == output[i].frame
    IN output[i].image = [pair |-> <<f - 1, f>>, of |-> <<f - 1, f>>, slot |-> output[i].slot]

(* A fence goes to one unfinished submit at a time and is reset before it  *)
(* is submitted again.                                                     *)
FenceDiscipline ==
  \A f \in Fences :
    LET users == {i \in Unfinished : batches[i].fence = f}
    IN /\ \A i, j \in users : i = j
       /\ (fence[f] = "pending") <=> (users # {})

(* The parameter buffer of a slot is re-recorded, or resubmitted as it is, *)
(* only when its previous submit is finished: it is not recorded for       *)
(* simultaneous use (Pipeline::param_update).                              *)
ParametersIdle ==
  \A i, j \in Unfinished :
    /\ batches[i].op = "main" /\ batches[j].op = "main"
    /\ batches[i].slot = batches[j].slot
    => i = j
=============================================================================
