------------------------- MODULE MetalFramesProofs -------------------------
(***************************************************************************)
(* Proofs about the generation context under its other two callers: the    *)
(* validator, which abandons iterations, and the Metal worker, which drops  *)
(* contexts and copies in early.  They hold for any plans and totals, any   *)
(* number of frames and contexts, on a queue that overlaps batches and on   *)
(* one that does not, and whichever way settle() waits.                     *)
(*                                                                         *)
(* The invariant has two halves.  IdleInv is about what may be in use:      *)
(* settle() leaves no pass of the iteration before (Iteration, Behind,      *)
(* SettledIdle), the fence of the worker no copy of the frame before        *)
(* (Fenced, Place, Recorders), and the two counts of the sync timeline      *)
(* agree again whatever was abandoned (Counted).  IntactInv adds, for the   *)
(* signalled protocol, what the images hold: each command but a copy in     *)
(* waits for what was announced right before it (Fresh, Held), so that only *)
(* a copy in can start one command early, into the layer nobody reads by    *)
(* then (Orderly, Memory).                                                  *)
(***************************************************************************)
EXTENDS MetalFrames, SequenceTheorems, TLAPS

(* What either caller submits.                                              *)
Commands ==
  [op : {"copyin", "prepass", "main", "copyout", "original"},
   frame : Nat, slot : Nat, layer : Nat,
   wait : [Sems -> Nat], signal : [Sems -> Nat], fence : Fences \cup {"none"}, after : [Sems -> Nat]]

(* The types of the queue, of the context and of its caller.                *)
QueueTypes ==
  /\ batches \in Seq(Commands) /\ done \in 0..Len(batches)
  /\ running \subseteq Unfinished
  /\ fence \in [Fences -> {"idle", "pending", "signalled"}]

CallerTypes ==
  /\ value \in Nat /\ frame \in Nat /\ want \in Nat /\ remaining \in Nat
  /\ iteration \in Nat /\ total \in Nat /\ index \in Nat
  /\ syncValue \in Nat /\ internalValue \in Nat
  /\ protocol \in BOOLEAN /\ first \in BOOLEAN /\ unsignaled \in BOOLEAN
  /\ fencePending \in BOOLEAN /\ framePending \in BOOLEAN /\ showOriginal \in BOOLEAN
  /\ caller \in {"validate", "metal"} /\ (caller = "metal" => protocol = FALSE)

Passes == {"prepass", "main"}
Copies == {"copyin", "copyout", "original"}

(* A fence is that of one unfinished command at most, and none when it has  *)
(* been waited for or can be.                                               *)
Fenced ==
  /\ \A i, j \in Unfinished : batches[i].fence = batches[j].fence => i = j \/ batches[i].fence = "none"
  /\ \A i \in Unfinished :
       /\ batches[i].fence = "context" => fencePending /\ fence["context"] # "signalled"
       /\ batches[i].fence = "wrapper" => framePending /\ fence["wrapper"] # "signalled"

(* The iteration of the context: what settle() has to wait for.             *)
Iteration ==
  /\ first => total = 0 /\ index = 0
  /\ ~first => unsignaled = protocol /\ blockIteration = iteration
  /\ index <= total
  /\ fencePending => index = total
  /\ \A i \in Unfinished : batches[i].op \in Passes =>
       /\ ~first
       /\ batches[i].frame = iteration + 1
       /\ fencePending => \E k \in i..Len(batches) : batches[k].fence = "context"
  /\ \A i \in Unfinished : batches[i].op = "main" =>
       /\ batches[i].slot \in 1..index
       /\ \A j \in Unfinished : batches[j].op = "main" /\ batches[i].slot = batches[j].slot => i = j

(* What a settle on the timelines waits for is not reached while a pass of  *)
(* the iteration runs.                                                      *)
Behind ==
  /\ \A j \in 0..Len(batches) : After(j)["internal"] <= internalValue
  /\ \A i \in Unfinished : batches[i].op = "prepass" => \A j \in done..(i - 1) : After(j)["internal"] < internalValue
  /\ ~protocol =>
       \A i \in Unfinished : batches[i].op = "main" => \A j \in done..(i - 1) : After(j)["sync"] < syncValue

(* The caller's own count of the sync timeline.                             *)
Counting == {"idle", "settle", "copyin", "dispatch", "acquire", "copyout", "original"}
Ahead == IF pc = "copyout" \/ (caller = "metal" /\ pc = "dispatch") THEN value + 1 ELSE value
Counted ==
  /\ pc \in Counting /\ ~protocol => \A j \in 0..Len(batches) : After(j)["sync"] <= Ahead
  /\ pc = "dispatch" /\ ~protocol => Ahead = syncValue + Partial + 1
  /\ pc = "acquire" /\ ~protocol => value = IF index = 0 THEN syncValue ELSE syncValue + 1
  /\ pc = "copyout" => ~protocol /\ syncValue = value + 1
  /\ pc \in {"idle", "settle", "copyin", "original"} /\ ~protocol => value = syncValue + Partial

(* Where the caller is in its frame.                                        *)
Place ==
  /\ pc = "dispatch" => frame = (IF first THEN 1 ELSE iteration + 2)
  /\ pc \in Counting \ {"dispatch"} => frame = (IF first THEN 0 ELSE iteration + 1)
  /\ pc \in {"acquire", "copyout"} => total = want
  /\ pc = "acquire" => index < total
  /\ pc = "copyout" => 0 < index
  /\ caller = "metal" =>
       /\ pc \in {"settle", "copyin", "dispatch"} => want > 0 \/ showOriginal
       /\ pc = "acquire" => remaining = total - index
       /\ pc = "copyout" => remaining = total - index + 1
       /\ pc \in {"copyin", "dispatch", "acquire", "copyout", "original"} => framePending = FALSE
       /\ pc \in {"idle", "settle", "original"} => index = total
       /\ pc \in {"idle", "settle"} => batches = <<>> \/ (framePending /\ batches[Len(batches)].fence = "wrapper")
       /\ pc = "copyin" => done = Len(batches) /\ index = total
       /\ pc = "dispatch" => index = total
  /\ caller = "validate" =>
       /\ pc \in {"idle", "dispatch", "acquire", "copyout", "dropping", "dropped"}
       /\ pc = "dispatch" => want > 0

(* The copies of the worker's frame, each with its own command buffer.      *)
Recorded ==
  CASE pc = "dispatch" -> 0
    [] pc \in {"acquire", "copyout"} -> want - remaining
    [] OTHER -> want
Recorders ==
  caller = "metal" =>
    /\ \A i, j \in Unfinished :
         batches[i].op \in Copies /\ batches[j].op \in Copies /\ batches[i].slot = batches[j].slot => i = j
    /\ pc \in {"dispatch", "acquire", "copyout", "original"} =>
         \A i \in Unfinished : batches[i].op \in Copies => batches[i].slot <= Recorded

IdleInv == QueueTypes /\ CallerTypes /\ Fenced /\ Iteration /\ Behind /\ Counted /\ Place /\ Recorders

-----------------------------------------------------------------------------
(* The frame of the command before, and the layer it was drawn into.        *)
FrameAt(i) == IF i = 0 THEN 0 ELSE batches[i].frame
LayerOf(f) == (f + 1) % 2
Pair(f) == <<f - 1, f>>
Last == batches[Len(batches)]

(* The log, step by step.                                                   *)
Follows(i) ==
  LET b == batches[i]
      a == batches[i - 1]
  IN /\ b.op = "copyin" => b.frame = FrameAt(i - 1) + 1 /\ b.layer = LayerOf(b.frame)
     /\ b.op # "copyin" => i > 1 /\ b.frame = a.frame
     /\ b.op = "copyin" /\ i > 1 => a.op \notin {"copyin", "main"}
     /\ b.op = "prepass" => a.op = "copyin"
     /\ b.op = "main" => a.op \in {"prepass", "copyout"}
     /\ b.op = "copyout" => a.op = "main" /\ b.slot = a.slot
Orderly == \A i \in 1..Len(batches) : Follows(i)

(* The caller's place in the log.                                           *)
Logged ==
  /\ pc \in Counting => frame = FrameAt(Len(batches))
  /\ pc = "dispatch" => batches # <<>> /\ Last.op = "copyin"
  /\ pc = "acquire" => batches # <<>> /\ Last.op = IF index = 0 THEN "prepass" ELSE "copyout"
  /\ pc = "copyout" => batches # <<>> /\ Last.op = "main" /\ Last.slot = index
  /\ pc \in {"idle", "settle", "copyin", "original"} => batches = <<>> \/ Last.op \notin {"copyin", "main"}
  /\ pc = "original" => batches # <<>>

(* Nothing but a copy in starts before all before it is complete, and a     *)
(* copy in at most one command early.                                       *)
Blocked(i, j) == \E s \in Sems : After(j)[s] < batches[i].wait[s]
Held ==
  \A i \in Unfinished :
    /\ batches[i].op \in {"prepass", "main", "copyout"} => \A j \in done..(i - 2) : Blocked(i, j)
    /\ batches[i].op = "copyin" => \A j \in done..(i - 3) : Blocked(i, j)

(* What the next command will wait for has just been announced.             *)
Fresh ==
  /\ pc \in {"dispatch", "copyout"} \/ (pc = "acquire" /\ index > 0) =>
       \A j \in 0..(Len(batches) - 1) : After(j)["sync"] < Ahead
  /\ pc = "acquire" /\ index = 0 => \A j \in 0..(Len(batches) - 1) : After(j)["internal"] < internalValue
  /\ caller = "validate" /\ pc \in {"idle", "acquire"} => \A j \in 0..(Len(batches) - 2) : After(j)["sync"] < value

(* The source layers hold the frame of the iteration and the one before,    *)
(* unless a copy in is under way; the features, and the image of the last   *)
(* main pass, are of that pair.                                             *)
Copying == \E i \in running : batches[i].op = "copyin"
Begun(i) == i \in 1..done \/ i \in running
Holds(layers, f) == layers[LayerOf(f)] = f /\ (f > 0 => layers[LayerOf(f - 1)] = f - 1)
SourceOf(f) == Holds(source, f)
Image(b) == [pair |-> Pair(b.frame), of |-> Pair(b.frame), slot |-> b.slot]
Memory ==
  /\ \A i \in running : /\ batches[i].op = "copyin" => i <= done + 2
                        /\ batches[i].op \in {"prepass", "main", "copyout"} => i = done + 1
  /\ \A i \in running : batches[i].op = "copyin" => SourceOf(batches[i].frame)
  /\ ~Copying => SourceOf(FrameAt(done))
  /\ ~Copying => \A i \in {done, done + 1} :
       Begun(i) /\ batches[i].op \in {"prepass", "main", "copyout"} => features = Pair(batches[i].frame)
  /\ \A i \in {done, done + 1} :
       Begun(i) /\ batches[i].op = "main" => destination = Image(batches[i])
  /\ FramesIntact

(* What the passes read and write.                                          *)
Images == [pair : Nat \X Nat, of : Nat \X Nat, slot : Nat]
MemoryTypes ==
  /\ source \in [0..1 -> Nat] /\ features \in Nat \X Nat /\ destination \in Images
  /\ output \in Seq([frame : Nat, slot : Nat, image : Images])
  /\ caller = "validate" => \A i \in 1..Len(batches) : batches[i].op # "original"

(* Both halves.                                                             *)
IntactInv == IdleInv /\ (~protocol => Orderly /\ Held /\ Logged /\ Fresh /\ Memory)

-----------------------------------------------------------------------------
(* The values after any command of the log.                                 *)
LEMMA AfterTypes ==
  ASSUME QueueTypes
  PROVE  \A j \in 0..Len(batches) : After(j) \in [Sems -> Nat]
<1> SUFFICES ASSUME NEW j \in 0..Len(batches) PROVE After(j) \in [Sems -> Nat]
  OBVIOUS
<1>1. CASE j = 0
  BY <1>1 DEF After, Nothing, Sems
<1>2. CASE j # 0
  <2>1. batches[j] \in Commands
    BY <1>2, ElementOfSeq DEF QueueTypes
  <2> QED
    BY <1>2, <2>1 DEF After, Commands
<1> QED
  BY <1>1, <1>2

(* The commands of the log.                                                 *)
LEMMA CommandTypes ==
  ASSUME QueueTypes
  PROVE  /\ \A i \in 1..Len(batches) : batches[i] \in Commands
         /\ \A i \in Unfinished : i \in 1..Len(batches) /\ batches[i] \in Commands
         /\ Len(batches) \in Nat
<1>1. \A i \in 1..Len(batches) : batches[i] \in Commands
  BY ElementOfSeq DEF QueueTypes
<1>2. Len(batches) \in Nat
  BY DEF QueueTypes
<1> QED
  BY <1>1, <1>2 DEF Unfinished, QueueTypes

(* The two vectors a command is made of.                                    *)
LEMMA Vectors ==
  /\ Nothing \in [Sems -> Nat] /\ \A s \in Sems : Nothing[s] = 0
  /\ \A sem \in Sems, v \in Nat :
       /\ Only(sem, v) \in [Sems -> Nat]
       /\ \A s \in Sems : Only(sem, v)[s] = IF s = sem THEN v ELSE 0
  /\ Sems = {"sync", "internal"}
BY DEF Nothing, Only, Sems

(* What a new command is, and what it makes of the semaphores.              *)
Made(b, op, f, k, l, wait, signal, g) ==
  /\ b \in Commands
  /\ b.op = op /\ b.frame = f /\ b.slot = k /\ b.layer = l /\ b.wait = wait /\ b.signal = signal /\ b.fence = g
  /\ \A s \in Sems : b.after[s] = IF signal[s] > 0 THEN signal[s] ELSE After(Len(batches))[s]

(* A batch is such a command.                                               *)
LEMMA BatchIs ==
  ASSUME QueueTypes,
         NEW op \in {"copyin", "prepass", "main", "copyout", "original"}, NEW f \in Nat, NEW k \in Nat, NEW l \in Nat,
         NEW wait \in [Sems -> Nat], NEW signal \in [Sems -> Nat], NEW g \in Fences \cup {"none"}
  PROVE  Made(Batch(op, f, k, l, wait, signal, g), op, f, k, l, wait, signal, g)
<1>1. Len(batches) \in 0..Len(batches)
  BY CommandTypes
<1>2. Pending \in [Sems -> Nat]
  BY <1>1, AfterTypes DEF Pending
<1> DEFINE b == Batch(op, f, k, l, wait, signal, g)
           v == [s \in Sems |-> IF signal[s] > 0 THEN signal[s] ELSE Pending[s]]
<1>3. v \in [Sems -> Nat] /\ \A s \in Sems : v[s] = IF signal[s] > 0 THEN signal[s] ELSE After(Len(batches))[s]
  BY <1>2 DEF Pending
<1>4. b = [op |-> op, frame |-> f, slot |-> k, layer |-> l, wait |-> wait, signal |-> signal, fence |-> g, after |-> v]
  BY DEF Batch
<1> HIDE DEF v, b
<1>5. b \in Commands
  BY <1>3, <1>4 DEF Commands
<1>6. Made(b, op, f, k, l, wait, signal, g)
  BY <1>3, <1>4, <1>5 DEF Made
<1> QED
  BY <1>6 DEF b

(* A command is put at the end of the log.                                  *)
Grows(b) == batches' = Append(batches, b) /\ done' = done /\ running' = running

(* What is new in a log that has grown, and what is not.                    *)
LEMMA Grown ==
  ASSUME QueueTypes, NEW b \in Commands, Grows(b)
  PROVE  /\ batches' \in Seq(Commands) /\ done' \in 0..Len(batches') /\ running' \subseteq Unfinished'
         /\ Len(batches') = Len(batches) + 1
         /\ \A i \in 1..Len(batches) : batches'[i] = batches[i]
         /\ batches'[Len(batches) + 1] = b
         /\ \A j \in 0..Len(batches) : After(j)' = After(j)
         /\ \A n \in Nat : n = Len(batches) + 1 => After(n)' = b.after
         /\ Unfinished' = Unfinished \cup {Len(batches) + 1}
         /\ Len(batches) + 1 \notin Unfinished
<1>1. /\ batches' \in Seq(Commands) /\ Len(batches') = Len(batches) + 1 /\ Len(batches) \in Nat
      /\ \A i \in 1..Len(batches) : batches'[i] = batches[i]
      /\ batches'[Len(batches) + 1] = b
  BY DEF Grows, QueueTypes
<1>2. \A j \in 0..Len(batches) : After(j)' = After(j)
  BY <1>1 DEF After
<1>3. \A n \in Nat : n = Len(batches) + 1 => After(n)' = b.after
  BY <1>1 DEF After
<1>4. done' = done /\ done \in 0..Len(batches)
  BY DEF Grows, QueueTypes
<1>5. Unfinished' = Unfinished \cup {Len(batches) + 1} /\ Len(batches) + 1 \notin Unfinished
  BY <1>1, <1>4 DEF Unfinished
<1>6. done' \in 0..Len(batches')
  BY <1>1, <1>4
<1>7. running' \subseteq Unfinished'
  BY <1>5 DEF Grows, QueueTypes
<1> QED
  BY <1>1, <1>2, <1>3, <1>5, <1>6, <1>7

(* The fences after a command is submitted.                                 *)
LEMMA FencedGrow ==
  ASSUME QueueTypes, Fenced, NEW b \in Commands, Grows(b),
         \A i \in Unfinished :
           /\ batches[i].fence = "context" => b.fence # "context" /\ fencePending' /\ fence'["context"] # "signalled"
           /\ batches[i].fence = "wrapper" => b.fence # "wrapper" /\ framePending' /\ fence'["wrapper"] # "signalled",
         b.fence = "context" => fencePending' /\ fence'["context"] # "signalled",
         b.fence = "wrapper" => framePending' /\ fence'["wrapper"] # "signalled"
  PROVE  Fenced'
<1>1. /\ \A i \in 1..Len(batches) : batches'[i] = batches[i]
      /\ batches'[Len(batches) + 1] = b
      /\ Unfinished' = Unfinished \cup {Len(batches) + 1}
  BY Grown
<1>2. \A i \in Unfinished : i \in 1..Len(batches) /\ batches[i].fence \in {"context", "wrapper", "none"}
  BY CommandTypes DEF Commands, Fences
<1>3. ASSUME NEW i \in Unfinished', NEW j \in Unfinished', batches'[i].fence = batches'[j].fence
      PROVE  i = j \/ batches'[i].fence = "none"
  <2>1. CASE i \in Unfinished /\ j \in Unfinished
    BY <1>1, <1>2, <1>3, <2>1 DEF Fenced
  <2>2. CASE i \in Unfinished /\ j = Len(batches) + 1
    BY <1>1, <1>2, <1>3, <2>2
  <2>3. CASE j \in Unfinished /\ i = Len(batches) + 1
    BY <1>1, <1>2, <1>3, <2>3
  <2> QED
    BY <1>1, <2>1, <2>2, <2>3
<1>4. ASSUME NEW i \in Unfinished'
      PROVE  /\ batches'[i].fence = "context" => fencePending' /\ fence'["context"] # "signalled"
             /\ batches'[i].fence = "wrapper" => framePending' /\ fence'["wrapper"] # "signalled"
  BY <1>1, <1>2
<1> QED
  BY <1>3, <1>4 DEF Fenced

(* A copy is submitted: the iteration and its two semaphores stay as they   *)
(* are, but for the value it announces to the caller's own count.           *)
LEMMA CopyGrow ==
  ASSUME QueueTypes, CallerTypes, Iteration, Behind, NEW b \in Commands, Grows(b),
         b.op \in Copies, b.after["internal"] = After(Len(batches))["internal"],
         UNCHANGED <<blockIteration, countVars, protocol>>
  PROVE  Iteration' /\ Behind'
<1>1. /\ \A i \in 1..Len(batches) : batches'[i] = batches[i]
      /\ batches'[Len(batches) + 1] = b /\ Len(batches') = Len(batches) + 1
      /\ Unfinished' = Unfinished \cup {Len(batches) + 1}
      /\ \A j \in 0..Len(batches) : After(j)' = After(j)
      /\ \A n \in Nat : n = Len(batches) + 1 => After(n)' = b.after
  BY Grown
<1>2. \A i \in Unfinished : i \in 1..Len(batches) /\ batches'[i] = batches[i]
  BY <1>1, CommandTypes
<1>3. Len(batches) \in Nat /\ done \in 0..Len(batches) /\ done' = done
  BY DEF QueueTypes, Grows
<1>4. b.op \notin Passes
  BY DEF Copies, Passes
<1>5. /\ first' = first /\ total' = total /\ index' = index /\ unsignaled' = unsignaled /\ protocol' = protocol
      /\ blockIteration' = blockIteration /\ iteration' = iteration /\ fencePending' = fencePending
      /\ internalValue' = internalValue /\ syncValue' = syncValue
  BY DEF countVars
<1>6. \A i \in Unfinished' : batches'[i].op \in Passes => i \in Unfinished
  BY <1>1, <1>4
<1>7. ASSUME NEW i \in Unfinished', batches'[i].op \in Passes
      PROVE  /\ ~first'
             /\ batches'[i].frame = iteration' + 1
             /\ fencePending' => \E k \in i..Len(batches') : batches'[k].fence = "context"
  <2>1. i \in Unfinished /\ batches'[i] = batches[i] /\ i \in 1..Len(batches)
    BY <1>2, <1>6, <1>7
  <2>2. /\ ~first /\ batches[i].frame = iteration + 1
        /\ fencePending => \E k \in i..Len(batches) : batches[k].fence = "context"
    BY <1>7, <2>1 DEF Iteration
  <2>3. ASSUME fencePending PROVE \E k \in i..Len(batches') : batches'[k].fence = "context"
    <3>1. PICK k \in i..Len(batches) : batches[k].fence = "context"
      BY <2>2, <2>3
    <3>2. k \in i..Len(batches') /\ batches'[k] = batches[k]
      BY <1>1, <1>3, <2>1
    <3> QED
      BY <3>1, <3>2
  <2> QED
    BY <1>5, <2>1, <2>2, <2>3
<1>8. ASSUME NEW i \in Unfinished', batches'[i].op = "main"
      PROVE  /\ batches'[i].slot \in 1..index'
             /\ \A j \in Unfinished' : batches'[j].op = "main" /\ batches'[i].slot = batches'[j].slot => i = j
  BY <1>2, <1>5, <1>6, <1>8 DEF Iteration, Passes
<1>9. Iteration'
  BY <1>5, <1>7, <1>8 DEF Iteration
<1>10. \A j \in 0..Len(batches') : After(j)'["internal"] <= internalValue'
  <2> SUFFICES ASSUME NEW j \in 0..Len(batches') PROVE After(j)'["internal"] <= internalValue'
    OBVIOUS
  <2>1. CASE j \in 0..Len(batches)
    BY <1>1, <1>5, <2>1 DEF Behind
  <2>2. CASE j = Len(batches) + 1
    <3>1. After(Len(batches))["internal"] <= internalValue
      BY <1>3 DEF Behind
    <3>2. After(j)' = b.after
      BY <1>1, <1>3, <2>2
    <3> QED
      BY <1>5, <3>1, <3>2
  <2> QED
    BY <1>1, <1>3, <2>1, <2>2
<1>11. ASSUME NEW i \in Unfinished', batches'[i].op \in Passes, NEW j \in done'..(i - 1)
       PROVE  After(j)' = After(j) /\ i \in Unfinished /\ batches'[i] = batches[i] /\ j \in done..(i - 1)
  BY <1>1, <1>2, <1>3, <1>6, <1>11
<1>12. ASSUME NEW i \in Unfinished', batches'[i].op = "prepass", NEW j \in done'..(i - 1)
       PROVE  After(j)'["internal"] < internalValue'
  BY <1>5, <1>11, <1>12 DEF Behind, Passes
<1>13. ASSUME ~protocol', NEW i \in Unfinished', batches'[i].op = "main", NEW j \in done'..(i - 1)
       PROVE  After(j)'["sync"] < syncValue'
  BY <1>5, <1>11, <1>13 DEF Behind, Passes
<1>14. Behind'
  BY <1>10, <1>12, <1>13 DEF Behind
<1> QED
  BY <1>9, <1>14

(* settle() returns only when no pass of the iteration before is left, on   *)
(* any of its three ways: that is what it is for.                           *)
LEMMA SettledIdle ==
  ASSUME QueueTypes, CallerTypes, Fenced, Iteration, Behind, Settled
  PROVE  /\ \A i \in Unfinished : batches[i].op \notin Passes
         /\ \A i \in Unfinished : batches[i].fence # "context"
         /\ SettledFence \in [Fences -> {"idle", "pending", "signalled"}]
         /\ SettledFence["wrapper"] = fence["wrapper"]
<1> USE DEF Sems, Fences
<1>1. Len(batches) \in Nat /\ done \in 0..Len(batches)
  BY DEF QueueTypes
<1>2. \A i \in Unfinished : i \in 1..Len(batches) /\ done < i /\ done \in done..(i - 1)
  BY <1>1 DEF Unfinished
<1>3. After(done) \in [Sems -> Nat]
  BY <1>1, AfterTypes
<1>4. \A i \in Unfinished : batches[i].fence # "context"
  <2>1. CASE fencePending
    <3>1. fence["context"] = "signalled"
      BY <2>1 DEF Settled, SettleOnTimelines
    <3> QED
      BY <3>1 DEF Fenced
  <2> QED
    BY <2>1 DEF Fenced
<1>5. ASSUME NEW i \in Unfinished, batches[i].op \in Passes PROVE FALSE
  <2>1. ~first
    BY <1>5 DEF Iteration
  <2>2. CASE fencePending
    <3>1. PICK k \in i..Len(batches) : batches[k].fence = "context"
      BY <1>5, <2>2 DEF Iteration
    <3>2. k \in Unfinished
      BY <1>1, <1>2, <3>1 DEF Unfinished
    <3> QED
      BY <1>4, <3>1, <3>2
  <2>3. CASE SettleOnTimelines /\ ~fencePending
    <3>1. \A s \in Sems : SettleValues[s] <= After(done)[s]
      BY <2>3 DEF Settled, Payload
    <3>2. SettleValues["internal"] = internalValue
      BY DEF SettleValues
    <3>3. batches[i].op = "main"
      <4>1. CASE batches[i].op = "prepass"
        <5>1. After(done)["internal"] < internalValue
          BY <1>2, <4>1 DEF Behind
        <5>2. internalValue <= After(done)["internal"]
          BY <3>1, <3>2
        <5> QED
          BY <1>3, <5>1, <5>2 DEF CallerTypes
      <4> QED
        BY <1>5, <4>1 DEF Passes
    <3>4. index > 0
      BY <3>3 DEF Iteration, CallerTypes
    <3>5. ~unsignaled /\ ~protocol
      BY <2>1, <2>3, <3>4 DEF SettleOnTimelines, Iteration
    <3>6. SettleValues["sync"] = syncValue
      BY <3>4, <3>5 DEF SettleValues
    <3>7. After(done)["sync"] < syncValue
      BY <1>2, <3>3, <3>5 DEF Behind
    <3>8. syncValue <= After(done)["sync"]
      BY <3>1, <3>6
    <3> QED
      BY <1>3, <3>7, <3>8 DEF CallerTypes
  <2>4. CASE ~SettleOnTimelines /\ ~fencePending
    <3>1. done = Len(batches)
      BY <2>1, <2>4 DEF Settled, Drained
    <3> QED
      BY <1>2, <3>1
  <2> QED
    BY <2>2, <2>3, <2>4
<1>6. /\ SettledFence \in [Fences -> {"idle", "pending", "signalled"}]
      /\ SettledFence["wrapper"] = fence["wrapper"]
  BY DEF SettledFence, QueueTypes
<1> QED
  BY <1>4, <1>5, <1>6

Dispatched ==
  \E b \in Commands :
    /\ Grows(b) /\ b.op = "prepass" /\ b.frame = frame
    /\ ~protocol => b.wait["sync"] = syncValue + Partial + 1
    /\ b.after["sync"] = After(Len(batches))["sync"] /\ b.after["internal"] = internalValue'

(* A dispatch of either caller: the new iteration begins with no pass of    *)
(* the one before.                                                          *)
LEMMA DispatchKeeps ==
  ASSUME QueueTypes, CallerTypes, Fenced, Iteration, Behind,
         NEW n \in Nat, Dispatch(frame, n, protocol, TRUE),
         frame = IF first THEN 1 ELSE iteration + 2,
         UNCHANGED <<protocol, framePending>>
  PROVE  /\ QueueTypes' /\ Fenced' /\ Iteration' /\ Behind'
         /\ Dispatched
         /\ first' = FALSE /\ total' = n /\ index' = 0 /\ unsignaled' = protocol /\ fencePending' = (n = 0)
         /\ iteration' \in Nat /\ syncValue' \in Nat /\ internalValue' \in Nat /\ iteration' + 1 = frame
         /\ syncValue' = syncValue + Partial + 1 /\ internalValue' = internalValue + 1
<1>1. Settled
  BY DEF Dispatch
<1>2. /\ \A i \in Unfinished : batches[i].op \notin Passes
      /\ \A i \in Unfinished : batches[i].fence # "context"
      /\ SettledFence \in [Fences -> {"idle", "pending", "signalled"}]
      /\ SettledFence["wrapper"] = fence["wrapper"]
  BY <1>1, SettledIdle
<1> DEFINE sv == syncValue + Partial + 1
           iv == internalValue + 1
           g == IF n = 0 THEN "context" ELSE "none"
           wait == IF protocol THEN Nothing ELSE Only("sync", sv)
           signal == Only("internal", iv)
           b == Batch("prepass", frame, 0, 0, wait, signal, g)
<1>3. /\ first' = FALSE /\ total' = n /\ index' = 0 /\ unsignaled' = protocol /\ fencePending' = (n = 0)
      /\ syncValue' = sv /\ internalValue' = iv
      /\ iteration' = (IF first THEN 0 ELSE iteration + 1) /\ blockIteration' = iteration'
      /\ batches' = Append(batches, b)
      /\ fence' = IF g = "none" THEN SettledFence ELSE [SettledFence EXCEPT ![g] = "pending"]
      /\ done' = done /\ running' = running
  BY DEF Dispatch, Submit, Batch, FreshIndex
<1>4. Partial \in Nat /\ sv \in Nat /\ iv \in Nat /\ iv > 0 /\ iteration' \in Nat /\ iteration' + 1 = frame
  BY <1>3 DEF Partial, CallerTypes
<1>5. /\ wait \in [Sems -> Nat] /\ signal \in [Sems -> Nat] /\ g \in Fences \cup {"none"}
      /\ ~protocol => wait["sync"] = sv
      /\ signal["sync"] = 0 /\ signal["internal"] = iv
  <2>1. {"sync", "internal"} = Sems
    BY Vectors
  <2>2. g \in Fences \cup {"none"}
    BY DEF Fences
  <2>3. Only("sync", sv) \in [Sems -> Nat] /\ Only("sync", sv)["sync"] = sv
    BY <1>4, <2>1, Vectors
  <2>4. signal \in [Sems -> Nat] /\ signal["sync"] = 0 /\ signal["internal"] = iv
    BY <1>4, <2>1, Vectors
  <2> QED
    BY <2>2, <2>3, <2>4, Vectors
<1>6. /\ b \in Commands /\ b.op = "prepass" /\ b.frame = frame /\ b.fence = g /\ b.wait = wait
      /\ b.after["sync"] = After(Len(batches))["sync"] /\ b.after["internal"] = iv
  <2> HIDE DEF wait, signal, g, b, iv, sv
  <2>1. b = Batch("prepass", frame, 0, 0, wait, signal, g)
    BY DEF b
  <2>2. /\ b \in Commands /\ b.op = "prepass" /\ b.frame = frame /\ b.fence = g /\ b.wait = wait
        /\ \A s \in Sems : b.after[s] = IF signal[s] > 0 THEN signal[s] ELSE After(Len(batches))[s]
    <3>1. frame \in Nat /\ 0 \in Nat /\ "prepass" \in {"copyin", "prepass", "main", "copyout", "original"}
      BY DEF CallerTypes
    <3>2. Made(b, "prepass", frame, 0, 0, wait, signal, g)
      BY <1>5, <2>1, <3>1, BatchIs
    <3> QED
      BY <3>2 DEF Made
  <2>3. {"sync", "internal"} = Sems
    BY Vectors
  <2>4. b.after["sync"] = After(Len(batches))["sync"]
    BY <1>5, <2>2, <2>3
  <2>5. b.after["internal"] = iv
    BY <1>4, <1>5, <2>2, <2>3
  <2> QED
    BY <2>2, <2>4, <2>5
<1> HIDE DEF b, wait, signal
<1>7. Grows(b)
  BY <1>3 DEF Grows
<1>8. /\ \A i \in 1..Len(batches) : batches'[i] = batches[i]
      /\ batches'[Len(batches) + 1] = b /\ Len(batches') = Len(batches) + 1
      /\ Unfinished' = Unfinished \cup {Len(batches) + 1}
      /\ \A j \in 0..Len(batches) : After(j)' = After(j)
      /\ \A k \in Nat : k = Len(batches) + 1 => After(k)' = b.after
      /\ Len(batches) + 1 \notin Unfinished
  BY <1>6, <1>7, Grown
<1>9. \A i \in Unfinished : i \in 1..Len(batches) /\ batches'[i] = batches[i]
  BY <1>8, CommandTypes
<1>10. Len(batches) \in Nat /\ done \in 0..Len(batches) /\ \A j \in 0..Len(batches) : After(j) \in [Sems -> Nat]
  BY AfterTypes DEF QueueTypes
<1>11. QueueTypes'
  <2>1. fence' \in [Fences -> {"idle", "pending", "signalled"}]
    BY <1>2, <1>3 DEF Fences
  <2> QED
    BY <1>6, <1>7, <2>1, Grown DEF QueueTypes
<1>12. Fenced'
  <2>1. ASSUME NEW i \in Unfinished
        PROVE  /\ batches[i].fence = "context" => b.fence # "context" /\ fencePending' /\ fence'["context"] # "signalled"
               /\ batches[i].fence = "wrapper" => b.fence # "wrapper" /\ framePending' /\ fence'["wrapper"] # "signalled"
    <3>1. batches[i].fence # "context"
      BY <1>2
    <3>2. fence'["wrapper"] = fence["wrapper"]
      BY <1>2, <1>3 DEF Fences
    <3> QED
      BY <1>6, <3>1, <3>2 DEF Fenced
  <2>2. b.fence = "context" => fencePending' /\ fence'["context"] # "signalled"
    BY <1>2, <1>3, <1>6 DEF Fences
  <2>3. b.fence # "wrapper"
    BY <1>6
  <2> QED
    BY <1>6, <1>7, <2>1, <2>2, <2>3, FencedGrow
<1>13. Iteration'
  <2>1. ASSUME NEW i \in Unfinished', batches'[i].op \in Passes
        PROVE  i = Len(batches) + 1
    BY <1>2, <1>8, <1>9, <2>1
  <2>2. ASSUME NEW i \in Unfinished', batches'[i].op \in Passes, fencePending'
        PROVE  \E k \in i..Len(batches') : batches'[k].fence = "context"
    <3>1. i = Len(batches) + 1 /\ batches'[i].fence = "context"
      BY <1>3, <1>6, <1>8, <2>1, <2>2
    <3>2. i \in i..Len(batches')
      BY <1>8, <1>10, <3>1
    <3> QED
      BY <3>1, <3>2
  <2>3. ASSUME NEW i \in Unfinished', batches'[i].op = "main" PROVE FALSE
    BY <1>6, <1>8, <2>1, <2>3 DEF Passes
  <2>4. ASSUME NEW i \in Unfinished', batches'[i].op \in Passes PROVE ~first' /\ batches'[i].frame = iteration' + 1
    BY <1>3, <1>4, <1>6, <1>8, <2>1, <2>4
  <2>5. index' <= total' /\ (fencePending' => index' = total')
    <3>1. index' = 0 /\ total' = n
      BY <1>3
    <3>2. fencePending' => n = 0
      BY <1>3
    <3> QED
      BY <3>1, <3>2
  <2>6. ~first' /\ unsignaled' = protocol' /\ blockIteration' = iteration'
    <3>1. ~first' /\ blockIteration' = iteration'
      BY <1>3
    <3> QED
      BY <1>3, <3>1
  <2> QED
    BY <2>2, <2>3, <2>4, <2>5, <2>6 DEF Iteration
<1>14. Behind'
  <2>1. \A j \in 0..Len(batches') : After(j)'["internal"] <= internalValue'
    <3> SUFFICES ASSUME NEW j \in 0..Len(batches') PROVE After(j)'["internal"] <= internalValue'
      OBVIOUS
    <3>1. CASE j \in 0..Len(batches)
      <4>1. After(j)["internal"] <= internalValue /\ After(j)["internal"] \in Nat /\ After(j)' = After(j)
        BY <1>8, <1>10, <3>1, Vectors DEF Behind
      <4> QED
        BY <1>3, <4>1 DEF CallerTypes
    <3>2. CASE j = Len(batches) + 1
      BY <1>3, <1>4, <1>6, <1>8, <1>10, <3>2
    <3> QED
      BY <1>8, <1>10, <3>1, <3>2
  <2>2. ASSUME NEW i \in Unfinished', batches'[i].op \in Passes PROVE i = Len(batches) + 1 /\ batches'[i] = b
    BY <1>2, <1>8, <1>9, <2>2
  <2>3. ASSUME NEW i \in Unfinished', batches'[i].op = "prepass", NEW j \in done'..(i - 1)
        PROVE  After(j)'["internal"] < internalValue'
    <3>1. j \in 0..Len(batches)
      <4>1. i = Len(batches) + 1
        BY <2>2, <2>3 DEF Passes
      <4>2. done' = done
        BY <1>3
      <4> QED
        BY <1>10, <2>3, <4>1, <4>2
    <3>2. After(j)["internal"] <= internalValue /\ After(j)["internal"] \in Nat /\ After(j)' = After(j)
      BY <1>8, <1>10, <3>1, Vectors DEF Behind
    <3> QED
      BY <1>3, <3>2 DEF CallerTypes
  <2>4. ASSUME NEW i \in Unfinished', batches'[i].op = "main" PROVE FALSE
    BY <1>6, <2>2, <2>4 DEF Passes
  <2> QED
    BY <2>1, <2>3, <2>4 DEF Behind
<1>15. Dispatched
  BY <1>3, <1>5, <1>6, <1>7 DEF Dispatched
<1> QED
  BY <1>3, <1>4, <1>11, <1>12, <1>13, <1>14, <1>15

Acquired ==
  \E b \in Commands :
    /\ Grows(b) /\ b.op = "main" /\ b.frame = frame /\ b.slot = index + 1
    /\ ~protocol => IF index = 0 THEN b.wait["internal"] = internalValue ELSE b.wait["sync"] = syncValue + 1
    /\ ~protocol => b.after["sync"] = syncValue'
    /\ b.after["internal"] = After(Len(batches))["internal"]

(* A main pass of either caller: one more slot of the iteration is in use.  *)
LEMMA AcquireKeeps ==
  ASSUME QueueTypes, CallerTypes, Fenced, Iteration, Behind,
         Acquire(frame, protocol, TRUE),
         frame = iteration + 1,
         ~protocol => \A j \in 0..Len(batches) : After(j)["sync"] <= IF index = 0 THEN syncValue ELSE syncValue + 1,
         UNCHANGED <<protocol, framePending>>
  PROVE  /\ QueueTypes' /\ Fenced' /\ Iteration' /\ Behind'
         /\ Acquired
         /\ index' = index + 1 /\ index < total /\ total' = total /\ first' = FALSE /\ first = FALSE
         /\ iteration' = iteration /\ unsignaled' = unsignaled /\ internalValue' = internalValue
         /\ fencePending' \in BOOLEAN /\ syncValue' \in Nat
         /\ ~protocol => syncValue' = (IF index = 0 THEN syncValue ELSE syncValue + 1) + 1
<1> DEFINE before == IF index > 0 /\ ~protocol THEN syncValue + 1 ELSE syncValue
           last == index = total - 1
           g == IF last THEN "context" ELSE "none"
           wait == IF index = 0 THEN Only("internal", internalValue) ELSE IF protocol THEN Nothing ELSE Only("sync", before)
           signal == IF protocol THEN Nothing ELSE Only("sync", before + 1)
           b == Batch("main", frame, index + 1, 0, wait, signal, g)
<1>1. /\ 0 < total /\ index < total /\ syncValue' = before + 1
      /\ batches' = Append(batches, b)
      /\ fence' = IF g = "none" THEN fence ELSE [fence EXCEPT ![g] = "pending"]
      /\ fencePending' = (fencePending \/ last) /\ index' = index + 1
      /\ done' = done /\ running' = running /\ blockIteration' = blockIteration /\ first' = first
      /\ iteration' = iteration /\ total' = total /\ internalValue' = internalValue /\ unsignaled' = unsignaled
  BY DEF Acquire, Submit, Batch
<1>2. before \in Nat /\ index + 1 \in Nat /\ index \in Nat /\ total \in Nat /\ internalValue \in Nat /\ frame \in Nat
  BY DEF CallerTypes
<1>3. first = FALSE /\ unsignaled = protocol /\ fencePending = FALSE
  <2>1. first = FALSE
    BY <1>1, <1>2 DEF Iteration, CallerTypes
  <2>2. fencePending = FALSE
    BY <1>1, <1>2 DEF Iteration, CallerTypes
  <2> QED
    BY <2>1, <2>2 DEF Iteration
<1>4. /\ wait \in [Sems -> Nat] /\ signal \in [Sems -> Nat] /\ g \in Fences \cup {"none"}
      /\ index = 0 => wait["internal"] = internalValue
      /\ ~protocol /\ index # 0 => wait["sync"] = syncValue + 1
      /\ ~protocol => signal["sync"] = before + 1
      /\ signal["internal"] = 0
  <2> HIDE DEF before
  <2>1. {"sync", "internal"} = Sems /\ before + 1 \in Nat
    BY <1>2, Vectors
  <2>2. g \in Fences \cup {"none"}
    BY DEF Fences
  <2>3. Only("internal", internalValue) \in [Sems -> Nat] /\ Only("internal", internalValue)["internal"] = internalValue
    BY <1>2, <2>1, Vectors
  <2>4. Only("sync", before) \in [Sems -> Nat] /\ Only("sync", before)["sync"] = before
    BY <1>2, <2>1, Vectors
  <2>5. /\ Only("sync", before + 1) \in [Sems -> Nat] /\ Only("sync", before + 1)["sync"] = before + 1
        /\ Only("sync", before + 1)["internal"] = 0
    BY <1>2, <2>1, Vectors
  <2>6. Nothing \in [Sems -> Nat] /\ Nothing["internal"] = 0
    BY <2>1, Vectors
  <2>7. ~protocol /\ index # 0 => before = syncValue + 1
    BY <1>2 DEF before
  <2> QED
    BY <2>2, <2>3, <2>4, <2>5, <2>6, <2>7
<1>5. /\ b \in Commands /\ b.op = "main" /\ b.frame = frame /\ b.slot = index + 1 /\ b.fence = g /\ b.wait = wait
      /\ ~protocol => b.after["sync"] = before + 1
      /\ b.after["internal"] = After(Len(batches))["internal"]
  <2> HIDE DEF wait, signal, g, b, before
  <2>1. "main" \in {"copyin", "prepass", "main", "copyout", "original"} /\ 0 \in Nat
    OBVIOUS
  <2>2. Made(b, "main", frame, index + 1, 0, wait, signal, g)
    BY <1>2, <1>4, <2>1, BatchIs DEF b
  <2>3. {"sync", "internal"} = Sems
    BY Vectors
  <2>4. ~protocol => b.after["sync"] = before + 1
    BY <1>2, <1>4, <2>2, <2>3 DEF Made
  <2>5. b.after["internal"] = After(Len(batches))["internal"]
    BY <1>4, <2>2, <2>3 DEF Made
  <2> QED
    BY <2>2, <2>4, <2>5 DEF Made
<1>6. b.fence = g /\ (g = "context" <=> last) /\ g # "wrapper"
  BY <1>5
<1>7. fencePending' = last
  BY <1>1, <1>3
<1> HIDE DEF b, wait, signal, g
<1>8. Grows(b)
  BY <1>1 DEF Grows
<1>9. /\ \A i \in 1..Len(batches) : batches'[i] = batches[i]
      /\ batches'[Len(batches) + 1] = b /\ Len(batches') = Len(batches) + 1
      /\ Unfinished' = Unfinished \cup {Len(batches) + 1}
      /\ \A j \in 0..Len(batches) : After(j)' = After(j)
      /\ \A k \in Nat : k = Len(batches) + 1 => After(k)' = b.after
      /\ Len(batches) + 1 \notin Unfinished
  BY <1>5, <1>8, Grown
<1>10. \A i \in Unfinished : i \in 1..Len(batches) /\ batches'[i] = batches[i]
  BY <1>9, CommandTypes
<1>11. Len(batches) \in Nat /\ done \in 0..Len(batches) /\ done' = done /\ \A j \in 0..Len(batches) : After(j) \in [Sems -> Nat]
  BY <1>1, AfterTypes DEF QueueTypes
<1>12. fence' \in [Fences -> {"idle", "pending", "signalled"}] /\ fence'["wrapper"] = fence["wrapper"]
       /\ (last => fence'["context"] = "pending")
  BY <1>1, <1>6 DEF QueueTypes, Fences
<1>13. QueueTypes'
  BY <1>5, <1>8, <1>12, Grown DEF QueueTypes
<1>14. Fenced'
  <2>1. ASSUME NEW i \in Unfinished
        PROVE  /\ batches[i].fence = "context" => b.fence # "context" /\ fencePending' /\ fence'["context"] # "signalled"
               /\ batches[i].fence = "wrapper" => b.fence # "wrapper" /\ framePending' /\ fence'["wrapper"] # "signalled"
    <3>1. batches[i].fence # "context"
      BY <1>3 DEF Fenced
    <3> QED
      BY <1>6, <1>12, <3>1 DEF Fenced
  <2>2. b.fence = "context" => fencePending' /\ fence'["context"] # "signalled"
    BY <1>6, <1>7, <1>12
  <2> HIDE DEF last
  <2> QED
    BY <1>5, <1>6, <1>8, <2>1, <2>2, FencedGrow
<1>15. Iteration'
  <2>1. ASSUME NEW i \in Unfinished', batches'[i].op \in Passes
        PROVE  /\ ~first' /\ batches'[i].frame = iteration' + 1
               /\ fencePending' => \E k \in i..Len(batches') : batches'[k].fence = "context"
    <3>1. ~first' /\ batches'[i].frame = iteration' + 1
      <4>1. CASE i \in Unfinished
        BY <1>1, <1>3, <1>10, <2>1, <4>1 DEF Iteration
      <4>2. CASE i = Len(batches) + 1
        BY <1>1, <1>3, <1>5, <1>9, <4>2
      <4> QED
        BY <1>9, <4>1, <4>2
    <3>2. Len(batches) + 1 \in i..Len(batches')
      BY <1>9, <1>10, <1>11
    <3>3. fencePending' => batches'[Len(batches) + 1].fence = "context"
      BY <1>6, <1>7, <1>9
    <3> QED
      BY <3>1, <3>2, <3>3
  <2>2. ASSUME NEW i \in Unfinished, batches[i].op = "main" PROVE batches[i].slot \in 1..index
    BY <2>2 DEF Iteration
  <2>3. ASSUME NEW i \in Unfinished', batches'[i].op = "main" PROVE batches'[i].slot \in 1..index'
    BY <1>1, <1>2, <1>5, <1>9, <1>10, <2>2, <2>3
  <2>4. ASSUME NEW i \in Unfinished', NEW j \in Unfinished', batches'[i].op = "main", batches'[j].op = "main",
               batches'[i].slot = batches'[j].slot
        PROVE  i = j
    <3>1. CASE i \in Unfinished /\ j \in Unfinished
      BY <1>10, <2>4, <3>1 DEF Iteration
    <3>2. CASE i \in Unfinished /\ j = Len(batches) + 1
      BY <1>2, <1>5, <1>9, <1>10, <2>2, <2>4, <3>2
    <3>3. CASE j \in Unfinished /\ i = Len(batches) + 1
      BY <1>2, <1>5, <1>9, <1>10, <2>2, <2>4, <3>3
    <3> QED
      BY <1>9, <3>1, <3>2, <3>3
  <2>5. index' <= total' /\ (fencePending' => index' = total')
    <3>1. index' = index + 1 /\ total' = total /\ index < total
      BY <1>1
    <3>2. fencePending' => index = total - 1
      BY <1>7
    <3> QED
      BY <1>2, <3>1, <3>2
  <2>6. ~first' /\ unsignaled' = protocol' /\ blockIteration' = iteration'
    BY <1>1, <1>3 DEF Iteration
  <2> QED
    BY <2>1, <2>3, <2>4, <2>5, <2>6 DEF Iteration
<1>16. Behind'
  <2>1. \A j \in 0..Len(batches') : After(j)'["internal"] <= internalValue'
    <3> SUFFICES ASSUME NEW j \in 0..Len(batches') PROVE After(j)'["internal"] <= internalValue'
      OBVIOUS
    <3>1. CASE j \in 0..Len(batches)
      BY <1>1, <1>9, <3>1 DEF Behind
    <3>2. CASE j = Len(batches) + 1
      <4>1. After(Len(batches))["internal"] <= internalValue
        BY <1>11 DEF Behind
      <4>2. After(j)' = b.after
        BY <1>9, <1>11, <3>2
      <4> QED
        BY <1>1, <1>5, <4>1, <4>2
    <3> QED
      BY <1>9, <1>11, <3>1, <3>2
  <2>2. ASSUME NEW i \in Unfinished', batches'[i].op = "prepass", NEW j \in done'..(i - 1)
        PROVE  After(j)'["internal"] < internalValue'
    <3>1. i \in Unfinished /\ batches'[i] = batches[i] /\ i \in 1..Len(batches)
      BY <1>5, <1>9, <1>10, <2>2
    <3>2. j \in 0..Len(batches) /\ j \in done..(i - 1)
      BY <1>11, <2>2, <3>1
    <3> QED
      BY <1>1, <1>9, <2>2, <3>1, <3>2 DEF Behind
  <2>3. ASSUME ~protocol, NEW i \in Unfinished', batches'[i].op = "main", NEW j \in done'..(i - 1)
        PROVE  After(j)'["sync"] < syncValue'
    <3>1. i \in 1..(Len(batches) + 1)
      BY <1>9, <1>10, <1>11
    <3>2. j \in 0..Len(batches) /\ After(j)' = After(j) /\ After(j) \in [Sems -> Nat]
      BY <1>9, <1>11, <2>3, <3>1
    <3>3. After(j)["sync"] <= before
      BY <1>2, <2>3, <3>2
    <3>4. After(j)["sync"] \in Nat
      BY <3>2, Vectors
    <3> HIDE DEF before
    <3> QED
      BY <1>1, <1>2, <3>2, <3>3, <3>4
  <2> QED
    BY <2>1, <2>2, <2>3 DEF Behind
<1>17. Acquired
  BY <1>1, <1>4, <1>5, <1>8 DEF Acquired
<1>18. ~protocol => syncValue' = (IF index = 0 THEN syncValue ELSE syncValue + 1) + 1
  BY <1>1, <1>2
<1>19. fencePending' \in BOOLEAN /\ syncValue' \in Nat
  BY <1>1, <1>2, <1>7
<1> QED
  BY <1>1, <1>3, <1>13, <1>14, <1>15, <1>16, <1>17, <1>18, <1>19

(* A step of the caller that submits nothing.                               *)
LEMMA QuietKeeps ==
  ASSUME QueueTypes, CallerTypes, Fenced, Iteration, Behind,
         UNCHANGED <<batches, done, running, blockIteration, first, iteration, total, index,
                     syncValue, internalValue, unsignaled, protocol>>,
         fence' \in [Fences -> {"idle", "pending", "signalled"}],
         fencePending' \in BOOLEAN, fencePending' => fencePending,
         \A i \in Unfinished :
           /\ batches[i].fence = "context" => fencePending' /\ fence'["context"] # "signalled"
           /\ batches[i].fence = "wrapper" => framePending' /\ fence'["wrapper"] # "signalled"
  PROVE  QueueTypes' /\ Fenced' /\ Iteration' /\ Behind'
<1>1. Unfinished' = Unfinished /\ batches' = batches /\ done' = done /\ running' = running
  BY DEF Unfinished
<1>2. \A j \in 0..Len(batches) : After(j)' = After(j)
  BY <1>1 DEF After
<1>3. QueueTypes'
  BY <1>1 DEF QueueTypes
<1>4. Fenced'
  BY <1>1 DEF Fenced
<1>5. Iteration'
  <2>1. ASSUME NEW i \in Unfinished', batches'[i].op \in Passes, fencePending'
        PROVE  \E k \in i..Len(batches') : batches'[k].fence = "context"
    BY <1>1, <2>1 DEF Iteration
  <2>2. ASSUME NEW i \in Unfinished', batches'[i].op \in Passes
        PROVE  ~first' /\ batches'[i].frame = iteration' + 1
    BY <1>1, <2>2 DEF Iteration
  <2>3. ASSUME NEW i \in Unfinished', batches'[i].op = "main"
        PROVE  /\ batches'[i].slot \in 1..index'
               /\ \A j \in Unfinished' : batches'[j].op = "main" /\ batches'[i].slot = batches'[j].slot => i = j
    BY <1>1, <2>3 DEF Iteration
  <2>4. /\ first' => total' = 0 /\ index' = 0
        /\ ~first' => unsignaled' = protocol' /\ blockIteration' = iteration'
        /\ index' <= total'
        /\ fencePending' => index' = total'
    BY DEF Iteration
  <2> QED
    BY <2>1, <2>2, <2>3, <2>4 DEF Iteration
<1>6. Behind'
  <2>1. \A i \in Unfinished : i \in 1..Len(batches)
    BY CommandTypes
  <2>2. \A i \in Unfinished : \A j \in done..(i - 1) : After(j)' = After(j)
    BY <1>2, <2>1 DEF QueueTypes
  <2>3. \A j \in 0..Len(batches') : After(j)'["internal"] <= internalValue'
    BY <1>1, <1>2 DEF Behind
  <2>4. ASSUME NEW i \in Unfinished', batches'[i].op = "prepass", NEW j \in done'..(i - 1)
        PROVE  After(j)'["internal"] < internalValue'
    BY <1>1, <2>2, <2>4 DEF Behind
  <2>5. ASSUME ~protocol', NEW i \in Unfinished', batches'[i].op = "main", NEW j \in done'..(i - 1)
        PROVE  After(j)'["sync"] < syncValue'
    BY <1>1, <2>2, <2>5 DEF Behind
  <2> QED
    BY <2>3, <2>4, <2>5 DEF Behind
<1> QED
  BY <1>3, <1>4, <1>5, <1>6

(* Nor does it move the values of the semaphores.                           *)
LEMMA QuietLog ==
  ASSUME QueueTypes, UNCHANGED <<batches, done, running>>
  PROVE  /\ Unfinished' = Unfinished
         /\ \A j \in 0..Len(batches) : After(j)' = After(j)
BY DEF Unfinished, After

(* The validator goes on without a command: it abandons its iteration or    *)
(* closes the context, and the drop returns.                                *)
LEMMA ValidateQuiet ==
  ASSUME IdleInv, caller = "validate", caller' = caller, UNCHANGED wrapperVars,
         Abandon \/ Close \/ Drop \/ Dropped
  PROVE  IdleInv'
<1> USE DEF IdleInv
<1>1. UNCHANGED <<batches, done, running, blockIteration, first, iteration, total, index,
                  syncValue, internalValue, unsignaled, protocol, value, frame, want, framePending, showOriginal, remaining>>
  <2>1. CASE Abandon \/ Close \/ Dropped
    BY <2>1 DEF Abandon, Close, Dropped, vars, contextVars, queueVars, countVars, callerVars, wrapperVars
  <2>2. CASE Drop
    BY <2>2 DEF Drop, wrapperVars
  <2> QED
    BY <2>1, <2>2
<1>2. /\ fence' \in [Fences -> {"idle", "pending", "signalled"}]
      /\ fencePending' \in BOOLEAN /\ (fencePending' => fencePending)
      /\ \A i \in Unfinished :
           /\ batches[i].fence = "context" => fencePending' /\ fence'["context"] # "signalled"
           /\ batches[i].fence = "wrapper" => framePending' /\ fence'["wrapper"] # "signalled"
  <2>1. CASE Abandon \/ Close \/ Dropped
    <3>1. fence' = fence /\ fencePending' = fencePending /\ framePending' = framePending
      BY <1>1, <2>1 DEF Abandon, Close, Dropped, vars, contextVars, queueVars, countVars
    <3> QED
      BY <3>1 DEF QueueTypes, CallerTypes, Fenced
  <2>2. CASE Drop
    <3>1. fence' = SettledFence /\ fencePending' = FALSE /\ Settled /\ framePending' = framePending
      BY <1>1, <2>2 DEF Drop
    <3>2. /\ \A i \in Unfinished : batches[i].fence # "context"
          /\ SettledFence \in [Fences -> {"idle", "pending", "signalled"}]
          /\ SettledFence["wrapper"] = fence["wrapper"]
      BY <3>1, SettledIdle
    <3> QED
      BY <3>1, <3>2 DEF Fenced
  <2> QED
    BY <2>1, <2>2
<1>3. QueueTypes' /\ Fenced' /\ Iteration' /\ Behind'
  BY <1>1, <1>2, QuietKeeps
<1>4. CallerTypes'
  BY <1>1, <1>2 DEF CallerTypes
<1>5. Recorders'
  BY DEF Recorders
<1>6. Unfinished' = Unfinished /\ \A j \in 0..Len(batches) : After(j)' = After(j)
  BY <1>1, QuietLog
<1>7. CASE Abandon
  <2>1. pc = "acquire" /\ pc' = "idle"
    BY <1>7 DEF Abandon
  <2>2. Place'
    BY <1>1, <2>1 DEF Place, Counting
  <2>3. index < total /\ ~first /\ index \in Nat
    BY <2>1 DEF Place, Iteration, CallerTypes
  <2>4. Partial' = IF 0 < index THEN 1 ELSE 0
    BY <1>1, <2>3 DEF Partial
  <2>5. ~protocol => value' = syncValue' + Partial'
    BY <1>1, <2>1, <2>3, <2>4 DEF Counted, CallerTypes
  <2>6. ~protocol => \A j \in 0..Len(batches') : After(j)'["sync"] <= Ahead'
    <3>1. Ahead' = value /\ Ahead = value
      BY <1>1, <2>1 DEF Ahead
    <3> QED
      BY <1>1, <1>6, <2>1, <3>1 DEF Counted, Counting
  <2>7. Counted'
    BY <1>1, <2>1, <2>5, <2>6 DEF Counted
  <2> QED
    BY <1>3, <1>4, <1>5, <2>2, <2>7
<1>8. CASE Close \/ Drop \/ Dropped
  <2>1. pc' \in {"dropping", "dropped"}
    BY <1>8 DEF Close, Drop, Dropped, vars, callerVars
  <2>2. Place' /\ Counted'
    BY <2>1 DEF Place, Counted, Counting
  <2> QED
    BY <1>3, <1>4, <1>5, <2>2
<1> QED
  BY <1>7, <1>8

(* The worker goes on without a command.                                    *)
LEMMA MetalQuiet ==
  ASSUME IdleInv, caller = "metal", caller' = caller,
         (\E p \in Plans : Take(p)) \/ FrameSettled \/ GiveUp \/ Drain \/ (Drop /\ UNCHANGED wrapperVars) \/ Done
  PROVE  IdleInv'
<1> USE DEF IdleInv
<1> DEFINE Kept == UNCHANGED <<batches, done, running, blockIteration, first, iteration, total, index,
                               syncValue, internalValue, unsignaled, protocol, value, frame, remaining>>
<1>1. Kept /\ CallerTypes'
  <2>1. ASSUME NEW p \in Plans, Take(p) PROVE Kept /\ CallerTypes'
    <3>1. p[1] \in Nat /\ p[2] \in BOOLEAN
      BY MetalAssumption
    <3> QED
      BY <2>1, <3>1 DEF Take, contextVars, queueVars, countVars, CallerTypes
  <2>2. CASE FrameSettled
    BY <2>2 DEF FrameSettled, countVars, CallerTypes
  <2>3. CASE GiveUp \/ Drain
    BY <2>3 DEF GiveUp, Drain, contextVars, queueVars, countVars, wrapperVars, CallerTypes
  <2>4. CASE Drop /\ UNCHANGED wrapperVars
    BY <2>4 DEF Drop, wrapperVars, CallerTypes
  <2>5. CASE Done
    BY <2>5 DEF Done, vars, contextVars, queueVars, countVars, callerVars, wrapperVars, CallerTypes
  <2> QED
    BY <2>1, <2>2, <2>3, <2>4, <2>5
<1>2. Unfinished' = Unfinished /\ \A j \in 0..Len(batches) : After(j)' = After(j)
  BY <1>1, QuietLog
<1>3. ASSUME fence' = fence, fencePending' = fencePending, framePending' = framePending
      PROVE  QueueTypes' /\ Fenced' /\ Iteration' /\ Behind'
  BY <1>1, <1>3, QuietKeeps DEF QueueTypes, CallerTypes, Fenced
<1>4. ASSUME NEW p \in Plans, Take(p) PROVE IdleInv'
  <2>1. p[1] \in Nat /\ p[2] \in BOOLEAN /\ (p[1] > 0 \/ p[2])
    BY MetalAssumption
  <2>2. /\ fence' = fence /\ fencePending' = fencePending /\ framePending' = framePending
        /\ pc = "idle" /\ pc' = "settle" /\ want' = p[1] /\ showOriginal' = p[2]
    BY <1>4 DEF Take, contextVars, queueVars, countVars
  <2>3. Place'
    BY <1>1, <2>1, <2>2 DEF Place, Counting
  <2>4. Counted'
    <3>1. Partial' = Partial /\ Ahead' = Ahead
      BY <1>1, <2>2 DEF Partial, Ahead
    <3> QED
      BY <1>1, <1>2, <2>2, <3>1 DEF Counted, Counting
  <2>5. Recorders'
    BY <1>1, <1>2, <2>2 DEF Recorders
  <2> QED
    BY <1>1, <1>3, <2>2, <2>3, <2>4, <2>5
<1>5. CASE FrameSettled
  <2>1. /\ pc = "settle" /\ pc' = "copyin" /\ framePending' = FALSE /\ want' = want /\ showOriginal' = showOriginal
        /\ fence' = IF framePending THEN [fence EXCEPT !["wrapper"] = "idle"] ELSE fence
        /\ fencePending' = fencePending /\ (framePending => fence["wrapper"] = "signalled")
    BY <1>5 DEF FrameSettled, FrameWaited, countVars
  <2>2. /\ fence' \in [Fences -> {"idle", "pending", "signalled"}]
        /\ fence'["context"] = fence["context"]
    BY <2>1 DEF QueueTypes, Fences
  <2>3. \A i \in Unfinished : batches[i].fence # "wrapper"
    BY <2>1 DEF Fenced
  <2>4. QueueTypes' /\ Fenced' /\ Iteration' /\ Behind'
    BY <1>1, <2>1, <2>2, <2>3, QuietKeeps DEF CallerTypes, Fenced
  <2>5. done = Len(batches) /\ index = total
    <3>1. index = total /\ (batches = <<>> \/ batches[Len(batches)].fence = "wrapper")
      BY <2>1 DEF Place
    <3>2. Len(batches) \notin Unfinished \/ Len(batches) = 0
      BY <2>3, <3>1
    <3> QED
      BY <3>1, <3>2 DEF Unfinished, QueueTypes
  <2>6. Place'
    BY <1>1, <2>1, <2>5 DEF Place, Counting
  <2>7. Counted'
    <3>1. Partial' = Partial /\ Ahead' = Ahead
      BY <1>1, <2>1 DEF Partial, Ahead
    <3> QED
      BY <1>1, <1>2, <2>1, <3>1 DEF Counted, Counting
  <2>8. Recorders'
    BY <1>1, <1>2, <2>1 DEF Recorders
  <2> QED
    BY <1>1, <2>4, <2>6, <2>7, <2>8
<1>6. CASE GiveUp \/ Drain
  <2>1. fence' = fence /\ fencePending' = fencePending /\ framePending' = framePending /\ pc' \in {"drain", "dropping"}
    BY <1>6 DEF GiveUp, Drain, contextVars, queueVars, countVars, wrapperVars
  <2>2. Place' /\ Counted'
    BY <2>1 DEF Place, Counted, Counting
  <2>3. Recorders'
    BY <1>1, <1>2, <2>1 DEF Recorders
  <2> QED
    BY <1>1, <1>3, <2>1, <2>2, <2>3
<1>7. CASE Drop /\ UNCHANGED wrapperVars
  <2>1. fence' = SettledFence /\ fencePending' = FALSE /\ Settled /\ framePending' = framePending /\ pc' = "dropped"
    BY <1>7 DEF Drop, wrapperVars
  <2>2. /\ \A i \in Unfinished : batches[i].fence # "context"
        /\ SettledFence \in [Fences -> {"idle", "pending", "signalled"}]
        /\ SettledFence["wrapper"] = fence["wrapper"]
    BY <2>1, SettledIdle
  <2>3. QueueTypes' /\ Fenced' /\ Iteration' /\ Behind'
    BY <1>1, <2>1, <2>2, QuietKeeps DEF Fenced
  <2>4. Place' /\ Counted'
    BY <2>1 DEF Place, Counted, Counting
  <2>5. Recorders'
    BY <1>1, <1>2, <2>1 DEF Recorders
  <2> QED
    BY <1>1, <2>3, <2>4, <2>5
<1>8. CASE Done
  <2>1. /\ fence' = fence /\ fencePending' = fencePending /\ framePending' = framePending /\ pc' = pc
        /\ want' = want /\ showOriginal' = showOriginal
    BY <1>8 DEF Done, vars, contextVars, queueVars, countVars, callerVars, wrapperVars
  <2>2. Place'
    BY <1>1, <2>1 DEF Place
  <2>3. Counted'
    <3>1. Partial' = Partial /\ Ahead' = Ahead
      BY <1>1, <2>1 DEF Partial, Ahead
    <3> QED
      BY <1>1, <1>2, <2>1, <3>1 DEF Counted
  <2>4. Recorders'
    BY <1>1, <1>2, <2>1 DEF Recorders, Recorded
  <2> QED
    BY <1>1, <1>3, <2>1, <2>2, <2>3, <2>4
<1> QED
  BY <1>4, <1>5, <1>6, <1>7, <1>8

(* What a grown log says of the sync timeline, and of the worker's copies.  *)
LEMMA BoundGrow ==
  ASSUME QueueTypes, NEW b \in Commands, Grows(b), NEW low \in Nat, NEW high \in Nat, low <= high,
         \A j \in 0..Len(batches) : After(j)["sync"] <= low,
         b.after["sync"] <= high
  PROVE  \A j \in 0..Len(batches') : After(j)'["sync"] <= high
<1> SUFFICES ASSUME NEW j \in 0..Len(batches') PROVE After(j)'["sync"] <= high
  OBVIOUS
<1>1. /\ \A k \in 0..Len(batches) : After(k)' = After(k)
      /\ \A k \in Nat : k = Len(batches) + 1 => After(k)' = b.after
      /\ Len(batches') = Len(batches) + 1 /\ Len(batches) \in Nat
      /\ \A k \in 0..Len(batches) : After(k) \in [Sems -> Nat]
  BY Grown, AfterTypes DEF QueueTypes
<1>2. CASE j \in 0..Len(batches)
  <2>1. After(j)["sync"] \in Nat /\ After(j)["sync"] <= low /\ After(j)' = After(j)
    BY <1>1, <1>2, Vectors
  <2> QED
    BY <2>1
<1>3. CASE j = Len(batches) + 1
  BY <1>1, <1>3
<1> QED
  BY <1>1, <1>2, <1>3

(* A copy with a higher slot than any in use has a command buffer to itself. *)
LEMMA RecordersGrow ==
  ASSUME QueueTypes, NEW b \in Commands, Grows(b),
         \A i, j \in Unfinished :
           batches[i].op \in Copies /\ batches[j].op \in Copies /\ batches[i].slot = batches[j].slot => i = j,
         b.op \in Copies => \A i \in Unfinished : batches[i].op \in Copies => batches[i].slot < b.slot
  PROVE  /\ \A i, j \in Unfinished' :
              batches'[i].op \in Copies /\ batches'[j].op \in Copies /\ batches'[i].slot = batches'[j].slot => i = j
         /\ \A i \in Unfinished' : batches'[i].op \in Copies =>
              IF b.op \in Copies THEN batches'[i].slot <= b.slot
              ELSE i \in Unfinished /\ batches[i].op \in Copies /\ batches'[i].slot = batches[i].slot
<1>1. /\ \A i \in 1..Len(batches) : batches'[i] = batches[i]
      /\ batches'[Len(batches) + 1] = b
      /\ Unfinished' = Unfinished \cup {Len(batches) + 1}
  BY Grown
<1>2. \A i \in Unfinished : batches'[i] = batches[i] /\ batches[i].slot \in Nat
  BY <1>1, CommandTypes DEF Commands
<1>3. b.slot \in Nat
  BY DEF Commands
<1>4. ASSUME NEW i \in Unfinished', NEW j \in Unfinished',
             batches'[i].op \in Copies, batches'[j].op \in Copies, batches'[i].slot = batches'[j].slot
      PROVE  i = j
  <2>1. CASE i \in Unfinished /\ j \in Unfinished
    BY <1>2, <1>4, <2>1
  <2>2. CASE i \in Unfinished /\ j = Len(batches) + 1
    BY <1>1, <1>2, <1>3, <1>4, <2>2
  <2>3. CASE j \in Unfinished /\ i = Len(batches) + 1
    BY <1>1, <1>2, <1>3, <1>4, <2>3
  <2> QED
    BY <1>1, <2>1, <2>2, <2>3
<1>5. ASSUME NEW i \in Unfinished', batches'[i].op \in Copies
      PROVE  IF b.op \in Copies THEN batches'[i].slot <= b.slot
             ELSE i \in Unfinished /\ batches[i].op \in Copies /\ batches'[i].slot = batches[i].slot
  BY <1>1, <1>2, <1>3, <1>5
<1> QED
  BY <1>4, <1>5

WaitsOn(wait, w) == wait = Nothing \/ wait = Only("sync", w)
Announces(signal, v) == (signal = Nothing /\ v = 0) \/ signal = Only("sync", v)
FenceTaken(g) ==
  /\ g = "wrapper" => framePending = FALSE /\ framePending' = TRUE
  /\ g = "none" => framePending' = framePending
Copied(op, f, k, l, wait, w, v, g) ==
  \E b \in Commands :
    /\ Grows(b) /\ b.op = op /\ b.frame = f /\ b.slot = k /\ b.layer = l /\ b.fence = g
    /\ wait = Only("sync", w) => b.wait["sync"] = w
    /\ b.after["sync"] = IF v > 0 THEN v ELSE After(Len(batches))["sync"]
    /\ b.after["internal"] = After(Len(batches))["internal"]

(* A copy of either caller: the copy in, a frame copied out, or the game's  *)
(* own; it waits for one value of the sync timeline and announces another.  *)
LEMMA CopyKeeps ==
  ASSUME QueueTypes, CallerTypes, Fenced, Iteration, Behind,
         NEW op \in Copies, NEW k \in Nat, NEW l \in Nat, NEW f \in Nat, NEW w \in Nat, NEW v \in Nat,
         NEW wait, WaitsOn(wait, w), NEW signal, Announces(signal, v),
         NEW g \in {"none", "wrapper"},
         Submit(Batch(op, f, k, l, wait, signal, g), fence),
         UNCHANGED <<done, running, blockIteration, countVars, protocol>>,
         FenceTaken(g)
  PROVE  /\ QueueTypes' /\ Fenced' /\ Iteration' /\ Behind'
         /\ Copied(op, f, k, l, wait, w, v, g)
<1> DEFINE b == Batch(op, f, k, l, wait, signal, g)
<1>1. {"sync", "internal"} = Sems
  BY Vectors
<1>2. wait \in [Sems -> Nat] /\ (wait = Only("sync", w) => wait["sync"] = w)
  BY <1>1, Vectors DEF WaitsOn
<1>3. signal \in [Sems -> Nat] /\ signal["sync"] = v /\ signal["internal"] = 0
  <2>1. CASE signal = Nothing /\ v = 0
    BY <1>1, <2>1, Vectors
  <2>2. CASE signal = Only("sync", v)
    BY <1>1, <2>2, Vectors
  <2> QED
    BY <2>1, <2>2 DEF Announces
<1>4. /\ op \in {"copyin", "prepass", "main", "copyout", "original"} /\ op \in Copies
      /\ g \in Fences \cup {"none"}
  BY DEF Copies, Fences
<1>5. /\ b \in Commands /\ b.op = op /\ b.frame = f /\ b.slot = k /\ b.layer = l /\ b.fence = g /\ b.wait = wait
      /\ b.after["sync"] = (IF v > 0 THEN v ELSE After(Len(batches))["sync"])
      /\ b.after["internal"] = After(Len(batches))["internal"]
  <2> HIDE DEF b
  <2>1. Made(b, op, f, k, l, wait, signal, g)
    BY <1>2, <1>3, <1>4, BatchIs DEF b
  <2>2. /\ b.after["sync"] = (IF v > 0 THEN v ELSE After(Len(batches))["sync"])
        /\ b.after["internal"] = After(Len(batches))["internal"]
    BY <1>1, <1>3, <2>1 DEF Made
  <2> QED
    BY <2>1, <2>2 DEF Made
<1>6. /\ batches' = Append(batches, b)
      /\ fence' = IF b.fence = "none" THEN fence ELSE [fence EXCEPT ![b.fence] = "pending"]
  BY DEF Submit
<1> HIDE DEF b
<1>7. Grows(b)
  BY <1>6 DEF Grows
<1>8. /\ fence' \in [Fences -> {"idle", "pending", "signalled"}] /\ fence'["context"] = fence["context"]
      /\ g = "none" => fence' = fence
      /\ g = "wrapper" => fence'["wrapper"] = "pending"
  BY <1>5, <1>6 DEF QueueTypes, Fences
<1>9. QueueTypes'
  BY <1>5, <1>7, <1>8, Grown DEF QueueTypes
<1>10. fencePending' = fencePending
  BY DEF countVars
<1>11. Fenced'
  <2>1. ASSUME NEW i \in Unfinished
        PROVE  /\ batches[i].fence = "context" => b.fence # "context" /\ fencePending' /\ fence'["context"] # "signalled"
               /\ batches[i].fence = "wrapper" => b.fence # "wrapper" /\ framePending' /\ fence'["wrapper"] # "signalled"
    <3>1. batches[i].fence = "context" => b.fence # "context" /\ fencePending' /\ fence'["context"] # "signalled"
      BY <1>5, <1>8, <1>10 DEF Fenced
    <3>2. batches[i].fence = "wrapper" => b.fence # "wrapper" /\ framePending' /\ fence'["wrapper"] # "signalled"
      BY <1>5, <1>8 DEF Fenced, FenceTaken
    <3> QED
      BY <3>1, <3>2
  <2>2. b.fence # "context"
    BY <1>5
  <2>3. b.fence = "wrapper" => framePending' /\ fence'["wrapper"] # "signalled"
    BY <1>5, <1>8 DEF FenceTaken
  <2> QED
    BY <1>5, <1>7, <2>1, <2>2, <2>3, FencedGrow
<1>12. Iteration' /\ Behind'
  BY <1>4, <1>5, <1>7, CopyGrow
<1>13. Copied(op, f, k, l, wait, w, v, g)
  BY <1>2, <1>5, <1>7 DEF Copied
<1> QED
  BY <1>9, <1>11, <1>12, <1>13

-----------------------------------------------------------------------------
(* Two frames in a row are in different layers.                             *)
LEMMA Layers ==
  \A f \in Nat : /\ LayerOf(f) \in 0..1
                 /\ f > 0 => LayerOf(f - 1) # LayerOf(f) /\ LayerOf(f) = (f - 1) % 2 /\ LayerOf(f - 1) = 1 - ((f - 1) % 2)
BY DEF LayerOf

(* The same, seen from the first of them.                                   *)
LEMMA NextLayer ==
  \A f \in Nat : LayerOf(f) \in 0..1 /\ LayerOf(f + 1) \in 0..1 /\ LayerOf(f) # LayerOf(f + 1)
BY DEF LayerOf

(* A command the caller may put at the end of the log.                      *)
Fits(b) ==
  /\ b.op = "copyin" => /\ b.frame = FrameAt(Len(batches)) + 1 /\ b.layer = LayerOf(b.frame)
                        /\ batches = <<>> \/ Last.op \notin {"copyin", "main"}
  /\ b.op # "copyin" => batches # <<>> /\ b.frame = Last.frame
  /\ b.op = "prepass" => Last.op = "copyin"
  /\ b.op = "main" => Last.op \in {"prepass", "copyout"}
  /\ b.op = "copyout" => Last.op = "main" /\ b.slot = Last.slot

(* It waits for what was announced last.                                    *)
Awaits(b) ==
  /\ b.op \in {"prepass", "main", "copyout"} =>
       \E s \in Sems : \A j \in 0..(Len(batches) - 1) : After(j)[s] < b.wait[s]
  /\ b.op = "copyin" => \A j \in done..(Len(batches) - 2) : After(j)["sync"] < b.wait["sync"]

(* A fitting command that waits for the last announcement keeps the log in  *)
(* order and starts in its turn.                                            *)
LEMMA LogGrow ==
  ASSUME QueueTypes, Orderly, Held, NEW b \in Commands, Grows(b), Fits(b), Awaits(b)
  PROVE  /\ Orderly' /\ Held' /\ batches' # <<>> /\ Last' = b
         /\ \A n \in Nat : n = Len(batches') => FrameAt(n)' = b.frame
<1>1. /\ \A i \in 1..Len(batches) : batches'[i] = batches[i]
      /\ batches'[Len(batches) + 1] = b /\ Len(batches') = Len(batches) + 1
      /\ Unfinished' = Unfinished \cup {Len(batches) + 1}
      /\ \A j \in 0..Len(batches) : After(j)' = After(j)
      /\ batches' \in Seq(Commands)
  BY Grown
<1>2. Len(batches) \in Nat /\ done \in 0..Len(batches) /\ done' = done
  BY DEF QueueTypes, Grows
<1>3. \A i \in 0..Len(batches) : FrameAt(i)' = FrameAt(i)
  BY <1>1 DEF FrameAt
<1>4. batches = <<>> <=> Len(batches) = 0
  BY DEF QueueTypes
<1>5. Orderly'
  <2> SUFFICES ASSUME NEW i \in 1..Len(batches') PROVE Follows(i)'
    BY DEF Orderly
  <2>1. CASE i \in 1..Len(batches)
    <3>1. batches'[i] = batches[i] /\ FrameAt(i - 1)' = FrameAt(i - 1) /\ Follows(i)
      BY <1>1, <1>2, <1>3, <2>1 DEF Orderly
    <3>2. i > 1 => batches'[i - 1] = batches[i - 1]
      BY <1>1, <1>2, <2>1
    <3>3. CASE i > 1
      BY <3>1, <3>2, <3>3 DEF Follows
    <3>4. CASE i = 1
      <4>1. batches[i].op = "copyin"
        BY <3>1, <3>4 DEF Follows
      <4> QED
        BY <3>1, <3>4, <4>1 DEF Follows
    <3> QED
      BY <1>2, <2>1, <3>3, <3>4
  <2>2. CASE i = Len(batches) + 1
    <3>1. batches'[i] = b /\ FrameAt(i - 1)' = FrameAt(Len(batches))
      BY <1>1, <1>2, <1>3, <2>2
    <3>2. i > 1 => batches'[i - 1] = Last
      BY <1>1, <1>2, <2>2 DEF Last
    <3>3. i > 1 <=> batches # <<>>
      BY <1>2, <1>4, <2>2
    <3>4. CASE b.op = "copyin"
      BY <3>1, <3>2, <3>3, <3>4 DEF Follows, Fits
    <3>5. CASE b.op # "copyin"
      BY <3>1, <3>2, <3>3, <3>5 DEF Follows, Fits
    <3> QED
      BY <3>4, <3>5
  <2> QED
    BY <1>1, <1>2, <2>1, <2>2
<1>6. Held'
  <2> SUFFICES ASSUME NEW i \in Unfinished'
               PROVE  /\ batches'[i].op \in {"prepass", "main", "copyout"} => \A j \in done'..(i - 2) : Blocked(i, j)'
                      /\ batches'[i].op = "copyin" => \A j \in done'..(i - 3) : Blocked(i, j)'
    BY DEF Held
  <2>1. CASE i \in Unfinished
    <3>1. i \in 1..Len(batches) /\ batches'[i] = batches[i]
      BY <1>1, <2>1, CommandTypes
    <3>2. \A j \in done..(i - 2) : Blocked(i, j)' <=> Blocked(i, j)
      BY <1>1, <1>2, <3>1 DEF Blocked
    <3>3. \A j \in done..(i - 3) : j \in done..(i - 2)
      BY <1>2, <3>1
    <3> QED
      BY <1>2, <2>1, <3>1, <3>2, <3>3 DEF Held
  <2>2. CASE i = Len(batches) + 1
    <3>1. batches'[i] = b
      BY <1>1, <2>2
    <3>2. ASSUME b.op \in {"prepass", "main", "copyout"}, NEW j \in done'..(i - 2) PROVE Blocked(i, j)'
      <4>1. j \in 0..(Len(batches) - 1) /\ j \in 0..Len(batches)
        BY <1>2, <2>2, <3>2
      <4>2. PICK s \in Sems : After(j)[s] < b.wait[s]
        BY <3>2, <4>1 DEF Awaits
      <4> QED
        BY <1>1, <3>1, <4>1, <4>2 DEF Blocked
    <3>3. ASSUME b.op = "copyin", NEW j \in done'..(i - 3) PROVE Blocked(i, j)'
      <4>1. j \in done..(Len(batches) - 2) /\ j \in 0..Len(batches)
        BY <1>2, <2>2, <3>3
      <4>2. After(j)["sync"] < b.wait["sync"] /\ "sync" \in Sems
        BY <3>3, <4>1, Vectors DEF Awaits
      <4> QED
        BY <1>1, <3>1, <4>1, <4>2 DEF Blocked
    <3> QED
      BY <3>1, <3>2, <3>3
  <2> QED
    BY <1>1, <2>1, <2>2
<1>7. batches' # <<>> /\ Last' = b
  BY <1>1, <1>2 DEF Last
<1>8. \A n \in Nat : n = Len(batches') => FrameAt(n)' = b.frame
  BY <1>1, <1>2 DEF FrameAt
<1> QED
  BY <1>5, <1>6, <1>7, <1>8

(* The memory is about commands that have begun, and none begins here.      *)
LEMMA MemoryGrow ==
  ASSUME QueueTypes, Memory, NEW b \in Commands, Grows(b), UNCHANGED memoryVars
  PROVE  Memory'
<1>1. /\ \A i \in 1..Len(batches) : batches'[i] = batches[i]
      /\ done' = done /\ running' = running /\ done \in 0..Len(batches) /\ Len(batches) \in Nat
  BY Grown DEF Grows, QueueTypes
<1>2. \A i : Begun(i) => i \in 1..Len(batches) /\ batches'[i] = batches[i]
  BY <1>1, CommandTypes DEF Begun, QueueTypes
<1>3. \A i : Begun(i)' <=> Begun(i)
  BY <1>1 DEF Begun
<1>4. \A i \in running : batches'[i] = batches[i]
  BY <1>2 DEF Begun
<1>5. Copying' <=> Copying
  BY <1>1, <1>4 DEF Copying
<1>6. FrameAt(done)' = FrameAt(done)
  BY <1>1 DEF FrameAt
<1>7. \A f : SourceOf(f)' <=> SourceOf(f)
  BY DEF SourceOf, memoryVars, LayerOf
<1>8. /\ \A i \in running' : /\ batches'[i].op = "copyin" => i <= done' + 2
                             /\ batches'[i].op \in {"prepass", "main", "copyout"} => i = done' + 1
      /\ \A i \in running' : batches'[i].op = "copyin" => SourceOf(batches[i].frame)'
  BY <1>1, <1>4, <1>7 DEF Memory
<1>9. ~Copying' => SourceOf(FrameAt(done))'
  BY <1>1, <1>5, <1>6, <1>7 DEF Memory
<1>10. ~Copying' => \A i \in {done', done' + 1} :
         Begun(i)' /\ batches'[i].op \in {"prepass", "main", "copyout"} => features' = Pair(batches'[i].frame)
  BY <1>1, <1>2, <1>3, <1>5 DEF Memory, memoryVars
<1>11. \A i \in {done', done' + 1} :
         Begun(i)' /\ batches'[i].op = "main" => destination' = Image(batches'[i])
  BY <1>1, <1>2, <1>3 DEF Memory, memoryVars
<1>12. FramesIntact'
  BY DEF Memory, FramesIntact, memoryVars
<1> QED
  BY <1>4, <1>8, <1>9, <1>10, <1>11, <1>12 DEF Memory, Pair, Image

-----------------------------------------------------------------------------
(* The validator draws a frame into the source.                             *)
LEMMA ValidateCopyIn ==
  ASSUME IntactInv, caller = "validate", caller' = caller, UNCHANGED wrapperVars, NEW n \in Totals, CopyIn(n)
  PROVE  IntactInv'
<1> USE DEF IntactInv, IdleInv
<1> DEFINE w == value
           v == IF protocol THEN 0 ELSE value + 1
           wait == IF protocol THEN Nothing ELSE Only("sync", w)
           signal == IF protocol THEN Nothing ELSE Only("sync", v)
<1>1. /\ pc = "idle" /\ frame' = frame + 1 /\ want' = n /\ pc' = "dispatch" /\ protocol' = protocol
      /\ Submit(Batch("copyin", frame + 1, 0, frame % 2, wait, signal, "none"), fence)
      /\ value' = IF protocol THEN value ELSE value + 1
      /\ UNCHANGED <<done, running, lost, memoryVars, blockIteration, countVars, protocol>>
  BY DEF CopyIn, DrawLayer
<1>2. n \in Nat /\ n > 0
  BY PartialAssumption
<1>3. frame + 1 \in Nat /\ frame % 2 \in Nat /\ w \in Nat /\ v \in Nat /\ frame \in Nat /\ 0 \in Nat /\ value \in Nat
  BY DEF CallerTypes
<1>4. UNCHANGED <<framePending, showOriginal, remaining>>
  BY DEF wrapperVars
<1>5. WaitsOn(wait, w)
  BY DEF WaitsOn
<1>6. Announces(signal, v)
  BY DEF Announces
<1>7. ~protocol => wait = Only("sync", value) /\ w = value /\ v = value + 1
  OBVIOUS
<1> HIDE DEF wait, signal, w, v
<1>8. "copyin" \in Copies /\ "none" \in {"none", "wrapper"} /\ FenceTaken("none")
  BY <1>4 DEF Copies, FenceTaken
<1>9. QueueTypes' /\ Fenced' /\ Iteration' /\ Behind' /\ Copied("copyin", frame + 1, 0, frame % 2, wait, w, v, "none")
  BY <1>1, <1>3, <1>4, <1>5, <1>6, <1>8, CopyKeeps
<1>10. PICK b \in Commands :
         /\ Grows(b) /\ b.op = "copyin" /\ b.frame = frame + 1 /\ b.slot = 0 /\ b.layer = frame % 2
         /\ ~protocol => b.wait["sync"] = value
         /\ ~protocol => b.after["sync"] = value + 1
  BY <1>3, <1>7, <1>9 DEF Copied
<1>11. CallerTypes'
  BY <1>1, <1>2, <1>3, <1>4 DEF CallerTypes, countVars
<1>12. /\ first' = first /\ total' = total /\ index' = index /\ iteration' = iteration /\ syncValue' = syncValue
       /\ internalValue' = internalValue
  BY <1>1 DEF countVars
<1>13. Place'
  BY <1>1, <1>2, <1>3, <1>12 DEF Place, Counting, CallerTypes
<1>14. /\ \A j \in 0..Len(batches) : After(j)' = After(j) /\ After(j) \in [Sems -> Nat]
       /\ Len(batches') = Len(batches) + 1 /\ Len(batches) \in Nat
  BY <1>10, Grown, AfterTypes DEF QueueTypes
<1>15. ~protocol => \A j \in 0..Len(batches) : After(j)["sync"] <= value
  BY <1>1 DEF Counted, Counting, Ahead
<1>16. Counted'
  <2>1. ~protocol => \A j \in 0..Len(batches') : After(j)'["sync"] <= Ahead'
    <3> SUFFICES ASSUME ~protocol PROVE \A j \in 0..Len(batches') : After(j)'["sync"] <= Ahead'
      OBVIOUS
    <3>1. Ahead' = value + 1
      BY <1>1 DEF Ahead
    <3>2. b.after["sync"] <= value + 1 /\ value <= value + 1 /\ value + 1 \in Nat
      BY <1>3, <1>10
    <3> QED
      BY <1>3, <1>10, <1>15, <3>1, <3>2, BoundGrow
  <2>2. ~protocol => Ahead' = syncValue' + Partial' + 1
    <3>1. Partial' = Partial
      BY <1>12 DEF Partial
    <3>2. ~protocol => value = syncValue + Partial
      BY <1>1 DEF Counted
    <3>3. ~protocol => Ahead' = value + 1
      BY <1>1 DEF Ahead
    <3> QED
      BY <1>12, <3>1, <3>2, <3>3
  <2> QED
    BY <1>1, <2>1, <2>2 DEF Counted
<1>17. Recorders'
  BY DEF Recorders
<1>18. ASSUME ~protocol PROVE Orderly' /\ Held' /\ Logged' /\ Fresh' /\ Memory'
  <2>1. /\ frame = FrameAt(Len(batches)) /\ (batches = <<>> \/ Last.op \notin {"copyin", "main"})
    BY <1>1, <1>18 DEF Logged, Counting
  <2>2. Fits(b)
    <3>1. LayerOf(frame + 1) = frame % 2
      BY <1>3 DEF LayerOf
    <3> QED
      BY <1>10, <2>1, <3>1 DEF Fits
  <2>3. Awaits(b)
    <3>1. \A j \in done..(Len(batches) - 2) : j \in 0..(Len(batches) - 2)
      BY <1>14 DEF QueueTypes
    <3> QED
      BY <1>1, <1>10, <1>18, <3>1 DEF Awaits, Fresh
  <2>4. /\ Orderly' /\ Held' /\ batches' # <<>> /\ Last' = b
        /\ \A k \in Nat : k = Len(batches') => FrameAt(k)' = b.frame
    BY <1>10, <1>18, <2>2, <2>3, LogGrow
  <2>5. Logged'
    BY <1>1, <1>10, <1>14, <2>4 DEF Logged
  <2>6. Fresh'
    <3>1. \A j \in 0..(Len(batches') - 1) : j \in 0..Len(batches)
      BY <1>14
    <3>2. ASSUME NEW j \in 0..(Len(batches') - 1) PROVE After(j)'["sync"] < Ahead'
      <4>1. After(j)' = After(j) /\ After(j)["sync"] \in Nat
        BY <1>14, <3>1, <3>2, Vectors
      <4>2. After(j)["sync"] <= value
        BY <1>15, <1>18, <3>1, <3>2
      <4>3. Ahead' = value + 1
        BY <1>1, <1>18 DEF Ahead
      <4> QED
        BY <1>3, <4>1, <4>2, <4>3
    <3> QED
      BY <1>1, <3>2 DEF Fresh
  <2>7. Memory'
    BY <1>1, <1>10, <1>18, MemoryGrow
  <2> QED
    BY <2>4, <2>5, <2>6, <2>7
<1> QED
  BY <1>1, <1>9, <1>11, <1>13, <1>16, <1>17, <1>18

(* A dispatch of the validator, or of the worker, whose own count of the    *)
(* sync timeline has followed the copy in by then.                          *)
LEMMA DispatchStep ==
  ASSUME IntactInv, caller' = caller, pc = "dispatch", Dispatch(frame, want, protocol, TRUE),
         UNCHANGED <<frame, want, protocol, showOriginal, framePending>>,
         \/ /\ caller = "validate" /\ pc' = "acquire" /\ UNCHANGED <<value, remaining>>
         \/ /\ caller = "metal" /\ pc' = (IF want > 0 THEN "acquire" ELSE AfterFrames)
            /\ remaining' = want /\ value' = value + 1
  PROVE  IntactInv'
<1> USE DEF IntactInv, IdleInv
<1>1. frame = (IF first THEN 1 ELSE iteration + 2) /\ want \in Nat /\ value \in Nat
  BY DEF Place, CallerTypes
<1>2. UNCHANGED <<protocol, framePending>>
  OBVIOUS
<1>3. /\ QueueTypes' /\ Fenced' /\ Iteration' /\ Behind' /\ Dispatched
      /\ first' = FALSE /\ total' = want /\ index' = 0 /\ unsignaled' = protocol /\ fencePending' = (want = 0)
      /\ iteration' \in Nat /\ syncValue' \in Nat /\ internalValue' \in Nat /\ iteration' + 1 = frame
      /\ syncValue' = syncValue + Partial + 1 /\ internalValue' = internalValue + 1
  BY <1>1, <1>2, DispatchKeeps
<1>4. PICK b \in Commands :
        /\ Grows(b) /\ b.op = "prepass" /\ b.frame = frame
        /\ ~protocol => b.wait["sync"] = syncValue + Partial + 1
        /\ b.after["sync"] = After(Len(batches))["sync"] /\ b.after["internal"] = internalValue'
  BY <1>3 DEF Dispatched
<1>5. fencePending' \in BOOLEAN /\ unsignaled' \in BOOLEAN /\ first' \in BOOLEAN
  BY <1>3 DEF CallerTypes
<1>6. CallerTypes'
  BY <1>1, <1>3, <1>5 DEF CallerTypes
<1>7. /\ caller = "validate" => want > 0
      /\ caller = "metal" => want > 0 \/ showOriginal
      /\ caller = "metal" => framePending = FALSE /\ protocol = FALSE
  BY DEF Place, CallerTypes
<1>8. /\ pc' = IF want > 0 THEN "acquire" ELSE "original"
      /\ value' = Ahead /\ (caller = "validate" => value' = value)
      /\ (caller = "metal" => remaining' = want)
  BY <1>1, <1>7 DEF AfterFrames, Ahead
<1>9. Place'
  <2>1. frame' = frame /\ want' = want
    OBVIOUS
  <2>2. /\ pc' \in {"acquire", "original"} /\ frame' = (IF first' THEN 0 ELSE iteration' + 1) /\ total' = want'
        /\ (pc' = "acquire" => index' < total') /\ (pc' = "original" => index' = total')
    BY <1>1, <1>3, <1>8, <2>1
  <2>3. CASE caller = "validate"
    BY <1>7, <1>8, <2>2, <2>3 DEF Place, Counting
  <2>4. CASE caller = "metal"
    <3>1. framePending' = FALSE /\ caller' = "metal"
      BY <1>7, <2>4
    <3>2. pc' = "acquire" => remaining' = total' - index'
      BY <1>1, <1>3, <1>8, <2>4
    <3> QED
      BY <2>2, <3>1, <3>2 DEF Place, Counting
  <2> QED
    BY <2>3, <2>4 DEF CallerTypes
<1>10. /\ \A j \in 0..Len(batches) : After(j)' = After(j) /\ After(j) \in [Sems -> Nat]
       /\ Len(batches') = Len(batches) + 1 /\ Len(batches) \in Nat
       /\ Unfinished' = Unfinished \cup {Len(batches) + 1}
  <2>1. /\ \A j \in 0..Len(batches) : After(j)' = After(j)
        /\ Len(batches') = Len(batches) + 1 /\ Unfinished' = Unfinished \cup {Len(batches) + 1}
    BY <1>4, Grown
  <2>2. \A j \in 0..Len(batches) : After(j) \in [Sems -> Nat]
    BY AfterTypes
  <2>3. Len(batches) \in Nat
    BY DEF QueueTypes
  <2> QED
    BY <2>1, <2>2, <2>3
<1>11. ~protocol => \A j \in 0..Len(batches) : After(j)["sync"] <= Ahead
  BY DEF Counted, Counting
<1>12. ~protocol => Ahead = syncValue + Partial + 1
  BY DEF Counted
<1>13. Ahead' = value'
  BY <1>8 DEF Ahead
<1>14. Ahead \in Nat
  BY <1>1 DEF Ahead
<1>15. Counted'
  <2>1. ~protocol => \A j \in 0..Len(batches') : After(j)'["sync"] <= Ahead'
    <3> SUFFICES ASSUME ~protocol PROVE \A j \in 0..Len(batches') : After(j)'["sync"] <= Ahead'
      OBVIOUS
    <3>1. b.after["sync"] <= Ahead
      BY <1>4, <1>10, <1>11
    <3>2. Ahead <= Ahead
      BY <1>14
    <3>3. \A j \in 0..Len(batches') : After(j)'["sync"] <= Ahead
      BY <1>4, <1>11, <1>14, <3>1, <3>2, BoundGrow
    <3> QED
      BY <1>8, <1>13, <3>3
  <2>2. Partial' = 0
    BY <1>3 DEF Partial
  <2>3. ~protocol => value' = syncValue'
    BY <1>3, <1>8, <1>12
  <2>4. syncValue' = syncValue' + 0
    BY <1>3
  <2> QED
    BY <1>3, <1>8, <2>1, <2>2, <2>3, <2>4 DEF Counted
<1>16. Recorders'
  <2> SUFFICES ASSUME caller = "metal" PROVE Recorders'
    BY DEF Recorders
  <2>1. b.op \notin Copies
    BY <1>4 DEF Copies
  <2>2. /\ \A i, j \in Unfinished' :
             batches'[i].op \in Copies /\ batches'[j].op \in Copies /\ batches'[i].slot = batches'[j].slot => i = j
        /\ \A i \in Unfinished' : batches'[i].op \in Copies =>
             i \in Unfinished /\ batches[i].op \in Copies /\ batches'[i].slot = batches[i].slot
    BY <1>4, <2>1, RecordersGrow DEF Recorders
  <2>3. Recorded = 0 /\ Recorded' = 0
    BY <1>1, <1>8 DEF Recorded
  <2>4. \A i \in Unfinished : batches[i].op \in Copies => batches[i].slot <= 0
    BY <2>3 DEF Recorders
  <2> QED
    BY <2>2, <2>3, <2>4 DEF Recorders
<1>17. ASSUME ~protocol PROVE Orderly' /\ Held' /\ Logged' /\ Fresh' /\ Memory'
  <2>1. frame = FrameAt(Len(batches)) /\ batches # <<>> /\ Last.op = "copyin"
    BY <1>17 DEF Logged, Counting
  <2>2. Fits(b)
    <3>1. FrameAt(Len(batches)) = Last.frame
      BY <1>10, <2>1 DEF FrameAt, Last, QueueTypes
    <3> QED
      BY <1>4, <2>1, <3>1 DEF Fits
  <2>3. Awaits(b)
    <3>1. \A j \in 0..(Len(batches) - 1) : After(j)["sync"] < b.wait["sync"]
      BY <1>4, <1>12, <1>17 DEF Fresh
    <3> QED
      BY <1>4, <3>1, Vectors DEF Awaits
  <2>4. /\ Orderly' /\ Held' /\ batches' # <<>> /\ Last' = b
        /\ \A k \in Nat : k = Len(batches') => FrameAt(k)' = b.frame
    BY <1>4, <1>17, <2>2, <2>3, LogGrow
  <2>5. Logged'
    BY <1>3, <1>4, <1>8, <1>10, <2>4 DEF Logged
  <2>6. Fresh'
    <3>1. \A j \in 0..(Len(batches') - 1) : After(j)'["internal"] < internalValue'
      <4> SUFFICES ASSUME NEW j \in 0..(Len(batches') - 1) PROVE After(j)'["internal"] < internalValue'
        OBVIOUS
      <4>1. j \in 0..Len(batches)
        BY <1>10
      <4>2. After(j)' = After(j) /\ After(j)["internal"] \in Nat /\ After(j)["internal"] <= internalValue
        BY <1>10, <4>1, Vectors DEF Behind
      <4> QED
        BY <1>3, <4>2 DEF CallerTypes
    <3>2. ASSUME caller = "validate", NEW j \in 0..(Len(batches') - 2) PROVE After(j)'["sync"] < value'
      <4>1. j \in 0..(Len(batches) - 1) /\ j \in 0..Len(batches)
        BY <1>10, <3>2
      <4> QED
        BY <1>8, <1>10, <1>17, <4>1 DEF Fresh
    <3>3. pc' \notin {"dispatch", "copyout", "idle"}
      BY <1>8
    <3>4. ~(index' > 0)
      BY <1>3
    <3> QED
      BY <3>1, <3>2, <3>3, <3>4 DEF Fresh
  <2>7. UNCHANGED memoryVars
    BY DEF Dispatch
  <2>8. Memory'
    BY <1>4, <1>17, <2>7, MemoryGrow
  <2> QED
    BY <2>4, <2>5, <2>6, <2>8
<1> QED
  BY <1>3, <1>6, <1>9, <1>15, <1>16, <1>17

(* A main pass of the validator, or of the worker.                          *)
LEMMA AcquireStep ==
  ASSUME IntactInv, caller' = caller, pc = "acquire", Acquire(frame, protocol, TRUE),
         UNCHANGED <<value, frame, want, protocol, showOriginal, framePending, remaining>>,
         \/ /\ caller = "validate" /\ pc' = (IF ~protocol THEN "copyout" ELSE IF More THEN "acquire" ELSE "idle")
         \/ caller = "metal" /\ pc' = "copyout"
  PROVE  IntactInv'
<1> USE DEF IntactInv, IdleInv
<1>1. /\ value \in Nat /\ frame \in Nat /\ index \in Nat /\ total \in Nat /\ want \in Nat /\ syncValue \in Nat
      /\ iteration \in Nat /\ internalValue \in Nat
      /\ (caller = "metal" => protocol = FALSE)
  BY DEF CallerTypes
<1>2. index < total /\ total = want /\ first = FALSE
  <2>1. index < total /\ total = want
    BY DEF Place
  <2> QED
    BY <1>1, <2>1 DEF Iteration, CallerTypes
<1>3. frame = iteration + 1
  BY <1>2 DEF Place, Counting
<1>4. ~protocol => value = IF index = 0 THEN syncValue ELSE syncValue + 1
  BY DEF Counted
<1>5. ~protocol => \A j \in 0..Len(batches) : After(j)["sync"] <= value
  BY DEF Counted, Counting, Ahead
<1>6. ~protocol => \A j \in 0..Len(batches) : After(j)["sync"] <= IF index = 0 THEN syncValue ELSE syncValue + 1
  BY <1>4, <1>5
<1>7. /\ QueueTypes' /\ Fenced' /\ Iteration' /\ Behind' /\ Acquired
      /\ index' = index + 1 /\ index < total /\ total' = total /\ first' = FALSE /\ first = FALSE
      /\ iteration' = iteration /\ unsignaled' = unsignaled /\ internalValue' = internalValue
      /\ fencePending' \in BOOLEAN /\ syncValue' \in Nat
      /\ ~protocol => syncValue' = (IF index = 0 THEN syncValue ELSE syncValue + 1) + 1
  BY <1>3, <1>6, AcquireKeeps
<1>8. PICK b \in Commands :
        /\ Grows(b) /\ b.op = "main" /\ b.frame = frame /\ b.slot = index + 1
        /\ ~protocol => IF index = 0 THEN b.wait["internal"] = internalValue ELSE b.wait["sync"] = syncValue + 1
        /\ ~protocol => b.after["sync"] = syncValue'
        /\ b.after["internal"] = After(Len(batches))["internal"]
  BY <1>7 DEF Acquired
<1>9. CallerTypes'
  <2>1. first' \in BOOLEAN /\ unsignaled' \in BOOLEAN
    BY <1>7 DEF CallerTypes
  <2>2. /\ value' \in Nat /\ frame' \in Nat /\ want' \in Nat /\ remaining' \in Nat
        /\ iteration' \in Nat /\ total' \in Nat /\ index' \in Nat /\ internalValue' \in Nat
    BY <1>1, <1>7 DEF CallerTypes
  <2>3. /\ protocol' \in BOOLEAN /\ framePending' \in BOOLEAN /\ showOriginal' \in BOOLEAN
        /\ caller' \in {"validate", "metal"} /\ (caller' = "metal" => protocol' = FALSE)
    BY DEF CallerTypes
  <2> QED
    BY <1>7, <2>1, <2>2, <2>3 DEF CallerTypes
<1>10. /\ ~protocol => pc' = "copyout"
       /\ protocol => caller = "validate" /\ pc' = IF More THEN "acquire" ELSE "idle"
  BY <1>1 DEF CallerTypes
<1>11. Place'
  <2>1. CASE ~protocol
    BY <1>1, <1>2, <1>3, <1>7, <1>10, <2>1 DEF Place, Counting
  <2>2. CASE protocol
    BY <1>1, <1>2, <1>3, <1>7, <1>10, <2>2 DEF Place, Counting, More
  <2> QED
    BY <2>1, <2>2
<1>12. /\ \A j \in 0..Len(batches) : After(j)' = After(j) /\ After(j) \in [Sems -> Nat]
       /\ Len(batches') = Len(batches) + 1 /\ Len(batches) \in Nat
       /\ Unfinished' = Unfinished \cup {Len(batches) + 1}
  <2>1. /\ \A j \in 0..Len(batches) : After(j)' = After(j)
        /\ Len(batches') = Len(batches) + 1 /\ Unfinished' = Unfinished \cup {Len(batches) + 1}
    BY <1>8, Grown
  <2>2. \A j \in 0..Len(batches) : After(j) \in [Sems -> Nat]
    BY AfterTypes
  <2>3. Len(batches) \in Nat
    BY DEF QueueTypes
  <2> QED
    BY <2>1, <2>2, <2>3
<1>13. Counted'
  <2>1. CASE ~protocol
    <3>1. Ahead' = value + 1 /\ syncValue' = value + 1
      BY <1>4, <1>7, <1>10, <2>1 DEF Ahead
    <3>2. b.after["sync"] <= value + 1 /\ value <= value + 1 /\ value + 1 \in Nat
      BY <1>1, <1>8, <2>1, <3>1
    <3>3. \A j \in 0..Len(batches') : After(j)'["sync"] <= value + 1
      BY <1>1, <1>5, <1>8, <2>1, <3>2, BoundGrow
    <3> QED
      BY <1>10, <2>1, <3>1, <3>3 DEF Counted
  <2>2. CASE protocol
    BY <1>10, <2>2 DEF Counted
  <2> QED
    BY <2>1, <2>2
<1>14. Recorders'
  <2> SUFFICES ASSUME caller = "metal" PROVE Recorders'
    BY DEF Recorders
  <2>1. b.op \notin Copies
    BY <1>8 DEF Copies
  <2>2. /\ \A i, j \in Unfinished' :
             batches'[i].op \in Copies /\ batches'[j].op \in Copies /\ batches'[i].slot = batches'[j].slot => i = j
        /\ \A i \in Unfinished' : batches'[i].op \in Copies =>
             i \in Unfinished /\ batches[i].op \in Copies /\ batches'[i].slot = batches[i].slot
    BY <1>8, <2>1, RecordersGrow DEF Recorders
  <2>3. Recorded = want - remaining /\ Recorded' = want - remaining
    BY <1>1, <1>10 DEF Recorded
  <2>4. \A i \in Unfinished : batches[i].op \in Copies => batches[i].slot <= Recorded
    BY DEF Recorders
  <2> QED
    BY <2>2, <2>3, <2>4 DEF Recorders
<1>15. ASSUME ~protocol PROVE Orderly' /\ Held' /\ Logged' /\ Fresh' /\ Memory'
  <2>1. frame = FrameAt(Len(batches)) /\ batches # <<>> /\ Last.op = IF index = 0 THEN "prepass" ELSE "copyout"
    BY <1>15 DEF Logged, Counting
  <2>2. Fits(b)
    <3>1. FrameAt(Len(batches)) = Last.frame
      BY <1>12, <2>1 DEF FrameAt, Last, QueueTypes
    <3> QED
      BY <1>8, <2>1, <3>1 DEF Fits
  <2>3. Awaits(b)
    <3>1. CASE index = 0
      <4>1. \A j \in 0..(Len(batches) - 1) : After(j)["internal"] < b.wait["internal"]
        BY <1>8, <1>15, <3>1 DEF Fresh
      <4> QED
        BY <1>8, <4>1, Vectors DEF Awaits
    <3>2. CASE index # 0
      <4>1. Ahead = value /\ index > 0 /\ value = syncValue + 1
        BY <1>1, <1>4, <1>15, <3>2 DEF Ahead
      <4>2. \A j \in 0..(Len(batches) - 1) : After(j)["sync"] < b.wait["sync"]
        BY <1>8, <1>15, <3>2, <4>1 DEF Fresh
      <4> QED
        BY <1>8, <4>2, Vectors DEF Awaits
    <3> QED
      BY <3>1, <3>2
  <2>4. /\ Orderly' /\ Held' /\ batches' # <<>> /\ Last' = b
        /\ \A k \in Nat : k = Len(batches') => FrameAt(k)' = b.frame
    BY <1>8, <1>15, <2>2, <2>3, LogGrow
  <2>5. Logged'
    BY <1>7, <1>8, <1>10, <1>12, <1>15, <2>4 DEF Logged
  <2>6. Fresh'
    <3>1. ASSUME NEW j \in 0..(Len(batches') - 1) PROVE After(j)'["sync"] < Ahead'
      <4>1. j \in 0..Len(batches)
        BY <1>12, <3>1
      <4>2. After(j)' = After(j) /\ After(j)["sync"] \in Nat /\ After(j)["sync"] <= value
        BY <1>5, <1>12, <1>15, <4>1, Vectors
      <4>3. Ahead' = value + 1
        BY <1>10, <1>15 DEF Ahead
      <4> QED
        BY <1>1, <4>2, <4>3
    <3> QED
      BY <1>10, <1>15, <3>1 DEF Fresh
  <2>7. UNCHANGED memoryVars
    BY DEF Acquire
  <2>8. Memory'
    BY <1>8, <1>15, <2>7, MemoryGrow
  <2> QED
    BY <2>4, <2>5, <2>6, <2>8
<1> QED
  BY <1>7, <1>9, <1>11, <1>13, <1>14, <1>15

(* A frame copied out by the validator, or by the worker, whose last copy   *)
(* may carry its fence.                                                     *)
LEMMA CopyOutStep ==
  ASSUME IntactInv, caller' = caller, pc = "copyout", NEW g \in {"none", "wrapper"}, NEW v,
         v = (IF index < total THEN value + 2 ELSE 0),
         Submit(Batch("copyout", frame, index, 0, Only("sync", value + 1), Only("sync", v), g), fence),
         UNCHANGED <<done, running, blockIteration, countVars, protocol>>, UNCHANGED memoryVars,
         UNCHANGED <<frame, want, showOriginal>>,
         value' = (IF index < total THEN value + 2 ELSE value + 1),
         \/ /\ caller = "validate" /\ pc' = (IF index < total THEN "acquire" ELSE "idle") /\ g = "none"
            /\ UNCHANGED <<framePending, remaining>>
         \/ /\ caller = "metal" /\ pc' = (IF index < total THEN "acquire" ELSE AfterFrames)
            /\ g = (IF index < total \/ showOriginal THEN "none" ELSE "wrapper")
            /\ framePending' = (framePending \/ g = "wrapper") /\ remaining' = remaining - 1
  PROVE  IntactInv'
<1> USE DEF IntactInv, IdleInv
<1>1. /\ value \in Nat /\ frame \in Nat /\ index \in Nat /\ total \in Nat /\ want \in Nat /\ syncValue \in Nat
      /\ iteration \in Nat /\ remaining \in Nat /\ showOriginal \in BOOLEAN /\ framePending \in BOOLEAN
      /\ caller \in {"validate", "metal"}
  BY DEF CallerTypes
<1>2. ~protocol /\ syncValue = value + 1 /\ total = want /\ 0 < index /\ index <= total /\ ~first
  <2>1. ~protocol /\ syncValue = value + 1 /\ total = want /\ 0 < index
    BY DEF Counted, Place
  <2>2. index <= total
    BY DEF Iteration
  <2>3. ~first
    BY <1>1, <2>1 DEF Iteration
  <2> QED
    BY <2>1, <2>2, <2>3
<1>3. /\ first' = first /\ total' = total /\ index' = index /\ iteration' = iteration /\ syncValue' = syncValue
      /\ internalValue' = internalValue /\ unsignaled' = unsignaled /\ fencePending' = fencePending
  BY DEF countVars
<1>4. caller = "metal" => framePending = FALSE /\ remaining = total - index + 1
  BY DEF Place
<1>5. /\ g = "wrapper" => framePending = FALSE /\ framePending' = TRUE
      /\ g = "none" => framePending' = framePending
      /\ framePending' \in BOOLEAN
      /\ FenceTaken(g)
  BY <1>1, <1>4 DEF FenceTaken
<1>6. remaining' \in Nat
  BY <1>1, <1>2, <1>4
<1>7. v \in Nat /\ value + 1 \in Nat /\ index \in Nat /\ 0 \in Nat /\ "copyout" \in Copies
  BY <1>1 DEF Copies
<1> DEFINE wait == Only("sync", value + 1)
           signal == Only("sync", v)
           w == value + 1
<1>8. WaitsOn(wait, w) /\ Announces(signal, v) /\ w \in Nat /\ wait = Only("sync", w) /\ w = value + 1
  BY <1>1 DEF WaitsOn, Announces
<1>9. QueueTypes' /\ Fenced' /\ Iteration' /\ Behind' /\ Copied("copyout", frame, index, 0, wait, w, v, g)
  <2>1. QueueTypes /\ CallerTypes /\ Fenced /\ Iteration /\ Behind
    OBVIOUS
  <2>2. Submit(Batch("copyout", frame, index, 0, wait, signal, g), fence)
    OBVIOUS
  <2>3. UNCHANGED <<done, running, blockIteration, countVars, protocol>>
    OBVIOUS
  <2>4. g \in {"none", "wrapper"} /\ FenceTaken(g)
    BY <1>5
  <2>5. frame \in Nat
    BY <1>1
  <2> HIDE DEF wait, signal, w
  <2> QED
    BY ONLY <1>7, <2>5, <1>8, <2>1, <2>2, <2>3, <2>4, CopyKeeps
<1>10. PICK b \in Commands :
         /\ Grows(b) /\ b.op = "copyout" /\ b.frame = frame /\ b.slot = index /\ b.fence = g
         /\ b.wait["sync"] = value + 1
         /\ b.after["sync"] = IF v > 0 THEN v ELSE After(Len(batches))["sync"]
  BY <1>8, <1>9 DEF Copied
<1>11. CallerTypes'
  <2>1. value' \in Nat
    BY <1>1
  <2> QED
    BY <1>1, <1>3, <1>5, <1>6, <2>1 DEF CallerTypes
<1>12. /\ \A j \in 0..Len(batches) : After(j)' = After(j) /\ After(j) \in [Sems -> Nat]
       /\ Len(batches') = Len(batches) + 1 /\ Len(batches) \in Nat
       /\ Unfinished' = Unfinished \cup {Len(batches) + 1}
       /\ batches'[Len(batches) + 1] = b
  <2>1. /\ \A j \in 0..Len(batches) : After(j)' = After(j)
        /\ Len(batches') = Len(batches) + 1 /\ Unfinished' = Unfinished \cup {Len(batches) + 1}
        /\ batches'[Len(batches) + 1] = b
    BY <1>10, Grown
  <2>2. \A j \in 0..Len(batches) : After(j) \in [Sems -> Nat]
    BY AfterTypes
  <2>3. Len(batches) \in Nat
    BY DEF QueueTypes
  <2> QED
    BY <2>1, <2>2, <2>3
<1>13. frame = iteration + 1
  BY <1>2 DEF Place, Counting
<1>14. /\ index < total => pc' = "acquire"
       /\ ~(index < total) => pc' \in {"idle", "original"} /\ index = total
       /\ caller = "validate" => pc' # "original"
       /\ caller = "metal" /\ pc' = "idle" => g = "wrapper"
       /\ caller = "metal" /\ pc' \in {"acquire", "original"} => g = "none"
  BY <1>1, <1>2 DEF AfterFrames
<1>15. Place'
  <2>1. frame' = (IF first' THEN 0 ELSE iteration' + 1) /\ total' = want' /\ pc' \in {"acquire", "idle", "original"}
    BY <1>2, <1>3, <1>13, <1>14
  <2>2. CASE caller = "validate"
    BY <1>3, <1>14, <2>1, <2>2 DEF Place, Counting
  <2>3. CASE caller = "metal"
    <3>1. pc' = "acquire" => remaining' = total' - index' /\ framePending' = FALSE
      BY <1>1, <1>3, <1>4, <1>5, <1>14, <2>3
    <3>2. pc' = "original" => framePending' = FALSE
      BY <1>4, <1>5, <1>14, <2>3
    <3>3. pc' = "idle" => framePending' /\ batches'[Len(batches')].fence = "wrapper"
      BY <1>5, <1>10, <1>12, <1>14, <2>3
    <3>4. caller' = "metal" /\ (pc' = "acquire" => index' < total') /\ (pc' \in {"idle", "original"} => index' = total')
      BY <1>3, <1>14, <2>3
    <3> QED
      BY <2>1, <3>1, <3>2, <3>3, <3>4 DEF Place, Counting
  <2> QED
    BY <1>1, <2>2, <2>3
<1>16. \A j \in 0..Len(batches) : After(j)["sync"] <= value + 1
  BY <1>2 DEF Counted, Counting, Ahead
<1>17. Ahead' = value' /\ value' >= value + 1
  BY <1>1, <1>14 DEF Ahead
<1>18. Counted'
  <2>1. b.after["sync"] <= value'
    <3>1. After(Len(batches))["sync"] <= value + 1
      BY <1>12, <1>16
    <3> QED
      BY <1>1, <1>10, <3>1
  <2>2. value' \in Nat /\ value + 1 <= value'
    BY <1>1, <1>17
  <2>3. \A j \in 0..Len(batches') : After(j)'["sync"] <= value'
    BY <1>7, <1>10, <1>16, <2>1, <2>2, BoundGrow
  <2>4. pc' = "acquire" => value' = IF index' = 0 THEN syncValue' ELSE syncValue' + 1
    BY <1>1, <1>2, <1>3, <1>14
  <2>5. pc' \in {"idle", "original"} => value' = syncValue' + Partial'
    <3>1. pc' \in {"idle", "original"} => Partial' = 0 /\ value' = value + 1
      BY <1>1, <1>3, <1>14 DEF Partial
    <3> QED
      BY <1>1, <1>2, <1>3, <3>1
  <2>6. pc' \in {"acquire", "idle", "original"}
    BY <1>14
  <2> QED
    BY <1>17, <2>3, <2>4, <2>5, <2>6 DEF Counted
<1>19. Recorders'
  <2> SUFFICES ASSUME caller = "metal" PROVE Recorders'
    BY DEF Recorders
  <2>1. b.op \in Copies /\ b.slot = index
    BY <1>10 DEF Copies
  <2>2. Recorded = index - 1
    BY <1>1, <1>2, <1>4 DEF Recorded
  <2>3. \A i \in Unfinished : batches[i].op \in Copies => batches[i].slot < b.slot
    <3> SUFFICES ASSUME NEW i \in Unfinished, batches[i].op \in Copies PROVE batches[i].slot < b.slot
      OBVIOUS
    <3>1. batches[i].slot <= index - 1
      BY <2>2 DEF Recorders
    <3>2. batches[i].slot \in Nat
      BY CommandTypes DEF Commands
    <3> QED
      BY <1>1, <2>1, <3>1, <3>2
  <2>4. \A i, j \in Unfinished : batches[i].op \in Copies /\ batches[j].op \in Copies /\ batches[i].slot = batches[j].slot => i = j
    BY DEF Recorders
  <2>5. /\ \A i, j \in Unfinished' :
             batches'[i].op \in Copies /\ batches'[j].op \in Copies /\ batches'[i].slot = batches'[j].slot => i = j
        /\ \A i \in Unfinished' : batches'[i].op \in Copies => batches'[i].slot <= b.slot
    BY <1>10, <2>1, <2>3, <2>4, RecordersGrow
  <2>6. pc' \in {"acquire", "original"} => Recorded' = index
    <3>1. pc' = "acquire" => Recorded' = want - (remaining - 1)
      BY DEF Recorded
    <3>2. pc' = "original" => Recorded' = want
      BY DEF Recorded
    <3> QED
      BY <1>1, <1>2, <1>4, <1>14, <3>1, <3>2
  <2>7. pc' \notin {"dispatch", "copyout"}
    BY <1>14
  <2> QED
    BY <2>1, <2>5, <2>6, <2>7 DEF Recorders
<1>20. Orderly' /\ Held' /\ Logged' /\ Fresh' /\ Memory'
  <2>1. frame = FrameAt(Len(batches)) /\ batches # <<>> /\ Last.op = "main" /\ Last.slot = index
    BY <1>2 DEF Logged, Counting
  <2>2. Fits(b)
    <3>1. FrameAt(Len(batches)) = Last.frame
      BY <1>12, <2>1 DEF FrameAt, Last, QueueTypes
    <3> QED
      BY <1>10, <2>1, <3>1 DEF Fits
  <2>3. \A j \in 0..(Len(batches) - 1) : After(j)["sync"] < value + 1
    BY <1>2 DEF Fresh, Ahead
  <2>4. Awaits(b)
    BY <1>10, <2>3, Vectors DEF Awaits
  <2>5. /\ Orderly' /\ Held' /\ batches' # <<>> /\ Last' = b
        /\ \A k \in Nat : k = Len(batches') => FrameAt(k)' = b.frame
    BY <1>2, <1>10, <2>2, <2>4, LogGrow
  <2>6. Logged'
    <3>1. FrameAt(Len(batches))' = frame
      BY <1>10, <1>12, <2>5
    <3>2. index' # 0 /\ Last'.op = "copyout" /\ batches' # <<>>
      BY <1>1, <1>2, <1>3, <1>10, <2>5
    <3> QED
      BY <1>14, <3>1, <3>2 DEF Logged
  <2>7. Fresh'
    <3>1. ASSUME index < total, NEW j \in 0..(Len(batches') - 1) PROVE After(j)'["sync"] < Ahead'
      <4>1. j \in 0..Len(batches)
        BY <1>12, <3>1
      <4>2. After(j)' = After(j) /\ After(j)["sync"] \in Nat /\ After(j)["sync"] <= value + 1
        BY <1>12, <1>16, <4>1, Vectors
      <4>3. Ahead' = value + 2
        BY <1>17, <3>1
      <4> QED
        BY <1>1, <4>2, <4>3
    <3>2. ASSUME NEW j \in 0..(Len(batches') - 2) PROVE After(j)'["sync"] < value'
      <4>1. j \in 0..(Len(batches) - 1) /\ j \in 0..Len(batches)
        BY <1>12, <3>2
      <4>2. After(j)' = After(j) /\ After(j)["sync"] \in Nat /\ After(j)["sync"] < value + 1
        BY <1>12, <2>3, <4>1, Vectors
      <4> QED
        BY <1>1, <1>17, <4>2
    <3>3. pc' \notin {"dispatch", "copyout"} /\ (pc' = "acquire" => index < total) /\ index' # 0
      BY <1>1, <1>2, <1>3, <1>14
    <3> QED
      BY <3>1, <3>2, <3>3 DEF Fresh
  <2>8. Memory'
    BY <1>2, <1>10, MemoryGrow
  <2> QED
    BY <2>5, <2>6, <2>7, <2>8
<1> QED
  BY <1>9, <1>11, <1>15, <1>18, <1>19, <1>20

-----------------------------------------------------------------------------
(* The worker copies a frame in, when the one before is complete.           *)
LEMMA MetalCopyInStep ==
  ASSUME IntactInv, caller = "metal", caller' = caller, MetalCopyIn
  PROVE  IntactInv'
<1> USE DEF IntactInv, IdleInv
<1> DEFINE v == value + 1
           wait == Nothing
           signal == Only("sync", v)
           w == 0
<1>1. /\ pc = "copyin" /\ frame' = frame + 1 /\ pc' = "dispatch"
      /\ Submit(Batch("copyin", frame + 1, 0, frame % 2, wait, signal, "none"), fence)
      /\ UNCHANGED <<done, running, blockIteration, countVars, protocol>> /\ UNCHANGED memoryVars
      /\ UNCHANGED <<value, want, showOriginal, remaining, framePending>>
  BY DEF MetalCopyIn, KeepContext, Sync
<1>2. /\ value \in Nat /\ frame \in Nat /\ index \in Nat /\ total \in Nat /\ want \in Nat /\ syncValue \in Nat
      /\ iteration \in Nat /\ protocol = FALSE
  BY DEF CallerTypes
<1>3. frame + 1 \in Nat /\ frame % 2 \in Nat /\ w \in Nat /\ v \in Nat /\ 0 \in Nat
  BY <1>2
<1>4. /\ WaitsOn(wait, w) /\ Announces(signal, v) /\ "copyin" \in Copies /\ "none" \in {"none", "wrapper"}
      /\ FenceTaken("none")
  BY <1>1 DEF WaitsOn, Announces, Copies, FenceTaken
<1> HIDE DEF wait, signal, w
<1>5. QueueTypes' /\ Fenced' /\ Iteration' /\ Behind' /\ Copied("copyin", frame + 1, 0, frame % 2, wait, w, v, "none")
  BY <1>1, <1>3, <1>4, CopyKeeps
<1>6. PICK b \in Commands :
        /\ Grows(b) /\ b.op = "copyin" /\ b.frame = frame + 1 /\ b.slot = 0 /\ b.layer = frame % 2
        /\ b.after["sync"] = IF v > 0 THEN v ELSE After(Len(batches))["sync"]
  BY ONLY <1>5 DEF Copied
<1>6a. b.after["sync"] = value + 1
  BY <1>2, <1>6
<1>7. /\ first' = first /\ total' = total /\ index' = index /\ iteration' = iteration /\ syncValue' = syncValue
      /\ internalValue' = internalValue /\ unsignaled' = unsignaled /\ fencePending' = fencePending
  BY <1>1 DEF countVars
<1>8. CallerTypes'
  BY <1>1, <1>3, <1>7 DEF CallerTypes
<1>9. Place'
  BY <1>1, <1>2, <1>7 DEF Place, Counting
<1>10. /\ \A j \in 0..Len(batches) : After(j)' = After(j) /\ After(j) \in [Sems -> Nat]
       /\ Len(batches') = Len(batches) + 1 /\ Len(batches) \in Nat
       /\ Unfinished' = Unfinished \cup {Len(batches) + 1}
  <2>1. /\ \A j \in 0..Len(batches) : After(j)' = After(j)
        /\ Len(batches') = Len(batches) + 1 /\ Unfinished' = Unfinished \cup {Len(batches) + 1}
    BY <1>6, Grown
  <2>2. \A j \in 0..Len(batches) : After(j) \in [Sems -> Nat]
    BY AfterTypes
  <2>3. Len(batches) \in Nat
    BY DEF QueueTypes
  <2> QED
    BY <2>1, <2>2, <2>3
<1>11. \A j \in 0..Len(batches) : After(j)["sync"] <= value
  BY <1>1, <1>2 DEF Counted, Counting, Ahead
<1>12. Ahead' = value + 1
  BY <1>1 DEF Ahead
<1>13. Counted'
  <2>1. b.after["sync"] <= value + 1 /\ value <= value + 1 /\ value + 1 \in Nat
    BY <1>2, <1>6a
  <2>2. \A j \in 0..Len(batches') : After(j)'["sync"] <= value + 1
    BY <1>2, <1>6, <1>11, <2>1, BoundGrow
  <2>3. value = syncValue + Partial
    BY <1>1, <1>2 DEF Counted
  <2>4. Partial' = Partial
    BY <1>7 DEF Partial
  <2> QED
    BY <1>1, <1>7, <1>12, <2>2, <2>3, <2>4 DEF Counted
<1>14. done = Len(batches) /\ Unfinished = {}
  <2>1. done = Len(batches)
    BY <1>1 DEF Place
  <2> QED
    BY <1>10, <2>1 DEF Unfinished
<1>15. Recorders'
  <2>1. b.op \in Copies /\ b.slot = 0
    BY <1>6 DEF Copies
  <2>2. /\ \A i, j \in Unfinished' :
             batches'[i].op \in Copies /\ batches'[j].op \in Copies /\ batches'[i].slot = batches'[j].slot => i = j
        /\ \A i \in Unfinished' : batches'[i].op \in Copies => batches'[i].slot <= b.slot
    BY <1>6, <1>14, <2>1, RecordersGrow
  <2>3. Recorded' = 0
    BY <1>1 DEF Recorded
  <2> QED
    BY <2>1, <2>2, <2>3 DEF Recorders
<1>16. Orderly' /\ Held' /\ Logged' /\ Fresh' /\ Memory'
  <2>1. /\ frame = FrameAt(Len(batches)) /\ (batches = <<>> \/ Last.op \notin {"copyin", "main"})
    BY <1>1, <1>2 DEF Logged, Counting
  <2>2. Fits(b)
    <3>1. LayerOf(frame + 1) = frame % 2
      BY <1>2 DEF LayerOf
    <3> QED
      BY <1>6, <2>1, <3>1 DEF Fits
  <2>3. Awaits(b)
    <3>1. \A j \in done..(Len(batches) - 2) : FALSE
      BY <1>10, <1>14
    <3> QED
      BY <1>6, <3>1 DEF Awaits
  <2>4. /\ Orderly' /\ Held' /\ batches' # <<>> /\ Last' = b
        /\ \A k \in Nat : k = Len(batches') => FrameAt(k)' = b.frame
    BY <1>2, <1>6, <2>2, <2>3, LogGrow
  <2>5. Logged'
    BY <1>1, <1>6, <1>10, <2>4 DEF Logged
  <2>6. Fresh'
    <3>1. ASSUME NEW j \in 0..(Len(batches') - 1) PROVE After(j)'["sync"] < Ahead'
      <4>1. j \in 0..Len(batches)
        BY <1>10, <3>1
      <4>2. After(j)' = After(j) /\ After(j)["sync"] \in Nat /\ After(j)["sync"] <= value
        BY <1>10, <1>11, <4>1, Vectors
      <4> QED
        BY <1>2, <1>12, <4>2
    <3> QED
      BY <1>1, <3>1 DEF Fresh
  <2>7. Memory'
    BY <1>1, <1>2, <1>6, MemoryGrow
  <2> QED
    BY <2>4, <2>5, <2>6, <2>7
<1> QED
  BY <1>5, <1>8, <1>9, <1>13, <1>15, <1>16

(* The game's own frame, copied last, carries the fence of the worker.      *)
LEMMA OriginalStep ==
  ASSUME IntactInv, caller = "metal", caller' = caller, Original
  PROVE  IntactInv'
<1> USE DEF IntactInv, IdleInv
<1> DEFINE v == 0
           wait == Nothing
           signal == Nothing
           w == 0
<1>1. /\ pc = "original" /\ pc' = "idle" /\ framePending' = TRUE
      /\ Submit(Batch("original", frame, want + 1, 0, wait, signal, "wrapper"), fence)
      /\ UNCHANGED <<done, running, blockIteration, countVars, protocol>> /\ UNCHANGED memoryVars
      /\ UNCHANGED <<value, frame, want, showOriginal, remaining>>
  BY DEF Original, KeepContext
<1>2. /\ value \in Nat /\ frame \in Nat /\ index \in Nat /\ total \in Nat /\ want \in Nat /\ syncValue \in Nat
      /\ iteration \in Nat /\ protocol = FALSE
  BY DEF CallerTypes
<1>3. frame \in Nat /\ want + 1 \in Nat /\ w \in Nat /\ v \in Nat /\ 0 \in Nat
  BY <1>2
<1>4. /\ WaitsOn(wait, w) /\ Announces(signal, v) /\ "original" \in Copies /\ "wrapper" \in {"none", "wrapper"}
      /\ FenceTaken("wrapper") /\ v = 0
  BY <1>1 DEF WaitsOn, Announces, Copies, FenceTaken, Place
<1> HIDE DEF wait, signal, w, v
<1>5. QueueTypes' /\ Fenced' /\ Iteration' /\ Behind' /\ Copied("original", frame, want + 1, 0, wait, w, v, "wrapper")
  BY <1>1, <1>3, <1>4, CopyKeeps
<1>6. PICK b \in Commands :
        /\ Grows(b) /\ b.op = "original" /\ b.frame = frame /\ b.slot = want + 1 /\ b.fence = "wrapper"
        /\ b.after["sync"] = After(Len(batches))["sync"]
  BY <1>4, <1>5 DEF Copied
<1>7. /\ first' = first /\ total' = total /\ index' = index /\ iteration' = iteration /\ syncValue' = syncValue
      /\ internalValue' = internalValue /\ unsignaled' = unsignaled /\ fencePending' = fencePending
  BY <1>1 DEF countVars
<1>8. CallerTypes'
  BY <1>1, <1>2, <1>7 DEF CallerTypes
<1>10. /\ \A j \in 0..Len(batches) : After(j)' = After(j) /\ After(j) \in [Sems -> Nat]
       /\ Len(batches') = Len(batches) + 1 /\ Len(batches) \in Nat
       /\ Unfinished' = Unfinished \cup {Len(batches) + 1}
       /\ batches'[Len(batches) + 1] = b
  <2>1. /\ \A j \in 0..Len(batches) : After(j)' = After(j)
        /\ Len(batches') = Len(batches) + 1 /\ Unfinished' = Unfinished \cup {Len(batches) + 1}
        /\ batches'[Len(batches) + 1] = b
    BY <1>6, Grown
  <2>2. \A j \in 0..Len(batches) : After(j) \in [Sems -> Nat]
    BY AfterTypes
  <2>3. Len(batches) \in Nat
    BY DEF QueueTypes
  <2> QED
    BY <2>1, <2>2, <2>3
<1>9. Place'
  <2>1. batches'[Len(batches')].fence = "wrapper"
    BY <1>6, <1>10
  <2> QED
    BY <1>1, <1>7, <2>1 DEF Place, Counting
<1>11. \A j \in 0..Len(batches) : After(j)["sync"] <= value
  BY <1>1, <1>2 DEF Counted, Counting, Ahead
<1>12. Ahead' = value
  BY <1>1 DEF Ahead
<1>13. Counted'
  <2>1. b.after["sync"] <= value /\ value <= value
    BY <1>2, <1>6, <1>10, <1>11
  <2>2. \A j \in 0..Len(batches') : After(j)'["sync"] <= value
    BY <1>2, <1>6, <1>11, <2>1, BoundGrow
  <2>3. value = syncValue + Partial
    BY <1>1, <1>2 DEF Counted
  <2>4. Partial' = Partial
    BY <1>7 DEF Partial
  <2> QED
    BY <1>1, <1>7, <1>12, <2>2, <2>3, <2>4 DEF Counted
<1>15. Recorders'
  <2>1. b.op \in Copies /\ b.slot = want + 1
    BY <1>6 DEF Copies
  <2>2. \A i \in Unfinished : batches[i].op \in Copies => batches[i].slot < b.slot
    <3> SUFFICES ASSUME NEW i \in Unfinished, batches[i].op \in Copies PROVE batches[i].slot < b.slot
      OBVIOUS
    <3>1. Recorded = want
      BY <1>1 DEF Recorded
    <3>2. batches[i].slot <= want
      BY <1>1, <3>1 DEF Recorders
    <3>3. batches[i].slot \in Nat
      BY CommandTypes DEF Commands
    <3> QED
      BY <1>2, <2>1, <3>2, <3>3
  <2>3. \A i, j \in Unfinished : batches[i].op \in Copies /\ batches[j].op \in Copies /\ batches[i].slot = batches[j].slot => i = j
    BY DEF Recorders
  <2>4. \A i, j \in Unfinished' :
          batches'[i].op \in Copies /\ batches'[j].op \in Copies /\ batches'[i].slot = batches'[j].slot => i = j
    BY <1>6, <2>1, <2>2, <2>3, RecordersGrow
  <2> QED
    BY <1>1, <2>4 DEF Recorders
<1>16. Orderly' /\ Held' /\ Logged' /\ Fresh' /\ Memory'
  <2>1. /\ frame = FrameAt(Len(batches)) /\ batches # <<>>
    BY <1>1, <1>2 DEF Logged, Counting
  <2>2. Fits(b)
    <3>1. FrameAt(Len(batches)) = Last.frame
      BY <1>10, <2>1 DEF FrameAt, Last, QueueTypes
    <3> QED
      BY <1>6, <2>1, <3>1 DEF Fits
  <2>3. Awaits(b)
    BY <1>6 DEF Awaits
  <2>4. /\ Orderly' /\ Held' /\ batches' # <<>> /\ Last' = b
        /\ \A k \in Nat : k = Len(batches') => FrameAt(k)' = b.frame
    BY <1>2, <1>6, <2>2, <2>3, LogGrow
  <2>5. Logged'
    BY <1>1, <1>6, <1>10, <2>4 DEF Logged
  <2>6. Fresh'
    BY <1>1 DEF Fresh
  <2>7. Memory'
    BY <1>1, <1>2, <1>6, MemoryGrow
  <2> QED
    BY <2>4, <2>5, <2>6, <2>7
<1> QED
  BY <1>5, <1>8, <1>9, <1>13, <1>15, <1>16

(* A new context: an empty log, and a count that begins again.              *)
LEMMA RenewStep ==
  ASSUME IntactInv, caller = "metal", caller' = caller, Renew
  PROVE  IntactInv'
<1> USE DEF IntactInv, IdleInv
<1>1. /\ batches' = <<>> /\ done' = 0 /\ running' = {} /\ pc' = "idle"
      /\ fence' = [fence EXCEPT !["context"] = "idle"]
      /\ source' = [l \in 0..1 |-> 0] /\ output' = <<>> /\ blockIteration' = 0
      /\ first' = TRUE /\ iteration' = 0 /\ total' = 0 /\ index' = 0
      /\ syncValue' = 0 /\ internalValue' = 0 /\ fencePending' = FALSE /\ unsignaled' = FALSE
      /\ value' = 0 /\ frame' = 0 /\ remaining' = 0
      /\ UNCHANGED <<want, protocol, showOriginal, framePending>>
  BY DEF Renew
<1>2. Len(batches') = 0 /\ Unfinished' = {} /\ done' \in 0..Len(batches')
  BY <1>1 DEF Unfinished
<1>3. QueueTypes'
  <2>1. fence' \in [Fences -> {"idle", "pending", "signalled"}]
    BY <1>1 DEF QueueTypes, Fences
  <2>2. batches' \in Seq(Commands)
    BY <1>1
  <2> QED
    BY <1>1, <1>2, <2>1, <2>2 DEF QueueTypes
<1>4. CallerTypes'
  BY <1>1 DEF CallerTypes
<1>5. \A j \in 0..Len(batches') : After(j)'["sync"] = 0 /\ After(j)'["internal"] = 0
  BY <1>2 DEF After, Nothing, Sems
<1>6. Fenced' /\ Iteration' /\ Behind'
  BY <1>1, <1>2, <1>5 DEF Fenced, Iteration, Behind
<1>7. Partial' = 0 /\ Ahead' = 0
  BY <1>1 DEF Partial, Ahead
<1>8. Counted'
  BY <1>1, <1>5, <1>7 DEF Counted
<1>9. Place'
  BY <1>1 DEF Place, Counting
<1>10. Recorders'
  BY <1>1, <1>2 DEF Recorders
<1>11. Orderly' /\ Held'
  BY <1>2 DEF Orderly, Held
<1>12. Logged'
  BY <1>1, <1>2 DEF Logged, FrameAt
<1>13. Fresh'
  BY <1>1 DEF Fresh
<1>14. Memory'
  <2>1. FrameAt(done)' = 0
    BY <1>1 DEF FrameAt
  <2>2. SourceOf(FrameAt(done))'
    BY <1>1, <2>1 DEF SourceOf, Holds, LayerOf
  <2>3. \A i : ~Begun(i)'
    BY <1>1 DEF Begun
  <2>4. FramesIntact'
    BY <1>1 DEF FramesIntact
  <2> QED
    BY <1>1, <2>2, <2>3, <2>4 DEF Memory
<1> QED
  BY <1>3, <1>4, <1>6, <1>8, <1>9, <1>10, <1>11, <1>12, <1>13, <1>14

-----------------------------------------------------------------------------
(* The steps that submit nothing leave the log and the memory as they are.  *)
LEMMA QuietIntact ==
  ASSUME IntactInv, IdleInv', UNCHANGED <<batches, done, running, caller, protocol, frame, value, index, internalValue>>,
         UNCHANGED memoryVars,
         pc' = pc \/ pc' \notin Counting \/ <<pc, pc'>> \in {<<"acquire", "idle">>, <<"idle", "settle">>, <<"settle", "copyin">>}
  PROVE  IntactInv'
<1> SUFFICES ASSUME ~protocol PROVE Orderly' /\ Held' /\ Logged' /\ Fresh' /\ Memory'
  BY DEF IntactInv
<1>1. QueueTypes /\ Orderly /\ Held /\ Logged /\ Fresh /\ Memory
  BY DEF IntactInv, IdleInv
<1>2. Unfinished' = Unfinished /\ \A j \in 0..Len(batches) : After(j)' = After(j)
  BY <1>1, QuietLog
<1>3. Len(batches) \in Nat /\ done \in 0..Len(batches) /\ \A i \in Unfinished : i \in 1..Len(batches)
  BY <1>1, CommandTypes DEF QueueTypes
<1>4. \A i \in 0..Len(batches) : FrameAt(i)' = FrameAt(i)
  BY DEF FrameAt
<1>5. Orderly'
  <2>1. \A i \in 1..Len(batches) : FrameAt(i - 1)' = FrameAt(i - 1)
    BY <1>3, <1>4
  <2>2. \A i \in 1..Len(batches) : Follows(i)' <=> Follows(i)
    BY <2>1 DEF Follows
  <2> QED
    BY <1>1, <2>2 DEF Orderly
<1>6. Held'
  <2>1. ASSUME NEW i \in Unfinished, NEW j \in done..(i - 2) PROVE Blocked(i, j)' <=> Blocked(i, j)
    <3>1. j \in 0..Len(batches)
      BY <1>3, <2>1
    <3> QED
      BY <1>2, <3>1 DEF Blocked
  <2>2. \A i \in Unfinished : \A j \in done..(i - 3) : j \in done..(i - 2)
    BY <1>3
  <2>3. ASSUME NEW i \in Unfinished'
        PROVE  /\ batches'[i].op \in {"prepass", "main", "copyout"} => \A j \in done'..(i - 2) : Blocked(i, j)'
               /\ batches'[i].op = "copyin" => \A j \in done'..(i - 3) : Blocked(i, j)'
    BY <1>1, <1>2, <2>1, <2>2 DEF Held
  <2> QED
    BY <2>3 DEF Held
<1>7. Last' = Last /\ FrameAt(Len(batches))' = FrameAt(Len(batches)) /\ batches' = batches
  BY DEF Last, FrameAt
<1>8. ASSUME pc' = pc PROVE Logged' /\ Fresh'
  <2>1. Ahead' = Ahead
    BY <1>8 DEF Ahead
  <2>2. Logged'
    BY <1>1, <1>7, <1>8 DEF Logged
  <2>3. \A j \in 0..(Len(batches) - 1) : After(j)' = After(j)
    BY <1>2, <1>3
  <2>4. \A j \in 0..(Len(batches) - 2) : After(j)' = After(j)
    BY <1>2, <1>3
  <2>5. Fresh'
    BY <1>1, <1>8, <2>1, <2>3, <2>4 DEF Fresh
  <2> QED
    BY <2>2, <2>5
<1>9. ASSUME pc' \notin Counting PROVE Logged' /\ Fresh'
  BY <1>9 DEF Logged, Fresh, Counting
<1>10. ASSUME <<pc, pc'>> \in {<<"acquire", "idle">>, <<"idle", "settle">>, <<"settle", "copyin">>} PROVE Logged' /\ Fresh'
  <2>1. \/ pc = "acquire" /\ pc' = "idle"
        \/ pc = "idle" /\ pc' = "settle"
        \/ pc = "settle" /\ pc' = "copyin"
    BY <1>10
  <2>2. Logged'
    BY <1>1, <1>7, <2>1 DEF Logged, Counting
  <2>3. \A j \in 0..(Len(batches) - 2) : After(j)' = After(j)
    BY <1>2, <1>3
  <2>4. Fresh'
    BY <1>1, <2>1, <2>3 DEF Fresh
  <2> QED
    BY <2>2, <2>4
<1>11. Memory'
  <2>1. /\ Copying' <=> Copying
        /\ FrameAt(done)' = FrameAt(done)
        /\ \A i : Begun(i)' <=> Begun(i)
    BY DEF Copying, Begun, FrameAt
  <2>2. /\ \A f : SourceOf(f)' <=> SourceOf(f)
        /\ FramesIntact' <=> FramesIntact
    BY DEF SourceOf, memoryVars, FramesIntact
  <2>3. source' = source /\ features' = features /\ destination' = destination /\ output' = output
    BY DEF memoryVars
  <2> QED
    BY <1>1, <2>1, <2>2, <2>3 DEF Memory, Image
<1> QED
  BY <1>5, <1>6, <1>8, <1>9, <1>10, <1>11

(* The validator's steps of that kind.                                      *)
LEMMA ValidateRests ==
  ASSUME IntactInv, caller = "validate", caller' = caller, UNCHANGED wrapperVars,
         Abandon \/ Close \/ Drop \/ Dropped
  PROVE  IntactInv'
<1>1. IdleInv'
  BY ValidateQuiet DEF IntactInv
<1>2. /\ UNCHANGED <<batches, done, running, caller, protocol, frame, value, index, internalValue>>
      /\ UNCHANGED memoryVars
      /\ pc' = pc \/ pc' \notin Counting \/ <<pc, pc'>> \in {<<"acquire", "idle">>, <<"idle", "settle">>, <<"settle", "copyin">>}
  <2>1. CASE Abandon
    BY <2>1 DEF Abandon, contextVars, queueVars, countVars
  <2>2. CASE Close
    BY <2>2 DEF Close, contextVars, queueVars, countVars, Counting
  <2>3. CASE Drop
    BY <2>3 DEF Drop, Counting
  <2>4. CASE Dropped
    BY <2>4 DEF Dropped, vars, contextVars, queueVars, countVars, callerVars
  <2> QED
    BY <2>1, <2>2, <2>3, <2>4
<1> QED
  BY <1>1, <1>2, QuietIntact

(* The worker's take of a frame, its waits and its ends.                    *)
LEMMA MetalRests ==
  ASSUME IntactInv, caller = "metal", caller' = caller,
         (\E p \in Plans : Take(p)) \/ FrameSettled \/ GiveUp \/ Drain \/ (Drop /\ UNCHANGED wrapperVars) \/ Done
  PROVE  IntactInv'
<1>1. IdleInv'
  BY MetalQuiet DEF IntactInv
<1>2. /\ UNCHANGED <<batches, done, running, caller, protocol, frame, value, index, internalValue>>
      /\ UNCHANGED memoryVars
      /\ pc' = pc \/ pc' \notin Counting \/ <<pc, pc'>> \in {<<"acquire", "idle">>, <<"idle", "settle">>, <<"settle", "copyin">>}
  <2>1. CASE \E p \in Plans : Take(p)
    BY <2>1 DEF Take, contextVars, queueVars, countVars
  <2>2. CASE FrameSettled
    BY <2>2 DEF FrameSettled, countVars
  <2>3. CASE GiveUp \/ Drain
    BY <2>3 DEF GiveUp, Drain, contextVars, queueVars, countVars, Counting
  <2>4. CASE Drop
    BY <2>4 DEF Drop, Counting
  <2>5. CASE Done
    BY <2>5 DEF Done, vars, contextVars, queueVars, countVars, callerVars
  <2> QED
    BY <2>1, <2>2, <2>3, <2>4, <2>5
<1> QED
  BY <1>1, <1>2, QuietIntact

-----------------------------------------------------------------------------
(* The GPU moves on: there is less to wait for, and the log stays.          *)
LEMMA GpuLog ==
  ASSUME IntactInv, UNCHANGED <<batches, blockIteration, caller>>, UNCHANGED countVars,
         UNCHANGED callerVars, UNCHANGED wrapperVars,
         done' \in {done, done + 1}, done' <= Len(batches), running' \subseteq Unfinished',
         fence' \in [Fences -> {"idle", "pending", "signalled"}],
         \A i \in Unfinished' : batches[i].fence # "none" => fence'[batches[i].fence] = fence[batches[i].fence]
  PROVE  IdleInv' /\ (~protocol => Orderly' /\ Held' /\ Logged' /\ Fresh')
<1> USE DEF IntactInv, IdleInv
<1>1. /\ UNCHANGED <<value, frame, want, protocol, pc, showOriginal, remaining, framePending>>
      /\ UNCHANGED <<first, iteration, total, index, syncValue, internalValue, unsignaled, fencePending>>
  BY DEF callerVars, wrapperVars, countVars
<1>2. /\ Len(batches) \in Nat /\ done \in 0..Len(batches) /\ done' \in 0..Len(batches) /\ done <= done'
      /\ batches \in Seq(Commands)
  BY DEF QueueTypes
<1>3. Unfinished' \subseteq Unfinished /\ \A i \in Unfinished : i \in 1..Len(batches) /\ i \in Nat
  BY <1>2 DEF Unfinished
<1>4. \A j \in 0..Len(batches) : After(j)' = After(j)
  BY DEF After
<1>5. /\ \A i \in Unfinished : \A j \in done'..(i - 1) : j \in done..(i - 1) /\ After(j)' = After(j)
      /\ \A i \in Unfinished : \A j \in done'..(i - 2) : j \in done..(i - 2) /\ After(j)' = After(j)
      /\ \A i \in Unfinished : \A j \in done'..(i - 3) : j \in done..(i - 3) /\ After(j)' = After(j)
  <2> SUFFICES ASSUME NEW i \in Unfinished, NEW j \in done'..(i - 1) PROVE j \in done..(i - 1) /\ After(j)' = After(j)
    BY <1>2, <1>3
  <2>1. j \in done..(i - 1) /\ j \in 0..Len(batches)
    BY <1>2, <1>3
  <2> QED
    BY <1>4, <2>1
<1>6. QueueTypes'
  BY <1>2 DEF QueueTypes
<1>7. CallerTypes'
  BY <1>1 DEF CallerTypes
<1>8. Fenced'
  <2>1. ASSUME NEW i \in Unfinished', NEW j \in Unfinished', batches'[i].fence = batches'[j].fence
        PROVE  i = j \/ batches'[i].fence = "none"
    BY <1>3, <2>1 DEF Fenced
  <2>2. ASSUME NEW i \in Unfinished'
        PROVE  /\ batches'[i].fence = "context" => fencePending' /\ fence'["context"] # "signalled"
               /\ batches'[i].fence = "wrapper" => framePending' /\ fence'["wrapper"] # "signalled"
    BY <1>1, <1>3 DEF Fenced
  <2> QED
    BY <2>1, <2>2 DEF Fenced
<1>9. Iteration'
  <2>1. ASSUME NEW i \in Unfinished', batches'[i].op \in Passes, fencePending'
        PROVE  \E k \in i..Len(batches') : batches'[k].fence = "context"
    BY <1>1, <1>3, <2>1 DEF Iteration
  <2>2. ASSUME NEW i \in Unfinished', batches'[i].op \in Passes
        PROVE  ~first' /\ batches'[i].frame = iteration' + 1
    BY <1>1, <1>3, <2>2 DEF Iteration
  <2>3. ASSUME NEW i \in Unfinished', batches'[i].op = "main"
        PROVE  /\ batches'[i].slot \in 1..index'
               /\ \A j \in Unfinished' : batches'[j].op = "main" /\ batches'[i].slot = batches'[j].slot => i = j
    BY <1>1, <1>3, <2>3 DEF Iteration
  <2>4. /\ first' => total' = 0 /\ index' = 0
        /\ ~first' => unsignaled' = protocol' /\ blockIteration' = iteration'
        /\ index' <= total'
        /\ fencePending' => index' = total'
    BY <1>1 DEF Iteration
  <2> QED
    BY <2>1, <2>2, <2>3, <2>4 DEF Iteration
<1>10. Behind'
  <2>1. \A j \in 0..Len(batches') : After(j)'["internal"] <= internalValue'
    BY <1>1, <1>4 DEF Behind
  <2>2. ASSUME NEW i \in Unfinished', batches'[i].op = "prepass", NEW j \in done'..(i - 1)
        PROVE  After(j)'["internal"] < internalValue'
    BY <1>1, <1>3, <1>5, <2>2 DEF Behind
  <2>3. ASSUME ~protocol', NEW i \in Unfinished', batches'[i].op = "main", NEW j \in done'..(i - 1)
        PROVE  After(j)'["sync"] < syncValue'
    BY <1>1, <1>3, <1>5, <2>3 DEF Behind
  <2> QED
    BY <2>1, <2>2, <2>3 DEF Behind
<1>11. Ahead' = Ahead /\ Partial' = Partial
  BY <1>1 DEF Ahead, Partial
<1>12. Counted'
  BY <1>1, <1>4, <1>11 DEF Counted
<1>13. Place'
  <2>1. done = Len(batches) => done' = Len(batches')
    BY <1>2
  <2> QED
    BY <1>1, <2>1 DEF Place
<1>14. Recorders'
  <2>1. Recorded' = Recorded
    BY <1>1 DEF Recorded
  <2> QED
    BY <1>1, <1>3, <2>1 DEF Recorders
<1>15. ASSUME ~protocol PROVE Orderly' /\ Held' /\ Logged' /\ Fresh'
  <2>1. Orderly /\ Held /\ Logged /\ Fresh
    BY <1>15
  <2>2. Orderly'
    <3>1. \A i \in 1..Len(batches) : FrameAt(i - 1)' = FrameAt(i - 1)
      BY DEF FrameAt
    <3>2. \A i \in 1..Len(batches) : Follows(i)' <=> Follows(i)
      BY <3>1 DEF Follows
    <3> QED
      BY <2>1, <3>2 DEF Orderly
  <2>3. Held'
    <3>1. ASSUME NEW i \in Unfinished, NEW j \in done'..(i - 2) PROVE Blocked(i, j)' <=> Blocked(i, j)
      BY <1>5 DEF Blocked
    <3>2. ASSUME NEW i \in Unfinished, NEW j \in done'..(i - 3) PROVE Blocked(i, j)' <=> Blocked(i, j)
      BY <1>5 DEF Blocked
    <3>3. ASSUME NEW i \in Unfinished'
          PROVE  /\ batches'[i].op \in {"prepass", "main", "copyout"} => \A j \in done'..(i - 2) : Blocked(i, j)'
                 /\ batches'[i].op = "copyin" => \A j \in done'..(i - 3) : Blocked(i, j)'
      BY <1>3, <1>5, <2>1, <3>1, <3>2 DEF Held
    <3> QED
      BY <3>3 DEF Held
  <2>4. Last' = Last /\ FrameAt(Len(batches))' = FrameAt(Len(batches)) /\ batches' = batches
    BY DEF Last, FrameAt
  <2>5. Logged'
    BY <1>1, <2>1, <2>4 DEF Logged
  <2>6. Fresh'
    <3>1. /\ \A j \in 0..(Len(batches) - 1) : After(j)' = After(j)
          /\ \A j \in 0..(Len(batches) - 2) : After(j)' = After(j)
      BY <1>2, <1>4
    <3> QED
      BY <1>1, <1>11, <2>1, <3>1 DEF Fresh
  <2> QED
    BY <2>2, <2>3, <2>5, <2>6
<1> QED
  BY <1>6, <1>7, <1>8, <1>9, <1>10, <1>12, <1>13, <1>14, <1>15

(* A pass reads and writes frame numbers of that kind.                      *)
LEMMA EffectTypes ==
  ASSUME MemoryTypes, NEW b \in Commands, b.op # "original", blockIteration \in Nat \/ b.op \notin Passes, Effect(b)
  PROVE  /\ source' \in [0..1 -> Nat] /\ features' \in Nat \X Nat /\ destination' \in Images
         /\ output' \in Seq([frame : Nat, slot : Nat, image : Images])
<1>1. b.op \in {"copyin", "prepass", "main", "copyout"} /\ b.frame \in Nat /\ b.layer \in Nat /\ b.slot \in Nat
  BY DEF Commands
<1>2. blockIteration \in Nat => Current \in Nat /\ Previous \in Nat
  <2> SUFFICES ASSUME blockIteration \in Nat PROVE Current \in Nat /\ Previous \in Nat
    OBVIOUS
  <2>1. blockIteration % 2 \in 0..1 /\ 1 - (blockIteration % 2) \in 0..1
    OBVIOUS
  <2> QED
    BY <2>1 DEF Current, Previous, MemoryTypes
<1>3. CASE b.op = "copyin"
  <2>1. source' = [source EXCEPT ![b.layer] = b.frame] /\ UNCHANGED <<features, destination, output>>
    BY <1>3 DEF Effect
  <2> QED
    BY <1>1, <2>1 DEF MemoryTypes
<1>4. CASE b.op = "prepass"
  <2>1. features' = <<Previous, Current>> /\ UNCHANGED <<source, destination, output>>
    BY <1>4 DEF Effect
  <2>2. Current \in Nat /\ Previous \in Nat
    BY <1>2, <1>4 DEF Passes
  <2> QED
    BY <2>1, <2>2 DEF MemoryTypes
<1>5. CASE b.op = "main"
  <2>1. /\ destination' = [pair |-> <<Previous, Current>>, of |-> features, slot |-> b.slot]
        /\ UNCHANGED <<source, features, output>>
    BY <1>5 DEF Effect
  <2>2. Current \in Nat /\ Previous \in Nat
    BY <1>2, <1>5 DEF Passes
  <2>3. destination' \in Images
    BY <1>1, <2>1, <2>2 DEF MemoryTypes, Images
  <2> QED
    BY <2>1, <2>3 DEF MemoryTypes
<1>6. CASE b.op = "copyout"
  <2>1. /\ output' = Append(output, [frame |-> b.frame, slot |-> b.slot, image |-> destination])
        /\ UNCHANGED <<source, features, destination>>
    BY <1>6 DEF Effect
  <2>2. [frame |-> b.frame, slot |-> b.slot, image |-> destination] \in [frame : Nat, slot : Nat, image : Images]
    BY <1>1 DEF MemoryTypes
  <2>3. output' \in Seq([frame : Nat, slot : Nat, image : Images])
    BY <2>1, <2>2, AppendProperties DEF MemoryTypes
  <2> QED
    BY <2>1, <2>3 DEF MemoryTypes
<1> QED
  BY <1>1, <1>3, <1>4, <1>5, <1>6

(* When a command may start.                                                *)
LEMMA StartsLate ==
  ASSUME QueueTypes, Held, NEW i \in Unfinished, Ready(i)
  PROVE  /\ batches[i].op \in {"prepass", "main", "copyout"} => i = done + 1
         /\ batches[i].op = "copyin" => i \in {done + 1, done + 2}
<1>1. /\ Len(batches) \in Nat /\ done \in 0..Len(batches) /\ i \in 1..Len(batches) /\ batches[i] \in Commands
      /\ done < i /\ i \in Nat
  BY CommandTypes DEF QueueTypes, Unfinished
<1>2. After(done) \in [Sems -> Nat] /\ batches[i].wait \in [Sems -> Nat]
  BY <1>1, AfterTypes DEF Commands
<1>3. ~Blocked(i, done)
  <2> SUFFICES ASSUME NEW s \in Sems, After(done)[s] < batches[i].wait[s] PROVE FALSE
    BY DEF Blocked
  <2>1. batches[i].wait[s] <= After(done)[s]
    BY DEF Ready, Payload
  <2>2. After(done)[s] \in Nat /\ batches[i].wait[s] \in Nat
    BY <1>2
  <2> QED
    BY <2>1, <2>2
<1>4. ASSUME batches[i].op \in {"prepass", "main", "copyout"} PROVE i = done + 1
  <2>1. done \notin done..(i - 2)
    BY <1>3, <1>4 DEF Held
  <2> QED
    BY <1>1, <2>1
<1>5. ASSUME batches[i].op = "copyin" PROVE i \in {done + 1, done + 2}
  <2>1. done \notin done..(i - 3)
    BY <1>3, <1>5 DEF Held
  <2> QED
    BY <1>1, <2>1
<1> QED
  BY <1>4, <1>5

(* What stands before a command that follows the one done.                  *)
LEMMA NextInLog ==
  ASSUME QueueTypes, Orderly, NEW i \in 1..Len(batches), i = done + 1
  PROVE  /\ FrameAt(done) \in Nat
         /\ batches[i].op = "copyin" => batches[i].frame = FrameAt(done) + 1 /\ batches[i].layer = LayerOf(FrameAt(done) + 1)
         /\ batches[i].op # "copyin" => /\ done \in 1..Len(batches) /\ FrameAt(done) = batches[done].frame
                                        /\ batches[i].frame = FrameAt(done)
         /\ batches[i].op = "prepass" => batches[done].op = "copyin"
         /\ batches[i].op = "main" => batches[done].op \in {"prepass", "copyout"}
         /\ batches[i].op = "copyout" => batches[done].op = "main" /\ batches[i].slot = batches[done].slot
<1>1. Len(batches) \in Nat /\ done \in 0..Len(batches) /\ i - 1 = done /\ Follows(i)
  BY DEF QueueTypes, Orderly
<1>2. FrameAt(done) \in Nat
  BY <1>1, CommandTypes DEF FrameAt, Commands
<1>3. batches[i].op # "copyin" => done \in 1..Len(batches) /\ FrameAt(done) = batches[done].frame
  BY <1>1 DEF Follows, FrameAt
<1> QED
  BY <1>1, <1>2, <1>3 DEF Follows

(* And before a copy in that starts one command early.                      *)
LEMMA CopyInLog ==
  ASSUME QueueTypes, Orderly, NEW i \in 1..Len(batches), i = done + 2, batches[i].op = "copyin"
  PROVE  /\ batches[done + 1].op \notin {"copyin", "main"}
         /\ batches[i].frame = FrameAt(done) + 1 /\ batches[i].layer = LayerOf(FrameAt(done) + 1)
<1>1. /\ Len(batches) \in Nat /\ done \in 0..Len(batches) /\ i - 1 = done + 1 /\ Follows(i) /\ i > 1
      /\ done + 1 \in 1..Len(batches) /\ done + 1 # 0
  BY DEF QueueTypes, Orderly
<1>2. batches[done + 1].op \notin {"copyin", "main"} /\ batches[i].frame = FrameAt(done + 1) + 1
      /\ batches[i].layer = LayerOf(batches[i].frame)
  BY <1>1 DEF Follows
<1>3. batches[done + 1].frame = FrameAt(done)
  BY <1>1, <1>2, NextInLog
<1>4. FrameAt(done + 1) = FrameAt(done)
  BY <1>1, <1>3 DEF FrameAt
<1> QED
  BY <1>2, <1>4

(* A copy in starts: nothing that is left reads the layer it writes.        *)
LEMMA CopyInBegins ==
  ASSUME QueueTypes, MemoryTypes, Orderly, Held, Memory, UNCHANGED <<batches, done>>,
         NEW i \in Unfinished \ running, Ready(i), running' = running \cup {i},
         batches[i].op = "copyin", Effect(batches[i])
  PROVE  Memory'
<1> DEFINE f == FrameAt(done)
<1>1. /\ Len(batches) \in Nat /\ done \in 0..Len(batches) /\ i \in 1..Len(batches) /\ i \in {done + 1, done + 2}
      /\ \A k \in running : k \in 1..Len(batches) /\ k > done
  <2>1. i \in {done + 1, done + 2}
    BY StartsLate
  <2>2. Len(batches) \in Nat /\ done \in 0..Len(batches) /\ running \subseteq Unfinished
    BY DEF QueueTypes
  <2>3. \A k \in Unfinished : k \in 1..Len(batches) /\ k > done
    BY <2>2 DEF Unfinished
  <2> QED
    BY <2>1, <2>2, <2>3
<1>2. ~Copying
  <2> SUFFICES ASSUME NEW k \in running, batches[k].op = "copyin" PROVE FALSE
    BY DEF Copying
  <2>1. k <= done + 2 /\ k # i
    BY DEF Memory
  <2>2. /\ {i, k} = {done + 1, done + 2}
        /\ batches[done + 1].op = "copyin" /\ batches[done + 2].op = "copyin" /\ done + 2 \in 1..Len(batches)
    BY <1>1, <2>1
  <2> QED
    BY <2>2, CopyInLog
<1>3. f \in Nat /\ batches[i].frame = f + 1 /\ batches[i].layer = LayerOf(f + 1)
  <2>1. done + 1 \in 1..Len(batches)
    BY <1>1
  <2>2. f \in Nat
    BY <2>1, NextInLog
  <2>3. CASE i = done + 1
    BY <1>1, <2>2, <2>3, NextInLog
  <2>4. CASE i = done + 2
    BY <1>1, <2>2, <2>4, CopyInLog
  <2> QED
    BY <1>1, <2>3, <2>4
<1>4. SourceOf(f)
  BY <1>2 DEF Memory
<1>5. source' = [source EXCEPT ![LayerOf(f + 1)] = f + 1] /\ UNCHANGED <<features, destination, output>>
  BY <1>3 DEF Effect
<1>6. LayerOf(f + 1) \in 0..1 /\ LayerOf(f) # LayerOf(f + 1) /\ f + 1 - 1 = f
  <2>1. f \in Nat /\ f + 1 - 1 = f
    BY <1>3
  <2> HIDE DEF f
  <2> QED
    BY <2>1, NextLayer
<1> HIDE DEF f
<1>7. Holds(source', f + 1)
  <2>1. source'[LayerOf(f + 1)] = f + 1
    BY <1>5, <1>6 DEF MemoryTypes
  <2>2. source'[LayerOf(f)] = f
    <3>1. source[LayerOf(f)] = f
      BY <1>4 DEF SourceOf, Holds
    <3> QED
      BY <1>3, <1>5, <1>6, <3>1, Layers DEF MemoryTypes
  <2> QED
    BY <1>3, <1>6, <2>1, <2>2 DEF Holds
<1>8. Copying'
  BY DEF Copying
<1>9. \A k \in running' : /\ batches'[k].op = "copyin" => k <= done' + 2
                          /\ batches'[k].op \in {"prepass", "main", "copyout"} => k = done' + 1
  BY <1>1 DEF Memory
<1>10. \A k \in running' : batches'[k].op = "copyin" => SourceOf(batches[k].frame)'
  <2>1. \A k \in running' : batches'[k].op = "copyin" => Holds(source', batches'[k].frame)
    BY <1>2, <1>3, <1>7 DEF Copying
  <2> QED
    BY <2>1 DEF SourceOf, Holds, LayerOf
<1>11. \A k \in {done, done + 1} :
         Begun(k)' /\ batches[k].op = "main" => destination' = Image(batches[k])
  BY <1>5 DEF Begun, Memory
<1>12. FramesIntact'
  BY <1>5 DEF Memory, FramesIntact
<1> QED
  BY <1>8, <1>9, <1>10, <1>11, <1>12 DEF Memory, Image, Pair

(* A pass or a copy out starts: what it reads is of its own frame.          *)
LEMMA PassBegins ==
  ASSUME QueueTypes, CallerTypes, MemoryTypes, Iteration, Orderly, Held, Memory, UNCHANGED <<batches, done>>,
         NEW i \in Unfinished \ running, Ready(i), running' = running \cup {i},
         batches[i].op \in {"prepass", "main", "copyout"}, Effect(batches[i])
  PROVE  Memory'
<1> DEFINE f == FrameAt(done)
<1>1. /\ Len(batches) \in Nat /\ done \in 0..Len(batches) /\ i \in 1..Len(batches) /\ i = done + 1
      /\ \A k \in running : k \in 1..Len(batches) /\ k > done
  <2>1. i = done + 1
    BY StartsLate
  <2>2. Len(batches) \in Nat /\ done \in 0..Len(batches) /\ running \subseteq Unfinished
    BY DEF QueueTypes
  <2>3. \A k \in Unfinished : k \in 1..Len(batches) /\ k > done
    BY <2>2 DEF Unfinished
  <2> QED
    BY <2>1, <2>2, <2>3
<1>2. /\ f \in Nat /\ done \in 1..Len(batches) /\ f = batches[done].frame /\ batches[i].frame = f
      /\ batches[i].op = "prepass" => batches[done].op = "copyin"
      /\ batches[i].op = "main" => batches[done].op \in {"prepass", "copyout"}
      /\ batches[i].op = "copyout" => batches[done].op = "main" /\ batches[i].slot = batches[done].slot
  BY <1>1, NextInLog
<1>3. Begun(done)
  BY <1>2 DEF Begun
<1>4. Copying' <=> Copying
  BY DEF Copying
<1>5. \A k \in running' : /\ batches'[k].op = "copyin" => k <= done' + 2
                          /\ batches'[k].op \in {"prepass", "main", "copyout"} => k = done' + 1
  BY <1>1 DEF Memory
<1>6. ASSUME source' = source
      PROVE  /\ \A k \in running' : batches'[k].op = "copyin" => SourceOf(batches[k].frame)'
             /\ ~Copying' => SourceOf(FrameAt(done))'
  <2>1. \A x : Holds(source', x) <=> Holds(source, x)
    BY <1>6
  <2>2. \A k \in running' : batches'[k].op = "copyin" => Holds(source', batches[k].frame)
    BY <2>1 DEF Memory, SourceOf
  <2>3. ~Copying' => Holds(source', FrameAt(done))
    BY <1>4, <2>1 DEF Memory, SourceOf
  <2>4. FrameAt(done)' = FrameAt(done)
    BY DEF FrameAt
  <2> QED
    BY <2>2, <2>3, <2>4 DEF SourceOf, Holds, LayerOf
<1>7. ASSUME batches[i].op \in {"prepass", "main"}, ~Copying
      PROVE  Previous = f - 1 /\ Current = f
  <2>1. Holds(source, f)
    BY <1>7 DEF Memory, SourceOf
  <2>2. blockIteration = iteration /\ f = iteration + 1 /\ iteration \in Nat
    BY <1>2, <1>7 DEF Iteration, Passes, CallerTypes
  <2> HIDE DEF f
  <2>3. f \in Nat /\ f > 0 /\ blockIteration = f - 1
    BY <2>2
  <2>4. LayerOf(f) = blockIteration % 2 /\ LayerOf(f - 1) = 1 - (blockIteration % 2)
    BY <2>3, Layers
  <2> QED
    BY <2>1, <2>3, <2>4 DEF Holds, Previous, Current
<1>8. CASE batches[i].op = "prepass"
  <2>1. features' = <<Previous, Current>> /\ UNCHANGED <<source, destination, output>>
    BY <1>8 DEF Effect
  <2>2. ~Copying' => features' = Pair(f)
    BY <1>4, <1>7, <1>8, <2>1 DEF Pair
  <2>3. ~Copying' => \A k \in {done, done + 1} :
          Begun(k)' /\ batches[k].op \in {"prepass", "main", "copyout"} => features' = Pair(batches[k].frame)
    BY <1>1, <1>2, <1>8, <2>2
  <2>4. \A k \in {done, done + 1} :
          Begun(k)' /\ batches[k].op = "main" => destination' = Image(batches[k])
    BY <1>1, <1>2, <1>8
  <2>5. FramesIntact'
    BY <2>1 DEF Memory, FramesIntact
  <2> QED
    BY <1>5, <1>6, <2>1, <2>3, <2>4, <2>5 DEF Memory, Image, Pair
<1>9. CASE batches[i].op = "main"
  <2>1. ~Copying
    <3> SUFFICES ASSUME NEW k \in running, batches[k].op = "copyin" PROVE FALSE
      BY DEF Copying
    <3>1. k = done + 2 /\ k \in 1..Len(batches)
      BY <1>1, <1>9 DEF Memory
    <3> QED
      BY <1>1, <1>9, <3>1, CopyInLog
  <2>2. /\ destination' = [pair |-> <<Previous, Current>>, of |-> features, slot |-> batches[i].slot]
        /\ UNCHANGED <<source, features, output>>
    BY <1>9 DEF Effect
  <2>3. features = Pair(f)
    BY <1>2, <1>3, <1>9, <2>1 DEF Memory
  <2>4. destination' = Image(batches[i])
    BY <1>2, <1>7, <1>9, <2>1, <2>2, <2>3 DEF Image, Pair
  <2>5. \A k \in {done, done + 1} :
          Begun(k)' /\ batches[k].op \in {"prepass", "main", "copyout"} => features' = Pair(batches[k].frame)
    BY <1>1, <1>2, <2>2, <2>3
  <2>6. \A k \in {done, done + 1} :
          Begun(k)' /\ batches[k].op = "main" => destination' = Image(batches[k])
    BY <1>1, <1>2, <1>9, <2>4
  <2>7. FramesIntact'
    BY <2>2 DEF Memory, FramesIntact
  <2> QED
    BY <1>5, <1>6, <2>2, <2>5, <2>6, <2>7 DEF Memory, Image, Pair
<1>10. CASE batches[i].op = "copyout"
  <2>1. /\ output' = Append(output, [frame |-> batches[i].frame, slot |-> batches[i].slot, image |-> destination])
        /\ UNCHANGED <<source, features, destination>>
    BY <1>10 DEF Effect
  <2>2. destination = Image(batches[done]) /\ Image(batches[i]) = Image(batches[done])
    BY <1>2, <1>3, <1>10 DEF Memory, Image
  <2>3. ~Copying => \A k \in {done, done + 1} :
          batches[k].op \in {"prepass", "main", "copyout"} => features' = Pair(batches[k].frame)
    <3>1. ~Copying => features = Pair(f)
      BY <1>2, <1>3, <1>10 DEF Memory
    <3> QED
      BY <1>1, <1>2, <2>1, <3>1
  <2>4. \A k \in {done, done + 1} : batches[k].op = "main" => destination' = Image(batches[k])
    BY <1>1, <1>10, <2>1, <2>2
  <2>5. FramesIntact'
    <3>1. /\ Len(output') = Len(output) + 1 /\ Len(output) \in Nat
          /\ \A k \in 1..Len(output) : output'[k] = output[k]
          /\ output'[Len(output) + 1] = [frame |-> batches[i].frame, slot |-> batches[i].slot, image |-> destination]
      BY <2>1 DEF MemoryTypes
    <3>2. ASSUME NEW k \in 1..Len(output')
          PROVE  output'[k].image = [pair |-> <<output'[k].frame - 1, output'[k].frame>>,
                                     of |-> <<output'[k].frame - 1, output'[k].frame>>, slot |-> output'[k].slot]
      <4>1. CASE k \in 1..Len(output)
        BY <3>1, <4>1 DEF Memory, FramesIntact
      <4>2. CASE k = Len(output) + 1
        BY <2>2, <3>1, <4>2 DEF Image, Pair
      <4> QED
        BY <3>1, <4>1, <4>2
    <3> QED
      BY <3>2 DEF FramesIntact
  <2> QED
    BY <1>4, <1>5, <1>6, <2>1, <2>3, <2>4, <2>5 DEF Memory, Image, Pair
<1> QED
  BY <1>8, <1>9, <1>10

(* A copy of the game's own frame takes nothing of the context.             *)
LEMMA OriginalBegins ==
  ASSUME QueueTypes, Memory, UNCHANGED <<batches, done>>, UNCHANGED memoryVars,
         NEW i \in Unfinished \ running, running' = running \cup {i}, batches[i].op = "original"
  PROVE  Memory'
<1>1. Copying' <=> Copying
  BY DEF Copying
<1>2. source' = source /\ features' = features /\ destination' = destination /\ output' = output
  BY DEF memoryVars
<1>3. FrameAt(done)' = FrameAt(done)
  BY DEF FrameAt
<1>4. /\ \A k \in running' : /\ batches'[k].op = "copyin" => k <= done' + 2
                             /\ batches'[k].op \in {"prepass", "main", "copyout"} => k = done' + 1
      /\ \A k \in running' : batches'[k].op = "copyin" => SourceOf(batches[k].frame)
      /\ ~Copying' => SourceOf(FrameAt(done))
  BY <1>1 DEF Memory
<1>5. \A k : Begun(k)' /\ batches[k].op # "original" => Begun(k)
  BY DEF Begun
<1>6. /\ ~Copying' => \A k \in {done, done + 1} :
           Begun(k)' /\ batches[k].op \in {"prepass", "main", "copyout"} => features' = Pair(batches[k].frame)
      /\ \A k \in {done, done + 1} : Begun(k)' /\ batches[k].op = "main" => destination' = Image(batches[k])
  BY <1>1, <1>2, <1>5 DEF Memory
<1>7. FramesIntact'
  BY <1>2 DEF Memory, FramesIntact
<1>8. /\ \A k \in running' : batches'[k].op = "copyin" => SourceOf(batches[k].frame)'
      /\ ~Copying' => SourceOf(FrameAt(done))'
  BY <1>2, <1>3, <1>4 DEF SourceOf, Holds, LayerOf
<1> QED
  BY <1>4, <1>6, <1>7, <1>8 DEF Memory, Image, Pair

(* A command completes: the images are those of the next one done.          *)
LEMMA CommandEnds ==
  ASSUME QueueTypes, Orderly, Memory, UNCHANGED batches, UNCHANGED memoryVars,
         done + 1 \in running, done' = done + 1, running' = running \ {done + 1}
  PROVE  Memory'
<1>1. /\ Len(batches) \in Nat /\ done \in 0..Len(batches) /\ done + 1 \in 1..Len(batches)
      /\ \A k \in running : k \in 1..Len(batches) /\ k > done
  <2>1. Len(batches) \in Nat /\ done \in 0..Len(batches) /\ running \subseteq Unfinished
    BY DEF QueueTypes
  <2>2. \A k \in Unfinished : k \in 1..Len(batches) /\ k > done
    BY <2>1 DEF Unfinished
  <2> QED
    BY <2>1, <2>2
<1>2. source' = source /\ features' = features /\ destination' = destination /\ output' = output
  BY DEF memoryVars
<1>4. /\ \A k \in running' : batches[k].op = "copyin" => k <= done' + 2
      /\ \A k \in running' : batches[k].op \notin {"prepass", "main", "copyout"}
  BY <1>1 DEF Memory
<1>5. batches[done + 1].op # "copyin" /\ ~Copying' => ~Copying
  BY DEF Copying
<1>6. ASSUME ~Copying' PROVE SourceOf(batches[done + 1].frame)
  <2>1. CASE batches[done + 1].op = "copyin"
    BY <2>1 DEF Memory
  <2>2. CASE batches[done + 1].op # "copyin"
    <3>1. SourceOf(FrameAt(done))
      BY <1>5, <1>6, <2>2 DEF Memory
    <3>2. batches[done + 1].frame = FrameAt(done)
      BY <1>1, <2>2, NextInLog
    <3> QED
      BY <3>1, <3>2
  <2> QED
    BY <2>1, <2>2
<1>7. \A k \in {done + 1, done + 2} :
        Begun(k)' /\ batches[k].op \in {"prepass", "main", "copyout"} => k = done + 1 /\ Begun(k)
  BY <1>1, <1>4 DEF Begun
<1>8. ~Copying' => \A k \in {done + 1, done + 2} :
        Begun(k)' /\ batches[k].op \in {"prepass", "main", "copyout"} => features' = Pair(batches[k].frame)
  <2> SUFFICES ASSUME ~Copying', NEW k \in {done + 1, done + 2}, Begun(k)', batches[k].op \in {"prepass", "main", "copyout"}
               PROVE  features' = Pair(batches[k].frame)
    OBVIOUS
  <2>1. k = done + 1 /\ Begun(k)
    BY <1>7
  <2>2. ~Copying
    BY <1>5, <2>1
  <2> QED
    BY <1>2, <2>1, <2>2 DEF Memory
<1>9. \A k \in {done + 1, done + 2} : Begun(k)' /\ batches[k].op = "main" => destination' = Image(batches[k])
  BY <1>2, <1>7 DEF Memory
<1>10. FramesIntact'
  BY <1>2 DEF Memory, FramesIntact
<1>11. /\ \A k \in running' : batches'[k].op = "copyin" => SourceOf(batches[k].frame)'
       /\ ~Copying' => Holds(source', batches[done + 1].frame)
  <2>1. /\ \A k \in running' : batches'[k].op = "copyin" => SourceOf(batches[k].frame)
        /\ ~Copying' => Holds(source', batches[done + 1].frame)
    BY <1>2, <1>6 DEF Memory, SourceOf
  <2> QED
    BY <1>2, <2>1 DEF SourceOf, Holds, LayerOf
<1>12. FrameAt(done)' = batches[done + 1].frame
  BY <1>1 DEF FrameAt
<1>13. ~Copying' => SourceOf(FrameAt(done))'
  <2>1. ~Copying' => Holds(source', FrameAt(done)')
    BY <1>11, <1>12
  <2> QED
    BY <2>1 DEF SourceOf, Holds, LayerOf
<1>14. done' + 1 = done + 2
  BY <1>1
<1> QED
  BY <1>4, <1>8, <1>9, <1>10, <1>11, <1>13, <1>14 DEF Memory, Image, Pair

(* A step of the GPU keeps the invariant.                                   *)
LEMMA GpuStep ==
  ASSUME IntactInv, MemoryTypes, UNCHANGED caller, UNCHANGED callerVars, UNCHANGED wrapperVars,
         (caller = "validate" /\ Run) \/ RunContext \/ RunOriginal \/ Complete
  PROVE  IntactInv' /\ MemoryTypes'
<1>1. QueueTypes /\ CallerTypes /\ Fenced /\ Iteration
  BY DEF IntactInv, IdleInv
<1>2. /\ Len(batches) \in Nat /\ done \in 0..Len(batches) /\ running \subseteq Unfinished
      /\ \A i \in Unfinished : i \in 1..Len(batches) /\ batches[i] \in Commands
  BY <1>1, CommandTypes DEF QueueTypes
<1>3. protocol' = protocol
  BY DEF callerVars
<1>4. ~protocol => Orderly /\ Held /\ Memory
  BY DEF IntactInv
<1>5. ASSUME NEW i \in Unfinished \ running, Ready(i), running' = running \cup {i},
             UNCHANGED <<batches, done, fence, blockIteration>>, UNCHANGED countVars,
             \/ batches[i].op # "original" /\ Effect(batches[i])
             \/ batches[i].op = "original" /\ UNCHANGED memoryVars
      PROVE  IntactInv' /\ MemoryTypes'
  <2>1. /\ done' \in {done, done + 1} /\ done' <= Len(batches) /\ running' \subseteq Unfinished'
        /\ fence' \in [Fences -> {"idle", "pending", "signalled"}]
        /\ \A k \in Unfinished' : batches[k].fence # "none" => fence'[batches[k].fence] = fence[batches[k].fence]
    BY <1>1, <1>2, <1>5 DEF QueueTypes, Unfinished
  <2>2. IdleInv' /\ (~protocol => Orderly' /\ Held' /\ Logged' /\ Fresh')
    BY <1>5, <2>1, GpuLog
  <2>3. ~protocol => Memory'
    <3> SUFFICES ASSUME ~protocol PROVE Memory'
      OBVIOUS
    <3>1. CASE batches[i].op = "original"
      BY <1>1, <1>4, <1>5, <3>1, OriginalBegins
    <3>2. CASE batches[i].op = "copyin"
      BY <1>1, <1>4, <1>5, <3>2, CopyInBegins
    <3>3. CASE batches[i].op \in {"prepass", "main", "copyout"}
      BY <1>1, <1>4, <1>5, <3>3, PassBegins
    <3> QED
      BY <1>2, <3>1, <3>2, <3>3 DEF Commands
  <2>4. MemoryTypes'
    <3>1. CASE batches[i].op # "original" /\ Effect(batches[i])
      <4>1. blockIteration \in Nat \/ batches[i].op \notin Passes
        BY <1>1 DEF Iteration, CallerTypes
      <4>2. /\ source' \in [0..1 -> Nat] /\ features' \in Nat \X Nat /\ destination' \in Images
            /\ output' \in Seq([frame : Nat, slot : Nat, image : Images])
        BY <1>2, <3>1, <4>1, EffectTypes
      <4> QED
        BY <1>5, <4>2 DEF MemoryTypes
    <3>2. CASE UNCHANGED memoryVars
      BY <1>5, <3>2 DEF MemoryTypes, memoryVars
    <3> QED
      BY <1>5, <3>1, <3>2
  <2> QED
    BY <1>3, <2>2, <2>3, <2>4 DEF IntactInv
<1>6. CASE caller = "validate" /\ Run
  <2>1. PICK i \in Unfinished \ running : Ready(i) /\ running' = running \cup {i} /\ Effect(batches[i])
    BY <1>6 DEF Run
  <2>2. batches[i].op # "original"
    BY <1>2, <1>6 DEF MemoryTypes
  <2>3. UNCHANGED <<batches, done, fence, blockIteration>> /\ UNCHANGED countVars
    BY <1>6 DEF Run
  <2> QED
    BY <1>5, <2>1, <2>2, <2>3
<1>7. CASE RunContext
  <2>1. PICK i \in Unfinished \ running :
          batches[i].op # "original" /\ Ready(i) /\ running' = running \cup {i} /\ Effect(batches[i])
    BY <1>7 DEF RunContext
  <2>2. UNCHANGED <<batches, done, fence, blockIteration>> /\ UNCHANGED countVars
    BY <1>7 DEF RunContext
  <2> QED
    BY <1>5, <2>1, <2>2
<1>8. CASE RunOriginal
  <2>1. PICK i \in Unfinished \ running : batches[i].op = "original" /\ Ready(i) /\ running' = running \cup {i}
    BY <1>8 DEF RunOriginal
  <2>2. UNCHANGED <<batches, done, fence, blockIteration>> /\ UNCHANGED countVars /\ UNCHANGED memoryVars
    BY <1>8 DEF RunOriginal
  <2> QED
    BY <1>5, <2>1, <2>2
<1>9. CASE Complete
  <2>1. /\ done + 1 \in running /\ done' = done + 1 /\ running' = running \ {done + 1}
        /\ fence' = IF batches[done + 1].fence = "none" THEN fence
                    ELSE [fence EXCEPT ![batches[done + 1].fence] = "signalled"]
        /\ UNCHANGED <<batches, blockIteration>> /\ UNCHANGED countVars /\ UNCHANGED memoryVars
    BY <1>9 DEF Complete
  <2>2. done + 1 \in 1..Len(batches) /\ done + 1 \in Unfinished /\ batches[done + 1].fence \in Fences \cup {"none"}
    BY <1>2, <2>1 DEF Commands
  <2>3. /\ done' \in {done, done + 1} /\ done' <= Len(batches)
        /\ Unfinished' = Unfinished \ {done + 1}
    BY <1>2, <2>1, <2>2 DEF Unfinished
  <2>4. running' \subseteq Unfinished' /\ fence' \in [Fences -> {"idle", "pending", "signalled"}]
    BY <1>1, <1>2, <2>1, <2>2, <2>3 DEF QueueTypes
  <2>5. ASSUME NEW k \in Unfinished', batches[k].fence # "none"
        PROVE  fence'[batches[k].fence] = fence[batches[k].fence]
    <3>1. batches[k].fence # batches[done + 1].fence /\ batches[k].fence \in Fences
      BY <1>1, <1>2, <2>2, <2>3, <2>5 DEF Fenced, Commands
    <3> QED
      BY <1>1, <2>1, <2>2, <3>1 DEF QueueTypes
  <2>6. IdleInv' /\ (~protocol => Orderly' /\ Held' /\ Logged' /\ Fresh')
    BY <2>1, <2>3, <2>4, <2>5, GpuLog
  <2>7. ~protocol => Memory'
    BY <1>1, <1>4, <2>1, CommandEnds
  <2>8. MemoryTypes'
    BY <2>1 DEF MemoryTypes, memoryVars
  <2> QED
    BY <1>3, <2>6, <2>7, <2>8 DEF IntactInv
<1> QED
  BY <1>6, <1>7, <1>8, <1>9

(* A step of a caller leaves the images to the GPU.                         *)
LEMMA CallerKeepsTypes ==
  ASSUME QueueTypes, MemoryTypes, UNCHANGED memoryVars, UNCHANGED caller,
         \/ caller = "metal"
         \/ UNCHANGED batches
         \/ \E b \in {"copyin", "prepass", "main", "copyout"} : \E f, k, l, wait, signal, g :
              batches' = Append(batches, Batch(b, f, k, l, wait, signal, g))
  PROVE  MemoryTypes'
<1>1. ASSUME NEW op \in {"copyin", "prepass", "main", "copyout"}, NEW f, NEW k, NEW l, NEW wait, NEW signal, NEW g,
             batches' = Append(batches, Batch(op, f, k, l, wait, signal, g)), caller = "validate"
      PROVE  \A i \in 1..Len(batches') : batches'[i].op # "original"
  <2> DEFINE b == Batch(op, f, k, l, wait, signal, g)
  <2>1. b.op # "original"
    BY DEF Batch
  <2>2. batches \in Seq(Commands \cup {b})
    BY DEF QueueTypes
  <2> HIDE DEF b
  <2>3. /\ Len(batches') = Len(batches) + 1 /\ Len(batches) \in Nat
        /\ \A i \in 1..Len(batches) : batches'[i] = batches[i]
        /\ batches'[Len(batches) + 1] = b
    BY <1>1, <2>2 DEF b
  <2> QED
    BY <1>1, <2>1, <2>3 DEF MemoryTypes
<1> QED
  BY <1>1 DEF MemoryTypes, memoryVars

-----------------------------------------------------------------------------
(* The invariant at the start, and through each kind of step.               *)
LEMMA IntactInit ==
  ASSUME MetalInit PROVE IntactInv /\ MemoryTypes
<1>1. /\ batches = <<>> /\ done = 0 /\ running = {} /\ fence = [f \in Fences |-> "idle"]
      /\ source = [l \in 0..1 |-> 0] /\ features = <<0, 0>>
      /\ destination = [pair |-> <<0, 0>>, of |-> <<0, 0>>, slot |-> 0] /\ output = <<>>
      /\ first = TRUE /\ iteration = 0 /\ total = 0 /\ index = 0 /\ syncValue = 0 /\ internalValue = 0
      /\ fencePending = FALSE /\ unsignaled = FALSE
      /\ value = 0 /\ frame = 0 /\ want = 0 /\ protocol \in BOOLEAN /\ pc = "idle"
      /\ caller \in {"validate", "metal"} /\ (caller = "metal" => protocol = FALSE)
      /\ showOriginal = FALSE /\ remaining = 0 /\ framePending = FALSE
  BY PartialAssumption DEF MetalInit, Init, ContextInit
<1>2. Len(batches) = 0 /\ Unfinished = {} /\ batches \in Seq(Commands)
  BY <1>1 DEF Unfinished
<1>3. QueueTypes
  BY <1>1, <1>2 DEF QueueTypes, Fences
<1>4. CallerTypes
  BY <1>1 DEF CallerTypes
<1>5. Fenced /\ Iteration
  BY <1>1, <1>2 DEF Fenced, Iteration
<1>6. \A j \in 0..Len(batches) : After(j) = Nothing /\ Nothing["sync"] = 0 /\ Nothing["internal"] = 0
  BY <1>2, Vectors DEF After
<1>7. Behind
  BY <1>1, <1>2, <1>6 DEF Behind
<1>8. Counted
  BY <1>1, <1>6 DEF Counted, Ahead, Partial
<1>9. Place /\ Recorders
  BY <1>1, <1>2 DEF Place, Recorders, Counting
<1>10. Orderly /\ Held /\ Logged
  BY <1>1, <1>2 DEF Orderly, Held, Logged, FrameAt
<1>11. Fresh
  BY <1>1, <1>2 DEF Fresh
<1>12. Memory
  <2>1. ~Copying /\ \A i \in {done, done + 1} : ~Begun(i)
    BY <1>1 DEF Copying, Begun
  <2>2. SourceOf(FrameAt(done))
    BY <1>1 DEF SourceOf, Holds, FrameAt, LayerOf
  <2>3. FramesIntact
    BY <1>1 DEF FramesIntact
  <2> QED
    BY <1>1, <2>1, <2>2, <2>3 DEF Memory
<1>13. MemoryTypes
  BY <1>1, <1>2 DEF MemoryTypes, Images
<1> QED
  BY <1>3, <1>4, <1>5, <1>7, <1>8, <1>9, <1>10, <1>11, <1>12, <1>13 DEF IntactInv, IdleInv

(* Of the validator.                                                        *)
LEMMA ValidateStep ==
  ASSUME IntactInv, MemoryTypes, caller = "validate", UNCHANGED caller, Validate
  PROVE  IntactInv' /\ MemoryTypes'
<1>1. UNCHANGED wrapperVars /\ Next
  BY DEF Validate
<1>2. UNCHANGED <<showOriginal, framePending, remaining>>
  BY <1>1 DEF wrapperVars
<1>3. QueueTypes
  BY DEF IntactInv, IdleInv
<1>4. ASSUME NEW n \in Totals, CopyIn(n) PROVE IntactInv' /\ MemoryTypes'
  <2>1. IntactInv'
    BY <1>1, <1>4, ValidateCopyIn
  <2>2. UNCHANGED memoryVars /\ \E b \in {"copyin", "prepass", "main", "copyout"} : \E f, k, l, wait, signal, g :
              batches' = Append(batches, Batch(b, f, k, l, wait, signal, g))
    BY <1>4 DEF CopyIn, Submit
  <2> QED
    BY <1>3, <2>1, <2>2, CallerKeepsTypes
<1>5. CASE Start
  <2>1. /\ pc = "dispatch" /\ Dispatch(frame, want, protocol, TRUE) /\ pc' = "acquire"
        /\ UNCHANGED <<value, frame, want, protocol>>
    BY <1>5 DEF Start
  <2>2. IntactInv'
    BY <1>2, <2>1, DispatchStep
  <2>3. UNCHANGED memoryVars /\ \E b \in {"copyin", "prepass", "main", "copyout"} : \E f, k, l, wait, signal, g :
              batches' = Append(batches, Batch(b, f, k, l, wait, signal, g))
    BY <2>1 DEF Dispatch, Submit
  <2> QED
    BY <1>3, <2>2, <2>3, CallerKeepsTypes
<1>6. CASE Generate
  <2>1. /\ pc = "acquire" /\ Acquire(frame, protocol, TRUE)
        /\ pc' = (IF ~protocol THEN "copyout" ELSE IF More THEN "acquire" ELSE "idle")
        /\ UNCHANGED <<value, frame, want, protocol>>
    BY <1>6 DEF Generate
  <2>2. IntactInv'
    BY <1>2, <2>1, AcquireStep
  <2>3. UNCHANGED memoryVars /\ \E b \in {"copyin", "prepass", "main", "copyout"} : \E f, k, l, wait, signal, g :
              batches' = Append(batches, Batch(b, f, k, l, wait, signal, g))
    BY <2>1 DEF Acquire, Submit
  <2> QED
    BY <1>3, <2>2, <2>3, CallerKeepsTypes
<1>7. CASE CopyOut
  <2> DEFINE v == IF index < total THEN value + 2 ELSE 0
             b == Batch("copyout", frame, index, 0, Only("sync", value + 1), Only("sync", v), "none")
  <2>1. /\ pc = "copyout" /\ Submit(b, fence)
        /\ value' = (IF index < total THEN value + 2 ELSE value + 1)
        /\ pc' = (IF index < total THEN "acquire" ELSE "idle")
        /\ UNCHANGED <<done, running, blockIteration, countVars, protocol>> /\ UNCHANGED memoryVars
        /\ UNCHANGED <<frame, want>>
    BY <1>7 DEF CopyOut
  <2>2. IntactInv'
    <3>1. UNCHANGED <<frame, want, showOriginal>> /\ UNCHANGED <<framePending, remaining>>
      BY <1>2, <2>1
    <3>2. "none" \in {"none", "wrapper"} /\ v = (IF index < total THEN value + 2 ELSE 0)
      OBVIOUS
    <3> HIDE DEF v
    <3> QED
      BY <2>1, <3>1, <3>2, CopyOutStep
  <2>3. \E c \in {"copyin", "prepass", "main", "copyout"} : \E f, k, l, wait, signal, g :
              batches' = Append(batches, Batch(c, f, k, l, wait, signal, g))
    BY <2>1 DEF Submit
  <2> QED
    BY <1>3, <2>1, <2>2, <2>3, CallerKeepsTypes
<1>8. CASE Abandon \/ Close \/ Drop \/ Dropped
  <2>1. IntactInv'
    BY <1>1, <1>8, ValidateRests
  <2>2. UNCHANGED memoryVars /\ UNCHANGED batches
    BY <1>8 DEF Abandon, Close, Drop, Dropped, vars, contextVars, queueVars
  <2> QED
    BY <1>3, <2>1, <2>2, CallerKeepsTypes
<1>9. CASE Gpu
  <2>1. (Run \/ Complete) /\ UNCHANGED callerVars
    BY <1>9 DEF Gpu
  <2> QED
    BY <1>1, <2>1, GpuStep
<1> QED
  BY <1>1, <1>4, <1>5, <1>6, <1>7, <1>8, <1>9 DEF Next

(* Of the worker.                                                           *)
LEMMA MetalStep ==
  ASSUME IntactInv, MemoryTypes, caller = "metal", UNCHANGED caller, Metal \/ Done
  PROVE  IntactInv' /\ MemoryTypes'
<1>1. QueueTypes /\ CallerTypes /\ Place
  BY DEF IntactInv, IdleInv
<1>2. protocol = FALSE
  BY <1>1 DEF CallerTypes
<1>3. CASE (\E p \in Plans : Take(p)) \/ FrameSettled \/ GiveUp \/ Drain \/ (Drop /\ UNCHANGED wrapperVars) \/ Done
  <2>1. IntactInv'
    BY <1>3, MetalRests
  <2>2. UNCHANGED memoryVars
    BY <1>3 DEF Take, FrameSettled, GiveUp, Drain, Drop, Done, vars, contextVars
  <2> QED
    BY <1>1, <2>1, <2>2, CallerKeepsTypes
<1>4. CASE MetalCopyIn
  <2>1. UNCHANGED memoryVars
    BY <1>4 DEF MetalCopyIn, KeepContext
  <2> QED
    BY <1>1, <1>4, <2>1, MetalCopyInStep, CallerKeepsTypes
<1>5. CASE MetalDispatch
  <2>1. /\ pc = "dispatch" /\ Dispatch(frame, want, FALSE, TRUE)
        /\ UNCHANGED <<frame, want, protocol, showOriginal, framePending>>
        /\ pc' = (IF want > 0 THEN "acquire" ELSE AfterFrames) /\ remaining' = want /\ value' = value + 1
    BY <1>5 DEF MetalDispatch
  <2>2. Dispatch(frame, want, protocol, TRUE)
    BY <1>2, <2>1
  <2>3. IntactInv'
    BY <2>1, <2>2, DispatchStep
  <2>4. UNCHANGED memoryVars
    BY <2>1 DEF Dispatch
  <2> QED
    BY <1>1, <2>3, <2>4, CallerKeepsTypes
<1>6. CASE Early
  <2>1. pc = "acquire" /\ Acquire(frame, FALSE, TRUE) /\ pc' = "copyout"
        /\ UNCHANGED <<value, frame, want, protocol, showOriginal, framePending, remaining>>
    BY <1>6 DEF Early, wrapperVars
  <2>2. Acquire(frame, protocol, TRUE)
    BY <1>2, <2>1
  <2>3. IntactInv'
    BY <2>1, <2>2, AcquireStep
  <2>4. UNCHANGED memoryVars
    BY <2>1 DEF Acquire
  <2> QED
    BY <1>1, <2>3, <2>4, CallerKeepsTypes
<1>7. CASE Produce
  <2> DEFINE g == IF index < total \/ showOriginal THEN "none" ELSE "wrapper"
             v == IF index < total THEN value + 2 ELSE 0
             b == Batch("copyout", frame, index, 0, Only("sync", value + 1), Only("sync", v), g)
  <2>1. pc = "copyout"
    BY <1>7 DEF Produce
  <2>2. /\ remaining = total - index + 1 /\ total = want
        /\ total \in Nat /\ index \in Nat /\ remaining \in Nat /\ showOriginal \in BOOLEAN
    BY <1>1, <2>1 DEF Place, CallerTypes
  <2>3. (remaining > 1 <=> index < total) /\ want - remaining + 1 = index
    BY <2>2
  <2>4. /\ Submit(b, fence)
        /\ remaining' = remaining - 1
        /\ value' = (IF index < total THEN value + 2 ELSE value + 1)
        /\ framePending' = (framePending \/ (~(index < total) /\ ~showOriginal))
        /\ pc' = (IF index < total THEN "acquire" ELSE AfterFrames)
        /\ UNCHANGED <<done, running, frame, want, protocol, showOriginal>>
        /\ UNCHANGED memoryVars /\ UNCHANGED <<blockIteration, countVars>>
    <3>1. CASE index < total
      BY <1>7, <2>3, <3>1 DEF Produce, Sync, KeepContext
    <3>2. CASE ~(index < total)
      BY <1>7, <2>3, <3>2 DEF Produce, Sync, KeepContext
    <3> QED
      BY <3>1, <3>2
  <2>5. /\ g \in {"none", "wrapper"} /\ v = (IF index < total THEN value + 2 ELSE 0)
        /\ g = (IF index < total \/ showOriginal THEN "none" ELSE "wrapper")
        /\ framePending' = (framePending \/ g = "wrapper")
    BY <2>2, <2>4
  <2>6. /\ UNCHANGED <<done, running, blockIteration, countVars, protocol>>
        /\ UNCHANGED <<frame, want, showOriginal>>
    BY <2>4
  <2>7. IntactInv'
    <3> HIDE DEF v, g
    <3> QED
      BY <2>1, <2>4, <2>5, <2>6, CopyOutStep
  <2> QED
    BY <1>1, <2>4, <2>7, CallerKeepsTypes
<1>8. CASE Original
  <2>1. UNCHANGED memoryVars
    BY <1>8 DEF Original, KeepContext
  <2> QED
    BY <1>1, <1>8, <2>1, OriginalStep, CallerKeepsTypes
<1>9. CASE Renew
  <2>1. /\ source' = [l \in 0..1 |-> 0] /\ features' = <<0, 0>>
        /\ destination' = [pair |-> <<0, 0>>, of |-> <<0, 0>>, slot |-> 0] /\ output' = <<>>
    BY <1>9 DEF Renew
  <2>2. MemoryTypes'
    BY <2>1 DEF MemoryTypes, Images
  <2> QED
    BY <1>9, <2>2, RenewStep
<1>10. CASE MetalGpu
  <2>1. (RunOriginal \/ RunContext \/ Complete) /\ UNCHANGED callerVars /\ UNCHANGED wrapperVars
    BY <1>10 DEF MetalGpu
  <2> QED
    BY <2>1, GpuStep
<1> QED
  BY <1>3, <1>4, <1>5, <1>6, <1>7, <1>8, <1>9, <1>10 DEF Metal

(* Of neither.                                                              *)
LEMMA StutterStep ==
  ASSUME IntactInv, MemoryTypes, UNCHANGED allVars
  PROVE  IntactInv' /\ MemoryTypes'
<1>1. /\ UNCHANGED <<batches, done, running, fence, blockIteration>> /\ UNCHANGED countVars /\ UNCHANGED memoryVars
      /\ UNCHANGED <<value, frame, want, protocol, pc, caller>> /\ UNCHANGED callerVars /\ UNCHANGED wrapperVars
  BY DEF allVars, vars, contextVars, queueVars, callerVars
<1>2. QueueTypes
  BY DEF IntactInv, IdleInv
<1>3. IdleInv'
  <2>1. /\ done' \in {done, done + 1} /\ done' <= Len(batches) /\ running' \subseteq Unfinished'
        /\ fence' \in [Fences -> {"idle", "pending", "signalled"}]
        /\ \A k \in Unfinished' : batches[k].fence # "none" => fence'[batches[k].fence] = fence[batches[k].fence]
    BY <1>1, <1>2 DEF QueueTypes, Unfinished
  <2>2. UNCHANGED <<batches, blockIteration, caller>>
    BY <1>1
  <2> QED
    BY <1>1, <2>1, <2>2, GpuLog
<1>4. UNCHANGED <<batches, done, running, caller, protocol, frame, value, index, internalValue>>
  BY <1>1 DEF countVars
<1>5. IntactInv'
  BY <1>1, <1>3, <1>4, QuietIntact
<1>6. MemoryTypes'
  BY <1>1, <1>2, CallerKeepsTypes
<1> QED
  BY <1>5, <1>6

-----------------------------------------------------------------------------
(* Whatever is abandoned, dropped or refused half way, the context and its  *)
(* callers agree on the timeline, and the images on the frames.             *)
THEOREM IntactInvariant == EitherSpec => [](IntactInv /\ MemoryTypes)
<1>1. MetalInit => IntactInv /\ MemoryTypes
  BY IntactInit
<1>2. IntactInv /\ MemoryTypes /\ [EitherNext]_allVars => (IntactInv /\ MemoryTypes)'
  <2> SUFFICES ASSUME IntactInv, MemoryTypes, [EitherNext]_allVars PROVE IntactInv' /\ MemoryTypes'
    OBVIOUS
  <2>1. CASE EitherNext
    <3>1. CASE caller = "validate" /\ Validate
      BY <2>1, <3>1, ValidateStep DEF EitherNext
    <3>2. CASE caller = "metal" /\ (Metal \/ Done)
      BY <2>1, <3>2, MetalStep DEF EitherNext
    <3> QED
      BY <2>1, <3>1, <3>2 DEF EitherNext
  <2>2. CASE UNCHANGED allVars
    BY <2>2, StutterStep
  <2> QED
    BY <2>1, <2>2
<1> QED
  BY <1>1, <1>2, PTL DEF EitherSpec

(* No parameter buffer, and on Metal no command buffer of a copy, is begun  *)
(* again while its last use is unfinished (Pipeline::param_update,          *)
(* Wrapper::dispatch, Wrapper::acquire, Worker::copy).                      *)
THEOREM NothingRecordedInUse == EitherSpec => []RecordedIdle
<1>1. IntactInv => RecordedIdle
  <2> SUFFICES ASSUME IntactInv PROVE RecordedIdle
    OBVIOUS
  <2>1. ParametersIdle
    BY DEF IntactInv, IdleInv, Iteration, ParametersIdle
  <2> QED
    BY <2>1 DEF IntactInv, IdleInv, Recorders, Copies, RecordedIdle
<1> QED
  BY <1>1, IntactInvariant, PTL

(* Under the signalled protocol every image copied out is made of its own   *)
(* frame and the one before, with features of the same pair, for its slot,  *)
(* also after partial iterations and in a context that replaced another.    *)
THEOREM FramesStayWhole == EitherSpec => []SignalledIntact
<1>1. IntactInv => SignalledIntact
  BY DEF IntactInv, Memory, SignalledIntact
<1> QED
  BY <1>1, IntactInvariant, PTL
=============================================================================
