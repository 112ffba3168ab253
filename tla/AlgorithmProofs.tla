-------------------------- MODULE AlgorithmProofs --------------------------
(***************************************************************************)
(* The algorithms of the project that run in one thread, for every input.   *)
(* First the memory planner, for any number of images, of any sizes and any *)
(* lifetimes.  NeverOverlap is not inductive: the item that moves up has to *)
(* be clear of everything it has passed, and stays so only because `placed` *)
(* is in the order of the offsets.                                          *)
(*                                                                         *)
(* Then the pipeline on top of it: its schedule, the lifetimes it takes     *)
(* from that, and what is run from it, up to InputsFresh, for any number of *)
(* game frames and generated frames, any timestamps and either engine.      *)
(*                                                                         *)
(* Last the pacer: its answers are slots of the frame and its probes are    *)
(* short, for every multiplier, every list of paces and any number of       *)
(* changes.                                                                 *)
(***************************************************************************)
EXTENDS PassSchedule, Pacer, SequenceTheorems, FiniteSetTheorems, TLAPS

(* The placed sequence holds each transient item that is done, once, in     *)
(* order.                                                                   *)
PlacedDone ==
  /\ \A k \in 1..Len(placed) : placed[k] \in Items \ todo /\ life[placed[k]] # None
  /\ \A i \in Items \ todo : life[i] # None => \E k \in 1..Len(placed) : placed[k] = i

InOrder ==
  \A k, n \in 1..Len(placed) : k < n => offset[placed[k]] <= offset[placed[n]]

(* The item that moves up is clear of the ranges it has passed: they are    *)
(* never live with it, or wholly below it, or wholly above.                 *)
Cleared ==
  item # 0 =>
    /\ item \in todo /\ life[item] # None
    /\ next <= Len(placed) + 1
    /\ \A k \in 1..Len(placed) :
         k < next /\ Meet(item, placed[k]) =>
           End(placed[k]) <= off \/ off + size[item] <= offset[placed[k]]

(* The inductive invariant.                                                 *)
PlanInv == TypeOK /\ PlacedDone /\ InOrder /\ Cleared /\ NeverOverlap

-----------------------------------------------------------------------------
(* The planner starts with nothing placed.                                  *)
LEMMA InitPlan == Init => PlanInv
  BY PlanAssumption, SMT DEF Init, PlanInv, TypeOK, PlacedDone, InOrder, Cleared, NeverOverlap, Items

(* A pinned image goes behind the others of its allocation.                 *)
LEMMA PinKeeps ==
  ASSUME PlanInv, item = 0, NEW i \in todo, Pin(i)
  PROVE  PlanInv'
<1> USE PlanAssumption
<1>1. /\ i \in Items /\ life[i] = None /\ size[i] \in Nat
      /\ offset' = [offset EXCEPT ![i] = pinned] /\ pinned' = pinned + size[i]
      /\ todo' = todo \ {i}
      /\ UNCHANGED <<size, life, placed, transient, item, off, next>>
  BY DEF Pin, PlanInv, TypeOK, inputVars, walkVars
<1>2. \A j \in Items : size[j] \in Nat /\ offset[j] \in Nat
  BY DEF PlanInv, TypeOK
<1>3. TypeOK'
  BY <1>1, <1>2 DEF PlanInv, TypeOK
<1>4. \A k \in 1..Len(placed) : placed[k] \in Items /\ placed[k] # i
  BY <1>1 DEF PlanInv, PlacedDone
<1>5. PlacedDone' /\ InOrder'
  BY <1>1, <1>4 DEF PlanInv, TypeOK, PlacedDone, InOrder
<1>6. Cleared'
  BY <1>1 DEF Cleared
<1>7. NeverOverlap'
  <2>1. \A j \in Items \ todo' : j = i \/ (j \in Items \ todo /\ offset'[j] = offset[j])
    BY <1>1 DEF PlanInv, TypeOK
  <2>2. offset'[i] = pinned
    BY <1>1 DEF PlanInv, TypeOK
  <2>3. \A j \in Items \ todo : life[j] = None => End(j) <= pinned
    BY DEF PlanInv, NeverOverlap
  <2> QED
    BY <1>1, <1>2, <2>1, <2>2, <2>3 DEF PlanInv, TypeOK, NeverOverlap, Shares, LiveTogether, Meet, End
<1> QED
  BY <1>3, <1>5, <1>6, <1>7 DEF PlanInv

(* A transient image starts at the bottom, with nothing passed.             *)
LEMMA StartKeeps ==
  ASSUME PlanInv, item = 0, NEW i \in todo, Start(i)
  PROVE  PlanInv'
<1>1. /\ i \in Items /\ life[i] # None
      /\ item' = i /\ off' = 0 /\ next' = 1
      /\ UNCHANGED <<size, life, todo, placed, transient, pinned, offset>>
  BY DEF Start, PlanInv, TypeOK, inputVars
<1>2. TypeOK' /\ PlacedDone' /\ InOrder' /\ NeverOverlap'
  BY <1>1, PlanAssumption DEF PlanInv, TypeOK, PlacedDone, InOrder, NeverOverlap, Shares, LiveTogether, Meet, End, Items
<1>3. Cleared'
  BY <1>1 DEF PlanInv, TypeOK, Cleared
<1> QED
  BY <1>2, <1>3 DEF PlanInv

(* What the item has passed stays clear of it when it moves: what is below  *)
(* stays below, and nothing passed was above, since what blocks it comes    *)
(* later in the order and yet begins below the item's end.                  *)
LEMMA WalkKeeps ==
  ASSUME PlanInv, Walk
  PROVE  PlanInv'
<1> USE PlanAssumption
<1> DEFINE p == placed[next]
<1>1. /\ item # 0 /\ next <= Len(placed) /\ next' = next + 1
      /\ off' = IF Blocks(p) THEN End(p) ELSE off
      /\ UNCHANGED <<size, life, todo, placed, transient, pinned, offset, item>>
  BY DEF Walk, inputVars
<1>2. /\ item \in Items /\ next \in 1..Len(placed) /\ p \in Items
      /\ off \in Nat /\ size[item] \in Nat /\ Len(placed) \in Nat
      /\ \A j \in Items : size[j] \in Nat /\ offset[j] \in Nat
      /\ \A k \in 1..Len(placed) : placed[k] \in Items
  <2>1. item \in Items /\ \A j \in Items : size[j] \in Nat /\ offset[j] \in Nat
    BY <1>1 DEF PlanInv, TypeOK, Cleared
  <2>2. off \in Nat /\ next \in Nat \ {0} /\ Len(placed) \in Nat
    BY DEF PlanInv, TypeOK
  <2>3. \A k \in 1..Len(placed) : placed[k] \in Items
    BY DEF PlanInv, TypeOK
  <2>4. next \in 1..Len(placed)
    BY <1>1, <2>2
  <2> QED BY <2>1, <2>2, <2>3, <2>4
<1>3. off' \in Nat /\ off <= off'
  BY <1>1, <1>2 DEF Blocks, End
<1>4. TypeOK' /\ PlacedDone' /\ InOrder' /\ NeverOverlap'
  BY <1>1, <1>2, <1>3 DEF PlanInv, TypeOK, PlacedDone, InOrder, NeverOverlap, Shares, LiveTogether, Meet, End
<1>5. ASSUME NEW k \in 1..Len(placed), k < next + 1, Meet(item, placed[k])
      PROVE  End(placed[k]) <= off' \/ off' + size[item] <= offset[placed[k]]
  <2>1. CASE k = next
    <3>1. CASE Blocks(p)
      BY <1>1, <1>2, <2>1, <3>1 DEF End
    <3>2. CASE ~Blocks(p)
      BY <1>1, <1>2, <1>5, <2>1, <3>2 DEF Blocks, End
    <3> QED BY <3>1, <3>2
  <2>2. CASE k < next
    <3>1. End(placed[k]) <= off \/ off + size[item] <= offset[placed[k]]
      BY <1>1, <1>2, <1>5, <2>2 DEF PlanInv, Cleared
    <3>2. CASE ~Blocks(p)
      BY <1>1, <3>1, <3>2
    <3>3. CASE Blocks(p) /\ End(placed[k]) <= off
      BY <1>2, <1>3, <3>3 DEF End
    <3>4. CASE Blocks(p) /\ off + size[item] <= offset[placed[k]]
      <4>1. offset[placed[k]] <= offset[p]
        BY <1>2, <2>2 DEF PlanInv, InOrder
      <4>2. offset[p] < off + size[item]
        BY <3>4 DEF Blocks
      <4> QED BY <1>2, <3>4, <4>1, <4>2
    <3> QED BY <3>1, <3>2, <3>3, <3>4
  <2> QED BY <1>2, <1>5, <2>1, <2>2
<1>6. Cleared'
  BY <1>1, <1>2, <1>5 DEF PlanInv, Cleared, Meet, End
<1> QED
  BY <1>4, <1>6 DEF PlanInv

(* Having passed every range, the item is clear of all it is live with, and *)
(* its place in the sequence keeps the order.                               *)
LEMMA PlaceKeeps ==
  ASSUME PlanInv, Place
  PROVE  PlanInv'
<1> USE PlanAssumption
<1>1. PICK pos \in 0..Len(placed) : Partitions(pos) /\ placed' = InsertedAt(pos, item)
  BY DEF Place
<1>2. /\ item # 0 /\ next = Len(placed) + 1
      /\ offset' = [offset EXCEPT ![item] = off]
      /\ transient' = IF off + size[item] > transient THEN off + size[item] ELSE transient
      /\ todo' = todo \ {item} /\ item' = 0
      /\ UNCHANGED <<size, life, pinned, off, next>>
  BY DEF Place, inputVars
<1>3. /\ item \in Items /\ item \in todo /\ life[item] # None
      /\ off \in Nat /\ size[item] \in Nat /\ Len(placed) \in Nat
      /\ \A j \in Items : size[j] \in Nat /\ offset[j] \in Nat
      /\ \A k \in 1..Len(placed) : placed[k] \in Items \ todo /\ placed[k] # item
  <2>1. item \in todo /\ life[item] # None
    BY <1>2 DEF PlanInv, Cleared
  <2>2. item \in Items /\ \A j \in Items : size[j] \in Nat /\ offset[j] \in Nat
    BY <2>1 DEF PlanInv, TypeOK
  <2>3. off \in Nat /\ Len(placed) \in Nat
    BY DEF PlanInv, TypeOK
  <2>4. \A k \in 1..Len(placed) : placed[k] \in Items \ todo
    BY DEF PlanInv, PlacedDone
  <2> QED BY <2>1, <2>2, <2>3, <2>4
<1>4. /\ placed' = [k \in 1..(Len(placed) + 1) |->
                      IF k <= pos THEN placed[k] ELSE IF k = pos + 1 THEN item ELSE placed[k - 1]]
      /\ placed' \in Seq(Items) /\ Len(placed') = Len(placed) + 1
  BY <1>1, <1>3 DEF InsertedAt
<1>5. /\ offset' \in [Items -> Nat] /\ offset'[item] = off
      /\ \A j \in Items : j # item => offset'[j] = offset[j]
  BY <1>2, <1>3 DEF PlanInv, TypeOK
<1>6. TypeOK'
  BY <1>2, <1>3, <1>4, <1>5 DEF PlanInv, TypeOK
<1>7. \A k \in 1..(Len(placed) + 1) :
        \/ k <= pos /\ k \in 1..Len(placed) /\ placed'[k] = placed[k]
        \/ k = pos + 1 /\ placed'[k] = item
        \/ k > pos + 1 /\ k - 1 \in 1..Len(placed) /\ placed'[k] = placed[k - 1]
  BY <1>1, <1>3, <1>4
<1>8. PlacedDone'
  <2>1. \A k \in 1..Len(placed') : placed'[k] \in Items \ todo' /\ life[placed'[k]] # None
    BY <1>2, <1>3, <1>4, <1>7 DEF PlanInv, PlacedDone
  <2>2. ASSUME NEW i \in Items \ todo', life[i] # None
        PROVE  \E k \in 1..Len(placed') : placed'[k] = i
    <3>1. CASE i = item
      <4>1. pos + 1 \in 1..Len(placed') /\ placed'[pos + 1] = item
        BY <1>1, <1>3, <1>4
      <4> QED BY <3>1, <4>1
    <3>2. CASE i # item
      <4>1. PICK k \in 1..Len(placed) : placed[k] = i
        BY <1>2, <2>2, <3>2 DEF PlanInv, PlacedDone
      <4>2. CASE k <= pos
        <5>1. k \in 1..Len(placed') /\ placed'[k] = i
          BY <1>3, <1>4, <4>1, <4>2
        <5> QED BY <5>1
      <4>3. CASE k > pos
        <5>1. k + 1 \in 1..Len(placed') /\ placed'[k + 1] = i
          BY <1>1, <1>3, <1>4, <4>1, <4>3
        <5> QED BY <5>1
      <4> QED BY <1>1, <1>3, <4>2, <4>3
    <3> QED BY <3>1, <3>2
  <2> QED BY <1>2, <2>1, <2>2 DEF PlacedDone
<1>9. InOrder'
  <2> SUFFICES ASSUME NEW k \in 1..Len(placed'), NEW n \in 1..Len(placed'), k < n
               PROVE  offset'[placed'[k]] <= offset'[placed'[n]]
    BY DEF InOrder
  <2>1. \A j \in 1..Len(placed) : offset'[placed[j]] = offset[placed[j]]
    BY <1>3, <1>5
  <2>2. \A j \in 1..Len(placed) : (j <= pos => offset[placed[j]] <= off) /\ (j > pos => off < offset[placed[j]])
    BY <1>1, <1>3 DEF Partitions
  <2>3. \A j, l \in 1..Len(placed) : j < l => offset[placed[j]] <= offset[placed[l]]
    BY DEF PlanInv, InOrder
  <2>4. CASE n = pos + 1
    BY <1>1, <1>3, <1>4, <1>5, <1>7, <2>1, <2>2, <2>4
  <2>5. CASE k = pos + 1
    BY <1>1, <1>3, <1>4, <1>5, <1>7, <2>1, <2>2, <2>5
  <2>6. CASE n # pos + 1 /\ k # pos + 1
    <3> DEFINE from(q) == IF q <= pos THEN q ELSE q - 1
    <3>1. /\ from(k) \in 1..Len(placed) /\ placed'[k] = placed[from(k)]
          /\ from(n) \in 1..Len(placed) /\ placed'[n] = placed[from(n)]
      BY <1>4, <1>7, <2>6
    <3>2. from(k) < from(n)
      BY <1>1, <1>3, <1>4, <2>6
    <3> HIDE DEF from
    <3>3. offset[placed[from(k)]] <= offset[placed[from(n)]]
      BY <2>3, <3>1, <3>2
    <3> QED BY <2>1, <3>1, <3>3
  <2> QED BY <2>4, <2>5, <2>6
<1>10. Cleared'
  BY <1>2 DEF Cleared
<1>11. NeverOverlap'
  <2>1. \A j \in Items \ todo' : j = item \/ (j \in Items \ todo /\ j # item)
    <3>1. todo' = todo \ {item} /\ item \in todo
      BY <1>2, <1>3
    <3> QED BY <3>1, Zenon
  <2>2. \A j \in Items : End(j)' = IF j = item THEN off + size[item] ELSE End(j)
    BY <1>2, <1>3, <1>5 DEF End
  <2>3. ASSUME NEW j \in Items \ todo, life[j] # None, Meet(item, j)
        PROVE  End(j) <= off \/ off + size[item] <= offset[j]
    <3>1. PICK k \in 1..Len(placed) : placed[k] = j
      BY <2>3 DEF PlanInv, PlacedDone
    <3>2. k < next /\ Meet(item, placed[k])
      BY <1>2, <1>3, <2>3, <3>1
    <3>3. End(placed[k]) <= off \/ off + size[item] <= offset[placed[k]]
      BY <1>2, <3>2 DEF PlanInv, Cleared
    <3> QED BY <3>1, <3>3
  <2>4. \A i \in Items \ todo' : End(i)' <= IF life[i] = None THEN pinned' ELSE transient'
    <3>1. \A i \in Items \ todo : End(i) \in Nat /\ End(i) <= IF life[i] = None THEN pinned ELSE transient
      BY <1>3 DEF PlanInv, NeverOverlap, End
    <3>2. transient \in Nat /\ transient <= transient' /\ off + size[item] <= transient' /\ transient' \in Nat
      BY <1>2, <1>3 DEF PlanInv, TypeOK
    <3> QED BY <1>2, <1>3, <2>1, <2>2, <3>1, <3>2
  <2>5. ASSUME NEW i \in Items \ todo', NEW j \in Items \ todo', i # j,
               Shares(i, j), LiveTogether(i, j)
        PROVE  End(i)' <= offset'[j] \/ End(j)' <= offset'[i]
    <3>1. CASE i = item
      BY <1>3, <1>5, <2>1, <2>2, <2>3, <2>5, <3>1 DEF Shares, LiveTogether
    <3>2. CASE j = item
      <4>1. life[i] # None /\ Meet(item, i) /\ i \in Items \ todo
        BY <1>3, <2>1, <2>5, <3>2 DEF Shares, LiveTogether, Meet
      <4> QED BY <1>3, <1>5, <2>2, <2>3, <2>5, <3>2, <4>1
    <3>3. CASE i # item /\ j # item
      <4>1. End(i) <= offset[j] \/ End(j) <= offset[i]
        BY <2>1, <2>5, <3>3 DEF PlanInv, NeverOverlap
      <4> QED BY <1>5, <2>2, <3>3, <4>1
    <3> QED BY <3>1, <3>2, <3>3
  <2> QED
    BY <1>2, <2>4, <2>5 DEF NeverOverlap, Shares, LiveTogether, Meet
<1> QED
  BY <1>6, <1>8, <1>9, <1>10, <1>11 DEF PlanInv

-----------------------------------------------------------------------------
(* The invariant holds in every state of the planner.                       *)
THEOREM PlanInvariant == Spec => []PlanInv
<1>1. Init => PlanInv
  BY InitPlan
<1>2. ASSUME PlanInv, [Next]_vars
      PROVE  PlanInv'
  <2>1. CASE PickLargest
    BY <1>2, <2>1, PinKeeps, StartKeeps DEF PickLargest
  <2>2. CASE Walk
    BY <1>2, <2>2, WalkKeeps
  <2>3. CASE Place
    BY <1>2, <2>3, PlaceKeeps
  <2>4. CASE UNCHANGED vars
    BY <1>2, <2>4 DEF vars, inputVars, walkVars, PlanInv, TypeOK, PlacedDone, InOrder, Cleared,
       NeverOverlap, Shares, LiveTogether, Meet, End
  <2> QED
    BY <1>2, <2>1, <2>2, <2>3, <2>4 DEF Next, Planned
<1> QED
  BY <1>1, <1>2, PTL DEF Spec

(* plan() never gives two images that are live in one stage the same        *)
(* memory, and its totals cover every image, whatever the images.           *)
THEOREM PlanNeverOverlaps == Spec => []NeverOverlap
<1>1. PlanInv => NeverOverlap
  BY DEF PlanInv
<1> QED
  BY <1>1, PlanInvariant, PTL

-----------------------------------------------------------------------------
(* The pipeline.                                                            *)

(* Nothing is planned before the lifetimes are there, and nothing runs      *)
(* before every image is placed.                                            *)
NothingYet ==
  /\ engine = "none" /\ iteration = 0 /\ total = 0 /\ frame = 0
  /\ generated = FALSE /\ timestamp = 0
  /\ block = [iteration |-> 0, timestamp |-> 0] /\ queue = <<>>
  /\ sourceLayers = [l \in 0..1 |-> 0]

(* The planner has not begun.                                               *)
NothingPlaced ==
  /\ placed = <<>> /\ transient = 0 /\ pinned = 0
  /\ offset = [i \in Items |-> 0] /\ item = 0 /\ off = 0 /\ next = 1

(* The schedule is never longer than the passes it has taken.               *)
ScheduleTypes ==
  /\ stages \in Seq(SUBSET Passes) /\ remaining \subseteq Passes
  /\ main \in BOOLEAN /\ split \in 0..Len(stages) /\ (~main => split = 0)
  /\ Len(stages) + Cardinality(remaining) <= Destination

(* Every pass is in one stage or remains, and main passes are behind the    *)
(* split.                                                                   *)
Partitioned ==
  /\ written = {Source} \cup (Passes \ remaining)
  /\ \A x \in Passes : x \in remaining <=> \A i \in 1..Len(stages) : x \notin stages[i]
  /\ \A i, j \in 1..Len(stages) : stages[i] \cap stages[j] # {} => i = j
  /\ \A i \in 1..Len(stages) : \A x \in stages[i] : x >= SplitPass <=> main /\ i > split

(* A pass comes behind what it reads.                                       *)
InputsBehind ==
  \A i \in 1..Len(stages) : \A x \in stages[i] : \A y \in Inputs[x] :
    y = Source \/ \E j \in 1..(i - 1) : y \in stages[j]

(* And right behind the last of it, unless it is of the first stage of its  *)
(* side: what waits has an input that the last stage wrote or that remains. *)
RightBehind ==
  /\ \A i \in 1..Len(stages) : \A x \in stages[i] :
       x >= SplitPass /\ i # split + 1 => \E y \in Inputs[x] : y \in stages[i - 1]
  /\ main /\ Len(stages) > split =>
       \A x \in remaining : x >= SplitPass =>
         \E y \in Inputs[x] : y # Source /\ \A j \in 1..(Len(stages) - 1) : y \notin stages[j]

(* The schedule, while it is made and afterwards.                           *)
ScheduleInv == ScheduleTypes /\ Partitioned /\ InputsBehind /\ RightBehind

(* The lifetime of an image is from the stage that writes it to the last    *)
(* that reads it, if the loop has come to it.                               *)
Lived(x, r) ==
  \E i \in 1..at :
    /\ x \in stages[i] /\ lifetime[x] = <<i - 1, r>> /\ r \in (i - 1)..(at - 1)
    /\ \A j \in 0..(at - 1) : x \in Reads(j) => j <= r
    /\ r >= i => x \in Reads(r)

(* An image has a lifetime when the loop has come to the stage that writes  *)
(* it, unless it is pinned.                                                 *)
LifetimeInv ==
  /\ lifetime \in [ImageIds -> {None} \cup (Nat \X Nat)]
  /\ at \in 0..Len(stages)
  /\ \A x \in ImageIds :
       IF x \in Pinned \/ \A i \in 1..at : x \notin stages[i] THEN lifetime[x] = None
       ELSE \E r \in Nat : Lived(x, r)

(* What is still empty at each step of the constructor, and what it leaves. *)
Phases ==
  /\ progress \in {"schedule", "lifetimes", "plan", "run"}
  /\ progress = "schedule" => at = 0
  /\ progress # "schedule" => remaining = {}
  /\ progress \in {"schedule", "lifetimes"} => NothingPlaced
  /\ progress # "run" => NothingYet
  /\ progress \in {"plan", "run"} =>
       at = Len(stages) /\ PlanInv /\ life = [i \in Items |-> lifetime[i]]
  /\ progress = "run" => todo = {} /\ iteration > 0

(* The tables: the schedule, the lifetimes and the plan.                    *)
TableInv == ScheduleInv /\ LifetimeInv /\ Phases

-----------------------------------------------------------------------------
(* What is encoded is in the order it was encoded in, each entry with the   *)
(* one that has to wait for it behind it.                                   *)
Ops == {"copyin", "prepass", "update", "main", "copyout"}

(* The parameters of a pass, and what the caller encodes.                   *)
Uniforms == [iteration : Nat, timestamp : Nat]
Entries == [op : Ops, iteration : Nat, frame : Nat, at : Nat, block : Uniforms]

(* What may come right behind an entry, and what it shares with it.         *)
Follows(a, b) ==
  \/ a.op = "copyin" /\ b.op = "prepass" /\ b.block = a.block
  \/ /\ a.op \in {"prepass", "copyout"} /\ b.frame = a.frame + 1
     /\ b.op = IF engine = "vulkan" THEN "update" ELSE "main"
  \/ a.op = "update" /\ b.op = "main" /\ b.frame = a.frame /\ b.block = a.block
  \/ a.op = "main" /\ b.op = "copyout" /\ b.frame = a.frame /\ b.block = a.block

(* The stage a pass starts at.                                              *)
FirstStage(op) == IF op = "main" THEN split ELSE 0

(* Where the entry at the head may be.                                      *)
AtStage(e) ==
  CASE e.op = "prepass" -> e.at \in 0..(split - 1)
    [] e.op = "main" -> e.at \in split..(Len(stages) - 1)
    [] OTHER -> e.at = 0

(* A queue is of one iteration, only its head has begun, and each entry     *)
(* follows from the one ahead of it.                                        *)
Orderly(q) ==
  /\ q \in Seq(Entries)
  /\ \A k \in 1..Len(q) : q[k].iteration = iteration /\ q[k].block.iteration = iteration
  /\ \A k \in 1..(Len(q) - 1) : Follows(q[k], q[k + 1])
  /\ \A k \in 2..Len(q) : q[k].at = FirstStage(q[k].op)
  /\ q # <<>> => AtStage(q[1])
  /\ \A k \in 1..Len(q) : q[k].op = "update" => engine = "vulkan"
  /\ \A k \in 1..Len(q) : q[k].op = "prepass" => q[k].frame = 0

(* What is encoded is orderly.                                              *)
Queued == Orderly(queue)

(* The last entry is what the caller encoded last.                          *)
LastEncoded ==
  queue # <<>> =>
    LET e == queue[Len(queue)]
    IN /\ e.block = [iteration |-> iteration, timestamp |-> timestamp]
       /\ IF generated THEN e.op = "main" /\ e.frame = frame + 1
          ELSE e.op \in {"prepass", "copyout"} /\ e.frame = frame

(* The block holds what the entry at the head is to run with, and with      *)
(* nothing encoded what the next pre-pass is.                               *)
BlockHeld ==
  /\ block.iteration = iteration
  /\ engine = "vulkan" =>
       /\ queue = <<>> => block.timestamp = timestamp
       /\ queue # <<>> /\ queue[1].op # "update" => queue[1].block = block

(* The source's layers hold the last two game frames, but for the newest    *)
(* while its copy is still to run.                                          *)
SourceHeld ==
  /\ sourceLayers \in [0..1 -> Nat]
  /\ progress = "run" => sourceLayers[(iteration + 1) % 2] = iteration - 1
  /\ queue = <<>> \/ queue[1].op # "copyin" => sourceLayers[iteration % 2] = iteration

(* The stages of the pre-pass, and of the main pass at the head, that have  *)
(* run; and what of their images a later stage may read.                    *)
PrePassStages ==
  IF queue = <<>> THEN split
  ELSE CASE queue[1].op = "copyin" -> 0 [] queue[1].op = "prepass" -> queue[1].at [] OTHER -> split

(* An image that a stage from s on may still read.                          *)
Kept(y, s) == y \in Pinned \/ lifetime[y][2] >= s

(* What the pre-pass wrote is there for as long as it may be read.          *)
PrePassHeld ==
  progress = "run" =>
    \A s \in 0..(PrePassStages - 1) : \A y \in stages[s + 1] :
      Kept(y, PrePassStages) => holds[y] = <<iteration, 0>>

(* And what the main pass at the head wrote.                                *)
MainHeld ==
  queue # <<>> /\ queue[1].op = "main" =>
    \A s \in split..(queue[1].at - 1) : \A y \in stages[s + 1] :
      Kept(y, queue[1].at) => holds[y] = <<iteration, queue[1].frame>>

(* The destination is of the frame that its copy is for.                    *)
DestinationHeld ==
  /\ queue = <<>> /\ generated => holds[Destination] = <<iteration, frame + 1>>
  /\ queue # <<>> /\ queue[1].op = "copyout" => holds[Destination] = <<iteration, queue[1].frame>>

(* The types of what the run changes.                                       *)
RunTypes ==
  /\ engine \in {"none", "vulkan", "native"} /\ (progress = "run" => engine # "none")
  /\ iteration \in Nat /\ total \in Nat /\ frame \in Nat /\ generated \in BOOLEAN
  /\ timestamp \in Nat /\ block \in Uniforms /\ DOMAIN holds = Passes

(* What holds of the queue and of the images while frames are produced.     *)
RunInv ==
  /\ RunTypes /\ Queued /\ LastEncoded /\ BlockHeld
  /\ SourceHeld /\ PrePassHeld /\ MainHeld /\ DestinationHeld

(* The inductive invariant of the pipeline.                                 *)
PipelineInv == TableInv /\ RunInv
-----------------------------------------------------------------------------
(* The tables.                                                              *)

(* The chains, and the images of a chain.                                   *)
OnChain(x, kind, step, k) ==
  /\ step \in Levels /\ kind \in Kinds(step) /\ k \in 0..4
  /\ x = ChainStart(kind, step) + k

(* The chains are between the mipmap of the betas and the destination.      *)
LEMMA ChainStartIs ==
  ASSUME NEW kind, NEW step \in Levels, kind \in Kinds(step)
  PROVE  ChainStart(kind, step) \in 35..95
  BY SMT DEF Levels, Kinds, ChainStart, BetaMip

(* The five images of a chain are its own.                                  *)
LEMMA ChainsApart ==
  ASSUME NEW x, NEW kind, NEW step, NEW k, OnChain(x, kind, step, k),
         NEW kind2, NEW step2, NEW k2, OnChain(x, kind2, step2, k2)
  PROVE  kind = kind2 /\ step = step2 /\ k = k2
<1>1. /\ step \in 0..6 /\ step2 \in 0..6 /\ k \in 0..4 /\ k2 \in 0..4
      /\ kind \in {"gamma", "delta", "epsilon"} /\ kind2 \in {"gamma", "delta", "epsilon"}
      /\ step < 4 => kind = "gamma"
      /\ step2 < 4 => kind2 = "gamma"
  BY SMT DEF OnChain, Levels, Kinds
<1> DEFINE start(a, n) == IF n < 4 THEN 35 + 5 * n ELSE 55 + 15 * (n - 4)
                            + CASE a = "gamma" -> 0 [] a = "delta" -> 5 [] a = "epsilon" -> 10
<1>2. x = start(kind, step) + k /\ x = start(kind2, step2) + k2
  BY <1>1, SMT DEF OnChain, ChainStart, BetaMip
<1>3. CASE step < 4 \/ step2 < 4
  BY <1>1, <1>2, <1>3, SMT
<1>4. CASE ~(step < 4 \/ step2 < 4)
  BY <1>1, <1>2, <1>4, SMT
<1> QED
  BY <1>3, <1>4

(* What the passes of a chain read.                                         *)
LEMMA ChainInputsAre ==
  ASSUME NEW x, NEW kind, NEW step, NEW k, OnChain(x, kind, step, k)
  PROVE  /\ x \in 35..99
         /\ k = 0 => Inputs[x] = FirstInputs(kind, step)
         /\ k \in 1..3 => Inputs[x] = {x - 1}
         /\ k = 4 => Inputs[x] = {x - 1} \cup LastInputs(kind, step)
<1> DEFINE P(c) == c.kind \in Kinds(c.step) /\ x - ChainStart(c.kind, c.step) \in 0..4
           c == CHOOSE d \in Chains : P(d)
           e == [kind |-> kind, step |-> step]
<1>1. x \in 35..99 /\ k \in 0..4 /\ ChainStart(kind, step) \in Int
  BY SMT DEF OnChain, Levels, Kinds, ChainStart, BetaMip
<1>2. e \in Chains /\ P(e)
  <2>1. kind \in {"gamma", "delta", "epsilon"} /\ step \in Levels
    BY SMT DEF OnChain, Kinds
  <2>2. x - ChainStart(kind, step) = k
    BY <1>1, SMT DEF OnChain
  <2> QED
    BY <1>1, <2>1, <2>2 DEF OnChain, Chains
<1>3. c \in Chains /\ P(c)
  BY <1>2, Zenon
<1>4. OnChain(x, c.kind, c.step, x - ChainStart(c.kind, c.step))
  <2>1. c.step \in Levels /\ c.kind \in Kinds(c.step) /\ x - ChainStart(c.kind, c.step) \in 0..4
    BY <1>3 DEF Chains
  <2>2. ChainStart(c.kind, c.step) \in Int
    BY <2>1, ChainStartIs
  <2>3. x = ChainStart(c.kind, c.step) + (x - ChainStart(c.kind, c.step))
    BY <1>1, <2>2, SMT
  <2> HIDE DEF c
  <2> QED
    BY <2>1, <2>3 DEF OnChain
<1>5. c.kind = kind /\ c.step = step /\ x - ChainStart(c.kind, c.step) = k
  <2> HIDE DEF c
  <2> QED
    BY <1>4, ChainsApart
<1>6. Inputs[x] = ChainInputs(x)
  BY <1>1, SMT DEF Inputs, Passes, Destination, SplitPass
<1>7. ChainInputs(x) = CASE k = 0 -> FirstInputs(kind, step)
                         [] k \in 1..3 -> {x - 1}
                         [] k = 4 -> {x - 1} \cup LastInputs(kind, step)
  BY <1>5 DEF ChainInputs
<1> QED
  BY <1>1, <1>6, <1>7, SMT

(* Every main pass but the last is of a chain.                              *)
LEMMA EveryChain ==
  ASSUME NEW x \in 35..99
  PROVE  \E kind, step, k : OnChain(x, kind, step, k)
<1>1. CASE x \in 35..54
  <2>1. \E n \in 0..3, k \in 0..4 : x = 35 + 5 * n + k
    BY <1>1, SMT
  <2>2. PICK n \in 0..3, k \in 0..4 : x = 35 + 5 * n + k
    BY <2>1
  <2>3. OnChain(x, "gamma", n, k)
    BY <2>2, SMT DEF OnChain, Levels, Kinds, ChainStart, BetaMip
  <2> QED
    BY <2>3
<1>2. CASE x \in 55..99
  <2>1. \E n \in 4..6, m \in 0..2, k \in 0..4 : x = 55 + 15 * (n - 4) + 5 * m + k
    BY <1>2, SMT
  <2>2. PICK n \in 4..6, m \in 0..2, k \in 0..4 : x = 55 + 15 * (n - 4) + 5 * m + k
    BY <2>1
  <2>3. OnChain(x, CASE m = 0 -> "gamma" [] m = 1 -> "delta" [] m = 2 -> "epsilon", n, k)
    BY <2>2, SMT DEF OnChain, Levels, Kinds, ChainStart, BetaMip
  <2> QED
    BY <2>3
<1> QED
  BY <1>1, <1>2, SMT

-----------------------------------------------------------------------------
(* The stages, once all passes are in one.                                  *)
Staged == ScheduleInv /\ LifetimeInv /\ remaining = {} /\ at = Len(stages)

(* The stage of a pass, and the last image of a chain.                      *)
StageNumber(x) == CHOOSE i \in 1..Len(stages) : x \in stages[i]
ChainEnd(kind, step) == ChainStart(kind, step) + 4

(* Every pass is in one stage, and the main passes are in those behind the  *)
(* split.                                                                   *)
LEMMA StageNumberIs ==
  ASSUME Staged, NEW x \in Passes
  PROVE  /\ StageNumber(x) \in 1..Len(stages) /\ x \in stages[StageNumber(x)]
         /\ \A i \in 1..Len(stages) : x \in stages[i] => i = StageNumber(x)
         /\ x >= SplitPass <=> StageNumber(x) > split
<1>1. /\ \A y \in Passes : \E i \in 1..Len(stages) : y \in stages[i]
      /\ \A i, j \in 1..Len(stages) : stages[i] \cap stages[j] # {} => i = j
      /\ \A i \in 1..Len(stages) : \A y \in stages[i] : y >= SplitPass <=> main /\ i > split
  BY DEF Staged, ScheduleInv, Partitioned
<1>2. StageNumber(x) \in 1..Len(stages) /\ x \in stages[StageNumber(x)]
  BY <1>1 DEF StageNumber
<1>3. ASSUME NEW i \in 1..Len(stages), x \in stages[i]
      PROVE  i = StageNumber(x)
  BY <1>1, <1>2, <1>3
<1>4. main
  <2>1. Destination \in Passes /\ Destination >= SplitPass
    BY SMT DEF Passes, Destination, SplitPass
  <2>2. PICK i \in 1..Len(stages) : Destination \in stages[i]
    BY <1>1, <2>1
  <2> QED
    BY <1>1, <2>1, <2>2
<1> QED
  BY <1>1, <1>2, <1>3, <1>4

(* A pass comes behind those it reads.                                      *)
LEMMA StageBehind ==
  ASSUME Staged, NEW x \in Passes, NEW y \in Inputs[x], y # Source
  PROVE  y \in Passes /\ StageNumber(y) < StageNumber(x)
<1>1. StageNumber(x) \in 1..Len(stages) /\ x \in stages[StageNumber(x)]
  BY StageNumberIs
<1>2. PICK j \in 1..(StageNumber(x) - 1) : y \in stages[j]
  BY <1>1 DEF Staged, ScheduleInv, InputsBehind
<1>3. j \in 1..Len(stages) /\ y \in Passes
  BY <1>1, <1>2 DEF Staged, ScheduleInv, ScheduleTypes
<1>4. j = StageNumber(y)
  BY <1>2, <1>3, StageNumberIs
<1> QED
  BY <1>1, <1>2, <1>3, <1>4

(* A main pass is of the first stage behind the split, or comes right       *)
(* behind one it reads.                                                     *)
LEMMA StageRightBehind ==
  ASSUME Staged, NEW x \in Passes, x >= SplitPass, StageNumber(x) # split + 1
  PROVE  \E y \in Inputs[x] : y \in Passes /\ StageNumber(y) = StageNumber(x) - 1
<1>1. StageNumber(x) \in 1..Len(stages) /\ x \in stages[StageNumber(x)] /\ StageNumber(x) > split
  BY StageNumberIs
<1>2. PICK y \in Inputs[x] : y \in stages[StageNumber(x) - 1]
  BY <1>1 DEF Staged, ScheduleInv, RightBehind
<1>3. StageNumber(x) - 1 \in 1..Len(stages)
  BY <1>1 DEF Staged, ScheduleInv, ScheduleTypes
<1>4. y \in Passes
  BY <1>2, <1>3 DEF Staged, ScheduleInv, ScheduleTypes
<1> QED
  BY <1>2, <1>3, <1>4, StageNumberIs

(* Along a chain each image is a stage or more behind the one before.       *)
LEMMA ChainRises ==
  ASSUME Staged, NEW x, NEW kind, NEW step, NEW k, OnChain(x, kind, step, k)
  PROVE  /\ x \in Passes /\ ChainEnd(kind, step) \in Passes
         /\ StageNumber(x) \in Nat /\ StageNumber(ChainEnd(kind, step)) \in Nat
         /\ split + 1 + k <= StageNumber(x)
         /\ StageNumber(x) + (4 - k) <= StageNumber(ChainEnd(kind, step))
<1> DEFINE s == ChainStart(kind, step)
<1>1. s \in 35..95 /\ k \in 0..4 /\ x = s + k
  BY ChainStartIs DEF OnChain
<1>2. \A n \in 0..4 : OnChain(s + n, kind, step, n) /\ s + n \in Passes /\ s + n >= SplitPass
  BY <1>1, SMT DEF OnChain, Passes, Destination, SplitPass
<1>3. \A n \in 0..4 : StageNumber(s + n) \in Nat /\ StageNumber(s + n) > split
  BY <1>2, StageNumberIs, SMT DEF Staged, ScheduleInv, ScheduleTypes
<1>4. ASSUME NEW n \in 1..4
      PROVE  StageNumber(s + (n - 1)) < StageNumber(s + n)
  <2>1. (s + n) - 1 \in Inputs[s + n]
    BY <1>2, ChainInputsAre, SMT
  <2>2. (s + n) - 1 = s + (n - 1) /\ s + (n - 1) # Source
    BY <1>1, SMT DEF Source
  <2> QED
    BY <1>2, <2>1, <2>2, StageBehind
<1>5. /\ StageNumber(s + 0) < StageNumber(s + 1) /\ StageNumber(s + 1) < StageNumber(s + 2)
      /\ StageNumber(s + 2) < StageNumber(s + 3) /\ StageNumber(s + 3) < StageNumber(s + 4)
  <2> HIDE DEF s
  <2>1. \A n \in 1..4 : StageNumber(s + (n - 1)) < StageNumber(s + n)
    BY <1>4
  <2>2. 1 - 1 = 0 /\ 2 - 1 = 1 /\ 3 - 1 = 2 /\ 4 - 1 = 3
    BY SMT
  <2> QED
    BY <2>1, <2>2, SMT
<1>6. split \in Nat
  BY DEF Staged, ScheduleInv, ScheduleTypes
<1>7. ChainEnd(kind, step) = s + 4
  BY DEF ChainEnd
<1> HIDE DEF s
<1>8. k = 0 \/ k = 1 \/ k = 2 \/ k = 3 \/ k = 4
  BY <1>1, SMT
<1>9. x \in Passes /\ ChainEnd(kind, step) \in Passes
      /\ StageNumber(x) \in Nat /\ StageNumber(ChainEnd(kind, step)) \in Nat
  BY <1>1, <1>2, <1>3, <1>7
<1>10. split + 1 + k <= StageNumber(x) /\ StageNumber(x) + (4 - k) <= StageNumber(s + 4)
  BY <1>1, <1>3, <1>5, <1>6, <1>8, SMT
<1> QED
  BY <1>7, <1>9, <1>10

(* A chain starts behind the end of the one before it.                      *)
LEMMA ChainFollows ==
  ASSUME Staged, NEW kind \in {"gamma", "delta"}, NEW step \in 1..6, kind \in Kinds(step - 1)
  PROVE  StageNumber(ChainEnd(kind, step - 1)) + 5 <= StageNumber(ChainEnd(kind, step))
<1> DEFINE s == ChainStart(kind, step)
<1>1. kind \in Kinds(step) /\ step \in Levels /\ step - 1 \in Levels
  BY SMT DEF Kinds, Levels
<1>2. OnChain(s, kind, step, 0) /\ OnChain(ChainEnd(kind, step - 1), kind, step - 1, 4)
  BY <1>1, ChainStartIs, SMT DEF OnChain, ChainEnd
<1>3. ChainEnd(kind, step - 1) \in Inputs[s]
  <2>1. Inputs[s] = FirstInputs(kind, step)
    BY <1>2, ChainInputsAre
  <2>2. Before(kind, step) = {ChainEnd(kind, step - 1)} /\ kind # "epsilon"
    BY SMT DEF Before, ChainEnd
  <2> QED
    BY <2>1, <2>2 DEF FirstInputs
<1>4. s \in Passes /\ ChainEnd(kind, step - 1) # Source
  BY <1>2, ChainRises, SMT DEF Source, Passes
<1>5. StageNumber(ChainEnd(kind, step - 1)) < StageNumber(s)
  BY <1>3, <1>4, StageBehind
<1>6. /\ StageNumber(s) + 4 <= StageNumber(ChainEnd(kind, step))
      /\ StageNumber(s) \in Nat /\ StageNumber(ChainEnd(kind, step)) \in Nat
  BY <1>2, ChainRises
<1>7. StageNumber(ChainEnd(kind, step - 1)) \in Nat
  BY <1>2, ChainRises
<1> QED
  BY <1>5, <1>6, <1>7, SMT

(* The first pass of an epsilon chain comes right behind the results of the *)
(* step before, and the last right behind the one before it or the chain of *)
(* the step before: it is no longer than the others'.                       *)
LEMMA EpsilonFollows ==
  ASSUME Staged, NEW step \in 4..6
  PROVE  LET e == StageNumber(ChainEnd("epsilon", step))
         IN \/ e <= split + 5
            \/ e <= StageNumber(ChainEnd("gamma", step - 1)) + 5
            \/ step > 4 /\ e <= StageNumber(ChainEnd("delta", step - 1)) + 5
            \/ step > 4 /\ e <= StageNumber(ChainEnd("epsilon", step - 1)) + 1
<1> DEFINE s == ChainStart("epsilon", step)
<1>1. s \in 35..95 /\ "epsilon" \in Kinds(step) /\ step \in Levels
  <2>1. "epsilon" \in Kinds(step) /\ step \in Levels
    BY SMT DEF Kinds, Levels
  <2> QED
    BY <2>1, ChainStartIs
<1>2. \A k \in 0..4 : OnChain(s + k, "epsilon", step, k)
  BY <1>1 DEF OnChain
<1>3. \A k \in 0..4 : s + k \in Passes /\ s + k >= SplitPass /\ StageNumber(s + k) \in Nat
  <2>1. \A k \in 0..4 : s + k \in Passes /\ StageNumber(s + k) \in Nat
    BY <1>2, ChainRises
  <2> QED
    BY <1>1, <2>1, SMT DEF SplitPass
<1>4. split \in Nat
  BY DEF Staged, ScheduleInv, ScheduleTypes
<1>5. \A y \in Before("gamma", step) : y = ChainEnd("gamma", step - 1)
  BY DEF Before, ChainEnd
<1>6. \A y \in Before("delta", step) : step > 4 /\ y = ChainEnd("delta", step - 1)
  BY SMT DEF Before, ChainEnd, Kinds
<1>7. \A y \in Before("epsilon", step) : step > 4 /\ y = ChainEnd("epsilon", step - 1)
  BY SMT DEF Before, ChainEnd, Kinds
<1>8. \/ StageNumber(s) = split + 1
      \/ StageNumber(s) = StageNumber(ChainEnd("gamma", step - 1)) + 1
      \/ step > 4 /\ StageNumber(s) = StageNumber(ChainEnd("delta", step - 1)) + 1
  <2> SUFFICES ASSUME StageNumber(s) # split + 1
               PROVE  \/ StageNumber(s) = StageNumber(ChainEnd("gamma", step - 1)) + 1
                      \/ step > 4 /\ StageNumber(s) = StageNumber(ChainEnd("delta", step - 1)) + 1
    OBVIOUS
  <2>1. s = s + 0 /\ s \in Passes /\ s >= SplitPass /\ StageNumber(s) \in Nat
    <3>1. s = s + 0 /\ 0 \in 0..4
      BY <1>1, SMT
    <3> QED
      BY <1>3, <3>1
  <2>2. PICK y \in Inputs[s] : y \in Passes /\ StageNumber(y) = StageNumber(s) - 1
    BY <2>1, StageRightBehind
  <2>3. y \in {Pyramid(6 - step)} \cup Before("gamma", step) \cup Before("delta", step)
    <3>1. OnChain(s, "epsilon", step, 0)
      <4>1. 0 \in 0..4
        BY SMT
      <4> QED
        BY <1>2, <2>1, <4>1
    <3>2. Inputs[s] = FirstInputs("epsilon", step)
      BY <3>1, ChainInputsAre
    <3> QED
      BY <2>2, <3>2 DEF FirstInputs
  <2>4. y # Pyramid(6 - step)
    <3>1. Pyramid(6 - step) \in 1..34
      BY SMT DEF Pyramid
    <3>2. StageNumber(s) > split + 1
      BY <1>4, <2>1, StageNumberIs, SMT
    <3>3. StageNumber(y) > split
      BY <1>4, <2>1, <2>2, <3>2, SMT
    <3>4. y >= SplitPass
      BY <2>2, <3>3, StageNumberIs
    <3> QED
      BY <3>1, <3>4, SMT DEF SplitPass
  <2>5. \/ y = ChainEnd("gamma", step - 1)
        \/ step > 4 /\ y = ChainEnd("delta", step - 1)
    BY <1>5, <1>6, <2>3, <2>4
  <2>6. StageNumber(y) \in Nat
    BY <2>2, StageNumberIs
  <2>7. StageNumber(s) = StageNumber(y) + 1
    BY <2>1, <2>2, <2>6, SMT
  <2> QED
    BY <2>5, <2>7
<1>9. ASSUME NEW k \in 1..3
      PROVE  StageNumber(s + k) <= StageNumber(s + (k - 1)) + 1
  <2>1. Inputs[s + k] = {(s + k) - 1} /\ (s + k) - 1 = s + (k - 1)
    <3>1. OnChain(s + k, "epsilon", step, k)
      BY <1>2
    <3> QED
      BY <1>1, <3>1, ChainInputsAre, SMT
  <2>2. /\ s + k \in Passes /\ s + k >= SplitPass /\ StageNumber(s + k) \in Nat
        /\ StageNumber(s + (k - 1)) \in Nat
    <3>1. k \in 0..4 /\ k - 1 \in 0..4
      BY SMT
    <3> QED
      BY <1>3, <3>1
  <2>3. StageNumber(s + (k - 1)) >= split + 1
    <3>1. k - 1 \in 0..4
      BY SMT
    <3>2. s + (k - 1) \in Passes /\ s + (k - 1) >= SplitPass
      BY <1>3, <3>1
    <3> QED
      BY <1>4, <2>2, <3>2, StageNumberIs, SMT
  <2>4. CASE StageNumber(s + k) = split + 1
    BY <1>4, <2>2, <2>3, <2>4, SMT
  <2>5. CASE StageNumber(s + k) # split + 1
    <3>1. StageNumber(s + (k - 1)) = StageNumber(s + k) - 1
      BY <2>1, <2>2, <2>5, StageRightBehind
    <3> QED
      BY <2>2, <3>1, SMT
  <2> QED
    BY <2>4, <2>5
<1>10. \/ StageNumber(s + 4) <= split + 1
       \/ StageNumber(s + 4) <= StageNumber(s + 3) + 1
       \/ step > 4 /\ StageNumber(s + 4) <= StageNumber(ChainEnd("epsilon", step - 1)) + 1
  <2> SUFFICES ASSUME StageNumber(s + 4) # split + 1
               PROVE  \/ StageNumber(s + 4) <= StageNumber(s + 3) + 1
                      \/ step > 4 /\ StageNumber(s + 4) <= StageNumber(ChainEnd("epsilon", step - 1)) + 1
    BY <1>3, <1>4, SMT
  <2>1. s + 4 \in Passes /\ s + 4 >= SplitPass /\ StageNumber(s + 4) \in Nat
    <3>1. 4 \in 0..4
      BY SMT
    <3> QED
      BY <1>3, <3>1
  <2>2. PICK y \in Inputs[s + 4] : y \in Passes /\ StageNumber(y) = StageNumber(s + 4) - 1
    BY <2>1, StageRightBehind
  <2>3. y = s + 3 \/ y \in Before("epsilon", step)
    <3>1. OnChain(s + 4, "epsilon", step, 4) /\ (s + 4) - 1 = s + 3
      BY <1>1, <1>2, SMT
    <3>2. Inputs[s + 4] = {s + 3} \cup LastInputs("epsilon", step)
      BY <3>1, ChainInputsAre
    <3> QED
      BY <2>2, <3>2 DEF LastInputs
  <2>4. y = s + 3 \/ (step > 4 /\ y = ChainEnd("epsilon", step - 1))
    BY <1>7, <2>3
  <2>5. StageNumber(y) \in Nat
    BY <2>2, StageNumberIs
  <2>6. StageNumber(s + 4) <= StageNumber(y) + 1
    BY <2>1, <2>2, <2>5, SMT
  <2> QED
    BY <2>4, <2>6
<1>11. /\ StageNumber(s + 1) <= StageNumber(s) + 1
       /\ StageNumber(s + 2) <= StageNumber(s + 1) + 1
       /\ StageNumber(s + 3) <= StageNumber(s + 2) + 1
  <2> HIDE DEF s
  <2>1. 1 - 1 = 0 /\ 2 - 1 = 1 /\ 3 - 1 = 2 /\ s + 0 = s
    BY <1>1, SMT
  <2>2. 1 \in 1..3 /\ 2 \in 1..3 /\ 3 \in 1..3
    BY SMT
  <2> QED
    BY <1>9, <2>1, <2>2
<1>12. /\ StageNumber(s) \in Nat /\ StageNumber(s + 1) \in Nat /\ StageNumber(s + 2) \in Nat
       /\ StageNumber(s + 3) \in Nat /\ StageNumber(s + 4) \in Nat
  <2>1. s = s + 0 /\ 0 \in 0..4 /\ 1 \in 0..4 /\ 2 \in 0..4 /\ 3 \in 0..4 /\ 4 \in 0..4
    BY <1>1, SMT
  <2> QED
    BY <1>3, <2>1
<1>13. ChainEnd("epsilon", step) = s + 4
  BY DEF ChainEnd
<1>14. /\ StageNumber(ChainEnd("gamma", step - 1)) \in Nat
       /\ step > 4 => /\ StageNumber(ChainEnd("delta", step - 1)) \in Nat
                      /\ StageNumber(ChainEnd("epsilon", step - 1)) \in Nat
  <2>1. step - 1 \in Levels /\ "gamma" \in Kinds(step - 1)
    BY SMT DEF Levels, Kinds
  <2>2. step > 4 => "delta" \in Kinds(step - 1) /\ "epsilon" \in Kinds(step - 1)
    BY SMT DEF Levels, Kinds
  <2>3. \A kind \in Kinds(step - 1) : OnChain(ChainStart(kind, step - 1), kind, step - 1, 0)
    BY <2>1, ChainStartIs, SMT DEF OnChain
  <2> QED
    BY <2>1, <2>2, <2>3, ChainRises
<1> HIDE DEF s
<1> QED
  BY <1>4, <1>8, <1>10, <1>11, <1>12, <1>13, <1>14, SMT

(* The end of each chain is behind no later than that of the last gamma or  *)
(* delta chain.                                                             *)
LEMMA LastEnds ==
  ASSUME Staged, NEW step \in Levels, NEW kind \in Kinds(step)
  PROVE  LET e == StageNumber(ChainEnd(kind, step))
         IN e <= StageNumber(ChainEnd("gamma", 6)) \/ e <= StageNumber(ChainEnd("delta", 6))
<1> DEFINE g(n) == StageNumber(ChainEnd("gamma", n))
           d(n) == StageNumber(ChainEnd("delta", n))
           e(n) == StageNumber(ChainEnd("epsilon", n))
<1>1. \A n \in Levels : \A a \in Kinds(n) :
        StageNumber(ChainEnd(a, n)) \in Nat /\ split + 5 <= StageNumber(ChainEnd(a, n))
  <2> SUFFICES ASSUME NEW n \in Levels, NEW a \in Kinds(n)
               PROVE  StageNumber(ChainEnd(a, n)) \in Nat /\ split + 5 <= StageNumber(ChainEnd(a, n))
    OBVIOUS
  <2>1. OnChain(ChainEnd(a, n), a, n, 4)
    BY SMT DEF OnChain, ChainEnd
  <2>2. split + 1 + 4 <= StageNumber(ChainEnd(a, n)) /\ StageNumber(ChainEnd(a, n)) \in Nat
    BY <2>1, ChainRises
  <2> QED
    BY <2>2, SMT DEF Staged, ScheduleInv, ScheduleTypes
<1>2. split \in Nat
  BY DEF Staged, ScheduleInv, ScheduleTypes
<1>3. \A n \in 0..6 : g(n) \in Nat /\ split + 5 <= g(n)
  BY <1>1, SMT DEF Levels, Kinds
<1>4. \A n \in 4..6 : d(n) \in Nat /\ split + 5 <= d(n) /\ e(n) \in Nat
  BY <1>1, SMT DEF Levels, Kinds
<1>5. \A n \in 1..6 : g(n - 1) + 5 <= g(n)
  <2>1. \A n \in 1..6 : "gamma" \in Kinds(n - 1)
    BY SMT DEF Kinds
  <2> QED
    BY <2>1, ChainFollows
<1>6. \A n \in 5..6 : d(n - 1) + 5 <= d(n)
  <2>1. \A n \in 5..6 : "delta" \in Kinds(n - 1) /\ n \in 1..6
    BY SMT DEF Kinds
  <2> QED
    BY <2>1, ChainFollows
<1>7. \A n \in 4..6 :
        \/ e(n) <= split + 5
        \/ e(n) <= g(n - 1) + 5
        \/ n > 4 /\ e(n) <= d(n - 1) + 5
        \/ n > 4 /\ e(n) <= e(n - 1) + 1
  BY EpsilonFollows
<1> HIDE DEF g, d, e
<1>8. g(0) <= g(1) /\ g(1) <= g(2) /\ g(2) <= g(3) /\ g(3) + 5 <= g(4) /\ g(4) + 5 <= g(5) /\ g(5) + 5 <= g(6)
  BY <1>3, <1>5, SMT
<1>9. d(4) + 5 <= d(5) /\ d(5) + 5 <= d(6)
  BY <1>4, <1>6, SMT
<1>10. e(4) <= g(4)
  BY <1>2, <1>3, <1>4, <1>7, <1>8, SMT
<1>11. e(5) <= g(5) \/ e(5) <= d(5)
  BY <1>2, <1>3, <1>4, <1>7, <1>8, <1>9, <1>10, SMT
<1>12. e(6) <= g(6) \/ e(6) <= d(6)
  BY <1>2, <1>3, <1>4, <1>7, <1>8, <1>9, <1>11, SMT
<1>13. \A n \in 0..6 : g(n) <= g(6)
  BY <1>3, <1>8, SMT
<1>14. \A n \in 4..6 : d(n) <= d(6)
  BY <1>4, <1>9, SMT
<1>15. \A n \in 4..6 : e(n) <= g(6) \/ e(n) <= d(6)
  BY <1>3, <1>4, <1>8, <1>9, <1>10, <1>11, <1>12, SMT
<1>16. step \in 0..6 /\ (kind = "gamma" \/ (step \in 4..6 /\ kind \in {"delta", "epsilon"}))
  BY SMT DEF Levels, Kinds
<1> QED
  BY <1>13, <1>14, <1>15, <1>16 DEF g, d, e

-----------------------------------------------------------------------------
(* The memory.                                                              *)

(* A pass outside of the pinned ones lives from its stage on.               *)
LEMMA LifeIs ==
  ASSUME Staged, NEW x \in Passes, x \notin Pinned
  PROVE  \E r \in Nat :
           /\ lifetime[x] = <<StageNumber(x) - 1, r>> /\ StageNumber(x) - 1 <= r
           /\ \A j \in 0..(Len(stages) - 1) : x \in Reads(j) => j <= r
           /\ r >= StageNumber(x) => r \in 0..(Len(stages) - 1) /\ x \in Reads(r)
<1>1. StageNumber(x) \in 1..Len(stages) /\ x \in stages[StageNumber(x)]
      /\ \A i \in 1..Len(stages) : x \in stages[i] => i = StageNumber(x)
  BY StageNumberIs
<1>2. x \in ImageIds /\ at = Len(stages)
  BY DEF Staged, Passes, ImageIds
<1>3. PICK r \in Nat : Lived(x, r)
  BY <1>1, <1>2 DEF Staged, LifetimeInv
<1>4. PICK i \in 1..at :
        /\ x \in stages[i] /\ lifetime[x] = <<i - 1, r>> /\ r \in (i - 1)..(at - 1)
        /\ \A j \in 0..(at - 1) : x \in Reads(j) => j <= r
        /\ r >= i => x \in Reads(r)
  BY <1>3 DEF Lived
<1>5. i = StageNumber(x)
  BY <1>1, <1>2, <1>4
<1>6. r \in 0..(Len(stages) - 1) /\ StageNumber(x) - 1 <= r
  BY <1>1, <1>2, <1>4, <1>5, SMT
<1> QED
  BY <1>2, <1>4, <1>5, <1>6

(* A pinned image has no lifetime.                                          *)
LEMMA PinnedIs ==
  ASSUME Staged, NEW x \in Pinned
  PROVE  x \in ImageIds /\ lifetime[x] = None
<1>1. x \in ImageIds
  BY SMT DEF Pinned, Source, Destination, Pyramid, Levels, ImageIds
<1> QED
  BY <1>1 DEF Staged, LifetimeInv

(* What a stage reads is kept until then.                                   *)
LEMMA ReadIsKept ==
  ASSUME Staged, NEW s \in 0..(Len(stages) - 1), NEW x \in stages[s + 1], NEW y \in Inputs[x], y # Source
  PROVE  /\ y \in Passes /\ StageNumber(y) <= s /\ Kept(y, s)
<1>1. x \in Passes /\ s + 1 \in 1..Len(stages)
  BY DEF Staged, ScheduleInv, ScheduleTypes
<1>2. s + 1 = StageNumber(x)
  BY <1>1, StageNumberIs
<1>3. y \in Passes /\ StageNumber(y) < s + 1
  BY <1>1, <1>2, StageBehind
<1>4. y \in Reads(s)
  BY DEF Reads
<1>5. Kept(y, s)
  <2>1. CASE y \in Pinned
    BY <2>1 DEF Kept
  <2>2. CASE y \notin Pinned
    <3>1. PICK r \in Nat : lifetime[y] = <<StageNumber(y) - 1, r>> /\ (y \in Reads(s) => s <= r)
      BY <1>3, <2>2, LifeIs
    <3> QED
      BY <1>4, <3>1, SMT DEF Kept
  <2> QED
    BY <2>1, <2>2
<1>6. StageNumber(y) <= s
  BY <1>3, StageNumberIs, SMT
<1> QED
  BY <1>3, <1>5, <1>6

(* A main pass reads images of main passes, pinned ones and the mipmaps of  *)
(* the features.                                                            *)
LEMMA MainReads ==
  ASSUME NEW z \in 35..Destination, NEW y \in Inputs[z]
  PROVE  y \in Pinned \/ y \in 35..99 \/ y = BetaMip
<1>1. \A step \in Levels, a \in {"gamma", "delta", "epsilon"} : Before(a, step) \subseteq 35..99
  <2> SUFFICES ASSUME NEW step \in Levels, NEW a, NEW b \in Before(a, step)
               PROVE  b \in 35..99
    OBVIOUS
  <2>1. step > 0 /\ a \in Kinds(step - 1) /\ b = ChainStart(a, step - 1) + 4
    BY DEF Before
  <2>2. step - 1 \in Levels
    BY <2>1, SMT DEF Levels
  <2>3. ChainStart(a, step - 1) \in 35..95
    BY <2>1, <2>2, ChainStartIs
  <2> QED
    BY <2>1, <2>3, SMT
<1>2. CASE z = Destination
  <2>1. Inputs[z] = {Source} \cup {ChainStart(kind, 6) + 4 : kind \in Kinds(6)}
    BY <1>2, SMT DEF Inputs, Passes, Destination, SplitPass
  <2>2. CASE y = Source
    BY <2>2 DEF Pinned
  <2>3. CASE y # Source
    <3>1. PICK kind \in Kinds(6) : y = ChainStart(kind, 6) + 4
      BY <2>1, <2>3
    <3>2. 6 \in Levels
      BY SMT DEF Levels
    <3>3. ChainStart(kind, 6) \in 35..95
      BY <3>2, ChainStartIs
    <3> QED
      BY <3>1, <3>3, SMT
  <2> QED
    BY <2>2, <2>3
<1>3. CASE z # Destination
  <2>1. z \in 35..99
    BY <1>3, SMT DEF Destination
  <2>2. PICK kind, step, k : OnChain(z, kind, step, k)
    BY <2>1, EveryChain
  <2>3. step \in Levels /\ kind \in {"gamma", "delta", "epsilon"} /\ k \in 0..4
    BY <2>2 DEF OnChain, Kinds
  <2>4. ChainStart(kind, step) \in 35..95 /\ z = ChainStart(kind, step) + k
    BY <2>2, ChainStartIs DEF OnChain
  <2>5. CASE k = 0
    <3>1. y \in FirstInputs(kind, step)
      BY <2>2, <2>5, ChainInputsAre
    <3>2. y = Pyramid(6 - step) \/ \E a \in {"gamma", "delta", "epsilon"} : y \in Before(a, step)
      BY <2>3, <3>1 DEF FirstInputs
    <3>3. CASE y = Pyramid(6 - step)
      <4>1. 6 - step \in Levels
        BY <2>3, SMT DEF Levels
      <4> QED
        BY <3>3, <4>1 DEF Pinned
    <3> QED
      BY <1>1, <2>3, <3>2, <3>3
  <2>6. CASE k \in 1..4 /\ y = z - 1
    BY <2>1, <2>4, <2>6, SMT
  <2>7. CASE k = 4 /\ y # z - 1
    <3>1. y \in LastInputs(kind, step)
      BY <2>2, <2>7, ChainInputsAre
    <3>2. y \in Before(kind, step) \/ y = BetaMip
      BY <3>1 DEF LastInputs
    <3> QED
      BY <1>1, <2>3, <3>2
  <2>8. k \in 1..3 => y = z - 1
    BY <2>2, ChainInputsAre
  <2>9. k = 0 \/ k \in 1..3 \/ k = 4
    BY <2>3, SMT
  <2> QED
    BY <2>5, <2>6, <2>7, <2>8, <2>9, SMT
<1> QED
  BY <1>2, <1>3

(* What the pre-pass leaves for a stage of the main pass is left for all    *)
(* that write to the shared memory: besides the pinned images it is the     *)
(* mipmaps of the features, which the last two gamma and delta chains read  *)
(* when no pass of a chain is left.                                         *)
LEMMA LeftForMain ==
  ASSUME Staged, NEW y \in 1..34, Kept(y, split),
         NEW s \in split..(Len(stages) - 1), NEW x \in stages[s + 1], x # Destination
  PROVE  Kept(y, s)
<1> SUFFICES ASSUME y \notin Pinned
             PROVE  lifetime[y][2] >= s
  BY DEF Kept
<1>1. split \in Nat /\ Len(stages) \in Nat /\ s + 1 \in 1..Len(stages) /\ s \in Nat
  BY SMT DEF Staged, ScheduleInv, ScheduleTypes
<1>2. y \in Passes /\ ~(y >= SplitPass)
  BY SMT DEF Passes, Destination, SplitPass
<1>3. StageNumber(y) \in 1..Len(stages) /\ StageNumber(y) <= split
  BY <1>1, <1>2, StageNumberIs, SMT
<1>4. PICK r \in Nat :
        /\ lifetime[y] = <<StageNumber(y) - 1, r>> /\ StageNumber(y) - 1 <= r
        /\ \A j \in 0..(Len(stages) - 1) : y \in Reads(j) => j <= r
        /\ r >= StageNumber(y) => r \in 0..(Len(stages) - 1) /\ y \in Reads(r)
  BY <1>2, LifeIs
<1>5. r >= split
  BY <1>4 DEF Kept
<1>6. r \in 0..(Len(stages) - 1) /\ y \in Reads(r)
  BY <1>1, <1>3, <1>4, <1>5, SMT
<1>7. y = BetaMip
  <2>1. PICK z \in stages[r + 1] : y \in Inputs[z]
    BY <1>6 DEF Reads
  <2>2. z \in Passes /\ r + 1 = StageNumber(z)
    <3>1. r + 1 \in 1..Len(stages)
      BY <1>1, <1>6, SMT
    <3> QED
      BY <3>1, StageNumberIs DEF Staged, ScheduleInv, ScheduleTypes
  <2>3. z >= SplitPass
    BY <1>1, <1>5, <2>2, StageNumberIs, SMT
  <2>4. z \in 35..Destination
    BY <2>2, <2>3 DEF Passes, SplitPass
  <2>5. y \in Pinned \/ y \in 35..99 \/ y = BetaMip
    BY <2>1, <2>4, MainReads
  <2> QED
    BY <2>5, SMT
<1>8. \A kind \in {"gamma", "delta"} : StageNumber(ChainEnd(kind, 6)) - 1 <= r
  <2> SUFFICES ASSUME NEW kind \in {"gamma", "delta"}
               PROVE  StageNumber(ChainEnd(kind, 6)) - 1 <= r
    OBVIOUS
  <2>1. OnChain(ChainEnd(kind, 6), kind, 6, 4)
    BY SMT DEF OnChain, ChainEnd, Levels, Kinds
  <2>2. BetaMip \in Inputs[ChainEnd(kind, 6)]
    <3>1. 4 = 4 /\ kind # "epsilon"
      OBVIOUS
    <3> QED
      BY <2>1, <3>1, ChainInputsAre DEF LastInputs
  <2>3. ChainEnd(kind, 6) \in Passes
    BY <2>1, ChainRises
  <2> DEFINE j == StageNumber(ChainEnd(kind, 6))
  <2>4. j \in 1..Len(stages) /\ ChainEnd(kind, 6) \in stages[j]
    BY <2>3, StageNumberIs
  <2> HIDE DEF j
  <2>5. j - 1 \in 0..(Len(stages) - 1) /\ (j - 1) + 1 = j
    BY <1>1, <2>4, SMT
  <2>6. BetaMip \in Reads(j - 1)
    BY <2>2, <2>4, <2>5 DEF Reads
  <2>7. j - 1 <= r
    BY <1>4, <1>7, <2>5, <2>6
  <2> QED
    BY <2>7 DEF j
<1>9. x \in 35..99 /\ s + 1 = StageNumber(x)
  <2>1. x \in Passes
    BY <1>1 DEF Staged, ScheduleInv, ScheduleTypes
  <2>2. s + 1 = StageNumber(x)
    BY <1>1, <2>1, StageNumberIs
  <2>3. x >= SplitPass
    BY <1>1, <2>1, <2>2, StageNumberIs, SMT
  <2> QED
    BY <2>1, <2>2, <2>3, SMT DEF Passes, Destination, SplitPass
<1>10. PICK kind, step, k : OnChain(x, kind, step, k)
  BY <1>9, EveryChain
<1>11. StageNumber(x) <= StageNumber(ChainEnd(kind, step))
       /\ StageNumber(ChainEnd(kind, step)) \in Nat /\ StageNumber(x) \in Nat
  <2>1. StageNumber(x) + (4 - k) <= StageNumber(ChainEnd(kind, step)) /\ k \in 0..4
        /\ StageNumber(x) \in Nat /\ StageNumber(ChainEnd(kind, step)) \in Nat
    BY <1>10, ChainRises DEF OnChain
  <2> QED
    BY <2>1, SMT
<1>12. \/ StageNumber(ChainEnd(kind, step)) <= StageNumber(ChainEnd("gamma", 6))
       \/ StageNumber(ChainEnd(kind, step)) <= StageNumber(ChainEnd("delta", 6))
  BY <1>10, LastEnds DEF OnChain
<1>13. \A a \in {"gamma", "delta"} : StageNumber(ChainEnd(a, 6)) \in Nat
  <2>1. \A a \in {"gamma", "delta"} : OnChain(ChainEnd(a, 6), a, 6, 4)
    BY SMT DEF OnChain, ChainEnd, Levels, Kinds
  <2> QED
    BY <2>1, ChainRises
<1>14. s <= r
  BY <1>8, <1>9, <1>11, <1>12, <1>13, SMT
<1> QED
  BY <1>4, <1>14, SMT

-----------------------------------------------------------------------------
(* The images are all placed.                                               *)
Placed ==
  /\ Staged /\ PlanInv /\ todo = {}
  /\ life = [i \in Items |-> lifetime[i]] /\ N = Destination - 1

(* No image that is kept for a stage is in the memory of one it writes.     *)
LEMMA KeptApart ==
  ASSUME Placed, NEW s \in 0..(Len(stages) - 1), NEW x \in stages[s + 1], NEW y \in ImageIds,
         y # x, y \in Pinned \/ (y \in Passes /\ StageNumber(y) - 1 <= s), Kept(y, s)
  PROVE  y \notin Aliases(x)
<1> SUFFICES ASSUME y \in Aliases(x)
             PROVE  FALSE
  OBVIOUS
<1>1. /\ x \in Items /\ y \in Items /\ Shares(x, y)
      /\ offset[x] < End(y) /\ offset[y] < End(x)
  BY DEF Aliases
<1>2. /\ \A i \in Items : offset[i] \in Nat /\ size[i] \in Nat
      /\ NeverOverlap
  BY PlanAssumption DEF Placed, PlanInv, TypeOK
<1>3. ~LiveTogether(x, y)
  <2> SUFFICES ASSUME LiveTogether(x, y)
               PROVE  FALSE
    OBVIOUS
  <2>1. End(x) <= offset[y] \/ End(y) <= offset[x]
    BY <1>1, <1>2 DEF NeverOverlap, Placed
  <2> QED
    BY <1>1, <1>2, <2>1, SMT DEF End
<1>4. life[x] = lifetime[x] /\ life[y] = lifetime[y] /\ Staged
  BY <1>1 DEF Placed
<1>5. x \in Passes /\ y \in Passes /\ s + 1 = StageNumber(x) /\ s + 1 \in 1..Len(stages)
  <2>1. s + 1 \in 1..Len(stages)
    BY SMT DEF Placed, Staged, ScheduleInv, ScheduleTypes
  <2>2. x \in Passes
    BY <1>4, <2>1 DEF Staged, ScheduleInv, ScheduleTypes
  <2>3. y \in Passes
    BY <1>1, SMT DEF Items, Placed, Passes, Destination
  <2> QED
    BY <1>4, <2>1, <2>2, <2>3, StageNumberIs
<1>6. life[x] # None /\ life[y] # None
  BY <1>1, <1>3 DEF LiveTogether, Shares
<1>7. x \notin Pinned /\ y \notin Pinned
  BY <1>4, <1>6, PinnedIs
<1>8. PICK r \in Nat : lifetime[x] = <<StageNumber(x) - 1, r>> /\ StageNumber(x) - 1 <= r
  BY <1>4, <1>5, <1>7, LifeIs
<1>9. PICK q \in Nat : lifetime[y] = <<StageNumber(y) - 1, q>> /\ StageNumber(y) - 1 <= q
  BY <1>4, <1>5, <1>7, LifeIs
<1>10. StageNumber(y) \in Nat /\ s \in Nat
  BY <1>4, <1>5, StageNumberIs, SMT
<1>11. q >= s /\ StageNumber(y) - 1 <= s
  BY <1>7, <1>9 DEF Kept
<1>12. Meet(x, y)
  BY <1>4, <1>5, <1>8, <1>9, <1>10, <1>11, SMT DEF Meet
<1> QED
  BY <1>3, <1>12 DEF LiveTogether

(* The images whose memory a stage writes over.                             *)
Overwritten(e) == UNION {Aliases(x) : x \in StageOf(e)}

(* The images after a stage.                                                *)
Result(e) ==
  [x \in Passes |-> IF x \in Overwritten(e) THEN Destroyed
                   ELSE IF x \in StageOf(e) THEN <<e.iteration, e.frame>>
                   ELSE holds[x]]

(* What a stage leaves of the images kept until the next one: what it wrote *)
(* itself, and what was kept until now.                                     *)
LEMMA StageLeaves ==
  ASSUME Placed, NEW s \in 0..(Len(stages) - 1), NEW e, e.at = s
  PROVE  /\ \A y \in stages[s + 1] :
              y \in Passes /\ StageNumber(y) = s + 1
              /\ (Kept(y, s) => Result(e)[y] = <<e.iteration, e.frame>>)
         /\ \A y \in Passes :
              /\ StageNumber(y) - 1 < s \/ (y \in Pinned /\ y \notin stages[s + 1])
              /\ (\E x \in stages[s + 1] : x # Destination) => Kept(y, s)
              => Result(e)[y] = holds[y]
<1>1. StageOf(e) = stages[s + 1] /\ Staged
  BY DEF StageOf, Placed
<1>2. s + 1 \in 1..Len(stages) /\ s \in Nat
  BY SMT DEF Placed, Staged, ScheduleInv, ScheduleTypes
<1>3. \A y \in stages[s + 1] : y \in Passes
  BY <1>2 DEF Placed, Staged, ScheduleInv, ScheduleTypes
<1>4. \A y \in stages[s + 1] : StageNumber(y) = s + 1
  BY <1>1, <1>2, <1>3, StageNumberIs
<1>5. Passes \subseteq ImageIds
  BY SMT DEF Passes, ImageIds
<1>6. \A x : x \notin Aliases(x)
  BY DEF Aliases
<1>7. ASSUME NEW y \in stages[s + 1], Kept(y, s)
      PROVE  Result(e)[y] = <<e.iteration, e.frame>>
  <2>1. \A x \in stages[s + 1] : y \notin Aliases(x)
    <3> SUFFICES ASSUME NEW x \in stages[s + 1]
                 PROVE  y \notin Aliases(x)
      OBVIOUS
    <3>1. CASE x = y
      BY <1>6, <3>1
    <3>2. CASE x # y
      <4>1. StageNumber(y) - 1 <= s
        BY <1>2, <1>4, SMT
      <4> QED
        BY <1>3, <1>5, <1>7, <3>2, <4>1, KeptApart
    <3> QED
      BY <3>1, <3>2
  <2>2. y \notin Overwritten(e)
    BY <1>1, <2>1 DEF Overwritten
  <2> QED
    BY <1>1, <1>3, <2>2 DEF Result
<1>8. ASSUME NEW y \in Passes,
             StageNumber(y) - 1 < s \/ (y \in Pinned /\ y \notin stages[s + 1]),
             (\E x \in stages[s + 1] : x # Destination) => Kept(y, s)
      PROVE  Result(e)[y] = holds[y]
  <2>1. StageNumber(y) \in Nat
    BY <1>1, StageNumberIs
  <2>2. y \notin stages[s + 1]
    BY <1>2, <1>4, <1>8, <2>1, SMT
  <2>3. \A x \in stages[s + 1] : y \notin Aliases(x)
    <3> SUFFICES ASSUME NEW x \in stages[s + 1]
                 PROVE  y \notin Aliases(x)
      OBVIOUS
    <3>1. CASE x = Destination
      <4>1. x \notin Items
        BY <3>1, SMT DEF Items, Placed, Destination
      <4> QED
        BY <4>1 DEF Aliases
    <3>2. CASE x # Destination
      <4>1. y # x /\ Kept(y, s)
        BY <1>8, <2>2, <3>2
      <4>2. y \in Pinned \/ StageNumber(y) - 1 <= s
        BY <1>2, <1>8, <2>1, SMT
      <4> QED
        BY <1>5, <4>1, <4>2, KeptApart
    <3> QED
      BY <3>1, <3>2
  <2>4. y \notin Overwritten(e)
    BY <1>1, <2>3 DEF Overwritten
  <2> QED
    BY <1>1, <2>2, <2>4 DEF Result
<1> QED
  BY <1>3, <1>4, <1>7, <1>8

-----------------------------------------------------------------------------
(* The passes can be counted.                                               *)
LEMMA PassesFinite ==
  /\ IsFiniteSet(Passes) /\ Cardinality(Passes) = Destination
  /\ \A S \in SUBSET Passes : IsFiniteSet(S) /\ Cardinality(S) \in Nat
<1>1. IsFiniteSet(Passes) /\ Cardinality(Passes) = Destination
  <2>1. 1 \in Int /\ Destination \in Int
    BY DEF Destination
  <2>2. IsFiniteSet(1..Destination) /\ Cardinality(1..Destination) = IF 1 > Destination THEN 0 ELSE Destination - 1 + 1
    BY <2>1, FS_Interval
  <2> QED
    BY <2>2, SMT DEF Passes, Destination
<1>2. \A S \in SUBSET Passes : IsFiniteSet(S)
  BY <1>1, FS_Subset
<1> QED
  BY <1>1, <1>2, FS_CardinalityType

(* The scheduler starts with all passes before it.                          *)
LEMMA InitTables == PipelineInit => TableInv
<1> SUFFICES ASSUME PipelineInit
             PROVE  TableInv
  OBVIOUS
<1>1. stages = <<>> /\ Len(stages) = 0 /\ 1..Len(stages) = {} /\ main = FALSE /\ split = 0 /\ at = 0
  BY SMT DEF PipelineInit
<1>2. ScheduleTypes
  <2>1. remaining = Passes /\ stages \in Seq(SUBSET Passes) /\ split \in 0..Len(stages) /\ main \in BOOLEAN
    BY <1>1, SMT DEF PipelineInit
  <2>2. Len(stages) + Cardinality(remaining) <= Destination
    BY <1>1, <2>1, PassesFinite, SMT DEF Destination
  <2> QED
    BY <1>1, <2>1, <2>2 DEF ScheduleTypes
<1>3. Partitioned
  BY <1>1 DEF PipelineInit, Partitioned
<1>4. InputsBehind /\ RightBehind
  BY <1>1 DEF InputsBehind, RightBehind
<1>5. LifetimeInv
  <2>1. lifetime = [x \in ImageIds |-> None]
    BY DEF PipelineInit
  <2>2. lifetime \in [ImageIds -> {None} \cup (Nat \X Nat)]
    BY <2>1
  <2>3. 1..at = {} /\ at \in 0..Len(stages)
    BY <1>1, SMT
  <2> QED
    BY <2>1, <2>2, <2>3 DEF LifetimeInv
<1>6. Phases
  BY <1>1 DEF PipelineInit, Phases, NothingPlaced, NothingYet
<1> QED
  BY <1>2, <1>3, <1>4, <1>5, <1>6 DEF TableInv, ScheduleInv

(* The other part of the tables is no part of the schedule.                 *)
LEMMA ScheduleFrame ==
  ASSUME ScheduleInv, UNCHANGED scheduleVars
  PROVE  ScheduleInv'
<1>1. UNCHANGED written /\ UNCHANGED remaining /\ UNCHANGED main /\ UNCHANGED stages /\ UNCHANGED split
  BY DEF scheduleVars
<1>2. ScheduleTypes'
  BY <1>1 DEF ScheduleInv, ScheduleTypes
<1>3. Partitioned'
  BY <1>1 DEF ScheduleInv, Partitioned
<1>4. InputsBehind'
  BY <1>1 DEF ScheduleInv, InputsBehind
<1>5. RightBehind'
  BY <1>1 DEF ScheduleInv, RightBehind
<1> QED
  BY <1>2, <1>3, <1>4, <1>5 DEF ScheduleInv

(* In bounds are the passes of the side that is being scheduled.            *)
LEMMA InBoundIs ==
  ASSUME main \in BOOLEAN, NEW x \in Passes
  PROVE  InBound(x) <=> (main <=> x >= SplitPass)
<1>1. (x >= SplitPass) \in BOOLEAN
  BY SMT DEF Passes, SplitPass
<1> QED
  BY <1>1 DEF InBound

(* A stage is made of the passes that are ready, all at once.               *)
LEMMA ScheduleKeeps ==
  ASSUME ScheduleInv, Schedule
  PROVE  ScheduleInv' /\ Len(stages') = Len(stages) + 1
<1> DEFINE n == Len(stages)
<1>1. /\ stages' = Append(stages, Readied) /\ written' = written \cup Readied
      /\ remaining' = remaining \ Readied /\ main' = main /\ split' = split
      /\ Readied # {} /\ Readied \subseteq remaining
      /\ \A x \in Readied : (main <=> x >= SplitPass) /\ Inputs[x] \subseteq written
      /\ \A x \in remaining : (main <=> x >= SplitPass) /\ Inputs[x] \subseteq written => x \in Readied
  <2>1. \A x \in remaining : InBound(x) <=> (main <=> x >= SplitPass)
    BY InBoundIs DEF ScheduleInv, ScheduleTypes
  <2> QED
    BY <2>1 DEF Schedule, Readied
<1>2. /\ stages \in Seq(SUBSET Passes) /\ remaining \subseteq Passes
      /\ main \in BOOLEAN /\ split \in 0..n /\ (~main => split = 0) /\ n \in Nat
      /\ n + Cardinality(remaining) <= Destination
  BY DEF ScheduleInv, ScheduleTypes
<1>3. /\ written = {Source} \cup (Passes \ remaining)
      /\ \A x \in Passes : x \in remaining <=> \A i \in 1..n : x \notin stages[i]
      /\ \A i, j \in 1..n : stages[i] \cap stages[j] # {} => i = j
      /\ \A i \in 1..n : \A x \in stages[i] : x >= SplitPass <=> main /\ i > split
  BY DEF ScheduleInv, Partitioned
<1> DEFINE R == Readied
<1> HIDE DEF R
<1>4. /\ stages' \in Seq(SUBSET Passes) /\ Len(stages') = n + 1 /\ stages'[n + 1] = R
      /\ \A i \in 1..n : stages'[i] = stages[i]
  <2>1. R \in SUBSET Passes /\ stages' = Append(stages, R)
    BY <1>1, <1>2 DEF R
  <2> QED
    BY <1>2, <2>1, SMT
<1>5. \A i \in 1..(n + 1) : i \in 1..n \/ i = n + 1
  BY <1>2, SMT
<1>6. n + 1 \in 1..(n + 1) /\ n + 1 \notin 1..n /\ 1..n \subseteq 1..(n + 1)
  BY <1>2, SMT
<1>7. /\ R # {} /\ R \subseteq remaining /\ remaining' = remaining \ R /\ written' = written \cup R
      /\ main' = main /\ split' = split
      /\ \A x \in R : (main <=> x >= SplitPass) /\ Inputs[x] \subseteq written
      /\ \A x \in remaining : (main <=> x >= SplitPass) /\ Inputs[x] \subseteq written => x \in R
  BY <1>1 DEF R
<1>8. ScheduleTypes'
  <2>1. Cardinality(remaining \ R) <= Cardinality(remaining) - 1
    <3>1. PICK x \in R : TRUE
      BY <1>7
    <3>2. IsFiniteSet(remaining) /\ Cardinality(remaining) \in Nat /\ x \in remaining
      BY <1>2, <1>7, <3>1, PassesFinite
    <3>3. IsFiniteSet(remaining \ {x}) /\ Cardinality(remaining \ {x}) = Cardinality(remaining) - 1
      BY <3>2, FS_RemoveElement
    <3>4. (remaining \ R) \subseteq (remaining \ {x})
      BY <3>1
    <3> QED
      BY <3>3, <3>4, FS_Subset
  <2>2. Cardinality(remaining \ R) \in Nat /\ Cardinality(remaining) \in Nat
    BY <1>2, PassesFinite
  <2>3. Len(stages') + Cardinality(remaining') <= Destination
    BY <1>2, <1>4, <1>7, <2>1, <2>2, SMT DEF Destination
  <2>4. split' \in 0..Len(stages')
    BY <1>2, <1>4, <1>7, SMT
  <2> QED
    BY <1>2, <1>4, <1>7, <2>3, <2>4 DEF ScheduleTypes
<1>9. Partitioned'
  <2>1. written' = {Source} \cup (Passes \ remaining')
    BY <1>2, <1>3, <1>7
  <2>2. \A x \in Passes : x \in remaining' <=> \A i \in 1..(n + 1) : x \notin stages'[i]
    BY <1>3, <1>4, <1>5, <1>6, <1>7
  <2>3. \A i \in 1..n : R \cap stages[i] = {}
    BY <1>2, <1>3, <1>7
  <2>4. \A i, j \in 1..(n + 1) : stages'[i] \cap stages'[j] # {} => i = j
    BY <1>3, <1>4, <1>5, <2>3
  <2>5. \A i \in 1..(n + 1) : \A x \in stages'[i] : x >= SplitPass <=> main' /\ i > split'
    <3>1. n + 1 > split
      BY <1>2, SMT
    <3>2. \A x \in R : x >= SplitPass <=> main' /\ n + 1 > split'
      BY <1>7, <3>1
    <3> QED
      BY <1>3, <1>4, <1>5, <1>7, <3>2
  <2> QED
    BY <1>4, <2>1, <2>2, <2>4, <2>5 DEF Partitioned
<1>10. InputsBehind'
  <2>1. \A i \in 1..n : \A x \in stages[i] : \A y \in Inputs[x] :
          y = Source \/ \E j \in 1..(i - 1) : y \in stages[j]
    BY DEF ScheduleInv, InputsBehind
  <2>2. \A i \in 1..n : \A j \in 1..(i - 1) : j \in 1..n
    BY <1>2, SMT
  <2>3. \A x \in R : \A y \in Inputs[x] : y = Source \/ \E j \in 1..n : y \in stages[j]
    BY <1>3, <1>7
  <2>4. (n + 1) - 1 = n
    BY <1>2, SMT
  <2>5. ASSUME NEW i \in 1..(n + 1), NEW x \in stages'[i], NEW y \in Inputs[x]
        PROVE  y = Source \/ \E j \in 1..(i - 1) : y \in stages'[j]
    <3>1. CASE i \in 1..n
      BY <1>4, <2>1, <2>2, <2>5, <3>1
    <3>2. CASE i = n + 1
      BY <1>4, <2>3, <2>4, <2>5, <3>2
    <3> QED
      BY <1>5, <3>1, <3>2
  <2> QED
    BY <1>4, <2>5 DEF InputsBehind
<1>11. RightBehind'
  <2>1. /\ \A i \in 1..n : \A x \in stages[i] :
             x >= SplitPass /\ i # split + 1 => \E y \in Inputs[x] : y \in stages[i - 1]
        /\ main /\ n > split =>
             \A x \in remaining : x >= SplitPass =>
               \E y \in Inputs[x] : y # Source /\ \A j \in 1..(n - 1) : y \notin stages[j]
    BY DEF ScheduleInv, RightBehind
  <2>2. ASSUME NEW x \in R, x >= SplitPass, n + 1 # split + 1
        PROVE  \E y \in Inputs[x] : y \in stages[n]
    <3>1. main /\ n > split /\ n >= 1
      BY <1>2, <1>7, <2>2, SMT
    <3>2. PICK y \in Inputs[x] : y # Source /\ \A j \in 1..(n - 1) : y \notin stages[j]
      BY <1>7, <2>1, <3>1
    <3>3. PICK j \in 1..n : y \in stages[j]
      BY <1>3, <1>7, <3>2
    <3>4. j = n
      <4>1. j \in 1..(n - 1) \/ j = n
        BY <1>2, SMT
      <4> QED
        BY <3>2, <3>3, <4>1
    <3> QED
      BY <3>3, <3>4
  <2>3. ASSUME NEW i \in 1..(n + 1), NEW x \in stages'[i], x >= SplitPass, i # split' + 1
        PROVE  \E y \in Inputs[x] : y \in stages'[i - 1]
    <3>1. CASE i \in 1..n
      <4>1. \E y \in Inputs[x] : y \in stages[i - 1]
        BY <1>4, <1>7, <2>1, <2>3, <3>1
      <4>2. i - 1 \in 1..n
        <5>1. main /\ i > split
          BY <1>3, <1>4, <2>3, <3>1
        <5> QED
          BY <1>2, <1>7, <2>3, <3>1, <5>1, SMT
      <4> QED
        BY <1>4, <4>1, <4>2
    <3>2. CASE i = n + 1
      <4>1. \E y \in Inputs[x] : y \in stages[n]
        BY <1>4, <1>7, <2>2, <2>3, <3>2
      <4>2. n \in 1..n /\ i - 1 = n
        <5>1. main
          BY <1>4, <1>7, <2>3, <3>2
        <5> QED
          BY <1>2, <1>7, <2>3, <3>2, <5>1, SMT
      <4> QED
        BY <1>4, <4>1, <4>2
    <3> QED
      BY <1>5, <3>1, <3>2
  <2>4. ASSUME main', Len(stages') > split', NEW x \in remaining', x >= SplitPass
        PROVE  \E y \in Inputs[x] : y # Source /\ \A j \in 1..(Len(stages') - 1) : y \notin stages'[j]
    <3>1. x \in remaining /\ x \notin R /\ x >= SplitPass
      BY <1>7, <2>4
    <3>2. PICK y \in Inputs[x] : y \notin written
      BY <1>7, <2>4, <3>1
    <3>3. y # Source
      BY <1>3, <3>2
    <3>4. \A j \in 1..n : y \notin stages[j]
      BY <1>2, <1>3, <3>2
    <3>5. Len(stages') - 1 = n
      BY <1>2, <1>4, SMT
    <3> QED
      BY <1>4, <3>2, <3>3, <3>4, <3>5
  <2> QED
    BY <1>4, <2>3, <2>4 DEF RightBehind
<1> QED
  BY <1>4, <1>8, <1>9, <1>10, <1>11 DEF ScheduleInv

-----------------------------------------------------------------------------
(* While the passes are scheduled nothing has a lifetime.                   *)
LEMMA NoLifetimes ==
  ASSUME LifetimeInv, at = 0, at' = 0, lifetime' = lifetime, Len(stages') \in Nat
  PROVE  LifetimeInv'
<1>1. 1..at = {} /\ 1..at' = {} /\ at' \in 0..Len(stages')
  BY SMT
<1>2. \A x \in ImageIds : lifetime[x] = None
  BY <1>1 DEF LifetimeInv
<1> QED
  BY <1>1, <1>2 DEF LifetimeInv

(* A stage more keeps what holds of all the tables: the loop of the         *)
(* lifetimes has not begun.                                                 *)
LEMMA ScheduleTables ==
  ASSUME TableInv, Schedule
  PROVE  TableInv'
<1>1. ScheduleInv' /\ Len(stages') = Len(stages) + 1
  BY ScheduleKeeps DEF TableInv
<1>2. /\ progress = "schedule" /\ progress' = "schedule" /\ at = 0 /\ at' = 0 /\ lifetime' = lifetime
      /\ UNCHANGED frameVars /\ UNCHANGED gpuVars /\ UNCHANGED planVars
  BY DEF Schedule, TableInv, Phases
<1>3. Len(stages') \in Nat
  BY <1>1, SMT DEF TableInv, ScheduleInv, ScheduleTypes
<1>4. LifetimeInv'
  BY <1>2, <1>3, NoLifetimes DEF TableInv
<1>5. NothingPlaced' /\ NothingYet'
  BY <1>2 DEF TableInv, Phases, NothingPlaced, NothingYet, frameVars, gpuVars, planVars, walkVars
<1>6. Phases'
  BY <1>2, <1>5 DEF Phases
<1> QED
  BY <1>1, <1>4, <1>6 DEF TableInv

(* InputsBehind the split all passes left are main passes that wait.              *)
LEMMA MoveBoundTables ==
  ASSUME TableInv, MoveBound
  PROVE  TableInv'
<1> DEFINE n == Len(stages)
<1>1. /\ progress = "schedule" /\ progress' = "schedule" /\ at = 0 /\ at' = 0 /\ lifetime' = lifetime
      /\ ~main /\ main' = TRUE /\ split' = n
      /\ written' = written /\ remaining' = remaining /\ stages' = stages
      /\ UNCHANGED frameVars /\ UNCHANGED gpuVars /\ UNCHANGED planVars
  BY DEF MoveBound, TableInv, Phases
<1>2. ScheduleTypes /\ Partitioned /\ InputsBehind /\ RightBehind /\ n \in Nat
  BY DEF TableInv, ScheduleInv, ScheduleTypes
<1>3. ScheduleTypes'
  <2>1. n \in 0..n
    BY <1>2, SMT
  <2> QED
    BY <1>1, <1>2, <2>1 DEF ScheduleTypes
<1>4. Partitioned'
  <2>1. \A i \in 1..n : ~(i > n)
    BY <1>2, SMT
  <2>2. \A i \in 1..n : \A x \in stages[i] : ~(x >= SplitPass)
    BY <1>1, <1>2 DEF Partitioned
  <2> QED
    BY <1>1, <1>2, <2>1, <2>2 DEF Partitioned
<1>5. InputsBehind'
  BY <1>1, <1>2 DEF InputsBehind
<1>6. RightBehind'
  <2>1. \A i \in 1..n : \A x \in stages[i] : ~(x >= SplitPass)
    BY <1>1, <1>2 DEF Partitioned
  <2>2. ~(n > n)
    BY <1>2, SMT
  <2> QED
    BY <1>1, <2>1, <2>2 DEF RightBehind
<1>7. LifetimeInv'
  <2>1. Len(stages') \in Nat
    BY <1>1, <1>2
  <2> QED
    BY <1>1, <2>1, NoLifetimes DEF TableInv
<1>8. NothingPlaced' /\ NothingYet'
  BY <1>1 DEF TableInv, Phases, NothingPlaced, NothingYet, frameVars, gpuVars, planVars, walkVars
<1>9. Phases'
  BY <1>1, <1>8 DEF Phases
<1> QED
  BY <1>3, <1>4, <1>5, <1>6, <1>7, <1>9 DEF TableInv, ScheduleInv

(* The lifetimes are of the stages and of nothing else.                     *)
LEMMA LifetimeFrame ==
  ASSUME LifetimeInv, stages' = stages, at' = at, lifetime' = lifetime
  PROVE  LifetimeInv'
<1>1. \A x, r : Lived(x, r) => Lived(x, r)'
  BY DEF Lived, Reads
<1> QED
  BY <1>1 DEF LifetimeInv

(* With no pass left every pass is in a stage.                              *)
LEMMA ScheduledTables ==
  ASSUME TableInv, Scheduled
  PROVE  TableInv'
<1>1. /\ progress' = "lifetimes" /\ progress = "schedule" /\ remaining = {}
      /\ UNCHANGED scheduleVars /\ lifetime' = lifetime /\ at' = at
      /\ UNCHANGED frameVars /\ UNCHANGED gpuVars /\ UNCHANGED planVars
  BY DEF Scheduled
<1>2. ScheduleInv'
  BY <1>1, ScheduleFrame DEF TableInv
<1>3. LifetimeInv'
  BY <1>1, LifetimeFrame DEF TableInv, scheduleVars
<1>4. NothingPlaced' /\ NothingYet'
  BY <1>1 DEF TableInv, Phases, NothingPlaced, NothingYet, frameVars, gpuVars, planVars, walkVars
<1>5. Phases'
  BY <1>1, <1>4 DEF Phases, scheduleVars
<1> QED
  BY <1>2, <1>3, <1>5 DEF TableInv

(* The loop over the stages: a stage starts the lifetimes of what it writes *)
(* and moves the ends of those of what it reads.                            *)
LEMMA LifetimesTables ==
  ASSUME TableInv, Lifetimes
  PROVE  TableInv'
<1>1. /\ progress' = progress /\ progress = "lifetimes" /\ at < Len(stages) /\ at' = at + 1
      /\ UNCHANGED scheduleVars /\ stages' = stages /\ remaining' = remaining
      /\ UNCHANGED frameVars /\ UNCHANGED gpuVars /\ UNCHANGED planVars
  BY DEF Lifetimes, scheduleVars
<1>2. ScheduleInv'
  BY <1>1, ScheduleFrame DEF TableInv
<1>3. at \in Nat /\ Len(stages) \in Nat /\ at' \in 0..Len(stages')
  BY <1>1, SMT DEF TableInv, LifetimeInv, ScheduleInv, ScheduleTypes
<1>4. \A x \in ImageIds :
        lifetime'[x] = IF x \in stages[at + 1] \ Pinned THEN <<at, at>>
                       ELSE IF lifetime[x] # None /\ x \in Reads(at) THEN <<lifetime[x][1], at>>
                       ELSE lifetime[x]
  BY DEF Lifetimes
<1>5. \A j : Reads(j)' = Reads(j)
  BY <1>1 DEF Reads
<1>6. \A i \in 1..(at + 1) : i \in 1..at \/ i = at + 1
  BY <1>3, SMT
<1>7. 1..at \subseteq 1..(at + 1) /\ at + 1 \in 1..(at + 1)
  BY <1>3, SMT
<1>8. \A x \in ImageIds : IF x \in Pinned \/ \A i \in 1..at : x \notin stages[i] THEN lifetime[x] = None
                          ELSE \E r \in Nat : Lived(x, r)
  BY DEF TableInv, LifetimeInv
<1>13. PICK a \in Nat : a = at
  BY <1>3
<1>9. ASSUME NEW x \in ImageIds
      PROVE  /\ IF x \in Pinned \/ \A i \in 1..(at + 1) : x \notin stages[i] THEN lifetime'[x] = None
                ELSE \E r \in Nat : Lived(x, r)'
             /\ lifetime'[x] \in {None} \cup (Nat \X Nat)
  <2>1. CASE x \in Pinned \/ \A i \in 1..(at + 1) : x \notin stages[i]
    <3>1. lifetime[x] = None
      BY <1>7, <1>8, <2>1
    <3>2. x \notin stages[at + 1] \ Pinned
      BY <1>7, <2>1
    <3> QED
      BY <1>4, <2>1, <3>1, <3>2
  <2>2. CASE x \notin Pinned /\ x \in stages[at + 1]
    <3>1. lifetime'[x] = <<at, at>>
      BY <1>4, <2>2
    <3>2. Lived(x, a)'
      <4>1. /\ x \in stages'[at + 1] /\ lifetime'[x] = <<(at + 1) - 1, at>>
            /\ at \in ((at + 1) - 1)..(at' - 1)
            /\ \A j \in 0..(at' - 1) : j <= at
            /\ ~(at >= at + 1)
        BY <1>1, <1>3, <2>2, <3>1, SMT
      <4> QED
        BY <1>1, <1>7, <1>13, <4>1 DEF Lived
    <3> QED
      BY <1>3, <1>7, <1>13, <2>2, <3>1, <3>2
  <2>3. CASE x \notin Pinned /\ x \notin stages[at + 1] /\ \E i \in 1..at : x \in stages[i]
    <3>1. PICK r \in Nat : Lived(x, r)
      BY <1>8, <2>3
    <3>2. PICK i \in 1..at :
            /\ x \in stages[i] /\ lifetime[x] = <<i - 1, r>> /\ r \in (i - 1)..(at - 1)
            /\ \A j \in 0..(at - 1) : x \in Reads(j) => j <= r
            /\ r >= i => x \in Reads(r)
      BY <3>1 DEF Lived
    <3>3. lifetime[x] # None /\ lifetime[x][1] = i - 1 /\ i - 1 \in Nat
      BY <3>2, SMT DEF None
    <3>4. CASE x \in Reads(at)
      <4>1. lifetime'[x] = <<i - 1, at>>
        BY <1>4, <2>3, <3>3, <3>4
      <4>2. /\ at \in (i - 1)..(at' - 1)
            /\ \A j \in 0..(at' - 1) : j <= at
        BY <1>1, <1>3, <3>2, SMT
      <4>3. Lived(x, a)'
        BY <1>1, <1>13, <1>5, <1>7, <3>2, <3>4, <4>1, <4>2 DEF Lived
      <4> QED
        BY <1>3, <1>7, <1>13, <2>3, <3>3, <4>1, <4>3
    <3>5. CASE x \notin Reads(at)
      <4>1. lifetime'[x] = <<i - 1, r>>
        BY <1>4, <2>3, <3>2, <3>5
      <4>2. r \in (i - 1)..(at' - 1)
        BY <1>1, <1>3, <3>2, SMT
      <4>3. \A j \in 0..(at' - 1) : j \in 0..(at - 1) \/ j = at
        BY <1>1, <1>3, SMT
      <4>4. \A j \in 0..(at' - 1) : x \in Reads(j)' => j <= r
        BY <1>5, <3>2, <3>5, <4>3
      <4>5. Lived(x, r)'
        BY <1>1, <1>5, <1>7, <3>2, <4>1, <4>2, <4>4 DEF Lived
      <4> QED
        BY <1>7, <2>3, <3>1, <3>3, <4>1, <4>5
    <3> QED
      BY <3>4, <3>5
  <2> QED
    BY <1>6, <2>1, <2>2, <2>3
<1>10. LifetimeInv'
  <2>1. lifetime' = [x \in ImageIds |-> lifetime'[x]]
    BY DEF Lifetimes
  <2>2. lifetime' \in [ImageIds -> {None} \cup (Nat \X Nat)]
    BY <1>9, <2>1
  <2> QED
    BY <1>1, <1>3, <1>9, <2>2 DEF LifetimeInv
<1>11. NothingPlaced' /\ NothingYet'
  BY <1>1 DEF TableInv, Phases, NothingPlaced, NothingYet, frameVars, gpuVars, planVars, walkVars
<1>12. Phases'
  BY <1>1, <1>11 DEF Phases, TableInv
<1> QED
  BY <1>2, <1>10, <1>12 DEF TableInv

(* The planner starts from the lifetimes.                                   *)
LEMMA LoadTables ==
  ASSUME TablesFit, TableInv, NEW perf \in BOOLEAN, Load(perf)
  PROVE  TableInv'
<1>1. /\ progress = "lifetimes" /\ progress' = "plan" /\ at = Len(stages)
      /\ size' = [i \in Items |-> ImageSize(i, perf)] /\ life' = [i \in Items |-> lifetime[i]]
      /\ todo' = Items
      /\ UNCHANGED scheduleVars /\ lifetime' = lifetime /\ at' = at /\ stages' = stages
      /\ UNCHANGED frameVars /\ UNCHANGED gpuVars
      /\ UNCHANGED <<placed, transient, pinned, offset, walkVars>>
      /\ remaining = {} /\ remaining' = {}
  BY DEF Load, scheduleVars, TableInv, Phases
<1>2. ScheduleInv'
  BY <1>1, ScheduleFrame DEF TableInv
<1>3. LifetimeInv'
  BY <1>1, LifetimeFrame DEF TableInv
<1>4. life' \in [Items -> Lives \cup {None}]
  <2> SUFFICES ASSUME NEW x \in Items
               PROVE  lifetime[x] \in Lives \cup {None}
    BY <1>1
  <2>1. x \in ImageIds
    BY SMT DEF TablesFit, Items, ImageIds, Destination
  <2>2. CASE lifetime[x] = None
    BY <2>2
  <2>3. CASE lifetime[x] # None
    <3>1. PICK r \in Nat : Lived(x, r)
      BY <2>1, <2>3 DEF TableInv, LifetimeInv
    <3>2. PICK i \in 1..at : lifetime[x] = <<i - 1, r>> /\ r \in (i - 1)..(at - 1)
      BY <3>1 DEF Lived
    <3>3. at <= Destination /\ at \in Nat
      <4>1. remaining \subseteq Passes /\ Len(stages) + Cardinality(remaining) <= Destination /\ Len(stages) \in Nat
        BY DEF TableInv, ScheduleInv, ScheduleTypes
      <4> QED
        BY <1>1, <4>1, PassesFinite, SMT DEF Destination
    <3>4. i - 1 \in 0..Destination /\ r \in 0..Destination /\ i - 1 <= r
      BY <3>2, <3>3, SMT DEF Destination
    <3>5. i - 1 \in Stages /\ r \in Stages
      BY <3>4 DEF TablesFit
    <3> QED
      BY <3>2, <3>4, <3>5, SMT DEF Lives
  <2> QED
    BY <2>2, <2>3
<1>5. size' \in [Items -> Sizes]
  BY <1>1 DEF TablesFit
<1>6. NothingPlaced /\ NothingYet
  BY <1>1 DEF TableInv, Phases
<1>7. Init'
  BY <1>1, <1>4, <1>5, <1>6 DEF Init, NothingPlaced, walkVars
<1>8. PlanInv'
  <2>1. Init' => PlanInv'
    BY InitPlan, PTL
  <2> QED
    BY <1>7, <2>1
<1>9. Phases'
  <2>1. NothingYet'
    BY <1>1, <1>6 DEF NothingYet, frameVars, gpuVars
  <2> QED
    BY <1>1, <1>8, <2>1 DEF Phases
<1> QED
  BY <1>2, <1>3, <1>9 DEF TableInv

(* A step of the planner keeps what the planner's own proof says of it.     *)
LEMMA PlanTables ==
  ASSUME TableInv, Plan
  PROVE  TableInv'
<1>1. /\ progress = "plan" /\ progress' = "plan"
      /\ PickLargest \/ Walk \/ Place
      /\ UNCHANGED scheduleVars /\ lifetime' = lifetime /\ at' = at /\ stages' = stages /\ remaining' = remaining
      /\ UNCHANGED frameVars /\ UNCHANGED gpuVars
  BY DEF Plan, scheduleVars
<1>2. ScheduleInv' /\ LifetimeInv'
  BY <1>1, ScheduleFrame, LifetimeFrame DEF TableInv
<1>3. PlanInv /\ at = Len(stages) /\ life = [i \in Items |-> lifetime[i]] /\ NothingYet /\ remaining = {}
  BY <1>1 DEF TableInv, Phases
<1>4. life' = life
  BY <1>1 DEF PickLargest, Pin, Start, Walk, Place, inputVars
<1>5. PlanInv'
  <2>1. CASE PickLargest
    BY <1>3, <2>1, PinKeeps, StartKeeps DEF PickLargest
  <2>2. CASE Walk
    BY <1>3, <2>2, WalkKeeps
  <2>3. CASE Place
    BY <1>3, <2>3, PlaceKeeps
  <2> QED
    BY <1>1, <2>1, <2>2, <2>3
<1>6. NothingYet'
  BY <1>1, <1>3 DEF NothingYet, frameVars, gpuVars
<1>7. Phases'
  BY <1>1, <1>3, <1>4, <1>5, <1>6 DEF Phases
<1> QED
  BY <1>2, <1>7 DEF TableInv

-----------------------------------------------------------------------------
(* Both passes have a stage at least.                                       *)
LEMMA SplitInside ==
  ASSUME Staged
  PROVE  /\ split \in Nat /\ Len(stages) \in Nat /\ 0 < split /\ split < Len(stages)
<1>1. split \in Nat /\ Len(stages) \in Nat
  BY SMT DEF Staged, ScheduleInv, ScheduleTypes
<1>2. Mip \in Passes /\ ~(Mip >= SplitPass) /\ Destination \in Passes /\ Destination >= SplitPass
  BY SMT DEF Mip, Passes, Destination, SplitPass
<1>3. StageNumber(Mip) \in 1..Len(stages) /\ ~(StageNumber(Mip) > split)
  BY <1>2, StageNumberIs
<1>4. StageNumber(Destination) \in 1..Len(stages) /\ StageNumber(Destination) > split
  BY <1>2, StageNumberIs
<1> QED
  BY <1>1, <1>3, <1>4, SMT

(* Before anything runs.                                                    *)
LEMMA IdleRun == NothingYet /\ progress # "run" /\ DOMAIN holds = Passes => RunInv
<1> SUFFICES ASSUME NothingYet, progress # "run", DOMAIN holds = Passes
             PROVE  RunInv
  OBVIOUS
<1>1. queue = <<>> /\ Len(queue) = 0 /\ 1..Len(queue) = {} /\ 2..Len(queue) = {} /\ 1..(Len(queue) - 1) = {}
  BY SMT DEF NothingYet
<1>2. RunTypes
  BY SMT DEF NothingYet, RunTypes, Uniforms
<1>3. Queued
  <2>1. queue \in Seq(Entries)
    BY <1>1, SMT
  <2> QED
    BY <1>1, <2>1 DEF Queued, Orderly
<1>4. LastEncoded /\ MainHeld /\ PrePassHeld
  BY <1>1 DEF LastEncoded, MainHeld, PrePassHeld
<1>5. BlockHeld /\ DestinationHeld
  BY <1>1 DEF BlockHeld, DestinationHeld, NothingYet
<1>6. SourceHeld
  BY SMT DEF SourceHeld, NothingYet
<1> QED
  BY <1>2, <1>3, <1>4, <1>5, <1>6 DEF RunInv

(* An entry waits for the one before it, so that only the first may run.    *)
LEMMA OnlyHead ==
  ASSUME Queued, engine \in {"vulkan", "native"}, NEW k \in 1..Len(queue), MayRun(k)
  PROVE  k = 1
<1> SUFFICES ASSUME k # 1
             PROVE  FALSE
  OBVIOUS
<1> DEFINE a == queue[k - 1]
           b == queue[k]
<1>1. Len(queue) \in Nat
  BY DEF Queued, Orderly
<1>2. k - 1 \in 1..(Len(queue) - 1) /\ k - 1 \in 1..(k - 1) /\ (k - 1) + 1 = k
      /\ k - 1 \in 1..Len(queue)
  BY <1>1, SMT
<1>3. Follows(a, b)
  BY <1>2 DEF Queued, Orderly
<1>4. a.op = "update" => engine = "vulkan"
  BY <1>2 DEF Queued, Orderly
<1>5. ~Waits(a, b)
  BY <1>2 DEF MayRun
<1> HIDE DEF a, b
<1>6. CASE engine = "vulkan"
  BY <1>5, <1>6 DEF Waits
<1>7. CASE engine = "native"
  <2>1. \/ a.op = "copyin" /\ b.op = "prepass"
        \/ a.op = "prepass" /\ b.op = "main"
        \/ a.op = "copyout" /\ b.op = "main"
        \/ a.op = "main" /\ b.op = "copyout"
    BY <1>3, <1>4, <1>7 DEF Follows
  <2>2. CASE a.op = "copyin" /\ b.op = "prepass"
    <3>1. Source \in Writes(a.op) \cap Tracked(b.op)
      BY <2>2 DEF Writes, Tracked
    <3> QED
      BY <1>5, <3>1 DEF Waits, Hazard
  <2>3. CASE a.op = "prepass" /\ b.op = "main"
    BY <1>5, <2>3 DEF Waits, Fenced
  <2>4. CASE a.op = "copyout" /\ b.op = "main"
    <3>1. Destination \in Tracked(a.op) \cap Writes(b.op)
      BY <2>4 DEF Writes, Tracked
    <3> QED
      BY <1>5, <3>1 DEF Waits, Hazard
  <2>5. CASE a.op = "main" /\ b.op = "copyout"
    <3>1. Destination \in Writes(a.op) \cap Tracked(b.op)
      BY <2>5 DEF Writes, Tracked
    <3> QED
      BY <1>5, <3>1 DEF Waits, Hazard
  <2> QED
    BY <2>1, <2>2, <2>3, <2>4, <2>5
<1> QED
  BY <1>6, <1>7

(* The tables are as they were, and all that is left of Phases.             *)
LEMMA TablesStay ==
  ASSUME TableInv, UNCHANGED scheduleVars, lifetime' = lifetime, at' = at, UNCHANGED planVars,
         progress' = "run", todo = {}, progress \in {"plan", "run"}, iteration' > 0
  PROVE  TableInv'
<1>1. ScheduleInv' /\ LifetimeInv'
  BY ScheduleFrame, LifetimeFrame DEF TableInv, scheduleVars
<1>2. PlanInv /\ at = Len(stages) /\ life = [i \in Items |-> lifetime[i]] /\ remaining = {}
  BY DEF TableInv, Phases
<1>3. PlanInv'
  BY <1>2 DEF planVars, inputVars, walkVars, PlanInv, TypeOK, PlacedDone, InOrder, Cleared,
     NeverOverlap, Shares, LiveTogether, Meet, End
<1>4. at' = Len(stages') /\ life' = [i \in Items |-> lifetime'[i]] /\ remaining' = {} /\ todo' = {}
  BY <1>2 DEF planVars, inputVars, scheduleVars
<1> QED
  BY <1>1, <1>3, <1>4 DEF TableInv, Phases

(* What the tables and the memory are when frames are produced.             *)
LEMMA Tables ==
  ASSUME TablesFit, TableInv, progress \in {"plan", "run"}, todo = {}
  PROVE  Placed
  BY DEF TablesFit, TableInv, Phases, Placed, Staged

(* A game frame begins with the queue empty.                                *)
LEMMA BeginKeeps ==
  ASSUME TablesFit, PipelineInv, Begin
  PROVE  PipelineInv'
<1>1. /\ progress \in {"plan", "run"} /\ queue = <<>> /\ todo = {}
      /\ progress = "plan" => engine' \in {"vulkan", "native"}
      /\ progress = "run" => engine' = engine
      /\ progress' = "run" /\ iteration' = iteration + 1 /\ frame' = 0 /\ generated' = FALSE
      /\ total' \in Nat
      /\ block' = [block EXCEPT !.iteration = iteration + 1]
      /\ UNCHANGED scheduleVars /\ lifetime' = lifetime /\ at' = at /\ timestamp' = timestamp
      /\ sourceLayers' = sourceLayers /\ holds' = holds /\ UNCHANGED planVars
  <2>1. progress = "run" => todo = {}
    BY DEF PipelineInv, TableInv, Phases
  <2> QED
    BY <2>1, ScheduleAssumption DEF Begin, Settled
<1>2. /\ iteration \in Nat /\ timestamp \in Nat /\ block \in Uniforms /\ DOMAIN holds = Passes
      /\ progress = "run" => engine \in {"vulkan", "native"}
      /\ block.iteration = iteration
      /\ engine = "vulkan" => block.timestamp = timestamp
      /\ sourceLayers \in [0..1 -> Nat] /\ sourceLayers[iteration % 2] = iteration
      /\ progress = "plan" => block.timestamp = timestamp
  BY <1>1 DEF PipelineInv, TableInv, Phases, NothingYet, RunInv, RunTypes, BlockHeld, SourceHeld
<1> DEFINE u == [iteration |-> iteration + 1, timestamp |-> timestamp]
           a == [op |-> "copyin", iteration |-> iteration + 1, frame |-> 0, at |-> 0, block |-> u]
           b == [op |-> "prepass", iteration |-> iteration + 1, frame |-> 0, at |-> 0, block |-> u]
<1>3. queue' = <<a, b>>
  BY <1>1 DEF Begin, Entry
<1>4. u \in Uniforms /\ a \in Entries /\ b \in Entries
  BY <1>2, SMT DEF Uniforms, Entries, Ops
<1>5. a.op = "copyin" /\ a.iteration = iteration' /\ a.at = 0 /\ a.block = u
      /\ b.op = "prepass" /\ b.iteration = iteration' /\ b.at = 0 /\ b.frame = 0 /\ b.block = u
  BY <1>1
<1> HIDE DEF a, b
<1>6. Len(queue') = 2 /\ queue'[1] = a /\ queue'[2] = b /\ queue' # <<>>
      /\ 1..2 = {1, 2} /\ 1..(2 - 1) = {1} /\ 2..2 = {2} /\ 1 + 1 = 2
  BY <1>3, SMT
<1>7. TableInv'
  <2>1. iteration' > 0
    BY <1>1, <1>2, SMT
  <2> QED
    BY <1>1, <2>1, TablesStay DEF PipelineInv
<1>8. block' = [iteration |-> iteration + 1, timestamp |-> block.timestamp]
  BY <1>1, <1>2, SMT DEF Uniforms
<1>9. RunTypes'
  <2>1. block' \in Uniforms
    BY <1>2, <1>8, SMT DEF Uniforms
  <2>2. iteration' \in Nat /\ frame' \in Nat
    BY <1>1, <1>2, SMT
  <2> QED
    BY <1>1, <1>2, <2>1, <2>2 DEF RunTypes
<1>10. Queued'
  <2>1. queue' \in Seq(Entries)
    BY <1>3, <1>4, SMT
  <2>2. AtStage(queue[1])'
    BY <1>5, <1>6 DEF AtStage
  <2>3. \A k \in {2} : queue'[k].at = FirstStage(queue[k].op)'
    BY <1>5, <1>6 DEF FirstStage
  <2>4. \A k \in {1} : Follows(queue[k], queue[k + 1])'
    BY <1>5, <1>6 DEF Follows
  <2>5. u.iteration = iteration'
    BY <1>1
  <2> QED
    BY <1>5, <1>6, <2>1, <2>2, <2>3, <2>4, <2>5 DEF Queued, Orderly
<1>11. LastEncoded'
  BY <1>1, <1>5, <1>6 DEF LastEncoded
<1>12. BlockHeld'
  <2>1. engine' = "vulkan" => block.timestamp = timestamp
    BY <1>1, <1>2
  <2> QED
    BY <1>1, <1>5, <1>6, <1>8, <2>1 DEF BlockHeld
<1>13. SourceHeld'
  <2>1. (iteration' + 1) % 2 = iteration % 2 /\ iteration' - 1 = iteration
    BY <1>1, <1>2, SMT
  <2> QED
    BY <1>1, <1>2, <1>5, <1>6, <2>1 DEF SourceHeld
<1>14. PrePassHeld'
  <2>1. PrePassStages' = 0 /\ 0..(0 - 1) = {}
    BY <1>5, <1>6, SMT DEF PrePassStages
  <2> QED
    BY <2>1 DEF PrePassHeld
<1>15. MainHeld' /\ DestinationHeld'
  BY <1>5, <1>6 DEF MainHeld, DestinationHeld
<1> QED
  BY <1>7, <1>9, <1>10, <1>11, <1>12, <1>13, <1>14, <1>15 DEF PipelineInv, RunInv

-----------------------------------------------------------------------------
(* The first and the last of a sequence that something is appended to.      *)
LEMMA AppendIs ==
  ASSUME NEW S, NEW q \in Seq(S), NEW e \in S
  PROVE  LET p == Append(q, e)
         IN /\ p \in Seq(S) /\ p # <<>> /\ p[Len(p)] = e
            /\ q # <<>> => p[1] = q[1]
            /\ q = <<>> => p[1] = e
<1> DEFINE p == Append(q, e)
<1>1. /\ p \in Seq(S) /\ Len(p) = Len(q) + 1 /\ p[Len(q) + 1] = e /\ Len(q) \in Nat
      /\ \A k \in 1..Len(q) : p[k] = q[k]
  BY SMT
<1> HIDE DEF p
<1>2. p # <<>> /\ p[Len(p)] = e
  BY <1>1, SMT
<1>3. q # <<>> => 1 \in 1..Len(q)
  BY SMT
<1>4. q = <<>> => Len(q) + 1 = 1
  BY SMT
<1> QED
  BY <1>1, <1>2, <1>3, <1>4 DEF p

(* An entry may be encoded behind the one it waits for.                     *)
LEMMA AppendOrderly ==
  ASSUME NEW q, Orderly(q), NEW e \in Entries, e.iteration = iteration, e.block.iteration = iteration, e.at = FirstStage(e.op),
         AtStage(e), e.op = "update" => engine = "vulkan", e.op # "prepass",
         q # <<>> => Follows(q[Len(q)], e)
  PROVE  Orderly(Append(q, e))
<1> DEFINE n == Len(q)
           p == Append(q, e)
<1>1. q \in Seq(Entries) /\ n \in Nat /\ (q # <<>> => n > 0)
  BY SMT DEF Orderly
<1>2. p \in Seq(Entries) /\ Len(p) = n + 1 /\ p[n + 1] = e /\ \A k \in 1..n : p[k] = q[k]
  BY <1>1, SMT
<1> HIDE DEF p
<1>3. \A k \in 1..(n + 1) : k \in 1..n \/ k = n + 1
  BY <1>1, SMT
<1>4. \A k \in 1..(n + 1) : p[k].iteration = iteration /\ p[k].block.iteration = iteration /\ (p[k].op = "update" => engine = "vulkan")
                            /\ (p[k].op = "prepass" => p[k].frame = 0)
  BY <1>2, <1>3 DEF Orderly
<1>5. ASSUME NEW k \in 1..((n + 1) - 1)
      PROVE  Follows(p[k], p[k + 1])
  <2>1. CASE k \in 1..(n - 1)
    <3>1. k \in 1..n /\ k + 1 \in 1..n
      BY <1>1, <2>1, SMT
    <3> QED
      BY <1>2, <2>1, <3>1 DEF Orderly
  <2>2. CASE k = n /\ n > 0
    <3>1. q # <<>> /\ k \in 1..n
      BY <1>1, <2>2, SMT
    <3> QED
      BY <1>2, <2>2, <3>1
  <2> QED
    BY <1>1, <2>1, <2>2, SMT
<1>6. ASSUME NEW k \in 2..(n + 1)
      PROVE  p[k].at = FirstStage(p[k].op)
  <2>1. CASE k \in 2..n
    <3>1. k \in 1..n
      BY <1>1, <2>1, SMT
    <3> QED
      BY <1>2, <2>1, <3>1 DEF Orderly
  <2>2. CASE k = n + 1
    BY <1>2, <2>2
  <2> QED
    BY <1>1, <2>1, <2>2, SMT
<1>7. AtStage(p[1])
  <2>1. CASE n = 0
    <3>1. n + 1 = 1
      BY <2>1, SMT
    <3> QED
      BY <1>2, <3>1
  <2>2. CASE n # 0
    <3>1. 1 \in 1..n /\ q # <<>>
      BY <1>1, <2>2, SMT
    <3> QED
      BY <1>2, <3>1 DEF Orderly
  <2> QED
    BY <2>1, <2>2
<1> QED
  BY <1>2, <1>4, <1>5, <1>6, <1>7 DEF Orderly, p

(* The order of the queue is about the engine, the iteration and the stages.*)
LEMMA OrderlyStays ==
  ASSUME Orderly(queue'), iteration' = iteration, engine' = engine, split' = split, stages' = stages
  PROVE  Queued'
  BY DEF Queued, Orderly, Follows, AtStage, FirstStage

(* What encoding behind the others leaves of what the head relies on.       *)
LEMMA EncodeKeeps ==
  ASSUME RunInv, split \in Int, progress = "run", progress' = "run", NEW e,
         queue # <<>> => queue'[1] = queue[1],
         queue = <<>> => queue'[1] = e,
         queue' # <<>>, e.op \in {"update", "main", "copyout"}, e.at = FirstStage(e.op),
         engine = "vulkan" /\ e.op # "update" => e.block = [iteration |-> iteration, timestamp |-> timestamp],
         e.op = "main" => engine # "vulkan",
         e.op = "copyout" => generated /\ e.frame = frame + 1,
         iteration' = iteration, engine' = engine, block' = block, sourceLayers' = sourceLayers,
         holds' = holds, UNCHANGED scheduleVars, lifetime' = lifetime
  PROVE  BlockHeld' /\ SourceHeld' /\ PrePassHeld' /\ MainHeld' /\ DestinationHeld'
<1>1. split' = split /\ stages' = stages
  BY DEF scheduleVars
<1>2. BlockHeld'
  <2>1. CASE queue = <<>>
    <3>1. engine = "vulkan" => block = [iteration |-> iteration, timestamp |-> timestamp]
      BY <2>1, SMT DEF RunInv, BlockHeld, RunTypes, Uniforms
    <3> QED
      BY <2>1, <3>1 DEF RunInv, BlockHeld
  <2>2. CASE queue # <<>>
    BY <2>2 DEF RunInv, BlockHeld
  <2> QED
    BY <2>1, <2>2
<1>3. SourceHeld'
  BY DEF RunInv, SourceHeld
<1>4. PrePassHeld'
  <2>1. PrePassStages' = PrePassStages
    BY <1>1 DEF PrePassStages
  <2> QED
    BY <1>1, <2>1 DEF RunInv, PrePassHeld, Kept
<1>5. MainHeld'
  <2>1. CASE queue # <<>>
    BY <1>1, <2>1 DEF RunInv, MainHeld, Kept
  <2>2. CASE queue = <<>> /\ e.op = "main"
    <3>1. queue'[1].at = split /\ split..(split - 1) = {}
      <4>1. split..(split - 1) = {}
        BY SMT
      <4> QED
        BY <2>2, <4>1 DEF FirstStage
    <3> QED
      BY <1>1, <3>1 DEF MainHeld
  <2>3. CASE queue = <<>> /\ e.op # "main"
    BY <2>3 DEF MainHeld
  <2> QED
    BY <2>1, <2>2, <2>3
<1>6. DestinationHeld'
  BY DEF RunInv, DestinationHeld
<1> QED
  BY <1>2, <1>3, <1>4, <1>5, <1>6

(* What is in force when the caller encodes.                                *)
LEMMA Running ==
  ASSUME TablesFit, PipelineInv, progress = "run"
  PROVE  /\ Placed /\ Staged /\ todo = {} /\ iteration \in Nat /\ iteration > 0
         /\ split \in Nat /\ Len(stages) \in Nat /\ 0 < split /\ split < Len(stages)
         /\ engine \in {"vulkan", "native"}
         /\ RunInv /\ TableInv /\ Queued /\ LastEncoded
<1>1. todo = {} /\ iteration > 0 /\ TableInv /\ RunInv
  BY DEF PipelineInv, TableInv, Phases
<1>2. Placed
  BY <1>1, Tables
<1>3. Staged
  BY <1>2 DEF Placed
<1> QED
  BY <1>1, <1>2, <1>3, SplitInside DEF RunInv, RunTypes

(* A timestamp is a number: the total is not below zero.                    *)
LEMMA StampType ==
  ASSUME RunTypes, NEW ts \in Stamps
  PROVE  Stamp(ts) \in Nat
<1>1. ts \in Nat /\ frame \in Nat /\ total \in Nat
  BY ScheduleAssumption DEF RunTypes
<1> DEFINE a == 12 * (frame + 1)
           d == total + 1
<1>2. a \in Nat /\ d \in Nat /\ d > 0
  BY <1>1, SMT
<1> HIDE DEF a, d
<1>3. a \div d \in Nat
  BY <1>2, SMT
<1> QED
  BY <1>1, <1>3 DEF Stamp, a, d

(* The main pass goes behind what is encoded, on Vulkan with its parameters *)
(* ahead of it.                                                             *)
LEMMA MainPassKeeps ==
  ASSUME TablesFit, PipelineInv, NEW ts \in Stamps, MainPass(ts)
  PROVE  PipelineInv'
<1>1. /\ progress = "run" /\ progress' = "run" /\ ~generated /\ generated' = TRUE
      /\ iteration' = iteration /\ timestamp' = Stamp(ts)
      /\ queue' = queue \o MainEntries(ts)
      /\ engine' = engine /\ total' = total /\ frame' = frame
      /\ UNCHANGED scheduleVars /\ stages' = stages /\ split' = split
      /\ lifetime' = lifetime /\ at' = at /\ block' = block
      /\ sourceLayers' = sourceLayers /\ holds' = holds /\ UNCHANGED planVars
  BY DEF MainPass, scheduleVars
<1>2. /\ todo = {} /\ iteration \in Nat /\ iteration > 0
      /\ split \in Nat /\ Len(stages) \in Nat /\ 0 < split /\ split < Len(stages)
      /\ engine \in {"vulkan", "native"} /\ RunInv /\ TableInv /\ Orderly(queue) /\ LastEncoded
      /\ RunTypes /\ frame \in Nat
  BY <1>1, Running DEF Queued, RunInv, RunTypes
<1>3. Stamp(ts) \in Nat
  BY <1>2, StampType
<1>4. TableInv'
  BY <1>1, <1>2, TablesStay
<1>5. RunTypes'
  BY <1>1, <1>2, <1>3 DEF RunTypes
<1> DEFINE u == [iteration |-> iteration, timestamp |-> Stamp(ts)]
           a == [op |-> "update", iteration |-> iteration, frame |-> frame + 1, at |-> 0, block |-> u]
           b == [op |-> "main", iteration |-> iteration, frame |-> frame + 1, at |-> split, block |-> u]
<1>6. MainEntries(ts) = IF engine = "vulkan" THEN <<a, b>> ELSE <<b>>
  <2>1. engine = "vulkan" => ParamUpdate(ts)[frame] = Stamp(ts)
    BY DEF ParamUpdate
  <2> QED
    BY <1>1, <2>1 DEF MainEntries, Entry
<1>7. u \in Uniforms /\ a \in Entries /\ b \in Entries
  <2>1. frame + 1 \in Nat
    BY <1>2, SMT
  <2> QED
    BY <1>2, <1>3, <2>1 DEF Uniforms, Entries, Ops
<1>8. /\ u.iteration = iteration
      /\ a.op = "update" /\ a.iteration = iteration /\ a.frame = frame + 1 /\ a.at = 0 /\ a.block = u
      /\ b.op = "main" /\ b.iteration = iteration /\ b.frame = frame + 1 /\ b.at = split /\ b.block = u
  OBVIOUS
<1>9. AtStage(a) /\ AtStage(b) /\ a.at = FirstStage(a.op) /\ b.at = FirstStage(b.op)
  <2>1. split \in split..(Len(stages) - 1)
    BY <1>2, SMT
  <2> QED
    BY <1>8, <2>1 DEF AtStage, FirstStage
<1>10. \A e : e \in {a, b} /\ (e = a <=> engine = "vulkan") /\ queue # <<>> =>
         Follows(queue[Len(queue)], e)
  BY <1>1, <1>2, <1>8 DEF Follows, LastEncoded
<1> HIDE DEF a, b
<1>11. queue \in Seq(Entries)
  BY <1>2 DEF Orderly
<1>12. CASE engine = "vulkan"
  <2> DEFINE p == Append(queue, a)
  <2>1. queue' = Append(p, b)
    BY <1>1, <1>6, <1>7, <1>11, <1>12, SMT
  <2>2. Orderly(p)
    BY <1>2, <1>7, <1>8, <1>9, <1>10, <1>12, AppendOrderly
  <2>3. p \in Seq(Entries) /\ p # <<>> /\ p[Len(p)] = a /\ (queue # <<>> => p[1] = queue[1])
        /\ (queue = <<>> => p[1] = a)
    BY <1>7, <1>11, AppendIs
  <2> HIDE DEF p
  <2>4. Follows(a, b)
    BY <1>8 DEF Follows
  <2>5. Orderly(Append(p, b))
    BY <1>7, <1>8, <1>9, <2>2, <2>3, <2>4, AppendOrderly
  <2>6. Queued'
    BY <1>1, <2>1, <2>5, OrderlyStays
  <2>7. queue' # <<>> /\ queue'[Len(queue')] = b /\ queue'[1] = p[1]
    BY <1>7, <2>1, <2>3, SMT
  <2>8. LastEncoded'
    BY <1>1, <1>8, <2>7 DEF LastEncoded
  <2>9. BlockHeld' /\ SourceHeld' /\ PrePassHeld' /\ MainHeld' /\ DestinationHeld'
    <3>1. split \in Int
      BY <1>2, SMT
    <3>2. (queue # <<>> => queue'[1] = queue[1]) /\ (queue = <<>> => queue'[1] = a)
      BY <2>3, <2>7
    <3>3. /\ a.op \in {"update", "main", "copyout"} /\ a.at = FirstStage(a.op)
          /\ engine = "vulkan" /\ a.op # "update" => a.block = [iteration |-> iteration, timestamp |-> timestamp]
          /\ a.op = "main" => engine # "vulkan"
          /\ a.op = "copyout" => generated /\ a.frame = frame + 1
      BY <1>8, <1>9
    <3> QED
      BY <1>1, <1>2, <2>7, <3>1, <3>2, <3>3, EncodeKeeps
  <2> QED
    BY <1>4, <1>5, <2>6, <2>8, <2>9 DEF PipelineInv, RunInv
<1>13. CASE engine = "native"
  <2>1. queue' = Append(queue, b)
    BY <1>1, <1>6, <1>7, <1>11, <1>13, SMT
  <2>2. a # b
    BY <1>8
  <2>3. queue # <<>> => Follows(queue[Len(queue)], b)
    BY <1>10, <1>13, <2>2
  <2>4. Orderly(Append(queue, b))
    BY <1>2, <1>7, <1>8, <1>9, <2>3, AppendOrderly
  <2>5. Queued'
    BY <1>1, <2>1, <2>4, OrderlyStays
  <2>6. queue' # <<>> /\ queue'[Len(queue')] = b /\ (queue # <<>> => queue'[1] = queue[1])
        /\ (queue = <<>> => queue'[1] = b)
    BY <1>7, <1>11, <2>1, SMT
  <2>7. LastEncoded'
    BY <1>1, <1>8, <2>6 DEF LastEncoded
  <2>8. BlockHeld' /\ SourceHeld' /\ PrePassHeld' /\ MainHeld' /\ DestinationHeld'
    <3>1. split \in Int
      BY <1>2, SMT
    <3>2. /\ b.op \in {"update", "main", "copyout"} /\ b.at = FirstStage(b.op)
          /\ engine = "vulkan" /\ b.op # "update" => b.block = [iteration |-> iteration, timestamp |-> timestamp]
          /\ b.op = "main" => engine # "vulkan"
          /\ b.op = "copyout" => generated /\ b.frame = frame + 1
      BY <1>8, <1>9, <1>13
    <3> QED
      BY <1>1, <1>2, <2>6, <3>1, <3>2, EncodeKeeps
  <2> QED
    BY <1>4, <1>5, <2>5, <2>7, <2>8 DEF PipelineInv, RunInv
<1> QED
  BY <1>2, <1>12, <1>13

(* The copy out goes behind its main pass.                                  *)
LEMMA ProduceKeeps ==
  ASSUME TablesFit, PipelineInv, Produce
  PROVE  PipelineInv'
<1>1. /\ progress = "run" /\ progress' = "run" /\ generated /\ generated' = FALSE
      /\ iteration' = iteration /\ timestamp' = timestamp /\ frame' = frame + 1
      /\ engine' = engine /\ total' = total
      /\ UNCHANGED scheduleVars /\ stages' = stages /\ split' = split
      /\ lifetime' = lifetime /\ at' = at /\ block' = block
      /\ sourceLayers' = sourceLayers /\ holds' = holds /\ UNCHANGED planVars
  BY DEF Produce, scheduleVars
<1>2. /\ todo = {} /\ iteration \in Nat /\ iteration > 0
      /\ split \in Nat
      /\ engine \in {"vulkan", "native"} /\ RunInv /\ TableInv /\ Orderly(queue) /\ LastEncoded
      /\ RunTypes /\ frame \in Nat /\ timestamp \in Nat
  BY <1>1, Running DEF Queued, RunInv, RunTypes
<1>3. TableInv'
  BY <1>1, <1>2, TablesStay
<1>4. frame + 1 \in Nat
  BY <1>2, SMT
<1>5. RunTypes'
  BY <1>1, <1>2, <1>4 DEF RunTypes
<1> DEFINE u == [iteration |-> iteration, timestamp |-> timestamp]
           e == [op |-> "copyout", iteration |-> iteration, frame |-> frame + 1, at |-> 0, block |-> u]
<1>6. queue' = Append(queue, e)
  BY <1>1 DEF Produce, Entry
<1>7. e \in Entries
  BY <1>2, <1>4 DEF Uniforms, Entries, Ops
<1>8. /\ u.iteration = iteration
      /\ e.op = "copyout" /\ e.iteration = iteration /\ e.frame = frame + 1 /\ e.at = 0 /\ e.block = u
  OBVIOUS
<1>9. AtStage(e) /\ e.at = FirstStage(e.op)
  BY <1>8 DEF AtStage, FirstStage
<1>10. queue # <<>> => Follows(queue[Len(queue)], e)
  BY <1>1, <1>2, <1>8 DEF Follows, LastEncoded
<1> HIDE DEF e
<1>11. queue \in Seq(Entries)
  BY <1>2 DEF Orderly
<1>12. Orderly(Append(queue, e))
  BY <1>2, <1>7, <1>8, <1>9, <1>10, AppendOrderly
<1>13. Queued'
  BY <1>1, <1>6, <1>12, OrderlyStays
<1>14. queue' # <<>> /\ queue'[Len(queue')] = e /\ (queue # <<>> => queue'[1] = queue[1])
       /\ (queue = <<>> => queue'[1] = e)
  BY <1>6, <1>7, <1>11, SMT
<1>15. LastEncoded'
  BY <1>1, <1>8, <1>14 DEF LastEncoded
<1>16. BlockHeld' /\ SourceHeld' /\ PrePassHeld' /\ MainHeld' /\ DestinationHeld'
  BY <1>1, <1>2, <1>8, <1>9, <1>14, EncodeKeeps
<1> QED
  BY <1>3, <1>5, <1>13, <1>15, <1>16 DEF PipelineInv, RunInv

-----------------------------------------------------------------------------
(* With the head gone, the next entry is where it starts.                   *)
LEMMA TailOrderly ==
  ASSUME NEW q, Orderly(q), q # <<>>, split \in Nat, Len(stages) \in Nat, 0 < split, split < Len(stages)
  PROVE  LET p == SubSeq(q, 1, 0) \o SubSeq(q, 2, Len(q))
         IN /\ Orderly(p)
            /\ p = <<>> => q[Len(q)] = q[1]
            /\ p # <<>> => /\ p[Len(p)] = q[Len(q)] /\ Follows(q[1], p[1])
                           /\ p[1].at = FirstStage(p[1].op)
<1> DEFINE n == Len(q)
           p == SubSeq(q, 1, 0) \o SubSeq(q, 2, Len(q))
<1>1. q \in Seq(Entries) /\ n \in Nat /\ n >= 1
  BY SMT DEF Orderly
<1>2. p \in Seq(Entries) /\ Len(p) = n - 1 /\ \A k \in 1..(n - 1) : p[k] = q[k + 1]
  <2>1. SubSeq(q, 1, 0) \in Seq(Entries) /\ Len(SubSeq(q, 1, 0)) = 0
    BY <1>1, SMT
  <2>2. /\ SubSeq(q, 2, n) \in Seq(Entries) /\ Len(SubSeq(q, 2, n)) = n - 1
        /\ \A k \in 1..(n - 1) : SubSeq(q, 2, n)[k] = q[k + 1]
    <3>1. 2 \in Int /\ n \in Int /\ \A k \in 2..n : q[k] \in Entries
      <4>1. \A k \in 2..n : k \in 1..n
        BY <1>1, SMT
      <4> QED
        BY <1>1, <4>1, SMT
    <3>2. /\ SubSeq(q, 2, n) \in Seq(Entries)
          /\ Len(SubSeq(q, 2, n)) = IF 2 <= n THEN n - 2 + 1 ELSE 0
          /\ \A k \in 1..(n - 2 + 1) : SubSeq(q, 2, n)[k] = q[2 + k - 1]
      BY <3>1, SubSeqProperties
    <3>3. /\ n - 2 + 1 = n - 1 /\ (~(2 <= n) => n - 1 = 0)
          /\ \A k \in 1..(n - 1) : 2 + k - 1 = k + 1
      <4>1. n - 2 + 1 = n - 1 /\ (~(2 <= n) => n - 1 = 0)
        <5>1. n \in Nat /\ n >= 1
          BY <1>1
        <5> HIDE DEF n
        <5> QED
          BY <5>1, SMT
      <4>2. \A k \in 1..(n - 1) : 2 + k - 1 = k + 1
        BY <1>1, SMT
      <4> QED
        BY <4>1, <4>2
    <3> QED
      BY <3>2, <3>3
  <2> DEFINE s == SubSeq(q, 1, 0)
             t == SubSeq(q, 2, n)
  <2> HIDE DEF s, t
  <2>3. s \o t \in Seq(Entries) /\ Len(s \o t) = n - 1 /\ \A k \in 1..(n - 1) : (s \o t)[k] = q[k + 1]
    <3>1. s \in Seq(Entries) /\ Len(s) = 0 /\ t \in Seq(Entries) /\ Len(t) = n - 1
          /\ \A k \in 1..(n - 1) : t[k] = q[k + 1]
      BY <2>1, <2>2 DEF s, t
    <3> HIDE DEF n
    <3>2. \A k \in 1..(n - 1) : (s \o t)[k] = t[k]
      BY <1>1, <3>1, SMT
    <3> QED
      BY <1>1, <3>1, <3>2, SMT
  <2> QED
    BY <2>3 DEF s, t
<1> HIDE DEF p
<1>3. \A k \in 1..(n - 1) : k + 1 \in 1..n /\ k + 1 \in 2..n /\ k \in 1..n
  BY <1>1, SMT
<1>4. \A k \in 1..(n - 1) : /\ p[k].iteration = iteration /\ p[k].block.iteration = iteration
                            /\ p[k].at = FirstStage(p[k].op)
                            /\ p[k].op = "update" => engine = "vulkan"
                            /\ p[k].op = "prepass" => p[k].frame = 0
                            /\ p[k] \in Entries
  <2> SUFFICES ASSUME NEW k \in 1..(n - 1)
               PROVE  /\ p[k].iteration = iteration /\ p[k].block.iteration = iteration
                            /\ p[k].at = FirstStage(p[k].op)
                      /\ p[k].op = "update" => engine = "vulkan"
                      /\ p[k].op = "prepass" => p[k].frame = 0
                      /\ p[k] \in Entries
    OBVIOUS
  <2>1. p[k] = q[k + 1] /\ k + 1 \in 1..n /\ k + 1 \in 2..n
    BY <1>2, <1>3
  <2>2. q[k + 1] \in Entries
    BY <1>1, <2>1
  <2> QED
    BY <2>1, <2>2 DEF Orderly
<1>5. ASSUME NEW k \in 1..((n - 1) - 1)
      PROVE  Follows(p[k], p[k + 1])
  <2>1. k \in 1..(n - 1) /\ k + 1 \in 1..(n - 1)
    BY <1>1, SMT
  <2> QED
    BY <1>2, <2>1 DEF Orderly
<1>6. p # <<>> => 1 \in 1..(n - 1)
  BY <1>1, <1>2, SMT
<1>7. \A e \in Entries : e.at = FirstStage(e.op) => AtStage(e)
  <2>1. 0 \in 0..(split - 1) /\ split \in split..(Len(stages) - 1)
    BY SMT
  <2> QED
    BY <2>1 DEF AtStage, FirstStage
<1>8. \A k \in 2..(n - 1) : k \in 1..(n - 1)
  BY <1>1, SMT
<1>9. Orderly(p)
  BY <1>2, <1>4, <1>5, <1>6, <1>7, <1>8 DEF Orderly
<1>10. p = <<>> => q[Len(q)] = q[1]
  <2>1. p = <<>> => n = 1
    BY <1>1, <1>2, SMT
  <2> QED
    BY <2>1
<1>11. p # <<>> => /\ p[Len(p)] = q[Len(q)] /\ Follows(q[1], p[1])
                   /\ p[1].at = FirstStage(p[1].op)
  <2> SUFFICES ASSUME p # <<>>
               PROVE  /\ p[Len(p)] = q[Len(q)] /\ Follows(q[1], p[1])
                      /\ p[1].at = FirstStage(p[1].op)
    OBVIOUS
  <2>1. n - 1 \in 1..(n - 1) /\ (n - 1) + 1 = n /\ 1 + 1 = 2
    BY <1>1, <1>6, SMT
  <2>2. p[Len(p)] = q[n]
    BY <1>2, <2>1
  <2>3. p[1] = q[1 + 1]
    BY <1>2, <1>6
  <2>4. Follows(q[1], q[1 + 1])
    BY <1>6 DEF Orderly
  <2> QED
    BY <1>4, <1>6, <2>2, <2>3, <2>4
<1> QED
  BY <1>9, <1>10, <1>11 DEF p

(* A pass at the head goes on to its next stage.                            *)
LEMMA StepOrderly ==
  ASSUME NEW q, Orderly(q), q # <<>>, AtStage([q[1] EXCEPT !.at = @ + 1])
  PROVE  LET p == [q EXCEPT ![1].at = @ + 1]
         IN /\ Orderly(p) /\ p # <<>>
            /\ p[1] = [q[1] EXCEPT !.at = @ + 1]
            /\ p[1].op = q[1].op /\ p[1].iteration = q[1].iteration /\ p[1].frame = q[1].frame
            /\ p[1].block = q[1].block /\ p[1].at = q[1].at + 1
            /\ p[Len(p)].op = q[Len(q)].op /\ p[Len(p)].frame = q[Len(q)].frame
            /\ p[Len(p)].block = q[Len(q)].block
<1> DEFINE n == Len(q)
           e == [q[1] EXCEPT !.at = @ + 1]
           p == [q EXCEPT ![1].at = @ + 1]
<1>1. q \in Seq(Entries) /\ n \in Nat /\ n >= 1 /\ 1 \in 1..n /\ n \in 1..n
  BY SMT DEF Orderly
<1>2. q[1] \in Entries
  BY <1>1
<1>3. e \in Entries /\ e.op = q[1].op /\ e.iteration = q[1].iteration /\ e.frame = q[1].frame
      /\ e.block = q[1].block /\ e.at = q[1].at + 1
  BY <1>2, SMT DEF Entries
<1>4. p = [q EXCEPT ![1] = e]
  OBVIOUS
<1> HIDE DEF p
<1>5. p \in Seq(Entries) /\ Len(p) = n /\ p[1] = e /\ \A k \in 2..n : p[k] = q[k]
  <2> HIDE DEF e
  <2> QED
    BY <1>1, <1>3, <1>4, SMT
<1>6. \A k \in 1..n : k = 1 \/ k \in 2..n
  BY <1>1, SMT
<1>7. \A k \in 1..n : p[k].op = q[k].op /\ p[k].iteration = q[k].iteration
                      /\ p[k].frame = q[k].frame /\ p[k].block = q[k].block
  BY <1>3, <1>5, <1>6
<1>8. \A k \in 1..(n - 1) : k \in 1..n /\ k + 1 \in 1..n
  BY <1>1, SMT
<1>9. \A k \in 1..(n - 1) : Follows(p[k], p[k + 1])
  <2>1. \A k \in 1..(n - 1) : Follows(q[k], q[k + 1])
    BY DEF Orderly
  <2> QED
    BY <1>7, <1>8, <2>1 DEF Follows
<1>10. \A k \in 2..n : p[k].at = FirstStage(p[k].op)
  BY <1>5 DEF Orderly
<1>11. AtStage(p[1])
  BY <1>5
<1>12. \A k \in 1..n : /\ p[k].iteration = iteration /\ p[k].block.iteration = iteration
                       /\ p[k].op = "update" => engine = "vulkan"
                       /\ p[k].op = "prepass" => p[k].frame = 0
  BY <1>7 DEF Orderly
<1>13. p # <<>>
  BY <1>1, <1>5, SMT
<1>14. Orderly(p)
  BY <1>5, <1>9, <1>10, <1>11, <1>12 DEF Orderly
<1> QED
  BY <1>1, <1>3, <1>5, <1>7, <1>13, <1>14 DEF p

(* What a step of the GPU is.                                               *)
LEMMA HeadRuns ==
  ASSUME TablesFit, PipelineInv, Run
  PROVE  /\ progress = "run" /\ progress' = "run" /\ queue # <<>>
         /\ RunCopyIn(1) \/ RunUpdate(1) \/ RunStage(1) \/ RunCopyOut(1)
         /\ Ran(1)
         /\ UNCHANGED <<scheduleVars, lifetime, at, frameVars, planVars>>
<1>1. PICK k \in 1..Len(queue) :
        /\ MayRun(k)
        /\ RunCopyIn(k) \/ RunUpdate(k) \/ RunStage(k) \/ RunCopyOut(k)
        /\ Ran(k)
  BY DEF Run
<1>2. queue # <<>> /\ progress = "run"
  <2>1. queue # <<>>
    BY <1>1, SMT
  <2> QED
    BY <2>1 DEF PipelineInv, TableInv, Phases, NothingYet
<1>3. k = 1
  BY <1>1, <1>2, Running, OnlyHead
<1> QED
  BY <1>1, <1>2, <1>3 DEF Run

(* What the head leaves behind it when it has run to its end, and what a    *)
(* pass leaves when it goes on.                                             *)
LEMMA Popped ==
  ASSUME TablesFit, PipelineInv, progress = "run", progress' = "run", queue # <<>>,
         queue' = SubSeq(queue, 1, 0) \o SubSeq(queue, 2, Len(queue)),
         UNCHANGED <<scheduleVars, lifetime, at, frameVars, planVars>>,
         block' \in Uniforms, DOMAIN holds' = Passes
  PROVE  /\ TableInv' /\ RunTypes' /\ Queued' /\ LastEncoded'
         /\ queue' = <<>> => queue[Len(queue)] = queue[1]
         /\ queue' # <<>> => Follows(queue[1], queue'[1]) /\ queue'[1].at = FirstStage(queue'[1].op)
<1>1. /\ todo = {} /\ iteration > 0 /\ split \in Nat /\ Len(stages) \in Nat
      /\ 0 < split /\ split < Len(stages) /\ TableInv /\ RunInv /\ Orderly(queue)
  BY Running DEF Queued
<1>2. /\ UNCHANGED scheduleVars /\ stages' = stages /\ split' = split /\ lifetime' = lifetime /\ at' = at
      /\ UNCHANGED planVars
      /\ engine' = engine /\ iteration' = iteration /\ total' = total /\ frame' = frame
      /\ generated' = generated /\ timestamp' = timestamp
  BY DEF scheduleVars, frameVars
<1>3. TableInv'
  BY <1>1, <1>2, TablesStay
<1>4. RunTypes'
  BY <1>1, <1>2 DEF RunInv, RunTypes
<1>5. /\ Orderly(queue')
      /\ queue' = <<>> => queue[Len(queue)] = queue[1]
      /\ queue' # <<>> => /\ queue'[Len(queue')] = queue[Len(queue)] /\ Follows(queue[1], queue'[1])
                          /\ queue'[1].at = FirstStage(queue'[1].op)
  BY <1>1, TailOrderly
<1>6. Queued'
  BY <1>2, <1>5, OrderlyStays
<1>7. LastEncoded'
  BY <1>1, <1>2, <1>5 DEF RunInv, LastEncoded
<1> QED
  BY <1>3, <1>4, <1>5, <1>6, <1>7

(* The same when a pass at the head goes on to its next stage.              *)
LEMMA Advanced ==
  ASSUME TablesFit, PipelineInv, progress = "run", progress' = "run", queue # <<>>,
         AtStage([queue[1] EXCEPT !.at = @ + 1]),
         queue' = [queue EXCEPT ![1].at = @ + 1],
         UNCHANGED <<scheduleVars, lifetime, at, frameVars, planVars>>,
         block' \in Uniforms, DOMAIN holds' = Passes
  PROVE  /\ TableInv' /\ RunTypes' /\ Queued' /\ LastEncoded' /\ queue' # <<>>
         /\ queue'[1].op = queue[1].op /\ queue'[1].frame = queue[1].frame
         /\ queue'[1].block = queue[1].block /\ queue'[1].at = queue[1].at + 1
<1>1. /\ todo = {} /\ iteration > 0 /\ TableInv /\ RunInv /\ Orderly(queue)
  BY Running DEF Queued
<1>2. /\ UNCHANGED scheduleVars /\ stages' = stages /\ split' = split /\ lifetime' = lifetime /\ at' = at
      /\ UNCHANGED planVars
      /\ engine' = engine /\ iteration' = iteration /\ total' = total /\ frame' = frame
      /\ generated' = generated /\ timestamp' = timestamp
  BY DEF scheduleVars, frameVars
<1>3. TableInv'
  BY <1>1, <1>2, TablesStay
<1>4. RunTypes'
  BY <1>1, <1>2 DEF RunInv, RunTypes
<1>5. /\ Orderly(queue') /\ queue' # <<>>
      /\ queue'[1].op = queue[1].op /\ queue'[1].frame = queue[1].frame
      /\ queue'[1].block = queue[1].block /\ queue'[1].at = queue[1].at + 1
      /\ queue'[Len(queue')].op = queue[Len(queue)].op
      /\ queue'[Len(queue')].frame = queue[Len(queue)].frame
      /\ queue'[Len(queue')].block = queue[Len(queue)].block
  BY <1>1, StepOrderly
<1>6. Queued'
  BY <1>2, <1>5, OrderlyStays
<1>7. LastEncoded'
  BY <1>1, <1>2, <1>5 DEF RunInv, LastEncoded
<1> QED
  BY <1>3, <1>4, <1>5, <1>6, <1>7

(* The copy of a game's frame: the source holds the last two.               *)
LEMMA CopyInKeeps ==
  ASSUME TablesFit, PipelineInv, progress = "run", progress' = "run", queue # <<>>, RunCopyIn(1), Ran(1),
         UNCHANGED <<scheduleVars, lifetime, at, frameVars, planVars>>
  PROVE  PipelineInv'
<1>1. /\ RunInv /\ Queued /\ LastEncoded /\ Orderly(queue) /\ iteration \in Nat /\ iteration > 0
      /\ split \in Nat
  BY Running DEF Queued
<1>2. /\ stages' = stages /\ split' = split /\ lifetime' = lifetime
      /\ engine' = engine /\ iteration' = iteration /\ frame' = frame
      /\ generated' = generated /\ timestamp' = timestamp
  BY DEF scheduleVars, frameVars
<1>3. /\ queue[1].op = "copyin" /\ queue[1].iteration = iteration /\ queue[1].at = 0
      /\ sourceLayers' = [sourceLayers EXCEPT ![iteration % 2] = iteration]
      /\ block' = block /\ holds' = holds
  <2>1. 1 \in 1..Len(queue)
    BY <1>1, SMT DEF Orderly
  <2> QED
    BY <1>1, <2>1 DEF RunCopyIn, Orderly, AtStage
<1>4. queue' = SubSeq(queue, 1, 0) \o SubSeq(queue, 2, Len(queue))
  <2>1. ~(0 + 1 < 0) /\ 1 - 1 = 0 /\ 1 + 1 = 2
    BY SMT
  <2> QED
    BY <1>3, <2>1 DEF Ran, Limit
<1>5. block' \in Uniforms /\ DOMAIN holds' = Passes
  BY <1>1, <1>3 DEF RunInv, RunTypes
<1>6. /\ TableInv' /\ RunTypes' /\ Queued' /\ LastEncoded'
      /\ queue' = <<>> => queue[Len(queue)] = queue[1]
      /\ queue' # <<>> => Follows(queue[1], queue'[1]) /\ queue'[1].at = FirstStage(queue'[1].op)
  BY <1>4, <1>5, Popped
<1>7. queue' # <<>> /\ queue'[1].op = "prepass" /\ queue'[1].at = 0 /\ queue'[1].block = queue[1].block
  <2>1. queue' # <<>>
    BY <1>1, <1>3, <1>6 DEF LastEncoded
  <2> QED
    BY <1>3, <1>6, <2>1 DEF Follows, FirstStage
<1>8. BlockHeld'
  BY <1>1, <1>2, <1>3, <1>7 DEF RunInv, BlockHeld
<1>9. SourceHeld'
  <2>1. iteration % 2 \in 0..1 /\ (iteration + 1) % 2 \in 0..1 /\ (iteration + 1) % 2 # iteration % 2
    BY <1>1, SMT
  <2>2. sourceLayers \in [0..1 -> Nat] /\ sourceLayers[(iteration + 1) % 2] = iteration - 1
    BY <1>1 DEF RunInv, SourceHeld
  <2>3. /\ sourceLayers' \in [0..1 -> Nat] /\ sourceLayers'[(iteration + 1) % 2] = iteration - 1
        /\ sourceLayers'[iteration % 2] = iteration
    BY <1>1, <1>3, <2>1, <2>2
  <2> QED
    BY <1>2, <2>3 DEF SourceHeld
<1>10. PrePassHeld'
  <2>1. PrePassStages' = 0 /\ 0..(0 - 1) = {}
    BY <1>7, SMT DEF PrePassStages
  <2> QED
    BY <2>1 DEF PrePassHeld
<1>11. MainHeld' /\ DestinationHeld'
  BY <1>7 DEF MainHeld, DestinationHeld
<1> QED
  BY <1>6, <1>8, <1>9, <1>10, <1>11 DEF PipelineInv, RunInv

(* What is held when the head is gone, apart from the destination: the next *)
(* main pass has not started.                                               *)
LEMMA RestHeld ==
  ASSUME RunInv, split \in Nat, progress = "run", progress' = "run",
         UNCHANGED <<scheduleVars, lifetime, at, frameVars, planVars>>, sourceLayers' = sourceLayers,
         queue # <<>>, queue[1].op # "copyin",
         queue' # <<>> => queue'[1].op \notin {"copyin", "prepass"} /\ queue'[1].at = FirstStage(queue'[1].op)
  PROVE  /\ SourceHeld' /\ MainHeld' /\ PrePassStages' = split
         /\ PrePassStages = split /\ holds' = holds => PrePassHeld'
<1>1. /\ stages' = stages /\ split' = split /\ lifetime' = lifetime
      /\ engine' = engine /\ iteration' = iteration /\ frame' = frame
  BY DEF scheduleVars, frameVars
<1>2. SourceHeld'
  BY <1>1 DEF RunInv, SourceHeld
<1>3. MainHeld'
  <2>1. split..(split - 1) = {}
    BY SMT
  <2>2. queue' # <<>> /\ queue'[1].op = "main" => queue'[1].at = split'
    BY <1>1 DEF FirstStage
  <2> QED
    BY <1>1, <2>1, <2>2 DEF MainHeld
<1>4. PrePassStages' = split
  BY <1>1 DEF PrePassStages
<1>5. PrePassStages = split /\ holds' = holds => PrePassHeld'
  BY <1>1, <1>4 DEF RunInv, PrePassHeld, Kept
<1> QED
  BY <1>2, <1>3, <1>4, <1>5

(* The parameters, in the block from now on.                                *)
LEMMA UpdateKeeps ==
  ASSUME TablesFit, PipelineInv, progress = "run", progress' = "run", queue # <<>>, RunUpdate(1), Ran(1),
         UNCHANGED <<scheduleVars, lifetime, at, frameVars, planVars>>
  PROVE  PipelineInv'
<1>1. /\ RunInv /\ Queued /\ LastEncoded /\ Orderly(queue) /\ iteration \in Nat
      /\ split \in Nat
  BY Running DEF Queued
<1>2. /\ engine' = engine /\ iteration' = iteration /\ frame' = frame
      /\ generated' = generated /\ timestamp' = timestamp
  BY DEF frameVars
<1>3. /\ queue[1] \in Entries /\ queue[1].block.iteration = iteration /\ queue[1].op = "update" /\ queue[1].at = 0
      /\ block' = [block EXCEPT !.timestamp = queue[1].block.timestamp]
      /\ sourceLayers' = sourceLayers /\ holds' = holds
  <2>1. 1 \in 1..Len(queue)
    BY <1>1, SMT DEF Orderly
  <2> QED
    BY <1>1, <2>1 DEF RunUpdate, Orderly, AtStage
<1>4. queue' = SubSeq(queue, 1, 0) \o SubSeq(queue, 2, Len(queue))
  <2>1. ~(0 + 1 < 0) /\ 1 - 1 = 0 /\ 1 + 1 = 2
    BY SMT
  <2> QED
    BY <1>3, <2>1 DEF Ran, Limit
<1>5. queue[1].block \in Uniforms /\ block \in Uniforms /\ block.iteration = iteration /\ DOMAIN holds = Passes
  BY <1>1, <1>3 DEF RunInv, RunTypes, BlockHeld, Entries
<1>6. block' \in Uniforms /\ block'.iteration = iteration /\ block'.timestamp = queue[1].block.timestamp
  BY <1>3, <1>5, SMT DEF Uniforms
<1>7. /\ TableInv' /\ RunTypes' /\ Queued' /\ LastEncoded'
      /\ queue' = <<>> => queue[Len(queue)] = queue[1]
      /\ queue' # <<>> => Follows(queue[1], queue'[1]) /\ queue'[1].at = FirstStage(queue'[1].op)
  BY <1>3, <1>4, <1>5, <1>6, Popped
<1>8. queue' # <<>> /\ queue'[1].op = "main" /\ queue'[1].block = queue[1].block
  <2>1. queue' # <<>>
    BY <1>1, <1>3, <1>7 DEF LastEncoded
  <2> QED
    BY <1>3, <1>7, <2>1 DEF Follows
<1>9. BlockHeld'
  <2>1. queue'[1].block = block'
    BY <1>3, <1>5, <1>6, <1>8, SMT DEF Uniforms
  <2> QED
    BY <1>2, <1>6, <1>8, <2>1 DEF BlockHeld
<1>10. SourceHeld' /\ MainHeld' /\ PrePassHeld'
  <2>1. PrePassStages = split
    BY <1>3 DEF PrePassStages
  <2> QED
    BY <1>1, <1>3, <1>7, <1>8, <2>1, RestHeld
<1>11. DestinationHeld'
  BY <1>8 DEF DestinationHeld
<1> QED
  BY <1>7, <1>9, <1>10, <1>11 DEF PipelineInv, RunInv

(* The copy out of the destination.                                         *)
LEMMA CopyOutKeeps ==
  ASSUME TablesFit, PipelineInv, progress = "run", progress' = "run", queue # <<>>, RunCopyOut(1), Ran(1),
         UNCHANGED <<scheduleVars, lifetime, at, frameVars, planVars>>
  PROVE  PipelineInv'
<1>1. /\ RunInv /\ Queued /\ LastEncoded /\ Orderly(queue) /\ iteration \in Nat
      /\ split \in Nat
  BY Running DEF Queued
<1>2. /\ engine' = engine /\ iteration' = iteration /\ frame' = frame
      /\ generated' = generated /\ timestamp' = timestamp
  BY DEF frameVars
<1>3. /\ queue[1].op = "copyout" /\ queue[1].at = 0
      /\ block' = block /\ sourceLayers' = sourceLayers /\ holds' = holds
  BY <1>1 DEF RunCopyOut, Orderly, AtStage
<1>4. queue' = SubSeq(queue, 1, 0) \o SubSeq(queue, 2, Len(queue))
  <2>1. ~(0 + 1 < 0) /\ 1 - 1 = 0 /\ 1 + 1 = 2
    BY SMT
  <2> QED
    BY <1>3, <2>1 DEF Ran, Limit
<1>5. block' \in Uniforms /\ DOMAIN holds' = Passes
  BY <1>1, <1>3 DEF RunInv, RunTypes
<1>6. /\ TableInv' /\ RunTypes' /\ Queued' /\ LastEncoded'
      /\ queue' = <<>> => queue[Len(queue)] = queue[1]
      /\ queue' # <<>> => Follows(queue[1], queue'[1]) /\ queue'[1].at = FirstStage(queue'[1].op)
  BY <1>4, <1>5, Popped
<1>7. queue' # <<>> => queue'[1].op = IF engine = "vulkan" THEN "update" ELSE "main"
  BY <1>3, <1>6 DEF Follows
<1>8. queue' = <<>> => /\ queue[1].block = [iteration |-> iteration, timestamp |-> timestamp]
                       /\ ~generated
  BY <1>1, <1>3, <1>6 DEF LastEncoded
<1>9. BlockHeld'
  <2>1. engine = "vulkan" => queue[1].block = block
    BY <1>1, <1>3 DEF RunInv, BlockHeld
  <2>2. block.iteration = iteration
    BY <1>1 DEF RunInv, BlockHeld
  <2> QED
    BY <1>2, <1>3, <1>7, <1>8, <2>1, <2>2 DEF BlockHeld
<1>10. SourceHeld' /\ MainHeld' /\ PrePassHeld'
  <2>1. PrePassStages = split
    BY <1>3 DEF PrePassStages
  <2> QED
    BY <1>1, <1>3, <1>6, <1>7, <2>1, RestHeld
<1>11. DestinationHeld'
  BY <1>2, <1>7, <1>8 DEF DestinationHeld
<1> QED
  BY <1>6, <1>9, <1>10, <1>11 DEF PipelineInv, RunInv

-----------------------------------------------------------------------------
(* A stage of a pass at the head.                                           *)
LEMMA StageRuns ==
  ASSUME TablesFit, PipelineInv, progress = "run", queue # <<>>, RunStage(1)
  PROVE  LET e == queue[1]
         IN /\ e.op \in {"prepass", "main"} /\ e.iteration = iteration /\ e.frame \in Nat
            /\ e.op = "prepass" => e.frame = 0 /\ e.at \in 0..(split - 1)
            /\ e.op = "main" => e.at \in split..(Len(stages) - 1)
            /\ e.at \in 0..(Len(stages) - 1)
            /\ block' = block /\ sourceLayers' = sourceLayers
            /\ block' \in Uniforms /\ DOMAIN holds' = Passes
            /\ \A y \in stages[e.at + 1] :
                 y \in Passes /\ StageNumber(y) = e.at + 1
                 /\ (Kept(y, e.at) => holds'[y] = <<iteration, e.frame>>)
            /\ \A y \in Passes :
                 /\ StageNumber(y) - 1 < e.at \/ (y \in Pinned /\ y \notin stages[e.at + 1])
                 /\ (\E x \in stages[e.at + 1] : x # Destination) => Kept(y, e.at)
                 => holds'[y] = holds[y]
<1> DEFINE e == queue[1]
<1>1. /\ Placed /\ RunInv /\ Orderly(queue) /\ split \in Nat /\ Len(stages) \in Nat
      /\ 0 < split /\ split < Len(stages) /\ Staged
  BY Running DEF Queued
<1>2. 1 \in 1..Len(queue)
  BY <1>1, SMT DEF Orderly
<1>3. /\ e \in Entries /\ e.iteration = iteration /\ AtStage(e)
      /\ e.op = "prepass" => e.frame = 0
  BY <1>1, <1>2 DEF Orderly
<1>4. /\ e.op \in {"prepass", "main"} /\ block' = block /\ sourceLayers' = sourceLayers
      /\ holds' = Result(e)
  BY DEF RunStage, Result, Overwritten
<1>5. /\ e.op = "prepass" => e.at \in 0..(split - 1)
      /\ e.op = "main" => e.at \in split..(Len(stages) - 1)
  BY <1>3 DEF AtStage
<1>6. e.at \in 0..(Len(stages) - 1)
  <2> HIDE DEF e
  <2> QED
    BY <1>1, <1>4, <1>5, SMT
<1>7. DOMAIN holds = Passes /\ block \in Uniforms
  BY <1>1 DEF RunInv, RunTypes
<1>8. e.frame \in Nat
  BY <1>3 DEF Entries
<1> HIDE DEF e
<1>9. /\ \A y \in stages[e.at + 1] :
           y \in Passes /\ StageNumber(y) = e.at + 1
           /\ (Kept(y, e.at) => holds'[y] = <<e.iteration, e.frame>>)
      /\ \A y \in Passes :
           /\ StageNumber(y) - 1 < e.at \/ (y \in Pinned /\ y \notin stages[e.at + 1])
           /\ (\E x \in stages[e.at + 1] : x # Destination) => Kept(y, e.at)
           => holds'[y] = holds[y]
  <2>1. PICK s \in 0..(Len(stages) - 1) : e.at = s
    BY <1>6
  <2>2. /\ \A y \in stages[s + 1] :
             y \in Passes /\ StageNumber(y) = s + 1
             /\ (Kept(y, s) => Result(e)[y] = <<e.iteration, e.frame>>)
        /\ \A y \in Passes :
             /\ StageNumber(y) - 1 < s \/ (y \in Pinned /\ y \notin stages[s + 1])
             /\ (\E x \in stages[s + 1] : x # Destination) => Kept(y, s)
             => Result(e)[y] = holds[y]
    BY <1>1, <2>1, StageLeaves
  <2> QED
    BY <1>3, <1>4, <2>1, <2>2
<1>10. block' \in Uniforms /\ DOMAIN holds' = Passes
  BY <1>4, <1>7 DEF Result
<1> QED
  BY <1>3, <1>4, <1>5, <1>6, <1>8, <1>9, <1>10 DEF e

(* What is kept for a later stage is kept for an earlier one.               *)
LEMMA KeptEarlier ==
  ASSUME Staged, NEW y \in Passes, NEW s \in Nat, NEW t \in Nat, s <= t, Kept(y, t)
  PROVE  Kept(y, s)
<1>1. CASE y \in Pinned
  BY <1>1 DEF Kept
<1>2. CASE y \notin Pinned
  <2>1. PICK r \in Nat : lifetime[y] = <<StageNumber(y) - 1, r>>
    BY <1>2, LifeIs
  <2> QED
    BY <1>2, <2>1, SMT DEF Kept
<1> QED
  BY <1>1, <1>2

(* The stages of the pre-pass that have run, and one more.                  *)
LEMMA PrePassStage ==
  ASSUME TablesFit, PipelineInv, progress = "run", queue # <<>>, RunStage(1), queue[1].op = "prepass",
         NEW s \in 0..queue[1].at, NEW y \in stages[s + 1], Kept(y, queue[1].at + 1)
  PROVE  holds'[y] = <<iteration, 0>>
<1> DEFINE n == queue[1].at
<1>1. /\ Staged /\ RunInv /\ split \in Nat /\ Len(stages) \in Nat /\ 0 < split /\ split < Len(stages)
  BY Running
<1>2. /\ n \in 0..(split - 1) /\ queue[1].frame = 0
      /\ \A z \in stages[n + 1] :
           z \in Passes /\ (Kept(z, n) => holds'[z] = <<iteration, queue[1].frame>>)
      /\ \A z \in Passes :
           StageNumber(z) - 1 < n /\ Kept(z, n) => holds'[z] = holds[z]
  BY StageRuns
<1>3. PrePassStages = n
  BY DEF PrePassStages
<1> HIDE DEF n
<1>4. s \in Nat /\ n \in Nat /\ s + 1 \in 1..Len(stages) /\ s <= n
  BY <1>1, <1>2, SMT DEF n
<1>5. y \in Passes /\ StageNumber(y) = s + 1
  <2>1. y \in Passes
    BY <1>1, <1>4 DEF Staged, ScheduleInv, ScheduleTypes
  <2> QED
    BY <1>1, <1>4, <2>1, StageNumberIs
<1>6. Kept(y, n)
  <2>1. n + 1 \in Nat /\ n <= n + 1
    BY <1>4, SMT
  <2> QED
    BY <1>1, <1>4, <1>5, <2>1, KeptEarlier DEF n
<1>7. CASE s = n
  BY <1>2, <1>6, <1>7
<1>8. CASE s # n
  <2>1. s \in 0..(n - 1) /\ StageNumber(y) - 1 < n
    BY <1>4, <1>5, <1>8, SMT
  <2>2. holds[y] = <<iteration, 0>>
    BY <1>1, <1>3, <1>6, <2>1 DEF RunInv, PrePassHeld
  <2> QED
    BY <1>2, <1>5, <1>6, <2>1, <2>2
<1> QED
  BY <1>7, <1>8

(* In the main pass the images of the pre-pass stay, and those of its own   *)
(* stages are added to.                                                     *)
LEMMA MainStage ==
  ASSUME TablesFit, PipelineInv, progress = "run", queue # <<>>, RunStage(1), queue[1].op = "main"
  PROVE  /\ \A s \in 0..(split - 1) : \A y \in stages[s + 1] :
              Kept(y, split) => holds'[y] = <<iteration, 0>>
         /\ \A s \in split..queue[1].at : \A y \in stages[s + 1] :
              Kept(y, queue[1].at + 1) => holds'[y] = <<iteration, queue[1].frame>>
<1> DEFINE n == queue[1].at
           f == queue[1].frame
<1>1. /\ Staged /\ RunInv /\ split \in Nat /\ Len(stages) \in Nat /\ 0 < split /\ split < Len(stages)
  BY Running
<1>2. /\ n \in split..(Len(stages) - 1)
      /\ \A z \in stages[n + 1] :
           z \in Passes /\ (Kept(z, n) => holds'[z] = <<iteration, f>>)
      /\ \A z \in Passes :
           /\ StageNumber(z) - 1 < n
           /\ (\E x \in stages[n + 1] : x # Destination) => Kept(z, n)
           => holds'[z] = holds[z]
  BY StageRuns
<1>3. PrePassStages = split
  BY DEF PrePassStages
<1>4. \A s \in split..(n - 1) : \A y \in stages[s + 1] : Kept(y, n) => holds[y] = <<iteration, f>>
  BY <1>1 DEF RunInv, MainHeld
<1> HIDE DEF n, f
<1>5. \A s \in 0..(Len(stages) - 1) : \A y \in stages[s + 1] : y \in Passes /\ StageNumber(y) = s + 1
  <2> SUFFICES ASSUME NEW s \in 0..(Len(stages) - 1), NEW y \in stages[s + 1]
               PROVE  y \in Passes /\ StageNumber(y) = s + 1
    OBVIOUS
  <2>1. s + 1 \in 1..Len(stages)
    BY <1>1, SMT
  <2>2. y \in Passes
    BY <1>1, <2>1 DEF Staged, ScheduleInv, ScheduleTypes
  <2> QED
    BY <1>1, <2>1, <2>2, StageNumberIs
<1>6. ASSUME NEW s \in 0..(split - 1), NEW y \in stages[s + 1], Kept(y, split)
      PROVE  holds'[y] = <<iteration, 0>>
  <2>1. s \in 0..(Len(stages) - 1)
    BY <1>1, SMT
  <2>2. y \in Passes /\ StageNumber(y) = s + 1
    BY <1>5, <2>1
  <2>3. StageNumber(y) - 1 < n /\ ~(StageNumber(y) > split)
    BY <1>1, <1>2, <2>2, SMT
  <2>4. y \in 1..34
    <3>1. ~(y >= SplitPass)
      BY <1>1, <2>2, <2>3, StageNumberIs
    <3> QED
      BY <2>2, <3>1, SMT DEF Passes, Destination, SplitPass
  <2>5. (\E x \in stages[n + 1] : x # Destination) => Kept(y, n)
    BY <1>1, <1>2, <1>6, <2>4, LeftForMain
  <2>6. holds[y] = <<iteration, 0>>
    BY <1>1, <1>3, <1>6 DEF RunInv, PrePassHeld
  <2> QED
    BY <1>2, <2>2, <2>3, <2>5, <2>6
<1>7. ASSUME NEW s \in split..n, NEW y \in stages[s + 1], Kept(y, n + 1)
      PROVE  holds'[y] = <<iteration, f>>
  <2>1. s \in 0..(Len(stages) - 1) /\ n \in Nat /\ s \in Nat
    BY <1>1, <1>2, SMT
  <2>2. y \in Passes /\ StageNumber(y) = s + 1
    BY <1>5, <2>1
  <2>3. Kept(y, n)
    <3>1. n + 1 \in Nat /\ n <= n + 1
      BY <2>1, SMT
    <3> QED
      BY <1>1, <1>7, <2>1, <2>2, <3>1, KeptEarlier
  <2>4. CASE s = n
    BY <1>2, <2>3, <2>4
  <2>5. CASE s # n
    <3>1. s \in split..(n - 1) /\ StageNumber(y) - 1 < n
      BY <1>1, <2>1, <2>2, <2>5, SMT
    <3>2. holds[y] = <<iteration, f>>
      BY <1>4, <2>3, <3>1
    <3> QED
      BY <1>2, <2>2, <2>3, <3>1, <3>2
  <2> QED
    BY <2>4, <2>5
<1> QED
  BY <1>6, <1>7 DEF n, f

-----------------------------------------------------------------------------
(* A stage of the pre-pass.                                                 *)
LEMMA PrePassKeeps ==
  ASSUME TablesFit, PipelineInv, progress = "run", progress' = "run", queue # <<>>, RunStage(1), Ran(1),
         queue[1].op = "prepass",
         UNCHANGED <<scheduleVars, lifetime, at, frameVars, planVars>>
  PROVE  PipelineInv'
<1> DEFINE n == queue[1].at
<1>1. /\ RunInv /\ Orderly(queue) /\ split \in Nat /\ LastEncoded
  BY Running DEF Queued
<1>2. /\ stages' = stages /\ split' = split /\ lifetime' = lifetime
      /\ engine' = engine /\ iteration' = iteration /\ frame' = frame
      /\ generated' = generated /\ timestamp' = timestamp
  BY DEF scheduleVars, frameVars
<1>3. /\ n \in 0..(split - 1) /\ block' = block /\ sourceLayers' = sourceLayers
      /\ block' \in Uniforms /\ DOMAIN holds' = Passes
  BY StageRuns
<1>4. queue[1] \in Entries
  <2>1. 1 \in 1..Len(queue)
    BY <1>1, SMT DEF Orderly
  <2> QED
    BY <1>1, <2>1 DEF Orderly
<1>5. /\ block.iteration = iteration
      /\ engine = "vulkan" => queue[1].block = block
  BY <1>1 DEF RunInv, BlockHeld
<1>6. ASSUME n + 1 = PrePassStages'
      PROVE  PrePassHeld'
  <2> SUFFICES ASSUME NEW s \in 0..(PrePassStages' - 1), NEW y \in stages[s + 1], Kept(y, n + 1)
               PROVE  holds'[y] = <<iteration, 0>>
    <3>1. \A y : Kept(y, n + 1) <=> (y \in Pinned \/ lifetime[y][2] >= n + 1)
      BY DEF Kept
    <3> QED
      BY <1>2, <1>6, <3>1 DEF PrePassHeld, Kept
  <2>1. s \in 0..queue[1].at
    BY <1>3, <1>6, SMT
  <2> QED
    BY <2>1, PrePassStage
<1>7. CASE n + 1 < split
  <2>1. queue' = [queue EXCEPT ![1].at = @ + 1]
    BY <1>7 DEF Ran, Limit
  <2>2. AtStage([queue[1] EXCEPT !.at = @ + 1])
    <3>1. n + 1 \in 0..(split - 1)
      BY <1>1, <1>3, <1>7, SMT
    <3>2. /\ [queue[1] EXCEPT !.at = @ + 1].op = "prepass"
          /\ [queue[1] EXCEPT !.at = @ + 1].at = n + 1
      BY <1>4 DEF Entries
    <3> QED
      BY <3>1, <3>2 DEF AtStage
  <2>3. /\ TableInv' /\ RunTypes' /\ Queued' /\ LastEncoded' /\ queue' # <<>>
        /\ queue'[1].op = "prepass" /\ queue'[1].block = queue[1].block /\ queue'[1].at = n + 1
    BY <1>3, <2>1, <2>2, Advanced
  <2>4. BlockHeld'
    BY <1>2, <1>3, <1>5, <2>3 DEF BlockHeld
  <2>5. SourceHeld'
    BY <1>1, <1>2, <1>3, <2>3 DEF RunInv, SourceHeld
  <2>6. PrePassHeld'
    <3>1. PrePassStages' = n + 1
      BY <2>3 DEF PrePassStages
    <3> QED
      BY <1>6, <3>1
  <2>7. MainHeld' /\ DestinationHeld'
    BY <2>3 DEF MainHeld, DestinationHeld
  <2> QED
    BY <2>3, <2>4, <2>5, <2>6, <2>7 DEF PipelineInv, RunInv
<1>8. CASE ~(n + 1 < split)
  <2>1. queue' = SubSeq(queue, 1, 0) \o SubSeq(queue, 2, Len(queue))
    <3>1. 1 - 1 = 0 /\ 1 + 1 = 2
      BY SMT
    <3> QED
      BY <1>8, <3>1 DEF Ran, Limit
  <2>2. /\ TableInv' /\ RunTypes' /\ Queued' /\ LastEncoded'
        /\ queue' = <<>> => queue[Len(queue)] = queue[1]
        /\ queue' # <<>> => Follows(queue[1], queue'[1]) /\ queue'[1].at = FirstStage(queue'[1].op)
    BY <1>3, <2>1, Popped
  <2>3. queue' # <<>> => queue'[1].op = IF engine = "vulkan" THEN "update" ELSE "main"
    BY <2>2 DEF Follows
  <2>4. queue' = <<>> => /\ queue[1].block = [iteration |-> iteration, timestamp |-> timestamp]
                         /\ ~generated
    BY <1>1, <2>2 DEF LastEncoded
  <2>5. BlockHeld'
    BY <1>2, <1>3, <1>5, <2>3, <2>4 DEF BlockHeld
  <2>6. SourceHeld' /\ MainHeld' /\ PrePassStages' = split
    BY <1>1, <1>3, <2>2, <2>3, RestHeld
  <2>7. PrePassHeld'
    <3>1. n + 1 = split
      BY <1>1, <1>3, <1>8, SMT
    <3> QED
      BY <1>6, <2>6, <3>1
  <2>8. DestinationHeld'
    BY <1>2, <2>3, <2>4 DEF DestinationHeld
  <2> QED
    BY <2>2, <2>5, <2>6, <2>7, <2>8 DEF PipelineInv, RunInv
<1> QED
  BY <1>7, <1>8

(* A stage of the main pass.                                                *)
LEMMA MainKeeps ==
  ASSUME TablesFit, PipelineInv, progress = "run", progress' = "run", queue # <<>>, RunStage(1), Ran(1),
         queue[1].op = "main",
         UNCHANGED <<scheduleVars, lifetime, at, frameVars, planVars>>
  PROVE  PipelineInv'
<1> DEFINE n == queue[1].at
           f == queue[1].frame
<1>1. /\ RunInv /\ Orderly(queue) /\ split \in Nat /\ Len(stages) \in Nat /\ LastEncoded /\ Staged
  BY Running DEF Queued
<1>2. /\ stages' = stages /\ split' = split /\ lifetime' = lifetime
      /\ engine' = engine /\ iteration' = iteration /\ frame' = frame
      /\ generated' = generated /\ timestamp' = timestamp
  BY DEF scheduleVars, frameVars
<1>3. /\ n \in split..(Len(stages) - 1) /\ block' = block /\ sourceLayers' = sourceLayers
      /\ block' \in Uniforms /\ DOMAIN holds' = Passes
  BY StageRuns
<1>4. queue[1] \in Entries
  <2>1. 1 \in 1..Len(queue)
    BY <1>1, SMT DEF Orderly
  <2> QED
    BY <1>1, <2>1 DEF Orderly
<1>5. /\ block.iteration = iteration
      /\ engine = "vulkan" => queue[1].block = block
  BY <1>1 DEF RunInv, BlockHeld
<1>6. /\ \A s \in 0..(split - 1) : \A y \in stages[s + 1] :
           Kept(y, split) => holds'[y] = <<iteration, 0>>
      /\ \A s \in split..n : \A y \in stages[s + 1] :
           Kept(y, n + 1) => holds'[y] = <<iteration, f>>
  BY MainStage
<1>7. PrePassStages' = split => PrePassHeld'
  BY <1>2, <1>6 DEF PrePassHeld, Kept
<1>8. CASE n + 1 < Len(stages)
  <2>1. queue' = [queue EXCEPT ![1].at = @ + 1]
    BY <1>8 DEF Ran, Limit
  <2>2. AtStage([queue[1] EXCEPT !.at = @ + 1])
    <3>1. n + 1 \in split..(Len(stages) - 1)
      BY <1>1, <1>3, <1>8, SMT
    <3>2. /\ [queue[1] EXCEPT !.at = @ + 1].op = "main"
          /\ [queue[1] EXCEPT !.at = @ + 1].at = n + 1
      BY <1>4 DEF Entries
    <3> QED
      BY <3>1, <3>2 DEF AtStage
  <2>3. /\ TableInv' /\ RunTypes' /\ Queued' /\ LastEncoded' /\ queue' # <<>>
        /\ queue'[1].op = "main" /\ queue'[1].frame = f
        /\ queue'[1].block = queue[1].block /\ queue'[1].at = n + 1
    BY <1>3, <2>1, <2>2, Advanced
  <2>4. BlockHeld'
    BY <1>2, <1>3, <1>5, <2>3 DEF BlockHeld
  <2>5. SourceHeld'
    BY <1>1, <1>2, <1>3, <2>3 DEF RunInv, SourceHeld
  <2>6. PrePassHeld'
    BY <1>2, <1>7, <2>3 DEF PrePassStages
  <2>7. MainHeld'
    <3>1. (n + 1) - 1 = n
      BY <1>1, <1>3, SMT
    <3> QED
      BY <1>2, <1>6, <2>3, <3>1 DEF MainHeld, Kept
  <2>8. DestinationHeld'
    BY <2>3 DEF DestinationHeld
  <2> QED
    BY <2>3, <2>4, <2>5, <2>6, <2>7, <2>8 DEF PipelineInv, RunInv
<1>9. CASE ~(n + 1 < Len(stages))
  <2>1. queue' = SubSeq(queue, 1, 0) \o SubSeq(queue, 2, Len(queue))
    <3>1. 1 - 1 = 0 /\ 1 + 1 = 2
      BY SMT
    <3> QED
      BY <1>9, <3>1 DEF Ran, Limit
  <2>2. /\ TableInv' /\ RunTypes' /\ Queued' /\ LastEncoded'
        /\ queue' = <<>> => queue[Len(queue)] = queue[1]
        /\ queue' # <<>> => Follows(queue[1], queue'[1]) /\ queue'[1].at = FirstStage(queue'[1].op)
    BY <1>3, <2>1, Popped
  <2>3. queue' # <<>> => /\ queue'[1].op = "copyout" /\ queue'[1].frame = f
                         /\ queue'[1].block = queue[1].block
    BY <2>2 DEF Follows
  <2>4. queue' = <<>> => /\ queue[1].block = [iteration |-> iteration, timestamp |-> timestamp]
                         /\ generated => f = frame + 1
    BY <1>1, <2>2 DEF LastEncoded
  <2>5. BlockHeld'
    BY <1>2, <1>3, <1>5, <2>3, <2>4 DEF BlockHeld
  <2>6. SourceHeld' /\ MainHeld' /\ PrePassStages' = split
    BY <1>1, <1>3, <2>2, <2>3, RestHeld
  <2>7. PrePassHeld'
    BY <1>7, <2>6
  <2>8. holds'[Destination] = <<iteration, f>>
    <3>1. Destination \in Passes /\ Destination >= SplitPass /\ Destination \in Pinned
      BY SMT DEF Passes, Destination, SplitPass, Pinned
    <3>2. PICK i \in 1..Len(stages) : Destination \in stages[i] /\ i > split
      BY <1>1, <3>1, StageNumberIs
    <3>3. i - 1 \in split..n /\ (i - 1) + 1 = i
      BY <1>1, <1>3, <1>9, <3>2, SMT
    <3>4. Kept(Destination, n + 1)
      BY <3>1 DEF Kept
    <3> QED
      BY <1>6, <3>2, <3>3, <3>4
  <2>9. DestinationHeld'
    BY <1>2, <2>3, <2>4, <2>8 DEF DestinationHeld
  <2> QED
    BY <2>2, <2>5, <2>6, <2>7, <2>9 DEF PipelineInv, RunInv
<1> QED
  BY <1>8, <1>9

(* A step of the GPU.                                                       *)
LEMMA RunKeeps ==
  ASSUME TablesFit, PipelineInv, Run
  PROVE  PipelineInv'
<1>1. /\ progress = "run" /\ progress' = "run" /\ queue # <<>> /\ Ran(1)
      /\ RunCopyIn(1) \/ RunUpdate(1) \/ RunStage(1) \/ RunCopyOut(1)
      /\ UNCHANGED <<scheduleVars, lifetime, at, frameVars, planVars>>
  BY HeadRuns
<1>2. CASE RunCopyIn(1)
  BY <1>1, <1>2, CopyInKeeps
<1>3. CASE RunUpdate(1)
  BY <1>1, <1>3, UpdateKeeps
<1>4. CASE RunStage(1)
  <2>1. queue[1].op \in {"prepass", "main"}
    BY <1>4 DEF RunStage
  <2>2. CASE queue[1].op = "prepass"
    BY <1>1, <1>4, <2>2, PrePassKeeps
  <2>3. CASE queue[1].op = "main"
    BY <1>1, <1>4, <2>3, MainKeeps
  <2> QED
    BY <2>1, <2>2, <2>3
<1>5. CASE RunCopyOut(1)
  BY <1>1, <1>5, CopyOutKeeps
<1> QED
  BY <1>1, <1>2, <1>3, <1>4, <1>5

-----------------------------------------------------------------------------
(* Nothing runs while the tables are made.                                  *)
LEMMA IdleKeeps ==
  ASSUME RunInv, TableInv', progress' # "run", holds' = holds
  PROVE  PipelineInv'
<1>1. DOMAIN holds' = Passes
  BY DEF RunInv, RunTypes
<1>2. (NothingYet /\ progress # "run" /\ DOMAIN holds = Passes)'
  BY <1>1 DEF TableInv, Phases
<1>3. RunInv'
  BY <1>2, IdleRun, PTL
<1> QED
  BY <1>3 DEF PipelineInv

(* With nothing changed, nothing is.                                        *)
LEMMA RestKeeps ==
  ASSUME PipelineInv, UNCHANGED pipelineVars
  PROVE  PipelineInv'
<1>1. /\ progress' = progress /\ written' = written /\ remaining' = remaining /\ main' = main
      /\ stages' = stages /\ split' = split /\ lifetime' = lifetime /\ at' = at
      /\ engine' = engine /\ iteration' = iteration /\ total' = total /\ frame' = frame
      /\ generated' = generated /\ timestamp' = timestamp /\ params' = params
      /\ block' = block /\ queue' = queue /\ sourceLayers' = sourceLayers /\ holds' = holds
      /\ size' = size /\ life' = life /\ todo' = todo /\ placed' = placed
      /\ transient' = transient /\ pinned' = pinned /\ offset' = offset
      /\ item' = item /\ off' = off /\ next' = next
  BY DEF pipelineVars, scheduleVars, frameVars, gpuVars, planVars, inputVars, walkVars
<1>2. ScheduleInv' /\ LifetimeInv'
  BY <1>1, ScheduleFrame, LifetimeFrame DEF PipelineInv, TableInv, scheduleVars
<1>3. PlanInv => PlanInv'
  BY <1>1 DEF PlanInv, TypeOK, PlacedDone, InOrder, Cleared,
     NeverOverlap, Shares, LiveTogether, Meet, End
<1>4. Phases'
  BY <1>1, <1>3 DEF PipelineInv, TableInv, Phases, NothingPlaced, NothingYet
<1>5. RunTypes' /\ LastEncoded' /\ BlockHeld' /\ SourceHeld' /\ DestinationHeld'
  BY <1>1 DEF PipelineInv, RunInv, RunTypes, LastEncoded, BlockHeld, SourceHeld, DestinationHeld
<1>6. Queued'
  <2>1. Orderly(queue')
    BY <1>1 DEF PipelineInv, RunInv, Queued
  <2> QED
    BY <1>1, <2>1, OrderlyStays
<1>7. PrePassHeld' /\ MainHeld'
  <2>1. PrePassStages' = PrePassStages /\ \A y, s : Kept(y, s)' <=> Kept(y, s)
    BY <1>1 DEF PrePassStages, Kept
  <2> QED
    BY <1>1, <2>1 DEF PipelineInv, RunInv, PrePassHeld, MainHeld, Kept
<1> QED
  BY <1>2, <1>4, <1>5, <1>6, <1>7 DEF PipelineInv, TableInv, RunInv

(* The invariant holds in every state: the tables are made before anything  *)
(* runs, the entries run one after the other on either engine, and a stage  *)
(* writes over no image that a later stage reads.                           *)
THEOREM PipelineInvariant ==
  ASSUME TablesFit
  PROVE  PipelineSpec => []PipelineInv
<1>1. PipelineInit => PipelineInv
  <2> SUFFICES ASSUME PipelineInit
               PROVE  PipelineInv
    OBVIOUS
  <2>1. TableInv
    BY InitTables
  <2>2. progress = "schedule" /\ DOMAIN holds = Passes
    BY DEF PipelineInit
  <2>3. RunInv
    BY <2>1, <2>2, IdleRun DEF TableInv, Phases
  <2> QED
    BY <2>1, <2>3 DEF PipelineInv
<1>2. PipelineInv /\ [PipelineNext]_pipelineVars => PipelineInv'
  <2> SUFFICES ASSUME PipelineInv, [PipelineNext]_pipelineVars
               PROVE  PipelineInv'
    OBVIOUS
  <2>1. TableInv /\ RunInv
    BY DEF PipelineInv
  <2>2. CASE Schedule
    <3>1. progress' # "run" /\ holds' = holds
      BY <2>2 DEF Schedule, gpuVars
    <3> QED
      BY <2>1, <2>2, <3>1, ScheduleTables, IdleKeeps
  <2>3. CASE MoveBound
    <3>1. progress' # "run" /\ holds' = holds
      BY <2>3 DEF MoveBound, gpuVars
    <3> QED
      BY <2>1, <2>3, <3>1, MoveBoundTables, IdleKeeps
  <2>4. CASE Scheduled
    <3>1. progress' # "run" /\ holds' = holds
      BY <2>4 DEF Scheduled, gpuVars
    <3> QED
      BY <2>1, <2>4, <3>1, ScheduledTables, IdleKeeps
  <2>5. CASE Lifetimes
    <3>1. progress' # "run" /\ holds' = holds
      BY <2>5 DEF Lifetimes, gpuVars
    <3> QED
      BY <2>1, <2>5, <3>1, LifetimesTables, IdleKeeps
  <2>6. ASSUME NEW perf \in BOOLEAN, Load(perf)
        PROVE  PipelineInv'
    <3>1. progress' # "run" /\ holds' = holds
      BY <2>6 DEF Load, gpuVars
    <3> QED
      BY <2>1, <2>6, <3>1, LoadTables, IdleKeeps
  <2>7. CASE Plan
    <3>1. progress' # "run" /\ holds' = holds
      BY <2>7 DEF Plan, gpuVars
    <3> QED
      BY <2>1, <2>7, <3>1, PlanTables, IdleKeeps
  <2>8. CASE Begin
    BY <2>8, BeginKeeps
  <2>9. ASSUME NEW ts \in Stamps, MainPass(ts)
        PROVE  PipelineInv'
    BY <2>9, MainPassKeeps
  <2>10. CASE Produce
    BY <2>10, ProduceKeeps
  <2>11. CASE Run
    BY <2>11, RunKeeps
  <2>12. CASE Done \/ UNCHANGED pipelineVars
    BY <2>12, RestKeeps DEF Done
  <2> QED
    BY <2>2, <2>3, <2>4, <2>5, <2>6, <2>7, <2>8, <2>9, <2>10, <2>11, <2>12 DEF PipelineNext
<1> QED
  BY <1>1, <1>2, PTL DEF PipelineSpec

(* What a pass at the head reads is what it should be.                      *)
LEMMA ReadHeld ==
  ASSUME TablesFit, PipelineInv, progress = "run", queue # <<>>, queue[1].op \in {"prepass", "main"},
         NEW x \in StageOf(queue[1]), NEW y \in Inputs[x]
  PROVE  /\ Written(queue[1], y)
         /\ y \in ImageIds
         /\ y # Source => /\ y \in Passes /\ StageNumber(y) <= queue[1].at
                          /\ Kept(y, queue[1].at)
<1> DEFINE e == queue[1]
           s == e.at
<1>1. /\ Staged /\ RunInv /\ Orderly(queue) /\ iteration \in Nat
      /\ split \in Nat /\ Len(stages) \in Nat /\ 0 < split /\ split < Len(stages)
  BY Running DEF Queued
<1>2. e.iteration = iteration /\ AtStage(e) /\ (e.op = "prepass" => e.frame = 0)
  <2>1. 1 \in 1..Len(queue)
    BY <1>1, SMT DEF Orderly
  <2> QED
    BY <1>1, <2>1 DEF Orderly
<1>3. /\ e.op = "prepass" => s \in 0..(split - 1)
      /\ e.op = "main" => s \in split..(Len(stages) - 1)
  BY <1>2 DEF AtStage
<1>4. s \in 0..(Len(stages) - 1) /\ s \in Nat /\ x \in stages[s + 1]
  <2>1. x \in stages[s + 1]
    BY DEF StageOf
  <2> HIDE DEF s
  <2> QED
    BY <1>1, <1>3, <2>1, SMT
<1>5. CASE y = Source
  <2>1. /\ sourceLayers[(iteration + 1) % 2] = iteration - 1
        /\ sourceLayers[iteration % 2] = iteration
    BY <1>1 DEF RunInv, SourceHeld
  <2>2. Source \in ImageIds
    BY SMT DEF Source, ImageIds, Destination
  <2> QED
    BY <1>2, <1>5, <2>1, <2>2 DEF Written
<1>6. CASE y # Source
  <2> HIDE DEF s
  <2>1. y \in Passes /\ StageNumber(y) <= s /\ Kept(y, s)
    BY <1>1, <1>4, <1>6, ReadIsKept
  <2>2. y \in ImageIds
    BY <2>1, SMT DEF Passes, ImageIds
  <2>3. /\ StageNumber(y) \in 1..Len(stages) /\ y \in stages[StageNumber(y)]
        /\ y >= SplitPass <=> StageNumber(y) > split
    BY <1>1, <2>1, StageNumberIs
  <2>4. PICK t \in Nat : t + 1 = StageNumber(y) /\ t < s
    <3>1. StageNumber(y) - 1 \in Nat /\ (StageNumber(y) - 1) + 1 = StageNumber(y) /\ StageNumber(y) - 1 < s
      BY <1>1, <1>4, <2>1, <2>3, SMT
    <3> QED
      BY <3>1
  <2>5. y < SplitPass <=> ~(StageNumber(y) > split)
    <3>1. y < SplitPass <=> ~(y >= SplitPass)
      BY <2>1, SMT DEF Passes, SplitPass
    <3> QED
      BY <2>3, <3>1
  <2>6. holds[y] = <<e.iteration, IF y < SplitPass THEN 0 ELSE e.frame>>
    <3>1. CASE e.op = "prepass"
      <4>1. PrePassStages = s
        BY <3>1 DEF PrePassStages, s
      <4>2. t \in 0..(s - 1) /\ ~(StageNumber(y) > split)
        BY <1>1, <1>3, <1>4, <2>4, <3>1, SMT
      <4>3. holds[y] = <<iteration, 0>>
        BY <1>1, <2>1, <2>3, <2>4, <4>1, <4>2 DEF RunInv, PrePassHeld
      <4> QED
        BY <1>2, <2>5, <4>2, <4>3
    <3>2. CASE e.op = "main" /\ y < SplitPass
      <4>1. PrePassStages = split
        BY <3>2 DEF PrePassStages
      <4>2. t \in 0..(split - 1) /\ split <= s
        BY <1>1, <1>3, <1>4, <2>3, <2>4, <2>5, <3>2, SMT
      <4>3. Kept(y, split)
        BY <1>1, <1>4, <2>1, <4>2, KeptEarlier
      <4>4. holds[y] = <<iteration, 0>>
        BY <1>1, <2>3, <2>4, <4>1, <4>2, <4>3 DEF RunInv, PrePassHeld
      <4> QED
        BY <1>2, <3>2, <4>4
    <3>3. CASE e.op = "main" /\ ~(y < SplitPass)
      <4>1. t \in split..(s - 1)
        BY <1>1, <1>3, <1>4, <2>3, <2>4, <2>5, <3>3, SMT
      <4>2. \A i \in split..(s - 1) : \A z \in stages[i + 1] :
              Kept(z, s) => holds[z] = <<iteration, e.frame>>
        BY <1>1, <3>3 DEF RunInv, MainHeld, s
      <4>3. holds[y] = <<iteration, e.frame>>
        BY <2>1, <2>3, <2>4, <4>1, <4>2
      <4> QED
        BY <1>2, <3>3, <4>3
    <3> QED
      BY <3>1, <3>2, <3>3
  <2> QED
    BY <1>6, <2>1, <2>2, <2>6 DEF Written, s
<1> QED
  BY <1>5, <1>6

(* The invariant says that what runs reads what it should.                  *)
LEMMA FreshFromInv ==
  ASSUME TablesFit, PipelineInv
  PROVE  InputsFresh
<1> SUFFICES ASSUME NEW k \in 1..Len(queue), MayRun(k)
             PROVE  LET e == queue[k]
                        reads == IF e.op = "copyout" THEN {Destination}
                                 ELSE IF e.op \in {"prepass", "main"} THEN UNION {Inputs[x] : x \in StageOf(e)} ELSE {}
                    IN /\ \A y \in reads : Written(e, y)
                       /\ e.op \in {"prepass", "main"} =>
                            /\ engine = "vulkan" => block = e.block
                            /\ \A x \in StageOf(e) : Aliases(x) \cap (reads \cup StageOf(e)) = {}
  BY DEF InputsFresh
<1>1. queue # <<>> /\ progress = "run"
  <2>1. queue # <<>>
    BY SMT
  <2> QED
    BY <2>1 DEF PipelineInv, TableInv, Phases, NothingYet
<1>2. /\ Placed /\ Staged /\ RunInv /\ Orderly(queue) /\ engine \in {"vulkan", "native"}
      /\ split \in Nat /\ Len(stages) \in Nat /\ 0 < split /\ split < Len(stages)
  BY <1>1, Running DEF Queued
<1>3. k = 1
  BY <1>1, <1>2, OnlyHead DEF Queued
<1> DEFINE e == queue[1]
<1>4. e.iteration = iteration /\ AtStage(e)
  BY <1>1, <1>2, <1>3 DEF Orderly
<1>5. CASE e.op = "copyout"
  <2>1. holds[Destination] = <<iteration, e.frame>>
    BY <1>1, <1>2, <1>5 DEF RunInv, DestinationHeld
  <2>2. Destination # Source /\ ~(Destination < SplitPass)
    BY SMT DEF Destination, Source, SplitPass
  <2>3. Written(e, Destination)
    BY <1>4, <2>1, <2>2 DEF Written
  <2> QED
    BY <1>3, <1>5, <2>3
<1>6. CASE e.op \in {"prepass", "main"}
  <2>1. \A x \in StageOf(e) : \A y \in Inputs[x] :
          /\ Written(e, y)
          /\ y \in ImageIds
          /\ y # Source => y \in Passes /\ StageNumber(y) <= e.at /\ Kept(y, e.at)
    BY <1>1, <1>6, ReadHeld
  <2>2. engine = "vulkan" => block = e.block
    BY <1>1, <1>2, <1>6 DEF RunInv, BlockHeld
  <2>3. PICK s \in 0..(Len(stages) - 1) : e.at = s
    <3> HIDE DEF e
    <3> QED
      BY <1>2, <1>4, <1>6, SMT DEF AtStage
  <2>4. StageOf(e) = stages[s + 1] /\ s + 1 \in 1..Len(stages)
    BY <1>2, <2>3, SMT DEF StageOf
  <2>5. \A x \in stages[s + 1] : x \in Passes /\ x \in ImageIds /\ x # Source /\ StageNumber(x) = s + 1
    <3> SUFFICES ASSUME NEW x \in stages[s + 1]
                 PROVE  x \in Passes /\ x \in ImageIds /\ x # Source /\ StageNumber(x) = s + 1
      OBVIOUS
    <3>1. x \in Passes
      BY <1>2, <2>4 DEF Staged, ScheduleInv, ScheduleTypes
    <3>2. x \in ImageIds /\ x # Source
      BY <3>1, SMT DEF Passes, ImageIds, Source
    <3> QED
      BY <1>2, <2>4, <3>1, <3>2, StageNumberIs
  <2>6. ASSUME NEW x \in stages[s + 1], NEW z \in stages[s + 1]
        PROVE  z \notin Aliases(x)
    <3>1. CASE z = x
      BY <3>1 DEF Aliases
    <3>2. CASE z # x
      <4>1. Kept(z, s)
        <5>1. CASE z \in Pinned
          BY <5>1 DEF Kept
        <5>2. CASE z \notin Pinned
          <6>1. PICK r \in Nat : lifetime[z] = <<StageNumber(z) - 1, r>> /\ StageNumber(z) - 1 <= r
            BY <1>2, <2>5, <5>2, LifeIs
          <6>2. r >= s
            BY <2>5, <6>1, SMT
          <6> QED
            BY <6>1, <6>2 DEF Kept
        <5> QED
          BY <5>1, <5>2
      <4>2. StageNumber(z) - 1 <= s
        BY <2>5, SMT
      <4> QED
        BY <1>2, <2>5, <3>2, <4>1, <4>2, KeptApart
    <3> QED
      BY <3>1, <3>2
  <2>7. ASSUME NEW x \in stages[s + 1], NEW z \in stages[s + 1], NEW y \in Inputs[z]
        PROVE  y \notin Aliases(x)
    <3>1. y \in ImageIds
      BY <2>1, <2>4
    <3>2. CASE y = Source
      <4>1. y \in Pinned /\ y # x
        BY <2>5, <3>2 DEF Pinned
      <4> QED
        BY <1>2, <3>1, <4>1, KeptApart DEF Kept
    <3>3. CASE y # Source
      <4>1. y \in Passes /\ StageNumber(y) <= s /\ Kept(y, s)
        BY <2>1, <2>3, <2>4, <3>3
      <4>2. StageNumber(y) \in Nat
        BY <1>2, <4>1, StageNumberIs
      <4>3. y # x /\ StageNumber(y) - 1 <= s
        BY <2>5, <4>1, <4>2, SMT
      <4> QED
        BY <1>2, <3>1, <4>1, <4>3, KeptApart
    <3> QED
      BY <3>2, <3>3
  <2> DEFINE reads == UNION {Inputs[x] : x \in StageOf(e)}
  <2>8. \A y \in reads : Written(e, y)
    BY <2>1
  <2>9. \A x \in StageOf(e) : Aliases(x) \cap (reads \cup StageOf(e)) = {}
    BY <2>4, <2>6, <2>7
  <2> QED
    BY <1>3, <1>6, <2>2, <2>8, <2>9
<1>7. CASE e.op \notin {"copyout", "prepass", "main"}
  BY <1>3, <1>7
<1> QED
  BY <1>5, <1>6, <1>7

(* Whatever may run next reads what was written for it, in every order of   *)
(* the host's calls and the GPU's steps (Signature::new, plan,              *)
(* Pipeline::encode): whatever the number of frames, the timestamps and the *)
(* engine, for planner constants that hold the pipeline's images.           *)
THEOREM InputsStayFresh ==
  ASSUME TablesFit
  PROVE  PipelineSpec => []InputsFresh
<1>1. PipelineInv => InputsFresh
  BY FreshFromInv
<1> QED
  BY <1>1, PipelineInvariant, PTL

-----------------------------------------------------------------------------
(* The pacer.                                                               *)

(* Of the answers, what the loop around them needs.                         *)
AnswerTypes ==
  /\ slots.of \in Nat /\ slots.at \in Seq(Nat)
  /\ phase \in Nat \ {0}

EstimateTypes ==
  /\ estimate \in Nat /\ cadence \in Nat /\ untrusted \in Nat
  /\ probing \in Nat /\ probes \in Seq(Nat)

LoopTypes ==
  /\ pace \in Nat \ {0} /\ started \in BOOLEAN
  /\ drawables \in Seq(Nat) /\ backlog \in Nat /\ probed \in Nat

(* Each frame of a probe is counted on one of two sides: held back, in      *)
(* `probing`, or trusted, in `probes`; and neither side is let past its     *)
(* limit.                                                                   *)
ProbeCounted ==
  /\ probing <= ProbeSamples
  /\ Len(probes) < ProbeSamples
  /\ probing = 0 => probed = 0 /\ probes = <<>>
  /\ probing > 0 => started /\ probed = probing + Len(probes)

(* The inductive invariant.                                                 *)
PacerInv == AnswerTypes /\ EstimateTypes /\ LoopTypes /\ SlotsFit /\ ProbeCounted

-----------------------------------------------------------------------------
(* The operators.                                                           *)

LEMMA MaxOfTwo ==
  ASSUME NEW a \in Int, NEW b \in Int
  PROVE  Max({a, b}) \in {a, b} /\ Max({a, b}) >= a /\ Max({a, b}) >= b
<1>1. \E x \in {a, b} : \A y \in {a, b} : x >= y
  OBVIOUS
<1> QED
  BY <1>1 DEF Max

(* The least of two numbers.                                                *)
LEMMA MinOfTwo ==
  ASSUME NEW a \in Int, NEW b \in Int
  PROVE  Min({a, b}) \in {a, b} /\ Min({a, b}) <= a /\ Min({a, b}) <= b
<1>1. \E x \in {a, b} : \A y \in {a, b} : x =< y
  OBVIOUS
<1> QED
  BY <1>1 DEF Min

(* A denominator is taken from those that are close.                        *)
LEMMA LeastDenominator ==
  ASSUME NEW S \in SUBSET (2..5), S # {}
  PROVE  Min(S) \in 2..5
<1>1. \E x \in S : \A y \in S : x =< y
  <2>1. CASE 2 \in S  BY <2>1
  <2>2. CASE 2 \notin S /\ 3 \in S  BY <2>2
  <2>3. CASE 2 \notin S /\ 3 \notin S /\ 4 \in S  BY <2>3
  <2>4. CASE 2 \notin S /\ 3 \notin S /\ 4 \notin S
    <3>1. \A y \in S : y = 5
      BY <2>4
    <3>2. PICK x \in S : TRUE
      OBVIOUS
    <3>3. \A y \in S : x =< y
      BY <3>1
    <3> QED  BY <3>3
  <2> QED  BY <2>1, <2>2, <2>3, <2>4
<1> QED
  BY <1>1 DEF Min

(* The median of three frames is a time.                                    *)
LEMMA MedianType ==
  ASSUME NEW a \in Nat, NEW b \in Nat, NEW c \in Nat
  PROVE  Median(a, b, c) \in Nat
<1>1. \E x \in {a, b, c} : \A y \in {a, b, c} : x >= y
  OBVIOUS
<1>2. \E x \in {a, b, c} : \A y \in {a, b, c} : x =< y
  OBVIOUS
<1> DEFINE hi == Max({a, b, c})
           lo == Min({a, b, c})
<1>3. hi \in {a, b, c} /\ \A y \in {a, b, c} : hi >= y
  BY <1>1 DEF Max
<1>4. lo \in {a, b, c} /\ \A y \in {a, b, c} : lo =< y
  BY <1>2 DEF Min
<1> HIDE DEF hi, lo
<1>5. a + b + c - hi - lo \in Nat
  BY <1>3, <1>4
<1> QED
  BY <1>5 DEF Median, hi, lo

(* A rounded time is a time,                                                *)
LEMMA RoundedType ==
  ASSUME NEW x \in Nat
  PROVE  Rounded(x, Refresh) \in Nat
  BY DEF Rounded, Refresh

(* a smoothed estimate is one,                                              *)
LEMMA SmoothedType ==
  ASSUME NEW old \in Nat, NEW sample \in Nat
  PROVE  Smoothed(old, sample) \in Nat
<1>1. CASE sample >= old
  BY <1>1 DEF Smoothed
<1>2. CASE ~(sample >= old)
  <2>1. (old - sample + 4) \div 5 <= old - sample /\ (old - sample + 4) \div 5 \in Nat
    BY <1>2
  <2> QED  BY <1>2, <2>1 DEF Smoothed
<1> QED
  BY <1>1, <1>2

(* A simple fraction of a ratio is a ratio, and a phase snapped to a        *)
(* multiple of 1/b is not 0.                                                *)
LEMMA SimpleType ==
  ASSUME NEW ratio \in Nat, NEW b \in 2..5
  PROVE  Simple(ratio, b) \in Nat
<1>1. ratio * b \in Nat /\ Refresh \div b \in {30, 20, 15, 12}
  BY DEF Refresh
<1>2. Rounded(ratio * b, Refresh) \in Nat
  BY <1>1, RoundedType
<1> QED
  BY <1>1, <1>2 DEF Simple

(* and a snapped phase is one and not 0.                                    *)
LEMMA SnappedPhaseType ==
  ASSUME phase \in Nat \ {0}, NEW b \in 2..5
  PROVE  SnappedPhase(b) \in Nat \ {0}
<1>1. phase * b \in Nat /\ Refresh \div b \in {30, 20, 15, 12}
  BY DEF Refresh
<1>2. Rounded(phase * b, Refresh) \in Nat
  BY <1>1, RoundedType
<1> QED
  BY <1>1, <1>2 DEF SnappedPhase, Refresh

-----------------------------------------------------------------------------
(* The answers.                                                             *)

(* What is asked of an answer and of the phase it leaves.                   *)
Good(answer) == answer.of \in Nat /\ answer.at \in Seq(Nat) /\ Fits(answer)

(* A slot at every refresh is in order.                                     *)
LEMMA LockedGood ==
  ASSUME NEW n \in 1..Cap
  PROVE  Good([of |-> n, at |-> [i \in 1..n |-> i]])
  BY PacerAssumption DEF Good, Fits

(* As many slots as fit before the frame end before it.                     *)
LEMMA FittingType ==
  ASSUME NEW ratio \in Nat, NEW start \in Nat \ {0}
  PROVE  /\ Fitting(ratio, start) \in 0..Cap
         /\ Fitting(ratio, start) > 0 => start + (Fitting(ratio, start) - 1) * Refresh <= ratio
<1> DEFINE most == IF start > ratio THEN 0 ELSE (ratio - start) \div Refresh + 1
<1>1. most \in Nat /\ (most > 0 => start + (most - 1) * Refresh <= ratio)
  BY DEF Refresh
<1> HIDE DEF most
<1>2. Min({Cap, most}) \in {Cap, most} /\ Min({Cap, most}) <= Cap /\ Min({Cap, most}) <= most
  <2>1. most \in Int /\ Cap \in Int
    BY <1>1, PacerAssumption
  <2> QED  BY <2>1, MinOfTwo, Zenon
<1>3. Fitting(ratio, start) = Min({Cap, most})
  BY DEF Fitting, most
<1> QED
  BY <1>1, <1>2, <1>3, PacerAssumption DEF Refresh

(* The slots that fit are in order and within the frame.                    *)
LEMMA FilledGood ==
  ASSUME NEW ratio \in Nat, NEW start \in Nat \ {0}, NEW n \in 1..Cap,
         start + (n - 1) * Refresh <= ratio
  PROVE  Good(Filled(ratio, start, n))
<1> DEFINE slot(i) == start + (i - 1) * Refresh
           last == IF 10 * slot(n) > 9 * ratio THEN ratio ELSE slot(n)
           mark == [i \in 1..n |-> IF i = n THEN last ELSE slot(i)]
<1>1. n \in Nat /\ \A i \in 1..n : slot(i) \in Nat \ {0}
  BY PacerAssumption DEF Refresh
<1>2. last \in Nat /\ slot(n) <= last /\ last <= ratio
  BY <1>1
<1>3. \A i \in 2..n : i - 1 \in 1..n /\ i \in 1..n /\ slot(i - 1) < slot(i)
  BY <1>1 DEF Refresh
<1> HIDE DEF slot, last
<1>4. mark \in Seq(Nat) /\ Len(mark) = n
  BY <1>1, <1>2
<1>5. \A i \in 2..n : mark[i - 1] < mark[i]
  BY <1>1, <1>2, <1>3
<1>6. mark[1] > 0 /\ mark[n] <= ratio
  BY <1>1, <1>2
<1>7. Filled(ratio, start, n) = [of |-> ratio, at |-> mark]
  BY DEF Filled, slot, last
<1> HIDE DEF mark
<1> QED
  BY <1>4, <1>5, <1>6, <1>7 DEF Good, Fits

(* What a step of slots() leaves: an answer and a phase.                    *)
Answered == Good(slots') /\ phase' \in Nat \ {0}

(* An answer at a locked ratio is a good one.                               *)
LEMMA LockAnswers ==
  ASSUME NEW n \in 1..Cap, Lock(n)
  PROVE  Answered
  BY LockedGood DEF Lock, Count, Answered, Refresh

(* Lock(1) is always possible.                                              *)
LEMMA LockOneAnswers ==
  ASSUME Lock(1)
  PROVE  Answered
  BY LockAnswers, PacerAssumption

(* The phase that is left for the next frame is not 0.                      *)
LEMMA NextPhaseType ==
  ASSUME NEW slot \in Nat, NEW ratio \in Nat
  PROVE  NextPhase(slot, ratio) \in Nat \ {0}
  BY DEF NextPhase, Refresh

(* An answer that fills the frame is a good one,                            *)
LEMMA FillAnswers ==
  ASSUME NEW ratio \in Nat, NEW start \in Nat \ {0}, Fill(ratio, start)
  PROVE  Answered
<1> DEFINE n == Fitting(ratio, start)
<1>1. n \in 0..Cap /\ (n > 0 => start + (n - 1) * Refresh <= ratio)
  BY FittingType
<1>2. CASE n = 0
  BY <1>2, LockOneAnswers DEF Fill
<1>3. CASE n # 0
  <2>1. n \in 1..Cap /\ start + (n - 1) * Refresh <= ratio
    BY <1>1, <1>3, PacerAssumption
  <2>2. slots' = Filled(ratio, start, n) /\ phase' = NextPhase(start + n * Refresh, ratio)
    BY <1>3 DEF Fill, Count
  <2>3. Good(Filled(ratio, start, n))
    BY <2>1, FilledGood
  <2>4. start + n * Refresh \in Nat
    BY <2>1, PacerAssumption DEF Refresh
  <2> QED
    BY <2>2, <2>3, <2>4, NextPhaseType DEF Answered
<1> QED
  BY <1>2, <1>3

(* one that fits as many as the frame takes is,                             *)
LEMMA FitAnswers ==
  ASSUME NEW ratio \in Nat, phase \in Nat \ {0}, Fit(ratio)
  PROVE  Answered
<1> DEFINE rounded == Rounded(ratio, Refresh)
           n == Max({1, Min({rounded, Cap})})
           b == Min(Denominators(ratio))
<1>1. rounded \in Nat
  BY RoundedType
<1>2. CASE Within(ratio, rounded * Refresh, Snap - 1) \/ rounded >= Cap
  <2>1. Lock(n)
    BY <1>2 DEF Fit
  <2>2. rounded \in Int /\ Cap \in Int /\ Cap >= 1 /\ 1 \in Int
    BY <1>1, PacerAssumption
  <2>3. Min({rounded, Cap}) \in {rounded, Cap} /\ Min({rounded, Cap}) <= Cap
    BY <2>2, MinOfTwo, Zenon
  <2>4. Min({rounded, Cap}) \in Int
    BY <2>2, <2>3
  <2>5. n \in {1, Min({rounded, Cap})} /\ n >= 1
    BY <2>2, <2>4, MaxOfTwo, Zenon
  <2>6. n \in 1..Cap
    BY <2>2, <2>3, <2>4, <2>5
  <2> QED
    BY <2>1, <2>6, LockAnswers
<1>3. CASE ~(Within(ratio, rounded * Refresh, Snap - 1) \/ rounded >= Cap) /\ Denominators(ratio) # {}
  <2>1. Fill(Simple(ratio, b), SnappedPhase(b))
    BY <1>3 DEF Fit
  <2>2. b \in 2..5
    BY <1>3, LeastDenominator DEF Denominators
  <2>3. Simple(ratio, b) \in Nat /\ SnappedPhase(b) \in Nat \ {0}
    BY <2>2, SimpleType, SnappedPhaseType
  <2> QED
    BY <2>1, <2>3, FillAnswers
<1>4. CASE ~(Within(ratio, rounded * Refresh, Snap - 1) \/ rounded >= Cap) /\ Denominators(ratio) = {}
  <2>1. Fill(ratio, phase)
    BY <1>4 DEF Fit
  <2> QED
    BY <2>1, FillAnswers
<1> QED
  BY <1>2, <1>3, <1>4

-----------------------------------------------------------------------------
(* slots().                                                                 *)

(* What a sample does to a probe: it goes on, one more of its samples       *)
(* counted, or there is none after.                                         *)
ProbeStep(x) ==
  /\ probing' <= ProbeSamples /\ Len(probes') < ProbeSamples
  /\ probing' = 0 => probes' = <<>>
  /\ probing' > 0 => probing' + Len(probes') = probing + Len(probes) + 1

(* one to a sample that is trusted is, and counts it,                       *)
LEMMA TrustedAnswers ==
  ASSUME NEW x \in Nat, AnswerTypes, EstimateTypes, ProbeCounted, Trusted(x)
  PROVE  Answered /\ EstimateTypes' /\ ProbeStep(x)
<1> USE DEF AnswerTypes, EstimateTypes, ProbeCounted, ProbeSamples
<1>1. untrusted' = 0 /\ cadence' = 0
  BY DEF Trusted
<1>2. CASE /\ probing > 0 /\ Len(probes) + 1 < ProbeSamples
           /\ probes' = Append(probes, x) /\ Lock(1)
           /\ UNCHANGED <<estimate, probing>>
  BY <1>1, <1>2, LockOneAnswers DEF ProbeStep
<1>3. CASE /\ probing > 0 /\ Len(probes) + 1 >= ProbeSamples
           /\ estimate' = Median(probes[2], probes[3], x)
           /\ probes' = <<>> /\ probing' = 0 /\ Fit(estimate')
  <2> DEFINE m == Len(probes)
  <2>0. m \in Nat /\ probes \in [1..m -> Nat]
    OBVIOUS
  <2>1. m + 1 >= 4 /\ m < 4
    BY <1>3
  <2> HIDE DEF m
  <2>2. m = 3
    BY <2>0, <2>1
  <2>3. probes[2] \in Nat /\ probes[3] \in Nat
    BY <2>0, <2>2
  <2>4. estimate' \in Nat
    BY <1>3, <2>3, MedianType
  <2>5. Answered
    BY <1>3, <2>4, FitAnswers
  <2> QED
    BY <1>1, <1>3, <2>4, <2>5 DEF ProbeStep
<1>4. CASE /\ probing = 0
           /\ estimate' = IF estimate = 0 THEN x ELSE Smoothed(estimate, x)
           /\ Fit(estimate')
           /\ UNCHANGED <<probing, probes>>
  <2>1. estimate' \in Nat
    BY <1>4, SmoothedType
  <2>2. Answered
    BY <1>4, <2>1, FitAnswers
  <2> QED
    BY <1>1, <1>4, <2>1, <2>2 DEF ProbeStep
<1> QED
  BY <1>2, <1>3, <1>4 DEF Trusted

(* one to a sample held back is, and counts it,                             *)
LEMMA UntrustedAnswers ==
  ASSUME NEW x \in Nat, AnswerTypes, EstimateTypes, ProbeCounted, Untrusted(x)
  PROVE  Answered /\ EstimateTypes' /\ ProbeStep(x)
<1> USE DEF AnswerTypes, EstimateTypes, ProbeCounted, ProbeSamples
<1> DEFINE run == untrusted + 1
<1>1. cadence' \in Nat
  BY SmoothedType DEF Untrusted
<1>2. estimate' \in Nat
  BY <1>1 DEF Untrusted, Capped
<1>3. CASE ProbeOver /\ probing' = 0 /\ probes' = <<>> /\ untrusted' = 0 /\ Fit(estimate')
  <2>1. Answered
    BY <1>2, <1>3, FitAnswers
  <2> QED
    BY <1>1, <1>2, <1>3, <2>1 DEF ProbeStep
<1>4. CASE /\ ~ProbeOver /\ probing' = probing + 1 /\ untrusted' = run /\ Lock(1)
           /\ UNCHANGED probes
  <2>1. Answered
    BY <1>4, LockOneAnswers
  <2>2. probing < ProbeSamples
    BY <1>4 DEF ProbeOver
  <2> QED
    BY <1>1, <1>2, <1>4, <2>1, <2>2 DEF ProbeStep
<1>5. CASE /\ probing = 0 /\ untrusted' = run /\ Fit(estimate')
           /\ UNCHANGED <<probing, probes>>
  <2>1. Answered
    BY <1>2, <1>5, FitAnswers
  <2> QED
    BY <1>1, <1>2, <1>5, <2>1 DEF ProbeStep
<1> QED
  BY <1>3, <1>4, <1>5 DEF Untrusted

(* and so is every answer; a hitch leaves a probe alone.                    *)
LEMMA SlotsAnswers ==
  ASSUME NEW sample \in [interval : Nat, trusted : BOOLEAN],
         AnswerTypes, EstimateTypes, ProbeCounted, Slots(sample)
  PROVE  /\ Answered /\ EstimateTypes'
         /\ Hitch(sample.interval) => UNCHANGED <<probing, probes>>
         /\ ~Hitch(sample.interval) => ProbeStep(sample.interval)
<1>1. sample.interval \in Nat
  OBVIOUS
<1>2. CASE Hitch(sample.interval) /\ Lock(1) /\ UNCHANGED estimatorVars
  BY <1>2, LockOneAnswers DEF estimatorVars, EstimateTypes
<1>3. CASE ~Hitch(sample.interval) /\ Trusted(sample.interval)
  BY <1>1, <1>3, TrustedAnswers
<1>4. CASE ~Hitch(sample.interval) /\ Untrusted(sample.interval)
  BY <1>1, <1>4, UntrustedAnswers
<1> QED
  BY <1>2, <1>3, <1>4 DEF Slots

-----------------------------------------------------------------------------
(* The loop.                                                                *)

LEMMA HeadType ==
  ASSUME NEW s \in Seq(Nat), Len(s) = Drawables
  PROVE  Head(s) \in Nat /\ Tail(s) \in Seq(Nat)
<1>1. Len(s) = 3
  BY DEF Drawables
<1>2. Len(<<>>) = 0
  OBVIOUS
<1>3. Len(s) # Len(<<>>)
  BY <1>1, <1>2
<1>4. s # <<>>
  BY <1>3, Zenon
<1> QED
  BY <1>4, HeadTailProperties, Zenon

(* The invariant holds at the start,                                        *)
LEMMA InitInv == PacerInit => PacerInv
<1> SUFFICES ASSUME PacerInit PROVE PacerInv
  OBVIOUS
<1>0. pace \in Paces /\ Paces \subseteq Nat \ {0} /\ Cap \in Nat \ {0}
  BY PacerAssumption DEF PacerInit, PacerAssumption
<1> USE <1>0 DEF PacerInit
<1>1. AnswerTypes /\ EstimateTypes
  BY DEF AnswerTypes, EstimateTypes, Refresh
<1>2. LoopTypes
  <2>1. started \in BOOLEAN
    BY Zenon
  <2>2. pace \in Nat \ {0} /\ drawables \in Seq(Nat) /\ backlog \in Nat /\ probed \in Nat
    OBVIOUS
  <2> QED
    BY <2>1, <2>2 DEF LoopTypes
<1>3. SlotsFit
  BY DEF SlotsFit, Fits
<1>4. ProbeCounted
  BY DEF ProbeCounted, ProbeSamples
<1> QED
  BY <1>1, <1>2, <1>3, <1>4 DEF PacerInv

(* a frame keeps it,                                                        *)
LEMMA FrameKeeps ==
  ASSUME PacerInv, Frame
  PROVE  PacerInv'
<1> DEFINE full == Len(drawables) = Drawables
           waited == IF full THEN Max({0, Head(drawables) - pace}) ELSE 0
           gap == pace + waited
           before == IF full THEN Tail(drawables) ELSE drawables
           ahead == Max({0, backlog - gap})
           done == ahead + Len(slots'.at) * Refresh
           sample == Sample(gap, waited)
<1>1. AnswerTypes /\ EstimateTypes /\ LoopTypes /\ ProbeCounted
  BY DEF PacerInv
<1>2. waited \in Nat
  <2>1. CASE full
    <3>1. pace \in Nat /\ drawables \in Seq(Nat)
      BY <1>1 DEF LoopTypes
    <3>2. Head(drawables) \in Nat
      BY <2>1, <3>1, HeadType
    <3>3. Head(drawables) - pace \in Int /\ 0 \in Int
      BY <3>1, <3>2
    <3>4. Max({0, Head(drawables) - pace}) \in {0, Head(drawables) - pace}
          /\ Max({0, Head(drawables) - pace}) >= 0
      BY <3>3, MaxOfTwo, Zenon
    <3> QED
      BY <2>1, <3>3, <3>4
  <2> QED
    BY <2>1
<1>3. pace \in Nat \ {0} /\ backlog \in Nat /\ drawables \in Seq(Nat) /\ probed \in Nat /\ started \in BOOLEAN
  BY <1>1 DEF LoopTypes
<1>4. gap \in Nat
  BY <1>2, <1>3
<1> HIDE DEF waited, gap
<1>5. sample \in [interval : Nat, trusted : BOOLEAN]
  BY <1>4 DEF Sample
<1>6. sample.interval = IF started THEN gap ELSE 0
  BY DEF Sample
<1>7. Slots(sample)
  BY DEF Frame, gap, waited
<1>8. /\ Answered /\ EstimateTypes'
      /\ Hitch(sample.interval) => UNCHANGED <<probing, probes>>
      /\ ~Hitch(sample.interval) => ProbeStep(sample.interval)
  BY <1>1, <1>5, <1>7, SlotsAnswers
<1>9. AnswerTypes' /\ SlotsFit'
  BY <1>8 DEF Answered, Good, AnswerTypes, SlotsFit
<1>10. LoopTypes'
  <2>1. /\ drawables' = Append([i \in DOMAIN before |-> Max({0, before[i] - gap})], done)
        /\ backlog' = done /\ started' = TRUE /\ pace' = pace
        /\ probed' = IF probing' = 0 THEN 0 ELSE IF Hitch(gap) THEN probed ELSE probed + 1
    BY DEF Frame, gap, waited
  <2>2. backlog - gap \in Int /\ 0 \in Int
    BY <1>3, <1>4
  <2>3. ahead \in {0, backlog - gap} /\ ahead >= 0
    BY <2>2, MaxOfTwo, Zenon
  <2>4. ahead \in Nat
    BY <2>2, <2>3
  <2>5. Len(slots'.at) \in Nat
    BY <1>9 DEF AnswerTypes
  <2>6. done \in Nat
    BY <2>4, <2>5 DEF Refresh
  <2>7. before \in Seq(Nat)
    BY <1>3, HeadType
  <2> HIDE DEF before, done
  <2>8. \A i \in DOMAIN before : Max({0, before[i] - gap}) \in Nat
    <3> TAKE i \in DOMAIN before
    <3>1. before[i] - gap \in Int /\ 0 \in Int
      BY <1>4, <2>7
    <3>2. Max({0, before[i] - gap}) \in {0, before[i] - gap} /\ Max({0, before[i] - gap}) >= 0
      BY <3>1, MaxOfTwo, Zenon
    <3> QED
      BY <3>1, <3>2
  <2>9. [i \in DOMAIN before |-> Max({0, before[i] - gap})] \in Seq(Nat)
    <3> DEFINE n == Len(before)
               left(i) == Max({0, before[i] - gap})
    <3>1. n \in Nat /\ DOMAIN before = 1..n
      BY <2>7
    <3>2. \A i \in 1..n : left(i) \in Nat
      BY <2>8, <3>1
    <3> HIDE DEF n, left
    <3>3. [i \in 1..n |-> left(i)] \in Seq(Nat)
      BY <3>1, <3>2
    <3> QED
      BY <3>1, <3>3 DEF left
  <2>10. drawables' \in Seq(Nat)
    BY <2>1, <2>6, <2>9
  <2> QED
    BY <1>3, <2>1, <2>6, <2>10 DEF LoopTypes
<1>11. ProbeCounted'
  <2>1. started' = TRUE /\ probed' = IF probing' = 0 THEN 0 ELSE IF Hitch(gap) THEN probed ELSE probed + 1
    BY DEF Frame, gap, waited
  <2>2. /\ probing \in Nat /\ probing' \in Nat
        /\ Len(probes) \in Nat /\ Len(probes') \in Nat
        /\ probing = 0 => Len(probes) = 0
        /\ probed = probing + Len(probes)
    BY <1>1, <1>8 DEF EstimateTypes, ProbeCounted
  <2>3. CASE ~started
    <3>1. Hitch(sample.interval)
      BY <1>6, <2>3 DEF Hitch
    <3>2. probing = 0
      BY <1>1, <2>2, <2>3 DEF ProbeCounted
    <3> QED
      BY <1>1, <1>8, <2>1, <3>1, <3>2 DEF ProbeCounted
  <2>4. CASE started /\ Hitch(gap)
    BY <1>1, <1>6, <1>8, <2>1, <2>4 DEF ProbeCounted
  <2>5. CASE started /\ ~Hitch(gap)
    <3>1. ProbeStep(gap)
      BY <1>6, <1>8, <2>5
    <3>2. probing' > 0 => probed' = probing' + Len(probes')
      BY <2>1, <2>2, <2>5, <3>1 DEF ProbeStep
    <3>3. probing' = 0 => probed' = 0 /\ probes' = <<>>
      BY <2>1, <3>1 DEF ProbeStep
    <3> QED
      BY <2>1, <3>1, <3>2, <3>3 DEF ProbeCounted, ProbeStep
  <2> QED
    BY <1>3, <2>3, <2>4, <2>5
<1> QED
  BY <1>8, <1>9, <1>10, <1>11 DEF PacerInv

(* and so does every step.                                                  *)
LEMMA StepKeeps == PacerInv /\ [PacerNext]_pacedVars => PacerInv'
<1> SUFFICES ASSUME PacerInv, [PacerNext]_pacedVars PROVE PacerInv'
  OBVIOUS
<1>1. CASE Frame
  BY <1>1, FrameKeeps
<1>2. CASE ChangePace
  BY <1>2, PacerAssumption
     DEF ChangePace, PacerInv, AnswerTypes, EstimateTypes, LoopTypes, SlotsFit, ProbeCounted,
         pacerVars, estimatorVars
<1>3. CASE UNCHANGED pacedVars
  BY <1>3 DEF pacedVars, loopVars, pacerVars, estimatorVars, PacerInv, AnswerTypes, EstimateTypes,
              LoopTypes, SlotsFit, ProbeCounted
<1> QED
  BY <1>1, <1>2, <1>3 DEF PacerNext

(* The types, the answers and the count of a probe, in every state.         *)
THEOREM PacerInvariant == PacerSpec => []PacerInv
  BY InitInv, StepKeeps, PTL DEF PacerSpec

(* Every answer of slots(), whatever samples came before, has one slot to   *)
(* the cap, in order, after the frame before and no later than the frame.   *)
THEOREM SlotsAlwaysFit == PacerSpec => []SlotsFit
<1>1. PacerInv => SlotsFit
  BY DEF PacerInv
<1> QED
  BY <1>1, PacerInvariant, PTL

(* A probe ends within twice its samples, whatever it is given.             *)
THEOREM ProbesEnd == PacerSpec => []ProbeShort
<1>1. PacerInv => ProbeShort
  <2> SUFFICES ASSUME PacerInv PROVE ProbeShort
    OBVIOUS
  <2>1. probing \in Nat /\ Len(probes) \in Nat /\ probed \in Nat
    BY DEF PacerInv, EstimateTypes, LoopTypes
  <2>2. probing <= 4 /\ Len(probes) < 4 /\ (probing = 0 => probed = 0)
        /\ (probing > 0 => probed = probing + Len(probes))
    BY DEF PacerInv, ProbeCounted, ProbeSamples
  <2> QED
    BY <2>1, <2>2 DEF ProbeShort, ProbeSamples
<1> QED
  BY <1>1, PacerInvariant, PTL
=============================================================================
