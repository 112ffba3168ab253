----------------------------- MODULE MemoryPlan -----------------------------
(***************************************************************************)
(* The memory planner of generator/pipeline.rs, plan(), for images of every *)
(* size and lifetime.  Largest first, an image without a lifetime goes to   *)
(* the end of the pinned allocation; another is moved up through the        *)
(* images placed so far until it meets none that is live with it.  Images   *)
(* that are never live together may share memory, so the placed ranges      *)
(* overlap, and the walk is right only because they are kept in order.      *)
(***************************************************************************)
EXTENDS Integers, Sequences

CONSTANTS
  N,       \* number of images
  Sizes,   \* sizes an image may have
  Stages   \* stages of the pipeline; a lifetime is a pair of them

ASSUME PlanAssumption == N \in Nat /\ Sizes \subseteq Nat \ {0} /\ Stages \subseteq Nat

Items == 1..N

(* [first writing stage, last reading stage], none when pinned.             *)
None == <<>>
Lives == {l \in Stages \X Stages : l[1] <= l[2]}

VARIABLES
  size, life,           \* the items
  todo,                 \* items not placed yet
  placed,               \* transient items placed, in order of their offsets
  transient, pinned,    \* sizes of the two allocations
  offset,               \* offset of each item in its allocation
  item, off, next       \* the item moving up (0: none), and where it is

inputVars == <<size, life>>
walkVars == <<item, off, next>>
vars == <<inputVars, todo, placed, transient, pinned, offset, walkVars>>

Init ==
  /\ size \in [Items -> Sizes]
  /\ life \in [Items -> Lives \cup {None}]
  /\ todo = Items /\ placed = <<>>
  /\ transient = 0 /\ pinned = 0
  /\ offset = [i \in Items |-> 0]
  /\ item = 0 /\ off = 0 /\ next = 1

(* A stable sort by falling size.                                           *)
Largest(i) == \A j \in todo : size[j] < size[i] \/ (size[j] = size[i] /\ i <= j)

Pin(i) ==
  /\ life[i] = None
  /\ offset' = [offset EXCEPT ![i] = pinned]
  /\ pinned' = pinned + size[i]
  /\ todo' = todo \ {i}
  /\ UNCHANGED <<inputVars, placed, transient, walkVars>>

Start(i) ==
  /\ life[i] # None
  /\ item' = i /\ off' = 0 /\ next' = 1
  /\ UNCHANGED <<inputVars, todo, placed, transient, pinned, offset>>

PickLargest ==
  /\ item = 0
  /\ \E i \in todo : Largest(i) /\ (Pin(i) \/ Start(i))

End(i) == offset[i] + size[i]

Meet(i, j) == life[i][1] <= life[j][2] /\ life[j][1] <= life[i][2]

(* The next range in order is in the way.                                   *)
Blocks(p) ==
  /\ Meet(item, p)
  /\ off < End(p)
  /\ offset[p] < off + size[item]

Walk ==
  /\ item # 0 /\ next <= Len(placed)
  /\ off' = IF Blocks(placed[next]) THEN End(placed[next]) ELSE off
  /\ next' = next + 1
  /\ UNCHANGED <<inputVars, todo, placed, transient, pinned, offset, item>>

InsertedAt(pos, i) ==
  [k \in 1..(Len(placed) + 1) |->
     IF k <= pos THEN placed[k] ELSE IF k = pos + 1 THEN i ELSE placed[k - 1]]

(* Mutant: the range is added behind the others.                            *)
AtEnd(pos) == pos = Len(placed)

(* partition_point of the offsets up to this one.                           *)
Partitions(pos) ==
  /\ \A k \in 1..pos : offset[placed[k]] <= off
  /\ \A k \in (pos + 1)..Len(placed) : offset[placed[k]] > off

Place ==
  /\ item # 0 /\ next = Len(placed) + 1
  /\ \E pos \in 0..Len(placed) : Partitions(pos) /\ placed' = InsertedAt(pos, item)
  /\ offset' = [offset EXCEPT ![item] = off]
  /\ transient' = IF off + size[item] > transient THEN off + size[item] ELSE transient
  /\ todo' = todo \ {item}
  /\ item' = 0
  /\ UNCHANGED <<inputVars, pinned, off, next>>

Planned == todo = {} /\ UNCHANGED vars

Next == PickLargest \/ Walk \/ Place \/ Planned

Spec == Init /\ [][Next]_vars

-----------------------------------------------------------------------------
TypeOK ==
  /\ size \in [Items -> Sizes]
  /\ life \in [Items -> Lives \cup {None}]
  /\ todo \subseteq Items
  /\ placed \in Seq(Items)
  /\ transient \in Nat /\ pinned \in Nat
  /\ offset \in [Items -> Nat]
  /\ item \in 0..N /\ off \in Nat /\ next \in Nat \ {0}

(* Two images live in one stage never share a byte, pinned images share     *)
(* none at all, and each allocation is large enough for its images: what    *)
(* the pipeline binds never overwrites an image still to be read.           *)
Shares(i, j) == (life[i] = None) = (life[j] = None)
LiveTogether(i, j) == life[i] = None \/ Meet(i, j)

NeverOverlap ==
  /\ \A i, j \in Items \ todo :
       i # j /\ Shares(i, j) /\ LiveTogether(i, j) => End(i) <= offset[j] \/ End(j) <= offset[i]
  /\ \A i \in Items \ todo : End(i) <= IF life[i] = None THEN pinned ELSE transient
=============================================================================
