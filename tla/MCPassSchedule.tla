--------------------------- MODULE MCPassSchedule ---------------------------
(* The tables of the source in both qualities: 99 images to place, in 46    *)
(* stages.  Two game frames of up to two generated frames each, with        *)
(* timestamps of their own or the default.                                  *)
EXTENDS PassSchedule, FiniteSetsExt

PipelineTotals == {0, 2}
PipelineStamps == {0, 5}
PipelineSizes == 1..(12 * Area(0))
PipelineStages == 0..Destination

ASSUME ConstantsFit == TablesFit

(* The earliest stage of each pass, by recursion over the tables: the       *)
(* assumption compares the tables with the rows the unit tests pin.         *)
Earliest ==
  [x \in Passes |->
     LET stage[y \in Passes] ==
           IF y < SplitPass
           THEN Max({0} \cup {stage[z] + 1 : z \in Inputs[y] \ {Source}})
           ELSE Max({10} \cup {stage[z] + 1 : z \in {i \in Inputs[y] : i >= SplitPass}})
     IN stage[x]]

Stage(st) == {x \in Passes : Earliest[x] = st}

ASSUME SampleRows ==
  /\ Inputs[65] = {21, 54} /\ Inputs[39] = {38, 34}
  /\ Max({Earliest[x] : x \in 1..(SplitPass - 1)}) = 9
  /\ Stage(10) = {60, 35} /\ Stage(30) = {65, 55} /\ Stage(45) = {100}
  /\ Earliest[34] = 9 /\ Max({Earliest[x] : x \in {y \in Passes : 34 \in Inputs[y]}}) = 44
  /\ Earliest[64] = 14 /\ Max({Earliest[x] : x \in {y \in Passes : 64 \in Inputs[y]}}) = 35
  /\ \A x \in ImageIds \ Pinned : \E y \in Passes : x \in Inputs[y]
=============================================================================
