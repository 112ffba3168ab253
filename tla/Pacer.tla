------------------------------- MODULE Pacer -------------------------------
(***************************************************************************)
(* The pacer (pacer.rs): from the interval of a game's frame and whether it *)
(* can be trusted, the slots of the display the frame fills.  Time is in    *)
(* sixtieths of a refresh, in which the fractions the pacer knows are       *)
(* whole; the refresh is that of a 60 Hz display where seconds matter.      *)
(*                                                                          *)
(* The loop around it is the one of the unit tests: a game with three       *)
(* drawables presents to a display that shows each slot for one refresh,    *)
(* so that what the pacer asks for decides what it will measure.  The game  *)
(* may change its pace.                                                     *)
(***************************************************************************)
EXTENDS Integers, Sequences, FiniteSetsExt

CONSTANTS
  Cap,           \* slots at most: the multiplier
  Paces,         \* what a frame may take the game, itself
  MaxChanges     \* bound on the changes of pace

ASSUME PacerAssumption ==
  Cap \in Nat \ {0} /\ Paces \subseteq Nat \ {0} /\ MaxChanges \in Nat

-----------------------------------------------------------------------------
(* SNAP and FRACTION in sixtieths; FRACTION is 1.2 of them.                 *)
Refresh == 60
Snap == 6
Fraction == 1
CapAfter == 10
ProbeAfter == 60
ProbeSamples == 4

Drawables == 3

VARIABLES
  estimate, cadence, untrusted, probing, probes, phase, shown,   \* Pacer
  slots,               \* its last answer: slot i of the frame at at[i]/of
  pace, changes,       \* of the game
  started,             \* Estimator::previous is there
  interval, blocked,   \* of the last frame
  drawables,           \* times from the last present until each is free again
  backlog,             \* time from the last present until the display is free
  idle,                \* for how long the last frame found it free
  probed               \* history: frames the probe under way has lasted

estimatorVars == <<estimate, cadence, untrusted, probing, probes>>
pacerVars == <<estimatorVars, phase, shown, slots>>
loopVars == <<pace, changes, started, interval, blocked, drawables, backlog, idle, probed>>
pacedVars == <<pacerVars, loopVars>>

PacerInit ==
  /\ estimate = 0 /\ cadence = 0 /\ untrusted = 0 /\ probing = 0 /\ probes = <<>>
  /\ phase = Refresh /\ shown = <<0, 0, 0, 0>> /\ slots = [of |-> 1, at |-> <<1>>]
  /\ pace \in Paces /\ changes = 0
  /\ started = FALSE /\ interval = 0 /\ blocked = 0
  /\ drawables = <<>> /\ backlog = 0 /\ idle = 0 /\ probed = 0

-----------------------------------------------------------------------------
(* The answers.                                                             *)

(* To the nearest multiple of d, halves up.                                 *)
Rounded(x, d) == (2 * x + d) \div (2 * d)

Within(x, y, d) == x - y \in -d..d

Count(answer) ==
  /\ slots' = answer
  /\ shown' = <<Len(answer.at)>> \o SubSeq(shown, 1, 3)

Lock(n) ==
  /\ phase' = Refresh
  /\ Count([of |-> n, at |-> [i \in 1..n |-> i]])

(* The denominators of the simple fractions the ratio is close to.          *)
Simple(ratio, b) == Rounded(ratio * b, Refresh) * (Refresh \div b)
Denominators(ratio) == {b \in 2..5 : Within(ratio, Simple(ratio, b), Fraction)}

(* Mutant: a phase that rounds to nothing is kept.                          *)
NearestPhase(b) == Rounded(phase * b, Refresh) * (Refresh \div b)

(* The phase on multiples of 1/b, never 0.                                  *)
SnappedPhase(b) ==
  LET j == Rounded(phase * b, Refresh)
  IN IF j < 1 THEN Refresh ELSE j * (Refresh \div b)

(* Mutant: what is left of the last slot is lost.                           *)
FullPhase(slot, ratio) == Refresh

(* Where the next frame's first slot is.                                    *)
NextPhase(slot, ratio) == IF slot > ratio THEN slot - ratio ELSE Refresh

(* Slots every refresh from the phase on, to the end of the frame.          *)
Fitting(ratio, start) ==
  Min({Cap, IF start > ratio THEN 0 ELSE (ratio - start) \div Refresh + 1})

(* The last, when close to the end, shows the frame itself.                 *)
Filled(ratio, start, n) ==
  LET slot(i) == start + (i - 1) * Refresh
      last == IF 10 * slot(n) > 9 * ratio THEN ratio ELSE slot(n)
  IN [of |-> ratio, at |-> [i \in 1..n |-> IF i = n THEN last ELSE slot(i)]]

Fill(ratio, start) ==
  LET n == Fitting(ratio, start)
  IN IF n = 0 THEN Lock(1)
     ELSE /\ phase' = NextPhase(start + n * Refresh, ratio)
          /\ Count(Filled(ratio, start, n))

Fit(ratio) ==
  LET rounded == Rounded(ratio, Refresh)
  IN IF Within(ratio, rounded * Refresh, Snap - 1) \/ rounded >= Cap
     THEN Lock(Max({1, Min({rounded, Cap})}))
     ELSE IF Denominators(ratio) # {}
     THEN LET b == Min(Denominators(ratio))
          IN Fill(Simple(ratio, b), SnappedPhase(b))
     ELSE Fill(ratio, phase)

-----------------------------------------------------------------------------
(* The estimate.                                                            *)

(* A fifth of the way, away from where it was: exact in the limit.          *)
Smoothed(old, sample) ==
  IF sample >= old THEN old + (sample - old + 4) \div 5 ELSE old - (old - sample + 4) \div 5

(* No interval at all, or longer than 0.2 s and than four times the cap.    *)
Hitch(x) == x = 0 \/ x > Max({12 * Refresh, 4 * Cap * Refresh})

(* A frame slower than any queued one's slots was not held back by them.    *)
Behind(x) ==
  LET queued == Max({shown[i] : i \in 1..4})
  IN queued > 0 /\ 2 * x > (2 * queued + 1) * Refresh

(* The first sample of a probe is dropped, the median of the rest counts.   *)
Median(a, b, c) == a + b + c - Max({a, b, c}) - Min({a, b, c})

Trusted(x) ==
  /\ untrusted' = 0 /\ cadence' = 0
  /\ \/ /\ probing > 0
        /\ Len(probes) + 1 < ProbeSamples
        /\ probes' = Append(probes, x)
        /\ Lock(1)
        /\ UNCHANGED <<estimate, probing>>
     \/ /\ probing > 0
        /\ Len(probes) + 1 >= ProbeSamples
        /\ estimate' = Median(probes[2], probes[3], x)
        /\ probes' = <<>> /\ probing' = 0
        /\ Fit(estimate')
     \/ /\ probing = 0
        /\ estimate' = IF estimate = 0 THEN x ELSE Smoothed(estimate, x)
        /\ Fit(estimate')
        /\ UNCHANGED <<probing, probes>>

(* Mutant: a cadence of held frames never lowers the estimate.              *)
NeverCapped(run, seen) == IF estimate = 0 THEN seen ELSE estimate

(* The cadence of held frames is no faster than the game: after a while it  *)
(* bounds the estimate from above.                                          *)
Capped(run, seen) ==
  IF estimate = 0 \/ (run >= CapAfter /\ seen < estimate) THEN seen ELSE estimate

(* Mutant: a probe waits for trusted samples only.                          *)
NeverOver == FALSE

(* A presenter that is held through the whole probe gives it no sample.     *)
ProbeOver == probing >= ProbeSamples

Untrusted(x) ==
  LET run == untrusted + 1
  IN /\ cadence' = IF cadence = 0 THEN x ELSE Smoothed(cadence, x)
     /\ estimate' = Capped(run, cadence')
     /\ \/ /\ ProbeOver
           /\ probing' = 0 /\ probes' = <<>> /\ untrusted' = 0
           /\ Fit(estimate')
        \/ /\ ~ProbeOver
           /\ run >= ProbeAfter \/ probing > 0
           /\ probing' = probing + 1 /\ untrusted' = run
           /\ Lock(1)
           /\ UNCHANGED probes
        \/ /\ ~ProbeOver
           /\ run < ProbeAfter /\ probing = 0
           /\ untrusted' = run
           /\ Fit(estimate')
           /\ UNCHANGED <<probing, probes>>

(* Pacer::slots.                                                            *)
Slots(sample) ==
  \/ Hitch(sample.interval) /\ Lock(1) /\ UNCHANGED estimatorVars
  \/ /\ ~Hitch(sample.interval)
     /\ sample.trusted \/ Behind(sample.interval)
     /\ Trusted(sample.interval)
  \/ /\ ~Hitch(sample.interval)
     /\ ~sample.trusted /\ ~Behind(sample.interval)
     /\ Untrusted(sample.interval)

(* Estimator::sample; the trusted millisecond is 3.6 sixtieths.             *)
Sample(gap, waited) ==
  IF ~started THEN [interval |-> 0, trusted |-> FALSE]
  ELSE [interval |-> gap, trusted |-> 10 * waited < Max({36, gap})]

-----------------------------------------------------------------------------
(* A frame of the game: its own time, then the wait for a drawable.         *)
Frame ==
  LET full == Len(drawables) = Drawables
      waited == IF full THEN Max({0, Head(drawables) - pace}) ELSE 0
      gap == pace + waited
      before == IF full THEN Tail(drawables) ELSE drawables
      done == Max({0, backlog - gap}) + Len(slots'.at) * Refresh
  IN /\ Slots(Sample(gap, waited))
     /\ drawables' = Append([i \in DOMAIN before |-> Max({0, before[i] - gap})], done)
     /\ backlog' = done
     /\ idle' = IF started THEN Max({0, gap - backlog}) ELSE 0
     /\ started' = TRUE
     /\ interval' = gap /\ blocked' = waited
     /\ probed' = IF probing' = 0 THEN 0 ELSE IF Hitch(gap) THEN probed ELSE probed + 1
     /\ UNCHANGED <<pace, changes>>

ChangePace ==
  /\ changes < MaxChanges
  /\ \E p \in Paces \ {pace} : pace' = p
  /\ changes' = changes + 1
  /\ UNCHANGED <<pacerVars, started, interval, blocked, drawables, backlog, idle, probed>>

PacerNext == Frame \/ ChangePace

(* The game goes on presenting, and keeps its last pace.                    *)
PacerSpec == PacerInit /\ [][PacerNext]_pacedVars /\ WF_pacedVars(Frame)

-----------------------------------------------------------------------------
Fits(answer) ==
  LET at == answer.at
  IN /\ Len(at) \in 1..Cap
     /\ \A i \in 2..Len(at) : at[i - 1] < at[i]
     /\ at[1] > 0
     /\ at[Len(at)] <= answer.of

(* An answer has a slot, no more than the cap, each after the one before,   *)
(* after the frame before and no later than the frame itself: slots that    *)
(* meet would show one picture twice, and a slot at 0 the frame before.     *)
(* The phase a frame leaves at one ratio is used at another.                *)
SlotsFit == Fits(slots)

(* Whatever happened before, a game with a steady pace is in the end not    *)
(* held back by the slots its own frames were given: it gets to its pace,   *)
(* or to the display's, but for a fifth of a refresh lost to snapping.      *)
(* Between the cap less one and the cap the code rounds to the cap, which   *)
(* may hold a game by more.                                                 *)
NotHeldBack ==
  <>[](pace <= (Cap - 1) * Refresh => interval <= Max({pace, Refresh}) + 2 * Snap)

(* In the end the display is not left without a picture between the frames  *)
(* of such a game, but for the tenth of a refresh that snapping may lose.   *)
DisplayFed ==
  <>[](pace <= (Cap - 1) * Refresh => idle <= Snap)

(* A probe, which shows each frame once, ends by itself, whether its        *)
(* samples are trusted, held back for the whole of it, or some of each; a   *)
(* pause of the game counts for neither.                                    *)
ProbeShort == probed < 2 * ProbeSamples
=============================================================================
