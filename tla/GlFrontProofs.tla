--------------------------- MODULE GlFrontProofs ---------------------------
(***************************************************************************)
(* What the OpenGL front end keeps, for any number of contexts, any views,  *)
(* any changes of them and any address used again.  Each property is about  *)
(* what a swap finds at one step; the invariant says what it has at every   *)
(* other.                                                                   *)
(***************************************************************************)
EXTENDS GlFront, TLAPS

SetupSteps == {"surfaces", "up", "check", "engine", "install", "undo"}

FlushSteps ==
  {"route", "destroy", "build", "slots", "copy", "finish", "dispatch", "settle", "produce",
   "produced", "scale", "scaled", "blit", "swap", "native", "fail"} \cup SetupSteps

Flushes ==
  [step : FlushSteps, key : Keys, extent : Nat, shown : Nat,
   i : Nat, inserted : Nat, original : BOOLEAN]

IsContext(c) ==
  /\ c = [extent |-> c.extent, shown |-> c.shown, engine |-> c.engine,
          surfaces |-> c.surfaces, up |-> c.up]
  /\ c.extent \in Nat /\ c.shown \in Nat

IsPending(p) == p = [extent |-> p.extent, built |-> p.built]

IsOp(o) == o.by \in {"gl", "gpu"} /\ o = Op(o.by, o.key, o.surface, o.mode)

GlTypes ==
  /\ m \in 1..3 /\ scaler \in BOOLEAN
  /\ flush = NoFlush \/ flush \in Flushes
  /\ view \in [Keys -> Views]
  /\ backing \in [Keys -> Nat \cup {None}]
  /\ asked \in [Keys -> SUBSET (Nat \cup {None})]
  /\ DOMAIN back = Keys /\ DOMAIN names = Keys
  /\ DOMAIN contexts \subseteq Keys /\ \A k \in DOMAIN contexts : IsContext(contexts[k])
  /\ DOMAIN pending \subseteq Keys /\ \A k \in DOMAIN pending : IsPending(pending[k])
  /\ \A o \in work : IsOp(o)

(* A frame is shown from a context for its size, whose engine is as large;  *)
(* a new one is built where none is.                                        *)
Working ==
  {"slots", "copy", "finish", "dispatch", "settle", "produce", "produced", "scale", "scaled",
   "blit", "swap"}

Built ==
  /\ flush.step \in Working => flush.key \in DOMAIN contexts /\ Mine.extent = flush.extent
  /\ flush.step \in {"build"} \cup SetupSteps => flush.key \notin DOMAIN contexts
  /\ m > 1 => \A k \in DOMAIN contexts : contexts[k].engine.extent = contexts[k].extent

(* The surface to show is one of those inserted, or the game's, 0.          *)
Counted ==
  flush.step # "none" =>
    /\ flush.i <= flush.inserted /\ flush.inserted <= m
    /\ flush.step \in {"route", "destroy", "build", "slots", "copy", "finish", "dispatch", "settle"}
                       \cup SetupSteps => flush.i = 0
    /\ flush.step = "produce" => flush.i < flush.inserted
    /\ flush.step = "produced" => flush.i > 0

(* What a setup has made so far is for this swap; the surface that is tried *)
(* is none of it.                                                           *)
SettingUp ==
  /\ IsContext(fresh) /\ fresh.surfaces \subseteq 0..m /\ fresh.up \in {None, Unpinned}
  /\ flush.step \notin SetupSteps => fresh = NoContext
  /\ flush.step # "check" => trial = {}
  /\ flush.step \in SetupSteps =>
       fresh.extent = flush.extent /\ (m > 1 => fresh.engine.extent = flush.extent)
  /\ flush.step = "check" =>
       \/ trial = {Out} /\ fresh.up = None
       \/ \E s \in 0..m \ fresh.surfaces : trial = {s}
  /\ flush.step \in {"up", "engine"} => fresh.up = None
  /\ flush.step \in {"surfaces", "check"} /\ m > 1 => fresh.up = None

InSetup == Held(fresh) \cup trial

(* A context has the framebuffers of what the front keeps for it, or has    *)
(* made for it so far.  Names of one that is gone went with it.             *)
Owned ==
  /\ stale \subseteq DOMAIN contexts
  /\ \A k \in stale : names[k] = {}
  /\ \A k \in Keys \ stale :
       names[k] = IF k \in DOMAIN contexts THEN Held(contexts[k])
                  ELSE IF k = flush.key THEN InSetup ELSE {}
  /\ SettingUp

(* A surface stands at a size the game asked for, or at the one a pin gave  *)
(* it, and then what is to be restored was asked for.                       *)
Pinned ==
  /\ \A k \in Keys : None \in asked[k]
  /\ \A k \in Keys :
       \/ backing[k] \in asked[k]
       \/ HasUp(k) /\ contexts[k].up.pinned /\ backing[k] = contexts[k].shown
  /\ \A k \in DOMAIN contexts :
       HasUp(k) /\ contexts[k].up.pinned => contexts[k].up.prior \in asked[k]

(* The back buffer is the game's frame until the first swap.                *)
Drawn ==
  /\ flush.step \in {"route", "destroy", "build"} \cup SetupSteps => back[flush.key] = "frame"
  /\ flush.step = "swap" => back[flush.key] # "undefined"
  /\ flush.step = "native" => flush.key \in failed \/ back[flush.key] = "frame"

(* The GPU has work only within a swap, and OpenGL writes only until it is  *)
(* finished; in between OpenGL reads frames that were shown before the one  *)
(* that is being generated.                                                 *)
ShownBefore == IF flush.step \in {"produced", "scale", "blit"} THEN flush.i - 1 ELSE flush.i

Reading(o) == o.mode = "read"

GpuInSwap ==
  \A o \in work : o.by = "gpu" =>
    /\ o.key = flush.key
    /\ flush.step \in {"settle", "produce", "produced", "scaled", "fail"}
    /\ flush.step \in {"settle", "produce"} => Reading(o)
    /\ flush.step = "produced" => Reading(o) \/ o.surface = flush.i

GlReads ==
  \A o \in work : o.by = "gl" =>
    /\ Reading(o) \/ (o.key = flush.key /\ flush.step = "finish")
    /\ o.key = flush.key /\ flush.step \in {"dispatch", "settle", "produce"} =>
         o.surface \in 1..flush.i \cup {Out}
    /\ o.key = flush.key /\ flush.step \in {"produced", "scale", "blit", "swap"} /\ flush.i > 0 =>
         o.surface \in 1..ShownBefore \cup {Out}
    /\ o.key = flush.key => flush.step # "scaled"

Turns == GpuInSwap /\ GlReads /\ SurfacesInTurn

(* The inductive invariant.                                                 *)
GlInv == GlTypes /\ Built /\ Counted /\ Owned /\ Pinned /\ Drawn /\ Turns

-----------------------------------------------------------------------------
(* The invariant holds at the start.                                        *)
LEMMA InitGl == Init => GlInv
<1> SUFFICES ASSUME Init PROVE GlInv
  OBVIOUS
<1> USE DEF Init
<1>1. DOMAIN contexts = {} /\ DOMAIN pending = {}
  OBVIOUS
<1>2. GlTypes
  BY <1>1 DEF GlTypes
<1>3. Built /\ Counted /\ Drawn
  BY <1>1 DEF Built, Counted, Drawn, NoFlush, Working, SetupSteps
<1>4. Owned
  <2>1. Held(NoContext) = {} /\ IsContext(NoContext) /\ NoContext.surfaces = {} /\ NoContext.up = None
    BY DEF NoContext, Held, IsContext
  <2>2. flush.step = "none"
    BY DEF NoFlush
  <2>3. SettingUp
    BY <2>1, <2>2 DEF SettingUp, SetupSteps
  <2> QED
    BY <1>1, <2>1, <2>3 DEF Owned, InSetup
<1>5. Pinned
  BY <1>1 DEF Pinned, HasUp
<1>6. Turns
  BY DEF Turns, GpuInSwap, GlReads, SurfacesInTurn
<1> QED
  BY <1>2, <1>3, <1>4, <1>5, <1>6 DEF GlInv

(* Within a swap its record has every field.                                *)
LEMMA InSwap ==
  ASSUME GlTypes, flush.step # "none"
  PROVE  flush \in Flushes
  BY DEF GlTypes, NoFlush

(* Without a setup nothing is made of one.                                  *)
LEMMA NothingMade ==
  ASSUME GlInv, flush.step \notin SetupSteps
  PROVE  fresh = NoContext /\ trial = {} /\ InSetup = {} /\ Held(NoContext) = {}
<1>1. fresh = NoContext /\ trial = {}
  BY DEF GlInv, Owned, SettingUp, SetupSteps
<1>2. Held(NoContext) = {}
  BY DEF NoContext, Held
<1> QED
  BY <1>1, <1>2 DEF InSetup

(* So it is from one swap to the next, and between steps that set up nothing.*)
LEMMA StillNothing ==
  ASSUME GlInv, flush.step \notin SetupSteps, flush'.step \notin SetupSteps,
         UNCHANGED <<m, fresh, trial>>
  PROVE  SettingUp' /\ InSetup' = {}
<1>1. fresh' = NoContext /\ trial' = {} /\ Held(NoContext) = {}
  BY NothingMade
<1>2. IsContext(fresh') /\ fresh'.surfaces \subseteq 0..m' /\ fresh'.up \in {None, Unpinned}
  BY DEF GlInv, Owned, SettingUp
<1>3. SettingUp'
  BY <1>1, <1>2 DEF SettingUp, SetupSteps
<1>4. InSetup' = Held(fresh') \cup trial'
  BY DEF InSetup, Held
<1> QED
  BY <1>1, <1>3, <1>4

(* A step that only moves on in its swap leaves sizes, names and contexts.   *)
LEMMA OnlyMoves ==
  ASSUME GlInv, flush' = NoFlush \/ flush' \in Flushes, DOMAIN back' = Keys, \A o \in work' : IsOp(o),
         flush.step \notin SetupSteps, flush' = NoFlush \/ flush'.step \notin SetupSteps,
         UNCHANGED <<m, scaler, view, contexts, pending, fresh, trial, backing, asked, names, stale>>
  PROVE  GlTypes' /\ Owned' /\ Pinned'
<1>1. GlTypes'
  BY DEF GlInv, GlTypes
<1>2. flush'.step \notin SetupSteps
  BY DEF NoFlush, SetupSteps
<1>3. InSetup = {} /\ InSetup' = {} /\ SettingUp'
  BY <1>2, NothingMade, StillNothing
<1>4. Owned'
  BY <1>3 DEF GlInv, Owned, Held
<1>5. Pinned'
  BY DEF GlInv, Pinned, HasUp
<1> QED
  BY <1>1, <1>4, <1>5

(* The fields of an entry of the work.                                      *)
LEMMA OpIs ==
  ASSUME NEW by \in {"gl", "gpu"}, NEW k, NEW surface, NEW mode
  PROVE  LET o == Op(by, k, surface, mode)
         IN o.by = by /\ o.key = k /\ o.surface = surface /\ o.mode = mode /\ IsOp(o)
  BY DEF Op, IsOp

(* A step adds one thing to do, and what it shares a surface with only      *)
(* reads, as it does itself.                                                *)
LEMMA AddsInTurn ==
  ASSUME SurfacesInTurn, NEW n, work' = work \cup {n},
         \A o \in work : o.key = n.key /\ o.surface = n.surface /\ o.by # n.by
                          => o.mode = "read" /\ n.mode = "read"
  PROVE  SurfacesInTurn'
  BY DEF SurfacesInTurn

-----------------------------------------------------------------------------
(* One lemma for each step of a swap.                                       *)

LEMMA CopyOutKeeps == GlInv /\ CopyOut => GlInv'
<1> SUFFICES ASSUME GlInv, CopyOut PROVE GlInv'
  OBVIOUS
<1>0. flush \in Flushes /\ flush.step = "copy" /\ m \in 1..3
  BY InSwap DEF CopyOut, At, GlInv, GlTypes
<1>1. /\ flush \in Flushes /\ flush.step = "copy" /\ m \in 1..3
      /\ flush.i \in Nat /\ flush.inserted \in Nat /\ flush.i <= flush.inserted /\ flush.inserted <= m
  BY <1>0 DEF GlInv, Counted, Flushes
<1>2. /\ flush' \in Flushes /\ flush'.step = "finish"
      /\ flush'.key = flush.key /\ flush'.extent = flush.extent
      /\ flush'.i = flush.i /\ flush'.inserted = flush.inserted
  BY <1>1 DEF CopyOut, Goto, Flushes, FlushSteps
<1>3. /\ UNCHANGED <<m, scaler, view, contexts, pending, failed, fresh, trial, backing, asked, names, stale>>
      /\ back' = back
  BY DEF CopyOut, profile, front, setup, gameVars
<1>4. work' = work \cup {Op("gl", flush.key, 0, "write")}
  BY DEF CopyOut
<1>5. GlTypes' /\ Owned' /\ Pinned'
  BY <1>1, <1>2, <1>3, <1>4, OnlyMoves, OpIs DEF GlInv, GlTypes, SetupSteps
<1>6. Built'
  BY <1>1, <1>2, <1>3 DEF GlInv, Built, Mine, Working, SetupSteps
<1>7. Counted'
  BY <1>1, <1>2, <1>3 DEF GlInv, Counted, SetupSteps
<1>8. Drawn'
  BY <1>1, <1>2, <1>3 DEF GlInv, Drawn, SetupSteps
<1>9. GpuInSwap'
  BY <1>1, <1>2, <1>4, OpIs DEF GlInv, Turns, GpuInSwap, Reading
<1>10. GlReads'
  BY <1>1, <1>2, <1>4, OpIs DEF GlInv, Turns, GlReads, Reading, ShownBefore
<1>11. SurfacesInTurn'
  BY <1>1, <1>4, AddsInTurn, OpIs DEF GlInv, GlTypes, IsOp, Turns, GpuInSwap, GlReads, Reading
<1> QED
  BY <1>5, <1>6, <1>7, <1>8, <1>9, <1>10, <1>11 DEF GlInv, Turns

(* The settling of the source keeps it,                                     *)
LEMMA SettleSourceKeeps == GlInv /\ SettleSource => GlInv'
<1> SUFFICES ASSUME GlInv, SettleSource PROVE GlInv'
  OBVIOUS
<1>0. flush \in Flushes /\ flush.step = "settle" /\ m \in 1..3
  BY InSwap DEF SettleSource, At, GlInv, GlTypes
<1>1. /\ flush \in Flushes /\ flush.step = "settle" /\ m \in 1..3
      /\ flush.i \in Nat /\ flush.inserted \in Nat /\ flush.i <= flush.inserted /\ flush.inserted <= m
      /\ flush.i = 0
  BY <1>0 DEF GlInv, Counted, Flushes
<1>2. /\ flush' \in Flushes /\ (flush'.step = "scale" \/ flush'.step = "fail")
      /\ flush'.key = flush.key /\ flush'.extent = flush.extent
      /\ flush'.i = flush.i /\ flush'.inserted = flush.inserted
  BY <1>1 DEF SettleSource, Goto, Flushes, FlushSteps, Goto
<1>3. /\ UNCHANGED <<m, scaler, view, contexts, pending, failed, fresh, trial, backing, asked, names, stale>>
      /\ back' = back
  BY DEF SettleSource, profile, front, setup, gameVars
<1>4. work' = work /\ (Settled(flush.key) \/ flush'.step = "fail")
  BY <1>1 DEF Flushes, SettleSource, Goto
<1>5. GlTypes' /\ Owned' /\ Pinned'
  BY <1>1, <1>2, <1>3, <1>4, OnlyMoves, OpIs DEF GlInv, GlTypes, SetupSteps
<1>6. Built'
  BY <1>1, <1>2, <1>3 DEF GlInv, Built, Mine, Working, SetupSteps
<1>7. Counted'
  BY <1>1, <1>2, <1>3 DEF GlInv, Counted, SetupSteps
<1>8. Drawn'
  BY <1>1, <1>2, <1>3 DEF GlInv, Drawn, SetupSteps
<1>9. GpuInSwap'
  BY <1>1, <1>2, <1>4 DEF GlInv, GlTypes, IsOp, Turns, GpuInSwap, Reading, Settled, Pending
<1>10. GlReads'
  BY <1>1, <1>2, <1>4 DEF GlInv, GlTypes, IsOp, Turns, GlReads, Reading, ShownBefore
<1>11. SurfacesInTurn'
  BY <1>1, <1>4 DEF GlInv, Turns, SurfacesInTurn
<1> QED
  BY <1>5, <1>6, <1>7, <1>8, <1>9, <1>10, <1>11 DEF GlInv, Turns

(* so does a frame that is generated,                                       *)
LEMMA ProducedKeeps == GlInv /\ Produced => GlInv'
<1> SUFFICES ASSUME GlInv, Produced PROVE GlInv'
  OBVIOUS
<1>0. flush \in Flushes /\ flush.step = "produced" /\ m \in 1..3
  BY InSwap DEF Produced, At, GlInv, GlTypes
<1>1. /\ flush \in Flushes /\ flush.step = "produced" /\ m \in 1..3
      /\ flush.i \in Nat /\ flush.inserted \in Nat /\ flush.i <= flush.inserted /\ flush.inserted <= m
      /\ flush.i > 0
  BY <1>0 DEF GlInv, Counted, Flushes
<1>2. /\ flush' \in Flushes /\ (flush'.step = "scale" \/ flush'.step = "fail")
      /\ flush'.key = flush.key /\ flush'.extent = flush.extent
      /\ flush'.i = flush.i /\ flush'.inserted = flush.inserted
  BY <1>1 DEF Produced, Goto, Flushes, FlushSteps, Goto
<1>3. /\ UNCHANGED <<m, scaler, view, contexts, pending, failed, fresh, trial, backing, asked, names, stale>>
      /\ back' = back
  BY DEF Produced, profile, front, setup, gameVars
<1>4. work' = work /\ ((Settled(flush.key) /\ flush'.step = "scale") \/ flush'.step = "fail")
  BY <1>1 DEF Flushes, Produced, Goto
<1>5. GlTypes' /\ Owned' /\ Pinned'
  BY <1>1, <1>2, <1>3, <1>4, OnlyMoves, OpIs DEF GlInv, GlTypes, SetupSteps
<1>6. Built'
  BY <1>1, <1>2, <1>3 DEF GlInv, Built, Mine, Working, SetupSteps
<1>7. Counted'
  BY <1>1, <1>2, <1>3 DEF GlInv, Counted, SetupSteps
<1>8. Drawn'
  BY <1>1, <1>2, <1>3 DEF GlInv, Drawn, SetupSteps
<1>9. GpuInSwap'
  BY <1>1, <1>2, <1>4 DEF GlInv, GlTypes, IsOp, Turns, GpuInSwap, Reading, Settled, Pending
<1>10. GlReads'
  BY <1>1, <1>2, <1>4 DEF GlInv, GlTypes, IsOp, Turns, GlReads, Reading, ShownBefore
<1>11. SurfacesInTurn'
  BY <1>1, <1>4 DEF GlInv, Turns, SurfacesInTurn
<1> QED
  BY <1>5, <1>6, <1>7, <1>8, <1>9, <1>10, <1>11 DEF GlInv, Turns

(* one that is scaled,                                                      *)
LEMMA ScaledKeeps == GlInv /\ Scaled => GlInv'
<1> SUFFICES ASSUME GlInv, Scaled PROVE GlInv'
  OBVIOUS
<1>0. flush \in Flushes /\ flush.step = "scaled" /\ m \in 1..3
  BY InSwap DEF Scaled, At, GlInv, GlTypes
<1>1. /\ flush \in Flushes /\ flush.step = "scaled" /\ m \in 1..3
      /\ flush.i \in Nat /\ flush.inserted \in Nat /\ flush.i <= flush.inserted /\ flush.inserted <= m
  BY <1>0 DEF GlInv, Counted, Flushes
<1>2. /\ flush' \in Flushes /\ flush'.step = "blit"
      /\ flush'.key = flush.key /\ flush'.extent = flush.extent
      /\ flush'.i = flush.i /\ flush'.inserted = flush.inserted
  BY <1>1 DEF Scaled, Goto, Flushes, FlushSteps, Goto
<1>3. /\ UNCHANGED <<m, scaler, view, contexts, pending, failed, fresh, trial, backing, asked, names, stale>>
      /\ back' = back
  BY DEF Scaled, profile, front, setup, gameVars
<1>4. work' = work /\ Settled(flush.key)
  BY <1>1 DEF Flushes, Scaled, Goto
<1>5. GlTypes' /\ Owned' /\ Pinned'
  BY <1>1, <1>2, <1>3, <1>4, OnlyMoves, OpIs DEF GlInv, GlTypes, SetupSteps
<1>6. Built'
  BY <1>1, <1>2, <1>3 DEF GlInv, Built, Mine, Working, SetupSteps
<1>7. Counted'
  BY <1>1, <1>2, <1>3 DEF GlInv, Counted, SetupSteps
<1>8. Drawn'
  BY <1>1, <1>2, <1>3 DEF GlInv, Drawn, SetupSteps
<1>9. GpuInSwap'
  BY <1>1, <1>2, <1>4 DEF GlInv, GlTypes, IsOp, Turns, GpuInSwap, Reading, Settled, Pending
<1>10. GlReads'
  BY <1>1, <1>2, <1>4 DEF GlInv, GlTypes, IsOp, Turns, GlReads, Reading, ShownBefore
<1>11. SurfacesInTurn'
  BY <1>1, <1>4 DEF GlInv, Turns, SurfacesInTurn
<1> QED
  BY <1>5, <1>6, <1>7, <1>8, <1>9, <1>10, <1>11 DEF GlInv, Turns

(* the blit of either to the back buffer,                                   *)
LEMMA BlitKeeps == GlInv /\ Blit => GlInv'
<1> SUFFICES ASSUME GlInv, Blit PROVE GlInv'
  OBVIOUS
<1>0. flush \in Flushes /\ flush.step = "blit" /\ m \in 1..3
  BY InSwap DEF Blit, At, GlInv, GlTypes
<1>1. /\ flush \in Flushes /\ flush.step = "blit" /\ m \in 1..3
      /\ flush.i \in Nat /\ flush.inserted \in Nat /\ flush.i <= flush.inserted /\ flush.inserted <= m
  BY <1>0 DEF GlInv, Counted, Flushes
<1>2. /\ flush' \in Flushes /\ flush'.step = "swap"
      /\ flush'.key = flush.key /\ flush'.extent = flush.extent
      /\ flush'.i = flush.i /\ flush'.inserted = flush.inserted
  BY <1>1 DEF Blit, Goto, Flushes, FlushSteps
<1>3. /\ UNCHANGED <<m, scaler, view, contexts, pending, failed, fresh, trial, backing, asked, names, stale>>
      /\ back' = [back EXCEPT ![flush.key] = IF Showing = 0 THEN "frame" ELSE "generated"]
  BY DEF Blit, profile, front, setup, gameVars
<1>4. work' = work \cup {Op("gl", flush.key, IF Mine.up = None THEN Showing ELSE Out, "read")}
  BY DEF Blit
<1>5. GlTypes' /\ Owned' /\ Pinned'
  BY <1>1, <1>2, <1>3, <1>4, OnlyMoves, OpIs DEF GlInv, GlTypes, SetupSteps
<1>6. Built'
  BY <1>1, <1>2, <1>3 DEF GlInv, Built, Mine, Working, SetupSteps
<1>7. Counted'
  BY <1>1, <1>2, <1>3 DEF GlInv, Counted, SetupSteps
<1>8. Drawn'
  BY <1>1, <1>2, <1>3 DEF GlInv, Drawn, GlTypes, Flushes, SetupSteps
<1>9. GpuInSwap'
  BY <1>1, <1>2, <1>4, OpIs DEF GlInv, Turns, GpuInSwap, Reading
<1>10. GlReads'
  <2> DEFINE n == Op("gl", flush.key, IF Mine.up = None THEN Showing ELSE Out, "read")
  <2>1. n.by = "gl" /\ n.key = flush.key /\ n.mode = "read" /\ n.surface \in {flush.i, Out}
    BY OpIs DEF Showing
  <2> HIDE DEF n
  <2>2. work' = work \cup {n}
    BY <1>4 DEF n
  <2>3. flush.i > 0 => \A s \in 1..(flush.i - 1) \cup {flush.i, Out} : s \in 1..flush'.i \cup {Out}
    BY <1>1, <1>2
  <2>4. ASSUME NEW o \in work, o.by = "gl"
        PROVE  /\ o.mode = "read"
               /\ o.key = flush.key /\ flush.i > 0 => o.surface \in 1..(flush.i - 1) \cup {Out}
    BY <1>1, <2>4 DEF GlInv, Turns, GlReads, Reading, ShownBefore
  <2> QED
    BY <1>1, <1>2, <2>1, <2>2, <2>3, <2>4 DEF GlReads, Reading, ShownBefore
<1>11. SurfacesInTurn'
  BY <1>1, <1>4, AddsInTurn, OpIs DEF GlInv, GlTypes, IsOp, Turns, GpuInSwap, GlReads, Reading
<1> QED
  BY <1>5, <1>6, <1>7, <1>8, <1>9, <1>10, <1>11 DEF GlInv, Turns

(* the choice between generation and the native swap,                       *)
LEMMA RoutedKeeps == GlInv /\ Routed => GlInv'
<1> SUFFICES ASSUME GlInv, Routed PROVE GlInv'
  OBVIOUS
<1>0. flush \in Flushes /\ flush.step = "route" /\ m \in 1..3
  BY InSwap DEF Routed, At, GlInv, GlTypes
<1>1. /\ flush \in Flushes /\ flush.step = "route" /\ m \in 1..3
      /\ flush.i \in Nat /\ flush.inserted \in Nat /\ flush.i <= flush.inserted /\ flush.inserted <= m
      /\ flush.i = 0
  BY <1>0 DEF GlInv, Counted, Flushes
<1>2. /\ flush' \in Flushes /\ (flush'.step = "native" \/ flush'.step = "destroy" \/ flush'.step = "slots")
      /\ flush'.key = flush.key /\ flush'.extent = flush.extent
      /\ flush'.i = flush.i /\ flush'.inserted = flush.inserted
  BY <1>1 DEF Routed, Goto, Flushes, FlushSteps, Goto
<1>3. /\ UNCHANGED <<m, scaler, view, contexts, pending, failed, fresh, trial, backing, asked, names, stale>>
      /\ back' = back
  BY DEF Routed, profile, front, setup, gameVars
<1>4. work' = work /\ (flush'.step = "slots" => Standing)
  BY <1>1 DEF Flushes, Routed, Goto
<1>5. GlTypes' /\ Owned' /\ Pinned'
  BY <1>1, <1>2, <1>3, <1>4, OnlyMoves, OpIs DEF GlInv, GlTypes, SetupSteps
<1>6. Built'
  BY <1>1, <1>2, <1>3, <1>4 DEF GlInv, Built, Mine, Working, SetupSteps, Standing, Fits
<1>7. Counted'
  BY <1>1, <1>2, <1>3 DEF GlInv, Counted, SetupSteps
<1>8. Drawn'
  BY <1>1, <1>2, <1>3 DEF GlInv, Drawn, SetupSteps
<1>9. GpuInSwap'
  BY <1>1, <1>2, <1>4 DEF GlInv, GlTypes, IsOp, Turns, GpuInSwap, Reading, Settled, Pending
<1>10. GlReads'
  BY <1>1, <1>2, <1>4 DEF GlInv, GlTypes, IsOp, Turns, GlReads, Reading, ShownBefore
<1>11. SurfacesInTurn'
  BY <1>1, <1>4 DEF GlInv, Turns, SurfacesInTurn
<1> QED
  BY <1>5, <1>6, <1>7, <1>8, <1>9, <1>10, <1>11 DEF GlInv, Turns

(* the start of the generator,                                              *)
LEMMA DispatchKeeps == GlInv /\ Dispatch => GlInv'
<1> SUFFICES ASSUME GlInv, Dispatch PROVE GlInv'
  OBVIOUS
<1>0. flush \in Flushes /\ flush.step = "dispatch" /\ m \in 1..3
  BY InSwap DEF Dispatch, At, GlInv, GlTypes
<1>1. /\ flush \in Flushes /\ flush.step = "dispatch" /\ m \in 1..3
      /\ flush.i \in Nat /\ flush.inserted \in Nat /\ flush.i <= flush.inserted /\ flush.inserted <= m
      /\ flush.i = 0
  BY <1>0 DEF GlInv, Counted, Flushes
<1>2. /\ flush' \in Flushes /\ (flush'.step = "settle" \/ flush'.step = "produce" \/ flush'.step = "fail")
      /\ flush'.key = flush.key /\ flush'.extent = flush.extent
      /\ flush'.i = flush.i /\ flush'.inserted = flush.inserted
  BY <1>1 DEF Dispatch, Goto, Flushes, FlushSteps, Goto, MustSettle, Fails
<1>3. /\ UNCHANGED <<m, scaler, view, contexts, pending, failed, fresh, trial, backing, asked, names, stale>>
      /\ back' = back
  BY DEF Dispatch, profile, front, setup, gameVars
<1>4. \/ /\ work' = work \cup {Op("gpu", flush.key, 0, "read")}
         /\ flush'.step = IF flush.inserted = 0 THEN "settle" ELSE "produce"
      \/ work' = work /\ flush'.step = "fail"
  BY <1>1 DEF Flushes, Dispatch, Goto, MustSettle, Fails
<1>5. GlTypes' /\ Owned' /\ Pinned'
  BY <1>1, <1>2, <1>3, <1>4, OnlyMoves, OpIs DEF GlInv, GlTypes, SetupSteps
<1>6. Built'
  BY <1>1, <1>2, <1>3 DEF GlInv, Built, Mine, Working, SetupSteps
<1>7. Counted'
  BY <1>1, <1>2, <1>3, <1>4 DEF GlInv, Counted, SetupSteps
<1>8. Drawn'
  BY <1>1, <1>2, <1>3 DEF GlInv, Drawn, SetupSteps
<1>9. GpuInSwap'
  BY <1>1, <1>2, <1>4, OpIs DEF GlInv, Turns, GpuInSwap, Reading
<1>10. GlReads'
  BY <1>1, <1>2, <1>4, OpIs DEF GlInv, Turns, GlReads, Reading, ShownBefore
<1>11. SurfacesInTurn'
  <2>1. CASE work' = work
    BY <2>1 DEF GlInv, Turns, SurfacesInTurn
  <2>2. CASE work' # work
    BY <1>1, <1>4, <2>2, AddsInTurn, OpIs DEF GlInv, GlTypes, IsOp, Turns, GpuInSwap, GlReads, Reading
  <2> QED
    BY <2>1, <2>2
<1> QED
  BY <1>5, <1>6, <1>7, <1>8, <1>9, <1>10, <1>11 DEF GlInv, Turns

(* the pacer's answer,                                                      *)
LEMMA SlotsKeep == GlInv /\ Slots => GlInv'
<1> SUFFICES ASSUME GlInv, Slots PROVE GlInv'
  OBVIOUS
<1>0. flush \in Flushes /\ flush.step = "slots" /\ m \in 1..3
  BY InSwap DEF Slots, At, GlInv, GlTypes
<1>1. /\ flush \in Flushes /\ flush.step = "slots" /\ m \in 1..3
      /\ flush.i \in Nat /\ flush.inserted \in Nat /\ flush.i <= flush.inserted /\ flush.inserted <= m
      /\ flush.i = 0
  BY <1>0 DEF GlInv, Counted, Flushes
<1>2. /\ flush' \in Flushes /\ flush'.step = "copy" /\ flush'.key = flush.key
      /\ flush'.extent = flush.extent /\ flush'.i = flush.i /\ flush'.inserted \in 0..m
  <2>1. CASE flush' = [flush EXCEPT !.step = "copy"]
    BY <1>1, <2>1 DEF Flushes, FlushSteps
  <2>2. CASE \E n \in 0..m, o \in BOOLEAN :
               flush' = [flush EXCEPT !.step = "copy", !.inserted = n, !.original = o]
    <3>1. PICK n \in 0..m : \E o \in BOOLEAN :
            flush' = [flush EXCEPT !.step = "copy", !.inserted = n, !.original = o]
      BY <2>2
    <3>2. n \in Nat
      BY <1>1
    <3> QED
      BY <1>1, <3>1, <3>2 DEF Flushes, FlushSteps
  <2> QED
    BY <2>1, <2>2 DEF Slots
<1>3. /\ UNCHANGED <<m, scaler, view, contexts, pending, failed, fresh, trial, backing, asked, names, stale>>
      /\ back' = back
  BY DEF Slots, profile, front, setup, gameVars
<1>4. work' = work
  BY <1>1 DEF Slots, Goto, Flushes
<1>5. GlTypes' /\ Owned' /\ Pinned'
  BY <1>1, <1>2, <1>3, <1>4, OnlyMoves, OpIs DEF GlInv, GlTypes, SetupSteps
<1>6. Built'
  BY <1>1, <1>2, <1>3 DEF GlInv, Built, Mine, Working, SetupSteps
<1>7. Counted'
  BY <1>1, <1>2, <1>3 DEF GlInv, Counted, SetupSteps
<1>8. Drawn'
  BY <1>1, <1>2, <1>3 DEF GlInv, Drawn, SetupSteps
<1>9. GpuInSwap'
  BY <1>1, <1>2, <1>4 DEF GlInv, GlTypes, IsOp, Turns, GpuInSwap, Reading, Settled, Pending
<1>10. GlReads'
  BY <1>1, <1>2, <1>4 DEF GlInv, GlTypes, IsOp, Turns, GlReads, Reading, ShownBefore
<1>11. SurfacesInTurn'
  BY <1>1, <1>4 DEF GlInv, Turns, SurfacesInTurn
<1> QED
  BY <1>5, <1>6, <1>7, <1>8, <1>9, <1>10, <1>11 DEF GlInv, Turns

(* the order to generate a frame,                                           *)
LEMMA ProduceKeeps == GlInv /\ Produce => GlInv'
<1> SUFFICES ASSUME GlInv, Produce PROVE GlInv'
  OBVIOUS
<1>0. flush \in Flushes /\ flush.step = "produce" /\ m \in 1..3
  BY InSwap DEF Produce, At, GlInv, GlTypes
<1>1. /\ flush \in Flushes /\ flush.step = "produce" /\ m \in 1..3
      /\ flush.i \in Nat /\ flush.inserted \in Nat /\ flush.i <= flush.inserted /\ flush.inserted <= m
      /\ flush.i < flush.inserted
  BY <1>0 DEF GlInv, Counted, Flushes
<1>2. /\ flush' \in Flushes /\ flush'.key = flush.key /\ flush'.extent = flush.extent
      /\ flush'.inserted = flush.inserted
      /\ \/ flush'.step = "produced" /\ flush'.i = flush.i + 1
         \/ flush'.step = "fail" /\ flush'.i = flush.i
  <2>1. CASE flush' = [flush EXCEPT !.step = "produced", !.i = @ + 1]
    <3> DEFINE next == flush.i + 1
    <3>1. next \in Nat /\ flush' = [flush EXCEPT !.step = "produced", !.i = next]
      BY <1>1, <2>1
    <3> HIDE DEF next
    <3>2. flush' \in Flushes /\ flush'.step = "produced" /\ flush'.i = next /\ flush'.key = flush.key
          /\ flush'.extent = flush.extent /\ flush'.inserted = flush.inserted
      BY <1>1, <3>1 DEF Flushes, FlushSteps
    <3> QED
      BY <3>2 DEF next
  <2>2. CASE flush' = [flush EXCEPT !.step = "fail"]
    BY <1>1, <2>2 DEF Flushes, FlushSteps
  <2> QED
    BY <2>1, <2>2 DEF Produce, Fails, Goto
<1>3. /\ UNCHANGED <<m, scaler, view, contexts, pending, failed, fresh, trial, backing, asked, names, stale>>
      /\ back' = back
  BY DEF Produce, profile, front, setup, gameVars
<1>4. \/ /\ work' = work \cup {Op("gpu", flush.key, flush.i + 1, "write")}
         /\ flush'.step = "produced" /\ flush'.i = flush.i + 1
      \/ work' = work /\ flush'.step = "fail"
  BY <1>1 DEF Produce, Goto, Flushes, Fails
<1>5. GlTypes' /\ Owned' /\ Pinned'
  BY <1>1, <1>2, <1>3, <1>4, OnlyMoves, OpIs DEF GlInv, GlTypes, SetupSteps
<1>6. Built'
  BY <1>1, <1>2, <1>3 DEF GlInv, Built, Mine, Working, SetupSteps
<1>7. Counted'
  BY <1>1, <1>2, <1>3 DEF GlInv, Counted, SetupSteps
<1>8. Drawn'
  BY <1>1, <1>2, <1>3 DEF GlInv, Drawn, SetupSteps
<1>9. GpuInSwap'
  BY <1>1, <1>2, <1>4, OpIs DEF GlInv, Turns, GpuInSwap, Reading
<1>10. GlReads'
  BY <1>1, <1>2, <1>4, OpIs DEF GlInv, Turns, GlReads, Reading, ShownBefore
<1>11. SurfacesInTurn'
  <2>1. CASE work' = work
    BY <2>1 DEF GlInv, Turns, SurfacesInTurn
  <2>2. CASE work' = work \cup {Op("gpu", flush.key, flush.i + 1, "write")}
    <3>1. \A o \in work : o.by = "gl" /\ o.key = flush.key => o.surface \in 1..flush.i \cup {Out}
      BY <1>1 DEF GlInv, Turns, GlReads
    <3>2. flush.i + 1 \notin 1..flush.i \cup {Out}
      BY <1>1 DEF Out
    <3>3. \A o \in work : o.by \in {"gl", "gpu"}
      BY DEF GlInv, GlTypes, IsOp
    <3> QED
      BY <2>2, <3>1, <3>2, <3>3, AddsInTurn, OpIs DEF GlInv, Turns
  <2> QED
    BY <1>4, <2>1, <2>2
<1> QED
  BY <1>5, <1>6, <1>7, <1>8, <1>9, <1>10, <1>11 DEF GlInv, Turns

(* the order to scale it,                                                   *)
LEMMA ScaleKeeps == GlInv /\ Scale => GlInv'
<1> SUFFICES ASSUME GlInv, Scale PROVE GlInv'
  OBVIOUS
<1>0. flush \in Flushes /\ flush.step = "scale" /\ m \in 1..3
  BY InSwap DEF Scale, At, GlInv, GlTypes
<1>1. /\ flush \in Flushes /\ flush.step = "scale" /\ m \in 1..3
      /\ flush.i \in Nat /\ flush.inserted \in Nat /\ flush.i <= flush.inserted /\ flush.inserted <= m
  BY <1>0 DEF GlInv, Counted, Flushes
<1>2. /\ flush' \in Flushes /\ (flush'.step = "blit" \/ flush'.step = "scaled" \/ flush'.step = "fail")
      /\ flush'.key = flush.key /\ flush'.extent = flush.extent
      /\ flush'.i = flush.i /\ flush'.inserted = flush.inserted
  BY <1>1 DEF Scale, Goto, Flushes, FlushSteps, Goto, Fails, ScaleReady, Finished
<1>3. /\ UNCHANGED <<m, scaler, view, contexts, pending, failed, fresh, trial, backing, asked, names, stale>>
      /\ back' = back
  BY DEF Scale, profile, front, setup, gameVars
<1>4. \/ work' = work /\ flush'.step # "scaled"
      \/ /\ work' = work \cup {Op("gpu", flush.key, Showing, "read"), Op("gpu", flush.key, Out, "write")}
         /\ flush'.step = "scaled" /\ Pending("gl", flush.key) = {}
  BY <1>1 DEF Flushes, Scale, Goto, Fails, ScaleReady, Finished
<1>5. GlTypes' /\ Owned' /\ Pinned'
  BY <1>1, <1>2, <1>3, <1>4, OnlyMoves, OpIs DEF GlInv, GlTypes, SetupSteps
<1>6. Built'
  BY <1>1, <1>2, <1>3 DEF GlInv, Built, Mine, Working, SetupSteps
<1>7. Counted'
  BY <1>1, <1>2, <1>3 DEF GlInv, Counted, SetupSteps
<1>8. Drawn'
  BY <1>1, <1>2, <1>3 DEF GlInv, Drawn, SetupSteps
<1>9. GpuInSwap'
  BY <1>1, <1>2, <1>4, OpIs DEF GlInv, Turns, GpuInSwap, Reading
<1>10. GlReads'
  BY <1>1, <1>2, <1>4, OpIs DEF GlInv, Turns, GlReads, Reading, ShownBefore, Pending
<1>11. SurfacesInTurn'
  <2>1. CASE work' = work
    BY <2>1 DEF GlInv, Turns, SurfacesInTurn
  <2>2. CASE /\ work' = work \cup {Op("gpu", flush.key, Showing, "read"), Op("gpu", flush.key, Out, "write")}
             /\ Pending("gl", flush.key) = {}
    <3>1. \A o \in work : o.by \in {"gl", "gpu"}
      BY DEF GlInv, GlTypes, IsOp
    <3>2. \A o \in work : o.key = flush.key => o.by # "gl"
      BY <2>2 DEF Pending
    <3> QED
      BY <2>2, <3>1, <3>2, OpIs DEF GlInv, Turns, SurfacesInTurn
  <2> QED
    BY <1>4, <2>1, <2>2
<1> QED
  BY <1>5, <1>6, <1>7, <1>8, <1>9, <1>10, <1>11 DEF GlInv, Turns

(* a swap of a generated or scaled frame,                                   *)
LEMMA SwapKeeps == GlInv /\ Swap => GlInv'
<1> SUFFICES ASSUME GlInv, Swap PROVE GlInv'
  OBVIOUS
<1>0. flush \in Flushes /\ flush.step = "swap" /\ m \in 1..3
  BY InSwap DEF Swap, At, GlInv, GlTypes
<1>1. /\ flush \in Flushes /\ flush.step = "swap" /\ m \in 1..3
      /\ flush.i \in Nat /\ flush.inserted \in Nat /\ flush.i <= flush.inserted /\ flush.inserted <= m
  BY <1>0 DEF GlInv, Counted, Flushes
<1>2. \/ flush' = NoFlush
      \/ /\ flush' \in Flushes /\ flush'.key = flush.key /\ flush'.extent = flush.extent
         /\ \/ /\ flush'.step = "produce" /\ flush'.i = flush.i /\ flush'.inserted = flush.inserted
               /\ 0 < flush.i /\ flush.i < flush.inserted
            \/ flush'.step = "scale" /\ flush'.i = 0 /\ flush'.inserted = 0
  <2>1. CASE flush.i = 0 \/ (flush.i = flush.inserted /\ ~flush.original)
    BY <2>1 DEF Swap, Showing
  <2>2. CASE flush.i # 0 /\ flush.i < flush.inserted
    <3>1. flush' = [flush EXCEPT !.step = "produce"]
      BY <1>1, <2>2 DEF Swap, Showing
    <3> QED
      BY <1>1, <2>2, <3>1 DEF Flushes, FlushSteps
  <2>3. CASE flush.i # 0 /\ flush.i = flush.inserted /\ flush.original
    <3>1. flush' = [flush EXCEPT !.step = "scale", !.i = 0, !.inserted = 0]
      BY <1>1, <2>3 DEF Swap, Showing, Original
    <3> QED
      BY <1>1, <2>3, <3>1 DEF Flushes, FlushSteps
  <2> QED
    BY <1>1, <2>1, <2>2, <2>3 DEF Flushes
<1>3. /\ UNCHANGED <<m, scaler, view, contexts, pending, failed, fresh, trial, backing, asked, names, stale>>
      /\ back' = [back EXCEPT ![flush.key] = "undefined"]
  BY DEF Swap, profile, front, setup, gameVars
<1>4. work' = work
  BY <1>1 DEF Swap, Goto, Flushes
<1>5. GlTypes' /\ Owned' /\ Pinned'
  BY <1>1, <1>2, <1>3, <1>4, OnlyMoves, OpIs DEF GlInv, GlTypes, SetupSteps
<1>6. Built'
  BY <1>1, <1>2, <1>3 DEF GlInv, Built, Mine, Working, SetupSteps, NoFlush
<1>7. Counted'
  BY <1>1, <1>2, <1>3 DEF GlInv, Counted, SetupSteps, NoFlush
<1>8. Drawn'
  BY <1>1, <1>2, <1>3 DEF GlInv, Drawn, SetupSteps, NoFlush
<1>9. GpuInSwap'
  BY <1>1, <1>2, <1>4 DEF NoFlush, GlInv, GlTypes, IsOp, Turns, GpuInSwap, Reading, Settled, Pending
<1>10. GlReads'
  BY <1>1, <1>2, <1>4 DEF NoFlush, GlInv, GlTypes, IsOp, Turns, GlReads, Reading, ShownBefore
<1>11. SurfacesInTurn'
  BY <1>1, <1>4 DEF GlInv, Turns, SurfacesInTurn
<1> QED
  BY <1>5, <1>6, <1>7, <1>8, <1>9, <1>10, <1>11 DEF GlInv, Turns

(* a native one,                                                            *)
LEMMA SwapNativelyKeeps == GlInv /\ SwapNatively => GlInv'
<1> SUFFICES ASSUME GlInv, SwapNatively PROVE GlInv'
  OBVIOUS
<1>0. flush \in Flushes /\ flush.step = "native" /\ m \in 1..3
  BY InSwap DEF SwapNatively, At, GlInv, GlTypes
<1>1. /\ flush \in Flushes /\ flush.step = "native" /\ m \in 1..3
      /\ flush.i \in Nat /\ flush.inserted \in Nat /\ flush.i <= flush.inserted /\ flush.inserted <= m
  BY <1>0 DEF GlInv, Counted, Flushes
<1>2. flush' = NoFlush
  BY <1>1 DEF SwapNatively, Goto, Flushes, FlushSteps
<1>3. /\ UNCHANGED <<m, scaler, view, contexts, pending, failed, fresh, trial, backing, asked, names, stale>>
      /\ back' = [back EXCEPT ![flush.key] = "undefined"]
  BY DEF SwapNatively, profile, front, setup, gameVars
<1>4. work' = work
  BY <1>1 DEF SwapNatively, Goto, Flushes
<1>5. GlTypes' /\ Owned' /\ Pinned'
  BY <1>1, <1>2, <1>3, <1>4, OnlyMoves, OpIs DEF GlInv, GlTypes, SetupSteps
<1>6. Built'
  BY <1>1, <1>2, <1>3 DEF GlInv, Built, Mine, Working, SetupSteps, NoFlush
<1>7. Counted'
  BY <1>1, <1>2, <1>3 DEF GlInv, Counted, SetupSteps, NoFlush
<1>8. Drawn'
  BY <1>1, <1>2, <1>3 DEF GlInv, Drawn, SetupSteps, NoFlush
<1>9. GpuInSwap'
  BY <1>1, <1>2, <1>4 DEF NoFlush, GlInv, GlTypes, IsOp, Turns, GpuInSwap, Reading, Settled, Pending
<1>10. GlReads'
  BY <1>1, <1>2, <1>4 DEF NoFlush, GlInv, GlTypes, IsOp, Turns, GlReads, Reading, ShownBefore
<1>11. SurfacesInTurn'
  BY <1>1, <1>4 DEF GlInv, Turns, SurfacesInTurn
<1> QED
  BY <1>5, <1>6, <1>7, <1>8, <1>9, <1>10, <1>11 DEF GlInv, Turns

(* Once OpenGL is finished the surface is pinned at the size shown.          *)
LEMMA FinishAndPinKeeps == GlInv /\ FinishAndPin => GlInv'
<1> SUFFICES ASSUME GlInv, FinishAndPin PROVE GlInv'
  OBVIOUS
<1>0. flush \in Flushes /\ flush.step = "finish" /\ m \in 1..3
  BY InSwap DEF FinishAndPin, At, GlInv, GlTypes
<1>1. /\ flush \in Flushes /\ flush.step = "finish" /\ m \in 1..3 /\ flush.key \in Keys
      /\ flush.i = 0 /\ flush.inserted \in Nat /\ flush.i <= flush.inserted /\ flush.inserted <= m
  BY <1>0 DEF GlInv, Counted, Flushes
<1>2. /\ flush' \in Flushes /\ flush'.step \in {"scale", "dispatch"}
      /\ flush'.key = flush.key /\ flush'.extent = flush.extent
      /\ flush'.i = flush.i /\ flush'.inserted = flush.inserted
  BY <1>1 DEF FinishAndPin, Goto, Flushes, FlushSteps
<1>3. UNCHANGED <<m, scaler, view, pending, failed, fresh, trial, asked, names, stale, back, work>>
  BY DEF FinishAndPin, profile, setup, gameVars
<1>4. \A o \in work : o.key = flush.key => o.by # "gl"
  BY DEF FinishAndPin, Finished, Pending
<1>5. flush.key \in DOMAIN contexts /\ Mine.extent = flush.extent /\ IsContext(Mine)
  BY <1>1 DEF GlInv, GlTypes, Built, Working, SetupSteps, Mine
<1>6. GlTypes' /\ Built' /\ Owned' /\ Pinned'
  <2>1. CASE UNCHANGED <<contexts, backing>>
    <3>1. GlTypes' /\ Owned' /\ Pinned'
      BY <1>1, <1>2, <1>3, <2>1, OnlyMoves DEF GlInv, GlTypes, SetupSteps
    <3>2. Built'
      BY <1>1, <1>2, <1>3, <2>1 DEF GlInv, Built, Mine, Working, SetupSteps
    <3> QED
      BY <3>1, <3>2
  <2>2. CASE ~UNCHANGED <<contexts, backing>>
    <3> DEFINE pin == [pinned |-> TRUE, prior |-> backing[flush.key]]
    <3>1. /\ Mine.up # None
          /\ contexts' = [contexts EXCEPT ![flush.key].up = pin]
          /\ backing' = [backing EXCEPT ![flush.key] = Mine.shown]
      BY <2>2 DEF FinishAndPin
    <3>2. backing[flush.key] \in Nat \cup {None} /\ pin # None
      <4>1. backing[flush.key] \in Nat \cup {None}
        BY <1>1 DEF GlInv, GlTypes
      <4>2. pin \in [pinned : BOOLEAN, prior : Nat \cup {None}]
        BY <4>1
      <4> QED
        BY <4>1, <4>2, GlAssumption
    <3>3. /\ DOMAIN contexts' = DOMAIN contexts
          /\ \A k \in DOMAIN contexts \ {flush.key} : contexts'[k] = contexts[k]
          /\ contexts'[flush.key] = [extent |-> Mine.extent, shown |-> Mine.shown, engine |-> Mine.engine,
                                     surfaces |-> Mine.surfaces, up |-> pin]
      BY <1>5, <3>1 DEF IsContext, Mine
    <3>4. pin.pinned /\ pin.prior = backing[flush.key]
      OBVIOUS
    <3> HIDE DEF pin
    <3>5. /\ backing' \in [Keys -> Nat \cup {None}] /\ backing'[flush.key] = Mine.shown
          /\ \A k \in Keys \ {flush.key} : backing'[k] = backing[k]
      BY <1>1, <1>5, <3>1 DEF GlInv, GlTypes, IsContext
    <3>6. \A k \in DOMAIN contexts : IsContext(contexts'[k])
      BY <1>5, <3>3 DEF GlInv, GlTypes, IsContext
    <3>7. GlTypes'
      BY <1>2, <1>3, <3>3, <3>5, <3>6 DEF GlInv, GlTypes
    <3>8. Built'
      BY <1>1, <1>2, <1>3, <1>5, <3>3 DEF GlInv, Built, Mine, SetupSteps
    <3>9. \A k \in DOMAIN contexts : Held(contexts'[k]) = Held(contexts[k])
      BY <1>5, <3>1, <3>2, <3>3 DEF Held, Mine
    <3>10. Owned'
      <4>1. InSetup = {} /\ InSetup' = {} /\ SettingUp'
        BY <1>1, <1>2, <1>3, NothingMade, StillNothing DEF SetupSteps
      <4>2. \A k \in Keys \ stale' :
              names'[k] = IF k \in DOMAIN contexts' THEN Held(contexts'[k])
                          ELSE IF k = flush'.key THEN InSetup' ELSE {}
        BY <1>3, <3>3, <3>9, <4>1 DEF GlInv, Owned
      <4>3. stale' \subseteq DOMAIN contexts' /\ \A k \in stale' : names'[k] = {}
        BY <1>3, <3>3 DEF GlInv, Owned
      <4> QED
        BY <4>1, <4>2, <4>3 DEF Owned
    <3>11. \A k \in DOMAIN contexts : HasUp(k)' <=> HasUp(k)
      BY <1>5, <3>1, <3>2, <3>3 DEF HasUp, Mine
    <3>12. flush.key \in DOMAIN contexts => backing[flush.key] \in asked[flush.key] \/ backing[flush.key] = Mine.shown
      BY <1>1, <1>5 DEF GlInv, Pinned, Mine
    <3>13. backing[flush.key] # Mine.shown
      BY <2>2 DEF FinishAndPin
    <3>15. \A k \in Keys : None \in asked'[k]
      BY <1>3 DEF GlInv, Pinned
    <3>16. \A k \in Keys : \/ backing'[k] \in asked'[k]
                           \/ HasUp(k)' /\ contexts'[k].up.pinned /\ backing'[k] = contexts'[k].shown
      <4> TAKE k \in Keys
      <4>1. CASE k = flush.key
        BY <1>5, <3>1, <3>3, <3>4, <3>5, <3>11, <4>1 DEF HasUp, Mine
      <4>2. CASE k # flush.key
        BY <1>3, <3>3, <3>5, <3>11, <4>2 DEF GlInv, Pinned, HasUp
      <4> QED
        BY <4>1, <4>2
    <3>17. \A k \in DOMAIN contexts' : HasUp(k)' /\ contexts'[k].up.pinned => contexts'[k].up.prior \in asked'[k]
      <4> TAKE k \in DOMAIN contexts'
      <4>1. CASE k = flush.key
        BY <1>3, <1>5, <3>3, <3>4, <3>12, <3>13, <4>1
      <4>2. CASE k # flush.key
        BY <1>3, <3>3, <3>11, <4>2 DEF GlInv, Pinned
      <4> QED
        BY <4>1, <4>2
    <3>18. Pinned'
      BY <3>15, <3>16, <3>17 DEF Pinned
    <3> QED
      BY <3>7, <3>8, <3>10, <3>18
  <2> QED
    BY <2>1, <2>2
<1>7. Counted'
  BY <1>1, <1>2, <1>3 DEF GlInv, Counted, SetupSteps
<1>8. Drawn'
  BY <1>1, <1>2, <1>3 DEF GlInv, Drawn, SetupSteps
<1>9. GpuInSwap'
  BY <1>1, <1>2, <1>3 DEF GlInv, Turns, GpuInSwap
<1>10. GlReads'
  BY <1>1, <1>2, <1>3, <1>4 DEF GlInv, Turns, GlReads
<1>11. SurfacesInTurn'
  BY <1>3 DEF GlInv, Turns, SurfacesInTurn
<1> QED
  BY <1>6, <1>7, <1>8, <1>9, <1>10, <1>11 DEF GlInv, Turns

(* A context that is destroyed takes its names with it and gives its        *)
(* surface back.                                                            *)
LEMMA Destroys ==
  ASSUME GlInv, NEW k \in Keys, Destroyed(k), asked' = asked, m' = m,
         flush.step \notin SetupSteps, SettingUp', InSetup' = {}
  PROVE  /\ DOMAIN contexts' = DOMAIN contexts \ {k}
         /\ \A j \in DOMAIN contexts' : contexts'[j] = contexts[j]
         /\ backing' \in [Keys -> Nat \cup {None}] /\ DOMAIN names' = Keys
         /\ Owned' /\ Pinned'
<1>1. /\ DOMAIN contexts' = DOMAIN contexts \ {k}
      /\ \A j \in DOMAIN contexts' : contexts'[j] = contexts[j]
  BY DEF Destroyed, Restrict
<1>2. \A j \in Keys \ {k} : backing'[j] = backing[j] /\ names'[j] = names[j] /\ (HasUp(j)' <=> HasUp(j))
  BY <1>1 DEF Destroyed, GlInv, GlTypes, HasUp
<1>3. backing'[k] = IF HasUp(k) /\ contexts[k].up.pinned THEN contexts[k].up.prior ELSE backing[k]
  BY DEF Destroyed, Released, GlInv, GlTypes
<1>4. backing'[k] \in asked[k]
  BY <1>3 DEF GlInv, Pinned, HasUp
<1>5. DOMAIN names' = Keys /\ DOMAIN backing' = Keys
  BY DEF Destroyed, GlInv, GlTypes
<1>6. stale' = stale \ {k}
  BY DEF Destroyed
<1>7. names'[k] = {}
  <2>1. CASE k \in DOMAIN contexts
    <3>1. names'[k] = names[k] \ Held(contexts[k])
      BY <2>1 DEF Destroyed, GlInv, GlTypes
    <3>2. names[k] = {} \/ names[k] = Held(contexts[k])
      BY <2>1 DEF GlInv, Owned
    <3> QED
      BY <3>1, <3>2
  <2>2. CASE k \notin DOMAIN contexts
    BY <2>2, NothingMade DEF Destroyed, GlInv, Owned
  <2> QED
    BY <2>1, <2>2
<1>8. Owned'
  <2>1. stale' \subseteq DOMAIN contexts'
    BY <1>1, <1>6 DEF GlInv, Owned
  <2>2. \A j \in stale' : names'[j] = {}
    BY <1>2, <1>6 DEF GlInv, GlTypes, Owned
  <2>3. ASSUME NEW j \in Keys \ stale'
        PROVE  names'[j] = IF j \in DOMAIN contexts' THEN Held(contexts'[j]) ELSE {}
    <3>1. CASE j = k
      BY <1>1, <1>7, <3>1
    <3>2. CASE j # k
      <4>1. names'[j] = names[j] /\ j \in Keys \ stale
        BY <1>2, <1>6, <3>2
      <4>2. j \in DOMAIN contexts' <=> j \in DOMAIN contexts
        BY <1>1, <3>2
      <4> QED
        BY <1>1, <4>1, <4>2, NothingMade DEF GlInv, Owned
    <3> QED
      BY <3>1, <3>2
  <2> QED
    BY <2>1, <2>2, <2>3 DEF Owned
<1>9. Pinned'
  BY <1>1, <1>2, <1>4 DEF GlInv, Pinned, HasUp
<1>10. backing' \in [Keys -> Nat \cup {None}]
  <2>1. backing' = [j \in Keys |-> backing'[j]]
    BY DEF Destroyed, GlInv, GlTypes
  <2>2. \A j \in Keys : backing'[j] \in Nat \cup {None}
    BY <1>2, <1>4 DEF GlInv, GlTypes
  <2> QED
    BY <2>1, <2>2
<1> QED
  BY <1>1, <1>5, <1>8, <1>9, <1>10

(* the end of a context of an old size,                                     *)
LEMMA DestroyOldKeeps == GlInv /\ DestroyOld => GlInv'
<1> SUFFICES ASSUME GlInv, DestroyOld PROVE GlInv'
  OBVIOUS
<1>0. flush \in Flushes /\ flush.step = "destroy" /\ m \in 1..3
  BY InSwap DEF DestroyOld, At, GlInv, GlTypes
<1>1. /\ flush \in Flushes /\ flush.step = "destroy" /\ m \in 1..3 /\ flush.key \in Keys
      /\ flush.i = 0 /\ flush.inserted \in Nat /\ flush.inserted <= m
  BY <1>0 DEF GlInv, Counted, Flushes
<1>2. /\ flush' \in Flushes /\ flush'.step = "build" /\ flush'.key = flush.key
      /\ flush'.extent = flush.extent /\ flush'.i = flush.i /\ flush'.inserted = flush.inserted
  BY <1>1 DEF DestroyOld, Goto, Flushes, FlushSteps
<1>3. UNCHANGED <<m, scaler, nativeOff, pending, failed, fresh, trial, view, asked, flips, back, work>>
  BY DEF DestroyOld, profile, setup, gameVars
<1>4. /\ DOMAIN contexts' = DOMAIN contexts \ {flush.key}
      /\ \A j \in DOMAIN contexts' : contexts'[j] = contexts[j]
      /\ backing' \in [Keys -> Nat \cup {None}] /\ DOMAIN names' = Keys
      /\ Owned' /\ Pinned'
  BY <1>1, <1>2, <1>3, StillNothing, Destroys DEF DestroyOld, SetupSteps
<1>5. GlTypes'
  BY <1>2, <1>3, <1>4 DEF GlInv, GlTypes
<1>6. Built'
  BY <1>2, <1>3, <1>4 DEF GlInv, Built, Working, SetupSteps
<1>7. Counted'
  BY <1>1, <1>2, <1>3 DEF GlInv, Counted, SetupSteps
<1>8. Drawn'
  BY <1>1, <1>2, <1>3 DEF GlInv, Drawn, SetupSteps
<1>9. Turns'
  BY <1>1, <1>2, <1>3 DEF GlInv, Turns, GpuInSwap, GlReads, SurfacesInTurn
<1> QED
  BY <1>4, <1>5, <1>6, <1>7, <1>8, <1>9 DEF GlInv

(* a failure,                                                               *)
LEMMA FailKeeps == GlInv /\ Fail => GlInv'
<1> SUFFICES ASSUME GlInv, Fail PROVE GlInv'
  OBVIOUS
<1>0. flush \in Flushes /\ flush.step = "fail" /\ m \in 1..3
  BY InSwap DEF Fail, At, GlInv, GlTypes
<1>1. /\ flush \in Flushes /\ flush.step = "fail" /\ m \in 1..3 /\ flush.key \in Keys
      /\ flush.i \in Nat /\ flush.inserted \in Nat /\ flush.i <= flush.inserted /\ flush.inserted <= m
  BY <1>0 DEF GlInv, Counted, Flushes
<1>2. /\ flush' \in Flushes /\ flush'.step = "native" /\ flush'.key = flush.key
      /\ flush'.extent = flush.extent /\ flush'.i = flush.i /\ flush'.inserted = flush.inserted
  BY <1>1 DEF Fail, Goto, Flushes, FlushSteps
<1>3. /\ UNCHANGED <<m, scaler, nativeOff, pending, fresh, trial, view, asked, flips, back, work>>
      /\ flush.key \in failed' /\ \A o \in work : o.key = flush.key => o.by # "gpu"
  BY DEF Fail, profile, setup, gameVars, Settled, Pending
<1>4. /\ DOMAIN contexts' = DOMAIN contexts \ {flush.key}
      /\ \A j \in DOMAIN contexts' : contexts'[j] = contexts[j]
      /\ backing' \in [Keys -> Nat \cup {None}] /\ DOMAIN names' = Keys
      /\ Owned' /\ Pinned'
  BY <1>1, <1>2, <1>3, StillNothing, Destroys DEF Fail, SetupSteps
<1>5. GlTypes'
  BY <1>2, <1>3, <1>4 DEF GlInv, GlTypes
<1>6. Built'
  BY <1>2, <1>3, <1>4 DEF GlInv, Built, Working, SetupSteps
<1>7. Counted'
  BY <1>1, <1>2, <1>3 DEF GlInv, Counted, SetupSteps
<1>8. Drawn'
  BY <1>1, <1>2, <1>3 DEF GlInv, Drawn, SetupSteps
<1>9. Turns'
  BY <1>1, <1>2, <1>3 DEF GlInv, Turns, GpuInSwap, GlReads, SurfacesInTurn
<1> QED
  BY <1>4, <1>5, <1>6, <1>7, <1>8, <1>9 DEF GlInv

-----------------------------------------------------------------------------
(* The game, OpenGL, the GPU and the build threads.                         *)
LEMMA Between ==
  ASSUME GlInv, UNCHANGED <<m, flush, contexts, failed, back, work>>, GlTypes', Owned', Pinned'
  PROVE  GlInv'
<1>1. Built' /\ Counted'
  BY DEF GlInv, Built, Counted, Mine
<1>2. Drawn'
  BY DEF GlInv, Drawn, SetupSteps
<1>3. Turns'
  BY DEF GlInv, Turns, GpuInSwap, GlReads, SurfacesInTurn, ShownBefore
<1> QED
  BY <1>1, <1>2, <1>3 DEF GlInv

(* What the front has of its contexts stays.                                *)
LEMMA SameOwned ==
  ASSUME GlInv, UNCHANGED <<m, flush, contexts, fresh, trial, names, stale>>
  PROVE  Owned'
<1>1. SettingUp'
  BY DEF GlInv, Owned, SettingUp, IsContext
<1>2. InSetup' = InSetup
  BY DEF InSetup, Held
<1> QED
  BY <1>1, <1>2 DEF GlInv, Owned

(* and the beginning of a swap.                                             *)
LEMMA FlushKeeps == ASSUME GlInv, NEW k \in Keys, Flush(k) PROVE GlInv'
<1>1. view[k] \in Views /\ view[k].extent \in Nat /\ view[k].shown \in Nat
  BY GlAssumption DEF GlInv, GlTypes
<1>2. /\ flush' \in Flushes /\ flush'.step = "route" /\ flush'.key = k
      /\ flush'.i = 0 /\ flush'.inserted = 0
  BY <1>1 DEF Flush, Flushes, FlushSteps
<1>3. /\ flush.step = "none"
      /\ UNCHANGED <<m, scaler, view, contexts, pending, failed, fresh, trial, backing, asked, names, stale, work>>
      /\ back' = [back EXCEPT ![k] = "frame"]
  BY DEF Flush, NoFlush, profile, front, setup, gameVars
<1>4. GlTypes' /\ Owned' /\ Pinned'
  BY <1>1, <1>2, <1>3, OnlyMoves DEF GlInv, GlTypes, SetupSteps
<1>5. Built'
  BY <1>2, <1>3 DEF GlInv, Built, Working, SetupSteps
<1>6. Counted'
  BY <1>2, <1>3 DEF GlInv, GlTypes, Counted
<1>7. Drawn'
  BY <1>2, <1>3 DEF GlInv, GlTypes, Drawn
<1>8. Turns'
  BY <1>2, <1>3 DEF GlInv, Turns, GpuInSwap, GlReads, SurfacesInTurn
<1> QED
  BY <1>4, <1>5, <1>6, <1>7, <1>8 DEF GlInv

(* The game's resize of a view keeps it,                                    *)
LEMMA ResizeViewKeeps == ASSUME GlInv, NEW k \in Keys, ResizeView(k) PROVE GlInv'
<1>1. /\ UNCHANGED <<m, scaler, contexts, pending, failed, fresh, trial, flush, asked, backing, back, names, work, stale>>
      /\ view' \in [Keys -> Views]
  BY DEF ResizeView, profile, front, setup, GlInv, GlTypes
<1>2. GlTypes' /\ Owned' /\ Pinned'
  BY <1>1, SameOwned DEF GlInv, GlTypes, Pinned, HasUp
<1> QED
  BY <1>1, <1>2, Between

(* so does its own size for the surface,                                    *)
LEMMA SetBackingKeeps == ASSUME GlInv, NEW k \in Keys, SetBacking(k) PROVE GlInv'
<1>1. PICK size \in {None} \cup {v.extent : v \in Views} :
        /\ backing' = [backing EXCEPT ![k] = size]
        /\ asked' = [asked EXCEPT ![k] = @ \cup {size}]
  BY DEF SetBacking
<1>2. size \in Nat \cup {None}
  BY GlAssumption
<1>3. UNCHANGED <<m, scaler, contexts, pending, failed, fresh, trial, flush, view, back, names, work, stale>>
  BY DEF SetBacking, profile, front, setup
<1>4. GlTypes'
  BY <1>1, <1>2, <1>3 DEF GlInv, GlTypes
<1>5. Owned'
  BY <1>3, SameOwned
<1>6. \A j \in Keys : asked[j] \subseteq asked'[j] /\ (j # k => backing'[j] = backing[j])
  BY <1>1 DEF GlInv, GlTypes
<1>7. backing'[k] \in asked'[k]
  BY <1>1 DEF GlInv, GlTypes
<1>8. \A j \in DOMAIN contexts : j \in Keys
  BY DEF GlInv, GlTypes
<1>9. Pinned'
  BY <1>3, <1>6, <1>7, <1>8 DEF GlInv, Pinned, HasUp
<1> QED
  BY <1>3, <1>4, <1>5, <1>9, Between

(* an engine that is built in the background,                               *)
LEMMA NativeBuiltKeeps == ASSUME GlInv, NEW k \in Keys, NativeBuilt(k) PROVE GlInv'
<1>1. UNCHANGED <<m, scaler, contexts, failed, fresh, trial, flush, view, asked, backing, back, names, work, stale>>
  BY DEF NativeBuilt, profile, setup, gameVars
<1>2. DOMAIN pending' = DOMAIN pending /\ \A j \in DOMAIN pending : IsPending(pending'[j])
  BY DEF NativeBuilt, GlInv, GlTypes, IsPending
<1>3. GlTypes' /\ Owned' /\ Pinned'
  BY <1>1, <1>2, SameOwned DEF GlInv, GlTypes, Pinned, HasUp
<1> QED
  BY <1>1, <1>3, Between

(* What is run is no longer waited for.                                     *)
LEMMA FewerInTurn ==
  ASSUME GlInv, UNCHANGED flush, work' \subseteq work
  PROVE  Turns'
  BY DEF GlInv, Turns, GpuInSwap, GlReads, SurfacesInTurn, ShownBefore

(* the work that OpenGL and the GPU get done,                               *)
LEMMA RunsKeep == ASSUME GlInv, NEW by, NEW k, Runs(by, k) PROVE GlInv'
<1>1. /\ UNCHANGED <<m, scaler, contexts, pending, failed, fresh, trial, flush, view, asked, backing, back, names, stale>>
      /\ work' \subseteq work
  BY DEF Runs, profile, front, setup, gameVars
<1>2. GlTypes' /\ Owned' /\ Pinned'
  BY <1>1, SameOwned DEF GlInv, GlTypes, Pinned, HasUp
<1>3. Built' /\ Counted'
  BY <1>1 DEF GlInv, Built, Counted, Mine
<1>4. Drawn'
  BY <1>1 DEF GlInv, Drawn, SetupSteps
<1> QED
  BY <1>1, <1>2, <1>3, <1>4, FewerInTurn DEF GlInv

(* and the end of a context of the game, whose address comes back.          *)
LEMMA FreeContextKeeps == ASSUME GlInv, NEW k \in Keys, FreeContext(k) PROVE GlInv'
<1>1. /\ UNCHANGED <<m, scaler, contexts, pending, failed, fresh, trial, flush, view, asked>>
      /\ work' \subseteq work /\ flush.key # k
      /\ names' = [names EXCEPT ![k] = {}] /\ backing' = [backing EXCEPT ![k] = None]
      /\ back' = [back EXCEPT ![k] = "frame"]
      /\ stale' = stale \cup ({k} \cap DOMAIN contexts)
  BY DEF FreeContext, NotIn, profile, front, setup
<1>2. GlTypes'
  BY <1>1 DEF GlInv, GlTypes
<1>3. \A j \in Keys : names'[j] = IF j = k THEN {} ELSE names[j]
  BY <1>1 DEF GlInv, GlTypes
<1>4. Owned'
  <2>1. SettingUp' /\ InSetup' = InSetup
    BY <1>1 DEF GlInv, Owned, SettingUp, IsContext, InSetup, Held
  <2> QED
    BY <1>1, <1>3, <2>1 DEF GlInv, GlTypes, Owned
<1>5. Pinned'
  BY <1>1 DEF GlInv, GlTypes, Pinned, HasUp
<1>6. Built' /\ Counted'
  BY <1>1 DEF GlInv, Built, Counted, Mine
<1>7. Drawn'
  BY <1>1 DEF GlInv, GlTypes, Drawn
<1> QED
  BY <1>1, <1>2, <1>4, <1>5, <1>6, <1>7, FewerInTurn DEF GlInv

-----------------------------------------------------------------------------
(* The setup of a context.  None stands for this swap, so what is made is   *)
(* all there is.                                                            *)
SetsUp ==
  /\ flush \in Flushes /\ flush.step \in {"build"} \cup SetupSteps
  /\ flush' \in Flushes
  /\ flush'.step \in {"build", "native", "fail", "slots"} \cup SetupSteps
  /\ flush'.key = flush.key /\ flush'.extent = flush.extent
  /\ flush'.i = flush.i /\ flush'.inserted = flush.inserted
  /\ UNCHANGED <<m, scaler, failed, view, asked, backing, back, work, stale>>
  /\ DOMAIN pending' \subseteq Keys /\ \A k \in DOMAIN pending' : IsPending(pending'[k])
  /\ DOMAIN names' = Keys

(* Going on within a setup, or to its end.                                  *)
LEMMA GoesOn ==
  ASSUME flush \in Flushes, NEW step \in FlushSteps, Goto(step)
  PROVE  /\ flush' \in Flushes /\ flush'.step = step
         /\ flush'.key = flush.key /\ flush'.extent = flush.extent
         /\ flush'.i = flush.i /\ flush'.inserted = flush.inserted
  BY DEF Goto, Flushes

(* Nothing else is disturbed by a setup.                                    *)
LEMMA SetupKeeps ==
  ASSUME GlInv, SetsUp, DOMAIN contexts' \subseteq Keys,
         \A k \in DOMAIN contexts' : IsContext(contexts'[k]), Built', Owned', Pinned'
  PROVE  GlInv'
<1>1. /\ flush.key \in Keys /\ m \in 1..3 /\ flush.i = 0
      /\ flush.inserted \in Nat /\ flush.inserted <= m /\ back[flush.key] = "frame"
  BY DEF GlInv, GlTypes, Counted, Drawn, Flushes, SetsUp, SetupSteps
<1>2. GlTypes'
  BY DEF GlInv, GlTypes, SetsUp
<1>3. Counted'
  BY <1>1 DEF Counted, SetsUp, SetupSteps
<1>4. Drawn'
  BY <1>1 DEF Drawn, SetsUp, SetupSteps
<1>5. Turns'
  BY <1>1 DEF GlInv, Turns, GpuInSwap, GlReads, SurfacesInTurn, SetsUp, SetupSteps
<1> QED
  BY <1>2, <1>3, <1>4, <1>5 DEF GlInv

(* Until the context is installed the others stand as they were.            *)
LEMMA StillSetsUp ==
  ASSUME GlInv, SetsUp, flush'.step # "slots", UNCHANGED contexts, SettingUp',
         \A k \in Keys : names'[k] = IF k = flush.key THEN InSetup' ELSE names[k]
  PROVE  GlInv'
<1>1. flush.key \in Keys /\ flush.key \notin DOMAIN contexts /\ flush'.key = flush.key
  BY DEF GlInv, Built, SetsUp, Flushes
<1>2. Built'
  BY <1>1 DEF GlInv, Built, SetsUp, Working, SetupSteps
<1>3. Owned'
  <2>1. UNCHANGED <<contexts, stale>>
    BY DEF SetsUp
  <2>2. stale \subseteq DOMAIN contexts /\ \A k \in stale : names[k] = {}
    BY DEF GlInv, Owned
  <2>3. ASSUME NEW k \in Keys, k \notin stale
        PROVE  names'[k] = IF k \in DOMAIN contexts THEN Held(contexts[k])
                           ELSE IF k = flush.key THEN InSetup' ELSE {}
    BY <1>1, <2>3 DEF GlInv, Owned
  <2>4. \A k \in stale : names'[k] = {}
    BY <1>1, <2>2 DEF GlInv, GlTypes
  <2> QED
    BY <1>1, <2>1, <2>2, <2>3, <2>4 DEF Owned, Held
<1>4. Pinned'
  BY DEF GlInv, Pinned, HasUp, SetsUp
<1>5. DOMAIN contexts' \subseteq Keys /\ \A k \in DOMAIN contexts' : IsContext(contexts'[k])
  BY DEF GlInv, GlTypes
<1> QED
  BY <1>2, <1>3, <1>4, <1>5, SetupKeeps

(* What a swap in its setup knows.                                          *)
LEMMA InSetupIs ==
  ASSUME GlInv, NEW step \in {"build"} \cup SetupSteps, At(step)
  PROVE  /\ flush \in Flushes /\ flush.step = step /\ flush.key \in Keys /\ m \in 1..3
         /\ flush.key \notin DOMAIN contexts /\ flush.key \notin stale
         /\ names[flush.key] = InSetup
         /\ DOMAIN names = Keys /\ DOMAIN pending \subseteq Keys
         /\ \A k \in DOMAIN pending : IsPending(pending[k])
<1>1. flush \in Flushes /\ flush.step = step
  BY InSwap DEF At, GlInv, SetupSteps
<1>2. flush.key \in Keys /\ flush.key \notin DOMAIN contexts
  BY <1>1 DEF Flushes, GlInv, Built
<1> QED
  BY <1>1, <1>2 DEF GlInv, GlTypes, Owned

(* A swap that builds ends at the game's frame, at a failure, in a setup,   *)
(* or tries the other engine.                                               *)
LEMMA Builds ==
  ASSUME GlInv, At("build"), NEW engine, NEW first \in {"surfaces", "up", "install"},
         UNCHANGED <<m, scaler, contexts, failed, trial, view, asked, backing, back, names, work, stale>>,
         DOMAIN pending' \subseteq Keys, \A k \in DOMAIN pending' : IsPending(pending'[k]),
         \/ UNCHANGED <<flush, fresh>> \/ BuildLater \/ BuildFails
         \/ Begun(engine, first) /\ (m > 1 => engine.extent = flush.extent)
  PROVE  GlInv'
<1>1. flush \in Flushes /\ flush.step = "build" /\ flush.key \in Keys /\ DOMAIN names = Keys
  BY InSetupIs
<1>2. fresh = NoContext /\ trial = {} /\ InSetup = {} /\ Held(NoContext) = {}
  BY <1>1, NothingMade DEF SetupSteps
<1>3. names[flush.key] = {}
  BY <1>2, InSetupIs
<1>4. CASE UNCHANGED <<flush, fresh>> \/ BuildLater \/ BuildFails
  <2>1. /\ flush' \in Flushes /\ flush'.step \in {"build", "native", "fail"}
        /\ flush'.key = flush.key /\ flush'.extent = flush.extent
        /\ flush'.i = flush.i /\ flush'.inserted = flush.inserted
    BY <1>1, <1>4 DEF BuildLater, BuildFails, Goto, Flushes, FlushSteps
  <2>2. fresh' = fresh
    BY <1>4 DEF BuildLater, BuildFails
  <2>3. SetsUp
    BY <1>1, <2>1 DEF SetsUp
  <2>4. SettingUp' /\ InSetup' = {}
    BY <1>1, <2>1, <2>2, StillNothing DEF SetupSteps
  <2> QED
    BY <1>3, <2>1, <2>3, <2>4, StillSetsUp
<1>5. CASE Begun(engine, first) /\ (m > 1 => engine.extent = flush.extent)
  <2>1. /\ flush' \in Flushes /\ flush'.step = first
        /\ flush'.key = flush.key /\ flush'.extent = flush.extent
        /\ flush'.i = flush.i /\ flush'.inserted = flush.inserted
    BY <1>1, <1>5, GoesOn DEF Begun, FlushSteps, SetupSteps
  <2>2. SetsUp
    BY <1>1, <2>1 DEF SetsUp, SetupSteps
  <2>3. fresh' = [extent |-> flush.extent, shown |-> flush.shown, engine |-> engine,
                  surfaces |-> {}, up |-> None]
    BY <1>5 DEF Begun, NoContext
  <2>4. IsContext(fresh') /\ Held(fresh') = {}
    BY <1>1, <2>3 DEF IsContext, Flushes, Held
  <2>5. InSetup' = {}
    BY <1>2, <2>3 DEF InSetup, Held
  <2>6. SettingUp'
    BY <1>2, <1>5, <2>1, <2>3, <2>4 DEF SettingUp, SetupSteps
  <2> QED
    BY <1>3, <2>1, <2>2, <2>5, <2>6, StillSetsUp
<1> QED
  BY <1>4, <1>5

(* A context without an engine of its own keeps it,                         *)
LEMMA BuildPlainKeeps == GlInv /\ BuildPlain => GlInv'
<1> SUFFICES ASSUME GlInv, BuildPlain PROVE GlInv'
  OBVIOUS
<1>1. At("build") /\ m = 1 /\ DOMAIN pending \subseteq Keys /\ \A k \in DOMAIN pending : IsPending(pending[k])
  BY DEF BuildPlain, GlInv, GlTypes
<1>2. UNCHANGED <<m, scaler, contexts, failed, trial, view, asked, backing, back, names, work, stale, pending>>
  BY DEF BuildPlain, profile, gameVars
<1>3. Begun("none", "up") \/ Begun("none", "install")
  BY DEF BuildPlain
<1> QED
  BY <1>1, <1>2, <1>3, Builds

(* one of the Vulkan generator does,                                        *)
LEMMA BuildVulkanKeeps == GlInv /\ BuildVulkan => GlInv'
<1> SUFFICES ASSUME GlInv, BuildVulkan PROVE GlInv'
  OBVIOUS
<1> DEFINE engine == [kind |-> "vulkan", extent |-> flush.extent]
<1>1. At("build") /\ DOMAIN pending \subseteq Keys /\ \A k \in DOMAIN pending : IsPending(pending[k])
  BY DEF BuildVulkan, GlInv, GlTypes
<1>2. /\ UNCHANGED <<m, scaler, contexts, failed, trial, view, asked, backing, back, names, work, stale, pending>>
      /\ BuildLater \/ BuildFails \/ Begun(engine, "surfaces")
  BY DEF BuildVulkan, profile, gameVars
<1>3. engine.extent = flush.extent
  OBVIOUS
<1> HIDE DEF engine
<1> QED
  BY <1>1, <1>2, <1>3, Builds

(* and one that waits for the native generator.                             *)
LEMMA BuildNativeKeeps == GlInv /\ BuildNative => GlInv'
<1> SUFFICES ASSUME GlInv, BuildNative PROVE GlInv'
  OBVIOUS
<1> DEFINE k == flush.key
           rest == Restrict(pending, DOMAIN pending \ {k})
           engine == [kind |-> "native", extent |-> pending[k].extent]
<1>1. At("build") /\ k \in Keys
  BY InSetupIs DEF BuildNative
<1>2. UNCHANGED <<m, scaler, contexts, failed, trial, view, asked, backing, back, names, work, stale>>
  BY DEF BuildNative, profile, gameVars
<1>3. DOMAIN rest \subseteq Keys /\ \A j \in DOMAIN rest : IsPending(rest[j])
  BY DEF Restrict, GlInv, GlTypes
<1>4. CASE UNCHANGED pending /\ (BuildLater \/ BuildFails)
  BY <1>1, <1>2, <1>4, Builds DEF GlInv, GlTypes
<1>5. CASE BuildLater /\ pending' = Put(pending, k, [extent |-> flush.extent, built |-> "no"])
  <2>1. DOMAIN pending' \subseteq Keys /\ \A j \in DOMAIN pending' : IsPending(pending'[j])
    BY <1>1, <1>5 DEF Put, GlInv, GlTypes, IsPending
  <2> QED
    BY <1>1, <1>2, <1>5, <2>1, Builds
<1>6. CASE Awaited /\ pending' = rest /\ Begun(engine, "surfaces")
  <2>1. engine.extent = flush.extent
    BY <1>6 DEF Awaited, Fits
  <2> HIDE DEF engine
  <2>2. DOMAIN pending' \subseteq Keys /\ \A j \in DOMAIN pending' : IsPending(pending'[j])
    BY <1>3, <1>6
  <2> QED
    BY <1>1, <1>2, <1>6, <2>1, <2>2, Builds
<1>7. CASE pending' = rest /\ UNCHANGED <<flush, fresh>>
  <2>1. DOMAIN pending' \subseteq Keys /\ \A j \in DOMAIN pending' : IsPending(pending'[j])
    BY <1>3, <1>7
  <2> QED
    BY <1>1, <1>2, <1>7, <2>1, Builds
<1> QED
  BY <1>4, <1>5, <1>6, <1>7 DEF BuildNative

(* A framebuffer is made for a surface that there is none of yet.           *)
LEMMA NamesTry ==
  ASSUME GlInv, SetsUp, NEW s, Names(s), UNCHANGED <<contexts, fresh>>, flush.step \in {"surfaces", "up"},
         \/ s = Out /\ fresh.up = None
         \/ s \in 0..m \ fresh.surfaces
  PROVE  GlInv'
<1>1. /\ flush.key \in Keys /\ DOMAIN names = Keys /\ names[flush.key] = InSetup /\ m \in 1..3
  BY InSetupIs DEF At, SetupSteps
<1>2. trial' = {s} /\ names' = [names EXCEPT ![flush.key] = @ \cup {s}] /\ flush'.step = "check"
  BY GoesOn DEF Names, SetsUp, FlushSteps, SetupSteps
<1>3. trial = {}
  BY DEF GlInv, Owned, SettingUp
<1>4. InSetup' = InSetup \cup {s}
  BY <1>2, <1>3 DEF InSetup, Held
<1>5. SettingUp'
  <2>1. m' = m /\ flush'.extent = flush.extent
    BY DEF SetsUp
  <2>2. flush.step \in SetupSteps
    BY DEF SetupSteps
  <2> QED
    BY <1>2, <2>1, <2>2 DEF GlInv, Owned, SettingUp, IsContext, SetupSteps
<1> QED
  BY <1>1, <1>2, <1>4, <1>5, StillSetsUp

(* A setup that goes on without anything made goes on with what it has.     *)
LEMMA SetupMoves ==
  ASSUME GlInv, SetsUp, UNCHANGED <<contexts, fresh, trial, names>>,
         flush.step \in {"surfaces", "up", "engine"}, flush'.step \in {"undo", "install", "up"},
         flush'.step = "up" => flush.step = "engine"
  PROVE  GlInv'
<1>1. /\ flush.key \in Keys /\ names[flush.key] = InSetup
  BY InSetupIs DEF At, SetupSteps
<1>2. InSetup' = InSetup
  BY DEF InSetup, Held
<1>3. SettingUp'
  <2>1. m' = m /\ flush'.extent = flush.extent
    BY DEF SetsUp
  <2>2. flush.step \in SetupSteps /\ flush'.step \in SetupSteps
    BY DEF SetupSteps
  <2>3. trial = {}
    BY DEF GlInv, Owned, SettingUp
  <2> QED
    BY <2>1, <2>2, <2>3 DEF GlInv, Owned, SettingUp, IsContext
<1> QED
  BY <1>1, <1>2, <1>3, StillSetsUp

(* The next surface of a setup keeps it,                                    *)
LEMMA NextSurfaceKeeps == GlInv /\ NextSurface => GlInv'
<1> SUFFICES ASSUME GlInv, NextSurface PROVE GlInv'
  OBVIOUS
<1>1. /\ flush \in Flushes /\ flush.step = "surfaces" /\ m \in 1..3 /\ DOMAIN names = Keys
      /\ DOMAIN pending \subseteq Keys /\ \A k \in DOMAIN pending : IsPending(pending[k])
  BY InSetupIs DEF NextSurface, SetupSteps
<1>2. UNCHANGED <<m, scaler, contexts, failed, pending, fresh, view, asked, backing, back, work, stale>>
  BY DEF NextSurface, profile, gameVars
<1>3. CASE Goto("undo") /\ UNCHANGED <<trial, names>>
  <2>1. SetsUp /\ flush'.step = "undo"
    BY <1>1, <1>2, <1>3, GoesOn DEF SetsUp, FlushSteps, SetupSteps
  <2> QED
    BY <1>1, <1>2, <1>3, <2>1, SetupMoves
<1>4. ASSUME NEW s \in Surfaces \ fresh.surfaces, Names(s)
      PROVE  GlInv'
  <2>1. s \in 0..m \ fresh.surfaces
    BY <1>1 DEF Surfaces
  <2>2. SetsUp
    BY <1>1, <1>2, <1>4, GoesOn DEF SetsUp, Names, FlushSteps, SetupSteps
  <2> QED
    BY <1>1, <1>2, <1>4, <2>1, <2>2, NamesTry
<1> QED
  BY <1>3, <1>4 DEF NextSurface

(* so does the output of MetalFX,                                           *)
LEMMA NewUpKeeps == GlInv /\ NewUp => GlInv'
<1> SUFFICES ASSUME GlInv, NewUp PROVE GlInv'
  OBVIOUS
<1>1. /\ flush \in Flushes /\ flush.step = "up" /\ DOMAIN names = Keys
      /\ DOMAIN pending \subseteq Keys /\ \A k \in DOMAIN pending : IsPending(pending[k])
  BY InSetupIs DEF NewUp, SetupSteps
<1>2. UNCHANGED <<m, scaler, contexts, failed, pending, fresh, view, asked, backing, back, work, stale>>
  BY DEF NewUp, profile, gameVars
<1>3. CASE Goto("install") /\ UNCHANGED <<trial, names>>
  <2>1. SetsUp /\ flush'.step = "install"
    BY <1>1, <1>2, <1>3, GoesOn DEF SetsUp, FlushSteps, SetupSteps
  <2> QED
    BY <1>1, <1>2, <1>3, <2>1, SetupMoves
<1>4. CASE Names(Out)
  <2>1. fresh.up = None
    BY <1>1 DEF GlInv, Owned, SettingUp
  <2>2. SetsUp
    BY <1>1, <1>2, <1>4, GoesOn DEF SetsUp, Names, FlushSteps, SetupSteps
  <2> QED
    BY <1>1, <1>2, <1>4, <2>1, <2>2, NamesTry
<1> QED
  BY <1>3, <1>4 DEF NewUp

(* the commands and wrapper of a generator,                                 *)
LEMMA NewEngineKeeps == GlInv /\ NewEngine => GlInv'
<1> SUFFICES ASSUME GlInv, NewEngine PROVE GlInv'
  OBVIOUS
<1>1. /\ flush \in Flushes /\ flush.step = "engine" /\ DOMAIN names = Keys
      /\ DOMAIN pending \subseteq Keys /\ \A k \in DOMAIN pending : IsPending(pending[k])
  BY InSetupIs DEF NewEngine, SetupSteps
<1>2. UNCHANGED <<m, scaler, contexts, failed, pending, fresh, trial, view, asked, backing, back, names, work, stale>>
  BY DEF NewEngine, profile, front, setup, gameVars
<1>3. Goto("up") \/ Goto("install") \/ Goto("undo")
  BY DEF NewEngine
<1>4. SetsUp /\ flush'.step \in {"up", "install", "undo"}
  BY <1>1, <1>2, <1>3, GoesOn DEF SetsUp, FlushSteps, SetupSteps
<1> QED
  BY <1>1, <1>2, <1>4, SetupMoves

(* a surface that is found to work, or is not,                              *)
LEMMA SurfaceMadeKeeps == GlInv /\ SurfaceMade => GlInv'
<1> SUFFICES ASSUME GlInv, SurfaceMade PROVE GlInv'
  OBVIOUS
<1>1. /\ flush \in Flushes /\ flush.step = "check" /\ flush.key \in Keys /\ m \in 1..3 /\ DOMAIN names = Keys
      /\ names[flush.key] = InSetup
      /\ DOMAIN pending \subseteq Keys /\ \A k \in DOMAIN pending : IsPending(pending[k])
  BY InSetupIs DEF SurfaceMade, SetupSteps
<1>2. UNCHANGED <<m, scaler, contexts, failed, pending, view, asked, backing, back, work, stale>>
  BY DEF SurfaceMade, profile, gameVars
<1>3. trial' = {}
  BY DEF SurfaceMade
<1>4. /\ IsContext(fresh) /\ fresh.surfaces \subseteq 0..m /\ fresh.up \in {None, Unpinned}
      /\ fresh.extent = flush.extent /\ (m > 1 => fresh.engine.extent = flush.extent)
      /\ m > 1 => fresh.up = None
      /\ \/ trial = {Out} /\ fresh.up = None
         \/ \E s \in 0..m \ fresh.surfaces : trial = {s}
  BY <1>1 DEF GlInv, Owned, SettingUp, SetupSteps
<1>5. Out \notin 0..m
  BY <1>1 DEF Out
<1>6. Unpinned # None
  <2>1. Unpinned \in [pinned : BOOLEAN, prior : Nat \cup {None}]
    BY DEF Unpinned
  <2> QED
    BY <2>1, GlAssumption
<1>7. CASE UNCHANGED fresh /\ names' = [names EXCEPT ![flush.key] = @ \ trial]
           /\ (Goto("install") \/ Goto("undo"))
  <2>1. SetsUp /\ flush'.step \in {"install", "undo"}
    BY <1>1, <1>2, <1>7, GoesOn DEF SetsUp, FlushSteps, SetupSteps
  <2>2. InSetup' = Held(fresh) /\ InSetup = Held(fresh) \cup trial
    BY <1>3, <1>7 DEF InSetup, Held
  <2>3. Held(fresh) \cap trial = {}
    BY <1>4, <1>5 DEF Held
  <2>4. SettingUp'
    <3>1. m' = m /\ flush'.extent = flush.extent
      BY <2>1 DEF SetsUp
    <3> QED
      BY <1>3, <1>4, <1>7, <2>1, <3>1 DEF SettingUp, SetupSteps, IsContext
  <2> QED
    BY <1>1, <1>2, <1>7, <2>1, <2>2, <2>3, <2>4, StillSetsUp
<1>8. CASE /\ trial = {Out} /\ fresh' = [fresh EXCEPT !.up = Unpinned] /\ UNCHANGED names
           /\ Goto("install") \/ (m = 1 /\ Goto("surfaces"))
  <2>1. SetsUp /\ (flush'.step = "install" \/ (m = 1 /\ flush'.step = "surfaces"))
    BY <1>1, <1>2, <1>8, GoesOn DEF SetsUp, FlushSteps, SetupSteps
  <2>2. fresh' = [extent |-> fresh.extent, shown |-> fresh.shown, engine |-> fresh.engine,
                  surfaces |-> fresh.surfaces, up |-> Unpinned]
    BY <1>4, <1>8 DEF IsContext
  <2>3. Held(fresh') = Held(fresh) \cup {Out}
    BY <1>6, <2>2 DEF Held
  <2>4. InSetup' = InSetup
    BY <1>3, <1>8, <2>3 DEF InSetup, Held
  <2>5. SettingUp'
    <3>1. m' = m /\ flush'.extent = flush.extent
      BY <2>1 DEF SetsUp
    <3>2. IsContext(fresh')
      BY <1>4, <2>2 DEF IsContext
    <3> QED
      BY <1>1, <1>3, <1>4, <2>1, <2>2, <3>1, <3>2 DEF SettingUp, SetupSteps
  <2> QED
    BY <1>1, <1>2, <1>8, <2>1, <2>4, <2>5, StillSetsUp
<1>9. CASE /\ trial # {Out} /\ fresh' = [fresh EXCEPT !.surfaces = @ \cup trial] /\ UNCHANGED names
           /\ Goto("surfaces") \/ Goto("install") \/ (m # 1 /\ Goto("engine"))
  <2>1. SetsUp /\ (flush'.step \in {"surfaces", "install"} \/ (m # 1 /\ flush'.step = "engine"))
    BY <1>1, <1>2, <1>9, GoesOn DEF SetsUp, FlushSteps, SetupSteps
  <2>2. fresh' = [extent |-> fresh.extent, shown |-> fresh.shown, engine |-> fresh.engine,
                  surfaces |-> fresh.surfaces \cup trial, up |-> fresh.up]
    BY <1>4, <1>9 DEF IsContext
  <2>3. Held(fresh') = Held(fresh) \cup trial
    BY <2>2 DEF Held
  <2>4. InSetup' = InSetup
    BY <1>3, <1>9, <2>3 DEF InSetup, Held
  <2>5. SettingUp'
    <3>1. m' = m /\ flush'.extent = flush.extent
      BY <2>1 DEF SetsUp
    <3>2. IsContext(fresh')
      BY <1>4, <2>2 DEF IsContext
    <3>3. fresh'.surfaces \subseteq 0..m
      BY <1>4, <1>9, <2>2
    <3> QED
      BY <1>1, <1>3, <1>4, <2>1, <2>2, <3>1, <3>2, <3>3 DEF SettingUp, SetupSteps
  <2> QED
    BY <1>1, <1>2, <1>9, <2>1, <2>4, <2>5, StillSetsUp
<1>10. \/ UNCHANGED fresh /\ names' = [names EXCEPT ![flush.key] = @ \ trial]
          /\ (Goto("install") \/ Goto("undo"))
       \/ /\ trial = {Out} /\ fresh' = [fresh EXCEPT !.up = Unpinned] /\ UNCHANGED names
          /\ Goto("install") \/ (m = 1 /\ Goto("surfaces"))
       \/ /\ trial # {Out} /\ fresh' = [fresh EXCEPT !.surfaces = @ \cup trial] /\ UNCHANGED names
          /\ Goto("surfaces") \/ Goto("install") \/ (m # 1 /\ Goto("engine"))
  BY <1>1 DEF SurfaceMade
<1> QED
  BY <1>7, <1>8, <1>9, <1>10

(* the taking apart of what was made,                                       *)
LEMMA UndoKeeps == GlInv /\ Undo => GlInv'
<1> SUFFICES ASSUME GlInv, Undo PROVE GlInv'
  OBVIOUS
<1>1. /\ flush \in Flushes /\ flush.step = "undo" /\ flush.key \in Keys /\ DOMAIN names = Keys
      /\ names[flush.key] = InSetup
      /\ DOMAIN pending \subseteq Keys /\ \A k \in DOMAIN pending : IsPending(pending[k])
  BY InSetupIs DEF Undo, SetupSteps
<1>2. UNCHANGED <<m, scaler, contexts, failed, pending, trial, view, asked, backing, back, work, stale>>
  BY DEF Undo, profile, gameVars
<1>3. /\ names' = [names EXCEPT ![flush.key] = @ \ Held(fresh)] /\ fresh' = NoContext
      /\ Goto("fail")
  BY DEF Undo, Undone
<1>4. SetsUp /\ flush'.step = "fail"
  BY <1>1, <1>2, <1>3, GoesOn DEF SetsUp, FlushSteps, SetupSteps
<1>5. trial = {}
  BY <1>1 DEF GlInv, Owned, SettingUp
<1>6. InSetup = Held(fresh) /\ InSetup' = {}
  BY <1>2, <1>3, <1>5 DEF InSetup, Held, NoContext
<1>7. SettingUp'
  BY <1>2, <1>3, <1>4, <1>5 DEF SettingUp, SetupSteps, IsContext, NoContext
<1> QED
  BY <1>1, <1>2, <1>3, <1>4, <1>6, <1>7, StillSetsUp

(* and the context that is installed, which nothing has pinned yet.         *)
LEMMA InstallKeeps == GlInv /\ Install => GlInv'
<1> SUFFICES ASSUME GlInv, Install PROVE GlInv'
  OBVIOUS
<1>1. /\ flush \in Flushes /\ flush.step = "install" /\ flush.key \in Keys /\ DOMAIN names = Keys
      /\ flush.key \notin DOMAIN contexts /\ flush.key \notin stale
      /\ names[flush.key] = InSetup
      /\ DOMAIN pending \subseteq Keys /\ \A k \in DOMAIN pending : IsPending(pending[k])
  BY InSetupIs DEF Install, SetupSteps
<1>2. UNCHANGED <<m, scaler, failed, pending, trial, view, asked, backing, back, names, work, stale>>
  BY DEF Install, profile, gameVars
<1>3. /\ contexts' = Put(contexts, flush.key, fresh) /\ fresh' = NoContext
      /\ Goto("native") \/ Goto("slots")
  BY DEF Install
<1>4. SetsUp /\ flush'.step \in {"native", "slots"}
  BY <1>1, <1>2, <1>3, GoesOn DEF SetsUp, FlushSteps, SetupSteps
<1>5. /\ IsContext(fresh) /\ fresh.up \in {None, Unpinned} /\ trial = {}
      /\ fresh.extent = flush.extent /\ (m > 1 => fresh.engine.extent = flush.extent)
  BY <1>1 DEF GlInv, Owned, SettingUp, SetupSteps
<1>6. /\ DOMAIN contexts' = DOMAIN contexts \cup {flush.key}
      /\ contexts'[flush.key] = fresh
      /\ \A k \in DOMAIN contexts : contexts'[k] = contexts[k]
  BY <1>1, <1>3 DEF Put
<1>7. DOMAIN contexts' \subseteq Keys /\ \A k \in DOMAIN contexts' : IsContext(contexts'[k])
  BY <1>1, <1>5, <1>6 DEF GlInv, GlTypes
<1>8. flush'.key = flush.key /\ flush'.extent = flush.extent /\ m' = m
  BY <1>4 DEF SetsUp
<1>9. Built'
  BY <1>4, <1>5, <1>6, <1>8 DEF GlInv, Built, Mine, SetupSteps
<1>10. Owned'
  <2>1. SettingUp'
    BY <1>2, <1>3, <1>4, <1>5 DEF SettingUp, SetupSteps, IsContext, NoContext
  <2>2. InSetup = Held(fresh)
    BY <1>5 DEF InSetup
  <2> QED
    BY <1>1, <1>2, <1>6, <1>8, <2>1, <2>2 DEF GlInv, Owned
<1>11. ~HasUp(flush.key) /\ \A k \in DOMAIN contexts : k # flush.key /\ (HasUp(k)' <=> HasUp(k))
  BY <1>1, <1>6 DEF HasUp
<1>12. fresh.up # None => ~fresh.up.pinned
  BY <1>5 DEF Unpinned
<1>14. Pinned'
  <2>1. \A k \in Keys : HasUp(k) => k \in DOMAIN contexts
    BY DEF HasUp
  <2>2. \A k \in Keys : None \in asked'[k]
    BY <1>2 DEF GlInv, Pinned
  <2>3. \A k \in Keys : \/ backing'[k] \in asked'[k]
                        \/ HasUp(k)' /\ contexts'[k].up.pinned /\ backing'[k] = contexts'[k].shown
    BY <1>2, <1>6, <1>11, <2>1 DEF GlInv, Pinned
  <2>4. \A k \in DOMAIN contexts' : HasUp(k)' /\ contexts'[k].up.pinned => contexts'[k].up.prior \in asked'[k]
    <3> TAKE k \in DOMAIN contexts'
    <3>1. CASE k = flush.key
      BY <1>6, <1>12, <3>1 DEF HasUp
    <3>2. CASE k # flush.key
      BY <1>2, <1>6, <1>11, <3>2 DEF GlInv, Pinned
    <3> QED
      BY <3>1, <3>2
  <2> QED
    BY <2>2, <2>3, <2>4 DEF Pinned
<1> QED
  BY <1>4, <1>7, <1>9, <1>10, <1>14, SetupKeeps

-----------------------------------------------------------------------------
(* So does every step.                                                      *)
LEMMA StepKeepsGl == GlInv /\ [Next]_vars => GlInv'
<1> SUFFICES ASSUME GlInv, [Next]_vars PROVE GlInv'
  OBVIOUS
<1>1. CASE UNCHANGED vars
  <2>1. UNCHANGED <<m, scaler, contexts, pending, failed, fresh, trial, flush, view, asked, backing, back, names, work, stale>>
    BY <1>1 DEF vars, profile, front, setup, gameVars
  <2>2. GlTypes' /\ Owned' /\ Pinned'
    BY <2>1, SameOwned DEF GlInv, GlTypes, Pinned, HasUp
  <2> QED
    BY <2>1, <2>2, Between
<1>2. CASE \E k \in Keys :
             \/ Flush(k) \/ ResizeView(k) \/ SetBacking(k) \/ FreeContext(k) \/ NativeBuilt(k)
             \/ \E by \in {"gl", "gpu"} : Runs(by, k)
  BY <1>2, FlushKeeps, ResizeViewKeeps, SetBackingKeeps, FreeContextKeeps, NativeBuiltKeeps, RunsKeep
<1>3. CASE Hook
  BY <1>3, RoutedKeeps, DestroyOldKeeps, BuildPlainKeeps, BuildNativeKeeps, BuildVulkanKeeps,
     NextSurfaceKeeps, NewUpKeeps, SurfaceMadeKeeps, NewEngineKeeps, InstallKeeps, UndoKeeps,
     SlotsKeep, CopyOutKeeps, FinishAndPinKeeps, DispatchKeeps, SettleSourceKeeps, ProduceKeeps,
     ProducedKeeps, ScaleKeeps, ScaledKeeps, BlitKeeps, SwapKeeps, SwapNativelyKeeps, FailKeeps
     DEF Hook
<1> QED
  BY <1>1, <1>2, <1>3 DEF Next

(* The invariant holds in every state of the front end.                     *)
THEOREM GlInvariant == Spec => []GlInv
<1>1. Init => GlInv
  BY InitGl
<1>2. GlInv /\ [Next]_vars => GlInv'
  BY StepKeepsGl
<1> QED
  BY <1>1, <1>2, PTL DEF Spec

(* OpenGL and the GPU never use a shared surface against each other         *)
(* (generate, show), whatever is swapped, resized, freed or fails.          *)
THEOREM GlTakesTurns == Spec => []SurfacesInTurn
<1>1. GlInv => SurfacesInTurn
  BY DEF GlInv, Turns
<1> QED
  BY <1>1, GlInvariant, PTL

(* No framebuffer is left behind (Surface::new, Up::new, Context::new,      *)
(* Context::destroy), on any path out of a setup or a frame, and none that  *)
(* is kept is gone.                                                         *)
THEOREM GlOwnsNames == Spec => []NamesOwn
<1>1. GlInv => NamesOwn
  BY DEF GlInv, Owned, NamesOwn
<1> QED
  BY <1>1, GlInvariant, PTL

(* An engine whose build took several swaps is used at the size it was      *)
(* built for only (Front::prepare).                                         *)
THEOREM GlEnginesFit == Spec => []EngineFits
<1>1. GlInv => EngineFits
  <2> SUFFICES ASSUME GlInv, flush.step \in {"copy", "dispatch", "produce"}, m > 1
               PROVE  Mine.engine.extent = flush.extent
    BY DEF EngineFits
  <2>1. flush.key \in DOMAIN contexts /\ Mine.extent = flush.extent
    BY DEF GlInv, Built, Working, SetupSteps
  <2> QED
    BY <2>1 DEF GlInv, Built, Mine
<1> QED
  BY <1>1, GlInvariant, PTL

(* A size only MetalFX asked for does not outlast it (Up::release).         *)
THEOREM GlPinsTakenBack == Spec => []PinTakenBack
<1>1. GlInv => PinTakenBack
  BY DEF GlInv, Pinned, PinTakenBack
<1> QED
  BY <1>1, GlInvariant, PTL

(* What is swapped was drawn or generated (flush_hook): the original comes  *)
(* back from its copy after a generated frame.                              *)
THEOREM GlSwapsDefined == Spec => []BackDefined
<1>1. GlInv => BackDefined
  <2> SUFFICES ASSUME GlInv, flush.step = "swap" \/ (flush.step = "native" /\ flush.key \notin failed)
               PROVE  back[flush.key] # "undefined"
    BY DEF BackDefined
  <2> QED
    BY DEF GlInv, Drawn, SetupSteps
<1> QED
  BY <1>1, GlInvariant, PTL
=============================================================================
