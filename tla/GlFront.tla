------------------------------ MODULE GlFront ------------------------------
(***************************************************************************)
(* The OpenGL front end of metal/gl.rs.  The game's buffer swaps enter      *)
(* flush_hook, which holds the one lock of the front for the whole swap:    *)
(* the frame is copied out of the back buffer into a surface that OpenGL    *)
(* and the generator share, frames are generated into others, and each is   *)
(* copied back and swapped.  OpenGL and the GPU run what they are given     *)
(* later, each in its order; a native generator is built on a thread.       *)
(*                                                                         *)
(* The game resizes its views, sets their backing size, and may free a      *)
(* context whose address a new one gets.                                    *)
(***************************************************************************)
EXTENDS Integers, Functions

CONSTANTS
  Keys,      \* addresses of OpenGL contexts
  Views,     \* what a view can be: the size it draws and the size it shows
  None,
  Reuses,    \* contexts are freed and their addresses used again
  MaxFlips   \* bound on changes of the views and their backing

ASSUME GlAssumption ==
  /\ \A v \in Views : v.extent \in Nat /\ v.shown \in Nat
  /\ None \notin Nat /\ None \notin [pinned : BOOLEAN, prior : Nat \cup {None}]
  /\ Reuses \in BOOLEAN /\ MaxFlips \in Nat

VARIABLES
  m,          \* the profile's multiplier, 1 to upscale only
  scaler,     \* the profile upscales
  nativeOff,  \* Front::native_off
  contexts,   \* Front::contexts, and at multiplier 1 Front::plain
  pending,    \* Front::pending: native generators being built
  failed,     \* Front::failed
  fresh,      \* the context that is being set up
  trial,      \* and its surface whose framebuffer is not known to work yet
  flush,      \* the swap that holds the lock
  view,       \* game: each context's view
  backing,    \* OpenGL: the surface's backing size, None when not enabled
  asked,      \* game: the backing sizes it has asked for
  back,       \* OpenGL: what the back buffer holds
  names,      \* OpenGL: the framebuffers each context has
  work,       \* what OpenGL and the GPU have not run yet
  stale,      \* keys whose state in the front is of a context that is gone
  flips

profile == <<m, scaler>>
setup == <<fresh, trial>>
front == <<nativeOff, contexts, pending, failed, setup>>
gameVars == <<view, asked, flips>>
vars == <<profile, front, flush, gameVars, backing, back, names, work, stale>>

(* A surface: 0 holds the game's frame, 1.. the generated ones, "out" what  *)
(* MetalFX made of one.  Numbers, so that they compare.                     *)
Out == 9
Op(by, k, surface, mode) == [by |-> by, key |-> k, surface |-> surface, mode |-> mode]
Pending(by, k) == {o \in work : o.by = by /\ o.key = k}

NoFlush == [step |-> "none", key |-> None]

NoContext == [extent |-> 0, shown |-> 0, engine |-> "none", surfaces |-> {}, up |-> None]

Init ==
  /\ m \in {1, 2, 3} /\ scaler \in BOOLEAN
  /\ nativeOff \in BOOLEAN
  /\ contexts = <<>> /\ pending = <<>> /\ failed = {}
  /\ fresh = NoContext /\ trial = {}
  /\ flush = NoFlush
  /\ view \in [Keys -> Views]
  /\ backing = [k \in Keys |-> None] /\ asked = [k \in Keys |-> {None}]
  /\ back = [k \in Keys |-> "frame"]
  /\ names = [k \in Keys |-> {}]
  /\ work = {} /\ flips = 0 /\ stale = {}

-----------------------------------------------------------------------------
(* The game between swaps, OpenGL, the GPU and the build threads.           *)

Flips == flips < MaxFlips /\ flips' = flips + 1

NotIn(k) == flush.key # k

ResizeView(k) ==
  /\ NotIn(k) /\ Flips
  /\ \E v \in Views \ {view[k]} : view' = [view EXCEPT ![k] = v]
  /\ UNCHANGED <<profile, front, flush, asked, backing, back, names, work, stale>>

(* The game, or wine below it, sets the backing size of its surface.        *)
SetBacking(k) ==
  /\ NotIn(k) /\ Flips
  /\ \E size \in {None} \cup {v.extent : v \in Views} :
       /\ size # backing[k]
       /\ backing' = [backing EXCEPT ![k] = size]
       /\ asked' = [asked EXCEPT ![k] = @ \cup {size}]
  /\ UNCHANGED <<profile, front, flush, view, back, names, work, stale>>

(* A context is freed, with all that is its own, and another gets its       *)
(* address.                                                                 *)
FreeContext(k) ==
  /\ Reuses /\ NotIn(k) /\ Flips
  /\ names' = [names EXCEPT ![k] = {}]
  /\ backing' = [backing EXCEPT ![k] = None]
  /\ back' = [back EXCEPT ![k] = "frame"]
  /\ work' = work \ Pending("gl", k)
  /\ stale' = stale \cup ({k} \cap DOMAIN contexts)
  /\ UNCHANGED <<profile, front, flush, view, asked>>

Runs(by, k) ==
  /\ Pending(by, k) # {}
  /\ work' = work \ Pending(by, k)
  /\ UNCHANGED <<profile, front, flush, gameVars, backing, back, names, stale>>

NativeBuilt(k) ==
  /\ k \in DOMAIN pending /\ pending[k].built = "no"
  /\ \E built \in {"yes", "error"} : pending' = [pending EXCEPT ![k].built = built]
  /\ UNCHANGED <<profile, nativeOff, contexts, failed, setup, flush, gameVars, backing, back, names, work, stale>>

-----------------------------------------------------------------------------
(* flush_hook.                                                              *)

At(step) == flush.step = step
Goto(step) == flush' = [flush EXCEPT !.step = step]

(* The game has drawn a frame and swaps.                                    *)
Flush(k) ==
  /\ flush = NoFlush
  /\ flush' = [step |-> "route", key |-> k, extent |-> view[k].extent, shown |-> view[k].shown,
               i |-> 0, inserted |-> 0, original |-> TRUE]
  /\ back' = [back EXCEPT ![k] = "frame"]
  /\ UNCHANGED <<profile, front, gameVars, backing, names, work, stale>>

Upscales == scaler /\ flush.shown > flush.extent

Mine == contexts[flush.key]

(* Mutant: what was built for another size is used.                         *)
AnySize(c) == TRUE

Fits(c) == c.extent = flush.extent

(* At multiplier 1 the shown size counts too.                               *)
Standing ==
  /\ flush.key \in DOMAIN contexts /\ Fits(Mine)
  /\ m = 1 => Mine.shown = flush.shown

(* A context whose setup failed, or that shows what the game drew.          *)
Routed ==
  /\ At("route")
  /\ Goto(IF flush.key \in failed THEN "native"
          ELSE IF ~Standing THEN "destroy"
          ELSE IF m = 1 /\ Mine.up = None THEN "native" ELSE "slots")
  /\ UNCHANGED <<profile, front, gameVars, backing, back, names, work, stale>>

(* Mutant: the surface stays as it was pinned.                              *)
StaysPinned(u, size) == size

(* Up::release.                                                             *)
Released(u, size) == IF u.pinned THEN u.prior ELSE size

HasUp(k) == k \in DOMAIN contexts /\ contexts[k].up # None

Held(c) == c.surfaces \cup IF c.up = None THEN {} ELSE {Out}

(* Context::destroy, with the surface given back first.                     *)
Destroyed(k) ==
  /\ backing' = IF HasUp(k) THEN [backing EXCEPT ![k] = Released(contexts[k].up, @)] ELSE backing
  /\ names' = IF k \in DOMAIN contexts THEN [names EXCEPT ![k] = @ \ Held(contexts[k])] ELSE names
  /\ contexts' = Restrict(contexts, DOMAIN contexts \ {k})
  /\ stale' = stale \ {k}

(* A generator is settled before its surfaces go.                           *)
Settled(k) == Pending("gpu", k) = {}

DestroyOld ==
  /\ At("destroy") /\ Settled(flush.key)
  /\ Destroyed(flush.key)
  /\ Goto("build")
  /\ UNCHANGED <<profile, nativeOff, pending, failed, setup, gameVars, back, work>>

Put(map, k, value) == [x \in DOMAIN map \cup {k} |-> IF x = k THEN value ELSE map[x]]

-----------------------------------------------------------------------------
(* The setup of a context.  Each surface is a framebuffer that is made, then*)
(* found to work or deleted; what was made of a setup that fails later is   *)
(* taken apart by hand.                                                     *)

(* A setup for this size begins.                                            *)
Begun(engine, first) ==
  /\ fresh' = [NoContext EXCEPT !.extent = flush.extent, !.shown = flush.shown, !.engine = engine]
  /\ Goto(first)

(* Too large, too small, or not yet: the game's frame as it is.             *)
BuildLater == Goto("native") /\ UNCHANGED fresh

(* Nothing is made yet: no thread, no backend, no semaphore.                *)
BuildFails == Goto("fail") /\ UNCHANGED fresh

BuildPlain ==
  /\ At("build") /\ m = 1
  /\ Begun("none", IF Upscales THEN "up" ELSE "install")
  /\ UNCHANGED <<profile, nativeOff, contexts, pending, failed, trial, gameVars, backing, back, names, work, stale>>

Awaited == flush.key \in DOMAIN pending /\ Fits(pending[flush.key])

BuildNative ==
  LET k == flush.key
      rest == Restrict(pending, DOMAIN pending \ {k})
  IN /\ At("build") /\ m > 1 /\ ~nativeOff
     /\ \/ BuildLater /\ UNCHANGED <<nativeOff, pending>>
        \/ ~Awaited /\ BuildFails /\ UNCHANGED <<nativeOff, pending>>
        \/ /\ ~Awaited
           /\ pending' = Put(pending, k, [extent |-> flush.extent, built |-> "no"])
           /\ BuildLater /\ UNCHANGED nativeOff
        \/ /\ Awaited /\ pending[k].built = "yes"
           /\ pending' = rest
           /\ Begun([kind |-> "native", extent |-> pending[k].extent], "surfaces")
           /\ UNCHANGED nativeOff
        \/ /\ Awaited /\ pending[k].built = "error"
           /\ pending' = rest /\ nativeOff' = TRUE
           /\ UNCHANGED <<flush, fresh>>
     /\ UNCHANGED <<profile, contexts, failed, trial, gameVars, backing, back, names, work, stale>>

BuildVulkan ==
  /\ At("build") /\ m > 1 /\ nativeOff
  /\ BuildLater \/ BuildFails \/ Begun([kind |-> "vulkan", extent |-> flush.extent], "surfaces")
  /\ UNCHANGED <<profile, nativeOff, contexts, pending, failed, trial, gameVars, backing, back, names, work, stale>>

Surfaces == IF m = 1 THEN {0} ELSE 0..m

(* Surface::new makes a framebuffer for the surface ...                     *)
Names(s) ==
  /\ trial' = {s} /\ names' = [names EXCEPT ![flush.key] = @ \cup {s}]
  /\ Goto("check")

(* ... or has no IOSurface, device or texture to make it for.  A generator's*)
(* semaphores come before its surfaces.                                     *)
NextSurface ==
  /\ At("surfaces")
  /\ \/ \E s \in Surfaces \ fresh.surfaces : 0..(s - 1) \subseteq fresh.surfaces /\ Names(s)
     \/ Goto("undo") /\ UNCHANGED <<trial, names>>
  /\ UNCHANGED <<profile, nativeOff, contexts, pending, failed, fresh, gameVars, backing, back, work, stale>>

(* Up::new: without MetalFX, its texture or queue, no upscaling.            *)
NewUp ==
  /\ At("up")
  /\ Names(Out) \/ (Goto("install") /\ UNCHANGED <<trial, names>>)
  /\ UNCHANGED <<profile, nativeOff, contexts, pending, failed, fresh, gameVars, backing, back, work, stale>>

Unpinned == [pinned |-> FALSE, prior |-> None]

(* A framebuffer that is not complete is deleted.  Without its output MetalFX*)
(* is not used; any other surface is needed.                                *)
SurfaceMade ==
  /\ At("check")
  /\ \/ /\ fresh' = IF trial = {Out} THEN [fresh EXCEPT !.up = Unpinned]
                     ELSE [fresh EXCEPT !.surfaces = @ \cup trial]
        /\ Goto(IF trial = {Out} /\ m > 1 THEN "install"
                ELSE IF trial = {Out} \/ fresh.surfaces \cup trial # Surfaces THEN "surfaces"
                ELSE IF m = 1 THEN "install" ELSE "engine")
        /\ UNCHANGED names
     \/ /\ names' = [names EXCEPT ![flush.key] = @ \ trial]
        /\ Goto(IF trial = {Out} THEN "install" ELSE "undo")
        /\ UNCHANGED fresh
  /\ trial' = {}
  /\ UNCHANGED <<profile, nativeOff, contexts, pending, failed, gameVars, backing, back, work, stale>>

(* What a generator on MoltenVK has besides: its commands and wrapper.      *)
NewEngine ==
  /\ At("engine")
  /\ Goto(IF Upscales THEN "up" ELSE "install") \/ (fresh.engine.kind = "vulkan" /\ Goto("undo"))
  /\ UNCHANGED <<profile, front, gameVars, backing, back, names, work, stale>>

Install ==
  /\ At("install")
  /\ contexts' = Put(contexts, flush.key, fresh) /\ fresh' = NoContext
  /\ Goto(IF m = 1 /\ fresh.up = None THEN "native" ELSE "slots")
  /\ UNCHANGED <<profile, nativeOff, pending, failed, trial, gameVars, backing, back, names, work, stale>>

(* Mutant: what MetalFX wrote to is not deleted.                            *)
ButOut(c) == c.surfaces

(* The surfaces made so far, or what MetalFX would have written to.         *)
Undone(c) == Held(c)

Undo ==
  /\ At("undo")
  /\ names' = [names EXCEPT ![flush.key] = @ \ Undone(fresh)]
  /\ fresh' = NoContext
  /\ Goto("fail")
  /\ UNCHANGED <<profile, nativeOff, contexts, pending, failed, trial, gameVars, backing, back, work, stale>>

-----------------------------------------------------------------------------
(* A frame.                                                                 *)

(* The slots of this frame: at multiplier m up to m - 1 generated frames    *)
(* and the original, or as the pacer says up to m of which the last may be  *)
(* the original.                                                            *)
Slots ==
  /\ At("slots")
  /\ IF m = 1 THEN flush' = [flush EXCEPT !.step = "copy"]
     ELSE \E inserted \in 0..m, original \in BOOLEAN :
            /\ inserted + (IF original THEN 1 ELSE 0) \in 1..m
            /\ flush' = [flush EXCEPT !.step = "copy", !.inserted = inserted, !.original = original]
  /\ UNCHANGED <<profile, front, gameVars, backing, back, names, work, stale>>

(* The back buffer into the source surface.                                 *)
CopyOut ==
  /\ At("copy")
  /\ work' = work \cup {Op("gl", flush.key, 0, "write")}
  /\ Goto("finish")
  /\ UNCHANGED <<profile, front, gameVars, backing, back, names, stale>>

Finished == Pending("gl", flush.key) = {}

(* glFinish, then Up::pin: whatever stands now is what is wanted back.      *)
FinishAndPin ==
  /\ At("finish") /\ Finished
  /\ IF Mine.up # None /\ backing[flush.key] # Mine.shown
     THEN /\ contexts' = [contexts EXCEPT ![flush.key].up = [pinned |-> TRUE, prior |-> backing[flush.key]]]
          /\ backing' = [backing EXCEPT ![flush.key] = Mine.shown]
     ELSE UNCHANGED <<contexts, backing>>
  /\ Goto(IF m = 1 THEN "scale" ELSE "dispatch")
  /\ UNCHANGED <<profile, nativeOff, pending, failed, setup, gameVars, back, names, work, stale>>

(* Mutant: the source surface is left to the generator.                     *)
Never == FALSE

(* With nothing generated nothing else waits for the copy in.               *)
MustSettle == flush.inserted = 0

Fails == Goto("fail") /\ UNCHANGED work

(* The generator's copy in, and the frame's first half.                     *)
Dispatch ==
  /\ At("dispatch")
  /\ \/ /\ work' = work \cup {Op("gpu", flush.key, 0, "read")}
        /\ Goto(IF MustSettle THEN "settle" ELSE IF flush.inserted = 0 THEN "scale" ELSE "produce")
     \/ Fails
  /\ UNCHANGED <<profile, front, gameVars, backing, back, names, stale>>

SettleSource ==
  /\ At("settle")
  /\ (Settled(flush.key) /\ Goto("scale")) \/ Goto("fail")
  /\ UNCHANGED <<profile, front, gameVars, backing, back, names, work, stale>>

Produce ==
  /\ At("produce")
  /\ \/ /\ work' = work \cup {Op("gpu", flush.key, flush.i + 1, "write")}
        /\ flush' = [flush EXCEPT !.step = "produced", !.i = @ + 1]
     \/ Fails
  /\ UNCHANGED <<profile, front, gameVars, backing, back, names, stale>>

Produced ==
  /\ At("produced")
  /\ (Settled(flush.key) /\ Goto("scale")) \/ Goto("fail")
  /\ UNCHANGED <<profile, front, gameVars, backing, back, names, work, stale>>

(* The surface to show: the frame generated last, or the original after all.*)
Showing == flush.i

ScaleReady == Finished

(* Context::show through MetalFX: Metal reads the surface and writes `out`. *)
Scale ==
  /\ At("scale")
  /\ IF Mine.up = None THEN Goto("blit") /\ UNCHANGED work
     ELSE \/ /\ ScaleReady
             /\ work' = work \cup {Op("gpu", flush.key, Showing, "read"), Op("gpu", flush.key, Out, "write")}
             /\ Goto("scaled")
          \/ Fails
  /\ UNCHANGED <<profile, front, gameVars, backing, back, names, stale>>

Scaled ==
  /\ At("scaled") /\ Settled(flush.key)
  /\ Goto("blit")
  /\ UNCHANGED <<profile, front, gameVars, backing, back, names, work, stale>>

(* Into the back buffer.                                                    *)
Blit ==
  /\ At("blit")
  /\ work' = work \cup {Op("gl", flush.key, IF Mine.up = None THEN Showing ELSE Out, "read")}
  /\ back' = [back EXCEPT ![flush.key] = IF Showing = 0 THEN "frame" ELSE "generated"]
  /\ Goto("swap")
  /\ UNCHANGED <<profile, front, gameVars, backing, names, stale>>

(* Mutant: the original is swapped as it was left.                          *)
AsLeft == "swap"

Original == "scale"

(* A swap leaves the back buffer undefined.  After a generated frame the    *)
(* next one, or the original from its copy, or the end.                     *)
Swap ==
  /\ At("swap")
  /\ back' = [back EXCEPT ![flush.key] = "undefined"]
  /\ flush' = IF Showing = 0 \/ (Showing = flush.inserted /\ ~flush.original) THEN NoFlush
              ELSE IF Showing < flush.inserted THEN [flush EXCEPT !.step = "produce"]
              ELSE [flush EXCEPT !.step = Original, !.i = 0, !.inserted = 0]
  /\ UNCHANGED <<profile, front, gameVars, backing, names, work, stale>>

SwapNatively ==
  /\ At("native")
  /\ back' = [back EXCEPT ![flush.key] = "undefined"]
  /\ flush' = NoFlush
  /\ UNCHANGED <<profile, front, gameVars, backing, names, work, stale>>

(* Whatever failed, this context is native from now on.                     *)
Fail ==
  /\ At("fail") /\ Settled(flush.key)
  /\ Destroyed(flush.key)
  /\ failed' = failed \cup {flush.key}
  /\ Goto("native")
  /\ UNCHANGED <<profile, nativeOff, pending, setup, gameVars, back, work>>

-----------------------------------------------------------------------------
Hook ==
  \/ Routed \/ DestroyOld \/ BuildPlain \/ BuildNative \/ BuildVulkan
  \/ NextSurface \/ NewUp \/ SurfaceMade \/ NewEngine \/ Install \/ Undo \/ Slots
  \/ CopyOut \/ FinishAndPin \/ Dispatch \/ SettleSource \/ Produce \/ Produced
  \/ Scale \/ Scaled \/ Blit \/ Swap \/ SwapNatively \/ Fail

Next ==
  \/ \E k \in Keys :
       \/ Flush(k) \/ ResizeView(k) \/ SetBacking(k) \/ FreeContext(k) \/ NativeBuilt(k)
       \/ \E by \in {"gl", "gpu"} : Runs(by, k)
  \/ Hook

Spec == Init /\ [][Next]_vars

-----------------------------------------------------------------------------
(* OpenGL and the GPU take turns on a shared surface: neither writes what   *)
(* the other has not finished with, from one swap to the next too, though   *)
(* nothing but glFinish and the settling orders the two (generate, show).   *)
SurfacesInTurn ==
  \A a, b \in work :
    a.key = b.key /\ a.surface = b.surface /\ a.by # b.by => a.mode = "read" /\ b.mode = "read"

(* Between swaps each context has exactly the framebuffers the front keeps  *)
(* for it: none is left behind, whichever step of a setup or a frame failed *)
(* (Surface::new, Up::new, Context::new, generate, flush_hook).  Not so     *)
(* where a context was freed and its address used again.                    *)
NamesOwn ==
  \A k \in Keys \ stale :
    flush.key # k => names[k] = IF k \in DOMAIN contexts THEN Held(contexts[k]) ELSE {}

(* A frame is generated by an engine built for its size, though the build   *)
(* takes several swaps and the view is resized meanwhile.                   *)
EngineFits ==
  flush.step \in {"copy", "dispatch", "produce"} /\ m > 1 =>
    Mine.engine.extent = flush.extent

(* A surface MetalFX has let go of is not left at a size only it asked for. *)
PinTakenBack ==
  \A k \in Keys : HasUp(k) \/ backing[k] \in asked[k]

(* What is swapped is defined: a swap leaves the back buffer undefined, so   *)
(* the original comes back from its copy after a generated frame.  Only the *)
(* swap in which generation fails may show what nobody drew.                *)
BackDefined ==
  flush.step = "swap" \/ (flush.step = "native" /\ flush.key \notin failed) =>
    back[flush.key] # "undefined"
=============================================================================
