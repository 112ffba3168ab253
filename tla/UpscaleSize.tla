---------------------------- MODULE UpscaleSize ----------------------------
(***************************************************************************)
(* The sizes of a Metal layer that may be upscaled: the one the game asked  *)
(* for (Generator::explicit), the pair the layer is upscaled between        *)
(* (Generator::upscale) and that of its real drawables.  Three threads      *)
(* change them: the game's thread that sets drawableSize, the one that      *)
(* takes drawables, and the worker, whose scaler may fail.  They take three *)
(* locks, one at a time but for `sizing`, which the size setter never takes.*)
(*                                                                          *)
(* A size is a number; the layer's natural size is that of the window.  A   *)
(* refresh reads the sizes in one step; what it decided may be old when it  *)
(* is carried out.                                                          *)
(***************************************************************************)
EXTENDS Naturals

CONSTANTS
  Sizes,         \* sizes the game sets, and windows have
  MaxChanges     \* bound on the sizes set and the resizes of the window

VARIABLES
  natural,       \* bounds times contentsScale
  explicit,      \* Generator::explicit, or 0
  up,            \* Generator::upscale: <<game, shown>>, or None
  real,          \* drawableSize past the hooks, or 0 while it follows the window
  tried,         \* Generator::tried: the last pair a scaler was tried for, and how
  enabled,       \* the front end
  sizing,        \* who holds Generator::sizing
  setter,        \* set_size_hook: what the game set and how far it is
  render,        \* next_drawable_hook: what it decided and how far it is
  worker,        \* the pair of the job under way, and how far stop_upscaling is
  changes

sizeVars == <<natural, explicit, up, real, tried, enabled, sizing, setter, render, worker, changes>>
stateVars == <<natural, explicit, up, real, tried, enabled>>

None == <<0, 0>>
Idle == [at |-> "idle", size |-> 0, pair |-> None]

RealSize == IF real = 0 THEN natural ELSE real

(* shown_size: a screen of twice the layer's scale.                         *)
Shown == 2 * natural

SizeInit ==
  /\ natural \in Sizes
  /\ explicit = 0 /\ up = None /\ real = 0 /\ enabled = TRUE
  /\ tried = [pair |-> None, ok |-> FALSE]
  /\ sizing = "free"
  /\ setter = Idle /\ render = Idle /\ worker = Idle
  /\ changes = 0

-----------------------------------------------------------------------------
(* set_size_hook: game_sets_size remembers the size, then looks at the      *)
(* upscaling; the layer's own setter follows when there is none.            *)

SetSize ==
  /\ setter.at = "idle" /\ changes < MaxChanges
  /\ \E s \in Sizes :
       /\ explicit' = s
       /\ setter' = [Idle EXCEPT !.at = "look", !.size = s]
  /\ changes' = changes + 1
  /\ UNCHANGED <<natural, up, real, tried, enabled, sizing, render, worker>>

GameSetsSize ==
  /\ setter.at = "look"
  /\ IF up = None
     THEN setter' = [setter EXCEPT !.at = "set"] /\ up' = up
     ELSE setter' = Idle /\ up' = <<setter.size, up[2]>>
  /\ UNCHANGED <<natural, explicit, real, tried, enabled, sizing, render, worker, changes>>

SetRealSize ==
  /\ setter.at = "set"
  /\ real' = setter.size
  /\ setter' = Idle
  /\ UNCHANGED <<natural, explicit, up, tried, enabled, sizing, render, worker, changes>>

-----------------------------------------------------------------------------
(* next_drawable_hook: refresh_upscale reads, decides, and changes both     *)
(* under `sizing`; a layer that is not upscaled and whose game set no size  *)
(* follows the window.  With the front end off the upscaling only ends.     *)

Game == IF explicit = 0 THEN natural ELSE explicit

(* upscale_to: to a bigger size only, and a scaler is tried once per pair.  *)
Pair == <<Game, Shown>>
Bigger == Shown > Game
Tries == IF tried.pair = Pair THEN {tried.ok} ELSE BOOLEAN
UpscaleTo(ok) == IF Bigger /\ ok THEN Pair ELSE None

SetUpscaling(pair, game) == render' = [at |-> "lock", size |-> game, pair |-> pair]

RefreshUpscale ==
  /\ render.at = "idle" /\ enabled
  /\ \E ok \in Tries :
       /\ tried' = IF Bigger THEN [pair |-> Pair, ok |-> ok] ELSE tried
       /\ IF UpscaleTo(ok) = up THEN render' = render ELSE SetUpscaling(UpscaleTo(ok), Game)
       /\ real' = IF up = None /\ UpscaleTo(ok) = None /\ explicit = 0 /\ RealSize # natural
                  THEN natural ELSE real
  /\ UNCHANGED <<natural, explicit, up, enabled, sizing, setter, worker, changes>>

EndUpscaling ==
  /\ render.at = "idle" /\ ~enabled /\ up # None
  /\ SetUpscaling(None, up[1])
  /\ UNCHANGED <<stateVars, sizing, setter, worker, changes>>

ChangeState ==
  /\ render.at = "lock" /\ sizing = "free"
  /\ sizing' = "render"
  /\ up' = render.pair
  /\ render' = [render EXCEPT !.at = "resize"]
  /\ UNCHANGED <<natural, explicit, real, tried, enabled, setter, worker, changes>>

ResizeDrawables ==
  /\ render.at = "resize"
  /\ real' = IF render.pair = None THEN render.size ELSE render.pair[2]
  /\ sizing' = "free"
  /\ render' = Idle
  /\ UNCHANGED <<natural, explicit, up, tried, enabled, setter, worker, changes>>

-----------------------------------------------------------------------------
(* The worker: a job takes the pair it begins with; without a scaler for it *)
(* upscaling stops, if that is still the pair.  Any failure may also turn   *)
(* the front end off.                                                       *)

BeginJob ==
  /\ worker.at = "idle" /\ up # None
  /\ worker' = [Idle EXCEPT !.at = "job", !.pair = up]
  /\ UNCHANGED <<stateVars, sizing, setter, render, changes>>

EndJob ==
  /\ worker.at = "job"
  /\ worker' = Idle
  /\ enabled' \in {TRUE, FALSE} /\ (enabled' => enabled)
  /\ UNCHANGED <<natural, explicit, up, real, tried, sizing, setter, render, changes>>

StopUpscaling ==
  /\ worker.at = "job" /\ sizing = "free"
  /\ IF up = worker.pair
     THEN /\ up' = None
          /\ tried' = IF tried.pair = worker.pair THEN [tried EXCEPT !.ok = FALSE] ELSE tried
          /\ sizing' = "worker"
          /\ worker' = [worker EXCEPT !.at = "resize"]
     ELSE worker' = Idle /\ UNCHANGED <<up, tried, sizing>>
  /\ UNCHANGED <<natural, explicit, real, enabled, setter, render, changes>>

RestoreSize ==
  /\ worker.at = "resize"
  /\ real' = worker.pair[1]
  /\ sizing' = "free"
  /\ worker' = Idle
  /\ UNCHANGED <<natural, explicit, up, tried, enabled, setter, render, changes>>

ResizeWindow ==
  /\ changes < MaxChanges
  /\ natural' \in Sizes \ {natural}
  /\ changes' = changes + 1
  /\ UNCHANGED <<explicit, up, real, tried, enabled, sizing, setter, render, worker>>

SizeNext ==
  \/ SetSize \/ GameSetsSize \/ SetRealSize
  \/ RefreshUpscale \/ EndUpscaling \/ ChangeState \/ ResizeDrawables
  \/ BeginJob \/ EndJob \/ StopUpscaling \/ RestoreSize
  \/ ResizeWindow

SizeSpec == SizeInit /\ [][SizeNext]_sizeVars

-----------------------------------------------------------------------------
(* "On an upscaled layer the real drawables keep the shown size": when no   *)
(* call is under way and the next drawable finds nothing to change, they    *)
(* have it.  (Otherwise the worker skips every frame as one from before a   *)
(* resize, and generates none.)                                             *)
AtRest == setter.at = "idle" /\ render.at = "idle" /\ worker.at = "idle"

KeepShownSize == AtRest /\ up = Pair /\ tried = [pair |-> up, ok |-> TRUE] => real = up[2]
=============================================================================
