---------------------------- MODULE DrawablePool ----------------------------
(***************************************************************************)
(* The pool of proxy drawables a Metal game draws into: acquire_drawable    *)
(* and pool_return of metal/generator.rs, the drawable of metal/drawable.rs *)
(* and the hooks of metal/hooks.rs that hand frames to the worker.          *)
(*                                                                         *)
(* The game may keep a drawable past its present, or drop it without one.   *)
(***************************************************************************)
EXTENDS PresentWorker

CONSTANTS
  Ways,        \* how a game may present: "buffer", "metal4" or "direct"
  Keeps,       \* the game may keep a drawable past its present
  Limit,       \* drawables outstanding at once: three, like a real layer
  MaxFrames,   \* bound on the drawables the game takes
  MaxResizes   \* bound on the resizes of the layer

ASSUME PoolAssumption ==
  Ways \subseteq {"buffer", "metal4", "direct"} /\ Keeps \in BOOLEAN /\ Limit \in Nat \ {0} /\ MaxFrames \in Nat /\ MaxResizes \in Nat

VARIABLES
  way,           \* how this game presents
  sending,       \* the drawables of a committed buffer not yet handed over
  pool,          \* Pool::textures: how many times each is in it
  outstanding,   \* Pool::outstanding
  sizeOf, size   \* the size of each texture, and of the layer

poolVars == <<way, sending, pool, outstanding, sizeOf, size>>
vars == <<workerSystemVars, poolVars>>

Init ==
  /\ WorkerInit
  /\ way \in Ways /\ sending = <<>>
  /\ pool = [t \in Textures |-> 0] /\ outstanding = 0
  /\ sizeOf = [t \in Textures |-> 0] /\ size = 0

(* A drawable's texture went back when it was recycled or dropped.          *)
Home(d) == d \in recycled \/ holders[d] = {}
Away == {d \in Drawables : ~Home(d)}

(* Mutant: the drop returns a texture that recycle() already returned.      *)
ReturnedTwice ==
  {d \in Drawables : \/ d \in recycled' \ recycled
                     \/ holders[d] # {} /\ holders'[d] = {}}

(* Ivars::drop and recycle(): whichever comes first returns the texture.    *)
Returned ==
  {d \in Drawables : \/ d \in recycled' \ recycled
                     \/ holders[d] # {} /\ holders'[d] = {} /\ d \notin recycled'}

PoolReturn ==
  /\ outstanding' = outstanding - Cardinality(Returned)
  /\ pool' = [t \in Textures |-> pool[t] + Cardinality({d \in Returned : texture[d] = t})]
  /\ UNCHANGED <<sizeOf, size>>

Fitting == {t \in Textures : pool[t] > 0 /\ sizeOf[t] = size}

(* acquire_drawable: a texture of the pool that fits, whichever came back   *)
(* last, else a new one; those that do not fit go.  With Limit outstanding  *)
(* the game waits, and after a second gets the layer's real drawable, which *)
(* changes nothing here.                                                    *)
InHand == {texture[d] : d \in Away}

Handed(t) ==
  IF Fitting # {} THEN t \in Fitting ELSE t \notin InHand /\ pool[t] = 0

Below == outstanding < Limit

AcquireDrawable(t) ==
  /\ enabled /\ sending = <<>> /\ Len(texture) < MaxFrames
  /\ Below
  /\ Handed(t)
  /\ pool' = [u \in Textures |-> CASE u \notin Fitting -> 0
                                  [] u \in Fitting /\ u = t -> pool[u] - 1
                                  [] OTHER -> pool[u]]
  /\ outstanding' = outstanding + 1
  /\ sizeOf' = IF Fitting = {} THEN [sizeOf EXCEPT ![t] = size] ELSE sizeOf
  /\ texture' = Append(texture, t)
  /\ holders' = Append(holders, {"game"})
  /\ serial' = Append(serial, 0)
  /\ retire' = Append(retire, 0)
  /\ UNCHANGED <<recycled, answered, gameSerial, gameQueue, gameEvent, channelVars, jobVars,
                 engineVars, presentSerial, pipeline, presentEvent, presents, shown, way, sending, size>>

(* The drawables a command buffer can carry: what the game still holds and  *)
(* has not presented, each once, in the order of the present calls.         *)
Presentable(d) == holders[d] = {"game"} /\ d \notin recycled \cup answered

Attached ==
  {<<d>> : d \in Drawables} \cup {<<d, e>> : d, e \in Drawables}

(* commit_hook: the command buffer that drew the drawables signals a serial *)
(* for each and is committed.  With the front end off none is signalled,    *)
(* and the frames are waited for on the CPU.                                *)
Commit(ds) ==
  /\ way = "buffer" /\ sending = <<>>
  /\ \A i \in DOMAIN ds : Presentable(ds[i])
  /\ \A i, j \in DOMAIN ds : ds[i] = ds[j] => i = j
  /\ gameSerial' = IF enabled THEN gameSerial + Len(ds) ELSE gameSerial
  /\ serial' = [d \in Drawables |->
                  IF enabled /\ \E i \in DOMAIN ds : ds[i] = d
                  THEN gameSerial + CHOOSE i \in DOMAIN ds : ds[i] = d
                  ELSE serial[d]]
  /\ gameQueue' = gameQueue \o ds
  /\ sending' = ds
  /\ UNCHANGED <<drawableVars, gameEvent, channelVars, jobVars, engineVars, gpuVars,
                 way, pool, outstanding, sizeOf, size>>

(* present() of the drawable itself, in place of a command buffer's.  On    *)
(* Metal 4 the queue has just signalled a serial for it; else the last      *)
(* buffer committed on this thread, taken to be the one that drew it, is    *)
(* waited for on the CPU.                                                   *)
PresentDirectly(d) ==
  /\ way \in {"metal4", "direct"} /\ sending = <<>>
  /\ Presentable(d)
  /\ gameSerial' = IF way = "metal4" THEN gameSerial + 1 ELSE gameSerial
  /\ serial' = IF way = "metal4" THEN [serial EXCEPT ![d] = gameSerial + 1] ELSE serial
  /\ gameQueue' = Append(gameQueue, d)
  /\ sending' = <<d>>
  /\ UNCHANGED <<drawableVars, gameEvent, channelVars, jobVars, engineVars, gpuVars,
                 way, pool, outstanding, sizeOf, size>>

(* Mutant: the frames are taken off the buffer from its end.                *)
FromEnd == Len(sending)

Unsent == 1

(* Then each frame goes to the worker, in order; the game drops its         *)
(* drawable or keeps it past its present.                                   *)
SendFrame(keeps, spawned, found) ==
  /\ sending # <<>>
  /\ keeps => Keeps
  /\ sending' = [i \in 1..(Len(sending) - 1) |-> sending[IF i < Unsent THEN i ELSE i + 1]]
  /\ Enqueue(sending[Unsent], IF keeps THEN {} ELSE {"game"}, spawned, found)
  /\ UNCHANGED <<gameVars, jobVars, engineVars,
                 presentSerial, pipeline, presentEvent, retire, shown, way>>

(* The game drops a drawable without presenting it, or one that it kept    *)
(* past its present, once that was shown.                                   *)
LetGo(d) ==
  /\ sending = <<>> /\ "game" \in holders[d]
  /\ holders[d] = {"game"} \/ d \in answered
  /\ Hold(d, {"game"}, {})
  /\ UNCHANGED <<texture, recycled, answered, gameVars, channelVars, jobVars, engineVars, gpuVars>>

Resize ==
  /\ size < MaxResizes
  /\ size' = size + 1
  /\ UNCHANGED <<workerSystemVars, way, sending, pool, outstanding, sizeOf>>

Sending ==
  /\ \E keeps, spawned, found \in BOOLEAN : SendFrame(keeps, spawned, found)
  /\ PoolReturn
Running == Worker /\ PoolReturn /\ UNCHANGED <<way, sending>>
Gpu == Devices /\ PoolReturn /\ UNCHANGED <<way, sending>>

Next ==
  \/ \E t \in Textures : AcquireDrawable(t)
  \/ \E ds \in Attached : Commit(ds)
  \/ \E d \in Drawables : PresentDirectly(d)
  \/ Sending
  \/ \E d \in Drawables : LetGo(d) /\ PoolReturn /\ UNCHANGED <<way, sending>>
  \/ Resize
  \/ Running
  \/ Gpu

(* The worker runs while it has something to do, and no GPU command takes   *)
(* longer than the two seconds it is prepared to wait.  The game need not   *)
(* take, present or drop anything.                                          *)
Spec == Init /\ [][Next]_vars /\ WF_vars(Sending) /\ WF_vars(Running) /\ WF_vars(Gpu)

-----------------------------------------------------------------------------
(* "The pool only hands out a texture the worker has finished with": while  *)
(* a frame waits in the channel, is being worked on, or is read by a        *)
(* command on either queue, its texture has not gone back to the pool.      *)
TextureHeld == \A d \in InUse : ~Home(d)

(* The count that limits the game is the number of drawables whose texture  *)
(* is away, although a texture may go back twice: when the shown frame      *)
(* leaves the screen, and when the last reference to the drawable drops.    *)
(* So no texture is in two places either: twice in the pool, in the pool    *)
(* and drawn into, or behind two drawables.                                 *)
OutstandingExact ==
  /\ outstanding = Cardinality(Away)
  /\ \A t \in Textures : pool[t] <= IF t \in InHand THEN 0 ELSE 1
  /\ \A d, e \in Away : texture[d] = texture[e] => d = e

(* settle() at the next frame really waits for the whole previous frame     *)
(* ("wait for the previous frame before its context is reused"): when the   *)
(* context is started again its pipeline is empty, whichever way the        *)
(* previous frame ended.                                                    *)
ContextIdle ==
  [][Len(pipeline') > Len(pipeline) /\ pc = "settle" => pipeline = <<>>]_vars
=============================================================================
