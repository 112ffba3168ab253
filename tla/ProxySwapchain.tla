--------------------------- MODULE ProxySwapchain ---------------------------
(***************************************************************************)
(* The swapchain of metal/proxy.rs: a Vulkan game draws into images of the  *)
(* proxy, and each image it presents becomes a drawable of the worker whose *)
(* drop sets the image free again.                                          *)
(*                                                                         *)
(* A swapchain is used by one thread of the game at a time, as Vulkan       *)
(* demands; the images come back on any thread.  The drawables here belong  *)
(* to no pool, so recycling one does nothing.                               *)
(***************************************************************************)
EXTENDS PresentWorker

CONSTANT MaxPresents   \* bound on the images the game presents

ASSUME SwapchainAssumption == Textures \subseteq Nat /\ MaxPresents \in Nat

VARIABLES
  status,    \* State::status of each image
  invalid,   \* State::invalid
  life,      \* the game's handle: live, in Drop, or destroyed
  presenting    \* the drawable that queue_present is handing over, or none

swapVars == <<status, invalid, life, presenting>>
proxyVars == <<workerSystemVars, swapVars>>

SwapInit ==
  /\ WorkerInit
  /\ status = [i \in Textures |-> "free"] /\ invalid = FALSE /\ life = "live" /\ presenting = 0

(* Mutant: the image is free as soon as the shown frame leaves the screen.  *)
FreedByRecycle == {d \in Drawables : d \in recycled' \ recycled}

Freed == {d \in Drawables : holders[d] # {} /\ holders'[d] = {}}

(* The release closure of a drawable, wherever its last reference drops.    *)
Release ==
  status' = [i \in Textures |->
               IF \E d \in Freed : texture[d] = i THEN "free" ELSE status[i]]

(* acquire_next_image: the first free image, unless the swapchain is out of *)
(* date; its semaphore and fence are signalled by an empty submit, and the  *)
(* image is free again when that is refused.  Without a free image the call *)
(* waits or times out, which changes nothing.                               *)
Acquire(i) ==
  /\ life = "live" /\ presenting = 0 /\ ~invalid
  /\ status[i] = "free"
  /\ \A k \in Textures : status[k] = "free" => i <= k
  /\ status' = [status EXCEPT ![i] = "acquired"]
  /\ UNCHANGED <<workerSystemVars, invalid, life, presenting>>

ReleaseImage(i) ==
  /\ life = "live" /\ presenting = 0
  /\ status[i] = "acquired"
  /\ status' = [status EXCEPT ![i] = "free"]
  /\ UNCHANGED <<workerSystemVars, invalid, life, presenting>>

(* queue_present under the queue lock, up to the worker: the game's event   *)
(* is signalled by a submit that consumes the present's semaphores, and the *)
(* image is queued behind a new drawable, which this call still holds.      *)
QueuePresent(i) ==
  /\ life = "live" /\ presenting = 0 /\ Len(texture) < MaxPresents
  /\ status[i] = "acquired"
  /\ status' = [status EXCEPT ![i] = "queued"]
  /\ texture' = Append(texture, i)
  /\ holders' = Append(holders, {"game"})
  /\ gameSerial' = gameSerial + 1
  /\ serial' = Append(serial, gameSerial + 1)
  /\ gameQueue' = Append(gameQueue, Len(texture) + 1)
  /\ retire' = Append(retire, 0)
  /\ presenting' = Len(texture) + 1
  /\ UNCHANGED <<recycled, answered, gameEvent, channelVars, jobVars, engineVars, presentSerial,
                 pipeline, presentEvent, presents, shown, invalid, life>>

(* Then the drawable goes to the worker.                                    *)
SendImage(spawned, found) ==
  /\ presenting # 0
  /\ Enqueue(presenting, {"game"}, spawned, found)
  /\ presenting' = 0
  /\ Release
  /\ UNCHANGED <<gameVars, jobVars, engineVars, presentSerial, pipeline, presentEvent,
                 retire, shown, invalid, life>>

(* A present the proxy cannot honour, or another swapchain of the same      *)
(* present: the swapchain is out of date for good, and the image stays with *)
(* the game.  A serial whose submit was refused is never used.              *)
Invalidate ==
  /\ life = "live" /\ presenting = 0 /\ ~invalid
  /\ invalid' = TRUE
  /\ UNCHANGED <<workerSystemVars, status, life, presenting>>

Drop ==
  /\ life = "live" /\ presenting = 0
  /\ life' = "dropping"
  /\ UNCHANGED <<workerSystemVars, status, invalid, presenting>>

NoneQueued == \A i \in Textures : status[i] # "queued"

(* The drop waits until no image is queued, then the worker is told to      *)
(* forget the images and they are destroyed.                                *)
DropForgets(spawned) ==
  /\ life = "dropping"
  /\ NoneQueued
  /\ life' = "dropped"
  /\ started' = Started(spawned)
  /\ enabled' = (enabled /\ (started = "no" => spawned))
  /\ channel' = IF started' = "yes" THEN Append(channel, Forget) ELSE channel
  /\ UNCHANGED <<drawableVars, gameVars, jobVars, engineVars, gpuVars, status, invalid, presenting>>

SwapWorker == Worker /\ Release /\ UNCHANGED <<invalid, life, presenting>>
SwapGpu == Devices /\ Release /\ UNCHANGED <<invalid, life, presenting>>
SendingImage == \E spawned, found \in BOOLEAN : SendImage(spawned, found)
Dropping == \E spawned \in BOOLEAN : DropForgets(spawned)

SwapNext ==
  \/ \E i \in Textures : Acquire(i) \/ ReleaseImage(i) \/ QueuePresent(i)
  \/ Invalidate
  \/ Drop
  \/ SendingImage
  \/ Dropping
  \/ SwapWorker
  \/ SwapGpu

(* A call the game made goes on; the worker and the GPU as in the pool.     *)
SwapSpec ==
  /\ SwapInit /\ [][SwapNext]_proxyVars
  /\ WF_proxyVars(SendingImage) /\ WF_proxyVars(Dropping) /\ WF_proxyVars(SwapWorker) /\ WF_proxyVars(SwapGpu)

-----------------------------------------------------------------------------
Live(d) == holders[d] # {}

(* An image is queued exactly while one drawable of it is alive, on any     *)
(* path: generated from, shown natively, or shown by the game's own thread  *)
(* once the worker is gone.  So none is lost and none is freed twice.       *)
QueuedIsHeld ==
  \A i \in Textures :
    LET held == {d \in Drawables : Live(d) /\ texture[d] = i}
    IN Cardinality(held) = IF status[i] = "queued" THEN 1 ELSE 0

(* The game can acquire an image only when no command of the worker has     *)
(* still to read it ("keep the proxy alive until the pipeline has read      *)
(* it"); and the images are destroyed, and the worker's imports of them     *)
(* dropped, only after everything that reads them completed.                *)
ImageUntouched ==
  /\ \A d \in InUse : Live(d)
  /\ life = "dropped" => InUse = {}

(* An acquire that waits without a timeout returns, and so does the drop;   *)
(* and the presented handlers of every frame handed to the worker are       *)
(* called, also for a frame that is never shown.                            *)
ImagesReturn ==
  /\ \A d \in 1..MaxPresents : (d \in Drawables /\ "worker" \in holders[d]) ~> d \in answered
  /\ \A i \in Textures : status[i] = "queued" ~> status[i] = "free"
  /\ life = "dropping" ~> life = "dropped"
=============================================================================
