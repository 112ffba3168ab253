--------------------------- MODULE PresentWorker ---------------------------
(***************************************************************************)
(* The presentation worker of metal/generator.rs: one thread per layer that *)
(* takes the game's frames from a channel, generates frames from them on    *)
(* its own queue (the pipeline) and presents everything on a second queue.  *)
(*                                                                         *)
(* A frame is a proxy drawable.  It is reference counted, and its texture   *)
(* goes back to whoever handed it out when the last reference is dropped,   *)
(* or, for a drawable of the pool, when it is recycled.  The modules        *)
(* DrawablePool (a Metal game) and ProxySwapchain (a Vulkan game) add the   *)
(* two sides that hand textures out.                                        *)
(***************************************************************************)
EXTENDS Naturals, Sequences, FiniteSets

CONSTANTS
  Textures,    \* the textures the game draws into
  Plans,       \* <<inserted, show_original>> as the pacer or the multiplier give
               \* them; empty for a multiplier of 1, which only upscales
  NativeOff,   \* LSFGM_NATIVE=0: generation starts on MoltenVK
  Faults       \* "skip": a real drawable from before a resize, while upscaling;
               \* "present": a present command buffer cannot be built

ASSUME WorkerAssumption ==
  /\ Plans \subseteq Nat \X BOOLEAN
  /\ \A p \in Plans : p[1] > 0 \/ p[2]
  /\ NativeOff \in BOOLEAN
  /\ Faults \subseteq {"skip", "present"}

VARIABLES
  (* the proxy drawables made so far and what keeps each alive *)
  texture, holders, recycled, answered,
  (* the game's own GPU work and the event that it signals *)
  serial, gameSerial, gameQueue, gameEvent,
  (* the channel and its two ends *)
  started, enabled, channel,
  (* the worker *)
  pc, frame, plan, slot, engine, nativeOff, framePending, copied,
  (* the two queues it submits to, and what they will report *)
  presentSerial, pipeline, presentEvent, presents, retire, shown

drawableVars == <<texture, holders, recycled, answered>>
gameVars == <<serial, gameSerial, gameQueue, gameEvent>>
channelVars == <<started, enabled, channel>>
jobVars == <<pc, frame, plan, slot, copied>>
engineVars == <<engine, nativeOff, framePending>>
gpuVars == <<presentSerial, pipeline, presentEvent, presents, retire, shown>>
workerSystemVars ==
  <<drawableVars, gameVars, channelVars, jobVars, engineVars, gpuVars>>

Drawables == 1..Len(texture)
Forget == 0                      \* the message that drops a swapchain's imports
Inserted == plan[1]
ShowOriginal == plan[2]

WorkerInit ==
  /\ texture = <<>> /\ holders = <<>> /\ recycled = {} /\ answered = {}
  /\ serial = <<>> /\ gameSerial = 0 /\ gameQueue = <<>> /\ gameEvent = 0
  /\ started = "no" /\ enabled = TRUE /\ channel = <<>>
  /\ pc = "receive" /\ frame = 0 /\ plan = <<0, TRUE>> /\ slot = 0 /\ copied = 0
  /\ engine = "none" /\ nativeOff = NativeOff /\ framePending = FALSE
  /\ presentSerial = 0 /\ pipeline = <<>> /\ presentEvent = 0
  /\ presents = <<>> /\ retire = <<>> /\ shown = {}

(* The GPU finished what the game drew into drawable d.                    *)
Drawn(d) == \A i \in 1..Len(gameQueue) : gameQueue[i] # d

Hold(d, dropped, added) ==
  holders' = [holders EXCEPT ![d] = (@ \ dropped) \cup added]

-----------------------------------------------------------------------------
(* A game waiting on its presented handler must not block forever.          *)
Unshown(d) == answered \cup {d}

(* The locals of process() end with the job.                                *)
JobDone == pc' = "receive" /\ frame' = Forget /\ plan' = <<0, TRUE>> /\ slot' = 0 /\ copied' = 0

(* present_natively: show the game's frame as it is, on the present queue.  *)
(* The command buffer keeps the drawable until it completes, the real       *)
(* drawable's handler until it was shown; without a real drawable the       *)
(* game's presented handlers are called at once.                            *)
ShowNatively(d, dropped, found) ==
  /\ serial[d] = 0 => Drawn(d)
  /\ IF found
     THEN /\ presents' = Append(presents, [op |-> "native", frame |-> d,
                                           value |-> serial[d], handler |-> TRUE])
          /\ Hold(d, dropped, {"copy", "handler"})
          /\ UNCHANGED answered
     ELSE /\ answered' = Unshown(d)
          /\ Hold(d, dropped, {})
          /\ UNCHANGED presents
  /\ UNCHANGED <<texture, recycled>>

(* enqueue and send: the first message starts the thread; when it could not *)
(* be started the sender shows the frame itself.                            *)
Started(spawned) ==
  IF started # "no" THEN started ELSE IF spawned THEN "yes" ELSE "gone"

Enqueue(d, dropped, spawned, found) ==
  /\ started' = Started(spawned)
  /\ IF started' = "yes"
     THEN /\ channel' = Append(channel, d)
          /\ Hold(d, dropped, {"worker"})
          /\ UNCHANGED <<enabled, presents, texture, recycled, answered>>
     ELSE /\ enabled' = FALSE
          /\ ShowNatively(d, dropped, found)
          /\ UNCHANGED channel

-----------------------------------------------------------------------------
(* Worker::run takes a message.  Imports are dropped at once; a frame is    *)
(* generated from while the front end is enabled.                           *)
Receive ==
  /\ pc = "receive" /\ started = "yes" /\ channel # <<>>
  /\ channel' = Tail(channel)
  /\ frame' = Head(channel)
  /\ pc' = CASE Head(channel) = Forget -> "receive"
             [] Head(channel) # Forget /\ enabled /\ Plans # {} -> "settle"
             [] OTHER -> "natively"
  /\ UNCHANGED <<drawableVars, gameVars, started, enabled, plan, slot, copied,
                 engineVars, gpuVars>>

(* The three ways a frame fails: shown as it is; the context is dropped     *)
(* too; generation is turned off as well.                                   *)
Fail(how) ==
  /\ pc' = IF how = "skip" THEN "natively" ELSE "reset"
  /\ enabled' = (enabled /\ how # "error")

(* Mutant: frames whose last shown frame is generated set no frame_pending. *)
OriginalOnly(last) == last /\ ShowOriginal

(* The submit that carries the completion fence of a MoltenVK frame: the    *)
(* copy of the last frame shown.                                            *)
Fenced(last) == last

(* settle(): the previous frame's work, by the last command buffer on the   *)
(* native generator and by the completion fence on MoltenVK.                *)
Settled ==
  IF engine = "native" THEN pipeline = <<>>
  ELSE framePending => \A i \in 1..Len(pipeline) : ~pipeline[i].fence

(* reset() leaves a native build on its own thread alone.                   *)
Unbuilt == IF engine = "building" THEN "building" ELSE "none"

(* What prepare() may find: the context fits, or it is rebuilt for another  *)
(* size or format.  The native one is built off this thread while frames    *)
(* show as they are, and MoltenVK takes over for good when that fails.      *)
Prepared(next, outcome, off) ==
  \/ engine \in {"native", "moltenvk"} /\ next = engine /\ outcome = "ok" /\ off = nativeOff
  \/ outcome = "skip" /\ next = engine /\ off = nativeOff      \* drawn before a resize
  \/ ~nativeOff /\ outcome = "skip" /\ next = "building" /\ off = nativeOff
  \/ ~nativeOff /\ engine = "building" /\ outcome = "ok" /\ next = "native" /\ off = nativeOff
  \/ outcome \in {"mismatch", "error"} /\ next = Unbuilt /\ off = nativeOff
  \/ /\ nativeOff \/ engine = "building"
     /\ off
     /\ \/ outcome = "ok" /\ next = "moltenvk"
        \/ outcome \in {"mismatch", "error"} /\ next = "none"

Command(op, value, fence) ==
  [op |-> op, frame |-> frame, value |-> value, fence |-> fence]

(* The first half of generate(): settle and prepare, and the frame goes no  *)
(* further.                                                                 *)
Refuse(next, outcome, off) ==
  /\ pc = "settle"
  /\ Settled /\ framePending' = FALSE
  /\ outcome # "ok" /\ Prepared(next, outcome, off)
  /\ engine' = next /\ nativeOff' = off
  /\ Fail(outcome)
  /\ UNCHANGED <<drawableVars, gameVars, started, channel, frame, plan, slot, copied, gpuVars>>

(* Or it is planned and start() copies it in, waiting on the GPU for the    *)
(* game's own work; a present the game made outside a command buffer is     *)
(* waited for on the CPU.  The copy signals the value that marks it copied. *)
Begin(next, off, p) ==
  /\ pc = "settle"
  /\ Settled /\ framePending' = FALSE
  /\ Prepared(next, "ok", off)
  /\ engine' = next /\ nativeOff' = off
  /\ serial[frame] = 0 => Drawn(frame)
  /\ plan' = p
  /\ copied' = presentSerial + 1
  /\ presentSerial' = presentSerial + 1
  /\ pipeline' = Append(pipeline, Command("copyin", presentSerial + 1, FALSE))
  /\ pc' = IF p[1] > 0 THEN "generated" ELSE "original"
  /\ UNCHANGED <<drawableVars, gameVars, channelVars, frame, slot,
                 presentEvent, presents, retire, shown>>

(* start() fails: before its submit, or on MoltenVK also after it, when the *)
(* context refuses the iteration.                                           *)
StartFails(next, off, submitted) ==
  /\ pc = "settle"
  /\ Settled /\ framePending' = FALSE
  /\ Prepared(next, "ok", off)
  /\ engine' = next /\ nativeOff' = off
  /\ serial[frame] = 0 => Drawn(frame)
  /\ submitted => next = "moltenvk"
  /\ presentSerial' = presentSerial + 1
  /\ pipeline' = IF submitted THEN Append(pipeline, Command("copyin", presentSerial + 1, FALSE))
                 ELSE pipeline
  /\ \E outcome \in {"mismatch", "error"} : Fail(outcome) /\ (submitted => outcome = "error")
  /\ UNCHANGED <<drawableVars, gameVars, started, channel, frame, plan, slot, copied,
                 presentEvent, presents, retire, shown>>

(* Mutant: the proxy is kept until a value of the next frame.               *)
RetireLate(ready) == ready + 1

(* retire(): the proxy is kept until the pipeline has read it for the last  *)
(* time, which is the copy of the original when that is shown.              *)
RetireAt(ready) == IF ShowOriginal THEN ready ELSE copied

(* How a copy towards a real drawable may fail.  MoltenVK turns every skip  *)
(* past start() into a mismatch: its context would wait on work never       *)
(* submitted.                                                               *)
ProduceFails ==
  {"mismatch", "error"} \cup (IF engine = "native" THEN Faults \cap {"skip"} ELSE {})

NoTarget ==
  /\ pc \in {"generated", "original"}
  /\ \E outcome \in ProduceFails : Fail(outcome)
  /\ UNCHANGED <<drawableVars, gameVars, started, channel, frame, plan, slot, copied,
                 engineVars, gpuVars>>

Last == IF pc = "original" THEN TRUE ELSE ~ShowOriginal /\ slot + 1 = Inserted

(* Mutants: the first shown frame carries the handler; the present waits    *)
(* for the value after the one its copy signals.                            *)
First == slot = 0
NextValue(ready) == ready + 1

CarriesHandler == Last
WaitsFor(ready) == ready

(* One generated frame, or the game's own, copied into a real drawable and  *)
(* presented when the copy signals its value; with the last one the proxy   *)
(* is handed to the real drawable's handler and to retire().                *)
Show ==
  LET ready == presentSerial + 1
      fence == engine = "moltenvk" /\ Fenced(Last)
  IN /\ pc \in {"generated", "original"}
     /\ presentSerial' = ready
     /\ pipeline' = Append(pipeline, Command(pc, ready, fence))
     /\ framePending' = (framePending \/ fence)
     /\ presents' = Append(presents, [op |-> "present", frame |-> frame,
                                      value |-> WaitsFor(ready),
                                      handler |-> CarriesHandler])
     /\ IF Last
        THEN /\ retire' = [retire EXCEPT ![frame] = RetireAt(ready)]
             /\ Hold(frame, {"worker"}, {"handler", "retire"})
             /\ JobDone
        ELSE /\ pc' = IF slot + 1 < Inserted THEN "generated" ELSE "original"
             /\ slot' = slot + 1
             /\ UNCHANGED <<retire, holders, frame, plan, copied>>
     /\ UNCHANGED <<texture, recycled, answered, gameVars, channelVars, engine, nativeOff, presentEvent, shown>>

(* The same when the present itself cannot be built: the real drawable is   *)
(* dropped, with the handler it was given, and that recycles the proxy.     *)
PresentFails(outcome) ==
  LET ready == presentSerial + 1
      fence == engine = "moltenvk" /\ Fenced(Last)
  IN /\ "present" \in Faults
     /\ pc \in {"generated", "original"}
     /\ outcome = "mismatch" => engine = "moltenvk"
     /\ presentSerial' = ready
     /\ pipeline' = Append(pipeline, Command(pc, ready, fence))
     /\ framePending' = (framePending \/ fence)
     /\ recycled' = IF Last THEN recycled \cup {frame} ELSE recycled
     /\ Fail(outcome)
     /\ UNCHANGED <<texture, holders, answered, gameVars, started, channel, frame, plan, slot,
                    copied, engine, nativeOff, presentEvent, presents, retire, shown>>

(* Mutant: the context is dropped under the commands that use it.           *)
Undrained == TRUE

Drained == engine \in {"native", "moltenvk"} => pipeline = <<>>

(* reset(): wait for the pipeline, drop the context and every import.       *)
Reset ==
  /\ pc = "reset"
  /\ Drained
  /\ engine' = Unbuilt
  /\ pc' = "natively"
  /\ UNCHANGED <<drawableVars, gameVars, channelVars, frame, plan, slot, copied,
                 nativeOff, framePending, gpuVars>>

PresentNatively(found) ==
  /\ pc = "natively"
  /\ ShowNatively(frame, {"worker"}, found)
  /\ JobDone
  /\ UNCHANGED <<gameVars, channelVars, engineVars,
                 presentSerial, pipeline, presentEvent, retire, shown>>

Worker ==
  \/ Receive
  \/ \E next \in {"none", "building", "native", "moltenvk"}, off \in BOOLEAN :
       \/ \E outcome \in {"skip", "mismatch", "error"} : Refuse(next, outcome, off)
       \/ \E p \in Plans : Begin(next, off, p)
       \/ \E submitted \in BOOLEAN : StartFails(next, off, submitted)
  \/ NoTarget
  \/ Show
  \/ \E outcome \in {"mismatch", "error"} : PresentFails(outcome)
  \/ Reset
  \/ \E found \in BOOLEAN : PresentNatively(found)

-----------------------------------------------------------------------------
(* The game's own queue: its oldest work completes and signals its value.   *)
GameCompletes ==
  /\ gameQueue # <<>>
  /\ gameQueue' = Tail(gameQueue)
  /\ gameEvent' = IF serial[Head(gameQueue)] = 0 THEN gameEvent ELSE serial[Head(gameQueue)]
  /\ UNCHANGED <<drawableVars, serial, gameSerial, channelVars, jobVars, engineVars, gpuVars>>

(* The pipeline runs in order; a copy in waits for the game's value.        *)
PipelineCompletes ==
  /\ pipeline # <<>>
  /\ Head(pipeline).op = "copyin" => gameEvent >= serial[Head(pipeline).frame]
  /\ pipeline' = Tail(pipeline)
  /\ presentEvent' = Head(pipeline).value
  /\ UNCHANGED <<drawableVars, gameVars, channelVars, jobVars, engineVars,
                 presentSerial, presents, retire, shown>>

(* The present queue runs in order, beside the pipeline.                    *)
PresentCompletes ==
  LET c == Head(presents)
  IN /\ presents # <<>>
     /\ IF c.op = "native" THEN gameEvent >= c.value ELSE presentEvent >= c.value
     /\ presents' = Tail(presents)
     /\ shown' = IF c.handler THEN shown \cup {c.frame} ELSE shown
     /\ IF c.op = "native" THEN Hold(c.frame, {"copy"}, {}) ELSE UNCHANGED holders
     /\ UNCHANGED <<texture, recycled, answered, gameVars, channelVars, jobVars, engineVars,
                    presentSerial, pipeline, presentEvent, retire>>

(* The listener of retire() runs once the present event has its value.      *)
Retire(d) ==
  /\ retire[d] # 0 /\ presentEvent >= retire[d]
  /\ retire' = [retire EXCEPT ![d] = 0]
  /\ Hold(d, {"retire"}, {})
  /\ UNCHANGED <<texture, recycled, answered, gameVars, channelVars, jobVars, engineVars,
                 presentSerial, pipeline, presentEvent, presents, shown>>

(* The shown frame's presented handler: the game's handlers are called and  *)
(* the proxy is recycled.                                                   *)
Presented(d) ==
  /\ d \in shown
  /\ shown' = shown \ {d}
  /\ answered' = answered \cup {d}
  /\ recycled' = recycled \cup {d}
  /\ Hold(d, {"handler"}, {})
  /\ UNCHANGED <<texture, gameVars, channelVars, jobVars, engineVars,
                 presentSerial, pipeline, presentEvent, presents, retire>>

Devices ==
  \/ GameCompletes \/ PipelineCompletes \/ PresentCompletes
  \/ \E d \in Drawables : Retire(d) \/ Presented(d)

-----------------------------------------------------------------------------
(* The drawables whose texture some submitted command has still to read:    *)
(* the copy in, the copy of the original and a native present.              *)
ReadByGpu ==
  {pipeline[i].frame : i \in {i \in 1..Len(pipeline) : pipeline[i].op # "generated"}}
  \cup {presents[i].frame : i \in {i \in 1..Len(presents) : presents[i].op = "native"}}

(* Commands about to read it: those, and the frames the worker will show.   *)
InUse == ReadByGpu \cup {d \in Drawables : "worker" \in holders[d]}

(* A present never waits for a value the pipeline will not signal: a failed *)
(* frame leaves no present behind that would hold up all later ones.        *)
PresentsCovered ==
  \A i \in 1..Len(presents) :
    presents[i].op = "present" =>
      \/ presentEvent >= presents[i].value
      \/ \E k \in 1..Len(pipeline) : pipeline[k].value >= presents[i].value

(* Frames are shown in the order the game committed them, whichever way     *)
(* each of them is shown ("a command buffer can carry several presents;     *)
(* each one is kept in order").                                             *)
FramesInOrder ==
  \A i, j \in 1..Len(presents) :
    i < j /\ serial[presents[i].frame] # 0 /\ serial[presents[j].frame] # 0
      => serial[presents[i].frame] <= serial[presents[j].frame]
=============================================================================
