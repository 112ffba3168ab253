-------------------------- MODULE TextureOwnerProofs --------------------------
(****************************************************************************)
(* The worker, and the two owners of textures in front of it.               *)
(*                                                                          *)
(* First the worker, its channel and its two queues, for any number of      *)
(* frames, any plans and engines, and any failures.  The invariant Base has *)
(* five parts, each inductive with those before it: whose frames the worker *)
(* has (Job), that commands are about drawables (Framed), the order of the  *)
(* event's values (Values), what a frame leaves on the pipeline of its      *)
(* context (Engines), and what keeps a shown frame alive (Shows).  Reads,   *)
(* which says what keeps a frame alive that the pipeline still reads, needs *)
(* all of them, and that no frame is skipped past its copy in.              *)
(*                                                                          *)
(* Then what the two owners promise a game: the drawable pool of a Metal    *)
(* layer and the swapchain of a Vulkan proxy.  Each hands a texture out,    *)
(* gives it to the worker in a drawable, and takes it back by a path of its *)
(* own; both rest on the same facts of the worker.                          *)
(*                                                                          *)
(* The pool, for any drawables, ways of presenting, limits and resizes: its *)
(* count is exact, no texture is in two places, a context waits for its     *)
(* previous frame, nothing the worker or the GPU still needs comes back,    *)
(* and the frames are shown in the order they were committed.  The argument *)
(* is PoolInv: a drawable is away from its acquire until the first of its   *)
(* two ways back, and what the commit hook has in hand is the game's alone  *)
(* (SendingHeld), so no step of the worker touches it.  TextureHeld needs   *)
(* more, Reads of the worker and Ended, and holds only when every present   *)
(* is built: a present that fails after its copy recycles a frame the copy  *)
(* still reads.  FramesInOrder needs the order of the whole line from the   *)
(* commit hook to the screen (Line), and holds whatever fails.              *)
(*                                                                          *)
(* The swapchain, for any images and presents: its argument is ImagesHeld,  *)
(* an image is queued exactly while one of its drawables is alive.  A drop  *)
(* of the last reference frees the image of that drawable and of no other,  *)
(* and nothing takes a dropped drawable again (GameOwned).  That no command *)
(* reads a dropped drawable is Reads of the worker; it needs that no frame  *)
(* is skipped past its copy in.                                             *)
(****************************************************************************)
EXTENDS DrawablePool, ProxySwapchain, SequenceTheorems, FiniteSetTheorems, TLAPS

(* What may keep a drawable alive, and the commands and presents there are. *)
Holder == {"game", "worker", "copy", "handler", "retire"}
Commands == [op : {"copyin", "generated", "original"}, frame : Nat, value : Nat, fence : BOOLEAN]
Shots == [op : {"present", "native"}, frame : Nat, value : Nat, handler : BOOLEAN]
Engaged == {"native", "moltenvk"}

(* The types of the variables, by whom they are about.                      *)
DrawableTypes ==
  /\ texture \in Seq(Textures)
  /\ holders \in Seq(SUBSET Holder) /\ Len(holders) = Len(texture)
  /\ retire \in Seq(Nat) /\ Len(retire) = Len(texture)
  /\ serial \in Seq(Nat) /\ Len(serial) = Len(texture)
  /\ shown \subseteq Drawables

QueueTypes ==
  /\ presentSerial \in Nat /\ presentEvent \in Nat
  /\ pipeline \in Seq(Commands)
  /\ presents \in Seq(Shots)

JobTypes ==
  /\ channel \in Seq(Nat)
  /\ pc \in {"receive", "settle", "generated", "original", "reset", "natively"}
  /\ frame \in Nat /\ plan \in Nat \X BOOLEAN /\ slot \in Nat /\ copied \in Nat
  /\ engine \in {"none", "building"} \cup Engaged
  /\ framePending \in BOOLEAN

(* The frames of the channel and of the worker are held by it, each once.   *)
Jobs ==
  /\ pc # "receive" => frame \in Drawables /\ "worker" \in holders[frame]
  /\ \A i \in 1..Len(channel) : channel[i] # Forget =>
       /\ channel[i] \in Drawables /\ "worker" \in holders[channel[i]]
       /\ pc # "receive" => channel[i] # frame
       /\ \A j \in 1..Len(channel) : j # i => channel[j] # channel[i]

(* What is submitted is about drawables there are.                          *)
Framed ==
  /\ \A i \in 1..Len(presents) : presents[i].frame \in Drawables
  /\ \A i \in 1..Len(pipeline) : pipeline[i].frame \in Drawables

Job == DrawableTypes /\ QueueTypes /\ JobTypes /\ Jobs

(* Hold changes the holders of one drawable.                                *)
LEMMA HoldChanges ==
  ASSUME DrawableTypes, NEW d \in Drawables, NEW dropped, NEW added \in SUBSET Holder,
         Hold(d, dropped, added)
  PROVE  /\ holders' \in Seq(SUBSET Holder) /\ Len(holders') = Len(holders)
         /\ \A e \in Drawables : holders'[e] = IF e = d THEN (holders[d] \ dropped) \cup added ELSE holders[e]
<1> DEFINE new == (holders[d] \ dropped) \cup added
<1>1. d \in 1..Len(holders) /\ Drawables = 1..Len(holders)
  BY DEF DrawableTypes, Drawables
<1>2. holders[d] \in SUBSET Holder
  BY <1>1, ElementOfSeq DEF DrawableTypes
<1>3. new \in SUBSET Holder
  BY <1>2
<1>4. holders' = [holders EXCEPT ![d] = new]
  BY DEF Hold
<1> HIDE DEF new
<1>5. /\ holders' \in Seq(SUBSET Holder) /\ Len(holders') = Len(holders)
      /\ \A e \in 1..Len(holders) : holders'[e] = IF e = d THEN new ELSE holders[e]
  BY <1>1, <1>3, <1>4, ExceptSeq DEF DrawableTypes
<1> QED
  BY <1>1, <1>5 DEF new

(* Whoever lets go of a drawable, the worker keeps its own.                 *)
LEMMA HoldKeeps ==
  ASSUME DrawableTypes, NEW d \in Drawables, NEW h, h # "worker", Hold(d, {h}, {})
  PROVE  /\ holders' \in Seq(SUBSET Holder) /\ Len(holders') = Len(holders)
         /\ \A e \in Drawables : "worker" \in holders[e] => "worker" \in holders'[e]
<1>1. /\ holders' \in Seq(SUBSET Holder) /\ Len(holders') = Len(holders)
      /\ \A e \in Drawables : holders'[e] = IF e = d THEN (holders[d] \ {h}) \cup {} ELSE holders[e]
  <2>1. {} \in SUBSET Holder
    OBVIOUS
  <2> QED
    BY <2>1, HoldChanges
<1>2. ASSUME NEW e \in Drawables, "worker" \in holders[e] PROVE "worker" \in holders'[e]
  <2>1. CASE e = d
    BY <1>1, <1>2, <2>1
  <2>2. CASE e # d
    BY <1>1, <1>2, <2>2
  <2> QED
    BY <2>1, <2>2
<1> QED
  BY <1>1, <1>2

(* What an Append to one of the two queues leaves where it was.             *)
LEMMA PipelineGrows ==
  ASSUME QueueTypes, NEW c \in Commands, pipeline' = Append(pipeline, c)
  PROVE  /\ pipeline' \in Seq(Commands) /\ Len(pipeline') = Len(pipeline) + 1
         /\ \A i \in 1..Len(pipeline) : pipeline'[i] = pipeline[i]
         /\ pipeline'[Len(pipeline) + 1] = c
  BY AppendProperties DEF QueueTypes

(* The same of the present queue.                                           *)
LEMMA PresentsGrow ==
  ASSUME QueueTypes, NEW c \in Shots, presents' = Append(presents, c)
  PROVE  /\ presents' \in Seq(Shots) /\ Len(presents') = Len(presents) + 1
         /\ \A i \in 1..Len(presents) : presents'[i] = presents[i]
         /\ presents'[Len(presents) + 1] = c
  BY AppendProperties DEF QueueTypes

(* present_natively either submits one present of the drawable or lets it   *)
(* go.                                                                      *)
LEMMA NativeShot ==
  ASSUME DrawableTypes, QueueTypes, NEW d \in Drawables, NEW dropped, NEW found, ShowNatively(d, dropped, found)
  PROVE  \/ /\ presents' = Append(presents, [op |-> "native", frame |-> d, value |-> serial[d], handler |-> TRUE])
            /\ [op |-> "native", frame |-> d, value |-> serial[d], handler |-> TRUE] \in Shots
            /\ Hold(d, dropped, {"copy", "handler"})
            /\ UNCHANGED <<texture, recycled>>
         \/ UNCHANGED <<texture, recycled, presents>> /\ Hold(d, dropped, {})
<1>1. serial[d] \in Nat /\ d \in Nat
  BY ElementOfSeq DEF DrawableTypes, Drawables
<1>2. [op |-> "native", frame |-> d, value |-> serial[d], handler |-> TRUE] \in Shots
  BY <1>1 DEF Shots
<1> QED
  BY <1>2 DEF ShowNatively

(* Types, and that each frame in the channel or in hand is a drawable the   *)
(* worker holds, once.                                                      *)
LEMMA JobStep ==
  ASSUME Job, Framed, Worker \/ Devices
  PROVE  Job'
<1> USE DEF Job
<1>1. ASSUME UNCHANGED <<texture, serial, channel, frame>>, QueueTypes', JobTypes', pc # "receive",
             UNCHANGED <<holders, retire, shown>>
      PROVE  Job'
  BY <1>1 DEF DrawableTypes, Drawables, Jobs
<1>2. CASE Receive
  <2>1. channel' \in Seq(Nat) /\ Len(channel') = Len(channel) - 1 /\ Head(channel) \in Nat
        /\ \A i \in 1..Len(channel') : channel'[i] = channel[i + 1]
    BY <1>2, HeadTailProperties DEF Receive, JobTypes
  <2>2. Len(channel) \in Nat /\ Len(channel) > 0 /\ Head(channel) = channel[1]
    BY <1>2 DEF Receive, JobTypes
  <2>3. UNCHANGED <<drawableVars, gameVars, plan, slot, copied, engineVars, gpuVars>> /\ frame' = channel[1]
        /\ pc' \in {"receive", "settle", "natively"} /\ (channel[1] = Forget => pc' = "receive") /\ pc = "receive"
    <3>1. CASE channel[1] = Forget
      BY <1>2, <2>2, <3>1 DEF Receive
    <3>2. CASE channel[1] # Forget
      BY <1>2, <2>2, <3>2 DEF Receive
    <3> QED
      BY <3>1, <3>2
  <2>4. DrawableTypes' /\ QueueTypes'
    BY <2>3 DEF drawableVars, gameVars, gpuVars, DrawableTypes, QueueTypes, Drawables
  <2>5. JobTypes'
    BY <2>1, <2>2, <2>3 DEF engineVars, JobTypes
  <2>6. UNCHANGED <<texture, holders>> /\ Drawables' = Drawables
    BY <2>3 DEF drawableVars, Drawables
  <2>7. pc' # "receive" => frame' \in Drawables /\ "worker" \in holders[frame']
    BY <2>2, <2>3 DEF Jobs
  <2>8. ASSUME NEW i \in 1..Len(channel'), channel'[i] # Forget
        PROVE  /\ channel'[i] \in Drawables /\ "worker" \in holders[channel'[i]]
               /\ pc' # "receive" => channel'[i] # frame'
               /\ \A j \in 1..Len(channel') : j # i => channel'[j] # channel'[i]
    <3>1. /\ i + 1 \in 1..Len(channel) /\ 1 \in 1..Len(channel) /\ i + 1 # 1
          /\ channel'[i] = channel[i + 1]
      BY <2>1, <2>2
    <3>2. /\ channel[i + 1] \in Drawables /\ "worker" \in holders[channel[i + 1]]
          /\ \A j \in 1..Len(channel) : j # i + 1 => channel[j] # channel[i + 1]
      BY <2>8, <3>1 DEF Jobs
    <3>3. ASSUME NEW j \in 1..Len(channel'), j # i PROVE channel'[j] # channel'[i]
      <4>1. channel'[j] = channel[j + 1]
        BY <2>1, Zenon
      <4>2. Len(channel') = Len(channel) - 1 /\ Len(channel) \in Nat
        BY <2>1, <2>2, Zenon
      <4>3. j \in Int /\ i \in Int
        OBVIOUS
      <4>4. j + 1 \in 1..Len(channel) /\ j + 1 # i + 1
        <5> HIDE DEF Job
        <5> QED
          BY <3>3, <4>2, <4>3
      <4> QED
        BY <3>1, <3>2, <4>1, <4>4, Zenon
    <3> QED
      BY <2>3, <3>1, <3>2, <3>3
  <2>9. Jobs'
    BY <2>6, <2>7, <2>8 DEF Jobs
  <2> QED
    BY <2>4, <2>5, <2>9
<1>3. ASSUME NEW next \in {"none", "building", "native", "moltenvk"}, NEW off \in BOOLEAN,
             NEW outcome \in {"skip", "mismatch", "error"}, Refuse(next, outcome, off)
      PROVE  Job'
  BY <1>1, <1>3 DEF Refuse, Fail, drawableVars, gameVars, gpuVars, JobTypes, QueueTypes, Engaged
<1>4. ASSUME NEW next \in {"none", "building", "native", "moltenvk"}, NEW off \in BOOLEAN,
             NEW p \in Plans, Begin(next, off, p)
      PROVE  Job'
  <2>1. p \in Nat \X BOOLEAN
    BY <1>4, WorkerAssumption
  <2>2. /\ UNCHANGED <<texture, holders, serial, channel, frame, slot, presentEvent, presents, retire, shown>>
        /\ pc = "settle" /\ pc' \in {"generated", "original"} /\ plan' = p /\ engine' = next
        /\ framePending' = FALSE /\ copied' = presentSerial + 1 /\ presentSerial' = presentSerial + 1
        /\ pipeline' = Append(pipeline, Command("copyin", presentSerial + 1, FALSE))
    BY <1>4 DEF Begin, drawableVars, gameVars, channelVars
  <2>3. Command("copyin", presentSerial + 1, FALSE) \in Commands
    BY DEF Command, Commands, QueueTypes, JobTypes
  <2>4. pipeline' \in Seq(Commands)
    BY <2>2, <2>3, PipelineGrows
  <2>5. QueueTypes'
    <3>1. presentSerial' \in Nat
      BY <2>2 DEF QueueTypes
    <3>2. presentEvent' \in Nat /\ presents' \in Seq(Shots)
      BY <2>2 DEF QueueTypes
    <3> QED
      BY <2>4, <3>1, <3>2 DEF QueueTypes
  <2>6. JobTypes'
    <3>1. channel' \in Seq(Nat) /\ frame' \in Nat /\ slot' \in Nat
      BY <2>2 DEF JobTypes
    <3>2. copied' \in Nat /\ plan' \in Nat \X BOOLEAN
      BY <2>1, <2>2 DEF QueueTypes
    <3>3. pc' \in {"generated", "original"} /\ engine' \in {"none", "building", "native", "moltenvk"} /\ framePending' \in BOOLEAN
      BY <2>2
    <3> QED
      BY <3>1, <3>2, <3>3 DEF JobTypes, Engaged
  <2> QED
    BY <1>1, <2>2, <2>5, <2>6
<1>5. ASSUME NEW next \in {"none", "building", "native", "moltenvk"}, NEW off \in BOOLEAN,
             NEW submitted \in BOOLEAN, StartFails(next, off, submitted)
      PROVE  Job'
  <2>1. Command("copyin", presentSerial + 1, FALSE) \in Commands
    BY DEF Command, Commands, QueueTypes, JobTypes
  <2>2. /\ UNCHANGED <<texture, holders, serial, channel, frame, plan, slot, copied, presentEvent, presents, retire, shown>>
        /\ engine' = next /\ framePending' = FALSE /\ pc = "settle"
        /\ presentSerial' = presentSerial + 1
        /\ pipeline' = IF submitted THEN Append(pipeline, Command("copyin", presentSerial + 1, FALSE))
                       ELSE pipeline
    BY <1>5 DEF StartFails, drawableVars, gameVars
  <2>3. pipeline' \in Seq(Commands)
    <3>1. CASE submitted
      BY <2>1, <2>2, <3>1, PipelineGrows
    <3>2. CASE ~submitted
      BY <2>2, <3>2 DEF QueueTypes
    <3> QED
      BY <3>1, <3>2
  <2>4. QueueTypes'
    <3>1. presentSerial' \in Nat
      BY <2>2 DEF QueueTypes
    <3>2. presentEvent' \in Nat /\ presents' \in Seq(Shots)
      BY <2>2 DEF QueueTypes
    <3> QED
      BY <2>3, <3>1, <3>2 DEF QueueTypes
  <2>5. pc' \in {"natively", "reset"}
    BY <1>5 DEF StartFails, Fail
  <2>6. JobTypes'
    <3>1. /\ channel' \in Seq(Nat) /\ frame' \in Nat /\ slot' \in Nat /\ copied' \in Nat
          /\ plan' \in Nat \X BOOLEAN
      BY <2>2 DEF JobTypes
    <3>2. engine' \in {"none", "building", "native", "moltenvk"} /\ framePending' \in BOOLEAN
      BY <2>2
    <3> QED
      BY <2>5, <3>1, <3>2 DEF JobTypes, Engaged
  <2> QED
    BY <1>1, <2>2, <2>4, <2>6
<1>6. CASE NoTarget
  <2>1. pc' \in {"natively", "reset"}
    BY <1>6 DEF NoTarget, Fail
  <2> QED
    BY <1>1, <1>6, <2>1 DEF NoTarget, drawableVars, gameVars, engineVars, gpuVars, JobTypes, QueueTypes
<1>7. ASSUME NEW fence \in BOOLEAN, pc \in {"generated", "original"}
      PROVE  Command(pc, presentSerial + 1, fence) \in Commands
  BY <1>7 DEF Command, Commands, QueueTypes, JobTypes
<1>8. Last \in BOOLEAN
  BY DEF Last
<1>9. pc # "receive" => frame \in Drawables /\ "worker" \in holders[frame]
  BY DEF Jobs
<1>10. ASSUME JobDone, UNCHANGED <<texture, serial, channel>>, QueueTypes', shown' = shown,
              UNCHANGED <<engine, framePending>> \/ (framePending' \in BOOLEAN /\ engine' = engine),
              retire' \in Seq(Nat), Len(retire') = Len(retire), pc # "receive",
              NEW added \in SUBSET Holder, Hold(frame, {"worker"}, added)
       PROVE  Job'
  <2>1. /\ holders' \in Seq(SUBSET Holder) /\ Len(holders') = Len(holders)
        /\ \A e \in Drawables : e # frame => holders'[e] = holders[e]
    BY <1>9, <1>10, HoldChanges
  <2>2. DrawableTypes'
    BY <1>10, <2>1 DEF DrawableTypes, Drawables
  <2>3. JobTypes'
    BY <1>10 DEF JobTypes, JobDone, Forget
  <2>4. Jobs'
    BY <1>10, <2>1 DEF Jobs, JobDone, Drawables, DrawableTypes
  <2> QED
    BY <1>10, <2>2, <2>3, <2>4
<1>11. ASSUME NEW fence \in BOOLEAN, NEW op \in {"generated", "original"},
              presentSerial' = presentSerial + 1, presentEvent' = presentEvent,
              pipeline' = Append(pipeline, Command(op, presentSerial + 1, fence)),
              \/ presents' = presents
              \/ \E handler \in BOOLEAN : presents' = Append(presents,
                   [op |-> "present", frame |-> frame, value |-> presentSerial + 1, handler |-> handler])
       PROVE  QueueTypes'
  <2>1. Command(op, presentSerial + 1, fence) \in Commands
    BY DEF Command, Commands, QueueTypes, JobTypes
  <2>2. pipeline' \in Seq(Commands)
    BY <1>11, <2>1, PipelineGrows
  <2>3. presents' \in Seq(Shots)
    <3>1. CASE presents' = presents
      BY <3>1 DEF QueueTypes
    <3>2. ASSUME NEW handler \in BOOLEAN, presents' = Append(presents,
                   [op |-> "present", frame |-> frame, value |-> presentSerial + 1, handler |-> handler])
          PROVE  presents' \in Seq(Shots)
      <4>1. [op |-> "present", frame |-> frame, value |-> presentSerial + 1, handler |-> handler] \in Shots
        BY DEF Shots, QueueTypes, JobTypes
      <4> QED
        BY <3>2, <4>1, PresentsGrow
    <3> QED
      BY <1>11, <3>1, <3>2
  <2>4. presentSerial' \in Nat /\ presentEvent' \in Nat
    BY <1>11 DEF QueueTypes
  <2> QED
    BY <2>2, <2>3, <2>4 DEF QueueTypes
<1>12. CASE Show
  <2> DEFINE fence == engine = "moltenvk" /\ Fenced(Last)
  <2>1. fence \in BOOLEAN /\ Last \in BOOLEAN
    BY <1>8 DEF Fenced
  <2>2. /\ UNCHANGED <<texture, recycled, answered, serial, channel, engine, presentEvent, shown>>
        /\ pc \in {"generated", "original"}
        /\ presentSerial' = presentSerial + 1
        /\ pipeline' = Append(pipeline, Command(pc, presentSerial + 1, fence))
        /\ framePending' = (framePending \/ fence)
        /\ presents' = Append(presents, [op |-> "present", frame |-> frame, value |-> presentSerial + 1, handler |-> Last])
    BY <1>12 DEF Show, WaitsFor, CarriesHandler, gameVars, channelVars
  <2> HIDE DEF fence
  <2>3. QueueTypes'
    BY <1>11, <2>1, <2>2
  <2>4. framePending' \in BOOLEAN
    BY <2>2, Zenon
  <2>5. CASE Last
    <3>1. /\ retire' = [retire EXCEPT ![frame] = RetireAt(presentSerial + 1)]
          /\ Hold(frame, {"worker"}, {"handler", "retire"})
          /\ JobDone
      BY <1>12, <2>5 DEF Show
    <3>2. RetireAt(presentSerial + 1) \in Nat
      BY DEF RetireAt, QueueTypes, JobTypes
    <3>3. frame \in 1..Len(retire)
      BY <1>9, <2>2 DEF DrawableTypes, Drawables
    <3>4. retire' \in Seq(Nat) /\ Len(retire') = Len(retire)
      BY <3>1, <3>2, <3>3, ExceptSeq DEF DrawableTypes
    <3> QED
      BY <1>10, <2>2, <2>3, <2>4, <3>1, <3>4 DEF Holder
  <2>6. CASE ~Last
    <3>1. /\ pc' \in {"generated", "original"} /\ slot' = slot + 1
          /\ UNCHANGED <<retire, holders, frame, plan, copied>>
      BY <1>12, <2>6 DEF Show
    <3>2. JobTypes'
      <4>1. /\ channel' \in Seq(Nat) /\ frame' \in Nat /\ slot' \in Nat /\ copied' \in Nat
            /\ plan' \in Nat \X BOOLEAN
        BY <2>2, <3>1 DEF JobTypes
      <4>2. engine' \in {"none", "building"} \cup Engaged
        BY <2>2 DEF JobTypes
      <4> QED
        BY <2>4, <3>1, <4>1, <4>2 DEF JobTypes
    <3> QED
      BY <1>1, <2>2, <2>3, <3>1, <3>2
  <2> QED
    BY <2>5, <2>6
<1>13. ASSUME NEW outcome \in {"mismatch", "error"}, PresentFails(outcome)
       PROVE  Job'
  <2> DEFINE fence == engine = "moltenvk" /\ Fenced(Last)
  <2>1. fence \in BOOLEAN
    BY <1>8 DEF Fenced
  <2>2. /\ UNCHANGED <<texture, holders, serial, channel, frame, plan, slot, copied, engine, presentEvent, presents, retire, shown>>
        /\ pc \in {"generated", "original"} /\ pc' \in {"natively", "reset"}
        /\ presentSerial' = presentSerial + 1
        /\ pipeline' = Append(pipeline, Command(pc, presentSerial + 1, fence))
        /\ framePending' = (framePending \/ fence)
    BY <1>13 DEF PresentFails, Fail, gameVars
  <2> HIDE DEF fence
  <2>3. QueueTypes'
    BY <1>11, <2>1, <2>2
  <2>4. framePending' \in BOOLEAN
    BY <2>2, Zenon
  <2>5. JobTypes'
    BY <2>2, <2>4 DEF JobTypes
  <2> QED
    BY <1>1, <2>2, <2>3, <2>5
<1>14. CASE Reset
  <2>1. /\ UNCHANGED <<drawableVars, gameVars, channelVars, frame, plan, slot, copied, nativeOff, framePending, gpuVars>>
        /\ engine' \in {"none", "building"} /\ pc = "reset" /\ pc' = "natively"
    BY <1>14 DEF Reset, Unbuilt
  <2>2. JobTypes' /\ QueueTypes'
    BY <2>1 DEF JobTypes, QueueTypes, channelVars, gpuVars
  <2> QED
    BY <1>1, <2>1, <2>2 DEF drawableVars, gameVars, channelVars, gpuVars
<1>15. ASSUME NEW found \in BOOLEAN, PresentNatively(found)
       PROVE  Job'
  <2>1. /\ UNCHANGED <<serial, channel, engine, framePending, presentSerial, pipeline, presentEvent, retire, shown>>
        /\ ShowNatively(frame, {"worker"}, found) /\ JobDone /\ pc = "natively"
    BY <1>15 DEF PresentNatively, gameVars, channelVars, engineVars
  <2>2. CASE /\ presents' = Append(presents, [op |-> "native", frame |-> frame, value |-> serial[frame], handler |-> TRUE])
             /\ [op |-> "native", frame |-> frame, value |-> serial[frame], handler |-> TRUE] \in Shots
             /\ Hold(frame, {"worker"}, {"copy", "handler"})
             /\ UNCHANGED <<texture, recycled>>
    <3>1. presents' \in Seq(Shots)
      BY <2>2, PresentsGrow
    <3>2. QueueTypes'
      BY <2>1, <3>1 DEF QueueTypes
    <3>3. retire' \in Seq(Nat) /\ Len(retire') = Len(retire)
      BY <2>1 DEF DrawableTypes
    <3> QED
      BY <1>10, <2>1, <2>2, <3>2, <3>3 DEF Holder
  <2>3. CASE UNCHANGED <<texture, recycled, presents>> /\ Hold(frame, {"worker"}, {})
    <3>1. QueueTypes'
      BY <2>1, <2>3 DEF QueueTypes
    <3>2. retire' \in Seq(Nat) /\ Len(retire') = Len(retire)
      BY <2>1 DEF DrawableTypes
    <3> QED
      BY <1>10, <2>1, <2>3, <3>1, <3>2 DEF Holder
  <2>4. frame \in Drawables
    BY <1>9, <2>1
  <2> QED
    BY <2>1, <2>2, <2>3, <2>4, NativeShot
<1>16. CASE GameCompletes
  BY <1>16 DEF GameCompletes, drawableVars, channelVars, jobVars, engineVars, gpuVars, DrawableTypes, QueueTypes, JobTypes, Jobs, Drawables
<1>17. ASSUME UNCHANGED <<texture, serial, channelVars, jobVars, engineVars>>, QueueTypes',
              holders' \in Seq(SUBSET Holder), Len(holders') = Len(holders),
              retire' \in Seq(Nat), Len(retire') = Len(retire), shown' \subseteq Drawables,
              \A e \in Drawables : "worker" \in holders[e] => "worker" \in holders'[e]
       PROVE  Job'
  <2>1. DrawableTypes'
    BY <1>17 DEF DrawableTypes, Drawables
  <2>2. JobTypes'
    BY <1>17 DEF JobTypes, channelVars, jobVars, engineVars
  <2>3. Jobs'
    BY <1>17 DEF Jobs, channelVars, jobVars, Drawables
  <2> QED
    BY <1>17, <2>1, <2>2, <2>3
<1>18. holders \in Seq(SUBSET Holder) /\ retire \in Seq(Nat) /\ shown \subseteq Drawables
  BY DEF DrawableTypes
<1>19. CASE PipelineCompletes
  <2>1. /\ UNCHANGED <<drawableVars, gameVars, channelVars, jobVars, engineVars, presentSerial, presents, retire, shown>>
        /\ pipeline # <<>> /\ pipeline' = Tail(pipeline) /\ presentEvent' = Head(pipeline).value
    BY <1>19 DEF PipelineCompletes
  <2>2. pipeline' \in Seq(Commands) /\ Head(pipeline) \in Commands
    BY <2>1, HeadTailProperties DEF QueueTypes
  <2>3. presentEvent' \in Nat
    BY <2>1, <2>2 DEF Commands
  <2>4. QueueTypes'
    BY <2>1, <2>2, <2>3 DEF QueueTypes
  <2> QED
    BY <1>17, <1>18, <2>1, <2>4 DEF drawableVars, gameVars
<1>20. CASE PresentCompletes
  <2> DEFINE c == Head(presents)
  <2>1. /\ UNCHANGED <<texture, recycled, answered, gameVars, channelVars, jobVars, engineVars, presentSerial, pipeline, presentEvent, retire>>
        /\ presents # <<>> /\ presents' = Tail(presents)
    BY <1>20 DEF PresentCompletes
  <2>2. /\ shown' = IF c.handler THEN shown \cup {c.frame} ELSE shown
        /\ IF c.op = "native" THEN Hold(c.frame, {"copy"}, {}) ELSE UNCHANGED holders
    BY <1>20 DEF PresentCompletes
  <2>3. /\ presents' \in Seq(Shots) /\ Head(presents) \in Shots
        /\ Head(presents) = presents[1] /\ 1 \in 1..Len(presents)
    BY <2>1, HeadTailProperties DEF QueueTypes
  <2>4. c.frame \in Drawables
    BY <2>3 DEF Framed
  <2>5. QueueTypes'
    <3>1. pipeline' \in Seq(Commands) /\ presentSerial' \in Nat /\ presentEvent' \in Nat
      BY <2>1 DEF QueueTypes
    <3> QED
      BY <2>3, <3>1 DEF QueueTypes
  <2>6. shown' \subseteq Drawables
    BY <1>18, <2>2, <2>4
  <2>7. /\ holders' \in Seq(SUBSET Holder) /\ Len(holders') = Len(holders)
        /\ \A e \in Drawables : "worker" \in holders[e] => "worker" \in holders'[e]
    <3>1. CASE c.op = "native"
      <4>1. Hold(c.frame, {"copy"}, {})
        BY <2>2, <3>1
      <4> HIDE DEF c
      <4> QED
        BY <2>4, <4>1, HoldKeeps
    <3>2. CASE c.op # "native"
      BY <1>18, <2>2, <3>2
    <3> QED
      BY <3>1, <3>2
  <2>8. UNCHANGED <<texture, serial>> /\ retire' \in Seq(Nat) /\ Len(retire') = Len(retire)
    BY <1>18, <2>1 DEF gameVars
  <2> QED
    BY <1>17, <2>1, <2>5, <2>6, <2>7, <2>8
<1>21. ASSUME NEW d \in Drawables, Retire(d)
       PROVE  Job'
  <2>1. /\ UNCHANGED <<texture, recycled, answered, gameVars, channelVars, jobVars, engineVars,
                       presentSerial, pipeline, presentEvent, presents, shown>>
        /\ retire' = [retire EXCEPT ![d] = 0] /\ Hold(d, {"retire"}, {})
    BY <1>21 DEF Retire
  <2>2. retire' \in Seq(Nat) /\ Len(retire') = Len(retire)
    BY <1>21, <2>1, ExceptSeq DEF DrawableTypes, Drawables
  <2>3. QueueTypes' /\ UNCHANGED <<texture, serial>> /\ shown' \subseteq Drawables
    BY <1>18, <2>1 DEF QueueTypes, gameVars
  <2>4. /\ holders' \in Seq(SUBSET Holder) /\ Len(holders') = Len(holders)
        /\ \A e \in Drawables : "worker" \in holders[e] => "worker" \in holders'[e]
    BY <2>1, HoldKeeps
  <2> QED
    BY <1>17, <2>1, <2>2, <2>3, <2>4
<1>22. ASSUME NEW d \in Drawables, Presented(d)
       PROVE  Job'
  <2>1. /\ UNCHANGED <<texture, gameVars, channelVars, jobVars, engineVars,
                       presentSerial, pipeline, presentEvent, presents, retire>>
        /\ shown' = shown \ {d} /\ Hold(d, {"handler"}, {})
    BY <1>22 DEF Presented
  <2>2. QueueTypes' /\ UNCHANGED <<texture, serial>> /\ shown' \subseteq Drawables
        /\ retire' \in Seq(Nat) /\ Len(retire') = Len(retire)
    BY <1>18, <2>1 DEF QueueTypes, gameVars
  <2>3. /\ holders' \in Seq(SUBSET Holder) /\ Len(holders') = Len(holders)
        /\ \A e \in Drawables : "worker" \in holders[e] => "worker" \in holders'[e]
    BY <2>1, HoldKeeps
  <2> QED
    BY <1>17, <2>1, <2>2, <2>3
<1> QED
  BY <1>2, <1>3, <1>4, <1>5, <1>6, <1>12, <1>13, <1>14, <1>15, <1>16, <1>19, <1>20, <1>21, <1>22 DEF Worker, Devices

-----------------------------------------------------------------------------
(* The worker submits one command, with the next value of its event.        *)
Submits(op, fence) ==
  /\ presentSerial' = presentSerial + 1 /\ presentEvent' = presentEvent
  /\ pipeline' = Append(pipeline, Command(op, presentSerial + 1, fence))

(* What a step may do to the pipeline: one command more, or its oldest      *)
(* gone.                                                                    *)
LEMMA PipelineMoves ==
  ASSUME Worker \/ Devices
  PROVE  \/ /\ UNCHANGED <<pipeline, presentEvent>>
            /\ presentSerial' \in {presentSerial, presentSerial + 1}
         \/ /\ \E op \in {"copyin", "generated", "original"}, fence \in BOOLEAN : Submits(op, fence)
            /\ pc # "receive"
         \/ PipelineCompletes
<1> DEFINE still == UNCHANGED <<pipeline, presentEvent>> /\ presentSerial' \in {presentSerial, presentSerial + 1}
           grows == /\ \E op \in {"copyin", "generated", "original"}, fence \in BOOLEAN : Submits(op, fence)
                    /\ pc # "receive"
<1> SUFFICES still \/ grows \/ PipelineCompletes
  OBVIOUS
<1>1. ASSUME NEW next, NEW off, NEW outcome, Refuse(next, outcome, off) PROVE still
  BY <1>1 DEF Refuse, gpuVars
<1>2. ASSUME NEW next, NEW off, NEW p, Begin(next, off, p) PROVE grows
  BY <1>2 DEF Begin, Submits
<1>3. ASSUME NEW next, NEW off, NEW submitted \in BOOLEAN, StartFails(next, off, submitted) PROVE still \/ grows
  <2>1. CASE submitted = TRUE
    BY <1>3, <2>1 DEF StartFails, Submits
  <2>2. CASE submitted = FALSE
    BY <1>3, <2>2 DEF StartFails
  <2> QED
    BY <1>3, <2>1, <2>2
<1>4. (engine = "moltenvk" /\ Fenced(Last)) \in BOOLEAN
  OBVIOUS
<1>5. CASE Show
  <2>1. Submits(pc, engine = "moltenvk" /\ Fenced(Last)) /\ pc \in {"generated", "original"}
    BY <1>5 DEF Show, Submits
  <2> QED
    BY <1>4, <2>1
<1>6. ASSUME NEW outcome, PresentFails(outcome) PROVE grows
  <2>1. Submits(pc, engine = "moltenvk" /\ Fenced(Last)) /\ pc \in {"generated", "original"}
    BY <1>6 DEF PresentFails, Submits
  <2> QED
    BY <1>4, <2>1
<1>7. CASE Receive \/ NoTarget \/ Reset \/ \E found \in BOOLEAN : PresentNatively(found)
  BY <1>7 DEF Receive, NoTarget, Reset, PresentNatively, gpuVars
<1>8. CASE GameCompletes \/ PresentCompletes \/ \E d \in Drawables : Retire(d) \/ Presented(d)
  BY <1>8 DEF GameCompletes, PresentCompletes, Retire, Presented, gpuVars
<1> HIDE DEF still, grows
<1> QED
  BY <1>1, <1>2, <1>3, <1>5, <1>6, <1>7, <1>8 DEF Worker, Devices

(* What a step may do to the presents: one more, or the oldest gone.        *)
LEMMA PresentsMove ==
  ASSUME Worker \/ Devices
  PROVE  \/ UNCHANGED presents
         \/ /\ presents' = Append(presents, [op |-> "present", frame |-> frame, value |-> presentSerial + 1, handler |-> Last])
            /\ \E op \in {"generated", "original"}, fence \in BOOLEAN : Submits(op, fence)
            /\ pc # "receive"
         \/ /\ presents' = Append(presents, [op |-> "native", frame |-> frame, value |-> serial[frame], handler |-> TRUE])
            /\ UNCHANGED <<pipeline, presentEvent>>
            /\ pc # "receive"
         \/ /\ presents # <<>> /\ presents' = Tail(presents)
            /\ UNCHANGED <<pipeline, presentEvent>>
<1>1. ASSUME NEW next, NEW off, NEW outcome, Refuse(next, outcome, off) PROVE UNCHANGED presents
  BY <1>1 DEF Refuse, gpuVars
<1>2. ASSUME NEW next, NEW off, NEW p, Begin(next, off, p) PROVE UNCHANGED presents
  BY <1>2 DEF Begin
<1>3. ASSUME NEW next, NEW off, NEW submitted, StartFails(next, off, submitted) PROVE UNCHANGED presents
  BY <1>3 DEF StartFails
<1>4. ASSUME NEW outcome, PresentFails(outcome) PROVE UNCHANGED presents
  BY <1>4 DEF PresentFails
<1>5. CASE Show
  <2>1. Submits(pc, engine = "moltenvk" /\ Fenced(Last)) /\ pc \in {"generated", "original"}
    BY <1>5 DEF Show, Submits
  <2>2. presents' = Append(presents, [op |-> "present", frame |-> frame, value |-> presentSerial + 1, handler |-> Last])
    BY <1>5 DEF Show, WaitsFor, CarriesHandler
  <2>3. (engine = "moltenvk" /\ Fenced(Last)) \in BOOLEAN
    OBVIOUS
  <2>4. \E op \in {"generated", "original"}, fence \in BOOLEAN : Submits(op, fence)
    BY <2>1, <2>3
  <2> QED
    BY <2>1, <2>2, <2>4
<1>6. ASSUME NEW found \in BOOLEAN, PresentNatively(found)
      PROVE  \/ UNCHANGED presents
             \/ /\ presents' = Append(presents, [op |-> "native", frame |-> frame, value |-> serial[frame], handler |-> TRUE])
                /\ UNCHANGED <<pipeline, presentEvent>>
                /\ pc # "receive"
  BY <1>6 DEF PresentNatively, ShowNatively
<1>7. CASE PresentCompletes
  BY <1>7 DEF PresentCompletes
<1>8. CASE Receive \/ NoTarget \/ Reset \/ GameCompletes \/ PipelineCompletes \/ \E d \in Drawables : Retire(d) \/ Presented(d)
  BY <1>8 DEF Receive, NoTarget, Reset, GameCompletes, PipelineCompletes, Retire, Presented, gpuVars
<1> QED
  BY <1>1, <1>2, <1>3, <1>4, <1>5, <1>6, <1>7, <1>8 DEF Worker, Devices

(* The values of the present event: every command signals a value of its    *)
(* own, larger than those before it and not yet reached, and every present  *)
(* waits for one that was reached or that a command will signal.            *)
LastValue == IF pipeline = <<>> THEN presentEvent ELSE pipeline[Len(pipeline)].value

(* The values on the pipeline ascend, all of them still to come, and no     *)
(* present waits for more than the last one.                                *)
Values ==
  /\ presentEvent <= presentSerial
  /\ \A i \in 1..Len(pipeline) :
       /\ presentEvent < pipeline[i].value /\ pipeline[i].value <= presentSerial
       /\ \A j \in 1..Len(pipeline) : i < j => pipeline[i].value < pipeline[j].value
  /\ \A i \in 1..Len(presents) : presents[i].op = "present" => presents[i].value <= LastValue

(* Every value on the pipeline is a number, and so is the last one.         *)
LEMMA LastValueType ==
  ASSUME QueueTypes
  PROVE  LastValue \in Nat /\ \A i \in 1..Len(pipeline) : pipeline[i] \in Commands /\ pipeline[i].value \in Nat
<1>1. ASSUME NEW i \in 1..Len(pipeline) PROVE pipeline[i] \in Commands /\ pipeline[i].value \in Nat
  <2>1. pipeline[i] \in Commands
    BY ElementOfSeq DEF QueueTypes
  <2> QED
    BY <2>1 DEF Commands
<1>2. pipeline # <<>> => Len(pipeline) \in 1..Len(pipeline)
  BY DEF QueueTypes
<1> QED
  BY <1>1, <1>2 DEF LastValue, QueueTypes

(* A submit takes the next value, which is above all the others.            *)
LEMMA SubmitsValues ==
  ASSUME QueueTypes, JobTypes, Values, NEW op \in {"copyin", "generated", "original"}, NEW fence \in BOOLEAN, Submits(op, fence)
  PROVE  /\ Len(pipeline') = Len(pipeline) + 1
         /\ \A i \in 1..Len(pipeline) : pipeline'[i] = pipeline[i]
         /\ pipeline'[Len(pipeline) + 1] = Command(op, presentSerial + 1, fence)
         /\ LastValue' = presentSerial + 1 /\ LastValue <= presentSerial
         /\ presentEvent' <= presentSerial'
         /\ \A i \in 1..Len(pipeline') :
              /\ presentEvent' < pipeline'[i].value /\ pipeline'[i].value <= presentSerial'
              /\ \A j \in 1..Len(pipeline') : i < j => pipeline'[i].value < pipeline'[j].value
<1> DEFINE c == Command(op, presentSerial + 1, fence)
<1>1. c \in Commands /\ c.value = presentSerial + 1
  BY DEF Command, Commands, QueueTypes, JobTypes
<1>2. pipeline' = Append(pipeline, c) /\ presentSerial' = presentSerial + 1 /\ presentEvent' = presentEvent
  BY DEF Submits
<1> HIDE DEF c
<1>3. /\ Len(pipeline') = Len(pipeline) + 1
      /\ \A i \in 1..Len(pipeline) : pipeline'[i] = pipeline[i]
      /\ pipeline'[Len(pipeline) + 1] = c
  BY <1>1, <1>2, PipelineGrows
<1>4. Len(pipeline) \in Nat /\ pipeline' # <<>> /\ presentSerial \in Nat /\ presentEvent \in Nat
  <2>1. Len(pipeline) \in Nat /\ presentSerial \in Nat /\ presentEvent \in Nat
    BY DEF QueueTypes
  <2> QED
    BY <1>3, <2>1
<1>5. LastValue' = presentSerial + 1
  BY <1>1, <1>3, <1>4 DEF LastValue
<1>6. LastValue <= presentSerial
  BY <1>4 DEF LastValue, Values
<1>7. ASSUME NEW i \in 1..Len(pipeline')
      PROVE  /\ presentEvent' < pipeline'[i].value /\ pipeline'[i].value <= presentSerial'
             /\ \A j \in 1..Len(pipeline') : i < j => pipeline'[i].value < pipeline'[j].value
  <2>1. CASE i = Len(pipeline) + 1
    BY <1>1, <1>2, <1>3, <1>4, <2>1 DEF Values
  <2>2. CASE i \in 1..Len(pipeline)
    <3>1. pipeline'[i].value \in Nat /\ presentEvent < pipeline'[i].value /\ pipeline'[i].value <= presentSerial
      BY <1>3, <2>2, LastValueType DEF Values
    <3>2. ASSUME NEW j \in 1..Len(pipeline'), i < j PROVE pipeline'[i].value < pipeline'[j].value
      <4>1. CASE j = Len(pipeline) + 1
        BY <1>1, <1>3, <1>4, <3>1, <4>1
      <4>2. CASE j \in 1..Len(pipeline)
        BY <1>3, <2>2, <3>2, <4>2 DEF Values
      <4> QED
        BY <1>3, <1>4, <4>1, <4>2
    <3> QED
      BY <1>2, <1>4, <3>1, <3>2
  <2> QED
    BY <1>3, <1>4, <2>1, <2>2
<1>8. presentEvent' <= presentSerial'
  BY <1>2, <1>4 DEF Values
<1> QED
  BY <1>3, <1>5, <1>6, <1>7, <1>8, Zenon DEF c

(* The worker and the devices make no drawable and sign nothing for the     *)
(* game.                                                                    *)
LEMMA TexturesStay ==
  ASSUME Worker \/ Devices
  PROVE  UNCHANGED <<texture, serial, gameSerial>>
<1>1. CASE Worker
  BY <1>1 DEF Worker, Receive, Refuse, Begin, StartFails, NoTarget, Show, PresentFails, Reset, PresentNatively, ShowNatively,
              drawableVars, gameVars
<1>2. CASE Devices
  BY <1>2 DEF Devices, GameCompletes, PipelineCompletes, PresentCompletes, Retire, Presented, drawableVars, gameVars
<1> QED
  BY <1>1, <1>2

(* The frame being worked on is a drawable the worker holds.                *)
LEMMA FrameKnown ==
  ASSUME Job, pc # "receive"
  PROVE  frame \in Drawables /\ frame \in Nat /\ "worker" \in holders[frame] /\ serial[frame] \in Nat
<1>1. frame \in Drawables /\ "worker" \in holders[frame]
  BY DEF Job, Jobs
<1>2. serial[frame] \in Nat
  BY <1>1, ElementOfSeq DEF Job, DrawableTypes, Drawables
<1> QED
  BY <1>1, <1>2 DEF Job, JobTypes

(* The presents that are left when the oldest completes.                    *)
LEMMA PresentsTail ==
  ASSUME QueueTypes, presents # <<>>, presents' = Tail(presents)
  PROVE  /\ Len(presents') = Len(presents) - 1 /\ Len(presents) \in Nat
         /\ \A i \in 1..Len(presents') : i + 1 \in 1..Len(presents) /\ presents'[i] = presents[i + 1]
<1>1. Len(presents') = Len(presents) - 1 /\ \A i \in 1..Len(presents') : presents'[i] = presents[i + 1]
  BY HeadTailProperties DEF QueueTypes
<1>2. Len(presents) \in Nat
  BY DEF QueueTypes
<1> QED
  BY <1>1, <1>2

(* The commands that are left when the oldest completes.                    *)
LEMMA PipelineTail ==
  ASSUME QueueTypes, pipeline # <<>>, pipeline' = Tail(pipeline)
  PROVE  /\ Len(pipeline') = Len(pipeline) - 1 /\ Len(pipeline) \in Nat /\ Len(pipeline) > 0
         /\ Head(pipeline) = pipeline[1]
         /\ \A i \in 1..Len(pipeline') : i + 1 \in 1..Len(pipeline) /\ pipeline'[i] = pipeline[i + 1]
<1>1. Len(pipeline') = Len(pipeline) - 1 /\ \A i \in 1..Len(pipeline') : pipeline'[i] = pipeline[i + 1]
  BY HeadTailProperties DEF QueueTypes
<1>2. Len(pipeline) \in Nat /\ Len(pipeline) > 0 /\ Head(pipeline) = pipeline[1]
  BY DEF QueueTypes
<1> QED
  BY <1>1, <1>2

(* What is submitted stays about drawables there are.                       *)
LEMMA FramedStep ==
  ASSUME Job, Framed, Worker \/ Devices
  PROVE  Framed'
<1>1. Drawables' = Drawables
  BY TexturesStay DEF Drawables
<1>2. QueueTypes /\ JobTypes
  BY DEF Job
<1>3. ASSUME NEW i \in 1..Len(pipeline') PROVE pipeline'[i].frame \in Drawables
  <2>1. CASE UNCHANGED pipeline
    BY <2>1 DEF Framed
  <2>2. CASE (\E op \in {"copyin", "generated", "original"}, fence \in BOOLEAN : Submits(op, fence)) /\ pc # "receive"
    <3>1. PICK op \in {"copyin", "generated", "original"}, fence \in BOOLEAN : pipeline' = Append(pipeline, Command(op, presentSerial + 1, fence))
      BY <2>2 DEF Submits
    <3>2. Command(op, presentSerial + 1, fence) \in Commands /\ Command(op, presentSerial + 1, fence).frame = frame
      BY <1>2 DEF Command, Commands, QueueTypes, JobTypes
    <3>3. frame \in Drawables
      BY <2>2, FrameKnown
    <3>4. /\ Len(pipeline') = Len(pipeline) + 1 /\ Len(pipeline) \in Nat
          /\ \A k \in 1..Len(pipeline) : pipeline'[k] = pipeline[k]
          /\ pipeline'[Len(pipeline) + 1] = Command(op, presentSerial + 1, fence)
      BY <1>2, <3>1, <3>2, PipelineGrows DEF QueueTypes
    <3>5. CASE i = Len(pipeline) + 1
      BY <3>2, <3>3, <3>4, <3>5
    <3>6. CASE i \in 1..Len(pipeline)
      BY <3>4, <3>6 DEF Framed
    <3> QED
      BY <3>4, <3>5, <3>6
  <2>3. CASE PipelineCompletes
    <3>1. i + 1 \in 1..Len(pipeline) /\ pipeline'[i] = pipeline[i + 1]
      BY <1>2, <2>3, PipelineTail DEF PipelineCompletes
    <3> QED
      BY <3>1 DEF Framed
  <2> QED
    BY <2>1, <2>2, <2>3, PipelineMoves
<1>4. ASSUME NEW c, c \in Shots, c.frame = frame, pc # "receive", presents' = Append(presents, c), NEW i \in 1..Len(presents')
      PROVE  presents'[i].frame \in Drawables
  <2>1. /\ Len(presents') = Len(presents) + 1 /\ Len(presents) \in Nat
        /\ \A k \in 1..Len(presents) : presents'[k] = presents[k]
        /\ presents'[Len(presents) + 1] = c
    BY <1>2, <1>4, PresentsGrow DEF QueueTypes
  <2>2. frame \in Drawables
    BY <1>4, FrameKnown
  <2>3. CASE i = Len(presents) + 1
    BY <1>4, <2>1, <2>2, <2>3
  <2>4. CASE i \in 1..Len(presents)
    BY <2>1, <2>4 DEF Framed
  <2> QED
    BY <2>1, <2>3, <2>4
<1>5. ASSUME NEW i \in 1..Len(presents') PROVE presents'[i].frame \in Drawables
  <2>1. CASE UNCHANGED presents
    BY <2>1 DEF Framed
  <2>2. CASE /\ presents' = Append(presents, [op |-> "present", frame |-> frame, value |-> presentSerial + 1, handler |-> Last])
             /\ pc # "receive"
    <3> DEFINE c == [op |-> "present", frame |-> frame, value |-> presentSerial + 1, handler |-> Last]
    <3>1. Last \in BOOLEAN
      BY DEF Last
    <3>2. c \in Shots /\ c.frame = frame
      BY <1>2, <3>1 DEF Shots, QueueTypes, JobTypes
    <3>3. presents' = Append(presents, c)
      BY <2>2
    <3> HIDE DEF c
    <3> QED
      BY <1>4, <2>2, <3>2, <3>3
  <2>3. CASE /\ presents' = Append(presents, [op |-> "native", frame |-> frame, value |-> serial[frame], handler |-> TRUE])
             /\ pc # "receive"
    <3> DEFINE c == [op |-> "native", frame |-> frame, value |-> serial[frame], handler |-> TRUE]
    <3>1. c \in Shots /\ c.frame = frame
      BY <2>3, FrameKnown DEF Shots
    <3>2. presents' = Append(presents, c)
      BY <2>3
    <3> HIDE DEF c
    <3> QED
      BY <1>4, <2>3, <3>1, <3>2
  <2>4. CASE presents # <<>> /\ presents' = Tail(presents)
    <3>1. i + 1 \in 1..Len(presents) /\ presents'[i] = presents[i + 1]
      BY <1>2, <2>4, PresentsTail
    <3> QED
      BY <3>1 DEF Framed
  <2> QED
    BY <2>1, <2>2, <2>3, <2>4, PresentsMove
<1> QED
  BY <1>1, <1>3, <1>5 DEF Framed

(* The pipeline completes in the order of its values.                       *)
LEMMA CompletesValues ==
  ASSUME QueueTypes, Values, PipelineCompletes
  PROVE  /\ LastValue' = LastValue /\ presentSerial' = presentSerial
         /\ presentEvent' <= presentSerial'
         /\ \A i \in 1..Len(pipeline') :
              /\ presentEvent' < pipeline'[i].value /\ pipeline'[i].value <= presentSerial'
              /\ \A j \in 1..Len(pipeline') : i < j => pipeline'[i].value < pipeline'[j].value
<1>1. /\ pipeline # <<>> /\ pipeline' = Tail(pipeline) /\ presentEvent' = Head(pipeline).value
      /\ presentSerial' = presentSerial
  BY DEF PipelineCompletes
<1>2. /\ Len(pipeline') = Len(pipeline) - 1 /\ Len(pipeline) \in Nat /\ Len(pipeline) > 0
      /\ Head(pipeline) = pipeline[1]
      /\ \A i \in 1..Len(pipeline') : i + 1 \in 1..Len(pipeline) /\ pipeline'[i] = pipeline[i + 1]
  BY <1>1, PipelineTail
<1>3. presentEvent' = pipeline[1].value /\ 1 \in 1..Len(pipeline)
  BY <1>1, <1>2
<1>4. LastValue' = LastValue
  <2>1. CASE Len(pipeline) = 1
    <3>1. Len(pipeline') = 0
      BY <1>2, <2>1
    <3>2. pipeline' = <<>>
      BY <1>1, <3>1, HeadTailProperties, EmptySeq DEF QueueTypes
    <3> QED
      BY <1>1, <1>3, <2>1, <3>2 DEF LastValue
  <2>2. CASE Len(pipeline) # 1
    <3>1. Len(pipeline') \in 1..Len(pipeline') /\ Len(pipeline') + 1 = Len(pipeline)
      BY <1>2, <2>2
    <3>2. pipeline'[Len(pipeline')] = pipeline[Len(pipeline)] /\ pipeline' # <<>>
      BY <1>2, <3>1
    <3> QED
      BY <1>1, <3>2 DEF LastValue
  <2> QED
    BY <2>1, <2>2
<1>5. ASSUME NEW i \in 1..Len(pipeline')
      PROVE  /\ presentEvent' < pipeline'[i].value /\ pipeline'[i].value <= presentSerial'
             /\ \A j \in 1..Len(pipeline') : i < j => pipeline'[i].value < pipeline'[j].value
  <2>1. 1 < i + 1 /\ i + 1 \in 1..Len(pipeline) /\ pipeline'[i] = pipeline[i + 1]
    BY <1>2
  <2>2. pipeline[1].value < pipeline[i + 1].value
    BY <1>3, <2>1 DEF Values
  <2>3. ASSUME NEW j \in 1..Len(pipeline'), i < j PROVE pipeline'[i].value < pipeline'[j].value
    <3>1. i + 1 < j + 1 /\ j + 1 \in 1..Len(pipeline) /\ pipeline'[j] = pipeline[j + 1]
      BY <1>2, <2>3
    <3> QED
      BY <2>1, <3>1 DEF Values
  <2>4. pipeline[i + 1].value <= presentSerial
    BY <2>1 DEF Values
  <2> QED
    BY <1>1, <1>3, <2>1, <2>2, <2>3, <2>4
<1>6. presentEvent' <= presentSerial'
  BY <1>1, <1>3 DEF Values
<1> QED
  BY <1>1, <1>4, <1>5, <1>6

(* No step of the worker or the devices breaks the order of the values.     *)
LEMMA ValuesStep ==
  ASSUME Job, Framed, Values, Worker \/ Devices
  PROVE  Values' /\ LastValue <= LastValue'
<1>1. QueueTypes /\ JobTypes /\ QueueTypes'
  BY JobStep DEF Job
<1>2. /\ LastValue <= LastValue' /\ LastValue' \in Nat /\ LastValue \in Nat
      /\ presentEvent' <= presentSerial'
      /\ \A i \in 1..Len(pipeline') :
           /\ presentEvent' < pipeline'[i].value /\ pipeline'[i].value <= presentSerial'
           /\ \A j \in 1..Len(pipeline') : i < j => pipeline'[i].value < pipeline'[j].value
  <2>1. LastValue \in Nat /\ LastValue' \in Nat
    <3>1. LastValue \in Nat
      BY <1>1, LastValueType
    <3>2. LastValue' \in Nat
      <4>1. pipeline' # <<>> => Len(pipeline') \in 1..Len(pipeline')
        BY <1>1 DEF QueueTypes
      <4>2. pipeline' # <<>> => pipeline'[Len(pipeline')] \in Commands
        BY <1>1, <4>1, ElementOfSeq DEF QueueTypes
      <4> QED
        BY <1>1, <4>2 DEF LastValue, QueueTypes, Commands
    <3> QED
      BY <3>1, <3>2
  <2>2. CASE UNCHANGED <<pipeline, presentEvent>> /\ presentSerial' \in {presentSerial, presentSerial + 1}
    <3>1. LastValue' = LastValue
      BY <2>2 DEF LastValue
    <3>2. presentSerial <= presentSerial' /\ presentSerial \in Nat /\ presentSerial' \in Nat /\ presentEvent \in Nat
      BY <1>1, <2>2 DEF QueueTypes
    <3>3. ASSUME NEW i \in 1..Len(pipeline')
          PROVE  /\ presentEvent' < pipeline'[i].value /\ pipeline'[i].value <= presentSerial'
                 /\ \A j \in 1..Len(pipeline') : i < j => pipeline'[i].value < pipeline'[j].value
      <4>1. pipeline'[i].value \in Nat
        BY <1>1, <2>2, LastValueType
      <4> QED
        BY <2>2, <3>2, <4>1 DEF Values
    <3>4. presentEvent' <= presentSerial'
      BY <2>2, <3>2 DEF Values
    <3> QED
      BY <2>1, <3>1, <3>3, <3>4
  <2>3. CASE \E op \in {"copyin", "generated", "original"}, fence \in BOOLEAN : Submits(op, fence)
    <3>1. PICK op \in {"copyin", "generated", "original"}, fence \in BOOLEAN : Submits(op, fence)
      BY <2>3
    <3>2. LastValue' = presentSerial + 1 /\ LastValue <= presentSerial
      BY <1>1, <3>1, SubmitsValues
    <3>3. LastValue <= LastValue'
      BY <1>1, <2>1, <3>2 DEF QueueTypes
    <3>4. /\ presentEvent' <= presentSerial'
          /\ \A i \in 1..Len(pipeline') :
               /\ presentEvent' < pipeline'[i].value /\ pipeline'[i].value <= presentSerial'
               /\ \A j \in 1..Len(pipeline') : i < j => pipeline'[i].value < pipeline'[j].value
      BY <1>1, <3>1, SubmitsValues
    <3> QED
      BY <2>1, <3>3, <3>4
  <2>4. CASE PipelineCompletes
    <3>1. /\ LastValue' = LastValue
          /\ presentEvent' <= presentSerial'
          /\ \A i \in 1..Len(pipeline') :
               /\ presentEvent' < pipeline'[i].value /\ pipeline'[i].value <= presentSerial'
               /\ \A j \in 1..Len(pipeline') : i < j => pipeline'[i].value < pipeline'[j].value
      BY <1>1, <2>4, CompletesValues
    <3>2. LastValue <= LastValue'
      BY <2>1, <3>1
    <3> QED
      BY <2>1, <3>1, <3>2
  <2> QED
    BY <2>2, <2>3, <2>4, PipelineMoves
<1>3. ASSUME NEW i \in 1..Len(presents'), presents'[i].op = "present"
      PROVE  presents'[i].value <= LastValue'
  <2>1. ASSUME NEW k \in 1..Len(presents), presents[k].op = "present" PROVE presents[k].value <= LastValue'
    <3>1. presents[k] \in Shots
      BY <1>1, ElementOfSeq DEF QueueTypes
    <3>2. presents[k].value \in Nat /\ presents[k].value <= LastValue
      BY <2>1, <3>1 DEF Shots, Values
    <3> QED
      BY <1>2, <3>2
  <2>2. CASE UNCHANGED presents
    BY <1>3, <2>1, <2>2
  <2>3. CASE /\ presents' = Append(presents, [op |-> "present", frame |-> frame, value |-> presentSerial + 1, handler |-> Last])
             /\ \E op \in {"generated", "original"}, fence \in BOOLEAN : Submits(op, fence)
    <3> DEFINE c == [op |-> "present", frame |-> frame, value |-> presentSerial + 1, handler |-> Last]
    <3>1. Last \in BOOLEAN
      BY DEF Last
    <3>2. c \in Shots /\ c.value = presentSerial + 1
      BY <1>1, <3>1 DEF Shots, QueueTypes, JobTypes
    <3>3. presents' = Append(presents, c)
      BY <2>3
    <3>4. LastValue' = presentSerial + 1
      <4>1. PICK op \in {"generated", "original"}, fence \in BOOLEAN : Submits(op, fence)
        BY <2>3
      <4> QED
        BY <1>1, <4>1, SubmitsValues
    <3> HIDE DEF c
    <3>5. /\ Len(presents') = Len(presents) + 1 /\ Len(presents) \in Nat
          /\ \A k \in 1..Len(presents) : presents'[k] = presents[k]
          /\ presents'[Len(presents) + 1] = c
      BY <1>1, <3>2, <3>3, PresentsGrow DEF QueueTypes
    <3>6. CASE i = Len(presents) + 1
      BY <1>2, <3>2, <3>4, <3>5, <3>6
    <3>7. CASE i \in 1..Len(presents)
      BY <1>3, <2>1, <3>5, <3>7
    <3> QED
      BY <3>5, <3>6, <3>7
  <2>4. CASE /\ presents' = Append(presents, [op |-> "native", frame |-> frame, value |-> serial[frame], handler |-> TRUE])
             /\ pc # "receive"
    <3> DEFINE c == [op |-> "native", frame |-> frame, value |-> serial[frame], handler |-> TRUE]
    <3>1. c \in Shots /\ c.op = "native"
      BY <2>4, FrameKnown DEF Shots
    <3>2. presents' = Append(presents, c)
      BY <2>4
    <3> HIDE DEF c
    <3>3. /\ Len(presents') = Len(presents) + 1 /\ Len(presents) \in Nat
          /\ \A k \in 1..Len(presents) : presents'[k] = presents[k]
          /\ presents'[Len(presents) + 1] = c
      BY <1>1, <3>1, <3>2, PresentsGrow DEF QueueTypes
    <3>4. i \in 1..Len(presents)
      BY <1>3, <3>1, <3>3
    <3> QED
      BY <1>3, <2>1, <3>3, <3>4
  <2>5. CASE presents # <<>> /\ presents' = Tail(presents)
    <3>1. i + 1 \in 1..Len(presents) /\ presents'[i] = presents[i + 1]
      BY <1>1, <2>5, PresentsTail
    <3> QED
      BY <1>3, <2>1, <3>1
  <2> QED
    BY <2>2, <2>3, <2>4, <2>5, PresentsMove
<1> QED
  BY <1>2, <1>3 DEF Values

(* In that order, every present's value is signalled or on its way.         *)
LEMMA ValuesCover ==
  ASSUME QueueTypes, Values
  PROVE  PresentsCovered
<1> SUFFICES ASSUME NEW i \in 1..Len(presents), presents[i].op = "present"
             PROVE  \/ presentEvent >= presents[i].value
                    \/ \E k \in 1..Len(pipeline) : pipeline[k].value >= presents[i].value
  BY DEF PresentsCovered
<1>1. presents[i].value <= LastValue /\ presents[i] \in Shots
  BY ElementOfSeq DEF Values, QueueTypes
<1>2. presents[i].value \in Nat
  BY <1>1 DEF Shots
<1>3. CASE pipeline = <<>>
  BY <1>1, <1>2, <1>3 DEF LastValue, QueueTypes
<1>4. CASE pipeline # <<>>
  <2>1. Len(pipeline) \in 1..Len(pipeline)
    BY <1>4 DEF QueueTypes
  <2>2. pipeline[Len(pipeline)].value \in Nat
    BY <2>1, LastValueType
  <2>3. pipeline[Len(pipeline)].value >= presents[i].value
    BY <1>1, <1>2, <1>4, <2>2 DEF LastValue
  <2> QED
    BY <2>1, <2>3
<1> QED
  BY <1>3, <1>4

-----------------------------------------------------------------------------
(* The commands of a frame belong to a context: none is left when there is  *)
(* no context, and on MoltenVK the last one carries the completion fence    *)
(* that the next frame waits for.                                           *)
Engines ==
  /\ engine \notin Engaged => pipeline = <<>>
  /\ pc \in {"generated", "original"} => engine \in Engaged
  /\ pc = "generated" => slot < Inserted
  /\ pc = "original" => ShowOriginal
  /\ pc \in {"receive", "settle"} => slot = 0
  /\ pc \in {"receive", "settle", "natively"} /\ engine = "moltenvk" /\ pipeline # <<>>
       => framePending /\ pipeline[Len(pipeline)].fence

(* So settle() leaves no command behind, on either generator.               *)
LEMMA SettledIdle ==
  ASSUME QueueTypes, Engines, pc = "settle", Settled
  PROVE  pipeline = <<>>
<1>1. CASE engine = "native"
  BY <1>1 DEF Settled
<1>2. CASE engine = "moltenvk"
  <2> SUFFICES ASSUME pipeline # <<>> PROVE FALSE
    OBVIOUS
  <2>1. framePending /\ pipeline[Len(pipeline)].fence
    BY <1>2 DEF Engines
  <2>2. Len(pipeline) \in 1..Len(pipeline)
    BY DEF QueueTypes
  <2> QED
    BY <1>2, <2>1, <2>2 DEF Settled
<1>3. CASE engine \notin Engaged
  BY <1>3 DEF Engines
<1> QED
  BY <1>1, <1>2, <1>3 DEF Engaged

(* Every way a frame may end leaves its context empty, fenced or dropped.   *)
LEMMA EnginesStep ==
  ASSUME Job, Engines, Worker \/ Devices
  PROVE  Engines'
<1>1. QueueTypes /\ JobTypes
  BY DEF Job
<1>2. ASSUME pipeline' = <<>>, pc' \in {"reset", "natively"} PROVE Engines'
  BY <1>2 DEF Engines
<1>3. ASSUME UNCHANGED <<engine, framePending, pipeline>>, pc' = "reset" \/ (pc' \in {"receive", "natively", "settle"} /\ pc \in {"receive", "natively"}),
             pc' \in {"receive", "settle"} => slot' = 0
      PROVE  Engines'
  BY <1>3 DEF Engines
<1>4. ASSUME NEW next, NEW off, NEW outcome, Refuse(next, outcome, off) PROVE Engines'
  <2>1. pipeline = <<>> /\ pipeline' = pipeline
    BY <1>1, <1>4, SettledIdle DEF Refuse, gpuVars
  <2>2. pc' \in {"reset", "natively"}
    BY <1>4 DEF Refuse, Fail
  <2> QED
    BY <1>2, <2>1, <2>2
<1>5. ASSUME NEW next, NEW off, NEW p \in Plans, Begin(next, off, p) PROVE Engines'
  <2>1. next \in Engaged
    BY <1>5 DEF Begin, Prepared, Engaged
  <2>2. p[1] \in Nat /\ (p[1] > 0 \/ p[2])
    BY WorkerAssumption
  <2>3. plan' = p /\ engine' = next /\ slot' = slot /\ slot = 0 /\ pc' = IF p[1] > 0 THEN "generated" ELSE "original"
    BY <1>5 DEF Begin, Engines
  <2>4. Inserted' = p[1] /\ ShowOriginal' = p[2]
    BY <2>3 DEF Inserted, ShowOriginal
  <2>5. CASE p[1] > 0
    BY <2>1, <2>2, <2>3, <2>4, <2>5 DEF Engines
  <2>6. CASE ~(p[1] > 0)
    BY <2>1, <2>2, <2>3, <2>4, <2>6 DEF Engines
  <2> QED
    BY <2>5, <2>6
<1>6. ASSUME NEW next, NEW off, NEW submitted, StartFails(next, off, submitted) PROVE Engines'
  <2>1. pc' = "reset" /\ engine' = next
    BY <1>6 DEF StartFails, Fail
  <2>2. next \in Engaged
    BY <1>6 DEF StartFails, Prepared, Engaged
  <2> QED
    BY <2>1, <2>2 DEF Engines
<1>7. CASE NoTarget
  <2>1. /\ UNCHANGED <<slot, engine, framePending, pipeline>>
        /\ pc \in {"generated", "original"} /\ pc' \in {"reset", "natively"}
        /\ pc' = "reset" \/ engine = "native"
    BY <1>7 DEF NoTarget, Fail, ProduceFails, engineVars, gpuVars
  <2> QED
    BY <2>1 DEF Engines
<1>8. CASE Show
  <2> DEFINE fence == engine = "moltenvk" /\ Last
  <2>1. /\ UNCHANGED engine /\ pc \in {"generated", "original"}
        /\ pipeline' = Append(pipeline, Command(pc, presentSerial + 1, fence))
        /\ framePending' = (framePending \/ fence)
    BY <1>8 DEF Show, Fenced
  <2>2. Last \in BOOLEAN
    BY DEF Last
  <2>3. Command(pc, presentSerial + 1, fence) \in Commands /\ Command(pc, presentSerial + 1, fence).fence = fence
    BY <1>1, <2>1, <2>2 DEF Command, Commands, QueueTypes, JobTypes
  <2>4. engine \in Engaged
    BY <2>1 DEF Engines
  <2>5. CASE Last
    <3>1. pc' = "receive" /\ slot' = 0
      BY <1>8, <2>5 DEF Show, JobDone
    <3>2. /\ Len(pipeline') = Len(pipeline) + 1
          /\ pipeline'[Len(pipeline) + 1] = Command(pc, presentSerial + 1, fence)
      BY <1>1, <2>1, <2>3, PipelineGrows
    <3>3. engine = "moltenvk" => framePending' /\ pipeline'[Len(pipeline')].fence
      <4>1. engine = "moltenvk" => fence = TRUE
        BY <2>5
      <4>2. pipeline'[Len(pipeline')].fence = fence
        BY <2>3, <3>2
      <4> HIDE DEF fence
      <4> QED
        BY <2>1, <4>1, <4>2, Zenon
    <3> QED
      BY <2>1, <2>4, <3>1, <3>3 DEF Engines
  <2>6. CASE ~Last
    <3>1. /\ pc' = IF slot + 1 < Inserted THEN "generated" ELSE "original"
          /\ slot' = slot + 1 /\ plan' = plan
      BY <1>8, <2>6 DEF Show
    <3>2. Inserted' = Inserted /\ ShowOriginal' = ShowOriginal
      BY <3>1 DEF Inserted, ShowOriginal
    <3>3. pc = "generated" /\ (ShowOriginal \/ slot + 1 # Inserted) /\ slot < Inserted
      BY <2>1, <2>6 DEF Last, Engines
    <3>4. slot \in Nat /\ Inserted \in Nat
      BY <1>1 DEF JobTypes, Inserted
    <3>5. CASE slot + 1 < Inserted
      BY <2>1, <2>4, <3>1, <3>2, <3>5 DEF Engines
    <3>6. CASE ~(slot + 1 < Inserted)
      <4>1. ShowOriginal
        BY <3>3, <3>4, <3>6
      <4> QED
        BY <2>1, <2>4, <3>1, <3>2, <3>6, <4>1 DEF Engines
    <3> QED
      BY <3>5, <3>6
  <2> QED
    BY <2>5, <2>6
<1>9. ASSUME NEW outcome \in {"mismatch", "error"}, PresentFails(outcome) PROVE Engines'
  <2>1. pc' = "reset" /\ UNCHANGED engine /\ pc \in {"generated", "original"}
    BY <1>9 DEF PresentFails, Fail
  <2> QED
    BY <2>1 DEF Engines
<1>10. CASE Reset
  <2>1. Drained /\ UNCHANGED pipeline /\ pc' = "natively"
    BY <1>10 DEF Reset, gpuVars
  <2>2. pipeline = <<>>
    BY <2>1 DEF Drained, Engines, Engaged
  <2> QED
    BY <1>2, <2>1, <2>2
<1>11. ASSUME NEW found, PresentNatively(found) PROVE Engines'
  BY <1>3, <1>11 DEF PresentNatively, JobDone, engineVars
<1>12. CASE Receive
  <2>1. UNCHANGED <<slot, engine, framePending, pipeline>> /\ pc = "receive"
    BY <1>12 DEF Receive, engineVars, gpuVars
  <2>2. pc' \in {"receive", "settle", "natively"}
    <3>1. CASE Head(channel) = Forget
      BY <1>12, <3>1 DEF Receive
    <3>2. CASE Head(channel) # Forget
      BY <1>12, <3>2 DEF Receive
    <3> QED
      BY <3>1, <3>2
  <2>3. slot = 0
    BY <2>1 DEF Engines
  <2> QED
    BY <1>3, <2>1, <2>2, <2>3
<1>13. CASE PipelineCompletes
  <2>1. UNCHANGED <<pc, plan, slot, engine, framePending>> /\ pipeline # <<>> /\ pipeline' = Tail(pipeline)
    BY <1>13 DEF PipelineCompletes, jobVars, engineVars
  <2>2. ASSUME pipeline' # <<>> PROVE pipeline'[Len(pipeline')] = pipeline[Len(pipeline)]
    <3>1. /\ Len(pipeline') = Len(pipeline) - 1 /\ Len(pipeline) \in Nat
          /\ \A i \in 1..Len(pipeline') : pipeline'[i] = pipeline[i + 1]
      BY <1>1, <2>1, PipelineTail
    <3>2. Len(pipeline') \in Nat \ {0}
      BY <1>1, <2>1, <2>2, HeadTailProperties, EmptySeq DEF QueueTypes
    <3>3. Len(pipeline') \in 1..Len(pipeline') /\ Len(pipeline') + 1 = Len(pipeline)
      BY <3>1, <3>2
    <3> QED
      BY <3>1, <3>3
  <2>3. engine \in Engaged
    BY <2>1 DEF Engines
  <2> QED
    BY <2>1, <2>2, <2>3 DEF Engines, Inserted, ShowOriginal
<1>14. CASE GameCompletes \/ PresentCompletes \/ \E d \in Drawables : Retire(d) \/ Presented(d)
  <2>1. UNCHANGED <<pc, plan, slot, engine, framePending, pipeline>>
    BY <1>14 DEF GameCompletes, PresentCompletes, Retire, Presented, jobVars, engineVars, gpuVars
  <2> QED
    BY <2>1 DEF Engines, Inserted, ShowOriginal
<1> QED
  BY <1>4, <1>5, <1>6, <1>7, <1>8, <1>9, <1>10, <1>11, <1>12, <1>13, <1>14 DEF Worker, Devices

(* A frame's first command finds the pipeline empty.                        *)
LEMMA SubmitsAtSettle ==
  ASSUME QueueTypes, Engines, Worker \/ Devices, pc = "settle", pipeline' # pipeline, ~PipelineCompletes
  PROVE  pipeline = <<>>
<1>1. Settled
  BY DEF Worker, Devices, Receive, Refuse, Begin, StartFails, NoTarget, Show, PresentFails, Reset, PresentNatively,
         GameCompletes, PresentCompletes, Retire, Presented, gpuVars
<1> QED
  BY <1>1, SettledIdle

(* Nothing but the worker and the devices touches the queues, the context   *)
(* and the frame being worked on.                                           *)
Aside ==
  UNCHANGED <<pc, frame, plan, slot, copied, engine, framePending, presentSerial, pipeline, presentEvent>>

(* The game's steps leave all of that alone.                                *)
LEMMA EnginesAside ==
  ASSUME Engines, Aside
  PROVE  Engines'
  BY DEF Engines, Aside, Inserted, ShowOriginal

-----------------------------------------------------------------------------
(* What keeps a frame alive while it is shown: the command buffer of a      *)
(* native present holds it until it completes, the real drawable's handler  *)
(* until it was shown, retire() until the pipeline has read it.  A frame    *)
(* carries at most one handler, and no longer waits for the worker then.    *)
Handled(d) == \E i \in 1..Len(presents) : presents[i].handler /\ presents[i].frame = d

Shows ==
  /\ \A d \in Drawables : retire[d] # 0 => "retire" \in holders[d]
  /\ \A d \in Drawables : d \in shown \/ Handled(d) => "handler" \in holders[d] /\ "worker" \notin holders[d]
  /\ \A d \in shown : ~Handled(d)
  /\ \A i \in 1..Len(presents) :
       /\ presents[i].op = "native" => presents[i].handler /\ "copy" \in holders[presents[i].frame]
       /\ \A j \in 1..Len(presents) :
            j # i /\ presents[i].handler /\ presents[j].handler => presents[j].frame # presents[i].frame

(* What a step does to one drawable and to the presents: no more than one   *)
(* present is added, of that drawable.                                      *)
Adds(c) == presents' = Append(presents, c)

OnlyOf(f) ==
  /\ UNCHANGED <<texture, shown>>
  /\ \A e \in Drawables : e # f => holders'[e] = holders[e] /\ retire'[e] = retire[e]
  /\ retire'[f] # 0 => "retire" \in holders'[f]

(* A step that touches a frame nobody shows yet.                            *)
LEMMA ShowsOf ==
  ASSUME DrawableTypes, QueueTypes, Framed, Shows, NEW f \in Drawables, OnlyOf(f), f \notin shown, ~Handled(f),
         UNCHANGED presents
  PROVE  Shows'
<1>1. Drawables' = Drawables /\ UNCHANGED <<shown, presents>>
  BY DEF OnlyOf, Drawables
<1>2. \A d \in Drawables : Handled(d)' <=> Handled(d)
  BY <1>1 DEF Handled
<1>3. \A d \in Drawables : retire'[d] # 0 => "retire" \in holders'[d]
  BY DEF Shows, OnlyOf
<1>4. \A d \in Drawables : d \in shown \/ Handled(d) => "handler" \in holders'[d] /\ "worker" \notin holders'[d]
  BY DEF Shows, OnlyOf
<1>5. ASSUME NEW i \in 1..Len(presents)
      PROVE  /\ presents[i].op = "native" => presents[i].handler /\ "copy" \in holders'[presents[i].frame]
             /\ \A j \in 1..Len(presents) :
                  j # i /\ presents[i].handler /\ presents[j].handler => presents[j].frame # presents[i].frame
  <2>1. presents[i].op = "native" => presents[i].handler /\ "copy" \in holders[presents[i].frame]
    BY DEF Shows
  <2>2. presents[i].handler => presents[i].frame # f
    BY DEF Handled
  <2>3. presents[i].frame \in Drawables
    BY DEF Framed
  <2> QED
    BY <2>1, <2>2, <2>3 DEF OnlyOf, Shows
<1>6. \A d \in shown' : ~Handled(d)'
  BY <1>1, <1>2 DEF Shows, DrawableTypes
<1>7. \A d \in Drawables' : retire'[d] # 0 => "retire" \in holders'[d]
  BY <1>1, <1>3
<1>8. \A d \in Drawables' : d \in shown' \/ Handled(d)' => "handler" \in holders'[d] /\ "worker" \notin holders'[d]
  BY <1>1, <1>2, <1>4
<1> QED
  BY <1>1, <1>5, <1>6, <1>7, <1>8 DEF Shows

(* A present that carries the handler of such a frame.                      *)
LEMMA ShowsAdds ==
  ASSUME DrawableTypes, QueueTypes, Framed, Shows, NEW f \in Drawables, OnlyOf(f), f \notin shown, ~Handled(f),
         NEW c \in Shots, Adds(c), c.handler, c.frame = f, "handler" \in holders'[f], "worker" \notin holders'[f],
         c.op = "native" => "copy" \in holders'[f]
  PROVE  Shows'
<1>1. Drawables' = Drawables /\ shown' = shown
  BY DEF OnlyOf, Drawables
<1>2. /\ Len(presents') = Len(presents) + 1 /\ Len(presents) \in Nat
      /\ \A i \in 1..Len(presents) : presents'[i] = presents[i]
      /\ presents'[Len(presents) + 1] = c
  BY PresentsGrow DEF QueueTypes, Adds
<1>3. \A i \in 1..Len(presents') : i \in 1..Len(presents) \/ i = Len(presents) + 1
  BY <1>2
<1>4. \A d \in Drawables : Handled(d)' => Handled(d) \/ d = f
  BY <1>2, <1>3 DEF Handled
<1>5. \A d \in Drawables : retire'[d] # 0 => "retire" \in holders'[d]
  BY DEF Shows, OnlyOf
<1>6. \A d \in Drawables : d \in shown' \/ Handled(d)' => "handler" \in holders'[d] /\ "worker" \notin holders'[d]
  BY <1>1, <1>4 DEF Shows, OnlyOf
<1>7. \A d \in shown' : ~Handled(d)'
  BY <1>1, <1>4 DEF Shows, DrawableTypes
<1>8. ASSUME NEW i \in 1..Len(presents'), presents'[i].op = "native"
      PROVE  presents'[i].handler /\ "copy" \in holders'[presents'[i].frame]
  <2>1. CASE i = Len(presents) + 1
    BY <1>2, <1>8, <2>1
  <2>2. CASE i \in 1..Len(presents)
    <3>1. presents[i].handler /\ "copy" \in holders[presents[i].frame] /\ presents[i].frame \in Drawables
      BY <1>2, <1>8, <2>2 DEF Shows, Framed
    <3>2. presents[i].frame # f
      BY <2>2, <3>1 DEF Handled
    <3> QED
      BY <1>2, <2>2, <3>1, <3>2 DEF OnlyOf
  <2> QED
    BY <1>3, <2>1, <2>2
<1>9. ASSUME NEW i \in 1..Len(presents'), NEW j \in 1..Len(presents'), j # i, presents'[i].handler, presents'[j].handler
      PROVE  presents'[j].frame # presents'[i].frame
  <2>1. \A k \in 1..Len(presents) : presents'[k].handler => presents'[k].frame # f
    BY <1>2 DEF Handled
  <2>2. CASE i = Len(presents) + 1
    <3>1. j \in 1..Len(presents)
      BY <1>3, <1>9, <2>2
    <3> QED
      BY <1>2, <1>9, <2>1, <2>2, <3>1
  <2>3. CASE j = Len(presents) + 1
    <3>1. i \in 1..Len(presents)
      BY <1>3, <1>9, <2>3
    <3> QED
      BY <1>2, <1>9, <2>1, <2>3, <3>1
  <2>4. CASE i \in 1..Len(presents) /\ j \in 1..Len(presents)
    BY <1>2, <1>9, <2>4 DEF Shows
  <2> QED
    BY <1>3, <2>2, <2>3, <2>4
<1> QED
  BY <1>1, <1>5, <1>6, <1>7, <1>8, <1>9 DEF Shows

(* Most steps change nothing a shown frame depends on; the others, by name. *)
Quiet == UNCHANGED <<texture, holders, presents, shown, retire, recycled, answered>>

(* The steps of the worker and the devices, sorted by that.                 *)
LEMMA Kinds ==
  ASSUME Worker \/ Devices
  PROVE  \/ Quiet
         \/ Show
         \/ \E outcome \in {"mismatch", "error"} : PresentFails(outcome)
         \/ \E found \in BOOLEAN : PresentNatively(found)
         \/ PresentCompletes
         \/ \E d \in Drawables : Retire(d)
         \/ \E d \in Drawables : Presented(d)
<1>1. ASSUME NEW next, NEW off, NEW outcome, Refuse(next, outcome, off) PROVE Quiet
  BY <1>1 DEF Refuse, Quiet, drawableVars, gpuVars
<1>2. ASSUME NEW next, NEW off, NEW p, Begin(next, off, p) PROVE Quiet
  BY <1>2 DEF Begin, Quiet, drawableVars
<1>3. ASSUME NEW next, NEW off, NEW submitted, StartFails(next, off, submitted) PROVE Quiet
  BY <1>3 DEF StartFails, Quiet, drawableVars
<1>4. CASE Receive \/ NoTarget \/ Reset \/ GameCompletes \/ PipelineCompletes
  BY <1>4 DEF Receive, NoTarget, Reset, GameCompletes, PipelineCompletes, Quiet, drawableVars, gpuVars
<1> QED
  BY <1>1, <1>2, <1>3, <1>4 DEF Worker, Devices

(* A frame being worked on is not yet shown.                                *)
LEMMA FrameUnshown ==
  ASSUME Job, Shows, pc # "receive"
  PROVE  frame \in Drawables /\ frame \notin shown /\ ~Handled(frame)
<1>1. frame \in Drawables /\ "worker" \in holders[frame]
  BY FrameKnown
<1> QED
  BY <1>1 DEF Shows

(* A quiet step keeps what holds a shown frame.                             *)
LEMMA ShowsQuiet ==
  ASSUME Shows, UNCHANGED <<texture, holders, presents, shown, retire>>
  PROVE  Shows'
<1>1. Drawables' = Drawables
  BY DEF Drawables
<1>2. \A d \in Drawables : Handled(d)' <=> Handled(d)
  BY DEF Handled
<1> QED
  BY <1>1, <1>2 DEF Shows, Handled

(* The worker's Show gives its frame away with the last present.            *)
LEMMA ShowShows ==
  ASSUME Job, Framed, Shows, Show
  PROVE  Shows'
<1>1. /\ UNCHANGED <<texture, shown>>
      /\ pc \in {"generated", "original"}
      /\ presents' = Append(presents, [op |-> "present", frame |-> frame, value |-> presentSerial + 1, handler |-> Last])
  BY DEF Show, WaitsFor, CarriesHandler
<1>2. Last \in BOOLEAN
  BY DEF Last
<1> DEFINE c == [op |-> "present", frame |-> frame, value |-> presentSerial + 1, handler |-> Last]
<1>3. c \in Shots /\ c.frame = frame /\ c.handler = Last /\ c.op = "present"
  BY <1>2 DEF Shots, Job, QueueTypes, JobTypes
<1>4. presents' = Append(presents, c)
  BY <1>1
<1>5. frame \in Drawables /\ frame \notin shown /\ ~Handled(frame)
  BY <1>1, FrameUnshown
<1> HIDE DEF c
<1>6. CASE Last
  <2>1. /\ retire' = [retire EXCEPT ![frame] = RetireAt(presentSerial + 1)]
        /\ Hold(frame, {"worker"}, {"handler", "retire"})
    BY <1>6 DEF Show
  <2>2. \A e \in Drawables : holders'[e] = IF e = frame THEN (holders[frame] \ {"worker"}) \cup {"handler", "retire"} ELSE holders[e]
    <3>1. {"handler", "retire"} \in SUBSET Holder
      BY DEF Holder
    <3> QED
      BY <1>5, <2>1, <3>1, HoldChanges DEF Job
  <2>3. \A e \in Drawables : e # frame => retire'[e] = retire[e]
    BY <2>1 DEF Job, DrawableTypes, Drawables
  <2>4. OnlyOf(frame)
    BY <1>1, <1>5, <2>2, <2>3 DEF OnlyOf
  <2>5. "handler" \in holders'[frame] /\ "worker" \notin holders'[frame]
    BY <1>5, <2>2
  <2> QED
    BY <1>3, <1>4, <1>5, <1>6, <2>4, <2>5, ShowsAdds DEF Adds, Job
<1>7. CASE ~Last
  <2>1. UNCHANGED <<retire, holders>>
    BY <1>7 DEF Show
  <2>2. Drawables' = Drawables
    BY <1>1 DEF Drawables
  <2>3. /\ Len(presents') = Len(presents) + 1 /\ Len(presents) \in Nat
        /\ \A i \in 1..Len(presents) : presents'[i] = presents[i]
        /\ presents'[Len(presents) + 1] = c
    BY <1>3, <1>4, PresentsGrow DEF Job, QueueTypes
  <2>4. \A i \in 1..Len(presents') : i \in 1..Len(presents) \/ i = Len(presents) + 1
    BY <2>3
  <2>5. \A i \in 1..Len(presents') : (presents'[i].handler \/ presents'[i].op = "native") => i \in 1..Len(presents)
    BY <1>3, <1>7, <2>3, <2>4
  <2>6. \A d \in Drawables : Handled(d)' => Handled(d)
    BY <2>3, <2>5 DEF Handled
  <2>7. \A d \in Drawables : d \in shown' \/ Handled(d)' => "handler" \in holders'[d] /\ "worker" \notin holders'[d]
    BY <1>1, <2>1, <2>6 DEF Shows
  <2>8. \A d \in shown' : ~Handled(d)'
    BY <1>1, <2>6 DEF Shows, Job, DrawableTypes
  <2>9. \A i \in 1..Len(presents') : presents'[i].op = "native" => presents'[i].handler /\ "copy" \in holders'[presents'[i].frame]
    BY <2>1, <2>3, <2>5 DEF Shows
  <2>10. ASSUME NEW i \in 1..Len(presents'), NEW j \in 1..Len(presents'), j # i, presents'[i].handler, presents'[j].handler
         PROVE  presents'[j].frame # presents'[i].frame
    BY <2>3, <2>5, <2>10 DEF Shows
  <2>11. \A d \in Drawables : retire'[d] # 0 => "retire" \in holders'[d]
    BY <2>1 DEF Shows
  <2> QED
    BY <2>2, <2>7, <2>8, <2>9, <2>10, <2>11 DEF Shows
<1> QED
  BY <1>6, <1>7

(* present_natively of a frame that is not shown yet, from the worker or    *)
(* from the game's own thread.                                              *)
LEMMA NativeShows ==
  ASSUME DrawableTypes, QueueTypes, Framed, Shows, NEW d \in Drawables, d \notin shown, ~Handled(d),
         NEW dropped, "retire" \notin dropped, "worker" \notin holders[d] \ dropped,
         NEW found, ShowNatively(d, dropped, found), UNCHANGED <<retire, shown>>
  PROVE  Shows'
<1>1. retire[d] # 0 => "retire" \in holders[d]
  BY DEF Shows
<1>2. CASE /\ presents' = Append(presents, [op |-> "native", frame |-> d, value |-> serial[d], handler |-> TRUE])
           /\ [op |-> "native", frame |-> d, value |-> serial[d], handler |-> TRUE] \in Shots
           /\ Hold(d, dropped, {"copy", "handler"})
           /\ UNCHANGED <<texture, recycled>>
  <2> DEFINE c == [op |-> "native", frame |-> d, value |-> serial[d], handler |-> TRUE]
  <2>1. c \in Shots /\ c.frame = d /\ c.handler /\ presents' = Append(presents, c)
    BY <1>2
  <2>2. \A e \in Drawables : holders'[e] = IF e = d THEN (holders[d] \ dropped) \cup {"copy", "handler"} ELSE holders[e]
    <3>1. {"copy", "handler"} \in SUBSET Holder
      BY DEF Holder
    <3> QED
      BY <1>2, <3>1, HoldChanges
  <2>3. "handler" \in holders'[d] /\ "copy" \in holders'[d] /\ "worker" \notin holders'[d]
    BY <2>2
  <2>4. OnlyOf(d)
    BY <1>1, <1>2, <2>2 DEF OnlyOf
  <2> HIDE DEF c
  <2> QED
    BY <2>1, <2>3, <2>4, ShowsAdds DEF Adds
<1>3. CASE UNCHANGED <<texture, recycled, presents>> /\ Hold(d, dropped, {})
  <2>1. \A e \in Drawables : holders'[e] = IF e = d THEN (holders[d] \ dropped) \cup {} ELSE holders[e]
    <3>1. {} \in SUBSET Holder
      OBVIOUS
    <3> QED
      BY <1>3, <3>1, HoldChanges
  <2>2. OnlyOf(d)
    BY <1>1, <1>3, <2>1 DEF OnlyOf
  <2> QED
    BY <1>3, <2>2, ShowsOf
<1> QED
  BY <1>2, <1>3, NativeShot

(* A completed present lets go of its copy, and the handler is on screen.   *)
LEMMA CompletesShows ==
  ASSUME Job, Framed, Shows, PresentCompletes
  PROVE  Shows'
<1> DEFINE c == Head(presents)
<1>1. /\ UNCHANGED <<texture, retire>> /\ presents # <<>> /\ presents' = Tail(presents)
      /\ shown' = IF c.handler THEN shown \cup {c.frame} ELSE shown
      /\ IF c.op = "native" THEN Hold(c.frame, {"copy"}, {}) ELSE UNCHANGED holders
  BY DEF PresentCompletes
<1>2. /\ Len(presents') = Len(presents) - 1 /\ Len(presents) \in Nat
      /\ \A i \in 1..Len(presents') : i + 1 \in 1..Len(presents) /\ presents'[i] = presents[i + 1]
  BY <1>1, PresentsTail DEF Job
<1>3. c = presents[1] /\ 1 \in 1..Len(presents) /\ c \in Shots
  BY <1>1, HeadTailProperties DEF Job, QueueTypes
<1>4. c.frame \in Drawables
  BY <1>3 DEF Framed
<1>5. Drawables' = Drawables
  BY <1>1 DEF Drawables
<1> HIDE DEF c
<1>6. \A e \in Drawables, h \in Holder : h # "copy" => (h \in holders'[e] <=> h \in holders[e])
  <2>1. CASE c.op = "native"
    <3>1. Hold(c.frame, {"copy"}, {})
      BY <1>1, <2>1
    <3>2. {} \in SUBSET Holder
      OBVIOUS
    <3>3. \A e \in Drawables : holders'[e] = IF e = c.frame THEN (holders[c.frame] \ {"copy"}) \cup {} ELSE holders[e]
      BY <1>4, <3>1, <3>2, HoldChanges DEF Job
    <3> QED
      BY <3>3
  <2>2. CASE c.op # "native"
    BY <1>1, <2>2
  <2> QED
    BY <2>1, <2>2
<1>7. \A d \in Drawables : Handled(d)' => Handled(d)
  BY <1>2 DEF Handled
<1>8. c.handler => /\ Handled(c.frame)
                   /\ ~\E i \in 1..Len(presents') : presents'[i].handler /\ presents'[i].frame = c.frame
  <2>1. SUFFICES ASSUME c.handler, NEW i \in 1..Len(presents'), presents'[i].handler, presents'[i].frame = c.frame PROVE FALSE
    BY <1>3 DEF Handled
  <2>2. i + 1 \in 1..Len(presents) /\ presents'[i] = presents[i + 1] /\ i + 1 # 1
    BY <1>2
  <2> QED
    BY <1>3, <2>1, <2>2 DEF Shows
<1>9. \A d \in Drawables : retire'[d] # 0 => "retire" \in holders'[d]
  BY <1>1, <1>6 DEF Shows, Holder
<1>10. \A d \in Drawables : d \in shown' \/ Handled(d)' => "handler" \in holders'[d] /\ "worker" \notin holders'[d]
  <2>1. \A d \in Drawables : d \in shown' \/ Handled(d)' => d \in shown \/ Handled(d)
    BY <1>1, <1>7, <1>8
  <2> QED
    BY <1>6, <2>1 DEF Shows, Holder
<1>11. \A d \in shown' : ~Handled(d)'
  <2>1. ASSUME NEW d \in shown PROVE ~Handled(d)'
    BY <1>7, <2>1 DEF Shows, Job, DrawableTypes
  <2>2. ASSUME NEW d, d = c.frame, c.handler PROVE ~Handled(d)'
    BY <1>8, <2>2 DEF Handled
  <2> QED
    BY <1>1, <2>1, <2>2
<1>12. ASSUME NEW i \in 1..Len(presents'), presents'[i].op = "native"
       PROVE  presents'[i].handler /\ "copy" \in holders'[presents'[i].frame]
  <2>1. i + 1 \in 1..Len(presents) /\ presents'[i] = presents[i + 1] /\ i + 1 # 1
    BY <1>2
  <2>2. presents[i + 1].handler /\ "copy" \in holders[presents[i + 1].frame] /\ presents[i + 1].frame \in Drawables
    BY <1>12, <2>1 DEF Shows, Framed
  <2>3. CASE c.op = "native"
    <3>1. c.handler
      BY <1>3, <2>3 DEF Shows
    <3>2. presents[i + 1].frame # c.frame
      BY <1>3, <2>1, <2>2, <3>1 DEF Shows
    <3>3. Hold(c.frame, {"copy"}, {})
      BY <1>1, <2>3
    <3>4. {} \in SUBSET Holder
      OBVIOUS
    <3>5. \A e \in Drawables : e # c.frame => holders'[e] = holders[e]
      BY <1>4, <3>3, <3>4, HoldChanges DEF Job
    <3> QED
      BY <2>1, <2>2, <3>2, <3>5
  <2>4. CASE c.op # "native"
    BY <1>1, <2>1, <2>2, <2>4
  <2> QED
    BY <2>3, <2>4
<1>13. ASSUME NEW i \in 1..Len(presents'), NEW j \in 1..Len(presents'), j # i, presents'[i].handler, presents'[j].handler
       PROVE  presents'[j].frame # presents'[i].frame
  <2>1. /\ i + 1 \in 1..Len(presents) /\ presents'[i] = presents[i + 1]
        /\ j + 1 \in 1..Len(presents) /\ presents'[j] = presents[j + 1] /\ j + 1 # i + 1
    BY <1>2, <1>13
  <2> QED
    BY <1>13, <2>1 DEF Shows
<1> QED
  BY <1>5, <1>9, <1>10, <1>11, <1>12, <1>13 DEF Shows

(* The listener of retire() and the presented handler each drop their own   *)
(* reference.                                                               *)
LEMMA ListensShows ==
  ASSUME Job, Framed, Shows, NEW d \in Drawables, Retire(d) \/ Presented(d)
  PROVE  Shows'
<1>1. UNCHANGED <<texture, presents>> /\ \A e \in Drawables : Handled(e)' <=> Handled(e)
  BY DEF Retire, Presented, Handled
<1>2. Drawables' = Drawables
  BY <1>1 DEF Drawables
<1>3. {} \in SUBSET Holder
  OBVIOUS
<1>4. CASE Retire(d)
  <2>1. /\ UNCHANGED shown /\ retire' = [retire EXCEPT ![d] = 0] /\ Hold(d, {"retire"}, {})
    BY <1>4 DEF Retire
  <2>2. \A e \in Drawables : holders'[e] = IF e = d THEN (holders[d] \ {"retire"}) \cup {} ELSE holders[e]
    BY <1>3, <2>1, HoldChanges DEF Job
  <2>3. \A e \in Drawables : retire'[e] = IF e = d THEN 0 ELSE retire[e]
    BY <2>1 DEF Job, DrawableTypes, Drawables
  <2>4. \A e \in Drawables : retire'[e] # 0 => "retire" \in holders'[e]
    BY <2>2, <2>3 DEF Shows
  <2>5. \A e \in Drawables : e \in shown' \/ Handled(e)' => "handler" \in holders'[e] /\ "worker" \notin holders'[e]
    BY <1>1, <2>1, <2>2 DEF Shows
  <2>6. \A e \in shown' : ~Handled(e)'
    BY <1>1, <2>1 DEF Shows, Job, DrawableTypes
  <2>7. ASSUME NEW i \in 1..Len(presents)
        PROVE  presents[i].op = "native" => presents[i].handler /\ "copy" \in holders'[presents[i].frame]
    BY <2>2 DEF Shows, Framed
  <2>8. \A i, j \in 1..Len(presents) : j # i /\ presents[i].handler /\ presents[j].handler => presents[j].frame # presents[i].frame
    BY DEF Shows
  <2> QED
    BY <1>1, <1>2, <2>4, <2>5, <2>6, <2>7, <2>8 DEF Shows
<1>5. CASE Presented(d)
  <2>1. /\ d \in shown /\ shown' = shown \ {d} /\ UNCHANGED retire /\ Hold(d, {"handler"}, {})
    BY <1>5 DEF Presented
  <2>2. \A e \in Drawables : holders'[e] = IF e = d THEN (holders[d] \ {"handler"}) \cup {} ELSE holders[e]
    BY <1>3, <2>1, HoldChanges DEF Job
  <2>3. \A e \in Drawables : retire'[e] # 0 => "retire" \in holders'[e]
    BY <2>1, <2>2 DEF Shows
  <2>4. \A e \in Drawables : e \in shown' \/ Handled(e)' => "handler" \in holders'[e] /\ "worker" \notin holders'[e]
    BY <1>1, <2>1, <2>2 DEF Shows
  <2>5. \A e \in shown' : ~Handled(e)'
    BY <1>1, <2>1 DEF Shows, Job, DrawableTypes
  <2>6. ASSUME NEW i \in 1..Len(presents)
        PROVE  presents[i].op = "native" => presents[i].handler /\ "copy" \in holders'[presents[i].frame]
    BY <2>2 DEF Shows, Framed
  <2>7. \A i, j \in 1..Len(presents) : j # i /\ presents[i].handler /\ presents[j].handler => presents[j].frame # presents[i].frame
    BY DEF Shows
  <2> QED
    BY <1>1, <1>2, <2>3, <2>4, <2>5, <2>6, <2>7 DEF Shows
<1> QED
  BY <1>4, <1>5

(* No step of the worker or the devices lets go of a frame too early.       *)
LEMMA ShowsStep ==
  ASSUME Job, Framed, Shows, Worker \/ Devices
  PROVE  Shows'
<1>1. ASSUME NEW found, PresentNatively(found) PROVE Shows'
  <2>1. pc # "receive" /\ ShowNatively(frame, {"worker"}, found) /\ UNCHANGED <<retire, shown>>
    BY <1>1 DEF PresentNatively
  <2>2. frame \in Drawables /\ frame \notin shown /\ ~Handled(frame)
    BY <2>1, FrameUnshown
  <2>3. "retire" \notin {"worker"} /\ "worker" \notin holders[frame] \ {"worker"}
    OBVIOUS
  <2>4. DrawableTypes /\ QueueTypes
    BY DEF Job
  <2> QED
    BY <2>1, <2>2, <2>3, <2>4, NativeShows
<1>2. ASSUME NEW outcome, PresentFails(outcome) PROVE UNCHANGED <<texture, holders, presents, shown, retire>>
  BY <1>2 DEF PresentFails
<1> QED
  BY <1>1, <1>2, Kinds, ShowsQuiet, ShowShows, CompletesShows, ListensShows DEF Quiet

(* A drawable that only the game holds stays that way, and one that nobody  *)
(* holds is never taken again.                                              *)
LEMMA GameOwned ==
  ASSUME Job, Framed, Shows, Worker \/ Devices, NEW d \in Drawables
  PROVE  /\ holders[d] = {"game"} => holders'[d] = {"game"}
         /\ holders[d] = {} => holders'[d] = {}
<1>1. DrawableTypes /\ QueueTypes
  BY DEF Job
<1>2. ASSUME NEW f \in Drawables, NEW dropped, NEW added \in SUBSET Holder, Hold(f, dropped, added),
             holders[d] = {"game"} => f # d \/ ("game" \notin dropped /\ added = {}),
             holders[d] = {} => f # d \/ added = {}
      PROVE  /\ holders[d] = {"game"} => holders'[d] = {"game"}
             /\ holders[d] = {} => holders'[d] = {}
  <2>1. holders'[d] = IF d = f THEN (holders[f] \ dropped) \cup added ELSE holders[d]
    BY <1>1, <1>2, HoldChanges
  <2>2. CASE holders[d] = {"game"}
    BY <1>2, <2>1, <2>2
  <2>3. CASE holders[d] = {}
    BY <1>2, <2>1, <2>3
  <2> QED
    BY <2>2, <2>3
<1>3. {} \in SUBSET Holder /\ {"handler", "retire"} \in SUBSET Holder /\ {"copy", "handler"} \in SUBSET Holder
  BY DEF Holder
<1>4. ASSUME UNCHANGED holders
      PROVE  /\ holders[d] = {"game"} => holders'[d] = {"game"}
             /\ holders[d] = {} => holders'[d] = {}
  BY <1>4
<1>5. pc # "receive" => frame \in Drawables /\ "worker" \in holders[frame]
  BY FrameKnown
<1>6. pc # "receive" => (holders[d] = {"game"} => frame # d) /\ (holders[d] = {} => frame # d)
  BY <1>5
<1>12. ASSUME pc # "receive", NEW added \in SUBSET Holder, Hold(frame, {"worker"}, added)
       PROVE  /\ holders[d] = {"game"} => holders'[d] = {"game"}
              /\ holders[d] = {} => holders'[d] = {}
  <2>1. \A e \in Drawables : e # frame => holders'[e] = holders[e]
    BY <1>1, <1>5, <1>12, HoldChanges
  <2> QED
    BY <1>6, <1>12, <2>1
<1>7. CASE Show
  <2>1. pc # "receive" /\ (UNCHANGED holders \/ Hold(frame, {"worker"}, {"handler", "retire"}))
    BY <1>7 DEF Show
  <2>2. CASE UNCHANGED holders
    BY <1>4, <2>2
  <2>3. CASE Hold(frame, {"worker"}, {"handler", "retire"})
    BY <1>3, <1>12, <2>1, <2>3
  <2> QED
    BY <2>1, <2>2, <2>3
<1>8. ASSUME NEW found \in BOOLEAN, PresentNatively(found)
      PROVE  /\ holders[d] = {"game"} => holders'[d] = {"game"}
             /\ holders[d] = {} => holders'[d] = {}
  <2>1. pc # "receive" /\ (Hold(frame, {"worker"}, {"copy", "handler"}) \/ Hold(frame, {"worker"}, {}))
    BY <1>8 DEF PresentNatively, ShowNatively
  <2>2. CASE Hold(frame, {"worker"}, {"copy", "handler"})
    BY <1>3, <1>12, <2>1, <2>2
  <2>3. CASE Hold(frame, {"worker"}, {})
    BY <1>3, <1>12, <2>1, <2>3
  <2> QED
    BY <2>1, <2>2, <2>3
<1>9. CASE PresentCompletes
  <2> DEFINE c == Head(presents)
  <2>1. IF c.op = "native" THEN Hold(c.frame, {"copy"}, {}) ELSE UNCHANGED holders
    BY <1>9 DEF PresentCompletes
  <2>2. c = presents[1] /\ 1 \in 1..Len(presents)
    BY <1>9, HeadTailProperties DEF PresentCompletes, Job, QueueTypes
  <2>3. c.frame \in Drawables
    BY <2>2 DEF Framed
  <2> HIDE DEF c
  <2>4. "game" \notin {"copy"}
    OBVIOUS
  <2> QED
    BY <1>2, <1>3, <1>4, <2>1, <2>3, <2>4
<1>10. ASSUME NEW e \in Drawables, Retire(e) \/ Presented(e)
       PROVE  /\ holders[d] = {"game"} => holders'[d] = {"game"}
              /\ holders[d] = {} => holders'[d] = {}
  <2>1. Hold(e, {"retire"}, {}) \/ Hold(e, {"handler"}, {})
    BY <1>10 DEF Retire, Presented
  <2>2. "game" \notin {"retire"} /\ "game" \notin {"handler"}
    OBVIOUS
  <2> QED
    BY <1>2, <1>3, <2>1, <2>2
<1>11. ASSUME NEW outcome, PresentFails(outcome) PROVE UNCHANGED holders
  BY <1>11 DEF PresentFails
<1> QED
  BY <1>4, <1>7, <1>8, <1>9, <1>10, <1>11, Kinds DEF Quiet

-----------------------------------------------------------------------------
(* Who reads a frame on the pipeline: the frame being worked on, by its     *)
(* copy in so far, or a frame that retire() keeps until the event has the   *)
(* value of its last read.  It no longer waits for the worker then.         *)
Reading == {i \in 1..Len(pipeline) : pipeline[i].op # "generated"}

Reads ==
  /\ pc \in {"generated", "original"} => copied <= presentSerial
  /\ \A i \in Reading :
       /\ pc \in {"generated", "original", "reset"} => pipeline[i].frame = frame
       /\ pc \in {"generated", "original"} => pipeline[i].value <= copied
       /\ pc \in {"receive", "settle", "natively"} =>
            /\ pipeline[i].value <= retire[pipeline[i].frame]
            /\ "worker" \notin holders[pipeline[i].frame]

(* The drawables whose frame a submitted command has still to read are not  *)
(* dropped.                                                                 *)
LEMMA InUseHeld ==
  ASSUME Job, Framed, Values, Shows, Reads, NEW d \in InUse
  PROVE  d \in Drawables /\ holders[d] # {}
<1>1. CASE d \in Drawables /\ "worker" \in holders[d]
  BY <1>1
<1>2. ASSUME NEW i \in 1..Len(presents), presents[i].op = "native", d = presents[i].frame
      PROVE  d \in Drawables /\ holders[d] # {}
  BY <1>2 DEF Shows, Framed
<1>3. ASSUME NEW i \in 1..Len(pipeline), pipeline[i].op # "generated", d = pipeline[i].frame
      PROVE  d \in Drawables /\ holders[d] # {}
  <2>1. d \in Drawables /\ i \in Reading
    BY <1>3 DEF Framed, Reading
  <2>2. CASE pc \in {"generated", "original", "reset"}
    <3>1. d = frame /\ "worker" \in holders[frame]
      BY <1>3, <2>1, <2>2, FrameKnown DEF Reads
    <3> QED
      BY <2>1, <3>1
  <2>3. CASE pc \in {"receive", "settle", "natively"}
    <3>1. pipeline[i].value <= retire[d] /\ presentEvent < pipeline[i].value
      BY <1>3, <2>1, <2>3 DEF Reads, Values
    <3>2. pipeline[i].value \in Nat /\ presentEvent \in Nat
      BY <1>3, LastValueType DEF Job, QueueTypes
    <3>3. retire[d] \in Nat
      BY <2>1, ElementOfSeq DEF Job, DrawableTypes, Drawables
    <3>4. retire[d] # 0
      BY <3>1, <3>2, <3>3
    <3> QED
      BY <2>1, <3>4 DEF Shows
  <2> QED
    BY <2>2, <2>3 DEF Job, JobTypes
<1> QED
  BY <1>1, <1>2, <1>3 DEF InUse, ReadByGpu

(* A command that reads a frame is about a drawable there is.               *)
LEMMA ReadingFrames ==
  ASSUME QueueTypes, Framed
  PROVE  \A i \in Reading : /\ i \in 1..Len(pipeline) /\ pipeline[i] \in Commands /\ pipeline[i].value \in Nat
                            /\ pipeline[i].frame \in Drawables /\ pipeline[i].op # "generated"
  BY LastValueType DEF Reading, Framed

(* A step that submits and retires nothing and hands no read frame to the   *)
(* worker.                                                                  *)
LEMMA ReadsSame ==
  ASSUME Reads, UNCHANGED <<pipeline, pc, frame, copied, presentSerial, retire>>,
         \A i \in Reading : pc \in {"receive", "settle", "natively"} => "worker" \notin holders'[pipeline[i].frame]
  PROVE  Reads'
<1>1. Reading' = Reading
  BY DEF Reading
<1> QED
  BY <1>1 DEF Reads

(* No command reads a frame that no listener of retire() waits for, unless  *)
(* it is the one being worked on.                                           *)
LEMMA Unread ==
  ASSUME QueueTypes, Framed, Values, Reads, pc \in {"receive", "settle", "natively"}, NEW d, retire[d] \in Nat, presentEvent >= retire[d]
  PROVE  \A i \in Reading : pipeline[i].frame # d
<1> SUFFICES ASSUME NEW i \in Reading, pipeline[i].frame = d PROVE FALSE
  OBVIOUS
<1>1. pipeline[i].value <= retire[d] /\ presentEvent < pipeline[i].value
  BY DEF Reads, Values, Reading
<1>2. pipeline[i].value \in Nat /\ presentEvent \in Nat
  BY ReadingFrames DEF QueueTypes
<1> QED
  BY <1>1, <1>2

(* Nothing is read by an empty pipeline.                                    *)
LEMMA NoReads ==
  ASSUME pipeline' = <<>>, pc' \notin {"generated", "original"}
  PROVE  Reads'
<1>1. Reading' = {}
  BY DEF Reading
<1> QED
  BY <1>1 DEF Reads

(* The last present keeps its frame until the last value that reads it.     *)
LEMMA ShowReads ==
  ASSUME Job, Framed, Values, Engines, Reads, Show
  PROVE  Reads'
<1> DEFINE c == Command(pc, presentSerial + 1, engine = "moltenvk" /\ Fenced(Last))
<1>1. /\ pc \in {"generated", "original"} /\ presentSerial' = presentSerial + 1 /\ pipeline' = Append(pipeline, c)
  BY DEF Show
<1>2. QueueTypes /\ JobTypes
  BY DEF Job
<1>3. c \in Commands /\ c.frame = frame /\ c.value = presentSerial + 1 /\ c.op = pc
  <2>1. (engine = "moltenvk" /\ Fenced(Last)) \in BOOLEAN
    OBVIOUS
  <2> QED
    BY <1>1, <1>2, <2>1 DEF Command, Commands, QueueTypes, JobTypes
<1> HIDE DEF c
<1>4. /\ Len(pipeline') = Len(pipeline) + 1 /\ Len(pipeline) \in Nat
      /\ \A i \in 1..Len(pipeline) : pipeline'[i] = pipeline[i]
      /\ pipeline'[Len(pipeline) + 1] = c
  BY <1>1, <1>2, <1>3, PipelineGrows DEF QueueTypes
<1>5. \A i \in Reading' : (i \in Reading /\ pipeline'[i] = pipeline[i]) \/ (pc = "original" /\ pipeline'[i] = c)
  <2>1. ASSUME NEW i \in Reading'
        PROVE  (i \in Reading /\ pipeline'[i] = pipeline[i]) \/ (pc = "original" /\ pipeline'[i] = c)
    <3>1. i \in 1..Len(pipeline') /\ pipeline'[i].op # "generated"
      BY DEF Reading
    <3>2. CASE i = Len(pipeline) + 1
      <4>1. pipeline'[i] = c
        BY <1>4, <3>2
      <4>2. pc # "generated"
        BY <1>3, <3>1, <4>1
      <4> QED
        BY <1>1, <4>1, <4>2
    <3>3. CASE i \in 1..Len(pipeline)
      BY <1>4, <3>1, <3>3 DEF Reading
    <3> QED
      BY <1>4, <3>1, <3>2, <3>3
  <2> QED
    BY <2>1
<1>6. frame \in Drawables /\ copied \in Nat /\ presentSerial \in Nat /\ copied <= presentSerial
  BY <1>1, <1>2, FrameKnown DEF Reads, QueueTypes, JobTypes
<1>7. \A i \in Reading : pipeline[i].frame = frame /\ pipeline[i].value <= copied /\ pipeline[i].value \in Nat
  BY <1>1, <1>2, ReadingFrames DEF Reads
<1>8. CASE Last
  <2>1. /\ retire' = [retire EXCEPT ![frame] = RetireAt(presentSerial + 1)]
        /\ Hold(frame, {"worker"}, {"handler", "retire"})
        /\ pc' = "receive"
    BY <1>8 DEF Show, JobDone
  <2>2. {"handler", "retire"} \in SUBSET Holder
    BY DEF Holder
  <2>3. "worker" \notin holders'[frame]
    <3>1. \A e \in Drawables : holders'[e] = IF e = frame THEN (holders[frame] \ {"worker"}) \cup {"handler", "retire"} ELSE holders[e]
      BY <1>6, <2>1, <2>2, HoldChanges DEF Job
    <3> QED
      BY <1>6, <3>1
  <2>4. retire'[frame] = IF ShowOriginal THEN presentSerial + 1 ELSE copied
    BY <1>6, <2>1 DEF RetireAt, Job, DrawableTypes, Drawables
  <2>5. pc = "original" => ShowOriginal
    BY DEF Engines
  <2>6. ASSUME NEW i \in Reading'
        PROVE  pipeline'[i].frame = frame /\ pipeline'[i].value <= retire'[frame]
    <3>1. CASE i \in Reading /\ pipeline'[i] = pipeline[i]
      BY <1>6, <1>7, <2>4, <3>1
    <3>2. CASE pc = "original" /\ pipeline'[i] = c
      BY <1>3, <1>6, <2>4, <2>5, <3>2
    <3> QED
      BY <1>5, <3>1, <3>2
  <2> QED
    BY <2>1, <2>3, <2>6 DEF Reads
<1>9. CASE ~Last
  <2>1. pc = "generated"
    BY <1>1, <1>9 DEF Last
  <2>2. UNCHANGED <<frame, copied>>
    BY <1>9 DEF Show
  <2>3. pc' \in {"generated", "original"}
    BY <1>9 DEF Show
  <2>4. copied' <= presentSerial'
    BY <1>1, <1>6, <2>2
  <2>5. \A i \in Reading' : pipeline'[i].frame = frame /\ pipeline'[i].value <= copied
    BY <1>5, <1>7, <2>1
  <2> QED
    BY <2>2, <2>3, <2>4, <2>5 DEF Reads
<1> QED
  BY <1>8, <1>9

(* No step of the worker or the devices leaves a read behind that nothing   *)
(* waits for. A frame skipped past its copy in would: the worker shows it   *)
(* natively with its copy in still on the pipeline.                         *)
LEMMA ReadsStep ==
  ASSUME "skip" \notin Faults, Job, Framed, Values, Engines, Shows, Reads, Worker \/ Devices
  PROVE  Reads'
<1>1. QueueTypes /\ JobTypes
  BY DEF Job
<1>2. ASSUME UNCHANGED <<pipeline, pc, frame, copied, presentSerial, retire>>, NEW d \in Drawables,
             NEW h, h # "worker", Hold(d, {h}, {})
      PROVE  Reads'
  <2>1. {} \in SUBSET Holder
    OBVIOUS
  <2>2. \A e \in Drawables : holders'[e] = IF e = d THEN (holders[d] \ {h}) \cup {} ELSE holders[e]
    BY <1>2, <2>1, HoldChanges DEF Job
  <2>3. \A i \in Reading : pc \in {"receive", "settle", "natively"} => "worker" \notin holders'[pipeline[i].frame]
    BY <1>1, <2>2, ReadingFrames DEF Reads
  <2> QED
    BY <1>2, <2>3, ReadsSame
<1>3. ASSUME NEW next, NEW off, NEW outcome, Refuse(next, outcome, off) PROVE Reads'
  <2>1. pipeline = <<>> /\ pipeline' = pipeline
    BY <1>1, <1>3, SettledIdle DEF Refuse, gpuVars
  <2>2. pc' \in {"reset", "natively"}
    BY <1>3 DEF Refuse, Fail
  <2> QED
    BY <2>1, <2>2, NoReads
<1>4. ASSUME pipeline = <<>>, NEW op \in {"copyin", "generated", "original"}, NEW fence \in BOOLEAN,
             pipeline' = Append(pipeline, Command(op, presentSerial + 1, fence)), frame' = frame
      PROVE  \A i \in Reading' : pipeline'[i].frame = frame' /\ pipeline'[i].value = presentSerial + 1
  <2> DEFINE c == Command(op, presentSerial + 1, fence)
  <2>1. c \in Commands /\ c.frame = frame /\ c.value = presentSerial + 1
    BY <1>1 DEF Command, Commands, QueueTypes, JobTypes
  <2>2. pipeline' = Append(pipeline, c)
    BY <1>4
  <2> HIDE DEF c
  <2>3. Len(pipeline') = Len(pipeline) + 1 /\ pipeline'[Len(pipeline) + 1] = c
    BY <1>1, <2>1, <2>2, PipelineGrows
  <2>4. Len(pipeline) = 0
    BY <1>4, EmptySeq
  <2> QED
    BY <1>4, <2>1, <2>3, <2>4 DEF Reading
<1>5. ASSUME NEW next, NEW off, NEW p, Begin(next, off, p) PROVE Reads'
  <2>1. pipeline = <<>>
    BY <1>1, <1>5, SettledIdle DEF Begin
  <2>2. /\ pc' \in {"generated", "original"} /\ frame' = frame /\ copied' = presentSerial + 1
        /\ presentSerial' = presentSerial + 1
        /\ pipeline' = Append(pipeline, Command("copyin", presentSerial + 1, FALSE))
    BY <1>5 DEF Begin
  <2>3. \A i \in Reading' : pipeline'[i].frame = frame' /\ pipeline'[i].value = presentSerial + 1
    BY <1>4, <2>1, <2>2
  <2>4. presentSerial \in Nat /\ presentSerial + 1 <= presentSerial + 1
    BY <1>1 DEF QueueTypes
  <2>5. copied' <= presentSerial'
    BY <2>2, <2>4
  <2>6. \A i \in Reading' : pipeline'[i].frame = frame' /\ pipeline'[i].value <= copied'
    BY <2>2, <2>3, <2>4
  <2> QED
    BY <2>2, <2>5, <2>6 DEF Reads
<1>6. ASSUME NEW next, NEW off, NEW submitted, StartFails(next, off, submitted) PROVE Reads'
  <2>1. pipeline = <<>>
    BY <1>1, <1>6, SettledIdle DEF StartFails
  <2>2. /\ pc' = "reset" /\ frame' = frame
        /\ \/ pipeline' = Append(pipeline, Command("copyin", presentSerial + 1, FALSE))
           \/ pipeline' = pipeline
    BY <1>6 DEF StartFails, Fail
  <2>3. CASE pipeline' = pipeline
    BY <2>1, <2>2, <2>3, NoReads
  <2>4. CASE pipeline' = Append(pipeline, Command("copyin", presentSerial + 1, FALSE))
    <3>1. \A i \in Reading' : pipeline'[i].frame = frame'
      BY <1>4, <2>1, <2>2, <2>4
    <3> QED
      BY <2>2, <3>1 DEF Reads
  <2> QED
    BY <2>2, <2>3, <2>4
<1>7. CASE NoTarget
  <2>1. pc \in {"generated", "original"} /\ pc' = "reset" /\ UNCHANGED <<pipeline, frame>>
    BY <1>7 DEF NoTarget, Fail, ProduceFails, gpuVars
  <2> QED
    BY <2>1 DEF Reads, Reading
<1>8. ASSUME NEW outcome \in {"mismatch", "error"}, PresentFails(outcome) PROVE Reads'
  <2>1. /\ pc \in {"generated", "original"} /\ pc' = "reset" /\ frame' = frame
        /\ pipeline' = Append(pipeline, Command(pc, presentSerial + 1, engine = "moltenvk" /\ Fenced(Last)))
    BY <1>8 DEF PresentFails, Fail
  <2>2. (engine = "moltenvk" /\ Fenced(Last)) \in BOOLEAN
    OBVIOUS
  <2> DEFINE c == Command(pc, presentSerial + 1, engine = "moltenvk" /\ Fenced(Last))
  <2>3. c \in Commands /\ c.frame = frame
    BY <1>1, <2>1, <2>2 DEF Command, Commands, QueueTypes, JobTypes
  <2>4. pipeline' = Append(pipeline, c)
    BY <2>1
  <2> HIDE DEF c
  <2>5. /\ Len(pipeline') = Len(pipeline) + 1 /\ Len(pipeline) \in Nat
        /\ \A i \in 1..Len(pipeline) : pipeline'[i] = pipeline[i]
        /\ pipeline'[Len(pipeline) + 1] = c
    BY <1>1, <2>3, <2>4, PipelineGrows DEF QueueTypes
  <2>6. \A i \in Reading' : (i \in Reading /\ pipeline'[i] = pipeline[i]) \/ pipeline'[i] = c
    BY <2>5 DEF Reading
  <2>7. \A i \in Reading' : pipeline'[i].frame = frame'
    BY <2>1, <2>3, <2>6 DEF Reads
  <2> QED
    BY <2>1, <2>7 DEF Reads
<1>9. CASE Reset
  <2>1. Drained /\ UNCHANGED pipeline /\ pc' = "natively"
    BY <1>9 DEF Reset, gpuVars
  <2>2. pipeline = <<>>
    BY <2>1 DEF Drained, Engines, Engaged
  <2> QED
    BY <2>1, <2>2, NoReads
<1>10. ASSUME NEW found, PresentNatively(found) PROVE Reads'
  <2>1. /\ pc = "natively" /\ pc' = "receive" /\ UNCHANGED <<pipeline, retire>>
        /\ Hold(frame, {"worker"}, {"copy", "handler"}) \/ Hold(frame, {"worker"}, {})
    BY <1>10 DEF PresentNatively, ShowNatively, JobDone
  <2>2. {"copy", "handler"} \in SUBSET Holder /\ {} \in SUBSET Holder
    BY DEF Holder
  <2>3. frame \in Drawables
    BY <2>1, FrameKnown
  <2>4. \A e \in Drawables : "worker" \in holders'[e] => "worker" \in holders[e]
    <3>1. CASE Hold(frame, {"worker"}, {"copy", "handler"})
      <4>1. \A e \in Drawables : holders'[e] = IF e = frame THEN (holders[frame] \ {"worker"}) \cup {"copy", "handler"} ELSE holders[e]
        BY <2>2, <2>3, <3>1, HoldChanges DEF Job
      <4> QED
        BY <4>1
    <3>2. CASE Hold(frame, {"worker"}, {})
      <4>1. \A e \in Drawables : holders'[e] = IF e = frame THEN (holders[frame] \ {"worker"}) \cup {} ELSE holders[e]
        BY <2>2, <2>3, <3>2, HoldChanges DEF Job
      <4> QED
        BY <4>1
    <3> QED
      BY <2>1, <3>1, <3>2
  <2>5. Reading' = Reading
    BY <2>1 DEF Reading
  <2> QED
    BY <1>1, <2>1, <2>4, <2>5, ReadingFrames DEF Reads
<1>11. CASE Receive
  <2>1. UNCHANGED <<pipeline, retire, holders>> /\ pc = "receive" /\ pc' \in {"receive", "settle", "natively"}
    <3>1. UNCHANGED <<pipeline, retire, holders>> /\ pc = "receive"
      BY <1>11 DEF Receive, drawableVars, gpuVars
    <3>2. CASE Head(channel) = Forget
      BY <1>11, <3>1, <3>2 DEF Receive
    <3>3. CASE Head(channel) # Forget
      BY <1>11, <3>1, <3>3 DEF Receive
    <3> QED
      BY <3>2, <3>3
  <2> QED
    BY <2>1 DEF Reads, Reading
<1>12. CASE PipelineCompletes
  <2>1. /\ UNCHANGED <<pc, frame, copied, presentSerial, retire, holders>> /\ pipeline # <<>> /\ pipeline' = Tail(pipeline)
    BY <1>12 DEF PipelineCompletes, jobVars, drawableVars
  <2>2. \A i \in 1..Len(pipeline') : i + 1 \in 1..Len(pipeline) /\ pipeline'[i] = pipeline[i + 1]
    BY <1>1, <2>1, PipelineTail
  <2>3. \A i \in Reading' : i + 1 \in Reading /\ pipeline'[i] = pipeline[i + 1]
    BY <2>2 DEF Reading
  <2> QED
    BY <2>1, <2>3 DEF Reads
<1>13. CASE PresentCompletes
  <2> DEFINE c == Head(presents)
  <2>1. /\ UNCHANGED <<pipeline, pc, frame, copied, presentSerial, retire>>
        /\ IF c.op = "native" THEN Hold(c.frame, {"copy"}, {}) ELSE UNCHANGED holders
    BY <1>13 DEF PresentCompletes, jobVars
  <2>2. c = presents[1] /\ 1 \in 1..Len(presents)
    BY <1>1, <1>13, HeadTailProperties DEF PresentCompletes, QueueTypes
  <2>3. c.frame \in Drawables
    BY <2>2 DEF Framed
  <2> HIDE DEF c
  <2>4. CASE c.op = "native"
    <3>1. Hold(c.frame, {"copy"}, {}) /\ "copy" # "worker"
      BY <2>1, <2>4
    <3> QED
      BY <1>2, <2>1, <2>3, <3>1
  <2>5. CASE c.op # "native"
    <3>1. UNCHANGED holders
      BY <2>1, <2>5
    <3>2. \A i \in Reading : pc \in {"receive", "settle", "natively"} => "worker" \notin holders'[pipeline[i].frame]
      BY <3>1 DEF Reads
    <3> QED
      BY <2>1, <3>2, ReadsSame
  <2> QED
    BY <2>4, <2>5
<1>14. ASSUME NEW d \in Drawables, Presented(d) PROVE Reads'
  <2>1. UNCHANGED <<pipeline, pc, frame, copied, presentSerial, retire>> /\ Hold(d, {"handler"}, {}) /\ "handler" # "worker"
    BY <1>14 DEF Presented, jobVars
  <2> QED
    BY <1>2, <2>1
<1>15. ASSUME NEW d \in Drawables, Retire(d) PROVE Reads'
  <2>1. /\ UNCHANGED <<pipeline, pc, frame, copied, presentSerial>> /\ Hold(d, {"retire"}, {})
        /\ presentEvent >= retire[d] /\ retire' = [retire EXCEPT ![d] = 0]
    BY <1>15 DEF Retire, jobVars
  <2>2. retire[d] \in Nat /\ \A e \in Drawables : e # d => retire'[e] = retire[e]
    BY <2>1, ElementOfSeq DEF Job, DrawableTypes, Drawables
  <2>3. {} \in SUBSET Holder
    OBVIOUS
  <2>4. \A e \in Drawables : e # d => holders'[e] = holders[e]
    BY <2>1, <2>3, HoldChanges DEF Job
  <2>5. Reading' = Reading
    BY <2>1 DEF Reading
  <2>6. pc \in {"receive", "settle", "natively"} => \A i \in Reading : pipeline[i].frame # d /\ pipeline[i].frame \in Drawables
    BY <1>1, <2>1, <2>2, Unread, ReadingFrames
  <2> QED
    BY <2>1, <2>2, <2>4, <2>5, <2>6 DEF Reads
<1>16. CASE GameCompletes
  <2>1. UNCHANGED <<pipeline, pc, frame, copied, presentSerial, retire, holders>>
    BY <1>16 DEF GameCompletes, jobVars, drawableVars, gpuVars
  <2>2. \A i \in Reading : pc \in {"receive", "settle", "natively"} => "worker" \notin holders'[pipeline[i].frame]
    BY <2>1 DEF Reads
  <2> QED
    BY <2>1, <2>2, ReadsSame
<1> QED
  BY <1>3, <1>5, <1>6, <1>7, <1>8, <1>9, <1>10, <1>11, <1>12, <1>13, <1>14, <1>15, <1>16, ShowReads DEF Worker, Devices

-----------------------------------------------------------------------------
(* The invariant of the worker and its queues, and what the steps of the    *)
(* two games and of the swapchain do to it.                                 *)
Base == Job /\ Framed /\ Values /\ Engines /\ Shows

(* A new worker has done nothing.                                           *)
LEMMA BaseInit ==
  ASSUME WorkerInit
  PROVE  Base /\ Reads
<1>1. DrawableTypes /\ QueueTypes
  BY EmptySeq DEF WorkerInit, DrawableTypes, QueueTypes, Drawables
<1>2. JobTypes
  BY EmptySeq DEF WorkerInit, JobTypes, Engaged
<1>3. Jobs /\ Framed
  BY EmptySeq DEF WorkerInit, Jobs, Framed
<1>4. Values
  BY EmptySeq DEF WorkerInit, Values
<1>5. Engines
  BY DEF WorkerInit, Engines
<1>6. Shows
  BY EmptySeq DEF WorkerInit, Shows, Drawables
<1>7. Reads
  BY EmptySeq DEF WorkerInit, Reads, Reading
<1> QED
  BY <1>1, <1>2, <1>3, <1>4, <1>5, <1>6, <1>7 DEF Base, Job

(* The invariant of the worker is inductive by itself.                      *)
LEMMA BaseStep ==
  ASSUME Base, Worker \/ Devices
  PROVE  Base'
<1>1. Job /\ Framed /\ Values /\ Engines /\ Shows
  BY DEF Base
<1>2. Job' /\ Framed' /\ Values' /\ Engines' /\ Shows'
  BY <1>1, JobStep, FramedStep, ValuesStep, EnginesStep, ShowsStep
<1> QED
  BY <1>2 DEF Base

(* The game's steps change no value and no present.                         *)
LEMMA ValuesAside ==
  ASSUME QueueTypes, Values, Aside,
         \/ UNCHANGED presents
         \/ \E c \in Shots : c.op = "native" /\ presents' = Append(presents, c)
  PROVE  Values'
<1>1. LastValue' = LastValue
  BY DEF Aside, LastValue
<1>2. ASSUME NEW i \in 1..Len(presents'), presents'[i].op = "present" PROVE presents'[i].value <= LastValue
  <2>1. CASE UNCHANGED presents
    BY <1>2, <2>1 DEF Values
  <2>2. ASSUME NEW c \in Shots, c.op = "native", presents' = Append(presents, c) PROVE presents'[i].value <= LastValue
    <3>1. /\ Len(presents') = Len(presents) + 1 /\ Len(presents) \in Nat
          /\ \A k \in 1..Len(presents) : presents'[k] = presents[k]
          /\ presents'[Len(presents) + 1] = c
      BY <2>2, PresentsGrow DEF QueueTypes
    <3>2. i \in 1..Len(presents)
      BY <1>2, <2>2, <3>1
    <3> QED
      BY <1>2, <3>1, <3>2 DEF Values
  <2> QED
    BY <2>1, <2>2
<1> QED
  BY <1>1, <1>2 DEF Values, Aside

(* A texture is handed out behind a new drawable.                           *)
NewDrawable(t, n) ==
  /\ texture' = Append(texture, t)
  /\ holders' = Append(holders, {"game"})
  /\ serial' = Append(serial, n)
  /\ retire' = Append(retire, 0)
  /\ Aside
  /\ UNCHANGED <<channel, presents, shown>>

(* What a new drawable adds.                                                *)
LEMMA NewDrawableTypes ==
  ASSUME DrawableTypes, NEW t \in Textures, NEW n \in Nat, NewDrawable(t, n)
  PROVE  /\ DrawableTypes' /\ Len(texture) \in Nat
         /\ Drawables' = Drawables \cup {Len(texture) + 1} /\ Len(texture) + 1 \notin Drawables
         /\ \A d \in Drawables : texture'[d] = texture[d] /\ holders'[d] = holders[d] /\ retire'[d] = retire[d] /\ serial'[d] = serial[d]
         /\ texture'[Len(texture) + 1] = t /\ holders'[Len(texture) + 1] = {"game"}
         /\ retire'[Len(texture) + 1] = 0 /\ serial'[Len(texture) + 1] = n
<1>1. {"game"} \in SUBSET Holder /\ 0 \in Nat
  BY DEF Holder
<1>2. /\ texture' \in Seq(Textures) /\ Len(texture') = Len(texture) + 1
      /\ \A d \in 1..Len(texture) : texture'[d] = texture[d]
      /\ texture'[Len(texture) + 1] = t
  BY AppendProperties DEF NewDrawable, DrawableTypes
<1>3. /\ holders' \in Seq(SUBSET Holder) /\ Len(holders') = Len(holders) + 1
      /\ \A d \in 1..Len(holders) : holders'[d] = holders[d]
      /\ holders'[Len(holders) + 1] = {"game"}
  BY <1>1, AppendProperties DEF NewDrawable, DrawableTypes
<1>4. /\ serial' \in Seq(Nat) /\ Len(serial') = Len(serial) + 1
      /\ \A d \in 1..Len(serial) : serial'[d] = serial[d]
      /\ serial'[Len(serial) + 1] = n
  BY AppendProperties DEF NewDrawable, DrawableTypes
<1>5. /\ retire' \in Seq(Nat) /\ Len(retire') = Len(retire) + 1
      /\ \A d \in 1..Len(retire) : retire'[d] = retire[d]
      /\ retire'[Len(retire) + 1] = 0
  BY <1>1, AppendProperties DEF NewDrawable, DrawableTypes
<1>6. Len(holders) = Len(texture) /\ Len(serial) = Len(texture) /\ Len(retire) = Len(texture) /\ Len(texture) \in Nat
  BY DEF DrawableTypes
<1>7. Drawables' = Drawables \cup {Len(texture) + 1} /\ Len(texture) + 1 \notin Drawables /\ Drawables = 1..Len(texture)
  BY <1>2, <1>6 DEF Drawables
<1>8. shown' \subseteq Drawables'
  BY <1>7 DEF NewDrawable, DrawableTypes
<1>9. DrawableTypes'
  BY <1>2, <1>3, <1>4, <1>5, <1>6, <1>8 DEF DrawableTypes
<1> QED
  BY <1>2, <1>3, <1>4, <1>5, <1>6, <1>7, <1>9

(* Nobody but the game knows a new drawable yet.                            *)
LEMMA BaseNewDrawable ==
  ASSUME Base, NEW t \in Textures, NEW n \in Nat, NewDrawable(t, n)
  PROVE  Base' /\ (Reads => Reads')
<1>1. Job /\ Framed /\ Values /\ Engines /\ Shows /\ DrawableTypes /\ QueueTypes /\ JobTypes /\ Jobs
  BY DEF Base, Job
<1>2. UNCHANGED <<pc, frame, plan, slot, copied, engine, framePending, presentSerial, pipeline, presentEvent, channel, presents, shown>>
  BY DEF NewDrawable, Aside
<1>3. DrawableTypes'
  BY <1>1, NewDrawableTypes
<1> DEFINE new == Len(texture) + 1
<1>4. /\ Drawables' = Drawables \cup {new} /\ new \notin Drawables
      /\ \A d \in Drawables : holders'[d] = holders[d] /\ retire'[d] = retire[d]
      /\ holders'[new] = {"game"} /\ retire'[new] = 0
  BY <1>1, NewDrawableTypes
<1> HIDE DEF new
<1>5. QueueTypes' /\ JobTypes'
  BY <1>1, <1>2 DEF QueueTypes, JobTypes
<1>6. Jobs'
  BY <1>1, <1>2, <1>4 DEF Jobs
<1>7. Framed'
  BY <1>1, <1>2, <1>4 DEF Framed
<1>8. Values' /\ Engines'
  BY <1>1, ValuesAside, EnginesAside DEF NewDrawable
<1>9. \A d \in Drawables' : Handled(d)' => Handled(d) /\ d \in Drawables
  BY <1>1, <1>2 DEF Handled, Framed
<1>10. Shows'
  <2>1. \A d \in Drawables' : retire'[d] # 0 => "retire" \in holders'[d]
    BY <1>1, <1>4 DEF Shows
  <2>2. \A d \in Drawables' : d \in shown' \/ Handled(d)' => "handler" \in holders'[d] /\ "worker" \notin holders'[d]
    BY <1>1, <1>2, <1>4, <1>9 DEF Shows, DrawableTypes
  <2>3. \A d \in shown' : ~Handled(d)'
    BY <1>1, <1>2, <1>4, <1>9 DEF Shows, DrawableTypes
  <2>4. \A i \in 1..Len(presents) : presents[i].op = "native" => presents[i].handler /\ "copy" \in holders'[presents[i].frame]
    BY <1>1, <1>4 DEF Shows, Framed
  <2>5. \A i, j \in 1..Len(presents) : j # i /\ presents[i].handler /\ presents[j].handler => presents[j].frame # presents[i].frame
    BY <1>1 DEF Shows
  <2> QED
    BY <1>2, <2>1, <2>2, <2>3, <2>4, <2>5 DEF Shows
<1>11. Reads => Reads'
  <2>1. Reading' = Reading /\ \A i \in Reading : pipeline[i].frame \in Drawables
    BY <1>1, <1>2, ReadingFrames DEF Reading
  <2> QED
    BY <1>2, <1>4, <2>1 DEF Reads
<1> QED
  BY <1>3, <1>5, <1>6, <1>7, <1>8, <1>10, <1>11 DEF Base, Job

(* The game hands a drawable that only it holds to the worker, or shows it  *)
(* itself when the worker is gone.                                          *)
LEMMA BaseSends ==
  ASSUME Base, NEW d \in Drawables, holders[d] = {"game"}, NEW dropped, "retire" \notin dropped,
         NEW spawned, NEW found, Enqueue(d, dropped, spawned, found), Aside, UNCHANGED <<serial, retire, shown>>
  PROVE  Base' /\ (Reads => Reads')
<1>1. Job /\ Framed /\ Values /\ Engines /\ Shows /\ DrawableTypes /\ QueueTypes /\ JobTypes /\ Jobs
  BY DEF Base, Job
<1>2. UNCHANGED <<pc, frame, plan, slot, copied, engine, framePending, presentSerial, pipeline, presentEvent>>
  BY DEF Aside
<1>3. d \notin shown /\ ~Handled(d) /\ retire[d] = 0
  BY <1>1 DEF Shows
<1>4. (pc # "receive" => frame # d) /\ \A i \in 1..Len(channel) : channel[i] # d
  <2>1. "worker" \notin holders[d] /\ d # Forget
    BY DEF Drawables, Forget
  <2> QED
    BY <1>1, <2>1 DEF Jobs
<1>5. d \in Nat /\ UNCHANGED texture /\ Drawables' = Drawables
  BY DEF Drawables, Enqueue, ShowNatively
<1>6. Engines'
  BY <1>1, EnginesAside
<1>7. ASSUME \A e \in Drawables : e # d => holders'[e] = holders[e]
      PROVE  Reads => Reads'
  <2> SUFFICES ASSUME Reads PROVE Reads'
    OBVIOUS
  <2>1. presentEvent >= retire[d] /\ retire[d] \in Nat
    BY <1>1, <1>3 DEF QueueTypes
  <2>2. \A i \in Reading : pc \in {"receive", "settle", "natively"} => pipeline[i].frame # d /\ pipeline[i].frame \in Drawables
    BY <1>1, <2>1, Unread, ReadingFrames
  <2>3. \A i \in Reading : pc \in {"receive", "settle", "natively"} => "worker" \notin holders'[pipeline[i].frame]
    BY <1>7, <2>2 DEF Reads
  <2> QED
    BY <1>2, <2>3, ReadsSame
<1>8. CASE started' = "yes"
  <2>1. channel' = Append(channel, d) /\ Hold(d, dropped, {"worker"}) /\ UNCHANGED presents
    BY <1>8 DEF Enqueue
  <2>2. {"worker"} \in SUBSET Holder
    BY DEF Holder
  <2>3. /\ holders' \in Seq(SUBSET Holder) /\ Len(holders') = Len(holders)
        /\ \A e \in Drawables : holders'[e] = IF e = d THEN (holders[d] \ dropped) \cup {"worker"} ELSE holders[e]
    BY <1>1, <2>1, <2>2, HoldChanges
  <2>4. DrawableTypes'
    BY <1>1, <1>5, <2>3 DEF DrawableTypes
  <2>5. /\ channel' \in Seq(Nat) /\ Len(channel') = Len(channel) + 1 /\ Len(channel) \in Nat
        /\ \A i \in 1..Len(channel) : channel'[i] = channel[i]
        /\ channel'[Len(channel) + 1] = d
    BY <1>1, <1>5, <2>1, AppendProperties DEF JobTypes
  <2>6. JobTypes' /\ QueueTypes'
    <3>1. JobTypes'
      BY <1>1, <1>2, <2>5 DEF JobTypes
    <3>2. QueueTypes'
      BY <1>1, <1>2, <2>1 DEF QueueTypes
    <3> QED
      BY <3>1, <3>2
  <2>7. \A e \in Drawables : "worker" \in holders[e] => "worker" \in holders'[e]
    BY <2>3
  <2>8. pc' # "receive" => frame' \in Drawables' /\ "worker" \in holders'[frame']
    BY <1>1, <1>2, <1>5, <2>7 DEF Jobs
  <2>9. ASSUME NEW i \in 1..Len(channel'), channel'[i] # Forget
        PROVE  /\ channel'[i] \in Drawables' /\ "worker" \in holders'[channel'[i]]
               /\ pc' # "receive" => channel'[i] # frame'
               /\ \A j \in 1..Len(channel') : j # i => channel'[j] # channel'[i]
    <3>1. CASE i = Len(channel) + 1
      <4>1. \A j \in 1..Len(channel') : j # i => j \in 1..Len(channel)
        BY <2>5, <3>1
      <4>2. channel'[i] = d /\ "worker" \in holders'[d]
        BY <2>3, <2>5, <3>1
      <4> QED
        BY <1>2, <1>4, <1>5, <2>5, <4>1, <4>2
    <3>2. CASE i \in 1..Len(channel)
      <4>1. channel'[i] = channel[i] /\ channel[i] # d
        BY <1>4, <2>5, <3>2
      <4>2. /\ channel[i] \in Drawables /\ "worker" \in holders[channel[i]]
            /\ pc # "receive" => channel[i] # frame
            /\ \A j \in 1..Len(channel) : j # i => channel[j] # channel[i]
        BY <1>1, <2>9, <3>2, <4>1 DEF Jobs
      <4>3. ASSUME NEW j \in 1..Len(channel'), j # i PROVE channel'[j] # channel'[i]
        <5>1. CASE j = Len(channel) + 1
          BY <2>5, <4>1, <5>1
        <5>2. CASE j \in 1..Len(channel)
          BY <2>5, <4>1, <4>2, <4>3, <5>2
        <5> QED
          BY <2>5, <5>1, <5>2
      <4> QED
        BY <1>2, <1>5, <2>7, <4>1, <4>2, <4>3
    <3> QED
      BY <2>5, <3>1, <3>2
  <2>10. Jobs'
    BY <2>8, <2>9 DEF Jobs
  <2>11. Framed'
    BY <1>1, <1>2, <1>5, <2>1 DEF Framed
  <2>12. Values'
    BY <1>1, <2>1, ValuesAside
  <2>13. OnlyOf(d)
    BY <1>3, <1>5, <2>3 DEF OnlyOf
  <2>14. Shows'
    BY <1>1, <1>3, <2>1, <2>13, ShowsOf
  <2>15. Reads => Reads'
    BY <1>7, <2>3
  <2> QED
    BY <1>6, <2>4, <2>6, <2>10, <2>11, <2>12, <2>14, <2>15 DEF Base, Job
<1>9. CASE started' # "yes"
  <2>1. ShowNatively(d, dropped, found) /\ UNCHANGED channel
    BY <1>9 DEF Enqueue
  <2>2. Shows'
    <3>1. "worker" \notin holders[d] \ dropped
      OBVIOUS
    <3> QED
      BY <1>1, <1>3, <2>1, <3>1, NativeShows
  <2>3. \/ /\ \E c \in Shots : c.op = "native" /\ c.frame = d /\ presents' = Append(presents, c)
           /\ Hold(d, dropped, {"copy", "handler"})
        \/ UNCHANGED presents /\ Hold(d, dropped, {})
    BY <1>1, <2>1, NativeShot
  <2>4. /\ holders' \in Seq(SUBSET Holder) /\ Len(holders') = Len(holders)
        /\ \A e \in Drawables : e # d => holders'[e] = holders[e]
    <3>1. {"copy", "handler"} \in SUBSET Holder /\ {} \in SUBSET Holder
      BY DEF Holder
    <3>2. CASE Hold(d, dropped, {"copy", "handler"})
      BY <1>1, <3>1, <3>2, HoldChanges
    <3>3. CASE Hold(d, dropped, {})
      BY <1>1, <3>1, <3>3, HoldChanges
    <3> QED
      BY <2>3, <3>2, <3>3
  <2>5. DrawableTypes'
    BY <1>1, <1>5, <2>4 DEF DrawableTypes
  <2>6. JobTypes'
    BY <1>1, <1>2, <2>1 DEF JobTypes
  <2>7. Jobs'
    BY <1>1, <1>2, <1>4, <1>5, <2>1, <2>4 DEF Jobs
  <2>8. Values'
    BY <1>1, <2>3, ValuesAside
  <2>9. presents' \in Seq(Shots) /\ \A i \in 1..Len(presents') : presents'[i].frame \in Drawables
    <3>1. CASE UNCHANGED presents
      BY <1>1, <3>1 DEF QueueTypes, Framed
    <3>2. ASSUME NEW c \in Shots, c.frame = d, presents' = Append(presents, c)
          PROVE  presents' \in Seq(Shots) /\ \A i \in 1..Len(presents') : presents'[i].frame \in Drawables
      <4>1. /\ presents' \in Seq(Shots) /\ Len(presents') = Len(presents) + 1 /\ Len(presents) \in Nat
            /\ \A i \in 1..Len(presents) : presents'[i] = presents[i]
            /\ presents'[Len(presents) + 1] = c
        BY <1>1, <3>2, PresentsGrow DEF QueueTypes
      <4>2. \A i \in 1..Len(presents') : i \in 1..Len(presents) \/ i = Len(presents) + 1
        BY <4>1
      <4> QED
        BY <1>1, <3>2, <4>1, <4>2 DEF Framed
    <3> QED
      BY <2>3, <3>1, <3>2
  <2>10. QueueTypes' /\ Framed'
    <3>1. QueueTypes'
      BY <1>1, <1>2, <2>9 DEF QueueTypes
    <3>2. Framed'
      BY <1>1, <1>2, <1>5, <2>9 DEF Framed
    <3> QED
      BY <3>1, <3>2
  <2>11. Reads => Reads'
    BY <1>7, <2>4
  <2> QED
    BY <1>6, <2>2, <2>5, <2>6, <2>7, <2>8, <2>10, <2>11 DEF Base, Job
<1> QED
  BY <1>8, <1>9

(* The game commits work, drops a drawable, or has its imports forgotten.   *)
LEMMA BaseGame ==
  ASSUME Base, Aside, UNCHANGED <<texture, retire, shown, presents>>,
         serial' \in Seq(Nat), Len(serial') = Len(serial),
         channel' \in {channel, Append(channel, Forget)},
         \/ UNCHANGED holders
         \/ \E d \in Drawables : Hold(d, {"game"}, {})
  PROVE  Base' /\ (Reads => Reads')
<1>1. Job /\ Framed /\ Values /\ Engines /\ Shows /\ DrawableTypes /\ QueueTypes /\ JobTypes /\ Jobs
  BY DEF Base, Job
<1>2. UNCHANGED <<pc, frame, plan, slot, copied, engine, framePending, presentSerial, pipeline, presentEvent>>
  BY DEF Aside
<1>3. Drawables' = Drawables
  BY DEF Drawables
<1>4. /\ holders' \in Seq(SUBSET Holder) /\ Len(holders') = Len(holders)
      /\ \A e \in Drawables, h \in Holder : h # "game" => (h \in holders'[e] <=> h \in holders[e])
  <2>1. CASE UNCHANGED holders
    BY <1>1, <2>1 DEF DrawableTypes
  <2>2. ASSUME NEW d \in Drawables, Hold(d, {"game"}, {})
        PROVE  /\ holders' \in Seq(SUBSET Holder) /\ Len(holders') = Len(holders)
               /\ \A e \in Drawables, h \in Holder : h # "game" => (h \in holders'[e] <=> h \in holders[e])
    <3>1. {} \in SUBSET Holder
      OBVIOUS
    <3>2. /\ holders' \in Seq(SUBSET Holder) /\ Len(holders') = Len(holders)
          /\ \A e \in Drawables : holders'[e] = IF e = d THEN (holders[d] \ {"game"}) \cup {} ELSE holders[e]
      BY <1>1, <2>2, <3>1, HoldChanges
    <3> QED
      BY <3>2
  <2> QED
    BY <2>1, <2>2
<1>5. DrawableTypes' /\ QueueTypes'
  <2>1. DrawableTypes'
    BY <1>1, <1>3, <1>4 DEF DrawableTypes
  <2>2. QueueTypes'
    BY <1>1, <1>2 DEF QueueTypes
  <2> QED
    BY <2>1, <2>2
<1>6. /\ channel' \in Seq(Nat)
      /\ \A i \in 1..Len(channel') : channel'[i] # Forget => i \in 1..Len(channel) /\ channel'[i] = channel[i]
  <2>1. CASE channel' = channel
    BY <1>1, <2>1 DEF JobTypes
  <2>2. CASE channel' = Append(channel, Forget)
    <3>1. /\ channel' \in Seq(Nat) /\ Len(channel') = Len(channel) + 1 /\ Len(channel) \in Nat
          /\ \A i \in 1..Len(channel) : channel'[i] = channel[i]
          /\ channel'[Len(channel) + 1] = Forget
      BY <1>1, <2>2, AppendProperties DEF JobTypes, Forget
    <3>2. \A i \in 1..Len(channel') : i \in 1..Len(channel) \/ i = Len(channel) + 1
      BY <3>1
    <3> QED
      BY <3>1, <3>2
  <2> QED
    BY <2>1, <2>2
<1>7. JobTypes'
  BY <1>1, <1>2, <1>6 DEF JobTypes
<1>8. Jobs'
  <2>1. \A e \in Drawables : "worker" \in holders[e] => "worker" \in holders'[e]
    BY <1>4 DEF Holder
  <2>2. pc' # "receive" => frame' \in Drawables /\ "worker" \in holders'[frame']
    BY <1>1, <1>2, <2>1 DEF Jobs
  <2>3. ASSUME NEW i \in 1..Len(channel'), channel'[i] # Forget
        PROVE  /\ channel'[i] \in Drawables /\ "worker" \in holders'[channel'[i]]
               /\ pc' # "receive" => channel'[i] # frame'
               /\ \A j \in 1..Len(channel') : j # i => channel'[j] # channel'[i]
    <3>1. i \in 1..Len(channel) /\ channel'[i] = channel[i]
      BY <1>6, <2>3
    <3>2. /\ channel[i] \in Drawables /\ "worker" \in holders[channel[i]]
          /\ pc # "receive" => channel[i] # frame
          /\ \A j \in 1..Len(channel) : j # i => channel[j] # channel[i]
      BY <1>1, <2>3, <3>1 DEF Jobs
    <3>3. ASSUME NEW j \in 1..Len(channel'), j # i PROVE channel'[j] # channel'[i]
      <4>1. CASE channel'[j] = Forget
        BY <2>3, <4>1
      <4>2. CASE channel'[j] # Forget
        BY <1>6, <3>1, <3>2, <3>3, <4>2
      <4> QED
        BY <4>1, <4>2
    <3> QED
      BY <1>2, <2>1, <3>1, <3>2, <3>3
  <2> QED
    BY <1>3, <2>2, <2>3 DEF Jobs
<1>9. Framed' /\ Values' /\ Engines'
  <2>1. Framed'
    BY <1>1, <1>2, <1>3 DEF Framed
  <2> QED
    BY <1>1, <2>1, ValuesAside, EnginesAside
<1>10. Shows'
  <2>1. \A d \in Drawables : Handled(d)' <=> Handled(d)
    BY DEF Handled
  <2>2. \A d \in Drawables : retire'[d] # 0 => "retire" \in holders'[d]
    BY <1>1, <1>4 DEF Shows, Holder
  <2>3. \A d \in Drawables : d \in shown' \/ Handled(d)' => "handler" \in holders'[d] /\ "worker" \notin holders'[d]
    BY <1>1, <1>4, <2>1 DEF Shows, Holder
  <2>4. \A d \in shown' : ~Handled(d)'
    BY <1>1, <2>1 DEF Shows, DrawableTypes
  <2>5. \A i \in 1..Len(presents) : presents[i].op = "native" => presents[i].handler /\ "copy" \in holders'[presents[i].frame]
    BY <1>1, <1>4 DEF Shows, Framed, Holder
  <2>6. \A i, j \in 1..Len(presents) : j # i /\ presents[i].handler /\ presents[j].handler => presents[j].frame # presents[i].frame
    BY <1>1 DEF Shows
  <2> QED
    BY <1>3, <2>2, <2>3, <2>4, <2>5, <2>6 DEF Shows
<1>11. Reads => Reads'
  <2> SUFFICES ASSUME Reads PROVE Reads'
    OBVIOUS
  <2>1. \A i \in Reading : pc \in {"receive", "settle", "natively"} => "worker" \notin holders'[pipeline[i].frame]
    BY <1>1, <1>4, ReadingFrames DEF Reads, Holder
  <2> QED
    BY <1>2, <2>1, ReadsSame
<1> QED
  BY <1>5, <1>7, <1>8, <1>9, <1>10, <1>11 DEF Base, Job

(* Enqueue touches one drawable only.                                       *)
LEMMA EnqueueOthers ==
  ASSUME DrawableTypes, NEW d \in Drawables, NEW dropped, NEW spawned, NEW found, Enqueue(d, dropped, spawned, found)
  PROVE  UNCHANGED <<texture, recycled>> /\ \A e \in Drawables : e # d => holders'[e] = holders[e]
<1>1. {"worker"} \in SUBSET Holder /\ {"copy", "handler"} \in SUBSET Holder /\ {} \in SUBSET Holder
  BY DEF Holder
<1>2. /\ UNCHANGED <<texture, recycled>>
      /\ Hold(d, dropped, {"worker"}) \/ Hold(d, dropped, {"copy", "handler"}) \/ Hold(d, dropped, {})
  BY DEF Enqueue, ShowNatively
<1>3. CASE Hold(d, dropped, {"worker"})
  BY <1>1, <1>2, <1>3, HoldChanges
<1>4. CASE Hold(d, dropped, {"copy", "handler"})
  BY <1>1, <1>2, <1>4, HoldChanges
<1>5. CASE Hold(d, dropped, {})
  BY <1>1, <1>2, <1>5, HoldChanges
<1> QED
  BY <1>2, <1>3, <1>4, <1>5

-----------------------------------------------------------------------------
(* The drawable pool.                                                       *)

(* The types of what the pool adds to the worker.                           *)
PoolTypes ==
  /\ pool \in [Textures -> Nat] /\ outstanding \in Int
  /\ gameSerial \in Nat
  /\ sending \in Seq(Nat)
  /\ recycled \subseteq Drawables

(* The drawables of a committed buffer are the game's alone until they are  *)
(* handed over, each once.                                                  *)
SendingHeld ==
  \A i \in 1..Len(sending) :
    /\ sending[i] \in Drawables /\ sending[i] \notin recycled /\ holders[sending[i]] = {"game"}
    /\ \A j \in 1..Len(sending) : j # i => sending[j] # sending[i]

(* The inductive invariant of the pool.                                     *)
PoolInv == Base /\ PoolTypes /\ SendingHeld /\ OutstandingExact

-----------------------------------------------------------------------------
(* Textures that come back.                                                 *)
Returns ==
  /\ UNCHANGED texture
  /\ recycled \subseteq recycled' /\ recycled' \subseteq Drawables
  /\ \A d \in recycled' \ recycled : holders[d] # {}
  /\ \A d \in Drawables : holders[d] = {} => holders'[d] = {}

(* There are finitely many drawables, so those away can be counted.         *)
LEMMA AwayFinite ==
  ASSUME DrawableTypes
  PROVE  IsFiniteSet(Away) /\ Cardinality(Away) \in Nat
<1>1. Len(texture) \in Nat
  BY DEF DrawableTypes
<1>2. IsFiniteSet(1..Len(texture))
  BY <1>1, FS_Interval
<1>3. Away \in SUBSET (1..Len(texture))
  BY DEF Away, Drawables
<1>4. IsFiniteSet(Away)
  BY <1>2, <1>3, FS_Subset
<1> QED
  BY <1>4, FS_CardinalityType

(* What comes back was away, and nothing else goes or comes.                *)
LEMMA ReturnedAway ==
  ASSUME Returns
  PROVE  Returned \subseteq Away /\ Away' = Away \ Returned
<1>1. Drawables' = Drawables
  BY DEF Returns, Drawables
<1>2. ASSUME NEW d \in Returned PROVE d \in Away
  BY <1>2 DEF Returned, Away, Home, Returns
<1>3. ASSUME NEW d \in Drawables PROVE d \in Away' <=> d \in Away /\ d \notin Returned
  <2>1. d \in Away' <=> d \notin recycled' /\ holders'[d] # {}
    BY <1>1, <1>3 DEF Away, Home
  <2>2. d \in Away <=> d \notin recycled /\ holders[d] # {}
    BY <1>3 DEF Away, Home
  <2>3. d \in Returned <=> \/ d \in recycled' \ recycled
                           \/ holders[d] # {} /\ holders'[d] = {} /\ d \notin recycled'
    BY <1>3 DEF Returned
  <2> QED
    BY <2>1, <2>2, <2>3 DEF Returns
<1>4. Away' \subseteq Drawables /\ Away \subseteq Drawables
  BY <1>1 DEF Away
<1> QED
  BY <1>2, <1>3, <1>4

(* A texture that comes back enters the pool once, and the count goes down  *)
(* with it.                                                                 *)
LEMMA PoolReturns ==
  ASSUME DrawableTypes, PoolTypes, OutstandingExact, Returns, PoolReturn
  PROVE  OutstandingExact' /\ pool' \in [Textures -> Nat] /\ outstanding' \in Int
<1>1. Returned \subseteq Away /\ Away' = Away \ Returned
  BY ReturnedAway
<1>2. IsFiniteSet(Away) /\ Cardinality(Away) \in Nat
  BY AwayFinite
<1>3. /\ outstanding' = outstanding - Cardinality(Returned)
      /\ pool' = [t \in Textures |-> pool[t] + Cardinality({d \in Returned : texture[d] = t})]
      /\ UNCHANGED texture
  BY DEF PoolReturn, Returns
<1>4. outstanding' = Cardinality(Away')
  <2>1. Cardinality(Away \ Returned) = Cardinality(Away) - Cardinality(Away \cap Returned)
    BY <1>2, FS_Difference
  <2>2. Away \cap Returned = Returned
    BY <1>1
  <2> QED
    BY <1>1, <1>3, <2>1, <2>2 DEF OutstandingExact
<1>5. outstanding' \in Int
  <2>1. IsFiniteSet(Returned)
    BY <1>1, <1>2, FS_Subset
  <2>2. Cardinality(Returned) \in Nat
    BY <2>1, FS_CardinalityType
  <2> QED
    BY <1>3, <2>2 DEF PoolTypes
<1>6. \A d, e \in Away' : texture'[d] = texture'[e] => d = e
  BY <1>1, <1>3 DEF OutstandingExact
<1>7. \A d, e \in Away : texture[d] = texture[e] => d = e
  BY DEF OutstandingExact
<1>8. ASSUME NEW t \in Textures
      PROVE  pool'[t] \in Nat /\ pool'[t] <= IF t \in InHand' THEN 0 ELSE 1
  <2> DEFINE back == {d \in Returned : texture[d] = t}
  <2>1. pool'[t] = pool[t] + Cardinality(back) /\ pool[t] \in Nat
    BY <1>3 DEF PoolTypes
  <2>2. pool[t] <= IF t \in InHand THEN 0 ELSE 1
    BY DEF OutstandingExact
  <2>3. t \in InHand' <=> \E d \in Away' : texture[d] = t
    BY <1>3 DEF InHand
  <2>4. t \in InHand <=> \E d \in Away : texture[d] = t
    BY DEF InHand
  <2>5. CASE back = {}
    <3>1. Cardinality(back) = 0
      BY <2>5, FS_EmptySet
    <3>2. t \in InHand' => t \in InHand
      BY <1>1, <2>3, <2>4
    <3> QED
      BY <2>1, <2>2, <3>1, <3>2
  <2>6. ASSUME NEW d \in back
        PROVE  pool'[t] \in Nat /\ pool'[t] <= IF t \in InHand' THEN 0 ELSE 1
    <3>1. back = {d} /\ d \in Away /\ d \in Returned /\ texture[d] = t
      BY <1>1, <1>7
    <3>2. Cardinality(back) = 1
      BY <3>1, FS_Singleton
    <3>3. t \in InHand /\ t \notin InHand'
      BY <1>1, <1>7, <2>3, <2>4, <3>1
    <3> QED
      BY <2>1, <2>2, <3>2, <3>3
  <2> QED
    BY <2>5, <2>6
<1>9. pool' \in [Textures -> Nat]
  BY <1>3, <1>8
<1> QED
  BY <1>4, <1>5, <1>6, <1>8, <1>9 DEF OutstandingExact

(* What the worker recycles is a frame that it or its handler holds.        *)
LEMMA RecycledStep ==
  ASSUME Job, Framed, Shows, recycled \subseteq Drawables, Worker \/ Devices
  PROVE  /\ recycled \subseteq recycled' /\ recycled' \subseteq Drawables
         /\ \A d \in recycled' \ recycled : holders[d] # {} /\ holders[d] # {"game"}
<1>1. ASSUME UNCHANGED recycled
      PROVE  /\ recycled \subseteq recycled' /\ recycled' \subseteq Drawables
             /\ \A d \in recycled' \ recycled : holders[d] # {} /\ holders[d] # {"game"}
  BY <1>1
<1>2. ASSUME NEW d \in Drawables, NEW h, h # "game", h \in holders[d], recycled' \in {recycled, recycled \cup {d}}
      PROVE  /\ recycled \subseteq recycled' /\ recycled' \subseteq Drawables
             /\ \A e \in recycled' \ recycled : holders[e] # {} /\ holders[e] # {"game"}
  <2>1. holders[d] # {} /\ holders[d] # {"game"}
    BY <1>2
  <2> QED
    BY <1>2, <2>1
<1>3. CASE Show
  BY <1>1, <1>3 DEF Show
<1>4. ASSUME NEW outcome, PresentFails(outcome)
      PROVE  /\ recycled \subseteq recycled' /\ recycled' \subseteq Drawables
             /\ \A d \in recycled' \ recycled : holders[d] # {} /\ holders[d] # {"game"}
  <2>1. pc # "receive" /\ recycled' \in {recycled, recycled \cup {frame}}
    BY <1>4 DEF PresentFails
  <2>2. frame \in Drawables /\ "worker" \in holders[frame]
    BY <2>1, FrameKnown
  <2> QED
    BY <1>2, <2>1, <2>2
<1>5. ASSUME NEW found, PresentNatively(found) PROVE UNCHANGED recycled
  BY <1>5 DEF PresentNatively, ShowNatively
<1>6. CASE PresentCompletes
  BY <1>1, <1>6 DEF PresentCompletes
<1>7. ASSUME NEW d \in Drawables, Retire(d) PROVE UNCHANGED recycled
  BY <1>7 DEF Retire
<1>8. ASSUME NEW d \in Drawables, Presented(d)
      PROVE  /\ recycled \subseteq recycled' /\ recycled' \subseteq Drawables
             /\ \A e \in recycled' \ recycled : holders[e] # {} /\ holders[e] # {"game"}
  <2>1. d \in shown /\ recycled' \in {recycled, recycled \cup {d}}
    BY <1>8 DEF Presented
  <2>2. "handler" \in holders[d]
    BY <1>8, <2>1 DEF Shows
  <2> QED
    BY <1>2, <1>8, <2>1, <2>2
<1> QED
  BY <1>1, <1>3, <1>4, <1>5, <1>6, <1>7, <1>8, Kinds DEF Quiet

-----------------------------------------------------------------------------
(* The steps of the game.                                                   *)
LEMMA PoolInitHolds ==
  ASSUME Init
  PROVE  PoolInv
<1>1. Base
  BY BaseInit DEF Init
<1>2. PoolTypes /\ SendingHeld
  BY EmptySeq DEF Init, WorkerInit, PoolTypes, SendingHeld, Drawables
<1>3. Drawables = {}
  BY EmptySeq DEF Init, WorkerInit, Drawables
<1>4. Away = {} /\ InHand = {}
  BY <1>3 DEF Away, InHand
<1>5. OutstandingExact
  BY <1>4, FS_EmptySet DEF Init, OutstandingExact
<1> QED
  BY <1>1, <1>2, <1>5 DEF PoolInv

(* acquire_drawable takes one texture out, or makes one that nobody has.    *)
LEMMA AcquireStep ==
  ASSUME PoolInv, NEW t \in Textures, AcquireDrawable(t)
  PROVE  PoolInv'
<1>1. Base /\ PoolTypes /\ SendingHeld /\ OutstandingExact /\ DrawableTypes
  BY DEF PoolInv, Base, Job
<1> DEFINE new == Len(texture) + 1
<1>2. /\ NewDrawable(t, 0)
      /\ Handed(t) /\ sending' = sending /\ recycled' = recycled /\ gameSerial' = gameSerial
      /\ outstanding' = outstanding + 1
      /\ pool' = [u \in Textures |-> CASE u \notin Fitting -> 0
                                      [] u \in Fitting /\ u = t -> pool[u] - 1
                                      [] OTHER -> pool[u]]
      /\ sending = <<>>
  BY DEF AcquireDrawable, NewDrawable, Aside, channelVars, jobVars, engineVars
<1>3. Base'
  BY <1>1, <1>2, BaseNewDrawable
<1>4. /\ Drawables' = Drawables \cup {new} /\ new \notin Drawables
      /\ \A d \in Drawables : texture'[d] = texture[d] /\ holders'[d] = holders[d]
      /\ texture'[new] = t /\ holders'[new] = {"game"}
  BY <1>1, <1>2, NewDrawableTypes
<1> HIDE DEF new
<1>5. Away' = Away \cup {new} /\ new \notin Away
  <2>1. \A d \in Drawables : d \in Away' <=> d \in Away
    BY <1>2, <1>4 DEF Away, Home
  <2>2. new \in Away'
    BY <1>1, <1>2, <1>4 DEF Away, Home, PoolTypes
  <2>3. Away' \subseteq Drawables' /\ Away \subseteq Drawables
    BY DEF Away
  <2> QED
    BY <1>4, <2>1, <2>2, <2>3
<1>6. outstanding' = Cardinality(Away')
  <2>1. IsFiniteSet(Away)
    BY <1>1, AwayFinite
  <2>2. Cardinality(Away \cup {new}) = Cardinality(Away) + 1
    BY <1>5, <2>1, FS_AddElement
  <2> QED
    BY <1>1, <1>2, <1>5, <2>2 DEF OutstandingExact
<1>7. t \notin InHand /\ (Fitting # {} => t \in Fitting)
  <2>1. CASE Fitting # {}
    <3>1. t \in Fitting
      BY <1>2, <2>1 DEF Handed
    <3>2. pool[t] > 0 /\ pool[t] \in Nat
      BY <1>1, <3>1 DEF Fitting, PoolTypes
    <3> QED
      BY <1>1, <3>1, <3>2 DEF OutstandingExact
  <2>2. CASE Fitting = {}
    BY <1>2, <2>2 DEF Handed
  <2> QED
    BY <2>1, <2>2
<1>8. InHand' = InHand \cup {t}
  <2>1. \A d \in Away : d \in Drawables
    BY DEF Away
  <2> QED
    BY <1>4, <1>5, <2>1 DEF InHand
<1>9. ASSUME NEW u \in Textures
      PROVE  pool'[u] \in Nat /\ pool'[u] <= IF u \in InHand' THEN 0 ELSE 1
  <2>1. pool'[u] = CASE u \notin Fitting -> 0
                     [] u \in Fitting /\ u = t -> pool[u] - 1
                     [] OTHER -> pool[u]
    BY <1>2
  <2>2. pool[u] \in Nat /\ pool[u] <= IF u \in InHand THEN 0 ELSE 1
    BY <1>1 DEF PoolTypes, OutstandingExact
  <2>3. CASE u \notin Fitting
    BY <2>1, <2>3
  <2>4. CASE u \in Fitting /\ u = t
    <3>1. pool[u] > 0
      BY <2>4 DEF Fitting
    <3>2. pool[u] = 1
      BY <1>7, <2>2, <2>4, <3>1
    <3> QED
      BY <2>1, <2>4, <3>2
  <2>5. CASE u \in Fitting /\ u # t
    BY <1>8, <2>1, <2>2, <2>5
  <2> QED
    BY <2>3, <2>4, <2>5
<1>10. \A d, e \in Away' : texture'[d] = texture'[e] => d = e
  <2>1. \A d \in Away : d \in Drawables /\ texture'[d] = texture[d] /\ texture[d] # t
    BY <1>4, <1>7 DEF Away, InHand
  <2> QED
    BY <1>1, <1>4, <1>5, <2>1 DEF OutstandingExact
<1>11. OutstandingExact'
  BY <1>6, <1>9, <1>10 DEF OutstandingExact
<1>12. pool' \in [Textures -> Nat]
  BY <1>2, <1>9
<1>13. PoolTypes'
  BY <1>1, <1>2, <1>4, <1>12 DEF PoolTypes
<1>14. SendingHeld'
  BY <1>2, EmptySeq DEF SendingHeld
<1> QED
  BY <1>3, <1>11, <1>13, <1>14 DEF PoolInv

(* Nothing of the pool changes but which drawables are about to be sent.    *)
LEMMA CommitStep ==
  ASSUME PoolInv, UNCHANGED <<drawableVars, channelVars, jobVars, engineVars, gpuVars, pool, outstanding>>,
         serial' \in Seq(Nat), Len(serial') = Len(serial), gameSerial' \in Nat, sending' \in Seq(Nat),
         \A i \in 1..Len(sending') :
           /\ sending'[i] \in Drawables /\ Presentable(sending'[i])
           /\ \A j \in 1..Len(sending') : j # i => sending'[j] # sending'[i]
  PROVE  PoolInv'
<1>1. Base /\ PoolTypes /\ SendingHeld /\ OutstandingExact /\ DrawableTypes
  BY DEF PoolInv, Base, Job
<1>2. UNCHANGED <<texture, holders, recycled, retire, shown, presents, channel>> /\ Aside
  BY DEF drawableVars, channelVars, jobVars, engineVars, gpuVars, Aside
<1>3. Base'
  BY <1>1, <1>2, BaseGame
<1>4. Drawables' = Drawables
  BY <1>2 DEF Drawables
<1>5. PoolTypes'
  BY <1>1, <1>2, <1>4 DEF PoolTypes
<1>6. Away' = Away /\ InHand' = InHand
  BY <1>2, <1>4 DEF Away, Home, InHand
<1>7. OutstandingExact'
  BY <1>1, <1>2, <1>6 DEF OutstandingExact
<1>8. SendingHeld'
  BY <1>2, <1>4 DEF SendingHeld, Presentable
<1> QED
  BY <1>3, <1>5, <1>7, <1>8 DEF PoolInv

(* commit_hook, for one or two drawables of a buffer.                       *)
LEMMA BufferStep ==
  ASSUME PoolInv, NEW ds \in Attached, Commit(ds)
  PROVE  PoolInv'
<1>1. PoolTypes /\ DrawableTypes
  BY DEF PoolInv, Base, Job
<1>2. ds \in Seq(Drawables) /\ Len(ds) \in Nat /\ DOMAIN ds = 1..Len(ds)
  <2>1. CASE \E d \in Drawables : ds = <<d>>
    BY <2>1
  <2>2. CASE \E d, e \in Drawables : ds = <<d, e>>
    BY <2>2
  <2> QED
    BY <2>1, <2>2 DEF Attached
<1>3. /\ UNCHANGED <<drawableVars, channelVars, jobVars, engineVars, gpuVars, pool, outstanding>>
      /\ gameSerial' = IF enabled THEN gameSerial + Len(ds) ELSE gameSerial
      /\ serial' = [d \in Drawables |->
                      IF enabled /\ \E i \in DOMAIN ds : ds[i] = d
                      THEN gameSerial + CHOOSE i \in DOMAIN ds : ds[i] = d
                      ELSE serial[d]]
      /\ sending' = ds
      /\ \A i \in DOMAIN ds : Presentable(ds[i])
      /\ \A i, j \in DOMAIN ds : ds[i] = ds[j] => i = j
  BY DEF Commit
<1>4. gameSerial' \in Nat
  BY <1>1, <1>2, <1>3 DEF PoolTypes
<1>5. serial' \in Seq(Nat) /\ Len(serial') = Len(serial)
  <2>1. ASSUME NEW d \in Drawables PROVE serial'[d] \in Nat
    <3>1. CASE enabled /\ \E i \in DOMAIN ds : ds[i] = d
      <4>1. (CHOOSE i \in DOMAIN ds : ds[i] = d) \in DOMAIN ds
        BY <3>1
      <4>2. (CHOOSE i \in DOMAIN ds : ds[i] = d) \in Nat
        BY <1>2, <4>1
      <4> QED
        BY <1>1, <1>3, <3>1, <4>2 DEF PoolTypes
    <3>2. CASE ~(enabled /\ \E i \in DOMAIN ds : ds[i] = d)
      BY <1>1, <1>3, <3>2, ElementOfSeq DEF DrawableTypes, Drawables
    <3> QED
      BY <3>1, <3>2
  <2>2. serial' \in [1..Len(texture) -> Nat] /\ Len(texture) \in Nat
    BY <1>1, <1>3, <2>1 DEF Drawables, DrawableTypes
  <2>3. serial' \in Seq(Nat)
    BY <2>2
  <2>4. Len(serial') = Len(texture)
    <3>1. DOMAIN serial' = 1..Len(serial') /\ Len(serial') \in Nat
      BY <2>3, LenProperties
    <3> QED
      BY <2>2, <3>1
  <2> QED
    BY <1>1, <2>3, <2>4 DEF DrawableTypes
<1>6. sending' \in Seq(Nat)
  <2>1. \A i \in 1..Len(ds) : ds[i] \in Nat
    BY <1>2, ElementOfSeq DEF Drawables
  <2>2. ds = [i \in 1..Len(ds) |-> ds[i]]
    BY <1>2
  <2>3. ds \in [1..Len(ds) -> Nat]
    BY <2>1, <2>2
  <2> QED
    BY <1>2, <1>3, <2>3
<1>7. \A i \in 1..Len(sending') :
        /\ sending'[i] \in Drawables /\ Presentable(sending'[i])
        /\ \A j \in 1..Len(sending') : j # i => sending'[j] # sending'[i]
  BY <1>2, <1>3
<1> QED
  BY <1>3, <1>4, <1>5, <1>6, <1>7, CommitStep

(* present() of the drawable itself.                                        *)
LEMMA DirectStep ==
  ASSUME PoolInv, NEW d \in Drawables, PresentDirectly(d)
  PROVE  PoolInv'
<1>1. PoolTypes /\ DrawableTypes
  BY DEF PoolInv, Base, Job
<1>2. /\ UNCHANGED <<drawableVars, channelVars, jobVars, engineVars, gpuVars, pool, outstanding>>
      /\ gameSerial' = IF way = "metal4" THEN gameSerial + 1 ELSE gameSerial
      /\ serial' = IF way = "metal4" THEN [serial EXCEPT ![d] = gameSerial + 1] ELSE serial
      /\ sending' = <<d>>
      /\ Presentable(d)
  BY DEF PresentDirectly
<1>3. gameSerial' \in Nat /\ gameSerial + 1 \in Nat
  BY <1>1, <1>2 DEF PoolTypes
<1>4. serial' \in Seq(Nat) /\ Len(serial') = Len(serial)
  <2>1. d \in 1..Len(serial)
    BY <1>1 DEF DrawableTypes, Drawables
  <2> QED
    BY <1>1, <1>2, <1>3, <2>1, ExceptSeq DEF DrawableTypes
<1>5. d \in Nat
  BY DEF Drawables
<1>6. /\ sending' \in Seq(Nat)
      /\ \A i \in 1..Len(sending') :
           /\ sending'[i] \in Drawables /\ Presentable(sending'[i])
           /\ \A j \in 1..Len(sending') : j # i => sending'[j] # sending'[i]
  BY <1>2, <1>5
<1> QED
  BY <1>2, <1>3, <1>4, <1>6, CommitStep

(* The game drops a drawable it did not present, or kept.                   *)
LEMMA LetGoStep ==
  ASSUME PoolInv, NEW d \in Drawables, LetGo(d), PoolReturn, UNCHANGED <<way, sending>>
  PROVE  PoolInv'
<1>1. Base /\ PoolTypes /\ SendingHeld /\ OutstandingExact /\ DrawableTypes
  BY DEF PoolInv, Base, Job
<1>2. /\ UNCHANGED <<texture, recycled, serial, gameSerial, retire, shown, presents, channel, sending>> /\ Aside
      /\ Hold(d, {"game"}, {}) /\ sending = <<>> /\ "game" \in holders[d]
  BY DEF LetGo, gameVars, channelVars, jobVars, engineVars, gpuVars, Aside
<1>3. Base'
  <2>1. serial' \in Seq(Nat) /\ Len(serial') = Len(serial)
    BY <1>1, <1>2 DEF DrawableTypes
  <2> QED
    BY <1>1, <1>2, <2>1, BaseGame
<1>4. \A e \in Drawables : e # d => holders'[e] = holders[e]
  <2>1. {} \in SUBSET Holder
    OBVIOUS
  <2> QED
    BY <1>1, <1>2, <2>1, HoldChanges
<1>5. Returns
  BY <1>1, <1>2, <1>4 DEF Returns, PoolTypes
<1>6. OutstandingExact' /\ pool' \in [Textures -> Nat] /\ outstanding' \in Int
  BY <1>1, <1>5, PoolReturns
<1>7. PoolTypes'
  BY <1>1, <1>2, <1>6 DEF PoolTypes, Drawables
<1>8. SendingHeld'
  BY <1>2, EmptySeq DEF SendingHeld
<1> QED
  BY <1>3, <1>6, <1>7, <1>8 DEF PoolInv

(* A frame handed to the worker leaves the list of the commit hook.         *)
LEMMA SendStep ==
  ASSUME PoolInv, NEW keeps, NEW spawned, NEW found, SendFrame(keeps, spawned, found), PoolReturn
  PROVE  PoolInv'
<1>1. Base /\ PoolTypes /\ SendingHeld /\ OutstandingExact /\ DrawableTypes
  BY DEF PoolInv, Base, Job
<1> DEFINE d == sending[1]
<1>2. /\ sending # <<>>
      /\ sending' = [i \in 1..(Len(sending) - 1) |-> sending[i + 1]]
      /\ Enqueue(d, IF keeps THEN {} ELSE {"game"}, spawned, found)
      /\ UNCHANGED <<serial, gameSerial, retire, shown>> /\ Aside
  <2>1. /\ sending # <<>> /\ Enqueue(d, IF keeps THEN {} ELSE {"game"}, spawned, found)
        /\ UNCHANGED <<serial, gameSerial, retire, shown>> /\ Aside
    BY DEF SendFrame, Unsent, gameVars, jobVars, engineVars, Aside
  <2>2. sending' = [i \in 1..(Len(sending) - 1) |-> sending[i + 1]]
    <3>1. sending' = [i \in 1..(Len(sending) - 1) |-> sending[IF i < 1 THEN i ELSE i + 1]]
      BY DEF SendFrame, Unsent
    <3>2. \A i \in 1..(Len(sending) - 1) : ~(i < 1)
      BY <1>1 DEF PoolTypes
    <3> QED
      BY <3>1, <3>2
  <2> QED
    BY <2>1, <2>2
<1>3. Len(sending) \in Nat /\ Len(sending) > 0
  BY <1>1, <1>2 DEF PoolTypes
<1>4. d \in Drawables /\ holders[d] = {"game"} /\ d \notin recycled
  BY <1>1, <1>3 DEF SendingHeld
<1>5. Base'
  <2>1. "retire" \notin (IF keeps THEN {} ELSE {"game"})
    OBVIOUS
  <2> QED
    BY <1>1, <1>2, <1>4, <2>1, BaseSends
<1>6. UNCHANGED <<texture, recycled>> /\ \A e \in Drawables : e # d => holders'[e] = holders[e]
  BY <1>1, <1>2, <1>4, EnqueueOthers
<1>7. Returns
  BY <1>1, <1>4, <1>6 DEF Returns, PoolTypes
<1>8. OutstandingExact' /\ pool' \in [Textures -> Nat] /\ outstanding' \in Int
  BY <1>1, <1>7, PoolReturns
<1>9. sending' \in Seq(Nat) /\ Len(sending') = Len(sending) - 1
  <2>1. Len(sending) - 1 \in Nat /\ \A i \in 1..(Len(sending) - 1) : sending[i + 1] \in Nat
    BY <1>1, <1>3, ElementOfSeq DEF PoolTypes
  <2> QED
    BY <1>2, <2>1
<1>10. PoolTypes'
  BY <1>1, <1>2, <1>6, <1>8, <1>9 DEF PoolTypes, Drawables
<1>11. SendingHeld'
  <2>1. ASSUME NEW i \in 1..Len(sending')
        PROVE  /\ sending'[i] \in Drawables' /\ sending'[i] \notin recycled' /\ holders'[sending'[i]] = {"game"}
               /\ \A j \in 1..Len(sending') : j # i => sending'[j] # sending'[i]
    <3>1. /\ \A j \in 1..Len(sending') : sending'[j] = sending[j + 1] /\ j + 1 \in 1..Len(sending)
      BY <1>2, <1>3, <1>9
    <3>2. 1 \in 1..Len(sending) /\ i + 1 # 1 /\ i + 1 \in 1..Len(sending)
      BY <1>3, <3>1
    <3>3. /\ sending[i + 1] \in Drawables /\ sending[i + 1] \notin recycled /\ holders[sending[i + 1]] = {"game"}
          /\ \A j \in 1..Len(sending) : j # i + 1 => sending[j] # sending[i + 1]
      BY <1>1, <3>2 DEF SendingHeld
    <3>4. sending[i + 1] # d
      BY <3>2, <3>3
    <3>5. ASSUME NEW j \in 1..Len(sending'), j # i PROVE sending'[j] # sending'[i]
      <4>1. j + 1 # i + 1
        BY <3>5
      <4> QED
        BY <3>1, <3>3, <4>1
    <3> QED
      BY <1>6, <3>1, <3>3, <3>4, <3>5 DEF Drawables
  <2> QED
    BY <2>1 DEF SendingHeld
<1> QED
  BY <1>5, <1>8, <1>10, <1>11 DEF PoolInv

(* The worker and the devices take no texture out of the pool.              *)
LEMMA SystemStep ==
  ASSUME PoolInv, Worker \/ Devices, PoolReturn, UNCHANGED <<way, sending>>
  PROVE  PoolInv'
<1>1. /\ Base /\ PoolTypes /\ SendingHeld /\ OutstandingExact /\ DrawableTypes
      /\ Job /\ Framed /\ Shows /\ recycled \subseteq Drawables
  BY DEF PoolInv, Base, Job, PoolTypes
<1>2. Base'
  BY <1>1, BaseStep
<1>3. UNCHANGED <<texture, gameSerial>>
  BY TexturesStay
<1>4. /\ recycled \subseteq recycled' /\ recycled' \subseteq Drawables
      /\ \A d \in recycled' \ recycled : holders[d] # {} /\ holders[d] # {"game"}
  BY <1>1, RecycledStep
<1>5. \A d \in Drawables : /\ holders[d] = {} => holders'[d] = {}
                           /\ holders[d] = {"game"} => holders'[d] = {"game"}
  BY <1>1, GameOwned
<1>6. Returns
  BY <1>3, <1>4, <1>5 DEF Returns
<1>7. OutstandingExact' /\ pool' \in [Textures -> Nat] /\ outstanding' \in Int
  BY <1>1, <1>6, PoolReturns
<1>8. PoolTypes'
  BY <1>1, <1>3, <1>4, <1>7 DEF PoolTypes, Drawables
<1>9. SendingHeld'
  <2>1. \A i \in 1..Len(sending) : sending[i] \in Drawables /\ sending[i] \notin recycled /\ holders[sending[i]] = {"game"}
    BY <1>1 DEF SendingHeld
  <2>2. \A i \in 1..Len(sending) : sending[i] \in Drawables' /\ sending[i] \notin recycled' /\ holders'[sending[i]] = {"game"}
    BY <1>3, <1>4, <1>5, <2>1 DEF Drawables
  <2> QED
    BY <1>1, <2>2 DEF SendingHeld
<1> QED
  BY <1>2, <1>7, <1>8, <1>9 DEF PoolInv

(* Every step keeps the invariant of the pool.                              *)
LEMMA PoolStep ==
  ASSUME PoolInv, [Next]_vars
  PROVE  PoolInv'
<1>1. ASSUME UNCHANGED <<workerSystemVars, sending, pool, outstanding>> PROVE PoolInv'
  <2>1. UNCHANGED <<drawableVars, gameVars, channelVars, jobVars, engineVars, gpuVars>>
    BY <1>1 DEF workerSystemVars
  <2>2. UNCHANGED <<texture, holders, recycled, serial, gameSerial, retire, shown, presents, channel>> /\ Aside
    BY <2>1 DEF drawableVars, gameVars, channelVars, jobVars, engineVars, gpuVars, Aside
  <2>3. Base'
    <3>1. Base /\ serial' \in Seq(Nat) /\ Len(serial') = Len(serial)
      BY <2>2 DEF PoolInv, Base, Job, DrawableTypes
    <3> QED
      BY <2>2, <3>1, BaseGame
  <2>4. Drawables' = Drawables /\ Away' = Away /\ InHand' = InHand
    BY <2>2 DEF Drawables, Away, Home, InHand
  <2>5. PoolTypes' /\ SendingHeld' /\ OutstandingExact'
    BY <1>1, <2>2, <2>4 DEF PoolInv, PoolTypes, SendingHeld, OutstandingExact
  <2> QED
    BY <2>3, <2>5 DEF PoolInv
<1>2. CASE Resize
  BY <1>1, <1>2 DEF Resize
<1>3. CASE UNCHANGED vars
  BY <1>1, <1>3 DEF vars, poolVars
<1> QED
  BY <1>2, <1>3, AcquireStep, BufferStep, DirectStep, LetGoStep, SendStep, SystemStep DEF Next, Sending, Running, Gpu

(* So it always holds, whatever faults there are.                           *)
LEMMA PoolInvHolds == Spec => []PoolInv
<1>1. Init => PoolInv
  BY PoolInitHolds
<1>2. PoolInv /\ [Next]_vars => PoolInv'
  BY PoolStep
<1> QED
  BY <1>1, <1>2, PTL DEF Spec

(* The count that limits the game is exact: no texture is given back twice  *)
(* between the handler of the shown frame and the drop of its drawable.     *)
THEOREM OutstandingCounted == Spec => []OutstandingExact
<1>1. PoolInv => OutstandingExact
  BY DEF PoolInv
<1> QED
  BY <1>1, PoolInvHolds, PTL

(* No present waits for a value that the pipeline will never signal,        *)
(* however the frames before it failed.                                     *)
THEOREM PresentsNeverStuck == Spec => []PresentsCovered
<1>1. PoolInv => PresentsCovered
  BY ValuesCover DEF PoolInv, Base, Job
<1> QED
  BY <1>1, PoolInvHolds, PTL

(* A context is started again only when its previous frame has left the     *)
(* pipeline.                                                                *)
THEOREM ContextWaited == Spec => ContextIdle
<1>1. ASSUME PoolInv, [Next]_vars, Len(pipeline') > Len(pipeline), pc = "settle"
      PROVE  pipeline = <<>>
  <2>1. QueueTypes /\ Engines
    BY <1>1 DEF PoolInv, Base, Job
  <2>2. pipeline' # pipeline
    <3>1. Len(pipeline) \in Nat
      BY <2>1 DEF QueueTypes
    <3> QED
      BY <1>1, <3>1
  <2>3. CASE Worker \/ Devices
    <3>1. CASE PipelineCompletes
      <4>1. pipeline # <<>> /\ pipeline' = Tail(pipeline)
        BY <3>1 DEF PipelineCompletes
      <4>2. Len(pipeline') = Len(pipeline) - 1 /\ Len(pipeline) \in Nat
        BY <2>1, <4>1, HeadTailProperties DEF QueueTypes
      <4> QED
        BY <1>1, <4>2
    <3>2. CASE ~PipelineCompletes
      BY <1>1, <2>1, <2>2, <2>3, <3>2, SubmitsAtSettle
    <3> QED
      BY <3>1, <3>2
  <2>4. UNCHANGED pipeline \/ Worker \/ Devices
    <3>1. CASE UNCHANGED vars
      BY <3>1 DEF vars, workerSystemVars, gpuVars
    <3>2. CASE Resize
      BY <3>2 DEF Resize, workerSystemVars, gpuVars
    <3>3. ASSUME NEW t \in Textures, AcquireDrawable(t) PROVE UNCHANGED pipeline
      BY <3>3 DEF AcquireDrawable
    <3>4. ASSUME NEW ds \in Attached, Commit(ds) PROVE UNCHANGED pipeline
      BY <3>4 DEF Commit, gpuVars
    <3>5. ASSUME NEW d \in Drawables, PresentDirectly(d) PROVE UNCHANGED pipeline
      BY <3>5 DEF PresentDirectly, gpuVars
    <3>6. ASSUME NEW d \in Drawables, LetGo(d) PROVE UNCHANGED pipeline
      BY <3>6 DEF LetGo, gpuVars
    <3>7. CASE Sending
      BY <3>7 DEF Sending, SendFrame
    <3> QED
      BY <1>1, <3>1, <3>2, <3>3, <3>4, <3>5, <3>6, <3>7 DEF Next, Running, Gpu
  <2> QED
    BY <2>2, <2>3, <2>4
<1>2. PoolInv /\ [Next]_vars => [Len(pipeline') > Len(pipeline) /\ pc = "settle" => pipeline = <<>>]_vars
  BY <1>1
<1> QED
  BY <1>2, PoolInvHolds, PTL DEF Spec, ContextIdle

-----------------------------------------------------------------------------
(* When every present is built, a frame that was shown or recycled is done  *)
(* with: the worker no longer has it and no command reads it.  That holds   *)
(* because the present that carries a frame's handler waits for the value   *)
(* of the last read of the frame, or is the read itself.                    *)
Ended ==
  /\ \A d \in recycled :
       /\ "worker" \notin holders[d]
       /\ \A i \in 1..Len(presents) : presents[i].frame = d => presents[i].op # "native"
  /\ \A d \in recycled \cup shown : \A k \in Reading : pipeline[k].frame # d
  /\ \A i \in 1..Len(presents) : \A k \in Reading :
       presents[i].handler /\ presents[i].frame = pipeline[k].frame
         => presents[i].op = "present" /\ pipeline[k].value <= presents[i].value

(* A step that adds no read and no present.                                 *)
LEMMA EndedFewer ==
  ASSUME Ended, recycled' = recycled, shown' \subseteq shown,
         \A k \in Reading' : \E m \in Reading : pipeline'[k] = pipeline[m],
         \A i \in 1..Len(presents') : \E j \in 1..Len(presents) : presents'[i] = presents[j],
         \A d \in recycled : "worker" \in holders'[d] => "worker" \in holders[d]
  PROVE  Ended'
<1>1. \A d \in recycled' : /\ "worker" \notin holders'[d]
                           /\ \A i \in 1..Len(presents') : presents'[i].frame = d => presents'[i].op # "native"
  BY DEF Ended
<1>2. \A d \in recycled' \cup shown' : \A k \in Reading' : pipeline'[k].frame # d
  BY DEF Ended
<1>3. ASSUME NEW i \in 1..Len(presents'), NEW k \in Reading',
             presents'[i].handler, presents'[i].frame = pipeline'[k].frame
      PROVE  presents'[i].op = "present" /\ pipeline'[k].value <= presents'[i].value
  <2>1. PICK m \in Reading : pipeline'[k] = pipeline[m]
    OBVIOUS
  <2>2. PICK j \in 1..Len(presents) : presents'[i] = presents[j]
    OBVIOUS
  <2> QED
    BY <1>3, <2>1, <2>2 DEF Ended
<1> QED
  BY <1>1, <1>2, <1>3 DEF Ended

(* A step of the worker that reads its frame, or presents it when all its   *)
(* reads are submitted.                                                     *)
LEMMA EndedReads ==
  ASSUME Job, Shows, Ended, pc # "receive", UNCHANGED <<recycled, shown>>,
         \A k \in Reading' : \/ k \in Reading /\ pipeline'[k] = pipeline[k]
                             \/ pipeline'[k].frame = frame,
         \A i \in 1..Len(presents') :
           \/ i \in 1..Len(presents) /\ presents'[i] = presents[i]
           \/ presents'[i].op = "present" /\ presents'[i].handler =>
                \A k \in Reading' : pipeline'[k].value <= presents'[i].value,
         \A i \in 1..Len(presents') :
           \/ i \in 1..Len(presents) /\ presents'[i] = presents[i]
           \/ presents'[i].op = "present",
         \A d \in recycled : "worker" \in holders'[d] => "worker" \in holders[d]
  PROVE  Ended'
<1>1. frame \in Drawables /\ frame \notin shown /\ ~Handled(frame) /\ "worker" \in holders[frame]
  BY FrameUnshown, FrameKnown
<1>2. frame \notin recycled
  BY <1>1 DEF Ended
<1>3. \A d \in recycled' : /\ "worker" \notin holders'[d]
                           /\ \A i \in 1..Len(presents') : presents'[i].frame = d => presents'[i].op # "native"
  BY DEF Ended
<1>4. \A d \in recycled' \cup shown' : \A k \in Reading' : pipeline'[k].frame # d
  BY <1>1, <1>2 DEF Ended
<1>5. ASSUME NEW i \in 1..Len(presents'), NEW k \in Reading',
             presents'[i].handler, presents'[i].frame = pipeline'[k].frame
      PROVE  presents'[i].op = "present" /\ pipeline'[k].value <= presents'[i].value
  <2>1. CASE i \in 1..Len(presents) /\ presents'[i] = presents[i]
    <3>1. pipeline'[k].frame # frame
      BY <1>1, <1>5, <2>1 DEF Handled
    <3>2. k \in Reading /\ pipeline'[k] = pipeline[k]
      BY <3>1
    <3> QED
      BY <1>5, <2>1, <3>2 DEF Ended
  <2>2. CASE ~(i \in 1..Len(presents) /\ presents'[i] = presents[i])
    <3>1. presents'[i].op = "present"
      BY <2>2
    <3> QED
      BY <1>5, <2>2, <3>1
  <2> QED
    BY <2>1, <2>2
<1> QED
  BY <1>3, <1>4, <1>5 DEF Ended

(* A present that reads a frame nothing else reads.                         *)
LEMMA EndedNative ==
  ASSUME QueueTypes, Ended, NEW f, f \notin recycled, \A k \in Reading : pipeline[k].frame # f,
         UNCHANGED <<recycled, shown, pipeline>>,
         \/ UNCHANGED presents
         \/ \E c \in Shots : c.frame = f /\ presents' = Append(presents, c),
         \A d \in recycled : "worker" \in holders'[d] => "worker" \in holders[d]
  PROVE  Ended'
<1>1. Reading' = Reading
  BY DEF Reading
<1>2. \A i \in 1..Len(presents') : (i \in 1..Len(presents) /\ presents'[i] = presents[i]) \/ presents'[i].frame = f
  <2>1. CASE UNCHANGED presents
    BY <2>1
  <2>2. ASSUME NEW c \in Shots, c.frame = f, presents' = Append(presents, c)
        PROVE  \A i \in 1..Len(presents') : (i \in 1..Len(presents) /\ presents'[i] = presents[i]) \/ presents'[i].frame = f
    <3>1. /\ Len(presents') = Len(presents) + 1 /\ Len(presents) \in Nat
          /\ \A i \in 1..Len(presents) : presents'[i] = presents[i]
          /\ presents'[Len(presents) + 1] = c
      BY <2>2, PresentsGrow DEF QueueTypes
    <3>2. \A i \in 1..Len(presents') : i \in 1..Len(presents) \/ i = Len(presents) + 1
      BY <3>1
    <3> QED
      BY <2>2, <3>1, <3>2
  <2> QED
    BY <2>1, <2>2
<1> QED
  BY <1>1, <1>2 DEF Ended

(* The present that carries a frame's handler completes: the value it       *)
(* waited for was that of the last read.                                    *)
LEMMA EndedCompletes ==
  ASSUME Base, PoolTypes, Ended, PresentCompletes
  PROVE  Ended'
<1> DEFINE c == Head(presents)
<1>1. QueueTypes /\ DrawableTypes /\ Framed /\ Values
  BY DEF Base, Job
<1>2. /\ presents # <<>> /\ presents' = Tail(presents)
      /\ c.op # "native" => presentEvent >= c.value
      /\ shown' = IF c.handler THEN shown \cup {c.frame} ELSE shown
      /\ IF c.op = "native" THEN Hold(c.frame, {"copy"}, {}) ELSE UNCHANGED holders
      /\ UNCHANGED <<recycled, pipeline>>
  BY DEF PresentCompletes
<1>3. c = presents[1] /\ 1 \in 1..Len(presents)
  BY <1>1, <1>2, HeadTailProperties DEF QueueTypes
<1> HIDE DEF c
<1>4. c.frame \in Drawables /\ c.value \in Nat
  <2>1. presents[1] \in Shots
    BY <1>1, <1>3, ElementOfSeq DEF QueueTypes
  <2> QED
    BY <1>1, <1>3, <2>1 DEF Framed, Shots
<1>5. \A d \in recycled : "worker" \in holders'[d] => "worker" \in holders[d]
  <2>1. CASE UNCHANGED holders
    BY <2>1
  <2>2. CASE Hold(c.frame, {"copy"}, {})
    <3>1. {} \in SUBSET Holder
      OBVIOUS
    <3>2. \A e \in Drawables : holders'[e] = IF e = c.frame THEN (holders[c.frame] \ {"copy"}) \cup {} ELSE holders[e]
      BY <1>1, <1>4, <2>2, <3>1, HoldChanges
    <3> QED
      BY <3>2 DEF PoolTypes
  <2> QED
    BY <1>2, <2>1, <2>2
<1>6. ASSUME c.handler PROVE \A k \in Reading : pipeline[k].frame # c.frame
  <2> SUFFICES ASSUME NEW k \in Reading, pipeline[k].frame = c.frame PROVE FALSE
    OBVIOUS
  <2>1. c.op = "present" /\ pipeline[k].value <= c.value
    BY <1>3, <1>6 DEF Ended
  <2>2. presentEvent >= c.value
    BY <1>2, <2>1
  <2>3. presentEvent < pipeline[k].value
    BY <1>1 DEF Values, Reading
  <2>4. pipeline[k].value \in Nat /\ presentEvent \in Nat
    BY <1>1, ReadingFrames DEF QueueTypes
  <2> QED
    BY <1>4, <2>1, <2>2, <2>3, <2>4
<1>7. Reading' = Reading
  BY <1>2 DEF Reading
<1>8. \A i \in 1..Len(presents') : i + 1 \in 1..Len(presents) /\ presents'[i] = presents[i + 1]
  BY <1>1, <1>2, PresentsTail
<1>9. \A d \in recycled' : /\ "worker" \notin holders'[d]
                           /\ \A i \in 1..Len(presents') : presents'[i].frame = d => presents'[i].op # "native"
  BY <1>2, <1>5, <1>8 DEF Ended
<1>10. \A d \in recycled' \cup shown' : \A k \in Reading' : pipeline'[k].frame # d
  BY <1>2, <1>6, <1>7 DEF Ended
<1>11. \A i \in 1..Len(presents') : \A k \in Reading' :
         presents'[i].handler /\ presents'[i].frame = pipeline'[k].frame
           => presents'[i].op = "present" /\ pipeline'[k].value <= presents'[i].value
  BY <1>2, <1>7, <1>8 DEF Ended
<1> QED
  BY <1>9, <1>10, <1>11 DEF Ended

(* Show submits the frame's last read before the present that carries its   *)
(* handler.                                                                 *)
LEMMA EndedShow ==
  ASSUME Base, PoolTypes, Reads, Ended, Show
  PROVE  Ended'
<1> DEFINE ready == presentSerial + 1
           read == Command(pc, presentSerial + 1, engine = "moltenvk" /\ Fenced(Last))
           shot == [op |-> "present", frame |-> frame, value |-> WaitsFor(presentSerial + 1), handler |-> CarriesHandler]
<1>1. QueueTypes /\ DrawableTypes /\ JobTypes /\ Job /\ Shows
  BY DEF Base, Job
<1>2. /\ pc \in {"generated", "original"} /\ UNCHANGED <<recycled, shown>>
      /\ pipeline' = Append(pipeline, read) /\ presents' = Append(presents, shot)
      /\ UNCHANGED holders \/ Hold(frame, {"worker"}, {"handler", "retire"})
  BY DEF Show
<1>3. read \in Commands /\ read.frame = frame /\ read.value = ready
  <2>1. (engine = "moltenvk" /\ Fenced(Last)) \in BOOLEAN
    OBVIOUS
  <2> QED
    BY <1>1, <1>2, <2>1 DEF Command, Commands, QueueTypes, JobTypes
<1>4. shot \in Shots /\ shot.op = "present" /\ shot.value = ready
  <2>1. CarriesHandler \in BOOLEAN
    BY DEF CarriesHandler, Last
  <2> QED
    BY <1>1, <2>1 DEF WaitsFor, Shots, QueueTypes, JobTypes
<1> HIDE DEF read, shot
<1>5. /\ Len(pipeline') = Len(pipeline) + 1 /\ Len(pipeline) \in Nat
      /\ \A i \in 1..Len(pipeline) : pipeline'[i] = pipeline[i]
      /\ pipeline'[Len(pipeline) + 1] = read
  BY <1>1, <1>2, <1>3, PipelineGrows DEF QueueTypes
<1>6. /\ Len(presents') = Len(presents) + 1 /\ Len(presents) \in Nat
      /\ \A i \in 1..Len(presents) : presents'[i] = presents[i]
      /\ presents'[Len(presents) + 1] = shot
  BY <1>1, <1>2, <1>4, PresentsGrow DEF QueueTypes
<1>7. \A k \in Reading' : (k \in Reading /\ pipeline'[k] = pipeline[k]) \/ pipeline'[k] = read
  <2>1. ASSUME NEW k \in Reading' PROVE (k \in Reading /\ pipeline'[k] = pipeline[k]) \/ pipeline'[k] = read
    <3>1. k \in 1..Len(pipeline') /\ pipeline'[k].op # "generated"
      BY DEF Reading
    <3>2. k \in 1..Len(pipeline) \/ k = Len(pipeline) + 1
      BY <1>5, <3>1
    <3> QED
      BY <1>5, <3>1, <3>2 DEF Reading
  <2> QED
    BY <2>1
<1>8. \A k \in Reading' : pipeline'[k].value <= ready
  <2>1. copied <= presentSerial /\ copied \in Nat /\ presentSerial \in Nat
    BY <1>1, <1>2 DEF Reads, QueueTypes, JobTypes
  <2>2. \A k \in Reading : pipeline[k].value <= copied /\ pipeline[k].value \in Nat
    BY <1>1, <1>2, ReadingFrames DEF Reads, Base
  <2> QED
    BY <1>3, <1>7, <2>1, <2>2
<1>9. \A k \in Reading' : (k \in Reading /\ pipeline'[k] = pipeline[k]) \/ pipeline'[k].frame = frame
  BY <1>3, <1>7
<1>10. \A i \in 1..Len(presents') : (i \in 1..Len(presents) /\ presents'[i] = presents[i]) \/ presents'[i] = shot
  <2>1. \A i \in 1..Len(presents') : i \in 1..Len(presents) \/ i = Len(presents) + 1
    BY <1>6
  <2> QED
    BY <1>6, <2>1
<1>11. \A d \in recycled : "worker" \in holders'[d] => "worker" \in holders[d]
  <2>1. CASE UNCHANGED holders
    BY <2>1
  <2>2. CASE Hold(frame, {"worker"}, {"handler", "retire"})
    <3>1. {"handler", "retire"} \in SUBSET Holder
      BY DEF Holder
    <3>2. frame \in Drawables
      BY <1>1, <1>2, FrameKnown
    <3>3. \A e \in Drawables : holders'[e] = IF e = frame THEN (holders[frame] \ {"worker"}) \cup {"handler", "retire"} ELSE holders[e]
      BY <1>1, <2>2, <3>1, <3>2, HoldChanges
    <3> QED
      BY <3>3 DEF PoolTypes
  <2> QED
    BY <1>2, <2>1, <2>2
<1>12. pc # "receive"
  BY <1>2
<1>13. \A i \in 1..Len(presents') :
         \/ i \in 1..Len(presents) /\ presents'[i] = presents[i]
         \/ presents'[i].op = "present" /\ presents'[i].handler =>
              \A k \in Reading' : pipeline'[k].value <= presents'[i].value
  BY <1>4, <1>8, <1>10
<1>14. \A i \in 1..Len(presents') :
         \/ i \in 1..Len(presents) /\ presents'[i] = presents[i]
         \/ presents'[i].op = "present"
  BY <1>4, <1>10
<1> HIDE DEF ready
<1> QED
  BY <1>1, <1>2, <1>9, <1>11, <1>12, <1>13, <1>14, EndedReads

(* The worker shows its frame as it is.                                     *)
LEMMA EndedNatively ==
  ASSUME Base, PoolTypes, Reads, Ended, NEW found, PresentNatively(found)
  PROVE  Ended'
<1>1. QueueTypes /\ DrawableTypes /\ Job /\ Framed
  BY DEF Base, Job
<1>2. pc = "natively" /\ UNCHANGED <<shown, pipeline>> /\ ShowNatively(frame, {"worker"}, found)
  BY DEF PresentNatively
<1>3. frame \in Drawables /\ "worker" \in holders[frame]
  BY <1>1, <1>2, FrameKnown
<1>4. /\ \/ UNCHANGED presents
         \/ \E c \in Shots : c.frame = frame /\ presents' = Append(presents, c)
      /\ UNCHANGED recycled
      /\ Hold(frame, {"worker"}, {"copy", "handler"}) \/ Hold(frame, {"worker"}, {})
  BY <1>1, <1>2, <1>3, NativeShot
<1>5. frame \notin recycled /\ \A k \in Reading : pipeline[k].frame # frame
  BY <1>2, <1>3 DEF Ended, Reads
<1>6. \A d \in recycled : "worker" \in holders'[d] => "worker" \in holders[d]
  <2>1. ASSUME NEW added \in SUBSET Holder, Hold(frame, {"worker"}, added)
        PROVE  \A d \in recycled : holders'[d] = holders[d]
    <3>1. \A e \in Drawables : e # frame => holders'[e] = holders[e]
      BY <1>1, <1>3, <2>1, HoldChanges
    <3> QED
      BY <1>5, <3>1 DEF PoolTypes
  <2>2. {"copy", "handler"} \in SUBSET Holder /\ {} \in SUBSET Holder
    BY DEF Holder
  <2> QED
    BY <1>4, <2>1, <2>2
<1> QED
  BY <1>1, <1>2, <1>4, <1>5, <1>6, EndedNative

(* A shown frame is recycled.                                               *)
LEMMA EndedPresented ==
  ASSUME Base, PoolTypes, Ended, NEW d \in Drawables, Presented(d)
  PROVE  Ended'
<1>1. DrawableTypes /\ Shows
  BY DEF Base, Job
<1>2. /\ d \in shown /\ shown' = shown \ {d} /\ recycled' = recycled \cup {d}
      /\ Hold(d, {"handler"}, {}) /\ UNCHANGED <<pipeline, presents>>
  BY DEF Presented
<1>3. \A e \in Drawables : "worker" \in holders'[e] => "worker" \in holders[e]
  <2>1. {} \in SUBSET Holder
    OBVIOUS
  <2>2. \A e \in Drawables : holders'[e] = IF e = d THEN (holders[d] \ {"handler"}) \cup {} ELSE holders[e]
    BY <1>1, <1>2, <2>1, HoldChanges
  <2> QED
    BY <2>2
<1>4. "worker" \notin holders[d] /\ \A i \in 1..Len(presents) : presents[i].frame = d => presents[i].op # "native"
  BY <1>1, <1>2 DEF Shows, Handled
<1>5. Reading' = Reading
  BY <1>2 DEF Reading
<1>6. \A e \in recycled' : /\ "worker" \notin holders'[e]
                           /\ \A i \in 1..Len(presents') : presents'[i].frame = e => presents'[i].op # "native"
  <2>1. \A e \in recycled : e \in Drawables
    BY DEF PoolTypes
  <2> QED
    BY <1>2, <1>3, <1>4, <2>1 DEF Ended
<1>7. \A e \in recycled' \cup shown' : \A k \in Reading' : pipeline'[k].frame # e
  BY <1>2, <1>5 DEF Ended
<1> QED
  BY <1>2, <1>5, <1>6, <1>7 DEF Ended

(* Steps that submit nothing, or only a copy in.                            *)
LEMMA EndedRest ==
  ASSUME Faults = {}, Base, PoolTypes, Reads, Ended, Worker \/ Devices,
         ~Show, ~PresentCompletes, \A found \in BOOLEAN : ~PresentNatively(found),
         \A d \in Drawables : ~Presented(d)
  PROVE  Ended'
<1>1. QueueTypes /\ DrawableTypes /\ JobTypes /\ Job /\ Shows /\ Engines
  BY DEF Base, Job
<1>2. ASSUME pipeline = <<>>, pipeline' \in {pipeline} \cup {Append(pipeline, Command("copyin", presentSerial + 1, FALSE))},
             pc # "receive", UNCHANGED <<recycled, shown, presents, holders>>
      PROVE  Ended'
  <2>1. Len(pipeline) = 0
    BY <1>2, EmptySeq
  <2>2. \A k \in Reading' : pipeline'[k].frame = frame
    <3>1. CASE pipeline' = pipeline
      BY <2>1, <3>1 DEF Reading
    <3>2. CASE pipeline' = Append(pipeline, Command("copyin", presentSerial + 1, FALSE))
      <4> DEFINE c == Command("copyin", presentSerial + 1, FALSE)
      <4>1. c \in Commands /\ c.frame = frame
        BY <1>1 DEF Command, Commands, QueueTypes, JobTypes
      <4>2. pipeline' = Append(pipeline, c)
        BY <3>2
      <4> HIDE DEF c
      <4>3. Len(pipeline') = Len(pipeline) + 1 /\ pipeline'[Len(pipeline) + 1] = c
        BY <1>1, <4>1, <4>2, PipelineGrows
      <4>4. Reading' \subseteq {1}
        BY <2>1, <4>3 DEF Reading
      <4> QED
        BY <2>1, <4>1, <4>3, <4>4
    <3> QED
      BY <1>2, <3>1, <3>2
  <2>3. \A i \in 1..Len(presents') : i \in 1..Len(presents) /\ presents'[i] = presents[i]
    BY <1>2
  <2> QED
    BY <1>1, <1>2, <2>2, <2>3, EndedReads
<1>3. ASSUME UNCHANGED <<recycled, shown, presents, pipeline>>,
             \A d \in recycled : "worker" \in holders'[d] => "worker" \in holders[d]
      PROVE  Ended'
  <2>1. Reading' = Reading
    BY <1>3 DEF Reading
  <2> QED
    BY <1>3, <2>1, EndedFewer
<1>4. CASE Receive \/ NoTarget \/ Reset \/ GameCompletes
  <2>1. UNCHANGED <<recycled, shown, presents, pipeline, holders>>
    BY <1>4 DEF Receive, NoTarget, Reset, GameCompletes, drawableVars, gpuVars
  <2> QED
    BY <1>3, <2>1
<1>5. ASSUME NEW next, NEW off, NEW outcome, Refuse(next, outcome, off) PROVE Ended'
  <2>1. UNCHANGED <<recycled, shown, presents, pipeline, holders>>
    BY <1>5 DEF Refuse, drawableVars, gpuVars
  <2> QED
    BY <1>3, <2>1
<1>6. ASSUME NEW next, NEW off, NEW p, Begin(next, off, p) PROVE Ended'
  <2>1. pipeline = <<>>
    BY <1>1, <1>6, SettledIdle DEF Begin
  <2>2. /\ pipeline' = Append(pipeline, Command("copyin", presentSerial + 1, FALSE))
        /\ pc # "receive" /\ UNCHANGED <<recycled, shown, presents, holders>>
    BY <1>6 DEF Begin, drawableVars
  <2> QED
    BY <1>2, <2>1, <2>2
<1>7. ASSUME NEW next, NEW off, NEW submitted, StartFails(next, off, submitted) PROVE Ended'
  <2>1. pipeline = <<>>
    BY <1>1, <1>7, SettledIdle DEF StartFails
  <2>2. /\ pipeline' \in {pipeline} \cup {Append(pipeline, Command("copyin", presentSerial + 1, FALSE))}
        /\ pc # "receive" /\ UNCHANGED <<recycled, shown, presents, holders>>
    BY <1>7 DEF StartFails, drawableVars
  <2> QED
    BY <1>2, <2>1, <2>2
<1>8. ASSUME NEW outcome, PresentFails(outcome) PROVE FALSE
  BY <1>8 DEF PresentFails
<1>9. CASE PipelineCompletes
  <2>1. pipeline # <<>> /\ pipeline' = Tail(pipeline) /\ UNCHANGED <<recycled, shown, presents, holders>>
    BY <1>9 DEF PipelineCompletes, drawableVars
  <2>2. \A i \in 1..Len(pipeline') : i + 1 \in 1..Len(pipeline) /\ pipeline'[i] = pipeline[i + 1]
    BY <1>1, <2>1, PipelineTail
  <2>3. \A k \in Reading' : k + 1 \in Reading /\ pipeline'[k] = pipeline[k + 1]
    BY <2>2 DEF Reading
  <2> QED
    BY <2>1, <2>3, EndedFewer
<1>10. ASSUME NEW d \in Drawables, Retire(d) PROVE Ended'
  <2>1. UNCHANGED <<recycled, shown, presents, pipeline>> /\ Hold(d, {"retire"}, {})
    BY <1>10 DEF Retire
  <2>2. {} \in SUBSET Holder
    OBVIOUS
  <2>3. \A e \in Drawables : holders'[e] = IF e = d THEN (holders[d] \ {"retire"}) \cup {} ELSE holders[e]
    BY <1>1, <2>1, <2>2, HoldChanges
  <2>4. \A e \in recycled : "worker" \in holders'[e] => "worker" \in holders[e]
    BY <2>3 DEF PoolTypes
  <2> QED
    BY <1>3, <2>1, <2>4
<1> QED
  BY <1>4, <1>5, <1>6, <1>7, <1>8, <1>9, <1>10 DEF Worker, Devices

(* No step of the worker or the devices recycles a frame still to be read.  *)
LEMMA EndedStep ==
  ASSUME Faults = {}, Base, PoolTypes, Reads, Ended, Worker \/ Devices
  PROVE  Ended'
BY EndedShow, EndedCompletes, EndedNatively, EndedPresented, EndedRest

-----------------------------------------------------------------------------
(* The invariant behind TextureHeld.                                        *)
HeldInv == PoolInv /\ Reads /\ Ended

(* The game's own steps read nothing.                                       *)
LEMMA HeldGame ==
  ASSUME HeldInv, PoolInv', Aside, UNCHANGED <<texture, retire, shown, presents, channel, recycled>>,
         serial' \in Seq(Nat), Len(serial') = Len(serial),
         \/ UNCHANGED holders
         \/ \E d \in Drawables : Hold(d, {"game"}, {})
  PROVE  HeldInv'
<1>1. PoolInv /\ Reads /\ Ended /\ PoolTypes /\ Base /\ DrawableTypes
  BY DEF HeldInv, PoolInv, Base, Job
<1>2. Reads'
  BY <1>1, BaseGame
<1>3. \A d \in recycled : "worker" \in holders'[d] => "worker" \in holders[d]
  <2>1. CASE UNCHANGED holders
    BY <2>1
  <2>2. ASSUME NEW d \in Drawables, Hold(d, {"game"}, {})
        PROVE  \A e \in recycled : "worker" \in holders'[e] => "worker" \in holders[e]
    <3>1. {} \in SUBSET Holder
      OBVIOUS
    <3>2. \A e \in Drawables : holders'[e] = IF e = d THEN (holders[d] \ {"game"}) \cup {} ELSE holders[e]
      BY <1>1, <2>2, <3>1, HoldChanges
    <3> QED
      BY <1>1, <3>2 DEF PoolTypes
  <2> QED
    BY <2>1, <2>2
<1>4. Reading' = Reading /\ UNCHANGED pipeline
  BY DEF Reading, Aside
<1>5. Ended'
  BY <1>1, <1>3, <1>4, EndedFewer
<1> QED
  BY <1>2, <1>5 DEF HeldInv

(* A new drawable is read by nothing.                                       *)
LEMMA HeldAcquire ==
  ASSUME HeldInv, PoolInv', NEW t \in Textures, AcquireDrawable(t)
  PROVE  HeldInv'
<1>1. PoolInv /\ Reads /\ Ended /\ PoolTypes /\ Base /\ DrawableTypes
  BY DEF HeldInv, PoolInv, Base, Job
<1>2. /\ NewDrawable(t, 0)
      /\ UNCHANGED <<recycled, shown, presents, pipeline>>
  BY DEF AcquireDrawable, NewDrawable, Aside, channelVars, jobVars, engineVars
<1>3. Reads'
  BY <1>1, <1>2, BaseNewDrawable
<1>4. \A d \in Drawables : holders'[d] = holders[d]
  BY <1>1, <1>2, NewDrawableTypes
<1>5. \A d \in recycled : "worker" \in holders'[d] => "worker" \in holders[d]
  BY <1>1, <1>4 DEF PoolTypes
<1>6. Reading' = Reading
  BY <1>2 DEF Reading
<1>7. Ended'
  BY <1>1, <1>2, <1>5, <1>6, EndedFewer
<1> QED
  BY <1>3, <1>7 DEF HeldInv

(* A frame goes to the worker, or is shown by the sender: it is not         *)
(* recycled and nothing reads it yet.                                       *)
LEMMA HeldSend ==
  ASSUME HeldInv, PoolInv', NEW keeps, NEW spawned, NEW found, SendFrame(keeps, spawned, found)
  PROVE  HeldInv'
<1> DEFINE d == sending[1]
           dropped == IF keeps THEN {} ELSE {"game"}
<1>1. /\ PoolInv /\ Reads /\ Ended /\ PoolTypes /\ Base /\ DrawableTypes /\ QueueTypes /\ SendingHeld
      /\ Framed /\ Values /\ Shows /\ Jobs /\ JobTypes
  BY DEF HeldInv, PoolInv, Base, Job
<1>2. Enqueue(d, dropped, spawned, found) /\ UNCHANGED <<serial, retire, shown, pipeline>> /\ Aside
  BY DEF SendFrame, Unsent, gameVars, jobVars, engineVars, Aside
<1>3. 1 \in 1..Len(sending)
  <2>1. sending # <<>>
    BY DEF SendFrame
  <2> QED
    BY <1>1, <2>1 DEF PoolTypes
<1>4. d \in Drawables /\ holders[d] = {"game"} /\ d \notin recycled
  BY <1>1, <1>3 DEF SendingHeld
<1>5. "retire" \notin dropped
  OBVIOUS
<1> HIDE DEF d, dropped
<1>6. Reads'
  BY <1>1, <1>2, <1>4, <1>5, BaseSends
<1>7. UNCHANGED recycled /\ \A e \in Drawables : e # d => holders'[e] = holders[e]
  BY <1>1, <1>2, <1>4, EnqueueOthers
<1>8. \A k \in Reading : pipeline[k].frame # d
  <2>1. CASE pc \in {"generated", "original", "reset"}
    <3>1. frame # d
      BY <1>1, <1>4, <2>1, FrameKnown DEF Base
    <3> QED
      BY <1>1, <2>1, <3>1 DEF Reads
  <2>2. CASE pc \in {"receive", "settle", "natively"}
    <3>1. retire[d] = 0
      BY <1>1, <1>4 DEF Shows
    <3>2. retire[d] \in Nat /\ presentEvent >= retire[d]
      BY <1>1, <3>1 DEF QueueTypes
    <3> QED
      BY <1>1, <2>2, <3>2, Unread
  <2> QED
    BY <1>1, <2>1, <2>2 DEF JobTypes
<1>9. \/ UNCHANGED presents
      \/ \E c \in Shots : c.frame = d /\ presents' = Append(presents, c)
  <2>1. CASE started' = "yes"
    BY <1>2, <2>1 DEF Enqueue
  <2>2. CASE started' # "yes"
    <3>1. ShowNatively(d, dropped, found)
      BY <1>2, <2>2 DEF Enqueue
    <3> QED
      BY <1>1, <1>4, <3>1, NativeShot
  <2> QED
    BY <2>1, <2>2
<1>10. \A e \in recycled : "worker" \in holders'[e] => "worker" \in holders[e]
  BY <1>1, <1>4, <1>7 DEF PoolTypes
<1>11. Ended'
  BY <1>1, <1>2, <1>4, <1>7, <1>8, <1>9, <1>10, EndedNative
<1> QED
  BY <1>6, <1>11 DEF HeldInv

(* Every step keeps it, when every present is built and none is skipped.    *)
LEMMA HeldStep ==
  ASSUME Faults = {}, HeldInv, [Next]_vars
  PROVE  HeldInv'
<1>1. PoolInv'
  BY PoolStep DEF HeldInv
<1>2. /\ PoolInv /\ Reads /\ Ended /\ PoolTypes /\ Base /\ DrawableTypes
      /\ Job /\ Framed /\ Values /\ Engines /\ Shows
  BY DEF HeldInv, PoolInv, Base, Job
<1>3. ASSUME UNCHANGED <<texture, retire, shown, presents, channel, recycled, holders>>, Aside,
             serial' \in Seq(Nat), Len(serial') = Len(serial)
      PROVE  HeldInv'
  BY <1>1, <1>3, HeldGame
<1>4. CASE Resize \/ UNCHANGED vars
  <2>1. UNCHANGED <<drawableVars, gameVars, channelVars, jobVars, engineVars, gpuVars>>
    BY <1>4 DEF Resize, vars, workerSystemVars
  <2>2. UNCHANGED <<texture, retire, shown, presents, channel, recycled, holders, serial>> /\ Aside
    BY <2>1 DEF drawableVars, gameVars, channelVars, jobVars, engineVars, gpuVars, Aside
  <2> QED
    BY <1>2, <1>3, <2>2 DEF DrawableTypes
<1>5. ASSUME NEW ds \in Attached, Commit(ds) PROVE HeldInv'
  <2>1. UNCHANGED <<texture, retire, shown, presents, channel, recycled, holders>> /\ Aside
    BY <1>5 DEF Commit, drawableVars, channelVars, jobVars, engineVars, gpuVars, Aside
  <2>2. UNCHANGED texture /\ PoolInv'
    BY <1>1, <2>1
  <2>3. serial' \in Seq(Nat) /\ Len(serial') = Len(texture')
    BY <1>1 DEF PoolInv, Base, Job, DrawableTypes
  <2> QED
    BY <1>2, <1>3, <2>1, <2>3 DEF DrawableTypes
<1>6. ASSUME NEW d \in Drawables, PresentDirectly(d) PROVE HeldInv'
  <2>1. UNCHANGED <<texture, retire, shown, presents, channel, recycled, holders>> /\ Aside
    BY <1>6 DEF PresentDirectly, drawableVars, channelVars, jobVars, engineVars, gpuVars, Aside
  <2>2. serial' \in Seq(Nat) /\ Len(serial') = Len(texture')
    BY <1>1 DEF PoolInv, Base, Job, DrawableTypes
  <2> QED
    BY <1>2, <1>3, <2>1, <2>2 DEF DrawableTypes
<1>7. ASSUME NEW d \in Drawables, LetGo(d) PROVE HeldInv'
  <2>1. UNCHANGED <<texture, retire, shown, presents, channel, recycled, serial>> /\ Aside /\ Hold(d, {"game"}, {})
    BY <1>7 DEF LetGo, gameVars, channelVars, jobVars, engineVars, gpuVars, Aside
  <2>2. serial' \in Seq(Nat) /\ Len(serial') = Len(serial)
    BY <1>2, <2>1 DEF DrawableTypes
  <2> QED
    BY <1>1, <2>1, <2>2, HeldGame
<1>8. CASE Worker \/ Devices
  <2>1. "skip" \notin Faults
    BY DEF HeldInv
  <2>2. Reads'
    BY <1>2, <1>8, <2>1, ReadsStep
  <2>3. Ended'
    BY <1>2, <1>8, EndedStep
  <2> QED
    BY <1>1, <2>2, <2>3 DEF HeldInv
<1> QED
  BY <1>1, <1>4, <1>5, <1>6, <1>7, <1>8, HeldAcquire, HeldSend DEF Next, Sending, Running, Gpu

(* "The pool only hands out a texture the worker has finished with": when   *)
(* every present is built, whatever the plans, the engine and its failures, *)
(* and whenever the game drops what it was handed.                          *)
THEOREM TexturesHeld ==
  ASSUME Faults = {}
  PROVE  Spec => []TextureHeld
<1>1. Init => HeldInv
  <2> SUFFICES ASSUME Init PROVE HeldInv
    OBVIOUS
  <2>1. PoolInv
    BY PoolInitHolds
  <2>2. Reads
    BY BaseInit DEF Init
  <2>3. Ended
    BY EmptySeq DEF Init, WorkerInit, Ended
  <2> QED
    BY <2>1, <2>2, <2>3 DEF HeldInv
<1>2. HeldInv /\ [Next]_vars => HeldInv'
  BY HeldStep
<1>3. HeldInv => TextureHeld
  <2> SUFFICES ASSUME HeldInv, NEW d \in InUse PROVE ~Home(d)
    BY DEF TextureHeld
  <2>1. Base /\ Job /\ Framed /\ Values /\ Shows /\ Reads /\ Ended
    BY DEF HeldInv, PoolInv, Base
  <2>2. holders[d] # {}
    BY <2>1, InUseHeld
  <2>3. d \notin recycled
    BY <2>1 DEF InUse, ReadByGpu, Ended, Reading
  <2> QED
    BY <2>2, <2>3 DEF Home
<1> QED
  BY <1>1, <1>2, <1>3, PTL DEF Spec

-----------------------------------------------------------------------------
(* The frames on their way to the screen stand in one line: those presented *)
(* already, the one under work, those of the channel and those the commit   *)
(* hook has still to hand over.                                             *)
Sent(d) == d \in answered \cup recycled \/ "worker" \in holders[d] \/ "handler" \in holders[d]
Before(d, e) == serial[d] # 0 /\ serial[e] # 0 => serial[d] <= serial[e]
Coming ==
  {sending[i] : i \in 1..Len(sending)} \cup {channel[i] : i \in {j \in 1..Len(channel) : channel[j] # Forget}}

(* A drawable gets its serial when it is committed, once, and is not the    *)
(* game's to commit again; the line is in the order of the serials.  When   *)
(* the worker could not be started nothing waits for it.                    *)
Line ==
  /\ started # "yes" => channel = <<>> /\ pc = "receive"
  /\ \A d \in Drawables :
       /\ serial[d] <= gameSerial
       /\ serial[d] # 0 => Sent(d) \/ \E i \in 1..Len(sending) : sending[i] = d
  /\ \A i \in 1..Len(presents) : Sent(presents[i].frame)
  /\ \A i \in 1..Len(presents), e \in Coming : Before(presents[i].frame, e)
  /\ pc # "receive" =>
       /\ \A i \in 1..Len(presents) : Before(presents[i].frame, frame)
       /\ \A e \in Coming : Before(frame, e)
  /\ \A i \in 1..Len(channel) : channel[i] # Forget =>
       /\ \A j \in 1..Len(channel) : i < j /\ channel[j] # Forget => Before(channel[i], channel[j])
       /\ \A j \in 1..Len(sending) : Before(channel[i], sending[j])
  /\ \A i, j \in 1..Len(sending) : i < j => Before(sending[i], sending[j])
  /\ FramesInOrder

(* What was sent stays sent, whatever becomes of the frame.                 *)
LEMMA SentStays ==
  ASSUME Job, Framed, Worker \/ Devices, NEW d \in Drawables, Sent(d)
  PROVE  Sent(d)'
<1>1. DrawableTypes
  BY DEF Job
<1>2. ASSUME UNCHANGED <<holders, answered>>, recycled \subseteq recycled' PROVE Sent(d)'
  BY <1>2 DEF Sent
<1>3. ASSUME NEW f \in Drawables, NEW h, h \notin {"worker", "handler"}, Hold(f, {h}, {}),
             UNCHANGED <<answered, recycled>>
      PROVE  Sent(d)'
  <2>1. {} \in SUBSET Holder
    OBVIOUS
  <2>2. holders'[d] = IF d = f THEN (holders[f] \ {h}) \cup {} ELSE holders[d]
    BY <1>1, <1>3, <2>1, HoldChanges
  <2>3. /\ "worker" \in holders[d] => "worker" \in holders'[d]
        /\ "handler" \in holders[d] => "handler" \in holders'[d]
    BY <1>3, <2>2
  <2> QED
    BY <1>3, <2>3 DEF Sent
<1>4. ASSUME pc # "receive", NEW added \in SUBSET Holder, Hold(frame, {"worker"}, added),
             answered \subseteq answered', recycled \subseteq recycled',
             "handler" \in added \/ frame \in answered'
      PROVE  Sent(d)'
  <2>1. frame \in Drawables
    BY <1>4, FrameKnown
  <2>2. holders'[d] = IF d = frame THEN (holders[frame] \ {"worker"}) \cup added ELSE holders[d]
    BY <1>1, <1>4, <2>1, HoldChanges
  <2>3. CASE d = frame
    BY <1>4, <2>2, <2>3 DEF Sent
  <2>4. CASE d # frame
    BY <1>4, <2>2, <2>4 DEF Sent
  <2> QED
    BY <2>3, <2>4
<1>5. CASE Show
  <2>1. pc # "receive" /\ UNCHANGED <<answered, recycled>>
        /\ (UNCHANGED holders \/ Hold(frame, {"worker"}, {"handler", "retire"}))
    BY <1>5 DEF Show
  <2>2. {"handler", "retire"} \in SUBSET Holder
    BY DEF Holder
  <2> QED
    BY <1>2, <1>4, <2>1, <2>2
<1>6. ASSUME NEW outcome, PresentFails(outcome) PROVE Sent(d)'
  <2>1. UNCHANGED <<holders, answered>> /\ recycled \subseteq recycled'
    BY <1>6 DEF PresentFails
  <2> QED
    BY <1>2, <2>1
<1>7. ASSUME NEW found, PresentNatively(found) PROVE Sent(d)'
  <2>1. pc # "receive" /\ ShowNatively(frame, {"worker"}, found)
    BY <1>7 DEF PresentNatively
  <2>2. UNCHANGED recycled /\ \/ UNCHANGED answered /\ Hold(frame, {"worker"}, {"copy", "handler"})
                              \/ answered' = answered \cup {frame} /\ Hold(frame, {"worker"}, {})
    BY <2>1 DEF ShowNatively, Unshown
  <2>3. {"copy", "handler"} \in SUBSET Holder /\ {} \in SUBSET Holder
    BY DEF Holder
  <2> QED
    BY <1>4, <2>1, <2>2, <2>3
<1>8. CASE PresentCompletes
  <2>1. UNCHANGED <<answered, recycled>> /\ presents # <<>>
        /\ (UNCHANGED holders \/ Hold(Head(presents).frame, {"copy"}, {}))
    BY <1>8 DEF PresentCompletes
  <2>2. Head(presents).frame \in Drawables
    <3>1. 1 \in 1..Len(presents) /\ Head(presents) = presents[1]
      BY <2>1 DEF Job, QueueTypes
    <3> QED
      BY <3>1 DEF Framed
  <2>3. CASE UNCHANGED holders
    BY <1>2, <2>1, <2>3
  <2>4. CASE Hold(Head(presents).frame, {"copy"}, {})
    <3> DEFINE c == Head(presents).frame
    <3> HIDE DEF c
    <3>1. c \in Drawables /\ Hold(c, {"copy"}, {}) /\ "copy" \notin {"worker", "handler"}
      BY <2>2, <2>4 DEF c
    <3> QED
      BY <1>3, <2>1, <3>1
  <2> QED
    BY <2>1, <2>3, <2>4
<1>9. ASSUME NEW f \in Drawables, Retire(f) PROVE Sent(d)'
  BY <1>3, <1>9 DEF Retire
<1>10. ASSUME NEW f \in Drawables, Presented(f) PROVE Sent(d)'
  <2>1. answered' = answered \cup {f} /\ recycled' = recycled \cup {f} /\ Hold(f, {"handler"}, {})
    BY <1>10 DEF Presented
  <2>2. {} \in SUBSET Holder
    OBVIOUS
  <2>3. d # f => holders'[d] = holders[d]
    BY <1>1, <2>1, <2>2, HoldChanges
  <2> QED
    BY <2>1, <2>3 DEF Sent
<1>11. ASSUME Quiet PROVE Sent(d)'
  BY <1>2, <1>11 DEF Quiet, drawableVars
<1> QED
  BY <1>5, <1>6, <1>7, <1>8, <1>9, <1>10, <1>11, Kinds

(* The worker keeps its frame, or is done with it; a present may complete.  *)
LEMMA LineWaits ==
  ASSUME Framed, Line, UNCHANGED <<texture, serial, gameSerial, started, channel, sending>>,
         pc' # "receive" => pc # "receive" /\ frame' = frame,
         NEW k \in Nat, \A i \in 1..Len(presents') : i + k \in 1..Len(presents) /\ presents'[i] = presents[i + k],
         \A d \in Drawables : Sent(d) => Sent(d)'
  PROVE  Line'
<1>1. Drawables' = Drawables /\ Coming' = Coming
  BY DEF Drawables, Coming
<1>2. started' # "yes" => channel' = <<>> /\ pc' = "receive"
  BY DEF Line
<1>3. \A d \in Drawables' :
        /\ serial'[d] <= gameSerial'
        /\ serial'[d] # 0 => Sent(d)' \/ \E i \in 1..Len(sending') : sending'[i] = d
  BY <1>1 DEF Line
<1>4. \A i \in 1..Len(presents') : Sent(presents[i].frame)'
  BY DEF Line, Framed, Sent
<1>5. \A i \in 1..Len(presents'), e \in Coming' : Before(presents[i].frame, e)'
  BY <1>1 DEF Line, Before
<1>6. pc' # "receive" => \A i \in 1..Len(presents') : Before(presents[i].frame, frame)'
  BY DEF Line, Before
<1>7. pc' # "receive" => \A e \in Coming' : Before(frame, e)'
  BY <1>1 DEF Line, Before
<1>8. \A i \in 1..Len(channel') : channel'[i] # Forget =>
       /\ \A j \in 1..Len(channel') : i < j /\ channel'[j] # Forget => Before(channel[i], channel[j])'
       /\ \A j \in 1..Len(sending') : Before(channel[i], sending[j])'
  BY DEF Line, Before
<1>9. \A i, j \in 1..Len(sending') : i < j => Before(sending[i], sending[j])'
  BY DEF Line, Before
<1>10. FramesInOrder'
  <2>1. ASSUME NEW i \in 1..Len(presents'), NEW j \in 1..Len(presents'), i < j
        PROVE  Before(presents[i].frame, presents[j].frame)'
    <3>1. i + k \in 1..Len(presents) /\ j + k \in 1..Len(presents) /\ i + k < j + k
      BY <2>1
    <3>2. presents'[i] = presents[i + k] /\ presents'[j] = presents[j + k]
      BY <2>1
    <3> QED
      BY <3>1, <3>2 DEF Line, FramesInOrder, Before
  <2> QED
    BY <2>1 DEF FramesInOrder, Before
<1> QED
  BY <1>2, <1>3, <1>4, <1>5, <1>6, <1>7, <1>8, <1>9, <1>10 DEF Line

(* The worker presents its frame, which stands behind everything presented. *)
LEMMA LinePresents ==
  ASSUME Job, Framed, Line, pc # "receive", UNCHANGED <<texture, serial, gameSerial, started, channel, sending>>,
         pc' # "receive" => frame' = frame,
         NEW c \in Shots, c.frame = frame, presents' = Append(presents, c),
         \A d \in Drawables : Sent(d) => Sent(d)'
  PROVE  Line'
<1> DEFINE n == Len(presents)
<1>1. Drawables' = Drawables /\ Coming' = Coming
  BY DEF Drawables, Coming
<1>2. /\ n \in Nat /\ Len(presents') = n + 1
      /\ \A i \in 1..n : presents'[i] = presents[i]
      /\ presents'[n + 1].frame = frame
  BY PresentsGrow DEF Job, QueueTypes
<1> HIDE DEF n
<1>3. \A i \in 1..Len(presents') : i \in 1..n \/ i = n + 1
  BY <1>2
<1>4. started = "yes" /\ frame \in Drawables /\ Sent(frame)
  BY FrameKnown DEF Line, Sent
<1>5. \A d \in Drawables' :
        /\ serial'[d] <= gameSerial'
        /\ serial'[d] # 0 => Sent(d)' \/ \E i \in 1..Len(sending') : sending'[i] = d
  BY <1>1 DEF Line
<1>6. \A i \in 1..n : presents[i].frame \in Drawables /\ Sent(presents[i].frame)
  BY DEF Line, Framed, n
<1>7. \A i \in 1..Len(presents') : Sent(presents[i].frame)'
  BY <1>2, <1>3, <1>4, <1>6 DEF Sent
<1>8. \A i \in 1..n : Before(presents[i].frame, frame)
  BY DEF Line, n
<1>9. \A e \in Coming : Before(frame, e) /\ \A i \in 1..n : Before(presents[i].frame, e)
  BY DEF Line, n
<1>10. \A i \in 1..Len(presents'), e \in Coming' : Before(presents[i].frame, e)'
  BY <1>1, <1>2, <1>3, <1>9 DEF Before
<1>11. pc' # "receive" => \A i \in 1..Len(presents') : Before(presents[i].frame, frame)'
  BY <1>2, <1>3, <1>4, <1>8, FrameKnown DEF Before
<1>12. pc' # "receive" => \A e \in Coming' : Before(frame, e)'
  BY <1>1, <1>9 DEF Before
<1>13. \A i \in 1..Len(channel') : channel'[i] # Forget =>
       /\ \A j \in 1..Len(channel') : i < j /\ channel'[j] # Forget => Before(channel[i], channel[j])'
       /\ \A j \in 1..Len(sending') : Before(channel[i], sending[j])'
  BY DEF Line, Before
<1>14. \A i, j \in 1..Len(sending') : i < j => Before(sending[i], sending[j])'
  BY DEF Line, Before
<1>15. FramesInOrder'
  <2>1. ASSUME NEW i \in 1..Len(presents'), NEW j \in 1..Len(presents'), i < j
        PROVE  Before(presents[i].frame, presents[j].frame)'
    <3>1. i \in 1..n
      BY <1>2, <2>1
    <3>2. CASE j \in 1..n
      BY <1>2, <2>1, <3>1, <3>2 DEF Line, FramesInOrder, Before, n
    <3>3. CASE j = n + 1
      BY <1>2, <1>8, <3>1, <3>3 DEF Before
    <3> QED
      BY <1>3, <3>2, <3>3
  <2> QED
    BY <2>1 DEF FramesInOrder, Before
<1> QED
  BY <1>4, <1>5, <1>7, <1>10, <1>11, <1>12, <1>13, <1>14, <1>15 DEF Line

(* The worker takes the frame at the head of the channel.                   *)
LEMMA LineReceives ==
  ASSUME Job, Line, Receive, UNCHANGED sending
  PROVE  Line'
<1>1. /\ UNCHANGED <<texture, holders, recycled, answered, serial, gameSerial, started, presents>>
      /\ started = "yes" /\ channel # <<>> /\ channel' = Tail(channel) /\ frame' = Head(channel)
      /\ Head(channel) = Forget => pc' = "receive"
  BY DEF Receive, drawableVars, gameVars, gpuVars
<1>2. /\ Len(channel) \in Nat /\ Len(channel') = Len(channel) - 1 /\ 1 \in 1..Len(channel)
      /\ \A i \in 1..Len(channel') : channel'[i] = channel[i + 1] /\ i + 1 \in 1..Len(channel)
      /\ frame' = channel[1]
  BY <1>1, HeadTailProperties DEF Job, JobTypes
<1>3. /\ Drawables' = Drawables
      /\ \A i \in 1..Len(sending) : sending[i] \in Coming
      /\ \A i \in 1..Len(channel) : channel[i] # Forget => channel[i] \in Coming
  BY <1>1 DEF Drawables, Coming
<1>4. ASSUME NEW e \in Coming'
      PROVE  \/ \E i \in 1..Len(sending) : e = sending[i]
             \/ \E i \in 1..Len(channel) : 1 < i /\ channel[i] # Forget /\ e = channel[i]
  <2>1. CASE \E i \in 1..Len(sending') : e = sending'[i]
    BY <2>1
  <2>2. ASSUME NEW i \in 1..Len(channel'), channel'[i] # Forget, e = channel'[i]
        PROVE  \E j \in 1..Len(channel) : 1 < j /\ channel[j] # Forget /\ e = channel[j]
    <3>1. i + 1 \in 1..Len(channel) /\ 1 < i + 1 /\ channel'[i] = channel[i + 1]
      BY <1>2
    <3> QED
      BY <2>2, <3>1
  <2> QED
    BY <2>1, <2>2 DEF Coming
<1>5. started' = "yes"
  BY <1>1
<1>6. \A d \in Drawables' :
        /\ serial'[d] <= gameSerial'
        /\ serial'[d] # 0 => Sent(d)' \/ \E i \in 1..Len(sending') : sending'[i] = d
  BY <1>1, <1>3 DEF Line, Sent
<1>7. \A i \in 1..Len(presents') : Sent(presents[i].frame)'
  BY <1>1 DEF Line, Sent
<1>8. \A i \in 1..Len(presents'), e \in Coming' : Before(presents[i].frame, e)'
  BY <1>1, <1>3, <1>4 DEF Line, Before
<1>9. ASSUME pc' # "receive"
      PROVE  /\ \A i \in 1..Len(presents') : Before(presents[i].frame, frame)'
             /\ \A e \in Coming' : Before(frame, e)'
  <2>1. channel[1] # Forget /\ frame' = channel[1] /\ channel[1] \in Coming
    BY <1>1, <1>2, <1>3, <1>9
  <2>2. \A i \in 1..Len(presents) : Before(presents[i].frame, channel[1])
    BY <2>1 DEF Line
  <2>3. \A i \in 1..Len(sending) : Before(channel[1], sending[i])
    BY <1>2, <2>1 DEF Line
  <2>4. \A i \in 1..Len(channel) : 1 < i /\ channel[i] # Forget => Before(channel[1], channel[i])
    BY <1>2, <2>1 DEF Line
  <2> QED
    BY <1>1, <1>4, <2>1, <2>2, <2>3, <2>4 DEF Before
<1>10. ASSUME NEW i \in 1..Len(channel'), channel'[i] # Forget
       PROVE  /\ \A j \in 1..Len(channel') : i < j /\ channel'[j] # Forget => Before(channel[i], channel[j])'
              /\ \A j \in 1..Len(sending') : Before(channel[i], sending[j])'
  <2>1. i + 1 \in 1..Len(channel) /\ channel'[i] = channel[i + 1]
    BY <1>2
  <2>2. ASSUME NEW j \in 1..Len(channel'), i < j, channel'[j] # Forget PROVE Before(channel[i], channel[j])'
    <3>1. j + 1 \in 1..Len(channel) /\ channel'[j] = channel[j + 1] /\ i + 1 < j + 1
      BY <1>2, <2>2
    <3> QED
      BY <1>1, <1>10, <2>1, <2>2, <3>1 DEF Line, Before
  <2>3. \A j \in 1..Len(sending') : Before(channel[i], sending[j])'
    BY <1>1, <1>10, <2>1 DEF Line, Before
  <2> QED
    BY <2>2, <2>3
<1>11. \A i, j \in 1..Len(sending') : i < j => Before(sending[i], sending[j])'
  BY <1>1 DEF Line, Before
<1>12. FramesInOrder'
  BY <1>1 DEF Line, FramesInOrder
<1> QED
  BY <1>5, <1>6, <1>7, <1>8, <1>9, <1>10, <1>11, <1>12 DEF Line

(* Every step of the worker and the devices keeps the line in order.        *)
LEMMA LineSystem ==
  ASSUME Job, Framed, Line, Worker \/ Devices, UNCHANGED sending
  PROVE  Line'
<1>1. QueueTypes /\ DrawableTypes
  BY DEF Job
<1>2. \A d \in Drawables : Sent(d) => Sent(d)'
  BY SentStays
<1>3. ASSUME ~Receive
      PROVE  /\ UNCHANGED <<texture, serial, gameSerial, started, channel>>
             /\ pc' # "receive" => pc # "receive" /\ frame' = frame
  <2>1. ASSUME NEW next, NEW off, NEW outcome, Refuse(next, outcome, off)
        PROVE  UNCHANGED <<texture, serial, gameSerial, started, channel, frame>> /\ pc # "receive"
    BY <2>1 DEF Refuse, drawableVars, gameVars
  <2>2. ASSUME NEW next, NEW off, NEW p, Begin(next, off, p)
        PROVE  UNCHANGED <<texture, serial, gameSerial, started, channel, frame>> /\ pc # "receive"
    BY <2>2 DEF Begin, drawableVars, gameVars, channelVars
  <2>3. ASSUME NEW next, NEW off, NEW submitted, StartFails(next, off, submitted)
        PROVE  UNCHANGED <<texture, serial, gameSerial, started, channel, frame>> /\ pc # "receive"
    BY <2>3 DEF StartFails, drawableVars, gameVars
  <2>4. CASE NoTarget \/ Reset
    BY <2>4 DEF NoTarget, Reset, drawableVars, gameVars, channelVars
  <2>5. CASE Show
    <3>1. /\ UNCHANGED <<texture, serial, gameSerial, started, channel>> /\ pc # "receive"
          /\ frame' = frame \/ pc' = "receive"
      BY <2>5 DEF Show, gameVars, channelVars, JobDone
    <3> QED
      BY <3>1
  <2>6. ASSUME NEW outcome, PresentFails(outcome)
        PROVE  UNCHANGED <<texture, serial, gameSerial, started, channel, frame>> /\ pc # "receive"
    BY <2>6 DEF PresentFails, gameVars
  <2>7. ASSUME NEW found, PresentNatively(found)
        PROVE  UNCHANGED <<texture, serial, gameSerial, started, channel>> /\ pc' = "receive"
    BY <2>7 DEF PresentNatively, ShowNatively, gameVars, channelVars, JobDone
  <2>8. CASE Devices
    <3>1. CASE GameCompletes \/ PipelineCompletes
      BY <3>1 DEF GameCompletes, PipelineCompletes, drawableVars, gameVars, channelVars, jobVars
    <3>2. CASE PresentCompletes
      BY <3>2 DEF PresentCompletes, gameVars, channelVars, jobVars
    <3>3. CASE \E d \in Drawables : Retire(d) \/ Presented(d)
      BY <3>3 DEF Retire, Presented, gameVars, channelVars, jobVars
    <3> QED
      BY <2>8, <3>1, <3>2, <3>3 DEF Devices
  <2> QED
    BY <1>3, <2>1, <2>2, <2>3, <2>4, <2>5, <2>6, <2>7, <2>8 DEF Worker
<1>4. CASE ~Receive
  <2>1. /\ UNCHANGED <<texture, serial, gameSerial, started, channel>>
        /\ pc' # "receive" => pc # "receive" /\ frame' = frame
    BY <1>3, <1>4
  <2>2. CASE UNCHANGED presents
    <3>1. 0 \in Nat /\ \A i \in 1..Len(presents') : i + 0 \in 1..Len(presents) /\ presents'[i] = presents[i + 0]
      BY <2>2
    <3> QED
      BY <1>2, <2>1, <3>1, LineWaits
  <2>3. CASE presents # <<>> /\ presents' = Tail(presents)
    <3>1. 1 \in Nat /\ \A i \in 1..Len(presents') : i + 1 \in 1..Len(presents) /\ presents'[i] = presents[i + 1]
      BY <1>1, <2>3, PresentsTail
    <3> QED
      BY <1>2, <2>1, <3>1, LineWaits
  <2>4. ASSUME NEW op \in {"present", "native"}, NEW value \in Nat, NEW handler \in BOOLEAN, pc # "receive",
               presents' = Append(presents, [op |-> op, frame |-> frame, value |-> value, handler |-> handler])
        PROVE  Line'
    <3> DEFINE c == [op |-> op, frame |-> frame, value |-> value, handler |-> handler]
    <3>1. c \in Shots /\ c.frame = frame
      BY DEF Shots, Job, JobTypes
    <3>2. presents' = Append(presents, c)
      BY <2>4
    <3> HIDE DEF c
    <3> QED
      BY <1>2, <2>1, <2>4, <3>1, <3>2, LinePresents
  <2>5. Last \in BOOLEAN /\ presentSerial + 1 \in Nat /\ (pc # "receive" => serial[frame] \in Nat)
    <3>1. Last \in BOOLEAN
      BY DEF Last
    <3>2. presentSerial + 1 \in Nat
      BY <1>1 DEF QueueTypes
    <3> QED
      BY <3>1, <3>2, FrameKnown
  <2> QED
    BY <2>2, <2>3, <2>4, <2>5, PresentsMove
<1> QED
  BY <1>4, LineReceives

-----------------------------------------------------------------------------
(* The steps of the game.  A new drawable has no serial.                    *)
LEMMA LineAcquire ==
  ASSUME PoolInv, Line, NEW t \in Textures, AcquireDrawable(t)
  PROVE  Line'
<1>1. Job /\ Framed /\ DrawableTypes /\ PoolTypes /\ Jobs
  BY DEF PoolInv, Base, Job
<1>2. /\ NewDrawable(t, 0)
      /\ UNCHANGED <<sending, recycled, answered, gameSerial, started, channel, pc, frame, presents>>
      /\ sending = <<>>
  BY DEF AcquireDrawable, NewDrawable, Aside, channelVars, jobVars, engineVars
<1> DEFINE new == Len(texture) + 1
<1>3. /\ Drawables' = Drawables \cup {new} /\ new \notin Drawables
      /\ \A d \in Drawables : holders'[d] = holders[d] /\ serial'[d] = serial[d]
      /\ serial'[new] = 0
  BY <1>1, <1>2, NewDrawableTypes
<1> HIDE DEF new
<1>4. Coming' = Coming
  BY <1>2 DEF Coming
<1>5. /\ \A i \in 1..Len(presents) : presents[i].frame \in Drawables
      /\ \A e \in Coming : e \in Drawables
      /\ pc # "receive" => frame \in Drawables
      /\ \A i \in 1..Len(channel) : channel[i] # Forget => channel[i] \in Drawables
  BY <1>1, <1>2, EmptySeq DEF Framed, Jobs, Coming
<1>6. started' # "yes" => channel' = <<>> /\ pc' = "receive"
  BY <1>2 DEF Line
<1>7. \A d \in Drawables' :
        /\ serial'[d] <= gameSerial'
        /\ serial'[d] # 0 => Sent(d)' \/ \E i \in 1..Len(sending') : sending'[i] = d
  <2>1. \A d \in Drawables :
          /\ serial'[d] <= gameSerial'
          /\ serial'[d] # 0 => Sent(d)' \/ \E i \in 1..Len(sending') : sending'[i] = d
    BY <1>2, <1>3 DEF Line, Sent
  <2>2. gameSerial' \in Nat
    BY <1>1, <1>2 DEF PoolTypes
  <2> QED
    BY <1>3, <2>1, <2>2
<1>8. \A i \in 1..Len(presents') : Sent(presents[i].frame)'
  BY <1>2, <1>3, <1>5 DEF Line, Sent
<1>9. \A i \in 1..Len(presents'), e \in Coming' : Before(presents[i].frame, e)'
  BY <1>2, <1>3, <1>4, <1>5 DEF Line, Before
<1>10. pc' # "receive" =>
         /\ \A i \in 1..Len(presents') : Before(presents[i].frame, frame)'
         /\ \A e \in Coming' : Before(frame, e)'
  BY <1>2, <1>3, <1>4, <1>5 DEF Line, Before
<1>11. \A i \in 1..Len(channel') : channel'[i] # Forget =>
         \A j \in 1..Len(channel') : i < j /\ channel'[j] # Forget => Before(channel[i], channel[j])'
  BY <1>2, <1>3, <1>5 DEF Line, Before
<1>12. Len(sending') = 0
  BY <1>2, EmptySeq
<1>13. FramesInOrder'
  BY <1>2, <1>3, <1>5 DEF Line, FramesInOrder
<1> QED
  BY <1>6, <1>7, <1>8, <1>9, <1>10, <1>11, <1>12, <1>13 DEF Line

(* The drawables committed together get the next serials, in their order,   *)
(* or none; what was sent before them keeps its own.                        *)
LEMMA LineCommits ==
  ASSUME PoolInv, Line, UNCHANGED <<drawableVars, channelVars, jobVars, engineVars, gpuVars>>,
         sending = <<>>, \A i \in 1..Len(sending') : sending'[i] \in Drawables /\ Presentable(sending'[i]),
         Len(sending') \in Nat, gameSerial' \in Nat, gameSerial <= gameSerial',
         \A d \in Drawables : Sent(d) => serial'[d] = serial[d],
         \A d \in Drawables : serial'[d] = serial[d] \/ \E i \in 1..Len(sending') : sending'[i] = d,
         \/ \A i \in 1..Len(sending') : serial'[sending'[i]] = serial[sending'[i]]
         \/ \A i \in 1..Len(sending') : serial'[sending'[i]] = gameSerial + i /\ gameSerial + i <= gameSerial'
  PROVE  Line'
<1>1. Job /\ Framed /\ DrawableTypes /\ PoolTypes /\ Jobs
  BY DEF PoolInv, Base, Job
<1>2. UNCHANGED <<texture, holders, recycled, answered, started, channel, pc, frame, presents>>
  BY DEF drawableVars, channelVars, jobVars, gpuVars
<1>3. Drawables' = Drawables /\ \A d \in Drawables : serial[d] \in Nat /\ serial[d] <= gameSerial /\ (serial[d] # 0 => Sent(d))
  <2>1. \A d \in Drawables : serial[d] \in Nat
    BY <1>1, ElementOfSeq DEF DrawableTypes, Drawables
  <2>2. \A d \in Drawables : serial[d] <= gameSerial /\ (serial[d] # 0 => Sent(d))
    BY EmptySeq DEF Line
  <2> QED
    BY <1>2, <2>1, <2>2 DEF Drawables
<1>4. \A i \in 1..Len(sending') : ~Sent(sending'[i]) /\ serial[sending'[i]] = 0
  BY <1>3 DEF Presentable, Sent
<1>5. /\ \A i \in 1..Len(presents) : presents[i].frame \in Drawables /\ Sent(presents[i].frame)
      /\ pc # "receive" => frame \in Drawables /\ Sent(frame)
      /\ \A i \in 1..Len(channel) : channel[i] # Forget => channel[i] \in Drawables /\ Sent(channel[i])
  BY <1>1 DEF Framed, Jobs, Line, Sent
<1>6. \A d \in Drawables, i \in 1..Len(sending') : Sent(d) => Before(d, sending'[i]) /\ Before(d, sending[i])'
  BY <1>1, <1>3, <1>4 DEF Before, PoolTypes
<1>7. ASSUME NEW d \in Drawables, NEW e \in Drawables, Sent(d), Sent(e), Before(d, e) PROVE Before(d, e)'
  BY <1>7 DEF Before
<1>8. ASSUME NEW d \in Drawables, Sent(d) PROVE Sent(d)'
  BY <1>2, <1>8 DEF Sent
<1>9. \A e \in Coming' : \/ \E i \in 1..Len(sending') : e = sending'[i]
                         \/ e \in Coming /\ \E i \in 1..Len(channel) : channel[i] # Forget /\ e = channel[i]
  BY <1>2 DEF Coming
<1>10. started' # "yes" => channel' = <<>> /\ pc' = "receive"
  BY <1>2 DEF Line
<1>11. ASSUME NEW d \in Drawables'
       PROVE  /\ serial'[d] <= gameSerial'
              /\ serial'[d] # 0 => Sent(d)' \/ \E i \in 1..Len(sending') : sending'[i] = d
  <2>1. CASE serial'[d] = serial[d]
    BY <1>1, <1>3, <1>8, <1>11, <2>1 DEF PoolTypes
  <2>2. ASSUME NEW i \in 1..Len(sending'), sending'[i] = d
        PROVE  /\ serial'[d] <= gameSerial'
               /\ serial'[d] # 0 => Sent(d)' \/ \E j \in 1..Len(sending') : sending'[j] = d
    BY <1>4, <2>2
  <2> QED
    BY <1>3, <1>11, <2>1, <2>2
<1>12. \A i \in 1..Len(presents') : Sent(presents[i].frame)'
  BY <1>2, <1>5 DEF Sent
<1>13. ASSUME NEW d \in Drawables, Sent(d), \A e \in Coming : Before(d, e)
       PROVE  \A e \in Coming' : Before(d, e)'
  BY <1>5, <1>6, <1>7, <1>9, <1>13 DEF Before
<1>14. \A i \in 1..Len(presents'), e \in Coming' : Before(presents[i].frame, e)'
  <2>1. ASSUME NEW i \in 1..Len(presents) PROVE \A e \in Coming' : Before(presents[i].frame, e)'
    <3> DEFINE d == presents[i].frame
    <3>1. \A e \in Coming : Before(d, e)
      BY DEF Line
    <3>2. d \in Drawables /\ Sent(d)
      BY <1>5
    <3> HIDE DEF d
    <3>3. d' = d
      BY <1>2 DEF d
    <3>4. \A e \in Coming' : serial'[d] # 0 /\ serial'[e] # 0 => serial'[d] <= serial'[e]
      BY <1>13, <3>1, <3>2 DEF Before
    <3> QED
      BY <1>2, <3>4 DEF d, Before
  <2> QED
    BY <1>2, <2>1
<1>15. pc' # "receive" =>
         /\ \A i \in 1..Len(presents') : Before(presents[i].frame, frame)'
         /\ \A e \in Coming' : Before(frame, e)'
  <2>1. ASSUME pc # "receive" PROVE \A i \in 1..Len(presents') : Before(presents[i].frame, frame)'
    BY <1>2, <1>5, <2>1 DEF Line, Before
  <2>2. ASSUME pc # "receive" PROVE \A e \in Coming' : Before(frame, e)'
    <3>1. frame \in Drawables /\ Sent(frame) /\ \A e \in Coming : Before(frame, e)
      BY <1>5, <2>2 DEF Line
    <3>2. \A e \in Coming' : serial'[frame] # 0 /\ serial'[e] # 0 => serial'[frame] <= serial'[e]
      BY <1>13, <3>1 DEF Before
    <3> QED
      BY <1>2, <3>2 DEF Before
  <2> QED
    BY <1>2, <2>1, <2>2
<1>16. ASSUME NEW i \in 1..Len(channel'), channel'[i] # Forget
       PROVE  /\ \A j \in 1..Len(channel') : i < j /\ channel'[j] # Forget => Before(channel[i], channel[j])'
              /\ \A j \in 1..Len(sending') : Before(channel[i], sending[j])'
  <2>1. \A j \in 1..Len(channel') : i < j /\ channel'[j] # Forget => Before(channel[i], channel[j])'
    BY <1>2, <1>5, <1>16 DEF Line, Before
  <2>2. channel[i] \in Drawables /\ Sent(channel[i])
    BY <1>2, <1>5, <1>16
  <2>3. \A j \in 1..Len(sending') : serial'[channel[i]] # 0 /\ serial'[sending'[j]] # 0 => serial'[channel[i]] <= serial'[sending'[j]]
    BY <1>6, <2>2 DEF Before
  <2> QED
    BY <1>2, <2>1, <2>3 DEF Before
<1>17. \A i, j \in 1..Len(sending') : i < j => Before(sending[i], sending[j])'
  BY <1>1, <1>4 DEF Before, PoolTypes
<1>18. FramesInOrder'
  BY <1>2, <1>5 DEF Line, FramesInOrder
<1> QED
  BY <1>10, <1>11, <1>12, <1>14, <1>15, <1>16, <1>17, <1>18 DEF Line

(* commit_hook signals one serial for each drawable of the buffer.          *)
LEMMA LineBuffer ==
  ASSUME PoolInv, Line, NEW ds \in Attached, Commit(ds)
  PROVE  Line'
<1>1. PoolTypes /\ DrawableTypes
  BY DEF PoolInv, Base, Job
<1>2. ds \in Seq(Drawables) /\ Len(ds) \in Nat /\ DOMAIN ds = 1..Len(ds)
  <2>1. CASE \E d \in Drawables : ds = <<d>>
    BY <2>1
  <2>2. CASE \E d, e \in Drawables : ds = <<d, e>>
    BY <2>2
  <2> QED
    BY <2>1, <2>2 DEF Attached
<1>3. /\ UNCHANGED <<drawableVars, channelVars, jobVars, engineVars, gpuVars>>
      /\ gameSerial' = IF enabled THEN gameSerial + Len(ds) ELSE gameSerial
      /\ serial' = [d \in Drawables |->
                      IF enabled /\ \E i \in DOMAIN ds : ds[i] = d
                      THEN gameSerial + CHOOSE i \in DOMAIN ds : ds[i] = d
                      ELSE serial[d]]
      /\ sending' = ds /\ sending = <<>>
      /\ \A i \in DOMAIN ds : Presentable(ds[i])
      /\ \A i, j \in DOMAIN ds : ds[i] = ds[j] => i = j
  BY DEF Commit
<1>4. gameSerial' \in Nat /\ gameSerial <= gameSerial' /\ gameSerial \in Nat
  BY <1>1, <1>2, <1>3 DEF PoolTypes
<1>5. \A i \in 1..Len(ds) : ds[i] \in Drawables /\ Presentable(ds[i])
  BY <1>2, <1>3, ElementOfSeq
<1>6. \A d \in Drawables : Sent(d) => serial'[d] = serial[d]
  <2>1. \A d \in Drawables : Sent(d) => ~Presentable(d)
    BY DEF Sent, Presentable
  <2> QED
    BY <1>3, <2>1
<1>7. \A d \in Drawables : serial'[d] = serial[d] \/ \E i \in 1..Len(ds) : ds[i] = d
  BY <1>2, <1>3
<1>8. \/ \A i \in 1..Len(ds) : serial'[ds[i]] = serial[ds[i]]
      \/ \A i \in 1..Len(ds) : serial'[ds[i]] = gameSerial + i /\ gameSerial + i <= gameSerial'
  <2>1. CASE ~enabled
    BY <1>3, <1>5, <2>1
  <2>2. ASSUME enabled, NEW i \in 1..Len(ds) PROVE serial'[ds[i]] = gameSerial + i /\ gameSerial + i <= gameSerial'
    <3>1. serial'[ds[i]] = gameSerial + CHOOSE j \in DOMAIN ds : ds[j] = ds[i]
      BY <1>2, <1>3, <1>5, <2>2
    <3>2. (CHOOSE j \in DOMAIN ds : ds[j] = ds[i]) = i
      BY <1>2, <1>3
    <3>3. gameSerial' = gameSerial + Len(ds) /\ i <= Len(ds) /\ i \in Nat
      BY <1>2, <1>3, <2>2
    <3>4. gameSerial + i <= gameSerial'
      BY <1>2, <1>4, <3>3
    <3> QED
      BY <3>1, <3>2, <3>4
  <2> QED
    BY <2>1, <2>2
<1> QED
  BY <1>2, <1>3, <1>4, <1>5, <1>6, <1>7, <1>8, LineCommits

(* present() of a drawable signals the next serial on Metal 4, else none.   *)
LEMMA LineDirect ==
  ASSUME PoolInv, Line, NEW d \in Drawables, PresentDirectly(d)
  PROVE  Line'
<1>1. PoolTypes /\ DrawableTypes
  BY DEF PoolInv, Base, Job
<1>2. /\ UNCHANGED <<drawableVars, channelVars, jobVars, engineVars, gpuVars>>
      /\ gameSerial' = IF way = "metal4" THEN gameSerial + 1 ELSE gameSerial
      /\ serial' = IF way = "metal4" THEN [serial EXCEPT ![d] = gameSerial + 1] ELSE serial
      /\ sending' = <<d>> /\ sending = <<>>
      /\ Presentable(d) /\ ~Sent(d)
  BY DEF PresentDirectly, Presentable, Sent
<1>3. gameSerial' \in Nat /\ gameSerial <= gameSerial'
  BY <1>1, <1>2 DEF PoolTypes
<1>4. d \in DOMAIN serial
  BY <1>1 DEF DrawableTypes, Drawables
<1>5. \A e \in Drawables : e # d => serial'[e] = serial[e]
  BY <1>2
<1>6. serial'[d] = IF way = "metal4" THEN gameSerial + 1 ELSE serial[d]
  BY <1>2, <1>4
<1>7. Len(sending') = 1 /\ sending'[1] = d /\ \A i \in 1..Len(sending') : i = 1
  BY <1>2
<1>8. \/ \A i \in 1..Len(sending') : serial'[sending'[i]] = serial[sending'[i]]
      \/ \A i \in 1..Len(sending') : serial'[sending'[i]] = gameSerial + i /\ gameSerial + i <= gameSerial'
  <2>1. CASE way = "metal4"
    BY <1>2, <1>3, <1>6, <1>7, <2>1
  <2>2. CASE way # "metal4"
    BY <1>6, <1>7, <2>2
  <2> QED
    BY <2>1, <2>2
<1> QED
  BY <1>2, <1>3, <1>5, <1>7, <1>8, LineCommits

(* The next frame of a buffer joins the channel at its end, or, when the    *)
(* worker could not be started, is presented with nothing before it.        *)
LEMMA LineSends ==
  ASSUME PoolInv, Line, NEW keeps, NEW spawned, NEW found, SendFrame(keeps, spawned, found)
  PROVE  Line'
<1>1. Job /\ Framed /\ DrawableTypes /\ PoolTypes /\ Jobs /\ JobTypes /\ SendingHeld /\ QueueTypes
  BY DEF PoolInv, Base, Job
<1> DEFINE dropped == IF keeps THEN {} ELSE {"game"}
<1>0. PICK d : d = sending[1]
  OBVIOUS
<1>2. /\ sending # <<>> /\ Enqueue(d, dropped, spawned, found)
      /\ UNCHANGED <<serial, gameSerial, pc, frame>>
      /\ sending' = [i \in 1..(Len(sending) - 1) |-> sending[IF i < 1 THEN i ELSE i + 1]]
  BY <1>0 DEF SendFrame, Unsent, gameVars, jobVars
<1>3. Len(sending) \in Nat /\ Len(sending) > 0 /\ 1 \in 1..Len(sending)
  BY <1>1, <1>2 DEF PoolTypes
<1>4. /\ Len(sending') = Len(sending) - 1
      /\ \A i \in 1..Len(sending') : i + 1 \in 1..Len(sending) /\ sending'[i] = sending[i + 1]
  <2>1. Len(sending) - 1 \in Nat
    BY <1>3
  <2> QED
    BY <1>2, <1>3, <2>1
<1>5. /\ d \in Drawables /\ d # Forget
      /\ \A i \in 1..Len(sending) : sending[i] \in Drawables /\ (1 < i => Before(d, sending[i]))
  BY <1>0, <1>1, <1>3 DEF SendingHeld, Line, Drawables, Forget
<1> HIDE DEF dropped
<1>6. UNCHANGED <<texture, recycled>> /\ \A e \in Drawables : e # d => holders'[e] = holders[e]
  BY <1>1, <1>2, <1>5, EnqueueOthers
<1>7. Drawables' = Drawables
  BY <1>6 DEF Drawables
<1>8. Sent(d)' /\ answered \subseteq answered'
  <2>1. {"worker"} \in SUBSET Holder /\ {"copy", "handler"} \in SUBSET Holder
    BY DEF Holder
  <2>2. CASE Hold(d, dropped, {"worker"}) /\ UNCHANGED answered
    <3>1. "worker" \in holders'[d]
      <4>1. holders'[d] = IF d = d THEN (holders[d] \ dropped) \cup {"worker"} ELSE holders[d]
        BY <1>1, <1>5, <2>1, <2>2, HoldChanges
      <4> QED
        BY <4>1
    <3> QED
      BY <2>2, <3>1 DEF Sent
  <2>3. CASE Hold(d, dropped, {"copy", "handler"}) /\ UNCHANGED answered
    <3>1. "handler" \in holders'[d]
      <4>1. holders'[d] = IF d = d THEN (holders[d] \ dropped) \cup {"copy", "handler"} ELSE holders[d]
        BY <1>1, <1>5, <2>1, <2>3, HoldChanges
      <4> QED
        BY <4>1
    <3> QED
      BY <2>3, <3>1 DEF Sent
  <2>4. CASE answered' = answered \cup {d}
    BY <2>4 DEF Sent
  <2> QED
    BY <1>2, <2>2, <2>3, <2>4 DEF Enqueue, ShowNatively, Unshown
<1>9. \A e \in Drawables : Sent(e) => Sent(e)'
  BY <1>6, <1>8 DEF Sent
<1>10. d \in Coming /\ \A i \in 1..Len(sending') : sending'[i] \in Coming /\ Before(d, sending'[i])
  BY <1>0, <1>3, <1>4, <1>5 DEF Coming
<1>11. ASSUME NEW e \in Drawables'
       PROVE  /\ serial'[e] <= gameSerial'
              /\ serial'[e] # 0 => Sent(e)' \/ \E i \in 1..Len(sending') : sending'[i] = e
  <2>1. serial'[e] <= gameSerial' /\ (serial'[e] # 0 => Sent(e) \/ \E i \in 1..Len(sending) : sending[i] = e)
    BY <1>2, <1>7, <1>11 DEF Line
  <2>2. ASSUME NEW i \in 1..Len(sending), sending[i] = e, e # d PROVE \E j \in 1..Len(sending') : sending'[j] = e
    <3>1. i # 1
      BY <1>0, <2>2
    <3>2. i - 1 \in 1..Len(sending') /\ sending'[i - 1] = sending[i]
      BY <1>3, <1>4, <2>2, <3>1
    <3> QED
      BY <2>2, <3>2
  <2> QED
    BY <1>7, <1>8, <1>9, <2>1, <2>2
<1>12. \A i, j \in 1..Len(sending') : i < j => Before(sending[i], sending[j])'
  <2>1. ASSUME NEW i \in 1..Len(sending'), NEW j \in 1..Len(sending'), i < j
        PROVE  Before(sending[i], sending[j])'
    <3>1. i + 1 \in 1..Len(sending) /\ j + 1 \in 1..Len(sending) /\ i + 1 < j + 1
      BY <1>3, <1>4, <2>1
    <3> QED
      BY <1>2, <1>4, <3>1 DEF Line, Before
  <2> QED
    BY <2>1
<1>13. \A i \in 1..Len(presents) : presents[i].frame \in Drawables /\ Sent(presents[i].frame) /\ Before(presents[i].frame, d)
                               /\ \A j \in 1..Len(sending') : Before(presents[i].frame, sending'[j])
  BY <1>1, <1>10 DEF Framed, Line
<1>14. CASE started' = "yes"
  <2>1. channel' = Append(channel, d) /\ UNCHANGED <<presents, pc, frame>>
    BY <1>2, <1>14 DEF Enqueue
  <2>2. /\ Len(channel') = Len(channel) + 1 /\ Len(channel) \in Nat
        /\ \A i \in 1..Len(channel) : channel'[i] = channel[i]
        /\ channel'[Len(channel) + 1] = d
    <3>1. d \in Nat
      BY <1>5 DEF Drawables
    <3> QED
      BY <1>1, <2>1, <3>1, AppendProperties DEF JobTypes
  <2> DEFINE n == Len(channel)
  <2>3. n \in Nat /\ \A i \in 1..Len(channel') : (i \in 1..n /\ channel'[i] = channel[i]) \/ (i = n + 1 /\ channel'[i] = d)
    BY <2>2
  <2>4. \A i \in 1..n : channel[i] # Forget =>
          /\ channel[i] \in Coming
          /\ Before(channel[i], d) /\ \A j \in 1..Len(sending') : Before(channel[i], sending'[j])
          /\ \A j \in 1..n : i < j /\ channel[j] # Forget => Before(channel[i], channel[j])
    BY <1>0, <1>3, <1>4 DEF Line, Coming
  <2> HIDE DEF n
  <2>5. \A e \in Coming' : e \in Coming
    BY <1>10, <2>3, <2>4 DEF Coming
  <2>6. \A i \in 1..Len(presents') : Sent(presents[i].frame)'
    BY <1>9, <1>13, <2>1 DEF Sent
  <2>7. \A i \in 1..Len(presents'), e \in Coming' : Before(presents[i].frame, e)'
    BY <1>2, <2>1, <2>5 DEF Line, Before
  <2>8. pc' # "receive" =>
          /\ \A i \in 1..Len(presents') : Before(presents[i].frame, frame)'
          /\ \A e \in Coming' : Before(frame, e)'
    BY <1>2, <2>1, <2>5 DEF Line, Before
  <2>9. ASSUME NEW i \in 1..Len(channel'), channel'[i] # Forget
        PROVE  /\ \A j \in 1..Len(channel') : i < j /\ channel'[j] # Forget => Before(channel[i], channel[j])'
               /\ \A j \in 1..Len(sending') : Before(channel[i], sending[j])'
    <3>1. CASE i = n + 1 /\ channel'[i] = d
      <4>1. \A j \in 1..Len(channel') : ~(i < j)
        BY <2>2, <3>1 DEF n
      <4> QED
        BY <1>2, <1>10, <3>1, <4>1 DEF Before
    <3>2. CASE i \in 1..n /\ channel'[i] = channel[i]
      <4>1. ASSUME NEW j \in 1..Len(channel'), i < j, channel'[j] # Forget PROVE Before(channel[i], channel'[j])
        BY <2>3, <2>4, <2>9, <3>2, <4>1
      <4>2. \A j \in 1..Len(sending') : Before(channel[i], sending'[j])
        BY <2>4, <2>9, <3>2
      <4> QED
        BY <1>2, <3>2, <4>1, <4>2 DEF Before
    <3> QED
      BY <2>3, <3>1, <3>2
  <2>10. FramesInOrder'
    BY <1>2, <2>1 DEF Line, FramesInOrder
  <2> QED
    BY <1>11, <1>12, <1>14, <2>6, <2>7, <2>8, <2>9, <2>10 DEF Line
<1>15. CASE started' # "yes"
  <2>1. channel' = channel /\ started # "yes"
    BY <1>2, <1>15 DEF Enqueue, Started
  <2>2. channel' = <<>> /\ pc' = "receive" /\ Len(channel') = 0
    BY <1>2, <2>1, EmptySeq DEF Line
  <2>3. \A i \in 1..Len(presents') :
          \/ i \in 1..Len(presents) /\ presents'[i] = presents[i]
          \/ i = Len(presents) + 1 /\ presents'[i].frame = d
    <3>1. CASE UNCHANGED presents
      BY <3>1
    <3>2. CASE presents' # presents
      <4>1. ShowNatively(d, dropped, found)
        BY <1>2, <1>15 DEF Enqueue
      <4>2. PICK c \in Shots : presents' = Append(presents, c) /\ c.frame = d
        BY <1>1, <1>5, <3>2, <4>1, NativeShot
      <4>3. /\ Len(presents') = Len(presents) + 1 /\ Len(presents) \in Nat
            /\ \A i \in 1..Len(presents) : presents'[i] = presents[i]
            /\ presents'[Len(presents) + 1] = c
        BY <1>1, <4>2, PresentsGrow DEF QueueTypes
      <4> QED
        BY <4>2, <4>3
    <3> QED
      BY <3>1, <3>2
  <2>4. ASSUME NEW e \in Coming' PROVE \E i \in 1..Len(sending') : e = sending'[i]
    BY <2>2 DEF Coming
  <2>5. \A i \in 1..Len(presents') : Sent(presents[i].frame)'
    <3>1. \A e \in {d} \cup {presents[i].frame : i \in 1..Len(presents)} : Sent(e)'
      BY <1>8, <1>9, <1>13
    <3> QED
      BY <2>3, <3>1 DEF Sent
  <2>6. \A i \in 1..Len(presents'), e \in Coming' : Before(presents[i].frame, e)'
    <3>1. \A f \in {d} \cup {presents[i].frame : i \in 1..Len(presents)}, j \in 1..Len(sending') : Before(f, sending'[j])
      BY <1>10, <1>13
    <3>2. \A f \in {d} \cup {presents[i].frame : i \in 1..Len(presents)}, e \in Coming' : Before(f, e)
      BY <2>4, <3>1
    <3>3. \A i \in 1..Len(presents') : presents'[i].frame \in {d} \cup {presents[j].frame : j \in 1..Len(presents)}
      BY <2>3
    <3> QED
      BY <1>2, <3>2, <3>3 DEF Before
  <2>7. FramesInOrder'
    <3>1. ASSUME NEW i \in 1..Len(presents'), NEW j \in 1..Len(presents'), i < j
          PROVE  Before(presents[i].frame, presents[j].frame)'
      <4>1. CASE j \in 1..Len(presents) /\ presents'[j] = presents[j]
        <5>1. i \in 1..Len(presents) /\ presents'[i] = presents[i]
          BY <1>1, <2>3, <3>1, <4>1 DEF QueueTypes
        <5> QED
          BY <1>2, <3>1, <4>1, <5>1 DEF Line, FramesInOrder, Before
      <4>2. CASE j = Len(presents) + 1 /\ presents'[j].frame = d
        <5>1. i \in 1..Len(presents) /\ presents'[i] = presents[i]
          BY <1>1, <2>3, <3>1, <4>2 DEF QueueTypes
        <5> QED
          BY <1>2, <1>13, <4>2, <5>1 DEF Before
      <4> QED
        BY <2>3, <4>1, <4>2
    <3> QED
      BY <3>1 DEF FramesInOrder, Before
  <2> QED
    BY <1>11, <1>12, <2>2, <2>5, <2>6, <2>7 DEF Line
<1> QED
  BY <1>14, <1>15

(* No other step of the game touches the line.                              *)
LEMMA LineStill ==
  ASSUME PoolInv, Line, UNCHANGED <<texture, recycled, answered, gameVars, channelVars, jobVars, gpuVars, sending>>,
         \/ UNCHANGED holders
         \/ \E d \in Drawables : Hold(d, {"game"}, {})
  PROVE  Line'
<1>1. Framed /\ DrawableTypes
  BY DEF PoolInv, Base, Job
<1>2. UNCHANGED <<texture, recycled, answered, serial, gameSerial, started, channel, pc, frame, presents, sending>>
  BY DEF gameVars, channelVars, jobVars, gpuVars
<1>3. ASSUME NEW e \in Drawables, Sent(e) PROVE Sent(e)'
  <2>1. CASE UNCHANGED holders
    BY <1>2, <1>3, <2>1 DEF Sent
  <2>2. ASSUME NEW d \in Drawables, Hold(d, {"game"}, {}) PROVE Sent(e)'
    <3>1. {} \in SUBSET Holder
      OBVIOUS
    <3>2. holders'[e] = IF e = d THEN (holders[d] \ {"game"}) \cup {} ELSE holders[e]
      BY <1>1, <2>2, <3>1, HoldChanges
    <3>3. /\ "worker" \in holders[e] => "worker" \in holders'[e]
          /\ "handler" \in holders[e] => "handler" \in holders'[e]
      BY <3>2
    <3> QED
      BY <1>2, <1>3, <3>3 DEF Sent
  <2> QED
    BY <2>1, <2>2
<1>4. 0 \in Nat /\ \A i \in 1..Len(presents') : i + 0 \in 1..Len(presents) /\ presents'[i] = presents[i + 0]
  BY <1>2
<1> QED
  BY <1>1, <1>2, <1>3, <1>4, LineWaits

(* The line is in order from the beginning and stays so.                    *)
LEMMA LineHolds == Spec => []Line
<1>1. Init => Line
  <2>1. ASSUME Init PROVE Line
    <3>1. Drawables = {} /\ Len(presents) = 0 /\ Len(channel) = 0 /\ Len(sending) = 0
      BY <2>1, EmptySeq DEF Init, WorkerInit, Drawables
    <3> QED
      BY <2>1, <3>1 DEF Init, WorkerInit, Line, FramesInOrder
  <2> QED
    BY <2>1
<1>2. ASSUME PoolInv, Line, [Next]_vars PROVE Line'
  <2>1. Job /\ Framed
    BY <1>2 DEF PoolInv, Base
  <2>2. CASE Resize
    BY <1>2, <2>2, LineStill DEF Resize, workerSystemVars, drawableVars
  <2>3. CASE UNCHANGED vars
    BY <1>2, <2>3, LineStill DEF vars, poolVars, workerSystemVars, drawableVars
  <2>4. ASSUME NEW d \in Drawables, LetGo(d), UNCHANGED sending PROVE Line'
    BY <1>2, <2>4, LineStill DEF LetGo
  <2>5. CASE Sending
    BY <1>2, <2>5, LineSends DEF Sending
  <2>6. CASE Running \/ Gpu
    BY <1>2, <2>1, <2>6, LineSystem DEF Running, Gpu
  <2> QED
    BY <1>2, <2>2, <2>3, <2>4, <2>5, <2>6, LineAcquire, LineBuffer, LineDirect DEF Next
<1> QED
  BY <1>1, <1>2, PoolInvHolds, PTL DEF Spec

(* The frames of the game are shown in the order it committed them: a frame *)
(* that failed and is shown as it is keeps its place, and so does the frame *)
(* a game shows itself when the worker could not be started.                *)
THEOREM OrderKept == Spec => []FramesInOrder
<1>1. Line => FramesInOrder
  BY DEF Line
<1> QED
  BY <1>1, LineHolds, PTL

-----------------------------------------------------------------------------
(* The swapchain of the Vulkan proxy.                                       *)

(* The types of what the swapchain adds to the worker.                      *)
SwapTypes ==
  /\ status \in [Textures -> {"free", "acquired", "queued"}]
  /\ gameSerial \in Nat
  /\ presenting # 0 => presenting \in Drawables /\ holders[presenting] = {"game"}

(* An image is queued exactly while one drawable of it lives.               *)
ImagesHeld ==
  /\ \A d \in Drawables : Live(d) => status[texture[d]] = "queued"
  /\ \A d, e \in Drawables : Live(d) /\ Live(e) /\ texture[d] = texture[e] => d = e
  /\ \A i \in Textures : status[i] = "queued" => \E d \in Drawables : Live(d) /\ texture[d] = i

(* A dropped swapchain has no image left with the worker.                   *)
Dropped == life = "dropped" => NoneQueued

(* The inductive invariant of the swapchain.                                *)
SwapInv ==
  /\ Base /\ SwapTypes /\ ImagesHeld /\ Dropped
  /\ "skip" \notin Faults => Reads

(* The last drop of a drawable frees its image, and only that.              *)
LEMMA ReleaseHeld ==
  ASSUME DrawableTypes, SwapTypes, ImagesHeld, UNCHANGED texture, Release,
         \A d \in Drawables : holders[d] = {} => holders'[d] = {}
  PROVE  /\ ImagesHeld' /\ status' \in [Textures -> {"free", "acquired", "queued"}]
         /\ NoneQueued => NoneQueued'
<1>1. Drawables' = Drawables
  BY DEF Drawables
<1>2. \A d \in Drawables : texture[d] \in Textures
  BY ElementOfSeq DEF DrawableTypes, Drawables
<1>3. \A d \in Drawables : Live(d)' => Live(d)
  BY DEF Live
<1>4. ASSUME NEW i \in Textures
      PROVE  status'[i] = IF \E d \in Freed : texture[d] = i THEN "free" ELSE status[i]
  BY DEF Release
<1>5. status' \in [Textures -> {"free", "acquired", "queued"}]
  BY DEF Release, SwapTypes
<1>6. ASSUME NEW d \in Drawables, Live(d)' PROVE status'[texture[d]] = "queued"
  <2>1. Live(d) /\ status[texture[d]] = "queued" /\ texture[d] \in Textures
    BY <1>2, <1>3, <1>6 DEF ImagesHeld
  <2>2. ASSUME NEW e \in Freed, texture[e] = texture[d] PROVE FALSE
    <3>1. e \in Drawables /\ Live(e) /\ ~Live(e)'
      BY DEF Freed, Live
    <3>2. e = d
      BY <2>1, <2>2, <3>1 DEF ImagesHeld
    <3> QED
      BY <1>6, <3>1, <3>2 DEF Live
  <2> QED
    BY <1>4, <2>1, <2>2
<1>7. ASSUME NEW i \in Textures, status'[i] = "queued"
      PROVE  status[i] = "queued" /\ \E d \in Drawables : Live(d)' /\ texture'[d] = i
  <2>1. status[i] = "queued" /\ ~\E d \in Freed : texture[d] = i
    BY <1>4, <1>7
  <2>2. PICK d \in Drawables : Live(d) /\ texture[d] = i
    BY <2>1 DEF ImagesHeld
  <2>3. Live(d)'
    BY <2>1, <2>2 DEF Freed, Live
  <2> QED
    BY <2>1, <2>2, <2>3
<1>8. ImagesHeld'
  BY <1>1, <1>3, <1>6, <1>7 DEF ImagesHeld
<1>9. NoneQueued => NoneQueued'
  BY <1>7 DEF NoneQueued
<1> QED
  BY <1>5, <1>8, <1>9

(* Every image starts free.                                                 *)
LEMMA SwapInitHolds ==
  ASSUME SwapInit
  PROVE  SwapInv
<1>1. Base /\ Reads
  BY BaseInit DEF SwapInit
<1>2. SwapTypes /\ ImagesHeld /\ Dropped
  BY EmptySeq DEF SwapInit, WorkerInit, SwapTypes, ImagesHeld, Dropped, Drawables, Live
<1> QED
  BY <1>1, <1>2 DEF SwapInv

(* A step that changes the state of the images only, of none from or to     *)
(* queued.                                                                  *)
LEMMA StatusStep ==
  ASSUME SwapInv, UNCHANGED <<workerSystemVars, presenting>>,
         status' \in [Textures -> {"free", "acquired", "queued"}],
         \A i \in Textures : status'[i] = "queued" <=> status[i] = "queued",
         life' = "dropped" => life = "dropped"
  PROVE  SwapInv'
<1>1. UNCHANGED <<drawableVars, gameVars, channelVars, jobVars, engineVars, gpuVars>>
  BY DEF workerSystemVars
<1>2. UNCHANGED <<texture, holders, recycled, answered, serial, gameSerial, gameQueue, gameEvent, started, enabled, channel,
                  pc, frame, plan, slot, copied, engine, nativeOff, framePending,
                  presentSerial, pipeline, presentEvent, presents, retire, shown>>
  BY <1>1 DEF drawableVars, gameVars, channelVars, jobVars, engineVars, gpuVars
<1>3. Base' /\ ("skip" \notin Faults => Reads')
  <2>1. Aside /\ serial' \in Seq(Nat) /\ Len(serial') = Len(serial)
    BY <1>2 DEF Aside, SwapInv, Base, Job, DrawableTypes
  <2> QED
    BY <1>2, <2>1, BaseGame DEF SwapInv
<1>4. \A d \in Drawables : texture[d] \in Textures
  BY ElementOfSeq DEF SwapInv, Base, Job, DrawableTypes, Drawables
<1>5. Drawables' = Drawables /\ \A d \in Drawables : Live(d)' <=> Live(d)
  BY <1>2 DEF Drawables, Live
<1>6. ImagesHeld'
  BY <1>2, <1>4, <1>5 DEF SwapInv, ImagesHeld
<1>7. Dropped'
  BY DEF SwapInv, Dropped, NoneQueued
<1>8. SwapTypes'
  BY <1>2, <1>5 DEF SwapInv, SwapTypes
<1> QED
  BY <1>3, <1>6, <1>7, <1>8 DEF SwapInv

(* An acquired image is behind no drawable, so presenting it gives it the   *)
(* only one.                                                                *)
LEMMA PresentStep ==
  ASSUME SwapInv, NEW i \in Textures, QueuePresent(i)
  PROVE  SwapInv'
<1>1. Base /\ SwapTypes /\ ImagesHeld /\ Dropped /\ DrawableTypes
  BY DEF SwapInv, Base, Job
<1> DEFINE new == Len(texture) + 1
<1>2. /\ NewDrawable(i, gameSerial + 1) /\ gameSerial + 1 \in Nat
      /\ gameSerial' = gameSerial + 1 /\ presenting' = new
      /\ status[i] = "acquired" /\ status' = [status EXCEPT ![i] = "queued"]
      /\ life = "live" /\ life' = life
  BY <1>1 DEF QueuePresent, NewDrawable, Aside, SwapTypes, channelVars, jobVars, engineVars
<1>3. Base' /\ ("skip" \notin Faults => Reads')
  BY <1>1, <1>2, BaseNewDrawable DEF SwapInv
<1>4. /\ Drawables' = Drawables \cup {new} /\ new \notin Drawables
      /\ \A d \in Drawables : texture'[d] = texture[d] /\ holders'[d] = holders[d]
      /\ texture'[new] = i /\ holders'[new] = {"game"} /\ new # 0
  BY <1>1, <1>2, NewDrawableTypes
<1> HIDE DEF new
<1>5. SwapTypes'
  <2>1. status' \in [Textures -> {"free", "acquired", "queued"}]
    BY <1>1, <1>2 DEF SwapTypes
  <2>2. gameSerial' \in Nat /\ presenting' \in Drawables' /\ holders'[presenting'] = {"game"}
    BY <1>2, <1>4
  <2> QED
    BY <2>1, <2>2 DEF SwapTypes
<1>6. \A d \in Drawables : texture[d] \in Textures
  BY <1>1, ElementOfSeq DEF DrawableTypes, Drawables
<1>7. /\ \A d \in Drawables : Live(d)' <=> Live(d)
      /\ holders'[new] # {}
  BY <1>4 DEF Live
<1>8. \A d \in Drawables : Live(d) => texture[d] # i
  BY <1>1, <1>2 DEF ImagesHeld
<1>9. status'[i] = "queued" /\ \A k \in Textures : k # i => status'[k] = status[k]
  BY <1>1, <1>2 DEF SwapTypes
<1>10. \A d \in Drawables' : Live(d)' => status'[texture'[d]] = "queued"
  BY <1>1, <1>4, <1>6, <1>7, <1>8, <1>9 DEF ImagesHeld
<1>11. ASSUME NEW d \in Drawables', NEW e \in Drawables', Live(d)', Live(e)', texture'[d] = texture'[e] PROVE d = e
  <2>1. CASE d = new /\ e \in Drawables
    BY <1>4, <1>7, <1>8, <1>11, <2>1
  <2>2. CASE e = new /\ d \in Drawables
    BY <1>4, <1>7, <1>8, <1>11, <2>2
  <2>3. CASE d \in Drawables /\ e \in Drawables
    BY <1>1, <1>4, <1>7, <1>11, <2>3 DEF ImagesHeld
  <2> QED
    BY <1>4, <2>1, <2>2, <2>3
<1>12. ASSUME NEW k \in Textures, status'[k] = "queued" PROVE \E d \in Drawables' : Live(d)' /\ texture'[d] = k
  <2>1. CASE k = i
    BY <1>4, <1>7, <2>1 DEF Live
  <2>2. CASE k # i
    <3>1. PICK d \in Drawables : Live(d) /\ texture[d] = k
      BY <1>1, <1>9, <1>12, <2>2 DEF ImagesHeld
    <3> QED
      BY <1>4, <1>7, <3>1
  <2> QED
    BY <2>1, <2>2
<1>13. ImagesHeld'
  BY <1>10, <1>11, <1>12 DEF ImagesHeld
<1>14. Dropped'
  BY <1>2 DEF Dropped
<1> QED
  BY <1>3, <1>5, <1>13, <1>14 DEF SwapInv

(* vkQueuePresentKHR hands the queued image's drawable to the worker.       *)
LEMMA SendImageStep ==
  ASSUME SwapInv, NEW spawned, NEW found, SendImage(spawned, found)
  PROVE  SwapInv'
<1>1. Base /\ SwapTypes /\ ImagesHeld /\ Dropped /\ DrawableTypes
  BY DEF SwapInv, Base, Job
<1>2. /\ presenting # 0 /\ presenting' = 0 /\ Enqueue(presenting, {"game"}, spawned, found) /\ Release
      /\ UNCHANGED <<serial, gameSerial, retire, shown, life>> /\ Aside
  BY DEF SendImage, gameVars, jobVars, engineVars, Aside
<1>3. presenting \in Drawables /\ holders[presenting] = {"game"}
  BY <1>1, <1>2 DEF SwapTypes
<1>4. Base' /\ ("skip" \notin Faults => Reads')
  <2>1. "retire" \notin {"game"}
    OBVIOUS
  <2> QED
    BY <1>1, <1>2, <1>3, <2>1, BaseSends DEF SwapInv
<1>5. UNCHANGED texture /\ \A e \in Drawables : e # presenting => holders'[e] = holders[e]
  BY <1>1, <1>2, <1>3, EnqueueOthers
<1>6. \A d \in Drawables : holders[d] = {} => holders'[d] = {}
  BY <1>3, <1>5
<1>7. /\ ImagesHeld' /\ status' \in [Textures -> {"free", "acquired", "queued"}]
      /\ NoneQueued => NoneQueued'
  BY <1>1, <1>2, <1>5, <1>6, ReleaseHeld
<1>8. SwapTypes' /\ Dropped'
  BY <1>1, <1>2, <1>7 DEF SwapTypes, Dropped
<1> QED
  BY <1>4, <1>7, <1>8 DEF SwapInv

(* The drop of the swapchain tells the worker to forget it.                 *)
LEMMA ForgetStep ==
  ASSUME SwapInv, NEW spawned, DropForgets(spawned)
  PROVE  SwapInv'
<1>1. Base /\ SwapTypes /\ ImagesHeld /\ Dropped /\ DrawableTypes
  BY DEF SwapInv, Base, Job
<1>2. /\ UNCHANGED <<texture, holders, serial, gameSerial, retire, shown, presents, status, presenting>> /\ Aside
      /\ channel' \in {channel, Append(channel, Forget)}
      /\ NoneQueued
  BY DEF DropForgets, drawableVars, gameVars, jobVars, engineVars, gpuVars, Aside
<1>3. Base' /\ ("skip" \notin Faults => Reads')
  <2>1. serial' \in Seq(Nat) /\ Len(serial') = Len(serial)
    BY <1>1, <1>2 DEF DrawableTypes
  <2> QED
    BY <1>1, <1>2, <2>1, BaseGame DEF SwapInv
<1>4. Drawables' = Drawables /\ \A d \in Drawables : Live(d)' <=> Live(d)
  BY <1>2 DEF Drawables, Live
<1>5. ImagesHeld'
  BY <1>1, <1>2, <1>4 DEF ImagesHeld
<1>6. SwapTypes'
  BY <1>1, <1>2, <1>4 DEF SwapTypes
<1>7. Dropped'
  BY <1>2 DEF Dropped, NoneQueued
<1> QED
  BY <1>3, <1>5, <1>6, <1>7 DEF SwapInv

(* The worker frees an image only with the last reference to its drawable.  *)
LEMMA WorkerStep ==
  ASSUME SwapInv, Worker \/ Devices, Release, UNCHANGED <<invalid, life, presenting>>
  PROVE  SwapInv'
<1>1. Base /\ SwapTypes /\ ImagesHeld /\ Dropped /\ Job /\ Framed /\ Values /\ Engines /\ Shows /\ DrawableTypes
  BY DEF SwapInv, Base, Job
<1>2. Base'
  BY <1>1, BaseStep
<1>3. "skip" \notin Faults => Reads'
  BY <1>1, ReadsStep DEF SwapInv
<1>4. UNCHANGED <<texture, serial, gameSerial>>
  BY TexturesStay
<1>5. \A d \in Drawables : /\ holders[d] = {} => holders'[d] = {}
                           /\ holders[d] = {"game"} => holders'[d] = {"game"}
  BY <1>1, GameOwned
<1>6. /\ ImagesHeld' /\ status' \in [Textures -> {"free", "acquired", "queued"}]
      /\ NoneQueued => NoneQueued'
  BY <1>1, <1>4, <1>5, ReleaseHeld
<1>7. SwapTypes' /\ Dropped'
  BY <1>1, <1>4, <1>5, <1>6 DEF SwapTypes, Dropped, Drawables
<1> QED
  BY <1>2, <1>3, <1>6, <1>7 DEF SwapInv

(* Every step keeps the invariant.                                          *)
LEMMA SwapStep ==
  ASSUME SwapInv, [SwapNext]_proxyVars
  PROVE  SwapInv'
<1>1. SwapTypes
  BY DEF SwapInv
<1>2. ASSUME NEW i \in Textures, Acquire(i) PROVE SwapInv'
  <2>1. /\ UNCHANGED <<workerSystemVars, presenting>> /\ status[i] = "free" /\ life' = life
        /\ status' = [status EXCEPT ![i] = "acquired"]
    BY <1>2 DEF Acquire
  <2>2. /\ status' \in [Textures -> {"free", "acquired", "queued"}]
        /\ \A k \in Textures : status'[k] = "queued" <=> status[k] = "queued"
    BY <1>1, <2>1 DEF SwapTypes
  <2> QED
    BY <2>1, <2>2, StatusStep
<1>3. ASSUME NEW i \in Textures, ReleaseImage(i) PROVE SwapInv'
  <2>1. /\ UNCHANGED <<workerSystemVars, presenting>> /\ status[i] = "acquired" /\ life' = life
        /\ status' = [status EXCEPT ![i] = "free"]
    BY <1>3 DEF ReleaseImage
  <2>2. /\ status' \in [Textures -> {"free", "acquired", "queued"}]
        /\ \A k \in Textures : status'[k] = "queued" <=> status[k] = "queued"
    BY <1>1, <2>1 DEF SwapTypes
  <2> QED
    BY <2>1, <2>2, StatusStep
<1>4. ASSUME UNCHANGED <<workerSystemVars, presenting, status>>, life' = "dropped" => life = "dropped" PROVE SwapInv'
  <2>1. /\ UNCHANGED <<workerSystemVars, presenting>> /\ status' \in [Textures -> {"free", "acquired", "queued"}]
        /\ \A k \in Textures : status'[k] = "queued" <=> status[k] = "queued"
    BY <1>1, <1>4 DEF SwapTypes
  <2> QED
    BY <1>4, <2>1, StatusStep
<1>5. CASE Invalidate \/ Drop
  BY <1>4, <1>5 DEF Invalidate, Drop
<1>6. CASE UNCHANGED proxyVars
  <2>1. UNCHANGED <<workerSystemVars, presenting, status, life>>
    BY <1>6 DEF proxyVars, swapVars
  <2> QED
    BY <1>4, <2>1
<1> QED
  BY <1>2, <1>3, <1>5, <1>6, PresentStep, SendImageStep, ForgetStep, WorkerStep DEF SwapNext, SendingImage, Dropping, SwapWorker, SwapGpu

(* So it always holds.                                                      *)
LEMMA SwapInvHolds == SwapSpec => []SwapInv
<1>1. SwapInit => SwapInv
  BY SwapInitHolds
<1>2. SwapInv /\ [SwapNext]_proxyVars => SwapInv'
  BY SwapStep
<1> QED
  BY <1>1, <1>2, PTL DEF SwapSpec

-----------------------------------------------------------------------------
(* An image is queued exactly while one drawable of it is alive, whatever   *)
(* the worker does with it: none is lost and none is freed twice.           *)
THEOREM ImagesQueued == SwapSpec => []QueuedIsHeld
<1>1. SwapInv => QueuedIsHeld
  <2> SUFFICES ASSUME SwapInv, NEW i \in Textures
               PROVE  Cardinality({d \in Drawables : Live(d) /\ texture[d] = i}) = IF status[i] = "queued" THEN 1 ELSE 0
    BY DEF QueuedIsHeld
  <2> DEFINE held == {d \in Drawables : Live(d) /\ texture[d] = i}
  <2>1. CASE status[i] = "queued"
    <3>1. PICK d \in Drawables : Live(d) /\ texture[d] = i
      BY <2>1 DEF SwapInv, ImagesHeld
    <3>2. held = {d}
      BY <3>1 DEF SwapInv, ImagesHeld
    <3> QED
      BY <2>1, <3>2, FS_Singleton
  <2>2. CASE status[i] # "queued"
    <3>1. held = {}
      BY <2>2 DEF SwapInv, ImagesHeld
    <3> QED
      BY <2>2, <3>1, FS_EmptySet
  <2> QED
    BY <2>1, <2>2
<1> QED
  BY <1>1, SwapInvHolds, PTL

(* No command reads an image that the game may acquire, and none reads any  *)
(* once the images are destroyed, as long as no frame is skipped past its   *)
(* copy in.                                                                 *)
THEOREM ImagesUntouched ==
  ASSUME "skip" \notin Faults
  PROVE  SwapSpec => []ImageUntouched
<1>1. SwapInv => ImageUntouched
  <2> SUFFICES ASSUME SwapInv PROVE ImageUntouched
    OBVIOUS
  <2>1. \A d \in InUse : d \in Drawables /\ Live(d)
    BY InUseHeld DEF SwapInv, Base, Live
  <2>2. \A d \in Drawables : texture[d] \in Textures
    BY ElementOfSeq DEF SwapInv, Base, Job, DrawableTypes, Drawables
  <2>3. life = "dropped" => InUse = {}
    BY <2>1, <2>2 DEF SwapInv, ImagesHeld, Dropped, NoneQueued
  <2> QED
    BY <2>1, <2>3 DEF ImageUntouched
<1> QED
  BY <1>1, SwapInvHolds, PTL
=============================================================================
