---------------------------- MODULE FixedPresent ----------------------------
(***************************************************************************)
(* The fixed swapchain wrapper (shim/fixed.rs, Fixed): the game's present   *)
(* becomes m presents, m - 1 generated frames in images the wrapper         *)
(* acquires itself and then the game's own.  Every present holds the API    *)
(* lock and the queue lock, so one runs at a time; the display gives images *)
(* back meanwhile.  Each call may fail, and every present starts with the   *)
(* layer's look at the configuration file (Settings), which may change the  *)
(* profile.                                                                 *)
(*                                                                          *)
(* All the wrapper submits goes to one queue, so a binary semaphore is      *)
(* followed in submission order: `signalled` is what they will be once the  *)
(* queue has run dry, and `misused` remembers a signal of a semaphore that  *)
(* was signalled or a wait for one that nothing signals.                    *)
(***************************************************************************)
EXTENDS Settings

CONSTANTS
  Images,        \* images of the real swapchain
  MaxRefused,    \* bound on the presents that fail
  Faults         \* which calls may fail

ASSUME FixedAssumption ==
  IsFiniteSet(Images) /\ MaxRefused \in Nat

VARIABLES
  revision,      \* Fixed::revision
  ctx,           \* Fixed::ctx: what it was built for, or nothing
  failed,        \* Fixed::failed
  passes,        \* length of Fixed::inner
  image,         \* who has each image
  signalled, misused,
  refused,       \* presents that returned an error
  pc, m, slot, index, target   \* the present under way

wrapperVars == <<revision, ctx, failed, passes>>
fixedVars == <<settingsVars, wrapperVars>>
localVars == <<m, slot, index, target>>
presentVars == <<wrapperVars, image, signalled, misused, refused, pc, localVars>>
vars == <<settingsVars, presentVars>>

Present(i) == <<"present", i>>
Acquire(k) == <<"acquire", k>>
Copy(k) == <<"copy", k>>

Inserted == m - 1

NoContext == <<>>

(* flow_for, at the height of this swapchain when the scale is automatic;   *)
(* what a context is built for, see Wrapper::stale.                         *)
FlowFor(p) == IF p.flow_auto THEN 75 ELSE p.flow_scale
Built(p) == <<FlowFor(p), p.performance_mode>>

Init ==
  /\ SettingsInit
  /\ revision = 0 /\ ctx = NoContext /\ failed = FALSE /\ passes = 0
  /\ image = [i \in Images |-> "free"]
  /\ signalled = {} /\ misused = FALSE /\ refused = 0
  /\ pc = "closed" /\ m = 0 /\ slot = 0 /\ index = "none" /\ target = "none"

(* The process starts, and the file changes.  The file is read only while   *)
(* a present updates the layer, so it need not change later in the present. *)
Starts == Starting /\ UNCHANGED presentVars

Edits ==
  /\ pc \in {"closed", "game", "update"}
  /\ Edit
  /\ UNCHANGED presentVars

(* create: the passes of the multiplier at hand, no context yet; when it    *)
(* fails nothing is left.                                                   *)
Create ==
  /\ pc = "closed" /\ step = "on"
  /\ revision' = layer.revision
  /\ passes' = ActiveProfile.multiplier - 1
  /\ pc' = "game"
  /\ UNCHANGED <<settingsVars, ctx, failed, image, signalled, misused, refused, localVars>>

(* drop: the context and every semaphore go, and with the swapchain its     *)
(* images.                                                                  *)
Drop ==
  /\ pc = "game"
  /\ revision' = 0 /\ ctx' = NoContext /\ failed' = FALSE /\ passes' = 0
  /\ image' = [i \in Images |-> "free"]
  /\ signalled' = {} /\ refused' = 0
  /\ pc' = "closed"
  /\ UNCHANGED <<settingsVars, misused, localVars>>

-----------------------------------------------------------------------------
(* The game, the display, the semaphores and the failure of a present.      *)

GameAcquires ==
  /\ pc = "game"
  /\ \E i \in Images : image[i] = "free" /\ image' = [image EXCEPT ![i] = "game"]
  /\ UNCHANGED <<fixedVars, signalled, misused, refused, pc, localVars>>

Flip ==
  /\ \E i \in Images : image[i] = "screen" /\ image' = [image EXCEPT ![i] = "free"]
  /\ UNCHANGED <<fixedVars, signalled, misused, refused, pc, localVars>>

(* A submission or an acquire that waits for and signals binary semaphores. *)
Semaphores(waits, signals) ==
  /\ signalled' = (signalled \ waits) \cup signals
  /\ misused' = (misused \/ ~(waits \subseteq signalled)
                         \/ signals \cap (signalled \ waits) # {})

Kept == UNCHANGED <<signalled, misused>>

May(call) == call \in Faults /\ refused < MaxRefused

(* Mutant: every failure counts as a starved acquire.                       *)
AnyError(error) == TRUE

(* "A starved inner acquire is transient."                                  *)
Transient(error) == error = "starved"

(* present, Err: the context goes, and the frame is not presented.          *)
GiveUp(error, now) ==
  /\ ctx' = NoContext
  /\ failed' = ~Transient(error)
  /\ image' = [now EXCEPT ![index] = "lost"]
  /\ refused' = refused + 1
  /\ pc' = "game"
  /\ m' = 0 /\ slot' = 0 /\ index' = "none" /\ target' = "none"
  /\ UNCHANGED <<settingsVars, revision, passes>>

(* The driver shows the image; what it was presented with is waited for.    *)
Shown(i, semaphore) ==
  /\ image' = [image EXCEPT ![i] = "screen"]
  /\ Semaphores({semaphore}, {})

(* The driver refuses it, and may have taken the wait or the image or not.  *)
Rejected(i, semaphore) ==
  /\ May("present")
  /\ Kept \/ Semaphores({semaphore}, {})
  /\ \E now \in {[image EXCEPT ![i] = "lost"], [image EXCEPT ![i] = "screen"]} :
       GiveUp("rejected", now)

-----------------------------------------------------------------------------
(* present and its preamble.                                                *)

(* A present looks at the file; so does one of another swapchain, whose     *)
(* index is none here.                                                      *)
BeginUpdate ==
  /\ pc = "game"
  /\ index' \in {i \in Images : image[i] = "game"} \cup {"none"}
  /\ TakeStamp
  /\ pc' = "update"
  /\ UNCHANGED <<fileVars, layerVars, wrapperVars, image, signalled, misused, refused, m, slot, target>>

UpdateElsewhere ==
  /\ pc = "update" /\ index = "none"
  /\ Update
  /\ pc' = "game"
  /\ UNCHANGED <<wrapperVars, image, signalled, misused, refused, localVars>>

(* Several swapchains, or a queue other than the adopted one.               *)
PresentUntouched ==
  /\ pc = "game"
  /\ \E i \in Images : image[i] = "game" /\ image' = [image EXCEPT ![i] = "screen"]
  /\ UNCHANGED <<fixedVars, signalled, misused, refused, pc, localVars>>

(* reset_semaphores replaces those of the images, then those of the passes: *)
(* the sets it may have replaced when it fails.                             *)
PresentSemaphores == {Present(i) : i \in Images}
PassSemaphores == FlattenSeq([k \in 1..passes |-> <<Acquire(k), Copy(k)>>])

PartlyReplaced ==
  {{Present(i) : i \in I} : I \in SUBSET Images}
  \cup {PresentSemaphores \cup Range(SubSeq(PassSemaphores, 1, n)) : n \in 0..(Len(PassSemaphores) - 1)}

(* Mutant: the old semaphores are used again.                               *)
KeepSemaphores == {[left |-> signalled, ok |-> TRUE]}

(* reset_semaphores: what stays signalled, and whether all were replaced.   *)
ResetSemaphores ==
  {[left |-> {}, ok |-> TRUE]} \cup
  IF "reset" \in Faults
  THEN {[left |-> signalled \ replaced, ok |-> FALSE] : replaced \in PartlyReplaced}
  ELSE {}

(* Mutant: a context outlives a change of its profile's settings.           *)
NeverStale(profile) == FALSE

Stale(profile) == ctx # Built(profile)

(* The context left by a reload, and the one the present goes on with.      *)
Remaining(l) ==
  LET p == l.config.profiles[l.profile]
  IN IF l.revision # revision /\ (p.multiplier < 2 \/ Stale(p)) THEN NoContext ELSE ctx

Preamble ==
  /\ pc = "update" /\ index # "none"
  /\ Update
  /\ revision' = layer'.revision
  /\ m' = ActiveProfile'.multiplier
  /\ \E r \in IF failed /\ layer'.revision # revision THEN ResetSemaphores
              ELSE {[left |-> signalled, ok |-> ~failed]} :
       /\ signalled' = r.left
       /\ IF Remaining(layer') = NoContext /\ r.ok /\ m' > 1
          THEN \/ ctx' = Built(ActiveProfile') /\ failed' = FALSE
               \/ "context" \in Faults /\ ctx' = NoContext /\ failed' = TRUE
          ELSE ctx' = Remaining(layer') /\ failed' = ~r.ok
  /\ pc' = IF ctx' = NoContext THEN "passthrough" ELSE "grow"
  /\ UNCHANGED <<passes, image, misused, refused, slot, index, target>>

(* The game's own present, whatever the driver makes of it.                 *)
Passthrough ==
  /\ pc = "passthrough"
  /\ image' = [image EXCEPT ![index] = "screen"]
  /\ pc' = "game" /\ m' = 0 /\ index' = "none"
  /\ UNCHANGED <<fixedVars, signalled, misused, refused, slot, target>>

(* grow: passes are added one by one and never removed.                     *)
Grow ==
  /\ pc = "grow"
  /\ passes' = IF Inserted > passes THEN Inserted ELSE passes
  /\ pc' = "dispatch"
  /\ UNCHANGED <<settingsVars, revision, ctx, failed, image, signalled, misused, refused, localVars>>

(* A pass that cannot be made fails the present and leaves the context.     *)
GrowFails ==
  /\ pc = "grow" /\ Inserted > passes /\ May("grow")
  /\ \E n \in passes..(Inserted - 1) : passes' = n
  /\ image' = [image EXCEPT ![index] = "lost"]
  /\ refused' = refused + 1
  /\ pc' = "game" /\ m' = 0 /\ index' = "none"
  /\ UNCHANGED <<settingsVars, revision, ctx, failed, signalled, misused, slot, target>>

-----------------------------------------------------------------------------
(* run: the copy in and the pre-pass, then each generated frame, then the   *)
(* game's own.                                                              *)

Dispatch ==
  /\ pc = "dispatch"
  /\ \/ /\ pc' = "generate" /\ slot' = 1
        /\ UNCHANGED <<fixedVars, image, refused, m, index, target>>
     \/ May("dispatch") /\ GiveUp("dispatch", image)
  /\ Kept

(* generate, then an image for the frame within a second.                   *)
Generate ==
  /\ pc = "generate"
  /\ \E i \in Images :
       /\ image[i] = "free"
       /\ image' = [image EXCEPT ![i] = "wrapper"] /\ target' = i
  /\ Semaphores({}, {Acquire(slot)})
  /\ pc' = "copy"
  /\ UNCHANGED <<fixedVars, refused, m, slot, index>>

GenerateFails ==
  /\ pc = "generate"
  /\ \/ May("generate") /\ GiveUp("generate", image)
     \/ /\ \A i \in Images : image[i] # "free"
        /\ May("starved") /\ GiveUp("starved", image)
  /\ Kept

LastSlot == slot = Inserted

(* ctx.acquire: the copy out; the last also signals the original's present. *)
CopyOut ==
  /\ pc = "copy"
  /\ \/ /\ Semaphores({Acquire(slot)}, {Copy(slot)} \cup IF LastSlot THEN {Present(index)} ELSE {})
        /\ pc' = "inner"
        /\ UNCHANGED <<fixedVars, image, refused, localVars>>
     \/ /\ May("copy") /\ Kept
        /\ GiveUp("copy", [image EXCEPT ![target] = "lost"])

PresentInner ==
  /\ pc = "inner"
  /\ \/ /\ Shown(target, Copy(slot))
        /\ pc' = IF LastSlot THEN "original" ELSE "generate"
        /\ slot' = IF LastSlot THEN slot ELSE slot + 1
        /\ target' = "none"
        /\ UNCHANGED <<fixedVars, refused, m, index>>
     \/ Rejected(target, Copy(slot))

PresentOriginal ==
  /\ pc = "original"
  /\ \/ /\ Shown(index, Present(index))
        /\ pc' = "game" /\ m' = 0 /\ slot' = 0 /\ index' = "none"
        /\ UNCHANGED <<fixedVars, refused, target>>
     \/ Rejected(index, Present(index))

Next ==
  \/ Starts \/ Edits \/ Create \/ Drop \/ GameAcquires \/ Flip
  \/ PresentUntouched \/ BeginUpdate \/ UpdateElsewhere \/ Preamble \/ Passthrough \/ Grow \/ GrowFails
  \/ Dispatch \/ Generate \/ GenerateFails \/ CopyOut \/ PresentInner \/ PresentOriginal

Spec == Init /\ [][Next]_vars

-----------------------------------------------------------------------------
(* "A failed run may leave binary semaphores signalled; fresh ones before   *)
(* generation resumes": no submission, acquire or present ever signals a    *)
(* signalled semaphore or waits for one that nothing signals, whichever     *)
(* call failed before, starved acquires included, which reset nothing.      *)
SemaphoresInTurn == ~misused

(* A present that generates does so with the context, the multiplier and    *)
(* the passes of the profile the layer holds, and not after a failure that  *)
(* no reload has followed.                                                  *)
Running == {"dispatch", "generate", "copy", "inner", "original"}

RunsCurrent ==
  pc \in Running =>
    /\ ctx = Built(ActiveProfile)
    /\ m = ActiveProfile.multiplier /\ m > 1
    /\ passes >= Inserted
    /\ ~failed

(* A present that fails costs the game's image; only a hard failure costs   *)
(* one of the wrapper's too, and there is at most one per revision, so a    *)
(* swapchain whose presents succeed never runs out of images.               *)
Lost == {i \in Images : image[i] = "lost"}

LossBounded == Cardinality(Lost) <= refused + layer.revision + 1
=============================================================================
