---------------------------- MODULE LayerProofs ----------------------------
(***************************************************************************)
(* Proofs about the layer and its recursive mutex, for every set of        *)
(* threads, handles and surfaces, every nesting bound, and any failures.   *)
(*                                                                         *)
(* The lock comes first, then that the layer uses it as a lock.  LayerInv   *)
(* is built in layers of its own: the calls under way (CallsInv, QueueInv), *)
(* the rules the game keeps (RulesInv), the surfaces, the instance and the  *)
(* devices (BaseInv), and the accounts of the swapchains (Accounts): who    *)
(* has each handle, the game, the table or a call, and what stands behind   *)
(* it.  DriverInv adds to them what a creation and a look-up know while the *)
(* other threads go on, and the chain of features is a proof by itself.     *)
(***************************************************************************)
EXTENDS Layer, TLAPS

(* The lock starts free.                                                   *)
LEMMA InitLockInv == Init => LockInv
  BY LockAssumption DEF Init, LockInv, TypeOK, Owned, NoLostWakeup, Waiting

(* Which threads test and which wait after a notification.                 *)
LEMMA NotifyKeeps ==
  ASSUME at \in [Threads -> {"running", "testing", "waiting"}], NotifyOne
  PROVE  /\ at' \in [Threads -> {"running", "testing", "waiting"}]
         /\ Waiting # {} => \E t \in Threads : at'[t] = "testing"
         /\ Waiting = {} => at' = at
  <1>1. CASE Waiting = {}
    BY <1>1 DEF NotifyOne
  <1>2. CASE Waiting # {}
    <2>1. PICK w \in Waiting : at' = [at EXCEPT ![w] = "testing"]
      BY <1>2 DEF NotifyOne
    <2>2. w \in Threads
      BY <2>1 DEF Waiting
    <2> QED
      BY <1>2, <2>1, <2>2
  <1> QED
    BY <1>1, <1>2

(* Every step of every thread keeps the inductive invariant.               *)
LEMMA NextLockInv == LockInv /\ [Next]_vars => LockInv'
  <1> SUFFICES ASSUME LockInv, [Next]_vars
               PROVE  LockInv'
    OBVIOUS
  <1> USE LockAssumption DEF LockInv
  <1>1. ASSUME NEW t \in Threads, Call(t)
        PROVE  LockInv'
    BY <1>1 DEF Call, TypeOK, Owned, NoLostWakeup, Waiting
  <1>2. ASSUME NEW t \in Threads, Wait(t)
        PROVE  LockInv'
    <2>1. owner # None /\ owner' = owner /\ depth' = depth /\ guards' = guards
      BY <1>2 DEF Wait
    <2>2. TypeOK' /\ Owned'
      BY <1>2, <2>1 DEF Wait, TypeOK, Owned
    <2> QED
      BY <2>1, <2>2 DEF NoLostWakeup
  <1>3. ASSUME NEW t \in Threads, Take(t)
        PROVE  LockInv'
    <2>1. depth' = depth + 1 /\ owner' = t /\ owner \in {None, t}
      BY <1>3 DEF Take, MayTake
    <2>2. TypeOK'
      BY <1>3, <2>1 DEF Take, TypeOK
    <2>3. Owned'
      <3>1. \A u \in Threads : u # t => guards[u] = 0
        BY <2>1 DEF TypeOK, Owned
      <3>2. depth = guards[t]
        BY <2>1 DEF TypeOK, Owned
      <3> QED
        BY <1>3, <2>1, <3>1, <3>2 DEF Take, TypeOK, Owned
    <2>4. NoLostWakeup'
      BY <2>1 DEF NoLostWakeup
    <2> QED
      BY <2>2, <2>3, <2>4
  <1>4. ASSUME NEW t \in Threads, Drop(t)
        PROVE  LockInv'
    <2>1. owner = t /\ depth = guards[t] /\ depth > 0
      BY <1>4 DEF Drop, TypeOK, Owned
    <2>2. at' \in [Threads -> {"running", "testing", "waiting"}]
      BY <1>4, NotifyKeeps DEF Drop, TypeOK
    <2>3. TypeOK'
      <3>1. owner' \in Threads \cup {None}
        BY <1>4 DEF Drop, TypeOK
      <3>2. depth' \in Nat
        BY <1>4, <2>1 DEF Drop, TypeOK
      <3>3. guards' \in [Threads -> Nat]
        BY <1>4 DEF Drop, TypeOK
      <3> QED
        BY <2>2, <3>1, <3>2, <3>3 DEF TypeOK
    <2>4. Owned'
      <3>1. depth' = depth - 1 /\ guards' = [guards EXCEPT ![t] = @ - 1]
        BY <1>4 DEF Drop
      <3>2. \A u \in Threads : u # t => guards'[u] = 0
        BY <2>1, <3>1 DEF TypeOK, Owned
      <3>3. guards'[t] = depth'
        BY <2>1, <3>1 DEF TypeOK
      <3>4. CASE depth - 1 = 0
        <4>1. owner' = None
          BY <1>4, <3>4 DEF Drop
        <4> QED
          BY <3>1, <3>2, <3>3, <3>4, <4>1, LockAssumption DEF Owned
      <3>5. CASE depth - 1 # 0
        <4>1. owner' = owner
          BY <1>4, <3>5 DEF Drop
        <4>2. depth' > 0
          BY <2>1, <3>1, <3>5 DEF TypeOK
        <4> QED
          BY <2>1, <3>2, <3>3, <4>1, <4>2, LockAssumption DEF Owned
      <3> QED
        BY <3>4, <3>5
    <2>5. NoLostWakeup'
      <3>1. CASE depth - 1 = 0
        <4>1. NotifyOne
          BY <1>4, <3>1 DEF Drop
        <4>2. CASE Waiting = {}
          BY <4>1, <4>2, NotifyKeeps DEF NoLostWakeup, Waiting, TypeOK
        <4>3. CASE Waiting # {}
          BY <4>1, <4>3, NotifyKeeps DEF NoLostWakeup, TypeOK
        <4> QED
          BY <4>2, <4>3
      <3>2. CASE depth - 1 # 0
        BY <1>4, <2>1, <3>2 DEF Drop, NoLostWakeup
      <3> QED
        BY <3>1, <3>2
    <2> QED
      BY <2>3, <2>4, <2>5
  <1>5. ASSUME NEW t \in Threads, SpuriousWake(t)
        PROVE  LockInv'
    BY <1>5 DEF SpuriousWake, TypeOK, Owned, NoLostWakeup, Waiting
  <1>6. CASE UNCHANGED vars
    BY <1>6 DEF vars, TypeOK, Owned, NoLostWakeup, Waiting
  <1> QED
    BY <1>1, <1>2, <1>3, <1>4, <1>5, <1>6 DEF Next

(* In every state of the lock its owner and depth are the guards out.      *)
THEOREM LockInvariant == Spec => []LockInv
  BY InitLockInv, NextLockInv, PTL DEF Spec

(* The types of the lock's fields and of its threads' positions.           *)
THEOREM LockTypes == Spec => []TypeOK
  <1>1. LockInv => TypeOK
    BY DEF LockInv
  <1> QED
    BY <1>1, LockInvariant, PTL

(* lock() gives the lock to one thread at a time.                          *)
THEOREM LockExcludes == Spec => []MutualExclusion
  <1>1. LockInv => MutualExclusion
    BY DEF LockInv, Owned, MutualExclusion, TypeOK
  <1> QED
    BY <1>1, LockInvariant, PTL

(* No interleaving of arrivals, notifications and spurious wakes leaves    *)
(* the lock free with everyone asleep.                                     *)
THEOREM LockWakes == Spec => []NoLostWakeup
  <1>1. LockInv => NoLostWakeup
    BY DEF LockInv
  <1> QED
    BY <1>1, LockInvariant, PTL
-----------------------------------------------------------------------------
(* Calls.  What a call is about never changes while it runs; what moves is  *)
(* its step and what it still has to do.                                    *)

Fields == {"op", "step", "d", "alone", "shared", "s", "h", "old", "new", "hs",
           "wrapper", "left", "shared_layer"}
Shape(c) == DOMAIN c = Fields /\ c = [f \in Fields |-> c[f]]

(* The steps of every call, as the model names them.                        *)
StepsOf ==
  [create_instance |-> {"create"}, destroy_instance |-> {"destroy"},
   create_device |-> {"create"},
   destroy_device |-> {"remove", "drop", "queue", "destroy", "pool", "device"},
   create_surface |-> {"before", "create", "layer", "surface"},
   destroy_surface |-> {"forget", "layer", "destroy"},
   create_swapchain |-> {"choose", "plain", "fixed", "proxy", "setup", "undo", "native", "insert"},
   destroy_swapchain |-> {"remove", "drop", "queue", "destroy"},
   present |-> {"route", "forward", "queue"},
   acquire |-> {"wait", "queue"}, submit |-> {"wait", "queue"}]

(* The calls that take the API lock, and the first step of every call, at   *)
(* which these may still be waiting for it.                                 *)
Locks(c) ==
  c.op \in {"create_instance", "destroy_instance", "create_device", "destroy_device",
            "create_swapchain", "destroy_swapchain", "present"}
AtFirst(c) ==
  \/ c.op \in {"create_instance", "destroy_instance", "create_device"}
  \/ c.step \in {"remove", "choose", "route", "before", "forget", "wait"}

Known(c) == Shape(c) /\ c.op \in DOMAIN StepsOf /\ c.step \in StepsOf[c.op]

(* A thread in a call holds the lock, waits for it at the call's first step,*)
(* or has nothing to do with it.                                            *)
Placed(t) ==
  /\ call[t] = Idle \/ Known(call[t])
  /\ Locks(call[t]) /\ at[t] = "running" => guards[t] = 1
  /\ Locks(call[t]) /\ at[t] # "running" => guards[t] = 0 /\ AtFirst(call[t])
  /\ ~Locks(call[t]) => at[t] = "running" /\ guards[t] = 0

CallsInv == call = [t \in Threads |-> call[t]] /\ \A t \in Threads : Placed(t)

(* The four things a step does to the thread's call: nothing, begin one,    *)
(* move it on, end it.                                                      *)
Others(t) ==
  /\ call' = [u \in Threads |-> call'[u]]
  /\ \A u \in Threads : u # t => call'[u] = call[u]

Rests(t) == UNCHANGED call /\ (Wait(t) \/ Take(t) \/ SpuriousWake(t) \/ UNCHANGED lockVars)

Begins(t) ==
  /\ call[t] = Idle /\ Others(t)
  /\ Known(call'[t]) /\ AtFirst(call'[t]) /\ call'[t].left = <<>>
  /\ \A u \in Busy : ~Conflict(call'[t], call[u])
  /\ IF Locks(call'[t]) THEN Call(t) ELSE UNCHANGED lockVars

SameCall(t) ==
  /\ call'[t].op = call[t].op /\ call'[t].d = call[t].d /\ call'[t].s = call[t].s
  /\ call'[t].hs = call[t].hs
  /\ call'[t].alone = call[t].alone /\ call'[t].shared = call[t].shared

Moves(t) ==
  /\ Known(call[t]) /\ Others(t)
  /\ Known(call'[t]) /\ SameCall(t)
  /\ Locks(call[t]) => at[t] = "running"
  /\ call'[t].step = "queue" => Queueing(call[t].d) = {}
  /\ UNCHANGED lockVars

Ends(t) ==
  /\ Known(call[t]) /\ Others(t)
  /\ call'[t] = Idle
  /\ IF Locks(call[t]) THEN Drop(t) ELSE UNCHANGED lockVars

(* A thread without a call uses nothing.                                    *)
LEMMA IdleFields ==
  /\ Idle.op = "none" /\ Idle.step = "none" /\ Idle.alone = {} /\ Idle.shared = {}
  /\ Idle.left = <<>> /\ Idle.hs = {} /\ Shape(Idle) /\ ~Locks(Idle) /\ ~Known(Idle)
  BY DEF Idle, NewCall, Shape, Fields, Locks, Known, StepsOf

(* What the operators that move a call do to its fields.                    *)
Rest(t) ==
  /\ call'[t].h = call[t].h /\ call'[t].old = call[t].old /\ call'[t].new = call[t].new
  /\ call'[t].wrapper = call[t].wrapper /\ call'[t].left = call[t].left
  /\ call'[t].shared_layer = call[t].shared_layer

(* Going on to a step changes the step alone.                               *)
LEMMA GotoDoes ==
  ASSUME CallsInv, NEW t \in Threads, Shape(call[t]), NEW step, Goto(t, step)
  PROVE  /\ Others(t) /\ Shape(call'[t]) /\ SameCall(t) /\ Rest(t)
         /\ call'[t].step = step /\ UNCHANGED lockVars
  BY DEF CallsInv, Goto, Others, SameCall, Rest, Shape, Fields

(* A creation that gets a handle notes it with the way it was made.         *)
LEMMA GettingDoes ==
  ASSUME CallsInv, NEW t \in Threads, Shape(call[t]), NEW h, NEW wrapper, NEW step,
         Getting(t, h, wrapper, step)
  PROVE  /\ Others(t) /\ Shape(call'[t]) /\ SameCall(t)
         /\ call'[t].new = h /\ call'[t].wrapper = wrapper
         /\ call'[t].h = call[t].h /\ call'[t].old = call[t].old /\ call'[t].left = call[t].left
         /\ call'[t].step = step /\ UNCHANGED lockVars
  BY DEF CallsInv, Getting, Others, SameCall, Shape, Fields

(* A call that ends leaves its thread idle and the other threads alone.     *)
LEMMA EndDoes ==
  ASSUME CallsInv, NEW t \in Threads, call' = [call EXCEPT ![t] = Idle]
  PROVE  Others(t) /\ call'[t] = Idle
  BY DEF CallsInv, Others

(* A call begins in an idle thread, beside calls it does not conflict with. *)
LEMMA BeginDoes ==
  ASSUME CallsInv, NEW t \in Threads, NEW c, Begin(t, c)
  PROVE  /\ call[t] = Idle /\ Others(t) /\ call'[t] = c
         /\ \A u \in Busy : ~Conflict(c, call[u])
  BY DEF CallsInv, Begin, Others

(* A call takes the queue lock when no other call of the device has it.     *)
LEMMA LockQueueDoes ==
  ASSUME CallsInv, NEW t \in Threads, Shape(call[t]), LockQueue(t)
  PROVE  /\ Others(t) /\ Shape(call'[t]) /\ SameCall(t) /\ Rest(t)
         /\ call'[t].step = "queue" /\ UNCHANGED lockVars
         /\ Queueing(call[t].d) = {}
  BY GotoDoes DEF LockQueue

(* A thread inside the lock, and one at a step of a call.                   *)
LEMMA InsideIs ==
  ASSUME CallsInv, NEW t \in Threads, NEW op, NEW step, Inside(t, op, step)
  PROVE  /\ Known(call[t]) /\ Shape(call[t]) /\ call[t] # Idle
         /\ call[t].op = op /\ call[t].step = step /\ at[t] = "running" /\ guards[t] > 0
  BY DEF CallsInv, Placed, Inside, At, Known

(* What is known of a thread at a step of a call.                           *)
LEMMA AtIs ==
  ASSUME CallsInv, NEW t \in Threads, NEW op, NEW step, At(t, op, step)
  PROVE  /\ Known(call[t]) /\ Shape(call[t]) /\ call[t] # Idle
         /\ call[t].op = op /\ call[t].step = step
  BY DEF CallsInv, Placed, At, Known

(* What the other steps that move a call on do to its fields.               *)
LEMMA ForgottenDoes ==
  ASSUME CallsInv, NEW t \in Threads, SurfaceForgotten(t)
  PROVE  /\ Others(t) /\ Shape(call'[t]) /\ SameCall(t) /\ call'[t].left = call[t].left
         /\ call'[t].step = "layer" /\ UNCHANGED lockVars
         /\ call'[t].shared_layer = (call[t].s \notin DOMAIN surfaces \/ UsedElsewhere(call[t].s))
  <1>1. Shape(call[t])
    BY AtIs DEF SurfaceForgotten
  <1>2. call' = [call EXCEPT ![t].step = "layer",
                             ![t].shared_layer = \/ call[t].s \notin DOMAIN surfaces
                                                 \/ UsedElsewhere(call[t].s)]
    BY DEF SurfaceForgotten
  <1>3. UNCHANGED lockVars
    BY DEF SurfaceForgotten
  <1> QED
    BY <1>1, <1>2, <1>3 DEF CallsInv, Others, SameCall, Shape, Fields

(* A device that is taken out of its map takes its swapchains along.        *)
LEMMA DeviceRemovedDoes ==
  ASSUME CallsInv, NEW t \in Threads, DeviceRemoved(t)
  PROVE  /\ Others(t) /\ Shape(call'[t]) /\ SameCall(t) /\ UNCHANGED lockVars
         /\ call'[t].step = IF call[t].d \in DOMAIN devices THEN "drop" ELSE "device"
         /\ call'[t].left = Restrict(swapchains, LeakedOn(call[t].d))
         /\ call'[t].h = call[t].h
  <1>1. Shape(call[t])
    BY InsideIs DEF DeviceRemoved
  <1>2. call' = [call EXCEPT ![t].step = IF call[t].d \in DOMAIN devices THEN "drop" ELSE "device",
                             ![t].left = Restrict(swapchains, LeakedOn(call[t].d))]
    BY DEF DeviceRemoved
  <1>3. UNCHANGED lockVars
    BY DEF DeviceRemoved
  <1> QED
    BY <1>1, <1>2, <1>3 DEF CallsInv, Others, SameCall, Shape, Fields

(* A creation chooses among the ways its device has.                        *)
LEMMA ChosenDoes ==
  ASSUME CallsInv, NEW t \in Threads, Chosen(t)
  PROVE  /\ Others(t) /\ Shape(call'[t]) /\ SameCall(t) /\ UNCHANGED lockVars
         /\ call'[t].step \in {"plain"} \cup IF Hooked(call[t].d) THEN Wrappers(call[t].d) ELSE {}
         /\ call'[t].step \in {"plain", "fixed", "proxy"}
         /\ call'[t].old = IF call[t].d \in DOMAIN devices THEN Named(call[t].old) ELSE call[t].old
         /\ call'[t].new = call[t].new /\ call'[t].wrapper = call[t].wrapper
         /\ call'[t].left = call[t].left /\ call'[t].h = call[t].h
  <1>1. Shape(call[t])
    BY InsideIs DEF Chosen
  <1>2. PICK way \in {"plain"} \cup (IF Hooked(call[t].d) THEN Wrappers(call[t].d) ELSE {}) :
          call' = [call EXCEPT ![t].step = way,
                               ![t].old = IF call[t].d \in DOMAIN devices THEN Named(@) ELSE @]
    BY DEF Chosen
  <1>3. UNCHANGED lockVars
    BY DEF Chosen
  <1>4. way \in {"plain", "fixed", "proxy"}
    BY DEF Wrappers
  <1> QED
    BY <1>1, <1>2, <1>3, <1>4 DEF CallsInv, Others, SameCall, Shape, Fields

(* A destroy takes the swapchain's entry along, if it has one.              *)
LEMMA RemovedDoes ==
  ASSUME CallsInv, NEW t \in Threads, SwapchainRemoved(t)
  PROVE  /\ Others(t) /\ Shape(call'[t]) /\ SameCall(t) /\ UNCHANGED lockVars
         /\ call'[t].step = IF call[t].h \in DOMAIN swapchains THEN "drop" ELSE "destroy"
         /\ call'[t].left = Restrict(swapchains, {call[t].h} \cap DOMAIN swapchains)
         /\ call'[t].h = call[t].h
  <1>1. Shape(call[t])
    BY InsideIs DEF SwapchainRemoved
  <1>2. call' = [call EXCEPT ![t].step = IF call[t].h \in DOMAIN swapchains THEN "drop" ELSE "destroy",
                             ![t].left = Restrict(swapchains, {call[t].h} \cap DOMAIN swapchains)]
    BY DEF SwapchainRemoved
  <1>3. UNCHANGED lockVars
    BY DEF SwapchainRemoved
  <1> QED
    BY <1>1, <1>2, <1>3 DEF CallsInv, Others, SameCall, Shape, Fields

(* A wrapper that is taken out is dropped as its kind asks.                 *)
LEMMA TakenDoes ==
  ASSUME CallsInv, NEW t \in Threads, WrapperTaken(t)
  PROVE  /\ Others(t) /\ Shape(call'[t]) /\ SameCall(t) /\ UNCHANGED lockVars
         /\ call'[t].h \in DOMAIN call[t].left
         /\ call'[t].step = AfterWrapper(call[t].left[call'[t].h].wrapper)
         /\ call'[t].step = "queue" => Queueing(call[t].d) = {}
         /\ call'[t].left = Restrict(call[t].left, DOMAIN call[t].left \ {call'[t].h})
         /\ live' = Without({"proxy"}, call'[t].h)
  <1>1. Shape(call[t])
    BY InsideIs DEF WrapperTaken, Destroying
  <1>2. PICK h \in DOMAIN call[t].left :
          /\ AfterWrapper(call[t].left[h].wrapper) = "queue" => Queueing(call[t].d) = {}
          /\ live' = Without({"proxy"}, h)
          /\ call' = [call EXCEPT ![t].h = h, ![t].step = AfterWrapper(call[t].left[h].wrapper),
                                  ![t].left = Restrict(@, DOMAIN @ \ {h})]
    BY DEF WrapperTaken
  <1>3. UNCHANGED lockVars
    BY DEF WrapperTaken
  <1>4. /\ Others(t) /\ Shape(call'[t]) /\ SameCall(t) /\ call'[t].h = h
        /\ call'[t].step = AfterWrapper(call[t].left[h].wrapper)
        /\ call'[t].left = Restrict(call[t].left, DOMAIN call[t].left \ {h})
    BY <1>1, <1>2 DEF CallsInv, Others, SameCall, Shape, Fields
  <1> QED
    BY <1>2, <1>3, <1>4

(* The steps of each call, one fact each.                                   *)
LEMMA StepsAre ==
  /\ DOMAIN StepsOf = {"create_instance", "destroy_instance", "create_device", "destroy_device",
                       "create_surface", "destroy_surface", "create_swapchain",
                       "destroy_swapchain", "present", "acquire", "submit"}
  /\ StepsOf["create_instance"] = {"create"} /\ StepsOf["destroy_instance"] = {"destroy"}
  /\ StepsOf["create_device"] = {"create"}
  /\ StepsOf["destroy_device"] = {"remove", "drop", "queue", "destroy", "pool", "device"}
  /\ StepsOf["create_surface"] = {"before", "create", "layer", "surface"}
  /\ StepsOf["destroy_surface"] = {"forget", "layer", "destroy"}
  /\ StepsOf["create_swapchain"] =
       {"choose", "plain", "fixed", "proxy", "setup", "undo", "native", "insert"}
  /\ StepsOf["destroy_swapchain"] = {"remove", "drop", "queue", "destroy"}
  /\ StepsOf["present"] = {"route", "forward", "queue"}
  /\ StepsOf["acquire"] = {"wait", "queue"} /\ StepsOf["submit"] = {"wait", "queue"}
  BY DEF StepsOf

(* What it takes for a step to move a call on.                              *)
LEMMA MoveIs ==
  ASSUME CallsInv, NEW t \in Threads, Known(call[t]), Others(t), Shape(call'[t]), SameCall(t),
         call'[t].step \in StepsOf[call[t].op], UNCHANGED lockVars,
         Locks(call[t]) => at[t] = "running",
         call'[t].step = "queue" => Queueing(call[t].d) = {}
  PROVE  Moves(t)
  BY DEF Moves, Known, SameCall

(* A call that returns or leaves ends, with its lock if it has one.         *)
LEMMA EndIs ==
  ASSUME CallsInv, NEW t \in Threads, Known(call[t]),
         \/ Return(t) /\ Locks(call[t])
         \/ Leave(t) /\ ~Locks(call[t])
  PROVE  Ends(t)
  BY EndDoes DEF Ends, Return, Leave

(* How each action moves or ends its thread's call.                         *)
LEMMA SurfaceMoves ==
  ASSUME CallsInv, NEW t \in Threads,
         \/ LayerBefore(t) \/ SurfaceCreated(t) \/ LayerRegistered(t) \/ SurfaceRegistered(t)
         \/ SurfaceForgotten(t) \/ LayerForgotten(t) \/ SurfaceDestroyed(t)
  PROVE  Moves(t) \/ Ends(t)
  <1>1. CASE LayerBefore(t)
    <2>1. Known(call[t]) /\ call[t].op = "create_surface" /\ Shape(call[t])
      BY <1>1, AtIs DEF LayerBefore
    <2>2. Goto(t, "create")
      BY <1>1 DEF LayerBefore
    <2> QED
      BY <2>1, <2>2, GotoDoes, MoveIs, StepsAre DEF Locks
  <1>2. CASE SurfaceCreated(t)
    <2>1. Known(call[t]) /\ call[t].op = "create_surface" /\ Shape(call[t])
      BY <1>2, AtIs DEF SurfaceCreated
    <2>2. CASE Goto(t, "layer")
      BY <2>1, <2>2, GotoDoes, MoveIs, StepsAre DEF Locks
    <2>3. CASE Leave(t)
      BY <2>1, <2>3, EndIs DEF Locks
    <2> QED
      BY <1>2, <2>2, <2>3 DEF SurfaceCreated
  <1>3. CASE LayerRegistered(t)
    <2>1. Known(call[t]) /\ call[t].op = "create_surface" /\ Shape(call[t])
      BY <1>3, AtIs DEF LayerRegistered
    <2>2. Goto(t, "surface")
      BY <1>3 DEF LayerRegistered
    <2> QED
      BY <2>1, <2>2, GotoDoes, MoveIs, StepsAre DEF Locks
  <1>4. CASE SurfaceRegistered(t)
    <2>1. Known(call[t]) /\ call[t].op = "create_surface"
      BY <1>4, AtIs DEF SurfaceRegistered
    <2> QED
      BY <1>4, <2>1, EndIs DEF SurfaceRegistered, Locks
  <1>5. CASE SurfaceForgotten(t)
    <2>1. Known(call[t]) /\ call[t].op = "destroy_surface"
      BY <1>5, AtIs DEF SurfaceForgotten
    <2> QED
      BY <1>5, <2>1, ForgottenDoes, MoveIs, StepsAre DEF Locks
  <1>6. CASE LayerForgotten(t)
    <2>1. Known(call[t]) /\ call[t].op = "destroy_surface" /\ Shape(call[t])
      BY <1>6, AtIs DEF LayerForgotten
    <2>2. Goto(t, "destroy")
      BY <1>6 DEF LayerForgotten
    <2> QED
      BY <2>1, <2>2, GotoDoes, MoveIs, StepsAre DEF Locks
  <1>7. CASE SurfaceDestroyed(t)
    <2>1. Known(call[t]) /\ call[t].op = "destroy_surface"
      BY <1>7, AtIs DEF SurfaceDestroyed
    <2> QED
      BY <1>7, <2>1, EndIs DEF SurfaceDestroyed, Locks
  <1> QED
    BY <1>1, <1>2, <1>3, <1>4, <1>5, <1>6, <1>7

(* The steps of instances and devices move a call on or end it.             *)
LEMMA DeviceMoves ==
  ASSUME CallsInv, NEW t \in Threads,
         \/ InstanceCreated(t) \/ InstanceDestroyed(t) \/ DeviceCreated(t)
         \/ DeviceRemoved(t) \/ GeneratorDropped(t) \/ PoolDestroyed(t) \/ DeviceDestroyed(t)
  PROVE  Moves(t) \/ Ends(t)
  <1>1. CASE InstanceCreated(t)
    <2>1. Known(call[t]) /\ call[t].op = "create_instance"
      BY <1>1, InsideIs DEF InstanceCreated
    <2> QED
      BY <1>1, <2>1, EndIs DEF InstanceCreated, Locks
  <1>2. CASE InstanceDestroyed(t)
    <2>1. Known(call[t]) /\ call[t].op = "destroy_instance"
      BY <1>2, InsideIs DEF InstanceDestroyed
    <2> QED
      BY <1>2, <2>1, EndIs DEF InstanceDestroyed, Locks
  <1>3. CASE DeviceCreated(t)
    <2>1. Known(call[t]) /\ call[t].op = "create_device"
      BY <1>3, InsideIs DEF DeviceCreated
    <2> QED
      BY <1>3, <2>1, EndIs DEF DeviceCreated, Locks
  <1>4. CASE DeviceRemoved(t)
    <2>1. Known(call[t]) /\ call[t].op = "destroy_device" /\ at[t] = "running"
      BY <1>4, InsideIs DEF DeviceRemoved
    <2> QED
      BY <1>4, <2>1, DeviceRemovedDoes, MoveIs, StepsAre
  <1>5. CASE GeneratorDropped(t)
    <2>1. Known(call[t]) /\ call[t].op = "destroy_device" /\ Shape(call[t]) /\ at[t] = "running"
      BY <1>5, InsideIs DEF GeneratorDropped
    <2>2. Goto(t, "pool")
      BY <1>5 DEF GeneratorDropped
    <2> QED
      BY <2>1, <2>2, GotoDoes, MoveIs, StepsAre DEF Locks
  <1>6. CASE PoolDestroyed(t)
    <2>1. Known(call[t]) /\ call[t].op = "destroy_device" /\ Shape(call[t]) /\ at[t] = "running"
      BY <1>6, InsideIs DEF PoolDestroyed
    <2>2. Goto(t, "device")
      BY <1>6 DEF PoolDestroyed
    <2> QED
      BY <2>1, <2>2, GotoDoes, MoveIs, StepsAre DEF Locks
  <1>7. CASE DeviceDestroyed(t)
    <2>1. Known(call[t]) /\ call[t].op = "destroy_device"
      BY <1>7, InsideIs DEF DeviceDestroyed
    <2> QED
      BY <1>7, <2>1, EndIs DEF DeviceDestroyed, Locks
  <1> QED
    BY <1>1, <1>2, <1>3, <1>4, <1>5, <1>6, <1>7

(* So do those of a creation of a swapchain,                                *)
LEMMA CreateMoves ==
  ASSUME CallsInv, NEW t \in Threads,
         \/ Chosen(t) \/ ProxyTried(t) \/ FixedCreated(t) \/ FixedSetUp(t) \/ FixedUndone(t)
         \/ Unwrapped(t) \/ Inserted(t)
  PROVE  Moves(t) \/ Ends(t)
  <1> DEFINE Here == Known(call[t]) /\ call[t].op = "create_swapchain" /\ Shape(call[t]) /\ at[t] = "running"
  <1>a. ASSUME Here, NEW step \in {"fixed", "native", "undo", "insert"}, Goto(t, step)
        PROVE  Moves(t)
    BY <1>a, GotoDoes, MoveIs, StepsAre
  <1>b. ASSUME Here, NEW h, NEW wrapper, NEW step \in {"setup", "undo", "insert"},
               Getting(t, h, wrapper, step)
        PROVE  Moves(t)
    BY <1>b, GettingDoes, MoveIs, StepsAre
  <1>c. ASSUME Here, Return(t)
        PROVE  Ends(t)
    BY <1>c, EndIs DEF Locks
  <1>1. CASE Chosen(t)
    <2>1. Here
      BY <1>1, InsideIs DEF Chosen
    <2> QED
      BY <1>1, <2>1, ChosenDoes, MoveIs, StepsAre
  <1>2. CASE ProxyTried(t)
    <2>1. Here
      BY <1>2, InsideIs DEF ProxyTried
    <2> QED
      BY <1>2, <2>1, <1>a, <1>b DEF ProxyTried
  <1>3. CASE FixedCreated(t)
    <2>1. Here
      BY <1>3, InsideIs DEF FixedCreated
    <2> QED
      BY <1>3, <2>1, <1>a, <1>b DEF FixedCreated, Driver
  <1>4. CASE FixedSetUp(t)
    <2>1. Here
      BY <1>4, InsideIs DEF FixedSetUp
    <2> QED
      BY <1>4, <2>1, <1>a, <1>b DEF FixedSetUp
  <1>5. CASE FixedUndone(t)
    <2>1. Here
      BY <1>5, InsideIs DEF FixedUndone
    <2> QED
      BY <1>5, <2>1, <1>a DEF FixedUndone
  <1>6. CASE Unwrapped(t)
    <2>1. Here
      BY <1>6, InsideIs DEF Unwrapped
    <2> QED
      BY <1>6, <2>1, <1>b, <1>c DEF Unwrapped, Driver
  <1>7. CASE Inserted(t)
    <2>1. Here
      BY <1>7, InsideIs DEF Inserted
    <2> QED
      BY <1>7, <2>1, <1>c DEF Inserted
  <1> QED
    BY <1>1, <1>2, <1>3, <1>4, <1>5, <1>6, <1>7

(* those of a destroy of one,                                               *)
LEMMA DestroyMoves ==
  ASSUME CallsInv, NEW t \in Threads,
         \/ SwapchainRemoved(t) \/ WrapperTaken(t) \/ FixedDropped(t)
         \/ SwapchainDestroyed(t) \/ ProxyDestroyed(t)
  PROVE  Moves(t) \/ Ends(t)
  <1> DEFINE Here ==
        /\ Known(call[t]) /\ call[t].op \in {"destroy_swapchain", "destroy_device"}
        /\ Shape(call[t]) /\ at[t] = "running"
  <1>1. CASE SwapchainRemoved(t)
    <2>1. Here
      BY <1>1, InsideIs DEF SwapchainRemoved
    <2> QED
      BY <1>1, <2>1, RemovedDoes, MoveIs, StepsAre
  <1>2. CASE WrapperTaken(t)
    <2>1. Here
      BY <1>2, InsideIs DEF WrapperTaken, Destroying
    <2>2. call'[t].step \in {"queue", "drop", "destroy"}
      BY <1>2, TakenDoes DEF AfterWrapper
    <2>3. /\ Others(t) /\ Shape(call'[t]) /\ SameCall(t) /\ UNCHANGED lockVars
          /\ call'[t].step = "queue" => Queueing(call[t].d) = {}
      BY <1>2, TakenDoes
    <2> QED
      BY <2>1, <2>2, <2>3, MoveIs, StepsAre
  <1>3. CASE FixedDropped(t)
    <2>1. Here
      BY <1>3, InsideIs DEF FixedDropped, Destroying
    <2>2. Goto(t, "destroy")
      BY <1>3 DEF FixedDropped
    <2> QED
      BY <2>1, <2>2, GotoDoes, MoveIs, StepsAre
  <1>4. CASE SwapchainDestroyed(t)
    <2>1. Here
      BY <1>4, InsideIs DEF SwapchainDestroyed, Destroying
    <2>2. CASE call[t].op = "destroy_device"
      <3>1. Goto(t, "drop")
        BY <1>4, <2>2 DEF SwapchainDestroyed
      <3> QED
        BY <2>1, <2>2, <3>1, GotoDoes, MoveIs, StepsAre
    <2>3. CASE call[t].op # "destroy_device"
      BY <1>4, <2>1, <2>3, EndIs DEF SwapchainDestroyed, Locks
    <2> QED
      BY <2>2, <2>3
  <1>5. CASE ProxyDestroyed(t)
    <2>1. Here
      BY <1>5, InsideIs DEF ProxyDestroyed
    <2> QED
      BY <1>5, <2>1, EndIs DEF ProxyDestroyed, Locks
  <1> QED
    BY <1>1, <1>2, <1>3, <1>4, <1>5

(* and those of presents, acquires and submits.                             *)
LEMMA PresentMoves ==
  ASSUME CallsInv, NEW t \in Threads,
         \/ PresentInvalidated(t) \/ PresentForwarded(t) \/ ForwardDone(t)
         \/ PresentLocked(t) \/ PresentDone(t)
         \/ Acquired(t) \/ Submitting(t) \/ QueueDone(t)
  PROVE  Moves(t) \/ Ends(t)
  <1> DEFINE Here(ops) == Known(call[t]) /\ call[t].op \in ops /\ Shape(call[t])
  <1>a. ASSUME Here({"present", "acquire", "submit"}), LockQueue(t),
               call[t].op = "present" => at[t] = "running"
        PROVE  Moves(t)
    BY <1>a, LockQueueDoes, MoveIs, StepsAre DEF Locks
  <1>b. ASSUME Here({"acquire", "submit"}), Leave(t)
        PROVE  Ends(t)
    BY <1>b, EndIs DEF Locks
  <1>c. ASSUME Here({"present"}), Return(t)
        PROVE  Ends(t)
    BY <1>c, EndIs DEF Locks
  <1>1. CASE PresentInvalidated(t)
    BY <1>1, <1>c, InsideIs DEF PresentInvalidated
  <1>2. CASE PresentForwarded(t)
    <2>1. Here({"present"}) /\ Goto(t, "forward") /\ at[t] = "running"
      BY <1>2, InsideIs DEF PresentForwarded
    <2> QED
      BY <2>1, GotoDoes, MoveIs, StepsAre DEF Locks
  <1>3. CASE PresentLocked(t)
    BY <1>3, <1>a, InsideIs DEF PresentLocked
  <1>4. CASE PresentDone(t)
    BY <1>4, <1>c, InsideIs DEF PresentDone
  <1>5. CASE Acquired(t)
    BY <1>5, <1>a, <1>b, AtIs DEF Acquired
  <1>6. CASE Submitting(t)
    BY <1>6, <1>a, <1>b, AtIs DEF Submitting
  <1>7. CASE QueueDone(t)
    BY <1>7, <1>b, AtIs DEF QueueDone
  <1>8. CASE ForwardDone(t)
    BY <1>8, <1>c, InsideIs DEF ForwardDone
  <1> QED
    BY <1>1, <1>2, <1>3, <1>4, <1>5, <1>6, <1>7, <1>8

(* The calls the game begins.                                               *)
LEMMA NewCallIs ==
  ASSUME NEW op, NEW step, NEW d, NEW alone, NEW shared
  PROVE  LET c == NewCall(op, step, d, alone, shared)
         IN /\ Shape(c) /\ c.op = op /\ c.step = step /\ c.d = d
            /\ c.alone = alone /\ c.shared = shared /\ c.s = None /\ c.h = None
            /\ c.old = None /\ c.new = None /\ c.hs = {} /\ c.wrapper = "none"
            /\ c.left = <<>> /\ ~c.shared_layer
  BY DEF NewCall, Shape, Fields

(* A call that takes the lock begins by asking for it.                      *)
LEMMA EnterBegins ==
  ASSUME CallsInv, NEW t \in Threads, NEW c, Enter(t, c), Known(c), Locks(c), AtFirst(c),
         c.left = <<>>
  PROVE  Begins(t) /\ call'[t] = c
  BY BeginDoes DEF Enter, Begins

(* One that does not begins at its first step.                              *)
LEMMA StartBegins ==
  ASSUME CallsInv, NEW t \in Threads, NEW c, Start(t, c), Known(c), ~Locks(c), AtFirst(c),
         c.left = <<>>
  PROVE  Begins(t) /\ call'[t] = c
  BY BeginDoes DEF Start, Begins

(* What the game says when it creates an instance, and what it has then.    *)
LEMMA CreateInstanceDoes ==
  ASSUME CallsInv, NEW t \in Threads, CreateInstance(t)
  PROVE  /\ Begins(t) /\ call'[t].op = "create_instance"
         /\ call'[t].alone = {Instance} /\ call'[t].shared = {} /\ call'[t].left = <<>>
         /\ Instance \notin owned
         /\ UNCHANGED <<driver, tables, registry, game>>
  <1> DEFINE c == NewCall("create_instance", "create", None, {Instance}, {})
  <1>1. Enter(t, c) /\ UNCHANGED <<driver, tables, registry, game>> /\ Instance \notin owned
    BY DEF CreateInstance
  <1>2. /\ Shape(c) /\ c.op = "create_instance" /\ c.step = "create"
        /\ c.alone = {Instance} /\ c.shared = {} /\ c.left = <<>>
    BY NewCallIs
  <1> HIDE DEF c
  <1> QED
    BY <1>1, <1>2, EnterBegins, StepsAre DEF Known, Locks, AtFirst

(* The last thing a game destroys is its instance.                          *)
LEMMA DestroyInstanceDoes ==
  ASSUME CallsInv, NEW t \in Threads, DestroyInstance(t)
  PROVE  /\ Begins(t) /\ call'[t].op = "destroy_instance"
         /\ call'[t].alone = {Instance} /\ call'[t].shared = {} /\ call'[t].left = <<>>
         /\ owned = {Instance} /\ owned' = {}
         /\ UNCHANGED <<driver, tables, registry, chains>>
  <1> DEFINE c == NewCall("destroy_instance", "destroy", None, {Instance}, {})
  <1>1. /\ Enter(t, c) /\ UNCHANGED <<driver, tables, registry, chains>>
        /\ owned = {Instance} /\ owned' = {}
    BY DEF DestroyInstance
  <1>2. /\ Shape(c) /\ c.op = "destroy_instance" /\ c.step = "destroy"
        /\ c.alone = {Instance} /\ c.shared = {} /\ c.left = <<>>
    BY NewCallIs
  <1> HIDE DEF c
  <1> QED
    BY <1>1, <1>2, EnterBegins, StepsAre DEF Known, Locks, AtFirst

(* It creates a device it has not got, of its instance.                     *)
LEMMA CreateDeviceDoes ==
  ASSUME CallsInv, NEW t \in Threads, CreateDevice(t)
  PROVE  /\ Begins(t) /\ call'[t].op = "create_device"
         /\ call'[t].d \in Devices \ owned
         /\ call'[t].alone = {call'[t].d} /\ call'[t].shared = {Instance}
         /\ call'[t].left = <<>> /\ Instance \in owned
         /\ UNCHANGED <<driver, tables, registry, game>>
  <1>1. PICK d \in Devices \ owned :
          Enter(t, NewCall("create_device", "create", d, {d}, {Instance}))
    BY DEF CreateDevice
  <1> DEFINE c == NewCall("create_device", "create", d, {d}, {Instance})
  <1>2. /\ Shape(c) /\ c.op = "create_device" /\ c.step = "create" /\ c.d = d
        /\ c.alone = {d} /\ c.shared = {Instance} /\ c.left = <<>>
    BY NewCallIs
  <1>3. UNCHANGED <<driver, tables, registry, game>> /\ Instance \in owned /\ Enter(t, c)
    BY <1>1 DEF CreateDevice
  <1> HIDE DEF c
  <1> QED
    BY <1>2, <1>3, EnterBegins, StepsAre DEF Known, Locks, AtFirst

(* It destroys a device of its own, and may leave swapchains with it.       *)
LEMMA DestroyDeviceDoes ==
  ASSUME CallsInv, NEW t \in Threads, DestroyDevice(t)
  PROVE  \E d \in owned \cap Devices :
           LET leaked == {h \in DOMAIN chains : chains[h].d = d}
           IN /\ Begins(t) /\ call'[t].op = "destroy_device" /\ call'[t].step = "remove"
              /\ call'[t].d = d
              /\ call'[t].alone = {d} \cup leaked \cup {chains[h].s : h \in leaked}
              /\ call'[t].shared = {Instance} /\ call'[t].left = <<>>
              /\ d \in DOMAIN devices \/ leaked = {}
              /\ owned' = owned \ {d}
              /\ chains' = Restrict(chains, DOMAIN chains \ leaked)
              /\ UNCHANGED <<driver, tables, registry>>
  <1>1. PICK d \in owned \cap Devices :
          LET leaked == {h \in DOMAIN chains : chains[h].d = d}
          IN /\ d \in DOMAIN devices \/ leaked = {}
             /\ Enter(t, NewCall("destroy_device", "remove", d,
                                 {d} \cup leaked \cup {chains[h].s : h \in leaked}, {Instance}))
             /\ owned' = owned \ {d}
             /\ chains' = Restrict(chains, DOMAIN chains \ leaked)
             /\ UNCHANGED <<driver, tables, registry>>
    BY DEF DestroyDevice
  <1> DEFINE leaked == {h \in DOMAIN chains : chains[h].d = d}
             alone == {d} \cup leaked \cup {chains[h].s : h \in leaked}
             c == NewCall("destroy_device", "remove", d, alone, {Instance})
  <1>2. /\ Shape(c) /\ c.op = "destroy_device" /\ c.step = "remove" /\ c.d = d
        /\ c.alone = alone /\ c.shared = {Instance} /\ c.left = <<>>
    BY NewCallIs
  <1>3. Enter(t, c)
    BY <1>1
  <1> HIDE DEF c
  <1>4. /\ Begins(t) /\ call'[t].op = "destroy_device" /\ call'[t].step = "remove"
        /\ call'[t].d = d /\ call'[t].alone = alone
        /\ call'[t].shared = {Instance} /\ call'[t].left = <<>>
    BY <1>2, <1>3, EnterBegins, StepsAre DEF Known, Locks, AtFirst
  <1> QED
    BY <1>1, <1>4

(* It creates a surface it has not got.                                     *)
LEMMA CreateSurfaceDoes ==
  ASSUME CallsInv, NEW t \in Threads, CreateSurface(t)
  PROVE  /\ Begins(t) /\ call'[t].op = "create_surface" /\ call'[t].step = "before"
         /\ call'[t].s \in Surfaces \ owned
         /\ call'[t].alone = {call'[t].s} /\ call'[t].shared = {Instance}
         /\ call'[t].left = <<>> /\ Instance \in owned
         /\ beside' = IF SameLayer("destroy_surface", call'[t].s) = {} THEN beside \ {call'[t].s}
                      ELSE beside \cup {call'[t].s}
         /\ UNCHANGED <<driver, tables, registry, owned, chains>>
  <1>1. PICK s \in Surfaces \ owned :
          /\ Start(t, [NewCall("create_surface", "before", None, {s}, {Instance}) EXCEPT !.s = s])
          /\ beside' = IF SameLayer("destroy_surface", s) = {} THEN beside \ {s} ELSE beside \cup {s}
    BY DEF CreateSurface
  <1> DEFINE c == [NewCall("create_surface", "before", None, {s}, {Instance}) EXCEPT !.s = s]
  <1>2. /\ Shape(c) /\ c.op = "create_surface" /\ c.step = "before" /\ c.s = s
        /\ c.alone = {s} /\ c.shared = {Instance} /\ c.left = <<>>
    BY DEF NewCall, Shape, Fields
  <1>3. UNCHANGED <<driver, tables, registry, owned, chains>> /\ Instance \in owned /\ Start(t, c)
    BY <1>1 DEF CreateSurface
  <1> HIDE DEF c
  <1>4. Begins(t) /\ call'[t] = c
    BY <1>2, <1>3, StartBegins, StepsAre DEF Known, Locks, AtFirst
  <1> QED
    BY <1>1, <1>2, <1>3, <1>4

(* It destroys a surface without swapchains.                                *)
LEMMA DestroySurfaceDoes ==
  ASSUME CallsInv, NEW t \in Threads, DestroySurface(t)
  PROVE  /\ Begins(t) /\ call'[t].op = "destroy_surface" /\ call'[t].step = "forget"
         /\ call'[t].s \in owned \cap Surfaces
         /\ call'[t].alone = {call'[t].s} /\ call'[t].shared = {Instance}
         /\ call'[t].left = <<>>
         /\ \A h \in DOMAIN chains : chains[h].s # call'[t].s
         /\ owned' = owned \ {call'[t].s}
         /\ beside' = beside \cup {call[u].s : u \in SameLayer("create_surface", call'[t].s)}
         /\ UNCHANGED <<driver, tables, registry, chains>>
  <1>1. PICK s \in owned \cap Surfaces :
          /\ \A h \in DOMAIN chains : chains[h].s # s
          /\ Start(t, [NewCall("destroy_surface", "forget", None, {s}, {Instance}) EXCEPT !.s = s])
          /\ owned' = owned \ {s}
          /\ beside' = beside \cup {call[u].s : u \in SameLayer("create_surface", s)}
          /\ UNCHANGED <<driver, tables, registry, chains>>
    BY DEF DestroySurface
  <1> DEFINE c == [NewCall("destroy_surface", "forget", None, {s}, {Instance}) EXCEPT !.s = s]
  <1>2. /\ Shape(c) /\ c.op = "destroy_surface" /\ c.step = "forget" /\ c.s = s
        /\ c.alone = {s} /\ c.shared = {Instance} /\ c.left = <<>>
    BY DEF NewCall, Shape, Fields
  <1>3. Start(t, c)
    BY <1>1
  <1> HIDE DEF c
  <1>4. Begins(t) /\ call'[t] = c
    BY <1>2, <1>3, StartBegins, StepsAre DEF Known, Locks, AtFirst
  <1>5. call'[t].s = s
    BY <1>2, <1>4
  <1>6. beside' = beside \cup {call[u].s : u \in SameLayer("create_surface", call'[t].s)}
    BY <1>1, <1>5 DEF SameLayer
  <1> QED
    BY <1>1, <1>2, <1>4, <1>5, <1>6

(* It creates a swapchain for a surface, in place of an old one or not.     *)
LEMMA CreateSwapchainDoes ==
  ASSUME CallsInv, NEW t \in Threads, CreateSwapchain(t)
  PROVE  LET c == call'[t]
             mine == {h \in DOMAIN chains : chains[h].s = c.s}
         IN /\ Begins(t) /\ c.op = "create_swapchain" /\ c.step = "choose"
            /\ c.d \in owned \cap Devices /\ c.s \in owned \cap Surfaces
            /\ c.alone = {c.s} \cup ({c.old} \ {None}) /\ c.shared = {c.d} /\ c.left = <<>>
            /\ c.wrapper = "none"
            /\ c.old = None \/ (c.old \in mine /\ chains[c.old].d = c.d /\ ~chains[c.old].retired)
            /\ \A h \in mine \ {c.old} : Defers /\ chains[h].retired
            /\ chains' = [h \in DOMAIN chains |-> [chains[h] EXCEPT !.retired = @ \/ h = c.old]]
            /\ UNCHANGED <<driver, tables, registry, owned>>
  <1>1. PICK d \in owned \cap Devices, s \in owned \cap Surfaces, old \in {None} \cup DOMAIN chains :
          LET mine == {h \in DOMAIN chains : chains[h].s = s}
          IN /\ old = None \/ (old \in mine /\ chains[old].d = d /\ ~chains[old].retired)
             /\ \A h \in mine \ {old} : Defers /\ chains[h].retired
             /\ Enter(t, [NewCall("create_swapchain", "choose", d, {s} \cup ({old} \ {None}), {d})
                            EXCEPT !.s = s, !.old = old])
             /\ chains' = [h \in DOMAIN chains |-> [chains[h] EXCEPT !.retired = @ \/ h = old]]
             /\ UNCHANGED <<driver, tables, registry, owned, beside>>
    BY DEF CreateSwapchain
  <1> DEFINE c == [NewCall("create_swapchain", "choose", d, {s} \cup ({old} \ {None}), {d})
                     EXCEPT !.s = s, !.old = old]
  <1>2. /\ Shape(c) /\ c.op = "create_swapchain" /\ c.step = "choose" /\ c.d = d /\ c.s = s
        /\ c.old = old /\ c.alone = {s} \cup ({old} \ {None}) /\ c.shared = {d} /\ c.left = <<>>
        /\ c.wrapper = "none"
    BY DEF NewCall, Shape, Fields
  <1>3. Enter(t, c)
    BY <1>1
  <1> HIDE DEF c
  <1>4. Begins(t) /\ call'[t] = c
    BY <1>2, <1>3, EnterBegins, StepsAre DEF Known, Locks, AtFirst
  <1> QED
    BY <1>1, <1>2, <1>4

(* It destroys a swapchain and has it no more.                              *)
LEMMA DestroySwapchainDoes ==
  ASSUME CallsInv, NEW t \in Threads, DestroySwapchain(t)
  PROVE  LET c == call'[t]
         IN /\ Begins(t) /\ c.op = "destroy_swapchain" /\ c.step = "remove"
            /\ c.h \in DOMAIN chains /\ c.d = chains[c.h].d
            /\ c.alone = {c.h, chains[c.h].s} /\ c.shared = {c.d} /\ c.left = <<>>
            /\ chains' = Restrict(chains, DOMAIN chains \ {c.h})
            /\ UNCHANGED <<driver, tables, registry, owned>>
  <1>1. PICK h \in DOMAIN chains :
          /\ Enter(t, [NewCall("destroy_swapchain", "remove", chains[h].d, {h, chains[h].s}, {chains[h].d})
                         EXCEPT !.h = h])
          /\ chains' = Restrict(chains, DOMAIN chains \ {h})
          /\ UNCHANGED <<driver, tables, registry, owned>>
    BY DEF DestroySwapchain
  <1> DEFINE c == [NewCall("destroy_swapchain", "remove", chains[h].d, {h, chains[h].s}, {chains[h].d})
                     EXCEPT !.h = h]
  <1>2. /\ Shape(c) /\ c.op = "destroy_swapchain" /\ c.step = "remove" /\ c.d = chains[h].d
        /\ c.h = h /\ c.alone = {h, chains[h].s} /\ c.shared = {chains[h].d} /\ c.left = <<>>
    BY DEF NewCall, Shape, Fields
  <1>3. Enter(t, c)
    BY <1>1
  <1> HIDE DEF c
  <1>4. Begins(t) /\ call'[t] = c
    BY <1>2, <1>3, EnterBegins, StepsAre DEF Known, Locks, AtFirst
  <1> QED
    BY <1>1, <1>2, <1>4

(* It presents to swapchains of one device, on a queue of its own use.      *)
LEMMA PresentDoes ==
  ASSUME CallsInv, NEW t \in Threads, Present(t)
  PROVE  LET c == call'[t]
         IN /\ Begins(t) /\ c.op = "present" /\ c.step = "route"
            /\ c.d \in owned \cap Devices
            /\ c.hs # {} /\ c.hs \subseteq {h \in DOMAIN chains : chains[h].d = c.d}
            /\ \E first \in c.hs : c.wrapper = Lookup(first).wrapper
            /\ c.alone = c.hs \cup {Queue(c.d)} /\ c.shared = {c.d} /\ c.left = <<>>
            /\ UNCHANGED <<driver, tables, registry, game>>
  <1>1. PICK d \in owned \cap Devices :
          \E hs \in SUBSET {h \in DOMAIN chains : chains[h].d = d} \ {{}} :
            \E first \in hs :
              Enter(t, [NewCall("present", "route", d, hs \cup {Queue(d)}, {d})
                          EXCEPT !.hs = hs, !.wrapper = Lookup(first).wrapper])
    BY DEF Present
  <1>2. PICK hs \in SUBSET {h \in DOMAIN chains : chains[h].d = d} \ {{}} :
          \E first \in hs :
            Enter(t, [NewCall("present", "route", d, hs \cup {Queue(d)}, {d})
                        EXCEPT !.hs = hs, !.wrapper = Lookup(first).wrapper])
    BY <1>1
  <1>3. PICK first \in hs :
          Enter(t, [NewCall("present", "route", d, hs \cup {Queue(d)}, {d})
                      EXCEPT !.hs = hs, !.wrapper = Lookup(first).wrapper])
    BY <1>2
  <1> DEFINE c == [NewCall("present", "route", d, hs \cup {Queue(d)}, {d})
                     EXCEPT !.hs = hs, !.wrapper = Lookup(first).wrapper]
  <1>4. /\ Shape(c) /\ c.op = "present" /\ c.step = "route" /\ c.d = d /\ c.hs = hs
        /\ c.wrapper = Lookup(first).wrapper
        /\ c.alone = hs \cup {Queue(d)} /\ c.shared = {d} /\ c.left = <<>>
    BY DEF NewCall, Shape, Fields
  <1>5. Enter(t, c)
    BY <1>3
  <1> HIDE DEF c
  <1>6. Begins(t) /\ call'[t] = c
    BY <1>4, <1>5, EnterBegins, StepsAre DEF Known, Locks, AtFirst
  <1>7. UNCHANGED <<driver, tables, registry, game>>
    BY DEF Present
  <1> QED
    BY <1>1, <1>2, <1>4, <1>6, <1>7

(* It acquires from a swapchain it has.                                     *)
LEMMA AcquireDoes ==
  ASSUME CallsInv, NEW t \in Threads, Acquire(t)
  PROVE  LET c == call'[t]
         IN /\ Begins(t) /\ c.op = "acquire" /\ c.step = "wait"
            /\ \E h \in DOMAIN chains :
                 /\ c.hs = {h} /\ c.d = chains[h].d /\ c.wrapper = Lookup(h).wrapper
                 /\ c.alone = {h} /\ c.shared = {c.d} /\ c.left = <<>>
            /\ UNCHANGED <<driver, tables, registry, game>>
  <1>1. PICK h \in DOMAIN chains :
          /\ Start(t, [NewCall("acquire", "wait", chains[h].d, {h}, {chains[h].d})
                         EXCEPT !.hs = {h}, !.wrapper = Lookup(h).wrapper])
          /\ UNCHANGED <<driver, tables, registry, game>>
    BY DEF Acquire
  <1> DEFINE c == [NewCall("acquire", "wait", chains[h].d, {h}, {chains[h].d})
                     EXCEPT !.hs = {h}, !.wrapper = Lookup(h).wrapper]
  <1>2. /\ Shape(c) /\ c.op = "acquire" /\ c.step = "wait" /\ c.d = chains[h].d /\ c.hs = {h}
        /\ c.wrapper = Lookup(h).wrapper
        /\ c.alone = {h} /\ c.shared = {chains[h].d} /\ c.left = <<>>
    BY DEF NewCall, Shape, Fields
  <1>3. Start(t, c)
    BY <1>1
  <1> HIDE DEF c
  <1>4. Begins(t) /\ call'[t] = c
    BY <1>2, <1>3, StartBegins, StepsAre DEF Known, Locks, AtFirst
  <1> QED
    BY <1>1, <1>2, <1>4

(* It submits on a queue of its own use.                                    *)
LEMMA SubmitDoes ==
  ASSUME CallsInv, NEW t \in Threads, Submit(t)
  PROVE  LET c == call'[t]
         IN /\ Begins(t) /\ c.op = "submit" /\ c.step = "wait"
            /\ c.d \in owned \cap Devices
            /\ c.alone = {Queue(c.d)} /\ c.shared = {c.d} /\ c.left = <<>>
            /\ UNCHANGED <<driver, tables, registry, game>>
  <1>1. PICK d \in owned \cap Devices :
          /\ Start(t, NewCall("submit", "wait", d, {Queue(d)}, {d}))
          /\ UNCHANGED <<driver, tables, registry, game>>
    BY DEF Submit
  <1> DEFINE c == NewCall("submit", "wait", d, {Queue(d)}, {d})
  <1>2. /\ Shape(c) /\ c.op = "submit" /\ c.step = "wait" /\ c.d = d
        /\ c.alone = {Queue(d)} /\ c.shared = {d} /\ c.left = <<>>
    BY NewCallIs
  <1>3. Start(t, c)
    BY <1>1
  <1> HIDE DEF c
  <1>4. Begins(t) /\ call'[t] = c
    BY <1>2, <1>3, StartBegins, StepsAre DEF Known, Locks, AtFirst
  <1> QED
    BY <1>1, <1>2, <1>4

(* Whatever a thread does, its call rests, begins, moves on or ends.        *)
LEMMA PlaySkeleton ==
  ASSUME CallsInv, NEW t \in Threads, Play(t) \/ Woken(t)
  PROVE  Rests(t) \/ Begins(t)
  <1>1. CASE Ask(t) \/ Woken(t)
    BY <1>1 DEF Ask, Woken, Rests
  <1>2. CASE CreateInstance(t) \/ DestroyInstance(t) \/ CreateDevice(t) \/ DestroyDevice(t)
    BY <1>2, CreateInstanceDoes, DestroyInstanceDoes, CreateDeviceDoes, DestroyDeviceDoes
  <1>3. CASE CreateSurface(t) \/ DestroySurface(t) \/ CreateSwapchain(t) \/ DestroySwapchain(t)
    BY <1>3, CreateSurfaceDoes, DestroySurfaceDoes, CreateSwapchainDoes, DestroySwapchainDoes
  <1>4. CASE Present(t) \/ Acquire(t) \/ Submit(t)
    BY <1>4, PresentDoes, AcquireDoes, SubmitDoes
  <1> QED
    BY <1>1, <1>2, <1>3, <1>4 DEF Play

(* Every step of the layer rests, begins, moves or ends a call.             *)
LEMMA Skeleton ==
  ASSUME CallsInv, NEW t \in Threads, Play(t) \/ Step(t) \/ Woken(t)
  PROVE  Rests(t) \/ Begins(t) \/ Moves(t) \/ Ends(t)
  <1>1. CASE Step(t)
    <2>1. CASE Locking(t)
      BY <2>1 DEF Locking, Rests
    <2> QED
      BY <1>1, <2>1, SurfaceMoves, DeviceMoves, CreateMoves, DestroyMoves, PresentMoves DEF Step
  <1> QED
    BY <1>1, PlaySkeleton

(* Every step of the layer is a step of the lock, or leaves it alone.       *)
LEMMA LockStep ==
  ASSUME CallsInv, NEW t \in Threads, Rests(t) \/ Begins(t) \/ Moves(t) \/ Ends(t)
  PROVE  [Next]_lockVars
  BY DEF Rests, Begins, Moves, Ends, Next

(* What the lock's operations do to a thread and to the others.             *)
LEMMA DropDoes ==
  ASSUME LockInv, NEW t \in Threads, Drop(t)
  PROVE  /\ at'[t] = "running" /\ guards'[t] = guards[t] - 1
         /\ \A u \in Threads : u # t =>
              /\ guards'[u] = guards[u]
              /\ at'[u] = "running" <=> at[u] = "running"
  <1>1. /\ at \in [Threads -> {"running", "testing", "waiting"}]
        /\ guards \in [Threads -> Nat] /\ at[t] = "running"
        /\ guards' = [guards EXCEPT ![t] = @ - 1]
        /\ NotifyOne \/ at' = at
    BY DEF LockInv, TypeOK, Drop
  <1>2. \A u \in Threads : (at'[u] = "running" <=> at[u] = "running")
    <2>1. CASE at' = at
      BY <2>1
    <2>2. CASE NotifyOne /\ at' # at
      <3>1. PICK w \in Waiting : at' = [at EXCEPT ![w] = "testing"]
        BY <2>2 DEF NotifyOne
      <3> QED
        BY <1>1, <3>1 DEF Waiting
    <2> QED
      BY <1>1, <2>1, <2>2
  <1> QED
    BY <1>1, <1>2

(* These four keep what is known of the calls.                              *)
LEMMA CallsKept ==
  ASSUME CallsInv, LockInv, NEW t \in Threads, Rests(t) \/ Begins(t) \/ Moves(t) \/ Ends(t)
  PROVE  CallsInv'
  <1>1. /\ at \in [Threads -> {"running", "testing", "waiting"}]
        /\ guards \in [Threads -> Nat]
    BY DEF LockInv, TypeOK
  <1>2. \A u \in Threads : Placed(u)
    BY DEF CallsInv
  <1>3. CASE Rests(t)
    <2>1. call' = call /\ call = [u \in Threads |-> call[u]]
      BY <1>3 DEF Rests, CallsInv
    <2>2. ASSUME NEW u \in Threads
          PROVE  Placed(u)'
      BY <1>1, <1>2, <1>3, <2>1
         DEF Rests, Placed, Wait, Take, SpuriousWake, lockVars, vars
    <2> QED
      BY <2>1, <2>2 DEF CallsInv
  <1>4. CASE Begins(t)
    <2>1. \A u \in Threads : u # t => Placed(u)'
      BY <1>1, <1>2, <1>4 DEF Begins, Others, Placed, Call, lockVars, vars
    <2>2. Placed(t)'
      BY <1>1, <1>2, <1>4, IdleFields DEF Begins, Placed, Call, lockVars, vars
    <2> QED
      BY <1>4, <2>1, <2>2 DEF CallsInv, Begins, Others
  <1>5. CASE Moves(t)
    <2>1. \A u \in Threads : u # t => Placed(u)'
      BY <1>1, <1>2, <1>5 DEF Moves, Others, Placed, lockVars, vars
    <2>2. Placed(t)'
      BY <1>1, <1>2, <1>5 DEF Moves, SameCall, Placed, Locks, lockVars, vars
    <2> QED
      BY <1>5, <2>1, <2>2 DEF CallsInv, Moves, Others
  <1>6. CASE Ends(t)
    <2>1. /\ at'[t] = "running" /\ guards'[t] = 0
          /\ \A u \in Threads : u # t =>
               guards'[u] = guards[u] /\ (at'[u] = "running" <=> at[u] = "running")
      <3>1. CASE Locks(call[t])
        <4>1. Drop(t)
          BY <1>6, <3>1 DEF Ends
        <4>2. guards[t] = 1
          BY <1>1, <1>2, <3>1, <4>1 DEF Placed, Drop
        <4> QED
          BY <4>1, <4>2, DropDoes
      <3>2. CASE ~Locks(call[t])
        BY <1>1, <1>2, <1>6, <3>2 DEF Ends, Placed, lockVars, vars
      <3> QED
        BY <3>1, <3>2
    <2>2. \A u \in Threads : u # t => Placed(u)'
      BY <1>1, <1>2, <1>6, <2>1 DEF Ends, Others, Placed
    <2>3. Placed(t)'
      BY <1>6, <2>1, IdleFields DEF Ends, Placed
    <2> QED
      BY <1>6, <2>2, <2>3 DEF CallsInv, Ends, Others
  <1> QED
    BY <1>3, <1>4, <1>5, <1>6

(* The calls of the other threads never move.                               *)
LEMMA OthersStay ==
  ASSUME CallsInv, NEW t \in Threads, Play(t) \/ Step(t) \/ Woken(t)
  PROVE  Others(t)
  <1>1. Rests(t) => Others(t)
    BY DEF Rests, CallsInv, Others
  <1> QED
    BY <1>1, Skeleton DEF Begins, Moves, Ends

-----------------------------------------------------------------------------
(* Which steps change which variable; every other step leaves it alone.     *)
ChangesLive(t) ==
  \/ InstanceCreated(t) \/ InstanceDestroyed(t) \/ DeviceCreated(t) \/ GeneratorDropped(t)
  \/ PoolDestroyed(t) \/ DeviceDestroyed(t) \/ SurfaceCreated(t) \/ SurfaceDestroyed(t)
  \/ ProxyTried(t) \/ FixedCreated(t) \/ FixedSetUp(t) \/ Unwrapped(t) \/ WrapperTaken(t)
  \/ FixedDropped(t) \/ SwapchainDestroyed(t) \/ PresentDone(t)
ChangesActive(t) ==
  \/ FixedCreated(t) \/ FixedSetUp(t) \/ Unwrapped(t) \/ SwapchainDestroyed(t)
ChangesIllegal(t) ==
  \/ DeviceCreated(t) \/ FixedCreated(t) \/ Unwrapped(t) \/ SwapchainDestroyed(t)
  \/ PresentForwarded(t) \/ PresentDone(t) \/ Acquired(t)
ChangesInstance(t) ==
  \/ InstanceCreated(t) \/ InstanceDestroyed(t)
ChangesDevices(t) ==
  \/ DeviceCreated(t) \/ DeviceRemoved(t) \/ ProxyTried(t) \/ PresentInvalidated(t)
ChangesSwapchains(t) ==
  \/ DeviceRemoved(t) \/ SwapchainRemoved(t) \/ Inserted(t)
ChangesVulkanLayers(t) ==
  \/ LayerBefore(t) \/ LayerRegistered(t) \/ LayerForgotten(t)
ChangesSurfaces(t) ==
  \/ SurfaceRegistered(t) \/ SurfaceForgotten(t)
ChangesOwned(t) ==
  \/ InstanceCreated(t) \/ DeviceCreated(t) \/ SurfaceRegistered(t)
ChangesChains(t) ==
  \/ Inserted(t)

(* What a step of a call leaves unchanged, by what it may change.           *)
Framed(t) ==
  /\ UNCHANGED live \/ ChangesLive(t)
  /\ UNCHANGED active \/ ChangesActive(t)
  /\ UNCHANGED illegal \/ ChangesIllegal(t)
  /\ UNCHANGED instance \/ ChangesInstance(t)
  /\ UNCHANGED devices \/ ChangesDevices(t)
  /\ UNCHANGED swapchains \/ ChangesSwapchains(t)
  /\ UNCHANGED vulkanLayers \/ ChangesVulkanLayers(t)
  /\ UNCHANGED surfaces \/ ChangesSurfaces(t)
  /\ UNCHANGED owned \/ ChangesOwned(t)
  /\ UNCHANGED chains \/ ChangesChains(t)
  /\ UNCHANGED beside

(* What every step of a call leaves alone.                                  *)
LEMMA StepFrames ==
  ASSUME NEW t \in Threads, Step(t)
  PROVE  Framed(t)
  <1>1. CASE Locking(t)
    BY <1>1 DEF Locking, Framed, driver, tables, registry, game
  <1>2. CASE InstanceCreated(t)
    BY <1>2 DEF InstanceCreated, Framed, ChangesLive, ChangesInstance, ChangesOwned, driver, tables, registry, game
  <1>3. CASE InstanceDestroyed(t)
    BY <1>3 DEF InstanceDestroyed, Framed, ChangesLive, ChangesInstance, driver, tables, registry, game
  <1>4. CASE DeviceCreated(t)
    BY <1>4 DEF DeviceCreated, Framed, ChangesLive, ChangesIllegal, ChangesDevices, ChangesOwned, driver, tables, registry, game
  <1>5. CASE DeviceRemoved(t)
    BY <1>5 DEF DeviceRemoved, Framed, ChangesDevices, ChangesSwapchains, driver, tables, registry, game
  <1>6. CASE GeneratorDropped(t)
    BY <1>6 DEF GeneratorDropped, Framed, ChangesLive, driver, tables, registry, game
  <1>7. CASE PoolDestroyed(t)
    BY <1>7 DEF PoolDestroyed, Framed, ChangesLive, driver, tables, registry, game
  <1>8. CASE DeviceDestroyed(t)
    BY <1>8 DEF DeviceDestroyed, Framed, ChangesLive, driver, tables, registry, game
  <1>9. CASE LayerBefore(t)
    BY <1>9 DEF LayerBefore, Framed, ChangesVulkanLayers, driver, tables, registry, game
  <1>10. CASE SurfaceCreated(t)
    BY <1>10 DEF SurfaceCreated, Framed, ChangesLive, driver, tables, registry, game
  <1>11. CASE LayerRegistered(t)
    BY <1>11 DEF LayerRegistered, Framed, ChangesVulkanLayers, driver, tables, registry, game
  <1>12. CASE SurfaceRegistered(t)
    BY <1>12 DEF SurfaceRegistered, Framed, ChangesSurfaces, ChangesOwned, driver, tables, registry, game
  <1>13. CASE SurfaceForgotten(t)
    BY <1>13 DEF SurfaceForgotten, Framed, ChangesSurfaces, driver, tables, registry, game
  <1>14. CASE LayerForgotten(t)
    BY <1>14 DEF LayerForgotten, Framed, ChangesVulkanLayers, driver, tables, registry, game
  <1>15. CASE SurfaceDestroyed(t)
    BY <1>15 DEF SurfaceDestroyed, Framed, ChangesLive, driver, tables, registry, game
  <1>16. CASE Chosen(t)
    BY <1>16 DEF Chosen, Framed, driver, tables, registry, game
  <1>17. CASE ProxyTried(t)
    BY <1>17 DEF ProxyTried, Framed, ChangesLive, ChangesDevices, driver, tables, registry, game
  <1>18. CASE FixedCreated(t)
    BY <1>18 DEF FixedCreated, Framed, ChangesLive, ChangesActive, ChangesIllegal, driver, tables, registry, game
  <1>19. CASE FixedSetUp(t)
    BY <1>19 DEF FixedSetUp, Framed, ChangesLive, ChangesActive, driver, tables, registry, game
  <1>20. CASE FixedUndone(t)
    BY <1>20 DEF FixedUndone, Framed, driver, tables, registry, game
  <1>21. CASE Unwrapped(t)
    BY <1>21 DEF Unwrapped, Framed, ChangesLive, ChangesActive, ChangesIllegal, driver, tables, registry, game
  <1>22. CASE Inserted(t)
    BY <1>22 DEF Inserted, Framed, ChangesSwapchains, ChangesChains, driver, tables, registry, game
  <1>23. CASE SwapchainRemoved(t)
    BY <1>23 DEF SwapchainRemoved, Framed, ChangesSwapchains, driver, tables, registry, game
  <1>24. CASE WrapperTaken(t)
    BY <1>24 DEF WrapperTaken, Framed, ChangesLive, driver, tables, registry, game
  <1>25. CASE FixedDropped(t)
    BY <1>25 DEF FixedDropped, Framed, ChangesLive, driver, tables, registry, game
  <1>26. CASE SwapchainDestroyed(t)
    BY <1>26 DEF SwapchainDestroyed, Framed, ChangesLive, ChangesActive, ChangesIllegal, driver, tables, registry, game
  <1>27. CASE ProxyDestroyed(t)
    BY <1>27 DEF ProxyDestroyed, Framed, driver, tables, registry, game
  <1>28. CASE PresentInvalidated(t)
    BY <1>28 DEF PresentInvalidated, Framed, ChangesDevices, driver, tables, registry, game
  <1>29. CASE PresentForwarded(t)
    BY <1>29 DEF PresentForwarded, Framed, ChangesIllegal, driver, tables, registry, game
  <1>30. CASE PresentLocked(t)
    BY <1>30 DEF PresentLocked, Framed, driver, tables, registry, game
  <1>31. CASE PresentDone(t)
    BY <1>31 DEF PresentDone, Framed, ChangesLive, ChangesIllegal, driver, tables, registry, game
  <1>32. CASE Acquired(t)
    BY <1>32 DEF Acquired, Framed, ChangesIllegal, driver, tables, registry, game
  <1>33. CASE Submitting(t)
    BY <1>33 DEF Submitting, Framed, driver, tables, registry, game
  <1>34. CASE QueueDone(t)
    BY <1>34 DEF QueueDone, Framed, driver, tables, registry, game
  <1>35. CASE ForwardDone(t)
    BY <1>35 DEF ForwardDone, Framed, driver, tables, registry, game
  <1> QED
    BY <1>1, <1>2, <1>3, <1>4, <1>5, <1>6, <1>7, <1>8, <1>9, <1>10, <1>11, <1>12, <1>13,
       <1>14, <1>15, <1>16, <1>17, <1>18, <1>19, <1>20, <1>21, <1>22, <1>23, <1>24,
       <1>25, <1>26, <1>27, <1>28, <1>29, <1>30, <1>31, <1>32, <1>33, <1>34, <1>35 DEF Step

(* What the game and the lock leave alone.                                  *)
LEMMA PlayFrames ==
  ASSUME NEW t \in Threads, Play(t) \/ Woken(t)
  PROVE  /\ UNCHANGED <<live, active, tables, registry>>
         /\ UNCHANGED illegal \/ Ask(t)
         /\ \/ UNCHANGED owned
            \/ DestroyInstance(t) \/ DestroyDevice(t) \/ DestroySurface(t)
         /\ \/ UNCHANGED chains
            \/ DestroyDevice(t) \/ CreateSwapchain(t) \/ DestroySwapchain(t)
         /\ UNCHANGED beside \/ CreateSurface(t) \/ DestroySurface(t)
  <1>1. CASE CreateInstance(t)
    BY <1>1 DEF CreateInstance, driver, tables, registry, game
  <1>2. CASE DestroyInstance(t)
    BY <1>2 DEF DestroyInstance, driver, tables, registry, game
  <1>3. CASE CreateDevice(t)
    BY <1>3 DEF CreateDevice, driver, tables, registry, game
  <1>4. CASE DestroyDevice(t)
    BY <1>4 DEF DestroyDevice, driver, tables, registry, game
  <1>5. CASE CreateSurface(t)
    BY <1>5 DEF CreateSurface, driver, tables, registry, game
  <1>6. CASE DestroySurface(t)
    BY <1>6 DEF DestroySurface, driver, tables, registry, game
  <1>7. CASE CreateSwapchain(t)
    BY <1>7 DEF CreateSwapchain, driver, tables, registry, game
  <1>8. CASE DestroySwapchain(t)
    BY <1>8 DEF DestroySwapchain, driver, tables, registry, game
  <1>9. CASE Present(t)
    BY <1>9 DEF Present, driver, tables, registry, game
  <1>10. CASE Acquire(t)
    BY <1>10 DEF Acquire, driver, tables, registry, game
  <1>11. CASE Submit(t)
    BY <1>11 DEF Submit, driver, tables, registry, game
  <1>12. CASE Ask(t)
    BY <1>12 DEF Ask, driver, tables, registry, game
  <1>13. CASE Woken(t)
    BY <1>13 DEF Woken, driver, tables, registry, game
  <1> QED
    BY <1>1, <1>2, <1>3, <1>4, <1>5, <1>6, <1>7, <1>8, <1>9, <1>10, <1>11, <1>12, <1>13
       DEF Play

-----------------------------------------------------------------------------
(* The rules of the game.  Calls that conflict never run at once, so what a *)
(* call uses stays as it found it: what it shares stays owned, what it uses *)
(* alone nobody else touches.                                               *)

Apart == \A t, u \in Threads : t # u => ~Conflict(call[t], call[u])

OwnedInv ==
  /\ owned \subseteq {Instance} \cup Devices \cup Surfaces
  /\ owned # {} => Instance \in owned

ChainsInv ==
  \A h \in DOMAIN chains :
    /\ chains[h] = [d |-> chains[h].d, s |-> chains[h].s, retired |-> chains[h].retired]
    /\ chains[h].d \in owned \cap Devices /\ chains[h].s \in owned \cap Surfaces

UsesRight(c) ==
  /\ c.shared \subseteq owned
  /\ c.op = "create_instance" => Instance \in c.alone /\ Instance \notin owned
  /\ c.op = "destroy_instance" => Instance \in c.alone /\ owned = {}
  /\ c.op \in {"create_device", "destroy_device"} => c.d \in Devices \ owned /\ c.d \in c.alone
  /\ c.op \in {"create_device", "destroy_device", "create_surface", "destroy_surface"} =>
       Instance \in c.shared
  /\ c.op \in {"create_surface", "destroy_surface"} =>
       c.s \in Surfaces \ owned /\ c.s \in c.alone
  /\ c.op = "create_swapchain" => c.s \in owned \cap Surfaces /\ c.s \in c.alone
  /\ c.op \in {"create_swapchain", "destroy_swapchain", "present", "acquire", "submit"} =>
       c.d \in Devices /\ c.d \in c.shared
  /\ c.op \in {"present", "acquire"} =>
       /\ c.hs # {} /\ c.hs \subseteq c.alone
       /\ \A h \in c.hs : h \in DOMAIN chains /\ chains[h].d = c.d
  /\ c.op = "acquire" => \A g, h \in c.hs : g = h
  /\ c.op \in {"present", "submit"} => Queue(c.d) \in c.alone

RulesInv ==
  /\ Apart /\ OwnedInv /\ ChainsInv
  /\ \A t \in Threads : UsesRight(call[t])

(* A thread without a call conflicts with none.                             *)
LEMMA IdleConflict ==
  ASSUME NEW c
  PROVE  ~Conflict(Idle, c) /\ ~Conflict(c, Idle)
  BY IdleFields DEF Conflict

(* Calls that conflict never run at once, whatever begins or moves.         *)
LEMMA ApartKept ==
  ASSUME CallsInv, Apart, NEW t \in Threads, Rests(t) \/ Begins(t) \/ Moves(t) \/ Ends(t)
  PROVE  Apart'
  <1>1. CASE Rests(t)
    BY <1>1 DEF Rests, Apart
  <1>2. CASE Begins(t)
    <2>1. \A u \in Threads : u # t => ~Conflict(call'[t], call[u])
      BY <1>2, IdleConflict DEF Begins, Busy
    <2>2. \A a, b : Conflict(a, b) => Conflict(b, a)
      BY DEF Conflict
    <2> QED
      BY <1>2, <2>1, <2>2 DEF Begins, Others, Apart
  <1>3. CASE Moves(t)
    BY <1>3 DEF Moves, Others, SameCall, Apart, Conflict
  <1>4. CASE Ends(t)
    BY <1>4, IdleConflict DEF Ends, Others, Apart
  <1> QED
    BY <1>1, <1>2, <1>3, <1>4

(* Nobody else uses what a call uses alone.                                 *)
LEMMA AloneIs ==
  ASSUME Apart, NEW t \in Threads, NEW u \in Threads, t # u, NEW x \in call[t].alone
  PROVE  x \notin call[u].alone /\ x \notin call[u].shared
  BY DEF Apart, Conflict

(* A thread without a call uses what it may.                                *)
LEMMA IdleUses == UsesRight(Idle)
  BY IdleFields DEF UsesRight


(* While the game's part is left alone, its rules hold of the calls as      *)
(* before, and of a new one if it keeps them.                               *)
LEMMA UsesKept ==
  ASSUME CallsInv, NEW t \in Threads, UNCHANGED <<owned, chains>>,
         \A u \in Threads : UsesRight(call[u]),
         Rests(t) \/ (Begins(t) /\ UsesRight(call[t])') \/ Moves(t) \/ Ends(t)
  PROVE  \A u \in Threads : UsesRight(call[u])'
  <1>1. owned' = owned /\ chains' = chains
    OBVIOUS
  <1>2. ASSUME NEW u \in Threads, call'[u] = call[u]
        PROVE  UsesRight(call[u])'
    BY <1>1, <1>2 DEF UsesRight
  <1>3. CASE Rests(t)
    BY <1>2, <1>3 DEF Rests
  <1>4. CASE Begins(t) /\ UsesRight(call[t])'
    BY <1>2, <1>4 DEF Begins, Others
  <1>5. CASE Moves(t)
    <2>1. UsesRight(call[t])'
      BY <1>1, <1>5 DEF Moves, SameCall, UsesRight
    <2> QED
      BY <1>2, <1>5, <2>1 DEF Moves, Others
  <1>6. CASE Ends(t)
    <2>1. UsesRight(call[t])'
      BY <1>6, IdleFields DEF Ends, UsesRight
    <2> QED
      BY <1>2, <1>6, <2>1 DEF Ends, Others
  <1> QED
    BY <1>3, <1>4, <1>5, <1>6

(* The calls that begin keep the rules.                                     *)
LEMMA BegunUses ==
  ASSUME CallsInv, RulesInv, NEW t \in Threads,
         \/ CreateInstance(t) \/ CreateDevice(t) \/ CreateSurface(t)
         \/ Present(t) \/ Acquire(t) \/ Submit(t)
  PROVE  UsesRight(call[t])' /\ Begins(t) /\ UNCHANGED <<owned, chains>>
  <1>1. OwnedInv /\ ChainsInv
    BY DEF RulesInv
  <1>2. CASE CreateInstance(t)
    BY <1>2, CreateInstanceDoes DEF UsesRight, game
  <1>3. CASE CreateDevice(t)
    BY <1>3, CreateDeviceDoes DEF UsesRight, game
  <1>4. CASE CreateSurface(t)
    BY <1>4, CreateSurfaceDoes DEF UsesRight
  <1>5. CASE Present(t)
    <2>1. UNCHANGED <<owned, chains>>
      BY <1>5, PresentDoes DEF game
    <2> QED
      BY <1>5, <2>1, PresentDoes DEF UsesRight
  <1>6. CASE Acquire(t)
    <2>1. UNCHANGED <<owned, chains>>
      BY <1>6, AcquireDoes DEF game
    <2>2. PICK h \in DOMAIN chains :
            /\ call'[t].hs = {h} /\ call'[t].d = chains[h].d
            /\ call'[t].alone = {h} /\ call'[t].shared = {call'[t].d}
      BY <1>6, AcquireDoes
    <2>3. chains[h].d \in owned \cap Devices
      BY <1>1 DEF ChainsInv
    <2>4. call'[t].op = "acquire" /\ Begins(t)
      BY <1>6, AcquireDoes
    <2> QED
      BY <2>1, <2>2, <2>3, <2>4 DEF UsesRight
  <1>7. CASE Submit(t)
    BY <1>7, SubmitDoes DEF UsesRight, game
  <1> QED
    BY <1>2, <1>3, <1>4, <1>5, <1>6, <1>7

(* A call that ends with an object made: nobody else makes or uses it.      *)
LEMMA MakingUses ==
  ASSUME CallsInv, RulesInv, NEW t \in Threads,
         InstanceCreated(t) \/ DeviceCreated(t) \/ SurfaceRegistered(t), Ends(t)
  PROVE  OwnedInv' /\ ChainsInv' /\ \A u \in Threads : UsesRight(call[u])'
  <1>1. /\ \A u \in Threads : UsesRight(call[u])
        /\ OwnedInv /\ ChainsInv /\ Apart
    BY DEF RulesInv
  <1>2. PICK x : /\ x \in call[t].alone /\ x \in {Instance} \cup Devices \cup Surfaces
                 /\ x # Instance => Instance \in owned
                 /\ owned' \in {owned, owned \cup {x}} /\ UNCHANGED chains
    <2>1. CASE InstanceCreated(t)
      BY <1>1, <2>1, InsideIs DEF InstanceCreated, UsesRight
    <2>2. CASE DeviceCreated(t)
      BY <1>1, <2>2, InsideIs DEF DeviceCreated, UsesRight
    <2>3. CASE SurfaceRegistered(t)
      BY <1>1, <2>3, AtIs DEF SurfaceRegistered, UsesRight
    <2> QED
      BY <2>1, <2>2, <2>3
  <1>3. OwnedInv'
    BY <1>1, <1>2 DEF OwnedInv
  <1>4. ChainsInv'
    BY <1>1, <1>2 DEF ChainsInv
  <1>5. ASSUME NEW u \in Threads, u # t
        PROVE  UsesRight(call[u])'
    <2>1. x \notin call[u].alone /\ x \notin call[u].shared
      BY <1>1, <1>2, <1>5, AloneIs
    <2>2. call'[u] = call[u]
      BY <1>5 DEF Ends, Others
    <2>3. UsesRight(call[u])
      BY <1>1
    <2>4. x # Instance => owned # {}
      BY <1>2
    <2>5. call[u].op = "destroy_instance" => owned' = {}
      BY <1>2, <2>1, <2>3 DEF UsesRight
    <2> QED
      BY <1>2, <2>1, <2>2, <2>3, <2>5 DEF UsesRight
  <1>6. UsesRight(call[t])'
    BY IdleFields DEF Ends, UsesRight
  <1> QED
    BY <1>3, <1>4, <1>5, <1>6

(* A call that begins to destroy an object: nobody else uses it any more.   *)
LEMMA DestroyInstanceUses ==
  ASSUME CallsInv, RulesInv, NEW t \in Threads, DestroyInstance(t)
  PROVE  OwnedInv' /\ ChainsInv' /\ \A u \in Threads : UsesRight(call[u])'
  <1>1. /\ \A u \in Threads : UsesRight(call[u])
        /\ OwnedInv /\ ChainsInv /\ Apart
    BY DEF RulesInv
  <1>2. /\ Begins(t) /\ call'[t].op = "destroy_instance"
        /\ call'[t].alone = {Instance} /\ call'[t].shared = {}
        /\ owned = {Instance} /\ owned' = {} /\ chains' = chains
    BY DestroyInstanceDoes
  <1>3. DOMAIN chains = {}
    BY <1>1, <1>2, LayerAssumption DEF ChainsInv
  <1>4. ASSUME NEW u \in Threads, u # t
        PROVE  call'[u] = Idle
    <2>1. call'[u] = call[u]
      BY <1>2, <1>4 DEF Begins, Others
    <2>2. CASE call[u] # Idle
      <3>1. Instance \notin call[u].alone /\ Instance \notin call[u].shared
        BY <1>2, <2>2 DEF Begins, Busy, Conflict
      <3>2. call[u].shared = {}
        BY <1>1, <1>2, <3>1 DEF UsesRight
      <3>3. call[u].op \in DOMAIN StepsOf
        BY <2>2 DEF CallsInv, Placed, Known
      <3> QED
        BY <1>1, <3>1, <3>2, <3>3, StepsAre DEF UsesRight
    <2> QED
      BY <2>1, <2>2
  <1>5. \A u \in Threads : u # t => UsesRight(call[u])'
    BY <1>4, IdleFields DEF UsesRight
  <1>6. UsesRight(call[t])'
    BY <1>2 DEF UsesRight
  <1> QED
    BY <1>2, <1>3, <1>5, <1>6 DEF OwnedInv, ChainsInv

(* The rules of the game hold on when a device goes,                        *)
LEMMA DestroyDeviceUses ==
  ASSUME CallsInv, RulesInv, NEW t \in Threads, DestroyDevice(t)
  PROVE  OwnedInv' /\ ChainsInv' /\ \A u \in Threads : UsesRight(call[u])'
  <1>1. /\ \A u \in Threads : UsesRight(call[u])
        /\ OwnedInv /\ ChainsInv /\ Apart
    BY DEF RulesInv
  <1>2. PICK d \in owned \cap Devices :
          LET leaked == {h \in DOMAIN chains : chains[h].d = d}
          IN /\ Begins(t) /\ call'[t].op = "destroy_device" /\ call'[t].step = "remove"
             /\ call'[t].d = d
             /\ call'[t].alone = {d} \cup leaked \cup {chains[h].s : h \in leaked}
             /\ call'[t].shared = {Instance} /\ call'[t].left = <<>>
             /\ d \in DOMAIN devices \/ leaked = {}
             /\ owned' = owned \ {d}
             /\ chains' = Restrict(chains, DOMAIN chains \ leaked)
             /\ UNCHANGED <<driver, tables, registry>>
    BY DestroyDeviceDoes
  <1>3. /\ DOMAIN chains' = {h \in DOMAIN chains : chains[h].d # d}
        /\ \A h \in DOMAIN chains' : chains'[h] = chains[h]
    BY <1>2 DEF Restrict
  <1>4. d # Instance /\ d \notin Surfaces /\ Instance \in owned
    BY <1>1, <1>2, LayerAssumption DEF OwnedInv
  <1>5. OwnedInv'
    BY <1>1, <1>2, <1>4 DEF OwnedInv
  <1>6. ChainsInv'
    BY <1>1, <1>2, <1>3, <1>4 DEF ChainsInv
  <1>7. ASSUME NEW u \in Threads, u # t
        PROVE  UsesRight(call[u])'
    <2>1. call'[u] = call[u] /\ UsesRight(call[u])
      BY <1>1, <1>2, <1>7 DEF Begins, Others
    <2>2. d \notin call[u].shared
      BY <1>2, <1>7, IdleFields DEF Begins, Busy, Conflict
    <2>3. call[u].shared \subseteq owned'
      BY <1>2, <2>1, <2>2 DEF UsesRight
    <2>4. call[u].op \in {"present", "acquire"} =>
            \A h \in call[u].hs : h \in DOMAIN chains' /\ chains'[h].d = call[u].d
      BY <1>3, <2>1, <2>2 DEF UsesRight
    <2>5. call[u].op = "create_swapchain" => call[u].s \in owned' \cap Surfaces
      BY <1>2, <1>4, <2>1 DEF UsesRight
    <2>6. call[u].op = "destroy_instance" => owned' = {}
      BY <1>2, <2>1 DEF UsesRight
    <2> QED
      BY <1>2, <2>1, <2>3, <2>4, <2>5, <2>6 DEF UsesRight
  <1>8. UsesRight(call[t])'
    BY <1>2, <1>4 DEF UsesRight
  <1> QED
    BY <1>5, <1>6, <1>7, <1>8

(* when a surface goes,                                                     *)
LEMMA DestroySurfaceUses ==
  ASSUME CallsInv, RulesInv, NEW t \in Threads, DestroySurface(t)
  PROVE  OwnedInv' /\ ChainsInv' /\ \A u \in Threads : UsesRight(call[u])'
  <1>1. /\ \A u \in Threads : UsesRight(call[u])
        /\ OwnedInv /\ ChainsInv /\ Apart
    BY DEF RulesInv
  <1>2. PICK s : /\ s = call'[t].s /\ s \in owned \cap Surfaces
                 /\ Begins(t) /\ call'[t].op = "destroy_surface"
                 /\ call'[t].alone = {s} /\ call'[t].shared = {Instance}
                 /\ \A h \in DOMAIN chains : chains[h].s # s
                 /\ owned' = owned \ {s} /\ chains' = chains
    BY DestroySurfaceDoes
  <1>3. s # Instance /\ s \notin Devices /\ Instance \in owned /\ s \in call'[t].alone
    BY <1>1, <1>2, LayerAssumption DEF OwnedInv
  <1>4. OwnedInv'
    BY <1>1, <1>2, <1>3 DEF OwnedInv
  <1>5. ChainsInv'
    BY <1>1, <1>2, <1>3 DEF ChainsInv
  <1>6. ASSUME NEW u \in Threads, u # t
        PROVE  UsesRight(call[u])'
    <2>1. call'[u] = call[u] /\ UsesRight(call[u])
      BY <1>1, <1>2, <1>6 DEF Begins, Others
    <2>2. s \notin call[u].shared /\ s \notin call[u].alone
      BY <1>2, <1>3, <1>6, IdleFields DEF Begins, Busy, Conflict
    <2>3. call[u].shared \subseteq owned'
      BY <1>2, <2>1, <2>2 DEF UsesRight
    <2>4. call[u].op = "create_swapchain" => call[u].s \in owned' \cap Surfaces
      BY <1>2, <2>1, <2>2 DEF UsesRight
    <2>5. call[u].op = "destroy_instance" => owned' = {}
      BY <1>2, <2>1 DEF UsesRight
    <2> QED
      BY <1>2, <2>1, <2>3, <2>4, <2>5 DEF UsesRight
  <1>7. UsesRight(call[t])'
    BY <1>2, <1>3 DEF UsesRight
  <1> QED
    BY <1>4, <1>5, <1>6, <1>7

(* The swapchains the game knows of come and go.                            *)
LEMMA CreateSwapchainUses ==
  ASSUME CallsInv, RulesInv, NEW t \in Threads, CreateSwapchain(t)
  PROVE  OwnedInv' /\ ChainsInv' /\ \A u \in Threads : UsesRight(call[u])'
  <1>1. /\ \A u \in Threads : UsesRight(call[u])
        /\ OwnedInv /\ ChainsInv
    BY DEF RulesInv
  <1>2. /\ Begins(t) /\ call'[t].op = "create_swapchain"
        /\ call'[t].d \in owned \cap Devices /\ call'[t].s \in owned \cap Surfaces
        /\ call'[t].s \in call'[t].alone /\ call'[t].shared = {call'[t].d}
        /\ owned' = owned
    BY CreateSwapchainDoes
  <1>3. chains' = [h \in DOMAIN chains |-> [chains[h] EXCEPT !.retired = @ \/ h = call'[t].old]]
    BY CreateSwapchainDoes
  <1>4. /\ DOMAIN chains' = DOMAIN chains
        /\ \A h \in DOMAIN chains : chains'[h].d = chains[h].d /\ chains'[h].s = chains[h].s
        /\ \A h \in DOMAIN chains :
             chains'[h] = [d |-> chains'[h].d, s |-> chains'[h].s, retired |-> chains'[h].retired]
    <2>1. ASSUME NEW h \in DOMAIN chains
          PROVE  /\ chains'[h].d = chains[h].d /\ chains'[h].s = chains[h].s
                 /\ chains'[h] = [d |-> chains'[h].d, s |-> chains'[h].s, retired |-> chains'[h].retired]
      <3>1. chains[h] = [d |-> chains[h].d, s |-> chains[h].s, retired |-> chains[h].retired]
        BY <1>1 DEF ChainsInv
      <3>2. chains'[h] = [chains[h] EXCEPT !.retired = @ \/ h = call'[t].old]
        BY <1>3
      <3> QED
        BY <3>1, <3>2
    <2> QED
      BY <1>3, <2>1
  <1>5. OwnedInv' /\ ChainsInv'
    BY <1>1, <1>2, <1>4 DEF OwnedInv, ChainsInv
  <1>6. ASSUME NEW u \in Threads, u # t
        PROVE  UsesRight(call[u])'
    <2>1. call'[u] = call[u] /\ UsesRight(call[u])
      BY <1>1, <1>2, <1>6 DEF Begins, Others
    <2> QED
      BY <1>2, <1>4, <2>1 DEF UsesRight
  <1>7. UsesRight(call[t])'
    BY <1>2 DEF UsesRight
  <1> QED
    BY <1>5, <1>6, <1>7

(* when a swapchain is handed to the game,                                  *)
LEMMA InsertedUses ==
  ASSUME CallsInv, RulesInv, NEW t \in Threads, Inserted(t), Ends(t),
         call[t].new \notin DOMAIN chains
  PROVE  OwnedInv' /\ ChainsInv' /\ \A u \in Threads : UsesRight(call[u])'
  <1>1. /\ \A u \in Threads : UsesRight(call[u])
        /\ OwnedInv /\ ChainsInv
    BY DEF RulesInv
  <1>2. call[t].op = "create_swapchain"
    BY InsideIs DEF Inserted
  <1>3. /\ owned' = owned
        /\ chains' = With(chains, call[t].new, [d |-> call[t].d, s |-> call[t].s, retired |-> FALSE])
    BY DEF Inserted
  <1>4. call[t].d \in owned \cap Devices /\ call[t].s \in owned \cap Surfaces
    BY <1>1, <1>2 DEF UsesRight
  <1>5. OwnedInv' /\ ChainsInv'
    BY <1>1, <1>3, <1>4 DEF OwnedInv, ChainsInv, With
  <1>6. DOMAIN chains \subseteq DOMAIN chains' /\ \A h \in DOMAIN chains : chains'[h] = chains[h]
    BY <1>3 DEF With
  <1>7. ASSUME NEW u \in Threads, u # t
        PROVE  UsesRight(call[u])'
    <2>1. call'[u] = call[u] /\ UsesRight(call[u])
      BY <1>1, <1>7 DEF Ends, Others
    <2>2. call[u].op \in {"present", "acquire"} =>
            \A h \in call[u].hs : h \in DOMAIN chains' /\ chains'[h].d = call[u].d
      BY <1>6, <2>1 DEF UsesRight
    <2>3. owned' = owned
      BY <1>3
    <2> QED
      BY <2>1, <2>2, <2>3 DEF UsesRight
  <1>8. UsesRight(call[t])'
    BY IdleFields DEF Ends, UsesRight
  <1> QED
    BY <1>5, <1>7, <1>8

(* and when one goes.                                                       *)
LEMMA DestroySwapchainUses ==
  ASSUME CallsInv, RulesInv, NEW t \in Threads, DestroySwapchain(t)
  PROVE  OwnedInv' /\ ChainsInv' /\ \A u \in Threads : UsesRight(call[u])'
  <1>1. /\ \A u \in Threads : UsesRight(call[u])
        /\ OwnedInv /\ ChainsInv
    BY DEF RulesInv
  <1>2. PICK h : /\ h = call'[t].h /\ h \in DOMAIN chains
                 /\ Begins(t) /\ call'[t].op = "destroy_swapchain"
                 /\ call'[t].d = chains[h].d
                 /\ call'[t].alone = {h, chains[h].s} /\ call'[t].shared = {call'[t].d}
                 /\ chains' = Restrict(chains, DOMAIN chains \ {h})
                 /\ owned' = owned
    BY DestroySwapchainDoes
  <1>3. /\ DOMAIN chains' = DOMAIN chains \ {h}
        /\ \A g \in DOMAIN chains' : chains'[g] = chains[g]
    BY <1>2 DEF Restrict
  <1>4. OwnedInv' /\ ChainsInv'
    <2>1. owned' = owned
      BY <1>2
    <2>2. OwnedInv'
      BY <1>1, <2>1 DEF OwnedInv
    <2>3. ASSUME NEW g \in DOMAIN chains'
          PROVE  /\ chains'[g] = [d |-> chains'[g].d, s |-> chains'[g].s, retired |-> chains'[g].retired]
                 /\ chains'[g].d \in owned \cap Devices /\ chains'[g].s \in owned \cap Surfaces
      <3>1. g \in DOMAIN chains /\ chains'[g] = chains[g]
        BY <1>3
      <3>2. /\ chains[g] = [d |-> chains[g].d, s |-> chains[g].s, retired |-> chains[g].retired]
            /\ chains[g].d \in owned \cap Devices /\ chains[g].s \in owned \cap Surfaces
        BY <1>1, <3>1 DEF ChainsInv
      <3> QED
        BY <3>1, <3>2
    <2> QED
      BY <2>1, <2>2, <2>3 DEF ChainsInv
  <1>5. ASSUME NEW u \in Threads, u # t
        PROVE  UsesRight(call[u])'
    <2>1. call'[u] = call[u] /\ UsesRight(call[u])
      BY <1>1, <1>2, <1>5 DEF Begins, Others
    <2>2. h \notin call[u].alone
      BY <1>2, <1>5, IdleFields DEF Begins, Busy, Conflict
    <2>3. call[u].op \in {"present", "acquire"} =>
            \A g \in call[u].hs : g \in DOMAIN chains' /\ chains'[g].d = call[u].d
      BY <1>3, <2>1, <2>2 DEF UsesRight
    <2>4. owned' = owned
      BY <1>2
    <2> QED
      BY <2>1, <2>3, <2>4 DEF UsesRight
  <1>6. UsesRight(call[t])'
    BY <1>1, <1>2 DEF UsesRight, ChainsInv
  <1> QED
    BY <1>4, <1>5, <1>6

(* Every step keeps the rules.                                              *)
LEMMA RulesKept ==
  ASSUME CallsInv, RulesInv, NEW t \in Threads, Play(t) \/ Step(t) \/ Woken(t),
         Inserted(t) => call[t].new \notin DOMAIN chains
  PROVE  RulesInv'
  <1>1. Rests(t) \/ Begins(t) \/ Moves(t) \/ Ends(t)
    BY Skeleton
  <1>2. Apart'
    BY <1>1, ApartKept DEF RulesInv
  <1> SUFFICES OwnedInv' /\ ChainsInv' /\ \A u \in Threads : UsesRight(call[u])'
    BY <1>2 DEF RulesInv
  <1>3. CASE InstanceCreated(t) \/ DeviceCreated(t) \/ SurfaceRegistered(t)
    <2>1. Ends(t)
      <3>1. CASE InstanceCreated(t)
        BY <3>1, InsideIs, EndIs DEF InstanceCreated, Locks
      <3>2. CASE DeviceCreated(t)
        BY <3>2, InsideIs, EndIs DEF DeviceCreated, Locks
      <3>3. CASE SurfaceRegistered(t)
        BY <3>3, AtIs, EndIs DEF SurfaceRegistered, Locks
      <3> QED
        BY <1>3, <3>1, <3>2, <3>3
    <2> QED
      BY <1>3, <2>1, MakingUses
  <1>4. CASE Inserted(t)
    <2>1. Ends(t)
      BY <1>4, InsideIs, EndIs DEF Inserted, Locks
    <2> QED
      BY <1>4, <2>1, InsertedUses
  <1>5. CASE DestroyInstance(t) \/ DestroyDevice(t) \/ DestroySurface(t)
    BY <1>5, DestroyInstanceUses, DestroyDeviceUses, DestroySurfaceUses
  <1>6. CASE CreateSwapchain(t) \/ DestroySwapchain(t)
    BY <1>6, CreateSwapchainUses, DestroySwapchainUses
  <1>7. CASE \/ CreateInstance(t) \/ CreateDevice(t) \/ CreateSurface(t)
             \/ Present(t) \/ Acquire(t) \/ Submit(t)
    <2>1. UsesRight(call[t])' /\ Begins(t) /\ UNCHANGED <<owned, chains>>
      BY <1>7, BegunUses
    <2>2. \A u \in Threads : UsesRight(call[u])'
      BY <2>1, UsesKept DEF RulesInv
    <2> QED
      BY <2>1, <2>2 DEF RulesInv, OwnedInv, ChainsInv
  <1>8. CASE Ask(t) \/ Woken(t)
    <2>1. Rests(t) /\ UNCHANGED <<owned, chains>>
      BY <1>8 DEF Ask, Woken, Rests, game
    <2>2. \A u \in Threads : UsesRight(call[u])'
      BY <2>1, UsesKept DEF RulesInv
    <2> QED
      BY <2>1, <2>2 DEF RulesInv, OwnedInv, ChainsInv
  <1>9. CASE /\ Step(t)
             /\ ~(InstanceCreated(t) \/ DeviceCreated(t) \/ SurfaceRegistered(t) \/ Inserted(t))
    <2>1. UNCHANGED <<owned, chains>>
      BY <1>9, StepFrames DEF Framed, ChangesOwned, ChangesChains
    <2>2. Rests(t) \/ Moves(t) \/ Ends(t)
      BY <1>9, SurfaceMoves, DeviceMoves, CreateMoves, DestroyMoves, PresentMoves
         DEF Step, Locking, Rests
    <2>3. \A u \in Threads : UsesRight(call[u])'
      BY <2>1, <2>2, UsesKept DEF RulesInv
    <2> QED
      BY <2>1, <2>3 DEF RulesInv, OwnedInv, ChainsInv
  <1> QED
    BY <1>3, <1>4, <1>5, <1>6, <1>7, <1>8, <1>9 DEF Play

-----------------------------------------------------------------------------
(* One thread at a time.  The queue's lock is the step "queue", and its     *)
(* holder is alone there; the pool is used only inside the API lock.  A     *)
(* present that is forwarded has the API lock, which keeps off whatever     *)
(* drops a wrapper or presents, and the game's word for its queue, which    *)
(* keeps off the submits: what is left is a proxy's acquire.                *)

QueueInv ==
  \A t, u \in Threads :
    t # u /\ call[t].step = "queue" /\ call[u].step = "queue" => call[t].d # call[u].d

(* The queue lock of a device has one holder.                               *)
LEMMA QueueKept ==
  ASSUME CallsInv, QueueInv, NEW t \in Threads, Rests(t) \/ Begins(t) \/ Moves(t) \/ Ends(t)
  PROVE  QueueInv'
  <1>1. CASE Rests(t)
    BY <1>1 DEF Rests, QueueInv
  <1>2. CASE Begins(t)
    BY <1>2, StepsAre DEF Begins, Others, Known, AtFirst, QueueInv
  <1>3. CASE Moves(t)
    <2>1. CASE call'[t].step # "queue"
      BY <1>3, <2>1 DEF Moves, Others, QueueInv
    <2>2. CASE call'[t].step = "queue"
      <3>1. \A u \in Threads : call[u].step = "queue" => call[u].d # call[t].d
        BY <1>3, <2>2, IdleFields DEF Moves, Queueing, Busy
      <3> QED
        BY <1>3, <3>1 DEF Moves, Others, SameCall, QueueInv
    <2> QED
      BY <2>1, <2>2
  <1>4. CASE Ends(t)
    BY <1>4, IdleFields DEF Ends, Others, QueueInv
  <1> QED
    BY <1>1, <1>2, <1>3, <1>4

(* A thread past the first step of a call that locks holds the lock.        *)
LEMMA PastFirst ==
  ASSUME CallsInv, NEW t \in Threads, Locks(call[t]), ~AtFirst(call[t])
  PROVE  guards[t] > 0 /\ at[t] = "running"
  BY DEF CallsInv, Placed

(* So has the API lock.                                                     *)
LEMMA OneHolder ==
  ASSUME LockInv, NEW t \in Threads, NEW u \in Threads, guards[t] > 0, guards[u] > 0
  PROVE  t = u
  BY LockAssumption DEF LockInv, Owned, TypeOK

(* Queue and pool therefore have one user at a time, but for a forward.     *)
LEMMA OneUses == CallsInv /\ LockInv /\ RulesInv /\ QueueInv => OneAtATime
  <1> SUFFICES ASSUME CallsInv, LockInv, RulesInv, QueueInv, NEW t \in Busy, NEW u \in Busy, t # u,
                      call[t].d = call[u].d
               PROVE  /\ UsesQueue(t) /\ UsesQueue(u) =>
                           \/ Forwards(t) /\ call[u].op = "acquire"
                           \/ Forwards(u) /\ call[t].op = "acquire"
                      /\ ~(UsesPool(t) /\ UsesPool(u))
    BY DEF OneAtATime
  <1>1. t \in Threads /\ u \in Threads
    BY DEF Busy
  <1>2. ASSUME NEW v \in Threads, call[v] # Idle, UsesQueue(v)
        PROVE  /\ Forwards(v) => call[v].op = "present"
               /\ guards[v] > 0 \/ call[v].op \in {"acquire", "submit"}
    <2>1. Known(call[v])
      BY <1>2 DEF CallsInv, Placed
    <2>2. call[v].op \in {"destroy_device", "destroy_swapchain", "present", "acquire", "submit"}
      BY <1>2, <2>1, StepsAre DEF UsesQueue, Known
    <2>3. Forwards(v) => call[v].op = "present"
      BY <2>1, <2>2, StepsAre DEF Forwards, Known
    <2>4. call[v].op \notin {"acquire", "submit"} => Locks(call[v]) /\ ~AtFirst(call[v])
      BY <1>2, <2>2 DEF UsesQueue, Locks, AtFirst
    <2> QED
      BY <2>3, <2>4, PastFirst
  <1>3. ASSUME NEW v \in Threads, NEW w \in Threads, v # w, call[v] # Idle, call[w] # Idle,
               call[v].d = call[w].d, UsesQueue(v), UsesQueue(w), Forwards(v)
        PROVE  call[w].op = "acquire"
    <2>1. call[v].op = "present" /\ guards[v] > 0
      BY <1>2, <1>3
    <2>2. guards[w] > 0 \/ call[w].op \in {"acquire", "submit"}
      BY <1>2, <1>3
    <2>3. ~(guards[w] > 0)
      BY <1>3, <2>1, OneHolder
    <2>4. call[w].op # "submit"
      <3>1. Queue(call[v].d) \in call[v].alone
        BY <2>1 DEF RulesInv, UsesRight
      <3>2. call[w].op = "submit" => Queue(call[w].d) \in call[w].alone
        BY DEF RulesInv, UsesRight
      <3> QED
        BY <1>3, <3>1, <3>2, AloneIs DEF RulesInv
    <2> QED
      BY <2>2, <2>3, <2>4
  <1>4. ASSUME UsesQueue(t), UsesQueue(u)
        PROVE  Forwards(t) \/ Forwards(u)
    BY <1>1, <1>4 DEF QueueInv, UsesQueue, Forwards
  <1>5. ASSUME NEW v \in Threads, call[v] # Idle, UsesPool(v)
        PROVE  guards[v] > 0
    <2>1. Known(call[v])
      BY <1>5 DEF CallsInv, Placed
    <2>2. Locks(call[v]) /\ ~AtFirst(call[v])
      BY <1>5, <2>1, StepsAre DEF UsesPool, Locks, AtFirst, Known
    <2> QED
      BY <2>2, PastFirst
  <1>6. ~(UsesPool(t) /\ UsesPool(u))
    BY <1>1, <1>5, OneHolder DEF Busy
  <1> QED
    BY <1>1, <1>3, <1>4, <1>6 DEF Busy

-----------------------------------------------------------------------------
(* Where in which call each step is taken.                                  *)
Where(t, ops, steps) == Known(call[t]) /\ call[t].op \in ops /\ call[t].step \in steps

(* Which call and which step each action belongs to.                        *)
LEMMA WhereIs ==
  ASSUME CallsInv, NEW t \in Threads
  PROVE  /\ InstanceCreated(t) => Where(t, {"create_instance"}, {"create"})
         /\ InstanceDestroyed(t) => Where(t, {"destroy_instance"}, {"destroy"})
         /\ DeviceCreated(t) => Where(t, {"create_device"}, {"create"})
         /\ DeviceRemoved(t) => Where(t, {"destroy_device"}, {"remove"})
         /\ GeneratorDropped(t) => Where(t, {"destroy_device"}, {"drop"})
         /\ PoolDestroyed(t) => Where(t, {"destroy_device"}, {"pool"})
         /\ DeviceDestroyed(t) => Where(t, {"destroy_device"}, {"device"})
         /\ LayerBefore(t) => Where(t, {"create_surface"}, {"before"})
         /\ SurfaceCreated(t) => Where(t, {"create_surface"}, {"create"})
         /\ LayerRegistered(t) => Where(t, {"create_surface"}, {"layer"})
         /\ SurfaceRegistered(t) => Where(t, {"create_surface"}, {"surface"})
         /\ SurfaceForgotten(t) => Where(t, {"destroy_surface"}, {"forget"})
         /\ LayerForgotten(t) => Where(t, {"destroy_surface"}, {"layer"})
         /\ SurfaceDestroyed(t) => Where(t, {"destroy_surface"}, {"destroy"})
         /\ Chosen(t) => Where(t, {"create_swapchain"}, {"choose"})
         /\ ProxyTried(t) => Where(t, {"create_swapchain"}, {"proxy"})
         /\ FixedCreated(t) => Where(t, {"create_swapchain"}, {"fixed"})
         /\ FixedSetUp(t) => Where(t, {"create_swapchain"}, {"setup"})
         /\ FixedUndone(t) => Where(t, {"create_swapchain"}, {"undo"})
         /\ Unwrapped(t) => Where(t, {"create_swapchain"}, {"plain", "native"})
         /\ Inserted(t) => Where(t, {"create_swapchain"}, {"insert"})
         /\ SwapchainRemoved(t) => Where(t, {"destroy_swapchain"}, {"remove"})
         /\ WrapperTaken(t) => Where(t, {"destroy_swapchain", "destroy_device"}, {"drop"})
         /\ FixedDropped(t) => Where(t, {"destroy_swapchain", "destroy_device"}, {"queue"})
         /\ SwapchainDestroyed(t) => Where(t, {"destroy_swapchain", "destroy_device"}, {"destroy"})
         /\ ProxyDestroyed(t) => Where(t, {"destroy_swapchain"}, {"drop"})
         /\ PresentInvalidated(t) => Where(t, {"present"}, {"route"})
         /\ PresentForwarded(t) => Where(t, {"present"}, {"route"})
         /\ ForwardDone(t) => Where(t, {"present"}, {"forward"})
         /\ PresentLocked(t) => Where(t, {"present"}, {"route"})
         /\ PresentDone(t) => Where(t, {"present"}, {"queue"})
         /\ Acquired(t) => Where(t, {"acquire"}, {"wait"})
         /\ Submitting(t) => Where(t, {"submit"}, {"wait"})
         /\ QueueDone(t) => Where(t, {"acquire", "submit"}, {"queue"})
  <1>1. InstanceCreated(t) => Where(t, {"create_instance"}, {"create"})
    BY InsideIs DEF InstanceCreated, Where
  <1>2. InstanceDestroyed(t) => Where(t, {"destroy_instance"}, {"destroy"})
    BY InsideIs DEF InstanceDestroyed, Where
  <1>3. DeviceCreated(t) => Where(t, {"create_device"}, {"create"})
    BY InsideIs DEF DeviceCreated, Where
  <1>4. DeviceRemoved(t) => Where(t, {"destroy_device"}, {"remove"})
    BY InsideIs DEF DeviceRemoved, Where
  <1>5. GeneratorDropped(t) => Where(t, {"destroy_device"}, {"drop"})
    BY InsideIs DEF GeneratorDropped, Where
  <1>6. PoolDestroyed(t) => Where(t, {"destroy_device"}, {"pool"})
    BY InsideIs DEF PoolDestroyed, Where
  <1>7. DeviceDestroyed(t) => Where(t, {"destroy_device"}, {"device"})
    BY InsideIs DEF DeviceDestroyed, Where
  <1>8. LayerBefore(t) => Where(t, {"create_surface"}, {"before"})
    BY AtIs DEF LayerBefore, Where
  <1>9. SurfaceCreated(t) => Where(t, {"create_surface"}, {"create"})
    BY AtIs DEF SurfaceCreated, Where
  <1>10. LayerRegistered(t) => Where(t, {"create_surface"}, {"layer"})
    BY AtIs DEF LayerRegistered, Where
  <1>11. SurfaceRegistered(t) => Where(t, {"create_surface"}, {"surface"})
    BY AtIs DEF SurfaceRegistered, Where
  <1>12. SurfaceForgotten(t) => Where(t, {"destroy_surface"}, {"forget"})
    BY AtIs DEF SurfaceForgotten, Where
  <1>13. LayerForgotten(t) => Where(t, {"destroy_surface"}, {"layer"})
    BY AtIs DEF LayerForgotten, Where
  <1>14. SurfaceDestroyed(t) => Where(t, {"destroy_surface"}, {"destroy"})
    BY AtIs DEF SurfaceDestroyed, Where
  <1>15. Chosen(t) => Where(t, {"create_swapchain"}, {"choose"})
    BY InsideIs DEF Chosen, Where
  <1>16. ProxyTried(t) => Where(t, {"create_swapchain"}, {"proxy"})
    BY InsideIs DEF ProxyTried, Where
  <1>17. FixedCreated(t) => Where(t, {"create_swapchain"}, {"fixed"})
    BY InsideIs DEF FixedCreated, Where
  <1>18. FixedSetUp(t) => Where(t, {"create_swapchain"}, {"setup"})
    BY InsideIs DEF FixedSetUp, Where
  <1>19. FixedUndone(t) => Where(t, {"create_swapchain"}, {"undo"})
    BY InsideIs DEF FixedUndone, Where
  <1>20. Unwrapped(t) => Where(t, {"create_swapchain"}, {"plain", "native"})
    BY InsideIs DEF Unwrapped, Where
  <1>21. Inserted(t) => Where(t, {"create_swapchain"}, {"insert"})
    BY InsideIs DEF Inserted, Where
  <1>22. SwapchainRemoved(t) => Where(t, {"destroy_swapchain"}, {"remove"})
    BY InsideIs DEF SwapchainRemoved, Where
  <1>23. WrapperTaken(t) => Where(t, {"destroy_swapchain", "destroy_device"}, {"drop"})
    BY InsideIs DEF WrapperTaken, Destroying, Where
  <1>24. FixedDropped(t) => Where(t, {"destroy_swapchain", "destroy_device"}, {"queue"})
    BY InsideIs DEF FixedDropped, Destroying, Where
  <1>25. SwapchainDestroyed(t) => Where(t, {"destroy_swapchain", "destroy_device"}, {"destroy"})
    BY InsideIs DEF SwapchainDestroyed, Destroying, Where
  <1>26. ProxyDestroyed(t) => Where(t, {"destroy_swapchain"}, {"drop"})
    BY InsideIs DEF ProxyDestroyed, Where
  <1>27. PresentInvalidated(t) => Where(t, {"present"}, {"route"})
    BY InsideIs DEF PresentInvalidated, Where
  <1>28. PresentForwarded(t) => Where(t, {"present"}, {"route"})
    BY InsideIs DEF PresentForwarded, Where
  <1>29. PresentLocked(t) => Where(t, {"present"}, {"route"})
    BY InsideIs DEF PresentLocked, Where
  <1>30. PresentDone(t) => Where(t, {"present"}, {"queue"})
    BY InsideIs DEF PresentDone, Where
  <1>31. Acquired(t) => Where(t, {"acquire"}, {"wait"})
    BY AtIs DEF Acquired, Where
  <1>32. Submitting(t) => Where(t, {"submit"}, {"wait"})
    BY AtIs DEF Submitting, Where
  <1>33. QueueDone(t) => Where(t, {"acquire", "submit"}, {"queue"})
    BY AtIs DEF QueueDone, Where
  <1>34. ForwardDone(t) => Where(t, {"present"}, {"forward"})
    BY InsideIs DEF ForwardDone, Where
  <1> QED
    BY <1>1, <1>2, <1>3, <1>4, <1>5, <1>6, <1>7, <1>8, <1>9, <1>10, <1>11, <1>12, <1>13,
       <1>14, <1>15, <1>16, <1>17, <1>18, <1>19, <1>20, <1>21, <1>22, <1>23, <1>24,
       <1>25, <1>26, <1>27, <1>28, <1>29, <1>30, <1>31, <1>32, <1>33, <1>34

(* Steps of a call that are none of its destruction or creation of one kind.*)
LEMMA StepCases ==
  ASSUME CallsInv, NEW t \in Threads, Step(t)
  PROVE  /\ Rests(t) \/ Moves(t) \/ Ends(t)
         /\ call[t].op = "create_surface" =>
              \/ LayerBefore(t) \/ SurfaceCreated(t) \/ LayerRegistered(t) \/ SurfaceRegistered(t)
              \/ Rests(t)
         /\ call[t].op = "destroy_surface" =>
              SurfaceForgotten(t) \/ LayerForgotten(t) \/ SurfaceDestroyed(t) \/ Rests(t)
         /\ call[t].op = "destroy_device" =>
              \/ DeviceRemoved(t) \/ GeneratorDropped(t) \/ PoolDestroyed(t) \/ DeviceDestroyed(t)
              \/ WrapperTaken(t) \/ FixedDropped(t) \/ SwapchainDestroyed(t) \/ Rests(t)
         /\ call[t].op = "destroy_instance" => InstanceDestroyed(t) \/ Rests(t)
         /\ call[t].op = "create_swapchain" =>
              \/ Chosen(t) \/ ProxyTried(t) \/ FixedCreated(t) \/ FixedSetUp(t) \/ FixedUndone(t)
              \/ Unwrapped(t) \/ Inserted(t) \/ Rests(t)
         /\ call[t].op = "destroy_swapchain" =>
              \/ SwapchainRemoved(t) \/ WrapperTaken(t) \/ FixedDropped(t)
              \/ SwapchainDestroyed(t) \/ ProxyDestroyed(t) \/ Rests(t)
         /\ call[t].op = "present" =>
              \/ PresentInvalidated(t) \/ PresentForwarded(t) \/ ForwardDone(t)
              \/ PresentLocked(t) \/ PresentDone(t) \/ Rests(t)
         /\ call[t].op = "acquire" => Acquired(t) \/ QueueDone(t) \/ Rests(t)
  <1>1. Rests(t) \/ Moves(t) \/ Ends(t)
    BY SurfaceMoves, DeviceMoves, CreateMoves, DestroyMoves, PresentMoves
       DEF Step, Locking, Rests
  <1>2. Locking(t) => Rests(t)
    BY DEF Locking, Rests
  <1> QED
    BY <1>1, <1>2, WhereIs DEF Step, Where

-----------------------------------------------------------------------------
(* Surfaces.  A surface the game holds is registered, with its layer; one   *)
(* that is registered is held or about to be forgotten.                     *)

Forgetting(s) ==
  \E t \in Threads :
    call[t].op = "destroy_surface" /\ call[t].step = "forget" /\ call[t].s = s

SurfacesInv ==
  /\ \A s \in DOMAIN surfaces :
       /\ s \in Surfaces /\ surfaces[s] = LayerOf[s]
       /\ s \in owned \/ Forgetting(s)
  /\ owned \cap Surfaces \subseteq DOMAIN surfaces

(* A surface that is made while one of its layer is destroyed is known; but *)
(* for such, a layer that is let go of is no surface's, and one that is to  *)
(* get a surface is registered.                                             *)
Making(t) == call[t].op = "create_surface" /\ call[t].step = "surface"
Letting(t) == call[t].op = "destroy_surface" /\ call[t].step = "layer" /\ ~call[t].shared_layer

LayersInv ==
  /\ \A t, u \in Threads :
       /\ call[t].op = "create_surface" /\ call[u].op = "destroy_surface"
       /\ LayerOf[call[t].s] = LayerOf[call[u].s]
       => call[t].s \in beside
  /\ \A t \in Threads : Making(t) /\ call[t].s \notin beside => LayerOf[call[t].s] \in vulkanLayers
  /\ \A t \in Threads :
       Letting(t) => \A s \in (owned \cap Surfaces) \ beside : LayerOf[s] # LayerOf[call[t].s]
  /\ LayersOwned

(* What becomes of the surfaces the game owns.                              *)
LEMMA OwnedSurfaces ==
  ASSUME CallsInv, RulesInv, NEW t \in Threads, Play(t) \/ Step(t) \/ Woken(t)
  PROVE  \/ owned' \cap Surfaces = owned \cap Surfaces
         \/ SurfaceRegistered(t) /\ owned' = owned \cup {call[t].s}
         \/ DestroySurface(t) /\ owned' = owned \ {call'[t].s}
  <1>1. CASE DestroyInstance(t)
    BY <1>1, DestroyInstanceDoes, LayerAssumption
  <1>2. CASE DestroyDevice(t)
    BY <1>2, DestroyDeviceDoes, LayerAssumption
  <1>3. CASE DestroySurface(t)
    BY <1>3, DestroySurfaceDoes
  <1>4. CASE InstanceCreated(t)
    BY <1>4, LayerAssumption DEF InstanceCreated
  <1>5. CASE DeviceCreated(t)
    <2>1. call[t].d \in Devices
      BY <1>5, WhereIs DEF Where, RulesInv, UsesRight
    <2>2. owned' \in {owned, owned \cup {call[t].d}}
      BY <1>5 DEF DeviceCreated
    <2> QED
      BY <2>1, <2>2, LayerAssumption
  <1>6. CASE SurfaceRegistered(t)
    BY <1>6 DEF SurfaceRegistered
  <1>7. CASE UNCHANGED owned
    BY <1>7
  <1> QED
    BY <1>1, <1>2, <1>3, <1>4, <1>5, <1>6, <1>7, StepFrames, PlayFrames
       DEF Framed, ChangesOwned

(* The map of surfaces has every surface of the game, and those that go.    *)
LEMMA SurfacesKept ==
  ASSUME CallsInv, RulesInv, SurfacesInv, NEW t \in Threads, Play(t) \/ Step(t) \/ Woken(t)
  PROVE  SurfacesInv'
  <1>1. CASE SurfaceRegistered(t)
    <2>1. /\ surfaces' = With(surfaces, call[t].s, LayerOf[call[t].s])
          /\ owned' = owned \cup {call[t].s}
      BY <1>1 DEF SurfaceRegistered
    <2>2. call[t].s \in Surfaces /\ call[t].op = "create_surface"
      BY <1>1, WhereIs DEF Where, RulesInv, UsesRight
    <2>3. Others(t)
      BY <1>1, EndDoes DEF SurfaceRegistered, Leave
    <2>4. \A s : Forgetting(s) => Forgetting(s)'
      BY <2>2, <2>3 DEF Forgetting, Others
    <2> QED
      BY <2>1, <2>2, <2>4 DEF SurfacesInv, With
  <1>2. CASE SurfaceForgotten(t)
    <2>1. /\ surfaces' = Restrict(surfaces, DOMAIN surfaces \ {call[t].s}) /\ owned' = owned
          /\ Others(t)
      BY <1>2, ForgottenDoes DEF SurfaceForgotten, game
    <2>2. call[t].s \in Surfaces \ owned
      BY <1>2, WhereIs DEF Where, RulesInv, UsesRight
    <2>3. \A s : Forgetting(s) /\ s # call[t].s => Forgetting(s)'
      BY <2>1 DEF Forgetting, Others
    <2> QED
      BY <2>1, <2>2, <2>3 DEF SurfacesInv, Restrict
  <1>3. CASE DestroySurface(t)
    <2>1. PICK s : /\ s = call'[t].s /\ owned' = owned \ {s} /\ surfaces' = surfaces
                   /\ Begins(t) /\ call'[t].op = "destroy_surface" /\ call'[t].step = "forget"
      BY <1>3, DestroySurfaceDoes DEF registry
    <2>2. Forgetting(s)' /\ \A r : Forgetting(r) => Forgetting(r)'
      BY <2>1, IdleFields DEF Forgetting, Begins, Others
    <2> QED
      BY <2>1, <2>2 DEF SurfacesInv
  <1>4. CASE ~SurfaceRegistered(t) /\ ~SurfaceForgotten(t) /\ ~DestroySurface(t)
    <2>1. owned' \cap Surfaces = owned \cap Surfaces
      BY <1>4, OwnedSurfaces
    <2>2. surfaces' = surfaces
      BY <1>4, StepFrames, PlayFrames DEF Framed, ChangesSurfaces, registry
    <2>3. \A s : Forgetting(s) => Forgetting(s)'
      <3>1. CASE Rests(t) \/ Begins(t)
        BY <3>1, IdleFields DEF Forgetting, Rests, Begins, Others
      <3>2. CASE ~(Rests(t) \/ Begins(t))
        <4>1. Step(t)
          BY <3>2, PlaySkeleton
        <4>2. call[t].op = "destroy_surface" => call[t].step # "forget"
          BY <1>4, <3>2, <4>1, StepCases, WhereIs DEF Where
        <4>3. Others(t)
          BY <3>2, Skeleton DEF Moves, Ends
        <4> QED
          BY <4>2, <4>3 DEF Forgetting, Others
      <3> QED
        BY <3>1, <3>2
    <2> QED
      BY <2>1, <2>2, <2>3 DEF SurfacesInv
  <1> QED
    BY <1>1, <1>2, <1>3, <1>4

(* Where a thread is at a surface after a step.                             *)
LEMMA SurfaceCalls ==
  ASSUME CallsInv, NEW t \in Threads, Play(t) \/ Step(t) \/ Woken(t),
         NEW u \in Threads, call'[u].op \in {"create_surface", "destroy_surface"}
  PROVE  \/ call'[u].op = call[u].op /\ call'[u].s = call[u].s
         \/ u = t /\ call[t] = Idle /\ (CreateSurface(t) \/ DestroySurface(t))
  <1>1. CASE u # t
    BY <1>1, OthersStay DEF Others
  <1>2. CASE u = t /\ (Rests(t) \/ Moves(t) \/ Ends(t))
    BY <1>2, IdleFields DEF Rests, Moves, Ends, SameCall
  <1>3. CASE u = t /\ Begins(t)
    <2>1. call[t] = Idle
      BY <1>3 DEF Begins
    <2>2. Step(t) => Rests(t) \/ Moves(t) \/ Ends(t)
      BY StepCases
    <2>3. CASE Play(t)
      <3>1. CreateInstance(t) \/ DestroyInstance(t) \/ CreateDevice(t) \/ DestroyDevice(t)
              => call'[t].op \notin {"create_surface", "destroy_surface"}
        BY CreateInstanceDoes, DestroyInstanceDoes, CreateDeviceDoes, DestroyDeviceDoes
      <3>2. CreateSwapchain(t) \/ DestroySwapchain(t) \/ Present(t) \/ Acquire(t) \/ Submit(t)
              => call'[t].op \notin {"create_surface", "destroy_surface"}
        BY CreateSwapchainDoes, DestroySwapchainDoes, PresentDoes, AcquireDoes, SubmitDoes
      <3>3. Ask(t) => UNCHANGED call
        BY DEF Ask
      <3> QED
        BY <1>3, <2>1, <2>3, <3>1, <3>2, <3>3 DEF Play
    <2>4. CASE Woken(t)
      BY <1>3, <2>4 DEF Woken
    <2> QED
      BY <1>2, <1>3, <2>2, <2>3, <2>4
  <1> QED
    BY <1>1, <1>2, <1>3, Skeleton

(* What was made beside a destruction stays known for that.                 *)
LEMMA BesideStays ==
  ASSUME CallsInv, RulesInv, NEW t \in Threads, Play(t) \/ Step(t) \/ Woken(t),
         NEW s \in beside,
         s \in owned \/ \E u \in Threads : call[u].op = "create_surface" /\ call[u].s = s
  PROVE  s \in beside'
  <1>1. CASE CreateSurface(t)
    <2>1. /\ Begins(t) /\ call'[t].s \notin owned /\ call'[t].alone = {call'[t].s}
          /\ beside \ {call'[t].s} \subseteq beside'
      BY <1>1, CreateSurfaceDoes
    <2>2. ASSUME NEW u \in Threads, call[u].op = "create_surface", call[u].s = s
          PROVE  s # call'[t].s
      <3>1. u \in Busy
        BY <2>2, IdleFields DEF Busy
      <3>2. s \in call[u].alone
        BY <2>2 DEF RulesInv, UsesRight
      <3> QED
        BY <2>1, <3>1, <3>2 DEF Begins, Conflict
    <2> QED
      BY <2>1, <2>2
  <1>2. CASE DestroySurface(t)
    BY <1>2, DestroySurfaceDoes
  <1>3. CASE UNCHANGED beside
    BY <1>3
  <1> QED
    BY <1>1, <1>2, <1>3, StepFrames, PlayFrames DEF Framed

(* A creation and a destruction on one layer do not meet unknown.           *)
LEMMA RacesKnown ==
  ASSUME CallsInv, RulesInv, LayersInv, NEW t \in Threads, Play(t) \/ Step(t) \/ Woken(t),
         NEW u \in Threads, NEW v \in Threads,
         call'[u].op = "create_surface", call'[v].op = "destroy_surface",
         LayerOf[call'[u].s] = LayerOf[call'[v].s]
  PROVE  call'[u].s \in beside'
  <1>1. CASE /\ call'[u].op = call[u].op /\ call'[u].s = call[u].s
             /\ call'[v].op = call[v].op /\ call'[v].s = call[v].s
    <2>1. call[u].s \in beside
      BY <1>1 DEF LayersInv
    <2> QED
      BY <1>1, <2>1, BesideStays
  <1>2. CASE u = t /\ call[t] = Idle /\ CreateSurface(t)
    <2>1. v # t
      BY <1>2
    <2>2. call'[v] = call[v]
      BY <2>1, OthersStay DEF Others
    <2>3. v \in SameLayer("destroy_surface", call'[t].s)
      BY <1>2, <2>2, IdleFields DEF SameLayer, Busy
    <2> QED
      BY <1>2, <2>3, CreateSurfaceDoes
  <1>3. CASE v = t /\ call[t] = Idle /\ DestroySurface(t)
    <2>1. u # t
      BY <1>3
    <2>2. call'[u] = call[u]
      BY <2>1, OthersStay DEF Others
    <2>3. u \in SameLayer("create_surface", call'[t].s)
      BY <1>3, <2>2, IdleFields DEF SameLayer, Busy
    <2> QED
      BY <1>3, <2>2, <2>3, DestroySurfaceDoes
  <1>4. CreateSurface(t) => call'[t].op = "create_surface"
    BY CreateSurfaceDoes
  <1>5. DestroySurface(t) => call'[t].op = "destroy_surface"
    BY DestroySurfaceDoes
  <1> QED
    BY <1>1, <1>2, <1>3, <1>4, <1>5, SurfaceCalls

(* The layer of a surface that is there or comes is registered.             *)
LEMMA LayersKept ==
  ASSUME CallsInv, RulesInv, SurfacesInv, LayersInv,
         NEW t \in Threads, Play(t) \/ Step(t) \/ Woken(t)
  PROVE  LayersInv'
  <1>1. Others(t)
    BY OthersStay
  <1>2. \A u \in Threads : UsesRight(call[u])
    BY DEF RulesInv
  <1>3. \A u, v \in Threads :
          /\ call'[u].op = "create_surface" /\ call'[v].op = "destroy_surface"
          /\ LayerOf[call'[u].s] = LayerOf[call'[v].s]
          => call'[u].s \in beside'
    BY RacesKnown
  <1>a. ASSUME \A u \in Threads : Making(u)' /\ call'[u].s \notin beside' => LayerOf[call'[u].s] \in vulkanLayers',
               \A u \in Threads : Letting(u)' =>
                 \A s \in (owned' \cap Surfaces) \ beside' : LayerOf[s] # LayerOf[call'[u].s],
               \A s \in (owned' \cap Surfaces) \ beside' : LayerOf[s] \in vulkanLayers'
        PROVE  LayersInv'
    BY <1>3, <1>a DEF LayersInv, LayersOwned
  <1>4. CASE LayerForgotten(t)
    <2>1. /\ vulkanLayers' = IF call[t].shared_layer THEN vulkanLayers
                             ELSE vulkanLayers \ {LayerOf[call[t].s]}
          /\ UNCHANGED <<owned, beside>> /\ call'[t].step = "destroy" /\ call'[t].op = call[t].op
          /\ call[t].op = "destroy_surface" /\ call[t].step = "layer"
      BY <1>4, AtIs, GotoDoes DEF LayerForgotten, SameCall, game
    <2>2. \A u \in Threads : Making(u)' /\ call'[u].s \notin beside' => LayerOf[call'[u].s] \in vulkanLayers'
      <3> SUFFICES ASSUME NEW u \in Threads, Making(u)', call'[u].s \notin beside'
                   PROVE  LayerOf[call'[u].s] \in vulkanLayers'
        OBVIOUS
      <3>1. u # t
        BY <2>1 DEF Making
      <3>2. call'[u] = call[u] /\ Making(u) /\ call[u].s \notin beside
        BY <1>1, <2>1, <3>1 DEF Others, Making
      <3>3. LayerOf[call[u].s] \in vulkanLayers /\ LayerOf[call[u].s] # LayerOf[call[t].s]
        BY <2>1, <3>2 DEF LayersInv, Making
      <3> QED
        BY <2>1, <3>2, <3>3
    <2>3. \A u \in Threads : Letting(u)' =>
            \A s \in (owned' \cap Surfaces) \ beside' : LayerOf[s] # LayerOf[call'[u].s]
      BY <1>1, <2>1 DEF Others, LayersInv, Letting
    <2>4. \A s \in (owned' \cap Surfaces) \ beside' : LayerOf[s] \in vulkanLayers'
      BY <2>1 DEF LayersInv, LayersOwned, Letting
    <2> QED
      BY <1>a, <2>2, <2>3, <2>4
  <1>5. CASE SurfaceForgotten(t)
    <2>1. /\ vulkanLayers' = vulkanLayers /\ UNCHANGED <<owned, beside>>
          /\ call'[t].op = "destroy_surface" /\ call'[t].s = call[t].s
          /\ call'[t].shared_layer = (call[t].s \notin DOMAIN surfaces \/ UsedElsewhere(call[t].s))
      BY <1>5, AtIs, ForgottenDoes DEF SurfaceForgotten, SameCall, game
    <2>2. call[t].s \notin owned
      BY <1>2, <1>5, WhereIs DEF Where, UsesRight
    <2>3. \A u \in Threads : Making(u)' /\ call'[u].s \notin beside' => LayerOf[call'[u].s] \in vulkanLayers'
      BY <1>1, <2>1 DEF Others, LayersInv, Making
    <2>4. ~call'[t].shared_layer =>
            \A s \in owned' \cap Surfaces : LayerOf[s] # LayerOf[call'[t].s]
      BY <2>1, <2>2 DEF UsedElsewhere, SurfacesInv
    <2>5. \A u \in Threads : Letting(u)' =>
            \A s \in (owned' \cap Surfaces) \ beside' : LayerOf[s] # LayerOf[call'[u].s]
      BY <1>1, <2>1, <2>4 DEF Others, LayersInv, Letting
    <2>6. \A s \in (owned' \cap Surfaces) \ beside' : LayerOf[s] \in vulkanLayers'
      BY <2>1 DEF LayersInv, LayersOwned
    <2> QED
      BY <1>a, <2>3, <2>5, <2>6
  <1>6. CASE SurfaceRegistered(t)
    <2>1. /\ vulkanLayers' = vulkanLayers /\ owned' = owned \cup {call[t].s} /\ beside' = beside
          /\ call'[t] = Idle /\ Making(t)
      BY <1>6, WhereIs, EndDoes DEF SurfaceRegistered, Where, Leave, Making
    <2>2. \A u \in Threads : Making(u)' /\ call'[u].s \notin beside' => LayerOf[call'[u].s] \in vulkanLayers'
      BY <1>1, <2>1, IdleFields DEF Others, LayersInv, Making
    <2>3. \A u \in Threads : Letting(u)' =>
            \A s \in (owned' \cap Surfaces) \ beside' : LayerOf[s] # LayerOf[call'[u].s]
      BY <1>1, <2>1, IdleFields DEF Others, LayersInv, Letting, Making
    <2>4. \A s \in (owned' \cap Surfaces) \ beside' : LayerOf[s] \in vulkanLayers'
      BY <2>1 DEF LayersInv, LayersOwned
    <2> QED
      BY <1>a, <2>2, <2>3, <2>4
  <1>7. CASE LayerRegistered(t)
    <2>1. /\ vulkanLayers' = vulkanLayers \cup {LayerOf[call[t].s]} /\ UNCHANGED <<owned, beside>>
          /\ call'[t].op = "create_surface" /\ call'[t].s = call[t].s
      BY <1>7, AtIs, GotoDoes DEF LayerRegistered, Register, SameCall, game
    <2>2. \A u \in Threads : Making(u)' /\ call'[u].s \notin beside' => LayerOf[call'[u].s] \in vulkanLayers'
      BY <1>1, <2>1 DEF Others, LayersInv, Making
    <2>3. \A u \in Threads : Letting(u)' =>
            \A s \in (owned' \cap Surfaces) \ beside' : LayerOf[s] # LayerOf[call'[u].s]
      BY <1>1, <2>1 DEF Others, LayersInv, Letting
    <2>4. \A s \in (owned' \cap Surfaces) \ beside' : LayerOf[s] \in vulkanLayers'
      BY <2>1 DEF LayersInv, LayersOwned
    <2> QED
      BY <1>a, <2>2, <2>3, <2>4
  <1>8. CASE ~(LayerForgotten(t) \/ SurfaceForgotten(t) \/ SurfaceRegistered(t) \/ LayerRegistered(t))
    <2>1. /\ owned' \cap Surfaces \subseteq owned \cap Surfaces
          /\ \A s \in owned' \cap Surfaces : s \notin beside' => s \notin beside
      <3>1. owned' \cap Surfaces \subseteq owned \cap Surfaces
        BY <1>8, OwnedSurfaces
      <3> QED
        BY <3>1, BesideStays
    <2>2. vulkanLayers \subseteq vulkanLayers'
      <3>1. CASE LayerBefore(t)
        BY <3>1 DEF LayerBefore, Register
      <3> QED
        BY <1>8, <3>1, StepFrames, PlayFrames DEF Framed, ChangesVulkanLayers, registry
    <2>3. call'[t] = call[t] \/ (~Making(t)' /\ ~Letting(t)')
      <3>1. CASE Rests(t)
        BY <3>1 DEF Rests
      <3>2. CASE Play(t) \/ Woken(t)
        <4>1. Begins(t) => ~Making(t)' /\ ~Letting(t)'
          BY DEF Begins, AtFirst, Making, Letting
        <4> QED
          BY <3>1, <3>2, <4>1, PlaySkeleton
      <3>3. CASE Step(t) /\ ~Rests(t)
        <4>1. CASE Ends(t)
          BY <4>1, IdleFields DEF Ends, Making, Letting
        <4>2. CASE LayerBefore(t)
          BY <4>2, AtIs, GotoDoes DEF LayerBefore, SameCall, Making, Letting
        <4>3. CASE SurfaceCreated(t)
          BY <4>3, AtIs, GotoDoes, EndDoes, IdleFields DEF SurfaceCreated, Leave, SameCall, Making, Letting
        <4>4. CASE SurfaceDestroyed(t)
          BY <4>4, EndDoes, IdleFields DEF SurfaceDestroyed, Leave, Making, Letting
        <4>5. CASE Moves(t) /\ call[t].op \notin {"create_surface", "destroy_surface"}
          BY <4>5 DEF Moves, SameCall, Making, Letting
        <4> QED
          BY <1>8, <3>3, <4>1, <4>2, <4>3, <4>4, <4>5, StepCases
      <3> QED
        BY <3>1, <3>2, <3>3
    <2>4. \A u \in Threads : call'[u] = call[u] \/ (~Making(u)' /\ ~Letting(u)')
      BY <1>1, <2>3 DEF Others
    <2>5. \A u \in Threads : Making(u)' /\ call'[u].s \notin beside' => LayerOf[call'[u].s] \in vulkanLayers'
      <3> SUFFICES ASSUME NEW u \in Threads, Making(u)', call'[u].s \notin beside'
                   PROVE  LayerOf[call'[u].s] \in vulkanLayers'
        OBVIOUS
      <3>1. call'[u] = call[u] /\ Making(u)
        BY <2>4 DEF Making
      <3>2. call[u].s \notin beside
        BY <3>1, BesideStays DEF Making
      <3> QED
        BY <2>2, <3>1, <3>2 DEF LayersInv
    <2>6. \A u \in Threads : Letting(u)' =>
            \A s \in (owned' \cap Surfaces) \ beside' : LayerOf[s] # LayerOf[call'[u].s]
      BY <2>1, <2>4 DEF LayersInv, Letting
    <2>7. \A s \in (owned' \cap Surfaces) \ beside' : LayerOf[s] \in vulkanLayers'
      BY <2>1, <2>2 DEF LayersInv, LayersOwned
    <2> QED
      BY <1>a, <2>5, <2>6, <2>7
  <1> QED
    BY <1>4, <1>5, <1>6, <1>7, <1>8

-----------------------------------------------------------------------------
(* What swapchains are built on: the instance, the devices, their pools and *)
(* generators.  A device is there while the game owns it or its destruction *)
(* is under way, and a hooked one has its pool until the step that takes it.*)

Formed == \A o \in live : o = Object(o.kind, o.id, o.on)

BaseKinds == {"instance", "device", "pool", "generator"}
Base == {o \in live : o.kind \in BaseKinds}

Going(d, steps) ==
  \E t \in Threads :
    call[t].op = "destroy_device" /\ call[t].step \in steps /\ call[t].d = d
Dropping == {"drop", "queue", "destroy"}
Removing == {"remove", "drop", "queue", "destroy", "pool", "device"}
InstanceGoing == \E t \in Threads : call[t].op = "destroy_instance"

DevicesInv ==
  \A d \in DOMAIN devices :
    /\ devices[d] = [hook |-> devices[d].hook, proxy |-> devices[d].proxy]
    /\ d \in Devices /\ (d \in owned \/ Going(d, {"remove"}))
    /\ devices[d].hook => Object("pool", d, d) \in Base

WellBased(o) ==
  /\ o.kind = "instance" => o = Object("instance", Instance, None)
  /\ o.kind = "device" =>
       o.on = Instance /\ o.id \in Devices /\ (o.id \in owned \/ Going(o.id, Removing))
  /\ o.kind = "pool" =>
       o.on = o.id /\ o.on \in Devices /\ (Hooked(o.on) \/ Going(o.on, Dropping \cup {"pool"}))
  /\ o.kind = "generator" =>
       o.on = o.id /\ o.on \in Devices /\ (Hooked(o.on) \/ Going(o.on, Dropping))

ObjectsInv == \A o \in Base : WellBased(o)

DevicesLive ==
  \A d \in Devices : d \in owned \/ Going(d, Removing) => Object("device", d, Instance) \in Base

InstanceInv ==
  /\ (instance # "none") <=> (Instance \in owned \/ InstanceGoing)
  /\ (Object("instance", Instance, None) \in Base) <=> (Instance \in owned \/ InstanceGoing)

BaseInv == DevicesInv /\ ObjectsInv /\ DevicesLive /\ InstanceInv

(* The fields of an object.                                                 *)
LEMMA ObjectIs ==
  ASSUME NEW kind, NEW id, NEW on
  PROVE  LET o == Object(kind, id, on)
         IN o.kind = kind /\ o.id = id /\ o.on = on /\ o = Object(o.kind, o.id, o.on)
  BY DEF Object

ChangesBase(t) ==
  \/ InstanceCreated(t) \/ InstanceDestroyed(t) \/ DeviceCreated(t)
  \/ GeneratorDropped(t) \/ PoolDestroyed(t) \/ DeviceDestroyed(t) \/ PresentDone(t)

(* The steps that make and destroy swapchains and surfaces leave the rest   *)
(* alone.                                                                   *)
LEMMA BaseFrames ==
  ASSUME Formed, NEW t \in Threads, Play(t) \/ Step(t) \/ Woken(t)
  PROVE  Formed' /\ (Base' = Base \/ ChangesBase(t))
  <1>a. ASSUME NEW kind, NEW id, NEW on, kind \notin BaseKinds,
               live' = live \cup {Object(kind, id, on)}
        PROVE  Formed' /\ Base' = Base
    BY <1>a DEF Formed, Base, Object
  <1>b. ASSUME NEW kind, NEW id, kind \notin BaseKinds, live' = Without({kind}, id)
        PROVE  Formed' /\ Base' = Base
    BY <1>b DEF Formed, Base, Without
  <1>c. ASSUME live' = live
        PROVE  Formed' /\ Base' = Base
    BY <1>c DEF Formed, Base
  <1>d. "surface" \notin BaseKinds /\ "swapchain" \notin BaseKinds /\ "proxy" \notin BaseKinds
        /\ "fixed" \notin BaseKinds
    BY DEF BaseKinds
  <1>1. CASE SurfaceCreated(t)
    BY <1>1, <1>a, <1>c, <1>d DEF SurfaceCreated
  <1>2. CASE SurfaceDestroyed(t)
    BY <1>2, <1>b, <1>d DEF SurfaceDestroyed
  <1>3. CASE ProxyTried(t)
    BY <1>3, <1>a, <1>c, <1>d DEF ProxyTried
  <1>4. CASE FixedCreated(t)
    BY <1>4, <1>a, <1>c, <1>d DEF FixedCreated, Driver, Makes
  <1>5. CASE FixedSetUp(t)
    BY <1>5, <1>a, <1>b, <1>d DEF FixedSetUp
  <1>6. CASE Unwrapped(t)
    BY <1>6, <1>a, <1>c, <1>d DEF Unwrapped, Driver, Makes
  <1>7. CASE WrapperTaken(t)
    BY <1>7, <1>b, <1>d DEF WrapperTaken
  <1>8. CASE FixedDropped(t)
    BY <1>8, <1>b, <1>d DEF FixedDropped
  <1>9. CASE SwapchainDestroyed(t)
    BY <1>9, <1>b, <1>d DEF SwapchainDestroyed
  <1>10. CASE ChangesBase(t)
    <2>1. CASE InstanceCreated(t)
      BY <2>1, <1>10 DEF InstanceCreated, Formed, Object
    <2>2. CASE InstanceDestroyed(t)
      BY <2>2, <1>10 DEF InstanceDestroyed, Formed, Without
    <2>3. CASE DeviceCreated(t)
      <3>1. \A o \in live' : \/ o \in live
                              \/ o = Object("device", call[t].d, Instance)
                              \/ o = Object("pool", call[t].d, call[t].d)
        BY <2>3 DEF DeviceCreated, HookedDevice, PlainDevice
      <3> QED
        BY <2>3, <1>10, <3>1, ObjectIs DEF Formed
    <2>4. CASE GeneratorDropped(t) \/ PoolDestroyed(t) \/ DeviceDestroyed(t)
      BY <2>4, <1>10 DEF GeneratorDropped, PoolDestroyed, DeviceDestroyed, Formed, Without
    <2>5. CASE PresentDone(t)
      BY <2>5, <1>10 DEF PresentDone, Formed, Object
    <2> QED
      BY <1>10, <2>1, <2>2, <2>3, <2>4, <2>5 DEF ChangesBase
  <1>11. CASE UNCHANGED live
    BY <1>11, <1>c
  <1> QED
    BY <1>1, <1>2, <1>3, <1>4, <1>5, <1>6, <1>7, <1>8, <1>9, <1>10, <1>11, StepFrames, PlayFrames
       DEF Framed, ChangesLive, ChangesBase

(* Which devices are being destroyed, and how far.                          *)
LEMMA GoingOthers ==
  ASSUME NEW t \in Threads, Others(t),
         call[t].op # "destroy_device", call'[t].op # "destroy_device"
  PROVE  \A d, steps : Going(d, steps)' <=> Going(d, steps)
  BY DEF Going, Others

(* A device that is being destroyed is not the game's.                      *)
LEMMA GoingDevices ==
  ASSUME RulesInv
  PROVE  \A d, steps : Going(d, steps) => d \in Devices \ owned
  BY DEF RulesInv, UsesRight, Going

(* The one call that destroys a device is alone with it.                    *)
LEMMA GoingAlone ==
  ASSUME RulesInv, NEW t \in Threads, NEW d, d \in call[t].alone, call[t].op # "destroy_device"
  PROVE  \A steps : ~Going(d, steps)
  <1> SUFFICES ASSUME NEW u \in Threads, call[u].op = "destroy_device", call[u].d = d
               PROVE  FALSE
    BY DEF Going
  <1>1. d \in call[u].alone /\ u # t
    BY DEF RulesInv, UsesRight
  <1> QED
    BY <1>1, AloneIs DEF RulesInv

(* Which devices are going changes with the call that destroys one.         *)
LEMMA GoingOwn ==
  ASSUME CallsInv, RulesInv, NEW t \in Threads, Others(t), call[t].op = "destroy_device",
         SameCall(t) \/ call'[t] = Idle
  PROVE  /\ \A e, steps : e # call[t].d => (Going(e, steps)' <=> Going(e, steps))
         /\ \A steps : Going(call[t].d, steps) <=> call[t].step \in steps
         /\ \A d, steps : d = call[t].d =>
              (Going(d, steps)' <=> (SameCall(t) /\ call'[t].step \in steps))
  <1>1. \A u \in Threads : u # t /\ call[u].op = "destroy_device" => call[u].d # call[t].d
    BY AloneIs DEF RulesInv, UsesRight
  <1>2. \A e, steps : e # call[t].d => (Going(e, steps)' <=> Going(e, steps))
    BY IdleFields DEF Going, Others, SameCall
  <1>3. \A steps : Going(call[t].d, steps) <=> call[t].step \in steps
    BY <1>1 DEF Going
  <1>4. ASSUME NEW d, NEW steps, d = call[t].d
        PROVE  Going(d, steps)' <=> (SameCall(t) /\ call'[t].step \in steps)
    <2>1. \A u \in Threads : u # t => ~(call'[u].op = "destroy_device" /\ call'[u].d = d)
      BY <1>1, <1>4 DEF Others
    <2>2. Going(d, steps)' <=> (call'[t].op = "destroy_device" /\ call'[t].step \in steps /\ call'[t].d = d)
      BY <2>1 DEF Going
    <2>3. CASE SameCall(t)
      BY <1>4, <2>2, <2>3 DEF SameCall
    <2>4. CASE call'[t] = Idle
      BY <2>2, <2>4, IdleFields DEF SameCall
    <2> QED
      BY <2>3, <2>4
  <1> QED
    BY <1>2, <1>3, <1>4

GoingSame ==
  \A d : /\ Going(d, {"remove"})' <=> Going(d, {"remove"})
         /\ Going(d, Removing)' <=> Going(d, Removing)
         /\ Going(d, Dropping)' <=> Going(d, Dropping)
         /\ Going(d, Dropping \cup {"pool"})' <=> Going(d, Dropping \cup {"pool"})

(* The steps that leave the devices and what is built on them alone.        *)
LEMMA BaseStays ==
  ASSUME BaseInv, Base' = Base, UNCHANGED instance, GoingSame, InstanceGoing' <=> InstanceGoing,
         owned' \cap ({Instance} \cup Devices) = owned \cap ({Instance} \cup Devices),
         DOMAIN devices' = DOMAIN devices,
         \A d \in DOMAIN devices :
           /\ devices'[d] = [hook |-> devices'[d].hook, proxy |-> devices'[d].proxy]
           /\ devices'[d].hook = devices[d].hook
  PROVE  BaseInv'
  <1>1. DevicesInv /\ ObjectsInv /\ DevicesLive /\ InstanceInv
    BY DEF BaseInv
  <1>2. \A d : Hooked(d)' <=> Hooked(d)
    BY DEF Hooked
  <1>3. DevicesInv'
    BY <1>1 DEF DevicesInv, GoingSame
  <1>4. ObjectsInv'
    BY <1>1, <1>2 DEF ObjectsInv, WellBased, GoingSame
  <1>5. DevicesLive'
    BY <1>1 DEF DevicesLive, GoingSame
  <1>6. InstanceInv'
    BY <1>1 DEF InstanceInv
  <1> QED
    BY <1>3, <1>4, <1>5, <1>6 DEF BaseInv

(* The instance comes and goes.                                             *)
LEMMA InstanceBase ==
  ASSUME CallsInv, RulesInv, BaseInv, NEW t \in Threads,
         InstanceCreated(t) \/ InstanceDestroyed(t) \/ DestroyInstance(t)
  PROVE  BaseInv'
  <1>1. DevicesInv /\ ObjectsInv /\ DevicesLive /\ InstanceInv
    BY DEF BaseInv
  <1>2. Instance \notin Devices /\ \A u \in Threads : UsesRight(call[u])
    BY LayerAssumption DEF RulesInv
  <1>3. CASE InstanceCreated(t)
    <2>1. /\ Others(t) /\ call'[t] = Idle /\ call[t].op = "create_instance" /\ devices' = devices
          /\ \/ /\ instance' \in {"hooked", "plain"} /\ owned' = owned \cup {Instance}
                /\ live' = live \cup {Object("instance", Instance, None)}
             \/ UNCHANGED <<instance, live, owned>>
      BY <1>3, InsideIs, EndDoes DEF InstanceCreated, Return
    <2>2. \A d, steps : Going(d, steps)' <=> Going(d, steps)
      BY <2>1, GoingOthers, IdleFields
    <2>3. InstanceGoing' <=> InstanceGoing
      BY <2>1, IdleFields DEF InstanceGoing, Others
    <2>4. \A d : Hooked(d)' <=> Hooked(d)
      BY <2>1 DEF Hooked
    <2>5. Base' = Base \/ (Base' = Base \cup {Object("instance", Instance, None)})
      BY <2>1, ObjectIs DEF Base, BaseKinds
    <2>6. DevicesInv'
      BY <1>1, <2>1, <2>2, <2>5 DEF DevicesInv
    <2>7. ObjectsInv'
      <3>1. \A o : WellBased(o) => WellBased(o)'
        BY <2>1, <2>2, <2>4 DEF WellBased
      <3>2. WellBased(Object("instance", Instance, None))'
        BY ObjectIs DEF WellBased
      <3> QED
        BY <1>1, <2>5, <3>1, <3>2 DEF ObjectsInv
    <2>8. DevicesLive'
      BY <1>1, <1>2, <2>1, <2>2, <2>5 DEF DevicesLive
    <2>9. InstanceInv'
      <3>1. CASE UNCHANGED <<instance, live, owned>>
        BY <1>1, <2>3, <3>1 DEF InstanceInv, Base
      <3>2. CASE /\ instance' \in {"hooked", "plain"} /\ owned' = owned \cup {Instance}
                 /\ live' = live \cup {Object("instance", Instance, None)}
        BY <3>2, ObjectIs DEF InstanceInv, Base, BaseKinds
      <3> QED
        BY <2>1, <3>1, <3>2
    <2> QED
      BY <2>6, <2>7, <2>8, <2>9 DEF BaseInv
  <1>4. CASE InstanceDestroyed(t)
    <2>1. /\ Others(t) /\ call'[t] = Idle /\ call[t].op = "destroy_instance" /\ devices' = devices
          /\ instance' = "none" /\ live' = Without({"instance"}, Instance) /\ owned' = owned
      BY <1>4, InsideIs, EndDoes DEF InstanceDestroyed, Return, game
    <2>2. \A d, steps : Going(d, steps)' <=> Going(d, steps)
      BY <2>1, GoingOthers, IdleFields
    <2>3. ~InstanceGoing'
      <3>1. \A u \in Threads : u # t => call[u].op # "destroy_instance"
        BY <1>2, <2>1, AloneIs DEF UsesRight, RulesInv
      <3> QED
        BY <2>1, <3>1, IdleFields DEF InstanceGoing, Others
    <2>4. \A d : Hooked(d)' <=> Hooked(d)
      BY <2>1 DEF Hooked
    <2>5. owned = {}
      BY <1>2, <2>1 DEF UsesRight
    <2>6. Base' = {o \in Base : ~(o.kind = "instance" /\ o.id = Instance)}
      BY <2>1 DEF Base, Without
    <2>7. DevicesInv'
      BY <1>1, <2>1, <2>2, <2>6, ObjectIs DEF DevicesInv
    <2>8. ObjectsInv'
      BY <1>1, <2>1, <2>2, <2>4, <2>6 DEF ObjectsInv, WellBased
    <2>9. DevicesLive'
      BY <1>1, <2>1, <2>2, <2>6, ObjectIs DEF DevicesLive
    <2>10. InstanceInv'
      BY <2>1, <2>3, <2>5, <2>6, ObjectIs DEF InstanceInv
    <2> QED
      BY <2>7, <2>8, <2>9, <2>10 DEF BaseInv
  <1>5. CASE DestroyInstance(t)
    <2>1. /\ Begins(t) /\ call'[t].op = "destroy_instance" /\ owned = {Instance} /\ owned' = {}
          /\ live' = live /\ devices' = devices /\ instance' = instance
      BY <1>5, DestroyInstanceDoes DEF driver, tables
    <2>2. \A d, steps : Going(d, steps)' <=> Going(d, steps)
      BY <2>1, GoingOthers, IdleFields DEF Begins
    <2>3. InstanceGoing'
      BY <2>1 DEF InstanceGoing
    <2>4. \A d : Hooked(d)' <=> Hooked(d)
      BY <2>1 DEF Hooked
    <2>5. Base' = Base
      BY <2>1 DEF Base
    <2>6. DevicesInv'
      BY <1>1, <1>2, <2>1, <2>2, <2>5 DEF DevicesInv
    <2>7. ObjectsInv'
      BY <1>1, <1>2, <2>1, <2>2, <2>4, <2>5 DEF ObjectsInv, WellBased
    <2>8. DevicesLive'
      BY <1>1, <2>1, <2>2, <2>5 DEF DevicesLive
    <2>9. InstanceInv'
      BY <1>1, <2>1, <2>3, <2>5 DEF InstanceInv
    <2> QED
      BY <2>6, <2>7, <2>8, <2>9 DEF BaseInv
  <1> QED
    BY <1>3, <1>4, <1>5

(* A device is made: nobody knew of it, so nothing is registered or built   *)
(* on it yet.                                                               *)
LEMMA DeviceCreatedBase ==
  ASSUME CallsInv, RulesInv, BaseInv, NEW t \in Threads, DeviceCreated(t)
  PROVE  BaseInv'
  <1>0. PICK d : d = call[t].d
    OBVIOUS
  <1>1. DevicesInv /\ ObjectsInv /\ DevicesLive /\ InstanceInv
    BY DEF BaseInv
  <1>2. /\ Others(t) /\ call'[t] = Idle /\ call[t].op = "create_device"
        /\ UNCHANGED instance
    BY InsideIs, EndDoes DEF DeviceCreated, Return
  <1>3. /\ d \in Devices /\ d \notin owned /\ d \in call[t].alone /\ Instance \notin Devices
    BY <1>0, <1>2, LayerAssumption DEF RulesInv, UsesRight
  <1>4. \A steps : ~Going(d, steps)
    BY <1>2, <1>3, GoingAlone
  <1>5. \A e, steps : Going(e, steps)' <=> Going(e, steps)
    BY <1>2, GoingOthers, IdleFields
  <1>6. InstanceGoing' <=> InstanceGoing
    BY <1>2, IdleFields DEF InstanceGoing, Others
  <1>7. d \notin DOMAIN devices
    BY <1>1, <1>3, <1>4 DEF DevicesInv
  <1>8. \/ /\ live' = live \cup HookedDevice(d) /\ RegisterDevice(d, TRUE)
           /\ owned' = owned \cup {d}
        \/ /\ RegisterDevice(d, FALSE) \/ UNCHANGED devices
           /\ live' = live \cup PlainDevice(d)
           /\ owned' = owned \cup {d}
        \/ UNCHANGED <<live, devices, owned>>
    BY <1>0 DEF DeviceCreated
  <1>9. CASE UNCHANGED <<live, devices, owned>>
    BY <1>1, <1>2, <1>5, <1>6, <1>9
       DEF BaseInv, DevicesInv, ObjectsInv, WellBased, DevicesLive, InstanceInv, Base, Hooked
  <1>10. ASSUME NEW hook \in BOOLEAN, owned' = owned \cup {d},
                devices' = devices \/ RegisterDevice(d, hook),
                live' = live \cup PlainDevice(d)
                \/ (live' = live \cup HookedDevice(d)),
                hook => live' = live \cup HookedDevice(d),
                live' = live \cup HookedDevice(d) => hook /\ RegisterDevice(d, hook)
         PROVE  BaseInv'
    <2>1. /\ Base \subseteq Base'
          /\ \A o \in Base' : \/ o \in Base
                              \/ o = Object("device", d, Instance)
                              \/ /\ o = Object("pool", d, d)
                                 /\ live' = live \cup HookedDevice(d)
          /\ Object("device", d, Instance) \in Base'
          /\ hook => Object("pool", d, d) \in Base'
      BY <1>10, ObjectIs DEF Base, BaseKinds, PlainDevice, HookedDevice
    <2>2. /\ \A e \in DOMAIN devices : e \in DOMAIN devices' /\ devices'[e] = devices[e]
          /\ \A e \in DOMAIN devices' : e # d => e \in DOMAIN devices
          /\ d \in DOMAIN devices' => devices'[d] = [hook |-> hook, proxy |-> hook]
      BY <1>7, <1>10 DEF RegisterDevice, With
    <2>3. \A e : Hooked(e) => Hooked(e)'
      BY <2>2 DEF Hooked
    <2>4. DevicesInv'
      BY <1>1, <1>3, <1>5, <1>10, <2>1, <2>2 DEF DevicesInv
    <2>5. \A o : WellBased(o) => WellBased(o)'
      BY <1>5, <1>10, <2>3 DEF WellBased
    <2>6. \A o : o = Object("device", d, Instance) => WellBased(o)'
      <3> SUFFICES ASSUME NEW o, o = Object("device", d, Instance)
                   PROVE  WellBased(o)'
        OBVIOUS
      <3>1. o.kind = "device" /\ o.id = d /\ o.on = Instance
        BY ObjectIs
      <3> QED
        BY <1>3, <1>10, <3>1 DEF WellBased
    <2>7. \A o : o = Object("pool", d, d) /\ live' = live \cup HookedDevice(d) => WellBased(o)'
      <3> SUFFICES ASSUME NEW o, o = Object("pool", d, d), live' = live \cup HookedDevice(d)
                   PROVE  WellBased(o)'
        OBVIOUS
      <3>1. o.kind = "pool" /\ o.id = d /\ o.on = d
        BY ObjectIs
      <3>2. Hooked(d)'
        BY <1>10, <2>2 DEF Hooked, RegisterDevice, With
      <3> QED
        BY <1>3, <3>1, <3>2 DEF WellBased
    <2>8. ObjectsInv'
      BY <1>1, <2>1, <2>5, <2>6, <2>7 DEF ObjectsInv
    <2>9. DevicesLive'
      BY <1>1, <1>5, <1>10, <2>1 DEF DevicesLive
    <2>10. InstanceInv'
      <3>1. Object("instance", Instance, None) \in Base' <=> Object("instance", Instance, None) \in Base
        BY <2>1, ObjectIs
      <3> QED
        BY <1>1, <1>2, <1>3, <1>6, <1>10, <3>1 DEF InstanceInv
    <2> QED
      BY <2>4, <2>8, <2>9, <2>10 DEF BaseInv
  <1>11. HookedDevice(d) # {} /\ (live \cup PlainDevice(d) = live \cup HookedDevice(d) => Object("pool", d, d) \in live)
    BY ObjectIs DEF HookedDevice, PlainDevice
  <1>12. Object("pool", d, d) \notin live
    <2>1. Object("pool", d, d) \in live => WellBased(Object("pool", d, d))
      BY <1>1, ObjectIs DEF ObjectsInv, Base, BaseKinds
    <2> QED
      BY <1>4, <1>7, <2>1, ObjectIs DEF WellBased, Hooked
  <1>13. CASE /\ live' = live \cup HookedDevice(d) /\ RegisterDevice(d, TRUE)
              /\ owned' = owned \cup {d}
    BY <1>10, <1>13
  <1>14. CASE /\ RegisterDevice(d, FALSE) \/ UNCHANGED devices
              /\ live' = live \cup PlainDevice(d)
              /\ owned' = owned \cup {d}
    <2>1. live' # live \cup HookedDevice(d)
      BY <1>11, <1>12, <1>14
    <2> QED
      BY <1>10, <1>14, <2>1
  <1> QED
    BY <1>8, <1>9, <1>13, <1>14

(* The game gives a device up; its destruction begins.                      *)
LEMMA DestroyDeviceBase ==
  ASSUME CallsInv, RulesInv, BaseInv, NEW t \in Threads, DestroyDevice(t)
  PROVE  BaseInv'
  <1>1. DevicesInv /\ ObjectsInv /\ DevicesLive /\ InstanceInv
    BY DEF BaseInv
  <1>2. PICK d \in owned \cap Devices :
          /\ Begins(t) /\ call'[t].op = "destroy_device" /\ call'[t].step = "remove"
          /\ call'[t].d = d /\ owned' = owned \ {d} /\ UNCHANGED <<driver, tables>>
    BY DestroyDeviceDoes
  <1>3. UNCHANGED <<live, devices, instance>> /\ Others(t) /\ call[t] = Idle
    BY <1>2 DEF driver, tables, Begins
  <1>4. \A e, steps : Going(e, steps) => Going(e, steps)'
    BY <1>3, IdleFields DEF Going, Others
  <1>5. Going(d, {"remove"})' /\ Going(d, Removing)'
    BY <1>2 DEF Going, Removing
  <1>6. InstanceGoing' <=> InstanceGoing
    BY <1>2, <1>3, IdleFields DEF InstanceGoing, Others
  <1>7. \A e, steps : e # d => (Going(e, steps)' <=> Going(e, steps))
    BY <1>2, <1>3, IdleFields DEF Going, Others
  <1>8. Base' = Base /\ \A e : Hooked(e)' <=> Hooked(e)
    BY <1>3 DEF Base, Hooked
  <1>9. Instance \notin Devices
    BY LayerAssumption
  <1>10. DevicesInv'
    BY <1>1, <1>2, <1>3, <1>4, <1>5, <1>8 DEF DevicesInv
  <1>11. ObjectsInv'
    BY <1>1, <1>2, <1>4, <1>5, <1>8 DEF ObjectsInv, WellBased
  <1>12. DevicesLive'
    BY <1>1, <1>2, <1>7, <1>8 DEF DevicesLive
  <1>13. InstanceInv'
    BY <1>1, <1>2, <1>3, <1>6, <1>8, <1>9 DEF InstanceInv
  <1> QED
    BY <1>10, <1>11, <1>12, <1>13 DEF BaseInv

(* The device's entry goes; what is built on it is now the call's to drop.  *)
LEMMA DeviceRemovedBase ==
  ASSUME CallsInv, RulesInv, BaseInv, NEW t \in Threads, DeviceRemoved(t)
  PROVE  BaseInv'
  <1>0. PICK d : d = call[t].d
    OBVIOUS
  <1>1. DevicesInv /\ ObjectsInv /\ DevicesLive /\ InstanceInv
    BY DEF BaseInv
  <1>2. /\ call[t].op = "destroy_device" /\ call[t].step = "remove"
        /\ devices' = Restrict(devices, DOMAIN devices \ {d})
        /\ UNCHANGED <<live, instance, owned>>
    BY <1>0, InsideIs DEF DeviceRemoved, driver, game
  <1>3. /\ Others(t) /\ SameCall(t)
        /\ call'[t].step = IF d \in DOMAIN devices THEN "drop" ELSE "device"
    BY <1>0, DeviceRemovedDoes
  <1>4. /\ \A e, steps : e # d => (Going(e, steps)' <=> Going(e, steps))
        /\ \A steps : Going(d, steps) <=> "remove" \in steps
        /\ \A steps : Going(d, steps)' <=> call'[t].step \in steps
    BY <1>0, <1>2, <1>3, GoingOwn
  <1>5. InstanceGoing' <=> InstanceGoing
    BY <1>2, <1>3 DEF InstanceGoing, Others, SameCall
  <1>6. Base' = Base
    BY <1>2 DEF Base
  <1>7. /\ DOMAIN devices' = DOMAIN devices \ {d}
        /\ \A e \in DOMAIN devices' : devices'[e] = devices[e]
    BY <1>2 DEF Restrict
  <1>8. /\ \A e : e # d => (Hooked(e)' <=> Hooked(e))
        /\ Hooked(d) => d \in DOMAIN devices
    BY <1>7 DEF Hooked
  <1>9. DevicesInv'
    BY <1>1, <1>2, <1>4, <1>6, <1>7 DEF DevicesInv
  <1>10. ASSUME NEW o \in Base
         PROVE  WellBased(o)'
    <2>1. WellBased(o)
      BY <1>1 DEF ObjectsInv
    <2>2. CASE o.kind = "instance"
      BY <2>1, <2>2 DEF WellBased
    <2>3. CASE o.kind = "device"
      <3>1. call'[t].step \in Removing /\ "remove" \in Removing
        BY <1>3 DEF Removing
      <3> QED
        BY <1>2, <1>4, <2>1, <2>3, <3>1 DEF WellBased
    <2>4. CASE o.kind \in {"pool", "generator"}
      <3>1. o.on # d \/ Hooked(d)
        BY <1>4, <2>1, <2>4 DEF WellBased, Dropping
      <3>2. Hooked(d) => call'[t].step \in Dropping
        BY <1>3, <1>8 DEF Dropping
      <3> QED
        BY <1>4, <1>8, <2>1, <2>4, <3>1, <3>2 DEF WellBased
    <2>5. CASE o.kind \notin {"instance", "device", "pool", "generator"}
      BY <2>5 DEF WellBased
    <2> QED
      BY <2>2, <2>3, <2>4, <2>5
  <1>11. ObjectsInv'
    BY <1>6, <1>10 DEF ObjectsInv
  <1>12. DevicesLive'
    <2>1. "remove" \in Removing
      BY DEF Removing
    <2> QED
      BY <1>1, <1>2, <1>4, <1>6, <2>1 DEF DevicesLive
  <1>13. InstanceInv'
    BY <1>1, <1>2, <1>5, <1>6 DEF InstanceInv
  <1> QED
    BY <1>9, <1>11, <1>12, <1>13 DEF BaseInv

(* Then the generator, the pool and the device go, in this order.           *)
LEMMA DropsBase ==
  ASSUME CallsInv, RulesInv, BaseInv, NEW t \in Threads,
         GeneratorDropped(t) \/ PoolDestroyed(t) \/ DeviceDestroyed(t)
  PROVE  BaseInv'
  <1>0. PICK d : d = call[t].d
    OBVIOUS
  <1>1. DevicesInv /\ ObjectsInv /\ DevicesLive /\ InstanceInv
    BY DEF BaseInv
  <1>2. /\ call[t].op = "destroy_device" /\ call[t].step \in {"drop", "pool", "device"}
        /\ UNCHANGED <<devices, instance, owned>> /\ Known(call[t])
    BY InsideIs DEF GeneratorDropped, PoolDestroyed, DeviceDestroyed, tables, game
  <1>3. /\ Others(t)
        /\ \/ /\ call[t].step = "drop" /\ SameCall(t) /\ call'[t].step = "pool"
              /\ live' = Without({"generator"}, d)
           \/ /\ call[t].step = "pool" /\ SameCall(t) /\ call'[t].step = "device"
              /\ live' = Without({"pool"}, d)
           \/ /\ call[t].step = "device" /\ call'[t] = Idle
              /\ live' = Without({"device"}, d)
    <2>1. CASE GeneratorDropped(t)
      BY <1>0, <1>2, <2>1, InsideIs, GotoDoes DEF GeneratorDropped
    <2>2. CASE PoolDestroyed(t)
      BY <1>0, <1>2, <2>2, InsideIs, GotoDoes DEF PoolDestroyed
    <2>3. CASE DeviceDestroyed(t)
      <3>1. Inside(t, "destroy_device", "device") /\ call' = [call EXCEPT ![t] = Idle]
            /\ live' = Without({"device"}, d)
        BY <1>0, <2>3 DEF DeviceDestroyed, Return
      <3>2. call[t].step = "device"
        BY <3>1, InsideIs
      <3>3. Others(t) /\ call'[t] = Idle
        BY <3>1, EndDoes
      <3> QED
        BY <3>1, <3>2, <3>3
    <2> QED
      BY <2>1, <2>2, <2>3
  <1>4. /\ \A e, steps : e # d => (Going(e, steps)' <=> Going(e, steps))
        /\ \A steps : Going(d, steps) <=> call[t].step \in steps
        /\ \A steps : Going(d, steps)' <=> (SameCall(t) /\ call'[t].step \in steps)
    BY <1>0, <1>2, <1>3, GoingOwn
  <1>5. InstanceGoing' <=> InstanceGoing
    BY <1>2, <1>3, IdleFields DEF InstanceGoing, Others, SameCall
  <1>6. d \in Devices /\ d \notin owned /\ Instance \notin Devices
    BY <1>0, <1>2, LayerAssumption DEF RulesInv, UsesRight
  <1>7. d \notin DOMAIN devices /\ \A e : (Hooked(e)' <=> Hooked(e)) /\ ~Hooked(d)
    BY <1>1, <1>2, <1>4, <1>6 DEF DevicesInv, Hooked
  <1>8. Base' \subseteq Base
    BY <1>3 DEF Base, Without
  <1>9. \A o \in Base : o.id # d /\ o \in Base => o \in Base'
    BY <1>3 DEF Base, Without
  <1>10. DevicesInv'
    <2>1. \A e \in DOMAIN devices : e # d /\ (devices[e].hook => Object("pool", e, e) \in Base')
      BY <1>1, <1>7, <1>9, ObjectIs DEF DevicesInv
    <2> QED
      BY <1>1, <1>2, <1>4, <2>1 DEF DevicesInv
  <1>11. ASSUME NEW o \in Base'
         PROVE  WellBased(o)'
    <2>1. WellBased(o) /\ o \in Base
      BY <1>1, <1>8, <1>11 DEF ObjectsInv
    <2>2. CASE o.kind = "instance"
      BY <2>1, <2>2 DEF WellBased
    <2>3. CASE o.kind = "device"
      <3>1. CASE o.id # d
        BY <1>2, <1>4, <2>1, <2>3, <3>1 DEF WellBased
      <3>2. CASE o.id = d
        <4>1. call[t].step # "device"
          BY <1>3, <1>11, <2>3, <3>2 DEF Base, Without
        <4>2. Going(d, Removing)'
          BY <1>3, <1>4, <4>1 DEF Removing
        <4> QED
          BY <2>1, <2>3, <3>2, <4>2 DEF WellBased
      <3> QED
        BY <3>1, <3>2
    <2>4. CASE o.kind = "pool"
      <3>1. CASE o.on # d
        BY <1>2, <1>4, <1>7, <2>1, <2>4, <3>1 DEF WellBased
      <3>2. CASE o.on = d
        <4>1. o.id = d /\ call[t].step \in Dropping \cup {"pool"}
          BY <1>4, <1>7, <2>1, <2>4, <3>2 DEF WellBased
        <4>2. call[t].step = "drop"
          BY <1>3, <1>11, <2>4, <4>1 DEF Base, Without, Dropping
        <4>3. Going(d, Dropping \cup {"pool"})'
          BY <1>3, <1>4, <4>2
        <4> QED
          BY <2>1, <2>4, <3>2, <4>3 DEF WellBased
      <3> QED
        BY <3>1, <3>2
    <2>5. CASE o.kind = "generator"
      <3>1. CASE o.on # d
        BY <1>2, <1>4, <1>7, <2>1, <2>5, <3>1 DEF WellBased
      <3>2. CASE o.on = d
        <4>1. o.id = d /\ call[t].step \in Dropping
          BY <1>4, <1>7, <2>1, <2>5, <3>2 DEF WellBased
        <4>2. call[t].step = "drop"
          BY <1>2, <4>1 DEF Dropping
        <4>3. FALSE
          BY <1>3, <1>11, <2>5, <4>1, <4>2 DEF Base, Without
        <4> QED
          BY <4>3
      <3> QED
        BY <3>1, <3>2
    <2>6. CASE o.kind \notin {"instance", "device", "pool", "generator"}
      BY <2>6 DEF WellBased
    <2> QED
      BY <2>2, <2>3, <2>4, <2>5, <2>6
  <1>12. ObjectsInv'
    BY <1>11 DEF ObjectsInv
  <1>13. DevicesLive'
    <2>1. ASSUME NEW e \in Devices, (e \in owned)' \/ Going(e, Removing)'
          PROVE  Object("device", e, Instance) \in Base'
      <3>1. CASE e # d
        BY <1>1, <1>2, <1>4, <1>9, <2>1, <3>1, ObjectIs DEF DevicesLive
      <3>2. CASE e = d
        <4>1. call[t].step # "device" /\ call[t].step \in Removing
          BY <1>2, <1>3, <1>4, <1>6, <2>1, <3>2 DEF Removing, SameCall, Idle, NewCall
        <4>2. Object("device", d, Instance) \in Base
          BY <1>1, <1>4, <1>6, <4>1 DEF DevicesLive
        <4> QED
          BY <1>3, <3>2, <4>1, <4>2, ObjectIs DEF Base, Without
      <3> QED
        BY <3>1, <3>2
    <2> QED
      BY <2>1 DEF DevicesLive
  <1>14. InstanceInv'
    <2>1. Object("instance", Instance, None) \in Base' <=> Object("instance", Instance, None) \in Base
      BY <1>6, <1>8, <1>9, ObjectIs
    <2> QED
      BY <1>1, <1>2, <1>5, <2>1 DEF InstanceInv
  <1> QED
    BY <1>10, <1>12, <1>13, <1>14 DEF BaseInv

(* The swapchains left on a device are dropped one after the other.         *)
LEMMA LeftBase ==
  ASSUME CallsInv, RulesInv, Formed, BaseInv, NEW t \in Threads, call[t].op = "destroy_device",
         WrapperTaken(t) \/ FixedDropped(t) \/ SwapchainDestroyed(t)
  PROVE  BaseInv'
  <1>1. /\ UNCHANGED <<instance, devices, owned>> /\ call[t].step \in Dropping
    BY InsideIs DEF WrapperTaken, FixedDropped, SwapchainDestroyed, Destroying, Dropping, tables, game
  <1>2. Others(t) /\ SameCall(t) /\ call'[t].step \in Dropping
    <2>1. CASE WrapperTaken(t)
      BY <2>1, TakenDoes DEF AfterWrapper, Dropping
    <2>2. CASE FixedDropped(t)
      BY <2>2, InsideIs, GotoDoes DEF FixedDropped, Destroying, Dropping
    <2>3. CASE SwapchainDestroyed(t)
      <3>1. Shape(call[t]) /\ Goto(t, "drop")
        BY <2>3, InsideIs DEF SwapchainDestroyed, Destroying
      <3> QED
        BY <3>1, GotoDoes DEF Dropping
    <2> QED
      BY <2>1, <2>2, <2>3
  <1>3. GoingSame
    <2>1. PICK d : d = call[t].d
      OBVIOUS
    <2>2. /\ \A e, steps : e # d => (Going(e, steps)' <=> Going(e, steps))
          /\ \A steps : Going(d, steps) <=> call[t].step \in steps
          /\ \A steps : Going(d, steps)' <=> call'[t].step \in steps
      BY <1>2, <2>1, GoingOwn
    <2> QED
      BY <1>1, <1>2, <2>2 DEF GoingSame, Dropping, Removing
  <1>4. InstanceGoing' <=> InstanceGoing
    BY <1>2 DEF InstanceGoing, Others, SameCall
  <1>5. Base' = Base
    <2>1. \E kind \in {"proxy", "fixed", "swapchain"} : \E h : live' = Without({kind}, h)
      BY DEF WrapperTaken, FixedDropped, SwapchainDestroyed
    <2> QED
      BY <2>1 DEF Base, BaseKinds, Without
  <1>6. \A d \in DOMAIN devices : devices[d] = [hook |-> devices[d].hook, proxy |-> devices[d].proxy]
    BY DEF BaseInv, DevicesInv
  <1> QED
    BY <1>1, <1>3, <1>4, <1>5, <1>6, BaseStays

(* A generator is made by the first present of a device that is hooked.     *)
LEMMA PresentDoneBase ==
  ASSUME CallsInv, RulesInv, Formed, BaseInv, NEW t \in Threads, PresentDone(t),
         call[t].wrapper = "fixed" => Hooked(call[t].d)
  PROVE  BaseInv'
  <1>0. PICK d : d = call[t].d
    OBVIOUS
  <1>1. DevicesInv /\ ObjectsInv /\ DevicesLive /\ InstanceInv
    BY DEF BaseInv
  <1>2. /\ Others(t) /\ call'[t] = Idle /\ call[t].op = "present"
        /\ UNCHANGED <<instance, devices, owned>>
    BY InsideIs, EndDoes DEF PresentDone, Return, tables, game
  <1>3. d \in Devices
    BY <1>0, <1>2 DEF RulesInv, UsesRight
  <1>4. \A e, steps : Going(e, steps)' <=> Going(e, steps)
    BY <1>2, GoingOthers, IdleFields
  <1>5. InstanceGoing' <=> InstanceGoing
    BY <1>2, IdleFields DEF InstanceGoing, Others
  <1>6. \/ UNCHANGED live
        \/ Hooked(d) /\ live' = live \cup {Object("generator", d, d)}
    BY <1>0 DEF PresentDone
  <1>7. \A e : Hooked(e)' <=> Hooked(e)
    BY <1>2 DEF Hooked
  <1>8. /\ Base \subseteq Base'
        /\ \A o \in Base' : o \in Base \/ (Hooked(d) /\ o = Object("generator", d, d))
    BY <1>6 DEF Base
  <1>9. DevicesInv'
    BY <1>1, <1>2, <1>4, <1>8 DEF DevicesInv
  <1>10. \A o \in Base : WellBased(o)'
    BY <1>1, <1>2, <1>4, <1>7 DEF ObjectsInv, WellBased
  <1>11. \A o : Hooked(d) /\ o = Object("generator", d, d) => WellBased(o)'
    BY <1>3, <1>7, ObjectIs DEF WellBased
  <1>12. ObjectsInv'
    BY <1>8, <1>10, <1>11 DEF ObjectsInv
  <1>13. DevicesLive'
    BY <1>1, <1>2, <1>4, <1>8 DEF DevicesLive
  <1>14. InstanceInv'
    <2>1. Object("instance", Instance, None) \in Base' <=> Object("instance", Instance, None) \in Base
      BY <1>8, ObjectIs
    <2> QED
      BY <1>1, <1>2, <1>5, <2>1 DEF InstanceInv
  <1> QED
    BY <1>9, <1>12, <1>13, <1>14 DEF BaseInv

(* The calls that go on when none of these steps is taken.                  *)
DeviceSteps(t) ==
  \/ DeviceCreated(t) \/ DestroyDevice(t) \/ DeviceRemoved(t)
  \/ GeneratorDropped(t) \/ PoolDestroyed(t) \/ DeviceDestroyed(t)
InstanceSteps(t) == InstanceCreated(t) \/ InstanceDestroyed(t) \/ DestroyInstance(t)
LeftSteps(t) ==
  /\ call[t].op = "destroy_device"
  /\ WrapperTaken(t) \/ FixedDropped(t) \/ SwapchainDestroyed(t)

(* The other calls leave instances and devices as they are.                 *)
LEMMA OtherCalls ==
  ASSUME CallsInv, NEW t \in Threads, Play(t) \/ Step(t) \/ Woken(t),
         ~DeviceSteps(t), ~InstanceSteps(t), ~LeftSteps(t)
  PROVE  \/ UNCHANGED call
         \/ /\ Others(t)
            /\ call[t].op \notin {"destroy_device", "destroy_instance"}
            /\ call'[t].op \notin {"destroy_device", "destroy_instance"}
  <1>1. CASE Step(t)
    <2>1. \/ Rests(t)
          \/ call[t].op \notin {"destroy_device", "destroy_instance"}
      BY <1>1, StepCases DEF DeviceSteps, InstanceSteps, LeftSteps
    <2>2. Rests(t) \/ Moves(t) \/ Ends(t)
      BY <1>1, StepCases
    <2> QED
      BY <2>1, <2>2, IdleFields DEF Rests, Moves, Ends, SameCall
  <1>2. CASE Woken(t)
    BY <1>2 DEF Woken
  <1>3. CASE Play(t)
    <2>1. \/ UNCHANGED call
          \/ Begins(t) /\ call'[t].op \notin {"destroy_device", "destroy_instance"}
      <3>1. CASE Ask(t)
        BY <3>1 DEF Ask
      <3>2. CASE CreateInstance(t) \/ CreateDevice(t)
        BY <3>2, CreateInstanceDoes, CreateDeviceDoes
      <3>3. CASE CreateSurface(t) \/ DestroySurface(t)
        BY <3>3, CreateSurfaceDoes, DestroySurfaceDoes
      <3>4. CASE CreateSwapchain(t) \/ DestroySwapchain(t)
        BY <3>4, CreateSwapchainDoes, DestroySwapchainDoes
      <3>5. CASE Present(t) \/ Acquire(t) \/ Submit(t)
        BY <3>5, PresentDoes, AcquireDoes, SubmitDoes
      <3> QED
        BY <1>3, <3>1, <3>2, <3>3, <3>4, <3>5 DEF Play, DeviceSteps, InstanceSteps
    <2> QED
      BY <2>1, IdleFields DEF Begins
  <1> QED
    BY <1>1, <1>2, <1>3

(* Instance, devices and pools are what the maps and the calls say.         *)
LEMMA BaseKept ==
  ASSUME CallsInv, RulesInv, Formed, BaseInv, NEW t \in Threads, Play(t) \/ Step(t) \/ Woken(t),
         PresentDone(t) /\ call[t].wrapper = "fixed" => Hooked(call[t].d)
  PROVE  BaseInv'
  <1>1. CASE InstanceSteps(t)
    BY <1>1, InstanceBase DEF InstanceSteps
  <1>2. CASE DeviceSteps(t)
    BY <1>2, DeviceCreatedBase, DestroyDeviceBase, DeviceRemovedBase, DropsBase DEF DeviceSteps
  <1>3. CASE LeftSteps(t)
    BY <1>3, LeftBase DEF LeftSteps
  <1>4. CASE PresentDone(t)
    BY <1>4, PresentDoneBase
  <1>5. CASE ~InstanceSteps(t) /\ ~DeviceSteps(t) /\ ~LeftSteps(t) /\ ~PresentDone(t)
    <2>1. Base' = Base
      BY <1>5, BaseFrames DEF ChangesBase, InstanceSteps, DeviceSteps
    <2>2. UNCHANGED instance
      BY <1>5, StepFrames, PlayFrames DEF Framed, ChangesInstance, InstanceSteps, tables
    <2>3. GoingSame /\ (InstanceGoing' <=> InstanceGoing)
      <3>1. CASE UNCHANGED call
        BY <3>1 DEF GoingSame, Going, InstanceGoing
      <3>2. CASE ~UNCHANGED call
        <4>1. /\ Others(t)
              /\ call[t].op \notin {"destroy_device", "destroy_instance"}
              /\ call'[t].op \notin {"destroy_device", "destroy_instance"}
          BY <1>5, <3>2, OtherCalls
        <4>2. \A d, steps : Going(d, steps)' <=> Going(d, steps)
          BY <4>1, GoingOthers
        <4> QED
          BY <4>1, <4>2 DEF GoingSame, InstanceGoing, Others
      <3> QED
        BY <3>1, <3>2
    <2>4. owned' \cap ({Instance} \cup Devices) = owned \cap ({Instance} \cup Devices)
      <3>1. \/ UNCHANGED owned
            \/ SurfaceRegistered(t)
            \/ DestroySurface(t)
        BY <1>5, StepFrames, PlayFrames DEF Framed, ChangesOwned, InstanceSteps, DeviceSteps
      <3>2. CASE SurfaceRegistered(t)
        <4>1. owned' = owned \cup {call[t].s} /\ call[t].op = "create_surface"
          BY <3>2, AtIs DEF SurfaceRegistered
        <4> QED
          BY <4>1, LayerAssumption DEF RulesInv, UsesRight
      <3>3. CASE DestroySurface(t)
        <4>1. PICK s \in Surfaces : owned' = owned \ {s}
          BY <3>3 DEF DestroySurface
        <4> QED
          BY <4>1, LayerAssumption
      <3> QED
        BY <3>1, <3>2, <3>3
    <2>5. \A d \in DOMAIN devices : devices[d] = [hook |-> devices[d].hook, proxy |-> devices[d].proxy]
      BY DEF BaseInv, DevicesInv
    <2>6. /\ DOMAIN devices' = DOMAIN devices
          /\ \A d \in DOMAIN devices :
               /\ devices'[d] = [hook |-> devices'[d].hook, proxy |-> devices'[d].proxy]
               /\ devices'[d].hook = devices[d].hook
      <3>1. UNCHANGED devices \/ devices' = [devices EXCEPT ![call[t].d].proxy = FALSE]
        <4>1. UNCHANGED devices \/ ProxyTried(t) \/ PresentInvalidated(t)
          BY <1>5, StepFrames, PlayFrames DEF Framed, ChangesDevices, DeviceSteps, tables
        <4> QED
          BY <4>1 DEF ProxyTried, PresentInvalidated
      <3>2. CASE UNCHANGED devices
        BY <2>5, <3>2
      <3>3. CASE devices' = [devices EXCEPT ![call[t].d].proxy = FALSE]
        <4>1. DOMAIN devices' = DOMAIN devices
          BY <3>3
        <4>2. \A d \in DOMAIN devices : devices'[d] = IF d = call[t].d
                THEN [hook |-> devices[d].hook, proxy |-> FALSE] ELSE devices[d]
          <5> SUFFICES ASSUME NEW d \in DOMAIN devices
                       PROVE  devices'[d] = IF d = call[t].d
                                THEN [hook |-> devices[d].hook, proxy |-> FALSE] ELSE devices[d]
            OBVIOUS
          <5>1. devices[d] = [hook |-> devices[d].hook, proxy |-> devices[d].proxy]
            BY <2>5
          <5>2. devices'[d] = IF d = call[t].d THEN [devices[d] EXCEPT !.proxy = FALSE] ELSE devices[d]
            BY <3>3
          <5> QED
            BY <5>1, <5>2
        <4> QED
          BY <2>5, <4>1, <4>2
      <3> QED
        BY <3>1, <3>2, <3>3
    <2> QED
      BY <2>1, <2>2, <2>3, <2>4, <2>6, BaseStays
  <1> QED
    BY <1>1, <1>2, <1>3, <1>4, <1>5

-----------------------------------------------------------------------------
(* Accounts.  Every swapchain there is, with what wraps it, is on exactly   *)
(* one account: an entry of the table, a handle the game has that is not    *)
(* registered, or a call that is making or destroying it.                   *)

Kinds == {"swapchain", "proxy", "fixed"}
Destroys(c) == c.op \in {"destroy_swapchain", "destroy_device"}

(* A call to destroy h has yet to look it up; a call has h in hand.         *)
Claims(c, h) == c.op = "destroy_swapchain" /\ c.step = "remove" /\ c.h = h
Holds(c, h, w) ==
  \/ c.op = "create_swapchain" /\ c.step = "setup" /\ c.new = h /\ w = "none"
  \/ c.op = "create_swapchain" /\ c.step = "insert" /\ c.new = h /\ w = c.wrapper
  \/ Destroys(c) /\ c.step = "destroy" /\ c.h = h /\ w = "none"
  \/ Destroys(c) /\ c.step = "queue" /\ c.h = h /\ w = "fixed"
  \/ h \in DOMAIN c.left /\ w = c.left[h].wrapper
Mine(t, h) == Claims(call[t], h) \/ \E w : Holds(call[t], h, w)

InTable(h, d, w) == h \in DOMAIN swapchains /\ swapchains[h].d = d /\ swapchains[h].wrapper = w
Claimed(h, d) ==
  \/ h \in DOMAIN chains /\ chains[h].d = d
  \/ \E t \in Threads : Claims(call[t], h) /\ call[t].d = d
InGame(h, d, w) == h \notin DOMAIN swapchains /\ Claimed(h, d) /\ w = "none"
InHand(h, d, w) == \E t \in Threads : Holds(call[t], h, w) /\ call[t].d = d
Booked(h, d, w) == InTable(h, d, w) \/ InGame(h, d, w) \/ InHand(h, d, w)

Of(h) == {o \in live : o.kind \in Kinds /\ o.id = h}
Backing(h, d, w) ==
  IF w = "proxy" THEN {Object("proxy", h, d)}
  ELSE IF w = "fixed" THEN {Object("swapchain", h, d), Object("fixed", h, d)}
  ELSE {Object("swapchain", h, d)}

Exact(h) ==
  /\ Of(h) = {} \/ \E d, w : Booked(h, d, w)
  /\ \A d, w : Booked(h, d, w) => Of(h) = Backing(h, d, w)

(* What a call still has to drop.                                           *)
LeftInv ==
  \A t \in Threads :
    LET c == call[t]
    IN /\ ~(Destroys(c) /\ c.step \in Dropping) => DOMAIN c.left = {}
       /\ c.op = "destroy_swapchain" => DOMAIN c.left \subseteq {c.h}
       /\ c.op = "destroy_swapchain" /\ c.step \in {"queue", "destroy"} => DOMAIN c.left = {}
       /\ Destroys(c) /\ c.step \in {"queue", "destroy"} => c.h \notin DOMAIN c.left
       /\ c.op = "create_swapchain" /\ c.step = "setup" => c.wrapper = "fixed"

(* What only a hooked device has.                                           *)
NeedsHook(c) ==
  \/ c.op = "create_swapchain" /\ c.step \in {"proxy", "fixed", "setup", "undo"}
  \/ c.op = "create_swapchain" /\ c.step = "insert" /\ c.wrapper # "none"
  \/ c.op = "present" /\ c.wrapper \in {"fixed", "proxy"}
HookedInv == \A t \in Threads : NeedsHook(call[t]) => Hooked(call[t].d)

TableAt(h) ==
  /\ h \in DOMAIN swapchains =>
       /\ swapchains[h].d \in DOMAIN devices
       /\ swapchains[h].wrapper # "none" => devices[swapchains[h].d].hook
       /\ h \in DOMAIN chains => chains[h].d = swapchains[h].d
       /\ \A t \in Threads : Claims(call[t], h) => call[t].d = swapchains[h].d
       /\ \/ h \in DOMAIN chains
          \/ \E t \in Threads : Claims(call[t], h)
          \/ Going(swapchains[h].d, {"remove"})
  /\ h \in DOMAIN chains /\ chains[h].d \in DOMAIN devices => h \in DOMAIN swapchains

TablesInv == \A h : TableAt(h)

(* A handle is in one hand at a time.                                       *)
OnceAt(h) ==
  \A t \in Threads :
    /\ Mine(t, h) => h \notin DOMAIN chains /\ \A u \in Threads : Mine(u, h) => u = t
    /\ (\E w : Holds(call[t], h, w)) => h \notin DOMAIN swapchains

OnceInv == \A h : OnceAt(h)

ExactInv == \A h : Exact(h)

(* The pool a fixed wrapper frees into outlives it.                         *)
PoolInv ==
  \A t \in Threads : \A h :
    Holds(call[t], h, "fixed") => Object("pool", call[t].d, call[t].d) \in Base

Accounts == LeftInv /\ HookedInv /\ TablesInv /\ OnceInv /\ ExactInv /\ PoolInv

(* A thread without a call holds no swapchain.                              *)
LEMMA IdleHolds ==
  /\ \A h : ~Claims(Idle, h)
  /\ \A h, w : ~Holds(Idle, h, w)
  /\ ~Destroys(Idle) /\ DOMAIN Idle.left = {} /\ ~NeedsHook(Idle)
  BY IdleFields DEF Claims, Holds, Destroys, NeedsHook

(* The backing tells the account it is of.                                  *)
LEMMA BackingTells ==
  ASSUME NEW h, NEW d, NEW w
  PROVE  /\ \A o \in Backing(h, d, w) : o.kind \in Kinds /\ o.id = h /\ o.on = d
         /\ \E o \in Backing(h, d, w) : o.kind \in {"swapchain", "proxy"}
         /\ (\E o \in Backing(h, d, w) : o.kind = "fixed") <=> w = "fixed"
         /\ (\E o \in Backing(h, d, w) : o.kind = "proxy") <=> w = "proxy"
         /\ (\E o \in Backing(h, d, w) : o.kind = "swapchain") <=> w # "proxy"
  <1>1. CASE w = "proxy"
    BY <1>1, ObjectIs DEF Backing, Kinds
  <1>2. CASE w = "fixed"
    BY <1>2, ObjectIs DEF Backing, Kinds
  <1>3. CASE w \notin {"proxy", "fixed"}
    BY <1>3, ObjectIs DEF Backing, Kinds
  <1> QED
    BY <1>1, <1>2, <1>3

(* A handle that is free is on no account.                                  *)
LEMMA FreeIs ==
  ASSUME NEW h \in FreeHandles, Exact(h)
  PROVE  /\ Of(h) = {} /\ \A d, w : ~Booked(h, d, w)
         /\ h \notin DOMAIN swapchains /\ h \notin DOMAIN chains
         /\ \A t \in Threads : ~Mine(t, h)
  <1>1. \A o \in Of(h) : o.kind \notin {"swapchain", "proxy"}
    BY DEF Of, FreeHandles, Alive
  <1>2. \A d, w : ~Booked(h, d, w)
    BY <1>1, BackingTells DEF Exact
  <1>3. Of(h) = {}
    BY <1>2 DEF Exact
  <1>4. h \notin DOMAIN swapchains
    BY <1>2 DEF Booked, InTable
  <1>5. h \notin DOMAIN chains
    BY <1>2, <1>4 DEF Booked, InGame, Claimed
  <1>6. \A t \in Threads : ~Claims(call[t], h)
    BY <1>2, <1>4 DEF Booked, InGame, Claimed
  <1>7. \A t \in Threads : \A w : ~Holds(call[t], h, w)
    BY <1>2 DEF Booked, InHand
  <1> QED
    BY <1>2, <1>3, <1>4, <1>5, <1>6, <1>7 DEF Mine

(* What a call still has to drop changes at three of its steps only.        *)
LEMMA LeftSame ==
  ASSUME CallsInv, NEW t \in Threads, Step(t),
         ~DeviceRemoved(t), ~SwapchainRemoved(t), ~WrapperTaken(t)
  PROVE  Rests(t) \/ Ends(t) \/ (Moves(t) /\ call'[t].left = call[t].left)
  <1>1. Rests(t) \/ Moves(t) \/ Ends(t)
    BY StepCases
  <1>a. ASSUME Shape(call[t]), \E step : Goto(t, step)
        PROVE  call'[t].left = call[t].left
    BY <1>a, GotoDoes DEF Rest
  <1>b. ASSUME Shape(call[t]), \E h, w, step : Getting(t, h, w, step)
        PROVE  call'[t].left = call[t].left
    BY <1>b, GettingDoes
  <1>c. ASSUME call' = [call EXCEPT ![t] = Idle], Moves(t)
        PROVE  FALSE
    BY <1>c, EndDoes, IdleFields DEF Moves
  <1>2. ASSUME Moves(t)
        PROVE  call'[t].left = call[t].left \/ Rests(t)
    <2>0. Shape(call[t])
      BY <1>2 DEF Moves, Known
    <2>1. CASE Locking(t)
      BY <2>1 DEF Locking, Rests
    <2>2. CASE InstanceCreated(t) \/ InstanceDestroyed(t) \/ DeviceCreated(t)
      BY <1>2, <2>2, <1>c DEF InstanceCreated, InstanceDestroyed, DeviceCreated, Return
    <2>3. CASE GeneratorDropped(t) \/ PoolDestroyed(t)
      BY <2>0, <2>3, <1>a DEF GeneratorDropped, PoolDestroyed
    <2>4. CASE DeviceDestroyed(t)
      BY <1>2, <2>4, <1>c DEF DeviceDestroyed, Return
    <2>5. CASE LayerBefore(t) \/ LayerRegistered(t) \/ LayerForgotten(t)
      BY <2>0, <2>5, <1>a DEF LayerBefore, LayerRegistered, LayerForgotten
    <2>6. CASE SurfaceCreated(t)
      BY <1>2, <2>0, <2>6, <1>a, <1>c DEF SurfaceCreated, Leave
    <2>7. CASE SurfaceRegistered(t) \/ SurfaceDestroyed(t)
      BY <1>2, <2>7, <1>c DEF SurfaceRegistered, SurfaceDestroyed, Leave
    <2>8. CASE SurfaceForgotten(t)
      BY <2>8, ForgottenDoes
    <2>9. CASE Chosen(t)
      BY <2>9, ChosenDoes
    <2>10. CASE ProxyTried(t)
      BY <2>0, <2>10, <1>a, <1>b DEF ProxyTried
    <2>11. CASE FixedCreated(t)
      BY <2>0, <2>11, <1>a, <1>b DEF FixedCreated, Driver
    <2>12. CASE FixedSetUp(t)
      BY <2>0, <2>12, <1>a, <1>b DEF FixedSetUp
    <2>13. CASE FixedUndone(t)
      BY <2>0, <2>13, <1>a DEF FixedUndone
    <2>14. CASE Unwrapped(t)
      BY <1>2, <2>0, <2>14, <1>b, <1>c DEF Unwrapped, Driver, Return
    <2>15. CASE Inserted(t) \/ ProxyDestroyed(t)
      BY <1>2, <2>15, <1>c DEF Inserted, ProxyDestroyed, Return
    <2>16. CASE FixedDropped(t)
      BY <2>0, <2>16, <1>a DEF FixedDropped
    <2>17. CASE SwapchainDestroyed(t)
      BY <1>2, <2>0, <2>17, <1>a, <1>c DEF SwapchainDestroyed, Return
    <2>18. CASE PresentInvalidated(t) \/ ForwardDone(t) \/ PresentDone(t)
      BY <1>2, <2>18, <1>c DEF PresentInvalidated, ForwardDone, PresentDone, Return
    <2>23. CASE PresentForwarded(t)
      BY <2>0, <2>23, <1>a DEF PresentForwarded
    <2>19. CASE PresentLocked(t)
      BY <2>0, <2>19, <1>a DEF PresentLocked, LockQueue
    <2>20. CASE Acquired(t)
      BY <1>2, <2>0, <2>20, <1>a, <1>c DEF Acquired, LockQueue, Leave
    <2>21. CASE Submitting(t)
      BY <1>2, <2>0, <2>21, <1>a, <1>c DEF Submitting, LockQueue, Leave
    <2>22. CASE QueueDone(t)
      BY <1>2, <2>22, <1>c DEF QueueDone, Leave
    <2> QED
      BY <2>1, <2>2, <2>3, <2>4, <2>5, <2>6, <2>7, <2>8, <2>9, <2>10, <2>11, <2>12, <2>13,
         <2>14, <2>15, <2>16, <2>17, <2>18, <2>19, <2>20, <2>21, <2>22, <2>23 DEF Step
  <1> QED
    BY <1>1, <1>2

(* Where a call that drops swapchains goes from where it is.                *)
LEMMA DropMoves ==
  ASSUME CallsInv, NEW t \in Threads, Step(t), Destroys(call[t]), call'[t] # Idle,
         ~DeviceRemoved(t), ~SwapchainRemoved(t), ~WrapperTaken(t)
  PROVE  \/ Rests(t)
         \/ FixedDropped(t) /\ call[t].step = "queue" /\ call'[t].step = "destroy" /\ call'[t].h = call[t].h
         \/ /\ SwapchainDestroyed(t) /\ call[t].op = "destroy_device"
            /\ call[t].step = "destroy" /\ call'[t].step = "drop"
         \/ GeneratorDropped(t) /\ DOMAIN call[t].left = {} /\ call'[t].step = "pool"
         \/ PoolDestroyed(t) /\ call[t].step = "pool" /\ call'[t].step = "device"
  <1>1. \/ GeneratorDropped(t) \/ PoolDestroyed(t) \/ FixedDropped(t) \/ SwapchainDestroyed(t)
        \/ Rests(t) \/ DeviceDestroyed(t) \/ ProxyDestroyed(t)
    BY StepCases DEF Destroys
  <1>2. CASE DeviceDestroyed(t) \/ ProxyDestroyed(t)
    BY <1>2, EndDoes DEF DeviceDestroyed, ProxyDestroyed, Return
  <1>3. CASE GeneratorDropped(t)
    BY <1>3, InsideIs, GotoDoes DEF GeneratorDropped
  <1>4. CASE PoolDestroyed(t)
    BY <1>4, InsideIs, GotoDoes DEF PoolDestroyed
  <1>5. CASE FixedDropped(t)
    <2>1. Shape(call[t]) /\ call[t].step = "queue" /\ Goto(t, "destroy")
      BY <1>5, InsideIs DEF FixedDropped, Destroying
    <2> QED
      BY <1>5, <2>1, GotoDoes DEF Rest
  <1>6. CASE SwapchainDestroyed(t)
    <2>1. Shape(call[t]) /\ call[t].step = "destroy"
      BY <1>6, InsideIs DEF SwapchainDestroyed, Destroying
    <2>2. CASE call[t].op = "destroy_device"
      BY <1>6, <2>1, <2>2, GotoDoes DEF SwapchainDestroyed
    <2>3. CASE call[t].op # "destroy_device"
      BY <1>6, <2>3, EndDoes DEF SwapchainDestroyed, Return
    <2> QED
      BY <2>2, <2>3, <2>1, <1>6
  <1> QED
    BY <1>1, <1>2, <1>3, <1>4, <1>5, <1>6

LeftRight(c) ==
  /\ ~(Destroys(c) /\ c.step \in Dropping) => DOMAIN c.left = {}
  /\ c.op = "destroy_swapchain" => DOMAIN c.left \subseteq {c.h}
  /\ c.op = "destroy_swapchain" /\ c.step \in {"queue", "destroy"} => DOMAIN c.left = {}
  /\ Destroys(c) /\ c.step \in {"queue", "destroy"} => c.h \notin DOMAIN c.left
  /\ c.op = "create_swapchain" /\ c.step = "setup" => c.wrapper = "fixed"

(* Only a fixed wrapper is set up.                                          *)
LEMMA SetUpIs ==
  ASSUME CallsInv, NEW t \in Threads, Step(t), ~Rests(t), call[t].op = "create_swapchain",
         call'[t].step = "setup"
  PROVE  call'[t].wrapper = "fixed"
  <1>1. \/ Chosen(t) \/ ProxyTried(t) \/ FixedCreated(t) \/ FixedSetUp(t) \/ FixedUndone(t)
        \/ Unwrapped(t) \/ Inserted(t)
    BY StepCases
  <1>2. ~Chosen(t)
    BY ChosenDoes
  <1>3. ~FixedUndone(t) /\ ~ProxyTried(t) /\ ~FixedSetUp(t)
    <2>1. Shape(call[t]) /\ (FixedUndone(t) \/ ProxyTried(t) \/ FixedSetUp(t)) =>
            \E step \in {"native", "fixed", "insert", "undo"} :
              Goto(t, step) \/ \E h, w : Getting(t, h, w, step)
      BY DEF FixedUndone, ProxyTried, FixedSetUp
    <2>2. FixedUndone(t) \/ ProxyTried(t) \/ FixedSetUp(t) => Shape(call[t])
      BY InsideIs DEF FixedUndone, ProxyTried, FixedSetUp
    <2> QED
      BY <2>1, <2>2, GotoDoes, GettingDoes
  <1>4. ~Inserted(t)
    BY EndDoes, IdleFields DEF Inserted, Return
  <1>5. CASE Unwrapped(t)
    <2>1. Shape(call[t])
      BY <1>5, InsideIs DEF Unwrapped
    <2>2. (\E h : Getting(t, h, "none", "insert")) \/ call' = [call EXCEPT ![t] = Idle]
      BY <1>5 DEF Unwrapped, Driver, Return
    <2> QED
      BY <2>1, <2>2, GettingDoes, EndDoes, IdleFields
  <1>6. CASE FixedCreated(t)
    <2>1. Shape(call[t])
      BY <1>6, InsideIs DEF FixedCreated
    <2>2. (\E h : Getting(t, h, "fixed", "setup")) \/ Goto(t, "native")
      BY <1>6 DEF FixedCreated, Driver
    <2> QED
      BY <2>1, <2>2, GettingDoes, GotoDoes
  <1> QED
    BY <1>1, <1>2, <1>3, <1>4, <1>5, <1>6

(* What a call has still to drop, at each of its steps.                     *)
LEMMA LeftKept ==
  ASSUME CallsInv, LeftInv, TablesInv, NEW t \in Threads, Play(t) \/ Step(t) \/ Woken(t)
  PROVE  LeftInv'
  <1>1. \A u \in Threads : LeftRight(call[u])
    BY DEF LeftInv, LeftRight
  <1>2. Others(t)
    BY OthersStay
  <1>3. DOMAIN <<>> = {}
    OBVIOUS
  <1>4. LeftRight(call'[t])
    <2>1. CASE call'[t] = Idle
      BY <2>1, IdleHolds, IdleFields DEF LeftRight
    <2>2. CASE Rests(t)
      BY <1>1, <2>2 DEF Rests
    <2>3. CASE Begins(t)
      BY <1>3, <2>3 DEF Begins, LeftRight, Known, StepsOf, AtFirst, Destroys
    <2>4. CASE WrapperTaken(t)
      <3>1. Destroys(call[t]) /\ call[t].step = "drop"
        BY <2>4, InsideIs DEF WrapperTaken, Destroying, Destroys
      <3>2. LeftRight(call[t])
        BY <1>1
      <3>3. /\ call'[t].op = call[t].op /\ call'[t].h \in DOMAIN call[t].left
            /\ call'[t].step \in Dropping
            /\ DOMAIN call'[t].left = DOMAIN call[t].left \ {call'[t].h}
        BY <2>4, TakenDoes DEF SameCall, AfterWrapper, Dropping, Restrict
      <3> QED
        BY <3>1, <3>2, <3>3 DEF LeftRight, Destroys
    <2>5. CASE DeviceRemoved(t)
      <3>1. call[t].op = "destroy_device"
        BY <2>5, InsideIs DEF DeviceRemoved
      <3>2. /\ call'[t].op = "destroy_device" /\ call'[t].step \in {"drop", "device"}
            /\ call'[t].step = "device" => call[t].d \notin DOMAIN devices
            /\ call'[t].left = Restrict(swapchains, LeakedOn(call[t].d))
        BY <2>5, <3>1, DeviceRemovedDoes DEF SameCall
      <3>3. call'[t].step = "device" => LeakedOn(call[t].d) = {}
        BY <3>2 DEF TablesInv, TableAt, LeakedOn
      <3> QED
        BY <3>2, <3>3 DEF LeftRight, Destroys, Dropping, Restrict
    <2>6. CASE SwapchainRemoved(t)
      <3>1. call[t].op = "destroy_swapchain"
        BY <2>6, InsideIs DEF SwapchainRemoved
      <3>2. /\ call'[t].op = "destroy_swapchain" /\ call'[t].h = call[t].h
            /\ call'[t].step = IF call[t].h \in DOMAIN swapchains THEN "drop" ELSE "destroy"
            /\ DOMAIN call'[t].left = {call[t].h} \cap DOMAIN swapchains
        BY <2>6, <3>1, RemovedDoes DEF SameCall, Restrict
      <3> QED
        BY <3>2 DEF LeftRight, Destroys, Dropping
    <2>7. CASE /\ Step(t) /\ ~WrapperTaken(t) /\ ~DeviceRemoved(t) /\ ~SwapchainRemoved(t)
               /\ ~Rests(t) /\ call'[t] # Idle
      <3>1. Moves(t) /\ call'[t].left = call[t].left
        BY <2>7, LeftSame DEF Ends
      <3>2. LeftRight(call[t]) /\ call'[t].op = call[t].op
        BY <1>1, <3>1 DEF Moves, SameCall
      <3>3. CASE ~Destroys(call[t])
        BY <2>7, <3>1, <3>2, <3>3, SetUpIs DEF LeftRight, Destroys
      <3>4. CASE Destroys(call[t])
        <4>1. \/ call[t].step = "queue" /\ call'[t].step = "destroy" /\ call'[t].h = call[t].h
              \/ call[t].op = "destroy_device" /\ call'[t].step = "drop"
              \/ DOMAIN call[t].left = {} /\ call'[t].step \notin Dropping
              \/ call[t].step = "pool" /\ call'[t].step = "device"
          BY <2>7, <3>4, DropMoves DEF Dropping
        <4> QED
          BY <3>1, <3>2, <3>4, <4>1 DEF LeftRight, Destroys, Dropping
      <3> QED
        BY <3>3, <3>4
    <2> QED
      BY <2>1, <2>2, <2>3, <2>4, <2>5, <2>6, <2>7, PlaySkeleton
  <1> QED
    BY <1>1, <1>2, <1>4 DEF LeftInv, LeftRight, Others

(* The steps that move a handle from one account to another; the others     *)
(* leave what is in hand as it is.                                          *)
AccountSteps(t) ==
  \/ ProxyTried(t) \/ FixedCreated(t) \/ FixedSetUp(t) \/ Unwrapped(t) \/ Inserted(t)
  \/ DestroySwapchain(t) \/ SwapchainRemoved(t)
  \/ WrapperTaken(t) \/ FixedDropped(t) \/ SwapchainDestroyed(t) \/ DeviceRemoved(t)

SameHand(t) ==
  /\ \A h : Claims(call'[t], h) <=> Claims(call[t], h)
  /\ \A h, w : Holds(call'[t], h, w) <=> Holds(call[t], h, w)
  /\ \A h : Mine(t, h) => call'[t].d = call[t].d

Empty(c) ==
  /\ \A h : ~Claims(c, h)
  /\ \A h, w : ~Holds(c, h, w)

(* Nothing in hand before and after is the same in hand.                    *)
LEMMA EmptyHands ==
  ASSUME NEW t \in Threads, Empty(call[t]), Empty(call'[t])
  PROVE  SameHand(t)
  BY DEF Empty, SameHand, Mine

(* A call at its first step has nothing in hand.                            *)
LEMMA FirstEmpty ==
  ASSUME NEW c, Known(c), AtFirst(c), DOMAIN c.left = {},
         c.op = "destroy_swapchain" => c.step # "remove"
  PROVE  Empty(c)
  BY DEF Empty, Claims, Holds, Known, AtFirst, StepsOf, Destroys

(* Only the steps of the accounts change what a call has in hand.           *)
LEMMA QuietHand ==
  ASSUME CallsInv, LeftInv, LeftInv', NEW t \in Threads, Play(t) \/ Step(t) \/ Woken(t),
         ~AccountSteps(t)
  PROVE  SameHand(t)
  <1>1. CASE UNCHANGED call
    BY <1>1 DEF SameHand
  <1>2. CASE Play(t) /\ ~UNCHANGED call
    <2>1. Begins(t) /\ call'[t].op # "destroy_swapchain"
      <3>1. CASE CreateInstance(t) \/ DestroyInstance(t) \/ CreateDevice(t)
        BY <3>1, CreateInstanceDoes, DestroyInstanceDoes, CreateDeviceDoes
      <3>2. CASE CreateSurface(t) \/ DestroySurface(t)
        BY <3>2, CreateSurfaceDoes, DestroySurfaceDoes
      <3>3. CASE CreateSwapchain(t) \/ DestroyDevice(t)
        BY <3>3, CreateSwapchainDoes, DestroyDeviceDoes
      <3>4. CASE Present(t) \/ Acquire(t) \/ Submit(t)
        BY <3>4, PresentDoes, AcquireDoes, SubmitDoes
      <3>5. CASE Ask(t)
        BY <1>2, <3>5 DEF Ask
      <3> QED
        BY <1>2, <3>1, <3>2, <3>3, <3>4, <3>5 DEF Play, AccountSteps
    <2>2. DOMAIN <<>> = {}
      OBVIOUS
    <2>3. Empty(call'[t])
      BY <2>1, <2>2, FirstEmpty DEF Begins
    <2>4. Empty(call[t])
      BY <2>1, IdleHolds DEF Begins, Empty
    <2> QED
      BY <2>3, <2>4, EmptyHands
  <1>3. CASE Step(t) /\ ~Rests(t)
    <2>1. Moves(t) \/ Ends(t)
      BY <1>3, StepCases
    <2>2. /\ ~(Destroys(call[t]) /\ call[t].step \in Dropping) => DOMAIN call[t].left = {}
          /\ ~(Destroys(call'[t]) /\ call'[t].step \in Dropping) => DOMAIN call'[t].left = {}
      BY DEF LeftInv
    <2>3. \A c : c = Idle => Empty(c)
      BY IdleHolds DEF Empty
    <2>4. CASE call[t].op \notin {"create_swapchain", "destroy_swapchain", "destroy_device"}
      <3>1. \A c : /\ c.op \notin {"create_swapchain", "destroy_swapchain", "destroy_device"}
                   /\ DOMAIN c.left = {}
                   => Empty(c)
        BY DEF Empty, Claims, Holds, Destroys
      <3>2. Empty(call[t])
        BY <2>2, <2>4, <3>1 DEF Destroys
      <3>3. Empty(call'[t])
        BY <2>1, <2>2, <2>3, <2>4, <3>1 DEF Moves, Ends, SameCall, Destroys
      <3> QED
        BY <3>2, <3>3, EmptyHands
    <2>5. CASE call[t].op = "create_swapchain"
      <3>1. Chosen(t) \/ FixedUndone(t)
        BY <1>3, <2>5, StepCases DEF AccountSteps
      <3>2. /\ call'[t].op = "create_swapchain"
            /\ call[t].step \in {"choose", "undo"}
            /\ call'[t].step \in {"plain", "fixed", "proxy", "native"}
        <4>1. CASE Chosen(t)
          <5>1. Inside(t, "create_swapchain", "choose")
            BY <4>1 DEF Chosen
          <5>2. call[t].step = "choose"
            BY <5>1, InsideIs
          <5> QED
            BY <2>5, <4>1, <5>2, ChosenDoes DEF SameCall
        <4>2. CASE FixedUndone(t)
          <5>1. Inside(t, "create_swapchain", "undo") /\ Goto(t, "native")
            BY <4>2 DEF FixedUndone
          <5>2. call[t].step = "undo" /\ Shape(call[t])
            BY <5>1, InsideIs
          <5> QED
            BY <2>5, <5>1, <5>2, GotoDoes DEF SameCall
        <4> QED
          BY <3>1, <4>1, <4>2
      <3>3. Empty(call[t])
        BY <2>2, <2>5, <3>2 DEF Empty, Claims, Holds, Destroys
      <3>4. Empty(call'[t])
        BY <2>2, <3>2 DEF Empty, Claims, Holds, Destroys
      <3> QED
        BY <3>3, <3>4, EmptyHands
    <2>6. CASE call[t].op = "destroy_swapchain"
      <3>1. ProxyDestroyed(t)
        BY <1>3, <2>6, StepCases DEF AccountSteps
      <3>2. call'[t] = Idle /\ call[t].step = "drop" /\ DOMAIN call[t].left = {}
        BY <3>1, InsideIs, EndDoes DEF ProxyDestroyed, Return
      <3>3. Empty(call[t])
        BY <2>6, <3>2 DEF Empty, Claims, Holds
      <3> QED
        BY <2>3, <3>2, <3>3, EmptyHands
    <2>7. CASE call[t].op = "destroy_device"
      <3>1. GeneratorDropped(t) \/ PoolDestroyed(t) \/ DeviceDestroyed(t)
        BY <1>3, <2>7, StepCases DEF AccountSteps
      <3>2. CASE GeneratorDropped(t) \/ PoolDestroyed(t)
        <4>1. /\ call[t].step \in {"drop", "pool"} /\ DOMAIN call[t].left = {}
              /\ call'[t].op = "destroy_device" /\ call'[t].step \in {"pool", "device"}
          <5>1. CASE GeneratorDropped(t)
            BY <2>7, <5>1, InsideIs, GotoDoes DEF GeneratorDropped, SameCall
          <5>2. CASE PoolDestroyed(t)
            <6>1. /\ call[t].step = "pool" /\ call'[t].op = "destroy_device"
                  /\ call'[t].step = "device"
              BY <2>7, <5>2, InsideIs, GotoDoes DEF PoolDestroyed, SameCall
            <6> QED
              BY <2>2, <6>1 DEF Dropping
          <5> QED
            BY <3>2, <5>1, <5>2
        <4>2. DOMAIN call'[t].left = {}
          BY <2>2, <4>1 DEF Dropping
        <4>3. Empty(call[t])
          BY <2>7, <4>1 DEF Empty, Claims, Holds
        <4>4. Empty(call'[t])
          BY <4>1, <4>2 DEF Empty, Claims, Holds
        <4> QED
          BY <4>3, <4>4, EmptyHands
      <3>3. CASE DeviceDestroyed(t)
        <4>1. call[t].step = "device"
          BY <3>3, InsideIs DEF DeviceDestroyed
        <4>2. call'[t] = Idle
          BY <3>3, EndDoes DEF DeviceDestroyed, Return
        <4>3. Empty(call[t])
          BY <2>2, <2>7, <4>1 DEF Empty, Claims, Holds, Dropping
        <4> QED
          BY <2>3, <4>2, <4>3, EmptyHands
      <3> QED
        BY <3>1, <3>2, <3>3
    <2> QED
      BY <2>4, <2>5, <2>6, <2>7
  <1>4. CASE Woken(t) \/ Rests(t)
    BY <1>1, <1>4 DEF Woken, Rests
  <1> QED
    BY <1>1, <1>2, <1>3, <1>4

-----------------------------------------------------------------------------
(* What the tables, the game and a call say of a handle after a step of t   *)
(* is what they said before.                                                *)
SameBook(t, h) ==
  /\ h \in DOMAIN swapchains' <=> h \in DOMAIN swapchains
  /\ h \in DOMAIN swapchains => swapchains'[h] = swapchains[h]
  /\ h \in DOMAIN chains' <=> h \in DOMAIN chains
  /\ h \in DOMAIN chains => chains'[h].d = chains[h].d
  /\ Claims(call'[t], h) <=> Claims(call[t], h)
  /\ Claims(call[t], h) => call'[t].d = call[t].d

SameHolds(t, h) ==
  \A w : /\ Holds(call'[t], h, w) <=> Holds(call[t], h, w)
         /\ Holds(call[t], h, w) => call'[t].d = call[t].d

(* A handle that nothing was done to is held as before,                     *)
LEMMA SameMine ==
  ASSUME NEW t \in Threads, Others(t), NEW h, SameBook(t, h), SameHolds(t, h)
  PROVE  \A u \in Threads : /\ Mine(u, h)' <=> Mine(u, h)
                            /\ \A w : Holds(call[u], h, w)' <=> Holds(call[u], h, w)
                            /\ Claims(call[u], h)' <=> Claims(call[u], h)
                            /\ Mine(u, h) => call'[u].d = call[u].d
  <1> SUFFICES ASSUME NEW u \in Threads
               PROVE  /\ Mine(u, h)' <=> Mine(u, h)
                      /\ \A w : Holds(call[u], h, w)' <=> Holds(call[u], h, w)
                      /\ Claims(call[u], h)' <=> Claims(call[u], h)
                      /\ Mine(u, h) => call'[u].d = call[u].d
    OBVIOUS
  <1>1. CASE u = t
    BY <1>1 DEF SameBook, SameHolds, Mine
  <1>2. CASE u # t
    BY <1>2 DEF Others, Mine
  <1> QED
    BY <1>1, <1>2

(* booked as before,                                                        *)
LEMMA SameBooked ==
  ASSUME NEW t \in Threads, Others(t), NEW h, SameBook(t, h), SameHolds(t, h)
  PROVE  \A d, w : Booked(h, d, w)' <=> Booked(h, d, w)
  <1>1. \A u \in Threads : /\ \A w : Holds(call'[u], h, w) <=> Holds(call[u], h, w)
                           /\ Claims(call'[u], h) <=> Claims(call[u], h)
                           /\ Claims(call[u], h) => call'[u].d = call[u].d
                           /\ \A w : Holds(call[u], h, w) => call'[u].d = call[u].d
    BY SameMine DEF Mine
  <1>2. \A d, w : InTable(h, d, w)' <=> InTable(h, d, w)
    BY DEF InTable, SameBook
  <1>3. \A d, w : InHand(h, d, w)' <=> InHand(h, d, w)
    BY <1>1 DEF InHand
  <1>4. \A d : Claimed(h, d)' <=> Claimed(h, d)
    BY <1>1 DEF Claimed, SameBook
  <1>5. \A d, w : InGame(h, d, w)' <=> InGame(h, d, w)
    BY <1>4 DEF InGame, SameBook
  <1> QED
    BY <1>2, <1>3, <1>5 DEF Booked

(* in one place as before,                                                  *)
LEMMA SameOnce ==
  ASSUME NEW t \in Threads, Others(t), NEW h, SameBook(t, h), SameHolds(t, h), OnceAt(h)
  PROVE  OnceAt(h)'
  BY SameMine DEF OnceAt, SameBook

(* and with the same objects behind it.                                     *)
LEMMA SameExact ==
  ASSUME NEW t \in Threads, Others(t), NEW h, SameBook(t, h), SameHolds(t, h), Exact(h),
         Of(h)' = Of(h)
  PROVE  Exact(h)'
  BY SameBooked DEF Exact

(* A device keeps its entry and its hook until its destruction takes it.    *)
LEMMA DeviceStays ==
  ASSUME CallsInv, RulesInv, BaseInv, NEW t \in Threads, Play(t) \/ Step(t) \/ Woken(t),
         NEW d \in DOMAIN devices, ~(DeviceRemoved(t) /\ call[t].d = d)
  PROVE  d \in DOMAIN devices' /\ devices'[d].hook = devices[d].hook
  <1>1. CASE DeviceCreated(t)
    <2>1. PICK e : e = call[t].d
      OBVIOUS
    <2>2. call[t].op = "create_device"
      BY <1>1, InsideIs DEF DeviceCreated
    <2>3. /\ e \notin owned /\ e \in call[t].alone
      BY <2>1, <2>2 DEF RulesInv, UsesRight
    <2>4. d # e
      BY <2>1, <2>2, <2>3, GoingAlone DEF BaseInv, DevicesInv
    <2>5. RegisterDevice(e, TRUE) \/ RegisterDevice(e, FALSE) \/ UNCHANGED devices
      BY <1>1, <2>1 DEF DeviceCreated
    <2> QED
      BY <2>4, <2>5 DEF RegisterDevice, With
  <1>2. CASE DeviceRemoved(t)
    <2>1. devices' = Restrict(devices, DOMAIN devices \ {call[t].d})
      BY <1>2 DEF DeviceRemoved
    <2> QED
      BY <1>2, <2>1 DEF Restrict
  <1>3. CASE ProxyTried(t) \/ PresentInvalidated(t)
    <2>1. UNCHANGED devices \/ devices' = [devices EXCEPT ![call[t].d].proxy = FALSE]
      BY <1>3 DEF ProxyTried, PresentInvalidated
    <2>2. devices[d] = [hook |-> devices[d].hook, proxy |-> devices[d].proxy]
      BY DEF BaseInv, DevicesInv
    <2> QED
      BY <2>1, <2>2
  <1>4. CASE UNCHANGED devices
    BY <1>4
  <1> QED
    BY <1>1, <1>2, <1>3, <1>4, StepFrames, PlayFrames DEF Framed, ChangesDevices, tables

(* A device in use by a call stays as it is.                                *)
LEMMA UsedStays ==
  ASSUME CallsInv, RulesInv, BaseInv, NEW t \in Threads, Play(t) \/ Step(t) \/ Woken(t),
         NEW u \in Threads, call[u].d \in call[u].shared, Hooked(call[u].d)
  PROVE  \A d : d = call[u].d => Hooked(d)'
  <1>1. PICK d : d = call[u].d
    OBVIOUS
  <1>2. ~(DeviceRemoved(t) /\ call[t].d = d)
    <2> SUFFICES ASSUME DeviceRemoved(t), call[t].d = d
                 PROVE  FALSE
      OBVIOUS
    <2>1. call[t].op = "destroy_device"
      BY InsideIs DEF DeviceRemoved
    <2>2. d \in call[t].alone /\ call[t].shared \subseteq owned /\ d \notin owned
      BY <2>1 DEF RulesInv, UsesRight
    <2>3. call[u].shared \subseteq owned
      BY DEF RulesInv, UsesRight
    <2> QED
      BY <1>1, <2>2, <2>3
  <1>3. d \in DOMAIN devices' /\ devices'[d].hook
    BY <1>1, <1>2, DeviceStays DEF Hooked
  <1> QED
    BY <1>1, <1>3 DEF Hooked

(* What only a hooked device has is of a hooked device.                     *)
LEMMA HookedKept ==
  ASSUME CallsInv, RulesInv, BaseInv, TablesInv, HookedInv, NEW t \in Threads,
         Play(t) \/ Step(t) \/ Woken(t)
  PROVE  HookedInv'
  <1>1. Others(t)
    BY OthersStay
  <1>2. ASSUME NEW u \in Threads, NeedsHook(call[u])
        PROVE  \A d : d = call[u].d => Hooked(d)'
    <2>1. call[u].d \in call[u].shared
      BY <1>2 DEF NeedsHook, RulesInv, UsesRight
    <2> QED
      BY <1>2, <2>1, UsedStays DEF HookedInv
  <1>3. ASSUME NeedsHook(call'[t])
        PROVE  \A d : d = call'[t].d => Hooked(d)'
    <2>1. CASE NeedsHook(call[t]) /\ call'[t].d = call[t].d
      BY <1>2, <2>1
    <2>2. CASE Present(t)
      <3>1. PICK first \in call'[t].hs :
              /\ call'[t].wrapper = Lookup(first).wrapper /\ call'[t].op = "present"
              /\ first \in DOMAIN chains /\ chains[first].d = call'[t].d
              /\ devices' = devices
        BY <2>2, PresentDoes DEF tables
      <3>2. Lookup(first).wrapper \in {"fixed", "proxy"}
        BY <1>3, <3>1 DEF NeedsHook
      <3>3. first \in DOMAIN swapchains /\ Lookup(first) = swapchains[first]
        BY <3>2 DEF Lookup, Unregistered
      <3>4. TableAt(first)
        BY DEF TablesInv
      <3>5. call'[t].d \in DOMAIN devices /\ devices[call'[t].d].hook
        BY <3>1, <3>2, <3>3, <3>4 DEF TableAt
      <3> QED
        BY <3>1, <3>5 DEF Hooked
    <2>3. CASE Chosen(t)
      <3>1. /\ call'[t].step \in {"plain"} \cup IF Hooked(call[t].d) THEN Wrappers(call[t].d) ELSE {}
            /\ call'[t].op = call[t].op /\ call'[t].d = call[t].d /\ devices' = devices
        BY <2>3, ChosenDoes DEF Chosen, SameCall, tables
      <3>2. call[t].op = "create_swapchain"
        BY <2>3, InsideIs DEF Chosen
      <3>3. Hooked(call[t].d)
        BY <1>3, <3>1, <3>2 DEF NeedsHook
      <3> QED
        BY <3>1, <3>3 DEF Hooked
    <2>4. CASE Unwrapped(t)
      <3>1. /\ call[t].op = "create_swapchain" /\ Shape(call[t])
        BY <2>4, InsideIs DEF Unwrapped
      <3>2. (\E h : Getting(t, h, "none", "insert")) \/ call' = [call EXCEPT ![t] = Idle]
        BY <2>4 DEF Unwrapped, Driver, Return
      <3>3. CASE \E h : Getting(t, h, "none", "insert")
        BY <1>3, <3>1, <3>3, GettingDoes DEF NeedsHook, SameCall
      <3>4. CASE call' = [call EXCEPT ![t] = Idle]
        BY <1>3, <3>4, EndDoes, IdleHolds
      <3> QED
        BY <3>2, <3>3, <3>4
    <2>5. CASE ProxyTried(t) \/ FixedCreated(t) \/ FixedSetUp(t)
      <3>1. /\ call[t].op = "create_swapchain" /\ call[t].step \in {"proxy", "fixed", "setup"}
            /\ Shape(call[t])
        BY <2>5, InsideIs DEF ProxyTried, FixedCreated, FixedSetUp
      <3>2. call'[t].d = call[t].d
        <4>1. (\E step : Goto(t, step)) \/ (\E h, w, step : Getting(t, h, w, step))
          BY <2>5 DEF ProxyTried, FixedCreated, FixedSetUp, Driver
        <4> QED
          BY <3>1, <4>1, GotoDoes, GettingDoes DEF SameCall
      <3>3. NeedsHook(call[t])
        BY <3>1 DEF NeedsHook
      <3> QED
        BY <2>1, <3>2, <3>3
    <2>6. CASE FixedUndone(t)
      <3>1. /\ call[t].op = "create_swapchain" /\ Goto(t, "native") /\ Shape(call[t])
        BY <2>6, InsideIs DEF FixedUndone
      <3> QED
        BY <1>3, <3>1, GotoDoes DEF NeedsHook, SameCall
    <2>7. CASE call'[t] = Idle
      BY <1>3, <2>7, IdleHolds
    <2>8. CASE PresentLocked(t)
      <3>1. call[t].op = "present" /\ Shape(call[t]) /\ LockQueue(t)
        BY <2>8, InsideIs DEF PresentLocked
      <3>2. NeedsHook(call[t]) /\ call'[t].d = call[t].d
        BY <2>8, <3>1, LockQueueDoes DEF NeedsHook, PresentLocked, SameCall
      <3> QED
        BY <2>1, <3>2
    <2>9. CASE UNCHANGED call
      BY <1>3, <2>1, <2>9
    <2>10. CASE Play(t) /\ ~Present(t)
      <3>1. UNCHANGED call \/ (Begins(t) /\ call'[t].op # "present")
        <4>1. CASE CreateInstance(t) \/ DestroyInstance(t) \/ CreateDevice(t)
          BY <4>1, CreateInstanceDoes, DestroyInstanceDoes, CreateDeviceDoes
        <4>2. CASE CreateSurface(t) \/ DestroySurface(t) \/ DestroyDevice(t)
          BY <4>2, CreateSurfaceDoes, DestroySurfaceDoes, DestroyDeviceDoes
        <4>3. CASE CreateSwapchain(t) \/ DestroySwapchain(t)
          BY <4>3, CreateSwapchainDoes, DestroySwapchainDoes
        <4>4. CASE Acquire(t) \/ Submit(t)
          BY <4>4, AcquireDoes, SubmitDoes
        <4>5. CASE Ask(t)
          BY <4>5 DEF Ask
        <4> QED
          BY <2>10, <4>1, <4>2, <4>3, <4>4, <4>5 DEF Play
      <3>2. CASE Begins(t) /\ call'[t].op # "present"
        BY <1>3, <3>2 DEF Begins, NeedsHook, AtFirst, Known, StepsOf
      <3> QED
        BY <2>9, <3>1, <3>2
    <2>11. CASE Moves(t) /\ call[t].op \notin {"create_swapchain", "present"}
      BY <1>3, <2>11 DEF Moves, SameCall, NeedsHook
    <2>12. CASE Inserted(t) \/ PresentInvalidated(t) \/ ForwardDone(t) \/ PresentDone(t)
      BY <2>7, <2>12, EndDoes DEF Inserted, PresentInvalidated, ForwardDone, PresentDone, Return
    <2>14. CASE PresentForwarded(t)
      <3>1. /\ call[t].op = "present" /\ Shape(call[t]) /\ Goto(t, "forward")
            /\ call[t].wrapper \notin {"fixed", "proxy"}
        BY <2>14, InsideIs DEF PresentForwarded
      <3> QED
        BY <1>3, <3>1, GotoDoes DEF NeedsHook, SameCall, Rest
    <2>13. CASE Step(t)
      <3>1. UNCHANGED call \/ Moves(t) \/ call'[t] = Idle
        BY <2>13, StepCases DEF Rests, Ends
      <3>2. CASE call[t].op = "create_swapchain"
        BY <2>3, <2>4, <2>5, <2>6, <2>9, <2>12, <2>13, <3>2, StepCases DEF Rests
      <3>3. CASE call[t].op = "present"
        BY <2>8, <2>9, <2>12, <2>13, <2>14, <3>3, StepCases DEF Rests
      <3> QED
        BY <2>7, <2>9, <2>11, <3>1, <3>2, <3>3
    <2> QED
      BY <2>2, <2>9, <2>10, <2>13 DEF Woken
  <1> QED
    BY <1>1, <1>2, <1>3 DEF HookedInv, Others

(* A device being destroyed stays so until its entry goes.                  *)
LEMMA GoingStays ==
  ASSUME CallsInv, NEW t \in Threads, Play(t) \/ Step(t) \/ Woken(t), ~DeviceRemoved(t),
         NEW d, Going(d, {"remove"})
  PROVE  Going(d, {"remove"})'
  <1>1. PICK u \in Threads : call[u].op = "destroy_device" /\ call[u].step = "remove" /\ call[u].d = d
    BY DEF Going
  <1>2. call'[u] = call[u]
    <2>1. CASE u # t
      BY <2>1, OthersStay DEF Others
    <2>2. CASE u = t
      <3>1. Rests(t)
        <4>1. CASE Step(t)
          BY <1>1, <2>2, <4>1, StepCases, WhereIs DEF Where
        <4>2. CASE Play(t) \/ Woken(t)
          BY <1>1, <2>2, <4>2, PlaySkeleton, IdleFields DEF Begins
        <4> QED
          BY <4>1, <4>2
      <3> QED
        BY <2>2, <3>1 DEF Rests
    <2> QED
      BY <2>1, <2>2
  <1> QED
    BY <1>1, <1>2 DEF Going

(* No device is registered that the game already owns.                      *)
LEMMA DevicesCome ==
  ASSUME CallsInv, RulesInv, NEW t \in Threads, Play(t) \/ Step(t) \/ Woken(t),
         NEW d \in owned, d \in DOMAIN devices'
  PROVE  d \in DOMAIN devices
  <1>1. CASE DeviceCreated(t)
    <2>1. call[t].op = "create_device"
      BY <1>1, InsideIs DEF DeviceCreated
    <2>2. call[t].d # d
      BY <2>1 DEF RulesInv, UsesRight
    <2> QED
      BY <1>1, <2>2 DEF DeviceCreated, RegisterDevice, With
  <1>2. CASE DeviceRemoved(t)
    <2>1. devices' = Restrict(devices, DOMAIN devices \ {call[t].d})
      BY <1>2 DEF DeviceRemoved
    <2> QED
      BY <2>1 DEF Restrict
  <1>3. CASE ProxyTried(t) \/ PresentInvalidated(t)
    BY <1>3 DEF ProxyTried, PresentInvalidated
  <1>4. CASE UNCHANGED devices
    BY <1>4
  <1> QED
    BY <1>1, <1>2, <1>3, <1>4, StepFrames, PlayFrames DEF Framed, ChangesDevices, tables

(* The table's entry of such a handle is right as before.                   *)
LEMMA SameTable ==
  ASSUME CallsInv, RulesInv, BaseInv, NEW t \in Threads, Play(t) \/ Step(t) \/ Woken(t),
         ~DeviceRemoved(t), NEW h, SameBook(t, h), TableAt(h)
  PROVE  TableAt(h)'
  <1>1. Others(t)
    BY OthersStay
  <1>2. ASSUME h \in DOMAIN swapchains
        PROVE  /\ swapchains'[h].d \in DOMAIN devices'
               /\ swapchains'[h].wrapper # "none" => devices'[swapchains'[h].d].hook
    <2>1. /\ swapchains'[h] = swapchains[h] /\ swapchains[h].d \in DOMAIN devices
          /\ swapchains[h].wrapper # "none" => devices[swapchains[h].d].hook
      BY <1>2 DEF SameBook, TableAt
    <2> QED
      BY <2>1, DeviceStays
  <1>3. \A u \in Threads : /\ Claims(call'[u], h) <=> Claims(call[u], h)
                           /\ Claims(call[u], h) => call'[u].d = call[u].d
    BY <1>1 DEF Others, SameBook
  <1>4. ASSUME h \in DOMAIN swapchains
        PROVE  \/ h \in DOMAIN chains'
               \/ \E u \in Threads : Claims(call'[u], h)
               \/ \E u \in Threads : /\ call'[u].op = "destroy_device" /\ call'[u].step = "remove"
                                    /\ call'[u].d = swapchains[h].d
    <2>1. PICK d : d = swapchains[h].d
      OBVIOUS
    <2>2. Going(d, {"remove"}) => Going(d, {"remove"})'
      BY GoingStays
    <2>3. Going(d, {"remove"})' =>
            \E u \in Threads : /\ call'[u].op = "destroy_device" /\ call'[u].step = "remove"
                              /\ call'[u].d = d
      BY DEF Going
    <2>4. h \in DOMAIN chains \/ (\E u \in Threads : Claims(call[u], h)) \/ Going(d, {"remove"})
      BY <1>4, <2>1 DEF TableAt
    <2> QED
      BY <1>3, <2>1, <2>2, <2>3, <2>4 DEF SameBook
  <1>5. ASSUME h \in DOMAIN chains', chains'[h].d \in DOMAIN devices'
        PROVE  h \in DOMAIN swapchains'
    <2>1. h \in DOMAIN chains /\ chains'[h].d = chains[h].d /\ chains[h].d \in owned
      BY <1>5 DEF SameBook, RulesInv, ChainsInv
    <2>2. chains[h].d \in DOMAIN devices
      BY <1>5, <2>1, DevicesCome
    <2> QED
      BY <2>1, <2>2 DEF SameBook, TableAt
  <1>6. ASSUME h \in DOMAIN swapchains
        PROVE  swapchains'[h].d = swapchains[h].d
    BY <1>6 DEF SameBook
  <1>7. h \in DOMAIN swapchains' /\ h \in DOMAIN chains' => chains'[h].d = swapchains'[h].d
    BY DEF SameBook, TableAt
  <1>8. h \in DOMAIN swapchains' =>
          \A u \in Threads : Claims(call'[u], h) => call'[u].d = swapchains'[h].d
    BY <1>3 DEF SameBook, TableAt
  <1>9. h \in DOMAIN swapchains' =>
          \/ h \in DOMAIN chains'
          \/ \E u \in Threads : Claims(call'[u], h)
          \/ \E u \in Threads : /\ call'[u].op = "destroy_device" /\ call'[u].step = "remove"
                                /\ call'[u].d = swapchains'[h].d
    BY <1>4, <1>6 DEF SameBook
  <1> QED
    BY <1>2, <1>5, <1>7, <1>8, <1>9 DEF TableAt, SameBook, Going

-----------------------------------------------------------------------------
(* Each step that moves a handle from one account to another.               *)

(* The steps that make and destroy swapchains and their wrappers.           *)
LEMMA OfFrames ==
  ASSUME Formed, NEW t \in Threads, Play(t) \/ Step(t) \/ Woken(t),
         ~ProxyTried(t), ~FixedCreated(t), ~FixedSetUp(t), ~Unwrapped(t),
         ~WrapperTaken(t), ~FixedDropped(t), ~SwapchainDestroyed(t)
  PROVE  \A h : Of(h)' = Of(h)
  <1>1. CASE UNCHANGED live
    BY <1>1 DEF Of
  <1>2. CASE InstanceCreated(t) \/ SurfaceCreated(t)
    BY <1>2, ObjectIs DEF InstanceCreated, SurfaceCreated, Of, Kinds
  <1>3. CASE DeviceCreated(t)
    <2>1. \/ live' = live
          \/ live' = live \cup HookedDevice(call[t].d)
          \/ live' = live \cup PlainDevice(call[t].d)
      BY <1>3 DEF DeviceCreated
    <2> QED
      BY <2>1, ObjectIs DEF HookedDevice, PlainDevice, Of, Kinds
  <1>4. CASE PresentDone(t)
    BY <1>4, ObjectIs DEF PresentDone, Of, Kinds
  <1>5. CASE \/ InstanceDestroyed(t) \/ GeneratorDropped(t) \/ PoolDestroyed(t)
             \/ DeviceDestroyed(t) \/ SurfaceDestroyed(t)
    <2>1. \E kind \in {"instance", "generator", "pool", "device", "surface"} : \E id :
            live' = Without({kind}, id)
      BY <1>5 DEF InstanceDestroyed, GeneratorDropped, PoolDestroyed, DeviceDestroyed, SurfaceDestroyed
    <2> QED
      BY <2>1 DEF Without, Of, Kinds
  <1> QED
    BY <1>1, <1>2, <1>3, <1>4, <1>5, StepFrames, PlayFrames DEF Framed, ChangesLive

(* A call that made a swapchain or a proxy has its handle in hand.          *)
MakesHand(t, made, wrapper) ==
  /\ Empty(call[t]) /\ \A h : ~Claims(call'[t], h)
  /\ \A h, w : Holds(call'[t], h, w) <=> (h = made /\ w = wrapper)
  /\ call'[t].d = call[t].d

(* A creation that gets a handle has it in hand.                            *)
LEMMA MakingHand ==
  ASSUME CallsInv, LeftInv, LeftInv', NEW t \in Threads, call[t].op = "create_swapchain",
         Shape(call[t]), call[t].step \in {"plain", "proxy", "fixed", "native"},
         NEW h, NEW wrapper, NEW step \in {"insert", "setup"}, Getting(t, h, wrapper, step)
  PROVE  MakesHand(t, h, IF step = "setup" THEN "none" ELSE wrapper)
  <1>1. /\ call'[t].op = "create_swapchain" /\ call'[t].new = h /\ call'[t].wrapper = wrapper
        /\ call'[t].step = step /\ call'[t].d = call[t].d
    BY GettingDoes DEF SameCall
  <1>2. DOMAIN call[t].left = {} /\ DOMAIN call'[t].left = {}
    BY <1>1 DEF LeftInv, Destroys
  <1>3. Empty(call[t])
    BY <1>2 DEF Empty, Claims, Holds, Destroys
  <1>4. \A g : ~Claims(call'[t], g)
    BY <1>1 DEF Claims
  <1>5. \A g, w : Holds(call'[t], g, w) <=> (g = h /\ w = IF step = "setup" THEN "none" ELSE wrapper)
    BY <1>1, <1>2 DEF Holds, Destroys
  <1> QED
    BY <1>1, <1>3, <1>4, <1>5 DEF MakesHand

(* It takes a free one and makes what stands behind it.                     *)
LEMMA CreatingHand ==
  ASSUME CallsInv, LeftInv, LeftInv', NEW t \in Threads,
         ProxyTried(t) \/ FixedCreated(t) \/ Unwrapped(t)
  PROVE  /\ UNCHANGED <<swapchains, chains>>
         /\ \/ SameHand(t) /\ UNCHANGED live
            \/ \E h \in FreeHandles : \E w \in {"none", "proxy"} :
                 MakesHand(t, h, w) /\ live' = live \cup Backing(h, call[t].d, w)
  <1>1. /\ call[t].op = "create_swapchain" /\ call[t].step \in {"plain", "proxy", "fixed", "native"}
        /\ Shape(call[t])
    BY InsideIs DEF ProxyTried, FixedCreated, Unwrapped
  <1>2. UNCHANGED <<swapchains, chains>>
    BY DEF ProxyTried, FixedCreated, Unwrapped, tables, game
  <1>3. Empty(call[t])
    BY <1>1 DEF LeftInv, Empty, Claims, Holds, Destroys
  <1>4. ASSUME NEW step \in {"fixed", "native"}, Goto(t, step)
        PROVE  SameHand(t)
    <2>1. call'[t].op = "create_swapchain" /\ call'[t].step = step
      BY <1>1, <1>4, GotoDoes DEF SameCall
    <2>2. DOMAIN call'[t].left = {}
      BY <2>1 DEF LeftInv, Destroys
    <2>3. Empty(call'[t])
      BY <2>1, <2>2 DEF Empty, Claims, Holds, Destroys
    <2> QED
      BY <1>3, <2>3, EmptyHands
  <1>5. ASSUME call' = [call EXCEPT ![t] = Idle]
        PROVE  SameHand(t)
    <2>1. call'[t] = Idle
      BY <1>5, EndDoes
    <2>2. Empty(call'[t])
      BY <2>1, IdleHolds DEF Empty
    <2> QED
      BY <1>3, <2>2, EmptyHands
  <1>6. ASSUME NEW h \in FreeHandles, NEW wrapper, NEW step \in {"insert", "setup"},
               Getting(t, h, wrapper, step), NEW w \in {"none", "proxy"},
               w = IF step = "setup" THEN "none" ELSE wrapper,
               live' = live \cup Backing(h, call[t].d, w)
        PROVE  \E g \in FreeHandles : \E v \in {"none", "proxy"} :
                 MakesHand(t, g, v) /\ live' = live \cup Backing(g, call[t].d, v)
    BY <1>1, <1>6, MakingHand
  <1>7. CASE ProxyTried(t)
    <2>1. \/ \E h \in FreeHandles : /\ live' = live \cup {Object("proxy", h, call[t].d)}
                                    /\ Getting(t, h, "proxy", "insert")
          \/ Goto(t, "fixed") /\ UNCHANGED live
      BY <1>7 DEF ProxyTried
    <2>2. ASSUME NEW h \in FreeHandles, live' = live \cup {Object("proxy", h, call[t].d)},
                 Getting(t, h, "proxy", "insert")
          PROVE  \E g \in FreeHandles : \E v \in {"none", "proxy"} :
                   MakesHand(t, g, v) /\ live' = live \cup Backing(g, call[t].d, v)
      <3>1. live' = live \cup Backing(h, call[t].d, "proxy")
        BY <2>2 DEF Backing
      <3> QED
        BY <1>6, <2>2, <3>1
    <2> QED
      BY <1>2, <1>4, <2>1, <2>2
  <1>8. CASE FixedCreated(t)
    <2>1. \/ \E h \in FreeHandles : Makes(t, h) /\ Getting(t, h, "fixed", "setup")
          \/ Goto(t, "native") /\ UNCHANGED live
      BY <1>8 DEF FixedCreated, Driver
    <2>2. ASSUME NEW h \in FreeHandles, Makes(t, h), Getting(t, h, "fixed", "setup")
          PROVE  \E g \in FreeHandles : \E v \in {"none", "proxy"} :
                   MakesHand(t, g, v) /\ live' = live \cup Backing(g, call[t].d, v)
      <3>1. live' = live \cup Backing(h, call[t].d, "none")
        BY <2>2 DEF Backing, Makes
      <3> QED
        BY <1>6, <2>2, <3>1
    <2> QED
      BY <1>2, <1>4, <2>1, <2>2
  <1>9. CASE Unwrapped(t)
    <2>1. \/ \E h \in FreeHandles : Makes(t, h) /\ Getting(t, h, "none", "insert")
          \/ call' = [call EXCEPT ![t] = Idle] /\ UNCHANGED live
      BY <1>9 DEF Unwrapped, Driver, Return
    <2>2. ASSUME NEW h \in FreeHandles, Makes(t, h), Getting(t, h, "none", "insert")
          PROVE  \E g \in FreeHandles : \E v \in {"none", "proxy"} :
                   MakesHand(t, g, v) /\ live' = live \cup Backing(g, call[t].d, v)
      <3>1. live' = live \cup Backing(h, call[t].d, "none")
        BY <2>2 DEF Backing, Makes
      <3> QED
        BY <1>6, <2>2, <3>1
    <2> QED
      BY <1>2, <1>5, <2>1, <2>2
  <1> QED
    BY <1>7, <1>8, <1>9

AccountAt(h) == OnceAt(h) /\ TableAt(h) /\ Exact(h)

(* The account of a handle that nothing was done to is right as before.     *)
LEMMA SameAccount ==
  ASSUME CallsInv, RulesInv, BaseInv, NEW t \in Threads, Play(t) \/ Step(t) \/ Woken(t),
         ~DeviceRemoved(t), NEW h, SameBook(t, h), SameHolds(t, h), Of(h)' = Of(h), AccountAt(h)
  PROVE  AccountAt(h)'
  <1>1. Others(t)
    BY OthersStay
  <1> QED
    BY <1>1, SameOnce, SameTable, SameExact DEF AccountAt

(* The same in hand and in the tables is nothing done to any handle.        *)
LEMMA HandSame ==
  ASSUME NEW t \in Threads, SameHand(t), UNCHANGED <<swapchains, chains>>
  PROVE  \A h : SameBook(t, h) /\ SameHolds(t, h)
  BY DEF SameHand, SameBook, SameHolds, Mine

(* Nobody had the handle that was made, and the call has it now.            *)
LEMMA MadeAccount ==
  ASSUME NEW t \in Threads, Others(t), NEW g \in FreeHandles, NEW w, NEW d, d = call[t].d,
         MakesHand(t, g, w), Exact(g), live' = live \cup Backing(g, d, w),
         UNCHANGED <<swapchains, chains>>
  PROVE  AccountAt(g)'
  <1>1. /\ Of(g) = {} /\ \A e, v : ~Booked(g, e, v)
        /\ g \notin DOMAIN swapchains /\ g \notin DOMAIN chains
        /\ \A u \in Threads : ~Mine(u, g)
    BY FreeIs
  <1>2. \A u \in Threads : u # t => ~Claims(call'[u], g) /\ \A v : ~Holds(call'[u], g, v)
    BY <1>1 DEF Mine, Others
  <1>3. ~Claims(call'[t], g) /\ \A v : Holds(call'[t], g, v) <=> v = w
    BY DEF MakesHand
  <1>4. OnceAt(g)'
    BY <1>1, <1>2, <1>3 DEF OnceAt, Mine
  <1>5. TableAt(g)'
    BY <1>1 DEF TableAt
  <1>6. Of(g)' = Backing(g, d, w)
    <2>1. \A o \in Backing(g, d, w) : o.kind \in Kinds /\ o.id = g
      BY BackingTells
    <2> QED
      BY <1>1, <2>1 DEF Of
  <1>7. \A e, v : Booked(g, e, v)' <=> (e = d /\ v = w)
    <2>1. \A e, v : ~InTable(g, e, v)'
      BY <1>1 DEF InTable
    <2>2. \A e, v : ~InGame(g, e, v)'
      BY <1>1, <1>2, <1>3 DEF InGame, Claimed
    <2>3. \A e, v : InHand(g, e, v)' <=> (e = d /\ v = w)
      BY <1>2, <1>3 DEF InHand, MakesHand
    <2> QED
      BY <2>1, <2>2, <2>3 DEF Booked
  <1>8. Exact(g)'
    BY <1>6, <1>7 DEF Exact
  <1> QED
    BY <1>4, <1>5, <1>8 DEF AccountAt

(* The accounts stay right when a creation makes something,                 *)
LEMMA CreatingAccounts ==
  ASSUME CallsInv, RulesInv, BaseInv, LeftInv, LeftInv', NEW t \in Threads, Step(t),
         ProxyTried(t) \/ FixedCreated(t) \/ Unwrapped(t), \A h : AccountAt(h)
  PROVE  \A h : AccountAt(h)'
  <1>1. /\ UNCHANGED <<swapchains, chains>>
        /\ \/ SameHand(t) /\ UNCHANGED live
           \/ \E g \in FreeHandles : \E w :
                MakesHand(t, g, w) /\ live' = live \cup Backing(g, call[t].d, w)
    BY CreatingHand
  <1>2. ~DeviceRemoved(t)
    BY WhereIs DEF Where
  <1>3. CASE SameHand(t) /\ UNCHANGED live
    <2>1. \A h : SameBook(t, h) /\ SameHolds(t, h)
      BY <1>1, <1>3, HandSame
    <2>2. \A h : Of(h)' = Of(h)
      BY <1>3 DEF Of
    <2> QED
      BY <1>2, <2>1, <2>2, SameAccount
  <1>4. ASSUME NEW g \in FreeHandles, NEW w, MakesHand(t, g, w),
               live' = live \cup Backing(g, call[t].d, w)
        PROVE  \A h : AccountAt(h)'
    <2>1. \A h : h # g => SameBook(t, h) /\ SameHolds(t, h)
      BY <1>1, <1>4 DEF MakesHand, Empty, SameBook, SameHolds
    <2>2. ASSUME NEW h, h # g
          PROVE  Of(h)' = Of(h)
      <3>1. \A o \in Backing(g, call[t].d, w) : o.id = g
        BY BackingTells
      <3> QED
        BY <1>4, <2>2, <3>1 DEF Of
    <2>3. \A h : h # g => AccountAt(h)'
      BY <1>2, <2>1, <2>2, SameAccount
    <2>4. \A h : h = g => AccountAt(h)'
      BY <1>1, <1>4, OthersStay, MadeAccount DEF AccountAt
    <2> QED
      BY <2>3, <2>4
  <1> QED
    BY <1>1, <1>3, <1>4

(* A call's handle, and nobody else's.                                      *)
LEMMA HandOnly ==
  ASSUME NEW t \in Threads, Others(t), NEW h, OnceAt(h), Mine(t, h)
  PROVE  /\ h \notin DOMAIN chains
         /\ \A u \in Threads : u # t =>
              /\ ~Claims(call[u], h) /\ ~Claims(call'[u], h)
              /\ \A w : ~Holds(call[u], h, w) /\ ~Holds(call'[u], h, w)
  BY DEF OnceAt, Mine, Others

(* What is left of an account that only a call keeps.                       *)
LEMMA HandAccount ==
  ASSUME NEW t \in Threads, Others(t), NEW h, OnceAt(h), Mine(t, h), ~Claims(call'[t], h),
         h \notin DOMAIN swapchains', DOMAIN chains' = DOMAIN chains,
         \/ Of(h)' = {} /\ \A v : ~Holds(call'[t], h, v)
         \/ \E d, w : /\ d = call'[t].d /\ Of(h)' = Backing(h, d, w)
                      /\ \A v : Holds(call'[t], h, v) <=> v = w
  PROVE  AccountAt(h)'
  <1>1. /\ h \notin DOMAIN chains'
        /\ \A u \in Threads : u # t =>
             ~Claims(call'[u], h) /\ \A w : ~Holds(call'[u], h, w)
    BY HandOnly
  <1>2. OnceAt(h)'
    BY <1>1 DEF OnceAt, Mine
  <1>3. TableAt(h)'
    BY <1>1 DEF TableAt
  <1>4. \A e, v : ~InTable(h, e, v)' /\ ~InGame(h, e, v)'
    BY <1>1 DEF InTable, InGame, Claimed
  <1>5. \A e, v : InHand(h, e, v)' <=> (Holds(call'[t], h, v) /\ call'[t].d = e)
    BY <1>1 DEF InHand
  <1>6. Exact(h)'
    <2>1. CASE Of(h)' = {} /\ \A v : ~Holds(call'[t], h, v)
      BY <1>4, <1>5, <2>1 DEF Exact, Booked
    <2>2. ASSUME NEW d, NEW w, d = call'[t].d, Of(h)' = Backing(h, d, w),
                 \A v : Holds(call'[t], h, v) <=> v = w
          PROVE  Exact(h)'
      <3>1. \A e, v : Booked(h, e, v)' <=> (e = d /\ v = w)
        BY <1>4, <1>5, <2>2 DEF Booked
      <3> QED
        BY <2>2, <3>1 DEF Exact
    <2> QED
      BY <2>1, <2>2
  <1> QED
    BY <1>2, <1>3, <1>6 DEF AccountAt

(* A call's steps with a handle it has in hand.                             *)
LEMMA InHandIs ==
  ASSUME NEW t \in Threads, NEW h, NEW w, Holds(call[t], h, w), Exact(h)
  PROVE  \A d : d = call[t].d => Of(h) = Backing(h, d, w)
  BY DEF Exact, Booked, InHand

(* What stands behind a handle, for each wrapper.                           *)
LEMMA BackingsAre ==
  ASSUME NEW h, NEW d
  PROVE  /\ Backing(h, d, "proxy") = {Object("proxy", h, d)}
         /\ Backing(h, d, "none") = {Object("swapchain", h, d)}
         /\ Backing(h, d, "fixed") = {Object("swapchain", h, d), Object("fixed", h, d)}
         /\ \A w : w \notin {"proxy", "fixed"} => Backing(h, d, w) = {Object("swapchain", h, d)}
  BY DEF Backing

(* An object of one handle goes, and no other.                              *)
LEMMA WithoutOf ==
  ASSUME NEW kind, NEW h, live' = Without({kind}, h)
  PROVE  /\ \A g : g # h => Of(g)' = Of(g)
         /\ Of(h)' = {o \in Of(h) : o.kind # kind}
  BY DEF Without, Of

(* The accounts stay right when the fixed wrapper is set up or fails,       *)
LEMMA FixedSetUpAccounts ==
  ASSUME CallsInv, RulesInv, BaseInv, LeftInv, LeftInv', NEW t \in Threads, FixedSetUp(t),
         \A h : AccountAt(h)
  PROVE  \A h : AccountAt(h)'
  <1>1. PICK g : g = call[t].new
    OBVIOUS
  <1>2. PICK d : d = call[t].d
    OBVIOUS
  <1>3. /\ call[t].op = "create_swapchain" /\ call[t].step = "setup" /\ Shape(call[t])
    BY InsideIs DEF FixedSetUp
  <1>4. /\ Others(t) /\ ~DeviceRemoved(t) /\ Step(t) /\ UNCHANGED <<swapchains, chains>>
    <2>1. ~DeviceRemoved(t)
      BY <1>3, WhereIs DEF Where
    <2> QED
      BY <2>1, OthersStay DEF Step, FixedSetUp, tables, game
  <1>5. /\ DOMAIN call[t].left = {} /\ DOMAIN call'[t].left = {} /\ call[t].wrapper = "fixed"
        /\ call'[t].op = "create_swapchain" /\ call'[t].d = d
        /\ \/ /\ live' = live \cup {Object("fixed", g, d)}
              /\ call'[t].step = "insert" /\ call'[t].new = g /\ call'[t].wrapper = "fixed"
           \/ live' = Without({"swapchain"}, g) /\ call'[t].step = "undo"
    <2>1. \/ live' = live \cup {Object("fixed", g, d)} /\ Goto(t, "insert")
          \/ live' = Without({"swapchain"}, g) /\ Getting(t, None, "none", "undo")
      BY <1>1, <1>2 DEF FixedSetUp
    <2>2. call[t].wrapper = "fixed" /\ DOMAIN call[t].left = {}
      BY <1>3 DEF LeftInv, Destroys
    <2>3. /\ call'[t].op = "create_swapchain" /\ call'[t].d = d
          /\ \/ /\ live' = live \cup {Object("fixed", g, d)}
                /\ call'[t].step = "insert" /\ call'[t].new = g /\ call'[t].wrapper = "fixed"
             \/ live' = Without({"swapchain"}, g) /\ call'[t].step = "undo"
      BY <1>1, <1>2, <1>3, <2>1, <2>2, GotoDoes, GettingDoes DEF SameCall, Rest
    <2>4. DOMAIN call'[t].left = {}
      BY <2>3 DEF LeftInv, Destroys
    <2> QED
      BY <2>2, <2>3, <2>4
  <1>6. /\ \A h : ~Claims(call[t], h) /\ ~Claims(call'[t], h)
        /\ \A h, w : Holds(call[t], h, w) <=> (h = g /\ w = "none")
        /\ \A h, w : Holds(call'[t], h, w) <=> (call'[t].step = "insert" /\ h = g /\ w = "fixed")
    BY <1>1, <1>3, <1>5 DEF Claims, Holds, Destroys
  <1>7. \A h : h # g => Of(h)' = Of(h)
    <2>1. CASE live' = live \cup {Object("fixed", g, d)}
      BY <2>1, ObjectIs DEF Of
    <2>2. CASE live' = Without({"swapchain"}, g)
      BY <2>2, WithoutOf
    <2> QED
      BY <1>5, <2>1, <2>2
  <1>8. \A h : h # g => AccountAt(h)'
    <2>1. \A h : h # g => SameBook(t, h) /\ SameHolds(t, h)
      BY <1>4, <1>6 DEF SameBook, SameHolds
    <2> QED
      BY <1>4, <1>7, <2>1, SameAccount
  <1>9. \A h : h = g => AccountAt(h)'
    <2>1. OnceAt(g) /\ Exact(g) /\ Mine(t, g) /\ Holds(call[t], g, "none")
      BY <1>6 DEF AccountAt, Mine
    <2>2. Of(g) = {Object("swapchain", g, d)}
      BY <1>2, <2>1, InHandIs, BackingsAre
    <2>3. g \notin DOMAIN swapchains
      BY <2>1 DEF OnceAt
    <2>4. CASE live' = live \cup {Object("fixed", g, d)} /\ call'[t].step = "insert"
      <3>1. Of(g)' = Backing(g, d, "fixed")
        <4>1. Of(g)' = Of(g) \cup {Object("fixed", g, d)}
          BY <2>4, ObjectIs DEF Of, Kinds
        <4> QED
          BY <2>2, <4>1, BackingsAre
      <3>2. \A v : Holds(call'[t], g, v) <=> v = "fixed"
        BY <1>6, <2>4
      <3>3. \E e, w : /\ e = call'[t].d /\ Of(g)' = Backing(g, e, w)
                     /\ \A v : Holds(call'[t], g, v) <=> v = w
        BY <1>5, <3>1, <3>2
      <3> QED
        BY <1>4, <1>6, <2>1, <2>3, <3>3, HandAccount
    <2>5. CASE live' = Without({"swapchain"}, g) /\ call'[t].step = "undo"
      <3>1. Of(g)' = {}
        <4>1. Of(g)' = {o \in Of(g) : o.kind # "swapchain"}
          BY <2>5, WithoutOf
        <4>2. \A o \in Of(g) : o.kind = "swapchain"
          BY <2>2, ObjectIs
        <4> QED
          BY <4>1, <4>2
      <3>2. \A v : ~Holds(call'[t], g, v)
        BY <1>6, <2>5
      <3> QED
        BY <1>4, <1>6, <2>1, <2>3, <3>1, <3>2, HandAccount
    <2> QED
      BY <1>5, <2>4, <2>5
  <1> QED
    BY <1>8, <1>9

(* A step that moves one handle a call has in hand, and nothing else.       *)
LEMMA HandMoves ==
  ASSUME CallsInv, RulesInv, BaseInv, NEW t \in Threads, Step(t), ~DeviceRemoved(t),
         \A h : AccountAt(h), UNCHANGED <<swapchains, chains>>,
         NEW g, \E w : Holds(call[t], g, w),
         \A h : ~Claims(call[t], h) /\ ~Claims(call'[t], h),
         \A h, w : h # g => (Holds(call'[t], h, w) <=> Holds(call[t], h, w)),
         \A h, w : h # g /\ Holds(call[t], h, w) => call'[t].d = call[t].d,
         \A h : h # g => Of(h)' = Of(h),
         \/ Of(g)' = {} /\ \A v : ~Holds(call'[t], g, v)
         \/ \E d, w : /\ d = call'[t].d /\ Of(g)' = Backing(g, d, w)
                      /\ \A v : Holds(call'[t], g, v) <=> v = w
  PROVE  \A h : AccountAt(h)'
  <1>1. Others(t)
    BY OthersStay
  <1>2. \A h : h # g => AccountAt(h)'
    <2>1. \A h : h # g => SameBook(t, h) /\ SameHolds(t, h)
      BY DEF SameBook, SameHolds
    <2> QED
      BY <2>1, SameAccount
  <1>3. \A h : h = g => AccountAt(h)'
    <2>1. OnceAt(g) /\ Mine(t, g) /\ g \notin DOMAIN swapchains
      BY DEF AccountAt, Mine, OnceAt
    <2> QED
      BY <1>1, <2>1, HandAccount
  <1> QED
    BY <1>2, <1>3

(* when it is dropped,                                                      *)
LEMMA FixedDroppedAccounts ==
  ASSUME CallsInv, RulesInv, BaseInv, LeftInv, LeftInv', NEW t \in Threads, FixedDropped(t),
         \A h : AccountAt(h)
  PROVE  \A h : AccountAt(h)'
  <1>1. PICK g : g = call[t].h
    OBVIOUS
  <1>2. PICK d : d = call[t].d
    OBVIOUS
  <1>3. /\ Destroys(call[t]) /\ call[t].step = "queue" /\ Shape(call[t])
        /\ Goto(t, "destroy") /\ live' = Without({"fixed"}, g)
    BY <1>1, InsideIs DEF FixedDropped, Destroying, Destroys
  <1>4. /\ call'[t].op = call[t].op /\ call'[t].d = d /\ call'[t].h = g
        /\ call'[t].left = call[t].left /\ call'[t].step = "destroy"
    BY <1>1, <1>2, <1>3, GotoDoes DEF SameCall, Rest
  <1>5. g \notin DOMAIN call[t].left
    BY <1>1, <1>3 DEF LeftInv
  <1>6. ~DeviceRemoved(t) /\ Step(t) /\ UNCHANGED <<swapchains, chains>>
    <2>1. ~DeviceRemoved(t)
      BY <1>3, WhereIs DEF Where
    <2> QED
      BY <2>1 DEF Step, FixedDropped, tables, game
  <1>7. \A h : ~Claims(call[t], h) /\ ~Claims(call'[t], h)
    BY <1>3, <1>4 DEF Claims
  <1>8. \A h, w : h # g => (Holds(call'[t], h, w) <=> Holds(call[t], h, w))
    BY <1>1, <1>3, <1>4 DEF Holds, Destroys
  <1>9. /\ \A w : Holds(call[t], g, w) <=> w = "fixed"
        /\ \A w : Holds(call'[t], g, w) <=> w = "none"
    BY <1>1, <1>3, <1>4, <1>5 DEF Holds, Destroys
  <1>10. Of(g)' = Backing(g, d, "none") /\ \A h : h # g => Of(h)' = Of(h)
    <2>1. Of(g) = {Object("swapchain", g, d), Object("fixed", g, d)}
      BY <1>2, <1>9, InHandIs, BackingsAre DEF AccountAt
    <2>2. Of(g)' = {o \in Of(g) : o.kind # "fixed"} /\ \A h : h # g => Of(h)' = Of(h)
      BY <1>3, WithoutOf
    <2>3. Of(g)' = {Object("swapchain", g, d)}
      BY <2>1, <2>2, ObjectIs
    <2> QED
      BY <2>2, <2>3, BackingsAre
  <1>11. \E e, w : /\ e = call'[t].d /\ Of(g)' = Backing(g, e, w)
                   /\ \A v : Holds(call'[t], g, v) <=> v = w
    BY <1>4, <1>9, <1>10
  <1>12. \E w : Holds(call[t], g, w)
    BY <1>9
  <1>13. call'[t].d = call[t].d
    BY <1>2, <1>4
  <1> QED
    BY <1>6, <1>7, <1>8, <1>10, <1>11, <1>12, <1>13, HandMoves

(* when the driver's swapchain is destroyed,                                *)
LEMMA SwapchainDestroyedAccounts ==
  ASSUME CallsInv, RulesInv, BaseInv, LeftInv, LeftInv', NEW t \in Threads, SwapchainDestroyed(t),
         \A h : AccountAt(h)
  PROVE  \A h : AccountAt(h)'
  <1>1. PICK g : g = call[t].h
    OBVIOUS
  <1>2. PICK d : d = call[t].d
    OBVIOUS
  <1>3. /\ Destroys(call[t]) /\ call[t].step = "destroy" /\ Shape(call[t])
        /\ live' = Without({"swapchain"}, g)
        /\ IF call[t].op = "destroy_device" THEN Goto(t, "drop") ELSE Return(t)
    BY <1>1, InsideIs DEF SwapchainDestroyed, Destroying, Destroys
  <1>4. \/ call'[t] = Idle /\ call[t].op = "destroy_swapchain" /\ DOMAIN call[t].left = {}
        \/ /\ call'[t].op = call[t].op /\ call'[t].d = d /\ call'[t].left = call[t].left
           /\ call'[t].step = "drop"
    <2>1. CASE call[t].op = "destroy_device"
      BY <1>2, <1>3, <2>1, GotoDoes DEF SameCall, Rest
    <2>2. CASE call[t].op = "destroy_swapchain"
      BY <1>3, <2>2, EndDoes DEF Return, LeftInv
    <2> QED
      BY <1>3, <2>1, <2>2 DEF Destroys
  <1>5. g \notin DOMAIN call[t].left
    BY <1>1, <1>3 DEF LeftInv
  <1>6. ~DeviceRemoved(t) /\ Step(t) /\ UNCHANGED <<swapchains, chains>>
    <2>1. ~DeviceRemoved(t)
      BY <1>3, WhereIs DEF Where
    <2> QED
      BY <2>1 DEF Step, SwapchainDestroyed, tables, game
  <1>7. \A h : ~Claims(call[t], h) /\ ~Claims(call'[t], h)
    BY <1>3, <1>4, IdleHolds DEF Claims
  <1>8. /\ \A w : Holds(call[t], g, w) <=> w = "none"
        /\ \A h, w : h # g => (Holds(call[t], h, w) <=> h \in DOMAIN call[t].left /\ w = call[t].left[h].wrapper)
    BY <1>1, <1>3, <1>5 DEF Holds, Destroys
  <1>9. /\ \A h, w : h # g => (Holds(call'[t], h, w) <=> Holds(call[t], h, w))
        /\ \A w : ~Holds(call'[t], g, w)
        /\ \A h, w : h # g /\ Holds(call[t], h, w) => call'[t].d = call[t].d
    <2>1. CASE call'[t] = Idle /\ DOMAIN call[t].left = {}
      BY <1>8, <2>1, IdleHolds
    <2>2. CASE /\ call'[t].op = call[t].op /\ call'[t].d = d /\ call'[t].left = call[t].left
               /\ call'[t].step = "drop"
      <3>1. \A h, w : Holds(call'[t], h, w) <=> h \in DOMAIN call[t].left /\ w = call[t].left[h].wrapper
        BY <1>3, <2>2 DEF Holds, Destroys
      <3> QED
        BY <1>2, <1>5, <1>8, <2>2, <3>1
    <2> QED
      BY <1>4, <2>1, <2>2
  <1>10. Of(g)' = {} /\ \A h : h # g => Of(h)' = Of(h)
    <2>1. Of(g) = {Object("swapchain", g, d)}
      BY <1>2, <1>8, InHandIs, BackingsAre DEF AccountAt
    <2>2. Of(g)' = {o \in Of(g) : o.kind # "swapchain"} /\ \A h : h # g => Of(h)' = Of(h)
      BY <1>3, WithoutOf
    <2>3. \A o \in Of(g) : o.kind = "swapchain"
      BY <2>1, ObjectIs
    <2> QED
      BY <2>2, <2>3
  <1>12. \E w : Holds(call[t], g, w)
    BY <1>8
  <1> QED
    BY <1>6, <1>7, <1>9, <1>10, <1>12, HandMoves

(* when a wrapper is taken out to be dropped,                               *)
LEMMA WrapperTakenAccounts ==
  ASSUME CallsInv, RulesInv, BaseInv, LeftInv, LeftInv', NEW t \in Threads, WrapperTaken(t),
         \A h : AccountAt(h)
  PROVE  \A h : AccountAt(h)'
  <1>1. PICK g : g = call'[t].h
    OBVIOUS
  <1>2. PICK d : d = call[t].d
    OBVIOUS
  <1>3. PICK wrapper : wrapper = call[t].left[g].wrapper
    OBVIOUS
  <1>4. /\ Destroys(call[t]) /\ call[t].step = "drop" /\ Shape(call[t])
    BY InsideIs DEF WrapperTaken, Destroying, Destroys
  <1>5. /\ call'[t].op = call[t].op /\ call'[t].d = d /\ g \in DOMAIN call[t].left
        /\ call'[t].left = Restrict(call[t].left, DOMAIN call[t].left \ {g})
        /\ call'[t].step = AfterWrapper(wrapper)
        /\ live' = Without({"proxy"}, g)
    BY <1>1, <1>2, <1>3, TakenDoes DEF SameCall
  <1>6. ~DeviceRemoved(t) /\ Step(t) /\ UNCHANGED <<swapchains, chains>>
    <2>1. ~DeviceRemoved(t)
      BY <1>4, WhereIs DEF Where
    <2> QED
      BY <2>1 DEF Step, WrapperTaken, tables, game
  <1>7. \A h : ~Claims(call[t], h) /\ ~Claims(call'[t], h)
    BY <1>4, <1>5 DEF Claims, AfterWrapper
  <1>8. /\ DOMAIN call'[t].left = DOMAIN call[t].left \ {g}
        /\ \A h : h \in DOMAIN call'[t].left => call'[t].left[h] = call[t].left[h]
    BY <1>5 DEF Restrict
  <1>9. \A h, w : Holds(call[t], h, w) <=> h \in DOMAIN call[t].left /\ w = call[t].left[h].wrapper
    BY <1>4 DEF Holds, Destroys
  <1>10. \A h, w : h # g => (Holds(call'[t], h, w) <=> Holds(call[t], h, w))
    <2>1. \A h, w : h # g => (Holds(call'[t], h, w) <=> h \in DOMAIN call'[t].left /\ w = call'[t].left[h].wrapper)
      BY <1>1, <1>4, <1>5 DEF Holds, Destroys
    <2> QED
      BY <1>8, <1>9, <2>1
  <1>11. \A w : Holds(call'[t], g, w) <=> \/ call'[t].step = "destroy" /\ w = "none"
                                          \/ call'[t].step = "queue" /\ w = "fixed"
    BY <1>1, <1>4, <1>5, <1>8 DEF Holds, Destroys
  <1>12. Of(g) = Backing(g, d, wrapper)
    BY <1>2, <1>3, <1>5, <1>9, InHandIs DEF AccountAt
  <1>13. Of(g)' = {o \in Of(g) : o.kind # "proxy"} /\ \A h : h # g => Of(h)' = Of(h)
    BY <1>5, WithoutOf
  <1>14. \/ Of(g)' = {} /\ \A v : ~Holds(call'[t], g, v)
         \/ \E e, w : /\ e = call'[t].d /\ Of(g)' = Backing(g, e, w)
                      /\ \A v : Holds(call'[t], g, v) <=> v = w
    <2>1. CASE wrapper = "proxy"
      <3>1. \A o \in Of(g) : o.kind = "proxy"
        BY <1>12, <2>1, BackingsAre, ObjectIs
      <3>2. call'[t].step = "drop"
        BY <1>5, <2>1 DEF AfterWrapper
      <3> QED
        BY <1>11, <1>13, <3>1, <3>2
    <2>2. CASE wrapper = "fixed"
      <3>1. \A o \in Of(g) : o.kind # "proxy"
        BY <1>12, <2>2, BackingsAre, ObjectIs
      <3>2. call'[t].step = "queue"
        BY <1>5, <2>2 DEF AfterWrapper
      <3>3. Of(g)' = Backing(g, d, "fixed")
        BY <1>12, <1>13, <2>2, <3>1
      <3> QED
        BY <1>5, <1>11, <3>2, <3>3
    <2>3. CASE wrapper \notin {"proxy", "fixed"}
      <3>1. Of(g) = {Object("swapchain", g, d)}
        BY <1>12, <2>3, BackingsAre
      <3>2. call'[t].step = "destroy"
        BY <1>5, <2>3 DEF AfterWrapper
      <3>3. Of(g)' = {Object("swapchain", g, d)}
        BY <1>13, <3>1, ObjectIs
      <3>4. Of(g)' = Backing(g, d, "none")
        BY <3>3, BackingsAre
      <3> QED
        BY <1>5, <1>11, <3>2, <3>4
    <2> QED
      BY <2>1, <2>2, <2>3
  <1>15. \E w : Holds(call[t], g, w)
    BY <1>5, <1>9
  <1>16. call'[t].d = call[t].d
    BY <1>2, <1>5
  <1> QED
    BY <1>6, <1>7, <1>10, <1>13, <1>14, <1>15, <1>16, HandMoves

(* when an entry leaves the table for the call that destroys it,            *)
LEMMA SwapchainRemovedAccounts ==
  ASSUME CallsInv, RulesInv, BaseInv, LeftInv, LeftInv', NEW t \in Threads, SwapchainRemoved(t),
         \A h : AccountAt(h)
  PROVE  \A h : AccountAt(h)'
  <1>1. PICK g : g = call[t].h
    OBVIOUS
  <1>2. PICK d : d = call[t].d
    OBVIOUS
  <1>3. /\ call[t].op = "destroy_swapchain" /\ call[t].step = "remove" /\ DOMAIN call[t].left = {}
    <2>1. call[t].op = "destroy_swapchain" /\ call[t].step = "remove"
      BY InsideIs DEF SwapchainRemoved
    <2> QED
      BY <2>1 DEF LeftInv, Dropping
  <1>4. /\ call'[t].op = call[t].op /\ call'[t].d = d /\ call'[t].h = g /\ Others(t)
        /\ call'[t].step = IF g \in DOMAIN swapchains THEN "drop" ELSE "destroy"
        /\ call'[t].left = Restrict(swapchains, {g} \cap DOMAIN swapchains)
    BY <1>1, <1>2, RemovedDoes DEF SameCall
  <1>5. ~DeviceRemoved(t) /\ Step(t) /\ UNCHANGED <<live, chains>>
    <2>1. ~DeviceRemoved(t)
      BY <1>3, WhereIs DEF Where
    <2> QED
      BY <2>1 DEF Step, SwapchainRemoved, driver, game
  <1>6. /\ swapchains' = Restrict(swapchains, DOMAIN swapchains \ {g})
        /\ DOMAIN swapchains' = DOMAIN swapchains \ {g}
        /\ \A h \in DOMAIN swapchains' : swapchains'[h] = swapchains[h]
    <2>1. swapchains' = Restrict(swapchains, DOMAIN swapchains \ {g})
      BY <1>1 DEF SwapchainRemoved
    <2> QED
      BY <2>1 DEF Restrict
  <1>7. /\ \A h : Claims(call[t], h) <=> h = g
        /\ \A h : ~Claims(call'[t], h)
        /\ \A h, w : ~Holds(call[t], h, w)
    BY <1>1, <1>3, <1>4 DEF Claims, Holds, Destroys
  <1>8. \A h, w : Holds(call'[t], h, w) <=>
          h = g /\ w = IF g \in DOMAIN swapchains THEN swapchains[g].wrapper ELSE "none"
    <2>1. DOMAIN call'[t].left = {g} \cap DOMAIN swapchains
      BY <1>4 DEF Restrict
    <2>2. CASE g \in DOMAIN swapchains
      <3>1. call'[t].left[g] = swapchains[g]
        BY <1>4, <2>2 DEF Restrict
      <3> QED
        BY <1>3, <1>4, <2>1, <2>2, <3>1 DEF Holds, Destroys
    <2>3. CASE g \notin DOMAIN swapchains
      BY <1>3, <1>4, <2>1, <2>3 DEF Holds, Destroys
    <2> QED
      BY <2>2, <2>3
  <1>9. \A h : Of(h)' = Of(h)
    BY <1>5 DEF Of
  <1>10. \A h : h # g => AccountAt(h)'
    <2>1. \A h : h # g => SameBook(t, h) /\ SameHolds(t, h)
      BY <1>5, <1>6, <1>7, <1>8 DEF SameBook, SameHolds
    <2> QED
      BY <1>5, <1>9, <2>1, SameAccount
  <1>11. \A h : h = g => AccountAt(h)'
    <2>1. OnceAt(g) /\ Mine(t, g) /\ TableAt(g) /\ Exact(g) /\ Claims(call[t], g)
      BY <1>7 DEF AccountAt, Mine
    <2>2. g \notin DOMAIN swapchains' /\ DOMAIN chains' = DOMAIN chains
      BY <1>5, <1>6
    <2>3. CASE g \in DOMAIN swapchains
      <3>1. swapchains[g].d = d
        BY <1>2, <2>1, <2>3 DEF TableAt
      <3>2. Booked(g, d, swapchains[g].wrapper)
        BY <2>3, <3>1 DEF Booked, InTable
      <3>3. Of(g)' = Backing(g, d, swapchains[g].wrapper)
        BY <1>9, <2>1, <3>2 DEF Exact
      <3>4. \E e, w : /\ e = call'[t].d /\ Of(g)' = Backing(g, e, w)
                     /\ \A v : Holds(call'[t], g, v) <=> v = w
        BY <1>4, <1>8, <2>3, <3>3
      <3> QED
        BY <1>4, <1>7, <2>1, <2>2, <3>4, HandAccount
    <2>4. CASE g \notin DOMAIN swapchains
      <3>1. Booked(g, d, "none")
        BY <1>2, <2>1, <2>4 DEF Booked, InGame, Claimed
      <3>2. Of(g)' = Backing(g, d, "none")
        BY <1>9, <2>1, <3>1 DEF Exact
      <3>3. \E e, w : /\ e = call'[t].d /\ Of(g)' = Backing(g, e, w)
                     /\ \A v : Holds(call'[t], g, v) <=> v = w
        BY <1>4, <1>8, <2>4, <3>2
      <3> QED
        BY <1>4, <1>7, <2>1, <2>2, <3>3, HandAccount
    <2> QED
      BY <2>3, <2>4
  <1> QED
    BY <1>10, <1>11

(* when a new handle comes into the table and to the game,                  *)
LEMMA InsertedAccounts ==
  ASSUME CallsInv, RulesInv, BaseInv, LeftInv, HookedInv, NEW t \in Threads, Inserted(t),
         \A h : AccountAt(h)
  PROVE  \A h : AccountAt(h)'
  <1>1. PICK g : g = call[t].new
    OBVIOUS
  <1>2. PICK d : d = call[t].d
    OBVIOUS
  <1>3. PICK wrapper : wrapper = call[t].wrapper
    OBVIOUS
  <1>4. /\ call[t].op = "create_swapchain" /\ call[t].step = "insert" /\ DOMAIN call[t].left = {}
    <2>1. call[t].op = "create_swapchain" /\ call[t].step = "insert"
      BY InsideIs DEF Inserted
    <2> QED
      BY <2>1 DEF LeftInv, Destroys
  <1>5. call'[t] = Idle /\ Others(t)
    BY EndDoes DEF Inserted, Return
  <1>6. ~DeviceRemoved(t) /\ Step(t) /\ UNCHANGED <<live, devices>>
    <2>1. ~DeviceRemoved(t)
      BY <1>4, WhereIs DEF Where
    <2> QED
      BY <2>1 DEF Step, Inserted, driver
  <1>7. /\ DOMAIN chains' = DOMAIN chains \cup {g} /\ chains'[g].d = d
        /\ \A h : h # g /\ h \in DOMAIN chains => chains'[h] = chains[h]
    BY <1>1, <1>2 DEF Inserted, With
  <1>8. /\ \A h : h # g => (h \in DOMAIN swapchains' <=> h \in DOMAIN swapchains)
        /\ \A h : h # g /\ h \in DOMAIN swapchains => swapchains'[h] = swapchains[h]
        /\ d \in DOMAIN devices =>
             g \in DOMAIN swapchains' /\ swapchains'[g].d = d /\ swapchains'[g].wrapper = wrapper
        /\ d \notin DOMAIN devices => swapchains' = swapchains
    <2>1. swapchains' = IF d \in DOMAIN devices
                        THEN With(swapchains, g, [d |-> d, wrapper |-> wrapper]) ELSE swapchains
      BY <1>1, <1>2, <1>3 DEF Inserted
    <2>2. CASE d \in DOMAIN devices
      BY <2>1, <2>2 DEF With
    <2>3. CASE d \notin DOMAIN devices
      BY <2>1, <2>3
    <2> QED
      BY <2>2, <2>3
  <1>9. /\ \A h : ~Claims(call[t], h)
        /\ \A h, w : Holds(call[t], h, w) <=> h = g /\ w = wrapper
        /\ \A h : ~Claims(call'[t], h)
        /\ \A h, w : ~Holds(call'[t], h, w)
    BY <1>1, <1>3, <1>4, <1>5, IdleHolds DEF Claims, Holds, Destroys
  <1>10. \A h : Of(h)' = Of(h)
    BY <1>6 DEF Of
  <1>11. \A h : h # g => AccountAt(h)'
    <2>1. \A h : h # g => SameBook(t, h) /\ SameHolds(t, h)
      BY <1>7, <1>8, <1>9 DEF SameBook, SameHolds
    <2> QED
      BY <1>6, <1>10, <2>1, SameAccount
  <1>12. wrapper # "none" => d \in DOMAIN devices /\ devices[d].hook
    BY <1>2, <1>3, <1>4 DEF HookedInv, NeedsHook, Hooked
  <1>13. \A h : h = g => AccountAt(h)'
    <2>1. OnceAt(g) /\ Mine(t, g) /\ Exact(g) /\ Holds(call[t], g, wrapper)
      BY <1>9 DEF AccountAt, Mine
    <2>2. \A u \in Threads : ~Claims(call'[u], g) /\ \A w : ~Holds(call'[u], g, w)
      BY <1>5, <1>9, <2>1, HandOnly
    <2>3. OnceAt(g)'
      BY <2>2 DEF OnceAt, Mine
    <2>4. g \notin DOMAIN swapchains
      BY <2>1 DEF OnceAt
    <2>5. TableAt(g)'
      BY <1>6, <1>7, <1>8, <1>12, <2>2, <2>4 DEF TableAt
    <2>6. Of(g)' = Backing(g, d, wrapper)
      BY <1>2, <1>10, <2>1, InHandIs
    <2>7. \A e, w : ~InHand(g, e, w)'
      BY <2>2 DEF InHand
    <2>8. \A e : Claimed(g, e)' <=> e = d
      BY <1>7, <2>2 DEF Claimed
    <2>9. \A e, w : Booked(g, e, w)' <=> e = d /\ w = wrapper
      <3>1. CASE d \in DOMAIN devices
        <4>1. \A e, w : InTable(g, e, w)' <=> e = d /\ w = wrapper
          BY <1>8, <3>1 DEF InTable
        <4>2. \A e, w : ~InGame(g, e, w)'
          BY <1>8, <3>1 DEF InGame
        <4> QED
          BY <2>7, <4>1, <4>2 DEF Booked
      <3>2. CASE d \notin DOMAIN devices
        <4>1. \A e, w : ~InTable(g, e, w)'
          BY <1>8, <2>4, <3>2 DEF InTable
        <4>2. \A e, w : InGame(g, e, w)' <=> e = d /\ w = "none"
          BY <1>8, <2>4, <2>8, <3>2 DEF InGame
        <4> QED
          BY <1>12, <2>7, <3>2, <4>1, <4>2 DEF Booked
      <3> QED
        BY <3>1, <3>2
    <2>10. Exact(g)'
      BY <2>6, <2>9 DEF Exact
    <2> QED
      BY <2>3, <2>5, <2>10 DEF AccountAt
  <1> QED
    BY <1>11, <1>13

(* and when the game gives one up.                                          *)
LEMMA DestroySwapchainAccounts ==
  ASSUME CallsInv, RulesInv, BaseInv, NEW t \in Threads, DestroySwapchain(t),
         \A h : AccountAt(h)
  PROVE  \A h : AccountAt(h)'
  <1>1. PICK g : g = call'[t].h
    OBVIOUS
  <1>2. PICK d : d = call'[t].d
    OBVIOUS
  <1>3. /\ Begins(t) /\ call'[t].op = "destroy_swapchain" /\ call'[t].step = "remove"
        /\ g \in DOMAIN chains /\ d = chains[g].d /\ call'[t].left = <<>>
        /\ chains' = Restrict(chains, DOMAIN chains \ {g})
        /\ UNCHANGED <<driver, tables>>
    BY <1>1, <1>2, DestroySwapchainDoes
  <1>4. /\ call[t] = Idle /\ Others(t)
        /\ UNCHANGED <<live, devices, swapchains>>
    BY <1>3 DEF Begins, driver, tables
  <1>5. ~DeviceRemoved(t) /\ Play(t)
    <2>1. ~DeviceRemoved(t)
      BY <1>4, InsideIs DEF DeviceRemoved
    <2> QED
      BY <2>1 DEF Play
  <1>6. /\ DOMAIN chains' = DOMAIN chains \ {g}
        /\ \A h \in DOMAIN chains' : chains'[h] = chains[h]
    BY <1>3 DEF Restrict
  <1>7. /\ \A h : ~Claims(call[t], h)
        /\ \A h, w : ~Holds(call[t], h, w)
        /\ \A h : Claims(call'[t], h) <=> h = g
        /\ \A h, w : ~Holds(call'[t], h, w)
    <2>1. DOMAIN <<>> = {}
      OBVIOUS
    <2>2. DOMAIN call'[t].left = {}
      BY <1>3, <2>1
    <2>3. \A h, w : ~Holds(call'[t], h, w)
      BY <1>3, <2>2 DEF Holds
    <2>4. \A h : Claims(call'[t], h) <=> h = g
      BY <1>1, <1>3 DEF Claims
    <2> QED
      BY <1>4, <2>3, <2>4, IdleHolds
  <1>8. \A h : Of(h)' = Of(h)
    BY <1>4 DEF Of
  <1>9. \A h : h # g => AccountAt(h)'
    <2>1. \A h : h # g => SameBook(t, h) /\ SameHolds(t, h)
      BY <1>4, <1>6, <1>7 DEF SameBook, SameHolds
    <2> QED
      BY <1>5, <1>8, <2>1, SameAccount
  <1>10. \A h : h = g => AccountAt(h)'
    <2>1. OnceAt(g) /\ TableAt(g) /\ Exact(g)
      BY DEF AccountAt
    <2>2. \A u \in Threads : ~Claims(call[u], g) /\ \A w : ~Holds(call[u], g, w)
      BY <1>3, <2>1 DEF OnceAt, Mine
    <2>3. \A u \in Threads : /\ Claims(call'[u], g) <=> u = t
                             /\ \A w : ~Holds(call'[u], g, w)
      BY <1>4, <1>7, <2>2 DEF Others
    <2>4. OnceAt(g)'
      BY <1>6, <2>3 DEF OnceAt, Mine
    <2>5. TableAt(g)'
      BY <1>2, <1>3, <1>4, <1>6, <2>1, <2>3 DEF TableAt
    <2>6. \A e, w : InTable(g, e, w)' <=> InTable(g, e, w)
      BY <1>4 DEF InTable
    <2>7. \A e, w : ~InHand(g, e, w) /\ ~InHand(g, e, w)'
      BY <2>2, <2>3 DEF InHand
    <2>8. \A e : /\ Claimed(g, e) <=> e = d
                 /\ Claimed(g, e)' <=> e = d
      BY <1>2, <1>3, <1>6, <2>2, <2>3 DEF Claimed
    <2>9. \A e, w : InGame(g, e, w)' <=> InGame(g, e, w)
      BY <1>4, <2>8 DEF InGame
    <2>10. Exact(g)'
      BY <1>8, <2>1, <2>6, <2>7, <2>9 DEF Exact, Booked
    <2> QED
      BY <2>4, <2>5, <2>10 DEF AccountAt
  <1> QED
    BY <1>9, <1>10

(* The swapchains left on a device that goes stay in the table.             *)
LEMMA DestroyDeviceAccounts ==
  ASSUME CallsInv, RulesInv, BaseInv, NEW t \in Threads, DestroyDevice(t),
         \A h : AccountAt(h)
  PROVE  \A h : AccountAt(h)'
  <1>1. PICK d \in owned \cap Devices :
          LET leaked == {h \in DOMAIN chains : chains[h].d = d}
          IN /\ Begins(t) /\ call'[t].op = "destroy_device" /\ call'[t].step = "remove"
             /\ call'[t].d = d /\ call'[t].left = <<>>
             /\ d \in DOMAIN devices \/ leaked = {}
             /\ chains' = Restrict(chains, DOMAIN chains \ leaked)
             /\ UNCHANGED <<driver, tables>>
    BY DestroyDeviceDoes
  <1>2. PICK leaked : leaked = {h \in DOMAIN chains : chains[h].d = d}
    OBVIOUS
  <1>3. /\ call[t] = Idle /\ Others(t) /\ UNCHANGED <<live, devices, swapchains>>
        /\ d \in DOMAIN devices \/ leaked = {}
        /\ DOMAIN chains' = DOMAIN chains \ leaked
        /\ \A h \in DOMAIN chains' : chains'[h] = chains[h]
    BY <1>1, <1>2 DEF Begins, driver, tables, Restrict
  <1>4. ~DeviceRemoved(t) /\ Play(t)
    <2>1. ~DeviceRemoved(t)
      BY <1>3, InsideIs DEF DeviceRemoved
    <2> QED
      BY <2>1 DEF Play
  <1>5. /\ \A h : ~Claims(call[t], h) /\ ~Claims(call'[t], h)
        /\ \A h, w : ~Holds(call[t], h, w) /\ ~Holds(call'[t], h, w)
    <2>1. DOMAIN <<>> = {}
      OBVIOUS
    <2>2. DOMAIN call'[t].left = {}
      BY <1>1, <2>1
    <2>3. \A h, w : ~Holds(call'[t], h, w)
      BY <1>1, <2>2 DEF Holds
    <2>4. \A h : ~Claims(call'[t], h)
      BY <1>1 DEF Claims
    <2> QED
      BY <1>3, <2>3, <2>4, IdleHolds
  <1>6. \A h : Of(h)' = Of(h)
    BY <1>3 DEF Of
  <1>7. \A h : h \notin leaked => AccountAt(h)'
    <2>1. \A h : h \notin leaked => SameBook(t, h) /\ SameHolds(t, h)
      BY <1>3, <1>5 DEF SameBook, SameHolds
    <2> QED
      BY <1>4, <1>6, <2>1, SameAccount
  <1>8. Going(d, {"remove"})'
    BY <1>1 DEF Going
  <1>9. ASSUME NEW g \in leaked
        PROVE  AccountAt(g)'
    <2>1. OnceAt(g) /\ TableAt(g) /\ Exact(g)
      BY DEF AccountAt
    <2>2. g \in DOMAIN chains /\ chains[g].d = d /\ g \notin DOMAIN chains'
      BY <1>2, <1>3
    <2>3. g \in DOMAIN swapchains /\ swapchains[g].d = d
      BY <1>3, <2>1, <2>2 DEF TableAt
    <2>4. \A u \in Threads : ~Claims(call[u], g) /\ \A w : ~Holds(call[u], g, w)
      BY <2>1, <2>2 DEF OnceAt, Mine
    <2>5. \A u \in Threads : ~Claims(call'[u], g) /\ \A w : ~Holds(call'[u], g, w)
      BY <1>3, <1>5, <2>4 DEF Others
    <2>6. OnceAt(g)'
      BY <2>5 DEF OnceAt, Mine
    <2>7. TableAt(g)'
      <3>1. PICK e : e = swapchains'[g].d
        OBVIOUS
      <3>2. e = d
        BY <1>3, <2>3, <3>1
      <3>3. /\ e \in DOMAIN devices' /\ (swapchains'[g].wrapper # "none" => devices'[e].hook)
            /\ Going(e, {"remove"})'
        BY <1>3, <1>8, <2>1, <2>3, <3>2 DEF TableAt
      <3>4. \E u \in Threads : /\ call'[u].op = "destroy_device" /\ call'[u].step \in {"remove"}
                              /\ call'[u].d = e
        BY <3>3 DEF Going
      <3> QED
        BY <2>2, <2>5, <3>1, <3>3, <3>4 DEF TableAt, Going
    <2>8. \A e, w : Booked(g, e, w)' <=> Booked(g, e, w)
      <3>1. \A e, w : InTable(g, e, w)' <=> InTable(g, e, w)
        BY <1>3 DEF InTable
      <3>2. \A e, w : ~InGame(g, e, w) /\ ~InGame(g, e, w)'
        BY <1>3, <2>3 DEF InGame
      <3>3. \A e, w : ~InHand(g, e, w) /\ ~InHand(g, e, w)'
        BY <2>4, <2>5 DEF InHand
      <3> QED
        BY <3>1, <3>2, <3>3 DEF Booked
    <2>9. Exact(g)'
      BY <1>6, <2>1, <2>8 DEF Exact
    <2> QED
      BY <2>6, <2>7, <2>9 DEF AccountAt
  <1> QED
    BY <1>7, <1>9

(* The call that takes a device's entries has the swapchains left on it.    *)
LEMMA DeviceRemovedAccounts ==
  ASSUME CallsInv, RulesInv, BaseInv, LeftInv, NEW t \in Threads, DeviceRemoved(t),
         \A h : AccountAt(h)
  PROVE  \A h : AccountAt(h)'
  <1>1. PICK d : d = call[t].d
    OBVIOUS
  <1>2. PICK leaked : leaked = {h \in DOMAIN swapchains : swapchains[h].d = d}
    OBVIOUS
  <1>3. /\ call[t].op = "destroy_device" /\ call[t].step = "remove" /\ DOMAIN call[t].left = {}
        /\ d \notin owned
    <2>1. call[t].op = "destroy_device" /\ call[t].step = "remove"
      BY InsideIs DEF DeviceRemoved
    <2> QED
      BY <1>1, <2>1 DEF LeftInv, Dropping, RulesInv, UsesRight
  <1>4. /\ call'[t].op = "destroy_device" /\ call'[t].d = d /\ Others(t)
        /\ call'[t].step = IF d \in DOMAIN devices THEN "drop" ELSE "device"
        /\ DOMAIN call'[t].left = leaked
        /\ \A h \in leaked : call'[t].left[h] = swapchains[h]
    <2>1. /\ call'[t].op = call[t].op /\ call'[t].d = d /\ Others(t)
          /\ call'[t].step = IF d \in DOMAIN devices THEN "drop" ELSE "device"
          /\ call'[t].left = Restrict(swapchains, leaked)
      BY <1>1, <1>2, DeviceRemovedDoes DEF SameCall, LeakedOn
    <2> QED
      BY <1>2, <1>3, <2>1 DEF Restrict
  <1>5. /\ UNCHANGED <<live, chains>>
        /\ DOMAIN devices' = DOMAIN devices \ {d}
        /\ \A e \in DOMAIN devices' : devices'[e] = devices[e]
        /\ DOMAIN swapchains' = DOMAIN swapchains \ leaked
        /\ \A h \in DOMAIN swapchains' : swapchains'[h] = swapchains[h]
    <2>1. /\ UNCHANGED <<live, chains>>
          /\ devices' = Restrict(devices, DOMAIN devices \ {d})
          /\ swapchains' = Restrict(swapchains, DOMAIN swapchains \ leaked)
      BY <1>1, <1>2 DEF DeviceRemoved, LeakedOn, driver, game
    <2> QED
      BY <2>1 DEF Restrict
  <1>6. /\ \A h : ~Claims(call[t], h) /\ ~Claims(call'[t], h)
        /\ \A h, w : ~Holds(call[t], h, w)
        /\ \A h, w : Holds(call'[t], h, w) <=> h \in leaked /\ w = swapchains[h].wrapper
    <2>1. \A h : ~Claims(call[t], h) /\ ~Claims(call'[t], h)
      BY <1>3, <1>4 DEF Claims
    <2>2. \A h, w : ~Holds(call[t], h, w)
      BY <1>3 DEF Holds, Destroys
    <2>3. \A h, w : Holds(call'[t], h, w) <=> h \in leaked /\ w = swapchains[h].wrapper
      BY <1>4 DEF Holds, Destroys
    <2> QED
      BY <2>1, <2>2, <2>3
  <1>7. \A h : Of(h)' = Of(h)
    BY <1>5 DEF Of
  <1>8. ASSUME NEW g \in leaked
        PROVE  AccountAt(g)'
    <2>1. OnceAt(g) /\ TableAt(g) /\ Exact(g) /\ g \in DOMAIN swapchains /\ swapchains[g].d = d
      BY <1>2 DEF AccountAt
    <2>2. g \notin DOMAIN chains
      <3>1. g \in DOMAIN chains => chains[g].d = d /\ chains[g].d \in owned
        BY <2>1 DEF TableAt, RulesInv, ChainsInv
      <3> QED
        BY <1>3, <3>1
    <2>3. \A u \in Threads : ~Claims(call[u], g)
      <3>1. ASSUME NEW u \in Threads, Claims(call[u], g)
            PROVE  call[u].d = d /\ call[u].d \in call[u].shared /\ call[u].shared \subseteq owned
        BY <2>1, <3>1 DEF TableAt, Claims, RulesInv, UsesRight
      <3> QED
        BY <1>3, <3>1
    <2>4. \A u \in Threads : \A w : ~Holds(call[u], g, w)
      BY <2>1 DEF OnceAt
    <2>5. \A u \in Threads : u # t => ~Claims(call'[u], g) /\ \A w : ~Holds(call'[u], g, w)
      BY <1>4, <2>3, <2>4 DEF Others
    <2>6. g \notin DOMAIN swapchains' /\ g \notin DOMAIN chains'
      BY <1>5, <2>2
    <2>7. OnceAt(g)'
      BY <1>6, <2>5, <2>6 DEF OnceAt, Mine
    <2>8. TableAt(g)'
      BY <2>6 DEF TableAt
    <2>9. Of(g)' = Backing(g, d, swapchains[g].wrapper)
      BY <1>7, <2>1 DEF Exact, Booked, InTable
    <2>10. \A e, w : Booked(g, e, w)' <=> e = d /\ w = swapchains[g].wrapper
      <3>1. \A e, w : ~InTable(g, e, w)'
        BY <2>6 DEF InTable
      <3>2. \A e, w : ~InGame(g, e, w)'
        BY <1>6, <2>5, <2>6 DEF InGame, Claimed
      <3>3. \A e, w : InHand(g, e, w)' <=> e = d /\ w = swapchains[g].wrapper
        BY <1>4, <1>6, <2>5 DEF InHand
      <3> QED
        BY <3>1, <3>2, <3>3 DEF Booked
    <2>11. Exact(g)'
      BY <2>9, <2>10 DEF Exact
    <2> QED
      BY <2>7, <2>8, <2>11 DEF AccountAt
  <1>9. ASSUME NEW g, g \notin leaked
        PROVE  AccountAt(g)'
    <2>1. OnceAt(g) /\ TableAt(g) /\ Exact(g)
      BY DEF AccountAt
    <2>2. SameBook(t, g) /\ SameHolds(t, g)
      BY <1>5, <1>6, <1>9 DEF SameBook, SameHolds
    <2>3. OnceAt(g)' /\ Exact(g)'
      BY <1>4, <1>7, <2>1, <2>2, SameOnce, SameExact
    <2>4. TableAt(g)'
      <3>1. \A u \in Threads : /\ Claims(call'[u], g) <=> Claims(call[u], g)
                               /\ Claims(call[u], g) => call'[u].d = call[u].d
        BY <1>4, <1>6 DEF Others
      <3>2. ASSUME g \in DOMAIN swapchains'
            PROVE  /\ swapchains'[g].d \in DOMAIN devices'
                   /\ swapchains'[g].wrapper # "none" => devices'[swapchains'[g].d].hook
                   /\ g \in DOMAIN chains' => chains'[g].d = swapchains'[g].d
                   /\ \A u \in Threads : Claims(call'[u], g) => call'[u].d = swapchains'[g].d
                   /\ \/ g \in DOMAIN chains'
                      \/ \E u \in Threads : Claims(call'[u], g)
                      \/ \E u \in Threads : /\ call'[u].op = "destroy_device"
                                            /\ call'[u].step \in {"remove"}
                                            /\ call'[u].d = swapchains'[g].d
        <4>1. /\ g \in DOMAIN swapchains /\ swapchains'[g] = swapchains[g]
              /\ swapchains[g].d # d
          BY <1>2, <1>5, <1>9, <3>2
        <4>2. \/ g \in DOMAIN chains
              \/ \E u \in Threads : Claims(call[u], g)
              \/ \E u \in Threads : /\ call[u].op = "destroy_device"
                                    /\ call[u].step \in {"remove"}
                                    /\ call[u].d = swapchains[g].d
          BY <2>1, <4>1 DEF TableAt, Going
        <4>3. \A u \in Threads : call[u].d = swapchains[g].d => call'[u] = call[u]
          BY <1>1, <1>4, <4>1 DEF Others
        <4>4. /\ swapchains[g].d \in DOMAIN devices
              /\ swapchains[g].wrapper # "none" => devices[swapchains[g].d].hook
              /\ g \in DOMAIN chains => chains[g].d = swapchains[g].d
              /\ \A u \in Threads : Claims(call[u], g) => call[u].d = swapchains[g].d
          BY <2>1, <4>1 DEF TableAt
        <4> QED
          BY <1>5, <3>1, <4>1, <4>2, <4>3, <4>4
      <3>3. g \in DOMAIN chains' /\ chains'[g].d \in DOMAIN devices' => g \in DOMAIN swapchains'
        BY <1>5, <1>9, <2>1 DEF TableAt
      <3> QED
        BY <3>2, <3>3 DEF TableAt, Going
    <2> QED
      BY <2>3, <2>4 DEF AccountAt
  <1> QED
    BY <1>8, <1>9

(* The other steps leave every account as it is.                            *)
LEMMA QuietAccounts ==
  ASSUME CallsInv, RulesInv, Formed, BaseInv, LeftInv, LeftInv', NEW t \in Threads,
         Play(t) \/ Step(t) \/ Woken(t), ~AccountSteps(t), ~DestroyDevice(t),
         \A h : AccountAt(h)
  PROVE  \A h : AccountAt(h)'
  <1>1. SameHand(t)
    BY QuietHand
  <1>2. \A h : Of(h)' = Of(h)
    BY OfFrames DEF AccountSteps
  <1>3. UNCHANGED swapchains
    BY StepFrames, PlayFrames DEF Framed, ChangesSwapchains, AccountSteps, tables
  <1>4. DOMAIN chains' = DOMAIN chains /\ \A h \in DOMAIN chains : chains'[h].d = chains[h].d
    <2>1. CASE CreateSwapchain(t)
      <3>1. chains' = [h \in DOMAIN chains |-> [chains[h] EXCEPT !.retired = @ \/ h = call'[t].old]]
        BY <2>1, CreateSwapchainDoes
      <3>2. ASSUME NEW h \in DOMAIN chains
            PROVE  chains'[h].d = chains[h].d
        <4>1. chains[h] = [d |-> chains[h].d, s |-> chains[h].s, retired |-> chains[h].retired]
          BY DEF RulesInv, ChainsInv
        <4>2. chains'[h] = [chains[h] EXCEPT !.retired = @ \/ h = call'[t].old]
          BY <3>1
        <4> QED
          BY <4>1, <4>2
      <3> QED
        BY <3>1, <3>2
    <2>2. CASE UNCHANGED chains
      BY <2>2
    <2>3. CreateSwapchain(t) \/ UNCHANGED chains
      BY StepFrames, PlayFrames DEF Framed, ChangesChains, AccountSteps, game
    <2> QED
      BY <2>1, <2>2, <2>3
  <1>5. \A h : SameBook(t, h) /\ SameHolds(t, h)
    BY <1>1, <1>3, <1>4 DEF SameHand, SameBook, SameHolds, Mine
  <1>6. ~DeviceRemoved(t)
    BY DEF AccountSteps
  <1> QED
    BY <1>2, <1>5, <1>6, SameAccount

(* So every step keeps every account right.                                 *)
LEMMA AccountsKept ==
  ASSUME CallsInv, RulesInv, Formed, BaseInv, LeftInv, LeftInv', HookedInv, NEW t \in Threads,
         Play(t) \/ Step(t) \/ Woken(t), \A h : AccountAt(h)
  PROVE  \A h : AccountAt(h)'
  <1>1. CASE ProxyTried(t) \/ FixedCreated(t) \/ Unwrapped(t)
    <2>1. Step(t)
      BY <1>1 DEF Step
    <2> QED
      BY <1>1, <2>1, CreatingAccounts
  <1>2. CASE FixedSetUp(t)
    BY <1>2, FixedSetUpAccounts
  <1>3. CASE Inserted(t)
    BY <1>3, InsertedAccounts
  <1>4. CASE DestroySwapchain(t)
    BY <1>4, DestroySwapchainAccounts
  <1>5. CASE SwapchainRemoved(t)
    BY <1>5, SwapchainRemovedAccounts
  <1>6. CASE WrapperTaken(t)
    BY <1>6, WrapperTakenAccounts
  <1>7. CASE FixedDropped(t)
    BY <1>7, FixedDroppedAccounts
  <1>8. CASE SwapchainDestroyed(t)
    BY <1>8, SwapchainDestroyedAccounts
  <1>9. CASE DeviceRemoved(t)
    BY <1>9, DeviceRemovedAccounts
  <1>10. CASE DestroyDevice(t)
    BY <1>10, DestroyDeviceAccounts
  <1>11. CASE ~AccountSteps(t) /\ ~DestroyDevice(t)
    BY <1>11, QuietAccounts
  <1> QED
    BY <1>1, <1>2, <1>3, <1>4, <1>5, <1>6, <1>7, <1>8, <1>9, <1>10, <1>11 DEF AccountSteps

-----------------------------------------------------------------------------
(* A fixed wrapper frees into its device's pool, which is there for as long *)
(* as a call has the wrapper.                                               *)
LEMMA PoolStays ==
  ASSUME NEW t \in Threads, Play(t) \/ Step(t) \/ Woken(t),
         NEW e, Object("pool", e, e) \in Base, ~(PoolDestroyed(t) /\ call[t].d = e)
  PROVE  Object("pool", e, e) \in Base'
  <1>1. PICK o : o = Object("pool", e, e) /\ o.kind = "pool" /\ o.id = e /\ o \in live
    BY ObjectIs DEF Base
  <1>2. o \in live'
    <2>1. CASE UNCHANGED live
      BY <1>1, <2>1
    <2>2. CASE \/ InstanceCreated(t) \/ SurfaceCreated(t) \/ DeviceCreated(t) \/ PresentDone(t)
               \/ ProxyTried(t) \/ FixedCreated(t) \/ Unwrapped(t)
      BY <1>1, <2>2
         DEF InstanceCreated, SurfaceCreated, DeviceCreated, PresentDone, ProxyTried,
             FixedCreated, Unwrapped, Driver, Makes
    <2>3. CASE FixedSetUp(t)
      BY <1>1, <2>3 DEF FixedSetUp, Without
    <2>4. CASE InstanceDestroyed(t) \/ GeneratorDropped(t) \/ DeviceDestroyed(t) \/ SurfaceDestroyed(t)
      BY <1>1, <2>4 DEF InstanceDestroyed, GeneratorDropped, DeviceDestroyed, SurfaceDestroyed, Without
    <2>5. CASE PoolDestroyed(t)
      BY <1>1, <2>5 DEF PoolDestroyed, Without
    <2>6. CASE WrapperTaken(t) \/ FixedDropped(t) \/ SwapchainDestroyed(t)
      BY <1>1, <2>6 DEF WrapperTaken, FixedDropped, SwapchainDestroyed, Without
    <2> QED
      BY <2>1, <2>2, <2>3, <2>4, <2>5, <2>6, StepFrames, PlayFrames DEF Framed, ChangesLive
  <1> QED
    BY <1>1, <1>2 DEF Base, BaseKinds

(* Where a call gets a fixed wrapper from: it sets it up, or takes it from  *)
(* the table.                                                               *)
LEMMA FixedHands ==
  ASSUME CallsInv, RulesInv, LeftInv, LeftInv', \A h : AccountAt(h), NEW t \in Threads,
         Play(t) \/ Step(t) \/ Woken(t), NEW h, Holds(call'[t], h, "fixed")
  PROVE  /\ call'[t].d = call[t].d
         /\ \/ Holds(call[t], h, "fixed")
            \/ call[t].op = "create_swapchain" /\ call[t].step = "setup"
            \/ /\ h \in DOMAIN swapchains /\ swapchains[h].wrapper = "fixed"
               /\ swapchains[h].d = call[t].d
  <1>1. CASE ~AccountSteps(t)
    BY <1>1, QuietHand DEF SameHand, Mine
  <1>2. CASE ProxyTried(t) \/ FixedCreated(t) \/ Unwrapped(t)
    <2>1. \/ SameHand(t)
          \/ \E g : \E w \in {"none", "proxy"} : MakesHand(t, g, w)
      BY <1>2, CreatingHand
    <2> QED
      BY <2>1 DEF SameHand, MakesHand, Mine
  <1>3. CASE FixedSetUp(t)
    <2>1. Inside(t, "create_swapchain", "setup")
      BY <1>3 DEF FixedSetUp
    <2>2. call[t].op = "create_swapchain" /\ call[t].step = "setup" /\ Shape(call[t])
      BY <2>1, InsideIs
    <2>3. Goto(t, "insert") \/ Getting(t, None, "none", "undo")
      BY <1>3 DEF FixedSetUp
    <2> QED
      BY <2>2, <2>3, GotoDoes, GettingDoes DEF SameCall
  <1>4. CASE Inserted(t)
    BY <1>4, EndDoes, IdleHolds DEF Inserted, Return
  <1>5. CASE DestroySwapchain(t)
    <2>1. DOMAIN <<>> = {}
      OBVIOUS
    <2>2. call'[t].op = "destroy_swapchain" /\ call'[t].step = "remove" /\ DOMAIN call'[t].left = {}
      BY <1>5, <2>1, DestroySwapchainDoes
    <2> QED
      BY <2>2 DEF Holds
  <1>6. CASE SwapchainRemoved(t)
    <2>1. call[t].op = "destroy_swapchain" /\ call[t].step = "remove"
      BY <1>6, InsideIs DEF SwapchainRemoved
    <2>2. /\ call'[t].op = "destroy_swapchain" /\ call'[t].d = call[t].d
          /\ call'[t].step \in {"drop", "destroy"}
          /\ call'[t].left = Restrict(swapchains, {call[t].h} \cap DOMAIN swapchains)
      BY <1>6, <2>1, RemovedDoes DEF SameCall
    <2>3. h \in DOMAIN call'[t].left /\ call'[t].left[h].wrapper = "fixed"
      BY <2>2 DEF Holds
    <2>4. h = call[t].h /\ h \in DOMAIN swapchains /\ swapchains[h].wrapper = "fixed"
      BY <2>2, <2>3 DEF Restrict
    <2>5. TableAt(h) /\ Claims(call[t], h)
      BY <2>1, <2>4 DEF AccountAt, Claims
    <2> QED
      BY <2>2, <2>4, <2>5 DEF TableAt
  <1>7. CASE DeviceRemoved(t)
    <2>1. call[t].op = "destroy_device"
      BY <1>7, InsideIs DEF DeviceRemoved
    <2>2. /\ call'[t].op = "destroy_device" /\ call'[t].d = call[t].d
          /\ call'[t].step \in {"drop", "device"}
          /\ call'[t].left = Restrict(swapchains, LeakedOn(call[t].d))
      BY <1>7, <2>1, DeviceRemovedDoes DEF SameCall
    <2>3. h \in DOMAIN call'[t].left /\ call'[t].left[h].wrapper = "fixed"
      BY <2>2 DEF Holds
    <2>4. h \in LeakedOn(call[t].d) /\ swapchains[h].wrapper = "fixed"
      BY <2>2, <2>3 DEF Restrict, LeakedOn
    <2> QED
      BY <2>2, <2>4 DEF LeakedOn
  <1>8. CASE WrapperTaken(t)
    <2>1. Destroys(call[t]) /\ call[t].step = "drop"
      BY <1>8, InsideIs DEF WrapperTaken, Destroying, Destroys
    <2>2. /\ call'[t].op = call[t].op /\ call'[t].d = call[t].d
          /\ call'[t].h \in DOMAIN call[t].left
          /\ call'[t].step = AfterWrapper(call[t].left[call'[t].h].wrapper)
          /\ call'[t].left = Restrict(call[t].left, DOMAIN call[t].left \ {call'[t].h})
      BY <1>8, TakenDoes DEF SameCall
    <2>3. \/ call'[t].step = "queue" /\ h = call'[t].h
          \/ h \in DOMAIN call'[t].left /\ call'[t].left[h].wrapper = "fixed"
      BY <2>1, <2>2 DEF Holds, Destroys
    <2>4. h \in DOMAIN call[t].left /\ call[t].left[h].wrapper = "fixed"
      BY <2>2, <2>3 DEF Restrict, AfterWrapper
    <2> QED
      BY <2>2, <2>4 DEF Holds
  <1>9. CASE FixedDropped(t) \/ SwapchainDestroyed(t)
    <2>1. Destroys(call[t]) /\ call[t].step \in {"queue", "destroy"} /\ Shape(call[t])
      BY <1>9, InsideIs DEF FixedDropped, SwapchainDestroyed, Destroying, Destroys
    <2>2. (\E step \in {"destroy", "drop"} : Goto(t, step)) \/ call' = [call EXCEPT ![t] = Idle]
      BY <1>9 DEF FixedDropped, SwapchainDestroyed, Return
    <2>3. call'[t] # Idle
      BY IdleHolds
    <2>4. PICK step \in {"destroy", "drop"} : Goto(t, step)
      BY <2>2, <2>3, EndDoes
    <2>5. /\ call'[t].op = call[t].op /\ call'[t].d = call[t].d /\ call'[t].left = call[t].left
          /\ call'[t].step = step
      BY <2>1, <2>4, GotoDoes DEF SameCall, Rest
    <2>6. h \in DOMAIN call[t].left /\ call[t].left[h].wrapper = "fixed"
      BY <2>1, <2>5 DEF Holds, Destroys
    <2> QED
      BY <2>5, <2>6 DEF Holds
  <1> QED
    BY <1>1, <1>2, <1>3, <1>4, <1>5, <1>6, <1>7, <1>8, <1>9 DEF AccountSteps

(* A call that has a handle in hand is about its device.                    *)
LEMMA HandsUse ==
  ASSUME RulesInv, LeftInv, NEW u \in Threads, NEW h, NEW w, Holds(call[u], h, w)
  PROVE  call[u].d \in call[u].alone \/ call[u].d \in call[u].shared
  <1>1. call[u].op \in {"create_swapchain", "destroy_swapchain", "destroy_device"}
    BY DEF Holds, Destroys, LeftInv
  <1> QED
    BY <1>1 DEF RulesInv, UsesRight

(* A fixed wrapper in a call's hand has the command pool of its device.     *)
LEMMA PoolKept ==
  ASSUME CallsInv, RulesInv, BaseInv, LeftInv, LeftInv', HookedInv, \A h : AccountAt(h), PoolInv,
         NEW t \in Threads, Play(t) \/ Step(t) \/ Woken(t)
  PROVE  PoolInv'
  <1>1. Others(t)
    BY OthersStay
  <1>2. ASSUME NEW e, Hooked(e)
        PROVE  Object("pool", e, e) \in Base
    BY <1>2 DEF Hooked, BaseInv, DevicesInv
  <1>3. ASSUME PoolDestroyed(t)
        PROVE  /\ \A h, w : ~Holds(call'[t], h, w)
               /\ \A u \in Threads : \A h, w : Holds(call'[u], h, w) => call'[u].d # call[t].d
    <2>1. call[t].op = "destroy_device" /\ call[t].step = "pool" /\ Shape(call[t])
      BY <1>3, InsideIs DEF PoolDestroyed
    <2>2. call'[t].op = "destroy_device" /\ call'[t].step = "device"
      BY <1>3, <2>1, GotoDoes DEF PoolDestroyed, SameCall
    <2>3. \A h, w : ~Holds(call'[t], h, w)
      BY <2>2 DEF LeftInv, Dropping, Holds
    <2>4. ASSUME NEW u \in Threads, u # t, NEW h, NEW w, Holds(call'[u], h, w)
          PROVE  call'[u].d # call[t].d
      <3>1. call'[u] = call[u]
        BY <1>1, <2>4 DEF Others
      <3>2. Holds(call[u], h, w)
        BY <2>4, <3>1
      <3>3. call[u].d \in call[u].alone \/ call[u].d \in call[u].shared
        BY <3>2, HandsUse
      <3>4. call[t].d \in call[t].alone
        BY <2>1 DEF RulesInv, UsesRight
      <3> QED
        BY <2>4, <3>1, <3>3, <3>4, AloneIs DEF RulesInv
    <2> QED
      BY <2>3, <2>4
  <1>4. ASSUME NEW u \in Threads, NEW h, Holds(call'[u], h, "fixed")
        PROVE  \A d : d = call'[u].d => Object("pool", d, d) \in Base'
    <2>1. PICK d : d = call'[u].d
      OBVIOUS
    <2>2. ~(PoolDestroyed(t) /\ call[t].d = d)
      BY <1>3, <1>4, <2>1
    <2>3. Object("pool", d, d) \in Base
      <3>1. CASE u # t
        BY <1>1, <1>4, <2>1, <3>1 DEF Others, PoolInv
      <3>2. CASE u = t
        <4>1. /\ call[t].d = d
              /\ \/ Holds(call[t], h, "fixed")
                 \/ call[t].op = "create_swapchain" /\ call[t].step = "setup"
                 \/ /\ h \in DOMAIN swapchains /\ swapchains[h].wrapper = "fixed"
                    /\ swapchains[h].d = call[t].d
          BY <1>4, <2>1, <3>2, FixedHands
        <4>2. CASE Holds(call[t], h, "fixed")
          BY <4>1, <4>2 DEF PoolInv
        <4>3. CASE call[t].op = "create_swapchain" /\ call[t].step = "setup"
          BY <1>2, <4>1, <4>3 DEF HookedInv, NeedsHook
        <4>4. CASE h \in DOMAIN swapchains /\ swapchains[h].wrapper = "fixed" /\ swapchains[h].d = d
          <5>1. TableAt(h)
            BY DEF AccountAt
          <5>2. Hooked(d)
            BY <4>4, <5>1 DEF TableAt, Hooked
          <5> QED
            BY <1>2, <5>2
        <4> QED
          BY <4>1, <4>2, <4>3, <4>4
      <3> QED
        BY <3>1, <3>2
    <2>4. Object("pool", d, d) \in Base'
      BY <2>2, <2>3, PoolStays
    <2> QED
      BY <2>1, <2>4
  <1> QED
    BY <1>4 DEF PoolInv

-----------------------------------------------------------------------------
(* Every object is of a kind the layer knows, and a surface is on nothing.  *)
Sorted ==
  \A o \in live : o.kind \in Kinds \cup BaseKinds \cup {"surface"} /\ (o.kind = "surface" => o.on = None)

(* Every object is of a kind the driver or the shim makes.                  *)
LEMMA SortedKept ==
  ASSUME Sorted, NEW t \in Threads, Play(t) \/ Step(t) \/ Woken(t)
  PROVE  Sorted'
  <1>a. /\ \A kind \in Kinds \cup BaseKinds : kind # "surface"
        /\ {"swapchain", "proxy", "fixed"} \subseteq Kinds
        /\ {"instance", "device", "pool", "generator"} \subseteq BaseKinds
    BY DEF Kinds, BaseKinds
  <1>1. ASSUME NEW kind \in Kinds \cup BaseKinds \cup {"surface"}, NEW id, NEW on,
               kind = "surface" => on = None, live' \subseteq live \cup {Object(kind, id, on)}
        PROVE  Sorted'
    <2>1. PICK o : o = Object(kind, id, on) /\ o.kind = kind /\ o.on = on
      BY ObjectIs
    <2>2. live' \subseteq live \cup {o}
      BY <1>1, <2>1
    <2> QED
      BY <1>1, <2>1, <2>2 DEF Sorted
  <1>2. CASE UNCHANGED live
    BY <1>2 DEF Sorted
  <1>3. CASE InstanceCreated(t)
    <2>1. live' \subseteq live \cup {Object("instance", Instance, None)}
      BY <1>3 DEF InstanceCreated
    <2> QED
      BY <1>a, <1>1, <2>1
  <1>4. CASE DeviceCreated(t)
    <2>1. PICK o, p : /\ o = Object("device", call[t].d, Instance) /\ o.kind = "device"
                      /\ p = Object("pool", call[t].d, call[t].d) /\ p.kind = "pool"
      BY ObjectIs
    <2>2. live' \subseteq live \cup {o, p}
      BY <1>4, <2>1 DEF DeviceCreated, HookedDevice, PlainDevice
    <2> QED
      BY <1>a, <2>1, <2>2 DEF Sorted
  <1>5. CASE SurfaceCreated(t)
    <2>1. live' \subseteq live \cup {Object("surface", call[t].s, None)}
      BY <1>5 DEF SurfaceCreated
    <2> QED
      BY <1>a, <1>1, <2>1
  <1>6. CASE PresentDone(t)
    <2>1. live' \subseteq live \cup {Object("generator", call[t].d, call[t].d)}
      BY <1>6 DEF PresentDone
    <2> QED
      BY <1>a, <1>1, <2>1
  <1>7. CASE ProxyTried(t)
    <2>1. \E h : live' \subseteq live \cup {Object("proxy", h, call[t].d)}
      BY <1>7 DEF ProxyTried
    <2> QED
      BY <1>a, <1>1, <2>1
  <1>8. CASE FixedCreated(t) \/ Unwrapped(t)
    <2>1. \E h : live' \subseteq live \cup {Object("swapchain", h, call[t].d)}
      BY <1>8 DEF FixedCreated, Unwrapped, Driver, Makes
    <2> QED
      BY <1>a, <1>1, <2>1
  <1>9. CASE FixedSetUp(t)
    <2>1. live' \subseteq live \cup {Object("fixed", call[t].new, call[t].d)}
      BY <1>9 DEF FixedSetUp, Without
    <2> QED
      BY <1>a, <1>1, <2>1
  <1>10. CASE \/ InstanceDestroyed(t) \/ GeneratorDropped(t) \/ PoolDestroyed(t)
              \/ DeviceDestroyed(t) \/ SurfaceDestroyed(t)
              \/ WrapperTaken(t) \/ FixedDropped(t) \/ SwapchainDestroyed(t)
    <2>1. live' \subseteq live
      BY <1>10 DEF InstanceDestroyed, GeneratorDropped, PoolDestroyed, DeviceDestroyed,
                   SurfaceDestroyed, WrapperTaken, FixedDropped, SwapchainDestroyed, Without
    <2> QED
      BY <2>1 DEF Sorted
  <1> QED
    BY <1>2, <1>3, <1>4, <1>5, <1>6, <1>7, <1>8, <1>9, <1>10, StepFrames, PlayFrames
       DEF Framed, ChangesLive

-----------------------------------------------------------------------------
(* The inductive invariant of the layer.                                    *)
LayerInv ==
  /\ LockInv /\ CallsInv /\ QueueInv /\ RulesInv /\ SurfacesInv
  /\ Formed /\ Sorted /\ BaseInv /\ Accounts

(* The invariant holds at the start,                                        *)
LEMMA InitLayerInv == LayerInit => LayerInv
  <1> SUFFICES ASSUME LayerInit
               PROVE  LayerInv
    OBVIOUS
  <1>1. /\ live = {} /\ instance = "none" /\ devices = <<>> /\ swapchains = <<>>
        /\ surfaces = <<>> /\ owned = {} /\ chains = <<>> /\ Init
        /\ call = [t \in Threads |-> Idle]
    BY DEF LayerInit
  <1>2. DOMAIN devices = {} /\ DOMAIN swapchains = {} /\ DOMAIN surfaces = {} /\ DOMAIN chains = {}
    BY <1>1
  <1>3. LockInv
    BY <1>1, InitLockInv
  <1>4. CallsInv
    BY <1>1, IdleFields DEF CallsInv, Placed, Init
  <1>5. QueueInv
    BY <1>1, IdleFields DEF QueueInv
  <1>6. RulesInv
    <2>1. Apart
      BY <1>1, IdleConflict DEF Apart
    <2>2. OwnedInv /\ ChainsInv
      BY <1>1, <1>2 DEF OwnedInv, ChainsInv
    <2>3. \A t \in Threads : UsesRight(call[t])
      BY <1>1, IdleUses
    <2> QED
      BY <2>1, <2>2, <2>3 DEF RulesInv
  <1>7. SurfacesInv
    BY <1>1, <1>2 DEF SurfacesInv
  <1>8. Formed /\ Sorted /\ Base = {}
    BY <1>1 DEF Formed, Sorted, Base
  <1>9. /\ \A d, steps : ~Going(d, steps)
        /\ ~InstanceGoing
    BY <1>1, IdleFields DEF Going, InstanceGoing
  <1>10. BaseInv
    BY <1>1, <1>2, <1>8, <1>9 DEF BaseInv, DevicesInv, ObjectsInv, DevicesLive, InstanceInv
  <1>11. \A t \in Threads : /\ \A h : ~Claims(call[t], h)
                            /\ \A h, w : ~Holds(call[t], h, w)
    BY <1>1, IdleHolds
  <1>12. LeftInv
    <2>1. Idle.op \notin {"create_swapchain", "destroy_swapchain"} /\ ~Destroys(Idle) /\ DOMAIN Idle.left = {}
      BY IdleFields, IdleHolds
    <2> QED
      BY <1>1, <2>1 DEF LeftInv
  <1>13. HookedInv
    BY <1>1, IdleHolds DEF HookedInv
  <1>14. TablesInv /\ OnceInv /\ PoolInv
    BY <1>2, <1>11 DEF TablesInv, TableAt, OnceInv, OnceAt, Mine, PoolInv
  <1>15. ExactInv
    <2>1. \A h, d, w : ~Booked(h, d, w)
      BY <1>2, <1>11 DEF Booked, InTable, InGame, InHand, Claimed
    <2>2. \A h : Of(h) = {}
      BY <1>1 DEF Of
    <2> QED
      BY <2>1, <2>2 DEF ExactInv, Exact
  <1> QED
    BY <1>3, <1>4, <1>5, <1>6, <1>7, <1>8, <1>10, <1>12, <1>13, <1>14, <1>15 DEF LayerInv, Accounts

(* each step of a thread keeps it,                                          *)
LEMMA StepLayerInv ==
  ASSUME LayerInv, NEW t \in Threads, Play(t) \/ Step(t) \/ Woken(t)
  PROVE  LayerInv'
  <1>1. /\ LockInv /\ CallsInv /\ QueueInv /\ RulesInv /\ SurfacesInv
        /\ Formed /\ Sorted /\ BaseInv
        /\ LeftInv /\ HookedInv /\ TablesInv /\ OnceInv /\ ExactInv /\ PoolInv
    BY DEF LayerInv, Accounts
  <1>2. Rests(t) \/ Begins(t) \/ Moves(t) \/ Ends(t)
    BY <1>1, Skeleton
  <1>3. LockInv'
    <2>1. [Next]_vars
      BY <1>1, <1>2, LockStep DEF lockVars
    <2> QED
      BY <1>1, <2>1, NextLockInv
  <1>4. CallsInv' /\ QueueInv'
    BY <1>1, <1>2, CallsKept, QueueKept
  <1>5. RulesInv'
    <2>1. ASSUME Inserted(t)
          PROVE  call[t].new \notin DOMAIN chains
      <3>1. call[t].op = "create_swapchain" /\ call[t].step = "insert"
        BY <1>1, <2>1, InsideIs DEF Inserted
      <3>2. Mine(t, call[t].new)
        BY <3>1 DEF Mine, Holds
      <3> QED
        BY <1>1, <3>2 DEF OnceInv, OnceAt
    <2> QED
      BY <1>1, <2>1, RulesKept
  <1>6. SurfacesInv'
    BY <1>1, SurfacesKept
  <1>7. Formed' /\ Sorted'
    BY <1>1, BaseFrames, SortedKept
  <1>8. BaseInv'
    <2>1. ASSUME PresentDone(t), call[t].wrapper = "fixed"
          PROVE  Hooked(call[t].d)
      <3>1. call[t].op = "present"
        BY <1>1, <2>1, InsideIs DEF PresentDone
      <3> QED
        BY <1>1, <2>1, <3>1 DEF HookedInv, NeedsHook
    <2> QED
      BY <1>1, <2>1, BaseKept
  <1>9. LeftInv'
    BY <1>1, LeftKept
  <1>10. HookedInv'
    BY <1>1, HookedKept
  <1>11. \A h : AccountAt(h)
    BY <1>1 DEF AccountAt, OnceInv, TablesInv, ExactInv
  <1>12. \A h : AccountAt(h)'
    BY <1>1, <1>9, <1>11, AccountsKept
  <1>13. OnceInv' /\ TablesInv' /\ ExactInv'
    BY <1>12 DEF AccountAt, OnceInv, TablesInv, ExactInv
  <1>14. PoolInv'
    BY <1>1, <1>9, <1>11, PoolKept
  <1> QED
    BY <1>3, <1>4, <1>5, <1>6, <1>7, <1>8, <1>9, <1>10, <1>13, <1>14 DEF LayerInv, Accounts

(* and so does every step.                                                  *)
LEMMA NextLayerInv == LayerInv /\ [LayerNext]_layerVars => LayerInv'
  <1> SUFFICES ASSUME LayerInv, [LayerNext]_layerVars
               PROVE  LayerInv'
    OBVIOUS
  <1>1. CASE LayerNext
    BY <1>1, StepLayerInv DEF LayerNext
  <1>2. CASE UNCHANGED layerVars
    <2>1. UNCHANGED <<live, instance, devices, swapchains, surfaces, owned, chains, call, owner, depth, guards, at>>
      BY <1>2 DEF layerVars, driver, tables, registry, game, lockVars, vars
    <2>2. LockInv' /\ CallsInv' /\ QueueInv' /\ RulesInv' /\ SurfacesInv'
      BY <2>1 DEF LayerInv, LockInv, TypeOK, Owned, NoLostWakeup, Waiting, CallsInv, Placed,
                  QueueInv, RulesInv, Apart, OwnedInv, ChainsInv, UsesRight, SurfacesInv, Forgetting
    <2>3. Formed' /\ Sorted' /\ BaseInv'
      BY <2>1 DEF LayerInv, Formed, Sorted, BaseInv, DevicesInv, ObjectsInv, WellBased, DevicesLive,
                  InstanceInv, InstanceGoing, Going, Hooked, Base
    <2>4. LeftInv' /\ HookedInv' /\ TablesInv' /\ OnceInv' /\ PoolInv'
      BY <2>1 DEF LayerInv, Accounts, LeftInv, HookedInv, Hooked, TablesInv, TableAt, Going,
                  OnceInv, OnceAt, Mine, PoolInv, Base
    <2>5. ExactInv'
      BY <2>1 DEF LayerInv, Accounts, ExactInv, Exact, Of, Booked, InTable, InGame, InHand, Claimed
    <2> QED
      BY <2>2, <2>3, <2>4, <2>5 DEF LayerInv, Accounts
  <1> QED
    BY <1>1, <1>2

(* In every state of the layer its tables, the driver's objects, the calls  *)
(* under way and what the game holds fit together.                          *)
THEOREM LayerInvariant == LayerSpec => []LayerInv
  BY InitLayerInv, NextLayerInv, PTL DEF LayerSpec

(* Seen by the lock alone, the layer is the lock: whatever calls are made,  *)
(* they are its operations, one at a time for each thread.                  *)
THEOREM LayerLocks == LayerSpec => Spec
  <1>1. LayerInit => Init
    BY DEF LayerInit
  <1>2. LayerInv /\ [LayerNext]_layerVars => [Next]_vars
    <2> SUFFICES ASSUME LayerInv, [LayerNext]_layerVars
                 PROVE  [Next]_vars
      OBVIOUS
    <2>1. CASE LayerNext
      <3>1. PICK t \in Threads : Play(t) \/ Step(t) \/ Woken(t)
        BY <2>1 DEF LayerNext
      <3>2. CallsInv
        BY DEF LayerInv
      <3>3. Rests(t) \/ Begins(t) \/ Moves(t) \/ Ends(t)
        BY <3>1, <3>2, Skeleton
      <3> QED
        BY <3>2, <3>3, LockStep DEF lockVars
    <2>2. CASE UNCHANGED layerVars
      BY <2>2 DEF layerVars, lockVars
    <2> QED
      BY <2>1, <2>2
  <1> QED
    BY <1>1, <1>2, LayerInvariant, PTL DEF LayerSpec, Spec

(* However many threads the game calls from, a device's queue and its       *)
(* command pool have one user at a time in the layer, but for a present that*)
(* goes to the driver as it is while a proxy's acquire submits.             *)
THEOREM LayerTakesTurns == LayerSpec => []OneAtATime
  <1>1. LayerInv => OneAtATime
    BY OneUses DEF LayerInv
  <1> QED
    BY <1>1, LayerInvariant, PTL

(* A thread that is at the step "queue" holds the lock of a queue and takes *)
(* no other; it has the API lock already if its call needs that.            *)
LEMMA QueueGoesOn ==
  ASSUME CallsInv, NEW t \in Threads, call[t].step = "queue"
  PROVE  t \in Busy /\ ~HeldUp(t)
  <1>1. Known(call[t])
    BY IdleFields DEF CallsInv, Placed
  <1>2. at[t] = "running"
    BY <1>1, StepsAre DEF CallsInv, Placed, AtFirst, Locks, Known
  <1>3. ~LocksQueue(t)
    BY DEF LocksQueue, At
  <1> QED
    BY <1>1, <1>2, <1>3, IdleFields DEF HeldUp, Busy

(* Nobody has a queue: the owner of API goes on, or one who finds it free.  *)
LEMMA OwnerGoesOn ==
  ASSUME CallsInv, LockInv, \A t \in Threads : call[t].step # "queue", Busy # {}
  PROVE  \E t \in Busy : ~HeldUp(t)
  <1>1. \A d : Queueing(d) = {}
    BY DEF Queueing, Busy
  <1>2. \A t \in Busy : at[t] = "running" => ~HeldUp(t)
    BY <1>1 DEF HeldUp
  <1>a. \A t \in Threads : Placed(t)
    BY Zenon DEF CallsInv
  <1>3. \A t \in Threads : at[t] # "running" => t \in Busy
    BY <1>a, IdleFields DEF Placed, Busy
  <1>4. CASE \E t \in Busy : at[t] = "running"
    BY <1>2, <1>4
  <1>5. CASE \A t \in Busy : at[t] # "running"
    <2>1. CASE owner = None
      <3>1. \E t \in Threads : at[t] = "testing"
        BY <1>5, <2>1 DEF LockInv, NoLostWakeup, Waiting, TypeOK, Busy
      <3> QED
        BY <1>3, <2>1, <3>1 DEF HeldUp, MayTake
    <2>2. CASE owner # None
      <3>1. owner \in Threads /\ guards[owner] > 0
        BY <2>2 DEF LockInv, TypeOK, Owned
      <3>2. at[owner] = "running" /\ call[owner] # Idle
        BY <1>a, <3>1, IdleFields DEF Placed, LockInv, TypeOK
      <3> QED
        BY <1>2, <3>1, <3>2 DEF Busy
    <2> QED
      BY <2>1, <2>2
  <1> QED
    BY <1>4, <1>5

(* However many threads the game calls from, they are never all held up: a  *)
(* queue's lock is taken last and given back, and a free API lock is tested.*)
THEOREM LayerGoesOn == LayerSpec => []CallsGoOn
  <1>1. LayerInv => CallsGoOn
    BY QueueGoesOn, OwnerGoesOn DEF LayerInv, CallsGoOn
  <1> QED
    BY <1>1, LayerInvariant, PTL

(* Whatever surfaces come and go and in whatever order, also several of one *)
(* layer at once, the layer of every surface the game holds is kept from the*)
(* front end: but for one it made while it destroyed another of that layer. *)
THEOREM LayersStayOwned == LayerSpec => []LayersOwned
  <1>1. LayerInit => LayersInv
    <2> SUFFICES ASSUME LayerInit
                 PROVE  LayersInv
      OBVIOUS
    <2>1. owned = {} /\ call = [t \in Threads |-> Idle]
      BY DEF LayerInit
    <2> QED
      BY <2>1, IdleFields DEF LayersInv, LayersOwned, Making, Letting
  <1>2. LayerInv /\ LayersInv /\ [LayerNext]_layerVars => LayersInv'
    <2> SUFFICES ASSUME LayerInv, LayersInv, [LayerNext]_layerVars
                 PROVE  LayersInv'
      OBVIOUS
    <2>1. CallsInv /\ RulesInv /\ SurfacesInv
      BY DEF LayerInv
    <2>2. CASE LayerNext
      <3>1. PICK t \in Threads : Play(t) \/ Step(t) \/ Woken(t)
        BY <2>2 DEF LayerNext
      <3> QED
        BY <2>1, <3>1, LayersKept
    <2>3. CASE UNCHANGED layerVars
      <3>1. UNCHANGED <<owned, beside, call, vulkanLayers>>
        BY <2>3 DEF layerVars, registry, game
      <3> QED
        BY <3>1 DEF LayersInv, LayersOwned, Making, Letting
    <2> QED
      BY <2>2, <2>3
  <1>3. LayersInv => LayersOwned
    BY DEF LayersInv
  <1> QED
    BY <1>1, <1>2, <1>3, LayerInvariant, PTL DEF LayerSpec

-----------------------------------------------------------------------------
(* Nothing outlives what it is built on.                                    *)

(* A device that somebody needs is there.                                   *)
LEMMA DeviceThere ==
  ASSUME BaseInv, NEW d \in Devices, d \in owned \/ (\E steps \in SUBSET Removing : Going(d, steps))
  PROVE  \E p \in live : p.kind = "device" /\ p.id = d
  <1>1. d \in owned \/ Going(d, Removing)
    BY DEF Going
  <1>2. Object("device", d, Instance) \in live
    BY <1>1 DEF BaseInv, DevicesLive, Base
  <1> QED
    BY <1>2, ObjectIs

(* A device of the map is there.                                            *)
LEMMA HookedThere ==
  ASSUME BaseInv, NEW d \in DOMAIN devices
  PROVE  \E p \in live : p.kind = "device" /\ p.id = d
  <1>1. d \in Devices /\ (d \in owned \/ Going(d, {"remove"}))
    BY DEF BaseInv, DevicesInv
  <1>2. {"remove"} \in SUBSET Removing
    BY DEF Removing
  <1> QED
    BY <1>1, <1>2, DeviceThere

(* The device of every account is.                                          *)
LEMMA BookedThere ==
  ASSUME RulesInv, BaseInv, LeftInv, NEW h, TableAt(h), NEW d, NEW w, Booked(h, d, w)
  PROVE  \E p \in live : p.kind = "device" /\ p.id = d
  <1>1. CASE InTable(h, d, w)
    BY <1>1, HookedThere DEF InTable, TableAt
  <1>2. CASE InGame(h, d, w)
    <2>1. d \in owned \cap Devices
      <3>1. CASE h \in DOMAIN chains /\ chains[h].d = d
        BY <3>1 DEF RulesInv, ChainsInv
      <3>2. CASE \E t \in Threads : Claims(call[t], h) /\ call[t].d = d
        BY <3>2 DEF Claims, RulesInv, UsesRight
      <3> QED
        BY <1>2, <3>1, <3>2 DEF InGame, Claimed
    <2> QED
      BY <2>1, DeviceThere
  <1>3. CASE InHand(h, d, w)
    <2>1. PICK t \in Threads : Holds(call[t], h, w) /\ call[t].d = d
      BY <1>3 DEF InHand
    <2>2. CASE call[t].op = "destroy_device"
      <3>1. call[t].step \in Dropping
        BY <2>1, <2>2 DEF Holds, LeftInv, Dropping
      <3>2. d \in Devices /\ Going(d, Dropping)
        BY <2>1, <2>2, <3>1 DEF Going, RulesInv, UsesRight
      <3>3. Dropping \in SUBSET Removing
        BY DEF Dropping, Removing
      <3> QED
        BY <3>2, <3>3, DeviceThere
    <2>3. CASE call[t].op # "destroy_device"
      <3>1. call[t].op \in {"create_swapchain", "destroy_swapchain"}
        BY <2>1, <2>3 DEF Holds, Destroys, LeftInv
      <3>2. d \in owned \cap Devices
        BY <2>1, <3>1 DEF RulesInv, UsesRight
      <3> QED
        BY <3>2, DeviceThere
    <2> QED
      BY <2>2, <2>3
  <1> QED
    BY <1>1, <1>2, <1>3 DEF Booked

(* Every object has its parent.                                             *)
LEMMA ParentsAre == LayerInv => ParentsFirst
  <1> SUFFICES ASSUME LayerInv, NEW o \in live
               PROVE  /\ o.on = None \/ \E p \in live : p.kind \in {"instance", "device"} /\ p.id = o.on
                      /\ o.kind = "fixed" => Alive("swapchain", o.id) /\ Alive("pool", o.on)
    BY DEF ParentsFirst
  <1>1. /\ RulesInv /\ Sorted /\ BaseInv /\ LeftInv /\ TablesInv /\ ExactInv /\ PoolInv
    BY DEF LayerInv, Accounts
  <1>2. CASE o.kind \in Kinds
    <2>1. PICK h : h = o.id
      OBVIOUS
    <2>2. TableAt(h) /\ Exact(h) /\ o \in Of(h)
      BY <1>1, <1>2, <2>1 DEF TablesInv, ExactInv, Of
    <2>3. PICK d, w : Booked(h, d, w) /\ Of(h) = Backing(h, d, w)
      BY <2>2 DEF Exact
    <2>4. o.on = d
      BY <2>2, <2>3, BackingTells
    <2>5. \E p \in live : p.kind \in {"instance", "device"} /\ p.id = o.on
      BY <1>1, <2>2, <2>3, <2>4, BookedThere
    <2>6. ASSUME o.kind = "fixed"
          PROVE  Alive("swapchain", o.id) /\ Alive("pool", o.on)
      <3>1. w = "fixed"
        BY <2>2, <2>3, <2>6, BackingTells
      <3>2. Object("swapchain", h, d) \in live
        BY <2>3, <3>1, BackingsAre DEF Of
      <3>3. Object("pool", d, d) \in live
        <4>1. CASE InTable(h, d, w)
          BY <1>1, <2>2, <3>1, <4>1 DEF InTable, TableAt, BaseInv, DevicesInv, Base
        <4>2. CASE InHand(h, d, w)
          BY <1>1, <3>1, <4>2 DEF InHand, PoolInv, Base
        <4> QED
          BY <2>3, <3>1, <4>1, <4>2 DEF Booked, InGame
      <3> QED
        BY <2>1, <2>4, <3>2, <3>3, ObjectIs DEF Alive
    <2> QED
      BY <2>5, <2>6
  <1>3. CASE o.kind = "surface"
    BY <1>1, <1>3 DEF Sorted
  <1>4. CASE o.kind \in BaseKinds
    <2>1. WellBased(o)
      BY <1>1, <1>4 DEF BaseInv, ObjectsInv, Base
    <2>2. o.kind # "fixed"
      BY <1>4 DEF BaseKinds
    <2>3. CASE o.kind = "instance"
      BY <2>1, <2>2, <2>3, ObjectIs DEF WellBased
    <2>4. CASE o.kind = "device"
      <3>1. o.on = Instance /\ (o.id \in owned \/ Going(o.id, Removing))
        BY <2>1, <2>4 DEF WellBased
      <3>2. Instance \in owned
        <4>1. CASE o.id \in owned
          BY <1>1, <4>1 DEF RulesInv, OwnedInv
        <4>2. CASE Going(o.id, Removing)
          BY <1>1, <4>2 DEF Going, RulesInv, UsesRight
        <4> QED
          BY <3>1, <4>1, <4>2
      <3>3. Object("instance", Instance, None) \in live
        BY <1>1, <3>2 DEF BaseInv, InstanceInv, Base
      <3> QED
        BY <2>2, <3>1, <3>3, ObjectIs
    <2>5. CASE o.kind \in {"pool", "generator"}
      <3>1. PICK d : d = o.on
        OBVIOUS
      <3>2. d \in Devices /\ (d \in DOMAIN devices \/ Going(d, Dropping \cup {"pool"}) \/ Going(d, Dropping))
        BY <2>1, <2>5, <3>1 DEF WellBased, Hooked
      <3>3. Dropping \in SUBSET Removing /\ Dropping \cup {"pool"} \in SUBSET Removing
        BY DEF Dropping, Removing
      <3>4. \E p \in live : p.kind = "device" /\ p.id = d
        BY <1>1, <3>2, <3>3, DeviceThere, HookedThere
      <3> QED
        BY <2>2, <3>1, <3>4
    <2> QED
      BY <1>4, <2>3, <2>4, <2>5 DEF BaseKinds
  <1> QED
    BY <1>1, <1>2, <1>3, <1>4 DEF Sorted

(* Through every failure of a wrapper and every order of destruction, with  *)
(* swapchains alive when their device goes: nothing outlives its device,    *)
(* its pool or its swapchain.                                               *)
THEOREM LayerParents == LayerSpec => []ParentsFirst
  BY ParentsAre, LayerInvariant, PTL

-----------------------------------------------------------------------------
(* Between calls nobody has anything in hand, so the accounts are the       *)
(* table's and the game's.                                                  *)
LEMMA RestingIs ==
  ASSUME LayerInv, Busy = {}
  PROVE  /\ \A d, steps : ~Going(d, steps)
         /\ ~InstanceGoing /\ \A s : ~Forgetting(s)
         /\ \A h : \A t \in Threads : ~Claims(call[t], h)
         /\ \A h, d, w : ~InHand(h, d, w)
  <1>1. \A t \in Threads : call[t] = Idle
    BY DEF Busy
  <1>2. Idle.op = "none"
    BY IdleFields
  <1> QED
    BY <1>1, <1>2, IdleHolds DEF Going, InstanceGoing, Forgetting, InHand

(* With no call under way the accounts are the game's alone.                *)
LEMMA RestingTable ==
  ASSUME LayerInv, Busy = {}
  PROVE  /\ DOMAIN swapchains = {h \in DOMAIN chains : chains[h].d \in DOMAIN devices}
         /\ \A h \in DOMAIN swapchains : \A d, w :
              d = swapchains[h].d /\ w = swapchains[h].wrapper => Of(h) = Backing(h, d, w)
         /\ \A h : Of(h) # {} <=> h \in DOMAIN chains
  <1>1. \A h : TableAt(h) /\ Exact(h)
    BY DEF LayerInv, Accounts, TablesInv, ExactInv
  <1>2. \A h \in DOMAIN swapchains :
          /\ h \in DOMAIN chains /\ chains[h].d = swapchains[h].d
          /\ swapchains[h].d \in DOMAIN devices
    BY <1>1, RestingIs DEF TableAt
  <1>3. \A h \in DOMAIN chains : chains[h].d \in DOMAIN devices => h \in DOMAIN swapchains
    BY <1>1 DEF TableAt
  <1>4. \A h \in DOMAIN swapchains : \A d, w :
          d = swapchains[h].d /\ w = swapchains[h].wrapper => Of(h) = Backing(h, d, w)
    BY <1>1 DEF Exact, Booked, InTable
  <1>5. ASSUME NEW h, Of(h) # {}
        PROVE  h \in DOMAIN chains
    <2>1. \E d, w : InTable(h, d, w) \/ InGame(h, d, w)
      BY <1>1, <1>5, RestingIs DEF Exact, Booked
    <2> QED
      BY <1>2, <2>1, RestingIs DEF InTable, InGame, Claimed
  <1>6. ASSUME NEW h \in DOMAIN chains
        PROVE  Of(h) # {}
    <2>1. \E d, w : Booked(h, d, w)
      <3>1. CASE h \in DOMAIN swapchains
        BY <3>1 DEF Booked, InTable
      <3>2. CASE h \notin DOMAIN swapchains
        BY <1>6, <3>2 DEF Booked, InGame, Claimed
      <3> QED
        BY <3>1, <3>2
    <2>2. \E d, w : Of(h) = Backing(h, d, w)
      BY <1>1, <2>1 DEF Exact
    <2> QED
      BY <2>2, BackingTells
  <1> QED
    BY <1>2, <1>3, <1>4, <1>5, <1>6

(* The tables are then what exists and what the game has.                   *)
LEMMA TableIs == LayerInv => TableExact
  <1> SUFFICES ASSUME LayerInv, Busy = {}
               PROVE  /\ DOMAIN devices \subseteq owned
                      /\ DOMAIN swapchains = {h \in DOMAIN chains : chains[h].d \in DOMAIN devices}
                      /\ DOMAIN surfaces = owned \cap Surfaces
                      /\ (instance # "none") = (Instance \in owned)
                      /\ {o.id : o \in {o \in live : o.kind \in {"swapchain", "proxy"}}} = DOMAIN chains
                      /\ \A h \in DOMAIN swapchains :
                           /\ (swapchains[h].wrapper = "fixed") = Alive("fixed", h)
                           /\ (swapchains[h].wrapper = "proxy") = Alive("proxy", h)
                      /\ \A o \in live : o.kind \in {"generator", "pool"} => Hooked(o.on)
    BY DEF TableExact
  <1>1. BaseInv /\ SurfacesInv /\ \A h : Exact(h)
    BY DEF LayerInv, Accounts, ExactInv
  <1>2. DOMAIN devices \subseteq owned
    BY <1>1, RestingIs DEF BaseInv, DevicesInv
  <1>3. DOMAIN surfaces = owned \cap Surfaces
    BY <1>1, RestingIs DEF SurfacesInv
  <1>4. (instance # "none") = (Instance \in owned)
    BY <1>1, RestingIs DEF BaseInv, InstanceInv
  <1>5. {o.id : o \in {o \in live : o.kind \in {"swapchain", "proxy"}}} = DOMAIN chains
    <2>1. ASSUME NEW o \in live, o.kind \in {"swapchain", "proxy"}
          PROVE  o.id \in DOMAIN chains
      <3>1. o \in Of(o.id)
        BY <2>1 DEF Of, Kinds
      <3> QED
        BY <3>1, RestingTable
    <2>2. ASSUME NEW h \in DOMAIN chains
          PROVE  \E o \in live : o.kind \in {"swapchain", "proxy"} /\ o.id = h
      <3>1. Of(h) # {}
        BY RestingTable
      <3>2. PICK d, w : Of(h) = Backing(h, d, w)
        BY <1>1, <3>1 DEF Exact
      <3>3. PICK o \in Backing(h, d, w) : o.kind \in {"swapchain", "proxy"}
        BY BackingTells
      <3> QED
        BY <3>2, <3>3 DEF Of
    <2> QED
      BY <2>1, <2>2
  <1>6. ASSUME NEW h \in DOMAIN swapchains
        PROVE  /\ (swapchains[h].wrapper = "fixed") = Alive("fixed", h)
               /\ (swapchains[h].wrapper = "proxy") = Alive("proxy", h)
    <2>1. PICK d, w : d = swapchains[h].d /\ w = swapchains[h].wrapper /\ Of(h) = Backing(h, d, w)
      BY RestingTable
    <2>2. Alive("fixed", h) <=> \E o \in Of(h) : o.kind = "fixed"
      BY DEF Alive, Of, Kinds
    <2>3. Alive("proxy", h) <=> \E o \in Of(h) : o.kind = "proxy"
      BY DEF Alive, Of, Kinds
    <2>4. /\ (\E o \in Of(h) : o.kind = "fixed") <=> w = "fixed"
          /\ (\E o \in Of(h) : o.kind = "proxy") <=> w = "proxy"
      BY <2>1, BackingTells
    <2>5. Alive("fixed", h) \in BOOLEAN /\ Alive("proxy", h) \in BOOLEAN
      BY DEF Alive
    <2> QED
      BY <2>1, <2>2, <2>3, <2>4, <2>5
  <1>7. ASSUME NEW o \in live, o.kind \in {"generator", "pool"}
        PROVE  Hooked(o.on)
    <2>1. o \in Base
      BY <1>7 DEF Base, BaseKinds
    <2>2. WellBased(o)
      BY <1>1, <2>1 DEF BaseInv, ObjectsInv
    <2> QED
      BY <1>7, <2>2, RestingIs DEF WellBased
  <1> QED
    BY <1>2, <1>3, <1>4, <1>5, <1>6, <1>7, RestingTable

(* Whatever was made, destroyed or failed before, and in whatever order:    *)
(* once no call is under way the tables, the objects that exist and what    *)
(* the game holds are the same.                                             *)
THEOREM LayerTables == LayerSpec => []TableExact
  BY TableIs, LayerInvariant, PTL

-----------------------------------------------------------------------------
(* What the driver is asked.  A swapchain the game has is the driver's too  *)
(* unless it is a proxy; the one a surface has is the game's, or in the hand*)
(* of the call that makes or destroys it.                                   *)

Given(h, s) == h \in DOMAIN chains /\ chains[h].s = s

Has(c, h, s) ==
  \/ c.op = "create_swapchain" /\ c.s = s /\ c.step \in {"setup", "insert"} /\ c.new = h
  \/ Destroys(c) /\ s \in c.alone /\ (Claims(c, h) \/ \E w : Holds(c, h, w))
  \/ c.op = "destroy_device" /\ c.step = "remove" /\ s \in c.alone /\ h \in LeakedOn(c.d)

ActiveAt(s) ==
  active[s] # None =>
    /\ Alive("swapchain", active[s])
    /\ Given(active[s], s) \/ \E t \in Threads : Has(call[t], active[s], s)

NewestActive == \A h \in DOMAIN chains : ~chains[h].retired /\ ~IsProxy(h) => active[chains[h].s] = h

ActiveInv ==
  /\ active = [s \in Surfaces |-> active[s]]
  /\ \A s \in Surfaces : ActiveAt(s)
  /\ NewestActive

(* What a creation knows of its surface at each of its steps.               *)
Creating(c) ==
  c.op = "create_swapchain" =>
    /\ \A h \in DOMAIN chains : chains[h].s = c.s => chains[h].retired
    /\ c.step = "choose" => active[c.s] = Named(c.old)
    /\ c.step = "choose" /\ c.old # None =>
         c.old \in DOMAIN chains /\ chains[c.old].d = c.d /\ c.old \in c.alone
    /\ c.step \in {"plain", "fixed", "proxy"} => active[c.s] = c.old
    /\ c.step \in {"native", "undo"} => active[c.s] = None
    /\ c.step = "setup" => active[c.s] = c.new
    /\ c.step = "insert" /\ c.wrapper # "proxy" => active[c.s] = c.new

(* What a present or an acquire looked up is still so when it is used.      *)
Asking(t) ==
  /\ call[t].op \in {"present", "acquire"} =>
       \E h \in call[t].hs : call[t].wrapper = Lookup(h).wrapper
  /\ call[t].op = "present" /\ call[t].step = "queue" => ~Invalidates(t)

DriverInv ==
  /\ LayerInv /\ ActiveInv
  /\ \A t \in Threads : Creating(call[t]) /\ Asking(t)
  /\ illegal = {}

(* A swapchain is alive when one of its handle's objects is one.            *)
LEMMA AliveIs ==
  ASSUME NEW h
  PROVE  Alive("swapchain", h) <=> \E o \in Of(h) : o.kind = "swapchain"
  BY DEF Alive, Of, Kinds

(* What a call has in hand is alive but for a proxy,                        *)
LEMMA HeldAlive ==
  ASSUME NEW t \in Threads, NEW h, NEW w, Holds(call[t], h, w), ExactInv
  PROVE  Alive("swapchain", h) <=> w # "proxy"
  <1>1. PICK d : d = call[t].d
    OBVIOUS
  <1>2. Of(h) = Backing(h, d, w)
    BY <1>1, InHandIs DEF ExactInv
  <1> QED
    BY <1>2, AliveIs, BackingTells

(* and so is what the game has.                                             *)
LEMMA GameAlive ==
  ASSUME NEW h \in DOMAIN chains, ExactInv
  PROVE  Alive("swapchain", h) <=> ~IsProxy(h)
  <1>1. PICK d, w : Booked(h, d, w) /\ (w = "proxy" <=> IsProxy(h))
    <2>1. CASE h \in DOMAIN swapchains
      <3>1. PICK d, w : d = swapchains[h].d /\ w = swapchains[h].wrapper
        OBVIOUS
      <3>2. Booked(h, d, w)
        BY <2>1, <3>1 DEF Booked, InTable
      <3> QED
        BY <2>1, <3>1, <3>2 DEF IsProxy
    <2>2. CASE h \notin DOMAIN swapchains
      <3>1. PICK d : d = chains[h].d
        OBVIOUS
      <3>2. Booked(h, d, "none")
        BY <2>2, <3>1 DEF Booked, InGame, Claimed
      <3> QED
        BY <2>2, <3>2 DEF IsProxy
    <2> QED
      BY <2>1, <2>2
  <1>2. Of(h) = Backing(h, d, w)
    BY <1>1 DEF ExactInv, Exact
  <1> QED
    BY <1>1, <1>2, AliveIs, BackingTells

(* A swapchain the game has keeps its entry: it is looked up long before it *)
(* is used.                                                                 *)
LEMMA EntryStays ==
  ASSUME CallsInv, RulesInv, TablesInv, OnceInv, NEW t \in Threads,
         Play(t) \/ Step(t) \/ Woken(t), NEW h \in DOMAIN chains
  PROVE  /\ h \in DOMAIN swapchains' <=> h \in DOMAIN swapchains
         /\ h \in DOMAIN swapchains => swapchains'[h] = swapchains[h]
  <1>1. ~Mine(t, h)
    BY DEF OnceInv, OnceAt
  <1>2. CASE UNCHANGED swapchains
    BY <1>2
  <1>3. CASE DeviceRemoved(t)
    <2>1. call[t].op = "destroy_device"
      BY <1>3, InsideIs DEF DeviceRemoved
    <2>2. swapchains' = Restrict(swapchains, DOMAIN swapchains \ LeakedOn(call[t].d))
      BY <1>3 DEF DeviceRemoved
    <2>3. call[t].d \notin owned /\ chains[h].d \in owned
      BY <2>1 DEF RulesInv, UsesRight, ChainsInv
    <2>4. h \notin LeakedOn(call[t].d)
      BY <2>3 DEF LeakedOn, TablesInv, TableAt
    <2> QED
      BY <2>2, <2>4 DEF Restrict
  <1>4. CASE SwapchainRemoved(t)
    <2>1. call[t].op = "destroy_swapchain" /\ call[t].step = "remove"
      BY <1>4, InsideIs DEF SwapchainRemoved
    <2>2. swapchains' = Restrict(swapchains, DOMAIN swapchains \ {call[t].h})
      BY <1>4 DEF SwapchainRemoved
    <2>3. call[t].h # h
      BY <1>1, <2>1 DEF Mine, Claims
    <2> QED
      BY <2>2, <2>3 DEF Restrict
  <1>5. CASE Inserted(t)
    <2>1. call[t].op = "create_swapchain" /\ call[t].step = "insert"
      BY <1>5, InsideIs DEF Inserted
    <2>2. call[t].new # h
      BY <1>1, <2>1 DEF Mine, Holds
    <2>3. \/ swapchains' = swapchains
          \/ swapchains' = With(swapchains, call[t].new, [d |-> call[t].d, wrapper |-> call[t].wrapper])
      BY <1>5 DEF Inserted
    <2> QED
      BY <2>2, <2>3 DEF With
  <1> QED
    BY <1>2, <1>3, <1>4, <1>5, StepFrames, PlayFrames DEF Framed, ChangesSwapchains, tables

(* What the table says of a handle of the game does not change.             *)
LEMMA LookupStays ==
  ASSUME CallsInv, RulesInv, TablesInv, OnceInv, NEW t \in Threads,
         Play(t) \/ Step(t) \/ Woken(t), NEW h \in DOMAIN chains
  PROVE  (IsProxy(h)' <=> IsProxy(h)) /\ Lookup(h)' = Lookup(h)
  BY EntryStays DEF IsProxy, Lookup

(* What a destruction takes from the game when it begins.                   *)
LEMMA DeviceTakes ==
  ASSUME CallsInv, NEW t \in Threads, DestroyDevice(t)
  PROVE  \E d \in Devices :
           /\ Begins(t) /\ call'[t].op = "destroy_device" /\ call'[t].step = "remove" /\ call'[t].d = d
           /\ \A h \in DOMAIN chains :
                chains[h].d = d => /\ h \in call'[t].alone /\ chains[h].s \in call'[t].alone
                                   /\ d \in DOMAIN devices
           /\ DOMAIN chains' = {h \in DOMAIN chains : chains[h].d # d}
           /\ \A h \in DOMAIN chains' : chains'[h] = chains[h]
  <1>1. PICK d \in owned \cap Devices :
          LET leaked == {h \in DOMAIN chains : chains[h].d = d}
          IN /\ Begins(t) /\ call'[t].op = "destroy_device" /\ call'[t].step = "remove"
             /\ call'[t].d = d
             /\ call'[t].alone = {d} \cup leaked \cup {chains[h].s : h \in leaked}
             /\ call'[t].shared = {Instance} /\ call'[t].left = <<>>
             /\ d \in DOMAIN devices \/ leaked = {}
             /\ owned' = owned \ {d}
             /\ chains' = Restrict(chains, DOMAIN chains \ leaked)
             /\ UNCHANGED <<driver, tables, registry>>
    BY DestroyDeviceDoes
  <1>2. /\ DOMAIN chains' = {h \in DOMAIN chains : chains[h].d # d}
        /\ \A h \in DOMAIN chains' : chains'[h] = chains[h]
    BY <1>1 DEF Restrict
  <1> QED
    BY <1>1, <1>2

(* A destroy takes its swapchain from the game and no other.                *)
LEMMA SwapchainTakes ==
  ASSUME CallsInv, NEW t \in Threads, DestroySwapchain(t)
  PROVE  \E h \in DOMAIN chains :
           /\ Begins(t) /\ call'[t].op = "destroy_swapchain" /\ call'[t].step = "remove" /\ call'[t].h = h
           /\ h \in call'[t].alone /\ chains[h].s \in call'[t].alone
           /\ DOMAIN chains' = DOMAIN chains \ {h}
           /\ \A g \in DOMAIN chains' : chains'[g] = chains[g]
  <1>1. PICK h : /\ h = call'[t].h /\ h \in DOMAIN chains
                 /\ Begins(t) /\ call'[t].op = "destroy_swapchain" /\ call'[t].step = "remove"
                 /\ call'[t].alone = {h, chains[h].s}
                 /\ chains' = Restrict(chains, DOMAIN chains \ {h})
    BY DestroySwapchainDoes
  <1>2. /\ DOMAIN chains' = DOMAIN chains \ {h}
        /\ \A g \in DOMAIN chains' : chains'[g] = chains[g]
    BY <1>1 DEF Restrict
  <1> QED
    BY <1>1, <1>2

(* A creation retires the swapchain it replaces and no other.               *)
LEMMA CreationRetires ==
  ASSUME CallsInv, RulesInv, NEW t \in Threads, CreateSwapchain(t)
  PROVE  /\ DOMAIN chains' = DOMAIN chains
         /\ \A h \in DOMAIN chains :
              /\ chains'[h].d = chains[h].d /\ chains'[h].s = chains[h].s
              /\ chains'[h].retired <=> (chains[h].retired \/ h = call'[t].old)
  <1>1. chains' = [h \in DOMAIN chains |-> [chains[h] EXCEPT !.retired = @ \/ h = call'[t].old]]
    BY CreateSwapchainDoes
  <1>2. ASSUME NEW h \in DOMAIN chains
        PROVE  /\ chains'[h].d = chains[h].d /\ chains'[h].s = chains[h].s
               /\ chains'[h].retired <=> (chains[h].retired \/ h = call'[t].old)
    <2>1. chains[h] = [d |-> chains[h].d, s |-> chains[h].s, retired |-> chains[h].retired]
      BY DEF RulesInv, ChainsInv
    <2>2. chains'[h] = [chains[h] EXCEPT !.retired = @ \/ h = call'[t].old]
      BY <1>1
    <2> QED
      BY <2>1, <2>2
  <1>3. DOMAIN chains' = DOMAIN chains
    BY <1>1
  <1> QED
    BY <1>2, <1>3

(* What is left of the game's swapchains after a step.                      *)
LEMMA ChainsComeFrom ==
  ASSUME CallsInv, RulesInv, NEW t \in Threads, Play(t) \/ Step(t) \/ Woken(t),
         NEW h \in DOMAIN chains'
  PROVE  \/ /\ h \in DOMAIN chains /\ chains'[h].s = chains[h].s
            /\ chains[h].retired => chains'[h].retired
            /\ ~CreateSwapchain(t) => chains'[h] = chains[h]
         \/ /\ Inserted(t) /\ h = call[t].new
            /\ chains'[h].s = call[t].s
  <1>1. CASE UNCHANGED chains
    BY <1>1
  <1>2. CASE Inserted(t)
    <2>1. chains' = With(chains, call[t].new, [d |-> call[t].d, s |-> call[t].s, retired |-> FALSE])
      BY <1>2 DEF Inserted
    <2> QED
      BY <1>2, <2>1 DEF With
  <1>3. CASE DestroyDevice(t) \/ DestroySwapchain(t)
    BY <1>3, DeviceTakes, SwapchainTakes
  <1>5. CASE CreateSwapchain(t)
    BY <1>5, CreationRetires
  <1> QED
    BY <1>1, <1>2, <1>3, <1>5, StepFrames, PlayFrames DEF Framed, ChangesChains

(* What another call uses alone stays the game's.                           *)
LEMMA ChainStays ==
  ASSUME CallsInv, RulesInv, OnceInv, NEW t \in Threads, Play(t) \/ Step(t) \/ Woken(t),
         NEW u \in Threads, u # t, NEW h \in DOMAIN chains, h \in call[u].alone
  PROVE  h \in DOMAIN chains' /\ chains'[h].d = chains[h].d /\ chains'[h].s = chains[h].s
  <1>1. call[u] # Idle
    BY IdleFields
  <1>2. CASE UNCHANGED chains
    BY <1>2
  <1>3. CASE Inserted(t)
    <2>1. chains' = With(chains, call[t].new, [d |-> call[t].d, s |-> call[t].s, retired |-> FALSE])
      BY <1>3 DEF Inserted
    <2>2. call[t].op = "create_swapchain" /\ call[t].step = "insert"
      BY <1>3, InsideIs DEF Inserted
    <2>3. call[t].new # h
      BY <2>2 DEF OnceInv, OnceAt, Mine, Holds
    <2> QED
      BY <2>1, <2>3 DEF With
  <1>4. CASE DestroyDevice(t)
    <2>1. PICK d : /\ Begins(t) /\ DOMAIN chains' = {g \in DOMAIN chains : chains[g].d # d}
                   /\ \A g \in DOMAIN chains' : chains'[g] = chains[g]
                   /\ chains[h].d = d => h \in call'[t].alone
      BY <1>4, DeviceTakes
    <2>2. h \notin call'[t].alone
      BY <1>1, <2>1 DEF Begins, Busy, Conflict
    <2> QED
      BY <2>1, <2>2
  <1>5. CASE DestroySwapchain(t)
    <2>1. PICK g : /\ Begins(t) /\ g \in call'[t].alone /\ DOMAIN chains' = DOMAIN chains \ {g}
                   /\ \A k \in DOMAIN chains' : chains'[k] = chains[k]
      BY <1>5, SwapchainTakes
    <2>2. h \notin call'[t].alone
      BY <1>1, <2>1 DEF Begins, Busy, Conflict
    <2> QED
      BY <2>1, <2>2
  <1>6. CASE CreateSwapchain(t)
    BY <1>6, CreationRetires
  <1> QED
    BY <1>2, <1>3, <1>4, <1>5, <1>6, StepFrames, PlayFrames DEF Framed, ChangesChains

(* How a step changes the swapchain a surface has: a creation on its own    *)
(* surface, and what is destroyed wherever it is.                           *)
LEMMA ActiveChanges ==
  ASSUME CallsInv, LeftInv, NEW t \in Threads, Play(t) \/ Step(t) \/ Woken(t)
  PROVE  \/ UNCHANGED active
         \/ /\ call[t].op = "create_swapchain"
            /\ \E x : active' = [active EXCEPT ![call[t].s] = x]
         \/ \E h : Freed(h) /\ Holds(call[t], h, "none")
  <1>1. CASE FixedCreated(t) \/ Unwrapped(t)
    <2>1. call[t].op = "create_swapchain"
      BY <1>1, InsideIs DEF FixedCreated, Unwrapped
    <2>2. \E x : active' = [active EXCEPT ![call[t].s] = x]
      BY <1>1 DEF FixedCreated, Unwrapped, Driver, Makes
    <2> QED
      BY <2>1, <2>2
  <1>2. CASE FixedSetUp(t)
    <2>1. PICK h : h = call[t].new
      OBVIOUS
    <2>2. call[t].op = "create_swapchain" /\ call[t].step = "setup"
      BY <1>2, InsideIs DEF FixedSetUp
    <2>3. UNCHANGED active \/ Freed(h)
      BY <1>2, <2>1 DEF FixedSetUp
    <2>4. Holds(call[t], h, "none")
      BY <2>1, <2>2 DEF Holds
    <2> QED
      BY <2>3, <2>4
  <1>3. CASE SwapchainDestroyed(t)
    <2>1. PICK h : h = call[t].h
      OBVIOUS
    <2>2. Destroys(call[t]) /\ call[t].step = "destroy"
      BY <1>3, InsideIs DEF SwapchainDestroyed, Destroying, Destroys
    <2>3. Freed(h)
      BY <1>3, <2>1 DEF SwapchainDestroyed
    <2>4. Holds(call[t], h, "none")
      BY <2>1, <2>2 DEF Holds
    <2> QED
      BY <2>3, <2>4
  <1> QED
    BY <1>1, <1>2, <1>3, StepFrames, PlayFrames DEF Framed, ChangesActive

(* What one call has in hand is not what another's surface has.             *)
LEMMA InHandElsewhere ==
  ASSUME RulesInv, OnceInv, NEW t \in Threads, NEW u \in Threads, u # t,
         NEW h, h # None, NEW w, Holds(call[t], h, w),
         NEW s, s \in call[u].alone, ActiveAt(s)
  PROVE  active[s] # h
  <1> SUFFICES ASSUME active[s] = h
               PROVE  FALSE
    OBVIOUS
  <1>1. Apart
    BY DEF RulesInv
  <1>2. s \notin call[t].alone
    BY <1>1, AloneIs
  <1>3. /\ h \notin DOMAIN chains /\ h \notin DOMAIN swapchains
        /\ \A v \in Threads : v # t => ~Mine(v, h)
    BY DEF OnceInv, OnceAt, Mine
  <1>4. PICK v \in Threads : Has(call[v], h, s)
    BY <1>3 DEF ActiveAt, Given
  <1>5. CASE v = t
    <2>1. call[t].op = "create_swapchain" /\ call[t].s = s
      BY <1>2, <1>4, <1>5 DEF Has
    <2>2. call[t].s \in call[t].alone
      BY <2>1 DEF RulesInv, UsesRight
    <2> QED
      BY <1>2, <2>1, <2>2
  <1>6. CASE v # t
    <2>1. ~Mine(v, h)
      BY <1>3, <1>6
    <2>2. h \notin LeakedOn(call[v].d)
      BY <1>3 DEF LeakedOn
    <2> QED
      BY <1>4, <2>1, <2>2 DEF Has, Mine, Holds
  <1> QED
    BY <1>5, <1>6

(* So the surface of a creation has what it had while others make steps.    *)
LEMMA ActiveStays ==
  ASSUME CallsInv, RulesInv, LeftInv, OnceInv, ActiveInv, NEW t \in Threads,
         Play(t) \/ Step(t) \/ Woken(t), NEW u \in Threads, u # t,
         call[u].op = "create_swapchain"
  PROVE  active'[call[u].s] = active[call[u].s]
  <1>1. PICK s : s = call[u].s /\ s \in Surfaces /\ s \in call[u].alone
    BY DEF RulesInv, UsesRight
  <1>2. /\ active = [r \in Surfaces |-> active[r]]
        /\ ActiveAt(s)
    BY <1>1 DEF ActiveInv
  <1>3. ASSUME call[t].op = "create_swapchain"
        PROVE  call[t].s # s
    <2>1. call[t].s \in call[t].alone
      BY <1>3 DEF RulesInv, UsesRight
    <2> QED
      BY <1>1, <2>1, AloneIs DEF RulesInv
  <1>4. ASSUME NEW h, Freed(h), Holds(call[t], h, "none")
        PROVE  active'[s] = active[s]
    <2>1. h # None => active[s] # h
      BY <1>1, <1>2, <1>4, InHandElsewhere
    <2>2. active'[s] = IF active[s] = h THEN None ELSE active[s]
      BY <1>1, <1>4 DEF Freed
    <2> QED
      BY <2>1, <2>2
  <1> QED
    BY <1>1, <1>2, <1>3, <1>4, ActiveChanges

(* The calls of the others keep what they have in hand.                     *)
LEMMA HasStays ==
  ASSUME CallsInv, RulesInv, TablesInv, OnceInv, NEW t \in Threads,
         Play(t) \/ Step(t) \/ Woken(t), NEW u \in Threads, u # t,
         NEW h, NEW s, Has(call[u], h, s)
  PROVE  Has(call[u], h, s)'
  <1>1. call'[u] = call[u]
    BY OthersStay DEF Others
  <1>2. ASSUME call[u].op = "destroy_device", call[u].step = "remove", h \in LeakedOn(call[u].d)
        PROVE  h \in DOMAIN swapchains' /\ swapchains'[h].d = call[u].d
    <2>1. h \in DOMAIN swapchains /\ swapchains[h].d = call[u].d
      BY <1>2 DEF LeakedOn
    <2>2. call[u].d \in call[u].alone
      BY <1>2 DEF RulesInv, UsesRight
    <2>3. call[u].d \notin call[t].alone /\ call[u].d \notin call[t].shared
      BY <2>2, AloneIs DEF RulesInv
    <2>4. CASE DeviceRemoved(t)
      <3>1. call[t].op = "destroy_device"
        BY <2>4, InsideIs DEF DeviceRemoved
      <3>2. swapchains' = Restrict(swapchains, DOMAIN swapchains \ LeakedOn(call[t].d))
        BY <2>4 DEF DeviceRemoved
      <3>3. call[t].d # call[u].d
        BY <2>3, <3>1 DEF RulesInv, UsesRight
      <3>4. h \notin LeakedOn(call[t].d)
        BY <2>1, <3>3 DEF LeakedOn
      <3> QED
        BY <2>1, <3>2, <3>4 DEF Restrict
    <2>5. CASE SwapchainRemoved(t)
      <3>1. call[t].op = "destroy_swapchain" /\ call[t].step = "remove"
        BY <2>5, InsideIs DEF SwapchainRemoved
      <3>2. swapchains' = Restrict(swapchains, DOMAIN swapchains \ {call[t].h})
        BY <2>5 DEF SwapchainRemoved
      <3>3. call[t].d # call[u].d
        BY <2>3, <3>1 DEF RulesInv, UsesRight
      <3>4. call[t].h # h
        BY <2>1, <3>1, <3>3 DEF TablesInv, TableAt, Claims
      <3> QED
        BY <2>1, <3>2, <3>4 DEF Restrict
    <2>6. CASE Inserted(t)
      <3>1. call[t].op = "create_swapchain" /\ call[t].step = "insert"
        BY <2>6, InsideIs DEF Inserted
      <3>2. call[t].new # h
        BY <2>1, <3>1 DEF OnceInv, OnceAt, Holds
      <3>3. \/ swapchains' = swapchains
            \/ swapchains' = With(swapchains, call[t].new, [d |-> call[t].d, wrapper |-> call[t].wrapper])
        BY <2>6 DEF Inserted
      <3> QED
        BY <2>1, <3>2, <3>3 DEF With
    <2>7. CASE UNCHANGED swapchains
      BY <2>1, <2>7
    <2> QED
      BY <2>4, <2>5, <2>6, <2>7, StepFrames, PlayFrames DEF Framed, ChangesSwapchains, tables
  <1>3. h \in LeakedOn(call[u].d) /\ call[u].op = "destroy_device" /\ call[u].step = "remove" =>
          h \in LeakedOn(call[u].d)'
    BY <1>1, <1>2 DEF LeakedOn
  <1> QED
    BY <1>1, <1>3 DEF Has

(* A swapchain of the driver goes only where it is freed.                   *)
LEMMA AliveStays ==
  ASSUME CallsInv, LeftInv, NEW t \in Threads, Play(t) \/ Step(t) \/ Woken(t),
         NEW h, Alive("swapchain", h)
  PROVE  Alive("swapchain", h)' \/ (Freed(h) /\ Holds(call[t], h, "none"))
  <1>1. PICK o \in live : o.kind = "swapchain" /\ o.id = h
    BY DEF Alive
  <1>2. CASE o \in live'
    BY <1>1, <1>2 DEF Alive
  <1>3. CASE UNCHANGED live
    BY <1>1, <1>3 DEF Alive
  <1>4. CASE \/ InstanceCreated(t) \/ DeviceCreated(t) \/ SurfaceCreated(t) \/ ProxyTried(t)
             \/ FixedCreated(t) \/ Unwrapped(t) \/ PresentDone(t)
    <2>1. live \subseteq live'
      BY <1>4 DEF InstanceCreated, DeviceCreated, SurfaceCreated, ProxyTried, FixedCreated, Unwrapped,
                  Driver, Makes, PresentDone
    <2> QED
      BY <1>2, <2>1
  <1>5. CASE \/ InstanceDestroyed(t) \/ GeneratorDropped(t) \/ PoolDestroyed(t) \/ DeviceDestroyed(t)
             \/ SurfaceDestroyed(t) \/ WrapperTaken(t) \/ FixedDropped(t)
    <2>1. \E kind \in {"instance", "generator", "pool", "device", "surface", "proxy", "fixed"} :
            \E id : live' = Without({kind}, id)
      BY <1>5 DEF InstanceDestroyed, GeneratorDropped, PoolDestroyed, DeviceDestroyed,
                  SurfaceDestroyed, WrapperTaken, FixedDropped
    <2> QED
      BY <1>1, <1>2, <2>1 DEF Without
  <1>6. CASE FixedSetUp(t)
    <2>1. PICK g : g = call[t].new
      OBVIOUS
    <2>2. call[t].op = "create_swapchain" /\ call[t].step = "setup"
      BY <1>6, InsideIs DEF FixedSetUp
    <2>3. live \subseteq live' \/ (live' = Without({"swapchain"}, g) /\ Freed(g))
      BY <1>6, <2>1 DEF FixedSetUp
    <2>4. Holds(call[t], g, "none")
      BY <2>1, <2>2 DEF Holds
    <2> QED
      BY <1>1, <1>2, <2>3, <2>4 DEF Without
  <1>7. CASE SwapchainDestroyed(t)
    <2>1. PICK g : g = call[t].h
      OBVIOUS
    <2>2. Destroys(call[t]) /\ call[t].step = "destroy"
      BY <1>7, InsideIs DEF SwapchainDestroyed, Destroying, Destroys
    <2>3. live' = Without({"swapchain"}, g) /\ Freed(g)
      BY <1>7, <2>1 DEF SwapchainDestroyed
    <2>4. Holds(call[t], g, "none")
      BY <2>1, <2>2 DEF Holds
    <2> QED
      BY <1>1, <1>2, <2>3, <2>4 DEF Without
  <1> QED
    BY <1>3, <1>4, <1>5, <1>6, <1>7, StepFrames, PlayFrames DEF Framed, ChangesLive, driver

(* A swapchain the game has stays its own or goes to a call's hand.         *)
LEMMA GivenStays ==
  ASSUME CallsInv, RulesInv, TablesInv, OnceInv, NEW t \in Threads, Play(t) \/ Step(t) \/ Woken(t),
         NEW h, NEW s, Given(h, s)
  PROVE  Given(h, s)' \/ Has(call[t], h, s)'
  <1>1. h \in DOMAIN chains /\ chains[h].s = s
    BY DEF Given
  <1>2. CASE UNCHANGED chains
    BY <1>1, <1>2 DEF Given
  <1>3. CASE Inserted(t)
    <2>1. chains' = With(chains, call[t].new, [d |-> call[t].d, s |-> call[t].s, retired |-> FALSE])
      BY <1>3 DEF Inserted
    <2>2. call[t].op = "create_swapchain" /\ call[t].step = "insert"
      BY <1>3, InsideIs DEF Inserted
    <2>3. call[t].new # h
      BY <1>1, <2>2 DEF OnceInv, OnceAt, Mine, Holds
    <2> QED
      BY <1>1, <2>1, <2>3 DEF Given, With
  <1>4. CASE CreateSwapchain(t)
    BY <1>1, <1>4, CreationRetires DEF Given
  <1>5. CASE DestroySwapchain(t)
    <2>1. PICK g \in DOMAIN chains :
            /\ call'[t].op = "destroy_swapchain" /\ call'[t].step = "remove" /\ call'[t].h = g
            /\ chains[g].s \in call'[t].alone
            /\ DOMAIN chains' = DOMAIN chains \ {g}
            /\ \A k \in DOMAIN chains' : chains'[k] = chains[k]
      BY <1>5, SwapchainTakes
    <2>2. CASE g = h
      BY <1>1, <2>1, <2>2 DEF Has, Destroys, Claims
    <2>3. CASE g # h
      BY <1>1, <2>1, <2>3 DEF Given
    <2> QED
      BY <2>2, <2>3
  <1>6. CASE DestroyDevice(t)
    <2>1. PICK d \in Devices :
            /\ call'[t].op = "destroy_device" /\ call'[t].step = "remove" /\ call'[t].d = d
            /\ chains[h].d = d => chains[h].s \in call'[t].alone /\ d \in DOMAIN devices
            /\ DOMAIN chains' = {g \in DOMAIN chains : chains[g].d # d}
            /\ \A g \in DOMAIN chains' : chains'[g] = chains[g]
      BY <1>1, <1>6, DeviceTakes
    <2>2. CASE chains[h].d = d
      <3>1. h \in DOMAIN swapchains /\ swapchains[h].d = d
        BY <1>1, <2>1, <2>2 DEF TablesInv, TableAt
      <3>2. swapchains' = swapchains
        BY <1>6, PlayFrames DEF Play, tables
      <3> QED
        BY <1>1, <2>1, <2>2, <3>1, <3>2 DEF Has, LeakedOn
    <2>3. CASE chains[h].d # d
      BY <1>1, <2>1, <2>3 DEF Given
    <2> QED
      BY <2>2, <2>3
  <1> QED
    BY <1>2, <1>3, <1>4, <1>5, <1>6, StepFrames, PlayFrames DEF Framed, ChangesChains

(* A creation keeps what it made in hand until the game has it.             *)
LEMMA MadeStays ==
  ASSUME CallsInv, NEW t \in Threads, Step(t), call[t].op = "create_swapchain",
         call[t].step \in {"setup", "insert"}, NEW h, call[t].new = h, Alive("swapchain", h)',
         NEW s, call[t].s = s
  PROVE  Given(h, s)' \/ Has(call[t], h, s)'
  <1>1. FixedSetUp(t) \/ Inserted(t) \/ Rests(t)
    BY StepCases, WhereIs DEF Where
  <1>2. CASE Rests(t)
    BY <1>2 DEF Rests, Has
  <1>3. CASE Inserted(t)
    <2>1. chains' = With(chains, call[t].new, [d |-> call[t].d, s |-> call[t].s, retired |-> FALSE])
      BY <1>3 DEF Inserted
    <2> QED
      BY <2>1 DEF Given, With
  <1>4. CASE FixedSetUp(t)
    <2>1. Shape(call[t])
      BY <1>4, InsideIs DEF FixedSetUp
    <2>2. Goto(t, "insert") \/ live' = Without({"swapchain"}, h)
      BY <1>4 DEF FixedSetUp
    <2>3. live' # Without({"swapchain"}, h)
      BY DEF Without, Alive
    <2>4. /\ call'[t].op = "create_swapchain" /\ call'[t].s = call[t].s
          /\ call'[t].step = "insert" /\ call'[t].new = h
      BY <2>1, <2>2, <2>3, GotoDoes DEF SameCall, Rest
    <2> QED
      BY <2>4 DEF Has
  <1> QED
    BY <1>1, <1>2, <1>3, <1>4

(* A destruction keeps a swapchain in hand until it is gone.                *)
LEMMA DoomedStays ==
  ASSUME CallsInv, LeftInv, TablesInv, ExactInv, NEW t \in Threads, Step(t), Destroys(call[t]),
         NEW h, Alive("swapchain", h), Alive("swapchain", h)',
         \/ Claims(call[t], h) \/ \E w : Holds(call[t], h, w)
         \/ call[t].op = "destroy_device" /\ call[t].step = "remove" /\ h \in LeakedOn(call[t].d)
  PROVE  /\ Destroys(call'[t]) /\ call'[t].alone = call[t].alone /\ call'[t].d = call[t].d
         /\ \/ Claims(call'[t], h) \/ \E w : Holds(call'[t], h, w)
            \/ call'[t].op = "destroy_device" /\ call'[t].step = "remove" /\ h \in LeakedOn(call[t].d) /\ swapchains' = swapchains
  <1>1. \/ DeviceRemoved(t) \/ GeneratorDropped(t) \/ PoolDestroyed(t) \/ DeviceDestroyed(t)
        \/ SwapchainRemoved(t) \/ WrapperTaken(t) \/ FixedDropped(t) \/ SwapchainDestroyed(t)
        \/ ProxyDestroyed(t) \/ Rests(t)
    BY StepCases DEF Destroys
  <1>2. CASE Rests(t)
    <2>1. call' = call
      BY <1>2 DEF Rests
    <2>2. CASE Claims(call[t], h) \/ \E w : Holds(call[t], h, w)
      BY <2>1, <2>2
    <2>3. CASE call[t].op = "destroy_device" /\ call[t].step = "remove" /\ h \in LeakedOn(call[t].d)
      <3>1. ~SwapchainRemoved(t) /\ ~Inserted(t)
        BY <2>3, WhereIs DEF Where
      <3>2. ~DeviceRemoved(t)
        BY <2>1, <2>3, DeviceRemovedDoes
      <3>3. swapchains' = swapchains
        BY <3>1, <3>2, StepFrames DEF Framed, ChangesSwapchains
      <3> QED
        BY <2>1, <2>3, <3>3 DEF LeakedOn
    <2> QED
      BY <2>1, <2>2, <2>3
  <1>3. CASE DeviceRemoved(t)
    <2>1. /\ call[t].op = "destroy_device" /\ call[t].step = "remove"
      BY <1>3, InsideIs DEF DeviceRemoved
    <2>2. DOMAIN call[t].left = {}
      BY <2>1 DEF LeftInv, Dropping
    <2>3. h \in LeakedOn(call[t].d)
      BY <2>1, <2>2 DEF Claims, Holds, Destroys
    <2>4. call'[t].left = Restrict(swapchains, LeakedOn(call[t].d)) /\ SameCall(t)
      BY <1>3, DeviceRemovedDoes
    <2>5. h \in DOMAIN call'[t].left
      BY <2>3, <2>4 DEF Restrict
    <2> QED
      BY <2>1, <2>4, <2>5 DEF Holds, SameCall, Destroys
  <1>4. CASE SwapchainRemoved(t)
    <2>1. call[t].op = "destroy_swapchain" /\ call[t].step = "remove"
      BY <1>4, InsideIs DEF SwapchainRemoved
    <2>2. DOMAIN call[t].left = {}
      BY <2>1 DEF LeftInv, Dropping
    <2>3. call[t].h = h
      BY <2>1, <2>2 DEF Claims, Holds, Destroys
    <2>4. /\ call'[t].step = IF h \in DOMAIN swapchains THEN "drop" ELSE "destroy"
          /\ call'[t].left = Restrict(swapchains, {h} \cap DOMAIN swapchains)
          /\ call'[t].h = h /\ SameCall(t)
      BY <1>4, <2>3, RemovedDoes
    <2>5. CASE h \in DOMAIN swapchains
      <3>1. h \in DOMAIN call'[t].left
        BY <2>4, <2>5 DEF Restrict
      <3> QED
        BY <2>1, <2>4, <3>1 DEF Holds, SameCall, Destroys
    <2>6. CASE h \notin DOMAIN swapchains
      BY <2>1, <2>4, <2>6 DEF Holds, SameCall, Destroys
    <2> QED
      BY <2>5, <2>6
  <1>5. CASE WrapperTaken(t)
    <2>1. call[t].step = "drop"
      BY <1>5, InsideIs DEF WrapperTaken, Destroying
    <2>2. h \in DOMAIN call[t].left
      BY <2>1 DEF Claims, Holds, Destroys
    <2>3. PICK g : /\ g = call'[t].h /\ g \in DOMAIN call[t].left /\ SameCall(t)
                   /\ call'[t].step = AfterWrapper(call[t].left[g].wrapper)
                   /\ call'[t].left = Restrict(call[t].left, DOMAIN call[t].left \ {g})
      BY <1>5, TakenDoes
    <2>4. CASE g # h
      <3>1. h \in DOMAIN call'[t].left
        BY <2>2, <2>3, <2>4 DEF Restrict
      <3> QED
        BY <2>3, <3>1 DEF Holds, SameCall, Destroys
    <2>5. CASE g = h
      <3>1. Holds(call[t], h, call[t].left[h].wrapper)
        BY <2>2 DEF Holds
      <3>2. call[t].left[h].wrapper # "proxy"
        BY <3>1, HeldAlive
      <3>3. call'[t].step \in {"queue", "destroy"}
        BY <2>3, <2>5, <3>2 DEF AfterWrapper
      <3> QED
        BY <2>3, <2>5, <3>3 DEF Holds, SameCall, Destroys
    <2> QED
      BY <2>4, <2>5
  <1>6. CASE FixedDropped(t)
    <2>1. call[t].step = "queue" /\ Shape(call[t]) /\ Goto(t, "destroy")
      BY <1>6, InsideIs DEF FixedDropped, Destroying
    <2>2. SameCall(t) /\ Rest(t) /\ call'[t].step = "destroy"
      BY <2>1, GotoDoes
    <2>3. h = call[t].h \/ h \in DOMAIN call[t].left
      BY <2>1 DEF Claims, Holds, Destroys
    <2>4. \E w : Holds(call'[t], h, w)
      BY <2>2, <2>3 DEF Holds, SameCall, Rest, Destroys
    <2> QED
      BY <2>2, <2>4 DEF SameCall, Destroys
  <1>7. CASE SwapchainDestroyed(t)
    <2>1. /\ call[t].step = "destroy" /\ Shape(call[t])
          /\ live' = Without({"swapchain"}, call[t].h)
          /\ call[t].op = "destroy_device" => Goto(t, "drop")
      BY <1>7, InsideIs DEF SwapchainDestroyed, Destroying
    <2>2. call[t].h # h
      BY <2>1 DEF Without, Alive
    <2>3. h \in DOMAIN call[t].left
      BY <2>1, <2>2 DEF Claims, Holds, Destroys
    <2>4. call[t].op = "destroy_device"
      BY <2>1, <2>3 DEF LeftInv, Destroys
    <2>5. SameCall(t) /\ Rest(t)
      BY <2>1, <2>4, GotoDoes
    <2>6. \E w : Holds(call'[t], h, w)
      BY <2>3, <2>5 DEF Holds, Rest
    <2> QED
      BY <2>5, <2>6 DEF SameCall, Destroys
  <1>8. CASE GeneratorDropped(t) \/ ProxyDestroyed(t)
    <2>1. call[t].step = "drop" /\ DOMAIN call[t].left = {}
      BY <1>8, InsideIs DEF GeneratorDropped, ProxyDestroyed
    <2> QED
      BY <2>1 DEF Claims, Holds, Destroys
  <1>9. CASE PoolDestroyed(t) \/ DeviceDestroyed(t)
    <2>1. call[t].step \in {"pool", "device"}
      BY <1>9, InsideIs DEF PoolDestroyed, DeviceDestroyed
    <2>2. DOMAIN call[t].left = {}
      BY <2>1 DEF LeftInv, Dropping
    <2> QED
      BY <2>1, <2>2 DEF Claims, Holds, Destroys
  <1> QED
    BY <1>1, <1>2, <1>3, <1>4, <1>5, <1>6, <1>7, <1>8, <1>9

(* One in a call's hand stays there or goes to the game while it lives.     *)
LEMMA OwnStays ==
  ASSUME CallsInv, RulesInv, LeftInv, TablesInv, OnceInv, ExactInv, NEW t \in Threads, Play(t) \/ Step(t) \/ Woken(t),
         NEW h, NEW s, Has(call[t], h, s), Alive("swapchain", h), Alive("swapchain", h)'
  PROVE  Given(h, s)' \/ Has(call[t], h, s)'
  <1>1. CASE Play(t) \/ Woken(t)
    <2>1. call[t] # Idle
      BY IdleFields, IdleHolds DEF Has
    <2>2. Rests(t)
      BY <1>1, <2>1, PlaySkeleton DEF Begins
    <2>3. call' = call /\ swapchains' = swapchains
      BY <1>1, <2>2, PlayFrames DEF Rests, tables
    <2> QED
      BY <2>3 DEF Has, LeakedOn
  <1>2. CASE Step(t)
    <2>1. CASE call[t].op = "create_swapchain"
      BY <1>2, <2>1, MadeStays DEF Has, Destroys
    <2>2. CASE call[t].op # "create_swapchain"
      <3>1. Destroys(call[t]) /\ s \in call[t].alone
        BY <2>2 DEF Has, Destroys
      <3>2. /\ Destroys(call'[t]) /\ call'[t].alone = call[t].alone /\ call'[t].d = call[t].d
            /\ \/ Claims(call'[t], h) \/ \E w : Holds(call'[t], h, w)
               \/ call'[t].op = "destroy_device" /\ call'[t].step = "remove" /\ h \in LeakedOn(call[t].d) /\ swapchains' = swapchains
        BY <1>2, <2>2, <3>1, DoomedStays DEF Has
      <3> QED
        BY <3>1, <3>2 DEF Has, LeakedOn
    <2> QED
      BY <2>1, <2>2
  <1> QED
    BY <1>1, <1>2

(* What the driver makes of a creation, asked as it may be: a swapchain of a*)
(* free handle, in hand from then on; or none, and the surface has none.    *)
LEMMA DriverDoes ==
  ASSUME CallsInv, RulesInv, ActiveInv, NEW t \in Threads, FixedCreated(t) \/ Unwrapped(t), Creating(call[t])
  PROVE  /\ UNCHANGED illegal /\ call[t].op = "create_swapchain" /\ call[t].s \in Surfaces
         /\ \/ \E h : /\ active' = [active EXCEPT ![call[t].s] = h]
                      /\ Object("swapchain", h, call[t].d) \in live'
                      /\ SameCall(t) /\ call'[t].step \in {"setup", "insert"} /\ call'[t].new = h
            \/ /\ active' = [active EXCEPT ![call[t].s] = None]
               /\ call'[t] = Idle \/ (SameCall(t) /\ call'[t].step = "native")
  <1>1. PICK s : s = call[t].s
    OBVIOUS
  <1>2. /\ Shape(call[t]) /\ call[t].op = "create_swapchain" /\ call[t].step \in {"plain", "fixed", "native"}
        /\ FixedCreated(t) => call[t].step = "fixed"
        /\ Unwrapped(t) => call[t].step # "fixed"
    <2>1. CASE FixedCreated(t)
      <3>1. Shape(call[t]) /\ call[t].op = "create_swapchain" /\ call[t].step = "fixed"
        BY <2>1, InsideIs DEF FixedCreated
      <3>2. ~Unwrapped(t)
        BY <3>1, WhereIs DEF Where
      <3> QED
        BY <3>1, <3>2
    <2>2. CASE Unwrapped(t)
      <3>1. Shape(call[t]) /\ call[t].op = "create_swapchain" /\ call[t].step \in {"plain", "native"}
        BY <2>2, InsideIs DEF Unwrapped
      <3>2. ~FixedCreated(t)
        BY <3>1, WhereIs DEF Where
      <3> QED
        BY <3>1, <3>2
    <2> QED
      BY <2>1, <2>2
  <1>3. PICK old : old = IF call[t].step \in {"plain", "fixed"} THEN call[t].old ELSE None
    OBVIOUS
  <1>4. active[s] = old
    BY <1>1, <1>2, <1>3 DEF Creating
  <1>5. s \in Surfaces /\ ActiveAt(s)
    BY <1>1, <1>2 DEF RulesInv, UsesRight, ActiveInv
  <1>6. old # None => Alive("swapchain", old)
    BY <1>4, <1>5 DEF ActiveAt
  <1> DEFINE misuse == {m \in {"no such old", "old is retired", "surface in use"} :
                          \/ m = "no such old" /\ old # None /\ ~Alive("swapchain", old)
                          \/ m = "old is retired" /\ old # None /\ Alive("swapchain", old) /\ active[s] # old
                          \/ m = "surface in use" /\ active[s] \notin {None, old}}
  <1>7. /\ illegal' = illegal \cup misuse
        /\ \/ \E h : Makes(t, h) /\ (Getting(t, h, "fixed", "setup") \/ Getting(t, h, "none", "insert"))
           \/ /\ active' = [active EXCEPT ![s] = IF @ = old THEN None ELSE @]
              /\ Goto(t, "native") \/ Return(t)
    <2>1. CASE FixedCreated(t)
      <3>1. old = call[t].old
        BY <1>2, <1>3, <2>1
      <3> QED
        BY <1>1, <2>1, <3>1 DEF FixedCreated, Driver
    <2>2. CASE Unwrapped(t)
      <3>1. old = IF call[t].step = "plain" THEN call[t].old ELSE None
        BY <1>2, <1>3, <2>2
      <3> QED
        BY <1>1, <2>2, <3>1 DEF Unwrapped, Driver
    <2> QED
      BY <2>1, <2>2
  <1>8. misuse = {}
    BY <1>4, <1>6
  <1> HIDE DEF misuse
  <1>9. illegal' = illegal
    BY <1>7, <1>8
  <1>10. CASE \E h : Makes(t, h) /\ (Getting(t, h, "fixed", "setup") \/ Getting(t, h, "none", "insert"))
    <2>1. PICK h : Makes(t, h) /\ (Getting(t, h, "fixed", "setup") \/ Getting(t, h, "none", "insert"))
      BY <1>10
    <2>2. SameCall(t) /\ call'[t].step \in {"setup", "insert"} /\ call'[t].new = h
      BY <1>2, <2>1, GettingDoes
    <2>3. /\ active' = [active EXCEPT ![s] = h]
          /\ Object("swapchain", h, call[t].d) \in live'
      BY <1>1, <2>1 DEF Makes
    <2> QED
      BY <1>1, <1>2, <1>5, <1>9, <2>2, <2>3
  <1>11. CASE /\ active' = [active EXCEPT ![s] = IF @ = old THEN None ELSE @]
              /\ Goto(t, "native") \/ Return(t)
    <2>1. Goto(t, "native") => SameCall(t) /\ call'[t].step = "native"
      BY <1>2, GotoDoes
    <2>2. Return(t) => call'[t] = Idle
      BY EndDoes DEF Return
    <2>3. active' = [active EXCEPT ![s] = None]
      BY <1>4, <1>11
    <2> QED
      BY <1>1, <1>2, <1>5, <1>9, <1>11, <2>1, <2>2, <2>3
  <1> QED
    BY <1>7, <1>10, <1>11

(* What a surface has stays the driver's and the game's, or in hand.        *)
LEMMA ActiveKept ==
  ASSUME CallsInv, RulesInv, LeftInv, TablesInv, OnceInv, ExactInv, ActiveInv,
         NEW t \in Threads, Play(t) \/ Step(t) \/ Woken(t), Creating(call[t]), NEW s \in Surfaces
  PROVE  ActiveAt(s)'
  <1>1. active = [r \in Surfaces |-> active[r]] /\ ActiveAt(s)
    BY DEF ActiveInv
  <1>2. CASE active'[s] = None
    BY <1>2 DEF ActiveAt
  <1>3. CASE active'[s] = active[s] /\ active[s] # None
    <2>1. PICK h : h = active[s]
      OBVIOUS
    <2>2. Alive("swapchain", h) /\ (Given(h, s) \/ \E u \in Threads : Has(call[u], h, s))
      BY <1>1, <1>3, <2>1 DEF ActiveAt
    <2>3. ~Freed(h)
      BY <1>3, <2>1 DEF Freed
    <2>4. Alive("swapchain", h)'
      BY <2>2, <2>3, AliveStays
    <2>5. Given(h, s)' \/ \E u \in Threads : Has(call[u], h, s)'
      <3>1. CASE Given(h, s)
        BY <3>1, GivenStays
      <3>2. CASE Has(call[t], h, s)
        BY <2>2, <2>4, <3>2, OwnStays
      <3>3. ASSUME NEW u \in Threads, u # t, Has(call[u], h, s)
            PROVE  Has(call[u], h, s)'
        BY <3>3, HasStays
      <3> QED
        BY <2>2, <3>1, <3>2, <3>3
    <2>6. active'[s] = h
      BY <1>3, <2>1
    <2> QED
      BY <2>4, <2>5, <2>6 DEF ActiveAt
  <1>4. CASE active'[s] # None /\ active'[s] # active[s]
    <2>1. FixedCreated(t) \/ Unwrapped(t)
      <3>1. ASSUME NEW h, Freed(h)
            PROVE  FALSE
        BY <1>1, <1>4, <3>1 DEF Freed
      <3> QED
        BY <1>4, <3>1, StepFrames, PlayFrames DEF Framed, ChangesActive, FixedSetUp, SwapchainDestroyed
    <2>2. PICK h : /\ active' = [active EXCEPT ![call[t].s] = h]
                   /\ Object("swapchain", h, call[t].d) \in live'
                   /\ SameCall(t) /\ call'[t].step \in {"setup", "insert"} /\ call'[t].new = h
      BY <1>1, <1>4, <2>1, DriverDoes
    <2>3. call[t].op = "create_swapchain"
      BY <2>1, DriverDoes
    <2>4. s = call[t].s /\ active'[s] = h
      BY <1>1, <1>4, <2>2
    <2>5. Alive("swapchain", h)'
      BY <2>2, ObjectIs DEF Alive
    <2>6. Has(call[t], h, s)'
      BY <2>2, <2>3, <2>4 DEF Has, SameCall
    <2> QED
      BY <2>4, <2>5, <2>6 DEF ActiveAt
  <1> QED
    BY <1>2, <1>3, <1>4

(* The newest swapchain of a surface is the one it has, proxies aside.      *)
LEMMA NewestKept ==
  ASSUME CallsInv, RulesInv, LeftInv, HookedInv, TablesInv, OnceInv, ActiveInv,
         NEW t \in Threads, Play(t) \/ Step(t) \/ Woken(t), Creating(call[t])
  PROVE  NewestActive'
  <1> SUFFICES ASSUME NEW h \in DOMAIN chains', ~chains'[h].retired, ~IsProxy(h)'
               PROVE  active'[chains'[h].s] = h
    BY DEF NewestActive
  <1>1. CASE Inserted(t) /\ h = call[t].new /\ chains'[h].s = call[t].s
    <2>1. call[t].op = "create_swapchain" /\ call[t].step = "insert" /\ active' = active
      BY <1>1, InsideIs DEF Inserted, driver
    <2>2. call[t].wrapper # "proxy"
      <3>1. SUFFICES ASSUME call[t].wrapper = "proxy"
                     PROVE  FALSE
        OBVIOUS
      <3>2. Hooked(call[t].d)
        BY <2>1, <3>1 DEF HookedInv, NeedsHook
      <3>3. swapchains' = With(swapchains, h, [d |-> call[t].d, wrapper |-> "proxy"])
        BY <1>1, <3>1, <3>2 DEF Inserted, Hooked
      <3>4. IsProxy(h)'
        BY <3>3 DEF IsProxy, With
      <3> QED
        BY <3>4
    <2>3. active[call[t].s] = h
      BY <1>1, <2>1, <2>2 DEF Creating
    <2> QED
      BY <1>1, <2>1, <2>3
  <1>2. CASE h \in DOMAIN chains /\ chains'[h].s = chains[h].s /\ ~chains[h].retired
    <2>1. PICK s : s = chains[h].s /\ s \in Surfaces
      BY <1>2 DEF RulesInv, ChainsInv
    <2>2. ~IsProxy(h)
      BY <1>2, LookupStays
    <2>3. active[s] = h
      BY <1>2, <2>1, <2>2 DEF ActiveInv, NewestActive
    <2>4. CASE call[t].op = "create_swapchain" /\ \E x : active' = [active EXCEPT ![call[t].s] = x]
      <3>1. call[t].s # s
        BY <1>2, <2>1, <2>4 DEF Creating
      <3> QED
        BY <1>2, <2>1, <2>3, <2>4, <3>1 DEF ActiveInv
    <2>5. ASSUME NEW g, Freed(g), Holds(call[t], g, "none")
          PROVE  active'[s] = h
      <3>1. g \notin DOMAIN chains
        BY <2>5 DEF OnceInv, OnceAt, Mine
      <3> QED
        BY <1>2, <2>1, <2>3, <2>5, <3>1 DEF Freed
    <2> QED
      BY <1>2, <2>1, <2>3, <2>4, <2>5, ActiveChanges
  <1> QED
    BY <1>1, <1>2, ChainsComeFrom

(* The active swapchain of a surface is the game's or a call's at hand.     *)
LEMMA ActiveInvKept ==
  ASSUME CallsInv, RulesInv, LeftInv, HookedInv, TablesInv, OnceInv, ExactInv, ActiveInv,
         NEW t \in Threads, Play(t) \/ Step(t) \/ Woken(t), Creating(call[t])
  PROVE  ActiveInv'
  <1>1. active' = [s \in Surfaces |-> active'[s]]
    BY ActiveChanges DEF ActiveInv, Freed
  <1>2. \A s \in Surfaces : ActiveAt(s)'
    BY ActiveKept
  <1> QED
    BY <1>1, <1>2, NewestKept DEF ActiveInv

(* What a creation knows of its surface, while others make their steps.     *)
LEMMA CreatingOthers ==
  ASSUME CallsInv, RulesInv, LeftInv, TablesInv, OnceInv, ActiveInv,
         NEW t \in Threads, Play(t) \/ Step(t) \/ Woken(t), NEW u \in Threads, u # t, Creating(call[u])
  PROVE  Creating(call[u])'
  <1>1. PICK c : c = call[u] /\ c = call'[u]
    BY OthersStay DEF Others
  <1> SUFFICES ASSUME c.op = "create_swapchain"
               PROVE  Creating(call[u])'
    BY <1>1 DEF Creating
  <1>2. c.s \in c.alone
    BY <1>1 DEF RulesInv, UsesRight
  <1>3. \A h \in DOMAIN chains' : chains'[h].s = c.s => chains'[h].retired
    <2> SUFFICES ASSUME NEW h \in DOMAIN chains', chains'[h].s = c.s
                 PROVE  chains'[h].retired
      OBVIOUS
    <2>1. ASSUME Inserted(t)
          PROVE  call[t].s # c.s
      <3>1. call[t].op = "create_swapchain"
        BY <2>1, InsideIs DEF Inserted
      <3>2. call[t].s \in call[t].alone
        BY <3>1 DEF RulesInv, UsesRight
      <3> QED
        BY <1>1, <1>2, <3>2, AloneIs DEF RulesInv
    <2>2. h \in DOMAIN chains /\ chains'[h].s = chains[h].s /\ (chains[h].retired => chains'[h].retired)
      BY <2>1, ChainsComeFrom
    <2> QED
      BY <1>1, <2>2 DEF Creating
  <1>4. active'[c.s] = active[c.s]
    <2>1. call[u].op = "create_swapchain"
      BY <1>1
    <2>2. active'[call[u].s] = active[call[u].s]
      BY <2>1, ActiveStays
    <2> QED
      BY <1>1, <2>2
  <1>5. c.step = "choose" /\ c.old # None =>
          /\ c.old \in DOMAIN chains' /\ chains'[c.old].d = c.d /\ c.old \in c.alone
          /\ IsProxy(c.old)' <=> IsProxy(c.old)
    <2> SUFFICES ASSUME c.step = "choose", c.old # None
                 PROVE  /\ c.old \in DOMAIN chains' /\ chains'[c.old].d = c.d /\ c.old \in c.alone
                        /\ IsProxy(c.old)' <=> IsProxy(c.old)
      OBVIOUS
    <2>1. c.old \in DOMAIN chains /\ chains[c.old].d = c.d /\ c.old \in c.alone
      BY <1>1 DEF Creating
    <2> QED
      BY <1>1, <2>1, ChainStays, LookupStays
  <1>6. c.step = "choose" => Named(c.old)' = Named(c.old)
    BY <1>5 DEF Named
  <1>7. /\ c.step = "choose" => active'[c.s] = Named(c.old)'
        /\ c.step \in {"plain", "fixed", "proxy"} => active'[c.s] = c.old
        /\ c.step \in {"native", "undo"} => active'[c.s] = None
        /\ c.step = "setup" => active'[c.s] = c.new
        /\ c.step = "insert" /\ c.wrapper # "proxy" => active'[c.s] = c.new
    BY <1>1, <1>4, <1>6 DEF Creating
  <1> QED
    BY <1>1, <1>3, <1>5, <1>7 DEF Creating

(* When one begins: the game has no swapchain of the surface but the old    *)
(* one, and nobody else has one of it in hand.                              *)
LEMMA CreatingBegins ==
  ASSUME CallsInv, RulesInv, ExactInv, ActiveInv, ~Defers, NEW t \in Threads, CreateSwapchain(t)
  PROVE  Creating(call[t])'
  <1>1. PICK s, old, d : /\ s = call'[t].s /\ old = call'[t].old /\ d = call'[t].d
    OBVIOUS
  <1>2. /\ Begins(t) /\ call'[t].op = "create_swapchain" /\ call'[t].step = "choose"
        /\ s \in Surfaces
        /\ call'[t].alone = {s} \cup ({old} \ {None})
        /\ old = None \/ (old \in DOMAIN chains /\ chains[old].s = s /\ chains[old].d = d /\ ~chains[old].retired)
        /\ \A h \in DOMAIN chains : chains[h].s = s /\ h # old => Defers /\ chains[h].retired
        /\ active' = active /\ swapchains' = swapchains
    BY <1>1, CreateSwapchainDoes DEF driver, tables
  <1>3. \A h \in DOMAIN chains' : chains'[h].s = s => chains'[h].retired
    BY <1>1, <1>2, CreationRetires
  <1>4. old # None => old \in DOMAIN chains' /\ chains'[old].d = d /\ old \in call'[t].alone
    BY <1>1, <1>2, CreationRetires
  <1>5. active[s] = Named(old)
    <2>1. CASE old # None /\ ~IsProxy(old)
      BY <1>2, <2>1 DEF ActiveInv, NewestActive, Named
    <2>2. CASE old = None \/ IsProxy(old)
      <3> SUFFICES ASSUME active[s] # None
                   PROVE  FALSE
        BY <2>2 DEF Named
      <3>1. PICK g : g = active[s]
        OBVIOUS
      <3>2. Alive("swapchain", g) /\ (Given(g, s) \/ \E u \in Threads : Has(call[u], g, s))
        BY <1>2, <3>1 DEF ActiveInv, ActiveAt
      <3>3. CASE Given(g, s)
        <4>1. ~IsProxy(g)
          BY <3>2, <3>3, GameAlive DEF Given
        <4> QED
          BY <1>2, <2>2, <3>1, <3>3, <4>1 DEF Given
      <3>4. ASSUME NEW u \in Threads, Has(call[u], g, s)
            PROVE  FALSE
        <4>1. s \in call[u].alone
          BY <3>4 DEF Has, RulesInv, UsesRight
        <4>2. u \in Busy
          BY <4>1, IdleFields DEF Busy
        <4> QED
          BY <1>2, <4>1, <4>2 DEF Begins, Conflict
      <3> QED
        BY <3>2, <3>3, <3>4
    <2> QED
      BY <2>1, <2>2
  <1>6. PICK named : named = Named(old)
    OBVIOUS
  <1>7. active'[s] = named /\ Named(old)' = named
    BY <1>1, <1>2, <1>5, <1>6 DEF Named, IsProxy
  <1>8. active'[call'[t].s] = Named(call[t].old)'
    BY <1>1, <1>7 DEF Named, IsProxy
  <1> QED
    BY <1>1, <1>2, <1>3, <1>4, <1>8 DEF Creating

(* The steps of a creation.                                                 *)
LEMMA CreationSteps ==
  ASSUME CallsInv, NEW t \in Threads, Step(t), call[t].op = "create_swapchain"
  PROVE  \/ Locking(t) \/ Chosen(t) \/ ProxyTried(t) \/ FixedCreated(t) \/ FixedSetUp(t)
         \/ FixedUndone(t) \/ Unwrapped(t) \/ Inserted(t)
  BY WhereIs DEF Step, Where

(* And at its own steps.                                                    *)
LEMMA CreatingSteps ==
  ASSUME CallsInv, RulesInv, TablesInv, ActiveInv, NEW t \in Threads, Step(t), Creating(call[t]),
         call[t].op = "create_swapchain"
  PROVE  Creating(call[t])'
  <1>1. PICK s, old, new : s = call[t].s /\ old = call[t].old /\ new = call[t].new
    OBVIOUS
  <1>2. /\ s \in Surfaces /\ active = [r \in Surfaces |-> active[r]]
        /\ \A h \in DOMAIN chains : chains[h].s = s => chains[h].retired
    BY <1>1 DEF RulesInv, UsesRight, ActiveInv, Creating
  <1>3. CASE Locking(t)
    <2>1. UNCHANGED <<active, swapchains, chains, call>>
      BY <1>3 DEF Locking, driver, tables, game
    <2> QED
      BY <2>1 DEF Creating, Named, IsProxy
  <1>4. CASE Inserted(t)
    <2>1. call' = [call EXCEPT ![t] = Idle]
      BY <1>4 DEF Inserted, Return
    <2> QED
      BY <2>1, EndDoes, IdleFields DEF Creating
  <1>5. CASE Chosen(t)
    <2>1. /\ call[t].step = "choose" /\ active' = active /\ chains' = chains
      BY <1>5, InsideIs DEF Chosen, driver, game
    <2>2. /\ SameCall(t) /\ call'[t].step \in {"plain", "fixed", "proxy"}
          /\ call'[t].old = IF call[t].d \in DOMAIN devices THEN Named(old) ELSE old
      BY <1>1, <1>5, ChosenDoes
    <2>3. active[s] = Named(old)
      BY <1>1, <2>1 DEF Creating
    <2>4. call[t].d \notin DOMAIN devices => Named(old) = old
      <3> SUFFICES ASSUME old # None, IsProxy(old)
                   PROVE  call[t].d \in DOMAIN devices
        BY DEF Named
      <3>1. old \in DOMAIN chains /\ chains[old].d = call[t].d
        BY <1>1, <2>1 DEF Creating
      <3> QED
        BY <3>1 DEF IsProxy, TablesInv, TableAt
    <2>5. active'[s] = call'[t].old
      BY <2>1, <2>2, <2>3, <2>4
    <2> QED
      BY <1>1, <1>2, <2>1, <2>2, <2>5 DEF Creating, SameCall
  <1>6. CASE ProxyTried(t)
    <2>1. /\ call[t].step = "proxy" /\ Shape(call[t]) /\ active' = active /\ chains' = chains
      BY <1>6, InsideIs DEF ProxyTried, game
    <2>2. (\E h : Getting(t, h, "proxy", "insert")) \/ Goto(t, "fixed")
      BY <1>6 DEF ProxyTried
    <2>3. \/ SameCall(t) /\ call'[t].step = "insert" /\ call'[t].wrapper = "proxy"
          \/ SameCall(t) /\ call'[t].step = "fixed" /\ call'[t].old = old
      BY <1>1, <2>1, <2>2, GettingDoes, GotoDoes DEF Rest
    <2>4. active[s] = old
      BY <1>1, <2>1 DEF Creating
    <2> QED
      BY <1>1, <1>2, <2>1, <2>3, <2>4 DEF Creating, SameCall
  <1>7. CASE FixedCreated(t) \/ Unwrapped(t)
    <2>1. chains' = chains
      BY <1>7 DEF FixedCreated, Unwrapped, game
    <2>2. CASE call'[t] = Idle
      BY <2>2, IdleFields DEF Creating
    <2>3. CASE active' = [active EXCEPT ![call[t].s] = None] /\ SameCall(t) /\ call'[t].step = "native"
      <3>1. active'[s] = None
        BY <1>1, <1>2, <2>3
      <3> QED
        BY <1>1, <1>2, <2>1, <2>3, <3>1 DEF Creating, SameCall
    <2>4. ASSUME NEW h, active' = [active EXCEPT ![call[t].s] = h], SameCall(t),
                 call'[t].step \in {"setup", "insert"}, call'[t].new = h
          PROVE  Creating(call[t])'
      <3>1. active'[s] = call'[t].new
        BY <1>1, <1>2, <2>4
      <3> QED
        BY <1>1, <1>2, <2>1, <2>4, <3>1 DEF Creating, SameCall
    <2> QED
      BY <1>7, <2>2, <2>3, <2>4, DriverDoes
  <1>8. CASE FixedSetUp(t)
    <2>1. /\ call[t].step = "setup" /\ Shape(call[t]) /\ chains' = chains
      BY <1>8, InsideIs DEF FixedSetUp, game
    <2>2. active[s] = new
      BY <1>1, <2>1 DEF Creating
    <2>3. \/ Goto(t, "insert") /\ active' = active
          \/ Freed(new) /\ Getting(t, None, "none", "undo")
      BY <1>1, <1>8 DEF FixedSetUp
    <2>4. \/ SameCall(t) /\ call'[t].step = "insert" /\ call'[t].new = new /\ active'[s] = new
          \/ SameCall(t) /\ call'[t].step = "undo" /\ active'[s] = None
      <3>1. CASE Goto(t, "insert") /\ active' = active
        BY <1>1, <2>1, <2>2, <3>1, GotoDoes DEF Rest
      <3>2. CASE Freed(new) /\ Getting(t, None, "none", "undo")
        <4>1. active'[s] = None
          BY <1>2, <2>2, <3>2 DEF Freed
        <4> QED
          BY <2>1, <3>2, <4>1, GettingDoes
      <3> QED
        BY <2>3, <3>1, <3>2
    <2> QED
      BY <1>1, <1>2, <2>1, <2>4 DEF Creating, SameCall
  <1>9. CASE FixedUndone(t)
    <2>1. /\ call[t].step = "undo" /\ Shape(call[t]) /\ chains' = chains /\ active' = active /\ Goto(t, "native")
      BY <1>9, InsideIs DEF FixedUndone, game, driver
    <2>2. active[s] = None
      BY <1>1, <2>1 DEF Creating
    <2>3. SameCall(t) /\ call'[t].step = "native"
      BY <2>1, GotoDoes
    <2> QED
      BY <1>1, <1>2, <2>1, <2>2, <2>3 DEF Creating, SameCall
  <1> QED
    BY <1>3, <1>4, <1>5, <1>6, <1>7, <1>8, <1>9, CreationSteps

(* What a creation knows of its surface stays true beside any other call.   *)
LEMMA CreatingKept ==
  ASSUME LayerInv, ActiveInv, ~Defers, NEW t \in Threads, Play(t) \/ Step(t) \/ Woken(t),
         NEW u \in Threads, Creating(call[u])
  PROVE  Creating(call[u])'
  <1>1. CallsInv /\ RulesInv /\ LeftInv /\ TablesInv /\ OnceInv /\ ExactInv
    BY DEF LayerInv, Accounts
  <1>2. CASE u # t
    BY <1>1, <1>2, CreatingOthers
  <1>3. CASE u = t /\ Step(t)
    <2>1. CASE call[t].op = "create_swapchain"
      BY <1>1, <1>3, <2>1, CreatingSteps
    <2>2. CASE call[t].op # "create_swapchain"
      <3>1. call'[t].op # "create_swapchain"
        BY <1>1, <1>3, <2>2, StepCases, IdleFields DEF Rests, Moves, Ends, SameCall
      <3> QED
        BY <1>3, <3>1 DEF Creating
    <2> QED
      BY <2>1, <2>2
  <1>4. CASE u = t /\ (Play(t) \/ Woken(t))
    <2>1. CASE CreateSwapchain(t)
      BY <1>1, <1>4, <2>1, CreatingBegins
    <2>2. CASE Ask(t) \/ Woken(t)
      <3>1. UNCHANGED <<active, swapchains, chains, call>>
        BY <2>2 DEF Ask, Woken, driver, tables, game
      <3> QED
        BY <1>4, <3>1 DEF Creating, Named, IsProxy
    <2>3. CASE ~CreateSwapchain(t) /\ ~Ask(t) /\ ~Woken(t)
      <3>1. call'[t].op # "create_swapchain"
        BY <1>1, <1>4, <2>3, CreateInstanceDoes, DestroyInstanceDoes, CreateDeviceDoes, DestroyDeviceDoes,
           CreateSurfaceDoes, DestroySurfaceDoes, DestroySwapchainDoes, PresentDoes, AcquireDoes,
           SubmitDoes DEF Play
      <3> QED
        BY <1>4, <3>1 DEF Creating
    <2> QED
      BY <2>1, <2>2, <2>3
  <1> QED
    BY <1>2, <1>3, <1>4

(* What a present or an acquire looked up before it waited for the lock is  *)
(* still so when it has it.                                                 *)
LEMMA AskingOthers ==
  ASSUME CallsInv, RulesInv, TablesInv, OnceInv, NEW t \in Threads, Play(t) \/ Step(t) \/ Woken(t),
         NEW u \in Threads, call'[u] = call[u], Asking(u)
  PROVE  Asking(u)'
  <1>1. PICK c : c = call[u]
    OBVIOUS
  <1>2. c.op \in {"present", "acquire"} => \A h \in c.hs : h \in DOMAIN chains
    BY <1>1 DEF RulesInv, UsesRight
  <1>3. c.op \in {"present", "acquire"} =>
          \A h \in c.hs : (IsProxy(h)' <=> IsProxy(h)) /\ Lookup(h)' = Lookup(h)
    BY <1>2, LookupStays
  <1>4. c.op \in {"present", "acquire"} => \E h \in c.hs : c.wrapper = Lookup(h).wrapper
    BY <1>1 DEF Asking
  <1>5. c.op \in {"present", "acquire"} => \E h \in c.hs : c.wrapper = Lookup(h)'.wrapper
    BY <1>3, <1>4
  <1>6. c.op = "present" /\ c.step = "queue" => ~Invalidates(u)
    BY <1>1 DEF Asking
  <1>7. c.op = "present" => (Invalidates(u)' <=> Invalidates(u))
    BY <1>1, <1>3 DEF Invalidates, Several
  <1> QED
    BY <1>1, <1>5, <1>6, <1>7 DEF Asking

(* A present or an acquire goes on with what it looked up.                  *)
LEMMA AskingSteps ==
  ASSUME CallsInv, NEW t \in Threads, Step(t), ~Rests(t), Asking(t), call[t].op \in {"present", "acquire"}
  PROVE  Asking(t)'
  <1>1. CASE call'[t] = Idle
    BY <1>1, IdleFields DEF Asking
  <1>2. CASE PresentLocked(t)
    <2>1. Shape(call[t]) /\ ~Invalidates(t) /\ LockQueue(t) /\ swapchains' = swapchains
      BY <1>2, InsideIs DEF PresentLocked, tables
    <2>2. SameCall(t) /\ Rest(t)
      BY <2>1, LockQueueDoes
    <2> QED
      BY <2>1, <2>2 DEF Asking, SameCall, Rest, Invalidates, Several, IsProxy, Lookup
  <1>3. CASE Acquired(t) /\ LockQueue(t)
    <2>1. Shape(call[t]) /\ call[t].op = "acquire" /\ swapchains' = swapchains
      BY <1>3, AtIs DEF Acquired, tables
    <2>2. SameCall(t) /\ Rest(t)
      BY <1>3, <2>1, LockQueueDoes
    <2> QED
      BY <2>1, <2>2 DEF Asking, SameCall, Rest, Lookup
  <1>7. CASE PresentForwarded(t)
    <2>1. Shape(call[t]) /\ Goto(t, "forward") /\ swapchains' = swapchains
      BY <1>7, InsideIs DEF PresentForwarded, tables
    <2>2. SameCall(t) /\ Rest(t) /\ call'[t].step = "forward"
      BY <2>1, GotoDoes
    <2> QED
      BY <2>1, <2>2 DEF Asking, SameCall, Rest, Lookup
  <1>4. PresentInvalidated(t) \/ ForwardDone(t) \/ PresentDone(t) \/ QueueDone(t) => call'[t] = Idle
    BY EndDoes DEF PresentInvalidated, ForwardDone, PresentDone, QueueDone, Return, Leave
  <1>5. Acquired(t) => LockQueue(t) \/ Leave(t)
    BY DEF Acquired
  <1>6. Leave(t) => call'[t] = Idle
    BY EndDoes DEF Leave
  <1> QED
    BY <1>1, <1>2, <1>3, <1>4, <1>5, <1>6, <1>7, StepCases

(* What it looked up stays true beside any other call.                      *)
LEMMA AskingKept ==
  ASSUME LayerInv, NEW t \in Threads, Play(t) \/ Step(t) \/ Woken(t), NEW u \in Threads, Asking(u)
  PROVE  Asking(u)'
  <1>1. CallsInv /\ RulesInv /\ TablesInv /\ OnceInv
    BY DEF LayerInv, Accounts
  <1>2. CASE call'[u] = call[u]
    BY <1>1, <1>2, AskingOthers
  <1>3. CASE u # t
    BY <1>1, <1>2, <1>3, OthersStay DEF Others
  <1>4. CASE u = t /\ Step(t)
    <2>1. CASE Rests(t)
      BY <1>2, <2>1 DEF Rests
    <2>2. CASE ~Rests(t) /\ call[t].op \in {"present", "acquire"}
      BY <1>1, <1>4, <2>2, AskingSteps
    <2>3. CASE ~Rests(t) /\ call[t].op \notin {"present", "acquire"}
      <3>1. call'[t].op \notin {"present", "acquire"}
        BY <1>1, <1>4, <2>3, StepCases, IdleFields DEF Moves, Ends, SameCall
      <3> QED
        BY <1>4, <3>1 DEF Asking
    <2> QED
      BY <2>1, <2>2, <2>3
  <1>5. CASE u = t /\ Present(t)
    <2>1. /\ call'[t].step = "route" /\ swapchains' = swapchains
          /\ \E h \in call'[t].hs : call'[t].wrapper = Lookup(h).wrapper
      BY <1>1, <1>5, PresentDoes DEF tables
    <2> QED
      BY <1>5, <2>1 DEF Asking, Lookup
  <1>6. CASE u = t /\ Acquire(t)
    <2>1. /\ call'[t].op = "acquire" /\ swapchains' = swapchains
          /\ \E h : call'[t].hs = {h} /\ call'[t].wrapper = Lookup(h).wrapper
      BY <1>1, <1>6, AcquireDoes DEF tables
    <2> QED
      BY <1>6, <2>1 DEF Asking, Lookup
  <1>7. CASE Ask(t) \/ Woken(t)
    BY <1>2, <1>7 DEF Ask, Woken
  <1>8. CASE u = t /\ Play(t) /\ ~Present(t) /\ ~Acquire(t) /\ ~Ask(t)
    <2>1. call'[t].op \notin {"present", "acquire"}
      BY <1>1, <1>8, CreateInstanceDoes, DestroyInstanceDoes, CreateDeviceDoes, DestroyDeviceDoes,
         CreateSurfaceDoes, DestroySurfaceDoes, CreateSwapchainDoes, DestroySwapchainDoes,
         SubmitDoes DEF Play
    <2> QED
      BY <1>8, <2>1 DEF Asking
  <1> QED
    BY <1>3, <1>4, <1>5, <1>6, <1>7, <1>8

-----------------------------------------------------------------------------
(* What is asked of the driver is of swapchains it has.                     *)
LEMMA AskedRight ==
  ASSUME NEW hs, Asked(hs), \A h \in hs : Alive("swapchain", h)
  PROVE  illegal' = illegal
  BY DEF Asked

(* What it asks the driver for is alive.                                    *)
LEMMA UsedRight ==
  ASSUME RulesInv, ExactInv, NEW t \in Threads, Asking(t), call[t].op \in {"present", "acquire"},
         call[t].op = "present" => ~Invalidates(t), call[t].wrapper # "proxy"
  PROVE  \A h \in call[t].hs : Alive("swapchain", h)
  <1> SUFFICES ASSUME NEW h \in call[t].hs, IsProxy(h)
               PROVE  FALSE
    BY GameAlive DEF RulesInv, UsesRight
  <1>1. PICK g \in call[t].hs : call[t].wrapper = Lookup(g).wrapper
    BY DEF Asking
  <1>2. ~IsProxy(g)
    BY <1>1 DEF IsProxy, Lookup
  <1>3. Several(t)
    BY <1>1, <1>2 DEF Several
  <1>4. CASE call[t].op = "present"
    BY <1>3, <1>4 DEF Invalidates
  <1>5. CASE call[t].op = "acquire"
    BY <1>3, <1>5 DEF Several, RulesInv, UsesRight
  <1> QED
    BY <1>4, <1>5

(* No step asks the driver against its rules.                               *)
LEMMA IllegalKept ==
  ASSUME LayerInv, ActiveInv, ChainMisuse = {}, NEW t \in Threads, Play(t) \/ Step(t) \/ Woken(t),
         Creating(call[t]), Asking(t), illegal = {}
  PROVE  illegal' = {}
  <1>1. CallsInv /\ RulesInv /\ OnceInv /\ ExactInv
    BY DEF LayerInv, Accounts
  <1>2. CASE UNCHANGED illegal
    BY <1>2
  <1>3. CASE DeviceCreated(t)
    BY <1>3 DEF DeviceCreated
  <1>4. CASE FixedCreated(t) \/ Unwrapped(t)
    BY <1>1, <1>4, DriverDoes
  <1>5. CASE SwapchainDestroyed(t)
    <2>1. PICK h : h = call[t].h
      OBVIOUS
    <2>2. Destroys(call[t]) /\ call[t].step = "destroy"
      BY <1>1, <1>5, InsideIs DEF SwapchainDestroyed, Destroying, Destroys
    <2>3. Holds(call[t], h, "none")
      BY <2>1, <2>2 DEF Holds
    <2>4. Alive("swapchain", h)
      BY <1>1, <2>3, HeldAlive
    <2>5. Asked({h})
      BY <1>5, <2>1 DEF SwapchainDestroyed
    <2> QED
      BY <2>4, <2>5, AskedRight
  <1>6. CASE PresentForwarded(t) \/ PresentDone(t) \/ Acquired(t)
    <2>1. /\ call[t].op \in {"present", "acquire"}
          /\ PresentForwarded(t) => ~Invalidates(t) /\ call[t].op = "present"
          /\ PresentDone(t) => call[t].op = "present" /\ call[t].step = "queue"
          /\ Acquired(t) => call[t].op = "acquire"
      <3>1. PresentForwarded(t) => ~Invalidates(t) /\ call[t].op = "present"
        BY <1>1, InsideIs DEF PresentForwarded
      <3>2. PresentDone(t) => call[t].op = "present" /\ call[t].step = "queue"
        BY <1>1, InsideIs DEF PresentDone
      <3>3. Acquired(t) => call[t].op = "acquire"
        BY <1>1, AtIs DEF Acquired
      <3> QED
        BY <1>6, <3>1, <3>2, <3>3
    <2>2. call[t].op = "present" => ~Invalidates(t)
      BY <1>6, <2>1 DEF Asking
    <2>3. \/ UNCHANGED illegal
          \/ Asked(call[t].hs) /\ call[t].wrapper # "proxy"
      <3>1. CASE PresentForwarded(t)
        BY <3>1 DEF PresentForwarded
      <3>2. CASE PresentDone(t)
        BY <3>2 DEF PresentDone
      <3>3. CASE Acquired(t)
        BY <3>3 DEF Acquired
      <3> QED
        BY <1>6, <3>1, <3>2, <3>3
    <2> QED
      BY <1>1, <1>2, <2>1, <2>2, <2>3, UsedRight, AskedRight
  <1>7. CASE Ask(t)
    <2>1. PICK hs : hs \in SUBSET DOMAIN chains /\ Asked(Forwardable(hs))
      BY <1>7 DEF Ask
    <2>2. \A h \in Forwardable(hs) : Alive("swapchain", h)
      BY <1>1, <2>1, GameAlive DEF Forwardable
    <2> QED
      BY <2>1, <2>2, AskedRight
  <1> QED
    BY <1>2, <1>3, <1>4, <1>5, <1>6, <1>7, StepFrames, PlayFrames DEF Framed, ChangesIllegal

(* The invariant of the driver holds at the start,                          *)
LEMMA InitDriverInv == LayerInit => DriverInv
  <1> SUFFICES ASSUME LayerInit
               PROVE  DriverInv
    OBVIOUS
  <1>1. LayerInv
    BY InitLayerInv
  <1>2. /\ active = [s \in Surfaces |-> None] /\ illegal = {} /\ chains = <<>>
        /\ \A t \in Threads : call[t] = Idle
    BY DEF LayerInit
  <1>3. ActiveInv
    BY <1>2 DEF ActiveInv, ActiveAt, NewestActive
  <1>4. \A t \in Threads : Creating(call[t]) /\ Asking(t)
    BY <1>2, IdleFields DEF Creating, Asking
  <1> QED
    BY <1>1, <1>2, <1>3, <1>4 DEF DriverInv

(* and every step keeps it.                                                 *)
LEMMA NextDriverInv ==
  ASSUME ~Defers, ChainMisuse = {}, DriverInv, [LayerNext]_layerVars
  PROVE  DriverInv'
  <1>1. LayerInv'
    BY NextLayerInv DEF DriverInv
  <1>2. CASE LayerNext
    <2>1. PICK t \in Threads : Play(t) \/ Step(t) \/ Woken(t)
      BY <1>2 DEF LayerNext
    <2>2. /\ LayerInv /\ ActiveInv /\ illegal = {}
          /\ \A u \in Threads : Creating(call[u]) /\ Asking(u)
      BY DEF DriverInv
    <2>3. ActiveInv'
      BY <2>1, <2>2, ActiveInvKept DEF LayerInv, Accounts
    <2>4. illegal' = {}
      BY <2>1, <2>2, IllegalKept
    <2>5. \A u \in Threads : Creating(call[u])'
      BY <2>1, <2>2, CreatingKept
    <2>6. \A u \in Threads : Asking(u)'
      BY <2>1, <2>2, AskingKept
    <2> QED
      BY <1>1, <2>3, <2>4, <2>5, <2>6 DEF DriverInv
  <1>3. CASE UNCHANGED layerVars
    <2>1. UNCHANGED <<live, active, illegal, swapchains, chains, call>>
      BY <1>3 DEF layerVars, driver, tables, game
    <2>2. ActiveInv'
      BY <2>1 DEF DriverInv, ActiveInv, ActiveAt, NewestActive, Alive, Given, Has, LeakedOn, IsProxy
    <2>3. \A t \in Threads : Creating(call[t])' /\ Asking(t)'
      BY <2>1 DEF DriverInv, Creating, Asking, Named, IsProxy, Lookup, Invalidates, Several
    <2> QED
      BY <1>1, <2>1, <2>2, <2>3 DEF DriverInv
  <1> QED
    BY <1>2, <1>3

-----------------------------------------------------------------------------
(* The feature chain.  The copy is the game's chain, structure by structure,*)
(* behind what is prepended: a structure for a feature that no other        *)
(* carries, so nothing comes twice.                                         *)

Features == {"synchronization2", "timelineSemaphore", "shaderFloat16"}
Structs == [type : DOMAIN Carries, on : SUBSET Features, of : {"game", "layer"}]

(* The copy without what is prepended.                                      *)
Body(chain, fp16) ==
  [i \in DOMAIN chain |-> IF i \in Borrowed(chain) THEN chain[i] ELSE Copied(chain[i], fp16)]

EndsIn(m, body) ==
  /\ m \in Seq(Structs) /\ body \in Seq(Structs) /\ Len(m) >= Len(body)
  /\ \A i \in DOMAIN body : m[Len(m) - Len(body) + i] = body[i]

(* Which structures carry which features.                                   *)
LEMMA CarriesAre ==
  /\ DOMAIN Carries = {"vulkan13", "vulkan12", "synchronization2", "timeline", "float16", "other", "unknown"}
  /\ \A type \in DOMAIN Carries : Carries[type] \subseteq Features
  /\ Carries["timeline"] = {"timelineSemaphore"} /\ Carries["float16"] = {"shaderFloat16"}
  /\ Carries["synchronization2"] = {"synchronization2"}
  BY DEF Carries, Features

(* Which features are wanted.                                               *)
LEMMA WantedAre ==
  /\ Wanted(TRUE) = Features /\ Needed \subseteq Features
  /\ \A on \in BOOLEAN : Wanted(on) \subseteq Features
  BY DEF Wanted, Needed, Features

(* A chain is well formed when no two of its structures say the same.       *)
LEMMA WellFormedIs ==
  ASSUME NEW m
  PROVE  WellFormed(TypesOf(m)) <=>
           \A i, j \in DOMAIN m :
             i # j => m[i].type # m[j].type /\ Carries[m[i].type] \cap Carries[m[j].type] = {}
  <1>1. PICK types : types = TypesOf(m)
    OBVIOUS
  <1>2. DOMAIN types = DOMAIN m /\ \A i \in DOMAIN m : types[i] = m[i].type
    BY <1>1 DEF TypesOf
  <1> QED
    BY <1>1, <1>2 DEF WellFormed

(* A game's chain, as the layer finds it.                                   *)
LEMMA GameChainIs ==
  ASSUME NEW chain \in GameChains
  PROVE  /\ chain \in Seq(Structs) /\ WellFormed(TypesOf(chain))
         /\ \A i \in DOMAIN chain : chain[i].of = "game"
  <1>1. PICK types \in UNION {[1..n -> DOMAIN Carries] : n \in 0..MaxChain} :
          /\ WellFormed(types)
          /\ chain \in {[i \in DOMAIN types |-> Struct(types[i], on \cap Carries[types[i]])] :
                          on \in SUBSET Features}
    BY WantedAre DEF GameChains
  <1>2. PICK n \in Nat : types \in [1..n -> DOMAIN Carries]
    BY <1>1, ChainAssumption
  <1>3. PICK on \in SUBSET Features :
          chain = [i \in DOMAIN types |-> Struct(types[i], on \cap Carries[types[i]])]
    BY <1>1
  <1>4. /\ DOMAIN chain = 1..n
        /\ \A i \in 1..n : chain[i] = Struct(types[i], on \cap Carries[types[i]])
    BY <1>2, <1>3
  <1>5. \A i \in 1..n : /\ chain[i] \in Structs /\ chain[i].type = types[i] /\ chain[i].of = "game"
    <2> SUFFICES ASSUME NEW i \in 1..n
                 PROVE  chain[i] \in Structs /\ chain[i].type = types[i] /\ chain[i].of = "game"
      OBVIOUS
    <2>1. types[i] \in DOMAIN Carries /\ on \cap Carries[types[i]] \in SUBSET Features
      BY <1>2
    <2>2. chain[i] = [type |-> types[i], on |-> on \cap Carries[types[i]], of |-> "game"]
      BY <1>4 DEF Struct
    <2> QED
      BY <2>1, <2>2 DEF Structs
  <1>6. chain \in [1..n -> Structs]
    BY <1>3, <1>4, <1>5, <1>2
  <1>7. TypesOf(chain) = types
    BY <1>2, <1>4, <1>5 DEF TypesOf
  <1> QED
    BY <1>1, <1>4, <1>5, <1>6, <1>7

(* What the copy makes of it: its types, and on what a wanted feature needs.*)
LEMMA BodyIs ==
  ASSUME NEW chain \in Seq(Structs), NEW fp16 \in BOOLEAN
  PROVE  LET body == Body(chain, fp16)
         IN /\ body \in Seq(Structs) /\ Len(body) = Len(chain) /\ DOMAIN body = DOMAIN chain
            /\ TypesOf(body) = TypesOf(chain)
            /\ \A f : Carrier(body, f) = Carrier(chain, f)
            /\ \A i \in DOMAIN chain :
                 /\ body[i].type = chain[i].type /\ chain[i].on \subseteq body[i].on
                 /\ i \in Borrowed(chain) => body[i] = chain[i]
                 /\ i \notin Borrowed(chain) =>
                      /\ body[i].of = "layer"
                      /\ body[i].on = chain[i].on \cup (Carries[chain[i].type] \cap Wanted(fp16))
  <1> DEFINE body == Body(chain, fp16)
  <1>1. DOMAIN body = DOMAIN chain /\ DOMAIN chain = 1..Len(chain)
    BY DEF Body
  <1>2. ASSUME NEW i \in DOMAIN chain
        PROVE  /\ body[i] \in Structs
               /\ body[i].type = chain[i].type /\ chain[i].on \subseteq body[i].on
               /\ i \in Borrowed(chain) => body[i] = chain[i]
               /\ i \notin Borrowed(chain) =>
                    /\ body[i].of = "layer"
                    /\ body[i].on = chain[i].on \cup (Carries[chain[i].type] \cap Wanted(fp16))
    <2>1. chain[i] \in Structs
      BY <1>1
    <2>2. CASE i \in Borrowed(chain)
      BY <2>1, <2>2 DEF Body
    <2>3. CASE i \notin Borrowed(chain)
      <3>1. body[i] = Copied(chain[i], fp16)
        BY <2>3 DEF Body
      <3>2. Wanted(fp16) \subseteq Features
        BY WantedAre
      <3> QED
        BY <2>1, <2>3, <3>1, <3>2 DEF Copied, Structs
    <2> QED
      BY <2>2, <2>3
  <1>3. body \in [1..Len(chain) -> Structs]
    BY <1>1, <1>2 DEF Body
  <1>4. body \in Seq(Structs) /\ Len(body) = Len(chain)
    BY <1>1, <1>3
  <1>5. TypesOf(body) = TypesOf(chain)
    BY <1>1, <1>2 DEF TypesOf
  <1>6. \A f : Carrier(body, f) = Carrier(chain, f)
    BY <1>1, <1>2 DEF Carrier
  <1> HIDE DEF body
  <1> QED
    BY <1>1, <1>2, <1>4, <1>5, <1>6 DEF body

(* A structure for feature f alone, before a chain in which none carries f. *)
Behind(m, r) == r \in Seq(Structs) /\ Len(r) = Len(m) + 1 /\ \A i \in 1..Len(m) : r[i + 1] = m[i]

(* A structure in front of a chain.                                         *)
LEMMA PrependedSeq ==
  ASSUME NEW m \in Seq(Structs), NEW s \in Structs, NEW r, r = <<s>> \o m
  PROVE  Behind(m, r) /\ r[1] = s
  BY DEF Behind

Adds(f, m, r) ==
  /\ WellFormed(TypesOf(r)) /\ On(r, f)
  /\ \A g : g # f => /\ Carrier(r, g) = {} <=> Carrier(m, g) = {}
                     /\ On(r, g) <=> On(m, g)

(* One that carries a feature nobody carries adds it and harms nothing.     *)
LEMMA PrependedIs ==
  ASSUME NEW m \in Seq(Structs), WellFormed(TypesOf(m)), NEW f, Carrier(m, f) = {},
         NEW r, Behind(m, r), Carries[r[1].type] = {f}, r[1].on = {f}
  PROVE  Adds(f, m, r)
  <1>3. DOMAIN r = 1..(Len(m) + 1) /\ DOMAIN m = 1..Len(m) /\ Len(m) \in Nat
    BY DEF Behind
  <1>4. Carries[r[1].type] = {f} /\ r[1].on = {f}
    OBVIOUS
  <1>5. \A i \in DOMAIN m : i + 1 \in DOMAIN r /\ r[i + 1] = m[i]
    BY <1>3 DEF Behind
  <1>6. \A i \in DOMAIN r : i = 1 \/ (i - 1 \in DOMAIN m /\ r[i] = m[i - 1])
    <2> SUFFICES ASSUME NEW i \in DOMAIN r, i # 1
                 PROVE  i - 1 \in DOMAIN m /\ r[i] = m[i - 1]
      OBVIOUS
    <2>1. i - 1 \in DOMAIN m /\ (i - 1) + 1 = i
      BY <1>3
    <2> QED
      BY <1>5, <2>1
  <1>7. 1 \in DOMAIN r
    BY <1>3
  <1>8. \A i \in DOMAIN m : f \notin Carries[m[i].type]
    BY DEF Carrier
  <1>9. WellFormed(TypesOf(r))
    <2> SUFFICES ASSUME NEW i \in DOMAIN r, NEW j \in DOMAIN r, i # j
                 PROVE  r[i].type # r[j].type /\ Carries[r[i].type] \cap Carries[r[j].type] = {}
      BY WellFormedIs
    <2>1. CASE i = 1 /\ j # 1
      BY <1>4, <1>6, <1>8, <2>1
    <2>2. CASE j = 1 /\ i # 1
      BY <1>4, <1>6, <1>8, <2>2
    <2>3. CASE i # 1 /\ j # 1
      <3>1. i - 1 # j - 1 /\ i - 1 \in DOMAIN m /\ j - 1 \in DOMAIN m /\ r[i] = m[i - 1] /\ r[j] = m[j - 1]
        BY <1>3, <1>6, <2>3
      <3>2. \A a, b \in DOMAIN m :
              a # b => m[a].type # m[b].type /\ Carries[m[a].type] \cap Carries[m[b].type] = {}
        BY WellFormedIs
      <3> QED
        BY <3>1, <3>2
    <2> QED
      BY <2>1, <2>2, <2>3
  <1>10. On(r, f)
    BY <1>4, <1>7 DEF On
  <1>11. ASSUME NEW g, g # f
         PROVE  /\ Carrier(r, g) = {} <=> Carrier(m, g) = {}
                /\ On(r, g) <=> On(m, g)
    <2>1. g \notin Carries[r[1].type] /\ g \notin r[1].on
      BY <1>4, <1>11
    <2>2. Carrier(r, g) = {} <=> Carrier(m, g) = {}
      <3>1. ASSUME NEW i \in Carrier(m, g)
            PROVE  i + 1 \in Carrier(r, g)
        BY <1>5, <3>1 DEF Carrier
      <3>2. ASSUME NEW i \in Carrier(r, g)
            PROVE  i - 1 \in Carrier(m, g)
        BY <1>6, <2>1, <3>2 DEF Carrier
      <3> QED
        BY <3>1, <3>2
    <2>3. On(r, g) <=> On(m, g)
      BY <1>5, <1>6, <2>1 DEF On
    <2> QED
      BY <2>2, <2>3
  <1> QED
    BY <1>9, <1>10, <1>11 DEF Adds

(* What is added for a feature, before a copy that has come so far.         *)
Grows(chain, f, m, r, body) ==
  /\ EndsIn(r, body) /\ WellFormed(TypesOf(r))
  /\ Carrier(chain, f) = {} => On(r, f)
  /\ On(m, f) => On(r, f)
  /\ \A g : g # f => /\ Carrier(r, g) = {} <=> Carrier(m, g) = {}
                     /\ On(r, g) <=> On(m, g)

(* So does the step of the copy that adds a feature or finds it carried.    *)
LEMMA AddedIs ==
  ASSUME NEW chain \in Seq(Structs), NEW m, NEW body, EndsIn(m, body), WellFormed(TypesOf(m)),
         NEW f \in Features, NEW type \in DOMAIN Carries, Carries[type] = {f},
         Carrier(chain, f) = {} <=> Carrier(m, f) = {}, NEW r, r = Added(chain, f, type) \o m
  PROVE  Grows(chain, f, m, r, body)
  <1>0. m \in Seq(Structs)
    BY DEF EndsIn
  <1>1. CASE Carrier(chain, f) # {}
    <2>1. r = <<>> \o m
      BY <1>1 DEF Added
    <2>2. r = m
      BY <1>0, <2>1
    <2> QED
      BY <1>1, <2>2 DEF Grows
  <1>2. CASE Carrier(chain, f) = {}
    <2>1. PICK s : s = [Struct(type, {f}) EXCEPT !.of = "layer"]
      OBVIOUS
    <2>2. s \in Structs /\ s.type = type /\ s.on = {f}
      BY <2>1 DEF Struct, Structs
    <2>3. r = <<s>> \o m
      BY <1>2, <2>1 DEF Added
    <2>4. m \in Seq(Structs) /\ Carrier(m, f) = {}
      BY <1>0, <1>2
    <2>a. Behind(m, r) /\ r[1] = s
      BY <2>2, <2>3, <2>4, PrependedSeq
    <2>b. Carries[r[1].type] = {f} /\ r[1].on = {f}
      BY <2>2, <2>a
    <2>c. Adds(f, m, r)
      BY <2>4, <2>a, <2>b, PrependedIs
    <2>5. /\ Len(r) = Len(m) + 1 /\ r \in Seq(Structs) /\ DOMAIN m = 1..Len(m)
          /\ \A i \in DOMAIN m : r[i + 1] = m[i]
      BY <2>4, <2>a DEF Behind
    <2>6. EndsIn(r, body)
      <3>1. body \in Seq(Structs) /\ Len(m) >= Len(body) /\ Len(m) \in Nat /\ Len(body) \in Nat
        BY <2>4 DEF EndsIn
      <3>2. ASSUME NEW i \in DOMAIN body
            PROVE  r[Len(r) - Len(body) + i] = body[i]
        <4>1. i \in 1..Len(body)
          BY <3>1, <3>2
        <4>2. Len(m) - Len(body) + i \in DOMAIN m
          BY <2>4, <3>1, <4>1
        <4>3. Len(r) - Len(body) + i = (Len(m) - Len(body) + i) + 1
          BY <2>5, <3>1, <4>1
        <4>4. m[Len(m) - Len(body) + i] = body[i]
          BY <3>2 DEF EndsIn
        <4> QED
          BY <2>5, <4>2, <4>3, <4>4
      <3> QED
        BY <2>5, <3>1, <3>2 DEF EndsIn
    <2> QED
      BY <1>2, <2>c, <2>6 DEF Adds, Grows
  <1> QED
    BY <1>1, <1>2

(* The whole copy.                                                          *)
LEMMA CopyIs ==
  ASSUME NEW chain \in Seq(Structs), WellFormed(TypesOf(chain)), NEW fp16 \in BOOLEAN
  PROVE  LET made == Copy(chain, fp16)
             body == Body(chain, fp16)
         IN /\ EndsIn(made, body) /\ WellFormed(TypesOf(made))
            /\ \A f : On(body, f) => On(made, f)
            /\ \A f \in Wanted(CopyFp16(chain, fp16)) : Carrier(chain, f) = {} => On(made, f)
            /\ ~CopyFp16(chain, fp16) /\ On(made, "shaderFloat16") => On(body, "shaderFloat16")
  <1>1. PICK body : body = Body(chain, fp16)
    OBVIOUS
  <1>2. EndsIn(body, body) /\ WellFormed(TypesOf(body)) /\ \A f : Carrier(body, f) = Carrier(chain, f)
    <2>1. /\ body \in Seq(Structs) /\ TypesOf(body) = TypesOf(chain)
          /\ \A f : Carrier(body, f) = Carrier(chain, f)
      BY <1>1, BodyIs
    <2>2. Len(body) \in Nat /\ DOMAIN body = 1..Len(body)
      BY <2>1
    <2> QED
      BY <2>1, <2>2 DEF EndsIn
  <1>a. /\ {"synchronization2", "shaderFloat16", "timelineSemaphore"} = Features
        /\ {"synchronization2", "timeline", "float16"} \subseteq DOMAIN Carries
        /\ Carries["timeline"] = {"timelineSemaphore"} /\ Carries["float16"] = {"shaderFloat16"}
        /\ Carries["synchronization2"] = {"synchronization2"}
    BY CarriesAre DEF Features
  <1>b. PICK sync, half, time, m1, m2, m3 :
          /\ sync = Added(chain, "synchronization2", "synchronization2")
          /\ half = IF CopyFp16(chain, fp16) THEN Added(chain, "shaderFloat16", "float16") ELSE <<>>
          /\ time = Added(chain, "timelineSemaphore", "timeline")
          /\ m1 = sync \o body /\ m2 = half \o m1 /\ m3 = time \o m2
    OBVIOUS
  <1>3. /\ EndsIn(m1, body) /\ WellFormed(TypesOf(m1))
        /\ Carrier(chain, "synchronization2") = {} => On(m1, "synchronization2")
        /\ On(body, "synchronization2") => On(m1, "synchronization2")
        /\ \A g : g # "synchronization2" => /\ Carrier(m1, g) = {} <=> Carrier(chain, g) = {}
                                            /\ On(m1, g) <=> On(body, g)
    <2>1. m1 = Added(chain, "synchronization2", "synchronization2") \o body
      BY <1>b
    <2>2. "synchronization2" \in Features /\ "synchronization2" \in DOMAIN Carries
      BY <1>a
    <2>3. Carrier(chain, "synchronization2") = {} <=> Carrier(body, "synchronization2") = {}
      BY <1>2
    <2>4. Grows(chain, "synchronization2", body, m1, body)
      BY <1>2, <1>a, <2>1, <2>2, <2>3, AddedIs
    <2> QED
      BY <1>2, <2>4 DEF Grows
  <1>4. /\ EndsIn(m2, body) /\ WellFormed(TypesOf(m2))
        /\ CopyFp16(chain, fp16) /\ Carrier(chain, "shaderFloat16") = {} => On(m2, "shaderFloat16")
        /\ On(m1, "shaderFloat16") => On(m2, "shaderFloat16")
        /\ ~CopyFp16(chain, fp16) => (On(m2, "shaderFloat16") <=> On(m1, "shaderFloat16"))
        /\ \A g : g # "shaderFloat16" => /\ Carrier(m2, g) = {} <=> Carrier(m1, g) = {}
                                         /\ On(m2, g) <=> On(m1, g)
    <2>1. CASE CopyFp16(chain, fp16)
      <3>1. m2 = Added(chain, "shaderFloat16", "float16") \o m1
        BY <1>b, <2>1
      <3>2. Carrier(chain, "shaderFloat16") = {} <=> Carrier(m1, "shaderFloat16") = {}
        BY <1>3
      <3>3. "shaderFloat16" \in Features /\ "float16" \in DOMAIN Carries
        BY <1>a
      <3>4. Grows(chain, "shaderFloat16", m1, m2, body)
        BY <1>3, <1>a, <3>1, <3>2, <3>3, AddedIs
      <3> QED
        BY <2>1, <3>4 DEF Grows
    <2>2. CASE ~CopyFp16(chain, fp16)
      <3>1. m2 = m1
        BY <1>3, <1>b, <2>2 DEF EndsIn
      <3> QED
        BY <1>3, <2>2, <3>1
    <2> QED
      BY <2>1, <2>2
  <1>5. /\ EndsIn(m3, body) /\ WellFormed(TypesOf(m3))
        /\ Carrier(chain, "timelineSemaphore") = {} => On(m3, "timelineSemaphore")
        /\ On(m2, "timelineSemaphore") => On(m3, "timelineSemaphore")
        /\ \A g : g # "timelineSemaphore" => (On(m3, g) <=> On(m2, g))
    <2>1. m3 = Added(chain, "timelineSemaphore", "timeline") \o m2
      BY <1>b
    <2>2. Carrier(chain, "timelineSemaphore") = {} <=> Carrier(m2, "timelineSemaphore") = {}
      BY <1>3, <1>4
    <2>3. "timelineSemaphore" \in Features /\ "timeline" \in DOMAIN Carries
      BY <1>a
    <2>4. Grows(chain, "timelineSemaphore", m2, m3, body)
      BY <1>4, <1>a, <2>1, <2>2, <2>3, AddedIs
    <2> QED
      BY <2>4 DEF Grows
  <1>6. Copy(chain, fp16) = m3
    <2>1. /\ time \in Seq(Structs) /\ half \in Seq(Structs) /\ sync \in Seq(Structs) /\ body \in Seq(Structs)
      <3>1. ASSUME NEW f \in Features, NEW type \in DOMAIN Carries
            PROVE  Added(chain, f, type) \in Seq(Structs)
        <4>1. [Struct(type, {f}) EXCEPT !.of = "layer"] \in Structs
          BY DEF Struct, Structs
        <4> QED
          BY <4>1 DEF Added
      <3>2. <<>> \in Seq(Structs)
        OBVIOUS
      <3> QED
        BY <1>2, <1>a, <1>b, <3>1, <3>2 DEF EndsIn
    <2>2. Copy(chain, fp16) = ((time \o half) \o sync) \o body
      BY <1>1, <1>b DEF Copy, Body
    <2>3. ((time \o half) \o sync) \o body = time \o (half \o (sync \o body))
      <3>1. time \o half \in Seq(Structs) /\ sync \o body \in Seq(Structs)
        BY <2>1
      <3>2. ASSUME NEW s \in Seq(Structs) PROVE (s \o sync) \o body = s \o (sync \o body)
        BY <2>1, SMTT(60)
      <3>3. ASSUME NEW s \in Seq(Structs) PROVE (time \o half) \o s = time \o (half \o s)
        BY <2>1, SMTT(60)
      <3>4. ((time \o half) \o sync) \o body = (time \o half) \o (sync \o body)
        BY <3>1, <3>2
      <3>5. (time \o half) \o (sync \o body) = time \o (half \o (sync \o body))
        BY <3>1, <3>3
      <3> QED
        BY <3>4, <3>5
    <2> QED
      BY <1>b, <2>2, <2>3
  <1>7. \A f : On(body, f) => On(m3, f)
    BY <1>3, <1>4, <1>5
  <1>8. \A f \in Wanted(CopyFp16(chain, fp16)) : Carrier(chain, f) = {} => On(m3, f)
    BY <1>3, <1>4, <1>5 DEF Wanted, Needed
  <1>9. ~CopyFp16(chain, fp16) /\ On(m3, "shaderFloat16") => On(body, "shaderFloat16")
    BY <1>3, <1>4, <1>5
  <1> QED
    BY <1>1, <1>5, <1>6, <1>7, <1>8, <1>9

(* Whatever chain the game passes, of any length, what the layer makes of it*)
(* is one the driver may be given: no structure or feature twice, what the  *)
(* layer goes on to use on and nothing else, the game's own all there       *)
(* (copy_and_enable of shim/chain.rs).                                      *)
THEOREM ChainHarmless == ChainMisuse = {}
  <1> SUFFICES ASSUME NEW chain \in GameChains, NEW fp16 \in BOOLEAN
               PROVE  Misuse(chain, fp16) = {}
    BY DEF ChainMisuse
  <1> DEFINE made == Copy(chain, fp16)
             body == Body(chain, fp16)
             added == Len(made) - Len(chain)
  <1>1. /\ chain \in Seq(Structs) /\ WellFormed(TypesOf(chain))
        /\ \A i \in DOMAIN chain : chain[i].of = "game"
    BY GameChainIs
  <1>2. /\ EndsIn(made, body) /\ WellFormed(TypesOf(made))
        /\ \A f : On(body, f) => On(made, f)
        /\ \A f \in Wanted(CopyFp16(chain, fp16)) : Carrier(chain, f) = {} => On(made, f)
        /\ ~CopyFp16(chain, fp16) /\ On(made, "shaderFloat16") => On(body, "shaderFloat16")
    BY <1>1, CopyIs
  <1>3. /\ body \in Seq(Structs) /\ Len(body) = Len(chain) /\ DOMAIN body = DOMAIN chain
        /\ \A i \in DOMAIN chain :
             /\ body[i].type = chain[i].type /\ chain[i].on \subseteq body[i].on
             /\ i \in Borrowed(chain) => body[i] = chain[i]
             /\ i \notin Borrowed(chain) =>
                  /\ body[i].of = "layer"
                  /\ body[i].on = chain[i].on \cup (Carries[chain[i].type] \cap Wanted(fp16))
    BY <1>1, BodyIs
  <1> HIDE DEF made, body
  <1>4. \A i \in DOMAIN chain : made[added + i] = body[i]
    BY <1>2, <1>3 DEF EndsIn
  <1>5. ASSUME ~Refused(chain), NEW f \in Wanted(CopyFp16(chain, fp16))
        PROVE  On(made, f)
    <2>1. CASE Carrier(chain, f) = {}
      BY <1>2, <1>5, <2>1
    <2>2. CASE Carrier(chain, f) # {}
      <3>1. PICK i \in DOMAIN chain : f \in Carries[chain[i].type]
        BY <2>2 DEF Carrier
      <3>2. ~LeftOff(chain, f)
        BY <1>5 DEF Refused, Wanted, Needed, CopyFp16
      <3>3. f \in Wanted(fp16)
        BY <1>5 DEF Wanted, CopyFp16
      <3>4. CASE i \in Borrowed(chain)
        <4>1. f \in chain[i].on
          BY <3>1, <3>2, <3>4 DEF LeftOff, Carrier
        <4> QED
          BY <1>2, <1>3, <4>1 DEF On
      <3>5. CASE i \notin Borrowed(chain)
        BY <1>2, <1>3, <3>1, <3>3, <3>5 DEF On
      <3> QED
        BY <3>4, <3>5
    <2> QED
      BY <2>1, <2>2
  <1>6. ASSUME NEW f \in Wanted(TRUE) \ Wanted(fp16), On(made, f)
        PROVE  On(chain, f)
    <2>1. f = "shaderFloat16" /\ ~fp16 /\ f \notin Wanted(fp16)
      BY <1>6 DEF Wanted
    <2>2. On(body, f)
      BY <1>2, <1>6, <2>1 DEF CopyFp16
    <2> QED
      BY <1>3, <2>1, <2>2 DEF On
  <1>7. ASSUME NEW i \in DOMAIN chain
        PROVE  LET s == made[added + i]
               IN ~(\/ s.type # chain[i].type \/ ~(chain[i].on \subseteq s.on)
                    \/ s.of = "game" /\ s # chain[i])
    BY <1>3, <1>4
  <1> QED
    BY <1>2, <1>5, <1>6, <1>7 DEF Misuse, made

(* The driver is never asked against its rules, whichever wrapper a surface *)
(* gets and however one fails: as long as the game replaces a surface's     *)
(* swapchain by naming it.                                                  *)
THEOREM DriverNeverMisused ==
  ASSUME ~Defers
  PROVE  LayerSpec => []DriverObeyed
  <1>1. DriverInv /\ [LayerNext]_layerVars => DriverInv'
    BY ChainHarmless, NextDriverInv
  <1>2. DriverInv => DriverObeyed
    BY DEF DriverInv, DriverObeyed
  <1> QED
    BY <1>1, <1>2, InitDriverInv, PTL DEF LayerSpec
=============================================================================
