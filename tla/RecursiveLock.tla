--------------------------- MODULE RecursiveLock ---------------------------
(***************************************************************************)
(* The recursive mutex of shim/sync.rs: a std Mutex around (owner, depth)  *)
(* and one condition variable.  It is the process-wide API lock and the    *)
(* per-device queue lock of the Vulkan shim.                               *)
(*                                                                         *)
(* Everything between locking and unlocking the inner std mutex is one     *)
(* step.  A thread that finds the lock taken releases the inner mutex and  *)
(* enters the wait set in the same step (cv.wait is atomic), leaves it by  *)
(* a notification or spuriously, and then competes for the inner mutex     *)
(* again with every thread that arrives meanwhile.                         *)
(***************************************************************************)
EXTENDS Naturals

CONSTANTS
  Threads,   \* threads that use the lock
  None,      \* the owner of a free lock
  MaxDepth   \* bound on how deep one thread nests its guards

ASSUME LockAssumption ==
  /\ None \notin Threads
  /\ MaxDepth \in Nat \ {0}

VARIABLES
  owner,     \* state.0: Option<ThreadId>
  depth,     \* state.1: number of guards of the owner
  at,        \* where each thread is: "running", "testing" the owner, "waiting"
  guards     \* guards each thread has not dropped yet

vars == <<owner, depth, at, guards>>

Init ==
  /\ owner = None
  /\ depth = 0
  /\ at = [t \in Threads |-> "running"]
  /\ guards = [t \in Threads |-> 0]

(* A thread calls lock() and is about to take the inner mutex.             *)
Call(t) ==
  /\ at[t] = "running"
  /\ guards[t] < MaxDepth
  /\ at' = [at EXCEPT ![t] = "testing"]
  /\ UNCHANGED <<owner, depth, guards>>

(* The loop condition of lock() finds another owner: wait.                 *)
Wait(t) ==
  /\ at[t] = "testing"
  /\ owner \notin {None, t}
  /\ at' = [at EXCEPT ![t] = "waiting"]
  /\ UNCHANGED <<owner, depth, guards>>

(* Mutant: a woken waiter does not test the owner again.                   *)
Anyway(t) == TRUE

(* The loop condition of lock().                                           *)
MayTake(t) == owner \in {None, t}

(* The loop ends: the caller owns the lock once more.                      *)
Take(t) ==
  /\ at[t] = "testing"
  /\ MayTake(t)
  /\ owner' = t
  /\ depth' = depth + 1
  /\ guards' = [guards EXCEPT ![t] = @ + 1]
  /\ at' = [at EXCEPT ![t] = "running"]

Waiting == {t \in Threads : at[t] = "waiting"}

(* Mutant: the lock is freed and nobody is told.                           *)
NotifyNobody == at' = at

(* notify_one: one waiter, whichever, goes back to the loop condition.     *)
NotifyOne ==
  IF Waiting = {}
  THEN at' = at
  ELSE \E w \in Waiting : at' = [at EXCEPT ![w] = "testing"]

(* A guard is dropped: the outermost one frees the lock and notifies.      *)
Drop(t) ==
  /\ at[t] = "running"
  /\ guards[t] > 0
  /\ depth' = depth - 1
  /\ guards' = [guards EXCEPT ![t] = @ - 1]
  /\ IF depth - 1 = 0
     THEN owner' = None /\ NotifyOne
     ELSE UNCHANGED <<owner, at>>

(* A condition variable may wake a thread nobody notified.                 *)
SpuriousWake(t) ==
  /\ at[t] = "waiting"
  /\ at' = [at EXCEPT ![t] = "testing"]
  /\ UNCHANGED <<owner, depth, guards>>

Next ==
  \E t \in Threads : Call(t) \/ Wait(t) \/ Take(t) \/ Drop(t) \/ SpuriousWake(t)

Spec == Init /\ [][Next]_vars

-----------------------------------------------------------------------------
TypeOK ==
  /\ owner \in Threads \cup {None}
  /\ depth \in Nat
  /\ at \in [Threads -> {"running", "testing", "waiting"}]
  /\ guards \in [Threads -> Nat]

(* Two threads never hold guards of the lock at once, however deep either  *)
(* nests and whatever wakes a waiter (lock and Guard::drop).               *)
MutualExclusion ==
  \A t, u \in Threads : guards[t] > 0 /\ guards[u] > 0 => t = u

(* A free lock with waiters always has a thread on its way to test it: the *)
(* single notify_one of the outermost drop is never consumed in vain.      *)
NoLostWakeup ==
  owner = None /\ Waiting # {} => \E t \in Threads : at[t] = "testing"

(* The inductive strengthening: owner and depth are exactly the guards     *)
(* that are out, so an inner drop cannot free the lock early.              *)
Owned ==
  /\ \A t \in Threads : guards[t] > 0 => owner = t
  /\ owner = None => depth = 0
  /\ \A t \in Threads : owner = t => depth = guards[t] /\ depth > 0

LockInv == TypeOK /\ Owned /\ NoLostWakeup
=============================================================================
