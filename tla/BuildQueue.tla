----------------------------- MODULE BuildQueue -----------------------------
(***************************************************************************)
(* service/build_queue.go: the FIFO scheduler of Docker builds.            *)
(*                                                                         *)
(* Each deployment is a goroutine that calls Acquire with its own context, *)
(* builds, and calls the release function it was given: explicitly after   *)
(* the build and again from the caller's defer.  Every critical section of *)
(* q.mu is one action; the select in Acquire happens outside the mutex, so *)
(* a slot can be granted to a waiter whose context is already cancelled,   *)
(* before or after that waiter notices.                                    *)
(*                                                                         *)
(* A definition immediately above the one it varies (AdmittedAll above     *)
(* Admitted) is a faulty variant the properties are tried against.         *)
(***************************************************************************)
EXTENDS Naturals, Sequences, FiniteSets

CONSTANTS Deployments,         (* the goroutines that want to build       *)
          MaxConcurrentBuilds  (* the configured limit, possibly 0        *)

ASSUME LimitAssumption == MaxConcurrentBuilds \in Nat

VARIABLES pc,        (* where each goroutine is, see Stages               *)
          waiters,   (* q.waiters: goroutines not yet granted, FIFO       *)
          granted,   (* waiter.granted, until the slot is handed back     *)
          active,    (* q.active                                          *)
          cancelled  (* whether the goroutine's context is done           *)

vars == <<pc, waiters, granted, active, cancelled>>

(* idle: not in Acquire.  selecting: in the select of Acquire.             *)
(* aborting: the select took ctx.Done, q.mu not locked yet.                *)
(* returning: found granted under the lock, about to call q.release.       *)
(* building: Acquire returned a release function.                          *)
(* released: the build is over and release was called once.                *)
Stages == {"idle", "selecting", "aborting", "returning", "building", "released"}

(* NewBuildQueue: a limit below 1 becomes 1. *)
EffectiveLimit(configured) == IF configured < 1 THEN 1 ELSE configured
Limit == EffectiveLimit(MaxConcurrentBuilds)

TypeOK ==
  /\ pc \in [Deployments -> Stages]
  /\ waiters \in Seq(Deployments)
  /\ granted \in [Deployments -> BOOLEAN]
  /\ active \in 0..Limit
  /\ cancelled \in [Deployments -> BOOLEAN]

Init ==
  /\ pc = [d \in Deployments |-> "idle"]
  /\ waiters = <<>>
  /\ granted = [d \in Deployments |-> FALSE]
  /\ active = 0
  /\ cancelled = [d \in Deployments |-> FALSE]

-----------------------------------------------------------------------------
(* How many heads the loop of dispatchLocked pops off a queue q when a     *)
(* slots are taken: while a slot is free and somebody waits.               *)
AdmittedAll(q, a) == Len(q)

Admitted(q, a) ==
  IF a >= Limit THEN 0
  ELSE IF Len(q) < Limit - a THEN Len(q) ELSE Limit - a

(* dispatchLocked, on queue q, a slots taken and grants g. *)
DispatchNewest(q, a, g) ==
  LET n == Admitted(q, a)
  IN  /\ waiters' = SubSeq(q, 1, Len(q) - n)
      /\ active' = a + n
      /\ granted' = [d \in Deployments |-> g[d] \/ \E i \in 1..n : q[Len(q) - i + 1] = d]

DispatchLocked(q, a, g) ==
  LET n == Admitted(q, a)
  IN  /\ waiters' = SubSeq(q, n + 1, Len(q))
      /\ active' = a + n
      /\ granted' = [d \in Deployments |-> g[d] \/ \E i \in 1..n : q[i] = d]

(* removeWaiterLocked: the first entry of d leaves, the rest keep order. *)
FirstEntry(q, d) ==
  CHOOSE i \in DOMAIN q : q[i] = d /\ \A j \in 1..(i-1) : q[j] # d

WaiterKept(q, d) == q
RemoveWaiterLocked(q, d) ==
  IF \E i \in DOMAIN q : q[i] = d
    THEN LET k == FirstEntry(q, d)
         IN  SubSeq(q, 1, k - 1) \o SubSeq(q, k + 1, Len(q))
    ELSE q

(* release: the count stops at zero, then the queue is served.  Nothing    *)
(* reads the waiter's granted flag any more, so it is cleared here.        *)
ReleasedQuietly(d) ==
  /\ active' = IF active > 0 THEN active - 1 ELSE active
  /\ granted' = [granted EXCEPT ![d] = FALSE]
  /\ UNCHANGED waiters

ReleaseSlot(d) ==
  DispatchLocked(waiters, IF active > 0 THEN active - 1 ELSE active,
                 [granted EXCEPT ![d] = FALSE])

MoveTo(d, from, to) == pc[d] = from /\ pc' = [pc EXCEPT ![d] = to]

-----------------------------------------------------------------------------
(* Acquire, first critical section: append the waiter and dispatch. *)
Enqueue(d) ==
  /\ MoveTo(d, "idle", "selecting")
  /\ DispatchLocked(Append(waiters, d), active, granted)
  /\ UNCHANGED cancelled

(* The context is cancelled before Acquire returns; the queue is not told. *)
CancelContext(d) ==
  /\ ~cancelled[d]
  /\ pc[d] \in {"idle", "selecting"}
  /\ cancelled' = [cancelled EXCEPT ![d] = TRUE]
  /\ UNCHANGED <<pc, waiters, granted, active>>

(* select took <-waiter.ready; also possible when the context is done. *)
TakeSlot(d) ==
  /\ granted[d]
  /\ MoveTo(d, "selecting", "building")
  /\ UNCHANGED <<waiters, granted, active, cancelled>>

(* select took <-ctx.Done(); also possible when the slot is ready. *)
SeeCancel(d) ==
  /\ cancelled[d]
  /\ MoveTo(d, "selecting", "aborting")
  /\ UNCHANGED <<waiters, granted, active, cancelled>>

(* Second critical section, granted in the meantime: q.mu is unlocked and  *)
(* the slot goes back in a critical section of its own.                    *)
AbortKeepingSlot(d) ==
  /\ granted[d]
  /\ MoveTo(d, "aborting", "idle")
  /\ cancelled' = [cancelled EXCEPT ![d] = FALSE]
  /\ UNCHANGED <<waiters, granted, active>>

AbortGranted(d) ==
  /\ granted[d]
  /\ MoveTo(d, "aborting", "returning")
  /\ UNCHANGED <<waiters, granted, active, cancelled>>

(* Second critical section, still waiting: leave the queue and dispatch. *)
AbortWaiting(d) ==
  /\ ~granted[d]
  /\ MoveTo(d, "aborting", "idle")
  /\ DispatchLocked(RemoveWaiterLocked(waiters, d), active, granted)
  /\ cancelled' = [cancelled EXCEPT ![d] = FALSE]

(* q.release on the abort path. *)
GiveBack(d) ==
  /\ MoveTo(d, "returning", "idle")
  /\ ReleaseSlot(d)
  /\ cancelled' = [cancelled EXCEPT ![d] = FALSE]

(* The build is over: releaseBuild runs the once-guarded release. *)
Release(d) ==
  /\ MoveTo(d, "building", "released")
  /\ ReleaseSlot(d)
  /\ UNCHANGED cancelled

(* The caller's deferred releaseBuild: the flag and sync.Once make it a    *)
(* no-op.  The goroutine ends; the next deployment has a fresh context.    *)
ReleaseAgain(d) ==
  /\ MoveTo(d, "released", "idle")
  /\ ReleaseSlot(d)
  /\ cancelled' = [cancelled EXCEPT ![d] = FALSE]

DeferredRelease(d) ==
  /\ MoveTo(d, "released", "idle")
  /\ cancelled' = [cancelled EXCEPT ![d] = FALSE]
  /\ UNCHANGED <<waiters, granted, active>>

(* What the goroutine of d does inside and after Acquire. *)
Progress(d) ==
  \/ TakeSlot(d)
  \/ SeeCancel(d)
  \/ AbortGranted(d)
  \/ AbortWaiting(d)
  \/ GiveBack(d)
  \/ Release(d)
  \/ DeferredRelease(d)

Next == \E d \in Deployments : Enqueue(d) \/ CancelContext(d) \/ Progress(d)

Spec == Init /\ [][Next]_vars

(* A goroutine that can run does run; a build ends because it has a build  *)
(* timeout.  Nobody is obliged to deploy or to cancel.                     *)
FairSpec == Spec /\ \A d \in Deployments : WF_vars(Progress(d))

-----------------------------------------------------------------------------
Holders == {d \in Deployments : granted[d]}

(* q.active is the number of deployments that own a slot, whatever the     *)
(* races between dispatch, cancellation and the two release calls: no slot *)
(* leaks and none is counted twice.                                        *)
SlotAccounting == active = Cardinality(Holders)

(* dispatchLocked runs wherever a slot or the head of the queue moves:     *)
(* nobody waits while a slot is free.                                      *)
WorkConserving == waiters # <<>> => active = Limit

(* The queue holds, once each, exactly the goroutines that are inside      *)
(* Acquire without a grant: a cancelled waiter that has returned is gone   *)
(* from it and can never be granted a slot nobody would hand back.         *)
NoGhostWaiter ==
  /\ \A i, j \in DOMAIN waiters : waiters[i] = waiters[j] => i = j
  /\ \A d \in Deployments :
       (\E i \in DOMAIN waiters : waiters[i] = d)
         <=> (pc[d] \in {"selecting", "aborting"} /\ ~granted[d])

(* Every deployment that queues gets its slot or, cancelled, leaves. *)
AcquireReturns ==
  \A d \in Deployments : pc[d] = "selecting" ~> pc[d] \in {"building", "idle"}

(* The queue implements the slot pool of BuildSlots. *)
Slots == INSTANCE BuildSlots WITH holders <- Holders, line <- waiters
ImplementsBuildSlots == Slots!Spec
=============================================================================
