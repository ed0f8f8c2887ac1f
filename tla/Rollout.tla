------------------------------ MODULE Rollout ------------------------------
(***************************************************************************)
(* service/deployment.go: how one application's releases are replaced.     *)
(*                                                                         *)
(* Three kinds of run change a release: the pipeline of a deployment (a    *)
(* background goroutine: build, then rollout), a rollback and a stop (both *)
(* inside an HTTP request).  Each is a sequence of calls to PostgreSQL,    *)
(* Docker and Caddy, one action per call, and any of them may fail: at     *)
(* once, when the run's context is done, or by a fault of the service      *)
(* called.  Builds overlap freely; the calls from GetActive on are made    *)
(* under the application's rollout lock.                                   *)
(*                                                                         *)
(* Images, log events and durations are left out; waiting for a build slot *)
(* is a step that may take arbitrarily long (BuildQueue says how long).    *)
(***************************************************************************)
EXTENDS DeploymentStore

CONSTANTS Stops,        (* the requests to stop the application           *)
          Deletes,      (* those of Stops that go on to delete it         *)
          HasDomain,    (* whether the app has a verified custom domain   *)
          MaxFaults,    (* bound on failing calls to the services         *)
          LostReplies   (* whether a failing call may have taken effect   *)

ASSUME RunsAssumption ==
  /\ Stops \cap Containers = {}
  /\ None \notin Stops
  /\ Deletes \subseteq Stops
  /\ HasDomain \in BOOLEAN /\ LostReplies \in BOOLEAN
  /\ MaxFaults \in Nat

VARIABLES
  containers,   (* Docker: none, created, up or down, per container       *)
  route,        (* Caddy: the container the app's route dials, or None    *)
  domainRoute,  (* Caddy: the same for the custom domain's route          *)
  faults,       (* failing calls so far                                   *)
  pc,           (* the call each run makes next                           *)
  lock,         (* s.rollouts[app]: the run that holds it, or None        *)
  previous,     (* the active release a run read under the lock           *)
  target,       (* the deployment a rollback reactivates                  *)
  after,        (* how a run settles once its candidate is cleaned up,    *)
                (* then the application status markFailed decided on      *)
  shielded,     (* runs whose markFailed ignores cancellation (timeouts)  *)
  executions,   (* s.executions: pipelines Cancel can interrupt           *)
  ctxDone       (* runs whose context is done                             *)

services == <<containers, route, domainRoute>>
memory == <<previous, target, after, shielded>>
contexts == <<executions, ctxDone>>
rolloutVars == <<rows, app, services, faults, pc, lock, memory, contexts>>

Runs == Deployments \cup Rollbacks \cup Stops

BeforeLock == {"new", "spawned", "registered", "fetch", "slot", "mark", "build",
               "prepare", "lock"}
Critical == {"snapshot", "start", "candidate", "ready", "switch", "sync", "recheck",
             "promote", "publish", "removePrevious", "retire",
             "restore", "cleanup", "clear", "settle",
             "stopRoute", "stopDomains", "stopFind", "stopContainer", "stopRow",
             "stopApp"}
(* Stages passed with or without the lock. *)
Leaving == {"fail", "failApp", "deleteApp", "unwind"}
Stages == BeforeLock \cup Critical \cup Leaving \cup {"done"}

Settlements == {"nothing", "cancel", "fail", "noRelease", "running", "failed"}

RolloutTypeOK ==
  /\ StoreTypeOK
  /\ containers \in [Containers -> {"none", "created", "up", "down"}]
  /\ route \in Containers \cup {None}
  /\ domainRoute \in Containers \cup {None}
  /\ faults \in 0..MaxFaults
  /\ pc \in [Runs -> Stages]
  /\ lock \in Runs \cup {None}
  /\ previous \in [Runs -> Releases]
  /\ target \in [Rollbacks -> Deployments \cup {None}]
  /\ after \in [Runs -> Settlements]
  /\ shielded \subseteq Deployments
  /\ executions \subseteq Deployments
  /\ ctxDone \subseteq Runs

RolloutInit ==
  /\ StoreInit
  /\ containers = [c \in Containers |-> "none"]
  /\ route = None
  /\ domainRoute = None
  /\ faults = 0
  /\ pc = [p \in Runs |-> "new"]
  /\ lock = None
  /\ previous = [p \in Runs |-> NoRelease]
  /\ target = [r \in Rollbacks |-> None]
  /\ after = [p \in Runs |-> "nothing"]
  /\ shielded = {}
  /\ executions = {}
  /\ ctxDone = {}

-----------------------------------------------------------------------------
IsBuild(p) == p \in Deployments

(* The row a run promotes. *)
RowOf(p) == IF IsBuild(p) THEN p ELSE target[p]

At(p, stage) == pc[p] = stage
To(p, stage) == pc' = [pc EXCEPT ![p] = stage]

Fault == faults < MaxFaults /\ faults' = faults + 1
NoFault == UNCHANGED faults

(* A call made with the run's context succeeds, or fails. *)
Works(p) == p \notin ctxDone /\ NoFault
Fails(p) == IF p \in ctxDone THEN NoFault ELSE Fault

(* A write that fails, or is cut short by its context, may have taken      *)
(* effect.  (Where the failure is passed over this needs no case of its    *)
(* own: it cannot be told from a write that worked before the context was  *)
(* done.)                                                                  *)
Uncertain(old, new) == IF LostReplies THEN {old, new} ELSE {old}

(* checkCancelled: the context is done, or the row asks for cancellation. *)
CancelSeen(d) == d \in ctxDone \/ rows[d].cancelReq

(* MarkCancelled with a context that is never done: a failure is logged    *)
(* and passed over.                                                        *)
TryMarkCancelled(d) ==
  \/ NoFault /\ rows' = MarkedCancelled(d)
  \/ Fault /\ UNCHANGED rows

(* finishCancelled *)
FinishCancelled(d) == TryMarkCancelled(d) /\ To(d, "unwind")

(* Hand the failure of a pipeline to markFailed. *)
GoFail(d) == To(d, "fail")

(* Docker after a container has been started, only stopped, or stopped and *)
(* removed.                                                                *)
StartedInPlace(p) ==
  [c \in Containers |-> IF c = p THEN "up"
                        ELSE IF c = previous[p].container THEN "none" ELSE containers[c]]
Started(p) == [containers EXCEPT ![p] = "up"]

Stopped(c) == [containers EXCEPT ![c] = IF @ = "up" THEN "down" ELSE @]

Removed(c) == [containers EXCEPT ![c] = "none"]

(* What has been started stays, up or down, until it is removed. *)
WasStarted(c) == containers[c] \in {"up", "down"}

(* A domain goes with its application. *)
DomainKnown == HasDomain /\ app.status # "deleted"

HasPrevious(p) == previous[p].container # None

(* The previous release is to be retired; it is not the one promoted. *)
ReplacesIfBuild(p) == IsBuild(p) /\ HasPrevious(p)
Replaces(p) == HasPrevious(p) /\ previous[p].dep # RowOf(p)

(* What an error during the rollout settles as: a cancelled pipeline is    *)
(* cancelled, another one failed; a rollback has no row of its own.        *)
OnError(p) ==
  IF ~IsBuild(p) THEN "noRelease" ELSE IF p \in ctxDone THEN "cancel" ELSE "fail"

Settle(p, how) == after' = [after EXCEPT ![p] = how]

-----------------------------------------------------------------------------
(* The pipeline up to the rollout lock.                                    *)

(* Create: insert the pending row and start the pipeline's goroutine.      *)
Create(d) ==
  /\ At(d, "new") /\ app.status # "deleted"
  /\ \A e \in Deployments : e < d => ~At(e, "new")
  /\ rows' = Inserted(d)
  /\ To(d, "spawned")
  /\ UNCHANGED <<app, services, faults, lock, memory, contexts>>

(* beginExecution, first half: become interruptible ... *)
Register(d) ==
  /\ At(d, "spawned")
  /\ executions' = executions \cup {d}
  /\ To(d, "registered")
  /\ UNCHANGED <<rows, app, services, faults, lock, memory, ctxDone>>

(* ... second half: only then read whether a cancel came before. *)
ReadCancelFlag(d) ==
  /\ At(d, "registered")
  /\ ctxDone' = IF rows[d].cancelReq THEN ctxDone \cup {d} ELSE ctxDone
  /\ To(d, "fetch")
  /\ UNCHANGED <<rows, app, services, faults, lock, memory, executions>>

(* The Git clone with its metadata update (an upload has its source        *)
(* already), between two checkCancelled calls.                             *)
FetchSource(d) ==
  /\ At(d, "fetch")
  /\ \/ CancelSeen(d) /\ FinishCancelled(d)
     \/ ~CancelSeen(d) /\ (To(d, "slot") \/ GoFail(d)) /\ UNCHANGED <<rows, faults>>
  /\ UNCHANGED <<app, services, lock, memory, contexts>>

(* acquireBuild: with the context done, either select case may be taken. *)
AcquireBuild(d) ==
  /\ At(d, "slot")
  /\ \/ To(d, "mark") /\ UNCHANGED <<rows, faults>>
     \/ d \in ctxDone /\ FinishCancelled(d)
  /\ UNCHANGED <<app, services, lock, memory, contexts>>

(* UpdateStatus(building): an error, a done context included, returns      *)
(* without any further write.                                              *)
MarkBuilding(d) ==
  /\ At(d, "mark")
  /\ \/ Works(d) /\ rows' = WithStatus(d, "building") /\ To(d, "build")
     \/ /\ Fails(d) /\ To(d, "unwind")
        /\ rows' \in Uncertain(rows, WithStatus(d, "building"))
  /\ UNCHANGED <<app, services, lock, memory, contexts>>

(* checkCancelled, the image build and its log.  A build that exceeds its  *)
(* timeout fails on a context that cancellation does not reach.            *)
BuildImage(d) ==
  /\ At(d, "build")
  /\ \/ CancelSeen(d) /\ FinishCancelled(d) /\ UNCHANGED shielded
     \/ ~CancelSeen(d) /\ To(d, "prepare") /\ UNCHANGED <<rows, faults, shielded>>
     \/ /\ ~CancelSeen(d)
        /\ \E timeout \in BOOLEAN :
             shielded' = IF timeout THEN shielded \cup {d} ELSE shielded
        /\ GoFail(d) /\ UNCHANGED <<rows, faults>>
  /\ UNCHANGED <<app, services, lock, previous, target, after, contexts>>

(* checkCancelled, decrypt the environment, checkCancelled. *)
PrepareRun(d) ==
  /\ At(d, "prepare")
  /\ \/ CancelSeen(d) /\ FinishCancelled(d)
     \/ ~CancelSeen(d) /\ NoFault /\ To(d, "lock") /\ UNCHANGED rows
     \/ ~CancelSeen(d) /\ Fault /\ GoFail(d) /\ UNCHANGED rows
  /\ UNCHANGED <<app, services, lock, memory, contexts>>

-----------------------------------------------------------------------------
(* Rollback and StopApp up to the lock.                                    *)

(* Rollback: the target's status is read before the lock is asked for. *)
CanRollBackToFailed(d) == rows[d].status \in Rollbackable \cup {"failed"}
CanRollBackTo(d) == rows[d].status \in Rollbackable

RequestRollback(r, d) ==
  /\ At(r, "new")
  /\ CanRollBackTo(d)
  /\ target' = [target EXCEPT ![r] = d]
  /\ To(r, "lock")
  /\ UNCHANGED <<rows, app, services, faults, lock, previous, after, shielded, contexts>>

RequestStop(s) ==
  /\ At(s, "new") /\ app.status # "deleted"
  /\ To(s, "lock")
  /\ UNCHANGED <<rows, app, services, faults, lock, memory, contexts>>

(* The HTTP client of a rollback or a stop goes away. *)
Disconnect(p) ==
  /\ ~IsBuild(p) /\ p \notin ctxDone
  /\ pc[p] \notin {"new", "done"}
  /\ ctxDone' = ctxDone \cup {p}
  /\ UNCHANGED <<rows, app, services, faults, pc, lock, memory, executions>>

-----------------------------------------------------------------------------
(* acquireRollout: with the context done, either select case may be taken. *)
LockFree == lock = None

AcquireRollout(p) ==
  /\ At(p, "lock") /\ LockFree
  /\ lock' = p
  /\ To(p, IF p \in Stops THEN "stopRoute" ELSE "snapshot")
  /\ UNCHANGED <<rows, app, services, faults, memory, contexts>>

GiveUpRollout(p) ==
  /\ At(p, "lock") /\ p \in ctxDone
  /\ IF IsBuild(p) THEN FinishCancelled(p) ELSE To(p, "unwind") /\ UNCHANGED <<rows, faults>>
  /\ UNCHANGED <<app, services, lock, memory, contexts>>

(* The deferred calls: release the lock, leave the executions map; the     *)
(* run's variables go with its goroutine.                                  *)
LockDrained(p) == None
LockKept(p) == lock
LockAfter(p) == IF lock = p THEN None ELSE lock

Unwind(p) ==
  /\ At(p, "unwind")
  /\ lock' = LockAfter(p)
  /\ executions' = executions \ {p}
  /\ ctxDone' = ctxDone \ {p}
  /\ previous' = [previous EXCEPT ![p] = NoRelease]
  /\ Settle(p, "nothing")
  /\ shielded' = shielded \ {p}
  /\ To(p, "done")
  /\ UNCHANGED <<rows, app, services, faults, target>>

-----------------------------------------------------------------------------
(* The rollout proper, shared by pipelines and rollbacks.                  *)

(* GetActive, and checkCancelled for a pipeline; a rollback refuses to     *)
(* reactivate the release that is active.  A cancelled GetActive is an     *)
(* error like any other: a pipeline runs markFailed.                       *)
ReadActive(p) ==
  /\ At(p, "snapshot")
  /\ \/ /\ p \notin ctxDone
        /\ previous' = [previous EXCEPT ![p] = Snapshot(Active)]
        /\ IF IsBuild(p) /\ CancelSeen(p)
             THEN FinishCancelled(p)
             ELSE /\ To(p, IF ~IsBuild(p) /\ Active = target[p] THEN "unwind" ELSE "start")
                  /\ UNCHANGED <<rows, faults>>
     \/ /\ Fails(p)
        /\ To(p, IF IsBuild(p) THEN "fail" ELSE "unwind")
        /\ UNCHANGED <<rows, previous>>
  /\ UNCHANGED <<app, services, lock, target, after, shielded, contexts>>

(* RunContainer: create and start.  A context that is done in between also *)
(* defeats the removal of the container, which stays as it was created; a  *)
(* start whose reply alone is lost leaves it running.                      *)
RunContainer(p) ==
  /\ At(p, "start")
  /\ \/ /\ Works(p)
        /\ containers' = Started(p)
        /\ To(p, "candidate")
        /\ UNCHANGED <<rows, after>>
     \/ /\ Fails(p)
        /\ \/ UNCHANGED containers
           \/ p \in ctxDone /\ containers' = [containers EXCEPT ![p] = "created"]
           \/ p \in ctxDone /\ LostReplies /\ containers' = Started(p)
        /\ Settle(p, OnError(p)) /\ To(p, "settle") /\ UNCHANGED rows
  /\ UNCHANGED <<app, route, domainRoute, lock, previous, target, shielded, contexts>>

(* UpdateCandidate; on failure the container goes at once and a pipeline   *)
(* runs markFailed even if it was cancelled.                               *)
SaveCandidate(p) ==
  /\ At(p, "candidate")
  /\ \/ /\ Works(p)
        /\ rows' = WithCandidate(RowOf(p), p)
        /\ To(p, "ready") /\ UNCHANGED containers
     \/ /\ Fails(p)
        /\ containers' = Removed(p)
        /\ rows' \in Uncertain(rows, WithCandidate(RowOf(p), p))
        /\ To(p, IF IsBuild(p) THEN "fail" ELSE "unwind")
  /\ UNCHANGED <<app, route, domainRoute, lock, memory, contexts>>

(* WaitContainerReady, then ctx.Err; a rollback whose context is done only *)
(* by then says nothing of the application.                                *)
AwaitReady(p) ==
  /\ At(p, "ready")
  /\ \/ /\ p \notin ctxDone /\ containers[p] = "up"
        /\ To(p, "switch") /\ UNCHANGED after
     \/ Settle(p, OnError(p)) /\ To(p, "cleanup")
     \/ /\ ~IsBuild(p) /\ p \in ctxDone /\ containers[p] = "up"
        /\ Settle(p, "nothing") /\ To(p, "cleanup")
  /\ UNCHANGED <<rows, app, services, faults, lock, previous, target, shielded, contexts>>

(* switchRoute: one PATCH replaces the upstream of the app's route. *)
SwitchRoute(p) ==
  /\ At(p, "switch")
  /\ \/ /\ Works(p)
        /\ route' = p
        /\ To(p, "sync") /\ UNCHANGED after
     \/ /\ Fails(p)
        /\ route' \in Uncertain(route, p)
        /\ Settle(p, OnError(p)) /\ To(p, "cleanup")
  /\ UNCHANGED <<rows, app, containers, domainRoute, lock, previous, target, shielded, contexts>>

(* customDomains.SyncRoutes; it may fail after it has switched the route,  *)
(* when the domain's new status cannot be written.                         *)
SyncDomains(p) ==
  /\ At(p, "sync")
  /\ \/ /\ Works(p)
        /\ domainRoute' = IF DomainKnown THEN p ELSE domainRoute
        /\ To(p, "recheck") /\ UNCHANGED after
     \/ /\ Fails(p)
        /\ domainRoute' \in Uncertain(domainRoute, IF DomainKnown THEN p ELSE domainRoute)
        /\ Settle(p, IF IsBuild(p) THEN "fail" ELSE "nothing") /\ To(p, "restore")
  /\ UNCHANGED <<rows, app, containers, route, lock, previous, target, shielded, contexts>>

(* The last checkCancelled; a cancelled pipeline is marked first, and      *)
(* cleaned up afterwards.  A rollback looks at its context only.           *)
RecheckCancel(p) ==
  /\ At(p, "recheck")
  /\ \/ /\ IF IsBuild(p) THEN CancelSeen(p) ELSE p \in ctxDone
        /\ IF IsBuild(p) THEN TryMarkCancelled(p) ELSE UNCHANGED <<rows, faults>>
        /\ Settle(p, "nothing") /\ To(p, "restore")
     \/ /\ IF IsBuild(p) THEN ~CancelSeen(p) ELSE p \notin ctxDone
        /\ To(p, "promote") /\ UNCHANGED <<rows, faults, after>>
  /\ UNCHANGED <<app, services, lock, previous, target, shielded, contexts>>

(* PromoteCandidate: the commit point. *)
PromoteCandidate(p) ==
  /\ At(p, "promote")
  /\ \/ /\ Works(p)
        /\ rows' = Promoted(RowOf(p), p)
        /\ To(p, "publish") /\ UNCHANGED after
     \/ /\ Fails(p)
        /\ rows' \in Uncertain(rows, Promoted(RowOf(p), p))
        /\ Settle(p, IF IsBuild(p) THEN OnError(p) ELSE "nothing") /\ To(p, "restore")
  /\ UNCHANGED <<app, services, lock, previous, target, shielded, contexts>>

(* Everything after the commit point uses the same, cancellable context    *)
(* and ignores errors: application status and URL, ...                     *)
PublishApp(p) ==
  /\ At(p, "publish")
  /\ \/ Works(p) /\ app' = AppWith("running", TRUE)
     \/ Fails(p) /\ app' \in {app, AppWith("running", app.url)}
     \/ p \notin ctxDone /\ Fault /\ app' = AppWith(app.status, TRUE)
  /\ To(p, IF Replaces(p) THEN "removePrevious" ELSE "unwind")
  /\ UNCHANGED <<rows, services, lock, memory, contexts>>

(* ... stop and removal of the previous container: the removal is forced,  *)
(* so it works even if the stop has failed, ...                            *)
RemovePrevious(p) ==
  /\ At(p, "removePrevious")
  /\ \/ Works(p) /\ containers' = Removed(previous[p].container)
     \/ Fails(p) /\ containers' \in {containers, Stopped(previous[p].container)}
  /\ To(p, "retire")
  /\ UNCHANGED <<rows, app, route, domainRoute, lock, memory, contexts>>

(* ... and the final status of the previous deployment. *)
RetirePrevious(p) ==
  /\ At(p, "retire")
  /\ \/ /\ Works(p)
        /\ rows' = WithStatus(previous[p].dep, IF IsBuild(p) THEN "superseded" ELSE "rolled_back")
     \/ Fails(p) /\ UNCHANGED rows
  /\ To(p, "unwind")
  /\ UNCHANGED <<app, services, lock, memory, contexts>>

-----------------------------------------------------------------------------
(* Undoing a rollout.  These calls ignore cancellation, and a failing one  *)
(* is logged and passed over.                                              *)

(* Point the routes back at the previous release; without one, remove      *)
(* them.  Only a rollback removes the custom domain's route as well.       *)
NothingRestored(p) == route
RestoredRoute(p) == previous[p].container
RestoredDomain(p) ==
  IF ~DomainKnown \/ (IsBuild(p) /\ ~HasPrevious(p)) THEN domainRoute ELSE previous[p].container

RestorePrevious(p) ==
  /\ At(p, "restore")
  /\ \/ NoFault /\ route' = RestoredRoute(p) /\ domainRoute' = RestoredDomain(p)
     \/ Fault /\ UNCHANGED route /\ domainRoute' = RestoredDomain(p)
     \/ Fault /\ route' = RestoredRoute(p) /\ UNCHANGED domainRoute
  /\ To(p, "cleanup")
  /\ UNCHANGED <<rows, app, containers, lock, memory, contexts>>

(* cleanupCandidate: stop and remove the candidate container, ...          *)
CleanupCandidate(p) ==
  /\ At(p, "cleanup")
  /\ \/ NoFault /\ containers' = Removed(p)
     \/ Fault /\ containers' \in {containers, Stopped(p)}
  /\ To(p, "clear")
  /\ UNCHANGED <<rows, app, route, domainRoute, lock, memory, contexts>>

(* ... then ClearCandidate. *)
ClearCandidate(p) ==
  /\ At(p, "clear")
  /\ \/ NoFault /\ rows' = WithCandidate(RowOf(p), None)
     \/ Fault /\ UNCHANGED rows
  /\ To(p, "settle")
  /\ UNCHANGED <<app, services, lock, memory, contexts>>

(* apps.UpdateStatus where a failure is logged and passed over. *)
TryAppStatus(status) ==
  \/ NoFault /\ app' = AppWith(status, app.url)
  \/ Fault /\ UNCHANGED app

(* The run reports its outcome: finishCancelled, markFailed, or -- a       *)
(* rollback that left the app without a release -- the app as failed.      *)
SettleRun(p) ==
  /\ At(p, "settle")
  /\ \/ after[p] = "cancel" /\ FinishCancelled(p) /\ UNCHANGED app
     \/ after[p] = "fail" /\ GoFail(p) /\ UNCHANGED <<rows, app, faults>>
     \/ /\ after[p] = "noRelease" /\ ~HasPrevious(p)
        /\ TryAppStatus("failed")
        /\ To(p, "unwind") /\ UNCHANGED rows
     \/ /\ after[p] = "nothing" \/ (after[p] = "noRelease" /\ HasPrevious(p))
        /\ To(p, "unwind") /\ UNCHANGED <<rows, app, faults>>
  /\ UNCHANGED <<services, lock, memory, contexts>>

-----------------------------------------------------------------------------
(* markFailed: the row, then -- after another look for an active release,  *)
(* and outside the lock for a failing build -- the application.            *)
ReachesUntimed(d) == d \notin ctxDone /\ d \notin shielded
Reaches(d) == d \notin ctxDone \/ d \in shielded

MarkRowFailed(d) ==
  /\ At(d, "fail")
  /\ \/ /\ Reaches(d) /\ NoFault
        /\ rows' = WithStatus(d, "failed")
        /\ Settle(d, IF Active' # None THEN "running" ELSE "failed")
     \/ /\ Reaches(d) /\ Fault
        /\ \/ UNCHANGED rows /\ Settle(d, IF Active # None THEN "running" ELSE "failed")
           \/ rows' = WithStatus(d, "failed") /\ Settle(d, "failed")
     \/ ~Reaches(d) /\ NoFault /\ UNCHANGED rows /\ Settle(d, "failed")
  /\ To(d, "failApp")
  /\ UNCHANGED <<app, services, lock, previous, target, shielded, contexts>>

MarkAppAfterFailure(d) ==
  /\ At(d, "failApp")
  /\ IF Reaches(d) THEN TryAppStatus(after[d]) ELSE UNCHANGED <<app, faults>>
  /\ To(d, "unwind")
  /\ UNCHANGED <<rows, services, lock, memory, contexts>>

-----------------------------------------------------------------------------
(* StopApp: every call returns its error and leaves what was done so far.  *)
StopRemoveRoute(s) ==
  /\ At(s, "stopRoute")
  /\ \/ Works(s) /\ route' = None /\ To(s, "stopDomains")
     \/ Fails(s) /\ route' \in Uncertain(route, None) /\ To(s, "unwind")
  /\ UNCHANGED <<rows, app, containers, domainRoute, lock, memory, contexts>>

StopRemoveDomains(s) ==
  /\ At(s, "stopDomains")
  /\ \/ Works(s) /\ domainRoute' = None /\ To(s, "stopFind")
     \/ Fails(s) /\ domainRoute' \in Uncertain(domainRoute, None) /\ To(s, "unwind")
  /\ UNCHANGED <<rows, app, containers, route, lock, memory, contexts>>

(* GetActive, else the latest deployment if it failed with a container. *)
StopFindRelease(s) ==
  /\ At(s, "stopFind")
  /\ \/ LET d == IF Active # None THEN Active ELSE LatestFailed
        IN  /\ Works(s)
            /\ previous' = [previous EXCEPT ![s] = Snapshot(d)]
            /\ To(s, IF Snapshot(d).container = None THEN "stopApp" ELSE "stopContainer")
     \/ Fails(s) /\ UNCHANGED previous /\ To(s, "unwind")
  /\ UNCHANGED <<rows, app, services, lock, target, after, shielded, contexts>>

StopDespiteContainer(s) ==
  /\ At(s, "stopContainer")
  /\ \/ Works(s) /\ containers' = Removed(previous[s].container)
     \/ Fails(s) /\ containers' \in {containers, Stopped(previous[s].container)}
  /\ To(s, "stopRow")
  /\ UNCHANGED <<rows, app, route, domainRoute, lock, memory, contexts>>

StopRemoveContainer(s) ==
  /\ At(s, "stopContainer")
  /\ \/ Works(s) /\ containers' = Removed(previous[s].container) /\ To(s, "stopRow")
     \/ /\ Fails(s)
        /\ containers' \in {containers, Stopped(previous[s].container)}
                           \cup Uncertain(containers, Removed(previous[s].container))
        /\ To(s, "unwind")
  /\ UNCHANGED <<rows, app, route, domainRoute, lock, memory, contexts>>

StopMarkRow(s) ==
  /\ At(s, "stopRow")
  /\ \/ Works(s) /\ rows' = WithStatus(previous[s].dep, "stopped") /\ To(s, "stopApp")
     \/ /\ Fails(s) /\ To(s, "unwind")
        /\ rows' \in Uncertain(rows, WithStatus(previous[s].dep, "stopped"))
  /\ UNCHANGED <<app, services, lock, memory, contexts>>

(* Application status, then URL.  A stop ends here and releases the lock;  *)
(* a deletion goes on without it.                                          *)
StopMarkApp(s) ==
  /\ At(s, "stopApp")
  /\ \/ /\ Works(s) /\ app' = AppWith("stopped", FALSE)
        /\ IF s \in Deletes THEN To(s, "deleteApp") /\ lock' = None
                            ELSE To(s, "unwind") /\ UNCHANGED lock
     \/ /\ Fails(s) /\ To(s, "unwind") /\ UNCHANGED lock
        /\ app' \in {app, AppWith("stopped", app.url)} \cup Uncertain(app, AppWith("stopped", FALSE))
  /\ UNCHANGED <<rows, services, memory, contexts>>

(* The handler of DELETE /apps/:name, after StopApp has returned: the      *)
(* application's row goes, and its deployments with it.                    *)
DeleteApp(s) ==
  /\ At(s, "deleteApp")
  /\ \/ /\ Works(s) \/ (LostReplies /\ Fails(s))
        /\ rows' = [d \in Deployments |-> NoRow]
        /\ app' = [status |-> "deleted", url |-> FALSE]
     \/ Fails(s) /\ UNCHANGED <<rows, app>>
  /\ To(s, "unwind")
  /\ UNCHANGED <<services, lock, memory, contexts>>

-----------------------------------------------------------------------------
Pipeline(d) ==
  \/ Register(d) \/ ReadCancelFlag(d) \/ FetchSource(d) \/ AcquireBuild(d)
  \/ MarkBuilding(d) \/ BuildImage(d) \/ PrepareRun(d)
  \/ MarkRowFailed(d) \/ MarkAppAfterFailure(d)

Replace(p) ==
  \/ ReadActive(p) \/ RunContainer(p) \/ SaveCandidate(p) \/ AwaitReady(p)
  \/ SwitchRoute(p) \/ SyncDomains(p) \/ RecheckCancel(p) \/ PromoteCandidate(p)
  \/ PublishApp(p) \/ RemovePrevious(p) \/ RetirePrevious(p)
  \/ RestorePrevious(p) \/ CleanupCandidate(p) \/ ClearCandidate(p) \/ SettleRun(p)

Stop(s) ==
  \/ StopRemoveRoute(s) \/ StopRemoveDomains(s) \/ StopFindRelease(s)
  \/ StopRemoveContainer(s) \/ StopMarkRow(s) \/ StopMarkApp(s) \/ DeleteApp(s)

(* What a run does on its own once it has started. *)
Advance(p) ==
  \/ p \in Deployments /\ Pipeline(p)
  \/ p \in Containers /\ Replace(p)
  \/ p \in Stops /\ Stop(p)
  \/ AcquireRollout(p) \/ GiveUpRollout(p) \/ Unwind(p)

(* What users start and abandon. *)
Request ==
  \/ \E d \in Deployments : Create(d)
  \/ \E r \in Rollbacks, d \in Deployments : RequestRollback(r, d)
  \/ \E s \in Stops : RequestStop(s)
=============================================================================
