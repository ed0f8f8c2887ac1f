-------------------------- MODULE DeploymentSystem --------------------------
(***************************************************************************)
(* The rollouts of one application together with everything that reaches   *)
(* into them: the cancel endpoint, the periodic health check, containers   *)
(* that exit, and the API process itself crashing and starting again       *)
(* (service/deployment.go Cancel and RecoverCandidates,                    *)
(* service/reconcile.go, health/checker.go, cmd/server/main.go).           *)
(***************************************************************************)
EXTENDS Rollout

CONSTANTS Cancels,      (* the deployments whose cancellation is requested *)
          Disconnects,  (* the requests whose client may go away           *)
          HealthOn,     (* whether the health checker runs                 *)
          MaxExits,     (* bound on containers that exit by themselves     *)
          MaxCrashes    (* bound on crashes of the API process             *)

ASSUME SystemAssumption ==
  /\ Cancels \subseteq Deployments
  /\ Disconnects \subseteq Rollbacks \cup Stops
  /\ HealthOn \in BOOLEAN
  /\ MaxExits \in Nat /\ MaxCrashes \in Nat

VARIABLES
  cancelling,  (* where the cancel request of each deployment is           *)
  scan,        (* releases the current health pass has yet to inspect      *)
  sick,        (* the release it found dead, or NoRelease                  *)
  checker,     (* idle, scanning, marking (the row), reporting (the app)   *)
  exits,       (* containers that exited so far                            *)
  boot,        (* serving, recovering or reconciling                       *)
  crashes      (* crashes so far                                           *)

healthVars == <<scan, sick, checker>>
environment == <<exits, boot, crashes>>
vars == <<rolloutVars, cancelling, healthVars, environment>>

TypeOK ==
  /\ RolloutTypeOK
  /\ cancelling \in [Deployments -> {"idle", "lookup", "mark"}]
  /\ scan \subseteq Releases
  /\ sick \in Releases
  /\ checker \in {"idle", "scanning", "marking", "reporting"}
  /\ exits \in 0..MaxExits
  /\ boot \in {"serving", "recovering", "reconciling"}
  /\ crashes \in 0..MaxCrashes

Init ==
  /\ RolloutInit
  /\ cancelling = [d \in Deployments |-> "idle"]
  /\ scan = {} /\ sick = NoRelease /\ checker = "idle"
  /\ exits = 0 /\ boot = "serving" /\ crashes = 0

-----------------------------------------------------------------------------
(* Cancel: the status check and RequestCancel, whose SQL repeats it; ...   *)
RequestCancel(d) ==
  /\ cancelling[d] = "idle"
  /\ rows[d].status \in Cancellable
  /\ rows' = CancelRequested(d)
  /\ cancelling' = [cancelling EXCEPT ![d] = "lookup"]
  /\ UNCHANGED <<app, services, faults, pc, lock, memory, contexts>>

(* ... then interrupt the pipeline registered under the id, ...            *)
InterruptPipeline(d) ==
  /\ cancelling[d] = "lookup"
  /\ IF d \in executions
       THEN /\ ctxDone' = ctxDone \cup {d}
            /\ cancelling' = [cancelling EXCEPT ![d] = "idle"]
       ELSE /\ cancelling' = [cancelling EXCEPT ![d] = "mark"]
            /\ UNCHANGED ctxDone
  /\ UNCHANGED <<rows, app, services, faults, pc, lock, memory, executions>>

(* ... or finish the cancellation when there is none.                      *)
MarkUnregistered(d) ==
  /\ cancelling[d] = "mark"
  /\ TryMarkCancelled(d)
  /\ cancelling' = [cancelling EXCEPT ![d] = "idle"]
  /\ UNCHANGED <<app, services, pc, lock, memory, contexts>>

CancelHandler(d) == InterruptPipeline(d) \/ MarkUnregistered(d)

-----------------------------------------------------------------------------
(* Check: list the running deployments, ... *)
HealthList ==
  /\ HealthOn /\ checker = "idle"
  /\ scan' = {Snapshot(d) : d \in RunningRows}
  /\ checker' = IF scan' = {} THEN "idle" ELSE "scanning"
  /\ UNCHANGED <<rolloutVars, sick>>

(* ... inspect the container each of them had in the list, ...             *)
DeadIfMissing(release) == release.container = None \/ containers[release.container] = "none"
Dead(release) == release.container = None \/ containers[release.container] # "up"

HealthInspect(release) ==
  /\ checker = "scanning" /\ release \in scan
  /\ scan' = scan \ {release}
  /\ IF Dead(release)
       THEN sick' = release /\ checker' = "marking"
       ELSE UNCHANGED sick /\ checker' = IF scan' = {} THEN "idle" ELSE "scanning"
  /\ UNCHANGED rolloutVars

(* ... (one that cannot be inspected is skipped) ...                       *)
HealthSkip(release) ==
  /\ checker = "scanning" /\ release \in scan /\ Fault
  /\ scan' = scan \ {release}
  /\ checker' = IF scan' = {} THEN "idle" ELSE "scanning"
  /\ UNCHANGED <<rows, app, services, pc, lock, memory, contexts, sick>>

NextInScan == sick' = NoRelease /\ checker' = IF scan = {} THEN "idle" ELSE "scanning"

(* ... and mark a dead one failed, and then its application, unless the    *)
(* row could not be written.                                               *)
HealthMarkRow ==
  /\ checker = "marking"
  /\ \/ NoFault /\ rows' = WithStatus(sick.dep, "failed") /\ checker' = "reporting" /\ UNCHANGED sick
     \/ Fault /\ UNCHANGED rows /\ NextInScan
  /\ UNCHANGED <<app, services, pc, lock, memory, contexts, scan>>

HealthMarkApp ==
  /\ checker = "reporting"
  /\ TryAppStatus("failed")
  /\ NextInScan
  /\ UNCHANGED <<rows, services, pc, lock, memory, contexts, scan>>

HealthPass == (\E x \in Releases : HealthInspect(x) \/ HealthSkip(x)) \/ HealthMarkRow \/ HealthMarkApp
Health == HealthList \/ HealthPass

(* A container exits and its restart policy gives up on it. *)
ContainerExits(c) ==
  /\ containers[c] = "up" /\ exits < MaxExits
  /\ containers' = [containers EXCEPT ![c] = "down"]
  /\ exits' = exits + 1
  /\ UNCHANGED <<rows, app, route, domainRoute, faults, pc, lock, memory, contexts>>

-----------------------------------------------------------------------------
(* The process dies: every goroutine, lock and context with it.  What has  *)
(* not started yet can still be requested from the next process.           *)
Crash ==
  /\ crashes < MaxCrashes
  /\ crashes' = crashes + 1
  /\ boot' = "recovering"
  /\ pc' = [p \in Runs |-> IF At(p, "new") THEN "new" ELSE "done"]
  /\ lock' = None
  /\ previous' = [p \in Runs |-> NoRelease]
  /\ after' = [p \in Runs |-> "nothing"]
  /\ shielded' = {} /\ executions' = {} /\ ctxDone' = {}
  /\ cancelling' = [d \in Deployments |-> "idle"]
  /\ scan' = {} /\ sick' = NoRelease /\ checker' = "idle"
  /\ UNCHANGED <<rows, app, services, faults, target, exits>>

(* RecoverCandidates, one row: point the route back at the active release  *)
(* or remove it, clean the candidate up, and mark the row failed.          *)
RouteKept == route
RecoveredRoute == Snapshot(Active).container

Oldest(ds) == CHOOSE d \in ds : \A e \in ds : d <= e

RecoverCandidate ==
  /\ boot = "recovering" /\ CandidateRows # {}
  /\ route' = RecoveredRoute
  /\ LET active == Snapshot(Active)
     IN  domainRoute' = IF HasDomain /\ active.container # None THEN active.container ELSE domainRoute
  /\ LET d == Oldest(CandidateRows)
     IN  /\ containers' = Removed(rows[d].candidate)
         /\ rows' = Update(d, [rows[d] EXCEPT !.candidate = None, !.status = "failed"])
  /\ UNCHANGED <<app, faults, pc, lock, memory, contexts, cancelling, healthVars, environment>>

RecoveryDone ==
  /\ boot = "recovering" /\ CandidateRows = {}
  /\ boot' = "reconciling"
  /\ UNCHANGED <<rolloutVars, cancelling, healthVars, exits, crashes>>

(* ReconcileManagedContainers, and the server starts listening. *)
ReferencedByActive ==
  {Snapshot(Active).container} \cup {rows[d].candidate : d \in CandidateRows}
Referenced ==
  {rows[d].container : d \in RunningRows \cup CandidateRows}
    \cup {rows[d].candidate : d \in RunningRows \cup CandidateRows}

Reconcile ==
  /\ boot = "reconciling"
  /\ containers' = [c \in Containers |-> IF c \in Referenced THEN containers[c] ELSE "none"]
  /\ boot' = "serving"
  /\ UNCHANGED <<rows, app, route, domainRoute, faults, pc, lock, memory, contexts,
                 cancelling, healthVars, exits, crashes>>

Startup == RecoverCandidate \/ RecoveryDone \/ Reconcile

-----------------------------------------------------------------------------
Serving == boot = "serving"

(* Nothing is going on: every run that was started has ended. *)
Quiescent ==
  /\ Serving
  /\ \A p \in Runs : pc[p] \in {"new", "done"}
  /\ \A d \in Deployments : cancelling[d] = "idle"
  /\ checker = "idle"

(* The API process stays up with nothing left to do. *)
Rest == Quiescent /\ UNCHANGED vars

(* The steps of the system, in the process that serves requests. *)
Requested ==
  /\ Serving
  /\ Request \/ \E p \in Disconnects : Disconnect(p)
  /\ UNCHANGED <<cancelling, healthVars, environment>>

Advanced(p) ==
  /\ Serving /\ Advance(p)
  /\ UNCHANGED <<cancelling, healthVars, environment>>

CancelArrives(d) ==
  /\ Serving /\ RequestCancel(d)
  /\ UNCHANGED <<healthVars, environment>>

CancelHandled(d) ==
  /\ Serving /\ CancelHandler(d)
  /\ UNCHANGED <<healthVars, environment>>

HealthChecked ==
  /\ Serving /\ Health
  /\ UNCHANGED <<cancelling, environment>>

Exited ==
  /\ \E c \in Containers : ContainerExits(c)
  /\ UNCHANGED <<cancelling, healthVars, boot, crashes>>

Next ==
  \/ Requested
  \/ \E p \in Runs : Advanced(p)
  \/ \E d \in Cancels : CancelArrives(d) \/ CancelHandled(d)
  \/ HealthChecked
  \/ Exited
  \/ Crash
  \/ Startup
  \/ Rest

Spec == Init /\ [][Next]_vars

(* Every run, cancel request, health pass and start-up that can go on does:*)
(* goroutines are scheduled, calls return or time out, and whoever waits   *)
(* on the rollout channel gets it in turn.  The health ticker ticks.       *)
(* Nobody is obliged to deploy, cancel, disconnect, exit or crash.         *)
FairSpec ==
  /\ Spec
  /\ \A p \in Runs : WF_vars(Advanced(p))
  /\ \A d \in Cancels : WF_vars(CancelHandled(d))
  /\ WF_vars(HealthChecked)
  /\ WF_vars(Startup)

-----------------------------------------------------------------------------
(* Only one run at a time is between GetActive and its deferred unlock:    *)
(* the promise of the comment on acquireRollout.                           *)
RolloutsSerialized ==
  \A p, q \in Runs : pc[p] \notin Critical \/ pc[q] \notin Critical \/ p = q

(* Zero downtime: while PostgreSQL holds a running deployment and nobody   *)
(* stops the application, Caddy dials a container that is up -- between    *)
(* any two calls of any rollout, successful, failed or undone.             *)
StopBegun == \E s \in Stops : pc[s] \in {"stopDomains", "stopFind", "stopContainer", "stopRow"}

ServedWhileRunning ==
  (RunningRows # {} /\ ~StopBegun) =>
    /\ route # None /\ containers[route] = "up"
    /\ HasDomain => domainRoute # None /\ containers[domainRoute] = "up"

(* At rest there is at most one running deployment, and its container is   *)
(* the one the routes dial and the only one that exists; a stopped         *)
(* application has none.                                                   *)
OneReleaseAtRest ==
  Quiescent =>
    /\ \A d, e \in RunningRows : d = e
    /\ {c \in Containers : containers[c] # "none"} = {rows[d].container : d \in RunningRows}
    /\ route = Snapshot(Active).container
    /\ HasDomain => domainRoute = route
    /\ app.status = "stopped" => RunningRows = {}

(* At rest nothing of an abandoned rollout is left: no candidate in        *)
(* PostgreSQL, and no route in Caddy nor a container in Docker that was    *)
(* ever started that is not a running deployment's.  (A container that was *)
(* only created stays behind when the context of its run is done before it *)
(* could be started: the next start of the API process removes it.)        *)
NothingLeftBehind ==
  Quiescent /\ faults = 0 =>
    /\ CandidateRows = {}
    /\ \A c \in Containers : WasStarted(c) => \E d \in RunningRows : rows[d].container = c
    /\ route # None => \E d \in RunningRows : rows[d].container = route

(* A candidate recorded in PostgreSQL is the container of the run that     *)
(* holds the rollout lock and is still working on it.                      *)
CandidateHasOwner ==
  \A d \in Deployments : rows[d].candidate # None =>
    LET p == rows[d].candidate
    IN  lock = p /\ RowOf(p) = d /\ pc[p] \in Critical

(* The status diagram of README.md, the rollback that makes a retired      *)
(* deployment run again and the stop of a release that failed.  A deleted  *)
(* application takes its rows along.                                       *)
Transitions ==
  {<<"absent", "pending">>, <<"pending", "building">>, <<"building", "running">>}
  \cup {<<s, "cancel_requested">> : s \in {"pending", "building"}}
  \cup {<<"cancel_requested", "cancelled">>}
  \cup {<<s, "failed">> : s \in {"pending", "building"}}
  \cup {<<"running", s>> : s \in Rollbackable \cup {"failed"}}
  \cup {<<s, "running">> : s \in Rollbackable}
  \cup {<<"failed", "stopped">>}
  \cup {<<s, "absent">> : s \in Status}

LegalTransitions ==
  [][\A d \in Deployments :
       rows'[d].status # rows[d].status
         => <<rows[d].status, rows'[d].status>> \in Transitions]_vars

(* A cancelled deployment stays cancelled and never gets a container or a  *)
(* route: whichever of the cancel request and the pipeline marked it, the  *)
(* other one noticed.                                                      *)
CancelledIsFinal ==
  [][\A d \in Deployments : rows[d].status = "cancelled" =>
       /\ rows'[d].status \in {"cancelled", "absent"}
       /\ containers[d] = "none" => containers'[d] = "none"
       /\ route # d => route' # d]_vars

(* No promoted container is orphaned: at rest the only container of the    *)
(* application that was ever started is the one its route dials.           *)
NoPromotedOrphan ==
  Quiescent => \A c \in Containers : WasStarted(c) => c = route

(* The row of an application goes only once the release that its deletion  *)
(* found running is gone from Docker: a clean-up that fails, or is cut     *)
(* short with its request, keeps the row.                                  *)
DeletionCleansUpFirst ==
  [][\A s \in Deletes :
       (At(s, "deleteApp") /\ app' # app /\ previous[s].container # None)
         => containers[previous[s].container] = "none"]_vars

(* Nothing serves an application that has been deleted.                    *)
DeletedIsGone ==
  (Quiescent /\ app.status = "deleted") =>
    route = None /\ \A c \in Containers : containers[c] = "none"

(* A run that waits for the rollout lock ends: no run dies holding it, and *)
(* no two wait for each other.                                             *)
RolloutsEnd == \A p \in Runs : At(p, "lock") ~> At(p, "done")

(* A created deployment reaches a final status.                            *)
DeploymentsConclude ==
  \A d \in Deployments :
    rows[d].status = "pending" ~> rows[d].status \notin {"pending", "building", "cancel_requested"}

(* A running deployment whose container is gone does not stay running.     *)
DeadReleaseNoticed ==
  \A d \in Deployments :
    (rows[d].status = "running" /\ containers[rows[d].container] # "up")
      ~> rows[d].status # "running"
=============================================================================
