--------------------------- MODULE WebhookDelivery ---------------------------
(***************************************************************************)
(* service/github_webhook.go: GitHub announces a push, possibly more than  *)
(* once and possibly at the same time, and every application that follows  *)
(* the pushed branch of that repository gets one deployment.  Meanwhile    *)
(* users reconfigure the applications' Git sources                         *)
(* (service/git_source.go, sql/queries/git_source.sql).                    *)
(*                                                                         *)
(* One repository; signature, decoding and events other than pushes are    *)
(* left out.  What becomes of a deployment is the subject of Rollout.      *)
(***************************************************************************)
EXTENDS Naturals, FiniteSets

CONSTANTS Apps, Deliveries,  (* the applications, GitHub's delivery ids   *)
          Attempts,          (* the HTTP requests that deliver them       *)
          Branches, Installations, None,
          Changing,          (* the applications users reconfigure        *)
          MaxChanges,        (* bound on the changes of each              *)
          MaxFaults,         (* bound on failing calls and disconnects    *)
          MaxCrashes,        (* bound on crashes of the API process       *)
          LostReplies        (* whether a failing write may have happened *)

ASSUME WebhookAssumption ==
  /\ None \notin Installations \cup Branches
  /\ Changing \subseteq Apps
  /\ MaxChanges \in Nat /\ MaxFaults \in Nat /\ MaxCrashes \in Nat
  /\ LostReplies \in BOOLEAN

(* tracked: the ref is a branch and the push did not delete it. *)
Pushes == [branch : Branches, installation : Installations, tracked : BOOLEAN]

Sources == [access : {"none", "public", "github_app"}, branch : Branches \cup {None},
            installation : Installations \cup {None}, auto : BOOLEAN]
NoSource == [access |-> "none", branch |-> None, installation |-> None, auto |-> FALSE]

VARIABLES
  push,         (* what each delivery says; GitHub repeats it unchanged   *)
  deliveries,   (* github_webhook_deliveries: the status, or absent       *)
  sources,      (* app_git_sources                                        *)
  deployments,  (* the deployments created by pushes so far               *)
  pc,           (* the call each attempt makes next                       *)
  handling,     (* the delivery it carries                                *)
  todo,         (* the sources it has listed and not yet looked at        *)
  started,      (* the applications it has started a deployment for       *)
  outcome,      (* the status it completes the delivery with              *)
  ctxDone,      (* attempts whose HTTP client has gone                    *)
  enabling,     (* applications between the two halves of SetAutoDeploy   *)
  changes, faults, crashes

attempt == <<handling, todo, started, outcome>>
database == <<deliveries, sources, deployments>>
counters == <<changes, faults, crashes>>
vars == <<push, database, pc, attempt, ctxDone, enabling, counters>>

Deployment == [app : Apps, delivery : Deliveries, by : Attempts, branch : Branches]

TypeOK ==
  /\ push \in [Deliveries -> Pushes]
  /\ deliveries \in [Deliveries -> {"absent", "received", "ignored", "accepted", "failed"}]
  /\ sources \in [Apps -> Sources]
  /\ deployments \subseteq Deployment
  /\ pc \in [Attempts -> {"new", "list", "deploy", "complete", "done"}]
  /\ handling \in [Attempts -> Deliveries \cup {None}]
  /\ todo \in [Attempts -> SUBSET Apps]
  /\ started \in [Attempts -> SUBSET Apps]
  /\ outcome \in [Attempts -> {"ignored", "accepted", "failed"}]
  /\ ctxDone \subseteq Attempts
  /\ enabling \subseteq Apps
  /\ changes \in [Apps -> 0..MaxChanges] /\ faults \in 0..MaxFaults /\ crashes \in 0..MaxCrashes

(* The applications follow GitHub App sources already, or have none yet. *)
Init ==
  /\ push \in [Deliveries -> Pushes]
  /\ deliveries = [d \in Deliveries |-> "absent"]
  /\ sources \in [Apps -> {NoSource} \cup
                    [access : {"github_app"}, branch : Branches,
                     installation : Installations, auto : {TRUE}]]
  /\ deployments = {}
  /\ pc = [a \in Attempts |-> "new"]
  /\ handling = [a \in Attempts |-> None]
  /\ todo = [a \in Attempts |-> {}]
  /\ started = [a \in Attempts |-> {}]
  /\ outcome = [a \in Attempts |-> "ignored"]
  /\ ctxDone = {}
  /\ enabling = {}
  /\ changes = [app \in Apps |-> 0] /\ faults = 0 /\ crashes = 0

-----------------------------------------------------------------------------
Fault == faults < MaxFaults /\ faults' = faults + 1
NoFault == UNCHANGED faults
Works(a) == a \notin ctxDone /\ NoFault
Fails(a) == IF a \in ctxDone THEN NoFault ELSE Fault
Uncertain(old, new) == IF LostReplies THEN {old, new} ELSE {old}

Goto(a, stage) == pc' = [pc EXCEPT ![a] = stage]
CompleteAs(a, status) ==
  outcome' = [outcome EXCEPT ![a] = status] /\ Goto(a, "complete")

(* Claim: INSERT ... ON CONFLICT DO NOTHING RETURNING. *)
ClaimedAsPending(d) == [deliveries EXCEPT ![d] = IF @ = "absent" THEN "pending" ELSE @]
Claimed(d) == [deliveries EXCEPT ![d] = IF @ = "absent" THEN "received" ELSE @]
WinsUnlessSettled(d) == deliveries[d] \in {"absent", "received"}
Wins(d) == deliveries[d] = "absent"

(* A delivery that was claimed before is a duplicate; a claimed push that  *)
(* is not of a branch is completed at once.                                *)
Claim(a, d) ==
  /\ pc[a] = "new"
  /\ handling' = [handling EXCEPT ![a] = d]
  /\ \/ /\ Works(a) /\ deliveries' = Claimed(d)
        /\ \/ ~Wins(d) /\ Goto(a, "done") /\ UNCHANGED outcome
           \/ Wins(d) /\ push[d].tracked /\ Goto(a, "list") /\ UNCHANGED outcome
           \/ Wins(d) /\ ~push[d].tracked /\ CompleteAs(a, "ignored")
     \/ /\ Fails(a) /\ deliveries' \in Uncertain(deliveries, Claimed(d))
        /\ Goto(a, "done") /\ UNCHANGED outcome
  /\ UNCHANGED <<push, sources, deployments, todo, started, ctxDone, enabling, changes, crashes>>

(* ListAutoDeployByRepository with the loop's two tests: the branch and    *)
(* the installation of the row that was read.                              *)
FollowsAny(source, p) ==
  source.access = "github_app" /\ source.auto /\ source.installation = p.installation
Follows(source, p) ==
  /\ source.access = "github_app" /\ source.auto
  /\ source.branch = p.branch /\ source.installation = p.installation

ListSources(a) ==
  /\ pc[a] = "list"
  /\ \/ /\ Works(a)
        /\ todo' = [todo EXCEPT ![a] = {app \in Apps : Follows(sources[app], push[handling[a]])}]
        /\ Goto(a, "deploy") /\ UNCHANGED outcome
     \/ Fails(a) /\ CompleteAs(a, "failed") /\ UNCHANGED todo
  /\ UNCHANGED <<push, database, handling, started, ctxDone, enabling, changes, crashes>>

(* apps.GetByID and CreateTriggered for one listed source; a failure is    *)
(* logged and passed over.  The row is the one that was listed, whatever   *)
(* has become of the Git source since.                                     *)
DeployFor(a, app) ==
  LET new == [app |-> app, delivery |-> handling[a], by |-> a,
              branch |-> push[handling[a]].branch]
  IN  \/ /\ Works(a)
         /\ deployments' = deployments \cup {new}
         /\ started' = [started EXCEPT ![a] = @ \cup {app}]
      \/ /\ Fails(a)
         /\ deployments' \in Uncertain(deployments, deployments \cup {new})
         /\ UNCHANGED started

(* The loop takes the rows in the order of their application's id, which   *)
(* is any order.                                                           *)
DeployNext(a) ==
  /\ pc[a] = "deploy"
  /\ \E app \in todo[a] : DeployFor(a, app) /\ todo' = [todo EXCEPT ![a] = @ \ {app}]
  /\ UNCHANGED <<push, deliveries, sources, pc, handling, outcome, ctxDone, enabling, changes, crashes>>

(* The loop is over: ignored when nothing was started. *)
AlwaysAccepted(a) == "accepted"
Verdict(a) == IF started[a] = {} THEN "ignored" ELSE "accepted"

LoopDone(a) ==
  /\ pc[a] = "deploy" /\ todo[a] = {}
  /\ CompleteAs(a, Verdict(a))
  /\ UNCHANGED <<push, database, handling, todo, started, ctxDone, enabling, counters>>

(* Complete, with a context that the client cannot cancel; a failure is    *)
(* logged and passed over.                                                 *)
CompleteWhileConnected(a) ==
  /\ pc[a] = "complete" /\ Goto(a, "done")
  /\ \/ Works(a) /\ deliveries' = [deliveries EXCEPT ![handling[a]] = outcome[a]]
     \/ Fails(a) /\ UNCHANGED deliveries
  /\ UNCHANGED <<push, sources, deployments, attempt, ctxDone, enabling, changes, crashes>>

Complete(a) ==
  /\ pc[a] = "complete" /\ Goto(a, "done")
  /\ \/ NoFault /\ deliveries' = [deliveries EXCEPT ![handling[a]] = outcome[a]]
     \/ Fault /\ UNCHANGED deliveries
  /\ UNCHANGED <<push, sources, deployments, attempt, ctxDone, enabling, changes, crashes>>

(* GitHub gives up on the request. *)
Disconnect(a) ==
  /\ pc[a] \notin {"new", "done"} /\ a \notin ctxDone /\ Fault
  /\ ctxDone' = ctxDone \cup {a}
  /\ UNCHANGED <<push, database, pc, attempt, enabling, changes, crashes>>

-----------------------------------------------------------------------------
(* Users change what an application follows. *)
Change(app) == changes[app] < MaxChanges /\ changes' = [changes EXCEPT ![app] = @ + 1]

(* Upsert: a public source loses auto-deploy, a GitHub App source keeps    *)
(* what the row had.                                                       *)
AutoKept(app, access) == access = "github_app" /\ sources[app].auto

Upserted(app, access, branch, installation) ==
  [sources EXCEPT ![app] = [access |-> access, branch |-> branch, installation |-> installation,
                            auto |-> AutoKept(app, access)]]

Configure(app, branch) ==
  Change(app) /\ sources' = Upserted(app, "public", branch, None) /\ UNCHANGED enabling
ConfigureGitHubApp(app, installation, branch) ==
  Change(app) /\ sources' = Upserted(app, "github_app", branch, installation) /\ UNCHANGED enabling
DeleteSource(app) ==
  /\ Change(app) /\ sources[app] # NoSource
  /\ sources' = [sources EXCEPT ![app] = NoSource] /\ UNCHANGED enabling

(* SetAutoDeploy(true): the access mode is checked on a row read before    *)
(* the update; the update finds the row by application alone.              *)
CheckAutoDeploy(app) ==
  /\ Change(app) /\ app \notin enabling /\ sources[app].access = "github_app"
  /\ enabling' = enabling \cup {app} /\ UNCHANGED sources
EnableAutoDeploy(app) ==
  /\ app \in enabling /\ enabling' = enabling \ {app}
  /\ sources' = IF sources[app].access = "none" THEN sources
                ELSE [sources EXCEPT ![app].auto = TRUE]
  /\ UNCHANGED changes
DisableAutoDeploy(app) ==
  /\ Change(app) /\ sources[app].access # "none"
  /\ sources' = [sources EXCEPT ![app].auto = FALSE] /\ UNCHANGED enabling

Reconfigure ==
  /\ \E app \in Changing :
       \/ \E branch \in Branches : Configure(app, branch)
       \/ \E branch \in Branches, i \in Installations : ConfigureGitHubApp(app, i, branch)
       \/ DeleteSource(app) \/ CheckAutoDeploy(app) \/ EnableAutoDeploy(app) \/ DisableAutoDeploy(app)
  /\ UNCHANGED <<push, deliveries, deployments, pc, attempt, ctxDone, faults, crashes>>

(* The API process dies with every request it was handling. *)
Crash ==
  /\ crashes < MaxCrashes /\ crashes' = crashes + 1
  /\ pc' = [a \in Attempts |-> IF pc[a] = "new" THEN "new" ELSE "done"]
  /\ enabling' = {}
  /\ UNCHANGED <<push, database, attempt, ctxDone, changes, faults>>

-----------------------------------------------------------------------------
Handle(a) == ListSources(a) \/ DeployNext(a) \/ LoopDone(a) \/ Complete(a)

Quiescent == \A a \in Attempts : pc[a] \in {"new", "done"}
Rest == Quiescent /\ UNCHANGED vars

Next ==
  \/ \E a \in Attempts : (\E d \in Deliveries : Claim(a, d)) \/ Handle(a) \/ Disconnect(a)
  \/ Reconfigure
  \/ Crash
  \/ Rest

Spec == Init /\ [][Next]_vars

(* A request the server has begun to handle goes on.  GitHub owes nothing, *)
(* neither a delivery nor a second one.                                    *)
FairSpec == Spec /\ \A a \in Attempts : WF_vars(Handle(a))

-----------------------------------------------------------------------------
(* README.md:604, "deduplicates deliveries": however often and however     *)
(* concurrently a push is delivered, an application gets one deployment    *)
(* from it -- even if calls fail, requests are abandoned or the process    *)
(* restarts in between.                                                    *)
OncePerDelivery ==
  \A x, y \in deployments : (x.app = y.app /\ x.delivery = y.delivery) => x = y

(* README.md:604, "repository, installation, and branch all match": once   *)
(* an undisturbed delivery has been handled, exactly the applications that *)
(* follow its branch have a deployment for it, whatever happened to the    *)
(* Git sources of the others meanwhile.                                    *)
DeploysFollowers ==
  (Quiescent /\ faults = 0 /\ crashes = 0) =>
    \A d \in Deliveries, app \in Apps : (deliveries[d] # "absent" /\ changes[app] = 0) =>
      ((\E x \in deployments : x.delivery = d /\ x.app = app)
         <=> /\ push[d].tracked
             /\ sources[app] = [access |-> "github_app", branch |-> push[d].branch,
                                installation |-> push[d].installation, auto |-> TRUE])

(* What the delivery table says of a delivery is what was done for it, at  *)
(* every moment: nothing is deployed before the claim, an accepted one has *)
(* a deployment, and an ignored or failed one has none -- unless a reply   *)
(* was lost, which hides a deployment that was created.                    *)
RecordIsTrue ==
  \A d \in Deliveries :
    LET made == \E x \in deployments : x.delivery = d
    IN  /\ deliveries[d] = "accepted" => made
        /\ deliveries[d] = "absent" => ~made
        /\ (deliveries[d] \in {"ignored", "failed"} /\ faults = 0) => ~made

(* A delivery that was claimed is completed, even if GitHub disconnects:   *)
(* only a crash, or a call that fails, leaves it received.                 *)
DeliveriesSettle ==
  \A d \in Deliveries :
    deliveries[d] = "received"
      ~> \/ deliveries[d] # "received"
         \/ crashes > 0 \/ faults > Cardinality(ctxDone)
=============================================================================
