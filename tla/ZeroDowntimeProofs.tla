------------------------- MODULE ZeroDowntimeProofs -------------------------
(***************************************************************************)
(* A release is replaced without downtime, and nothing of a replacement    *)
(* that was given up stays behind.                                         *)
(*                                                                         *)
(* ServedWhileRunning looks at the routes, the containers and the running  *)
(* rows only.  Why it holds depends on where the run that has the lock is, *)
(* so the invariant (ServiceInv) says for every stage of a rollout and of  *)
(* a stop, and for a process that starts again, which container the routes *)
(* dial and which rows may run; one lemma per stage shows that the step    *)
(* taken there leads to what holds at the next.                            *)
(***************************************************************************)
EXTENDS DeploymentSystemProofs

-----------------------------------------------------------------------------
LEMMA FaultCounts == TypeOK => ~(NoFault /\ Fault)
  BY RunsAssumption DEF TypeOK, RolloutTypeOK, NoFault, Fault

LEMMA CandidateRow ==
  ASSUME rows \in Rows, NEW d \in Deployments, NEW c, Exists(d)
  PROVE  WithCandidate(d, c)[d].candidate = c
  <1>1. rows[d] \in Row
    BY DEF Rows
  <1>2. [rows[d] EXCEPT !.candidate = c].candidate = c
    BY <1>1 DEF Row
  <1> QED BY <1>2, UpdateEffect DEF WithCandidate

(* Candidates: as long as no reply is lost and ClearCandidate works, the   *)
(* one a row records is that of the run under the lock, and its row        *)
(* records it; only a crash leaves one behind, until it is recovered.      *)
Owning == {"ready", "switch", "sync", "recheck", "promote", "restore", "cleanup", "clear"}

Owner(p, d) == lock = p /\ RowOf(p) = d /\ pc[p] \in Owning

OwnInv ==
  /\ \A d \in Deployments, c \in Containers :
       rows[d].candidate = c => Owner(c, d) \/ boot = "recovering"
  /\ \A p \in Containers : pc[p] \in Owning /\ Exists(RowOf(p)) => rows[RowOf(p)].candidate = p

ClearWorks == \A p \in Containers : At(p, "clear") /\ pc'[p] # pc[p] => NoFault

LEMMA CandidateFields ==
  ASSUME TypeOK, [Next]_vars, NEW e \in Deployments
  PROVE  \/ rows'[e].candidate = rows[e].candidate
         \/ rows'[e].candidate = None
            /\ (Inserting(e) \/ ~Exists(e)' \/ boot = "recovering"
                \/ \E p \in Containers : Clearing(e, p) \/ Promoting(e, p))
         \/ \E p \in Containers : Recording(e, p) /\ rows'[e].candidate = p
  <1>1. RowStep(e)
    BY RowsStep
  <1>2. CASE Inserting(e)
    BY <1>2 DEF Inserting
  <1>3. CASE Deleting(e)
    BY <1>3 DEF Deleting, NoRow, Exists
  <1>4. CASE AskingCancel(e) \/ Cancelling(e)
    BY <1>4 DEF AskingCancel, Cancelling, CancelSet
  <1>5. CASE Building(e) \/ Failing(e)
    BY <1>5 DEF Building, Failing, StatusSet
  <1>6. ASSUME NEW p \in Containers, Recording(e, p) PROVE rows'[e].candidate = p
    BY <1>6 DEF Recording, CandidateSet
  <1>7. ASSUME NEW p \in Containers, Clearing(e, p) \/ Promoting(e, p) PROVE rows'[e].candidate = None
    BY <1>7 DEF Clearing, CandidateSet, Promoting, PromotedTo
  <1>8. ASSUME NEW p, Retiring(e, p) \/ Stopping(e, p) PROVE rows'[e].candidate = rows[e].candidate
    BY <1>8 DEF Retiring, Stopping, StatusSet
  <1>9. CASE Abandoning(e)
    BY <1>9 DEF Abandoning
  <1> QED
    BY <1>1, <1>2, <1>3, <1>4, <1>5, <1>6, <1>7, <1>8, <1>9 DEF RowStep

LEMMA RowOfKept ==
  ASSUME TypeOK, [Next]_vars, NEW p \in Containers, pc[p] # "new"
  PROVE  RowOf(p)' = RowOf(p)
  BY TargetSteps DEF TargetStep, At, RowOf, IsBuild, Containers

LEMMA OwnerStep ==
  ASSUME TypeOK, LockInv, LockInv', ShapeInv, OwnInv, [Next]_vars, ClearWorks, ~LostReplies,
         boot = "recovering" => \A d \in RunningRows : rows[d].candidate = None,
         NEW d \in Deployments, NEW c \in Containers, rows'[d].candidate = c
  PROVE  Owner(c, d)' \/ boot' = "recovering"
  <1>0. /\ rows \in Rows /\ rows[d] \in Row /\ pc \in [Runs -> Stages]
    BY TypeFacts DEF TypeOK, RolloutTypeOK, Rows
  <1>1. ASSUME NEW p \in Containers, RowOf(p) = d, pc[p] # "new", pc'[p] \in Owning
        PROVE  Owner(p, d)'
    <2>1. lock' = p
      BY <1>1, RunsIncluded DEF LockInv, Owning, Critical
    <2> QED BY <1>1, <2>1, RowOfKept DEF Owner
  <1>2. ASSUME NEW p \in Containers, Recording(d, p), rows'[d].candidate = p
        PROVE  Owner(p, d)'
    BY <1>1, <1>2 DEF Recording, At, Owning
  <1>3. CASE rows'[d].candidate = rows[d].candidate
    <2>1. c \in Runs /\ c # None /\ Exists(d)
      BY <1>3, RunsIncluded, NamesAssumption DEF ShapeInv, RowsInv
    <2>2. CASE boot = "recovering"
      <3>1. ~RecoveryDone
        BY <1>0, <1>3, <2>1, <2>2 DEF RecoveryDone, CandidateRows, RunningRows
      <3>2. ~Serving /\ ~Reconcile
        BY <2>2 DEF Serving, Reconcile
      <3> QED
        BY <2>2, <3>1, <3>2 DEF Next, Requested, Advanced, CancelArrives, CancelHandled, HealthChecked,
             Exited, Crash, Startup, RecoverCandidate, environment, Rest, vars
    <2>3. CASE Owner(c, d) /\ pc'[c] \in Owning
      <3>1. pc[c] # "new" /\ RowOf(c) = d
        BY <2>3 DEF Owner, Owning
      <3> QED BY <1>1, <1>3, <2>1, <2>3, <3>1
    <2>4. CASE Owner(c, d) /\ pc'[c] \notin Owning
      <3>1. CASE Crash
        BY <3>1 DEF Crash
      <3>2. CASE ~Crash
        <4>1. Advanced(c) /\ Flow(pc[c], pc'[c])
          BY <2>1, <2>4, <3>2, MovedBy, StagesStep DEF Owner, Owning, StageStep
        <4>2. (pc[c] = "promote" /\ pc'[c] = "publish") \/ (pc[c] = "clear" /\ pc'[c] = "settle")
          BY <2>4, <4>1 DEF Owner, Owning, Flow
        <4>3. CASE pc[c] = "promote" /\ pc'[c] = "publish"
          <5>1. PromoteCandidate(c)
            BY <2>1, <4>1, <4>3, ReplaceActions DEF Advanced
          <5>2. rows' = Promoted(d, c)
            BY <1>0, <2>1, <2>4, <4>3, <5>1 DEF PromoteCandidate, To, Owner
          <5>3. rows'[d].candidate = None
            BY <1>0, <2>1, <5>2, PromotedRow DEF PromotedTo
          <5> QED BY <1>3, <2>1, <5>3
        <4>4. CASE pc[c] = "clear" /\ pc'[c] = "settle"
          <5>1. ClearCandidate(c) /\ NoFault
            BY <2>1, <4>1, <4>4, ReplaceActions DEF Advanced, ClearWorks, At
          <5>2. rows' = WithCandidate(d, None)
            BY <2>4, <5>1, FaultCounts DEF ClearCandidate, Owner
          <5>3. rows'[d].candidate = None
            BY <1>0, <2>1, <5>2, CandidateRow
          <5> QED BY <1>3, <2>1, <5>3
        <4> QED BY <4>2, <4>3, <4>4
      <3> QED BY <3>1, <3>2
    <2> QED BY <1>3, <2>2, <2>3, <2>4 DEF OwnInv
  <1> QED BY <1>2, <1>3, CandidateFields, NamesAssumption

LEMMA HolderStep ==
  ASSUME TypeOK, LockInv, LockInv', ShapeInv, BootInv, OwnInv, [Next]_vars, ~LostReplies,
         NEW p \in Containers, NEW d \in Deployments,
         pc'[p] \in Owning, RowOf(p)' = d, Exists(d)'
  PROVE  rows'[d].candidate = p
  <1>0. /\ rows \in Rows /\ rows[d] \in Row /\ pc \in [Runs -> Stages] /\ p \in Runs
    BY TypeFacts, RunsIncluded DEF TypeOK, RolloutTypeOK, Rows
  <1>1. /\ pc[p] \in Owning \/ (pc[p] = "candidate" /\ pc'[p] = "ready")
        /\ pc[p] # "new"
    BY <1>0, StagesStep DEF StageStep, Flow, Owning
  <1>2. RowOf(p) = d /\ lock = p
    BY <1>0, <1>1, RowOfKept DEF LockInv, Owning, Critical
  <1>3. \A q \in Containers : pc[q] \in {"candidate", "clear", "promote"} => q = p
    BY <1>2, RunsIncluded DEF LockInv, Critical
  <1>4. boot = "serving"
    BY <1>0, <1>1 DEF BootInv, Owning
  <1>5. ~Inserting(d)
    <2>1. ASSUME At(d, "new") PROVE FALSE
      <3>1. Fresh(d) /\ p # d
        BY <1>1, <2>1 DEF Fresh, BeforeLock, At, Owning
      <3>2. p \in Rollbacks /\ target[p] = d
        BY <1>2, <3>1 DEF RowOf, IsBuild, Containers
      <3> QED BY <3>1, <3>2 DEF ShapeInv, FreshInv
    <2> QED BY <2>1 DEF Inserting
  <1>6. Exists(d)
    <2>1. Exists(d) \/ app.status = "deleted"
      BY <1>1, <1>2 DEF ShapeInv, RowsInv
    <2>2. ~Exists(d) => rows'[d] = rows[d] \/ rows'[d] = NoRow
      BY <1>5, RowsStep DEF RowStep, Deleting, AskingCancel, Cancelling, Building, Failing,
         Recording, Clearing, Promoting, Retiring, Stopping, Abandoning, CandidateRows
    <2> QED BY <2>2 DEF Exists, NoRow
  <1>7. CASE pc[p] \in Owning
    <2>1. rows[d].candidate = p
      BY <1>2, <1>6, <1>7 DEF OwnInv
    <2>2. ASSUME NEW q \in Containers, Recording(d, q) \/ Clearing(d, q) \/ Promoting(d, q) PROVE FALSE
      <3>1. q = p
        BY <1>3, <2>2 DEF Recording, Clearing, Promoting, At
      <3> QED BY <1>7, <2>2, <3>1 DEF Recording, Clearing, Promoting, At, Owning
    <2> QED BY <1>4, <1>5, <2>1, <2>2, CandidateFields
  <1>8. CASE pc[p] = "candidate" /\ pc'[p] = "ready"
    <2>1. Advanced(p)
      BY <1>0, <1>8, MovedBy DEF Crash, At
    <2>2. SaveCandidate(p)
      BY <1>8, <2>1, ReplaceActions DEF Advanced
    <2>3. rows' = WithCandidate(d, p)
      BY <1>0, <1>2, <1>8, <2>2 DEF SaveCandidate, To
    <2> QED BY <1>0, <1>6, <2>3, CandidateRow
  <1> QED BY <1>1, <1>7, <1>8

LEMMA OwnInvStep ==
  ASSUME TypeOK, LockInv, LockInv', ShapeInv, ShapeInv', BootInv, OwnInv, [Next]_vars, ClearWorks, ~LostReplies,
         boot = "recovering" => \A d \in RunningRows : rows[d].candidate = None
  PROVE  OwnInv'
  <1>1. ASSUME NEW p \in Containers, pc'[p] \in Owning, Exists(RowOf(p))'
        PROVE  rows'[RowOf(p)'].candidate = p
    <2>1. RowOf(p)' \in Deployments
      BY <1>1 DEF RowOf, IsBuild, Containers, ShapeInv, ReleaseInv, Owning
    <2>2. Exists(RowOf(p))' => rows'[RowOf(p)'].status # "absent"
      BY DEF Exists
    <2> QED BY <1>1, <2>1, HolderStep
  <1> QED BY <1>1, OwnerStep DEF OwnInv

(* No candidate outlives its run: a row names one only while the run that  *)
(* started it holds the rollout lock and is still at work, in a process    *)
(* that lives on and as long as ClearCandidate reaches the database.  Other*)
(* faults, interrupts and cancellations do not matter.                     *)
THEOREM CandidatesOwned ==
  ASSUME ~LostReplies, MaxCrashes = 0
  PROVE  Spec /\ [][ClearWorks]_vars => []CandidateHasOwner
  <1> DEFINE I == OwnInv /\ boot = "serving"
  <1>1. Init => I
    BY NamesAssumption DEF Init, RolloutInit, StoreInit, OwnInv, NoRow, Owning, Runs, Containers
  <1>2. /\ TypeOK /\ TypeOK' /\ LockInv /\ LockInv' /\ ShapeInv /\ ShapeInv' /\ I
        /\ [Next]_vars /\ [ClearWorks]_vars
        => I'
    <2> SUFFICES ASSUME TypeOK, TypeOK', LockInv, LockInv', ShapeInv, ShapeInv', I,
                        [Next]_vars, [ClearWorks]_vars
                 PROVE  I'
      OBVIOUS
    <2>1. ClearWorks
      BY DEF ClearWorks, vars, rolloutVars
    <2>2. BootInv
      BY DEF BootInv
    <2>3. OwnInv'
      BY <2>1, <2>2, OwnInvStep
    <2>4. ~Crash
      BY SystemAssumption DEF Crash, TypeOK
    <2>5. boot' = "serving"
      BY <2>4 DEF Next, Requested, Advanced, CancelArrives, CancelHandled, HealthChecked, Exited,
           Startup, RecoverCandidate, RecoveryDone, Reconcile, Rest, environment, vars
    <2> QED BY <2>3, <2>5
  <1>3. TypeOK /\ I => CandidateHasOwner
    <2> SUFFICES ASSUME TypeOK, I, NEW d \in Deployments, rows[d].candidate # None
                 PROVE  LET p == rows[d].candidate IN lock = p /\ RowOf(p) = d /\ pc[p] \in Critical
      BY DEF CandidateHasOwner
    <2>1. rows[d].candidate \in Containers
      BY TypeFacts DEF TypeOK, Rows, Row
    <2> QED BY <2>1 DEF OwnInv, Owner, Owning, Critical
  <1> HIDE DEF I
  <1> QED
    BY <1>1, <1>2, <1>3, TypeInvariant, LockInvariant, ShapeInvariant, PTL DEF Spec

-----------------------------------------------------------------------------
(* Zero downtime.  ServedWhileRunning holds through faults, interrupts and *)
(* crashes as long as none of them strikes after the commit point of a     *)
(* run, and no call that undoes a rollout fails:                           *)
Committed == {"publish", "removePrevious", "retire",
              "stopDomains", "stopFind", "stopContainer", "stopRow"}
Undoing == {"restore", "cleanup", "clear"}

Spared ==
  /\ \A p \in Runs : pc[p] \in Committed \cup Undoing /\ pc'[p] # pc[p] => NoFault
  /\ \A p \in ctxDone' \ ctxDone : pc[p] \notin Committed
  /\ crashes' # crashes => \A p \in Runs : pc[p] \notin Committed
  /\ exits' = exits

Timely == \A p \in ctxDone : pc[p] \notin Committed

LEMMA CommitActions ==
  ASSUME NEW p \in Runs, Advance(p)
  PROVE  /\ pc[p] = "promote" => p \in Containers /\ PromoteCandidate(p)
         /\ pc[p] = "stopRoute" => p \in Stops /\ StopRemoveRoute(p)
  <1>1. CASE p \in Containers
    <2>1. pc[p] # "stopRoute"
      <3>1. p \notin Stops
        BY <1>1, RunsAssumption
      <3> QED
        BY <3>1 DEF Advance, Pipeline, Register, ReadCancelFlag, FetchSource, AcquireBuild, MarkBuilding,
           BuildImage, PrepareRun, MarkRowFailed, MarkAppAfterFailure, AcquireRollout,
           GiveUpRollout, Unwind, Replace, ReadActive, RunContainer, SaveCandidate, AwaitReady,
           SwitchRoute, SyncDomains, RecheckCancel, PromoteCandidate, PublishApp, RemovePrevious,
           RetirePrevious, RestorePrevious, CleanupCandidate, ClearCandidate, SettleRun, At
    <2> QED BY <1>1, <2>1, ReplaceActions
  <1>2. CASE p \in Stops
    <2>1. p \notin Deployments /\ p \notin Containers
      BY <1>2, RunsAssumption DEF Containers
    <2>2. pc[p] # "promote"
      BY <2>1 DEF Advance, AcquireRollout, GiveUpRollout, Unwind, Stop, StopRemoveRoute, StopRemoveDomains,
         StopFindRelease, StopRemoveContainer, StopMarkRow, StopMarkApp, DeleteApp, At
    <2> QED BY <1>2, <2>2, StopActions
  <1> QED BY <1>1, <1>2 DEF Runs, Containers

LEMMA TimelyStep ==
  ASSUME TypeOK, TypeOK', Timely, [Next]_vars, Spared
  PROVE  Timely'
  <1> SUFFICES ASSUME NEW p, p \in ctxDone', pc'[p] \in Committed PROVE FALSE
    BY DEF Timely
  <1>0. p \in Runs /\ pc \in [Runs -> Stages]
    BY DEF TypeOK, RolloutTypeOK
  <1>1. pc[p] \notin Committed
    BY DEF Timely, Spared
  <1>2. (pc[p] = "promote" /\ pc'[p] = "publish") \/ (pc[p] = "stopRoute" /\ pc'[p] = "stopDomains")
    BY <1>0, <1>1, StagesStep DEF StageStep, Flow, Committed
  <1>3. Advanced(p)
    BY <1>0, <1>2, MovedBy DEF Crash, At
  <1>4. CASE pc[p] = "promote" /\ pc'[p] = "publish"
    <2>1. PromoteCandidate(p)
      BY <1>0, <1>3, <1>4, CommitActions DEF Advanced
    <2>2. ctxDone' = ctxDone
      BY <2>1 DEF PromoteCandidate, contexts
    <2>3. p \notin ctxDone
      BY <1>0, <1>4, <2>1 DEF PromoteCandidate, Works, To
    <2> QED BY <2>2, <2>3
  <1>5. CASE pc[p] = "stopRoute" /\ pc'[p] = "stopDomains"
    <2>1. StopRemoveRoute(p)
      BY <1>0, <1>3, <1>5, CommitActions DEF Advanced
    <2>2. ctxDone' = ctxDone
      BY <2>1 DEF StopRemoveRoute, contexts
    <2>3. p \notin ctxDone
      BY <1>0, <1>5, <2>1 DEF StopRemoveRoute, Works, To
    <2> QED BY <2>2, <2>3
  <1> QED BY <1>2, <1>4, <1>5

-----------------------------------------------------------------------------
(* Where traffic goes at every stage of a rollout.  Of the running rows    *)
(* there is at most one, except between the promotion of a release and the *)
(* retirement of the one it replaces.                                      *)
Trying == {"start", "candidate", "settle"} \cup Owning
Ending == {"stopDomains", "stopFind", "stopContainer", "stopRow"}
Busy == Trying \cup Committing \cup Ending

Up(c) == c # None /\ containers[c] = "up"

(* Nothing is under way: the running release is served.                    *)
Calm ==
  \A d \in RunningRows :
    /\ \A e \in RunningRows : d = e
    /\ route = rows[d].container /\ Up(route)
    /\ HasDomain => domainRoute = route

(* A rollout is being tried: the release it found is still running and up, *)
(* and the routes dial it, or the candidate, which is up as well.          *)
Before == {"start", "candidate", "ready", "switch", "cleanup", "clear", "settle"}
Switched == {"sync", "recheck", "promote", "restore"}

Undecided(p) ==
  /\ previous[p].dep # RowOf(p)
  /\ \A d \in RunningRows :
       /\ d = previous[p].dep
       /\ rows[d].container = previous[p].container /\ Up(previous[p].container)
       /\ pc[p] \in Before => route = previous[p].container
       /\ pc[p] \in Before \cup {"sync"} /\ HasDomain => domainRoute = previous[p].container
       /\ pc[p] = "restore" /\ HasDomain => domainRoute \in {p, previous[p].container}
  /\ pc[p] \in Switched => route = p /\ Up(p)
  /\ pc[p] = "switch" => Up(p)
  /\ pc[p] \in {"recheck", "promote"} /\ HasDomain /\ app.status # "deleted" => domainRoute = p

(* It has been promoted: the routes dial it.                               *)
Decided(p) ==
  /\ previous[p].dep # RowOf(p)
  /\ route = p /\ Up(p)
  /\ \A d \in RunningRows :
       /\ d = previous[p].dep \/ (d = RowOf(p) /\ rows[d].container = p)
       /\ HasDomain => domainRoute = p

(* The application is being stopped: no other release is running than the  *)
(* one the stop has found.                                                 *)
Ended(s) ==
  \A d \in RunningRows :
    /\ \A e \in RunningRows : d = e
    /\ pc[s] \in {"stopContainer", "stopRow"} => d = previous[s].dep

(* The process has crashed: what it left behind still serves.              *)
Recovering ==
  \A d \in RunningRows :
    /\ \A e \in RunningRows : d = e
    /\ Up(rows[d].container) /\ Up(route) /\ (HasDomain => Up(domainRoute))
    /\ CandidateRows = {} => route = rows[d].container /\ (HasDomain => domainRoute = route)
    /\ rows[d].candidate = None
    /\ \A e \in Deployments : rows[e].candidate # rows[d].container

ServiceInv ==
  /\ \A p \in Containers : pc[p] \in Trying => Undecided(p)
  /\ \A p \in Containers : pc[p] \in Committing => Decided(p)
  /\ \A s \in Stops : pc[s] \in Ending => Ended(s)
  /\ (boot # "recovering" /\ \A p \in Runs : pc[p] \notin Busy) => Calm
  /\ boot = "recovering" => Recovering

LEMMA StagesBusy == Busy \subseteq Critical
  BY DEF Busy, Trying, Committing, Ending, Owning, Critical

(* A row runs after a step if it did before, or if it has been promoted.   *)
LEMMA RunningWritten ==
  ASSUME TypeOK, [Next]_vars, NEW e \in RunningRows'
  PROVE  \/ e \in RunningRows /\ rows'[e].container = rows[e].container
         \/ \E p \in Containers : Promoting(e, p) /\ rows'[e].container = p
  <1>0. e \in Deployments /\ rows'[e].status = "running"
    BY DEF RunningRows
  <1>1. RowStep(e)
    BY <1>0, RowsStep
  <1>2. CASE rows'[e] = rows[e]
    BY <1>0, <1>2 DEF RunningRows
  <1>3. ~(Inserting(e) \/ Deleting(e) \/ Abandoning(e) \/ AskingCancel(e) \/ Cancelling(e)
          \/ Building(e) \/ Failing(e))
    BY <1>0 DEF Inserting, Deleting, NoRow, Abandoning, AskingCancel, Cancelling, CancelSet,
         Building, Failing, StatusSet
  <1>4. \A p : ~Retiring(e, p) /\ ~Stopping(e, p)
    BY <1>0 DEF Retiring, Stopping, StatusSet
  <1>5. ASSUME NEW p \in Containers, Recording(e, p) \/ Clearing(e, p)
        PROVE  e \in RunningRows /\ rows'[e].container = rows[e].container
    BY <1>0, <1>5 DEF Recording, Clearing, CandidateSet, RunningRows
  <1>6. ASSUME NEW p \in Containers, Promoting(e, p) PROVE rows'[e].container = p
    BY <1>6 DEF Promoting, PromotedTo
  <1> QED BY <1>1, <1>2, <1>3, <1>4, <1>5, <1>6 DEF RowStep

(* The running rows are fewer, and where they were. *)
Shrinks == \A d \in RunningRows' : d \in RunningRows /\ rows'[d].container = rows[d].container

LEMMA NoPromotion ==
  ASSUME TypeOK, [Next]_vars, \A p \in Containers : pc[p] = "promote" => pc'[p] # "publish", ~LostReplies
  PROVE  Shrinks
  BY RunningWritten DEF Shrinks, Promoting, At

(* A step that is no part of a busy run, and leaves the services alone.    *)
LEMMA QuietStep ==
  ASSUME TypeOK, ReportDecided, ServiceInv, [Next]_vars, Shrinks, UNCHANGED services,
         boot # "recovering", boot' # "recovering",
         \A p \in Runs : pc[p] \in Busy \/ pc'[p] \in Busy => pc'[p] = pc[p] /\ previous'[p] = previous[p]
  PROVE  ServiceInv'
  <1>0. AppStep
    BY AppSteps
  <1> USE DEF Shrinks, services, Up
  <1>1. ASSUME NEW p \in Containers, pc'[p] \in Trying PROVE Undecided(p)'
    <2>1. /\ pc'[p] = pc[p] /\ previous'[p] = previous[p] /\ Undecided(p)
      BY <1>1, RunsIncluded DEF Busy, ServiceInv
    <2>2. RowOf(p)' = RowOf(p)
      BY <1>1, <2>1, RowOfKept DEF Trying, Owning
    <2> QED BY <1>0, <2>1, <2>2 DEF Undecided, AppStep
  <1>2. ASSUME NEW p \in Containers, pc'[p] \in Committing PROVE Decided(p)'
    <2>1. /\ pc'[p] = pc[p] /\ previous'[p] = previous[p] /\ Decided(p)
      BY <1>2, RunsIncluded DEF Busy, ServiceInv
    <2>2. RowOf(p)' = RowOf(p)
      BY <1>2, <2>1, RowOfKept DEF Committing
    <2> QED BY <2>1, <2>2 DEF Decided
  <1>3. ASSUME NEW s \in Stops, pc'[s] \in Ending PROVE Ended(s)'
    <2>1. /\ pc'[s] = pc[s] /\ previous'[s] = previous[s] /\ Ended(s)
      BY <1>3, RunsIncluded DEF Busy, ServiceInv
    <2> QED BY <2>1 DEF Ended
  <1>4. (\A p \in Runs : pc'[p] \notin Busy) => Calm'
    <2>1. ASSUME \A p \in Runs : pc'[p] \notin Busy PROVE \A p \in Runs : pc[p] \notin Busy
      BY <2>1
    <2>2. (\A p \in Runs : pc[p] \notin Busy) => Calm
      BY DEF ServiceInv
    <2>3. Calm => Calm'
      BY DEF Calm
    <2> QED BY <2>1, <2>2, <2>3
  <1> QED BY <1>1, <1>2, <1>3, <1>4 DEF ServiceInv

(* The run that holds the lock moves: what holds where it arrives is all   *)
(* there is to show.                                                       *)
LEMMA BusyMove ==
  ASSUME TypeOK, LockInv, NEW p \in Runs, lock = p, boot' # "recovering",
         \A q \in Runs : q # p => pc'[q] = pc[q],
         p \in Containers /\ pc'[p] \in Trying => Undecided(p)',
         p \in Containers /\ pc'[p] \in Committing => Decided(p)',
         p \in Stops /\ pc'[p] \in Ending => Ended(p)',
         pc'[p] \notin Busy => Calm'
  PROVE  ServiceInv'
  <1>1. \A q \in Runs : q # p => pc'[q] \notin Busy
    BY StagesBusy DEF LockInv
  <1>2. \A q \in Containers : pc'[q] \in Trying => q = p
    BY <1>1, RunsIncluded DEF Busy
  <1>3. \A q \in Containers : pc'[q] \in Committing => q = p
    BY <1>1, RunsIncluded DEF Busy
  <1>4. \A q \in Stops : pc'[q] \in Ending => q = p
    BY <1>1, RunsIncluded DEF Busy
  <1> QED BY <1>2, <1>3, <1>4 DEF ServiceInv

-----------------------------------------------------------------------------
(* The steps of a rollout that has begun, stage by stage.                  *)
Setting(p) ==
  /\ TypeOK /\ ReportDecided /\ LockInv /\ ShapeInv /\ OwnInv /\ Timely /\ ServiceInv
  /\ [Next]_vars /\ Spared /\ ~LostReplies
  /\ Advanced(p)

LEMMA SettingFacts ==
  ASSUME NEW p \in Runs, Setting(p), pc[p] \in Critical
  PROVE  /\ lock = p /\ boot = "serving" /\ boot' = "serving"
         /\ pc \in [Runs -> Stages] /\ previous \in [Runs -> Releases] /\ containers \in Store /\ rows \in Rows
         /\ \A q \in Runs : q # p => pc'[q] = pc[q]
         /\ pc'[p] # pc[p]
         /\ \A q \in Runs : q # p => pc[q] \notin Busy
         /\ p \in Containers => RowOf(p)' = RowOf(p) /\ RowOf(p) \in Deployments
         /\ RunningRows # {} => app.status # "deleted"
         /\ AppStep
  <1>1. lock = p
    BY DEF LockInv, Setting
  <1>2. boot = "serving" /\ boot' = "serving"
    BY DEF Setting, Advanced, Serving, environment
  <1>3. pc \in [Runs -> Stages] /\ previous \in [Runs -> Releases] /\ containers \in Store /\ rows \in Rows
    BY TypeFacts DEF Setting, TypeOK, RolloutTypeOK
  <1>4. PICK stage : To(p, stage) /\ Flow(pc[p], stage)
    BY AdvanceFlows DEF Setting, Advanced
  <1>5. (\A q \in Runs : q # p => pc'[q] = pc[q]) /\ pc'[p] # pc[p]
    BY <1>3, <1>4 DEF To, Flow
  <1>6. \A q \in Runs : q # p => pc[q] \notin Busy
    BY <1>1, StagesBusy DEF Setting, LockInv
  <1>7. ASSUME p \in Containers PROVE RowOf(p)' = RowOf(p) /\ RowOf(p) \in Deployments
    <2>1. pc[p] # "new"
      BY DEF Critical
    <2> QED BY <1>7, <2>1, RowOfKept DEF Setting, RowOf, IsBuild, Containers, ShapeInv, ReleaseInv
  <1>8. RunningRows # {} => app.status # "deleted"
    BY DEF Setting, ShapeInv, RowsInv, RunningRows, Exists
  <1>9. AppStep
    BY AppSteps DEF Setting
  <1> QED BY <1>1, <1>2, <1>3, <1>5, <1>6, <1>7, <1>8, <1>9

(* Before the commit point a run leaves the running rows alone.            *)
LEMMA Untouched ==
  ASSUME NEW p \in Runs, Setting(p), pc[p] \in Critical, pc[p] # "promote" \/ pc'[p] # "publish"
  PROVE  Shrinks
  <1>1. ASSUME NEW q \in Containers, pc[q] = "promote" PROVE pc'[q] # "publish"
    <2>1. CASE q = p
      BY <1>1, <2>1
    <2>2. CASE q # p
      BY <1>1, <2>2, SettingFacts, RunsIncluded
    <2> QED BY <2>1, <2>2
  <1> QED BY <1>1, NoPromotion DEF Setting

(* All there is to show of a rollout's step. *)
LEMMA RolloutMove ==
  ASSUME NEW p \in Containers, Setting(p), pc[p] \in Critical,
         pc'[p] \in Trying => Undecided(p)',
         pc'[p] \in Committing => Decided(p)',
         pc'[p] \notin Busy => Calm'
  PROVE  ServiceInv'
  <1>1. p \in Runs /\ p \notin Stops
    BY RunsIncluded, RunsAssumption
  <1>2. /\ TypeOK /\ LockInv /\ lock = p /\ boot' # "recovering"
        /\ \A q \in Runs : q # p => pc'[q] = pc[q]
    BY <1>1, SettingFacts DEF Setting
  <1> QED BY <1>1, <1>2, BusyMove

(* What the lemmas about the single stages use.                            *)
Facts(p) ==
  /\ p \in Containers /\ p \in Runs /\ p # None
  /\ pc \in [Runs -> Stages] /\ previous \in [Runs -> Releases] /\ containers \in Store
  /\ RowOf(p)' = RowOf(p) /\ RowOf(p) \in Deployments
  /\ previous[p].container # p
  /\ RunningRows # {} => app.status # "deleted"
  /\ pc[p] \in Trying => Undecided(p)
  /\ pc[p] \in Committing => Decided(p)
  /\ pc[p] \notin Busy => Calm

LEMMA FactsHold ==
  ASSUME NEW p \in Containers, Setting(p), pc[p] \in Critical
  PROVE  Facts(p)
  <1>1. p \in Runs /\ p # None
    BY RunsIncluded, NamesAssumption
  <1>2. previous[p].container # p
    BY DEF Setting, ShapeInv, ReleaseInv
  <1>3. /\ pc[p] \in Trying => Undecided(p)
        /\ pc[p] \in Committing => Decided(p)
    BY DEF Setting, ServiceInv
  <1>4. pc[p] \notin Busy => Calm
    BY <1>1, SettingFacts DEF Setting, ServiceInv
  <1> QED BY <1>1, <1>2, <1>3, <1>4, SettingFacts DEF Facts

LEMMA SnapshotServes ==
  ASSUME NEW p \in Containers, Setting(p), pc[p] = "snapshot"
  PROVE  ServiceInv'
  <1>0. pc[p] \in Critical /\ Facts(p)
    BY FactsHold DEF Critical
  <1>1. ReadActive(p)
    BY <1>0, ReplaceActions DEF Setting, Advanced, Facts
  <1>2. Shrinks
    BY <1>0, Untouched DEF Facts
  <1>3. Calm /\ UNCHANGED services
    BY <1>0, <1>1 DEF Facts, ReadActive, Busy, Trying, Owning, Committing, Ending
  <1>4. Calm'
    BY <1>2, <1>3 DEF Calm, Shrinks, services, Up
  <1>5. ASSUME pc'[p] = "start" PROVE Undecided(p)'
    <2>1. previous'[p] = Snapshot(Active) /\ (~IsBuild(p) => Active # target[p])
      BY <1>0, <1>1, <1>5 DEF Facts, ReadActive, FinishCancelled, To
    <2>2. (Active = None /\ RunningRows = {}) \/ Active \in RunningRows
      BY ExtremesExist DEF Active, RunningRows
    <2>3. previous'[p].dep # RowOf(p)
      <3>1. previous'[p].dep = Active
        BY <2>1 DEF Snapshot, NoRelease
      <3>2. Active \in RunningRows => Active # p
        BY <1>0 DEF Setting, ShapeInv, FreshInv, Fresh, RunningRows, Released
      <3>3. Active = None => Active # RowOf(p)
        BY <1>0, NamesAssumption DEF Facts, Containers
      <3> QED BY <2>1, <2>2, <3>1, <3>2, <3>3 DEF RowOf
    <2>4. ASSUME NEW d \in RunningRows'
          PROVE  /\ d = previous'[p].dep /\ d \in RunningRows
                 /\ rows'[d].container = previous'[p].container
                 /\ rows'[d].container = rows[d].container
      <3>1. d \in RunningRows /\ rows'[d].container = rows[d].container
        BY <1>2 DEF Shrinks
      <3>2. d # None
        BY <3>1, NamesAssumption DEF RunningRows, Containers
      <3>3. Active = d
        BY <1>3, <2>2, <3>1 DEF Calm
      <3> QED BY <2>1, <3>1, <3>2, <3>3 DEF Snapshot
    <2>5. pc'[p] \in Before /\ pc'[p] \notin Switched /\ pc'[p] # "switch"
          /\ pc'[p] \notin {"recheck", "promote"} /\ pc'[p] # "restore"
      BY <1>5 DEF Before, Switched
    <2> HIDE DEF Before, Switched
    <2>6. ASSUME NEW d \in RunningRows'
          PROVE  /\ route' = previous'[p].container
                 /\ previous'[p].container # None /\ containers'[previous'[p].container] = "up"
                 /\ HasDomain => domainRoute' = previous'[p].container
      BY <1>4, <2>4 DEF Calm, Up
    <2> QED BY <1>0, <2>3, <2>4, <2>5, <2>6 DEF Undecided, Facts, Up
  <1>6. pc'[p] \in {"start", "fail", "unwind"}
    BY <1>0, <1>1 DEF Facts, ReadActive, FinishCancelled, To
  <1> QED
    BY <1>0, <1>4, <1>5, <1>6, RolloutMove DEF Trying, Owning, Committing

LEMMA StartServes ==
  ASSUME NEW p \in Containers, Setting(p), pc[p] = "start"
  PROVE  ServiceInv'
  <1>0. pc[p] \in Critical /\ Facts(p) /\ ~LostReplies
    BY FactsHold DEF Critical, Setting
  <1>1. RunContainer(p)
    BY <1>0, ReplaceActions DEF Setting, Advanced, Facts
  <1>2. Shrinks
    BY <1>0, Untouched DEF Facts
  <1>3. /\ pc'[p] \in {"candidate", "settle"}
        /\ previous' = previous /\ route' = route /\ domainRoute' = domainRoute
        /\ \/ containers' = containers \/ containers' = Started(p)
           \/ pc'[p] = "settle" /\ containers' = [containers EXCEPT ![p] = "created"]
    BY <1>0, <1>1 DEF RunContainer, Facts, To
  <1>4. \A c \in Containers : containers[c] = "up" /\ c # p => containers'[c] = "up"
    BY <1>0, <1>3 DEF Started, Facts, Store
  <1>5. Undecided(p)
    BY <1>0 DEF Facts, Trying
  <1>6. Undecided(p)'
    BY <1>0, <1>2, <1>3, <1>4, <1>5 DEF Undecided, Facts, Shrinks, Before, Switched, Up, Releases
  <1> QED
    BY <1>0, <1>3, <1>6, RolloutMove DEF Committing, Busy, Trying

LEMMA CandidateServes ==
  ASSUME NEW p \in Containers, Setting(p), pc[p] = "candidate"
  PROVE  ServiceInv'
  <1>0. pc[p] \in Critical /\ Facts(p)
    BY FactsHold DEF Critical
  <1>1. SaveCandidate(p)
    BY <1>0, ReplaceActions DEF Setting, Advanced, Facts
  <1>2. Shrinks
    BY <1>0, Untouched DEF Facts
  <1>3. /\ pc'[p] \in {"ready", "fail", "unwind"}
        /\ previous' = previous /\ route' = route /\ domainRoute' = domainRoute
        /\ containers' = containers \/ containers' = Removed(p)
    BY <1>0, <1>1 DEF SaveCandidate, Facts, To, memory
  <1>4. \A c \in Containers : c # p /\ containers[c] = "up" => containers'[c] = "up"
    BY <1>0, <1>3 DEF Removed, Facts, Store
  <1>5. Undecided(p)
    BY <1>0 DEF Facts, Trying
  <1>6. CASE pc'[p] = "ready"
    <2>1. Undecided(p)'
      BY <1>0, <1>2, <1>3, <1>4, <1>5, <1>6 DEF Undecided, Facts, Shrinks, Before, Switched, Up, Releases
    <2> QED BY <1>0, <1>6, <2>1, RolloutMove DEF Committing, Busy, Trying, Owning
  <1>7. CASE pc'[p] \in {"fail", "unwind"}
    <2>1. Calm'
      BY <1>0, <1>2, <1>3, <1>4, <1>5 DEF Undecided, Facts, Shrinks, Before, Up, Releases, Calm
    <2> QED BY <1>0, <1>7, <2>1, RolloutMove DEF Committing, Trying, Owning
  <1> QED BY <1>3, <1>6, <1>7

LEMMA ReadyServes ==
  ASSUME NEW p \in Containers, Setting(p), pc[p] = "ready"
  PROVE  ServiceInv'
  <1>0. pc[p] \in Critical /\ Facts(p)
    BY FactsHold DEF Critical
  <1>1. AwaitReady(p)
    BY <1>0, ReplaceActions DEF Setting, Advanced, Facts
  <1>2. Shrinks
    BY <1>0, Untouched DEF Facts
  <1>3. /\ pc'[p] \in {"switch", "cleanup"} /\ (pc'[p] = "switch" => Up(p))
        /\ previous' = previous /\ UNCHANGED services
    BY <1>0, <1>1 DEF AwaitReady, Facts, To, Up
  <1>4. Undecided(p)
    BY <1>0 DEF Facts, Trying, Owning
  <1>5. Undecided(p)'
    BY <1>0, <1>2, <1>3, <1>4 DEF Undecided, Facts, Shrinks, Before, Switched, Up, services
  <1> QED BY <1>0, <1>3, <1>5, RolloutMove DEF Committing, Busy, Trying, Owning

LEMMA SwitchServes ==
  ASSUME NEW p \in Containers, Setting(p), pc[p] = "switch"
  PROVE  ServiceInv'
  <1>0. pc[p] \in Critical /\ Facts(p) /\ ~LostReplies
    BY FactsHold DEF Critical, Setting
  <1>1. SwitchRoute(p)
    BY <1>0, ReplaceActions DEF Setting, Advanced, Facts
  <1>2. Shrinks
    BY <1>0, Untouched DEF Facts
  <1>3. /\ (pc'[p] = "sync" /\ route' = p) \/ (pc'[p] = "cleanup" /\ route' = route)
        /\ previous' = previous /\ containers' = containers /\ domainRoute' = domainRoute
    BY <1>0, <1>1 DEF SwitchRoute, Facts, To, Uncertain
  <1>4. Undecided(p)
    BY <1>0 DEF Facts, Trying, Owning
  <1>5. Undecided(p)'
    BY <1>0, <1>2, <1>3, <1>4 DEF Undecided, Facts, Shrinks, Before, Switched, Up
  <1> QED BY <1>0, <1>3, <1>5, RolloutMove DEF Committing, Busy, Trying, Owning

LEMMA SyncServes ==
  ASSUME NEW p \in Containers, Setting(p), pc[p] = "sync"
  PROVE  ServiceInv'
  <1>0. pc[p] \in Critical /\ Facts(p) /\ ~LostReplies
    BY FactsHold DEF Critical, Setting
  <1>1. SyncDomains(p)
    BY <1>0, ReplaceActions DEF Setting, Advanced, Facts
  <1>2. Shrinks
    BY <1>0, Untouched DEF Facts
  <1>3. /\ \/ pc'[p] = "recheck" /\ domainRoute' = (IF DomainKnown THEN p ELSE domainRoute)
           \/ pc'[p] = "restore" /\ domainRoute' = domainRoute
        /\ previous' = previous /\ containers' = containers /\ route' = route /\ app' = app
    BY <1>0, <1>1 DEF SyncDomains, Facts, To, Uncertain
  <1>4. Undecided(p)
    BY <1>0 DEF Facts, Trying, Owning
  <1>5. Undecided(p)'
    BY <1>0, <1>2, <1>3, <1>4
       DEF Undecided, Facts, Shrinks, Before, Switched, Up, DomainKnown
  <1> QED BY <1>0, <1>3, <1>5, RolloutMove DEF Committing, Busy, Trying, Owning

LEMMA RecheckServes ==
  ASSUME NEW p \in Containers, Setting(p), pc[p] = "recheck"
  PROVE  ServiceInv'
  <1>0. pc[p] \in Critical /\ Facts(p)
    BY FactsHold DEF Critical
  <1>1. RecheckCancel(p)
    BY <1>0, ReplaceActions DEF Setting, Advanced, Facts
  <1>2. Shrinks
    BY <1>0, Untouched DEF Facts
  <1>3. /\ pc'[p] \in {"promote", "restore"}
        /\ previous' = previous /\ app' = app /\ UNCHANGED services
    BY <1>0, <1>1 DEF RecheckCancel, Facts, To
  <1>4. Undecided(p)
    BY <1>0 DEF Facts, Trying, Owning
  <1>5. Undecided(p)'
    BY <1>0, <1>2, <1>3, <1>4
       DEF Undecided, Facts, Shrinks, Before, Switched, Up, services
  <1> QED BY <1>0, <1>3, <1>5, RolloutMove DEF Committing, Busy, Trying, Owning

(* The commit point: from here on the routes dial a release that PostgreSQL*)
(* calls running.                                                          *)
LEMMA PromoteServes ==
  ASSUME NEW p \in Containers, Setting(p), pc[p] = "promote"
  PROVE  ServiceInv'
  <1>0. pc[p] \in Critical /\ Facts(p)
    BY FactsHold DEF Critical
  <1>1. PromoteCandidate(p)
    BY <1>0, ReplaceActions DEF Setting, Advanced, Facts
  <1>2. /\ pc'[p] \in {"publish", "restore"}
        /\ previous' = previous /\ app' = app /\ UNCHANGED services
    BY <1>0, <1>1 DEF PromoteCandidate, Facts, To
  <1>3. Undecided(p)
    BY <1>0 DEF Facts, Trying, Owning
  <1>4. CASE pc'[p] = "restore"
    <2>1. Shrinks
      BY <1>0, <1>4, Untouched DEF Facts
    <2>2. Undecided(p)'
      BY <1>0, <1>2, <1>3, <1>4, <2>1
         DEF Undecided, Facts, Shrinks, Before, Switched, Up, services
    <2> QED BY <1>0, <1>4, <2>2, RolloutMove DEF Committing, Busy, Trying, Owning
  <1>5. CASE pc'[p] = "publish"
    <2>1. \A q \in Containers : pc[q] = "promote" => q = p
      BY <1>0, SettingFacts, RunsIncluded DEF Facts, Busy, Trying, Owning
    <2>2. ASSUME NEW d \in RunningRows'
          PROVE  /\ d = previous[p].dep \/ (d = RowOf(p) /\ rows'[d].container = p)
                 /\ app.status # "deleted"
      <3>1. d \in RunningRows \/ (d = RowOf(p) /\ Exists(d) /\ rows'[d].container = p)
        BY <2>1, RunningWritten DEF Setting, Promoting, At
      <3>2. d \in RunningRows => d = previous[p].dep
        BY <1>3 DEF Undecided
      <3>3. Exists(d) => app.status # "deleted"
        BY DEF RunningRows, Setting, ShapeInv, RowsInv
      <3> QED BY <1>0, <3>1, <3>2, <3>3 DEF Facts
    <2>3. Decided(p)'
      BY <1>0, <1>2, <1>3, <1>5, <2>2 DEF Undecided, Decided, Facts, Switched, Up, services
    <2> QED BY <1>0, <1>5, <2>3, RolloutMove DEF Busy, Trying, Owning, Committing
  <1> QED BY <1>2, <1>4, <1>5

(* Past the commit point, and in what undoes a rollout, calls work.        *)
LEMMA CommittedWorks ==
  ASSUME NEW p \in Runs, Setting(p), pc[p] \in Critical, pc[p] \in Committed \cup Undoing
  PROVE  NoFault /\ ~Fault /\ (pc[p] \in Committed => ~Fails(p))
  <1>1. pc'[p] # pc[p]
    BY SettingFacts
  <1>2. NoFault /\ ~Fault
    BY <1>1, FaultCounts DEF Setting, Spared
  <1>3. pc[p] \in Committed => p \notin ctxDone
    BY DEF Setting, Timely
  <1> QED BY <1>2, <1>3 DEF Fails

LEMMA PublishServes ==
  ASSUME NEW p \in Containers, Setting(p), pc[p] = "publish"
  PROVE  ServiceInv'
  <1>0. pc[p] \in Critical /\ Facts(p)
    BY FactsHold DEF Critical
  <1>1. PublishApp(p)
    BY <1>0, ReplaceActions DEF Setting, Advanced, Facts
  <1>2. Shrinks
    BY <1>0, Untouched DEF Facts
  <1>3. /\ pc'[p] = "removePrevious" \/ (pc'[p] = "unwind" /\ ~Replaces(p))
        /\ previous' = previous /\ UNCHANGED services
    BY <1>0, <1>1 DEF PublishApp, Facts, To, memory
  <1>4. Decided(p)
    BY <1>0 DEF Facts, Committing
  <1>5. CASE pc'[p] = "removePrevious"
    <2>1. Decided(p)'
      BY <1>0, <1>2, <1>3, <1>4, <1>5 DEF Decided, Facts, Shrinks, Up, services
    <2> QED BY <1>0, <1>5, <2>1, RolloutMove DEF Busy, Trying, Owning, Committing
  <1>6. CASE pc'[p] = "unwind" /\ ~Replaces(p)
    <2>1. previous[p].dep = None
      BY <1>0, <1>4, <1>6 DEF Decided, Replaces, HasPrevious, Setting, ShapeInv, ReleaseInv, Facts
    <2>2. None \notin RunningRows
      BY NamesAssumption DEF RunningRows, Containers
    <2>3. Calm'
      BY <1>0, <1>2, <1>3, <1>4, <2>1, <2>2 DEF Decided, Calm, Facts, Shrinks, Up, services
    <2> QED BY <1>0, <1>6, <2>3, RolloutMove DEF Trying, Owning, Committing
  <1> QED BY <1>3, <1>5, <1>6

LEMMA RemoveServes ==
  ASSUME NEW p \in Containers, Setting(p), pc[p] = "removePrevious"
  PROVE  ServiceInv'
  <1>0. pc[p] \in Critical /\ Facts(p)
    BY FactsHold DEF Critical
  <1>1. RemovePrevious(p)
    BY <1>0, ReplaceActions DEF Setting, Advanced, Facts
  <1>2. Shrinks
    BY <1>0, Untouched DEF Facts
  <1>3. ~Fails(p)
    BY <1>0, CommittedWorks DEF Facts, Committed
  <1>4. /\ pc'[p] = "retire" /\ previous' = previous
        /\ route' = route /\ domainRoute' = domainRoute
        /\ containers' = Removed(previous[p].container)
    BY <1>0, <1>1, <1>3 DEF RemovePrevious, Facts, To, memory
  <1>5. Up(p) => containers'[p] = "up"
    BY <1>0, <1>4 DEF Removed, Facts, Store, Up
  <1>6. Decided(p)
    BY <1>0 DEF Facts, Committing
  <1>7. Decided(p)'
    BY <1>0, <1>2, <1>4, <1>5, <1>6 DEF Decided, Facts, Shrinks, Up
  <1> QED BY <1>0, <1>4, <1>7, RolloutMove DEF Busy, Trying, Owning, Committing

LEMMA RetireServes ==
  ASSUME NEW p \in Containers, Setting(p), pc[p] = "retire"
  PROVE  ServiceInv'
  <1>0. pc[p] \in Critical /\ Facts(p) /\ rows \in Rows
    BY FactsHold, SettingFacts, RunsIncluded DEF Critical
  <1>1. RetirePrevious(p)
    BY <1>0, ReplaceActions DEF Setting, Advanced, Facts
  <1>2. Shrinks
    BY <1>0, Untouched DEF Facts
  <1>3. ~Fails(p)
    BY <1>0, CommittedWorks DEF Facts, Committed
  <1>4. PICK s \in {"superseded", "rolled_back"} : rows' = WithStatus(previous[p].dep, s)
    BY <1>1, <1>3 DEF RetirePrevious
  <1>5. pc'[p] = "unwind" /\ previous' = previous /\ UNCHANGED services
    BY <1>0, <1>1 DEF RetirePrevious, Facts, To, memory
  <1>6. previous[p].dep \notin RunningRows'
    <2> SUFFICES ASSUME NEW d \in Deployments, d = previous[p].dep, rows'[d].status = "running" PROVE FALSE
      BY DEF RunningRows
    <2>1. d \in RunningRows' => d \in RunningRows
      BY <1>2 DEF Shrinks
    <2>2. rows[d].status = "running"
      BY <2>1 DEF RunningRows
    <2>3. rows'[d] = [rows[d] EXCEPT !.status = s]
      BY <1>0, <1>4, <2>2, UpdateEffect DEF WithStatus, Exists
    <2>4. rows[d] \in Row
      BY <1>0 DEF Rows
    <2> QED BY <2>3, <2>4 DEF Row
  <1>7. Decided(p)
    BY <1>0 DEF Facts, Committing
  <1>8. Calm'
    BY <1>0, <1>2, <1>5, <1>6, <1>7 DEF Decided, Calm, Facts, Shrinks, Up, services
  <1> QED BY <1>0, <1>5, <1>8, RolloutMove DEF Trying, Owning, Committing

LEMMA RestoreServes ==
  ASSUME NEW p \in Containers, Setting(p), pc[p] = "restore"
  PROVE  ServiceInv'
  <1>0. pc[p] \in Critical /\ Facts(p)
    BY FactsHold DEF Critical
  <1>1. RestorePrevious(p)
    BY <1>0, ReplaceActions DEF Setting, Advanced, Facts
  <1>2. Shrinks
    BY <1>0, Untouched DEF Facts
  <1>3. ~Fault
    BY <1>0, CommittedWorks DEF Facts, Undoing
  <1>4. /\ pc'[p] = "cleanup" /\ previous' = previous /\ containers' = containers /\ app' = app
        /\ route' = previous[p].container /\ domainRoute' = RestoredDomain(p)
    BY <1>0, <1>1, <1>3 DEF RestorePrevious, RestoredRoute, Facts, To, memory
  <1>5. Undecided(p)
    BY <1>0 DEF Facts, Trying, Owning
  <1>6. RunningRows # {} /\ HasDomain => domainRoute' = previous[p].container
    BY <1>0, <1>4, <1>5 DEF Facts, Undecided, Up, RestoredDomain, DomainKnown, HasPrevious
  <1>7. Undecided(p)'
    BY <1>0, <1>2, <1>4, <1>5, <1>6
       DEF Undecided, Facts, Shrinks, Before, Switched, Up
  <1> QED BY <1>0, <1>4, <1>7, RolloutMove DEF Committing, Busy, Trying, Owning

LEMMA CleanupServes ==
  ASSUME NEW p \in Containers, Setting(p), pc[p] = "cleanup"
  PROVE  ServiceInv'
  <1>0. pc[p] \in Critical /\ Facts(p)
    BY FactsHold DEF Critical
  <1>1. CleanupCandidate(p)
    BY <1>0, ReplaceActions DEF Setting, Advanced, Facts
  <1>2. Shrinks
    BY <1>0, Untouched DEF Facts
  <1>3. ~Fault
    BY <1>0, CommittedWorks DEF Facts, Undoing
  <1>4. /\ pc'[p] = "clear" /\ previous' = previous /\ route' = route /\ domainRoute' = domainRoute
        /\ containers' = Removed(p)
    BY <1>0, <1>1, <1>3 DEF CleanupCandidate, Facts, To, memory
  <1>5. \A c \in Containers : c # p /\ containers[c] = "up" => containers'[c] = "up"
    BY <1>0, <1>4 DEF Removed, Facts, Store
  <1>6. Undecided(p)
    BY <1>0 DEF Facts, Trying, Owning
  <1>7. Undecided(p)'
    BY <1>0, <1>2, <1>4, <1>5, <1>6
       DEF Undecided, Facts, Shrinks, Before, Switched, Up, Releases
  <1> QED BY <1>0, <1>4, <1>7, RolloutMove DEF Committing, Busy, Trying, Owning

LEMMA ClearServes ==
  ASSUME NEW p \in Containers, Setting(p), pc[p] = "clear"
  PROVE  ServiceInv'
  <1>0. pc[p] \in Critical /\ Facts(p)
    BY FactsHold DEF Critical
  <1>1. ClearCandidate(p)
    BY <1>0, ReplaceActions DEF Setting, Advanced, Facts
  <1>2. Shrinks
    BY <1>0, Untouched DEF Facts
  <1>3. pc'[p] = "settle" /\ previous' = previous /\ UNCHANGED services
    BY <1>0, <1>1 DEF ClearCandidate, Facts, To, memory
  <1>4. Undecided(p)
    BY <1>0 DEF Facts, Trying, Owning
  <1>5. Undecided(p)'
    BY <1>0, <1>2, <1>3, <1>4
       DEF Undecided, Facts, Shrinks, Before, Switched, Up, services
  <1> QED BY <1>0, <1>3, <1>5, RolloutMove DEF Committing, Busy, Trying, Owning

LEMMA SettleServes ==
  ASSUME NEW p \in Containers, Setting(p), pc[p] = "settle"
  PROVE  ServiceInv'
  <1>0. pc[p] \in Critical /\ Facts(p)
    BY FactsHold DEF Critical
  <1>1. SettleRun(p)
    BY <1>0, ReplaceActions DEF Setting, Advanced, Facts
  <1>2. Shrinks
    BY <1>0, Untouched DEF Facts
  <1>3. pc'[p] \in {"fail", "unwind"} /\ UNCHANGED services
    BY <1>0, <1>1 DEF SettleRun, FinishCancelled, GoFail, Facts, To
  <1>4. Undecided(p)
    BY <1>0 DEF Facts, Trying, Owning
  <1>5. Calm'
    BY <1>2, <1>3, <1>4 DEF Undecided, Shrinks, Before, Up, services, Calm
  <1> QED BY <1>0, <1>3, <1>5, RolloutMove DEF Committing, Trying, Owning

-----------------------------------------------------------------------------
(* The steps of a stop.                                                    *)
LEMMA StopMove ==
  ASSUME NEW s \in Stops, Setting(s), pc[s] \in Critical,
         pc'[s] \in Ending => Ended(s)',
         pc'[s] \notin Ending => pc'[s] \notin Busy /\ Calm'
  PROVE  ServiceInv'
  <1>1. s \in Runs /\ s \notin Containers
    BY RunsIncluded, RunsAssumption
  <1>2. /\ TypeOK /\ LockInv /\ lock = s /\ boot' # "recovering"
        /\ \A q \in Runs : q # s => pc'[q] = pc[q]
    BY <1>1, SettingFacts DEF Setting
  <1>3. pc'[s] \notin Busy => Calm'
    BY DEF Busy
  <1> QED BY <1>1, <1>2, <1>3, BusyMove

LEMMA StopFacts ==
  ASSUME NEW s \in Stops, Setting(s), pc[s] \in Critical
  PROVE  /\ s \in Runs /\ Advance(s) /\ ~LostReplies /\ Shrinks
         /\ pc \in [Runs -> Stages] /\ previous \in [Runs -> Releases] /\ rows \in Rows
         /\ pc[s] \in Ending => Ended(s)
         /\ pc[s] \notin Busy => Calm
         /\ pc[s] \in Ending => ~Fails(s)
  <1>1. s \in Runs
    BY RunsIncluded
  <1>2. pc[s] # "promote"
    <2>1. s \notin Deployments /\ s \notin Containers
      BY RunsAssumption DEF Containers
    <2> QED BY <2>1 DEF Setting, Advanced, Advance, Stop, StopRemoveRoute, StopRemoveDomains,
               StopFindRelease, StopRemoveContainer, StopMarkRow, StopMarkApp, DeleteApp,
               AcquireRollout, GiveUpRollout, Unwind, At
  <1>3. Shrinks
    BY <1>1, <1>2, Untouched
  <1>4. pc[s] \notin Busy => Calm
    BY <1>1, SettingFacts DEF Setting, ServiceInv
  <1>5. pc[s] \in Ending => ~Fails(s)
    BY <1>1, CommittedWorks DEF Ending, Committed
  <1> QED BY <1>1, <1>3, <1>4, <1>5, SettingFacts DEF Setting, Advanced, ServiceInv

LEMMA StopRouteServes ==
  ASSUME NEW s \in Stops, Setting(s), pc[s] = "stopRoute"
  PROVE  ServiceInv'
  <1>0. pc[s] \in Critical
    BY DEF Critical
  <1>1. StopRemoveRoute(s)
    BY <1>0, StopFacts, StopActions
  <1>2. Calm /\ Shrinks
    BY <1>0, StopFacts DEF Busy, Trying, Owning, Committing, Ending
  <1>3. pc'[s] = "stopDomains" \/ (pc'[s] = "unwind" /\ UNCHANGED services)
    BY <1>0, <1>1, StopFacts DEF StopRemoveRoute, To, Uncertain, services
  <1>4. pc'[s] = "stopDomains" => Ended(s)'
    BY <1>2 DEF Calm, Shrinks, Ended
  <1>5. UNCHANGED services => Calm'
    BY <1>2 DEF Calm, Shrinks, services, Up
  <1> QED BY <1>0, <1>3, <1>4, <1>5, StopMove DEF Ending, Busy, Trying, Owning, Committing

LEMMA StopDomainsServes ==
  ASSUME NEW s \in Stops, Setting(s), pc[s] = "stopDomains"
  PROVE  ServiceInv'
  <1>0. pc[s] \in Critical
    BY DEF Critical
  <1>1. StopRemoveDomains(s)
    BY <1>0, StopFacts, StopActions
  <1>2. Ended(s) /\ Shrinks /\ ~Fails(s)
    BY <1>0, StopFacts DEF Ending
  <1>3. pc'[s] = "stopFind"
    BY <1>0, <1>1, <1>2, StopFacts DEF StopRemoveDomains, To
  <1>4. Ended(s)'
    BY <1>2, <1>3 DEF Shrinks, Ended
  <1> QED BY <1>0, <1>3, <1>4, StopMove DEF Ending

LEMMA StopFindServes ==
  ASSUME NEW s \in Stops, Setting(s), pc[s] = "stopFind"
  PROVE  ServiceInv'
  <1>0. pc[s] \in Critical
    BY DEF Critical
  <1>1. StopFindRelease(s)
    BY <1>0, StopFacts, StopActions
  <1>2. Ended(s) /\ Shrinks /\ ~Fails(s)
    BY <1>0, StopFacts DEF Ending
  <1> DEFINE found == IF Active # None THEN Active ELSE LatestFailed
  <1>3. /\ previous'[s] = Snapshot(found)
        /\ pc'[s] = IF Snapshot(found).container = None THEN "stopApp" ELSE "stopContainer"
    BY <1>0, <1>1, <1>2, StopFacts DEF StopFindRelease, To
  <1>4. ASSUME NEW d \in RunningRows PROVE Snapshot(found).dep = d /\ Snapshot(found).container # None
    <2>1. Active \in RunningRows /\ Active # None
      BY ExtremesExist, NamesAssumption DEF Active, RunningRows, Containers
    <2>2. Active = d
      BY <1>2, <2>1 DEF Ended
    <2>3. rows[d].container # None
      BY DEF Setting, ShapeInv, ReleaseInv, RunningRows, Released
    <2> QED BY <2>1, <2>2, <2>3 DEF Snapshot
  <1> HIDE DEF found
  <1>5. CASE pc'[s] = "stopApp"
    <2>1. RunningRows = {}
      BY <1>3, <1>4, <1>5
    <2>2. Calm'
      BY <1>2, <2>1 DEF Calm, Shrinks
    <2> QED BY <1>0, <1>5, <2>2, StopMove DEF Ending, Busy, Trying, Owning, Committing
  <1>6. CASE pc'[s] = "stopContainer"
    <2>1. Ended(s)'
      BY <1>2, <1>3, <1>4 DEF Ended, Shrinks
    <2> QED BY <1>0, <1>6, <2>1, StopMove DEF Ending
  <1> QED BY <1>3, <1>5, <1>6

LEMMA StopContainerServes ==
  ASSUME NEW s \in Stops, Setting(s), pc[s] = "stopContainer"
  PROVE  ServiceInv'
  <1>0. pc[s] \in Critical
    BY DEF Critical
  <1>1. StopRemoveContainer(s)
    BY <1>0, StopFacts, StopActions
  <1>2. Ended(s) /\ Shrinks /\ ~Fails(s)
    BY <1>0, StopFacts DEF Ending
  <1>3. pc'[s] = "stopRow" /\ previous' = previous
    BY <1>0, <1>1, <1>2, StopFacts DEF StopRemoveContainer, To, memory
  <1>4. Ended(s)'
    BY <1>2, <1>3 DEF Shrinks, Ended
  <1> QED BY <1>0, <1>3, <1>4, StopMove DEF Ending

LEMMA StopRowServes ==
  ASSUME NEW s \in Stops, Setting(s), pc[s] = "stopRow"
  PROVE  ServiceInv'
  <1>0. pc[s] \in Critical
    BY DEF Critical
  <1>1. StopMarkRow(s)
    BY <1>0, StopFacts, StopActions
  <1>2. Ended(s) /\ Shrinks /\ ~Fails(s)
    BY <1>0, StopFacts DEF Ending
  <1>3. pc'[s] = "stopApp" /\ rows' = WithStatus(previous[s].dep, "stopped")
    BY <1>0, <1>1, <1>2, StopFacts DEF StopMarkRow, To
  <1>4. ASSUME NEW d \in RunningRows' PROVE FALSE
    <2>1. d \in Deployments /\ rows[d].status = "running" /\ d = previous[s].dep
      BY <1>2 DEF Shrinks, Ended, RunningRows
    <2>2. rows'[d] = [rows[d] EXCEPT !.status = "stopped"]
      BY <1>0, <1>3, <2>1, UpdateEffect, StopFacts DEF WithStatus, Exists
    <2>3. rows[d] \in Row
      BY <1>0, <2>1, StopFacts DEF Rows
    <2> QED BY <2>2, <2>3 DEF Row, RunningRows
  <1>5. Calm'
    BY <1>4 DEF Calm
  <1> QED BY <1>0, <1>3, <1>5, StopMove DEF Ending, Busy, Trying, Owning, Committing

(* Stops and rollouts take different ways through the lock.                *)
KindInv ==
  /\ \A s \in Stops : pc[s] \notin {"snapshot"} \cup Trying \cup Committing
  /\ \A p \in Containers : pc[p] \notin {"stopRoute"} \cup Ending

LEMMA KindStep ==
  ASSUME TypeOK, KindInv, [Next]_vars
  PROVE  KindInv'
  <1> USE DEF Trying, Owning, Committing, Ending
  <1>0. pc \in [Runs -> Stages] /\ Stops \cap Containers = {}
    BY RunsAssumption DEF TypeOK, RolloutTypeOK
  <1>1. ASSUME NEW p \in Runs, pc[p] = "lock", pc'[p] # "lock", pc'[p] # "unwind", pc'[p] # "done"
        PROVE  pc'[p] = IF p \in Stops THEN "stopRoute" ELSE "snapshot"
    <2>1. Advanced(p)
      BY <1>0, <1>1, MovedBy DEF Crash, At
    <2>2. AcquireRollout(p) \/ GiveUpRollout(p)
      BY <1>1, <2>1
         DEF Advanced, Advance, Pipeline, Register, ReadCancelFlag, FetchSource, AcquireBuild,
           MarkBuilding, BuildImage, PrepareRun, MarkRowFailed, MarkAppAfterFailure,
           Unwind, Replace, ReadActive, RunContainer, SaveCandidate, AwaitReady,
           SwitchRoute, SyncDomains, RecheckCancel, PromoteCandidate, PublishApp, RemovePrevious,
           RetirePrevious, RestorePrevious, CleanupCandidate, ClearCandidate, SettleRun,
           Stop, StopRemoveRoute, StopRemoveDomains, StopFindRelease, StopRemoveContainer,
           StopMarkRow, StopMarkApp, DeleteApp, At
    <2>3. GiveUpRollout(p) => pc'[p] = "unwind"
      BY <1>0 DEF GiveUpRollout, FinishCancelled, To
    <2> QED BY <1>0, <1>1, <2>2, <2>3 DEF AcquireRollout, To
  <1>2. ASSUME NEW s \in Stops PROVE pc'[s] \notin {"snapshot"} \cup Trying \cup Committing
    <2>1. StageStep(s) /\ s \in Runs
      BY StagesStep, RunsIncluded
    <2> QED BY <1>1, <2>1 DEF StageStep, Flow, KindInv
  <1>3. ASSUME NEW p \in Containers PROVE pc'[p] \notin {"stopRoute"} \cup Ending
    <2>1. StageStep(p) /\ p \in Runs /\ p \notin Stops
      BY <1>0, StagesStep, RunsIncluded
    <2> QED BY <1>1, <2>1 DEF StageStep, Flow, KindInv
  <1> QED BY <1>2, <1>3 DEF KindInv

-----------------------------------------------------------------------------
(* Everything else that happens around a rollout.                          *)
NowhereNear == Busy \cup {"snapshot", "stopRoute"}

LEMMA AsideAdvance ==
  ASSUME NEW p \in Runs, Advance(p), pc[p] \notin NowhereNear
  PROVE  /\ UNCHANGED services
         /\ previous' = previous \/ previous' = [previous EXCEPT ![p] = NoRelease]
  <1> USE DEF NowhereNear, Busy, Trying, Owning, Committing, Ending
  <1>1. CASE Pipeline(p) \/ AcquireRollout(p) \/ GiveUpRollout(p) \/ Unwind(p)
    BY <1>1 DEF Pipeline, Register, ReadCancelFlag, FetchSource, AcquireBuild, MarkBuilding,
         BuildImage, PrepareRun, MarkRowFailed, MarkAppAfterFailure, AcquireRollout,
         GiveUpRollout, Unwind, memory
  <1>2. CASE Stop(p)
    BY <1>2 DEF Stop, StopRemoveRoute, StopRemoveDomains, StopFindRelease, StopRemoveContainer,
         StopMarkRow, StopMarkApp, DeleteApp, At, memory
  <1>3. CASE Replace(p)
    BY <1>3 DEF Replace, ReadActive, RunContainer, SaveCandidate, AwaitReady, SwitchRoute,
         SyncDomains, RecheckCancel, PromoteCandidate, PublishApp, RemovePrevious,
         RetirePrevious, RestorePrevious, CleanupCandidate, ClearCandidate, SettleRun, At
  <1> QED BY <1>1, <1>2, <1>3 DEF Advance

LEMMA AsideServes ==
  ASSUME TypeOK, ReportDecided, ServiceInv, ~LostReplies, [Next]_vars,
         NEW p \in Runs, Advanced(p), pc[p] \notin NowhereNear
  PROVE  ServiceInv'
  <1>0. pc \in [Runs -> Stages] /\ previous \in [Runs -> Releases]
    BY DEF TypeOK, RolloutTypeOK
  <1>1. boot # "recovering" /\ boot' # "recovering"
    BY DEF Advanced, Serving, environment
  <1>2. \A q \in Runs : q # p => pc'[q] = pc[q] /\ previous'[q] = previous[q]
    BY <1>0, AdvanceFlows, AsideAdvance DEF Advanced, To
  <1>3. pc[p] \notin Busy /\ pc'[p] \notin Busy
    <2>1. PICK stage : To(p, stage) /\ Flow(pc[p], stage)
      BY AdvanceFlows DEF Advanced
    <2>2. pc'[p] = stage
      BY <1>0, <2>1 DEF To
    <2> QED BY <2>1, <2>2 DEF Flow, NowhereNear, Busy, Trying, Owning, Committing, Ending
  <1>4. Shrinks
    <2>1. ASSUME NEW q \in Containers, pc[q] = "promote" PROVE pc'[q] # "publish"
      BY <1>2, <1>3, <2>1, RunsIncluded DEF Busy, Trying, Owning
    <2> QED BY <2>1, NoPromotion
  <1>5. UNCHANGED services
    BY AsideAdvance DEF Advanced
  <1> QED BY <1>1, <1>2, <1>3, <1>4, <1>5, QuietStep

LEMMA OutsideServes ==
  ASSUME TypeOK, ReportDecided, ServiceInv, ~LostReplies, [Next]_vars,
         Requested \/ HealthChecked \/ \E d \in Cancels : CancelArrives(d) \/ CancelHandled(d)
  PROVE  ServiceInv'
  <1>0. pc \in [Runs -> Stages]
    BY DEF TypeOK, RolloutTypeOK
  <1>1. boot # "recovering" /\ boot' # "recovering"
    BY DEF Requested, HealthChecked, CancelArrives, CancelHandled, Serving, environment
  <1>2. UNCHANGED services /\ previous' = previous
    BY DEF Requested, Request, Create, RequestRollback, RequestStop, Disconnect,
         CancelArrives, RequestCancel, CancelHandled, CancelHandler, InterruptPipeline,
         MarkUnregistered, HealthChecked, Health, HealthList, HealthPass, HealthInspect,
         HealthSkip, HealthMarkRow, HealthMarkApp, rolloutVars, memory
  <1>3. \A q \in Runs : pc'[q] = pc[q] \/ (pc[q] = "new" /\ pc'[q] \in {"spawned", "lock"})
    <2>1. ASSUME NEW q \in Runs, NEW r \in Runs, NEW stage \in {"spawned", "lock"}, At(r, "new"), To(r, stage)
          PROVE  pc'[q] = pc[q] \/ (pc[q] = "new" /\ pc'[q] \in {"spawned", "lock"})
      BY <1>0, <2>1 DEF At, To
    <2>2. pc' = pc \/ \E r \in Runs, stage \in {"spawned", "lock"} : At(r, "new") /\ To(r, stage)
      BY RunsIncluded DEF Requested, Request, Create, RequestRollback, RequestStop, Disconnect,
         CancelArrives, RequestCancel, CancelHandled, CancelHandler, InterruptPipeline,
         MarkUnregistered, HealthChecked, Health, HealthList, HealthPass, HealthInspect,
         HealthSkip, HealthMarkRow, HealthMarkApp, rolloutVars
    <2> QED BY <2>1, <2>2
  <1>4. \A q \in Runs : pc[q] \in Busy \/ pc'[q] \in Busy => pc'[q] = pc[q] /\ previous'[q] = previous[q]
    BY <1>2, <1>3 DEF Busy, Trying, Owning, Committing, Ending
  <1>5. Shrinks
    BY <1>3, RunsIncluded, NoPromotion
  <1> QED BY <1>1, <1>2, <1>4, <1>5, QuietStep

-----------------------------------------------------------------------------
(* A crash, and the start of the next process.                             *)
LEMMA TryingRecovers ==
  ASSUME TypeOK, ShapeInv, OwnInv, ServiceInv, boot # "recovering",
         NEW p \in Containers, pc[p] \in Trying, NEW d \in RunningRows
  PROVE  /\ \A e \in RunningRows : d = e
         /\ Up(rows[d].container) /\ Up(route) /\ (HasDomain => Up(domainRoute))
         /\ CandidateRows = {} => route = rows[d].container /\ (HasDomain => domainRoute = route)
  <1>0. Undecided(p) /\ p # None /\ d \in Deployments /\ app.status # "deleted"
    BY NamesAssumption DEF ServiceInv, ShapeInv, RowsInv, RunningRows, Exists
  <1>1. /\ \A e \in RunningRows : d = e
        /\ Up(rows[d].container) /\ Up(route) /\ (HasDomain => Up(domainRoute))
    BY <1>0 DEF Undecided, Before, Switched, Trying, Owning
  <1>2. CASE pc[p] \in Owning
    <2>1. RowOf(p) \in Deployments /\ Exists(RowOf(p))
      BY <1>0, <1>2 DEF ShapeInv, RowsInv, ReleaseInv, RowOf, IsBuild, Containers, Owning
    <2>2. rows[RowOf(p)].candidate = p
      BY <1>2, <2>1 DEF OwnInv
    <2>3. RowOf(p) \notin RunningRows
      BY <1>0 DEF Undecided
    <2>4. RowOf(p) \in CandidateRows
      BY <1>0, <2>1, <2>2, <2>3 DEF CandidateRows, RunningRows
    <2> QED BY <1>1, <2>4
  <1>3. CASE pc[p] \in {"start", "candidate", "settle"}
    BY <1>0, <1>1, <1>3 DEF Undecided, Before
  <1> QED BY <1>2, <1>3 DEF Trying

LEMMA CrashServes ==
  ASSUME TypeOK, ShapeInv, OwnInv, BootInv, KindInv, ServiceInv, Crash, Spared, MaxCrashes \in Nat
  PROVE  ServiceInv'
  <1>0. \A p \in Runs : pc[p] \notin Committed
    BY DEF Crash, Spared, TypeOK
  <1>1. UNCHANGED <<rows, services>> /\ boot' = "recovering"
    BY DEF Crash
  <1>2. \A p \in Runs : pc'[p] \in {"new", "done"}
    BY DEF Crash
  <1>3. Recovering
    <2>1. CASE boot = "recovering"
      BY <2>1 DEF ServiceInv
    <2> SUFFICES ASSUME boot # "recovering", NEW d \in RunningRows
        PROVE  /\ \A e \in RunningRows : d = e
               /\ Up(rows[d].container) /\ Up(route) /\ (HasDomain => Up(domainRoute))
               /\ CandidateRows = {} => route = rows[d].container /\ (HasDomain => domainRoute = route)
               /\ rows[d].candidate = None
               /\ \A e \in Deployments : rows[e].candidate # rows[d].container
      BY <2>1 DEF Recovering
    <2>2. /\ \A e \in RunningRows : d = e
          /\ Up(rows[d].container) /\ Up(route) /\ (HasDomain => Up(domainRoute))
          /\ CandidateRows = {} => route = rows[d].container /\ (HasDomain => domainRoute = route)
      <3>1. CASE \E p \in Containers : pc[p] \in Trying
        BY <3>1, TryingRecovers
      <3>2. CASE ~\E p \in Containers : pc[p] \in Trying
        <4>1. \A p \in Runs : pc[p] \notin Committing \cup Ending
          BY <1>0 DEF Committed, Committing, Ending
        <4>2. \A p \in Stops : pc[p] \notin Trying
          BY DEF KindInv
        <4>3. Calm
          BY <3>2, <4>1, <4>2 DEF ServiceInv, Busy, Runs, Containers
        <4> QED BY <4>3 DEF Calm
      <3> QED BY <3>1, <3>2
    <2>3. ASSUME NEW e \in Deployments, NEW c \in Containers, rows[e].candidate = c
          PROVE  RowOf(c) = e /\ Undecided(c) /\ previous[c].container # c
      BY <2>3 DEF OwnInv, Owner, ServiceInv, Trying, ShapeInv, ReleaseInv
    <2>4. \A e \in Deployments : rows[e].candidate \in Containers \cup {None}
      BY TypeFacts DEF TypeOK, Rows, Row
    <2>5. d \in Deployments
      BY DEF RunningRows
    <2>6. rows[d].candidate = None
      BY <2>3, <2>4, <2>5 DEF Undecided
    <2>7. \A e \in Deployments : rows[e].candidate # rows[d].container
      BY <2>2, <2>3, <2>4 DEF Undecided, Up
    <2> QED BY <2>2, <2>6, <2>7
  <1>4. Recovering'
    BY <1>1, <1>3 DEF Recovering, RunningRows, CandidateRows, Exists, Up, services
  <1> QED
    BY <1>1, <1>2, <1>4, RunsIncluded DEF ServiceInv, Trying, Owning, Committing, Ending

LEMMA RecoverServes ==
  ASSUME TypeOK, BootInv, ServiceInv, RecoverCandidate, [Next]_vars, ~LostReplies
  PROVE  ServiceInv'
  <1>0. /\ rows \in Rows /\ containers \in Store /\ boot = "recovering" /\ boot' = "recovering"
        /\ pc' = pc
    BY TypeFacts DEF TypeOK, RecoverCandidate, environment
  <1>1. Recovering
    BY <1>0 DEF ServiceInv
  <1>2. \A p \in Runs : pc[p] \in {"new", "done"}
    BY <1>0 DEF BootInv
  <1>3. Shrinks
    BY <1>0, <1>2, NoPromotion, RunsIncluded
  <1> DEFINE o == Oldest(CandidateRows)
             failed == [rows[o] EXCEPT !.candidate = None, !.status = "failed"]
  <1>4. o \in Deployments /\ o \notin RunningRows
    BY ExtremesExist DEF RecoverCandidate, CandidateRows, RunningRows
  <1>5. /\ route' = Snapshot(Active).container
        /\ HasDomain /\ Snapshot(Active).container # None => domainRoute' = Snapshot(Active).container
        /\ containers' = Removed(rows[o].candidate) /\ rows' = Update(o, failed)
    BY DEF RecoverCandidate, RecoveredRoute
  <1>6. failed.candidate = None
    BY <1>0, <1>4 DEF Rows, Row
  <1> HIDE DEF o, failed
  <1>7. ASSUME NEW e \in Deployments
        PROVE  /\ rows'[e].candidate = rows[e].candidate \/ rows'[e].candidate = None
               /\ e \in RunningRows => rows'[e] = rows[e]
    BY <1>0, <1>4, <1>5, <1>6, UpdateEffect
  <1>8. ASSUME NEW d \in RunningRows' PROVE Active = d /\ d # None /\ d \in RunningRows
    <2>1. d \in RunningRows /\ d # None
      BY <1>3, NamesAssumption DEF Shrinks, RunningRows, Containers
    <2>2. Active \in RunningRows
      BY <2>1, ExtremesExist DEF Active, RunningRows
    <2> QED BY <1>1, <2>1, <2>2 DEF Recovering
  <1>9. ASSUME NEW d \in RunningRows'
        PROVE  /\ \A e \in RunningRows' : d = e
               /\ rows'[d].container # None /\ containers'[rows'[d].container] = "up"
               /\ route' = rows'[d].container /\ (HasDomain => domainRoute' = rows'[d].container)
               /\ rows'[d].candidate = None
               /\ \A e \in Deployments : rows'[e].candidate # rows'[d].container
    <2>1. /\ d \in RunningRows /\ d \in Deployments /\ rows'[d] = rows[d]
          /\ Snapshot(Active).container = rows[d].container
      BY <1>7, <1>8 DEF Snapshot, RunningRows
    <2>2. /\ rows[d].container # None /\ containers[rows[d].container] = "up"
          /\ rows[d].candidate = None
          /\ \A e \in Deployments : rows[e].candidate # rows[d].container
      BY <1>1, <2>1 DEF Recovering, Up
    <2>3. rows[d].container \in Containers
      BY <1>0, <2>1, <2>2 DEF Rows, Row
    <2>4. containers'[rows[d].container] = "up"
      BY <1>0, <1>4, <1>5, <2>2, <2>3 DEF Removed, Store
    <2> QED BY <1>5, <1>7, <1>8, <2>1, <2>2, <2>4
  <1>10. Recovering'
    BY <1>9 DEF Recovering, Up
  <1> QED
    BY <1>0, <1>2, <1>10, RunsIncluded DEF ServiceInv, Trying, Owning, Committing, Ending

LEMMA StartupServes ==
  ASSUME TypeOK, BootInv, ServiceInv, RecoveryDone \/ Reconcile
  PROVE  ServiceInv'
  <1>0. containers \in Store /\ rows \in Rows /\ boot # "serving"
    BY TypeFacts DEF TypeOK, RecoveryDone, Reconcile
  <1>1. \A p \in Runs : pc[p] \notin Busy
    BY <1>0 DEF BootInv, Busy, Trying, Owning, Committing, Ending
  <1>2. pc' = pc /\ boot' # "recovering" /\ UNCHANGED <<rows, route, domainRoute>>
    BY DEF RecoveryDone, Reconcile, rolloutVars, services
  <1>3. Calm
    BY <1>1 DEF RecoveryDone, Reconcile, ServiceInv, Recovering, Calm
  <1>4. ASSUME NEW d \in RunningRows PROVE containers'[rows[d].container] = containers[rows[d].container]
    <2>1. rows[d].container \in Containers /\ rows[d].container \in Referenced
      BY <1>0, <1>3 DEF Rows, Row, RunningRows, Calm, Up, Referenced
    <2> QED BY <2>1 DEF RecoveryDone, Reconcile, rolloutVars, services
  <1>5. Calm'
    BY <1>2, <1>3, <1>4 DEF Calm, RunningRows, Up
  <1> QED BY <1>1, <1>2, <1>5, RunsIncluded DEF ServiceInv, Busy

LEMMA AdvanceServes ==
  ASSUME NEW p \in Runs, Setting(p), KindInv
  PROVE  ServiceInv'
  <1>1. CASE pc[p] \notin NowhereNear
    BY <1>1, AsideServes DEF Setting
  <1>2. CASE pc[p] = "snapshot"
    BY <1>2, SnapshotServes DEF KindInv, Runs, Containers
  <1>3. CASE pc[p] \in Trying
    <2>1. p \in Containers
      BY <1>3 DEF KindInv, Runs, Containers
    <2> QED
      BY <1>3, <2>1, StartServes, CandidateServes, ReadyServes, SwitchServes, SyncServes, RecheckServes,
         PromoteServes, RestoreServes, CleanupServes, ClearServes, SettleServes DEF Trying, Owning
  <1>4. CASE pc[p] \in Committing
    <2>1. p \in Containers
      BY <1>4 DEF KindInv, Runs, Containers
    <2> QED BY <1>4, <2>1, PublishServes, RemoveServes, RetireServes DEF Committing
  <1>5. CASE pc[p] \in {"stopRoute"} \cup Ending
    <2>1. p \in Stops
      BY <1>5 DEF KindInv, Runs, Containers
    <2> QED
      BY <1>5, <2>1, StopRouteServes, StopDomainsServes, StopFindServes, StopContainerServes,
         StopRowServes DEF Ending
  <1> QED BY <1>1, <1>2, <1>3, <1>4, <1>5 DEF NowhereNear, Busy

(* What holds together, and after every spared step.                       *)
Base == TypeOK /\ ReportDecided /\ LockInv /\ ShapeInv
Served == BootInv /\ KindInv /\ Timely /\ OwnInv /\ ServiceInv

LEMMA BaseInvariant == Spec => []Base
  <1>1. Base <=> (TypeOK /\ ReportDecided /\ LockInv /\ ShapeInv)
    BY DEF Base
  <1> QED
    BY <1>1, TypeInvariant, LockInvariant, ShapeInvariant, PTL

LEMMA ServedStep ==
  ASSUME Base, Base', Served, [Next]_vars, [Spared]_vars, ~LostReplies
  PROVE  Served'
  <1> USE DEF Base, Served
  <1>0. Spared
    <2>1. UNCHANGED vars => Spared
      BY DEF vars, rolloutVars, contexts, environment, NoFault, Spared
    <2> QED BY <2>1
  <1>1. BootInv' /\ KindInv' /\ Timely'
    BY <1>0, BootStep, KindStep, TimelyStep
  <1>2. OwnInv'
    <2>1. ClearWorks
      BY <1>0, RunsIncluded DEF ClearWorks, Spared, Undoing, At
    <2>2. boot = "recovering" => \A d \in RunningRows : rows[d].candidate = None
      BY DEF ServiceInv, Recovering
    <2> QED BY <2>1, <2>2, OwnInvStep
  <1>3. ServiceInv'
    <2>1. CASE Requested \/ HealthChecked \/ \E d \in Cancels : CancelArrives(d) \/ CancelHandled(d)
      BY <2>1, OutsideServes
    <2>2. ASSUME NEW p \in Runs, Advanced(p) PROVE ServiceInv'
      BY <1>0, <2>2, AdvanceServes DEF Setting
    <2>3. ~Exited
      BY <1>0, SystemAssumption DEF Exited, ContainerExits, Spared, TypeOK
    <2>4. CASE Crash
      BY <1>0, <2>4, CrashServes, SystemAssumption
    <2>5. CASE Startup
      BY <2>5, RecoverServes, StartupServes DEF Startup
    <2>6. CASE UNCHANGED vars
      BY <2>6 DEF vars, rolloutVars, services, memory, environment, ServiceInv, Undecided, Decided,
         Ended, Calm, Recovering, RowOf, IsBuild, RunningRows, CandidateRows, Exists, Up
    <2> QED BY <2>1, <2>2, <2>3, <2>4, <2>5, <2>6 DEF Next, Rest
  <1> QED BY <1>1, <1>2, <1>3

LEMMA ServedSuffices ==
  ASSUME Base, Served
  PROVE  ServedWhileRunning
  <1> SUFFICES ASSUME NEW d \in RunningRows, ~StopBegun
               PROVE  Up(route) /\ (HasDomain => Up(domainRoute))
    BY DEF ServedWhileRunning, Up
  <1>0. KindInv /\ ServiceInv
    BY DEF Served
  <1>1. CASE boot = "recovering"
    BY <1>0, <1>1 DEF ServiceInv, Recovering
  <1>2. CASE boot # "recovering" /\ \E p \in Containers : pc[p] \in Trying
    BY <1>2, TryingRecovers DEF Base, Served
  <1>3. CASE \E p \in Containers : pc[p] \in Committing
    BY <1>0, <1>3 DEF ServiceInv, Decided
  <1>4. CASE boot # "recovering" /\ \A p \in Containers : pc[p] \notin Trying \cup Committing
    <2>1. \A p \in Runs : pc[p] \notin Busy
      <3>1. \A s \in Stops : pc[s] \notin Ending \cup Trying \cup Committing
        BY <1>0 DEF StopBegun, Ending, KindInv
      <3>2. \A p \in Containers : pc[p] \notin Ending
        BY <1>0 DEF KindInv
      <3> QED BY <1>4, <3>1, <3>2 DEF Busy, Runs, Containers
    <2> QED BY <1>0, <1>4, <2>1 DEF ServiceInv, Calm
  <1> QED BY <1>1, <1>2, <1>3, <1>4

LEMMA ServedInvariant ==
  ASSUME ~LostReplies
  PROVE  Spec /\ [][Spared]_vars => []Served
  <1>1. Init => Served
    BY NamesAssumption DEF Init, RolloutInit, StoreInit, Served, BootInv, KindInv, Timely, OwnInv,
       ServiceInv, Calm, RunningRows, NoRow, Runs, Containers, Trying, Owning, Committing, Ending
  <1>2. Base /\ Base' /\ Served /\ [Next]_vars /\ [Spared]_vars => Served'
    BY ServedStep
  <1> QED
    BY <1>1, <1>2, BaseInvariant, PTL DEF Spec

(* Zero downtime: between any two calls of any rollout, whether it         *)
(* succeeds, fails, is cancelled or undone, the routes dial a container    *)
(* that is up while PostgreSQL holds a running row and nobody stops the    *)
(* application.  It takes that no reply is lost (LostReplies) and that     *)
(* what happens around the commit point is spared (Spared).                *)
THEOREM ZeroDowntime ==
  ASSUME ~LostReplies
  PROVE  Spec /\ [][Spared]_vars => []ServedWhileRunning
  <1>1. Base /\ Served => ServedWhileRunning
    BY ServedSuffices
  <1> QED
    BY <1>1, BaseInvariant, ServedInvariant, PTL

(* Who interrupts a run: a pipeline itself, before it builds, the cancel   *)
(* endpoint and a client that goes away.                                   *)
LEMMA Interrupted ==
  ASSUME TypeOK, [Next]_vars, NEW p \in ctxDone' \ ctxDone
  PROVE  pc[p] = "registered" \/ p \in Cancels \/ p \in Disconnects
  <1>1. ctxDone' # ctxDone
    OBVIOUS
  <1>2. CASE Requested
    BY <1>1, <1>2 DEF Requested, Request, Create, RequestRollback, RequestStop, Disconnect, contexts
  <1>3. ASSUME NEW q \in Runs, Advanced(q) PROVE pc[p] = "registered"
    <2>1. (q \in Deployments /\ ReadCancelFlag(q)) \/ ctxDone' = ctxDone \/ ctxDone' = ctxDone \ {q}
      BY <1>3 DEF Advanced, Advance, Pipeline, Register, FetchSource, AcquireBuild,
           MarkBuilding, BuildImage, PrepareRun, MarkRowFailed, MarkAppAfterFailure, AcquireRollout,
           GiveUpRollout, Unwind, Replace, ReadActive, RunContainer, SaveCandidate, AwaitReady,
           SwitchRoute, SyncDomains, RecheckCancel, PromoteCandidate, PublishApp, RemovePrevious,
           RetirePrevious, RestorePrevious, CleanupCandidate, ClearCandidate, SettleRun,
           Stop, StopRemoveRoute, StopRemoveDomains, StopFindRelease, StopRemoveContainer,
           StopMarkRow, StopMarkApp, DeleteApp, contexts
    <2> QED BY <1>1, <2>1 DEF ReadCancelFlag, At
  <1>4. ASSUME NEW d \in Cancels, CancelArrives(d) \/ CancelHandled(d) PROVE p \in Cancels
    BY <1>1, <1>4 DEF CancelArrives, RequestCancel, CancelHandled, CancelHandler,
         InterruptPipeline, MarkUnregistered, contexts
  <1>5. ~(HealthChecked \/ Exited \/ Crash \/ Startup \/ Rest \/ UNCHANGED vars)
    BY <1>1 DEF HealthChecked, Health, HealthList, HealthPass, HealthInspect, HealthSkip,
         HealthMarkRow, HealthMarkApp, Exited, ContainerExits, Crash, Startup, RecoverCandidate,
         RecoveryDone, Reconcile, Rest, vars, rolloutVars, contexts
  <1> QED BY <1>2, <1>3, <1>4, <1>5 DEF Next

LEMMA UndisturbedSpared ==
  ASSUME MaxFaults = 0, MaxExits = 0, MaxCrashes = 0, Disconnects = {}, Cancels = {},
         TypeOK, TypeOK', [Next]_vars
  PROVE  Spared
  <1>1. faults' = faults /\ exits' = exits /\ crashes' = crashes
    BY DEF TypeOK, RolloutTypeOK
  <1>2. \A p \in ctxDone' \ ctxDone : pc[p] \notin Committed
    BY Interrupted DEF Committed
  <1> QED BY <1>1, <1>2 DEF Spared, NoFault

(* In particular, any number of overlapping deployments, rollbacks, stops  *)
(* and deletions never takes a running application off the air by itself.  *)
THEOREM ServedUndisturbed ==
  ASSUME ~LostReplies, MaxFaults = 0, MaxExits = 0, MaxCrashes = 0, Disconnects = {}, Cancels = {}
  PROVE  Spec => []ServedWhileRunning
  <1>1. TypeOK /\ TypeOK' /\ [Next]_vars => [Spared]_vars
    BY UndisturbedSpared
  <1> QED BY <1>1, TypeInvariant, ZeroDowntime, PTL DEF Spec

-----------------------------------------------------------------------------
(* Nothing is left behind.  Here the health checker is off (it may mark a  *)
(* row that has been rolled back to since it was listed) and nobody deletes*)
(* the application (a pipeline outlives it): both are told in README.md.   *)
Plain == /\ app.status # "deleted" /\ checker = "idle"
         /\ \A s \in Stops : pc[s] # "deleteApp"

LEMMA PlainStep ==
  ASSUME TypeOK, ReportDecided, Plain, ~HealthOn, Deletes = {}, [Next]_vars
  PROVE  Plain'
  <1>1. app'.status # "deleted"
    BY AppSteps DEF AppStep, Plain, At
  <1>2. checker' = "idle"
    <2>1. ~HealthChecked
      BY DEF HealthChecked, Health, HealthList, HealthPass, HealthInspect, HealthSkip,
         HealthMarkRow, HealthMarkApp, Plain
    <2> QED BY <2>1 DEF Next, Requested, Advanced, CancelArrives, CancelHandled, Exited, Crash,
               Startup, RecoverCandidate, RecoveryDone, Reconcile, Rest, vars, healthVars, Plain
  <1>3. ASSUME NEW s \in Stops, pc'[s] = "deleteApp" PROVE FALSE
    <2>0. s \in Runs /\ pc \in [Runs -> Stages]
      BY RunsIncluded DEF TypeOK, RolloutTypeOK
    <2>1. pc[s] = "stopApp"
      BY <1>3, <2>0, StagesStep DEF StageStep, Flow, Plain
    <2>2. StopMarkApp(s)
      <3>1. Advanced(s)
        BY <1>3, <2>0, <2>1, MovedBy DEF Crash, At
      <3> QED BY <2>1, <3>1, StopActions DEF Advanced
    <2> QED BY <1>3, <2>0, <2>2 DEF StopMarkApp, To
  <1> QED BY <1>1, <1>2, <1>3 DEF Plain

(* A deployment that is given up is no release, and none to go back to.    *)
Giving == {"restore", "cleanup", "clear", "settle", "fail"}

UnpromotedInv ==
  \A d \in Deployments : pc[d] \in Giving =>
    /\ rows[d].container = None /\ rows[d].status \notin Released
    /\ \A q \in Runs : previous[q].dep # d
    /\ \A r \in Rollbacks : target[r] # d

LEMMA UnpromotedStep ==
  ASSUME TypeOK, ShapeInv, UnpromotedInv, ~LostReplies, [Next]_vars
  PROVE  UnpromotedInv'
  <1> SUFFICES ASSUME NEW d \in Deployments, pc'[d] \in Giving
               PROVE  /\ rows'[d].container = None /\ rows'[d].status \notin Released
                      /\ \A q \in Runs : previous'[q].dep # d
                      /\ \A r \in Rollbacks : target'[r] # d
    BY DEF UnpromotedInv
  <1>0. d \in Runs /\ d # None
    BY RunsIncluded, NamesAssumption DEF Containers
  <1>1. Fresh(d) \/ pc[d] \in Giving
    BY <1>0, StagesStep DEF StageStep, Flow, Fresh, Giving, BeforeLock
  <1>2. /\ rows[d].container = None /\ rows[d].status \notin Released
        /\ \A q \in Runs : previous[q].dep # d
        /\ \A r \in Rollbacks : target[r] # d
    BY <1>1 DEF ShapeInv, FreshInv, UnpromotedInv
  <1>3. ASSUME NEW p \in Containers, Promoting(d, p) PROVE FALSE
    <2>1. p # d
      BY <1>3 DEF Promoting, Giving
    <2>2. p \in Rollbacks /\ target[p] = d
      BY <1>3, <2>1 DEF Promoting, RowOf, IsBuild, Containers
    <2> QED BY <1>2, <2>2
  <1>4. rows'[d].container = None
    BY <1>2, <1>3, ContainerWritten
  <1>5. rows'[d].status \notin Released
    BY <1>2, <1>3, ReleaseWritten
  <1>6. ASSUME NEW q \in Runs PROVE previous'[q].dep # d
    BY <1>0, <1>2, PreviousSteps DEF PreviousStep, NoRelease, Released
  <1>7. ASSUME NEW r \in Rollbacks PROVE target'[r] # d
    BY <1>2, TargetSteps DEF TargetStep, Released
  <1> QED BY <1>4, <1>5, <1>6, <1>7

(* A row stops running when its release is retired or stopped, and no      *)
(* running row is promoted again.                                          *)
LEMMA RunningKept ==
  ASSUME TypeOK, ReportDecided, ShapeInv, UnpromotedInv, ServiceInv, Plain, [Next]_vars,
         ~HealthOn, Deletes = {}, NEW d \in RunningRows
  PROVE  \/ d \in RunningRows' /\ rows'[d].container = rows[d].container
         \/ \E p \in Containers : Retiring(d, p)
         \/ \E s \in Stops : Stopping(d, s)
  <1>0. d \in Deployments /\ rows[d].status = "running" /\ d \in Runs
    BY RunsIncluded DEF RunningRows
  <1>1. RowStep(d)
    BY <1>0, RowsStep
  <1>2. ~Inserting(d) /\ ~Building(d)
    BY <1>0 DEF Inserting, Building, At, ShapeInv, FreshInv, Fresh, BeforeLock, Released
  <1>3. ~Deleting(d)
    BY PlainStep DEF Plain, Deleting
  <1>4. ~AskingCancel(d) /\ ~Cancelling(d)
    BY <1>0 DEF AskingCancel, Cancelling, Cancellable
  <1>5. ~Failing(d)
    BY <1>0 DEF Failing, At, UnpromotedInv, Giving, Plain, Released
  <1>6. ~Abandoning(d)
    BY <1>0 DEF Abandoning, CandidateRows
  <1>7. ASSUME NEW p \in Containers, Recording(d, p) \/ Clearing(d, p)
        PROVE  rows'[d].status = "running" /\ rows'[d].container = rows[d].container
    BY <1>0, <1>7 DEF Recording, Clearing, CandidateSet
  <1>8. ASSUME NEW p \in Containers, Promoting(d, p) PROVE FALSE
    <2>1. Undecided(p) /\ RowOf(p) = d
      BY <1>8 DEF Promoting, At, ServiceInv, Trying, Owning
    <2> QED BY <2>1 DEF Undecided
  <1> QED
    BY <1>0, <1>1, <1>2, <1>3, <1>4, <1>5, <1>6, <1>7, <1>8 DEF RowStep, RunningRows

(* Steady: the running rows are as before. *)
Steady ==
  /\ RunningRows' = RunningRows
  /\ \A d \in RunningRows : rows'[d].container = rows[d].container

LEMMA SteadyRows ==
  ASSUME TypeOK, ReportDecided, ShapeInv, UnpromotedInv, ServiceInv, Plain, [Next]_vars,
         ~HealthOn, Deletes = {}, ~LostReplies,
         \A p \in Containers : pc[p] = "promote" => pc'[p] # "publish",
         \A p \in Containers : pc[p] = "retire" => pc'[p] = "retire",
         \A s \in Stops : pc[s] = "stopRow" => pc'[s] = "stopRow"
  PROVE  Steady
  <1>1. Shrinks
    BY NoPromotion
  <1>2. ASSUME NEW d \in RunningRows PROVE d \in RunningRows' /\ rows'[d].container = rows[d].container
    BY RunningKept DEF Retiring, Stopping, At
  <1> QED BY <1>1, <1>2 DEF Shrinks, Steady

-----------------------------------------------------------------------------
(* A container belongs to a run that is still at work on it, or to a       *)
(* running row.                                                            *)
AtWork == {"candidate", "ready", "switch", "sync", "recheck", "promote", "restore", "cleanup"}
Housed(c) == pc[c] \in AtWork \/ \E d \in RunningRows : rows[d].container = c

(* The release a rollout found is still running, and until its own route   *)
(* is switched the application's is the one it found.                      *)
Kept(p) ==
  /\ previous[p].dep # None => previous[p].dep \in RunningRows
  /\ pc[p] \in Before => route = previous[p].container

(* What a promoted run replaces goes from Docker before it goes from       *)
(* PostgreSQL.                                                             *)
Replacing(p) ==
  /\ RowOf(p) \in RunningRows
  /\ \A d \in RunningRows : d = previous[p].dep => rows[d].container = previous[p].container
  /\ pc[p] \in {"removePrevious", "retire"} => previous[p].container # None
  /\ pc[p] = "retire" => containers[previous[p].container] = "none"

(* A stop has taken the route before it takes the container.               *)
Dismantling(s) ==
  /\ route = None
  /\ pc[s] \in {"stopContainer", "stopRow"} =>
       /\ previous[s].container # None
       /\ \A d \in RunningRows : rows[d].container = previous[s].container

(* Without a running row nothing is routed. *)
Bare == RunningRows = {} => route = None

TidyInv ==
  /\ boot = "serving" => \A c \in Containers : WasStarted(c) => Housed(c)
  /\ \A p \in Containers : pc[p] \in Trying => Kept(p)
  /\ \A p \in Containers : pc[p] \in Committing => Replacing(p)
  /\ \A s \in Stops : pc[s] \in Ending \cup {"stopApp"} => Dismantling(s)
  /\ (boot # "recovering" /\ \A p \in Runs : pc[p] \notin Busy) => Bare
  /\ boot = "recovering" /\ CandidateRows = {} => Bare

(* A step, and what is known before it.                                    *)
Stepping ==
  /\ Base /\ Base' /\ Served /\ StopInv /\ Plain /\ UnpromotedInv /\ TidyInv
  /\ [Next]_vars /\ Spared /\ ~LostReplies /\ ~HealthOn /\ Deletes = {}

LEMMA SteppingFacts ==
  ASSUME Stepping
  PROVE  /\ TypeOK /\ RolloutTypeOK /\ ReportDecided /\ ShapeInv /\ LockInv
         /\ BootInv /\ KindInv /\ Timely /\ OwnInv /\ ServiceInv
         /\ rows \in Rows /\ containers \in Store /\ pc \in [Runs -> Stages]
         /\ previous \in [Runs -> Releases]
         /\ app.status # "deleted" /\ AppStep
  BY TypeFacts, AppSteps DEF Stepping, Base, Served, Plain, TypeOK, RolloutTypeOK

LEMMA Alone ==
  ASSUME Stepping, NEW p \in Runs, pc[p] \in Critical
  PROVE  /\ lock = p /\ boot = "serving"
         /\ \A q \in Runs : q # p => pc[q] \notin Critical
  BY SteppingFacts DEF LockInv, BootInv, Critical

(* Who moves does so by its own step, unless the process dies.             *)
LEMMA Mover ==
  ASSUME Stepping, NEW p \in Runs, pc'[p] # pc[p], pc[p] # "new", boot' # "recovering"
  PROVE  Setting(p) /\ Flow(pc[p], pc'[p])
  <1>1. Advanced(p)
    BY SteppingFacts, MovedBy DEF Stepping, Crash
  <1>2. Flow(pc[p], pc'[p])
    BY SteppingFacts, StagesStep DEF Stepping, StageStep, Crash
  <1> QED BY <1>1, <1>2, SteppingFacts DEF Setting, Stepping

(* While a run holds the lock nobody else writes what it relies on.        *)
LEMMA RouteStays ==
  ASSUME Stepping, NEW p \in Runs, pc[p] \in Critical,
         pc[p] \notin {"restore", "stopRoute"}, ~(pc[p] = "switch" /\ pc'[p] = "sync")
  PROVE  route' = route
  <1>1. \A q \in Runs : q # p => pc[q] \notin {"switch", "restore", "stopRoute"}
    BY Alone DEF Critical
  <1>2. ~RecoverCandidate
    BY Alone DEF RecoverCandidate
  <1> QED BY <1>1, <1>2, RouteSteps, SteppingFacts, RunsIncluded DEF Stepping, RouteStep, At

LEMMA RowsStay ==
  ASSUME Stepping, NEW p \in Runs, pc[p] \in Critical,
         pc[p] = "promote" => pc'[p] # "publish",
         pc[p] \in {"retire", "stopRow"} => pc'[p] = pc[p]
  PROVE  Steady
  <1>1. \A q \in Runs : q # p => pc[q] \notin {"promote", "retire", "stopRow"}
    BY Alone DEF Critical
  <1> QED BY <1>1, SteadyRows, SteppingFacts, RunsIncluded DEF Stepping

LEMMA RowsRest ==
  ASSUME Stepping, \A p \in Runs : pc[p] \notin Busy
  PROVE  Steady
  <1>1. \A q \in Runs : pc[q] \notin {"promote", "retire", "stopRow"}
    BY DEF Busy, Trying, Owning, Committing, Ending
  <1> QED BY <1>1, SteadyRows, SteppingFacts, RunsIncluded DEF Stepping

LEMMA PreviousStays ==
  ASSUME Stepping, NEW p \in Runs, pc[p] \in Critical, pc'[p] \notin {"new", "done"},
         pc[p] \notin {"snapshot", "stopFind"}
  PROVE  previous'[p] = previous[p]
  BY PreviousSteps, SteppingFacts DEF Stepping, PreviousStep, Looking, At

-----------------------------------------------------------------------------
(* The rollout under way, stage by stage.                                  *)
LEMMA KeptStep ==
  ASSUME Stepping, NEW p \in Containers, pc'[p] \in Trying, boot' # "recovering"
  PROVE  Kept(p)'
  <1>0. p \in Runs /\ pc[p] # "new" /\ p # None
    BY SteppingFacts, StagesStep, RunsIncluded, NamesAssumption
       DEF Stepping, StageStep, Flow, Trying, Owning, Crash
  <1>1. pc[p] \in Trying \/ pc[p] = "snapshot"
    BY <1>0, SteppingFacts, StagesStep DEF Stepping, StageStep, Flow, Trying, Owning
  <1>2. pc[p] \in Critical
    BY <1>1, StagesBusy DEF Busy, Critical
  <1>3. Steady
    BY <1>0, <1>1, <1>2, RowsStay DEF Trying, Owning
  <1>4. CASE pc[p] \in Trying
    <2>1. Kept(p)
      BY <1>4 DEF Stepping, TidyInv
    <2>2. previous'[p] = previous[p]
      BY <1>0, <1>2, <1>4, PreviousStays DEF Trying, Owning
    <2>3. ASSUME pc'[p] \in Before PROVE route' = previous[p].container
      <3>1. CASE pc[p] \in Before
        <4>1. route' = route
          BY <1>0, <1>2, <2>3, <3>1, RouteStays DEF Before
        <4> QED BY <2>1, <3>1, <4>1 DEF Kept
      <3>2. CASE pc[p] \notin Before
        <4>1. Setting(p) /\ Flow(pc[p], pc'[p])
          BY <1>0, <2>3, <3>2, Mover
        <4>2. pc[p] = "restore"
          BY <1>4, <2>3, <3>2, <4>1 DEF Flow, Before, Trying, Owning
        <4>3. RestorePrevious(p) /\ ~Fault
          BY <1>0, <1>2, <4>1, <4>2, ReplaceActions, CommittedWorks DEF Setting, Advanced, Undoing
        <4> QED BY <4>3 DEF RestorePrevious, RestoredRoute
      <3> QED BY <3>1, <3>2
    <2> QED BY <1>3, <2>1, <2>2, <2>3 DEF Kept, Steady
  <1>5. CASE pc[p] = "snapshot"
    <2>1. pc'[p] = "start" /\ Setting(p)
      BY <1>0, <1>5, Mover DEF Flow, Trying, Owning
    <2>2. ReadActive(p)
      BY <1>5, <2>1, ReplaceActions DEF Setting, Advanced
    <2>3. previous'[p] = Snapshot(Active) /\ route' = route
      BY <1>0, <1>5, <2>1, <2>2, SteppingFacts DEF ReadActive, FinishCancelled, To, services
    <2>4. Calm /\ Bare
      <3>1. \A q \in Runs : pc[q] \notin Busy
        BY <1>0, <1>2, <1>5, Alone, StagesBusy DEF Busy, Trying, Owning, Committing, Ending
      <3>2. boot # "recovering"
        BY <1>0, <1>2, Alone
      <3> QED BY <3>1, <3>2, SteppingFacts DEF ServiceInv, Stepping, TidyInv
    <2>5. CASE RunningRows = {}
      BY <2>3, <2>4, <2>5 DEF Kept, Bare, Active, Snapshot, NoRelease
    <2>6. CASE RunningRows # {}
      <3>1. Active \in RunningRows /\ Active # None
        BY <2>6, ExtremesExist, NamesAssumption DEF Active, RunningRows, Containers
      <3>2. previous'[p].dep = Active /\ previous'[p].container = rows[Active].container
        BY <2>3, <3>1 DEF Snapshot
      <3> QED BY <1>3, <2>3, <2>4, <3>1, <3>2 DEF Kept, Steady, Calm
    <2> QED BY <2>5, <2>6
  <1> QED BY <1>1, <1>4, <1>5

LEMMA ReplacingStep ==
  ASSUME Stepping, NEW p \in Containers, pc'[p] \in Committing, boot' # "recovering"
  PROVE  Replacing(p)'
  <1>0. p \in Runs /\ p # None /\ pc[p] \in Committing \cup {"promote"} /\ pc[p] # "new"
        /\ pc'[p] \notin {"new", "done"}
    BY SteppingFacts, StagesStep, RunsIncluded, NamesAssumption
       DEF Stepping, StageStep, Flow, Committing
  <1>1. pc[p] \in Critical
    BY <1>0 DEF Critical, Committing
  <1>2. previous'[p] = previous[p] /\ RowOf(p)' = RowOf(p) /\ RowOf(p) \in Deployments
    <2>1. RowOf(p) \in Deployments
      BY <1>0, SteppingFacts DEF ShapeInv, ReleaseInv, RowOf, IsBuild, Containers
    <2> QED BY <1>0, <1>1, <2>1, PreviousStays, RowOfKept, SteppingFacts DEF Stepping, Committing
  <1>3. CASE pc[p] = "promote"
    <2>1. Setting(p) /\ pc'[p] = "publish"
      BY <1>0, <1>3, Mover DEF Flow, Committing
    <2>2. PromoteCandidate(p)
      BY <1>3, <2>1, ReplaceActions DEF Setting, Advanced
    <2>3. rows' = Promoted(RowOf(p), p) /\ Exists(RowOf(p))
      BY <1>0, <1>3, <2>1, <2>2, SteppingFacts DEF PromoteCandidate, To, ShapeInv, RowsInv
    <2>4. RowOf(p) \in RunningRows'
      BY <1>2, <2>3, PromotedRow, SteppingFacts DEF PromotedTo, RunningRows
    <2>5. Undecided(p)
      BY <1>3, SteppingFacts DEF ServiceInv, Trying, Owning
    <2>6. ASSUME NEW d \in RunningRows', d = previous[p].dep
          PROVE  rows'[d].container = previous[p].container
      <3>1. ~\E q \in Containers : Promoting(d, q)
        <4>1. \A q \in Containers : pc[q] = "promote" => q = p
          BY <1>0, <1>1, Alone, RunsIncluded DEF Critical
        <4> QED BY <2>5, <2>6, <4>1 DEF Promoting, At, Undecided
      <3>2. d \in RunningRows /\ rows'[d].container = rows[d].container
        BY <3>1, RunningWritten, SteppingFacts DEF Stepping
      <3> QED BY <2>5, <3>2 DEF Undecided
    <2> QED BY <1>2, <2>1, <2>4, <2>6 DEF Replacing
  <1>4. CASE pc[p] \in Committing
    <2>1. Replacing(p) /\ Decided(p)
      BY <1>4, SteppingFacts DEF Stepping, TidyInv, ServiceInv
    <2>2. Steady
      <3>1. pc[p] = "retire" => pc'[p] = "retire"
        BY <1>0, SteppingFacts, StagesStep DEF Stepping, StageStep, Flow, Committing
      <3> QED BY <1>0, <1>1, <1>4, <3>1, RowsStay DEF Committing
    <2>3. pc[p] = "publish" /\ pc'[p] = "removePrevious" => previous[p].container # None
      <3> SUFFICES ASSUME pc[p] = "publish", pc'[p] = "removePrevious"
                   PROVE  previous[p].container # None
        OBVIOUS
      <3>1. Setting(p)
        BY <1>0, Mover
      <3>2. PublishApp(p)
        BY <3>1, ReplaceActions DEF Setting, Advanced
      <3> QED BY <1>0, <3>2, SteppingFacts DEF PublishApp, To, Replaces, HasPrevious
    <2>4. pc'[p] = "retire" => containers'[previous[p].container] = "none"
      <3>1. CASE pc[p] = "retire"
        <4> DEFINE c == previous[p].container
        <4>1. c \in Containers /\ containers[c] = "none" /\ c \in Runs
          BY <1>0, <2>1, <3>1, SteppingFacts, TypeFacts, RunsIncluded DEF Replacing
        <4>2. pc[c] # "start"
          BY <1>0, <1>1, <3>1, <4>1, Alone DEF Critical
        <4> QED BY <4>1, <4>2, ContainerSteps, SteppingFacts DEF Stepping, ContainerStep, At
      <3>2. CASE pc[p] = "removePrevious" /\ pc'[p] = "retire"
        <4>1. Setting(p)
          BY <1>0, <3>2, Mover
        <4>2. RemovePrevious(p) /\ ~Fails(p)
          BY <1>0, <1>1, <3>2, <4>1, ReplaceActions, CommittedWorks DEF Setting, Advanced, Committed
        <4>3. previous[p].container \in Containers
          BY <1>0, <2>1, <3>2, SteppingFacts, TypeFacts DEF Replacing
        <4> QED BY <4>2, <4>3, SteppingFacts DEF RemovePrevious, Removed, Store
      <3> QED BY <1>0, <3>1, <3>2, SteppingFacts, StagesStep DEF Stepping, StageStep, Flow, Committing
    <2>5. pc'[p] \in {"removePrevious", "retire"} => previous[p].container # None
      BY <1>0, <1>4, <2>1, <2>3, SteppingFacts, StagesStep
         DEF Stepping, StageStep, Flow, Committing, Replacing
    <2>6. ASSUME NEW d \in RunningRows', d = previous[p].dep
          PROVE  rows'[d].container = previous[p].container
      BY <2>1, <2>2, <2>6 DEF Replacing, Steady
    <2>7. RowOf(p) \in RunningRows'
      BY <2>1, <2>2 DEF Replacing, Steady
    <2> QED BY <1>2, <2>4, <2>5, <2>6, <2>7 DEF Replacing
  <1> QED BY <1>0, <1>3, <1>4

LEMMA DismantlingStep ==
  ASSUME Stepping, NEW s \in Stops, pc'[s] \in Ending \cup {"stopApp"}, boot' # "recovering"
  PROVE  Dismantling(s)'
  <1>0. /\ s \in Runs /\ pc[s] \in Ending \cup {"stopApp", "stopRoute"} /\ pc[s] # "new"
        /\ pc'[s] \notin {"new", "done"}
    BY SteppingFacts, StagesStep, RunsIncluded DEF Stepping, StageStep, Flow, Ending
  <1>1. pc[s] \in Critical
    BY <1>0 DEF Critical, Ending
  <1>2. CASE pc[s] = "stopRoute"
    <2>1. Setting(s) /\ pc'[s] = "stopDomains"
      BY <1>0, <1>2, Mover DEF Flow, Ending
    <2>2. StopRemoveRoute(s)
      BY <1>2, <2>1, StopActions DEF Setting, Advanced
    <2>3. route' = None
      BY <1>0, <1>2, <2>1, <2>2, SteppingFacts DEF StopRemoveRoute, To
    <2> QED BY <2>1, <2>3 DEF Dismantling
  <1>3. CASE pc[s] \in Ending \cup {"stopApp"}
    <2>1. Dismantling(s) /\ route' = route
      BY <1>0, <1>1, <1>3, RouteStays DEF Stepping, TidyInv, Ending
    <2>2. CASE pc'[s] \in {"stopDomains", "stopFind", "stopApp"}
      BY <2>1, <2>2 DEF Dismantling
    <2>3. CASE pc'[s] \in {"stopContainer", "stopRow"} /\ pc[s] \in {"stopContainer", "stopRow"}
      <3>1. previous'[s] = previous[s]
        BY <1>0, <1>1, <2>3, PreviousStays
      <3>2. pc[s] = "stopRow" => pc'[s] = "stopRow"
        BY <1>0, <2>3, SteppingFacts, StagesStep DEF Stepping, StageStep, Flow
      <3>3. Steady
        BY <1>0, <1>1, <2>3, <3>2, RowsStay
      <3> QED BY <2>1, <2>3, <3>1, <3>3 DEF Dismantling, Steady
    <2>4. CASE pc'[s] = "stopContainer" /\ pc[s] = "stopFind"
      <3>1. Setting(s)
        BY <1>0, <2>4, Mover
      <3>2. StopFindRelease(s) /\ Ended(s)
        BY <2>4, <3>1, StopActions, SteppingFacts DEF Setting, Advanced, ServiceInv, Ending
      <3> DEFINE found == IF Active # None THEN Active ELSE LatestFailed
      <3>3. previous'[s] = Snapshot(found) /\ Snapshot(found).container # None
        BY <1>0, <2>4, <3>2, SteppingFacts DEF StopFindRelease, To
      <3>4. ASSUME NEW d \in RunningRows PROVE Snapshot(found).container = rows[d].container
        <4>1. Active \in RunningRows /\ Active # None
          BY ExtremesExist, NamesAssumption DEF Active, RunningRows, Containers
        <4>2. Active = d
          BY <2>4, <3>2, <4>1 DEF Ended
        <4> QED BY <4>1, <4>2 DEF Snapshot
      <3> HIDE DEF found
      <3>5. Steady
        BY <1>0, <1>1, <2>4, RowsStay
      <3> QED BY <2>1, <3>3, <3>4, <3>5 DEF Dismantling, Steady
    <2> QED BY <1>0, <1>3, <2>2, <2>3, <2>4, SteppingFacts, StagesStep
            DEF Stepping, StageStep, Flow, Ending
  <1> QED BY <1>0, <1>2, <1>3

(* A release that has been promoted runs on.                               *)
LEMMA CommittedRuns ==
  ASSUME Stepping, NEW p \in Containers, pc[p] \in Committing
  PROVE  RowOf(p) \in RunningRows'
  <1>0. p \in Runs /\ pc[p] \in Critical
    BY RunsIncluded DEF Critical, Committing
  <1>1. RowOf(p) \in RunningRows /\ previous[p].dep # RowOf(p)
    BY SteppingFacts DEF Stepping, TidyInv, Replacing, ServiceInv, Decided
  <1>2. ASSUME NEW q \in Containers, Retiring(RowOf(p), q) PROVE FALSE
    <2>1. pc[q] = "retire" /\ previous[q].dep = RowOf(p)
      BY <1>2 DEF Retiring, At
    <2>2. q = p
      BY <1>0, <2>1, Alone, RunsIncluded DEF Critical
    <2> QED BY <1>1, <2>1, <2>2
  <1>3. ASSUME NEW s \in Stops, Stopping(RowOf(p), s) PROVE FALSE
    <2>1. pc[s] = "stopRow"
      BY <1>3 DEF Stopping, At
    <2> QED BY <1>0, <2>1, Alone, RunsIncluded DEF Critical, Committing
  <1> QED BY <1>1, <1>2, <1>3, RunningKept, SteppingFacts DEF Stepping

(* A busy run that has ended leaves a route to a running row, or none.     *)
LEMMA BareAfter ==
  ASSUME Stepping, NEW p \in Runs, pc[p] \in Busy, pc'[p] \notin Busy, boot' # "recovering"
  PROVE  Bare'
  <1>0. pc[p] \in Critical /\ pc[p] # "new" /\ Setting(p) /\ Flow(pc[p], pc'[p])
    BY StagesBusy, Mover DEF Critical
  <1>1. CASE pc[p] \in Trying
    <2>0. p \in Containers
      BY <1>1, SteppingFacts DEF KindInv, Runs, Containers
    <2>1. pc[p] \in {"candidate", "settle"}
      BY <1>0, <1>1 DEF Flow, Busy, Trying, Owning, Committing
    <2>2. Steady /\ route' = route
      BY <1>0, <2>1, RowsStay, RouteStays
    <2>3. route = previous[p].container /\ (previous[p].dep # None => previous[p].dep \in RunningRows)
      BY <1>1, <2>0, <2>1 DEF Stepping, TidyInv, Kept, Before
    <2>4. previous[p].dep = None => previous[p].container = None
      BY SteppingFacts DEF ShapeInv, ReleaseInv
    <2> QED BY <2>2, <2>3, <2>4 DEF Bare, Steady
  <1>2. CASE pc[p] \in Committing
    <2>0. p \in Containers
      BY <1>2, SteppingFacts DEF KindInv, Runs, Containers
    <2>1. RowOf(p) \in RunningRows'
      BY <1>2, <2>0, CommittedRuns
    <2> QED BY <2>1 DEF Bare
  <1>3. CASE pc[p] \in Ending
    <2>0. p \in Stops
      BY <1>3, SteppingFacts DEF KindInv, Runs, Containers
    <2>1. route = None /\ route' = route
      BY <1>0, <1>3, <2>0, RouteStays DEF Stepping, TidyInv, Dismantling, Ending
    <2> QED BY <2>1 DEF Bare
  <1> QED BY <1>1, <1>2, <1>3 DEF Busy

LEMMA BareStep ==
  ASSUME Stepping, \A p \in Runs : pc'[p] \notin Busy, boot' # "recovering"
  PROVE  Bare'
  <1>1. CASE \E p \in Runs : pc[p] \in Busy
    BY <1>1, BareAfter
  <1>2. CASE boot # "recovering" /\ \A p \in Runs : pc[p] \notin Busy
    <2>1. Bare /\ Steady
      BY <1>2, RowsRest DEF Stepping, TidyInv
    <2>2. route' = route \/ route' = None
      <3>1. \A p \in Containers : ~At(p, "switch") /\ ~At(p, "restore")
        BY <1>2, RunsIncluded DEF At, Busy, Trying, Owning
      <3>2. ~RecoverCandidate
        BY <1>2 DEF RecoverCandidate
      <3> QED BY <3>1, <3>2, RouteSteps, SteppingFacts DEF Stepping, RouteStep
    <2> QED BY <2>1, <2>2 DEF Bare, Steady
  <1>3. CASE boot = "recovering"
    <2>1. RecoveryDone
      BY <1>3 DEF Stepping, Next, Requested, Advanced, CancelArrives, CancelHandled, HealthChecked,
         Exited, ContainerExits, Crash, Startup, RecoverCandidate, Reconcile, Rest, Quiescent,
         Serving, vars, environment
    <2>2. Bare
      BY <1>3, <2>1 DEF RecoveryDone, Stepping, TidyInv
    <2> QED BY <2>1, <2>2 DEF RecoveryDone, rolloutVars, services, Bare, RunningRows
  <1> QED BY <1>1, <1>2, <1>3

(* What a crash leaves routed is a running row's, or its candidate's run   *)
(* has a row that recovery finds.                                          *)
LEMMA BareRecovered ==
  ASSUME Stepping, boot' = "recovering", CandidateRows' = {}
  PROVE  Bare'
  <1>1. CASE Crash
    <2>1. UNCHANGED <<rows, route>> /\ \A p \in Runs : pc[p] \notin Committed
      <3>1. crashes' # crashes
        BY <1>1, SystemAssumption, SteppingFacts DEF Crash, TypeOK
      <3> QED BY <1>1, <3>1 DEF Crash, services, Stepping, Spared
    <2>2. CandidateRows = {}
      BY <2>1 DEF CandidateRows, Exists
    <2>3. Bare
      <3>1. CASE boot = "recovering"
        BY <2>2, <3>1 DEF Stepping, TidyInv
      <3>2. CASE boot # "recovering" /\ \E p \in Runs : pc[p] \in Trying
        <4>1. PICK p \in Containers : pc[p] \in Trying
          BY <3>2, SteppingFacts DEF KindInv, Runs, Containers
        <4>2. Kept(p)
          BY <4>1 DEF Stepping, TidyInv
        <4>3. CASE pc[p] \in Owning
          <5>1. RowOf(p) \in Deployments /\ Exists(RowOf(p))
            BY <4>3, SteppingFacts DEF ShapeInv, RowsInv, ReleaseInv, RowOf, IsBuild, Containers, Owning
          <5>2. rows[RowOf(p)].candidate = p /\ p # None
            BY <4>3, <5>1, SteppingFacts, NamesAssumption DEF OwnInv
          <5>3. RowOf(p) \in RunningRows
            BY <2>2, <5>1, <5>2 DEF CandidateRows, RunningRows
          <5> QED BY <5>3 DEF Bare
        <4>4. CASE pc[p] \in Before
          <5>1. previous[p].dep = None => previous[p].container = None
            BY RunsIncluded, SteppingFacts DEF ShapeInv, ReleaseInv
          <5> QED BY <4>2, <4>4, <5>1 DEF Kept, Bare
        <4> QED BY <4>1, <4>3, <4>4 DEF Trying, Before
      <3>3. CASE boot # "recovering" /\ \A p \in Runs : pc[p] \notin Trying
        <4>1. \A p \in Runs : pc[p] \notin Busy
          BY <2>1, <3>3 DEF Busy, Committed, Committing, Ending
        <4> QED BY <3>3, <4>1 DEF Stepping, TidyInv
      <3> QED BY <3>1, <3>2, <3>3
    <2> QED BY <2>1, <2>3 DEF Bare, RunningRows
  <1>2. CASE RecoverCandidate
    <2>1. \A p \in Runs : pc[p] \notin Busy
      BY <1>2, SteppingFacts DEF RecoverCandidate, BootInv, Busy, Trying, Owning, Committing, Ending
    <2>2. Steady
      BY <2>1, RowsRest
    <2>3. RunningRows = {} => RecoveredRoute = None
      BY DEF RecoveredRoute, Snapshot, Active, NoRelease
    <2> QED BY <1>2, <2>2, <2>3 DEF RecoverCandidate, Bare, Steady
  <1>3. CASE UNCHANGED vars
    BY <1>3 DEF vars, rolloutVars, services, environment, Stepping, TidyInv, CandidateRows, Exists,
       Bare, RunningRows
  <1>4. ~Exited
    BY SystemAssumption, SteppingFacts DEF Exited, ContainerExits, Stepping, Spared, TypeOK
  <1>5. ~Startup \/ RecoverCandidate
    BY DEF Startup, RecoveryDone, Reconcile
  <1>6. ~(Requested \/ (\E p \in Runs : Advanced(p)) \/ HealthChecked
          \/ \E d \in Cancels : CancelArrives(d) \/ CancelHandled(d))
    BY DEF Requested, Advanced, CancelArrives, CancelHandled, HealthChecked, Serving, environment
  <1> QED
    BY <1>1, <1>2, <1>3, <1>4, <1>5, <1>6 DEF Stepping, Next, Rest

-----------------------------------------------------------------------------
(* No container is lost sight of.                                          *)
LEMMA AtWorkStep ==
  ASSUME Stepping, NEW c \in Containers, pc[c] \in AtWork, WasStarted(c)',
         boot' # "recovering"
  PROVE  Housed(c)'
  <1>0. c \in Runs /\ pc[c] \in Critical /\ pc[c] # "new"
    BY RunsIncluded DEF AtWork, Critical
  <1>1. CASE pc'[c] = pc[c]
    BY <1>1 DEF Housed
  <1>2. CASE pc'[c] # pc[c]
    <2>1. Setting(c) /\ Flow(pc[c], pc'[c])
      BY <1>0, <1>2, Mover
    <2>2. CASE pc[c] = "candidate"
      <3>1. SaveCandidate(c)
        BY <2>1, <2>2, ReplaceActions DEF Setting, Advanced
      <3>2. To(c, "ready") \/ containers' = Removed(c)
        BY <3>1 DEF SaveCandidate
      <3>3. containers' # Removed(c)
        BY SteppingFacts DEF Removed, Store, WasStarted
      <3> QED BY <1>0, <3>2, <3>3, SteppingFacts DEF To, Housed, AtWork
    <2>3. CASE pc[c] = "promote" /\ pc'[c] = "publish"
      <3>1. PromoteCandidate(c)
        BY <2>1, <2>3, ReplaceActions DEF Setting, Advanced
      <3>2. RowOf(c) \in Deployments /\ Exists(RowOf(c))
        BY <1>0, SteppingFacts DEF ShapeInv, RowsInv, ReleaseInv, RowOf, IsBuild, Containers
      <3>3. rows' = Promoted(RowOf(c), c)
        BY <1>0, <2>3, <3>1, SteppingFacts DEF PromoteCandidate, To
      <3>4. RowOf(c) \in RunningRows' /\ rows'[RowOf(c)].container = c
        BY <3>2, <3>3, PromotedRow, SteppingFacts DEF PromotedTo, RunningRows
      <3> QED BY <3>4 DEF Housed
    <2>4. CASE pc[c] = "cleanup"
      <3>1. CleanupCandidate(c) /\ ~Fault
        BY <1>0, <2>1, <2>4, ReplaceActions, CommittedWorks DEF Setting, Advanced, Undoing
      <3> QED BY <3>1, SteppingFacts DEF CleanupCandidate, Removed, Store, WasStarted
    <2> QED BY <2>1, <2>2, <2>3, <2>4 DEF Flow, AtWork, Housed
  <1> QED BY <1>1, <1>2

LEMMA RunningHousedStep ==
  ASSUME Stepping, NEW c \in Containers, NEW d \in RunningRows, rows[d].container = c,
         WasStarted(c)
  PROVE  Housed(c)'
  <1>1. ASSUME NEW p \in Containers, Retiring(d, p) PROVE FALSE
    <2>1. pc[p] = "retire" /\ previous[p].dep = d
      BY <1>1 DEF Retiring, At
    <2> QED BY <2>1 DEF Stepping, TidyInv, Replacing, Committing, WasStarted
  <1>2. ASSUME NEW s \in Stops, Stopping(d, s) PROVE FALSE
    <2>1. pc[s] = "stopRow"
      BY <1>2 DEF Stopping, At
    <2>2. previous[s].container = c /\ previous[s].container # None
      BY <2>1 DEF Stepping, TidyInv, Dismantling, Ending
    <2> QED BY <2>1, <2>2 DEF Stepping, StopInv, WasStarted
  <1>3. d \in RunningRows' /\ rows'[d].container = c
    BY <1>1, <1>2, RunningKept, SteppingFacts DEF Stepping
  <1> QED BY <1>3 DEF Housed

LEMMA HousedStep ==
  ASSUME Stepping, NEW c \in Containers, WasStarted(c)', boot' = "serving"
  PROVE  Housed(c)'
  <1>1. CASE boot # "serving"
    <2>1. Reconcile
      BY <1>1 DEF Stepping, Next, Requested, Advanced, CancelArrives, CancelHandled, HealthChecked,
         Exited, ContainerExits, Crash, Startup, RecoverCandidate, RecoveryDone, Rest, Quiescent,
         Serving, vars, environment
    <2>2. c \in Referenced /\ c # None /\ UNCHANGED rows
      BY <2>1, NamesAssumption DEF Reconcile, WasStarted
    <2>3. \A d \in Deployments : rows[d].candidate = None
      <3>1. boot = "reconciling" /\ \A p \in Runs : pc[p] \in {"new", "done"}
        BY <1>1, <2>1, SteppingFacts DEF Reconcile, BootInv
      <3>2. \A d \in Deployments : rows[d].candidate \in Containers \cup {None}
        BY SteppingFacts DEF Rows, Row
      <3> QED BY <3>1, <3>2, RunsIncluded, SteppingFacts DEF OwnInv, Owner, Owning
    <2>4. \E d \in RunningRows : rows[d].container = c
      BY <2>2, <2>3 DEF Referenced, CandidateRows, RunningRows
    <2> QED BY <2>2, <2>4 DEF Housed, RunningRows
  <1>2. CASE boot = "serving" /\ ~WasStarted(c)
    <2>1. pc'[c] = "candidate"
      BY <1>2, ContainerSteps, SteppingFacts DEF Stepping, ContainerStep
    <2> QED BY <2>1 DEF Housed, AtWork
  <1>3. CASE boot = "serving" /\ WasStarted(c)
    <2>1. Housed(c)
      BY <1>3 DEF Stepping, TidyInv
    <2> QED BY <1>3, <2>1, AtWorkStep, RunningHousedStep DEF Housed
  <1> QED BY <1>1, <1>2, <1>3

LEMMA TidyStep ==
  ASSUME Stepping
  PROVE  TidyInv'
  <1>1. CASE boot' # "recovering"
    BY <1>1, HousedStep, KeptStep, ReplacingStep, DismantlingStep, BareStep DEF TidyInv
  <1>2. CASE boot' = "recovering"
    <2>1. BootInv'
      BY BootStep, SteppingFacts DEF Stepping
    <2>2. \A p \in Runs : pc'[p] \in {"new", "done"}
      BY <1>2, <2>1 DEF BootInv
    <2>3. CandidateRows' = {} => Bare'
      BY <1>2, BareRecovered
    <2> QED BY <1>2, <2>2, <2>3, RunsIncluded DEF TidyInv, Trying, Owning, Committing, Ending
  <1> QED BY <1>1, <1>2

-----------------------------------------------------------------------------
(* A stopped application has no running row, unless one has just been      *)
(* promoted and is about to be published.                                  *)
StoppedInv ==
  app.status = "stopped" => RunningRows = {} \/ \E p \in Containers : pc[p] = "publish"

LEMMA StoppedStep ==
  ASSUME Stepping, StoppedInv
  PROVE  StoppedInv'
  <1> SUFFICES ASSUME app'.status = "stopped", NEW d \in RunningRows',
                      \A p \in Containers : pc'[p] # "publish"
               PROVE  FALSE
    BY DEF StoppedInv
  <1>1. d \in RunningRows
    BY RunningWritten, SteppingFacts DEF Stepping, Promoting
  <1>2. ASSUME NEW s \in Stops, At(s, "stopApp") PROVE FALSE
    <2>1. s \in Runs /\ pc[s] \in Critical /\ pc[s] \notin Busy /\ route = None
      BY <1>2, RunsIncluded
         DEF At, Critical, Busy, Trying, Owning, Committing, Ending, Stepping, TidyInv, Dismantling
    <2>2. boot # "recovering" /\ \A q \in Runs : pc[q] \notin Busy
      BY <2>1, Alone, StagesBusy
    <2>3. Calm
      BY <2>2, SteppingFacts DEF ServiceInv
    <2> QED BY <1>1, <2>1, <2>3 DEF Calm, Up
  <1>3. app.status = "stopped"
    BY <1>2, SteppingFacts DEF AppStep
  <1>4. PICK p \in Containers : pc[p] = "publish"
    BY <1>1, <1>3 DEF StoppedInv
  <1>5. p \in Runs /\ pc[p] \in Critical
    BY <1>4, RunsIncluded DEF Critical
  <1>6. ~Crash
    BY <1>4, <1>5, SystemAssumption, SteppingFacts DEF Stepping, Spared, Crash, Committed, TypeOK
  <1>7. Setting(p)
    BY <1>4, <1>6, SteppingFacts, MovedBy, RunsIncluded DEF Setting, Stepping
  <1>8. PublishApp(p) /\ ~Fails(p) /\ ~Fault
    BY <1>4, <1>5, <1>7, ReplaceActions, CommittedWorks DEF Setting, Advanced, Committed
  <1>9. app' = AppWith("running", TRUE)
    BY <1>8 DEF PublishApp
  <1> QED BY <1>9, SteppingFacts DEF AppWith

-----------------------------------------------------------------------------
Clean == Plain /\ UnpromotedInv /\ TidyInv /\ StoppedInv

LEMMA CleanInvariant ==
  ASSUME ~LostReplies, ~HealthOn, Deletes = {}
  PROVE  Spec /\ [][Spared]_vars => []Clean
  <1>1. Init => Clean
    BY NamesAssumption DEF Init, RolloutInit, StoreInit, Clean, Plain, UnpromotedInv, TidyInv, StoppedInv,
       Giving, Bare, WasStarted, Runs, Containers, Trying, Owning, Committing, Ending
  <1>2. Base /\ Base' /\ Served /\ StopInv /\ Clean /\ [Next]_vars /\ [Spared]_vars => Clean'
    <2> SUFFICES ASSUME Base, Base', Served, StopInv, Clean, [Next]_vars, [Spared]_vars
                 PROVE  Clean'
      OBVIOUS
    <2>1. UNCHANGED vars => Spared
      BY DEF vars, rolloutVars, contexts, environment, NoFault, Spared
    <2>2. Stepping
      BY <2>1 DEF Stepping, Clean
    <2>3. Plain'
      BY <2>2, SteppingFacts, PlainStep DEF Stepping
    <2>4. UnpromotedInv'
      BY <2>2, SteppingFacts, UnpromotedStep DEF Stepping
    <2>5. TidyInv' /\ StoppedInv'
      BY <2>2, TidyStep, StoppedStep DEF Clean
    <2> QED BY <2>3, <2>4, <2>5 DEF Clean
  <1> QED
    BY <1>1, <1>2, BaseInvariant, ServedInvariant, StopInvariant, PTL DEF Spec

(* What rests when nobody works: no candidate, no container ever started   *)
(* but the running row's, which the route dials, and no running row in a stopped           *)
(* application.                                                            *)
LEMMA AtRest ==
  ASSUME Base, Served, Clean, Quiescent
  PROVE  /\ CandidateRows = {} /\ Calm /\ Bare
         /\ \A c \in Containers : WasStarted(c) => \E d \in RunningRows : rows[d].container = c
         /\ app.status = "stopped" => RunningRows = {}
  <1>0. boot = "serving" /\ rows \in Rows
    BY TypeFacts DEF Quiescent, Serving, Base, TypeOK
  <1>1. \A p \in Runs : pc[p] \in {"new", "done"}
    BY DEF Quiescent
  <1>2. \A p \in Runs : pc[p] \notin Busy \cup AtWork \cup {"publish"}
    BY <1>1 DEF Busy, Trying, Owning, Committing, Ending, AtWork
  <1>3. Calm /\ Bare
    BY <1>0, <1>2 DEF Served, ServiceInv, Clean, TidyInv
  <1>4. CandidateRows = {}
    <2>1. \A d \in Deployments : rows[d].candidate \in Containers \cup {None}
      BY <1>0 DEF Rows, Row
    <2> QED BY <1>0, <1>1, <2>1, RunsIncluded DEF Served, OwnInv, Owner, Owning, CandidateRows
  <1>5. ASSUME NEW c \in Containers, WasStarted(c) PROVE \E d \in RunningRows : rows[d].container = c
    BY <1>0, <1>2, <1>5, RunsIncluded DEF Clean, TidyInv, Housed
  <1>6. app.status = "stopped" => RunningRows = {}
    BY <1>2, RunsIncluded DEF Clean, StoppedInv
  <1> QED BY <1>3, <1>4, <1>5, <1>6

(* Nothing of an abandoned rollout is left when the system comes to rest:  *)
(* whatever was cancelled, interrupted, failed or crashed before its commit*)
(* point, no candidate stays in PostgreSQL, and no container that was ever *)
(* started in Docker nor a route in Caddy but a running row's.  (A         *)
(* container that was created and never started may stay: its removal has  *)
(* only the cancelled context.  With LostReplies the start itself may have *)
(* been carried out, and a started one stays.)                             *)
THEOREM NothingLeft ==
  ASSUME ~LostReplies, ~HealthOn, Deletes = {}
  PROVE  Spec /\ [][Spared]_vars => []NothingLeftBehind
  <1>1. Base /\ Served /\ Clean => NothingLeftBehind
    <2> SUFFICES ASSUME Base, Served, Clean, Quiescent
                 PROVE  /\ CandidateRows = {}
                        /\ \A c \in Containers :
                             WasStarted(c) => \E d \in RunningRows : rows[d].container = c
                        /\ route # None => \E d \in RunningRows : rows[d].container = route
      BY DEF NothingLeftBehind
    <2> QED BY AtRest DEF Calm, Bare
  <1> QED
    BY <1>1, BaseInvariant, ServedInvariant, CleanInvariant, PTL

-----------------------------------------------------------------------------
(* Nobody cancels, goes away or crashes: no rollout is undone once its     *)
(* routes are switched, and every container created is started.            *)
Uninterrupted ==
  /\ \A c \in Containers : containers[c] # "created"
  /\ ctxDone = {} /\ boot = "serving"
  /\ \A d \in Deployments : rows[d].cancelReq = FALSE
  /\ \A p \in Runs : after[p] # "cancel"
  /\ \A p \in Containers : pc[p] # "restore"

Calls == MaxFaults = 0 /\ MaxCrashes = 0 /\ Cancels = {} /\ Disconnects = {}

LEMMA UncancelledRows ==
  ASSUME TypeOK, Uninterrupted, NEW e \in Deployments, Advanced(e), pc'[e] \in {"unwind", "restore"},
         pc[e] \in {"fetch", "slot", "build", "prepare", "lock", "snapshot", "settle", "recheck"},
         ~Fault
  PROVE  rows'[e] = rows[e]
  <1>0. pc \in [Runs -> Stages] /\ e \in Runs /\ e \notin Stops /\ e \in Containers
    BY RunsIncluded, RunsAssumption DEF TypeOK, RolloutTypeOK, Containers
  <1>1. ~CancelSeen(e) /\ e \notin ctxDone /\ IsBuild(e) /\ after[e] # "cancel"
    BY <1>0 DEF CancelSeen, Uninterrupted, IsBuild
  <1>2. CASE Pipeline(e)
    BY <1>0, <1>1, <1>2 DEF Pipeline, Register, ReadCancelFlag, FetchSource, AcquireBuild, MarkBuilding,
       BuildImage, PrepareRun, MarkRowFailed, MarkAppAfterFailure, At, To, GoFail
  <1>3. CASE AcquireRollout(e) \/ GiveUpRollout(e) \/ Unwind(e)
    BY <1>1, <1>3 DEF AcquireRollout, GiveUpRollout, Unwind
  <1>4. CASE Replace(e)
    <2>1. ReadActive(e) \/ RecheckCancel(e) \/ SettleRun(e)
      BY <1>4 DEF Replace, RunContainer, SaveCandidate, AwaitReady, SwitchRoute, SyncDomains,
         PromoteCandidate, PublishApp, RemovePrevious, RetirePrevious,
         RestorePrevious, CleanupCandidate, ClearCandidate, At
    <2> QED BY <1>0, <1>1, <2>1 DEF ReadActive, RecheckCancel, SettleRun, To, FinishCancelled
  <1> QED BY <1>0, <1>2, <1>3, <1>4 DEF Advanced, Advance

LEMMA UninterruptedStep ==
  ASSUME TypeOK, TypeOK', Uninterrupted, [Next]_vars, Calls
  PROVE  Uninterrupted'
  <1>0. /\ pc \in [Runs -> Stages] /\ after \in [Runs -> Settlements] /\ ~Fault
        /\ boot = "serving" /\ ctxDone = {}
    BY DEF TypeOK, RolloutTypeOK, Fault, Calls, Uninterrupted
  <1>1. ~Crash /\ ~Startup
    BY <1>0, SystemAssumption
       DEF Crash, Calls, TypeOK, Startup, RecoverCandidate, RecoveryDone, Reconcile
  <1>2. boot' = "serving" /\ cancelling' = cancelling
    BY <1>0, <1>1 DEF Next, Requested, Advanced, HealthChecked, Exited, Rest, Calls, vars, environment
  <1>3. ctxDone' = {}
    <2> SUFFICES ASSUME NEW p \in ctxDone' PROVE FALSE
      OBVIOUS
    <2>1. ctxDone' # ctxDone
      BY <1>0
    <2>2. CASE Requested
      BY <2>1, <2>2 DEF Requested, Request, Create, RequestRollback, RequestStop, Calls, contexts
    <2>3. ASSUME NEW q \in Runs, Advanced(q) PROVE FALSE
      <3>1. (q \in Deployments /\ ReadCancelFlag(q)) \/ ctxDone' = ctxDone \/ ctxDone' = ctxDone \ {q}
        BY <2>3 DEF Advanced, Advance, Pipeline, Register, FetchSource, AcquireBuild,
             MarkBuilding, BuildImage, PrepareRun, MarkRowFailed, MarkAppAfterFailure, AcquireRollout,
             GiveUpRollout, Unwind, Replace, ReadActive, RunContainer, SaveCandidate, AwaitReady,
             SwitchRoute, SyncDomains, RecheckCancel, PromoteCandidate, PublishApp, RemovePrevious,
             RetirePrevious, RestorePrevious, CleanupCandidate, ClearCandidate, SettleRun,
             Stop, StopRemoveRoute, StopRemoveDomains, StopFindRelease, StopRemoveContainer,
             StopMarkRow, StopMarkApp, DeleteApp, contexts
      <3> QED BY <1>0, <2>1, <3>1 DEF ReadCancelFlag, Uninterrupted
    <2>4. ~(HealthChecked \/ Exited \/ Rest \/ UNCHANGED vars)
      BY <2>1 DEF HealthChecked, Health, HealthList, HealthPass, HealthInspect, HealthSkip,
           HealthMarkRow, HealthMarkApp, Exited, ContainerExits, Rest, vars, rolloutVars, contexts
    <2> QED BY <1>1, <2>2, <2>3, <2>4 DEF Next, Calls
  <1>4. ASSUME NEW e \in Deployments PROVE rows'[e].cancelReq = FALSE
    <2>1. RowStep(e) /\ rows[e].cancelReq = FALSE /\ e \in Runs
      BY RowsStep, RunsIncluded DEF Uninterrupted
    <2>2. ~AskingCancel(e)
      BY <1>2 DEF AskingCancel
    <2>3. ~Cancelling(e)
      <3> SUFFICES ASSUME Cancelling(e) PROVE FALSE
        OBVIOUS
      <3>1. /\ pc[e] \in {"fetch", "slot", "build", "prepare", "lock", "snapshot", "settle", "recheck"}
            /\ pc'[e] \in {"unwind", "restore"} /\ pc'[e] # pc[e] /\ pc[e] # "new"
            /\ rows'[e].cancelReq = TRUE
        BY <1>2 DEF Cancelling, At, CancelSet
      <3>2. Advanced(e)
        BY <1>1, <2>1, <3>1, MovedBy
      <3>3. rows'[e] = rows[e]
        BY <1>0, <3>1, <3>2, UncancelledRows
      <3> QED BY <2>1, <3>1, <3>3
    <2> QED BY <2>1, <2>2, <2>3 DEF RowStep, Inserting, Deleting, NoRow, Building, Failing, StatusSet,
               Recording, Clearing, CandidateSet, Promoting, PromotedTo, Retiring, Stopping, Abandoning
  <1>5. ASSUME NEW p \in Runs PROVE after'[p] # "cancel"
    <2>1. after[p] # "cancel"
      BY DEF Uninterrupted
    <2>2. CASE after' = after
      BY <2>1, <2>2
    <2>3. ASSUME NEW q \in Runs, NEW how, how # "cancel", Settle(q, how) PROVE after'[p] # "cancel"
      BY <1>0, <2>1, <2>3 DEF Settle
    <2>4. ASSUME NEW q \in Runs, Advanced(q) PROVE after'[p] # "cancel"
      <3>1. OnError(q) # "cancel"
        BY <1>0 DEF OnError
      <3>2. CASE Pipeline(q) \/ AcquireRollout(q) \/ GiveUpRollout(q) \/ Unwind(q)
        BY <2>2, <2>3, <2>4, <3>2 DEF Pipeline, Register, ReadCancelFlag, FetchSource, AcquireBuild,
             MarkBuilding, BuildImage, PrepareRun, MarkRowFailed, MarkAppAfterFailure, AcquireRollout,
             GiveUpRollout, Unwind, memory
      <3>3. CASE Replace(q)
        BY <2>2, <2>3, <2>4, <3>1, <3>3 DEF Replace, ReadActive, RunContainer, SaveCandidate, AwaitReady,
             SwitchRoute, SyncDomains, RecheckCancel, PromoteCandidate, PublishApp, RemovePrevious,
             RetirePrevious, RestorePrevious, CleanupCandidate, ClearCandidate, SettleRun, memory
      <3>4. CASE Stop(q)
        BY <2>2, <3>4 DEF Stop, StopRemoveRoute, StopRemoveDomains, StopFindRelease,
             StopRemoveContainer, StopMarkRow, StopMarkApp, DeleteApp, memory
      <3> QED BY <2>4, <3>2, <3>3, <3>4 DEF Advanced, Advance
    <2>5. CASE Requested \/ HealthChecked \/ Exited \/ Rest \/ UNCHANGED vars
      BY <2>2, <2>5 DEF Requested, Request, Create, RequestRollback, RequestStop, Disconnect,
           HealthChecked, Health, HealthList, HealthPass, HealthInspect, HealthSkip, HealthMarkRow,
           HealthMarkApp, Exited, ContainerExits, Rest, vars, rolloutVars, memory
    <2> QED BY <1>1, <2>4, <2>5 DEF Next, Calls
  <1>6. ASSUME NEW p \in Containers, pc'[p] = "restore" PROVE FALSE
    <2>0. p \in Runs /\ pc[p] # "restore"
      BY RunsIncluded DEF Uninterrupted
    <2>1. Advanced(p) /\ pc[p] \in {"sync", "recheck", "promote"}
      BY <1>1, <1>6, <2>0, MovedBy, StagesStep DEF StageStep, Flow
    <2>2. SyncDomains(p) \/ RecheckCancel(p) \/ PromoteCandidate(p)
      BY <2>1, ReplaceActions DEF Advanced
    <2>3. ~Fails(p) /\ p \notin ctxDone /\ (IsBuild(p) => ~CancelSeen(p))
      BY <1>0 DEF Fails, CancelSeen, IsBuild, Uninterrupted
    <2> QED BY <1>0, <1>6, <2>0, <2>2, <2>3 DEF SyncDomains, RecheckCancel, PromoteCandidate, To
  <1>7. ASSUME NEW c \in Containers, containers'[c] = "created" PROVE FALSE
    <2>0. containers \in Store /\ containers[c] # "created" /\ c \in Runs
      BY TypeFacts, RunsIncluded DEF TypeOK, Uninterrupted
    <2>1. CASE containers' = containers
      BY <1>7, <2>0, <2>1
    <2>2. ASSUME NEW x, containers' \in {Removed(x), Stopped(x)} PROVE FALSE
      BY <1>7, <2>0, <2>2 DEF Removed, Stopped, Store
    <2>3. ASSUME NEW p \in Runs, Advanced(p) PROVE FALSE
      <3>1. CASE RunContainer(p)
        BY <1>0, <1>7, <2>0, <3>1 DEF RunContainer, Started, Store
      <3>2. CASE SaveCandidate(p) \/ RemovePrevious(p) \/ CleanupCandidate(p)
        BY <2>1, <2>2, <3>2 DEF SaveCandidate, RemovePrevious, CleanupCandidate
      <3>3. CASE StopRemoveContainer(p)
        BY <2>1, <2>2, <3>3 DEF StopRemoveContainer, Uncertain
      <3>4. CASE containers' # containers
        BY <2>3, <3>1, <3>2, <3>3, <3>4
           DEF Advanced, Advance, Pipeline, Register, ReadCancelFlag, FetchSource, AcquireBuild,
             MarkBuilding, BuildImage, PrepareRun, MarkRowFailed, MarkAppAfterFailure, AcquireRollout,
             GiveUpRollout, Unwind, Replace, ReadActive, AwaitReady,
             SwitchRoute, SyncDomains, RecheckCancel, PromoteCandidate, PublishApp,
             RetirePrevious, RestorePrevious, ClearCandidate, SettleRun,
             Stop, StopRemoveRoute, StopRemoveDomains, StopFindRelease,
             StopMarkRow, StopMarkApp, DeleteApp, services
      <3> QED BY <2>1, <3>4
    <2>4. CASE containers' # containers /\ ~Exited
      BY <1>1, <2>3, <2>4 DEF Next, Requested, Request, Create, RequestRollback, RequestStop, Disconnect,
         CancelArrives, CancelHandled, HealthChecked, Health, HealthList, HealthPass, HealthInspect,
         HealthSkip, HealthMarkRow, HealthMarkApp, Rest, vars, rolloutVars, services, Calls
    <2>5. CASE Exited
      BY <1>7, <2>0, <2>5 DEF Exited, ContainerExits, Store
    <2> QED BY <2>1, <2>4, <2>5
  <1> QED BY <1>2, <1>3, <1>4, <1>5, <1>6, <1>7 DEF Uninterrupted

-----------------------------------------------------------------------------
(* The domain's route goes with the release too: none is running, none is  *)
(* routed, but for what the run at work has just switched or taken away.   *)
DomainUnsure == {"recheck", "promote", "stopFind", "stopContainer", "stopRow"} \cup Committing

DomainInv ==
  /\ (RunningRows = {} /\ \A p \in Runs : pc[p] \notin DomainUnsure) => domainRoute = None
  /\ \A s \in Stops : pc[s] \in {"stopFind", "stopContainer", "stopRow", "stopApp"} => domainRoute = None

DomainRouteStep ==
  \/ domainRoute' = domainRoute
  \/ \E p \in Containers : At(p, "sync") /\ pc'[p] = "recheck"
  \/ domainRoute' = None /\ \E s \in Stops : At(s, "stopDomains")

LEMMA DomainRouteSteps ==
  ASSUME TypeOK, Uninterrupted, ~LostReplies, [Next]_vars
  PROVE  DomainRouteStep
  <1>0. pc \in [Runs -> Stages] /\ boot = "serving"
    BY DEF TypeOK, RolloutTypeOK, Uninterrupted
  <1>1. CASE domainRoute' = domainRoute
    BY <1>1 DEF DomainRouteStep
  <1>2. ASSUME NEW p \in Runs, Advanced(p) PROVE DomainRouteStep
    <2>1. CASE p \in Containers /\ Replace(p)
      <3>1. CASE SyncDomains(p)
        BY <1>0, <1>1, <2>1, <3>1 DEF SyncDomains, Uncertain, To, DomainRouteStep
      <3>2. ~RestorePrevious(p)
        BY <2>1 DEF RestorePrevious, At, Uninterrupted
      <3> QED BY <1>1, <2>1, <3>1, <3>2
              DEF Replace, ReadActive, RunContainer, SaveCandidate, AwaitReady, SwitchRoute,
                RecheckCancel, PromoteCandidate, PublishApp, RemovePrevious, RetirePrevious,
                CleanupCandidate, ClearCandidate, SettleRun, services
    <2>2. CASE p \in Stops /\ Stop(p)
      <3>1. CASE StopRemoveDomains(p)
        BY <1>1, <2>2, <3>1 DEF StopRemoveDomains, Uncertain, DomainRouteStep
      <3> QED BY <1>1, <2>2, <3>1
              DEF Stop, StopRemoveRoute, StopFindRelease, StopRemoveContainer, StopMarkRow,
                StopMarkApp, DeleteApp, services
    <2>3. CASE Pipeline(p) \/ AcquireRollout(p) \/ GiveUpRollout(p) \/ Unwind(p)
      BY <1>1, <2>3 DEF Pipeline, Register, ReadCancelFlag, FetchSource, AcquireBuild, MarkBuilding,
         BuildImage, PrepareRun, MarkRowFailed, MarkAppAfterFailure, AcquireRollout, GiveUpRollout,
         Unwind, services
    <2> QED BY <1>2, <2>1, <2>2, <2>3 DEF Advanced, Advance
  <1>3. CASE Requested \/ HealthChecked \/ \E d \in Cancels : CancelArrives(d) \/ CancelHandled(d)
    BY <1>1, <1>3 DEF Requested, Request, Create, RequestRollback, RequestStop, Disconnect,
         CancelArrives, RequestCancel, CancelHandled, CancelHandler, InterruptPipeline,
         MarkUnregistered, HealthChecked, Health, HealthList, HealthPass, HealthInspect,
         HealthSkip, HealthMarkRow, HealthMarkApp, rolloutVars, services
  <1>4. CASE Exited \/ Crash \/ Startup \/ Rest \/ UNCHANGED vars
    BY <1>0, <1>1, <1>4 DEF Exited, ContainerExits, Crash, Startup, RecoverCandidate, RecoveryDone,
         Reconcile, Rest, vars, rolloutVars, services
  <1> QED BY <1>2, <1>3, <1>4 DEF Next

LEMMA DomainStep ==
  ASSUME Stepping, Uninterrupted, Uninterrupted', DomainInv
  PROVE  DomainInv'
  <1> USE DEF DomainUnsure, Committing
  <1>0. DomainRouteStep /\ boot' # "recovering"
    BY DomainRouteSteps, SteppingFacts DEF Stepping, Uninterrupted
  <1>1. ASSUME NEW s \in Stops, pc'[s] \in {"stopFind", "stopContainer", "stopRow", "stopApp"}
        PROVE  domainRoute' = None
    <2>0. /\ s \in Runs /\ pc[s] # "new"
          /\ pc[s] \in {"stopDomains", "stopFind", "stopContainer", "stopRow", "stopApp"}
      BY <1>1, SteppingFacts, StagesStep, RunsIncluded DEF Stepping, StageStep, Flow
    <2>1. CASE pc[s] = "stopDomains"
      <3>1. Setting(s) /\ pc'[s] = "stopFind"
        BY <1>0, <1>1, <2>0, <2>1, Mover DEF Flow
      <3>2. StopRemoveDomains(s)
        BY <2>1, <3>1, StopActions DEF Setting, Advanced
      <3> QED BY <2>0, <2>1, <3>1, <3>2, SteppingFacts DEF StopRemoveDomains, To
    <2>2. CASE pc[s] # "stopDomains"
      <3>1. domainRoute = None
        BY <2>0, <2>2 DEF DomainInv
      <3>2. \A q \in Containers : ~At(q, "sync")
        <4>1. \A q \in Containers : q # s
          BY RunsAssumption
        <4> QED BY <2>0, <4>1, Alone, RunsIncluded DEF Critical, At
      <3> QED BY <1>0, <3>1, <3>2 DEF DomainRouteStep
    <2> QED BY <2>1, <2>2
  <1>2. ASSUME RunningRows' = {}, \A p \in Runs : pc'[p] \notin DomainUnsure
        PROVE  domainRoute' = None
    <2>1. ASSUME domainRoute = None PROVE domainRoute' = None
      BY <1>0, <1>2, <2>1, RunsIncluded DEF DomainRouteStep
    <2>2. CASE \A p \in Runs : pc[p] \notin DomainUnsure
      <3>1. Steady
        BY <2>2, SteadyRows, SteppingFacts, RunsIncluded DEF Stepping
      <3> QED BY <1>2, <2>1, <2>2, <3>1 DEF DomainInv, Steady
    <2>3. ASSUME NEW p \in Runs, pc[p] \in DomainUnsure PROVE domainRoute' = None
      <3>1. pc[p] \in Critical /\ pc[p] # "new" /\ pc'[p] # pc[p]
        BY <1>2, <2>3 DEF Critical
      <3>2. Flow(pc[p], pc'[p])
        BY <1>0, <3>1, Mover
      <3>3. CASE pc[p] \in {"recheck", "promote"}
        <4>1. p \in Containers
          BY <3>3, SteppingFacts DEF KindInv, Trying, Owning, Runs, Containers
        <4> QED BY <1>2, <3>2, <3>3, <4>1 DEF Flow, Uninterrupted
      <3>4. CASE pc[p] \in Committing
        <4>1. p \in Containers
          BY <3>4, SteppingFacts DEF KindInv, Runs, Containers
        <4> QED BY <1>2, <3>4, <4>1, CommittedRuns
      <3>5. CASE pc[p] \in {"stopFind", "stopContainer", "stopRow"}
        <4>1. p \in Stops
          BY <3>5, SteppingFacts DEF KindInv, Ending, Runs, Containers
        <4> QED BY <2>1, <3>5, <4>1 DEF DomainInv
      <3> QED BY <2>3, <3>3, <3>4, <3>5
    <2> QED BY <2>2, <2>3
  <1> QED BY <1>1, <1>2 DEF DomainInv

(* One release at rest: after any number of overlapping deployments,       *)
(* rollbacks and stops that nothing disturbs there is at most one running  *)
(* row, its container is the only one that exists and the one both routes  *)
(* dial, and a stopped application has none.                               *)
THEOREM OneRelease ==
  ASSUME ~LostReplies, ~HealthOn, Deletes = {},
         MaxFaults = 0, MaxExits = 0, MaxCrashes = 0, Disconnects = {}, Cancels = {}
  PROVE  Spec => []OneReleaseAtRest
  <1> DEFINE I == Clean /\ Served /\ Uninterrupted /\ DomainInv
  <1>1. TypeOK /\ TypeOK' /\ [Next]_vars => [Spared]_vars
    BY UndisturbedSpared
  <1>2. Init => Uninterrupted /\ DomainInv
    BY DEF Init, RolloutInit, StoreInit, Uninterrupted, DomainInv, NoRow, Runs, Containers
  <1>3. /\ Base /\ Base' /\ Served /\ StopInv /\ Clean /\ Uninterrupted /\ DomainInv /\ [Next]_vars
        /\ [Spared]_vars
        => Uninterrupted' /\ DomainInv'
    <2> SUFFICES ASSUME Base, Base', Served, StopInv, Clean, Uninterrupted, DomainInv, [Next]_vars,
                        [Spared]_vars
                 PROVE  Uninterrupted' /\ DomainInv'
      OBVIOUS
    <2>1. Uninterrupted'
      BY UninterruptedStep DEF Base, Calls
    <2>2. UNCHANGED vars => Spared
      BY DEF vars, rolloutVars, contexts, environment, NoFault, Spared
    <2>3. Stepping
      BY <2>2 DEF Stepping, Clean
    <2> QED BY <2>1, <2>3, DomainStep
  <1>4. Base /\ Served /\ Clean /\ Uninterrupted /\ DomainInv => OneReleaseAtRest
    <2> SUFFICES ASSUME Base, Served, Clean, Uninterrupted, DomainInv, Quiescent
                 PROVE  /\ \A d, e \in RunningRows : d = e
                        /\ {c \in Containers : containers[c] # "none"} = {rows[d].container : d \in RunningRows}
                        /\ route = Snapshot(Active).container
                        /\ HasDomain => domainRoute = route
                        /\ app.status = "stopped" => RunningRows = {}
      BY DEF OneReleaseAtRest
    <2>1. /\ Calm /\ Bare /\ (app.status = "stopped" => RunningRows = {})
          /\ \A c \in Containers : WasStarted(c) => \E d \in RunningRows : rows[d].container = c
      BY AtRest
    <2>2. ASSUME NEW d \in RunningRows
          PROVE  rows[d].container \in Containers /\ containers[rows[d].container] # "none"
      <3>1. rows[d] \in Row
        BY TypeFacts DEF Base, TypeOK, Rows, RunningRows
      <3> QED BY <2>1, <3>1 DEF Calm, Up, Row
    <2>3. {c \in Containers : containers[c] # "none"} = {rows[d].container : d \in RunningRows}
      <3>1. \A c \in Containers : containers[c] # "none" => WasStarted(c)
        BY TypeFacts DEF Base, TypeOK, Store, Uninterrupted, WasStarted
      <3> QED BY <2>1, <2>2, <3>1
    <2>4. RunningRows = {} => domainRoute = None
      BY DEF DomainInv, DomainUnsure, Committing, Quiescent
    <2>5. CASE RunningRows = {}
      BY <2>1, <2>3, <2>4, <2>5 DEF Bare, Active, Snapshot, NoRelease
    <2>6. CASE RunningRows # {}
      <3>1. Active \in RunningRows /\ Active # None
        BY <2>6, ExtremesExist, NamesAssumption DEF Active, RunningRows, Containers
      <3> QED BY <2>1, <2>3, <3>1 DEF Calm, Snapshot
    <2> QED BY <2>5, <2>6
  <1> QED
    BY <1>1, <1>2, <1>3, <1>4, TypeInvariant, BaseInvariant, ServedInvariant, StopInvariant,
       CleanInvariant, PTL DEF Spec
=============================================================================
