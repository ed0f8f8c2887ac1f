----------------------- MODULE DeploymentSystemProofs -----------------------
(***************************************************************************)
(* What holds of one application's rollouts for any number of deployments, *)
(* rollbacks, stops, faults, crashes and cancellations: they are well      *)
(* typed, one at a time, a deletion cleans up first, a cancelled           *)
(* deployment stays cancelled, and the others follow the status diagram.   *)
(*                                                                         *)
(* RolloutsSerialized only says that no two runs are critical at once; it  *)
(* is inductive together with the reason: a critical run is the one the    *)
(* lock names.  The other results rest on one account of what a step can   *)
(* do to a row (RowsStep), to a run's stage (StagesStep, MovedBy), to what *)
(* it remembers (PreviousSteps, TargetSteps), to a container and to the    *)
(* route, and on the shape they give the data (ShapeInvariant).            *)
(***************************************************************************)
EXTENDS DeploymentSystem, TLAPS

Rows == [Deployments -> Row]
Store == [Containers -> {"none", "created", "up", "down"}]

-----------------------------------------------------------------------------
(* Every statement of the store leaves well-typed rows.                    *)
LEMMA UpdateTyped ==
  ASSUME rows \in Rows, NEW d, NEW row, d \in Deployments => row \in Row
  PROVE  Update(d, row) \in Rows
  BY DEF Update, Rows

LEMMA NoRowTyped == NoRow \in Row
  BY DEF NoRow, Row, Status, Cancellable, Rollbackable

LEMMA StatementsTyped ==
  ASSUME rows \in Rows, NEW d
  PROVE  /\ Inserted(d) \in Rows
         /\ \A s \in Status : WithStatus(d, s) \in Rows
         /\ CancelRequested(d) \in Rows
         /\ MarkedCancelled(d) \in Rows
         /\ \A c \in Containers \cup {None} : WithCandidate(d, c) \in Rows
         /\ \A c \in Containers : Promoted(d, c) \in Rows
  <1>1. Inserted(d) \in Rows
    BY NoRowTyped DEF Inserted, Rows, NoRow, Row, Status, Cancellable, Rollbackable
  <1>2. ASSUME NEW s \in Status PROVE WithStatus(d, s) \in Rows
    <2>1. d \in Deployments => [rows[d] EXCEPT !.status = s] \in Row
      BY DEF Rows, Row
    <2> QED BY <2>1, UpdateTyped DEF WithStatus
  <1>3. CancelRequested(d) \in Rows
    <2>1. d \in Deployments =>
            [rows[d] EXCEPT !.status = "cancel_requested", !.cancelReq = TRUE] \in Row
      BY DEF Rows, Row, Status, Cancellable
    <2> QED BY <2>1, UpdateTyped DEF CancelRequested
  <1>4. MarkedCancelled(d) \in Rows
    <2>1. d \in Deployments =>
            [rows[d] EXCEPT !.status = "cancelled", !.cancelReq = TRUE] \in Row
      BY DEF Rows, Row, Status
    <2> QED BY <2>1, UpdateTyped DEF MarkedCancelled
  <1>5. ASSUME NEW c \in Containers \cup {None} PROVE WithCandidate(d, c) \in Rows
    <2>1. d \in Deployments => [rows[d] EXCEPT !.candidate = c] \in Row
      BY DEF Rows, Row
    <2> QED BY <2>1, UpdateTyped DEF WithCandidate
  <1>6. ASSUME NEW c \in Containers PROVE Promoted(d, c) \in Rows
    <2>1. d \in Deployments =>
            [rows[d] EXCEPT !.status = "running", !.container = c, !.candidate = None] \in Row
      BY DEF Rows, Row, Status
    <2> QED BY <2>1, UpdateTyped DEF Promoted
  <1> QED BY <1>1, <1>2, <1>3, <1>4, <1>5, <1>6

(* A non-empty set of rows has a newest and an oldest one.                 *)
LEMMA ExtremesExist ==
  ASSUME NEW ds \in SUBSET Deployments, ds # {}
  PROVE  /\ Newest(ds) \in ds /\ \A e \in ds : e <= Newest(ds)
         /\ Oldest(ds) \in ds /\ \A e \in ds : Oldest(ds) <= e
  BY DeploymentsAssumption DEF Newest, Oldest

LEMMA SnapshotTyped ==
  ASSUME rows \in Rows
  PROVE  /\ NoRelease \in Releases
         /\ \A d \in Deployments \cup {None} : Snapshot(d) \in Releases
         /\ Active \in Deployments \cup {None}
         /\ LatestFailed \in Deployments \cup {None}
  <1>1. NoRelease \in Releases
    BY DEF NoRelease, Releases
  <1>2. ASSUME NEW d \in Deployments \cup {None} PROVE Snapshot(d) \in Releases
    BY <1>1 DEF Snapshot, Releases, Rows, Row
  <1>3. Active \in Deployments \cup {None}
    BY ExtremesExist DEF Active, RunningRows
  <1>4. LatestFailed \in Deployments \cup {None}
    <2> DEFINE created == {d \in Deployments : Exists(d)}
    <2>1. created # {} => Newest(created) \in Deployments
      BY ExtremesExist
    <2> QED BY <2>1 DEF LatestFailed
  <1> QED BY <1>1, <1>2, <1>3, <1>4

LEMMA DockerTyped ==
  ASSUME containers \in Store
  PROVE  /\ \A p \in Containers : Started(p) \in Store
         /\ \A c : Stopped(c) \in Store /\ Removed(c) \in Store
         /\ \A p \in Containers : [containers EXCEPT ![p] = "created"] \in Store
  BY DEF Started, Stopped, Removed, Store

-----------------------------------------------------------------------------
(* markFailed has decided what it will say of the application.             *)
ReportDecided ==
  \A d \in Deployments : pc[d] = "failApp" => after[d] \in {"running", "failed"}

(* The types once more, with the names the lemmas above use.               *)
LEMMA TypeFacts ==
  ASSUME RolloutTypeOK
  PROVE  /\ rows \in Rows /\ app \in [status : AppStatus, url : BOOLEAN]
         /\ containers \in Store /\ faults \in 0..MaxFaults
         /\ \A p \in Runs : previous[p] \in Releases
         /\ \A p \in Runs : previous[p].container \in Containers \cup {None}
         /\ \A p \in Rollbacks : target[p] \in Deployments \cup {None}
         /\ Deployments \subseteq Runs /\ Containers \subseteq Runs
         /\ Rollbacks \subseteq Runs /\ Stops \subseteq Runs
  BY RunsAssumption
     DEF RolloutTypeOK, StoreTypeOK, Rows, Store, Runs, Containers, Releases

LEMMA AppTyped ==
  ASSUME app \in [status : AppStatus, url : BOOLEAN], NEW status \in AppStatus
  PROVE  /\ AppWith(status, TRUE) \in [status : AppStatus, url : BOOLEAN]
         /\ AppWith(status, FALSE) \in [status : AppStatus, url : BOOLEAN]
         /\ AppWith(status, app.url) \in [status : AppStatus, url : BOOLEAN]
  BY DEF AppWith

LEMMA NamesTyped ==
  /\ {"running", "failed", "stopped", "superseded", "rolled_back", "building"} \subseteq Status
  /\ {"running", "failed", "stopped"} \subseteq AppStatus
  BY DEF Status, AppStatus, Cancellable, Rollbackable

LEMMA FaultTyped ==
  ASSUME RolloutTypeOK, Fault \/ NoFault
  PROVE  faults' \in 0..MaxFaults
  BY RunsAssumption DEF RolloutTypeOK, Fault, NoFault

(* The writes whose failure is passed over. *)
LEMMA TryTyped ==
  ASSUME RolloutTypeOK
  PROVE  /\ \A d : TryMarkCancelled(d) => rows' \in Rows /\ faults' \in 0..MaxFaults
         /\ \A status \in AppStatus : TryAppStatus(status) =>
              /\ app' \in [status : AppStatus, url : BOOLEAN]
              /\ faults' \in 0..MaxFaults
  <1>1. \A d : TryMarkCancelled(d) => rows' \in Rows /\ faults' \in 0..MaxFaults
    BY TypeFacts, StatementsTyped, FaultTyped DEF TryMarkCancelled
  <1>2. \A status \in AppStatus : TryAppStatus(status) =>
          app' \in [status : AppStatus, url : BOOLEAN] /\ faults' \in 0..MaxFaults
    BY TypeFacts, AppTyped, FaultTyped DEF TryAppStatus
  <1> QED BY <1>1, <1>2

(* One step of a pipeline. *)
LEMMA PipelineTyped ==
  ASSUME RolloutTypeOK, ReportDecided, NEW d \in Deployments, Pipeline(d)
  PROVE  RolloutTypeOK'
  <1> USE TypeFacts, StatementsTyped, SnapshotTyped
  <1>1. CASE Register(d)
    BY <1>1 DEF Register, RolloutTypeOK, StoreTypeOK, To, Stages, BeforeLock,
           services, memory, contexts
  <1>2. CASE ReadCancelFlag(d)
    BY <1>2 DEF ReadCancelFlag, RolloutTypeOK, StoreTypeOK, To, Stages, BeforeLock,
           services, memory
  <1>3. CASE FetchSource(d)
    <2>1. rows' \in Rows /\ faults' \in 0..MaxFaults
      BY <1>3, TryTyped DEF FetchSource, FinishCancelled
    <2>2. pc' \in [Runs -> Stages]
      BY <1>3 DEF FetchSource, FinishCancelled, GoFail, RolloutTypeOK, To, Stages, BeforeLock, Leaving
    <2> QED
      BY <1>3, <2>1, <2>2
         DEF FetchSource, RolloutTypeOK, StoreTypeOK, Rows, services, memory, contexts
  <1>4. CASE AcquireBuild(d)
    <2>1. rows' \in Rows /\ faults' \in 0..MaxFaults
      BY <1>4, TryTyped DEF AcquireBuild, FinishCancelled
    <2>2. pc' \in [Runs -> Stages]
      BY <1>4 DEF AcquireBuild, FinishCancelled, GoFail, RolloutTypeOK, To, Stages, BeforeLock, Leaving
    <2> QED
      BY <1>4, <2>1, <2>2
         DEF AcquireBuild, RolloutTypeOK, StoreTypeOK, Rows, services, memory, contexts
  <1>5. CASE MarkBuilding(d)
    <2>1. faults' \in 0..MaxFaults
      BY <1>5, FaultTyped DEF MarkBuilding, Works, Fails
    <2>2. rows' \in Rows
      <3>1. rows' = rows \/ rows' = WithStatus(d, "building")
        BY <1>5 DEF MarkBuilding, Uncertain
      <3>2. WithStatus(d, "building") \in Rows
        BY NamesTyped
      <3> QED BY <3>1, <3>2
    <2>3. pc' \in [Runs -> Stages]
      BY <1>5 DEF MarkBuilding, RolloutTypeOK, To, Stages, BeforeLock, Leaving
    <2> QED
      BY <1>5, <2>1, <2>2, <2>3
         DEF MarkBuilding, RolloutTypeOK, StoreTypeOK, Rows, services, memory, contexts
  <1>6. CASE BuildImage(d)
    <2>1. shielded' \subseteq Deployments
      BY <1>6 DEF BuildImage, RolloutTypeOK
    <2>2. rows' \in Rows /\ faults' \in 0..MaxFaults
      BY <1>6, TryTyped DEF BuildImage, FinishCancelled
    <2>3. pc' \in [Runs -> Stages]
      BY <1>6 DEF BuildImage, FinishCancelled, GoFail, RolloutTypeOK, To, Stages, BeforeLock, Leaving
    <2> QED
      BY <1>6, <2>1, <2>2, <2>3
         DEF BuildImage, RolloutTypeOK, StoreTypeOK, Rows, services, contexts
  <1>7. CASE PrepareRun(d)
    <2>1. rows' \in Rows /\ faults' \in 0..MaxFaults
      BY <1>7, TryTyped, FaultTyped DEF PrepareRun, FinishCancelled
    <2>2. pc' \in [Runs -> Stages]
      BY <1>7 DEF PrepareRun, FinishCancelled, GoFail, RolloutTypeOK, To, Stages, BeforeLock, Leaving
    <2> QED
      BY <1>7, <2>1, <2>2
         DEF PrepareRun, RolloutTypeOK, StoreTypeOK, Rows, services, memory, contexts
  <1>8. CASE MarkRowFailed(d)
    <2>1. faults' \in 0..MaxFaults
      BY <1>8, FaultTyped DEF MarkRowFailed
    <2>2. rows' \in Rows
      BY <1>8, NamesTyped DEF MarkRowFailed
    <2>3. after' = [after EXCEPT ![d] = "running"] \/ after' = [after EXCEPT ![d] = "failed"]
      BY <1>8 DEF MarkRowFailed, Settle
    <2>4. after' \in [Runs -> Settlements]
      BY <2>3 DEF RolloutTypeOK, Settlements
    <2>5. pc' \in [Runs -> Stages]
      BY <1>8 DEF MarkRowFailed, RolloutTypeOK, To, Stages, Leaving
    <2> QED
      BY <1>8, <2>1, <2>2, <2>4, <2>5
         DEF MarkRowFailed, RolloutTypeOK, StoreTypeOK, Rows, services, contexts
  <1>9. CASE MarkAppAfterFailure(d)
    <2>1. app' \in [status : AppStatus, url : BOOLEAN] /\ faults' \in 0..MaxFaults
      <3>1. after[d] \in AppStatus
        BY <1>9 DEF MarkAppAfterFailure, At, ReportDecided, AppStatus
      <3> QED BY <1>9, <3>1, TryTyped DEF MarkAppAfterFailure
    <2> QED
      BY <1>9, <2>1 DEF MarkAppAfterFailure, RolloutTypeOK, StoreTypeOK, To, Stages,
           Leaving, services, memory, contexts
  <1> QED
    BY <1>1, <1>2, <1>3, <1>4, <1>5, <1>6, <1>7, <1>8, <1>9 DEF Pipeline

(* One step of the rollout proper. *)
LEMMA ReplaceTyped ==
  ASSUME RolloutTypeOK, NEW p \in Containers, Replace(p)
  PROVE  RolloutTypeOK'
  <1> USE TypeFacts, StatementsTyped, SnapshotTyped, DockerTyped
  <1>0. /\ p \in Runs /\ OnError(p) \in Settlements
        /\ \A stage \in Critical \cup Leaving : To(p, stage) => pc' \in [Runs -> Stages]
        /\ \A how \in Settlements : Settle(p, how) => after' \in [Runs -> Settlements]
        /\ (Works(p) \/ Fails(p) \/ Fault \/ NoFault) => faults' \in 0..MaxFaults
    BY FaultTyped DEF OnError, Settlements, To, Settle, Stages, RolloutTypeOK, Works, Fails
  <1>1. CASE ReadActive(p)
    <2>1. rows' \in Rows
      BY <1>1, TryTyped DEF ReadActive, FinishCancelled
    <2>2. pc' \in [Runs -> Stages]
      BY <1>0, <1>1 DEF ReadActive, FinishCancelled, Critical, Leaving
    <2>3. faults' \in 0..MaxFaults
      BY <1>0, <1>1, TryTyped DEF ReadActive, FinishCancelled
    <2>4. previous' \in [Runs -> Releases]
      BY <1>0, <1>1 DEF ReadActive, RolloutTypeOK
    <2> QED
      BY <1>1, <2>1, <2>2, <2>3, <2>4
         DEF ReadActive, RolloutTypeOK, StoreTypeOK, Rows, Store, services, memory, contexts
  <1>2. CASE RunContainer(p)
    <2>1. containers' \in Store
      <3>1. \/ containers' = Started(p) \/ containers' = containers
            \/ containers' = [containers EXCEPT ![p] = "created"]
        BY <1>2 DEF RunContainer
      <3>2. Started(p) \in Store
        OBVIOUS
      <3>3. [containers EXCEPT ![p] = "created"] \in Store
        BY DEF Store
      <3> QED BY <3>1, <3>2, <3>3
    <2>2. pc' \in [Runs -> Stages]
      BY <1>0, <1>2 DEF RunContainer, Critical, Leaving
    <2>3. faults' \in 0..MaxFaults
      BY <1>0, <1>2 DEF RunContainer
    <2>4. after' \in [Runs -> Settlements]
      BY <1>0, <1>2 DEF RunContainer, RolloutTypeOK
    <2> QED
      BY <1>2, <2>1, <2>2, <2>3, <2>4
         DEF RunContainer, RolloutTypeOK, StoreTypeOK, Rows, Store, services, memory, contexts
  <1>3. CASE SaveCandidate(p)
    <2>1. rows' \in Rows
      <3>1. rows' = rows \/ rows' = WithCandidate(RowOf(p), p)
        BY <1>3 DEF SaveCandidate, Uncertain
      <3> QED BY <3>1
    <2>2. containers' \in Store
      BY <1>0, <1>3 DEF SaveCandidate
    <2>3. pc' \in [Runs -> Stages]
      BY <1>0, <1>3 DEF SaveCandidate, Critical, Leaving
    <2>4. faults' \in 0..MaxFaults
      BY <1>0, <1>3 DEF SaveCandidate
    <2> QED
      BY <1>3, <2>1, <2>2, <2>3, <2>4
         DEF SaveCandidate, RolloutTypeOK, StoreTypeOK, Rows, Store, services, memory, contexts
  <1>4. CASE AwaitReady(p)
    <2>1. pc' \in [Runs -> Stages]
      BY <1>0, <1>4 DEF AwaitReady, Critical, Leaving
    <2>2. after' \in [Runs -> Settlements]
      BY <1>0, <1>4 DEF AwaitReady, RolloutTypeOK, Settlements
    <2> QED
      BY <1>4, <2>1, <2>2
         DEF AwaitReady, RolloutTypeOK, StoreTypeOK, Rows, Store, services, memory, contexts
  <1>5. CASE SwitchRoute(p)
    <2>1. route' \in Containers \cup {None}
      BY <1>0, <1>5 DEF SwitchRoute, RolloutTypeOK, Uncertain
    <2>2. pc' \in [Runs -> Stages]
      BY <1>0, <1>5 DEF SwitchRoute, Critical, Leaving
    <2>3. faults' \in 0..MaxFaults
      BY <1>0, <1>5 DEF SwitchRoute
    <2>4. after' \in [Runs -> Settlements]
      BY <1>0, <1>5 DEF SwitchRoute, RolloutTypeOK
    <2> QED
      BY <1>5, <2>1, <2>2, <2>3, <2>4
         DEF SwitchRoute, RolloutTypeOK, StoreTypeOK, Rows, Store, services, memory, contexts
  <1>6. CASE SyncDomains(p)
    <2>1. domainRoute' \in Containers \cup {None}
      BY <1>0, <1>6 DEF SyncDomains, RolloutTypeOK, Uncertain
    <2>2. pc' \in [Runs -> Stages]
      BY <1>0, <1>6 DEF SyncDomains, Critical, Leaving
    <2>3. faults' \in 0..MaxFaults
      BY <1>0, <1>6 DEF SyncDomains
    <2>4. after' \in [Runs -> Settlements]
      BY <1>0, <1>6 DEF SyncDomains, RolloutTypeOK, Settlements
    <2> QED
      BY <1>6, <2>1, <2>2, <2>3, <2>4
         DEF SyncDomains, RolloutTypeOK, StoreTypeOK, Rows, Store, services, memory, contexts
  <1>7. CASE RecheckCancel(p)
    <2>1. rows' \in Rows /\ faults' \in 0..MaxFaults
      BY <1>7, TryTyped DEF RecheckCancel
    <2>2. pc' \in [Runs -> Stages]
      BY <1>0, <1>7 DEF RecheckCancel, Critical, Leaving
    <2>3. after' \in [Runs -> Settlements]
      BY <1>0, <1>7 DEF RecheckCancel, RolloutTypeOK, Settlements
    <2> QED
      BY <1>7, <2>1, <2>2, <2>3
         DEF RecheckCancel, RolloutTypeOK, StoreTypeOK, Rows, Store, services, memory, contexts
  <1>8. CASE PromoteCandidate(p)
    <2>1. rows' \in Rows
      <3>1. rows' = rows \/ rows' = Promoted(RowOf(p), p)
        BY <1>8 DEF PromoteCandidate, Uncertain
      <3>2. Promoted(RowOf(p), p) \in Rows
        BY ONLY <1>0, TypeFacts, StatementsTyped, RolloutTypeOK, p \in Containers
      <3> QED BY ONLY <3>1, <3>2, TypeFacts, RolloutTypeOK
    <2>2. pc' \in [Runs -> Stages]
      BY <1>0, <1>8 DEF PromoteCandidate, Critical, Leaving
    <2>3. faults' \in 0..MaxFaults
      BY <1>0, <1>8 DEF PromoteCandidate
    <2>4. after' \in [Runs -> Settlements]
      BY <1>0, <1>8 DEF PromoteCandidate, RolloutTypeOK, Settlements
    <2> QED
      BY <1>8, <2>1, <2>2, <2>3, <2>4
         DEF PromoteCandidate, RolloutTypeOK, StoreTypeOK, Rows, Store, services, memory, contexts
  <1>9. CASE PublishApp(p)
    <2>1. app' \in [status : AppStatus, url : BOOLEAN]
      <3>1. \/ app' = app \/ app' = AppWith("running", TRUE)
            \/ app' = AppWith("running", app.url) \/ app' = AppWith(app.status, TRUE)
        BY <1>9 DEF PublishApp
      <3>2. app.status \in AppStatus
        BY TypeFacts
      <3> QED BY <3>1, <3>2, AppTyped, NamesTyped
    <2>2. pc' \in [Runs -> Stages]
      BY <1>0, <1>9 DEF PublishApp, Critical, Leaving
    <2>3. faults' \in 0..MaxFaults
      BY <1>0, <1>9 DEF PublishApp
    <2> QED
      BY <1>9, <2>1, <2>2, <2>3
         DEF PublishApp, RolloutTypeOK, StoreTypeOK, Rows, Store, services, memory, contexts
  <1>10. CASE RemovePrevious(p)
    <2>1. containers' \in Store
      BY <1>0, <1>10 DEF RemovePrevious
    <2>2. pc' \in [Runs -> Stages]
      BY <1>0, <1>10 DEF RemovePrevious, Critical, Leaving
    <2>3. faults' \in 0..MaxFaults
      BY <1>0, <1>10 DEF RemovePrevious
    <2> QED
      BY <1>10, <2>1, <2>2, <2>3
         DEF RemovePrevious, RolloutTypeOK, StoreTypeOK, Rows, Store, services, memory, contexts
  <1>11. CASE RetirePrevious(p)
    <2>1. rows' \in Rows
      <3>1. \/ rows' = rows \/ rows' = WithStatus(previous[p].dep, "superseded")
            \/ rows' = WithStatus(previous[p].dep, "rolled_back")
        BY <1>11 DEF RetirePrevious
      <3>2. "superseded" \in Status /\ "rolled_back" \in Status
        BY NamesTyped
      <3>3. \A q \in {"superseded", "rolled_back"} : WithStatus(previous[p].dep, q) \in Rows
        BY ONLY <3>2, TypeFacts, StatementsTyped, RolloutTypeOK
      <3> QED BY ONLY <3>1, <3>3, TypeFacts, RolloutTypeOK
    <2>2. pc' \in [Runs -> Stages]
      BY <1>0, <1>11 DEF RetirePrevious, Critical, Leaving
    <2>3. faults' \in 0..MaxFaults
      BY <1>0, <1>11 DEF RetirePrevious
    <2> QED
      BY <1>11, <2>1, <2>2, <2>3
         DEF RetirePrevious, RolloutTypeOK, StoreTypeOK, Rows, Store, services, memory, contexts
  <1>12. CASE RestorePrevious(p)
    <2>1. route' \in Containers \cup {None}
      BY <1>0, <1>12 DEF RestorePrevious, RestoredRoute, RolloutTypeOK
    <2>2. domainRoute' \in Containers \cup {None}
      BY <1>0, <1>12 DEF RestorePrevious, RestoredDomain, RolloutTypeOK
    <2>3. pc' \in [Runs -> Stages]
      BY <1>0, <1>12 DEF RestorePrevious, Critical, Leaving
    <2>4. faults' \in 0..MaxFaults
      BY <1>0, <1>12 DEF RestorePrevious
    <2> QED
      BY <1>12, <2>1, <2>2, <2>3, <2>4
         DEF RestorePrevious, RolloutTypeOK, StoreTypeOK, Rows, Store, services, memory, contexts
  <1>13. CASE CleanupCandidate(p)
    <2>1. containers' \in Store
      BY <1>0, <1>13 DEF CleanupCandidate
    <2>2. pc' \in [Runs -> Stages]
      BY <1>0, <1>13 DEF CleanupCandidate, Critical, Leaving
    <2>3. faults' \in 0..MaxFaults
      BY <1>0, <1>13 DEF CleanupCandidate
    <2> QED
      BY <1>13, <2>1, <2>2, <2>3
         DEF CleanupCandidate, RolloutTypeOK, StoreTypeOK, Rows, Store, services, memory, contexts
  <1>14. CASE ClearCandidate(p)
    <2>1. rows' \in Rows
      BY <1>0, <1>14 DEF ClearCandidate
    <2>2. pc' \in [Runs -> Stages]
      BY <1>0, <1>14 DEF ClearCandidate, Critical, Leaving
    <2>3. faults' \in 0..MaxFaults
      BY <1>0, <1>14 DEF ClearCandidate
    <2> QED
      BY <1>14, <2>1, <2>2, <2>3
         DEF ClearCandidate, RolloutTypeOK, StoreTypeOK, Rows, Store, services, memory, contexts
  <1>15. CASE SettleRun(p)
    <2>1. rows' \in Rows /\ faults' \in 0..MaxFaults
      BY <1>15, TryTyped, NamesTyped DEF SettleRun, FinishCancelled
    <2>2. pc' \in [Runs -> Stages]
      BY <1>0, <1>15 DEF SettleRun, FinishCancelled, GoFail, Critical, Leaving
    <2>3. app' \in [status : AppStatus, url : BOOLEAN]
      <3>1. app' = app \/ app' = AppWith("failed", app.url)
        BY <1>15 DEF SettleRun, TryAppStatus
      <3> QED BY <3>1, AppTyped, NamesTyped
    <2> QED
      BY <1>15, <2>1, <2>2, <2>3
         DEF SettleRun, RolloutTypeOK, StoreTypeOK, Rows, Store, services, memory, contexts
  <1> QED
    BY <1>1, <1>2, <1>3, <1>4, <1>5, <1>6, <1>7, <1>8, <1>9, <1>10, <1>11, <1>12, <1>13, <1>14, <1>15 DEF Replace

(* One step of a stop. *)
LEMMA StopTyped ==
  ASSUME RolloutTypeOK, NEW s \in Stops, Stop(s)
  PROVE  RolloutTypeOK'
  <1> USE TypeFacts, StatementsTyped, SnapshotTyped, DockerTyped
  <1>0. /\ s \in Runs
        /\ \A stage \in Critical \cup Leaving : To(s, stage) => pc' \in [Runs -> Stages]
        /\ (Works(s) \/ Fails(s)) => faults' \in 0..MaxFaults
    BY FaultTyped DEF To, Stages, RolloutTypeOK, Works, Fails
  <1>1. CASE StopRemoveRoute(s)
    <2>1. route' \in Containers \cup {None}
      BY <1>0, <1>1 DEF StopRemoveRoute, RolloutTypeOK, Uncertain
    <2>2. pc' \in [Runs -> Stages]
      BY <1>0, <1>1 DEF StopRemoveRoute, Critical, Leaving
    <2>3. faults' \in 0..MaxFaults
      BY <1>0, <1>1 DEF StopRemoveRoute
    <2> QED
      BY <1>1, <2>1, <2>2, <2>3
         DEF StopRemoveRoute, RolloutTypeOK, StoreTypeOK, Rows, Store, services, memory, contexts
  <1>2. CASE StopRemoveDomains(s)
    <2>1. domainRoute' \in Containers \cup {None}
      BY <1>0, <1>2 DEF StopRemoveDomains, RolloutTypeOK, Uncertain
    <2>2. pc' \in [Runs -> Stages]
      BY <1>0, <1>2 DEF StopRemoveDomains, Critical, Leaving
    <2>3. faults' \in 0..MaxFaults
      BY <1>0, <1>2 DEF StopRemoveDomains
    <2> QED
      BY <1>2, <2>1, <2>2, <2>3
         DEF StopRemoveDomains, RolloutTypeOK, StoreTypeOK, Rows, Store, services, memory, contexts
  <1>3. CASE StopFindRelease(s)
    <2>1. previous' \in [Runs -> Releases]
      BY <1>0, <1>3 DEF StopFindRelease, RolloutTypeOK
    <2>2. pc' \in [Runs -> Stages]
      BY <1>0, <1>3 DEF StopFindRelease, Critical, Leaving
    <2>3. faults' \in 0..MaxFaults
      BY <1>0, <1>3 DEF StopFindRelease
    <2> QED
      BY <1>3, <2>1, <2>2, <2>3
         DEF StopFindRelease, RolloutTypeOK, StoreTypeOK, Rows, Store, services, memory, contexts
  <1>4. CASE StopRemoveContainer(s)
    <2>1. containers' \in Store
      BY <1>0, <1>4 DEF StopRemoveContainer, Uncertain
    <2>2. pc' \in [Runs -> Stages]
      BY <1>0, <1>4 DEF StopRemoveContainer, Critical, Leaving
    <2>3. faults' \in 0..MaxFaults
      BY <1>0, <1>4 DEF StopRemoveContainer
    <2> QED
      BY <1>4, <2>1, <2>2, <2>3
         DEF StopRemoveContainer, RolloutTypeOK, StoreTypeOK, Rows, Store, services, memory, contexts
  <1>5. CASE StopMarkRow(s)
    <2>1. rows' \in Rows
      <3>1. rows' = rows \/ rows' = WithStatus(previous[s].dep, "stopped")
        BY <1>5 DEF StopMarkRow, Uncertain
      <3>2. "stopped" \in Status
        BY NamesTyped
      <3>3. WithStatus(previous[s].dep, "stopped") \in Rows
        BY ONLY <3>2, TypeFacts, StatementsTyped, RolloutTypeOK
      <3> QED BY ONLY <3>1, <3>3, TypeFacts, RolloutTypeOK
    <2>2. pc' \in [Runs -> Stages]
      BY <1>0, <1>5 DEF StopMarkRow, Critical, Leaving
    <2>3. faults' \in 0..MaxFaults
      BY <1>0, <1>5 DEF StopMarkRow
    <2> QED
      BY <1>5, <2>1, <2>2, <2>3
         DEF StopMarkRow, RolloutTypeOK, StoreTypeOK, Rows, Store, services, memory, contexts
  <1>6. CASE StopMarkApp(s)
    <2>1. app' \in [status : AppStatus, url : BOOLEAN]
      <3>1. \/ app' = app \/ app' = AppWith("stopped", FALSE)
            \/ app' = AppWith("stopped", app.url)
        BY <1>6 DEF StopMarkApp, Uncertain
      <3> QED BY <3>1, AppTyped, NamesTyped
    <2>2. lock' \in Runs \cup {None}
      BY <1>0, <1>6 DEF StopMarkApp, RolloutTypeOK
    <2>3. pc' \in [Runs -> Stages]
      BY <1>0, <1>6 DEF StopMarkApp, Critical, Leaving
    <2>4. faults' \in 0..MaxFaults
      BY <1>0, <1>6 DEF StopMarkApp
    <2> QED
      BY <1>6, <2>1, <2>2, <2>3, <2>4
         DEF StopMarkApp, RolloutTypeOK, StoreTypeOK, Rows, Store, services, memory, contexts
  <1>7. CASE DeleteApp(s)
    <2>1. rows' \in Rows
      BY <1>0, <1>7, NoRowTyped DEF DeleteApp, Rows
    <2>2. app' \in [status : AppStatus, url : BOOLEAN]
      <3>1. app' = app \/ app' = [status |-> "deleted", url |-> FALSE]
        BY <1>7 DEF DeleteApp
      <3>2. [status |-> "deleted", url |-> FALSE] \in [status : AppStatus, url : BOOLEAN]
        BY ONLY DEF AppStatus
      <3> QED BY <3>1, <3>2
    <2>3. pc' \in [Runs -> Stages]
      BY <1>0, <1>7 DEF DeleteApp, Critical, Leaving
    <2>4. faults' \in 0..MaxFaults
      BY <1>0, <1>7 DEF DeleteApp
    <2> QED
      BY <1>7, <2>1, <2>2, <2>3, <2>4
         DEF DeleteApp, RolloutTypeOK, StoreTypeOK, Rows, Store, services, memory, contexts
  <1> QED
    BY <1>1, <1>2, <1>3, <1>4, <1>5, <1>6, <1>7 DEF Stop

-----------------------------------------------------------------------------
LEMMA AdvanceTyped ==
  ASSUME RolloutTypeOK, ReportDecided, NEW p \in Runs, Advance(p)
  PROVE  RolloutTypeOK'
  <1> USE TypeFacts, StatementsTyped
  <1>1. CASE AcquireRollout(p)
    BY <1>1 DEF AcquireRollout, RolloutTypeOK, StoreTypeOK, To, Stages, Critical,
           services, memory, contexts
  <1>2. CASE GiveUpRollout(p)
    <2>1. rows' \in Rows /\ faults' \in 0..MaxFaults
      BY <1>2, TryTyped DEF GiveUpRollout, FinishCancelled
    <2>2. pc' \in [Runs -> Stages]
      BY <1>2 DEF GiveUpRollout, FinishCancelled, To, RolloutTypeOK, Stages, Leaving
    <2> QED
      BY <1>2, <2>1, <2>2
         DEF GiveUpRollout, RolloutTypeOK, StoreTypeOK, Rows, services, memory, contexts
  <1>3. CASE Unwind(p)
    <2>1. lock' \in Runs \cup {None} /\ executions' \subseteq Deployments
          /\ ctxDone' \subseteq Runs /\ shielded' \subseteq Deployments
      BY <1>3 DEF Unwind, LockAfter, RolloutTypeOK
    <2>2. previous' \in [Runs -> Releases] /\ after' \in [Runs -> Settlements]
      BY <1>3, SnapshotTyped DEF Unwind, Settle, Settlements, RolloutTypeOK
    <2>3. pc' \in [Runs -> Stages]
      BY <1>3 DEF Unwind, To, RolloutTypeOK, Stages
    <2> QED
      BY <1>3, <2>1, <2>2, <2>3 DEF Unwind, RolloutTypeOK, StoreTypeOK, services
  <1> QED
    BY <1>1, <1>2, <1>3, PipelineTyped, ReplaceTyped, StopTyped DEF Advance

LEMMA RequestTyped ==
  ASSUME RolloutTypeOK, Request \/ \E p \in Runs : Disconnect(p)
  PROVE  RolloutTypeOK'
  <1> USE TypeFacts, StatementsTyped
  <1>1. ASSUME NEW d \in Deployments, Create(d) PROVE RolloutTypeOK'
    BY <1>1 DEF Create, RolloutTypeOK, StoreTypeOK, Rows, To, Stages, BeforeLock,
           services, memory, contexts
  <1>2. ASSUME NEW r \in Rollbacks, NEW d \in Deployments, RequestRollback(r, d)
        PROVE  RolloutTypeOK'
    BY <1>2 DEF RequestRollback, RolloutTypeOK, StoreTypeOK, To, Stages, BeforeLock,
           services, contexts
  <1>3. ASSUME NEW s \in Stops, RequestStop(s) PROVE RolloutTypeOK'
    BY <1>3 DEF RequestStop, RolloutTypeOK, StoreTypeOK, To, Stages, BeforeLock,
           services, memory, contexts
  <1>4. ASSUME NEW p \in Runs, Disconnect(p) PROVE RolloutTypeOK'
    BY <1>4 DEF Disconnect, RolloutTypeOK, StoreTypeOK, services, memory
  <1> QED BY <1>1, <1>2, <1>3, <1>4 DEF Request

(* The environment: cancel requests, the health checker, exits, crash and  *)
(* start-up.                                                               *)
LEMMA CancelTyped ==
  ASSUME TypeOK, NEW d \in Deployments, CancelArrives(d) \/ CancelHandled(d)
  PROVE  TypeOK'
  <1>0. RolloutTypeOK
    BY DEF TypeOK
  <1> USE <1>0, TypeFacts, StatementsTyped
  <1>1. CASE CancelArrives(d)
    BY <1>1 DEF CancelArrives, RequestCancel, TypeOK, RolloutTypeOK, StoreTypeOK, Rows,
           services, memory, contexts, healthVars, environment
  <1>2. CASE Serving /\ InterruptPipeline(d) /\ UNCHANGED <<healthVars, environment>>
    BY <1>2 DEF InterruptPipeline, TypeOK, RolloutTypeOK, StoreTypeOK,
           services, memory, healthVars, environment
  <1>3. CASE Serving /\ MarkUnregistered(d) /\ UNCHANGED <<healthVars, environment>>
    BY <1>3, TryTyped DEF MarkUnregistered, TypeOK, RolloutTypeOK, StoreTypeOK, Rows,
           services, memory, contexts, healthVars, environment
  <1> QED BY <1>1, <1>2, <1>3 DEF CancelHandled, CancelHandler

LEMMA RolloutUnchanged ==
  ASSUME RolloutTypeOK, UNCHANGED rolloutVars
  PROVE  RolloutTypeOK'
  BY DEF RolloutTypeOK, StoreTypeOK, rolloutVars, services, memory, contexts

LEMMA HealthTyped ==
  ASSUME TypeOK, HealthChecked
  PROVE  TypeOK'
  <1>0. RolloutTypeOK
    BY DEF TypeOK
  <1> USE <1>0, TypeFacts, StatementsTyped, SnapshotTyped
  <1>1. CASE HealthList
    <2>1. scan' \subseteq Releases
      BY <1>1 DEF HealthList, RunningRows
    <2> QED
      BY <1>1, <2>1, RolloutUnchanged DEF HealthChecked, HealthList, TypeOK, environment
  <1>2. ASSUME NEW x \in Releases, HealthInspect(x) PROVE TypeOK'
    BY <1>2, RolloutUnchanged DEF HealthChecked, HealthInspect, TypeOK, environment
  <1>3. ASSUME NEW x \in Releases, HealthSkip(x) PROVE TypeOK'
    BY <1>3, FaultTyped DEF HealthChecked, HealthSkip, TypeOK, RolloutTypeOK, StoreTypeOK,
           services, memory, contexts, environment
  <1>4. CASE HealthMarkRow
    <2>1. rows' \in Rows /\ faults' \in 0..MaxFaults
      BY <1>4, NamesTyped, FaultTyped DEF HealthMarkRow
    <2> QED
      BY <1>4, <2>1 DEF HealthChecked, HealthMarkRow, NextInScan, TypeOK, RolloutTypeOK,
           StoreTypeOK, Rows, services, memory, contexts, environment
  <1>5. CASE HealthMarkApp
    <2>1. app' \in [status : AppStatus, url : BOOLEAN] /\ faults' \in 0..MaxFaults
      BY <1>5, TryTyped, NamesTyped DEF HealthMarkApp
    <2> QED
      BY <1>5, <2>1 DEF HealthChecked, HealthMarkApp, NextInScan, TypeOK, RolloutTypeOK,
           StoreTypeOK, services, memory, contexts, environment
  <1> QED BY <1>1, <1>2, <1>3, <1>4, <1>5 DEF HealthChecked, Health, HealthPass

LEMMA ExitTyped ==
  ASSUME TypeOK, Exited
  PROVE  TypeOK'
  BY SystemAssumption
     DEF Exited, ContainerExits, TypeOK, RolloutTypeOK, StoreTypeOK, memory, contexts, healthVars

LEMMA CrashTyped ==
  ASSUME TypeOK, Crash
  PROVE  TypeOK'
  <1>0. RolloutTypeOK
    BY DEF TypeOK
  <1>1. RolloutTypeOK'
    BY <1>0, SnapshotTyped, TypeFacts
       DEF Crash, RolloutTypeOK, StoreTypeOK, Stages, BeforeLock, Settlements, services
  <1> QED
    BY <1>0, <1>1, SystemAssumption, SnapshotTyped, TypeFacts DEF Crash, TypeOK

LEMMA StartupTyped ==
  ASSUME TypeOK, Startup
  PROVE  TypeOK'
  <1>0. RolloutTypeOK
    BY DEF TypeOK
  <1> USE <1>0, TypeFacts, SnapshotTyped, DockerTyped
  <1>1. CASE RecoverCandidate
    <2> DEFINE d == Oldest(CandidateRows)
    <2>1. Snapshot(Active).container \in Containers \cup {None}
      BY DEF Releases
    <2>2. route' \in Containers \cup {None} /\ domainRoute' \in Containers \cup {None}
      BY <1>1, <2>1 DEF RecoverCandidate, RecoveredRoute, TypeOK, RolloutTypeOK
    <2>3. containers' \in Store
      BY <1>1 DEF RecoverCandidate
    <2>4. rows' \in Rows
      <3>1. d \in Deployments => [rows[d] EXCEPT !.candidate = None, !.status = "failed"] \in Row
        BY DEF Rows, Row, Status
      <3>2. rows' = Update(d, [rows[d] EXCEPT !.candidate = None, !.status = "failed"])
        BY <1>1 DEF RecoverCandidate
      <3> HIDE DEF d
      <3> QED BY <3>1, <3>2, UpdateTyped
    <2> QED
      BY <1>1, <2>2, <2>3, <2>4 DEF RecoverCandidate, TypeOK, RolloutTypeOK, StoreTypeOK,
           Rows, Store, memory, contexts, healthVars, environment
  <1>2. CASE RecoveryDone
    BY <1>2, RolloutUnchanged DEF RecoveryDone, TypeOK, healthVars
  <1>3. CASE Reconcile
    BY <1>3 DEF Reconcile, TypeOK, RolloutTypeOK, StoreTypeOK, Store, memory, contexts, healthVars
  <1> QED BY <1>1, <1>2, <1>3 DEF Startup

-----------------------------------------------------------------------------
(* A run gets to markFailed's second half through its first.               *)
LEMMA ReportKept ==
  ASSUME RolloutTypeOK, ReportDecided, NEW p \in Runs, Advance(p)
  PROVE  ReportDecided'
  <1>1. CASE p \in Deployments /\ MarkRowFailed(p)
    <2>1. /\ pc' = [pc EXCEPT ![p] = "failApp"]
          /\ \/ after' = [after EXCEPT ![p] = "running"]
             \/ after' = [after EXCEPT ![p] = "failed"]
      BY <1>1 DEF MarkRowFailed, Settle, To
    <2> QED
      BY <2>1 DEF ReportDecided, RolloutTypeOK, Runs
  <1>2. ASSUME NEW stage, stage # "failApp", pc' = [pc EXCEPT ![p] = stage],
               \A q \in Runs : q # p => after'[q] = after[q]
        PROVE  ReportDecided'
    <2>1. \A q \in Runs : pc'[q] = IF q = p THEN stage ELSE pc[q]
      BY <1>2 DEF RolloutTypeOK
    <2> QED
      BY <1>2, <2>1 DEF ReportDecided, Runs
  <1>3. \A how : \A q \in Runs : q # p /\ Settle(p, how) => after'[q] = after[q]
    BY DEF Settle, RolloutTypeOK
  <1>4. CASE p \in Deployments /\ Pipeline(p) /\ ~MarkRowFailed(p)
    BY <1>2, <1>4 DEF Pipeline, Register, ReadCancelFlag, FetchSource, AcquireBuild,
           MarkBuilding, BuildImage, PrepareRun, MarkAppAfterFailure, FinishCancelled,
           GoFail, To, memory
  <1>5. CASE p \in Containers /\ Replace(p)
    <2>1. \A q \in Runs : q # p => after'[q] = after[q]
      BY <1>3, <1>5 DEF Replace, ReadActive, RunContainer, SaveCandidate, AwaitReady, SwitchRoute,
           SyncDomains, RecheckCancel, PromoteCandidate, PublishApp, RemovePrevious,
           RetirePrevious, RestorePrevious, CleanupCandidate, ClearCandidate, SettleRun, memory
    <2> QED
      BY <1>2, <1>5, <2>1 DEF Replace, ReadActive, RunContainer, SaveCandidate, AwaitReady,
           SwitchRoute, SyncDomains, RecheckCancel, PromoteCandidate, PublishApp,
           RemovePrevious, RetirePrevious, RestorePrevious, CleanupCandidate, ClearCandidate,
           SettleRun, FinishCancelled, GoFail, To
  <1>6. CASE p \in Stops /\ Stop(p)
    BY <1>2, <1>6 DEF Stop, StopRemoveRoute, StopRemoveDomains, StopFindRelease,
           StopRemoveContainer, StopMarkRow, StopMarkApp, DeleteApp, To, memory
  <1>7. CASE AcquireRollout(p) \/ GiveUpRollout(p)
    BY <1>2, <1>7 DEF AcquireRollout, GiveUpRollout, FinishCancelled, To, memory
  <1>8. CASE Unwind(p)
    BY <1>2, <1>3, <1>8 DEF Unwind, To
  <1> QED
    BY <1>1, <1>4, <1>5, <1>6, <1>7, <1>8 DEF Advance

LEMMA TypeInvariant == Spec => [](TypeOK /\ ReportDecided)
  <1>1. Init => TypeOK /\ ReportDecided
    <2> SUFFICES ASSUME Init PROVE TypeOK /\ ReportDecided
      OBVIOUS
    <2>1. rows \in Rows
      BY NoRowTyped DEF Init, RolloutInit, StoreInit, Rows
    <2>2. app \in [status : AppStatus, url : BOOLEAN]
      BY DEF Init, RolloutInit, StoreInit, AppStatus
    <2>3. NoRelease \in Releases
      BY DEF NoRelease, Releases
    <2>4. RolloutTypeOK
      BY <2>1, <2>2, <2>3, RunsAssumption DEF Init, RolloutInit, RolloutTypeOK, StoreTypeOK,
           Rows, Stages, BeforeLock, Settlements
    <2>5. ReportDecided
      BY DEF Init, RolloutInit, ReportDecided, Runs
    <2> QED
      BY <2>3, <2>4, <2>5, SystemAssumption DEF Init, TypeOK
  <1>2. TypeOK /\ ReportDecided /\ [Next]_vars => (TypeOK /\ ReportDecided)'
    <2> SUFFICES ASSUME TypeOK, ReportDecided, [Next]_vars
                 PROVE  TypeOK' /\ ReportDecided'
      OBVIOUS
    <2>0. RolloutTypeOK
      BY DEF TypeOK
    <2>1. ASSUME UNCHANGED <<pc, after>> PROVE ReportDecided'
      BY <2>1 DEF ReportDecided
    <2>2. CASE Requested
      <3>1. Request \/ \E p \in Runs : Disconnect(p)
        BY <2>2, SystemAssumption DEF Requested, Runs
      <3>2. TypeOK'
        BY <2>0, <2>2, <3>1, RequestTyped DEF Requested, TypeOK, healthVars, environment
      <3>3. ReportDecided'
        BY <2>0, <3>1 DEF Request, Create, RequestRollback, RequestStop, Disconnect, To,
             ReportDecided, RolloutTypeOK, Runs, memory
      <3> QED BY <3>2, <3>3
    <2>3. ASSUME NEW p \in Runs, Advanced(p) PROVE TypeOK' /\ ReportDecided'
      BY <2>0, <2>3, AdvanceTyped, ReportKept DEF Advanced, TypeOK, healthVars, environment
    <2>4. ASSUME NEW d \in Cancels, CancelArrives(d) \/ CancelHandled(d)
          PROVE  TypeOK' /\ ReportDecided'
      <3>1. d \in Deployments
        BY SystemAssumption
      <3>2. ReportDecided'
        BY <2>4, <2>1 DEF CancelArrives, CancelHandled, RequestCancel, CancelHandler,
             InterruptPipeline, MarkUnregistered, memory
      <3> QED BY <2>4, <3>1, <3>2, CancelTyped
    <2>5. CASE HealthChecked
      <3>1. ReportDecided'
        BY <2>5, <2>1 DEF HealthChecked, Health, HealthList, HealthPass, HealthInspect,
             HealthSkip, HealthMarkRow, HealthMarkApp, rolloutVars, memory
      <3> QED BY <2>5, <3>1, HealthTyped
    <2>6. CASE Exited
      BY <2>6, <2>1, ExitTyped DEF Exited, ContainerExits, memory
    <2>7. CASE Crash
      <3>1. ReportDecided'
        BY <2>7 DEF Crash, ReportDecided, Runs
      <3> QED BY <2>7, <3>1, CrashTyped
    <2>8. CASE Startup
      <3>1. ReportDecided'
        BY <2>8, <2>1 DEF Startup, RecoverCandidate, RecoveryDone, Reconcile, rolloutVars, memory
      <3> QED BY <2>8, <3>1, StartupTyped
    <2>9. CASE UNCHANGED vars
      <3>1. TypeOK'
        BY <2>0, <2>9, RolloutUnchanged DEF vars, TypeOK, healthVars, environment
      <3>2. ReportDecided'
        BY <2>9, <2>1 DEF vars, rolloutVars, memory
      <3> QED BY <3>1, <3>2
    <2> QED
      BY <2>2, <2>3, <2>4, <2>5, <2>6, <2>7, <2>8, <2>9 DEF Next, Rest
  <1> QED
    BY <1>1, <1>2, PTL DEF Spec

(* The schema's constraints hold of every row, and whatever a run keeps of *)
(* the release it replaces stays a release, through faults and crashes.    *)
THEOREM TypeCorrect == Spec => []TypeOK
  BY TypeInvariant, PTL

-----------------------------------------------------------------------------
LockInv ==
  /\ pc \in [Runs -> Stages]
  /\ \A p \in Runs : pc[p] \in Critical => lock = p

LEMMA NoneIsNoRun == None \notin Runs
  BY NamesAssumption, RunsAssumption DEF Runs, Containers

(* A step of one run that leaves the lock alone and does not enter the     *)
(* critical stages from outside.                                           *)
LEMMA StepKeepsLock ==
  ASSUME LockInv, NEW p \in Runs, NEW stage \in Stages,
         pc' = [pc EXCEPT ![p] = stage], lock' = lock,
         stage \in Critical => pc[p] \in Critical
  PROVE  LockInv'
  BY DEF LockInv

(* A step of a run that ends up outside the critical stages and gives the  *)
(* lock back if it had it.                                                 *)
LEMMA LeavingKeepsLock ==
  ASSUME LockInv, NEW p \in Runs, NEW stage \in Stages \ Critical,
         pc' = [pc EXCEPT ![p] = stage], lock' = LockAfter(p)
  PROVE  LockInv'
  BY DEF LockInv, LockAfter

LEMMA AcquireKeepsLock ==
  ASSUME LockInv, NEW p \in Runs, AcquireRollout(p)
  PROVE  LockInv'
  <1>1. \A q \in Runs : pc[q] \notin Critical
    BY NoneIsNoRun DEF LockInv, AcquireRollout, LockFree
  <1>2. PICK stage \in Critical : pc' = [pc EXCEPT ![p] = stage]
    BY DEF AcquireRollout, To, Critical
  <1>3. Critical \subseteq Stages
    BY DEF Stages
  <1> QED
    BY <1>1, <1>2, <1>3 DEF LockInv, AcquireRollout

(* The pipeline moves outside the lock, or -- failing -- leaves it. *)
LEMMA PipelineKeepsLock ==
  ASSUME LockInv, NEW d \in Deployments, Pipeline(d)
  PROVE  LockInv'
  <1>1. d \in Runs
    BY DEF Runs
  <1>2. PICK stage \in Stages \ Critical : pc' = [pc EXCEPT ![d] = stage]
    BY DEF Pipeline, Register, ReadCancelFlag, FetchSource, AcquireBuild, MarkBuilding,
           BuildImage, PrepareRun, MarkRowFailed, MarkAppAfterFailure,
           FinishCancelled, GoFail, To, Stages, BeforeLock, Leaving, Critical
  <1>3. lock' = lock
    BY DEF Pipeline, Register, ReadCancelFlag, FetchSource, AcquireBuild, MarkBuilding,
           BuildImage, PrepareRun, MarkRowFailed, MarkAppAfterFailure
  <1> QED BY <1>1, <1>2, <1>3, StepKeepsLock

(* The rollout proper begins and continues under the lock.                 *)
LEMMA ReplaceKeepsLock ==
  ASSUME LockInv, NEW p \in Containers, Replace(p)
  PROVE  LockInv'
  <1>1. p \in Runs
    BY DEF Runs, Containers
  <1>2. pc[p] \in Critical
    BY DEF Replace, ReadActive, RunContainer, SaveCandidate, AwaitReady, SwitchRoute,
           SyncDomains, RecheckCancel, PromoteCandidate, PublishApp, RemovePrevious,
           RetirePrevious, RestorePrevious, CleanupCandidate, ClearCandidate, SettleRun,
           At, Critical
  <1>3. PICK stage \in Stages : pc' = [pc EXCEPT ![p] = stage]
    <2>1. ASSUME NEW stage, To(p, stage), stage \in {"snapshot", "start", "candidate",
                 "ready", "switch", "sync", "recheck", "promote", "publish",
                 "removePrevious", "retire", "restore", "cleanup", "clear", "settle",
                 "fail", "unwind"}
          PROVE  \E st \in Stages : pc' = [pc EXCEPT ![p] = st]
      BY <2>1 DEF To, Stages, Critical, Leaving
    <2> QED
      BY <2>1 DEF Replace, ReadActive, RunContainer, SaveCandidate, AwaitReady, SwitchRoute,
           SyncDomains, RecheckCancel, PromoteCandidate, PublishApp, RemovePrevious,
           RetirePrevious, RestorePrevious, CleanupCandidate, ClearCandidate, SettleRun,
           FinishCancelled, GoFail
  <1>4. lock' = lock
    BY DEF Replace, ReadActive, RunContainer, SaveCandidate, AwaitReady, SwitchRoute,
           SyncDomains, RecheckCancel, PromoteCandidate, PublishApp, RemovePrevious,
           RetirePrevious, RestorePrevious, CleanupCandidate, ClearCandidate, SettleRun
  <1> QED BY <1>1, <1>2, <1>3, <1>4, StepKeepsLock

(* So does a stop; one that deletes the application gives the lock back    *)
(* before it does.                                                         *)
LEMMA StopKeepsLock ==
  ASSUME LockInv, NEW s \in Stops, Stop(s)
  PROVE  LockInv'
  <1>1. s \in Runs
    BY DEF Runs
  <1>2. CASE StopMarkApp(s)
    <2>1. pc[s] \in Critical /\ lock = s
      BY <1>1, <1>2 DEF StopMarkApp, At, Critical, LockInv
    <2>2. PICK stage \in {"deleteApp", "unwind"} :
            /\ pc' = [pc EXCEPT ![s] = stage]
            /\ lock' = None \/ lock' = lock
      BY <1>2 DEF StopMarkApp, To
    <2>3. stage \in Stages \ Critical
      BY DEF Stages, Leaving, Critical
    <2> QED
      BY <1>1, <2>1, <2>2, <2>3 DEF LockInv
  <1>3. CASE DeleteApp(s)
    <2>1. pc' = [pc EXCEPT ![s] = "unwind"] /\ lock' = lock
      BY <1>3 DEF DeleteApp, To
    <2>2. "unwind" \in Stages \ Critical
      BY DEF Stages, Leaving, Critical
    <2> QED BY <1>1, <2>1, <2>2, StepKeepsLock
  <1>4. CASE \/ StopRemoveRoute(s) \/ StopRemoveDomains(s) \/ StopFindRelease(s)
             \/ StopRemoveContainer(s) \/ StopMarkRow(s)
    <2>1. pc[s] \in Critical /\ lock' = lock
      BY <1>4 DEF StopRemoveRoute, StopRemoveDomains, StopFindRelease, StopRemoveContainer,
             StopMarkRow, At, Critical
    <2>2. PICK stage \in Stages : pc' = [pc EXCEPT ![s] = stage]
      BY <1>4 DEF StopRemoveRoute, StopRemoveDomains, StopFindRelease, StopRemoveContainer,
             StopMarkRow, To, Stages, Critical, Leaving
    <2> QED BY <1>1, <2>1, <2>2, StepKeepsLock
  <1> QED BY <1>2, <1>3, <1>4 DEF Stop

LEMMA AdvanceKeepsLock ==
  ASSUME LockInv, NEW p \in Runs, Advance(p)
  PROVE  LockInv'
  <1>1. CASE GiveUpRollout(p)
    <2>1. pc' = [pc EXCEPT ![p] = "unwind"] /\ lock' = lock
      BY <1>1 DEF GiveUpRollout, FinishCancelled, To
    <2>2. "unwind" \in Stages \ Critical
      BY DEF Stages, Leaving, Critical
    <2> QED BY <2>1, <2>2, StepKeepsLock
  <1>2. CASE Unwind(p)
    <2>1. pc' = [pc EXCEPT ![p] = "done"] /\ lock' = LockAfter(p)
      BY <1>2 DEF Unwind, To
    <2>2. "done" \in Stages \ Critical
      BY DEF Stages, Critical
    <2> QED BY <2>1, <2>2, LeavingKeepsLock
  <1> QED
    BY <1>1, <1>2, PipelineKeepsLock, ReplaceKeepsLock, StopKeepsLock, AcquireKeepsLock
       DEF Advance

LEMMA RequestKeepsLock ==
  ASSUME LockInv, Request
  PROVE  LockInv'
  <1>1. PICK p \in Runs, stage \in {"spawned", "lock"} :
          pc' = [pc EXCEPT ![p] = stage] /\ lock' = lock
    BY DEF Request, Create, RequestRollback, RequestStop, To, Runs
  <1>2. stage \in Stages \ Critical
    BY DEF Stages, BeforeLock, Critical
  <1> QED BY <1>1, <1>2, StepKeepsLock

-----------------------------------------------------------------------------
LEMMA LockInvariant == Spec => []LockInv
  <1>1. Init => LockInv
    BY DEF Init, RolloutInit, LockInv, Stages, BeforeLock, Critical
  <1>2. LockInv /\ [Next]_vars => LockInv'
    <2> SUFFICES ASSUME LockInv, [Next]_vars PROVE LockInv'
      OBVIOUS
    <2>1. ASSUME UNCHANGED <<pc, lock>> PROVE LockInv'
      BY <2>1 DEF LockInv
    <2>2. CASE Requested
      <3>1. CASE Request
        BY <3>1, RequestKeepsLock
      <3>2. CASE \E p \in Disconnects : Disconnect(p)
        BY <3>2, <2>1 DEF Disconnect
      <3> QED BY <2>2, <3>1, <3>2 DEF Requested
    <2>3. ASSUME NEW p \in Runs, Advanced(p) PROVE LockInv'
      BY <2>3, AdvanceKeepsLock DEF Advanced
    <2>4. ASSUME NEW d \in Cancels, CancelArrives(d) \/ CancelHandled(d) PROVE LockInv'
      BY <2>4, <2>1 DEF CancelArrives, CancelHandled, RequestCancel, CancelHandler,
             InterruptPipeline, MarkUnregistered
    <2>5. CASE HealthChecked
      BY <2>5, <2>1 DEF HealthChecked, Health, HealthList, HealthPass, HealthInspect,
             HealthSkip, HealthMarkRow, HealthMarkApp, rolloutVars
    <2>6. CASE Exited
      BY <2>6, <2>1 DEF Exited, ContainerExits
    <2>7. CASE Crash
      BY <2>7 DEF Crash, LockInv, Stages, BeforeLock, Critical
    <2>8. CASE Startup
      BY <2>8, <2>1 DEF Startup, RecoverCandidate, RecoveryDone, Reconcile, rolloutVars
    <2>9. CASE Rest \/ UNCHANGED vars
      BY <2>9, <2>1 DEF Rest, vars, rolloutVars
    <2> QED
      BY <2>2, <2>3, <2>4, <2>5, <2>6, <2>7, <2>8, <2>9 DEF Next
  <1> QED
    BY <1>1, <1>2, PTL DEF Spec

(* At most one pipeline, rollback or stop of an application is between its *)
(* look at the active release and its deferred unlock, with any faults,    *)
(* cancellations and crashes.                                              *)
THEOREM Serialized == Spec => []RolloutsSerialized
  <1>1. LockInv => RolloutsSerialized
    BY DEF LockInv, RolloutsSerialized
  <1> QED BY <1>1, LockInvariant, PTL

-----------------------------------------------------------------------------
(***************************************************************************)
(* What a step makes of one row: every statement of the store, and then    *)
(* every step, with the stage of the run that executes it.                 *)
(***************************************************************************)

(* UPDATE touches one row, and only if it is there. *)
LEMMA UpdateEffect ==
  ASSUME rows \in Rows, NEW d, NEW row, NEW e \in Deployments
  PROVE  Update(d, row)[e] = IF e = d /\ Exists(e) THEN row ELSE rows[e]
  BY DEF Update, Rows

(* A row whose status changes and nothing else; one whose candidate does.  *)
StatusSet(new, e, s) ==
  /\ new.status = s /\ new.container = rows[e].container
  /\ new.candidate = rows[e].candidate /\ new.cancelReq = rows[e].cancelReq

CandidateSet(new, e, c) ==
  /\ new.status = rows[e].status /\ new.container = rows[e].container
  /\ new.candidate = c /\ new.cancelReq = rows[e].cancelReq

CancelSet(new, e, s) ==
  /\ new.status = s /\ new.container = rows[e].container
  /\ new.candidate = rows[e].candidate /\ new.cancelReq = TRUE

PromotedTo(new, e, c) ==
  /\ new.status = "running" /\ new.container = c
  /\ new.candidate = None /\ new.cancelReq = rows[e].cancelReq

LEMMA StatusWritten ==
  ASSUME rows \in Rows, NEW d, NEW s, rows' = rows \/ rows' = WithStatus(d, s), NEW e \in Deployments
  PROVE  rows'[e] = rows[e] \/ (d = e /\ Exists(e) /\ StatusSet(rows'[e], e, s))
  <1>1. rows[e] \in Row
    BY DEF Rows
  <1> QED BY <1>1, UpdateEffect DEF WithStatus, StatusSet, Row

LEMMA CandidateWritten ==
  ASSUME rows \in Rows, NEW d, NEW c, rows' = rows \/ rows' = WithCandidate(d, c),
         NEW e \in Deployments
  PROVE  rows'[e] = rows[e] \/ (d = e /\ Exists(e) /\ CandidateSet(rows'[e], e, c))
  <1>1. rows[e] \in Row
    BY DEF Rows
  <1> QED BY <1>1, UpdateEffect DEF WithCandidate, CandidateSet, Row

LEMMA PromotedRow ==
  ASSUME rows \in Rows, NEW d \in Deployments, NEW c, Exists(d)
  PROVE  PromotedTo(Promoted(d, c)[d], d, c)
  <1> DEFINE row == [rows[d] EXCEPT !.status = "running", !.container = c, !.candidate = None]
  <1>0. rows[d] \in Row
    BY DEF Rows
  <1>1. row.status = "running"
    BY <1>0 DEF Row
  <1>2. row.container = c
    BY <1>0 DEF Row
  <1>3. row.candidate = None
    BY <1>0 DEF Row
  <1>4. row.cancelReq = rows[d].cancelReq
    BY <1>0 DEF Row
  <1>5. Promoted(d, c) = Update(d, row)
    BY DEF Promoted
  <1> HIDE DEF row
  <1>6. Promoted(d, c)[d] = row
    BY <1>5, UpdateEffect
  <1> QED BY <1>1, <1>2, <1>3, <1>4, <1>6 DEF PromotedTo

LEMMA PromotionWritten ==
  ASSUME rows \in Rows, NEW d, NEW c, rows' = rows \/ rows' = Promoted(d, c), NEW e \in Deployments
  PROVE  rows'[e] = rows[e] \/ (d = e /\ Exists(e) /\ PromotedTo(rows'[e], e, c))
  <1>1. d = e /\ Exists(e) => PromotedTo(Promoted(d, c)[e], e, c)
    BY PromotedRow
  <1>2. ~(d = e /\ Exists(e)) => Promoted(d, c)[e] = rows[e]
    BY UpdateEffect DEF Promoted
  <1> QED BY <1>1, <1>2

LEMMA CancelWritten ==
  ASSUME rows \in Rows, NEW d, NEW e \in Deployments
  PROVE  /\ rows' = CancelRequested(d) =>
              \/ rows'[e] = rows[e]
              \/ d = e /\ Exists(e) /\ CancelSet(rows'[e], e, "cancel_requested")
         /\ rows' = rows \/ rows' = MarkedCancelled(d) =>
              \/ rows'[e] = rows[e]
              \/ /\ d = e /\ Exists(e) /\ rows[e].status \in Cancellable
                 /\ CancelSet(rows'[e], e, "cancelled")
  <1> DEFINE row(s) == [rows[d] EXCEPT !.status = s, !.cancelReq = TRUE]
  <1>1. /\ rows' = CancelRequested(d) => rows' = Update(d, row("cancel_requested"))
        /\ rows' = MarkedCancelled(d) =>
             \/ rows' = rows
             \/ rows[d].status \in Cancellable /\ rows' = Update(d, row("cancelled"))
    BY DEF CancelRequested, MarkedCancelled
  <1>2. ASSUME d = e, NEW s PROVE CancelSet(row(s), e, s)
    <2>0. rows[d] \in Row
      BY <1>2 DEF Rows
    <2>1. row(s).status = s
      BY <2>0 DEF Row
    <2>2. row(s).container = rows[d].container
      BY <2>0 DEF Row
    <2>3. row(s).candidate = rows[d].candidate
      BY <2>0 DEF Row
    <2>4. row(s).cancelReq = TRUE
      BY <2>0 DEF Row
    <2> QED BY <1>2, <2>1, <2>2, <2>3, <2>4 DEF CancelSet
  <1> HIDE DEF row
  <1> QED BY <1>1, <1>2, UpdateEffect

Inserting(e) ==
  /\ At(e, "new") /\ pc'[e] = "spawned" /\ app.status # "deleted" /\ app' = app
  /\ rows'[e].status = "pending" /\ rows'[e].container = None
  /\ rows'[e].candidate = None /\ rows'[e].cancelReq = FALSE

Deleting(e) == app'.status = "deleted" /\ rows'[e] = NoRow

AskingCancel(e) ==
  /\ e \in Cancels /\ Exists(e) /\ rows[e].status \in Cancellable
  /\ cancelling[e] = "idle" /\ cancelling'[e] = "lookup"
  /\ CancelSet(rows'[e], e, "cancel_requested")

(* By its pipeline, before or in its rollout, or by the request.           *)
Cancelling(e) ==
  /\ Exists(e) /\ rows[e].status \in Cancellable
  /\ CancelSet(rows'[e], e, "cancelled")
  /\ \/ /\ pc[e] \in {"fetch", "slot", "build", "prepare", "lock", "snapshot", "settle"}
        /\ pc'[e] = "unwind" /\ (CancelSeen(e) \/ after[e] = "cancel")
     \/ At(e, "recheck") /\ pc'[e] = "restore" /\ after'[e] = "nothing" /\ CancelSeen(e)
     \/ cancelling[e] = "mark" /\ cancelling'[e] = "idle"

Building(e) ==
  /\ Exists(e) /\ At(e, "mark") /\ pc'[e] \in {"build", "unwind"}
  /\ StatusSet(rows'[e], e, "building")

(* By its pipeline, or by the health checker.                              *)
Failing(e) ==
  /\ Exists(e) /\ StatusSet(rows'[e], e, "failed")
  /\ \/ At(e, "fail") /\ pc'[e] = "failApp"
     \/ HealthMarkRow /\ checker = "marking" /\ sick.dep = e

Recording(e, p) ==
  /\ RowOf(p) = e /\ Exists(e) /\ At(p, "candidate") /\ CandidateSet(rows'[e], e, p)
  /\ pc'[p] = "ready" \/ (LostReplies /\ pc'[p] \in {"fail", "unwind"})

Clearing(e, p) ==
  /\ RowOf(p) = e /\ Exists(e) /\ At(p, "clear") /\ CandidateSet(rows'[e], e, None)
  /\ pc'[p] = "settle"

Promoting(e, p) ==
  /\ RowOf(p) = e /\ Exists(e) /\ At(p, "promote") /\ PromotedTo(rows'[e], e, p)
  /\ pc'[p] = "publish" \/ (LostReplies /\ pc'[p] = "restore")

Retiring(e, p) ==
  /\ previous[p].dep = e /\ Exists(e) /\ At(p, "retire") /\ pc'[p] = "unwind"
  /\ StatusSet(rows'[e], e, IF IsBuild(p) THEN "superseded" ELSE "rolled_back")

Stopping(e, s) ==
  /\ previous[s].dep = e /\ Exists(e) /\ At(s, "stopRow") /\ pc'[s] \in {"stopApp", "unwind"}
  /\ StatusSet(rows'[e], e, "stopped")

(* After a crash.                                                          *)
Abandoning(e) ==
  /\ boot = "recovering" /\ e \in CandidateRows
  /\ rows'[e].status = "failed" /\ rows'[e].container = rows[e].container
  /\ rows'[e].candidate = None /\ rows'[e].cancelReq = rows[e].cancelReq

RowStep(e) ==
  \/ rows'[e] = rows[e]
  \/ Inserting(e) \/ Deleting(e) \/ AskingCancel(e) \/ Cancelling(e) \/ Building(e) \/ Failing(e)
  \/ \E p \in Containers :
       Recording(e, p) \/ Clearing(e, p) \/ Promoting(e, p) \/ Retiring(e, p)
  \/ \E s \in Stops : Stopping(e, s)
  \/ Abandoning(e)

LEMMA PipelineRows ==
  ASSUME RolloutTypeOK, NEW d \in Deployments, Pipeline(d), NEW e \in Deployments
  PROVE  RowStep(e)
  <1>0. rows \in Rows /\ d \in Runs /\ pc \in [Runs -> Stages] /\ after \in [Runs -> Settlements]
    BY TypeFacts DEF RolloutTypeOK
  <1>1. CASE Register(d) \/ ReadCancelFlag(d) \/ MarkAppAfterFailure(d) \/ UNCHANGED rows
    BY <1>1 DEF Register, ReadCancelFlag, MarkAppAfterFailure, RowStep
  <1>2. ASSUME FinishCancelled(d), pc[d] \in {"fetch", "slot", "build", "prepare"}, CancelSeen(d)
        PROVE  RowStep(e)
    <2>1. rows' = rows \/ rows' = MarkedCancelled(d)
      BY <1>2 DEF FinishCancelled, TryMarkCancelled
    <2>2. pc'[d] = "unwind"
      BY <1>0, <1>2 DEF FinishCancelled, To
    <2> QED BY <1>0, <1>2, <2>1, <2>2, CancelWritten DEF RowStep, Cancelling
  <1>3. CASE FetchSource(d) \/ AcquireBuild(d) \/ BuildImage(d) \/ PrepareRun(d)
    BY <1>1, <1>2, <1>3 DEF FetchSource, AcquireBuild, BuildImage, PrepareRun, At, CancelSeen
  <1>4. CASE MarkBuilding(d)
    <2>1. rows' = rows \/ rows' = WithStatus(d, "building")
      BY <1>4 DEF MarkBuilding, Uncertain
    <2>2. At(d, "mark") /\ pc'[d] \in {"build", "unwind"}
      BY <1>0, <1>4 DEF MarkBuilding, To
    <2>3. rows'[e] = rows[e] \/ (d = e /\ Exists(e) /\ StatusSet(rows'[e], e, "building"))
      BY <1>0, <2>1, StatusWritten
    <2> QED BY <2>2, <2>3 DEF RowStep, Building
  <1>5. CASE MarkRowFailed(d)
    <2>1. rows' = rows \/ rows' = WithStatus(d, "failed")
      BY <1>5 DEF MarkRowFailed
    <2>2. At(d, "fail") /\ pc'[d] = "failApp"
      BY <1>0, <1>5 DEF MarkRowFailed, To
    <2>3. rows'[e] = rows[e] \/ (d = e /\ Exists(e) /\ StatusSet(rows'[e], e, "failed"))
      BY <1>0, <2>1, StatusWritten
    <2> QED BY <2>2, <2>3 DEF RowStep, Failing
  <1> QED
    BY <1>1, <1>3, <1>4, <1>5 DEF Pipeline

LEMMA ReplaceRows ==
  ASSUME RolloutTypeOK, NEW p \in Containers, Replace(p), NEW e \in Deployments
  PROVE  RowStep(e)
  <1>0. rows \in Rows /\ p \in Runs /\ pc \in [Runs -> Stages] /\ after \in [Runs -> Settlements]
    BY TypeFacts DEF RolloutTypeOK
  <1>1. CASE UNCHANGED rows
    BY <1>1 DEF RowStep
  <1>2. ASSUME FinishCancelled(p), pc[p] \in {"snapshot", "settle"},
               CancelSeen(p) \/ after[p] = "cancel"
        PROVE  RowStep(e)
    <2>1. rows' = rows \/ rows' = MarkedCancelled(p)
      BY <1>2 DEF FinishCancelled, TryMarkCancelled
    <2>2. pc'[p] = "unwind"
      BY <1>0, <1>2 DEF FinishCancelled, To
    <2> QED BY <1>0, <1>2, <2>1, <2>2, CancelWritten DEF RowStep, Cancelling
  <1>3. CASE ReadActive(p) \/ SettleRun(p)
    BY <1>1, <1>2, <1>3 DEF ReadActive, SettleRun, At
  <1>4. CASE SaveCandidate(p)
    <2>1. CASE Works(p) /\ rows' = WithCandidate(RowOf(p), p) /\ To(p, "ready")
      <3>1. At(p, "candidate") /\ pc'[p] = "ready"
        BY <1>0, <1>4, <2>1 DEF SaveCandidate, To
      <3>2. rows'[e] = rows[e] \/ (RowOf(p) = e /\ Exists(e) /\ CandidateSet(rows'[e], e, p))
        BY <1>0, <2>1, CandidateWritten
      <3> QED BY <3>1, <3>2 DEF RowStep, Recording
    <2>2. CASE /\ rows' \in Uncertain(rows, WithCandidate(RowOf(p), p))
               /\ To(p, IF IsBuild(p) THEN "fail" ELSE "unwind")
      <3>1. rows' = rows \/ (LostReplies /\ rows' = WithCandidate(RowOf(p), p))
        BY <2>2 DEF Uncertain
      <3>2. At(p, "candidate") /\ pc'[p] \in {"fail", "unwind"}
        BY <1>0, <1>4, <2>2 DEF SaveCandidate, To
      <3>3. \/ rows'[e] = rows[e]
            \/ LostReplies /\ RowOf(p) = e /\ Exists(e) /\ CandidateSet(rows'[e], e, p)
        BY <1>0, <3>1, CandidateWritten
      <3> QED BY <3>2, <3>3 DEF RowStep, Recording
    <2> QED BY <1>4, <2>1, <2>2 DEF SaveCandidate
  <1>5. CASE RecheckCancel(p)
    <2>1. CASE UNCHANGED rows
      BY <2>1, <1>1
    <2>2. CASE CancelSeen(p) /\ TryMarkCancelled(p) /\ Settle(p, "nothing") /\ To(p, "restore")
      <3>1. rows' = rows \/ rows' = MarkedCancelled(p)
        BY <2>2 DEF TryMarkCancelled
      <3>2. At(p, "recheck") /\ pc'[p] = "restore" /\ after'[p] = "nothing"
        BY <1>0, <1>5, <2>2 DEF RecheckCancel, To, Settle
      <3> QED BY <1>0, <2>2, <3>1, <3>2, CancelWritten DEF RowStep, Cancelling
    <2> QED BY <1>5, <2>1, <2>2 DEF RecheckCancel
  <1>6. CASE PromoteCandidate(p)
    <2>1. CASE Works(p) /\ rows' = Promoted(RowOf(p), p) /\ To(p, "publish")
      <3>1. At(p, "promote") /\ pc'[p] = "publish"
        BY <1>0, <1>6, <2>1 DEF PromoteCandidate, To
      <3>2. rows'[e] = rows[e] \/ (RowOf(p) = e /\ Exists(e) /\ PromotedTo(rows'[e], e, p))
        BY <1>0, <2>1, PromotionWritten
      <3> QED BY <3>1, <3>2 DEF RowStep, Promoting
    <2>2. CASE rows' \in Uncertain(rows, Promoted(RowOf(p), p)) /\ To(p, "restore")
      <3>1. rows' = rows \/ (LostReplies /\ rows' = Promoted(RowOf(p), p))
        BY <2>2 DEF Uncertain
      <3>2. At(p, "promote") /\ pc'[p] = "restore"
        BY <1>0, <1>6, <2>2 DEF PromoteCandidate, To
      <3>3. \/ rows'[e] = rows[e]
            \/ LostReplies /\ RowOf(p) = e /\ Exists(e) /\ PromotedTo(rows'[e], e, p)
        BY <1>0, <3>1, PromotionWritten
      <3> QED BY <3>2, <3>3 DEF RowStep, Promoting
    <2> QED BY <1>6, <2>1, <2>2 DEF PromoteCandidate
  <1>7. CASE RetirePrevious(p)
    <2> DEFINE word == IF IsBuild(p) THEN "superseded" ELSE "rolled_back"
    <2>1. rows' = rows \/ rows' = WithStatus(previous[p].dep, word)
      BY <1>7 DEF RetirePrevious
    <2>2. At(p, "retire") /\ pc'[p] = "unwind"
      BY <1>0, <1>7 DEF RetirePrevious, To
    <2>3. \/ rows'[e] = rows[e]
          \/ previous[p].dep = e /\ Exists(e) /\ StatusSet(rows'[e], e, word)
      BY <1>0, <2>1, StatusWritten
    <2> QED BY <2>2, <2>3 DEF RowStep, Retiring
  <1>8. CASE ClearCandidate(p)
    <2>1. rows' = rows \/ rows' = WithCandidate(RowOf(p), None)
      BY <1>8 DEF ClearCandidate
    <2>2. At(p, "clear") /\ pc'[p] = "settle"
      BY <1>0, <1>8 DEF ClearCandidate, To
    <2>3. rows'[e] = rows[e] \/ (RowOf(p) = e /\ Exists(e) /\ CandidateSet(rows'[e], e, None))
      BY <1>0, <2>1, CandidateWritten
    <2> QED BY <2>2, <2>3 DEF RowStep, Clearing
  <1>9. CASE \/ RunContainer(p) \/ AwaitReady(p) \/ SwitchRoute(p) \/ SyncDomains(p)
             \/ PublishApp(p) \/ RemovePrevious(p) \/ RestorePrevious(p) \/ CleanupCandidate(p)
    BY <1>1, <1>9 DEF RunContainer, AwaitReady, SwitchRoute, SyncDomains, PublishApp,
         RemovePrevious, RestorePrevious, CleanupCandidate
  <1> QED
    BY <1>3, <1>4, <1>5, <1>6, <1>7, <1>8, <1>9 DEF Replace

LEMMA StopRows ==
  ASSUME RolloutTypeOK, NEW s \in Stops, Stop(s), NEW e \in Deployments
  PROVE  RowStep(e)
  <1>0. rows \in Rows /\ s \in Runs /\ pc \in [Runs -> Stages]
    BY TypeFacts DEF RolloutTypeOK
  <1>1. CASE UNCHANGED rows
    BY <1>1 DEF RowStep
  <1>2. CASE StopMarkRow(s)
    <2>1. rows' = rows \/ rows' = WithStatus(previous[s].dep, "stopped")
      BY <1>2 DEF StopMarkRow, Uncertain
    <2>2. At(s, "stopRow") /\ pc'[s] \in {"stopApp", "unwind"}
      BY <1>0, <1>2 DEF StopMarkRow, To
    <2>3. \/ rows'[e] = rows[e]
          \/ previous[s].dep = e /\ Exists(e) /\ StatusSet(rows'[e], e, "stopped")
      BY <1>0, <2>1, StatusWritten
    <2> QED BY <2>2, <2>3 DEF RowStep, Stopping
  <1>3. CASE DeleteApp(s)
    BY <1>1, <1>3 DEF DeleteApp, RowStep, Deleting
  <1> QED
    BY <1>1, <1>2, <1>3 DEF Stop, StopRemoveRoute, StopRemoveDomains, StopFindRelease,
         StopRemoveContainer, StopMarkApp

LEMMA AdvanceRows ==
  ASSUME RolloutTypeOK, NEW p \in Runs, Advance(p), NEW e \in Deployments
  PROVE  RowStep(e)
  <1>1. CASE AcquireRollout(p) \/ Unwind(p)
    BY <1>1 DEF AcquireRollout, Unwind, RowStep
  <1>2. CASE GiveUpRollout(p)
    <2>0. rows \in Rows /\ pc \in [Runs -> Stages]
      BY TypeFacts DEF RolloutTypeOK
    <2>1. CASE FinishCancelled(p)
      <3>1. rows' = rows \/ rows' = MarkedCancelled(p)
        BY <2>1 DEF FinishCancelled, TryMarkCancelled
      <3>2. pc'[p] = "unwind" /\ pc[p] = "lock" /\ CancelSeen(p)
        BY <2>0, <2>1, <1>2 DEF FinishCancelled, To, GiveUpRollout, At, CancelSeen
      <3> QED BY <2>0, <3>1, <3>2, CancelWritten DEF RowStep, Cancelling
    <2> QED BY <1>2, <2>1 DEF GiveUpRollout, RowStep
  <1> QED
    BY <1>1, <1>2, PipelineRows, ReplaceRows, StopRows DEF Advance

LEMMA RowsStep ==
  ASSUME TypeOK, [Next]_vars, NEW e \in Deployments
  PROVE  RowStep(e)
  <1>0. RolloutTypeOK /\ rows \in Rows /\ pc \in [Runs -> Stages] /\ e \in Runs
        /\ cancelling \in [Deployments -> {"idle", "lookup", "mark"}]
    BY TypeFacts DEF TypeOK, RolloutTypeOK
  <1>1. CASE UNCHANGED rows
    BY <1>1 DEF RowStep
  <1>2. CASE Requested
    <2>1. ASSUME NEW d \in Deployments, Create(d) PROVE RowStep(e)
      <3>1. Inserted(d)[e] = IF e = d THEN [NoRow EXCEPT !.status = "pending"] ELSE rows[e]
        BY <1>0 DEF Inserted, Rows
      <3>2. e = d => At(e, "new") /\ pc'[e] = "spawned" /\ app.status # "deleted" /\ app' = app
        BY <1>0, <2>1 DEF Create, To
      <3>3. rows'[e] = IF e = d THEN [NoRow EXCEPT !.status = "pending"] ELSE rows[e]
        BY <2>1, <3>1 DEF Create
      <3> QED BY <3>2, <3>3 DEF RowStep, Inserting, NoRow
    <2> QED BY <1>1, <1>2, <2>1 DEF Requested, Request, RequestRollback, RequestStop, Disconnect
  <1>3. ASSUME NEW p \in Runs, Advanced(p) PROVE RowStep(e)
    BY <1>0, <1>3, AdvanceRows DEF Advanced
  <1>4. ASSUME NEW d \in Cancels, CancelArrives(d) PROVE RowStep(e)
    <2>1. rows' = CancelRequested(d) /\ rows[d].status \in Cancellable
          /\ cancelling[d] = "idle" /\ cancelling'[d] = "lookup"
      BY <1>0, <1>4, SystemAssumption DEF CancelArrives, RequestCancel
    <2> QED BY <1>0, <2>1, CancelWritten DEF RowStep, AskingCancel
  <1>5. ASSUME NEW d \in Cancels, CancelHandled(d) PROVE RowStep(e)
    <2>1. CASE MarkUnregistered(d)
      <3>1. cancelling[d] = "mark" /\ cancelling'[d] = "idle"
        BY <1>0, <2>1, SystemAssumption DEF MarkUnregistered
      <3>2. rows' = rows \/ rows' = MarkedCancelled(d)
        BY <2>1 DEF MarkUnregistered, TryMarkCancelled
      <3> QED BY <1>0, <3>1, <3>2, CancelWritten DEF RowStep, Cancelling
    <2> QED BY <1>1, <1>5, <2>1 DEF CancelHandled, CancelHandler, InterruptPipeline
  <1>6. CASE HealthChecked
    <2>1. CASE HealthMarkRow
      <3>1. checker = "marking" /\ (rows' = rows \/ rows' = WithStatus(sick.dep, "failed"))
        BY <2>1 DEF HealthMarkRow
      <3>2. rows'[e] = rows[e] \/ (sick.dep = e /\ Exists(e) /\ StatusSet(rows'[e], e, "failed"))
        BY <1>0, <3>1, StatusWritten
      <3> QED BY <2>1, <3>1, <3>2 DEF RowStep, Failing
    <2> QED BY <1>1, <1>6, <2>1 DEF HealthChecked, Health, HealthList, HealthPass, HealthInspect,
              HealthSkip, HealthMarkApp, rolloutVars
  <1>7. CASE RecoverCandidate
    <2> DEFINE d == Oldest(CandidateRows)
               failed == [rows[d] EXCEPT !.candidate = None, !.status = "failed"]
    <2>1. d \in CandidateRows /\ d \in Deployments
      BY <1>7, ExtremesExist DEF RecoverCandidate, CandidateRows
    <2>2. rows' = Update(d, failed) /\ boot = "recovering"
      BY <1>7 DEF RecoverCandidate
    <2>3. rows'[e] = IF e = d /\ Exists(e) THEN failed ELSE rows[e]
      BY <1>0, <2>2, UpdateEffect
    <2>4. e = d => /\ failed.status = "failed" /\ failed.container = rows[e].container
                   /\ failed.candidate = None /\ failed.cancelReq = rows[e].cancelReq
      BY <1>0 DEF Rows, Row
    <2> HIDE DEF d, failed
    <2> QED BY <2>1, <2>2, <2>3, <2>4 DEF RowStep, Abandoning
  <1>8. CASE Exited \/ Crash \/ RecoveryDone \/ Reconcile \/ Rest \/ UNCHANGED vars
    BY <1>1, <1>8 DEF Exited, ContainerExits, Crash, RecoveryDone, Reconcile, Rest, vars, rolloutVars
  <1> QED
    BY <1>2, <1>3, <1>4, <1>5, <1>6, <1>7, <1>8 DEF Next, Startup

-----------------------------------------------------------------------------
(* Which stage a run passes to from which.                                 *)
Flow(a, b) ==
  \/ a = "new" /\ b \in {"spawned", "lock"}
  \/ a = "spawned" /\ b = "registered"
  \/ a = "registered" /\ b = "fetch"
  \/ a = "fetch" /\ b \in {"slot", "fail", "unwind"}
  \/ a = "slot" /\ b \in {"mark", "unwind"}
  \/ a = "mark" /\ b \in {"build", "unwind"}
  \/ a = "build" /\ b \in {"prepare", "fail", "unwind"}
  \/ a = "prepare" /\ b \in {"lock", "fail", "unwind"}
  \/ a = "lock" /\ b \in {"snapshot", "stopRoute", "unwind"}
  \/ a = "snapshot" /\ b \in {"start", "fail", "unwind"}
  \/ a = "start" /\ b \in {"candidate", "settle"}
  \/ a = "candidate" /\ b \in {"ready", "fail", "unwind"}
  \/ a = "ready" /\ b \in {"switch", "cleanup"}
  \/ a = "switch" /\ b \in {"sync", "cleanup"}
  \/ a = "sync" /\ b \in {"recheck", "restore"}
  \/ a = "recheck" /\ b \in {"promote", "restore"}
  \/ a = "promote" /\ b \in {"publish", "restore"}
  \/ a = "publish" /\ b \in {"removePrevious", "unwind"}
  \/ a = "removePrevious" /\ b = "retire"
  \/ a = "restore" /\ b = "cleanup"
  \/ a = "cleanup" /\ b = "clear"
  \/ a = "clear" /\ b = "settle"
  \/ a = "settle" /\ b \in {"fail", "unwind"}
  \/ a = "fail" /\ b = "failApp"
  \/ a = "stopRoute" /\ b \in {"stopDomains", "unwind"}
  \/ a = "stopDomains" /\ b \in {"stopFind", "unwind"}
  \/ a = "stopFind" /\ b \in {"stopContainer", "stopApp", "unwind"}
  \/ a = "stopContainer" /\ b \in {"stopRow", "unwind"}
  \/ a = "stopRow" /\ b \in {"stopApp", "unwind"}
  \/ a = "stopApp" /\ b \in {"deleteApp", "unwind"}
  \/ a \in {"retire", "failApp", "deleteApp"} /\ b = "unwind"
  \/ a = "unwind" /\ b = "done"

LEMMA RunsIncluded ==
  /\ Deployments \subseteq Runs /\ Containers \subseteq Runs
  /\ Rollbacks \subseteq Runs /\ Stops \subseteq Runs
  BY DEF Runs, Containers

LEMMA AdvanceFlows ==
  ASSUME NEW p \in Runs, Advance(p)
  PROVE  pc[p] # "new" /\ \E stage : To(p, stage) /\ Flow(pc[p], stage)
  <1>1. CASE p \in Deployments /\ Pipeline(p)
    <2>1. CASE Register(p) \/ ReadCancelFlag(p) \/ FetchSource(p)
      BY <2>1 DEF Register, ReadCancelFlag, FetchSource, At, FinishCancelled, GoFail, Flow
    <2>2. CASE AcquireBuild(p) \/ MarkBuilding(p) \/ BuildImage(p)
      BY <2>2 DEF AcquireBuild, MarkBuilding, BuildImage, At, FinishCancelled, GoFail, Flow
    <2>3. CASE PrepareRun(p) \/ MarkRowFailed(p) \/ MarkAppAfterFailure(p)
      BY <2>3 DEF PrepareRun, MarkRowFailed, MarkAppAfterFailure, At, FinishCancelled, GoFail, Flow
    <2> QED BY <1>1, <2>1, <2>2, <2>3 DEF Pipeline
  <1>2. CASE p \in Containers /\ Replace(p)
    <2>1. CASE ReadActive(p) \/ RunContainer(p) \/ SaveCandidate(p) \/ AwaitReady(p)
      BY <2>1 DEF ReadActive, RunContainer, SaveCandidate, AwaitReady, At, FinishCancelled, Flow
    <2>2. CASE SwitchRoute(p) \/ SyncDomains(p) \/ RecheckCancel(p) \/ PromoteCandidate(p)
      BY <2>2 DEF SwitchRoute, SyncDomains, RecheckCancel, PromoteCandidate, At, Flow
    <2>3. CASE PublishApp(p) \/ RemovePrevious(p) \/ RetirePrevious(p)
      BY <2>3 DEF PublishApp, RemovePrevious, RetirePrevious, At, Flow
    <2>4. CASE RestorePrevious(p) \/ CleanupCandidate(p) \/ ClearCandidate(p) \/ SettleRun(p)
      BY <2>4 DEF RestorePrevious, CleanupCandidate, ClearCandidate, SettleRun, At,
           FinishCancelled, GoFail, Flow
    <2> QED BY <1>2, <2>1, <2>2, <2>3, <2>4 DEF Replace
  <1>3. CASE p \in Stops /\ Stop(p)
    <2>1. CASE StopRemoveRoute(p) \/ StopRemoveDomains(p) \/ StopFindRelease(p)
      BY <2>1 DEF StopRemoveRoute, StopRemoveDomains, StopFindRelease, At, Flow
    <2>2. CASE StopRemoveContainer(p) \/ StopMarkRow(p) \/ StopMarkApp(p) \/ DeleteApp(p)
      BY <2>2 DEF StopRemoveContainer, StopMarkRow, StopMarkApp, DeleteApp, At, Flow
    <2> QED BY <1>3, <2>1, <2>2 DEF Stop
  <1>4. CASE AcquireRollout(p) \/ GiveUpRollout(p) \/ Unwind(p)
    <2>1. CASE AcquireRollout(p)
      BY <2>1 DEF AcquireRollout, At, Flow
    <2>2. CASE GiveUpRollout(p)
      BY <2>2 DEF GiveUpRollout, FinishCancelled, At, Flow
    <2>3. CASE Unwind(p)
      <3>1. At(p, "unwind") /\ To(p, "done")
        BY <2>3 DEF Unwind
      <3> QED BY <3>1 DEF At, Flow
    <2> QED BY <1>4, <2>1, <2>2, <2>3
  <1> QED BY <1>1, <1>2, <1>3, <1>4 DEF Advance

StageStep(q) == pc'[q] = pc[q] \/ Flow(pc[q], pc'[q]) \/ (Crash /\ pc'[q] = "done" /\ pc[q] # "new")

LEMMA StagesStep ==
  ASSUME TypeOK, [Next]_vars, NEW q \in Runs
  PROVE  StageStep(q)
  <1>0. pc \in [Runs -> Stages]
    BY DEF TypeOK, RolloutTypeOK
  <1>1. CASE pc' = pc
    BY <1>1 DEF StageStep
  <1>2. ASSUME NEW p \in Runs, NEW stage, To(p, stage), Flow(pc[p], stage) PROVE StageStep(q)
    BY <1>0, <1>2 DEF To, StageStep
  <1>3. CASE Requested
    <2>1. CASE \E p \in Runs : At(p, "new") /\ (To(p, "spawned") \/ To(p, "lock"))
      <3>1. PICK p \in Runs, stage \in {"spawned", "lock"} : At(p, "new") /\ To(p, stage)
        BY <2>1
      <3> QED BY <3>1, <1>2 DEF Flow, At
    <2> QED BY <1>1, <1>3, <2>1, RunsIncluded
            DEF Requested, Request, Create, RequestRollback, RequestStop, Disconnect
  <1>4. ASSUME NEW p \in Runs, Advanced(p) PROVE StageStep(q)
    BY <1>2, <1>4, AdvanceFlows DEF Advanced
  <1>5. CASE Crash
    BY <1>5 DEF Crash, StageStep, At
  <1>6. CASE (\E d \in Cancels : CancelArrives(d) \/ CancelHandled(d)) \/ HealthChecked
    BY <1>1, <1>6 DEF CancelArrives, RequestCancel, CancelHandled, CancelHandler, InterruptPipeline,
         MarkUnregistered, HealthChecked, Health, HealthList, HealthPass, HealthInspect,
         HealthSkip, HealthMarkRow, HealthMarkApp, rolloutVars
  <1>7. CASE Exited \/ Startup \/ Rest \/ UNCHANGED vars
    BY <1>1, <1>7 DEF Exited, ContainerExits, Startup, RecoverCandidate, RecoveryDone, Reconcile,
         Rest, vars, rolloutVars
  <1> QED
    BY <1>3, <1>4, <1>5, <1>6, <1>7 DEF Next

(* The release a run keeps is one it has read, and it had a container.     *)
Looking(q) == (q \in Containers /\ At(q, "snapshot")) \/ (q \in Stops /\ At(q, "stopFind"))

PreviousStep(q) ==
  \/ previous'[q] = previous[q]
  \/ previous'[q] = NoRelease /\ (Looking(q) \/ pc'[q] \in {"new", "done"})
  \/ /\ Looking(q)
     /\ \E d \in Deployments :
          /\ rows[d].status = "running" \/ (rows[d].status = "failed" /\ rows[d].container # None)
          /\ previous'[q].dep = d /\ previous'[q].container = rows[d].container

LEMMA SnapshotRead ==
  ASSUME rows \in Rows, NEW q, NEW d \in {Active, LatestFailed},
         previous'[q] = Snapshot(d), Looking(q)
  PROVE  PreviousStep(q)
  <1>1. Active = None \/ (Active \in Deployments /\ rows[Active].status = "running")
    BY ExtremesExist DEF Active, RunningRows
  <1>2. LatestFailed = None
        \/ (/\ LatestFailed \in Deployments
            /\ rows[LatestFailed].status = "failed" /\ rows[LatestFailed].container # None)
    BY SnapshotTyped DEF LatestFailed
  <1> QED
    BY <1>1, <1>2 DEF PreviousStep, Snapshot

LEMMA AdvancePrevious ==
  ASSUME RolloutTypeOK, NEW p \in Runs, Advance(p), NEW q \in Runs
  PROVE  PreviousStep(q)
  <1>0. rows \in Rows /\ previous \in [Runs -> Releases] /\ pc \in [Runs -> Stages]
    BY TypeFacts DEF RolloutTypeOK
  <1>1. CASE previous' = previous
    BY <1>1 DEF PreviousStep
  <1>2. ASSUME NEW d \in {Active, LatestFailed},
               Looking(p), previous' = [previous EXCEPT ![p] = Snapshot(d)]
        PROVE  PreviousStep(q)
    <2>1. CASE q = p
      <3>1. previous'[q] = Snapshot(d)
        BY <1>0, <1>2, <2>1
      <3> QED BY <1>0, <1>2, <2>1, <3>1, SnapshotRead
    <2> QED BY <1>0, <1>2, <2>1 DEF PreviousStep
  <1>3. CASE p \in Containers /\ ReadActive(p)
    BY <1>1, <1>2, <1>3 DEF ReadActive, Looking
  <1>8. CASE p \in Stops /\ StopFindRelease(p)
    BY <1>1, <1>2, <1>8 DEF StopFindRelease, Looking
  <1>4. CASE Unwind(p)
    BY <1>0, <1>4 DEF Unwind, To, PreviousStep
  <1>5. CASE Pipeline(p) \/ AcquireRollout(p) \/ GiveUpRollout(p)
    BY <1>1, <1>5 DEF Pipeline, Register, ReadCancelFlag, FetchSource, AcquireBuild, MarkBuilding,
         BuildImage, PrepareRun, MarkRowFailed, MarkAppAfterFailure, AcquireRollout, GiveUpRollout,
         memory
  <1>6. CASE p \in Containers /\ Replace(p)
    BY <1>1, <1>3, <1>6 DEF Replace, RunContainer, SaveCandidate, AwaitReady, SwitchRoute,
         SyncDomains, RecheckCancel, PromoteCandidate, PublishApp, RemovePrevious, RetirePrevious,
         RestorePrevious, CleanupCandidate, ClearCandidate, SettleRun, memory
  <1>7. CASE p \in Stops /\ Stop(p)
    BY <1>1, <1>8, <1>7 DEF Stop, StopRemoveRoute, StopRemoveDomains, StopRemoveContainer,
         StopMarkRow, StopMarkApp, DeleteApp, memory
  <1> QED
    BY <1>4, <1>5, <1>6, <1>7 DEF Advance

LEMMA PreviousSteps ==
  ASSUME TypeOK, [Next]_vars, NEW q \in Runs
  PROVE  PreviousStep(q)
  <1>0. RolloutTypeOK
    BY DEF TypeOK
  <1>1. CASE previous' = previous
    BY <1>1 DEF PreviousStep
  <1>2. ASSUME NEW p \in Runs, Advanced(p) PROVE PreviousStep(q)
    BY <1>0, <1>2, AdvancePrevious DEF Advanced
  <1>3. CASE Requested
    BY <1>1, <1>3 DEF Requested, Request, Create, RequestRollback, RequestStop, Disconnect, memory
  <1>4. CASE Crash
    BY <1>4 DEF Crash, PreviousStep
  <1>5. CASE (\E d \in Cancels : CancelArrives(d) \/ CancelHandled(d)) \/ HealthChecked
    BY <1>1, <1>5 DEF CancelArrives, RequestCancel, CancelHandled, CancelHandler, InterruptPipeline,
         MarkUnregistered, HealthChecked, Health, HealthList, HealthPass, HealthInspect,
         HealthSkip, HealthMarkRow, HealthMarkApp, rolloutVars, memory
  <1>6. CASE Exited \/ Startup \/ Rest \/ UNCHANGED vars
    BY <1>1, <1>6 DEF Exited, ContainerExits, Startup, RecoverCandidate, RecoveryDone, Reconcile,
         Rest, vars, rolloutVars, memory
  <1> QED
    BY <1>2, <1>3, <1>4, <1>5, <1>6 DEF Next

(* A rollback is given its target once, when it is requested.              *)
TargetStep(r) ==
  \/ target'[r] = target[r] /\ (pc[r] = "new" => pc'[r] = "new")
  \/ /\ At(r, "new") /\ pc'[r] = "lock" /\ UNCHANGED <<rows, app>>
     /\ target'[r] \in Deployments /\ rows[target'[r]].status \in Rollbackable

LEMMA TargetSteps ==
  ASSUME TypeOK, [Next]_vars, NEW r \in Rollbacks
  PROVE  TargetStep(r)
  <1>0. /\ RolloutTypeOK /\ pc \in [Runs -> Stages] /\ r \in Runs
        /\ target \in [Rollbacks -> Deployments \cup {None}]
    BY RunsIncluded DEF TypeOK, RolloutTypeOK
  <1>1. CASE target' = target /\ pc' = pc
    BY <1>1 DEF TargetStep
  <1>2. ASSUME NEW p \in Runs, Advanced(p) PROVE TargetStep(r)
    <2>1. target' = target
      BY <1>2 DEF Advanced, Advance, Pipeline, Register, ReadCancelFlag, FetchSource, AcquireBuild,
           MarkBuilding, BuildImage, PrepareRun, MarkRowFailed, MarkAppAfterFailure, AcquireRollout,
           GiveUpRollout, Unwind, Replace, ReadActive, RunContainer, SaveCandidate, AwaitReady,
           SwitchRoute, SyncDomains, RecheckCancel, PromoteCandidate, PublishApp, RemovePrevious,
           RetirePrevious, RestorePrevious, CleanupCandidate, ClearCandidate, SettleRun,
           Stop, StopRemoveRoute, StopRemoveDomains, StopFindRelease, StopRemoveContainer,
           StopMarkRow, StopMarkApp, DeleteApp, memory
    <2>2. pc[r] = "new" => pc'[r] = "new"
      BY <1>0, <1>2, AdvanceFlows DEF Advanced, To
    <2> QED BY <2>1, <2>2 DEF TargetStep
  <1>3. CASE Requested
    <2>1. ASSUME NEW q \in Rollbacks, NEW d \in Deployments, RequestRollback(q, d)
          PROVE  TargetStep(r)
      <3>1. At(q, "new") /\ rows[d].status \in Rollbackable /\ UNCHANGED <<rows, app>>
        BY <2>1 DEF RequestRollback, CanRollBackTo
      <3>2. target'[r] = (IF r = q THEN d ELSE target[r]) /\ pc'[r] = (IF r = q THEN "lock" ELSE pc[r])
        BY <1>0, <2>1, RunsIncluded DEF RequestRollback, To
      <3> QED BY <3>1, <3>2 DEF TargetStep
    <2>2. ASSUME NEW q, q \in Deployments \cup Stops, Create(q) \/ RequestStop(q)
          PROVE  TargetStep(r)
      <3>1. q # r
        BY <2>2, NamesAssumption, RunsAssumption DEF Containers
      <3>2. target' = target /\ pc'[r] = pc[r]
        BY <1>0, <2>2, <3>1 DEF Create, RequestStop, To, memory
      <3> QED BY <3>2 DEF TargetStep
    <2> QED BY <1>1, <1>3, <2>1, <2>2 DEF Requested, Request, Disconnect, memory
  <1>4. CASE Crash
    BY <1>0, <1>4 DEF Crash, TargetStep, At
  <1>5. CASE (\E d \in Cancels : CancelArrives(d) \/ CancelHandled(d)) \/ HealthChecked
    BY <1>1, <1>5 DEF CancelArrives, RequestCancel, CancelHandled, CancelHandler, InterruptPipeline,
         MarkUnregistered, HealthChecked, Health, HealthList, HealthPass, HealthInspect,
         HealthSkip, HealthMarkRow, HealthMarkApp, rolloutVars, memory
  <1>6. CASE Exited \/ Startup \/ Rest \/ UNCHANGED vars
    BY <1>1, <1>6 DEF Exited, ContainerExits, Startup, RecoverCandidate, RecoveryDone, Reconcile,
         Rest, vars, rolloutVars, memory
  <1> QED
    BY <1>2, <1>3, <1>4, <1>5, <1>6 DEF Next

(* A deployment begins with its row. *)
LEMMA CreatedInserts ==
  ASSUME TypeOK, [Next]_vars, NEW d \in Deployments, pc[d] = "new", pc'[d] # "new"
  PROVE  Exists(d)'
  <1>0. /\ RolloutTypeOK /\ pc \in [Runs -> Stages] /\ d \in Runs /\ rows \in Rows
    BY RunsIncluded, TypeFacts DEF TypeOK, RolloutTypeOK
  <1>1. pc' # pc
    BY <1>0
  <1>2. ~\E p \in Runs : Advanced(p)
    BY <1>0, AdvanceFlows DEF Advanced, To
  <1>3. ~Crash
    BY <1>0 DEF Crash, At
  <1>4. ~((\E c \in Cancels : CancelArrives(c) \/ CancelHandled(c)) \/ HealthChecked)
    BY <1>1 DEF CancelArrives, RequestCancel, CancelHandled, CancelHandler, InterruptPipeline,
         MarkUnregistered, HealthChecked, Health, HealthList, HealthPass, HealthInspect,
         HealthSkip, HealthMarkRow, HealthMarkApp, rolloutVars
  <1>5. ~(Exited \/ Startup \/ Rest \/ UNCHANGED vars)
    BY <1>1 DEF Exited, ContainerExits, Startup, RecoverCandidate, RecoveryDone, Reconcile,
         Rest, vars, rolloutVars
  <1>6. Request
    BY <1>1, <1>2, <1>3, <1>4, <1>5 DEF Next, Requested, Disconnect
  <1>7. ASSUME NEW q \in Runs, NEW stage, To(q, stage), q # d PROVE FALSE
    BY <1>0, <1>7 DEF To
  <1>8. Create(d)
    <2>1. d \notin Rollbacks /\ d \notin Stops
      BY NamesAssumption, RunsAssumption DEF Containers
    <2> QED BY <1>6, <1>7, <2>1, RunsIncluded DEF Request, Create, RequestRollback, RequestStop
  <1>9. rows'[d] = [NoRow EXCEPT !.status = "pending"]
    BY <1>0, <1>8 DEF Create, Inserted, Rows
  <1> QED BY <1>9 DEF Exists, NoRow

(* Who has begun moves by its own step, or the process dies.               *)
LEMMA MovedBy ==
  ASSUME TypeOK, [Next]_vars, NEW q \in Runs, pc'[q] # pc[q], pc[q] # "new"
  PROVE  Advanced(q) \/ Crash
  <1>0. pc \in [Runs -> Stages]
    BY DEF TypeOK, RolloutTypeOK
  <1>1. pc' # pc
    BY <1>0
  <1>2. ASSUME NEW p \in Runs, Advanced(p) PROVE p = q
    BY <1>0, <1>2, AdvanceFlows DEF Advanced, To
  <1>3. ~Requested
    <2>1. ASSUME NEW p \in Runs, NEW stage, To(p, stage), At(p, "new") PROVE FALSE
      BY <1>0, <2>1 DEF To, At
    <2> QED BY <1>1, <2>1, RunsIncluded
            DEF Requested, Request, Create, RequestRollback, RequestStop, Disconnect
  <1>4. ~((\E c \in Cancels : CancelArrives(c) \/ CancelHandled(c)) \/ HealthChecked)
    BY <1>1 DEF CancelArrives, RequestCancel, CancelHandled, CancelHandler, InterruptPipeline,
         MarkUnregistered, HealthChecked, Health, HealthList, HealthPass, HealthInspect,
         HealthSkip, HealthMarkRow, HealthMarkApp, rolloutVars
  <1>5. ~(Exited \/ Startup \/ Rest \/ UNCHANGED vars)
    BY <1>1 DEF Exited, ContainerExits, Startup, RecoverCandidate, RecoveryDone, Reconcile,
         Rest, vars, rolloutVars
  <1> QED BY <1>2, <1>3, <1>4, <1>5 DEF Next

(* Only a deletion makes the application's row go, and all others with it; *)
(* only a stop calls it stopped.                                           *)
AppStep ==
  /\ app.status = "deleted" => app'.status = "deleted"
  /\ app'.status = "deleted" =>
       \/ app.status = "deleted"
       \/ /\ \A d \in Deployments : rows'[d] = NoRow
          /\ \E s \in Stops : At(s, "deleteApp")
  /\ app'.status = "stopped" => app.status = "stopped" \/ \E s \in Stops : At(s, "stopApp")

LEMMA AppSteps ==
  ASSUME TypeOK, ReportDecided, [Next]_vars
  PROVE  AppStep
  <1>1. CASE app' = app
    BY <1>1 DEF AppStep
  <1>2. ASSUME NEW status, NEW url, status \notin {"deleted", "stopped"},
               app' = AppWith(status, url) \/ app' = app
        PROVE  AppStep
    BY <1>2 DEF AppWith, AppStep
  <1>3. ASSUME NEW status, status \notin {"deleted", "stopped"}, TryAppStatus(status) PROVE AppStep
    BY <1>2, <1>3 DEF TryAppStatus
  <1>4. ASSUME NEW p \in Runs, Advanced(p) PROVE AppStep
    <2>1. CASE p \in Deployments /\ Pipeline(p)
      <3>1. CASE MarkAppAfterFailure(p)
        <4>1. after[p] \notin {"deleted", "stopped"}
          BY <2>1, <3>1 DEF MarkAppAfterFailure, At, ReportDecided
        <4> QED BY <1>1, <1>3, <3>1, <4>1 DEF MarkAppAfterFailure
      <3> QED
        BY <1>1, <2>1, <3>1 DEF Pipeline, Register, ReadCancelFlag, FetchSource, AcquireBuild,
             MarkBuilding, BuildImage, PrepareRun, MarkRowFailed
    <2>2. CASE Replace(p)
      <3>1. CASE PublishApp(p)
        <4>1. CASE app' = AppWith(app.status, TRUE)
          BY <4>1 DEF AppWith, AppStep
        <4>2. CASE app' \in {app, AppWith("running", TRUE), AppWith("running", app.url)}
          <5>1. CASE app' = app
            BY <1>1, <5>1
          <5>2. CASE app' = AppWith("running", TRUE)
            BY <5>2 DEF AppWith, AppStep
          <5>3. CASE app' = AppWith("running", app.url)
            BY <5>3 DEF AppWith, AppStep
          <5> QED BY <4>2, <5>1, <5>2, <5>3
        <4>3. app' \in {app, AppWith("running", TRUE), AppWith("running", app.url),
                        AppWith(app.status, TRUE)}
          BY <3>1 DEF PublishApp
        <4> QED BY <4>1, <4>2, <4>3
      <3>2. CASE SettleRun(p)
        BY <1>1, <1>3, <3>2 DEF SettleRun
      <3> QED
        BY <1>1, <2>2, <3>1, <3>2 DEF Replace, ReadActive, RunContainer, SaveCandidate, AwaitReady,
             SwitchRoute, SyncDomains, RecheckCancel, PromoteCandidate, RemovePrevious,
             RetirePrevious, RestorePrevious, CleanupCandidate, ClearCandidate
    <2>3. CASE p \in Stops /\ Stop(p)
      <3>1. CASE StopMarkApp(p)
        <4>1. app'.status = "deleted" => app.status = "deleted"
          BY <3>1 DEF StopMarkApp, Uncertain, AppWith
        <4>2. app.status = "deleted" => app' = app
          BY <3>1 DEF StopMarkApp, Uncertain, AppWith
        <4>3. At(p, "stopApp")
          BY <3>1 DEF StopMarkApp
        <4> QED BY <2>3, <4>1, <4>2, <4>3 DEF AppStep
      <3>2. CASE DeleteApp(p)
        BY <1>1, <2>3, <3>2 DEF DeleteApp, AppStep
      <3> QED
        BY <1>1, <2>3, <3>1, <3>2 DEF Stop, StopRemoveRoute, StopRemoveDomains, StopFindRelease,
             StopRemoveContainer, StopMarkRow
    <2>4. CASE AcquireRollout(p) \/ GiveUpRollout(p) \/ Unwind(p)
      BY <1>1, <2>4 DEF AcquireRollout, GiveUpRollout, Unwind
    <2> QED BY <1>4, <2>1, <2>2, <2>3, <2>4 DEF Advanced, Advance
  <1>5. CASE Requested
    BY <1>1, <1>5 DEF Requested, Request, Create, RequestRollback, RequestStop, Disconnect
  <1>6. CASE HealthChecked
    BY <1>1, <1>3, <1>6 DEF HealthChecked, Health, HealthList, HealthPass, HealthInspect,
         HealthSkip, HealthMarkRow, HealthMarkApp, rolloutVars
  <1>7. CASE \E d \in Cancels : CancelArrives(d) \/ CancelHandled(d)
    BY <1>1, <1>7 DEF CancelArrives, RequestCancel, CancelHandled, CancelHandler,
         InterruptPipeline, MarkUnregistered
  <1>8. CASE Exited \/ Crash \/ Startup \/ Rest \/ UNCHANGED vars
    BY <1>1, <1>8 DEF Exited, ContainerExits, Crash, Startup, RecoverCandidate, RecoveryDone,
         Reconcile, Rest, vars, rolloutVars
  <1> QED
    BY <1>4, <1>5, <1>6, <1>7, <1>8 DEF Next

(* A container comes into being in its run's RunContainer, and is started  *)
(* there or never.                                                         *)
ContainerStep(c) ==
  /\ containers[c] = "none" => containers'[c] = "none" \/ At(c, "start")
  /\ ~WasStarted(c) =>
       ~WasStarted(c)' \/ (At(c, "start") /\ (pc'[c] = "candidate" \/ LostReplies))

LEMMA ContainerSteps ==
  ASSUME TypeOK, [Next]_vars, NEW c \in Containers
  PROVE  ContainerStep(c)
  <1>0. containers \in Store /\ pc \in [Runs -> Stages] /\ c \in Runs
    BY TypeFacts, RunsIncluded DEF TypeOK, RolloutTypeOK
  <1>1. CASE containers' = containers
    BY <1>1 DEF ContainerStep, WasStarted
  <1>2. ASSUME NEW x, containers' \in {containers, Removed(x), Stopped(x)} PROVE ContainerStep(c)
    BY <1>0, <1>2 DEF ContainerStep, WasStarted, Removed, Stopped, Store
  <1>3. ASSUME NEW p \in Runs, Advanced(p) PROVE ContainerStep(c)
    <2>1. CASE RunContainer(p)
      BY <1>0, <2>1 DEF RunContainer, Started, ContainerStep, WasStarted, At, To, Store
    <2>2. CASE SaveCandidate(p) \/ RemovePrevious(p) \/ CleanupCandidate(p)
      BY <1>1, <1>2, <2>2 DEF SaveCandidate, RemovePrevious, CleanupCandidate
    <2>3. CASE StopRemoveContainer(p)
      BY <1>1, <1>2, <2>3 DEF StopRemoveContainer, Uncertain
    <2>4. CASE containers' # containers
      BY <1>3, <2>1, <2>2, <2>3, <2>4
         DEF Advanced, Advance, Pipeline, Register, ReadCancelFlag, FetchSource, AcquireBuild,
           MarkBuilding, BuildImage, PrepareRun, MarkRowFailed, MarkAppAfterFailure, AcquireRollout,
           GiveUpRollout, Unwind, Replace, ReadActive, AwaitReady,
           SwitchRoute, SyncDomains, RecheckCancel, PromoteCandidate, PublishApp,
           RetirePrevious, RestorePrevious, ClearCandidate, SettleRun,
           Stop, StopRemoveRoute, StopRemoveDomains, StopFindRelease,
           StopMarkRow, StopMarkApp, DeleteApp, services
    <2> QED BY <1>1, <2>4
  <1>4. CASE Requested \/ HealthChecked \/ Crash
    BY <1>1, <1>4 DEF Requested, Request, Create, RequestRollback, RequestStop, Disconnect,
         HealthChecked, Health, HealthList, HealthPass, HealthInspect,
         HealthSkip, HealthMarkRow, HealthMarkApp, Crash, rolloutVars, services
  <1>5. CASE \E d \in Cancels : CancelArrives(d) \/ CancelHandled(d)
    BY <1>1, <1>5 DEF CancelArrives, RequestCancel, CancelHandled, CancelHandler,
         InterruptPipeline, MarkUnregistered, services
  <1>6. CASE Exited
    BY <1>0, <1>6 DEF Exited, ContainerExits, ContainerStep, WasStarted, Store
  <1>7. CASE RecoverCandidate
    BY <1>2, <1>7 DEF RecoverCandidate
  <1>8. CASE RecoveryDone \/ Rest \/ UNCHANGED vars
    BY <1>1, <1>8 DEF RecoveryDone, Rest, vars, rolloutVars, services
  <1>9. CASE Reconcile
    BY <1>0, <1>9 DEF Reconcile, ContainerStep, WasStarted, Store
  <1> QED
    BY <1>3, <1>4, <1>5, <1>6, <1>7, <1>8, <1>9 DEF Next, Startup

-----------------------------------------------------------------------------
(* Whose container is whose: a run names its own container in no row and   *)
(* is nobody's previous release before the commit point of its rollout.    *)
Fresh(p) == pc[p] \in BeforeLock \cup {"snapshot", "start", "candidate", "ready", "switch",
                                       "sync", "recheck", "promote"}

Released == {"running"} \cup Rollbackable

FreshInv ==
  /\ \A c \in Containers : Fresh(c) =>
       /\ \A d \in Deployments : rows[d].container # c
       /\ \A q \in Runs : previous[q].container # c
  /\ \A d \in Deployments : Fresh(d) =>
       /\ rows[d].container = None /\ rows[d].status \notin Released
       /\ \A q \in Runs : previous[q].dep # d
       /\ \A r \in Rollbacks : target[r] # d

(* A release has a container, in its row and wherever it has been read;    *)
(* a rollback that has begun has a target.                                 *)
ReleaseInv ==
  /\ \A d \in Deployments : rows[d].status \in Released => rows[d].container # None
  /\ \A q \in Runs : previous[q].dep = None <=> previous[q].container = None
  /\ \A q \in Runs, d \in Deployments :
       previous[q].dep = d /\ Exists(d) => rows[d].container # None
  /\ \A p \in Containers : previous[p].container # p
  /\ \A r \in Rollbacks : pc[r] # "new" => target[r] \in Deployments

(* The rows of an application go with it and not before.                   *)
RowsInv ==
  /\ app.status = "deleted" => \A d \in Deployments : ~Exists(d)
  /\ \A d \in Deployments : ~Exists(d) => rows[d].candidate = None
  /\ \A p \in Containers : pc[p] # "new" => Exists(RowOf(p)) \/ app.status = "deleted"

ShapeInv == FreshInv /\ ReleaseInv /\ RowsInv

LEMMA FreshKept ==
  ASSUME TypeOK, [Next]_vars, NEW q \in Runs
  PROVE  /\ Fresh(q)' => Fresh(q)
         /\ pc'[q] = "new" => pc[q] = "new"
  <1>1. StageStep(q)
    BY StagesStep
  <1> QED
    BY <1>1 DEF StageStep, Flow, Fresh, BeforeLock

(* Who writes the container of a row, and who makes it a release.          *)
LEMMA ContainerWritten ==
  ASSUME TypeOK, [Next]_vars, NEW e \in Deployments
  PROVE  \/ rows'[e].container = rows[e].container /\ (Exists(e)' => Exists(e))
         \/ Inserting(e) /\ rows'[e].container = None
         \/ ~Exists(e)' /\ rows'[e].container = None
         \/ \E p \in Containers : Promoting(e, p) /\ rows'[e].container = p
  <1>1. RowStep(e)
    BY RowsStep
  <1>2. CASE rows'[e] = rows[e]
    BY <1>2 DEF Exists
  <1>3. CASE Inserting(e)
    BY <1>3 DEF Inserting
  <1>4. CASE Deleting(e)
    BY <1>4 DEF Deleting, NoRow, Exists
  <1>5. CASE AskingCancel(e) \/ Cancelling(e)
    BY <1>5 DEF AskingCancel, Cancelling, CancelSet
  <1>6. CASE Building(e) \/ Failing(e)
    BY <1>6 DEF Building, Failing, StatusSet
  <1>7. ASSUME NEW p \in Containers, Recording(e, p) \/ Clearing(e, p)
        PROVE  rows'[e].container = rows[e].container /\ Exists(e)
    BY <1>7 DEF Recording, Clearing, CandidateSet
  <1>8. ASSUME NEW p \in Containers, Promoting(e, p) PROVE rows'[e].container = p
    BY <1>8 DEF Promoting, PromotedTo
  <1>9. ASSUME NEW p, Retiring(e, p) \/ Stopping(e, p)
        PROVE  rows'[e].container = rows[e].container /\ Exists(e)
    BY <1>9 DEF Retiring, Stopping, StatusSet
  <1>10. CASE Abandoning(e)
    BY <1>10 DEF Abandoning, CandidateRows
  <1> QED
    BY <1>1, <1>2, <1>3, <1>4, <1>5, <1>6, <1>7, <1>8, <1>9, <1>10 DEF RowStep

LEMMA ReleaseWritten ==
  ASSUME TypeOK, [Next]_vars, NEW e \in Deployments, rows'[e].status \in Released
  PROVE  \/ rows[e].status \in Released /\ rows'[e].container = rows[e].container
         \/ \E p \in Containers : Promoting(e, p) /\ rows'[e].container = p
         \/ \E q \in Runs : previous[q].dep = e /\ Exists(e) /\ rows'[e].container = rows[e].container
  <1>1. RowStep(e)
    BY RowsStep
  <1> USE DEF Released, Rollbackable
  <1>2. CASE rows'[e] = rows[e]
    BY <1>2
  <1>3. CASE Inserting(e) \/ Deleting(e) \/ Abandoning(e)
    BY <1>3 DEF Inserting, Deleting, NoRow, Abandoning
  <1>5. CASE AskingCancel(e) \/ Cancelling(e)
    BY <1>5 DEF AskingCancel, Cancelling, CancelSet
  <1>6. CASE Building(e) \/ Failing(e)
    BY <1>6 DEF Building, Failing, StatusSet
  <1>7. ASSUME NEW p \in Containers, Recording(e, p) \/ Clearing(e, p)
        PROVE  rows[e].status \in Released /\ rows'[e].container = rows[e].container
    BY <1>7 DEF Recording, Clearing, CandidateSet
  <1>8. ASSUME NEW p \in Containers, Promoting(e, p) PROVE rows'[e].container = p
    BY <1>8 DEF Promoting, PromotedTo
  <1>9. ASSUME NEW p, Retiring(e, p) \/ Stopping(e, p)
        PROVE  previous[p].dep = e /\ Exists(e) /\ rows'[e].container = rows[e].container
    BY <1>9 DEF Retiring, Stopping, StatusSet
  <1> QED
    BY <1>1, <1>2, <1>3, <1>5, <1>6, <1>7, <1>8, <1>9, RunsIncluded DEF RowStep

LEMMA FreshStep ==
  ASSUME TypeOK, FreshInv, ReleaseInv, [Next]_vars
  PROVE  FreshInv'
  <1>1. ASSUME NEW c \in Containers, Fresh(c)', NEW d \in Deployments PROVE rows'[d].container # c
    <2>1. Fresh(c) /\ c # None
      BY <1>1, FreshKept, RunsIncluded, NamesAssumption
    <2>2. ASSUME NEW p \in Containers, Promoting(d, p) PROVE p # c
      BY <1>1, <2>2 DEF Promoting, Fresh, BeforeLock
    <2> QED BY <2>1, <2>2, ContainerWritten DEF FreshInv
  <1>2. ASSUME NEW c \in Containers, Fresh(c)', NEW q \in Runs PROVE previous'[q].container # c
    <2>1. Fresh(c) /\ c # None
      BY <1>2, FreshKept, RunsIncluded, NamesAssumption
    <2> QED BY <2>1, PreviousSteps DEF PreviousStep, FreshInv, NoRelease
  <1>3. ASSUME NEW d \in Deployments, Fresh(d)'
        PROVE  rows'[d].container = None /\ rows'[d].status \notin Released
    <2>1. Fresh(d)
      BY <1>3, FreshKept, RunsIncluded
    <2>2. ASSUME NEW p \in Containers, Promoting(d, p) PROVE FALSE
      <3>1. p # d
        BY <1>3, <2>2 DEF Promoting, Fresh, BeforeLock
      <3>2. p \in Rollbacks /\ target[p] = d
        BY <2>2, <3>1 DEF Promoting, RowOf, IsBuild, Containers
      <3> QED BY <2>1, <3>2 DEF FreshInv
    <2>3. \A q \in Runs : previous[q].dep # d
      BY <2>1 DEF FreshInv
    <2>4. rows'[d].container = None
      BY <2>1, <2>2, ContainerWritten DEF FreshInv
    <2>5. rows'[d].status \notin Released
      BY <2>1, <2>2, <2>3, ReleaseWritten DEF FreshInv
    <2> QED BY <2>4, <2>5
  <1>4. ASSUME NEW d \in Deployments, Fresh(d)', NEW q \in Runs PROVE previous'[q].dep # d
    <2>1. Fresh(d) /\ d # None
      BY <1>4, FreshKept, RunsIncluded, NamesAssumption DEF Containers
    <2> QED BY <2>1, PreviousSteps DEF PreviousStep, FreshInv, NoRelease, Released
  <1>5. ASSUME NEW d \in Deployments, Fresh(d)', NEW r \in Rollbacks PROVE target'[r] # d
    <2>1. Fresh(d)
      BY <1>5, FreshKept, RunsIncluded
    <2> QED BY <2>1, TargetSteps DEF TargetStep, FreshInv, Released
  <1> QED BY <1>1, <1>2, <1>3, <1>4, <1>5 DEF FreshInv

LEMMA ReleaseStep ==
  ASSUME TypeOK, FreshInv, ReleaseInv, [Next]_vars
  PROVE  ReleaseInv'
  <1>1. ASSUME NEW d \in Deployments, Exists(d)', rows[d].container # None
        PROVE  rows'[d].container # None
    <2>1. ~Inserting(d)
      BY <1>1 DEF Inserting, At, FreshInv, Fresh, BeforeLock
    <2> QED BY <1>1, <2>1, ContainerWritten, NamesAssumption
  <1>2. ASSUME NEW d \in Deployments, rows'[d].status \in Released PROVE rows'[d].container # None
    BY <1>2, ReleaseWritten, NamesAssumption DEF ReleaseInv
  <1>3. ASSUME NEW q \in Runs PROVE previous'[q].dep = None <=> previous'[q].container = None
    BY PreviousSteps, NamesAssumption DEF PreviousStep, ReleaseInv, NoRelease, Released, Containers
  <1>4. ASSUME NEW q \in Runs, NEW d \in Deployments, previous'[q].dep = d, Exists(d)'
        PROVE  rows'[d].container # None
    <2>1. PreviousStep(q) /\ d # None
      BY PreviousSteps, NamesAssumption DEF Containers
    <2>2. CASE previous'[q] = previous[q]
      <3>1. ~Inserting(d)
        BY <1>4, <2>2 DEF Inserting, At, FreshInv, Fresh, BeforeLock
      <3>2. Exists(d) => rows[d].container # None
        BY <1>4, <2>2 DEF ReleaseInv
      <3> QED BY <1>4, <1>1, <3>1, <3>2, ContainerWritten, NamesAssumption
    <2>3. CASE previous'[q].dep = d /\ rows[d].container # None
      BY <1>1, <1>4, <2>3
    <2> QED BY <1>4, <2>1, <2>2, <2>3 DEF PreviousStep, Looking, ReleaseInv, NoRelease, Released
  <1>5. ASSUME NEW p \in Containers PROVE previous'[p].container # p
    <2>1. PreviousStep(p) /\ p # None /\ p \notin Stops
      BY PreviousSteps, NamesAssumption, RunsIncluded, RunsAssumption
    <2>2. At(p, "snapshot") => \A d \in Deployments : rows[d].container # p
      BY DEF FreshInv, Fresh, At
    <2> QED BY <2>1, <2>2 DEF PreviousStep, Looking, ReleaseInv, NoRelease
  <1>6. ASSUME NEW r \in Rollbacks, pc'[r] # "new" PROVE target'[r] \in Deployments
    BY <1>6, TargetSteps DEF TargetStep, ReleaseInv
  <1> QED BY <1>2, <1>3, <1>4, <1>5, <1>6 DEF ReleaseInv

LEMMA RowsInvStep ==
  ASSUME TypeOK, ReportDecided, FreshInv, ReleaseInv, RowsInv, [Next]_vars
  PROVE  RowsInv'
  <1>0. AppStep
    BY AppSteps
  <1>1. ASSUME NEW d \in Deployments PROVE Exists(d)' => Exists(d) \/ Inserting(d)
    BY RowsStep DEF RowStep, Exists, Deleting, NoRow, AskingCancel, Cancelling, Building, Failing,
         Recording, Clearing, Promoting, Retiring, Stopping, Abandoning, CandidateRows
  <1>2. ASSUME app'.status = "deleted", NEW d \in Deployments PROVE ~Exists(d)'
    <2>1. CASE app.status = "deleted"
      BY <1>1, <2>1 DEF RowsInv, Inserting
    <2>2. CASE rows'[d] = NoRow
      BY <2>2 DEF Exists, NoRow
    <2> QED BY <1>0, <1>2, <2>1, <2>2 DEF AppStep
  <1>3. ASSUME NEW d \in Deployments, ~Exists(d)' PROVE rows'[d].candidate = None
    <2>1. rows'[d] = rows[d] \/ Deleting(d)
      <3>1. RowStep(d) /\ rows'[d].status = "absent"
        BY <1>3, RowsStep DEF Exists
      <3>2. ~Inserting(d) /\ ~AskingCancel(d) /\ ~Cancelling(d) /\ ~Building(d) /\ ~Failing(d)
            /\ ~Abandoning(d)
        BY <3>1 DEF Inserting, AskingCancel, Cancelling, Building, Failing, Abandoning, CancelSet, StatusSet
      <3>3. \A p : ~Recording(d, p) /\ ~Clearing(d, p) /\ ~Promoting(d, p) /\ ~Retiring(d, p)
                  /\ ~Stopping(d, p)
        BY <3>1 DEF Recording, Clearing, Promoting, Retiring, Stopping, CandidateSet, PromotedTo,
             StatusSet, Exists
      <3> QED BY <3>1, <3>2, <3>3 DEF RowStep
    <2> QED BY <1>3, <2>1 DEF RowsInv, Exists, Deleting, NoRow
  <1>4. ASSUME NEW d \in Deployments, Exists(d) PROVE Exists(d)' \/ app'.status = "deleted"
    <2>1. CASE rows'[d] = rows[d]
      BY <1>4, <2>1 DEF Exists
    <2>2. CASE Inserting(d) \/ Abandoning(d)
      BY <2>2 DEF Inserting, Abandoning, Exists
    <2>3. CASE Deleting(d)
      BY <2>3 DEF Deleting
    <2>4. CASE AskingCancel(d) \/ Cancelling(d)
      BY <2>4 DEF AskingCancel, Cancelling, CancelSet, Exists
    <2>5. CASE Building(d) \/ Failing(d)
      BY <2>5 DEF Building, Failing, StatusSet, Exists
    <2>6. ASSUME NEW p, Recording(d, p) \/ Clearing(d, p) \/ Promoting(d, p) PROVE Exists(d)'
      BY <1>4, <2>6 DEF Recording, Clearing, CandidateSet, Promoting, PromotedTo, Exists
    <2>7. ASSUME NEW p, Retiring(d, p) \/ Stopping(d, p) PROVE Exists(d)'
      BY <2>7 DEF Retiring, Stopping, StatusSet, Exists
    <2> QED BY <2>1, <2>2, <2>3, <2>4, <2>5, <2>6, <2>7, RowsStep DEF RowStep
  <1>5. ASSUME NEW p \in Containers, pc'[p] # "new"
        PROVE  Exists(RowOf(p))' \/ app'.status = "deleted"
    <2>1. CASE p \in Deployments
      <3>1. CASE pc[p] # "new"
        BY <1>0, <1>4, <2>1, <3>1 DEF RowsInv, RowOf, IsBuild, AppStep
      <3>2. CASE pc[p] = "new"
        <4>1. Exists(p)'
          BY <1>5, <2>1, <3>2, CreatedInserts
        <4> QED BY <2>1, <4>1 DEF RowOf, IsBuild
      <3> QED BY <3>1, <3>2
    <2>2. CASE p \in Rollbacks
      <3>1. p \notin Deployments
        BY <2>2, NamesAssumption
      <3>2. CASE target'[p] = target[p] /\ (pc[p] = "new" => pc'[p] = "new")
        BY <1>0, <1>4, <1>5, <2>2, <3>1, <3>2 DEF RowsInv, RowOf, IsBuild, AppStep, ReleaseInv
      <3>3. CASE target'[p] \in Deployments /\ rows[target'[p]].status \in Rollbackable /\ UNCHANGED rows
        BY <3>1, <3>3 DEF RowOf, IsBuild, Exists, Rollbackable
      <3> QED BY <2>2, <3>2, <3>3, TargetSteps DEF TargetStep
    <2> QED BY <2>1, <2>2 DEF Containers
  <1> QED BY <1>2, <1>3, <1>4, <1>5 DEF RowsInv

LEMMA ShapeInvariant == Spec => []ShapeInv
  <1>1. Init => ShapeInv
    BY NamesAssumption, RunsIncluded DEF Init, RolloutInit, StoreInit, ShapeInv, FreshInv, ReleaseInv, RowsInv,
         NoRow, NoRelease, Exists, Released, Rollbackable, Containers
  <1>2. TypeOK /\ ReportDecided /\ ShapeInv /\ [Next]_vars => ShapeInv'
    BY FreshStep, ReleaseStep, RowsInvStep DEF ShapeInv
  <1> QED BY <1>1, <1>2, TypeInvariant, PTL DEF Spec

(* A stop only goes on to the row once the container is gone, and no run   *)
(* brings it back.                                                         *)
StopInv ==
  \A s \in Stops :
    pc[s] \in {"stopRow", "stopApp", "deleteApp"} /\ previous[s].container # None
      => containers[previous[s].container] = "none"

LEMMA StopActions ==
  ASSUME NEW s \in Stops, Advance(s)
  PROVE  /\ pc[s] = "stopRoute" => StopRemoveRoute(s)
         /\ pc[s] = "stopDomains" => StopRemoveDomains(s)
         /\ pc[s] = "stopFind" => StopFindRelease(s)
         /\ pc[s] = "stopContainer" => StopRemoveContainer(s)
         /\ pc[s] = "stopRow" => StopMarkRow(s)
         /\ pc[s] = "stopApp" => StopMarkApp(s)
         /\ pc[s] = "deleteApp" => DeleteApp(s)
  <1>1. s \notin Deployments /\ s \notin Containers
    BY RunsAssumption DEF Containers
  <1>2. Stop(s) \/ pc[s] \in {"lock", "unwind"}
    BY <1>1 DEF Advance, AcquireRollout, GiveUpRollout, Unwind, At
  <1> QED
    BY <1>2 DEF Stop, StopRemoveRoute, StopRemoveDomains, StopFindRelease, StopRemoveContainer,
         StopMarkRow, StopMarkApp, DeleteApp, At

(* Which action a run takes at which stage of its rollout.                 *)
LEMMA ReplaceActions ==
  ASSUME NEW p \in Containers, Advance(p)
  PROVE  /\ pc[p] = "snapshot" => ReadActive(p)
         /\ pc[p] = "start" => RunContainer(p)
         /\ pc[p] = "candidate" => SaveCandidate(p)
         /\ pc[p] = "ready" => AwaitReady(p)
         /\ pc[p] = "switch" => SwitchRoute(p)
         /\ pc[p] = "sync" => SyncDomains(p)
         /\ pc[p] = "recheck" => RecheckCancel(p)
         /\ pc[p] = "promote" => PromoteCandidate(p)
         /\ pc[p] = "publish" => PublishApp(p)
         /\ pc[p] = "removePrevious" => RemovePrevious(p)
         /\ pc[p] = "retire" => RetirePrevious(p)
         /\ pc[p] = "restore" => RestorePrevious(p)
         /\ pc[p] = "cleanup" => CleanupCandidate(p)
         /\ pc[p] = "clear" => ClearCandidate(p)
         /\ pc[p] = "settle" => SettleRun(p)
  <1> DEFINE rollout == {"snapshot", "start", "candidate", "ready", "switch", "sync", "recheck",
                         "promote", "publish", "removePrevious", "retire", "restore", "cleanup",
                         "clear", "settle"}
  <1>1. p \notin Stops
    BY RunsAssumption
  <1>2. Pipeline(p) => pc[p] \notin rollout
    BY DEF Pipeline, Register, ReadCancelFlag, FetchSource, AcquireBuild, MarkBuilding,
         BuildImage, PrepareRun, MarkRowFailed, MarkAppAfterFailure, At
  <1>3. AcquireRollout(p) \/ GiveUpRollout(p) \/ Unwind(p) => pc[p] \notin rollout
    BY DEF AcquireRollout, GiveUpRollout, Unwind, At
  <1>4. pc[p] \in rollout => Replace(p)
    BY <1>1, <1>2, <1>3 DEF Advance
  <1> QED
    BY <1>4 DEF Replace, ReadActive, RunContainer, SaveCandidate, AwaitReady, SwitchRoute,
         SyncDomains, RecheckCancel, PromoteCandidate, PublishApp, RemovePrevious,
         RetirePrevious, RestorePrevious, CleanupCandidate, ClearCandidate, SettleRun, At

LEMMA StopInvStep ==
  ASSUME TypeOK, ShapeInv, StopInv, [Next]_vars
  PROVE  StopInv'
  <1> SUFFICES ASSUME NEW s \in Stops, pc'[s] \in {"stopRow", "stopApp", "deleteApp"},
                      previous'[s].container # None
               PROVE  containers'[previous'[s].container] = "none"
    BY DEF StopInv
  <1>0. /\ s \in Runs /\ pc \in [Runs -> Stages] /\ previous \in [Runs -> Releases]
        /\ containers \in Store /\ RolloutTypeOK
    BY RunsIncluded, TypeFacts DEF TypeOK, RolloutTypeOK
  <1>1. CASE /\ pc[s] \in {"stopRow", "stopApp", "deleteApp"}
             /\ previous'[s] = previous[s]
    <2> DEFINE c == previous[s].container
    <2>1. c \in Containers /\ c # None /\ containers[c] = "none"
      BY <1>0, <1>1, TypeFacts DEF StopInv
    <2>2. ~At(c, "start")
      BY <1>0, <2>1 DEF ShapeInv, FreshInv, Fresh, At
    <2> QED BY <1>1, <2>1, <2>2, ContainerSteps DEF ContainerStep
  <1>2. CASE pc[s] = "stopContainer" /\ pc'[s] = "stopRow"
    <2>1. StopRemoveContainer(s)
      <3>1. Advanced(s)
        BY <1>0, <1>2, MovedBy DEF Crash, At
      <3> QED BY <1>0, <1>2, <3>1, StopActions DEF Advanced
    <2>2. containers' = Removed(previous[s].container) /\ previous' = previous
      BY <1>0, <1>2, <2>1 DEF StopRemoveContainer, memory, To
    <2> QED BY <1>0, <2>2, TypeFacts DEF Removed, Store
  <1>3. CASE pc[s] = "stopFind" /\ pc'[s] = "stopApp"
    <2>1. StopFindRelease(s)
      <3>1. Advanced(s)
        BY <1>0, <1>3, MovedBy DEF Crash, At
      <3> QED BY <1>0, <1>3, <3>1, StopActions DEF Advanced
    <2>2. previous'[s].container = None
      BY <1>0, <1>3, <2>1 DEF StopFindRelease, To
    <2> QED BY <2>2
  <1>4. previous'[s] = previous[s] \/ pc[s] = "stopFind"
    BY <1>0, PreviousSteps, RunsAssumption DEF PreviousStep, Looking, NoRelease, At
  <1>5. \/ pc[s] \in {"stopRow", "stopApp", "deleteApp"}
        \/ pc[s] = "stopContainer" /\ pc'[s] = "stopRow"
        \/ pc[s] = "stopFind" /\ pc'[s] = "stopApp"
    BY <1>0, StagesStep DEF StageStep, Flow
  <1> QED BY <1>1, <1>2, <1>3, <1>4, <1>5

LEMMA StopInvariant == Spec => []StopInv
  <1>1. Init => StopInv
    BY DEF Init, RolloutInit, StopInv, Runs
  <1>2. TypeOK /\ ShapeInv /\ StopInv /\ [Next]_vars => StopInv'
    BY StopInvStep
  <1> QED
    BY <1>1, <1>2, TypeInvariant, ShapeInvariant, PTL DEF Spec

(* The row of an application goes only once the release that its deletion  *)
(* found running is gone from Docker, whatever fails, is abandoned or      *)
(* crashes on the way.                                                     *)
THEOREM DeletionCleansUp == Spec => DeletionCleansUpFirst
  <1>1. StopInv => \A s \in Deletes :
          (At(s, "deleteApp") /\ app' # app /\ previous[s].container # None)
            => containers[previous[s].container] = "none"
    BY RunsAssumption DEF StopInv, At
  <1> QED
    BY <1>1, StopInvariant, PTL DEF DeletionCleansUpFirst

-----------------------------------------------------------------------------
(* While the process starts no run is under way.                           *)
BootInv == boot # "serving" => \A p \in Runs : pc[p] \in {"new", "done"}
LEMMA BootStep ==
  ASSUME TypeOK, BootInv, [Next]_vars
  PROVE  BootInv'
  <1>1. CASE Crash
    BY <1>1 DEF Crash, BootInv
  <1>2. CASE boot' = "serving"
    BY <1>2 DEF BootInv
  <1>3. CASE boot' = boot /\ boot = "serving"
    BY <1>3 DEF BootInv
  <1>4. CASE pc' = pc /\ (boot' # "serving" => boot # "serving")
    BY <1>4 DEF BootInv
  <1>5. CASE Requested \/ (\E p \in Runs : Advanced(p)) \/ HealthChecked
    BY <1>3, <1>5 DEF Requested, Advanced, HealthChecked, environment, Serving
  <1>6. CASE \E d \in Cancels : CancelArrives(d) \/ CancelHandled(d)
    BY <1>3, <1>6 DEF CancelArrives, CancelHandled, environment, Serving
  <1>7. CASE Exited \/ Startup \/ Rest \/ UNCHANGED vars
    BY <1>2, <1>4, <1>7 DEF Exited, ContainerExits, Startup, RecoverCandidate, RecoveryDone, Reconcile,
         Rest, vars, rolloutVars, environment
  <1> QED BY <1>1, <1>5, <1>6, <1>7 DEF Next

(* Only a crash makes the process recover. *)
LEMMA RecoversAfterCrash ==
  ASSUME TypeOK, [Next]_vars, boot' = "recovering"
  PROVE  Crash \/ boot = "recovering"
  BY DEF Next, Requested, Advanced, CancelArrives, CancelHandled, HealthChecked, Exited, Startup,
     RecoverCandidate, RecoveryDone, Reconcile, Rest, vars, environment

-----------------------------------------------------------------------------
(***************************************************************************)
(* A cancelled deployment: it never gets a container, and the pipeline     *)
(* and the cancel request agree on which of them marks its row.            *)
(***************************************************************************)

(* A release that has been looked at, by a run, a rollback or the health   *)
(* checker, keeps its container as long as its row is there; and a         *)
(* deployment's container is in no row but its own.                        *)
HeldInv ==
  /\ \A d, e \in Deployments : rows[e].container = d => e = d
  /\ \A q \in Runs, d \in Deployments : previous[q].container = d => previous[q].dep = d
  /\ \A r \in Rollbacks, d \in Deployments :
       target[r] = d /\ Exists(d) => rows[d].container # None
  /\ \A x \in scan \cup {sick}, d \in Deployments :
       x.dep = d => ~Fresh(d) /\ (Exists(d) => rows[d].container # None)

LEMMA ContainerKept ==
  ASSUME TypeOK, [Next]_vars, NEW d \in Deployments,
         ~Fresh(d), Exists(d) => rows[d].container # None, Exists(d)'
  PROVE  rows'[d].container # None
  <1>1. ~Inserting(d)
    BY DEF Inserting, At, Fresh, BeforeLock
  <1> QED BY <1>1, ContainerWritten, NamesAssumption

(* The health checker inspects what it has listed. *)
LEMMA ScanSteps ==
  ASSUME TypeOK, [Next]_vars, NEW x \in (scan \cup {sick})'
  PROVE  x \in scan \cup {sick} \/ x = NoRelease \/ \E d \in RunningRows : x = Snapshot(d)
  <1>1. CASE scan' \subseteq scan /\ (sick' = sick \/ sick' = NoRelease \/ sick' \in scan)
    BY <1>1
  <1>2. CASE scan' = {Snapshot(d) : d \in RunningRows} /\ sick' = sick
    BY <1>2
  <1>3. CASE UNCHANGED healthVars
    BY <1>1, <1>3 DEF healthVars
  <1>4. CASE HealthChecked
    <2>1. CASE HealthList
      BY <1>2, <2>1 DEF HealthList
    <2>2. CASE HealthMarkRow \/ HealthMarkApp
      BY <1>1, <2>2 DEF HealthMarkRow, HealthMarkApp, NextInScan
    <2>3. ASSUME NEW y \in Releases, HealthInspect(y) \/ HealthSkip(y)
          PROVE  scan' \subseteq scan /\ (sick' = sick \/ sick' \in scan)
      BY <2>3 DEF HealthInspect, HealthSkip
    <2> QED BY <1>1, <1>4, <2>1, <2>2, <2>3 DEF HealthChecked, Health, HealthPass
  <1>5. CASE Crash
    BY <1>1, <1>5 DEF Crash
  <1> QED
    BY <1>3, <1>4, <1>5 DEF Next, Requested, Advanced, CancelArrives, CancelHandled, Exited,
         Startup, RecoverCandidate, RecoveryDone, Reconcile, Rest, vars

LEMMA HeldStep ==
  ASSUME TypeOK, FreshInv, ReleaseInv, HeldInv, [Next]_vars
  PROVE  HeldInv'
  <1>1. ASSUME NEW d \in Deployments, NEW e \in Deployments, rows'[e].container = d PROVE e = d
    <2>1. d # None
      BY NamesAssumption DEF Containers
    <2>2. ASSUME NEW p \in Containers, Promoting(e, p), p = d PROVE e = d
      BY <2>2 DEF Promoting, RowOf, IsBuild
    <2> QED BY <1>1, <2>1, <2>2, ContainerWritten DEF HeldInv
  <1>2. ASSUME NEW q \in Runs, NEW d \in Deployments, previous'[q].container = d
        PROVE  previous'[q].dep = d
    <2>1. d # None
      BY NamesAssumption DEF Containers
    <2> QED BY <1>2, <2>1, PreviousSteps DEF PreviousStep, NoRelease, HeldInv
  <1>3. ASSUME NEW r \in Rollbacks, NEW d \in Deployments, target'[r] = d, Exists(d)'
        PROVE  rows'[d].container # None
    <2>1. CASE target'[r] = target[r]
      <3>1. ~Fresh(d) /\ (Exists(d) => rows[d].container # None)
        BY <1>3, <2>1 DEF FreshInv, HeldInv
      <3> QED BY <1>3, <3>1, ContainerKept
    <2>2. CASE rows[target'[r]].status \in Rollbackable /\ UNCHANGED rows
      BY <1>3, <2>2 DEF ReleaseInv, Released
    <2> QED BY <2>1, <2>2, TargetSteps DEF TargetStep
  <1>4. ASSUME NEW x \in (scan \cup {sick})', NEW d \in Deployments, x.dep = d
        PROVE  ~Fresh(d)' /\ (Exists(d)' => rows'[d].container # None)
    <2>1. ~Fresh(d) /\ (Exists(d) => rows[d].container # None)
      <3>1. CASE x \in scan \cup {sick}
        BY <1>4, <3>1 DEF HeldInv
      <3>2. CASE x = NoRelease
        BY <1>4, <3>2, NamesAssumption DEF NoRelease, Containers
      <3>3. CASE \E e \in RunningRows : x = Snapshot(e)
        <4>1. d \in RunningRows
          BY <1>4, <3>3, NamesAssumption DEF Snapshot, RunningRows, Containers
        <4> QED BY <4>1 DEF FreshInv, ReleaseInv, RunningRows, Released
      <3> QED BY <3>1, <3>2, <3>3, ScanSteps
    <2> QED BY <2>1, ContainerKept, FreshKept, RunsIncluded
  <1> QED BY <1>1, <1>2, <1>3, <1>4 DEF HeldInv

LEMMA HeldInvariant == Spec => []HeldInv
  <1>1. Init => HeldInv
    BY NamesAssumption DEF Init, RolloutInit, StoreInit, HeldInv, NoRow, NoRelease, Exists, Containers
  <1>2. TypeOK /\ ShapeInv /\ HeldInv /\ [Next]_vars => HeldInv'
    BY HeldStep DEF ShapeInv
  <1> QED BY <1>1, <1>2, TypeInvariant, ShapeInvariant, PTL DEF Spec
-----------------------------------------------------------------------------
(* Where the pipeline of a cancelled deployment may be: on its way out     *)
(* without having done anything, or undoing its rollout.                   *)
Quitting == {"spawned", "registered", "fetch", "unwind", "done"}
Retreating == {"restore", "cleanup", "clear", "settle"}

(* A pipeline can be interrupted from its registration to its end.         *)
LEMMA ExecutionSteps ==
  ASSUME TypeOK, [Next]_vars, NEW d \in Deployments
  PROVE  /\ d \in executions => d \in executions' \/ pc'[d] \in {"new", "done"}
         /\ pc[d] = "spawned" /\ pc'[d] = "registered" => d \in executions'
  <1>0. pc \in [Runs -> Stages] /\ d \in Runs /\ RolloutTypeOK
    BY RunsIncluded DEF TypeOK, RolloutTypeOK
  <1>1. CASE executions' = executions /\ pc' = pc
    BY <1>1
  <1>2. ASSUME NEW p \in Runs, Advanced(p)
        PROVE  /\ d \in executions => d \in executions' \/ pc'[d] = "done"
               /\ pc[d] = "spawned" /\ pc'[d] = "registered" => d \in executions'
    <2>1. CASE p \in Deployments /\ Register(p)
      BY <1>0, <2>1 DEF Register, To
    <2>2. CASE Unwind(p)
      BY <1>0, <2>2 DEF Unwind, To, At
    <2>3. CASE executions' = executions /\ ~At(p, "spawned")
      BY <1>0, <1>2, <2>3, AdvanceFlows DEF Advanced, To, At
    <2>4. CASE p \in Deployments /\ Pipeline(p)
      BY <2>1, <2>3, <2>4 DEF Pipeline, ReadCancelFlag, FetchSource, AcquireBuild, MarkBuilding,
         BuildImage, PrepareRun, MarkRowFailed, MarkAppAfterFailure, contexts, At
    <2>5. CASE p \in Containers /\ Replace(p)
      BY <2>3, <2>5 DEF Replace, ReadActive, RunContainer, SaveCandidate, AwaitReady, SwitchRoute,
         SyncDomains, RecheckCancel, PromoteCandidate, PublishApp, RemovePrevious, RetirePrevious,
         RestorePrevious, CleanupCandidate, ClearCandidate, SettleRun, contexts, At
    <2>6. CASE p \in Stops /\ Stop(p)
      BY <2>3, <2>6 DEF Stop, StopRemoveRoute, StopRemoveDomains, StopFindRelease,
         StopRemoveContainer, StopMarkRow, StopMarkApp, DeleteApp, contexts, At
    <2>7. CASE AcquireRollout(p) \/ GiveUpRollout(p)
      BY <2>3, <2>7 DEF AcquireRollout, GiveUpRollout, contexts, At
    <2> QED BY <1>2, <2>2, <2>4, <2>5, <2>6, <2>7 DEF Advanced, Advance
  <1>3. CASE Requested
    <2>1. executions' = executions
      BY <1>3 DEF Requested, Request, Create, RequestRollback, RequestStop, Disconnect, contexts
    <2>2. ASSUME pc[d] = "spawned" PROVE pc'[d] = "spawned"
      BY <1>0, <1>3, <2>2, RunsIncluded
         DEF Requested, Request, Create, RequestRollback, RequestStop, Disconnect, To, At
    <2> QED BY <2>1, <2>2
  <1>4. CASE Crash
    BY <1>0, <1>4 DEF Crash, At
  <1>5. CASE (\E c \in Cancels : CancelArrives(c) \/ CancelHandled(c)) \/ HealthChecked
    BY <1>1, <1>5 DEF CancelArrives, RequestCancel, CancelHandled, CancelHandler, InterruptPipeline,
         MarkUnregistered, HealthChecked, Health, HealthList, HealthPass, HealthInspect,
         HealthSkip, HealthMarkRow, HealthMarkApp, rolloutVars, contexts
  <1>6. CASE Exited \/ Startup \/ Rest \/ UNCHANGED vars
    BY <1>1, <1>6 DEF Exited, ContainerExits, Startup, RecoverCandidate, RecoveryDone, Reconcile,
         Rest, vars, rolloutVars, contexts
  <1> QED BY <1>2, <1>3, <1>4, <1>5, <1>6 DEF Next

(* A cancel request is made, then looks for the pipeline, then does its    *)
(* work itself if there is none.                                           *)
CancelStep(d) ==
  \/ cancelling'[d] \in {cancelling[d], "idle"}
  \/ cancelling'[d] = "lookup" /\ AskingCancel(d) /\ pc' = pc
  \/ cancelling'[d] = "mark" /\ cancelling[d] = "lookup" /\ d \notin executions /\ UNCHANGED <<rows, pc>>

LEMMA CancelSteps ==
  ASSUME TypeOK, [Next]_vars, NEW d \in Deployments
  PROVE  CancelStep(d)
  <1>0. /\ cancelling \in [Deployments -> {"idle", "lookup", "mark"}] /\ rows \in Rows
        /\ Cancels \subseteq Deployments
    BY TypeFacts, SystemAssumption DEF TypeOK, RolloutTypeOK
  <1>1. CASE cancelling' = cancelling
    BY <1>1 DEF CancelStep
  <1>2. ASSUME NEW c \in Cancels, CancelArrives(c) PROVE CancelStep(d)
    <2>1. CASE c = d
      <3>1. /\ cancelling[d] = "idle" /\ cancelling'[d] = "lookup" /\ pc' = pc
            /\ rows[d].status \in Cancellable /\ rows' = CancelRequested(d)
        BY <1>0, <1>2, <2>1 DEF CancelArrives, RequestCancel
      <3>2. Exists(d)
        BY <3>1 DEF Exists, Cancellable
      <3>3. CancelSet(rows'[d], d, "cancel_requested")
        <4> DEFINE row == [rows[d] EXCEPT !.status = "cancel_requested", !.cancelReq = TRUE]
        <4>0. rows[d] \in Row
          BY <1>0 DEF Rows
        <4>1. row.status = "cancel_requested"
          BY <4>0 DEF Row
        <4>2. row.container = rows[d].container
          BY <4>0 DEF Row
        <4>3. row.candidate = rows[d].candidate
          BY <4>0 DEF Row
        <4>4. row.cancelReq = TRUE
          BY <4>0 DEF Row
        <4>5. rows' = Update(d, row)
          BY <3>1 DEF CancelRequested
        <4> HIDE DEF row
        <4>6. rows'[d] = row
          BY <1>0, <3>2, <4>5, UpdateEffect
        <4> QED BY <4>1, <4>2, <4>3, <4>4, <4>6 DEF CancelSet
      <3> QED BY <2>1, <3>1, <3>2, <3>3 DEF CancelStep, AskingCancel
    <2>2. CASE c # d
      BY <1>0, <1>2, <2>2 DEF CancelArrives, RequestCancel, CancelStep
    <2> QED BY <2>1, <2>2
  <1>3. ASSUME NEW c \in Cancels, CancelHandled(c) PROVE CancelStep(d)
    BY <1>0, <1>3 DEF CancelHandled, CancelHandler, InterruptPipeline, MarkUnregistered, CancelStep
  <1>4. CASE Crash
    BY <1>0, <1>4 DEF Crash, CancelStep
  <1> QED BY <1>1, <1>2, <1>3, <1>4
          DEF Next, Requested, Advanced, HealthChecked, Exited, Startup, RecoverCandidate,
            RecoveryDone, Reconcile, Rest, vars

(* Of a row that stays, a cancellation that was asked for is not forgotten.*)
LEMMA RequestKept ==
  ASSUME TypeOK, [Next]_vars, NEW d \in Deployments, pc[d] # "new", Exists(d)'
  PROVE  Exists(d) /\ (rows[d].cancelReq => rows'[d].cancelReq)
  <1>1. CASE rows'[d] = rows[d]
    BY <1>1 DEF Exists
  <1>2. ~Inserting(d) /\ ~Deleting(d)
    BY DEF Inserting, At, Deleting, Exists, NoRow
  <1>3. CASE AskingCancel(d) \/ Cancelling(d)
    BY <1>3 DEF AskingCancel, Cancelling, CancelSet
  <1>4. CASE Building(d) \/ Failing(d)
    BY <1>4 DEF Building, Failing, StatusSet
  <1>5. ASSUME NEW p, Recording(d, p) \/ Clearing(d, p) \/ Promoting(d, p)
        PROVE  Exists(d) /\ rows'[d].cancelReq = rows[d].cancelReq
    BY <1>5 DEF Recording, Clearing, Promoting, CandidateSet, PromotedTo
  <1>6. ASSUME NEW p, Retiring(d, p) \/ Stopping(d, p)
        PROVE  Exists(d) /\ rows'[d].cancelReq = rows[d].cancelReq
    BY <1>6 DEF Retiring, Stopping, StatusSet
  <1>7. CASE Abandoning(d)
    BY <1>7 DEF Abandoning, CandidateRows
  <1> QED BY <1>1, <1>2, <1>3, <1>4, <1>5, <1>6, <1>7, RowsStep DEF RowStep

(* What a pipeline does once its cancellation is on record: it stops at    *)
(* its first look, and one that is to settle nothing settles nothing.      *)
LEMMA PipelineQuits ==
  ASSUME TypeOK, [Next]_vars, NEW d \in Deployments, pc'[d] # pc[d]
  PROVE  /\ pc[d] = "fetch" /\ rows[d].cancelReq => pc'[d] \in {"unwind", "done"}
         /\ pc[d] = "settle" /\ after[d] = "nothing" => pc'[d] \in {"unwind", "done"}
  <1>0. pc \in [Runs -> Stages] /\ d \in Runs
    BY RunsIncluded DEF TypeOK, RolloutTypeOK
  <1>1. ASSUME pc[d] \in {"fetch", "settle"} PROVE Advanced(d) \/ Crash
    BY <1>0, <1>1, MovedBy
  <1>2. CASE Crash
    BY <1>0, <1>2 DEF Crash, At
  <1>3. ASSUME Advanced(d), pc[d] = "fetch", rows[d].cancelReq PROVE pc'[d] = "unwind"
    <2>1. FetchSource(d)
      BY <1>3, RunsAssumption
         DEF Advanced, Advance, Pipeline, Register, ReadCancelFlag, AcquireBuild, MarkBuilding,
           BuildImage, PrepareRun, MarkRowFailed, MarkAppAfterFailure, Replace, ReadActive,
           RunContainer, SaveCandidate, AwaitReady, SwitchRoute, SyncDomains, RecheckCancel,
           PromoteCandidate, PublishApp, RemovePrevious, RetirePrevious, RestorePrevious,
           CleanupCandidate, ClearCandidate, SettleRun, Containers, AcquireRollout, GiveUpRollout,
           Unwind, At
    <2> QED BY <1>0, <1>3, <2>1 DEF FetchSource, CancelSeen, FinishCancelled, To
  <1>4. ASSUME Advanced(d), pc[d] = "settle", after[d] = "nothing" PROVE pc'[d] = "unwind"
    <2>1. SettleRun(d)
      BY <1>4, RunsAssumption
         DEF Advanced, Advance, Pipeline, Register, ReadCancelFlag, FetchSource, AcquireBuild,
           MarkBuilding, BuildImage, PrepareRun, MarkRowFailed, MarkAppAfterFailure, Replace,
           ReadActive, RunContainer, SaveCandidate, AwaitReady, SwitchRoute, SyncDomains,
           RecheckCancel, PromoteCandidate, PublishApp, RemovePrevious, RetirePrevious,
           RestorePrevious, CleanupCandidate, ClearCandidate, Containers, AcquireRollout,
           GiveUpRollout, Unwind, At
    <2> QED BY <1>0, <1>4, <2>1 DEF SettleRun, To
  <1> QED BY <1>1, <1>2, <1>3, <1>4

(* What a run that undoes its rollout was to settle stays as it is. *)
LEMMA SettlementKept ==
  ASSUME TypeOK, [Next]_vars, NEW p \in Containers, pc[p] \in Retreating
  PROVE  after'[p] = after[p] \/ pc'[p] = "done"
  <1>0. pc \in [Runs -> Stages] /\ p \in Runs /\ after \in [Runs -> Settlements]
    BY RunsIncluded DEF TypeOK, RolloutTypeOK
  <1> USE DEF Retreating
  <1>1. CASE after' = after
    BY <1>1
  <1>2. ASSUME NEW q \in Runs, Advanced(q) PROVE after'[p] = after[p]
    <2>1. ASSUME q = p PROVE after' = after
      <3>1. RestorePrevious(p) \/ CleanupCandidate(p) \/ ClearCandidate(p) \/ SettleRun(p)
        BY <1>2, <2>1, RunsAssumption
           DEF Advanced, Advance, Pipeline, Register, ReadCancelFlag, FetchSource, AcquireBuild,
             MarkBuilding, BuildImage, PrepareRun, MarkRowFailed, MarkAppAfterFailure, Replace,
             ReadActive, RunContainer, SaveCandidate, AwaitReady, SwitchRoute, SyncDomains,
             RecheckCancel, PromoteCandidate, PublishApp, RemovePrevious, RetirePrevious,
             AcquireRollout, GiveUpRollout, Unwind, At
      <3> QED BY <3>1 DEF RestorePrevious, CleanupCandidate, ClearCandidate, SettleRun, memory
    <2>2. ASSUME q # p PROVE after'[p] = after[p]
      <3>1. after' = after \/ \E how : Settle(q, how)
        BY <1>2
           DEF Advanced, Advance, Pipeline, Register, ReadCancelFlag, FetchSource, AcquireBuild,
             MarkBuilding, BuildImage, PrepareRun, MarkRowFailed, MarkAppAfterFailure, Replace,
             ReadActive, RunContainer, SaveCandidate, AwaitReady, SwitchRoute, SyncDomains,
             RecheckCancel, PromoteCandidate, PublishApp, RemovePrevious, RetirePrevious,
             RestorePrevious, CleanupCandidate, ClearCandidate, SettleRun, AcquireRollout,
             GiveUpRollout, Unwind, Stop, StopRemoveRoute, StopRemoveDomains, StopFindRelease,
             StopRemoveContainer, StopMarkRow, StopMarkApp, DeleteApp, memory
      <3> QED BY <1>0, <2>2, <3>1 DEF Settle
    <2> QED BY <2>1, <2>2
  <1>3. CASE Crash
    BY <1>0, <1>3 DEF Crash, At
  <1>4. CASE Requested \/ HealthChecked \/ \E d \in Cancels : CancelArrives(d) \/ CancelHandled(d)
    BY <1>1, <1>4 DEF Requested, Request, Create, RequestRollback, RequestStop, Disconnect,
         CancelArrives, RequestCancel, CancelHandled, CancelHandler, InterruptPipeline,
         MarkUnregistered, HealthChecked, Health, HealthList, HealthPass, HealthInspect,
         HealthSkip, HealthMarkRow, HealthMarkApp, rolloutVars, memory
  <1>5. CASE Exited \/ Startup \/ Rest \/ UNCHANGED vars
    BY <1>1, <1>5 DEF Exited, ContainerExits, Startup, RecoverCandidate, RecoveryDone, Reconcile,
         Rest, vars, rolloutVars, memory
  <1> QED BY <1>2, <1>3, <1>4, <1>5 DEF Next
(* Who points the application's route where. *)
RouteStep ==
  \/ route' = route
  \/ \E p \in Containers : At(p, "switch") /\ route' = p /\ (pc'[p] = "sync" \/ LostReplies)
  \/ \E p \in Containers : At(p, "restore") /\ route' = previous[p].container
  \/ \E s \in Stops : At(s, "stopRoute") /\ route' = None
  \/ RecoverCandidate

LEMMA RouteSteps ==
  ASSUME TypeOK, [Next]_vars
  PROVE  RouteStep
  <1>0. pc \in [Runs -> Stages]
    BY DEF TypeOK, RolloutTypeOK
  <1>1. CASE route' = route
    BY <1>1 DEF RouteStep
  <1>2. ASSUME NEW p \in Runs, Advanced(p) PROVE RouteStep
    <2>1. CASE p \in Containers /\ Replace(p)
      <3>1. CASE SwitchRoute(p)
        BY <1>0, <1>1, <2>1, <3>1 DEF SwitchRoute, Uncertain, To, RouteStep
      <3>2. CASE RestorePrevious(p)
        BY <1>1, <2>1, <3>2 DEF RestorePrevious, RestoredRoute, RouteStep
      <3> QED BY <1>1, <2>1, <3>1, <3>2
              DEF Replace, ReadActive, RunContainer, SaveCandidate, AwaitReady, SyncDomains,
                RecheckCancel, PromoteCandidate, PublishApp, RemovePrevious, RetirePrevious,
                CleanupCandidate, ClearCandidate, SettleRun, services
    <2>2. CASE p \in Stops /\ Stop(p)
      <3>1. CASE StopRemoveRoute(p)
        BY <1>1, <2>2, <3>1 DEF StopRemoveRoute, Uncertain, RouteStep
      <3> QED BY <1>1, <2>2, <3>1
              DEF Stop, StopRemoveDomains, StopFindRelease, StopRemoveContainer, StopMarkRow,
                StopMarkApp, DeleteApp, services
    <2>3. CASE Pipeline(p) \/ AcquireRollout(p) \/ GiveUpRollout(p) \/ Unwind(p)
      BY <1>1, <2>3 DEF Pipeline, Register, ReadCancelFlag, FetchSource, AcquireBuild, MarkBuilding,
         BuildImage, PrepareRun, MarkRowFailed, MarkAppAfterFailure, AcquireRollout, GiveUpRollout,
         Unwind, services
    <2> QED BY <1>2, <2>1, <2>2, <2>3 DEF Advanced, Advance
  <1>3. CASE Requested \/ HealthChecked \/ \E d \in Cancels : CancelArrives(d) \/ CancelHandled(d)
    BY <1>1, <1>3 DEF Requested, Request, Create, RequestRollback, RequestStop, Disconnect,
         CancelArrives, RequestCancel, CancelHandled, CancelHandler, InterruptPipeline,
         MarkUnregistered, HealthChecked, Health, HealthList, HealthPass, HealthInspect,
         HealthSkip, HealthMarkRow, HealthMarkApp, rolloutVars, services
  <1>4. CASE Exited \/ Crash \/ Startup \/ Rest \/ UNCHANGED vars
    BY <1>1, <1>4 DEF Exited, ContainerExits, Crash, Startup, RecoveryDone, Reconcile, Rest,
         vars, rolloutVars, services, RouteStep
  <1> QED BY <1>2, <1>3, <1>4 DEF Next

-----------------------------------------------------------------------------
(* Where a deployment, its pipeline and a cancel request may be together.  *)
RequestInv ==
  \A d \in Deployments :
    /\ pc[d] = "new" => ~Exists(d)
    /\ pc[d] \notin {"new", "spawned", "done"} => d \in executions
    /\ cancelling[d] # "idle" => boot = "serving" /\ pc[d] # "new" /\ (Exists(d) => rows[d].cancelReq)
    /\ cancelling[d] = "mark" /\ Exists(d) => pc[d] \in Quitting

CancelledInv ==
  \A d \in Deployments :
    /\ rows[d].status \in Cancellable \cup {"cancelled"} => rows[d].container = None
    /\ rows[d].status = "cancelled" =>
         /\ rows[d].cancelReq
         /\ pc[d] \in Quitting \cup Retreating
         /\ pc[d] \in Retreating => after[d] = "nothing"
         /\ boot = "recovering" => rows[d].candidate = None

(* No process dies between the marking of a cancelled deployment and the   *)
(* removal of its candidate: RecoverCandidates would mark it failed.       *)
Forgetful == Crash /\ \E d \in Deployments : rows[d].status = "cancelled" /\ rows[d].candidate # None

LEMMA QuittingKept ==
  ASSUME TypeOK, [Next]_vars, NEW d \in Deployments, pc[d] \in Quitting, rows[d].cancelReq
  PROVE  pc'[d] \in Quitting
  <1>1. StageStep(d) /\ (pc'[d] # pc[d] /\ pc[d] = "fetch" => pc'[d] \in {"unwind", "done"})
    BY StagesStep, PipelineQuits, RunsIncluded
  <1> QED BY <1>1 DEF StageStep, Flow, Quitting

LEMMA BootMoves ==
  ASSUME TypeOK, [Next]_vars
  PROVE  /\ boot # "serving" => cancelling' = cancelling \/ Crash
         /\ boot' # "serving" => Crash \/ boot # "serving"
  <1>1. CASE boot' = boot /\ boot = "serving"
    BY <1>1
  <1>2. CASE Requested \/ (\E p \in Runs : Advanced(p)) \/ HealthChecked
    BY <1>1, <1>2 DEF Requested, Advanced, HealthChecked, environment, Serving
  <1>3. CASE \E d \in Cancels : CancelArrives(d) \/ CancelHandled(d)
    BY <1>1, <1>3 DEF CancelArrives, CancelHandled, environment, Serving
  <1>4. CASE Exited \/ Startup \/ Rest \/ UNCHANGED vars
    BY <1>4 DEF Exited, ContainerExits, Startup, RecoverCandidate, RecoveryDone, Reconcile,
         Rest, vars, environment
  <1> QED BY <1>2, <1>3, <1>4 DEF Next

LEMMA RequestInvStep ==
  ASSUME TypeOK, RequestInv, [Next]_vars
  PROVE  RequestInv'
  <1> SUFFICES ASSUME NEW d \in Deployments
               PROVE  /\ pc'[d] = "new" => ~Exists(d)'
                      /\ pc'[d] \notin {"new", "spawned", "done"} => d \in executions'
                      /\ cancelling'[d] # "idle" =>
                           boot' = "serving" /\ pc'[d] # "new" /\ (Exists(d)' => rows'[d].cancelReq)
                      /\ cancelling'[d] = "mark" /\ Exists(d)' => pc'[d] \in Quitting
    BY DEF RequestInv
  <1>0. /\ pc[d] = "new" => ~Exists(d)
        /\ pc[d] \notin {"new", "spawned", "done"} => d \in executions
        /\ cancelling[d] # "idle" => boot = "serving" /\ pc[d] # "new" /\ (Exists(d) => rows[d].cancelReq)
        /\ cancelling[d] = "mark" /\ Exists(d) => pc[d] \in Quitting
    BY DEF RequestInv
  <1>1. pc'[d] = "new" => ~Exists(d)'
    <2>1. Exists(d)' => Exists(d) \/ Inserting(d)
      BY RowsStep DEF RowStep, Exists, Deleting, NoRow, AskingCancel, Cancelling, Building, Failing,
           Recording, Clearing, Promoting, Retiring, Stopping, Abandoning, CandidateRows
    <2> QED BY <1>0, <2>1, FreshKept, RunsIncluded DEF Inserting
  <1>2. pc'[d] \notin {"new", "spawned", "done"} => d \in executions'
    <2>1. StageStep(d)
      BY StagesStep, RunsIncluded
    <2>2. pc'[d] \notin {"new", "spawned", "done"} =>
            pc[d] \notin {"new", "spawned", "done"} \/ (pc[d] = "spawned" /\ pc'[d] = "registered")
            \/ pc[d] = "new"
      BY <2>1 DEF StageStep, Flow
    <2>3. pc[d] = "new" => pc'[d] \in {"new", "spawned"}
      <3>1. ASSUME pc[d] = "new", pc'[d] = "lock" PROVE FALSE
        <4>1. Exists(d)' /\ ~Exists(d)
          BY <1>0, <3>1, CreatedInserts
        <4>2. ~Inserting(d)
          BY <3>1 DEF Inserting
        <4>3. Exists(d)' => Exists(d) \/ Inserting(d)
          BY RowsStep DEF RowStep, Exists, Deleting, NoRow, AskingCancel, Cancelling, Building, Failing,
               Recording, Clearing, Promoting, Retiring, Stopping, Abandoning, CandidateRows
        <4> QED BY <4>1, <4>2, <4>3
      <3> QED BY <2>1, <3>1 DEF StageStep, Flow
    <2> QED BY <1>0, <2>2, <2>3, ExecutionSteps
  <1>3. ASSUME cancelling'[d] # "idle"
        PROVE  boot' = "serving" /\ pc'[d] # "new" /\ (Exists(d)' => rows'[d].cancelReq)
    <2>1. ~Crash
      BY <1>3 DEF Crash
    <2>2. CASE cancelling'[d] = cancelling[d]
      BY <1>0, <1>3, <2>1, <2>2, BootMoves, RequestKept, FreshKept, RunsIncluded
    <2>3. CASE cancelling'[d] = "lookup" /\ AskingCancel(d) /\ pc' = pc
      <3>1. boot = "serving"
        BY <1>3, <2>1, <2>3, BootMoves DEF AskingCancel
      <3> QED BY <1>0, <2>1, <2>3, <3>1, BootMoves DEF AskingCancel, CancelSet
    <2>4. CASE cancelling'[d] = "mark" /\ cancelling[d] = "lookup" /\ UNCHANGED <<rows, pc>>
      BY <1>0, <2>1, <2>4, BootMoves DEF Exists
    <2> QED BY <1>3, <2>2, <2>3, <2>4, CancelSteps DEF CancelStep
  <1>4. ASSUME cancelling'[d] = "mark", Exists(d)' PROVE pc'[d] \in Quitting
    <2>1. CASE cancelling[d] = "mark"
      BY <1>0, <1>4, <2>1, RequestKept, QuittingKept
    <2>2. CASE cancelling[d] = "lookup" /\ d \notin executions /\ UNCHANGED <<rows, pc>>
      BY <1>0, <2>2 DEF Quitting
    <2> QED BY <1>4, <2>1, <2>2, CancelSteps DEF CancelStep
  <1> QED BY <1>1, <1>2, <1>3, <1>4
(* Who marks a row cancelled, and who leaves it so. *)
LEMMA CancelledBy ==
  ASSUME TypeOK, [Next]_vars, NEW d \in Deployments, rows'[d].status = "cancelled"
  PROVE  \/ rows[d].status = "cancelled" /\ rows'[d].container = rows[d].container
            /\ (rows'[d].candidate = rows[d].candidate \/ rows'[d].candidate = None
                \/ \E p \in Containers : At(p, "candidate"))
         \/ Cancelling(d)
  <1>1. CASE rows'[d] = rows[d]
    BY <1>1
  <1>2. ~Inserting(d) /\ ~Deleting(d) /\ ~AskingCancel(d) /\ ~Building(d) /\ ~Failing(d) /\ ~Abandoning(d)
    BY DEF Inserting, Deleting, NoRow, AskingCancel, CancelSet, Building, Failing, StatusSet, Abandoning
  <1>3. ASSUME NEW p \in Containers, Recording(d, p) \/ Clearing(d, p)
        PROVE  /\ rows[d].status = "cancelled" /\ rows'[d].container = rows[d].container
               /\ rows'[d].candidate = None \/ At(p, "candidate")
    BY <1>3 DEF Recording, Clearing, CandidateSet
  <1>4. ASSUME NEW p, Promoting(d, p) \/ Retiring(d, p) \/ Stopping(d, p) PROVE FALSE
    BY <1>4 DEF Promoting, PromotedTo, Retiring, Stopping, StatusSet
  <1> QED BY <1>1, <1>2, <1>3, <1>4, RowsStep DEF RowStep

LEMMA CancellableBy ==
  ASSUME TypeOK, FreshInv, [Next]_vars, NEW d \in Deployments,
         rows[d].status \in Cancellable => rows[d].container = None,
         rows'[d].status \in Cancellable
  PROVE  rows'[d].container = None
  <1> USE DEF Cancellable
  <1>1. CASE rows'[d] = rows[d] \/ Inserting(d) \/ Deleting(d)
    BY <1>1 DEF Inserting, Deleting, NoRow
  <1>2. CASE AskingCancel(d)
    BY <1>2 DEF AskingCancel, CancelSet
  <1>3. CASE Building(d)
    BY <1>3 DEF Building, StatusSet, FreshInv, Fresh, At, BeforeLock
  <1>4. ~Cancelling(d) /\ ~Failing(d) /\ ~Abandoning(d)
    BY DEF Cancelling, CancelSet, Failing, StatusSet, Abandoning
  <1>5. ASSUME NEW p, Recording(d, p) \/ Clearing(d, p) PROVE rows'[d].container = None
    BY <1>5 DEF Recording, Clearing, CandidateSet
  <1>6. ASSUME NEW p, Promoting(d, p) \/ Retiring(d, p) \/ Stopping(d, p) PROVE FALSE
    BY <1>6 DEF Promoting, PromotedTo, Retiring, Stopping, StatusSet
  <1> QED BY <1>1, <1>2, <1>3, <1>4, <1>5, <1>6, RowsStep DEF RowStep

LEMMA CancelledInvStep ==
  ASSUME TypeOK, FreshInv, BootInv, RequestInv, CancelledInv, [Next]_vars, ~Forgetful
  PROVE  CancelledInv'
  <1> SUFFICES ASSUME NEW d \in Deployments
               PROVE  /\ rows'[d].status \in Cancellable \cup {"cancelled"} => rows'[d].container = None
                      /\ rows'[d].status = "cancelled" =>
                           /\ rows'[d].cancelReq
                           /\ pc'[d] \in Quitting \cup Retreating
                           /\ pc'[d] \in Retreating => after'[d] = "nothing"
                           /\ boot' = "recovering" => rows'[d].candidate = None
    BY DEF CancelledInv
  <1>0. /\ rows[d].status \in Cancellable \cup {"cancelled"} => rows[d].container = None
        /\ rows[d].status = "cancelled" =>
             /\ rows[d].cancelReq
             /\ pc[d] \in Quitting \cup Retreating
             /\ pc[d] \in Retreating => after[d] = "nothing"
             /\ boot = "recovering" => rows[d].candidate = None
        /\ d \in Runs
    BY RunsIncluded DEF CancelledInv
  <1>1. ASSUME rows'[d].status \in Cancellable \cup {"cancelled"} PROVE rows'[d].container = None
    <2>1. CASE rows'[d].status \in Cancellable
      BY <1>0, <2>1, CancellableBy
    <2>2. CASE rows'[d].status = "cancelled"
      BY <1>0, <2>2, CancelledBy DEF Cancelling, CancelSet
    <2> QED BY <1>1, <2>1, <2>2
  <1>2. ASSUME rows'[d].status = "cancelled", rows[d].status = "cancelled", ~Cancelling(d)
        PROVE  /\ rows'[d].cancelReq
               /\ pc'[d] \in Quitting \cup Retreating
               /\ pc'[d] \in Retreating => after'[d] = "nothing"
               /\ boot' = "recovering" => rows'[d].candidate = None
    <2>0. pc[d] # "new" /\ Exists(d)'
      BY <1>0, <1>2 DEF Quitting, Retreating, Exists
    <2>1. rows'[d].cancelReq
      BY <1>0, <1>2, <2>0, RequestKept
    <2>2. ASSUME boot' = "recovering" PROVE rows'[d].candidate = None
      <3>1. CASE Crash
        BY <1>2, <3>1 DEF Crash, Forgetful
      <3>2. CASE boot = "recovering"
        <4>1. ~\E p \in Containers : At(p, "candidate")
          BY <3>2, RunsIncluded DEF BootInv, At
        <4> QED BY <1>0, <1>2, <3>2, <4>1, CancelledBy
      <3>3. CASE boot = "reconciling" /\ ~Crash
        BY <2>2, <3>3, RecoversAfterCrash
      <3> QED BY <2>2, <3>1, <3>2, <3>3, RecoversAfterCrash DEF TypeOK
    <2>3. ASSUME pc[d] \in Quitting PROVE pc'[d] \in Quitting
      BY <1>0, <1>2, <2>3, QuittingKept
    <2>4. ASSUME pc[d] \in Retreating
          PROVE  /\ pc'[d] \in Quitting \cup Retreating
                 /\ pc'[d] \in Retreating => after'[d] = "nothing"
      <3>1. after[d] = "nothing" /\ (after'[d] = after[d] \/ pc'[d] = "done")
        BY <1>0, <1>2, <2>4, SettlementKept DEF Containers
      <3>2. pc'[d] \in Quitting \cup Retreating
        <4>1. pc[d] = "settle" /\ pc'[d] # pc[d] => pc'[d] \in {"unwind", "done"}
          BY <3>1, PipelineQuits
        <4>2. StageStep(d)
          BY <1>0, StagesStep
        <4> QED BY <2>4, <4>1, <4>2 DEF StageStep, Flow, Quitting, Retreating
      <3> QED BY <3>1, <3>2 DEF Retreating
    <2> QED BY <1>0, <1>2, <2>1, <2>2, <2>3, <2>4 DEF Quitting, Retreating
  <1>3. ASSUME Cancelling(d)
        PROVE  /\ rows'[d].cancelReq
               /\ pc'[d] \in Quitting \cup Retreating
               /\ pc'[d] \in Retreating => after'[d] = "nothing"
               /\ boot' = "recovering" => rows'[d].candidate = None
    <2>1. rows'[d].cancelReq /\ rows' # rows
      BY <1>3 DEF Cancelling, CancelSet, Cancellable
    <2>2. ~Crash
      BY <2>1 DEF Crash
    <2>3. boot = "serving"
      BY <1>0, <1>3 DEF Cancelling, BootInv, RequestInv, At
    <2>4. boot' = "serving"
      BY <2>2, <2>3, BootMoves
    <2>5. pc'[d] \in Quitting \/ (pc'[d] = "restore" /\ after'[d] = "nothing")
      <3>1. CASE cancelling[d] = "mark"
        <4>1. pc[d] \in Quitting /\ rows[d].cancelReq
          BY <1>3, <3>1 DEF RequestInv, Cancelling
        <4> QED BY <4>1, QuittingKept
      <3> QED BY <1>3, <3>1 DEF Cancelling, Quitting
    <2> QED BY <2>1, <2>4, <2>5 DEF Quitting, Retreating
  <1> QED BY <1>1, <1>2, <1>3, CancelledBy

LEMMA CancelledInvariant ==
  Spec /\ [][~Forgetful]_vars => [](BootInv /\ RequestInv /\ CancelledInv)
  <1>1. Init => BootInv /\ RequestInv /\ CancelledInv
    BY RunsIncluded DEF Init, RolloutInit, StoreInit, BootInv, RequestInv, CancelledInv, NoRow, Exists, Cancellable
  <1>2. TypeOK /\ ShapeInv /\ BootInv /\ RequestInv /\ CancelledInv /\ [Next]_vars /\ [~Forgetful]_vars
          => (BootInv /\ RequestInv /\ CancelledInv)'
    <2> SUFFICES ASSUME TypeOK, ShapeInv, BootInv, RequestInv, CancelledInv, [Next]_vars, [~Forgetful]_vars
                 PROVE  (BootInv /\ RequestInv /\ CancelledInv)'
      OBVIOUS
    <2>1. BootInv' /\ RequestInv'
      BY BootStep, RequestInvStep
    <2>2. ~Forgetful
      <3>1. ASSUME UNCHANGED vars PROVE ~Crash
        BY <3>1 DEF vars, environment, Crash, TypeOK, SystemAssumption
      <3> QED BY <3>1 DEF Forgetful
    <2> QED BY <2>1, <2>2, CancelledInvStep DEF ShapeInv
  <1> QED BY <1>1, <1>2, TypeInvariant, ShapeInvariant, PTL DEF Spec

(* A cancelled deployment stays cancelled and never gets a container or a  *)
(* route, for any number of deployments, rollbacks, stops, deletions,      *)
(* failing calls, lost replies, health passes and exits, and for crashes   *)
(* that do not come between the cancellation of a rollout and the removal  *)
(* of its candidate.                                                       *)
THEOREM CancelledStays == Spec /\ [][~Forgetful]_vars => CancelledIsFinal
  <1> DEFINE Kept(d) ==
        rows[d].status = "cancelled" =>
          /\ rows'[d].status \in {"cancelled", "absent"}
          /\ containers[d] = "none" => containers'[d] = "none"
          /\ route # d => route' # d
  <1>1. ASSUME TypeOK, ShapeInv, HeldInv, CancelledInv, [Next]_vars,
               NEW d \in Deployments, rows[d].status = "cancelled"
        PROVE  /\ rows'[d].status \in {"cancelled", "absent"}
               /\ containers[d] = "none" => containers'[d] = "none"
               /\ route # d => route' # d
    <2>0. /\ d \in Containers /\ d # None /\ Exists(d)
          /\ rows[d].container = None /\ pc[d] \in Quitting \cup Retreating
          /\ boot = "recovering" => rows[d].candidate = None
      BY <1>1, NamesAssumption DEF CancelledInv, Containers, Exists
    <2>1. rows'[d].status \in {"cancelled", "absent"}
      <3>1. CASE rows'[d] = rows[d]
        BY <1>1, <3>1
      <3>2. ~Inserting(d) /\ ~AskingCancel(d) /\ ~Cancelling(d) /\ ~Building(d)
        BY <1>1, <2>0 DEF Inserting, At, AskingCancel, Cancelling, Cancellable, Building,
             Quitting, Retreating
      <3>3. CASE Deleting(d)
        BY <3>3 DEF Deleting, NoRow
      <3>4. ~Failing(d)
        <4>1. sick.dep # d
          BY <1>1, <2>0 DEF HeldInv
        <4> QED BY <2>0, <4>1 DEF Failing, At, Quitting, Retreating
      <3>5. ASSUME NEW p, Recording(d, p) \/ Clearing(d, p) PROVE rows'[d].status = "cancelled"
        BY <1>1, <3>5 DEF Recording, Clearing, CandidateSet
      <3>6. ASSUME NEW p \in Containers, Promoting(d, p) PROVE FALSE
        <4>1. p # d
          BY <2>0, <3>6 DEF Promoting, At, Quitting, Retreating
        <4>2. p \in Rollbacks /\ target[p] = d
          BY <3>6, <4>1 DEF Promoting, RowOf, IsBuild, Containers
        <4> QED BY <1>1, <2>0, <4>2 DEF HeldInv
      <3>7. ASSUME NEW p \in Runs, Retiring(d, p) \/ Stopping(d, p) PROVE FALSE
        BY <1>1, <2>0, <3>7 DEF Retiring, Stopping, ShapeInv, ReleaseInv
      <3>8. ~Abandoning(d)
        BY <2>0 DEF Abandoning, CandidateRows
      <3> QED BY <1>1, <3>1, <3>2, <3>3, <3>4, <3>5, <3>6, <3>7, <3>8, RowsStep, RunsIncluded DEF RowStep
    <2>2. containers[d] = "none" => containers'[d] = "none"
      BY <1>1, <2>0, ContainerSteps DEF ContainerStep, At, Quitting, Retreating
    <2>3. ASSUME route # d PROVE route' # d
      <3>1. ~At(d, "switch")
        BY <2>0 DEF At, Quitting, Retreating
      <3>2. ASSUME NEW p \in Containers PROVE previous[p].container # d
        BY <1>1, <2>0, RunsIncluded DEF HeldInv, ShapeInv, ReleaseInv
      <3>3. ASSUME RecoverCandidate PROVE route' # d
        <4>1. Active = None \/ (Active \in Deployments /\ rows[Active].status = "running")
          BY <1>1, TypeFacts, ExtremesExist DEF Active, RunningRows
        <4> QED BY <1>1, <2>0, <3>3, <4>1 DEF RecoverCandidate, RecoveredRoute, Snapshot, NoRelease, HeldInv
      <3> QED BY <1>1, <2>0, <2>3, <3>1, <3>2, <3>3, RouteSteps DEF RouteStep
    <2> QED BY <2>1, <2>2, <2>3
  <1>2. TypeOK /\ ShapeInv /\ HeldInv /\ CancelledInv /\ [Next]_vars
          => [\A d \in Deployments : Kept(d)]_vars
    BY <1>1
  <1> QED
    BY <1>2, TypeInvariant, ShapeInvariant, HeldInvariant, CancelledInvariant, PTL
       DEF Spec, CancelledIsFinal

-----------------------------------------------------------------------------
(***************************************************************************)
(* The status diagram: what becomes of a deployment nobody cancels.        *)
(***************************************************************************)
Uncancelled == Deployments \ Cancels

(* No cancellation disturbs it.                                            *)
Undisturbed ==
  \A d \in Uncancelled :
    d \notin ctxDone /\ rows[d].cancelReq = FALSE /\ after[d] # "cancel" /\ cancelling[d] = "idle"

(* A pipeline's context ends by its cancellation only. *)
LEMMA ContextSteps ==
  ASSUME TypeOK, [Next]_vars, NEW d \in Uncancelled, d \in ctxDone'
  PROVE  d \in ctxDone \/ rows[d].cancelReq
  <1> USE DEF Uncancelled
  <1>1. CASE ctxDone' \subseteq ctxDone
    BY <1>1
  <1>2. ASSUME NEW p \in Runs, Advanced(p) PROVE d \in ctxDone \/ rows[d].cancelReq
    <2>1. CASE ReadCancelFlag(p)
      BY <2>1 DEF ReadCancelFlag
    <2>2. CASE Unwind(p)
      BY <2>2 DEF Unwind
    <2>3. CASE Pipeline(p) \/ AcquireRollout(p) \/ GiveUpRollout(p)
      BY <1>1, <2>1, <2>3 DEF Pipeline, Register, FetchSource, AcquireBuild, MarkBuilding,
         BuildImage, PrepareRun, MarkRowFailed, MarkAppAfterFailure, AcquireRollout, GiveUpRollout,
         contexts
    <2>4. CASE Replace(p)
      BY <1>1, <2>4 DEF Replace, ReadActive, RunContainer, SaveCandidate, AwaitReady, SwitchRoute,
         SyncDomains, RecheckCancel, PromoteCandidate, PublishApp, RemovePrevious, RetirePrevious,
         RestorePrevious, CleanupCandidate, ClearCandidate, SettleRun, contexts
    <2>5. CASE Stop(p)
      BY <1>1, <2>5 DEF Stop, StopRemoveRoute, StopRemoveDomains, StopFindRelease,
         StopRemoveContainer, StopMarkRow, StopMarkApp, DeleteApp, contexts
    <2> QED BY <1>2, <2>2, <2>3, <2>4, <2>5 DEF Advanced, Advance
  <1>3. CASE Requested
    BY <1>1, <1>3 DEF Requested, Request, Create, RequestRollback, RequestStop, Disconnect, IsBuild,
       contexts
  <1>4. CASE \E c \in Cancels : CancelArrives(c) \/ CancelHandled(c)
    BY <1>1, <1>4 DEF CancelArrives, RequestCancel, CancelHandled, CancelHandler, InterruptPipeline,
       MarkUnregistered, contexts
  <1>5. CASE HealthChecked \/ Crash
    BY <1>1, <1>5 DEF HealthChecked, Health, HealthList, HealthPass, HealthInspect,
       HealthSkip, HealthMarkRow, HealthMarkApp, Crash, rolloutVars, contexts
  <1>6. CASE Exited \/ Startup \/ Rest \/ UNCHANGED vars
    BY <1>1, <1>6 DEF Exited, ContainerExits, Startup, RecoverCandidate, RecoveryDone, Reconcile,
       Rest, vars, rolloutVars, contexts
  <1> QED BY <1>2, <1>3, <1>4, <1>5, <1>6 DEF Next

(* Only a run whose context is done settles as cancelled. *)
LEMMA AfterSteps ==
  ASSUME TypeOK, [Next]_vars, NEW d \in Deployments, after'[d] = "cancel"
  PROVE  after[d] = "cancel" \/ d \in ctxDone
  <1>0. d \in Runs /\ after \in [Runs -> Settlements]
    BY RunsIncluded DEF TypeOK, RolloutTypeOK
  <1>1. CASE after' = after
    BY <1>1
  <1>2. ASSUME NEW p \in Runs, NEW how, Settle(p, how), how = "cancel" => p \in ctxDone
        PROVE  after[d] = "cancel" \/ d \in ctxDone
    BY <1>0, <1>2 DEF Settle
  <1>3. ASSUME NEW p \in Runs, Advanced(p) PROVE after[d] = "cancel" \/ d \in ctxDone
    <2>1. CASE RunContainer(p) \/ AwaitReady(p) \/ SwitchRoute(p) \/ SyncDomains(p)
      <3>1. OnError(p) = "cancel" => p \in ctxDone
        BY DEF OnError
      <3> QED BY <1>1, <1>2, <2>1, <3>1 DEF RunContainer, AwaitReady, SwitchRoute, SyncDomains
    <2>2. CASE RecheckCancel(p) \/ PromoteCandidate(p)
      <3>1. OnError(p) = "cancel" => p \in ctxDone
        BY DEF OnError
      <3> QED BY <1>1, <1>2, <2>2, <3>1 DEF RecheckCancel, PromoteCandidate
    <2>3. CASE MarkRowFailed(p)
      <3>1. \E how \in {"running", "failed"} : Settle(p, how)
        BY <2>3 DEF MarkRowFailed
      <3> QED BY <1>2, <3>1
    <2>4. CASE Unwind(p)
      BY <1>2, <2>4 DEF Unwind
    <2>5. CASE Pipeline(p) \/ AcquireRollout(p) \/ GiveUpRollout(p)
      BY <1>1, <2>3, <2>5 DEF Pipeline, Register, ReadCancelFlag, FetchSource, AcquireBuild, MarkBuilding,
         BuildImage, PrepareRun, MarkAppAfterFailure, AcquireRollout, GiveUpRollout, memory
    <2>6. CASE Replace(p)
      BY <1>1, <2>1, <2>2, <2>6 DEF Replace, ReadActive, SaveCandidate, PublishApp, RemovePrevious,
         RetirePrevious, RestorePrevious, CleanupCandidate, ClearCandidate, SettleRun, memory
    <2>7. CASE Stop(p)
      BY <1>1, <2>7 DEF Stop, StopRemoveRoute, StopRemoveDomains, StopFindRelease,
         StopRemoveContainer, StopMarkRow, StopMarkApp, DeleteApp, memory
    <2> QED BY <1>3, <2>4, <2>5, <2>6, <2>7 DEF Advanced, Advance
  <1>4. CASE Crash
    BY <1>0, <1>4 DEF Crash
  <1>5. CASE Requested \/ HealthChecked \/ \E c \in Cancels : CancelArrives(c) \/ CancelHandled(c)
    BY <1>1, <1>5 DEF Requested, Request, Create, RequestRollback, RequestStop, Disconnect,
       CancelArrives, RequestCancel, CancelHandled, CancelHandler, InterruptPipeline,
       MarkUnregistered, HealthChecked, Health, HealthList, HealthPass, HealthInspect,
       HealthSkip, HealthMarkRow, HealthMarkApp, rolloutVars, memory
  <1>6. CASE Exited \/ Startup \/ Rest \/ UNCHANGED vars
    BY <1>1, <1>6 DEF Exited, ContainerExits, Startup, RecoverCandidate, RecoveryDone, Reconcile,
       Rest, vars, rolloutVars, memory
  <1> QED BY <1>3, <1>4, <1>5, <1>6 DEF Next

LEMMA NobodyCancels ==
  ASSUME Undisturbed, NEW d \in Uncancelled
  PROVE  ~AskingCancel(d) /\ ~Cancelling(d)
  BY DEF Undisturbed, Uncancelled, AskingCancel, Cancelling, CancelSeen

LEMMA UndisturbedStep ==
  ASSUME TypeOK, Undisturbed, [Next]_vars
  PROVE  Undisturbed'
  <1> SUFFICES ASSUME NEW d \in Uncancelled
               PROVE  /\ d \notin ctxDone' /\ rows'[d].cancelReq = FALSE
                      /\ after'[d] # "cancel" /\ cancelling'[d] = "idle"
    BY DEF Undisturbed
  <1>0. /\ d \in Deployments /\ d \notin ctxDone /\ rows[d].cancelReq = FALSE
        /\ after[d] # "cancel" /\ cancelling[d] = "idle"
    BY DEF Undisturbed, Uncancelled
  <1>1. d \notin ctxDone' /\ after'[d] # "cancel"
    BY <1>0, ContextSteps, AfterSteps
  <1>2. cancelling'[d] = "idle"
    BY <1>0, NobodyCancels, CancelSteps DEF CancelStep
  <1>3. rows'[d].cancelReq = FALSE
    <2>1. CASE Inserting(d) \/ Deleting(d)
      BY <2>1 DEF Inserting, Deleting, NoRow
    <2>2. CASE Building(d) \/ Failing(d) \/ Abandoning(d)
      BY <1>0, <2>2 DEF Building, Failing, StatusSet, Abandoning
    <2>3. ASSUME NEW p, Recording(d, p) \/ Clearing(d, p) \/ Promoting(d, p)
          PROVE  rows'[d].cancelReq = FALSE
      BY <1>0, <2>3 DEF Recording, Clearing, Promoting, CandidateSet, PromotedTo
    <2>4. ASSUME NEW p, Retiring(d, p) \/ Stopping(d, p) PROVE rows'[d].cancelReq = FALSE
      BY <1>0, <2>4 DEF Retiring, Stopping, StatusSet
    <2> QED BY <1>0, <2>1, <2>2, <2>3, <2>4, RowsStep, NobodyCancels DEF RowStep
  <1> QED BY <1>1, <1>2, <1>3

(* The lock stays with a deployment or a rollback until it has unwound.    *)
LEMMA LockHeld ==
  ASSUME TypeOK, LockInv, [Next]_vars, NEW p \in Containers, lock = p
  PROVE  lock' = p \/ pc'[p] \in {"new", "done"}
  <1>0. pc \in [Runs -> Stages] /\ p \in Runs /\ p \notin Stops /\ p # None
    BY RunsIncluded, RunsAssumption, NamesAssumption DEF TypeOK, RolloutTypeOK
  <1>1. CASE lock' = lock
    BY <1>1
  <1>2. ASSUME NEW q \in Runs, Advanced(q) PROVE lock' = p \/ pc'[p] = "done"
    <2>1. CASE AcquireRollout(q)
      BY <1>0, <2>1 DEF AcquireRollout, LockFree
    <2>2. CASE Unwind(q)
      BY <1>0, <2>2 DEF Unwind, To, LockAfter
    <2>3. CASE q \in Stops /\ StopMarkApp(q)
      <3>1. lock = q
        BY <2>3 DEF StopMarkApp, At, LockInv, Critical
      <3> QED BY <1>0, <2>3, <3>1
    <2>4. CASE Pipeline(q) \/ GiveUpRollout(q)
      BY <2>4 DEF Pipeline, Register, ReadCancelFlag, FetchSource, AcquireBuild, MarkBuilding,
         BuildImage, PrepareRun, MarkRowFailed, MarkAppAfterFailure, GiveUpRollout
    <2>5. CASE Replace(q)
      BY <2>5 DEF Replace, ReadActive, RunContainer, SaveCandidate, AwaitReady, SwitchRoute,
         SyncDomains, RecheckCancel, PromoteCandidate, PublishApp, RemovePrevious, RetirePrevious,
         RestorePrevious, CleanupCandidate, ClearCandidate, SettleRun
    <2>6. CASE q \in Stops /\ Stop(q)
      BY <2>3, <2>6 DEF Stop, StopRemoveRoute, StopRemoveDomains, StopFindRelease,
         StopRemoveContainer, StopMarkRow, DeleteApp
    <2> QED BY <1>2, <2>1, <2>2, <2>4, <2>5, <2>6 DEF Advanced, Advance
  <1>3. CASE Crash
    BY <1>0, <1>3 DEF Crash, At
  <1>4. CASE Requested \/ HealthChecked \/ \E c \in Cancels : CancelArrives(c) \/ CancelHandled(c)
    BY <1>1, <1>4 DEF Requested, Request, Create, RequestRollback, RequestStop, Disconnect,
       CancelArrives, RequestCancel, CancelHandled, CancelHandler, InterruptPipeline,
       MarkUnregistered, HealthChecked, Health, HealthList, HealthPass, HealthInspect,
       HealthSkip, HealthMarkRow, HealthMarkApp, rolloutVars
  <1>5. CASE Exited \/ Startup \/ Rest \/ UNCHANGED vars
    BY <1>1, <1>5 DEF Exited, ContainerExits, Startup, RecoverCandidate, RecoveryDone, Reconcile,
       Rest, vars, rolloutVars
  <1> QED BY <1>2, <1>3, <1>4, <1>5 DEF Next

Over == {"failApp", "unwind", "done"}
Committing == {"publish", "removePrevious", "retire"}
Unmarked == {"spawned", "registered", "fetch", "slot", "mark"}
Built == {"build", "prepare", "lock", "snapshot", "start", "candidate", "ready", "switch", "sync",
          "recheck", "promote"}
Underway == {"start", "candidate", "ready", "switch", "sync", "recheck", "promote", "publish",
              "removePrevious", "retire"}

(* Which statuses its row may have while its pipeline is at a stage.       *)
StageStatus(d) ==
  /\ rows[d].status \notin {"cancel_requested", "cancelled"}
  /\ pc[d] = "new" => rows[d].status = "absent"
  /\ pc[d] \in Unmarked => rows[d].status \in {"absent", "pending"}
  /\ pc[d] \in Built => rows[d].status \in {"absent", "building"}
  /\ pc[d] \in Committing => rows[d].status \in {"absent", "running", "failed"}
  /\ pc[d] \in {"restore", "cleanup", "clear", "settle", "fail"} =>
       rows[d].status \in {"absent", "pending", "building", "running"}
  /\ rows[d].status \in Rollbackable => pc[d] \in Over
  /\ rows[d].status = "failed" => pc[d] \in Over \cup Committing
  /\ rows[d].status = "running" /\ pc[d] \notin Over => lock = d
  /\ boot = "recovering" /\ d \in CandidateRows => rows[d].status \notin Rollbackable

(* The release that a run under the lock is about to retire, to stop or to *)
(* reactivate has no pipeline any more that would write its row.           *)
ReleaseStatus(d) ==
  /\ \A p \in Containers : previous[p].dep = d /\ pc[p] \in Underway =>
       pc[d] \in Over /\ rows[d].status \in {"absent", "running"}
  /\ \A s \in Stops : previous[s].dep = d /\ pc[s] \in {"stopContainer", "stopRow"} =>
       pc[d] \in Over /\ rows[d].status \in {"absent", "running", "failed"}
  /\ \A r \in Rollbacks : target[r] = d /\ pc[r] # "done" =>
       pc[d] \in Over /\ rows[d].status \in Released \cup {"absent"}

StatusInv == \A d \in Uncancelled : StageStatus(d) /\ ReleaseStatus(d)

(* A release that runs, and that no run under way is about to replace, to  *)
(* reactivate or to take back.                                             *)
Settled(d) ==
  /\ rows[d].status = "running" /\ pc[d] \in Over \cup Committing
  /\ \A p \in Containers : previous[p].dep = d => pc[p] \notin Underway
  /\ \A r \in Rollbacks : target[r] = d => pc[r] = "done"

(* The checker calls a release failed that is being, or has been, replaced *)
(* or reactivated since it was listed; or a process dies with a rollback's *)
(* candidate on record, and RecoverCandidates marks the target failed.     *)
Intrusion ==
  \/ HealthMarkRow /\ rows' # rows /\ ~Settled(sick.dep)
  \/ Crash /\ \E d \in CandidateRows : rows[d].status \in Rollbackable

(* How the status of its row moves, and who is where when it does.         *)
StatusMove(d) ==
  \/ rows'[d].status = rows[d].status
  \/ rows'[d].status = "absent"
  \/ At(d, "new") /\ pc'[d] = "spawned" /\ rows'[d].status = "pending"
  \/ /\ rows[d].status = "pending" /\ rows'[d].status = "building"
     /\ At(d, "mark") /\ pc'[d] \in {"build", "unwind"}
  \/ /\ rows[d].status \in {"pending", "building", "running"} /\ rows'[d].status = "failed"
     /\ At(d, "fail") /\ pc'[d] = "failApp"
  \/ Settled(d) /\ rows'[d].status = "failed" /\ HealthMarkRow
  \/ /\ rows[d].status \in {"pending", "building"} /\ rows'[d].status = "failed"
     /\ pc[d] = "done" /\ boot = "recovering"
  \/ /\ rows[d].status = "building" /\ rows'[d].status = "running"
     /\ At(d, "promote") /\ pc'[d] \in {"publish", "restore"}
  \/ /\ rows[d].status \in Rollbackable /\ rows'[d].status = "running" /\ pc[d] \in Over
  \/ /\ rows[d].status = "running" /\ rows'[d].status \in Rollbackable /\ pc[d] \in Over
     /\ \E p \in Containers : At(p, "retire") /\ pc'[p] = "unwind"
  \/ /\ rows[d].status \in {"running", "failed"} /\ rows'[d].status = "stopped" /\ pc[d] \in Over
     /\ \E s \in Stops : At(s, "stopRow") /\ pc'[s] \in {"stopApp", "unwind"}

LEMMA StatusMoves ==
  ASSUME TypeOK, BootInv, Undisturbed, StatusInv, [Next]_vars, ~Intrusion, NEW d \in Uncancelled
  PROVE  StatusMove(d)
  <1>0. /\ d \in Deployments /\ d \in Containers /\ d \in Runs /\ rows[d] \in Row
        /\ StageStatus(d) /\ ReleaseStatus(d)
    BY RunsIncluded, TypeFacts DEF TypeOK, RolloutTypeOK, Rows, Uncancelled, StatusInv, Containers
  <1>1. CASE rows'[d] = rows[d]
    BY <1>1 DEF StatusMove
  <1>2. CASE Inserting(d)
    BY <1>2 DEF Inserting, StatusMove
  <1>3. CASE Deleting(d)
    BY <1>3 DEF Deleting, NoRow, StatusMove
  <1>4. CASE Building(d)
    BY <1>0, <1>4 DEF Building, StatusSet, At, StatusMove, StageStatus, Unmarked, Exists
  <1>5. CASE Failing(d)
    <2>1. CASE rows' = rows
      BY <1>1, <2>1
    <2>2. CASE rows' # rows
      BY <1>0, <1>5, <2>2 DEF Failing, Intrusion, StatusSet, At, StatusMove, StageStatus, Exists, Over, Committing
    <2> QED BY <2>1, <2>2
  <1>6. ASSUME NEW p \in Containers, Recording(d, p) \/ Clearing(d, p) PROVE StatusMove(d)
    BY <1>6 DEF Recording, Clearing, CandidateSet, StatusMove
  <1>7. ASSUME NEW p \in Containers, Promoting(d, p) PROVE StatusMove(d)
    <2>1. CASE p = d
      BY <1>0, <1>7, <2>1 DEF Promoting, PromotedTo, At, StatusMove, StageStatus, Built, Exists
    <2>2. CASE p # d
      <3>1. p \in Rollbacks /\ target[p] = d
        BY <1>7, <2>2 DEF Promoting, RowOf, IsBuild, Containers
      <3> QED BY <1>0, <1>7, <3>1 DEF Promoting, PromotedTo, At, StatusMove, ReleaseStatus, Released, Exists
    <2> QED BY <2>1, <2>2
  <1>8. ASSUME NEW p \in Containers, Retiring(d, p) PROVE StatusMove(d)
    BY <1>0, <1>8 DEF Retiring, StatusSet, At, StatusMove, ReleaseStatus, Underway, Exists, Rollbackable
  <1>9. ASSUME NEW s \in Stops, Stopping(d, s) PROVE StatusMove(d)
    BY <1>0, <1>9 DEF Stopping, StatusSet, At, StatusMove, ReleaseStatus, Exists
  <1>10. CASE Abandoning(d)
    <2>1. pc[d] = "done" /\ boot = "recovering" /\ d \in CandidateRows
      BY <1>0, <1>10 DEF Abandoning, BootInv, StageStatus, CandidateRows, Exists
    <2>2. rows[d].status \in {"pending", "building", "failed"}
      BY <1>0, <2>1 DEF StageStatus, CandidateRows, Exists, Row, Status, Cancellable
    <2> QED BY <1>10, <2>1, <2>2 DEF Abandoning, StatusMove
  <1> QED
    BY <1>0, <1>1, <1>2, <1>3, <1>4, <1>5, <1>6, <1>7, <1>8, <1>9, <1>10, RowsStep, NobodyCancels DEF RowStep

LEMMA OverKept ==
  ASSUME TypeOK, [Next]_vars, NEW q \in Runs, pc[q] \in Over
  PROVE  pc'[q] \in Over
  <1>1. StageStep(q)
    BY StagesStep
  <1> QED BY <1>1 DEF StageStep, Flow, Over

(* The stages whose action fixes the status of the row. *)
LEMMA StageStatusWritten ==
  ASSUME TypeOK, [Next]_vars, NEW d \in Deployments
  PROVE  /\ pc[d] = "mark" /\ pc'[d] = "build" => rows'[d].status \in {"absent", "building"}
         /\ pc[d] = "promote" /\ pc'[d] = "publish" => rows'[d].status \in {"absent", "running"}
  <1>0. /\ pc \in [Runs -> Stages] /\ rows \in Rows /\ d \in Runs /\ d \in Containers
        /\ rows[d] \in Row
    BY RunsIncluded, TypeFacts DEF TypeOK, RolloutTypeOK, Rows, Containers
  <1>1. ASSUME pc[d] = "mark", pc'[d] = "build" PROVE rows'[d].status \in {"absent", "building"}
    <2>1. Advanced(d)
      BY <1>0, <1>1, MovedBy DEF Crash, At
    <2>2. MarkBuilding(d)
      BY <1>1, <2>1, RunsAssumption
         DEF Advanced, Advance, Pipeline, Register, ReadCancelFlag, FetchSource, AcquireBuild,
           BuildImage, PrepareRun, MarkRowFailed, MarkAppAfterFailure, Replace, ReadActive,
           RunContainer, SaveCandidate, AwaitReady, SwitchRoute, SyncDomains, RecheckCancel,
           PromoteCandidate, PublishApp, RemovePrevious, RetirePrevious, RestorePrevious,
           CleanupCandidate, ClearCandidate, SettleRun, Containers, AcquireRollout, GiveUpRollout,
           Unwind, At
    <2>3. rows' = WithStatus(d, "building")
      BY <1>0, <1>1, <2>2 DEF MarkBuilding, To
    <2>4. rows'[d] = IF Exists(d) THEN [rows[d] EXCEPT !.status = "building"] ELSE rows[d]
      BY <1>0, <2>3, UpdateEffect DEF WithStatus
    <2> QED BY <1>0, <2>4 DEF Exists, Row
  <1>2. ASSUME pc[d] = "promote", pc'[d] = "publish" PROVE rows'[d].status \in {"absent", "running"}
    <2>1. Advanced(d)
      BY <1>0, <1>2, MovedBy DEF Crash, At
    <2>2. PromoteCandidate(d)
      BY <1>0, <1>2, <2>1, ReplaceActions DEF Advanced
    <2>3. rows' = Promoted(d, d)
      BY <1>0, <1>2, <2>2 DEF PromoteCandidate, To, RowOf, IsBuild
    <2>4. CASE Exists(d)
      BY <1>0, <2>3, <2>4, PromotedRow DEF PromotedTo
    <2>5. CASE ~Exists(d)
      <3>1. rows'[d] = rows[d]
        BY <1>0, <2>3, <2>5, UpdateEffect DEF Promoted
      <3> QED BY <2>5, <3>1 DEF Exists
    <2> QED BY <2>4, <2>5
  <1> QED BY <1>1, <1>2

LEMMA StageStatusStep ==
  ASSUME TypeOK, LockInv, BootInv, Undisturbed, StatusInv, [Next]_vars, ~Intrusion,
         NEW d \in Uncancelled
  PROVE  StageStatus(d)'
  <1>0. /\ d \in Deployments /\ d \in Containers /\ d \in Runs /\ pc \in [Runs -> Stages]
        /\ StageStatus(d) /\ StatusMove(d) /\ StageStep(d)
    BY RunsIncluded, StatusMoves, StagesStep
       DEF TypeOK, RolloutTypeOK, Uncancelled, StatusInv, Containers
  <1>1. rows'[d].status \notin {"cancel_requested", "cancelled"}
    BY <1>0 DEF StageStatus, StatusMove, Rollbackable
  <1>2. pc'[d] = "new" => rows'[d].status = "absent"
    <2>1. pc'[d] = "new" => pc[d] = "new"
      BY <1>0 DEF StageStep, Flow
    <2> QED BY <1>0, <2>1 DEF StageStatus, StatusMove, At, Over, Committing, Settled, Rollbackable
  <1>3. pc'[d] \in Unmarked => rows'[d].status \in {"absent", "pending"}
    <2>1. pc'[d] \in Unmarked => pc[d] \in Unmarked \cup {"new"}
      BY <1>0 DEF StageStep, Flow, Unmarked
    <2> QED BY <1>0, <2>1 DEF StageStatus, StatusMove, At, Over, Committing, Settled, Rollbackable, Unmarked
  <1>4. pc'[d] \in Built => rows'[d].status \in {"absent", "building"}
    <2>1. pc'[d] \in Built => pc[d] \in Built \/ (pc[d] = "mark" /\ pc'[d] = "build")
                              \/ (pc[d] = "new" /\ pc'[d] = "lock")
      BY <1>0 DEF StageStep, Flow, Built
    <2>2. ~(pc[d] = "new" /\ pc'[d] = "lock")
      <3>1. ASSUME pc[d] = "new", pc'[d] = "lock" PROVE FALSE
        <4>1. rows'[d].status # "absent"
          BY <1>0, <3>1, CreatedInserts DEF Exists
        <4> QED BY <1>0, <3>1, <4>1 DEF StageStatus, StatusMove, At, Over, Committing, Settled, Rollbackable
      <3> QED BY <3>1
    <2>3. ASSUME pc[d] \in Built, pc'[d] \in Built PROVE rows'[d].status \in {"absent", "building"}
      BY <1>0, <2>3 DEF StageStatus, StatusMove, At, Over, Committing, Settled, Rollbackable, Built
    <2> QED BY <1>0, <2>1, <2>2, <2>3, StageStatusWritten
  <1>5. pc'[d] \in Committing => rows'[d].status \in {"absent", "running", "failed"}
    <2>1. pc'[d] \in Committing =>
            pc[d] \in Committing \/ (pc[d] = "promote" /\ pc'[d] = "publish")
      BY <1>0 DEF StageStep, Flow, Committing
    <2>2. ASSUME pc[d] \in Committing PROVE rows'[d].status \in {"absent", "running", "failed"}
      BY <1>0, <2>2 DEF StageStatus, StatusMove, At, Over, Committing, Rollbackable, Settled
    <2> QED BY <1>0, <2>1, <2>2, StageStatusWritten
  <1>6. pc'[d] \in {"restore", "cleanup", "clear", "settle", "fail"} =>
          rows'[d].status \in {"absent", "pending", "building", "running"}
    <2>1. pc'[d] \in {"restore", "cleanup", "clear", "settle", "fail"} =>
            pc[d] \in Built \cup Unmarked \cup {"restore", "cleanup", "clear", "settle", "fail"}
      BY <1>0 DEF StageStep, Flow, Built, Unmarked
    <2>2. ASSUME pc[d] \in Built \cup Unmarked PROVE rows[d].status \in {"absent", "pending", "building"}
      BY <1>0, <2>2 DEF StageStatus
    <2>3. pc[d] = "fail" /\ pc'[d] = "failApp" => pc'[d] \notin {"restore", "cleanup", "clear", "settle", "fail"}
      OBVIOUS
    <2> QED BY <1>0, <2>1, <2>2, <2>3 DEF StageStatus, StatusMove, At, Over, Committing, Settled, Rollbackable, Built, Unmarked
  <1>7. /\ rows'[d].status \in Rollbackable => pc'[d] \in Over
        /\ rows'[d].status = "failed" => pc'[d] \in Over \cup Committing
    <2>1. pc[d] \in Over => pc'[d] \in Over
      BY <1>0, OverKept
    <2>2. pc[d] \in Committing => pc'[d] \in Over \cup Committing
      BY <1>0 DEF StageStep, Flow, Over, Committing
    <2>3. pc[d] = "done" \/ pc'[d] = "failApp" => pc[d] \in Over \/ pc'[d] \in Over
      BY DEF Over
    <2> QED BY <1>0, <2>1, <2>2, <2>3 DEF StageStatus, StatusMove, Settled, Rollbackable
  <1>8. ASSUME rows'[d].status = "running", pc'[d] \notin Over PROVE lock' = d
    <2>1. pc[d] \notin Over
      BY <1>0, <1>8, OverKept
    <2>2. lock = d
      <3>1. rows[d].status = "running" \/ At(d, "promote")
        BY <1>0, <1>8, <2>1 DEF StatusMove, Rollbackable
      <3>2. At(d, "promote") => lock = d
        BY <1>0 DEF LockInv, At, Critical
      <3> QED BY <1>0, <2>1, <3>1, <3>2 DEF StageStatus
    <2> QED BY <1>0, <1>2, <1>8, <2>2, LockHeld DEF Over
  <1>9. ASSUME boot' = "recovering", d \in CandidateRows' PROVE rows'[d].status \notin Rollbackable
    <2>1. CASE Crash
      <3>1. rows' = rows
        BY <2>1 DEF Crash
      <3>2. d \in CandidateRows
        BY <1>9, <3>1 DEF CandidateRows, Exists
      <3> QED BY <2>1, <3>1, <3>2 DEF Intrusion
    <2>2. CASE boot = "recovering"
      <3>1. \A p \in Runs : pc[p] \in {"new", "done"} /\ pc'[p] \in {"new", "done"}
        BY <1>9, <2>2, BootStep DEF BootInv
      <3>2. CASE rows'[d] = rows[d]
        <4>1. d \in CandidateRows
          BY <1>9, <3>2 DEF CandidateRows, Exists
        <4> QED BY <1>0, <2>2, <3>2, <4>1 DEF StageStatus
      <3>3. ~Inserting(d) /\ ~Building(d)
        BY <1>0, <3>1 DEF Inserting, Building, At
      <3>4. CASE Deleting(d) \/ Failing(d) \/ Abandoning(d)
        BY <3>4 DEF Deleting, NoRow, Failing, StatusSet, Abandoning, Rollbackable
      <3>5. ASSUME NEW p \in Containers, Recording(d, p) \/ Clearing(d, p) \/ Promoting(d, p) \/ Retiring(d, p)
            PROVE  FALSE
        BY <3>1, <3>5, RunsIncluded DEF Recording, Clearing, Promoting, Retiring, At
      <3>6. ASSUME NEW s \in Stops, Stopping(d, s) PROVE FALSE
        BY <3>1, <3>6, RunsIncluded DEF Stopping, At
      <3> QED BY <1>0, <3>2, <3>3, <3>4, <3>5, <3>6, RowsStep, NobodyCancels DEF RowStep
    <2> QED BY <1>9, <2>1, <2>2, RecoversAfterCrash
  <1> QED BY <1>1, <1>2, <1>3, <1>4, <1>5, <1>6, <1>7, <1>8, <1>9 DEF StageStatus

(* What is read under the lock is a release whose own pipeline is over.    *)
LEMMA ReleaseFound ==
  ASSUME TypeOK, LockInv, StatusInv, NEW d \in Uncancelled, NEW q \in Runs, Looking(q),
         rows[d].status \in {"running", "failed"}
  PROVE  pc[d] \in Over
  <1>1. lock = q /\ StageStatus(d) /\ q \in Runs
    BY RunsIncluded DEF Looking, LockInv, At, Critical, StatusInv
  <1>2. CASE pc[d] \notin Over
    <2>1. q = d
      BY <1>1, <1>2, RunsIncluded DEF StageStatus, Uncancelled, LockInv, Committing, Critical
    <2>2. pc[d] = "snapshot"
      BY <2>1, RunsAssumption DEF Looking, At, Uncancelled, Containers
    <2> QED BY <1>1, <2>2 DEF StageStatus, Built
  <1> QED BY <1>1, <1>2 DEF StageStatus

LEMMA ReleaseStatusStep ==
  ASSUME TypeOK, LockInv, BootInv, Undisturbed, StatusInv, [Next]_vars, ~Intrusion,
         NEW d \in Uncancelled
  PROVE  ReleaseStatus(d)'
  <1>0. /\ d \in Deployments /\ d \in Runs /\ pc \in [Runs -> Stages] /\ d # None
        /\ previous \in [Runs -> Releases]
        /\ StageStatus(d) /\ ReleaseStatus(d) /\ StatusMove(d)
    BY RunsIncluded, StatusMoves, NamesAssumption
       DEF TypeOK, RolloutTypeOK, Uncancelled, StatusInv, Containers
  <1>1. ASSUME NEW p \in Containers, previous'[p].dep = d, pc'[p] \in Underway
        PROVE  pc'[d] \in Over /\ rows'[d].status \in {"absent", "running"}
    <2>0. p \in Runs /\ p \notin Stops /\ StageStep(p) /\ PreviousStep(p)
      BY RunsIncluded, RunsAssumption, StagesStep, PreviousSteps
    <2>1. CASE pc[p] \in Underway
      <3>1. lock = p /\ ~Looking(p) /\ previous'[p] = previous[p]
        <4>1. ~Looking(p) /\ pc[p] \in Critical /\ pc'[p] \notin {"new", "done"}
          BY <1>1, <2>0, <2>1 DEF Looking, At, Underway, Critical
        <4> QED BY <2>0, <4>1 DEF PreviousStep, LockInv
      <3>2. pc[d] \in Over /\ rows[d].status \in {"absent", "running"}
        BY <1>0, <1>1, <2>1, <3>1 DEF ReleaseStatus
      <3>3. ASSUME NEW q \in Containers, At(q, "retire"), pc'[q] = "unwind" PROVE FALSE
        <4>1. q = p
          BY <3>1, <3>3, RunsIncluded DEF LockInv, At, Critical
        <4> QED BY <1>1, <3>3, <4>1 DEF Underway
      <3>4. ASSUME NEW s \in Stops, At(s, "stopRow") PROVE FALSE
        BY <2>0, <3>1, <3>4, RunsIncluded DEF LockInv, At, Critical
      <3>5. pc'[d] \in Over
        BY <1>0, <3>2, OverKept
      <3>6. ~Settled(d)
        BY <1>1, <2>1, <3>1 DEF Settled
      <3> QED BY <1>0, <3>2, <3>3, <3>4, <3>5, <3>6 DEF StatusMove, At, Over
    <2>2. CASE pc[p] \notin Underway
      <3>1. pc[p] = "snapshot" /\ pc'[p] = "start"
        BY <1>1, <2>0, <2>2 DEF StageStep, Flow, Underway
      <3>2. ReadActive(p)
        <4>1. Advanced(p)
          BY <2>0, <3>1, MovedBy DEF Crash, At
        <4> QED BY <3>1, <4>1, ReplaceActions DEF Advanced
      <3>3. previous'[p] = Snapshot(Active) /\ rows' = rows
        BY <1>0, <2>0, <3>1, <3>2 DEF ReadActive, To, FinishCancelled, IsBuild
      <3>4. rows[d].status = "running"
        <4>1. Active = None \/ (Active \in Deployments /\ rows[Active].status = "running")
          BY TypeFacts, ExtremesExist DEF Active, RunningRows
        <4> QED BY <1>0, <1>1, <3>3, <4>1 DEF Snapshot, NoRelease
      <3>5. pc[d] \in Over
        BY <2>0, <3>1, <3>4, ReleaseFound DEF Looking, At
      <3> QED BY <1>0, <3>3, <3>4, <3>5, OverKept
    <2> QED BY <2>1, <2>2
  <1>2. ASSUME NEW s \in Stops, previous'[s].dep = d, pc'[s] \in {"stopContainer", "stopRow"}
        PROVE  pc'[d] \in Over /\ rows'[d].status \in {"absent", "running", "failed"}
    <2>0. s \in Runs /\ s \notin Containers /\ StageStep(s) /\ PreviousStep(s)
      BY RunsIncluded, RunsAssumption, StagesStep, PreviousSteps
    <2>1. CASE pc[s] \in {"stopContainer", "stopRow"}
      <3>1. lock = s /\ previous'[s] = previous[s]
        BY <1>2, <2>0, <2>1 DEF PreviousStep, Looking, At, LockInv, Critical
      <3>2. pc[d] \in Over /\ rows[d].status \in {"absent", "running", "failed"}
        BY <1>0, <1>2, <2>1, <3>1 DEF ReleaseStatus
      <3>3. ASSUME NEW q \in Containers, At(q, "retire") PROVE FALSE
        BY <2>0, <3>1, <3>3, RunsIncluded DEF LockInv, At, Critical
      <3>4. ASSUME NEW q \in Stops, At(q, "stopRow"), pc'[q] \in {"stopApp", "unwind"} PROVE FALSE
        BY <1>2, <3>1, <3>4, RunsIncluded DEF LockInv, At, Critical
      <3>5. pc'[d] \in Over
        BY <1>0, <3>2, OverKept
      <3> QED BY <1>0, <3>2, <3>3, <3>4, <3>5 DEF StatusMove, At, Over
    <2>2. CASE pc[s] \notin {"stopContainer", "stopRow"}
      <3>1. pc[s] = "stopFind" /\ pc'[s] = "stopContainer"
        BY <1>2, <2>0, <2>2 DEF StageStep, Flow
      <3>2. StopFindRelease(s)
        <4>1. Advanced(s)
          BY <2>0, <3>1, MovedBy DEF Crash, At
        <4> QED BY <3>1, <4>1, StopActions DEF Advanced
      <3>3. rows' = rows /\ \E e \in {Active, LatestFailed} : previous'[s] = Snapshot(e)
        BY <1>0, <2>0, <3>1, <3>2 DEF StopFindRelease, To
      <3>4. rows[d].status \in {"running", "failed"}
        <4>1. Active = None \/ (Active \in Deployments /\ rows[Active].status = "running")
          BY TypeFacts, ExtremesExist DEF Active, RunningRows
        <4>2. LatestFailed = None \/ rows[LatestFailed].status = "failed"
          BY DEF LatestFailed
        <4> QED BY <1>0, <1>2, <3>3, <4>1, <4>2 DEF Snapshot, NoRelease
      <3>5. pc[d] \in Over
        BY <1>2, <2>0, <3>1, <3>4, ReleaseFound DEF Looking, At
      <3> QED BY <1>0, <3>3, <3>4, <3>5, OverKept
    <2> QED BY <2>1, <2>2
  <1>3. ASSUME NEW r \in Rollbacks, target'[r] = d, pc'[r] # "done"
        PROVE  pc'[d] \in Over /\ rows'[d].status \in Released \cup {"absent"}
    <2>1. CASE target'[r] = target[r]
      <3>0. pc[r] # "done"
        BY <1>3, StagesStep, RunsIncluded DEF StageStep, Flow
      <3>1. pc[d] \in Over /\ rows[d].status \in Released \cup {"absent"} /\ ~Settled(d)
        BY <1>0, <1>3, <2>1, <3>0 DEF ReleaseStatus, Settled
      <3>2. pc'[d] \in Over
        BY <1>0, <3>1, OverKept
      <3> QED BY <1>0, <3>1, <3>2 DEF StatusMove, At, Over, Released, Rollbackable
    <2>2. CASE rows[target'[r]].status \in Rollbackable /\ UNCHANGED rows
      <3>1. pc[d] \in Over
        BY <1>0, <1>3, <2>2 DEF StageStatus
      <3> QED BY <1>0, <1>3, <2>2, <3>1, OverKept DEF Released
    <2> QED BY <2>1, <2>2, TargetSteps DEF TargetStep
  <1> QED BY <1>1, <1>2, <1>3 DEF ReleaseStatus

LEMMA StatusInvariant ==
  Spec /\ [][~Intrusion]_vars => [](BootInv /\ Undisturbed /\ StatusInv)
  <1>1. Init => BootInv /\ Undisturbed /\ StatusInv
    <2> SUFFICES ASSUME Init PROVE BootInv /\ Undisturbed /\ StatusInv
      OBVIOUS
    <2>1. BootInv /\ Undisturbed
      BY RunsIncluded DEF Init, RolloutInit, StoreInit, BootInv, Undisturbed, Uncancelled, NoRow
    <2>2. ASSUME NEW d \in Uncancelled PROVE StageStatus(d)
      BY <2>2, RunsIncluded DEF Init, RolloutInit, StoreInit, Uncancelled, NoRow, StageStatus,
         Rollbackable, Unmarked, Built
    <2>3. ASSUME NEW d \in Uncancelled PROVE ReleaseStatus(d)
      BY <2>3, RunsIncluded, NamesAssumption DEF Init, RolloutInit, Uncancelled, NoRelease, ReleaseStatus,
         Containers, Underway
    <2> QED BY <2>1, <2>2, <2>3 DEF StatusInv
  <1>2. TypeOK /\ LockInv /\ BootInv /\ Undisturbed /\ StatusInv /\ [Next]_vars /\ [~Intrusion]_vars
          => (BootInv /\ Undisturbed /\ StatusInv)'
    <2> SUFFICES ASSUME TypeOK, LockInv, BootInv, Undisturbed, StatusInv, [Next]_vars, [~Intrusion]_vars
                 PROVE  (BootInv /\ Undisturbed /\ StatusInv)'
      OBVIOUS
    <2>1. ~Intrusion
      <3>1. ASSUME UNCHANGED vars PROVE ~Crash /\ rows' = rows
        BY <3>1 DEF vars, rolloutVars, environment, Crash, TypeOK, SystemAssumption
      <3> QED BY <3>1 DEF Intrusion
    <2>2. BootInv' /\ Undisturbed'
      BY BootStep, UndisturbedStep
    <2>3. ASSUME NEW d \in Uncancelled PROVE StageStatus(d)' /\ ReleaseStatus(d)'
      BY <2>1, StageStatusStep, ReleaseStatusStep
    <2> QED BY <2>2, <2>3 DEF StatusInv, Uncancelled
  <1> QED BY <1>1, <1>2, TypeInvariant, LockInvariant, PTL DEF Spec

(* The statuses of a deployment nobody cancels follow the diagram, for any *)
(* number of other deployments -- cancelled ones among them --, rollbacks, *)
(* stops, deletions, failing calls, lost replies, exits and crashes; what  *)
(* Intrusion names is excluded.                                            *)
THEOREM StatusesFollow ==
  Spec /\ [][~Intrusion]_vars =>
    [][\A d \in Uncancelled :
         rows'[d].status # rows[d].status
           => <<rows[d].status, rows'[d].status>> \in Transitions]_vars
  <1> DEFINE Follows(d) ==
        rows'[d].status # rows[d].status => <<rows[d].status, rows'[d].status>> \in Transitions
  <1>1. ASSUME TypeOK, BootInv, Undisturbed, StatusInv, [Next]_vars, ~Intrusion, NEW d \in Uncancelled
        PROVE  Follows(d)
    <2>1. StatusMove(d) /\ StageStatus(d) /\ rows[d].status \in Status
      BY <1>1, StatusMoves, TypeFacts DEF StatusInv, TypeOK, RolloutTypeOK, Rows, Row, Uncancelled
    <2>2. pc[d] = "new" => rows[d].status = "absent"
      BY <2>1 DEF StageStatus
    <2> QED BY <2>1, <2>2 DEF StatusMove, Settled, At, Transitions, Rollbackable
  <1>2. TypeOK /\ BootInv /\ Undisturbed /\ StatusInv /\ [Next]_vars /\ [~Intrusion]_vars
          => [\A d \in Uncancelled : Follows(d)]_vars
    BY <1>1
  <1> QED
    BY <1>2, TypeInvariant, StatusInvariant, PTL DEF Spec

(* The same for all deployments where nobody cancels.                      *)
THEOREM StatusesLegal ==
  ASSUME Cancels = {}
  PROVE  Spec /\ [][~Intrusion]_vars => LegalTransitions
  <1> DEFINE Follows(d) ==
        rows'[d].status # rows[d].status => <<rows[d].status, rows'[d].status>> \in Transitions
  <1>1. [\A d \in Uncancelled : Follows(d)]_vars => [\A d \in Deployments : Follows(d)]_vars
    BY DEF Uncancelled
  <1> QED BY <1>1, StatusesFollow, PTL DEF LegalTransitions
=============================================================================
