--------------------------- MODULE DeploymentStore ---------------------------
(***************************************************************************)
(* The PostgreSQL state one application's rollouts work on: its deployment *)
(* rows and its own row (store/postgres/deployment.go, app.go and          *)
(* sql/queries/deployment.sql).  Every statement is one operator that      *)
(* yields the rows after it; the modules above decide who runs it when.    *)
(*                                                                         *)
(* Deployments are numbered in created_at order.  A container stands for   *)
(* its Docker id and its host port together.                               *)
(*                                                                         *)
(* A definition that stands immediately above the one it varies, such as   *)
(* InsertedAsIdle above Inserted, is a faulty variant: the model does not  *)
(* use it, the properties are tried against it (see README).               *)
(***************************************************************************)
EXTENDS Naturals

CONSTANTS Deployments,  (* the deployments that may be created            *)
          Rollbacks,    (* the rollback requests that may be made         *)
          None          (* SQL NULL: no container, no deployment          *)

(* Each deployment and each rollback starts at most one container, which   *)
(* is named after it.                                                      *)
Containers == Deployments \cup Rollbacks

(* created_at orders the rows: any set of them has a newest and an oldest. *)
ASSUME DeploymentsAssumption ==
  /\ Deployments \subseteq Nat
  /\ \A ds \in SUBSET Deployments : ds # {} =>
       /\ \E d \in ds : \A e \in ds : e <= d
       /\ \E d \in ds : \A e \in ds : d <= e
ASSUME NamesAssumption ==
  /\ None \notin Containers
  /\ Deployments \cap Rollbacks = {}

VARIABLES rows,  (* the deployments table, one row per deployment         *)
          app    (* the application's row: its status, whether it has a   *)
                 (* public URL                                            *)

storeVars == <<rows, app>>

Cancellable == {"pending", "building", "cancel_requested"}
Rollbackable == {"superseded", "rolled_back", "stopped"}
Status == Cancellable \cup Rollbackable \cup {"absent", "running", "failed", "cancelled"}
AppStatus == {"idle", "running", "failed", "stopped", "deleted"}

Row == [status : Status, container : Containers \cup {None},
        candidate : Containers \cup {None}, cancelReq : BOOLEAN]

NoRow == [status |-> "absent", container |-> None, candidate |-> None, cancelReq |-> FALSE]

StoreTypeOK ==
  /\ rows \in [Deployments -> Row]
  /\ app \in [status : AppStatus, url : BOOLEAN]

StoreInit ==
  /\ rows = [d \in Deployments |-> NoRow]
  /\ app = [status |-> "idle", url |-> FALSE]

Exists(d) == rows[d].status # "absent"

-----------------------------------------------------------------------------
(* UPDATE deployments SET ... WHERE id = d: no row, no effect, no error. *)
Update(d, row) == IF Exists(d) THEN [rows EXCEPT ![d] = row] ELSE rows

(* CreateDeployment and its git variants: INSERT with the default status. *)
InsertedAsIdle(d) == [rows EXCEPT ![d] = [NoRow EXCEPT !.status = "idle"]]
Inserted(d) == [rows EXCEPT ![d] = [NoRow EXCEPT !.status = "pending"]]

(* UpdateDeploymentStatus: unconditional. *)
WithStatus(d, s) == Update(d, [rows[d] EXCEPT !.status = s])

(* RequestDeploymentCancel: only from a cancellable status. *)
CancelRequested(d) ==
  Update(d, [rows[d] EXCEPT !.status = "cancel_requested", !.cancelReq = TRUE])

(* MarkDeploymentCancelled: the same guard, but no row is no error. *)
MarkedUnguarded(d) ==
  Update(d, [rows[d] EXCEPT !.status = "cancelled", !.cancelReq = TRUE])

MarkedCancelled(d) ==
  IF rows[d].status \in Cancellable
    THEN Update(d, [rows[d] EXCEPT !.status = "cancelled", !.cancelReq = TRUE])
    ELSE rows

WithCandidate(d, c) == Update(d, [rows[d] EXCEPT !.candidate = c])

(* PromoteDeploymentCandidate: whatever the status was. *)
PromotedKeepingCandidate(d, c) ==
  Update(d, [rows[d] EXCEPT !.status = "running", !.container = c])

Promoted(d, c) ==
  Update(d, [rows[d] EXCEPT !.status = "running", !.container = c, !.candidate = None])

(* ListRunningDeployments and ListDeploymentCandidates. *)
RunningRows == {d \in Deployments : rows[d].status = "running"}
CandidateRows ==
  {d \in Deployments : Exists(d) /\ rows[d].candidate # None /\ rows[d].status # "running"}

(* GetActiveDeployment: the newest running row, None when there is none. *)
Newest(ds) == CHOOSE d \in ds : \A e \in ds : e <= d
Active == IF RunningRows = {} THEN None ELSE Newest(RunningRows)

(* What a caller keeps of a row it has read: id, container and port. *)
NoRelease == [dep |-> None, container |-> None]
Snapshot(d) == IF d = None THEN NoRelease ELSE [dep |-> d, container |-> rows[d].container]
Releases == [dep : Deployments \cup {None}, container : Containers \cup {None}]

(* The newest row, if it failed with a container: what StopApp falls back  *)
(* on (the first element of ListDeploymentsByApp).                         *)
LatestFailed ==
  LET created == {d \in Deployments : Exists(d)}
  IN  IF created = {} THEN None
      ELSE LET d == Newest(created)
           IN  IF rows[d].status = "failed" /\ rows[d].container # None THEN d ELSE None

(* apps.UpdateStatus and UpdatePublicURL; a deleted application has no row. *)
AppWith(status, url) ==
  IF app.status = "deleted" THEN app ELSE [status |-> status, url |-> url]
=============================================================================
