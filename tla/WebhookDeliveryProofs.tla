------------------------ MODULE WebhookDeliveryProofs ------------------------
(***************************************************************************)
(* What holds of webhook deliveries for any number of applications,        *)
(* deliveries, repeated requests, failures and crashes: an application is  *)
(* deployed at most once per push, the delivery table is true, and, when   *)
(* nothing fails, exactly the applications that follow the push are        *)
(* deployed.                                                               *)
(***************************************************************************)
EXTENDS WebhookDelivery, TLAPS

Made(d, app) == \E x \in deployments : x.delivery = d /\ x.app = app

Working(a) == pc[a] \in {"list", "deploy"}

(* The strengthening.  Whoever works on a delivery has claimed it and is   *)
(* the only one; what it has still to do has not been done; and nothing    *)
(* is deployed for a delivery nobody claimed.                              *)
ClaimInv ==
  /\ \A a \in Attempts : Working(a) =>
       /\ handling[a] \in Deliveries
       /\ deliveries[handling[a]] # "absent"
  /\ \A a, b \in Attempts : (Working(a) /\ Working(b) /\ handling[a] = handling[b]) => a = b
  /\ \A a \in Attempts, app \in Apps :
       (pc[a] = "list" \/ (pc[a] = "deploy" /\ app \in todo[a])) => ~Made(handling[a], app)
  /\ \A d \in Deliveries, app \in Apps : Made(d, app) => deliveries[d] # "absent"

IInv == TypeOK /\ ClaimInv /\ OncePerDelivery

(* Faults are counted up to their bound. *)
LEMMA FaultTyped ==
  ASSUME faults \in 0..MaxFaults, Fault \/ NoFault
  PROVE  faults' \in 0..MaxFaults
  BY WebhookAssumption DEF Fault, NoFault

(* A choice between the old and a new value. *)
LEMMA UncertainTyped ==
  ASSUME NEW S, NEW old \in S, NEW new \in S, NEW x \in Uncertain(old, new)
  PROVE  x \in S /\ (x = old \/ x = new)
  BY DEF Uncertain

LEMMA AttemptTyped ==
  ASSUME TypeOK, ClaimInv, NEW a \in Attempts, Handle(a) \/ (\E d \in Deliveries : Claim(a, d))
  PROVE  TypeOK'
  <1> USE DEF TypeOK, Works, Fails, Goto, CompleteAs
  <1>1. ASSUME NEW d \in Deliveries, Claim(a, d) PROVE TypeOK'
    <2>1. Claimed(d) \in [Deliveries -> {"absent", "received", "ignored", "accepted", "failed"}]
      BY DEF Claimed
    <2>2. deliveries' \in [Deliveries -> {"absent", "received", "ignored", "accepted", "failed"}]
      BY <1>1, <2>1, UncertainTyped DEF Claim
    <2>3. faults' \in 0..MaxFaults
      BY <1>1, FaultTyped DEF Claim, Fault, NoFault
    <2> QED BY <1>1, <2>2, <2>3 DEF Claim
  <1>2. ASSUME ListSources(a) PROVE TypeOK'
    <2>1. faults' \in 0..MaxFaults
      BY <1>2, FaultTyped DEF ListSources, Fault, NoFault
    <2> QED BY <1>2, <2>1 DEF ListSources, database
  <1>3. ASSUME DeployNext(a) PROVE TypeOK'
    <2>1. faults' \in 0..MaxFaults
      BY <1>3, FaultTyped DEF DeployNext, DeployFor, Fault, NoFault
    <2>2. PICK app \in todo[a] : DeployFor(a, app) /\ todo' = [todo EXCEPT ![a] = @ \ {app}]
      BY <1>3 DEF DeployNext
    <2> DEFINE new == [app |-> app, delivery |-> handling[a], by |-> a,
                       branch |-> push[handling[a]].branch]
    <2>3. app \in Apps /\ handling[a] \in Deliveries
      BY <1>3, <2>2 DEF ClaimInv, Working, DeployNext
    <2>4. new \in Deployment
      BY <2>3 DEF Deployment, Pushes
    <2>5. deployments \cup {new} \subseteq Deployment
      BY <2>4
    <2>6. deployments' = deployments \/ deployments' = deployments \cup {new}
      BY <2>2 DEF DeployFor, Uncertain
    <2>7. deployments' \subseteq Deployment
      BY <2>5, <2>6
    <2>8. todo' \in [Attempts -> SUBSET Apps] /\ started' \in [Attempts -> SUBSET Apps]
      BY <2>2, <2>3 DEF DeployFor
    <2> QED BY <1>3, <2>1, <2>7, <2>8 DEF DeployNext
  <1>4. ASSUME LoopDone(a) PROVE TypeOK'
    BY <1>4 DEF LoopDone, Verdict, database, counters
  <1>5. ASSUME Complete(a) PROVE TypeOK'
    <2>1. faults' \in 0..MaxFaults
      BY <1>5, FaultTyped DEF Complete, Fault, NoFault
    <2> QED BY <1>5, <2>1 DEF Complete, attempt
  <1> QED BY <1>1, <1>2, <1>3, <1>4, <1>5 DEF Handle, DeployNext

LEMMA UsersTyped ==
  ASSUME TypeOK, Reconfigure
  PROVE  TypeOK'
  <1> USE DEF TypeOK, attempt
  <1>1. PICK app \in Changing :
          \/ \E branch \in Branches : Configure(app, branch)
          \/ \E branch \in Branches, i \in Installations : ConfigureGitHubApp(app, i, branch)
          \/ DeleteSource(app) \/ CheckAutoDeploy(app) \/ EnableAutoDeploy(app)
          \/ DisableAutoDeploy(app)
    BY DEF Reconfigure
  <1>2. app \in Apps
    BY WebhookAssumption
  <1>3. changes' \in [Apps -> 0..MaxChanges]
    <2>1. ASSUME Change(app) PROVE changes' \in [Apps -> 0..MaxChanges]
      BY <2>1, <1>2, WebhookAssumption DEF Change
    <2> QED BY <1>1, <2>1 DEF Configure, ConfigureGitHubApp, DeleteSource, CheckAutoDeploy,
                              EnableAutoDeploy, DisableAutoDeploy
  <1>4. sources[app] \in Sources
    BY <1>2
  <1>5. ASSUME NEW access \in {"public", "github_app"}, NEW branch \in Branches,
               NEW i \in Installations \cup {None}
        PROVE  Upserted(app, access, branch, i) \in [Apps -> Sources]
    BY <1>2, <1>4 DEF Upserted, AutoKept, Sources
  <1>6. NoSource \in Sources
    BY DEF NoSource, Sources
  <1>7. ASSUME NEW on \in BOOLEAN PROVE [sources EXCEPT ![app].auto = on] \in [Apps -> Sources]
    BY <1>4, <1>2 DEF Sources
  <1>8. sources' \in [Apps -> Sources]
    <2>1. ASSUME NEW branch \in Branches, Configure(app, branch)
          PROVE  sources' \in [Apps -> Sources]
      BY <2>1, <1>5 DEF Configure
    <2>2. ASSUME NEW branch \in Branches, NEW i \in Installations,
                 ConfigureGitHubApp(app, i, branch)
          PROVE  sources' \in [Apps -> Sources]
      BY <2>2, <1>5 DEF ConfigureGitHubApp
    <2>3. CASE DeleteSource(app)
      BY <2>3, <1>6 DEF DeleteSource
    <2>4. CASE CheckAutoDeploy(app)
      BY <2>4 DEF CheckAutoDeploy
    <2>5. CASE EnableAutoDeploy(app)
      BY <2>5, <1>7 DEF EnableAutoDeploy
    <2>6. CASE DisableAutoDeploy(app)
      BY <2>6, <1>7 DEF DisableAutoDeploy
    <2> QED BY <1>1, <2>1, <2>2, <2>3, <2>4, <2>5, <2>6
  <1>9. enabling' \subseteq Apps
    BY <1>1, <1>2
       DEF Configure, ConfigureGitHubApp, DeleteSource, CheckAutoDeploy, EnableAutoDeploy,
           DisableAutoDeploy
  <1> QED BY <1>3, <1>8, <1>9 DEF Reconfigure

-----------------------------------------------------------------------------
(* Steps that leave the claims, the lists and the deployments alone, and   *)
(* move attempts nowhere but out of their work.                            *)
LEMMA ClaimsKept ==
  ASSUME ClaimInv, OncePerDelivery, UNCHANGED <<handling, todo, deployments>>,
         \A a \in Attempts : pc'[a] = pc[a] \/ ~Working(a)',
         \A d \in Deliveries : deliveries[d] # "absent" => deliveries'[d] # "absent"
  PROVE  ClaimInv' /\ OncePerDelivery'
  BY DEF ClaimInv, OncePerDelivery, Working, Made

LEMMA ClaimKeeps ==
  ASSUME IInv, NEW a \in Attempts, NEW d \in Deliveries, Claim(a, d)
  PROVE  ClaimInv' /\ OncePerDelivery'
  <1> USE DEF IInv, TypeOK, Goto, CompleteAs
  <1>1. \A e \in Deliveries : deliveries[e] # "absent" => deliveries'[e] # "absent"
    BY DEF Claim, Claimed, Uncertain
  <1>2. UNCHANGED <<todo, deployments>>
    BY DEF Claim
  <1>3. \A b \in Attempts : b # a => pc'[b] = pc[b] /\ handling'[b] = handling[b]
    BY DEF Claim
  <1>4. handling'[a] = d
    BY DEF Claim
  <1>5. CASE pc'[a] = "list"
    <2>1. deliveries[d] = "absent" /\ deliveries'[d] # "absent"
      BY <1>5 DEF Claim, Wins, Claimed
    <2>2. \A app \in Apps : ~Made(d, app)
      BY <2>1 DEF ClaimInv
    <2>3. \A b \in Attempts : Working(b) => handling[b] # d
      BY <2>1 DEF ClaimInv
    <2> QED BY <1>1, <1>2, <1>3, <1>4, <1>5, <2>1, <2>2, <2>3
            DEF ClaimInv, OncePerDelivery, Working, Made
  <1>6. CASE pc'[a] # "list"
    <2>1. ~Working(a)'
      BY <1>6 DEF Claim, Working
    <2> QED BY <1>1, <1>2, <1>3, <2>1 DEF ClaimInv, OncePerDelivery, Working, Made
  <1> QED BY <1>5, <1>6

LEMMA DeployKeeps ==
  ASSUME IInv, NEW a \in Attempts, DeployNext(a)
  PROVE  ClaimInv' /\ OncePerDelivery'
  <1>1. PICK app \in todo[a] : DeployFor(a, app) /\ todo' = [todo EXCEPT ![a] = @ \ {app}]
    BY DEF DeployNext
  <1> DEFINE d == handling[a]
             MadeNow(e, other) == \E x \in deployments' : x.delivery = e /\ x.app = other
             new == [app |-> app, delivery |-> d, by |-> a, branch |-> push[d].branch]
  <1>2. /\ pc[a] = "deploy" /\ app \in Apps /\ d \in Deliveries
        /\ deliveries[d] # "absent" /\ ~Made(d, app)
    BY <1>1 DEF DeployNext, IInv, TypeOK, ClaimInv, Working
  <1>3. deployments' = deployments \/ deployments' = deployments \cup {new}
    BY <1>1 DEF DeployFor, Uncertain
  <1>4. \A e \in Deliveries, other \in Apps :
          MadeNow(e, other) => Made(e, other) \/ (e = d /\ other = app)
    BY <1>3 DEF Made
  <1>5. todo' = [todo EXCEPT ![a] = @ \ {app}]
    BY <1>1
  <1>6. UNCHANGED <<deliveries, pc, handling>>
    BY DEF DeployNext
  <1>7. \A x \in deployments : ~(x.delivery = d /\ x.app = app)
    BY <1>2 DEF Made
  <1>8. OncePerDelivery'
    BY <1>3, <1>7 DEF OncePerDelivery, IInv
  <1>9. ClaimInv'
    <2>1. \A b \in Attempts, other \in Apps :
            (pc'[b] = "list" \/ (pc'[b] = "deploy" /\ other \in todo'[b]))
              => ~MadeNow(handling[b], other)
      <3> SUFFICES ASSUME NEW b \in Attempts, NEW other \in Apps,
                          pc[b] = "list" \/ (pc[b] = "deploy" /\ other \in todo'[b])
                   PROVE  ~MadeNow(handling[b], other)
        BY <1>6
      <3>1. todo'[b] \subseteq todo[b]
        BY <1>5 DEF IInv, TypeOK
      <3>2. ~Made(handling[b], other) /\ handling[b] \in Deliveries
        BY <3>1 DEF IInv, ClaimInv, Working
      <3>3. handling[b] = d => b = a
        BY <1>2 DEF IInv, ClaimInv, Working
      <3>4. app \notin todo'[a]
        BY <1>5 DEF IInv, TypeOK
      <3> QED BY <1>2, <1>4, <3>2, <3>3, <3>4
    <2>2. \A e \in Deliveries, other \in Apps : MadeNow(e, other) => deliveries'[e] # "absent"
      BY <1>2, <1>4, <1>6 DEF IInv, ClaimInv
    <2>3. \A b \in Attempts : Working(b)' <=> Working(b)
      BY <1>6 DEF Working
    <2>4. \A b \in Attempts : handling'[b] = handling[b]
      BY <1>6
    <2>5. \A b \in Attempts : Working(b) =>
            handling[b] \in Deliveries /\ deliveries'[handling[b]] # "absent"
      BY <1>6 DEF IInv, ClaimInv
    <2>6. \A b, c \in Attempts :
            (Working(b) /\ Working(c) /\ handling[b] = handling[c]) => b = c
      BY DEF IInv, ClaimInv
    <2>7. \A e, other : Made(e, other)' <=> MadeNow(e, other)
      BY DEF Made
    <2> HIDE DEF MadeNow
    <2> QED BY <2>1, <2>2, <2>3, <2>4, <2>5, <2>6, <2>7, <1>6 DEF ClaimInv, Working, Made
  <1> QED BY <1>8, <1>9

LEMMA HandleKeeps ==
  ASSUME IInv, NEW a \in Attempts, Handle(a)
  PROVE  ClaimInv' /\ OncePerDelivery'
  <1> USE DEF IInv, TypeOK, Goto, CompleteAs
  <1>1. CASE ListSources(a)
    <2>1. UNCHANGED <<deliveries, deployments, handling>>
      BY <1>1 DEF ListSources, database
    <2>2. \A b \in Attempts : b # a => pc'[b] = pc[b] /\ todo'[b] = todo[b]
      BY <1>1 DEF ListSources
    <2>3. pc[a] = "list" /\ pc'[a] \in {"deploy", "complete"}
      BY <1>1 DEF ListSources
    <2>4. \A app \in Apps : ~Made(handling[a], app)
      BY <2>3 DEF ClaimInv
    <2> QED BY <2>1, <2>2, <2>3, <2>4 DEF ClaimInv, OncePerDelivery, Working, Made
  <1>2. CASE DeployNext(a)
    BY <1>2, DeployKeeps
  <1>3. CASE LoopDone(a)
    <2>1. /\ UNCHANGED <<handling, todo, deployments, deliveries>>
          /\ \A b \in Attempts : pc'[b] = pc[b] \/ ~Working(b)'
      BY <1>3 DEF LoopDone, database, Working
    <2> QED BY <2>1, ClaimsKept
  <1>4. CASE Complete(a)
    <2>1. \A d \in Deliveries : deliveries[d] # "absent" => deliveries'[d] # "absent"
      BY <1>4 DEF Complete
    <2>2. /\ UNCHANGED <<handling, todo, deployments>>
          /\ \A b \in Attempts : pc'[b] = pc[b] \/ ~Working(b)'
      BY <1>4 DEF Complete, attempt, Working
    <2> QED BY <2>1, <2>2, ClaimsKept
  <1> QED BY <1>1, <1>2, <1>3, <1>4 DEF Handle

-----------------------------------------------------------------------------
LEMMA Invariant == Spec => []IInv
  <1>1. Init => IInv
    <2> SUFFICES ASSUME Init PROVE IInv
      OBVIOUS
    <2>1. TypeOK
      <3>1. sources \in [Apps -> Sources]
        <4> DEFINE Following == [access : {"github_app"}, branch : Branches,
                                 installation : Installations, auto : {TRUE}]
        <4>1. sources \in [Apps -> {NoSource} \cup Following]
          BY DEF Init
        <4>2. \A x \in Following : x \in Sources
          BY DEF Sources
        <4>3. NoSource \in Sources
          BY DEF Sources, NoSource
        <4> HIDE DEF Following
        <4> QED BY <4>1, <4>2, <4>3
      <3> QED BY <3>1, WebhookAssumption DEF Init, TypeOK
    <2>2. ClaimInv /\ OncePerDelivery
      BY DEF Init, ClaimInv, OncePerDelivery, Working, Made
    <2> QED BY <2>1, <2>2 DEF IInv
  <1>2. IInv /\ [Next]_vars => IInv'
    <2> SUFFICES ASSUME IInv, [Next]_vars PROVE IInv'
      OBVIOUS
    <2>1. ASSUME NEW a \in Attempts, NEW d \in Deliveries, Claim(a, d) PROVE IInv'
      BY <2>1, AttemptTyped, ClaimKeeps DEF IInv
    <2>2. ASSUME NEW a \in Attempts, Handle(a) PROVE IInv'
      BY <2>2, AttemptTyped, HandleKeeps DEF IInv
    <2>3. ASSUME NEW a \in Attempts, Disconnect(a) PROVE IInv'
      <3>1. faults' \in 0..MaxFaults
        BY <2>3, FaultTyped DEF Disconnect, IInv, TypeOK
      <3>2. TypeOK'
        BY <2>3, <3>1 DEF Disconnect, IInv, TypeOK, database, attempt
      <3> QED BY <2>3, <3>2, ClaimsKept DEF Disconnect, IInv, database, attempt
    <2>4. ASSUME Reconfigure PROVE IInv'
      <3>1. TypeOK'
        BY <2>4, UsersTyped DEF IInv
      <3> QED BY <2>4, <3>1, ClaimsKept DEF Reconfigure, IInv, attempt
    <2>5. ASSUME Crash PROVE IInv'
      <3>1. TypeOK'
        BY <2>5, WebhookAssumption DEF Crash, IInv, TypeOK, database, attempt
      <3>2. \A a \in Attempts : pc'[a] = pc[a] \/ ~Working(a)'
        BY <2>5 DEF Crash, IInv, TypeOK, Working
      <3> QED BY <2>5, <3>1, <3>2, ClaimsKept DEF Crash, IInv, database, attempt
    <2>6. ASSUME UNCHANGED vars PROVE IInv'
      BY <2>6 DEF vars, database, attempt, counters, IInv, TypeOK, ClaimInv, OncePerDelivery,
                  Working, Made
    <2> QED BY <2>1, <2>2, <2>3, <2>4, <2>5, <2>6 DEF Next, Rest
  <1> QED BY <1>1, <1>2, PTL DEF Spec

(* The state stays well typed; in particular a delivery's status is one    *)
(* the CHECK constraint of its table admits.                               *)
THEOREM TypeCorrect == Spec => []TypeOK
  <1>1. IInv => TypeOK
    BY DEF IInv
  <1> QED BY <1>1, Invariant, PTL

(* However many requests carry a delivery, and whatever fails, crashes or  *)
(* is reconfigured between their steps, no application gets two            *)
(* deployments from it.                                                    *)
THEOREM DeployedOnce == Spec => []OncePerDelivery
  <1>1. IInv => OncePerDelivery
    BY DEF IInv
  <1> QED BY <1>1, Invariant, PTL

-----------------------------------------------------------------------------
(* RecordIsTrue.  A request between its claim and its completion owns the  *)
(* received row, and no other request does.  The set of applications it    *)
(* started, and then its verdict, agree with the deployments: always in    *)
(* one direction, and in the other as long as no reply was lost.           *)
Busy(a) == pc[a] \in {"list", "deploy", "complete"}
MadeAny(d) == \E x \in deployments : x.delivery = d

ReceivedInv ==
  /\ \A a \in Attempts : Busy(a) =>
       handling[a] \in Deliveries /\ deliveries[handling[a]] = "received"
  /\ \A a, b \in Attempts : (Busy(a) /\ Busy(b) /\ handling[a] = handling[b]) => a = b

TallyInv ==
  /\ \A a \in Attempts : pc[a] \in {"new", "list"} => started[a] = {}
  /\ \A a \in Attempts : pc[a] = "deploy" =>
       /\ started[a] # {} => MadeAny(handling[a])
       /\ (faults = 0 /\ MadeAny(handling[a])) => started[a] # {}
  /\ \A a \in Attempts : pc[a] = "complete" =>
       /\ outcome[a] = "accepted" => MadeAny(handling[a])
       /\ (faults = 0 /\ MadeAny(handling[a])) => outcome[a] = "accepted"

GoneInv == ctxDone # {} => faults > 0

RecordInv == ReceivedInv /\ TallyInv /\ RecordIsTrue /\ GoneInv

(* No failing call so far: the client is there, and the call works.        *)
LEMMA Calm ==
  ASSUME TypeOK, GoneInv, NEW a \in Attempts, faults' = 0
  PROVE  /\ Works(a) \/ Fails(a) => faults = 0
         /\ ~Fails(a)
         /\ ~Fault
  BY DEF TypeOK, GoneInv, Works, Fails, Fault, NoFault

(* Nothing takes a failure back. *)
LEMMA FaultsGrow ==
  ASSUME TypeOK, Next
  PROVE  faults \in Nat /\ faults' \in Nat /\ faults' >= faults
  <1>1. faults \in Nat
    BY WebhookAssumption DEF TypeOK
  <1>2. ASSUME Fault \/ NoFault PROVE faults' \in Nat /\ faults' >= faults
    BY <1>1, <1>2 DEF Fault, NoFault
  <1>3. Fault \/ NoFault
    <2>1. ASSUME NEW a \in Attempts, NEW d \in Deliveries, Claim(a, d) PROVE Fault \/ NoFault
      BY <2>1 DEF Claim, Works, Fails
    <2>2. ASSUME NEW a \in Attempts, Handle(a) \/ Disconnect(a) PROVE Fault \/ NoFault
      BY <2>2 DEF Handle, ListSources, DeployNext, DeployFor, LoopDone, Complete, Disconnect,
                  Works, Fails, counters, NoFault
    <2> QED BY <2>1, <2>2 DEF Next, Reconfigure, Crash, Rest, vars, counters, NoFault
  <1> QED BY <1>1, <1>2, <1>3

LEMMA GoneKept ==
  ASSUME TypeOK, GoneInv, Next
  PROVE  GoneInv'
  <1>1. faults \in Nat /\ faults' \in Nat /\ faults' >= faults
    BY FaultsGrow
  <1>2. ASSUME UNCHANGED ctxDone PROVE GoneInv'
    BY <1>1, <1>2 DEF GoneInv
  <1>3. ASSUME NEW a \in Attempts, Disconnect(a) PROVE GoneInv'
    BY <1>1, <1>3 DEF GoneInv, Disconnect, Fault
  <1>4. ASSUME NEW a \in Attempts, NEW d \in Deliveries, Claim(a, d) PROVE UNCHANGED ctxDone
    BY <1>4 DEF Claim
  <1>5. ASSUME NEW a \in Attempts, Handle(a) PROVE UNCHANGED ctxDone
    BY <1>5 DEF Handle, ListSources, DeployNext, LoopDone, Complete
  <1>6. ASSUME Reconfigure \/ Crash \/ Rest PROVE UNCHANGED ctxDone
    BY <1>6 DEF Reconfigure, Crash, Rest, vars
  <1> QED BY <1>2, <1>3, <1>4, <1>5, <1>6 DEF Next

(* Steps of others: no row, no deployment and no working request changes.  *)
LEMMA RecordKept ==
  ASSUME TypeOK, RecordInv, faults' >= faults, faults' \in Nat,
         UNCHANGED <<deliveries, deployments, handling, started, outcome>>,
         \A a \in Attempts : pc'[a] = pc[a] \/ pc'[a] = "done"
  PROVE  ReceivedInv' /\ TallyInv' /\ RecordIsTrue'
  <1>1. faults' = 0 => faults = 0
    BY WebhookAssumption DEF TypeOK
  <1>2. ReceivedInv'
    BY DEF RecordInv, ReceivedInv, Busy
  <1>3. \A d : MadeAny(d)' <=> MadeAny(d)
    BY DEF MadeAny
  <1>4. TallyInv'
    BY <1>1, <1>3 DEF RecordInv, TallyInv
  <1>5. RecordIsTrue'
    BY <1>1 DEF RecordInv, RecordIsTrue
  <1> QED BY <1>2, <1>4, <1>5

LEMMA RecordAfterClaim ==
  ASSUME IInv, RecordInv, NEW a \in Attempts, NEW d \in Deliveries, Claim(a, d)
  PROVE  ReceivedInv' /\ TallyInv' /\ RecordIsTrue'
  <1> USE DEF IInv, TypeOK, Goto, CompleteAs
  <1>1. /\ UNCHANGED <<deployments, started>>
        /\ \A b \in Attempts : b # a =>
             pc'[b] = pc[b] /\ handling'[b] = handling[b] /\ outcome'[b] = outcome[b]
        /\ handling'[a] = d /\ pc[a] = "new"
    BY DEF Claim
  <1>2. faults' = 0 => faults = 0
    <2>1. Fault \/ NoFault
      BY DEF Claim, Works, Fails
    <2> QED BY <2>1, WebhookAssumption DEF Fault, NoFault
  <1>3. \A e \in Deliveries : deliveries'[e] = deliveries[e]
                              \/ (e = d /\ deliveries[e] = "absent" /\ deliveries'[e] = "received")
    BY DEF Claim, Claimed, Uncertain
  <1>4. \A e : MadeAny(e)' <=> MadeAny(e)
    BY <1>1 DEF MadeAny
  <1>5. RecordIsTrue'
    BY <1>1, <1>2, <1>3 DEF RecordInv, RecordIsTrue
  <1>6. started[a] = {}
    BY <1>1 DEF RecordInv, TallyInv
  <1>7. CASE pc'[a] = "done"
    <2>1. ReceivedInv'
      BY <1>1, <1>3, <1>7 DEF RecordInv, ReceivedInv, Busy
    <2>2. TallyInv'
      BY <1>1, <1>2, <1>4, <1>7 DEF RecordInv, TallyInv
    <2> QED BY <1>5, <2>1, <2>2
  <1>8. CASE pc'[a] # "done"
    <2>1. /\ deliveries[d] = "absent" /\ deliveries'[d] = "received"
          /\ \/ pc'[a] = "list"
             \/ pc'[a] = "complete" /\ outcome'[a] = "ignored"
      BY <1>8 DEF Claim, Wins, Claimed
    <2>2. ~MadeAny(d)
      BY <2>1 DEF RecordInv, RecordIsTrue, MadeAny
    <2>3. \A b \in Attempts : Busy(b) => handling[b] # d
      BY <2>1 DEF RecordInv, ReceivedInv
    <2>4. ReceivedInv'
      BY <1>1, <1>3, <2>1, <2>3 DEF RecordInv, ReceivedInv, Busy
    <2>5. TallyInv'
      BY <1>1, <1>2, <1>4, <1>6, <2>1, <2>2 DEF RecordInv, TallyInv
    <2> QED BY <1>5, <2>4, <2>5
  <1> QED BY <1>7, <1>8

LEMMA RecordAfterDeploy ==
  ASSUME IInv, RecordInv, NEW a \in Attempts, DeployNext(a)
  PROVE  ReceivedInv' /\ TallyInv' /\ RecordIsTrue'
  <1>1. PICK app \in todo[a] : DeployFor(a, app)
    BY DEF DeployNext
  <1> DEFINE d == handling[a]
             new == [app |-> app, delivery |-> d, by |-> a, branch |-> push[d].branch]
  <1>2. /\ pc[a] = "deploy" /\ d \in Deliveries /\ deliveries[d] = "received"
        /\ UNCHANGED <<deliveries, pc, handling, outcome>>
    BY DEF DeployNext, RecordInv, ReceivedInv, Busy
  <1>3. \/ /\ Works(a) /\ deployments' = deployments \cup {new}
           /\ started' = [started EXCEPT ![a] = @ \cup {app}]
        \/ /\ Fails(a) /\ deployments' \in {deployments, deployments \cup {new}}
           /\ UNCHANGED started
    BY <1>1 DEF DeployFor, Uncertain
  <1>4. new.delivery = d
    OBVIOUS
  <1> HIDE DEF new
  <1>5. ReceivedInv'
    BY <1>2 DEF RecordInv, ReceivedInv, Busy
  <1>6. \A e : (MadeAny(e) => MadeAny(e)') /\ (MadeAny(e)' => MadeAny(e) \/ e = d)
    BY <1>3, <1>4 DEF MadeAny
  <1>7. faults' = 0 => faults = 0 /\ Works(a)
    BY <1>3, Calm DEF IInv, RecordInv
  <1>8. \A b \in Attempts : b # a => started'[b] = started[b]
    BY <1>3 DEF IInv, TypeOK
  <1>9. (Works(a) /\ ~Fails(a)) => started'[a] # {}
    BY <1>3 DEF IInv, TypeOK
  <1>10. started'[a] # {} => MadeAny(d)'
    <2>1. CASE Works(a) /\ deployments' = deployments \cup {new}
      <3>1. \E x \in deployments' : x.delivery = d
        BY <2>1, <1>4
      <3>2. d' = d
        BY <1>2
      <3> QED BY <3>1, <3>2 DEF MadeAny
    <2>2. CASE UNCHANGED started
      BY <2>2, <1>2, <1>6 DEF RecordInv, TallyInv
    <2> QED BY <1>3, <2>1, <2>2
  <1>11. \A b \in Attempts : (Busy(b) /\ b # a) => handling[b] # d
    BY <1>2 DEF RecordInv, ReceivedInv, Busy
  <1>12. faults' = 0 => started'[a] # {}
    BY <1>7, <1>9, Calm DEF IInv, RecordInv
  <1>13. \A b \in Attempts : pc'[b] = pc[b] /\ handling'[b] = handling[b] /\ outcome'[b] = outcome[b]
    BY <1>2
  <1>14. TallyInv'
    <2>1. \A b \in Attempts : pc'[b] \in {"new", "list"} => started'[b] = {}
      BY <1>2, <1>8, <1>13 DEF RecordInv, TallyInv
    <2>2. \A b \in Attempts : pc'[b] = "deploy" =>
            /\ started'[b] # {} => MadeAny(handling[b])'
            /\ (faults' = 0 /\ MadeAny(handling[b])') => started'[b] # {}
      <3> SUFFICES ASSUME NEW b \in Attempts, pc[b] = "deploy", b # a
                   PROVE  /\ started'[b] # {} => MadeAny(handling[b])'
                          /\ (faults' = 0 /\ MadeAny(handling[b])') => started'[b] # {}
        BY <1>2, <1>10, <1>12, <1>13
      <3>1. handling[b] # d
        BY <1>11 DEF Busy
      <3>2. MadeAny(handling[b])' => MadeAny(handling[b])
        BY <1>6, <1>13, <3>1 DEF MadeAny
      <3>3. MadeAny(handling[b]) => MadeAny(handling[b])'
        BY <1>6, <1>13 DEF MadeAny
      <3> QED BY <1>7, <1>8, <3>2, <3>3 DEF RecordInv, TallyInv
    <2>3. \A b \in Attempts : pc'[b] = "complete" =>
            /\ outcome'[b] = "accepted" => MadeAny(handling[b])'
            /\ (faults' = 0 /\ MadeAny(handling[b])') => outcome'[b] = "accepted"
      <3> SUFFICES ASSUME NEW b \in Attempts, pc[b] = "complete"
                   PROVE  /\ outcome[b] = "accepted" => MadeAny(handling[b])'
                          /\ (faults' = 0 /\ MadeAny(handling[b])') => outcome[b] = "accepted"
        BY <1>13
      <3>1. b # a /\ handling[b] # d
        BY <1>2, <1>11 DEF Busy
      <3>2. MadeAny(handling[b])' => MadeAny(handling[b])
        BY <1>6, <1>13, <3>1 DEF MadeAny
      <3>3. MadeAny(handling[b]) => MadeAny(handling[b])'
        BY <1>6, <1>13 DEF MadeAny
      <3> QED BY <1>7, <3>2, <3>3 DEF RecordInv, TallyInv
    <2> QED BY <2>1, <2>2, <2>3, <1>13 DEF TallyInv, MadeAny
  <1>15. RecordIsTrue'
    <2> SUFFICES ASSUME NEW e \in Deliveries
                 PROVE  /\ deliveries[e] = "accepted" => MadeAny(e)'
                        /\ deliveries[e] = "absent" => ~MadeAny(e)'
                        /\ (deliveries[e] \in {"ignored", "failed"} /\ faults' = 0) => ~MadeAny(e)'
      BY <1>2 DEF RecordIsTrue, MadeAny
    <2>1. /\ deliveries[e] = "accepted" => MadeAny(e)
          /\ deliveries[e] = "absent" => ~MadeAny(e)
          /\ (deliveries[e] \in {"ignored", "failed"} /\ faults = 0) => ~MadeAny(e)
      BY DEF RecordInv, RecordIsTrue, MadeAny
    <2> QED BY <2>1, <1>2, <1>6, <1>7
  <1> QED BY <1>5, <1>14, <1>15

LEMMA RecordAfterHandle ==
  ASSUME IInv, RecordInv, NEW a \in Attempts, Handle(a)
  PROVE  ReceivedInv' /\ TallyInv' /\ RecordIsTrue'
  <1> USE DEF IInv, TypeOK, Goto, CompleteAs
  <1>1. ASSUME ListSources(a) PROVE ReceivedInv' /\ TallyInv' /\ RecordIsTrue'
    <2>1. /\ UNCHANGED <<deliveries, deployments, handling, started>>
          /\ \A b \in Attempts : b # a => pc'[b] = pc[b] /\ outcome'[b] = outcome[b]
          /\ pc[a] = "list"
          /\ pc'[a] = "deploy" \/ (pc'[a] = "complete" /\ outcome'[a] = "failed")
      BY <1>1 DEF ListSources, database
    <2>2. faults' = 0 => faults = 0
      BY <1>1, Calm DEF ListSources, RecordInv
    <2>3. started[a] = {} /\ ~MadeAny(handling[a])
      <3>1. handling[a] \in Deliveries /\ \A x \in deployments : x.app \in Apps
        BY <2>1 DEF RecordInv, ReceivedInv, Busy, Deployment
      <3> QED BY <2>1, <3>1 DEF RecordInv, TallyInv, ClaimInv, Made, MadeAny
    <2>4. \A d : MadeAny(d)' <=> MadeAny(d)
      BY <2>1 DEF MadeAny
    <2>5. ReceivedInv'
      BY <2>1 DEF RecordInv, ReceivedInv, Busy
    <2>6. TallyInv'
      BY <2>1, <2>2, <2>3, <2>4 DEF RecordInv, TallyInv
    <2>7. RecordIsTrue'
      BY <2>1, <2>2 DEF RecordInv, RecordIsTrue
    <2> QED BY <2>5, <2>6, <2>7
  <1>2. ASSUME LoopDone(a) PROVE ReceivedInv' /\ TallyInv' /\ RecordIsTrue'
    <2>1. /\ UNCHANGED <<deliveries, deployments, handling, started, faults>>
          /\ \A b \in Attempts : b # a => pc'[b] = pc[b] /\ outcome'[b] = outcome[b]
          /\ pc[a] = "deploy" /\ pc'[a] = "complete"
          /\ outcome'[a] = IF started[a] = {} THEN "ignored" ELSE "accepted"
      BY <1>2 DEF LoopDone, database, counters, Verdict
    <2>2. \A d : MadeAny(d)' <=> MadeAny(d)
      BY <2>1 DEF MadeAny
    <2>3. ReceivedInv'
      BY <2>1 DEF RecordInv, ReceivedInv, Busy
    <2>4. TallyInv'
      BY <2>1, <2>2 DEF RecordInv, TallyInv
    <2>5. RecordIsTrue'
      BY <2>1 DEF RecordInv, RecordIsTrue
    <2> QED BY <2>3, <2>4, <2>5
  <1>3. ASSUME Complete(a) PROVE ReceivedInv' /\ TallyInv' /\ RecordIsTrue'
    <2> DEFINE d == handling[a]
    <2>1. /\ UNCHANGED <<deployments, handling, started, outcome>>
          /\ \A b \in Attempts : b # a => pc'[b] = pc[b]
          /\ pc[a] = "complete" /\ pc'[a] = "done"
          /\ deliveries' = deliveries \/ deliveries' = [deliveries EXCEPT ![d] = outcome[a]]
      BY <1>3 DEF Complete, attempt
    <2>2. faults' = 0 => faults = 0
      BY <1>3, Calm DEF Complete, RecordInv, NoFault, Fault
    <2>3. /\ d \in Deliveries /\ deliveries[d] = "received"
          /\ \A b \in Attempts : (Busy(b) /\ b # a) => handling[b] # d
      BY <2>1 DEF RecordInv, ReceivedInv, Busy
    <2>4. /\ outcome[a] = "accepted" => MadeAny(d)
          /\ (faults = 0 /\ MadeAny(d)) => outcome[a] = "accepted"
      BY <2>1 DEF RecordInv, TallyInv
    <2>5. /\ \A e \in Deliveries : deliveries'[e] = deliveries[e] \/ (e = d /\ deliveries'[e] = outcome[a])
          /\ outcome[a] # "absent"
      BY <2>1
    <2>6. \A e : MadeAny(e)' <=> MadeAny(e)
      BY <2>1 DEF MadeAny
    <2> HIDE DEF d
    <2>7. ReceivedInv'
      BY <2>1, <2>3, <2>5 DEF RecordInv, ReceivedInv, Busy
    <2>8. TallyInv'
      BY <2>1, <2>2, <2>6 DEF RecordInv, TallyInv
    <2>9. RecordIsTrue'
      BY <2>1, <2>2, <2>4, <2>5 DEF RecordInv, RecordIsTrue, MadeAny
    <2> QED BY <2>7, <2>8, <2>9
  <1> QED BY <1>1, <1>2, <1>3, RecordAfterDeploy DEF Handle

LEMMA RecordInvariant == Spec => []RecordInv
  <1>1. Init => RecordInv
    BY DEF Init, RecordInv, ReceivedInv, TallyInv, RecordIsTrue, GoneInv, Busy, MadeAny
  <1>2. IInv /\ RecordInv /\ [Next]_vars => RecordInv'
    <2> SUFFICES ASSUME IInv, RecordInv, [Next]_vars PROVE RecordInv'
      OBVIOUS
    <2>1. CASE UNCHANGED vars
      BY <2>1 DEF vars, attempt, database, counters, RecordInv, ReceivedInv, TallyInv, RecordIsTrue,
                  GoneInv, Busy, MadeAny
    <2>2. CASE Next
      <3>1. GoneInv' /\ faults' >= faults /\ faults' \in Nat
        BY <2>2, GoneKept, FaultsGrow DEF IInv, RecordInv
      <3>2. ASSUME NEW a \in Attempts, NEW d \in Deliveries, Claim(a, d) PROVE RecordInv'
        BY <3>1, <3>2, RecordAfterClaim DEF RecordInv
      <3>3. ASSUME NEW a \in Attempts, Handle(a) PROVE RecordInv'
        BY <3>1, <3>3, RecordAfterHandle DEF RecordInv
      <3>4. ASSUME (\E a \in Attempts : Disconnect(a)) \/ Reconfigure \/ Crash \/ Rest
            PROVE  RecordInv'
        <4>1. /\ UNCHANGED <<deliveries, deployments, handling, started, outcome>>
              /\ \A a \in Attempts : pc'[a] = pc[a] \/ pc'[a] = "done"
          BY <3>4 DEF Disconnect, Reconfigure, Crash, Rest, vars, database, attempt, IInv, TypeOK
        <4> QED BY <3>1, <4>1, RecordKept DEF IInv, RecordInv
      <3> QED BY <2>2, <3>2, <3>3, <3>4 DEF Next
    <2> QED BY <2>1, <2>2
  <1> QED BY <1>1, <1>2, Invariant, PTL DEF Spec

(* The delivery table tells the truth about what was deployed, at every    *)
(* moment and for any number of deliveries, requests, failing calls, lost  *)
(* replies and crashes.                                                    *)
THEOREM TableIsTrue == Spec => []RecordIsTrue
  <1>1. RecordInv => RecordIsTrue
    BY DEF RecordInv
  <1> QED BY <1>1, RecordInvariant, PTL

-----------------------------------------------------------------------------
(* DeploysFollowers.  As long as nothing has failed, a request that is in  *)
(* its loop has done, or still lists, exactly what its delivery owes; a    *)
(* claimed delivery nobody works on any more owes nothing.  What is owed   *)
(* to an application nobody reconfigures does not change.                  *)
Owed(d, app) ==
  /\ push[d].tracked
  /\ sources[app] = [access |-> "github_app", branch |-> push[d].branch,
                     installation |-> push[d].installation, auto |-> TRUE]

Undisturbed == faults = 0 /\ crashes = 0

EnablingInv == \A app \in enabling : changes[app] # 0

LoopInv ==
  /\ \A a \in Attempts : Working(a) => push[handling[a]].tracked
  /\ \A a \in Attempts, app \in Apps : (pc[a] = "deploy" /\ changes[app] = 0) =>
       (Owed(handling[a], app) <=> (Made(handling[a], app) \/ app \in todo[a]))
  /\ \A d \in Deliveries, app \in Apps :
       (/\ deliveries[d] # "absent" /\ changes[app] = 0
        /\ \A a \in Attempts : Working(a) => handling[a] # d)
         => (Owed(d, app) <=> Made(d, app))

FollowInv == EnablingInv /\ (Undisturbed => LoopInv)

(* The loop lists an application exactly if it is owed a deployment. *)
LEMMA FollowsIsOwed ==
  ASSUME TypeOK, NEW d \in Deliveries, NEW app \in Apps, push[d].tracked
  PROVE  Follows(sources[app], push[d]) <=> Owed(d, app)
  <1>1. sources[app] \in Sources
    BY DEF TypeOK
  <1>2. sources[app] = [access |-> sources[app].access, branch |-> sources[app].branch,
                        installation |-> sources[app].installation, auto |-> sources[app].auto]
        /\ sources[app].auto \in BOOLEAN
    BY <1>1 DEF Sources
  <1>3. ASSUME Follows(sources[app], push[d]) PROVE Owed(d, app)
    <2>1. /\ sources[app].access = "github_app" /\ sources[app].branch = push[d].branch
          /\ sources[app].installation = push[d].installation /\ sources[app].auto = TRUE
      BY <1>2, <1>3, Zenon DEF Follows
    <2> QED BY <1>2, <2>1 DEF Owed
  <1>4. ASSUME Owed(d, app) PROVE Follows(sources[app], push[d])
    BY <1>4 DEF Follows, Owed
  <1> QED BY <1>3, <1>4

(* What was owed stays owed unless a user changes the application, and a   *)
(* user's change is counted.                                               *)
LEMMA OwedStays ==
  ASSUME TypeOK, EnablingInv, Next
  PROVE  /\ EnablingInv'
         /\ push' = push
         /\ \A app \in Apps : changes'[app] = 0 => changes[app] = 0 /\ sources'[app] = sources[app]
  <1>1. ASSUME UNCHANGED <<push, sources, changes>>, enabling' \subseteq enabling
        PROVE  /\ EnablingInv'
               /\ push' = push
               /\ \A app \in Apps : changes'[app] = 0 => changes[app] = 0 /\ sources'[app] = sources[app]
    BY <1>1 DEF EnablingInv
  <1>2. ASSUME NEW a \in Attempts, NEW d \in Deliveries, Claim(a, d)
        PROVE  UNCHANGED <<push, sources, changes, enabling>>
    BY <1>2 DEF Claim
  <1>3. ASSUME NEW a \in Attempts, Handle(a) \/ Disconnect(a)
        PROVE  UNCHANGED <<push, sources, changes, enabling>>
    BY <1>3 DEF Handle, Disconnect, ListSources, DeployNext, LoopDone, Complete, database, counters
  <1>4. ASSUME Reconfigure
        PROVE  /\ EnablingInv'
               /\ push' = push
               /\ \A app \in Apps : changes'[app] = 0 => changes[app] = 0 /\ sources'[app] = sources[app]
    <2>1. PICK app \in Changing :
            \/ \E branch \in Branches : Configure(app, branch)
            \/ \E branch \in Branches, i \in Installations : ConfigureGitHubApp(app, i, branch)
            \/ DeleteSource(app) \/ CheckAutoDeploy(app) \/ EnableAutoDeploy(app)
            \/ DisableAutoDeploy(app)
      BY <1>4 DEF Reconfigure
    <2>2. app \in Apps /\ push' = push
      BY <1>4, WebhookAssumption DEF Reconfigure
    <2>3. \A other \in Apps : other # app => sources'[other] = sources[other]
      BY <2>1 DEF Configure, ConfigureGitHubApp, DeleteSource, CheckAutoDeploy, EnableAutoDeploy,
                  DisableAutoDeploy, Upserted, TypeOK
    <2>4. CASE EnableAutoDeploy(app)
      BY <2>2, <2>3, <2>4 DEF EnableAutoDeploy, EnablingInv
    <2>5. CASE ~EnableAutoDeploy(app)
      <3>1. Change(app) /\ enabling' \in {enabling, enabling \cup {app}}
        BY <2>1, <2>5 DEF Configure, ConfigureGitHubApp, DeleteSource, CheckAutoDeploy,
                          DisableAutoDeploy
      <3>2. changes[app] \in Nat /\ changes' = [changes EXCEPT ![app] = changes[app] + 1]
        BY <3>1, <2>2, WebhookAssumption DEF Change, TypeOK
      <3>3. changes'[app] # 0 /\ \A other \in Apps : other # app => changes'[other] = changes[other]
        BY <3>2, <2>2 DEF TypeOK
      <3>4. \A other \in enabling : other \in Apps
        BY DEF TypeOK
      <3> QED BY <2>2, <2>3, <3>1, <3>3, <3>4 DEF EnablingInv
    <2> QED BY <2>4, <2>5
  <1>5. ASSUME Crash \/ Rest
        PROVE  UNCHANGED <<push, sources, changes>> /\ enabling' \subseteq enabling
    BY <1>5 DEF Crash, Rest, vars, database, counters
  <1> QED BY <1>1, <1>2, <1>3, <1>4, <1>5 DEF Next

(* A step that keeps the deployments, the lists and the work in progress.  *)
LEMMA LoopKept ==
  ASSUME TypeOK, LoopInv, EnablingInv, Next,
         UNCHANGED <<deployments, deliveries, handling, todo, pc>>
  PROVE  LoopInv'
  <1>1. /\ push' = push
        /\ \A app \in Apps : changes'[app] = 0 => changes[app] = 0 /\ sources'[app] = sources[app]
    BY OwedStays
  <1>2. \A d \in Deliveries, app \in Apps : changes'[app] = 0 => (Owed(d, app)' <=> Owed(d, app))
    BY <1>1 DEF Owed
  <1>3. \A d, app : Made(d, app)' <=> Made(d, app)
    BY DEF Made
  <1>4. \A a \in Attempts : pc'[a] = pc[a] /\ todo'[a] = todo[a] /\ handling'[a] = handling[a]
    OBVIOUS
  <1>5. \A a \in Attempts, app \in Apps :
          /\ changes'[app] = 0 => (Owed(handling[a], app)' <=> Owed(handling[a], app))
          /\ Made(handling[a], app)' <=> Made(handling[a], app)
    BY <1>1, <1>4 DEF Owed, Made
  <1>6. \A a \in Attempts : Working(a)' <=> Working(a)
    BY <1>4 DEF Working
  <1>7. \A a \in Attempts : Working(a)' => push'[handling'[a]].tracked
    BY <1>1, <1>4, <1>6 DEF LoopInv
  <1>8. \A a \in Attempts, app \in Apps : (pc'[a] = "deploy" /\ changes'[app] = 0) =>
          (Owed(handling[a], app)' <=> (Made(handling[a], app)' \/ app \in todo'[a]))
    BY <1>1, <1>4, <1>5 DEF LoopInv
  <1>9. \A d \in Deliveries, app \in Apps :
          (/\ deliveries'[d] # "absent" /\ changes'[app] = 0
           /\ \A a \in Attempts : Working(a)' => handling'[a] # d)
            => (Owed(d, app)' <=> Made(d, app)')
    BY <1>1, <1>2, <1>3, <1>4, <1>6 DEF LoopInv
  <1> QED BY <1>7, <1>8, <1>9 DEF LoopInv

(* In an undisturbed run the call a request makes works.                   *)
LEMMA LoopAfterClaim ==
  ASSUME IInv, GoneInv, LoopInv, NEW a \in Attempts, NEW d \in Deliveries, Claim(a, d), faults' = 0
  PROVE  LoopInv'
  <1> USE DEF IInv, TypeOK, Goto, CompleteAs
  <1>1. /\ UNCHANGED <<push, sources, changes, deployments, todo>>
        /\ \A b \in Attempts : b # a => pc'[b] = pc[b] /\ handling'[b] = handling[b]
        /\ handling'[a] = d /\ pc[a] = "new"
    BY DEF Claim
  <1>2. ~Fails(a)
    BY Calm
  <1>3. /\ deliveries' = Claimed(d)
        /\ \/ ~Wins(d) /\ pc'[a] = "done"
           \/ Wins(d) /\ push[d].tracked /\ pc'[a] = "list"
           \/ Wins(d) /\ ~push[d].tracked /\ pc'[a] = "complete"
    BY <1>2 DEF Claim
  <1>4. \A e \in Deliveries : deliveries'[e] # "absent" => deliveries[e] # "absent" \/ e = d
    BY <1>3 DEF Claimed
  <1>5. \A e, app : (Made(e, app)' <=> Made(e, app)) /\ (Owed(e, app)' <=> Owed(e, app))
    BY <1>1 DEF Made, Owed
  <1>6. \A b \in Attempts : Working(b)' => push'[handling'[b]].tracked
    BY <1>1, <1>3 DEF LoopInv, Working
  <1>7. \A b \in Attempts, app \in Apps : (pc'[b] = "deploy" /\ changes'[app] = 0) =>
          (Owed(handling[b], app)' <=> (Made(handling[b], app)' \/ app \in todo'[b]))
    <2> SUFFICES ASSUME NEW b \in Attempts, NEW app \in Apps, pc'[b] = "deploy", changes'[app] = 0
                 PROVE  Owed(handling[b], app)' <=> (Made(handling[b], app)' \/ app \in todo'[b])
      OBVIOUS
    <2>1. b # a /\ pc[b] = "deploy" /\ changes[app] = 0 /\ todo'[b] = todo[b] /\ handling'[b] = handling[b]
      BY <1>1, <1>3
    <2>2. Owed(handling[b], app) <=> (Made(handling[b], app) \/ app \in todo[b])
      BY <2>1 DEF LoopInv
    <2>3. (Owed(handling[b], app)' <=> Owed(handling[b], app))
          /\ (Made(handling[b], app)' <=> Made(handling[b], app))
      BY <1>1, <2>1 DEF Owed, Made
    <2> QED BY <2>1, <2>2, <2>3
  <1>8. ASSUME NEW e \in Deliveries, NEW app \in Apps, deliveries'[e] # "absent", changes'[app] = 0,
               \A b \in Attempts : Working(b)' => handling'[b] # e
        PROVE  Owed(e, app) <=> Made(e, app)
    <2>1. \A b \in Attempts : Working(b) => handling[b] # e
      BY <1>1, <1>8 DEF Working
    <2>2. CASE deliveries[e] # "absent"
      BY <1>1, <1>8, <2>1, <2>2 DEF LoopInv
    <2>3. CASE deliveries[e] = "absent"
      <3>1. e = d /\ Wins(d)
        BY <1>4, <1>8, <2>3 DEF Wins
      <3>2. ~push[d].tracked
        BY <1>1, <1>3, <1>8, <3>1 DEF Working
      <3>3. ~Made(d, app)
        BY <3>1 DEF Wins, ClaimInv
      <3> QED BY <3>1, <3>2, <3>3 DEF Owed
    <2> QED BY <2>2, <2>3
  <1>9. \A e \in Deliveries, app \in Apps :
          (/\ deliveries'[e] # "absent" /\ changes'[app] = 0
           /\ \A b \in Attempts : Working(b)' => handling'[b] # e)
            => (Owed(e, app)' <=> Made(e, app)')
    BY <1>5, <1>8
  <1> QED BY <1>6, <1>7, <1>9 DEF LoopInv

LEMMA LoopAfterList ==
  ASSUME IInv, GoneInv, LoopInv, NEW a \in Attempts, ListSources(a), faults' = 0
  PROVE  LoopInv'
  <1> USE DEF IInv, TypeOK, Goto
  <1>1. ~Fails(a)
    BY Calm
  <1> DEFINE listed == {app \in Apps : Follows(sources[app], push[handling[a]])}
  <1>2. /\ UNCHANGED <<push, sources, changes, deployments, deliveries, handling>>
        /\ pc[a] = "list" /\ pc' = [pc EXCEPT ![a] = "deploy"]
        /\ todo' = [todo EXCEPT ![a] = listed]
    BY <1>1 DEF ListSources, database
  <1>3. /\ handling[a] \in Deliveries /\ push[handling[a]].tracked
        /\ \A app \in Apps : ~Made(handling[a], app)
    BY <1>2 DEF ClaimInv, LoopInv, Working
  <1>4. \A app \in Apps : app \in listed <=> Owed(handling[a], app)
    BY <1>3, FollowsIsOwed
  <1> HIDE DEF listed
  <1>5. \A b \in Attempts : Working(b)' <=> Working(b)
    BY <1>2 DEF Working
  <1>6. \A e, app : (Made(e, app)' <=> Made(e, app)) /\ (Owed(e, app)' <=> Owed(e, app))
    BY <1>2 DEF Made, Owed
  <1>7. ASSUME NEW b \in Attempts, NEW app \in Apps, pc'[b] = "deploy", changes[app] = 0
        PROVE  Owed(handling[b], app) <=> (Made(handling[b], app) \/ app \in todo'[b])
    <2>1. CASE b = a
      BY <1>2, <1>3, <1>4, <2>1
    <2>2. CASE b # a
      BY <1>2, <1>7, <2>2 DEF LoopInv
    <2> QED BY <2>1, <2>2
  <1>8. \A b \in Attempts : Working(b)' => push'[handling'[b]].tracked
    BY <1>2, <1>5 DEF LoopInv
  <1>9. \A b \in Attempts, app \in Apps : (pc'[b] = "deploy" /\ changes'[app] = 0) =>
          (Owed(handling[b], app)' <=> (Made(handling[b], app)' \/ app \in todo'[b]))
    BY <1>2, <1>7 DEF Owed, Made
  <1>10. \A e \in Deliveries, app \in Apps :
           (/\ deliveries'[e] # "absent" /\ changes'[app] = 0
            /\ \A b \in Attempts : Working(b)' => handling'[b] # e)
             => (Owed(e, app)' <=> Made(e, app)')
    BY <1>2, <1>5, <1>6 DEF LoopInv
  <1> QED BY <1>8, <1>9, <1>10 DEF LoopInv

LEMMA LoopAfterDeploy ==
  ASSUME IInv, GoneInv, LoopInv, NEW a \in Attempts, DeployNext(a), faults' = 0
  PROVE  LoopInv'
  <1>1. PICK app \in todo[a] : DeployFor(a, app) /\ todo' = [todo EXCEPT ![a] = @ \ {app}]
    BY DEF DeployNext
  <1> DEFINE d == handling[a]
             new == [app |-> app, delivery |-> d, by |-> a, branch |-> push[d].branch]
             MadeNow(e, other) == \E x \in deployments' : x.delivery = e /\ x.app = other
  <1>2. deployments' = deployments \cup {new}
    BY <1>1, Calm DEF DeployFor, IInv
  <1>3. /\ UNCHANGED <<push, sources, changes, deliveries, handling, pc>>
        /\ pc[a] = "deploy" /\ app \in Apps /\ d \in Deliveries
    BY <1>1 DEF DeployNext, IInv, TypeOK, ClaimInv, Working
  <1>4. \A e, other : MadeNow(e, other) <=> (Made(e, other) \/ (e = d /\ other = app))
    <2>1. new.delivery = d /\ new.app = app
      OBVIOUS
    <2> HIDE DEF new
    <2> QED BY <1>2, <2>1 DEF Made
  <1>5. \A e, other : Owed(e, other)' <=> Owed(e, other)
    BY <1>3 DEF Owed
  <1>6. \A e, other : Made(e, other)' <=> MadeNow(e, other)
    BY DEF Made
  <1> HIDE DEF MadeNow
  <1>7. \A b \in Attempts : Working(b)' <=> Working(b)
    BY <1>3 DEF Working
  <1>8. ASSUME NEW b \in Attempts, NEW other \in Apps, pc[b] = "deploy", changes[other] = 0
        PROVE  Owed(handling[b], other) <=> (MadeNow(handling[b], other) \/ other \in todo'[b])
    <2>1. Owed(handling[b], other) <=> (Made(handling[b], other) \/ other \in todo[b])
      BY <1>8 DEF LoopInv
    <2>2. CASE b = a
      <3>1. todo'[b] = todo[a] \ {app}
        BY <1>1, <2>2 DEF IInv, TypeOK
      <3> QED BY <1>1, <1>4, <2>1, <2>2, <3>1
    <2>3. CASE b # a
      <3>1. todo'[b] = todo[b] /\ handling[b] # d
        BY <1>1, <1>3, <1>8, <2>3 DEF IInv, TypeOK, ClaimInv, Working
      <3> QED BY <1>4, <2>1, <3>1
    <2> QED BY <2>2, <2>3
  <1>9. ASSUME NEW e \in Deliveries, NEW other \in Apps, deliveries[e] # "absent",
               changes[other] = 0, \A b \in Attempts : Working(b) => handling[b] # e
        PROVE  Owed(e, other) <=> MadeNow(e, other)
    <2>1. e # d
      BY <1>3, <1>9 DEF Working
    <2> QED BY <1>4, <1>9, <2>1 DEF LoopInv
  <1>10. /\ changes' = changes /\ deliveries' = deliveries /\ push' = push
         /\ \A b \in Attempts : pc'[b] = pc[b] /\ handling'[b] = handling[b]
    BY <1>3
  <1>11. \A b \in Attempts : Working(b)' => push'[handling'[b]].tracked
    BY <1>7, <1>10 DEF LoopInv
  <1>12. \A b \in Attempts, other \in Apps : (pc'[b] = "deploy" /\ changes'[other] = 0) =>
           (Owed(handling[b], other)' <=> (Made(handling[b], other)' \/ other \in todo'[b]))
    BY <1>5, <1>6, <1>8, <1>10 DEF Owed, Made
  <1>13. \A e \in Deliveries, other \in Apps :
           (/\ deliveries'[e] # "absent" /\ changes'[other] = 0
            /\ \A b \in Attempts : Working(b)' => handling'[b] # e)
             => (Owed(e, other)' <=> Made(e, other)')
    BY <1>5, <1>6, <1>7, <1>9, <1>10
  <1> QED BY <1>11, <1>12, <1>13 DEF LoopInv

LEMMA LoopAfterDone ==
  ASSUME IInv, ReceivedInv, LoopInv, NEW a \in Attempts, LoopDone(a) \/ Complete(a)
  PROVE  LoopInv'
  <1> USE DEF IInv, TypeOK, Goto, CompleteAs
  <1>1. /\ UNCHANGED <<push, sources, changes, deployments, handling, todo>>
        /\ \A b \in Attempts : b # a => pc'[b] = pc[b]
        /\ pc'[a] \in {"complete", "done"}
        /\ Working(a) => pc[a] = "deploy" /\ todo[a] = {}
    BY DEF LoopDone, Complete, Working, database, attempt, counters
  <1>2. \A e \in Deliveries :
          deliveries'[e] # "absent" => deliveries[e] # "absent" \/ (pc[a] = "complete" /\ e = handling[a])
    BY DEF LoopDone, Complete, database
  <1>3. \A e, app : (Made(e, app)' <=> Made(e, app)) /\ (Owed(e, app)' <=> Owed(e, app))
    BY <1>1 DEF Made, Owed
  <1>4. ASSUME NEW e \in Deliveries, NEW app \in Apps, deliveries[e] # "absent", changes[app] = 0,
               \A b \in Attempts : Working(b)' => handling[b] # e
        PROVE  Owed(e, app) <=> Made(e, app)
    <2>1. \A b \in Attempts : (Working(b) /\ b # a) => handling[b] # e
      BY <1>1, <1>4 DEF Working
    <2>2. CASE Working(a) /\ handling[a] = e
      BY <1>1, <1>4, <2>2 DEF LoopInv
    <2>3. CASE ~(Working(a) /\ handling[a] = e)
      BY <1>4, <2>1, <2>3 DEF LoopInv
    <2> QED BY <2>2, <2>3
  <1>5. \A b \in Attempts : Working(b)' => Working(b)
    BY <1>1 DEF Working
  <1>6. \A b \in Attempts : Working(b)' => push'[handling'[b]].tracked
    BY <1>1, <1>5 DEF LoopInv
  <1>7. \A b \in Attempts, app \in Apps : (pc'[b] = "deploy" /\ changes'[app] = 0) =>
          (Owed(handling[b], app)' <=> (Made(handling[b], app)' \/ app \in todo'[b]))
    <2> SUFFICES ASSUME NEW b \in Attempts, NEW app \in Apps, pc'[b] = "deploy", changes'[app] = 0
                 PROVE  Owed(handling[b], app)' <=> (Made(handling[b], app)' \/ app \in todo'[b])
      OBVIOUS
    <2>1. pc[b] = "deploy" /\ changes[app] = 0 /\ todo'[b] = todo[b] /\ handling' = handling
      BY <1>1
    <2>2. Owed(handling[b], app) <=> (Made(handling[b], app) \/ app \in todo[b])
      BY <2>1 DEF LoopInv
    <2>3. (Owed(handling[b], app)' <=> Owed(handling[b], app))
          /\ (Made(handling[b], app)' <=> Made(handling[b], app))
      BY <1>1, <2>1 DEF Owed, Made
    <2> QED BY <2>1, <2>2, <2>3
  <1>8. \A e \in Deliveries, app \in Apps :
          (/\ deliveries'[e] # "absent" /\ changes'[app] = 0
           /\ \A b \in Attempts : Working(b)' => handling'[b] # e)
            => (Owed(e, app)' <=> Made(e, app)')
    <2> SUFFICES ASSUME NEW e \in Deliveries, NEW app \in Apps, deliveries'[e] # "absent",
                        changes[app] = 0, \A b \in Attempts : Working(b)' => handling[b] # e
                 PROVE  Owed(e, app) <=> Made(e, app)
      BY <1>1, <1>3
    <2>1. deliveries[e] # "absent"
      BY <1>2 DEF ReceivedInv, Busy
    <2> QED BY <1>4, <2>1
  <1> QED BY <1>6, <1>7, <1>8 DEF LoopInv

LEMMA FollowInvariant == Spec => []FollowInv
  <1>1. Init => FollowInv
    BY DEF Init, FollowInv, EnablingInv, LoopInv, Working
  <1>2. IInv /\ RecordInv /\ FollowInv /\ [Next]_vars => FollowInv'
    <2> SUFFICES ASSUME IInv, RecordInv, FollowInv, [Next]_vars PROVE FollowInv'
      OBVIOUS
    <2>1. CASE UNCHANGED vars
      BY <2>1 DEF vars, attempt, database, counters, FollowInv, EnablingInv, Undisturbed, LoopInv,
                  Working, Owed, Made
    <2>2. CASE Next
      <3>1. EnablingInv'
        BY <2>2, OwedStays DEF IInv, FollowInv
      <3>2. SUFFICES ASSUME Undisturbed' PROVE LoopInv'
        BY <3>1 DEF FollowInv
      <3>3. faults = 0 /\ faults' = 0
        BY <2>2, <3>2, FaultsGrow DEF IInv, Undisturbed
      <3>4. CASE Crash
        BY <3>2, <3>4, WebhookAssumption DEF Undisturbed, Crash, IInv, TypeOK
      <3>5. CASE ~Crash
        <4>1. crashes' = crashes
          BY <2>2, <3>5 DEF Next, Claim, Handle, ListSources, DeployNext, LoopDone, Complete,
                            Disconnect, Reconfigure, Rest, vars, counters
        <4>2. LoopInv /\ EnablingInv
          BY <3>2, <3>3, <4>1 DEF FollowInv, Undisturbed
        <4>3. ASSUME NEW a \in Attempts, NEW d \in Deliveries, Claim(a, d) PROVE LoopInv'
          BY <3>3, <4>2, <4>3, LoopAfterClaim DEF RecordInv
        <4>4. ASSUME NEW a \in Attempts, Handle(a) PROVE LoopInv'
          BY <3>3, <4>2, <4>4, LoopAfterList, LoopAfterDeploy, LoopAfterDone DEF RecordInv, Handle
        <4>5. ASSUME NEW a \in Attempts, Disconnect(a) PROVE FALSE
          BY <3>3, <4>5 DEF Disconnect, Fault
        <4>6. ASSUME Reconfigure \/ Rest PROVE LoopInv'
          BY <2>2, <4>2, <4>6, LoopKept DEF Reconfigure, Rest, vars, attempt, database, IInv
        <4> QED BY <2>2, <3>5, <4>3, <4>4, <4>5, <4>6 DEF Next
      <3> QED BY <3>4, <3>5
    <2> QED BY <2>1, <2>2
  <1> QED BY <1>1, <1>2, Invariant, RecordInvariant, PTL DEF Spec

(* In a run in which nothing fails, a push deploys exactly the             *)
(* applications that follow it, whatever becomes of the Git sources of     *)
(* the others, for any number of applications, deliveries and requests.    *)
THEOREM FollowersDeployed == Spec => []DeploysFollowers
  <1>1. ASSUME FollowInv PROVE DeploysFollowers
    <2> SUFFICES ASSUME Quiescent, Undisturbed, NEW d \in Deliveries, NEW app \in Apps,
                        deliveries[d] # "absent", changes[app] = 0
                 PROVE  Made(d, app) <=> Owed(d, app)
      BY DEF DeploysFollowers, Undisturbed, Made, Owed
    <2>1. \A a \in Attempts : ~Working(a)
      BY DEF Quiescent, Working
    <2> QED BY <1>1, <2>1 DEF FollowInv, LoopInv
  <1> QED BY <1>1, FollowInvariant, PTL
=============================================================================
