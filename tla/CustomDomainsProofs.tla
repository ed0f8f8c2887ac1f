------------------------- MODULE CustomDomainsProofs -------------------------
(***************************************************************************)
(* Proofs about CustomDomains.  First what each step writes (the `...Effect` *)
(* lemmas) and what Caddy's requests do to the set of releases a record's  *)
(* routes dial, whatever their order; then three invariants, each resting  *)
(* on the one before:                                                      *)
(*   Tracked   which records are routed, by how many routes, under what    *)
(*             host; verified ones only;                                   *)
(*   Followed  and which running releases the routes dial, at each stage   *)
(*             of the rollout, undo or stop that holds the lock;           *)
(*   Claiming  and which records that say `active` are routed to the       *)
(*             release that is, or is about to be, the active one.         *)
(* They speak of the records nobody has `Lost`: neither handled with what  *)
(* was read too early nor left astray by a verification.  Any call may     *)
(* fail, carried out or not.  Followed and Claiming are inductive as long  *)
(* as no call of an undo or a recovery fails (UndoWorks: the code logs     *)
(* such a failure and goes on), and nothing does after a promotion whose   *)
(* reply was lost (LostLast: its undo removes the active release).         *)
(***************************************************************************)
EXTENDS CustomDomains, SequenceTheorems, TLAPS

\* `First` is of the list: created_at orders the records.
LEMMA FirstInList == ASSUME NEW S \in SUBSET Domains, S # {} PROVE First(S) \in S
  BY DomainsAssumption DEF First

\* The application's own host is under BASE_DOMAIN: no record can ask for it.
LEMMA OwnHostRefused == ~NormalizeHostname(AppHost)
  <1> DEFINE Labels == STRING \cup {"app"}
             n == Len(BaseDomain)
             r == Reverse(BaseDomain)
             t == Reverse(AppHost)
  <1>1. BaseDomain \in Seq(Labels) /\ n \in Nat
    <2>1. BaseDomain \in [1..n -> STRING] /\ n \in Nat
      BY NamesAssumption
    <2> HIDE DEF n
    <2>2. BaseDomain \in [1..n -> Labels]
      BY <2>1
    <2> QED BY <2>1, <2>2, SeqDef
  <1>2. <<"app">> \in Seq(Labels) /\ Len(<<"app">>) = 1 /\ <<"app">>[1] = "app"
    <2>1. "app" \in Labels
      OBVIOUS
    <2> HIDE DEF Labels
    <2> QED BY <2>1
  <1> HIDE DEF Labels
  <1>3. /\ AppHost \in Seq(Labels) /\ Len(AppHost) = n + 1
        /\ \A i \in 1..n : AppHost[i + 1] = BaseDomain[i]
    BY <1>1, <1>2, ConcatProperties DEF AppHost
  <1>4. r \in Seq(Labels) /\ Len(r) = n /\ \A i \in 1..n : r[i] = BaseDomain[(n - i) + 1]
    BY <1>1 DEF Reverse
  <1>5. t \in Seq(Labels) /\ Len(t) = n + 1 /\ \A i \in 1..(n + 1) : t[i] = AppHost[(n + 1 - i) + 1]
    BY <1>1, <1>3 DEF Reverse
  <1> HIDE DEF r, t, n
  <1>6. ASSUME NEW i \in 1..n PROVE r[i] = t[i]
    <2>1. /\ (n - i) + 1 \in 1..n /\ i \in 1..(n + 1)
          /\ ((n - i) + 1) + 1 = (n + 1 - i) + 1
      BY <1>1
    <2>2. AppHost[((n - i) + 1) + 1] = BaseDomain[(n - i) + 1]
      BY <1>3, <2>1
    <2> QED BY <1>4, <1>5, <2>1, <2>2
  <1>7. SubSeq(r, 1, n) = SubSeq(t, 1, n)
    BY <1>1, <1>4, <1>5, <1>6
  <1>8. IsPrefix(r, t)
    BY <1>1, <1>4, <1>5, <1>7 DEF IsPrefix
  <1> QED BY <1>8 DEF NormalizeHostname, IsSuffix, r, t

-----------------------------------------------------------------------------
(* Types.                                                                  *)
Ids == Domains \cup {App}
Hosts == Hostnames \cup {AppHost, << >>}
Route == [id : Ids, host : Hosts, dial : Nat]

Row == [status : {"absent", "pending", "verified", "active", "error", "deleted"},
        verified : BOOLEAN, host : Hosts]

Switching == {"app", "appNew"}
Items == {"item", "itemNew", "itemSave"}
Unrouting == {"unroute", "unrouteSave"}
RunPcs == Switching \cup Items \cup Unrouting
            \cup {"idle", "list", "promote", "retire", "discard", "remove", "listStop", "halt"}
Run == [pc : RunPcs, kind : {"none", "deploy", "undo", "recover", "stop"}, dial : Nat,
        candidate : Nat, previous : Nat, todo : SUBSET Domains]

Asking == {"lookup", "route", "add", "persist", "unroute", "drop"}
RequestPcs == {"idle"} \cup Asking
Request == [pc : RequestPcs, domain : Ids, dial : Nat]

\* The domains the properties do not speak about.
Lost == stale \cup strayed

Typed ==
  /\ config \in Seq(Route)
  /\ domains \in [Domains -> Row]
  /\ run \in Run
  /\ request \in [Requests -> Request]
  /\ active \in Nat /\ released \in Nat /\ up \subseteq Nat /\ mishaps \in Nat
  /\ Lost \subseteq Domains /\ undeleted \subseteq Domains
  /\ run.pc \in Items \cup Unrouting => run.todo # {}
  /\ \A q \in Requests : request[q].pc # "idle" => request[q].domain \in Domains

\* A list of records has one to go on with.
LEMMA Listed ==
  ASSUME Typed, run.pc \in Items \cup Unrouting
  PROVE  First(run.todo) \in run.todo /\ First(run.todo) \in Domains
  BY FirstInList DEF Typed, Run

-----------------------------------------------------------------------------
(* What the client's requests do to the list of routes.                    *)
LEMMA RoutesTyped ==
  ASSUME NEW x \in Ids, NEW h \in Hosts, NEW r \in Nat
  PROVE  RouteOf(x, h, r) \in Route
  BY DEF RouteOf, Route

LEMMA PatchTyped ==
  ASSUME config \in Seq(Route), NEW route \in Route, Patch(route)
  PROVE  config' \in Seq(Route)
  BY DEF Patch, At

LEMMA PostTyped ==
  ASSUME config \in Seq(Route), NEW route \in Route, Post(route)
  PROVE  config' \in Seq(Route)
  BY DEF Post

LEMMA RemovedAt ==
  ASSUME config \in Seq(Route), NEW j \in DOMAIN config, config' = RemoveAt(config, j)
  PROVE  /\ config' \in Seq(Route) /\ Len(config') = Len(config) - 1
         /\ \A i \in 1..(j - 1) : config'[i] = config[i]
         /\ \A i \in j..(Len(config) - 1) : config'[i] = config[i + 1]
  <1> DEFINE n == Len(config)
             front == SubSeq(config, 1, j - 1)
             back == SubSeq(config, j + 1, n)
  <1>1. n \in Nat /\ j \in 1..n
    OBVIOUS
  <1>2. /\ front \in Seq(Route) /\ Len(front) = j - 1
        /\ \A i \in 1..(j - 1) : front[i] = config[i]
    BY <1>1, SubSeqProperties
  <1>3. /\ back \in Seq(Route) /\ Len(back) = n - j
        /\ \A i \in 1..(n - j) : back[i] = config[i + j]
    BY <1>1, SubSeqProperties
  <1>4. config' = front \o back
    BY DEF RemoveAt
  <1> HIDE DEF front, back, n
  <1>c. /\ config' \in Seq(Route) /\ Len(config') = Len(front) + Len(back)
        /\ \A i \in 1..(Len(front) + Len(back)) :
             config'[i] = IF i <= Len(front) THEN front[i] ELSE back[i - Len(front)]
    BY <1>2, <1>3, <1>4, ConcatProperties
  <1>5. config' \in Seq(Route) /\ Len(config') = n - 1
    BY <1>1, <1>2, <1>3, <1>c
  <1>6. ASSUME NEW i \in 1..(j - 1) PROVE config'[i] = config[i]
    <2>1. i \in 1..(Len(front) + Len(back)) /\ i <= Len(front)
      BY <1>1, <1>2, <1>3
    <2>2. config'[i] = front[i]
      BY <1>c, <2>1
    <2> QED BY <1>2, <2>2
  <1>7. ASSUME NEW i \in j..(n - 1) PROVE config'[i] = config[i + 1]
    <2> DEFINE k == i - (j - 1)
    <2>0. /\ i \in Nat /\ j \in Nat /\ n \in Nat
          /\ 1 <= j /\ j <= i /\ i <= n - 1 /\ j <= n
      BY <1>1
    <2>1. k \in 1..(n - j) /\ k + j = i + 1 /\ i \in 1..((j - 1) + (n - j)) /\ i > j - 1
      <3>1. k \in Nat /\ 1 <= k /\ k <= n - j /\ k + j = i + 1
        BY <2>0
      <3>2. i \in 1..((j - 1) + (n - j)) /\ i > j - 1
        BY <2>0
      <3> HIDE DEF k
      <3>3. k \in 1..(n - j)
        BY <2>0, <3>1
      <3> QED BY <3>1, <3>2, <3>3
    <2>2. config'[i] = back[k]
      <3>1. /\ i \in 1..(Len(front) + Len(back)) /\ ~(i <= Len(front))
            /\ i - Len(front) = k
        BY <1>1, <1>2, <1>3, <2>1
      <3> HIDE DEF k
      <3> QED BY <1>c, <3>1
    <2> HIDE DEF k
    <2>3. back[k] = config[k + j]
      BY <1>3, <2>1
    <2> QED BY <2>1, <2>2, <2>3
  <1> QED BY <1>5, <1>6, <1>7 DEF n

LEMMA DeleteTyped ==
  ASSUME config \in Seq(Route), NEW x, Delete(x)
  PROVE  config' \in Seq(Route)
  <1>1. ASSUME NEW j \in At(x), config' = RemoveAt(config, j) PROVE config' \in Seq(Route)
    BY <1>1, RemovedAt DEF At
  <1> QED BY <1>1 DEF Delete

\* What UpdateCustomDomainVerification leaves.
Saved(d, status, verified) ==
  \A e \in Domains :
    /\ domains'[e].host = domains[e].host
    /\ e = d /\ Exists(e) => domains'[e].status = status /\ domains'[e].verified = verified
    /\ e # d \/ ~Exists(e) => domains'[e] = domains[e]

LEMMA SaveEffect ==
  ASSUME domains \in [Domains -> Row], NEW d \in Domains, NEW verified \in BOOLEAN,
         NEW status \in {"verified", "active", "error"}, UpdateVerification(d, status, verified)
  PROVE  domains' \in [Domains -> Row] /\ Saved(d, status, verified)
  <1> DEFINE row == [domains[d] EXCEPT !.status = status, !.verified = verified]
  <1>1. domains[d] \in Row
    OBVIOUS
  <1>2. row.status = status /\ row.verified = verified /\ row.host = domains[d].host
    BY <1>1 DEF Row
  <1>3. row \in Row
    BY <1>1 DEF Row
  <1>4. CASE Exists(d)
    <2>1. domains' = [domains EXCEPT ![d] = row]
      BY <1>4 DEF UpdateVerification
    <2> HIDE DEF row
    <2> QED BY <1>2, <1>3, <1>4, <2>1 DEF Saved
  <1>5. CASE ~Exists(d)
    BY <1>5 DEF UpdateVerification, Saved
  <1> QED BY <1>4, <1>5

-----------------------------------------------------------------------------
(* What the steps leave in `run`.                                          *)
Moved(pc, todo) ==
  /\ run' \in Run /\ run'.pc = pc /\ run'.todo = todo
  /\ run'.kind = run.kind /\ run'.dial = run.dial
  /\ run'.candidate = run.candidate /\ run'.previous = run.previous

Restored(kind, release) ==
  /\ run' \in Run /\ run'.kind = kind /\ run'.dial = release /\ run'.todo = {}
  /\ run'.pc = IF release = NoRelease THEN "remove" ELSE "app"
  /\ run'.candidate = run.candidate /\ run'.previous = run.previous

Begun(kind, pc) ==
  /\ run' \in Run /\ run'.kind = kind /\ run'.pc = pc /\ run'.todo = {}

Ended == Begun("none", "idle") /\ run' = Idle

LEMMA GoEffect ==
  ASSUME run \in Run, NEW pc \in RunPcs, Go(pc)
  PROVE  Moved(pc, run.todo)
  BY DEF Go, Moved, Run

LEMMA TodoEffect ==
  ASSUME run \in Run, NEW pc \in RunPcs, NEW todo \in SUBSET Domains,
         run' = [run EXCEPT !.todo = todo, !.pc = pc]
  PROVE  Moved(pc, todo)
  BY DEF Moved, Run

LEMMA TodoPcEffect ==
  ASSUME run \in Run, NEW pc \in RunPcs, NEW todo \in SUBSET Domains,
         run' = [run EXCEPT !.pc = pc, !.todo = todo]
  PROVE  Moved(pc, todo)
  BY DEF Moved, Run

LEMMA RestoringEffect ==
  ASSUME run \in Run, NEW kind \in {"undo", "recover"}, NEW r \in Nat, run' = Restoring(kind, r)
  PROVE  Restored(kind, r)
  <1> DEFINE pc == IF r = NoRelease THEN "remove" ELSE "app"
  <1>1. pc \in RunPcs
    BY DEF RunPcs, Switching
  <1>2. run' = [run EXCEPT !.kind = kind, !.dial = r, !.todo = {}, !.pc = pc]
    BY DEF Restoring
  <1> HIDE DEF pc
  <1>3. /\ run' \in Run /\ run'.kind = kind /\ run'.dial = r /\ run'.todo = {} /\ run'.pc = pc
        /\ run'.candidate = run.candidate /\ run'.previous = run.previous
    BY <1>1, <1>2 DEF Run
  <1> QED BY <1>3 DEF Restored, pc

LEMMA IdleEffect == run' = Idle => Ended
  BY DEF Ended, Begun, Idle, Run, RunPcs, NoRelease

LEMMA StopEffect == Stop => Begun("stop", "remove")
  <1>1. Stop => run' = [pc |-> "remove", kind |-> "stop", dial |-> 0, candidate |-> 0,
                        previous |-> 0, todo |-> {}]
    BY DEF Stop, Idle, NoRelease
  <1> QED BY <1>1 DEF Begun, Run, RunPcs

LEMMA DeployEffect ==
  ASSUME active \in Nat, released \in Nat, Deploy
  PROVE  /\ Begun("deploy", "app") /\ run'.dial = released' /\ run'.candidate = released'
         /\ run'.previous = active
  <1>1. released' \in Nat
    BY DEF Deploy
  <1> QED BY <1>1 DEF Deploy, Begun, Idle, Run, RunPcs, Switching, NoRelease

Failed(next) ==
  /\ run.kind = "deploy" => Restored("undo", run.previous)
  /\ run.kind = "stop" => Ended
  /\ run.kind \notin {"deploy", "stop"} => Moved(next, {})

LEMMA FailureEffect ==
  ASSUME run \in Run, NEW next \in {"discard", "halt"}, AfterFailure(next)
  PROVE  Failed(next)
  <1>1. CASE run.kind = "deploy"
    <2>1. run.previous \in Nat
      BY DEF Run
    <2> QED BY <1>1, <2>1, RestoringEffect DEF AfterFailure, Failed
  <1>2. CASE run.kind = "stop"
    BY <1>2, IdleEffect DEF AfterFailure, Failed
  <1>3. CASE run.kind \notin {"deploy", "stop"}
    <2>1. run' = [run EXCEPT !.pc = next, !.todo = {}]
      BY <1>3 DEF AfterFailure
    <2>2. next \in RunPcs
      BY DEF RunPcs
    <2>3. {} \in SUBSET Domains
      OBVIOUS
    <2>4. Moved(next, {})
      BY <2>1, <2>2, <2>3, TodoPcEffect
    <2> QED BY <1>3, <2>4 DEF Failed
  <1> QED BY <1>1, <1>2, <1>3

\* The record a run is at, and the next ones.
LEMMA NextItemEffect ==
  ASSUME run \in Run, NEW todo \in SUBSET Domains, NextItem(todo)
  PROVE  Moved(IF todo = {} THEN AfterSync ELSE "item", todo)
  <1> DEFINE pc == IF todo = {} THEN AfterSync ELSE "item"
  <1>1. pc \in RunPcs
    BY DEF AfterSync, RunPcs, Items
  <1>2. run' = [run EXCEPT !.todo = todo, !.pc = pc]
    BY DEF NextItem
  <1> HIDE DEF pc
  <1>3. Moved(pc, todo)
    BY <1>1, <1>2, TodoEffect
  <1> QED BY <1>3 DEF pc

LEMMA NextUnroutedEffect ==
  ASSUME run \in Run, NEW todo \in SUBSET Domains, NextUnrouted(todo)
  PROVE  Moved(IF todo = {} THEN "halt" ELSE "unroute", todo)
  <1> DEFINE pc == IF todo = {} THEN "halt" ELSE "unroute"
  <1>1. pc \in RunPcs
    BY DEF RunPcs, Unrouting
  <1>2. run' = [run EXCEPT !.todo = todo, !.pc = pc]
    BY DEF NextUnrouted
  <1> HIDE DEF pc
  <1>3. Moved(pc, todo)
    BY <1>1, <1>2, TodoEffect
  <1> QED BY <1>3 DEF pc

SwitchFailed == Moved(IF run.kind = "deploy" THEN "discard" ELSE "list", run.todo)

LEMMA SwitchFailsEffect ==
  ASSUME run \in Run, SwitchFails
  PROVE  SwitchFailed
  <1>1. CASE run.kind = "deploy"
    BY <1>1, GoEffect DEF SwitchFails, SwitchFailed, RunPcs
  <1>2. CASE run.kind # "deploy"
    BY <1>2, GoEffect DEF SwitchFails, SwitchFailed, RunPcs
  <1> QED BY <1>1, <1>2

-----------------------------------------------------------------------------
(* What the steps leave in `request`.                                      *)
Others(q) == \A p \in Requests : p # q => request'[p] = request[p]

Asked(q, pc) ==
  /\ request' \in [Requests -> Request] /\ Others(q)
  /\ request'[q].pc = pc /\ request'[q].domain = request[q].domain
  /\ request'[q].dial = request[q].dial

Answered(q) == request' \in [Requests -> Request] /\ Others(q) /\ request'[q] = NoRequest

LEMMA GoRequestEffect ==
  ASSUME request \in [Requests -> Request], NEW q \in Requests, NEW pc \in RequestPcs,
         GoRequest(q, pc)
  PROVE  Asked(q, pc)
  <1> DEFINE r == [request[q] EXCEPT !.pc = pc]
  <1>1. request[q] \in Request
    OBVIOUS
  <1>2. r \in Request /\ r.pc = pc /\ r.domain = request[q].domain /\ r.dial = request[q].dial
    BY <1>1 DEF Request
  <1>3. request' = [request EXCEPT ![q] = r]
    BY DEF GoRequest
  <1> HIDE DEF r
  <1> QED BY <1>2, <1>3 DEF Asked, Others

LEMMA EndRequestEffect ==
  ASSUME request \in [Requests -> Request], NEW q \in Requests, EndRequest(q)
  PROVE  Answered(q)
  <1>1. NoRequest \in Request
    BY DEF NoRequest, Request, RequestPcs, Ids, App, NoRelease
  <1> QED BY <1>1 DEF EndRequest, Answered, Others

LEMMA BeginEffect ==
  ASSUME request \in [Requests -> Request], NEW q \in Requests, NEW d \in Domains,
         NEW pc \in RequestPcs, Begin(q, d, pc)
  PROVE  /\ request' \in [Requests -> Request] /\ Others(q)
         /\ request'[q].pc = pc /\ request'[q].domain = d /\ request'[q].dial = NoRelease
  <1> DEFINE r == [pc |-> pc, domain |-> d, dial |-> NoRelease]
  <1>1. r \in Request /\ r.pc = pc /\ r.domain = d /\ r.dial = NoRelease
    BY DEF Request, Ids, NoRelease
  <1>2. request' = [request EXCEPT ![q] = r]
    BY DEF Begin
  <1> HIDE DEF r
  <1> QED BY <1>1, <1>2 DEF Others

LEMMA MatchEffect ==
  ASSUME Typed, NEW q \in Requests, LookupMatches(q)
  PROVE  /\ request' \in [Requests -> Request] /\ Others(q)
         /\ request'[q].domain = request[q].domain
         /\ \/ request'[q].dial = NoRelease /\ request'[q].pc = "persist"
            \/ request'[q].dial = active /\ active # NoRelease /\ request'[q].pc = "route"
  <1>1. PICK found \in {active, NoRelease} :
          request' = [request EXCEPT ![q].dial = found,
                                     ![q].pc = IF found = NoRelease THEN "persist" ELSE "route"]
    BY DEF LookupMatches
  <1> DEFINE pc == IF found = NoRelease THEN "persist" ELSE "route"
             r == [request[q] EXCEPT !.dial = found, !.pc = pc]
  <1>2. request[q] \in Request /\ found \in Nat /\ request \in [Requests -> Request]
    BY DEF Typed, NoRelease
  <1>3. pc \in RequestPcs
    BY DEF RequestPcs, Asking
  <1>4. request' = [request EXCEPT ![q] = r]
    BY <1>1
  <1>5. r \in Request /\ r.pc = pc /\ r.domain = request[q].domain /\ r.dial = found
    BY <1>2, <1>3 DEF Request
  <1>6. pc = IF found = NoRelease THEN "persist" ELSE "route"
    OBVIOUS
  <1> HIDE DEF r, pc
  <1> QED BY <1>2, <1>4, <1>5, <1>6 DEF Others

-----------------------------------------------------------------------------
(* The steps of a rollout, with what each of them leaves.  A call that     *)
(* fails ends a stop, turns a deployment into an undo, and is passed over  *)
(* by an undo and by a recovery.                                           *)
Aside == UNCHANGED <<active, up, released, request>>
Todo == First(run.todo)

\* What the steps do to the ghosts: nothing, or nobody leaves them.
GhostsKept == Lost' = Lost /\ undeleted' = undeleted
Loses == Lost \subseteq Lost' /\ Lost' \subseteq Domains
Grows == Loses /\ undeleted \subseteq undeleted' /\ undeleted' \subseteq Domains

\* What a call that failed may have done to the routes and to the rows.
MaybeRouted ==
  \/ UNCHANGED config
  \/ run.pc = "item" /\ Todo \in Domains /\ Patch(DomainRoute(Todo, run.dial))
  \/ /\ run.pc = "itemNew" /\ Todo \in Domains /\ Post(DomainRoute(Todo, run.dial))
     /\ \/ Todo \in Lost'
        \/ Synced(Todo) /\ ~Known(Todo)
  \/ run.pc = "remove" /\ Delete(App)
  \/ run.pc = "unroute" /\ Todo \in Domains /\ Delete(Todo)

MaybeSaved ==
  \/ UNCHANGED domains
  \/ /\ Todo \in Domains /\ domains' \in [Domains -> Row]
     /\ \/ run.pc \in {"item", "itemNew"} /\ Saved(Todo, "error", TRUE)
        \/ run.pc = "itemSave" /\ Saved(Todo, "active", TRUE)
        \/ run.pc = "unrouteSave" /\ Saved(Todo, "verified", TRUE)

Fails(next) ==
  /\ Mishap /\ Failed(next) /\ UNCHANGED <<up, released, request>>
  /\ active' = active \/ (run.pc = "promote" /\ active' = run.candidate)
  /\ Loses /\ undeleted' = undeleted
  /\ MaybeRouted /\ MaybeSaved

LEMMA GhostsTyped ==
  ASSUME Typed
  PROVE  /\ ghosts' = ghosts => GhostsKept
         /\ GhostsKept => Grows
         /\ Overlooked /\ strayed' = strayed => Loses
         /\ \A d \in Domains, c \in BOOLEAN :
              Unseen(d, c) /\ strayed \subseteq strayed' /\ strayed' \subseteq Domains =>
                Loses /\ (c => d \in Lost')
         /\ strayed \subseteq Domains
  BY DEF Typed, Overlooked, Unseen, Lost, Loses, GhostsKept, Grows, ghosts

\* What a verification that ends leaves, and a deletion that breaks off.
LEMMA StrayedTyped ==
  ASSUME Typed, NEW ds \in SUBSET Domains
  PROVE  /\ LeavesStrayed(ds) =>
              /\ strayed \subseteq strayed' /\ strayed' \subseteq Domains
              /\ \A d \in ds : Known(d)' /\ ~domains'[d].verified => d \in Lost'
         /\ LeavesUndeleted(ds) =>
              /\ undeleted \subseteq undeleted' /\ undeleted' \subseteq Domains
              /\ \A d \in ds : ~Known(d)' => d \in undeleted'
  BY DEF Typed, LeavesStrayed, LeavesUndeleted, Lost

LEMMA SwitchAppEffect ==
  ASSUME Typed, SwitchApp
  PROVE  /\ run.pc = "app" /\ UNCHANGED domains /\ GhostsKept /\ Aside
         /\ \/ Patch(AppRoute(run.dial)) /\ Moved("list", run.todo) /\ NoMishap
            \/ ~Known(App) /\ UNCHANGED config /\ Moved("appNew", run.todo) /\ NoMishap
            \/ (Patch(AppRoute(run.dial)) \/ UNCHANGED config) /\ SwitchFailed /\ Mishap
  <1>1. run \in Run /\ "list" \in RunPcs /\ "appNew" \in RunPcs
    BY DEF Typed, RunPcs, Switching
  <1>2. Go("list") => Moved("list", run.todo)
    BY <1>1, GoEffect
  <1>3. Go("appNew") => Moved("appNew", run.todo)
    BY <1>1, GoEffect
  <1>4. App = AppRoute(run.dial).id
    BY DEF AppRoute, RouteOf
  <1> QED BY <1>1, <1>2, <1>3, <1>4, SwitchFailsEffect, GhostsTyped DEF SwitchApp, TryPatch, Aside

LEMMA CreateAppRouteEffect ==
  ASSUME Typed, CreateAppRoute
  PROVE  /\ run.pc = "appNew" /\ UNCHANGED domains /\ GhostsKept /\ Aside
         /\ \/ Post(AppRoute(run.dial)) /\ Moved("list", run.todo) /\ NoMishap
            \/ (Post(AppRoute(run.dial)) \/ UNCHANGED config) /\ SwitchFailed /\ Mishap
  <1>1. run \in Run /\ "list" \in RunPcs
    BY DEF Typed, RunPcs
  <1>2. Go("list") => Moved("list", run.todo)
    BY <1>1, GoEffect
  <1> QED BY <1>1, <1>2, SwitchFailsEffect, GhostsTyped DEF CreateAppRoute, Aside

LEMMA ListDomainsEffect ==
  ASSUME Typed, ListDomains
  PROVE  /\ run.pc = "list" /\ Overlooked /\ strayed' = strayed /\ Loses /\ undeleted' = undeleted
         /\ \/ /\ UNCHANGED domains /\ UNCHANGED config /\ Aside /\ NoMishap
               /\ LET todo == {d \in Domains : Synced(d)}
                  IN  Moved(IF todo = {} THEN AfterSync ELSE "item", todo)
            \/ Fails("discard")
  <1> DEFINE todo == {d \in Domains : Synced(d)}
  <1>1. run \in Run /\ todo \in SUBSET Domains
    BY DEF Typed
  <1> HIDE DEF todo
  <1>2. NextItem(todo) => Moved(IF todo = {} THEN AfterSync ELSE "item", todo)
    BY <1>1, NextItemEffect
  <1>3. AfterFailure("discard") => Failed("discard")
    BY <1>1, FailureEffect
  <1>4. /\ run.pc = "list" /\ Overlooked /\ strayed' = strayed /\ undeleted' = undeleted
        /\ UNCHANGED domains /\ UNCHANGED config /\ Aside
        /\ (NextItem(todo) /\ NoMishap) \/ (Mishap /\ AfterFailure("discard"))
    BY DEF ListDomains, Aside, todo
  <1> QED BY <1>2, <1>3, <1>4, GhostsTyped DEF Fails, MaybeRouted, MaybeSaved, Aside, todo

LEMMA SyncFailsEffect ==
  ASSUME Typed, run.pc \in {"item", "itemNew"}, Mishap, AfterFailure("discard"), Aside,
         UpdateVerification(Todo, "error", TRUE) \/ UNCHANGED domains,
         Loses, undeleted' = undeleted, MaybeRouted
  PROVE  Fails("discard")
  <1>1. run \in Run /\ Todo \in Domains /\ domains \in [Domains -> Row]
    BY Listed DEF Typed, Items, Todo
  <1>2. Failed("discard")
    BY <1>1, FailureEffect
  <1>3. UpdateVerification(Todo, "error", TRUE) =>
          Saved(Todo, "error", TRUE) /\ domains' \in [Domains -> Row]
    BY <1>1, SaveEffect
  <1> QED BY <1>1, <1>2, <1>3 DEF Fails, MaybeSaved, Aside

LEMMA SyncDomainEffect ==
  ASSUME Typed, SyncDomain
  PROVE  /\ run.pc = "item" /\ Todo \in Domains /\ Unseen(Todo, ~Synced(Todo))
         /\ Loses /\ undeleted' = undeleted
         /\ \/ /\ Patch(DomainRoute(Todo, run.dial)) /\ Moved("itemSave", run.todo)
               /\ UNCHANGED domains /\ Aside /\ NoMishap
            \/ /\ ~Known(Todo) /\ UNCHANGED config /\ Moved("itemNew", run.todo)
               /\ UNCHANGED domains /\ Aside /\ NoMishap
            \/ Fails("discard")
  <1>1. run \in Run /\ "itemSave" \in RunPcs /\ "itemNew" \in RunPcs
    BY DEF Typed, RunPcs, Items
  <1>2. /\ run.pc = "item" /\ Aside /\ Unseen(Todo, ~Synced(Todo))
        /\ strayed' = strayed /\ undeleted' = undeleted
    BY DEF SyncDomain, Aside, Todo
  <1>3. Todo \in Domains
    BY <1>2, Listed DEF Items, Todo
  <1>4. Go("itemSave") => Moved("itemSave", run.todo)
    BY <1>1, GoEffect
  <1>5. Go("itemNew") => Moved("itemNew", run.todo)
    BY <1>1, GoEffect
  <1>6. Todo = DomainRoute(Todo, run.dial).id
    BY DEF DomainRoute, RouteOf
  <1>7. \/ /\ TryPatch(DomainRoute(Todo, run.dial), Go("itemSave"), Go("itemNew"))
           /\ NoMishap /\ UNCHANGED domains
        \/ SyncFails(Todo, Patch(DomainRoute(Todo, run.dial)))
    BY DEF SyncDomain, Todo
  <1>8. (~Synced(Todo)) \in BOOLEAN
    BY DEF Synced
  <1>9. Loses
    BY <1>2, <1>3, <1>8, GhostsTyped
  <1>10. Patch(DomainRoute(Todo, run.dial)) \/ UNCHANGED config => MaybeRouted
    BY <1>2, <1>3 DEF MaybeRouted
  <1> QED BY <1>2, <1>3, <1>4, <1>5, <1>6, <1>7, <1>9, <1>10, SyncFailsEffect DEF TryPatch, SyncFails

LEMMA CreateSyncedRouteEffect ==
  ASSUME Typed, CreateSyncedRoute
  PROVE  /\ run.pc = "itemNew" /\ Todo \in Domains /\ Unseen(Todo, ~Synced(Todo) \/ Known(Todo))
         /\ Loses /\ undeleted' = undeleted
         /\ \/ /\ Post(DomainRoute(Todo, run.dial)) /\ Moved("itemSave", run.todo)
               /\ UNCHANGED domains /\ Aside /\ NoMishap
            \/ Fails("discard")
  <1>1. run \in Run /\ "itemSave" \in RunPcs
    BY DEF Typed, RunPcs, Items
  <1>2. /\ run.pc = "itemNew" /\ Aside /\ Unseen(Todo, ~Synced(Todo) \/ Known(Todo))
        /\ strayed' = strayed /\ undeleted' = undeleted
    BY DEF CreateSyncedRoute, Aside, Todo
  <1>3. Todo \in Domains
    BY <1>2, Listed DEF Items, Todo
  <1>4. Go("itemSave") => Moved("itemSave", run.todo)
    BY <1>1, GoEffect
  <1>5. \/ /\ Post(DomainRoute(Todo, run.dial)) /\ Go("itemSave")
           /\ NoMishap /\ UNCHANGED domains
        \/ SyncFails(Todo, Post(DomainRoute(Todo, run.dial)))
    BY DEF CreateSyncedRoute, Todo
  <1>6. (~Synced(Todo) \/ Known(Todo)) \in BOOLEAN
    BY DEF Synced, Known
  <1>7. Loses /\ (~Synced(Todo) \/ Known(Todo) => Todo \in Lost')
    BY <1>2, <1>3, <1>6, GhostsTyped
  <1>8. Post(DomainRoute(Todo, run.dial)) \/ UNCHANGED config => MaybeRouted
    BY <1>2, <1>3, <1>7 DEF MaybeRouted
  <1> QED BY <1>2, <1>3, <1>4, <1>5, <1>7, <1>8, SyncFailsEffect DEF SyncFails

LEMMA SaveSyncedEffect ==
  ASSUME Typed, SaveSynced
  PROVE  /\ run.pc = "itemSave" /\ Todo \in Domains /\ Unseen(Todo, ~Synced(Todo))
         /\ Loses /\ undeleted' = undeleted
         /\ \/ /\ Saved(Todo, "active", TRUE) /\ domains' \in [Domains -> Row]
               /\ Moved(IF run.todo \ {Todo} = {} THEN AfterSync ELSE "item", run.todo \ {Todo})
               /\ UNCHANGED config /\ Aside /\ NoMishap
            \/ Fails("discard")
  <1> DEFINE todo == run.todo \ {Todo}
  <1>1. run \in Run /\ todo \in SUBSET Domains /\ domains \in [Domains -> Row]
    BY DEF Typed, Run
  <1>2. /\ run.pc = "itemSave" /\ Aside /\ UNCHANGED config /\ Unseen(Todo, ~Synced(Todo))
        /\ strayed' = strayed /\ undeleted' = undeleted
    BY DEF SaveSynced, Aside, Todo
  <1>3. Todo \in Domains
    BY <1>2, Listed DEF Items, Todo
  <1>4. UpdateVerification(Todo, "active", TRUE) =>
          Saved(Todo, "active", TRUE) /\ domains' \in [Domains -> Row]
    BY <1>1, <1>3, SaveEffect
  <1>5. \/ UpdateVerification(Todo, "active", TRUE) /\ NextItem(todo) /\ NoMishap
        \/ /\ Mishap /\ AfterFailure("discard")
           /\ UpdateVerification(Todo, "active", TRUE) \/ UNCHANGED domains
    BY DEF SaveSynced, Todo
  <1> HIDE DEF todo
  <1>6. NextItem(todo) => Moved(IF todo = {} THEN AfterSync ELSE "item", todo)
    BY <1>1, NextItemEffect
  <1>7. AfterFailure("discard") => Failed("discard")
    BY <1>1, FailureEffect
  <1>8. (~Synced(Todo)) \in BOOLEAN
    BY DEF Synced
  <1>9. Loses
    BY <1>2, <1>3, <1>8, GhostsTyped
  <1> QED BY <1>2, <1>3, <1>4, <1>5, <1>6, <1>7, <1>9 DEF Fails, MaybeRouted, MaybeSaved, Aside, todo

LEMMA PromoteEffect ==
  ASSUME Typed, Promote
  PROVE  /\ run.pc = "promote"
         /\ \/ /\ active' = run.candidate /\ Moved("retire", run.todo) /\ NoMishap
               /\ UNCHANGED <<config, domains, up, released, request>> /\ GhostsKept
            \/ Fails("discard")
  <1>1. run \in Run /\ "retire" \in RunPcs
    BY DEF Typed, RunPcs
  <1>2. Go("retire") => Moved("retire", run.todo)
    BY <1>1, GoEffect
  <1>3. AfterFailure("discard") => Failed("discard")
    BY <1>1, FailureEffect
  <1>4. (ghosts' = ghosts => GhostsKept) /\ (GhostsKept => Loses /\ undeleted' = undeleted)
    BY GhostsTyped DEF Grows, GhostsKept
  <1> QED BY <1>1, <1>2, <1>3, <1>4 DEF Promote, Fails, MaybeRouted, MaybeSaved

LEMMA RemoveAppRouteEffect ==
  ASSUME Typed, RemoveAppRoute
  PROVE  /\ run.pc = "remove"
         /\ \/ /\ Delete(App) /\ Moved(AfterRemove, run.todo) /\ NoMishap
               /\ UNCHANGED domains /\ GhostsKept /\ Aside
            \/ Fails("discard")
  <1>1. run \in Run /\ AfterRemove \in RunPcs
    BY DEF Typed, RunPcs, AfterRemove
  <1>2. Go(AfterRemove) => Moved(AfterRemove, run.todo)
    BY <1>1, GoEffect
  <1>3. AfterFailure("discard") => Failed("discard")
    BY <1>1, FailureEffect
  <1>4. (ghosts' = ghosts => GhostsKept) /\ (GhostsKept => Loses /\ undeleted' = undeleted)
    BY GhostsTyped DEF Grows, GhostsKept
  <1> QED BY <1>1, <1>2, <1>3, <1>4 DEF RemoveAppRoute, Fails, MaybeRouted, MaybeSaved, Aside

LEMMA ListRoutedEffect ==
  ASSUME Typed, ListRouted
  PROVE  /\ run.pc = "listStop" /\ Overlooked /\ strayed' = strayed /\ Loses /\ undeleted' = undeleted
         /\ \/ /\ UNCHANGED domains /\ UNCHANGED config /\ Aside /\ NoMishap
               /\ LET todo == {d \in Domains : Exists(d) /\ domains[d].verified}
                  IN  Moved(IF todo = {} THEN "halt" ELSE "unroute", todo)
            \/ Fails("halt")
  <1> DEFINE todo == {d \in Domains : Exists(d) /\ domains[d].verified}
  <1>1. run \in Run /\ todo \in SUBSET Domains
    BY DEF Typed
  <1> HIDE DEF todo
  <1>2. NextUnrouted(todo) => Moved(IF todo = {} THEN "halt" ELSE "unroute", todo)
    BY <1>1, NextUnroutedEffect
  <1>3. AfterFailure("halt") => Failed("halt")
    BY <1>1, FailureEffect
  <1>4. /\ run.pc = "listStop" /\ Overlooked /\ strayed' = strayed /\ undeleted' = undeleted
        /\ UNCHANGED domains /\ UNCHANGED config /\ Aside
        /\ (NextUnrouted(todo) /\ NoMishap) \/ (Mishap /\ AfterFailure("halt"))
    BY DEF ListRouted, Aside, todo
  <1> QED BY <1>2, <1>3, <1>4, GhostsTyped DEF Fails, MaybeRouted, MaybeSaved, Aside, todo

LEMMA RemoveDomainRouteEffect ==
  ASSUME Typed, RemoveDomainRoute
  PROVE  /\ run.pc = "unroute" /\ Todo \in Domains
         /\ \/ /\ Delete(Todo) /\ Moved("unrouteSave", run.todo) /\ NoMishap
               /\ UNCHANGED domains /\ GhostsKept /\ Aside
            \/ Fails("halt")
  <1>1. run \in Run /\ "unrouteSave" \in RunPcs
    BY DEF Typed, RunPcs, Unrouting
  <1>2. Go("unrouteSave") => Moved("unrouteSave", run.todo)
    BY <1>1, GoEffect
  <1>3. AfterFailure("halt") => Failed("halt")
    BY <1>1, FailureEffect
  <1>4. run.pc = "unroute" /\ Todo \in Domains
    BY Listed DEF RemoveDomainRoute, Unrouting, Todo
  <1>5. (ghosts' = ghosts => GhostsKept) /\ (GhostsKept => Loses /\ undeleted' = undeleted)
    BY GhostsTyped DEF Grows, GhostsKept
  <1>6. Delete(Todo) \/ UNCHANGED config => MaybeRouted
    BY <1>4 DEF MaybeRouted
  <1>7. /\ \/ Delete(Todo) /\ Go("unrouteSave") /\ NoMishap
           \/ Mishap /\ AfterFailure("halt") /\ (Delete(Todo) \/ UNCHANGED config)
        /\ UNCHANGED <<domains, active, up, released, request, ghosts>>
    BY DEF RemoveDomainRoute, Todo
  <1> QED BY <1>2, <1>3, <1>4, <1>5, <1>6, <1>7 DEF Fails, MaybeSaved, Aside

LEMMA SaveRemovedEffect ==
  ASSUME Typed, SaveRemoved
  PROVE  /\ run.pc = "unrouteSave" /\ Todo \in Domains
         /\ Unseen(Todo, ~domains[Todo].verified \/ Known(Todo)) /\ Loses /\ undeleted' = undeleted
         /\ \/ /\ Saved(Todo, "verified", TRUE) /\ domains' \in [Domains -> Row]
               /\ Moved(IF run.todo \ {Todo} = {} THEN "halt" ELSE "unroute", run.todo \ {Todo})
               /\ UNCHANGED config /\ Aside /\ NoMishap
            \/ Fails("halt")
  <1> DEFINE todo == run.todo \ {Todo}
  <1>1. run \in Run /\ todo \in SUBSET Domains /\ domains \in [Domains -> Row]
    BY DEF Typed, Run
  <1>2. /\ run.pc = "unrouteSave" /\ Aside /\ UNCHANGED config
        /\ Unseen(Todo, ~domains[Todo].verified \/ Known(Todo))
        /\ strayed' = strayed /\ undeleted' = undeleted
    BY DEF SaveRemoved, Aside, Todo
  <1>3. Todo \in Domains
    BY <1>2, Listed DEF Unrouting, Todo
  <1>4. UpdateVerification(Todo, "verified", TRUE) =>
          Saved(Todo, "verified", TRUE) /\ domains' \in [Domains -> Row]
    BY <1>1, <1>3, SaveEffect
  <1>5. \/ UpdateVerification(Todo, "verified", TRUE) /\ NextUnrouted(todo) /\ NoMishap
        \/ /\ Mishap /\ AfterFailure("halt")
           /\ UpdateVerification(Todo, "verified", TRUE) \/ UNCHANGED domains
    BY DEF SaveRemoved, Todo
  <1> HIDE DEF todo
  <1>6. NextUnrouted(todo) => Moved(IF todo = {} THEN "halt" ELSE "unroute", todo)
    BY <1>1, NextUnroutedEffect
  <1>7. AfterFailure("halt") => Failed("halt")
    BY <1>1, FailureEffect
  <1>8. (~domains[Todo].verified \/ Known(Todo)) \in BOOLEAN
    BY DEF Known
  <1>9. Loses
    BY <1>2, <1>3, <1>8, GhostsTyped
  <1> QED BY <1>2, <1>3, <1>4, <1>5, <1>6, <1>7, <1>9 DEF Fails, MaybeRouted, MaybeSaved, Aside, todo

Recovering == run.kind \in {"deploy", "undo", "recover"} /\ run.candidate # active

LEMMA CrashEffect ==
  ASSUME Typed, Crash
  PROVE  /\ Mishap /\ UNCHANGED <<config, domains, active, released>> /\ Grows
         /\ request' = [q \in Requests |-> NoRequest]
         /\ \A q \in Requests, d \in Domains : d = request[q].domain =>
              /\ request[q].pc = "persist" /\ Known(d)' /\ ~domains'[d].verified => d \in Lost'
              /\ request[q].pc = "drop" /\ ~Known(d)' => d \in undeleted'
         /\ \/ Recovering /\ Restored("recover", active) /\ UNCHANGED up
            \/ ~Recovering /\ Ended /\ up' = up \cap {active, run.previous}
  <1> DEFINE saving == {d \in Domains : \E q \in Requests : InRequest(q, d, "persist")}
             dropping == {d \in Domains : \E q \in Requests : InRequest(q, d, "drop")}
  <1>1. run \in Run /\ active \in Nat
    BY DEF Typed
  <1>2. /\ Mishap /\ UNCHANGED <<config, domains, active, released>>
        /\ request' = [q \in Requests |-> NoRequest]
        /\ stale' = stale /\ LeavesStrayed(saving) /\ LeavesUndeleted(dropping)
    BY DEF Crash
  <1>3. ASSUME NEW q \in Requests, NEW d \in Domains, d = request[q].domain
        PROVE  /\ request[q].pc = "persist" => d \in saving
               /\ request[q].pc = "drop" => d \in dropping
    BY <1>3 DEF InRequest
  <1>4. saving \in SUBSET Domains /\ dropping \in SUBSET Domains
    OBVIOUS
  <1> HIDE DEF saving, dropping
  <1>5. /\ strayed \subseteq strayed' /\ strayed' \subseteq Domains
        /\ \A d \in saving : Known(d)' /\ ~domains'[d].verified => d \in Lost'
        /\ undeleted \subseteq undeleted' /\ undeleted' \subseteq Domains
        /\ \A d \in dropping : ~Known(d)' => d \in undeleted'
    BY <1>2, <1>4, StrayedTyped
  <1>6. Grows
    BY <1>2, <1>5 DEF Typed, Lost, Grows, Loses
  <1>7. \/ Recovering /\ Restored("recover", active) /\ UNCHANGED up
        \/ ~Recovering /\ Ended /\ up' = up \cap {active, run.previous}
    BY <1>1, RestoringEffect, IdleEffect DEF Crash, Recovering
  <1>8. ASSUME NEW q \in Requests, NEW d \in Domains, d = request[q].domain
        PROVE  /\ request[q].pc = "persist" /\ Known(d)' /\ ~domains'[d].verified => d \in Lost'
               /\ request[q].pc = "drop" /\ ~Known(d)' => d \in undeleted'
    BY <1>3, <1>5, <1>8
  <1> QED BY <1>2, <1>6, <1>7, <1>8

-----------------------------------------------------------------------------
(* The steps of the requests, with what each of them leaves.               *)
Beside == UNCHANGED <<active, up, released, run>> /\ mishaps' \in Nat /\ Grows

\* A verification that ends leaves its domain astray if routed and not verified.
Strays(d) == Known(d)' /\ ~domains'[d].verified => d \in Lost'

LEMMA MishapsTyped ==
  ASSUME mishaps \in Nat, Mishap \/ NoMishap
  PROVE  mishaps' \in Nat
  BY DEF Mishap, NoMishap

LEMMA LookupFailsEffect ==
  ASSUME Typed, NEW q \in Requests, NEW d, d = request[q].domain, LookupFails(q)
  PROVE  /\ request[q].pc = "lookup" /\ d \in Domains /\ Beside /\ UNCHANGED config
         /\ undeleted' = undeleted /\ Answered(q) /\ Strays(d)
         /\ \/ Saved(d, "error", FALSE) /\ domains' \in [Domains -> Row]
            \/ UNCHANGED domains
  <1>1. request[q].pc = "lookup" /\ d \in Domains
    BY DEF LookupFails, Typed
  <1>2. /\ \/ UpdateVerification(d, "error", FALSE) /\ NoMishap
           \/ Mishap /\ UNCHANGED domains
        /\ EndRequest(q) /\ LeavesStrayed({d})
        /\ UNCHANGED <<config, active, up, released, run, stale, undeleted>>
    BY DEF LookupFails
  <1>3. /\ domains \in [Domains -> Row] /\ request \in [Requests -> Request] /\ mishaps \in Nat
    BY DEF Typed
  <1>4. strayed \subseteq strayed' /\ strayed' \subseteq Domains /\ Strays(d)
    <2>1. {d} \in SUBSET Domains
      BY <1>1
    <2> QED BY <1>2, <2>1, StrayedTyped DEF Strays
  <1>5. Grows
    BY <1>2, <1>4 DEF Typed, Lost, Grows, Loses
  <1>6. UpdateVerification(d, "error", FALSE) =>
          Saved(d, "error", FALSE) /\ domains' \in [Domains -> Row]
    BY <1>1, <1>3, SaveEffect
  <1>7. mishaps' \in Nat
    BY <1>2, <1>3, MishapsTyped
  <1> QED BY <1>1, <1>2, <1>3, <1>4, <1>5, <1>6, <1>7, EndRequestEffect DEF Beside

\* The switch of a verification fails.
Unrouted(q, d) ==
  /\ \/ Saved(d, "error", TRUE) /\ domains' \in [Domains -> Row]
     \/ UNCHANGED domains
  /\ Answered(q) /\ Strays(d)

LEMMA RouteFailsEffect ==
  ASSUME Typed, NEW q \in Requests, NEW d \in Domains, d = request[q].domain,
         UpdateVerification(d, "error", TRUE) \/ UNCHANGED domains, EndRequest(q),
         LeavesStrayed({d})
  PROVE  Unrouted(q, d) /\ strayed \subseteq strayed' /\ strayed' \subseteq Domains
  <1>1. domains \in [Domains -> Row] /\ request \in [Requests -> Request]
    BY DEF Typed
  <1>2. UpdateVerification(d, "error", TRUE) =>
          Saved(d, "error", TRUE) /\ domains' \in [Domains -> Row]
    BY <1>1, SaveEffect
  <1>3. strayed \subseteq strayed' /\ strayed' \subseteq Domains /\ Strays(d)
    <2>1. {d} \in SUBSET Domains
      OBVIOUS
    <2> QED BY <2>1, StrayedTyped DEF Strays
  <1> QED BY <1>1, <1>2, <1>3, EndRequestEffect DEF Unrouted

LEMMA RouteDomainEffect ==
  ASSUME Typed, NEW q \in Requests, NEW d, d = request[q].domain, RouteDomain(q)
  PROVE  /\ request[q].pc = "route" /\ d \in Domains /\ Beside
         /\ Unseen(d, Outdated(q) \/ ~Exists(d)) /\ undeleted' = undeleted
         /\ \/ Patch(DomainRoute(d, request[q].dial)) /\ Asked(q, "persist") /\ UNCHANGED domains
            \/ ~Known(d) /\ UNCHANGED config /\ Asked(q, "add") /\ UNCHANGED domains
            \/ /\ Patch(DomainRoute(d, request[q].dial)) \/ UNCHANGED config
               /\ Unrouted(q, d)
  <1> DEFINE Switched == Patch(DomainRoute(d, request[q].dial))
  <1>1. request[q].pc = "route" /\ d \in Domains
    BY DEF RouteDomain, Typed
  <1>2. /\ \/ /\ TryPatch(DomainRoute(d, request[q].dial), GoRequest(q, "persist"), GoRequest(q, "add"))
              /\ NoMishap /\ UNCHANGED <<domains, strayed>>
           \/ /\ Mishap /\ (UpdateVerification(d, "error", TRUE) \/ UNCHANGED domains)
              /\ EndRequest(q) /\ (Switched \/ UNCHANGED config)
              /\ LeavesStrayed({d})
        /\ Unseen(d, Outdated(q) \/ ~Exists(d)) /\ UNCHANGED <<active, up, released, run, undeleted>>
    BY DEF RouteDomain, RouteFails
  <1>3. (Outdated(q) \/ ~Exists(d)) \in BOOLEAN
    BY DEF Outdated
  <1>5. DomainRoute(d, request[q].dial).id = d
    BY DEF DomainRoute, RouteOf
  <1>6. /\ request \in [Requests -> Request] /\ "persist" \in RequestPcs /\ "add" \in RequestPcs
        /\ mishaps \in Nat
    BY DEF Typed, RequestPcs, Asking
  <1>7. GoRequest(q, "persist") => Asked(q, "persist")
    BY <1>6, GoRequestEffect
  <1>8. GoRequest(q, "add") => Asked(q, "add")
    BY <1>6, GoRequestEffect
  <1>10. mishaps' \in Nat
    BY <1>2, <1>6, MishapsTyped
  <1>11. CASE /\ TryPatch(DomainRoute(d, request[q].dial), GoRequest(q, "persist"), GoRequest(q, "add"))
              /\ UNCHANGED <<domains, strayed>>
    <2>1. Loses
      BY <1>1, <1>2, <1>3, <1>11, GhostsTyped
    <2> QED BY <1>1, <1>2, <1>5, <1>7, <1>8, <1>10, <1>11, <2>1 DEF Beside, TryPatch, Grows, Typed
  <1>12. CASE /\ Mishap /\ (UpdateVerification(d, "error", TRUE) \/ UNCHANGED domains)
              /\ EndRequest(q) /\ (Switched \/ UNCHANGED config)
              /\ LeavesStrayed({d})
    <2>1. Unrouted(q, d) /\ strayed \subseteq strayed' /\ strayed' \subseteq Domains
      BY <1>1, <1>12, RouteFailsEffect
    <2>2. Loses
      BY <1>1, <1>2, <1>3, <2>1, GhostsTyped
    <2> QED BY <1>1, <1>2, <1>10, <1>12, <2>1, <2>2 DEF Beside, Grows, Typed
  <1> QED BY <1>2, <1>11, <1>12

LEMMA AddDomainRouteEffect ==
  ASSUME Typed, NEW q \in Requests, NEW d, d = request[q].domain, AddDomainRoute(q)
  PROVE  /\ request[q].pc = "add" /\ d \in Domains /\ Beside
         /\ Unseen(d, Outdated(q) \/ ~Exists(d) \/ Known(d)) /\ undeleted' = undeleted
         /\ \/ Post(DomainRoute(d, request[q].dial)) /\ Asked(q, "persist") /\ UNCHANGED domains
            \/ /\ Post(DomainRoute(d, request[q].dial)) \/ UNCHANGED config
               /\ Unrouted(q, d)
  <1> DEFINE Switched == Post(DomainRoute(d, request[q].dial))
  <1>1. request[q].pc = "add" /\ d \in Domains
    BY DEF AddDomainRoute, Typed
  <1>2. /\ \/ /\ Switched /\ GoRequest(q, "persist")
              /\ NoMishap /\ UNCHANGED <<domains, strayed>>
           \/ /\ Mishap /\ (UpdateVerification(d, "error", TRUE) \/ UNCHANGED domains)
              /\ EndRequest(q) /\ (Switched \/ UNCHANGED config)
              /\ LeavesStrayed({d})
        /\ Unseen(d, Outdated(q) \/ ~Exists(d) \/ Known(d))
        /\ UNCHANGED <<active, up, released, run, undeleted>>
    BY DEF AddDomainRoute, RouteFails
  <1>3. (Outdated(q) \/ ~Exists(d) \/ Known(d)) \in BOOLEAN
    BY DEF Outdated
  <1>6. request \in [Requests -> Request] /\ "persist" \in RequestPcs /\ mishaps \in Nat
    BY DEF Typed, RequestPcs, Asking
  <1>7. GoRequest(q, "persist") => Asked(q, "persist")
    BY <1>6, GoRequestEffect
  <1>10. mishaps' \in Nat
    BY <1>2, <1>6, MishapsTyped
  <1>11. CASE Switched /\ GoRequest(q, "persist") /\ UNCHANGED <<domains, strayed>>
    <2>1. Loses
      BY <1>1, <1>2, <1>3, <1>11, GhostsTyped
    <2> QED BY <1>1, <1>2, <1>7, <1>10, <1>11, <2>1 DEF Beside, Grows, Typed
  <1>12. CASE /\ Mishap /\ (UpdateVerification(d, "error", TRUE) \/ UNCHANGED domains)
              /\ EndRequest(q) /\ (Switched \/ UNCHANGED config)
              /\ LeavesStrayed({d})
    <2>1. Unrouted(q, d) /\ strayed \subseteq strayed' /\ strayed' \subseteq Domains
      BY <1>1, <1>12, RouteFailsEffect
    <2>2. Loses
      BY <1>1, <1>2, <1>3, <2>1, GhostsTyped
    <2> QED BY <1>1, <1>2, <1>10, <1>12, <2>1, <2>2 DEF Beside, Grows, Typed
  <1> QED BY <1>2, <1>11, <1>12

\* What Verify saves at its end.
Outcome(q) == IF request[q].dial = NoRelease THEN "verified" ELSE "active"

Misled(q) == Outdated(q) \/ (request[q].dial # NoRelease /\ ~Known(request[q].domain))

LEMMA PersistEffect ==
  ASSUME Typed, NEW q \in Requests, NEW d, d = request[q].domain, Persist(q)
  PROVE  /\ request[q].pc = "persist" /\ d \in Domains /\ Beside /\ UNCHANGED config /\ Answered(q)
         /\ undeleted' = undeleted /\ Strays(d)
         /\ \/ /\ Saved(d, Outcome(q), TRUE) /\ domains' \in [Domains -> Row]
               /\ Misled(q) => d \in Lost'
            \/ UNCHANGED domains
  <1>1. request[q].pc = "persist" /\ d \in Domains
    BY DEF Persist, Typed
  <1>2. /\ \/ /\ UpdateVerification(d, Outcome(q), TRUE) /\ (NoMishap \/ Mishap)
              /\ Unseen(d, Misled(q))
           \/ Mishap /\ UNCHANGED <<domains, stale>>
        /\ EndRequest(q) /\ UNCHANGED <<config, active, up, released, run, undeleted>>
        /\ LeavesStrayed({d})
    BY DEF Persist, Outcome, Misled
  <1>3. Misled(q) \in BOOLEAN
    BY DEF Misled, Outdated, Known
  <1>4. strayed \subseteq strayed' /\ strayed' \subseteq Domains /\ Strays(d)
    <2>1. {d} \in SUBSET Domains
      BY <1>1
    <2> QED BY <1>2, <2>1, StrayedTyped DEF Strays
  <1>5. /\ domains \in [Domains -> Row] /\ request \in [Requests -> Request] /\ mishaps \in Nat
        /\ Outcome(q) \in {"verified", "active", "error"}
    BY DEF Typed, Outcome
  <1>6. UpdateVerification(d, Outcome(q), TRUE) =>
          Saved(d, Outcome(q), TRUE) /\ domains' \in [Domains -> Row]
    BY <1>1, <1>5, SaveEffect
  <1>7. mishaps' \in Nat
    BY <1>2, <1>5, MishapsTyped
  <1>8. Unseen(d, Misled(q)) => Loses /\ (Misled(q) => d \in Lost')
    BY <1>1, <1>3, <1>4, GhostsTyped
  <1>9. stale' = stale => Loses
    BY <1>4 DEF Typed, Lost, Loses
  <1>10. Grows
    BY <1>2, <1>8, <1>9 DEF Grows, Typed
  <1> QED BY <1>1, <1>2, <1>4, <1>5, <1>6, <1>7, <1>8, <1>10, EndRequestEffect DEF Beside

LEMMA RemoveRouteFirstEffect ==
  ASSUME Typed, NEW q \in Requests, NEW d, d = request[q].domain, RemoveRouteFirst(q)
  PROVE  /\ request[q].pc = "unroute" /\ d \in Domains /\ Beside /\ UNCHANGED domains
         /\ Lost' = Lost
         /\ \/ Delete(d) /\ Asked(q, "drop") /\ undeleted' = undeleted
            \/ /\ Delete(d) \/ UNCHANGED config
               /\ Answered(q) /\ (~Known(d)' => d \in undeleted')
  <1>1. request[q].pc = "unroute" /\ d \in Domains
    BY DEF RemoveRouteFirst, Typed
  <1>2. /\ \/ Delete(d) /\ GoRequest(q, "drop") /\ NoMishap /\ undeleted' = undeleted
           \/ /\ Mishap /\ EndRequest(q) /\ (Delete(d) \/ UNCHANGED config)
              /\ LeavesUndeleted({d})
        /\ UNCHANGED <<domains, active, up, released, run, stale, strayed>>
    BY DEF RemoveRouteFirst
  <1>3. /\ request \in [Requests -> Request] /\ mishaps \in Nat
        /\ Lost' = Lost /\ Lost \subseteq Domains /\ undeleted \subseteq Domains
        /\ "drop" \in RequestPcs
    BY <1>2 DEF Typed, RequestPcs, Asking, Lost
  <1>4. GoRequest(q, "drop") => Asked(q, "drop")
    BY <1>3, GoRequestEffect
  <1>5. mishaps' \in Nat
    BY <1>2, <1>3, MishapsTyped
  <1>6. LeavesUndeleted({d}) =>
          undeleted \subseteq undeleted' /\ undeleted' \subseteq Domains /\ (~Known(d)' => d \in undeleted')
    <2>1. {d} \in SUBSET Domains
      BY <1>1
    <2> QED BY <2>1, StrayedTyped
  <1>7. Grows
    BY <1>2, <1>3, <1>6 DEF Grows, Loses
  <1> QED BY <1>1, <1>2, <1>3, <1>4, <1>5, <1>6, <1>7, EndRequestEffect DEF Beside

Withdrawn(d) ==
  /\ \A e \in Domains \ {d} : domains'[e] = domains[e]
  /\ domains'[d].status = "deleted" /\ domains'[d].verified = FALSE
  /\ domains'[d].host = domains[d].host

LEMMA DropEffect ==
  ASSUME Typed, NEW q \in Requests, NEW d, d = request[q].domain, Drop(q)
  PROVE  /\ request[q].pc = "drop" /\ d \in Domains /\ Beside /\ UNCHANGED config /\ Answered(q)
         /\ \/ /\ Withdrawn(d) /\ domains' \in [Domains -> Row] /\ undeleted' = undeleted
               /\ Known(d) => d \in Lost'
            \/ UNCHANGED domains /\ Lost' = Lost /\ (~Known(d)' => d \in undeleted')
  <1>1. request[q].pc = "drop" /\ d \in Domains
    BY DEF Drop, Typed
  <1>2. /\ \/ /\ domains' = [domains EXCEPT ![d].status = "deleted", ![d].verified = FALSE]
              /\ NoMishap \/ Mishap
              /\ Unseen(d, Known(d) /\ d \notin strayed) /\ undeleted' = undeleted
           \/ Mishap /\ UNCHANGED <<domains, stale>> /\ LeavesUndeleted({d})
        /\ EndRequest(q) /\ UNCHANGED <<config, active, up, released, run, strayed>>
    BY DEF Drop
  <1>3. (Known(d) /\ d \notin strayed) \in BOOLEAN
    BY DEF Known
  <1>4. Unseen(d, Known(d) /\ d \notin strayed) => Loses /\ (Known(d) => d \in Lost')
    <2>1. Unseen(d, Known(d) /\ d \notin strayed) =>
            Loses /\ (Known(d) /\ d \notin strayed => d \in Lost')
      BY <1>1, <1>2, <1>3, GhostsTyped
    <2>2. d \in strayed => d \in Lost'
      BY <1>2 DEF Lost
    <2> QED BY <2>1, <2>2
  <1>5. /\ domains \in [Domains -> Row] /\ request \in [Requests -> Request] /\ mishaps \in Nat
        /\ Lost \subseteq Domains /\ undeleted \subseteq Domains
    BY DEF Typed
  <1>6. ASSUME domains' = [domains EXCEPT ![d].status = "deleted", ![d].verified = FALSE]
        PROVE  Withdrawn(d) /\ domains' \in [Domains -> Row]
    <2> DEFINE row == [domains[d] EXCEPT !.status = "deleted", !.verified = FALSE]
    <2>1. domains[d] \in Row
      BY <1>1, <1>5
    <2>2. /\ row \in Row /\ row.status = "deleted" /\ row.verified = FALSE
          /\ row.host = domains[d].host
      BY <2>1 DEF Row
    <2>3. domains' = [domains EXCEPT ![d] = row]
      BY <1>6
    <2> HIDE DEF row
    <2> QED BY <1>1, <1>5, <2>2, <2>3 DEF Withdrawn
  <1>7. mishaps' \in Nat
    BY <1>2, <1>5, MishapsTyped
  <1>8. LeavesUndeleted({d}) =>
          undeleted \subseteq undeleted' /\ undeleted' \subseteq Domains /\ (~Known(d)' => d \in undeleted')
    <2>1. {d} \in SUBSET Domains
      BY <1>1
    <2> QED BY <2>1, StrayedTyped
  <1>9. stale' = stale => Lost' = Lost
    BY <1>2 DEF Lost
  <1>10. Grows
    BY <1>2, <1>4, <1>5, <1>8, <1>9 DEF Grows, Loses
  <1> QED BY <1>1, <1>2, <1>4, <1>5, <1>6, <1>7, <1>8, <1>9, <1>10, EndRequestEffect DEF Beside

LEMMA CreateEffect ==
  ASSUME Typed, NEW d \in Domains, NEW host \in Hostnames, Create(d, host)
  PROVE  /\ domains' \in [Domains -> Row]
         /\ \A e \in Domains \ {d} : domains'[e] = domains[e]
         /\ domains[d].status = "absent" /\ domains'[d].status = "pending"
         /\ domains'[d].verified = FALSE /\ domains'[d].host = host
         /\ NormalizeHostname(host) /\ \A e \in Domains : Exists(e) => domains[e].host # host
         /\ UNCHANGED <<config, active, up, released, run, mishaps, request>> /\ GhostsKept
  <1> DEFINE row == [status |-> "pending", verified |-> FALSE, host |-> host]
  <1>1. row \in Row /\ row.status = "pending" /\ row.verified = FALSE /\ row.host = host
    BY DEF Row, Hosts
  <1>2. domains \in [Domains -> Row] /\ domains' = [domains EXCEPT ![d] = row]
    BY DEF Create, Typed
  <1> HIDE DEF row
  <1>3. /\ domains' \in [Domains -> Row] /\ domains'[d] = row
        /\ \A e \in Domains \ {d} : domains'[e] = domains[e]
    BY <1>1, <1>2
  <1> QED BY <1>1, <1>3, GhostsTyped DEF Create, rest

-----------------------------------------------------------------------------
LEMMA ConfigTyped ==
  ASSUME Typed
  PROVE  /\ \A r \in Nat : Patch(AppRoute(r)) \/ Post(AppRoute(r)) => config' \in Seq(Route)
         /\ \A d \in Domains, r \in Nat :
              Patch(DomainRoute(d, r)) \/ Post(DomainRoute(d, r)) => config' \in Seq(Route)
         /\ \A x : Delete(x) => config' \in Seq(Route)
         /\ UNCHANGED config => config' \in Seq(Route)
  <1>1. config \in Seq(Route)
    BY DEF Typed
  <1>2. ASSUME NEW r \in Nat PROVE AppRoute(r) \in Route
    BY RoutesTyped DEF AppRoute, Ids, Hosts
  <1>3. ASSUME NEW d \in Domains, NEW r \in Nat PROVE DomainRoute(d, r) \in Route
    <2>1. domains[d].host \in Hosts
      BY DEF Typed, Row
    <2> QED BY <2>1, RoutesTyped DEF DomainRoute, Ids
  <1> QED BY <1>1, <1>2, <1>3, PatchTyped, PostTyped, DeleteTyped

RunKept == /\ run' \in Run
           /\ run'.pc \in Items \cup Unrouting => run'.todo # {}

LEMMA FailsTyped ==
  ASSUME Typed, NEW next \in {"discard", "halt"}, Fails(next)
  PROVE  Typed'
  <1>1. RunKept
    BY DEF Fails, Failed, Restored, Ended, Begun, Moved, RunKept, Items, Unrouting, Idle
  <1>2. mishaps' \in Nat
    BY DEF Fails, Mishap, Typed
  <1>3. config' \in Seq(Route)
    BY ConfigTyped DEF Fails, MaybeRouted, Typed, Run
  <1>4. domains' \in [Domains -> Row]
    BY DEF Fails, MaybeSaved, Typed
  <1>5. active' \in Nat
    BY DEF Fails, Typed, Run
  <1> QED BY <1>1, <1>2, <1>3, <1>4, <1>5 DEF Fails, Loses, Typed, RunKept

LEMMA RolloutTyped ==
  ASSUME Typed, RolloutStep
  PROVE  Typed'
  <1>1. /\ run \in Run /\ run.dial \in Nat /\ run.candidate \in Nat /\ mishaps \in Nat /\ active \in Nat
        /\ released \in Nat
    BY DEF Typed, Run
  <1>2. CASE Deploy
    <2>1. Begun("deploy", "app")
      BY <1>1, <1>2, DeployEffect
    <2>2. RunKept
      BY <2>1 DEF Begun, RunKept, Items, Unrouting
    <2>3. GhostsKept
      BY <1>2, GhostsTyped DEF Deploy
    <2> QED BY <1>2, <2>2, <2>3 DEF Deploy, Typed, RunKept, GhostsKept
  <1>3. CASE SwitchApp
    <2>1. RunKept
      BY <1>3, SwitchAppEffect DEF Moved, SwitchFailed, RunKept, Items, Unrouting
    <2>2. config' \in Seq(Route) /\ mishaps' \in Nat
      BY <1>1, <1>3, SwitchAppEffect, ConfigTyped, MishapsTyped
    <2> QED BY <1>3, <2>1, <2>2, SwitchAppEffect DEF Typed, Aside, RunKept, GhostsKept
  <1>4. CASE CreateAppRoute
    <2>1. RunKept
      BY <1>4, CreateAppRouteEffect DEF Moved, SwitchFailed, RunKept, Items, Unrouting
    <2>2. config' \in Seq(Route) /\ mishaps' \in Nat
      BY <1>1, <1>4, CreateAppRouteEffect, ConfigTyped, MishapsTyped
    <2> QED BY <1>4, <2>1, <2>2, CreateAppRouteEffect DEF Typed, Aside, RunKept, GhostsKept
  <1>5. CASE ListDomains
    <2> DEFINE todo == {d \in Domains : Synced(d)}
    <2>1. CASE Fails("discard")
      BY <2>1, FailsTyped
    <2>2. CASE /\ UNCHANGED domains /\ UNCHANGED config /\ Aside /\ NoMishap
               /\ Moved(IF todo = {} THEN AfterSync ELSE "item", todo)
      <3> HIDE DEF todo
      <3>1. RunKept
        BY <2>2 DEF Moved, RunKept, Items, Unrouting, AfterSync
      <3>2. Lost' \subseteq Domains /\ undeleted' = undeleted
        BY <1>5, ListDomainsEffect DEF Loses
      <3> QED BY <2>2, <3>1, <3>2 DEF Typed, Aside, RunKept, NoMishap
    <2> QED BY <1>5, <2>1, <2>2, ListDomainsEffect
  <1>6. CASE SyncDomain
    <2>1. CASE Fails("discard")
      BY <2>1, FailsTyped
    <2>2. CASE ~Fails("discard")
      <3>1. run.pc = "item" /\ run.todo # {}
        BY <1>6, SyncDomainEffect DEF Typed, Items
      <3>2. RunKept
        BY <1>6, <2>2, <3>1, SyncDomainEffect DEF Moved, RunKept, Items, Unrouting
      <3>3. config' \in Seq(Route)
        BY <1>1, <1>6, <2>2, SyncDomainEffect, ConfigTyped
      <3>5. Lost' \subseteq Domains /\ undeleted' = undeleted
        BY <1>6, SyncDomainEffect DEF Loses
      <3> QED BY <1>6, <2>2, <3>2, <3>3, <3>5, SyncDomainEffect DEF Typed, Aside, RunKept, NoMishap
    <2> QED BY <2>1, <2>2
  <1>7. CASE CreateSyncedRoute
    <2>1. CASE Fails("discard")
      BY <2>1, FailsTyped
    <2>2. CASE ~Fails("discard")
      <3>1. run.pc = "itemNew" /\ run.todo # {}
        BY <1>7, CreateSyncedRouteEffect DEF Typed, Items
      <3>2. RunKept
        BY <1>7, <2>2, <3>1, CreateSyncedRouteEffect DEF Moved, RunKept, Items, Unrouting
      <3>3. config' \in Seq(Route)
        BY <1>1, <1>7, <2>2, CreateSyncedRouteEffect, ConfigTyped
      <3>5. Lost' \subseteq Domains /\ undeleted' = undeleted
        BY <1>7, CreateSyncedRouteEffect DEF Loses
      <3> QED BY <1>7, <2>2, <3>2, <3>3, <3>5, CreateSyncedRouteEffect
                DEF Typed, Aside, RunKept, NoMishap
    <2> QED BY <2>1, <2>2
  <1>8. CASE SaveSynced
    <2>1. CASE Fails("discard")
      BY <2>1, FailsTyped
    <2>2. CASE ~Fails("discard")
      <3>1. RunKept
        BY <1>8, <2>2, SaveSyncedEffect DEF Moved, RunKept, Items, Unrouting, AfterSync
      <3>3. Lost' \subseteq Domains /\ undeleted' = undeleted
        BY <1>8, SaveSyncedEffect DEF Loses
      <3> QED BY <1>8, <2>2, <3>1, <3>3, SaveSyncedEffect DEF Typed, Aside, RunKept, NoMishap
    <2> QED BY <2>1, <2>2
  <1>9. CASE Promote
    <2>1. CASE Fails("discard")
      BY <2>1, FailsTyped
    <2>2. CASE ~Fails("discard")
      <3>1. RunKept
        BY <1>9, <2>2, PromoteEffect DEF Moved, RunKept, Items, Unrouting
      <3> QED BY <1>1, <1>9, <2>2, <3>1, PromoteEffect DEF Typed, RunKept, NoMishap, GhostsKept
    <2> QED BY <2>1, <2>2
  <1>10. CASE Retire \/ Discard \/ Halt
    <2>1. Ended /\ active' \in Nat /\ up' \subseteq Nat
      <3>1. run' = Idle /\ (active' = active \/ active' = 0) /\ up' \subseteq up
        BY <1>10 DEF Retire, Discard, Halt, NoRelease
      <3> QED BY <1>1, <3>1, IdleEffect DEF Typed
    <2>2. RunKept
      BY <2>1 DEF Ended, Begun, RunKept, Items, Unrouting
    <2>3. GhostsKept
      BY <1>10, GhostsTyped DEF Retire, Discard, Halt
    <2> QED BY <1>10, <2>1, <2>2, <2>3 DEF Retire, Discard, Halt, Typed, RunKept, GhostsKept
  <1>11. CASE Stop
    <2>1. RunKept
      BY <1>11, StopEffect DEF Begun, RunKept, Items, Unrouting
    <2>2. GhostsKept
      BY <1>11, GhostsTyped DEF Stop
    <2> QED BY <1>11, <2>1, <2>2 DEF Stop, Typed, RunKept, GhostsKept
  <1>12. CASE RemoveAppRoute
    <2>1. CASE Fails("discard")
      BY <2>1, FailsTyped
    <2>2. CASE ~Fails("discard")
      <3>1. RunKept
        BY <1>12, <2>2, RemoveAppRouteEffect DEF Moved, RunKept, Items, Unrouting, AfterRemove
      <3>2. config' \in Seq(Route)
        BY <1>12, <2>2, RemoveAppRouteEffect, ConfigTyped
      <3> QED BY <1>12, <2>2, <3>1, <3>2, RemoveAppRouteEffect DEF Typed, RunKept, NoMishap, Aside, GhostsKept
    <2> QED BY <2>1, <2>2
  <1>13. CASE ListRouted
    <2> DEFINE todo == {d \in Domains : Exists(d) /\ domains[d].verified}
    <2>1. CASE Fails("halt")
      BY <2>1, FailsTyped
    <2>2. CASE /\ UNCHANGED domains /\ UNCHANGED config /\ Aside /\ NoMishap
               /\ Moved(IF todo = {} THEN "halt" ELSE "unroute", todo)
      <3> HIDE DEF todo
      <3>1. RunKept
        BY <2>2 DEF Moved, RunKept, Items, Unrouting
      <3>2. Lost' \subseteq Domains /\ undeleted' = undeleted
        BY <1>13, ListRoutedEffect DEF Loses
      <3> QED BY <2>2, <3>1, <3>2 DEF Typed, Aside, RunKept, NoMishap
    <2> QED BY <1>13, <2>1, <2>2, ListRoutedEffect
  <1>14. CASE RemoveDomainRoute
    <2>1. CASE Fails("halt")
      BY <2>1, FailsTyped
    <2>2. CASE ~Fails("halt")
      <3>1. run.pc = "unroute" /\ run.todo # {}
        BY <1>14, RemoveDomainRouteEffect DEF Typed, Unrouting
      <3>2. RunKept
        BY <1>14, <2>2, <3>1, RemoveDomainRouteEffect DEF Moved, RunKept, Items, Unrouting
      <3>3. config' \in Seq(Route)
        BY <1>14, <2>2, RemoveDomainRouteEffect, ConfigTyped
      <3> QED BY <1>14, <2>2, <3>2, <3>3, RemoveDomainRouteEffect DEF Typed, Aside, RunKept, NoMishap, GhostsKept
    <2> QED BY <2>1, <2>2
  <1>15. CASE SaveRemoved
    <2>1. CASE Fails("halt")
      BY <2>1, FailsTyped
    <2>2. CASE ~Fails("halt")
      <3>1. RunKept
        BY <1>15, <2>2, SaveRemovedEffect DEF Moved, RunKept, Items, Unrouting
      <3>3. Lost' \subseteq Domains /\ undeleted' = undeleted
        BY <1>15, SaveRemovedEffect DEF Loses
      <3> QED BY <1>15, <2>2, <3>1, <3>3, SaveRemovedEffect DEF Typed, Aside, RunKept, NoMishap
    <2> QED BY <2>1, <2>2
  <1> QED BY <1>2, <1>3, <1>4, <1>5, <1>6, <1>7, <1>8, <1>9, <1>10, <1>11, <1>12, <1>13, <1>14,
             <1>15 DEF RolloutStep

LEMMA AskedTyped ==
  ASSUME Typed, NEW q \in Requests, NEW pc, request[q].domain \in Domains, Asked(q, pc) \/ Answered(q)
  PROVE  /\ request' \in [Requests -> Request]
         /\ \A p \in Requests : request'[p].pc # "idle" => request'[p].domain \in Domains
  BY DEF Typed, Asked, Answered, Others, NoRequest

LEMMA RequestTyped ==
  ASSUME Typed, NEW q \in Requests, Handler(q)
  PROVE  Typed'
  <1> DEFINE d == request[q].domain
  <1>1. request[q].dial \in Nat /\ mishaps \in Nat
    BY DEF Typed, Request
  <1>2. CASE LookupFails(q)
    BY <1>2, LookupFailsEffect, AskedTyped DEF Typed, Beside, Grows, Loses
  <1>3. CASE LookupMatches(q)
    <2>1. request[q].domain \in Domains
      BY <1>3 DEF LookupMatches, Typed
    <2>2. /\ request' \in [Requests -> Request]
          /\ \A p \in Requests : request'[p].pc # "idle" => request'[p].domain \in Domains
      BY <1>3, <2>1, MatchEffect DEF Typed, Others
    <2>3. mishaps' \in Nat
      BY <1>1, <1>3, MishapsTyped DEF LookupMatches
    <2>4. GhostsKept
      BY <1>3, GhostsTyped DEF LookupMatches
    <2> QED BY <1>3, <2>2, <2>3, <2>4 DEF Typed, LookupMatches, GhostsKept
  <1>4. CASE RouteDomain(q)
    <2>1. config' \in Seq(Route)
      BY <1>1, <1>4, RouteDomainEffect, ConfigTyped
    <2> QED BY <1>4, <2>1, RouteDomainEffect, AskedTyped DEF Typed, Beside, Unrouted, Grows, Loses
  <1>5. CASE AddDomainRoute(q)
    <2>1. config' \in Seq(Route)
      BY <1>1, <1>5, AddDomainRouteEffect, ConfigTyped
    <2> QED BY <1>5, <2>1, AddDomainRouteEffect, AskedTyped DEF Typed, Beside, Unrouted, Grows, Loses
  <1>6. CASE Persist(q)
    BY <1>6, PersistEffect, AskedTyped DEF Typed, Beside, Grows, Loses
  <1>7. CASE RemoveRouteFirst(q)
    <2>1. config' \in Seq(Route)
      BY <1>7, RemoveRouteFirstEffect, ConfigTyped
    <2> QED BY <1>7, <2>1, RemoveRouteFirstEffect, AskedTyped DEF Typed, Beside, Grows, Loses
  <1>8. CASE Drop(q)
    BY <1>8, DropEffect, AskedTyped DEF Typed, Beside, Grows, Loses
  <1> QED BY <1>2, <1>3, <1>4, <1>5, <1>6, <1>7, <1>8 DEF Handler

LEMMA UserTyped ==
  ASSUME Typed, User
  PROVE  Typed'
  <1>1. ASSUME NEW d \in Domains, NEW host \in Hostnames, Create(d, host) PROVE Typed'
    BY <1>1, CreateEffect DEF Typed, GhostsKept
  <1>2. ASSUME NEW q \in Requests, NEW d \in Domains, NEW pc \in RequestPcs, Begin(q, d, pc)
        PROVE  Typed'
    <2>1. /\ request' \in [Requests -> Request]
          /\ \A p \in Requests : request'[p].pc # "idle" => request'[p].domain \in Domains
      BY <1>2, BeginEffect DEF Typed, Others
    <2>2. GhostsKept
      BY <1>2, GhostsTyped DEF Begin
    <2> QED BY <1>2, <2>1, <2>2 DEF Begin, rest, Typed, GhostsKept
  <1>3. ASSUME NEW q \in Requests, NEW d \in Domains, BeginVerify(q, d) \/ BeginDelete(q, d)
        PROVE  Typed'
    <2>1. "lookup" \in RequestPcs /\ (IF domains[d].verified THEN "unroute" ELSE "drop") \in RequestPcs
      BY DEF RequestPcs, Asking
    <2> QED BY <1>2, <1>3, <2>1 DEF BeginVerify, BeginDelete
  <1> QED BY <1>1, <1>3 DEF User

LEMMA CrashTyped ==
  ASSUME Typed, Crash
  PROVE  Typed'
  <1>1. NoRequest \in Request /\ NoRequest.pc = "idle"
    BY DEF NoRequest, Request, RequestPcs, Ids, App, NoRelease
  <1>2. RunKept
    BY CrashEffect DEF Restored, Ended, Begun, RunKept, Items, Unrouting
  <1>3. up' \subseteq Nat /\ mishaps' \in Nat
    BY CrashEffect, MishapsTyped DEF Typed
  <1> QED BY <1>1, <1>2, <1>3, CrashEffect DEF Typed, RunKept, Grows, Loses

LEMMA TypedInit == Init => Typed
  BY DEF Init, Typed, EnsureBase, Row, Absent, Hosts, Run, RunPcs, Items, Unrouting, Idle, Request,
         RequestPcs, NoRequest, Ids, App, NoRelease, Lost

LEMMA TypedStep == Typed /\ [Next]_vars => Typed'
  <1>1. ASSUME Typed, UNCHANGED vars PROVE Typed'
    BY <1>1 DEF vars, ghosts, Typed, Lost
  <1> QED BY <1>1, RolloutTyped, UserTyped, CrashTyped, RequestTyped DEF Next

-----------------------------------------------------------------------------
(* What a request to Caddy means for the releases that a record's routes   *)
(* dial, whatever the order of the list.                                   *)
DialsOf(x) == {config[i].dial : i \in At(x)}
Once(x) == \A i, j \in At(x) : i = j

Kept(y) == DialsOf(y)' = DialsOf(y) /\ (Once(y) => Once(y)')
OthersKept(x) == \A y \in Ids : y # x => Kept(y)
AllKept == \A y \in Ids : Kept(y)

SetTo(x, r) ==
  /\ OthersKept(x) /\ DialsOf(x) # {} /\ DialsOf(x)' # {} /\ DialsOf(x)' \subseteq DialsOf(x) \cup {r}
  /\ Once(x) => DialsOf(x)' = {r} /\ Once(x)'
Added(x, r) ==
  /\ OthersKept(x) /\ DialsOf(x)' = DialsOf(x) \cup {r}
  /\ DialsOf(x) = {} => Once(x)'
Removed(x) ==
  /\ OthersKept(x) /\ DialsOf(x)' \subseteq DialsOf(x)
  /\ Once(x) => DialsOf(x)' = {} /\ Once(x)'

LEMMA KnownDials == \A x : Known(x) <=> DialsOf(x) # {}
  BY DEF Known, DialsOf

LEMMA UntouchedKept == UNCHANGED config => AllKept
  BY DEF AllKept, Kept, DialsOf, Once, At

LEMMA PatchSets ==
  ASSUME config \in Seq(Route), NEW x \in Ids, NEW h, NEW r, Patch(RouteOf(x, h, r))
  PROVE  SetTo(x, r)
  <1> DEFINE route == RouteOf(x, h, r)
  <1>1. route.id = x /\ route.dial = r
    BY DEF RouteOf
  <1>2. PICK i \in At(x) : config' = [config EXCEPT ![i] = route]
    BY <1>1 DEF Patch
  <1> HIDE DEF route
  <1>3. i \in DOMAIN config /\ config[i].id = x /\ DOMAIN config' = DOMAIN config
    BY <1>2 DEF At
  <1>4. config'[i] = route /\ \A j \in DOMAIN config : j # i => config'[j] = config[j]
    BY <1>2, <1>3
  <1>5. ASSUME NEW y PROVE At(y)' = At(y)
    BY <1>1, <1>3, <1>4 DEF At
  <1>6. ASSUME NEW y, y # x PROVE Kept(y)
    <2>1. \A j \in At(y) : config'[j] = config[j]
      BY <1>3, <1>4, <1>6 DEF At
    <2> QED BY <1>5, <2>1 DEF Kept, DialsOf, Once
  <1>7. \A j \in At(x) : config'[j].dial = config[j].dial \/ config'[j].dial = r
    BY <1>1, <1>4 DEF At
  <1>8. DialsOf(x) # {} /\ DialsOf(x)' # {} /\ DialsOf(x)' \subseteq DialsOf(x) \cup {r}
    BY <1>2, <1>5, <1>7 DEF DialsOf
  <1>9. ASSUME Once(x) PROVE DialsOf(x)' = {r} /\ Once(x)'
    <2>1. At(x) = {i}
      BY <1>2, <1>9 DEF Once
    <2> QED BY <1>1, <1>4, <1>5, <2>1 DEF DialsOf, Once
  <1> QED BY <1>6, <1>8, <1>9 DEF SetTo, OthersKept

LEMMA PostAdds ==
  ASSUME config \in Seq(Route), NEW x \in Ids, NEW h, NEW r, Post(RouteOf(x, h, r))
  PROVE  Added(x, r)
  <1> DEFINE route == RouteOf(x, h, r)
             n == Len(config)
  <1>1. route.id = x /\ route.dial = r
    BY DEF RouteOf
  <1>2. config' = Append(config, route)
    BY DEF Post
  <1> HIDE DEF route
  <1>3. /\ n \in Nat /\ DOMAIN config = 1..n /\ DOMAIN config' = 1..(n + 1)
        /\ config'[n + 1] = route /\ \A i \in 1..n : config'[i] = config[i]
    BY <1>2
  <1> HIDE DEF n
  <1>4. \A i : i \in 1..(n + 1) <=> i \in 1..n \/ i = n + 1
    BY <1>3
  <1>5. n + 1 \notin 1..n
    BY <1>3
  <1>6. ASSUME NEW y PROVE At(y)' = At(y) \cup (IF y = x THEN {n + 1} ELSE {})
    BY <1>1, <1>3, <1>4 DEF At
  <1>7. ASSUME NEW y PROVE At(y) \subseteq 1..n
    BY <1>3 DEF At
  <1>8. ASSUME NEW y, y # x PROVE Kept(y)
    BY <1>3, <1>6, <1>7, <1>8 DEF Kept, DialsOf, Once
  <1>9. DialsOf(x)' = DialsOf(x) \cup {r}
    <2>1. At(x)' = At(x) \cup {n + 1}
      BY <1>6
    <2>2. \A i \in At(x) : config'[i].dial = config[i].dial
      BY <1>3, <1>7
    <2> QED BY <1>1, <1>3, <2>1, <2>2 DEF DialsOf
  <1>10. ASSUME DialsOf(x) = {} PROVE Once(x)'
    <2>1. At(x)' = {n + 1}
      BY <1>6, <1>10 DEF DialsOf
    <2> QED BY <2>1 DEF Once
  <1> QED BY <1>8, <1>9, <1>10 DEF Added, OthersKept

LEMMA DeleteRemoves ==
  ASSUME config \in Seq(Route), NEW x \in Ids, Delete(x)
  PROVE  Removed(x)
  <1>1. CASE ~Known(x) /\ UNCHANGED config
    BY <1>1, KnownDials, UntouchedKept DEF Removed, AllKept, Kept, OthersKept
  <1>2. ASSUME NEW k \in At(x), config' = RemoveAt(config, k) PROVE Removed(x)
    <2> DEFINE n == Len(config)
    <2>1. n \in Nat /\ DOMAIN config = 1..n /\ k \in 1..n /\ config[k].id = x
      BY <1>2 DEF At
    <2>2. /\ config' \in Seq(Route) /\ Len(config') = n - 1
          /\ \A i \in 1..(k - 1) : config'[i] = config[i]
          /\ \A i \in k..(n - 1) : config'[i] = config[i + 1]
      BY <1>2, <2>1, RemovedAt
    <2>3. DOMAIN config' = 1..(n - 1)
      BY <2>1, <2>2
    <2> HIDE DEF n
    <2> DEFINE from(i) == IF i < k THEN i ELSE i + 1
    <2>4. ASSUME NEW i \in 1..(n - 1)
          PROVE  from(i) \in 1..n /\ from(i) # k /\ config'[i] = config[from(i)]
      BY <2>1, <2>2
    <2>5. ASSUME NEW j \in 1..n, j # k PROVE \E i \in 1..(n - 1) : from(i) = j
      <3>1. CASE j < k
        <4>1. j \in 1..(n - 1) /\ from(j) = j
          BY <2>1, <3>1
        <4> QED BY <4>1
      <3>2. CASE j > k
        <4>1. j - 1 \in 1..(n - 1) /\ from(j - 1) = j
          BY <2>1, <3>2
        <4> QED BY <4>1
      <3> QED BY <2>1, <2>5, <3>1, <3>2
    <2>6. ASSUME NEW i \in 1..(n - 1), NEW j \in 1..(n - 1), from(i) = from(j) PROVE i = j
      BY <2>1, <2>6
    <2> HIDE DEF from
    <2>7. ASSUME NEW y PROVE /\ \A i \in At(y)' : from(i) \in At(y) \ {k} /\ config'[i] = config[from(i)]
                             /\ \A j \in At(y) \ {k} : \E i \in At(y)' : from(i) = j
                             /\ At(y)' \subseteq 1..(n - 1)
      BY <2>1, <2>3, <2>4, <2>5 DEF At
    <2>8. ASSUME NEW y PROVE Once(y) => Once(y)'
      BY <2>6, <2>7 DEF Once
    <2>9. ASSUME NEW y PROVE DialsOf(y)' = {config[j].dial : j \in At(y) \ {k}}
      BY <2>7 DEF DialsOf
    <2>10. ASSUME NEW y, y # x PROVE Kept(y)
      <3>1. At(y) \ {k} = At(y)
        BY <2>1, <2>10 DEF At
      <3> QED BY <2>8, <2>9, <3>1 DEF Kept, DialsOf
    <2>11. DialsOf(x)' \subseteq DialsOf(x)
      <3>1. {config[j].dial : j \in At(x) \ {k}} \subseteq DialsOf(x)
        BY DEF DialsOf
      <3> QED BY <2>9, <3>1
    <2>12. ASSUME Once(x) PROVE DialsOf(x)' = {}
      <3>1. At(x) \ {k} = {}
        BY <1>2, <2>12 DEF Once
      <3> QED BY <2>9, <3>1
    <2> QED BY <2>8, <2>10, <2>11, <2>12 DEF Removed, OthersKept
  <1> QED BY <1>1, <1>2 DEF Delete

-----------------------------------------------------------------------------
(* Who writes what: every step, seen from the list of routes, from one     *)
(* record, from one request and from the set of domains that are no longer *)
(* trusted.                                                                *)
Name(x) == IF x = App THEN AppHost ELSE domains[x].host
Saving(d, q) == request[q].domain = d /\ request[q].pc = "persist"

\* A route is appended for the application, when its host had none, or for a
\* record that is verified or about to be saved as verified, or which somebody
\* has changed meanwhile.
MayAdd(x) ==
  \/ x = App /\ run.pc = "appNew"
  \/ /\ x \in Domains
     /\ \/ x \in Lost'
        \/ /\ Exists(x) /\ ~Known(x)
           /\ domains'[x].verified \/ \E q \in Requests : Saving(x, q)'

MarkedAs(d, status, verified) ==
  /\ Exists(d) /\ domains'[d].host = domains[d].host
  /\ domains'[d].status = status /\ domains'[d].verified = verified
Passed(d) == \E status \in {"verified", "active", "error"} : MarkedAs(d, status, TRUE)
Marking == \A d \in Domains : domains'[d] = domains[d] \/ Passed(d)

Patching(x, r) == Patch(RouteOf(x, Name(x), r)) /\ Marking
Posting(x, r) == Post(RouteOf(x, Name(x), r)) /\ Marking /\ MayAdd(x)
Deleting(x) == Delete(x) /\ UNCHANGED domains
Concerns(x) == x = App \/ (x \in run.todo /\ run.pc \in Items \cup Unrouting)
                 \/ \E q \in Requests : request[q].domain = x /\ request[q].pc # "idle"

Unroutes == run.pc \in {"remove", "unroute"} \/ \E q \in Requests : request[q].pc = "unroute"

ConfigStep ==
  \/ UNCHANGED config
  \/ \E x \in Ids, r \in Nat : Concerns(x) /\ (Patching(x, r) \/ Posting(x, r))
  \/ Unroutes /\ \E x \in Ids : Deleting(x)

Refused(d) == MarkedAs(d, "error", FALSE) /\ (Known(d) => d \in Lost')
Deleted(d) == /\ domains'[d].status = "deleted" /\ domains'[d].verified = FALSE
              /\ domains'[d].host = domains[d].host
              /\ Known(d) => d \in Lost'
              /\ \E q \in Requests : request[q].domain = d /\ request[q].pc = "drop"
Created(d) == /\ domains[d].status = "absent" /\ domains'[d].status = "pending"
              /\ domains'[d].verified = FALSE /\ NormalizeHostname(domains'[d].host)
              /\ \A e \in Domains : Exists(e) => domains[e].host # domains'[d].host
              /\ \A e \in Domains \ {d} : domains'[e] = domains[e]

RowStep(d) == domains'[d] = domains[d] \/ Passed(d) \/ Refused(d) \/ Deleted(d) \/ Created(d)

LEMMA SavedRows ==
  ASSUME NEW d \in Domains, NEW status \in {"verified", "active", "error"}, Saved(d, status, TRUE)
  PROVE  Marking /\ \A e \in Domains : RowStep(e)
  <1>1. ASSUME NEW e \in Domains, e = d, Exists(e) PROVE MarkedAs(e, status, TRUE)
    BY <1>1 DEF Saved, MarkedAs
  <1>2. ASSUME NEW e \in Domains, e # d \/ ~Exists(e) PROVE domains'[e] = domains[e]
    BY <1>2 DEF Saved
  <1> QED BY <1>1, <1>2 DEF RowStep, Passed, Marking

LEMMA RowSteps ==
  ASSUME Typed, [Next]_vars
  PROVE  \A d \in Domains : RowStep(d)
  <1>1. CASE UNCHANGED domains
    BY <1>1 DEF RowStep
  <1>2. ASSUME NEW next, Fails(next) PROVE \A d \in Domains : RowStep(d)
    BY <1>1, <1>2, SavedRows DEF Fails, MaybeSaved
  <1>3. CASE RolloutStep
    <2>1. CASE ListDomains \/ SyncDomain \/ CreateSyncedRoute \/ Promote
      BY <1>1, <1>2, <2>1, ListDomainsEffect, SyncDomainEffect, CreateSyncedRouteEffect, PromoteEffect
    <2>2. CASE SaveSynced \/ SaveRemoved
      BY <1>2, <2>2, SaveSyncedEffect, SaveRemovedEffect, SavedRows
    <2>3. CASE RemoveAppRoute \/ ListRouted \/ RemoveDomainRoute
      BY <1>1, <1>2, <2>3, RemoveAppRouteEffect, ListRoutedEffect, RemoveDomainRouteEffect
    <2>4. CASE Deploy \/ SwitchApp \/ CreateAppRoute \/ Retire \/ Discard \/ Stop \/ Halt
      BY <1>1, <2>4 DEF Deploy, SwitchApp, CreateAppRoute, Retire, Discard, Stop, Halt
    <2> QED BY <1>3, <2>1, <2>2, <2>3, <2>4 DEF RolloutStep
  <1>4. ASSUME NEW q \in Requests, Handler(q) PROVE \A d \in Domains : RowStep(d)
    <2> DEFINE d == request[q].domain
    <2>1. CASE LookupFails(q)
      <3> HIDE DEF d
      <3>0. PICK x \in Domains : x = request[q].domain
        BY <2>1, LookupFailsEffect
      <3>1. /\ UNCHANGED config /\ Strays(x)
            /\ Saved(x, "error", FALSE) \/ UNCHANGED domains
        BY <2>1, <3>0, LookupFailsEffect
      <3>2. CASE UNCHANGED domains
        BY <1>1, <3>2
      <3>3. CASE Saved(x, "error", FALSE)
        <4>1. Known(x)' = Known(x)
          BY <3>1 DEF Known, At
        <4>2. ASSUME Exists(x) PROVE Refused(x)
          BY <3>1, <3>3, <4>1, <4>2 DEF Saved, Refused, MarkedAs, Strays
        <4>3. ASSUME NEW e \in Domains, e # x \/ ~Exists(e) PROVE domains'[e] = domains[e]
          BY <3>3, <4>3 DEF Saved
        <4> QED BY <4>2, <4>3 DEF RowStep
      <3> QED BY <3>1, <3>2, <3>3
    <2>2. CASE LookupMatches(q) \/ RemoveRouteFirst(q)
      BY <1>1, <2>2 DEF LookupMatches, RemoveRouteFirst
    <2>3. CASE RouteDomain(q)
      BY <1>1, <2>3, RouteDomainEffect, SavedRows DEF Unrouted
    <2>4. CASE AddDomainRoute(q)
      BY <1>1, <2>4, AddDomainRouteEffect, SavedRows DEF Unrouted
    <2>5. CASE Persist(q)
      <3>1. Outcome(q) \in {"verified", "active", "error"}
        BY DEF Outcome
      <3> QED BY <1>1, <2>5, <3>1, PersistEffect, SavedRows
    <2>6. CASE Drop(q)
      <3>1. /\ d \in Domains /\ request[q].pc = "drop"
            /\ (Withdrawn(d) /\ (Known(d) => d \in Lost')) \/ UNCHANGED domains
        BY <2>6, DropEffect
      <3>2. CASE Withdrawn(d) /\ (Known(d) => d \in Lost')
        <4>1. Deleted(d)
          BY <3>1, <3>2 DEF Withdrawn, Deleted
        <4> QED BY <3>2, <4>1 DEF Withdrawn, RowStep
      <3> QED BY <1>1, <3>1, <3>2
    <2> QED BY <1>4, <2>1, <2>2, <2>3, <2>4, <2>5, <2>6 DEF Handler
  <1>5. ASSUME NEW d \in Domains, NEW host \in Hostnames, Create(d, host)
        PROVE  \A e \in Domains : RowStep(e)
    <2>1. Created(d) /\ \A e \in Domains \ {d} : domains'[e] = domains[e]
      BY <1>5, CreateEffect DEF Created
    <2> QED BY <2>1 DEF RowStep
  <1>6. CASE Crash \/ UNCHANGED vars
    BY <1>1, <1>6 DEF Crash, vars
  <1>7. ASSUME NEW q \in Requests, NEW d \in Domains, BeginVerify(q, d) \/ BeginDelete(q, d)
        PROVE  UNCHANGED domains
    BY <1>7 DEF BeginVerify, BeginDelete, Begin
  <1> QED BY <1>1, <1>3, <1>4, <1>5, <1>6, <1>7 DEF Next, User

LEMMA LostSteps ==
  ASSUME Typed, [Next]_vars
  PROVE  Lost \subseteq Lost' /\ undeleted \subseteq undeleted'
  <1>1. CASE UNCHANGED ghosts
    BY <1>1, GhostsTyped DEF GhostsKept
  <1>2. CASE ListDomains \/ SyncDomain \/ CreateSyncedRoute \/ SaveSynced \/ ListRouted \/ SaveRemoved
    BY <1>2, ListDomainsEffect, SyncDomainEffect, CreateSyncedRouteEffect, SaveSyncedEffect,
       ListRoutedEffect, SaveRemovedEffect DEF Loses
  <1>3. CASE Deploy \/ SwitchApp \/ CreateAppRoute \/ Promote \/ Retire \/ Discard \/ Stop
             \/ RemoveAppRoute \/ RemoveDomainRoute \/ Halt
    <2>1. UNCHANGED ghosts
      BY <1>3 DEF Deploy, SwitchApp, CreateAppRoute, Promote, Retire, Discard, Stop, RemoveAppRoute,
           RemoveDomainRoute, Halt
    <2> QED BY <1>1, <2>1
  <1>4. ASSUME NEW q \in Requests, Handler(q) PROVE Grows
    <2>1. CASE LookupMatches(q)
      BY <2>1, GhostsTyped DEF LookupMatches
    <2>2. CASE Handler(q) /\ ~LookupMatches(q)
      BY <2>2, LookupFailsEffect, RouteDomainEffect, AddDomainRouteEffect, PersistEffect,
         RemoveRouteFirstEffect, DropEffect DEF Handler, Beside
    <2> QED BY <1>4, <2>1, <2>2
  <1>5. CASE User \/ UNCHANGED vars
    <2>1. UNCHANGED ghosts
      BY <1>5 DEF User, Create, BeginVerify, BeginDelete, Begin, vars
    <2> QED BY <1>1, <2>1
  <1> QED BY <1>2, <1>3, <1>4, <1>5, CrashEffect DEF Next, RolloutStep, Grows, Loses

\* A request that ends has saved what it verified, or has deleted its record:
\* otherwise the domain is unrouted, or counted among those it left behind.
Ends(q) ==
  /\ request'[q] = NoRequest
  /\ \A d \in Domains : d = request[q].domain =>
       /\ request[q].pc = "persist" =>
            d \in Lost' \/ ~Exists(d) \/ domains'[d].verified \/ ~Known(d)'
       /\ request[q].pc = "drop" =>
            domains'[d].status = "deleted" \/ Known(d)' \/ d \in undeleted'
Proceeds(q) ==
  /\ request[q].pc \notin {"persist", "drop", "idle"}
  /\ request'[q].pc # "idle" /\ request'[q].domain = request[q].domain
Begins(q) ==
  /\ request[q].pc = "idle" /\ request'[q].pc \in {"lookup", "unroute", "drop"}
  /\ request'[q].domain \in Domains /\ Exists(request'[q].domain)
RequestStep(q) == request'[q] = request[q] \/ Ends(q) \/ Proceeds(q) \/ Begins(q)

LEMMA AskedStep ==
  ASSUME NEW q \in Requests, NEW pc, pc # "idle", Asked(q, pc),
         request[q].pc \notin {"persist", "drop", "idle"}
  PROVE  \A p \in Requests : RequestStep(p)
  BY DEF Asked, Others, RequestStep, Proceeds

LEMMA AnsweredStep ==
  ASSUME NEW q \in Requests, NEW d, d = request[q].domain, Answered(q),
         request[q].pc = "persist" =>
           d \in Lost' \/ ~Exists(d) \/ domains'[d].verified \/ ~Known(d)',
         request[q].pc = "drop" => domains'[d].status = "deleted" \/ Known(d)' \/ d \in undeleted'
  PROVE  \A p \in Requests : RequestStep(p)
  BY DEF Answered, Others, RequestStep, Ends

LEMMA RequestSteps ==
  ASSUME Typed, [Next]_vars
  PROVE  \A q \in Requests : RequestStep(q)
  <1>1. CASE UNCHANGED request
    BY <1>1 DEF RequestStep
  <1>2. CASE RolloutStep
    <2>1. UNCHANGED request
      BY <1>2 DEF RolloutStep, Deploy, SwitchApp, CreateAppRoute, ListDomains, SyncDomain,
         CreateSyncedRoute, SaveSynced, Promote, Retire, Discard, Stop, RemoveAppRoute, ListRouted,
         RemoveDomainRoute, SaveRemoved, Halt
    <2> QED BY <1>1, <2>1
  <1>3. ASSUME NEW q \in Requests, Handler(q) PROVE \A p \in Requests : RequestStep(p)
    <2> PICK d : d = request[q].domain
      OBVIOUS
    <2>1. CASE LookupFails(q)
      BY <2>1, LookupFailsEffect, AnsweredStep
    <2>2. CASE LookupMatches(q)
      BY <2>2, MatchEffect DEF LookupMatches, RequestStep, Proceeds, Others
    <2>3. CASE RouteDomain(q)
      BY <2>3, RouteDomainEffect, AskedStep, AnsweredStep DEF Unrouted
    <2>4. CASE AddDomainRoute(q)
      BY <2>4, AddDomainRouteEffect, AskedStep, AnsweredStep DEF Unrouted
    <2>5. CASE Persist(q)
      <3>1. request[q].pc = "persist" /\ Answered(q) /\ Strays(d)
        BY <2>5, PersistEffect
      <3> QED BY <3>1, AnsweredStep DEF Strays
    <2>6. CASE RemoveRouteFirst(q)
      BY <2>6, RemoveRouteFirstEffect, AskedStep, AnsweredStep
    <2>7. CASE Drop(q)
      <3>1. /\ request[q].pc = "drop" /\ Answered(q)
            /\ Withdrawn(d) \/ Known(d)' \/ d \in undeleted'
        BY <2>7, DropEffect
      <3> QED BY <3>1, AnsweredStep DEF Withdrawn
    <2> QED BY <1>3, <2>1, <2>2, <2>3, <2>4, <2>5, <2>6, <2>7 DEF Handler
  <1>4. ASSUME NEW q \in Requests, NEW d \in Domains, NEW pc \in RequestPcs, Begin(q, d, pc),
               pc \in {"lookup", "unroute", "drop"}
        PROVE  \A p \in Requests : RequestStep(p)
    <2>1. request[q].pc = "idle" /\ Exists(d) /\ request \in [Requests -> Request]
      BY <1>4 DEF Begin, Typed
    <2>2. Others(q) /\ request'[q].pc = pc /\ request'[q].domain = d
      BY <1>4, <2>1, BeginEffect
    <2> QED BY <1>4, <2>1, <2>2 DEF RequestStep, Begins, Others
  <1>5. ASSUME NEW q \in Requests, NEW d \in Domains, BeginVerify(q, d) \/ BeginDelete(q, d)
        PROVE  \A p \in Requests : RequestStep(p)
    <2>1. {"lookup", "unroute", "drop"} \subseteq RequestPcs
      BY DEF RequestPcs, Asking
    <2> QED BY <1>4, <1>5, <2>1 DEF BeginVerify, BeginDelete
  <1>6. ASSUME NEW d \in Domains, NEW host \in Hostnames, Create(d, host) PROVE UNCHANGED request
    BY <1>6 DEF Create
  <1>7. CASE Crash
    <2>1. \A q \in Requests : request'[q] = NoRequest
      BY <1>7, CrashEffect
    <2>2. \A q \in Requests, d \in Domains : d = request[q].domain =>
            /\ request[q].pc = "persist" /\ Known(d)' /\ ~domains'[d].verified => d \in Lost'
            /\ request[q].pc = "drop" /\ ~Known(d)' => d \in undeleted'
      BY <1>7, CrashEffect
    <2> QED BY <2>1, <2>2 DEF RequestStep, Ends
  <1>8. CASE UNCHANGED vars
    BY <1>1, <1>8 DEF vars
  <1>9. CASE User
    <2>1. CASE \E d \in Domains, host \in Hostnames : Create(d, host)
      BY <1>1, <1>6, <2>1
    <2>2. CASE \E q \in Requests, d \in Domains : BeginVerify(q, d) \/ BeginDelete(q, d)
      BY <1>5, <2>2
    <2> QED BY <1>9, <2>1, <2>2 DEF User
  <1>10. CASE \E q \in Requests : Handler(q)
    BY <1>3, <1>10
  <1> QED BY <1>2, <1>7, <1>8, <1>9, <1>10 DEF Next

LEMMA ConfigSteps ==
  ASSUME Typed, [Next]_vars
  PROVE  ConfigStep
  <1>1. /\ run.dial \in Nat /\ run.todo \in SUBSET Domains
        /\ \A q \in Requests : request[q].dial \in Nat
    BY DEF Typed, Run, Request
  <1>2. App \in Ids /\ Domains \subseteq Ids /\ App \notin Domains
    BY DomainsAssumption DEF Ids, App
  <1>3. \A r : AppRoute(r) = RouteOf(App, Name(App), r)
    BY DEF AppRoute, Name
  <1>4. \A d \in Domains : \A r : DomainRoute(d, r) = RouteOf(d, Name(d), r)
    BY <1>2 DEF DomainRoute, Name
  <1>5. CASE UNCHANGED config
    BY <1>5 DEF ConfigStep
  <1>m. UNCHANGED domains => Marking
    BY DEF Marking
  <1>6. ASSUME NEW next, Fails(next) PROVE ConfigStep
    <2>1. Marking
      <3>1. \A d \in Domains, status \in {"verified", "active", "error"} :
              Saved(d, status, TRUE) => Marking
        BY SavedRows
      <3> QED BY <1>m, <1>6, <3>1 DEF Fails, MaybeSaved
    <2>2. CASE UNCHANGED config
      BY <1>5, <2>2
    <2>3. ASSUME run.pc \in Items, NEW t \in Domains, t = Todo PROVE Concerns(t)
      BY <2>3, Listed DEF Concerns, Todo
    <2>4. CASE run.pc = "item" /\ Todo \in Domains /\ Patch(DomainRoute(Todo, run.dial))
      <3>1. PICK t \in Domains : t = Todo
        BY <2>4
      <3>2. Concerns(t) /\ Patching(t, run.dial)
        BY <1>1, <1>4, <2>1, <2>3, <2>4, <3>1 DEF Patching, Items
      <3> QED BY <1>1, <1>2, <3>2 DEF ConfigStep
    <2>5. CASE /\ run.pc = "itemNew" /\ Todo \in Domains /\ Post(DomainRoute(Todo, run.dial))
               /\ Todo \in Lost' \/ (Synced(Todo) /\ ~Known(Todo))
      <3>1. PICK t \in Domains : t = Todo
        BY <2>5
      <3>2. t \in Lost' \/ (Synced(t) /\ ~Known(t))
        BY <2>5, <3>1
      <3>3. MayAdd(t)
        BY <2>1, <3>2 DEF MayAdd, Synced, Marking, Passed, MarkedAs
      <3>4. Concerns(t) /\ Posting(t, run.dial)
        BY <1>1, <1>4, <2>1, <2>3, <2>5, <3>1, <3>3 DEF Posting, Items
      <3> QED BY <1>1, <1>2, <3>4 DEF ConfigStep
    <2>6. CASE run.pc = "remove" /\ Delete(App)
      <3>1. UNCHANGED domains
        BY <1>6, <2>6 DEF Fails, MaybeSaved
      <3> QED BY <1>2, <2>6, <3>1 DEF ConfigStep, Deleting, Unroutes
    <2>7. CASE run.pc = "unroute" /\ Todo \in Domains /\ Delete(Todo)
      <3>1. UNCHANGED domains
        BY <1>6, <2>7 DEF Fails, MaybeSaved
      <3>2. PICK t \in Domains : t = Todo
        BY <2>7
      <3> QED BY <1>2, <2>7, <3>1, <3>2 DEF ConfigStep, Deleting, Unroutes
    <2> QED BY <1>6, <2>2, <2>4, <2>5, <2>6, <2>7 DEF Fails, MaybeRouted
  <1>7. CASE RolloutStep
    <2>1. CASE SwitchApp
      <3>1. CASE Patch(AppRoute(run.dial)) /\ UNCHANGED domains
        <4>1. Concerns(App) /\ Patching(App, run.dial)
          BY <1>m, <1>3, <3>1 DEF Patching, Concerns
        <4> QED BY <1>1, <1>2, <4>1 DEF ConfigStep
      <3> QED BY <1>5, <2>1, <3>1, SwitchAppEffect
    <2>2. CASE CreateAppRoute
      <3>1. CASE Post(AppRoute(run.dial)) /\ UNCHANGED domains /\ run.pc = "appNew"
        <4>1. Concerns(App) /\ Posting(App, run.dial)
          BY <1>m, <1>3, <3>1 DEF Posting, Concerns, MayAdd
        <4> QED BY <1>1, <1>2, <4>1 DEF ConfigStep
      <3> QED BY <1>5, <2>2, <3>1, CreateAppRouteEffect
    <2>3. CASE SyncDomain
      <3>0. PICK t \in Domains : t = Todo
        BY <2>3, SyncDomainEffect
      <3>1. t \in run.todo /\ run.pc = "item"
        BY <3>0, <2>3, SyncDomainEffect, Listed DEF Todo, Items
      <3>2. CASE Patch(DomainRoute(t, run.dial)) /\ UNCHANGED domains
        <4>1. Concerns(t) /\ Patching(t, run.dial) /\ t \in Domains
          BY <1>m, <1>1, <1>4, <3>1, <3>2 DEF Patching, Concerns, Items
        <4> QED BY <1>1, <1>2, <4>1 DEF ConfigStep
      <3> QED BY <1>5, <1>6, <2>3, <3>0, <3>2, SyncDomainEffect
    <2>4. CASE CreateSyncedRoute
      <3>0. PICK t \in Domains : t = Todo
        BY <2>4, CreateSyncedRouteEffect
      <3>1. t \in run.todo /\ run.pc = "itemNew"
        BY <3>0, <2>4, CreateSyncedRouteEffect, Listed DEF Todo, Items
      <3>2. CASE Post(DomainRoute(t, run.dial)) /\ UNCHANGED domains
        <4>1. Concerns(t) /\ t \in Domains
          BY <1>1, <3>1 DEF Concerns, Items
        <4>2. Unseen(t, ~Synced(t) \/ Known(t))
          BY <2>4, <3>0, CreateSyncedRouteEffect
        <4>3. MayAdd(t)
          BY <3>2, <4>1, <4>2 DEF MayAdd, Unseen, Synced, Lost
        <4>4. Posting(t, run.dial)
          BY <1>m, <1>4, <3>2, <4>1, <4>3 DEF Posting
        <4> QED BY <1>1, <1>2, <4>1, <4>4 DEF ConfigStep
      <3> QED BY <1>6, <2>4, <3>0, <3>2, CreateSyncedRouteEffect
    <2>5. CASE RemoveAppRoute
      <3>1. CASE Delete(App) /\ UNCHANGED domains
        BY <1>2, <2>5, <3>1, RemoveAppRouteEffect DEF ConfigStep, Deleting, Unroutes
      <3> QED BY <1>6, <2>5, <3>1, RemoveAppRouteEffect
    <2>6. CASE RemoveDomainRoute
      <3>0. PICK t \in Domains : t = Todo
        BY <2>6, RemoveDomainRouteEffect
      <3>1. CASE Delete(t) /\ UNCHANGED domains /\ t \in Domains
        BY <1>2, <2>6, <3>1, RemoveDomainRouteEffect DEF ConfigStep, Deleting, Unroutes
      <3> QED BY <1>6, <2>6, <3>0, <3>1, RemoveDomainRouteEffect
    <2>7. CASE Deploy \/ ListDomains \/ SaveSynced \/ Promote \/ Retire \/ Discard \/ Stop
               \/ ListRouted \/ SaveRemoved \/ Halt
      BY <1>5, <2>7 DEF Deploy, ListDomains, SaveSynced, Promote, Retire, Discard, Stop, ListRouted,
                       SaveRemoved, Halt
    <2> QED BY <1>7, <2>1, <2>2, <2>3, <2>4, <2>5, <2>6, <2>7 DEF RolloutStep
  <1>8. ASSUME NEW q \in Requests, Handler(q) PROVE ConfigStep
    <2> PICK d : d = request[q].domain
      OBVIOUS
    <2>1. CASE RouteDomain(q)
      <3>1. CASE Patch(DomainRoute(d, request[q].dial))
        <4>1. d \in Domains /\ request[q].pc = "route" /\ (UNCHANGED domains \/ Saved(d, "error", TRUE))
          BY <2>1, RouteDomainEffect DEF Unrouted
        <4>2. Marking
          BY <1>m, <4>1, SavedRows
        <4>3. Concerns(d) /\ Patching(d, request[q].dial)
          BY <1>4, <3>1, <4>1, <4>2 DEF Patching, Concerns
        <4> QED BY <1>1, <1>2, <4>1, <4>3 DEF ConfigStep
      <3> QED BY <1>5, <2>1, <3>1, RouteDomainEffect
    <2>2. CASE AddDomainRoute(q)
      <3>1. CASE Post(DomainRoute(d, request[q].dial))
        <4>1. d \in Domains /\ request[q].pc = "add" /\ Unseen(d, Outdated(q) \/ ~Exists(d) \/ Known(d))
          BY <2>2, AddDomainRouteEffect
        <4>2. \/ Saving(d, q)' /\ UNCHANGED domains
              \/ (UNCHANGED domains \/ Saved(d, "error", TRUE)) /\ Strays(d)
          BY <2>2, AddDomainRouteEffect, KnownDials DEF Saving, Asked, Unrouted
        <4>6. Marking
          BY <1>m, <4>1, <4>2, SavedRows
        <4>7. Known(d)'
          <5>1. Added(d, request[q].dial) /\ d \in Ids
            BY <1>2, <1>4, <3>1, <4>1, PostAdds DEF Typed
          <5> QED BY <5>1 DEF Added, Known, DialsOf
        <4>3. Concerns(d)
          BY <4>1 DEF Concerns
        <4>4. MayAdd(d)
          BY <4>1, <4>2, <4>7 DEF MayAdd, Unseen, Lost, Strays
        <4>5. Posting(d, request[q].dial)
          BY <1>4, <3>1, <4>1, <4>4, <4>6 DEF Posting
        <4> QED BY <1>1, <1>2, <4>1, <4>3, <4>5 DEF ConfigStep
      <3> QED BY <1>5, <2>2, <3>1, AddDomainRouteEffect
    <2>3. CASE RemoveRouteFirst(q)
      <3>1. CASE Delete(d) /\ UNCHANGED domains /\ d \in Domains
        BY <1>2, <2>3, <3>1, RemoveRouteFirstEffect DEF ConfigStep, Deleting, Unroutes
      <3> QED BY <1>5, <2>3, <3>1, RemoveRouteFirstEffect
    <2>4. CASE LookupFails(q) \/ LookupMatches(q) \/ Persist(q) \/ Drop(q)
      BY <1>5, <2>4 DEF LookupFails, LookupMatches, Persist, Drop, rest
    <2> QED BY <1>8, <2>1, <2>2, <2>3, <2>4 DEF Handler
  <1>9. CASE User \/ Crash \/ UNCHANGED vars
    BY <1>5, <1>9 DEF User, Create, BeginVerify, BeginDelete, Begin, rest, Crash, vars
  <1> QED BY <1>7, <1>8, <1>9 DEF Next

-----------------------------------------------------------------------------
(* Who is routed.                                                          *)
HostInv ==
  \A i \in DOMAIN config :
    /\ config[i].id \in Ids /\ config[i].host = Name(config[i].id)
    /\ config[i].id # App => domains[config[i].id].status # "absent"
AskInv ==
  \A q \in Requests : request[q].pc # "idle" => domains[request[q].domain].status # "absent"
TodoInv ==
  run.pc \in Items \cup Unrouting => \A d \in run.todo : domains[d].status # "absent"
RowInv ==
  \A d \in Domains :
    /\ domains[d].status \in {"active", "verified"} => domains[d].verified
    /\ domains[d].verified => domains[d].status \in {"active", "verified", "error"}
    /\ domains[d].status # "absent" => NormalizeHostname(domains[d].host)
    /\ \A e \in Domains : Exists(d) /\ Exists(e) /\ domains[d].host = domains[e].host => d = e
RoutedInv == \A d \in Trusted : Known(d) => Exists(d)
OnceInv == \A x \in {App} \cup Trusted : Once(x)
NewInv == run.pc = "appNew" => ~Known(App)

Tracked ==
  /\ Typed /\ HostInv /\ AskInv /\ TodoInv /\ RowInv /\ RoutedInv /\ OnceInv /\ NewInv
  /\ OnlyVerifiedRouted

\* Records stay, whatever their status becomes.
LEMMA RowsStay ==
  ASSUME \A d \in Domains : RowStep(d)
  PROVE  \A d \in Domains : domains[d].status # "absent" =>
           domains'[d].status # "absent" /\ domains'[d].host = domains[d].host
  BY DEF RowStep, Passed, Refused, Deleted, Created, MarkedAs

\* The list after a step has routes of the list before, and perhaps the one
\* that was written.
LEMMA ConfigWritten ==
  ASSUME Typed, ConfigStep
  PROVE  \A i \in DOMAIN config' :
           \/ \E j \in DOMAIN config : config'[i] = config[j]
           \/ \E x \in Ids, r \in Nat :
                config'[i] = RouteOf(x, Name(x), r) /\ Concerns(x)
  <1>1. CASE UNCHANGED config
    BY <1>1
  <1>2. ASSUME NEW x \in Ids, NEW r \in Nat, Concerns(x), Patching(x, r), NEW i \in DOMAIN config'
        PROVE  (\E j \in DOMAIN config : config'[i] = config[j])
               \/ config'[i] = RouteOf(x, Name(x), r)
    <2> DEFINE route == RouteOf(x, Name(x), r)
    <2>1. PICK k \in At(route.id) : config' = [config EXCEPT ![k] = route]
      BY <1>2 DEF Patching, Patch
    <2> HIDE DEF route
    <2>2. config'[i] = route \/ config'[i] = config[i]
      BY <1>2, <2>1
    <2> QED BY <1>2, <2>1, <2>2 DEF Patching, route
  <1>3. ASSUME NEW x \in Ids, NEW r \in Nat, Concerns(x), Posting(x, r), NEW i \in DOMAIN config'
        PROVE  (\E j \in DOMAIN config : config'[i] = config[j])
               \/ config'[i] = RouteOf(x, Name(x), r)
    <2> DEFINE route == RouteOf(x, Name(x), r)
    <2>1. config' = Append(config, route)
      BY <1>3 DEF Posting, Post
    <2> HIDE DEF route
    <2>2. config \in Seq(Route)
      BY DEF Typed
    <2>3. i \in 1..Len(config) \/ config'[i] = route
      BY <1>3, <2>1, <2>2
    <2>4. i \in 1..Len(config) => i \in DOMAIN config /\ config'[i] = config[i]
      BY <2>1, <2>2
    <2> QED BY <2>1, <2>3, <2>4 DEF route
  <1>4. ASSUME NEW x \in Ids, Deleting(x), NEW i \in DOMAIN config'
        PROVE  \E j \in DOMAIN config : config'[i] = config[j]
    <2> DEFINE n == Len(config)
    <2>1. CASE UNCHANGED config
      BY <1>4, <2>1
    <2>2. ASSUME NEW k \in At(x), config' = RemoveAt(config, k)
          PROVE  \E j \in DOMAIN config : config'[i] = config[j]
      <3>1. config \in Seq(Route) /\ n \in Nat /\ DOMAIN config = 1..n /\ k \in 1..n
        BY <2>2 DEF Typed, At
      <3>2. /\ config' \in Seq(Route) /\ Len(config') = n - 1
            /\ \A m \in 1..(k - 1) : config'[m] = config[m]
            /\ \A m \in k..(n - 1) : config'[m] = config[m + 1]
        BY <2>2, <3>1, RemovedAt
      <3>3. i \in 1..(n - 1)
        BY <1>4, <3>1, <3>2
      <3> HIDE DEF n
      <3>4. i \in 1..(k - 1) \/ i \in k..(n - 1)
        BY <3>1, <3>3
      <3>5. i \in 1..n /\ i + 1 \in 1..n
        BY <3>1, <3>3
      <3> QED BY <3>1, <3>2, <3>4, <3>5
    <2> QED BY <1>4, <2>1, <2>2 DEF Deleting, Delete
  <1> QED BY <1>1, <1>2, <1>3, <1>4 DEF ConfigStep

\* Which ids Caddy may know after a step.
LEMMA KnownStep ==
  ASSUME Typed, NewInv, ConfigStep, NEW y \in Ids
  PROVE  /\ DialsOf(y)' # {} /\ DialsOf(y) = {} => Marking /\ MayAdd(y)
         /\ y \in {App} \cup (Domains \ Lost') /\ Once(y) => Once(y)'
  <1>0. config \in Seq(Route)
    BY DEF Typed
  <1>1. CASE UNCHANGED config
    BY <1>1, UntouchedKept DEF AllKept, Kept
  <1>2. ASSUME NEW x \in Ids, NEW r \in Nat, Patching(x, r) PROVE SetTo(x, r)
    BY <1>0, <1>2, PatchSets DEF Patching
  <1>3. ASSUME NEW x \in Ids, NEW r \in Nat, Patching(x, r)
        PROVE  (DialsOf(y)' # {} => DialsOf(y) # {}) /\ (Once(y) => Once(y)')
    BY <1>2, <1>3 DEF SetTo, OthersKept, Kept
  <1>4. ASSUME NEW x \in Ids, NEW r \in Nat, Posting(x, r)
        PROVE  Added(x, r) /\ Marking /\ MayAdd(x)
    BY <1>0, <1>4, PostAdds DEF Posting
  <1>5. ASSUME NEW x \in Ids, Deleting(x) PROVE Removed(x)
    BY <1>0, <1>5, DeleteRemoves DEF Deleting
  <1>6. ASSUME NEW x \in Ids, Deleting(x)
        PROVE  (DialsOf(y)' # {} => DialsOf(y) # {}) /\ (Once(y) => Once(y)')
    BY <1>5, <1>6 DEF Removed, OthersKept, Kept
  <1>7. ASSUME NEW x \in Ids, NEW r \in Nat, Posting(x, r)
        PROVE  /\ DialsOf(y)' # {} /\ DialsOf(y) = {} => Marking /\ MayAdd(y)
               /\ y \in {App} \cup (Domains \ Lost') /\ Once(y) => Once(y)'
    <2>1. CASE y # x
      BY <1>4, <1>7, <2>1 DEF Added, OthersKept, Kept
    <2>2. CASE y = x
      <3>1. y \in {App} \cup (Domains \ Lost') => DialsOf(y) = {}
        BY <1>4, <1>7, <2>2, KnownDials, DomainsAssumption DEF MayAdd, NewInv, App
      <3> QED BY <1>4, <1>7, <2>2, <3>1 DEF Added
    <2> QED BY <2>1, <2>2
  <1> QED BY <1>1, <1>3, <1>6, <1>7 DEF ConfigStep

LEMMA HostStep ==
  ASSUME Tracked, [Next]_vars
  PROVE  HostInv'
  <1> DEFINE After(y) == IF y = App THEN AppHost ELSE domains'[y].host
  <1>1. ConfigStep /\ \A d \in Domains : RowStep(d)
    BY ConfigSteps, RowSteps DEF Tracked
  <1>2. Typed /\ HostInv /\ AskInv /\ TodoInv /\ App \notin Domains
    BY DomainsAssumption DEF Tracked, App
  <1>3. \A d \in Domains : domains[d].status # "absent" =>
          domains'[d].status # "absent" /\ domains'[d].host = domains[d].host
    BY <1>1, RowsStay
  <1>4. SUFFICES ASSUME NEW i \in DOMAIN config'
                 PROVE  /\ config'[i].id \in Ids /\ config'[i].host = After(config'[i].id)
                        /\ config'[i].id # App => domains'[config'[i].id].status # "absent"
    BY DEF HostInv, Name
  <1>5. ASSUME NEW j \in DOMAIN config, config'[i] = config[j]
        PROVE  /\ config'[i].id \in Ids /\ config'[i].host = After(config'[i].id)
               /\ config'[i].id # App => domains'[config'[i].id].status # "absent"
    BY <1>2, <1>3, <1>5 DEF HostInv, Name, Ids
  <1>6. ASSUME NEW x \in Ids, NEW r \in Nat, config'[i] = RouteOf(x, Name(x), r), Concerns(x)
        PROVE  /\ config'[i].id \in Ids /\ config'[i].host = After(config'[i].id)
               /\ config'[i].id # App => domains'[config'[i].id].status # "absent"
    <2>1. config'[i].id = x /\ config'[i].host = Name(x)
      BY <1>6 DEF RouteOf
    <2>2. x # App => domains[x].status # "absent"
      BY <1>2, <1>6 DEF Concerns, AskInv, TodoInv
    <2> QED BY <1>3, <2>1, <2>2 DEF Name, Ids
  <1> QED BY <1>1, <1>2, <1>5, <1>6, ConfigWritten

LEMMA AskStep ==
  ASSUME Tracked, [Next]_vars
  PROVE  AskInv'
  <1>1. /\ \A d \in Domains : RowStep(d)
        /\ \A q \in Requests : RequestStep(q)
    BY RowSteps, RequestSteps DEF Tracked
  <1>2. \A d \in Domains : domains[d].status # "absent" => domains'[d].status # "absent"
    BY <1>1, RowsStay
  <1>3. ASSUME NEW q \in Requests, request'[q].pc # "idle"
        PROVE  domains'[request'[q].domain].status # "absent"
    <2>1. CASE request'[q] = request[q] \/ Proceeds(q)
      BY <1>2, <1>3, <2>1 DEF Tracked, Typed, AskInv, Proceeds
    <2>2. CASE Begins(q)
      BY <1>2, <2>2 DEF Begins, Exists
    <2>3. CASE Ends(q)
      BY <1>3, <2>3 DEF Ends, NoRequest
    <2> QED BY <1>1, <2>1, <2>2, <2>3 DEF RequestStep
  <1> QED BY <1>3 DEF AskInv

LEMMA RowInvStep ==
  ASSUME Tracked, [Next]_vars
  PROVE  RowInv'
  <1>1. /\ \A d \in Domains : RowStep(d)
        /\ RowInv /\ AskInv
    BY RowSteps DEF Tracked
  <1>2. ASSUME NEW d \in Domains
        PROVE  /\ domains'[d].status \in {"active", "verified"} => domains'[d].verified
               /\ domains'[d].verified => domains'[d].status \in {"active", "verified", "error"}
               /\ domains'[d].status # "absent" => NormalizeHostname(domains'[d].host)
    BY <1>1 DEF RowStep, Passed, Refused, Deleted, Created, MarkedAs, RowInv, AskInv, Exists
  <1>3. ASSUME NEW d \in Domains, domains'[d].status \notin {"absent", "deleted"}
        PROVE  Created(d) \/ (Exists(d) /\ domains'[d].host = domains[d].host)
    BY <1>1, <1>3 DEF RowStep, Passed, Refused, Deleted, MarkedAs, Exists
  <1>4. ASSUME NEW d \in Domains, NEW e \in Domains,
               domains'[d].status \notin {"absent", "deleted"},
               domains'[e].status \notin {"absent", "deleted"}, domains'[d].host = domains'[e].host
        PROVE  d = e
    <2>1. CASE Created(d)
      BY <1>3, <1>4, <2>1 DEF Created, Exists
    <2>2. CASE Created(e)
      BY <1>3, <1>4, <2>2 DEF Created, Exists
    <2> QED BY <1>1, <1>3, <1>4, <2>1, <2>2 DEF RowInv
  <1> QED BY <1>2, <1>4 DEF RowInv, Exists

LEMMA RoutedStep ==
  ASSUME Tracked, [Next]_vars
  PROVE  /\ RoutedInv' /\ OnlyVerifiedRouted'
  <1>1. /\ ConfigStep /\ Lost \subseteq Lost'
        /\ \A d \in Domains : RowStep(d)
        /\ \A q \in Requests : RequestStep(q)
    BY RowSteps, RequestSteps, ConfigSteps, LostSteps DEF Tracked
  <1>2. Typed /\ RoutedInv /\ OnlyVerifiedRouted /\ NewInv /\ App \notin Domains
    BY DomainsAssumption DEF Tracked, App
  <1>4. \A d : Known(d)' <=> DialsOf(d)' # {}
    BY DEF Known, DialsOf
  <1>3. ASSUME NEW d \in Domains \ Lost', DialsOf(d)' # {}
        PROVE  /\ domains'[d].status \notin {"absent", "deleted"}
               /\ domains'[d].verified \/ \E q \in Requests : Saving(d, q)'
    <2>1. CASE DialsOf(d) = {}
      <3>1. Marking /\ MayAdd(d)
        BY <1>1, <1>2, <1>3, <2>1, KnownStep DEF Ids
      <3> QED BY <1>2, <1>3, <3>1 DEF MayAdd, Exists, Marking, Passed, MarkedAs
    <2>2. CASE DialsOf(d) # {}
      <3>1. Known(d) /\ d \in Trusted
        BY <1>1, <1>3, <2>2, KnownDials DEF Trusted, Lost
      <3>2. Exists(d)
        BY <1>2, <3>1 DEF RoutedInv
      <3>3. domains'[d] = domains[d] \/ Passed(d)
        BY <1>1, <1>3, <3>1, <3>2 DEF RowStep, Refused, Deleted, Created, Exists
      <3>4. domains'[d].status \notin {"absent", "deleted"}
        BY <3>2, <3>3 DEF Passed, MarkedAs, Exists
      <3>5. CASE domains[d].verified
        BY <3>3, <3>4, <3>5 DEF Passed, MarkedAs
      <3>6. ASSUME NEW q \in Requests, request[q].domain = d, request[q].pc = "persist"
            PROVE  domains'[d].verified \/ \E p \in Requests : Saving(d, p)'
        <4>1. CASE request'[q] = request[q]
          BY <3>6, <4>1 DEF Saving
        <4>2. CASE Ends(q)
          BY <1>3, <1>4, <3>2, <3>6, <4>2 DEF Ends
        <4> QED BY <1>1, <3>6, <4>1, <4>2 DEF RequestStep, Proceeds, Begins
      <3> QED BY <1>2, <3>1, <3>4, <3>5, <3>6 DEF OnlyVerifiedRouted
    <2> QED BY <2>1, <2>2
  <1> QED BY <1>3, <1>4 DEF RoutedInv, OnlyVerifiedRouted, Trusted, Lost, Exists, Saving

LEMMA OnceStep ==
  ASSUME Tracked, [Next]_vars
  PROVE  OnceInv'
  <1>1. ConfigStep /\ Lost \subseteq Lost' /\ Typed /\ NewInv /\ OnceInv
    BY ConfigSteps, LostSteps DEF Tracked
  <1>2. ASSUME NEW x \in {App} \cup (Domains \ Lost') PROVE Once(x)'
    BY <1>1, <1>2, KnownStep DEF OnceInv, Trusted, Lost, Ids
  <1> QED BY <1>2 DEF OnceInv, Trusted, Lost, Once

\* What is not the rollout's leaves it, and the application's route, alone.
Apart == UNCHANGED <<run, active, up, released>> /\ Kept(App)

LEMMA RequestsApart ==
  ASSUME Typed
  PROVE  /\ User \/ UNCHANGED vars => Apart /\ UNCHANGED config
         /\ \A q \in Requests : Handler(q) => Apart
  <1>1. UNCHANGED config => Kept(App)
    BY UntouchedKept DEF AllKept, Ids
  <1>2. User \/ UNCHANGED vars => Apart /\ UNCHANGED config
    BY <1>1 DEF User, Create, BeginVerify, BeginDelete, Begin, rest, vars, Apart
  <1>3. ASSUME NEW q \in Requests, Handler(q) PROVE Apart
    <2> PICK d : d = request[q].domain
      OBVIOUS
    <2>1. UNCHANGED <<run, active, up, released>>
      BY <1>3 DEF Handler, LookupFails, LookupMatches, RouteDomain, AddDomainRoute, Persist,
           RemoveRouteFirst, Drop, rest
    <2>2. CASE LookupFails(q) \/ LookupMatches(q) \/ Persist(q) \/ Drop(q)
      <3>1. UNCHANGED config
        BY <2>2 DEF LookupFails, LookupMatches, Persist, Drop, rest
      <3> QED BY <1>1, <2>1, <3>1 DEF Apart
    <2>3. config \in Seq(Route) /\ App \notin Domains /\ App \in Ids /\ Domains \subseteq Ids
      BY DomainsAssumption DEF Typed, App, Ids
    <2>4. CASE RouteDomain(q)
      <3>1. d \in Domains /\ (UNCHANGED config \/ Patch(DomainRoute(d, request[q].dial)))
        BY <2>4, RouteDomainEffect
      <3>2. Patch(DomainRoute(d, request[q].dial)) => SetTo(d, request[q].dial)
        BY <2>3, <3>1, PatchSets DEF DomainRoute
      <3>3. Kept(App)
        BY <1>1, <2>3, <3>1, <3>2 DEF SetTo, OthersKept
      <3> QED BY <2>1, <3>3 DEF Apart
    <2>5. CASE AddDomainRoute(q)
      <3>1. d \in Domains /\ (UNCHANGED config \/ Post(DomainRoute(d, request[q].dial)))
        BY <2>5, AddDomainRouteEffect
      <3>2. Post(DomainRoute(d, request[q].dial)) => Added(d, request[q].dial)
        BY <2>3, <3>1, PostAdds DEF DomainRoute
      <3>3. Kept(App)
        BY <1>1, <2>3, <3>1, <3>2 DEF Added, OthersKept
      <3> QED BY <2>1, <3>3 DEF Apart
    <2>6. CASE RemoveRouteFirst(q)
      <3>1. d \in Domains /\ (UNCHANGED config \/ Delete(d))
        BY <2>6, RemoveRouteFirstEffect
      <3>2. Delete(d) => Removed(d)
        BY <2>3, <3>1, DeleteRemoves
      <3>3. Kept(App)
        BY <1>1, <2>3, <3>1, <3>2 DEF Removed, OthersKept
      <3> QED BY <2>1, <3>3 DEF Apart
    <2> QED BY <1>3, <2>2, <2>4, <2>5, <2>6 DEF Handler
  <1> QED BY <1>2, <1>3

\* Where a failing call takes the run.
LEMMA FailsTo ==
  ASSUME NEW next, Fails(next)
  PROVE  /\ run'.todo = {} \/ run'.pc = "idle"
         /\ run'.pc \in {"remove", "app", "idle", next}
  BY DEF Fails, Failed, Restored, Ended, Begun, Moved

LEMMA TodoNewStep ==
  ASSUME Tracked, [Next]_vars
  PROVE  TodoInv' /\ NewInv'
  <1>1. /\ \A d \in Domains : RowStep(d)
        /\ Typed /\ TodoInv /\ NewInv
    BY RowSteps DEF Tracked
  <1>2. \A d \in Domains : domains[d].status # "absent" => domains'[d].status # "absent"
    BY <1>1, RowsStay
  <1>3. run.todo \in SUBSET Domains /\ run'.todo \in SUBSET Domains
    BY <1>1, TypedStep DEF Typed, Run
  <1> DEFINE Known1(todo) == \A d \in todo : domains[d].status # "absent"
             Todo1 == run'.pc \in Items \cup Unrouting => Known1(run'.todo)
             New1 == run'.pc = "appNew" => DialsOf(App)' = {}
  <1>4. ASSUME RolloutStep PROVE Todo1 /\ New1
    <2>1. CASE SwitchApp
      <3>1. DialsOf(App) = {} /\ UNCHANGED config => DialsOf(App)' = {}
        BY UntouchedKept DEF AllKept, Kept, Ids
      <3> QED BY <1>1, <2>1, <3>1, SwitchAppEffect, KnownDials DEF Moved, SwitchFailed, Items, Unrouting
    <2>2. CASE CreateAppRoute
      BY <1>1, <2>2, CreateAppRouteEffect DEF Moved, SwitchFailed, Items, Unrouting
    <2>3. CASE ListDomains
      <3>1. Known1({d \in Domains : Synced(d)})
        BY DEF Synced, Exists
      <3> HIDE DEF Known1
      <3> QED BY <1>1, <2>3, <3>1, ListDomainsEffect, FailsTo
              DEF Moved, AfterSync, Items, Unrouting
    <2>4. CASE SyncDomain \/ CreateSyncedRoute
      BY <1>1, <2>4, SyncDomainEffect, CreateSyncedRouteEffect, FailsTo DEF Moved, TodoInv, Items, Unrouting
    <2>5. CASE SaveSynced
      <3> DEFINE todo == run.todo \ {Todo}
      <3>1. Known1(todo)
        BY <1>1, <2>5, SaveSyncedEffect DEF TodoInv, Items
      <3>2. \/ Moved(IF todo = {} THEN AfterSync ELSE "item", todo)
            \/ Fails("discard")
        BY <1>1, <2>5, SaveSyncedEffect
      <3> HIDE DEF Known1, todo
      <3> QED BY <3>1, <3>2, FailsTo DEF Moved, AfterSync, Items, Unrouting
    <2>6. CASE Promote \/ RemoveAppRoute
      BY <1>1, <2>6, PromoteEffect, RemoveAppRouteEffect, FailsTo DEF Moved, AfterRemove, Items, Unrouting
    <2>7. CASE ListRouted
      <3> DEFINE todo == {d \in Domains : Exists(d) /\ domains[d].verified}
      <3>1. Known1(todo)
        BY DEF Exists
      <3>2. \/ Moved(IF todo = {} THEN "halt" ELSE "unroute", todo)
            \/ Fails("halt")
        BY <1>1, <2>7, ListRoutedEffect
      <3> HIDE DEF Known1, todo
      <3> QED BY <3>1, <3>2, FailsTo DEF Moved, Items, Unrouting
    <2>8. CASE RemoveDomainRoute \/ SaveRemoved
      BY <1>1, <2>8, RemoveDomainRouteEffect, SaveRemovedEffect, FailsTo
         DEF Moved, TodoInv, Items, Unrouting
    <2>9. CASE Retire \/ Discard \/ Halt
      BY <2>9 DEF Retire, Discard, Halt, Idle, Items, Unrouting
    <2>10. CASE Deploy \/ Stop
      BY <1>1, <2>10, DeployEffect, StopEffect DEF Typed, Begun, Items, Unrouting
    <2> QED BY <1>4, <2>1, <2>2, <2>3, <2>4, <2>5, <2>6, <2>7, <2>8, <2>9, <2>10 DEF RolloutStep
  <1>5. ASSUME Crash PROVE Todo1 /\ New1
    BY <1>1, <1>5, CrashEffect DEF Restored, Ended, Begun, Items, Unrouting
  <1>6. ASSUME Apart PROVE Todo1 /\ New1
    <2>1. Todo1
      BY <1>1, <1>6 DEF Apart, TodoInv
    <2>2. New1
      BY <1>1, <1>6, KnownDials DEF Apart, Kept, NewInv
    <2> QED BY <2>1, <2>2
  <1>7. Todo1 /\ New1
    BY <1>1, <1>4, <1>5, <1>6, RequestsApart DEF Next
  <1>8. TodoInv'
    BY <1>2, <1>3, <1>7 DEF TodoInv
  <1>9. NewInv'
    BY <1>7 DEF NewInv, Known, DialsOf
  <1> QED BY <1>8, <1>9

LEMMA TrackedInit == Init => Tracked
  <1> SUFFICES ASSUME Init PROVE Tracked
    OBVIOUS
  <1>1. /\ config = << >> /\ \A x : At(x) = {}
        /\ \A d \in Domains : domains[d] = Absent
        /\ \A q \in Requests : request[q] = NoRequest
        /\ run = Idle
    BY DEF Init, EnsureBase, At
  <1>2. Typed
    BY TypedInit
  <1>3. RowInv /\ AskInv
    BY <1>1 DEF RowInv, AskInv, Absent, NoRequest, Exists
  <1>4. HostInv /\ TodoInv /\ NewInv
    BY <1>1 DEF HostInv, TodoInv, NewInv, Idle, Items, Unrouting
  <1>5. RoutedInv /\ OnceInv /\ OnlyVerifiedRouted
    BY <1>1 DEF RoutedInv, OnceInv, Once, OnlyVerifiedRouted, Known
  <1> QED BY <1>2, <1>3, <1>4, <1>5 DEF Tracked

LEMMA TrackedStep == Tracked /\ [Next]_vars => Tracked'
  <1> SUFFICES ASSUME Tracked, [Next]_vars PROVE Tracked'
    OBVIOUS
  <1>1. Typed'
    BY TypedStep DEF Tracked
  <1> QED BY <1>1, HostStep, AskStep, RowInvStep, RoutedStep, OnceStep, TodoNewStep DEF Tracked

\* Types, and who is routed: a route carries the host of its record, a
\* trusted record has at most one route, and none once it is deleted.
THEOREM TrackedInvariant == Spec => []Tracked
  BY TrackedInit, TrackedStep, PTL DEF Spec

\* Only DNS-verified domains are routed (custom_domain.go:95-133): a route of
\* an unverified record was left by a verification whose last write failed or
\* was cut off, or that found another address (`strayed`), or written by one
\* who had read too early (`stale`).  No other failing call, cancellation or
\* crash leaves one, however many domains, requests and releases there are.
THEOREM VerifiedRouted == Spec => []OnlyVerifiedRouted
  <1>1. Tracked => OnlyVerifiedRouted
    BY DEF Tracked
  <1> QED BY <1>1, TrackedInvariant, PTL

-----------------------------------------------------------------------------
LEMMA ServedFirst ==
  ASSUME NEW h, NEW r \in Served(h)
  PROVE  \E i \in DOMAIN config : /\ config[i].dial = r /\ config[i].host = h
                                  /\ \A k \in 1..(i - 1) : config[k].host # h
  BY DEF Served

LEMMA NoGapStep ==
  ASSUME Tracked, ConfigStep, ~Unroutes, NEW h, Served(h) # {}
  PROVE  Served(h)' # {}
  <1>1. config \in Seq(Route) /\ HostInv
    BY DEF Tracked, Typed
  <1>2. PICK i \in DOMAIN config : config[i].host = h /\ \A k \in 1..(i - 1) : config[k].host # h
    BY ServedFirst
  <1> DEFINE n == Len(config)
  <1>3. n \in Nat /\ DOMAIN config = 1..n /\ i \in 1..n /\ \A k \in 1..(i - 1) : k \in 1..n
    BY <1>1, <1>2
  <1> HIDE DEF n
  <1>4. SUFFICES i \in DOMAIN config' /\ \A k \in 1..n : config'[k].host = config[k].host
    <2>1. ASSUME i \in DOMAIN config', \A k \in 1..n : config'[k].host = config[k].host
          PROVE  config'[i].dial \in Served(h)'
      <3>1. config'[i].host = h /\ \A k \in 1..(i - 1) : config'[k].host # h
        BY <1>2, <1>3, <2>1
      <3> QED BY <2>1, <3>1 DEF Served
    <2> QED BY <2>1
  <1>5. CASE UNCHANGED config
    BY <1>2, <1>5
  <1>6. ASSUME NEW x \in Ids, NEW r \in Nat, Patching(x, r)
        PROVE  i \in DOMAIN config' /\ \A k \in 1..n : config'[k].host = config[k].host
    <2> DEFINE route == RouteOf(x, Name(x), r)
    <2>1. route.id = x /\ route.host = Name(x)
      BY DEF RouteOf
    <2>2. PICK j \in At(x) : config' = [config EXCEPT ![j] = route]
      BY <1>6, <2>1 DEF Patching, Patch
    <2> HIDE DEF route
    <2>3. j \in DOMAIN config /\ config[j].host = Name(x) /\ DOMAIN config' = DOMAIN config
      BY <1>1, <2>2 DEF At, HostInv
    <2> QED BY <1>3, <2>1, <2>2, <2>3
  <1>7. ASSUME NEW x \in Ids, NEW r \in Nat, Posting(x, r)
        PROVE  i \in DOMAIN config' /\ \A k \in 1..n : config'[k].host = config[k].host
    <2>1. config' = Append(config, RouteOf(x, Name(x), r))
      BY <1>7 DEF Posting, Post
    <2>2. DOMAIN config' = 1..(n + 1) /\ \A k \in 1..n : config'[k] = config[k]
      BY <1>1, <1>3, <2>1 DEF n
    <2> QED BY <1>3, <2>2
  <1> QED BY <1>5, <1>6, <1>7 DEF ConfigStep

\* "Replaces an existing route in one request" (client.go:90): a host that is
\* answered goes on being answered until a stop, an undone first deployment or
\* a deletion removes its route.
THEOREM NoGaps == Spec => NoGap
  <1>1. ASSUME Tracked, [Next]_vars, NEW h \in Hostnames \cup {AppHost}, Served(h) # {}, Served(h)' = {}
        PROVE  run.pc \in {"remove", "unroute"} \/ \E q \in Requests : request[q].pc = "unroute"
    <2>1. ConfigStep
      BY <1>1, ConfigSteps DEF Tracked
    <2> QED BY <1>1, <2>1, NoGapStep DEF Unroutes
  <1>2. Tracked /\ [Next]_vars =>
          [\A h \in Hostnames \cup {AppHost} :
             Served(h) # {} /\ Served(h)' = {} =>
               \/ run.pc \in {"remove", "unroute"}
               \/ \E q \in Requests : request[q].pc = "unroute"]_vars
    BY <1>1
  <1> QED BY <1>2, TrackedInvariant, PTL DEF Spec, NoGap

-----------------------------------------------------------------------------
(* Who holds the lock, and what he is about.                               *)
Undo == {"undo", "recover"}
Rollouts == {"deploy"} \cup Undo
Syncing == {"list"} \cup Items

RunSound(r, a, u, n) ==
  /\ a \in 0..n /\ u \subseteq 1..n
  /\ r.kind = "none" => r.pc = "idle"
  /\ r.kind = "deploy" => r.pc \in Switching \cup Syncing \cup {"promote", "retire", "discard"}
  /\ r.kind \in Undo => r.pc \in Switching \cup Syncing \cup {"remove", "discard"}
  /\ r.kind = "stop" => r.pc \in Unrouting \cup {"remove", "listStop", "halt"}
  /\ r.kind \in Rollouts => r.candidate \in u
  /\ r.kind = "deploy" => r.dial = r.candidate
  /\ r.kind = "deploy" /\ r.pc # "retire" => r.previous = a /\ a # r.candidate
  /\ r.pc = "retire" => r.candidate = a /\ r.previous # a
  /\ r.kind \in Undo => /\ r.dial = r.previous /\ r.previous # r.candidate
                        /\ r.previous \in 0..n /\ a \in {r.previous, r.candidate}
  /\ r.kind \in Undo /\ r.pc = "remove" => r.previous = NoRelease
  /\ r.kind \in Undo /\ r.pc \in Switching \cup Syncing => r.previous # NoRelease

\* The active release runs, and an undo puts it back.  It is otherwise after a
\* promotion that the database carried out and whose reply
\* was lost: the undo puts the previous release back and removes the active one.
Steady == active \in up \cup {NoRelease} /\ (run.kind \in Undo => active = run.previous)
Exhausted == ~(mishaps < MaxMishaps)
RunInv ==
  /\ RunSound(run, active, up, released)
  /\ Steady \/ Exhausted
  /\ run.kind = "deploy" /\ run.pc = "discard" => Steady

\* With a candidate that is not the active release a rollout has not been
\* committed, and the other way round.
LEMMA Uncommitted ==
  ASSUME run \in Run, RunSound(run, active, up, released), Steady
  PROVE  Recovering <=> run.kind \in Rollouts /\ run.pc # "retire"
  <1> USE DEF RunSound, Recovering, Rollouts
  <1>1. CASE run.kind = "deploy"
    BY <1>1
  <1>2. CASE run.kind \in Undo
    BY <1>2 DEF Undo, Steady, Switching, Syncing, Items
  <1> QED BY <1>1, <1>2 DEF Undo

\* The reply of a promotion is lost only as the last of the mishaps.
LostLast == run.pc = "promote" /\ active' # active /\ run'.pc # "retire" => ~(mishaps' < MaxMishaps)

LEMMA MishapSteps ==
  ASSUME [Next]_vars
  PROVE  Mishap \/ UNCHANGED mishaps
  <1>1. CASE RolloutStep
    BY <1>1 DEF RolloutStep, Deploy, SwitchApp, CreateAppRoute, ListDomains, SyncDomain,
         CreateSyncedRoute, SyncFails, SaveSynced, Promote, Retire, Discard, Stop, RemoveAppRoute,
         ListRouted, RemoveDomainRoute, SaveRemoved, Halt, NoMishap
  <1>2. CASE User \/ Crash \/ UNCHANGED vars
    BY <1>2 DEF User, Create, BeginVerify, BeginDelete, Begin, Crash, rest, vars
  <1>3. ASSUME NEW q \in Requests, Handler(q) PROVE Mishap \/ UNCHANGED mishaps
    BY <1>3 DEF Handler, LookupFails, LookupMatches, RouteDomain, RouteFails, AddDomainRoute, Persist,
         RemoveRouteFirst, Drop, NoMishap
  <1> QED BY <1>1, <1>2, <1>3 DEF Next

LEMMA StaysExhausted == [Next]_vars /\ Exhausted => Exhausted'
  BY MishapSteps DEF Exhausted, Mishap

LEMMA FailsSound ==
  ASSUME RunInv, LostLast, NEW next, Fails(next),
         (run.kind \in Undo => next = "discard" /\ run.pc # "retire"),
         (run.kind = "deploy" => run.pc # "retire"), run.kind # "none", run \in Run,
         released \in Nat
  PROVE  RunInv'
  <1>1. /\ UNCHANGED <<up, released>> /\ Failed(next)
        /\ active' = active \/ (run.pc = "promote" /\ active' = run.candidate)
    BY DEF Fails
  <1>2. run.kind \in {"deploy", "stop"} \cup Undo
    BY DEF Run, Undo
  <1>3. Steady
    BY DEF Fails, Mishap, RunInv, Exhausted
  <1>4. CASE run.kind = "deploy"
    <2>1. Restored("undo", run.previous)
      BY <1>1, <1>4 DEF Failed
    <2>2. /\ run.previous = active /\ active # run.candidate /\ run.candidate \in up
          /\ active \in 0..released /\ up \subseteq 1..released
      BY <1>4 DEF RunInv, RunSound, Rollouts
    <2>3. active' \in 0..released /\ active' \in {run.previous, run.candidate}
      <3>1. run.candidate \in 0..released
        <4>1. run.candidate \in 1..released
          BY <2>2
        <4> QED BY <4>1
      <3> QED BY <1>1, <2>2, <3>1
    <2>4. RunSound(run, active, up, released)'
      BY <1>1, <2>1, <2>2, <2>3 DEF Restored, RunSound, Undo, Rollouts, Switching, Syncing, Items, Unrouting
    <2>5. Steady' \/ Exhausted'
      <3>1. CASE active' = active
        BY <1>1, <1>3, <2>1, <2>2, <3>1 DEF Restored, Steady
      <3>2. CASE active' # active
        BY <1>1, <2>1, <3>2 DEF Restored, LostLast, Exhausted
      <3> QED BY <3>1, <3>2
    <2> QED BY <2>1, <2>4, <2>5 DEF Restored, RunInv
  <1>5. CASE run.kind = "stop"
    <2>1. Ended /\ active' = active
      BY <1>1, <1>5 DEF Failed, RunInv, RunSound, Unrouting
    <2> QED BY <1>1, <1>3, <2>1
            DEF Ended, Begun, RunInv, RunSound, Steady, Undo, Rollouts
  <1>6. CASE run.kind \in Undo
    <2>1. Moved("discard", {}) /\ active' = active
      BY <1>1, <1>6 DEF Failed, RunInv, RunSound, Undo, Switching, Syncing, Items
    <2> QED BY <1>1, <1>3, <1>6, <2>1
            DEF Moved, RunInv, RunSound, Steady, Undo, Rollouts, Switching, Syncing, Items, Unrouting
  <1> QED BY <1>2, <1>4, <1>5, <1>6

\* A step that goes on with the same rollout or stop.
LEMMA GoesOnSound ==
  ASSUME RunInv, [Next]_vars, NEW pc, NEW todo, Moved(pc, todo), UNCHANGED <<active, up, released>>,
         RunSound(run, active, up, released)', pc # "discard" \/ run.kind # "deploy"
  PROVE  RunInv'
  <1>1. Steady => Steady'
    BY DEF Steady, Moved
  <1> QED BY <1>1, StaysExhausted DEF RunInv, Moved

LEMMA RunStep ==
  ASSUME Typed, RunInv, LostLast, RolloutStep \/ Crash
  PROVE  RunInv'
  <1> USE DEF Switching, Syncing, Items, Unrouting, Undo, Rollouts
  <1>0. /\ run \in Run /\ active \in Nat /\ released \in Nat /\ run.kind \in {"none", "stop"} \cup Rollouts
        /\ [Next]_vars /\ RunSound(run, active, up, released) /\ (Steady \/ Exhausted)
        /\ Exhausted => Exhausted'
    BY StaysExhausted DEF Typed, Run, Next, RunInv
  <1>1. CASE Deploy
    <2>1. /\ Begun("deploy", "app") /\ run'.dial = released' /\ run'.candidate = released'
          /\ run'.previous = active /\ released' = released + 1 /\ up' = up \cup {released'}
          /\ active' = active /\ run.pc = "idle"
      BY <1>0, <1>1, DeployEffect DEF Deploy
    <2>2. RunSound(run, active, up, released)'
      BY <1>0, <2>1 DEF Begun, RunSound
    <2>3. Steady => Steady'
      BY <2>1 DEF Begun, Steady
    <2> QED BY <1>0, <2>1, <2>2, <2>3 DEF Begun, RunInv
  <1>2. CASE SwitchApp \/ CreateAppRoute
    <2>1. /\ run.pc \in {"app", "appNew"} /\ Aside
          /\ \/ Moved("list", run.todo) \/ (Moved("appNew", run.todo) /\ run.pc = "app")
             \/ SwitchFailed /\ Mishap
      BY <1>2, SwitchAppEffect, CreateAppRouteEffect
    <2>2. CASE Moved("list", run.todo) \/ Moved("appNew", run.todo)
      <3>1. RunSound(run, active, up, released)'
        BY <1>0, <2>1, <2>2 DEF Moved, Aside, RunSound
      <3> QED BY <1>0, <2>1, <2>2, <3>1, GoesOnSound DEF Aside
    <2>3. CASE SwitchFailed /\ Mishap
      <3>1. RunSound(run, active, up, released)'
        BY <1>0, <2>1, <2>3 DEF Moved, SwitchFailed, Aside, RunSound
      <3>2. Steady'
        BY <1>0, <2>1, <2>3 DEF Moved, SwitchFailed, Aside, Steady, Mishap, Exhausted
      <3> QED BY <3>1, <3>2 DEF RunInv
    <2> QED BY <2>1, <2>2, <2>3
  <1>4. CASE ListDomains
    <2>1. run.pc = "list"
      BY <1>4, ListDomainsEffect
    <2>2. run.kind \in Rollouts
      BY <1>0, <2>1 DEF RunSound
    <2>3. CASE Fails("discard")
      BY <1>0, <2>1, <2>2, <2>3, FailsSound
    <2>4. ASSUME NEW todo, Aside, Moved(IF todo = {} THEN AfterSync ELSE "item", todo) PROVE RunInv'
      <3>1. RunSound(run, active, up, released)'
        BY <1>0, <2>1, <2>2, <2>4 DEF Moved, Aside, AfterSync, RunSound
      <3>2. (IF todo = {} THEN AfterSync ELSE "item") # "discard" \/ run.kind # "deploy"
        BY DEF AfterSync
      <3> QED BY <1>0, <2>4, <3>1, <3>2, GoesOnSound DEF Aside
    <2> QED BY <1>4, <2>3, <2>4, ListDomainsEffect
  <1>5. CASE SyncDomain \/ CreateSyncedRoute
    <2>1. run.pc \in {"item", "itemNew"}
      BY <1>5, SyncDomainEffect, CreateSyncedRouteEffect
    <2>2. run.kind \in Rollouts
      BY <1>0, <2>1 DEF RunSound
    <2>3. CASE Fails("discard")
      BY <1>0, <2>1, <2>2, <2>3, FailsSound
    <2>4. CASE Aside /\ (Moved("itemSave", run.todo) \/ Moved("itemNew", run.todo))
      <3>1. RunSound(run, active, up, released)'
        BY <1>0, <2>1, <2>2, <2>4 DEF Moved, Aside, RunSound
      <3> QED BY <1>0, <2>4, <3>1, GoesOnSound DEF Aside
    <2> QED BY <1>5, <2>3, <2>4, SyncDomainEffect, CreateSyncedRouteEffect
  <1>6. CASE SaveSynced
    <2>1. run.pc = "itemSave"
      BY <1>6, SaveSyncedEffect
    <2>2. run.kind \in Rollouts
      BY <1>0, <2>1 DEF RunSound
    <2>3. CASE Fails("discard")
      BY <1>0, <2>1, <2>2, <2>3, FailsSound
    <2>4. ASSUME NEW todo, Aside, Moved(IF todo = {} THEN AfterSync ELSE "item", todo) PROVE RunInv'
      <3>1. RunSound(run, active, up, released)'
        BY <1>0, <2>1, <2>2, <2>4 DEF Moved, Aside, AfterSync, RunSound
      <3>2. (IF todo = {} THEN AfterSync ELSE "item") # "discard" \/ run.kind # "deploy"
        BY DEF AfterSync
      <3> QED BY <1>0, <2>4, <3>1, <3>2, GoesOnSound DEF Aside
    <2> QED BY <1>6, <2>3, <2>4, SaveSyncedEffect
  <1>7. CASE Promote
    <2>1. run.pc = "promote" /\ run.kind = "deploy"
      BY <1>0, <1>7, PromoteEffect DEF RunSound
    <2>2. CASE Fails("discard")
      BY <1>0, <2>1, <2>2, FailsSound
    <2>3. CASE active' = run.candidate /\ Moved("retire", run.todo) /\ UNCHANGED <<up, released>>
      <3>1. run.candidate \in up /\ up \subseteq 1..released /\ run.previous = active /\ active # run.candidate
        BY <1>0, <2>1 DEF RunSound
      <3>2. run.candidate \in 0..released
        <4>1. run.candidate \in 1..released /\ released \in Nat
          BY <1>0, <3>1
        <4> QED BY <4>1
      <3>3. /\ run'.pc = "retire" /\ run'.kind = "deploy" /\ run'.candidate = run.candidate
            /\ run'.previous = run.previous /\ run'.dial = run.candidate
            /\ active' = run.candidate /\ up' = up /\ released' = released
        BY <1>0, <2>1, <2>3 DEF Moved, RunSound
      <3>4. RunSound(run, active, up, released)'
        BY <3>1, <3>2, <3>3 DEF RunSound
      <3> QED BY <3>1, <3>3, <3>4 DEF RunInv, Steady
    <2> QED BY <1>7, <2>2, <2>3, PromoteEffect
  <1>8. CASE Retire \/ Discard
    <2>1. Ended /\ UNCHANGED <<active, released>> /\ up' \subseteq up
      BY <1>8, IdleEffect DEF Retire, Discard
    <2>2. RunSound(run, active, up, released)'
      BY <1>0, <2>1 DEF Ended, Begun, RunSound
    <2>3. Steady => active \in up' \cup {NoRelease}
      <3>1. CASE Retire
        BY <1>0, <3>1 DEF Retire, RunSound, Steady
      <3>2. CASE Discard
        <4>1. run.pc = "discard" /\ run.kind \in Rollouts /\ up' = up \ {run.candidate}
          BY <1>0, <3>2 DEF Discard, RunSound
        <4>2. Steady => active # run.candidate
          BY <1>0, <4>1 DEF RunSound, Steady
        <4> QED BY <4>1, <4>2 DEF Steady
      <3> QED BY <1>8, <3>1, <3>2
    <2>4. Steady => Steady'
      BY <2>1, <2>3 DEF Ended, Begun, Steady
    <2> QED BY <1>0, <2>1, <2>2, <2>4 DEF Ended, Begun, RunInv
  <1>9. CASE Halt
    <2>1. Ended /\ active' = NoRelease /\ UNCHANGED released /\ up' \subseteq up
      BY <1>9, IdleEffect DEF Halt
    <2> QED BY <1>0, <2>1 DEF Ended, Begun, RunInv, RunSound, Steady, NoRelease
  <1>10. CASE Stop
    <2>1. Begun("stop", "remove") /\ UNCHANGED <<active, up, released>> /\ run.pc = "idle"
      BY <1>10, StopEffect DEF Stop
    <2>2. Steady => Steady'
      BY <2>1 DEF Begun, Steady
    <2>3. RunSound(run, active, up, released)'
      BY <1>0, <2>1 DEF Begun, RunSound
    <2> QED BY <1>0, <2>1, <2>2, <2>3 DEF Begun, RunInv
  <1>11. CASE RemoveAppRoute
    <2>1. run.pc = "remove" /\ run.kind \in {"stop"} \cup Undo
      BY <1>0, <1>11, RemoveAppRouteEffect DEF RunSound
    <2>2. CASE Fails("discard")
      BY <1>0, <2>1, <2>2, FailsSound
    <2>3. CASE Aside /\ Moved(AfterRemove, run.todo)
      <3>1. RunSound(run, active, up, released)'
        BY <1>0, <2>1, <2>3 DEF Moved, Aside, AfterRemove, RunSound
      <3> QED BY <1>0, <2>1, <2>3, <3>1, GoesOnSound DEF Aside
    <2> QED BY <1>11, <2>2, <2>3, RemoveAppRouteEffect
  <1>12. CASE ListRouted \/ RemoveDomainRoute \/ SaveRemoved
    <2>1. run.pc \in {"listStop", "unroute", "unrouteSave"} /\ run.kind = "stop"
      BY <1>0, <1>12, ListRoutedEffect, RemoveDomainRouteEffect, SaveRemovedEffect DEF RunSound
    <2>2. CASE Fails("halt")
      BY <1>0, <2>1, <2>2, FailsSound
    <2>3. ASSUME NEW pc \in {"halt", "unroute", "unrouteSave"}, NEW todo, Aside, Moved(pc, todo)
          PROVE  RunInv'
      <3>1. RunSound(run, active, up, released)'
        BY <1>0, <2>1, <2>3 DEF Moved, Aside, RunSound
      <3> QED BY <1>0, <2>1, <2>3, <3>1, GoesOnSound DEF Aside
    <2> QED BY <1>12, <2>2, <2>3, ListRoutedEffect, RemoveDomainRouteEffect, SaveRemovedEffect
  <1>13. CASE Crash
    <2>1. UNCHANGED <<active, released>> /\ Steady
      BY <1>0, <1>13, CrashEffect DEF Mishap, Exhausted
    <2>2. CASE Recovering /\ Restored("recover", active) /\ UNCHANGED up
      <3>1. /\ run.kind \in Rollouts /\ run.previous = active /\ run.candidate \in up /\ active # run.candidate
            /\ active \in 0..released
        BY <1>0, <2>1, <2>2 DEF Recovering, RunSound, Steady
      <3>2. RunSound(run, active, up, released)'
        BY <1>0, <2>1, <2>2, <3>1 DEF Restored, RunSound
      <3> QED BY <2>1, <2>2, <3>1, <3>2 DEF Restored, RunInv, Steady
    <2>3. CASE Ended /\ up' = up \cap {active, run.previous}
      BY <1>0, <2>1, <2>3 DEF Ended, Begun, RunInv, RunSound, Steady
    <2> QED BY <1>13, <2>2, <2>3, CrashEffect
  <1> QED BY <1>1, <1>2, <1>4, <1>5, <1>6, <1>7, <1>8, <1>9, <1>10, <1>11, <1>12, <1>13
          DEF RolloutStep

-----------------------------------------------------------------------------
(* Which releases the routes dial, at each stage of the rollout or stop.    *)
(* `Settled`: only the active release, of those that run.  A deployment     *)
(* whose switch of the application's route failed does not know whether     *)
(* that route dials its candidate.                                          *)
Owned == {App} \cup Trusted
Settled ==
  \/ run.kind \in {"none", "stop"} \/ run.pc = "retire"
  \/ run.kind = "deploy" /\ run.pc \in Switching
PutBack == run.kind \in Undo /\ run.pc = "discard" /\ run.previous # NoRelease

DialInv ==
  /\ \A x \in Owned : DialsOf(x) \subseteq 0..released
  /\ Steady /\ Settled => \A x \in Owned : DialsOf(x) \cap up \subseteq {active}
  /\ Steady /\ run.kind = "deploy" => \A x \in Owned : DialsOf(x) \cap up \subseteq {active, run.dial}
  /\ Steady /\ run.kind = "deploy" /\ run.pc = "discard" =>
       \A d \in Trusted : DialsOf(d) \cap up \subseteq {active}
  /\ run.kind \in Undo => \A x \in Owned : DialsOf(x) \cap up \subseteq {run.previous, run.candidate}
  /\ PutBack => \A x \in Owned : DialsOf(x) \cap up \subseteq {run.previous}
  /\ run.pc \in Syncing \cup {"promote"} => DialsOf(App) = {run.dial}
  /\ run.pc \in Items => \A d \in Trusted \ run.todo : DialsOf(d) \subseteq {run.dial}
  /\ run.pc = "itemSave" => \A d \in Trusted : d = Todo => DialsOf(d) \subseteq {run.dial}
  /\ run.pc = "promote" => \A d \in Trusted : DialsOf(d) \subseteq {run.dial}
  /\ run.kind = "stop" /\ run.pc # "remove" => DialsOf(App) = {}
  /\ run.pc = "unroute" => \A d \in Trusted \ run.todo : DialsOf(d) = {}
  /\ run.pc = "unrouteSave" =>
       \A d \in Trusted : d \notin run.todo \/ d = Todo => DialsOf(d) = {}
  /\ run.pc = "halt" => \A d \in Trusted : DialsOf(d) = {}

\* No call fails while a rollout is undone or recovered.
UndoWorks == run.kind \in Undo /\ run' # run /\ run'.pc \notin {"app", "remove"} => mishaps' = mishaps

LEMMA TrustedShrinks ==
  Lost \subseteq Lost' => Trusted' \subseteq Trusted /\ Owned' \subseteq Owned
  BY DEF Trusted, Owned, Lost

LEMMA TrustedKept == Lost' = Lost => Trusted' = Trusted /\ Owned' = Owned
  BY DEF Trusted, Owned, Lost

LEMMA OwnedIds == Owned \subseteq Ids /\ Trusted \subseteq Owned /\ App \in Owned /\ App \notin Trusted
  BY DomainsAssumption DEF Owned, Trusted, Ids, App

LEMMA SameDials == UNCHANGED config => \A x \in Owned : DialsOf(x)' = DialsOf(x)
  BY UntouchedKept, OwnedIds DEF AllKept, Kept

\* The release a rollout dials is one of the deployed ones.
LEMMA DialDeployed ==
  ASSUME Typed, RunInv, run.kind \in Rollouts
  PROVE  run.dial \in 0..released
  <1>1. released \in Nat /\ RunSound(run, active, up, released)
    BY DEF Typed, RunInv
  <1>2. CASE run.kind = "deploy"
    <2>1. run.dial \in 1..released
      BY <1>1, <1>2 DEF RunSound, Rollouts
    <2> QED BY <1>1, <2>1
  <1>3. CASE run.kind \in Undo
    BY <1>1, <1>3 DEF RunSound
  <1> QED BY <1>2, <1>3 DEF Rollouts

\* What a call that failed may have done to a route nobody has lost.
LEMMA FailedDials ==
  ASSUME Tracked, Loses, MaybeRouted
  PROVE  /\ \A x \in Owned' : DialsOf(x)' \subseteq DialsOf(x) \cup {run.dial}
         /\ run.pc \notin {"item", "itemNew"} => \A x \in Owned' : DialsOf(x)' \subseteq DialsOf(x)
  <1>1. /\ Typed /\ config \in Seq(Route) /\ run.dial \in Nat /\ App \in Ids /\ Domains \subseteq Ids
        /\ Trusted' \subseteq Trusted /\ Owned' \subseteq Owned /\ Owned \subseteq Ids
    BY TrustedShrinks, OwnedIds DEF Tracked, Typed, Run, Ids, Loses
  <1>2. CASE UNCHANGED config
    BY <1>1, <1>2, SameDials
  <1>3. ASSUME NEW t \in Ids, OthersKept(t),
               DialsOf(t)' \subseteq DialsOf(t) \cup {run.dial},
               run.pc \in {"item", "itemNew"} \/ DialsOf(t)' \subseteq DialsOf(t)
        PROVE  /\ \A x \in Owned' : DialsOf(x)' \subseteq DialsOf(x) \cup {run.dial}
               /\ run.pc \notin {"item", "itemNew"} =>
                    \A x \in Owned' : DialsOf(x)' \subseteq DialsOf(x)
    BY <1>1, <1>3 DEF OthersKept, Kept
  <1>4. CASE run.pc = "item" /\ Todo \in Domains /\ Patch(DomainRoute(Todo, run.dial))
    <2>1. PICK t \in Domains : t = Todo
      BY <1>4
    <2>2. SetTo(t, run.dial)
      BY <1>1, <1>4, <2>1, PatchSets DEF DomainRoute
    <2> QED BY <1>1, <1>3, <1>4, <2>2 DEF SetTo
  <1>5. CASE run.pc = "itemNew" /\ Todo \in Domains /\ Post(DomainRoute(Todo, run.dial))
    <2>1. PICK t \in Domains : t = Todo
      BY <1>5
    <2>2. Added(t, run.dial)
      BY <1>1, <1>5, <2>1, PostAdds DEF DomainRoute
    <2> QED BY <1>1, <1>3, <1>5, <2>2 DEF Added
  <1>6. ASSUME NEW t \in Ids, Delete(t)
        PROVE  /\ \A x \in Owned' : DialsOf(x)' \subseteq DialsOf(x) \cup {run.dial}
               /\ run.pc \notin {"item", "itemNew"} =>
                    \A x \in Owned' : DialsOf(x)' \subseteq DialsOf(x)
    <2>1. Removed(t)
      BY <1>1, <1>6, DeleteRemoves
    <2> QED BY <1>3, <2>1 DEF Removed
  <1> QED BY <1>1, <1>2, <1>4, <1>5, <1>6 DEF MaybeRouted

LEMMA FailsDials ==
  ASSUME Tracked, RunInv, DialInv, UndoWorks, NEW next, Fails(next),
         run.pc \notin {"idle", "retire", "discard"}, run.kind \in Undo => next = "discard"
  PROVE  DialInv'
  <1> USE DEF Switching, Syncing, Items, Unrouting, Undo, Rollouts
  <1>1. /\ UNCHANGED <<up, released>> /\ Failed(next) /\ Mishap /\ Typed
        /\ active' = active \/ run.pc = "promote"
        /\ Trusted' \subseteq Trusted /\ Owned' \subseteq Owned
    BY TrustedShrinks DEF Fails, Loses, Tracked
  <1>2. /\ \A x \in Owned' : DialsOf(x)' \subseteq DialsOf(x) \cup {run.dial}
        /\ run.pc \notin {"item", "itemNew"} => \A x \in Owned' : DialsOf(x)' \subseteq DialsOf(x)
    BY FailedDials DEF Fails
  <1>3. /\ run.kind \in {"deploy", "stop"} \cup Undo /\ mishaps \in Nat /\ Steady
        /\ RunSound(run, active, up, released)
    BY <1>1 DEF Typed, Run, RunInv, RunSound, Mishap, Exhausted
  <1>4. CASE run.kind = "deploy"
    <2>1. /\ Restored("undo", run.previous) /\ run.previous = active /\ run.dial = run.candidate
          /\ run.dial \in 0..released
      BY <1>1, <1>3, <1>4, DialDeployed DEF Failed, RunSound
    <2>2. ASSUME NEW x \in Owned'
          PROVE  /\ DialsOf(x)' \subseteq 0..released
                 /\ DialsOf(x)' \cap up \subseteq {run.previous, run.candidate}
      <3>1. DialsOf(x) \subseteq 0..released /\ DialsOf(x) \cap up \subseteq {active, run.dial}
        BY <1>1, <1>3, <1>4 DEF DialInv
      <3> QED BY <1>2, <2>1, <3>1
    <2> QED BY <1>1, <2>1, <2>2 DEF Restored, DialInv, Settled, PutBack
  <1>5. CASE run.kind = "stop"
    <2>1. Ended /\ active' = active /\ run.pc \notin {"item", "itemNew"}
      BY <1>1, <1>3, <1>5 DEF Failed, RunSound
    <2>2. ASSUME NEW x \in Owned'
          PROVE  DialsOf(x)' \subseteq 0..released /\ DialsOf(x)' \cap up \subseteq {active}
      <3>1. DialsOf(x) \subseteq 0..released /\ DialsOf(x) \cap up \subseteq {active}
        BY <1>1, <1>3, <1>5 DEF DialInv, Settled
      <3> QED BY <1>2, <2>1, <3>1
    <2> QED BY <1>1, <2>1, <2>2 DEF Ended, Begun, DialInv, Settled, PutBack
  <1>6. CASE run.kind \in Undo
    <2>1. run'.pc = "discard" /\ run' # run /\ mishaps' # mishaps
      BY <1>1, <1>3, <1>6 DEF Failed, Moved, Mishap
    <2> QED BY <1>6, <2>1 DEF UndoWorks
  <1> QED BY <1>3, <1>4, <1>5, <1>6

LEMMA DeployDials ==
  ASSUME Typed, RunInv, DialInv, Deploy
  PROVE  DialInv'
  <1>1. /\ Begun("deploy", "app") /\ run'.dial = released' /\ released' = released + 1
        /\ up' = up \cup {released'} /\ UNCHANGED <<active, config, ghosts>> /\ run.pc = "idle"
        /\ active \in Nat /\ released \in Nat
    BY DeployEffect DEF Deploy, Typed
  <1>2. /\ \A x \in Owned : DialsOf(x)' = DialsOf(x)
        /\ Owned' = Owned /\ Trusted' = Trusted
    BY <1>1, SameDials DEF Owned, Trusted, ghosts
  <1>3. run.kind = "none"
    BY <1>1 DEF RunInv, RunSound, Typed, Run, Rollouts, Undo, Switching, Syncing, Items, Unrouting
  <1>4. ASSUME NEW x \in Owned
        PROVE  DialsOf(x) \subseteq 0..released' /\ released' \notin DialsOf(x)
    <2>1. DialsOf(x) \subseteq 0..released
      BY DEF DialInv
    <2>2. 0..released \subseteq 0..released' /\ released' \notin 0..released
      BY <1>1
    <2> QED BY <2>1, <2>2
  <1>5. Steady' => Steady
    <2>1. active \in 0..released
      BY DEF RunInv, RunSound
    <2>2. active # released'
      BY <1>1, <2>1
    <2> QED BY <1>1, <1>3, <2>2 DEF Steady, Undo
  <1>6. Steady' => \A x \in Owned : DialsOf(x) \cap up \subseteq {active}
    BY <1>3, <1>5 DEF DialInv, Settled
  <1> QED BY <1>1, <1>2, <1>4, <1>6
          DEF Begun, DialInv, Settled, PutBack, Switching, Syncing, Items, Undo

LEMMA SwitchDials ==
  ASSUME Tracked, RunInv, DialInv, UndoWorks, SwitchApp \/ CreateAppRoute
  PROVE  DialInv'
  <1> USE DEF Switching, Syncing, Items, Unrouting, Undo, Rollouts
  <1>1. Typed /\ config \in Seq(Route) /\ run \in Run /\ run.dial \in Nat /\ mishaps \in Nat
    BY DEF Tracked, Typed, Run
  <1>2. /\ run.pc \in Switching /\ Aside /\ Lost' = Lost
        /\ \/ /\ Patch(AppRoute(run.dial)) \/ (Post(AppRoute(run.dial)) /\ run.pc = "appNew")
              /\ Moved("list", run.todo) \/ (SwitchFailed /\ Mishap)
           \/ UNCHANGED config /\ Moved("appNew", run.todo)
           \/ UNCHANGED config /\ SwitchFailed /\ Mishap
    BY <1>1, SwitchAppEffect, CreateAppRouteEffect DEF GhostsKept
  <1>3. Owned' = Owned /\ Trusted' = Trusted /\ App \in Ids /\ Once(App)
    BY <1>2, TrustedKept DEF Ids, Tracked, OnceInv
  <1>4. /\ run.kind \in Rollouts /\ (run.kind \in Undo => run.dial = run.previous)
        /\ RunSound(run, active, up, released)
    BY <1>1, <1>2 DEF Run, RunInv, RunSound
  <1>5. run.dial \in 0..released
    BY <1>1, <1>4, DialDeployed
  <1>6. SwitchFailed /\ Mishap => run.kind = "deploy" /\ Moved("discard", run.todo)
    BY <1>1, <1>2, <1>4 DEF SwitchFailed, Moved, UndoWorks, Mishap
  <1>7. ASSUME NEW pc, Moved(pc, run.todo) PROVE Steady' => Steady
    BY <1>2, <1>7 DEF Moved, Aside, Steady
  <1>8. ASSUME DialsOf(App)' = {run.dial}, OthersKept(App),
               Moved("list", run.todo) \/ (run.kind = "deploy" /\ Moved("discard", run.todo))
        PROVE  DialInv'
    <2>1. \A d \in Trusted : DialsOf(d)' = DialsOf(d)
      BY <1>8, OwnedIds DEF OthersKept, Kept
    <2>2. \A x \in Owned : x = App \/ x \in Trusted
      BY DEF Owned
    <2>3. Steady' => Steady
      BY <1>7, <1>8
    <2>4. CASE Moved("list", run.todo)
      BY <1>2, <1>3, <1>4, <1>5, <1>8, <2>1, <2>2, <2>3, <2>4, OwnedIds
         DEF Moved, DialInv, Settled, PutBack, Aside
    <2>5. CASE run.kind = "deploy" /\ Moved("discard", run.todo)
      BY <1>2, <1>3, <1>5, <1>8, <2>1, <2>2, <2>3, <2>5, OwnedIds
         DEF Moved, DialInv, Settled, PutBack, Aside
    <2> QED BY <1>8, <2>4, <2>5
  <1>9. CASE /\ Patch(AppRoute(run.dial)) \/ (Post(AppRoute(run.dial)) /\ run.pc = "appNew")
             /\ Moved("list", run.todo) \/ (SwitchFailed /\ Mishap)
    <2>1. CASE Patch(AppRoute(run.dial))
      <3>1. SetTo(App, run.dial)
        BY <1>1, <1>3, <2>1, PatchSets DEF AppRoute
      <3> QED BY <1>3, <1>6, <1>8, <1>9, <3>1 DEF SetTo
    <2>2. CASE Post(AppRoute(run.dial)) /\ run.pc = "appNew"
      <3>1. Added(App, run.dial) /\ DialsOf(App) = {}
        BY <1>1, <1>3, <2>2, PostAdds, KnownDials DEF AppRoute, Tracked, NewInv
      <3> QED BY <1>6, <1>8, <1>9, <3>1 DEF Added
    <2> QED BY <1>9, <2>1, <2>2
  <1>10. CASE UNCHANGED config /\ Moved("appNew", run.todo)
    <2>1. \A x \in Owned : DialsOf(x)' = DialsOf(x)
      BY <1>10, SameDials
    <2>2. Steady' => Steady
      BY <1>7, <1>10
    <2> QED BY <1>2, <1>3, <1>4, <1>10, <2>1, <2>2, OwnedIds
            DEF Moved, DialInv, Settled, PutBack, Aside
  <1>11. CASE UNCHANGED config /\ SwitchFailed /\ Mishap
    <2>1. \A x \in Owned : DialsOf(x)' = DialsOf(x)
      BY <1>11, SameDials
    <2>2. run.kind = "deploy" /\ Moved("discard", run.todo)
      BY <1>6, <1>11
    <2>3. Steady' => Steady
      BY <1>7, <2>2
    <2> QED BY <1>2, <1>3, <2>1, <2>2, <2>3, OwnedIds DEF Moved, DialInv, Settled, PutBack, Aside
  <1> QED BY <1>2, <1>9, <1>10, <1>11

LEMMA ListDials ==
  ASSUME Tracked, RunInv, DialInv, UndoWorks, ListDomains
  PROVE  DialInv'
  <1> USE DEF Switching, Syncing, Items, Unrouting, Undo, Rollouts
  <1> DEFINE todo == {d \in Domains : Synced(d)}
  <1>1. /\ Typed /\ run.pc = "list" /\ Overlooked /\ run.kind \in Rollouts
        /\ strayed' = strayed /\ Lost \subseteq Lost'
        /\ run.kind \in Undo => run.dial = run.previous
    BY ListDomainsEffect DEF Tracked, Typed, Run, RunInv, RunSound, Loses
  <1>2. CASE Fails("discard")
    BY <1>1, <1>2, FailsDials
  <1>3. CASE UNCHANGED config /\ Aside /\ Moved(IF todo = {} THEN AfterSync ELSE "item", todo)
    <2>1. (\A x \in Owned : DialsOf(x)' = DialsOf(x)) /\ Trusted' \subseteq Trusted /\ Owned' \subseteq Owned
      BY <1>1, <1>3, SameDials, TrustedShrinks
    <2>2. ASSUME NEW d \in Trusted', d \notin todo PROVE DialsOf(d) = {}
      <3>1. d \in Domains \ Lost' /\ d \in Trusted /\ ~Synced(d)
        BY <1>1, <2>1, <2>2 DEF Trusted, Lost
      <3>2. Known(d) => Exists(d) /\ domains[d].verified
        BY <1>1, <3>1 DEF Overlooked, Tracked, RoutedInv, Lost
      <3>3. domains[d].verified => domains[d].status # "pending"
        BY <3>1 DEF Tracked, RowInv
      <3> QED BY <3>1, <3>2, <3>3, KnownDials DEF Synced
    <2> HIDE DEF todo
    <2>3. /\ run'.pc = (IF todo = {} THEN AfterSync ELSE "item") /\ run'.kind = run.kind
          /\ run'.dial = run.dial /\ run'.candidate = run.candidate /\ run'.previous = run.previous
          /\ run'.todo = todo /\ active' = active /\ up' = up /\ released' = released
      BY <1>3 DEF Moved, Aside
    <2>4. Steady' => Steady
      BY <2>3 DEF Steady
    <2>5. CASE todo = {}
      <3>1. \A x \in Owned' : DialsOf(x) \subseteq {run.dial}
        BY <1>1, <2>1, <2>2, <2>5, OwnedIds DEF DialInv, Owned
      <3>2. ASSUME NEW x \in Owned'
            PROVE  DialsOf(x)' \subseteq {run.dial} /\ DialsOf(x)' \subseteq 0..released
        BY <2>1, <3>1 DEF DialInv
      <3>3. DialsOf(App)' = {run.dial}
        BY <1>1, <2>1, OwnedIds DEF DialInv
      <3>4. Trusted' \subseteq Owned' /\ App \in Owned'
        BY DEF Owned
      <3> QED BY <1>1, <2>3, <2>4, <2>5, <3>2, <3>3, <3>4 DEF AfterSync, DialInv, Settled, PutBack
    <2>6. CASE todo # {}
      BY <1>1, <2>1, <2>2, <2>3, <2>4, <2>6, OwnedIds DEF DialInv, Settled, PutBack
    <2> QED BY <2>5, <2>6
  <1> QED BY <1>1, <1>2, <1>3, ListDomainsEffect

LEMMA ItemDials ==
  ASSUME Tracked, RunInv, DialInv, UndoWorks, SyncDomain \/ CreateSyncedRoute
  PROVE  DialInv'
  <1>0. PICK t \in Domains : t = Todo
    BY SyncDomainEffect, CreateSyncedRouteEffect DEF Tracked
  <1> USE DEF Switching, Syncing, Items, Unrouting, Undo, Rollouts
  <1>1. /\ Typed /\ config \in Seq(Route) /\ run.dial \in Nat /\ run.kind \in Rollouts
        /\ run.pc \in {"item", "itemNew"} /\ Todo \in Domains /\ Lost \subseteq Lost'
        /\ run.kind \in Undo => run.dial = run.previous
    BY SyncDomainEffect, CreateSyncedRouteEffect
       DEF Tracked, Typed, Run, RunInv, RunSound, Loses
  <1>2. \/ Fails("discard")
        \/ UNCHANGED config /\ Moved("itemNew", run.todo) /\ Aside
        \/ Patch(DomainRoute(t, run.dial)) /\ Moved("itemSave", run.todo) /\ Aside
        \/ /\ Post(DomainRoute(t, run.dial)) /\ Moved("itemSave", run.todo) /\ Aside
           /\ Known(t) => t \in Lost'
    <2>1. CASE SyncDomain
      BY <1>0, <1>1, <2>1, SyncDomainEffect
    <2>2. CASE CreateSyncedRoute
      BY <1>0, <1>1, <2>2, CreateSyncedRouteEffect DEF Unseen, Lost
    <2> QED BY <2>1, <2>2
  <1>3. /\ Trusted' \subseteq Trusted /\ Owned' \subseteq Owned /\ t \in Ids
        /\ Owned \subseteq Ids /\ Trusted \subseteq Owned
    BY <1>1, TrustedShrinks, OwnedIds DEF Ids
  <1>4. CASE Fails("discard")
    BY <1>1, <1>4, FailsDials
  <1>5. CASE UNCHANGED config /\ Moved("itemNew", run.todo) /\ Aside
    <2>1. \A x \in Owned : DialsOf(x)' = DialsOf(x)
      BY <1>5, SameDials
    <2>2. Steady' => Steady
      BY <1>5 DEF Moved, Aside, Steady
    <2> QED BY <1>1, <1>3, <1>5, <2>1, <2>2, OwnedIds DEF Moved, DialInv, Settled, PutBack, Aside
  <1>6. ASSUME Moved("itemSave", run.todo), Aside, OthersKept(t),
               t \in Trusted' => DialsOf(t)' = {run.dial}
        PROVE  DialInv'
    <2>1. t # App /\ Todo' = t
      <3>1. run'.todo = run.todo
        BY <1>6 DEF Moved
      <3> QED BY <1>0, <1>1, <3>1, DomainsAssumption DEF App, Todo, First
    <2>2. run.dial \in 0..released
      BY <1>1, DialDeployed
    <2>3. ASSUME NEW x \in Owned' PROVE DialsOf(x)' = DialsOf(x) \/ (x = t /\ DialsOf(x)' = {run.dial})
      BY <1>3, <1>6, <2>1 DEF OthersKept, Kept, Owned
    <2>5. DialsOf(App)' = DialsOf(App)
      BY <2>1, <2>3, OwnedIds DEF Owned
    <2>6. run.kind = "deploy" \/ run.kind \in Undo
      BY <1>1
    <2>7. /\ run'.pc = "itemSave" /\ run'.kind = run.kind /\ run'.dial = run.dial
          /\ run'.candidate = run.candidate /\ run'.todo = run.todo /\ run'.previous = run.previous
          /\ active' = active /\ up' = up /\ released' = released /\ (Steady' => Steady)
      BY <1>6 DEF Moved, Aside, Steady
    <2>8. ASSUME NEW x \in Owned'
          PROVE  /\ DialsOf(x)' \subseteq 0..released
                 /\ Steady /\ run.kind = "deploy" => DialsOf(x)' \cap up \subseteq {active, run.dial}
                 /\ run.kind \in Undo => DialsOf(x)' \cap up \subseteq {run.previous, run.candidate}
                 /\ x \in Trusted \ run.todo => DialsOf(x)' \subseteq {run.dial}
      <3>1. CASE DialsOf(x)' = DialsOf(x)
        BY <1>1, <1>3, <3>1 DEF DialInv
      <3>2. CASE x = t /\ DialsOf(x)' = {run.dial}
        BY <1>1, <2>2, <3>2
      <3> QED BY <2>3, <3>1, <3>2
    <2>9. DialsOf(App)' = {run.dial}
      BY <1>1, <2>5 DEF DialInv
    <2>10. \A d \in Trusted' : d = t => DialsOf(d)' \subseteq {run.dial}
      BY <1>6
    <2>11. Trusted' \subseteq Owned'
      BY DEF Owned
    <2> QED BY <1>3, <2>1, <2>6, <2>7, <2>8, <2>9, <2>10, <2>11 DEF DialInv, Settled, PutBack
  <1>7. t \in Trusted' => Once(t)
    BY <1>3 DEF Tracked, OnceInv
  <1>8. CASE Patch(DomainRoute(t, run.dial)) /\ Moved("itemSave", run.todo) /\ Aside
    <2>1. SetTo(t, run.dial)
      BY <1>1, <1>3, <1>8, PatchSets DEF DomainRoute
    <2> QED BY <1>6, <1>7, <1>8, <2>1 DEF SetTo
  <1>9. CASE /\ Post(DomainRoute(t, run.dial)) /\ Moved("itemSave", run.todo) /\ Aside
             /\ Known(t) => t \in Lost'
    <2>1. Added(t, run.dial)
      BY <1>1, <1>3, <1>9, PostAdds DEF DomainRoute
    <2>2. t \in Trusted' => DialsOf(t) = {}
      BY <1>9, KnownDials DEF Trusted, Lost
    <2> QED BY <1>6, <1>9, <2>1, <2>2 DEF Added
  <1> QED BY <1>2, <1>4, <1>5, <1>8, <1>9

LEMMA SaveSyncedDials ==
  ASSUME Tracked, RunInv, DialInv, UndoWorks, SaveSynced
  PROVE  DialInv'
  <1> USE DEF Switching, Syncing, Items, Unrouting, Undo, Rollouts
  <1>0. PICK t \in Domains : t = Todo
    BY SaveSyncedEffect DEF Tracked
  <1> DEFINE todo == run.todo \ {t}
  <1>1. /\ Typed /\ run.pc = "itemSave" /\ run.kind \in Rollouts /\ Lost \subseteq Lost'
        /\ run.kind \in Undo => run.dial = run.previous
    BY SaveSyncedEffect DEF Tracked, Typed, Run, RunInv, RunSound, Loses
  <1>2. CASE Fails("discard")
    BY <1>1, <1>2, FailsDials
  <1>3. CASE UNCHANGED config /\ Aside /\ Moved(IF todo = {} THEN AfterSync ELSE "item", todo)
    <2>1. /\ \A x \in Owned : DialsOf(x)' = DialsOf(x)
          /\ Trusted' \subseteq Trusted /\ Owned' \subseteq Owned /\ Trusted \subseteq Owned
          /\ App \in Owned
      BY <1>1, <1>3, SameDials, TrustedShrinks, OwnedIds
    <2>2. \A d \in Trusted \ todo : DialsOf(d) \subseteq {run.dial}
      BY <1>0, <1>1 DEF DialInv
    <2>3. DialsOf(App) = {run.dial}
      BY <1>1 DEF DialInv
    <2> HIDE DEF todo
    <2>4. /\ run'.pc = (IF todo = {} THEN AfterSync ELSE "item") /\ run'.kind = run.kind
          /\ run'.dial = run.dial /\ run'.candidate = run.candidate /\ run'.previous = run.previous
          /\ run'.todo = todo /\ active' = active /\ up' = up /\ released' = released
      BY <1>3 DEF Moved, Aside
    <2>5. Steady' => Steady
      BY <2>4 DEF Steady
    <2>6. CASE todo = {}
      <3>1. \A x \in Owned' : DialsOf(x)' \subseteq {run.dial} /\ DialsOf(x)' \subseteq 0..released
        BY <2>1, <2>2, <2>3, <2>6 DEF DialInv, Owned
      <3>2. App \in Owned' /\ Trusted' \subseteq Owned'
        BY DEF Owned
      <3> QED BY <1>1, <2>1, <2>3, <2>4, <2>5, <2>6, <3>1, <3>2 DEF AfterSync, DialInv, Settled, PutBack
    <2>7. CASE todo # {}
      BY <1>1, <2>1, <2>2, <2>4, <2>5, <2>7 DEF DialInv, Settled, PutBack
    <2> QED BY <2>6, <2>7
  <1> QED BY <1>0, <1>1, <1>2, <1>3, SaveSyncedEffect

LEMMA PromoteDials ==
  ASSUME Tracked, RunInv, DialInv, UndoWorks, Promote
  PROVE  DialInv'
  <1> USE DEF Switching, Syncing, Items, Unrouting, Undo, Rollouts
  <1>1. Typed /\ run.pc = "promote"
    BY PromoteEffect DEF Tracked
  <1>2. CASE Fails("discard")
    BY <1>1, <1>2, FailsDials
  <1>3. CASE /\ active' = run.candidate /\ Moved("retire", run.todo) /\ GhostsKept
             /\ UNCHANGED <<config, domains, up, released, request>>
    <2>1. /\ \A x \in Owned : DialsOf(x)' = DialsOf(x)
          /\ Trusted' = Trusted /\ Owned' = Owned
      BY <1>3, SameDials, TrustedKept DEF GhostsKept
    <2>2. \A x \in Owned : DialsOf(x) \subseteq {run.candidate} /\ DialsOf(x) \subseteq 0..released
      BY <1>1 DEF DialInv, Owned, RunInv, RunSound, Typed, Run
    <2>3. run'.kind = "deploy" /\ run'.dial = run.candidate
      BY <1>1, <1>3 DEF Moved, RunInv, RunSound, Typed, Run
    <2> QED BY <1>3, <2>1, <2>2, <2>3 DEF Moved, DialInv, Settled, PutBack
  <1> QED BY <1>1, <1>2, <1>3, PromoteEffect

LEMMA EndDials ==
  ASSUME Tracked, RunInv, DialInv, Retire \/ Discard \/ Halt
  PROVE  DialInv'
  <1> USE DEF Switching, Syncing, Items, Unrouting, Undo, Rollouts
  <1>1. /\ Typed /\ Ended /\ UNCHANGED <<config, released, ghosts>> /\ up' \subseteq up
        /\ RunSound(run, active, up, released)
    BY IdleEffect DEF Tracked, Retire, Discard, Halt, RunInv
  <1>2. /\ \A x \in Owned : DialsOf(x)' = DialsOf(x)
        /\ Trusted' = Trusted /\ Owned' = Owned
    BY <1>1, SameDials DEF Owned, Trusted, ghosts
  <1>3. SUFFICES ASSUME Steady' PROVE \A x \in Owned : DialsOf(x) \cap up' \subseteq {active'}
    BY <1>1, <1>2 DEF Ended, Begun, DialInv, Settled, PutBack
  <1>4. CASE Retire
    <2>1. run.pc = "retire" /\ active' = active
      BY <1>4 DEF Retire
    <2>2. Steady /\ Settled
      BY <1>1, <2>1 DEF Typed, Run, RunSound, Steady, Settled
    <2>3. \A x \in Owned : DialsOf(x) \cap up \subseteq {active}
      BY <2>2 DEF DialInv
    <2> QED BY <1>1, <2>1, <2>3
  <1>5. CASE Discard
    <2>1. /\ run.kind = "deploy" \/ run.kind \in Undo
          /\ run.pc = "discard" /\ up' = up \ {run.candidate} /\ active' = active
          /\ run.candidate \in up /\ up \subseteq 1..released
      BY <1>1, <1>5 DEF Discard, Typed, Run, RunSound
    <2>2. CASE run.kind = "deploy"
      <3>1. run.dial = run.candidate /\ Steady
        BY <1>1, <2>1, <2>2 DEF RunInv, RunSound
      <3> QED BY <2>1, <2>2, <3>1 DEF DialInv, Owned
    <2>3. CASE run.kind \in Undo
      <3>1. run.candidate # NoRelease
        BY <2>1 DEF NoRelease
      <3>2. active = run.previous
        BY <1>1, <1>3, <2>1, <2>3, <3>1 DEF RunSound, Steady
      <3> QED BY <2>1, <2>3, <3>2 DEF DialInv
    <2> QED BY <2>1, <2>2, <2>3
  <1>6. CASE Halt
    <2>1. run.kind = "stop" /\ run.pc = "halt"
      BY <1>1, <1>6 DEF Halt, Typed, Run, RunInv, RunSound
    <2> QED BY <2>1 DEF DialInv, Owned
  <1> QED BY <1>4, <1>5, <1>6

LEMMA StopDials ==
  ASSUME Tracked, RunInv, DialInv, UndoWorks, Stop \/ RemoveAppRoute \/ ListRouted
  PROVE  DialInv'
  <1> USE DEF Switching, Syncing, Items, Unrouting, Undo, Rollouts
  <1>0. /\ Typed /\ config \in Seq(Route) /\ App \in Ids /\ Once(App) /\ run \in Run
        /\ RunSound(run, active, up, released)
    BY DEF Tracked, Typed, Ids, OnceInv, RunInv
  <1>1. CASE Stop
    <2>1. /\ Begun("stop", "remove") /\ run.kind = "none"
          /\ UNCHANGED <<config, active, up, released, ghosts>>
      BY <1>0, <1>1, StopEffect DEF Stop, RunSound, Typed, Run
    <2>2. (\A x \in Owned : DialsOf(x)' = DialsOf(x)) /\ Trusted' = Trusted /\ Owned' = Owned
      BY <2>1, SameDials DEF Owned, Trusted, ghosts
    <2>3. Steady' => Steady
      BY <2>1 DEF Begun, Steady
    <2> QED BY <2>1, <2>2, <2>3 DEF Begun, DialInv, Settled, PutBack
  <1>2. CASE RemoveAppRoute
    <2>1. run.pc = "remove" /\ (run.kind = "stop" \/ run.kind \in Undo)
      BY <1>0, <1>2, RemoveAppRouteEffect DEF RunSound, Run
    <2>2. CASE Fails("discard")
      BY <1>0, <2>1, <2>2, FailsDials
    <2>3. CASE Delete(App) /\ Moved(AfterRemove, run.todo) /\ GhostsKept /\ Aside
      <3>1. DialsOf(App)' = {} /\ OthersKept(App)
        BY <1>0, <2>3, DeleteRemoves DEF Removed
      <3>2. \A d \in Trusted : DialsOf(d)' = DialsOf(d)
        BY <3>1, OwnedIds DEF OthersKept, Kept
      <3>3. Trusted' = Trusted /\ Owned' = Owned /\ (\A x \in Owned : x = App \/ x \in Trusted)
        BY <2>3, TrustedKept DEF GhostsKept, Owned
      <3>4. \A x \in Owned : DialsOf(x)' \subseteq DialsOf(x)
        BY <3>1, <3>2, <3>3
      <3>5. /\ run'.pc = AfterRemove /\ run'.kind = run.kind /\ run'.candidate = run.candidate
            /\ run'.previous = run.previous
            /\ active' = active /\ up' = up /\ released' = released /\ (Steady' => Steady)
        BY <2>3 DEF Moved, Aside, Steady
      <3>6. run.kind \in Undo => run.previous = NoRelease
        BY <1>0, <2>1 DEF RunSound
      <3>7. ASSUME NEW x \in Owned'
            PROVE  /\ DialsOf(x)' \subseteq 0..released
                   /\ Steady /\ run.kind = "stop" => DialsOf(x)' \cap up \subseteq {active}
                   /\ run.kind \in Undo => DialsOf(x)' \cap up \subseteq {run.previous, run.candidate}
        BY <2>1, <3>3, <3>4 DEF DialInv, Settled
      <3> QED BY <2>1, <3>1, <3>5, <3>6, <3>7 DEF AfterRemove, DialInv, Settled, PutBack
    <2> QED BY <1>0, <1>2, <2>2, <2>3, RemoveAppRouteEffect
  <1>3. CASE ListRouted
    <2> DEFINE todo == {d \in Domains : Exists(d) /\ domains[d].verified}
    <2>1. /\ run.pc = "listStop" /\ run.kind = "stop" /\ Overlooked
          /\ strayed' = strayed /\ Lost \subseteq Lost'
      BY <1>0, <1>3, ListRoutedEffect DEF RunSound, Run, Loses
    <2>2. CASE Fails("halt")
      BY <1>0, <2>1, <2>2, FailsDials
    <2>3. CASE UNCHANGED config /\ Aside /\ Moved(IF todo = {} THEN "halt" ELSE "unroute", todo)
      <3>1. (\A x \in Owned : DialsOf(x)' = DialsOf(x)) /\ Trusted' \subseteq Trusted /\ Owned' \subseteq Owned
        BY <2>1, <2>3, SameDials, TrustedShrinks
      <3>2. ASSUME NEW d \in Trusted', d \notin todo PROVE DialsOf(d) = {}
        <4>1. d \in Domains \ Lost' /\ d \in Trusted
          BY <3>1, <3>2 DEF Trusted, Lost
        <4>2. Known(d) => Exists(d) /\ domains[d].verified
          BY <2>1, <4>1 DEF Overlooked, Tracked, RoutedInv, Lost
        <4> QED BY <3>2, <4>1, <4>2, KnownDials
      <3>3. Steady' => Steady
        BY <2>3 DEF Moved, Aside, Steady
      <3> HIDE DEF todo
      <3> QED BY <2>1, <2>3, <3>1, <3>2, <3>3, OwnedIds DEF Moved, DialInv, Settled, PutBack, Aside
    <2> QED BY <1>0, <1>3, <2>2, <2>3, ListRoutedEffect
  <1> QED BY <1>1, <1>2, <1>3

LEMMA UnrouteDials ==
  ASSUME Tracked, RunInv, DialInv, UndoWorks, RemoveDomainRoute \/ SaveRemoved
  PROVE  DialInv'
  <1> USE DEF Switching, Syncing, Items, Unrouting, Undo, Rollouts
  <1>0. PICK t \in Domains : t = Todo
    BY RemoveDomainRouteEffect, SaveRemovedEffect DEF Tracked
  <1>1. /\ Typed /\ config \in Seq(Route) /\ t \in Ids /\ t # App /\ Lost \subseteq Lost'
        /\ run.pc \in Unrouting /\ run.kind = "stop"
    BY RemoveDomainRouteEffect, SaveRemovedEffect, LostSteps, DomainsAssumption
       DEF Tracked, Typed, Run, RunInv, RunSound, Next, RolloutStep, Ids, App
  <1>2. Trusted' \subseteq Trusted /\ Owned' \subseteq Owned /\ Owned = {App} \cup Trusted
    BY <1>1, TrustedShrinks DEF Owned
  <1>3. CASE Fails("halt")
    BY <1>1, <1>3, FailsDials
  <1>s. ASSUME NEW pc, NEW todo, Moved(pc, todo), Aside PROVE Steady' => Steady
    BY <1>s DEF Moved, Aside, Steady
  <1>4. CASE /\ run.pc = "unroute" /\ Delete(t) /\ Moved("unrouteSave", run.todo)
             /\ GhostsKept /\ Aside
    <2>1. Removed(t) /\ Todo' = t
      BY <1>0, <1>1, <1>4, DeleteRemoves DEF Todo, First, Moved
    <2>2. Trusted' = Trusted
      BY <1>4, TrustedKept DEF GhostsKept
    <2>3. \A d \in Trusted : DialsOf(d)' \subseteq DialsOf(d) /\ (d = t => DialsOf(d)' = {})
      BY <2>1, OwnedIds DEF Removed, OthersKept, Kept, Tracked, OnceInv
    <2>4. DialsOf(App)' = DialsOf(App) /\ DialsOf(App) = {}
      BY <1>1, <1>4, <2>1, OwnedIds DEF Removed, OthersKept, Kept, DialInv
    <2>5. \A x \in Owned : DialsOf(x)' \subseteq DialsOf(x)
      BY <1>2, <2>3, <2>4
    <2>6. Steady' => Steady
      BY <1>4, <1>s
    <2> QED BY <1>1, <1>2, <1>4, <2>1, <2>2, <2>3, <2>4, <2>5, <2>6
            DEF Moved, DialInv, Settled, PutBack, Aside
  <1>5. CASE /\ run.pc = "unrouteSave" /\ UNCHANGED config /\ Aside
             /\ Moved(IF run.todo \ {t} = {} THEN "halt" ELSE "unroute", run.todo \ {t})
    <2>1. \A x \in Owned : DialsOf(x)' = DialsOf(x)
      BY <1>5, SameDials
    <2>2. DialsOf(App) = {} /\ \A d \in Trusted \ (run.todo \ {t}) : DialsOf(d) = {}
      BY <1>0, <1>1, <1>5 DEF DialInv
    <2>3. Steady' => Steady
      BY <1>5, <1>s
    <2> QED BY <1>1, <1>2, <1>5, <2>1, <2>2, <2>3 DEF Moved, DialInv, Settled, PutBack, Aside
  <1> QED BY <1>0, <1>1, <1>3, <1>4, <1>5, RemoveDomainRouteEffect, SaveRemovedEffect

LEMMA CrashDials ==
  ASSUME Tracked, RunInv, DialInv, Crash
  PROVE  DialInv'
  <1> USE DEF Switching, Syncing, Items, Unrouting, Undo, Rollouts
  <1>1. /\ Typed /\ UNCHANGED <<config, active, released>> /\ Lost \subseteq Lost' /\ run \in Run
        /\ Steady /\ RunSound(run, active, up, released)
    BY CrashEffect DEF Tracked, Typed, Grows, Loses, Mishap, RunInv, Exhausted
  <1>2. /\ \A x \in Owned : DialsOf(x)' = DialsOf(x)
        /\ Trusted' \subseteq Trusted /\ Owned' \subseteq Owned
    BY <1>1, SameDials, TrustedShrinks
  <1>3. CASE Recovering /\ Restored("recover", active) /\ UNCHANGED up
    <2>1. run.previous = active /\ (run.kind = "deploy" => run.dial = run.candidate)
      BY <1>1, <1>3 DEF Recovering, RunSound, Steady
    <2>2. \A x \in Owned : DialsOf(x) \cap up \subseteq {run.previous, run.candidate}
      BY <1>1, <1>3, <2>1 DEF Recovering, DialInv
    <2> QED BY <1>1, <1>2, <1>3, <2>2 DEF Restored, DialInv, Settled, PutBack
  <1>4. CASE ~Recovering /\ Ended /\ up' = up \cap {active, run.previous}
    <2>1. Settled
      BY <1>1, <1>4, Uncommitted DEF Settled, Run
    <2>2. \A x \in Owned : DialsOf(x) \cap up' \subseteq {active}
      BY <1>1, <1>4, <2>1 DEF DialInv
    <2> QED BY <1>1, <1>2, <1>4, <2>2 DEF Ended, Begun, DialInv, Settled, PutBack
  <1> QED BY <1>1, <1>3, <1>4, CrashEffect

\* What a request writes: the route of its record, to the active release while
\* nothing else goes on, and its removal before the record is dropped.
Quiet(q, d) ==
  /\ AllKept /\ Others(q)
  /\ request'[q].pc = "persist" => request'[q].dial = NoRelease
  /\ \A e \in Domains : domains'[e].status = "active" =>
       \/ domains[e].status = "active"
       \/ e = d /\ (d \in Lost' \/ (Saving(d, q) /\ request[q].dial # NoRelease /\ DialsOf(d) # {}))
Unroute(q, d) ==
  /\ Others(q) /\ request'[q].pc # "persist" /\ UNCHANGED domains
  /\ OthersKept(d) /\ DialsOf(d)' \subseteq DialsOf(d) /\ (Once(d) => DialsOf(d)' = {})
  /\ \/ request'[q].domain = d /\ request'[q].pc = "drop"
     \/ DialsOf(d)' = {} => d \in undeleted'
Routes(q, d) ==
  /\ Others(q) /\ (request'[q].pc = "persist" => request'[q].domain = d)
  /\ \A e \in Domains : domains'[e].status = "active" => domains[e].status = "active"
  /\ OthersKept(d)
  /\ d \notin Lost' => DialsOf(d)' = {active} /\ run.pc = "idle"
Writes(q, d) == Quiet(q, d) \/ Unroute(q, d) \/ Routes(q, d)

LEMMA RequestWrites ==
  ASSUME Tracked, NEW q \in Requests, NEW d, d = request[q].domain, Handler(q)
  PROVE  d \in Domains /\ Writes(q, d) /\ Lost \subseteq Lost'
  <1>1. Typed /\ config \in Seq(Route) /\ Domains \subseteq Ids
    BY DEF Tracked, Typed, Ids
  <1>2. Lost \subseteq Lost'
    BY <1>1, LostSteps DEF Next
  <1>3. d \in Domains /\ d \in Ids
    BY <1>1 DEF Handler, LookupFails, LookupMatches, RouteDomain, AddDomainRoute, Persist,
         RemoveRouteFirst, Drop, Typed
  <1>4. ASSUME UNCHANGED config, Others(q), request'[q].pc = "persist" => request'[q].dial = NoRelease,
               \A e \in Domains : domains'[e].status = "active" =>
                 \/ domains[e].status = "active"
                 \/ e = d /\ (d \in Lost' \/ (Saving(d, q) /\ request[q].dial # NoRelease /\ DialsOf(d) # {}))
        PROVE  Writes(q, d)
    BY <1>4, UntouchedKept DEF Writes, Quiet
  <1>5. d \notin Lost' => Once(d)
    BY <1>2, <1>3 DEF Tracked, OnceInv, Trusted, Lost
  <1>a. Answered(q) => Others(q) /\ request'[q].pc # "persist"
    BY DEF Answered, NoRequest
  <1>b. Saved(d, "error", TRUE) \/ Saved(d, "error", FALSE) \/ UNCHANGED domains =>
          \A e \in Domains : domains'[e].status = "active" => domains[e].status = "active"
    BY DEF Saved
  <1>c. Asked(q, "persist") \/ Unrouted(q, d) => Others(q) /\ (request'[q].pc = "persist" => request'[q].domain = d)
    BY <1>a DEF Asked, Unrouted
  <1>d. Unrouted(q, d) \/ UNCHANGED domains =>
          \A e \in Domains : domains'[e].status = "active" => domains[e].status = "active"
    BY <1>b DEF Unrouted
  <1>6. CASE LookupFails(q)
    <2>1. UNCHANGED config /\ Answered(q) /\ (Saved(d, "error", FALSE) \/ UNCHANGED domains)
      BY <1>1, <1>6, LookupFailsEffect
    <2> QED BY <1>2, <1>3, <1>4, <1>a, <1>b, <2>1
  <1>7. CASE LookupMatches(q)
    <2>1. UNCHANGED config /\ UNCHANGED domains
      BY <1>7 DEF LookupMatches
    <2>2. Others(q) /\ (request'[q].pc = "persist" => request'[q].dial = NoRelease)
      BY <1>1, <1>7, MatchEffect
    <2> QED BY <1>2, <1>3, <1>4, <1>b, <2>1, <2>2
  <1>8. CASE Persist(q)
    <2>1. /\ request[q].pc = "persist" /\ UNCHANGED config /\ Answered(q)
          /\ \/ Saved(d, Outcome(q), TRUE) /\ (Misled(q) => d \in Lost')
             \/ UNCHANGED domains
      BY <1>1, <1>8, PersistEffect
    <2>2. Saving(d, q)
      BY <2>1 DEF Saving
    <2>3. d \in Lost' \/ Known(d) \/ request[q].dial = NoRelease \/ UNCHANGED domains
      BY <2>1 DEF Misled
    <2>4. \A e \in Domains : domains'[e].status = "active" =>
            \/ domains[e].status = "active"
            \/ e = d /\ request[q].dial # NoRelease /\ (d \in Lost' \/ Known(d))
      BY <2>1, <2>3 DEF Saved, Outcome
    <2>5. Known(d) => DialsOf(d) # {}
      BY KnownDials
    <2> QED BY <1>2, <1>3, <1>4, <1>a, <2>1, <2>2, <2>4, <2>5
  <1>9. CASE Drop(q)
    <2>1. UNCHANGED config /\ Answered(q) /\ (Withdrawn(d) \/ UNCHANGED domains)
      BY <1>1, <1>9, DropEffect
    <2>2. \A e \in Domains : domains'[e].status = "active" => domains[e].status = "active"
      BY <2>1 DEF Withdrawn
    <2> QED BY <1>2, <1>3, <1>4, <1>a, <2>1, <2>2
  <1>10. CASE RouteDomain(q)
    <2>1. /\ Unseen(d, Outdated(q) \/ ~Exists(d))
          /\ \/ UNCHANGED config /\ Asked(q, "add") /\ UNCHANGED domains
             \/ UNCHANGED config /\ Unrouted(q, d)
             \/ /\ Patch(DomainRoute(d, request[q].dial))
                /\ (Asked(q, "persist") /\ UNCHANGED domains) \/ Unrouted(q, d)
      BY <1>1, <1>10, RouteDomainEffect
    <2>2. CASE /\ Patch(DomainRoute(d, request[q].dial))
               /\ (Asked(q, "persist") /\ UNCHANGED domains) \/ Unrouted(q, d)
      <3>1. SetTo(d, request[q].dial)
        BY <1>1, <1>3, <2>2, PatchSets DEF DomainRoute
      <3>2. d \notin Lost' => request[q].dial = active /\ run.pc = "idle"
        BY <2>1 DEF Unseen, Outdated, Lost
      <3>3. Routes(q, d)
        BY <1>5, <1>c, <1>d, <2>2, <3>1, <3>2 DEF SetTo, Routes
      <3> QED BY <1>2, <1>3, <3>3 DEF Writes
    <2>3. CASE UNCHANGED config /\ Asked(q, "add") /\ UNCHANGED domains
      BY <1>2, <1>3, <1>4, <1>b, <2>3 DEF Asked
    <2>4. CASE UNCHANGED config /\ Unrouted(q, d)
      BY <1>2, <1>3, <1>4, <1>a, <1>d, <2>4 DEF Unrouted
    <2> QED BY <2>1, <2>2, <2>3, <2>4
  <1>11. CASE AddDomainRoute(q)
    <2>1. /\ Unseen(d, Outdated(q) \/ ~Exists(d) \/ Known(d))
          /\ \/ UNCHANGED config /\ Unrouted(q, d)
             \/ /\ Post(DomainRoute(d, request[q].dial))
                /\ (Asked(q, "persist") /\ UNCHANGED domains) \/ Unrouted(q, d)
      BY <1>1, <1>11, AddDomainRouteEffect
    <2>2. CASE /\ Post(DomainRoute(d, request[q].dial))
               /\ (Asked(q, "persist") /\ UNCHANGED domains) \/ Unrouted(q, d)
      <3>1. Added(d, request[q].dial)
        BY <1>1, <1>3, <2>2, PostAdds DEF DomainRoute
      <3>2. d \notin Lost' => request[q].dial = active /\ run.pc = "idle" /\ DialsOf(d) = {}
        BY <2>1, KnownDials DEF Unseen, Outdated, Lost
      <3>3. Routes(q, d)
        BY <1>c, <1>d, <2>2, <3>1, <3>2 DEF Added, Routes
      <3> QED BY <1>2, <1>3, <3>3 DEF Writes
    <2>3. CASE UNCHANGED config /\ Unrouted(q, d)
      BY <1>2, <1>3, <1>4, <1>a, <1>d, <2>3 DEF Unrouted
    <2> QED BY <2>1, <2>2, <2>3
  <1>12. CASE RemoveRouteFirst(q)
    <2>1. /\ UNCHANGED domains
          /\ \/ UNCHANGED config /\ Answered(q)
             \/ Delete(d) /\ Asked(q, "drop")
             \/ Delete(d) /\ Answered(q) /\ (~Known(d)' => d \in undeleted')
      BY <1>1, <1>12, RemoveRouteFirstEffect
    <2>2. CASE Delete(d) /\ (Asked(q, "drop") \/ (Answered(q) /\ (~Known(d)' => d \in undeleted')))
      <3>1. Removed(d)
        BY <1>1, <1>3, <2>2, DeleteRemoves
      <3>2. Known(d)' => DialsOf(d)' # {}
        BY DEF Known, DialsOf, At
      <3>3. Unroute(q, d)
        BY <1>a, <2>1, <2>2, <3>1, <3>2 DEF Removed, Unroute, Asked
      <3> QED BY <1>2, <1>3, <3>3 DEF Writes
    <2>3. CASE UNCHANGED config /\ Answered(q)
      BY <1>2, <1>3, <1>4, <1>a, <1>b, <2>1, <2>3
    <2> QED BY <2>1, <2>2, <2>3
  <1> QED BY <1>6, <1>7, <1>8, <1>9, <1>10, <1>11, <1>12 DEF Handler

LEMMA ApartDials ==
  ASSUME Typed, RunInv, DialInv, Apart, Lost \subseteq Lost',
         \A d \in Trusted' : \/ DialsOf(d)' \subseteq DialsOf(d)
                             \/ DialsOf(d)' = {active} /\ run.pc = "idle"
  PROVE  DialInv'
  <1>1. /\ run' = run /\ active' = active /\ up' = up /\ released' = released
        /\ Trusted' \subseteq Trusted /\ Owned' \subseteq Owned /\ Owned' = {App} \cup Trusted'
        /\ DialsOf(App)' = DialsOf(App)
    BY TrustedShrinks DEF Apart, Kept, Owned
  <1>2. active \in 0..released
    BY DEF RunInv, RunSound
  <1>3. Todo' = Todo /\ (Steady' <=> Steady) /\ (Settled' <=> Settled) /\ (PutBack' <=> PutBack)
    BY <1>1 DEF Todo, First, Steady, Settled, PutBack
  <1>4. CASE run.pc = "idle"
    <2>1. run.kind = "none"
      BY <1>4 DEF RunInv, RunSound, Typed, Run, Rollouts, Undo, Switching, Syncing, Items, Unrouting
    <2>2. ASSUME NEW x \in Owned'
          PROVE  DialsOf(x)' \subseteq 0..released /\ (Steady => DialsOf(x)' \cap up \subseteq {active})
      <3>1. \/ DialsOf(x)' \subseteq DialsOf(x)
            \/ DialsOf(x)' = {active}
        BY <1>1
      <3>2. DialsOf(x) \subseteq 0..released /\ (Steady => DialsOf(x) \cap up \subseteq {active})
        BY <1>1, <2>1 DEF DialInv, Settled
      <3> QED BY <1>2, <3>1, <3>2
    <2> QED BY <1>1, <1>3, <1>4, <2>1, <2>2 DEF DialInv, PutBack, Undo, Syncing, Items
  <1>5. CASE run.pc # "idle"
    <2>1. \A x \in Owned' : DialsOf(x)' \subseteq DialsOf(x)
      BY <1>1, <1>5
    <2>2. \A d \in Trusted' : d \in Owned'
      BY <1>1
    <2> QED BY <1>1, <1>3, <1>5, <2>1, <2>2 DEF DialInv
  <1> QED BY <1>4, <1>5

LEMMA RequestDials ==
  ASSUME Tracked, RunInv, DialInv, (\E q \in Requests : Handler(q)) \/ User \/ UNCHANGED vars
  PROVE  DialInv'
  <1>1. Typed
    BY DEF Tracked
  <1>2. CASE User \/ UNCHANGED vars
    <2>1. Apart /\ UNCHANGED config /\ Lost \subseteq Lost'
      BY <1>1, <1>2, RequestsApart, LostSteps DEF Next
    <2>2. \A d \in Trusted' : DialsOf(d)' \subseteq DialsOf(d)
      BY <2>1, SameDials, TrustedShrinks, OwnedIds
    <2> QED BY <1>1, <2>1, <2>2, ApartDials
  <1>3. ASSUME NEW q \in Requests, Handler(q) PROVE DialInv'
    <2>1. PICK d : d = request[q].domain
      OBVIOUS
    <2>2. d \in Domains /\ Writes(q, d) /\ Lost \subseteq Lost' /\ Apart
      BY <1>1, <1>3, <2>1, RequestWrites, RequestsApart
    <2>3. ASSUME NEW e \in Trusted'
          PROVE  \/ DialsOf(e)' \subseteq DialsOf(e)
                 \/ DialsOf(e)' = {active} /\ run.pc = "idle"
      <3>1. e \in Ids /\ e \notin Lost'
        BY DEF Trusted, Ids, Lost
      <3>2. \/ AllKept
            \/ /\ OthersKept(d)
               /\ \/ DialsOf(d)' \subseteq DialsOf(d)
                  \/ d \notin Lost' => DialsOf(d)' = {active} /\ run.pc = "idle"
        BY <2>2 DEF Writes, Quiet, Unroute, Routes
      <3>3. CASE e # d
        BY <3>1, <3>2, <3>3 DEF AllKept, OthersKept, Kept
      <3>4. CASE e = d
        BY <3>1, <3>2, <3>4 DEF AllKept, Kept
      <3> QED BY <3>3, <3>4
    <2> QED BY <1>1, <2>2, <2>3, ApartDials
  <1> QED BY <1>2, <1>3

-----------------------------------------------------------------------------
Followed == Tracked /\ RunInv /\ DialInv

LEMMA FollowedInit == Init => Followed
  <1> SUFFICES ASSUME Init PROVE Followed
    OBVIOUS
  <1>1. /\ config = << >> /\ \A x : At(x) = {}
        /\ run = Idle /\ active = NoRelease /\ up = {} /\ released = 0
    BY DEF Init, EnsureBase, At
  <1>2. \A x : DialsOf(x) = {}
    BY <1>1 DEF DialsOf
  <1>3. RunInv
    BY <1>1 DEF RunInv, RunSound, Steady, Idle, NoRelease, Rollouts, Undo
  <1>4. DialInv
    BY <1>1, <1>2 DEF DialInv, PutBack, Idle, Undo, Syncing, Items
  <1> QED BY <1>3, <1>4, TrackedInit DEF Followed

\* What the requests do leaves the rollout where it is.
LEMMA ApartRun ==
  ASSUME Typed, RunInv, (\E q \in Requests : Handler(q)) \/ User \/ UNCHANGED vars
  PROVE  RunInv'
  <1>1. UNCHANGED <<run, active, up, released>>
    BY RequestsApart DEF Apart
  <1>2. Exhausted => Exhausted'
    BY StaysExhausted DEF Next
  <1> QED BY <1>1, <1>2 DEF RunInv, Steady

LEMMA FollowedStep == Followed /\ UndoWorks /\ LostLast /\ [Next]_vars => Followed'
  <1> SUFFICES ASSUME Followed, UndoWorks, LostLast, [Next]_vars PROVE Followed'
    OBVIOUS
  <1>1. Tracked /\ RunInv /\ DialInv /\ Typed
    BY DEF Followed, Tracked
  <1>2. Tracked'
    BY <1>1, TrackedStep
  <1>3. CASE RolloutStep \/ Crash
    <2>1. RunInv'
      BY <1>1, <1>3, RunStep
    <2>2. DialInv'
      BY <1>1, <1>3, DeployDials, SwitchDials, ListDials, ItemDials, SaveSyncedDials, PromoteDials, EndDials,
         StopDials, UnrouteDials, CrashDials DEF RolloutStep
    <2> QED BY <1>2, <2>1, <2>2 DEF Followed
  <1>4. CASE (\E q \in Requests : Handler(q)) \/ User \/ UNCHANGED vars
    BY <1>1, <1>2, <1>4, ApartRun, RequestDials DEF Followed
  <1> QED BY <1>3, <1>4 DEF Next

LEMMA RemovedStep ==
  ASSUME Followed, [Next]_vars, NEW r \in up \ up', NEW i \in DOMAIN config, config[i].dial = r
  PROVE  config[i].id \in stale \cup strayed \/ FirstUndone \/ Unswitched(config[i].id)
  <1> USE DEF Switching, Syncing, Items, Unrouting, Undo, Rollouts
  <1>1. Tracked /\ RunInv /\ DialInv /\ Typed /\ run \in Run /\ RunSound(run, active, up, released)
    BY DEF Followed, Tracked, Typed, RunInv
  <1>2. SUFFICES ASSUME config[i].id \notin Lost PROVE FirstUndone \/ Unswitched(config[i].id)
    BY DEF Lost
  <1>3. PICK x : x = config[i].id
    OBVIOUS
  <1>4. x \in Owned /\ r \in DialsOf(x) \cap up
    <2>1. x \in Ids
      <3>1. config \in Seq(Route)
        BY <1>1 DEF Typed
      <3>2. config[i] \in Route
        BY <3>1
      <3> QED BY <1>3, <3>2 DEF Route
    <2>2. i \in At(x)
      BY <1>3 DEF At
    <2> QED BY <1>2, <1>3, <2>1, <2>2 DEF Ids, Owned, Trusted, DialsOf, Lost
  <1>5. ASSUME Steady, Settled PROVE r = active
    BY <1>1, <1>4, <1>5 DEF DialInv
  <1>6. CASE Retire
    <2>1. /\ run.pc = "retire" /\ r = run.previous /\ run.kind = "deploy"
          /\ r # active /\ active \in up
      BY <1>1, <1>6 DEF Retire, RunSound, Run
    <2> QED BY <1>5, <2>1 DEF Steady, Settled
  <1>7. CASE Discard
    <2>1. r = run.candidate /\ run.pc = "discard" /\ (run.kind = "deploy" \/ run.kind \in Undo)
      BY <1>1, <1>7 DEF Discard, Run, RunSound
    <2>2. CASE run.kind = "deploy"
      <3>1. Steady /\ r # active
        BY <1>1, <2>1, <2>2 DEF RunInv, RunSound
      <3>2. x \notin Trusted
        BY <1>1, <1>4, <2>1, <2>2, <3>1 DEF DialInv
      <3> QED BY <1>3, <1>4, <2>1, <2>2, <3>2 DEF Owned, Unswitched
    <2>3. CASE run.kind \in Undo
      <3>1. r # run.previous
        BY <1>1, <2>1, <2>3 DEF RunSound
      <3>2. ~PutBack
        BY <1>1, <1>4, <3>1 DEF DialInv
      <3> QED BY <2>1, <2>3, <3>2 DEF PutBack, FirstUndone
    <2> QED BY <2>1, <2>2, <2>3
  <1>8. CASE Halt
    <2>1. run.kind = "stop" /\ run.pc = "halt"
      BY <1>1, <1>8 DEF Halt, Run, RunSound
    <2> QED BY <1>1, <1>4, <2>1 DEF DialInv, Owned
  <1>9. CASE Crash
    <2>1. ~Recovering /\ r # active /\ Mishap
      BY <1>1, <1>9, CrashEffect
    <2>2. Steady
      BY <1>1, <2>1 DEF RunInv, Mishap, Exhausted
    <2>3. Settled
      BY <1>1, <2>1, <2>2, Uncommitted DEF RunInv, Settled, Run, Rollouts, Undo
    <2> QED BY <1>5, <2>1, <2>2, <2>3
  <1>10. up' = up \/ up \subseteq up' \/ Retire \/ Discard \/ Halt \/ Crash
    <2>1. CASE RolloutStep
      BY <2>1 DEF RolloutStep, Deploy, SwitchApp, CreateAppRoute, ListDomains, SyncDomain,
         CreateSyncedRoute, SaveSynced, Promote, Stop, RemoveAppRoute, ListRouted, RemoveDomainRoute, SaveRemoved
    <2> QED BY <1>1, <2>1, RequestsApart DEF Next, Apart
  <1> QED BY <1>6, <1>7, <1>8, <1>9, <1>10

\* A container is removed only once nothing dials it (deployment.go:498-523,
\* 607-643), provided the calls that put the previous release back succeed (an
\* undo logs a call that fails and removes the candidate all the same), and
\* that after a promotion whose reply is lost nothing else fails: the undo of
\* such a deployment removes the container of the release that is now active.
THEOREM RoutedStaysUp == Spec /\ [][UndoWorks /\ LostLast]_vars => RemovedUnrouted
  <1>1. UNCHANGED vars => UndoWorks /\ LostLast
    BY DEF vars, UndoWorks, LostLast
  <1>2. Followed /\ [Next]_vars /\ [UndoWorks /\ LostLast]_vars => Followed'
    BY <1>1, FollowedStep
  <1>3. Followed /\ [Next]_vars =>
          [\A r \in up \ up' : \A i \in DOMAIN config : config[i].dial = r =>
             config[i].id \in stale \cup strayed \/ FirstUndone \/ Unswitched(config[i].id)]_vars
    BY RemovedStep
  <1> QED BY <1>2, <1>3, FollowedInit, PTL DEF Spec, RemovedUnrouted

-----------------------------------------------------------------------------
(* Which records claim that their route follows the release: those that say *)
(* active, and those Verify has routed and is about to save.  Follows says  *)
(* what they claim, which a deletion under way, or one that broke off, may  *)
(* have undone by removing the route.                                       *)
Dropped(d) == \E q \in Requests : request[q].domain = d /\ request[q].pc = "drop"
Routing(d) == \E q \in Requests : Saving(d, q) /\ request[q].dial # NoRelease
Present(d) == d \in Trusted /\ Exists(d)
Claims(d) == Present(d) /\ (domains[d].status = "active" \/ (Routing(d) /\ DialsOf(d) # {}))
Gone(d) == DialsOf(d) = {} /\ (Dropped(d) \/ d \in undeleted)
Follows(d, r) == DialsOf(d) = {r} \/ Gone(d)

Calm ==
  \/ run.pc \in {"idle", "retire", "discard"} \/ run.kind = "stop"
  \/ run.kind = "deploy" /\ run.pc \in Switching

ClaimInv ==
  /\ Calm /\ active # NoRelease /\ DialsOf(App) = {active} =>
       \A d \in Domains : Claims(d) => Follows(d, active)
  /\ run.pc \in Items => \A d \in Domains : Claims(d) /\ d \notin run.todo => Follows(d, run.dial)
  /\ run.pc = "itemSave" => \A d \in Domains : d = Todo /\ Present(d) => Follows(d, run.dial)
  /\ run.pc = "promote" => \A d \in Domains : Claims(d) => Follows(d, run.dial)

LEMMA PresentStep ==
  ASSUME Tracked, [Next]_vars, NEW d \in Domains, Present(d)'
  PROVE  /\ d \in Trusted /\ d \notin Lost' /\ (Created(d) \/ Exists(d))
         /\ Gone(d) /\ DialsOf(d)' = {} => Gone(d)'
  <1>1. d \in Domains \ Lost' /\ domains'[d].status \notin {"absent", "deleted"}
    BY DEF Present, Trusted, Exists, Lost
  <1>2. /\ RowStep(d) /\ Lost \subseteq Lost' /\ undeleted \subseteq undeleted'
        /\ \A q \in Requests : RequestStep(q)
    BY RowSteps, LostSteps, RequestSteps DEF Tracked
  <1>3. ASSUME Dropped(d), DialsOf(d)' = {} PROVE Dropped(d)' \/ d \in undeleted'
    <2>1. PICK q \in Requests : request[q].domain = d /\ request[q].pc = "drop"
      BY <1>3 DEF Dropped
    <2>2. RequestStep(q) /\ ~Known(d)'
      BY <1>2, <1>3 DEF Known, DialsOf, At
    <2>3. CASE request'[q] = request[q]
      BY <2>1, <2>3 DEF Dropped
    <2>4. CASE Ends(q)
      BY <1>1, <2>1, <2>2, <2>4 DEF Ends
    <2> QED BY <2>1, <2>2, <2>3, <2>4 DEF RequestStep, Proceeds, Begins
  <1>4. Gone(d) /\ DialsOf(d)' = {} => Gone(d)'
    BY <1>2, <1>3 DEF Gone
  <1>5. Created(d) \/ Exists(d)
    BY <1>1, <1>2 DEF RowStep, Passed, Refused, Deleted, MarkedAs, Exists
  <1> QED BY <1>1, <1>2, <1>4, <1>5 DEF Trusted, Lost

LEMMA ClaimStep ==
  ASSUME Tracked, [Next]_vars, NEW d \in Domains, Present(d)',
         domains'[d].status = "active" \/ Routing(d)'
  PROVE  Present(d)
  <1>1. d \in Trusted /\ (Created(d) \/ Exists(d))
    BY PresentStep
  <1>2. ASSUME Created(d) PROVE FALSE
    <2>1. domains'[d].status = "pending" /\ domains[d].status = "absent"
      BY <1>2 DEF Created
    <2>2. PICK q \in Requests : request'[q].domain = d /\ request'[q].pc = "persist"
      BY <2>1 DEF Routing, Saving
    <2>3. RequestStep(q) /\ AskInv
      BY RequestSteps DEF Tracked
    <2> QED BY <2>1, <2>2, <2>3 DEF RequestStep, Ends, Proceeds, Begins, AskInv, NoRequest
  <1> QED BY <1>1, <1>2 DEF Present

\* What the requests do to the claims while the rollout does nothing.
LEMMA BesideClaims ==
  ASSUME Tracked, (\E q \in Requests : Handler(q)) \/ User \/ UNCHANGED vars,
         NEW d \in Domains, Present(d)'
  PROVE  /\ \/ DialsOf(d)' = DialsOf(d) \/ Gone(d)'
            \/ run.pc = "idle" /\ DialsOf(d)' = {active}
         /\ Routing(d)' => Routing(d) \/ (run.pc = "idle" /\ DialsOf(d)' = {active})
         /\ domains'[d].status = "active" =>
              domains[d].status = "active" \/ (Routing(d) /\ DialsOf(d) # {})
  <1>1. d \in Ids /\ [Next]_vars
    BY DEF Ids, Next
  <1>2. d \notin Lost' /\ d \in Trusted
    BY <1>1, PresentStep
  <1>3. CASE UNCHANGED vars
    BY <1>1, <1>3, UntouchedKept DEF vars, AllKept, Kept, Routing, Saving
  <1>4. CASE User
    <2>1. UNCHANGED config
      BY <1>4, RequestsApart DEF Tracked
    <2>2. DialsOf(d)' = DialsOf(d)
      BY <1>1, <2>1, UntouchedKept DEF AllKept, Kept
    <2>3. ASSUME NEW e \in Domains, NEW host \in Hostnames, Create(e, host)
          PROVE  UNCHANGED request /\ (domains'[d].status = "active" => domains[d].status = "active")
      BY <2>3, CreateEffect DEF Tracked
    <2>4. ASSUME NEW q \in Requests, NEW e \in Domains, BeginVerify(q, e) \/ BeginDelete(q, e)
          PROVE  UNCHANGED domains /\ Others(q) /\ request'[q].pc # "persist"
      <3>1. PICK pc \in {"lookup", "unroute", "drop"} : Begin(q, e, pc)
        BY <2>4 DEF BeginVerify, BeginDelete
      <3>2. pc \in RequestPcs /\ request \in [Requests -> Request]
        BY DEF RequestPcs, Asking, Tracked, Typed
      <3> QED BY <3>1, <3>2, BeginEffect DEF Begin
    <2>5. Routing(d)' => Routing(d)
      BY <1>4, <2>3, <2>4 DEF User, Routing, Saving, Others
    <2>6. domains'[d].status = "active" => domains[d].status = "active"
      BY <1>4, <2>3, <2>4 DEF User
    <2> QED BY <2>2, <2>5, <2>6
  <1>5. ASSUME NEW q \in Requests, Handler(q)
        PROVE  /\ \/ DialsOf(d)' = DialsOf(d) \/ Gone(d)'
                  \/ run.pc = "idle" /\ DialsOf(d)' = {active}
               /\ Routing(d)' => Routing(d) \/ (run.pc = "idle" /\ DialsOf(d)' = {active})
               /\ domains'[d].status = "active" =>
                    domains[d].status = "active" \/ (Routing(d) /\ DialsOf(d) # {})
    <2>1. PICK e : e = request[q].domain
      OBVIOUS
    <2>2. e \in Domains /\ Writes(q, e)
      BY <1>5, <2>1, RequestWrites
    <2>3. CASE Quiet(q, e)
      <3>1. DialsOf(d)' = DialsOf(d)
        BY <1>1, <2>3 DEF Quiet, AllKept, Kept
      <3>2. Routing(d)' => Routing(d)
        BY <2>3 DEF Quiet, Routing, Saving, Others
      <3>3. domains'[d].status = "active" =>
              domains[d].status = "active" \/ (Routing(d) /\ DialsOf(d) # {})
        BY <1>2, <2>3 DEF Quiet, Routing
      <3> QED BY <3>1, <3>2, <3>3
    <2>4. CASE Unroute(q, e)
      <3>1. Routing(d)' => Routing(d)
        BY <2>4 DEF Unroute, Routing, Saving, Others
      <3>2. CASE d # e
        <4>1. DialsOf(d)' = DialsOf(d)
          BY <1>1, <2>4, <3>2 DEF Unroute, OthersKept, Kept
        <4> QED BY <2>4, <3>1, <4>1 DEF Unroute
      <3>3. CASE d = e
        <4>1. Once(d)
          BY <1>2 DEF Tracked, OnceInv
        <4>2. Gone(d)'
          BY <2>4, <3>3, <4>1 DEF Unroute, Gone, Dropped
        <4> QED BY <2>4, <3>1, <4>2 DEF Unroute
      <3> QED BY <3>2, <3>3
    <2>5. CASE Routes(q, e)
      <3>1. CASE d = e
        BY <1>2, <2>5, <3>1 DEF Routes
      <3>2. CASE d # e
        <4>1. DialsOf(d)' = DialsOf(d)
          BY <1>1, <2>5, <3>2 DEF Routes, OthersKept, Kept
        <4>2. Routing(d)' => Routing(d)
          BY <2>5, <3>2 DEF Routes, Routing, Saving, Others
        <4> QED BY <2>5, <4>1, <4>2 DEF Routes
      <3> QED BY <3>1, <3>2
    <2> QED BY <2>2, <2>3, <2>4, <2>5 DEF Writes
  <1> QED BY <1>3, <1>4, <1>5

\* What a rollout or a stop does to the claims.
LEMMA RolloutClaims ==
  ASSUME Tracked, RolloutStep, NEW d \in Domains, Present(d)'
  PROVE  /\ Present(d)
         /\ Routing(d)' <=> Routing(d)
         /\ domains'[d].status = "active" =>
              domains[d].status = "active" \/ (run.pc = "itemSave" /\ d = Todo)
  <1>1. UNCHANGED request /\ [Next]_vars
    BY DEF Next, RolloutStep, Deploy, SwitchApp, CreateAppRoute, ListDomains, SyncDomain,
         CreateSyncedRoute, SaveSynced, Promote, Retire, Discard, Stop, RemoveAppRoute, ListRouted,
         RemoveDomainRoute, SaveRemoved, Halt
  <1>2. Routing(d)' <=> Routing(d)
    BY <1>1 DEF Routing, Saving
  <1>3. d \in Trusted /\ (Created(d) \/ Exists(d))
    BY <1>1, PresentStep
  <1>4. \/ UNCHANGED domains \/ Saved(Todo, "error", TRUE) \/ Saved(Todo, "verified", TRUE)
        \/ Saved(Todo, "active", TRUE) /\ run.pc = "itemSave"
    <2>1. CASE ListDomains \/ SyncDomain \/ CreateSyncedRoute \/ Promote \/ SaveSynced
      BY <2>1, ListDomainsEffect, SyncDomainEffect, CreateSyncedRouteEffect, PromoteEffect,
         SaveSyncedEffect DEF Fails, MaybeSaved, Tracked
    <2>2. CASE RemoveAppRoute \/ ListRouted \/ RemoveDomainRoute \/ SaveRemoved
      BY <2>2, RemoveAppRouteEffect, ListRoutedEffect, RemoveDomainRouteEffect, SaveRemovedEffect
         DEF Fails, MaybeSaved, Tracked
    <2>3. CASE Deploy \/ SwitchApp \/ CreateAppRoute \/ Retire \/ Discard \/ Stop \/ Halt
      BY <2>3 DEF Deploy, SwitchApp, CreateAppRoute, Retire, Discard, Stop, Halt
    <2> QED BY <2>1, <2>2, <2>3 DEF RolloutStep
  <1>5. ~Created(d)
    BY <1>4 DEF Created, Saved, Exists
  <1>6. domains'[d].status = "active" =>
          domains[d].status = "active" \/ (run.pc = "itemSave" /\ d = Todo)
    BY <1>4 DEF Saved
  <1> QED BY <1>2, <1>3, <1>5, <1>6 DEF Present

Claiming == Followed /\ ClaimInv

\* Most steps leave nothing to show but the first clause.
LEMMA ClaimRest ==
  ASSUME run'.pc \notin Items \cup {"promote"},
         Calm' /\ active' # NoRelease /\ DialsOf(App)' = {active'} =>
           \A d \in Domains : Claims(d)' => Follows(d, active)'
  PROVE  ClaimInv'
  BY DEF ClaimInv, Items

\* A step of the rollout that does not write a record's route makes no new
\* claim for it, unless it marks the record as active.
LEMMA ClaimsKept ==
  ASSUME Tracked, RolloutStep, NEW d \in Domains, Claims(d)'
  PROVE  /\ Present(d)' /\ Present(d) /\ d \notin Lost'
         /\ UNCHANGED config => DialsOf(d)' = DialsOf(d)
         /\ DialsOf(d)' = DialsOf(d) =>
              /\ Claims(d) \/ (run.pc = "itemSave" /\ d = Todo)
              /\ Gone(d) => Gone(d)'
  <1>1. Present(d)' /\ (domains'[d].status = "active" \/ (Routing(d)' /\ DialsOf(d)' # {}))
    BY DEF Claims
  <1>2. Present(d) /\ d \notin Lost' /\ (Gone(d) /\ DialsOf(d)' = {} => Gone(d)')
    BY <1>1, RolloutClaims, PresentStep DEF Next
  <1>3. DialsOf(d)' = DialsOf(d) => Claims(d) \/ (run.pc = "itemSave" /\ d = Todo)
    BY <1>1, <1>2, RolloutClaims DEF Claims
  <1>4. UNCHANGED config => DialsOf(d)' = DialsOf(d)
    BY UntouchedKept DEF AllKept, Kept, Ids
  <1>5. Gone(d) => DialsOf(d) = {}
    BY DEF Gone
  <1> QED BY <1>1, <1>2, <1>3, <1>4, <1>5

LEMMA StillClaims ==
  ASSUME Tracked, RolloutStep, UNCHANGED <<config, active>>, Calm, run.pc # "itemSave",
         run'.pc \notin Items \cup {"promote"}, ClaimInv
  PROVE  ClaimInv'
  <1>1. DialsOf(App)' = DialsOf(App)
    BY UntouchedKept DEF AllKept, Kept, Ids
  <1>2. ASSUME NEW d \in Domains, Claims(d)'
        PROVE  Claims(d) /\ DialsOf(d)' = DialsOf(d) /\ (Gone(d) => Gone(d)')
    BY <1>2, ClaimsKept
  <1> QED BY <1>1, <1>2, ClaimRest DEF ClaimInv, Follows

\* A failing call: a stop is over, and a deployment is undone.
LEMMA FailsClaims ==
  ASSUME Claiming, RolloutStep, UndoWorks, NEW next, Fails(next), run.kind # "none",
         run.pc \notin {"itemSave", "promote"} \/ run.kind # "stop",
         run.kind \in Undo => next = "discard" /\ run.pc # "discard"
  PROVE  ClaimInv'
  <1>1. /\ Tracked /\ ClaimInv /\ DialInv /\ Failed(next) /\ Mishap /\ run \in Run /\ mishaps \in Nat
        /\ Once(App) /\ App \in Ids /\ config \in Seq(Route) /\ Loses /\ MaybeRouted
    BY DEF Claiming, Followed, Tracked, Typed, Fails, OnceInv, Ids
  <1>2. run.kind \in {"deploy", "stop"} \cup Undo
    BY <1>1 DEF Run, Undo
  <1>3. CASE run.kind = "deploy"
    <2>1. run'.kind = "undo" /\ run'.pc \in {"remove", "app"}
      BY <1>1, <1>3 DEF Failed, Restored
    <2>2. ~Calm'
      BY <2>1 DEF Calm
    <2> QED BY <2>1, <2>2, ClaimRest DEF Items
  <1>4. CASE run.kind = "stop"
    <2>1. run'.pc = "idle" /\ Calm /\ active' = active /\ run.pc \notin Items
      BY <1>1, <1>4 DEF Failed, Ended, Begun, Calm, Fails, Claiming, Followed, RunInv, RunSound,
                        Unrouting, Items
    <2>2. UNCHANGED config \/ DialsOf(App)' = {}
      <3>1. CASE run.pc = "remove"
        <4>1. Delete(App) => Removed(App)
          BY <1>1, DeleteRemoves
        <4> QED BY <1>1, <3>1, <4>1 DEF MaybeRouted, Removed
      <3>2. CASE run.pc # "remove"
        <4>1. DialsOf(App) = {}
          BY <1>1, <1>4, <3>2 DEF DialInv
        <4>2. DialsOf(App)' \subseteq DialsOf(App)
          BY <1>1, <2>1, FailedDials DEF Owned, Items
        <4> QED BY <4>1, <4>2
      <3> QED BY <3>1, <3>2
    <2>3. CASE UNCHANGED config
      BY <1>1, <1>4, <2>1, <2>3, StillClaims DEF Items
    <2>4. CASE DialsOf(App)' = {}
      BY <2>1, <2>4, ClaimRest DEF Items
    <2> QED BY <2>2, <2>3, <2>4
  <1>5. CASE run.kind \in Undo
    <2>1. run'.pc = "discard" /\ run'.todo = {} /\ mishaps' # mishaps
      BY <1>1, <1>5 DEF Failed, Moved, Mishap, Undo
    <2>2. run' # run
      BY <1>1, <1>5, <2>1 DEF Fails, Undo
    <2> QED BY <1>5, <2>1, <2>2 DEF UndoWorks
  <1> QED BY <1>2, <1>3, <1>4, <1>5

LEMMA SwitchClaims ==
  ASSUME Claiming, UndoWorks, SwitchApp \/ CreateAppRoute
  PROVE  ClaimInv'
  <1>1. /\ Typed /\ Tracked /\ RunInv /\ ClaimInv /\ run.pc \in Switching /\ RolloutStep /\ run \in Run
        /\ mishaps \in Nat /\ active' = active /\ Once(App) /\ App \in Ids /\ config \in Seq(Route)
        /\ run.dial \in Nat /\ NewInv
    BY SwitchAppEffect, CreateAppRouteEffect
       DEF Claiming, Followed, Tracked, Typed, Switching, RolloutStep, Aside, OnceInv, Ids, Run
  <1>2. run.kind \in {"deploy"} \cup Undo
    BY <1>1 DEF Run, RunInv, RunSound, Switching, Syncing, Items, Unrouting, Undo
  <1>3. CASE Moved("list", run.todo)
    <2>1. ~Calm'
      BY <1>2, <1>3 DEF Moved, Calm, Switching, Undo
    <2> QED BY <1>3, <2>1, ClaimRest DEF Moved, Items
  <1>4. CASE UNCHANGED config /\ Moved("appNew", run.todo)
    <2>1. CASE run.kind = "deploy"
      <3>1. Calm
        BY <1>1, <2>1 DEF Calm
      <3> QED BY <1>1, <1>4, <3>1, StillClaims DEF Moved, Items, Switching
    <2>2. CASE run.kind \in Undo
      <3>1. ~Calm'
        BY <1>4, <2>2 DEF Moved, Calm, Undo
      <3> QED BY <1>4, <3>1, ClaimRest DEF Moved, Items
    <2> QED BY <1>2, <2>1, <2>2
  <1>5. CASE /\ SwitchFailed /\ Mishap
             /\ \/ Patch(AppRoute(run.dial)) \/ UNCHANGED config
                \/ Post(AppRoute(run.dial)) /\ run.pc = "appNew"
    <2>1. run.kind = "deploy"
      BY <1>1, <1>2, <1>5 DEF UndoWorks, SwitchFailed, Moved, Mishap, Undo, Switching
    <2>2. Calm /\ run'.pc = "discard"
      BY <1>1, <1>5, <2>1 DEF Calm, SwitchFailed, Moved
    <2>3. CASE UNCHANGED config
      BY <1>1, <2>2, <2>3, StillClaims DEF Items, Switching
    <2>4. run.dial # active
      BY <1>1, <2>1 DEF RunInv, RunSound, Switching
    <2>5. CASE Patch(AppRoute(run.dial))
      <3>1. SetTo(App, run.dial)
        BY <1>1, <2>5, PatchSets DEF AppRoute
      <3> QED BY <1>1, <2>2, <2>4, <3>1, ClaimRest DEF SetTo, Items
    <2>6. CASE Post(AppRoute(run.dial)) /\ run.pc = "appNew"
      <3>1. Added(App, run.dial) /\ DialsOf(App) = {}
        BY <1>1, <2>6, PostAdds, KnownDials DEF AppRoute, NewInv
      <3> QED BY <1>1, <2>2, <2>4, <3>1, ClaimRest DEF Added, Items
    <2> QED BY <1>5, <2>3, <2>5, <2>6
  <1> QED BY <1>1, <1>3, <1>4, <1>5, SwitchAppEffect, CreateAppRouteEffect

\* The records that SyncRoutes skips claim nothing, unless they were overlooked.
LEMMA ListedClaims ==
  ASSUME Tracked, ListDomains, NEW d \in Domains, Claims(d)'
  PROVE  Synced(d)
  <1>1. /\ Typed /\ RowInv /\ RolloutStep /\ run.pc = "list" /\ Overlooked /\ strayed' = strayed
    BY ListDomainsEffect DEF Tracked, RolloutStep
  <1>2. UNCHANGED config
    BY DEF ListDomains
  <1>3. Claims(d) /\ Present(d) /\ d \notin Lost' /\ Exists(d)
    BY <1>1, <1>2, ClaimsKept DEF Present
  <1>4. ASSUME ~domains[d].verified PROVE FALSE
    <2>1. domains[d].status # "active" /\ DialsOf(d) # {}
      BY <1>1, <1>3, <1>4 DEF RowInv, Claims
    <2>2. Known(d)
      BY <2>1, KnownDials
    <2> QED BY <1>1, <1>3, <1>4, <2>2 DEF Overlooked, Lost
  <1> QED BY <1>1, <1>3, <1>4 DEF RowInv, Synced

LEMMA ListClaims ==
  ASSUME Claiming, UndoWorks, ListDomains
  PROVE  ClaimInv'
  <1> DEFINE todo == {d \in Domains : Synced(d)}
  <1>1. Typed /\ Tracked /\ RunInv /\ run.pc = "list" /\ RolloutStep /\ run \in Run
    BY ListDomainsEffect DEF Claiming, Followed, Tracked, Typed, RolloutStep
  <1>2. run.kind \in {"deploy"} \cup Undo
    BY <1>1 DEF Run, RunInv, RunSound, Undo, Switching, Unrouting
  <1>3. CASE Fails("discard")
    BY <1>1, <1>2, <1>3, FailsClaims DEF Undo
  <1>4. CASE Moved(IF todo = {} THEN AfterSync ELSE "item", todo)
    <2>1. \A d \in Domains : Claims(d)' => d \in todo
      BY <1>1, ListedClaims
    <2> HIDE DEF todo
    <2>2. CASE todo = {}
      BY <1>4, <2>1, <2>2 DEF Moved, AfterSync, ClaimInv, Items
    <2>3. CASE todo # {}
      <3>1. run'.pc = "item" /\ run'.todo = todo /\ run'.kind = run.kind
        BY <1>4, <2>3 DEF Moved
      <3>2. ~Calm'
        BY <1>2, <3>1 DEF Calm, Switching, Undo
      <3> QED BY <2>1, <3>1, <3>2 DEF ClaimInv
    <2> QED BY <2>2, <2>3
  <1> QED BY <1>1, <1>3, <1>4, ListDomainsEffect

LEMMA ItemClaims ==
  ASSUME Claiming, UndoWorks, SyncDomain \/ CreateSyncedRoute
  PROVE  ClaimInv'
  <1>0. PICK t \in Domains : t = Todo
    BY SyncDomainEffect, CreateSyncedRouteEffect DEF Claiming, Followed, Tracked
  <1>1. /\ Typed /\ Tracked /\ RunInv /\ ClaimInv /\ RolloutStep /\ run \in Run
        /\ config \in Seq(Route) /\ run.pc \in {"item", "itemNew"} /\ t \in run.todo /\ t \in Ids
    BY <1>0, SyncDomainEffect, CreateSyncedRouteEffect, Listed
       DEF Claiming, Followed, Tracked, Typed, RolloutStep, Todo, Items, Ids
  <1>2. run.kind \in {"deploy"} \cup Undo
    BY <1>1 DEF Run, RunInv, RunSound, Undo, Switching, Unrouting
  <1>3. CASE Fails("discard")
    BY <1>1, <1>2, <1>3, FailsClaims DEF Undo
  <1>4. ASSUME Moved("itemNew", run.todo) \/ Moved("itemSave", run.todo)
        PROVE  ~Calm'
    BY <1>2, <1>4 DEF Moved, Calm, Switching, Undo
  <1>s. ASSUME NEW d \in Domains, Claims(d)', d \notin run.todo, DialsOf(d)' = DialsOf(d)
        PROVE  DialsOf(d)' = {run.dial} \/ Gone(d)'
    <2>1. Claims(d) /\ (Gone(d) => Gone(d)')
      BY <1>1, <1>s, ClaimsKept
    <2> QED BY <1>1, <1>s, <2>1 DEF ClaimInv, Items, Follows
  <1>5. CASE UNCHANGED config /\ Moved("itemNew", run.todo)
    <2>1. ASSUME NEW d \in Domains, Claims(d)', d \notin run.todo
          PROVE  DialsOf(d)' = {run.dial} \/ Gone(d)'
      BY <1>1, <1>5, <1>s, <2>1, ClaimsKept
    <2> QED BY <1>4, <1>5, <2>1 DEF Moved, ClaimInv, Follows
  <1>6. ASSUME Moved("itemSave", run.todo), OthersKept(t), t \in Trusted \ Lost' => DialsOf(t)' = {run.dial}
        PROVE  ClaimInv'
    <2>1. ASSUME NEW d \in Domains, Claims(d)', d \notin run.todo
          PROVE  DialsOf(d)' = {run.dial} \/ Gone(d)'
      <3>1. DialsOf(d)' = DialsOf(d)
        BY <1>1, <1>6, <2>1 DEF OthersKept, Kept, Ids
      <3> QED BY <1>s, <2>1, <3>1
    <2>2. ASSUME Present(t)' PROVE DialsOf(t)' = {run.dial}
      BY <1>1, <1>6, <2>2, PresentStep DEF Next
    <2>3. Todo' = t
      BY <1>0, <1>6 DEF Moved, Todo, First
    <2>4. run'.pc = "itemSave" /\ run'.todo = run.todo /\ run'.dial = run.dial
      BY <1>6 DEF Moved
    <2>5. ASSUME NEW d \in Domains, d = t, Present(d)' PROVE DialsOf(d)' = {run.dial}
      BY <2>2, <2>5
    <2> QED BY <1>4, <1>6, <2>1, <2>3, <2>4, <2>5 DEF ClaimInv, Follows
  <1>7. CASE Patch(DomainRoute(t, run.dial)) /\ Moved("itemSave", run.todo)
    <2>1. SetTo(t, run.dial)
      BY <1>1, <1>7, PatchSets DEF DomainRoute, Typed, Run
    <2>2. t \in Trusted => Once(t)
      BY <1>1 DEF Tracked, OnceInv
    <2> QED BY <1>6, <1>7, <2>1, <2>2 DEF SetTo
  <1>8. CASE /\ Post(DomainRoute(t, run.dial)) /\ Moved("itemSave", run.todo)
             /\ Known(t) => t \in Lost'
    <2>1. Added(t, run.dial)
      BY <1>1, <1>8, PostAdds DEF DomainRoute
    <2>2. t \in Trusted \ Lost' => DialsOf(t) = {}
      BY <1>8, KnownDials
    <2> QED BY <1>6, <1>8, <2>1, <2>2 DEF Added
  <1>9. CASE SyncDomain
    BY <1>0, <1>1, <1>3, <1>5, <1>7, <1>9, SyncDomainEffect
  <1>10. CASE CreateSyncedRoute
    <2>1. Unseen(t, ~Synced(t) \/ Known(t)) => (Known(t) => t \in Lost')
      BY DEF Unseen, Lost
    <2> QED BY <1>0, <1>1, <1>3, <1>8, <1>10, <2>1, CreateSyncedRouteEffect
  <1> QED BY <1>9, <1>10

LEMMA SaveSyncedClaims ==
  ASSUME Claiming, UndoWorks, SaveSynced
  PROVE  ClaimInv'
  <1>0. PICK t \in Domains : t = Todo
    BY SaveSyncedEffect DEF Claiming, Followed, Tracked
  <1> DEFINE todo == run.todo \ {t}
  <1>1. /\ Typed /\ Tracked /\ RunInv /\ ClaimInv /\ RolloutStep /\ run \in Run /\ run.pc = "itemSave"
        /\ DialsOf(App) = {run.dial}
    BY SaveSyncedEffect DEF Claiming, Followed, Tracked, Typed, RolloutStep, DialInv, Syncing, Items
  <1>2. run.kind \in {"deploy"} \cup Undo
    BY <1>1 DEF Run, RunInv, RunSound, Undo, Switching, Unrouting, Items
  <1>3. CASE Fails("discard")
    BY <1>1, <1>2, <1>3, FailsClaims DEF Undo
  <1>4. CASE UNCHANGED config /\ Aside /\ Moved(IF todo = {} THEN AfterSync ELSE "item", todo)
    <2>1. ASSUME NEW d \in Domains, Claims(d)', d \notin todo
          PROVE  DialsOf(d)' = {run.dial} \/ Gone(d)'
      <3>1. /\ Claims(d) \/ d = t
            /\ DialsOf(d)' = DialsOf(d) /\ Present(d) /\ (Gone(d) => Gone(d)')
        BY <1>0, <1>1, <1>4, <2>1, ClaimsKept
      <3>2. CASE d = t
        BY <1>0, <1>1, <3>1, <3>2 DEF ClaimInv, Follows
      <3>3. CASE d # t
        BY <1>1, <2>1, <3>1, <3>3 DEF ClaimInv, Items, Follows
      <3> QED BY <3>2, <3>3
    <2> HIDE DEF todo
    <2>2. /\ run'.pc = (IF todo = {} THEN AfterSync ELSE "item") /\ run'.kind = run.kind
          /\ run'.dial = run.dial /\ run'.todo = todo /\ active' = active
      BY <1>4 DEF Moved, Aside
    <2>3. CASE todo = {} /\ run.kind = "deploy"
      <3>1. run'.pc = "promote" /\ ~Calm'
        BY <2>2, <2>3 DEF AfterSync, Calm, Switching
      <3> QED BY <2>1, <2>2, <2>3, <3>1 DEF ClaimInv, Items, Follows
    <2>4. CASE todo = {} /\ run.kind \in Undo
      <3>1. run'.pc = "discard"
        BY <2>2, <2>4 DEF AfterSync, Undo
      <3>2. DialsOf(App)' = {run.dial}
        BY <1>1, <1>4, UntouchedKept DEF AllKept, Kept, Ids
      <3>3. DialsOf(App)' = {active'} => run.dial = active'
        BY <3>2
      <3> QED BY <2>1, <2>2, <2>4, <3>1, <3>3, ClaimRest DEF Items, Follows
    <2>5. CASE todo # {}
      <3>1. run'.pc = "item" /\ ~Calm'
        BY <1>2, <2>2, <2>5 DEF Calm, Switching, Undo
      <3> QED BY <2>1, <2>2, <3>1 DEF ClaimInv, Follows
    <2> QED BY <1>2, <2>3, <2>4, <2>5
  <1> QED BY <1>0, <1>1, <1>3, <1>4, SaveSyncedEffect

LEMMA PromoteClaims ==
  ASSUME Claiming, UndoWorks, Promote
  PROVE  ClaimInv'
  <1>1. Typed /\ Tracked /\ RunInv /\ ClaimInv /\ run.pc = "promote" /\ RolloutStep /\ run \in Run
    BY PromoteEffect DEF Claiming, Followed, Tracked, Typed, RolloutStep
  <1>2. run.kind = "deploy"
    BY <1>1 DEF Run, RunInv, RunSound, Switching, Syncing, Items, Undo, Unrouting
  <1>3. CASE Fails("discard")
    BY <1>1, <1>2, <1>3, FailsClaims DEF Undo
  <1>4. CASE active' = run.candidate /\ Moved("retire", run.todo) /\ UNCHANGED config
    <2>1. run.dial = run.candidate /\ run'.pc = "retire"
      BY <1>1, <1>2, <1>4 DEF RunInv, RunSound, Moved
    <2>2. ASSUME NEW d \in Domains, Claims(d)' PROVE DialsOf(d)' = {active'} \/ Gone(d)'
      <3>1. Claims(d) /\ DialsOf(d)' = DialsOf(d) /\ (Gone(d) => Gone(d)')
        BY <1>1, <1>4, <2>2, ClaimsKept
      <3> QED BY <1>1, <1>4, <2>1, <3>1 DEF ClaimInv, Follows
    <2> QED BY <2>1, <2>2, ClaimRest DEF Items, Follows
  <1> QED BY <1>1, <1>3, <1>4, PromoteEffect

LEMMA EndClaims ==
  ASSUME Claiming, Deploy \/ Retire \/ Discard \/ Stop \/ Halt
  PROVE  ClaimInv'
  <1>1. Typed /\ Tracked /\ ClaimInv /\ RunInv /\ RolloutStep
    BY DEF Claiming, Followed, Tracked, RolloutStep
  <1>2. CASE Deploy \/ Stop
    <2>1. run'.pc \in {"app", "remove"} /\ run.pc = "idle" /\ UNCHANGED <<config, active>>
      BY <1>1, <1>2, DeployEffect, StopEffect DEF Deploy, Stop, Begun, Typed
    <2>2. Calm
      BY <2>1 DEF Calm
    <2> QED BY <1>1, <2>1, <2>2, StillClaims DEF Items
  <1>3. CASE Retire \/ Discard
    <2>1. run'.pc = "idle" /\ run.pc \in {"retire", "discard"} /\ UNCHANGED <<config, active>>
      BY <1>3, IdleEffect DEF Retire, Discard, Ended, Begun
    <2>2. Calm
      BY <2>1 DEF Calm
    <2> QED BY <1>1, <2>1, <2>2, StillClaims DEF Items
  <1>4. CASE Halt
    <2>1. run'.pc = "idle" /\ active' = NoRelease
      BY <1>4, IdleEffect DEF Halt, Ended, Begun
    <2> QED BY <2>1, ClaimRest DEF Items
  <1> QED BY <1>2, <1>3, <1>4

\* A stop removes the application's route first: no claim is left to keep.
LEMMA StopClaims ==
  ASSUME Claiming, Followed', UndoWorks, RemoveAppRoute \/ ListRouted \/ RemoveDomainRoute \/ SaveRemoved
  PROVE  ClaimInv'
  <1>1. /\ Typed /\ Tracked /\ RunInv /\ RolloutStep /\ run \in Run /\ DialInv'
        /\ run.pc \in {"remove", "listStop"} \cup Unrouting
    BY RemoveAppRouteEffect, ListRoutedEffect, RemoveDomainRouteEffect, SaveRemovedEffect
       DEF Claiming, Followed, Tracked, Typed, RolloutStep, Unrouting
  <1>2. run.kind = "stop" \/ (run.kind \in Undo /\ RemoveAppRoute /\ run.pc = "remove")
    BY <1>1, RemoveAppRouteEffect, ListRoutedEffect, RemoveDomainRouteEffect, SaveRemovedEffect
       DEF Run, RunInv, RunSound, Switching, Syncing, Items, Undo, Unrouting
  <1>3. ASSUME NEW next \in {"discard", "halt"}, Fails(next), next = "discard" \/ ~RemoveAppRoute
        PROVE  ClaimInv'
    BY <1>1, <1>2, <1>3, FailsClaims DEF Undo, Unrouting
  <1>4. ASSUME NEW pc \in {"listStop", "unroute", "unrouteSave", "halt", "discard"},
               NEW todo, Moved(pc, todo), run.kind = "stop" \/ DialsOf(App)' = {}
        PROVE  ClaimInv'
    <2>1. DialsOf(App)' = {}
      BY <1>1, <1>4 DEF Moved, DialInv
    <2> QED BY <1>4, <2>1, ClaimRest DEF Moved, Items
  <1>5. CASE RemoveAppRoute
    <2>1. Delete(App) => DialsOf(App)' = {}
      <3>1. config \in Seq(Route) /\ App \in Ids /\ Once(App)
        BY <1>1 DEF Tracked, Typed, Ids, OnceInv
      <3> QED BY <3>1, DeleteRemoves DEF Removed
    <2> QED BY <1>1, <1>3, <1>4, <1>5, <2>1, RemoveAppRouteEffect DEF AfterRemove
  <1>6. ASSUME ~RemoveAppRoute PROVE run.kind = "stop"
    BY <1>2, <1>6
  <1>7. CASE ListRouted
    <2> DEFINE todo == {d \in Domains : Exists(d) /\ domains[d].verified}
    <2>1. Fails("halt") \/ (Aside /\ Moved(IF todo = {} THEN "halt" ELSE "unroute", todo))
      BY <1>1, <1>7, ListRoutedEffect
    <2>2. ~RemoveAppRoute
      BY <1>1, <1>7, RemoveAppRouteEffect, ListRoutedEffect
    <2> HIDE DEF todo
    <2> QED BY <1>3, <1>4, <1>6, <2>1, <2>2
  <1>8. CASE RemoveDomainRoute
    BY <1>1, <1>3, <1>4, <1>6, <1>8, RemoveDomainRouteEffect, RemoveAppRouteEffect
  <1>9. CASE SaveRemoved
    BY <1>1, <1>3, <1>4, <1>6, <1>9, SaveRemovedEffect, RemoveAppRouteEffect
  <1> QED BY <1>5, <1>7, <1>8, <1>9

LEMMA CrashClaims ==
  ASSUME Claiming, Crash
  PROVE  ClaimInv'
  <1>1. Typed /\ Tracked /\ RunInv /\ ClaimInv /\ run \in Run /\ [Next]_vars
    BY DEF Claiming, Followed, Tracked, Typed, Next
  <1>2. /\ UNCHANGED <<config, domains, active>> /\ \A q \in Requests : request'[q] = NoRequest
    BY <1>1, CrashEffect
  <1>3. CASE Recovering /\ Restored("recover", active)
    <2>1. run'.pc \in {"remove", "app"} /\ ~Calm'
      BY <1>3 DEF Restored, Calm
    <2> QED BY <2>1, ClaimRest DEF Items
  <1>4. CASE ~Recovering /\ Ended
    <2>1. run'.pc = "idle"
      BY <1>4 DEF Ended, Begun
    <2>2. Calm
      <3>1. Steady /\ RunSound(run, active, up, released)
        BY <1>1, CrashEffect DEF RunInv, Mishap, Exhausted
      <3> QED BY <1>1, <1>4, <3>1, Uncommitted DEF Calm, Run, RunSound, Rollouts, Undo
    <2>3. \A x \in Ids : DialsOf(x)' = DialsOf(x)
      BY <1>2, UntouchedKept DEF AllKept, Kept
    <2>4. ASSUME NEW d \in Domains, Claims(d)'
          PROVE  Claims(d) /\ DialsOf(d)' = DialsOf(d) /\ (Gone(d) => Gone(d)')
      <3>1. Present(d)' /\ domains'[d].status = "active" /\ domains[d].status = "active"
        BY <1>2, <2>4 DEF Claims, Routing, Saving, NoRequest
      <3>2. Present(d) /\ (Gone(d) /\ DialsOf(d)' = {} => Gone(d)')
        BY <1>1, <3>1, ClaimStep, PresentStep
      <3>3. DialsOf(d)' = DialsOf(d) /\ (Gone(d) => DialsOf(d) = {})
        BY <2>3 DEF Ids, Gone
      <3> QED BY <3>1, <3>2, <3>3 DEF Claims
    <2> QED BY <1>1, <1>2, <2>1, <2>2, <2>3, <2>4, ClaimRest DEF ClaimInv, Items, Ids, Follows
  <1> QED BY <1>1, <1>3, <1>4, CrashEffect

LEMMA RequestClaims ==
  ASSUME Claiming, (\E q \in Requests : Handler(q)) \/ User \/ UNCHANGED vars
  PROVE  ClaimInv'
  <1>1. Typed /\ Tracked /\ ClaimInv /\ TodoInv /\ [Next]_vars
    BY DEF Claiming, Followed, Tracked, Next
  <1>2. run' = run /\ active' = active /\ DialsOf(App)' = DialsOf(App)
    BY <1>1, RequestsApart DEF Apart, Kept
  <1>s. ASSUME NEW d \in Domains, Present(d)', DialsOf(d)' = DialsOf(d) PROVE Gone(d) => Gone(d)'
    BY <1>1, <1>s, PresentStep DEF Gone
  <1>3. ASSUME NEW d \in Domains, Claims(d)'
        PROVE  \/ Claims(d) /\ DialsOf(d)' = DialsOf(d) /\ (Gone(d) => Gone(d)')
               \/ Gone(d)'
               \/ run.pc = "idle" /\ DialsOf(d)' = {active}
    <2>1. Present(d)' /\ (domains'[d].status = "active" \/ (Routing(d)' /\ DialsOf(d)' # {}))
      BY <1>3 DEF Claims
    <2>2. Present(d)
      BY <1>1, <2>1, ClaimStep
    <2> QED BY <1>1, <1>s, <2>1, <2>2, BesideClaims DEF Claims
  <1>4. Calm' <=> Calm
    BY <1>2 DEF Calm
  <1>5. ASSUME run.pc = "itemSave", NEW d \in Domains, d = Todo, Present(d)'
        PROVE  DialsOf(d)' = {run.dial} \/ Gone(d)'
    <2>1. d \in run.todo
      BY <1>1, <1>5, Listed DEF Todo, Items
    <2>2. Present(d)
      <3>1. ~Created(d)
        BY <1>1, <1>5, <2>1 DEF Created, TodoInv, Items
      <3> QED BY <1>1, <1>5, <3>1, PresentStep DEF Present
    <2>3. DialsOf(d)' = DialsOf(d) \/ Gone(d)'
      BY <1>1, <1>5, BesideClaims
    <2>4. Follows(d, run.dial)
      BY <1>1, <1>5, <2>2 DEF ClaimInv
    <2> QED BY <1>5, <1>s, <2>3, <2>4 DEF Follows
  <1>6. Todo' = Todo
    BY <1>2 DEF Todo, First
  <1>7. ASSUME NEW d \in Domains, Claims(d)'
        PROVE  /\ Calm /\ active # NoRelease /\ DialsOf(App) = {active} =>
                    DialsOf(d)' = {active} \/ Gone(d)'
               /\ run.pc \in Items /\ d \notin run.todo => DialsOf(d)' = {run.dial} \/ Gone(d)'
               /\ run.pc = "promote" => DialsOf(d)' = {run.dial} \/ Gone(d)'
    <2>1. CASE Claims(d) /\ DialsOf(d)' = DialsOf(d) /\ (Gone(d) => Gone(d)')
      BY <1>1, <2>1 DEF ClaimInv, Follows
    <2>2. CASE Gone(d)' \/ (run.pc = "idle" /\ DialsOf(d)' = {active})
      BY <2>2 DEF Items
    <2> QED BY <1>3, <1>7, <2>1, <2>2
  <1> QED BY <1>2, <1>4, <1>5, <1>6, <1>7 DEF ClaimInv, Follows

LEMMA ClaimInvStep ==
  ASSUME Claiming, Followed', UndoWorks, [Next]_vars
  PROVE  ClaimInv'
  <1>1. CASE RolloutStep
    BY <1>1, SwitchClaims, ListClaims, ItemClaims, SaveSyncedClaims, PromoteClaims, EndClaims, StopClaims
       DEF RolloutStep
  <1> QED BY <1>1, CrashClaims, RequestClaims DEF Next

LEMMA ClaimingInit == Init => Claiming
  <1> SUFFICES ASSUME Init PROVE Claiming
    OBVIOUS
  <1>1. Followed
    BY FollowedInit
  <1>2. run.pc = "idle" /\ active = NoRelease
    BY DEF Init, Idle
  <1>3. ClaimInv
    BY <1>2 DEF ClaimInv, Items
  <1> QED BY <1>1, <1>3 DEF Claiming

LEMMA ClaimingStep == Claiming /\ UndoWorks /\ LostLast /\ [Next]_vars => Claiming'
  <1> SUFFICES ASSUME Claiming, UndoWorks, LostLast, [Next]_vars PROVE Claiming'
    OBVIOUS
  <1>1. Followed'
    BY FollowedStep DEF Claiming
  <1> QED BY <1>1, ClaimInvStep DEF Claiming

\* A host that one record alone is routed by is answered by that route.
LEMMA ServedOnly ==
  ASSUME config \in Seq(Route), NEW x, Once(x), NEW h,
         \A i \in DOMAIN config : config[i].host = h <=> config[i].id = x
  PROVE  Served(h) = DialsOf(x)
  <1> DEFINE first == {j \in DOMAIN config :
                         config[j].host = h /\ \A k \in 1..(j - 1) : config[k].host # h}
  <1>1. first \subseteq At(x)
    BY DEF At
  <1>2. ASSUME NEW i \in At(x) PROVE i \in first
    <2>1. i \in DOMAIN config /\ config[i].host = h
      BY DEF At
    <2>2. ASSUME NEW k \in 1..(i - 1), config[k].host = h PROVE FALSE
      <3>1. Len(config) \in Nat /\ DOMAIN config = 1..Len(config)
        OBVIOUS
      <3>2. k \in DOMAIN config /\ k # i
        BY <2>1, <3>1
      <3> QED BY <1>2, <2>2, <3>2 DEF At, Once
    <2> QED BY <2>1, <2>2
  <1>3. first = At(x)
    BY <1>1, <1>2
  <1> QED BY <1>3 DEF Served, DialsOf

LEMMA ClaimingFollows == Claiming => DomainsFollowRelease
  <1> SUFFICES ASSUME Claiming, AtRest, active # NoRelease, Served(AppHost) = {active},
                      NEW d \in Trusted, domains[d].status = "active",
                      \A e \in Domains \ Trusted : domains[e].host # domains[d].host
               PROVE  \/ Served(domains[d].host) = {active}
                      \/ d \in undeleted /\ Served(domains[d].host) = {}
    BY DEF DomainsFollowRelease
  <1>1. /\ Tracked /\ ClaimInv /\ HostInv /\ RowInv /\ RoutedInv /\ OnceInv
        /\ config \in Seq(Route) /\ App \notin Domains
    BY DomainsAssumption DEF Claiming, Followed, Tracked, Typed, App
  <1>2. \A e \in Domains : domains[e].status # "absent" => domains[e].host # AppHost
    BY <1>1, OwnHostRefused DEF RowInv
  <1>3. d \in Domains /\ Exists(d) /\ domains[d].host # AppHost
    BY <1>2 DEF Trusted, Exists
  <1>4. Served(AppHost) = DialsOf(App)
    <2>1. \A i \in DOMAIN config : config[i].host = AppHost <=> config[i].id = App
      BY <1>1, <1>2 DEF HostInv, Name, Ids
    <2> QED BY <1>1, <2>1, ServedOnly DEF OnceInv
  <1>5. DialsOf(d) = {active} \/ (d \in undeleted /\ DialsOf(d) = {})
    <2>1. Calm /\ ~Dropped(d)
      BY DEF AtRest, Calm, Dropped
    <2>2. Claims(d)
      BY <1>3, <2>1 DEF Claims, Present
    <2> QED BY <1>1, <1>3, <1>4, <2>1, <2>2 DEF ClaimInv, Follows, Gone
  <1>6. ASSUME NEW i \in DOMAIN config
        PROVE  config[i].host = domains[d].host <=> config[i].id = d
    <2>1. PICK e \in Ids : e = config[i].id
      BY <1>1 DEF HostInv
    <2>2. config[i].host = Name(e) /\ Known(e)
      BY <1>1, <2>1 DEF HostInv, Known, At
    <2>3. CASE e = App
      BY <1>1, <1>3, <2>1, <2>2, <2>3 DEF Name
    <2>4. CASE e \in Domains \ Trusted
      BY <1>1, <2>1, <2>2, <2>4 DEF Name
    <2>5. CASE e \in Trusted
      <3>1. Exists(e) /\ e \in Domains
        BY <1>1, <2>2, <2>5 DEF RoutedInv, Trusted
      <3>2. domains[e].host = domains[d].host => e = d
        BY <1>1, <1>3, <3>1 DEF RowInv
      <3> QED BY <1>1, <2>1, <2>2, <3>1, <3>2 DEF Name
    <2> QED BY <2>3, <2>4, <2>5 DEF Ids
  <1>7. Served(domains[d].host) = DialsOf(d)
    <2>1. Once(d)
      BY <1>1 DEF OnceInv
    <2> QED BY <1>1, <1>6, <2>1, ServedOnly
  <1> QED BY <1>5, <1>7

\* "Verified custom domains follow the same active container as the default
\* subdomain" (custom_domain.go:25), under the same conditions: an undo that
\* passes over a failing switch leaves that domain where it was.
THEOREM DomainsFollow == Spec /\ [][UndoWorks /\ LostLast]_vars => []DomainsFollowRelease
  <1>1. UNCHANGED vars => UndoWorks /\ LostLast
    BY DEF vars, UndoWorks, LostLast
  <1>2. Claiming /\ [Next]_vars /\ [UndoWorks /\ LostLast]_vars => Claiming'
    BY <1>1, ClaimingStep
  <1> QED BY <1>2, ClaimingInit, ClaimingFollows, PTL DEF Spec

-----------------------------------------------------------------------------
\* A rollout that is undone or recovered follows a failing call or a crash.
Blamed == mishaps <= MaxMishaps /\ (run.kind \in Undo => mishaps > 0)

LEMMA UndoBegins ==
  ASSUME Typed, RunInv, [Next]_vars, run'.kind \in Undo, run.kind \notin Undo
  PROVE  Mishap
  <1> USE DEF Undo
  <1>1. CASE Deploy \/ Stop
    BY <1>1, DeployEffect, StopEffect DEF Begun, Typed
  <1>2. CASE SwitchApp \/ CreateAppRoute
    BY <1>2, SwitchAppEffect, CreateAppRouteEffect DEF Moved, SwitchFailed
  <1>3. CASE ListDomains
    <2>1. Fails("discard") \/ \E pc, todo : Moved(pc, todo)
      BY <1>3, ListDomainsEffect
    <2> QED BY <2>1 DEF Moved, Fails
  <1>4. CASE SyncDomain \/ CreateSyncedRoute \/ SaveSynced \/ Promote
    <2>1. Fails("discard") \/ \E pc, todo : Moved(pc, todo)
      BY <1>4, SyncDomainEffect, CreateSyncedRouteEffect, SaveSyncedEffect, PromoteEffect
    <2> QED BY <2>1 DEF Moved, Fails
  <1>5. CASE RemoveAppRoute \/ ListRouted \/ RemoveDomainRoute \/ SaveRemoved
    <2>1. Fails("discard") \/ Fails("halt") \/ \E pc, todo : Moved(pc, todo)
      BY <1>5, RemoveAppRouteEffect, ListRoutedEffect, RemoveDomainRouteEffect, SaveRemovedEffect
    <2> QED BY <2>1 DEF Moved, Fails
  <1>6. CASE Retire \/ Discard \/ Halt
    BY <1>6, IdleEffect DEF Retire, Discard, Halt, Ended, Begun
  <1>7. CASE Crash
    BY <1>7 DEF Crash
  <1>8. CASE (\E q \in Requests : Handler(q)) \/ User \/ UNCHANGED vars
    BY <1>8, RequestsApart DEF Apart
  <1> QED BY <1>1, <1>2, <1>3, <1>4, <1>5, <1>6, <1>7, <1>8 DEF Next, RolloutStep

\* A promotion that neither fails nor goes on does nothing.
LEMMA LostReply ==
  ASSUME Typed, [Next]_vars, run.pc = "promote", active' # active, run'.pc # "retire"
  PROVE  Mishap
  <1>1. CASE RolloutStep
    <2>1. Promote
      BY <1>1 DEF RolloutStep, Deploy, SwitchApp, CreateAppRoute, ListDomains, SyncDomain,
         CreateSyncedRoute, SaveSynced, Retire, Discard, Stop, RemoveAppRoute, ListRouted,
         RemoveDomainRoute, SaveRemoved, Halt
    <2> QED BY <2>1, PromoteEffect DEF Moved, Fails
  <1>2. CASE Crash
    BY <1>2 DEF Crash
  <1>3. CASE (\E q \in Requests : Handler(q)) \/ User \/ UNCHANGED vars
    BY <1>3, RequestsApart DEF Apart
  <1> QED BY <1>1, <1>2, <1>3 DEF Next

LEMMA BlamedStep ==
  ASSUME Typed, RunInv, Blamed, [Next]_vars
  PROVE  Blamed' /\ (MaxMishaps <= 1 => UndoWorks /\ LostLast)
  <1>1. mishaps \in Nat /\ MaxMishaps \in Nat
    BY BoundsAssumption DEF Typed
  <1>2. mishaps' = mishaps \/ (mishaps < MaxMishaps /\ mishaps' = mishaps + 1)
    BY MishapSteps DEF Mishap
  <1>3. run'.kind \in Undo /\ run.kind \notin Undo => mishaps' = mishaps + 1
    BY UndoBegins DEF Mishap
  <1>4. Blamed'
    BY <1>1, <1>2, <1>3 DEF Blamed
  <1>5. MaxMishaps <= 1 => UndoWorks
    BY <1>1, <1>2 DEF Blamed, UndoWorks
  <1>6. MaxMishaps <= 1 => LostLast
    BY <1>1, LostReply DEF LostLast, Mishap
  <1> QED BY <1>4, <1>5, <1>6

LEMMA RunInvInit == Init => Typed /\ RunInv /\ Blamed
  BY FollowedInit, BoundsAssumption DEF Followed, Tracked, Init, Idle, Undo, Blamed

LEMMA RunInvStep == Typed /\ RunInv /\ LostLast /\ [Next]_vars => Typed' /\ RunInv'
  <1> SUFFICES ASSUME Typed, RunInv, LostLast, [Next]_vars PROVE Typed' /\ RunInv'
    OBVIOUS
  <1>1. CASE RolloutStep \/ Crash
    BY <1>1, TypedStep, RunStep
  <1>2. CASE (\E q \in Requests : Handler(q)) \/ User \/ UNCHANGED vars
    BY <1>2, TypedStep, ApartRun
  <1> QED BY <1>1, <1>2 DEF Next

\* An undo, like a promotion whose reply is lost, follows a mishap: where there
\* is at most one, nothing else fails.
THEOREM OneMishap == ASSUME MaxMishaps <= 1 PROVE Spec => [][UndoWorks /\ LostLast]_vars
  <1>1. Typed /\ RunInv /\ Blamed /\ [Next]_vars =>
          (Typed /\ RunInv /\ Blamed)' /\ [UndoWorks /\ LostLast]_vars
    BY RunInvStep, BlamedStep
  <1> QED BY <1>1, RunInvInit, PTL DEF Spec

\* Hence, with at most one failing call, cancellation or crash, which may or
\* may not have been carried out, nothing dials a container that is removed,
\* without any condition on the undo.
THEOREM OneMishapRouted == ASSUME MaxMishaps <= 1 PROVE Spec => RemovedUnrouted
  BY OneMishap, RoutedStaysUp, PTL

\* And the custom domains follow the release.
THEOREM OneMishapFollowed == ASSUME MaxMishaps <= 1 PROVE Spec => []DomainsFollowRelease
  BY OneMishap, DomainsFollow, PTL
=============================================================================
