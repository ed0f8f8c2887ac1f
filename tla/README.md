# Formal models of MiniPaaS

This directory holds TLA+ modules that model the core of MiniPaaS, TLC
configurations that model-check them on small instances, and theorems proved
with TLAPS. Paths such as `deployment.go:408` are relative to
`api/internal/service/` of the repository unless a directory is given;
`PROJECT.json` maps every definition to the lines it translates.

    tlc -workers 2 -config MCBuildQueue.cfg MCBuildQueue.tla
    tlc -workers 2 -config MCDeploymentSystem_serial.cfg MCDeploymentSystem.tla
    tlapm BuildQueueProofs.tla

## 1. The system

MiniPaaS runs applications as containers on one host. The Go API (gin handlers,
services, PostgreSQL stores) drives the Docker Engine and Caddy's Admin API. A
CLI and a Next.js dashboard are clients of that API.

| Component | State it keeps | Operations | Hard behaviour |
|---|---|---|---|
| Build queue (`build_queue.go`) | `active`, FIFO `waiters`, a limit | Acquire, release, Stats | a grant racing a cancellation in a `select` outside the mutex |
| Deployment service (`deployment.go`) | `executions` (cancel functions), `rollouts` (one channel per app) | Create, RunBuild, Rollback, StopApp, Cancel, RecoverCandidates | three services to keep in agreement without a transaction; overlapping runs; cancellation at every call |
| Deployment and app rows (`store/postgres`, `sql/queries`) | `deployments`, `apps` | single statements, guarded or not | unconditional status writes; `created_at` order |
| Cancellation (`deployment.go:201-231`) | `cancel_requested_at`, `executions` | Cancel | flag, registration and interrupt in either order |
| Health checker (`health/checker.go`) | the list of one pass | Check | marks rows of a list that has aged |
| Recovery, reconciliation (`deployment.go:622`, `reconcile.go`) | none | once, before the server listens | has to work from what a crash left |
| App service and handlers (`app.go`, `handler/app.go`) | `apps`, quota mutex | Create, Stop, Delete | deletion is two steps with the lock free in between |
| Custom domains (`custom_domain.go`) | `custom_domains`, Caddy routes | Create, Verify, Delete, SyncRoutes | Verify is not serialized with rollouts |
| Git source (`git_source.go`) | `git_sources` | Run, AutoDeploy, Retry | clone interrupted by a cancel |
| Webhooks (`github_webhook.go`) | `github_webhook_deliveries` | Process | claim before work; several applications per push |
| Image retention (`deployment.go:910-926`) | image tags | pruneImages | tags shared by rows |
| Metrics hub, log stream (`ws/`) | shared streams, bounded channels | Subscribe, publish | stream replaced while it publishes |
| Rate limiter (`handler/middleware/ratelimit.go`) | windows per client | Allow | at 1,024 clients |
| Caddy client (`caddy/client.go`) | routes of Caddy | EnsureBase, SwitchRoute, RemoveRoute | PATCH, then POST when unknown |
| Docker client (`docker/client.go`) | containers, images | Build, Run, Stop, Remove | clean-up with a context that is done |
| Users, sessions, tokens (`auth.go`, `api_token.go`, `handler/middleware/auth.go`) | `users`, `api_tokens`; sessions are signed and not stored | login, register, rename, password, create, revoke, authenticate | identity decided from a row that may change before it is used |
| GitHub App (`github_app.go`, `githubapp/`) | `github_installations`, signed states in browsers | InstallURL, Connect | two users connecting one installation |
| Environment variables (`env.go`) | `env_vars`, encrypted | set, list, delete | name resolved before, row written by id |

How they interact: a handler creates a row and starts a goroutine (the
*pipeline*). It asks the build queue for a slot, builds, and then takes the
application's *rollout lock* (`acquireRollout`). Under the lock it reads the
active release, starts a candidate container, waits for it, points Caddy at it,
promotes the row -- the commit point -- and removes the previous container. A
rollback does the same inside its HTTP request, a stop takes the same lock.
Cancel reaches a pipeline through its row and through the cancel function in
`executions`. The health checker and the start-up code share nothing with them
but PostgreSQL, Docker and Caddy. Domain requests write Caddy's routes without
the rollout lock. Every API request passes the authentication middleware first;
the metrics and log pages keep a WebSocket and a stream from Docker open.

What makes each part correct: the queue never loses or duplicates a slot, leaves
none idle and is fair; rollouts exclude each other, always leave the application
served, leave nothing behind and write only legal statuses; a cancellation that
was carried out is final; a dead release is noticed; a crash loses no release in
service and leaves no orphan; a deletion removes the runtime before the row;
custom domains follow the release and only verified ones are routed; each user
changes what is his, within his quota, and a revoked token gives nothing; a
viewer gets frames and lines in order, and nothing runs on for one who has left;
the limiter bounds both its clients and its table.

## 2. Modules

| Module | Models |
|---|---|
| `BuildSlots` | What a build queue promises: a FIFO pool of slots (abstract) |
| `BuildQueue` | `build_queue.go`: mutex, waiters' channels, contexts, both release calls |
| `MCBuildQueue` | four deployments for TLC |
| `BuildQueueProofs` | theorems about `BuildQueue`, and that it implements `BuildSlots` |
| `DeploymentStore` | the rows, one operator per SQL statement |
| `Rollout` | `deployment.go`: pipeline, rollback, stop, deletion, one action per external call |
| `DeploymentSystem` | `Rollout` composed with cancel requests, the health checker, containers that exit, crash, recovery, reconciliation |
| `MCDeploymentSystem` | names for TLC's model values |
| `DeploymentSystemProofs` | type correctness, mutual exclusion of rollouts, what each step may do to rows, routes and containers, deletions, cancelled deployments, the status diagram |
| `ZeroDowntimeProofs` | zero downtime, owned candidates, nothing left behind, one release at rest |
| `WebhookDelivery` | `github_webhook.go` with the users of `git_source.go`: a push, its repeated deliveries, the deployments made of it |
| `MCWebhookDelivery` | two applications, one push delivered twice |
| `WebhookDeliveryProofs` | a push is deployed once by each follower and by nobody else; the table is true |
| `CaddyClient` | `caddy/client.go`: the routes of Caddy and the client's requests; which host is answered by what |
| `CustomDomains` | `custom_domain.go` and the routes of rollouts and stops, one action per call, over `CaddyClient` |
| `MCCustomDomains` | two domains, three hostnames, two requests at a time |
| `CustomDomainsProofs` | only verified domains are routed, the domains follow the release, no gap, no route to a removed container |
| `Access` | `auth.go`, `api_token.go`, `authenticator.go`, the middleware: requests get identities |
| `Applications` | `app.go`, the handlers and stores of applications, values, Git deployments and installations, over `Access` |
| `MCApplications` | two users, three requests, which kinds of requests meet |
| `ApplicationsProofs` | the quota, whose rows are whose, revocation is final, only owners change anything |
| `MetricsHub` | `ws/metrics_stream.go` for one container: hub, stream goroutines, handlers |
| `LogStream` | `ws/log_stream.go`: the handler's three goroutines and the line writer |
| `RateLimiter` | `handler/middleware/ratelimit.go` |
| `MCStreams` | these three, one at a time |
| `MetricsHubProofs` | the viewers of a container share one live stream and get its frames in order, the newest always |
| `RateLimiterProofs` | the table is bounded, only the oldest window is evicted, the limit holds |

**BuildQueue.** `pc[d]` is where the goroutine of a deployment is inside and
after Acquire; `active` and `waiters` are the struct's fields; `granted` a slot
handed to a waiter (its closed channel) and not yet given back; `cancelled` the
contexts that are done. What happens under the mutex is one action (`Enqueue`,
`AbortWaiting`, `AbortGranted`, `GiveBack`, `Release`); the `select` in between is
two (`TakeSlot`, `SeeCancel`), so that a grant, a cancellation and the goroutine's
wake-up interleave freely. The release function is called twice, explicitly and
from the caller's defer; `DeferredRelease` is the second call, which `sync.Once`
makes a no-op. A goroutine that has ended stands for the next deployment.

**DeploymentStore.** `rows` and `app`. Deployments are numbers in `created_at`
order, so "newest" is the greatest. A container stands for its Docker id and
host port together and is named after the run that starts it. An UPDATE that
matches no row does nothing and reports nothing, as in SQL; only the guards the
SQL has are there.

**Rollout.** `pc[p]` is the call run `p` makes next. `containers`, `route` and
`domainRoute` are Docker's and Caddy's state. `lock` is the application's channel
in `s.rollouts`. `previous`, `target`, `after`, `shielded` are the run's
variables: the active release it read, a rollback's target, how it settles once
its candidate is gone, whether `markFailed` gets a context of its own (build timeouts).
A call made with the run's context `Works` only while the context is live, and
`Fails` when it is done or by a fault counted in `faults`. With `LostReplies`
a failing call may have taken effect (`Uncertain`). Calls the code makes with
`context.WithoutCancel` or a background context fail by a fault only.
`RunContainer` is two calls of Docker: a context that is done between them leaves
a container that is created and was never started, with or without
`LostReplies`, because the removal has the same context (`docker/client.go:145-152`).

**DeploymentSystem.** `cancelling[d]` follows the handler of a cancel request
between its calls; `scan`, `sick`, `checker` one pass of the health checker;
`boot` the start-up sequence of `main.go`; `exits` and `crashes` count what is
bounded. A crash drops every variable that lives in the process and keeps the
rows, Docker and Caddy.

**WebhookDelivery.** `push` is what GitHub says, chosen once; an *attempt* is one
HTTP request that carries it. `deliveries`, `sources` and `deployments` are the
tables; `pc`, `handling`, `todo`, `started`, `outcome` the variables of `Handle`.
The claim (`ON CONFLICT DO NOTHING`) and the two tests of the loop are what
the properties rest on. Calls use the request's context except the completion,
which uses `context.WithoutCancel`. Meanwhile users configure, delete and
switch sources; `SetAutoDeploy(true)` is two steps because it checks a row it has
read and then updates whatever row is there.

**CustomDomains.** `config` (of `CaddyClient`) is Caddy's list of routes: a PATCH
of an unknown id fails, a POST appends, and the first route with a host answers
it. `run` is the rollout or stop in
progress -- there is one, because of the rollout lock -- with its list of domains;
`request[q]` a Verify or Delete between its calls. `SwitchRoute` is two steps
(PATCH, then POST). Failing calls, cancellations and crashes are counted in
`mishaps`. A call that fails, or is cut off with its caller's context, may have been
carried out: the failing branch of each step has the call's effect and its absence.
(An effect that comes only after the caller has gone on is not modelled.)
Three ghosts name domains about which the code promises less (section 6):
- `stale`: somebody acted on what had changed since he had read it, a race;
- `strayed`: a verification left the domain routed and its row not verified, because
  its last write failed, because it was cut off by a failing switch or a crash,
  or because a re-verification found another address;
- `undeleted`: a deletion broke off after the route was gone.

A domain counts as strayed or undeleted only when it was left like that, and no other
failing call or crash makes it stale. `Trusted` domains are neither stale nor strayed.
`DomainsFollowRelease` claims nothing of the others, nor of a domain that was given
the hostname of one: the old route, first in the list, would answer.

**Access and Applications.** A request arrives, is authenticated, authorized and
handled, each database call a step. A session is a signed claim and no row; a
token is a row. Secrets are ids, and signatures are not forged. Applications are
rows that are never reused, names are; `found` is what a handler has
read and acts on later. `createMu` is the mutex of the quota. `Workloads` says
which kinds of requests are looked at together: three of the same kind of table
at a time.

**MetricsHub, LogStream, RateLimiter.** In the hub each `select` and each critical
section is a step; a viewer's channel outlives his visit and the stream its
replacement. In the log stream `writing` is the write lock, and a chunk is cut
anywhere. In the limiter the clock is read in one step (`Enter`) and the mutex
taken in another; `grants`, `promise` and `excused` are ghosts.

A definition directly above the one it varies -- `NothingRestored` above
`RestoredRoute`, `InsertedAsIdle` above `Inserted` -- is a *faulty variant*: a mistake somebody
could make in that code. No specification uses it. Putting it in the place of the
definition below must make a property fail; `PROJECT.json` lists which.

### Abstractions

- Images, log events, build logs, URLs and durations are not represented. Waiting
  for a build slot is a step of any length; `BuildQueue` says how long.
- One application. Applications share the build queue and nothing else that the
  rollouts read or write.
- In `Rollout`, one custom domain, verified before any run (or none: `HasDomain`),
  and a route switch is one step; `CustomDomains` has what that leaves out, with a
  rollout reduced to its routes, its promotion and its removals. Of several running rows,
  which a crash between promotion and removal leaves (or a promotion whose reply is lost),
  `CustomDomains` follows the newest, the one `GetActive` returns, and no other becomes active
  again; `DeploymentSystem` has the rows.
- In `Applications`, StopApp is a step that succeeds or fails.
- One container per metrics hub: streams of different containers share the mutex
  and nothing else. Docker's statistics are numbered.
- Calls merged into one step because no other actor's step can tell the
  difference, or because they only differ in which of two errors is logged:
  status and URL of the application (`PublishApp`, `StopMarkApp`, whose partial
  outcomes are kept), application route and domain route on the undo path
  (`RestorePrevious`, same), the row write and the second look for an active
  release in `markFailed` (`MarkRowFailed`), candidate container stop and remove.
- Start-up recovery and reads of the cancel flag are assumed to work. `main`
  logs a recovery error and goes on; a crash during recovery is covered.
- A container may exit by itself only where `MaxExits` allows it. Readiness may
  always fail (`AwaitReady`), whatever the container does.

## 3. Runs

| Run | Instance | What it shows |
|---|---|---|
| `build_queue` | 4 deployments, 2 slots, any cancelled at any time | Slot accounting, no idle slot, queue exact, Acquire returns, and `BuildSlots`, with its arrival order, is implemented |
| `serial` | 3 deployments, a rollback, a stop | Whatever overlaps, the routes dial a live release between any two calls; at rest exactly one release is left |
| `faults` | 2 deployments, a rollback, a deletion; one failing call with lost reply; disconnects | Rollouts exclude each other even when waiters give up; no status outside the diagram; a deletion that could not remove the container keeps the row |
| `recovery` | 3 deployments, a rollback, one failing call or one crash anywhere, health checker on | Every undo path keeps the previous release served; no crash point loses the release in service or leaves an orphan |
| `cancel` | 2 deployments, both cancelled at any time, abandoned rollback and stop | Nothing is left of an abandoned rollout but at most a container never started; a recorded candidate belongs to the lock holder; cancelled is final |
| `live` | 2 deployments, a rollback, a stop, an exiting container, health checker, fairness | Whoever waits for the lock ends, deployments conclude, a dead release is noticed |
| `webhook` | 2 applications (one reconfigured up to twice), a push delivered twice, one failing call or disconnect, one crash | One deployment per follower and delivery, exactly the followers deploy, the delivery table tells the truth, claimed deliveries are completed |
| `domains` | 2 domains of 3 hostnames, 2 requests at a time, 2 deployments, stops, one call failing before or after it was carried out, or one crash | The domains follow the release, only verified ones are routed, no removed container is dialled (with the exceptions of section 6), replacing a route leaves no gap |
| `streams` | hub: 2 viewers, 2 streams, 2 samples, channels of one frame; log: every output of up to 3 bytes on two streams; limiter: 2 clients, 2 calls at a time, limit 2, room for one client, 5 instants | Frames in order and the newest kept, lines whole, windows and table bounded, everything ends |
| `tenants` | 2 users, 3 requests, 3 applications of 2 names, 3 tokens, 1 installation, quota 1 | The quota holds, nothing changes without its owner, a revoked token is dead |
| `late_cancel`, `delete_in_flight` | small | the disagreements of section 6 |

The properties in words:

- `SlotAccounting`: `active` is the number of deployments that own a slot.
  `WorkConserving`: nobody waits beside a free slot. `NoGhostWaiter`: the queue
  holds, once each, exactly those inside Acquire without a grant.
  `AcquireReturns`: Acquire returns. `ImplementsBuildSlots`: refinement.
  The abstract queue grants its first entries, so the refinement is the arrival order.
- `RolloutsSerialized`: one run at a time between GetActive and its unlock.
- `ServedWhileRunning`: while a row is running and nobody is stopping the
  application, both routes dial a container that is up. `OneReleaseAtRest`: once
  nothing is going on, one running row, one container, both routes on it.
- `NothingLeftBehind`: at rest no candidate, no container that was ever started
  (`WasStarted`) and no route outlives its rollout.
  `CandidateHasOwner`: a recorded candidate is the lock holder's.
- `LegalTransitions`: the status diagram, with rollback (a retired row runs
  again) and the stop of a failed release added from the code.
  `CancelledIsFinal`: a cancelled row never changes, and never gets a container
  or a route.
- `DeletionCleansUpFirst`: the row goes only when the release found is gone.
- `RolloutsEnd`, `DeploymentsConclude`, `DeadReleaseNoticed`: liveness.
- `OncePerDelivery`: no two deployments of one application from one delivery.
  `DeploysFollowers`: an undisturbed delivery deploys exactly the untouched
  applications that follow its branch. `RecordIsTrue`: the delivery's status and
  its deployments agree. `DeliveriesSettle`: a claimed delivery is completed.
- `DomainsFollowRelease`: at rest, when the application's host is answered by the
  active release, so is every trusted domain whose row says active; one whose
  deletion broke off may be answered by nobody. `OnlyVerifiedRouted`: a trusted
  domain that is routed is verified, or its verification is being saved.
  `RemovedUnrouted`: a container is removed after every route to it, but for
  trusted domains only and with two exceptions (`FirstUndone`, `Unswitched`).
  `NoGap`: a host that is answered stays so until somebody means to remove it.
- `OneSharedStream`: one live stream per container, its subscribers exactly the
  viewers who have not left. `ViewersCurrent`: frames come in order, and a full
  channel costs old frames, never the newest. `LinesIntact`: the client gets the
  container's lines, per stream, whole and once. `StreamsSettle`: when the
  viewers or the client have gone, or the stream has ended, all goroutines end.
- `RateBounded`: a window admits its limit, any interval of its length twice that,
  and whoever waits for the announced time finds the window over.
  `TrackedBounded`: the table is bounded. `ActiveWindowsKept`: a running window is
  given up only for want of room, and then an oldest one.
- `QuotaHolds`: no user has more applications than the quota. `OwnRows`: values,
  deployments and installations that hang on an application are its owner's.
  `RevokedIsFinal`: a revoked token's row never changes and late requests get no
  identity. `ChangesAuthorized`: whatever changes of a user was changed
  by his session, or by his token with the scope.

**Bounds.** Two deployments are needed for one to replace another, three for a
third to be built from a snapshot taken between the two; the rollback and the
stop meet both orders of every pair. Four deployments for two slots is the
least in which two are queued (so that the order matters, and the second can leave)
while both slots are taken. Pipelines overlap at every call, hence one fault,
one crash or one exit meets every state of the others. Two faults are beyond
what the undo paths promise: they log and go on, and so does the model. The
lock, the candidate and the cancel flag relate two runs at a time. A delivery
meets only itself (`handling` is per request, statuses per delivery), so one push
in two requests has every race; two changes of a source are what it takes to
change it under a check.

Two domains are what a synchronization can do half of; two requests and a
rollout are three hands on the same route. Two streams are one and its
successor; one frame of room makes every second frame overflow. Three bytes hold
a line with its return, and a chunk that ends inside it. With room for
one client every other one evicts. Three requests are two that race and a
third that takes a name away. The constants named `Max...` and `OutputLength`
bound; nothing else does.

**Constraints.** Three runs cut off states beyond which a property is not claimed,
each because of something the code does (section 6): `OneMishap` (one fault or
crash; no health check that holds a row rolled back since it was listed),
`NothingStale` (nobody acted on outdated knowledge of a domain) and
`NobodyExcused` (no client evicted, none judged out of order). `Trusted`
and `excused` say the same inside the properties. What a failing call or a crash does
to a domain is not cut off: run `domains` goes on with one strayed domain beside the
other (`OneStrayed`), with undeleted ones, and after a first deployment that was undone or
a switch that failed (`FirstUndone`, `Unswitched`). `FirstAsked` is a symmetry:
nothing tells the two hostnames of the customer apart.

**Why `LostReplies` is off in some runs.** With it, `ServedWhileRunning` does
not hold: see `PromoteCandidate` in section 6. `NothingLeftBehind` is stated for
faults-free runs for the same reason: a clean-up whose call fails leaves its
container until the next start. `CustomDomains` has no such switch: there every
failing call may have been carried out.

**Fairness** (`FairSpec`). Each run, cancel handler and start-up step is weakly
fair: the Go scheduler runs every goroutine, every external call has a deadline
or returns. `Advanced(p)` includes taking the lock. Weak fairness is enough for
the lock although it can be taken by others in between, because the number of
runs of an instance is finite and none asks twice; Go's channel queues its
senders in order, so the code guarantees more. The ticker makes `HealthChecked` fair.
Users owe nothing: no fairness on requests, cancels, disconnects, exits or crashes.
In `WebhookDelivery` a request that has begun is handled to its end.
In `BuildQueue` the steps inside Acquire and the end of a build are fair;
cancelling is not. In `MCStreams` each stream goroutine, each handler and each
goroutine of the log stream is fair; Docker's samples and output, viewers
and pings are not. A cancelled Docker call returns, and a write to a client who
has gone fails in the end: both have deadlines in the code.

Deadlock is checked in every run but `streams`, where the hub and the log stop once
their viewers have left. `Rest` is the only stuttering step of
`DeploymentSystem` and `WebhookDelivery`: the process serves and has nothing to do;
`Served` is that of `Applications`, when all requests are answered. `BuildQueue` and
`CustomDomains` need none: a goroutine that has ended can start again, a stop can follow
a stop.

## 4. Proofs

All theorems hold for every value of the constants that satisfies the modules'
named assumptions; TLC evaluates those on each run.

- **BuildQueueProofs** (any configured limit in Nat, any set of deployments):
  `TypeCorrect`, `SlotsAccounted`, `NoIdleSlot`,
  `QueueIsExact`. None is inductive alone. The invariant is
  `IInv == TypeOK /\ WorkConserving /\ Consistent`, where `Consistent` ties the
  place of each goroutine to the queue, the grants and the counter. A lemma says what
  `DispatchLocked` returns for any queue and counter, another what
  `RemoveWaiterLocked` returns; each action cites them. `ImplementsPool` is the
  refinement: `TypeOK`, `Consistent` and the exactness of the queue say what the
  abstract holders and line are before and after each action, and each action is
  then a `Join`, a `Leave`, a `Free` or a stutter of `BuildSlots`. The abstract
  guard counts the holders, who are finitely many (part of `Consistent`).
- **DeploymentSystemProofs**, with deployments, rollbacks, stops, faults,
  cancellations, disconnects and crashes unbounded:
  - `TypeCorrect` for the composed system, with
    `ReportDecided` (a run about to report a failed application has decided on
    what to write) as the strengthening, and lemmas on each SQL
    operator. The existence of a newest row in a non-empty set comes from the
    assumption on `Deployments`, which any finite set of naturals satisfies.
  - `Serialized`, that is `Spec => []RolloutsSerialized`. The invariant `LockInv` says that a
    run in a critical stage is the one in `lock`; mutual exclusion alone is not
    inductive, since `Unwind` is also reached by runs that never had the lock and
    must leave another's alone (`LockAfter`).
  - `DeletionCleansUp`, under no assumption: the invariant `StopInv` follows a stop
    from the release it found to the row it deletes, and says that this release's
    container is gone from the call that removed it on. That it stays gone is the
    work: no other run may start or bring back that container, which follows from
    `ShapeInv` (which run may be at which stage with what in its variables), the
    lock, and the lemmas `RowsStep`, `StagesStep`, `ContainerSteps`, `RouteSteps`,
    `PreviousSteps`, which say for each variable which steps write it and what. The
    results below, and the next module, are built on them.
  - `CancelledStays` (`CancelledIsFinal`): the request and the pipeline race, and
    whichever comes first the row ends as cancelled. `RequestInv` says where the pipeline can be
    while the request is between its calls: a request that found nothing to
    interrupt has a pipeline that has not read the flag yet or has ended.
    `CancelledInv` follows a cancelled row's pipeline on its way out, `HeldInv` says that
    a release somebody has looked at (a run, a rollback, the health checker) keeps its
    container, so that it cannot be a cancelled one. The hypothesis `~Forgetful`
    excludes a crash between the cancellation of a rollout and the removal of its
    candidate, after which RecoverCandidates marks the row failed (section 6).
  - `StatusesFollow`: the row of a deployment nobody cancels follows the status diagram,
    whatever is done to other deployments, cancellations included. Where nobody cancels
    that is `StatusesLegal` (`LegalTransitions`). `StatusInv` says which statuses a row may have at each
    stage of its own pipeline, and that the release a run under the lock is about to retire
    or stop, and the target of a rollback under way, have no pipeline left that could write
    the row; the second half needs the lock (`ReleaseFound`). The hypothesis
    `~Intrusion` excludes the two writers that look at no status: a health pass
    that marks a release which is being, or has been, replaced or reactivated since it was listed (any
    other it may mark, at any time), and RecoverCandidates after a crash of a rollback whose candidate
    is on record, which marks the retired target failed. TLC checked `CancelledInv` and
    `StatusInv` on two deployments, rollback and deletion, with a fault, lost replies, health
    checks and a crash, before.
- **ZeroDowntimeProofs**: what the rollouts promise. `Served`, the invariant, is
  five parts. `OwnInv`: a recorded candidate is the lock holder's. `KindInv`: what a
  run's variables mean at its stage. `BootInv`: while the process recovers, nothing
  else runs. `Timely`: nobody past the commit point has been interrupted.
  `ServiceInv`: one clause per stage of a rollout, of a stop and of the
  recovery, which container the routes dial there and which rows may
  be running. One lemma per stage shows that the step taken there leads to
  the clause of the next.
  - `CandidatesOwned` (`CandidateHasOwner`): no lost replies, no crash, and no
    fault in the last call of the undo (`ClearWorks`); a crash or that
    fault leaves the candidate to the next start, as in the code.
  - `ZeroDowntime` (`ServedWhileRunning`): no lost replies, and `Spared` steps: no fault
    once a run has committed or is undoing, no interrupt that arrives after the commit
    point, no crash there, no container that exits by itself. Faults, interrupts,
    cancellations, timeouts and crashes before the commit point, in any number and
    together, are allowed. `Spared` is the boundary, not a convenience: TLC finds the
    property violated by a fault of a stop after it has removed the route, by a
    fault or an interrupt after the commit point that leaves two rows
    running (section 6), and by a fault in an undo.
  - `ServedUndisturbed`: the same without hypothesis on steps, for constants that
    exclude disturbances; this is run `serial` (with the health checker and
    deletions as well) for any number of runs.
  - `NothingLeft` (`NothingLeftBehind`): `TidyInv` adds that every container that was ever
    started and not removed is a
    running row's, a candidate's or about to be removed by the run that holds it,
    for each stage. It needs `Spared`, no lost replies (a start that a cancel cut off
    may then have been carried out), no health checker (a stale pass marks a
    row failed that has been rolled back to, and its container stays) and no
    deletion (a pipeline outlives it, section 6).
  - `OneRelease` (`OneReleaseAtRest`): at rest one row, one container, both routes on it,
    when nothing is disturbed, for any number of runs. Disturbances must be
    excluded because a first deployment that is undone after its domains were routed
    leaves their route (section 6); `Uninterrupted` and `DomainInv` carry it.
- **WebhookDeliveryProofs**: `DeployedOnce`, `TypeCorrect`, `TableIsTrue` and
  `FollowersDeployed`. The invariant
  `ClaimInv`: whoever works on a delivery claimed it and is the only one, what
  it has still to do has not been done, and nothing is deployed for an unclaimed delivery.
  For the table, an invariant ties the verdict an attempt will write to what it
  has deployed so far; for the followers, it says that an application
  that followed the branch when the delivery was claimed, and was left alone since, is
  still to do, being done or deployed.

- **RateLimiterProofs**, for any clients, concurrent requests, limit, window and bound:
  - `TableBounded` and `OnlyOldestEvicted` (`TrackedBounded`, `ActiveWindowsKept`). The
    lemmas say what `Bounded` leaves of any table that is at most one too large, and that
    an unexpired window it leaves out was an oldest one of too many. The second theorem
    needs the first: only a table within its bound overflows by the caller's own window.
  - `RateIsBounded` (`RateBounded`). The table has forgotten the windows that are over,
    and the bound rests on them. `RateInv` says that for each client there is a set of
    beginnings, at least a window apart, that accounts for every request that passed
    (`HadWindows`): the current window is the last of them, and while the client is not
    tracked somebody was judged after its end, so that whoever comes with an earlier time
    comes out of order and is excused. An interval meets at most two such windows
    (`TwoWindows`), each of which admitted the limit. The announced delay is a quotient
    rounded up; `PromiseKept` is that division. Passages are counted as the cardinality of
    a set of pairs, which the library's theorems on finite sets reason about.
- **MetricsHubProofs**, for any viewers, streams, visits, samples and room in a channel:
  - `OneStreamShared` (`OneSharedStream`). `ShareInv` says that the stream on the hub is the
    only live one, that its subscribers are exactly the viewers not yet released, and that
    whoever else has not been released waits on a stream that is over: the late end of a
    replaced stream finds another one on the hub and leaves it alone.
  - `ViewersUpToDate` (`ViewersCurrent`). `FrameInv` says that a frame still to be handed
    out is newer than all the stream sent that viewer before, and that the newest one is
    owed to him or the last he has. Room is made by dropping the oldest frame, and as
    long as no older stream still publishes to him nobody else takes that room.
- **ApplicationsProofs**, for any users, names, tokens, requests and kinds of requests. The
  theorems have the form `Start /\ [][Next]_vars => ...`, where `Start` is any state in which
  no request is under way and the tables are in order; the initial states of
  `MCApplications` are of that kind.
  - `QuotaNeverExceeded` (`QuotaHolds`), from `Quiet`, for any quota. The quota is not
    inductive alone: `CountsHold` adds that a creation between its count and its
    insert is the holder of the mutex, and that its count is still below the quota.
    One lemma (`Elsewhere`) covers every handler that creates nothing.
  - `RowsAreOwners` (`OwnRows`), `RevocationIsFinal` (`RevokedIsFinal`) and `OnlyOwnersChange`
    (`ChangesAuthorized`), from `AtRest`. They share one invariant, `RowsInv`: at each stage
    of each kind of request (`RequestGood`), what the handler has read is still true or the
    row is gone. The identity is the one its credential gives, an application found is
    the caller's own or deleted (ids are not reused), an installation checked is still the
    caller's (nobody takes one over), and no request whose credential was dead when it arrived
    is past authentication. It needs the uniqueness of names of existing applications and of
    users, which the schema's UNIQUE gives. One lemma per handler shows what the step
    leaves of its own request and of everybody else's.
    TLC checked `RowsInv` on `MCApplications` before.

- **CustomDomainsProofs** (any domains, hostnames, requests, releases and mishaps).
  What Caddy's requests do is first brought down to one set per record, the
  releases its routes dial (`DialsOf`), whatever the order of the list and the copy
  a PATCH finds. Three invariants, each on the one before:
  - `Tracked`: whose host a route has, that a trusted record has at most one and none
    after its deletion, and what `verified` and `status` may say together. It gives
    `VerifiedRouted` (`OnlyVerifiedRouted`) and, with the one step that shortens the list,
    `NoGaps` (`NoGap`), both without any hypothesis. What the first excepts are the
    stale and the strayed domains: it says that failing calls and crashes
    leave a routed, unverified domain in the three ways `strayed` names and in no other.
  - `Followed` adds, for each stage of a rollout, an undo or a stop, which of the running
    releases routes may dial: the records already written, those still listed, the
    application. It gives `RoutedStaysUp` (`RemovedUnrouted`).
  - `Claiming` adds what a record that says `active`, or is about to, is routed to. It
    gives `DomainsFollow` (`DomainsFollowRelease`); that the first route of the host is
    the record's own rests on the UNIQUE hostnames and on `OwnHostRefused`, that no
    hostname a user may ask for is the application's (`normalizeHostname`).

  Failing calls, each carried out or not, cancellations and crashes (in an undo too) are
  allowed in any number. The last two theorems have two hypotheses on steps.
  `UndoWorks`: no call of an undo or a recovery fails. The code logs such a failure and
  removes the candidate all the same, so that a domain may go on dialling it: TLC
  shows it with two mishaps. `LostLast`: after a promotion that was committed and whose
  reply was lost nothing else fails. Such a deployment is undone, and its container
  removed, although it is the active release (section 6): two rows are running then, of
  which the module follows one. `RunInv` therefore says
  that the active release runs, and is the one an undo puts back (`Steady`), or that no
  mishap is left. With at most one mishap both hypotheses always hold (`OneMishap`), which
  gives both properties without them (`OneMishapRouted`, `OneMishapFollowed`): run `domains`
  for any number of domains, requests and releases.

The hypotheses of `ZeroDowntimeProofs` are on constants the instances set the same way
(`LostReplies`, `HealthOn`, `Deletes` ...) or on steps (`Spared`, `ClearWorks`), which
ordinary behaviours satisfy, as they do `~Forgetful` and `~Intrusion`; runs `recovery` and `cancel` go beyond them at
single points that one fault or one crash can reach.

Two assumptions on constants are only about how TLA+ values are told apart:
`RowsAssumption` (no row is the value that stands for none, no token's secret is a signed
session) and `GoneAssumption` (no application's row is the mark of a deleted one).

Only model-checked: liveness (`AcquireReturns`, `RolloutsEnd`, `DeploymentsConclude`,
`DeadReleaseNoticed`, `DeliveriesSettle`, `StreamsSettle`), since fairness is out of the
prover's reach, and `LinesIntact`, which compares the client's lines with the container's
output filtered by stream and cut at its sorted newlines: what those library operators return
for every sequence takes induction over data, which the provers cannot instantiate. Every
other property of a passing run is a theorem.

## 5. Not modelled

Images: a row names its image, which is assumed to stay. The tag is the
application's name and a time in seconds (`deployment.go:238`), and `pruneImages`
may remove a tag that a retained row shares; both are listed as hazards. Retry of
a Git deployment, paging and filters of the lists, and whatever only reads. HTTP
decoding, hashing, encryption, Git and tar I/O, readiness, configuration, the
CLI and the dashboard have no state whose interleavings matter, or are pure
input and output.

## 6. Where code and documentation disagree

Two runs exhibit one each:

- `late_cancel`: the interrupt of a cancel accepted before the promotion may arrive
  after it. Removal of the previous container and its `superseded` status
  use the cancelled context and fail (`deployment.go:558-567`); the container
  is orphaned and two rows stay running. The comment at 598-601 and README.md:652 say
  a promoted container cannot be orphaned.
- `delete_in_flight`: a pipeline in flight survives the deletion of its
  application and starts a container for it (`handler/app.go:93-97`); README.md:449
  says routes and runtime are removed.

Others follow from the same models when the constants of a run are changed, a
constraint is taken away or an exception is dropped from a property:

- A cancel that interrupts the pipeline just before it writes `building` makes that
  write fail, and the pipeline returns without finishing the cancellation
  (`deployment.go:330-332`). The row stays `cancel_requested`; README.md:631 says it
  is finalized as cancelled.
- With `Cancels`, `LegalTransitions` fails: status writes are unconditional
  (`sql/queries/deployment.sql:102-105`) and may overwrite `cancel_requested`
  with building, failed or running.
- With `HealthOn`, `LegalTransitions` fails: a pass whose list predates a rollout
  marks a superseded row failed (`health/checker.go:126-130`).
- With a build that fails while another is published, the application is left
  `failed` beside a running release: `markFailed` reads and writes outside the
  lock (`deployment.go:984-987`).
- With `LostReplies` and a cancel or a fault, `ServedWhileRunning` fails: a
  promotion that was committed, but whose reply was lost, is undone
  (`deployment.go:525-536`).
- With `Cancels` and a crash, `CancelledIsFinal` fails: RecoverCandidates turns a
  cancelled row that still has a candidate into a failed one (`deployment.go:652`).
- With a crash during a rollback, `LegalTransitions` fails: RecoverCandidates marks
  its target, a retired row, failed (`deployment.go:652`).
- With a fault and a crash, `ServedWhileRunning` fails: GetActive returns the newest
  `created_at`, not the release promoted last (`deployment.sql:32-36`).
- Without the second half of `OneMishap`, `ServedWhileRunning` fails after a crash: a
  pass of the health checker that holds a row from before it was rolled back to
  marks the live release failed (`health/checker.go:66`), and the reconciliation
  removes its container.
- Without `WasStarted`, `NothingLeftBehind` fails in run `cancel`: a cancel between
  ContainerCreate and ContainerStart makes the start fail and, with the same
  context, the removal after it (`docker/client.go:145-152`). The created container stays
  until the reconciliation of the next start, which lists stopped containers too.
- Without `stale`, the properties of `CustomDomains` fail without any failing call:
  `Verify` routes to a release that is being replaced, or to a domain that is being
  deleted (`custom_domain.go:104`).
- Without `strayed`, `OnlyVerifiedRouted` fails with one failing call or one crash. `Verify`
  writes the route and then the row, both with the request's context: a disconnect after
  the switch was carried out, a failing update or a crash leaves a routed domain whose
  `verified_at` is NULL (104-113). A re-verification that finds another address
  leaves one without any failure, because it clears `verified_at` and keeps the route
  (94-101). No stop, deletion or rollout looks at such a route again (130, 146, 166).
- Without `undeleted`, `DomainsFollowRelease` fails with one failing call: a deletion that
  is cut off after Caddy removed the route, or whose DELETE of the row fails, leaves
  the domain active and unrouted (131-137), until the next rollout or stop.
- Without `FirstUndone`, `RemovedUnrouted` fails: a first deployment that is undone
  removes the application's route and leaves the domains' (`deployment.go:499-509`).
- Without `Unswitched`, `RemovedUnrouted` fails with one mishap: a switch of the
  application's route that Caddy carried out, and that was cut off by a cancel or
  timed out, is taken for one that was not; the candidate is removed and nothing is
  put back (`deployment.go:483-492`). The application is not answered until the
  next rollout. With `LostReplies` `Rollout` has the same
  case, and `ServedWhileRunning` fails there.
- Without its exception, `OwnRows` fails: an application deleted, and its name taken
  by another user, between the two look-ups of a webhook or a Git deployment gives the
  new application a deployment that builds the old one's source
  (`github_webhook.go:101`, `git_source.go:174`).
- Without `excused`, `RateBounded` fails: a request that read the clock before
  another and is judged after it opens a second window (`ratelimit.go:57-61`), and
  so does a client that was evicted (87).

In `WebhookDelivery`, a crash between claim and completion leaves a delivery
`received` for good, and its repetition is a duplicate; `SetAutoDeploy` can leave
auto-deploy on for a public source (the error of `domain/errors.go:38` says it
"requires a GitHub App repository"). Neither contradicts a promise of README.md.

## 7. Plan

1. Image retention: tags shared between rows against `pruneImages`, with the
   rollback that needs the image; Retry of Git deployments.
2. An abstract zero-downtime specification implemented by `Rollout`, and
   `CustomDomains` composed with it.
3. Proofs: the diagram of a deployment that is cancelled, which has the additional
   transitions of section 6.
