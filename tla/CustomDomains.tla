---------------------------- MODULE CustomDomains ----------------------------
(***************************************************************************)
(* The life of the custom domains of one application (service/             *)
(* custom_domain.go): requests that create, verify and delete them, while  *)
(* rollouts and stops (service/deployment.go), which hold the rollout lock *)
(* and therefore follow one another, switch and remove their routes.  The  *)
(* requests take no lock.  Module Rollout has the rollouts in detail; here *)
(* a rollout is the order in which it writes routes, promotes its release  *)
(* and removes containers.                                                 *)
(***************************************************************************)
EXTENDS CaddyClient

CONSTANTS
    Domains,        \* the ids of the records, in created_at order
    Hostnames,      \* what users ask for, as sequences of lower-case labels
    BaseDomain,     \* the labels of BASE_DOMAIN
    Requests,       \* concurrent HTTP requests on domains
    MaxReleases,    \* bounds the deployments
    MaxMishaps      \* bounds failing calls, cancellations and crashes

\* created_at orders the records: of any of them one is the first.
ASSUME DomainsAssumption ==
    /\ Domains \subseteq Nat \ {0}
    /\ \A ds \in SUBSET Domains : ds # {} => \E d \in ds : \A e \in ds : d <= e
ASSUME NamesAssumption == BaseDomain \in Seq(STRING)
ASSUME BoundsAssumption == MaxReleases \in Nat /\ MaxMishaps \in Nat

VARIABLES
    domains,        \* the table custom_domains
    active,         \* the release GetActive returns, 0 if none
    up,             \* the releases whose container runs
    released,       \* the number of deployments begun
    run,            \* the rollout or stop that holds the lock
    request,        \* the requests in progress
    mishaps,        \* the calls that failed, cancellations and crashes so far
    \* What the code does not keep: the domains
    stale,          \* for which somebody used what had changed since it was read
    strayed,        \* that a verification left routed and not verified
    undeleted       \* whose deletion broke off when the route was gone

ghosts == <<stale, strayed, undeleted>>
vars == <<config, domains, active, up, released, run, request, mishaps, ghosts>>
rest == <<config, active, up, released, run, mishaps>>

Releases == 1..MaxReleases
NoRelease == 0
App == 0                                        \* the id of the app's own route
AppHost == <<"app">> \o BaseDomain

Absent == [status |-> "absent", verified |-> FALSE, host |-> << >>]
Exists(d) == domains[d].status \notin {"absent", "deleted"}

Idle == [pc |-> "idle", kind |-> "none", dial |-> NoRelease,
         candidate |-> NoRelease, previous |-> NoRelease, todo |-> {}]
NoRequest == [pc |-> "idle", domain |-> App, dial |-> NoRelease]

Init ==
    /\ EnsureBase
    /\ domains = [d \in Domains |-> Absent]
    /\ active = NoRelease
    /\ up = {}
    /\ released = 0
    /\ run = Idle
    /\ request = [q \in Requests |-> NoRequest]
    /\ mishaps = 0
    /\ stale = {} /\ strayed = {} /\ undeleted = {}

\* normalizeHostname: at least two labels, neither the base domain nor under it.
NormalizeHostname(host) == Len(host) >= 2 /\ ~IsSuffix(BaseDomain, host)

\* UpdateCustomDomainVerification: by id, unconditional, no row is no error.
\* `verified` says whether verified_at is a time or NULL.
UpdateVerification(d, status, verified) ==
    domains' = IF Exists(d)
               THEN [domains EXCEPT ![d].status = status, ![d].verified = verified]
               ELSE domains

DomainRoute(d, dial) == RouteOf(d, domains[d].host, dial)
AppRoute(dial) == RouteOf(App, AppHost, dial)

\* A call that fails, or is cut off with the context of its caller, may have
\* been carried out: in the steps below what follows Mishap has both cases.
Mishap == mishaps < MaxMishaps /\ mishaps' = mishaps + 1
NoMishap == UNCHANGED mishaps

Overlooked == stale' = stale \cup {d \in Domains \ strayed : Known(d) /\ ~domains[d].verified}
Unseen(d, changed) == stale' = IF changed THEN stale \cup {d} ELSE stale

\* Verifications that end in a step, and deletions that break off in it.
LeavesStrayed(ds) == strayed' = strayed \cup {d \in ds : Known(d)' /\ ~domains'[d].verified}
LeavesUndeleted(ds) == undeleted' = undeleted \cup {d \in ds : ~Known(d)'}

-----------------------------------------------------------------------------
(* The rollout: `run` is inside SwitchRoute ("app", "appNew"), SyncRoutes  *)
(* ("list", "item", "itemNew", "itemSave"), RemoveRoute ("remove"),        *)
(* RemoveRoutes ("listStop", "unroute", "unrouteSave"), or at a promotion  *)
(* or a container removal.                                                 *)

Go(pc) == run' = [run EXCEPT !.pc = pc]

Deploy ==
    /\ run.pc = "idle" /\ released < MaxReleases
    /\ released' = released + 1
    /\ up' = up \cup {released'}
    /\ run' = [Idle EXCEPT !.kind = "deploy", !.pc = "app", !.dial = released',
                           !.candidate = released', !.previous = active]
    /\ UNCHANGED <<config, domains, active, request, mishaps, ghosts>>

Restoring(kind, release) ==
    [run EXCEPT !.kind = kind, !.dial = release, !.todo = {},
                !.pc = IF release = NoRelease THEN "remove" ELSE "app"]

\* What a failure leads to: a deployment puts the previous release back, an
\* undo or a recovery logs it and goes on at `next`, a stop gives up.
AfterFailure(next) ==
    run' = CASE run.kind = "deploy" -> Restoring("undo", run.previous)
             [] run.kind = "stop"   -> Idle
             [] OTHER               -> [run EXCEPT !.pc = next, !.todo = {}]

\* A switch that fails before any other route was written has nothing to undo.
SwitchFails ==
    IF run.kind = "deploy" THEN Go("discard") ELSE Go("list")

SwitchApp ==
    /\ run.pc = "app"
    /\ \/ TryPatch(AppRoute(run.dial), Go("list"), Go("appNew")) /\ NoMishap
       \/ Mishap /\ SwitchFails /\ (Patch(AppRoute(run.dial)) \/ UNCHANGED config)
    /\ UNCHANGED <<domains, active, up, released, request, ghosts>>

CreateAppRoute ==
    /\ run.pc = "appNew"
    /\ \/ Post(AppRoute(run.dial)) /\ Go("list") /\ NoMishap
       \/ Mishap /\ SwitchFails /\ (Post(AppRoute(run.dial)) \/ UNCHANGED config)
    /\ UNCHANGED <<domains, active, up, released, request, ghosts>>

SyncedAlways(d) == Exists(d)
SyncedInactive(d) == Exists(d) /\ domains[d].verified /\ domains[d].status = "verified"

\* The records SyncRoutes does not skip.
Synced(d) == Exists(d) /\ domains[d].verified /\ domains[d].status # "pending"

AfterSync == IF run.kind = "deploy" THEN "promote" ELSE "discard"
NextItem(todo) == run' = [run EXCEPT !.todo = todo,
                                     !.pc = IF todo = {} THEN AfterSync ELSE "item"]
First(todo) == CHOOSE d \in todo : \A e \in todo : d <= e

ListDomains ==
    /\ run.pc = "list"
    /\ \/ NextItem({d \in Domains : Synced(d)}) /\ NoMishap
       \/ Mishap /\ AfterFailure("discard")
    /\ Overlooked
    /\ UNCHANGED <<config, domains, active, up, released, request, strayed, undeleted>>

\* A failing switch is recorded in the domain's row, unless the context that
\* interrupted it prevents that too.
SyncFails(d, Switched) ==
    /\ Mishap
    /\ \/ UpdateVerification(d, "error", TRUE)
       \/ run.kind = "deploy" /\ UNCHANGED domains
    /\ AfterFailure("discard")
    /\ Switched \/ UNCHANGED config

SyncDomain ==
    LET d == First(run.todo) IN
    /\ run.pc = "item"
    /\ \/ /\ TryPatch(DomainRoute(d, run.dial), Go("itemSave"), Go("itemNew"))
          /\ NoMishap /\ UNCHANGED domains
       \/ SyncFails(d, Patch(DomainRoute(d, run.dial)))
    /\ Unseen(d, ~Synced(d))
    /\ UNCHANGED <<active, up, released, request, strayed, undeleted>>

CreateSyncedRoute ==
    LET d == First(run.todo) IN
    /\ run.pc = "itemNew"
    /\ \/ /\ Post(DomainRoute(d, run.dial)) /\ Go("itemSave")
          /\ NoMishap /\ UNCHANGED domains
       \/ SyncFails(d, Post(DomainRoute(d, run.dial)))
    /\ Unseen(d, ~Synced(d) \/ Known(d))
    /\ UNCHANGED <<active, up, released, request, strayed, undeleted>>

SaveSynced ==
    LET d == First(run.todo) IN
    /\ run.pc = "itemSave"
    /\ \/ UpdateVerification(d, "active", TRUE) /\ NextItem(run.todo \ {d}) /\ NoMishap
       \/ Mishap /\ AfterFailure("discard") /\ (UpdateVerification(d, "active", TRUE) \/ UNCHANGED domains)
    /\ Unseen(d, ~Synced(d))
    /\ UNCHANGED <<config, active, up, released, request, strayed, undeleted>>

Promote ==
    /\ run.pc = "promote"
    /\ \/ active' = run.candidate /\ Go("retire") /\ NoMishap
       \/ Mishap /\ AfterFailure("discard") /\ active' \in {active, run.candidate}
    /\ UNCHANGED <<config, domains, up, released, request, ghosts>>

\* The previous container goes after the promotion, the candidate's after an undo.
Retire ==
    /\ run.pc = "retire"
    /\ up' = up \ {run.previous}
    /\ run' = Idle
    /\ UNCHANGED <<config, domains, active, released, request, mishaps, ghosts>>

Discard ==
    /\ run.pc = "discard"
    /\ up' = up \ {run.candidate}
    /\ run' = Idle
    /\ UNCHANGED <<config, domains, active, released, request, mishaps, ghosts>>

Stop ==
    /\ run.pc = "idle"
    /\ run' = [Idle EXCEPT !.kind = "stop", !.pc = "remove"]
    /\ UNCHANGED <<config, domains, active, up, released, request, mishaps, ghosts>>

AfterRemoveHalt == IF run.kind = "stop" THEN "halt" ELSE "discard"
AfterRemove == IF run.kind = "stop" THEN "listStop" ELSE "discard"

RemoveAppRoute ==
    /\ run.pc = "remove"
    /\ \/ Delete(App) /\ Go(AfterRemove) /\ NoMishap
       \/ Mishap /\ AfterFailure("discard") /\ (Delete(App) \/ UNCHANGED config)
    /\ UNCHANGED <<domains, active, up, released, request, ghosts>>

NextUnrouted(todo) == run' = [run EXCEPT !.todo = todo,
                                         !.pc = IF todo = {} THEN "halt" ELSE "unroute"]

ListRouted ==
    /\ run.pc = "listStop"
    /\ \/ NextUnrouted({d \in Domains : Exists(d) /\ domains[d].verified}) /\ NoMishap
       \/ Mishap /\ AfterFailure("halt")
    /\ Overlooked
    /\ UNCHANGED <<config, domains, active, up, released, request, strayed, undeleted>>

RemoveDomainRoute ==
    LET d == First(run.todo) IN
    /\ run.pc = "unroute"
    /\ \/ Delete(d) /\ Go("unrouteSave") /\ NoMishap
       \/ Mishap /\ AfterFailure("halt") /\ (Delete(d) \/ UNCHANGED config)
    /\ UNCHANGED <<domains, active, up, released, request, ghosts>>

SaveRemoved ==
    LET d == First(run.todo) IN
    /\ run.pc = "unrouteSave"
    /\ \/ UpdateVerification(d, "verified", TRUE) /\ NextUnrouted(run.todo \ {d}) /\ NoMishap
       \/ Mishap /\ AfterFailure("halt") /\ (UpdateVerification(d, "verified", TRUE) \/ UNCHANGED domains)
    /\ Unseen(d, ~domains[d].verified \/ Known(d))
    /\ UNCHANGED <<config, active, up, released, request, strayed, undeleted>>

\* The active release's container goes, then its row is no longer running.
Halt ==
    /\ run.pc = "halt"
    /\ up' = up \ {active}
    /\ active' = NoRelease
    /\ run' = Idle
    /\ UNCHANGED <<config, domains, released, request, mishaps, ghosts>>

InRequest(q, d, pc) == request[q].domain = d /\ request[q].pc = pc

\* The process dies and starts again.  A candidate that is recorded, that is
\* one that was not promoted, makes RecoverCandidates put the active release
\* back.  The reconciliation removes the containers no running row refers to:
\* the previous release's still does until its removal.
Crash ==
    /\ Mishap
    /\ request' = [q \in Requests |-> NoRequest]
    /\ IF run.kind \in {"deploy", "undo", "recover"} /\ run.candidate # active
       THEN run' = Restoring("recover", active) /\ UNCHANGED up
       ELSE run' = Idle /\ up' = up \cap {active, run.previous}
    /\ UNCHANGED <<config, domains, active, released, stale>>
    /\ LeavesStrayed({d \in Domains : \E q \in Requests : InRequest(q, d, "persist")})
    /\ LeavesUndeleted({d \in Domains : \E q \in Requests : InRequest(q, d, "drop")})

-----------------------------------------------------------------------------
(* The requests.                                                           *)

Create(d, host) ==
    /\ run.kind # "recover"
    /\ domains[d].status = "absent" /\ \A e \in Domains : e < d => domains[e] # Absent
    /\ NormalizeHostname(host)
    /\ \A e \in Domains : Exists(e) => domains[e].host # host       \* UNIQUE
    /\ domains' = [domains EXCEPT ![d] = [status |-> "pending", verified |-> FALSE, host |-> host]]
    /\ UNCHANGED <<rest, request, ghosts>>

\* Both handlers read the record first.
Begin(q, d, pc) ==
    /\ request[q].pc = "idle" /\ run.kind # "recover"
    /\ Exists(d)
    /\ request' = [request EXCEPT ![q] = [pc |-> pc, domain |-> d, dial |-> NoRelease]]
    /\ UNCHANGED <<rest, domains, ghosts>>

BeginVerify(q, d) == Begin(q, d, "lookup")
BeginDelete(q, d) == Begin(q, d, IF domains[d].verified THEN "unroute" ELSE "drop")

GoRequest(q, pc) == request' = [request EXCEPT ![q].pc = pc]
EndRequest(q) == request' = [request EXCEPT ![q] = NoRequest]

\* LookupHost fails, or the addresses do not contain PUBLIC_IP.  Nobody looks
\* whether the row could be written.
LookupFails(q) ==
    LET d == request[q].domain IN
    /\ request[q].pc = "lookup"
    /\ \/ UpdateVerification(d, "error", FALSE) /\ NoMishap
       \/ Mishap /\ UNCHANGED domains
    /\ EndRequest(q)
    /\ UNCHANGED <<config, active, up, released, run, stale, undeleted>>
    /\ LeavesStrayed({d})

\* The addresses match; then GetActive, whose failure counts as no release.
LookupMatches(q) ==
    /\ request[q].pc = "lookup"
    /\ \E found \in {active, NoRelease} :
         /\ IF found = active THEN NoMishap ELSE Mishap
         /\ request' = [request EXCEPT ![q].dial = found,
                                       ![q].pc = IF found = NoRelease THEN "persist" ELSE "route"]
    /\ UNCHANGED <<config, active, up, released, run, domains, ghosts>>

\* What Verify read of the release no longer holds, or is about to change.
Outdated(q) == request[q].dial # active \/ run.pc # "idle"

\* The error is recorded with the request's own context, which may be what
\* interrupted the switch; nobody looks whether that worked.
RouteFails(q, Switched) ==
    /\ Mishap
    /\ UpdateVerification(request[q].domain, "error", TRUE) \/ UNCHANGED domains
    /\ EndRequest(q)
    /\ Switched \/ UNCHANGED config
    /\ LeavesStrayed({request[q].domain})

RouteDomain(q) ==
    LET d == request[q].domain IN
    /\ request[q].pc = "route"
    /\ \/ /\ TryPatch(DomainRoute(d, request[q].dial), GoRequest(q, "persist"), GoRequest(q, "add"))
          /\ NoMishap /\ UNCHANGED <<domains, strayed>>
       \/ RouteFails(q, Patch(DomainRoute(d, request[q].dial)))
    /\ Unseen(d, Outdated(q) \/ ~Exists(d))
    /\ UNCHANGED <<active, up, released, run, undeleted>>

AddDomainRoute(q) ==
    LET d == request[q].domain IN
    /\ request[q].pc = "add"
    /\ \/ /\ Post(DomainRoute(d, request[q].dial)) /\ GoRequest(q, "persist")
          /\ NoMishap /\ UNCHANGED <<domains, strayed>>
       \/ RouteFails(q, Post(DomainRoute(d, request[q].dial)))
    /\ Unseen(d, Outdated(q) \/ ~Exists(d) \/ Known(d))
    /\ UNCHANGED <<active, up, released, run, undeleted>>

\* Of the two writes of a verification this is the second: the route, the
\* first, is out of date if a stop or a deletion has removed it meanwhile.
Persist(q) ==
    LET d == request[q].domain
        unrouted == request[q].dial # NoRelease /\ ~Known(d)
        status == IF request[q].dial = NoRelease THEN "verified" ELSE "active"
    IN
    /\ request[q].pc = "persist"
    /\ \/ /\ UpdateVerification(d, status, TRUE) /\ (NoMishap \/ Mishap)
          /\ Unseen(d, Outdated(q) \/ unrouted)
       \/ Mishap /\ UNCHANGED <<domains, stale>>
    /\ EndRequest(q)
    /\ UNCHANGED <<config, active, up, released, run, undeleted>>
    /\ LeavesStrayed({d})

RemoveRouteFirst(q) ==
    LET d == request[q].domain IN
    /\ request[q].pc = "unroute"
    /\ \/ Delete(d) /\ GoRequest(q, "drop") /\ NoMishap /\ UNCHANGED undeleted
       \/ Mishap /\ EndRequest(q) /\ (Delete(d) \/ UNCHANGED config) /\ LeavesUndeleted({d})
    /\ UNCHANGED <<domains, active, up, released, run, stale, strayed>>

Drop(q) ==
    LET d == request[q].domain IN
    /\ request[q].pc = "drop"
    /\ UNCHANGED <<config, active, up, released, run, strayed>>
    /\ \/ /\ domains' = [domains EXCEPT ![d].status = "deleted", ![d].verified = FALSE]
          /\ NoMishap \/ Mishap
          /\ Unseen(d, Known(d) /\ d \notin strayed) /\ UNCHANGED undeleted
       \/ Mishap /\ UNCHANGED <<domains, stale>> /\ LeavesUndeleted({d})
    /\ EndRequest(q)

-----------------------------------------------------------------------------
RolloutStep ==
    \/ Deploy \/ SwitchApp \/ CreateAppRoute \/ ListDomains \/ SyncDomain
    \/ CreateSyncedRoute \/ SaveSynced \/ Promote \/ Retire \/ Discard
    \/ Stop \/ RemoveAppRoute \/ ListRouted \/ RemoveDomainRoute \/ SaveRemoved \/ Halt

Handler(q) ==
    \/ LookupFails(q) \/ LookupMatches(q) \/ RouteDomain(q) \/ AddDomainRoute(q)
    \/ Persist(q) \/ RemoveRouteFirst(q) \/ Drop(q)

User ==
    \/ \E d \in Domains, host \in Hostnames : Create(d, host)
    \/ \E q \in Requests, d \in Domains : BeginVerify(q, d) \/ BeginDelete(q, d)

Next == RolloutStep \/ User \/ Crash \/ \E q \in Requests : Handler(q)

Spec == Init /\ [][Next]_vars
-----------------------------------------------------------------------------
AtRest == run.pc = "idle" /\ \A q \in Requests : request[q].pc = "idle"
Trusted == Domains \ (stale \cup strayed)

\* "Verified custom domains follow the same active container as the default
\* subdomain" (custom_domain.go:25): whenever nothing is going on and the
\* application's own host is answered by the active release, so is the host
\* of every domain whose row says active, whatever deployments, undone
\* rollouts, stops, failing calls, crashes, verifications and deletions came
\* before.  A domain whose deletion broke off after its route was gone may not
\* be answered at all, but never by another release.  Not claimed for a domain
\* somebody handled with what he had read too early or that a verification
\* left astray, nor for one whose hostname such a domain had before it.
DomainsFollowRelease ==
    AtRest /\ active # NoRelease /\ Served(AppHost) = {active} =>
        \A d \in Trusted :
            domains[d].status = "active" /\ (\A e \in Domains \ Trusted : domains[e].host # domains[d].host)
                => \/ Served(domains[d].host) = {active}
                   \/ d \in undeleted /\ Served(domains[d].host) = {}

\* Only DNS-verified domains are routed: a route in Caddy is of a record that
\* is verified, or of one whose verification has just matched and is about to
\* be saved.  In particular nothing is left of a domain that was deleted.  A
\* route that is of neither was left by a verification that could not save
\* the row, was cut off by a crash, or found that the DNS no longer matches:
\* `strayed` names these three, and no other failure leaves one.
OnlyVerifiedRouted ==
    \A d \in Trusted : Known(d) =>
        \/ domains[d].verified
        \/ \E q \in Requests : request[q].domain = d /\ request[q].pc = "persist"

\* A first deployment that is undone, at run time or by the recovery, has no
\* release to put back: the domains it has already routed stay where they are
\* (deployment.go:499, 643).
FirstUndone == run.kind \in {"undo", "recover"} /\ run.previous = NoRelease

\* A deployment whose switch of the application's route failed removes its
\* candidate, without asking whether Caddy had switched (deployment.go:483-492).
Unswitched(id) == id = App /\ run.kind = "deploy" /\ run.pc = "discard"

\* A container goes only once nothing dials it: the rollout switches every
\* route, and the stop removes them, before it removes the container.
RemovedUnrouted ==
    [][\A r \in up \ up' : \A i \in DOMAIN config : config[i].dial = r =>
           config[i].id \in stale \cup strayed \/ FirstUndone \/ Unswitched(config[i].id)]_vars

\* "Replaces an existing route in one request" (client.go:90): a host that is
\* answered goes on being answered until a step whose purpose is to remove it.
NoGap ==
    [][\A h \in Hostnames \cup {AppHost} :
           Served(h) # {} /\ Served(h)' = {} =>
               \/ run.pc \in {"remove", "unroute"}
               \/ \E q \in Requests : request[q].pc = "unroute"]_vars
=============================================================================
