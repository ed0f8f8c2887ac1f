---------------------------- MODULE Applications -----------------------------
(***************************************************************************)
(* Applications and what belongs to them, and who may touch them: the      *)
(* handlers of applications, environment variables, Git deployments and    *)
(* GitHub installations behind the middleware of Access.  Handlers find an *)
(* application by its name and change it by its id later on; meanwhile it  *)
(* may be deleted, and its name be taken by another user.                  *)
(***************************************************************************)
EXTENDS Access

CONSTANTS
    MaxApps, AppNames,
    InstallationIds,
    Gone,               \* a row that was deleted
    MaxAppsPerUser,     \* the quota; 0 disables it
    Workloads           \* bounds the kinds of requests of one behaviour

ASSUME QuotaAssumption == MaxAppsPerUser \in Nat /\ MaxApps \in Nat

VARIABLES
    apps,           \* the table apps: Nobody (not yet), a row, or Gone, by id
    createMu,       \* AppService.createMu: the request that holds it, or Nobody
    env,            \* the table env_vars: an application and who set the value
    deployments,    \* the table deployments: the application, the application
                    \* whose Git source is built, and on whose behalf
    installations,  \* the table github_installations: each one's owner
    states          \* the signed states of installation flows, in the browsers

appVars == <<apps, createMu, env, deployments, installations, states>>
vars == <<accessVars, appVars>>

AppIds == 1..MaxApps
AppRows == [name : AppNames, owner : UserIds, installation : InstallationIds \cup {Nobody}]

ASSUME GoneAssumption == Gone # Nobody /\ Gone \notin AppRows /\ Nobody \notin AppRows

Exists(a) == apps[a] \notin {Nobody, Gone}

\* The queries have a variant ForUser, for a context with an identity.
Visible(a, u) == Exists(a) /\ (u = Nobody \/ apps[a].owner = u)

ByName(name, u) == {a \in AppIds : Visible(a, u) /\ apps[a].name = name}
Count(u) == Cardinality({a \in AppIds : Visible(a, u)})

App(r) == request[r].found.app

-----------------------------------------------------------------------------
(* AppService.Create.                                                      *)

MuFree == createMu = Nobody

Unlocked(r) == createMu' = IF createMu = r THEN Nobody ELSE createMu

OverQuota(u) == Count(u) > MaxAppsPerUser

AtQuota(u) == Count(u) >= MaxAppsPerUser

\* Without a quota there is nothing to count and no lock to take.
BeginCreate(r) ==
    /\ Asks(r, "createApp", "handler")
    /\ IF MaxAppsPerUser = 0 THEN Step(r, "insert") /\ UNCHANGED createMu
       ELSE MuFree /\ createMu' = r /\ Step(r, "count")
    /\ UNCHANGED <<apps, env, deployments, installations, states>>

CountApps(r) ==
    /\ Asks(r, "createApp", "count")
    /\ IF AtQuota(Who(r))
       THEN Answer(r) /\ Unlocked(r)
       ELSE Step(r, "insert") /\ UNCHANGED createMu
    /\ UNCHANGED <<apps, env, deployments, installations, states>>

\* The name is unique among the applications of all users.
InsertApp(r) ==
    LET name == request[r].about IN
    /\ Asks(r, "createApp", "insert")
    /\ IF ByName(name, Nobody) # {} THEN UNCHANGED apps
       ELSE \E a \in AppIds :
              /\ apps[a] = Nobody /\ \A b \in AppIds : b < a => apps[b] # Nobody
              /\ apps' = [apps EXCEPT ![a] =
                    [name |-> name, owner |-> Who(r), installation |-> Nobody]]
    /\ Answer(r) /\ Unlocked(r)
    /\ UNCHANGED <<env, deployments, installations, states>>

\* A query fails: the deferred unlock still runs.
CreateFails(r) ==
    /\ request[r].op = "createApp" /\ request[r].pc \in {"count", "insert"}
    /\ Answer(r) /\ Unlocked(r)
    /\ UNCHANGED <<apps, env, deployments, installations, states>>

Create(r) == BeginCreate(r) \/ CountApps(r) \/ InsertApp(r) \/ CreateFails(r)

\* The lists and the capacity snapshot only read.
ListApps(r) ==
    /\ Asks(r, "listApps", "handler")
    /\ Answer(r)
    /\ UNCHANGED appVars

-----------------------------------------------------------------------------
(* The handlers that resolve a name first.                                 *)

Resolving == {"deleteApp", "stopApp", "setEnv", "deployGit", "configure"}
NameAsked(r) == IF request[r].op = "configure" THEN request[r].about.name ELSE request[r].about

ResolveApp(r) ==
    /\ request[r].op \in Resolving /\ request[r].pc = "handler"
    /\ IF ByName(NameAsked(r), Who(r)) = {} THEN Answer(r)
       ELSE \E a \in ByName(NameAsked(r), Who(r)) :
              Found(r, "resolved", [app |-> a, name |-> NameAsked(r)])
    /\ UNCHANGED appVars

\* StopApp is Rollout's; it may fail, and Delete then keeps the row.
StopApp(r) ==
    /\ request[r].op \in {"deleteApp", "stopApp"} /\ request[r].pc = "resolved"
    /\ \/ request[r].op = "deleteApp" /\ Step(r, "deleteRow")
       \/ Answer(r)
    /\ UNCHANGED appVars

\* What refers to the row goes with it.
DeleteRow(r) ==
    LET a == App(r) IN
    /\ Asks(r, "deleteApp", "deleteRow")
    /\ IF Visible(a, Who(r))
       THEN /\ apps' = [apps EXCEPT ![a] = Gone]
            /\ env' = {e \in env : e.app # a}
            /\ deployments' = {d \in deployments : d.app # a}
       ELSE UNCHANGED <<apps, env, deployments>>
    /\ Answer(r)
    /\ UNCHANGED <<createMu, installations, states>>

\* The insert of a row that refers to a deleted application fails.
SetEnv(r) ==
    /\ Asks(r, "setEnv", "resolved")
    /\ env' = IF Exists(App(r)) THEN env \cup {[app |-> App(r), by |-> Who(r)]} ELSE env
    /\ Answer(r)
    /\ UNCHANGED <<apps, createMu, deployments, installations, states>>

\* ConfigureGitHubApp: the installation must be the caller's.
CheckInstallation(r) ==
    /\ Asks(r, "configure", "resolved")
    /\ IF installations[request[r].about.installation] = Who(r)
       THEN Step(r, "save") ELSE Answer(r)
    /\ UNCHANGED appVars

SaveSource(r) ==
    /\ Asks(r, "configure", "save")
    /\ apps' = IF Exists(App(r))
               THEN [apps EXCEPT ![App(r)].installation = request[r].about.installation]
               ELSE apps
    /\ Answer(r)
    /\ UNCHANGED <<createMu, env, deployments, installations, states>>

-----------------------------------------------------------------------------
(* Git deployments, asked for or pushed.                                   *)

\* GitDeploymentService.Create reads the source of the application it found.
ReadSource(r) ==
    /\ Asks(r, "deployGit", "resolved")
    /\ IF Exists(App(r)) /\ apps[App(r)].installation # Nobody
       THEN Found(r, "create", [app |-> App(r), name |-> request[r].found.name, by |-> Who(r)])
       ELSE Answer(r)
    /\ UNCHANGED appVars

\* The webhook has listed a source; it looks its application up by id.
WebhookFindsApp(r) ==
    LET a == request[r].about IN
    /\ Asks(r, "webhook", "handler")
    /\ IF Exists(a)
       THEN Found(r, "create", [app |-> a, name |-> apps[a].name, by |-> apps[a].owner])
       ELSE Answer(r)
    /\ UNCHANGED appVars

\* CreateGitTriggered looks the application up once more, by its name, and
\* inserts a deployment that builds the source found before.
CreateDeployment(r) ==
    LET found == request[r].found
        named == ByName(found.name, Who(r))
    IN
    /\ request[r].pc = "create"
    /\ deployments' = deployments \cup
          {[app |-> a, of |-> found.app, by |-> found.by] : a \in named}
    /\ Answer(r)
    /\ UNCHANGED <<apps, createMu, env, installations, states>>

-----------------------------------------------------------------------------
(* The installation flow of the GitHub App.                                *)

States == [user : UserIds, name : AppNames \cup {Nobody}]

\* InstallURL for an application, AccountInstallURL without one.
InstallURL(r) ==
    LET name == request[r].about IN
    /\ Asks(r, "installURL", "handler")
    /\ states' = IF name = Nobody \/ ByName(name, Who(r)) # {}
                 THEN states \cup {[user |-> Who(r), name |-> name]} ELSE states
    /\ Answer(r)
    /\ UNCHANGED <<apps, createMu, env, deployments, installations>>

\* Connect: the state must be the caller's, and its application still exist.
CheckState(r) ==
    LET state == request[r].about.state IN
    /\ Asks(r, "connect", "handler")
    /\ IF state.user = Who(r) /\ (state.name = Nobody \/ ByName(state.name, Who(r)) # {})
       THEN Step(r, "upsert") ELSE Answer(r)
    /\ UNCHANGED appVars

TakenOver(i, u) == u

\* The upsert leaves another owner's row alone.
OwnerAfter(i, u) == IF installations[i] = Nobody THEN u ELSE installations[i]

UpsertInstallation(r) ==
    LET i == request[r].about.installation IN
    /\ Asks(r, "connect", "upsert")
    /\ installations' = [installations EXCEPT ![i] = OwnerAfter(i, Who(r))]
    /\ Answer(r)
    /\ UNCHANGED <<apps, createMu, env, deployments, states>>

-----------------------------------------------------------------------------
Project(r) ==
    \/ Create(r) \/ ListApps(r) \/ ResolveApp(r) \/ StopApp(r) \/ DeleteRow(r) \/ SetEnv(r)
    \/ CheckInstallation(r) \/ SaveSource(r) \/ ReadSource(r) \/ WebhookFindsApp(r)
    \/ CreateDeployment(r) \/ InstallURL(r) \/ CheckState(r) \/ UpsertInstallation(r)

Credentials == sessions \cup {t \in TokenIds : tokens[t] # Nobody}
Sourced == {a \in AppIds : Exists(a) /\ apps[a].installation # Nobody}

Mixes(op) ==
    \E mix \in Workloads : op \in mix /\ \A q \in Requests : request[q].op \in mix \cup {"none"}

Ask(r, op, abouts) == Mixes(op) /\ \E c \in Credentials, about \in abouts : Arrive(r, op, c, about)
AskPublic(r, op, abouts) == Mixes(op) /\ \E about \in abouts : Arrive(r, op, Nobody, about)

Request(r) ==
    /\ request[r].pc = "unsent" /\ \A q \in Requests : q < r => request[q].pc # "unsent"
    /\ \/ AskPublic(r, "login", [username : Usernames, password : Passwords])
       \/ AskPublic(r, "register", [username : Usernames, password : Passwords])
       \/ AskPublic(r, "webhook", Sourced)
       \/ Ask(r, "rename", Usernames)
       \/ Ask(r, "password", [current : Passwords, new : Passwords])
       \/ Ask(r, "createToken", [scopes : {{}, {"deploy"}}, expires : {MaxTime, Never}])
       \/ Ask(r, "revokeToken", {t \in TokenIds : tokens[t] # Nobody})
       \/ Ask(r, "listApps", {Nobody})
       \/ Ask(r, "createApp", AppNames)
       \/ Ask(r, "deleteApp", AppNames)
       \/ Ask(r, "stopApp", AppNames)
       \/ Ask(r, "setEnv", AppNames)
       \/ Ask(r, "deployGit", AppNames)
       \/ Ask(r, "configure", [name : AppNames, installation : InstallationIds])
       \/ Ask(r, "installURL", AppNames \cup {Nobody})
       \/ Ask(r, "connect", [state : states, installation : InstallationIds])
    /\ UNCHANGED <<clock, users, tokens, sessions, appVars>>

Served == (\A r \in Requests : request[r].pc = "answered") /\ UNCHANGED vars

Next ==
    \/ \E r \in Requests : Request(r) \/ (Account(r) /\ UNCHANGED appVars)
    \/ \E r \in Requests : Project(r) /\ UNCHANGED <<clock, users, tokens, sessions>>
    \/ Tick /\ UNCHANGED appVars
    \/ Served

-----------------------------------------------------------------------------
\* MAX_APPS_PER_USER, however many creations of a user run at once.
QuotaHolds ==
    MaxAppsPerUser > 0 => \A u \in UserIds : Count(u) <= MaxAppsPerUser

\* Who in truth stands behind a request: by a session, or by a token with the
\* scope (README.md:392: never for accounts, tokens and installations).
May(r, u, scope) ==
    LET c == request[r].credential IN
    \/ c \in Sessions /\ c.user = u
    \/ ByToken(c) /\ tokens[c].user = u /\ scope \in tokens[c].scopes

\* Nothing of a user changes but by his own session or token, whatever was
\* renamed, deleted, registered anew or revoked while the request ran; only a
\* push may deploy for him.  An installation is his who connected it first.
ChangesAuthorized ==
    [][\A r \in Requests : request'[r] # request[r] =>
        /\ \A u \in UserIds : users[u] # Nobody /\ users'[u] # users[u] => May(r, u, "session")
        /\ \A t \in TokenIds : tokens'[t] # tokens[t] =>
              May(r, tokens'[t].user, "session") \/ request[r].credential = t
        /\ \A a \in AppIds : apps'[a] # apps[a] =>
              May(r, IF Exists(a) THEN apps[a].owner ELSE apps'[a].owner, "manage")
        /\ \A e \in env' \ env : May(r, apps[e.app].owner, "manage")
        /\ \A d \in deployments' \ deployments :
              request[r].op = "webhook" \/ May(r, apps[d.app].owner, "deploy")
        /\ \A i \in InstallationIds : installations'[i] # installations[i] =>
              installations[i] = Nobody /\ May(r, installations'[i], "session")]_vars

\* What hangs on an application is its owner's, and goes with it: values, Git
\* deployments and the installation it clones with.  Only a deployment whose
\* application was deleted, and its name taken, between the two look-ups may
\* build another one's source (github_webhook.go:101, git_source.go:174).
OwnRows ==
    /\ \A e \in env : Exists(e.app) /\ e.by = apps[e.app].owner
    /\ \A d \in deployments :
          /\ Exists(d.app)
          /\ d.of = d.app => d.by = apps[d.app].owner
          /\ d.of # d.app => apps[d.of] = Gone
    /\ \A a \in Sourced : installations[apps[a].installation] = apps[a].owner

=============================================================================
