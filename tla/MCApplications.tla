---------------------------- MODULE MCApplications ---------------------------
EXTENDS Applications, TLC

CONSTANTS u1, u2, t1, t2, t3, i1

\* A first user has an application with a Git source.  Either a second one is
\* there too, and both have sessions and have started to connect the same
\* installation; or the first has a token for everything, and time goes by.
TwoUsers ==
    /\ clock = MaxTime
    /\ users = (u1 :> [username |-> "a", password |-> "p"]
             @@ u2 :> [username |-> "b", password |-> "p"])
    /\ sessions = {[user |-> u1, username |-> "a", expires |-> Never],
                   [user |-> u2, username |-> "b", expires |-> Never]}
    /\ tokens = [t \in TokenIds |-> Nobody]
    /\ states = {[user |-> u, name |-> Nobody] : u \in UserIds}
    /\ \E owner \in {u1, Nobody} :
          /\ installations = [i \in InstallationIds |-> owner]
          /\ apps = [a \in AppIds |-> IF a = 1
                THEN [name |-> "x", owner |-> u1,
                      installation |-> IF owner = u1 THEN i1 ELSE Nobody]
                ELSE Nobody]

OneToken ==
    /\ clock = 0
    /\ users = (u1 :> [username |-> "a", password |-> "p"] @@ u2 :> Nobody)
    /\ sessions = {[user |-> u1, username |-> "a", expires |-> MaxTime]}
    /\ \E scopes \in {Scopes, {"deploy"}}, expires \in {MaxTime, Never} :
          tokens = [t \in TokenIds |-> IF t = t1
             THEN [user |-> u1, scopes |-> scopes, expires |-> expires,
                   revoked |-> Never, used |-> Never]
             ELSE Nobody]
    /\ states = {}
    /\ installations = [i \in InstallationIds |-> u1]
    /\ apps = [a \in AppIds |-> IF a = 1
          THEN [name |-> "x", owner |-> u1, installation |-> i1] ELSE Nobody]

Init ==
    /\ TwoUsers \/ OneToken
    /\ createMu = Nobody /\ env = {} /\ deployments = {}
    /\ request = [r \in Requests |->
          IF clock = 0 /\ r = MaxRequests THEN [Unsent EXCEPT !.pc = "answered"] ELSE Unsent]

Spec == Init /\ [][Next]_vars
\* The kinds of requests that are looked at together.
MCWorkloads == {
    {"createApp", "deleteApp", "setEnv"},
    {"createApp", "deleteApp", "deployGit", "webhook"},
    {"createApp", "deleteApp", "configure"},
    {"connect", "installURL", "configure", "stopApp"},
    {"createToken", "revokeToken", "listApps", "setEnv"},
    {"login", "register", "rename", "createApp"},
    {"login", "password"}}
=============================================================================
