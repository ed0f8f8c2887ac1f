------------------------------- MODULE Access --------------------------------
(***************************************************************************)
(* Users, sessions and API tokens, and how a request gets its identity:    *)
(* service/auth.go, service/api_token.go, service/authenticator.go and     *)
(* handler/middleware/auth.go over the tables users and api_tokens.  A     *)
(* session is a signed JWT: the server keeps nothing of it.  A token is a  *)
(* row, found by the digest of its secret; here the secret is its id.      *)
(***************************************************************************)
EXTENDS Naturals, FiniteSets

CONSTANTS
    UserIds, Usernames, Passwords, TokenIds,
    Nobody,         \* no user, no request, no credential, no row
    MaxRequests,    \* bounds the HTTP requests ever sent
    TokenTTL,       \* a session's lifetime (TOKEN_TTL), in ticks
    MaxTime         \* bounds the clock

ASSUME AccessAssumption ==
    /\ MaxRequests \in Nat /\ TokenTTL \in Nat /\ MaxTime \in Nat
    /\ Nobody \notin UserIds \cup TokenIds \cup (1..MaxRequests)

VARIABLES
    clock,
    users,          \* the table users: a row or Nobody for each id
    tokens,         \* the table api_tokens
    sessions,       \* the JWTs that were issued and are held by clients
    request         \* the requests in the server

accessVars == <<clock, users, tokens, sessions, request>>

Requests == 1..MaxRequests      \* numbered as they arrive
Times == 0..MaxTime
Never == MaxTime + TokenTTL + 1      \* later than every expiry
Scopes == {"read", "deploy", "manage"}

Sessions == [user : UserIds, username : Usernames, expires : Nat]
UserRows == [username : Usernames, password : Passwords]
TokenRows == [user : UserIds, scopes : SUBSET Scopes, expires : Nat, revoked : Nat, used : Nat]
NoIdentity == [user |-> Nobody, method |-> "none", scopes |-> {}]

\* A row is somebody's, and a token's secret is no signed session.
ASSUME RowsAssumption ==
    /\ Nobody \notin UserRows /\ Nobody \notin TokenRows
    /\ \A t \in TokenIds : t \notin Sessions

\* The routes of main.go by what they ask of the caller.
Public == {"login", "register", "webhook"}
SessionOnly == {"rename", "password", "createToken", "revokeToken", "installURL", "connect"}
Scope == [listApps |-> "read", deployGit |-> "deploy", createApp |-> "manage", stopApp |-> "manage",
          deleteApp |-> "manage", setEnv |-> "manage", configure |-> "manage"]
Operations == Public \cup SessionOnly \cup DOMAIN Scope

\* `about` is what the request asks for, `found` what its handler has read.
\* `late` (ghost) says that its credential was dead when it arrived.
Unsent == [pc |-> "unsent", op |-> "none", credential |-> Nobody, identity |-> NoIdentity,
           about |-> Nobody, found |-> Nobody, late |-> FALSE]

Step(r, pc) == request' = [request EXCEPT ![r].pc = pc]
Found(r, pc, what) == request' = [request EXCEPT ![r].pc = pc, ![r].found = what]
Answer(r) == request' = [request EXCEPT ![r] =
                [Unsent EXCEPT !.pc = "answered", !.op = request[r].op]]

Asks(r, op, pc) == request[r].op = op /\ request[r].pc = pc
Who(r) == request[r].identity.user

-----------------------------------------------------------------------------
(* The middleware.                                                         *)

ByToken(credential) == credential # Nobody /\ credential \notin Sessions
Dead(credential) ==
    \/ credential \in Sessions /\ credential.expires <= clock
    \/ ByToken(credential)
       /\ (tokens[credential].revoked # Never \/ tokens[credential].expires <= clock)

Arrive(r, op, credential, about) ==
    request' = [request EXCEPT ![r] =
        [Unsent EXCEPT !.pc = IF op \in Public THEN "handler" ELSE "authenticate",
                       !.op = op, !.credential = credential, !.about = about,
                       !.late = Dead(credential)]]

AnyScope(identity, scope) == identity.method # "none"

\* A session may do everything.
HasScope(identity, scope) == identity.method = "session" \/ scope \in identity.scopes

\* RequireScope and RequireSession.
Authorized(identity, op) ==
    IF op \in SessionOnly THEN identity.method = "session" ELSE HasScope(identity, Scope[op])

Admit(r, identity) ==
    IF Authorized(identity, request[r].op)
    THEN request' = [request EXCEPT ![r].pc = "handler", ![r].found = Nobody,
                                    ![r].identity = identity]
    ELSE Answer(r)

\* ParseToken: a signed claim is taken at its word.
SubjectOf(session) == session.user

AuthenticateSession(r) ==
    LET session == request[r].credential IN
    /\ request[r].pc = "authenticate" /\ session \in Sessions
    /\ IF clock < session.expires
       THEN Admit(r, [user |-> SubjectOf(session), method |-> "session", scopes |-> {}])
       ELSE Answer(r)
    /\ UNCHANGED <<clock, users, tokens, sessions>>

Alive(t) == tokens[t].revoked = Never /\ tokens[t].expires > clock

\* APITokenService.Authenticate finds the row, and goes on with what it read.
LookUpToken(r) ==
    LET t == request[r].credential IN
    /\ request[r].pc = "authenticate" /\ ByToken(t)
    /\ IF Alive(t) THEN Found(r, "touch", tokens[t]) ELSE Answer(r)
    /\ UNCHANGED <<clock, users, tokens, sessions>>

TouchedAnyway(t) == [tokens EXCEPT ![t].used = clock]

\* TouchAPIToken writes on the condition that the token is alive still.
Touched(t) == IF Alive(t) THEN [tokens EXCEPT ![t].used = clock] ELSE tokens

\* A failing TouchAPIToken is ignored.
TouchToken(r) ==
    LET t == request[r].credential  row == request[r].found IN
    /\ request[r].pc = "touch"
    /\ tokens' \in {tokens, Touched(t)}
    /\ Admit(r, [user |-> row.user, method |-> "api_token", scopes |-> row.scopes])
    /\ UNCHANGED <<clock, users, sessions>>

-----------------------------------------------------------------------------
(* The handlers of accounts and tokens.                                    *)

Named(username) == {u \in UserIds : users[u] # Nobody /\ users[u].username = username}

Issue(u, username) ==
    sessions' = sessions \cup {[user |-> u, username |-> username, expires |-> clock + TokenTTL]}

\* Login reads the user, and compares the password with what it has read.
LoginRead(r) ==
    /\ Asks(r, "login", "handler")
    /\ \/ /\ Named(request[r].about.username) = {}
          /\ Answer(r)
       \/ \E u \in Named(request[r].about.username) :
             IF users[u].password = request[r].about.password
             THEN Found(r, "issue", [user |-> u, username |-> users[u].username])
             ELSE Answer(r)
    /\ UNCHANGED <<clock, users, tokens, sessions>>

\* issueToken, from the row that was read.
IssueToken(r) ==
    /\ request[r].pc = "issue"
    /\ Issue(request[r].found.user, request[r].found.username)
    /\ Answer(r)
    /\ UNCHANGED <<clock, users, tokens>>

\* Register: the insert fails when the name is taken.
Register(r) ==
    /\ Asks(r, "register", "handler")
    /\ IF Named(request[r].about.username) # {} THEN UNCHANGED users
       ELSE \E u \in UserIds : users[u] = Nobody /\ users' = [users EXCEPT ![u] = request[r].about]
    /\ Answer(r)
    /\ UNCHANGED <<clock, tokens, sessions>>

\* UpdateMe: the new name, and then a new cookie.
Rename(r) ==
    /\ Asks(r, "rename", "handler")
    /\ IF Named(request[r].about) \subseteq {Who(r)}
       THEN users' = [users EXCEPT ![Who(r)].username = request[r].about] /\ Step(r, "refresh")
       ELSE Answer(r) /\ UNCHANGED users
    /\ UNCHANGED <<clock, tokens, sessions>>

\* UpdatePassword reads and compares, and saves later.
CheckPassword(r) ==
    /\ Asks(r, "password", "handler")
    /\ IF users[Who(r)].password = request[r].about.current THEN Step(r, "save") ELSE Answer(r)
    /\ UNCHANGED <<clock, users, tokens, sessions>>

SavePassword(r) ==
    /\ Asks(r, "password", "save")
    /\ users' = [users EXCEPT ![Who(r)].password = request[r].about.new]
    /\ Step(r, "refresh")
    /\ UNCHANGED <<clock, tokens, sessions>>

\* RefreshToken reads the user again; it may fail after the change is saved.
Refresh(r) ==
    /\ request[r].pc = "refresh"
    /\ \/ Found(r, "issue", [user |-> Who(r), username |-> users[Who(r)].username])
       \/ Answer(r)
    /\ UNCHANGED <<clock, users, tokens, sessions>>

\* normalizeAPITokenScopes: without scopes a token may read.
Normalized(scopes) == IF scopes = {} THEN {"read"} ELSE scopes

CreateToken(r) ==
    LET wanted == request[r].about IN
    /\ Asks(r, "createToken", "handler")
    /\ IF wanted.expires <= clock THEN UNCHANGED tokens
       ELSE \E t \in TokenIds :
              /\ tokens[t] = Nobody
              /\ tokens' = [tokens EXCEPT ![t] =
                    [user |-> Who(r), scopes |-> Normalized(wanted.scopes),
                     expires |-> wanted.expires, revoked |-> Never, used |-> Never]]
    /\ Answer(r)
    /\ UNCHANGED <<clock, users, sessions>>

\* RevokeAPIToken, of the caller's own tokens; the first revocation counts.
RevokeToken(r) ==
    LET t == request[r].about IN
    /\ Asks(r, "revokeToken", "handler")
    /\ tokens' = IF tokens[t] # Nobody /\ tokens[t].user = Who(r) /\ tokens[t].revoked = Never
                 THEN [tokens EXCEPT ![t].revoked = clock]
                 ELSE tokens
    /\ Answer(r)
    /\ UNCHANGED <<clock, users, sessions>>

Tick ==
    /\ clock < MaxTime
    /\ clock' = clock + 1
    /\ UNCHANGED <<users, tokens, sessions, request>>

-----------------------------------------------------------------------------
Account(r) ==
    \/ AuthenticateSession(r) \/ LookUpToken(r) \/ TouchToken(r)
    \/ LoginRead(r) \/ IssueToken(r) \/ Register(r) \/ Rename(r) \/ CheckPassword(r)
    \/ SavePassword(r) \/ Refresh(r) \/ CreateToken(r) \/ RevokeToken(r)

\* Revoking a token is immediate and final, though requests that have read its
\* row are under way: the row does not change again, and a request that comes
\* after it, or after the expiry of its credential, gets no identity.
RevokedIsFinal ==
    [][/\ \A t \in TokenIds :
             tokens[t] # Nobody /\ tokens[t].revoked # Never => tokens'[t] = tokens[t]
       /\ \A r \in Requests : request'[r].late => request'[r].identity = NoIdentity]_accessVars
=============================================================================
