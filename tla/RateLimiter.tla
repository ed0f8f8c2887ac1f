----------------------------- MODULE RateLimiter -----------------------------
(***************************************************************************)
(* The fixed-window limiter of handler/middleware/ratelimit.go, which      *)
(* guards the login and the other sensitive endpoints.  A request reads    *)
(* the clock before it takes the mutex, so that requests are decided in an *)
(* order that need not be the order of their times.                        *)
(***************************************************************************)
EXTENDS Integers, FiniteSets, Functions

CONSTANTS
    Clients,        \* the callers' addresses (RemoteIPKey)
    Calls,          \* the requests that may be in the middleware at a time
    LimitConfigured, WindowConfigured,  \* NewRateLimiter's parameters
    Minute,         \* the default window
    Second,         \* how many ticks of the clock a second has
    MaxTracked,     \* maxTrackedClients (1024)
    MaxTime         \* bounds the clock

ASSUME LimiterAssumption ==
    /\ LimitConfigured \in Int /\ WindowConfigured \in Int
    /\ Minute \in Nat \ {0} /\ Second \in Nat \ {0}
    /\ MaxTracked \in Nat \ {0} /\ MaxTime \in Nat

\* NewRateLimiter.
PerWindow == IF LimitConfigured < 1 THEN 1 ELSE LimitConfigured
Window == IF WindowConfigured <= 0 THEN Minute ELSE WindowConfigured

VARIABLES
    clock,          \* the monotonic clock
    clients,        \* l.clients: a function on the tracked clients
    call,           \* the requests between l.now() and their answer
    grants,         \* ghost: how many requests of a client passed, by their time
    promise,        \* ghost: when a refused client may come again, and which
                    \* window it was refused in
    excused         \* ghost: clients that were evicted, or judged out of order

limiterVars == <<clock, clients, call, grants, promise, excused>>

Times == 0..MaxTime
Free == [client |-> "none", now |-> 0]
NoPromise == [at |-> 0, started |-> 0]
Enough == 2 * PerWindow + 1     \* the ghost counts no further

LimiterInit ==
    /\ clock = 0
    /\ clients = << >>
    /\ call = [r \in Calls |-> Free]
    /\ grants = [c \in Clients |-> [t \in Times |-> 0]]
    /\ promise = [c \in Clients |-> NoPromise]
    /\ excused = {}

Tick ==
    /\ clock < MaxTime
    /\ clock' = clock + 1
    /\ UNCHANGED <<clients, call, grants, promise, excused>>

\* RateLimit, up to the reading of the clock.
Enter(r, c) ==
    /\ call[r] = Free
    /\ call' = [call EXCEPT ![r] = [client |-> c, now |-> clock]]
    /\ UNCHANGED <<clock, clients, grants, promise, excused>>

Tracked == DOMAIN clients

\* The client's window contains `now`.
InWindow(c, now) ==
    /\ c \in Tracked
    /\ now - clients[c].started >= 0
    /\ now - clients[c].started < Window

Expired(table, now) == {c \in DOMAIN table : now - table[c].started >= Window}

OldestOf(table) ==
    {c \in DOMAIN table : \A d \in DOMAIN table : table[c].started <= table[d].started}

NothingEvicted(table, now) == {table}

LatecomerKept(table, now) ==
    IF Cardinality(DOMAIN table) <= MaxTracked THEN {table}
    ELSE {Restrict(table, {c \in DOMAIN table : table[c].started = now})}

\* The tables that may be left of one that has grown: expired windows go, and
\* then, if that was not enough, the oldest of the others.
Bounded(table, now) ==
    LET active == Restrict(table, DOMAIN table \ Expired(table, now)) IN
    IF Cardinality(DOMAIN table) <= MaxTracked THEN {table}
    ELSE IF Cardinality(DOMAIN active) <= MaxTracked THEN {active}
    ELSE {Restrict(active, DOMAIN active \ {c}) : c \in OldestOf(active)}

Opened(c, now) ==
    [d \in Tracked \cup {c} |-> IF d = c THEN [started |-> now, count |-> 1] ELSE clients[d]]

Answered(r) == call' = [call EXCEPT ![r] = Free]
Passed(c, now) == grants' = [grants EXCEPT ![c][now] = IF @ < Enough THEN @ + 1 ELSE @]

\* Allow, under the mutex: within a window, up to its limit.
AllowInWindow(r) ==
    LET c == call[r].client  now == call[r].now IN
    /\ call[r] # Free
    /\ InWindow(c, now) /\ clients[c].count < PerWindow
    /\ clients' = [clients EXCEPT ![c].count = @ + 1]
    /\ Passed(c, now) /\ Answered(r)
    /\ UNCHANGED <<clock, promise, excused>>

SecondsDown(delay) == delay \div Second

\* The Retry-After header, in whole seconds.
Seconds(delay) ==
    LET up == (delay + Second - 1) \div Second IN IF up < 1 THEN 1 ELSE up

Refuse(r) ==
    LET c == call[r].client  now == call[r].now
        delay == Window - (now - clients[c].started)
    IN
    /\ call[r] # Free
    /\ InWindow(c, now) /\ clients[c].count >= PerWindow
    /\ promise' = [promise EXCEPT ![c] = [at |-> now + Seconds(delay) * Second,
                                           started |-> clients[c].started]]
    /\ Answered(r)
    /\ UNCHANGED <<clock, clients, grants, excused>>

\* A client who has passed before is judged by an older time than somebody was.
OutOfOrder(c, now) ==
    /\ \E t \in Times : grants[c][t] > 0
    /\ \E d \in Clients, t \in Times : t > now /\ grants[d][t] > 0

\* Allow opens a new window, and bounds the table.
AllowFirst(r) ==
    LET c == call[r].client  now == call[r].now IN
    /\ call[r] # Free
    /\ ~InWindow(c, now)
    /\ clients' \in Bounded(Opened(c, now), now)
    /\ Passed(c, now) /\ Answered(r)
    /\ excused' = excused \cup {d \in (Tracked \cup {c}) \ DOMAIN clients' :
                                   d = c \/ now - clients[d].started < Window}
                          \cup (IF OutOfOrder(c, now) THEN {c} ELSE {})
    /\ UNCHANGED <<clock, promise>>

LimiterNext ==
    \/ Tick
    \/ \E r \in Calls, c \in Clients : Enter(r, c)
    \/ \E r \in Calls : AllowInWindow(r) \/ Refuse(r) \/ AllowFirst(r)

LimiterSpec == LimiterInit /\ [][LimiterNext]_limiterVars

-----------------------------------------------------------------------------
\* maxTrackedClients bounds the table, whoever calls in whatever order.
TrackedBounded == Cardinality(Tracked) <= MaxTracked

\* The requests of a client that passed within a window from `from`, a pair each.
Passages(c, from) ==
    {p \in Times \X (1..Enough) :
        from <= p[1] /\ p[1] < from + Window /\ p[2] <= grants[c][p[1]]}
Granted(c, from) == Cardinality(Passages(c, from))

\* A fixed window admits its limit and no more, so that no interval as long as
\* a window sees more than twice the limit -- but for clients whose window was
\* evicted (ratelimit.go:87), and for a request that read the clock before
\* another one and is judged after it (57, 61): both may give a client a fresh
\* window while the old one lasts.  Whoever comes again after the delay he was
\* told (Retry-After) finds the window over that refused him.
RateBounded ==
    \A c \in Clients \ excused :
        /\ c \in Tracked => Granted(c, clients[c].started) <= PerWindow
        /\ \A t \in Times : Granted(c, t) <= 2 * PerWindow
        /\ c \in Tracked /\ promise[c] # NoPromise /\ promise[c].started = clients[c].started
               => ~InWindow(c, promise[c].at)

\* A window that is still running is only given up when more clients are
\* within theirs than may be tracked -- the expired ones go first -- and then
\* no client keeps an older one.
ActiveWindowsKept ==
    [][\A c \in Tracked \ DOMAIN clients' :
          \E r \in Calls :
             LET now == call[r].now IN
             /\ call[r] # Free /\ call'[r] = Free
             /\ now - clients[c].started < Window =>
                   /\ Cardinality(Tracked \ Expired(clients, now)) >= MaxTracked
                   /\ \A d \in DOMAIN clients' :
                          clients'[d].started >= clients[c].started]_limiterVars
=============================================================================
