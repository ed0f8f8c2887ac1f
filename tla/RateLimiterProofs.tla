-------------------------- MODULE RateLimiterProofs --------------------------
(***************************************************************************)
(* What holds of the rate limiter for any clients, any number of requests  *)
(* at a time, any limit, window and bound.  Its table never holds more     *)
(* windows than maxTrackedClients, and a running window is given up only   *)
(* when that bound leaves no choice; the second needs the first: only      *)
(* because the table was within its bound is it a new client, and not one  *)
(* whose window starts anew, whose arrival makes it too large.  A window   *)
(* admits its limit, and any interval as long twice that: the windows a    *)
(* client ever had do not overlap, so that no interval meets three.        *)
(***************************************************************************)
EXTENDS RateLimiter, FiniteSetTheorems, TLAPS

LimiterTypeOK ==
    /\ clock \in Times
    /\ IsFiniteSet(Tracked)
    /\ \A c \in Tracked : clients[c] \in [started : Times, count : Nat]
    /\ call \in [Calls -> [client : Clients \cup {"none"}, now : Times]]

IInv == LimiterTypeOK /\ TrackedBounded

(* A window lasts: neither a configured nor the default one is empty.      *)
LEMMA WindowPositive == Window \in Nat \ {0}
    BY LimiterAssumption DEF Window

(* Opening a window adds at most its client to the table.                  *)
LEMMA OneMore ==
    ASSUME IInv, NEW c, NEW now \in Times
    PROVE  /\ DOMAIN Opened(c, now) = Tracked \cup {c}
           /\ Opened(c, now)[c] = [started |-> now, count |-> 1]
           /\ \A d \in Tracked \ {c} : Opened(c, now)[d] = clients[d]
           /\ \A d \in DOMAIN Opened(c, now) :
                  Opened(c, now)[d] \in [started : Times, count : Nat]
           /\ IsFiniteSet(Tracked \cup {c})
           /\ c \in Tracked => Cardinality(Tracked \cup {c}) <= MaxTracked
           /\ Cardinality(Tracked \cup {c}) <= MaxTracked + 1
    <1>1. /\ DOMAIN Opened(c, now) = Tracked \cup {c}
          /\ Opened(c, now)[c] = [started |-> now, count |-> 1]
          /\ \A d \in Tracked \ {c} : Opened(c, now)[d] = clients[d]
        BY DEF Opened
    <1>2. \A d \in DOMAIN Opened(c, now) : Opened(c, now)[d] \in [started : Times, count : Nat]
        BY <1>1 DEF IInv, LimiterTypeOK
    <1>3. IsFiniteSet(Tracked) /\ Cardinality(Tracked) <= MaxTracked
        BY DEF IInv, LimiterTypeOK, TrackedBounded
    <1>4. /\ IsFiniteSet(Tracked \cup {c})
          /\ Cardinality(Tracked \cup {c}) =
                 IF c \in Tracked THEN Cardinality(Tracked) ELSE Cardinality(Tracked) + 1
        BY <1>3, FS_AddElement
    <1>5. Cardinality(Tracked) \in Nat
        BY <1>3, FS_CardinalityType
    <1> QED
        BY <1>1, <1>2, <1>3, <1>4, <1>5, LimiterAssumption

(* Whatever table is left of one that is one too large is within the       *)
(* bound, and has kept the windows it has.                                 *)
LEMMA BoundedTable ==
    ASSUME NEW table, NEW now, IsFiniteSet(DOMAIN table),
           Cardinality(DOMAIN table) <= MaxTracked + 1,
           NEW left \in Bounded(table, now)
    PROVE  /\ DOMAIN left \subseteq DOMAIN table
           /\ \A d \in DOMAIN left : left[d] = table[d]
           /\ Cardinality(DOMAIN left) <= MaxTracked
    <1> DEFINE active == Restrict(table, DOMAIN table \ Expired(table, now))
    <1>1. /\ DOMAIN active = DOMAIN table \ Expired(table, now)
          /\ \A d \in DOMAIN active : active[d] = table[d]
        BY DEF Restrict
    <1>2. /\ IsFiniteSet(DOMAIN active)
          /\ Cardinality(DOMAIN active) <= Cardinality(DOMAIN table)
          /\ Cardinality(DOMAIN active) \in Nat /\ Cardinality(DOMAIN table) \in Nat
        BY <1>1, FS_Subset, FS_CardinalityType
    <1>3. CASE Cardinality(DOMAIN table) <= MaxTracked
        <2>1. left = table
            BY <1>3 DEF Bounded
        <2> QED
            BY <2>1, <1>3
    <1>4. CASE Cardinality(DOMAIN table) > MaxTracked /\ Cardinality(DOMAIN active) <= MaxTracked
        <2>1. left = active
            BY <1>4, <1>2, LimiterAssumption DEF Bounded
        <2> QED
            BY <2>1, <1>1, <1>4
    <1>5. CASE Cardinality(DOMAIN table) > MaxTracked /\ Cardinality(DOMAIN active) > MaxTracked
        <2>0. /\ ~(Cardinality(DOMAIN table) <= MaxTracked)
              /\ ~(Cardinality(DOMAIN active) <= MaxTracked)
            BY <1>5, <1>2, LimiterAssumption
        <2>1. PICK c \in OldestOf(active) : left = Restrict(active, DOMAIN active \ {c})
            BY <2>0 DEF Bounded
        <2>2. c \in DOMAIN active
            BY DEF OldestOf
        <2>3. /\ DOMAIN left = DOMAIN active \ {c}
              /\ \A d \in DOMAIN left : left[d] = active[d]
            BY <2>1 DEF Restrict
        <2>4. Cardinality(DOMAIN left) = Cardinality(DOMAIN active) - 1
            <3> DEFINE D == DOMAIN active
            <3>1. IsFiniteSet(D) /\ c \in D
                BY <1>2, <2>2
            <3> HIDE DEF D
            <3>2. Cardinality(D \ {c}) = Cardinality(D) - 1
                BY <3>1, FS_RemoveElement
            <3> QED
                BY <3>2, <2>3 DEF D
        <2>5. Cardinality(DOMAIN left) <= MaxTracked
            BY <2>4, <1>2, LimiterAssumption
        <2>6. DOMAIN left \subseteq DOMAIN table /\ \A d \in DOMAIN left : left[d] = table[d]
            BY <2>3, <1>1
        <2> QED
            BY <2>5, <2>6
    <1> QED
        BY <1>2, <1>3, <1>4, <1>5, LimiterAssumption

(* A window that is not expired is only left out when too many are not,    *)
(* and as the oldest of those.                                             *)
LEMMA OldestGoes ==
    ASSUME NEW table, NEW now, IsFiniteSet(DOMAIN table),
           NEW left \in Bounded(table, now),
           NEW c \in DOMAIN table \ DOMAIN left, c \notin Expired(table, now)
    PROVE  /\ Cardinality(DOMAIN table) > MaxTracked
           /\ Cardinality(DOMAIN table \ Expired(table, now)) > MaxTracked
           /\ \A d \in DOMAIN left : left[d] = table[d] /\ table[c].started <= table[d].started
    <1> DEFINE active == Restrict(table, DOMAIN table \ Expired(table, now))
    <1>1. /\ DOMAIN active = DOMAIN table \ Expired(table, now)
          /\ \A d \in DOMAIN active : active[d] = table[d]
        BY DEF Restrict
    <1>2. Cardinality(DOMAIN active) \in Nat /\ Cardinality(DOMAIN table) \in Nat
        BY <1>1, FS_Subset, FS_CardinalityType
    <1>3. left # table /\ left # active
        BY <1>1
    <1>4. /\ ~(Cardinality(DOMAIN table) <= MaxTracked)
          /\ ~(Cardinality(DOMAIN active) <= MaxTracked)
          /\ \E o \in OldestOf(active) : left = Restrict(active, DOMAIN active \ {o})
        BY <1>3 DEF Bounded
    <1>5. PICK o \in OldestOf(active) : left = Restrict(active, DOMAIN active \ {o})
        BY <1>4
    <1>6. /\ DOMAIN left = DOMAIN active \ {o}
          /\ \A d \in DOMAIN left : left[d] = active[d]
        BY <1>5 DEF Restrict
    <1>7. c = o
        BY <1>1, <1>6
    <1>8. \A d \in DOMAIN active : active[c].started <= active[d].started
        BY <1>7 DEF OldestOf
    <1>9. /\ Cardinality(DOMAIN table) > MaxTracked
          /\ Cardinality(DOMAIN active) > MaxTracked
        BY <1>2, <1>4, LimiterAssumption
    <1>10. c \in DOMAIN active
        BY <1>7 DEF OldestOf
    <1>11. \A d \in DOMAIN left : left[d] = table[d] /\ table[c].started <= table[d].started
        BY <1>1, <1>6, <1>8, <1>10
    <1> QED
        BY <1>1, <1>9, <1>11

-----------------------------------------------------------------------------
LEMMA InitInvariant == LimiterInit => IInv
    <1> SUFFICES ASSUME LimiterInit PROVE IInv
        OBVIOUS
    <1>1. Tracked = {}
        BY DEF LimiterInit, Tracked
    <1>2. IsFiniteSet(Tracked) /\ Cardinality(Tracked) = 0
        BY <1>1, FS_EmptySet
    <1>3. call \in [Calls -> [client : Clients \cup {"none"}, now : Times]]
        BY LimiterAssumption DEF LimiterInit, Free, Times
    <1> QED
        BY <1>1, <1>2, <1>3, LimiterAssumption
        DEF LimiterInit, IInv, LimiterTypeOK, TrackedBounded, Times

(* A request in the middleware has a time, and leaves it answered.         *)
LEMMA Requests ==
    ASSUME IInv, NEW r \in Calls
    PROVE  /\ call[r].now \in Times
           /\ [call EXCEPT ![r] = Free] \in [Calls -> [client : Clients \cup {"none"}, now : Times]]
    BY LimiterAssumption DEF IInv, LimiterTypeOK, Free, Times

LEMMA AllowFirstInvariant ==
    ASSUME IInv, NEW r \in Calls, AllowFirst(r)
    PROVE  IInv'
    <1> DEFINE c == call[r].client
               now == call[r].now
               table == Opened(c, now)
    <1>1. now \in Times /\ clients' \in Bounded(table, now)
        BY Requests DEF AllowFirst
    <1> HIDE DEF c, now
    <1>2. /\ IsFiniteSet(DOMAIN table) /\ Cardinality(DOMAIN table) <= MaxTracked + 1
          /\ \A d \in DOMAIN table : table[d] \in [started : Times, count : Nat]
        BY <1>1, OneMore
    <1>3. /\ DOMAIN clients' \subseteq DOMAIN table
          /\ \A d \in DOMAIN clients' : clients'[d] = table[d]
          /\ Cardinality(DOMAIN clients') <= MaxTracked
        BY <1>1, <1>2, BoundedTable
    <1>4. IsFiniteSet(DOMAIN clients')
        BY <1>2, <1>3, FS_Subset
    <1>5. \A d \in DOMAIN clients' : clients'[d] \in [started : Times, count : Nat]
        BY <1>2, <1>3
    <1>6. clock' \in Times /\ call' \in [Calls -> [client : Clients \cup {"none"}, now : Times]]
        BY Requests DEF AllowFirst, Answered, IInv, LimiterTypeOK
    <1> QED
        BY <1>3, <1>4, <1>5, <1>6 DEF IInv, LimiterTypeOK, TrackedBounded, Tracked

LEMMA NextInvariant == IInv /\ [LimiterNext]_limiterVars => IInv'
    <1> SUFFICES ASSUME IInv, [LimiterNext]_limiterVars PROVE IInv'
        OBVIOUS
    <1>1. CASE Tick
        BY <1>1, LimiterAssumption
        DEF Tick, IInv, LimiterTypeOK, TrackedBounded, Tracked, Times
    <1>2. ASSUME NEW r \in Calls, NEW c \in Clients, Enter(r, c) PROVE IInv'
        BY <1>2 DEF Enter, IInv, LimiterTypeOK, TrackedBounded, Tracked
    <1>3. ASSUME NEW r \in Calls, AllowInWindow(r) PROVE IInv'
        <2>1. DOMAIN clients' = DOMAIN clients
            BY <1>3 DEF AllowInWindow
        <2>2. \A d \in DOMAIN clients' : clients'[d] \in [started : Times, count : Nat]
            BY <1>3, <2>1 DEF AllowInWindow, InWindow, IInv, LimiterTypeOK, Tracked
        <2>3. clock' \in Times /\ call' \in [Calls -> [client : Clients \cup {"none"}, now : Times]]
            BY <1>3, Requests DEF AllowInWindow, Answered, IInv, LimiterTypeOK
        <2> QED
            BY <2>1, <2>2, <2>3 DEF IInv, LimiterTypeOK, TrackedBounded, Tracked
    <1>4. ASSUME NEW r \in Calls, Refuse(r) PROVE IInv'
        <2>1. clients' = clients /\ clock' = clock /\ call' = [call EXCEPT ![r] = Free]
            BY <1>4 DEF Refuse, Answered
        <2> QED
            BY <2>1, Requests DEF IInv, LimiterTypeOK, TrackedBounded, Tracked
    <1>5. ASSUME NEW r \in Calls, AllowFirst(r) PROVE IInv'
        BY <1>5, AllowFirstInvariant
    <1>6. CASE UNCHANGED limiterVars
        BY <1>6 DEF limiterVars, IInv, LimiterTypeOK, TrackedBounded, Tracked
    <1> QED
        BY <1>1, <1>2, <1>3, <1>4, <1>5, <1>6 DEF LimiterNext

(* Allow keeps its table within maxTrackedClients, for any number of       *)
(* clients, whatever the order of their requests (ratelimit.go:71).        *)
THEOREM TableBounded == LimiterSpec => []TrackedBounded
    <1>1. IInv => TrackedBounded
        BY DEF IInv
    <1> QED
        BY InitInvariant, NextInvariant, <1>1, PTL DEF LimiterSpec

-----------------------------------------------------------------------------
WindowsKept ==
    \A c \in Tracked \ DOMAIN clients' :
        \E r \in Calls :
            LET now == call[r].now IN
            /\ call[r] # Free /\ call'[r] = Free
            /\ now - clients[c].started < Window =>
                  /\ Cardinality(Tracked \ Expired(clients, now)) >= MaxTracked
                  /\ \A d \in DOMAIN clients' :
                         clients'[d].started >= clients[c].started

(* The one action that gives windows up.                                   *)
LEMMA AllowFirstKeeps ==
    ASSUME IInv, NEW r \in Calls, AllowFirst(r), NEW k \in Tracked \ DOMAIN clients',
           call[r].now - clients[k].started < Window
    PROVE  /\ Cardinality(Tracked \ Expired(clients, call[r].now)) >= MaxTracked
           /\ \A d \in DOMAIN clients' : clients'[d].started >= clients[k].started
    <1> DEFINE c == call[r].client
               now == call[r].now
               table == Opened(c, now)
    <1>1. /\ now \in Times /\ clients' \in Bounded(table, now)
          /\ now - clients[k].started < Window
        BY Requests DEF AllowFirst
    <1> HIDE DEF c, now
    <1>2. now \in Int /\ \A d \in Tracked : clients[d].started \in Int
        BY <1>1, LimiterAssumption DEF IInv, LimiterTypeOK, Times
    <1> DEFINE over == Cardinality(DOMAIN table) > MaxTracked
    <1>3. CASE c \in Tracked
        <2>1. DOMAIN table = Tracked \cup {c} /\ Cardinality(DOMAIN table) <= MaxTracked
            BY <1>1, <1>3, OneMore
        <2>2. clients' = table
            BY <1>1, <2>1 DEF Bounded
        <2>3. k \in DOMAIN clients'
            BY <2>1, <2>2
        <2> QED
            BY <2>3
    <1>4. CASE c \notin Tracked
        <2>1. /\ DOMAIN table = Tracked \cup {c} /\ IsFiniteSet(DOMAIN table)
              /\ table[c].started = now
              /\ \A d \in Tracked : table[d] = clients[d]
            <3>1. /\ DOMAIN table = Tracked \cup {c}
                  /\ table[c] = [started |-> now, count |-> 1]
                  /\ \A d \in Tracked \ {c} : table[d] = clients[d]
                  /\ IsFiniteSet(Tracked \cup {c})
                BY <1>1, OneMore
            <3> QED
                BY <3>1, <1>4
        <2>2. k \in DOMAIN table \ DOMAIN clients' /\ k \notin Expired(table, now)
            BY <1>1, <1>2, <2>1, WindowPositive DEF Expired
        <2>3. /\ Cardinality(DOMAIN table \ Expired(table, now)) > MaxTracked
              /\ \A d \in DOMAIN clients' :
                     clients'[d] = table[d] /\ table[k].started <= table[d].started
            BY <1>1, <2>1, <2>2, OldestGoes
        <2>4. c \notin Expired(table, now)
            BY <1>2, <2>1, WindowPositive DEF Expired
        <2>5. Tracked \ Expired(clients, now) = (DOMAIN table \ Expired(table, now)) \ {c}
            BY <1>4, <2>1 DEF Expired, Tracked
        <2>6. IsFiniteSet(DOMAIN table \ Expired(table, now))
            BY <2>1, FS_Subset
        <2>7. /\ Cardinality(DOMAIN table \ Expired(table, now)) \in Nat
              /\ Cardinality(Tracked \ Expired(clients, now)) =
                    Cardinality(DOMAIN table \ Expired(table, now)) - 1
            <3> DEFINE live == DOMAIN table \ Expired(table, now)
            <3>1. c \in live
                BY <2>1, <2>4
            <3> HIDE DEF live
            <3>2. Cardinality(live) \in Nat /\ Cardinality(live \ {c}) = Cardinality(live) - 1
                BY <3>1, <2>6, FS_RemoveElement, FS_CardinalityType DEF live
            <3> QED
                BY <3>2, <2>5 DEF live
        <2>8. Cardinality(Tracked \ Expired(clients, now)) >= MaxTracked
            BY <2>3, <2>7, LimiterAssumption
        <2>9. \A d \in DOMAIN clients' : clients'[d].started >= clients[k].started
            <3> TAKE d \in DOMAIN clients'
            <3>1. clients'[d] = table[d] /\ clients[k].started <= table[d].started
                BY <2>1, <2>3
            <3>2. d \in DOMAIN table
                <4>1. Cardinality(DOMAIN table) <= MaxTracked + 1
                    BY <1>1, <2>1, OneMore
                <4> QED
                    BY <1>1, <2>1, <4>1, BoundedTable
            <3>3. table[d].started \in Int
                <4>1. table[d] \in [started : Times, count : Nat]
                    BY <1>1, <3>2, OneMore
                <4> QED
                    BY <4>1, LimiterAssumption DEF Times
            <3> QED
                BY <3>1, <3>3, <1>2
        <2> QED
            BY <2>8, <2>9 DEF now
    <1> QED
        BY <1>3, <1>4

LEMMA StepKeeps == IInv /\ [LimiterNext]_limiterVars => [WindowsKept]_limiterVars
    <1> SUFFICES ASSUME IInv, LimiterNext, NEW c \in Tracked \ DOMAIN clients'
                 PROVE  \E r \in Calls :
                            /\ call[r] # Free /\ call'[r] = Free
                            /\ call[r].now - clients[c].started < Window =>
                                  /\ Cardinality(Tracked \ Expired(clients, call[r].now)) >= MaxTracked
                                  /\ \A d \in DOMAIN clients' :
                                         clients'[d].started >= clients[c].started
        BY DEF WindowsKept
    <1>1. CASE Tick \/ \E r \in Calls, d \in Clients : Enter(r, d)
        BY <1>1 DEF Tick, Enter, Tracked
    <1>2. ASSUME NEW r \in Calls, AllowInWindow(r) \/ Refuse(r) PROVE FALSE
        BY <1>2 DEF AllowInWindow, Refuse, Tracked
    <1>3. ASSUME NEW r \in Calls, AllowFirst(r)
          PROVE  /\ call[r] # Free /\ call'[r] = Free
                 /\ call[r].now - clients[c].started < Window =>
                       /\ Cardinality(Tracked \ Expired(clients, call[r].now)) >= MaxTracked
                       /\ \A d \in DOMAIN clients' :
                              clients'[d].started >= clients[c].started
        BY <1>3, AllowFirstKeeps DEF AllowFirst, Answered, IInv, LimiterTypeOK
    <1> QED
        BY <1>1, <1>2, <1>3 DEF LimiterNext

(* A running window is given up only for want of room, and as the oldest   *)
(* one (ratelimit.go:71-96), for any number of clients and any bound.      *)
THEOREM OnlyOldestEvicted == LimiterSpec => ActiveWindowsKept
    BY InitInvariant, NextInvariant, StepKeeps, PTL
    DEF LimiterSpec, ActiveWindowsKept, WindowsKept

-----------------------------------------------------------------------------
(* The limit.  The windows a client ever had are no longer in the table;   *)
(* that they do not overlap is what the bound rests on.  It holds because  *)
(* a window is only opened after the last one's end: of a tracked client   *)
(* that is the test, of one whose expired window was thrown away somebody  *)
(* was judged by a time after its end, so that he would be judged late if  *)
(* he came with a time before it.                                          *)
HadWindows(c, O) ==
    /\ O \subseteq Times
    /\ \A s1, s2 \in O : s1 < s2 => s1 + Window <= s2
    /\ \A t \in Times : grants[c][t] > 0 => \E s \in O : s <= t /\ t < s + Window
    /\ \A s \in O : grants[c][s] > 0 /\ Granted(c, s) <= PerWindow
    /\ c \in Tracked =>
          /\ clients[c].started \in O /\ \A s \in O : s <= clients[c].started
          /\ Granted(c, clients[c].started) <= clients[c].count
          /\ clients[c].count <= PerWindow
    /\ c \notin Tracked =>
          \A s \in O : \E d \in Clients, t \in Times : s + Window <= t /\ grants[d][t] > 0

GhostsOK ==
    /\ grants \in [Clients -> [Times -> Nat]]
    /\ promise \in [Clients -> [at : Int, started : Int]]
    /\ \A c \in Clients : promise[c] = NoPromise \/ promise[c].at >= promise[c].started + Window
    /\ \A r \in Calls : call[r] = Free \/ call[r].client \in Clients
    /\ Tracked \subseteq Clients

RateInv ==
    /\ IInv /\ GhostsOK
    /\ \A c \in Clients \ excused : \E O \in SUBSET Times : HadWindows(c, O)

LEMMA LimitNat == PerWindow \in Nat \ {0} /\ Enough \in Nat /\ Times \subseteq Int
    BY LimiterAssumption DEF PerWindow, Enough, Times

(* The ceiling of a division, and so the delay a client is told.           *)
LEMMA DivisionBelow ==
    ASSUME NEW a \in Int, NEW b \in Nat \ {0}
    PROVE  a \div b \in Int /\ (a \div b) * b > a - b
    BY SMT

LEMMA PromiseKept ==
    ASSUME NEW delay \in Int
    PROVE  Seconds(delay) * Second \in Int /\ Seconds(delay) * Second >= delay
    <1> DEFINE b == Second
               a == delay + b - 1
               up == a \div b
    <1>1. b \in Nat \ {0} /\ a \in Int
        BY LimiterAssumption
    <1>2. up \in Int /\ up * b > a - b
        BY <1>1, DivisionBelow
    <1>3. Seconds(delay) = IF up < 1 THEN 1 ELSE up
        BY DEF Seconds
    <1> HIDE DEF up
    <1>4. up * b >= delay
        BY <1>1, <1>2
    <1>5. CASE up < 1
        <2>1. up * b <= 0
            BY <1>1, <1>2, <1>5
        <2>2. Seconds(delay) * Second = b
            BY <1>1, <1>3, <1>5
        <2>3. up * b \in Int
            BY <1>1, <1>2
        <2>4. delay <= 0
            BY <1>4, <2>1, <2>3
        <2>5. b \in Int /\ b >= 0
            BY <1>1
        <2> HIDE DEF b
        <2> QED
            BY <2>2, <2>4, <2>5 DEF b
    <1>6. CASE ~(up < 1)
        BY <1>1, <1>2, <1>3, <1>4, <1>6
    <1> QED
        BY <1>5, <1>6

-----------------------------------------------------------------------------
(* A set of passages is finite, and within another when its grants are.    *)
LEMMA Slots == IsFiniteSet(Times \X (1..Enough))
    <1>1. IsFiniteSet(Times) /\ IsFiniteSet(1..Enough)
        BY LimiterAssumption, LimitNat, FS_Interval DEF Times
    <1> QED
        BY <1>1, FS_Product

LEMMA PassagesFinite ==
    ASSUME NEW c, NEW from
    PROVE  IsFiniteSet(Passages(c, from)) /\ Granted(c, from) \in Nat
    <1>1. Passages(c, from) \subseteq Times \X (1..Enough)
        BY DEF Passages
    <1> QED
        BY <1>1, Slots, FS_Subset, FS_CardinalityType DEF Granted

LEMMA PassagesFiniteNext ==
    ASSUME NEW c, NEW from
    PROVE  IsFiniteSet(Passages(c, from)') /\ Granted(c, from)' \in Nat
    <1>1. Passages(c, from)' \subseteq Times \X (1..Enough)
        BY DEF Passages, Times, Enough, PerWindow
    <1> QED
        BY <1>1, Slots, FS_Subset, FS_CardinalityType DEF Granted

(* Whoever's grants are the same in an interval has as many there.         *)
LEMMA SameGranted ==
    ASSUME NEW c, NEW from,
           \A t \in Times : from <= t /\ t < from + Window => grants'[c][t] = grants[c][t]
    PROVE  Granted(c, from)' = Granted(c, from)
    <1>1. Passages(c, from)' = Passages(c, from)
        BY DEF Passages, Times, Enough, PerWindow, Window
    <1> QED
        BY <1>1 DEF Granted

(* What a request that passes does to the grants.                          *)
LEMMA OnePasses ==
    ASSUME GhostsOK, NEW c \in Clients, NEW now \in Times, Passed(c, now)
    PROVE  /\ grants' \in [Clients -> [Times -> Nat]]
           /\ grants'[c][now] > 0
           /\ \A d \in Clients, t \in Times : grants'[d][t] >= grants[d][t]
           /\ \A d \in Clients, t \in Times : d # c \/ t # now => grants'[d][t] = grants[d][t]
           /\ \A from : Granted(c, from)' <= Granted(c, from) + 1
    <1> DEFINE n == grants[c][now]
               m == IF n < Enough THEN n + 1 ELSE n
    <1>1. grants \in [Clients -> [Times -> Nat]] /\ n \in Nat /\ m \in Nat /\ Enough > 0
        BY LimitNat DEF GhostsOK, Enough
    <1>2. grants' = [grants EXCEPT ![c] = [grants[c] EXCEPT ![now] = m]]
        BY <1>1 DEF Passed
    <1>3. m > 0 /\ m >= n /\ (m = n \/ (m = n + 1 /\ m <= Enough))
        BY <1>1, LimitNat
    <1> HIDE DEF n, m
    <1>4. /\ grants' \in [Clients -> [Times -> Nat]]
          /\ grants'[c][now] = m
          /\ \A d \in Clients, t \in Times : d # c \/ t # now => grants'[d][t] = grants[d][t]
        BY <1>1, <1>2
    <1>5. \A d \in Clients, t \in Times : grants'[d][t] >= grants[d][t]
        <2> SUFFICES ASSUME NEW d \in Clients, NEW t \in Times
                     PROVE  grants'[d][t] >= grants[d][t]
            OBVIOUS
        <2>1. CASE d = c /\ t = now
            BY <1>3, <1>4, <2>1 DEF n
        <2>2. CASE ~(d = c /\ t = now)
            BY <1>1, <1>4, <2>2
        <2> QED
            BY <2>1, <2>2
    <1>6. ASSUME NEW from PROVE Granted(c, from)' <= Granted(c, from) + 1
        <2> DEFINE new == <<now, m>>
                   P == Passages(c, from)
        <2>1. Passages(c, from)' \subseteq P \cup {new}
            <3> SUFFICES ASSUME NEW p \in Passages(c, from)', p # new
                         PROVE  p \in P
                OBVIOUS
            <3>1. /\ p \in Times \X (1..Enough) /\ from <= p[1] /\ p[1] < from + Window
                  /\ p[2] <= grants'[c][p[1]]
                BY DEF Passages, Times, Enough, PerWindow, Window
            <3>2. p[2] <= grants[c][p[1]]
                <4>1. CASE p[1] = now
                    <5>1. p[2] \in Nat /\ p[1] \in Times
                        BY <3>1, LimitNat
                    <5>2. p[2] # m /\ p[2] <= m
                        BY <1>4, <3>1, <4>1
                    <5>3. p[2] <= n
                        BY <1>1, <1>3, <5>1, <5>2
                    <5> QED
                        BY <4>1, <5>3 DEF n
                <4>2. CASE p[1] # now
                    BY <1>4, <3>1, <4>2
                <4> QED
                    BY <4>1, <4>2
            <3> QED
                BY <3>1, <3>2 DEF Passages
        <2>2. IsFiniteSet(P) /\ Cardinality(P) \in Nat
            BY PassagesFinite DEF Granted
        <2> HIDE DEF new, P
        <2>3. /\ IsFiniteSet(P \cup {new})
              /\ Cardinality(P \cup {new}) = Cardinality(P) \/
                 Cardinality(P \cup {new}) = Cardinality(P) + 1
            BY <2>2, FS_AddElement
        <2>4. Cardinality(Passages(c, from)') <= Cardinality(P \cup {new})
            BY <2>1, <2>3, FS_Subset
        <2>5. Granted(c, from)' = Cardinality(Passages(c, from)') /\ Granted(c, from) = Cardinality(P)
            BY DEF Granted, P
        <2>6. Granted(c, from)' \in Nat
            BY PassagesFiniteNext
        <2> QED
            BY <2>2, <2>3, <2>4, <2>5, <2>6
    <1> QED
        BY <1>3, <1>4, <1>5, <1>6

-----------------------------------------------------------------------------
(* An interval as long as a window meets at most two windows.              *)
LEMMA TwoWindows ==
    ASSUME GhostsOK, NEW c \in Clients, NEW O \in SUBSET Times, HadWindows(c, O), NEW from \in Times
    PROVE  Granted(c, from) <= 2 * PerWindow
    <1> DEFINE Met == {s \in O : from < s + Window /\ s < from + Window}
    <1>0. Window \in Nat \ {0} /\ from \in Int /\ \A s \in O : s \in Int
        BY WindowPositive, LimitNat
    <1>1. \A p \in Passages(c, from) : \E s \in Met : p \in Passages(c, s)
        <2> SUFFICES ASSUME NEW p \in Passages(c, from)
                     PROVE  \E s \in Met : p \in Passages(c, s)
            OBVIOUS
        <2>1. /\ p \in Times \X (1..Enough) /\ from <= p[1] /\ p[1] < from + Window
              /\ p[2] <= grants[c][p[1]]
            BY DEF Passages
        <2>2. p[1] \in Times /\ p[1] \in Int /\ grants[c][p[1]] > 0
            <3>1. p[1] \in Times /\ p[2] \in 1..Enough
                BY <2>1
            <3>2. grants[c][p[1]] \in Nat
                BY <3>1 DEF GhostsOK
            <3>3. p[2] \in Int /\ p[2] >= 1 /\ p[2] <= grants[c][p[1]]
                BY <2>1, <3>1, LimitNat
            <3>4. grants[c][p[1]] > 0
                BY <3>2, <3>3
            <3> QED
                BY <3>1, <3>4, LimitNat
        <2>3. PICK s \in O : s <= p[1] /\ p[1] < s + Window
            BY <2>2 DEF HadWindows
        <2>4. s \in Met
            BY <1>0, <2>1, <2>2, <2>3
        <2> QED
            BY <2>1, <2>3, <2>4 DEF Passages
    <1>2. \A s \in Met : Granted(c, s) <= PerWindow
        BY DEF HadWindows
    <1>3. ASSUME NEW s1 \in Met, NEW s2 \in Met, NEW s3 \in Met, s1 < s2, s2 < s3
          PROVE  FALSE
        <2>1. s1 + Window <= s2 /\ s2 + Window <= s3
            BY <1>3 DEF HadWindows
        <2> QED
            BY <1>0, <2>1
    <1>4. \E s1, s2 : (Met = {} \/ (s1 \in Met /\ s2 \in Met)) /\ Met \subseteq {s1, s2}
        <2>1. CASE \E s1, s2 \in Met : s1 # s2
            <3>1. PICK s1 \in Met, s2 \in Met : s1 # s2
                BY <2>1
            <3>2. ASSUME NEW s3 \in Met, s3 # s1, s3 # s2 PROVE FALSE
                <4>1. s1 \in Int /\ s2 \in Int /\ s3 \in Int
                    BY <1>0
                <4> HIDE DEF Met
                <4> QED
                    BY <1>3, <3>1, <3>2, <4>1
            <3> QED
                BY <3>1, <3>2
        <2>2. CASE ~\E s1, s2 \in Met : s1 # s2
            BY <2>2
        <2> QED
            BY <2>1, <2>2
    <1> HIDE DEF Met
    <1>5. PICK s1, s2 : (Met = {} \/ (s1 \in Met /\ s2 \in Met)) /\ Met \subseteq {s1, s2}
        BY <1>4
    <1>6. CASE Met = {}
        <2>1. Passages(c, from) = {}
            BY <1>1, <1>6
        <2> QED
            BY <2>1, FS_EmptySet, LimitNat DEF Granted
    <1>7. CASE s1 \in Met /\ s2 \in Met
        <2> DEFINE A == Passages(c, s1)
                   B == Passages(c, s2)
        <2>1. Passages(c, from) \subseteq A \cup B
            BY <1>1, <1>5
        <2>2. /\ IsFiniteSet(A) /\ IsFiniteSet(B)
              /\ Cardinality(A) \in Nat /\ Cardinality(B) \in Nat
              /\ Cardinality(A) <= PerWindow /\ Cardinality(B) <= PerWindow
            BY <1>2, <1>7, PassagesFinite DEF Granted
        <2> HIDE DEF A, B
        <2>3. /\ IsFiniteSet(A \cup B) /\ IsFiniteSet(A \cap B)
              /\ Cardinality(A \cup B) = Cardinality(A) + Cardinality(B) - Cardinality(A \cap B)
            BY <2>2, FS_Union, FS_Intersection
        <2>4. Cardinality(A \cap B) \in Nat /\ Cardinality(A \cup B) \in Nat
            BY <2>3, FS_CardinalityType
        <2>5. Granted(c, from) <= Cardinality(A \cup B) /\ Granted(c, from) \in Nat
            BY <2>1, <2>3, FS_Subset, PassagesFinite DEF Granted
        <2> QED
            BY <2>2, <2>3, <2>4, <2>5, LimitNat
    <1> QED
        BY <1>5, <1>6, <1>7

-----------------------------------------------------------------------------
(* A client whose own grants stay keeps his windows, and while he is not   *)
(* tracked somebody is past the last one.                                  *)
LEMMA WindowsStay ==
    ASSUME RateInv, NEW d \in Clients, NEW O \in SUBSET Times, HadWindows(d, O),
           \A t \in Times : grants'[d][t] = grants[d][t],
           \A e \in Clients, t \in Times : grants[e][t] > 0 => grants'[e][t] > 0,
           \/ d \in Tracked /\ d \in Tracked' /\ clients'[d] = clients[d]
           \/ /\ d \notin Tracked'
              /\ \/ d \notin Tracked
                 \/ \E e \in Clients, t \in Times :
                        clients[d].started + Window <= t /\ grants'[e][t] > 0
    PROVE  HadWindows(d, O)'
    <1> DEFINE s0 == clients[d].started
    <1>0. Window \in Nat /\ Times \subseteq Int
        BY WindowPositive, LimitNat
    <1>1. \A from : Granted(d, from)' = Granted(d, from)
        <2> SUFFICES ASSUME NEW from PROVE Granted(d, from)' = Granted(d, from)
            OBVIOUS
        <2> QED
            BY SameGranted
    <1>2. \A from : (Granted(d, from) <= PerWindow)' <=> Granted(d, from) <= PerWindow
        BY <1>1 DEF PerWindow
    <1>3. CASE d \in Tracked /\ d \in Tracked' /\ clients'[d] = clients[d]
        BY <1>1, <1>3 DEF HadWindows, Times, Window, PerWindow
    <1>4. CASE d \notin Tracked' /\ d \notin Tracked
        BY <1>1, <1>4 DEF HadWindows, Times, Window, PerWindow
    <1>5. ASSUME d \notin Tracked', d \in Tracked, NEW e \in Clients, NEW t \in Times,
                 s0 + Window <= t, grants'[e][t] > 0
          PROVE  HadWindows(d, O)'
        <2>1. s0 \in O /\ \A s \in O : s <= s0
            BY <1>5 DEF HadWindows
        <2>2. ASSUME NEW s \in O PROVE s + Window <= t
            <3>1. s \in Int /\ s0 \in Int /\ t \in Int /\ s <= s0 /\ s0 + Window <= t
                BY <1>0, <1>5, <2>1
            <3> HIDE DEF s0
            <3> QED
                BY <1>0, <3>1
        <2>3. \A s \in O : \E f \in Clients, u \in Times : s + Window <= u /\ grants'[f][u] > 0
            BY <1>5, <2>2
        <2> QED
            BY <1>1, <1>5, <2>3 DEF HadWindows, Times, Window, PerWindow
    <1> QED
        BY <1>3, <1>4, <1>5

(* A step that lets nobody pass and leaves the table alone.                *)
LEMMA NobodyPasses ==
    ASSUME RateInv, IInv', UNCHANGED <<clients, grants, excused>>,
           promise' \in [Clients -> [at : Int, started : Int]],
           \A c \in Clients :
               promise'[c] = NoPromise \/ promise'[c].at >= promise'[c].started + Window,
           \A r \in Calls : call'[r] = Free \/ call'[r].client \in Clients
    PROVE  RateInv'
    <1>1. GhostsOK'
        BY DEF RateInv, GhostsOK, Tracked, NoPromise, Window, Free, Times
    <1>2. ASSUME NEW c \in Clients \ excused PROVE \E O \in SUBSET Times : HadWindows(c, O)'
        <2>1. PICK O \in SUBSET Times : HadWindows(c, O)
            BY DEF RateInv
        <2>2. Tracked' = Tracked
            BY DEF Tracked
        <2>3. HadWindows(c, O)'
            BY <2>1, <2>2, WindowsStay
        <2> QED
            BY <2>3
    <1> QED
        BY <1>1, <1>2 DEF RateInv, Times

LEMMA CallsFreed ==
    ASSUME RateInv, NEW r \in Calls, Answered(r)
    PROVE  \A q \in Calls : call'[q] = Free \/ call'[q].client \in Clients
    BY DEF RateInv, IInv, LimiterTypeOK, GhostsOK, Answered

LEMMA RefuseRate ==
    ASSUME RateInv, IInv', NEW r \in Calls, Refuse(r)
    PROVE  RateInv'
    <1> DEFINE c == call[r].client
               now == call[r].now
               started == clients[c].started
               delay == Window - (now - started)
               new == [at |-> now + Seconds(delay) * Second, started |-> started]
    <1>1. /\ c \in Clients /\ c \in Tracked /\ now \in Int /\ started \in Int
          /\ promise' = [promise EXCEPT ![c] = new]
          /\ Answered(r) /\ UNCHANGED <<clients, grants, excused>>
        BY Requests, LimitNat DEF Refuse, InWindow, RateInv, GhostsOK, IInv, LimiterTypeOK
    <1>2. Window \in Nat
        BY WindowPositive
    <1> HIDE DEF c, now, started
    <1>3. /\ Seconds(delay) * Second \in Int /\ Seconds(delay) * Second >= delay
          /\ delay = Window - (now - started)
        BY <1>1, <1>2, PromiseKept
    <1> HIDE DEF delay
    <1>4. new \in [at : Int, started : Int] /\ new.at >= new.started + Window
        BY <1>1, <1>2, <1>3
    <1> HIDE DEF new
    <1>5. /\ promise' \in [Clients -> [at : Int, started : Int]]
          /\ \A d \in Clients :
                 promise'[d] = NoPromise \/ promise'[d].at >= promise'[d].started + Window
        BY <1>1, <1>4 DEF RateInv, GhostsOK
    <1> QED
        BY <1>1, <1>5, CallsFreed, NobodyPasses

(* Another request passes within the window of its client.                 *)
LEMMA AllowRate ==
    ASSUME RateInv, IInv', NEW r \in Calls, AllowInWindow(r)
    PROVE  RateInv'
    <1>0. call[r].client \in Clients /\ call[r].now \in Times
        BY Requests DEF AllowInWindow, RateInv, GhostsOK
    <1> DEFINE Moved(c, now) ==
                   /\ InWindow(c, now) /\ clients[c].count < PerWindow
                   /\ clients' = [clients EXCEPT ![c].count = @ + 1]
                   /\ Passed(c, now) /\ Answered(r) /\ UNCHANGED <<promise, excused>>
    <1>1. PICK c \in Clients, now \in Times : Moved(c, now)
        BY <1>0 DEF AllowInWindow
    <1>a. PICK s0 \in Times, n \in Nat : c \in Tracked => clients[c].started = s0 /\ clients[c].count = n
        BY LimiterAssumption DEF RateInv, IInv, LimiterTypeOK, Times
    <1>2. /\ c \in Tracked /\ clients[c] = [started |-> s0, count |-> n]
          /\ s0 \in Int /\ now \in Int /\ n \in Nat /\ n < PerWindow /\ PerWindow \in Nat
          /\ s0 <= now /\ now < s0 + Window /\ Window \in Nat
        BY <1>1, <1>a, LimitNat, WindowPositive DEF InWindow, RateInv, IInv, LimiterTypeOK
    <1>3. /\ Tracked' = Tracked
          /\ clients'[c].started = s0 /\ clients'[c].count = n + 1
          /\ \A d \in Tracked \ {c} : clients'[d] = clients[d]
        BY <1>1, <1>2 DEF Tracked
    <1>4. /\ grants' \in [Clients -> [Times -> Nat]]
          /\ grants'[c][now] > 0
          /\ \A d \in Clients, t \in Times : grants'[d][t] >= grants[d][t]
          /\ \A d \in Clients, t \in Times : d # c \/ t # now => grants'[d][t] = grants[d][t]
          /\ \A from : Granted(c, from)' <= Granted(c, from) + 1
        BY <1>1, OnePasses DEF RateInv
    <1>5. \A d \in Clients, t \in Times : grants[d][t] > 0 => grants'[d][t] > 0
        <2>1. grants \in [Clients -> [Times -> Nat]]
            BY DEF RateInv, GhostsOK
        <2>2. \A d \in Clients, t \in Times : grants[d][t] \in Int /\ grants'[d][t] \in Int
            BY <1>4, <2>1
        <2> QED
            BY <1>4, <2>2
    <1>6. GhostsOK'
        BY <1>1, <1>3, <1>4, CallsFreed
        DEF RateInv, GhostsOK, NoPromise, Window, Free, Times
    <1>7. ASSUME NEW d \in Clients \ excused, d # c PROVE \E O \in SUBSET Times : HadWindows(d, O)'
        <2>1. PICK O \in SUBSET Times : HadWindows(d, O)
            BY <1>7 DEF RateInv
        <2>2. HadWindows(d, O)'
            BY <1>3, <1>4, <1>5, <1>7, <2>1, WindowsStay
        <2> QED
            BY <2>2
    <1>8. ASSUME c \notin excused PROVE \E O \in SUBSET Times : HadWindows(c, O)'
        <2>1. PICK O \in SUBSET Times : HadWindows(c, O)
            BY <1>1, <1>8 DEF RateInv
        <2>2. /\ s0 \in O /\ \A s \in O : s <= s0
              /\ Granted(c, s0) <= n /\ n <= PerWindow
              /\ \A s1, s2 \in O : s1 < s2 => s1 + Window <= s2
              /\ \A s \in O : grants[c][s] > 0 /\ Granted(c, s) <= PerWindow
              /\ \A t \in Times : grants[c][t] > 0 => \E s \in O : s <= t /\ t < s + Window
            BY <1>2, <2>1 DEF HadWindows
        <2>3. Granted(c, s0)' <= n + 1
            <3>1. Granted(c, s0) \in Nat /\ Granted(c, s0)' \in Nat
                BY PassagesFinite, PassagesFiniteNext
            <3>2. Granted(c, s0)' <= Granted(c, s0) + 1
                BY <1>4
            <3> QED
                BY <1>2, <2>2, <3>1, <3>2
        <2>4. ASSUME NEW s \in O PROVE grants'[c][s] > 0 /\ Granted(c, s)' <= PerWindow
            <3>1. grants'[c][s] > 0
                BY <1>5, <2>2
            <3>2. CASE s = s0
                <4>1. Granted(c, s0)' \in Nat
                    BY PassagesFiniteNext
                <4> QED
                    BY <1>2, <2>3, <3>1, <3>2, <4>1
            <3>3. CASE s # s0
                <4>1. s \in Int /\ s <= s0
                    BY <2>2, LimitNat
                <4>2. s + Window <= now
                    BY <1>2, <2>2, <3>3, <4>1
                <4>3. \A t \in Times : s <= t /\ t < s + Window => grants'[c][t] = grants[c][t]
                    BY <1>2, <1>4, <4>1, <4>2, LimitNat
                <4>4. Granted(c, s)' = Granted(c, s)
                    BY <4>3, SameGranted
                <4> QED
                    BY <2>2, <3>1, <4>4
            <3> QED
                BY <3>2, <3>3
        <2>5. ASSUME NEW t \in Times, grants'[c][t] > 0
              PROVE  \E s \in O : s <= t /\ t < s + Window
            <3>1. CASE t = now
                BY <1>2, <2>2, <3>1
            <3>2. CASE t # now
                BY <1>4, <2>2, <2>5, <3>2
            <3> QED
                BY <3>1, <3>2
        <2>6. HadWindows(c, O)'
            <3>1. PerWindow' = PerWindow /\ Window' = Window /\ Times' = Times
                BY DEF PerWindow, Window, Times
            <3>2. /\ c \in Tracked' /\ clients'[c].started = s0 /\ clients'[c].count = n + 1
                  /\ n + 1 <= PerWindow
                BY <1>2, <1>3
            <3> QED
                BY <2>2, <2>3, <2>4, <2>5, <3>1, <3>2 DEF HadWindows
        <2> QED
            BY <2>6
    <1> QED
        <2>1. excused' = excused
            BY <1>1
        <2>2. \A d \in Clients \ excused : \E O \in SUBSET Times : HadWindows(d, O)'
            BY <1>7, <1>8
        <2> QED
            BY <1>6, <2>1, <2>2 DEF RateInv, Times

(* A new window: of the client itself, and what it does to the others.     *)
LEMMA FirstRate ==
    ASSUME RateInv, IInv', NEW r \in Calls, AllowFirst(r)
    PROVE  RateInv'
    <1>0. call[r].client \in Clients /\ call[r].now \in Times
        BY Requests DEF AllowFirst, RateInv, GhostsOK
    <1> DEFINE Moved(c, now) ==
                   /\ ~InWindow(c, now)
                   /\ clients' \in Bounded(Opened(c, now), now)
                   /\ Passed(c, now) /\ Answered(r) /\ UNCHANGED promise
                   /\ excused' = excused \cup {d \in (Tracked \cup {c}) \ DOMAIN clients' :
                                                  d = c \/ now - clients[d].started < Window}
                                         \cup (IF OutOfOrder(c, now) THEN {c} ELSE {})
    <1>1. PICK c \in Clients, now \in Times : Moved(c, now)
        BY <1>0 DEF AllowFirst
    <1>2. /\ ~InWindow(c, now) /\ Passed(c, now) /\ Answered(r) /\ UNCHANGED promise
          /\ \A d \in Clients \ excused' :
                /\ d \notin excused
                /\ d \in (Tracked \cup {c}) /\ d \notin Tracked' =>
                      d # c /\ ~(now - clients[d].started < Window)
                /\ d = c => ~OutOfOrder(c, now)
        BY <1>1 DEF Tracked
    <1>3. /\ Tracked' \subseteq Tracked \cup {c}
          /\ \A d \in Tracked' : clients'[d] = Opened(c, now)[d]
          /\ Opened(c, now)[c] = [started |-> now, count |-> 1]
          /\ \A d \in Tracked \ {c} : Opened(c, now)[d] = clients[d]
        <2> DEFINE table == Opened(c, now)
        <2>1. /\ DOMAIN table = Tracked \cup {c} /\ IsFiniteSet(DOMAIN table)
              /\ Cardinality(DOMAIN table) <= MaxTracked + 1
              /\ table[c] = [started |-> now, count |-> 1]
              /\ \A d \in Tracked \ {c} : table[d] = clients[d]
            BY OneMore DEF RateInv
        <2>2. clients' \in Bounded(table, now)
            BY <1>1
        <2> HIDE DEF table
        <2>3. /\ DOMAIN clients' \subseteq DOMAIN table
              /\ \A d \in DOMAIN clients' : clients'[d] = table[d]
            BY <2>1, <2>2, BoundedTable
        <2> QED
            BY <2>1, <2>3 DEF Tracked, table
    <1>4. /\ grants' \in [Clients -> [Times -> Nat]]
          /\ grants'[c][now] > 0
          /\ \A d \in Clients, t \in Times : grants'[d][t] >= grants[d][t]
          /\ \A d \in Clients, t \in Times : d # c \/ t # now => grants'[d][t] = grants[d][t]
          /\ \A from : Granted(c, from)' <= Granted(c, from) + 1
        BY <1>2, OnePasses DEF RateInv
    <1>5. \A d \in Clients, t \in Times : grants[d][t] > 0 => grants'[d][t] > 0
        <2>1. grants \in [Clients -> [Times -> Nat]]
            BY DEF RateInv, GhostsOK
        <2>2. \A d \in Clients, t \in Times : grants[d][t] \in Int /\ grants'[d][t] \in Int
            BY <1>4, <2>1
        <2> QED
            BY <1>4, <2>2
    <1>6. GhostsOK'
        BY <1>2, <1>3, <1>4, CallsFreed DEF RateInv, GhostsOK, NoPromise, Window, Free, Times
    <1>7. Window \in Nat \ {0} /\ now \in Int /\ PerWindow \in Nat \ {0} /\ Times \subseteq Int
        BY WindowPositive, LimitNat
    <1>8. ASSUME NEW d \in Clients \ excused', d # c PROVE \E O \in SUBSET Times : HadWindows(d, O)'
        <2>1. PICK O \in SUBSET Times : HadWindows(d, O)
            BY <1>2, <1>8 DEF RateInv
        <2>2. CASE d \in Tracked'
            <3>1. d \in Tracked /\ clients'[d] = clients[d]
                BY <1>3, <1>8, <2>2
            <3>2. HadWindows(d, O)'
                BY <1>4, <1>5, <1>8, <2>1, <2>2, <3>1, WindowsStay
            <3> QED
                BY <3>2
        <2>3. CASE d \notin Tracked' /\ d \notin Tracked
            <3>1. HadWindows(d, O)'
                BY <1>4, <1>5, <1>8, <2>1, <2>3, WindowsStay
            <3> QED
                BY <3>1
        <2>4. CASE d \notin Tracked' /\ d \in Tracked
            <3>1. clients[d].started \in Int /\ ~(now - clients[d].started < Window)
                BY <1>2, <1>7, <1>8, <2>4 DEF RateInv, IInv, LimiterTypeOK
            <3>2. clients[d].started + Window <= now
                BY <1>7, <3>1
            <3>3. HadWindows(d, O)'
                BY <1>4, <1>5, <1>8, <2>1, <2>4, <3>2, WindowsStay
            <3> QED
                BY <3>3
        <2> QED
            BY <2>2, <2>3, <2>4
    <1>9. ASSUME c \notin excused' PROVE \E O \in SUBSET Times : HadWindows(c, O)'
        <2>1. PICK O \in SUBSET Times : HadWindows(c, O)
            BY <1>2, <1>9 DEF RateInv
        <2>2. /\ \A s1, s2 \in O : s1 < s2 => s1 + Window <= s2
              /\ \A s \in O : grants[c][s] > 0 /\ Granted(c, s) <= PerWindow
              /\ \A t \in Times : grants[c][t] > 0 => \E s \in O : s <= t /\ t < s + Window
            BY <2>1 DEF HadWindows
        <2>3. c \in Tracked' /\ ~OutOfOrder(c, now)
            BY <1>2, <1>9
        <2>4. ASSUME NEW s \in O PROVE s \in Int /\ s + Window <= now
            <3>1. s \in Times /\ s \in Int /\ grants[c][s] > 0
                BY <1>7, <2>2
            <3>2. \A d \in Clients, t \in Times : grants[d][t] > 0 => ~(t > now)
                BY <2>3, <3>1 DEF OutOfOrder
            <3>3. CASE c \in Tracked
                <4>1. PICK s0 \in Times : s0 = clients[c].started
                    BY <3>3 DEF RateInv, IInv, LimiterTypeOK
                <4>2. s0 \in O /\ s <= s0 /\ s0 \in Int
                    BY <1>7, <2>1, <3>3, <4>1 DEF HadWindows
                <4>3. ~(s0 > now)
                    BY <2>2, <3>2, <4>2
                <4>4. s0 + Window <= now
                    BY <1>2, <1>7, <3>3, <4>1, <4>2, <4>3 DEF InWindow
                <4> QED
                    BY <1>7, <3>1, <4>2, <4>4
            <3>4. CASE c \notin Tracked
                <4>1. PICK d \in Clients, t \in Times : s + Window <= t /\ grants[d][t] > 0
                    BY <2>1, <3>4 DEF HadWindows
                <4>2. ~(t > now) /\ t \in Int
                    BY <1>7, <3>2, <4>1
                <4> QED
                    BY <1>7, <3>1, <4>1, <4>2
            <3> QED
                BY <3>3, <3>4
        <2>5. \A t \in Times : grants[c][t] > 0 => t < now
            <3> SUFFICES ASSUME NEW t \in Times, grants[c][t] > 0 PROVE t < now
                OBVIOUS
            <3>1. PICK s \in O : s <= t /\ t < s + Window
                BY <2>2
            <3>2. s \in Int /\ s + Window <= now
                BY <2>4
            <3>3. t \in Int
                BY <1>7
            <3> QED
                BY <1>7, <3>1, <3>2, <3>3
        <2> DEFINE N == O \cup {now}
        <2>6. Granted(c, now)' \in Nat /\ Granted(c, now)' <= 1
            <3>1. Passages(c, now) = {}
                <4> SUFFICES ASSUME NEW p \in Passages(c, now) PROVE FALSE
                    OBVIOUS
                <4>1. /\ p[1] \in Times /\ p[2] \in 1..Enough /\ now <= p[1]
                      /\ p[2] <= grants[c][p[1]]
                    BY DEF Passages
                <4>2. grants[c][p[1]] \in Nat /\ p[1] \in Int
                    BY <1>7, <4>1 DEF RateInv, GhostsOK
                <4>3. p[2] \in Int /\ p[2] >= 1
                    BY <4>1, LimitNat
                <4>4. grants[c][p[1]] > 0
                    BY <4>1, <4>2, <4>3
                <4>5. p[1] < now
                    BY <2>5, <4>1, <4>4
                <4> QED
                    BY <1>7, <4>1, <4>2, <4>5
            <3>2. Granted(c, now) = 0
                BY <3>1, FS_EmptySet DEF Granted
            <3>3. Granted(c, now)' <= Granted(c, now) + 1
                BY <1>4
            <3> QED
                BY <3>2, <3>3, PassagesFiniteNext
        <2>7. ASSUME NEW s \in O PROVE grants'[c][s] > 0 /\ Granted(c, s)' <= PerWindow
            <3>1. \A t \in Times : s <= t /\ t < s + Window => grants'[c][t] = grants[c][t]
                BY <1>4, <1>7, <2>4
            <3>2. Granted(c, s)' = Granted(c, s)
                BY <3>1, SameGranted
            <3> QED
                BY <1>5, <2>2, <3>2
        <2>8. HadWindows(c, N)'
            <3>1. PerWindow' = PerWindow /\ Window' = Window /\ Times' = Times
                BY DEF PerWindow, Window, Times
            <3>2. N \subseteq Times /\ \A s \in N : s \in Int /\ s <= now
                BY <1>7, <2>4
            <3>3. \A s1, s2 \in N : s1 < s2 => s1 + Window <= s2
                BY <1>7, <2>2, <2>4
            <3>4. ASSUME NEW t \in Times, grants'[c][t] > 0
                  PROVE  \E s \in N : s <= t /\ t < s + Window
                BY <1>4, <1>7, <2>2, <3>4
            <3>5. \A s \in N : grants'[c][s] > 0 /\ Granted(c, s)' <= PerWindow
                BY <1>4, <1>7, <2>6, <2>7
            <3>6. clients'[c].started = now /\ clients'[c].count = 1
                BY <1>3, <2>3
            <3>7. now \in N /\ 1 <= PerWindow /\ Granted(c, now)' <= 1
                BY <1>7, <2>6
            <3> HIDE DEF N
            <3> QED
                BY <2>3, <3>1, <3>2, <3>3, <3>4, <3>5, <3>6, <3>7 DEF HadWindows
        <2> QED
            BY <2>8
    <1> QED
        <2>1. \A d \in Clients \ excused' : \E O \in SUBSET Times : HadWindows(d, O)'
            BY <1>8, <1>9
        <2> QED
            BY <1>6, <2>1 DEF RateInv, Times

-----------------------------------------------------------------------------
LEMMA InitRate == LimiterInit => RateInv
    <1> SUFFICES ASSUME LimiterInit PROVE RateInv
        OBVIOUS
    <1>1. IInv /\ Tracked = {}
        BY InitInvariant DEF LimiterInit, Tracked
    <1>2. GhostsOK
        BY <1>1 DEF LimiterInit, GhostsOK, NoPromise
    <1>3. ASSUME NEW c \in Clients PROVE HadWindows(c, {})
        BY <1>1 DEF LimiterInit, HadWindows
    <1> QED
        BY <1>1, <1>2, <1>3 DEF RateInv

LEMMA NextRate == RateInv /\ [LimiterNext]_limiterVars => RateInv'
    <1> SUFFICES ASSUME RateInv, [LimiterNext]_limiterVars PROVE RateInv'
        OBVIOUS
    <1>0. IInv'
        BY NextInvariant DEF RateInv
    <1>1. CASE Tick \/ UNCHANGED limiterVars
        BY <1>0, <1>1, NobodyPasses DEF Tick, limiterVars, RateInv, GhostsOK
    <1>2. ASSUME NEW r \in Calls, NEW c \in Clients, Enter(r, c) PROVE RateInv'
        <2>1. \A q \in Calls : call'[q] = Free \/ call'[q].client \in Clients
            BY <1>2 DEF Enter, RateInv, GhostsOK, IInv, LimiterTypeOK
        <2> QED
            BY <1>0, <1>2, <2>1, NobodyPasses DEF Enter, RateInv, GhostsOK
    <1> QED
        BY <1>0, <1>1, <1>2, AllowRate, RefuseRate, FirstRate DEF LimiterNext

(* The limiter admits its limit in a window and no more than twice that in *)
(* any interval as long, and a refused client is told when his window is   *)
(* over (ratelimit.go:48-69, 100-118), for any clients, requests, limit    *)
(* and window, but for those whose window was evicted or judged late.      *)
THEOREM RateIsBounded == LimiterSpec => []RateBounded
    <1>1. RateInv => RateBounded
        <2> SUFFICES ASSUME RateInv, NEW c \in Clients \ excused
                     PROVE  /\ c \in Tracked => Granted(c, clients[c].started) <= PerWindow
                            /\ \A t \in Times : Granted(c, t) <= 2 * PerWindow
                            /\ c \in Tracked /\ promise[c] # NoPromise
                               /\ promise[c].started = clients[c].started
                                   => ~InWindow(c, promise[c].at)
            BY DEF RateBounded
        <2>1. PICK O \in SUBSET Times : HadWindows(c, O)
            BY DEF RateInv
        <2>2. c \in Tracked => Granted(c, clients[c].started) <= PerWindow
            BY <2>1 DEF HadWindows
        <2>3. \A t \in Times : Granted(c, t) <= 2 * PerWindow
            BY <2>1, TwoWindows DEF RateInv
        <2>4. ASSUME c \in Tracked, promise[c] # NoPromise,
                     promise[c].started = clients[c].started
              PROVE  ~InWindow(c, promise[c].at)
            <3>1. /\ promise[c].at \in Int /\ promise[c].started \in Int
                  /\ promise[c].at >= promise[c].started + Window /\ Window \in Nat
                BY <2>4, WindowPositive DEF RateInv, GhostsOK
            <3> QED
                BY <2>4, <3>1 DEF InWindow
        <2> QED
            BY <2>2, <2>3, <2>4
    <1> QED
        BY InitRate, NextRate, <1>1, PTL DEF LimiterSpec
=============================================================================
