------------------------- MODULE ApplicationsProofs --------------------------
(***************************************************************************)
(* The quota of applications holds for any users, names, requests and any  *)
(* quota, whatever runs at the same time.  It is not inductive alone: that *)
(* a creation may insert rests on the count it has made, which is still    *)
(* good because nobody else can be between his count and his insert, which *)
(* rests on the mutex.  And nobody's rows change but by his own session or *)
(* token, nor become another's: what a handler has read about its caller   *)
(* and the rows it is about is still true when it writes, or the row gone. *)
(***************************************************************************)
EXTENDS Applications, FiniteSetTheorems, TLAPS

Owned(u) == {a \in AppIds : Visible(a, u)}

Creating(r) == request[r].op = "createApp" /\ request[r].pc \in {"count", "insert"}
Inserting(r) == request[r].op = "createApp" /\ request[r].pc = "insert"

IsRequest(x) ==
    x = [pc |-> x.pc, op |-> x.op, credential |-> x.credential, identity |-> x.identity,
         about |-> x.about, found |-> x.found, late |-> x.late]
IsApp(x) == x = [name |-> x.name, owner |-> x.owner, installation |-> x.installation]

RequestsShaped ==
    /\ request = [r \in Requests |-> request[r]]
    /\ \A r \in Requests : IsRequest(request[r])
AppsShaped ==
    /\ apps = [a \in AppIds |-> apps[a]]
    /\ \A a \in AppIds : Exists(a) => IsApp(apps[a])

(* A creation that counts holds the mutex until its row is there, and the  *)
(* count it goes by is still true.                                         *)
CountsHold ==
    MaxAppsPerUser > 0 =>
        \A r \in Requests :
            /\ Creating(r) => createMu = r
            /\ \A u \in UserIds :
                   Inserting(r) /\ Who(r) = u => Count(u) < MaxAppsPerUser

IInv == RequestsShaped /\ AppsShaped /\ CountsHold /\ QuotaHolds

(* The server has just started, or is at rest: nobody is in it, and nobody *)
(* has more than the quota.  MCApplications starts from such states.       *)
Quiet ==
    /\ RequestsShaped /\ AppsShaped /\ QuotaHolds
    /\ \A r \in Requests : request[r].pc \in {"unsent", "answered"}

-----------------------------------------------------------------------------
LEMMA QuotaIsNat == MaxAppsPerUser \in Nat /\ MaxApps \in Nat /\ Nobody \notin UserIds \cup Requests
    BY QuotaAssumption, AccessAssumption DEF Requests

LEMMA OwnedFinite ==
    ASSUME NEW u
    PROVE  IsFiniteSet(Owned(u)) /\ Count(u) = Cardinality(Owned(u)) /\ Count(u) \in Nat
    <1>1. IsFiniteSet(AppIds)
        BY QuotaIsNat, FS_Interval DEF AppIds
    <1>2. IsFiniteSet(Owned(u))
        BY <1>1, FS_Subset DEF Owned
    <1>3. Count(u) = Cardinality(Owned(u))
        BY DEF Count, Owned
    <1> QED
        BY <1>2, <1>3, FS_CardinalityType

LEMMA OwnedFiniteNext ==
    ASSUME NEW u
    PROVE  IsFiniteSet(Owned(u)') /\ Count(u)' = Cardinality(Owned(u)') /\ Count(u)' \in Nat
    <1>1. IsFiniteSet(AppIds)
        BY QuotaIsNat, FS_Interval DEF AppIds
    <1>2. IsFiniteSet(Owned(u)')
        BY <1>1, FS_Subset DEF Owned, AppIds
    <1>3. Count(u)' = Cardinality(Owned(u)')
        BY DEF Count, Owned, AppIds
    <1> QED
        BY <1>2, <1>3, FS_CardinalityType

(* Who loses applications, or none, has no more of them.                   *)
LEMMA CountShrinks ==
    ASSUME NEW u, Owned(u)' \subseteq Owned(u)
    PROVE  Count(u)' <= Count(u)
    BY OwnedFinite, OwnedFiniteNext, FS_Subset

-----------------------------------------------------------------------------
(* A request stays one when fields of it are given other values.           *)
LEMMA Setting_pc ==
    ASSUME NEW x, IsRequest(x), NEW v, NEW y, y = [x EXCEPT !.pc = v]
    PROVE  IsRequest(y) /\ y.pc = v /\ y.op = x.op
    BY SMT DEF IsRequest

LEMMA Setting_op ==
    ASSUME NEW x, IsRequest(x), NEW v, NEW y, y = [x EXCEPT !.op = v]
    PROVE  IsRequest(y) /\ y.op = v /\ y.pc = x.pc
    BY SMT DEF IsRequest

LEMMA Setting_credential ==
    ASSUME NEW x, IsRequest(x), NEW v, NEW y, y = [x EXCEPT !.credential = v]
    PROVE  IsRequest(y) /\ y.credential = v /\ y.op = x.op /\ y.pc = x.pc
    BY SMT DEF IsRequest

LEMMA Setting_about ==
    ASSUME NEW x, IsRequest(x), NEW v, NEW y, y = [x EXCEPT !.about = v]
    PROVE  IsRequest(y) /\ y.about = v /\ y.op = x.op /\ y.pc = x.pc
    BY SMT DEF IsRequest

LEMMA Setting_found ==
    ASSUME NEW x, IsRequest(x), NEW v, NEW y, y = [x EXCEPT !.found = v]
    PROVE  IsRequest(y) /\ y.found = v /\ y.op = x.op /\ y.pc = x.pc
    BY SMT DEF IsRequest

LEMMA Setting_late ==
    ASSUME NEW x, IsRequest(x), NEW v, NEW y, y = [x EXCEPT !.late = v]
    PROVE  IsRequest(y) /\ y.late = v /\ y.op = x.op /\ y.pc = x.pc
    BY SMT DEF IsRequest

LEMMA Setting_identity ==
    ASSUME NEW x, IsRequest(x), NEW v, NEW y, y = [x EXCEPT !.identity = v]
    PROVE  IsRequest(y) /\ y.identity = v /\ y.op = x.op /\ y.pc = x.pc
    BY SMT DEF IsRequest

LEMMA UnsentIsRequest == IsRequest(Unsent)
    BY DEF IsRequest, Unsent

LEMMA AnsweredIsRequest ==
    ASSUME NEW o
    PROVE  LET new == [Unsent EXCEPT !.pc = "answered", !.op = o]
           IN  IsRequest(new) /\ new.pc = "answered"
    <1> DEFINE one == [Unsent EXCEPT !.pc = "answered"]
               two == [one EXCEPT !.op = o]
               new == [Unsent EXCEPT !.pc = "answered", !.op = o]
    <1>1. IsRequest(one) /\ one.pc = "answered"
        <2>1. one = [Unsent EXCEPT !.pc = "answered"]
            OBVIOUS
        <2> HIDE DEF one
        <2> QED
            BY UnsentIsRequest, <2>1, Setting_pc
    <1>2. IsRequest(two) /\ two.pc = "answered"
        <2> HIDE DEF one
        <2>1. two = [one EXCEPT !.op = o]
            OBVIOUS
        <2> HIDE DEF two
        <2> QED
            BY <1>1, <2>1, Setting_op
    <1>3. new = two
        OBVIOUS
    <1> HIDE DEF new, two
    <1> QED
        BY <1>2, <1>3 DEF new

LEMMA FoundIsRequest ==
    ASSUME NEW x, IsRequest(x), NEW pc, NEW what
    PROVE  LET new == [x EXCEPT !.pc = pc, !.found = what]
           IN  IsRequest(new) /\ new.pc = pc
    <1> DEFINE one == [x EXCEPT !.pc = pc]
               two == [one EXCEPT !.found = what]
               new == [x EXCEPT !.pc = pc, !.found = what]
    <1>1. IsRequest(one) /\ one.pc = pc
        <2>1. one = [x EXCEPT !.pc = pc]
            OBVIOUS
        <2> HIDE DEF one
        <2> QED
            BY <2>1, Setting_pc
    <1>2. IsRequest(two) /\ two.pc = pc
        <2> HIDE DEF one
        <2>1. two = [one EXCEPT !.found = what]
            OBVIOUS
        <2> HIDE DEF two
        <2> QED
            BY <1>1, <2>1, Setting_found
    <1>3. new = two
        OBVIOUS
    <1> HIDE DEF new, two
    <1> QED
        BY <1>2, <1>3 DEF new

LEMMA AdmittedIsRequest ==
    ASSUME NEW x, IsRequest(x), NEW pc, NEW who
    PROVE  LET new == [x EXCEPT !.pc = pc, !.found = Nobody, !.identity = who]
           IN  IsRequest(new) /\ new.pc = pc
    <1> DEFINE one == [x EXCEPT !.pc = pc]
               two == [one EXCEPT !.found = Nobody]
               three == [two EXCEPT !.identity = who]
               new == [x EXCEPT !.pc = pc, !.found = Nobody, !.identity = who]
    <1>1. IsRequest(one) /\ one.pc = pc
        <2>1. one = [x EXCEPT !.pc = pc]
            OBVIOUS
        <2> HIDE DEF one
        <2> QED
            BY <2>1, Setting_pc
    <1>2. IsRequest(two) /\ two.pc = pc
        <2> HIDE DEF one
        <2>1. two = [one EXCEPT !.found = Nobody]
            OBVIOUS
        <2> HIDE DEF two
        <2> QED
            BY <1>1, <2>1, Setting_found
    <1>3. IsRequest(three) /\ three.pc = pc
        <2> HIDE DEF two
        <2>1. three = [two EXCEPT !.identity = who]
            OBVIOUS
        <2> HIDE DEF three
        <2> QED
            BY <1>2, <2>1, Setting_identity
    <1>4. new = three
        OBVIOUS
    <1> HIDE DEF new, three
    <1> QED
        BY <1>3, <1>4 DEF new

-----------------------------------------------------------------------------
(* Every step that creates nothing: a request goes elsewhere than to a     *)
(* count or an insert, the mutex stays or is given back by its holder, and *)
(* nobody gets an application.                                             *)
LEMMA Elsewhere ==
    ASSUME IInv, NEW r \in Requests, NEW new, IsRequest(new),
           request' = [request EXCEPT ![r] = new],
           new.op = "createApp" => new.pc \notin {"count", "insert"},
           createMu' = createMu \/ createMu = r,
           AppsShaped', \A u \in UserIds : Owned(u)' \subseteq Owned(u)
    PROVE  IInv'
    <1>1. /\ request'[r] = new
          /\ \A q \in Requests \ {r} : request'[q] = request[q]
          /\ request' = [q \in Requests |-> request'[q]]
        BY DEF IInv, RequestsShaped
    <1>2. RequestsShaped'
        BY <1>1 DEF IInv, RequestsShaped, Requests
    <1>3. \A u \in UserIds : Count(u)' <= Count(u) /\ Count(u) \in Nat /\ Count(u)' \in Nat
        BY CountShrinks, OwnedFinite, OwnedFiniteNext
    <1>4. QuotaHolds'
        BY <1>3, QuotaIsNat DEF IInv, QuotaHolds
    <1>5. CountsHold'
        <2> SUFFICES ASSUME MaxAppsPerUser > 0, NEW q \in Requests, Creating(q)'
                     PROVE  /\ createMu' = q
                            /\ \A u \in UserIds :
                                   Inserting(q)' /\ Who(q)' = u => Count(u)' < MaxAppsPerUser
            BY DEF CountsHold, Creating, Inserting, Requests
        <2>1. q # r /\ request'[q] = request[q]
            BY <1>1 DEF Creating
        <2>2. Creating(q) /\ createMu = q
            BY <2>1 DEF IInv, CountsHold, Creating
        <2>3. ASSUME NEW u \in UserIds, Inserting(q)', Who(q)' = u
              PROVE  Count(u)' < MaxAppsPerUser
            <3>1. Inserting(q) /\ Who(q) = u
                BY <2>1, <2>3 DEF Inserting, Who
            <3>2. Count(u) < MaxAppsPerUser
                BY <3>1 DEF IInv, CountsHold
            <3> QED
                BY <3>2, <1>3, QuotaIsNat
        <2> QED
            BY <2>1, <2>2, <2>3
    <1> QED
        BY <1>2, <1>4, <1>5 DEF IInv

LEMMA AnswerElsewhere ==
    ASSUME IInv, NEW r \in Requests, Answer(r), createMu' = createMu \/ createMu = r,
           AppsShaped', \A u \in UserIds : Owned(u)' \subseteq Owned(u)
    PROVE  IInv'
    <1> DEFINE new == [Unsent EXCEPT !.pc = "answered", !.op = request[r].op]
    <1>1. IsRequest(new) /\ new.pc = "answered"
        BY AnsweredIsRequest
    <1>2. request' = [request EXCEPT ![r] = new]
        BY DEF Answer
    <1> HIDE DEF new
    <1> QED
        BY <1>1, <1>2, Elsewhere

(* The same when neither applications nor the mutex change.                *)
LEMMA Unchanged ==
    ASSUME IInv, UNCHANGED apps
    PROVE  AppsShaped' /\ \A u \in UserIds : Owned(u)' \subseteq Owned(u)
    BY DEF IInv, AppsShaped, IsApp, Owned, Visible, Exists, AppIds

LEMMA Answers ==
    ASSUME IInv, NEW r \in Requests, Answer(r), UNCHANGED <<apps, createMu>>
    PROVE  IInv'
    BY AnswerElsewhere, Unchanged

LEMMA Steps ==
    ASSUME IInv, NEW r \in Requests, NEW pc, pc \notin {"count", "insert"}, Step(r, pc),
           UNCHANGED <<apps, createMu>>
    PROVE  IInv'
    <1> DEFINE new == [request[r] EXCEPT !.pc = pc]
    <1>1. IsRequest(request[r])
        BY DEF IInv, RequestsShaped
    <1>2. IsRequest(new) /\ new.pc = pc
        BY <1>1 DEF IsRequest
    <1>3. request' = [request EXCEPT ![r] = new]
        BY DEF Step
    <1> HIDE DEF new
    <1> QED
        BY <1>2, <1>3, Unchanged, Elsewhere

LEMMA Finds ==
    ASSUME IInv, NEW r \in Requests, NEW pc, NEW what, pc \notin {"count", "insert"},
           Found(r, pc, what), UNCHANGED <<apps, createMu>>
    PROVE  IInv'
    <1> DEFINE new == [request[r] EXCEPT !.pc = pc, !.found = what]
    <1>1. IsRequest(request[r])
        BY DEF IInv, RequestsShaped
    <1>2. IsRequest(new) /\ new.pc = pc
        BY <1>1, FoundIsRequest
    <1>3. request' = [request EXCEPT ![r] = new]
        BY DEF Found
    <1> HIDE DEF new
    <1> QED
        BY <1>2, <1>3, Unchanged, Elsewhere

LEMMA Admits ==
    ASSUME IInv, NEW r \in Requests, NEW identity, Admit(r, identity),
           UNCHANGED <<apps, createMu>>
    PROVE  IInv'
    <1> DEFINE new == [request[r] EXCEPT !.pc = "handler", !.found = Nobody, !.identity = identity]
    <1>1. CASE Answer(r)
        BY <1>1, Answers
    <1>2. CASE request' = [request EXCEPT ![r].pc = "handler", ![r].found = Nobody,
                                          ![r].identity = identity]
        <2>1. IsRequest(request[r])
            BY DEF IInv, RequestsShaped
        <2>2. IsRequest(new) /\ new.pc = "handler"
            BY <2>1, AdmittedIsRequest
        <2>3. request' = [request EXCEPT ![r] = new]
            BY <1>2 DEF IInv, RequestsShaped
        <2> HIDE DEF new
        <2> QED
            BY <2>2, <2>3, Unchanged, Elsewhere
    <1> QED
        BY <1>1, <1>2 DEF Admit

LEMMA Arrivals ==
    ASSUME IInv, NEW r \in Requests, NEW op, NEW credential, NEW about,
           Arrive(r, op, credential, about), UNCHANGED <<apps, createMu>>
    PROVE  IInv'
    <1> DEFINE pc == IF op \in Public THEN "handler" ELSE "authenticate"
               late == Dead(credential)
               one == [Unsent EXCEPT !.pc = pc]
               two == [one EXCEPT !.op = op]
               three == [two EXCEPT !.credential = credential]
               four == [three EXCEPT !.about = about]
               five == [four EXCEPT !.late = late]
               new == [Unsent EXCEPT !.pc = pc, !.op = op, !.credential = credential,
                                     !.about = about, !.late = late]
    <1>1. request' = [request EXCEPT ![r] = new]
        BY DEF Arrive
    <1>2. pc \in {"handler", "authenticate"}
        OBVIOUS
    <1> HIDE DEF pc, late
    <1>3. IsRequest(one) /\ one.pc = pc
        <2>1. one = [Unsent EXCEPT !.pc = pc]
            OBVIOUS
        <2> HIDE DEF one
        <2> QED
            BY UnsentIsRequest, <2>1, Setting_pc
    <1>4. IsRequest(two) /\ two.pc = pc
        <2> HIDE DEF one
        <2>1. two = [one EXCEPT !.op = op]
            OBVIOUS
        <2> HIDE DEF two
        <2> QED
            BY <1>3, <2>1, Setting_op
    <1>5. IsRequest(three) /\ three.pc = pc
        <2> HIDE DEF two
        <2>1. three = [two EXCEPT !.credential = credential]
            OBVIOUS
        <2> HIDE DEF three
        <2> QED
            BY <1>4, <2>1, Setting_credential
    <1>6. IsRequest(four) /\ four.pc = pc
        <2> HIDE DEF three
        <2>1. four = [three EXCEPT !.about = about]
            OBVIOUS
        <2> HIDE DEF four
        <2> QED
            BY <1>5, <2>1, Setting_about
    <1>7. IsRequest(five) /\ five.pc = pc
        <2> HIDE DEF four
        <2>1. five = [four EXCEPT !.late = late]
            OBVIOUS
        <2> HIDE DEF five
        <2> QED
            BY <1>6, <2>1, Setting_late
    <1>8. new = five
        OBVIOUS
    <1> HIDE DEF new, five
    <1> QED
        BY <1>1, <1>2, <1>7, <1>8, Unchanged, Elsewhere

-----------------------------------------------------------------------------
LEMMA AccountInvariant ==
    ASSUME IInv, NEW r \in Requests, Account(r), UNCHANGED appVars
    PROVE  IInv'
    <1> UNCHANGED <<apps, createMu>>
        BY DEF appVars
    <1>1. CASE AuthenticateSession(r)
        BY <1>1, Admits, Answers DEF AuthenticateSession
    <1>2. CASE LookUpToken(r)
        BY <1>2, Finds, Answers DEF LookUpToken
    <1>3. CASE TouchToken(r)
        BY <1>3, Admits DEF TouchToken
    <1>4. CASE LoginRead(r)
        <2>1. CASE Answer(r)
            BY <2>1, Answers
        <2>2. CASE \E what : Found(r, "issue", what)
            BY <2>2, Finds
        <2> QED
            BY <1>4, <2>1, <2>2 DEF LoginRead
    <1>5. CASE IssueToken(r)
        BY <1>5, Answers DEF IssueToken
    <1>6. CASE Register(r)
        BY <1>6, Answers DEF Register
    <1>7. CASE Rename(r)
        BY <1>7, Steps, Answers DEF Rename
    <1>8. CASE CheckPassword(r)
        BY <1>8, Steps, Answers DEF CheckPassword
    <1>9. CASE SavePassword(r)
        BY <1>9, Steps DEF SavePassword
    <1>10. CASE Refresh(r)
        BY <1>10, Finds, Answers DEF Refresh
    <1>11. CASE CreateToken(r)
        BY <1>11, Answers DEF CreateToken
    <1>12. CASE RevokeToken(r)
        BY <1>12, Answers DEF RevokeToken
    <1> QED
        BY <1>1, <1>2, <1>3, <1>4, <1>5, <1>6, <1>7, <1>8, <1>9, <1>10, <1>11, <1>12 DEF Account

(* The four steps of a creation.                                           *)
LEMMA BeginCreateInvariant ==
    ASSUME IInv, NEW r \in Requests, BeginCreate(r)
    PROVE  IInv'
    <1>1. IsRequest(request[r]) /\ request = [q \in Requests |-> request[q]]
        BY DEF IInv, RequestsShaped
    <1>2. AppsShaped' /\ \A u \in UserIds : Owned(u)' \subseteq Owned(u)
        BY Unchanged DEF BeginCreate
    <1>3. ASSUME NEW pc, Step(r, pc)
          PROVE  /\ RequestsShaped'
                 /\ request'[r].pc = pc
                 /\ \A q \in Requests \ {r} : request'[q] = request[q]
        <2> DEFINE new == [request[r] EXCEPT !.pc = pc]
        <2>1. IsRequest(new) /\ new.pc = pc
            BY <1>1 DEF IsRequest
        <2>2. request' = [request EXCEPT ![r] = new]
            BY <1>3 DEF Step
        <2> HIDE DEF new
        <2> QED
            BY <1>1, <2>1, <2>2 DEF IInv, RequestsShaped, Requests
    <1>4. CASE MaxAppsPerUser = 0
        <2>1. RequestsShaped'
            BY <1>3, <1>4 DEF BeginCreate
        <2> QED
            BY <1>2, <1>4, <2>1 DEF IInv, CountsHold, QuotaHolds
    <1>5. CASE MaxAppsPerUser # 0
        <2>1. MuFree /\ createMu' = r /\ Step(r, "count")
            BY <1>5 DEF BeginCreate
        <2>2. \A q \in Requests : ~Creating(q)
            BY <2>1, <1>5, QuotaIsNat DEF MuFree, IInv, CountsHold
        <2>3. \A q \in Requests : ~Inserting(q)' /\ (Creating(q)' => q = r)
            BY <1>3, <2>1, <2>2 DEF Creating, Inserting
        <2>4. CountsHold'
            BY <2>1, <2>3 DEF CountsHold, Creating, Inserting, Requests
        <2>5. QuotaHolds'
            BY <1>2, CountShrinks, OwnedFinite, OwnedFiniteNext, QuotaIsNat DEF IInv, QuotaHolds
        <2> QED
            BY <1>2, <1>3, <2>1, <2>4, <2>5 DEF IInv
    <1> QED
        BY <1>4, <1>5

LEMMA CountAppsInvariant ==
    ASSUME IInv, NEW r \in Requests, CountApps(r)
    PROVE  IInv'
    <1>1. IsRequest(request[r]) /\ request = [q \in Requests |-> request[q]]
        BY DEF IInv, RequestsShaped
    <1>2. AppsShaped' /\ \A u \in UserIds : Owned(u)' \subseteq Owned(u)
        BY Unchanged DEF CountApps
    <1>3. CASE AtQuota(Who(r))
        <2>1. Answer(r) /\ (createMu' = createMu \/ createMu = r)
            BY <1>3 DEF CountApps, Unlocked
        <2> QED
            BY <1>2, <2>1, AnswerElsewhere
    <1>4. CASE ~AtQuota(Who(r))
        <2> DEFINE new == [request[r] EXCEPT !.pc = "insert"]
        <2>1. Step(r, "insert") /\ UNCHANGED <<createMu, apps>> /\ Asks(r, "createApp", "count")
            BY <1>4 DEF CountApps
        <2>2. IsRequest(new) /\ new.identity = request[r].identity
            BY <1>1 DEF IsRequest
        <2>3. request' = [request EXCEPT ![r] = new]
            BY <2>1 DEF Step
        <2> HIDE DEF new
        <2>4. /\ RequestsShaped'
              /\ Who(r)' = Who(r)
              /\ \A q \in Requests \ {r} : request'[q] = request[q]
            BY <1>1, <2>2, <2>3 DEF IInv, RequestsShaped, Requests, Who
        <2>5. \A u \in UserIds : Count(u)' <= Count(u) /\ Count(u) \in Nat /\ Count(u)' \in Nat
            BY <1>2, CountShrinks, OwnedFinite, OwnedFiniteNext
        <2>6. ASSUME NEW u \in UserIds, Who(r) = u PROVE Count(u) < MaxAppsPerUser
            BY <1>4, <2>5, <2>6, QuotaIsNat DEF AtQuota
        <2>7. CountsHold'
            <3> SUFFICES ASSUME MaxAppsPerUser > 0, NEW q \in Requests
                         PROVE  /\ Creating(q)' => createMu' = q
                                /\ \A u \in UserIds :
                                       Inserting(q)' /\ Who(q)' = u => Count(u)' < MaxAppsPerUser
                BY DEF CountsHold, Creating, Inserting, Requests
            <3>1. CASE q = r
                <4>1. createMu = r
                    BY <2>1 DEF Asks, IInv, CountsHold, Creating
                <4> QED
                    BY <3>1, <4>1, <2>1, <2>4, <2>5, <2>6, QuotaIsNat
            <3>2. CASE q # r
                <4>1. /\ Creating(q)' => createMu' = q
                      /\ \A u \in UserIds :
                             Inserting(q)' /\ Who(q)' = u => Count(u) < MaxAppsPerUser
                    BY <3>2, <2>1, <2>4 DEF IInv, CountsHold, Creating, Inserting, Who
                <4> QED
                    BY <4>1, <2>5, QuotaIsNat
            <3> QED
                BY <3>1, <3>2
        <2>8. QuotaHolds'
            BY <2>5, QuotaIsNat DEF IInv, QuotaHolds
        <2> QED
            BY <1>2, <2>4, <2>7, <2>8 DEF IInv
    <1> QED
        BY <1>3, <1>4

(* The row a creation inserts: one more, for the caller, who has room.     *)
LEMMA InsertAppInvariant ==
    ASSUME IInv, NEW r \in Requests, InsertApp(r)
    PROVE  IInv'
    <1>1. /\ Asks(r, "createApp", "insert") /\ Answer(r)
          /\ createMu' = createMu \/ createMu = r
        BY DEF InsertApp, Unlocked
    <1>2. CASE UNCHANGED apps
        BY <1>1, <1>2, Unchanged, AnswerElsewhere
    <1>3. ASSUME NEW a \in AppIds, apps[a] = Nobody,
                 apps' = [apps EXCEPT ![a] = [name |-> request[r].about, owner |-> Who(r),
                                              installation |-> Nobody]]
          PROVE  IInv'
        <2>1. /\ apps'[a] = [name |-> request[r].about, owner |-> Who(r), installation |-> Nobody]
              /\ \A b \in AppIds \ {a} : apps'[b] = apps[b]
              /\ apps' = [b \in AppIds |-> apps'[b]]
            BY <1>3 DEF IInv, AppsShaped
        <2>2. AppsShaped'
            BY <2>1 DEF IInv, AppsShaped, IsApp, Exists, AppIds
        <2>3. \A u \in UserIds : /\ Owned(u)' \subseteq Owned(u) \cup {a}
                                 /\ u # Who(r) => Owned(u)' \subseteq Owned(u)
            BY <2>1, QuotaIsNat DEF Owned, Visible, Exists, AppIds
        <2>4. CASE MaxAppsPerUser > 0
            <3>1. createMu = r /\ \A u \in UserIds : Who(r) = u => Count(u) < MaxAppsPerUser
                BY <1>1, <2>4 DEF Asks, IInv, CountsHold, Creating, Inserting
            <3>2. ASSUME NEW u \in UserIds PROVE Count(u)' <= MaxAppsPerUser
                <4>1. CASE u # Who(r)
                    BY <4>1, <2>3, <2>4, CountShrinks, OwnedFinite, OwnedFiniteNext, QuotaIsNat
                    DEF IInv, QuotaHolds
                <4>2. CASE u = Who(r)
                    <5>1. /\ IsFiniteSet(Owned(u) \cup {a})
                          /\ Cardinality(Owned(u) \cup {a}) <= Cardinality(Owned(u)) + 1
                          /\ Cardinality(Owned(u) \cup {a}) \in Nat
                        <6>1. IsFiniteSet(Owned(u)) /\ Cardinality(Owned(u)) \in Nat
                            BY OwnedFinite
                        <6>2. /\ IsFiniteSet(Owned(u) \cup {a})
                              /\ \/ Cardinality(Owned(u) \cup {a}) = Cardinality(Owned(u))
                                 \/ Cardinality(Owned(u) \cup {a}) = Cardinality(Owned(u)) + 1
                            BY <6>1, FS_AddElement
                        <6> QED
                            BY <6>1, <6>2
                    <5>2. Cardinality(Owned(u)') <= Cardinality(Owned(u) \cup {a})
                        BY <5>1, <2>3, FS_Subset
                    <5> QED
                        BY <4>2, <3>1, <5>1, <5>2, OwnedFinite, OwnedFiniteNext, QuotaIsNat
                <4> QED
                    BY <4>1, <4>2
            <3> DEFINE new == [Unsent EXCEPT !.pc = "answered", !.op = request[r].op]
            <3>3. IsRequest(new) /\ new.pc = "answered" /\ request' = [request EXCEPT ![r] = new]
                BY <1>1, AnsweredIsRequest DEF Answer
            <3> HIDE DEF new
            <3>4. /\ RequestsShaped'
                  /\ request'[r].pc = "answered"
                  /\ \A q \in Requests \ {r} : request'[q] = request[q]
                BY <3>3 DEF IInv, RequestsShaped, Requests
            <3>5. \A q \in Requests : ~Creating(q)'
                BY <3>1, <3>4, <2>4 DEF IInv, CountsHold, Creating
            <3>6. CountsHold'
                BY <3>5 DEF CountsHold, Creating, Inserting, Requests
            <3> QED
                BY <2>2, <3>2, <3>4, <3>6 DEF IInv, QuotaHolds
        <2>5. CASE ~(MaxAppsPerUser > 0)
            <3> DEFINE new == [Unsent EXCEPT !.pc = "answered", !.op = request[r].op]
            <3>1. IsRequest(new) /\ request' = [request EXCEPT ![r] = new]
                BY <1>1, AnsweredIsRequest DEF Answer
            <3> HIDE DEF new
            <3>2. RequestsShaped'
                BY <3>1 DEF IInv, RequestsShaped, Requests
            <3> QED
                BY <2>2, <2>5, <3>2 DEF IInv, CountsHold, QuotaHolds
        <2> QED
            BY <2>4, <2>5
    <1> QED
        BY <1>2, <1>3 DEF InsertApp

LEMMA CreateInvariant ==
    ASSUME IInv, NEW r \in Requests, Create(r)
    PROVE  IInv'
    <1>1. CASE CreateFails(r)
        <2>1. Answer(r) /\ UNCHANGED apps /\ (createMu' = createMu \/ createMu = r)
            BY <1>1 DEF CreateFails, Unlocked
        <2> QED
            BY <2>1, Unchanged, AnswerElsewhere
    <1> QED
        BY <1>1, BeginCreateInvariant, CountAppsInvariant, InsertAppInvariant DEF Create

(* The handlers that find an application by its name.                      *)
LEMMA DeleteRowInvariant ==
    ASSUME IInv, NEW r \in Requests, DeleteRow(r)
    PROVE  IInv'
    <1>1. Answer(r) /\ UNCHANGED createMu
        BY DEF DeleteRow
    <1>2. CASE UNCHANGED apps
        BY <1>1, <1>2, Answers
    <1>3. CASE Visible(App(r), Who(r)) /\ apps' = [apps EXCEPT ![App(r)] = Gone]
        <2>1. AppsShaped' /\ \A u \in UserIds : Owned(u)' \subseteq Owned(u)
            BY <1>3 DEF IInv, AppsShaped, IsApp, Owned, Visible, Exists, AppIds
        <2> QED
            BY <1>1, <2>1, AnswerElsewhere
    <1> QED
        BY <1>2, <1>3 DEF DeleteRow

LEMMA SaveSourceInvariant ==
    ASSUME IInv, NEW r \in Requests, SaveSource(r)
    PROVE  IInv'
    <1>1. Answer(r) /\ UNCHANGED createMu
        BY DEF SaveSource
    <1>2. CASE UNCHANGED apps
        BY <1>1, <1>2, Answers
    <1>3. ASSUME NEW i, Exists(App(r)), apps' = [apps EXCEPT ![App(r)].installation = i]
          PROVE  IInv'
        <2>1. CASE App(r) \notin AppIds
            <3>1. UNCHANGED apps
                BY <1>3, <2>1 DEF IInv, AppsShaped
            <3> QED
                BY <3>1, <1>1, Answers
        <2>2. CASE App(r) \in AppIds
            <3> DEFINE a == App(r)
                       new == [apps[a] EXCEPT !.installation = i]
            <3>1. IsApp(apps[a])
                BY <1>3, <2>2 DEF IInv, AppsShaped
            <3>2. IsApp(new) /\ new.owner = apps[a].owner
                BY <3>1 DEF IsApp
            <3>3. apps' = [apps EXCEPT ![a] = new]
                BY <1>3
            <3> HIDE DEF new, a
            <3>4. /\ apps'[a] = new
                  /\ \A b \in AppIds \ {a} : apps'[b] = apps[b]
                  /\ apps' = [b \in AppIds |-> apps'[b]]
                BY <3>3, <2>2 DEF IInv, AppsShaped, a
            <3>5. AppsShaped'
                BY <3>2, <3>4 DEF IInv, AppsShaped, IsApp, Exists, AppIds
            <3>6. \A u \in UserIds : Owned(u)' \subseteq Owned(u)
                BY <1>3, <2>2, <3>2, <3>4 DEF Owned, Visible, Exists, AppIds, a
            <3> QED
                BY <1>1, <3>5, <3>6, AnswerElsewhere
        <2> QED
            BY <2>1, <2>2
    <1> QED
        BY <1>2, <1>3 DEF SaveSource

LEMMA ProjectInvariant ==
    ASSUME IInv, NEW r \in Requests, Project(r)
    PROVE  IInv'
    <1>1. CASE Create(r)
        BY <1>1, CreateInvariant
    <1>2. CASE ListApps(r)
        BY <1>2, Answers DEF ListApps, appVars
    <1>3. CASE ResolveApp(r)
        <2>1. CASE Answer(r)
            BY <1>3, <2>1, Answers DEF ResolveApp, appVars
        <2>2. CASE \E what : Found(r, "resolved", what)
            BY <1>3, <2>2, Finds DEF ResolveApp, appVars
        <2> QED
            BY <1>3, <2>1, <2>2 DEF ResolveApp
    <1>4. CASE StopApp(r)
        BY <1>4, Answers, Steps DEF StopApp, appVars
    <1>5. CASE DeleteRow(r)
        BY <1>5, DeleteRowInvariant
    <1>6. CASE SetEnv(r)
        BY <1>6, Answers DEF SetEnv
    <1>7. CASE CheckInstallation(r)
        BY <1>7, Answers, Steps DEF CheckInstallation, appVars
    <1>8. CASE SaveSource(r)
        BY <1>8, SaveSourceInvariant
    <1>9. CASE ReadSource(r)
        BY <1>9, Answers, Finds DEF ReadSource, appVars
    <1>10. CASE WebhookFindsApp(r)
        BY <1>10, Answers, Finds DEF WebhookFindsApp, appVars
    <1>11. CASE CreateDeployment(r)
        BY <1>11, Answers DEF CreateDeployment
    <1>12. CASE InstallURL(r)
        BY <1>12, Answers DEF InstallURL
    <1>13. CASE CheckState(r)
        BY <1>13, Answers, Steps DEF CheckState, appVars
    <1>14. CASE UpsertInstallation(r)
        BY <1>14, Answers DEF UpsertInstallation
    <1> QED
        BY <1>1, <1>2, <1>3, <1>4, <1>5, <1>6, <1>7, <1>8, <1>9, <1>10, <1>11, <1>12, <1>13, <1>14
        DEF Project

LEMMA NextInvariant == IInv /\ [Next]_vars => IInv'
    <1> SUFFICES ASSUME IInv, [Next]_vars PROVE IInv'
        OBVIOUS
    <1>1. ASSUME NEW r \in Requests, Request(r) PROVE IInv'
        <2>1. UNCHANGED <<apps, createMu>>
            BY <1>1 DEF Request, appVars
        <2>2. \E op, credential, about : Arrive(r, op, credential, about)
            BY <1>1 DEF Request, Ask, AskPublic
        <2> QED
            BY <2>1, <2>2, Arrivals
    <1>2. ASSUME NEW r \in Requests, Account(r) /\ UNCHANGED appVars PROVE IInv'
        BY <1>2, AccountInvariant
    <1>3. ASSUME NEW r \in Requests, Project(r) PROVE IInv'
        BY <1>3, ProjectInvariant
    <1>4. ASSUME UNCHANGED <<request, apps, createMu>> PROVE IInv'
        BY <1>4 DEF IInv, RequestsShaped, IsRequest, AppsShaped, IsApp, Exists, CountsHold,
            QuotaHolds, Creating, Inserting, Who, Count, Visible, Requests, AppIds
    <1>5. CASE Tick /\ UNCHANGED appVars
        BY <1>4, <1>5 DEF Tick, appVars
    <1>6. CASE UNCHANGED vars
        BY <1>4, <1>6 DEF vars, accessVars, appVars
    <1> QED
        BY <1>1, <1>2, <1>3, <1>5, <1>6 DEF Next, Served

(* MAX_APPS_PER_USER holds (service/app.go:46-58), for any number of users *)
(* and of creations at the same time, and whatever else they ask for.      *)
THEOREM QuotaNeverExceeded == Quiet /\ [][Next]_vars => []QuotaHolds
    <1>1. Quiet => IInv
        BY DEF Quiet, IInv, CountsHold, Creating, Inserting
    <1>2. IInv => QuotaHolds
        BY DEF IInv
    <1> QED
        BY <1>1, <1>2, NextInvariant, PTL
-----------------------------------------------------------------------------
(* Whose rows they are.  A handler goes by what it has read: that its      *)
(* caller has an identity at all, and the scope, rests on the middleware;  *)
(* that the application found by name is still the caller's when it is     *)
(* changed by id, on ids that are never used again and owners that never   *)
(* change; that an installation is, on the upsert.                         *)
KnownUser(u) == u \in UserIds /\ users[u] # Nobody
KnownApp(a) == a \in AppIds /\ apps[a] # Nobody
KnownToken(t) == ByToken(t) /\ t \in TokenIds /\ tokens[t] # Nobody

Live(r) == request[r].pc \notin {"unsent", "answered"}
Inside(r) == Live(r) /\ request[r].pc \notin {"authenticate", "touch"}

(* What a request may ask for.                                             *)
Askable(op, about) ==
    /\ op \in {"login", "register"} => about \in UserRows
    /\ op = "rename" => about \in Usernames
    /\ op = "password" => about \in [current : Passwords, new : Passwords]
    /\ op = "createToken" => about.scopes \in SUBSET Scopes /\ about.expires \in Nat
    /\ op = "createApp" => about \in AppNames
    /\ op \in {"configure", "connect"} => about.installation \in InstallationIds
    /\ op = "webhook" => about \in AppIds

(* The credential was given to somebody, and the identity is his.          *)
CredentialGood(r) ==
    request[r].op \notin Public =>
        \/ request[r].credential \in Sessions /\ KnownUser(request[r].credential.user)
        \/ KnownToken(request[r].credential)

RowRead(r) ==
    request[r].pc = "touch" =>
        LET row == request[r].found  t == request[r].credential IN
        KnownToken(t) /\ row.user = tokens[t].user /\ row.scopes = tokens[t].scopes

IdentityGood(r) ==
    Inside(r) /\ request[r].op \notin Public =>
        /\ KnownUser(Who(r))
        /\ May(r, Who(r), IF request[r].op \in SessionOnly THEN "session"
                                                           ELSE Scope[request[r].op])

(* What a handler has read still holds, or the row is gone.                *)
IssueGood(r) ==
    /\ request[r].pc = "refresh" => request[r].op \in {"rename", "password"}
    /\ request[r].pc = "issue" =>
          KnownUser(request[r].found.user) /\ request[r].found.username \in Usernames

ResolvedGood(r) ==
    request[r].op \in Resolving /\ request[r].pc \in {"resolved", "deleteRow", "save"} =>
        /\ request[r].found = [app |-> App(r), name |-> request[r].found.name]
        /\ KnownApp(App(r))
        /\ Exists(App(r)) =>
              apps[App(r)].owner = Who(r) /\ apps[App(r)].name = request[r].found.name

SaveGood(r) ==
    Asks(r, "configure", "save") => installations[request[r].about.installation] = Who(r)

FoundGood(r) ==
    request[r].pc = "create" =>
        /\ request[r].op \in {"deployGit", "webhook"}
        /\ KnownApp(App(r))
        /\ Exists(App(r)) =>
              /\ apps[App(r)].owner = request[r].found.by
              /\ apps[App(r)].name = request[r].found.name

(* Who comes too late stays without an identity.                           *)
LateRefused(r) ==
    /\ request[r].pc = "authenticate" => request[r].op \notin Public
    /\ request[r].late =>
          /\ request[r].identity = NoIdentity
          /\ request[r].pc = "authenticate" => Dead(request[r].credential)
          /\ request[r].pc # "touch"

RequestGood(r) ==
    /\ Live(r) =>
          /\ Askable(request[r].op, request[r].about)
          /\ CredentialGood(r) /\ RowRead(r) /\ IdentityGood(r)
          /\ IssueGood(r) /\ ResolvedGood(r) /\ SaveGood(r) /\ FoundGood(r)
    /\ LateRefused(r)

UsersGood ==
    /\ users = [u \in UserIds |-> users[u]]
    /\ \A u \in UserIds : users[u] # Nobody => users[u] \in UserRows
TokensGood ==
    /\ tokens = [t \in TokenIds |-> tokens[t]]
    /\ \A t \in TokenIds :
          tokens[t] # Nobody => tokens[t] \in TokenRows /\ KnownUser(tokens[t].user)
SessionsGood == \A s \in sessions : s \in Sessions /\ KnownUser(s.user)
AppsGood ==
    /\ apps = [a \in AppIds |-> apps[a]]
    /\ \A a \in AppIds : Exists(a) => apps[a] \in AppRows
NamesUnique ==
    \A a, b \in AppIds : Exists(a) /\ Exists(b) /\ apps[a].name = apps[b].name => a = b

(* The rows in terms of the ids in use.                                    *)
RowsOwned ==
    /\ OwnRows
    /\ \A d \in deployments : d.app \in AppIds /\ d.of \in AppIds /\ apps[d.of] # Nobody
    /\ \A e \in env : e.app \in AppIds
    /\ installations = [i \in InstallationIds |-> installations[i]]

AccountsGood == clock \in Nat /\ UsersGood /\ TokensGood /\ SessionsGood
ProjectsGood == AppsGood /\ NamesUnique /\ RowsOwned
TablesGood == AccountsGood /\ ProjectsGood

RowsInv == RequestsShaped /\ TablesGood /\ \A r \in Requests : RequestGood(r)

(* The server at rest, its tables in order.                                *)
AtRest ==
    /\ RequestsShaped /\ TablesGood
    /\ \A r \in Requests : request[r].pc \in {"unsent", "answered"} /\ ~request[r].late

-----------------------------------------------------------------------------
(* The fields of a request when one of them is given another value.        *)
Fields(x, pc, op, credential, identity, about, found, late) ==
    /\ IsRequest(x)
    /\ x.pc = pc /\ x.op = op /\ x.credential = credential /\ x.identity = identity
    /\ x.about = about /\ x.found = found /\ x.late = late

LEMMA FieldsSet ==
    ASSUME NEW x, NEW pc, NEW op, NEW credential, NEW identity, NEW about, NEW found, NEW late,
           Fields(x, pc, op, credential, identity, about, found, late), NEW v
    PROVE  /\ Fields([x EXCEPT !.pc = v], v, op, credential, identity, about, found, late)
           /\ Fields([x EXCEPT !.op = v], pc, v, credential, identity, about, found, late)
           /\ Fields([x EXCEPT !.credential = v], pc, op, v, identity, about, found, late)
           /\ Fields([x EXCEPT !.identity = v], pc, op, credential, v, about, found, late)
           /\ Fields([x EXCEPT !.about = v], pc, op, credential, identity, v, found, late)
           /\ Fields([x EXCEPT !.found = v], pc, op, credential, identity, about, v, late)
           /\ Fields([x EXCEPT !.late = v], pc, op, credential, identity, about, found, v)
    <1>1. Fields([x EXCEPT !.pc = v], v, op, credential, identity, about, found, late)
        BY SMT DEF Fields, IsRequest
    <1>2. Fields([x EXCEPT !.op = v], pc, v, credential, identity, about, found, late)
        BY SMT DEF Fields, IsRequest
    <1>3. Fields([x EXCEPT !.credential = v], pc, op, v, identity, about, found, late)
        BY SMT DEF Fields, IsRequest
    <1>4. Fields([x EXCEPT !.identity = v], pc, op, credential, v, about, found, late)
        BY SMT DEF Fields, IsRequest
    <1>5. Fields([x EXCEPT !.about = v], pc, op, credential, identity, v, found, late)
        BY SMT DEF Fields, IsRequest
    <1>6. Fields([x EXCEPT !.found = v], pc, op, credential, identity, about, v, late)
        BY SMT DEF Fields, IsRequest
    <1>7. Fields([x EXCEPT !.late = v], pc, op, credential, identity, about, found, v)
        BY SMT DEF Fields, IsRequest
    <1> QED
        BY <1>1, <1>2, <1>3, <1>4, <1>5, <1>6, <1>7

LEMMA FieldsOf ==
    ASSUME NEW x, IsRequest(x)
    PROVE  Fields(x, x.pc, x.op, x.credential, x.identity, x.about, x.found, x.late)
    BY DEF Fields

(* What a step makes of its request; the others it leaves alone.           *)
Becomes(r, pc, op, credential, identity, about, found, late) ==
    /\ RequestsShaped'
    /\ \A q \in Requests \ {r} : request'[q] = request[q]
    /\ request'[r].pc = pc /\ request'[r].op = op /\ request'[r].credential = credential
    /\ request'[r].identity = identity /\ request'[r].about = about
    /\ request'[r].found = found /\ request'[r].late = late

LEMMA Becoming ==
    ASSUME RequestsShaped, NEW r \in Requests, NEW new, request' = [request EXCEPT ![r] = new],
           NEW pc, NEW op, NEW credential, NEW identity, NEW about, NEW found, NEW late,
           Fields(new, pc, op, credential, identity, about, found, late)
    PROVE  Becomes(r, pc, op, credential, identity, about, found, late)
    <1>1. /\ request'[r] = new
          /\ \A q \in Requests \ {r} : request'[q] = request[q]
          /\ request' = [q \in Requests |-> request'[q]]
        BY DEF RequestsShaped
    <1>2. RequestsShaped'
        BY <1>1 DEF RequestsShaped, Requests, Fields
    <1> QED
        BY <1>1, <1>2 DEF Becomes, Fields

LEMMA StepFields ==
    ASSUME RequestsShaped, NEW r \in Requests, NEW pc, Step(r, pc)
    PROVE  Becomes(r, pc, request[r].op, request[r].credential, request[r].identity,
                   request[r].about, request[r].found, request[r].late)
    <1> DEFINE x == request[r]
               new == [x EXCEPT !.pc = pc]
    <1>1. request' = [request EXCEPT ![r] = new]
        BY DEF Step
    <1>2. Fields(x, x.pc, x.op, x.credential, x.identity, x.about, x.found, x.late)
        BY FieldsOf DEF RequestsShaped
    <1>3. Fields(new, pc, x.op, x.credential, x.identity, x.about, x.found, x.late)
        <2> HIDE DEF x
        <2> QED
            BY <1>2, FieldsSet
    <1> HIDE DEF new
    <1> QED
        BY <1>1, <1>3, Becoming

LEMMA FoundFields ==
    ASSUME RequestsShaped, NEW r \in Requests, NEW pc, NEW what, Found(r, pc, what)
    PROVE  Becomes(r, pc, request[r].op, request[r].credential, request[r].identity,
                   request[r].about, what, request[r].late)
    <1> DEFINE x == request[r]
               one == [x EXCEPT !.pc = pc]
               new == [x EXCEPT !.pc = pc, !.found = what]
    <1>1. request' = [request EXCEPT ![r] = new]
        BY DEF Found
    <1>2. Fields(x, x.pc, x.op, x.credential, x.identity, x.about, x.found, x.late)
        BY FieldsOf DEF RequestsShaped
    <1>3. Fields(one, pc, x.op, x.credential, x.identity, x.about, x.found, x.late)
        <2> HIDE DEF x
        <2> QED
            BY <1>2, FieldsSet
    <1>4. new = [one EXCEPT !.found = what]
        OBVIOUS
    <1>5. Fields(new, pc, x.op, x.credential, x.identity, x.about, what, x.late)
        <2> HIDE DEF x, one, new
        <2> QED
            BY <1>3, <1>4, FieldsSet
    <1> HIDE DEF new
    <1> QED
        BY <1>1, <1>5, Becoming

LEMMA AnswerFields ==
    ASSUME RequestsShaped, NEW r \in Requests, Answer(r)
    PROVE  Becomes(r, "answered", request[r].op, Nobody, NoIdentity, Nobody, Nobody, FALSE)
    <1> DEFINE o == request[r].op
               one == [Unsent EXCEPT !.pc = "answered"]
               new == [Unsent EXCEPT !.pc = "answered", !.op = o]
    <1>1. request' = [request EXCEPT ![r] = new]
        BY DEF Answer
    <1>2. Fields(Unsent, "unsent", "none", Nobody, NoIdentity, Nobody, Nobody, FALSE)
        BY DEF Fields, IsRequest, Unsent
    <1>3. Fields(one, "answered", "none", Nobody, NoIdentity, Nobody, Nobody, FALSE)
        BY <1>2, FieldsSet
    <1>4. new = [one EXCEPT !.op = o]
        OBVIOUS
    <1> HIDE DEF o, one, new
    <1>5. Fields(new, "answered", o, Nobody, NoIdentity, Nobody, Nobody, FALSE)
        BY <1>3, <1>4, FieldsSet
    <1> QED
        BY <1>1, <1>5, Becoming DEF o

LEMMA AdmitFields ==
    ASSUME RequestsShaped, NEW r \in Requests, NEW who, Admit(r, who)
    PROVE  IF Authorized(who, request[r].op)
           THEN Becomes(r, "handler", request[r].op, request[r].credential, who,
                        request[r].about, Nobody, request[r].late)
           ELSE Answer(r)
    <1> DEFINE x == request[r]
               one == [x EXCEPT !.pc = "handler"]
               two == [one EXCEPT !.found = Nobody]
               new == [x EXCEPT !.pc = "handler", !.found = Nobody, !.identity = who]
    <1>1. CASE Authorized(who, request[r].op)
        <2>1. request' = [request EXCEPT ![r] = new]
            BY <1>1 DEF Admit, RequestsShaped
        <2>2. Fields(x, x.pc, x.op, x.credential, x.identity, x.about, x.found, x.late)
            BY FieldsOf DEF RequestsShaped
        <2>3. new = [two EXCEPT !.identity = who]
            OBVIOUS
        <2>4. Fields(one, "handler", x.op, x.credential, x.identity, x.about, x.found, x.late)
            <3> HIDE DEF x
            <3> QED
                BY <2>2, FieldsSet
        <2>5. Fields(two, "handler", x.op, x.credential, x.identity, x.about, Nobody, x.late)
            <3> HIDE DEF x, one
            <3> QED
                BY <2>4, FieldsSet
        <2>6. Fields(new, "handler", x.op, x.credential, who, x.about, Nobody, x.late)
            <3> HIDE DEF x, two, new
            <3> QED
                BY <2>3, <2>5, FieldsSet
        <2> HIDE DEF new
        <2>7. Becomes(r, "handler", x.op, x.credential, who, x.about, Nobody, x.late)
            <3> HIDE DEF x
            <3> QED
                BY <2>1, <2>6, Becoming
        <2> QED
            BY <1>1, <2>7
    <1> QED
        BY <1>1 DEF Admit

LEMMA ArriveFields ==
    ASSUME RequestsShaped, NEW r \in Requests, NEW op, NEW credential, NEW about,
           Arrive(r, op, credential, about)
    PROVE  Becomes(r, IF op \in Public THEN "handler" ELSE "authenticate", op, credential,
                   NoIdentity, about, Nobody, Dead(credential))
    <1> DEFINE pc == IF op \in Public THEN "handler" ELSE "authenticate"
               late == Dead(credential)
               one == [Unsent EXCEPT !.pc = pc]
               two == [one EXCEPT !.op = op]
               three == [two EXCEPT !.credential = credential]
               four == [three EXCEPT !.about = about]
               five == [four EXCEPT !.late = late]
               new == [Unsent EXCEPT !.pc = pc, !.op = op, !.credential = credential,
                                     !.about = about, !.late = late]
    <1>1. request' = [request EXCEPT ![r] = new]
        BY DEF Arrive
    <1>2. new = five
        OBVIOUS
    <1> HIDE DEF pc, late
    <1>3. Fields(Unsent, "unsent", "none", Nobody, NoIdentity, Nobody, Nobody, FALSE)
        BY DEF Fields, IsRequest, Unsent
    <1>4. Fields(one, pc, "none", Nobody, NoIdentity, Nobody, Nobody, FALSE)
        BY <1>3, FieldsSet
    <1> HIDE DEF one
    <1>5. Fields(two, pc, op, Nobody, NoIdentity, Nobody, Nobody, FALSE)
        BY <1>4, FieldsSet
    <1> HIDE DEF two
    <1>6. Fields(three, pc, op, credential, NoIdentity, Nobody, Nobody, FALSE)
        BY <1>5, FieldsSet
    <1> HIDE DEF three
    <1>7. Fields(four, pc, op, credential, NoIdentity, about, Nobody, FALSE)
        BY <1>6, FieldsSet
    <1> HIDE DEF four
    <1>8. Fields(five, pc, op, credential, NoIdentity, about, Nobody, late)
        BY <1>7, FieldsSet
    <1> HIDE DEF five, new
    <1>9. Becomes(r, pc, op, credential, NoIdentity, about, Nobody, late)
        BY <1>1, <1>2, <1>8, Becoming
    <1> QED
        BY <1>9 DEF pc, late

-----------------------------------------------------------------------------
(* What no step does to the tables: rows keep their owners, names and      *)
(* scopes, and an id, once used, is not used again.                        *)
AccountsGrow ==
    /\ clock \in Nat /\ clock' \in Nat /\ clock <= clock'
    /\ \A u \in UserIds : users[u] # Nobody => users'[u] # Nobody
    /\ \A t \in TokenIds : tokens[t] # Nobody =>
          /\ tokens'[t] # Nobody
          /\ tokens'[t].user = tokens[t].user /\ tokens'[t].scopes = tokens[t].scopes
          /\ tokens'[t].expires = tokens[t].expires
          /\ tokens[t].revoked # Never => tokens'[t] = tokens[t]

ProjectsGrow ==
    /\ \A a \in AppIds : apps[a] # Nobody =>
          /\ apps'[a] # Nobody
          /\ Exists(a)' => /\ Exists(a)
                           /\ apps'[a].name = apps[a].name /\ apps'[a].owner = apps[a].owner
    /\ \A i \in InstallationIds :
          installations[i] # Nobody => installations'[i] = installations[i]

Grow == AccountsGrow /\ ProjectsGrow

LEMMA AccountsStay ==
    ASSUME AccountsGood, UNCHANGED <<clock, users, tokens, sessions>>
    PROVE  AccountsGood' /\ AccountsGrow
    BY DEF AccountsGood, AccountsGrow, UsersGood, TokensGood, SessionsGood, KnownUser, Never

LEMMA ProjectsStay ==
    ASSUME ProjectsGood, UNCHANGED appVars
    PROVE  ProjectsGood' /\ ProjectsGrow
    BY DEF ProjectsGood, ProjectsGrow, AppsGood, NamesUnique, RowsOwned, OwnRows, Sourced,
        Exists, AppIds, appVars

(* Facts about a credential and its user outlast every step.               *)
LEMMA KnownStays ==
    ASSUME Grow
    PROVE  /\ \A u : KnownUser(u) => KnownUser(u)'
           /\ \A t : KnownToken(t) => /\ KnownToken(t)' /\ tokens'[t].user = tokens[t].user
                                      /\ tokens'[t].scopes = tokens[t].scopes
           /\ \A a : KnownApp(a) =>
                 /\ KnownApp(a)'
                 /\ Exists(a)' => /\ Exists(a) /\ apps'[a].name = apps[a].name
                                  /\ apps'[a].owner = apps[a].owner
    BY DEF Grow, AccountsGrow, ProjectsGrow, KnownUser, KnownToken, ByToken, KnownApp, AppIds

LEMMA DeadStays ==
    ASSUME Grow, AccountsGood, NEW c, Dead(c), c \in Sessions \/ KnownToken(c)
    PROVE  Dead(c)'
    <1>1. CASE c \in Sessions
        <2>1. c.expires \in Nat /\ c.expires <= clock
            BY <1>1 DEF Dead, Sessions, ByToken
        <2>2. c.expires <= clock'
            BY <2>1 DEF Grow, AccountsGrow
        <2> QED
            BY <1>1, <2>2 DEF Dead
    <1>2. CASE KnownToken(c)
        <2>1. /\ c \notin Sessions /\ ByToken(c) /\ c \in TokenIds /\ tokens[c] # Nobody
              /\ tokens[c].expires \in Nat
              /\ tokens[c].revoked # Never \/ tokens[c].expires <= clock
            BY <1>2 DEF Dead, KnownToken, ByToken, AccountsGood, TokensGood, TokenRows
        <2>2. CASE tokens[c].revoked # Never
            <3>1. tokens'[c].revoked # Never
                BY <2>1, <2>2 DEF Grow, AccountsGrow
            <3> QED
                BY <2>1, <3>1 DEF Dead, ByToken, Never
        <2>3. CASE tokens[c].expires <= clock
            <3>1. tokens'[c].expires <= clock'
                BY <2>1, <2>3 DEF Grow, AccountsGrow
            <3> QED
                BY <2>1, <3>1 DEF Dead, ByToken, Never
        <2> QED
            BY <2>1, <2>2, <2>3
    <1> QED
        BY <1>1, <1>2

(* Who made a request and what he may do outlasts every step.              *)
LEMMA CredentialStays ==
    ASSUME Grow, NEW r \in Requests, CredentialGood(r),
           request'[r].credential = request[r].credential, request'[r].op = request[r].op
    PROVE  CredentialGood(r)'
    BY KnownStays DEF CredentialGood, Sessions, Public

LEMMA MayStays ==
    ASSUME Grow, NEW r \in Requests, CredentialGood(r), request[r].op \notin Public,
           request'[r].credential = request[r].credential, NEW u, NEW scope, May(r, u, scope)
    PROVE  May(r, u, scope)'
    BY KnownStays DEF CredentialGood, May, ByToken, KnownToken, Sessions

LEMMA IdentityStays ==
    ASSUME Grow, NEW r \in Requests, CredentialGood(r), IdentityGood(r), Inside(r),
           request'[r].credential = request[r].credential, request'[r].op = request[r].op,
           request'[r].identity = request[r].identity
    PROVE  IdentityGood(r)'
    <1> SUFFICES ASSUME request[r].op \notin Public
                 PROVE  /\ KnownUser(Who(r))'
                        /\ May(r, Who(r), IF request[r].op \in SessionOnly
                                          THEN "session" ELSE Scope[request[r].op])'
        BY DEF IdentityGood, Public
    <1> DEFINE scope == IF request[r].op \in SessionOnly THEN "session" ELSE Scope[request[r].op]
               u == Who(r)
    <1>1. KnownUser(u) /\ May(r, u, scope)
        BY DEF IdentityGood
    <1>2. scope' = scope /\ u' = u
        BY DEF Who
    <1> HIDE DEF scope, u
    <1>3. KnownUser(u)' /\ May(r, u, scope)'
        <2>1. \A v : KnownUser(v) => KnownUser(v)'
            BY KnownStays
        <2>2. \A v, s : May(r, v, s) => May(r, v, s)'
            BY MayStays
        <2> QED
            BY <1>1, <1>2, <2>1, <2>2
    <1> QED
        BY <1>3 DEF scope, u

LEMMA RequestStays ==
    ASSUME RequestsShaped, AccountsGood, Grow, NEW q \in Requests, RequestGood(q),
           request'[q] = request[q]
    PROVE  RequestGood(q)'
    <1>1. /\ Live(q)' = Live(q) /\ Inside(q)' = Inside(q) /\ Who(q)' = Who(q)
          /\ App(q)' = App(q)
        BY DEF Live, Inside, Who, App
    <1>2. ASSUME Live(q)
          PROVE  /\ Askable(request[q].op, request[q].about)'
                 /\ CredentialGood(q)' /\ RowRead(q)' /\ IdentityGood(q)'
                 /\ IssueGood(q)' /\ ResolvedGood(q)' /\ SaveGood(q)' /\ FoundGood(q)'
        <2> USE <1>2 DEF RequestGood
        <2>1. Askable(request[q].op, request[q].about)'
            BY DEF Askable
        <2>2. CredentialGood(q)'
            BY CredentialStays
        <2>3. RowRead(q)'
            BY KnownStays DEF RowRead
        <2>4. IdentityGood(q)'
            <3>1. CASE Inside(q)
                BY <3>1, IdentityStays
            <3>2. CASE ~Inside(q)
                BY <3>2, <1>1 DEF IdentityGood
            <3> QED
                BY <3>1, <3>2
        <2>5. IssueGood(q)'
            BY KnownStays DEF IssueGood
        <2>6. ResolvedGood(q)'
            BY <1>1, KnownStays DEF ResolvedGood, Resolving
        <2>7. SaveGood(q)'
            <3> SUFFICES ASSUME Asks(q, "configure", "save")
                         PROVE  installations'[request[q].about.installation] = Who(q)
                BY <1>1 DEF SaveGood, Asks
            <3>1. /\ request[q].about.installation \in InstallationIds
                  /\ installations[request[q].about.installation] = Who(q)
                BY DEF Askable, SaveGood, Asks
            <3>2. KnownUser(Who(q))
                BY DEF IdentityGood, Inside, Asks, Public, Live
            <3>3. Who(q) # Nobody
                BY <3>2, QuotaIsNat DEF KnownUser
            <3> QED
                BY <3>1, <3>3 DEF Grow, ProjectsGrow
        <2>8. FoundGood(q)'
            BY <1>1, KnownStays DEF FoundGood
        <2> QED
            BY <2>1, <2>2, <2>3, <2>4, <2>5, <2>6, <2>7, <2>8
    <1>3. LateRefused(q)'
        <2>1. CASE request[q].late /\ request[q].pc = "authenticate"
            <3>1. Live(q) /\ CredentialGood(q) /\ LateRefused(q)
                BY <2>1 DEF RequestGood, Live
            <3>2. /\ request[q].op \notin Public /\ Dead(request[q].credential)
                  /\ request[q].credential \in Sessions \/ KnownToken(request[q].credential)
                BY <2>1, <3>1 DEF LateRefused, CredentialGood
            <3> DEFINE c == request[q].credential
            <3>3. Dead(c) /\ c' = c /\ (c \in Sessions \/ KnownToken(c))
                BY <3>2
            <3>4. \A d : Dead(d) /\ (d \in Sessions \/ KnownToken(d)) => Dead(d)'
                BY DeadStays
            <3> HIDE DEF c
            <3>5. Dead(c)'
                BY <3>3, <3>4
            <3> QED
                BY <3>1, <3>2, <3>5 DEF LateRefused, NoIdentity, Public, c
        <2>2. CASE ~(request[q].late /\ request[q].pc = "authenticate")
            BY <2>2 DEF RequestGood, LateRefused, NoIdentity, Public
        <2> QED
            BY <2>1, <2>2
    <1> QED
        BY <1>1, <1>2, <1>3 DEF RequestGood

(* So a step has to account for its own request and the tables.            *)
LEMMA Preserved ==
    ASSUME RowsInv, NEW r \in Requests, RequestsShaped',
           \A q \in Requests \ {r} : request'[q] = request[q],
           Grow, TablesGood', RequestGood(r)'
    PROVE  RowsInv'
    <1>1. \A q \in Requests : RequestGood(q)'
        BY RequestStays DEF RowsInv, TablesGood
    <1> QED
        BY <1>1 DEF RowsInv, Requests

LEMMA AnswerGood ==
    ASSUME RowsInv, NEW r \in Requests, Answer(r)
    PROVE  /\ RequestGood(r)' /\ RequestsShaped'
           /\ \A q \in Requests \ {r} : request'[q] = request[q]
    BY AnswerFields DEF RowsInv, Becomes, RequestGood, Live, LateRefused

LEMMA AnswersGood ==
    ASSUME RowsInv, NEW r \in Requests, Answer(r), Grow, TablesGood'
    PROVE  RowsInv'
    BY AnswerGood, Preserved

(* A handler that goes on keeps its caller.                                *)
LEMMA GoesOn ==
    ASSUME RowsInv, NEW r \in Requests, Inside(r), Grow, TablesGood',
           NEW pc, pc \notin {"unsent", "answered", "authenticate", "touch"}, NEW found,
           Becomes(r, pc, request[r].op, request[r].credential, request[r].identity,
                   request[r].about, found, request[r].late),
           IssueGood(r)', ResolvedGood(r)', SaveGood(r)', FoundGood(r)'
    PROVE  RowsInv'
    <1>1. /\ request'[r].pc = pc /\ request'[r].op = request[r].op
          /\ request'[r].credential = request[r].credential
          /\ request'[r].identity = request[r].identity
          /\ request'[r].about = request[r].about /\ request'[r].late = request[r].late
        BY DEF Becomes
    <1>2. RequestGood(r) /\ Live(r) /\ Live(r)'
        BY <1>1 DEF RowsInv, Inside, Live
    <1>3. Askable(request[r].op, request[r].about)' /\ RowRead(r)'
        BY <1>1, <1>2 DEF RequestGood, Askable, RowRead
    <1>4. CredentialGood(r)' /\ IdentityGood(r)'
        BY <1>1, <1>2, CredentialStays, IdentityStays DEF RequestGood
    <1>5. LateRefused(r)'
        BY <1>1, <1>2 DEF RequestGood, LateRefused, NoIdentity
    <1>6. RequestGood(r)'
        BY <1>2, <1>3, <1>4, <1>5 DEF RequestGood
    <1> QED
        BY <1>6, Preserved DEF Becomes

-----------------------------------------------------------------------------
(* The tables when one row of them changes.                                *)
LEMMA UserChanges ==
    ASSUME AccountsGood, UNCHANGED <<clock, tokens, sessions>>, NEW u \in UserIds,
           NEW row \in UserRows, users' = [users EXCEPT ![u] = row]
    PROVE  AccountsGood' /\ AccountsGrow
    <1>1. row # Nobody
        BY RowsAssumption
    <1>2. \A v \in UserIds : users'[v] = IF v = u THEN row ELSE users[v]
        BY DEF AccountsGood, UsersGood
    <1>3. \A v : KnownUser(v) => KnownUser(v)'
        BY <1>1, <1>2 DEF KnownUser
    <1>4. UsersGood'
        BY <1>2 DEF AccountsGood, UsersGood
    <1>5. TokensGood' /\ SessionsGood'
        BY <1>3 DEF AccountsGood, TokensGood, SessionsGood
    <1>6. AccountsGrow
        BY <1>1, <1>2 DEF AccountsGood, AccountsGrow
    <1> QED
        BY <1>4, <1>5, <1>6 DEF AccountsGood

LEMMA TokenChanges ==
    ASSUME AccountsGood, UNCHANGED <<clock, users, sessions>>, NEW t \in TokenIds,
           NEW row \in TokenRows, tokens' = [tokens EXCEPT ![t] = row], KnownUser(row.user),
           tokens[t] # Nobody => /\ row.user = tokens[t].user /\ row.scopes = tokens[t].scopes
                                 /\ row.expires = tokens[t].expires
                                 /\ tokens[t].revoked = Never
    PROVE  AccountsGood' /\ AccountsGrow
    <1>1. row # Nobody
        BY RowsAssumption
    <1>2. \A s \in TokenIds : tokens'[s] = IF s = t THEN row ELSE tokens[s]
        BY DEF AccountsGood, TokensGood
    <1>3. \A v : KnownUser(v)' = KnownUser(v)
        BY DEF KnownUser
    <1>4. TokensGood'
        BY <1>2, <1>3 DEF AccountsGood, TokensGood
    <1>5. UsersGood' /\ SessionsGood' /\ clock' \in Nat
        BY <1>3 DEF AccountsGood, UsersGood, SessionsGood
    <1>6. AccountsGrow
        BY <1>1, <1>2 DEF AccountsGood, AccountsGrow
    <1> QED
        BY <1>4, <1>5, <1>6 DEF AccountsGood

LEMMA TouchChanges ==
    ASSUME AccountsGood, UNCHANGED <<clock, users, sessions>>, NEW t, KnownToken(t),
           tokens' \in {tokens, Touched(t)}
    PROVE  AccountsGood' /\ AccountsGrow
    <1>1. CASE UNCHANGED tokens
        BY <1>1, AccountsStay
    <1>2. CASE Alive(t) /\ tokens' = [tokens EXCEPT ![t].used = clock]
        <2> DEFINE row == [tokens[t] EXCEPT !.used = clock]
        <2>1. /\ t \in TokenIds /\ tokens[t] \in TokenRows /\ KnownUser(tokens[t].user)
              /\ tokens[t].revoked = Never /\ clock \in Nat
            BY <1>2 DEF KnownToken, AccountsGood, TokensGood, Alive
        <2>2. /\ row \in TokenRows /\ row.user = tokens[t].user /\ row.scopes = tokens[t].scopes
              /\ row.expires = tokens[t].expires
            BY <2>1 DEF TokenRows
        <2>3. tokens' = [tokens EXCEPT ![t] = row]
            BY <1>2
        <2> HIDE DEF row
        <2> QED
            BY <2>1, <2>2, <2>3, TokenChanges
    <1> QED
        BY <1>1, <1>2 DEF Touched

-----------------------------------------------------------------------------
(* The middleware.                                                         *)
LEMMA AdmitGood ==
    ASSUME RowsInv, NEW r \in Requests, Live(r), ~request[r].late, Grow, TablesGood',
           NEW who, Admit(r, who),
           request[r].op \notin Public /\ Authorized(who, request[r].op) =>
               /\ KnownUser(who.user)
               /\ May(r, who.user, IF request[r].op \in SessionOnly
                                   THEN "session" ELSE Scope[request[r].op])
    PROVE  RowsInv'
    <1>0. RequestGood(r) /\ RequestsShaped
        BY DEF RowsInv
    <1>1. CASE Authorized(who, request[r].op)
        <2>1. Becomes(r, "handler", request[r].op, request[r].credential, who,
                      request[r].about, Nobody, request[r].late)
            BY <1>0, <1>1, AdmitFields
        <2>2. /\ request'[r].pc = "handler" /\ request'[r].op = request[r].op
              /\ request'[r].credential = request[r].credential
              /\ request'[r].identity = who /\ request'[r].about = request[r].about
              /\ ~request'[r].late
            BY <2>1 DEF Becomes
        <2>3. Askable(request[r].op, request[r].about)' /\ CredentialGood(r)'
            BY <1>0, <2>2, CredentialStays DEF RequestGood, Askable
        <2>4. IdentityGood(r)'
            <3> SUFFICES ASSUME request[r].op \notin Public
                         PROVE  /\ KnownUser(Who(r))'
                                /\ May(r, Who(r), IF request[r].op \in SessionOnly
                                                  THEN "session" ELSE Scope[request[r].op])'
                BY <2>2 DEF IdentityGood, Public
            <3> DEFINE scope == IF request[r].op \in SessionOnly
                                THEN "session" ELSE Scope[request[r].op]
                       u == Who(r)
            <3>1. KnownUser(who.user) /\ May(r, who.user, scope) /\ CredentialGood(r)
                BY <1>0, <1>1 DEF RequestGood
            <3>2. scope' = scope /\ u' = who.user
                BY <2>2 DEF Who
            <3> HIDE DEF scope, u
            <3>3. KnownUser(u)' /\ May(r, u, scope)'
                <4>1. \A v : KnownUser(v) => KnownUser(v)'
                    BY KnownStays
                <4>2. \A v, s : May(r, v, s) => May(r, v, s)'
                    BY <2>2, <3>1, MayStays
                <4> QED
                    BY <3>1, <3>2, <4>1, <4>2
            <3> QED
                BY <3>3 DEF scope, u
        <2>5. IssueGood(r)' /\ ResolvedGood(r)' /\ SaveGood(r)' /\ FoundGood(r)' /\ RowRead(r)'
            BY <2>2 DEF IssueGood, ResolvedGood, SaveGood, Asks, FoundGood, RowRead
        <2>6. RequestGood(r)'
            BY <2>2, <2>3, <2>4, <2>5 DEF RequestGood, LateRefused
        <2> QED
            BY <2>1, <2>6, Preserved DEF Becomes
    <1>2. CASE ~Authorized(who, request[r].op)
        BY <1>0, <1>2, AdmitFields, AnswersGood
    <1> QED
        BY <1>1, <1>2

LEMMA SessionGood ==
    ASSUME RowsInv, NEW r \in Requests, AuthenticateSession(r), UNCHANGED appVars
    PROVE  RowsInv'
    <1> DEFINE session == request[r].credential
               who == [user |-> SubjectOf(session), method |-> "session", scopes |-> {}]
    <1>1. Grow /\ TablesGood'
        BY AccountsStay, ProjectsStay DEF AuthenticateSession, RowsInv, TablesGood, Grow
    <1>2. request[r].pc = "authenticate" /\ session \in Sessions /\ RequestGood(r) /\ Live(r)
        BY DEF AuthenticateSession, RowsInv, Live
    <1>3. CASE clock < session.expires
        <2>1. Admit(r, who)
            BY <1>3 DEF AuthenticateSession
        <2>2. ~request[r].late
            <3>1. session.expires \in Nat /\ clock \in Nat
                BY <1>2 DEF RowsInv, TablesGood, AccountsGood, Sessions
            <3>2. ~Dead(session)
                BY <1>2, <1>3, <3>1 DEF Dead, ByToken
            <3> QED
                BY <1>2, <3>2 DEF RequestGood, LateRefused
        <2>3. ASSUME request[r].op \notin Public
              PROVE  KnownUser(session.user) /\ \A scope : May(r, session.user, scope)
            BY <1>2, <2>3 DEF RequestGood, CredentialGood, KnownToken, ByToken, May
        <2>4. who.user = session.user
            BY DEF SubjectOf
        <2> HIDE DEF who, session
        <2> QED
            BY <1>1, <1>2, <2>1, <2>2, <2>3, <2>4, AdmitGood
    <1>4. CASE ~(clock < session.expires)
        BY <1>1, <1>4, AnswersGood DEF AuthenticateSession
    <1> QED
        BY <1>3, <1>4

LEMMA LookUpGood ==
    ASSUME RowsInv, NEW r \in Requests, LookUpToken(r), UNCHANGED appVars
    PROVE  RowsInv'
    <1> DEFINE t == request[r].credential
    <1>1. Grow /\ TablesGood'
        BY AccountsStay, ProjectsStay DEF LookUpToken, RowsInv, TablesGood, Grow
    <1>2. request[r].pc = "authenticate" /\ ByToken(t) /\ RequestGood(r) /\ Live(r)
        BY DEF LookUpToken, RowsInv, Live
    <1>3. CASE Alive(t)
        <2>1. Becomes(r, "touch", request[r].op, request[r].credential, request[r].identity,
                      request[r].about, tokens[t], request[r].late)
            BY <1>3, FoundFields DEF LookUpToken, RowsInv
        <2>2. /\ request'[r].pc = "touch" /\ request'[r].op = request[r].op
              /\ request'[r].credential = t /\ request'[r].identity = request[r].identity
              /\ request'[r].about = request[r].about /\ request'[r].found = tokens[t]
              /\ request'[r].late = request[r].late
            BY <2>1 DEF Becomes
        <2>3. request[r].op \notin Public /\ KnownToken(t)
            BY <1>2 DEF RequestGood, LateRefused, CredentialGood, ByToken
        <2>4. Askable(request[r].op, request[r].about)' /\ CredentialGood(r)'
            BY <1>1, <1>2, <2>2, CredentialStays DEF RequestGood, Askable
        <2>5. ~request[r].late
            <3>1. ASSUME request[r].late PROVE FALSE
                <4>1. Dead(t)
                    BY <1>2, <3>1 DEF RequestGood, LateRefused
                <4>2. tokens[t].expires \in Nat /\ clock \in Nat
                    BY <2>3 DEF RowsInv, TablesGood, AccountsGood, TokensGood, KnownToken, TokenRows
                <4> QED
                    BY <1>3, <2>3, <4>1, <4>2 DEF Dead, Alive, KnownToken, ByToken
            <3> QED
                BY <3>1
        <2>6. RowRead(r)'
            <3>1. UNCHANGED tokens
                BY DEF LookUpToken
            <3> QED
                BY <2>2, <2>3, <3>1 DEF RowRead, KnownToken, ByToken
        <2>7. /\ IssueGood(r)' /\ ResolvedGood(r)' /\ SaveGood(r)' /\ FoundGood(r)'
              /\ IdentityGood(r)' /\ LateRefused(r)'
            BY <2>2, <2>5
            DEF IssueGood, ResolvedGood, SaveGood, Asks, FoundGood, IdentityGood, Inside, LateRefused
        <2>8. RequestGood(r)'
            BY <2>4, <2>6, <2>7 DEF RequestGood
        <2> QED
            BY <1>1, <2>1, <2>8, Preserved DEF Becomes
    <1>4. CASE ~Alive(t)
        BY <1>1, <1>4, AnswersGood DEF LookUpToken
    <1> QED
        BY <1>3, <1>4

LEMMA TouchGood ==
    ASSUME RowsInv, NEW r \in Requests, TouchToken(r), UNCHANGED appVars
    PROVE  RowsInv'
    <1> DEFINE t == request[r].credential
               row == request[r].found
               who == [user |-> row.user, method |-> "api_token", scopes |-> row.scopes]
    <1>1. /\ request[r].pc = "touch" /\ tokens' \in {tokens, Touched(t)} /\ Admit(r, who)
          /\ UNCHANGED <<clock, users, sessions>> /\ RequestGood(r) /\ Live(r)
        BY DEF TouchToken, RowsInv, Live
    <1>2. KnownToken(t) /\ row.user = tokens[t].user /\ row.scopes = tokens[t].scopes
        BY <1>1 DEF RequestGood, RowRead
    <1>3. ~request[r].late
        BY <1>1 DEF RequestGood, LateRefused
    <1> HIDE DEF row
    <1>4. Grow /\ TablesGood'
        <2>1. AccountsGood /\ ProjectsGood
            BY DEF RowsInv, TablesGood
        <2>2. AccountsGood' /\ AccountsGrow
            <3> HIDE DEF t
            <3> QED
                BY <1>1, <1>2, <2>1, TouchChanges
        <2> QED
            BY <2>1, <2>2, ProjectsStay DEF TablesGood, Grow
    <1>5. KnownUser(who.user)
        <2>1. who.user = tokens[t].user
            BY <1>2
        <2> QED
            BY <1>2, <2>1 DEF KnownToken, RowsInv, TablesGood, AccountsGood, TokensGood
    <1>6. ASSUME Authorized(who, request[r].op)
          PROVE  May(r, who.user, IF request[r].op \in SessionOnly
                                  THEN "session" ELSE Scope[request[r].op])
        <2>1. /\ who.method = "api_token" /\ who.scopes = tokens[t].scopes
              /\ who.user = tokens[t].user
            BY <1>2
        <2> HIDE DEF who
        <2>2. request[r].op \notin SessionOnly /\ Scope[request[r].op] \in tokens[t].scopes
            BY <1>6, <2>1 DEF Authorized, HasScope
        <2> QED
            BY <1>2, <2>1, <2>2 DEF May, KnownToken
    <1> HIDE DEF who
    <1> QED
        BY <1>1, <1>3, <1>4, <1>5, <1>6, AdmitGood

-----------------------------------------------------------------------------
(* The handlers of accounts and tokens.                                    *)
LEMMA LoginGood ==
    ASSUME RowsInv, NEW r \in Requests, LoginRead(r), UNCHANGED appVars
    PROVE  RowsInv'
    <1>1. Grow /\ TablesGood' /\ UNCHANGED users
        BY AccountsStay, ProjectsStay DEF LoginRead, RowsInv, TablesGood, Grow
    <1>2. request[r].op = "login" /\ request[r].pc = "handler" /\ Inside(r) /\ RequestsShaped
        BY DEF LoginRead, Asks, Inside, Live, RowsInv
    <1>3. CASE Answer(r)
        BY <1>1, <1>3, AnswersGood
    <1>4. ASSUME NEW u \in Named(request[r].about.username),
                 Found(r, "issue", [user |-> u, username |-> users[u].username])
          PROVE  RowsInv'
        <2> DEFINE what == [user |-> u, username |-> users[u].username]
        <2>1. KnownUser(u) /\ users[u].username \in Usernames
            BY DEF Named, KnownUser, RowsInv, TablesGood, AccountsGood, UsersGood, UserRows
        <2>2. Becomes(r, "issue", request[r].op, request[r].credential, request[r].identity,
                      request[r].about, what, request[r].late)
            BY <1>2, <1>4, FoundFields
        <2>3. request'[r].pc = "issue" /\ request'[r].op = "login" /\ request'[r].found = what
            BY <1>2, <2>2 DEF Becomes
        <2>4. IssueGood(r)'
            BY <1>1, <2>1, <2>3 DEF IssueGood, KnownUser
        <2>5. ResolvedGood(r)' /\ SaveGood(r)' /\ FoundGood(r)'
            BY <2>3 DEF ResolvedGood, SaveGood, Asks, FoundGood
        <2> HIDE DEF what
        <2> QED
            BY <1>1, <1>2, <2>2, <2>4, <2>5, GoesOn
    <1> QED
        BY <1>3, <1>4 DEF LoginRead

LEMMA IssueTokenGood ==
    ASSUME RowsInv, NEW r \in Requests, IssueToken(r), UNCHANGED appVars
    PROVE  RowsInv'
    <1> DEFINE u == request[r].found.user
               session == [user |-> u, username |-> request[r].found.username,
                           expires |-> clock + TokenTTL]
    <1>1. /\ Answer(r) /\ UNCHANGED <<clock, users, tokens>> /\ sessions' = sessions \cup {session}
          /\ AccountsGood /\ ProjectsGood /\ RequestGood(r) /\ Live(r)
        BY DEF IssueToken, Issue, RowsInv, TablesGood, Live
    <1>2. KnownUser(u) /\ request[r].found.username \in Usernames
        BY DEF IssueToken, RowsInv, RequestGood, IssueGood, Live
    <1>3. session \in Sessions /\ session.user = u
        BY <1>1, <1>2, AccessAssumption DEF Sessions, KnownUser, AccountsGood
    <1> HIDE DEF session, u
    <1>4. SessionsGood'
        BY <1>1, <1>2, <1>3 DEF AccountsGood, SessionsGood, KnownUser, Sessions
    <1>5. AccountsGood' /\ AccountsGrow
        BY <1>1, <1>4 DEF AccountsGood, AccountsGrow, UsersGood, TokensGood, KnownUser, Never
    <1> QED
        BY <1>1, <1>5, ProjectsStay, AnswersGood DEF Grow, TablesGood

LEMMA RegisterGood ==
    ASSUME RowsInv, NEW r \in Requests, Register(r), UNCHANGED appVars
    PROVE  RowsInv'
    <1>1. /\ Answer(r) /\ UNCHANGED <<clock, tokens, sessions>>
          /\ AccountsGood /\ ProjectsGood /\ RequestGood(r) /\ Live(r)
          /\ request[r].op = "register"
        BY DEF Register, Asks, RowsInv, TablesGood, Live
    <1>2. request[r].about \in UserRows
        BY <1>1 DEF RequestGood, Askable
    <1>3. \/ UNCHANGED users
          \/ \E u \in UserIds : users' = [users EXCEPT ![u] = request[r].about]
        BY DEF Register
    <1>4. AccountsGood' /\ AccountsGrow
        BY <1>1, <1>2, <1>3, AccountsStay, UserChanges
    <1> QED
        BY <1>1, <1>4, ProjectsStay, AnswersGood DEF Grow, TablesGood

(* The two changes of a user's own row.                                    *)
LEMMA OwnRowChanges ==
    ASSUME RowsInv, NEW r \in Requests, Inside(r), request[r].op \in {"rename", "password"},
           UNCHANGED <<clock, tokens, sessions>>, UNCHANGED appVars,
           \/ request[r].op = "rename"
              /\ users' = [users EXCEPT ![Who(r)].username = request[r].about]
           \/ request[r].op = "password"
              /\ users' = [users EXCEPT ![Who(r)].password = request[r].about.new],
           Step(r, "refresh")
    PROVE  RowsInv'
    <1> DEFINE u == Who(r)
               about == request[r].about
    <1>1. AccountsGood /\ ProjectsGood /\ RequestGood(r) /\ Live(r) /\ RequestsShaped
        BY DEF RowsInv, TablesGood, Inside
    <1>2. KnownUser(u)
        BY <1>1 DEF RequestGood, IdentityGood, Public
    <1>3. u \in UserIds /\ users[u] \in UserRows
        BY <1>1, <1>2 DEF KnownUser, AccountsGood, UsersGood
    <1>4. \E row \in UserRows : users' = [users EXCEPT ![u] = row]
        <2>1. CASE request[r].op = "rename"
            <3> DEFINE row == [users[u] EXCEPT !.username = about]
            <3>1. about \in Usernames
                BY <1>1, <2>1 DEF RequestGood, Askable
            <3>2. row \in UserRows
                BY <1>3, <3>1 DEF UserRows
            <3>3. users' = [users EXCEPT ![u] = row]
                BY <2>1
            <3> HIDE DEF row, u
            <3> QED
                BY <3>2, <3>3
        <2>2. CASE request[r].op = "password"
            <3> DEFINE row == [users[u] EXCEPT !.password = about.new]
            <3>1. about \in [current : Passwords, new : Passwords]
                BY <1>1, <2>2 DEF RequestGood, Askable
            <3>2. row \in UserRows
                BY <1>3, <3>1 DEF UserRows
            <3>3. users' = [users EXCEPT ![u] = row]
                BY <2>2
            <3> HIDE DEF row, u
            <3> QED
                BY <3>2, <3>3
        <2> QED
            BY <2>1, <2>2
    <1>5. Grow /\ TablesGood'
        <2> HIDE DEF u
        <2> QED
            BY <1>1, <1>3, <1>4, UserChanges, ProjectsStay DEF Grow, TablesGood
    <1>6. Becomes(r, "refresh", request[r].op, request[r].credential, request[r].identity,
                  request[r].about, request[r].found, request[r].late)
        BY <1>1, StepFields
    <1>7. IssueGood(r)' /\ ResolvedGood(r)' /\ SaveGood(r)' /\ FoundGood(r)'
        BY <1>6 DEF Becomes, IssueGood, ResolvedGood, SaveGood, Asks, FoundGood
    <1> QED
        BY <1>5, <1>6, <1>7, GoesOn

LEMMA PasswordGood ==
    ASSUME RowsInv, NEW r \in Requests, CheckPassword(r), UNCHANGED appVars
    PROVE  RowsInv'
    <1>1. Grow /\ TablesGood' /\ RequestsShaped
        BY AccountsStay, ProjectsStay DEF CheckPassword, RowsInv, TablesGood, Grow
    <1>2. request[r].op = "password" /\ request[r].pc = "handler" /\ Inside(r)
        BY DEF CheckPassword, Asks, Inside, Live
    <1>3. CASE Answer(r)
        BY <1>1, <1>3, AnswersGood
    <1>4. CASE Step(r, "save")
        <2>1. Becomes(r, "save", request[r].op, request[r].credential, request[r].identity,
                      request[r].about, request[r].found, request[r].late)
            BY <1>1, <1>4, StepFields
        <2>2. IssueGood(r)' /\ ResolvedGood(r)' /\ SaveGood(r)' /\ FoundGood(r)'
            BY <1>2, <2>1 DEF Becomes, IssueGood, ResolvedGood, Resolving, SaveGood, Asks, FoundGood
        <2> QED
            BY <1>1, <1>2, <2>1, <2>2, GoesOn
    <1> QED
        BY <1>3, <1>4 DEF CheckPassword

LEMMA RefreshGood ==
    ASSUME RowsInv, NEW r \in Requests, Refresh(r), UNCHANGED appVars
    PROVE  RowsInv'
    <1>1. Grow /\ TablesGood' /\ UNCHANGED users /\ RequestsShaped
        BY AccountsStay, ProjectsStay DEF Refresh, RowsInv, TablesGood, Grow
    <1>2. request[r].pc = "refresh" /\ Inside(r) /\ RequestGood(r) /\ Live(r)
        BY DEF Refresh, Inside, Live, RowsInv
    <1>3. CASE Answer(r)
        BY <1>1, <1>3, AnswersGood
    <1>4. CASE Found(r, "issue", [user |-> Who(r), username |-> users[Who(r)].username])
        <2> DEFINE what == [user |-> Who(r), username |-> users[Who(r)].username]
        <2>1. KnownUser(Who(r)) /\ users[Who(r)].username \in Usernames
            <3>1. request[r].op \notin Public
                BY <1>2 DEF RequestGood, IssueGood, Public
            <3>2. KnownUser(Who(r))
                BY <1>2, <3>1 DEF RequestGood, IdentityGood
            <3> QED
                BY <3>2 DEF KnownUser, RowsInv, TablesGood, AccountsGood, UsersGood, UserRows
        <2>2. Becomes(r, "issue", request[r].op, request[r].credential, request[r].identity,
                      request[r].about, what, request[r].late)
            BY <1>1, <1>4, FoundFields
        <2>3. request'[r].pc = "issue" /\ request'[r].found = what
            BY <2>2 DEF Becomes
        <2>4. IssueGood(r)'
            BY <1>1, <2>1, <2>3 DEF IssueGood, KnownUser
        <2>5. ResolvedGood(r)' /\ SaveGood(r)' /\ FoundGood(r)'
            BY <2>3 DEF ResolvedGood, SaveGood, Asks, FoundGood
        <2> HIDE DEF what
        <2> QED
            BY <1>1, <1>2, <2>2, <2>4, <2>5, GoesOn
    <1> QED
        BY <1>3, <1>4 DEF Refresh

LEMMA CreateTokenGood ==
    ASSUME RowsInv, NEW r \in Requests, CreateToken(r), UNCHANGED appVars
    PROVE  RowsInv'
    <1> DEFINE wanted == request[r].about
               row == [user |-> Who(r), scopes |-> Normalized(wanted.scopes),
                       expires |-> wanted.expires, revoked |-> Never, used |-> Never]
    <1>1. /\ Answer(r) /\ UNCHANGED <<clock, users, sessions>>
          /\ AccountsGood /\ ProjectsGood /\ RequestGood(r) /\ Inside(r) /\ Live(r)
          /\ request[r].op = "createToken"
        BY DEF CreateToken, Asks, RowsInv, TablesGood, Inside, Live
    <1>2. /\ wanted.scopes \in SUBSET Scopes /\ wanted.expires \in Nat /\ KnownUser(Who(r))
        BY <1>1 DEF RequestGood, Askable, IdentityGood, Public
    <1>3. row \in TokenRows /\ row.user = Who(r)
        BY <1>2, AccessAssumption DEF TokenRows, KnownUser, Normalized, Scopes, Never
    <1>4. \/ UNCHANGED tokens
          \/ \E t \in TokenIds : tokens[t] = Nobody /\ tokens' = [tokens EXCEPT ![t] = row]
        BY DEF CreateToken
    <1> HIDE DEF row
    <1>5. AccountsGood' /\ AccountsGrow
        BY <1>1, <1>2, <1>3, <1>4, AccountsStay, TokenChanges
    <1> QED
        BY <1>1, <1>5, ProjectsStay, AnswersGood DEF Grow, TablesGood

LEMMA RevokeTokenGood ==
    ASSUME RowsInv, NEW r \in Requests, RevokeToken(r), UNCHANGED appVars
    PROVE  RowsInv'
    <1> DEFINE t == request[r].about
    <1>1. /\ Answer(r) /\ UNCHANGED <<clock, users, sessions>> /\ AccountsGood /\ ProjectsGood
        BY DEF RevokeToken, RowsInv, TablesGood
    <1>2. CASE UNCHANGED tokens
        BY <1>1, <1>2, AccountsStay, ProjectsStay, AnswersGood DEF Grow, TablesGood
    <1>3. CASE /\ tokens[t] # Nobody /\ tokens[t].revoked = Never
               /\ tokens' = [tokens EXCEPT ![t].revoked = clock]
        <2> DEFINE row == [tokens[t] EXCEPT !.revoked = clock]
        <2>1. CASE t \notin TokenIds
            <3>1. UNCHANGED tokens
                BY <1>1, <1>3, <2>1 DEF AccountsGood, TokensGood
            <3> QED
                BY <1>2, <3>1
        <2>2. CASE t \in TokenIds
            <3>1. tokens[t] \in TokenRows /\ KnownUser(tokens[t].user) /\ clock \in Nat
                BY <1>1, <1>3, <2>2 DEF AccountsGood, TokensGood
            <3>2. /\ row \in TokenRows /\ row.user = tokens[t].user
                  /\ row.scopes = tokens[t].scopes /\ row.expires = tokens[t].expires
                BY <3>1 DEF TokenRows
            <3>3. tokens' = [tokens EXCEPT ![t] = row]
                BY <1>3
            <3> HIDE DEF row, t
            <3>4. AccountsGood' /\ AccountsGrow
                BY <1>1, <1>3, <2>2, <3>1, <3>2, <3>3, TokenChanges
            <3> QED
                BY <1>1, <3>4, ProjectsStay, AnswersGood DEF Grow, TablesGood
        <2> QED
            BY <2>1, <2>2
    <1> QED
        BY <1>2, <1>3 DEF RevokeToken

LEMMA AccountRows ==
    ASSUME RowsInv, NEW r \in Requests, Account(r), UNCHANGED appVars
    PROVE  RowsInv'
    <1>1. CASE Rename(r)
        <2>1. CASE Answer(r) /\ UNCHANGED users
            BY <1>1, <2>1, AccountsStay, ProjectsStay, AnswersGood
            DEF Rename, RowsInv, TablesGood, Grow
        <2>2. CASE /\ users' = [users EXCEPT ![Who(r)].username = request[r].about]
                   /\ Step(r, "refresh")
            BY <1>1, <2>2, OwnRowChanges DEF Rename, Asks, Inside, Live
        <2> QED
            BY <1>1, <2>1, <2>2 DEF Rename
    <1>2. CASE SavePassword(r)
        BY <1>2, OwnRowChanges DEF SavePassword, Asks, Inside, Live
    <1> QED
        BY <1>1, <1>2, SessionGood, LookUpGood, TouchGood, LoginGood, IssueTokenGood,
            RegisterGood, PasswordGood, RefreshGood, CreateTokenGood, RevokeTokenGood DEF Account

-----------------------------------------------------------------------------
(* Applications and what belongs to them.                                  *)
projectRows == <<apps, env, deployments, installations>>
accountRows == <<clock, users, tokens, sessions>>

LEMMA RowsStay ==
    ASSUME RowsInv, UNCHANGED accountRows, UNCHANGED projectRows
    PROVE  Grow /\ TablesGood'
    <1>1. AccountsGood' /\ AccountsGrow
        BY AccountsStay DEF RowsInv, TablesGood, accountRows
    <1>2. ProjectsGood' /\ ProjectsGrow
        BY DEF RowsInv, TablesGood, ProjectsGood, ProjectsGrow, AppsGood, NamesUnique, RowsOwned,
            OwnRows, Sourced, Exists, AppIds, projectRows
    <1> QED
        BY <1>1, <1>2 DEF TablesGood, Grow

LEMMA AnswerRows ==
    ASSUME RowsInv, NEW r \in Requests, Answer(r), UNCHANGED accountRows,
           ProjectsGrow, ProjectsGood'
    PROVE  RowsInv'
    BY AccountsStay, AnswersGood DEF RowsInv, TablesGood, Grow, accountRows

LEMMA AnswerSame ==
    ASSUME RowsInv, NEW r \in Requests, Answer(r), UNCHANGED accountRows, UNCHANGED projectRows
    PROVE  RowsInv'
    BY RowsStay, AnswersGood

LEMMA StepSame ==
    ASSUME RowsInv, NEW r \in Requests, Inside(r), NEW pc, Step(r, pc),
           UNCHANGED accountRows, UNCHANGED projectRows,
           pc \in {"count", "insert", "deleteRow", "save", "upsert"},
           pc \in {"deleteRow", "save"} => request[r].pc = "resolved",
           pc = "save" => installations[request[r].about.installation] = Who(r)
    PROVE  RowsInv'
    <1>1. Grow /\ TablesGood' /\ UNCHANGED <<apps, installations>>
        BY RowsStay DEF projectRows
    <1>2. Becomes(r, pc, request[r].op, request[r].credential, request[r].identity,
                  request[r].about, request[r].found, request[r].late)
        BY StepFields DEF RowsInv
    <1>3. /\ request'[r].pc = pc /\ request'[r].op = request[r].op
          /\ request'[r].about = request[r].about /\ request'[r].found = request[r].found
          /\ Who(r)' = Who(r) /\ App(r)' = App(r)
        BY <1>2 DEF Becomes, Who, App
    <1>4. ResolvedGood(r) /\ Live(r)
        BY DEF RowsInv, RequestGood, Inside
    <1>5. ResolvedGood(r)'
        <2>1. CASE pc \in {"deleteRow", "save"}
            BY <1>1, <1>3, <1>4, <2>1 DEF ResolvedGood, Resolving, KnownApp, Exists, AppIds
        <2>2. CASE pc \notin {"deleteRow", "save"}
            BY <1>3, <2>2 DEF ResolvedGood, Resolving
        <2> QED
            BY <2>1, <2>2
    <1>6. IssueGood(r)' /\ SaveGood(r)' /\ FoundGood(r)'
        BY <1>1, <1>3 DEF IssueGood, SaveGood, Asks, FoundGood
    <1> QED
        BY <1>1, <1>2, <1>5, <1>6, GoesOn

(* The caller of a handler behind the middleware.                          *)
LEMMA Caller ==
    ASSUME RowsInv, NEW r \in Requests, Inside(r), request[r].op \notin Public
    PROVE  /\ Who(r) \in UserIds /\ Who(r) # Nobody
           /\ May(r, Who(r), IF request[r].op \in SessionOnly
                             THEN "session" ELSE Scope[request[r].op])
    BY QuotaIsNat DEF RowsInv, RequestGood, IdentityGood, KnownUser, Inside

-----------------------------------------------------------------------------
LEMMA InsertRows ==
    ASSUME RowsInv, NEW r \in Requests, InsertApp(r), UNCHANGED accountRows
    PROVE  RowsInv'
    <1> DEFINE name == request[r].about
               row == [name |-> name, owner |-> Who(r), installation |-> Nobody]
    <1>1. /\ Answer(r) /\ UNCHANGED <<env, deployments, installations>>
          /\ ProjectsGood /\ RequestGood(r) /\ Inside(r) /\ Live(r) /\ request[r].op = "createApp"
        BY DEF InsertApp, Asks, RowsInv, TablesGood, Inside, Live
    <1>2. CASE UNCHANGED apps
        BY <1>1, <1>2, AnswerSame DEF projectRows
    <1>3. ASSUME ByName(name, Nobody) = {}, NEW a \in AppIds, apps[a] = Nobody,
                 apps' = [apps EXCEPT ![a] = row]
          PROVE  RowsInv'
        <2>1. name \in AppNames /\ Who(r) \in UserIds
            BY <1>1, Caller DEF RequestGood, Askable, Public
        <2>2. /\ row \in AppRows /\ row.name = name /\ row.owner = Who(r)
              /\ row.installation = Nobody
            BY <2>1 DEF AppRows
        <2> HIDE DEF row, name
        <2>3. row # Nobody /\ row # Gone
            BY <2>2, GoneAssumption
        <2>4. /\ apps'[a] = row
              /\ \A b \in AppIds \ {a} : apps'[b] = apps[b]
              /\ apps' = [b \in AppIds |-> apps'[b]]
            BY <1>1, <1>3 DEF ProjectsGood, AppsGood
        <2>5. /\ \A b \in AppIds : Exists(b)' <=> (Exists(b) \/ b = a)
              /\ ~Exists(a)
            BY <1>3, <2>3, <2>4 DEF Exists
        <2>6. AppsGood'
            BY <1>1, <2>2, <2>4, <2>5 DEF ProjectsGood, AppsGood, AppRows, AppIds
        <2>7. \A b \in AppIds : Exists(b) => apps[b].name # name
            BY <1>3 DEF ByName, Visible
        <2>8. NamesUnique'
            BY <1>1, <2>2, <2>4, <2>5, <2>7 DEF ProjectsGood, NamesUnique, AppIds
        <2>9. RowsOwned'
            <3>1. \A e \in env : Exists(e.app)' /\ e.by = apps'[e.app].owner /\ e.app \in AppIds
                BY <1>1, <2>4, <2>5 DEF ProjectsGood, RowsOwned, OwnRows
            <3>2. \A d \in deployments :
                     /\ d.app \in AppIds /\ d.of \in AppIds /\ apps'[d.of] # Nobody
                     /\ Exists(d.app)' /\ (d.of = d.app => d.by = apps'[d.app].owner)
                     /\ d.of # d.app => apps'[d.of] = Gone
                BY <1>1, <1>3, <2>4, <2>5 DEF ProjectsGood, RowsOwned, OwnRows
            <3>3. \A b \in AppIds : Exists(b)' /\ apps'[b].installation # Nobody =>
                                    installations[apps'[b].installation] = apps'[b].owner
                BY <1>1, <2>2, <2>4, <2>5 DEF ProjectsGood, RowsOwned, OwnRows, Sourced
            <3>4. installations' = [i \in InstallationIds |-> installations'[i]]
                BY <1>1 DEF ProjectsGood, RowsOwned
            <3> QED
                BY <1>1, <3>1, <3>2, <3>3, <3>4 DEF RowsOwned, OwnRows, Sourced, AppIds
        <2>10. ProjectsGrow
            BY <1>1, <1>3, <2>4, <2>5 DEF ProjectsGrow
        <2> QED
            BY <1>1, <2>6, <2>8, <2>9, <2>10, AnswerRows DEF ProjectsGood
    <1> QED
        BY <1>2, <1>3 DEF InsertApp

LEMMA DeleteRows ==
    ASSUME RowsInv, NEW r \in Requests, DeleteRow(r), UNCHANGED accountRows
    PROVE  RowsInv'
    <1> DEFINE a == App(r)
    <1>1. /\ Answer(r) /\ UNCHANGED installations
          /\ ProjectsGood /\ RequestGood(r) /\ Live(r)
          /\ request[r].op = "deleteApp" /\ request[r].pc = "deleteRow"
        BY DEF DeleteRow, Asks, RowsInv, TablesGood, Live
    <1>2. CASE UNCHANGED <<apps, env, deployments>>
        BY <1>1, <1>2, AnswerSame DEF projectRows
    <1>3. CASE /\ Visible(a, Who(r)) /\ apps' = [apps EXCEPT ![a] = Gone]
               /\ env' = {e \in env : e.app # a}
               /\ deployments' = {d \in deployments : d.app # a}
        <2>1. KnownApp(a) /\ a \in AppIds
            BY <1>1 DEF RequestGood, ResolvedGood, Resolving, KnownApp
        <2> HIDE DEF a
        <2>2. /\ apps'[a] = Gone
              /\ \A b \in AppIds \ {a} : apps'[b] = apps[b]
              /\ apps' = [b \in AppIds |-> apps'[b]]
            BY <1>1, <1>3, <2>1 DEF ProjectsGood, AppsGood
        <2>3. \A b \in AppIds : Exists(b)' <=> (Exists(b) /\ b # a)
            BY <2>2 DEF Exists
        <2>4. AppsGood' /\ NamesUnique'
            BY <1>1, <2>2, <2>3 DEF ProjectsGood, AppsGood, NamesUnique, AppRows, AppIds
        <2>5. RowsOwned'
            <3>1. \A e \in env' : Exists(e.app)' /\ e.by = apps'[e.app].owner /\ e.app \in AppIds
                BY <1>1, <1>3, <2>2, <2>3 DEF ProjectsGood, RowsOwned, OwnRows
            <3>2. \A d \in deployments' :
                     /\ d.app \in AppIds /\ d.of \in AppIds /\ apps'[d.of] # Nobody
                     /\ Exists(d.app)' /\ (d.of = d.app => d.by = apps'[d.app].owner)
                     /\ d.of # d.app => apps'[d.of] = Gone
                BY <1>1, <1>3, <2>2, <2>3, GoneAssumption DEF ProjectsGood, RowsOwned, OwnRows
            <3>3. \A b \in AppIds : Exists(b)' /\ apps'[b].installation # Nobody =>
                                    installations[apps'[b].installation] = apps'[b].owner
                BY <1>1, <2>2, <2>3 DEF ProjectsGood, RowsOwned, OwnRows, Sourced
            <3>4. installations' = [i \in InstallationIds |-> installations'[i]]
                BY <1>1 DEF ProjectsGood, RowsOwned
            <3> QED
                BY <1>1, <3>1, <3>2, <3>3, <3>4 DEF RowsOwned, OwnRows, Sourced, AppIds
        <2>6. ProjectsGrow
            BY <1>1, <2>2, <2>3, GoneAssumption DEF ProjectsGrow
        <2> QED
            BY <1>1, <2>4, <2>5, <2>6, AnswerRows DEF ProjectsGood
    <1> QED
        BY <1>2, <1>3 DEF DeleteRow

LEMMA EnvRows ==
    ASSUME RowsInv, NEW r \in Requests, SetEnv(r), UNCHANGED accountRows
    PROVE  RowsInv'
    <1> DEFINE e == [app |-> App(r), by |-> Who(r)]
    <1>1. /\ Answer(r) /\ UNCHANGED <<apps, deployments, installations>>
          /\ ProjectsGood /\ RequestGood(r) /\ Live(r)
          /\ request[r].op = "setEnv" /\ request[r].pc = "resolved"
        BY DEF SetEnv, Asks, RowsInv, TablesGood, Live
    <1>2. CASE UNCHANGED env
        BY <1>1, <1>2, AnswerSame DEF projectRows
    <1>3. CASE Exists(App(r)) /\ env' = env \cup {e}
        <2>1. /\ App(r) \in AppIds /\ apps[App(r)].owner = Who(r)
            BY <1>1, <1>3 DEF RequestGood, ResolvedGood, Resolving, KnownApp
        <2>2. e.app = App(r) /\ e.by = Who(r)
            OBVIOUS
        <2> HIDE DEF e
        <2>3. \A f \in env' : Exists(f.app) /\ f.by = apps[f.app].owner /\ f.app \in AppIds
            BY <1>1, <1>3, <2>1, <2>2 DEF ProjectsGood, RowsOwned, OwnRows
        <2>4. ProjectsGood'
            BY <1>1, <2>3 DEF ProjectsGood, AppsGood, NamesUnique, RowsOwned, OwnRows, Sourced,
                Exists, AppIds
        <2>5. ProjectsGrow
            BY <1>1 DEF ProjectsGrow, Exists
        <2> QED
            BY <1>1, <2>4, <2>5, AnswerRows
    <1> QED
        BY <1>2, <1>3 DEF SetEnv

LEMMA SourceRows ==
    ASSUME RowsInv, NEW r \in Requests, SaveSource(r), UNCHANGED accountRows
    PROVE  RowsInv'
    <1> DEFINE a == App(r)
               i == request[r].about.installation
               row == [apps[a] EXCEPT !.installation = i]
    <1>1. /\ Answer(r) /\ UNCHANGED <<env, deployments, installations>>
          /\ ProjectsGood /\ RequestGood(r) /\ Live(r) /\ Asks(r, "configure", "save")
          /\ request[r].op = "configure" /\ request[r].pc = "save"
        BY DEF SaveSource, Asks, RowsInv, TablesGood, Live
    <1>2. CASE UNCHANGED apps
        BY <1>1, <1>2, AnswerSame DEF projectRows
    <1>3. CASE Exists(a) /\ apps' = [apps EXCEPT ![a].installation = i]
        <2>1. a \in AppIds /\ apps[a].owner = Who(r)
            BY <1>1, <1>3 DEF RequestGood, ResolvedGood, Resolving, KnownApp
        <2>2. i \in InstallationIds /\ installations[i] = Who(r) /\ apps[a] \in AppRows
            BY <1>1, <1>3, <2>1 DEF RequestGood, Askable, SaveGood, ProjectsGood, AppsGood
        <2>3. /\ row \in AppRows /\ row.name = apps[a].name /\ row.owner = apps[a].owner
              /\ row.installation = i
            BY <2>2 DEF AppRows
        <2>4. apps' = [apps EXCEPT ![a] = row]
            BY <1>3
        <2> HIDE DEF row, a, i
        <2>5. row # Nobody /\ row # Gone
            BY <2>3, GoneAssumption
        <2>6. /\ apps'[a] = row
              /\ \A b \in AppIds \ {a} : apps'[b] = apps[b]
              /\ apps' = [b \in AppIds |-> apps'[b]]
            BY <1>1, <2>1, <2>4 DEF ProjectsGood, AppsGood
        <2>7. \A b \in AppIds : /\ Exists(b)' <=> Exists(b)
                                /\ apps'[b] # Nobody <=> apps[b] # Nobody
                                /\ apps'[b] = Gone <=> apps[b] = Gone
            BY <1>3, <2>5, <2>6 DEF Exists
        <2>8. \A b \in AppIds : Exists(b) => /\ apps'[b].name = apps[b].name
                                             /\ apps'[b].owner = apps[b].owner
            BY <2>3, <2>6
        <2>9. AppsGood' /\ NamesUnique'
            BY <1>1, <2>3, <2>6, <2>7, <2>8 DEF ProjectsGood, AppsGood, NamesUnique, AppRows, AppIds
        <2>10. RowsOwned'
            <3>1. \A e \in env : Exists(e.app)' /\ e.by = apps'[e.app].owner /\ e.app \in AppIds
                BY <1>1, <2>7, <2>8 DEF ProjectsGood, RowsOwned, OwnRows
            <3>2. \A d \in deployments :
                     /\ d.app \in AppIds /\ d.of \in AppIds /\ apps'[d.of] # Nobody
                     /\ Exists(d.app)' /\ (d.of = d.app => d.by = apps'[d.app].owner)
                     /\ d.of # d.app => apps'[d.of] = Gone
                BY <1>1, <2>7, <2>8 DEF ProjectsGood, RowsOwned, OwnRows
            <3>3. \A b \in AppIds : Exists(b)' /\ apps'[b].installation # Nobody =>
                                    installations[apps'[b].installation] = apps'[b].owner
                BY <1>1, <2>1, <2>2, <2>3, <2>6, <2>7 DEF ProjectsGood, RowsOwned, OwnRows, Sourced
            <3>4. installations' = [j \in InstallationIds |-> installations'[j]]
                BY <1>1 DEF ProjectsGood, RowsOwned
            <3> QED
                BY <1>1, <3>1, <3>2, <3>3, <3>4 DEF RowsOwned, OwnRows, Sourced, AppIds
        <2>11. ProjectsGrow
            BY <1>1, <2>7, <2>8 DEF ProjectsGrow
        <2> QED
            BY <1>1, <2>9, <2>10, <2>11, AnswerRows DEF ProjectsGood
    <1> QED
        BY <1>2, <1>3 DEF SaveSource

LEMMA UpsertRows ==
    ASSUME RowsInv, NEW r \in Requests, UpsertInstallation(r), UNCHANGED accountRows
    PROVE  RowsInv'
    <1> DEFINE i == request[r].about.installation
    <1>1. /\ Answer(r) /\ UNCHANGED <<apps, env, deployments>>
          /\ installations' = [installations EXCEPT ![i] = OwnerAfter(i, Who(r))]
          /\ ProjectsGood /\ RequestGood(r) /\ Live(r) /\ request[r].op = "connect"
        BY DEF UpsertInstallation, Asks, RowsInv, TablesGood, Live
    <1>2. i \in InstallationIds
        BY <1>1 DEF RequestGood, Askable
    <1> HIDE DEF i
    <1>3. /\ \A j \in InstallationIds :
                installations[j] # Nobody => installations'[j] = installations[j]
          /\ installations' = [j \in InstallationIds |-> installations'[j]]
        BY <1>1, <1>2 DEF ProjectsGood, RowsOwned, OwnerAfter
    <1>4. \A b \in Sourced : installations'[apps[b].installation] = apps[b].owner
        <2> SUFFICES ASSUME NEW b \in Sourced
                     PROVE  installations'[apps[b].installation] = apps[b].owner
            OBVIOUS
        <2>1. /\ apps[b] \in AppRows /\ installations[apps[b].installation] = apps[b].owner
              /\ apps[b].installation # Nobody
            BY <1>1 DEF Sourced, ProjectsGood, AppsGood, RowsOwned, OwnRows
        <2>2. /\ apps[b].installation \in InstallationIds
              /\ installations[apps[b].installation] # Nobody
            BY <2>1, QuotaIsNat DEF AppRows
        <2> QED
            BY <1>3, <2>1, <2>2
    <1>5. ProjectsGood'
        BY <1>1, <1>3, <1>4
        DEF ProjectsGood, AppsGood, NamesUnique, RowsOwned, OwnRows, Sourced, Exists, AppIds
    <1>6. ProjectsGrow
        BY <1>1, <1>3 DEF ProjectsGrow, Exists
    <1> QED
        BY <1>1, <1>5, <1>6, AnswerRows

(* A deployment is inserted for the application that has the name now.     *)
LEMMA DeploymentRows ==
    ASSUME RowsInv, NEW r \in Requests, CreateDeployment(r), UNCHANGED accountRows
    PROVE  RowsInv'
    <1> DEFINE found == request[r].found
               named == ByName(found.name, Who(r))
               new == {[app |-> a, of |-> found.app, by |-> found.by] : a \in named}
    <1>1. /\ Answer(r) /\ UNCHANGED <<apps, env, installations>>
          /\ deployments' = deployments \cup new
          /\ ProjectsGood /\ RequestGood(r) /\ Live(r) /\ request[r].pc = "create"
        BY DEF CreateDeployment, RowsInv, TablesGood, Live
    <1>2. /\ found.app \in AppIds /\ apps[found.app] # Nobody
          /\ Exists(found.app) =>
                apps[found.app].owner = found.by /\ apps[found.app].name = found.name
        BY <1>1 DEF RequestGood, FoundGood, KnownApp, App
    <1>3. \A a \in named : a \in AppIds /\ Exists(a) /\ apps[a].name = found.name
        BY DEF ByName, Visible
    <1> HIDE DEF found, named
    <1>4. ASSUME NEW d \in new
          PROVE  /\ d.app \in AppIds /\ d.of \in AppIds /\ apps[d.of] # Nobody /\ Exists(d.app)
                 /\ d.of = d.app => d.by = apps[d.app].owner
                 /\ d.of # d.app => apps[d.of] = Gone
        <2>1. PICK a \in named : d = [app |-> a, of |-> found.app, by |-> found.by]
            BY <1>4
        <2>2. d.app = a /\ d.of = found.app /\ d.by = found.by
            BY <2>1
        <2>3. Exists(found.app) => found.app = a
            BY <1>1, <1>2, <1>3 DEF ProjectsGood, NamesUnique
        <2>4. ~Exists(found.app) => apps[found.app] = Gone
            BY <1>2 DEF Exists
        <2> QED
            BY <1>2, <1>3, <2>2, <2>3, <2>4
    <1> HIDE DEF new
    <1>5. ProjectsGood'
        BY <1>1, <1>4
        DEF ProjectsGood, AppsGood, NamesUnique, RowsOwned, OwnRows, Sourced, Exists, AppIds
    <1>6. ProjectsGrow
        BY <1>1 DEF ProjectsGrow, Exists
    <1> QED
        BY <1>1, <1>5, <1>6, AnswerRows

(* The handlers that read a row and go on with it.                         *)
LEMMA ResolveRows ==
    ASSUME RowsInv, NEW r \in Requests, ResolveApp(r), UNCHANGED accountRows
    PROVE  RowsInv'
    <1>1. /\ UNCHANGED projectRows /\ request[r].op \in Resolving /\ Inside(r)
          /\ RequestsShaped
        BY DEF ResolveApp, appVars, projectRows, Inside, Live, RowsInv
    <1>2. CASE Answer(r)
        BY <1>1, <1>2, AnswerSame
    <1>3. ASSUME NEW a \in ByName(NameAsked(r), Who(r)),
                 Found(r, "resolved", [app |-> a, name |-> NameAsked(r)])
          PROVE  RowsInv'
        <2> DEFINE name == NameAsked(r)
                   what == [app |-> a, name |-> name]
        <2>1. request[r].op \notin Public
            BY <1>1 DEF Public, Resolving
        <2>2. Who(r) # Nobody
            BY <1>1, <2>1, Caller
        <2>3. a \in AppIds /\ Exists(a) /\ apps[a].owner = Who(r) /\ apps[a].name = name
            BY <2>2 DEF ByName, Visible
        <2> HIDE DEF name
        <2>4. Becomes(r, "resolved", request[r].op, request[r].credential, request[r].identity,
                      request[r].about, what, request[r].late)
            BY <1>1, <1>3, FoundFields DEF name
        <2>5. /\ request'[r].pc = "resolved" /\ request'[r].found = what
              /\ what.app = a /\ what.name = name /\ Who(r)' = Who(r)
            BY <2>4 DEF Becomes, Who
        <2>6. ResolvedGood(r)'
            <3>1. UNCHANGED apps
                BY <1>1 DEF projectRows
            <3> QED
                BY <2>3, <2>5, <3>1 DEF ResolvedGood, App, KnownApp, Exists, AppIds
        <2>7. IssueGood(r)' /\ SaveGood(r)' /\ FoundGood(r)'
            BY <2>5 DEF IssueGood, SaveGood, Asks, FoundGood
        <2>8. Grow /\ TablesGood'
            BY <1>1, RowsStay
        <2> HIDE DEF what
        <2> QED
            BY <1>1, <2>4, <2>6, <2>7, <2>8, GoesOn
    <1> QED
        BY <1>2, <1>3 DEF ResolveApp

LEMMA FoundRows ==
    ASSUME RowsInv, NEW r \in Requests, Inside(r), UNCHANGED accountRows, UNCHANGED projectRows,
           NEW what, Found(r, "create", what), request[r].op \in {"deployGit", "webhook"},
           KnownApp(what.app),
           Exists(what.app) => /\ apps[what.app].owner = what.by
                               /\ apps[what.app].name = what.name
    PROVE  RowsInv'
    <1>1. Becomes(r, "create", request[r].op, request[r].credential, request[r].identity,
                  request[r].about, what, request[r].late)
        BY FoundFields DEF RowsInv
    <1>2. /\ request'[r].pc = "create" /\ request'[r].found = what
          /\ request'[r].op = request[r].op
        BY <1>1 DEF Becomes
    <1>3. FoundGood(r)'
        <2>1. UNCHANGED apps
            BY DEF projectRows
        <2> QED
            BY <1>2, <2>1 DEF FoundGood, App, KnownApp, Exists, AppIds
    <1>4. IssueGood(r)' /\ ResolvedGood(r)' /\ SaveGood(r)'
        BY <1>2 DEF IssueGood, ResolvedGood, SaveGood, Asks
    <1> QED
        BY <1>1, <1>3, <1>4, RowsStay, GoesOn

LEMMA ReadSourceRows ==
    ASSUME RowsInv, NEW r \in Requests, ReadSource(r), UNCHANGED accountRows
    PROVE  RowsInv'
    <1>1. /\ UNCHANGED projectRows /\ request[r].op = "deployGit" /\ request[r].pc = "resolved"
          /\ Inside(r) /\ RequestGood(r) /\ Live(r)
        BY DEF ReadSource, Asks, appVars, projectRows, Inside, Live, RowsInv
    <1>2. CASE Answer(r)
        BY <1>1, <1>2, AnswerSame
    <1> DEFINE a == App(r)
               name == request[r].found.name
               what == [app |-> a, name |-> name, by |-> Who(r)]
    <1>3. CASE Found(r, "create", what)
        <2>1. KnownApp(a) /\ (Exists(a) => apps[a].owner = Who(r) /\ apps[a].name = name)
            BY <1>1 DEF RequestGood, ResolvedGood, Resolving
        <2>2. what.app = a /\ what.name = name /\ what.by = Who(r)
            OBVIOUS
        <2> HIDE DEF what, a, name
        <2> QED
            BY <1>1, <1>3, <2>1, <2>2, FoundRows
    <1> QED
        BY <1>2, <1>3 DEF ReadSource

LEMMA WebhookRows ==
    ASSUME RowsInv, NEW r \in Requests, WebhookFindsApp(r), UNCHANGED accountRows
    PROVE  RowsInv'
    <1> DEFINE a == request[r].about
               what == [app |-> a, name |-> apps[a].name, by |-> apps[a].owner]
    <1>1. /\ UNCHANGED projectRows /\ request[r].op = "webhook" /\ request[r].pc = "handler"
          /\ Inside(r) /\ RequestGood(r) /\ Live(r)
        BY DEF WebhookFindsApp, Asks, appVars, projectRows, Inside, Live, RowsInv
    <1>2. CASE Answer(r)
        BY <1>1, <1>2, AnswerSame
    <1>3. CASE Exists(a) /\ Found(r, "create", what)
        <2>1. KnownApp(a)
            BY <1>1, <1>3 DEF RequestGood, Askable, KnownApp, Exists
        <2>2. what.app = a /\ what.name = apps[a].name /\ what.by = apps[a].owner
            OBVIOUS
        <2> HIDE DEF what, a
        <2> QED
            BY <1>1, <1>3, <2>1, <2>2, FoundRows
    <1> QED
        BY <1>2, <1>3 DEF WebhookFindsApp

LEMMA ProjectRows ==
    ASSUME RowsInv, NEW r \in Requests, Project(r), UNCHANGED accountRows
    PROVE  RowsInv'
    <1>1. CASE Create(r)
        <2>1. CASE BeginCreate(r)
            BY <2>1, StepSame DEF BeginCreate, Asks, Inside, Live, projectRows
        <2>2. CASE CountApps(r)
            BY <2>2, StepSame, AnswerSame DEF CountApps, Asks, Inside, Live, projectRows
        <2>3. CASE InsertApp(r)
            BY <2>3, InsertRows
        <2>4. CASE CreateFails(r)
            BY <2>4, AnswerSame DEF CreateFails, projectRows
        <2> QED
            BY <1>1, <2>1, <2>2, <2>3, <2>4 DEF Create
    <1>2. CASE ListApps(r)
        BY <1>2, AnswerSame DEF ListApps, appVars, projectRows
    <1>3. CASE ResolveApp(r)
        BY <1>3, ResolveRows
    <1>4. CASE StopApp(r)
        BY <1>4, StepSame, AnswerSame DEF StopApp, appVars, projectRows, Inside, Live
    <1>5. CASE DeleteRow(r)
        BY <1>5, DeleteRows
    <1>6. CASE SetEnv(r)
        BY <1>6, EnvRows
    <1>7. CASE CheckInstallation(r)
        BY <1>7, StepSame, AnswerSame DEF CheckInstallation, Asks, appVars, projectRows, Inside, Live
    <1>8. CASE SaveSource(r)
        BY <1>8, SourceRows
    <1>9. CASE ReadSource(r)
        BY <1>9, ReadSourceRows
    <1>10. CASE WebhookFindsApp(r)
        BY <1>10, WebhookRows
    <1>11. CASE CreateDeployment(r)
        BY <1>11, DeploymentRows
    <1>12. CASE InstallURL(r)
        BY <1>12, AnswerSame DEF InstallURL, projectRows
    <1>13. CASE CheckState(r)
        BY <1>13, StepSame, AnswerSame DEF CheckState, Asks, appVars, projectRows, Inside, Live
    <1>14. CASE UpsertInstallation(r)
        BY <1>14, UpsertRows
    <1> QED
        BY <1>1, <1>2, <1>3, <1>4, <1>5, <1>6, <1>7, <1>8, <1>9, <1>10, <1>11, <1>12, <1>13, <1>14
        DEF Project

-----------------------------------------------------------------------------
(* A request arrives as its route lets it.                                 *)
WellAsked(r) ==
    \E op, c, about : /\ Arrive(r, op, c, about) /\ Askable(op, about)
                      /\ op \notin Public => c \in Credentials

LEMMA AskedFor ==
    ASSUME NEW r \in Requests, Request(r)
    PROVE  WellAsked(r)
    <1>1. ASSUME NEW op, NEW abouts, AskPublic(r, op, abouts), op \in Public,
                 \A about \in abouts : Askable(op, about)
          PROVE  WellAsked(r)
        BY <1>1 DEF AskPublic, WellAsked
    <1>2. ASSUME NEW op, NEW abouts, Ask(r, op, abouts),
                 \A about \in abouts : Askable(op, about)
          PROVE  WellAsked(r)
        BY <1>2 DEF Ask, WellAsked
    <1>3. CASE \/ AskPublic(r, "login", [username : Usernames, password : Passwords])
               \/ AskPublic(r, "register", [username : Usernames, password : Passwords])
        <2>1. \A about \in [username : Usernames, password : Passwords] :
                  Askable("login", about) /\ Askable("register", about)
            BY DEF Askable, UserRows
        <2> QED
            BY <1>1, <1>3, <2>1 DEF Public
    <1>4. CASE AskPublic(r, "webhook", Sourced)
        <2>1. \A about \in Sourced : Askable("webhook", about)
            BY DEF Askable, Sourced
        <2> QED
            BY <1>1, <1>4, <2>1 DEF Public
    <1>5. CASE Ask(r, "rename", Usernames)
        BY <1>2, <1>5 DEF Askable
    <1>6. CASE Ask(r, "password", [current : Passwords, new : Passwords])
        <2>1. \A about \in [current : Passwords, new : Passwords] : Askable("password", about)
            BY DEF Askable
        <2> QED
            BY <1>2, <1>6, <2>1
    <1>7. CASE Ask(r, "createToken", [scopes : {{}, {"deploy"}}, expires : {MaxTime, Never}])
        <2>1. MaxTime \in Nat /\ Never \in Nat /\ {"deploy"} \in SUBSET Scopes /\ {} \in SUBSET Scopes
            BY AccessAssumption DEF Never, Scopes
        <2>2. ASSUME NEW about \in [scopes : {{}, {"deploy"}}, expires : {MaxTime, Never}]
              PROVE  Askable("createToken", about)
            <3>1. about.scopes \in {{}, {"deploy"}} /\ about.expires \in {MaxTime, Never}
                BY <2>2
            <3> QED
                BY <2>1, <3>1 DEF Askable
        <2> QED
            BY <1>2, <1>7, <2>2
    <1>8. CASE \/ Ask(r, "revokeToken", {t \in TokenIds : tokens[t] # Nobody})
               \/ Ask(r, "listApps", {Nobody})
               \/ Ask(r, "installURL", AppNames \cup {Nobody})
        BY <1>2, <1>8 DEF Askable
    <1>9. CASE \/ Ask(r, "createApp", AppNames) \/ Ask(r, "deleteApp", AppNames)
               \/ Ask(r, "stopApp", AppNames) \/ Ask(r, "setEnv", AppNames)
               \/ Ask(r, "deployGit", AppNames)
        BY <1>2, <1>9 DEF Askable
    <1>10. CASE Ask(r, "configure", [name : AppNames, installation : InstallationIds])
        <2>1. \A about \in [name : AppNames, installation : InstallationIds] :
                  Askable("configure", about)
            BY DEF Askable
        <2> QED
            BY <1>2, <1>10, <2>1
    <1>11. CASE Ask(r, "connect", [state : states, installation : InstallationIds])
        <2>1. \A about \in [state : states, installation : InstallationIds] :
                  Askable("connect", about)
            BY DEF Askable
        <2> QED
            BY <1>2, <1>11, <2>1
    <1> QED
        BY <1>3, <1>4, <1>5, <1>6, <1>7, <1>8, <1>9, <1>10, <1>11 DEF Request

LEMMA ArrivalRows ==
    ASSUME RowsInv, NEW r \in Requests, Request(r)
    PROVE  RowsInv'
    <1>1. PICK op, c, about : /\ Arrive(r, op, c, about) /\ Askable(op, about)
                              /\ op \notin Public => c \in Credentials
        BY AskedFor DEF WellAsked
    <1>2. UNCHANGED <<clock, users, tokens, sessions>> /\ UNCHANGED projectRows
        BY DEF Request, appVars, projectRows
    <1>3. Grow /\ TablesGood'
        BY <1>2, RowsStay DEF accountRows
    <1>4. Becomes(r, IF op \in Public THEN "handler" ELSE "authenticate", op, c,
                  NoIdentity, about, Nobody, Dead(c))
        BY <1>1, ArriveFields DEF RowsInv
    <1>5. /\ request'[r].pc = IF op \in Public THEN "handler" ELSE "authenticate"
          /\ request'[r].op = op /\ request'[r].credential = c
          /\ request'[r].identity = NoIdentity /\ request'[r].about = about
          /\ request'[r].late = Dead(c)
        BY <1>4 DEF Becomes
    <1>6. Askable(request[r].op, request[r].about)'
        BY <1>1, <1>5 DEF Askable
    <1>7. CredentialGood(r)'
        <2> SUFFICES ASSUME op \notin Public
                     PROVE  \/ c \in Sessions /\ KnownUser(c.user)
                            \/ KnownToken(c)
            BY <1>2, <1>5 DEF CredentialGood, KnownUser, KnownToken, ByToken, Public, Sessions
        <2>1. c \in sessions \/ (c \in TokenIds /\ tokens[c] # Nobody)
            BY <1>1 DEF Credentials
        <2> QED
            BY <2>1, RowsAssumption, AccessAssumption
            DEF RowsInv, TablesGood, AccountsGood, SessionsGood, KnownToken, ByToken
    <1>8. /\ RowRead(r)' /\ IssueGood(r)' /\ ResolvedGood(r)' /\ SaveGood(r)' /\ FoundGood(r)'
          /\ IdentityGood(r)'
        BY <1>5 DEF RowRead, IssueGood, ResolvedGood, SaveGood, FoundGood, IdentityGood, Asks,
            Inside, Public
    <1>9. LateRefused(r)'
        <2>1. Dead(c)' = Dead(c)
            BY <1>2 DEF Dead, ByToken, Sessions, Never
        <2>2. request'[r].pc # "touch"
            BY <1>5
        <2>3. request'[r].pc = "authenticate" => op \notin Public
            BY <1>5
        <2> QED
            BY <1>5, <2>1, <2>2, <2>3 DEF LateRefused, NoIdentity, Public
    <1>10. RequestGood(r)'
        BY <1>6, <1>7, <1>8, <1>9 DEF RequestGood
    <1> QED
        BY <1>3, <1>4, <1>10, Preserved DEF Becomes

LEMMA TimeRows ==
    ASSUME RowsInv, UNCHANGED <<users, tokens, sessions, request>>, UNCHANGED projectRows,
           clock' = clock \/ clock' = clock + 1
    PROVE  RowsInv'
    <1>1. AccountsGood' /\ AccountsGrow
        BY DEF RowsInv, TablesGood, AccountsGood, AccountsGrow, UsersGood, TokensGood,
            SessionsGood, KnownUser
    <1>2. ProjectsGood' /\ ProjectsGrow
        BY DEF RowsInv, TablesGood, ProjectsGood, ProjectsGrow, AppsGood, NamesUnique, RowsOwned,
            OwnRows, Sourced, Exists, AppIds, projectRows
    <1>3. \A q \in Requests : RequestGood(q)'
        BY <1>1, <1>2, RequestStays DEF RowsInv, TablesGood, Grow
    <1>4. RequestsShaped'
        BY DEF RowsInv, RequestsShaped, IsRequest, Requests
    <1> QED
        BY <1>1, <1>2, <1>3, <1>4 DEF RowsInv, TablesGood, Requests

LEMMA NextRows == RowsInv /\ [Next]_vars => RowsInv'
    <1> SUFFICES ASSUME RowsInv, [Next]_vars PROVE RowsInv'
        OBVIOUS
    <1>1. ASSUME NEW r \in Requests, Request(r) PROVE RowsInv'
        BY <1>1, ArrivalRows
    <1>2. ASSUME NEW r \in Requests, Account(r), UNCHANGED appVars PROVE RowsInv'
        BY <1>2, AccountRows
    <1>3. ASSUME NEW r \in Requests, Project(r), UNCHANGED <<clock, users, tokens, sessions>>
          PROVE  RowsInv'
        BY <1>3, ProjectRows DEF accountRows
    <1>4. CASE Tick /\ UNCHANGED appVars
        BY <1>4, TimeRows DEF Tick, appVars, projectRows
    <1>5. CASE UNCHANGED vars
        BY <1>5, TimeRows DEF vars, accessVars, appVars, projectRows
    <1> QED
        BY <1>1, <1>2, <1>3, <1>4, <1>5 DEF Next, Served

(* What hangs on an application is its owner's (service/git_source.go,     *)
(* github_app.go, env.go), for any users, names, ids and requests, however *)
(* applications are deleted and their names taken over meanwhile.          *)
THEOREM RowsAreOwners == AtRest /\ [][Next]_vars => []OwnRows
    <1>1. AtRest => RowsInv
        BY DEF AtRest, RowsInv, RequestGood, Live, LateRefused
    <1>2. RowsInv => OwnRows
        BY DEF RowsInv, TablesGood, ProjectsGood, RowsOwned
    <1> QED
        BY <1>1, <1>2, NextRows, PTL

-----------------------------------------------------------------------------
(* A step is one request's, or the clock's.                                *)
LEMMA OthersStay ==
    ASSUME RequestsShaped, NEW r \in Requests, NEW q \in Requests, q # r
    PROVE  /\ Answer(r) => request'[q] = request[q]
           /\ \A pc : Step(r, pc) => request'[q] = request[q]
           /\ \A pc, what : Found(r, pc, what) => request'[q] = request[q]
           /\ \A who : Admit(r, who) => request'[q] = request[q]
           /\ \A op, c, about : Arrive(r, op, c, about) => request'[q] = request[q]
    <1>1. Answer(r) => request'[q] = request[q]
        BY DEF RequestsShaped, Answer
    <1>2. \A pc : Step(r, pc) => request'[q] = request[q]
        BY DEF RequestsShaped, Step
    <1>3. \A pc, what : Found(r, pc, what) => request'[q] = request[q]
        BY DEF RequestsShaped, Found
    <1>4. \A who : Admit(r, who) => request'[q] = request[q]
        BY <1>1 DEF RequestsShaped, Admit
    <1>5. \A op, c, about : Arrive(r, op, c, about) => request'[q] = request[q]
        BY DEF RequestsShaped, Arrive
    <1> QED
        BY <1>1, <1>2, <1>3, <1>4, <1>5

LEMMA OneRequest ==
    ASSUME RowsInv, NEW r \in Requests, Request(r) \/ Account(r) \/ Project(r),
           NEW q \in Requests, q # r
    PROVE  request'[q] = request[q]
    <1> RequestsShaped
        BY DEF RowsInv
    <1>1. CASE Request(r)
        BY <1>1, AskedFor, OthersStay DEF WellAsked
    <1>2. CASE AuthenticateSession(r) \/ LookUpToken(r) \/ TouchToken(r)
        BY <1>2, OthersStay DEF AuthenticateSession, LookUpToken, TouchToken
    <1>3. CASE LoginRead(r) \/ IssueToken(r) \/ Register(r) \/ Rename(r)
        BY <1>3, OthersStay DEF LoginRead, IssueToken, Register, Rename
    <1>4. CASE CheckPassword(r) \/ SavePassword(r) \/ Refresh(r) \/ CreateToken(r) \/ RevokeToken(r)
        BY <1>4, OthersStay DEF CheckPassword, SavePassword, Refresh, CreateToken, RevokeToken
    <1>5. CASE Create(r)
        BY <1>5, OthersStay DEF Create, BeginCreate, CountApps, InsertApp, CreateFails
    <1>6. CASE ListApps(r) \/ ResolveApp(r) \/ StopApp(r) \/ DeleteRow(r) \/ SetEnv(r)
        BY <1>6, OthersStay DEF ListApps, ResolveApp, StopApp, DeleteRow, SetEnv
    <1>7. CASE CheckInstallation(r) \/ SaveSource(r) \/ ReadSource(r) \/ WebhookFindsApp(r)
        BY <1>7, OthersStay DEF CheckInstallation, SaveSource, ReadSource, WebhookFindsApp
    <1>8. CASE CreateDeployment(r) \/ InstallURL(r) \/ CheckState(r) \/ UpsertInstallation(r)
        BY <1>8, OthersStay DEF CreateDeployment, InstallURL, CheckState, UpsertInstallation
    <1> QED
        BY <1>1, <1>2, <1>3, <1>4, <1>5, <1>6, <1>7, <1>8 DEF Account, Project

-----------------------------------------------------------------------------
(* A revoked token's row, and what a late request gets.                    *)
TokensFinal ==
    \A t \in TokenIds :
        tokens[t] # Nobody /\ tokens[t].revoked # Never => tokens'[t] = tokens[t]

LEMMA RevokedStays ==
    ASSUME RowsInv, NEW r \in Requests, Account(r)
    PROVE  TokensFinal
    <1>1. /\ tokens = [t \in TokenIds |-> tokens[t]]
          /\ \A t \in TokenIds : tokens[t] # Nobody => tokens[t] \in TokenRows
        BY DEF RowsInv, TablesGood, AccountsGood, TokensGood
    <1>2. CASE UNCHANGED tokens
        BY <1>2 DEF TokensFinal
    <1>3. CASE TouchToken(r)
        <2> DEFINE t == request[r].credential
        <2>1. tokens' = tokens \/ (Alive(t) /\ tokens' = [tokens EXCEPT ![t].used = clock])
            BY <1>3 DEF TouchToken, Touched
        <2> HIDE DEF t
        <2> QED
            BY <1>1, <2>1 DEF TokensFinal, Alive
    <1>4. CASE CreateToken(r)
        <2>1. \/ tokens' = tokens
              \/ \E t \in TokenIds : \E row : tokens[t] = Nobody /\ tokens' = [tokens EXCEPT ![t] = row]
            BY <1>4 DEF CreateToken
        <2> QED
            BY <1>1, <2>1 DEF TokensFinal
    <1>5. CASE RevokeToken(r)
        <2> DEFINE t == request[r].about
        <2>1. \/ tokens' = tokens
              \/ tokens[t].revoked = Never /\ tokens' = [tokens EXCEPT ![t].revoked = clock]
            BY <1>5 DEF RevokeToken
        <2> HIDE DEF t
        <2> QED
            BY <1>1, <2>1 DEF TokensFinal
    <1> QED
        BY <1>2, <1>3, <1>4, <1>5 DEF Account, AuthenticateSession, LookUpToken, LoginRead,
            IssueToken, Register, Rename, CheckPassword, SavePassword, Refresh

(* Revoking a token is immediate and final (service/api_token.go:86-118,   *)
(* api_token.sql), for any number of tokens, sessions and requests: a      *)
(* request that comes later gets no identity, whatever ran before it.      *)
THEOREM RevocationIsFinal == AtRest /\ [][Next]_vars => RevokedIsFinal
    <1> DEFINE A == /\ \A t \in TokenIds :
                          tokens[t] # Nobody /\ tokens[t].revoked # Never => tokens'[t] = tokens[t]
                    /\ \A r \in Requests : request'[r].late => request'[r].identity = NoIdentity
    <1>1. AtRest => RowsInv
        BY DEF AtRest, RowsInv, RequestGood, Live, LateRefused
    <1>2. RowsInv /\ RowsInv' /\ [Next]_vars => [A]_accessVars
        <2> SUFFICES ASSUME RowsInv, RowsInv', [Next]_vars, ~UNCHANGED accessVars PROVE A
            OBVIOUS
        <2>1. TokensFinal
            <3>1. CASE UNCHANGED tokens
                BY <3>1 DEF TokensFinal
            <3>2. ASSUME NEW r \in Requests, Account(r) PROVE TokensFinal
                BY <3>2, RevokedStays
            <3> QED
                BY <3>1, <3>2 DEF Next, Request, Tick, Served, vars, accessVars
        <2>2. \A r \in Requests : request'[r].late => request'[r].identity = NoIdentity
            BY DEF RowsInv, RequestGood, LateRefused, Requests, NoIdentity
        <2> QED
            BY <2>1, <2>2 DEF TokensFinal
    <1> QED
        BY <1>1, <1>2, NextRows, PTL DEF RevokedIsFinal

-----------------------------------------------------------------------------
(* What a step of a request may change, and whose scope that takes.        *)
AccountChanges(r) ==
    /\ \A u \in UserIds : users[u] # Nobody /\ users'[u] # users[u] => May(r, u, "session")
    /\ \A t \in TokenIds : tokens'[t] # tokens[t] =>
          May(r, tokens'[t].user, "session") \/ request[r].credential = t

ProjectChanges(r) ==
    /\ \A a \in AppIds : apps'[a] # apps[a] =>
          May(r, IF Exists(a) THEN apps[a].owner ELSE apps'[a].owner, "manage")
    /\ \A e \in env' \ env : May(r, apps[e.app].owner, "manage")
    /\ \A d \in deployments' \ deployments :
          request[r].op = "webhook" \/ May(r, apps[d.app].owner, "deploy")
    /\ \A i \in InstallationIds : installations'[i] # installations[i] =>
          installations[i] = Nobody /\ May(r, installations'[i], "session")

LEMMA SessionCaller ==
    ASSUME RowsInv, NEW r \in Requests, Inside(r), request[r].op \in SessionOnly
    PROVE  Who(r) \in UserIds /\ Who(r) # Nobody /\ May(r, Who(r), "session")
    BY Caller DEF SessionOnly, Public

LEMMA ManagingCaller ==
    ASSUME RowsInv, NEW r \in Requests, Inside(r),
           request[r].op \in {"createApp", "stopApp", "deleteApp", "setEnv", "configure"}
    PROVE  Who(r) \in UserIds /\ Who(r) # Nobody /\ May(r, Who(r), "manage")
    BY Caller DEF SessionOnly, Public, Scope

LEMMA DeployingCaller ==
    ASSUME RowsInv, NEW r \in Requests, Inside(r), request[r].op = "deployGit"
    PROVE  Who(r) \in UserIds /\ Who(r) # Nobody /\ May(r, Who(r), "deploy")
    BY Caller DEF SessionOnly, Public, Scope

LEMMA AccountsAuthorized ==
    ASSUME RowsInv, NEW r \in Requests, Account(r)
    PROVE  AccountChanges(r)
    <1>1. /\ users = [u \in UserIds |-> users[u]]
          /\ tokens = [t \in TokenIds |-> tokens[t]]
          /\ \A t \in TokenIds : tokens[t] # Nobody => tokens[t] \in TokenRows
        BY DEF RowsInv, TablesGood, AccountsGood, UsersGood, TokensGood
    <1>2. CASE UNCHANGED <<users, tokens>>
        BY <1>2 DEF AccountChanges
    <1>3. CASE Register(r)
        <2>1. UNCHANGED tokens /\ (UNCHANGED users \/ \E u \in UserIds : \E row :
                  users[u] = Nobody /\ users' = [users EXCEPT ![u] = row])
            BY <1>3 DEF Register
        <2> QED
            BY <1>1, <2>1 DEF AccountChanges
    <1>4. CASE Rename(r) \/ SavePassword(r)
        <2>1. UNCHANGED tokens /\ \A u \in UserIds : u # Who(r) => users'[u] = users[u]
            BY <1>1, <1>4 DEF Rename, SavePassword
        <2>2. May(r, Who(r), "session")
            BY <1>4, SessionCaller DEF Rename, SavePassword, Asks, Inside, Live, SessionOnly
        <2> QED
            BY <2>1, <2>2 DEF AccountChanges
    <1>5. CASE TouchToken(r)
        <2> DEFINE c == request[r].credential
        <2>1. /\ UNCHANGED users
              /\ tokens' = tokens \/ tokens' = [tokens EXCEPT ![c].used = clock]
            BY <1>5 DEF TouchToken, Touched
        <2>2. \A t \in TokenIds : t # c => tokens'[t] = tokens[t]
            <3> HIDE DEF c
            <3> QED
                BY <1>1, <2>1
        <2> QED
            BY <2>1, <2>2 DEF AccountChanges
    <1>6. CASE CreateToken(r)
        <2> DEFINE row == [user |-> Who(r), scopes |-> Normalized(request[r].about.scopes),
                           expires |-> request[r].about.expires, revoked |-> Never, used |-> Never]
        <2>1. UNCHANGED users /\ (UNCHANGED tokens \/ \E t \in TokenIds :
                                      tokens' = [tokens EXCEPT ![t] = row])
            BY <1>6 DEF CreateToken
        <2>2. row.user = Who(r)
            OBVIOUS
        <2>3. May(r, Who(r), "session")
            BY <1>6, SessionCaller DEF CreateToken, Asks, Inside, Live, SessionOnly
        <2> HIDE DEF row
        <2> QED
            BY <1>1, <2>1, <2>2, <2>3 DEF AccountChanges
    <1>7. CASE RevokeToken(r)
        <2> DEFINE t == request[r].about
        <2>1. /\ UNCHANGED users
              /\ \/ UNCHANGED tokens
                 \/ /\ tokens[t] # Nobody /\ tokens[t].user = Who(r)
                    /\ tokens' = [tokens EXCEPT ![t].revoked = clock]
            BY <1>7 DEF RevokeToken
        <2>2. May(r, Who(r), "session")
            BY <1>7, SessionCaller DEF RevokeToken, Asks, Inside, Live, SessionOnly
        <2> HIDE DEF t
        <2>3. ASSUME NEW s \in TokenIds, tokens'[s] # tokens[s]
              PROVE  tokens'[s].user = Who(r)
            <3>1. s = t /\ tokens[t] \in TokenRows /\ tokens[t].user = Who(r)
                BY <1>1, <2>1, <2>3
            <3>2. tokens'[s] = [tokens[t] EXCEPT !.revoked = clock]
                BY <1>1, <2>1, <2>3, <3>1
            <3> QED
                BY <3>1, <3>2 DEF TokenRows
        <2> QED
            BY <2>1, <2>2, <2>3 DEF AccountChanges
    <1> QED
        BY <1>2, <1>3, <1>4, <1>5, <1>6, <1>7 DEF Account, AuthenticateSession, LookUpToken,
            LoginRead, IssueToken, CheckPassword, Refresh

LEMMA ProjectsAuthorized ==
    ASSUME RowsInv, NEW r \in Requests, Project(r)
    PROVE  ProjectChanges(r)
    <1>1. /\ apps = [a \in AppIds |-> apps[a]]
          /\ installations = [i \in InstallationIds |-> installations[i]]
          /\ Live(r) => RequestGood(r)
        BY DEF RowsInv, TablesGood, ProjectsGood, AppsGood, RowsOwned
    <1>2. CASE UNCHANGED projectRows
        BY <1>2 DEF ProjectChanges, projectRows
    <1>3. CASE InsertApp(r)
        <2> DEFINE row == [name |-> request[r].about, owner |-> Who(r), installation |-> Nobody]
        <2>1. /\ UNCHANGED <<env, deployments, installations>>
              /\ UNCHANGED apps \/ \E a \in AppIds : apps[a] = Nobody /\ apps' = [apps EXCEPT ![a] = row]
            BY <1>3 DEF InsertApp
        <2>2. row.owner = Who(r) /\ May(r, Who(r), "manage")
            BY <1>3, ManagingCaller DEF InsertApp, Asks, Inside, Live
        <2> HIDE DEF row
        <2> QED
            BY <1>1, <2>1, <2>2 DEF ProjectChanges, Exists
    <1>4. CASE DeleteRow(r)
        <2> DEFINE a == App(r)
        <2>1. /\ UNCHANGED installations /\ env' \subseteq env /\ deployments' \subseteq deployments
              /\ UNCHANGED apps \/ (Visible(a, Who(r)) /\ apps' = [apps EXCEPT ![a] = Gone])
            BY <1>4 DEF DeleteRow
        <2>2. Who(r) # Nobody /\ May(r, Who(r), "manage")
            BY <1>4, ManagingCaller DEF DeleteRow, Asks, Inside, Live
        <2> HIDE DEF a
        <2> QED
            BY <1>1, <2>1, <2>2 DEF ProjectChanges, Visible
    <1>5. CASE SetEnv(r)
        <2> DEFINE e == [app |-> App(r), by |-> Who(r)]
        <2>1. /\ UNCHANGED <<apps, deployments, installations>>
              /\ UNCHANGED env \/ (Exists(App(r)) /\ env' = env \cup {e})
              /\ Live(r) /\ request[r].op = "setEnv" /\ request[r].pc = "resolved"
            BY <1>5 DEF SetEnv, Asks, Live
        <2>2. Exists(App(r)) => apps[e.app].owner = Who(r)
            BY <1>1, <2>1 DEF RequestGood, ResolvedGood, Resolving
        <2>3. May(r, Who(r), "manage")
            BY <2>1, ManagingCaller DEF Inside
        <2> HIDE DEF e
        <2> QED
            BY <2>1, <2>2, <2>3 DEF ProjectChanges
    <1>6. CASE SaveSource(r)
        <2> DEFINE a == App(r)
                   i == request[r].about.installation
        <2>1. /\ UNCHANGED <<env, deployments, installations>>
              /\ UNCHANGED apps \/ (Exists(a) /\ apps' = [apps EXCEPT ![a].installation = i])
              /\ Live(r) /\ request[r].op = "configure" /\ request[r].pc = "save"
            BY <1>6 DEF SaveSource, Asks, Live
        <2>2. Exists(a) => apps[a].owner = Who(r)
            BY <1>1, <2>1 DEF RequestGood, ResolvedGood, Resolving
        <2>3. May(r, Who(r), "manage")
            BY <2>1, ManagingCaller DEF Inside
        <2> HIDE DEF a, i
        <2> QED
            BY <1>1, <2>1, <2>2, <2>3 DEF ProjectChanges
    <1>7. CASE CreateDeployment(r)
        <2> DEFINE found == request[r].found
                   named == ByName(found.name, Who(r))
                   new == {[app |-> a, of |-> found.app, by |-> found.by] : a \in named}
        <2>1. /\ UNCHANGED <<apps, env, installations>> /\ deployments' = deployments \cup new
              /\ Live(r) /\ request[r].pc = "create"
            BY <1>7 DEF CreateDeployment, Live
        <2>2. request[r].op \in {"deployGit", "webhook"}
            BY <1>1, <2>1 DEF RequestGood, FoundGood
        <2>3. ASSUME request[r].op = "deployGit", NEW d \in new
              PROVE  May(r, apps[d.app].owner, "deploy")
            <3>1. Who(r) # Nobody /\ May(r, Who(r), "deploy")
                BY <2>1, <2>3, DeployingCaller DEF Inside
            <3>2. PICK a \in named : d = [app |-> a, of |-> found.app, by |-> found.by]
                BY <2>3
            <3>3. d.app = a /\ apps[a].owner = Who(r)
                BY <3>1, <3>2 DEF ByName, Visible
            <3> QED
                BY <3>1, <3>3
        <2> HIDE DEF new
        <2> QED
            BY <2>1, <2>2, <2>3 DEF ProjectChanges
    <1>8. CASE UpsertInstallation(r)
        <2> DEFINE i == request[r].about.installation
        <2>1. /\ UNCHANGED <<apps, env, deployments>>
              /\ installations' = [installations EXCEPT ![i] = OwnerAfter(i, Who(r))]
            BY <1>8 DEF UpsertInstallation
        <2>2. May(r, Who(r), "session")
            BY <1>8, SessionCaller DEF UpsertInstallation, Asks, Inside, Live, SessionOnly
        <2> HIDE DEF i
        <2> QED
            BY <1>1, <2>1, <2>2 DEF ProjectChanges, OwnerAfter
    <1> QED
        BY <1>2, <1>3, <1>4, <1>5, <1>6, <1>7, <1>8 DEF Project, Create, BeginCreate, CountApps,
            CreateFails, ListApps, ResolveApp, StopApp, CheckInstallation, ReadSource,
            WebhookFindsApp, InstallURL, CheckState, appVars, projectRows

(* Nothing of a user changes but by his own session or token with the      *)
(* scope for it (handler/middleware/auth.go, main.go's routes), for any    *)
(* users, tokens and requests, and whatever is renamed, revoked, deleted   *)
(* or registered anew between a request's check and its write.             *)
THEOREM OnlyOwnersChange == AtRest /\ [][Next]_vars => ChangesAuthorized
    <1> DEFINE A == \A r \in Requests :
                        request'[r] # request[r] => AccountChanges(r) /\ ProjectChanges(r)
    <1>1. AtRest => RowsInv
        BY DEF AtRest, RowsInv, RequestGood, Live, LateRefused
    <1>2. RowsInv /\ [Next]_vars => [A]_vars
        <2> SUFFICES ASSUME RowsInv, Next, NEW q \in Requests, request'[q] # request[q]
                     PROVE  AccountChanges(q) /\ ProjectChanges(q)
            OBVIOUS
        <2>1. ASSUME NEW r \in Requests, Request(r)
              PROVE  AccountChanges(q) /\ ProjectChanges(q)
            BY <2>1 DEF Request, AccountChanges, ProjectChanges, appVars
        <2>2. ASSUME NEW r \in Requests, Account(r), UNCHANGED appVars
              PROVE  AccountChanges(q) /\ ProjectChanges(q)
            <3>1. q = r
                BY <2>2, OneRequest
            <3>2. ProjectChanges(q)
                BY <2>2 DEF ProjectChanges, appVars
            <3> QED
                BY <2>2, <3>1, <3>2, AccountsAuthorized
        <2>3. ASSUME NEW r \in Requests, Project(r), UNCHANGED <<clock, users, tokens, sessions>>
              PROVE  AccountChanges(q) /\ ProjectChanges(q)
            <3>1. q = r
                BY <2>3, OneRequest
            <3>2. AccountChanges(q)
                BY <2>3 DEF AccountChanges
            <3> QED
                BY <2>3, <3>1, <3>2, ProjectsAuthorized
        <2>4. CASE Tick \/ Served
            BY <2>4 DEF Tick, Served, vars, accessVars
        <2> QED
            BY <2>1, <2>2, <2>3, <2>4 DEF Next
    <1>3. [A]_vars => [\A r \in Requests : request'[r] # request[r] =>
        /\ \A u \in UserIds : users[u] # Nobody /\ users'[u] # users[u] => May(r, u, "session")
        /\ \A t \in TokenIds : tokens'[t] # tokens[t] =>
              May(r, tokens'[t].user, "session") \/ request[r].credential = t
        /\ \A a \in AppIds : apps'[a] # apps[a] =>
              May(r, IF Exists(a) THEN apps[a].owner ELSE apps'[a].owner, "manage")
        /\ \A e \in env' \ env : May(r, apps[e.app].owner, "manage")
        /\ \A d \in deployments' \ deployments :
              request[r].op = "webhook" \/ May(r, apps[d.app].owner, "deploy")
        /\ \A i \in InstallationIds : installations'[i] # installations[i] =>
              installations[i] = Nobody /\ May(r, installations'[i], "session")]_vars
        BY DEF AccountChanges, ProjectChanges
    <1> QED
        BY <1>1, <1>2, <1>3, NextRows, PTL DEF ChangesAuthorized
=============================================================================
