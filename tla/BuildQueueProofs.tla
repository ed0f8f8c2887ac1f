-------------------------- MODULE BuildQueueProofs --------------------------
(***************************************************************************)
(* What holds of the build scheduler for every limit and any number of     *)
(* deployments.  SlotAccounting, WorkConserving and NoGhostWaiter are not  *)
(* inductive one by one: dispatchLocked hands slots to whoever the queue   *)
(* names, so the queue has to name those who wait, once each, and release  *)
(* takes back a slot on the word of its caller, so the caller has to own   *)
(* one.  Consistent says all of that of a queue, a count, the grants and   *)
(* the program counters, and is shown to survive dispatchLocked.           *)
(***************************************************************************)
EXTENDS BuildQueue, Functions, FunctionTheorems, SequenceTheorems, FiniteSetTheorems, TLAPS

In(d, q) == \E i \in 1..Len(q) : q[i] = d
NoDup(q) == \A i, j \in 1..Len(q) : q[i] = q[j] => i = j
HoldersOf(g) == {d \in Deployments : g[d]}

Consistent(q, a, g, p) ==
  /\ NoDup(q)
  /\ \A d \in Deployments : In(d, q) <=> (p[d] \in {"selecting", "aborting"} /\ ~g[d])
  /\ \A d \in Deployments :
       g[d] => p[d] \in {"selecting", "aborting", "returning", "building"}
  /\ \A d \in Deployments : p[d] \in {"returning", "building"} => g[d]
  /\ IsFiniteSet(HoldersOf(g)) /\ Cardinality(HoldersOf(g)) = a

IInv ==
  /\ TypeOK
  /\ WorkConserving
  /\ Consistent(waiters, active, granted, pc)

(* NewBuildQueue never leaves a queue without slots. *)
LEMMA LimitPositive == Limit \in Nat /\ Limit >= 1
  BY LimitAssumption DEF Limit, EffectiveLimit

(* dispatchLocked admits as many as fit, and no more. *)
LEMMA AdmittedBounds ==
  ASSUME NEW q \in Seq(Deployments), NEW a \in 0..Limit
  PROVE  /\ Admitted(q, a) \in 0..Len(q)
         /\ a + Admitted(q, a) \in 0..Limit
         /\ Admitted(q, a) = Len(q) \/ a + Admitted(q, a) = Limit
  <1>1. Len(q) \in Nat
    OBVIOUS
  <1> QED
    BY <1>1, LimitPositive DEF Admitted

(* Dropping the first n entries of a queue without repetition removes      *)
(* exactly their owners.                                                   *)
Rest(q, n) == SubSeq(q, n + 1, Len(q))

LEMMA Suffix ==
  ASSUME NEW q \in Seq(Deployments), NEW n \in 0..Len(q), NoDup(q)
  PROVE  /\ Rest(q, n) \in Seq(Deployments)
         /\ Len(Rest(q, n)) = Len(q) - n
         /\ NoDup(Rest(q, n))
         /\ \A d \in Deployments : In(d, Rest(q, n)) => In(d, q)
         /\ \A d \in Deployments :
              (\E i \in 1..n : q[i] = d) <=> (In(d, q) /\ ~In(d, Rest(q, n)))
  <1> DEFINE r == Rest(q, n)
  <1>1. /\ r \in Seq(Deployments)
        /\ Len(r) = Len(q) - n
        /\ \A i \in 1..(Len(q) - n) : r[i] = q[i + n]
    BY DEF Rest
  <1>2. Len(q) \in Nat
    OBVIOUS
  <1> HIDE DEF r
  <1>3. NoDup(r)
    <2> SUFFICES ASSUME NEW i \in 1..Len(r), NEW j \in 1..Len(r), r[i] = r[j]
                 PROVE  i = j
      BY DEF NoDup
    <2>1. i + n \in 1..Len(q) /\ j + n \in 1..Len(q) /\ q[i + n] = q[j + n]
      BY <1>1, <1>2
    <2>2. i + n = j + n
      BY <2>1 DEF NoDup
    <2> QED BY <2>2, <1>1, <1>2
  <1>4. ASSUME NEW d \in Deployments
        PROVE  In(d, r) <=> \E i \in (n + 1)..Len(q) : q[i] = d
    <2>1. ASSUME NEW i \in 1..(Len(q) - n), r[i] = d
          PROVE  \E k \in (n + 1)..Len(q) : q[k] = d
      <3>1. i + n \in (n + 1)..Len(q) /\ q[i + n] = d
        BY <2>1, <1>1, <1>2
      <3> QED BY <3>1
    <2>2. ASSUME NEW i \in (n + 1)..Len(q), q[i] = d PROVE In(d, r)
      <3>1. i - n \in 1..(Len(q) - n) /\ (i - n) + n = i
        BY <1>2
      <3>2. r[i - n] = d
        BY <2>2, <3>1, <1>1
      <3> QED BY <3>1, <3>2, <1>1 DEF In
    <2> QED BY <2>1, <2>2, <1>1 DEF In
  <1>5. ASSUME NEW d \in Deployments PROVE In(d, r) => In(d, q)
    BY <1>2, <1>4 DEF In
  <1>6. ASSUME NEW d \in Deployments
        PROVE (\E i \in 1..n : q[i] = d) <=> (In(d, q) /\ ~In(d, r))
    <2>1. ASSUME NEW i \in 1..n, q[i] = d PROVE In(d, q) /\ ~In(d, r)
      <3>1. i \in 1..Len(q)
        BY <1>2
      <3>2. ~In(d, r)
        BY <2>1, <3>1, <1>2, <1>4 DEF NoDup
      <3> QED BY <2>1, <3>1, <3>2 DEF In
    <2>2. ASSUME In(d, q), ~In(d, r) PROVE \E i \in 1..n : q[i] = d
      <3>1. PICK i \in 1..Len(q) : q[i] = d
        BY <2>2 DEF In
      <3>2. i \notin (n + 1)..Len(q)
        BY <2>2, <3>1, <1>4
      <3> QED BY <3>1, <3>2, <1>2
    <2> QED BY <2>1, <2>2
  <1> QED BY <1>1, <1>3, <1>5, <1>6 DEF r

(* dispatchLocked on a queue without repetition: those it grants leave the *)
(* queue, the others stay, and a free slot remains only if nobody waits.   *)
LEMMA Dispatch ==
  ASSUME NEW q \in Seq(Deployments), NEW a \in 0..Limit,
         NEW g \in [Deployments -> BOOLEAN],
         NoDup(q), DispatchLocked(q, a, g)
  PROVE  /\ waiters' \in Seq(Deployments)
         /\ active' \in 0..Limit
         /\ granted' \in [Deployments -> BOOLEAN]
         /\ NoDup(waiters')
         /\ waiters' # <<>> => active' = Limit
         /\ \A d \in Deployments : In(d, waiters') => In(d, q)
         /\ \A d \in Deployments :
              granted'[d] <=> (g[d] \/ (In(d, q) /\ ~In(d, waiters')))
  <1> DEFINE n == Admitted(q, a)
             r == Rest(q, n)
  <1>1. /\ n \in 0..Len(q) /\ a + n \in 0..Limit
        /\ n = Len(q) \/ a + n = Limit
    BY AdmittedBounds
  <1>2. /\ waiters' = r
        /\ active' = a + n
        /\ granted' = [d \in Deployments |-> g[d] \/ \E i \in 1..n : q[i] = d]
    BY DEF DispatchLocked, Rest
  <1> HIDE DEF n
  <1>3. /\ r \in Seq(Deployments) /\ Len(r) = Len(q) - n /\ NoDup(r)
        /\ \A d \in Deployments : In(d, r) => In(d, q)
        /\ \A d \in Deployments : (\E i \in 1..n : q[i] = d) <=> (In(d, q) /\ ~In(d, r))
    BY <1>1, Suffix
  <1> HIDE DEF r
  <1>4. r # <<>> => a + n = Limit
    BY <1>1, <1>3
  <1>5. granted' \in [Deployments -> BOOLEAN]
    BY <1>2
  <1>6. \A d \in Deployments : granted'[d] <=> (g[d] \/ \E i \in 1..n : q[i] = d)
    BY <1>2
  <1> QED
    BY <1>1, <1>2, <1>3, <1>4, <1>5, <1>6

(* removeWaiterLocked takes out its target and nobody else. *)
LEMMA RemoveWaiter ==
  ASSUME NEW q \in Seq(Deployments), NEW d \in Deployments, NoDup(q)
  PROVE  /\ RemoveWaiterLocked(q, d) \in Seq(Deployments)
         /\ NoDup(RemoveWaiterLocked(q, d))
         /\ \A e \in Deployments : In(e, RemoveWaiterLocked(q, d)) <=> (In(e, q) /\ e # d)
         /\ RemoveWaiterLocked(q, d) # <<>> => q # <<>>
  <1> DEFINE r == RemoveWaiterLocked(q, d)
  <1>0. DOMAIN q = 1..Len(q)
    OBVIOUS
  <1>1. CASE ~In(d, q)
    <2>1. RemoveWaiterLocked(q, d) = q
      BY <1>0, <1>1 DEF In, RemoveWaiterLocked
    <2>2. \A e \in Deployments : In(e, q) => e # d
      BY <1>1
    <2> QED BY <2>1, <2>2
  <1>2. CASE In(d, q)
    <2> DEFINE k == FirstEntry(q, d)
    <2>1. k \in 1..Len(q) /\ q[k] = d
      <3>1. PICK i \in 1..Len(q) : q[i] = d
        BY <1>2 DEF In
      <3>2. \A j \in 1..(i-1) : q[j] # d
        BY <3>1 DEF NoDup
      <3> QED BY <1>0, <3>1, <3>2 DEF FirstEntry
    <2> HIDE DEF k
    <2> DEFINE front == SubSeq(q, 1, k - 1)
               back == SubSeq(q, k + 1, Len(q))
    <2>2. r = front \o back
      BY <1>0, <1>2 DEF RemoveWaiterLocked, In, k
    <2>3. front \in Seq(Deployments) /\ Len(front) = k - 1
      BY <2>1
    <2>4. \A i \in 1..(k - 1) : front[i] = q[i]
      BY <2>1
    <2>5. back \in Seq(Deployments) /\ Len(back) = Len(q) - k
      BY <2>1
    <2>6. \A i \in 1..(Len(q) - k) : back[i] = q[i + k]
      BY <2>1
    <2> HIDE DEF front, back
    <2>7. /\ front \o back \in Seq(Deployments)
          /\ Len(front \o back) = Len(front) + Len(back)
          /\ \A i \in 1..(Len(front) + Len(back)) :
               (front \o back)[i] = IF i <= Len(front) THEN front[i] ELSE back[i - Len(front)]
      BY <2>3, <2>5, ConcatProperties
    <2>8. r \in Seq(Deployments) /\ Len(r) = Len(q) - 1
      BY <2>1, <2>2, <2>3, <2>5, <2>7
    <2>9. \A i \in 1..(Len(q) - 1) : r[i] = IF i < k THEN q[i] ELSE q[i + 1]
      <3> SUFFICES ASSUME NEW i \in 1..(Len(q) - 1)
                   PROVE  r[i] = IF i < k THEN q[i] ELSE q[i + 1]
        OBVIOUS
      <3>1. r[i] = IF i <= k - 1 THEN front[i] ELSE back[i - (k - 1)]
        BY <2>1, <2>2, <2>3, <2>5, <2>7
      <3>2. CASE i < k
        BY <3>1, <3>2, <2>1, <2>4
      <3>3. CASE ~(i < k)
        <4>1. i - (k - 1) \in 1..(Len(q) - k) /\ i - (k - 1) + k = i + 1
          BY <3>3, <2>1
        <4> QED BY <3>1, <4>1, <2>1, <2>6, <3>3
      <3> QED BY <3>2, <3>3
    <2>10. DOMAIN q = 1..Len(q) /\ DOMAIN r = 1..(Len(q) - 1)
      BY <2>8
    <2> HIDE DEF r
    <2>11. NoDup(r)
      BY <2>1, <2>9, <2>10 DEF NoDup
    <2>12. ASSUME NEW e \in Deployments PROVE In(e, r) <=> (In(e, q) /\ e # d)
      <3>1. ASSUME NEW i \in 1..(Len(q) - 1), r[i] = e PROVE In(e, q) /\ e # d
        BY <3>1, <2>1, <2>9, <2>10 DEF In, NoDup
      <3>2. ASSUME NEW i \in 1..Len(q), q[i] = e, e # d PROVE In(e, r)
        <4>1. CASE i < k
          <5>1. i \in 1..(Len(q) - 1) /\ r[i] = e
            BY <4>1, <3>2, <2>1, <2>9
          <5> QED BY <5>1, <2>10 DEF In
        <4>2. CASE i > k
          <5>1. i - 1 \in 1..(Len(q) - 1) /\ ~(i - 1 < k) /\ (i - 1) + 1 = i
            BY <4>2, <2>1
          <5>2. r[i - 1] = e
            BY <5>1, <3>2, <2>9
          <5> QED BY <5>1, <5>2, <2>10 DEF In
        <4> QED BY <4>1, <4>2, <3>2, <2>1
      <3> QED BY <3>1, <3>2, <2>10 DEF In
    <2>13. q # <<>>
      BY <2>1
    <2> QED BY <2>8, <2>11, <2>12, <2>13 DEF r
  <1> QED BY <1>1, <1>2

-----------------------------------------------------------------------------
(* The grants of a dispatch add as many owners as the count says.          *)
LEMMA DispatchCounts ==
  ASSUME NEW q \in Seq(Deployments), NEW a \in 0..Limit,
         NEW g \in [Deployments -> BOOLEAN], NoDup(q),
         \A d \in Deployments : In(d, q) => ~g[d],
         IsFiniteSet(HoldersOf(g)), Cardinality(HoldersOf(g)) = a,
         DispatchLocked(q, a, g)
  PROVE  IsFiniteSet(HoldersOf(granted')) /\ Cardinality(HoldersOf(granted')) = active'
  <1> DEFINE n == Admitted(q, a)
             new == {q[i] : i \in 1..n}
             f == [i \in 1..n |-> q[i]]
  <1>1. n \in 0..Len(q) /\ Len(q) \in Nat /\ n \in Nat
    BY AdmittedBounds
  <1>2. /\ active' = a + n
        /\ granted' = [d \in Deployments |-> g[d] \/ \E i \in 1..n : q[i] = d]
    BY DEF DispatchLocked
  <1> HIDE DEF n
  <1>3. \A i \in 1..n : i \in 1..Len(q) /\ q[i] \in Deployments
    BY <1>1
  <1>4. f \in Bijection(1..n, new)
    <2>1. f \in [1..n -> new] /\ \A y \in new : \E i \in 1..n : f[i] = y
      OBVIOUS
    <2>2. \A i, j \in 1..n : f[i] = f[j] => i = j
      BY <1>3 DEF NoDup
    <2> QED BY <2>1, <2>2, Fun_IsBij
  <1>5. IsFiniteSet(new) /\ Cardinality(new) = n
    <2>1. IsFiniteSet(1..n) /\ Cardinality(1..n) = n
      BY <1>1, FS_Interval
    <2> QED BY <1>4, <2>1, FS_Bijection DEF ExistsBijection
  <1>6. HoldersOf(granted') = HoldersOf(g) \cup new
    BY <1>2, <1>3 DEF HoldersOf
  <1>7. HoldersOf(g) \cap new = {}
    BY <1>3 DEF HoldersOf, In
  <1>8. Cardinality(HoldersOf(g) \cap new) = 0
    BY <1>7, FS_EmptySet
  <1> HIDE DEF new
  <1>9. /\ IsFiniteSet(HoldersOf(g) \cup new)
        /\ Cardinality(HoldersOf(g) \cup new) =
             Cardinality(HoldersOf(g)) + Cardinality(new) - Cardinality(HoldersOf(g) \cap new)
    BY <1>5, FS_Union
  <1>10. Cardinality(HoldersOf(g) \cup new) = active'
    BY <1>1, <1>2, <1>5, <1>8, <1>9, LimitPositive
  <1>11. HoldersOf(granted') = HoldersOf(g) \cup new
    BY <1>6
  <1> QED
    BY ONLY <1>9, <1>10, <1>11, Zenon

(* Whatever is consistent before a dispatch is consistent after it, and    *)
(* nobody is left waiting for a free slot.                                 *)
LEMMA DispatchKeeps ==
  ASSUME NEW q \in Seq(Deployments), NEW a \in 0..Limit,
         NEW g \in [Deployments -> BOOLEAN],
         Consistent(q, a, g, pc'), DispatchLocked(q, a, g),
         pc' \in [Deployments -> Stages], cancelled' \in [Deployments -> BOOLEAN]
  PROVE  IInv'
  <1>1. NoDup(q) /\ \A d \in Deployments : In(d, q) => ~g[d]
    BY DEF Consistent
  <1>2. /\ waiters' \in Seq(Deployments)
        /\ active' \in 0..Limit
        /\ granted' \in [Deployments -> BOOLEAN]
        /\ NoDup(waiters')
        /\ waiters' # <<>> => active' = Limit
        /\ \A d \in Deployments : In(d, waiters') => In(d, q)
        /\ \A d \in Deployments :
             granted'[d] <=> (g[d] \/ (In(d, q) /\ ~In(d, waiters')))
    BY <1>1, Dispatch
  <1>3. IsFiniteSet(HoldersOf(granted')) /\ Cardinality(HoldersOf(granted')) = active'
    BY <1>1, DispatchCounts DEF Consistent
  <1>4. TypeOK'
    BY <1>2 DEF TypeOK, Limit
  <1>5. WorkConserving'
    BY <1>2 DEF WorkConserving, Limit
  <1>6. Consistent(waiters', active', granted', pc')
    BY <1>2, <1>3 DEF Consistent
  <1> QED
    BY <1>4, <1>5, <1>6 DEF IInv

(* The same for release, called by an owner that gives up its slot.        *)
LEMMA ReleaseKeeps ==
  ASSUME IInv, NEW d \in Deployments, granted[d], ReleaseSlot(d),
         NEW stage \in {"idle", "released"}, pc' = [pc EXCEPT ![d] = stage],
         cancelled' \in [Deployments -> BOOLEAN]
  PROVE  IInv'
  <1> DEFINE g == [granted EXCEPT ![d] = FALSE]
  <1>1. TypeOK /\ Consistent(waiters, active, granted, pc)
    BY DEF IInv
  <1>2. /\ pc \in [Deployments -> Stages] /\ waiters \in Seq(Deployments)
        /\ granted \in [Deployments -> BOOLEAN] /\ active \in 0..Limit
    BY <1>1 DEF TypeOK
  <1>3. pc' \in [Deployments -> Stages] /\ g \in [Deployments -> BOOLEAN]
    BY <1>2 DEF Stages
  <1>4. /\ HoldersOf(g) = HoldersOf(granted) \ {d}
        /\ d \in HoldersOf(granted)
    BY <1>2 DEF HoldersOf
  <1>5. /\ IsFiniteSet(HoldersOf(granted)) /\ Cardinality(HoldersOf(granted)) = active
    BY <1>1 DEF Consistent
  <1>6. IsFiniteSet(HoldersOf(g)) /\ Cardinality(HoldersOf(g)) = active - 1
    BY <1>4, <1>5, FS_RemoveElement
  <1>7. active > 0 /\ active - 1 \in 0..Limit
    <2>1. Cardinality(HoldersOf(granted)) # 0
      BY <1>4, <1>5, FS_EmptySet
    <2> QED BY <2>1, <1>2, <1>5, LimitPositive
  <1>8. DispatchLocked(waiters, active - 1, g)
    BY <1>7 DEF ReleaseSlot
  <1>9. Consistent(waiters, active - 1, g, pc')
    <2> HIDE DEF g
    <2>1. \A e \in Deployments : g[e] = (granted[e] /\ e # d)
      BY <1>2 DEF g
    <2>2. \A e \in Deployments : pc'[e] = IF e = d THEN stage ELSE pc[e]
      BY <1>2
    <2> QED BY <1>1, <1>6, <2>1, <2>2 DEF Consistent
  <1> HIDE DEF g
  <1> QED
    BY <1>2, <1>3, <1>7, <1>8, <1>9, DispatchKeeps

(* The invariant does not depend on steps that only move a goroutine       *)
(* between stages that hold, or wait for, a slot alike.                    *)
LEMMA MoveKeeps ==
  ASSUME IInv, UNCHANGED <<waiters, granted, active>>,
         pc' \in [Deployments -> Stages], cancelled' \in [Deployments -> BOOLEAN],
         \A d \in Deployments : pc'[d] # pc[d] =>
           \/ pc[d] \in {"idle", "released"} /\ pc'[d] \in {"idle", "released"}
           \/ pc[d] \in {"selecting", "aborting"} /\ pc'[d] \in {"selecting", "aborting"}
           \/ granted[d] /\ pc'[d] \in {"selecting", "aborting", "returning", "building"}
  PROVE  IInv'
  <1>1. TypeOK'
    BY DEF IInv, TypeOK, Limit
  <1>2. WorkConserving'
    BY DEF IInv, WorkConserving, Limit
  <1>3. Consistent(waiters, active, granted, pc')
    BY DEF IInv, TypeOK, Consistent
  <1>4. Consistent(waiters', active', granted', pc')
    BY <1>3
  <1> QED BY <1>1, <1>2, <1>4 DEF IInv

-----------------------------------------------------------------------------
LEMMA Invariant == Spec => []IInv
  <1>1. Init => IInv
    <2> SUFFICES ASSUME Init PROVE IInv
      OBVIOUS
    <2>1. TypeOK /\ WorkConserving
      BY LimitPositive DEF Init, TypeOK, Stages, WorkConserving
    <2>2. HoldersOf(granted) = {}
      BY DEF Init, HoldersOf
    <2>3. IsFiniteSet(HoldersOf(granted)) /\ Cardinality(HoldersOf(granted)) = active
      BY <2>2, FS_EmptySet DEF Init
    <2>4. Consistent(waiters, active, granted, pc)
      BY <2>3 DEF Init, Consistent, NoDup, In
    <2> QED
      BY <2>1, <2>4 DEF IInv
  <1>2. IInv /\ [Next]_vars => IInv'
    <2> SUFFICES ASSUME IInv, [Next]_vars PROVE IInv'
      OBVIOUS
    <2>1. /\ pc \in [Deployments -> Stages] /\ waiters \in Seq(Deployments)
          /\ granted \in [Deployments -> BOOLEAN] /\ active \in 0..Limit
          /\ cancelled \in [Deployments -> BOOLEAN]
          /\ Consistent(waiters, active, granted, pc)
      BY DEF IInv, TypeOK
    <2>2. ASSUME NEW d \in Deployments, Enqueue(d) PROVE IInv'
      <3> DEFINE q == Append(waiters, d)
      <3>1. /\ pc[d] = "idle" /\ pc' = [pc EXCEPT ![d] = "selecting"]
            /\ cancelled' = cancelled /\ DispatchLocked(q, active, granted)
        BY <2>2 DEF Enqueue, MoveTo
      <3>2. pc' \in [Deployments -> Stages]
        BY <3>1, <2>1 DEF Stages
      <3>3. /\ q \in Seq(Deployments)
            /\ Len(q) = Len(waiters) + 1 /\ q[Len(q)] = d
            /\ \A i \in 1..Len(waiters) : q[i] = waiters[i]
        BY <2>1
      <3> HIDE DEF q
      <3>4. \A e \in Deployments : In(e, q) <=> (In(e, waiters) \/ e = d)
        <4>1. Len(waiters) \in Nat
          BY <2>1
        <4> QED BY <3>3, <4>1 DEF In
      <3>5. ~granted[d] /\ ~In(d, waiters)
        BY <2>1, <3>1 DEF Consistent
      <3>6. NoDup(q)
        <4>1. Len(waiters) \in Nat /\ NoDup(waiters)
          BY <2>1 DEF Consistent
        <4>2. \A i \in 1..Len(waiters) : q[i] # d
          BY <3>3, <3>5 DEF In
        <4> QED BY <3>3, <4>1, <4>2 DEF NoDup
      <3>7. \A e \in Deployments : pc'[e] = IF e = d THEN "selecting" ELSE pc[e]
        BY <2>1, <3>1
      <3>8. Consistent(q, active, granted, pc')
        BY <2>1, <3>4, <3>5, <3>6, <3>7 DEF Consistent
      <3> QED
        BY <2>1, <3>1, <3>2, <3>3, <3>8, DispatchKeeps
    <2>3. ASSUME NEW d \in Deployments, CancelContext(d) PROVE IInv'
      BY <2>1, <2>3, MoveKeeps DEF CancelContext
    <2>4. ASSUME NEW d \in Deployments, TakeSlot(d) PROVE IInv'
      BY <2>1, <2>4, MoveKeeps DEF TakeSlot, MoveTo, Stages
    <2>5. ASSUME NEW d \in Deployments, SeeCancel(d) PROVE IInv'
      BY <2>1, <2>5, MoveKeeps DEF SeeCancel, MoveTo, Stages
    <2>6. ASSUME NEW d \in Deployments, AbortGranted(d) PROVE IInv'
      BY <2>1, <2>6, MoveKeeps DEF AbortGranted, MoveTo, Stages
    <2>7. ASSUME NEW d \in Deployments, AbortWaiting(d) PROVE IInv'
      <3> DEFINE q == RemoveWaiterLocked(waiters, d)
      <3>1. /\ pc[d] = "aborting" /\ ~granted[d] /\ pc' = [pc EXCEPT ![d] = "idle"]
            /\ cancelled' = [cancelled EXCEPT ![d] = FALSE]
            /\ DispatchLocked(q, active, granted)
        BY <2>7 DEF AbortWaiting, MoveTo
      <3>2. pc' \in [Deployments -> Stages] /\ cancelled' \in [Deployments -> BOOLEAN]
        BY <3>1, <2>1 DEF Stages
      <3>3. /\ q \in Seq(Deployments) /\ NoDup(q)
            /\ \A e \in Deployments : In(e, q) <=> (In(e, waiters) /\ e # d)
        BY <2>1, RemoveWaiter DEF Consistent
      <3> HIDE DEF q
      <3>4. \A e \in Deployments : pc'[e] = IF e = d THEN "idle" ELSE pc[e]
        BY <2>1, <3>1
      <3>5. Consistent(q, active, granted, pc')
        BY <2>1, <3>1, <3>3, <3>4 DEF Consistent
      <3> QED
        BY <2>1, <3>1, <3>2, <3>3, <3>5, DispatchKeeps
    <2>8. ASSUME NEW d \in Deployments, GiveBack(d) PROVE IInv'
      <3>1. granted[d]
        BY <2>1, <2>8 DEF GiveBack, MoveTo, Consistent
      <3> QED
        BY <2>1, <2>8, <3>1, ReleaseKeeps DEF GiveBack, MoveTo
    <2>9. ASSUME NEW d \in Deployments, Release(d) PROVE IInv'
      <3>1. granted[d]
        BY <2>1, <2>9 DEF Release, MoveTo, Consistent
      <3> QED
        BY <2>1, <2>9, <3>1, ReleaseKeeps DEF Release, MoveTo
    <2>10. ASSUME NEW d \in Deployments, DeferredRelease(d) PROVE IInv'
      BY <2>1, <2>10, MoveKeeps DEF DeferredRelease, MoveTo, Stages
    <2>11. CASE UNCHANGED vars
      BY <2>1, <2>11, MoveKeeps DEF vars
    <2> QED
      BY <2>2, <2>3, <2>4, <2>5, <2>6, <2>7, <2>8, <2>9, <2>10, <2>11 DEF Next, Progress
  <1> QED
    BY <1>1, <1>2, PTL DEF Spec

(* The state stays well typed: in particular q.active never exceeds the    *)
(* limit NewBuildQueue settled on.                                         *)
THEOREM TypeCorrect == Spec => []TypeOK
  <1>1. IInv => TypeOK
    BY DEF IInv
  <1> QED BY <1>1, Invariant, PTL

(* q.active counts the owners of slots: neither a cancellation that races  *)
(* with a grant nor the second release call loses or invents a slot.       *)
THEOREM SlotsAccounted == Spec => []SlotAccounting
  <1>1. IInv => SlotAccounting
    BY DEF IInv, Consistent, HoldersOf, SlotAccounting, Holders
  <1> QED BY <1>1, Invariant, PTL

(* No deployment waits while a slot is free.                               *)
THEOREM NoIdleSlot == Spec => []WorkConserving
  <1>1. IInv => WorkConserving
    BY DEF IInv
  <1> QED BY <1>1, Invariant, PTL

(* The queue names exactly the goroutines that wait, once each: a waiter   *)
(* that has returned cancelled is never granted a slot.                    *)
THEOREM QueueIsExact == Spec => []NoGhostWaiter
  <1>1. ASSUME IInv PROVE NoGhostWaiter
    <2>1. DOMAIN waiters = 1..Len(waiters)
      BY <1>1 DEF IInv, TypeOK
    <2> QED BY <1>1, <2>1 DEF IInv, Consistent, NoDup, In, NoGhostWaiter
  <1> QED BY <1>1, Invariant, PTL

-----------------------------------------------------------------------------
(* Implementation of BuildSlots.  A dispatch that admits nobody leaves the *)
(* line and the holders alone; one that admits the head moves it from the  *)
(* line to the holders.  No other number is ever admitted: at most one     *)
(* slot or one waiter appears per critical section.                        *)
LEMMA AdmitNobody ==
  ASSUME NEW q \in Seq(Deployments), NEW a, NEW g \in [Deployments -> BOOLEAN],
         Admitted(q, a) = 0, DispatchLocked(q, a, g)
  PROVE  waiters' = q /\ Holders' = HoldersOf(g)
  <1>1. waiters' = SubSeq(q, 1, Len(q))
    BY DEF DispatchLocked
  <1>2. SubSeq(q, 1, Len(q)) = q
    OBVIOUS
  <1>3. \A d \in Deployments : granted'[d] = g[d]
    BY DEF DispatchLocked
  <1> QED
    BY <1>1, <1>2, <1>3 DEF Holders, HoldersOf

LEMMA AdmitHead ==
  ASSUME NEW q \in Seq(Deployments), NEW a, NEW g \in [Deployments -> BOOLEAN],
         q # <<>>, Admitted(q, a) = 1, DispatchLocked(q, a, g)
  PROVE  waiters' = Tail(q) /\ Holders' = HoldersOf(g) \cup {Head(q)}
  <1>1. waiters' = SubSeq(q, 2, Len(q))
    BY DEF DispatchLocked
  <1>2. SubSeq(q, 2, Len(q)) = Tail(q)
    BY TailIsSubSeq
  <1>3. Head(q) = q[1] /\ q[1] \in Deployments
    OBVIOUS
  <1>4. \A d \in Deployments : granted'[d] <=> (g[d] \/ q[1] = d)
    <2>1. granted' = [d \in Deployments |-> g[d] \/ \E i \in 1..1 : q[i] = d]
      BY DEF DispatchLocked
    <2>2. \A d \in Deployments : (\E i \in 1..1 : q[i] = d) <=> q[1] = d
      OBVIOUS
    <2> QED BY <2>1, <2>2
  <1> QED
    BY <1>1, <1>2, <1>3, <1>4 DEF Holders, HoldersOf

(* Joining a queue that is served at once, or a full one. *)
LEMMA EnqueueJoins ==
  ASSUME IInv, NEW d \in Deployments, Enqueue(d)
  PROVE  Slots!Join(d)
  <1> DEFINE q == Append(waiters, d)
  <1>1. /\ waiters \in Seq(Deployments) /\ granted \in [Deployments -> BOOLEAN]
        /\ active \in 0..Limit /\ Limit \in Nat /\ Limit >= 1
        /\ Consistent(waiters, active, granted, pc)
        /\ pc[d] = "idle" /\ DispatchLocked(q, active, granted)
    BY LimitPositive DEF IInv, TypeOK, Enqueue, MoveTo
  <1>2. Slots!Cardinality(Holders) = active
    <2>1. Cardinality(Holders) = active
      BY <1>1 DEF Consistent, HoldersOf, Holders
    <2>2. Slots!Cardinality(Holders) = Cardinality(Holders)
      BY Zenon DEF Slots!Cardinality, Cardinality
    <2> QED BY <2>1, <2>2
  <1>3. d \notin Holders \cup Slots!Waiting
    <2>1. ~granted[d] /\ ~In(d, waiters)
      BY <1>1 DEF Consistent
    <2> QED BY <2>1, <1>1 DEF Holders, Slots!Waiting, In
  <1>4. CASE active < Limit
    <2>1. waiters = <<>>
      BY <1>1, <1>4 DEF IInv, WorkConserving
    <2>2. q = <<d>> /\ q \in Seq(Deployments) /\ Len(q) = 1 /\ Head(q) = d /\ Tail(q) = <<>>
      BY <2>1
    <2> HIDE DEF q
    <2>3. Admitted(q, active) = 1
      BY <2>2, <1>1, <1>4 DEF Admitted
    <2>4. waiters' = Tail(q) /\ Holders' = HoldersOf(granted) \cup {Head(q)}
      BY <1>1, <2>2, <2>3, AdmitHead
    <2>5. waiters' = waiters /\ Holders' = Holders \cup {d}
      BY <2>1, <2>2, <2>4 DEF HoldersOf, Holders
    <2> QED BY <1>2, <1>3, <1>4, <2>5 DEF Slots!Join
  <1>5. CASE ~(active < Limit)
    <2>1. q \in Seq(Deployments)
      BY <1>1
    <2> HIDE DEF q
    <2>2. Admitted(q, active) = 0
      BY <1>1, <1>5 DEF Admitted
    <2>3. waiters' = q /\ Holders' = HoldersOf(granted)
      BY <1>1, <2>1, <2>2, AdmitNobody
    <2> QED BY <1>2, <1>3, <1>5, <2>3 DEF Slots!Join, HoldersOf, Holders, q
  <1> QED BY <1>4, <1>5

(* A cancelled waiter leaves from wherever it stands; whoever stays could  *)
(* not be served before and cannot be served now.                          *)
LEMMA AbortLeaves ==
  ASSUME IInv, NEW d \in Deployments, AbortWaiting(d)
  PROVE  Slots!Leave(d)
  <1> DEFINE q == RemoveWaiterLocked(waiters, d)
  <1>1. /\ waiters \in Seq(Deployments) /\ granted \in [Deployments -> BOOLEAN]
        /\ active \in 0..Limit /\ Limit \in Nat
        /\ Consistent(waiters, active, granted, pc)
        /\ pc[d] = "aborting" /\ ~granted[d] /\ DispatchLocked(q, active, granted)
    BY LimitPositive DEF IInv, TypeOK, AbortWaiting, MoveTo
  <1>2. q \in Seq(Deployments) /\ (q # <<>> => waiters # <<>>)
    BY <1>1, RemoveWaiter DEF Consistent
  <1>3. In(d, waiters)
    BY <1>1 DEF Consistent
  <1>4. \E i \in DOMAIN waiters :
          /\ waiters[i] = d
          /\ q = SubSeq(waiters, 1, i - 1) \o SubSeq(waiters, i + 1, Len(waiters))
    <2> DEFINE k == FirstEntry(waiters, d)
    <2>1. DOMAIN waiters = 1..Len(waiters)
      BY <1>1
    <2>2. PICK i \in 1..Len(waiters) : waiters[i] = d
      BY <1>3 DEF In
    <2>3. \A j \in 1..(i - 1) : waiters[j] # d
      BY <1>1, <2>2 DEF Consistent, NoDup
    <2>4. k \in DOMAIN waiters /\ waiters[k] = d
      BY <2>1, <2>2, <2>3 DEF FirstEntry
    <2>5. q = SubSeq(waiters, 1, k - 1) \o SubSeq(waiters, k + 1, Len(waiters))
      BY <2>4 DEF RemoveWaiterLocked
    <2> QED BY <2>4, <2>5
  <1> HIDE DEF q
  <1>5. Admitted(q, active) = 0
    <2>1. CASE q = <<>>
      BY <2>1, <1>1 DEF Admitted
    <2>2. CASE q # <<>>
      BY <2>2, <1>1, <1>2 DEF Admitted, IInv, WorkConserving
    <2> QED BY <2>1, <2>2
  <1>6. waiters' = q /\ Holders' = HoldersOf(granted)
    BY <1>1, <1>2, <1>5, AdmitNobody
  <1> QED
    BY <1>4, <1>6 DEF Slots!Leave, Holders, HoldersOf

(* A slot handed back is free, or goes to the head of the line at once. *)
LEMMA ReleaseFrees ==
  ASSUME IInv, NEW d \in Deployments, granted[d], ReleaseSlot(d)
  PROVE  Slots!Free(d)
  <1> DEFINE g == [granted EXCEPT ![d] = FALSE]
  <1>1. /\ waiters \in Seq(Deployments) /\ granted \in [Deployments -> BOOLEAN]
        /\ active \in 0..Limit /\ Limit \in Nat
        /\ Consistent(waiters, active, granted, pc)
    BY LimitPositive DEF IInv, TypeOK
  <1>2. d \in Holders /\ HoldersOf(g) = Holders \ {d} /\ g \in [Deployments -> BOOLEAN]
    BY <1>1 DEF Holders, HoldersOf
  <1>3. active > 0
    <2>1. IsFiniteSet(Holders) /\ Cardinality(Holders) = active
      BY <1>1 DEF Consistent, Holders, HoldersOf
    <2>2. Cardinality(Holders) # 0
      BY <1>2, <2>1, FS_EmptySet
    <2> QED BY <1>1, <2>1, <2>2
  <1>4. DispatchLocked(waiters, active - 1, g)
    BY <1>3 DEF ReleaseSlot
  <1> HIDE DEF g
  <1>5. CASE waiters = <<>>
    <2>1. Admitted(waiters, active - 1) = 0
      BY <1>1, <1>3, <1>5 DEF Admitted
    <2>2. waiters' = waiters /\ Holders' = HoldersOf(g)
      BY <1>1, <1>2, <1>4, <2>1, AdmitNobody
    <2> QED BY <1>2, <1>5, <2>2 DEF Slots!Free
  <1>6. CASE waiters # <<>>
    <2>1. active = Limit
      BY <1>6 DEF IInv, WorkConserving
    <2>2. Len(waiters) \in Nat /\ Len(waiters) >= 1
      BY <1>1, <1>6
    <2>3. Admitted(waiters, active - 1) = 1
      BY <1>1, <1>3, <2>1, <2>2 DEF Admitted
    <2>4. waiters' = Tail(waiters) /\ Holders' = HoldersOf(g) \cup {Head(waiters)}
      BY <1>1, <1>2, <1>4, <1>6, <2>3, AdmitHead
    <2> QED BY <1>2, <1>6, <2>4 DEF Slots!Free
  <1> QED BY <1>5, <1>6

(* The scheduler, mutex, channels and contexts included, implements the    *)
(* pool of build slots handed out in arrival order: each critical section  *)
(* of q.mu is one step of the pool or none.                                *)
THEOREM ImplementsPool == Spec => ImplementsBuildSlots
  <1>1. Init => Slots!Init
    BY DEF Init, Slots!Init, Holders
  <1>2. IInv /\ [Next]_vars => [Slots!Next]_(Slots!slotVars)
    <2> SUFFICES ASSUME IInv, [Next]_vars PROVE [Slots!Next]_(Slots!slotVars)
      OBVIOUS
    <2>1. ASSUME NEW d \in Deployments, Enqueue(d) PROVE Slots!Next
      BY <2>1, EnqueueJoins DEF Slots!Next
    <2>2. ASSUME NEW d \in Deployments, AbortWaiting(d) PROVE Slots!Next
      BY <2>2, AbortLeaves DEF Slots!Next
    <2>3. ASSUME NEW d \in Deployments, GiveBack(d) \/ Release(d) PROVE Slots!Next
      <3>1. granted[d] /\ ReleaseSlot(d)
        BY <2>3 DEF IInv, Consistent, GiveBack, Release, MoveTo
      <3> QED BY <3>1, ReleaseFrees DEF Slots!Next
    <2>4. ASSUME UNCHANGED <<waiters, granted>> PROVE UNCHANGED Slots!slotVars
      BY <2>4 DEF Slots!slotVars, Holders
    <2>5. ASSUME NEW d \in Deployments,
                 CancelContext(d) \/ TakeSlot(d) \/ SeeCancel(d) \/ AbortGranted(d)
                   \/ DeferredRelease(d)
          PROVE  UNCHANGED Slots!slotVars
      BY <2>4, <2>5 DEF CancelContext, TakeSlot, SeeCancel, AbortGranted, DeferredRelease
    <2>6. CASE UNCHANGED vars
      BY <2>4, <2>6 DEF vars
    <2> QED BY <2>1, <2>2, <2>3, <2>5, <2>6 DEF Next, Progress
  <1> QED
    BY <1>1, <1>2, Invariant, PTL DEF Spec, ImplementsBuildSlots, Slots!Spec
=============================================================================
