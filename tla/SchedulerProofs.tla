-------------------------- MODULE SchedulerProofs --------------------------
(***************************************************************************)
(* Proofs about Scheduler, for every finite set of requests, any admission *)
(* IDs and scopes, and every policy the constructor accepts.               *)
(*                                                                         *)
(* The limits hold because a request whose pressure check is awaited still *)
(* fits when the check ends, beside all the permits that the comparison    *)
(* saw: meanwhile permits are returned, or given to recovered runs, and a  *)
(* drain that is asked for gives none.  The order holds because without    *)
(* hooks the head of the queue is always blocked, so that nobody who       *)
(* arrives later finds the whole queue admissible.                         *)
(***************************************************************************)
EXTENDS Scheduler, FiniteSetTheorems, SequenceTheorems, TLAPS

\* The permits that the last comparison of the limits saw.
Counted == active \ recovered

\* A request fits beside the holders: no limit is reached.
Fits(r, holders) ==
    \A key \in ScopeKeys : Cardinality(sharing(r, key, holders)) < policy.limit[key]

\* Everyone is queued once, and nobody who is queued holds a permit.
QueueSound ==
    /\ \A i, j \in DOMAIN queue : queue[i] = queue[j] => i = j
    /\ \A i \in DOMAIN queue : queue[i] \notin active

\* The request whose check is awaited, with hooks only.
CheckSound ==
    checking # NoRequest =>
        policy.hooks /\ checking \notin active \cup delayed /\ Fits(checking, Counted)

\* Without hooks nothing is delayed, and the head of the queue is blocked.
HeadBlocked ==
    ~policy.hooks => delayed = {} /\ (queue # <<>> => blockedBy(Head(queue), active) # {})

\* The inductive invariant.
SchedulerInv == TypeOK /\ QueueSound /\ CheckSound /\ HeadBlocked

-----------------------------------------------------------------------------
(* Arithmetic and counting.                                                *)

\* A set of naturals that is not empty has a least element.
LEMMA LeastNatural ==
  ASSUME NEW T \in SUBSET Nat, T # {}
  PROVE  \E n \in T : \A m \in T : n <= m
<1>1. \E x \in T : \A y \in T : ~(<<y, x>> \in OpToRel(<, Nat))
  BY WFMin, NatLessThanWellFounded
<1>2. PICK x \in T : \A y \in T : ~(<<y, x>> \in OpToRel(<, Nat))
  BY <1>1
<1>3. \A y \in T : ~(y < x)
  BY <1>2 DEF OpToRel
<1> QED  BY <1>3

\* Those who share a scope are finitely many, and no more in a smaller set.
LEMMA SharingCounts ==
  ASSUME NEW r, NEW key, NEW A \in SUBSET Requests, NEW B \in SUBSET A
  PROVE  /\ Cardinality(sharing(r, key, A)) \in Nat /\ Cardinality(sharing(r, key, B)) \in Nat
         /\ Cardinality(sharing(r, key, B)) <= Cardinality(sharing(r, key, A))
<1>1. sharing(r, key, B) \in SUBSET sharing(r, key, A) /\ sharing(r, key, A) \in SUBSET Requests
  BY DEF sharing
<1>2. IsFiniteSet(sharing(r, key, A)) /\ IsFiniteSet(sharing(r, key, B))
  BY <1>1, RequestsAssumption, FS_Subset
<1> QED  BY <1>1, <1>2, FS_Subset, FS_CardinalityType

\* Every limit holds for the requests of R beside the permits of A.
Within(R, A) == \A r \in R, key \in ScopeKeys : Cardinality(sharing(r, key, A)) <= policy.limit[key]

\* The limits are numbers.
LEMMA LimitTyped ==
  ASSUME TypeOK, NEW key \in ScopeKeys
  PROVE  policy.limit[key] \in Nat /\ policy.hooks \in BOOLEAN
  BY PolicyAssumption DEF TypeOK

\* What fits beside many fits beside fewer.
LEMMA FitsBesideFewer ==
  ASSUME TypeOK, NEW r, NEW A \in SUBSET Requests, NEW B \in SUBSET A, Fits(r, A)
  PROVE  Fits(r, B)
<1> SUFFICES ASSUME NEW key \in ScopeKeys PROVE Cardinality(sharing(r, key, B)) < policy.limit[key]
  BY DEF Fits
<1> QED  BY SharingCounts, LimitTyped DEF Fits

\* One who fits may be added.
LEMMA WithinOneMore ==
  ASSUME TypeOK, NEW A \in SUBSET Requests, NEW R, NEW r \in Requests, Within(R, A), Fits(r, A)
  PROVE  Within(R \cup {r}, A \cup {r})
<1> SUFFICES ASSUME NEW a \in R \cup {r}, NEW key \in ScopeKeys
             PROVE  Cardinality(sharing(a, key, A \cup {r})) <= policy.limit[key]
  BY DEF Within
<1>1. CASE Scope[a][key] = Scope[r][key]
  <2>1. sharing(a, key, A \cup {r}) = sharing(r, key, A) \cup {r}
    BY <1>1 DEF sharing
  <2>2. IsFiniteSet(sharing(r, key, A)) /\ Cardinality(sharing(r, key, A)) \in Nat
    <3>1. sharing(r, key, A) \in SUBSET Requests
      BY DEF sharing
    <3> QED  BY <3>1, RequestsAssumption, FS_Subset, FS_CardinalityType
  <2>3. Cardinality(sharing(r, key, A) \cup {r}) <= Cardinality(sharing(r, key, A)) + 1
    BY <2>2, FS_AddElement
  <2>4. Cardinality(sharing(r, key, A)) < policy.limit[key] /\ policy.limit[key] \in Nat
    BY LimitTyped DEF Fits
  <2>5. Cardinality(sharing(r, key, A) \cup {r}) \in Nat
    BY <2>2, FS_AddElement, FS_CardinalityType
  <2>6. Cardinality(sharing(r, key, A) \cup {r}) <= policy.limit[key]
    BY <2>2, <2>3, <2>4, <2>5
  <2> QED  BY <2>1, <2>6, Zenon
<1>2. CASE Scope[a][key] # Scope[r][key]
  <2>1. sharing(a, key, A \cup {r}) = sharing(a, key, A) /\ a \in R
    BY <1>2 DEF sharing
  <2> QED  BY <2>1 DEF Within
<1> QED  BY <1>1, <1>2

\* blockedBy is empty exactly when the request fits.
LEMMA NotBlocked ==
  ASSUME TypeOK, NEW r, NEW A \in SUBSET Requests
  PROVE  blockedBy(r, A) = {} <=> Fits(r, A)
<1>1. \A key \in ScopeKeys : Cardinality(sharing(r, key, A)) \in Nat /\ policy.limit[key] \in Nat
  BY SharingCounts, LimitTyped
<1> QED  BY <1>1 DEF blockedBy, Fits

-----------------------------------------------------------------------------
(* The loop of drain.                                                      *)

\* The first n requests of a queue.
First(q, n) == {q[i] : i \in 1..n}

\* The loop stops at a number of requests: all before it fit, one by one, and
\* the next one, if there is one, does not.
LEMMA AdmissibleExists ==
  ASSUME TypeOK, NEW q \in Seq(Requests), NEW A \in SUBSET Requests
  PROVE  /\ Admissible(q, A) \in 0..Len(q)
         /\ \A i \in 1..Admissible(q, A) : Fits(q[i], A \cup First(q, i - 1))
         /\ \/ Admissible(q, A) = Len(q)
            \/ blockedBy(q[Admissible(q, A) + 1], A \cup First(q, Admissible(q, A))) # {}
<1> DEFINE Good(n) == /\ \A i \in 1..n : blockedBy(q[i], A \cup {q[j] : j \in 1..(i - 1)}) = {}
                      /\ n = Len(q) \/ blockedBy(q[n + 1], A \cup {q[j] : j \in 1..n}) # {}
           T == {n \in 0..Len(q) : n = Len(q) \/ blockedBy(q[n + 1], A \cup {q[j] : j \in 1..n}) # {}}
<1>1. Len(q) \in Nat /\ T \in SUBSET Nat /\ Len(q) \in T
  BY LenProperties
<1>2. PICK n \in T : \A m \in T : n <= m
  <2> HIDE DEF T
  <2> QED  BY <1>1, LeastNatural
<1>3. Good(n) /\ n \in 0..Len(q)
  <2>1. ASSUME NEW i \in 1..n PROVE blockedBy(q[i], A \cup {q[j] : j \in 1..(i - 1)}) = {}
    <3>1. i - 1 \in 0..Len(q) /\ i - 1 < n /\ n <= Len(q) /\ n \in Nat
      BY <1>1, <1>2
    <3>2. i - 1 \notin T
      <4> HIDE DEF T
      <4> QED  BY <1>1, <1>2, <3>1
    <3>3. i - 1 # Len(q) /\ (i - 1) + 1 = i
      BY <1>1, <3>1
    <3> QED  BY <3>1, <3>2, <3>3
  <2> QED  BY <1>2, <2>1
<1>4. Admissible(q, A) = CHOOSE m \in 0..Len(q) : Good(m)
  BY DEF Admissible
<1>5. Admissible(q, A) \in 0..Len(q) /\ Good(Admissible(q, A))
  <2> HIDE DEF Good
  <2> QED  BY <1>3, <1>4
<1> DEFINE a == Admissible(q, A)
<1>6. a \in 0..Len(q) /\ Good(a)
  BY <1>5
<1> HIDE DEF a
<1>7. ASSUME NEW i \in 1..a PROVE Fits(q[i], A \cup First(q, i - 1))
  <2>1. blockedBy(q[i], A \cup First(q, i - 1)) = {}
    BY <1>6 DEF First
  <2>2. A \cup First(q, i - 1) \in SUBSET Requests
    BY <1>1, <1>6 DEF First
  <2> QED  BY <2>1, <2>2, NotBlocked
<1>8. a = Len(q) \/ blockedBy(q[a + 1], A \cup First(q, a)) # {}
  BY <1>6 DEF First
<1> QED  BY <1>6, <1>7, <1>8 DEF a

\* Everyone in a queue is there once, and none of them holds a permit.
Apart(q, A) ==
    /\ \A i, j \in 1..Len(q) : q[i] = q[j] => i = j
    /\ \A i \in 1..Len(q) : q[i] \notin A

\* What a drain has done: n requests from the head of q were admitted, each of them
\* within the limits, and n is as large as it can be without hooks; with hooks none
\* was admitted and the head may be checked.
Drained(q, A, n) ==
    /\ queue' = SubSeq(q, n + 1, Len(q)) /\ active' = A \cup First(q, n)
    /\ policy.hooks => n = 0
    /\ \A i \in 1..n : Fits(q[i], A \cup First(q, i - 1))
    /\ ~policy.hooks => n = Len(q) \/ blockedBy(q[n + 1], active') # {}

\* The loop drains, and awaits only the check of a head that fits.
LEMMA LoopDrains ==
  ASSUME TypeOK, NEW q \in Seq(Requests), NEW A \in SUBSET Requests, NEW wait,
         NEW woken \in BOOLEAN, DrainLoop(q, A, wait, woken)
  PROVE  /\ \E n \in 0..Len(q) : Drained(q, A, n)
         /\ checking' # NoRequest =>
              policy.hooks /\ q # <<>> /\ checking' = Head(q) /\ Head(q) \notin wait /\ Fits(Head(q), A)
         /\ delayed' = wait /\ timer' \in BOOLEAN
<1> DEFINE n == IF policy.hooks THEN 0 ELSE Admissible(q, A)
           rest == SubSeq(q, n + 1, Len(q))
<1>0. Len(q) \in Nat /\ q \in [1..Len(q) -> Requests]
  BY LenProperties
<1>1. n \in 0..Len(q) /\ Drained(q, A, n)
  <2>1. queue' = rest /\ active' = A \cup First(q, n)
    BY DEF DrainLoop, First
  <2>2. CASE policy.hooks
    BY <1>0, <2>1, <2>2 DEF Drained
  <2>3. CASE ~policy.hooks
    <3>1. n = Admissible(q, A)
      BY <2>3
    <3> HIDE DEF n
    <3> QED  BY <2>1, <2>3, <3>1, AdmissibleExists DEF Drained
  <2> QED  BY <2>2, <2>3
<1>2. checking' # NoRequest =>
        rest # <<>> /\ blockedBy(Head(rest), active') = {} /\ checking' = Head(rest) /\ Head(rest) \notin wait
  BY DEF DrainLoop
<1>3. delayed' = wait /\ timer' \in BOOLEAN
  BY Zenon DEF DrainLoop
<1>4. CASE policy.hooks
  <2>1. rest = q /\ active' = A
    BY <1>0, <1>1, <1>4, SubSeqFull DEF Drained, First
  <2>2. checking' # NoRequest => Fits(Head(q), A)
    BY <1>2, <2>1, NotBlocked
  <2> QED  BY <1>1, <1>2, <1>3, <1>4, <2>1, <2>2
<1>5. CASE ~policy.hooks
  <2>1. ASSUME checking' # NoRequest PROVE FALSE
    <3>1. n # Len(q) /\ Head(rest) = q[n + 1]
      <4>1. n \in 0..Len(q) /\ rest # <<>>
        BY <1>1, <1>2, <2>1
      <4> HIDE DEF n
      <4>2. n # Len(q)
        <5>1. Len(q) \in Int /\ Len(q) + 1 \in Int /\ Len(q) < Len(q) + 1
          BY <1>0
        <5>2. SubSeq(q, Len(q) + 1, Len(q)) = <<>>
          BY <5>1, SubSeqEmpty
        <5> QED  BY <4>1, <5>2
      <4>3. n + 1 \in 1..Len(q) /\ Len(q) \in (n + 1)..Len(q)
        <5>1. PICK m \in Nat : m = Len(q)
          BY <1>0
        <5>2. n \in 0..m /\ n # m
          BY <4>1, <4>2, <5>1
        <5>3. n + 1 \in 1..m /\ m \in (n + 1)..m
          BY <5>2
        <5> QED  BY <5>1, <5>3
      <4> QED  BY <4>2, <4>3, HeadTailOfSubSeq
    <3> HIDE DEF n, rest
    <3>2. n = Len(q) \/ blockedBy(q[n + 1], active') # {}
      BY <1>1, <1>5, Zenon DEF Drained
    <3> QED  BY <1>2, <2>1, <3>1, <3>2, Zenon
  <2> HIDE DEF n
  <2> QED  BY <1>1, <1>3, <2>1
<1> QED  BY <1>4, <1>5

\* Whoever is admitted one after the other is within the limits beside all the others.
LEMMA AdmittedWithin ==
  ASSUME TypeOK, NEW q \in Seq(Requests), NEW A \in SUBSET Requests,
         NEW n \in 0..Len(q), \A i \in 1..n : Fits(q[i], A \cup First(q, i - 1))
  PROVE  Within(First(q, n), A \cup First(q, n))
<1> DEFINE Good(i) == Within(First(q, i), A \cup First(q, i))
           T == {i \in 0..n : ~Good(i)}
<1>1. Len(q) \in Nat /\ n \in Nat /\ q \in [1..Len(q) -> Requests] /\ n <= Len(q)
  BY LenProperties
<1>2. Good(0)
  <2>1. First(q, 0) = {}
    BY DEF First
  <2> QED  BY <2>1 DEF Within
<1>3. ASSUME NEW i \in 1..n, Good(i - 1) PROVE Good(i)
  <2>1. q[i] \in Requests /\ A \cup First(q, i - 1) \in SUBSET Requests
    BY <1>1 DEF First
  <2>2. First(q, i) = First(q, i - 1) \cup {q[i]}
    BY <1>1 DEF First
  <2>3. A \cup First(q, i) = (A \cup First(q, i - 1)) \cup {q[i]}
    BY <2>2
  <2>4. Fits(q[i], A \cup First(q, i - 1))
    OBVIOUS
  <2>5. Within(First(q, i - 1) \cup {q[i]}, (A \cup First(q, i - 1)) \cup {q[i]})
    BY <1>3, <2>1, <2>4, WithinOneMore
  <2> QED  BY <2>2, <2>3, <2>5
<1> HIDE DEF Good
<1>4. ASSUME T # {} PROVE FALSE
  <2>1. PICK i \in T : \A j \in T : i <= j
    <3>1. T \in SUBSET Nat
      BY <1>1
    <3> HIDE DEF T
    <3> QED  BY <1>4, <3>1, LeastNatural
  <2>2. i \in 1..n /\ i - 1 \in 0..n /\ i - 1 \notin T
    BY <1>1, <1>2, <2>1
  <2> QED  BY <1>3, <2>1, <2>2
<1>5. Good(n)
  BY <1>1, <1>4
<1> QED  BY <1>5 DEF Good

\* A part of a queue is a queue.
LEMMA RestOfQueue ==
  ASSUME NEW q \in Seq(Requests), NEW n \in 0..Len(q), NEW A, Apart(q, A)
  PROVE  /\ SubSeq(q, n + 1, Len(q)) \in Seq(Requests)
         /\ Apart(SubSeq(q, n + 1, Len(q)), A \cup First(q, n))
         /\ Len(SubSeq(q, n + 1, Len(q))) = Len(q) - n
         /\ \A i \in 1..(Len(q) - n) : SubSeq(q, n + 1, Len(q))[i] = q[n + i]
<1> DEFINE rest == SubSeq(q, n + 1, Len(q))
<1>0. \E m \in Nat : Len(q) = m /\ (n + 1 <= m \/ n = m)
  BY LenProperties
<1>1. Len(q) \in Nat /\ q \in [1..Len(q) -> Requests] /\ n \in Nat /\ n <= Len(q)
  BY LenProperties
<1>2. rest \in Seq(Requests) /\ Len(rest) = Len(q) - n /\ \A i \in 1..(Len(q) - n) : rest[i] = q[n + i]
  <2>1. \A i \in (n + 1)..Len(q) : q[i] \in Requests
    BY <1>1
  <2>2. /\ rest \in Seq(Requests) /\ Len(rest) = IF n + 1 <= Len(q) THEN Len(q) - (n + 1) + 1 ELSE 0
        /\ \A i \in 1..(Len(q) - (n + 1) + 1) : rest[i] = q[n + 1 + i - 1]
    BY <1>1, <2>1, SubSeqProperties
  <2>3. Len(q) - (n + 1) + 1 = Len(q) - n /\ \A i \in 1..(Len(q) - n) : n + 1 + i - 1 = n + i
    BY <1>1
  <2> HIDE DEF rest
  <2>4. Len(rest) = Len(q) - n
    <3>1. Len(rest) = IF n + 1 <= Len(q) THEN Len(q) - (n + 1) + 1 ELSE 0
      BY <2>2
    <3>2. CASE n + 1 <= Len(q)
      BY <1>1, <3>1, <3>2
    <3>3. CASE n = Len(q)
      BY <1>1, <3>1, <3>3
    <3> QED  BY <1>0, <3>2, <3>3
  <2> QED  BY <2>2, <2>3, <2>4
<1> HIDE DEF rest
<1>3. \A i, j \in 1..Len(rest) : rest[i] = rest[j] => i = j
  BY <1>1, <1>2 DEF Apart
<1>4. \A i \in 1..Len(rest) : rest[i] \notin A /\ rest[i] \notin First(q, n)
  BY <1>1, <1>2 DEF Apart, First
<1> QED  BY <1>2, <1>3, <1>4 DEF Apart, rest

\* The two ways to say that the queue and the permits are sound.
LEMMA QueueIsSound ==
  ASSUME queue \in Seq(Requests)
  PROVE  (QueueSound <=> Apart(queue, active)) /\ Queued = {queue[i] : i \in 1..Len(queue)}
  BY LenProperties DEF QueueSound, Apart, Queued

\* The loop, started on a sound queue: it has compared the limits with every permit.
LEMMA LoopKeeps ==
  ASSUME TypeOK, policy' = policy, NEW q \in Seq(Requests), NEW A \in SUBSET Requests, NEW wait,
         NEW woken \in BOOLEAN, DrainLoop(q, A, wait, woken), Apart(q, A), wait \subseteq {q[i] : i \in 1..Len(q)},
         ~policy.hooks => wait = {}
  PROVE  SchedulerInv'
<1>0. PICK len \in Nat : len = Len(q)
  BY LenProperties
<1>1. PICK n \in 0..Len(q) : Drained(q, A, n)
  BY LoopDrains
<1>2. /\ checking' # NoRequest =>
            policy.hooks /\ q # <<>> /\ checking' = Head(q) /\ Head(q) \notin wait /\ Fits(Head(q), A)
      /\ delayed' = wait /\ timer' \in BOOLEAN /\ recovered' = {}
  BY LoopDrains DEF DrainLoop
<1>3. /\ queue' \in Seq(Requests) /\ Apart(queue', active') /\ Len(queue') = Len(q) - n
      /\ \A i \in 1..(Len(q) - n) : queue'[i] = q[n + i]
  BY <1>1, RestOfQueue DEF Drained
<1>4. active' = A \cup First(q, n) /\ active' \in SUBSET Requests
  <2>1. First(q, n) \in SUBSET Requests
    BY LenProperties DEF First
  <2> QED  BY <1>1, <2>1 DEF Drained
<1>5. policy.hooks => queue' = q /\ active' = A
  <2>1. First(q, 0) = {}
    BY DEF First
  <2> QED  BY <1>1, <2>1, SubSeqFull DEF Drained
<1>6. q # <<>> => Head(q) = q[1] /\ q[1] \in Requests /\ 1 \in 1..Len(q)
  BY LenProperties, EmptySeq
<1>7. TypeOK'
  <2>1. delayed' \subseteq {queue'[i] : i \in DOMAIN queue'}
    <3>1. CASE policy.hooks
      BY <1>2, <1>3, <1>5, <3>1, LenProperties
    <3>2. CASE ~policy.hooks
      BY <1>2, <3>2
    <3> QED  BY <3>1, <3>2
  <2>2. checking' \in Requests \cup {NoRequest}
    BY <1>2, <1>6
  <2> QED  BY <1>2, <1>3, <1>4, <2>1, <2>2 DEF TypeOK, Queued
<1>9. QueueSound'
  <2>1. DOMAIN queue' = 1..Len(queue')
    BY <1>3, LenProperties
  <2> QED  BY <1>3, <2>1 DEF QueueSound, Apart
<1>10. CheckSound'
  <2>1. ASSUME checking' # NoRequest
        PROVE  checking' \notin active' \cup delayed' /\ Fits(checking', active' \ {}) /\ policy'.hooks
    <3>1. checking' = q[1] /\ active' = A /\ q[1] \notin wait /\ q[1] \notin A /\ Fits(q[1], A)
      BY <1>2, <1>5, <1>6, <2>1 DEF Apart
    <3>2. A \ {} = A
      OBVIOUS
    <3> QED  BY <1>2, <2>1, <3>1, <3>2
  <2> QED  BY <1>2, <2>1 DEF CheckSound, Fits, Counted
<1>11. HeadBlocked'
  <2>1. ASSUME ~policy.hooks, queue' # <<>> PROVE blockedBy(Head(queue'), active') # {}
    <3>1. n # Len(q) /\ Head(queue') = q[n + 1]
      <4>1. Len(queue') \in Nat \ {0} /\ Head(queue') = queue'[1] /\ n \in 0..len /\ Len(queue') = len - n
        BY <1>0, <1>3, <2>1, EmptySeq
      <4>2. n # len /\ 1 \in 1..(len - n)
        BY <4>1
      <4> QED  BY <1>0, <1>3, <4>1, <4>2
    <3> QED  BY <1>1, <2>1, <3>1 DEF Drained
  <2>2. policy'.hooks = policy.hooks /\ \A r, B : blockedBy(r, B)' = blockedBy(r, B)
    BY DEF blockedBy
  <2> QED  BY <1>2, <2>1, <2>2 DEF HeadBlocked, blockedBy
<1> QED  BY <1>7, <1>9, <1>10, <1>11 DEF SchedulerInv

\* A drain of a queue, with no permit more than there are; during a pressure check it
\* does nothing.
LEMMA DrainKeeps ==
  ASSUME SchedulerInv, policy' = policy, NEW q \in Seq(Requests), NEW A \in SUBSET Requests, NEW wait,
         NEW woken \in BOOLEAN, Drain(q, A, wait, woken), A \subseteq active, Apart(q, A), wait \subseteq {q[i] : i \in 1..Len(q)},
         wait \subseteq delayed, checking \notin A
  PROVE  SchedulerInv'
<1>1. TypeOK /\ CheckSound /\ HeadBlocked
  BY DEF SchedulerInv
<1>2. Counted \in SUBSET Requests
  BY <1>1 DEF TypeOK, Counted
<1>3. A \ (recovered \cap A) \in SUBSET Counted
  BY DEF Counted
<1>4. ~policy.hooks => wait = {}
  BY <1>1 DEF HeadBlocked
<1>5. CASE checking = NoRequest
  BY <1>1, <1>4, <1>5, LoopKeeps DEF Drain
<1>6. CASE checking # NoRequest
  <2>1. /\ queue' = q /\ active' = A /\ delayed' = wait /\ timer' = woken /\ checking' = checking
        /\ recovered' = recovered \cap A
    BY <1>6 DEF Drain
  <2>2. DOMAIN q = 1..Len(q)
    BY LenProperties
  <2>3. TypeOK'
    BY <1>1, <2>1, <2>2 DEF TypeOK, Queued
  <2>5. QueueSound'
    BY <2>1, <2>2 DEF QueueSound, Apart
  <2>6. policy.hooks /\ checking \notin delayed /\ Fits(checking, A \ (recovered \cap A))
    BY <1>1, <1>2, <1>3, <1>6, FitsBesideFewer DEF CheckSound
  <2>7. CheckSound' /\ HeadBlocked'
    BY <2>1, <2>6 DEF CheckSound, HeadBlocked, Fits, Counted
  <2> QED  BY <2>3, <2>5, <2>7 DEF SchedulerInv
<1> QED  BY <1>5, <1>6

-----------------------------------------------------------------------------
(* The invariant, action by action.                                        *)

\* What the invariant says of the queue, in the terms of the lemmas.
LEMMA SoundQueue ==
  ASSUME SchedulerInv
  PROVE  /\ TypeOK /\ queue \in Seq(Requests) /\ active \in SUBSET Requests /\ recovered \in SUBSET active
         /\ timer \in BOOLEAN /\ Apart(queue, active)
         /\ delayed \subseteq {queue[i] : i \in 1..Len(queue)}
         /\ checking # NoRequest => checking \in Requests
         /\ checking \notin active /\ checking \notin delayed
<1>1. queue \in Seq(Requests) /\ TypeOK /\ delayed \subseteq Queued /\ QueueSound /\ NoRequest \notin Requests
  BY RequestsAssumption DEF SchedulerInv, TypeOK
<1>2. Queued \subseteq Requests
  BY <1>1, LenProperties DEF Queued
<1> QED  BY <1>1, <1>2, QueueIsSound DEF SchedulerInv, TypeOK, CheckSound

\* acquire appends a request whose ID is not in use.
LEMMA AcquireKeeps ==
  ASSUME SchedulerInv, NEW r \in Requests, Acquire(r)
  PROVE  SchedulerInv'
<1>1. Drain(Append(queue, r), active, delayed, timer) /\ policy' = policy /\ Unused(r)
  BY DEF Acquire
<1> DEFINE q == Append(queue, r)
<1>2. /\ q \in Seq(Requests) /\ Len(q) = Len(queue) + 1 /\ q[Len(queue) + 1] = r
      /\ \A i \in 1..Len(queue) : q[i] = queue[i]
  BY SoundQueue, AppendProperties
<1>3. r \notin active /\ \A i \in 1..Len(queue) : queue[i] # r
  BY <1>1, SoundQueue, QueueIsSound DEF Unused
<1>4. PICK len \in Nat : len = Len(queue)
  BY SoundQueue, LenProperties
<1> HIDE DEF q
<1>5. Apart(q, active)
  <2>1. \A i \in 1..(len + 1) : i \in 1..len \/ i = len + 1
    OBVIOUS
  <2> QED  BY <1>2, <1>3, <1>4, <2>1, SoundQueue DEF Apart
<1>6. delayed \subseteq {q[i] : i \in 1..Len(q)}
  <2>1. \A i \in 1..len : i \in 1..(len + 1)
    OBVIOUS
  <2>2. \A i \in 1..Len(queue) : i \in 1..Len(q) /\ q[i] = queue[i]
    BY <1>2, <1>4, <2>1
  <2> QED  BY <2>2, SoundQueue
<1>7. Drain(q, active, delayed, timer)
  BY <1>1 DEF q
<1> QED  BY <1>1, <1>2, <1>5, <1>6, <1>7, SoundQueue, DrainKeeps

\* acquireExisting adds a permit that the last comparison did not see.
LEMMA AcquireExistingKeeps ==
  ASSUME SchedulerInv, NEW r \in Requests, AcquireExisting(r)
  PROVE  SchedulerInv'
<1>1. /\ Unused(r) /\ active' = active \cup {r} /\ recovered' = recovered \cup {r}
      /\ UNCHANGED <<policy, queue, checking, delayed, timer>>
  BY DEF AcquireExisting
<1>2. /\ TypeOK /\ QueueSound /\ CheckSound /\ HeadBlocked
      /\ Counted \in SUBSET Requests /\ Counted' \in SUBSET Counted
  BY <1>1 DEF SchedulerInv, TypeOK, Counted
<1>3. r \notin active /\ (\A i \in DOMAIN queue : queue[i] # r) /\ r # checking
  BY <1>1 DEF Unused, Queued
<1>4. TypeOK'
  BY <1>1, <1>2 DEF TypeOK, Queued
<1>6. QueueSound'
  BY <1>1, <1>2, <1>3 DEF QueueSound
<1>7. CheckSound'
  <2>1. checking # NoRequest => Fits(checking, Counted')
    BY <1>2, FitsBesideFewer DEF CheckSound
  <2> QED  BY <1>1, <1>2, <1>3, <2>1 DEF CheckSound, Fits, Counted
<1>8. HeadBlocked'
  <2>1. ASSUME NEW h, blockedBy(h, active) # {} PROVE blockedBy(h, active') # {}
    <3>1. active' \in SUBSET Requests /\ active \in SUBSET active'
      BY <1>1, <1>2 DEF TypeOK
    <3>2. ~Fits(h, active)
      BY <1>2, <2>1, <3>1, NotBlocked
    <3>3. ~Fits(h, active')
      BY <1>2, <3>1, <3>2, FitsBesideFewer
    <3> QED  BY <1>2, <3>1, <3>3, NotBlocked
  <2> QED  BY <1>1, <1>2, <2>1 DEF HeadBlocked, blockedBy
<1> QED  BY <1>4, <1>6, <1>7, <1>8 DEF SchedulerInv

\* A permit is released.
LEMMA ReleaseKeeps ==
  ASSUME SchedulerInv, NEW r \in Requests, Release(r)
  PROVE  SchedulerInv'
<1>1. Drain(queue, active \ {r}, delayed, timer) /\ policy' = policy
  BY DEF Release
<1>2. active \ {r} \in SUBSET Requests /\ active \ {r} \subseteq active
  BY SoundQueue
<1>3. Apart(queue, active \ {r})
  BY SoundQueue DEF Apart
<1> QED  BY <1>1, <1>2, <1>3, SoundQueue, DrainKeeps

\* What splice leaves of a queue.
LEMMA SplicedQueue ==
  ASSUME NEW q \in Seq(Requests), NEW i \in 1..Len(q)
  PROVE  /\ RemoveAt(q, i) \in Seq(Requests) /\ Len(RemoveAt(q, i)) = Len(q) - 1
         /\ \A j \in 1..(Len(q) - 1) : RemoveAt(q, i)[j] = IF j < i THEN q[j] ELSE q[j + 1]
<1>1. PICK len \in Nat : len = Len(q)
  BY LenProperties
<1>2. q \in [1..len -> Requests] /\ i \in 1..len
  BY <1>1, LenProperties
<1> DEFINE a == SubSeq(q, 1, i - 1)
           b == SubSeq(q, i + 1, len)
<1>3. a \in Seq(Requests) /\ Len(a) = i - 1 /\ \A j \in 1..(i - 1) : a[j] = q[j]
  <2>1. i - 1 \in Int /\ 1 \in Int /\ \A j \in 1..(i - 1) : q[j] \in Requests
    BY <1>2
  <2>2. /\ a \in Seq(Requests) /\ Len(a) = IF 1 <= i - 1 THEN (i - 1) - 1 + 1 ELSE 0
        /\ \A j \in 1..((i - 1) - 1 + 1) : a[j] = q[1 + j - 1]
    BY <2>1, SubSeqProperties
  <2> HIDE DEF a
  <2>3. (i - 1) - 1 + 1 = i - 1 /\ \A j \in 1..(i - 1) : 1 + j - 1 = j
    BY <1>2
  <2>4. Len(a) = i - 1
    BY <1>2, <2>2
  <2> QED  BY <2>2, <2>3, <2>4
<1>4. b \in Seq(Requests) /\ Len(b) = len - i /\ \A j \in 1..(len - i) : b[j] = q[i + j]
  <2>1. i + 1 \in Int /\ len \in Int /\ \A j \in (i + 1)..len : q[j] \in Requests
    BY <1>2
  <2>2. /\ b \in Seq(Requests) /\ Len(b) = IF i + 1 <= len THEN len - (i + 1) + 1 ELSE 0
        /\ \A j \in 1..(len - (i + 1) + 1) : b[j] = q[i + 1 + j - 1]
    BY <2>1, SubSeqProperties
  <2> HIDE DEF b
  <2>3. len - (i + 1) + 1 = len - i /\ \A j \in 1..(len - i) : i + 1 + j - 1 = i + j
    BY <1>2
  <2>4. Len(b) = len - i
    BY <1>2, <2>2
  <2> QED  BY <2>2, <2>3, <2>4
<1>5. RemoveAt(q, i) = a \o b
  BY <1>1 DEF RemoveAt
<1> HIDE DEF a, b
<1>6. /\ a \o b \in Seq(Requests) /\ Len(a \o b) = Len(a) + Len(b)
      /\ \A j \in 1..(Len(a) + Len(b)) : (a \o b)[j] = IF j <= Len(a) THEN a[j] ELSE b[j - Len(a)]
  BY <1>3, <1>4, ConcatProperties
<1>7. (i - 1) + (len - i) = len - 1
  BY <1>2
<1>8. ASSUME NEW j \in 1..(len - 1) PROVE (a \o b)[j] = IF j < i THEN q[j] ELSE q[j + 1]
  <2>1. (a \o b)[j] = IF j <= i - 1 THEN a[j] ELSE b[j - (i - 1)]
    BY <1>3, <1>4, <1>6, <1>7
  <2>2. CASE j < i
    BY <1>2, <1>3, <2>1, <2>2
  <2>3. CASE ~(j < i)
    <3>1. ~(j <= i - 1) /\ j - (i - 1) \in 1..(len - i) /\ i + (j - (i - 1)) = j + 1
      BY <1>2, <2>3
    <3> QED  BY <1>4, <2>1, <2>3, <3>1
  <2> QED  BY <2>2, <2>3
<1> QED  BY <1>1, <1>3, <1>4, <1>5, <1>6, <1>7, <1>8

\* A queued request is aborted and goes.
LEMMA AbortKeeps ==
  ASSUME SchedulerInv, NEW r \in Requests, Abort(r)
  PROVE  SchedulerInv'
<1>1. PICK i \in DOMAIN queue : queue[i] = r /\ Drain(RemoveAt(queue, i), active, delayed \ {r}, FALSE)
  BY DEF Abort
<1>2. PICK len \in Nat : len = Len(queue)
  BY SoundQueue, LenProperties
<1>3. i \in 1..len /\ i \in 1..Len(queue) /\ queue \in Seq(Requests)
  BY <1>2, SoundQueue, LenProperties
<1> DEFINE q == RemoveAt(queue, i)
<1>4. /\ q \in Seq(Requests) /\ Len(q) = len - 1
      /\ \A j \in 1..(len - 1) : q[j] = IF j < i THEN queue[j] ELSE queue[j + 1]
  BY <1>2, <1>3, SplicedQueue
<1> HIDE DEF q
<1>5. Apart(q, active)
  <2>1. \A j \in 1..(len - 1) : j \in 1..len /\ j + 1 \in 1..len
    OBVIOUS
  <2>2. ASSUME NEW j \in 1..(len - 1), NEW k \in 1..(len - 1), q[j] = q[k] PROVE j = k
    BY <1>2, <1>3, <1>4, <2>1, <2>2, SoundQueue DEF Apart
  <2> QED  BY <1>2, <1>4, <2>1, <2>2, SoundQueue DEF Apart
<1>6. delayed \ {r} \subseteq {q[j] : j \in 1..Len(q)}
  <2>1. ASSUME NEW j \in 1..len, queue[j] # r PROVE \E k \in 1..(len - 1) : q[k] = queue[j]
    <3>1. CASE j < i
      <4>1. j \in 1..(len - 1)
        BY <1>3, <3>1
      <4> QED  BY <1>4, <3>1, <4>1
    <3>2. CASE j > i
      <4>1. j - 1 \in 1..(len - 1) /\ ~(j - 1 < i) /\ (j - 1) + 1 = j
        BY <1>3, <3>2
      <4> QED  BY <1>4, <4>1
    <3> QED  BY <1>1, <1>3, <2>1, <3>1, <3>2
  <2> QED  BY <1>2, <1>4, <2>1, SoundQueue
<1>7. Drain(q, active, delayed \ {r}, FALSE) /\ policy' = policy
  BY <1>1 DEF q, Abort
<1> QED  BY <1>4, <1>5, <1>6, <1>7, SoundQueue, DrainKeeps

\* The head that was checked is the first of the queue.
LEMMA CheckedHead ==
  ASSUME SchedulerInv, checking # NoRequest, queue # <<>>, Head(queue) = checking
  PROVE  /\ Tail(queue) \in Seq(Requests) /\ Apart(Tail(queue), active \cup {checking})
         /\ delayed \subseteq {Tail(queue)[i] : i \in 1..Len(Tail(queue))}
         /\ checking = queue[1] /\ 1 \in 1..Len(queue)
<1>1. PICK len \in Nat : len = Len(queue)
  BY SoundQueue, LenProperties
<1>2. checking = queue[1] /\ 1 \in 0..len /\ 1 \in 1..len /\ Tail(queue) = SubSeq(queue, 2, Len(queue))
  BY <1>1, SoundQueue, EmptySeq, TailIsSubSeq
<1>3. First(queue, 1) = {checking}
  BY <1>2 DEF First
<1>4. /\ Tail(queue) \in Seq(Requests) /\ Apart(Tail(queue), active \cup {checking})
      /\ Len(Tail(queue)) = len - 1 /\ \A i \in 1..(len - 1) : Tail(queue)[i] = queue[1 + i]
  <2> DEFINE one == 1
  <2>1. one \in 0..Len(queue) /\ one + 1 = 2 /\ First(queue, one) = {checking}
    BY <1>1, <1>2, <1>3
  <2> HIDE DEF one
  <2>2. /\ SubSeq(queue, one + 1, Len(queue)) \in Seq(Requests)
        /\ Apart(SubSeq(queue, one + 1, Len(queue)), active \cup First(queue, one))
        /\ Len(SubSeq(queue, one + 1, Len(queue))) = Len(queue) - one
        /\ \A i \in 1..(Len(queue) - one) : SubSeq(queue, one + 1, Len(queue))[i] = queue[one + i]
    BY <2>1, SoundQueue, RestOfQueue
  <2> QED  BY <1>1, <1>2, <2>1, <2>2 DEF one
<1>5. ASSUME NEW d \in delayed PROVE \E i \in 1..(len - 1) : Tail(queue)[i] = d
  <2>1. PICK i \in 1..len : queue[i] = d
    BY <1>1, SoundQueue
  <2>2. i # 1
    BY <1>2, <2>1, SoundQueue
  <2>3. i - 1 \in 1..(len - 1) /\ 1 + (i - 1) = i
    BY <2>2
  <2> QED  BY <1>4, <2>1, <2>3
<1> QED  BY <1>1, <1>2, <1>4, <1>5

\* The pressure check ends.
LEMMA CheckedKeeps ==
  ASSUME SchedulerInv, NEW ready \in BOOLEAN, Checked(ready)
  PROVE  SchedulerInv'
<1>1. /\ checking # NoRequest /\ policy' = policy /\ policy.hooks
      /\ checking \in Requests /\ checking \notin active
  BY SoundQueue DEF Checked, SchedulerInv, CheckSound
<1> DEFINE head == queue # <<>> /\ Head(queue) = checking
<1>3. ASSUME DrainLoop(queue, active, delayed, timer) PROVE SchedulerInv'
  BY <1>1, <1>3, SoundQueue, LoopKeeps
<1>4. ASSUME head, DrainLoop(Tail(queue), active, delayed, timer) PROVE SchedulerInv'
  <2>1. Apart(Tail(queue), active)
    BY <1>1, <1>4, CheckedHead DEF Apart
  <2> QED  BY <1>1, <1>4, <2>1, CheckedHead, SoundQueue, LoopKeeps
<1>5. ASSUME head, DrainLoop(Tail(queue), active \cup {checking}, delayed, timer) PROVE SchedulerInv'
  <2>1. active \cup {checking} \in SUBSET Requests
    BY <1>1, SoundQueue
  <2> QED  BY <1>1, <1>5, <2>1, CheckedHead, SoundQueue, LoopKeeps
<1>6. ASSUME head, delayed' = delayed \cup {checking}, timer' = TRUE, checking' = NoRequest,
             UNCHANGED <<queue, active, recovered>>
      PROVE  SchedulerInv'
  <2>1. /\ TypeOK /\ QueueSound /\ DOMAIN queue = 1..Len(queue) /\ checking = queue[1]
        /\ 1 \in 1..Len(queue)
    BY <1>1, <1>6, CheckedHead, SoundQueue, LenProperties DEF SchedulerInv
  <2>2. TypeOK' /\ QueueSound'
    BY <1>1, <1>6, <2>1 DEF TypeOK, Queued, QueueSound
  <2>3. CheckSound' /\ HeadBlocked'
    BY <1>1, <1>6 DEF CheckSound, HeadBlocked
  <2> QED  BY <2>2, <2>3 DEF SchedulerInv
<1> QED  BY <1>3, <1>4, <1>5, <1>6 DEF Checked

\* When the check admits anybody, it is the head that was checked, and nobody else.
LEMMA CheckedHeadOnly ==
  ASSUME SchedulerInv, NEW ready \in BOOLEAN, Checked(ready), NEW r \in active' \ active
  PROVE  queue # <<>> /\ Head(queue) = checking /\ active' = active \cup {checking}
<1>1. checking # NoRequest /\ policy.hooks /\ checking \in Requests
  BY SoundQueue DEF Checked, SchedulerInv, CheckSound
<1>2. ASSUME NEW q \in Seq(Requests), NEW A \in SUBSET Requests, DrainLoop(q, A, delayed, timer)
      PROVE  active' = A
  <2>1. PICK n \in 0..Len(q) : Drained(q, A, n)
    BY <1>2, SoundQueue, LoopDrains
  <2>2. active' = A \cup First(q, 0) /\ First(q, 0) = {}
    BY <1>1, <2>1 DEF Drained, First
  <2> QED  BY <2>2
<1> DEFINE head == queue # <<>> /\ Head(queue) = checking
<1>3. head => Tail(queue) \in Seq(Requests)
  BY <1>1, CheckedHead
<1>4. active \cup {checking} \in SUBSET Requests
  BY <1>1, SoundQueue
<1> QED  BY <1>2, <1>3, <1>4, SoundQueue DEF Checked

\* A delay runs out, or the wake timer fires.
LEMMA WaitKeeps ==
  ASSUME SchedulerInv, TimerFires \/ \E r \in Requests : Elapse(r)
  PROVE  SchedulerInv'
<1>1. CASE TimerFires
  BY <1>1, SoundQueue, DrainKeeps DEF TimerFires
<1>2. ASSUME NEW r \in Requests, Elapse(r) PROVE SchedulerInv'
  BY <1>2 DEF Elapse, SchedulerInv, TypeOK, Queued, QueueSound, CheckSound, HeadBlocked,
     Fits, Counted, blockedBy
<1> QED  BY <1>1, <1>2

\* A new scheduler has no requests.
LEMMA InitIsSound == Init => SchedulerInv
<1> SUFFICES ASSUME Init PROVE SchedulerInv
  OBVIOUS
<1>1. queue = <<>> /\ active = {} /\ recovered = {} /\ checking = NoRequest /\ delayed = {} /\ timer = FALSE
      /\ policy \in Policies
  BY DEF Init
<1>2. <<>> \in Seq(Requests) /\ DOMAIN <<>> = {}
  OBVIOUS
<1>3. TypeOK
  BY <1>1, <1>2 DEF TypeOK
<1> QED
  BY <1>1, <1>2, <1>3 DEF SchedulerInv, QueueSound, CheckSound, HeadBlocked

\* Every step keeps the invariant.
LEMMA StepIsSound == SchedulerInv /\ [Next]_vars => SchedulerInv'
<1> SUFFICES ASSUME SchedulerInv, [Next]_vars PROVE SchedulerInv'
  OBVIOUS
<1>1. CASE UNCHANGED vars
  BY <1>1 DEF vars, SchedulerInv, TypeOK, Queued, QueueSound, CheckSound, HeadBlocked,
     Fits, Counted, blockedBy
<1> QED
  BY <1>1, RequestsAssumption, AcquireKeeps, AcquireExistingKeeps, ReleaseKeeps, AbortKeeps, CheckedKeeps,
     WaitKeeps DEF Next

\* The invariant holds in every state a scheduler can reach.
LEMMA SchedulerInvariant == Spec => []SchedulerInv
  BY InitIsSound, StepIsSound, PTL DEF Spec

\* A drain gives its permits within the limits, and none during a pressure check.
LEMMA DrainWithin ==
  ASSUME SchedulerInv, NEW q \in Seq(Requests), NEW A \in SUBSET active, NEW wait, NEW woken \in BOOLEAN,
         Drain(q, A, wait, woken), NEW r \in active' \ active
  PROVE  Within({r}, active' \ Unseen)
<1>1. checking = NoRequest
  BY DEF Drain
<1>2. TypeOK /\ A \in SUBSET Requests /\ DrainLoop(q, A, wait, woken)
  BY <1>1, SoundQueue DEF Drain
<1>3. PICK n \in 0..Len(q) : Drained(q, A, n)
  BY <1>2, LoopDrains
<1>4. Within(First(q, n), A \cup First(q, n))
  BY <1>2, <1>3, AdmittedWithin DEF Drained
<1>5. active' = A \cup First(q, n) /\ active' \ Unseen = active'
  BY <1>1, <1>3 DEF Drained, Unseen
<1> QED  BY <1>4, <1>5 DEF Within

\* The head of the queue still fits when its check ends, but for the runs recovered
\* meanwhile.
LEMMA CheckedWithin ==
  ASSUME SchedulerInv, NEW ready \in BOOLEAN, Checked(ready), NEW r \in active' \ active
  PROVE  Within({r}, active' \ Unseen)
<1>1. /\ TypeOK /\ checking # NoRequest /\ policy.hooks /\ Fits(checking, Counted) /\ checking \in Requests
      /\ checking \notin active /\ recovered \subseteq active /\ Counted \in SUBSET Requests
  BY SoundQueue DEF Checked, SchedulerInv, CheckSound, Counted
<1>2. active' = active \cup {checking}
  BY CheckedHeadOnly
<1>3. active' \ Unseen = Counted \cup {checking} /\ r = checking
  BY <1>1, <1>2 DEF Unseen, Counted
<1>4. Within({}, Counted)
  BY DEF Within
<1>5. Within({} \cup {checking}, Counted \cup {checking})
  BY <1>1, <1>4, WithinOneMore
<1>6. {} \cup {checking} = {r}
  BY <1>3
<1> QED  BY <1>3, <1>5, <1>6

\* Every variable keeps its type, and a permit that drain gives is within every limit
\* of the policy, although it is given after an await, beside every permit but those of
\* the runs recovered in that await: for every number of requests and every policy.
THEOREM LimitsAlwaysHold == Spec => []TypeOK /\ LimitsHold
<1>1. ASSUME SchedulerInv, Next, NEW r \in active' \ (active \cup recovered')
      PROVE  Within({r}, active' \ Unseen)
  <2>1. r \in active' \ active /\ r \notin recovered' /\ active \in SUBSET active
    BY <1>1
  <2>2. ASSUME NEW n \in Requests, Acquire(n) PROVE Within({r}, active' \ Unseen)
    <3>1. Drain(Append(queue, n), active, delayed, timer) /\ Append(queue, n) \in Seq(Requests)
      BY <1>1, <2>2, SoundQueue, AppendProperties DEF Acquire
    <3> QED  BY <1>1, <2>1, <3>1, SoundQueue, DrainWithin
  <2>3. ASSUME NEW n \in Requests, AcquireExisting(n) PROVE FALSE
    BY <2>1, <2>3 DEF AcquireExisting
  <2>4. ASSUME NEW n \in Requests, Release(n) PROVE Within({r}, active' \ Unseen)
    <3>1. Drain(queue, active \ {n}, delayed, timer) /\ active \ {n} \in SUBSET active
      BY <2>4 DEF Release
    <3>2. queue \in Seq(Requests) /\ timer \in BOOLEAN
      BY <1>1, SoundQueue
    <3>3. PICK A \in SUBSET active : A = active \ {n} /\ Drain(queue, A, delayed, timer)
      BY <3>1
    <3> QED  BY <1>1, <2>1, <3>2, <3>3, DrainWithin
  <2>5. ASSUME NEW n \in Requests, Abort(n) PROVE Within({r}, active' \ Unseen)
    <3>1. PICK i \in DOMAIN queue : Drain(RemoveAt(queue, i), active, delayed \ {n}, FALSE)
      BY <2>5 DEF Abort
    <3>2. i \in 1..Len(queue) /\ RemoveAt(queue, i) \in Seq(Requests)
      BY <1>1, SoundQueue, LenProperties, SplicedQueue
    <3> QED  BY <1>1, <2>1, <3>1, <3>2, DrainWithin
  <2>6. ASSUME NEW n \in Requests, Elapse(n) PROVE FALSE
    BY <2>1, <2>6 DEF Elapse
  <2>7. ASSUME NEW ready \in BOOLEAN, Checked(ready) PROVE Within({r}, active' \ Unseen)
    BY <1>1, <2>1, <2>7, CheckedWithin
  <2>8. CASE TimerFires
    BY <1>1, <2>1, <2>8, SoundQueue, DrainWithin DEF TimerFires
  <2> QED  BY <1>1, <2>2, <2>3, <2>4, <2>5, <2>6, <2>7, <2>8, RequestsAssumption DEF Next
<1>2. SchedulerInv /\ [Next]_vars =>
        [\A r \in active' \ (active \cup recovered'), key \in ScopeKeys :
            Cardinality(sharing(r, key, active' \ Unseen)) <= policy.limit[key]]_vars
  BY <1>1 DEF Within
<1>3. SchedulerInv => TypeOK
  BY DEF SchedulerInv
<1> QED  BY <1>2, <1>3, SchedulerInvariant, PTL DEF Spec, LimitsHold

-----------------------------------------------------------------------------
(* The order of admission.                                                 *)

\* Whoever a drain admits was in its queue, with everyone before it; the rest stays.
LEMMA AdmittedInOrder ==
  ASSUME SchedulerInv, NEW q \in Seq(Requests), NEW A \in SUBSET active, NEW wait, NEW woken \in BOOLEAN,
         Apart(q, A), Drain(q, A, wait, woken)
  PROVE  /\ \A r \in active' \ active : \E m \in 1..Len(q) :
              /\ r = q[m] /\ ~policy.hooks /\ Fits(q[1], A)
              /\ \A k \in 1..m : \A j \in DOMAIN queue' : queue'[j] # q[k]
         /\ \A j \in DOMAIN queue' : \E k \in 1..Len(q) : queue'[j] = q[k]
<1>1. PICK len \in Nat : len = Len(q)
  BY LenProperties
<1>2. CASE checking # NoRequest
  BY <1>2, LenProperties DEF Drain
<1>3. CASE checking = NoRequest
  <2>1. TypeOK /\ A \in SUBSET Requests /\ DrainLoop(q, A, wait, woken)
    BY <1>3, SoundQueue DEF Drain
  <2>2. PICK n \in 0..Len(q) : Drained(q, A, n)
    BY <2>1, LoopDrains
  <2>3. /\ queue' \in Seq(Requests) /\ Apart(queue', A \cup First(q, n)) /\ Len(queue') = Len(q) - n
        /\ \A i \in 1..(Len(q) - n) : queue'[i] = q[n + i]
    BY <2>2, RestOfQueue DEF Drained
  <2>4. DOMAIN queue' = 1..Len(queue') /\ active' = A \cup First(q, n) /\ n \in 0..len
    BY <1>1, <2>2, <2>3, LenProperties DEF Drained
  <2>5. ASSUME NEW r \in active' \ active
        PROVE  \E m \in 1..Len(q) : /\ r = q[m] /\ ~policy.hooks /\ Fits(q[1], A)
                                    /\ \A k \in 1..m : \A j \in DOMAIN queue' : queue'[j] # q[k]
    <3>1. PICK m \in 1..n : r = q[m]
      BY <2>4 DEF First
    <3>2. m \in 1..len /\ n # 0 /\ 1 \in 1..n
      BY <2>4
    <3>3. ~policy.hooks
      BY <2>2, <3>2 DEF Drained
    <3>4. Fits(q[1], A)
      <4>1. First(q, 1 - 1) = {}
        BY DEF First
      <4>2. Fits(q[1], A \cup First(q, 1 - 1))
        BY <2>2, <3>2 DEF Drained
      <4> QED  BY <4>1, <4>2
    <3>5. \A k \in 1..m : q[k] \in First(q, n)
      BY <2>4 DEF First
    <3>6. \A k \in 1..m : \A j \in DOMAIN queue' : queue'[j] # q[k]
      BY <2>3, <2>4, <3>5 DEF Apart
    <3> QED  BY <1>1, <3>1, <3>2, <3>3, <3>4, <3>6
  <2>6. ASSUME NEW j \in DOMAIN queue' PROVE \E k \in 1..Len(q) : queue'[j] = q[k]
    <3>1. j \in 1..(len - n) /\ n + j \in 1..len
      BY <1>1, <2>3, <2>4
    <3> QED  BY <1>1, <2>3, <3>1
  <2> QED  BY <2>5, <2>6
<1> QED  BY <1>2, <1>3

\* Nobody is overtaken by r.
InTurn(r) ==
    /\ r \in Queued \/ queue = <<>>
    /\ \A i \in DOMAIN queue : (\A j \in 1..i : queue[j] # r) => queue[i] \notin Queued'

\* A drain of the queue as it is admits in turn.
LEMMA DrainInTurn ==
  ASSUME SchedulerInv, NEW A \in SUBSET active, NEW wait, NEW woken \in BOOLEAN,
         Drain(queue, A, wait, woken), NEW r \in active' \ active
  PROVE  InTurn(r)
<1>1. queue \in Seq(Requests) /\ Apart(queue, A) /\ DOMAIN queue = 1..Len(queue) /\ Len(queue) \in Nat
  BY SoundQueue, LenProperties DEF Apart
<1>2. PICK m \in 1..Len(queue) : /\ r = queue[m]
                                 /\ \A k \in 1..m : \A j \in DOMAIN queue' : queue'[j] # queue[k]
  BY <1>1, AdmittedInOrder
<1>3. ASSUME NEW i \in 1..Len(queue), \A j \in 1..i : queue[j] # r PROVE i \in 1..m
  BY <1>1, <1>2, <1>3
<1> QED  BY <1>1, <1>2, <1>3 DEF InTurn, Queued

\* A new request is admitted at once only into an empty queue.
LEMMA AcquireInTurn ==
  ASSUME SchedulerInv, NEW n \in Requests, Acquire(n), NEW r \in active' \ active
  PROVE  InTurn(r)
<1>1. Drain(Append(queue, n), active, delayed, timer) /\ Unused(n)
  BY DEF Acquire
<1> DEFINE q == Append(queue, n)
<1>2. PICK len \in Nat : len = Len(queue)
  BY SoundQueue, LenProperties
<1>3. q \in Seq(Requests) /\ Len(q) = len + 1 /\ q[len + 1] = n /\ \A i \in 1..len : q[i] = queue[i]
  BY <1>2, SoundQueue, AppendProperties
<1>4. n \notin active /\ \A i \in 1..len : queue[i] # n
  BY <1>1, <1>2, SoundQueue, QueueIsSound DEF Unused
<1>5. Drain(q, active, delayed, timer)
  BY <1>1
<1> HIDE DEF q
<1>6. Apart(q, active)
  <2>1. \A i \in 1..(len + 1) : i \in 1..len \/ i = len + 1
    OBVIOUS
  <2> QED  BY <1>2, <1>3, <1>4, <2>1, SoundQueue DEF Apart
<1>7. ~policy.hooks /\ Fits(q[1], active)
  BY <1>3, <1>5, <1>6, SoundQueue, AdmittedInOrder
<1>8. queue = <<>>
  <2>1. ASSUME queue # <<>> PROVE FALSE
    <3>1. Head(queue) = queue[1] /\ 1 \in 1..len
      BY <1>2, <2>1, SoundQueue, EmptySeq
    <3>2. Fits(Head(queue), active)
      BY <1>3, <1>7, <3>1
    <3>3. blockedBy(Head(queue), active) = {}
      BY <3>2, SoundQueue, NotBlocked
    <3> QED  BY <1>7, <2>1, <3>3 DEF SchedulerInv, HeadBlocked
  <2> QED  BY <2>1
<1> QED  BY <1>8 DEF InTurn

\* An abort lets those behind it come, in turn.
LEMMA AbortInTurn ==
  ASSUME SchedulerInv, NEW a \in Requests, Abort(a), NEW r \in active' \ active
  PROVE  InTurn(r)
<1>1. PICK x \in DOMAIN queue : queue[x] = a /\ Drain(RemoveAt(queue, x), active, delayed \ {a}, FALSE)
  BY DEF Abort
<1>2. PICK len \in Nat : len = Len(queue)
  BY SoundQueue, LenProperties
<1>3. x \in 1..len /\ x \in 1..Len(queue) /\ queue \in Seq(Requests) /\ DOMAIN queue = 1..len
  BY <1>1, <1>2, SoundQueue, LenProperties
<1> DEFINE q == RemoveAt(queue, x)
<1>4. /\ q \in Seq(Requests) /\ Len(q) = len - 1
      /\ \A j \in 1..(len - 1) : q[j] = IF j < x THEN queue[j] ELSE queue[j + 1]
  BY <1>2, <1>3, SplicedQueue
<1>5. PICK woken \in BOOLEAN : Drain(q, active, delayed \ {a}, woken)
  BY <1>1
<1> HIDE DEF q
<1>6. \A i, j \in 1..len : queue[i] = queue[j] => i = j
  BY <1>2, SoundQueue DEF Apart
<1>7. Apart(q, active)
  <2>1. \A j \in 1..(len - 1) : j \in 1..len /\ j + 1 \in 1..len
    OBVIOUS
  <2>2. ASSUME NEW j \in 1..(len - 1), NEW k \in 1..(len - 1), q[j] = q[k] PROVE j = k
    BY <1>3, <1>4, <1>6, <2>1, <2>2
  <2> QED  BY <1>2, <1>4, <2>1, <2>2, SoundQueue DEF Apart
<1>8. /\ \E m \in 1..Len(q) : /\ r = q[m]
                              /\ \A k \in 1..m : \A j \in DOMAIN queue' : queue'[j] # q[k]
      /\ \A j \in DOMAIN queue' : \E k \in 1..Len(q) : queue'[j] = q[k]
  <2>1. active \in SUBSET active
    OBVIOUS
  <2> QED  BY <1>4, <1>5, <1>7, <2>1, AdmittedInOrder
<1>9. PICK m \in 1..(len - 1) : r = q[m] /\ \A k \in 1..m : \A j \in DOMAIN queue' : queue'[j] # q[k]
  BY <1>4, <1>8
<1>10. PICK p \in 1..len : r = queue[p] /\ p = IF m < x THEN m ELSE m + 1
  BY <1>4, <1>9
<1>11. ASSUME NEW i \in 1..len, \A j \in 1..i : queue[j] # r, NEW j \in DOMAIN queue'
       PROVE  queue'[j] # queue[i]
  <2>1. i < p
    BY <1>10, <1>11
  <2>2. CASE i = x
    <3>1. PICK k \in 1..(len - 1) : queue'[j] = q[k]
      BY <1>4, <1>8
    <3>2. q[k] # queue[x]
      BY <1>3, <1>4, <1>6
    <3> QED  BY <2>2, <3>1, <3>2
  <2>3. CASE i < x
    <3>1. i \in 1..m /\ i \in 1..(len - 1)
      BY <1>3, <1>10, <2>1, <2>3
    <3>2. q[i] = queue[i]
      BY <1>4, <2>3, <3>1
    <3> QED  BY <1>9, <3>1, <3>2
  <2>4. CASE i > x
    <3>1. i - 1 \in 1..m /\ i - 1 \in 1..(len - 1) /\ ~(i - 1 < x) /\ (i - 1) + 1 = i
      BY <1>3, <1>10, <2>1, <2>4
    <3>2. q[i - 1] = queue[i]
      BY <1>4, <3>1
    <3> QED  BY <1>9, <3>1, <3>2
  <2> QED  BY <1>3, <2>2, <2>3, <2>4
<1> QED  BY <1>3, <1>10, <1>11 DEF InTurn, Queued

\* The end of a pressure check admits the head or nobody.
LEMMA CheckedInTurn ==
  ASSUME SchedulerInv, NEW ready \in BOOLEAN, Checked(ready), NEW r \in active' \ active
  PROVE  InTurn(r)
<1>1. checking # NoRequest /\ policy.hooks /\ checking \in Requests
  BY SoundQueue DEF Checked, SchedulerInv, CheckSound
<1>2. queue # <<>> /\ Head(queue) = checking /\ active' = active \cup {checking}
  BY CheckedHeadOnly
<1>3. checking = queue[1] /\ 1 \in 1..Len(queue)
  BY <1>1, <1>2, CheckedHead
<1>5. r = queue[1] /\ DOMAIN queue = 1..Len(queue) /\ 1 \in 1..Len(queue)
  BY <1>2, <1>3, SoundQueue, LenProperties
<1>6. \A i \in DOMAIN queue : 1 \in 1..i
  BY <1>5, SoundQueue, LenProperties
<1> QED  BY <1>5, <1>6 DEF InTurn, Queued

\* Permits are given in the order of the queue: NobodyIsOvertaken holds of every
\* behaviour of a scheduler.
THEOREM NobodyIsEverOvertaken == Spec => NobodyIsOvertaken
<1>1. ASSUME SchedulerInv, Next, NEW r \in active' \ (active \cup recovered')
      PROVE  InTurn(r)
  <2>1. r \in active' \ active /\ r \notin recovered' /\ active \in SUBSET active
    BY <1>1
  <2>2. ASSUME NEW n \in Requests, Acquire(n) PROVE InTurn(r)
    BY <1>1, <2>1, <2>2, AcquireInTurn
  <2>3. ASSUME NEW n \in Requests, AcquireExisting(n) PROVE InTurn(r)
    BY <2>1, <2>3 DEF AcquireExisting
  <2>4. ASSUME NEW n \in Requests, Release(n) PROVE InTurn(r)
    <3>1. Drain(queue, active \ {n}, delayed, timer) /\ active \ {n} \in SUBSET active
      BY <2>4 DEF Release
    <3> QED  BY <1>1, <2>1, <3>1, SoundQueue, DrainInTurn
  <2>5. ASSUME NEW n \in Requests, Abort(n) PROVE InTurn(r)
    BY <1>1, <2>1, <2>5, AbortInTurn
  <2>6. ASSUME NEW n \in Requests, Elapse(n) PROVE InTurn(r)
    BY <2>1, <2>6 DEF Elapse
  <2>7. ASSUME NEW ready \in BOOLEAN, Checked(ready) PROVE InTurn(r)
    BY <1>1, <2>1, <2>7, CheckedInTurn
  <2>8. CASE TimerFires
    BY <1>1, <2>1, <2>8, DrainInTurn DEF TimerFires
  <2> QED  BY <1>1, <2>2, <2>3, <2>4, <2>5, <2>6, <2>7, <2>8, RequestsAssumption DEF Next
<1>2. SchedulerInv /\ [Next]_vars =>
        [\A r \in active' \ (active \cup recovered') :
            /\ r \in Queued \/ queue = <<>>
            /\ \A i \in DOMAIN queue : (\A j \in 1..i : queue[j] # r) => queue[i] \notin Queued']_vars
  BY <1>1 DEF InTurn
<1> QED  BY <1>2, SchedulerInvariant, PTL DEF Spec, NobodyIsOvertaken

-----------------------------------------------------------------------------
(* No wake-up is lost: the safety part of QueuedIsServed.                  *)

\* Somebody whose step serves the queue is there: the head is being checked, the
\* timer is set, or there is an active request that fills a scope of the head, and
\* whose release drains the queue.
HeadIsWatched ==
    queue # <<>> =>
        \/ checking # NoRequest \/ timer
        \/ \E key \in blockedBy(Head(queue), active) : sharing(Head(queue), key, active) # {}

\* A scope that is full is filled by somebody, for every limit is positive.
LEMMA SomebodyBlocks ==
  ASSUME TypeOK, NEW r, NEW A, NEW key \in blockedBy(r, A)
  PROVE  sharing(r, key, A) # {}
<1>1. key \in ScopeKeys /\ policy.limit[key] \in Nat \ {0} /\ Cardinality(sharing(r, key, A)) >= policy.limit[key]
  BY PolicyAssumption DEF TypeOK, blockedBy
<1>2. Cardinality({}) = 0
  BY FS_EmptySet
<1> QED  BY <1>1, <1>2

\* A head that does not fit is watched by those who are active.
LEMMA BlockedIsWatched ==
  ASSUME TypeOK, queue # <<>> => checking # NoRequest \/ timer \/ blockedBy(Head(queue), active) # {}
  PROVE  HeadIsWatched
  BY SomebodyBlocks DEF HeadIsWatched

\* The loop of drain ends with a watched head.
LEMMA LoopWatches ==
  ASSUME SchedulerInv', policy' = policy, NEW q, NEW A, NEW wait, NEW woken, DrainLoop(q, A, wait, woken)
  PROVE  HeadIsWatched'
<1>1. TypeOK' /\ queue' \in Seq(Requests) /\ NoRequest \notin Requests
  BY RequestsAssumption DEF SchedulerInv, TypeOK
<1>2. queue' # <<>> => Head(queue') # NoRequest
  BY <1>1
<1>3. queue' # <<>> /\ blockedBy(Head(queue'), active') = {} =>
        checking' = Head(queue') \/ timer'
  BY DEF DrainLoop
<1>4. blockedBy(Head(queue), active)' = blockedBy(Head(queue'), active')
  BY DEF blockedBy
<1>5. (queue # <<>> => checking # NoRequest \/ timer \/ blockedBy(Head(queue), active) # {})'
  BY <1>2, <1>3, <1>4
<1> QED  BY <1>1, <1>5, BlockedIsWatched, PTL

\* So does a drain, which does nothing while a check is awaited.
LEMMA DrainWatches ==
  ASSUME SchedulerInv', policy' = policy, NEW q, NEW A, NEW wait, NEW woken, Drain(q, A, wait, woken)
  PROVE  HeadIsWatched'
<1>1. CASE checking = NoRequest
  BY <1>1, LoopWatches DEF Drain
<1>2. CASE checking # NoRequest
  BY <1>2 DEF Drain, HeadIsWatched
<1> QED  BY <1>1, <1>2

\* Every step leaves the head watched.
LEMMA StepWatches ==
  ASSUME SchedulerInv, SchedulerInv', HeadIsWatched, [Next]_vars
  PROVE  HeadIsWatched'
<1>1. ASSUME NEW r \in Requests, Acquire(r) \/ Release(r) \/ Abort(r) PROVE HeadIsWatched'
  BY <1>1, DrainWatches DEF Acquire, Release, Abort
<1>2. ASSUME NEW r \in Requests, AcquireExisting(r) PROVE HeadIsWatched'
  <2>1. /\ active' \in SUBSET Requests /\ active \in SUBSET active' /\ TypeOK /\ TypeOK'
        /\ UNCHANGED <<policy, queue, checking, timer>>
    BY <1>2 DEF AcquireExisting, SchedulerInv, TypeOK
  <2>2. ASSUME NEW h, blockedBy(h, active) # {} PROVE blockedBy(h, active') # {}
    BY <2>1, <2>2, NotBlocked, FitsBesideFewer
  <2>3. (queue # <<>> => checking # NoRequest \/ timer \/ blockedBy(Head(queue), active) # {})'
    BY <2>1, <2>2 DEF HeadIsWatched, blockedBy
  <2> QED  BY <2>1, <2>3, BlockedIsWatched, PTL
<1>3. ASSUME NEW r \in Requests, Elapse(r) PROVE HeadIsWatched'
  BY <1>3 DEF Elapse, HeadIsWatched, blockedBy
<1>4. ASSUME NEW ready \in BOOLEAN, Checked(ready) PROVE HeadIsWatched'
  <2>1. CASE timer' = TRUE
    BY <2>1 DEF HeadIsWatched
  <2> QED  BY <1>4, <2>1, LoopWatches DEF Checked
<1>5. CASE TimerFires
  BY <1>5, DrainWatches DEF TimerFires
<1>6. CASE UNCHANGED vars
  BY <1>6 DEF vars, HeadIsWatched, blockedBy
<1> QED  BY <1>1, <1>2, <1>3, <1>4, <1>5, <1>6, RequestsAssumption DEF Next

\* No queue is ever forgotten by drain: not when its head is aborted during the
\* pressure check, when the timer is cleared, or when a drain is dropped because
\* another one awaits.
THEOREM NoWakeUpIsLost == Spec => []HeadIsWatched
<1>1. Init => HeadIsWatched
  BY DEF Init, HeadIsWatched
<1>2. SchedulerInv /\ SchedulerInv' /\ HeadIsWatched /\ [Next]_vars => HeadIsWatched'
  BY StepWatches
<1> QED  BY <1>1, <1>2, SchedulerInvariant, PTL DEF Spec

-----------------------------------------------------------------------------
(* What the adapter over the scheduler needs to know of its steps.         *)

\* No step but a release takes a permit away.
LEMMA PermitsKept ==
  ASSUME SchedulerInv,
         \/ \E r \in Requests : Acquire(r) \/ Elapse(r)
         \/ \E ready \in BOOLEAN : Checked(ready)
         \/ TimerFires
  PROVE  active \subseteq active' /\ recovered' \subseteq recovered
<1>1. ASSUME NEW q, NEW A, NEW wait, NEW woken, active \subseteq A,
             Drain(q, A, wait, woken) \/ DrainLoop(q, A, wait, woken)
      PROVE  active \subseteq active' /\ recovered' \subseteq recovered
  BY <1>1 DEF Drain, DrainLoop
<1>2. active \subseteq active \cup {checking} /\ active \subseteq active
  OBVIOUS
<1> QED  BY <1>1, <1>2 DEF Acquire, Elapse, Checked, TimerFires

\* A release takes away the permit it is for, and no other.
LEMMA PermitReleased ==
  ASSUME SchedulerInv, NEW r \in Requests, Release(r)
  PROVE  r \in active /\ r \notin active' /\ active \ {r} \subseteq active' /\ recovered' \subseteq recovered
<1> DEFINE A == active \ {r}
<1>1. r \in active /\ Drain(queue, A, delayed, timer) /\ recovered' \subseteq recovered
  BY DEF Release, Drain, DrainLoop
<1>2. CASE checking # NoRequest
  BY <1>1, <1>2 DEF Drain
<1>3. CASE checking = NoRequest
  <2>1. PICK n \in 0..Len(queue) : Drained(queue, A, n)
    BY <1>1, <1>3, SoundQueue, LoopDrains DEF Drain
  <2>2. First(queue, n) \cap active = {}
    <3>1. Len(queue) \in Nat /\ \A i \in 1..n : i \in 1..Len(queue)
      BY SoundQueue, LenProperties
    <3> QED  BY <3>1, SoundQueue DEF First, Apart
  <2> QED  BY <1>1, <2>1, <2>2 DEF Drained
<1> QED  BY <1>2, <1>3
=============================================================================
