-------------------------- MODULE V1LimiterProofs --------------------------
(***************************************************************************)
(* The gate's counters, lock and wait list are right for every set of      *)
(* requests and every limit, and the gate implements the abstract promise  *)
(* of BoundedAdmission.                                                    *)
(***************************************************************************)
EXTENDS V1Limiter, FiniteSetTheorems, SequenceTheorems, TLAPS

-----------------------------------------------------------------------------
(* Sequences without repetition, as sets.                                  *)

(* Appending a newcomer to a queue adds it to the set of the queued, once, *)
(* and leaves the head alone.                                              *)
LEMMA AppendNew ==
    ASSUME NEW S, NEW q \in Seq(S), NEW x \in S
    PROVE  /\ Append(q, x) \in Seq(S)
           /\ Append(q, x) # <<>>
           /\ Range(Append(q, x)) = Range(q) \cup {x}
           /\ q # <<>> => Head(Append(q, x)) = Head(q)
           /\ IsInjective(q) /\ x \notin Range(q) => IsInjective(Append(q, x))
<1> DEFINE a == Append(q, x)
<1>1. /\ a \in Seq(S) /\ a # <<>> /\ Len(a) = Len(q) + 1
      /\ \A i \in 1..Len(q) : a[i] = q[i]
      /\ a[Len(q) + 1] = x
      /\ Len(q) \in Nat /\ DOMAIN q = 1..Len(q) /\ DOMAIN a = 1..(Len(q) + 1)
  BY AppendProperties, LenProperties
<1>2. Range(a) = Range(q) \cup {x}
  BY <1>1 DEF Range
<1>3. q # <<>> => Head(a) = Head(q)
  BY HeadTailAppend
<1>4. IsInjective(q) /\ x \notin Range(q) => IsInjective(a)
  BY <1>1 DEF IsInjective, Range
<1> QED BY <1>1, <1>2, <1>3, <1>4

(* Removing the head of a queue removes it from the set of the queued.     *)
LEMMA TailOnce ==
    ASSUME NEW S, NEW q \in Seq(S), q # <<>>, IsInjective(q)
    PROVE  /\ Head(q) \in S
           /\ Head(q) \in Range(q)
           /\ Tail(q) \in Seq(S)
           /\ Range(Tail(q)) = Range(q) \ {Head(q)}
           /\ IsInjective(Tail(q))
<1> DEFINE t == Tail(q)
<1>1. /\ Head(q) \in S /\ t \in Seq(S) /\ Len(t) = Len(q) - 1
      /\ \A i \in 1..Len(t) : t[i] = q[i + 1]
  BY HeadTailProperties
<1>2. /\ Len(q) \in Nat \ {0} /\ DOMAIN q = 1..Len(q)
      /\ DOMAIN t = 1..(Len(q) - 1) /\ Head(q) = q[1]
  BY <1>1, LenProperties, EmptySeq
<1>3. \A j \in DOMAIN q : j # 1 => j - 1 \in DOMAIN t /\ t[j - 1] = q[j]
  BY <1>1, <1>2
<1>4. Range(t) \subseteq Range(q) \ {Head(q)}
  BY <1>1, <1>2 DEF Range, IsInjective
<1>5. Range(q) \ {Head(q)} \subseteq Range(t)
  BY <1>2, <1>3 DEF Range
<1>6. IsInjective(t)
  BY <1>1, <1>2 DEF IsInjective
<1>7. Head(q) \in Range(q)
  BY <1>2 DEF Range
<1> QED BY <1>1, <1>4, <1>5, <1>6, <1>7

(* Removing one element from anywhere in a queue removes it from the set,  *)
(* and changes the head only if it was the head.                           *)
LEMMA RemoveAtOnce ==
    ASSUME NEW S, NEW q \in Seq(S), IsInjective(q), NEW i \in DOMAIN q
    PROVE  /\ RemoveAt(q, i) \in Seq(S)
           /\ Range(RemoveAt(q, i)) = Range(q) \ {q[i]}
           /\ IsInjective(RemoveAt(q, i))
           /\ Head(q) # q[i] => RemoveAt(q, i) # <<>> /\ Head(RemoveAt(q, i)) = Head(q)
<1> DEFINE l == SubSeq(q, 1, i - 1)
           r == SubSeq(q, i + 1, Len(q))
           c == RemoveAt(q, i)
<1>1. /\ Len(q) \in Nat /\ DOMAIN q = 1..Len(q) /\ i \in 1..Len(q)
      /\ \A k \in 1..Len(q) : q[k] \in S
  BY LenProperties, ElementOfSeq
<1>2. /\ l \in Seq(S) /\ Len(l) = i - 1
      /\ \A k \in 1..(i - 1) : l[k] = q[k]
  <2>1. \A k \in 1..(i - 1) : q[k] \in S
    BY <1>1
  <2> QED BY <1>1, <2>1, SubSeqProperties
<1>3. /\ r \in Seq(S) /\ Len(r) = Len(q) - i
      /\ \A k \in 1..(Len(q) - i) : r[k] = q[k + i]
  <2>1. \A k \in (i + 1)..Len(q) : q[k] \in S
    BY <1>1
  <2>2. /\ r \in Seq(S) /\ Len(r) = IF i + 1 <= Len(q) THEN Len(q) - (i + 1) + 1 ELSE 0
        /\ \A k \in 1..(Len(q) - (i + 1) + 1) : r[k] = q[(i + 1) + k - 1]
    BY <1>1, <2>1, SubSeqProperties
  <2> HIDE DEF r
  <2>3. Len(q) - (i + 1) + 1 = Len(q) - i /\ \A k \in 1..(Len(q) - i) : (i + 1) + k - 1 = k + i
    BY <1>1
  <2>4. Len(r) = Len(q) - i
    BY <1>1, <2>2, <2>3
  <2> QED BY <1>1, <2>2, <2>3, <2>4
<1>4. c = l \o r
  BY DEF RemoveAt
<1> HIDE DEF l, r, c
<1>5. /\ c \in Seq(S) /\ Len(c) = Len(q) - 1
      /\ DOMAIN c = 1..(Len(q) - 1)
      /\ \A k \in 1..(Len(q) - 1) : c[k] = IF k < i THEN q[k] ELSE q[k + 1]
  <2>1. /\ c \in Seq(S) /\ Len(c) = Len(l) + Len(r)
        /\ \A k \in 1..(Len(l) + Len(r)) : c[k] = IF k <= Len(l) THEN l[k] ELSE r[k - Len(l)]
    BY <1>2, <1>3, <1>4, ConcatProperties
  <2>2. DOMAIN c = 1..Len(c)
    BY <2>1, LenProperties
  <2>3. Len(c) = Len(q) - 1
    BY <1>1, <1>2, <1>3, <2>1
  <2>4. \A k \in 1..(Len(q) - 1) : c[k] = IF k < i THEN q[k] ELSE q[k + 1]
    <3> TAKE k \in 1..(Len(q) - 1)
    <3>1. CASE k < i
      BY <1>1, <1>2, <1>3, <2>1, <3>1
    <3>2. CASE k >= i
      <4>1. k - Len(l) \in 1..(Len(q) - i) /\ k - Len(l) + i = k + 1
        BY <1>1, <1>2, <3>2
      <4>2. k \in 1..(Len(l) + Len(r)) /\ ~(k <= Len(l)) /\ ~(k < i)
        BY <1>1, <1>2, <1>3, <3>2
      <4>3. c[k] = r[k - Len(l)]
        BY <2>1, <4>2
      <4>4. r[k - Len(l)] = q[k - Len(l) + i]
        BY <1>3, <4>1
      <4> QED BY <4>1, <4>2, <4>3, <4>4
    <3> QED BY <1>1, <3>1, <3>2
  <2> QED BY <2>1, <2>2, <2>3, <2>4
<1>6. Range(c) = Range(q) \ {q[i]}
  <2>1. Range(c) \subseteq Range(q) \ {q[i]}
    BY <1>1, <1>5 DEF Range, IsInjective
  <2>2. \A k \in DOMAIN q : k # i => \E j \in DOMAIN c : c[j] = q[k]
    <3> TAKE k \in DOMAIN q
    <3>1. CASE k < i
      BY <1>1, <1>5, <3>1
    <3>2. CASE k > i
      <4>1. k - 1 \in 1..(Len(q) - 1) /\ ~(k - 1 < i) /\ (k - 1) + 1 = k
        BY <1>1, <3>2
      <4>2. c[k - 1] = q[k]
        BY <1>5, <4>1
      <4> QED BY <1>5, <4>1, <4>2
    <3> QED BY <1>1, <3>1, <3>2
  <2> QED BY <2>1, <2>2 DEF Range
<1>7. IsInjective(c)
  BY <1>1, <1>5 DEF IsInjective
<1>8. Head(q) # q[i] => c # <<>> /\ Head(c) = Head(q)
  <2> SUFFICES ASSUME Head(q) # q[i] PROVE c # <<>> /\ Head(c) = Head(q)
    OBVIOUS
  <2>1. i # 1 /\ Len(q) >= 2
    BY <1>1
  <2>2. 1 \in DOMAIN c /\ c[1] = q[1]
    BY <1>1, <1>5, <2>1
  <2> QED BY <1>1, <1>5, <2>1, <2>2
<1> QED BY <1>5, <1>6, <1>7, <1>8 DEF c

-----------------------------------------------------------------------------
(* How many requests are in the states S when f maps requests to states.   *)
Count(f, S) == Cardinality({r \in Requests : f[r] \in S})

(* Moving one request from a state to another changes a count by the       *)
(* difference of the two memberships.                                      *)
OnlyMoves(f, g, r) == \A x \in Requests : x # r => g[x] = f[x]
Moved(S, from, to) == (IF to \in S THEN 1 ELSE 0) - (IF from \in S THEN 1 ELSE 0)

(* What moving one request to another state does to the set of a family of states. *)
LEMMA MoveOne ==
    ASSUME NEW f \in [Requests -> States], NEW g \in [Requests -> States],
           NEW r \in Requests, OnlyMoves(f, g, r), NEW S \in SUBSET States
    PROVE  /\ Count(f, S) \in Nat
           /\ Count(g, S) \in Nat
           /\ Count(g, S) = Count(f, S) + Moved(S, f[r], g[r])
<1> DEFINE A == {x \in Requests : f[x] \in S}
           B == {x \in Requests : g[x] \in S}
<1>1. IsFiniteSet(A) /\ IsFiniteSet(B)
  BY RequestsFinite, FS_Subset
<1>2. Cardinality(A) \in Nat /\ Cardinality(B) \in Nat
  BY <1>1, FS_CardinalityType
<1>3. B = IF g[r] \in S THEN A \cup {r} ELSE A \ {r}
  BY DEF OnlyMoves
<1>4. r \in A <=> f[r] \in S
  OBVIOUS
<1>5. Cardinality(B) = Cardinality(A) + Moved(S, f[r], g[r])
  <2>1. CASE g[r] \in S
    <3>1. B = A \cup {r}
      BY <1>3, <2>1
    <3>2. Cardinality(B) = IF r \in A THEN Cardinality(A) ELSE Cardinality(A) + 1
      BY <1>1, <3>1, FS_AddElement
    <3> QED BY <1>2, <1>4, <2>1, <3>2 DEF Moved
  <2>2. CASE g[r] \notin S
    <3>1. B = A \ {r}
      BY <1>3, <2>2
    <3>2. Cardinality(B) = IF r \in A THEN Cardinality(A) - 1 ELSE Cardinality(A)
      BY <1>1, <3>1, FS_RemoveElement
    <3> QED BY <1>2, <1>4, <2>2, <3>2 DEF Moved
  <2> QED BY <2>1, <2>2
<1>6. Count(f, S) = Cardinality(A) /\ Count(g, S) = Cardinality(B)
  BY DEF Count
<1> HIDE DEF A, B
<1> QED BY <1>2, <1>5, <1>6

-----------------------------------------------------------------------------
(* The inductive invariant.  The counters alone are not inductive: that a  *)
(* notified request is one that was asleep, and that nobody is refusing    *)
(* while another task has the lock, come from WaitStructures.              *)
IInv == TypeOK /\ CountersExact /\ WaitStructures /\ WorkConserving

(* What a task that runs with the lock knows: q is the lock's queue with r *)
(* in front, either because r has just found the lock free or because the  *)
(* lock was handed to it.                                                  *)
Owner(r, q) == \/ lockq = <<>> /\ q = <<r>>
               \/ lockq = q /\ HoldsLock(r)

(* A lock queue with its owner in front is not empty and its tail does not hold the owner. *)
LEMMA OwnedQueue ==
    ASSUME TypeOK, WaitStructures, NEW r \in Requests, NEW q, Owner(r, q)
    PROVE  /\ q \in Seq(Requests) /\ q # <<>> /\ Head(q) = r
           /\ IsInjective(q)
           /\ Range(q) = In(LockStates) \cup {r}
           /\ Tail(q) \in Seq(Requests)
           /\ IsInjective(Tail(q))
           /\ Range(Tail(q)) = In(LockStates) \ {r}
           /\ \A x \in In(RejectStates) : x = r
<1>1. /\ q \in Seq(Requests) /\ q # <<>> /\ Head(q) = r
      /\ IsInjective(q) /\ Range(q) = In(LockStates) \cup {r}
      /\ \A x \in In(RejectStates) : x = r
  <2>1. CASE lockq = <<>> /\ q = <<r>>
    <3>1. Range(lockq) = {}
      BY <2>1 DEF Range
    <3>2. In(LockStates) = {}
      BY <3>1 DEF WaitStructures
    <3>3. In(RejectStates) = {}
      BY <3>2 DEF In, LockStates, RejectStates
    <3>4. Range(q) = {r} /\ IsInjective(q) /\ Head(q) = r /\ q \in Seq(Requests) /\ q # <<>>
      BY <2>1 DEF Range, IsInjective
    <3> QED BY <3>2, <3>3, <3>4
  <2>2. CASE lockq = q /\ HoldsLock(r)
    <3>1. q \in Seq(Requests) /\ q # <<>> /\ Head(q) = r /\ IsInjective(q)
      BY <2>2 DEF TypeOK, HoldsLock, WaitStructures
    <3>2. r \in Range(q)
      BY <3>1, TailOnce
    <3>3. \A x \in In(RejectStates) : x = r
      BY <2>2 DEF WaitStructures, HoldsLock
    <3> QED BY <2>2, <3>1, <3>2, <3>3 DEF WaitStructures
  <2> QED BY <2>1, <2>2 DEF Owner
<1>2. /\ Tail(q) \in Seq(Requests) /\ IsInjective(Tail(q))
      /\ Range(Tail(q)) = Range(q) \ {r}
  BY <1>1, TailOnce
<1> QED BY <1>1, <1>2

(* The initial states satisfy IInv. *)
LEMMA InitIInv == Init => IInv
<1> SUFFICES ASSUME Init PROVE IInv
  OBVIOUS
<1>1. TypeOK
  BY DEF Init, TypeOK, States
<1>2. \A S : "new" \notin S => In(S) = {}
  BY DEF Init, In
<1>3. /\ In(RunningStates) = {} /\ In(QueuedStates) = {} /\ In(LockStates) = {}
      /\ In({"sleeping"}) = {} /\ In(RejectStates) = {}
  BY <1>2 DEF RunningStates, QueuedStates, LockStates, RejectStates
<1>4. CountersExact
  BY <1>3, FS_EmptySet, MaxInflightPositive, MaxQueueSizeNat DEF CountersExact, Init
<1>5. WaitStructures
  BY <1>3 DEF WaitStructures, Init, Range, IsInjective
<1>6. WorkConserving
  BY DEF WorkConserving, Init
<1> QED BY <1>1, <1>4, <1>5, <1>6 DEF IInv
-----------------------------------------------------------------------------
(* How the counts move with the program counters of one or two requests.   *)
LEMMA CountOneMove ==
    ASSUME TypeOK, NEW r \in Requests, pc' \in [Requests -> States], OnlyMoves(pc, pc', r),
           NEW S \in SUBSET States
    PROVE  /\ Cardinality(In(S)) \in Nat
           /\ Cardinality(In(S)') = Cardinality(In(S)) + Moved(S, pc[r], pc'[r])
<1>1. pc \in [Requests -> States]
  BY DEF TypeOK
<1>2. /\ Count(pc, S) \in Nat
      /\ Count(pc', S) = Count(pc, S) + Moved(S, pc[r], pc'[r])
  BY <1>1, MoveOne
<1>3. Cardinality(In(S)) = Count(pc, S) /\ Cardinality(In(S)') = Count(pc', S)
  BY DEF In, Count
<1> QED BY <1>2, <1>3

(* How the size of a family changes when two requests move at once. *)
LEMMA CountTwoMoves ==
    ASSUME TypeOK, NEW r \in Requests, NEW h \in Requests, h # r,
           pc' \in [Requests -> States],
           \A x \in Requests : x # r /\ x # h => pc'[x] = pc[x],
           NEW S \in SUBSET States
    PROVE  /\ Cardinality(In(S)) \in Nat
           /\ Cardinality(In(S)') = Cardinality(In(S)) + Moved(S, pc[r], pc'[r])
                                                        + Moved(S, pc[h], pc'[h])
<1>1. pc \in [Requests -> States]
  BY DEF TypeOK
<1>2. PICK m \in [Requests -> States] : m = [pc EXCEPT ![r] = pc'[r]]
  BY <1>1
<1>3. OnlyMoves(pc, m, r) /\ OnlyMoves(m, pc', h) /\ m[r] = pc'[r] /\ m[h] = pc[h]
  BY <1>1, <1>2 DEF OnlyMoves
<1>4. /\ Count(pc, S) \in Nat /\ Count(m, S) \in Nat
      /\ Count(m, S) = Count(pc, S) + Moved(S, pc[r], m[r])
  BY <1>1, <1>3, MoveOne
<1>5. Count(pc', S) = Count(m, S) + Moved(S, m[h], pc'[h])
  BY <1>3, MoveOne
<1>6. Cardinality(In(S)) = Count(pc, S) /\ Cardinality(In(S)') = Count(pc', S)
  BY DEF In, Count
<1> QED BY <1>3, <1>4, <1>5, <1>6

(* notify(1): either nobody sleeps, or the head of the list wakes up.      *)
LEMMA NotifyWakesOne ==
    ASSUME TypeOK, NEW r \in Requests, NEW s \in {"served", "rejectLate"},
           NEW ws \in Seq(Requests), IsInjective(ws), Range(ws) = In({"sleeping"}) \ {r},
           Notify(r, s, ws)
    PROVE  /\ pc' \in [Requests -> States]
           /\ pc'[r] = s
           /\ \A x \in Requests : x # r =>
                 pc'[x] = pc[x] \/ (pc[x] = "sleeping" /\ pc'[x] = "notified")
           /\ waiters' \in Seq(Requests) /\ IsInjective(waiters')
           /\ Range(waiters') = In({"sleeping"})'
           /\ Cardinality(In(RunningStates)') =
                 Cardinality(In(RunningStates)) + Moved(RunningStates, pc[r], s)
           /\ Cardinality(In(QueuedStates)') =
                 Cardinality(In(QueuedStates)) + Moved(QueuedStates, pc[r], s)
           /\ waiters' # <<>> => Cardinality(In(ComingStates)') =
                 Cardinality(In(ComingStates)) + 1 + Moved(ComingStates, pc[r], s)
<1>0. s \in States /\ "notified" \in States /\ pc \in [Requests -> States]
  BY DEF States, QueuedStates, TypeOK
<1>3. {RunningStates, QueuedStates, ComingStates} \subseteq SUBSET States
  BY DEF States, RunningStates, QueuedStates, ComingStates
<1>1. CASE ws = <<>>
  <2>1. pc' = [pc EXCEPT ![r] = s] /\ waiters' = <<>>
    BY <1>1 DEF Notify
  <2>2. pc' \in [Requests -> States] /\ pc'[r] = s /\ OnlyMoves(pc, pc', r)
    BY <1>0, <2>1 DEF OnlyMoves
  <2>3. In({"sleeping"})' = {}
    <3>1. In({"sleeping"}) \subseteq {r}
      BY <1>1 DEF Range
    <3> QED BY <2>2, <3>1 DEF In, OnlyMoves
  <2>4. /\ Cardinality(In(RunningStates)') =
              Cardinality(In(RunningStates)) + Moved(RunningStates, pc[r], s)
        /\ Cardinality(In(QueuedStates)') =
              Cardinality(In(QueuedStates)) + Moved(QueuedStates, pc[r], s)
    BY <1>3, <2>2, CountOneMove
  <2>5. waiters' \in Seq(Requests) /\ IsInjective(waiters') /\ Range(waiters') = {}
    BY <2>1 DEF IsInjective, Range
  <2> QED BY <2>1, <2>2, <2>3, <2>4, <2>5 DEF OnlyMoves
<1>2. CASE ws # <<>>
  <2>1. PICK h \in Requests : h = Head(ws)
    BY <1>2, TailOnce
  <2>2. pc' = [pc EXCEPT ![r] = s, ![h] = "notified"] /\ waiters' = Tail(ws)
    BY <1>2, <2>1 DEF Notify
  <2>3. /\ h \in Range(ws) /\ Tail(ws) \in Seq(Requests)
        /\ Range(Tail(ws)) = Range(ws) \ {h} /\ IsInjective(Tail(ws))
    BY <1>2, <2>1, TailOnce
  <2>4. h # r /\ pc[h] = "sleeping"
    BY <2>3 DEF In
  <2>5. /\ pc' \in [Requests -> States] /\ pc'[r] = s /\ pc'[h] = "notified"
        /\ \A x \in Requests : x # r /\ x # h => pc'[x] = pc[x]
    BY <1>0, <2>2, <2>4
  <2>6. ASSUME NEW S \in SUBSET States
        PROVE  /\ Cardinality(In(S)) \in Nat
               /\ Cardinality(In(S)') = Cardinality(In(S)) + Moved(S, pc[r], s)
                                                + Moved(S, "sleeping", "notified")
    BY <2>4, <2>5, CountTwoMoves
  <2>7. /\ Moved(RunningStates, "sleeping", "notified") = 0
        /\ Moved(QueuedStates, "sleeping", "notified") = 0
        /\ Moved(ComingStates, "sleeping", "notified") = 1
    BY DEF Moved, RunningStates, QueuedStates, ComingStates
  <2>8. \A S : Moved(S, pc[r], s) \in Int
    BY DEF Moved
  <2>9. /\ Cardinality(In(RunningStates)') =
              Cardinality(In(RunningStates)) + Moved(RunningStates, pc[r], s)
        /\ Cardinality(In(QueuedStates)') =
              Cardinality(In(QueuedStates)) + Moved(QueuedStates, pc[r], s)
        /\ Cardinality(In(ComingStates)') =
              Cardinality(In(ComingStates)) + 1 + Moved(ComingStates, pc[r], s)
    BY <1>3, <2>6, <2>7, <2>8
  <2>10. In({"sleeping"})' = In({"sleeping"}) \ {r, h}
    BY <1>0, <2>5 DEF In
  <2>11. \A x \in Requests : x # r =>
            pc'[x] = pc[x] \/ (pc[x] = "sleeping" /\ pc'[x] = "notified")
    BY <2>4, <2>5
  <2>12. waiters' \in Seq(Requests) /\ IsInjective(waiters') /\ Range(waiters') = In({"sleeping"})'
    BY <2>2, <2>3, <2>10
  <2> QED BY <2>5, <2>9, <2>11, <2>12
<1> QED BY <1>1, <1>2

-----------------------------------------------------------------------------
(* The lock's half and the wait list's half of WaitStructures, each with   *)
(* its type.                                                               *)
LockPart == /\ lockq \in Seq(Requests)
            /\ Range(lockq) = In(LockStates) /\ IsInjective(lockq)
            /\ \A r \in In(RejectStates) : HoldsLock(r)
WaitPart == /\ waiters \in Seq(Requests)
            /\ Range(waiters) = In({"sleeping"}) /\ IsInjective(waiters)

(* A step of r in which the others stay where they are, or are woken.      *)
Quiet(r) == /\ pc' \in [Requests -> States]
            /\ \A x \in Requests : x # r =>
                  pc'[x] = pc[x] \/ (pc[x] = "sleeping" /\ pc'[x] = "notified")

(* The owner leaves the lock.                                              *)
LEMMA LeaveLock ==
    ASSUME TypeOK, WaitStructures, NEW r \in Requests, NEW q, Owner(r, q),
           Quiet(r), pc'[r] \notin LockStates, lockq' = Tail(q)
    PROVE  LockPart'
<1>1. /\ Tail(q) \in Seq(Requests) /\ IsInjective(Tail(q))
      /\ Range(Tail(q)) = In(LockStates) \ {r}
      /\ \A x \in In(RejectStates) : x = r
  BY OwnedQueue
<1>2. In(LockStates)' = In(LockStates) \ {r}
  BY DEF In, Quiet, LockStates, RejectStates
<1>3. In(RejectStates)' = {}
  BY <1>1 DEF In, Quiet, LockStates, RejectStates
<1> QED BY <1>1, <1>2, <1>3 DEF LockPart

(* The owner keeps the lock while it sends a 429.                          *)
LEMMA KeepLock ==
    ASSUME TypeOK, WaitStructures, NEW r \in Requests, NEW q, Owner(r, q),
           Quiet(r), pc'[r] \in RejectStates, lockq' = q
    PROVE  LockPart'
<1>1. /\ q \in Seq(Requests) /\ q # <<>> /\ Head(q) = r /\ IsInjective(q)
      /\ Range(q) = In(LockStates) \cup {r}
      /\ \A x \in In(RejectStates) : x = r
  BY OwnedQueue
<1>2. In(LockStates)' = In(LockStates) \cup {r}
  BY DEF In, Quiet, LockStates, RejectStates
<1>3. In(RejectStates)' = {r}
  BY <1>1 DEF In, Quiet, RejectStates
<1> QED BY <1>1, <1>2, <1>3 DEF LockPart, HoldsLock

(* A task queues behind the lock.                                          *)
LEMMA JoinLock ==
    ASSUME TypeOK, WaitStructures, NEW r \in Requests, Quiet(r),
           pc[r] \notin LockStates, pc'[r] \in LockStates \ RejectStates,
           lockq # <<>>, lockq' = Append(lockq, r)
    PROVE  LockPart'
<1>1. lockq \in Seq(Requests) /\ IsInjective(lockq) /\ r \notin Range(lockq)
  BY DEF TypeOK, WaitStructures, In
<1>2. /\ lockq' \in Seq(Requests) /\ lockq' # <<>> /\ Head(lockq') = Head(lockq)
      /\ Range(lockq') = Range(lockq) \cup {r} /\ IsInjective(lockq')
  BY <1>1, AppendNew
<1>3. In(LockStates)' = In(LockStates) \cup {r}
  BY DEF In, Quiet, LockStates, RejectStates
<1>4. In(RejectStates)' = In(RejectStates)
  BY DEF In, Quiet, LockStates, RejectStates
<1> QED BY <1>2, <1>3, <1>4 DEF LockPart, HoldsLock, WaitStructures

(* A step of one task that was not, and will not be, asleep.               *)
LEMMA SameWaiters ==
    ASSUME TypeOK, WaitStructures, NEW r \in Requests, pc' \in [Requests -> States],
           OnlyMoves(pc, pc', r), pc[r] # "sleeping", pc'[r] # "sleeping", waiters' = waiters
    PROVE  WaitPart'
<1>1. In({"sleeping"})' = In({"sleeping"})
  BY DEF In, OnlyMoves
<1> QED BY <1>1 DEF WaitPart, WaitStructures, TypeOK

(* A task goes to sleep.                                                   *)
LEMMA JoinWaiters ==
    ASSUME TypeOK, WaitStructures, NEW r \in Requests, pc' \in [Requests -> States],
           OnlyMoves(pc, pc', r), pc[r] # "sleeping", pc'[r] = "sleeping",
           waiters' = Append(waiters, r)
    PROVE  WaitPart'
<1>1. waiters \in Seq(Requests) /\ IsInjective(waiters) /\ r \notin Range(waiters)
  BY DEF TypeOK, WaitStructures, In
<1>2. /\ waiters' \in Seq(Requests) /\ IsInjective(waiters')
      /\ Range(waiters') = Range(waiters) \cup {r}
  BY <1>1, AppendNew
<1>3. In({"sleeping"})' = In({"sleeping"}) \cup {r}
  BY DEF In, OnlyMoves
<1> QED BY <1>2, <1>3 DEF WaitPart, WaitStructures

(* The two halves make WaitStructures, and the types of both sequences.    *)
LEMMA Halves ==
    ASSUME LockPart', WaitPart', pc' \in [Requests -> States], inflight' \in Nat,
           queued' \in Nat, renotify' \in BOOLEAN
    PROVE  TypeOK' /\ WaitStructures'
BY DEF LockPart, WaitPart, TypeOK, WaitStructures

(* Whoever is somewhere counts there.                                      *)
LEMMA SomeIn ==
    ASSUME NEW S, NEW r \in In(S)
    PROVE  Cardinality(In(S)) \in Nat \ {0}
<1>1. IsFiniteSet(In(S))
  BY RequestsFinite, FS_Subset DEF In
<1> QED BY <1>1, FS_CardinalityType, FS_EmptySet

-----------------------------------------------------------------------------
(* A step after which the counters have followed the counts, and the lock  *)
(* and the wait list are in order, keeps the invariant.                    *)
LEMMA Recounted ==
    ASSUME IInv, NEW r \in Requests, pc' \in [Requests -> States], LockPart', WaitPart',
           renotify' = renotify,
           NEW di \in Int, NEW dq \in Int,
           inflight' = inflight + di, inflight' <= MaxInflight,
           queued' = queued + dq, queued' <= MaxQueueSize,
           Cardinality(In(RunningStates)') = Cardinality(In(RunningStates)) + di,
           Cardinality(In(QueuedStates)') = Cardinality(In(QueuedStates)) + dq,
           renotify /\ waiters' # <<>> =>
               MaxInflight - inflight' <= Cardinality(In(ComingStates)')
    PROVE  IInv'
<1>1. inflight = Cardinality(In(RunningStates)) /\ queued = Cardinality(In(QueuedStates))
  BY DEF IInv, CountersExact
<1>2. inflight' = Cardinality(In(RunningStates)') /\ queued' = Cardinality(In(QueuedStates)')
  BY <1>1
<1>3. IsFiniteSet(In(RunningStates)') /\ IsFiniteSet(In(QueuedStates)')
  BY RequestsFinite, FS_Subset DEF In
<1>4. inflight' \in Nat /\ queued' \in Nat
  BY <1>2, <1>3, FS_CardinalityType
<1>5. renotify' \in BOOLEAN
  BY DEF IInv, TypeOK
<1>6. TypeOK' /\ WaitStructures'
  BY <1>4, <1>5, Halves
<1>7. CountersExact'
  BY <1>2 DEF CountersExact
<1>8. WorkConserving'
  BY DEF WorkConserving
<1> QED BY <1>6, <1>7, <1>8 DEF IInv

(* The same for a step that moves one request and wakes nobody.            *)
LEMMA OneMoveKeeps ==
    ASSUME IInv, NEW r \in Requests, pc' \in [Requests -> States], OnlyMoves(pc, pc', r),
           LockPart', WaitPart', renotify' = renotify,
           inflight' = inflight + Moved(RunningStates, pc[r], pc'[r]),
           inflight' <= MaxInflight,
           queued' = queued + Moved(QueuedStates, pc[r], pc'[r]),
           queued' <= MaxQueueSize,
           renotify /\ waiters' # <<>> =>
               MaxInflight - inflight' <=
                   Cardinality(In(ComingStates)) + Moved(ComingStates, pc[r], pc'[r])
    PROVE  IInv'
<1>1. {RunningStates, QueuedStates, ComingStates} \subseteq SUBSET States
  BY DEF States, RunningStates, QueuedStates, ComingStates
<1>2. TypeOK
  BY DEF IInv
<1>3. ASSUME NEW S \in {RunningStates, QueuedStates, ComingStates}
      PROVE  Cardinality(In(S)') = Cardinality(In(S)) + Moved(S, pc[r], pc'[r])
  BY <1>1, <1>2, CountOneMove
<1>4. \A S : Moved(S, pc[r], pc'[r]) \in Int
  BY DEF Moved
<1>5. /\ Cardinality(In(RunningStates)') =
            Cardinality(In(RunningStates)) + Moved(RunningStates, pc[r], pc'[r])
      /\ Cardinality(In(QueuedStates)') =
            Cardinality(In(QueuedStates)) + Moved(QueuedStates, pc[r], pc'[r])
      /\ Cardinality(In(ComingStates)') =
            Cardinality(In(ComingStates)) + Moved(ComingStates, pc[r], pc'[r])
  BY <1>3
<1> QED BY <1>4, <1>5, Recounted

-----------------------------------------------------------------------------
(* The critical sections, one lemma each.                                  *)

(* Where the owner stands when it tests for a slot, and what it then does  *)
(* to the queue count on taking one.                                       *)
Newcomer(r) == pc[r] \in {"new", "entering"}
Woken(r)    == pc[r] \in {"notified", "reacquiring"}

(* A step that only moves r.                                               *)
LEMMA Alone ==
    ASSUME TypeOK, NEW r \in Requests, NEW s \in States, pc' = [pc EXCEPT ![r] = s]
    PROVE  /\ pc' \in [Requests -> States] /\ pc'[r] = s
           /\ OnlyMoves(pc, pc', r) /\ Quiet(r)
BY DEF TypeOK, OnlyMoves, Quiet

(* Taking a slot keeps IInv. *)
LEMMA TakeSlotKeeps ==
    ASSUME IInv, NEW r \in Requests, NEW q, Owner(r, q), NEW n, TakeSlot(r, q, n),
           \/ Newcomer(r) /\ n = queued
           \/ Woken(r) /\ n = Decrement(queued)
    PROVE  IInv'
<1>1. TypeOK /\ WaitStructures
  BY DEF IInv
<1>2. /\ pc' \in [Requests -> States] /\ pc'[r] = "running"
      /\ OnlyMoves(pc, pc', r) /\ Quiet(r)
  <2>1. "running" \in States
    BY DEF States, RunningStates
  <2> QED BY <1>1, <2>1, Alone DEF TakeSlot
<1>3. LockPart'
  <2>1. pc'[r] \notin LockStates /\ lockq' = Tail(q)
    BY <1>2 DEF LockStates, RejectStates, TakeSlot
  <2> QED BY <1>1, <1>2, <2>1, LeaveLock
<1>4. WaitPart'
  <2>1. pc[r] # "sleeping" /\ pc'[r] # "sleeping" /\ waiters' = waiters
    BY <1>2 DEF Newcomer, Woken, TakeSlot
  <2> QED BY <1>1, <1>2, <2>1, SameWaiters
<1>5. inflight' = inflight + 1 /\ inflight < MaxInflight /\ queued' = n /\ UNCHANGED <<waiters, renotify>>
  BY DEF TakeSlot
<1>6. inflight \in Nat /\ queued \in Nat /\ queued <= MaxQueueSize
  BY <1>1 DEF TypeOK, IInv, CountersExact
<1>7. Moved(RunningStates, pc[r], pc'[r]) = 1
  BY <1>2 DEF Moved, RunningStates, Newcomer, Woken
<1>8. /\ queued' = queued + Moved(QueuedStates, pc[r], pc'[r])
      /\ queued' <= queued
  <2>1. CASE Newcomer(r) /\ n = queued
    <3>1. Moved(QueuedStates, pc[r], pc'[r]) = 0
      BY <1>2, <2>1 DEF Moved, QueuedStates, Newcomer
    <3> QED BY <1>5, <1>6, <2>1, <3>1
  <2>2. CASE Woken(r) /\ n = Decrement(queued)
    <3>1. r \in In(QueuedStates)
      BY <2>2 DEF Woken, In, QueuedStates
    <3>2. Cardinality(In(QueuedStates)) \in Nat \ {0}
      BY <3>1, SomeIn
    <3>3. queued > 0
      BY <1>6, <3>2 DEF IInv, CountersExact
    <3>4. Moved(QueuedStates, pc[r], pc'[r]) = -1
      BY <1>2, <2>2 DEF Moved, QueuedStates, Woken
    <3> QED BY <1>5, <1>6, <2>2, <3>3, <3>4 DEF Decrement
  <2> QED BY <2>1, <2>2
<1>9. renotify /\ waiters' # <<>> =>
          MaxInflight - inflight' <=
              Cardinality(In(ComingStates)) + Moved(ComingStates, pc[r], pc'[r])
  <2>1. Moved(ComingStates, pc[r], pc'[r]) \in {0, -1}
    BY <1>2 DEF Moved, ComingStates
  <2>2. ComingStates \in SUBSET States
    BY DEF ComingStates, States, QueuedStates
  <2>3. Cardinality(In(ComingStates)) \in Nat
    BY <1>1, <1>2, <2>2, CountOneMove
  <2>4. renotify /\ waiters # <<>> => MaxInflight - inflight <= Cardinality(In(ComingStates))
    BY DEF IInv, WorkConserving
  <2> QED BY <1>5, <1>6, <2>1, <2>3, <2>4, MaxInflightPositive
<1>10. inflight' <= MaxInflight /\ queued' <= MaxQueueSize
  BY <1>5, <1>6, <1>8, MaxInflightPositive, MaxQueueSizeNat
<1> QED BY <1>2, <1>3, <1>4, <1>5, <1>7, <1>8, <1>9, <1>10, OneMoveKeeps

(* Waiting for a slot, or finding no time left, keeps IInv. *)
LEMMA WaitForSlotKeeps ==
    ASSUME IInv, NEW r \in Requests, NEW q, Owner(r, q), NEW n, WaitForSlot(r, q, n),
           \/ Newcomer(r) /\ queued < MaxQueueSize /\ n = queued + 1
           \/ Woken(r) /\ n = queued
    PROVE  IInv'
<1>1. TypeOK /\ WaitStructures
  BY DEF IInv
<1>2. PICK s \in {"rejectLate", "sleeping"} :
          /\ pc' = [pc EXCEPT ![r] = s]
          /\ s = "rejectLate" => lockq' = q /\ waiters' = waiters
          /\ s = "sleeping" => waiters' = Append(waiters, r) /\ lockq' = Tail(q)
  BY DEF WaitForSlot
<1>3. /\ pc' \in [Requests -> States] /\ pc'[r] = s
      /\ OnlyMoves(pc, pc', r) /\ Quiet(r)
  <2>1. s \in States
    BY DEF States, QueuedStates
  <2> QED BY <1>1, <1>2, <2>1, Alone
<1>4. LockPart'
  <2>1. CASE s = "rejectLate"
    <3>1. pc'[r] \in RejectStates /\ lockq' = q
      BY <1>2, <1>3, <2>1 DEF RejectStates
    <3> QED BY <1>1, <1>3, <3>1, KeepLock
  <2>2. CASE s = "sleeping"
    <3>1. pc'[r] \notin LockStates /\ lockq' = Tail(q)
      BY <1>2, <1>3, <2>2 DEF LockStates, RejectStates
    <3> QED BY <1>1, <1>3, <3>1, LeaveLock
  <2> QED BY <2>1, <2>2
<1>5. WaitPart'
  <2>1. pc[r] # "sleeping"
    BY DEF Newcomer, Woken
  <2>2. CASE s = "rejectLate"
    <3>1. pc'[r] # "sleeping" /\ waiters' = waiters
      BY <1>2, <1>3, <2>2
    <3> QED BY <1>1, <1>3, <2>1, <3>1, SameWaiters
  <2>3. CASE s = "sleeping"
    <3>1. pc'[r] = "sleeping" /\ waiters' = Append(waiters, r)
      BY <1>2, <1>3, <2>3
    <3> QED BY <1>1, <1>3, <2>1, <3>1, JoinWaiters
  <2> QED BY <2>2, <2>3
<1>6. /\ inflight \in Nat /\ queued \in Nat
      /\ inflight <= MaxInflight /\ queued <= MaxQueueSize
      /\ inflight >= MaxInflight /\ inflight' = inflight
      /\ queued' = n /\ renotify' = renotify
  BY <1>1 DEF TypeOK, IInv, CountersExact, WaitForSlot
<1>7. Moved(RunningStates, pc[r], pc'[r]) = 0
  BY <1>3 DEF Moved, RunningStates, Newcomer, Woken
<1>8. /\ queued' = queued + Moved(QueuedStates, pc[r], pc'[r])
      /\ queued' <= MaxQueueSize
  <2>1. CASE Newcomer(r) /\ queued < MaxQueueSize /\ n = queued + 1
    <3>1. Moved(QueuedStates, pc[r], pc'[r]) = 1
      BY <1>3, <2>1 DEF Moved, QueuedStates, Newcomer
    <3> QED BY <1>6, <2>1, <3>1, MaxQueueSizeNat
  <2>2. CASE Woken(r) /\ n = queued
    <3>1. Moved(QueuedStates, pc[r], pc'[r]) = 0
      BY <1>3, <2>2 DEF Moved, QueuedStates, Woken
    <3> QED BY <1>6, <2>2, <3>1
  <2> QED BY <2>1, <2>2
<1>9. MaxInflight - inflight' <=
          Cardinality(In(ComingStates)) + Moved(ComingStates, pc[r], pc'[r])
  <2>1. ComingStates \in SUBSET States
    BY DEF ComingStates, States, QueuedStates
  <2>2. /\ Cardinality(In(ComingStates)) \in Nat
        /\ Cardinality(In(ComingStates)') =
              Cardinality(In(ComingStates)) + Moved(ComingStates, pc[r], pc'[r])
    BY <1>1, <1>3, <2>1, CountOneMove
  <2>3. IsFiniteSet(In(ComingStates)')
    BY RequestsFinite, FS_Subset DEF In
  <2>4. Cardinality(In(ComingStates)') \in Nat
    BY <2>3, FS_CardinalityType
  <2> QED BY <1>6, <2>2, <2>4, MaxInflightPositive
<1>10. inflight' <= MaxInflight /\ inflight' = inflight + Moved(RunningStates, pc[r], pc'[r])
  BY <1>6, <1>7
<1> QED BY <1>3, <1>4, <1>5, <1>6, <1>8, <1>9, <1>10, OneMoveKeeps

(* A step of one request outside the tests for a slot: a change of state   *)
(* that touches no counter, except that leaving the queue is counted, and  *)
(* takes no woken task off its way.                                        *)
LEMMA CountersAside ==
    ASSUME IInv, NEW r \in Requests, pc' \in [Requests -> States], OnlyMoves(pc, pc', r),
           LockPart', WaitPart', renotify' = renotify, inflight' = inflight,
           Moved(RunningStates, pc[r], pc'[r]) = 0,
           queued' = queued + Moved(QueuedStates, pc[r], pc'[r]),
           Moved(QueuedStates, pc[r], pc'[r]) \in {0, -1},
           renotify /\ waiters' # <<>> =>
               waiters # <<>> /\ Moved(ComingStates, pc[r], pc'[r]) \in {0, 1}
    PROVE  IInv'
<1>1. /\ inflight \in Nat /\ queued \in Nat
      /\ inflight <= MaxInflight /\ queued <= MaxQueueSize
  BY DEF IInv, TypeOK, CountersExact
<1>2. ComingStates \in SUBSET States /\ TypeOK
  BY DEF ComingStates, States, QueuedStates, IInv
<1>3. Cardinality(In(ComingStates)) \in Nat
  BY <1>2, CountOneMove
<1>4. renotify /\ waiters # <<>> => MaxInflight - inflight <= Cardinality(In(ComingStates))
  BY DEF IInv, WorkConserving
<1>5. renotify /\ waiters' # <<>> =>
          MaxInflight - inflight' <=
              Cardinality(In(ComingStates)) + Moved(ComingStates, pc[r], pc'[r])
  BY <1>1, <1>3, <1>4, MaxInflightPositive
<1>6. /\ inflight' <= MaxInflight /\ queued' <= MaxQueueSize
      /\ inflight' = inflight + Moved(RunningStates, pc[r], pc'[r])
  BY <1>1, MaxQueueSizeNat
<1> QED BY <1>5, <1>6, OneMoveKeeps

(* Starting a queue_full 429 keeps IInv. *)
LEMMA RejectFullKeeps ==
    ASSUME IInv, NEW r \in Requests, NEW q, Owner(r, q), RejectFull(r, q), Newcomer(r)
    PROVE  IInv'
<1>1. TypeOK /\ WaitStructures /\ queued \in Nat
  BY DEF IInv, TypeOK
<1>2. /\ pc' \in [Requests -> States] /\ pc'[r] = "rejectFull"
      /\ OnlyMoves(pc, pc', r) /\ Quiet(r)
  <2>1. "rejectFull" \in States
    BY DEF States, LockStates, RejectStates
  <2> QED BY <1>1, <2>1, Alone DEF RejectFull
<1>3. /\ lockq' = q /\ waiters' = waiters /\ renotify' = renotify
      /\ inflight' = inflight /\ queued' = queued
  BY DEF RejectFull
<1>4. LockPart'
  <2>1. pc'[r] \in RejectStates
    BY <1>2 DEF RejectStates
  <2> QED BY <1>1, <1>2, <1>3, <2>1, KeepLock
<1>5. WaitPart'
  <2>1. pc[r] # "sleeping" /\ pc'[r] # "sleeping"
    BY <1>2 DEF Newcomer
  <2> QED BY <1>1, <1>2, <1>3, <2>1, SameWaiters
<1>6. /\ Moved(RunningStates, pc[r], pc'[r]) = 0
      /\ Moved(QueuedStates, pc[r], pc'[r]) = 0
      /\ Moved(ComingStates, pc[r], pc'[r]) = 0
  BY <1>2 DEF Moved, RunningStates, QueuedStates, ComingStates, Newcomer
<1>7. queued' = queued + Moved(QueuedStates, pc[r], pc'[r])
  BY <1>1, <1>3, <1>6
<1> QED BY <1>2, <1>3, <1>4, <1>5, <1>6, <1>7, CountersAside

(* Queueing behind the lock; a sleeper's wait list entry goes with it.     *)
LEMMA AwaitLockKeeps ==
    ASSUME IInv, NEW r \in Requests, NEW s, AwaitLock(r, s), UNCHANGED waiters,
           \/ pc[r] = "new" /\ s = "entering"
           \/ pc[r] = "notified" /\ s \in {"reacquiring", "expired"}
           \/ pc[r] = "running" /\ s = "releasing"
    PROVE  IInv'
<1>1. TypeOK /\ WaitStructures /\ queued \in Nat
  BY DEF IInv, TypeOK
<1>2. /\ pc' \in [Requests -> States] /\ pc'[r] = s
      /\ OnlyMoves(pc, pc', r) /\ Quiet(r)
  <2>1. s \in States
    BY DEF States, LockStates
  <2> QED BY <1>1, <2>1, Alone DEF AwaitLock
<1>3. /\ lockq # <<>> /\ lockq' = Append(lockq, r) /\ waiters' = waiters
      /\ renotify' = renotify /\ inflight' = inflight /\ queued' = queued
  BY DEF AwaitLock
<1>4. LockPart'
  <2>1. pc[r] \notin LockStates /\ pc'[r] \in LockStates \ RejectStates
    BY <1>2 DEF LockStates, RejectStates
  <2> QED BY <1>1, <1>2, <1>3, <2>1, JoinLock
<1>5. WaitPart'
  <2>1. pc[r] # "sleeping" /\ pc'[r] # "sleeping"
    BY <1>2
  <2> QED BY <1>1, <1>2, <1>3, <2>1, SameWaiters
<1>6. /\ Moved(RunningStates, pc[r], pc'[r]) = 0
      /\ Moved(QueuedStates, pc[r], pc'[r]) = 0
      /\ Moved(ComingStates, pc[r], pc'[r]) = 0
  BY <1>2 DEF Moved, RunningStates, QueuedStates, ComingStates
<1>7. queued' = queued + Moved(QueuedStates, pc[r], pc'[r])
  BY <1>1, <1>3, <1>6
<1> QED BY <1>2, <1>3, <1>4, <1>5, <1>6, <1>7, CountersAside

(* What wait() leaves of the wait list when it is cancelled.               *)
Without(r, ws) == /\ ws \in Seq(Requests) /\ IsInjective(ws)
                  /\ Range(ws) = In({"sleeping"}) \ {r}
                  /\ ws # <<>> => waiters # <<>>

(* A wait that timed out and owns the lock again keeps IInv. *)
LEMMA GiveUpKeeps ==
    ASSUME IInv, NEW r \in Requests, NEW q, Owner(r, q), NEW ws, Without(r, ws),
           GiveUp(r, q, ws), pc[r] \in {"sleeping", "notified", "reacquiring", "expired"}
    PROVE  IInv'
<1>1. TypeOK /\ WaitStructures
  BY DEF IInv
<1>2. /\ lockq' = q /\ inflight' = inflight /\ queued' = queued /\ renotify' = renotify
  BY DEF GiveUp
<1>3. /\ Moved(RunningStates, pc[r], "rejectLate") = 0
      /\ Moved(QueuedStates, pc[r], "rejectLate") = 0
      /\ Moved(ComingStates, pc[r], "rejectLate") \in {0, -1}
  BY DEF Moved, RunningStates, QueuedStates, ComingStates
<1>4. /\ inflight \in Nat /\ queued \in Nat
      /\ inflight <= MaxInflight /\ queued <= MaxQueueSize
  BY <1>1 DEF TypeOK, IInv, CountersExact
<1>5. CASE renotify
  <2>1. Notify(r, "rejectLate", ws)
    BY <1>5 DEF GiveUp
  <2>2. /\ pc' \in [Requests -> States] /\ pc'[r] = "rejectLate" /\ Quiet(r)
        /\ WaitPart'
        /\ Cardinality(In(RunningStates)') =
              Cardinality(In(RunningStates)) + Moved(RunningStates, pc[r], "rejectLate")
        /\ Cardinality(In(QueuedStates)') =
              Cardinality(In(QueuedStates)) + Moved(QueuedStates, pc[r], "rejectLate")
        /\ waiters' # <<>> => Cardinality(In(ComingStates)') =
              Cardinality(In(ComingStates)) + 1 + Moved(ComingStates, pc[r], "rejectLate")
    BY <1>1, <2>1, NotifyWakesOne DEF Without, Quiet, WaitPart
  <2>3. waiters' # <<>> => waiters # <<>>
    BY <2>1 DEF Notify, Without
  <2>4. LockPart'
    <3>1. pc'[r] \in RejectStates
      BY <2>2 DEF RejectStates
    <3> QED BY <1>1, <1>2, <2>2, <3>1, KeepLock
  <2>5. ComingStates \in SUBSET States
    BY DEF ComingStates, States, QueuedStates
  <2>6. IsFiniteSet(In(ComingStates))
    BY RequestsFinite, FS_Subset DEF In
  <2>7. Cardinality(In(ComingStates)) \in Nat
    BY <2>6, FS_CardinalityType
  <2>8. waiters' # <<>> => MaxInflight - inflight <= Cardinality(In(ComingStates))
    BY <1>5, <2>3 DEF IInv, WorkConserving
  <2>9. renotify /\ waiters' # <<>> => MaxInflight - inflight' <= Cardinality(In(ComingStates)')
    BY <1>2, <1>3, <1>4, <2>2, <2>7, <2>8, MaxInflightPositive
  <2>10. /\ inflight' = inflight + 0 /\ inflight' <= MaxInflight
         /\ queued' = queued + 0 /\ queued' <= MaxQueueSize
         /\ Moved(RunningStates, pc[r], "rejectLate") = 0
         /\ Moved(QueuedStates, pc[r], "rejectLate") = 0
    BY <1>2, <1>3, <1>4
  <2>11. /\ Cardinality(In(RunningStates)') = Cardinality(In(RunningStates)) + 0
         /\ Cardinality(In(QueuedStates)') = Cardinality(In(QueuedStates)) + 0
    BY <2>2, <2>10
  <2> QED BY <1>2, <2>2, <2>4, <2>9, <2>10, <2>11, Recounted
<1>6. CASE ~renotify
  <2>1. /\ pc' \in [Requests -> States] /\ pc'[r] = "rejectLate"
        /\ OnlyMoves(pc, pc', r) /\ Quiet(r)
    <3>1. pc' = [pc EXCEPT ![r] = "rejectLate"] /\ "rejectLate" \in States
      BY <1>6 DEF GiveUp, States, QueuedStates
    <3> QED BY <1>1, <3>1, Alone
  <2>2. waiters' = ws
    BY <1>6 DEF GiveUp
  <2>3. LockPart'
    <3>1. pc'[r] \in RejectStates
      BY <2>1 DEF RejectStates
    <3> QED BY <1>1, <1>2, <2>1, <3>1, KeepLock
  <2>4. WaitPart'
    <3>1. In({"sleeping"})' = In({"sleeping"}) \ {r}
      BY <2>1 DEF In, OnlyMoves
    <3> QED BY <2>2, <3>1 DEF WaitPart, Without
  <2>5. /\ Moved(RunningStates, pc[r], pc'[r]) = 0
        /\ Moved(QueuedStates, pc[r], pc'[r]) = 0
    BY <1>3, <2>1
  <2>6. queued' = queued + Moved(QueuedStates, pc[r], pc'[r])
    BY <1>2, <1>4, <2>5
  <2> QED BY <1>2, <1>6, <2>1, <2>3, <2>4, <2>5, <2>6, CountersAside
<1> QED BY <1>5, <1>6

(* A sleeper whose timer fires while the lock is taken.                    *)
LEMMA SleeperQueues ==
    ASSUME IInv, NEW r \in Requests, pc[r] = "sleeping", NEW ws, Without(r, ws),
           AwaitLock(r, "expired"), waiters' = ws
    PROVE  IInv'
<1>1. TypeOK /\ WaitStructures /\ queued \in Nat
  BY DEF IInv, TypeOK
<1>2. /\ pc' \in [Requests -> States] /\ pc'[r] = "expired"
      /\ OnlyMoves(pc, pc', r) /\ Quiet(r)
  <2>1. "expired" \in States
    BY DEF States, LockStates
  <2> QED BY <1>1, <2>1, Alone DEF AwaitLock
<1>3. /\ lockq # <<>> /\ lockq' = Append(lockq, r)
      /\ renotify' = renotify /\ inflight' = inflight /\ queued' = queued
  BY DEF AwaitLock
<1>4. LockPart'
  <2>1. pc[r] \notin LockStates /\ pc'[r] \in LockStates \ RejectStates
    BY <1>2 DEF LockStates, RejectStates
  <2> QED BY <1>1, <1>2, <1>3, <2>1, JoinLock
<1>5. WaitPart'
  <2>1. In({"sleeping"})' = In({"sleeping"}) \ {r}
    BY <1>2 DEF In, OnlyMoves
  <2> QED BY <2>1 DEF WaitPart, Without
<1>6. /\ Moved(RunningStates, pc[r], pc'[r]) = 0
      /\ Moved(QueuedStates, pc[r], pc'[r]) = 0
      /\ Moved(ComingStates, pc[r], pc'[r]) = 1
  BY <1>2 DEF Moved, RunningStates, QueuedStates, ComingStates
<1>7. queued' = queued + Moved(QueuedStates, pc[r], pc'[r])
  BY <1>1, <1>3, <1>6
<1>8. waiters' # <<>> => waiters # <<>>
  BY DEF Without
<1> QED BY <1>2, <1>3, <1>4, <1>5, <1>6, <1>7, <1>8, CountersAside

(* Giving the slot back: the notification makes up for the freed slot.     *)
LEMMA FreeSlotKeeps ==
    ASSUME IInv, NEW r \in Requests, NEW q, Owner(r, q), FreeSlot(r, q),
           pc[r] \in RunningStates
    PROVE  IInv'
<1>1. TypeOK /\ WaitStructures
  BY DEF IInv
<1>2. /\ lockq' = Tail(q) /\ inflight' = Decrement(inflight) /\ queued' = queued
      /\ renotify' = renotify /\ Notify(r, "served", waiters)
  BY DEF FreeSlot
<1>3. /\ waiters \in Seq(Requests) /\ IsInjective(waiters)
      /\ Range(waiters) = In({"sleeping"}) \ {r}
  BY <1>1 DEF TypeOK, WaitStructures, In, RunningStates
<1>4. /\ pc' \in [Requests -> States] /\ pc'[r] = "served" /\ Quiet(r)
      /\ WaitPart'
      /\ Cardinality(In(RunningStates)') =
            Cardinality(In(RunningStates)) + Moved(RunningStates, pc[r], "served")
      /\ Cardinality(In(QueuedStates)') =
            Cardinality(In(QueuedStates)) + Moved(QueuedStates, pc[r], "served")
      /\ waiters' # <<>> => Cardinality(In(ComingStates)') =
            Cardinality(In(ComingStates)) + 1 + Moved(ComingStates, pc[r], "served")
  BY <1>1, <1>2, <1>3, NotifyWakesOne DEF Quiet, WaitPart
<1>5. LockPart'
  <2>1. pc'[r] \notin LockStates
    BY <1>4 DEF LockStates, RejectStates
  <2> QED BY <1>1, <1>2, <1>4, <2>1, LeaveLock
<1>6. /\ Moved(RunningStates, pc[r], "served") = -1
      /\ Moved(QueuedStates, pc[r], "served") = 0
      /\ Moved(ComingStates, pc[r], "served") = 0
  BY DEF Moved, RunningStates, QueuedStates, ComingStates
<1>7. /\ inflight \in Nat /\ queued \in Nat
      /\ inflight <= MaxInflight /\ queued <= MaxQueueSize
  BY <1>1 DEF TypeOK, IInv, CountersExact
<1>8. inflight > 0
  <2>1. r \in In(RunningStates)
    BY DEF In
  <2>2. Cardinality(In(RunningStates)) \in Nat \ {0}
    BY <2>1, SomeIn
  <2> QED BY <1>7, <2>2 DEF IInv, CountersExact
<1>9. /\ inflight' = inflight + (-1) /\ inflight' <= MaxInflight
      /\ queued' = queued + 0 /\ queued' <= MaxQueueSize
  BY <1>2, <1>7, <1>8, MaxInflightPositive DEF Decrement
<1>10. renotify /\ waiters' # <<>> =>
           MaxInflight - inflight' <= Cardinality(In(ComingStates)')
  <2>1. waiters' # <<>> => waiters # <<>>
    BY <1>2 DEF Notify
  <2>2. IsFiniteSet(In(ComingStates))
    BY RequestsFinite, FS_Subset DEF In
  <2>3. Cardinality(In(ComingStates)) \in Nat
    BY <2>2, FS_CardinalityType
  <2>4. renotify /\ waiters # <<>> => MaxInflight - inflight <= Cardinality(In(ComingStates))
    BY DEF IInv, WorkConserving
  <2> QED BY <1>4, <1>6, <1>7, <1>9, <2>1, <2>3, <2>4, MaxInflightPositive
<1>11. /\ Cardinality(In(RunningStates)') = Cardinality(In(RunningStates)) + (-1)
       /\ Cardinality(In(QueuedStates)') = Cardinality(In(QueuedStates)) + 0
  BY <1>4, <1>6
<1> QED BY <1>2, <1>4, <1>5, <1>9, <1>10, <1>11, Recounted

(* The end of a 429 keeps IInv. *)
LEMMA RejectSentKeeps ==
    ASSUME IInv, NEW r \in Requests, RejectSent(r)
    PROVE  IInv'
<1>1. TypeOK /\ WaitStructures /\ queued \in Nat
  BY DEF IInv, TypeOK
<1>2. /\ pc[r] \in RejectStates /\ HoldsLock(r) /\ lockq' = Tail(lockq)
      /\ queued' = IF pc[r] = "rejectLate" THEN Decrement(queued) ELSE queued
      /\ inflight' = inflight /\ waiters' = waiters /\ renotify' = renotify
  BY DEF RejectSent
<1>3. /\ pc' \in [Requests -> States] /\ pc'[r] = "rejected"
      /\ OnlyMoves(pc, pc', r) /\ Quiet(r)
  <2>1. "rejected" \in States
    BY DEF States
  <2> QED BY <1>1, <2>1, Alone DEF RejectSent
<1>4. LockPart'
  <2>1. Owner(r, lockq) /\ pc'[r] \notin LockStates
    BY <1>2, <1>3 DEF Owner, LockStates, RejectStates
  <2> QED BY <1>1, <1>2, <1>3, <2>1, LeaveLock
<1>5. WaitPart'
  <2>1. pc[r] # "sleeping" /\ pc'[r] # "sleeping"
    BY <1>2, <1>3 DEF RejectStates
  <2> QED BY <1>1, <1>2, <1>3, <2>1, SameWaiters
<1>6. /\ Moved(RunningStates, pc[r], pc'[r]) = 0
      /\ Moved(ComingStates, pc[r], pc'[r]) = 0
      /\ Moved(QueuedStates, pc[r], pc'[r]) = IF pc[r] = "rejectLate" THEN -1 ELSE 0
  BY <1>2, <1>3 DEF Moved, RunningStates, ComingStates, QueuedStates, RejectStates
<1>7. queued' = queued + Moved(QueuedStates, pc[r], pc'[r])
  <2>1. CASE pc[r] = "rejectLate"
    <3>1. r \in In(QueuedStates)
      BY <2>1 DEF In, QueuedStates
    <3>2. Cardinality(In(QueuedStates)) \in Nat \ {0}
      BY <3>1, SomeIn
    <3>3. queued > 0
      BY <1>1, <3>2 DEF IInv, CountersExact
    <3> QED BY <1>1, <1>2, <1>6, <2>1, <3>3 DEF Decrement
  <2>2. CASE pc[r] # "rejectLate"
    BY <1>1, <1>2, <1>6, <2>2
  <2> QED BY <2>1, <2>2
<1> QED BY <1>2, <1>3, <1>4, <1>5, <1>6, <1>7, CountersAside

(* A cancelled acquire() starts over at the back of the lock's queue.      *)
LEMMA RequeueKeeps ==
    ASSUME IInv, NEW r \in Requests, pc[r] = "reacquiring",
           NEW i \in DOMAIN lockq, lockq[i] = r, Len(lockq) > 1,
           pc' = [pc EXCEPT ![r] = "expired"], lockq' = Append(RemoveAt(lockq, i), r),
           UNCHANGED <<inflight, queued, waiters, renotify>>
    PROVE  IInv'
<1>1. TypeOK /\ WaitStructures /\ queued \in Nat
  BY DEF IInv, TypeOK
<1>2. /\ pc' \in [Requests -> States] /\ pc'[r] = "expired"
      /\ OnlyMoves(pc, pc', r) /\ Quiet(r)
  <2>1. "expired" \in States
    BY DEF States, LockStates
  <2> QED BY <1>1, <2>1, Alone
<1>3. /\ RemoveAt(lockq, i) \in Seq(Requests) /\ IsInjective(RemoveAt(lockq, i))
      /\ Range(RemoveAt(lockq, i)) = In(LockStates) \ {r}
      /\ Head(lockq) # r => /\ RemoveAt(lockq, i) # <<>>
                            /\ Head(RemoveAt(lockq, i)) = Head(lockq)
  <2>1. lockq \in Seq(Requests) /\ IsInjective(lockq) /\ Range(lockq) = In(LockStates)
    BY <1>1 DEF TypeOK, WaitStructures
  <2> QED BY <2>1, RemoveAtOnce
<1>4. PICK c \in Seq(Requests) : c = RemoveAt(lockq, i)
  BY <1>3
<1>5. /\ lockq' \in Seq(Requests) /\ IsInjective(lockq') /\ lockq' # <<>>
      /\ Range(lockq') = In(LockStates) \cup {r}
      /\ Head(lockq) # r => Head(lockq') = Head(lockq)
  <2>1. IsInjective(c) /\ r \notin Range(c) /\ lockq' = Append(c, r)
    BY <1>3, <1>4
  <2>2. /\ Append(c, r) \in Seq(Requests) /\ IsInjective(Append(c, r)) /\ Append(c, r) # <<>>
        /\ Range(Append(c, r)) = Range(c) \cup {r}
        /\ c # <<>> => Head(Append(c, r)) = Head(c)
    BY <2>1, AppendNew
  <2> QED BY <1>3, <1>4, <2>1, <2>2
<1>6. LockPart'
  <2>1. In(LockStates)' = In(LockStates) \cup {r}
    BY <1>2 DEF In, OnlyMoves, LockStates
  <2>2. In(RejectStates)' = In(RejectStates) /\ r \notin In(RejectStates)
    BY <1>2 DEF In, OnlyMoves, RejectStates
  <2>3. \A x \in In(RejectStates) : Head(lockq') = x
    BY <1>1, <1>5, <2>2 DEF WaitStructures, HoldsLock
  <2> QED BY <1>5, <2>1, <2>2, <2>3 DEF LockPart, HoldsLock
<1>7. WaitPart'
  <2>1. pc[r] # "sleeping" /\ pc'[r] # "sleeping"
    BY <1>2
  <2> QED BY <1>1, <1>2, <2>1, SameWaiters
<1>8. /\ Moved(RunningStates, pc[r], pc'[r]) = 0
      /\ Moved(QueuedStates, pc[r], pc'[r]) = 0
      /\ Moved(ComingStates, pc[r], pc'[r]) = 0
  BY <1>2 DEF Moved, RunningStates, QueuedStates, ComingStates
<1>9. /\ queued' = queued + Moved(QueuedStates, pc[r], pc'[r])
      /\ waiters' = waiters /\ inflight' = inflight /\ renotify' = renotify
  BY <1>1, <1>8
<1> QED BY <1>2, <1>6, <1>7, <1>8, <1>9, CountersAside

-----------------------------------------------------------------------------
(* The actions.                                                            *)
LEMMA AdmitKeeps ==
    ASSUME IInv, NEW r \in Requests, NEW q, Owner(r, q), Newcomer(r), Admit(r, q)
    PROVE  IInv'
<1>1. CASE TakeSlot(r, q, queued)
  BY <1>1, TakeSlotKeeps
<1>2. CASE RejectFull(r, q)
  BY <1>2, RejectFullKeeps
<1>3. CASE queued < MaxQueueSize /\ WaitForSlot(r, q, queued + 1)
  BY <1>3, WaitForSlotKeeps
<1> QED BY <1>1, <1>2, <1>3 DEF Admit

(* The loop test after a wake-up keeps IInv. *)
LEMMA RecheckKeeps ==
    ASSUME IInv, NEW r \in Requests, NEW q, Owner(r, q), Woken(r), Recheck(r, q)
    PROVE  IInv'
<1>1. CASE TakeSlot(r, q, Decrement(queued))
  BY <1>1, TakeSlotKeeps
<1>2. CASE WaitForSlot(r, q, queued)
  BY <1>2, WaitForSlotKeeps
<1> QED BY <1>1, <1>2 DEF Recheck

(* wait_for's timer keeps IInv, wherever it finds the task. *)
LEMMA TimeoutKeeps ==
    ASSUME IInv, NEW r \in Requests, Timeout(r)
    PROVE  IInv'
<1>1. /\ waiters \in Seq(Requests) /\ IsInjective(waiters)
      /\ Range(waiters) = In({"sleeping"})
  BY DEF IInv, TypeOK, WaitStructures
<1>2. CASE TimeoutSleeping(r)
  <2>1. PICK i \in DOMAIN waiters : waiters[i] = r /\ LoseWait(r, RemoveAt(waiters, i))
    BY <1>2 DEF TimeoutSleeping
  <2>2. pc[r] = "sleeping"
    BY <1>2 DEF TimeoutSleeping
  <2>3. Without(r, RemoveAt(waiters, i))
    <3>1. waiters # <<>>
      BY <2>1
    <3>2. /\ RemoveAt(waiters, i) \in Seq(Requests) /\ IsInjective(RemoveAt(waiters, i))
          /\ Range(RemoveAt(waiters, i)) = In({"sleeping"}) \ {r}
      BY <1>1, <2>1, RemoveAtOnce
    <3> QED BY <3>1, <3>2 DEF Without
  <2>4. CASE lockq = <<>> /\ GiveUp(r, <<r>>, RemoveAt(waiters, i))
    BY <2>2, <2>3, <2>4, GiveUpKeeps DEF Owner
  <2>5. CASE AwaitLock(r, "expired") /\ waiters' = RemoveAt(waiters, i)
    BY <2>2, <2>3, <2>5, SleeperQueues
  <2> QED BY <2>1, <2>4, <2>5 DEF LoseWait
<1>3. ASSUME pc[r] # "sleeping" PROVE Without(r, waiters)
  BY <1>1, <1>3 DEF Without, In
<1>4. CASE TimeoutNotified(r)
  <2>1. pc[r] = "notified" /\ LoseWait(r, waiters)
    BY <1>4 DEF TimeoutNotified
  <2>2. CASE lockq = <<>> /\ GiveUp(r, <<r>>, waiters)
    BY <1>3, <2>1, <2>2, GiveUpKeeps DEF Owner
  <2>3. CASE AwaitLock(r, "expired") /\ waiters' = waiters
    BY <2>1, <2>3, AwaitLockKeeps
  <2> QED BY <2>1, <2>2, <2>3 DEF LoseWait
<1>5. CASE TimeoutReacquiring(r)
  <2>1. PICK i \in DOMAIN lockq :
          /\ lockq[i] = r
          /\ \/ Len(lockq) = 1 /\ GiveUp(r, lockq, waiters)
             \/ /\ Len(lockq) > 1
                /\ pc' = [pc EXCEPT ![r] = "expired"]
                /\ lockq' = Append(RemoveAt(lockq, i), r)
                /\ UNCHANGED <<inflight, queued, waiters, renotify>>
    BY <1>5 DEF TimeoutReacquiring
  <2>2. pc[r] = "reacquiring"
    BY <1>5 DEF TimeoutReacquiring
  <2>3. CASE Len(lockq) = 1 /\ GiveUp(r, lockq, waiters)
    <3>1. lockq \in Seq(Requests)
      BY DEF IInv, TypeOK
    <3>2. Owner(r, lockq)
      BY <2>1, <2>3, <3>1, EmptySeq DEF Owner, HoldsLock
    <3> QED BY <1>3, <2>2, <2>3, <3>2, GiveUpKeeps
  <2>4. CASE /\ Len(lockq) > 1
             /\ pc' = [pc EXCEPT ![r] = "expired"]
             /\ lockq' = Append(RemoveAt(lockq, i), r)
             /\ UNCHANGED <<inflight, queued, waiters, renotify>>
    BY <2>1, <2>2, <2>4, RequeueKeeps
  <2> QED BY <2>1, <2>3, <2>4
<1> QED BY <1>2, <1>4, <1>5 DEF Timeout

(* Every step keeps the invariant.                                         *)
LEMMA NextKeepsIInv == IInv /\ [Next]_vars => IInv'
<1> SUFFICES ASSUME IInv, [Next]_vars PROVE IInv'
  OBVIOUS
<1>1. CASE UNCHANGED vars
  <2>1. \A S : In(S)' = In(S)
    BY <1>1 DEF In, vars
  <2> QED BY <1>1, <2>1 DEF IInv, TypeOK, CountersExact, WaitStructures, WorkConserving,
                            HoldsLock, vars
<1>2. ASSUME NEW r \in Requests, Arrive(r) PROVE IInv'
  BY <1>2, AdmitKeeps, AwaitLockKeeps DEF Arrive, Owner, Newcomer
<1>3. ASSUME NEW r \in Requests, RunReady(r) PROVE IInv'
  <2>1. CASE Enter(r)
    BY <2>1, AdmitKeeps DEF Enter, Owner, Newcomer
  <2>2. CASE Resume(r)
    BY <2>2, RecheckKeeps, AwaitLockKeeps DEF Resume, Owner, Woken
  <2>3. CASE Reacquire(r)
    BY <2>3, RecheckKeeps DEF Reacquire, Owner, Woken
  <2>4. CASE Expire(r)
    <3>1. Without(r, waiters)
      BY <2>4 DEF Expire, Without, In, IInv, TypeOK, WaitStructures
    <3> QED BY <2>4, <3>1, GiveUpKeeps DEF Expire, Owner
  <2>5. CASE Release(r)
    BY <2>5, FreeSlotKeeps DEF Release, Owner, RunningStates
  <2> QED BY <1>3, <2>1, <2>2, <2>3, <2>4, <2>5 DEF RunReady
<1>4. ASSUME NEW r \in Requests, Finish(r) PROVE IInv'
  BY <1>4, FreeSlotKeeps, AwaitLockKeeps DEF Finish, Owner, RunningStates
<1>5. ASSUME NEW r \in Requests, RejectSent(r) PROVE IInv'
  BY <1>5, RejectSentKeeps
<1>6. ASSUME NEW r \in Requests, Timeout(r) PROVE IInv'
  BY <1>6, TimeoutKeeps
<1> QED BY <1>1, <1>2, <1>3, <1>4, <1>5, <1>6 DEF Next, Terminated

(* The invariant holds in every state the gate reaches.                    *)
THEOREM Invariant == Spec => []IInv
BY InitIInv, NextKeepsIInv, PTL DEF Spec

(* Every variable keeps its type.                                          *)
THEOREM TypeCorrect == Spec => []TypeOK
<1>1. IInv => TypeOK
  BY DEF IInv
<1> QED BY <1>1, Invariant, PTL

(* __call__ and _acquire_slot: however arrivals, wake-ups, timers and      *)
(* releases interleave, _inflight and _queued count what they name, and    *)
(* neither V1_MAX_INFLIGHT nor V1_MAX_QUEUE_SIZE is ever exceeded.         *)
THEOREM LimitsRespected == Spec => []CountersExact
<1>1. IInv => CountersExact
  BY DEF IInv
<1> QED BY <1>1, Invariant, PTL

(* No task is lost between the condition's lock and its wait list, and     *)
(* every 429 is sent by the owner of the lock.                             *)
THEOREM NoTaskStranded == Spec => []WaitStructures
<1>1. IInv => WaitStructures
  BY DEF IInv
<1> QED BY <1>1, Invariant, PTL

(* Where asyncio passes a cancelled notification on, every free slot has a *)
(* woken task on its way while requests sleep: notify(1) in the finally    *)
(* block is enough.                                                        *)
THEOREM SlotsNeverIdle == Spec => []WorkConserving
<1>1. IInv => WorkConserving
  BY DEF IInv
<1> QED BY <1>1, Invariant, PTL

-----------------------------------------------------------------------------
(* While the owner of the lock is refusing, every other task that runs is  *)
(* stopped at the lock.                                                    *)
LEMMA OnlyTheRefuser ==
    ASSUME IInv, NEW x \in In(RejectStates), NEW r \in Requests, NEW q, Owner(r, q)
    PROVE  r = x
BY OwnedQueue DEF IInv

(* _send_reject suspends with the condition's lock held: until the 429 is  *)
(* out, no counter moves.                                                  *)
THEOREM RefusalIsStillDue == Spec => CountsFrozenWhileRefusing
<1>1. ASSUME IInv, [Next]_vars
      PROVE  \A r \in In(RejectStates) :
                /\ inflight' = inflight
                /\ queued' # queued => pc'[r] = "rejected"
  <2> SUFFICES ASSUME NEW x \in In(RejectStates)
               PROVE  inflight' = inflight /\ (queued' # queued => pc'[x] = "rejected")
    OBVIOUS
  <2>1. pc[x] \in RejectStates /\ x \in Requests
    BY DEF In
  <2>2. \A r \in Requests : \A q : Owner(r, q) => r = x
    BY <1>1, OnlyTheRefuser
  <2>3. ASSUME NEW r \in Requests, NEW s, AwaitLock(r, s)
        PROVE  inflight' = inflight /\ queued' = queued
    BY <2>3 DEF AwaitLock
  <2>4. CASE UNCHANGED vars
    BY <2>4 DEF vars
  <2>5. ASSUME NEW r \in Requests, Arrive(r) PROVE inflight' = inflight /\ queued' = queued
    BY <2>1, <2>2, <2>3, <2>5 DEF Arrive, Owner, RejectStates
  <2>6. ASSUME NEW r \in Requests, RunReady(r) PROVE inflight' = inflight /\ queued' = queued
    <3>1. CASE Resume(r)
      BY <2>1, <2>2, <2>3, <3>1 DEF Resume, Owner, RejectStates
    <3>2. CASE pc[r] \in {"entering", "reacquiring", "expired", "releasing"} /\ HoldsLock(r)
      BY <2>1, <2>2, <3>2 DEF Owner, RejectStates
    <3> QED BY <2>6, <3>1, <3>2 DEF RunReady, Enter, Reacquire, Expire, Release
  <2>7. ASSUME NEW r \in Requests, Finish(r) PROVE inflight' = inflight /\ queued' = queued
    BY <2>1, <2>2, <2>3, <2>7 DEF Finish, Owner, RejectStates
  <2>8. ASSUME NEW r \in Requests, RejectSent(r)
        PROVE  inflight' = inflight /\ (queued' # queued => pc'[x] = "rejected")
    <3>1. r = x /\ inflight' = inflight /\ pc' = [pc EXCEPT ![r] = "rejected"]
      BY <2>2, <2>8 DEF RejectSent, Owner
    <3> QED BY <1>1, <2>1, <3>1 DEF IInv, TypeOK
  <2>9. ASSUME NEW r \in Requests, Timeout(r) PROVE inflight' = inflight /\ queued' = queued
    BY <2>3, <2>9 DEF Timeout, TimeoutSleeping, TimeoutNotified, TimeoutReacquiring,
                      LoseWait, GiveUp
  <2> QED BY <1>1, <2>4, <2>5, <2>6, <2>7, <2>8, <2>9 DEF Next, Terminated
<1>2. IInv /\ [Next]_vars => [\A r \in In(RejectStates) :
                                /\ inflight' = inflight
                                /\ queued' # queued => pc'[r] = "rejected"]_vars
  BY <1>1
<1> QED BY <1>2, Invariant, PTL DEF Spec, CountsFrozenWhileRefusing

-----------------------------------------------------------------------------
(* The gate, with its lock, wait list and timers, implements the abstract  *)
(* promise of BoundedAdmission for every set of requests and every limit.  *)

\* Where each request stands for somebody outside the gate.
Stand == [r \in Requests |-> Standing(pc[r])]

(* What each suspension point looks like from outside.                     *)
LEMMA StandingValues ==
    /\ \A s \in RunningStates : Standing(s) = "running"
    /\ \A s \in QueuedStates : Standing(s) = "queued"
    /\ \A s \in {"rejectFull", "rejected"} : Standing(s) = "refused"
    /\ \A s \in {"new", "entering"} : Standing(s) = "outside"
    /\ Standing("served") = "served"
    /\ \A s \in States : /\ Standing(s) = "running" => s \in RunningStates
                         /\ Standing(s) = "queued" => s \in QueuedStates
<1>1. \A s \in RunningStates : Standing(s) = "running"
  BY DEF Standing, RunningStates, QueuedStates
<1>2. \A s \in QueuedStates : Standing(s) = "queued"
  BY DEF Standing, RunningStates, QueuedStates
<1>3. \A s \in {"rejectFull", "rejected"} : Standing(s) = "refused"
  BY DEF Standing, RunningStates, QueuedStates
<1>4. \A s \in {"new", "entering"} : Standing(s) = "outside"
  BY DEF Standing, RunningStates, QueuedStates
<1>5. Standing("served") = "served"
  BY DEF Standing, RunningStates, QueuedStates
<1>6. \A s \in States \ (RunningStates \cup QueuedStates) :
          s \in {"rejectFull", "rejected", "new", "entering", "served"}
  BY DEF States, LockStates, RejectStates, QueuedStates, RunningStates
<1> QED BY <1>1, <1>2, <1>3, <1>4, <1>5, <1>6

(* The counters tell whether the abstract gate is full.                    *)
LEMMA Fullness ==
    ASSUME IInv
    PROVE  /\ Gate!SlotsFull <=> inflight = MaxInflight
           /\ Gate!QueueFull <=> queued = MaxQueueSize
<1>1. pc \in [Requests -> States]
  BY DEF IInv, TypeOK
<1>2. Gate!With("running") = In(RunningStates)
  BY <1>1, StandingValues DEF Gate!With, In
<1>3. Gate!With("queued") = In(QueuedStates)
  BY <1>1, StandingValues DEF Gate!With, In
<1>4. /\ inflight = Cardinality(In(RunningStates))
      /\ queued = Cardinality(In(QueuedStates))
  BY DEF IInv, CountersExact
<1>5. \A S : Gate!Cardinality(S) = Cardinality(S)
  BY DEF Gate!Cardinality, Cardinality
<1> QED BY <1>2, <1>3, <1>4, <1>5 DEF Gate!SlotsFull, Gate!QueueFull

(* A step of r moves r alone as seen from outside: that a sleeper was      *)
(* woken does not show.                                                    *)
LEMMA OneStands ==
    ASSUME TypeOK, NEW r \in Requests, Quiet(r)
    PROVE  /\ Standing(pc'[r]) = Standing(pc[r]) => Stand' = Stand
           /\ Stand[r] = Standing(pc[r])
           /\ Stand' = [Stand EXCEPT ![r] = Standing(pc'[r])]
<1>1. Standing("sleeping") = Standing("notified")
  BY StandingValues DEF QueuedStates
<1>2. \A x \in Requests : x # r => Standing(pc'[x]) = Standing(pc[x])
  BY <1>1 DEF Quiet
<1>3. Stand[r] = Standing(pc[r])
  BY DEF Stand
<1>4. Stand' = [x \in Requests |-> Standing(pc'[x])]
  BY DEF Stand
<1>5. PICK v : v = Standing(pc'[r])
  OBVIOUS
<1>6. [x \in Requests |-> Standing(pc'[x])] = [Stand EXCEPT ![r] = v]
  BY <1>2, <1>5 DEF Stand
<1>7. Standing(pc'[r]) = Standing(pc[r]) => Stand' = Stand
  BY <1>2, <1>4 DEF Stand
<1> QED BY <1>3, <1>4, <1>5, <1>6, <1>7

(* A move of one request whose standing becomes s is the abstract move to s. *)
LEMMA Becomes ==
    ASSUME TypeOK, NEW r \in Requests, Quiet(r)
    PROVE  Gate!Become(r, Standing(pc[r]), Standing(pc'[r]))
BY OneStands DEF Gate!Become, Stand

-----------------------------------------------------------------------------
(* Each critical section is a step of the abstract gate, or none.          *)
GateStep == Gate!Next \/ Stand' = Stand

(* Taking a slot is Start or Promote of the gate. *)
LEMMA TakeSlotMaps ==
    ASSUME IInv, NEW r \in Requests, NEW q, NEW n, TakeSlot(r, q, n), Newcomer(r) \/ Woken(r)
    PROVE  GateStep
<1>1. TypeOK
  BY DEF IInv
<1>2. pc'[r] = "running" /\ Quiet(r)
  <2>1. "running" \in States
    BY DEF States, RunningStates
  <2> QED BY <1>1, <2>1, Alone DEF TakeSlot
<1>3. ~Gate!SlotsFull
  <2>1. inflight \in Nat /\ inflight < MaxInflight
    BY <1>1 DEF TypeOK, TakeSlot
  <2> QED BY <2>1, Fullness, MaxInflightPositive
<1>4. Standing(pc'[r]) = "running"
  BY <1>2, StandingValues DEF RunningStates
<1>5. CASE Newcomer(r)
  <2>1. Standing(pc[r]) = "outside"
    BY <1>5, StandingValues DEF Newcomer
  <2>2. Gate!Become(r, "outside", "running")
    BY <1>1, <1>2, <1>4, <2>1, Becomes
  <2> QED BY <1>3, <2>2 DEF GateStep, Gate!Next, Gate!Start
<1>6. CASE Woken(r)
  <2>1. Standing(pc[r]) = "queued"
    BY <1>6, StandingValues DEF Woken, QueuedStates
  <2>2. Gate!Become(r, "queued", "running")
    BY <1>1, <1>2, <1>4, <2>1, Becomes
  <2> QED BY <1>3, <2>2 DEF GateStep, Gate!Next, Gate!Promote
<1> QED BY <1>5, <1>6

(* Waiting for a slot is Queue of the gate, or stutters when the request already waits. *)
LEMMA WaitForSlotMaps ==
    ASSUME IInv, NEW r \in Requests, NEW q, NEW n, WaitForSlot(r, q, n),
           (Newcomer(r) /\ queued < MaxQueueSize) \/ Woken(r)
    PROVE  GateStep
<1>1. TypeOK
  BY DEF IInv
<1>2. pc'[r] \in {"rejectLate", "sleeping"} /\ Quiet(r)
  <2>1. PICK s \in {"rejectLate", "sleeping"} : pc' = [pc EXCEPT ![r] = s]
    BY DEF WaitForSlot
  <2>2. s \in States
    BY DEF States, QueuedStates
  <2> QED BY <1>1, <2>1, <2>2, Alone
<1>3. Standing(pc'[r]) = "queued"
  BY <1>2, StandingValues DEF QueuedStates
<1>4. CASE Newcomer(r) /\ queued < MaxQueueSize
  <2>1. inflight \in Nat /\ inflight >= MaxInflight /\ inflight <= MaxInflight /\ queued \in Nat
    BY <1>1 DEF TypeOK, WaitForSlot, IInv, CountersExact
  <2>2. Gate!SlotsFull /\ ~Gate!QueueFull
    BY <1>4, <2>1, Fullness, MaxInflightPositive, MaxQueueSizeNat
  <2>3. Standing(pc[r]) = "outside"
    BY <1>4, StandingValues DEF Newcomer
  <2>4. Gate!Become(r, "outside", "queued")
    BY <1>1, <1>2, <1>3, <2>3, Becomes
  <2> QED BY <2>2, <2>4 DEF GateStep, Gate!Next, Gate!Queue
<1>5. CASE Woken(r)
  <2>1. Standing(pc[r]) = "queued"
    BY <1>5, StandingValues DEF Woken, QueuedStates
  <2> QED BY <1>1, <1>2, <1>3, <2>1, OneStands DEF GateStep
<1> QED BY <1>4, <1>5

(* A queue_full refusal is Refuse of the gate. *)
LEMMA RejectFullMaps ==
    ASSUME IInv, NEW r \in Requests, NEW q, RejectFull(r, q), Newcomer(r)
    PROVE  GateStep
<1>1. TypeOK
  BY DEF IInv
<1>2. pc'[r] = "rejectFull" /\ Quiet(r)
  <2>1. "rejectFull" \in States
    BY DEF States, LockStates, RejectStates
  <2> QED BY <1>1, <2>1, Alone DEF RejectFull
<1>3. Gate!SlotsFull /\ Gate!QueueFull
  <2>1. /\ inflight \in Nat /\ inflight >= MaxInflight /\ inflight <= MaxInflight
        /\ queued \in Nat /\ queued >= MaxQueueSize /\ queued <= MaxQueueSize
    BY <1>1 DEF TypeOK, RejectFull, IInv, CountersExact
  <2> QED BY <2>1, Fullness, MaxInflightPositive, MaxQueueSizeNat
<1>4. Standing(pc[r]) = "outside" /\ Standing(pc'[r]) = "refused"
  BY <1>2, StandingValues DEF Newcomer
<1>5. Gate!Become(r, "outside", "refused")
  BY <1>1, <1>2, <1>4, Becomes
<1> QED BY <1>3, <1>5 DEF GateStep, Gate!Next, Gate!Refuse

(* A move between two suspension points of the same standing.              *)
LEMMA InvisibleMove ==
    ASSUME IInv, NEW r \in Requests, NEW s \in States, pc' = [pc EXCEPT ![r] = s],
           \/ pc[r] = "new" /\ s = "entering"
           \/ pc[r] \in QueuedStates /\ s \in QueuedStates
           \/ pc[r] \in RunningStates /\ s \in RunningStates
    PROVE  GateStep
<1>1. TypeOK
  BY DEF IInv
<1>2. pc'[r] = s /\ Quiet(r)
  BY <1>1, Alone
<1>3. Standing(s) = Standing(pc[r])
  BY StandingValues
<1>4. Standing(pc'[r]) = Standing(pc[r])
  BY <1>2, <1>3
<1> QED BY <1>1, <1>2, <1>4, OneStands DEF GateStep

(* Queueing for the lock stutters when the standing stays the same. *)
LEMMA AwaitLockMaps ==
    ASSUME IInv, NEW r \in Requests, NEW s, AwaitLock(r, s),
           \/ pc[r] = "new" /\ s = "entering"
           \/ pc[r] = "notified" /\ s \in {"reacquiring", "expired"}
           \/ pc[r] = "sleeping" /\ s = "expired"
           \/ pc[r] = "running" /\ s = "releasing"
    PROVE  GateStep
<1>1. s \in States /\ pc' = [pc EXCEPT ![r] = s]
  BY DEF States, LockStates, AwaitLock
<1>2. \/ pc[r] = "new" /\ s = "entering"
      \/ pc[r] \in QueuedStates /\ s \in QueuedStates
      \/ pc[r] \in RunningStates /\ s \in RunningStates
  BY DEF QueuedStates, RunningStates
<1> QED BY <1>1, <1>2, InvisibleMove

(* A cancelled wait() goes on to its 429: still queued, as before.         *)
LEMMA GiveUpMaps ==
    ASSUME IInv, NEW r \in Requests, NEW q, NEW ws, Without(r, ws), GiveUp(r, q, ws),
           pc[r] \in {"sleeping", "notified", "reacquiring", "expired"}
    PROVE  GateStep
<1>1. TypeOK /\ "rejectLate" \in States
  BY DEF IInv, States, QueuedStates
<1>2. pc'[r] = "rejectLate" /\ Quiet(r)
  <2>1. CASE renotify
    BY <1>1, <2>1, NotifyWakesOne DEF GiveUp, Without, Quiet
  <2>2. CASE ~renotify
    BY <1>1, <2>2, Alone DEF GiveUp
  <2> QED BY <2>1, <2>2
<1>3. Standing(pc'[r]) = "queued" /\ Standing(pc[r]) = "queued"
  BY <1>2, StandingValues DEF QueuedStates
<1> QED BY <1>1, <1>2, <1>3, OneStands DEF GateStep

(* The finally block is Finish of the gate; the notification stutters. *)
LEMMA FreeSlotMaps ==
    ASSUME IInv, NEW r \in Requests, NEW q, FreeSlot(r, q), pc[r] \in RunningStates
    PROVE  GateStep
<1>1. TypeOK
  BY DEF IInv
<1>2. pc'[r] = "served" /\ Quiet(r)
  <2>1. /\ waiters \in Seq(Requests) /\ IsInjective(waiters)
        /\ Range(waiters) = In({"sleeping"}) \ {r}
    BY DEF IInv, TypeOK, WaitStructures, In, RunningStates
  <2> QED BY <1>1, <2>1, NotifyWakesOne DEF FreeSlot, Quiet
<1>3. Standing(pc'[r]) = "served" /\ Standing(pc[r]) = "running"
  BY <1>2, StandingValues
<1>4. Gate!Become(r, "running", "served")
  BY <1>1, <1>2, <1>3, Becomes
<1> QED BY <1>4 DEF GateStep, Gate!Next, Gate!Finish

(* The end of a 429 is Expire of the gate, or stutters after a queue_full. *)
LEMMA RejectSentMaps ==
    ASSUME IInv, NEW r \in Requests, RejectSent(r)
    PROVE  GateStep
<1>1. TypeOK /\ "rejected" \in States
  BY DEF IInv, States
<1>2. pc'[r] = "rejected" /\ Quiet(r)
  BY <1>1, Alone DEF RejectSent
<1>3. Standing(pc'[r]) = "refused"
  BY <1>2, StandingValues
<1>4. CASE pc[r] = "rejectFull"
  BY <1>1, <1>2, <1>3, <1>4, StandingValues, OneStands DEF GateStep
<1>5. CASE pc[r] = "rejectLate"
  <2>1. Standing(pc[r]) = "queued"
    BY <1>5, StandingValues DEF QueuedStates
  <2>2. Gate!Become(r, "queued", "refused")
    BY <1>1, <1>2, <1>3, <2>1, Becomes
  <2> QED BY <2>2 DEF GateStep, Gate!Next, Gate!Expire
<1> QED BY <1>4, <1>5 DEF RejectSent, RejectStates

(* A timer stutters: the request stays queued until its 429 is out. *)
LEMMA TimeoutMaps ==
    ASSUME IInv, NEW r \in Requests, Timeout(r)
    PROVE  GateStep
<1>1. /\ waiters \in Seq(Requests) /\ IsInjective(waiters)
      /\ Range(waiters) = In({"sleeping"})
  BY DEF IInv, TypeOK, WaitStructures
<1>2. ASSUME pc[r] # "sleeping" PROVE Without(r, waiters)
  BY <1>1, <1>2 DEF Without, In
<1>3. CASE TimeoutSleeping(r)
  <2>1. PICK i \in DOMAIN waiters : waiters[i] = r /\ LoseWait(r, RemoveAt(waiters, i))
    BY <1>3 DEF TimeoutSleeping
  <2>2. Without(r, RemoveAt(waiters, i))
    <3>1. waiters # <<>>
      BY <2>1
    <3>2. /\ RemoveAt(waiters, i) \in Seq(Requests) /\ IsInjective(RemoveAt(waiters, i))
          /\ Range(RemoveAt(waiters, i)) = In({"sleeping"}) \ {r}
      BY <1>1, <2>1, RemoveAtOnce
    <3> QED BY <3>1, <3>2 DEF Without
  <2> QED BY <1>3, <2>1, <2>2, GiveUpMaps, AwaitLockMaps DEF TimeoutSleeping, LoseWait
<1>4. CASE TimeoutNotified(r)
  BY <1>2, <1>4, GiveUpMaps, AwaitLockMaps DEF TimeoutNotified, LoseWait
<1>5. CASE TimeoutReacquiring(r)
  <2>1. pc[r] = "reacquiring"
    BY <1>5 DEF TimeoutReacquiring
  <2>2. CASE GiveUp(r, lockq, waiters)
    BY <1>2, <2>1, <2>2, GiveUpMaps
  <2>3. CASE pc' = [pc EXCEPT ![r] = "expired"]
    <3>1. "expired" \in States /\ pc[r] \in QueuedStates /\ "expired" \in QueuedStates
      BY <2>1 DEF States, QueuedStates
    <3> QED BY <2>3, <3>1, InvisibleMove
  <2> QED BY <1>5, <2>2, <2>3 DEF TimeoutReacquiring
<1> QED BY <1>3, <1>4, <1>5 DEF Timeout

-----------------------------------------------------------------------------
(* _acquire_slot's first pass is Start, Queue or Refuse of the gate. *)
LEMMA AdmitMaps ==
    ASSUME IInv, NEW r \in Requests, NEW q, Newcomer(r), Admit(r, q)
    PROVE  GateStep
BY TakeSlotMaps, RejectFullMaps, WaitForSlotMaps DEF Admit

(* A later pass is Promote of the gate, or stutters. *)
LEMMA RecheckMaps ==
    ASSUME IInv, NEW r \in Requests, NEW q, Woken(r), Recheck(r, q)
    PROVE  GateStep
BY TakeSlotMaps, WaitForSlotMaps DEF Recheck

(* Every step of the limiter is a step of the gate or a stutter. *)
LEMMA NextMaps == IInv /\ [Next]_vars => GateStep
<1> SUFFICES ASSUME IInv, [Next]_vars PROVE GateStep
  OBVIOUS
<1>1. CASE UNCHANGED vars
  <2>1. pc' = pc
    BY <1>1 DEF vars
  <2> QED BY <2>1 DEF GateStep, Stand
<1>2. ASSUME NEW r \in Requests, Arrive(r) PROVE GateStep
  BY <1>2, AdmitMaps, AwaitLockMaps DEF Arrive, Newcomer
<1>3. ASSUME NEW r \in Requests, RunReady(r) PROVE GateStep
  <2>1. CASE Enter(r)
    BY <2>1, AdmitMaps DEF Enter, Newcomer
  <2>2. CASE Resume(r)
    BY <2>2, RecheckMaps, AwaitLockMaps DEF Resume, Woken
  <2>3. CASE Reacquire(r)
    BY <2>3, RecheckMaps DEF Reacquire, Woken
  <2>4. CASE Expire(r)
    <3>1. Without(r, waiters)
      BY <2>4 DEF Expire, Without, In, IInv, TypeOK, WaitStructures
    <3> QED BY <2>4, <3>1, GiveUpMaps DEF Expire
  <2>5. CASE Release(r)
    BY <2>5, FreeSlotMaps DEF Release, RunningStates
  <2> QED BY <1>3, <2>1, <2>2, <2>3, <2>4, <2>5 DEF RunReady
<1>4. ASSUME NEW r \in Requests, Finish(r) PROVE GateStep
  BY <1>4, FreeSlotMaps, AwaitLockMaps DEF Finish, RunningStates
<1>5. ASSUME NEW r \in Requests, RejectSent(r) PROVE GateStep
  BY <1>5, RejectSentMaps
<1>6. ASSUME NEW r \in Requests, Timeout(r) PROVE GateStep
  BY <1>6, TimeoutMaps
<1> QED BY <1>1, <1>2, <1>3, <1>4, <1>5, <1>6 DEF Next, Terminated

(* The initial states map to the initial state of the gate. *)
LEMMA InitMaps == Init => Gate!Init
BY StandingValues DEF Init, Gate!Init

(* The middleware admits, queues, refuses, promotes and expires /v1        *)
(* requests as BoundedAdmission does, whatever its tasks interleave to: in *)
(* particular nobody is turned away at the door while a slot or a place in *)
(* the queue is free, and nobody is let in beyond the limit.               *)
THEOREM GateRefinement == Spec => AdmitsAsPromised
<1>1. IInv /\ [Next]_vars => [Gate!Next]_Stand
  BY NextMaps DEF GateStep
<1> QED BY <1>1, InitMaps, Invariant, PTL DEF Spec, AdmitsAsPromised, Gate!Spec, Stand
=============================================================================
