-------------------------- MODULE WorkCopiesProofs --------------------------
(***************************************************************************)
(* How many copies of a chunk's message WorkDelivery can have under way,   *)
(* for any number of chunks, workers, coordinators, retries, recoveries    *)
(* and faults.                                                             *)
(*                                                                         *)
(* BoundedCopies is not inductive: an event whose claimant overran its     *)
(* window will be published once more, a claim that lost its event may     *)
(* still publish, and a lease that nobody works under will be announced    *)
(* again.  Count(c) adds these to the copies.                              *)
(***************************************************************************)
EXTENDS WorkDeliveryProofs, FiniteSetTheorems

(* The provers a leaf that names none is given to, in this order.          *)
USE SMT, Zenon, Z3

(* An event whose claimant has overrun its window.                         *)
Overrun(c) == {e \in Event : e[1] = c /\ outbox[e].status = "pending" /\ outbox[e].available
                             /\ BeingPublished(e)}
(* Claims that will publish a message although they lost their event.      *)
Late(c) == {x \in Coordinator \X ClaimRow :
              /\ x[2] \in claims[x[1]] /\ x[2].event[1] = c
              /\ x[2].phase = "claimed" /\ ~IsCurrent(x[2])}
(* A lease that nobody works under will be recovered with a new event.     *)
Attended(c) == \E t \in Task : /\ tasks[t].pc = "working" /\ tasks[t].msg.chunk = c
                               /\ chunks[c].owner = t /\ chunks[c].live
Abandoned(c) == IF chunks[c].status = "leased" /\ ~Attended(c) THEN 1 ELSE 0

Count(c) ==
    /\ IsFiniteSet(Unsent(c)) /\ IsFiniteSet(Overrun(c)) /\ IsFiniteSet(Late(c))
    /\ IsFiniteSet(Queued(c)) /\ IsFiniteSet(Busy(c))
    /\ Cardinality(Unsent(c)) + Cardinality(Overrun(c)) + Cardinality(Late(c))
       + Cardinality(Queued(c)) + Cardinality(Busy(c)) + Abandoned(c)
          <= 1 + CopiesOfFault * faults

CountInv == \A c \in Chunk : Count(c)

-----------------------------------------------------------------------------
(* Counting.  T has at most n elements more than S.                        *)
Adds(S, T, n) ==
    IsFiniteSet(S) => IsFiniteSet(T) /\ Cardinality(T) <= Cardinality(S) + n

(* A subset adds nothing.                                                  *)
LEMMA AddsNone ==
    ASSUME NEW S, NEW T, T \subseteq S
    PROVE  Adds(S, T, 0)
<1> SUFFICES ASSUME IsFiniteSet(S)
             PROVE  IsFiniteSet(T) /\ Cardinality(T) <= Cardinality(S) + 0
  BY DEF Adds
<1>1. IsFiniteSet(T) /\ Cardinality(T) <= Cardinality(S)
  BY FS_Subset
<1>2. Cardinality(S) \in Nat /\ Cardinality(T) \in Nat
  BY <1>1, FS_CardinalityType, Zenon
<1> QED
  BY <1>1, <1>2

(* One more element adds one at most.                                      *)
LEMMA AddsOne ==
    ASSUME NEW S, NEW T, NEW x, T \subseteq S \cup {x}
    PROVE  Adds(S, T, 1)
<1> SUFFICES ASSUME IsFiniteSet(S)
             PROVE  IsFiniteSet(T) /\ Cardinality(T) <= Cardinality(S) + 1
  BY DEF Adds
<1>1. IsFiniteSet(S \cup {x}) /\ (\/ Cardinality(S \cup {x}) = Cardinality(S)
                                  \/ Cardinality(S \cup {x}) = Cardinality(S) + 1)
  BY FS_AddElement
<1>2. IsFiniteSet(T) /\ Cardinality(T) <= Cardinality(S \cup {x})
  BY <1>1, FS_Subset
<1>3. Cardinality(S) \in Nat /\ Cardinality(T) \in Nat
  BY <1>2, FS_CardinalityType
<1> QED
  BY <1>1, <1>2, <1>3

(* What two changes add.                                                   *)
LEMMA AddsTwice ==
    ASSUME NEW S, NEW T, NEW U, NEW m \in Int, NEW n \in Int, Adds(S, T, m), Adds(T, U, n)
    PROVE  Adds(S, U, m + n)
<1> SUFFICES ASSUME IsFiniteSet(S)
             PROVE  IsFiniteSet(U) /\ Cardinality(U) <= Cardinality(S) + (m + n)
  BY DEF Adds
<1>1. /\ IsFiniteSet(T) /\ Cardinality(T) <= Cardinality(S) + m
      /\ IsFiniteSet(U) /\ Cardinality(U) <= Cardinality(T) + n
  BY DEF Adds
<1>2. Cardinality(S) \in Nat /\ Cardinality(T) \in Nat /\ Cardinality(U) \in Nat
  BY <1>1, FS_CardinalityType, Zenon
<1> QED
  BY <1>1, <1>2

(* A set without one of its elements has one element less.                 *)
LEMMA DropsOne ==
    ASSUME NEW S, NEW T, NEW x \in S, T \subseteq S \ {x}
    PROVE  Adds(S, T, -1)
<1> SUFFICES ASSUME IsFiniteSet(S)
             PROVE  IsFiniteSet(T) /\ Cardinality(T) <= Cardinality(S) + (-1)
  BY DEF Adds
<1>1. IsFiniteSet(S \ {x}) /\ Cardinality(S \ {x}) = Cardinality(S) - 1
  BY FS_RemoveElement
<1>2. IsFiniteSet(T) /\ Cardinality(T) <= Cardinality(S \ {x})
  BY <1>1, FS_Subset
<1>3. Cardinality(S) \in Nat /\ Cardinality(T) \in Nat
  BY <1>2, FS_CardinalityType
<1> QED
  BY <1>1, <1>2, <1>3

(* The balance of a step for a chunk.                                      *)
Balance(c, u, o, l, q, b, a) ==
    /\ u \in Int /\ o \in Int /\ l \in Int /\ q \in Int /\ b \in Int /\ a \in Int
    /\ Adds(Unsent(c), Unsent(c)', u) /\ Adds(Overrun(c), Overrun(c)', o)
    /\ Adds(Late(c), Late(c)', l) /\ Adds(Queued(c), Queued(c)', q)
    /\ Adds(Busy(c), Busy(c)', b) /\ Abandoned(c)' <= Abandoned(c) + a

(* An abandoned lease counts for one.                                      *)
LEMMA AbandonedRange == \A c : Abandoned(c) \in 0..1 /\ Abandoned(c)' \in 0..1
  BY DEF Abandoned

(* One fault raises the bound by CopiesOfFault, which is what a duplicated *)
(* publish adds (2) and what a lost coordinator can re-open (every event   *)
(* of the chunk).                                                          *)
LEMMA FaultMultiplies ==
    /\ CopiesOfFault \in Nat /\ CopiesOfFault >= 2 /\ CopiesOfFault >= MaxRecoveries + 1
    /\ \A f, g \in Nat : g > f => CopiesOfFault * g >= CopiesOfFault * f + CopiesOfFault
    /\ \A f, g \in Nat : g >= f => CopiesOfFault * g >= CopiesOfFault * f
    /\ \A f \in Nat : CopiesOfFault * f \in Nat
<1>1. CopiesOfFault \in Nat /\ CopiesOfFault >= 2 /\ CopiesOfFault >= MaxRecoveries + 1
  BY DeliveryAssumption DEF CopiesOfFault
<1> PICK F \in Nat : F = CopiesOfFault
  BY <1>1
<1>2. \A f \in Nat : F * f \in Nat
  OBVIOUS
<1>3. ASSUME NEW f \in Nat, NEW g \in Nat, g > f
      PROVE  F * g >= F * f + F
  <2>1. PICK d \in Nat : g = f + 1 + d
    <3>1. g - (f + 1) \in Nat /\ g = f + 1 + (g - (f + 1))
      BY <1>3
    <3> QED
      BY <3>1
  <2>2. F * g = F * f + F + F * d
    BY <2>1
  <2> QED
    BY <1>2, <2>2
<1>4. ASSUME NEW f \in Nat, NEW g \in Nat, g >= f
      PROVE  F * g >= F * f
  <2>1. CASE g = f
    BY <1>2, <2>1
  <2>2. CASE g > f
    <3>1. F * g >= F * f + F /\ F * g \in Nat /\ F * f \in Nat
      BY <1>2, <1>3, <2>2, Zenon
    <3> QED
      BY <3>1
  <2> QED
    BY <1>4, <2>1, <2>2
<1> QED
  BY <1>1, <1>2, <1>3, <1>4

(* The count is kept by a step whose changes add up to nothing, or to no   *)
(* more than the fault it takes.                                           *)
LEMMA Weighs ==
    ASSUME NEW c \in Chunk, Count(c), NEW u, NEW o, NEW l, NEW q, NEW b, NEW a,
           Balance(c, u, o, l, q, b, a), faults \in Nat, faults' \in Nat,
           \/ u + o + l + q + b + a <= 0 /\ faults' >= faults
           \/ u + o + l + q + b + a <= CopiesOfFault /\ faults' > faults
    PROVE  Count(c)'
<1> PICK cu, co, cl, cq, cb, ca, du, do, dl, dq, db, da :
      /\ cu = Cardinality(Unsent(c)) /\ du = Cardinality(Unsent(c)')
      /\ co = Cardinality(Overrun(c)) /\ do = Cardinality(Overrun(c)')
      /\ cl = Cardinality(Late(c)) /\ dl = Cardinality(Late(c)')
      /\ cq = Cardinality(Queued(c)) /\ dq = Cardinality(Queued(c)')
      /\ cb = Cardinality(Busy(c)) /\ db = Cardinality(Busy(c)')
      /\ ca = Abandoned(c) /\ da = Abandoned(c)'
  BY Zenon
<1>1. /\ IsFiniteSet(Unsent(c)') /\ IsFiniteSet(Overrun(c)') /\ IsFiniteSet(Late(c)')
      /\ IsFiniteSet(Queued(c)') /\ IsFiniteSet(Busy(c)')
      /\ du <= cu + u /\ do <= co + o /\ dl <= cl + l /\ dq <= cq + q /\ db <= cb + b /\ da <= ca + a
  BY Zenon DEF Count, Balance, Adds
<1>2. cu \in Nat /\ co \in Nat /\ cl \in Nat /\ cq \in Nat /\ cb \in Nat /\ ca \in Nat
  BY FS_CardinalityType, AbandonedRange DEF Count
<1>3. du \in Nat /\ do \in Nat /\ dl \in Nat /\ dq \in Nat /\ db \in Nat /\ da \in Nat
  BY <1>1, FS_CardinalityType, AbandonedRange
<1>4. u \in Int /\ o \in Int /\ l \in Int /\ q \in Int /\ b \in Int /\ a \in Int
  BY Zenon DEF Balance
<1> PICK F, v, w : F = CopiesOfFault /\ v = CopiesOfFault * faults /\ w = CopiesOfFault * faults'
  OBVIOUS
<1>5. v \in Nat /\ w \in Nat /\ F \in Nat /\ (faults' > faults => w >= v + F)
      /\ (faults' >= faults => w >= v)
  BY FaultMultiplies, Zenon
<1>6. cu + co + cl + cq + cb + ca <= 1 + v
  BY Zenon DEF Count
<1>7. du + do + dl + dq + db + da <= 1 + w
  <2>1. CASE u + o + l + q + b + a <= 0 /\ faults' >= faults
    <3>1. w >= v
      BY <1>5, <2>1, Zenon
    <3> QED
      BY <1>1, <1>2, <1>3, <1>4, <1>5, <1>6, <2>1, <3>1
  <2>2. CASE u + o + l + q + b + a <= F /\ faults' > faults
    BY <1>1, <1>2, <1>3, <1>4, <1>5, <1>6, <2>2
  <2> QED
    BY <2>1, <2>2, Zenon
<1> QED
  BY <1>1, <1>7, Zenon DEF Count

-----------------------------------------------------------------------------
(* The queues.                                                             *)
QueuedIn(c, f) == UNION {{m} \X (1 .. f[m]) : m \in {x \in Message : x.chunk = c}}

(* The pairs with a given first component.                                 *)
LEMMA PairMember ==
    ASSUME NEW m, NEW I, NEW p
    PROVE  (p \in {m} \X I) <=> (\E i \in I : p = <<m, i>>)
<1>1. ASSUME p \in {m} \X I PROVE \E i \in I : p = <<m, i>>
  <2>1. p = <<p[1], p[2]>> /\ p[1] = m /\ p[2] \in I
    BY <1>1
  <2> QED
    BY <2>1
<1>2. ASSUME NEW i \in I, p = <<m, i>> PROVE p \in {m} \X I
  BY <1>2, Zenon
<1> QED
  BY <1>1, <1>2

(* A queued copy is a message of the chunk and a number up to the length   *)
(* of its queue.                                                           *)
LEMMA QueuedMember ==
    ASSUME NEW c, NEW f, NEW p
    PROVE  p \in QueuedIn(c, f)
           <=> \E m \in Message : m.chunk = c /\ \E i \in 1 .. f[m] : p = <<m, i>>
<1>1. p \in QueuedIn(c, f) <=> \E m \in Message : m.chunk = c /\ p \in {m} \X (1 .. f[m])
  BY Zenon DEF QueuedIn
<1>2. ASSUME NEW m
      PROVE  (p \in {m} \X (1 .. f[m])) <=> (\E i \in 1 .. f[m] : p = <<m, i>>)
  BY PairMember
<1>3. ASSUME NEW m \in Message, m.chunk = c, p \in {m} \X (1 .. f[m])
      PROVE  \E x \in Message : x.chunk = c /\ \E i \in 1 .. f[x] : p = <<x, i>>
  BY <1>2, <1>3
<1>4. ASSUME NEW m \in Message, m.chunk = c, \E i \in 1 .. f[m] : p = <<m, i>>
      PROVE  p \in {m} \X (1 .. f[m])
  BY <1>2, <1>4
<1> QED
  BY <1>1, <1>3, <1>4

QueuedOf(c, r, d) == UNION {{m} \X (1 .. r[m] + d[m]) : m \in {x \in Message : x.chunk = c}}
Both(r, d) == [m \in Message |-> r[m] + d[m]]

(* Copies in the ready queue and in the retry queues are counted together. *)
LEMMA QueuedAsSum ==
    ASSUME NEW c, NEW r, NEW d
    PROVE  QueuedOf(c, r, d) = QueuedIn(c, Both(r, d))
<1> DEFINE f == Both(r, d)
           M == {x \in Message : x.chunk = c}
           S == UNION {{m} \X (1 .. r[m] + d[m]) : m \in M}
<1>1. ASSUME NEW m \in M PROVE {m} \X (1 .. r[m] + d[m]) = {m} \X (1 .. f[m])
  BY Zenon DEF Both
<1> HIDE DEF f
<1>2. S = UNION {{m} \X (1 .. f[m]) : m \in M}
  BY <1>1, Zenon
<1>3. QueuedIn(c, f) = S
  BY <1>2, Zenon DEF QueuedIn
<1> QED
  BY <1>3 DEF f, QueuedOf

(* The queued copies before and after a step.                              *)
LEMMA QueuedNow ==
    ASSUME NEW c
    PROVE  /\ Queued(c) = QueuedIn(c, Both(ready, delayed))
           /\ Queued(c)' = QueuedIn(c, Both(ready', delayed'))
<1>1. Queued(c) = QueuedOf(c, ready, delayed)
  BY DEF Queued, QueuedOf
<1>2. Queued(c)' = QueuedOf(c, ready', delayed')
  BY DEF Queued, QueuedOf
<1> QED
  BY <1>1, <1>2, QueuedAsSum, Zenon

(* The length of both queues.                                              *)
LEMMA BothType ==
    ASSUME NEW r \in [Message -> Nat], NEW d \in [Message -> Nat]
    PROVE  Both(r, d) \in [Message -> Nat] /\ \A m \in Message : Both(r, d)[m] = r[m] + d[m]
  BY DEF Both

(* Publishing n copies of a message adds n at most.                        *)
LEMMA QueueAdds ==
    ASSUME NEW c, NEW f \in [Message -> Nat], NEW g \in [Message -> Nat], NEW m \in Message,
           NEW n \in 0 .. 2, \A x \in Message : x # m => g[x] = f[x], g[m] = f[m] + n
    PROVE  Adds(QueuedIn(c, f), QueuedIn(c, g), n)
<1> DEFINE S == QueuedIn(c, f)
           T == QueuedIn(c, g)
           p(i) == <<m, f[m] + i>>
<1> f[m] \in Nat
  BY Zenon
<1>1. ASSUME NEW q \in T PROVE q \in S \/ (n >= 1 /\ q = p(1)) \/ (n = 2 /\ q = p(2))
  <2>0. PICK x \in Message : x.chunk = c /\ \E i \in 1 .. g[x] : q = <<x, i>>
    BY QueuedMember
  <2>1. PICK i \in 1 .. g[x] : x.chunk = c /\ q = <<x, i>>
    BY <2>0, Zenon
  <2>2. CASE x # m
    <3>1. i \in 1 .. f[x]
      BY <2>2, Zenon
    <3> QED
      BY <2>1, <3>1, QueuedMember, Zenon
  <2>3. CASE x = m
    <3>1. i \in 1 .. f[m] \/ (n >= 1 /\ i = f[m] + 1) \/ (n = 2 /\ i = f[m] + 2)
      BY <2>3
    <3>2. CASE i \in 1 .. f[m]
      BY <2>1, <2>3, <3>2, QueuedMember
    <3> QED
      BY <2>1, <2>3, <3>1, <3>2, Zenon
  <2> QED
    BY <2>2, <2>3, Zenon
<1> HIDE DEF S, T, p
<1>2. CASE n = 0
  <2>1. T \subseteq S
    BY <1>1, <1>2
  <2> QED
    BY <1>2, <2>1, AddsNone, Zenon DEF S, T
<1>3. CASE n = 1
  <2>1. T \subseteq S \cup {p(1)}
    BY <1>1, <1>3, Zenon
  <2> QED
    BY <1>3, <2>1, AddsOne, Zenon DEF S, T
<1>4. CASE n = 2
  <2>1. T \subseteq (S \cup {p(1)}) \cup {p(2)}
    BY <1>1, <1>4
  <2>2. Adds(S, S \cup {p(1)}, 1)
    BY AddsOne, Zenon
  <2>3. Adds(S \cup {p(1)}, T, 1)
    BY <2>1, AddsOne, Zenon
  <2>4. Adds(S, T, 1 + 1)
    BY <2>2, <2>3, AddsTwice
  <2> QED
    BY <1>4, <2>4 DEF S, T
<1> QED
  BY <1>2, <1>3, <1>4

(* Taking a message out of the queue drops one.                            *)
LEMMA QueueDrops ==
    ASSUME NEW c, NEW f \in [Message -> Nat], NEW g \in [Message -> Nat], NEW m \in Message,
           m.chunk = c, \A x \in Message : x # m => g[x] = f[x], f[m] > 0, g[m] = f[m] - 1
    PROVE  Adds(QueuedIn(c, f), QueuedIn(c, g), -1)
<1> DEFINE S == QueuedIn(c, f)
           T == QueuedIn(c, g)
           p == <<m, f[m]>>
<1> f[m] \in Nat
  BY Zenon
<1>1. p \in S
  <2>1. f[m] \in 1 .. f[m]
    OBVIOUS
  <2> QED
    BY <2>1, QueuedMember
<1>2. ASSUME NEW q \in T PROVE q \in S /\ q # p
  <2>0. PICK x \in Message : x.chunk = c /\ \E i \in 1 .. g[x] : q = <<x, i>>
    BY QueuedMember
  <2>1. PICK i \in 1 .. g[x] : x.chunk = c /\ q = <<x, i>>
    BY <2>0, Zenon
  <2>2. i \in 1 .. f[x] /\ (x = m => i # f[m])
    OBVIOUS
  <2> QED
    BY <2>1, <2>2, QueuedMember, Zenon
<1> HIDE DEF S, T, p
<1>3. T \subseteq S \ {p}
  BY <1>2, Zenon
<1> QED
  BY <1>1, <1>3, DropsOne DEF S, T

(* A queue whose messages of c are as many as before.                      *)
LEMMA QueueSame ==
    ASSUME NEW c, \A m \in Message : m.chunk = c => ready'[m] + delayed'[m] = ready[m] + delayed[m]
    PROVE  Adds(Queued(c), Queued(c)', 0)
<1>1. Queued(c)' = Queued(c)
  BY Zenon DEF Queued
<1> QED
  BY <1>1, AddsNone, Zenon

(* The queues are unchanged but for one message.                           *)
LEMMA QueueChanges ==
    ASSUME TypeOK, NEW c \in Chunk, NEW m \in Message, m.chunk = c, NEW n \in 0 .. 2,
           ready' \in [Message -> Nat], delayed' \in [Message -> Nat],
           \A x \in Message : x # m => ready'[x] + delayed'[x] = ready[x] + delayed[x],
           ready'[m] + delayed'[m] = ready[m] + delayed[m] + n
    PROVE  Adds(Queued(c), Queued(c)', n)
<1> PICK f, g : f = Both(ready, delayed) /\ g = Both(ready', delayed')
  BY Zenon
<1>1. /\ f \in [Message -> Nat] /\ \A x \in Message : f[x] = ready[x] + delayed[x]
      /\ g \in [Message -> Nat] /\ \A x \in Message : g[x] = ready'[x] + delayed'[x]
  BY BothType DEF TypeOK
<1>2. \A x \in Message : x # m => g[x] = f[x]
  BY <1>1, Zenon
<1>3. g[m] = f[m] + n
  BY <1>1, Zenon
<1>4. Adds(QueuedIn(c, f), QueuedIn(c, g), n)
  BY <1>1, <1>2, <1>3, QueueAdds, Zenon
<1> QED
  BY <1>4, QueuedNow, Zenon

(* A message is taken out of the queues.                                   *)
LEMMA QueueLoses ==
    ASSUME TypeOK, NEW c \in Chunk, NEW m \in Message, m.chunk = c,
           ready' \in [Message -> Nat], delayed' \in [Message -> Nat],
           \A x \in Message : x # m => ready'[x] + delayed'[x] = ready[x] + delayed[x],
           ready'[m] + delayed'[m] = (ready[m] + delayed[m]) - 1
    PROVE  Adds(Queued(c), Queued(c)', -1)
<1> PICK f, g : f = Both(ready, delayed) /\ g = Both(ready', delayed')
  BY Zenon
<1>1. /\ f \in [Message -> Nat] /\ \A x \in Message : f[x] = ready[x] + delayed[x]
      /\ g \in [Message -> Nat] /\ \A x \in Message : g[x] = ready'[x] + delayed'[x]
  BY BothType DEF TypeOK
<1>2. \A x \in Message : x # m => g[x] = f[x]
  BY <1>1, Zenon
<1>3. g[m] = f[m] - 1 /\ f[m] > 0
  <2>1. g[m] = ready'[m] + delayed'[m] /\ f[m] = ready[m] + delayed[m]
    BY <1>1, Zenon
  <2>2. g[m] \in Nat /\ f[m] \in Nat
    BY <1>1, Zenon
  <2>3. g[m] = f[m] - 1
    BY <2>1, Zenon
  <2> QED
    BY <2>2, <2>3
<1>4. Adds(QueuedIn(c, f), QueuedIn(c, g), -1)
  BY <1>1, <1>2, <1>3, QueueDrops, Zenon
<1> QED
  BY <1>4, QueuedNow, Zenon

-----------------------------------------------------------------------------
(* Workers.                                                                *)
Hands == {"received", "working", "republish"}
On(t, c) == tasks[t].pc \in Hands /\ tasks[t].msg.chunk = c
Attends(t, c) == /\ tasks[t].pc = "working" /\ tasks[t].msg.chunk = c
                 /\ chunks[c].owner = t /\ chunks[c].live
OnlyTask(t) == \A u \in Task : u # t => tasks'[u] = tasks[u]

(* A step that leaves the outbox and its claims alone.                     *)
LEMMA OutboxSame ==
    ASSUME NEW c, UNCHANGED <<outbox, claims>>
    PROVE  /\ Adds(Unsent(c), Unsent(c)', 0) /\ Adds(Overrun(c), Overrun(c)', 0)
           /\ Adds(Late(c), Late(c)', 0)
<1>1. Unsent(c)' = Unsent(c)
  BY Zenon DEF Unsent, IsCurrent
<1>2. Overrun(c)' = Overrun(c)
  BY Zenon DEF Overrun, BeingPublished
<1>3. Late(c)' = Late(c)
  BY Zenon DEF Late, IsCurrent
<1> QED
  BY <1>1, <1>2, <1>3, AddsNone, Zenon

(* The worker was on the chunk if it is on it now.                         *)
LEMMA BusyKept ==
    ASSUME NEW t \in Task, OnlyTask(t), NEW c, On(t, c)' => On(t, c)
    PROVE  Adds(Busy(c), Busy(c)', 0)
<1>1. Busy(c)' \subseteq Busy(c)
  BY Zenon DEF Busy, On, Hands, OnlyTask
<1> QED
  BY <1>1, AddsNone, Zenon

(* The worker leaves the chunk.                                            *)
LEMMA BusyDrops ==
    ASSUME NEW t \in Task, OnlyTask(t), NEW c, On(t, c), ~On(t, c)'
    PROVE  Adds(Busy(c), Busy(c)', -1)
<1>1. Busy(c)' \subseteq Busy(c) \ {t}
  BY Zenon DEF Busy, On, Hands, OnlyTask
<1>2. t \in Busy(c)
  BY Zenon DEF Busy, On, Hands
<1> QED
  BY <1>1, <1>2, DropsOne, Zenon

(* A step of one worker makes one more of them busy at most.               *)
LEMMA BusyGains ==
    ASSUME NEW t \in Task, OnlyTask(t), NEW c
    PROVE  Adds(Busy(c), Busy(c)', 1)
<1>1. Busy(c)' \subseteq Busy(c) \cup {t}
  BY Zenon DEF Busy, OnlyTask
<1> QED
  BY <1>1, AddsOne, Zenon

(* A lease is not abandoned by a worker that did not work under it.        *)
LEMMA AbandonedSame ==
    ASSUME NEW t, OnlyTask(t), NEW c, chunks'[c] = chunks[c],
           t \in Task => ~Attends(t, c)
    PROVE  Abandoned(c)' <= Abandoned(c) + 0
<1>1. Attended(c) => Attended(c)'
  <2> SUFFICES ASSUME Attended(c) PROVE Attended(c)'
    BY Zenon
  <2>1. PICK u \in Task : Attends(u, c)
    BY Zenon DEF Attended, Attends
  <2>2. u # t
    BY <2>1, Zenon
  <2>3. tasks'[u] = tasks[u]
    BY <2>2 DEF OnlyTask
  <2> QED
    BY <2>1, <2>3, Zenon DEF Attended, Attends
<1> QED
  BY <1>1 DEF Abandoned

(* A lease that is attended adds nothing.                                  *)
LEMMA NeverAbandoned ==
    ASSUME NEW c, Abandoned(c)' = 0
    PROVE  Abandoned(c)' <= Abandoned(c) + 0
  BY AbandonedRange

(* A step abandons one lease of a chunk at most.                           *)
LEMMA AbandonedGains ==
    ASSUME NEW c
    PROVE  Abandoned(c)' <= Abandoned(c) + 1
  BY AbandonedRange

(* The faults are counted by numbers.                                      *)
LEMMA FaultTypes ==
    ASSUME TypeOK, TypeOK'
    PROVE  faults \in Nat /\ faults' \in Nat
  BY DeliveryAssumption DEF TypeOK

(* A step of a worker on the chunk of its message.                         *)
LEMMA WorksCounts ==
    ASSUME BaseInv, NEW c \in Chunk, Count(c), NEW t \in Task, Works(t), faults' >= faults,
           c = tasks[t].msg.chunk =>
              \/ On(t, c) /\ ~On(t, c)'
              \/ On(t, c) /\ Abandoned(c)' = 0
              \/ On(t, c) /\ faults' > faults
              \/ ~On(t, c) /\ ~On(t, c)' /\ chunks' = chunks
    PROVE  Count(c)'
<1>1. TypeOK /\ TaskInv
  BY Zenon DEF BaseInv, ClaimInv
<1>2. faults \in Nat /\ faults' \in Nat
  BY <1>1, WorksTypes, FaultTypes, Zenon
<1>3. OnlyTask(t) /\ tasks'[t].msg = tasks[t].msg
  BY Zenon DEF Works, TaskBecomes, OnlyTask
<1>4. /\ Adds(Unsent(c), Unsent(c)', 0) /\ Adds(Overrun(c), Overrun(c)', 0)
      /\ Adds(Late(c), Late(c)', 0)
  BY OutboxSame, Zenon DEF Works
<1>5. Adds(Queued(c), Queued(c)', 0)
  BY QueueSame, Zenon DEF Works
<1>6. CASE c # tasks[t].msg.chunk
  <2>1. ~On(t, c)' /\ ~Attends(t, c)
    BY <1>3, <1>6, Zenon DEF On, Attends
  <2>2. chunks'[c] = chunks[c]
    BY <1>1, <1>6, WorksFields, Zenon
  <2>3. Adds(Busy(c), Busy(c)', 0)
    BY <1>3, <2>1, BusyKept, Zenon
  <2>4. Abandoned(c)' <= Abandoned(c) + 0
    BY <1>3, <2>1, <2>2, AbandonedSame, Zenon
  <2>5. Balance(c, 0, 0, 0, 0, 0, 0)
    BY <1>4, <1>5, <2>3, <2>4 DEF Balance
  <2> QED
    BY <1>2, <2>5, Weighs
<1>7. CASE On(t, c) /\ ~On(t, c)'
  <2>1. Adds(Busy(c), Busy(c)', -1)
    BY <1>3, <1>7, BusyDrops, Zenon
  <2>2. Balance(c, 0, 0, 0, 0, -1, 1)
    BY <1>4, <1>5, <2>1, AbandonedGains DEF Balance
  <2> QED
    BY <1>2, <2>2, Weighs
<1>8. CASE On(t, c) /\ Abandoned(c)' = 0
  <2>1. Adds(Busy(c), Busy(c)', 0)
    BY <1>3, <1>8, BusyKept, Zenon
  <2>2. Balance(c, 0, 0, 0, 0, 0, 0)
    BY <1>4, <1>5, <1>8, <2>1, NeverAbandoned DEF Balance
  <2> QED
    BY <1>2, <2>2, Weighs
<1>9. CASE On(t, c) /\ faults' > faults
  <2>1. Adds(Busy(c), Busy(c)', 0)
    BY <1>3, <1>9, BusyKept, Zenon
  <2>2. Balance(c, 0, 0, 0, 0, 0, 1)
    BY <1>4, <1>5, <2>1, AbandonedGains DEF Balance
  <2>3. 0 + 0 + 0 + 0 + 0 + 1 <= CopiesOfFault
    BY FaultMultiplies
  <2> QED
    BY <1>2, <1>9, <2>2, <2>3, Weighs, Zenon
<1>10. CASE ~On(t, c) /\ ~On(t, c)' /\ chunks' = chunks
  <2>1. Adds(Busy(c), Busy(c)', 0)
    BY <1>3, <1>10, BusyKept, Zenon
  <2>2. ~Attends(t, c)
    BY <1>10, Zenon DEF On, Attends, Hands
  <2>3. Abandoned(c)' <= Abandoned(c) + 0
    BY <1>3, <1>10, <2>2, AbandonedSame, Zenon
  <2>4. Balance(c, 0, 0, 0, 0, 0, 0)
    BY <1>4, <1>5, <2>1, <2>3 DEF Balance
  <2> QED
    BY <1>2, <2>4, Weighs
<1> QED
  BY <1>6, <1>7, <1>8, <1>9, <1>10, Zenon

(* A fault is counted, and the count never falls.                          *)
LEMMA FaultGrows ==
    ASSUME TypeOK
    PROVE  (NoFault => faults' >= faults) /\ (Fault => faults' > faults /\ faults' >= faults)
  BY DeliveryAssumption DEF NoFault, Fault, TypeOK

(* A chunk that is not leased is not abandoned.                            *)
LEMMA UnleasedCounts ==
    ASSUME NEW c, chunks'[c].status # "leased"
    PROVE  Abandoned(c)' = 0
  BY Zenon DEF Abandoned

(* A release, a completion or a failure ends the lease.                    *)
LEMMA UnleaseStatus ==
    ASSUME TypeOK, NEW t \in Task, NEW c \in Chunk, c = tasks[t].msg.chunk,
           NEW s \in {"pending", "completed", "failed"}, chunks' = Unlease(t, s)
    PROVE  Abandoned(c)' = 0
<1>1. s \in ChunkStatus
  BY Zenon DEF ChunkStatus, TerminalChunk
<1>2. chunks'[c].status = s
  BY <1>1, UnleaseRow, Zenon DEF ChunkBecomes
<1> QED
  BY <1>2, UnleasedCounts, Zenon

(* claim_run_chunk_for_execution: a claimed chunk is attended by its       *)
(* claimant.                                                               *)
LEMMA ClaimChunkCounts ==
    ASSUME BaseInv, NEW c \in Chunk, Count(c), NEW t \in Task, ClaimChunk(t)
    PROVE  Count(c)'
<1>1. TypeOK /\ TaskInv
  BY DEF BaseInv, ClaimInv
<1>2. Works(t)
  BY <1>1, ClaimChunkWorks, Zenon
<1>3. faults' >= faults
  BY <1>1, FaultGrows, Zenon DEF ClaimChunk
<1>4. ASSUME c = tasks[t].msg.chunk
      PROVE  (On(t, c) /\ ~On(t, c)') \/ (On(t, c) /\ Abandoned(c)' = 0)
  <2>1. On(t, c)
    BY <1>4, Zenon DEF On, Hands, ClaimChunk
  <2>2. CASE Claimable(c)
    <3>1. chunks' = Lease(c, t) /\ Goto(t, "working")
      BY <1>4, <2>2, Zenon DEF ClaimChunk
    <3>2. tasks'[t].pc = "working" /\ tasks'[t].msg.chunk = c
      BY <1>1, <1>4, <3>1, GotoRow, Zenon DEF TaskState, TaskBecomes
    <3>3. chunks'[c].owner = t /\ chunks'[c].live
      BY <1>1, <3>1, Zenon DEF Lease, TypeOK, ChunkRow
    <3>4. Attended(c)'
      BY <3>2, <3>3, Zenon DEF Attended
    <3> QED
      BY <2>1, <3>4, Zenon DEF Abandoned
  <2>3. CASE ~Claimable(c)
    <3>1. Goto(t, "ack")
      BY <1>4, <2>3, Zenon DEF ClaimChunk
    <3>2. tasks'[t].pc = "ack"
      BY <1>1, <3>1, GotoRow, Zenon DEF TaskState, TaskBecomes
    <3> QED
      BY <2>1, <3>2, Zenon DEF On, Hands
  <2> QED
    BY <2>2, <2>3, Zenon
<1> QED
  BY <1>2, <1>3, <1>4, WorksCounts

(* A claim whose query fails leaves the message to be published again.     *)
LEMMA ClaimFailsCounts ==
    ASSUME BaseInv, NEW c \in Chunk, Count(c), NEW t \in Task, ClaimFails(t)
    PROVE  Count(c)'
<1>1. TypeOK /\ TaskInv
  BY DEF BaseInv, ClaimInv
<1>2. Works(t)
  BY <1>1, ClaimFailsWorks
<1>3. faults' > faults /\ faults' >= faults
  BY <1>1, FaultGrows, Zenon DEF ClaimFails
<1>4. c = tasks[t].msg.chunk => On(t, c)
  BY Zenon DEF On, Hands, ClaimFails
<1> QED
  BY <1>2, <1>3, <1>4, WorksCounts, Zenon

(* A database error while the chunk executes leaves its lease behind,      *)
(* which recovery will announce again: a fault.                            *)
LEMMA WorkDatabaseFailsCounts ==
    ASSUME BaseInv, NEW c \in Chunk, Count(c), NEW t \in Task, WorkDatabaseFails(t)
    PROVE  Count(c)'
<1>1. TypeOK /\ TaskInv
  BY DEF BaseInv, ClaimInv
<1>2. Works(t)
  BY <1>1, WorkDatabaseFailsWorks
<1>3. faults' > faults /\ faults' >= faults
  BY <1>1, FaultGrows, Zenon DEF WorkDatabaseFails
<1>4. c = tasks[t].msg.chunk => On(t, c)
  BY Zenon DEF On, Hands, WorkDatabaseFails
<1> QED
  BY <1>2, <1>3, <1>4, WorksCounts

(* A chunk is completed.                                                   *)
LEMMA CompleteChunkCounts ==
    ASSUME BaseInv, NEW c \in Chunk, Count(c), NEW t \in Task, CompleteChunk(t)
    PROVE  Count(c)'
<1>1. TypeOK /\ TaskInv
  BY DEF BaseInv, ClaimInv
<1>2. Works(t)
  BY <1>1, CompleteChunkWorks
<1>3. faults' >= faults
  BY <1>1, FaultGrows, Zenon DEF CompleteChunk
<1>4. tasks'[t].pc = "ack"
  BY <1>1, GotoRow, Zenon DEF TaskState, TaskBecomes, CompleteChunk
<1>5. c = tasks[t].msg.chunk => On(t, c) /\ ~On(t, c)'
  BY <1>4, Zenon DEF On, Hands, CompleteChunk
<1> QED
  BY <1>2, <1>3, <1>5, WorksCounts, Zenon

(* A chunk is released to wait for its retries, and its message goes to a  *)
(* retry queue.                                                            *)
LEMMA WaitForRetryCounts ==
    ASSUME BaseInv, NEW c \in Chunk, Count(c), NEW t \in Task, WaitForRetry(t)
    PROVE  Count(c)'
<1>1. TypeOK /\ TaskInv
  BY DEF BaseInv, ClaimInv
<1>2. Works(t)
  BY <1>1, WaitForRetryWorks
<1>3. faults' >= faults
  BY <1>1, FaultGrows, Zenon DEF WaitForRetry
<1>4. ASSUME c = tasks[t].msg.chunk
      PROVE  (On(t, c) /\ ~On(t, c)') \/ (On(t, c) /\ Abandoned(c)' = 0)
  <2>1. On(t, c)
    BY <1>4, Zenon DEF On, Hands, WaitForRetry
  <2>2. CASE HoldsLease(t)
    <3>1. ChunkBecomes(c, "pending", chunks[c].recoveries)
      BY <1>1, <1>4, <2>2, WaitRow, Zenon DEF WaitForRetry
    <3>2. chunks'[c].status = "pending"
      BY <3>1, Zenon DEF ChunkBecomes
    <3> QED
      BY <2>1, <3>2, UnleasedCounts
  <2>3. CASE ~HoldsLease(t)
    <3>1. tasks'[t].pc = "ack"
      BY <1>1, <2>3, GotoRow, Zenon DEF TaskState, TaskBecomes, WaitForRetry
    <3> QED
      BY <2>1, <3>1 DEF On, Hands
  <2> QED
    BY <2>2, <2>3, Zenon
<1> QED
  BY <1>2, <1>3, <1>4, WorksCounts

(* A chunk fails.                                                          *)
LEMMA FailChunkCounts ==
    ASSUME BaseInv, NEW c \in Chunk, Count(c), NEW t \in Task, FailChunk(t)
    PROVE  Count(c)'
<1>1. TypeOK /\ TaskInv
  BY DEF BaseInv, ClaimInv
<1>2. Works(t)
  BY <1>1, FailChunkWorks
<1>3. faults' >= faults
  BY <1>1, FaultGrows, Zenon DEF FailChunk
<1>4. ASSUME c = tasks[t].msg.chunk
      PROVE  (On(t, c) /\ ~On(t, c)') \/ (On(t, c) /\ Abandoned(c)' = 0)
  <2>1. On(t, c)
    BY <1>4, Zenon DEF On, Hands, FailChunk
  <2>2. CASE Goto(t, "ack")
    <3>1. tasks'[t].pc = "ack"
      BY <1>1, <2>2, GotoRow, Zenon DEF TaskState, TaskBecomes
    <3> QED
      BY <2>1, <3>1 DEF On, Hands
  <2>3. CASE chunks' = Unlease(t, "pending")
    BY <1>1, <1>4, <2>1, <2>3, UnleaseStatus, Zenon
  <2>4. CASE chunks' = Unlease(t, "failed")
    BY <1>1, <1>4, <2>1, <2>4, UnleaseStatus, Zenon
  <2> QED
    BY <2>2, <2>3, <2>4, Zenon DEF FailChunk
<1> QED
  BY <1>2, <1>3, <1>4, WorksCounts

(* A message is given up.                                                  *)
LEMMA QuarantineCounts ==
    ASSUME BaseInv, NEW c \in Chunk, Count(c), NEW t \in Task, Quarantine(t)
    PROVE  Count(c)'
<1>1. TypeOK /\ TaskInv
  BY DEF BaseInv, ClaimInv
<1>2. Works(t)
  BY <1>1, QuarantineWorks, Zenon
<1>3. faults' >= faults
  BY <1>1, FaultGrows, Zenon DEF Quarantine
<1>4. tasks'[t].pc = "ack" /\ chunks' = chunks /\ tasks[t].pc = "quarantine"
  BY <1>1, GotoRow, Zenon DEF TaskState, TaskBecomes, Quarantine
<1>5. ~On(t, c) /\ ~On(t, c)' /\ chunks' = chunks
  BY <1>4, Zenon DEF On, Hands
<1> QED
  BY <1>2, <1>3, <1>5, WorksCounts, Zenon

-----------------------------------------------------------------------------
(* Transfers between the queues and the workers.                           *)

(* The faults of a transfer are counted by numbers.                        *)
LEMMA TransferFaults ==
    ASSUME TypeOK, NEW t, NEW x, Transfers(t, x)
    PROVE  faults \in Nat /\ faults' \in Nat
  BY DeliveryAssumption DEF TypeOK, Transfers

(* A transfer of the message x, seen from another chunk.                   *)
LEMMA ElsewhereCounts ==
    ASSUME TypeOK, NEW c \in Chunk, Count(c), NEW t \in Task, NEW x, Transfers(t, x),
           x.chunk # c, faults' >= faults
    PROVE  Count(c)'
<1>1. OnlyTask(t)
  BY Zenon DEF Transfers, OnlyTask
<1>2. ~On(t, c)' /\ ~Attends(t, c)
  BY Zenon DEF Transfers, On, Attends, Hands
<1>3. /\ Adds(Unsent(c), Unsent(c)', 0) /\ Adds(Overrun(c), Overrun(c)', 0)
      /\ Adds(Late(c), Late(c)', 0)
  BY OutboxSame, Zenon DEF Transfers
<1>4. Adds(Queued(c), Queued(c)', 0)
  BY QueueSame, Zenon DEF Transfers
<1>5. Adds(Busy(c), Busy(c)', 0)
  BY <1>1, <1>2, BusyKept, Zenon
<1>6. Abandoned(c)' <= Abandoned(c) + 0
  BY <1>1, <1>2, AbandonedSame, Zenon DEF Transfers
<1>7. Balance(c, 0, 0, 0, 0, 0, 0)
  BY <1>3, <1>4, <1>5, <1>6 DEF Balance
<1> QED
  BY <1>7, TransferFaults, Weighs

(* A transfer changes the queues and the workers only.                     *)
LEMMA TransferBalance ==
    ASSUME NEW c, UNCHANGED <<outbox, claims>>, NEW q \in Int, NEW b \in Int, NEW a \in Int,
           Adds(Queued(c), Queued(c)', q), Adds(Busy(c), Busy(c)', b),
           Abandoned(c)' <= Abandoned(c) + a
    PROVE  Balance(c, 0, 0, 0, q, b, a)
  BY OutboxSame DEF Balance

(* A delivery moves a copy from the queue to a worker.                     *)
LEMMA ReceiveCounts ==
    ASSUME BaseInv, NEW c \in Chunk, Count(c), NEW t \in Task, Receive(t)
    PROVE  Count(c)'
<1>1. TypeOK /\ TaskInv /\ RoutingInv
  BY DEF BaseInv, ClaimInv
<1>2. PICK m \in Message :
            /\ ready[m] > 0
            /\ ready' = [ready EXCEPT ![m] = @ - 1]
            /\ tasks' = [tasks EXCEPT ![t] = [pc |-> "received", msg |-> m, held |-> TRUE,
                                              copy |-> 0]]
  BY Zenon DEF Receive
<1>3. PICK x : Transfers(t, x)
  BY <1>1, ReceiveTransfers
<1>4. TaskBecomes(t, "received", m, TRUE)
  BY <1>1, <1>2, ReceivedRow, Zenon
<1>5. x = m
  BY <1>3, <1>4, Zenon DEF Transfers, TaskBecomes
<1>6. faults' >= faults
  BY <1>1, FaultGrows, Zenon DEF Receive
<1>7. CASE m.chunk # c
  BY <1>1, <1>3, <1>5, <1>6, <1>7, ElsewhereCounts, Zenon
<1>8. CASE m.chunk = c
  <2>1. ready \in [Message -> Nat] /\ delayed' = delayed /\ delayed \in [Message -> Nat]
    BY <1>1, Zenon DEF Receive, TypeOK
  <2>2. /\ ready' \in [Message -> Nat]
        /\ \A n \in Message : n # m => ready'[n] = ready[n]
        /\ ready'[m] = ready[m] - 1
    BY <1>2, <2>1, QueueShrinks, Zenon
  <2>3. ready'[m] + delayed'[m] = (ready[m] + delayed[m]) - 1
    <3>1. ready[m] \in Nat /\ delayed[m] \in Nat
      BY <2>1, Zenon
    <3> QED
      BY <2>1, <2>2, <3>1
  <2>4. Adds(Queued(c), Queued(c)', -1)
    BY <1>1, <1>8, <2>1, <2>2, <2>3, QueueLoses, Zenon
  <2>5. OnlyTask(t)
    BY <1>4, Zenon DEF TaskBecomes, OnlyTask
  <2>6. ~Attends(t, c)
    BY Zenon DEF Attends, Receive
  <2>7. Abandoned(c)' <= Abandoned(c) + 0
    BY <2>5, <2>6, AbandonedSame, Zenon DEF Receive
  <2>8. Balance(c, 0, 0, 0, -1, 1, 0)
    BY <2>4, <2>5, <2>7, BusyGains, TransferBalance DEF Receive, publication
  <2> QED
    BY <1>1, <1>3, <1>6, <2>8, TransferFaults, Weighs
<1> QED
  BY <1>7, <1>8, Zenon

(* The copy of a retry replaces the delivery that is acknowledged after    *)
(* it; publishing it twice is a fault.                                     *)
LEMMA RepublishCounts ==
    ASSUME BaseInv, NEW c \in Chunk, Count(c), NEW t \in Task, Republish(t)
    PROVE  Count(c)'
<1>1. TypeOK /\ TaskInv /\ RoutingInv
  BY DEF BaseInv, ClaimInv
<1>2. PICK x : Transfers(t, x)
  BY <1>1, RepublishTransfers, Zenon
<1>3. x = tasks[t].msg /\ x \in Message
  BY <1>2, Zenon DEF Transfers, Republish
<1>4. TaskBecomes(t, "ack", x, tasks[t].held)
  BY <1>1, <1>3, GotoRow, Zenon DEF Republish, TaskState
<1> DEFINE y == [chunk |-> x.chunk, retries |-> tasks[t].copy]
<1>5. y \in Message /\ y.chunk = x.chunk
  BY <1>1, <1>3 DEF Message, TypeOK, TaskRow
<1>6. PICK n \in {1, 2} : /\ delayed' = [delayed EXCEPT ![y] = @ + n]
                          /\ IF n = 1 THEN NoFault ELSE Fault
  BY <1>3, Zenon DEF Republish, WithCopies
<1> HIDE DEF y
<1>7. faults' >= faults /\ (n = 2 => faults' > faults)
  BY <1>1, <1>6, FaultGrows
<1>8. CASE x.chunk # c
  BY <1>1, <1>2, <1>7, <1>8, ElsewhereCounts, Zenon
<1>9. CASE x.chunk = c
  <2>1. delayed \in [Message -> Nat] /\ ready' = ready /\ ready \in [Message -> Nat]
    BY <1>1, Zenon DEF Republish, TypeOK
  <2>2. /\ delayed' \in [Message -> Nat]
        /\ \A m \in Message : m # y => delayed'[m] = delayed[m]
        /\ delayed'[y] = delayed[y] + n
    BY <1>5, <1>6, <2>1, QueueGrows
  <2>3. ready'[y] + delayed'[y] = ready[y] + delayed[y] + n
    BY <1>5, <2>1, <2>2
  <2>4. Adds(Queued(c), Queued(c)', n)
    BY <1>1, <1>5, <1>9, <2>1, <2>2, <2>3, QueueChanges
  <2>5. OnlyTask(t) /\ On(t, c) /\ ~On(t, c)' /\ ~Attends(t, c)
    BY <1>3, <1>4, <1>9, Zenon
       DEF TaskBecomes, OnlyTask, On, Hands, Attends, Republish
  <2>6. Adds(Busy(c), Busy(c)', -1)
    BY <2>5, BusyDrops, Zenon
  <2>7. Abandoned(c)' <= Abandoned(c) + 0
    BY <2>5, AbandonedSame, Zenon DEF Republish
  <2>8. Balance(c, 0, 0, 0, n, -1, 0)
    BY <2>4, <2>6, <2>7, TransferBalance DEF Republish, publication
  <2>9. CASE n = 1
    BY <1>1, <1>2, <1>7, <2>8, <2>9, TransferFaults, Weighs
  <2>10. CASE n = 2
    <3>1. 0 + 0 + 0 + 2 + (-1) + 0 <= CopiesOfFault
      BY FaultMultiplies
    <3> QED
      BY <1>1, <1>2, <1>7, <2>8, <2>10, <3>1, TransferFaults, Weighs, Zenon
  <2> QED
    BY <2>9, <2>10, Zenon
<1> QED
  BY <1>8, <1>9, Zenon

(* An acknowledgement forgets a delivery that was not counted any more.    *)
LEMMA AckCounts ==
    ASSUME BaseInv, NEW c \in Chunk, Count(c), NEW t \in Task, Ack(t)
    PROVE  Count(c)'
<1>1. TypeOK /\ TaskInv /\ RoutingInv
  BY DEF BaseInv, ClaimInv
<1>2. PICK x : Transfers(t, x)
  BY <1>1, AckTransfers
<1>3. TaskBecomes(t, "idle", NoMessage, FALSE)
  BY <1>1, IdleRow, Zenon DEF Ack
<1>4. OnlyTask(t) /\ ~On(t, c)' /\ ~Attends(t, c)
  BY <1>3, Zenon DEF TaskBecomes, OnlyTask, On, Hands, Attends, Ack
<1>5. Adds(Busy(c), Busy(c)', 0)
  BY <1>4, BusyKept, Zenon
<1>6. Abandoned(c)' <= Abandoned(c) + 0
  BY <1>4, AbandonedSame, Zenon DEF Ack
<1>7. Adds(Queued(c), Queued(c)', 0)
  BY QueueSame, Zenon DEF Ack, broker
<1>8. Balance(c, 0, 0, 0, 0, 0, 0)
  BY <1>5, <1>6, <1>7, TransferBalance DEF Ack, publication
<1>9. faults' >= faults
  BY <1>1, FaultGrows, Zenon DEF Ack
<1> QED
  BY <1>1, <1>2, <1>8, <1>9, TransferFaults, Weighs

(* A delivery returns to the queue, and n copies reach the retry queue.    *)
LEMMA ReturnedQueue ==
    ASSUME TypeOK, NEW c \in Chunk, NEW x \in Message, NEW y \in Message,
           NEW i \in 0 .. 1, NEW n \in 0 .. 2,
           ready' \in [Message -> Nat], delayed' \in [Message -> Nat],
           \A m \in Message : m # x => ready'[m] = ready[m], ready'[x] = ready[x] + i,
           \A m \in Message : m # y => delayed'[m] = delayed[m], delayed'[y] = delayed[y] + n
    PROVE  Adds(Queued(c), Queued(c)', i + n)
<1> PICK f, g, h : f = Both(ready, delayed) /\ g = Both(ready', delayed) /\ h = Both(ready', delayed')
  BY Zenon
<1>1. /\ f \in [Message -> Nat] /\ \A m \in Message : f[m] = ready[m] + delayed[m]
      /\ g \in [Message -> Nat] /\ \A m \in Message : g[m] = ready'[m] + delayed[m]
      /\ h \in [Message -> Nat] /\ \A m \in Message : h[m] = ready'[m] + delayed'[m]
  BY BothType DEF TypeOK
<1>2. \A m \in Message : ready[m] \in Nat /\ delayed[m] \in Nat /\ ready'[m] \in Nat
  BY Zenon DEF TypeOK
<1>3. (\A m \in Message : m # x => g[m] = f[m]) /\ g[x] = f[x] + i
  <2>1. \A m \in Message : m # x => g[m] = f[m]
    BY <1>1, <1>2
  <2>2. g[x] = ready'[x] + delayed[x] /\ f[x] = ready[x] + delayed[x]
    BY <1>1, Zenon
  <2>3. ready[x] \in Nat /\ delayed[x] \in Nat /\ ready'[x] \in Nat
    BY <1>2, Zenon
  <2> QED
    BY <2>1, <2>2, <2>3
<1>4. (\A m \in Message : m # y => h[m] = g[m]) /\ h[y] = g[y] + n
  BY <1>1, <1>2
<1>5. i \in 0 .. 2 /\ i \in Int /\ n \in Int
  OBVIOUS
<1>6. Adds(QueuedIn(c, f), QueuedIn(c, g), i)
  BY <1>1, <1>3, <1>5, QueueAdds, Zenon
<1>7. Adds(QueuedIn(c, g), QueuedIn(c, h), n)
  BY <1>1, <1>4, QueueAdds, Zenon
<1>8. Adds(QueuedIn(c, f), QueuedIn(c, h), i + n)
  BY <1>5, <1>6, <1>7, AddsTwice, Zenon
<1> QED
  BY <1>8, QueuedNow, Zenon

(* The broker returns a delivery once, and only if it holds it.            *)
LEMMA RequeuedOnce ==
    ASSUME TypeOK, TaskInv, NEW t \in Task, tasks[t].msg \in Message, ready' = Requeued(t)
    PROVE  \E i \in 0 .. 1 : /\ ready' \in [Message -> Nat]
                             /\ \A m \in Message : m # tasks[t].msg => ready'[m] = ready[m]
                             /\ ready'[tasks[t].msg] = ready[tasks[t].msg] + i
<1>1. ready \in [Message -> Nat]
  BY Zenon DEF TypeOK
<1>2. CASE tasks[t].held
  <2>1. ready' = [ready EXCEPT ![tasks[t].msg] = @ + 1]
    BY <1>2, Zenon DEF Requeued
  <2>2. /\ ready' \in [Message -> Nat]
        /\ \A m \in Message : m # tasks[t].msg => ready'[m] = ready[m]
        /\ ready'[tasks[t].msg] = ready[tasks[t].msg] + 1
    BY <1>1, <2>1, QueueGrows
  <2> QED
    BY <2>2
<1>3. CASE ~tasks[t].held
  <2>1. ready' = ready
    BY <1>3, Zenon DEF Requeued
  <2>2. ready[tasks[t].msg] \in Nat
    BY <1>1, Zenon
  <2>3. ready'[tasks[t].msg] = ready[tasks[t].msg] + 0
    BY <2>1, <2>2
  <2> QED
    BY <1>1, <2>1, <2>3
<1> QED
  BY <1>2, <1>3, Zenon

(* A worker that dies returns its delivery and may abandon a lease: two    *)
(* copies for the fault.                                                   *)
LEMMA WorkerDiesCounts ==
    ASSUME BaseInv, NEW c \in Chunk, Count(c), NEW t \in Task, WorkerDies(t)
    PROVE  Count(c)'
<1>1. TypeOK /\ TaskInv /\ RoutingInv
  BY DEF BaseInv, ClaimInv
<1>2. PICK x : Transfers(t, x)
  BY <1>1, WorkerDiesTransfers, Zenon
<1>3. x = tasks[t].msg /\ x \in Message
  BY <1>2 DEF Transfers, WorkerDies
<1>4. TaskBecomes(t, "idle", NoMessage, FALSE)
  BY <1>1, IdleRow, Zenon DEF WorkerDies
<1> DEFINE y == [chunk |-> x.chunk, retries |-> tasks[t].copy]
<1>5. y \in Message /\ y.chunk = x.chunk
  BY <1>1, <1>3 DEF Message, TypeOK, TaskRow
<1>6. \/ delayed' = delayed
      \/ tasks[t].pc = "republish" /\ \E n \in {1, 2} : delayed' = [delayed EXCEPT ![y] = @ + n]
  BY <1>3, Zenon DEF WorkerDies, WithCopies
<1> HIDE DEF y
<1>7. faults' >= faults /\ faults' > faults
  BY <1>1, FaultGrows, Zenon DEF WorkerDies
<1>8. CASE x.chunk # c
  BY <1>1, <1>2, <1>7, <1>8, ElsewhereCounts, Zenon
<1>9. CASE x.chunk = c
  <2>1. delayed \in [Message -> Nat]
    BY <1>1, Zenon DEF TypeOK
  <2>2. PICK i \in 0 .. 1 : /\ ready' \in [Message -> Nat]
                            /\ \A m \in Message : m # x => ready'[m] = ready[m]
                            /\ ready'[x] = ready[x] + i
    BY <1>1, <1>3, RequeuedOnce, Zenon DEF WorkerDies
  <2>3. PICK n \in 0 .. 2 : /\ delayed' \in [Message -> Nat]
                            /\ \A m \in Message : m # y => delayed'[m] = delayed[m]
                            /\ delayed'[y] = delayed[y] + n
                            /\ n > 0 => tasks[t].pc = "republish"
    <3>1. CASE delayed' = delayed
      <4>1. delayed[y] \in Nat
        BY <1>5, <2>1, Zenon
      <4>2. delayed'[y] = delayed[y] + 0
        BY <3>1, <4>1
      <4> QED
        BY <2>1, <3>1, <4>2
    <3>2. CASE tasks[t].pc = "republish" /\ \E n \in {1, 2} : delayed' = [delayed EXCEPT ![y] = @ + n]
      <4>1. PICK n \in {1, 2} : delayed' = [delayed EXCEPT ![y] = @ + n]
        BY <3>2, Zenon
      <4>2. /\ delayed' \in [Message -> Nat]
            /\ \A m \in Message : m # y => delayed'[m] = delayed[m]
            /\ delayed'[y] = delayed[y] + n
        BY <1>5, <2>1, <4>1, QueueGrows
      <4> QED
        BY <3>2, <4>2
    <3> QED
      BY <1>6, <3>1, <3>2, Zenon
  <2>4. Adds(Queued(c), Queued(c)', i + n)
    BY <1>1, <1>3, <1>5, <2>2, <2>3, ReturnedQueue, Zenon
  <2>5. OnlyTask(t) /\ ~On(t, c)'
    BY <1>4, Zenon DEF TaskBecomes, OnlyTask, On, Hands
  <2>6. i + n \in Int /\ i + n <= 3
    OBVIOUS
  <2>7. CASE tasks[t].pc = "republish"
    <3>1. On(t, c) /\ ~Attends(t, c)
      BY <1>3, <1>9, <2>7, Zenon DEF On, Hands, Attends
    <3>2. Adds(Busy(c), Busy(c)', -1)
      BY <2>5, <3>1, BusyDrops, Zenon
    <3>3. Abandoned(c)' <= Abandoned(c) + 0
      BY <2>5, <3>1, AbandonedSame, Zenon DEF WorkerDies
    <3>4. Balance(c, 0, 0, 0, i + n, -1, 0)
      BY <2>4, <2>6, <3>2, <3>3, TransferBalance DEF WorkerDies, publication
    <3>5. 0 + 0 + 0 + (i + n) + (-1) + 0 <= CopiesOfFault
      BY <2>6, FaultMultiplies
    <3> QED
      BY <1>1, <1>2, <1>7, <3>4, <3>5, TransferFaults, Weighs, Zenon
  <2>8. CASE tasks[t].pc # "republish"
    <3>1. n = 0
      BY <2>3, <2>8
    <3>2. Adds(Busy(c), Busy(c)', 0)
      BY <2>5, BusyKept, Zenon
    <3>3. Balance(c, 0, 0, 0, i + n, 0, 1)
      BY <2>4, <2>6, <3>2, AbandonedGains, TransferBalance
         DEF WorkerDies, publication
    <3>4. 0 + 0 + 0 + (i + n) + 0 + 1 <= CopiesOfFault
      BY <3>1, FaultMultiplies
    <3> QED
      BY <1>1, <1>2, <1>7, <3>3, <3>4, TransferFaults, Weighs, Zenon
  <2> QED
    BY <2>7, <2>8, Zenon
<1> QED
  BY <1>8, <1>9, Zenon

(* A dropped connection returns the delivery while the worker goes on: a   *)
(* fault.                                                                  *)
LEMMA DisconnectCounts ==
    ASSUME BaseInv, NEW c \in Chunk, Count(c), NEW t \in Task, Disconnect(t)
    PROVE  Count(c)'
<1>1. TypeOK /\ TaskInv /\ RoutingInv
  BY DEF BaseInv, ClaimInv
<1>2. PICK x : Transfers(t, x)
  BY <1>1, DisconnectTransfers
<1>3. tasks[t].pc # "idle"
  BY <1>1, Zenon DEF Disconnect, TaskInv
<1>4. x = tasks[t].msg /\ x \in Message
  BY <1>2, <1>3 DEF Transfers
<1>5. TaskBecomes(t, tasks[t].pc, tasks[t].msg, FALSE)
  BY <1>1, ReleasedRow, Zenon DEF Disconnect
<1>6. faults' >= faults /\ faults' > faults
  BY <1>1, DeliveryAssumption DEF Disconnect, TypeOK
<1>7. CASE x.chunk # c
  BY <1>1, <1>2, <1>6, <1>7, ElsewhereCounts
<1>8. CASE x.chunk = c
  <2>1. delayed \in [Message -> Nat] /\ delayed' = delayed
    BY <1>1, Zenon DEF TypeOK, Disconnect
  <2>2. PICK i \in 0 .. 1 : /\ ready' \in [Message -> Nat]
                            /\ \A m \in Message : m # x => ready'[m] = ready[m]
                            /\ ready'[x] = ready[x] + i
    BY <1>1, <1>4, RequeuedOnce, Zenon DEF Disconnect
  <2>3. ready'[x] + delayed'[x] = ready[x] + delayed[x] + i
    <3>1. ready[x] \in Nat /\ delayed[x] \in Nat
      BY <1>1, <1>4, Zenon DEF TypeOK
    <3> QED
      BY <2>1, <2>2, <3>1
  <2>4. Adds(Queued(c), Queued(c)', i)
    BY <1>1, <1>4, <1>8, <2>1, <2>2, <2>3, QueueChanges
  <2>5. OnlyTask(t) /\ (On(t, c)' => On(t, c))
    BY <1>5, Zenon DEF TaskBecomes, OnlyTask, On
  <2>6. Adds(Busy(c), Busy(c)', 0)
    BY <2>5, BusyKept, Zenon
  <2>7. Balance(c, 0, 0, 0, i, 0, 1)
    BY <2>4, <2>6, AbandonedGains, TransferBalance DEF Disconnect, publication
  <2>8. 0 + 0 + 0 + i + 0 + 1 <= CopiesOfFault
    BY FaultMultiplies
  <2> QED
    BY <1>1, <1>2, <1>6, <2>7, <2>8, TransferFaults, Weighs, Zenon
<1> QED
  BY <1>7, <1>8

(* The end of a delay moves a copy between queues.                         *)
LEMMA DelayEndsCounts ==
    ASSUME BaseInv, NEW c \in Chunk, Count(c), NEW x \in Message, DelayEnds(x)
    PROVE  Count(c)'
<1>1. TypeOK /\ TaskInv /\ RoutingInv
  BY Zenon DEF BaseInv, ClaimInv
<1>2. Transfers(NoTask, x)
  BY <1>1, DelayEndsTransfers, Zenon
<1>3. ASSUME NEW m \in Message PROVE ready'[m] + delayed'[m] = ready[m] + delayed[m]
  BY <1>1 DEF DelayEnds, TypeOK
<1>4. Adds(Queued(c), Queued(c)', 0)
  BY <1>3, QueueSame, Zenon
<1>5. Busy(c)' = Busy(c) /\ Abandoned(c)' = Abandoned(c)
  BY Zenon DEF Busy, Abandoned, Attended, DelayEnds
<1>6. Adds(Busy(c), Busy(c)', 0) /\ Abandoned(c)' <= Abandoned(c) + 0
  BY <1>5, AddsNone, AbandonedRange
<1>7. Balance(c, 0, 0, 0, 0, 0, 0)
  BY <1>4, <1>6, TransferBalance DEF DelayEnds, publication
<1>8. faults' >= faults
  BY <1>1, FaultGrows, Zenon DEF DelayEnds
<1> QED
  BY <1>1, <1>2, <1>7, <1>8, TransferFaults, Weighs

(* A lease ends under its owner by a fault, or nobody works under it.      *)
LEMMA LeaseEndsCounts ==
    ASSUME BaseInv, NEW c \in Chunk, Count(c), NEW d \in Chunk, LeaseEnds(d)
    PROVE  Count(c)'
<1>1. TypeOK /\ TaskInv /\ RoutingInv /\ TypeOK'
  BY LeaseEndsKeeps, Zenon DEF BaseInv, ClaimInv
<1>2. faults \in Nat /\ faults' \in Nat
  BY <1>1, FaultTypes, Zenon
<1>3. Busy(c)' = Busy(c)
  BY Zenon DEF Busy, LeaseEnds
<1>4. Adds(Busy(c), Busy(c)', 0) /\ Adds(Queued(c), Queued(c)', 0)
  BY <1>3, AddsNone, QueueSame, Zenon DEF LeaseEnds, broker
<1>5. UNCHANGED <<outbox, claims>> /\ tasks' = tasks
  BY Zenon DEF LeaseEnds, publication
<1>6. ASSUME c # d \/ ~Attended(c) PROVE Abandoned(c)' <= Abandoned(c) + 0
  <2>1. CASE c # d
    <3>1. chunks'[c] = chunks[c]
      BY <1>1, <2>1, Zenon DEF LeaseEnds, TypeOK
    <3>2. Abandoned(c)' = Abandoned(c)
      BY <1>5, <3>1, Zenon DEF Abandoned, Attended
    <3> QED
      BY <3>2, AbandonedRange
  <2>2. CASE c = d /\ ~Attended(c)
    <3>1. Abandoned(c) = 1
      BY <2>2, Zenon DEF Abandoned, LeaseEnds
    <3> QED
      BY <3>1, AbandonedRange
  <2> QED
    BY <1>6, <2>1, <2>2, Zenon
<1>7. CASE Fault
  <2>1. Balance(c, 0, 0, 0, 0, 0, 1)
    BY <1>4, <1>5, AbandonedGains, TransferBalance
  <2>2. 0 + 0 + 0 + 0 + 0 + 1 <= CopiesOfFault /\ faults' > faults
    BY <1>1, <1>7, FaultMultiplies, FaultGrows
  <2> QED
    BY <1>2, <2>1, <2>2, Weighs, Zenon
<1>8. CASE NoFault /\ ~\E t \in Task : tasks[t].pc = "working" /\ tasks[t].msg.chunk = d /\ HoldsLease(t)
  <2>1. c # d \/ ~Attended(c)
    BY <1>8, Zenon DEF Attended, HoldsLease, LeaseEnds
  <2>2. Balance(c, 0, 0, 0, 0, 0, 0)
    BY <1>4, <1>5, <1>6, <2>1, TransferBalance
  <2>3. faults' >= faults
    BY <1>1, <1>8, FaultGrows, Zenon
  <2> QED
    BY <1>2, <2>2, <2>3, Weighs
<1> QED
  BY <1>7, <1>8, Zenon DEF LeaseEnds

-----------------------------------------------------------------------------
(* New events.                                                             *)

(* A step that leaves the workers and the chunk alone.                     *)
LEMMA WorkersRest ==
    ASSUME NEW c, tasks' = tasks, chunks'[c] = chunks[c]
    PROVE  Adds(Busy(c), Busy(c)', 0) /\ Abandoned(c)' <= Abandoned(c) + 0
<1>1. Busy(c)' = Busy(c)
  BY Zenon DEF Busy
<1>2. Abandoned(c)' = Abandoned(c)
  BY Zenon DEF Abandoned, Attended
<1> QED
  BY <1>1, <1>2, AddsNone, AbandonedRange

(* Inserting events adds those of the chunk to the unsent ones.            *)
LEMMA NewEvents ==
    ASSUME TypeOK, TokenInv, NEW E, outbox' = WithEvents(E), UNCHANGED claims, NEW c
    PROVE  /\ Late(c)' \subseteq Late(c)
           /\ Overrun(c)' \subseteq Overrun(c)
           /\ Unsent(c)' \subseteq Unsent(c) \cup {f \in Event : f \in E /\ f[1] = c}
<1>1. \A f \in Event : /\ f \notin E => outbox'[f] = outbox[f]
                       /\ outbox[f].status # "none" => outbox'[f] = outbox[f]
  BY EventsAdded, Zenon
<1>2. \A k \in Coordinator : \A r \in claims[k] :
        r.event \in Event /\ outbox[r.event].status # "none"
  BY DEF TypeOK, TokenInv, ClaimRow
<1>3. \A k \in Coordinator : \A r \in claims[k] : IsCurrent(r)' <=> IsCurrent(r)
  BY <1>1, <1>2, Zenon DEF IsCurrent
<1>4. Late(c)' \subseteq Late(c)
  BY <1>3, Zenon DEF Late
<1>5. Overrun(c)' \subseteq Overrun(c)
  <2> SUFFICES ASSUME NEW f \in Overrun(c)' PROVE f \in Overrun(c)
    BY Zenon
  <2>1. f \in Event /\ BeingPublished(f)'
    BY Zenon DEF Overrun
  <2>2. outbox[f].status # "none"
    BY <1>2, <2>1, Zenon DEF BeingPublished
  <2>3. outbox'[f] = outbox[f]
    BY <1>1, <2>1, <2>2, Zenon
  <2>4. BeingPublished(f)
    BY <2>1, <2>3, Zenon DEF BeingPublished
  <2> QED
    BY <2>3, <2>4, Zenon DEF Overrun
<1>6. ASSUME NEW f \in Unsent(c)', f \notin E PROVE f \in Unsent(c)
  <2>1. f \in Event /\ outbox'[f] = outbox[f]
    BY <1>1, <1>6, Zenon DEF Unsent
  <2> QED
    BY <1>3, <2>1, Zenon DEF Unsent
<1>7. \A f \in Unsent(c)' : f \in Event /\ f[1] = c
  BY Zenon DEF Unsent
<1> QED
  BY <1>4, <1>5, <1>6, <1>7

(* recover_expired_run_chunks: the event of a recovery replaces the        *)
(* abandoned lease.                                                        *)
LEMMA RecoverCounts ==
    ASSUME BaseInv, NEW c \in Chunk, Count(c), NEW d \in Chunk, Recover(d)
    PROVE  Count(c)'
<1>1. TypeOK /\ TokenInv /\ TypeOK'
  BY RecoverKeeps, Zenon DEF BaseInv, ClaimInv
<1>2. faults \in Nat /\ faults' \in Nat /\ faults' >= faults
  BY <1>1, FaultTypes, FaultGrows, Zenon DEF Recover
<1>3. UNCHANGED <<claims, ready, delayed, tasks>>
  BY Zenon DEF Recover, broker
<1>4. Adds(Queued(c), Queued(c)', 0)
  BY <1>3, QueueSame, Zenon
<1>5. ASSUME c # d PROVE chunks'[c] = chunks[c]
  BY <1>1, <1>5, Zenon DEF Recover, TypeOK
<1>6. ASSUME c = d PROVE Abandoned(c)' <= Abandoned(c) + (-1)
  <2>1. Abandoned(c) = 1
    BY <1>6, Zenon DEF Recover, Abandoned, Attended
  <2>2. chunks'[c].status # "leased"
    <3>1. CASE chunks[c].recoveries < MaxRecoveries
      <4>1. ChunkBecomes(c, "pending", chunks[c].recoveries + 1)
        BY <1>1, <1>6, <3>1, RecoveredRow, Zenon DEF Recover
      <4> QED
        BY <4>1 DEF ChunkBecomes
    <3>2. CASE ~(chunks[c].recoveries < MaxRecoveries)
      <4>1. ChunkBecomes(c, "failed", chunks[c].recoveries)
        BY <1>1, <1>6, <3>2, FailedRow, Zenon DEF Recover
      <4> QED
        BY <4>1 DEF ChunkBecomes
    <3> QED
      BY <3>1, <3>2, Zenon
  <2>3. Abandoned(c)' = 0
    BY <2>2, UnleasedCounts, Zenon
  <2> QED
    BY <2>1, <2>3
<1>7. Busy(c)' = Busy(c)
  BY <1>3, Zenon DEF Busy
<1>8. Adds(Busy(c), Busy(c)', 0)
  BY <1>7, AddsNone
<1>9. PICK e : outbox' = outbox \/ (outbox' = WithEvents({e}) /\ e[1] = d)
  <2>1. outbox' = outbox \/ outbox' = WithEvents({<<d, chunks[d].recoveries + 1>>})
    BY Zenon DEF Recover
  <2>2. <<d, chunks[d].recoveries + 1>>[1] = d
    BY Zenon
  <2> QED
    BY <2>1, <2>2, Zenon
<1>10. /\ Adds(Late(c), Late(c)', 0) /\ Adds(Overrun(c), Overrun(c)', 0)
       /\ Adds(Unsent(c), Unsent(c)', 1)
       /\ c # d => Adds(Unsent(c), Unsent(c)', 0)
  <2>1. CASE outbox' = outbox
    <3>1. Unsent(c)' = Unsent(c)
      BY <1>3, <2>1, Zenon DEF Unsent, IsCurrent
    <3> QED
      BY <1>3, <2>1, <3>1, OutboxSame, AddsOne, Zenon
  <2>2. CASE outbox' = WithEvents({e}) /\ e[1] = d
    <3>1. /\ Late(c)' \subseteq Late(c)
          /\ Overrun(c)' \subseteq Overrun(c)
          /\ Unsent(c)' \subseteq Unsent(c) \cup {f \in Event : f \in {e} /\ f[1] = c}
      BY <1>1, <1>3, <2>2, NewEvents, Zenon
    <3>2. Unsent(c)' \subseteq Unsent(c) \cup {e} /\ (c # d => Unsent(c)' \subseteq Unsent(c))
      BY <2>2, <3>1, Zenon
    <3> QED
      BY <3>1, <3>2, AddsOne, AddsNone, Zenon
  <2> QED
    BY <1>9, <2>1, <2>2, Zenon
<1>11. CASE c = d
  <2>1. Balance(c, 1, 0, 0, 0, 0, -1)
    BY <1>4, <1>6, <1>8, <1>10, <1>11 DEF Balance
  <2> QED
    BY <1>2, <2>1, Weighs
<1>12. CASE c # d
  <2>1. Balance(c, 0, 0, 0, 0, 0, 0)
    BY <1>3, <1>4, <1>5, <1>10, <1>12, WorkersRest DEF Balance
  <2> QED
    BY <1>2, <2>1, Weighs
<1> QED
  BY <1>11, <1>12, Zenon

(* An event is a chunk and a number of recoveries.                         *)
LEMMA EventChunk ==
    ASSUME NEW e \in Event
    PROVE  \E n \in 0 .. MaxRecoveries : e = <<e[1], n>> /\ e[1] \in Chunk
  BY DEF Event

(* A chunk of the window had nothing on its way, and has one event after.  *)
LEMMA DispatchWindowCounts ==
    ASSUME BaseInv, NEW c \in Chunk, Count(c), NEW k \in Coordinator, DispatchWindow(k)
    PROVE  Count(c)'
<1> DEFINE E == {<<d, 0>> : d \in Window}
<1>1. TypeOK /\ TokenInv /\ TaskInv /\ HiddenInv /\ TypeOK'
  BY DispatchWindowKeeps, Zenon DEF BaseInv, ClaimInv, RoutingInv
<1>2. faults \in Nat /\ faults' \in Nat /\ faults' >= faults
  BY <1>1, FaultTypes, FaultGrows, Zenon DEF DispatchWindow
<1>3. UNCHANGED <<claims, ready, delayed, tasks>> /\ outbox' = WithEvents(E)
  BY Zenon DEF DispatchWindow, broker
<1>4. /\ Late(c)' \subseteq Late(c)
      /\ Overrun(c)' \subseteq Overrun(c)
      /\ Unsent(c)' \subseteq Unsent(c) \cup {f \in Event : f \in E /\ f[1] = c}
  BY <1>1, <1>3, NewEvents, Zenon
<1>5. \A f \in E : f = <<f[1], 0>> /\ f[1] \in Window
  OBVIOUS
<1> HIDE DEF E
<1>6. Adds(Queued(c), Queued(c)', 0)
  BY <1>3, QueueSame, Zenon
<1>7. CASE c \notin Window
  <2>1. Unsent(c)' \subseteq Unsent(c)
    BY <1>4, <1>5, <1>7, Zenon
  <2>2. chunks'[c] = chunks[c]
    BY <1>7, Zenon DEF DispatchWindow
  <2>3. Balance(c, 0, 0, 0, 0, 0, 0)
    BY <1>3, <1>4, <1>6, <2>1, <2>2, AddsNone, WorkersRest DEF Balance
  <2> QED
    BY <1>2, <2>3, Weighs
<1>8. CASE c \in Window
  <2>1. chunks[c].status = "pending" /\ ~chunks[c].dispatched
    BY <1>8, Zenon DEF Window, Undispatched
  <2>2. /\ \A n \in 0 .. MaxRecoveries : outbox[<<c, n>>].status = "none"
        /\ \A m \in Message : m.chunk = c => ready[m] = 0 /\ delayed[m] = 0
        /\ \A t \in Task : tasks[t].pc # "idle" => tasks[t].msg.chunk # c
    BY <1>1, <2>1, Zenon DEF HiddenInv
  <2>3. \A f \in Event : f[1] = c => outbox[f].status = "none"
    BY <2>2, EventChunk, Zenon
  <2>4. Unsent(c) = {} /\ Overrun(c) = {}
    BY <2>3, Zenon DEF Unsent, Overrun
  <2>5. Late(c) = {}
    <3>1. \A j \in Coordinator : \A r \in claims[j] :
            r.event \in Event /\ outbox[r.event].status # "none"
      BY <1>1 DEF TypeOK, TokenInv, ClaimRow
    <3> QED
      BY <2>3, <3>1, Zenon DEF Late
  <2>6. Busy(c)' = {}
    BY <1>3, <2>2, Zenon DEF Busy
  <2>7. Queued(c)' = {}
    <3>1. \A m \in Message : m.chunk = c => 1 .. ready'[m] + delayed'[m] = {}
      BY <1>3, <2>2
    <3> QED
      BY <3>1, Zenon DEF Queued
  <2>8. chunks'[c].status = "pending"
    BY <1>1, <2>1, WindowRows, Zenon
  <2>9. Abandoned(c)' = 0
    BY <2>8, UnleasedCounts, Zenon
  <2>10. Unsent(c)' \subseteq {} \cup {<<c, 0>>} /\ Overrun(c)' = {} /\ Late(c)' = {}
    BY <1>4, <1>5, <2>4, <2>5
  <2>11. Adds({}, Unsent(c)', 1)
    BY <2>10, AddsOne, Zenon
  <2>12. IsFiniteSet({}) /\ Cardinality({}) = 0
    BY FS_EmptySet, Zenon
  <2>13. IsFiniteSet(Unsent(c)') /\ Cardinality(Unsent(c)') <= 1
    BY <2>11, <2>12 DEF Adds
  <2>14. Cardinality(Unsent(c)') \in Nat /\ CopiesOfFault * faults' \in Nat
    BY <1>2, <2>13, FS_CardinalityType, FaultMultiplies, Zenon
  <2>15. Cardinality(Unsent(c)') + 0 + 0 + 0 + 0 + 0 <= 1 + CopiesOfFault * faults'
    BY <2>13, <2>14
  <2> QED
    BY <2>6, <2>7, <2>9, <2>10, <2>12, <2>13, <2>15, Zenon DEF Count
<1> QED
  BY <1>7, <1>8, Zenon

(* Moving the cursor concerns no message.                                  *)
LEMMA CommitCursorCounts ==
    ASSUME BaseInv, NEW c \in Chunk, Count(c), NEW k \in Coordinator, CommitCursor(k)
    PROVE  Count(c)'
<1>1. TypeOK /\ TypeOK'
  BY CommitCursorKeeps, Zenon DEF BaseInv, ClaimInv
<1>2. faults \in Nat /\ faults' \in Nat /\ faults' >= faults
  BY <1>1, FaultTypes, FaultGrows DEF CommitCursor
<1>3. UNCHANGED <<chunks, outbox, claims, ready, delayed, tasks>>
  BY Zenon DEF CommitCursor, publication, broker
<1>4. Balance(c, 0, 0, 0, 0, 0, 0)
  BY <1>3, OutboxSame, QueueSame, WorkersRest DEF Balance
<1> QED
  BY <1>2, <1>4, Weighs

-----------------------------------------------------------------------------
(* The publisher.                                                          *)

(* A publish changes the phase of its claim.                               *)
LEMMA MovedRow ==
    ASSUME TypeOK, NEW k \in Coordinator, NEW r \in claims[k],
           NEW phase \in {"sent", "refused"}, claims' = Moved(k, r, phase)
    PROVE  \E q \in ClaimRow :
              /\ q.event = r.event /\ q.token = r.token /\ q.phase = phase
              /\ claims'[k] = (claims[k] \ {r}) \cup {q}
              /\ \A j \in Coordinator : j # k => claims'[j] = claims[j]
<1> DEFINE q == [r EXCEPT !.phase = phase]
<1>1. claims \in [Coordinator -> SUBSET ClaimRow] /\ r \in ClaimRow
  BY DEF TypeOK
<1>2. q \in ClaimRow /\ q.event = r.event /\ q.token = r.token /\ q.phase = phase
  BY <1>1 DEF ClaimRow
<1>3. claims' = [claims EXCEPT ![k] = (claims[k] \ {r}) \cup {q}]
  BY Zenon DEF Moved
<1> HIDE DEF q
<1>4. /\ claims'[k] = (claims[k] \ {r}) \cup {q}
      /\ \A j \in Coordinator : j # k => claims'[j] = claims[j]
  BY <1>1, <1>3, Zenon
<1> QED
  BY <1>2, <1>4, Zenon

(* A claim that publishes is not late any more, and its event, if it is    *)
(* current, not unsent.                                                    *)
LEMMA PublishingSets ==
    ASSUME BaseInv, NEW k \in Coordinator, NEW r \in claims[k], r.phase = "claimed",
           NEW phase \in {"sent", "refused"}, claims' = Moved(k, r, phase), outbox' = outbox,
           NEW c
    PROVE  /\ Overrun(c)' \subseteq Overrun(c)
           /\ Late(c)' \subseteq Late(c) \ {<<k, r>>}
           /\ Unsent(c)' \subseteq Unsent(c)
           /\ phase = "sent" /\ IsCurrent(r) => r.event \notin Unsent(c)'
<1>1. TypeOK
  BY Zenon DEF BaseInv, ClaimInv
<1>2. PICK q \in ClaimRow :
              /\ q.event = r.event /\ q.token = r.token /\ q.phase = phase
              /\ claims'[k] = (claims[k] \ {r}) \cup {q}
              /\ \A j \in Coordinator : j # k => claims'[j] = claims[j]
  BY <1>1, MovedRow, Zenon
<1>3. \A j \in Coordinator : \A y \in claims'[j] : y = q \/ (y \in claims[j] /\ ~(j = k /\ y = r))
  <2> SUFFICES ASSUME NEW j \in Coordinator, NEW y \in claims'[j], y # q
               PROVE  y \in claims[j] /\ ~(j = k /\ y = r)
    BY Zenon
  <2>1. CASE j = k
    BY <1>2, <2>1
  <2>2. CASE j # k
    BY <1>2, <2>2, Zenon
  <2> QED
    BY <2>1, <2>2, Zenon
<1>4. \A j \in Coordinator : \A y \in claims[j] : (j = k /\ y = r) \/ y \in claims'[j]
  BY <1>2, Zenon
<1>5. \A y : IsCurrent(y)' <=> IsCurrent(y)
  BY Zenon DEF IsCurrent
<1>6. Overrun(c)' \subseteq Overrun(c)
  <2> SUFFICES ASSUME NEW f \in Overrun(c)' PROVE BeingPublished(f)
    BY Zenon DEF Overrun
  <2>1. PICK j \in Coordinator : \E y \in claims'[j] : y.event = f /\ y.token = outbox[f].token
    BY Zenon DEF Overrun, BeingPublished
  <2>2. PICK y \in claims'[j] : y.event = f /\ y.token = outbox[f].token
    BY <2>1, Zenon
  <2>3. CASE y = q
    BY <1>2, <2>2, <2>3, Zenon DEF BeingPublished
  <2>4. CASE y \in claims[j]
    BY <2>2, <2>4, Zenon DEF BeingPublished
  <2> QED
    BY <1>3, <2>3, <2>4, Zenon
<1>7. Late(c)' \subseteq Late(c) \ {<<k, r>>}
  <2> SUFFICES ASSUME NEW x \in Late(c)' PROVE x \in Late(c) /\ x # <<k, r>>
    BY Zenon
  <2>1. /\ x \in Coordinator \X ClaimRow /\ x[1] \in Coordinator /\ x[2] \in claims'[x[1]]
        /\ x[2].event[1] = c /\ x[2].phase = "claimed" /\ ~IsCurrent(x[2])
    BY <1>5, Zenon DEF Late
  <2>2. x[2] # q
    BY <1>2, <2>1, Zenon
  <2>3. x[2] \in claims[x[1]] /\ ~(x[1] = k /\ x[2] = r)
    BY <1>3, <2>1, <2>2, Zenon
  <2> QED
    BY <2>1, <2>3 DEF Late
<1>8. Unsent(c)' \subseteq Unsent(c)
  <2> SUFFICES ASSUME NEW f \in Unsent(c)' PROVE f \in Unsent(c)
    BY Zenon
  <2>1. /\ f \in Event /\ f[1] = c /\ outbox[f].status = "pending"
        /\ \A j \in Coordinator : \A y \in claims'[j] :
              y.event = f /\ IsCurrent(y) => y.phase # "sent"
    BY <1>5, Zenon DEF Unsent
  <2>2. \A j \in Coordinator : \A y \in claims[j] :
              y.event = f /\ IsCurrent(y) => y.phase # "sent"
    BY <1>4, <2>1, Zenon
  <2> QED
    BY <2>1, <2>2, Zenon DEF Unsent
<1>9. ASSUME phase = "sent", IsCurrent(r), r.event \in Unsent(c)' PROVE FALSE
  <2>1. \A y \in claims'[k] : y.event = r.event /\ IsCurrent(y) => y.phase # "sent"
    BY <1>5, <1>9, Zenon DEF Unsent
  <2>2. q \in claims'[k] /\ IsCurrent(q)
    BY <1>2, <1>9, Zenon DEF IsCurrent
  <2> QED
    BY <1>2, <1>9, <2>1, <2>2, Zenon
<1> QED
  BY <1>6, <1>7, <1>8, <1>9, Zenon

(* A claim that has not sent yet is counted.                               *)
LEMMA ClaimedIsCounted ==
    ASSUME BaseInv, NEW k \in Coordinator, NEW r \in claims[k], r.phase = "claimed"
    PROVE  /\ r.event \in Event /\ r.event[1] \in Chunk
           /\ IsCurrent(r) => r.event \in Unsent(r.event[1])
           /\ ~IsCurrent(r) => <<k, r>> \in Late(r.event[1])
<1>1. TypeOK /\ DistinctInv
  BY Zenon DEF BaseInv, ClaimInv
<1>2. r \in ClaimRow /\ r.event \in Event
  BY <1>1 DEF TypeOK, ClaimRow
<1>3. r.event[1] \in Chunk
  BY <1>2, EventChunk, Zenon
<1>4. ASSUME IsCurrent(r) PROVE r.event \in Unsent(r.event[1])
  <2>1. ASSUME NEW j \in Coordinator, NEW y \in claims[j], y.event = r.event, IsCurrent(y)
        PROVE  y.phase # "sent"
    <3>1. y.token = r.token
      BY <1>4, <2>1, Zenon DEF IsCurrent
    <3>2. y = r
      BY <1>1, <2>1, <3>1, Zenon DEF DistinctInv
    <3> QED
      BY <3>2, Zenon
  <2> QED
    BY <1>2, <1>4, <2>1, Zenon DEF Unsent, IsCurrent
<1>5. ASSUME ~IsCurrent(r) PROVE <<k, r>> \in Late(r.event[1])
  BY <1>2, <1>5, Zenon DEF Late
<1> QED
  BY <1>2, <1>3, <1>4, <1>5, Zenon

(* The copy published takes the place of the event or of the late claim;   *)
(* any other number of copies is a fault's.                                *)
LEMMA PublishingCounts ==
    ASSUME BaseInv, TypeOK', NEW c \in Chunk, Count(c), NEW k \in Coordinator, NEW r \in claims[k],
           r.phase = "claimed", NEW phase \in {"sent", "refused"}, claims' = Moved(k, r, phase),
           NEW n \in 0 .. 2, ready' = [ready EXCEPT ![MessageOf(r.event)] = @ + n],
           UNCHANGED <<chunks, outbox, delayed, tasks>>,
           \/ phase = "sent" /\ n = 1 /\ faults' >= faults
           \/ faults' > faults /\ faults' >= faults
    PROVE  Count(c)'
<1>1. TypeOK
  BY Zenon DEF BaseInv, ClaimInv
<1>2. faults \in Nat /\ faults' \in Nat
  BY <1>1, FaultTypes, Zenon
<1>3. /\ Overrun(c)' \subseteq Overrun(c)
      /\ Late(c)' \subseteq Late(c) \ {<<k, r>>}
      /\ Unsent(c)' \subseteq Unsent(c)
      /\ phase = "sent" /\ IsCurrent(r) => r.event \notin Unsent(c)'
  BY PublishingSets, Zenon
<1>4. Adds(Overrun(c), Overrun(c)', 0) /\ Adds(Late(c), Late(c)', 0) /\ Adds(Unsent(c), Unsent(c)', 0)
  BY <1>3, AddsNone, Zenon
<1>5. Adds(Busy(c), Busy(c)', 0) /\ Abandoned(c)' <= Abandoned(c) + 0
  BY WorkersRest, Zenon
<1>6. PICK m \in Message : m = MessageOf(r.event) /\ m.chunk = r.event[1]
  <2>1. r.event[1] \in Chunk
    BY ClaimedIsCounted, Zenon
  <2>2. 0 \in 0 .. MaxRetries
    BY DeliveryAssumption
  <2> QED
    BY <2>1, <2>2 DEF MessageOf, Message
<1>7. ready \in [Message -> Nat] /\ delayed \in [Message -> Nat]
  BY <1>1, Zenon DEF TypeOK
<1>8. /\ ready' \in [Message -> Nat]
      /\ \A x \in Message : x # m => ready'[x] = ready[x]
      /\ ready'[m] = ready[m] + n
  BY <1>6, <1>7, QueueGrows
<1>9. CASE c # r.event[1]
  <2>1. Adds(Queued(c), Queued(c)', 0)
    BY <1>6, <1>8, <1>9, QueueSame, Zenon
  <2>2. Balance(c, 0, 0, 0, 0, 0, 0)
    BY <1>4, <1>5, <2>1 DEF Balance
  <2> QED
    BY <1>2, <2>2, Weighs
<1>10. CASE c = r.event[1]
  <2>1. ready'[m] + delayed'[m] = ready[m] + delayed[m] + n
    <3>1. ready[m] \in Nat /\ delayed[m] \in Nat
      BY <1>7, Zenon
    <3> QED
      BY <1>8, <3>1
  <2>2. Adds(Queued(c), Queued(c)', n)
    BY <1>1, <1>6, <1>7, <1>8, <1>10, <2>1, QueueChanges, Zenon
  <2>3. CASE faults' > faults
    <3>1. Balance(c, 0, 0, 0, n, 0, 0)
      BY <1>4, <1>5, <2>2 DEF Balance
    <3>2. 0 + 0 + 0 + n + 0 + 0 <= CopiesOfFault
      BY FaultMultiplies
    <3> QED
      BY <1>2, <2>3, <3>1, <3>2, Weighs, Zenon
  <2>4. CASE phase = "sent" /\ n = 1 /\ faults' >= faults
    <3>1. CASE IsCurrent(r)
      <4>1. Adds(Unsent(c), Unsent(c)', -1)
        <5>1. r.event \in Unsent(c) /\ Unsent(c)' \subseteq Unsent(c) \ {r.event}
          BY <1>3, <1>10, <2>4, <3>1, ClaimedIsCounted, Zenon
        <5> QED
          BY <5>1, DropsOne
      <4>2. Balance(c, -1, 0, 0, 1, 0, 0)
        BY <1>4, <1>5, <2>2, <2>4, <4>1 DEF Balance
      <4> QED
        BY <1>2, <2>4, <4>2, Weighs
    <3>2. CASE ~IsCurrent(r)
      <4>1. Adds(Late(c), Late(c)', -1)
        <5>1. <<k, r>> \in Late(c)
          BY <1>10, <3>2, ClaimedIsCounted, Zenon
        <5> QED
          BY <1>3, <5>1, DropsOne, Zenon
      <4>2. Balance(c, 0, 0, -1, 1, 0, 0)
        BY <1>4, <1>5, <2>2, <2>4, <4>1 DEF Balance
      <4> QED
        BY <1>2, <2>4, <4>2, Weighs
    <3> QED
      BY <3>1, <3>2, Zenon
  <2> QED
    BY <2>3, <2>4, Zenon
<1> QED
  BY <1>9, <1>10, Zenon

(* Publish and PublishFails.                                               *)
LEMMA PublishCounts ==
    ASSUME BaseInv, NEW c \in Chunk, Count(c), NEW k \in Coordinator, NEW r \in claims[k],
           Publish(k, r) \/ PublishFails(k, r)
    PROVE  Count(c)'
<1>1. TypeOK /\ TypeOK'
  BY PublishKeeps DEF BaseInv, ClaimInv
<1>2. UNCHANGED <<chunks, outbox, delayed, tasks>> /\ r.phase = "claimed"
  BY Zenon DEF Publish, PublishFails, dispatch
<1>3. CASE Publish(k, r)
  <2>1. PICK n \in {1, 2} : /\ ready' = [ready EXCEPT ![MessageOf(r.event)] = @ + n]
                            /\ IF n = 1 THEN NoFault ELSE Fault
    BY <1>3, Zenon DEF Publish
  <2>2. claims' = Moved(k, r, "sent")
    BY <1>3, Zenon DEF Publish
  <2>3. (n = 1 /\ faults' >= faults) \/ (faults' > faults /\ faults' >= faults)
    BY <1>1, <2>1, FaultGrows, Zenon
  <2>4. n \in 0 .. 2 /\ "sent" \in {"sent", "refused"}
    OBVIOUS
  <2> QED
    BY <1>1, <1>2, <2>1, <2>2, <2>3, <2>4, PublishingCounts, Zenon
<1>4. CASE PublishFails(k, r)
  <2>1. PICK n \in {0, 1, 2} : ready' = [ready EXCEPT ![MessageOf(r.event)] = @ + n]
    BY <1>4, Zenon DEF PublishFails
  <2>2. claims' = Moved(k, r, "refused") /\ faults' > faults /\ faults' >= faults
    BY <1>1, <1>4, FaultGrows, Zenon DEF PublishFails
  <2>3. n \in 0 .. 2 /\ "refused" \in {"sent", "refused"}
    OBVIOUS
  <2> QED
    BY <1>1, <1>2, <2>1, <2>2, <2>3, PublishingCounts, Zenon
<1> QED
  BY <1>3, <1>4, Zenon

(* The row of the claim's event is settled, or the claim is stale.         *)
Settles(r) ==
    \/ outbox' = outbox /\ ~IsCurrent(r)
    \/ /\ IsCurrent(r)
       /\ \A f \in Event : f # r.event => outbox'[f] = outbox[f]
       /\ \/ outbox'[r.event].status # "pending"
          \/ r.phase # "sent" /\ ~outbox'[r.event].available

(* mark_outbox_event_published.                                            *)
LEMMA MarkSettles ==
    ASSUME TypeOK, NEW k \in Coordinator, NEW r \in claims[k], MarkPublished(k, r)
    PROVE  Settles(r)
<1> DEFINE row == [outbox[r.event] EXCEPT !.status = "published"]
<1>1. r.event \in Event /\ outbox \in [Event -> EventRow]
  BY DEF TypeOK, ClaimRow
<1>2. CASE ~IsCurrent(r)
  BY <1>2, Zenon DEF MarkPublished, Settles
<1>3. CASE IsCurrent(r)
  <2>1. outbox' = [outbox EXCEPT ![r.event] = row]
    BY <1>1, <1>3 DEF MarkPublished
  <2>2. row.status = "published"
    BY <1>1, Zenon DEF EventRow
  <2> HIDE DEF row
  <2>3. outbox'[r.event] = row /\ \A f \in Event : f # r.event => outbox'[f] = outbox[f]
    BY <1>1, <2>1, Zenon
  <2> QED
    BY <1>3, <2>2, <2>3, Zenon DEF Settles
<1> QED
  BY <1>2, <1>3, Zenon

(* reschedule_outbox_event: the event waits for its next attempt.          *)
LEMMA RescheduleSettles ==
    ASSUME TypeOK, NEW k \in Coordinator, NEW r \in claims[k], Reschedule(k, r)
    PROVE  Settles(r)
<1> DEFINE row == [outbox[r.event] EXCEPT !.token = 0, !.available = FALSE]
<1>1. r.event \in Event /\ outbox \in [Event -> EventRow]
  BY DEF TypeOK, ClaimRow
<1>2. CASE ~IsCurrent(r)
  BY <1>2, Zenon DEF Reschedule, Settles
<1>3. CASE IsCurrent(r)
  <2>1. outbox' = [outbox EXCEPT ![r.event] = row] /\ r.phase = "refused"
    BY <1>3 DEF Reschedule
  <2>2. row.available = FALSE
    BY <1>1, Zenon DEF EventRow
  <2> HIDE DEF row
  <2>3. outbox'[r.event] = row /\ \A f \in Event : f # r.event => outbox'[f] = outbox[f]
    BY <1>1, <2>1, Zenon
  <2>4. ~outbox'[r.event].available /\ r.phase # "sent"
    BY <2>1, <2>2, <2>3, Zenon
  <2> QED
    BY <1>3, <2>3, <2>4, Zenon DEF Settles
<1> QED
  BY <1>2, <1>3

(* Settling a claim re-opens nothing: only the current claim changes its   *)
(* event, and then the event is published, or was never sent.              *)
LEMMA SettlingSets ==
    ASSUME BaseInv, NEW k \in Coordinator, NEW r \in claims[k],
           claims' = [claims EXCEPT ![k] = @ \ {r}], Settles(r), NEW c
    PROVE  /\ Overrun(c)' \subseteq Overrun(c)
           /\ Late(c)' \subseteq Late(c)
           /\ Unsent(c)' \subseteq Unsent(c)
<1>1. TypeOK /\ DistinctInv
  BY Zenon DEF BaseInv, ClaimInv
<1>2. \A j \in Coordinator : \A y \in claims'[j] : y \in claims[j] /\ ~(j = k /\ y = r)
  BY <1>1, Zenon DEF TypeOK
<1>3. \A j \in Coordinator : \A y \in claims[j] : (j = k /\ y = r) \/ y \in claims'[j]
  BY <1>1, Zenon DEF TypeOK
<1>4. \A j \in Coordinator : \A y \in claims[j] : y.event \in Event
  BY <1>1 DEF TypeOK, ClaimRow
<1>5. ASSUME NEW j \in Coordinator, NEW y \in claims[j], y.event = r.event,
             IsCurrent(y), IsCurrent(r)
      PROVE  j = k /\ y = r
  <2>1. y.token = r.token
    BY <1>5, Zenon DEF IsCurrent
  <2> QED
    BY <1>1, <1>5, <2>1, Zenon DEF DistinctInv
<1>6. \A j \in Coordinator : \A y \in claims'[j] : IsCurrent(y) => IsCurrent(y)'
  <2> SUFFICES ASSUME NEW j \in Coordinator, NEW y \in claims'[j], IsCurrent(y) PROVE IsCurrent(y)'
    BY Zenon
  <2>1. CASE outbox' = outbox
    BY <2>1, Zenon DEF IsCurrent
  <2>2. CASE IsCurrent(r) /\ \A f \in Event : f # r.event => outbox'[f] = outbox[f]
    <3>1. y.event # r.event
      BY <1>2, <1>5, <2>2, Zenon
    <3>2. outbox'[y.event] = outbox[y.event]
      BY <1>2, <1>4, <2>2, <3>1, Zenon
    <3> QED
      BY <3>2, Zenon DEF IsCurrent
  <2> QED
    BY <2>1, <2>2, Zenon DEF Settles
<1>7. Late(c)' \subseteq Late(c)
  <2> SUFFICES ASSUME NEW x \in Late(c)' PROVE x \in Late(c)
    BY Zenon
  <2>1. /\ x \in Coordinator \X ClaimRow /\ x[1] \in Coordinator /\ x[2] \in claims'[x[1]]
        /\ x[2].event[1] = c /\ x[2].phase = "claimed" /\ ~IsCurrent(x[2])'
    BY Zenon DEF Late
  <2> QED
    BY <1>2, <1>6, <2>1, Zenon DEF Late
<1>8. Overrun(c)' \subseteq Overrun(c)
  <2> SUFFICES ASSUME NEW f \in Overrun(c)' PROVE f \in Overrun(c)
    OBVIOUS
  <2>1. /\ f \in Event /\ f[1] = c /\ outbox'[f].status = "pending" /\ outbox'[f].available
        /\ BeingPublished(f)'
    BY Zenon DEF Overrun
  <2>2. outbox'[f] = outbox[f]
    BY <2>1, Zenon DEF Settles
  <2>3. BeingPublished(f)
    BY <1>2, <2>1, <2>2, Zenon DEF BeingPublished
  <2> QED
    BY <2>1, <2>2, <2>3, Zenon DEF Overrun
<1>9. Unsent(c)' \subseteq Unsent(c)
  <2> SUFFICES ASSUME NEW f \in Unsent(c)' PROVE f \in Unsent(c)
    BY Zenon
  <2>1. /\ f \in Event /\ f[1] = c /\ outbox'[f].status = "pending"
        /\ \A j \in Coordinator : \A y \in claims'[j] :
              y.event = f /\ IsCurrent(y)' => y.phase # "sent"
    BY Zenon DEF Unsent
  <2>2. outbox[f].status = "pending"
    BY <2>1, Zenon DEF Settles, IsCurrent
  <2>3. ASSUME NEW j \in Coordinator, NEW y \in claims[j], y.event = f, IsCurrent(y)
        PROVE  y.phase # "sent"
    <3>1. CASE j = k /\ y = r
      BY <2>1, <2>3, <3>1, Zenon DEF Settles
    <3>2. CASE y \in claims'[j]
      BY <1>6, <2>1, <2>3, <3>2, Zenon
    <3> QED
      BY <1>3, <3>1, <3>2, Zenon
  <2> QED
    BY <2>1, <2>2, <2>3, Zenon DEF Unsent
<1> QED
  BY <1>7, <1>8, <1>9, Zenon

(* A settled claim adds no copy.                                           *)
LEMMA SettlingCounts ==
    ASSUME BaseInv, NEW c \in Chunk, Count(c), NEW k \in Coordinator, NEW r \in claims[k],
           MarkPublished(k, r) \/ Reschedule(k, r)
    PROVE  Count(c)'
<1>1. TypeOK /\ TypeOK'
  BY MarkPublishedKeeps, RescheduleKeeps, Zenon DEF BaseInv, ClaimInv
<1>2. faults \in Nat /\ faults' \in Nat /\ faults' >= faults
  BY <1>1, FaultTypes, FaultGrows, Zenon DEF MarkPublished, Reschedule
<1>3. Settles(r)
  BY <1>1, MarkSettles, RescheduleSettles, Zenon
<1>4. claims' = [claims EXCEPT ![k] = @ \ {r}] /\ UNCHANGED <<chunks, ready, delayed, tasks>>
  BY DEF MarkPublished, Reschedule, broker
<1>5. /\ Overrun(c)' \subseteq Overrun(c)
      /\ Late(c)' \subseteq Late(c)
      /\ Unsent(c)' \subseteq Unsent(c)
  BY <1>3, <1>4, SettlingSets, Zenon
<1>6. Balance(c, 0, 0, 0, 0, 0, 0)
  BY <1>4, <1>5, AddsNone, QueueSame, WorkersRest DEF Balance
<1> QED
  BY <1>2, <1>6, Weighs

(* An event overruns its window by a fault.                                *)
LEMMA BecomesAvailableCounts ==
    ASSUME BaseInv, NEW c \in Chunk, Count(c), NEW e \in Event, BecomesAvailable(e)
    PROVE  Count(c)'
<1> DEFINE row == [outbox[e] EXCEPT !.available = TRUE]
<1>1. TypeOK /\ TypeOK'
  BY BecomesAvailableKeeps, Zenon DEF BaseInv, ClaimInv
<1>2. faults \in Nat /\ faults' \in Nat
  BY <1>1, FaultTypes, Zenon
<1>3. UNCHANGED <<claims, chunks, ready, delayed, tasks>>
  BY Zenon DEF BecomesAvailable, broker
<1>4. outbox' = [outbox EXCEPT ![e] = row] /\ outbox \in [Event -> EventRow]
  BY <1>1 DEF BecomesAvailable, TypeOK
<1>5. row.status = outbox[e].status /\ row.token = outbox[e].token
  BY <1>4, Zenon DEF EventRow
<1> HIDE DEF row
<1>6. /\ \A f \in Event : f # e => outbox'[f] = outbox[f]
      /\ \A f \in Event : /\ outbox'[f].status = outbox[f].status
                          /\ outbox'[f].token = outbox[f].token
  BY <1>4, <1>5, Zenon
<1>7. \A j \in Coordinator : \A y \in claims[j] : y.event \in Event
  BY <1>1 DEF TypeOK, ClaimRow
<1>8. \A j \in Coordinator : \A y \in claims[j] : IsCurrent(y)' <=> IsCurrent(y)
  BY <1>6, <1>7, Zenon DEF IsCurrent
<1>9. Late(c)' \subseteq Late(c) /\ Unsent(c)' \subseteq Unsent(c)
  BY <1>3, <1>6, <1>8, Zenon DEF Late, Unsent
<1>10. \A f \in Event : BeingPublished(f)' => BeingPublished(f)
  BY <1>3, <1>6, Zenon DEF BeingPublished
<1>11. ASSUME NEW f \in Overrun(c)', f # e \/ ~BeingPublished(e) PROVE f \in Overrun(c)
  <2>1. f \in Event /\ f # e
    BY <1>10, <1>11, Zenon DEF Overrun
  <2> QED
    BY <1>6, <1>10, <1>11, <2>1, Zenon DEF Overrun
<1>12. Adds(Queued(c), Queued(c)', 0) /\ Adds(Busy(c), Busy(c)', 0)
       /\ Abandoned(c)' <= Abandoned(c) + 0
  BY <1>3, QueueSame, WorkersRest, Zenon
<1>13. CASE BeingPublished(e)
  <2>1. Overrun(c)' \subseteq Overrun(c) \cup {e}
    BY <1>11, Zenon
  <2>2. Balance(c, 0, 1, 0, 0, 0, 0)
    BY <1>9, <1>12, <2>1, AddsNone, AddsOne DEF Balance
  <2>3. 0 + 1 + 0 + 0 + 0 + 0 <= CopiesOfFault /\ faults' > faults
    BY <1>1, <1>13, FaultMultiplies, FaultGrows DEF BecomesAvailable
  <2> QED
    BY <1>2, <2>2, <2>3, Weighs, Zenon
<1>14. CASE ~BeingPublished(e)
  <2>1. Overrun(c)' \subseteq Overrun(c)
    BY <1>11, <1>14, Zenon
  <2>2. Balance(c, 0, 0, 0, 0, 0, 0)
    BY <1>9, <1>12, <2>1, AddsNone DEF Balance
  <2>3. faults' >= faults
    BY <1>1, <1>14, FaultGrows, Zenon DEF BecomesAvailable
  <2> QED
    BY <1>2, <2>2, <2>3, Weighs
<1> QED
  BY <1>13, <1>14, Zenon

(* A chunk has one event for its dispatch and one for each recovery.       *)
LEMMA EventsOfChunk ==
    ASSUME NEW c \in Chunk, NEW T, \A e \in T : e \in Event /\ e[1] = c
    PROVE  IsFiniteSet(T) /\ Cardinality(T) <= MaxRecoveries + 1
<1> DEFINE f == [e \in T |-> e[2]]
           R == 0 .. MaxRecoveries
<1>1. f \in [T -> R]
  <2>1. \A e \in T : e[2] \in R
    BY Zenon DEF Event
  <2> QED
    BY <2>1, Zenon
<1>2. ASSUME NEW d \in T, NEW e \in T, f[d] = f[e] PROVE d = e
  <2>1. d = <<d[1], d[2]>> /\ e = <<e[1], e[2]>>
    BY DEF Event
  <2>2. d[1] = e[1] /\ d[2] = e[2]
    BY <1>2
  <2> QED
    BY <2>1, <2>2, Zenon
<1>3. f \in Injection(T, R)
  <2> HIDE DEF f, R
  <2>1. DOMAIN f = T
    BY <1>1, Zenon
  <2> QED
    BY <1>1, <1>2, <2>1, Zenon DEF Injection, IsInjective
<1>4. IsFiniteSet(R) /\ Cardinality(R) = MaxRecoveries + 1
  <2>1. 0 \in Int /\ MaxRecoveries \in Int /\ ~(0 > MaxRecoveries)
    BY DeliveryAssumption
  <2>2. IsFiniteSet(R) /\ Cardinality(R) = MaxRecoveries - 0 + 1
    BY <2>1, FS_Interval, Zenon
  <2> QED
    BY <2>2, DeliveryAssumption
<1> HIDE DEF f, R
<1>5. IsFiniteSet(T) /\ Cardinality(T) <= Cardinality(R)
  BY <1>3, <1>4, FS_Injection, Zenon
<1> QED
  BY <1>4, <1>5, Zenon

(* A coordinator that is lost un-sends every event it had sent and not     *)
(* marked.                                                                 *)
LEMMA CoordinatorFailsCounts ==
    ASSUME BaseInv, NEW c \in Chunk, Count(c), NEW k \in Coordinator, CoordinatorFails(k)
    PROVE  Count(c)'
<1>1. TypeOK /\ TypeOK'
  BY CoordinatorFailsKeeps DEF BaseInv, ClaimInv
<1>2. faults \in Nat /\ faults' \in Nat /\ faults' > faults
  BY <1>1, FaultTypes, FaultGrows, Zenon DEF CoordinatorFails
<1>3. UNCHANGED <<outbox, chunks, ready, delayed, tasks>>
  BY Zenon DEF CoordinatorFails, broker
<1>4. \A j \in Coordinator : claims'[j] \subseteq claims[j]
  BY <1>1, Zenon DEF CoordinatorFails, TypeOK
<1>5. Overrun(c)' \subseteq Overrun(c)
  BY <1>3, <1>4, Zenon DEF Overrun, BeingPublished
<1>6. Late(c)' \subseteq Late(c)
  BY <1>3, <1>4, Zenon DEF Late, IsCurrent
<1>7. IsFiniteSet(Unsent(c)') /\ Cardinality(Unsent(c)') <= MaxRecoveries + 1
  <2>1. \A e \in Unsent(c)' : e \in Event /\ e[1] = c
    BY Zenon DEF Unsent
  <2> QED
    BY <2>1, EventsOfChunk, Zenon
<1>8. Adds(Unsent(c), Unsent(c)', MaxRecoveries + 1)
  <2>1. ASSUME IsFiniteSet(Unsent(c))
        PROVE  Cardinality(Unsent(c)') <= Cardinality(Unsent(c)) + (MaxRecoveries + 1)
    <3>1. Cardinality(Unsent(c)) \in Nat /\ Cardinality(Unsent(c)') \in Nat
      BY <1>7, <2>1, FS_CardinalityType, Zenon
    <3> QED
      BY <1>7, <3>1, DeliveryAssumption
  <2> QED
    BY <1>7, <2>1, Zenon DEF Adds
<1>9. Balance(c, MaxRecoveries + 1, 0, 0, 0, 0, 0)
  BY <1>3, <1>5, <1>6, <1>8, AddsNone, QueueSame, WorkersRest,
     DeliveryAssumption DEF Balance
<1>10. (MaxRecoveries + 1) + 0 + 0 + 0 + 0 + 0 <= CopiesOfFault
  BY FaultMultiplies, DeliveryAssumption
<1> QED
  BY <1>2, <1>9, <1>10, Weighs, Zenon

(* As many as n more elements add n.                                       *)
LEMMA AddsSome ==
    ASSUME NEW S, NEW T, NEW A, IsFiniteSet(A), NEW n \in Int, Cardinality(A) <= n,
           T \subseteq S \cup A
    PROVE  Adds(S, T, n)
<1> SUFFICES ASSUME IsFiniteSet(S)
             PROVE  IsFiniteSet(T) /\ Cardinality(T) <= Cardinality(S) + n
  BY Zenon DEF Adds
<1>1. IsFiniteSet(S \cup A)
      /\ Cardinality(S \cup A) = Cardinality(S) + Cardinality(A) - Cardinality(S \cap A)
  BY FS_Union, Zenon
<1>2. IsFiniteSet(S \cap A)
  BY FS_Subset, Zenon
<1>3. IsFiniteSet(T) /\ Cardinality(T) <= Cardinality(S \cup A)
  BY <1>1, FS_Subset, Zenon
<1>4. /\ Cardinality(S) \in Nat /\ Cardinality(T) \in Nat /\ Cardinality(A) \in Nat
      /\ Cardinality(S \cup A) \in Nat /\ Cardinality(S \cap A) \in Nat
  BY <1>1, <1>2, <1>3, FS_CardinalityType, Zenon
<1> QED
  BY <1>1, <1>3, <1>4

(* A set loses the elements of two disjoint subsets.                       *)
LEMMA DropsSome ==
    ASSUME NEW S, NEW T, NEW A, NEW B, IsFiniteSet(S), A \subseteq S, B \subseteq S,
           A \cap B = {}, T \subseteq S \ (A \cup B)
    PROVE  /\ IsFiniteSet(A) /\ IsFiniteSet(B)
           /\ Cardinality(A) \in Nat /\ Cardinality(B) \in Nat
           /\ Adds(S, T, -(Cardinality(A) + Cardinality(B)))
<1>1. IsFiniteSet(A) /\ IsFiniteSet(B)
  BY FS_Subset, Zenon
<1>2. /\ IsFiniteSet(A \cup B)
      /\ Cardinality(A \cup B) = Cardinality(A) + Cardinality(B) - Cardinality(A \cap B)
  BY <1>1, FS_Union, Zenon
<1>3. Cardinality(A \cap B) = 0
  BY FS_EmptySet
<1>4. /\ IsFiniteSet(S \ (A \cup B))
      /\ Cardinality(S \ (A \cup B)) = Cardinality(S) - Cardinality(S \cap (A \cup B))
  BY FS_Difference, Zenon
<1>5. S \cap (A \cup B) = A \cup B
  BY Zenon
<1>6. IsFiniteSet(T) /\ Cardinality(T) <= Cardinality(S \ (A \cup B))
  BY <1>4, FS_Subset, Zenon
<1>7. /\ Cardinality(S) \in Nat /\ Cardinality(T) \in Nat /\ Cardinality(A) \in Nat
      /\ Cardinality(B) \in Nat /\ Cardinality(A \cup B) \in Nat
  BY <1>1, <1>2, <1>6, FS_CardinalityType, Zenon
<1>8. Cardinality(S \ (A \cup B)) = Cardinality(S) - Cardinality(A \cup B)
  BY <1>4, <1>5, Zenon
<1>9. Cardinality(A \cup B) = Cardinality(A) + Cardinality(B)
  BY <1>2, <1>3, <1>7
<1>10. Cardinality(T) <= Cardinality(S) + (-(Cardinality(A) + Cardinality(B)))
  BY <1>6, <1>7, <1>8, <1>9, Zenon
<1> QED
  BY <1>1, <1>6, <1>7, <1>10, Zenon DEF Adds

(* What a new claim takes over, by the phase of the claim it makes stale.  *)
Overtaken(c, E, phase) ==
    {e \in Overrun(c) : e \in E /\ \E j \in Coordinator : \E y \in claims[j] :
                            y.event = e /\ y.token = outbox[e].token /\ y.phase = phase}
Demoted(c, E) ==
    {x \in Coordinator \X ClaimRow :
        /\ x[2] \in claims[x[1]] /\ x[2].event[1] = c /\ x[2].event \in E
        /\ x[2].phase = "claimed" /\ IsCurrent(x[2])}

(* An event has one current claim, so it is overtaken in one phase.        *)
LEMMA PhasesDiffer ==
    ASSUME BaseInv, NEW c, NEW E
    PROVE  Overtaken(c, E, "sent") \cap Overtaken(c, E, "claimed") = {}
<1> SUFFICES ASSUME NEW e \in Overtaken(c, E, "sent"), e \in Overtaken(c, E, "claimed")
             PROVE  FALSE
  BY Zenon
<1>1. DistinctInv
  BY Zenon DEF BaseInv, ClaimInv
<1>2. PICK j \in Coordinator : \E y \in claims[j] :
         y.event = e /\ y.token = outbox[e].token /\ y.phase = "sent"
  BY Zenon DEF Overtaken
<1>3. PICK y \in claims[j] : y.event = e /\ y.token = outbox[e].token /\ y.phase = "sent"
  BY <1>2, Zenon
<1>4. PICK i \in Coordinator : \E z \in claims[i] :
         z.event = e /\ z.token = outbox[e].token /\ z.phase = "claimed"
  BY Zenon DEF Overtaken
<1>5. PICK z \in claims[i] : z.event = e /\ z.token = outbox[e].token /\ z.phase = "claimed"
  BY <1>4, Zenon
<1>6. y = z
  BY <1>1, <1>3, <1>5, Zenon DEF DistinctInv
<1> QED
  BY <1>3, <1>5, <1>6

(* Every claim that a new one makes late belonged to an event that had     *)
(* overrun, and no two to the same.                                        *)
LEMMA DemotedCount ==
    ASSUME BaseInv, NEW c, NEW E \in SUBSET Publishable,
           IsFiniteSet(Overtaken(c, E, "claimed"))
    PROVE  /\ IsFiniteSet(Demoted(c, E))
           /\ Cardinality(Demoted(c, E)) <= Cardinality(Overtaken(c, E, "claimed"))
<1> DEFINE D == Demoted(c, E)
           O == Overtaken(c, E, "claimed")
           f == [x \in D |-> x[2].event]
<1>1. DistinctInv
  BY Zenon DEF BaseInv, ClaimInv
<1>2. \A x \in D : /\ x = <<x[1], x[2]>> /\ x[1] \in Coordinator /\ x[2] \in claims[x[1]]
                   /\ x[2].event[1] = c /\ x[2].event \in E /\ x[2].phase = "claimed"
                   /\ x[2].token = outbox[x[2].event].token
  BY DEF Demoted, IsCurrent
<1>3. \A x \in D : x[2].event \in O
  BY <1>2, Zenon DEF Overtaken, Overrun, BeingPublished, Publishable
<1> HIDE DEF D, O
<1>4. f \in [D -> O] /\ DOMAIN f = D /\ \A x \in D : f[x] = x[2].event
  BY <1>3, Zenon
<1>5. ASSUME NEW x \in D, NEW y \in D, f[x] = f[y] PROVE x = y
  <2>1. x[2].event = y[2].event
    BY <1>4, <1>5, Zenon
  <2>2. x[2].token = y[2].token
    BY <1>2, <2>1, Zenon
  <2>3. x[1] = y[1] /\ x[2] = y[2]
    BY <1>1, <1>2, <2>1, <2>2 DEF DistinctInv
  <2> QED
    BY <1>2, <2>3, Zenon
<1> HIDE DEF f
<1>6. f \in Injection(D, O)
  BY <1>4, <1>5, Zenon DEF Injection, IsInjective
<1>7. IsFiniteSet(O)
  BY Zenon DEF O
<1>8. IsFiniteSet(D) /\ Cardinality(D) <= Cardinality(O)
  BY <1>6, <1>7, FS_Injection, Zenon
<1> QED
  BY <1>8, Zenon DEF D, O

(* What claim_publishable_outbox_events leaves of the outbox and of the    *)
(* claims.                                                                 *)
LEMMA ClaimEventsRows ==
    ASSUME TypeOK, NEW k \in Coordinator, NEW E \in SUBSET Publishable, ClaimEvents(k, E)
    PROVE  /\ claims[k] = {} /\ E \subseteq Event
           /\ \A e \in Event : outbox'[e].status = outbox[e].status
           /\ \A e \in E : outbox'[e].token = outbox[e].tries + 1 /\ ~outbox'[e].available
           /\ \A e \in Event \ E : outbox'[e] = outbox[e]
           /\ \A j \in Coordinator : j # k => claims'[j] = claims[j]
           /\ \A y \in claims'[k] : /\ y.event \in E /\ y.phase = "claimed"
                                    /\ y.token = outbox[y.event].tries + 1
<1> DEFINE row(e) == [outbox[e] EXCEPT !.token = outbox[e].tries + 1,
                                       !.tries = outbox[e].tries + 1, !.available = FALSE]
           new(e) == [event |-> e, token |-> outbox[e].tries + 1, phase |-> "claimed"]
           fresh == {new(e) : e \in E}
<1>1. outbox \in [Event -> EventRow] /\ claims \in [Coordinator -> SUBSET ClaimRow]
  BY Zenon DEF TypeOK
<1>2. E \subseteq Event
  BY DEF Publishable
<1>3. \A e \in Event : /\ row(e).status = outbox[e].status
                       /\ row(e).token = outbox[e].tries + 1
                       /\ row(e).available = FALSE
  <2> SUFFICES ASSUME NEW e \in Event
               PROVE  /\ row(e).status = outbox[e].status
                      /\ row(e).token = outbox[e].tries + 1
                      /\ row(e).available = FALSE
    BY Zenon
  <2>1. outbox[e] \in EventRow
    BY <1>1
  <2> QED
    BY <2>1, Zenon DEF EventRow
<1>4. outbox' = [e \in Event |-> IF e \in E THEN row(e) ELSE outbox[e]]
  BY Zenon DEF ClaimEvents
<1>5. claims' = [claims EXCEPT ![k] = fresh] /\ claims[k] = {}
  BY Zenon DEF ClaimEvents
<1>6. \A y \in fresh : /\ y.event \in E /\ y.phase = "claimed"
                       /\ y.token = outbox[y.event].tries + 1
  BY <1>2
<1> HIDE DEF row, new, fresh
<1>7. /\ \A e \in E : outbox'[e] = row(e)
      /\ \A e \in Event \ E : outbox'[e] = outbox[e]
  BY <1>2, <1>4, Zenon
<1>8. claims'[k] = fresh /\ \A j \in Coordinator : j # k => claims'[j] = claims[j]
  BY <1>1, <1>5, Zenon
<1>9. \A e \in E : outbox'[e].token = outbox[e].tries + 1 /\ ~outbox'[e].available
  BY <1>2, <1>3, <1>7, Zenon
<1>10. \A e \in Event : outbox'[e].status = outbox[e].status
  BY <1>3, <1>7, Zenon
<1> QED
  BY <1>2, <1>5, <1>6, <1>7, <1>8, <1>9, <1>10, Zenon

(* A new claim turns an overrun event into an unsent one, when the earlier *)
(* claim had sent it, or into a late claim.                                *)
LEMMA ClaimEventsSets ==
    ASSUME BaseInv, NEW c, NEW k \in Coordinator, NEW E \in SUBSET Publishable,
           ClaimEvents(k, E)
    PROVE  /\ Unsent(c)' \subseteq Unsent(c) \cup Overtaken(c, E, "sent")
           /\ Late(c)' \subseteq Late(c) \cup Demoted(c, E)
           /\ Overrun(c)' \subseteq Overrun(c) \ (Overtaken(c, E, "sent")
                                                    \cup Overtaken(c, E, "claimed"))
<1>1. TypeOK /\ TokenInv
  BY Zenon DEF BaseInv, ClaimInv
<1>2. /\ claims[k] = {} /\ E \subseteq Event
      /\ \A e \in Event : outbox'[e].status = outbox[e].status
      /\ \A e \in E : outbox'[e].token = outbox[e].tries + 1 /\ ~outbox'[e].available
      /\ \A e \in Event \ E : outbox'[e] = outbox[e]
      /\ \A j \in Coordinator : j # k => claims'[j] = claims[j]
      /\ \A y \in claims'[k] : /\ y.event \in E /\ y.phase = "claimed"
                               /\ y.token = outbox[y.event].tries + 1
  BY <1>1, ClaimEventsRows, Zenon
<1>3. \A j \in Coordinator : \A y \in claims[j] : y \in claims'[j] /\ y.event \in Event
  BY <1>1, <1>2 DEF TypeOK, ClaimRow
<1>4. Unsent(c)' \subseteq Unsent(c) \cup Overtaken(c, E, "sent")
  <2> SUFFICES ASSUME NEW e \in Unsent(c)', e \notin Unsent(c)
               PROVE  e \in Overtaken(c, E, "sent")
    BY Zenon
  <2>1. /\ e \in Event /\ e[1] = c /\ outbox[e].status = "pending"
        /\ \A j \in Coordinator : \A y \in claims'[j] :
              y.event = e /\ IsCurrent(y)' => y.phase # "sent"
    BY <1>2, Zenon DEF Unsent
  <2>2. PICK j \in Coordinator : \E y \in claims[j] :
            y.event = e /\ IsCurrent(y) /\ y.phase = "sent"
    BY <2>1, Zenon DEF Unsent
  <2>3. PICK y \in claims[j] : y.event = e /\ IsCurrent(y) /\ y.phase = "sent"
    BY <2>2, Zenon
  <2>4. e \in E
    <3> SUFFICES ASSUME e \notin E PROVE FALSE
      BY Zenon
    <3>1. outbox'[e] = outbox[e]
      BY <1>2, <2>1, Zenon
    <3>2. IsCurrent(y)'
      BY <2>3, <3>1, Zenon DEF IsCurrent
    <3> QED
      BY <1>3, <2>1, <2>3, <3>2, Zenon
  <2>5. y.token = outbox[e].token
    BY <2>3, Zenon DEF IsCurrent
  <2>6. outbox[e].available
    BY <2>4, Zenon DEF Publishable
  <2>7. e \in Overrun(c)
    BY <2>1, <2>3, <2>5, <2>6, Zenon DEF Overrun, BeingPublished
  <2> QED
    BY <2>3, <2>4, <2>5, <2>7, Zenon DEF Overtaken
<1>5. Late(c)' \subseteq Late(c) \cup Demoted(c, E)
  <2> SUFFICES ASSUME NEW x \in Late(c)', x \notin Late(c) PROVE x \in Demoted(c, E)
    BY Zenon
  <2>1. /\ x \in Coordinator \X ClaimRow /\ x[1] \in Coordinator /\ x[2] \in claims'[x[1]]
        /\ x[2].event[1] = c /\ x[2].phase = "claimed" /\ ~IsCurrent(x[2])'
    BY Zenon DEF Late
  <2>2. x[1] # k
    <3> SUFFICES ASSUME x[1] = k PROVE FALSE
      BY Zenon
    <3>1. x[2].event \in E /\ x[2].token = outbox[x[2].event].tries + 1
      BY <1>2, <2>1, Zenon
    <3>2. outbox'[x[2].event].token = x[2].token /\ outbox'[x[2].event].status = "pending"
      BY <1>2, <3>1, Zenon DEF Publishable
    <3> QED
      BY <2>1, <3>2, Zenon DEF IsCurrent
  <2>3. x[2] \in claims[x[1]] /\ x[2].event \in Event
    BY <1>2, <1>3, <2>1, <2>2, Zenon
  <2>4. IsCurrent(x[2])
    BY <2>1, <2>3, Zenon DEF Late
  <2>5. x[2].event \in E
    BY <1>2, <2>1, <2>3, <2>4, Zenon DEF IsCurrent
  <2> QED
    BY <2>1, <2>3, <2>4, <2>5, Zenon DEF Demoted
<1>6. ASSUME NEW e \in Overrun(c)' PROVE e \in Overrun(c) /\ e \notin E
  <2>1. /\ e \in Event /\ e[1] = c /\ outbox'[e].status = "pending" /\ outbox'[e].available
        /\ BeingPublished(e)'
    BY Zenon DEF Overrun
  <2>2. e \notin E /\ outbox'[e] = outbox[e]
    BY <1>2, <2>1, Zenon
  <2>3. PICK j \in Coordinator : \E y \in claims'[j] : y.event = e /\ y.token = outbox'[e].token
    BY <2>1, Zenon DEF BeingPublished
  <2>4. PICK y \in claims'[j] : y.event = e /\ y.token = outbox'[e].token
    BY <2>3, Zenon
  <2>5. y \in claims[j]
    BY <1>2, <2>2, <2>4, Zenon
  <2>6. BeingPublished(e)
    BY <2>2, <2>4, <2>5, Zenon DEF BeingPublished
  <2> QED
    BY <2>1, <2>2, <2>6, Zenon DEF Overrun
<1>7. Overrun(c)' \subseteq Overrun(c) \ (Overtaken(c, E, "sent")
                                              \cup Overtaken(c, E, "claimed"))
  BY <1>6, Zenon DEF Overtaken
<1> QED
  BY <1>4, <1>5, <1>7, Zenon

(* A claim adds no copy: what it may publish again was counted when the    *)
(* event overran its window.                                               *)
LEMMA ClaimEventsCounts ==
    ASSUME BaseInv, NEW c \in Chunk, Count(c), NEW k \in Coordinator,
           NEW E \in SUBSET Publishable, ClaimEvents(k, E)
    PROVE  Count(c)'
<1> DEFINE A == Overtaken(c, E, "sent")
           B == Overtaken(c, E, "claimed")
<1>1. TypeOK /\ TypeOK'
  BY ClaimEventsKeeps DEF BaseInv, ClaimInv
<1>2. faults \in Nat /\ faults' \in Nat /\ faults' >= faults
  BY <1>1, FaultTypes, FaultGrows, Zenon DEF ClaimEvents
<1>3. UNCHANGED <<chunks, ready, delayed, tasks>>
  BY Zenon DEF ClaimEvents, broker
<1>4. /\ Unsent(c)' \subseteq Unsent(c) \cup A
      /\ Late(c)' \subseteq Late(c) \cup Demoted(c, E)
      /\ Overrun(c)' \subseteq Overrun(c) \ (A \cup B)
  BY ClaimEventsSets, Zenon
<1>5. A \cap B = {}
  BY PhasesDiffer, Zenon
<1>6. A \subseteq Overrun(c) /\ B \subseteq Overrun(c)
  BY Zenon DEF Overtaken
<1>7. IsFiniteSet(Overrun(c))
  BY Zenon DEF Count
<1>8. IsFiniteSet(B) => /\ IsFiniteSet(Demoted(c, E))
                        /\ Cardinality(Demoted(c, E)) <= Cardinality(B)
  BY DemotedCount
<1> HIDE DEF A, B
<1>9. /\ IsFiniteSet(A) /\ IsFiniteSet(B)
      /\ Cardinality(A) \in Nat /\ Cardinality(B) \in Nat
      /\ Adds(Overrun(c), Overrun(c)', -(Cardinality(A) + Cardinality(B)))
  BY <1>4, <1>5, <1>6, <1>7, DropsSome, Zenon
<1>16. Cardinality(A) \in Int /\ Cardinality(A) <= Cardinality(A) /\ Cardinality(B) \in Int
  BY <1>9
<1>10. Adds(Unsent(c), Unsent(c)', Cardinality(A))
  BY <1>4, <1>9, <1>16, AddsSome, Zenon
<1>11. Adds(Late(c), Late(c)', Cardinality(B))
  BY <1>4, <1>8, <1>9, <1>16, AddsSome, Zenon
<1>12. Adds(Queued(c), Queued(c)', 0) /\ Adds(Busy(c), Busy(c)', 0)
       /\ Abandoned(c)' <= Abandoned(c) + 0
  BY <1>3, QueueSame, WorkersRest, Zenon
<1>13. PICK a \in Nat, b \in Nat : a = Cardinality(A) /\ b = Cardinality(B)
  BY <1>9, Zenon
<1>14. Balance(c, a, -(a + b), b, 0, 0, 0)
  BY <1>9, <1>10, <1>11, <1>12, <1>13 DEF Balance
<1>15. a + (-(a + b)) + b + 0 + 0 + 0 <= 0
  OBVIOUS
<1> QED
  BY <1>2, <1>14, <1>15, Weighs, Zenon

(* Nothing is on its way before the first window is dispatched.            *)
LEMMA InitCounts == Init => CountInv
<1> SUFFICES ASSUME Init, NEW c \in Chunk PROVE Count(c)
  BY DEF CountInv
<1>1. /\ \A e \in Event : outbox[e].status = "none"
      /\ \A k \in Coordinator : claims[k] = {}
      /\ \A m \in Message : ready[m] = 0 /\ delayed[m] = 0
      /\ \A t \in Task : tasks[t].pc = "idle"
      /\ chunks[c].status = "pending" /\ faults = 0
  BY Zenon DEF Init, IdleTask
<1>2. Unsent(c) = {} /\ Overrun(c) = {} /\ Late(c) = {} /\ Busy(c) = {}
  BY <1>1, Zenon DEF Unsent, Overrun, Late, Busy
<1>3. Queued(c) = {}
  <2>1. \A m \in Message : 1 .. ready[m] + delayed[m] = {}
    BY <1>1
  <2> QED
    BY <2>1, Zenon DEF Queued
<1>4. Abandoned(c) = 0
  BY <1>1, Zenon DEF Abandoned
<1>5. IsFiniteSet({}) /\ Cardinality({}) = 0
  BY FS_EmptySet, Zenon
<1>6. CopiesOfFault * 0 = 0
  BY FaultMultiplies
<1>7. 0 + 0 + 0 + 0 + 0 + 0 <= 1 + CopiesOfFault * faults
  BY <1>1, <1>6
<1> QED
  BY <1>2, <1>3, <1>4, <1>5, <1>7, Zenon DEF Count

(* Every step and fault of a worker keeps the count of every chunk.        *)
LEMMA WorkerCounts ==
    ASSUME BaseInv, NEW c \in Chunk, Count(c), NEW t \in Task, WorkerStep(t) \/ WorkerFault(t)
    PROVE  Count(c)'
<1>1. CASE Receive(t)
  BY <1>1, ReceiveCounts, Zenon
<1>2. CASE ClaimChunk(t)
  BY <1>2, ClaimChunkCounts, Zenon
<1>3. CASE CompleteChunk(t)
  BY <1>3, CompleteChunkCounts
<1>4. CASE WaitForRetry(t)
  BY <1>4, WaitForRetryCounts
<1>5. CASE FailChunk(t)
  BY <1>5, FailChunkCounts
<1>6. CASE Republish(t)
  BY <1>6, RepublishCounts
<1>7. CASE Quarantine(t)
  BY <1>7, QuarantineCounts
<1>8. CASE Ack(t)
  BY <1>8, AckCounts
<1>9. CASE ClaimFails(t)
  BY <1>9, ClaimFailsCounts
<1>10. CASE WorkDatabaseFails(t)
  BY <1>10, WorkDatabaseFailsCounts
<1>11. CASE WorkerDies(t)
  BY <1>11, WorkerDiesCounts
<1>12. CASE Disconnect(t)
  BY <1>12, DisconnectCounts
<1> QED
  BY Zenon, <1>1, <1>2, <1>3, <1>4, <1>5, <1>6, <1>7, <1>8, <1>9, <1>10,
     <1>11, <1>12
     DEF WorkerStep, WorkerFault

(* Every step and fault of a coordinator keeps the count of every chunk.   *)
LEMMA CoordinatorCounts ==
    ASSUME BaseInv, NEW c \in Chunk, Count(c), NEW k \in Coordinator,
           CoordinatorStep(k) \/ CoordinatorFault(k)
    PROVE  Count(c)'
<1>1. CASE DispatchWindow(k)
  BY <1>1, DispatchWindowCounts
<1>2. CASE CommitCursor(k)
  BY <1>2, CommitCursorCounts
<1>3. CASE CoordinatorFails(k)
  BY <1>3, CoordinatorFailsCounts
<1>4. ASSUME NEW E \in SUBSET Publishable, ClaimEvents(k, E) PROVE Count(c)'
  BY <1>4, ClaimEventsCounts, Zenon
<1>5. ASSUME NEW r \in claims[k], Publish(k, r) \/ PublishFails(k, r) PROVE Count(c)'
  BY <1>5, PublishCounts, Zenon
<1>6. ASSUME NEW r \in claims[k], MarkPublished(k, r) \/ Reschedule(k, r) PROVE Count(c)'
  BY <1>6, SettlingCounts, Zenon
<1> QED
  BY <1>1, <1>2, <1>3, <1>4, <1>5, <1>6, Zenon
     DEF CoordinatorStep, CoordinatorFault, PublisherStep

(* Nothing happens.                                                        *)
LEMMA IdleCounts ==
    ASSUME NEW c \in Chunk, Count(c), UNCHANGED vars
    PROVE  Count(c)'
<1>1. /\ Unsent(c)' = Unsent(c) /\ Overrun(c)' = Overrun(c) /\ Late(c)' = Late(c)
      /\ Queued(c)' = Queued(c) /\ Busy(c)' = Busy(c) /\ Abandoned(c)' = Abandoned(c)
      /\ faults' = faults
  BY Zenon
     DEF vars, Unsent, Overrun, Late, Queued, Busy, Abandoned, Attended,
         IsCurrent,
         BeingPublished
<1> QED
  BY <1>1, Zenon DEF Count

(* Every step keeps the counts.                                            *)
LEMMA NextCounts ==
    ASSUME BaseInv, CountInv, [Next]_vars
    PROVE  CountInv'
<1> SUFFICES ASSUME NEW c \in Chunk PROVE Count(c)'
  BY Zenon DEF CountInv
<1>1. Count(c)
  BY Zenon DEF CountInv
<1>2. ASSUME NEW t \in Task, WorkerStep(t) \/ WorkerFault(t) PROVE Count(c)'
  BY <1>1, <1>2, WorkerCounts, Zenon
<1>3. ASSUME NEW k \in Coordinator, CoordinatorStep(k) \/ CoordinatorFault(k) PROVE Count(c)'
  BY <1>1, <1>3, CoordinatorCounts, Zenon
<1>4. ASSUME NEW d \in Chunk, Recover(d) PROVE Count(c)'
  BY <1>1, <1>4, RecoverCounts, Zenon
<1>5. ASSUME NEW d \in Chunk, LeaseEnds(d) PROVE Count(c)'
  BY <1>1, <1>5, LeaseEndsCounts, Zenon
<1>6. ASSUME NEW e \in Event, BecomesAvailable(e) PROVE Count(c)'
  BY <1>1, <1>6, BecomesAvailableCounts, Zenon
<1>7. ASSUME NEW m \in Message, DelayEnds(m) PROVE Count(c)'
  BY <1>1, <1>7, DelayEndsCounts, Zenon
<1>8. CASE UNCHANGED vars
  BY <1>1, <1>8, IdleCounts, Zenon
<1> QED
  BY <1>2, <1>3, <1>4, <1>5, <1>6, <1>7, <1>8, Zenon DEF Next

(* The counts bound the copies.                                            *)
LEMMA CountsBoundCopies == TypeOK /\ CountInv => BoundedCopies
<1> SUFFICES ASSUME TypeOK, CountInv, NEW c \in Chunk
             PROVE  Copies(c) <= 1 + CopiesOfFault * faults
  BY Zenon DEF BoundedCopies
<1>1. Count(c)
  BY Zenon DEF CountInv
<1>2. PICK u, o, l, q, b, a :
        /\ u = Cardinality(Unsent(c)) /\ o = Cardinality(Overrun(c))
        /\ l = Cardinality(Late(c)) /\ q = Cardinality(Queued(c))
        /\ b = Cardinality(Busy(c)) /\ a = Abandoned(c)
  BY Zenon
<1>3. u \in Nat /\ o \in Nat /\ l \in Nat /\ q \in Nat /\ b \in Nat
  BY <1>1, <1>2, FS_CardinalityType, Zenon DEF Count
<1>4. a \in Nat
  BY <1>2, AbandonedRange
<1>5. PICK n \in Nat : n = CopiesOfFault * faults
  BY FaultMultiplies, DeliveryAssumption DEF TypeOK
<1>6. u + o + l + q + b + a <= 1 + n
  BY <1>1, <1>2, <1>5, Zenon DEF Count
<1>7. u + q + b <= 1 + n
  BY <1>3, <1>4, <1>5, <1>6
<1> QED
  BY <1>2, <1>5, <1>7, Zenon DEF Copies

(* Duplicates of a chunk's message come from faults only: without a fault  *)
(* there is one copy at most, through every release, retry, delay and      *)
(* recovery, and a fault adds CopiesOfFault at most, for any number of     *)
(* chunks, workers and coordinators.                                       *)
THEOREM CopiesAreBounded == Spec => []BoundedCopies
<1>1. Init => CountInv
  BY InitCounts, Zenon
<1>2. BaseInv /\ CountInv /\ [Next]_vars => CountInv'
  BY NextCounts, Zenon
<1>3. BaseInv /\ CountInv => BoundedCopies
  BY CountsBoundCopies DEF BaseInv, ClaimInv
<1> QED
  BY <1>1, <1>2, <1>3, BaseInvariant, PTL DEF Spec
=============================================================================
