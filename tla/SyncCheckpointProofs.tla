------------------------ MODULE SyncCheckpointProofs ------------------------
(***************************************************************************)
(* Proofs about SyncCheckpoint: a checkpoint is in one place at a time,    *)
(* its reference and enqueue counts count what they stand for, and the     *)
(* context outlives its users.  The inductive invariant says who holds     *)
(* each reference, each use and each cell.                                 *)
(***************************************************************************)
EXTENDS SyncCheckpoint, SequenceTheorems, FiniteSetTheorems,
        WellFoundedInduction, TLAPS

Freeing   == {"reap", "put", "free", "uncount"}
Dropped   == Freeing \cup {"check", "deferred", "leave"}
Fresh     == {"counted", "publish"}
Submitted == {"acquire", "schedule", "rollback"}
Owning    == Submitted \cup {"fences", "update", "rollback2", "abandon"}

NoRepeats(s) == \A i, j \in 1..Len(s) : s[i] = s[j] => i = j

\* The control state of a thread that kicks: what it holds at which point.
ThreadOK(t) ==
    /\ pc[t] \notin {"clean", "decide", "done"}
    /\ kickIn[t] # NoCheckpoint => Kicking(t)
    /\ kickOut[t] # NoCheckpoint => pc[t] \in Fresh \cup Owning
    /\ pc[t] \in Fresh => kickOut[t] # NoCheckpoint
    /\ kickIn[t] = kickOut[t] => kickIn[t] = NoCheckpoint
    /\ drops[t] # <<>> <=> pc[t] \in Dropped \cup {"unref"}
    /\ Len(drops[t]) <= 2
    /\ written[t] => pc[t] = "schedule"
    /\ phase[t] # "pool"

\* The control state of the thread that destroys the device.
DestroyerOK ==
    /\ pc[Destroyer] \in Freeing \cup {"idle", "deferred", "clean", "decide",
                                       "done"}
    /\ pc[Destroyer] = "idle" <=> destroyed = "no"
    /\ pc[Destroyer] = "done" <=> destroyed \in {"failed", "ok"}
    /\ phase[Destroyer] = "pool" =>
          pc[Destroyer] \in {"free", "uncount", "decide", "done"}
    /\ destroyed # "no" => \A t \in Threads : ~Kicking(t)

ControlOK ==
    /\ \A t \in Threads : ThreadOK(t)
    /\ DestroyerOK
    /\ \A t \in Procs : todo[t] # <<>> <=> pc[t] \in Freeing

\* Two kicks have different output fences, and a published one is owned.
OutputsOK ==
    /\ \A t, u \in Threads :
          kickOut[t] = kickOut[u] => t = u \/ kickOut[t] = NoCheckpoint
    /\ \A t \in Threads :
          pc[t] \in Owning /\ kickOut[t] # NoCheckpoint => fence[kickOut[t]]

\* The pool is a ring without repetitions.
PoolOK ==
    /\ wp = (rp + poolCount) % PoolSize
    /\ full <=> poolCount = PoolSize
    /\ \A i, j \in 0..poolCount - 1 :
          slots[(rp + i) % PoolSize] = slots[(rp + j) % PoolSize] => i = j

\* What is known of a checkpoint from the place it is in.
ListedOK ==
    /\ listed \subseteq allocated
    /\ \A c \in Checkpoints \ listed : refs[c] = 0 /\ inCCB[c] = 0
    /\ \A c \in PoolEntries : c \notin listed
    /\ NoRepeats(deferred)
    /\ \A i \in 1..Len(deferred) :
          deferred[i] \in listed /\ refs[deferred[i]] = 0
    /\ \A t \in Threads :
          /\ pc[t] = "check" =>
                Head(drops[t]) \in listed /\ refs[Head(drops[t])] = 0
          /\ pc[t] \in Fresh => kickOut[t] \notin listed

\* A thread frees checkpoints that are different and over.
TodoOK(t) ==
    /\ NoRepeats(todo[t])
    /\ pc[t] \in {"put", "free"} => todo[t][1] \notin listed
    /\ \A i \in 1..Len(todo[t]) : pc[t] = "reap" \/ i > 1 =>
          LET c == todo[t][i] IN
          IF phase[t] = "pool" THEN c \notin listed
          ELSE c \in listed /\ refs[c] = 0 /\ enq[c] = fwRefs[c]

\* The references: of the fence, of the input of a kick, and of each entry a
\* thread has still to drop, counted from the last one.
ThreadHolds(t, k, c) ==
    /\ t \in Threads
    /\ \/ k = 1 /\ kickIn[t] = c
       \/ /\ k <= Len(drops[t])
          /\ drops[t][Len(drops[t]) + 1 - k] = c
          /\ k = Len(drops[t]) => pc[t] = "unref"

Holds(t, k, c) ==
    \/ t = Destroyer /\ k = 1 /\ fence[c]
    \/ ThreadHolds(t, k, c)

HeldBy(c) == {h \in Procs \X {1, 2} : Holds(h[1], h[2], c)}

RefsCount == \A c \in Checkpoints : refs[c] = Cardinality(HeldBy(c))

\* The uses.
Using(t, c) ==
    \/ kickIn[t] = c /\ pc[t] \in Submitted \cup {"update"}
    \/ kickOut[t] = c /\ pc[t] \in Submitted \cup {"rollback2"}

UsesCount ==
    /\ \A t \in Threads, c \in Checkpoints :
          unkicked[t][c] = IF Using(t, c) THEN 1 ELSE 0
    /\ \A c \in listed : enq[c] = fwRefs[c] + Outstanding(c)

\* The places.
Deferred(c) == \E i \in 1..Len(deferred) : deferred[i] = c
Alive(c)    == c \in listed /\ refs[c] > 0

PlacesOK ==
    \A c \in Checkpoints :
        /\ c \in allocated <=>
              \/ Deferred(c) \/ Alive(c) \/ c \in PoolEntries
              \/ \E t \in Procs : InTransit(t, c)
        /\ ~(Deferred(c) /\ c \in PoolEntries)
        /\ \A t \in Procs : InTransit(t, c) =>
              /\ ~Deferred(c) /\ ~Alive(c) /\ c \notin PoolEntries
              /\ \A u \in Procs : InTransit(u, c) => u = t

\* The counts of the context.
Inside     == {t \in Threads : pc[t] \in Dropped}
Uncounted  == {c \in Checkpoints :
                 \E t \in Threads : pc[t] = "counted" /\ kickOut[t] = c}
Uncounting == {t \in Procs : pc[t] = "uncount"}

ContextOK ==
    /\ imported = {BlockOf[c] : c \in allocated}
    /\ ctxRefs = (IF destroyed = "ok" THEN 0 ELSE 1)
                 + Cardinality(imported) + Cardinality(Inside)
    /\ ctxFreed <=> ctxRefs = 0
    /\ count = Cardinality(allocated \ Uncounted) + Cardinality(Uncounting)
    /\ inUse = Cardinality(listed)
    /\ destroyed = "ok" => allocated = {}

\* TypeOK without the pool.
Typed ==
    /\ ctxRefs \in Nat /\ ctxFreed \in BOOLEAN
    /\ count \in Nat /\ inUse \in Nat
    /\ imported \subseteq Blocks
    /\ allocated \subseteq Checkpoints /\ listed \subseteq Checkpoints
    /\ deferred \in Seq(Checkpoints)
    /\ slots \in [0..PoolSize - 1 -> OptCheckpoint]
    /\ wp \in 0..PoolSize - 1 /\ rp \in 0..PoolSize - 1
    /\ poolCount \in 0..PoolSize /\ full \in BOOLEAN
    /\ refs \in [Checkpoints -> Nat] /\ enq \in [Checkpoints -> Nat]
    /\ fwRefs \in [Checkpoints -> Nat] /\ fence \in [Checkpoints -> BOOLEAN]
    /\ inCCB \in [Checkpoints -> Nat]
    /\ unkicked \in [Threads -> [Checkpoints -> Nat]]
    /\ written \in [Threads -> BOOLEAN]
    /\ pc \in [Procs -> {"idle", "create", "alloc", "counted", "publish",
               "fences", "update", "acquire", "schedule", "rollback",
               "rollback2", "abandon", "unref", "check", "reap", "put", "free",
               "uncount", "deferred", "leave", "clean", "decide", "done"}]
    /\ kickIn \in [Threads -> OptCheckpoint]
    /\ kickOut \in [Threads -> OptCheckpoint]
    /\ drops \in [Threads -> Seq(Checkpoints)]
    /\ todo \in [Procs -> Seq(Checkpoints)]
    /\ phase \in [Procs -> {"direct", "deferred", "pool"}]
    /\ destroyed \in {"no", "begun", "failed", "ok"}
    /\ PoolEntries \subseteq Checkpoints

Inv ==
    /\ Typed /\ ControlOK /\ OutputsOK /\ PoolOK /\ ListedOK
    /\ \A t \in Procs : TodoOK(t)
    /\ RefsCount /\ UsesCount /\ PlacesOK /\ ContextOK

---------------------------------------------------------------------------
(* The elements of a sequence that are in a set, and sizes of sets.        *)

\* A set of natural numbers has a least element.
LEMMA LeastNatural ==
    ASSUME NEW T, T \subseteq Nat, T # {}
    PROVE  \E x \in T : \A y \in T : ~(y < x)
<1>1. \E x \in T : \A y \in T : ~(<<y, x>> \in OpToRel(<, Nat))
  BY NatLessThanWellFounded, WFMin, Zenon
<1>2. QED
  BY <1>1 DEF OpToRel

\* What has not failed at 0 and never fails for the first time holds up to n:
\* the set of failures has no least element.
LEMMA UpTo ==
    ASSUME NEW n \in Nat, NEW B, 0 \notin B,
           \A i \in 1..n : i \in B => i - 1 \in B
    PROVE  \A i \in 0..n : i \notin B
<1>1. SUFFICES ASSUME NEW k \in 0..n, k \in B PROVE FALSE
  OBVIOUS
<1>2. PICK T : T = {i \in 0..n : i \in B}
  OBVIOUS
<1>3. T \subseteq Nat /\ T # {}
  BY <1>1, <1>2
<1>4. PICK x \in T : \A y \in T : ~(y < x)
  BY <1>3, LeastNatural
<1>5. x \in 0..n /\ x \in B /\ x # 0
  BY <1>2, <1>4
<1>6. x \in 1..n /\ x - 1 \in 0..n /\ x - 1 < x
  BY <1>5
<1>7. x - 1 \in T
  BY <1>2, <1>5, <1>6
<1>8. QED
  BY <1>4, <1>6, <1>7

\* The elements of s in S among the first i.
AmongStep(f, s, S, i) ==
    IF i = 0 THEN <<>>
    ELSE IF s[i] \in S THEN Append(f[i - 1], s[i]) ELSE f[i - 1]

LEMMA AmongExists ==
    ASSUME NEW s, NEW n \in Nat, NEW S
    PROVE  \E f : f = [i \in 0..n |-> AmongStep(f, s, S, i)]
<1> DEFINE Q(k) == \E f : /\ f = [i \in 0..n |-> f[i]]
                          /\ \A i \in 0..k : f[i] = AmongStep(f, s, S, i)
           B == {k \in 0..n : ~Q(k)}
<1>1. Q(0)
  <2>1. PICK f : f = [i \in 0..n |-> <<>>]
    OBVIOUS
  <2>2. f = [i \in 0..n |-> f[i]]
    BY <2>1
  <2>3. \A i \in 0..0 : f[i] = AmongStep(f, s, S, i)
    BY <2>1 DEF AmongStep
  <2>4. QED
    BY <2>2, <2>3
<1>2. ASSUME NEW k \in 1..n, Q(k - 1) PROVE Q(k)
  <2>1. PICK f : /\ f = [i \in 0..n |-> f[i]]
                 /\ \A i \in 0..k - 1 : f[i] = AmongStep(f, s, S, i)
    BY <1>2
  <2>2. PICK v : v = AmongStep(f, s, S, k)
    OBVIOUS
  <2>3. PICK g : g = [i \in 0..n |-> IF i = k THEN v ELSE f[i]]
    OBVIOUS
  <2>4. /\ g = [i \in 0..n |-> g[i]]
        /\ \A i \in 0..n : i # k => g[i] = f[i]
        /\ g[k] = v
    BY <2>3
  <2>5. ASSUME NEW i \in 0..k PROVE g[i] = AmongStep(g, s, S, i)
    <3>1. i \in 0..n /\ (i # 0 => i - 1 \in 0..n /\ i - 1 # k)
      OBVIOUS
    <3>2. i # 0 => g[i - 1] = f[i - 1]
      BY <2>4, <3>1
    <3>3. AmongStep(g, s, S, i) = AmongStep(f, s, S, i)
      BY <3>2 DEF AmongStep
    <3>4. CASE i = k
      BY <2>2, <2>4, <3>3, <3>4
    <3>5. CASE i # k
      <4>1. i \in 0..k - 1
        BY <3>5
      <4>2. QED
        BY <2>1, <2>4, <3>1, <3>3, <3>5, <4>1
    <3>6. QED
      BY <3>4, <3>5
  <2>6. QED
    BY <2>4, <2>5
<1>3. \A i \in 0..n : i \notin B
  <2>1. 0 \notin B
    BY <1>1
  <2>2. ASSUME NEW i \in 1..n, i \in B PROVE i - 1 \in B
    <3>1. ~Q(i) /\ i - 1 \in 0..n
      BY <2>2
    <3>2. ~Q(i - 1)
      <4> HIDE DEF Q
      <4>1. QED
        BY <1>2, <3>1
    <3>3. QED
      BY <3>1, <3>2
  <2>3. QED
    <3> HIDE DEF B
    <3>1. QED
      BY <2>1, <2>2, UpTo
<1>4. Q(n)
  BY <1>3
<1>5. PICK f : /\ f = [i \in 0..n |-> f[i]]
               /\ \A i \in 0..n : f[i] = AmongStep(f, s, S, i)
  BY <1>4
<1>6. QED
  BY <1>5

LEMMA AmongIs ==
    ASSUME NEW D, NEW s \in Seq(D), NEW S
    PROVE  /\ Among(s, S) \in Seq(D)
           /\ \A k \in 1..Len(Among(s, S)) : \E j \in 1..Len(s) :
                 Among(s, S)[k] = s[j] /\ s[j] \in S
           /\ \A j \in 1..Len(s) : s[j] \in S =>
                 \E k \in 1..Len(Among(s, S)) : Among(s, S)[k] = s[j]
           /\ NoRepeats(s) => NoRepeats(Among(s, S))
<1> DEFINE n == Len(s)
           F == CHOOSE f : f = [i \in 0..n |-> AmongStep(f, s, S, i)]
<1>1. Among(s, S) = F[n]
  BY DEF Among, AmongStep
<1>2. n \in Nat /\ \A i \in 1..n : s[i] \in D
  BY ElementOfSeq, LenProperties
<1>3. F = [i \in 0..n |-> AmongStep(F, s, S, i)]
  BY <1>2, AmongExists
<1>4. PICK f : f = F
  OBVIOUS
<1>5. f = [i \in 0..n |-> AmongStep(f, s, S, i)]
  BY <1>3, <1>4
<1> HIDE DEF F
<1>6. f[0] = <<>>
  BY <1>2, <1>5 DEF AmongStep
<1>7. \A i \in 1..n : f[i] = IF s[i] \in S THEN Append(f[i - 1], s[i])
                                           ELSE f[i - 1]
  <2>1. ASSUME NEW i \in 1..n
        PROVE  f[i] = IF s[i] \in S THEN Append(f[i - 1], s[i]) ELSE f[i - 1]
    <3>1. i \in 0..n /\ i # 0
      BY <1>2
    <3>2. f[i] = AmongStep(f, s, S, i)
      BY <1>5, <3>1
    <3>3. QED
      BY <3>1, <3>2 DEF AmongStep
  <2>2. QED
    BY <2>1
<1> DEFINE Q(i) == /\ f[i] \in Seq(D)
                   /\ \A k \in 1..Len(f[i]) : \E j \in 1..i :
                         f[i][k] = s[j] /\ s[j] \in S
                   /\ \A j \in 1..i : s[j] \in S =>
                         \E k \in 1..Len(f[i]) : f[i][k] = s[j]
                   /\ NoRepeats(s) => NoRepeats(f[i])
           B == {i \in 0..n : ~Q(i)}
<1>8. Q(0)
  <2>1. f[0] \in Seq(D) /\ Len(f[0]) = 0
    BY <1>6
  <2>2. QED
    BY <2>1 DEF NoRepeats
<1>9. ASSUME NEW i \in 1..n, Q(i - 1) PROVE Q(i)
  <2>1. PICK r : r = f[i - 1]
    OBVIOUS
  <2>2. /\ r \in Seq(D)
        /\ \A k \in 1..Len(r) : \E j \in 1..i - 1 : r[k] = s[j] /\ s[j] \in S
        /\ \A j \in 1..i - 1 : s[j] \in S => \E k \in 1..Len(r) : r[k] = s[j]
        /\ NoRepeats(s) => NoRepeats(r)
    BY <1>9, <2>1
  <2>3. CASE s[i] \notin S
    <3>1. f[i] = r
      BY <1>7, <2>1, <2>3
    <3>2. \A j \in 1..i : j \in 1..i - 1 \/ j = i
      BY <1>2
    <3>3. \A j \in 1..i - 1 : j \in 1..i
      BY <1>2
    <3>4. QED
      BY <2>2, <2>3, <3>1, <3>2, <3>3
  <2>4. CASE s[i] \in S
    <3>1. PICK q : q = Append(r, s[i])
      OBVIOUS
    <3>2. f[i] = q
      BY <1>7, <2>1, <2>4, <3>1
    <3>3. /\ q \in Seq(D) /\ Len(r) \in Nat /\ Len(q) = Len(r) + 1
          /\ \A k \in 1..Len(r) : q[k] = r[k]
          /\ q[Len(q)] = s[i] /\ Len(q) \in 1..Len(q)
      BY <1>2, <2>2, <3>1, AppendProperties, LenProperties
    <3>4. \A k \in 1..Len(q) : k \in 1..Len(r) \/ k = Len(q)
      BY <3>3
    <3>5. \A k \in 1..Len(r) : k \in 1..Len(q)
      BY <3>3
    <3>6. i \in 1..i /\ (\A j \in 1..i - 1 : j \in 1..i)
          /\ (\A j \in 1..i : j \in 1..i - 1 \/ j = i)
      BY <1>2
    <3>7. \A k \in 1..Len(q) : \E j \in 1..i : q[k] = s[j] /\ s[j] \in S
      <4>1. ASSUME NEW k \in 1..Len(r)
            PROVE  \E j \in 1..i : q[k] = s[j] /\ s[j] \in S
        <5>1. PICK j \in 1..i - 1 : r[k] = s[j] /\ s[j] \in S
          BY <2>2
        <5>2. QED
          BY <3>3, <3>6, <5>1
      <4>2. i \in 1..i /\ q[Len(q)] = s[i]
        BY <3>3, <3>6
      <4>3. QED
        BY <2>4, <3>4, <4>1, <4>2
    <3>8. \A j \in 1..i : s[j] \in S => \E k \in 1..Len(q) : q[k] = s[j]
      BY <2>2, <3>3, <3>5, <3>6
    <3>9. ASSUME NoRepeats(s) PROVE NoRepeats(q)
      <4>1. \A k, m \in 1..Len(r) : r[k] = r[m] => k = m
        BY <2>2, <3>9 DEF NoRepeats
      <4>2. ASSUME NEW k \in 1..Len(r) PROVE q[k] # s[i]
        <5>1. PICK j \in 1..i - 1 : r[k] = s[j]
          BY <2>2, <4>2
        <5>2. j \in 1..n /\ j # i
          BY <1>2, <5>1
        <5>3. s[j] # s[i]
          BY <3>9, <5>2 DEF NoRepeats
        <5>4. QED
          BY <3>3, <4>2, <5>1, <5>3
      <4>3. QED
        BY <3>3, <3>4, <4>1, <4>2 DEF NoRepeats
    <3>10. QED
      BY <3>2, <3>3, <3>7, <3>8, <3>9
  <2>5. QED
    BY <2>3, <2>4
<1>10. \A i \in 0..n : i \notin B
  <2>1. 0 \notin B
    BY <1>8
  <2>2. ASSUME NEW i \in 1..n, i \in B PROVE i - 1 \in B
    <3>1. ~Q(i) /\ i - 1 \in 0..n
      BY <1>2, <2>2
    <3>2. ~Q(i - 1)
      <4> HIDE DEF Q
      <4>1. QED
        BY <1>9, <3>1
    <3>3. QED
      BY <3>1, <3>2
  <2>3. QED
    <3> HIDE DEF B
    <3>1. QED
      BY <1>2, <2>1, <2>2, UpTo
<1>11. Q(n)
  BY <1>2, <1>10
<1>12. QED
  BY <1>1, <1>4, <1>11

\* Adding, removing and exchanging an element of a finite set.
LEMMA OneMore ==
    ASSUME NEW S, NEW x, IsFiniteSet(S), x \notin S
    PROVE  IsFiniteSet(S \cup {x}) /\ Cardinality(S \cup {x}) = Cardinality(S) + 1
           /\ Cardinality(S) \in Nat
BY FS_AddElement, FS_CardinalityType

LEMMA OneLess ==
    ASSUME NEW S, NEW x, IsFiniteSet(S), x \in S
    PROVE  /\ IsFiniteSet(S \ {x}) /\ Cardinality(S \ {x}) = Cardinality(S) - 1
           /\ Cardinality(S) \in Nat /\ Cardinality(S) > 0
<1>1. Cardinality(S) \in Nat /\ Cardinality(S) # 0
  BY FS_CardinalityType, FS_EmptySet
<1>2. QED
  BY <1>1, FS_RemoveElement

LEMMA Exchanged ==
    ASSUME NEW S, NEW x, NEW y, IsFiniteSet(S), x \in S, y \notin S
    PROVE  Cardinality((S \ {x}) \cup {y}) = Cardinality(S)
<1>1. /\ IsFiniteSet(S \ {x}) /\ Cardinality(S \ {x}) = Cardinality(S) - 1
      /\ Cardinality(S) \in Nat
  BY OneLess
<1>2. y \notin S \ {x}
  OBVIOUS
<1>3. Cardinality((S \ {x}) \cup {y}) = Cardinality(S \ {x}) + 1
  BY <1>1, <1>2, OneMore
<1>4. QED
  BY <1>1, <1>3

---------------------------------------------------------------------------
(* The pool.                                                               *)

\* The slots that follow a slot, without remainders.
LEMMA RingIs ==
    ASSUME NEW r \in 0..PoolSize - 1, NEW i \in 0..PoolSize
    PROVE  /\ (r + i) % PoolSize = IF r + i < PoolSize THEN r + i
                                                        ELSE r + i - PoolSize
           /\ (r + i) % PoolSize \in 0..PoolSize - 1
<1>1. PoolSize \in Nat \ {0}
  BY SyncCheckpointAssumption
<1>2. \A a \in 0..PoolSize - 1 :
         a % PoolSize = a /\ (a + PoolSize) % PoolSize = a
  BY <1>1
<1>3. PICK a : a = IF r + i < PoolSize THEN r + i ELSE r + i - PoolSize
  OBVIOUS
<1>4. a \in 0..PoolSize - 1 /\ (r + i = a \/ r + i = a + PoolSize)
  BY <1>1, <1>3
<1>5. (r + i) % PoolSize = a
  BY <1>2, <1>4
<1>6. QED
  BY <1>3, <1>4, <1>5

LEMMA RingDiffers ==
    ASSUME NEW r \in 0..PoolSize - 1, NEW i \in 0..PoolSize - 1,
           NEW j \in 0..PoolSize - 1, (r + i) % PoolSize = (r + j) % PoolSize
    PROVE  i = j
<1>1. PoolSize \in Nat \ {0} /\ i \in 0..PoolSize /\ j \in 0..PoolSize
  BY SyncCheckpointAssumption
<1>2. /\ (r + i) % PoolSize = IF r + i < PoolSize THEN r + i
                                                   ELSE r + i - PoolSize
      /\ (r + j) % PoolSize = IF r + j < PoolSize THEN r + j
                                                   ELSE r + j - PoolSize
  BY <1>1, RingIs
<1>3. QED
  BY <1>1, <1>2

\* Taking the first entry.
LEMMA PoolGet ==
    ASSUME Typed, PoolOK, poolCount > 0, rp' = (rp + 1) % PoolSize,
           poolCount' = poolCount - 1, full' = FALSE, UNCHANGED <<slots, wp>>
    PROVE  /\ PoolOK' /\ PoolEntries' = PoolEntries \ {slots[rp]}
           /\ slots[rp] \in PoolEntries
           /\ rp' \in 0..PoolSize - 1 /\ poolCount' \in 0..PoolSize
<1>1. /\ PoolSize \in Nat \ {0} /\ rp \in 0..PoolSize - 1
      /\ poolCount \in 1..PoolSize
  BY SyncCheckpointAssumption DEF Typed
<1>2. PICK r, n : r = rp' /\ n = poolCount'
  OBVIOUS
<1>3. r = (rp + 1) % PoolSize /\ n = poolCount - 1
  BY <1>2
<1>4. 1 \in 0..PoolSize /\ 0 \in 0..PoolSize /\ rp + 0 = rp /\ rp < PoolSize
  BY <1>1
<1>5. /\ r = IF rp + 1 < PoolSize THEN rp + 1 ELSE rp + 1 - PoolSize
      /\ r \in 0..PoolSize - 1 /\ (rp + 0) % PoolSize = rp
  BY <1>1, <1>3, <1>4, RingIs
<1>6. ASSUME NEW i \in 0..n
      PROVE  (r + i) % PoolSize = (rp + (i + 1)) % PoolSize
             /\ i + 1 \in 0..PoolSize
  <2>1. i \in 0..PoolSize /\ i + 1 \in 0..PoolSize
    BY <1>1, <1>3
  <2>2. /\ (r + i) % PoolSize = IF r + i < PoolSize THEN r + i
                                                     ELSE r + i - PoolSize
        /\ (rp + (i + 1)) % PoolSize =
              IF rp + (i + 1) < PoolSize THEN rp + (i + 1)
                                         ELSE rp + (i + 1) - PoolSize
    BY <1>1, <1>5, <2>1, RingIs
  <2>3. QED
    BY <1>1, <1>5, <2>1, <2>2
<1>7. n \in 0..n /\ n + 1 = poolCount /\ n < PoolSize
      /\ \A i \in 0..n - 1 : i \in 0..n /\ i + 1 \in 0..poolCount - 1
  BY <1>1, <1>3
<1>8. \A i \in 0..poolCount - 1 : i = 0 \/ (i - 1 \in 0..n - 1 /\ i - 1 + 1 = i)
  BY <1>1, <1>3
<1>9. 0 \in 0..poolCount - 1
  BY <1>1
<1>10. /\ wp = (rp + poolCount) % PoolSize
       /\ \A i, j \in 0..poolCount - 1 :
             slots[(rp + i) % PoolSize] = slots[(rp + j) % PoolSize] => i = j
  BY DEF PoolOK
<1>11. PoolOK'
  <2>1. wp = (r + n) % PoolSize
    BY <1>6, <1>7, <1>10
  <2>2. n # PoolSize
    BY <1>7, <1>1
  <2>3. ASSUME NEW i \in 0..n - 1, NEW j \in 0..n - 1,
               slots[(r + i) % PoolSize] = slots[(r + j) % PoolSize]
        PROVE  i = j
    <3>1. slots[(rp + (i + 1)) % PoolSize] = slots[(rp + (j + 1)) % PoolSize]
      BY <1>6, <1>7, <2>3
    <3>2. i + 1 = j + 1
      BY <1>7, <1>10, <3>1
    <3>3. QED
      BY <3>2
  <2>4. QED
    BY <1>2, <2>1, <2>2, <2>3 DEF PoolOK
<1>12. PICK S : S = {slots[(r + i) % PoolSize] : i \in 0..n - 1}
  OBVIOUS
<1>13. S = PoolEntries \ {slots[rp]}
  <2>1. ASSUME NEW x \in S PROVE x \in PoolEntries /\ x # slots[rp]
    <3>1. PICK i \in 0..n - 1 : x = slots[(r + i) % PoolSize]
      BY <1>12, <2>1
    <3>2. x = slots[(rp + (i + 1)) % PoolSize] /\ i + 1 \in 0..poolCount - 1
      BY <1>6, <1>7, <3>1
    <3>3. x \in PoolEntries
      BY <3>2 DEF PoolEntries
    <3>4. i + 1 # 0
      OBVIOUS
    <3>5. x # slots[(rp + 0) % PoolSize]
      BY <1>9, <1>10, <3>2, <3>4
    <3>6. QED
      BY <1>5, <3>3, <3>5
  <2>2. ASSUME NEW x \in PoolEntries, x # slots[rp] PROVE x \in S
    <3>1. PICK i \in 0..poolCount - 1 : x = slots[(rp + i) % PoolSize]
      BY <2>2 DEF PoolEntries
    <3>2. i # 0
      BY <1>5, <2>2, <3>1
    <3>3. PICK k \in 0..n - 1 : k + 1 = i
      BY <1>8, <3>2
    <3>4. x = slots[(r + k) % PoolSize]
      BY <1>6, <1>7, <3>1, <3>3
    <3>5. QED
      BY <1>12, <3>4
  <2>3. QED
    BY <2>1, <2>2
<1>14. PoolEntries' = S
  BY <1>2, <1>12 DEF PoolEntries
<1>15. slots[rp] \in PoolEntries
  BY <1>5, <1>9 DEF PoolEntries
<1>16. QED
  BY <1>1, <1>2, <1>3, <1>5, <1>11, <1>13, <1>14, <1>15

\* Adding one behind the last entry.
LEMMA PoolPut ==
    ASSUME Typed, PoolOK, ~full, NEW c, c \notin PoolEntries,
           slots' = [slots EXCEPT ![wp] = c], wp' = (wp + 1) % PoolSize,
           poolCount' = poolCount + 1, full' = (full \/ wp' = rp),
           UNCHANGED rp
    PROVE  /\ PoolOK' /\ PoolEntries' = PoolEntries \cup {c}
           /\ wp' \in 0..PoolSize - 1 /\ poolCount' \in 0..PoolSize
<1>1. /\ PoolSize \in Nat \ {0} /\ rp \in 0..PoolSize - 1
      /\ poolCount \in 0..PoolSize /\ wp \in 0..PoolSize - 1
      /\ DOMAIN slots = 0..PoolSize - 1
  BY SyncCheckpointAssumption DEF Typed
<1>2. /\ wp = (rp + poolCount) % PoolSize
      /\ poolCount # PoolSize
      /\ \A i, j \in 0..poolCount - 1 :
            slots[(rp + i) % PoolSize] = slots[(rp + j) % PoolSize] => i = j
  BY DEF PoolOK
<1>3. PICK w, n, s : w = wp' /\ n = poolCount' /\ s = slots'
  OBVIOUS
<1>4. /\ w = (wp + 1) % PoolSize /\ n = poolCount + 1
      /\ s = [slots EXCEPT ![wp] = c]
  BY <1>3
<1>5. /\ poolCount \in 0..PoolSize - 1 /\ n \in 1..PoolSize
      /\ n \in 0..PoolSize /\ 1 \in 0..PoolSize
  BY <1>1, <1>2, <1>4
<1>6. /\ wp = IF rp + poolCount < PoolSize THEN rp + poolCount
                                           ELSE rp + poolCount - PoolSize
      /\ (wp + 1) % PoolSize = IF wp + 1 < PoolSize THEN wp + 1
                                                    ELSE wp + 1 - PoolSize
      /\ (wp + 1) % PoolSize \in 0..PoolSize - 1
      /\ (rp + n) % PoolSize = IF rp + n < PoolSize THEN rp + n
                                                    ELSE rp + n - PoolSize
  BY <1>1, <1>2, <1>5, RingIs
<1>7. w = (rp + n) % PoolSize /\ w \in 0..PoolSize - 1
      /\ (w = rp <=> n = PoolSize)
  BY <1>1, <1>4, <1>5, <1>6
<1>8. ASSUME NEW i \in 0..poolCount - 1
      PROVE  /\ (rp + i) % PoolSize # wp
             /\ (rp + i) % PoolSize \in 0..PoolSize - 1
             /\ s[(rp + i) % PoolSize] = slots[(rp + i) % PoolSize]
  <2>1. i \in 0..PoolSize - 1 /\ i \in 0..PoolSize /\ i # poolCount
    BY <1>1
  <2>2. (rp + i) % PoolSize # wp
    BY <1>1, <1>2, <1>5, <2>1, RingDiffers
  <2>3. (rp + i) % PoolSize \in 0..PoolSize - 1
    BY <1>1, <2>1, RingIs
  <2>4. QED
    BY <1>1, <1>4, <2>2, <2>3
<1>9. s[wp] = c
  BY <1>1, <1>4
<1>10. /\ \A i \in 0..n - 1 : i \in 0..poolCount - 1 \/ i = poolCount
       /\ \A i \in 0..poolCount - 1 : i \in 0..n - 1
       /\ poolCount \in 0..n - 1
  BY <1>1, <1>4
<1>11. \A i \in 0..poolCount - 1 : s[(rp + i) % PoolSize] \in PoolEntries
  BY <1>8 DEF PoolEntries
<1>12. ASSUME NEW i \in 0..n - 1, NEW j \in 0..n - 1,
              s[(rp + i) % PoolSize] = s[(rp + j) % PoolSize]
       PROVE  i = j
  <2>1. CASE i = poolCount \/ j = poolCount
    BY <1>2, <1>9, <1>10, <1>11, <1>12, <2>1
  <2>2. CASE i \in 0..poolCount - 1 /\ j \in 0..poolCount - 1
    BY <1>2, <1>8, <1>12, <2>2
  <2>3. QED
    BY <1>10, <2>1, <2>2
<1>13. PoolOK'
  <2>1. full' <=> n = PoolSize
    BY <1>3, <1>7
  <2>2. QED
    BY <1>3, <1>7, <1>12, <2>1 DEF PoolOK
<1>14. PICK S : S = {s[(rp + i) % PoolSize] : i \in 0..n - 1}
  OBVIOUS
<1>15. S = PoolEntries \cup {c}
  <2>1. ASSUME NEW x \in S PROVE x \in PoolEntries \cup {c}
    <3>1. PICK i \in 0..n - 1 : x = s[(rp + i) % PoolSize]
      BY <1>14, <2>1
    <3>2. QED
      BY <1>2, <1>9, <1>10, <1>11, <3>1
  <2>2. ASSUME NEW x \in PoolEntries PROVE x \in S
    <3>1. PICK i \in 0..poolCount - 1 : x = slots[(rp + i) % PoolSize]
      BY <2>2 DEF PoolEntries
    <3>2. x = s[(rp + i) % PoolSize] /\ i \in 0..n - 1
      BY <1>8, <1>10, <3>1
    <3>3. QED
      BY <1>14, <3>2
  <2>3. c \in S
    BY <1>2, <1>9, <1>10, <1>14
  <2>4. QED
    BY <2>1, <2>2, <2>3
<1>16. PoolEntries' = S
  BY <1>3, <1>14 DEF PoolEntries
<1>17. QED
  BY <1>1, <1>3, <1>5, <1>7, <1>13, <1>15, <1>16

\* Taking all of them, the last one first.
Pooled == [i \in 1..poolCount |-> slots[(rp + poolCount - i) % PoolSize]]

LEMMA PoolTaken ==
    ASSUME Typed, PoolOK
    PROVE  /\ Pooled \in Seq(Checkpoints) /\ Len(Pooled) = poolCount
           /\ NoRepeats(Pooled)
           /\ \A c : c \in PoolEntries <=>
                     \E i \in 1..Len(Pooled) : Pooled[i] = c
<1>1. /\ PoolSize \in Nat \ {0} /\ rp \in 0..PoolSize - 1
      /\ poolCount \in 0..PoolSize /\ PoolEntries \subseteq Checkpoints
  BY SyncCheckpointAssumption DEF Typed
<1>2. PICK p : p = Pooled
  OBVIOUS
<1>3. ASSUME NEW i \in 1..poolCount
      PROVE  p[i] = slots[(rp + (poolCount - i)) % PoolSize]
             /\ poolCount - i \in 0..poolCount - 1
  <2>1. rp + poolCount - i = rp + (poolCount - i)
    BY <1>1
  <2>2. p[i] = slots[(rp + poolCount - i) % PoolSize]
    BY <1>2 DEF Pooled
  <2>3. poolCount - i \in 0..poolCount - 1
    BY <1>1
  <2>4. QED
    BY <2>1, <2>2, <2>3
<1>4. \A i \in 1..poolCount : p[i] \in PoolEntries
  BY <1>3 DEF PoolEntries
<1>5. p \in [1..poolCount -> Checkpoints]
  BY <1>1, <1>2, <1>4 DEF Pooled
<1>6. p \in Seq(Checkpoints) /\ Len(p) = poolCount
  BY <1>1, <1>5
<1>7. NoRepeats(p)
  <2>1. ASSUME NEW i \in 1..poolCount, NEW j \in 1..poolCount, p[i] = p[j]
        PROVE  i = j
    <3>1. poolCount - i = poolCount - j
      BY <1>3, <2>1 DEF PoolOK
    <3>2. QED
      BY <1>1, <3>1
  <2>2. QED
    BY <1>6, <2>1 DEF NoRepeats
<1>8. ASSUME NEW c \in PoolEntries PROVE \E i \in 1..poolCount : p[i] = c
  <2>1. PICK j \in 0..poolCount - 1 : c = slots[(rp + j) % PoolSize]
    BY DEF PoolEntries
  <2>2. PICK i : i = poolCount - j
    OBVIOUS
  <2>3. i \in 1..poolCount /\ poolCount - i = j
    BY <1>1, <2>2
  <2>4. QED
    BY <1>3, <2>1, <2>3
<1>9. QED
  BY <1>2, <1>4, <1>6, <1>7, <1>8

LEMMA PoolClean ==
    ASSUME Typed, PoolOK, rp' = (rp + poolCount) % PoolSize, poolCount' = 0,
           full' = (full /\ poolCount = 0), UNCHANGED <<slots, wp>>
    PROVE  PoolOK' /\ PoolEntries' = {} /\ rp' \in 0..PoolSize - 1
           /\ poolCount' \in 0..PoolSize
<1>1. /\ PoolSize \in Nat \ {0} /\ rp \in 0..PoolSize - 1
      /\ poolCount \in 0..PoolSize
  BY SyncCheckpointAssumption DEF Typed
<1>2. PICK r : r = rp'
  OBVIOUS
<1>3. r \in 0..PoolSize - 1 /\ wp = r
  BY <1>1, <1>2, RingIs DEF PoolOK
<1>4. 0 \in 0..PoolSize /\ r + 0 = r /\ r < PoolSize
  BY <1>1, <1>3
<1>5. (r + 0) % PoolSize = r
  BY <1>3, <1>4, RingIs
<1>6. full' = FALSE /\ 0 # PoolSize
  BY <1>1 DEF PoolOK
<1>7. 0..0 - 1 = {}
  OBVIOUS
<1>8. PoolEntries' = {}
  BY <1>7 DEF PoolEntries
<1>9. PoolOK'
  BY <1>2, <1>3, <1>5, <1>6, <1>7 DEF PoolOK
<1>10. QED
  BY <1>1, <1>2, <1>3, <1>8, <1>9

---------------------------------------------------------------------------
(* What follows from the invariant.                                        *)

Held(c) == c \in Checkpoints /\ c \in listed /\ c \in allocated /\ refs[c] > 0

LEMMA ProcsAre ==
    /\ Threads \subseteq Procs /\ Destroyer \in Procs /\ Destroyer \notin Threads
    /\ \A t \in Procs : t \in Threads \/ t = Destroyer
    /\ IsFiniteSet(Threads) /\ IsFiniteSet(Procs) /\ IsFiniteSet(Checkpoints)
    /\ NoCheckpoint \notin Checkpoints
BY SyncCheckpointAssumption, FS_AddElement DEF Procs

LEMMA FiniteHolders ==
    \A c : IsFiniteSet(HeldBy(c)) /\ Cardinality(HeldBy(c)) \in Nat
<1>1. IsFiniteSet({1} \cup {2}) /\ {1} \cup {2} = {1, 2}
  BY FS_Singleton, FS_AddElement
<1>2. IsFiniteSet(Procs \X {1, 2})
  BY <1>1, ProcsAre, FS_Product
<1>3. \A c : HeldBy(c) \in SUBSET (Procs \X {1, 2})
  BY DEF HeldBy
<1>4. QED
  BY <1>2, <1>3, FS_Subset, FS_CardinalityType

LEMMA HolderIs ==
    ASSUME NEW c, NEW t \in Procs, NEW k \in {1, 2}
    PROVE  <<t, k>> \in HeldBy(c) <=> Holds(t, k, c)
BY DEF HeldBy

\* A checkpoint that is held is a listed one.
LEMMA HolderAlive ==
    ASSUME Typed, RefsCount, ListedOK, NEW c \in Checkpoints,
           NEW t \in Procs, NEW k \in {1, 2}, Holds(t, k, c)
    PROVE  Held(c)
<1>1. HeldBy(c) # {}
  BY HolderIs
<1>2. Cardinality(HeldBy(c)) # 0
  BY <1>1, FiniteHolders, FS_EmptySet
<1>3. refs[c] > 0
  BY <1>2, FiniteHolders DEF RefsCount
<1>4. c \in listed
  BY <1>3 DEF ListedOK
<1>5. QED
  BY <1>3, <1>4 DEF Held, ListedOK

LEMMA FenceHolds ==
    ASSUME Typed, RefsCount, ListedOK, NEW c \in Checkpoints, fence[c]
    PROVE  Held(c)
BY HolderAlive, ProcsAre DEF Holds

LEMMA InputHolds ==
    ASSUME Typed, RefsCount, ListedOK, NEW t \in Threads,
           kickIn[t] # NoCheckpoint
    PROVE  kickIn[t] \in Checkpoints /\ Held(kickIn[t])
<1>1. kickIn[t] \in Checkpoints /\ Holds(t, 1, kickIn[t])
  BY DEF Holds, ThreadHolds, Typed, OptCheckpoint
<1>2. QED
  BY <1>1, HolderAlive, ProcsAre

LEMMA OutputHolds ==
    ASSUME Typed, RefsCount, ListedOK, OutputsOK, NEW t \in Threads,
           pc[t] \in Owning, kickOut[t] # NoCheckpoint
    PROVE  kickOut[t] \in Checkpoints /\ Held(kickOut[t])
<1>1. kickOut[t] \in Checkpoints /\ fence[kickOut[t]]
  BY DEF OutputsOK, Typed, OptCheckpoint
<1>2. QED
  BY <1>1, FenceHolds

\* A thread that is about to drop references has them.
LEMMA DropsAre ==
    ASSUME Typed, ControlOK, NEW t \in Threads,
           pc[t] \in Dropped \cup {"unref"}
    PROVE  /\ Len(drops[t]) \in {1, 2}
           /\ \A i \in 1..Len(drops[t]) : drops[t][i] \in Checkpoints
           /\ Head(drops[t]) = drops[t][1] /\ drops[t][1] \in Checkpoints
           /\ Tail(drops[t]) \in Seq(Checkpoints)
           /\ Len(Tail(drops[t])) = Len(drops[t]) - 1
           /\ \A i \in 1..Len(drops[t]) - 1 : Tail(drops[t])[i] = drops[t][i + 1]
<1>1. drops[t] \in Seq(Checkpoints) /\ drops[t] # <<>> /\ Len(drops[t]) <= 2
  BY DEF Typed, ControlOK, ThreadOK
<1>2. PICK d : d = drops[t]
  OBVIOUS
<1>3. d \in Seq(Checkpoints) /\ d # <<>> /\ Len(d) <= 2
  BY <1>1, <1>2
<1>4. Len(d) \in Nat /\ Len(d) # 0
  BY <1>3, LenProperties, EmptySeq
<1>5. \A i \in 1..Len(d) : d[i] \in Checkpoints
  BY <1>3, ElementOfSeq
<1>6. 1 \in 1..Len(d) /\ Len(d) \in {1, 2}
  <2>1. \A n \in Nat : n # 0 /\ n <= 2 => 1 \in 1..n /\ n \in {1, 2}
    OBVIOUS
  <2>2. QED
    BY <1>3, <1>4, <2>1
<1>7. /\ Head(d) = d[1] /\ Tail(d) \in Seq(Checkpoints)
      /\ Len(Tail(d)) = Len(d) - 1
      /\ \A i \in 1..Len(d) - 1 : Tail(d)[i] = d[i + 1]
  BY <1>3, HeadTailProperties
<1>8. QED
  BY <1>2, <1>5, <1>6, <1>7

LEMMA DropHolds ==
    ASSUME Typed, ControlOK, RefsCount, ListedOK, NEW t \in Threads,
           pc[t] = "unref"
    PROVE  Held(Head(drops[t]))
<1>1. Len(drops[t]) \in {1, 2} /\ Head(drops[t]) = drops[t][1]
      /\ drops[t][1] \in Checkpoints
  BY DropsAre
<1>2. Len(drops[t]) + 1 - Len(drops[t]) = 1
  BY <1>1
<1>3. Holds(t, Len(drops[t]), drops[t][1])
  BY <1>1, <1>2 DEF Holds, ThreadHolds
<1>4. QED
  BY <1>1, <1>3, HolderAlive, ProcsAre

\* What a thread is freeing.
LEMMA TodoIs ==
    ASSUME Typed, ControlOK, NEW t \in Procs, pc[t] \in Freeing
    PROVE  /\ Len(todo[t]) \in Nat \ {0}
           /\ \A i \in 1..Len(todo[t]) : todo[t][i] \in Checkpoints
           /\ Head(todo[t]) = todo[t][1] /\ 1 \in 1..Len(todo[t])
           /\ todo[t][1] \in Checkpoints
           /\ Tail(todo[t]) \in Seq(Checkpoints)
           /\ Len(Tail(todo[t])) = Len(todo[t]) - 1
           /\ \A i \in 1..Len(todo[t]) - 1 : Tail(todo[t])[i] = todo[t][i + 1]
<1>1. todo[t] \in Seq(Checkpoints) /\ todo[t] # <<>>
  BY DEF Typed, ControlOK
<1>2. PICK d : d = todo[t]
  OBVIOUS
<1>3. d \in Seq(Checkpoints) /\ d # <<>>
  BY <1>1, <1>2
<1>4. Len(d) \in Nat /\ Len(d) # 0
  BY <1>3, LenProperties, EmptySeq
<1>5. \A i \in 1..Len(d) : d[i] \in Checkpoints
  BY <1>3, ElementOfSeq
<1>6. 1 \in 1..Len(d)
  BY <1>4
<1>7. /\ Head(d) = d[1] /\ Tail(d) \in Seq(Checkpoints)
      /\ Len(Tail(d)) = Len(d) - 1
      /\ \A i \in 1..Len(d) - 1 : Tail(d)[i] = d[i + 1]
  BY <1>3, HeadTailProperties
<1>8. QED
  BY <1>2, <1>4, <1>5, <1>6, <1>7

\* A checkpoint in the hands of a thread is nowhere else.
Away(t, c) ==
    /\ c \in Checkpoints /\ c \in allocated /\ c \notin PoolEntries
    /\ ~Deferred(c) /\ ~Alive(c)
    /\ \A u \in Procs : InTransit(u, c) => u = t

LEMMA TransitAway ==
    ASSUME PlacesOK, NEW t \in Procs, NEW c \in Checkpoints, InTransit(t, c)
    PROVE  Away(t, c)
BY DEF PlacesOK, Away

LEMMA TodoAway ==
    ASSUME Typed, ControlOK, PlacesOK, NEW t \in Procs,
           pc[t] \in {"reap", "put", "free"}
    PROVE  InTransit(t, todo[t][1]) /\ Away(t, todo[t][1])
<1>1. 1 \in 1..Len(todo[t]) /\ todo[t][1] \in Checkpoints
  BY TodoIs DEF Freeing
<1>2. InTransit(t, todo[t][1])
  BY <1>1 DEF InTransit
<1>3. QED
  BY <1>1, <1>2, TransitAway

LEMMA FreshAway ==
    ASSUME Typed, ControlOK, PlacesOK, ListedOK, NEW t \in Threads,
           pc[t] \in Fresh
    PROVE  /\ InTransit(t, kickOut[t]) /\ Away(t, kickOut[t])
           /\ kickOut[t] \notin listed /\ refs[kickOut[t]] = 0
<1>1. kickOut[t] \in Checkpoints
  BY DEF Typed, ControlOK, ThreadOK, OptCheckpoint
<1>2. InTransit(t, kickOut[t])
  BY DEF InTransit, Fresh
<1>3. kickOut[t] \notin listed /\ refs[kickOut[t]] = 0
  BY <1>1 DEF ListedOK
<1>4. QED
  BY <1>1, <1>2, <1>3, TransitAway, ProcsAre

LEMMA CheckAway ==
    ASSUME Typed, ControlOK, PlacesOK, ListedOK, NEW t \in Threads,
           pc[t] = "check"
    PROVE  /\ InTransit(t, Head(drops[t])) /\ Away(t, Head(drops[t]))
           /\ Head(drops[t]) \in listed /\ refs[Head(drops[t])] = 0
<1>1. Head(drops[t]) \in Checkpoints
  BY DropsAre DEF Dropped
<1>2. InTransit(t, Head(drops[t]))
  BY DEF InTransit
<1>3. QED
  BY <1>1, <1>2, TransitAway, ProcsAre DEF ListedOK

\* The uses that the firmware has not been told of, as a set of threads.
Users(c) == {t \in Threads : Using(t, c)}

LEMMA UsersAre ==
    ASSUME Typed, UsesCount, NEW c \in Checkpoints
    PROVE  /\ Unkicked(c) = {<<t, 1>> : t \in Users(c)}
           /\ IsFiniteSet(Unkicked(c)) /\ Cardinality(Unkicked(c)) \in Nat
           /\ Outstanding(c) \in Nat
<1>1. \A t \in Threads : unkicked[t][c] = IF Using(t, c) THEN 1 ELSE 0
  BY DEF UsesCount
<1>2. ASSUME NEW x \in Unkicked(c) PROVE x \in {<<t, 1>> : t \in Users(c)}
  <2>1. PICK t \in Threads : x \in {t} \X (1..unkicked[t][c])
    BY DEF Unkicked
  <2>2. PICK i \in 1..unkicked[t][c] : x = <<t, i>>
    BY <2>1
  <2>3. Using(t, c) /\ i = 1
    <3>1. CASE Using(t, c)
      <4>1. unkicked[t][c] = 1
        BY <1>1, <3>1
      <4>2. i \in 1..1
        BY <4>1
      <4>3. QED
        BY <3>1, <4>2
    <3>2. CASE ~Using(t, c)
      <4>1. unkicked[t][c] = 0
        BY <1>1, <3>2
      <4>2. i \in 1..0
        BY <4>1
      <4>3. QED
        BY <4>2
    <3>3. QED
      BY <3>1, <3>2
  <2>4. QED
    BY <2>2, <2>3 DEF Users
<1>3. ASSUME NEW t \in Users(c) PROVE <<t, 1>> \in Unkicked(c)
  <2>1. t \in Threads /\ unkicked[t][c] = 1
    BY <1>1 DEF Users
  <2>2. <<t, 1>> \in {t} \X (1..unkicked[t][c])
    BY <2>1
  <2>3. QED
    BY <2>1, <2>2 DEF Unkicked
<1>4. Unkicked(c) = {<<t, 1>> : t \in Users(c)}
  BY <1>2, <1>3
<1>5. Unkicked(c) \in SUBSET (Threads \X {1})
  BY <1>4 DEF Users
<1>6. IsFiniteSet(Threads \X {1})
  BY ProcsAre, FS_Product, FS_Singleton
<1>7. IsFiniteSet(Unkicked(c)) /\ Cardinality(Unkicked(c)) \in Nat
  BY <1>5, <1>6, FS_Subset, FS_CardinalityType
<1>8. Outstanding(c) \in Nat
  BY <1>7 DEF Outstanding, Typed
<1>9. QED
  BY <1>4, <1>7, <1>8

LEMMA UserHolds ==
    ASSUME Typed, RefsCount, ListedOK, OutputsOK, NEW c \in Checkpoints,
           NEW t \in Threads, Using(t, c)
    PROVE  Held(c)
<1>1. CASE kickIn[t] = c
  BY <1>1, InputHolds, ProcsAre
<1>2. CASE kickOut[t] = c /\ pc[t] \in Submitted \cup {"rollback2"}
  BY <1>2, OutputHolds, ProcsAre DEF Owning, Submitted
<1>3. QED
  BY <1>1, <1>2 DEF Using

\* A checkpoint off the list has no use.
LEMMA UnlistedUnused ==
    ASSUME Typed, RefsCount, ListedOK, OutputsOK, UsesCount,
           NEW c \in Checkpoints, c \notin listed
    PROVE  /\ Outstanding(c) = 0 /\ inCCB[c] = 0 /\ refs[c] = 0
           /\ \A t \in Threads : ~Using(t, c)
           /\ HeldBy(c) = {}
<1>1. \A t \in Threads : ~Using(t, c)
  BY UserHolds DEF Held
<1>2. Unkicked(c) = {}
  BY <1>1, UsersAre DEF Users
<1>3. inCCB[c] = 0 /\ refs[c] = 0
  BY DEF ListedOK
<1>4. Outstanding(c) = 0
  BY <1>2, <1>3, FS_EmptySet DEF Outstanding
<1>5. HeldBy(c) = {}
  BY <1>3, FiniteHolders, FS_EmptySet DEF RefsCount
<1>6. QED
  BY <1>1, <1>3, <1>4, <1>5

\* What the firmware has serviced has no use.
LEMMA ServicedUnused ==
    ASSUME Typed, UsesCount, NEW c \in Checkpoints, c \in listed,
           enq[c] = fwRefs[c]
    PROVE  /\ Outstanding(c) = 0 /\ inCCB[c] = 0
           /\ \A t \in Threads : ~Using(t, c)
<1>1. /\ enq[c] \in Nat /\ inCCB[c] \in Nat /\ Cardinality(Unkicked(c)) \in Nat
      /\ fwRefs[c] \in Nat
      /\ enq[c] = fwRefs[c] + (inCCB[c] + Cardinality(Unkicked(c)))
  BY UsersAre DEF Typed, UsesCount, Outstanding
<1>2. inCCB[c] = 0 /\ Cardinality(Unkicked(c)) = 0
  BY <1>1
<1>3. Unkicked(c) = {}
  BY <1>2, UsersAre, FS_EmptySet
<1>4. ASSUME NEW t \in Threads, Using(t, c) PROVE FALSE
  <2>1. <<t, 1>> \in Unkicked(c)
    BY <1>4, UsersAre DEF Users
  <2>2. QED
    BY <1>3, <2>1
<1>5. QED
  BY <1>2, <1>4 DEF Outstanding

---------------------------------------------------------------------------
(* A step of one thread leaves the others where they are.                  *)

Alone(t) ==
    /\ \A u \in Procs : u # t => /\ pc'[u] = pc[u] /\ todo'[u] = todo[u]
                                 /\ phase'[u] = phase[u]
    /\ \A u \in Threads : u # t =>
          /\ kickIn'[u] = kickIn[u] /\ kickOut'[u] = kickOut[u]
          /\ drops'[u] = drops[u] /\ written'[u] = written[u]
          /\ unkicked'[u] = unkicked[u]

ThreadStep(t) == Kick(t) \/ FenceFree(t) \/ Unref(t) \/ CheckServiced(t)
                 \/ Leave(t)

LEMMA ThreadAlone ==
    ASSUME Typed, NEW t \in Threads, ThreadStep(t)
    PROVE  Alone(t) /\ UNCHANGED destroyed
<1> USE DEF Typed, Alone, Goto, ctxVars, poolVars, cpVars, fwVars, kickVars,
            workVars
<1>1. CASE KickResolve(t)
  BY <1>1, ProcsAre DEF KickResolve
<1>2. CASE KickWithoutOutput(t)
  BY <1>2, ProcsAre DEF KickWithoutOutput
<1>3. CASE GetFromPool(t)
  BY <1>3, ProcsAre DEF GetFromPool
<1>4. CASE PoolEmpty(t)
  BY <1>4, ProcsAre DEF PoolEmpty
<1>5. CASE AllocSyncCheckpoint(t)
  BY <1>5, ProcsAre DEF AllocSyncCheckpoint
<1>6. CASE CountCheckpoint(t)
  BY <1>6, ProcsAre DEF CountCheckpoint
<1>7. CASE AllocFails(t)
  BY <1>7, ProcsAre DEF AllocFails
<1>8. CASE Publish(t)
  BY <1>8, ProcsAre DEF Publish
<1>9. CASE AppendFences(t)
  BY <1>9, ProcsAre DEF AppendFences, AppendCheckpoint
<1>10. CASE AppendUpdate(t)
  BY <1>10, ProcsAre DEF AppendUpdate, AppendCheckpoint
<1>11. CASE AcquireFails(t)
  BY <1>11, ProcsAre DEF AcquireFails
<1>12. CASE WriteCommand(t)
  BY <1>12, ProcsAre DEF WriteCommand
<1>13. CASE Schedule(t)
  BY <1>13, ProcsAre DEF Schedule
<1>14. CASE RollbackFences(t)
  BY <1>14, ProcsAre DEF RollbackFences, RollbackFromUFO
<1>15. CASE RollbackUpdate(t)
  BY <1>15, ProcsAre DEF RollbackUpdate, RollbackFromUFO
<1>16. CASE AbandonKick(t)
  BY <1>16, ProcsAre DEF AbandonKick
<1>17. CASE FenceFree(t)
  BY <1>17, ProcsAre DEF FenceFree
<1>18. CASE Unref(t)
  BY <1>18, ProcsAre DEF Unref
<1>19. CASE CheckServiced(t)
  BY <1>19, ProcsAre DEF CheckServiced
<1>20. CASE Leave(t)
  BY <1>20, ProcsAre DEF Leave
<1>21. QED
  BY <1>1, <1>2, <1>3, <1>4, <1>5, <1>6, <1>7, <1>8, <1>9, <1>10, <1>11, <1>12, <1>13, <1>14, <1>15, <1>16, <1>17, <1>18, <1>19, <1>20 DEF ThreadStep, Kick

LEMMA FreeAlone ==
    ASSUME Typed, NEW t \in Procs, FreeStep(t)
    PROVE  Alone(t) /\ UNCHANGED destroyed
<1> USE DEF Typed, Alone, Goto, ctxVars, poolVars, cpVars, fwVars, kickVars,
            workVars
<1>1. CASE Reap(t)
  BY <1>1, ProcsAre DEF Reap
<1>2. CASE PutInPool(t)
  BY <1>2, ProcsAre DEF PutInPool, ItemDone
<1>3. CASE PoolFull(t)
  BY <1>3, ProcsAre DEF PoolFull
<1>4. CASE FreeCheckpoint(t)
  BY <1>4, ProcsAre DEF FreeCheckpoint
<1>5. CASE UncountCheckpoint(t)
  BY <1>5, ProcsAre DEF UncountCheckpoint, ItemDone
<1>6. CASE CheckDeferredCleanupList(t)
  BY <1>6, ProcsAre DEF CheckDeferredCleanupList
<1>7. QED
  BY <1>1, <1>2, <1>3, <1>4, <1>5, <1>6 DEF FreeStep

DestroyStep == DestroyBegin \/ CleanCheckpointPool \/ DestroyRefused
               \/ DestroyContext

LEMMA DestroyAlone ==
    ASSUME Typed, DestroyStep
    PROVE  Alone(Destroyer)
BY ProcsAre DEF DestroyStep, DestroyBegin, CleanCheckpointPool, DestroyRefused,
       DestroyContext, Typed, Alone, Goto, ctxVars, poolVars, cpVars, fwVars,
       kickVars, workVars

\* A step is one of a thread, of the destroyer or of the firmware.
LEMMA StepIs ==
    ASSUME [Next]_vars
    PROVE  \/ \E t \in Threads : ThreadStep(t)
           \/ \E t \in Procs : FreeStep(t)
           \/ DestroyStep
           \/ \E c \in Checkpoints : FirmwareProcesses(c)
           \/ UNCHANGED vars
BY DEF Next, ThreadStep, DestroyStep

---------------------------------------------------------------------------
(* The control state.                                                      *)

\* A thread and the checkpoints it frees are in step.
TodoControl(t) == todo[t] # <<>> <=> pc[t] \in Freeing

LEMMA OptSeqIs ==
    /\ \A c \in OptCheckpoint : OptSeq(c) \in Seq(Checkpoints)
    /\ OptSeq(NoCheckpoint) = <<>> /\ Len(OptSeq(NoCheckpoint)) = 0
    /\ \A c \in Checkpoints : /\ OptSeq(c) = <<c>> /\ OptSeq(c) # <<>>
                              /\ Len(OptSeq(c)) = 1 /\ OptSeq(c)[1] = c
BY ProcsAre DEF OptSeq, OptCheckpoint

\* The two references a failed kick drops.
LEMMA OptPair ==
    ASSUME NEW c \in OptCheckpoint, NEW d \in OptCheckpoint
    PROVE  /\ OptSeq(c) \o OptSeq(d) \in Seq(Checkpoints)
           /\ c = NoCheckpoint => OptSeq(c) \o OptSeq(d) = OptSeq(d)
           /\ d = NoCheckpoint => OptSeq(c) \o OptSeq(d) = OptSeq(c)
           /\ c # NoCheckpoint /\ d # NoCheckpoint =>
                 /\ Len(OptSeq(c) \o OptSeq(d)) = 2
                 /\ (OptSeq(c) \o OptSeq(d))[1] = c
                 /\ (OptSeq(c) \o OptSeq(d))[2] = d
           /\ Len(OptSeq(c) \o OptSeq(d)) <= 2
<1>1. OptSeq(c) \in Seq(Checkpoints) /\ OptSeq(d) \in Seq(Checkpoints)
  BY OptSeqIs
<1>2. c = NoCheckpoint => OptSeq(c) \o OptSeq(d) = OptSeq(d)
  BY <1>1, OptSeqIs, ConcatEmptySeq
<1>3. d = NoCheckpoint => OptSeq(c) \o OptSeq(d) = OptSeq(c)
  BY <1>1, OptSeqIs, ConcatEmptySeq
<1>4. PICK s, r : s = OptSeq(c) /\ r = OptSeq(d)
  OBVIOUS
<1>5. /\ s \o r \in Seq(Checkpoints)
      /\ Len(s \o r) = Len(s) + Len(r)
      /\ \A i \in 1..Len(s) + Len(r) :
            (s \o r)[i] = IF i <= Len(s) THEN s[i] ELSE r[i - Len(s)]
  BY <1>1, <1>4, ConcatProperties
<1>6. /\ c # NoCheckpoint => Len(s) = 1 /\ s[1] = c
      /\ d # NoCheckpoint => Len(r) = 1 /\ r[1] = d
      /\ c = NoCheckpoint => Len(s) = 0
      /\ d = NoCheckpoint => Len(r) = 0
  BY <1>4, OptSeqIs DEF OptCheckpoint
<1>7. ASSUME c # NoCheckpoint, d # NoCheckpoint
      PROVE  Len(s \o r) = 2 /\ (s \o r)[1] = c /\ (s \o r)[2] = d
  <2>1. Len(s) = 1 /\ Len(r) = 1 /\ s[1] = c /\ r[1] = d
    BY <1>6, <1>7
  <2>2. 1 \in 1..Len(s) + Len(r) /\ 2 \in 1..Len(s) + Len(r) /\ 2 - Len(s) = 1
    BY <2>1
  <2>3. QED
    BY <1>5, <2>1, <2>2
<1>8. Len(s \o r) <= 2
  BY <1>5, <1>6
<1>9. QED
  BY <1>2, <1>3, <1>4, <1>5, <1>7, <1>8

\* The first entry of the pool.
LEMMA PoolFirst ==
    ASSUME Typed, poolCount > 0
    PROVE  slots[rp] \in PoolEntries /\ slots[rp] \in Checkpoints
<1>1. rp \in 0..PoolSize - 1 /\ poolCount \in 0..PoolSize /\ PoolSize \in Nat
  BY SyncCheckpointAssumption DEF Typed
<1>2. 0 \in 0..poolCount - 1 /\ 0 \in 0..PoolSize /\ rp + 0 = rp
      /\ rp < PoolSize
  BY <1>1
<1>3. (rp + 0) % PoolSize = rp
  BY <1>1, <1>2, RingIs
<1>4. slots[rp] \in PoolEntries
  BY <1>2, <1>3 DEF PoolEntries
<1>5. QED
  BY <1>4 DEF Typed

\* The input of a kick is not a checkpoint that is still to be published.
LEMMA InputListed ==
    ASSUME Inv, NEW t \in Threads, NEW c \in Checkpoints, c \notin listed
    PROVE  kickIn[t] # c
BY InputHolds, ProcsAre DEF Inv, Held

LEMMA ThreadControl ==
    ASSUME Inv, NEW t \in Threads, ThreadStep(t)
    PROVE  /\ ThreadOK(t)' /\ TodoControl(t)'
           /\ Kicking(t)' => Kicking(t) \/ destroyed = "no"
<1> USE DEF Goto, ThreadOK, TodoControl, Kicking, Fresh, Owning, Submitted,
            Dropped, Freeing
<1>0. ThreadOK(t) /\ TodoControl(t) /\ t \in Procs 
      /\ DOMAIN pc = Procs /\ DOMAIN todo = Procs /\ DOMAIN phase = Procs
      /\ DOMAIN kickIn = Threads /\ DOMAIN kickOut = Threads
      /\ DOMAIN drops = Threads /\ DOMAIN written = Threads
      /\ kickIn[t] \in OptCheckpoint /\ kickOut[t] \in OptCheckpoint
  BY ProcsAre DEF ControlOK, Inv, Typed
<1>1. CASE KickResolve(t)
  BY <1>0, <1>1, ProcsAre DEF KickResolve, ctxVars, poolVars, cpVars, fwVars,
     kickVars, workVars
<1>2. CASE KickWithoutOutput(t)
  BY <1>0, <1>2, ProcsAre DEF KickWithoutOutput, ctxVars, poolVars, cpVars, fwVars,
     kickVars, workVars
<1>3. CASE GetFromPool(t)
  <2>1. slots[rp] \in Checkpoints /\ slots[rp] \notin listed
    BY <1>3, PoolFirst DEF GetFromPool, Inv, ListedOK
  <2>2. kickIn[t] # slots[rp]
    BY <2>1, InputListed
  <2>3. QED
    BY <1>0, <1>3, <2>1, <2>2, ProcsAre DEF GetFromPool, ctxVars, poolVars, cpVars,
        fwVars, kickVars, workVars
<1>4. CASE PoolEmpty(t)
  BY <1>0, <1>4, ProcsAre DEF PoolEmpty, ctxVars, poolVars, cpVars, fwVars,
     kickVars, workVars
<1>5. CASE AllocSyncCheckpoint(t)
  <2>1. PICK c \in Checkpoints :
            c \notin allocated /\ kickOut' = [kickOut EXCEPT ![t] = c]
    BY <1>5 DEF AllocSyncCheckpoint, RAAlloc
  <2>2. kickIn[t] # c
    BY <2>1, InputListed DEF Inv, ListedOK
  <2>3. QED
    BY <1>0, <1>5, <2>1, <2>2, ProcsAre DEF AllocSyncCheckpoint, ctxVars, poolVars, cpVars,
        fwVars, kickVars, workVars
<1>6. CASE CountCheckpoint(t)
  BY <1>0, <1>6, ProcsAre DEF CountCheckpoint, ctxVars, poolVars, cpVars, fwVars,
     kickVars, workVars
<1>7. CASE AllocFails(t)
  <2>1. /\ drops'[t] = OptSeq(kickIn[t]) /\ kickIn'[t] = NoCheckpoint
        /\ kickOut'[t] = kickOut[t] /\ kickOut[t] = NoCheckpoint
        /\ written'[t] = written[t] /\ phase'[t] = phase[t] /\ todo'[t] = todo[t]
        /\ pc'[t] = IF kickIn[t] = NoCheckpoint THEN "idle" ELSE "unref"
        /\ pc[t] = "alloc"
    BY <1>0, <1>7 DEF AllocFails, ctxVars, poolVars, cpVars, fwVars, kickVars
  <2>2. /\ kickIn[t] = NoCheckpoint => drops'[t] = <<>>
        /\ kickIn[t] # NoCheckpoint => drops'[t] # <<>>
        /\ Len(drops'[t]) <= 2
    <3>1. kickIn[t] = NoCheckpoint \/ kickIn[t] \in Checkpoints
      BY <1>0 DEF OptCheckpoint
    <3>2. Len(OptSeq(kickIn[t])) <= 2
      <4>1. 0 <= 2 /\ 1 <= 2
        OBVIOUS
      <4>2. QED
        BY <3>1, <4>1, OptSeqIs, Zenon
    <3>3. /\ kickIn[t] = NoCheckpoint => OptSeq(kickIn[t]) = <<>>
          /\ kickIn[t] # NoCheckpoint => OptSeq(kickIn[t]) # <<>>
      BY <3>1, OptSeqIs
    <3>4. QED
      BY <2>1, <3>2, <3>3
  <2>3. CASE kickIn[t] = NoCheckpoint
    BY <1>0, <2>1, <2>2, <2>3
  <2>4. CASE kickIn[t] # NoCheckpoint
    BY <1>0, <2>1, <2>2, <2>4
  <2>5. QED
    BY <2>3, <2>4
<1>8. CASE Publish(t)
  BY <1>0, <1>8, ProcsAre DEF Publish, ctxVars, poolVars, cpVars, fwVars,
     kickVars, workVars
<1>9. CASE AppendFences(t)
  BY <1>0, <1>9, ProcsAre DEF AppendFences, AppendCheckpoint, ctxVars, poolVars, cpVars, fwVars,
     kickVars, workVars
<1>10. CASE AppendUpdate(t)
  BY <1>0, <1>10, ProcsAre DEF AppendUpdate, AppendCheckpoint, ctxVars, poolVars, cpVars, fwVars,
     kickVars, workVars
<1>11. CASE AcquireFails(t)
  BY <1>0, <1>11, ProcsAre DEF AcquireFails, ctxVars, poolVars, cpVars, fwVars,
     kickVars, workVars
<1>12. CASE WriteCommand(t)
  BY <1>0, <1>12, ProcsAre DEF WriteCommand, ctxVars, poolVars, cpVars, fwVars,
     kickVars, workVars
<1>13. CASE Schedule(t)
  <2>1. /\ drops'[t] = OptSeq(kickIn[t]) /\ kickIn'[t] = NoCheckpoint
        /\ kickOut'[t] = NoCheckpoint
        /\ ~written'[t] /\ phase'[t] = phase[t] /\ todo'[t] = todo[t]
        /\ pc'[t] = IF kickIn[t] = NoCheckpoint THEN "idle" ELSE "unref"
        /\ pc[t] = "schedule"
    BY <1>0, <1>13 DEF Schedule, ctxVars, poolVars, cpVars, fwVars, kickVars
  <2>2. /\ kickIn[t] = NoCheckpoint => drops'[t] = <<>>
        /\ kickIn[t] # NoCheckpoint => drops'[t] # <<>>
        /\ Len(drops'[t]) <= 2
    <3>1. kickIn[t] = NoCheckpoint \/ kickIn[t] \in Checkpoints
      BY <1>0 DEF OptCheckpoint
    <3>2. Len(OptSeq(kickIn[t])) <= 2
      <4>1. 0 <= 2 /\ 1 <= 2
        OBVIOUS
      <4>2. QED
        BY <3>1, <4>1, OptSeqIs, Zenon
    <3>3. /\ kickIn[t] = NoCheckpoint => OptSeq(kickIn[t]) = <<>>
          /\ kickIn[t] # NoCheckpoint => OptSeq(kickIn[t]) # <<>>
      BY <3>1, OptSeqIs
    <3>4. QED
      BY <2>1, <3>2, <3>3
  <2>3. CASE kickIn[t] = NoCheckpoint
    BY <1>0, <2>1, <2>2, <2>3
  <2>4. CASE kickIn[t] # NoCheckpoint
    BY <1>0, <2>1, <2>2, <2>4
  <2>5. QED
    BY <2>3, <2>4
<1>14. CASE RollbackFences(t)
  BY <1>0, <1>14, ProcsAre DEF RollbackFences, RollbackFromUFO, ctxVars, poolVars, cpVars, fwVars,
     kickVars, workVars
<1>15. CASE RollbackUpdate(t)
  BY <1>0, <1>15, ProcsAre DEF RollbackUpdate, RollbackFromUFO, ctxVars, poolVars, cpVars, fwVars,
     kickVars, workVars
<1>16. CASE AbandonKick(t)
  <2>1. kickIn[t] \in OptCheckpoint /\ kickOut[t] \in OptCheckpoint
    BY <1>0
  <2>2. drops'[t] = OptSeq(kickOut[t]) \o OptSeq(kickIn[t])
    BY <1>0, <1>16 DEF AbandonKick
  <2>3. Len(drops'[t]) <= 2
    BY <2>1, <2>2, OptPair
  <2>4. QED
    BY <1>0, <1>16, <2>3, ProcsAre DEF AbandonKick, ctxVars, poolVars, cpVars,
        fwVars, kickVars, workVars
<1>17. CASE FenceFree(t)
  BY <1>0, <1>17, ProcsAre DEF FenceFree, ctxVars, poolVars, cpVars, fwVars,
     kickVars, workVars
<1>18. CASE Unref(t)
  BY <1>0, <1>18, ProcsAre DEF Unref, ctxVars, poolVars, cpVars, fwVars,
     kickVars, workVars
<1>19. CASE CheckServiced(t)
  <2>1. /\ UNCHANGED <<kickIn, kickOut, written, drops>> /\ pc[t] = "check"
        /\ \/ /\ pc'[t] = "reap" /\ todo'[t] = <<Head(drops[t])>>
              /\ phase'[t] = "direct"
           \/ pc'[t] = "deferred" /\ todo'[t] = todo[t] /\ phase'[t] = phase[t]
    BY <1>0, <1>19 DEF CheckServiced, fwVars, kickVars
  <2>2. \A c : <<c>> # <<>>
    OBVIOUS
  <2>3. QED
    BY <1>0, <2>1, <2>2
<1>20. CASE Leave(t)
  <2>1. Len(drops[t]) \in {1, 2} /\ Len(Tail(drops[t])) = Len(drops[t]) - 1
    BY <1>0, <1>20, DropsAre DEF Inv, Leave
  <2>2. drops'[t] = Tail(drops[t]) /\ Len(drops'[t]) <= 2
    BY <1>0, <1>20, <2>1 DEF Leave
  <2>3. QED
    BY <1>0, <1>20, <2>2, ProcsAre DEF Leave, ctxVars, poolVars, cpVars,
        fwVars, kickVars, workVars
<1>21. QED
  BY <1>1, <1>2, <1>3, <1>4, <1>5, <1>6, <1>7, <1>8, <1>9, <1>10, <1>11, <1>12, <1>13, <1>14, <1>15, <1>16, <1>17, <1>18, <1>19, <1>20 DEF ThreadStep, Kick

\* The control facts of a thread that frees checkpoints.
FreeFacts(t) ==
    /\ TodoControl(t)
    /\ pc[t] \in Freeing \cup {"leave", "deferred", "decide", "clean"}
    /\ pc[t] \in {"decide", "clean"} => t = Destroyer
    /\ pc[t] = "leave" => t # Destroyer
    /\ phase[t] = "pool" => pc[t] \in {"free", "uncount", "decide"}

LEMMA FreeControl ==
    ASSUME Inv, NEW t \in Procs, FreeStep(t)
    PROVE  /\ FreeFacts(t)'
           /\ phase'[t] = "pool" => phase[t] = "pool"
           /\ pc[t] \in Freeing \cup {"deferred"}
           /\ UNCHANGED <<drops, kickIn, kickOut, written>>
<1> USE DEF Goto, TodoControl, FreeFacts, Freeing
<1>0. /\ TodoControl(t)
      /\ DOMAIN pc = Procs /\ DOMAIN todo = Procs /\ DOMAIN phase = Procs
      /\ phase[t] = "pool" =>
            pc[t] \in {"free", "uncount", "decide", "done"} /\ t = Destroyer
      /\ phase[t] \in {"direct", "deferred", "pool"}
  BY ProcsAre DEF ControlOK, DestroyerOK, ThreadOK, Inv, Typed
<1>1. CASE Reap(t)
  BY <1>0, <1>1 DEF Reap, fwVars, kickVars, workVars
<1>2. ASSUME ItemDone(t), UNCHANGED <<phase, drops, kickVars, fwVars>>,
             pc[t] \in {"put", "uncount"}
      PROVE  /\ FreeFacts(t)'
             /\ phase'[t] = "pool" => phase[t] = "pool"
             /\ UNCHANGED <<drops, kickIn, kickOut, written>>
  <2>1. /\ todo'[t] = Tail(todo[t]) /\ phase'[t] = phase[t]
        /\ pc'[t] = AfterItem(t, Tail(todo[t]), phase[t])
    BY <1>0, <1>2 DEF ItemDone
  <2>2. CASE Tail(todo[t]) # <<>>
    <3>1. pc'[t] = IF phase[t] = "pool" THEN "free" ELSE "reap"
      BY <2>1, <2>2 DEF AfterItem
    <3>2. QED
      BY <1>0, <1>2, <2>1, <2>2, <3>1 DEF kickVars, fwVars
  <2>3. CASE Tail(todo[t]) = <<>>
    <3>1. /\ phase[t] = "direct" => pc'[t] = "deferred"
          /\ phase[t] = "pool" => pc'[t] = "decide"
          /\ phase[t] = "deferred" =>
                pc'[t] = IF t = Destroyer THEN "clean" ELSE "leave"
      BY <2>1, <2>3 DEF AfterItem
    <3>2. QED
      BY <1>0, <1>2, <2>1, <2>3, <3>1 DEF kickVars, fwVars
  <2>4. QED
    BY <2>2, <2>3
<1>3. CASE PutInPool(t)
  BY <1>2, <1>3 DEF PutInPool, kickVars
<1>4. CASE PoolFull(t)
  BY <1>0, <1>4 DEF PoolFull, fwVars, kickVars, workVars
<1>5. CASE FreeCheckpoint(t)
  BY <1>0, <1>5 DEF FreeCheckpoint, fwVars, kickVars, workVars
<1>6. CASE UncountCheckpoint(t)
  BY <1>2, <1>6 DEF UncountCheckpoint, kickVars
<1>7. CASE CheckDeferredCleanupList(t)
  <2>1. PICK r : r = Among(deferred, {c \in Checkpoints : Serviced(c)})
    OBVIOUS
  <2>2. /\ todo'[t] = r /\ phase'[t] = "deferred" /\ pc[t] = "deferred"
        /\ pc'[t] = AfterItem(t, r, "deferred")
        /\ UNCHANGED <<drops, kickIn, kickOut, written>>
    BY <1>0, <1>7, <2>1 DEF CheckDeferredCleanupList, kickVars, fwVars
  <2>3. pc'[t] = IF r # <<>> THEN "reap"
                 ELSE IF t = Destroyer THEN "clean" ELSE "leave"
    BY <2>2 DEF AfterItem
  <2>4. QED
    BY <2>2, <2>3
<1>8. QED
  BY <1>1, <1>3, <1>4, <1>5, <1>6, <1>7 DEF FreeStep

LEMMA DestroyControl ==
    ASSUME Inv, DestroyStep
    PROVE  DestroyerOK' /\ TodoControl(Destroyer)'
<1> USE DEF Goto, TodoControl, Freeing
<1>0. /\ DestroyerOK /\ TodoControl(Destroyer)
      /\ DOMAIN pc = Procs /\ DOMAIN todo = Procs /\ DOMAIN phase = Procs
      /\ Alone(Destroyer) /\ destroyed \in {"no", "begun", "failed", "ok"}
  BY ProcsAre, DestroyAlone DEF ControlOK, Inv, Typed
<1>1. \A t \in Threads : Kicking(t)' => Kicking(t)
  BY <1>0, ProcsAre DEF Alone, Kicking
<1>2. CASE DestroyBegin
  BY <1>0, <1>1, <1>2, ProcsAre DEF DestroyBegin, workVars, DestroyerOK
<1>3. CASE CleanCheckpointPool
  <2>1. PICK r : r = Pooled
    OBVIOUS
  <2>2. /\ todo'[Destroyer] = r /\ phase'[Destroyer] = "pool"
        /\ pc[Destroyer] = "clean" /\ UNCHANGED destroyed
        /\ pc'[Destroyer] = AfterItem(Destroyer, r, "pool")
    BY <1>0, <1>3, <2>1, ProcsAre DEF CleanCheckpointPool, Pooled
  <2>3. pc'[Destroyer] = IF r # <<>> THEN "free" ELSE "decide"
    BY <2>2 DEF AfterItem
  <2>4. QED
    BY <1>0, <1>1, <2>2, <2>3 DEF DestroyerOK
<1>4. CASE DestroyRefused
  BY <1>0, <1>1, <1>4, ProcsAre DEF DestroyRefused, workVars, DestroyerOK
<1>5. CASE DestroyContext
  BY <1>0, <1>1, <1>5, ProcsAre DEF DestroyContext, workVars, DestroyerOK
<1>6. QED
  BY <1>2, <1>3, <1>4, <1>5 DEF DestroyStep

\* What a step of another thread leaves of the control state.
LEMMA ThreadKept ==
    ASSUME NEW t, Alone(t), NEW u \in Threads, u # t, ThreadOK(u)
    PROVE  ThreadOK(u)' /\ (Kicking(u)' <=> Kicking(u))
BY ProcsAre DEF Alone, ThreadOK, Kicking

LEMMA ControlStep == Inv /\ [Next]_vars => ControlOK'
<1> SUFFICES ASSUME Inv, [Next]_vars PROVE ControlOK'
  OBVIOUS
<1>0. /\ \A t \in Threads : ThreadOK(t)
      /\ DestroyerOK /\ \A t \in Procs : TodoControl(t)
      /\ Typed
  BY DEF Inv, ControlOK, TodoControl
<1>1. ASSUME NEW t \in Threads, ThreadStep(t) PROVE ControlOK'
  <2>1. Alone(t) /\ UNCHANGED destroyed
    BY <1>0, <1>1, ThreadAlone
  <2>2. /\ ThreadOK(t)' /\ TodoControl(t)'
        /\ Kicking(t)' => Kicking(t) \/ destroyed = "no"
    BY <1>1, ThreadControl
  <2>3. \A u \in Threads : ThreadOK(u)' /\ (Kicking(u)' => Kicking(u)
                                             \/ destroyed = "no")
    BY <1>0, <2>1, <2>2, ThreadKept
  <2>4. \A u \in Procs : TodoControl(u)'
    BY <1>0, <2>1, <2>2 DEF Alone, TodoControl
  <2>5. DestroyerOK'
    BY <1>0, <2>1, <2>3, ProcsAre DEF Alone, DestroyerOK
  <2>6. QED
    BY <2>3, <2>4, <2>5 DEF ControlOK, TodoControl
<1>2. ASSUME NEW t \in Procs, FreeStep(t) PROVE ControlOK'
  <2>1. Alone(t) /\ UNCHANGED destroyed
    BY <1>0, <1>2, FreeAlone
  <2>2. /\ FreeFacts(t)'
        /\ phase'[t] = "pool" => phase[t] = "pool"
        /\ pc[t] \in Freeing \cup {"deferred"}
        /\ UNCHANGED <<drops, kickIn, kickOut, written>>
    BY <1>2, FreeControl
  <2>3. ASSUME t \in Threads PROVE ThreadOK(t)' /\ ~Kicking(t)'
    <3>1. ThreadOK(t) /\ t # Destroyer
      BY <1>0, <2>3, ProcsAre
    <3>2. QED
      BY <2>2, <3>1 DEF ThreadOK, FreeFacts, Kicking, Freeing, Dropped, Fresh,
                        Owning, Submitted
  <2>4. \A u \in Threads : ThreadOK(u)' /\ (Kicking(u)' => Kicking(u))
    BY <1>0, <2>1, <2>3, ThreadKept
  <2>5. \A u \in Procs : TodoControl(u)'
    BY <1>0, <2>1, <2>2 DEF Alone, TodoControl, FreeFacts
  <2>6. DestroyerOK'
    <3>1. CASE t = Destroyer
      BY <1>0, <2>1, <2>2, <2>4, <3>1 DEF FreeFacts, DestroyerOK, Freeing
    <3>2. CASE t # Destroyer
      BY <1>0, <2>1, <2>4, <3>2, ProcsAre DEF Alone, DestroyerOK
    <3>3. QED
      BY <3>1, <3>2
  <2>7. QED
    BY <2>4, <2>5, <2>6 DEF ControlOK, TodoControl
<1>3. ASSUME DestroyStep PROVE ControlOK'
  <2>1. Alone(Destroyer)
    BY <1>0, <1>3, DestroyAlone
  <2>2. DestroyerOK' /\ TodoControl(Destroyer)'
    BY <1>3, DestroyControl
  <2>3. \A u \in Threads : ThreadOK(u)'
    BY <1>0, <2>1, ThreadKept, ProcsAre
  <2>4. \A u \in Procs : TodoControl(u)'
    BY <1>0, <2>1, <2>2 DEF Alone, TodoControl
  <2>5. QED
    BY <2>2, <2>3, <2>4 DEF ControlOK, TodoControl
<1>4. ASSUME NEW c \in Checkpoints, FirmwareProcesses(c) PROVE ControlOK'
  BY <1>4 DEF FirmwareProcesses, Inv, ControlOK, ThreadOK, DestroyerOK,
              Kicking, kickVars, workVars
<1>5. ASSUME UNCHANGED vars PROVE ControlOK'
  BY <1>5 DEF vars, fwVars, Inv, ControlOK, ThreadOK, DestroyerOK, Kicking,
              kickVars, workVars
<1>6. QED
  BY <1>1, <1>2, <1>3, <1>4, <1>5, StepIs

---------------------------------------------------------------------------
(* The references.                                                         *)

\* Who holds what, apart for the fence and for the threads.
LEMMA HoldsIs ==
    /\ \A u \in Threads : \A k, c :
          /\ Holds(u, k, c) <=> ThreadHolds(u, k, c)
          /\ Holds(u, k, c)' <=> ThreadHolds(u, k, c)'
    /\ \A k, c : /\ Holds(Destroyer, k, c) <=> k = 1 /\ fence[c]
                 /\ Holds(Destroyer, k, c)' <=> k = 1 /\ fence'[c]
BY ProcsAre DEF Holds, ThreadHolds

LEMMA HeldSame ==
    ASSUME NEW c, \A t \in Procs, k \in {1, 2} :
                     Holds(t, k, c)' <=> Holds(t, k, c)
    PROVE  HeldBy(c)' = HeldBy(c)
BY DEF HeldBy

LEMMA HeldMore ==
    ASSUME NEW c, NEW u \in Procs, NEW m \in {1, 2},
           \A t \in Procs, k \in {1, 2} :
              Holds(t, k, c)' <=> Holds(t, k, c) \/ (t = u /\ k = m)
    PROVE  HeldBy(c)' = HeldBy(c) \cup {<<u, m>>}
BY DEF HeldBy

LEMMA HeldLess ==
    ASSUME NEW c, NEW u \in Procs, NEW m \in {1, 2},
           \A t \in Procs, k \in {1, 2} :
              Holds(t, k, c)' <=> Holds(t, k, c) /\ ~(t = u /\ k = m)
    PROVE  HeldBy(c)' = HeldBy(c) \ {<<u, m>>}
BY DEF HeldBy

\* What a step of t leaves of the holdings of the others.
LEMMA OthersHold ==
    ASSUME NEW t, Alone(t), NEW u \in Threads, u # t, NEW k, NEW c
    PROVE  ThreadHolds(u, k, c)' <=> ThreadHolds(u, k, c)
BY ProcsAre DEF Alone, ThreadHolds

\* A step that moves no reference.
LEMMA RefsKept ==
    ASSUME Inv, UNCHANGED <<refs, fence, kickIn, drops>>,
           \A u \in Threads : drops[u] # <<>> =>
                                 (pc'[u] = "unref" <=> pc[u] = "unref")
    PROVE  RefsCount'
<1>1. ASSUME NEW c \in Checkpoints PROVE HeldBy(c)' = HeldBy(c)
  <2>1. ASSUME NEW u \in Threads, NEW k \in {1, 2}
        PROVE  ThreadHolds(u, k, c)' <=> ThreadHolds(u, k, c)
    <3>1. CASE drops[u] = <<>>
      <4>1. ~(k <= Len(drops[u]))
        BY <3>1
      <4>2. QED
        BY <4>1 DEF ThreadHolds
    <3>2. CASE drops[u] # <<>>
      BY <3>2 DEF ThreadHolds
    <3>3. QED
      BY <3>1, <3>2
  <2>2. \A u \in Procs, k \in {1, 2} : Holds(u, k, c)' <=> Holds(u, k, c)
    BY <2>1 DEF Holds, ThreadHolds
  <2>3. QED
    BY <2>2, HeldSame
<1>2. QED
  BY <1>1 DEF RefsCount, Inv

\* The reference of t that becomes one to drop, or the other way round.
LEMMA RefsMoved ==
    ASSUME Inv, NEW t \in Threads, Alone(t), UNCHANGED <<refs, fence>>,
           \A k \in {1, 2}, c \in Checkpoints :
              ThreadHolds(t, k, c)' <=> ThreadHolds(t, k, c)
    PROVE  RefsCount'
<1>1. ASSUME NEW c \in Checkpoints PROVE HeldBy(c)' = HeldBy(c)
  <2>1. \A u \in Threads, k \in {1, 2} :
           ThreadHolds(u, k, c)' <=> ThreadHolds(u, k, c)
    BY OthersHold
  <2>2. \A u \in Threads, k \in {1, 2} : Holds(u, k, c)' <=> Holds(u, k, c)
    BY <2>1, HoldsIs
  <2>3. \A k \in {1, 2} : Holds(Destroyer, k, c)' <=> Holds(Destroyer, k, c)
    BY HoldsIs
  <2>4. \A u \in Procs, k \in {1, 2} : Holds(u, k, c)' <=> Holds(u, k, c)
    BY <2>2, <2>3, ProcsAre
  <2>5. QED
    BY <2>4, HeldSame
<1>2. QED
  BY <1>1 DEF RefsCount, Inv

LEMMA InvThread ==
    ASSUME Inv, NEW t \in Threads
    PROVE  /\ ThreadOK(t) /\ t \in Procs /\ t # Destroyer
           /\ DOMAIN pc = Procs /\ DOMAIN kickIn = Threads
           /\ DOMAIN kickOut = Threads /\ DOMAIN drops = Threads
           /\ DOMAIN refs = Checkpoints /\ DOMAIN fence = Checkpoints
           /\ kickIn[t] \in OptCheckpoint /\ kickOut[t] \in OptCheckpoint
           /\ drops[t] \in Seq(Checkpoints)
BY ProcsAre DEF Inv, Typed, ControlOK

LEMMA RefsResolve ==
    ASSUME Inv, NEW t \in Threads, KickResolve(t)
    PROVE  RefsCount'
<1>1. /\ ThreadOK(t) /\ t \in Procs /\ t # Destroyer
      /\ DOMAIN pc = Procs /\ DOMAIN kickIn = Threads
      /\ DOMAIN refs = Checkpoints
  BY InvThread
<1>2. PICK c \in OptCheckpoint :
         /\ kickIn' = [kickIn EXCEPT ![t] = c]
         /\ refs' = IF c = NoCheckpoint THEN refs
                                        ELSE [refs EXCEPT ![c] = @ + 1]
  BY DEF KickResolve, OptCheckpoint
<1>3. /\ pc[t] = "idle" /\ pc'[t] = "create" /\ kickIn[t] = NoCheckpoint
      /\ drops[t] = <<>> /\ UNCHANGED <<drops, fence>>
  BY <1>1 DEF KickResolve, Goto, ThreadOK, Kicking, Dropped, Freeing, workVars
<1>4. Alone(t)
  BY ThreadAlone DEF ThreadStep, Kick, Inv
<1>5. \A k \in {1, 2} : ~(k <= Len(drops[t]))
  BY <1>3
<1>6. kickIn'[t] = c
  BY <1>1, <1>2
<1>7. ASSUME NEW d \in Checkpoints, NEW k \in {1, 2}
      PROVE  /\ ~ThreadHolds(t, k, d)
             /\ ThreadHolds(t, k, d)' <=> k = 1 /\ c = d
  BY <1>3, <1>5, <1>6, ProcsAre DEF ThreadHolds
<1>8. ASSUME NEW d \in Checkpoints
      PROVE  /\ d # c => HeldBy(d)' = HeldBy(d)
             /\ d = c => /\ HeldBy(d)' = HeldBy(d) \cup {<<t, 1>>}
                         /\ <<t, 1>> \notin HeldBy(d)
  <2>1. \A u \in Procs, k \in {1, 2} : Holds(u, k, d)' <=>
           Holds(u, k, d) \/ (u = t /\ k = 1 /\ d = c)
    <3>1. ASSUME NEW u \in Threads, u # t, NEW k \in {1, 2}
          PROVE  Holds(u, k, d)' <=> Holds(u, k, d)
      BY <1>4, <3>1, OthersHold, HoldsIs
    <3>2. \A k \in {1, 2} : Holds(t, k, d)' <=> k = 1 /\ c = d
      BY <1>7, HoldsIs
    <3>3. \A k \in {1, 2} : ~Holds(t, k, d)
      BY <1>7, HoldsIs
    <3>4. \A k \in {1, 2} : Holds(Destroyer, k, d)' <=> Holds(Destroyer, k, d)
      BY <1>3, HoldsIs
    <3>5. QED
      BY <1>1, <3>1, <3>2, <3>3, <3>4, ProcsAre
  <2>2. d # c => HeldBy(d)' = HeldBy(d)
    BY <2>1, HeldSame
  <2>3. d = c => HeldBy(d)' = HeldBy(d) \cup {<<t, 1>>}
    BY <1>1, <2>1, HeldMore
  <2>4. <<t, 1>> \notin HeldBy(d)
    BY <1>1, <1>7 DEF HeldBy, Holds
  <2>5. QED
    BY <2>2, <2>3, <2>4
<1>9. ASSUME NEW d \in Checkpoints PROVE refs'[d] = Cardinality(HeldBy(d)')
  <2>1. refs[d] = Cardinality(HeldBy(d))
    BY DEF Inv, RefsCount
  <2>2. CASE d = c
    <3>1. refs'[d] = refs[d] + 1
      BY <1>1, <1>2, <2>2, ProcsAre
    <3>2. Cardinality(HeldBy(d)') = Cardinality(HeldBy(d)) + 1
      BY <1>8, <2>2, FiniteHolders, OneMore
    <3>3. QED
      BY <2>1, <3>1, <3>2
  <2>3. CASE d # c
    BY <1>1, <1>2, <1>8, <2>1, <2>3
  <2>4. QED
    BY <2>2, <2>3
<1>10. QED
  BY <1>9 DEF RefsCount

LEMMA RefsPublish ==
    ASSUME Inv, NEW t \in Threads, Publish(t)
    PROVE  RefsCount'
<1>1. /\ ThreadOK(t) /\ t \in Procs /\ t # Destroyer
      /\ DOMAIN pc = Procs /\ DOMAIN fence = Checkpoints
      /\ DOMAIN refs = Checkpoints
  BY InvThread
<1>2. PICK c : c = kickOut[t]
  OBVIOUS
<1>3. /\ pc[t] = "publish" /\ pc'[t] = "fences"
      /\ refs' = [refs EXCEPT ![c] = 1] /\ fence' = [fence EXCEPT ![c] = TRUE]
      /\ UNCHANGED <<kickIn, drops>> /\ drops[t] = <<>>
  BY <1>1, <1>2 DEF Publish, Goto, ThreadOK, Dropped, Freeing, kickVars,
                    workVars
<1>4. c \in Checkpoints /\ c \notin listed
  BY <1>2, <1>3, FreshAway DEF Inv, Fresh, Away
<1>5. HeldBy(c) = {} /\ ~fence[c]
  <2>1. HeldBy(c) = {}
    BY <1>4, UnlistedUnused DEF Inv
  <2>2. ~Holds(Destroyer, 1, c)
    BY <2>1, HolderIs, ProcsAre
  <2>3. QED
    BY <2>1, <2>2 DEF Holds
<1>6. Alone(t)
  BY ThreadAlone DEF ThreadStep, Kick, Inv
<1>7. ASSUME NEW d \in Checkpoints, NEW u \in Threads, NEW k \in {1, 2}
      PROVE  ThreadHolds(u, k, d)' <=> ThreadHolds(u, k, d)
  <2>1. CASE u = t
    <3>1. ~(k <= Len(drops[t]))
      BY <1>3
    <3>2. QED
      BY <1>3, <2>1, <3>1 DEF ThreadHolds
  <2>2. CASE u # t
    BY <1>6, <2>2, OthersHold
  <2>3. QED
    BY <2>1, <2>2
<1>8. ASSUME NEW d \in Checkpoints, d # c PROVE refs'[d] = Cardinality(HeldBy(d)')
  <2>1. fence'[d] = fence[d] /\ refs'[d] = refs[d]
    BY <1>1, <1>3, <1>4, <1>8
  <2>2. \A u \in Procs, k \in {1, 2} : Holds(u, k, d)' <=> Holds(u, k, d)
    BY <1>7, <2>1 DEF Holds, ThreadHolds
  <2>3. HeldBy(d)' = HeldBy(d)
    BY <2>2, HeldSame
  <2>4. QED
    BY <2>1, <2>3 DEF Inv, RefsCount
<1>9. refs'[c] = Cardinality(HeldBy(c)')
  <2>1. refs'[c] = 1 /\ fence'[c]
    BY <1>1, <1>3, <1>4
  <2>2. \A u \in Procs, k \in {1, 2} : Holds(u, k, c)' <=>
           Holds(u, k, c) \/ (u = Destroyer /\ k = 1)
    <3>1. \A u \in Threads, k \in {1, 2} : Holds(u, k, c)' <=> Holds(u, k, c)
      BY <1>4, <1>7, HoldsIs
    <3>2. \A k \in {1, 2} : ~Holds(Destroyer, k, c)
                           /\ (Holds(Destroyer, k, c)' <=> k = 1)
      BY <1>5, <2>1, HoldsIs
    <3>3. QED
      BY <3>1, <3>2, ProcsAre
  <2>3. HeldBy(c)' = {<<Destroyer, 1>>}
    BY <1>5, <2>2, HeldMore, ProcsAre
  <2>4. QED
    BY <2>1, <2>3, FS_Singleton
<1>10. QED
  BY <1>4, <1>8, <1>9 DEF RefsCount

\* An input that is dropped at the end of a kick keeps its token.
LEMMA RefsInputDropped ==
    ASSUME Inv, NEW t \in Threads, Alone(t), UNCHANGED <<refs, fence>>,
           drops[t] = <<>>, kickIn'[t] = NoCheckpoint,
           drops'[t] = OptSeq(kickIn[t]),
           kickIn[t] # NoCheckpoint => pc'[t] = "unref"
    PROVE  RefsCount'
<1>1. kickIn[t] \in OptCheckpoint /\ NoCheckpoint \notin Checkpoints
  BY InvThread, ProcsAre
<1>2. \A k \in {1, 2} : ~(k <= Len(drops[t]))
  OBVIOUS
<1>3. ASSUME NEW k \in {1, 2}, NEW c \in Checkpoints
      PROVE  ThreadHolds(t, k, c)' <=> ThreadHolds(t, k, c)
  <2>1. ThreadHolds(t, k, c) <=> k = 1 /\ kickIn[t] = c
    BY <1>2 DEF ThreadHolds
  <2>2. ThreadHolds(t, k, c)' <=>
           /\ k <= Len(drops'[t])
           /\ drops'[t][Len(drops'[t]) + 1 - k] = c
           /\ k = Len(drops'[t]) => pc'[t] = "unref"
    BY <1>1 DEF ThreadHolds
  <2>3. CASE kickIn[t] = NoCheckpoint
    <3>1. drops'[t] = <<>>
      BY <2>3, OptSeqIs
    <3>2. ~(k <= Len(drops'[t]))
      BY <3>1
    <3>3. QED
      BY <1>1, <2>1, <2>2, <2>3, <3>2
  <2>4. CASE kickIn[t] # NoCheckpoint
    <3>1. PICK d, n : d = drops'[t] /\ n = Len(drops'[t])
      OBVIOUS
    <3>2. n = 1 /\ d[1] = kickIn[t] /\ pc'[t] = "unref"
      BY <1>1, <2>4, <3>1, OptSeqIs DEF OptCheckpoint
    <3>3. ThreadHolds(t, k, c)' <=> k <= 1 /\ d[1 + 1 - k] = c
      BY <2>2, <3>1, <3>2
    <3>4. k <= 1 <=> k = 1
      OBVIOUS
    <3>5. 1 + 1 - 1 = 1
      OBVIOUS
    <3>6. ThreadHolds(t, k, c)' <=> k = 1 /\ d[1] = c
      BY <3>3, <3>4, <3>5
    <3>7. QED
      BY <2>1, <3>2, <3>6
  <2>5. QED
    BY <2>3, <2>4
<1>4. QED
  BY <1>3, RefsMoved

LEMMA RefsAllocFails ==
    ASSUME Inv, NEW t \in Threads, AllocFails(t)
    PROVE  RefsCount'
<1>1. /\ Alone(t) /\ UNCHANGED <<refs, fence>>
      /\ drops[t] = <<>> /\ kickIn'[t] = NoCheckpoint
      /\ drops'[t] = OptSeq(kickIn[t])
      /\ kickIn[t] # NoCheckpoint => pc'[t] = "unref"
  BY InvThread, ThreadAlone DEF AllocFails, ThreadStep, Kick, Goto, ThreadOK,
     Dropped, Freeing, Inv, cpVars
<1>2. QED
  BY <1>1, RefsInputDropped

LEMMA RefsSchedule ==
    ASSUME Inv, NEW t \in Threads, Schedule(t)
    PROVE  RefsCount'
<1>1. /\ Alone(t) /\ UNCHANGED <<refs, fence>>
      /\ drops[t] = <<>> /\ kickIn'[t] = NoCheckpoint
      /\ drops'[t] = OptSeq(kickIn[t])
      /\ kickIn[t] # NoCheckpoint => pc'[t] = "unref"
  BY InvThread, ThreadAlone DEF Schedule, ThreadStep, Kick, Goto, ThreadOK,
     Dropped, Freeing, Inv, cpVars
<1>2. QED
  BY <1>1, RefsInputDropped

\* A fence gives its reference up to the thread that closes it.
LEMMA RefsClosed ==
    ASSUME Inv, NEW t \in Threads, Alone(t), UNCHANGED refs,
           NEW o \in Checkpoints, fence[o], fence' = [fence EXCEPT ![o] = FALSE],
           NEW m \in {1, 2},
           \A k \in {1, 2}, c \in Checkpoints :
              ThreadHolds(t, k, c)' <=> ThreadHolds(t, k, c) \/ (k = m /\ c = o),
           ~ThreadHolds(t, m, o)
    PROVE  RefsCount'
<1>1. t \in Procs /\ t # Destroyer /\ DOMAIN fence = Checkpoints
  BY InvThread
<1>2. ASSUME NEW c \in Checkpoints, c # o PROVE HeldBy(c)' = HeldBy(c)
  <2>1. fence'[c] = fence[c]
    BY <1>1, <1>2
  <2>2. \A k \in {1, 2} : Holds(Destroyer, k, c)' <=> Holds(Destroyer, k, c)
    BY <2>1, HoldsIs
  <2>3. \A k \in {1, 2} : Holds(t, k, c)' <=> Holds(t, k, c)
    BY <1>2, HoldsIs
  <2>4. \A u \in Threads, k \in {1, 2} : u # t =>
           (Holds(u, k, c)' <=> Holds(u, k, c))
    BY OthersHold, HoldsIs
  <2>5. QED
    BY <2>2, <2>3, <2>4, HeldSame, ProcsAre
<1>3. HeldBy(o)' = (HeldBy(o) \ {<<Destroyer, 1>>}) \cup {<<t, m>>}
  <2>1. ~fence'[o]
    BY <1>1
  <2>2. \A k \in {1, 2} : ~Holds(Destroyer, k, o)'
    BY <2>1, HoldsIs
  <2>3. \A k \in {1, 2} : Holds(Destroyer, k, o) => k = 1
    BY HoldsIs
  <2>4. \A k \in {1, 2} : Holds(t, k, o)' <=> Holds(t, k, o) \/ k = m
    BY HoldsIs
  <2>5. \A u \in Threads, k \in {1, 2} : u # t =>
           (Holds(u, k, o)' <=> Holds(u, k, o))
    BY OthersHold, HoldsIs
  <2>6. \A u \in Procs, k \in {1, 2} : Holds(u, k, o)' <=>
           (Holds(u, k, o) /\ ~(u = Destroyer /\ k = 1)) \/ (u = t /\ k = m)
    BY <1>1, <2>2, <2>3, <2>4, <2>5, ProcsAre
  <2>7. HeldBy(o)' = {h \in Procs \X {1, 2} :
           (Holds(h[1], h[2], o) /\ ~(h[1] = Destroyer /\ h[2] = 1))
           \/ (h[1] = t /\ h[2] = m)}
    BY <2>6 DEF HeldBy
  <2>8. QED
    BY <1>1, <2>7 DEF HeldBy
<1>4. <<Destroyer, 1>> \in HeldBy(o) /\ <<t, m>> \notin HeldBy(o)
  <2>1. Holds(Destroyer, 1, o) /\ ~Holds(t, m, o)
    BY HoldsIs
  <2>2. QED
    BY <1>1, <2>1, HolderIs, ProcsAre
<1>5. Cardinality(HeldBy(o)') = Cardinality(HeldBy(o))
  BY <1>3, <1>4, FiniteHolders, Exchanged
<1>6. QED
  BY <1>2, <1>5 DEF Inv, RefsCount

LEMMA RefsFenceFree ==
    ASSUME Inv, NEW t \in Threads, FenceFree(t)
    PROVE  RefsCount'
<1>1. PICK o \in Checkpoints : /\ fence[o] /\ fence' = [fence EXCEPT ![o] = FALSE]
                               /\ drops' = [drops EXCEPT ![t] = <<o>>]
  BY DEF FenceFree, OpenFence
<1>2. /\ Alone(t) /\ UNCHANGED <<refs, kickIn>> /\ drops[t] = <<>>
      /\ kickIn[t] = NoCheckpoint /\ pc'[t] = "unref" /\ drops'[t] = <<o>>
  BY <1>1, InvThread, ThreadAlone DEF FenceFree, ThreadStep, Goto, ThreadOK,
     Kicking, Dropped, Freeing, Inv, kickVars
<1>3. \A k \in {1, 2} : ~(k <= Len(drops[t]))
  BY <1>2
<1>4. \A k \in {1, 2}, c \in Checkpoints : ~ThreadHolds(t, k, c)
  BY <1>2, <1>3, ProcsAre DEF ThreadHolds
<1>5. ASSUME NEW k \in {1, 2}, NEW c \in Checkpoints
      PROVE  ThreadHolds(t, k, c)' <=> k = 1 /\ c = o
  <2>1. ThreadHolds(t, k, c)' <=> k <= Len(<<o>>) /\ <<o>>[Len(<<o>>) + 1 - k] = c
    BY <1>2, ProcsAre DEF ThreadHolds
  <2>2. QED
    BY <2>1
<1>6. \A k \in {1, 2}, c \in Checkpoints :
         ThreadHolds(t, k, c)' <=> ThreadHolds(t, k, c) \/ (k = 1 /\ c = o)
  BY <1>4, <1>5
<1>7. ~ThreadHolds(t, 1, o)
  BY <1>4
<1>8. QED
  BY <1>1, <1>2, <1>6, <1>7, RefsClosed

LEMMA RefsAbandon ==
    ASSUME Inv, NEW t \in Threads, AbandonKick(t)
    PROVE  RefsCount'
<1>1. /\ ThreadOK(t) /\ DOMAIN pc = Procs /\ DOMAIN drops = Threads
      /\ DOMAIN kickIn = Threads /\ t \in Procs
      /\ kickIn[t] \in OptCheckpoint /\ kickOut[t] \in OptCheckpoint
  BY InvThread
<1>2. PICK in, o : in = kickIn[t] /\ o = kickOut[t]
  OBVIOUS
<1>3. /\ pc[t] = "abandon" /\ UNCHANGED refs /\ kickIn'[t] = NoCheckpoint
      /\ fence' = IF o = NoCheckpoint THEN fence ELSE [fence EXCEPT ![o] = FALSE]
      /\ drops'[t] = OptSeq(o) \o OptSeq(in)
      /\ drops'[t] # <<>> => pc'[t] = "unref"
  BY <1>1, <1>2 DEF AbandonKick, Goto
<1>4. Alone(t) /\ drops[t] = <<>>
  BY <1>1, <1>3, ThreadAlone DEF ThreadStep, Kick, Inv, ThreadOK, Dropped,
     Freeing
<1>5. CASE o = NoCheckpoint
  <2>1. drops'[t] = OptSeq(kickIn[t])
    BY <1>1, <1>2, <1>3, <1>5, OptPair
  <2>2. kickIn[t] # NoCheckpoint => pc'[t] = "unref"
    BY <1>1, <1>3, <2>1, OptSeqIs DEF OptCheckpoint
  <2>3. QED
    BY <1>3, <1>4, <1>5, <2>1, <2>2, RefsInputDropped
<1>6. CASE o # NoCheckpoint
  <2>1. o \in Checkpoints /\ fence[o] /\ in # o
    BY <1>1, <1>2, <1>3, <1>6 DEF OptCheckpoint, ThreadOK, Inv, OutputsOK, Owning
  <2>2. fence' = [fence EXCEPT ![o] = FALSE]
    BY <1>3, <1>6
  <2>3. \A k \in {1, 2} : ~(k <= Len(drops[t]))
    BY <1>4
  <2>4. \A k \in {1, 2}, c \in Checkpoints :
           ThreadHolds(t, k, c) <=> k = 1 /\ in = c
    BY <1>2, <2>3 DEF ThreadHolds
  <2>5. PICK d, n : d = drops'[t] /\ n = Len(d)
    OBVIOUS
  <2>6. CASE in = NoCheckpoint
    <3>1. d = OptSeq(o)
      BY <1>1, <1>2, <1>3, <2>5, <2>6, OptPair
    <3>2. n = 1 /\ d[1] = o /\ d # <<>>
      BY <2>1, <2>5, <3>1, OptSeqIs
    <3>3. pc'[t] = "unref"
      BY <1>3, <2>5, <3>2
    <3>4. ASSUME NEW k \in {1, 2}, NEW c \in Checkpoints
          PROVE  ThreadHolds(t, k, c)' <=> k = 1 /\ c = o
      <4>1. ThreadHolds(t, k, c)' <=> k <= 1 /\ d[1 + 1 - k] = c
        BY <1>3, <2>5, <3>2, <3>3, ProcsAre DEF ThreadHolds
      <4>2. CASE k = 1
        BY <3>2, <4>1, <4>2
      <4>3. CASE k = 2
        BY <4>1, <4>3
      <4>4. QED
        BY <4>2, <4>3
    <3>5. \A k \in {1, 2}, c \in Checkpoints : ~ThreadHolds(t, k, c)
      BY <2>4, <2>6, ProcsAre
    <3>6. \A k \in {1, 2}, c \in Checkpoints :
             ThreadHolds(t, k, c)' <=> ThreadHolds(t, k, c) \/ (k = 1 /\ c = o)
      BY <3>4, <3>5
    <3>7. ~ThreadHolds(t, 1, o)
      BY <2>1, <3>5
    <3>8. QED
      BY <1>3, <1>4, <2>1, <2>2, <3>6, <3>7, RefsClosed
  <2>7. CASE in # NoCheckpoint
    <3>1. n = 2 /\ d[1] = o /\ d[2] = in
      BY <1>1, <1>2, <1>3, <1>6, <2>5, <2>7, OptPair
    <3>2. pc'[t] = "unref"
      <4>1. d # <<>>
        <5>1. d \in Seq(Checkpoints) /\ n = Len(d)
          BY <1>1, <1>2, <1>3, <2>5, OptPair
        <5>2. QED
          BY <3>1, <5>1, EmptySeq
      <4>2. QED
        BY <1>3, <2>5, <4>1
    <3>3. ASSUME NEW k \in {1, 2}, NEW c \in Checkpoints
          PROVE  ThreadHolds(t, k, c)' <=>
                    ThreadHolds(t, k, c) \/ (k = 2 /\ c = o)
      <4>1. ThreadHolds(t, k, c)' <=> k <= 2 /\ d[2 + 1 - k] = c
        BY <1>3, <2>5, <3>1, <3>2, ProcsAre DEF ThreadHolds
      <4>2. CASE k = 1
        <5>1. 1 <= 2 /\ 2 + 1 - 1 = 2
          OBVIOUS
        <5>2. QED
          BY <2>4, <3>1, <4>1, <4>2, <5>1
      <4>3. CASE k = 2
        <5>1. 2 <= 2 /\ 2 + 1 - 2 = 1 /\ 2 # 1
          OBVIOUS
        <5>2. QED
          BY <2>4, <3>1, <4>1, <4>3, <5>1
      <4>4. QED
        BY <4>2, <4>3
    <3>4. ~ThreadHolds(t, 2, o)
      BY <2>1, <2>4
    <3>5. QED
      BY <1>3, <1>4, <2>1, <2>2, <3>3, <3>4, RefsClosed
  <2>8. QED
    BY <2>6, <2>7
<1>7. QED
  BY <1>5, <1>6

LEMMA RefsUnref ==
    ASSUME Inv, NEW t \in Threads, Unref(t)
    PROVE  RefsCount'
<1>1. /\ t \in Procs /\ t # Destroyer /\ DOMAIN pc = Procs
      /\ DOMAIN refs = Checkpoints
  BY InvThread
<1>2. PICK d, n, c : d = drops[t] /\ n = Len(drops[t]) /\ c = Head(drops[t])
  OBVIOUS
<1>3. /\ pc[t] = "unref" /\ UNCHANGED <<fence, kickIn, drops>>
      /\ refs' = [refs EXCEPT ![c] = @ - 1] /\ pc'[t] \in {"check", "deferred"}
  BY <1>1, <1>2 DEF Unref, Goto, cpVars, kickVars, workVars
<1>4. n \in {1, 2} /\ c = d[1] /\ c \in Checkpoints
  BY <1>2, <1>3, DropsAre DEF Inv
<1>5. kickIn[t] = NoCheckpoint
  BY <1>3, InvThread DEF ThreadOK, Kicking
<1>6. Alone(t)
  BY ThreadAlone DEF ThreadStep, Inv
<1>7. ASSUME NEW k \in {1, 2}, NEW b \in Checkpoints
      PROVE  ThreadHolds(t, k, b)' <=> ThreadHolds(t, k, b) /\ ~(k = n /\ b = c)
  <2>1. /\ ThreadHolds(t, k, b) <=> k <= n /\ d[n + 1 - k] = b
        /\ ThreadHolds(t, k, b)' <=> k <= n /\ d[n + 1 - k] = b /\ k # n
    BY <1>2, <1>3, <1>5, ProcsAre DEF ThreadHolds
  <2>2. k = n => n + 1 - k = 1
    BY <1>4
  <2>3. QED
    BY <1>4, <2>1, <2>2
<1>8. ASSUME NEW b \in Checkpoints, NEW u \in Procs, NEW k \in {1, 2}
      PROVE  Holds(u, k, b)' <=> Holds(u, k, b) /\ ~(u = t /\ k = n /\ b = c)
  <2>1. CASE u = t
    BY <1>7, <2>1, HoldsIs
  <2>2. CASE u = Destroyer
    BY <1>1, <1>3, <2>2, HoldsIs
  <2>3. CASE u # t /\ u \in Threads
    BY <1>6, <2>3, OthersHold, HoldsIs
  <2>4. QED
    BY <2>1, <2>2, <2>3, ProcsAre
<1>9. ASSUME NEW b \in Checkpoints PROVE refs'[b] = Cardinality(HeldBy(b)')
  <2>1. refs[b] = Cardinality(HeldBy(b))
    BY DEF Inv, RefsCount
  <2>2. CASE b # c
    <3>1. HeldBy(b)' = HeldBy(b)
      BY <1>8, <2>2, HeldSame
    <3>2. QED
      BY <1>1, <1>3, <2>1, <2>2, <3>1
  <2>3. CASE b = c
    <3>1. HeldBy(b)' = HeldBy(b) \ {<<t, n>>}
      BY <1>1, <1>4, <1>8, <2>3, HeldLess
    <3>2. <<t, n>> \in HeldBy(b)
      <4>1. n <= n /\ n + 1 - n = 1
        BY <1>4
      <4>2. ThreadHolds(t, n, c)
        BY <1>2, <1>3, <1>4, <4>1 DEF ThreadHolds
      <4>3. QED
        BY <1>1, <1>4, <2>3, <4>2, HoldsIs, HolderIs
    <3>3. Cardinality(HeldBy(b)') = Cardinality(HeldBy(b)) - 1
      BY <3>1, <3>2, FiniteHolders, OneLess
    <3>4. refs'[b] = refs[b] - 1
      BY <1>1, <1>3, <2>3
    <3>5. QED
      BY <2>1, <3>3, <3>4
  <2>4. QED
    BY <2>2, <2>3
<1>10. QED
  BY <1>9 DEF RefsCount

LEMMA RefsLeave ==
    ASSUME Inv, NEW t \in Threads, Leave(t)
    PROVE  RefsCount'
<1>1. DOMAIN pc = Procs /\ DOMAIN drops = Threads /\ t \in Procs
  BY InvThread
<1>2. PICK d, n, e, m : /\ d = drops[t] /\ n = Len(drops[t])
                        /\ e = drops'[t] /\ m = Len(e)
  OBVIOUS
<1>3. /\ pc[t] = "leave" /\ UNCHANGED <<refs, fence, kickIn>> /\ e = Tail(d)
      /\ pc'[t] = IF e = <<>> THEN "idle" ELSE "unref"
  BY <1>1, <1>2 DEF Leave, Goto, cpVars, kickVars
<1>4. /\ n \in {1, 2} /\ m = n - 1
      /\ \A i \in 1..n - 1 : e[i] = d[i + 1]
  BY <1>2, <1>3, DropsAre DEF Inv, Dropped
<1>5. kickIn[t] = NoCheckpoint /\ Alone(t)
  BY <1>3, InvThread, ThreadAlone DEF ThreadOK, Kicking, ThreadStep, Inv
<1>6. e # <<>> => pc'[t] = "unref"
  BY <1>3
<1>7. ASSUME NEW k \in {1, 2}, NEW c \in Checkpoints
      PROVE  ThreadHolds(t, k, c)' <=> ThreadHolds(t, k, c)
  <2>1. ThreadHolds(t, k, c) <=> k <= n /\ d[n + 1 - k] = c /\ k # n
    BY <1>2, <1>3, <1>5, ProcsAre DEF ThreadHolds
  <2>2. ThreadHolds(t, k, c)' <=> /\ k <= m /\ e[m + 1 - k] = c
                                  /\ k = m => pc'[t] = "unref"
    BY <1>2, <1>3, <1>5, ProcsAre DEF ThreadHolds
  <2>3. CASE n = 1
    <3>1. m = 0
      BY <1>4, <2>3
    <3>2. QED
      BY <2>1, <2>2, <2>3, <3>1
  <2>4. CASE n = 2
    <3>1. m = 1 /\ 1 \in 1..n - 1 /\ 1 + 1 = 2 /\ n + 1 - 1 = 2 /\ m + 1 - 1 = 1
      BY <1>4, <2>4
    <3>2. e[1] = d[2]
      BY <1>4, <3>1
    <3>3. pc'[t] = "unref"
      <4>1. e # <<>>
        <5>1. e \in Seq(Checkpoints) /\ m = Len(e)
          BY <1>2, <1>3, DropsAre DEF Inv, Dropped
        <5>2. QED
          BY <3>1, <5>1, EmptySeq
      <4>2. QED
        BY <1>6, <4>1
    <3>4. CASE k = 1
      BY <2>1, <2>2, <2>4, <3>1, <3>2, <3>3, <3>4
    <3>5. CASE k = 2
      BY <2>1, <2>2, <2>4, <3>1, <3>5
    <3>6. QED
      BY <3>4, <3>5
  <2>5. QED
    BY <1>4, <2>3, <2>4
<1>8. QED
  BY <1>3, <1>5, <1>7, RefsMoved


\* A kick that keeps its input fence moves no reference.
LEMMA RefsKick ==
    ASSUME Inv, NEW t \in Threads, Kick(t),
           UNCHANGED <<refs, fence, kickIn, drops>>
    PROVE  RefsCount'
<1>1. Alone(t) /\ ThreadOK(t)
  BY InvThread, ThreadAlone DEF ThreadStep, Inv
<1>2. Kicking(t) \/ pc[t] = "idle"
  BY DEF Kick, Kicking, KickResolve, KickWithoutOutput, GetFromPool, PoolEmpty,
         AllocSyncCheckpoint, CountCheckpoint, AllocFails, Publish,
         AppendFences, AppendUpdate, AcquireFails, WriteCommand, Schedule,
         RollbackFences, RollbackUpdate, AbandonKick
<1>3. drops[t] = <<>>
  BY <1>1, <1>2 DEF ThreadOK, Kicking, Dropped, Freeing
<1>4. \A u \in Threads : drops[u] # <<>> =>
                            (pc'[u] = "unref" <=> pc[u] = "unref")
  BY <1>1, <1>3, ProcsAre DEF Alone
<1>5. QED
  BY <1>4, RefsKept

LEMMA RefsFree ==
    ASSUME Inv, NEW t \in Procs, FreeStep(t)
    PROVE  RefsCount'
<1>1. /\ Alone(t) /\ FreeFacts(t)' /\ pc[t] \in Freeing \cup {"deferred"}
      /\ UNCHANGED <<drops, kickIn>>
  BY FreeAlone, FreeControl DEF Inv
<1>2. UNCHANGED <<refs, fence>>
  BY DEF FreeStep, Reap, PutInPool, PoolFull, FreeCheckpoint,
         UncountCheckpoint, CheckDeferredCleanupList, cpVars
<1>3. \A u \in Threads : pc'[u] = "unref" <=> pc[u] = "unref"
  BY <1>1, ProcsAre DEF Alone, FreeFacts, Freeing
<1>4. QED
  BY <1>1, <1>2, <1>3, RefsKept

LEMMA RefsCheckServiced ==
    ASSUME Inv, NEW t \in Threads, CheckServiced(t)
    PROVE  RefsCount'
<1>1. Alone(t) /\ DOMAIN pc = Procs /\ t \in Procs
  BY InvThread, ThreadAlone DEF ThreadStep, Inv
<1>2. /\ UNCHANGED <<refs, fence, kickIn, drops>>
      /\ pc[t] = "check" /\ pc'[t] \in {"reap", "deferred"}
  BY <1>1 DEF CheckServiced, Goto, cpVars, kickVars
<1>3. \A u \in Threads : pc'[u] = "unref" <=> pc[u] = "unref"
  BY <1>1, <1>2, ProcsAre DEF Alone
<1>4. QED
  BY <1>2, <1>3, RefsKept

LEMMA RefsStep == Inv /\ [Next]_vars => RefsCount'
<1> SUFFICES ASSUME Inv, [Next]_vars PROVE RefsCount'
  OBVIOUS
<1>1. ASSUME NEW t \in Threads, ThreadStep(t) PROVE RefsCount'
  <2>1. CASE \/ KickWithoutOutput(t) \/ GetFromPool(t) \/ PoolEmpty(t)
             \/ AllocSyncCheckpoint(t) \/ CountCheckpoint(t)
             \/ AppendFences(t) \/ AppendUpdate(t) \/ AcquireFails(t)
             \/ WriteCommand(t) \/ RollbackFences(t) \/ RollbackUpdate(t)
    <3>1. UNCHANGED <<refs, fence, kickIn, drops>>
      BY <2>1 DEF KickWithoutOutput, GetFromPool, PoolEmpty,
         AllocSyncCheckpoint, CountCheckpoint, AppendFences, AppendUpdate,
         AcquireFails, WriteCommand, RollbackFences, RollbackUpdate, cpVars,
         kickVars, workVars
    <3>2. Kick(t)
      BY <2>1 DEF Kick
    <3>3. QED
      BY <3>1, <3>2, RefsKick
  <2>2. CASE KickResolve(t)
    BY <2>2, RefsResolve
  <2>3. CASE AllocFails(t)
    BY <2>3, RefsAllocFails
  <2>4. CASE Publish(t)
    BY <2>4, RefsPublish
  <2>5. CASE Schedule(t)
    BY <2>5, RefsSchedule
  <2>6. CASE AbandonKick(t)
    BY <2>6, RefsAbandon
  <2>7. CASE FenceFree(t)
    BY <2>7, RefsFenceFree
  <2>8. CASE Unref(t)
    BY <2>8, RefsUnref
  <2>9. CASE CheckServiced(t)
    BY <2>9, RefsCheckServiced
  <2>10. CASE Leave(t)
    BY <2>10, RefsLeave
  <2>11. QED
    BY <1>1, <2>1, <2>2, <2>3, <2>4, <2>5, <2>6, <2>7, <2>8, <2>9, <2>10
    DEF ThreadStep, Kick
<1>2. ASSUME NEW t \in Procs, FreeStep(t) PROVE RefsCount'
  BY <1>2, RefsFree
<1>3. ASSUME DestroyStep PROVE RefsCount'
  <2>1. UNCHANGED <<refs, fence, kickIn, drops>>
    BY <1>3 DEF DestroyStep, DestroyBegin, CleanCheckpointPool,
       DestroyRefused, DestroyContext, cpVars, kickVars, workVars
  <2>2. \A u \in Threads : pc'[u] = pc[u]
    BY <1>3, DestroyAlone, ProcsAre DEF Alone, Inv
  <2>3. QED
    BY <2>1, <2>2, RefsKept
<1>4. ASSUME NEW c \in Checkpoints, FirmwareProcesses(c) PROVE RefsCount'
  BY <1>4, RefsKept DEF FirmwareProcesses, kickVars, workVars
<1>5. ASSUME UNCHANGED vars PROVE RefsCount'
  BY <1>5, RefsKept DEF vars, cpVars, kickVars, workVars
<1>6. QED
  BY <1>1, <1>2, <1>3, <1>4, <1>5, StepIs

---------------------------------------------------------------------------
(* The counts of the context.                                              *)

\* Where a step of a kick can lead.
LEMMA KickMoves ==
    ASSUME Inv, NEW t \in Threads, Kick(t)
    PROVE  /\ pc[t] \notin Dropped /\ pc'[t] \notin Dropped
           /\ pc[t] = "counted" => CountCheckpoint(t)
           /\ pc'[t] = "counted" => AllocSyncCheckpoint(t)
           /\ UNCHANGED destroyed /\ (Kicking(t) \/ destroyed = "no")
           /\ UNCHANGED <<ctxRefs, ctxFreed, imported, allocated>>
              \/ AllocSyncCheckpoint(t)
           /\ UNCHANGED count \/ CountCheckpoint(t)
           /\ UNCHANGED <<inUse, listed>> \/ Publish(t)
           /\ UNCHANGED deferred
<1> USE DEF Dropped, Freeing, Kicking, Goto, ctxVars, poolVars
<1>0. DOMAIN pc = Procs /\ t \in Procs
  BY InvThread
<1>1. CASE KickResolve(t) \/ KickWithoutOutput(t) \/ GetFromPool(t)
           \/ PoolEmpty(t)
  BY <1>0, <1>1 DEF KickResolve, KickWithoutOutput, GetFromPool, PoolEmpty
<1>2. CASE AllocSyncCheckpoint(t) \/ CountCheckpoint(t) \/ AllocFails(t)
           \/ Publish(t)
  BY <1>0, <1>2 DEF AllocSyncCheckpoint, CountCheckpoint, AllocFails, Publish
<1>3. CASE AppendFences(t) \/ AppendUpdate(t) \/ AcquireFails(t)
           \/ WriteCommand(t)
  BY <1>0, <1>3 DEF AppendFences, AppendUpdate, AcquireFails, WriteCommand
<1>4. CASE Schedule(t) \/ RollbackFences(t) \/ RollbackUpdate(t)
           \/ AbandonKick(t)
  BY <1>0, <1>4 DEF Schedule, RollbackFences, RollbackUpdate, AbandonKick
<1>5. QED
  BY <1>1, <1>2, <1>3, <1>4 DEF Kick

\* A step that frees does not touch a thread that kicks.
LEMMA FreeMoves ==
    ASSUME Inv, NEW t \in Procs, FreeStep(t)
    PROVE  /\ pc[t] \in Freeing \cup {"deferred"}
           /\ pc'[t] \in Freeing \cup {"leave", "deferred", "decide", "clean"}
           /\ t \in Threads => pc'[t] \notin {"decide", "clean"}
           /\ pc[t] = "uncount" => UncountCheckpoint(t) /\ pc'[t] # "uncount"
           /\ pc'[t] = "uncount" => FreeCheckpoint(t)
           /\ UNCHANGED <<ctxRefs, ctxFreed, imported, allocated>>
              \/ FreeCheckpoint(t)
           /\ UNCHANGED count \/ UncountCheckpoint(t)
           /\ UNCHANGED <<inUse, listed>> \/ Reap(t)
           /\ UNCHANGED <<kickOut, destroyed>>
<1>1. /\ FreeFacts(t)' /\ pc[t] \in Freeing \cup {"deferred"}
      /\ UNCHANGED destroyed
  BY FreeAlone, FreeControl DEF Inv
<1>2. /\ DOMAIN pc = Procs
      /\ t \in Threads => pc'[t] \notin {"decide", "clean"}
  BY <1>1, ProcsAre DEF Inv, Typed, FreeFacts
<1>3. pc'[t] \in Freeing \cup {"leave", "deferred", "decide", "clean"}
  BY <1>1 DEF FreeFacts
<1>4. \A rest, ph : AfterItem(t, rest, ph) # "uncount"
  BY DEF AfterItem
<1>5. /\ pc[t] = "uncount" => UncountCheckpoint(t) /\ pc'[t] # "uncount"
      /\ pc'[t] = "uncount" => FreeCheckpoint(t)
  BY <1>2, <1>4 DEF FreeStep, Reap, PutInPool, PoolFull, FreeCheckpoint,
     UncountCheckpoint, CheckDeferredCleanupList, Goto, ItemDone
<1>6. /\ UNCHANGED <<ctxRefs, ctxFreed, imported, allocated>>
         \/ FreeCheckpoint(t)
      /\ UNCHANGED count \/ UncountCheckpoint(t)
      /\ UNCHANGED <<inUse, listed>> \/ Reap(t)
      /\ UNCHANGED kickOut
  BY DEF FreeStep, Reap, PutInPool, PoolFull, FreeCheckpoint,
     UncountCheckpoint, CheckDeferredCleanupList, ctxVars, kickVars
<1>7. QED
  BY <1>1, <1>2, <1>3, <1>5, <1>6

\* The sets that are counted.
LEMMA ContextIs ==
    ASSUME Inv
    PROVE  /\ IsFiniteSet(allocated) /\ IsFiniteSet(listed)
           /\ IsFiniteSet(imported) /\ Cardinality(imported) \in Nat
           /\ IsFiniteSet(Inside) /\ Cardinality(Inside) \in Nat
           /\ IsFiniteSet(Uncounted) /\ IsFiniteSet(Uncounting)
           /\ IsFiniteSet(allocated \ Uncounted)
           /\ Cardinality(allocated \ Uncounted) \in Nat
           /\ Cardinality(Uncounting) \in Nat
           /\ allocated # {} => Cardinality(imported) > 0
           /\ allocated # {} => ctxRefs > 0 /\ ~ctxFreed
           /\ destroyed # "ok" => ctxRefs > 0 /\ ~ctxFreed
<1>1. IsFiniteSet(allocated) /\ IsFiniteSet(listed) /\ IsFiniteSet(Uncounted)
      /\ IsFiniteSet(allocated \ Uncounted)
  <2>1. /\ allocated \in SUBSET Checkpoints /\ listed \in SUBSET Checkpoints
        /\ Uncounted \in SUBSET Checkpoints
        /\ allocated \ Uncounted \in SUBSET Checkpoints
    BY DEF Inv, Typed, Uncounted
  <2>2. QED
    BY <2>1, ProcsAre, FS_Subset
<1>2. IsFiniteSet(imported)
  <2>1. PICK f : f = [c \in allocated |-> BlockOf[c]]
    OBVIOUS
  <2>2. imported = {BlockOf[c] : c \in allocated}
    BY DEF Inv, ContextOK
  <2>3. f \in [allocated -> imported]
    BY <2>1, <2>2
  <2>4. \A b \in imported : \E c \in allocated : f[c] = b
    BY <2>1, <2>2
  <2>5. f \in Surjection(allocated, imported)
    BY <2>3, <2>4 DEF Surjection
  <2>6. QED
    BY <1>1, <2>5, FS_Surjection
<1>3. IsFiniteSet(Inside) /\ IsFiniteSet(Uncounting)
  <2>1. Inside \in SUBSET Threads /\ Uncounting \in SUBSET Procs
    BY DEF Inside, Uncounting
  <2>2. QED
    BY <2>1, ProcsAre, FS_Subset
<1>4. /\ Cardinality(imported) \in Nat /\ Cardinality(Inside) \in Nat
      /\ Cardinality(allocated \ Uncounted) \in Nat
      /\ Cardinality(Uncounting) \in Nat
  BY <1>1, <1>2, <1>3, FS_CardinalityType
<1>5. ASSUME allocated # {} PROVE Cardinality(imported) > 0
  <2>1. imported # {}
    BY <1>5 DEF Inv, ContextOK
  <2>2. Cardinality(imported) # 0
    BY <1>2, <2>1, FS_EmptySet
  <2>3. QED
    BY <1>4, <2>2
<1>6. ctxRefs = (IF destroyed = "ok" THEN 0 ELSE 1)
                + Cardinality(imported) + Cardinality(Inside)
      /\ (ctxFreed <=> ctxRefs = 0)
  BY DEF Inv, ContextOK
<1>7. allocated # {} => ctxRefs > 0 /\ ~ctxFreed
  <2>1. PICK d \in {0, 1} :
           ctxRefs = d + Cardinality(imported) + Cardinality(Inside)
    BY <1>6
  <2>2. Cardinality(imported) > 0 => ctxRefs > 0
    BY <1>4, <2>1
  <2>3. ctxRefs > 0 => ~ctxFreed
    BY <1>6
  <2>4. QED
    BY <1>5, <2>2, <2>3
<1>8. destroyed # "ok" => ctxRefs > 0 /\ ~ctxFreed
  BY <1>4, <1>6
<1>9. QED
  BY <1>1, <1>2, <1>3, <1>4, <1>5, <1>7, <1>8

\* The three parts of ContextOK.
RefsPart ==
    /\ imported = {BlockOf[c] : c \in allocated}
    /\ ctxRefs = (IF destroyed = "ok" THEN 0 ELSE 1)
                 + Cardinality(imported) + Cardinality(Inside)
    /\ ctxFreed <=> ctxRefs = 0
    /\ destroyed = "ok" => allocated = {}
CountPart == count = Cardinality(allocated \ Uncounted) + Cardinality(Uncounting)
UsePart   == inUse = Cardinality(listed)

LEMMA RefsPartKept ==
    ASSUME Inv, UNCHANGED <<ctxRefs, ctxFreed, imported, allocated>>,
           destroyed' = "ok" <=> destroyed = "ok",
           \A u \in Threads : pc'[u] \in Dropped <=> pc[u] \in Dropped
    PROVE  RefsPart'
<1>1. Inside' = Inside
  BY DEF Inside
<1>2. QED
  BY <1>1 DEF RefsPart, Inv, ContextOK

LEMMA CountPartKept ==
    ASSUME Inv, UNCHANGED <<count, allocated>>,
           \A u \in Threads : /\ pc'[u] = "counted" <=> pc[u] = "counted"
                              /\ pc[u] = "counted" => kickOut'[u] = kickOut[u],
           \A u \in Procs : pc'[u] = "uncount" <=> pc[u] = "uncount"
    PROVE  CountPart'
<1>1. Uncounted' = Uncounted
  BY DEF Uncounted
<1>2. Uncounting' = Uncounting
  BY DEF Uncounting
<1>3. QED
  BY <1>1, <1>2 DEF CountPart, Inv, ContextOK

LEMMA UsePartKept ==
    ASSUME Inv, UNCHANGED <<inUse, listed>>
    PROVE  UsePart'
BY DEF UsePart, Inv, ContextOK

LEMMA RefsPartUnref ==
    ASSUME Inv, NEW t \in Threads, Unref(t)
    PROVE  RefsPart'
<1>1. /\ Alone(t) /\ UNCHANGED destroyed /\ DOMAIN pc = Procs /\ t \in Procs
  BY InvThread, ThreadAlone DEF ThreadStep, Inv
<1>2. /\ pc[t] = "unref" /\ pc'[t] \in {"check", "deferred"}
      /\ ctxRefs' = ctxRefs + 1 /\ UNCHANGED <<ctxFreed, imported, allocated>>
  BY <1>1 DEF Unref, Goto, ContextRef
<1>3. Inside' = Inside \cup {t} /\ t \notin Inside
  BY <1>1, <1>2, ProcsAre DEF Inside, Alone, Dropped, Freeing
<1>4. Cardinality(Inside') = Cardinality(Inside) + 1
  BY <1>3, ContextIs, OneMore
<1>5. Held(Head(drops[t]))
  BY <1>2, DropHolds DEF Inv
<1>6. ctxRefs > 0 /\ ~ctxFreed /\ ctxRefs \in Nat
  BY <1>5, ContextIs DEF Held, Inv, Typed
<1>7. ctxRefs' = (IF destroyed' = "ok" THEN 0 ELSE 1)
                 + Cardinality(imported') + Cardinality(Inside')
  BY <1>1, <1>2, <1>4, ContextIs DEF Inv, ContextOK
<1>8. ctxFreed' <=> ctxRefs' = 0
  BY <1>2, <1>6
<1>9. QED
  BY <1>1, <1>2, <1>7, <1>8 DEF RefsPart, Inv, ContextOK

\* Dropping a reference on the context.
LEMMA UnrefIs ==
    ASSUME Inv, ContextUnref, ctxRefs > 0
    PROVE  ctxRefs' = ctxRefs - 1 /\ (ctxFreed' <=> ctxRefs' = 0)
<1>1. /\ ctxRefs \in Nat /\ (ctxFreed <=> ctxRefs = 0)
      /\ ctxRefs' = ctxRefs - 1 /\ ctxFreed' = (ctxFreed \/ ctxRefs = 1)
  BY DEF ContextUnref, Inv, ContextOK, Typed
<1>2. ctxRefs # 0 /\ (ctxRefs' = 0 <=> ctxRefs = 1)
  <2>1. \A n \in Nat : n > 0 => n # 0 /\ (n - 1 = 0 <=> n = 1)
    OBVIOUS
  <2>2. QED
    BY <1>1, <2>1
<1>3. QED
  BY <1>1, <1>2, Zenon

LEMMA RefsPartLeave ==
    ASSUME Inv, NEW t \in Threads, Leave(t)
    PROVE  RefsPart'
<1>1. /\ Alone(t) /\ UNCHANGED destroyed /\ DOMAIN pc = Procs /\ t \in Procs
  BY InvThread, ThreadAlone DEF ThreadStep, Inv
<1>2. /\ pc[t] = "leave" /\ pc'[t] \in {"idle", "unref"}
      /\ ContextUnref /\ UNCHANGED <<imported, allocated>>
  BY <1>1 DEF Leave, Goto
<1>3. Inside' = Inside \ {t} /\ t \in Inside
  BY <1>1, <1>2, ProcsAre DEF Inside, Alone, Dropped, Freeing
<1>4. Cardinality(Inside') = Cardinality(Inside) - 1 /\ Cardinality(Inside) > 0
  BY <1>3, ContextIs, OneLess
<1>5. ctxRefs = (IF destroyed = "ok" THEN 0 ELSE 1)
                 + Cardinality(imported) + Cardinality(Inside)
  BY DEF Inv, ContextOK
<1>6. ctxRefs > 0
  BY <1>4, <1>5, ContextIs
<1>7. ctxRefs' = ctxRefs - 1 /\ (ctxFreed' <=> ctxRefs' = 0)
  BY <1>2, <1>6, UnrefIs
<1>8. ctxRefs' = (IF destroyed' = "ok" THEN 0 ELSE 1)
                 + Cardinality(imported') + Cardinality(Inside')
  BY <1>1, <1>2, <1>4, <1>5, <1>7, ContextIs
<1>9. QED
  BY <1>1, <1>2, <1>7, <1>8 DEF RefsPart, Inv, ContextOK

LEMMA RefsPartAlloc ==
    ASSUME Inv, NEW t \in Threads, AllocSyncCheckpoint(t)
    PROVE  RefsPart'
<1>1. Kick(t)
  BY DEF Kick
<1>2. /\ Alone(t) /\ UNCHANGED destroyed /\ DOMAIN pc = Procs /\ t \in Procs
  BY <1>1, InvThread, ThreadAlone DEF ThreadStep, Inv
<1>3. pc[t] = "alloc" /\ pc'[t] = "counted"
  BY <1>2 DEF AllocSyncCheckpoint, Goto
<1>4. destroyed = "no"
  BY <1>3, InvThread DEF Inv, ControlOK, DestroyerOK, Kicking
<1>5. Inside' = Inside
  BY <1>2, <1>3, ProcsAre DEF Inside, Alone, Dropped, Freeing
<1>6. ctxRefs > 0 /\ ~ctxFreed /\ ctxRefs \in Nat
  BY <1>4, ContextIs DEF Inv, Typed
<1>7. PICK c \in Checkpoints : RAAlloc(c)
  BY DEF AllocSyncCheckpoint
<1>8. imported = {BlockOf[d] : d \in allocated}
      /\ ctxRefs = 1 + Cardinality(imported) + Cardinality(Inside)
  BY <1>4 DEF Inv, ContextOK
<1>9. allocated' = allocated \cup {c}
  BY <1>7 DEF RAAlloc
<1>10. CASE BlockOf[c] \in imported
  <2>1. UNCHANGED <<imported, ctxRefs, ctxFreed>>
    BY <1>7, <1>10 DEF RAAlloc
  <2>2. imported' = {BlockOf[d] : d \in allocated'}
    BY <1>8, <1>9, <1>10, <2>1
  <2>3. ctxRefs' = 1 + Cardinality(imported') + Cardinality(Inside')
        /\ ctxRefs' # 0 /\ ~ctxFreed'
    BY <1>5, <1>6, <1>8, <2>1
  <2>4. QED
    BY <1>2, <1>4, <2>2, <2>3 DEF RefsPart
<1>11. CASE BlockOf[c] \notin imported
  <2>1. /\ imported' = imported \cup {BlockOf[c]}
        /\ ctxRefs' = ctxRefs + 1 /\ UNCHANGED ctxFreed
    BY <1>7, <1>11 DEF RAAlloc, ContextRef
  <2>2. imported' = {BlockOf[d] : d \in allocated'}
    BY <1>8, <1>9, <2>1
  <2>3. Cardinality(imported') = Cardinality(imported) + 1
    BY <1>11, <2>1, ContextIs, OneMore
  <2>4. ctxRefs' = 1 + Cardinality(imported') + Cardinality(Inside')
    BY <1>5, <1>8, <2>1, <2>3, ContextIs
  <2>5. ctxFreed' <=> ctxRefs' = 0
    BY <1>6, <2>1
  <2>6. QED
    BY <1>2, <1>4, <2>2, <2>4, <2>5 DEF RefsPart
<1>12. QED
  BY <1>10, <1>11

LEMMA RefsPartFree ==
    ASSUME Inv, NEW t \in Procs, FreeCheckpoint(t)
    PROVE  RefsPart'
<1>1. FreeStep(t)
  BY DEF FreeStep
<1>2. /\ Alone(t) /\ UNCHANGED destroyed /\ DOMAIN pc = Procs
  BY <1>1, FreeAlone DEF Inv, Typed
<1>3. pc[t] = "free" /\ pc'[t] = "uncount"
  BY <1>2 DEF FreeCheckpoint, Goto
<1>4. Inside' = Inside
  BY <1>2, <1>3, ProcsAre DEF Inside, Alone, Dropped, Freeing
<1>5. PICK c : c = Head(todo[t])
  OBVIOUS
<1>6. c \in Checkpoints /\ c \in allocated /\ RAFree(c)
  BY <1>3, <1>5, TodoAway, TodoIs DEF Away, Inv, Freeing, FreeCheckpoint
<1>7. ctxRefs > 0 /\ ~ctxFreed /\ ctxRefs \in Nat /\ Cardinality(imported) > 0
  BY <1>6, ContextIs DEF Inv, Typed
<1>8. imported = {BlockOf[d] : d \in allocated} /\ destroyed # "ok"
      /\ ctxRefs = 1 + Cardinality(imported) + Cardinality(Inside)
  BY <1>6 DEF Inv, ContextOK
<1>9. allocated' = allocated \ {c}
  BY <1>6 DEF RAFree
<1>10. CASE \E d \in allocated \ {c} : BlockOf[d] = BlockOf[c]
  <2>1. UNCHANGED <<imported, ctxRefs, ctxFreed>>
    BY <1>6, <1>10 DEF RAFree
  <2>2. imported' = {BlockOf[d] : d \in allocated'}
    BY <1>8, <1>9, <1>10, <2>1
  <2>3. ctxRefs' = 1 + Cardinality(imported') + Cardinality(Inside')
        /\ ctxRefs' # 0 /\ ~ctxFreed'
    BY <1>4, <1>7, <1>8, <2>1
  <2>4. QED
    BY <1>2, <1>8, <2>2, <2>3 DEF RefsPart
<1>11. CASE ~\E d \in allocated \ {c} : BlockOf[d] = BlockOf[c]
  <2>1. imported' = imported \ {BlockOf[c]} /\ ContextUnref
    BY <1>6, <1>11 DEF RAFree
  <2>2. imported' = {BlockOf[d] : d \in allocated'}
    BY <1>6, <1>8, <1>9, <1>11, <2>1
  <2>3. BlockOf[c] \in imported
    BY <1>6, <1>8
  <2>4. Cardinality(imported') = Cardinality(imported) - 1
    BY <2>1, <2>3, ContextIs, OneLess
  <2>5. ctxRefs' = ctxRefs - 1 /\ (ctxFreed' <=> ctxRefs' = 0)
    BY <1>7, <2>1, UnrefIs
  <2>6. ctxRefs' = 1 + Cardinality(imported') + Cardinality(Inside')
    BY <1>4, <1>8, <2>4, <2>5, ContextIs
  <2>7. QED
    BY <1>2, <1>8, <2>2, <2>5, <2>6 DEF RefsPart
<1>12. QED
  BY <1>10, <1>11

\* When the count of checkpoints is 0, none is left.
LEMMA RefsPartDestroy ==
    ASSUME Inv, DestroyContext
    PROVE  RefsPart'
<1>1. Alone(Destroyer)
  BY DestroyAlone DEF DestroyStep, Inv
<1>2. /\ pc[Destroyer] = "decide" /\ count = 0 /\ ContextUnref
      /\ destroyed' = "ok" /\ UNCHANGED <<imported, allocated>>
  BY DEF DestroyContext
<1>3. destroyed = "begun"
  BY <1>2 DEF Inv, ControlOK, DestroyerOK, Typed
<1>4. Uncounted = {}
  BY <1>3 DEF Inv, ControlOK, DestroyerOK, Kicking, Uncounted
<1>5. allocated = {}
  <2>1. count = Cardinality(allocated \ Uncounted) + Cardinality(Uncounting)
    BY DEF Inv, ContextOK
  <2>2. Cardinality(allocated \ Uncounted) = 0
    BY <1>2, <2>1, ContextIs
  <2>3. allocated \ Uncounted = {}
    BY <2>2, ContextIs, FS_EmptySet
  <2>4. QED
    BY <1>4, <2>3
<1>6. Inside' = Inside
  BY <1>1, ProcsAre DEF Alone, Inside
<1>7. ctxRefs > 0 /\ ctxRefs = 1 + Cardinality(imported) + Cardinality(Inside)
  BY <1>3, ContextIs DEF Inv, ContextOK
<1>8. ctxRefs' = ctxRefs - 1 /\ (ctxFreed' <=> ctxRefs' = 0)
  BY <1>2, <1>7, UnrefIs
<1>9. ctxRefs' = 0 + Cardinality(imported') + Cardinality(Inside')
  BY <1>2, <1>6, <1>7, <1>8, ContextIs
<1>10. QED
  BY <1>2, <1>5, <1>8, <1>9 DEF RefsPart, Inv, ContextOK

LEMMA CountPartAlloc ==
    ASSUME Inv, NEW t \in Threads, AllocSyncCheckpoint(t)
    PROVE  CountPart'
<1>1. /\ Alone(t) /\ DOMAIN pc = Procs /\ t \in Procs
      /\ DOMAIN kickOut = Threads
  BY InvThread, ThreadAlone DEF ThreadStep, Kick, Inv
<1>2. PICK c \in Checkpoints : RAAlloc(c) /\ kickOut' = [kickOut EXCEPT ![t] = c]
  BY DEF AllocSyncCheckpoint
<1>3. /\ pc[t] = "alloc" /\ pc'[t] = "counted" /\ UNCHANGED count
      /\ kickOut'[t] = c /\ c \notin allocated
      /\ allocated' = allocated \cup {c}
  BY <1>1, <1>2 DEF AllocSyncCheckpoint, Goto, RAAlloc
<1>4. Uncounted' = Uncounted \cup {c}
  BY <1>1, <1>3, ProcsAre DEF Uncounted, Alone
<1>5. allocated' \ Uncounted' = allocated \ Uncounted
  BY <1>3, <1>4
<1>6. Uncounting' = Uncounting
  BY <1>1, <1>3 DEF Uncounting, Alone
<1>7. QED
  BY <1>3, <1>5, <1>6 DEF CountPart, Inv, ContextOK

LEMMA CountPartCount ==
    ASSUME Inv, NEW t \in Threads, CountCheckpoint(t)
    PROVE  CountPart'
<1>1. /\ Alone(t) /\ DOMAIN pc = Procs /\ t \in Procs
  BY InvThread, ThreadAlone DEF ThreadStep, Kick, Inv
<1>2. PICK c : c = kickOut[t]
  OBVIOUS
<1>3. /\ pc[t] = "counted" /\ pc'[t] = "publish" /\ count' = count + 1
      /\ UNCHANGED <<kickOut, allocated>>
  BY <1>1 DEF CountCheckpoint, Goto, kickVars
<1>4. c \in allocated /\ c \in Checkpoints
  BY <1>2, <1>3, FreshAway DEF Inv, Away, Fresh
<1>5. \A u \in Threads : kickOut[u] = c => u = t
  BY <1>2, <1>4, ProcsAre DEF Inv, OutputsOK
<1>6. Uncounted' = Uncounted \ {c} /\ c \in Uncounted
  BY <1>1, <1>2, <1>3, <1>4, <1>5, ProcsAre DEF Uncounted, Alone
<1>7. /\ allocated' \ Uncounted' = (allocated \ Uncounted) \cup {c}
      /\ c \notin allocated \ Uncounted
  BY <1>3, <1>4, <1>6
<1>8. Uncounting' = Uncounting
  BY <1>1, <1>3 DEF Uncounting, Alone
<1>9. Cardinality(allocated' \ Uncounted') = Cardinality(allocated \ Uncounted) + 1
  BY <1>7, ContextIs, OneMore
<1>10. count = Cardinality(allocated \ Uncounted) + Cardinality(Uncounting)
  BY DEF Inv, ContextOK
<1>11. QED
  BY <1>3, <1>8, <1>9, <1>10, ContextIs DEF CountPart

LEMMA CountPartFree ==
    ASSUME Inv, NEW t \in Procs, FreeCheckpoint(t)
    PROVE  CountPart'
<1>1. /\ Alone(t) /\ DOMAIN pc = Procs
  BY FreeAlone DEF FreeStep, Inv, Typed
<1>2. PICK c : c = Head(todo[t])
  OBVIOUS
<1>3. /\ pc[t] = "free" /\ pc'[t] = "uncount" /\ UNCHANGED <<count, kickOut>>
      /\ allocated' = allocated \ {c}
  BY <1>1, <1>2 DEF FreeCheckpoint, Goto, RAFree, kickVars
<1>4. Away(t, c)
  BY <1>2, <1>3, TodoAway, TodoIs DEF Inv, Freeing
<1>5. c \notin Uncounted
  <2>1. SUFFICES ASSUME NEW u \in Threads, pc[u] = "counted", kickOut[u] = c
                 PROVE  FALSE
    BY DEF Uncounted
  <2>2. InTransit(u, c)
    BY <2>1 DEF InTransit
  <2>3. u = t
    BY <1>4, <2>2, ProcsAre DEF Away
  <2>4. QED
    BY <1>3, <2>1, <2>3
<1>6. Uncounted' = Uncounted
  BY <1>1, <1>3, ProcsAre DEF Uncounted, Alone
<1>7. /\ allocated' \ Uncounted' = (allocated \ Uncounted) \ {c}
      /\ c \in allocated \ Uncounted
  BY <1>3, <1>4, <1>5, <1>6 DEF Away
<1>8. Uncounting' = Uncounting \cup {t} /\ t \notin Uncounting
  BY <1>1, <1>3 DEF Uncounting, Alone
<1>9. /\ Cardinality(allocated' \ Uncounted') = Cardinality(allocated \ Uncounted) - 1
      /\ Cardinality(allocated \ Uncounted) > 0
  BY <1>7, ContextIs, OneLess
<1>10. Cardinality(Uncounting') = Cardinality(Uncounting) + 1
  BY <1>8, ContextIs, OneMore
<1>11. count = Cardinality(allocated \ Uncounted) + Cardinality(Uncounting)
  BY DEF Inv, ContextOK
<1>12. QED
  BY <1>3, <1>9, <1>10, <1>11, ContextIs DEF CountPart

LEMMA CountPartUncount ==
    ASSUME Inv, NEW t \in Procs, UncountCheckpoint(t)
    PROVE  CountPart'
<1>1. FreeStep(t)
  BY DEF FreeStep
<1>2. /\ Alone(t) /\ DOMAIN pc = Procs
  BY <1>1, FreeAlone DEF Inv, Typed
<1>3. /\ pc[t] = "uncount" /\ pc'[t] # "uncount" /\ pc'[t] # "counted"
      /\ count' = count - 1 /\ UNCHANGED <<allocated, kickOut>>
  BY <1>1, FreeMoves DEF UncountCheckpoint, Freeing, kickVars
<1>4. Uncounted' = Uncounted
  BY <1>2, <1>3, ProcsAre DEF Uncounted, Alone
<1>5. Uncounting' = Uncounting \ {t} /\ t \in Uncounting
  BY <1>2, <1>3 DEF Uncounting, Alone
<1>6. /\ Cardinality(Uncounting') = Cardinality(Uncounting) - 1
      /\ Cardinality(Uncounting) > 0
  BY <1>5, ContextIs, OneLess
<1>7. count = Cardinality(allocated \ Uncounted) + Cardinality(Uncounting)
  BY DEF Inv, ContextOK
<1>8. QED
  BY <1>3, <1>4, <1>6, <1>7, ContextIs DEF CountPart

\* What a thread is about to take off the global list is on it.
LEMMA ReapIs ==
    ASSUME Inv, NEW t \in Procs, pc[t] = "reap"
    PROVE  /\ Head(todo[t]) = todo[t][1] /\ todo[t][1] \in Checkpoints
           /\ todo[t][1] \in listed /\ refs[todo[t][1]] = 0
           /\ enq[todo[t][1]] = fwRefs[todo[t][1]]
           /\ phase[t] # "pool" /\ Away(t, todo[t][1])
<1>1. /\ Head(todo[t]) = todo[t][1] /\ todo[t][1] \in Checkpoints
      /\ 1 \in 1..Len(todo[t])
  BY TodoIs DEF Inv, Freeing
<1>2. phase[t] # "pool"
  BY ProcsAre DEF Inv, ControlOK, ThreadOK, DestroyerOK
<1>3. /\ todo[t][1] \in listed /\ refs[todo[t][1]] = 0
      /\ enq[todo[t][1]] = fwRefs[todo[t][1]]
  BY <1>1, <1>2 DEF Inv, TodoOK
<1>4. QED
  BY <1>1, <1>2, <1>3, TodoAway DEF Inv

LEMMA UsePartReap ==
    ASSUME Inv, NEW t \in Procs, Reap(t)
    PROVE  UsePart'
<1>1. PICK c : c = todo[t][1]
  OBVIOUS
<1>2. c \in listed /\ listed' = listed \ {c} /\ inUse' = inUse - 1
  BY <1>1, ReapIs DEF Reap
<1>3. /\ Cardinality(listed') = Cardinality(listed) - 1
      /\ Cardinality(listed) \in Nat
  BY <1>2, ContextIs, OneLess
<1>4. inUse = Cardinality(listed)
  BY DEF Inv, ContextOK
<1>5. QED
  BY <1>2, <1>3, <1>4 DEF UsePart

LEMMA UsePartPublish ==
    ASSUME Inv, NEW t \in Threads, Publish(t)
    PROVE  UsePart'
<1>1. PICK c : c = kickOut[t]
  OBVIOUS
<1>2. c \notin listed /\ listed' = listed \cup {c} /\ inUse' = inUse + 1
  BY <1>1, FreshAway DEF Publish, Inv, Fresh
<1>3. /\ Cardinality(listed') = Cardinality(listed) + 1
      /\ Cardinality(listed) \in Nat
  BY <1>2, ContextIs, OneMore
<1>4. inUse = Cardinality(listed)
  BY DEF Inv, ContextOK
<1>5. QED
  BY <1>2, <1>3, <1>4 DEF UsePart

LEMMA ContextStep == Inv /\ [Next]_vars => ContextOK'
<1> SUFFICES ASSUME Inv, [Next]_vars PROVE RefsPart' /\ CountPart' /\ UsePart'
  BY DEF ContextOK, RefsPart, CountPart, UsePart
<1>1. ASSUME NEW t \in Threads, Kick(t)
      PROVE  RefsPart' /\ CountPart' /\ UsePart'
  <2>1. Alone(t) /\ t \in Procs /\ t # Destroyer /\ ThreadOK(t)
    BY <1>1, InvThread, ThreadAlone DEF ThreadStep, Inv
  <2>2. /\ pc[t] \notin Dropped /\ pc'[t] \notin Dropped
        /\ pc[t] = "counted" => CountCheckpoint(t)
        /\ pc'[t] = "counted" => AllocSyncCheckpoint(t)
        /\ UNCHANGED destroyed
        /\ UNCHANGED <<ctxRefs, ctxFreed, imported, allocated>>
           \/ AllocSyncCheckpoint(t)
        /\ UNCHANGED count \/ CountCheckpoint(t)
        /\ UNCHANGED <<inUse, listed>> \/ Publish(t)
    BY <1>1, KickMoves
  <2>3. RefsPart'
    <3>1. CASE AllocSyncCheckpoint(t)
      BY <3>1, RefsPartAlloc
    <3>2. CASE ~AllocSyncCheckpoint(t)
      BY <2>1, <2>2, <3>2, RefsPartKept, ProcsAre DEF Alone
    <3>3. QED
      BY <3>1, <3>2
  <2>4. CountPart'
    <3>1. CASE AllocSyncCheckpoint(t)
      BY <3>1, CountPartAlloc
    <3>2. CASE CountCheckpoint(t)
      BY <3>2, CountPartCount
    <3>3. CASE ~AllocSyncCheckpoint(t) /\ ~CountCheckpoint(t)
      <4>1. /\ UNCHANGED <<count, allocated>>
            /\ pc[t] # "counted" /\ pc'[t] # "counted"
            /\ pc[t] # "uncount" /\ pc'[t] # "uncount"
        BY <2>2, <3>3 DEF Dropped, Freeing
      <4>2. /\ \A u \in Threads :
                  /\ pc'[u] = "counted" <=> pc[u] = "counted"
                  /\ pc[u] = "counted" => kickOut'[u] = kickOut[u]
            /\ \A u \in Procs : pc'[u] = "uncount" <=> pc[u] = "uncount"
        BY <2>1, <4>1, ProcsAre DEF Alone
      <4>3. QED
        BY <4>1, <4>2, CountPartKept
    <3>4. QED
      BY <3>1, <3>2, <3>3
  <2>5. UsePart'
    BY <2>2, UsePartPublish, UsePartKept
  <2>6. QED
    BY <2>3, <2>4, <2>5
<1>2. ASSUME NEW t \in Threads,
             FenceFree(t) \/ Unref(t) \/ CheckServiced(t) \/ Leave(t)
      PROVE  RefsPart' /\ CountPart' /\ UsePart'
  <2>1. /\ Alone(t) /\ t \in Procs /\ t # Destroyer /\ DOMAIN pc = Procs
        /\ UNCHANGED destroyed
    BY <1>2, InvThread, ThreadAlone DEF ThreadStep, Inv
  <2>2. /\ UNCHANGED <<count, allocated, inUse, listed>>
        /\ pc[t] \in {"idle", "unref", "check", "leave"}
        /\ pc'[t] \in {"unref", "check", "deferred", "reap", "idle"}
    BY <1>2, <2>1 DEF FenceFree, Unref, CheckServiced, Leave, Goto, ctxVars
  <2>3. CountPart'
    <3>1. /\ \A u \in Threads :
                /\ pc'[u] = "counted" <=> pc[u] = "counted"
                /\ pc[u] = "counted" => kickOut'[u] = kickOut[u]
          /\ \A u \in Procs : pc'[u] = "uncount" <=> pc[u] = "uncount"
      BY <2>1, <2>2, ProcsAre DEF Alone
    <3>2. QED
      BY <2>2, <3>1, CountPartKept
  <2>4. UsePart'
    BY <2>2, UsePartKept
  <2>5. RefsPart'
    <3>1. CASE FenceFree(t) \/ CheckServiced(t)
      <4>1. /\ UNCHANGED <<ctxRefs, ctxFreed, imported, allocated>>
            /\ pc'[t] \in Dropped <=> pc[t] \in Dropped
        BY <2>1, <3>1 DEF FenceFree, CheckServiced, ctxVars, Goto, Dropped,
                          Freeing
      <4>2. \A u \in Threads : pc'[u] \in Dropped <=> pc[u] \in Dropped
        BY <2>1, <4>1, ProcsAre DEF Alone
      <4>3. QED
        BY <2>1, <4>1, <4>2, RefsPartKept
    <3>2. QED
      BY <1>2, <3>1, RefsPartUnref, RefsPartLeave
  <2>6. QED
    BY <2>3, <2>4, <2>5
<1>3. ASSUME NEW t \in Procs, FreeStep(t)
      PROVE  RefsPart' /\ CountPart' /\ UsePart'
  <2>1. Alone(t)
    BY <1>3, FreeAlone DEF Inv
  <2>2. /\ pc[t] \in Freeing \cup {"deferred"}
        /\ pc'[t] \in Freeing \cup {"leave", "deferred", "decide", "clean"}
        /\ t \in Threads => pc'[t] \notin {"decide", "clean"}
        /\ pc[t] = "uncount" => UncountCheckpoint(t) /\ pc'[t] # "uncount"
        /\ pc'[t] = "uncount" => FreeCheckpoint(t)
        /\ UNCHANGED <<ctxRefs, ctxFreed, imported, allocated>>
           \/ FreeCheckpoint(t)
        /\ UNCHANGED count \/ UncountCheckpoint(t)
        /\ UNCHANGED <<inUse, listed>> \/ Reap(t)
        /\ UNCHANGED <<kickOut, destroyed>>
    BY <1>3, FreeMoves
  <2>3. RefsPart'
    <3>1. CASE FreeCheckpoint(t)
      BY <3>1, RefsPartFree
    <3>2. CASE ~FreeCheckpoint(t)
      <4>1. t \in Threads => pc[t] \in Dropped /\ pc'[t] \in Dropped
        BY <2>2 DEF Dropped
      <4>2. \A u \in Threads : pc'[u] \in Dropped <=> pc[u] \in Dropped
        BY <2>1, <4>1, ProcsAre DEF Alone
      <4>3. QED
        BY <2>2, <3>2, <4>2, RefsPartKept
    <3>3. QED
      BY <3>1, <3>2
  <2>4. CountPart'
    <3>1. CASE FreeCheckpoint(t)
      BY <3>1, CountPartFree
    <3>2. CASE UncountCheckpoint(t)
      BY <3>2, CountPartUncount
    <3>3. CASE ~FreeCheckpoint(t) /\ ~UncountCheckpoint(t)
      <4>1. /\ UNCHANGED <<count, allocated, kickOut>>
            /\ pc[t] # "counted" /\ pc'[t] # "counted"
            /\ pc[t] # "uncount" /\ pc'[t] # "uncount"
        BY <2>2, <3>3 DEF Freeing
      <4>2. /\ \A u \in Threads :
                  /\ pc'[u] = "counted" <=> pc[u] = "counted"
                  /\ pc[u] = "counted" => kickOut'[u] = kickOut[u]
            /\ \A u \in Procs : pc'[u] = "uncount" <=> pc[u] = "uncount"
        BY <2>1, <4>1, ProcsAre DEF Alone
      <4>3. QED
        BY <4>1, <4>2, CountPartKept
    <3>4. QED
      BY <3>1, <3>2, <3>3
  <2>5. UsePart'
    BY <2>2, UsePartReap, UsePartKept
  <2>6. QED
    BY <2>3, <2>4, <2>5
<1>4. ASSUME DestroyStep PROVE RefsPart' /\ CountPart' /\ UsePart'
  <2>1. Alone(Destroyer) /\ DOMAIN pc = Procs
    BY <1>4, DestroyAlone DEF Inv, Typed
  <2>2. UNCHANGED <<count, allocated, inUse, listed, kickOut>>
    BY <1>4 DEF DestroyStep, DestroyBegin, CleanCheckpointPool,
       DestroyRefused, DestroyContext, ctxVars, kickVars
  <2>3. pc[Destroyer] # "uncount" /\ pc'[Destroyer] # "uncount"
    <3>1. \A rest, ph : AfterItem(Destroyer, rest, ph) # "uncount"
      BY DEF AfterItem
    <3>2. pc[Destroyer] = "idle" <=> destroyed = "no"
      BY DEF Inv, ControlOK, DestroyerOK
    <3>3. QED
      BY <1>4, <2>1, <3>1, <3>2, ProcsAre DEF DestroyStep, DestroyBegin,
         CleanCheckpointPool, DestroyRefused, DestroyContext, Goto
  <2>4. CountPart'
    <3>1. /\ \A u \in Threads :
                /\ pc'[u] = "counted" <=> pc[u] = "counted"
                /\ pc[u] = "counted" => kickOut'[u] = kickOut[u]
          /\ \A u \in Procs : pc'[u] = "uncount" <=> pc[u] = "uncount"
      BY <2>1, <2>2, <2>3, ProcsAre DEF Alone
    <3>2. QED
      BY <2>2, <3>1, CountPartKept
  <2>5. UsePart'
    BY <2>2, UsePartKept
  <2>6. RefsPart'
    <3>1. CASE DestroyContext
      BY <3>1, RefsPartDestroy
    <3>2. CASE DestroyBegin \/ CleanCheckpointPool \/ DestroyRefused
      <4>1. /\ UNCHANGED <<ctxRefs, ctxFreed, imported, allocated>>
            /\ destroyed' = "ok" <=> destroyed = "ok"
        <5>1. pc[Destroyer] = "done" <=> destroyed \in {"failed", "ok"}
          BY DEF Inv, ControlOK, DestroyerOK
        <5>2. QED
          BY <3>2, <5>1 DEF DestroyBegin, CleanCheckpointPool,
             DestroyRefused, ctxVars
      <4>2. \A u \in Threads : pc'[u] \in Dropped <=> pc[u] \in Dropped
        BY <2>1, ProcsAre DEF Alone
      <4>3. QED
        BY <4>1, <4>2, RefsPartKept
    <3>3. QED
      BY <1>4, <3>1, <3>2 DEF DestroyStep
  <2>7. QED
    BY <2>4, <2>5, <2>6
<1>5. ASSUME \/ UNCHANGED vars
             \/ \E c \in Checkpoints : FirmwareProcesses(c)
      PROVE  RefsPart' /\ CountPart' /\ UsePart'
  <2>1. UNCHANGED <<ctxVars, pc, kickOut, destroyed>>
    BY <1>5 DEF FirmwareProcesses, vars, kickVars
  <2>2. QED
    BY <2>1, RefsPartKept, CountPartKept, UsePartKept DEF ctxVars
<1>6. QED
  BY <1>1, <1>2, <1>3, <1>4, <1>5, StepIs DEF ThreadStep

---------------------------------------------------------------------------
(* The pool and the output fences.                                         *)

PoolTyped ==
    /\ slots \in [0..PoolSize - 1 -> OptCheckpoint]
    /\ wp \in 0..PoolSize - 1 /\ rp \in 0..PoolSize - 1
    /\ poolCount \in 0..PoolSize /\ full \in BOOLEAN
    /\ PoolEntries \subseteq Checkpoints

LEMMA PoolGetStep ==
    ASSUME Inv, NEW t \in Threads, GetFromPool(t)
    PROVE  /\ PoolOK' /\ PoolTyped' /\ PoolEntries' = PoolEntries \ {slots[rp]}
           /\ slots[rp] \in PoolEntries /\ slots[rp] \in Checkpoints
<1>1. /\ poolCount > 0 /\ rp' = (rp + 1) % PoolSize
      /\ poolCount' = poolCount - 1 /\ full' = FALSE /\ UNCHANGED <<slots, wp>>
  BY DEF GetFromPool
<1>2. /\ PoolOK' /\ PoolEntries' = PoolEntries \ {slots[rp]}
      /\ slots[rp] \in PoolEntries
      /\ rp' \in 0..PoolSize - 1 /\ poolCount' \in 0..PoolSize
  BY <1>1, PoolGet DEF Inv
<1>3. QED
  BY <1>1, <1>2 DEF PoolTyped, Inv, Typed

LEMMA PoolPutStep ==
    ASSUME Inv, NEW t \in Procs, PutInPool(t)
    PROVE  /\ PoolOK' /\ PoolTyped' /\ PoolEntries' = PoolEntries \cup {todo[t][1]}
           /\ todo[t][1] \in Checkpoints
<1>1. PICK c : c = todo[t][1]
  OBVIOUS
<1>2. pc[t] = "put" /\ ~full
  BY DEF PutInPool
<1>3. Head(todo[t]) = c /\ c \in Checkpoints /\ c \notin PoolEntries
  BY <1>1, <1>2, TodoIs, TodoAway DEF Inv, Freeing, Away
<1>4. /\ slots' = [slots EXCEPT ![wp] = c] /\ wp' = (wp + 1) % PoolSize
      /\ poolCount' = poolCount + 1 /\ full' = (full \/ wp' = rp)
      /\ UNCHANGED rp
  BY <1>3 DEF PutInPool
<1>5. /\ PoolOK' /\ PoolEntries' = PoolEntries \cup {c}
      /\ wp' \in 0..PoolSize - 1 /\ poolCount' \in 0..PoolSize
  BY <1>2, <1>3, <1>4, PoolPut DEF Inv
<1>6. slots' \in [0..PoolSize - 1 -> OptCheckpoint] /\ full' \in BOOLEAN
  BY <1>3, <1>4 DEF Inv, Typed, OptCheckpoint
<1>7. QED
  BY <1>1, <1>3, <1>4, <1>5, <1>6 DEF PoolTyped, Inv, Typed

LEMMA PoolCleanStep ==
    ASSUME Inv, CleanCheckpointPool
    PROVE  PoolOK' /\ PoolTyped' /\ PoolEntries' = {}
<1>1. /\ rp' = (rp + poolCount) % PoolSize /\ poolCount' = 0
      /\ full' = (full /\ poolCount = 0) /\ UNCHANGED <<slots, wp>>
  BY DEF CleanCheckpointPool
<1>2. /\ PoolOK' /\ PoolEntries' = {} /\ rp' \in 0..PoolSize - 1
      /\ poolCount' \in 0..PoolSize
  BY <1>1, PoolClean DEF Inv
<1>3. full' \in BOOLEAN
  BY <1>1
<1>4. QED
  BY <1>1, <1>2, <1>3 DEF PoolTyped, Inv, Typed

LEMMA PoolKept ==
    ASSUME Inv, UNCHANGED poolVars
    PROVE  PoolOK' /\ PoolTyped' /\ PoolEntries' = PoolEntries
<1>1. UNCHANGED <<slots, wp, rp, poolCount, full>>
  BY DEF poolVars
<1>2. PoolEntries' = PoolEntries
  BY <1>1 DEF PoolEntries
<1>3. QED
  BY <1>1, <1>2 DEF PoolOK, PoolTyped, Inv, Typed

LEMMA PoolMoves ==
    ASSUME Inv, [Next]_vars
    PROVE  \/ UNCHANGED poolVars
           \/ \E t \in Threads : GetFromPool(t)
           \/ \E t \in Procs : PutInPool(t)
           \/ CleanCheckpointPool
<1>1. ASSUME NEW t \in Threads, ThreadStep(t)
      PROVE  UNCHANGED poolVars \/ GetFromPool(t)
  <2> USE DEF ctxVars, poolVars
  <2>1. CASE Kick(t)
    BY <2>1 DEF Kick, KickResolve, KickWithoutOutput, PoolEmpty,
       AllocSyncCheckpoint, CountCheckpoint, AllocFails, Publish,
       AppendFences, AppendUpdate, AcquireFails, WriteCommand, Schedule,
       RollbackFences, RollbackUpdate, AbandonKick
  <2>2. CASE FenceFree(t) \/ Unref(t) \/ CheckServiced(t) \/ Leave(t)
    BY <2>2 DEF FenceFree, Unref, CheckServiced, Leave
  <2>3. QED
    BY <1>1, <2>1, <2>2 DEF ThreadStep
<1>2. ASSUME NEW t \in Procs, FreeStep(t)
      PROVE  UNCHANGED poolVars \/ PutInPool(t)
  BY <1>2 DEF FreeStep, Reap, PoolFull, FreeCheckpoint, UncountCheckpoint,
              CheckDeferredCleanupList, ctxVars, poolVars
<1>3. ASSUME DestroyStep
      PROVE  UNCHANGED poolVars \/ CleanCheckpointPool
  BY <1>3 DEF DestroyStep, DestroyBegin, DestroyRefused, DestroyContext,
              ctxVars, poolVars
<1>4. ASSUME \/ UNCHANGED vars
             \/ \E c \in Checkpoints : FirmwareProcesses(c)
      PROVE  UNCHANGED poolVars
  BY <1>4 DEF FirmwareProcesses, vars, ctxVars, poolVars
<1>5. QED
  BY <1>1, <1>2, <1>3, <1>4, StepIs

LEMMA PoolStep == Inv /\ [Next]_vars => PoolOK' /\ PoolTyped'
BY PoolMoves, PoolKept, PoolGetStep, PoolPutStep, PoolCleanStep

\* The output of a kick is either in its hands or owned by its fence.
LEMMA OutputIs ==
    ASSUME Inv, NEW t \in Threads, kickOut[t] # NoCheckpoint
    PROVE  /\ kickOut[t] \in Checkpoints /\ kickOut[t] \in allocated
           /\ kickOut[t] \notin PoolEntries /\ ~Deferred(kickOut[t])
           /\ pc[t] \in Fresh => Away(t, kickOut[t])
           /\ pc[t] \in Owning => Held(kickOut[t])
           /\ pc[t] \in Fresh \cup Owning
<1>1. pc[t] \in Fresh \cup Owning
  BY DEF Inv, ControlOK, ThreadOK
<1>2. CASE pc[t] \in Fresh
  <2>1. Away(t, kickOut[t])
    BY <1>2, FreshAway DEF Inv
  <2>2. pc[t] \notin Owning
    BY <1>2 DEF Fresh, Owning, Submitted
  <2>3. QED
    BY <1>2, <2>1, <2>2 DEF Away
<1>3. CASE pc[t] \in Owning
  <2>1. kickOut[t] \in Checkpoints /\ Held(kickOut[t])
    BY <1>3, OutputHolds DEF Inv
  <2>2. pc[t] \notin Fresh
    BY <1>3 DEF Fresh, Owning, Submitted
  <2>3. PICK c : c = kickOut[t]
    OBVIOUS
  <2>4. c \in listed /\ refs[c] > 0 /\ refs[c] \in Nat
    BY <2>1, <2>3 DEF Held, Inv, Typed
  <2>5. c \notin PoolEntries
    BY <2>4 DEF Inv, ListedOK
  <2>6. ~Deferred(c)
    BY <2>4 DEF Inv, ListedOK, Deferred
  <2>7. QED
    BY <1>3, <2>1, <2>2, <2>3, <2>5, <2>6 DEF Held
<1>4. QED
  BY <1>1, <1>2, <1>3

LEMMA OutputsKept ==
    ASSUME Inv, UNCHANGED kickOut,
           \A c \in Checkpoints : fence[c] => fence'[c],
           \A u \in Threads : pc'[u] \in Owning => 
              \/ pc[u] \in Owning \/ kickOut[u] = NoCheckpoint
              \/ fence'[kickOut[u]]
    PROVE  OutputsOK'
<1>1. \A u \in Threads : kickOut[u] # NoCheckpoint => kickOut[u] \in Checkpoints
  BY OutputIs
<1>2. QED
  BY <1>1 DEF OutputsOK, Inv

\* A thread gets an output that no other kick has.
LEMMA OutputsGet ==
    ASSUME Inv, NEW t \in Threads, Alone(t), NEW c \in Checkpoints,
           c \in PoolEntries \/ c \notin allocated,
           UNCHANGED fence, kickOut'[t] = c, pc'[t] \in Fresh
    PROVE  OutputsOK'
<1>1. \A u \in Threads : u # t => kickOut'[u] = kickOut[u] /\ pc'[u] = pc[u]
  BY ProcsAre DEF Alone
<1>2. \A u \in Threads : kickOut[u] # c
  BY OutputIs, ProcsAre
<1>3. pc'[t] \notin Owning
  BY DEF Fresh, Owning, Submitted
<1>4. \A u, v \in Threads :
         kickOut'[u] = kickOut'[v] => u = v \/ kickOut'[u] = NoCheckpoint
  BY <1>1, <1>2 DEF Inv, OutputsOK
<1>5. \A u \in Threads : pc'[u] \in Owning /\ kickOut'[u] # NoCheckpoint
                            => fence'[kickOut'[u]]
  BY <1>1, <1>3 DEF Inv, OutputsOK
<1>6. QED
  BY <1>4, <1>5 DEF OutputsOK

\* A thread gives its output up; a fence that is closed is no output.
LEMMA OutputsGone ==
    ASSUME Inv, NEW t \in Threads, Alone(t), NEW o \in OptCheckpoint,
           kickOut'[t] = NoCheckpoint,
           \A c \in Checkpoints : c # o => fence'[c] = fence[c],
           \A u \in Threads : u # t => kickOut[u] # o \/ o = NoCheckpoint
    PROVE  OutputsOK'
<1>1. \A u \in Threads : u # t => kickOut'[u] = kickOut[u] /\ pc'[u] = pc[u]
  BY ProcsAre DEF Alone
<1>2. \A u \in Threads : kickOut[u] # NoCheckpoint => kickOut[u] \in Checkpoints
  BY OutputIs
<1>3. \A u, v \in Threads :
         kickOut'[u] = kickOut'[v] => u = v \/ kickOut'[u] = NoCheckpoint
  BY <1>1 DEF Inv, OutputsOK
<1>4. \A u \in Threads : pc'[u] \in Owning /\ kickOut'[u] # NoCheckpoint
                            => fence'[kickOut'[u]]
  BY <1>1, <1>2, ProcsAre DEF Inv, OutputsOK
<1>5. QED
  BY <1>3, <1>4 DEF OutputsOK

LEMMA OutputsStep == Inv /\ [Next]_vars => OutputsOK'
<1> SUFFICES ASSUME Inv, [Next]_vars PROVE OutputsOK'
  OBVIOUS
<1>1. ASSUME NEW t \in Threads, ThreadStep(t) PROVE OutputsOK'
  <2>1. /\ Alone(t) /\ t \in Procs /\ t # Destroyer /\ ThreadOK(t)
        /\ DOMAIN pc = Procs /\ DOMAIN kickOut = Threads
        /\ DOMAIN fence = Checkpoints /\ kickOut[t] \in OptCheckpoint
    BY <1>1, InvThread, ThreadAlone DEF Inv
  <2>2. CASE GetFromPool(t)
    <3>1. PICK c : c = slots[rp]
      OBVIOUS
    <3>2. c \in Checkpoints /\ c \in PoolEntries
      BY <2>2, <3>1, PoolGetStep
    <3>3. UNCHANGED fence /\ kickOut'[t] = c /\ pc'[t] \in Fresh
      BY <2>1, <2>2, <3>1 DEF GetFromPool, Goto, Fresh, cpVars
    <3>4. QED
      BY <2>1, <3>2, <3>3, OutputsGet
  <2>3. CASE AllocSyncCheckpoint(t)
    <3>1. PICK c \in Checkpoints :
             c \notin allocated /\ kickOut' = [kickOut EXCEPT ![t] = c]
      BY <2>3 DEF AllocSyncCheckpoint, RAAlloc
    <3>2. UNCHANGED fence /\ kickOut'[t] = c /\ pc'[t] \in Fresh
      BY <2>1, <2>3, <3>1 DEF AllocSyncCheckpoint, Goto, Fresh, cpVars
    <3>3. QED
      BY <2>1, <3>1, <3>2, OutputsGet
  <2>4. CASE Schedule(t)
    <3>1. UNCHANGED fence /\ kickOut'[t] = NoCheckpoint
      BY <2>1, <2>4 DEF Schedule, cpVars
    <3>2. QED
      BY <2>1, <3>1, OutputsGone, ProcsAre DEF OptCheckpoint
  <2>5. CASE AbandonKick(t)
    <3>1. PICK o : o = kickOut[t]
      OBVIOUS
    <3>2. /\ o \in OptCheckpoint /\ kickOut'[t] = NoCheckpoint
          /\ fence' = IF o = NoCheckpoint THEN fence
                                          ELSE [fence EXCEPT ![o] = FALSE]
      BY <2>1, <2>5, <3>1 DEF AbandonKick
    <3>3. \A c \in Checkpoints : c # o => fence'[c] = fence[c]
      BY <2>1, <3>2
    <3>4. \A u \in Threads : u # t => kickOut[u] # o \/ o = NoCheckpoint
      BY <3>1 DEF Inv, OutputsOK
    <3>5. QED
      BY <2>1, <3>2, <3>3, <3>4, OutputsGone
  <2>6. CASE FenceFree(t)
    <3>1. PICK o \in Checkpoints : /\ OpenFence(o)
                                   /\ fence' = [fence EXCEPT ![o] = FALSE]
      BY <2>6 DEF FenceFree
    <3>2. /\ o \in OptCheckpoint /\ UNCHANGED kickOut /\ pc[t] = "idle"
      BY <2>6 DEF FenceFree, kickVars, OptCheckpoint
    <3>3. kickOut'[t] = NoCheckpoint
      BY <2>1, <3>2 DEF ThreadOK, Fresh, Owning, Submitted
    <3>4. \A c \in Checkpoints : c # o => fence'[c] = fence[c]
      BY <2>1, <3>1
    <3>5. \A u \in Threads : kickOut[u] # o
      BY <3>1 DEF OpenFence
    <3>6. QED
      BY <2>1, <3>2, <3>3, <3>4, <3>5, OutputsGone
  <2>7. CASE Publish(t)
    <3>1. PICK c : c = kickOut[t]
      OBVIOUS
    <3>2. pc[t] = "publish" /\ kickOut[t] # NoCheckpoint
      BY <2>1, <2>7 DEF Publish, ThreadOK, Fresh
    <3>3. c \in Checkpoints
      BY <3>1, <3>2, OutputIs
    <3>4. /\ fence' = [fence EXCEPT ![c] = TRUE] /\ UNCHANGED kickOut
      BY <2>7, <3>1 DEF Publish, kickVars
    <3>5. fence'[c] /\ \A d \in Checkpoints : fence[d] => fence'[d]
      BY <2>1, <3>3, <3>4
    <3>6. \A u \in Threads : pc'[u] \in Owning => 
              \/ pc[u] \in Owning \/ kickOut[u] = NoCheckpoint
              \/ fence'[kickOut[u]]
      BY <2>1, <3>1, <3>5, ProcsAre DEF Alone
    <3>7. QED
      BY <3>4, <3>5, <3>6, OutputsKept
  <2>8. CASE \/ KickResolve(t) \/ KickWithoutOutput(t) \/ PoolEmpty(t)
             \/ CountCheckpoint(t) \/ AllocFails(t) \/ AppendFences(t)
             \/ AppendUpdate(t) \/ AcquireFails(t) \/ WriteCommand(t)
             \/ RollbackFences(t) \/ RollbackUpdate(t) \/ Unref(t)
             \/ CheckServiced(t) \/ Leave(t)
    <3>1. /\ UNCHANGED <<kickOut, fence>>
          /\ pc'[t] \in Owning => pc[t] \in Owning \/ pc[t] = "create"
      <4> USE DEF Owning, Submitted, Goto, cpVars, kickVars
      <4>1. CASE \/ KickResolve(t) \/ KickWithoutOutput(t) \/ PoolEmpty(t)
                 \/ CountCheckpoint(t) \/ AllocFails(t)
        BY <2>1, <4>1 DEF KickResolve, KickWithoutOutput, PoolEmpty,
                          CountCheckpoint, AllocFails
      <4>2. CASE \/ AppendFences(t) \/ AppendUpdate(t) \/ AcquireFails(t)
                 \/ WriteCommand(t)
        BY <2>1, <4>2 DEF AppendFences, AppendUpdate, AcquireFails,
                          WriteCommand
      <4>3. CASE \/ RollbackFences(t) \/ RollbackUpdate(t) \/ Unref(t)
                 \/ CheckServiced(t) \/ Leave(t)
        BY <2>1, <4>3 DEF RollbackFences, RollbackUpdate, Unref,
                          CheckServiced, Leave
      <4>4. QED
        BY <2>8, <4>1, <4>2, <4>3
    <3>2. pc[t] = "create" => kickOut[t] = NoCheckpoint
      BY <2>1 DEF ThreadOK, Fresh, Owning, Submitted
    <3>3. \A u \in Threads : pc'[u] \in Owning => 
              \/ pc[u] \in Owning \/ kickOut[u] = NoCheckpoint
      BY <2>1, <3>1, <3>2, ProcsAre DEF Alone
    <3>4. QED
      BY <3>1, <3>3, OutputsKept
  <2>9. QED
    BY <1>1, <2>2, <2>3, <2>4, <2>5, <2>6, <2>7, <2>8 DEF ThreadStep, Kick
<1>2. ASSUME NEW t \in Procs, FreeStep(t) PROVE OutputsOK'
  <2>1. UNCHANGED <<kickOut, fence>>
    BY <1>2 DEF FreeStep, Reap, PutInPool, PoolFull, FreeCheckpoint,
       UncountCheckpoint, CheckDeferredCleanupList, cpVars, kickVars
  <2>2. /\ Alone(t)
        /\ pc'[t] \in Freeing \cup {"leave", "deferred", "decide", "clean"}
    BY <1>2, FreeAlone, FreeMoves DEF Inv
  <2>3. \A u \in Threads : pc'[u] \in Owning => pc[u] \in Owning
    BY <2>2, ProcsAre DEF Alone, Owning, Submitted, Freeing
  <2>4. QED
    BY <2>1, <2>3, OutputsKept
<1>3. ASSUME DestroyStep PROVE OutputsOK'
  <2>1. UNCHANGED <<kickOut, fence>>
    BY <1>3 DEF DestroyStep, DestroyBegin, CleanCheckpointPool,
       DestroyRefused, DestroyContext, cpVars, kickVars
  <2>2. \A u \in Threads : pc'[u] = pc[u]
    BY <1>3, DestroyAlone, ProcsAre DEF Alone, Inv
  <2>3. QED
    BY <2>1, <2>2, OutputsKept
<1>4. ASSUME \/ UNCHANGED vars
             \/ \E c \in Checkpoints : FirmwareProcesses(c)
      PROVE  OutputsOK'
  <2>1. UNCHANGED <<kickOut, fence, pc>>
    BY <1>4 DEF FirmwareProcesses, vars, kickVars, cpVars
  <2>2. QED
    BY <2>1, OutputsKept
<1>5. QED
  BY <1>1, <1>2, <1>3, <1>4, StepIs

---------------------------------------------------------------------------
(* The uses.                                                               *)

LEMMA UnkickedSame ==
    ASSUME NEW c, \A u \in Threads : unkicked'[u][c] = unkicked[u][c]
    PROVE  Unkicked(c)' = Unkicked(c)
BY DEF Unkicked

LEMMA UnkickedMore ==
    ASSUME NEW c, NEW t \in Threads, unkicked[t][c] = 0, unkicked'[t][c] = 1,
           \A u \in Threads : u # t => unkicked'[u][c] = unkicked[u][c]
    PROVE  /\ Unkicked(c)' = Unkicked(c) \cup {<<t, 1>>}
           /\ <<t, 1>> \notin Unkicked(c)
<1>1. 1..0 = {} /\ 1..1 = {1}
  OBVIOUS
<1>2. /\ {t} \X (1..unkicked[t][c]) = {}
      /\ {t} \X (1..unkicked'[t][c]) = {<<t, 1>>}
  BY <1>1
<1>3. QED
  BY <1>2 DEF Unkicked

LEMMA UnkickedLess ==
    ASSUME NEW c, NEW t \in Threads, unkicked[t][c] = 1, unkicked'[t][c] = 0,
           \A u \in Threads : u # t => unkicked'[u][c] = unkicked[u][c]
    PROVE  /\ Unkicked(c)' = Unkicked(c) \ {<<t, 1>>}
           /\ <<t, 1>> \in Unkicked(c)
<1>1. 1..0 = {} /\ 1..1 = {1}
  OBVIOUS
<1>2. /\ {t} \X (1..unkicked'[t][c]) = {}
      /\ {t} \X (1..unkicked[t][c]) = {<<t, 1>>}
  BY <1>1
<1>3. QED
  BY <1>2 DEF Unkicked

LEMMA UsesIs ==
    ASSUME Inv
    PROVE  /\ \A u \in Threads, c \in Checkpoints :
                 unkicked[u][c] = IF Using(u, c) THEN 1 ELSE 0
           /\ \A c \in Checkpoints :
                 /\ c \in listed => enq[c] = fwRefs[c] + Outstanding(c)
                 /\ Outstanding(c) = inCCB[c] + Cardinality(Unkicked(c))
                 /\ IsFiniteSet(Unkicked(c))
                 /\ Cardinality(Unkicked(c)) \in Nat
                 /\ inCCB[c] \in Nat /\ fwRefs[c] \in Nat /\ enq[c] \in Nat
                 /\ refs[c] \in Nat
           /\ DOMAIN unkicked = Threads /\ DOMAIN enq = Checkpoints
           /\ \A u \in Threads : DOMAIN unkicked[u] = Checkpoints
           /\ DOMAIN inCCB = Checkpoints /\ DOMAIN fwRefs = Checkpoints
           /\ listed \subseteq Checkpoints
BY UsersAre DEF Inv, Typed, UsesCount, Outstanding

\* What a step of t leaves of the uses of the others.
LEMMA OthersUse ==
    ASSUME NEW t, Alone(t), NEW u \in Threads, u # t
    PROVE  \A c : Using(u, c)' <=> Using(u, c)
BY ProcsAre DEF Alone, Using

\* A step that moves no use.
LEMMA UsesKept ==
    ASSUME Inv, UNCHANGED <<unkicked, inCCB, enq, fwRefs>>, listed' \subseteq listed,
           \A u \in Threads, c \in Checkpoints : Using(u, c)' <=> Using(u, c)
    PROVE  UsesCount'
<1>1. \A c : Unkicked(c)' = Unkicked(c)
  BY DEF Unkicked
<1>2. \A c : Outstanding(c)' = Outstanding(c)
  BY <1>1 DEF Outstanding
<1>3. QED
  BY <1>2 DEF UsesCount, Inv

LEMMA UsesMore ==
    ASSUME Inv, NEW t \in Threads, Alone(t), NEW c \in Checkpoints, ~Using(t, c),
           \A d \in Checkpoints : Using(t, d)' <=> Using(t, d) \/ d = c,
           unkicked' = [unkicked EXCEPT ![t][c] = @ + 1],
           enq' = [enq EXCEPT ![c] = @ + 1], UNCHANGED <<inCCB, fwRefs, listed>>
    PROVE  UsesCount'
<1>1. /\ unkicked[t][c] = 0 /\ unkicked'[t][c] = 1
      /\ \A u \in Threads : u # t => unkicked'[u] = unkicked[u]
      /\ \A d \in Checkpoints : d # c => unkicked'[t][d] = unkicked[t][d]
      /\ enq'[c] = enq[c] + 1
      /\ \A d \in Checkpoints : d # c => enq'[d] = enq[d]
  BY UsesIs
<1>2. ASSUME NEW u \in Threads, NEW d \in Checkpoints
      PROVE  unkicked'[u][d] = IF Using(u, d)' THEN 1 ELSE 0
  <2>1. CASE u # t
    BY <1>1, <2>1, UsesIs, OthersUse
  <2>2. CASE u = t /\ d # c
    BY <1>1, <2>2, UsesIs
  <2>3. CASE u = t /\ d = c
    BY <1>1, <2>3
  <2>4. QED
    BY <2>1, <2>2, <2>3
<1>3. ASSUME NEW d \in listed' PROVE enq'[d] = fwRefs'[d] + Outstanding(d)'
  <2>1. /\ d \in Checkpoints /\ enq[d] = fwRefs[d] + Outstanding(d)
        /\ Outstanding(d) = inCCB[d] + Cardinality(Unkicked(d))
        /\ Outstanding(d)' = inCCB'[d] + Cardinality(Unkicked(d)')
        /\ IsFiniteSet(Unkicked(d)) /\ Cardinality(Unkicked(d)) \in Nat
        /\ inCCB[d] \in Nat /\ fwRefs[d] \in Nat
    BY UsesIs DEF Outstanding
  <2>2. CASE d = c
    <3>1. /\ Unkicked(c)' = Unkicked(c) \cup {<<t, 1>>}
          /\ <<t, 1>> \notin Unkicked(c)
      BY <1>1, UnkickedMore
    <3>2. Cardinality(Unkicked(c)') = Cardinality(Unkicked(c)) + 1
      BY <2>1, <2>2, <3>1, OneMore
    <3>3. QED
      BY <1>1, <2>1, <2>2, <3>2
  <2>3. CASE d # c
    <3>1. \A u \in Threads : unkicked'[u][d] = unkicked[u][d]
      BY <1>1, <2>1, <2>3
    <3>2. Unkicked(d)' = Unkicked(d)
      BY <3>1, UnkickedSame
    <3>3. QED
      BY <1>1, <2>1, <2>3, <3>2
  <2>4. QED
    BY <2>2, <2>3
<1>4. QED
  BY <1>2, <1>3 DEF UsesCount

LEMMA UsesLess ==
    ASSUME Inv, NEW t \in Threads, Alone(t), NEW c \in Checkpoints, Using(t, c),
           \A d \in Checkpoints : Using(t, d)' <=> Using(t, d) /\ d # c,
           unkicked' = [unkicked EXCEPT ![t][c] = @ - 1],
           enq' = [enq EXCEPT ![c] = @ - 1], UNCHANGED <<inCCB, fwRefs, listed>>
    PROVE  UsesCount'
<1>1. /\ unkicked[t][c] = 1 /\ unkicked'[t][c] = 0
      /\ \A u \in Threads : u # t => unkicked'[u] = unkicked[u]
      /\ \A d \in Checkpoints : d # c => unkicked'[t][d] = unkicked[t][d]
      /\ enq'[c] = enq[c] - 1
      /\ \A d \in Checkpoints : d # c => enq'[d] = enq[d]
  BY UsesIs
<1>2. ASSUME NEW u \in Threads, NEW d \in Checkpoints
      PROVE  unkicked'[u][d] = IF Using(u, d)' THEN 1 ELSE 0
  <2>1. CASE u # t
    BY <1>1, <2>1, UsesIs, OthersUse
  <2>2. CASE u = t /\ d # c
    BY <1>1, <2>2, UsesIs
  <2>3. CASE u = t /\ d = c
    BY <1>1, <2>3
  <2>4. QED
    BY <2>1, <2>2, <2>3
<1>3. ASSUME NEW d \in listed' PROVE enq'[d] = fwRefs'[d] + Outstanding(d)'
  <2>1. /\ d \in Checkpoints /\ enq[d] = fwRefs[d] + Outstanding(d)
        /\ Outstanding(d) = inCCB[d] + Cardinality(Unkicked(d))
        /\ Outstanding(d)' = inCCB'[d] + Cardinality(Unkicked(d)')
        /\ IsFiniteSet(Unkicked(d)) /\ Cardinality(Unkicked(d)) \in Nat
        /\ inCCB[d] \in Nat /\ fwRefs[d] \in Nat
    BY UsesIs DEF Outstanding
  <2>2. CASE d = c
    <3>1. /\ Unkicked(c)' = Unkicked(c) \ {<<t, 1>>}
          /\ <<t, 1>> \in Unkicked(c)
      BY <1>1, UnkickedLess
    <3>2. Cardinality(Unkicked(c)') = Cardinality(Unkicked(c)) - 1
      BY <2>1, <2>2, <3>1, OneLess
    <3>3. QED
      BY <1>1, <2>1, <2>2, <3>2
  <2>3. CASE d # c
    <3>1. \A u \in Threads : unkicked'[u][d] = unkicked[u][d]
      BY <1>1, <2>1, <2>3
    <3>2. Unkicked(d)' = Unkicked(d)
      BY <3>1, UnkickedSame
    <3>3. QED
      BY <1>1, <2>1, <2>3, <3>2
  <2>4. QED
    BY <2>2, <2>3
<1>4. QED
  BY <1>2, <1>3 DEF UsesCount

\* The firmware is told of the uses of t.
LEMMA UsesSchedule ==
    ASSUME Inv, NEW t \in Threads, Schedule(t)
    PROVE  UsesCount'
<1>1. /\ Alone(t) /\ DOMAIN pc = Procs /\ t \in Procs
  BY InvThread, ThreadAlone DEF ThreadStep, Kick, Inv
<1>2. /\ inCCB' = [c \in Checkpoints |-> inCCB[c] + unkicked[t][c]]
      /\ unkicked' = [unkicked EXCEPT ![t] = [c \in Checkpoints |-> 0]]
      /\ UNCHANGED <<enq, fwRefs, listed>> /\ pc'[t] \in {"idle", "unref"}
  BY <1>1 DEF Schedule, Goto, cpVars, ctxVars
<1>3. /\ \A u \in Threads : u # t => unkicked'[u] = unkicked[u]
      /\ \A c \in Checkpoints : unkicked'[t][c] = 0
  BY <1>2, UsesIs
<1>4. \A c \in Checkpoints : ~Using(t, c)'
  BY <1>2 DEF Using, Submitted
<1>5. ASSUME NEW u \in Threads, NEW d \in Checkpoints
      PROVE  unkicked'[u][d] = IF Using(u, d)' THEN 1 ELSE 0
  <2>1. CASE u # t
    BY <1>1, <1>3, <2>1, UsesIs, OthersUse
  <2>2. CASE u = t
    BY <1>3, <1>4, <2>2
  <2>3. QED
    BY <2>1, <2>2
<1>6. ASSUME NEW d \in listed' PROVE enq'[d] = fwRefs'[d] + Outstanding(d)'
  <2>1. /\ d \in Checkpoints /\ enq[d] = fwRefs[d] + Outstanding(d)
        /\ Outstanding(d) = inCCB[d] + Cardinality(Unkicked(d))
        /\ Outstanding(d)' = inCCB'[d] + Cardinality(Unkicked(d)')
        /\ IsFiniteSet(Unkicked(d)) /\ Cardinality(Unkicked(d)) \in Nat
        /\ inCCB[d] \in Nat /\ fwRefs[d] \in Nat
        /\ unkicked[t][d] = IF Using(t, d) THEN 1 ELSE 0
    BY <1>2, UsesIs DEF Outstanding
  <2>2. inCCB'[d] = inCCB[d] + unkicked[t][d]
    BY <1>2, <2>1
  <2>3. CASE Using(t, d)
    <3>1. unkicked[t][d] = 1
      BY <2>1, <2>3
    <3>2. /\ Unkicked(d)' = Unkicked(d) \ {<<t, 1>>}
          /\ <<t, 1>> \in Unkicked(d)
      BY <1>3, <2>1, <3>1, UnkickedLess
    <3>3. /\ Cardinality(Unkicked(d)') = Cardinality(Unkicked(d)) - 1
      BY <2>1, <3>2, OneLess
    <3>4. QED
      BY <1>2, <2>1, <2>2, <3>1, <3>3
  <2>4. CASE ~Using(t, d)
    <3>1. unkicked[t][d] = 0
      BY <2>1, <2>4
    <3>2. \A u \in Threads : unkicked'[u][d] = unkicked[u][d]
      BY <1>3, <2>1, <3>1
    <3>3. Unkicked(d)' = Unkicked(d)
      BY <3>2, UnkickedSame
    <3>4. QED
      BY <1>2, <2>1, <2>2, <3>1, <3>3
  <2>5. QED
    BY <2>3, <2>4
<1>7. QED
  BY <1>5, <1>6 DEF UsesCount

LEMMA UsesFirmware ==
    ASSUME Inv, NEW c \in Checkpoints, FirmwareProcesses(c)
    PROVE  UsesCount'
<1>1. /\ inCCB[c] > 0 /\ inCCB' = [inCCB EXCEPT ![c] = @ - 1]
      /\ fwRefs' = [fwRefs EXCEPT ![c] = @ + 1]
      /\ UNCHANGED <<enq, unkicked, listed, pc, kickIn, kickOut>>
  BY DEF FirmwareProcesses, ctxVars, kickVars
<1>2. \A u, d : Using(u, d)' <=> Using(u, d)
  BY <1>1 DEF Using
<1>3. \A d : Unkicked(d)' = Unkicked(d)
  BY <1>1 DEF Unkicked
<1>4. ASSUME NEW d \in listed' PROVE enq'[d] = fwRefs'[d] + Outstanding(d)'
  <2>1. /\ d \in Checkpoints /\ enq[d] = fwRefs[d] + Outstanding(d)
        /\ Outstanding(d) = inCCB[d] + Cardinality(Unkicked(d))
        /\ Outstanding(d)' = inCCB'[d] + Cardinality(Unkicked(d)')
        /\ Cardinality(Unkicked(d)) \in Nat
        /\ inCCB[d] \in Nat /\ fwRefs[d] \in Nat
        /\ DOMAIN inCCB = Checkpoints /\ DOMAIN fwRefs = Checkpoints
    BY <1>1, UsesIs DEF Outstanding
  <2>2. CASE d = c
    <3>1. inCCB'[d] = inCCB[d] - 1 /\ fwRefs'[d] = fwRefs[d] + 1
      BY <1>1, <2>1, <2>2
    <3>2. QED
      BY <1>1, <1>3, <2>1, <3>1
  <2>3. CASE d # c
    <3>1. inCCB'[d] = inCCB[d] /\ fwRefs'[d] = fwRefs[d]
      BY <1>1, <2>1, <2>3
    <3>2. QED
      BY <1>1, <1>3, <2>1, <3>1
  <2>4. QED
    BY <2>2, <2>3
<1>5. \A u \in Threads, d \in Checkpoints :
         unkicked'[u][d] = IF Using(u, d)' THEN 1 ELSE 0
  BY <1>1, <1>2, UsesIs
<1>6. QED
  BY <1>4, <1>5 DEF UsesCount

\* A new checkpoint has no use.
LEMMA UsesPublish ==
    ASSUME Inv, NEW t \in Threads, Publish(t)
    PROVE  UsesCount'
<1>1. /\ Alone(t) /\ DOMAIN pc = Procs /\ t \in Procs
  BY InvThread, ThreadAlone DEF ThreadStep, Kick, Inv
<1>2. PICK c : c = kickOut[t]
  OBVIOUS
<1>3. /\ pc[t] = "publish" /\ pc'[t] = "fences"
      /\ enq' = [enq EXCEPT ![c] = 0] /\ fwRefs' = [fwRefs EXCEPT ![c] = 0]
      /\ listed' = listed \cup {c}
      /\ UNCHANGED <<inCCB, unkicked, kickIn, kickOut>>
  BY <1>1, <1>2 DEF Publish, Goto, kickVars, fwVars
<1>4. c \in Checkpoints /\ c \notin listed
  BY <1>2, <1>3, FreshAway DEF Inv, Fresh, Away
<1>5. Outstanding(c) = 0
  BY <1>4, UnlistedUnused DEF Inv
<1>6. \A d : ~Using(t, d)' /\ ~Using(t, d)
  BY <1>3 DEF Using, Submitted
<1>7. \A u \in Threads, d \in Checkpoints :
         unkicked'[u][d] = IF Using(u, d)' THEN 1 ELSE 0
  BY <1>1, <1>3, <1>6, UsesIs, OthersUse
<1>8. \A d : Unkicked(d)' = Unkicked(d)
  BY <1>3 DEF Unkicked
<1>9. \A d : Outstanding(d)' = Outstanding(d)
  BY <1>3, <1>8 DEF Outstanding
<1>10. ASSUME NEW d \in listed' PROVE enq'[d] = fwRefs'[d] + Outstanding(d)'
  <2>1. /\ d \in Checkpoints
        /\ DOMAIN enq = Checkpoints /\ DOMAIN fwRefs = Checkpoints
    BY <1>3, <1>4, UsesIs
  <2>2. CASE d = c
    BY <1>3, <1>5, <1>9, <2>1, <2>2
  <2>3. CASE d # c
    <3>1. d \in listed /\ enq'[d] = enq[d] /\ fwRefs'[d] = fwRefs[d]
      BY <1>3, <2>1, <2>3
    <3>2. QED
      BY <1>9, <2>1, <3>1, UsesIs
  <2>4. QED
    BY <2>2, <2>3
<1>11. QED
  BY <1>7, <1>10 DEF UsesCount

\* The part of an action that puts a checkpoint on a list, or takes it off.
LEMMA UsesAppend ==
    ASSUME Inv, NEW t \in Threads, Alone(t), NEW c \in OptCheckpoint,
           AppendCheckpoint(t, c), UNCHANGED <<inCCB, fwRefs, listed>>,
           c # NoCheckpoint => ~Using(t, c),
           \A d \in Checkpoints : Using(t, d)' <=> Using(t, d) \/ d = c
    PROVE  UsesCount'
<1>1. CASE c = NoCheckpoint
  <2>1. UNCHANGED <<enq, unkicked>>
    BY <1>1 DEF AppendCheckpoint
  <2>2. \A u \in Threads, d \in Checkpoints : Using(u, d)' <=> Using(u, d)
    BY <1>1, OthersUse, ProcsAre
  <2>3. QED
    BY <2>1, <2>2, UsesKept
<1>2. CASE c # NoCheckpoint
  <2>1. /\ c \in Checkpoints /\ enq' = [enq EXCEPT ![c] = @ + 1]
        /\ unkicked' = [unkicked EXCEPT ![t][c] = @ + 1]
    BY <1>2 DEF AppendCheckpoint, OptCheckpoint
  <2>2. QED
    BY <1>2, <2>1, UsesMore
<1>3. QED
  BY <1>1, <1>2

LEMMA UsesRollback ==
    ASSUME Inv, NEW t \in Threads, Alone(t), NEW c \in OptCheckpoint,
           RollbackFromUFO(t, c), UNCHANGED <<inCCB, fwRefs, listed>>,
           ~written[t],
           c # NoCheckpoint => Using(t, c),
           \A d \in Checkpoints : Using(t, d)' <=> Using(t, d) /\ d # c
    PROVE  UsesCount'
<1>1. CASE c = NoCheckpoint
  <2>1. c \notin listed
    BY <1>1, UsesIs, ProcsAre
  <2>2. UNCHANGED <<enq, unkicked>>
    BY <1>1, <2>1 DEF RollbackFromUFO
  <2>3. \A u \in Threads, d \in Checkpoints : Using(u, d)' <=> Using(u, d)
    BY <1>1, OthersUse, ProcsAre
  <2>4. QED
    BY <2>2, <2>3, UsesKept
<1>2. CASE c # NoCheckpoint
  <2>1. c \in Checkpoints /\ Using(t, c)
    BY <1>2 DEF OptCheckpoint
  <2>2. c \in listed
    BY <2>1, UserHolds DEF Inv, Held
  <2>3. /\ enq' = [enq EXCEPT ![c] = @ - 1]
        /\ unkicked' = [unkicked EXCEPT ![t][c] = @ - 1]
    BY <1>2, <2>2 DEF RollbackFromUFO
  <2>4. QED
    BY <2>1, <2>3, UsesLess
<1>3. QED
  BY <1>1, <1>2

LEMMA UsesFences ==
    ASSUME Inv, NEW t \in Threads, AppendFences(t) \/ AppendUpdate(t)
                                   \/ RollbackFences(t) \/ RollbackUpdate(t)
    PROVE  UsesCount'
<1>1. /\ Alone(t) /\ DOMAIN pc = Procs /\ t \in Procs /\ ThreadOK(t)
      /\ kickIn[t] \in OptCheckpoint /\ kickOut[t] \in OptCheckpoint
  BY InvThread, ThreadAlone DEF ThreadStep, Kick, Inv
<1>2. PICK i, o : i = kickIn[t] /\ o = kickOut[t]
  OBVIOUS
<1>3. /\ UNCHANGED <<inCCB, fwRefs, listed, kickIn, kickOut>>
      /\ NoCheckpoint \notin Checkpoints
  BY ProcsAre DEF AppendFences, AppendUpdate, RollbackFences, RollbackUpdate,
                  ctxVars, kickVars
<1>4. /\ i = o => i = NoCheckpoint
      /\ pc[t] \in {"rollback", "rollback2"} => ~written[t]
      /\ kickIn'[t] = i /\ kickOut'[t] = o
      /\ i \in OptCheckpoint /\ o \in OptCheckpoint
  BY <1>1, <1>2, <1>3 DEF ThreadOK
<1>5. \A d : /\ Using(t, d) <=> \/ i = d /\ pc[t] \in Submitted \cup {"update"}
                                \/ o = d /\ pc[t] \in Submitted \cup {"rollback2"}
             /\ Using(t, d)' <=>
                   \/ i = d /\ pc'[t] \in Submitted \cup {"update"}
                   \/ o = d /\ pc'[t] \in Submitted \cup {"rollback2"}
  BY <1>2, <1>4 DEF Using
<1>6. CASE AppendFences(t)
  <2>1. /\ pc[t] = "fences" /\ pc'[t] = "update" /\ AppendCheckpoint(t, i)
    BY <1>1, <1>2, <1>6 DEF AppendFences, Goto
  <2>2. /\ ~Using(t, i)
        /\ \A d \in Checkpoints : Using(t, d)' <=> Using(t, d) \/ d = i
    BY <1>5, <2>1 DEF Submitted
  <2>3. QED
    BY <1>1, <1>3, <1>4, <2>1, <2>2, UsesAppend
<1>7. CASE AppendUpdate(t)
  <2>1. /\ pc[t] = "update" /\ pc'[t] = "acquire" /\ AppendCheckpoint(t, o)
    BY <1>1, <1>2, <1>7 DEF AppendUpdate, Goto
  <2>2. /\ o # NoCheckpoint => ~Using(t, o)
        /\ \A d \in Checkpoints : Using(t, d)' <=> Using(t, d) \/ d = o
    BY <1>4, <1>5, <2>1 DEF Submitted
  <2>3. QED
    BY <1>1, <1>3, <1>4, <2>1, <2>2, UsesAppend
<1>8. CASE RollbackFences(t)
  <2>1. /\ pc[t] = "rollback" /\ pc'[t] = "rollback2" /\ RollbackFromUFO(t, i)
    BY <1>1, <1>2, <1>8 DEF RollbackFences, Goto
  <2>2. /\ Using(t, i)
        /\ \A d \in Checkpoints : Using(t, d)' <=> Using(t, d) /\ d # i
    BY <1>3, <1>4, <1>5, <2>1 DEF Submitted
  <2>3. QED
    BY <1>1, <1>3, <1>4, <2>1, <2>2, UsesRollback
<1>9. CASE RollbackUpdate(t)
  <2>1. /\ pc[t] = "rollback2" /\ pc'[t] = "abandon" /\ RollbackFromUFO(t, o)
    BY <1>1, <1>2, <1>9 DEF RollbackUpdate, Goto
  <2>2. /\ Using(t, o)
        /\ \A d \in Checkpoints : Using(t, d)' <=> Using(t, d) /\ d # o
    BY <1>3, <1>4, <1>5, <2>1 DEF Submitted
  <2>3. QED
    BY <1>1, <1>3, <1>4, <2>1, <2>2, UsesRollback
<1>10. QED
  BY <1>6, <1>7, <1>8, <1>9

\* The other steps leave the uses alone.
LEMMA UsesOther ==
    ASSUME Inv, NEW t \in Threads,
           \/ KickResolve(t) \/ KickWithoutOutput(t) \/ GetFromPool(t)
           \/ PoolEmpty(t) \/ AllocSyncCheckpoint(t) \/ CountCheckpoint(t)
           \/ AllocFails(t) \/ AcquireFails(t) \/ WriteCommand(t)
           \/ AbandonKick(t) \/ FenceFree(t) \/ Unref(t) \/ CheckServiced(t)
           \/ Leave(t)
    PROVE  UsesCount'
<1>1. /\ Alone(t) /\ DOMAIN pc = Procs /\ t \in Procs
  BY InvThread, ThreadAlone DEF ThreadStep, Kick, Inv
<1> USE DEF ctxVars, cpVars, fwVars, kickVars, Goto
<1>2. UNCHANGED <<unkicked, inCCB, enq, fwRefs, listed>>
  <2>1. CASE \/ KickResolve(t) \/ KickWithoutOutput(t) \/ GetFromPool(t)
             \/ PoolEmpty(t) \/ AllocSyncCheckpoint(t) \/ CountCheckpoint(t)
             \/ AllocFails(t)
    BY <2>1 DEF KickResolve, KickWithoutOutput, GetFromPool, PoolEmpty,
                AllocSyncCheckpoint, CountCheckpoint, AllocFails
  <2>2. CASE \/ AcquireFails(t) \/ WriteCommand(t)
             \/ AbandonKick(t) \/ FenceFree(t) \/ Unref(t) \/ CheckServiced(t)
             \/ Leave(t)
    BY <2>2 DEF AcquireFails, WriteCommand, AbandonKick, FenceFree, Unref,
                CheckServiced, Leave
  <2>3. QED
    BY <2>1, <2>2
<1>3. \A c : Using(t, c)' <=> Using(t, c)
  <2>1. CASE AcquireFails(t) \/ WriteCommand(t)
    <3>1. /\ pc[t] \in Submitted /\ pc'[t] \in Submitted
          /\ UNCHANGED <<kickIn, kickOut>>
      BY <1>1, <2>1 DEF AcquireFails, WriteCommand, Submitted
    <3>2. QED
      BY <3>1 DEF Using
  <2>2. CASE ~(AcquireFails(t) \/ WriteCommand(t))
    <3>1. /\ pc[t] \notin Submitted \cup {"update", "rollback2"}
          /\ pc'[t] \notin Submitted \cup {"update", "rollback2"}
      <4> USE DEF Submitted
      <4>1. CASE \/ KickResolve(t) \/ KickWithoutOutput(t) \/ GetFromPool(t)
                 \/ PoolEmpty(t) \/ AllocSyncCheckpoint(t)
                 \/ CountCheckpoint(t) \/ AllocFails(t)
        BY <1>1, <4>1 DEF KickResolve, KickWithoutOutput, GetFromPool,
           PoolEmpty, AllocSyncCheckpoint, CountCheckpoint, AllocFails
      <4>2. CASE \/ AbandonKick(t) \/ FenceFree(t) \/ Unref(t)
                 \/ CheckServiced(t) \/ Leave(t)
        BY <1>1, <4>2 DEF AbandonKick, FenceFree, Unref, CheckServiced, Leave
      <4>3. QED
        BY <2>2, <4>1, <4>2
    <3>2. QED
      BY <3>1 DEF Using
  <2>3. QED
    BY <2>1, <2>2
<1>4. \A u \in Threads, c \in Checkpoints : Using(u, c)' <=> Using(u, c)
  BY <1>1, <1>3, OthersUse
<1>5. QED
  BY <1>2, <1>4, UsesKept

LEMMA UsesStep == Inv /\ [Next]_vars => UsesCount'
<1> SUFFICES ASSUME Inv, [Next]_vars PROVE UsesCount'
  OBVIOUS
<1>1. ASSUME NEW t \in Threads, ThreadStep(t) PROVE UsesCount'
  BY <1>1, UsesOther, UsesFences, UsesSchedule, UsesPublish
     DEF ThreadStep, Kick
<1>2. ASSUME NEW t \in Procs, FreeStep(t) PROVE UsesCount'
  <2>1. /\ UNCHANGED <<unkicked, inCCB, enq, fwRefs, kickIn, kickOut>>
        /\ listed' \subseteq listed
    BY <1>2 DEF FreeStep, Reap, PutInPool, PoolFull, FreeCheckpoint,
       UncountCheckpoint, CheckDeferredCleanupList, cpVars, kickVars, fwVars,
       ctxVars
  <2>2. /\ Alone(t) /\ pc[t] \in Freeing \cup {"deferred"}
        /\ pc'[t] \in Freeing \cup {"leave", "deferred", "decide", "clean"}
    BY <1>2, FreeAlone, FreeMoves DEF Inv
  <2>3. \A u \in Threads, c \in Checkpoints : Using(u, c)' <=> Using(u, c)
    BY <2>1, <2>2, OthersUse DEF Using, Freeing, Submitted
  <2>4. QED
    BY <2>1, <2>3, UsesKept
<1>3. ASSUME DestroyStep PROVE UsesCount'
  <2>1. UNCHANGED <<unkicked, inCCB, enq, fwRefs, kickIn, kickOut, listed>>
    BY <1>3 DEF DestroyStep, DestroyBegin, CleanCheckpointPool,
       DestroyRefused, DestroyContext, cpVars, kickVars, fwVars, ctxVars
  <2>2. \A u \in Threads : pc'[u] = pc[u]
    BY <1>3, DestroyAlone, ProcsAre DEF Alone, Inv
  <2>3. \A u \in Threads, c \in Checkpoints : Using(u, c)' <=> Using(u, c)
    BY <2>1, <2>2 DEF Using
  <2>4. QED
    BY <2>1, <2>3, UsesKept
<1>4. ASSUME NEW c \in Checkpoints, FirmwareProcesses(c) PROVE UsesCount'
  BY <1>4, UsesFirmware
<1>5. ASSUME UNCHANGED vars PROVE UsesCount'
  <2>1. UNCHANGED <<unkicked, inCCB, enq, fwRefs, kickIn, kickOut, listed, pc>>
    BY <1>5 DEF vars, cpVars, kickVars, fwVars, ctxVars
  <2>2. \A u \in Threads, c \in Checkpoints : Using(u, c)' <=> Using(u, c)
    BY <2>1 DEF Using
  <2>3. QED
    BY <2>1, <2>2, UsesKept
<1>6. QED
  BY <1>1, <1>2, <1>3, <1>4, <1>5, StepIs

---------------------------------------------------------------------------
(* The places.                                                             *)

\* The checkpoints in the hands of a thread, from its part of the state.
Hand(t, p, o, d, w, c) ==
    \/ t \in Threads /\ p \in Fresh /\ o = c
    \/ t \in Threads /\ p = "check" /\ Head(d) = c
    \/ (\E i \in 1..Len(w) : w[i] = c) /\ p # "uncount"
    \/ (\E i \in 2..Len(w) : w[i] = c) /\ p = "uncount"

LEMMA HandIs ==
    \A t, c : /\ InTransit(t, c) <=>
                    Hand(t, pc[t], kickOut[t], drops[t], todo[t], c)
              /\ InTransit(t, c)' <=>
                    Hand(t, pc'[t], kickOut'[t], drops'[t], todo'[t], c)
BY DEF InTransit, Hand, Fresh

LEMMA HandsAre ==
    ASSUME NEW t, NEW p, NEW o, NEW d, NEW c
    PROVE  /\ p \notin Fresh \cup {"check"} => ~Hand(t, p, o, d, <<>>, c)
           /\ t \in Threads /\ p \in Fresh =>
                 (Hand(t, p, o, d, <<>>, c) <=> o = c)
           /\ t \in Threads /\ p = "check" =>
                 (Hand(t, p, o, d, <<>>, c) <=> Head(d) = c)
<1>1. Len(<<>>) = 0 /\ 1..0 = {} /\ 2..0 = {}
  OBVIOUS
<1>2. \A i : i \notin 1..Len(<<>>) /\ i \notin 2..Len(<<>>)
  BY <1>1
<1>3. QED
  BY <1>2 DEF Hand, Fresh

LEMMA WorkHands ==
    ASSUME NEW t, NEW c
    PROVE  /\ pc[t] \notin Fresh \cup {"check", "uncount"} =>
                 (InTransit(t, c) <=> \E i \in 1..Len(todo[t]) : todo[t][i] = c)
           /\ pc[t] = "uncount" =>
                 (InTransit(t, c) <=> \E i \in 2..Len(todo[t]) : todo[t][i] = c)
           /\ pc'[t] \notin Fresh \cup {"check", "uncount"} =>
                 (InTransit(t, c)' <=> \E i \in 1..Len(todo'[t]) : todo'[t][i] = c)
           /\ pc'[t] = "uncount" =>
                 (InTransit(t, c)' <=> \E i \in 2..Len(todo'[t]) : todo'[t][i] = c)
<1>1. \A p, o, d, w :
         /\ p \notin Fresh \cup {"check", "uncount"} =>
               (Hand(t, p, o, d, w, c) <=> \E i \in 1..Len(w) : w[i] = c)
         /\ p = "uncount" =>
               (Hand(t, p, o, d, w, c) <=> \E i \in 2..Len(w) : w[i] = c)
  BY DEF Hand, Fresh
<1>2. QED
  BY <1>1, HandIs

\* What a step of t leaves in the hands of the others.
LEMMA OthersTransit ==
    ASSUME NEW t, Alone(t), NEW u \in Procs, u # t
    PROVE  \A c : InTransit(u, c)' <=> InTransit(u, c)
BY ProcsAre DEF Alone, InTransit

PlaceOK(c) ==
    /\ c \in allocated <=>
          \/ Deferred(c) \/ Alive(c) \/ c \in PoolEntries
          \/ \E t \in Procs : InTransit(t, c)
    /\ ~(Deferred(c) /\ c \in PoolEntries)
    /\ \A t \in Procs : InTransit(t, c) =>
          /\ ~Deferred(c) /\ ~Alive(c) /\ c \notin PoolEntries
          /\ \A u \in Procs : InTransit(u, c) => u = t

\* A checkpoint stays in its place,
LEMMA PlaceKept ==
    ASSUME Inv, NEW t \in Procs, Alone(t), NEW c \in Checkpoints,
           c \in allocated' <=> c \in allocated, Deferred(c)' <=> Deferred(c),
           Alive(c)' <=> Alive(c), c \in PoolEntries' <=> c \in PoolEntries,
           InTransit(t, c)' <=> InTransit(t, c)
    PROVE  PlaceOK(c)'
<1>1. \A u \in Procs : InTransit(u, c)' <=> InTransit(u, c)
  BY OthersTransit
<1>2. QED
  BY <1>1 DEF PlaceOK, Inv, PlacesOK

\* is taken by the thread,
LEMMA PlaceTaken ==
    ASSUME Inv, NEW t \in Procs, Alone(t), NEW c \in Checkpoints,
           \A u \in Procs : u # t => ~InTransit(u, c),
           c \in allocated', ~Deferred(c)', ~Alive(c)', c \notin PoolEntries',
           InTransit(t, c)'
    PROVE  PlaceOK(c)'
<1>1. \A u \in Procs : u # t => ~InTransit(u, c)'
  BY OthersTransit
<1>2. QED
  BY <1>1 DEF PlaceOK

\* or is given away by it.
LEMMA PlaceGiven ==
    ASSUME Inv, NEW t \in Procs, Alone(t), NEW c \in Checkpoints,
           \A u \in Procs : u # t => ~InTransit(u, c),
           c \in allocated' <=> \/ Deferred(c)' \/ Alive(c)'
                                \/ c \in PoolEntries',
           ~(Deferred(c)' /\ c \in PoolEntries'), ~InTransit(t, c)'
    PROVE  PlaceOK(c)'
<1>1. \A u \in Procs : ~InTransit(u, c)'
  BY OthersTransit
<1>2. QED
  BY <1>1 DEF PlaceOK

\* A deferred, pooled or referenced checkpoint is in nobody's hands.
LEMMA PlaceFacts ==
    ASSUME Inv, NEW c \in Checkpoints
    PROVE  /\ Deferred(c) => c \in listed /\ refs[c] = 0 /\ ~Alive(c)
           /\ c \in PoolEntries => c \notin listed /\ ~Alive(c) /\ ~Deferred(c)
           /\ Deferred(c) \/ Alive(c) \/ c \in PoolEntries \/ c \notin allocated
              => \A t \in Procs : ~InTransit(t, c)
           /\ c \notin allocated =>
                 ~Deferred(c) /\ ~Alive(c) /\ c \notin PoolEntries
<1>1. Deferred(c) => c \in listed /\ refs[c] = 0
  BY DEF Deferred, Inv, ListedOK
<1>2. c \in PoolEntries => c \notin listed
  BY DEF Inv, ListedOK
<1>3. QED
  BY <1>1, <1>2 DEF Alive, Inv, PlacesOK

---------------------------------------------------------------------------
(* What a step of a thread touches is alive or in its hands.               *)

Untouched(c) ==
    /\ c \in listed' <=> c \in listed
    /\ refs'[c] = refs[c] /\ enq'[c] = enq[c] /\ fwRefs'[c] = fwRefs[c]
    /\ inCCB'[c] = inCCB[c]

Touches(t, c) ==
    \/ Untouched(c)
    \/ Alive(c) /\ c \in listed'
    \/ /\ InTransit(t, c)
       /\ c \in listed' \/ (refs'[c] = 0 /\ inCCB'[c] = 0)

LEMMA HeldAlive == \A c : Held(c) => Alive(c)
BY DEF Held, Alive

LEMMA TouchNone ==
    ASSUME UNCHANGED <<listed, refs, enq, fwRefs, inCCB>>, NEW c
    PROVE  Untouched(c)
BY DEF Untouched

LEMMA TouchAppend ==
    ASSUME Inv, NEW t \in Threads,
           AppendFences(t) \/ AppendUpdate(t)
           \/ RollbackFences(t) \/ RollbackUpdate(t),
           NEW c \in Checkpoints
    PROVE  Touches(t, c)
<1>1. UNCHANGED <<listed, refs, fwRefs, inCCB>>
  BY DEF AppendFences, AppendUpdate, RollbackFences, RollbackUpdate, ctxVars
<1>2. kickIn[t] \in OptCheckpoint /\ kickOut[t] \in OptCheckpoint
  BY InvThread
<1>3. /\ kickIn[t] # NoCheckpoint => Held(kickIn[t])
      /\ kickOut[t] # NoCheckpoint /\ pc[t] \in Owning => Held(kickOut[t])
  BY InputHolds, OutputHolds DEF Inv
<1>4. DOMAIN enq = Checkpoints /\ NoCheckpoint \notin listed
  BY UsesIs, ProcsAre
<1>5. ASSUME NEW d \in OptCheckpoint,
             AppendCheckpoint(t, d) \/ RollbackFromUFO(t, d), c # d
      PROVE  enq'[c] = enq[c]
  BY <1>4, <1>5 DEF AppendCheckpoint, RollbackFromUFO
<1>6. CASE AppendFences(t) \/ RollbackFences(t)
  <2>1. AppendCheckpoint(t, kickIn[t]) \/ RollbackFromUFO(t, kickIn[t])
    BY <1>6 DEF AppendFences, RollbackFences
  <2>2. c # kickIn[t] => enq'[c] = enq[c]
    BY <1>2, <1>5, <2>1
  <2>3. c = kickIn[t] => Alive(c) /\ c \in listed'
    BY <1>1, <1>3, HeldAlive, ProcsAre DEF Alive
  <2>4. QED
    BY <1>1, <2>2, <2>3 DEF Touches, Untouched
<1>7. CASE AppendUpdate(t) \/ RollbackUpdate(t)
  <2>1. /\ AppendCheckpoint(t, kickOut[t]) \/ RollbackFromUFO(t, kickOut[t])
        /\ pc[t] \in Owning
    BY <1>7 DEF AppendUpdate, RollbackUpdate, Owning
  <2>2. c # kickOut[t] => enq'[c] = enq[c]
    BY <1>2, <1>5, <2>1
  <2>3. c = kickOut[t] => Alive(c) /\ c \in listed'
    BY <1>1, <1>3, <2>1, HeldAlive, ProcsAre DEF Alive
  <2>4. QED
    BY <1>1, <2>2, <2>3 DEF Touches, Untouched
<1>8. QED
  BY <1>6, <1>7

LEMMA ThreadTouches ==
    ASSUME Inv, NEW t \in Threads, ThreadStep(t), NEW c \in Checkpoints
    PROVE  Touches(t, c)
<1>0. /\ DOMAIN refs = Checkpoints /\ t \in Procs
      /\ DOMAIN enq = Checkpoints /\ DOMAIN fwRefs = Checkpoints
  BY InvThread, UsesIs
<1>1. CASE KickResolve(t)
  <2>1. UNCHANGED <<listed, enq, fwRefs, inCCB>>
    BY <1>1 DEF KickResolve, ctxVars, fwVars
  <2>2. PICK d \in OptCheckpoint :
           /\ d # NoCheckpoint => d \in Checkpoints /\ fence[d]
           /\ refs' = IF d = NoCheckpoint THEN refs
                                          ELSE [refs EXCEPT ![d] = @ + 1]
    BY <1>1 DEF KickResolve, OpenFence, OptCheckpoint
  <2>3. CASE d = c
    <3>1. Held(c)
      BY <2>2, <2>3, FenceHolds, ProcsAre DEF Inv
    <3>2. QED
      BY <2>1, <3>1, HeldAlive DEF Touches, Alive
  <2>4. CASE d # c
    BY <1>0, <2>1, <2>2, <2>4 DEF Touches, Untouched
  <2>5. QED
    BY <2>3, <2>4
<1>2. CASE Publish(t)
  <2>1. PICK d : d = kickOut[t]
    OBVIOUS
  <2>2. pc[t] \in Fresh
    BY <1>2 DEF Publish, Fresh
  <2>3. d \in Checkpoints /\ InTransit(t, d)
    BY <2>1, <2>2, FreshAway DEF Inv, Away
  <2>4. /\ listed' = listed \cup {d} /\ refs' = [refs EXCEPT ![d] = 1]
        /\ enq' = [enq EXCEPT ![d] = 0] /\ fwRefs' = [fwRefs EXCEPT ![d] = 0]
        /\ UNCHANGED inCCB
    BY <1>2, <2>1 DEF Publish, fwVars
  <2>5. CASE d = c
    BY <2>3, <2>4, <2>5 DEF Touches
  <2>6. CASE d # c
    BY <1>0, <2>4, <2>6 DEF Touches, Untouched
  <2>7. QED
    BY <2>5, <2>6
<1>3. CASE Schedule(t)
  <2>1. /\ UNCHANGED <<listed, refs, enq, fwRefs>>
        /\ inCCB'[c] = inCCB[c] + unkicked[t][c]
    BY <1>3 DEF Schedule, ctxVars, cpVars
  <2>2. CASE Using(t, c)
    BY <2>1, <2>2, UserHolds, HeldAlive DEF Inv, Touches, Alive
  <2>3. CASE ~Using(t, c)
    <3>1. unkicked[t][c] = 0 /\ inCCB[c] \in Nat
      BY <2>3, UsesIs
    <3>2. QED
      BY <2>1, <3>1 DEF Touches, Untouched
  <2>4. QED
    BY <2>2, <2>3
<1>4. CASE Unref(t)
  <2>1. PICK d : d = Head(drops[t])
    OBVIOUS
  <2>2. Held(d)
    BY <1>4, <2>1, DropHolds DEF Unref, Inv
  <2>3. /\ refs' = [refs EXCEPT ![d] = @ - 1]
        /\ UNCHANGED <<listed, enq, fwRefs, inCCB>>
    BY <1>4, <2>1 DEF Unref, fwVars
  <2>4. CASE d = c
    BY <2>2, <2>3, <2>4, HeldAlive DEF Touches, Alive
  <2>5. CASE d # c
    BY <1>0, <2>3, <2>5 DEF Touches, Untouched
  <2>6. QED
    BY <2>4, <2>5
<1>5. CASE \/ AppendFences(t) \/ AppendUpdate(t)
           \/ RollbackFences(t) \/ RollbackUpdate(t)
  BY <1>5, TouchAppend
<1>6. CASE \/ KickWithoutOutput(t) \/ GetFromPool(t) \/ PoolEmpty(t)
           \/ AllocSyncCheckpoint(t) \/ CountCheckpoint(t) \/ AllocFails(t)
           \/ AcquireFails(t) \/ WriteCommand(t) \/ AbandonKick(t)
           \/ FenceFree(t) \/ CheckServiced(t) \/ Leave(t)
  <2>1. UNCHANGED <<listed, refs, enq, fwRefs, inCCB>>
    <3> USE DEF ctxVars, cpVars, fwVars
    <3>1. CASE \/ KickWithoutOutput(t) \/ GetFromPool(t) \/ PoolEmpty(t)
               \/ AllocSyncCheckpoint(t) \/ CountCheckpoint(t) \/ AllocFails(t)
      BY <3>1 DEF KickWithoutOutput, GetFromPool, PoolEmpty,
                  AllocSyncCheckpoint, CountCheckpoint, AllocFails
    <3>2. CASE \/ AcquireFails(t) \/ WriteCommand(t) \/ AbandonKick(t)
               \/ FenceFree(t) \/ CheckServiced(t) \/ Leave(t)
      BY <3>2 DEF AcquireFails, WriteCommand, AbandonKick, FenceFree,
                  CheckServiced, Leave
    <3>3. QED
      BY <1>6, <3>1, <3>2
  <2>2. QED
    BY <2>1, TouchNone DEF Touches
<1>7. QED
  BY <1>1, <1>2, <1>3, <1>4, <1>5, <1>6 DEF ThreadStep, Kick

LEMMA FreeTouches ==
    ASSUME Inv, NEW t \in Procs, FreeStep(t), NEW c \in Checkpoints
    PROVE  Touches(t, c)
<1>1. CASE Reap(t)
  <2>1. PICK d : d = todo[t][1]
    OBVIOUS
  <2>2. pc[t] = "reap"
    BY <1>1 DEF Reap
  <2>3. /\ d \in Checkpoints /\ d \in listed /\ refs[d] = 0
        /\ enq[d] = fwRefs[d] /\ InTransit(t, d) /\ Head(todo[t]) = d
    BY <2>1, <2>2, ReapIs, TodoAway DEF Inv
  <2>4. inCCB[d] = 0
    BY <2>3, ServicedUnused DEF Inv
  <2>5. listed' = listed \ {d} /\ UNCHANGED <<refs, enq, fwRefs, inCCB>>
    BY <1>1, <2>3 DEF Reap, cpVars, fwVars
  <2>6. QED
    BY <2>3, <2>4, <2>5 DEF Touches, Untouched
<1>2. CASE ~Reap(t)
  <2>1. UNCHANGED <<listed, refs, enq, fwRefs, inCCB>>
    BY <1>2 DEF FreeStep, PutInPool, PoolFull, FreeCheckpoint,
       UncountCheckpoint, CheckDeferredCleanupList, ctxVars, cpVars, fwVars
  <2>2. QED
    BY <2>1, TouchNone DEF Touches
<1>3. QED
  BY <1>1, <1>2

---------------------------------------------------------------------------
(* Each step moves checkpoints from one place to another.                  *)

LEMMA PlacesAll == (\A c \in Checkpoints : PlaceOK(c)') => PlacesOK'
BY DEF PlacesOK, PlaceOK

\* A step that leaves every checkpoint in its place.
LEMMA PlacesSame ==
    ASSUME Inv, NEW t \in Procs, Alone(t), UNCHANGED <<allocated, deferred>>,
           PoolEntries' = PoolEntries,
           \A c \in Checkpoints : Alive(c)' <=> Alive(c),
           \A c \in Checkpoints : InTransit(t, c)' <=> InTransit(t, c)
    PROVE  PlacesOK'
<1>1. \A c : Deferred(c)' <=> Deferred(c)
  BY DEF Deferred
<1>2. \A c \in Checkpoints : PlaceOK(c)'
  BY <1>1, PlaceKept
<1>3. QED
  BY <1>2, PlacesAll

\* A thread between two checkpoints has none in its hands.
LEMMA EmptyHands ==
    ASSUME Inv, NEW t \in Threads, Alone(t),
           pc[t] \notin Fresh \cup Freeing \cup {"check"},
           pc'[t] \notin Fresh \cup {"check"}, todo'[t] = todo[t]
    PROVE  \A c : ~InTransit(t, c) /\ ~InTransit(t, c)'
<1>1. todo[t] = <<>> /\ todo'[t] = <<>>
  BY ProcsAre DEF Inv, ControlOK
<1>2. QED
  BY <1>1, HandIs, HandsAre

LEMMA PlacesIdle ==
    ASSUME Inv, NEW t \in Threads,
           \/ KickWithoutOutput(t) \/ PoolEmpty(t) \/ AllocFails(t)
           \/ AppendFences(t) \/ AppendUpdate(t) \/ AcquireFails(t)
           \/ WriteCommand(t) \/ Schedule(t) \/ RollbackFences(t)
           \/ RollbackUpdate(t) \/ AbandonKick(t) \/ FenceFree(t) \/ Leave(t)
    PROVE  PlacesOK'
<1>1. /\ Alone(t) /\ DOMAIN pc = Procs /\ t \in Procs
  BY InvThread, ThreadAlone DEF ThreadStep, Kick, Inv
<1>2. /\ UNCHANGED <<allocated, deferred, listed, refs, poolVars, todo>>
      /\ pc[t] \notin Fresh \cup Freeing \cup {"check"}
      /\ pc'[t] \notin Fresh \cup {"check"}
  <2> USE DEF ctxVars, cpVars, workVars, Goto, Fresh, Freeing
  <2>1. CASE \/ KickWithoutOutput(t) \/ PoolEmpty(t) \/ AllocFails(t)
             \/ AppendFences(t) \/ AppendUpdate(t) \/ AcquireFails(t)
    BY <1>1, <2>1 DEF KickWithoutOutput, PoolEmpty, AllocFails, AppendFences,
                      AppendUpdate, AcquireFails
  <2>2. CASE \/ WriteCommand(t) \/ Schedule(t) \/ RollbackFences(t)
             \/ RollbackUpdate(t)
    BY <1>1, <2>2 DEF WriteCommand, Schedule, RollbackFences, RollbackUpdate
  <2>3. CASE AbandonKick(t) \/ FenceFree(t) \/ Leave(t)
    BY <1>1, <2>3 DEF AbandonKick, FenceFree, Leave
  <2>4. QED
    BY <2>1, <2>2, <2>3
<1>3. PoolEntries' = PoolEntries
  BY <1>2, PoolKept
<1>4. \A c : Alive(c)' <=> Alive(c)
  BY <1>2 DEF Alive
<1>5. \A c : InTransit(t, c)' <=> InTransit(t, c)
  BY <1>1, <1>2, EmptyHands
<1>6. QED
  BY <1>1, <1>2, <1>3, <1>4, <1>5, PlacesSame

LEMMA PlacesResolve ==
    ASSUME Inv, NEW t \in Threads, KickResolve(t)
    PROVE  PlacesOK'
<1>1. /\ Alone(t) /\ DOMAIN pc = Procs /\ t \in Procs
      /\ DOMAIN refs = Checkpoints
  BY InvThread, ThreadAlone DEF ThreadStep, Kick, Inv
<1>2. /\ UNCHANGED <<allocated, deferred, listed, poolVars, todo>>
      /\ pc[t] = "idle" /\ pc'[t] = "create"
  BY <1>1 DEF KickResolve, ctxVars, workVars, Goto
<1>3. PoolEntries' = PoolEntries
  BY <1>2, PoolKept
<1>4. PICK d \in OptCheckpoint :
         /\ d # NoCheckpoint => d \in Checkpoints /\ fence[d]
         /\ refs' = IF d = NoCheckpoint THEN refs
                                        ELSE [refs EXCEPT ![d] = @ + 1]
  BY DEF KickResolve, OpenFence, OptCheckpoint
<1>5. ASSUME NEW c \in Checkpoints PROVE Alive(c)' <=> Alive(c)
  <2>1. CASE c = d
    <3>1. c \in listed /\ refs[c] > 0
      BY <1>4, <2>1, FenceHolds, ProcsAre DEF Inv, Held
    <3>2. refs'[c] = refs[c] + 1 /\ refs[c] \in Nat
      BY <1>1, <1>4, <2>1, ProcsAre, UsesIs
    <3>3. QED
      BY <1>2, <3>1, <3>2 DEF Alive
  <2>2. CASE c # d
    BY <1>1, <1>2, <1>4, <2>2 DEF Alive
  <2>3. QED
    BY <2>1, <2>2
<1>6. \A c : InTransit(t, c)' <=> InTransit(t, c)
  BY <1>1, <1>2, EmptyHands DEF Fresh, Freeing
<1>7. QED
  BY <1>1, <1>2, <1>3, <1>5, <1>6, PlacesSame

\* A checkpoint of the pool, or a new one, goes into the hands of a kick.
LEMMA PlacesGet ==
    ASSUME Inv, NEW t \in Threads, Alone(t), NEW c \in Checkpoints,
           \/ /\ c \in PoolEntries /\ PoolEntries' = PoolEntries \ {c}
              /\ UNCHANGED allocated
           \/ /\ c \notin allocated /\ PoolEntries' = PoolEntries
              /\ allocated' = allocated \cup {c},
           UNCHANGED <<deferred, listed, refs>>, todo'[t] = todo[t],
           kickOut'[t] = c, pc'[t] \in Fresh,
           pc[t] \notin Fresh \cup Freeing \cup {"check"}
    PROVE  PlacesOK'
<1>1. todo[t] = <<>> /\ todo'[t] = <<>> /\ t \in Procs
  BY ProcsAre DEF Inv, ControlOK
<1>2. pc'[t] \notin {"check"}
  BY DEF Fresh
<1>3. \A d : /\ ~InTransit(t, d)
             /\ InTransit(t, d)' <=> d = c
  BY <1>1, HandIs, HandsAre
<1>4. \A d : /\ Deferred(d)' <=> Deferred(d)
             /\ Alive(d)' <=> Alive(d)
  BY DEF Deferred, Alive
<1>5. ASSUME NEW d \in Checkpoints, d # c PROVE PlaceOK(d)'
  BY <1>1, <1>3, <1>4, <1>5, PlaceKept
<1>6. PlaceOK(c)'
  <2>1. /\ \A u \in Procs : ~InTransit(u, c)
        /\ ~Deferred(c) /\ ~Alive(c)
    BY PlaceFacts
  <2>2. c \in allocated' /\ c \notin PoolEntries'
    BY PlaceFacts DEF Inv, PlacesOK
  <2>3. QED
    BY <1>1, <1>3, <1>4, <2>1, <2>2, PlaceTaken
<1>7. QED
  BY <1>5, <1>6, PlacesAll

LEMMA PlacesCreate ==
    ASSUME Inv, NEW t \in Threads, GetFromPool(t) \/ AllocSyncCheckpoint(t)
    PROVE  PlacesOK'
<1>1. /\ Alone(t) /\ DOMAIN pc = Procs /\ DOMAIN kickOut = Threads
      /\ t \in Procs
  BY InvThread, ThreadAlone DEF ThreadStep, Kick, Inv
<1>2. CASE GetFromPool(t)
  <2>1. PICK c : c = slots[rp]
    OBVIOUS
  <2>2. /\ c \in Checkpoints /\ c \in PoolEntries
        /\ PoolEntries' = PoolEntries \ {c}
    BY <1>2, <2>1, PoolGetStep
  <2>3. /\ UNCHANGED <<allocated, deferred, listed, refs, todo>>
        /\ kickOut'[t] = c /\ pc'[t] = "publish" /\ pc[t] = "create"
    BY <1>1, <1>2, <2>1 DEF GetFromPool, Goto, cpVars, workVars
  <2>4. QED
    BY <1>1, <2>2, <2>3, PlacesGet DEF Fresh, Freeing
<1>3. CASE AllocSyncCheckpoint(t)
  <2>1. PICK c \in Checkpoints :
           /\ c \notin allocated /\ allocated' = allocated \cup {c}
           /\ kickOut' = [kickOut EXCEPT ![t] = c]
    BY <1>3 DEF AllocSyncCheckpoint, RAAlloc
  <2>2. /\ UNCHANGED <<deferred, listed, refs, todo, poolVars>>
        /\ kickOut'[t] = c /\ pc'[t] = "counted" /\ pc[t] = "alloc"
    BY <1>1, <1>3, <2>1 DEF AllocSyncCheckpoint, Goto, cpVars, workVars
  <2>3. PoolEntries' = PoolEntries
    BY <2>2, PoolKept
  <2>4. QED
    BY <1>1, <2>1, <2>2, <2>3, PlacesGet DEF Fresh, Freeing
<1>4. QED
  BY <1>2, <1>3

LEMMA PlacesCount ==
    ASSUME Inv, NEW t \in Threads, CountCheckpoint(t)
    PROVE  PlacesOK'
<1>1. /\ Alone(t) /\ DOMAIN pc = Procs /\ t \in Procs
  BY InvThread, ThreadAlone DEF ThreadStep, Kick, Inv
<1>2. /\ UNCHANGED <<allocated, deferred, listed, refs, todo, poolVars>>
      /\ UNCHANGED kickOut /\ pc'[t] \in Fresh /\ pc[t] \in Fresh
      /\ pc[t] \notin Freeing
  BY <1>1 DEF CountCheckpoint, Goto, cpVars, workVars, kickVars, Fresh, Freeing
<1>3. PoolEntries' = PoolEntries
  BY <1>2, PoolKept
<1>4. todo[t] = <<>> /\ todo'[t] = <<>>
  BY <1>1, <1>2 DEF Inv, ControlOK
<1>5. \A c : InTransit(t, c)' <=> InTransit(t, c)
  BY <1>2, <1>4, HandIs, HandsAre
<1>6. \A c : Alive(c)' <=> Alive(c)
  BY <1>2 DEF Alive
<1>7. QED
  BY <1>1, <1>2, <1>3, <1>5, <1>6, PlacesSame

LEMMA PlacesPublish ==
    ASSUME Inv, NEW t \in Threads, Publish(t)
    PROVE  PlacesOK'
<1>1. /\ Alone(t) /\ DOMAIN pc = Procs /\ t \in Procs
      /\ DOMAIN refs = Checkpoints
  BY InvThread, ThreadAlone DEF ThreadStep, Kick, Inv
<1>2. PICK c : c = kickOut[t]
  OBVIOUS
<1>3. /\ UNCHANGED <<allocated, deferred, todo, poolVars>>
      /\ pc'[t] = "fences" /\ pc[t] = "publish"
      /\ listed' = listed \cup {c} /\ refs' = [refs EXCEPT ![c] = 1]
  BY <1>1, <1>2 DEF Publish, Goto, workVars
<1>4. PoolEntries' = PoolEntries
  BY <1>3, PoolKept
<1>5. todo[t] = <<>> /\ todo'[t] = <<>>
  BY <1>1, <1>3 DEF Inv, ControlOK, Freeing
<1>6. \A d : ~InTransit(t, d)' /\ (InTransit(t, d) <=> d = c)
  BY <1>2, <1>3, <1>5, HandIs, HandsAre DEF Fresh
<1>7. Away(t, c) /\ c \in Checkpoints
  BY <1>2, <1>3, FreshAway DEF Inv, Fresh, Away
<1>8. \A d : Deferred(d)' <=> Deferred(d)
  BY <1>3 DEF Deferred
<1>9. ASSUME NEW d \in Checkpoints, d # c PROVE PlaceOK(d)'
  <2>1. Alive(d)' <=> Alive(d)
    BY <1>1, <1>3, <1>9 DEF Alive
  <2>2. QED
    BY <1>1, <1>3, <1>4, <1>6, <1>8, <1>9, <2>1, PlaceKept
<1>10. PlaceOK(c)'
  <2>1. Alive(c)'
    BY <1>1, <1>3, <1>7 DEF Alive
  <2>2. c \in allocated' /\ ~Deferred(c)' /\ c \notin PoolEntries'
        /\ \A u \in Procs : u # t => ~InTransit(u, c)
    BY <1>3, <1>4, <1>7, <1>8 DEF Away
  <2>3. QED
    BY <1>1, <1>6, <1>7, <2>1, <2>2, PlaceGiven
<1>11. QED
  BY <1>9, <1>10, PlacesAll

\* The last reference puts the checkpoint in the hands of the thread.
LEMMA PlacesUnref ==
    ASSUME Inv, NEW t \in Threads, Unref(t)
    PROVE  PlacesOK'
<1>1. /\ Alone(t) /\ DOMAIN pc = Procs /\ t \in Procs
      /\ DOMAIN refs = Checkpoints
  BY InvThread, ThreadAlone DEF ThreadStep, Kick, Inv
<1>2. PICK c : c = Head(drops[t])
  OBVIOUS
<1>3. /\ UNCHANGED <<allocated, deferred, listed, todo, poolVars, drops>>
      /\ pc'[t] = (IF refs[c] = 1 THEN "check" ELSE "deferred")
      /\ pc[t] = "unref" /\ refs' = [refs EXCEPT ![c] = @ - 1]
  BY <1>1, <1>2 DEF Unref, Goto, workVars
<1>4. PoolEntries' = PoolEntries
  BY <1>3, PoolKept
<1>5. todo[t] = <<>> /\ todo'[t] = <<>>
  BY <1>1, <1>3 DEF Inv, ControlOK, Freeing
<1>6. Held(c) /\ c \in Checkpoints /\ refs[c] \in Nat /\ Alive(c)
  BY <1>2, <1>3, DropHolds, HeldAlive DEF Inv, Held, Typed
<1>7. \A d : /\ ~InTransit(t, d)
             /\ refs[c] = 1 => (InTransit(t, d)' <=> d = c)
             /\ refs[c] # 1 => ~InTransit(t, d)'
  BY <1>2, <1>3, <1>5, HandIs, HandsAre DEF Fresh
<1>8. \A d : Deferred(d)' <=> Deferred(d)
  BY <1>3 DEF Deferred
<1>9. ASSUME NEW d \in Checkpoints, d # c PROVE PlaceOK(d)'
  <2>1. Alive(d)' <=> Alive(d)
    BY <1>1, <1>3, <1>9 DEF Alive
  <2>2. InTransit(t, d)' <=> InTransit(t, d)
    BY <1>7, <1>9
  <2>3. QED
    BY <1>1, <1>3, <1>4, <1>8, <2>1, <2>2, PlaceKept
<1>10. PlaceOK(c)'
  <2>1. refs'[c] = refs[c] - 1 /\ refs[c] > 0
    BY <1>1, <1>3, <1>6 DEF Held
  <2>2. CASE refs[c] = 1
    <3>1. ~Alive(c)'
      BY <2>1, <2>2 DEF Alive
    <3>2. /\ c \in allocated' /\ ~Deferred(c)' /\ c \notin PoolEntries'
          /\ \A u \in Procs : u # t => ~InTransit(u, c)
      BY <1>3, <1>4, <1>6, <1>8, PlaceFacts DEF Held
    <3>3. QED
      BY <1>1, <1>6, <1>7, <2>2, <3>1, <3>2, PlaceTaken
  <2>3. CASE refs[c] # 1
    <3>1. Alive(c)'
      BY <1>3, <1>6, <2>1, <2>3 DEF Alive
    <3>2. QED
      BY <1>1, <1>3, <1>4, <1>6, <1>7, <1>8, <2>3, <3>1, PlaceKept
  <2>4. QED
    BY <2>2, <2>3
<1>11. QED
  BY <1>9, <1>10, PlacesAll

LEMMA PlacesCheckServiced ==
    ASSUME Inv, NEW t \in Threads, CheckServiced(t)
    PROVE  PlacesOK'
<1>1. /\ Alone(t) /\ DOMAIN pc = Procs /\ t \in Procs /\ DOMAIN todo = Procs
  BY InvThread, ThreadAlone DEF ThreadStep, Kick, Inv, Typed
<1>2. PICK c : c = Head(drops[t])
  OBVIOUS
<1>3. /\ UNCHANGED <<allocated, listed, refs, poolVars, drops>>
      /\ pc[t] = "check"
      /\ \/ /\ pc'[t] = "reap" /\ todo'[t] = <<c>> /\ UNCHANGED deferred
         \/ /\ pc'[t] = "deferred" /\ todo'[t] = todo[t]
            /\ deferred' = Append(deferred, c)
  BY <1>1, <1>2 DEF CheckServiced, Goto, cpVars
<1>4. PoolEntries' = PoolEntries
  BY <1>3, PoolKept
<1>5. todo[t] = <<>>
  BY <1>1, <1>3 DEF Inv, ControlOK, Freeing
<1>6. /\ c \in Checkpoints /\ Away(t, c) /\ refs[c] = 0
  BY <1>2, <1>3, CheckAway DEF Inv, Away
<1>7. \A d : InTransit(t, d) <=> d = c
  BY <1>2, <1>3, <1>5, HandIs, HandsAre
<1>8. \A d : Alive(d)' <=> Alive(d)
  BY <1>3 DEF Alive
<1>9. CASE pc'[t] = "reap"
  <2>1. todo'[t] = <<c>> /\ UNCHANGED deferred
    BY <1>3, <1>9
  <2>2. \A d : (\E i \in 1..Len(<<c>>) : <<c>>[i] = d) <=> d = c
    <3>1. Len(<<c>>) = 1 /\ 1..1 = {1} /\ <<c>>[1] = c
      OBVIOUS
    <3>2. QED
      BY <3>1
  <2>3. \A d : InTransit(t, d)' <=> d = c
    <3>1. pc'[t] \notin Fresh \cup {"check", "uncount"}
      BY <1>9 DEF Fresh
    <3>2. \A d : InTransit(t, d)' <=>
                    \E i \in 1..Len(todo'[t]) : todo'[t][i] = d
      BY <3>1, WorkHands
    <3>3. PICK w : w = todo'[t] /\ w = <<c>>
      BY <2>1
    <3>4. QED
      BY <2>2, <3>2, <3>3
  <2>4. QED
    BY <1>1, <1>3, <1>4, <1>7, <1>8, <2>1, <2>3, PlacesSame
<1>10. CASE pc'[t] = "deferred"
  <2>1. todo'[t] = <<>> /\ deferred' = Append(deferred, c)
    BY <1>3, <1>5, <1>10
  <2>2. \A d : Deferred(d)' <=> Deferred(d) \/ d = c
    <3>1. deferred \in Seq(Checkpoints)
      BY DEF Inv, Typed
    <3>2. PICK s, n, r : s = deferred /\ n = Len(s) /\ r = Append(s, c)
      OBVIOUS
    <3>3. /\ n \in Nat /\ Len(r) = n + 1 /\ r[n + 1] = c
          /\ \A i \in 1..n : r[i] = s[i]
      BY <1>6, <3>1, <3>2, AppendProperties, LenProperties
    <3>4. \A i : i \in 1..n + 1 <=> i \in 1..n \/ i = n + 1
      BY <3>3
    <3>5. \A d : (\E i \in 1..Len(r) : r[i] = d)
                    <=> (\E i \in 1..Len(s) : s[i] = d) \/ d = c
      BY <3>2, <3>3, <3>4
    <3>6. QED
      BY <2>1, <3>2, <3>5 DEF Deferred
  <2>3. \A d : ~InTransit(t, d)'
    BY <1>10, <2>1, HandIs, HandsAre DEF Fresh
  <2>4. ASSUME NEW d \in Checkpoints, d # c PROVE PlaceOK(d)'
    BY <1>1, <1>3, <1>4, <1>7, <1>8, <2>2, <2>3, <2>4, PlaceKept
  <2>5. PlaceOK(c)'
    <3>1. Deferred(c)' /\ c \in allocated' /\ c \notin PoolEntries'
          /\ \A u \in Procs : u # t => ~InTransit(u, c)
      BY <1>3, <1>4, <1>6, <2>2 DEF Away
    <3>2. QED
      BY <1>1, <1>6, <2>3, <3>1, PlaceGiven
  <2>6. QED
    BY <2>4, <2>5, PlacesAll
<1>11. QED
  BY <1>3, <1>9, <1>10

\* The rest of a list.
LEMMA TodoTail ==
    ASSUME Inv, NEW t \in Procs, pc[t] \in Freeing
    PROVE  /\ \A d : (\E i \in 1..Len(Tail(todo[t])) : Tail(todo[t])[i] = d)
                        <=> (\E i \in 2..Len(todo[t]) : todo[t][i] = d)
           /\ \A d : (\E i \in 1..Len(todo[t]) : todo[t][i] = d) <=>
                        (\E i \in 2..Len(todo[t]) : todo[t][i] = d)
                        \/ d = todo[t][1]
           /\ ~\E i \in 2..Len(todo[t]) : todo[t][i] = todo[t][1]
           /\ NoRepeats(Tail(todo[t]))
<1>1. PICK w, r, n, m : /\ w = todo[t] /\ n = Len(w) /\ r = Tail(w) /\ m = Len(r)
  OBVIOUS
<1>2. n \in Nat \ {0} /\ m = n - 1 /\ \A i \in 1..n - 1 : r[i] = w[i + 1]
  BY <1>1, TodoIs DEF Inv
<1>3. \A i, j \in 1..n : w[i] = w[j] => i = j
  BY <1>1 DEF Inv, TodoOK, NoRepeats
<1>4. ASSUME NEW d
      PROVE  (\E i \in 1..m : r[i] = d) <=> (\E i \in 2..n : w[i] = d)
  <2>1. ASSUME NEW i \in 1..m, r[i] = d PROVE \E j \in 2..n : w[j] = d
    <3>1. i + 1 \in 2..n /\ i \in 1..n - 1
      BY <1>2
    <3>2. QED
      BY <1>2, <2>1, <3>1
  <2>2. ASSUME NEW i \in 2..n, w[i] = d PROVE \E j \in 1..m : r[j] = d
    <3>1. i - 1 \in 1..n - 1 /\ i - 1 \in 1..m /\ (i - 1) + 1 = i
      BY <1>2
    <3>2. QED
      BY <1>2, <2>2, <3>1
  <2>3. QED
    BY <2>1, <2>2
<1>5. \A i : i \in 1..n <=> i \in 2..n \/ i = 1
  BY <1>2
<1>6. \A d : (\E i \in 1..n : w[i] = d) <=> (\E i \in 2..n : w[i] = d) \/ d = w[1]
  BY <1>5
<1>7. ~\E i \in 2..n : w[i] = w[1]
  <2>1. 1 \notin 2..n
    OBVIOUS
  <2>2. QED
    BY <1>3, <1>5, <2>1
<1>8. NoRepeats(r)
  <2>1. SUFFICES ASSUME NEW i \in 1..m, NEW j \in 1..m, r[i] = r[j] PROVE i = j
    BY <1>1 DEF NoRepeats
  <2>2. i \in 1..n - 1 /\ j \in 1..n - 1 /\ i + 1 \in 1..n /\ j + 1 \in 1..n
    BY <1>2
  <2>3. w[i + 1] = w[j + 1]
    BY <1>2, <2>1, <2>2
  <2>4. i + 1 = j + 1
    BY <1>3, <2>2, <2>3
  <2>5. QED
    BY <2>4
<1>9. QED
  BY <1>1, <1>4, <1>6, <1>7, <1>8

\* What a thread that has done with an item has in its hands.
LEMMA ItemHands ==
    ASSUME Inv, NEW t \in Procs, ItemDone(t), pc[t] \in Freeing
    PROVE  \A d : InTransit(t, d)' <=> \E i \in 2..Len(todo[t]) : todo[t][i] = d
<1>1. \A rest, ph : AfterItem(t, rest, ph)
                       \notin Fresh \cup {"check", "uncount"}
  BY DEF AfterItem, Fresh
<1>2. todo'[t] = Tail(todo[t]) /\ pc'[t] \notin Fresh \cup {"check", "uncount"}
  BY <1>1 DEF ItemDone, Goto, Inv, Typed
<1>3. \A d : InTransit(t, d)' <=>
               \E i \in 1..Len(Tail(todo[t])) : Tail(todo[t])[i] = d
  <2>1. \A d : InTransit(t, d)' <=>
                  \E i \in 1..Len(todo'[t]) : todo'[t][i] = d
    <3>1. pc'[t] \notin Fresh \cup {"check", "uncount"}
      BY <1>2
    <3>2. QED
      BY <3>1, WorkHands
  <2>2. PICK w : w = todo'[t] /\ w = Tail(todo[t])
    BY <1>2
  <2>3. QED
    BY <2>1, <2>2
<1>4. QED
  BY <1>3, TodoTail

LEMMA PlacesReap ==
    ASSUME Inv, NEW t \in Procs, Reap(t) \/ PoolFull(t)
    PROVE  PlacesOK'
<1>1. Alone(t) /\ DOMAIN pc = Procs
  BY FreeAlone DEF FreeStep, Inv, Typed
<1>2. /\ UNCHANGED <<allocated, deferred, refs, poolVars, todo>>
      /\ pc[t] \in {"reap", "put", "free"} /\ pc'[t] \in {"reap", "put", "free"}
  BY <1>1 DEF Reap, PoolFull, Goto, ctxVars, cpVars, workVars
<1>3. PoolEntries' = PoolEntries
  BY <1>2, PoolKept
<1>4. \A d : InTransit(t, d)' <=> InTransit(t, d)
  BY <1>2, WorkHands DEF Fresh
<1>5. \A d : Alive(d)' <=> Alive(d)
  <2>1. CASE Reap(t)
    <3>1. PICK c : c = todo[t][1]
      OBVIOUS
    <3>2. pc[t] = "reap" /\ listed' = listed \ {Head(todo[t])}
      BY <2>1 DEF Reap
    <3>3. listed' = listed \ {c} /\ refs[c] = 0
      BY <3>1, <3>2, ReapIs
    <3>4. QED
      BY <1>2, <3>3 DEF Alive
  <2>2. CASE PoolFull(t)
    BY <2>2 DEF PoolFull, Alive, ctxVars, cpVars
  <2>3. QED
    BY <2>1, <2>2
<1>6. QED
  BY <1>1, <1>2, <1>3, <1>4, <1>5, PlacesSame

LEMMA PlacesPut ==
    ASSUME Inv, NEW t \in Procs, PutInPool(t)
    PROVE  PlacesOK'
<1>1. Alone(t) /\ DOMAIN pc = Procs
  BY FreeAlone DEF FreeStep, Inv, Typed
<1>2. PICK c : c = todo[t][1]
  OBVIOUS
<1>3. /\ UNCHANGED <<allocated, deferred, refs, listed>>
      /\ pc[t] = "put" /\ ItemDone(t)
  BY <1>1 DEF PutInPool, cpVars
<1>4. PoolEntries' = PoolEntries \cup {c} /\ c \in Checkpoints
  BY <1>2, PoolPutStep
<1>5. Away(t, c)
  BY <1>2, <1>3, TodoAway DEF Inv
<1>6. \A d : /\ InTransit(t, d) <=> \E i \in 1..Len(todo[t]) : todo[t][i] = d
             /\ InTransit(t, d)' <=> \E i \in 2..Len(todo[t]) : todo[t][i] = d
  <2>1. pc[t] \notin Fresh \cup {"check", "uncount"} /\ pc[t] \in Freeing
    BY <1>3 DEF Fresh, Freeing
  <2>2. QED
    BY <1>3, <2>1, WorkHands, ItemHands
<1>7. \A d : d # c => (InTransit(t, d)' <=> InTransit(t, d))
  BY <1>2, <1>3, <1>6, TodoTail DEF Freeing
<1>8. ~InTransit(t, c)'
  BY <1>2, <1>3, <1>6, TodoTail DEF Freeing
<1>9. \A d : (Alive(d)' <=> Alive(d)) /\ (Deferred(d)' <=> Deferred(d))
  BY <1>3 DEF Alive, Deferred
<1>10. ASSUME NEW d \in Checkpoints, d # c PROVE PlaceOK(d)'
  BY <1>1, <1>3, <1>4, <1>7, <1>9, <1>10, PlaceKept
<1>11. PlaceOK(c)'
  <2>1. c \in PoolEntries' /\ c \in allocated' /\ ~Deferred(c)'
        /\ \A u \in Procs : u # t => ~InTransit(u, c)
    BY <1>3, <1>4, <1>5, <1>9 DEF Away
  <2>2. QED
    BY <1>1, <1>4, <1>8, <2>1, PlaceGiven
<1>12. QED
  BY <1>10, <1>11, PlacesAll

LEMMA PlacesFree ==
    ASSUME Inv, NEW t \in Procs, FreeCheckpoint(t)
    PROVE  PlacesOK'
<1>1. Alone(t) /\ DOMAIN pc = Procs
  BY FreeAlone DEF FreeStep, Inv, Typed
<1>2. PICK c : c = todo[t][1]
  OBVIOUS
<1>3. /\ UNCHANGED <<deferred, refs, listed, todo, poolVars>>
      /\ pc[t] = "free" /\ pc'[t] = "uncount"
      /\ allocated' = allocated \ {Head(todo[t])}
  BY <1>1 DEF FreeCheckpoint, RAFree, Goto, cpVars, workVars
<1>4. Head(todo[t]) = c /\ c \in Checkpoints
  BY <1>2, <1>3, TodoIs DEF Inv, Freeing
<1>5. PoolEntries' = PoolEntries
  BY <1>3, PoolKept
<1>6. Away(t, c)
  BY <1>2, <1>3, TodoAway DEF Inv
<1>7. \A d : /\ InTransit(t, d) <=> \E i \in 1..Len(todo[t]) : todo[t][i] = d
             /\ InTransit(t, d)' <=> \E i \in 2..Len(todo[t]) : todo[t][i] = d
  <2>1. pc[t] \notin Fresh \cup {"check", "uncount"}
    BY <1>3 DEF Fresh
  <2>2. QED
    BY <1>3, <2>1, WorkHands
<1>8. \A d : d # c => (InTransit(t, d)' <=> InTransit(t, d))
  BY <1>2, <1>3, <1>7, TodoTail DEF Freeing
<1>9. ~InTransit(t, c)'
  BY <1>2, <1>3, <1>7, TodoTail DEF Freeing
<1>10. \A d : (Alive(d)' <=> Alive(d)) /\ (Deferred(d)' <=> Deferred(d))
  BY <1>3 DEF Alive, Deferred
<1>11. ASSUME NEW d \in Checkpoints, d # c PROVE PlaceOK(d)'
  <2>1. d \in allocated' <=> d \in allocated
    BY <1>3, <1>4, <1>11
  <2>2. QED
    BY <1>1, <1>5, <1>8, <1>10, <1>11, <2>1, PlaceKept
<1>12. PlaceOK(c)'
  <2>1. /\ c \notin PoolEntries' /\ c \notin allocated' /\ ~Deferred(c)'
        /\ ~Alive(c)'
        /\ \A u \in Procs : u # t => ~InTransit(u, c)
    BY <1>3, <1>4, <1>5, <1>6, <1>10 DEF Away
  <2>2. QED
    BY <1>1, <1>4, <1>9, <2>1, PlaceGiven
<1>13. QED
  BY <1>11, <1>12, PlacesAll

LEMMA PlacesUncount ==
    ASSUME Inv, NEW t \in Procs, UncountCheckpoint(t)
    PROVE  PlacesOK'
<1>1. Alone(t) /\ DOMAIN pc = Procs
  BY FreeAlone DEF FreeStep, Inv, Typed
<1>2. /\ UNCHANGED <<allocated, deferred, refs, listed, poolVars>>
      /\ pc[t] = "uncount" /\ ItemDone(t)
  BY <1>1 DEF UncountCheckpoint, cpVars
<1>3. PoolEntries' = PoolEntries
  BY <1>2, PoolKept
<1>4. \A d : InTransit(t, d)' <=> InTransit(t, d)
  BY <1>2, WorkHands, ItemHands DEF Freeing
<1>5. \A d : Alive(d)' <=> Alive(d)
  BY <1>2 DEF Alive
<1>6. QED
  BY <1>1, <1>2, <1>3, <1>4, <1>5, PlacesSame

\* AmongIs for a list whose elements are different.
IsAmong(a, s, S) ==
    /\ a \in Seq(Checkpoints) /\ NoRepeats(a)
    /\ \A k \in 1..Len(a) : \E j \in 1..Len(s) : a[k] = s[j] /\ s[j] \in S
    /\ \A j \in 1..Len(s) : s[j] \in S => \E k \in 1..Len(a) : a[k] = s[j]

LEMMA AmongOf ==
    ASSUME NEW s \in Seq(Checkpoints), NoRepeats(s), NEW S
    PROVE  IsAmong(Among(s, S), s, S)
<1>1. /\ Among(s, S) \in Seq(Checkpoints)
      /\ \A k \in 1..Len(Among(s, S)) : \E j \in 1..Len(s) :
            Among(s, S)[k] = s[j] /\ s[j] \in S
      /\ \A j \in 1..Len(s) : s[j] \in S =>
            \E k \in 1..Len(Among(s, S)) : Among(s, S)[k] = s[j]
      /\ NoRepeats(s) => NoRepeats(Among(s, S))
  BY AmongIs, Zenon
<1>2. QED
  BY <1>1 DEF IsAmong

\* What _CheckDeferredCleanupList finds and what it leaves.
LEMMA DeferredSplit ==
    ASSUME Inv, NEW t \in Procs, CheckDeferredCleanupList(t)
    PROVE  /\ pc[t] = "deferred" /\ phase'[t] = "deferred" /\ todo[t] = <<>>
           /\ pc'[t] \in {"reap", "leave", "clean"}
           /\ todo'[t] \in Seq(Checkpoints) /\ deferred' \in Seq(Checkpoints)
           /\ NoRepeats(todo'[t]) /\ NoRepeats(deferred')
           /\ \A i \in 1..Len(todo'[t]) :
                 /\ todo'[t][i] \in Checkpoints /\ Deferred(todo'[t][i])
                 /\ Serviced(todo'[t][i])
           /\ \A i \in 1..Len(deferred') :
                 deferred'[i] \in Checkpoints /\ Deferred(deferred'[i])
           /\ \A d \in Checkpoints :
                 /\ Deferred(d)' <=> Deferred(d) /\ ~Serviced(d)
                 /\ InTransit(t, d)' <=> Deferred(d) /\ Serviced(d)
<1>1. PICK S, N, s, r, q :
         /\ S = {c \in Checkpoints : Serviced(c)}
         /\ N = {c \in Checkpoints : ~Serviced(c)}
         /\ s = deferred /\ r = Among(s, S) /\ q = Among(s, N)
  OBVIOUS
<1>2. /\ DOMAIN pc = Procs /\ DOMAIN todo = Procs /\ DOMAIN phase = Procs
      /\ s \in Seq(Checkpoints) /\ NoRepeats(s)
  BY <1>1 DEF Inv, Typed, ListedOK
<1>3. /\ pc[t] = "deferred" /\ deferred' = q /\ todo'[t] = r
      /\ phase'[t] = "deferred"
      /\ pc'[t] = AfterItem(t, r, "deferred")
  BY <1>1, <1>2 DEF CheckDeferredCleanupList, Goto
<1>4. todo[t] = <<>> /\ pc'[t] \in {"reap", "leave", "clean"}
  BY <1>3 DEF Inv, ControlOK, Freeing, AfterItem
<1>5. /\ r \in Seq(Checkpoints) /\ NoRepeats(r)
      /\ \A k \in 1..Len(r) : \E j \in 1..Len(s) : r[k] = s[j] /\ s[j] \in S
      /\ \A j \in 1..Len(s) : s[j] \in S => \E k \in 1..Len(r) : r[k] = s[j]
  <2>1. IsAmong(Among(s, S), s, S)
    BY <1>2, AmongOf
  <2>2. IsAmong(r, s, S)
    BY <1>1, <2>1
  <2>3. QED
    BY <2>2 DEF IsAmong
<1>6. /\ q \in Seq(Checkpoints) /\ NoRepeats(q)
      /\ \A k \in 1..Len(q) : \E j \in 1..Len(s) : q[k] = s[j] /\ s[j] \in N
      /\ \A j \in 1..Len(s) : s[j] \in N => \E k \in 1..Len(q) : q[k] = s[j]
  <2>1. IsAmong(Among(s, N), s, N)
    BY <1>2, AmongOf
  <2>2. IsAmong(q, s, N)
    BY <1>1, <2>1
  <2>3. QED
    BY <2>2 DEF IsAmong
<1>7. \A d : Deferred(d) <=> \E i \in 1..Len(s) : s[i] = d
  BY <1>1 DEF Deferred
<1>8. \A d : Deferred(d)' <=> \E i \in 1..Len(q) : q[i] = d
  BY <1>3 DEF Deferred
<1>9. \A d : InTransit(t, d)' <=> \E i \in 1..Len(r) : r[i] = d
  <2>1. pc'[t] \notin Fresh \cup {"check", "uncount"}
    BY <1>4 DEF Fresh
  <2>2. \A d : InTransit(t, d)' <=>
                  \E i \in 1..Len(todo'[t]) : todo'[t][i] = d
    BY <2>1, WorkHands
  <2>3. PICK w : w = todo'[t] /\ w = r
    BY <1>3
  <2>4. QED
    BY <2>2, <2>3
<1>10. \A k \in 1..Len(r) : r[k] \in Checkpoints /\ Deferred(r[k]) /\ Serviced(r[k])
  BY <1>1, <1>5, <1>7
<1>11. \A k \in 1..Len(q) : q[k] \in Checkpoints /\ Deferred(q[k]) /\ ~Serviced(q[k])
  BY <1>1, <1>6, <1>7
<1>12. ASSUME NEW d \in Checkpoints
       PROVE  /\ Deferred(d)' <=> Deferred(d) /\ ~Serviced(d)
              /\ InTransit(t, d)' <=> Deferred(d) /\ Serviced(d)
  <2>1. (d \in S <=> Serviced(d)) /\ (d \in N <=> ~Serviced(d))
    BY <1>1
  <2>2. (\E i \in 1..Len(q) : q[i] = d) <=>
           (\E i \in 1..Len(s) : s[i] = d) /\ d \in N
    BY <1>6
  <2>3. (\E i \in 1..Len(r) : r[i] = d) <=>
           (\E i \in 1..Len(s) : s[i] = d) /\ d \in S
    BY <1>5
  <2>4. QED
    BY <1>7, <1>8, <1>9, <2>1, <2>2, <2>3
<1>13. QED
  BY <1>3, <1>4, <1>5, <1>6, <1>10, <1>11, <1>12

LEMMA PlacesDeferred ==
    ASSUME Inv, NEW t \in Procs, CheckDeferredCleanupList(t)
    PROVE  PlacesOK'
<1>1. Alone(t)
  BY FreeAlone DEF FreeStep, Inv
<1>2. UNCHANGED <<allocated, refs, listed, poolVars>>
  BY DEF CheckDeferredCleanupList, cpVars
<1>3. PoolEntries' = PoolEntries
  BY <1>2, PoolKept
<1>4. /\ pc[t] = "deferred" /\ todo[t] = <<>>
      /\ \A d \in Checkpoints :
            /\ Deferred(d)' <=> Deferred(d) /\ ~Serviced(d)
            /\ InTransit(t, d)' <=> Deferred(d) /\ Serviced(d)
  BY DeferredSplit
<1>5. \A d : ~InTransit(t, d)
  BY <1>4, HandIs, HandsAre DEF Fresh
<1>6. \A d : Alive(d)' <=> Alive(d)
  BY <1>2 DEF Alive
<1>7. ASSUME NEW d \in Checkpoints PROVE PlaceOK(d)'
  <2>1. CASE Deferred(d) /\ Serviced(d)
    <3>1. ~Deferred(d)' /\ InTransit(t, d)'
      BY <1>4, <2>1
    <3>2. /\ d \in allocated' /\ ~Alive(d)' /\ d \notin PoolEntries'
          /\ \A u \in Procs : ~InTransit(u, d)
      BY <1>2, <1>3, <1>6, <2>1, PlaceFacts
    <3>3. QED
      BY <1>1, <3>1, <3>2, PlaceTaken
  <2>2. CASE ~(Deferred(d) /\ Serviced(d))
    <3>1. (Deferred(d)' <=> Deferred(d)) /\ ~InTransit(t, d)'
      BY <1>4, <2>2
    <3>2. QED
      BY <1>1, <1>2, <1>3, <1>5, <1>6, <3>1, PlaceKept
  <2>3. QED
    BY <2>1, <2>2
<1>8. QED
  BY <1>7, PlacesAll

\* _CleanCheckpointPool takes the whole pool.
LEMMA PoolSplit ==
    ASSUME Inv, CleanCheckpointPool
    PROVE  /\ pc[Destroyer] = "clean" /\ phase'[Destroyer] = "pool"
           /\ todo[Destroyer] = <<>>
           /\ pc'[Destroyer] \in {"free", "decide"}
           /\ todo'[Destroyer] \in Seq(Checkpoints)
           /\ NoRepeats(todo'[Destroyer])
           /\ \A i \in 1..Len(todo'[Destroyer]) :
                 todo'[Destroyer][i] \in PoolEntries
           /\ \A d : InTransit(Destroyer, d)' <=> d \in PoolEntries
<1>1. PICK r : r = Pooled
  OBVIOUS
<1>2. /\ DOMAIN pc = Procs /\ DOMAIN todo = Procs /\ DOMAIN phase = Procs
      /\ Destroyer \in Procs
  BY ProcsAre DEF Inv, Typed
<1>3. /\ pc[Destroyer] = "clean" /\ todo'[Destroyer] = r
      /\ phase'[Destroyer] = "pool"
      /\ pc'[Destroyer] = AfterItem(Destroyer, r, "pool")
  BY <1>1, <1>2 DEF CleanCheckpointPool, Goto, Pooled
<1>4. todo[Destroyer] = <<>> /\ pc'[Destroyer] \in {"free", "decide"}
  BY <1>2, <1>3 DEF Inv, ControlOK, Freeing, AfterItem
<1>5. /\ r \in Seq(Checkpoints) /\ NoRepeats(r)
      /\ \A c : c \in PoolEntries <=> \E i \in 1..Len(r) : r[i] = c
  BY <1>1, PoolTaken DEF Inv
<1>6. \A d : InTransit(Destroyer, d)' <=> \E i \in 1..Len(r) : r[i] = d
  <2>1. pc'[Destroyer] \notin Fresh \cup {"check", "uncount"}
    BY <1>4 DEF Fresh
  <2>2. \A d : InTransit(Destroyer, d)' <=>
                  \E i \in 1..Len(todo'[Destroyer]) : todo'[Destroyer][i] = d
    BY <2>1, WorkHands
  <2>3. PICK w : w = todo'[Destroyer] /\ w = r
    BY <1>3
  <2>4. QED
    BY <2>2, <2>3
<1>7. \A i \in 1..Len(r) : r[i] \in PoolEntries
  BY <1>5
<1>8. QED
  BY <1>3, <1>4, <1>5, <1>6, <1>7

LEMMA PlacesClean ==
    ASSUME Inv, CleanCheckpointPool
    PROVE  PlacesOK'
<1>1. Alone(Destroyer) /\ Destroyer \in Procs
  BY DestroyAlone, ProcsAre DEF DestroyStep, Inv
<1>2. UNCHANGED <<allocated, refs, listed, deferred>>
  BY DEF CleanCheckpointPool, cpVars
<1>3. PoolEntries' = {}
  BY PoolCleanStep
<1>4. /\ pc[Destroyer] = "clean" /\ todo[Destroyer] = <<>>
      /\ \A d : InTransit(Destroyer, d)' <=> d \in PoolEntries
  BY PoolSplit
<1>5. \A d : ~InTransit(Destroyer, d)
  BY <1>4, HandIs, HandsAre DEF Fresh
<1>6. \A d : (Alive(d)' <=> Alive(d)) /\ (Deferred(d)' <=> Deferred(d))
  BY <1>2 DEF Alive, Deferred
<1>7. ASSUME NEW d \in Checkpoints PROVE PlaceOK(d)'
  <2>1. CASE d \in PoolEntries
    <3>1. /\ d \in allocated' /\ ~Alive(d)' /\ ~Deferred(d)'
          /\ \A u \in Procs : ~InTransit(u, d)
      BY <1>2, <1>6, <2>1, PlaceFacts
    <3>2. QED
      BY <1>1, <1>3, <1>4, <2>1, <3>1, PlaceTaken
  <2>2. CASE d \notin PoolEntries
    BY <1>1, <1>2, <1>3, <1>4, <1>5, <1>6, <2>2, PlaceKept
  <2>3. QED
    BY <2>1, <2>2
<1>8. QED
  BY <1>7, PlacesAll

LEMMA PlacesDestroy ==
    ASSUME Inv, DestroyBegin \/ DestroyRefused \/ DestroyContext
    PROVE  PlacesOK'
<1>1. /\ Alone(Destroyer) /\ Destroyer \in Procs /\ Destroyer \notin Threads
      /\ DOMAIN pc = Procs
  BY DestroyAlone, ProcsAre DEF DestroyStep, Inv, Typed
<1>2. /\ UNCHANGED <<allocated, refs, listed, deferred, poolVars, todo>>
      /\ pc'[Destroyer] \in {"deferred", "done"}
  BY <1>1 DEF DestroyBegin, DestroyRefused, DestroyContext, ctxVars, cpVars,
              workVars, Goto
<1>3. pc[Destroyer] \in {"idle", "decide"}
  BY DEF DestroyBegin, DestroyRefused, DestroyContext, Inv, ControlOK,
         DestroyerOK
<1>4. todo[Destroyer] = <<>> /\ todo'[Destroyer] = <<>>
  BY <1>1, <1>2, <1>3 DEF Inv, ControlOK, Freeing
<1>5. \A d : ~InTransit(Destroyer, d) /\ ~InTransit(Destroyer, d)'
  BY <1>2, <1>3, <1>4, HandIs, HandsAre DEF Fresh
<1>6. PoolEntries' = PoolEntries
  BY <1>2, PoolKept
<1>7. \A d : Alive(d)' <=> Alive(d)
  BY <1>2 DEF Alive
<1>8. QED
  BY <1>1, <1>2, <1>5, <1>6, <1>7, PlacesSame

LEMMA PlacesStill ==
    ASSUME Inv, UNCHANGED <<allocated, refs, listed, deferred, poolVars, todo,
                            pc, kickOut, drops>>
    PROVE  PlacesOK'
<1>1. PoolEntries' = PoolEntries
  BY PoolKept
<1>2. \A c : /\ Alive(c)' <=> Alive(c)
             /\ Deferred(c)' <=> Deferred(c)
             /\ \A t : InTransit(t, c)' <=> InTransit(t, c)
  BY DEF Alive, Deferred, InTransit
<1>3. QED
  BY <1>1, <1>2 DEF PlacesOK, Inv

LEMMA PlacesStep == Inv /\ [Next]_vars => PlacesOK'
<1> SUFFICES ASSUME Inv, [Next]_vars PROVE PlacesOK'
  OBVIOUS
<1>1. ASSUME NEW t \in Threads, ThreadStep(t) PROVE PlacesOK'
  BY <1>1, PlacesIdle, PlacesResolve, PlacesCreate, PlacesCount,
     PlacesPublish, PlacesUnref, PlacesCheckServiced DEF ThreadStep, Kick
<1>2. ASSUME NEW t \in Procs, FreeStep(t) PROVE PlacesOK'
  BY <1>2, PlacesReap, PlacesPut, PlacesFree, PlacesUncount, PlacesDeferred
     DEF FreeStep
<1>3. ASSUME DestroyStep PROVE PlacesOK'
  BY <1>3, PlacesClean, PlacesDestroy DEF DestroyStep
<1>4. ASSUME \/ UNCHANGED vars
             \/ \E c \in Checkpoints : FirmwareProcesses(c)
      PROVE  PlacesOK'
  BY <1>4, PlacesStill DEF FirmwareProcesses, vars, ctxVars, cpVars, kickVars,
                           workVars
<1>5. QED
  BY <1>1, <1>2, <1>3, <1>4, StepIs

---------------------------------------------------------------------------
(* What is known of the checkpoints in each place.                         *)

\* The part of ListedOK about one thread.
FoundOK(u) ==
    /\ pc[u] = "check" => Head(drops[u]) \in listed /\ refs[Head(drops[u])] = 0
    /\ pc[u] \in Fresh => kickOut[u] \notin listed

\* What a thread has in its hands is not touched by the others.
LEMMA OthersUntouched ==
    ASSUME Inv, NEW t \in Procs, NEW u \in Procs, u # t, NEW c \in Checkpoints,
           InTransit(u, c), Touches(t, c)
    PROVE  Untouched(c)
<1>1. Away(u, c)
  BY TransitAway DEF Inv
<1>2. QED
  BY <1>1 DEF Away, Touches

\* The items of todo that TodoOK is about are in the hands of the thread.
LEMMA ItemAway ==
    ASSUME Inv, NEW t \in Procs, NEW i \in 1..Len(todo[t]), pc[t] = "reap" \/ i > 1
    PROVE  todo[t][i] \in Checkpoints /\ InTransit(t, todo[t][i])
<1>0. todo[t] \in Seq(Checkpoints)
  BY DEF Inv, Typed
<1>1. Len(todo[t]) \in Nat /\ todo[t][i] \in Checkpoints
  BY <1>0
<1>2. i > 1 => i \in 2..Len(todo[t])
  BY <1>1
<1>3. todo[t][i] \in {todo[t][j] : j \in 1..Len(todo[t])}
  OBVIOUS
<1>4. i > 1 => todo[t][i] \in {todo[t][j] : j \in 2..Len(todo[t])}
  BY <1>2
<1>5. pc[t] = "uncount" => i > 1
  OBVIOUS
<1>6. InTransit(t, todo[t][i])
  BY <1>3, <1>4, <1>5 DEF InTransit
<1>7. QED
  BY <1>1, <1>6

LEMMA FoundKept ==
    ASSUME Inv, NEW t \in Procs, Alone(t), NEW u \in Threads, u # t,
           \A c \in Checkpoints : Touches(t, c)
    PROVE  FoundOK(u)'
<1>1. /\ u \in Procs /\ FoundOK(u)
      /\ pc'[u] = pc[u] /\ drops'[u] = drops[u] /\ kickOut'[u] = kickOut[u]
  BY ProcsAre DEF Inv, ListedOK, FoundOK, Alone
<1>2. ASSUME pc[u] = "check"
      PROVE  Head(drops[u]) \in listed' /\ refs'[Head(drops[u])] = 0
  <2>1. /\ Head(drops[u]) \in Checkpoints /\ InTransit(u, Head(drops[u]))
        /\ Head(drops[u]) \in listed /\ refs[Head(drops[u])] = 0
    BY <1>2, CheckAway DEF Inv, Away
  <2>2. Untouched(Head(drops[u]))
    BY <1>1, <2>1, OthersUntouched
  <2>3. QED
    BY <2>1, <2>2 DEF Untouched
<1>3. ASSUME pc[u] \in Fresh PROVE kickOut[u] \notin listed'
  <2>1. /\ kickOut[u] \in Checkpoints /\ InTransit(u, kickOut[u])
        /\ kickOut[u] \notin listed
    BY <1>3, FreshAway DEF Inv, Away
  <2>2. Untouched(kickOut[u])
    BY <1>1, <2>1, OthersUntouched
  <2>3. QED
    BY <2>1, <2>2 DEF Untouched
<1>4. QED
  BY <1>1, <1>2, <1>3 DEF FoundOK

\* TodoOK, from the thread's part of the state and what is known of the items.
ItemOK(c, ph) ==
    IF ph = "pool" THEN c \notin listed
    ELSE c \in listed /\ refs[c] = 0 /\ enq[c] = fwRefs[c]

ListOK(w, p, ph) ==
    /\ NoRepeats(w)
    /\ p \in {"put", "free"} => w[1] \notin listed
    /\ \A i \in 1..Len(w) : p = "reap" \/ i > 1 => ItemOK(w[i], ph)

LEMMA TodoListed ==
    \A t : /\ TodoOK(t) <=> ListOK(todo[t], pc[t], phase[t])
           /\ TodoOK(t)' <=> ListOK(todo[t], pc[t], phase[t])'
BY DEF TodoOK, ListOK, ItemOK

LEMMA ItemKept ==
    ASSUME NEW c, NEW ph, Untouched(c), ItemOK(c, ph)
    PROVE  /\ ph = "pool" => c \notin listed'
           /\ ph # "pool" => c \in listed' /\ refs'[c] = 0 /\ enq'[c] = fwRefs'[c]
BY DEF ItemOK, Untouched

LEMMA TodoStays ==
    ASSUME NEW u, TodoOK(u), pc'[u] = pc[u], todo'[u] = todo[u],
           phase'[u] = phase[u],
           \A i \in 1..Len(todo[u]) : pc[u] = "reap" \/ i > 1 =>
                 Untouched(todo[u][i]),
           pc[u] \in {"put", "free"} => Untouched(todo[u][1])
    PROVE  TodoOK(u)'
<1>1. PICK w, p, ph : w = todo[u] /\ p = pc[u] /\ ph = phase[u]
  OBVIOUS
<1>2. /\ NoRepeats(w)
      /\ p \in {"put", "free"} => w[1] \notin listed
      /\ \A i \in 1..Len(w) : p = "reap" \/ i > 1 => ItemOK(w[i], ph)
  BY <1>1, TodoListed DEF ListOK
<1>3. p \in {"put", "free"} => w[1] \notin listed'
  BY <1>1, <1>2 DEF Untouched
<1>4. ASSUME NEW i \in 1..Len(w), p = "reap" \/ i > 1
      PROVE  IF ph = "pool" THEN w[i] \notin listed'
             ELSE w[i] \in listed' /\ refs'[w[i]] = 0 /\ enq'[w[i]] = fwRefs'[w[i]]
  BY <1>1, <1>2, <1>4, ItemKept
<1>5. QED
  BY <1>1, <1>2, <1>3, <1>4 DEF TodoOK

LEMMA TodoKept ==
    ASSUME Inv, NEW t \in Procs, Alone(t), NEW u \in Procs, u # t,
           \A c \in Checkpoints : Touches(t, c)
    PROVE  TodoOK(u)'
<1>1. /\ TodoOK(u) /\ pc'[u] = pc[u] /\ todo'[u] = todo[u]
      /\ phase'[u] = phase[u]
  BY DEF Inv, Alone
<1>2. ASSUME NEW i \in 1..Len(todo[u]), pc[u] = "reap" \/ i > 1
      PROVE  Untouched(todo[u][i])
  BY <1>2, ItemAway, OthersUntouched
<1>3. pc[u] \in {"put", "free"} => Untouched(todo[u][1])
  BY TodoAway, OthersUntouched DEF Inv, Away
<1>4. QED
  BY <1>1, <1>2, <1>3, TodoStays

\* A thread with nothing to free.
LEMMA TodoNone ==
    ASSUME NEW t, todo'[t] = <<>>, pc'[t] \notin Freeing
    PROVE  TodoOK(t)'
<1>1. Len(<<>>) = 0 /\ \A i : i \notin 1..0
  OBVIOUS
<1>2. PICK w : w = todo'[t] /\ w = <<>>
  OBVIOUS
<1>3. \A i : i \notin 1..Len(w)
  BY <1>1, <1>2
<1>4. QED
  BY <1>2, <1>3 DEF TodoOK, NoRepeats, Freeing

LEMMA FoundNone ==
    ASSUME NEW t, pc'[t] \notin Fresh \cup {"check"}
    PROVE  FoundOK(t)'
BY DEF FoundOK

\* The thread that makes the step: it may find a checkpoint,
LEMMA ThreadFound ==
    ASSUME Inv, NEW t \in Threads, ThreadStep(t)
    PROVE  FoundOK(t)'
<1>1. DOMAIN pc = Procs /\ DOMAIN kickOut = Threads /\ DOMAIN refs = Checkpoints
      /\ t \in Procs
  BY InvThread
<1>2. CASE GetFromPool(t)
  <2>1. PICK c : c = slots[rp]
    OBVIOUS
  <2>2. c \in Checkpoints /\ c \in PoolEntries
    BY <1>2, <2>1, PoolGetStep
  <2>3. c \notin listed
    BY <2>2, PlaceFacts
  <2>4. UNCHANGED listed /\ kickOut'[t] = c /\ pc'[t] = "publish"
    BY <1>1, <1>2, <2>1 DEF GetFromPool, Goto
  <2>5. QED
    BY <2>3, <2>4 DEF FoundOK
<1>3. CASE AllocSyncCheckpoint(t)
  <2>1. PICK c \in Checkpoints :
           c \notin allocated /\ kickOut' = [kickOut EXCEPT ![t] = c]
    BY <1>3 DEF AllocSyncCheckpoint, RAAlloc
  <2>2. c \notin listed
    BY <2>1 DEF Inv, ListedOK
  <2>3. UNCHANGED listed /\ kickOut'[t] = c /\ pc'[t] = "counted"
    BY <1>1, <1>3, <2>1 DEF AllocSyncCheckpoint, Goto
  <2>4. QED
    BY <2>2, <2>3 DEF FoundOK
<1>4. CASE CountCheckpoint(t)
  <2>1. UNCHANGED <<listed, kickOut>> /\ pc[t] = "counted" /\ pc'[t] = "publish"
    BY <1>1, <1>4 DEF CountCheckpoint, Goto, kickVars
  <2>2. kickOut[t] \notin listed
    BY <2>1, FreshAway DEF Inv, Fresh
  <2>3. QED
    BY <2>1, <2>2 DEF FoundOK
<1>5. CASE Unref(t)
  <2>1. PICK c : c = Head(drops[t])
    OBVIOUS
  <2>2. Held(c)
    BY <1>5, <2>1, DropHolds DEF Unref, Inv
  <2>3. /\ refs' = [refs EXCEPT ![c] = @ - 1] /\ UNCHANGED <<listed, drops>>
        /\ pc'[t] = (IF refs[c] = 1 THEN "check" ELSE "deferred")
    BY <1>1, <1>5, <2>1 DEF Unref, Goto, workVars
  <2>4. pc'[t] = "check" => refs'[c] = 0 /\ c \in listed'
    BY <1>1, <2>2, <2>3 DEF Held
  <2>5. QED
    BY <2>1, <2>3, <2>4 DEF FoundOK, Fresh
<1>6. CASE ~(\/ GetFromPool(t) \/ AllocSyncCheckpoint(t) \/ CountCheckpoint(t)
             \/ Unref(t))
  <2>1. pc'[t] \notin Fresh \cup {"check"}
    <3> USE <1>1 DEF Goto, Fresh
    <3>1. CASE \/ KickResolve(t) \/ KickWithoutOutput(t) \/ PoolEmpty(t)
               \/ AllocFails(t) \/ Publish(t) \/ AppendFences(t)
               \/ AppendUpdate(t) \/ AcquireFails(t)
      BY <3>1 DEF KickResolve, KickWithoutOutput, PoolEmpty, AllocFails,
                  Publish, AppendFences, AppendUpdate, AcquireFails
    <3>2. CASE \/ WriteCommand(t) \/ Schedule(t) \/ RollbackFences(t)
               \/ RollbackUpdate(t) \/ AbandonKick(t)
      BY <3>2 DEF WriteCommand, Schedule, RollbackFences, RollbackUpdate,
                  AbandonKick
    <3>3. CASE FenceFree(t) \/ CheckServiced(t) \/ Leave(t)
      BY <3>3 DEF FenceFree, CheckServiced, Leave
    <3>4. QED
      BY <1>6, <3>1, <3>2, <3>3 DEF ThreadStep, Kick
  <2>2. QED
    BY <2>1, FoundNone
<1>7. QED
  BY <1>2, <1>3, <1>4, <1>5, <1>6

\* or start to free the checkpoint it has found.
LEMMA ThreadTodo ==
    ASSUME Inv, NEW t \in Threads, ThreadStep(t)
    PROVE  TodoOK(t)'
<1>1. /\ DOMAIN pc = Procs /\ DOMAIN todo = Procs /\ DOMAIN phase = Procs
      /\ t \in Procs
  BY InvThread DEF Inv, Typed
<1>2. CASE CheckServiced(t) /\ pc'[t] = "reap"
  <2>1. PICK c : c = Head(drops[t])
    OBVIOUS
  <2>2. /\ todo'[t] = <<c>> /\ phase'[t] = "direct" /\ Serviced(c)
        /\ UNCHANGED <<listed, refs, enq, fwRefs>> /\ pc[t] = "check"
    BY <1>1, <1>2, <2>1 DEF CheckServiced, Goto, cpVars
  <2>3. c \in listed /\ refs[c] = 0
    BY <2>1, <2>2, CheckAway DEF Inv
  <2>4. PICK w : w = todo'[t] /\ w = <<c>>
    BY <2>2
  <2>5. Len(w) = 1 /\ w[1] = c /\ \A i : i \in 1..1 <=> i = 1
    BY <2>4
  <2>6. \A i \in 1..Len(w) : w[i] \in listed' /\ refs'[w[i]] = 0
                             /\ enq'[w[i]] = fwRefs'[w[i]]
    BY <2>2, <2>3, <2>5 DEF Serviced
  <2>7. NoRepeats(w)
    BY <2>5 DEF NoRepeats
  <2>8. QED
    BY <1>2, <2>2, <2>4, <2>6, <2>7 DEF TodoOK
<1>3. CASE ~(CheckServiced(t) /\ pc'[t] = "reap")
  <2>1. todo'[t] = todo[t] /\ pc'[t] \notin Freeing /\ pc[t] \notin Freeing
    <3> USE <1>1 DEF Goto, Freeing, workVars
    <3>1. CASE \/ KickResolve(t) \/ KickWithoutOutput(t) \/ GetFromPool(t)
               \/ PoolEmpty(t) \/ AllocSyncCheckpoint(t) \/ CountCheckpoint(t)
               \/ AllocFails(t) \/ Publish(t)
      BY <3>1 DEF KickResolve, KickWithoutOutput, GetFromPool, PoolEmpty,
                  AllocSyncCheckpoint, CountCheckpoint, AllocFails, Publish
    <3>2. CASE \/ AppendFences(t) \/ AppendUpdate(t) \/ AcquireFails(t)
               \/ WriteCommand(t) \/ Schedule(t) \/ RollbackFences(t)
               \/ RollbackUpdate(t) \/ AbandonKick(t)
      BY <3>2 DEF AppendFences, AppendUpdate, AcquireFails, WriteCommand,
                  Schedule, RollbackFences, RollbackUpdate, AbandonKick
    <3>3. CASE FenceFree(t) \/ Unref(t) \/ CheckServiced(t) \/ Leave(t)
      BY <1>3, <3>3 DEF FenceFree, Unref, CheckServiced, Leave
    <3>4. QED
      BY <3>1, <3>2, <3>3 DEF ThreadStep, Kick
  <2>2. todo[t] = <<>>
    BY <1>1, <2>1 DEF Inv, ControlOK
  <2>3. QED
    BY <2>1, <2>2, TodoNone
<1>4. QED
  BY <1>2, <1>3

\* The steps that free, and what they leave in todo.
LEMMA RestListed ==
    ASSUME Inv, NEW t \in Procs, ItemDone(t), UNCHANGED phase, pc[t] \in Freeing,
           pc[t] # "reap", UNCHANGED <<listed, refs, enq, fwRefs>>
    PROVE  TodoOK(t)'
<1>1. /\ DOMAIN pc = Procs /\ DOMAIN todo = Procs /\ DOMAIN phase = Procs
      /\ phase[t] \in {"direct", "deferred", "pool"}
  BY DEF Inv, Typed
<1>2. PICK w, r, ph : w = todo[t] /\ r = Tail(w) /\ ph = phase[t]
  OBVIOUS
<1>3. todo'[t] = r /\ pc'[t] = AfterItem(t, r, ph) /\ phase'[t] = ph
  BY <1>1, <1>2 DEF ItemDone, Goto
<1>4. /\ Len(w) \in Nat \ {0} /\ Len(r) = Len(w) - 1
      /\ \A i \in 1..Len(w) - 1 : r[i] = w[i + 1]
      /\ NoRepeats(r)
  BY <1>2, TodoIs, TodoTail DEF Inv
<1>5. \A i \in 1..Len(w) : i > 1 => ItemOK(w[i], ph)
  BY <1>2, TodoListed DEF Inv, ListOK
<1>6. \A i \in 1..Len(r) : ItemOK(r[i], ph)
  <2>1. ASSUME NEW i \in 1..Len(r) PROVE ItemOK(r[i], ph)
    <3>1. i \in 1..Len(w) - 1 /\ i + 1 \in 1..Len(w) /\ i + 1 > 1
      BY <1>4
    <3>2. QED
      BY <1>4, <1>5, <3>1
  <2>2. QED
    BY <2>1
<1>7. \A c : ItemOK(c, ph) =>
         IF ph = "pool" THEN c \notin listed'
         ELSE c \in listed' /\ refs'[c] = 0 /\ enq'[c] = fwRefs'[c]
  BY DEF ItemOK
<1>8. pc'[t] \in {"put", "free"} => r[1] \notin listed'
  <2>1. ASSUME pc'[t] \in {"put", "free"} PROVE r # <<>> /\ ph = "pool"
    BY <1>1, <1>2, <1>3, <2>1 DEF AfterItem
  <2>2. ASSUME r # <<>> PROVE 1 \in 1..Len(r)
    <3>1. w \in Seq(Checkpoints) /\ w # <<>>
      BY <1>2, <1>4, LenProperties, EmptySeq DEF Inv, Typed
    <3>2. r \in Seq(Checkpoints)
      BY <1>2, <3>1, HeadTailProperties
    <3>3. QED
      BY <2>2, <3>2, LenProperties, EmptySeq
  <2>3. QED
    BY <1>6, <1>7, <2>1, <2>2
<1>9. PICK v : v = todo'[t] /\ v = r
  BY <1>3
<1>10. QED
  BY <1>3, <1>4, <1>6, <1>7, <1>8, <1>9 DEF TodoOK

LEMMA TodoReap ==
    ASSUME Inv, NEW t \in Procs, Reap(t)
    PROVE  TodoOK(t)'
<1>1. DOMAIN pc = Procs
  BY DEF Inv, Typed
<1>2. PICK w, ph : w = todo[t] /\ ph = phase[t]
  OBVIOUS
<1>3. pc[t] = "reap"
  BY DEF Reap
<1>4. /\ Head(w) = w[1] /\ ph # "pool" /\ Len(w) \in Nat \ {0}
      /\ 1 \in 1..Len(w) /\ NoRepeats(w)
  BY <1>2, <1>3, ReapIs, TodoIs DEF Inv, Freeing, TodoOK
<1>5. /\ listed' = listed \ {w[1]} /\ UNCHANGED <<refs, enq, fwRefs>>
      /\ pc'[t] = "put" /\ todo'[t] = w /\ phase'[t] = ph
  BY <1>1, <1>2, <1>4 DEF Reap, Goto, cpVars, workVars
<1>6. \A i \in 1..Len(w) : w[i] \in listed /\ refs[w[i]] = 0
                           /\ enq[w[i]] = fwRefs[w[i]]
  BY <1>2, <1>3, <1>4 DEF Inv, TodoOK
<1>7. ASSUME NEW i \in 1..Len(w), i > 1
      PROVE  /\ w[i] \in listed' /\ refs'[w[i]] = 0
             /\ enq'[w[i]] = fwRefs'[w[i]]
  <2>1. w[i] # w[1]
    BY <1>4, <1>7 DEF NoRepeats
  <2>2. QED
    BY <1>5, <1>6, <2>1
<1>8. PICK v : v = todo'[t] /\ v = w
  BY <1>5
<1>9. w[1] \notin listed'
  BY <1>5
<1>10. QED
  BY <1>4, <1>5, <1>7, <1>8, <1>9 DEF TodoOK

\* A step that goes on with the same item.
LEMMA TodoSame ==
    ASSUME Inv, NEW t \in Procs, UNCHANGED <<listed, refs, enq, fwRefs>>,
           todo'[t] = todo[t], phase'[t] = phase[t],
           \/ pc[t] = "put" /\ pc'[t] = "free"
           \/ pc[t] = "free" /\ pc'[t] = "uncount"
    PROVE  TodoOK(t)'
<1>1. PICK w, ph : w = todo[t] /\ ph = phase[t]
  OBVIOUS
<1>2. /\ NoRepeats(w) /\ w[1] \notin listed
      /\ \A i \in 1..Len(w) : i > 1 => ItemOK(w[i], ph)
  BY <1>1, TodoListed DEF Inv, ListOK
<1>3. \A c : ItemOK(c, ph) =>
         IF ph = "pool" THEN c \notin listed'
         ELSE c \in listed' /\ refs'[c] = 0 /\ enq'[c] = fwRefs'[c]
  BY DEF ItemOK
<1>4. QED
  BY <1>1, <1>2, <1>3 DEF TodoOK

LEMMA TodoDeferred ==
    ASSUME Inv, NEW t \in Procs, CheckDeferredCleanupList(t)
    PROVE  TodoOK(t)'
<1>1. /\ phase'[t] = "deferred" /\ pc'[t] \in {"reap", "leave", "clean"}
      /\ NoRepeats(todo'[t])
      /\ \A i \in 1..Len(todo'[t]) :
            /\ todo'[t][i] \in Checkpoints /\ Deferred(todo'[t][i])
            /\ Serviced(todo'[t][i])
  BY DeferredSplit
<1>2. UNCHANGED <<listed, refs, enq, fwRefs>>
  BY DEF CheckDeferredCleanupList, cpVars
<1>3. PICK w : w = todo'[t]
  OBVIOUS
<1>4. ASSUME NEW i \in 1..Len(w)
      PROVE  w[i] \in listed' /\ refs'[w[i]] = 0 /\ enq'[w[i]] = fwRefs'[w[i]]
  <2>1. w[i] \in Checkpoints /\ Deferred(w[i]) /\ enq[w[i]] = fwRefs[w[i]]
    BY <1>1, <1>3 DEF Serviced
  <2>2. QED
    BY <1>2, <2>1, PlaceFacts
<1>5. QED
  BY <1>1, <1>3, <1>4 DEF TodoOK

LEMMA FreeTodo ==
    ASSUME Inv, NEW t \in Procs, FreeStep(t)
    PROVE  TodoOK(t)'
<1>1. DOMAIN pc = Procs
  BY DEF Inv, Typed
<1>2. CASE PutInPool(t) \/ UncountCheckpoint(t)
  <2>1. /\ ItemDone(t) /\ pc[t] \in Freeing /\ pc[t] # "reap"
        /\ UNCHANGED <<phase, listed, refs, enq, fwRefs>>
    BY <1>2 DEF PutInPool, UncountCheckpoint, Freeing, cpVars
  <2>2. QED
    BY <2>1, RestListed
<1>3. CASE PoolFull(t) \/ FreeCheckpoint(t)
  <2>1. /\ UNCHANGED <<listed, refs, enq, fwRefs, todo, phase>>
        /\ \/ pc[t] = "put" /\ pc'[t] = "free"
           \/ pc[t] = "free" /\ pc'[t] = "uncount"
    BY <1>1, <1>3 DEF PoolFull, FreeCheckpoint, Goto, ctxVars, cpVars, workVars
  <2>2. QED
    BY <2>1, TodoSame
<1>4. QED
  BY <1>2, <1>3, TodoReap, TodoDeferred DEF FreeStep

LEMMA FreeFound ==
    ASSUME Inv, NEW t \in Procs, FreeStep(t)
    PROVE  FoundOK(t)'
<1>1. pc'[t] \notin Fresh \cup {"check"}
  BY FreeMoves DEF Fresh, Freeing
<1>2. QED
  BY <1>1, FoundNone

LEMMA DestroyTodo ==
    ASSUME Inv, DestroyStep
    PROVE  TodoOK(Destroyer)'
<1>1. /\ DOMAIN pc = Procs /\ Destroyer \in Procs
  BY ProcsAre DEF Inv, Typed
<1>2. CASE CleanCheckpointPool
  <2>1. /\ phase'[Destroyer] = "pool" /\ pc'[Destroyer] \in {"free", "decide"}
        /\ todo'[Destroyer] \in Seq(Checkpoints)
        /\ NoRepeats(todo'[Destroyer])
        /\ \A i \in 1..Len(todo'[Destroyer]) :
              todo'[Destroyer][i] \in PoolEntries
    BY <1>2, PoolSplit
  <2>2. UNCHANGED listed
    BY <1>2 DEF CleanCheckpointPool
  <2>3. PICK w : w = todo'[Destroyer]
    OBVIOUS
  <2>4. \A i \in 1..Len(w) : w[i] \notin listed'
    BY <2>1, <2>2, <2>3 DEF Inv, ListedOK
  <2>5. pc'[Destroyer] = "free" => 1 \in 1..Len(w)
    <3>1. pc'[Destroyer] = "free" => todo'[Destroyer] # <<>>
      BY DestroyControl DEF TodoControl, Freeing
    <3>2. pc'[Destroyer] = "free" => w # <<>>
      BY <2>3, <3>1
    <3>3. w \in Seq(Checkpoints)
      BY <2>1, <2>3
    <3>4. QED
      BY <3>2, <3>3, LenProperties, EmptySeq
  <2>6. pc'[Destroyer] \in {"put", "free"} => w[1] \notin listed'
    BY <2>1, <2>4, <2>5
  <2>7. QED
    BY <2>1, <2>3, <2>4, <2>6 DEF TodoOK
<1>3. CASE DestroyBegin \/ DestroyRefused \/ DestroyContext
  <2>1. /\ pc[Destroyer] \in {"idle", "decide"} /\ UNCHANGED todo
        /\ pc'[Destroyer] \in {"deferred", "done"}
    BY <1>1, <1>3 DEF DestroyBegin, DestroyRefused, DestroyContext, workVars,
       Goto, Inv, ControlOK, DestroyerOK
  <2>2. todo[Destroyer] = <<>> /\ pc'[Destroyer] \notin Freeing
    BY <1>1, <2>1 DEF Inv, ControlOK, Freeing
  <2>3. QED
    BY <2>1, <2>2, TodoNone
<1>4. QED
  BY <1>2, <1>3 DEF DestroyStep

LEMMA DestroyTouches ==
    ASSUME DestroyStep, NEW c
    PROVE  Touches(Destroyer, c)
<1>1. UNCHANGED <<listed, refs, enq, fwRefs, inCCB>>
  BY DEF DestroyStep, DestroyBegin, CleanCheckpointPool, DestroyRefused,
         DestroyContext, ctxVars, cpVars, fwVars
<1>2. QED
  BY <1>1, TouchNone DEF Touches

\* The firmware only processes uses of listed checkpoints.
LEMMA FirmwareIs ==
    ASSUME Inv, NEW c \in Checkpoints, FirmwareProcesses(c)
    PROVE  /\ c \in listed /\ enq[c] # fwRefs[c]
           /\ UNCHANGED <<ctxVars, refs, enq, pc, kickVars, workVars>>
           /\ \A d \in Checkpoints : d # c => Untouched(d)
<1>1. inCCB[c] > 0 /\ UNCHANGED <<ctxVars, refs, enq, pc, kickVars, workVars>>
  BY DEF FirmwareProcesses
<1>2. c \in listed
  BY <1>1 DEF Inv, ListedOK
<1>3. enq[c] # fwRefs[c]
  BY <1>1, <1>2, UsesIs
<1>4. \A d \in Checkpoints : d # c => Untouched(d)
  BY <1>1, UsesIs DEF FirmwareProcesses, Untouched, ctxVars
<1>5. QED
  BY <1>1, <1>2, <1>3, <1>4

LEMMA FirmwareTodo ==
    ASSUME Inv, NEW c \in Checkpoints, FirmwareProcesses(c), NEW u \in Procs
    PROVE  TodoOK(u)'
<1>1. /\ UNCHANGED <<pc, todo, phase>> /\ c \in listed /\ enq[c] # fwRefs[c]
      /\ \A d \in Checkpoints : d # c => Untouched(d)
      /\ TodoOK(u)
  BY FirmwareIs DEF workVars, Inv
<1>2. ASSUME NEW i \in 1..Len(todo[u]), pc[u] = "reap" \/ i > 1
      PROVE  Untouched(todo[u][i])
  <2>1. ItemOK(todo[u][i], phase[u])
    BY <1>1, <1>2, TodoListed DEF ListOK
  <2>2. todo[u][i] # c
    BY <1>1, <2>1 DEF ItemOK
  <2>3. QED
    BY <1>1, <1>2, <2>2, ItemAway
<1>3. pc[u] \in {"put", "free"} => Untouched(todo[u][1])
  <2>1. ASSUME pc[u] \in {"put", "free"}
        PROVE  todo[u][1] \notin listed /\ todo[u][1] \in Checkpoints
    BY <1>1, <2>1, TodoAway DEF Inv, Away, TodoOK
  <2>2. QED
    BY <1>1, <2>1
<1>4. QED
  BY <1>1, <1>2, <1>3, TodoStays

LEMMA TodoStep == Inv /\ [Next]_vars => \A u \in Procs : TodoOK(u)'
<1> SUFFICES ASSUME Inv, [Next]_vars, NEW u \in Procs PROVE TodoOK(u)'
  OBVIOUS
<1>1. ASSUME NEW t \in Threads, ThreadStep(t) PROVE TodoOK(u)'
  <2>1. Alone(t) /\ t \in Procs /\ \A c \in Checkpoints : Touches(t, c)
    BY <1>1, ThreadAlone, ThreadTouches, ProcsAre DEF Inv
  <2>2. CASE u = t
    BY <1>1, <2>2, ThreadTodo
  <2>3. CASE u # t
    BY <2>1, <2>3, TodoKept
  <2>4. QED
    BY <2>2, <2>3
<1>2. ASSUME NEW t \in Procs, FreeStep(t) PROVE TodoOK(u)'
  <2>1. Alone(t) /\ \A c \in Checkpoints : Touches(t, c)
    BY <1>2, FreeAlone, FreeTouches DEF Inv
  <2>2. CASE u = t
    BY <1>2, <2>2, FreeTodo
  <2>3. CASE u # t
    BY <2>1, <2>3, TodoKept
  <2>4. QED
    BY <2>2, <2>3
<1>3. ASSUME DestroyStep PROVE TodoOK(u)'
  <2>1. /\ Alone(Destroyer) /\ Destroyer \in Procs
        /\ \A c \in Checkpoints : Touches(Destroyer, c)
    BY <1>3, DestroyAlone, DestroyTouches, ProcsAre DEF Inv
  <2>2. CASE u = Destroyer
    BY <1>3, <2>2, DestroyTodo
  <2>3. CASE u # Destroyer
    BY <2>1, <2>3, TodoKept
  <2>4. QED
    BY <2>2, <2>3
<1>4. ASSUME NEW c \in Checkpoints, FirmwareProcesses(c) PROVE TodoOK(u)'
  BY <1>4, FirmwareTodo
<1>5. ASSUME UNCHANGED vars PROVE TodoOK(u)'
  <2>1. TodoOK(u) /\ UNCHANGED <<todo, phase, pc, listed, refs, enq, fwRefs>>
    BY <1>5 DEF Inv, vars, ctxVars, cpVars, workVars
  <2>2. QED
    BY <2>1 DEF TodoOK, NoRepeats
<1>6. QED
  BY <1>1, <1>2, <1>3, <1>4, <1>5, StepIs

\* What a step does to the references of a checkpoint and to the global list.
LEMMA StepTouches ==
    ASSUME Inv, [Next]_vars, NEW c \in Checkpoints
    PROVE  \/ \E t \in Procs : Touches(t, c)
           \/ c \in listed /\ c \in listed' /\ refs'[c] = refs[c]
<1>1. ASSUME NEW t \in Threads, ThreadStep(t)
      PROVE  \E u \in Procs : Touches(u, c)
  BY <1>1, ThreadTouches, ProcsAre
<1>2. ASSUME NEW t \in Procs, FreeStep(t) PROVE \E u \in Procs : Touches(u, c)
  BY <1>2, FreeTouches
<1>3. ASSUME DestroyStep PROVE \E u \in Procs : Touches(u, c)
  BY <1>3, DestroyTouches, ProcsAre
<1>4. ASSUME NEW d \in Checkpoints, FirmwareProcesses(d)
      PROVE  \/ \E u \in Procs : Touches(u, c)
             \/ c \in listed /\ c \in listed' /\ refs'[c] = refs[c]
  <2>1. /\ d \in listed /\ UNCHANGED ctxVars /\ UNCHANGED refs
        /\ d # c => Untouched(c)
    BY <1>4, FirmwareIs
  <2>2. QED
    BY <2>1, ProcsAre DEF Touches, ctxVars
<1>5. ASSUME UNCHANGED vars PROVE \E u \in Procs : Touches(u, c)
  <2>1. Untouched(c)
    BY <1>5, TouchNone DEF vars, ctxVars, cpVars, fwVars
  <2>2. QED
    BY <2>1, ProcsAre DEF Touches
<1>6. QED
  BY <1>1, <1>2, <1>3, <1>4, <1>5, StepIs

\* A deferred or pooled checkpoint is not touched by any step.
LEMMA Settled ==
    ASSUME Inv, [Next]_vars, NEW c \in Checkpoints,
           Deferred(c) \/ c \in PoolEntries
    PROVE  (c \in listed' <=> c \in listed) /\ refs'[c] = refs[c]
<1>1. ~Alive(c) /\ \A t \in Procs : ~InTransit(t, c)
  BY PlaceFacts
<1>2. QED
  BY <1>1, StepTouches DEF Touches, Untouched

LEMMA UnlistedStep ==
    ASSUME Inv, [Next]_vars, NEW c \in Checkpoints, c \notin listed'
    PROVE  refs'[c] = 0 /\ inCCB'[c] = 0
<1>1. c \notin listed => refs[c] = 0 /\ inCCB[c] = 0
  BY DEF Inv, ListedOK
<1>2. QED
  BY <1>1, StepTouches DEF Touches, Untouched

LEMMA AllocatedStep ==
    ASSUME Inv, [Next]_vars
    PROVE  listed' \subseteq allocated'
<1>0. listed \subseteq allocated
  BY DEF Inv, ListedOK
<1>1. ASSUME NEW t \in Threads, ThreadStep(t) PROVE listed' \subseteq allocated'
  <2>1. CASE Publish(t)
    <3>1. UNCHANGED allocated /\ listed' = listed \cup {kickOut[t]}
          /\ pc[t] \in Fresh
      BY <2>1 DEF Publish, Fresh
    <3>2. kickOut[t] \in allocated
      BY <3>1, FreshAway DEF Inv, Away
    <3>3. QED
      BY <1>0, <3>1, <3>2
  <2>2. CASE AllocSyncCheckpoint(t)
    BY <1>0, <2>2 DEF AllocSyncCheckpoint, RAAlloc
  <2>3. CASE Kick(t) /\ ~Publish(t) /\ ~AllocSyncCheckpoint(t)
    BY <1>0, <2>3, KickMoves
  <2>4. CASE FenceFree(t) \/ Unref(t) \/ CheckServiced(t) \/ Leave(t)
    BY <1>0, <2>4 DEF FenceFree, Unref, CheckServiced, Leave, ctxVars
  <2>5. QED
    BY <1>1, <2>1, <2>2, <2>3, <2>4 DEF ThreadStep
<1>2. ASSUME NEW t \in Procs, FreeStep(t) PROVE listed' \subseteq allocated'
  <2>1. CASE FreeCheckpoint(t)
    <3>1. /\ UNCHANGED listed /\ allocated' = allocated \ {Head(todo[t])}
          /\ pc[t] = "free"
      BY <2>1 DEF FreeCheckpoint, RAFree
    <3>2. Head(todo[t]) = todo[t][1] /\ todo[t][1] \notin listed
      BY <3>1, TodoIs DEF Inv, TodoOK, Freeing
    <3>3. QED
      BY <1>0, <3>1, <3>2
  <2>2. CASE Reap(t)
    BY <1>0, <2>2 DEF Reap
  <2>3. QED
    BY <1>0, <1>2, <2>1, <2>2, FreeMoves
<1>3. ASSUME \/ DestroyStep \/ UNCHANGED vars
             \/ \E c \in Checkpoints : FirmwareProcesses(c)
      PROVE  listed' \subseteq allocated'
  BY <1>0, <1>3 DEF DestroyStep, DestroyBegin, CleanCheckpointPool,
     DestroyRefused, DestroyContext, FirmwareProcesses, vars, ctxVars
<1>4. QED
  BY <1>1, <1>2, <1>3, StepIs

LEMMA PooledStep ==
    ASSUME Inv, [Next]_vars, NEW c \in PoolEntries'
    PROVE  c \notin listed'
<1>1. ASSUME NEW d \in PoolEntries PROVE d \notin listed'
  <2>1. d \in Checkpoints /\ d \notin listed
    BY DEF Inv, ListedOK, Typed
  <2>2. QED
    BY <2>1, Settled
<1>2. CASE UNCHANGED poolVars
  BY <1>1, <1>2, PoolKept
<1>3. ASSUME NEW t \in Threads, GetFromPool(t) PROVE c \notin listed'
  BY <1>1, <1>3, PoolGetStep
<1>4. ASSUME NEW t \in Procs, PutInPool(t) PROVE c \notin listed'
  <2>1. PoolEntries' = PoolEntries \cup {todo[t][1]}
    BY <1>4, PoolPutStep
  <2>2. pc[t] = "put" /\ UNCHANGED listed
    BY <1>4 DEF PutInPool
  <2>3. todo[t][1] \notin listed'
    BY <2>2 DEF Inv, TodoOK
  <2>4. QED
    BY <1>1, <2>1, <2>3
<1>5. CASE CleanCheckpointPool
  BY <1>5, PoolCleanStep
<1>6. QED
  BY <1>2, <1>3, <1>4, <1>5, PoolMoves

LEMMA DeferredMoves ==
    ASSUME Inv, [Next]_vars
    PROVE  \/ UNCHANGED deferred
           \/ \E t \in Threads : CheckServiced(t)
           \/ \E t \in Procs : CheckDeferredCleanupList(t)
<1>1. ASSUME NEW t \in Threads, ThreadStep(t)
      PROVE  UNCHANGED deferred \/ CheckServiced(t)
  BY <1>1, KickMoves DEF ThreadStep, FenceFree, Unref, Leave, ctxVars
<1>2. ASSUME NEW t \in Procs, FreeStep(t)
      PROVE  UNCHANGED deferred \/ CheckDeferredCleanupList(t)
  BY <1>2 DEF FreeStep, Reap, PutInPool, PoolFull, FreeCheckpoint,
              UncountCheckpoint, ctxVars
<1>3. ASSUME \/ DestroyStep \/ UNCHANGED vars
             \/ \E c \in Checkpoints : FirmwareProcesses(c)
      PROVE  UNCHANGED deferred
  BY <1>3 DEF DestroyStep, DestroyBegin, CleanCheckpointPool, DestroyRefused,
              DestroyContext, FirmwareProcesses, vars, ctxVars
<1>4. QED
  BY <1>1, <1>2, <1>3, StepIs

DeferredOK ==
    /\ NoRepeats(deferred)
    /\ \A i \in 1..Len(deferred) :
          deferred[i] \in listed /\ refs[deferred[i]] = 0

LEMMA DeferredAppend ==
    ASSUME Inv, NEW t \in Threads, CheckServiced(t)
    PROVE  DeferredOK'
<1>1. PICK c, s, n : c = Head(drops[t]) /\ s = deferred /\ n = Len(s)
  OBVIOUS
<1>2. pc[t] = "check" /\ UNCHANGED <<listed, refs>>
  BY DEF CheckServiced, cpVars
<1>3. c \in Checkpoints /\ ~Deferred(c) /\ c \in listed /\ refs[c] = 0
  BY <1>1, <1>2, CheckAway DEF Inv, Away
<1>4. /\ s \in Seq(Checkpoints) /\ NoRepeats(s)
      /\ \A i \in 1..n : s[i] \in listed /\ refs[s[i]] = 0 /\ s[i] # c
  BY <1>1, <1>3 DEF Inv, Typed, ListedOK, Deferred
<1>5. CASE UNCHANGED deferred
  BY <1>1, <1>2, <1>4, <1>5 DEF DeferredOK, NoRepeats
<1>6. CASE ~UNCHANGED deferred
  <2>1. PICK r : r = Append(s, c)
    OBVIOUS
  <2>2. deferred' = r
    BY <1>1, <1>6, <2>1 DEF CheckServiced
  <2>3. /\ n \in Nat /\ Len(r) = n + 1 /\ r[n + 1] = c
        /\ \A i \in 1..n : r[i] = s[i]
    BY <1>1, <1>3, <1>4, <2>1, AppendProperties, LenProperties
  <2>4. \A i : i \in 1..n + 1 <=> i \in 1..n \/ i = n + 1
    BY <2>3
  <2>5. \A i, j \in 1..n : s[i] = s[j] => i = j
    BY <1>1, <1>4 DEF NoRepeats
  <2>6. \A i, j \in 1..Len(r) : r[i] = r[j] => i = j
    BY <1>4, <2>3, <2>4, <2>5
  <2>7. \A i \in 1..Len(r) : r[i] \in listed' /\ refs'[r[i]] = 0
    BY <1>2, <1>3, <1>4, <2>3, <2>4
  <2>8. QED
    BY <2>2, <2>6, <2>7 DEF DeferredOK, NoRepeats
<1>7. QED
  BY <1>5, <1>6

LEMMA DeferredStep ==
    ASSUME Inv, [Next]_vars
    PROVE  DeferredOK'
<1>1. NoRepeats(deferred) /\ deferred \in Seq(Checkpoints)
  BY DEF Inv, ListedOK, Typed
<1>2. ASSUME NEW c \in Checkpoints, Deferred(c)
      PROVE  c \in listed' /\ refs'[c] = 0
  BY <1>2, Settled, PlaceFacts
<1>3. CASE UNCHANGED deferred
  <2>1. \A i \in 1..Len(deferred) :
           deferred[i] \in Checkpoints /\ Deferred(deferred[i])
    BY <1>1 DEF Deferred
  <2>2. \A i \in 1..Len(deferred) :
           deferred[i] \in listed' /\ refs'[deferred[i]] = 0
    BY <1>2, <2>1
  <2>3. QED
    BY <1>1, <1>3, <2>2 DEF DeferredOK, NoRepeats
<1>4. ASSUME NEW t \in Procs, CheckDeferredCleanupList(t) PROVE DeferredOK'
  <2>1. /\ NoRepeats(deferred')
        /\ \A i \in 1..Len(deferred') :
              deferred'[i] \in Checkpoints /\ Deferred(deferred'[i])
    BY <1>4, DeferredSplit
  <2>2. PICK q : q = deferred'
    OBVIOUS
  <2>3. \A i \in 1..Len(q) : q[i] \in Checkpoints /\ Deferred(q[i])
    BY <2>1, <2>2
  <2>4. \A i \in 1..Len(q) : q[i] \in listed' /\ refs'[q[i]] = 0
    BY <1>2, <2>3
  <2>5. QED
    BY <2>1, <2>2, <2>4 DEF DeferredOK, NoRepeats
<1>5. QED
  BY <1>3, <1>4, DeferredAppend, DeferredMoves

LEMMA FoundStep ==
    ASSUME Inv, [Next]_vars, NEW u \in Threads
    PROVE  FoundOK(u)'
<1>1. ASSUME NEW t \in Threads, ThreadStep(t) PROVE FoundOK(u)'
  <2>1. Alone(t) /\ t \in Procs /\ \A c \in Checkpoints : Touches(t, c)
    BY <1>1, ThreadAlone, ThreadTouches, ProcsAre DEF Inv
  <2>2. CASE u = t
    BY <1>1, <2>2, ThreadFound
  <2>3. CASE u # t
    BY <2>1, <2>3, FoundKept
  <2>4. QED
    BY <2>2, <2>3
<1>2. ASSUME NEW t \in Procs, FreeStep(t) PROVE FoundOK(u)'
  <2>1. Alone(t) /\ \A c \in Checkpoints : Touches(t, c)
    BY <1>2, FreeAlone, FreeTouches DEF Inv
  <2>2. CASE u = t
    BY <1>2, <2>2, FreeFound
  <2>3. CASE u # t
    BY <2>1, <2>3, FoundKept
  <2>4. QED
    BY <2>2, <2>3
<1>3. ASSUME DestroyStep PROVE FoundOK(u)'
  <2>1. /\ Alone(Destroyer) /\ Destroyer \in Procs /\ u # Destroyer
        /\ \A c \in Checkpoints : Touches(Destroyer, c)
    BY <1>3, DestroyAlone, DestroyTouches, ProcsAre DEF Inv
  <2>2. QED
    BY <2>1, FoundKept
<1>4. FoundOK(u)
  BY DEF FoundOK, Inv, ListedOK
<1>5. ASSUME NEW c \in Checkpoints, FirmwareProcesses(c) PROVE FoundOK(u)'
  BY <1>4, <1>5, FirmwareIs DEF FoundOK, ctxVars, kickVars, workVars
<1>6. ASSUME UNCHANGED vars PROVE FoundOK(u)'
  BY <1>4, <1>6 DEF FoundOK, vars, ctxVars, cpVars, kickVars, workVars
<1>7. QED
  BY <1>1, <1>2, <1>3, <1>5, <1>6, StepIs

LEMMA ListedStep == Inv /\ [Next]_vars => ListedOK'
<1> SUFFICES ASSUME Inv, [Next]_vars PROVE ListedOK'
  OBVIOUS
<1>1. listed' \subseteq allocated' /\ DeferredOK'
  BY AllocatedStep, DeferredStep
<1>2. \A c \in Checkpoints \ listed' : refs'[c] = 0 /\ inCCB'[c] = 0
  BY UnlistedStep
<1>3. \A c \in PoolEntries' : c \notin listed'
  BY PooledStep
<1>4. \A u \in Threads : FoundOK(u)'
  BY FoundStep
<1>5. QED
  BY <1>1, <1>2, <1>3, <1>4 DEF ListedOK, DeferredOK, FoundOK

---------------------------------------------------------------------------
(* Types.                                                                  *)

\* The counters of checkpoints are integers,
CountersTyped ==
    /\ refs \in [Checkpoints -> Int] /\ enq \in [Checkpoints -> Int]
    /\ fwRefs \in [Checkpoints -> Nat] /\ fence \in [Checkpoints -> BOOLEAN]
    /\ inCCB \in [Checkpoints -> Nat]
    /\ unkicked \in [Threads -> [Checkpoints -> Int]]

LEMMA CountersAre ==
    ASSUME Inv
    PROVE  /\ CountersTyped
           /\ \A t \in Threads : /\ kickIn[t] \in OptCheckpoint
                                 /\ kickOut[t] \in OptCheckpoint
           /\ listed \subseteq Checkpoints
BY DEF Inv, Typed, CountersTyped

LEMMA CountersSame ==
    ASSUME Inv, UNCHANGED <<refs, enq, fwRefs, inCCB, unkicked>>,
           fence' \in [Checkpoints -> BOOLEAN]
    PROVE  CountersTyped'
BY CountersAre DEF CountersTyped

LEMMA CountersThread ==
    ASSUME Inv, NEW t \in Threads, ThreadStep(t)
    PROVE  CountersTyped'
<1>0. CountersTyped /\ kickIn[t] \in OptCheckpoint /\ kickOut[t] \in OptCheckpoint
      /\ listed \subseteq Checkpoints /\ NoCheckpoint \notin Checkpoints
  BY CountersAre, ProcsAre
<1>1. CASE KickResolve(t)
  <2>1. UNCHANGED <<enq, fwRefs, fence, inCCB, unkicked>>
    BY <1>1 DEF KickResolve, fwVars
  <2>2. PICK d \in OptCheckpoint :
           refs' = IF d = NoCheckpoint THEN refs ELSE [refs EXCEPT ![d] = @ + 1]
    BY <1>1 DEF KickResolve, OptCheckpoint
  <2>3. refs' \in [Checkpoints -> Int]
    BY <1>0, <2>2 DEF CountersTyped, OptCheckpoint
  <2>4. QED
    BY <1>0, <2>1, <2>3 DEF CountersTyped
<1>2. CASE Publish(t)
  <2>1. UNCHANGED <<inCCB, unkicked>>
    BY <1>2 DEF Publish, fwVars
  <2>2. PICK c : c = kickOut[t]
    OBVIOUS
  <2>3. /\ refs' = [refs EXCEPT ![c] = 1] /\ enq' = [enq EXCEPT ![c] = 0]
        /\ fwRefs' = [fwRefs EXCEPT ![c] = 0]
        /\ fence' = [fence EXCEPT ![c] = TRUE]
    BY <1>2, <2>2 DEF Publish
  <2>4. c \in Checkpoints
    BY <1>2, <2>2, FreshAway DEF Publish, Fresh, Inv, Away
  <2>5. /\ refs' \in [Checkpoints -> Int] /\ enq' \in [Checkpoints -> Int]
        /\ fwRefs' \in [Checkpoints -> Nat]
    BY <1>0, <2>3, <2>4 DEF CountersTyped
  <2>6. fence' \in [Checkpoints -> BOOLEAN]
    BY <1>0, <2>3, <2>4 DEF CountersTyped
  <2>7. QED
    BY <1>0, <2>1, <2>5, <2>6 DEF CountersTyped
<1>3. CASE Schedule(t)
  <2>1. /\ UNCHANGED <<refs, enq, fwRefs, fence>>
        /\ inCCB' = [c \in Checkpoints |-> inCCB[c] + unkicked[t][c]]
        /\ unkicked' = [unkicked EXCEPT ![t] = [c \in Checkpoints |-> 0]]
    BY <1>3 DEF Schedule, cpVars
  <2>2. \A c \in Checkpoints : unkicked[t][c] \in Nat
    BY DEF Inv, Typed
  <2>3. QED
    BY <1>0, <2>1, <2>2 DEF CountersTyped
<1>4. CASE Unref(t)
  <2>1. PICK c : c = Head(drops[t])
    OBVIOUS
  <2>2. /\ UNCHANGED <<enq, fwRefs, fence, inCCB, unkicked>>
        /\ refs' = [refs EXCEPT ![c] = @ - 1]
    BY <1>4, <2>1 DEF Unref, fwVars
  <2>3. c \in Checkpoints
    BY <1>4, <2>1, DropHolds DEF Unref, Inv, Held
  <2>4. refs' \in [Checkpoints -> Int]
    BY <1>0, <2>2, <2>3 DEF CountersTyped
  <2>5. QED
    BY <1>0, <2>2, <2>4 DEF CountersTyped
<1>5. CASE \/ AppendFences(t) \/ AppendUpdate(t)
           \/ RollbackFences(t) \/ RollbackUpdate(t)
  <2>1. UNCHANGED <<refs, fwRefs, fence, inCCB>>
    BY <1>5 DEF AppendFences, AppendUpdate, RollbackFences, RollbackUpdate
  <2>2. PICK c \in OptCheckpoint : AppendCheckpoint(t, c) \/ RollbackFromUFO(t, c)
    BY <1>0, <1>5 DEF AppendFences, AppendUpdate, RollbackFences, RollbackUpdate
  <2>3. enq' \in [Checkpoints -> Int]
    BY <1>0, <2>2 DEF CountersTyped, AppendCheckpoint, RollbackFromUFO,
       OptCheckpoint
  <2>4. unkicked' \in [Threads -> [Checkpoints -> Int]]
    <3>1. \/ UNCHANGED unkicked
          \/ unkicked' = [unkicked EXCEPT ![t][c] = @ + 1]
          \/ unkicked' = [unkicked EXCEPT ![t][c] = @ - 1]
      BY <2>2 DEF AppendCheckpoint, RollbackFromUFO
    <3>2. unkicked \in [Threads -> [Checkpoints -> Int]]
      BY <1>0 DEF CountersTyped
    <3>3. QED
      BY <3>1, <3>2
  <2>5. QED
    BY <1>0, <2>1, <2>3, <2>4 DEF CountersTyped
<1>6. CASE \/ KickWithoutOutput(t) \/ GetFromPool(t) \/ PoolEmpty(t)
           \/ AllocSyncCheckpoint(t) \/ CountCheckpoint(t) \/ AllocFails(t)
           \/ AcquireFails(t) \/ WriteCommand(t) \/ AbandonKick(t)
           \/ FenceFree(t) \/ CheckServiced(t) \/ Leave(t)
  <2>1. UNCHANGED <<refs, enq, fwRefs, inCCB, unkicked>>
    <3> USE DEF cpVars, fwVars
    <3>1. CASE \/ KickWithoutOutput(t) \/ GetFromPool(t) \/ PoolEmpty(t)
               \/ AllocSyncCheckpoint(t) \/ CountCheckpoint(t) \/ AllocFails(t)
      BY <3>1 DEF KickWithoutOutput, GetFromPool, PoolEmpty,
                  AllocSyncCheckpoint, CountCheckpoint, AllocFails
    <3>2. CASE \/ AcquireFails(t) \/ WriteCommand(t) \/ AbandonKick(t)
               \/ FenceFree(t) \/ CheckServiced(t) \/ Leave(t)
      BY <3>2 DEF AcquireFails, WriteCommand, AbandonKick, FenceFree,
                  CheckServiced, Leave
    <3>3. QED
      BY <1>6, <3>1, <3>2
  <2>2. fence' \in [Checkpoints -> BOOLEAN]
    <3>0. fence \in [Checkpoints -> BOOLEAN]
      BY <1>0 DEF CountersTyped
    <3>1. CASE AbandonKick(t) \/ FenceFree(t)
      BY <3>0, <3>1 DEF AbandonKick, FenceFree
    <3>2. CASE ~(AbandonKick(t) \/ FenceFree(t))
      BY <1>6, <3>0, <3>2 DEF KickWithoutOutput, GetFromPool, PoolEmpty,
         AllocSyncCheckpoint, CountCheckpoint, AllocFails, AcquireFails,
         WriteCommand, CheckServiced, Leave, cpVars
    <3>3. QED
      BY <3>1, <3>2
  <2>3. QED
    BY <2>1, <2>2, CountersSame
<1>7. QED
  BY <1>1, <1>2, <1>3, <1>4, <1>5, <1>6 DEF ThreadStep, Kick

LEMMA CountersStep ==
    ASSUME Inv, [Next]_vars
    PROVE  CountersTyped'
<1>0. fence \in [Checkpoints -> BOOLEAN]
  BY DEF Inv, Typed
<1>1. ASSUME NEW t \in Threads, ThreadStep(t) PROVE CountersTyped'
  BY <1>1, CountersThread
<1>2. ASSUME NEW t \in Procs, FreeStep(t) PROVE CountersTyped'
  <2>1. UNCHANGED <<refs, enq, fwRefs, inCCB, unkicked, fence>>
    BY <1>2 DEF FreeStep, Reap, PutInPool, PoolFull, FreeCheckpoint,
       UncountCheckpoint, CheckDeferredCleanupList, cpVars, fwVars
  <2>2. QED
    BY <1>0, <2>1, CountersSame
<1>3. ASSUME DestroyStep \/ UNCHANGED vars PROVE CountersTyped'
  <2>1. UNCHANGED <<refs, enq, fwRefs, inCCB, unkicked, fence>>
    BY <1>3 DEF DestroyStep, DestroyBegin, CleanCheckpointPool,
       DestroyRefused, DestroyContext, vars, cpVars, fwVars
  <2>2. QED
    BY <1>0, <2>1, CountersSame
<1>4. ASSUME NEW c \in Checkpoints, FirmwareProcesses(c) PROVE CountersTyped'
  <2>1. CountersTyped
    BY CountersAre
  <2>2. /\ inCCB' = [inCCB EXCEPT ![c] = @ - 1]
        /\ fwRefs' = [fwRefs EXCEPT ![c] = @ + 1]
        /\ inCCB[c] > 0 /\ UNCHANGED <<refs, enq, fence, unkicked>>
    BY <1>4 DEF FirmwareProcesses
  <2>3. QED
    BY <2>1, <2>2 DEF CountersTyped
<1>5. QED
  BY <1>1, <1>2, <1>3, <1>4, StepIs

\* and so are natural numbers, by what they count.
LEMMA CountersNat ==
    ASSUME CountersTyped', RefsCount', UsesCount',
           \A c \in Checkpoints : c \notin listed' => enq'[c] \in Nat
    PROVE  /\ refs' \in [Checkpoints -> Nat] /\ enq' \in [Checkpoints -> Nat]
           /\ unkicked' \in [Threads -> [Checkpoints -> Nat]]
<1>1. \A t \in Threads, c \in Checkpoints : unkicked'[t][c] \in 0..1
  BY DEF UsesCount
<1>2. ASSUME NEW c \in Checkpoints PROVE refs'[c] \in Nat
  <2>1. HeldBy(c)' \in SUBSET (Procs \X {1, 2})
    BY DEF HeldBy
  <2>2. IsFiniteSet({1} \cup {2}) /\ {1} \cup {2} = {1, 2}
    BY FS_Singleton, FS_AddElement
  <2>3. IsFiniteSet(Procs \X {1, 2})
    BY <2>2, FS_Product, ProcsAre
  <2>4. Cardinality(HeldBy(c)') \in Nat
    BY <2>1, <2>3, FS_Subset, FS_CardinalityType
  <2>5. QED
    BY <2>4 DEF RefsCount
<1>3. ASSUME NEW c \in Checkpoints, c \in listed' PROVE enq'[c] \in Nat
  <2>1. Unkicked(c)' \subseteq Threads \X {1}
    BY <1>1 DEF Unkicked
  <2>2. IsFiniteSet(Threads \X {1})
    BY FS_Product, FS_Singleton, ProcsAre
  <2>3. Cardinality(Unkicked(c)') \in Nat
    BY <2>1, <2>2, FS_Subset, FS_CardinalityType
  <2>4. enq'[c] = fwRefs'[c] + (inCCB'[c] + Cardinality(Unkicked(c)'))
    BY <1>3 DEF UsesCount, Outstanding
  <2>5. QED
    BY <2>3, <2>4 DEF CountersTyped
<1>4. refs' \in [Checkpoints -> Nat] /\ enq' \in [Checkpoints -> Nat]
  BY <1>2, <1>3 DEF CountersTyped
<1>5. unkicked' \in [Threads -> [Checkpoints -> Nat]]
  BY <1>1 DEF CountersTyped
<1>6. QED
  BY <1>4, <1>5

\* What the threads hold.
WorkTyped ==
    /\ written \in [Threads -> BOOLEAN]
    /\ pc \in [Procs -> {"idle", "create", "alloc", "counted", "publish",
               "fences", "update", "acquire", "schedule", "rollback",
               "rollback2", "abandon", "unref", "check", "reap", "put", "free",
               "uncount", "deferred", "leave", "clean", "decide", "done"}]
    /\ kickIn \in [Threads -> OptCheckpoint]
    /\ kickOut \in [Threads -> OptCheckpoint]
    /\ drops \in [Threads -> Seq(Checkpoints)]
    /\ todo \in [Procs -> Seq(Checkpoints)]
    /\ phase \in [Procs -> {"direct", "deferred", "pool"}]
    /\ destroyed \in {"no", "begun", "failed", "ok"}

LEMMA WorkIs ==
    ASSUME Inv
    PROVE  WorkTyped
BY DEF Inv, Typed, WorkTyped

LEMMA WorkKickTyped ==
    ASSUME Inv, NEW t \in Threads, Kick(t) \/ FenceFree(t)
    PROVE  WorkTyped'
<1>0. /\ WorkTyped /\ t \in Procs /\ DOMAIN drops = Threads
      /\ NoCheckpoint \in OptCheckpoint
      /\ OptSeq(kickIn[t]) \in Seq(Checkpoints)
      /\ OptSeq(kickOut[t]) \o OptSeq(kickIn[t]) \in Seq(Checkpoints)
  BY WorkIs, ProcsAre, OptSeqIs, OptPair DEF WorkTyped, OptCheckpoint
<1> USE DEF WorkTyped, Goto, fwVars, kickVars, workVars
<1>1. CASE KickResolve(t)
  <2>1. PICK c \in OptCheckpoint : kickIn' = [kickIn EXCEPT ![t] = c]
    BY <1>1 DEF KickResolve, OptCheckpoint
  <2>2. QED
    BY <1>0, <1>1, <2>1 DEF KickResolve
<1>2. CASE KickWithoutOutput(t) \/ PoolEmpty(t) \/ CountCheckpoint(t) \/ Publish(t)
  BY <1>0, <1>2 DEF KickWithoutOutput, PoolEmpty, CountCheckpoint, Publish
<1>3. CASE GetFromPool(t)
  <2>1. slots[rp] \in OptCheckpoint
    BY <1>3, PoolGetStep DEF OptCheckpoint
  <2>2. QED
    BY <1>0, <1>3, <2>1 DEF GetFromPool
<1>4. CASE AllocSyncCheckpoint(t)
  <2>1. PICK c \in OptCheckpoint : kickOut' = [kickOut EXCEPT ![t] = c]
    BY <1>4 DEF AllocSyncCheckpoint, OptCheckpoint
  <2>2. QED
    BY <1>0, <1>4, <2>1 DEF AllocSyncCheckpoint
<1>5. CASE AllocFails(t)
  BY <1>0, <1>5 DEF AllocFails
<1>6. CASE \/ AppendFences(t) \/ AppendUpdate(t) \/ AcquireFails(t)
           \/ WriteCommand(t) \/ RollbackFences(t) \/ RollbackUpdate(t)
  BY <1>0, <1>6 DEF AppendFences, AppendUpdate, AcquireFails, WriteCommand,
                    RollbackFences, RollbackUpdate
<1>7. CASE Schedule(t)
  BY <1>0, <1>7 DEF Schedule
<1>8. CASE AbandonKick(t)
  BY <1>0, <1>8 DEF AbandonKick
<1>9. CASE FenceFree(t)
  <2>1. PICK c \in Checkpoints : drops' = [drops EXCEPT ![t] = <<c>>]
    BY <1>9 DEF FenceFree
  <2>2. <<c>> \in Seq(Checkpoints)
    OBVIOUS
  <2>3. QED
    BY <1>0, <1>9, <2>1, <2>2 DEF FenceFree
<1>10. QED
  BY <1>1, <1>2, <1>3, <1>4, <1>5, <1>6, <1>7, <1>8, <1>9 DEF Kick

LEMMA WorkUnrefTyped ==
    ASSUME Inv, NEW t \in Threads, Unref(t) \/ CheckServiced(t) \/ Leave(t)
    PROVE  WorkTyped'
<1>0. WorkTyped /\ t \in Procs
  BY WorkIs, ProcsAre
<1>1. pc[t] \in Dropped \cup {"unref"}
  BY DEF Unref, CheckServiced, Leave, Dropped
<1>2. /\ Head(drops[t]) \in Checkpoints /\ Tail(drops[t]) \in Seq(Checkpoints)
  BY <1>1, DropsAre DEF Inv
<1>3. <<Head(drops[t])>> \in Seq(Checkpoints)
  BY <1>2
<1> USE DEF WorkTyped, Goto, fwVars, kickVars, workVars
<1>4. CASE Unref(t)
  BY <1>0, <1>4 DEF Unref
<1>5. CASE CheckServiced(t)
  BY <1>0, <1>3, <1>5 DEF CheckServiced
<1>6. CASE Leave(t)
  BY <1>0, <1>2, <1>6 DEF Leave
<1>7. QED
  BY <1>4, <1>5, <1>6

LEMMA WorkFreeTyped ==
    ASSUME Inv, NEW t \in Procs, FreeStep(t)
    PROVE  WorkTyped'
<1>0. WorkTyped
  BY WorkIs
<1> USE DEF WorkTyped, Goto, fwVars, kickVars, workVars
<1>1. CASE Reap(t) \/ PoolFull(t) \/ FreeCheckpoint(t)
  BY <1>0, <1>1 DEF Reap, PoolFull, FreeCheckpoint
<1>2. CASE PutInPool(t) \/ UncountCheckpoint(t)
  <2>1. pc[t] \in Freeing /\ ItemDone(t)
        /\ UNCHANGED <<written, kickIn, kickOut, drops, phase, destroyed>>
    BY <1>2 DEF PutInPool, UncountCheckpoint, Freeing
  <2>2. Tail(todo[t]) \in Seq(Checkpoints)
    BY <2>1, TodoIs DEF Inv
  <2>3. \A r, ph : AfterItem(t, r, ph) \in
           {"free", "reap", "deferred", "decide", "clean", "leave"}
    BY DEF AfterItem
  <2>4. QED
    BY <1>0, <2>1, <2>2, <2>3 DEF ItemDone
<1>3. CASE CheckDeferredCleanupList(t)
  <2>1. /\ todo'[t] \in Seq(Checkpoints) /\ pc'[t] \in {"reap", "leave", "clean"}
    BY <1>3, DeferredSplit
  <2>2. PICK r, p : /\ todo' = [todo EXCEPT ![t] = r]
                    /\ pc' = [pc EXCEPT ![t] = p]
    BY <1>3 DEF CheckDeferredCleanupList
  <2>3. r \in Seq(Checkpoints) /\ p \in {"reap", "leave", "clean"}
    BY <1>0, <2>1, <2>2
  <2>4. /\ phase' = [phase EXCEPT ![t] = "deferred"]
        /\ UNCHANGED <<written, kickIn, kickOut, drops, destroyed>>
    BY <1>3 DEF CheckDeferredCleanupList
  <2>5. QED
    BY <1>0, <2>2, <2>3, <2>4
<1>4. QED
  BY <1>1, <1>2, <1>3 DEF FreeStep

LEMMA WorkDestroyTyped ==
    ASSUME Inv, DestroyStep
    PROVE  WorkTyped'
<1>0. WorkTyped /\ Destroyer \in Procs
  BY WorkIs, ProcsAre
<1> USE DEF WorkTyped, Goto, fwVars, kickVars, workVars
<1>1. CASE DestroyBegin \/ DestroyRefused \/ DestroyContext
  BY <1>0, <1>1 DEF DestroyBegin, DestroyRefused, DestroyContext
<1>2. CASE CleanCheckpointPool
  <2>1. /\ todo'[Destroyer] \in Seq(Checkpoints)
        /\ pc'[Destroyer] \in {"free", "decide"}
    BY <1>2, PoolSplit
  <2>2. PICK r, p : /\ todo' = [todo EXCEPT ![Destroyer] = r]
                    /\ pc' = [pc EXCEPT ![Destroyer] = p]
    BY <1>2 DEF CleanCheckpointPool
  <2>3. r \in Seq(Checkpoints) /\ p \in {"free", "decide"}
    BY <1>0, <2>1, <2>2
  <2>4. /\ phase' = [phase EXCEPT ![Destroyer] = "pool"]
        /\ UNCHANGED <<written, kickIn, kickOut, drops, destroyed>>
    BY <1>2 DEF CleanCheckpointPool
  <2>5. QED
    BY <1>0, <2>2, <2>3, <2>4
<1>3. QED
  BY <1>1, <1>2 DEF DestroyStep

LEMMA WorkStep ==
    ASSUME Inv, [Next]_vars
    PROVE  WorkTyped'
<1>1. ASSUME \/ UNCHANGED vars
             \/ \E c \in Checkpoints : FirmwareProcesses(c)
      PROVE  WorkTyped'
  BY <1>1, WorkIs DEF WorkTyped, FirmwareProcesses, vars, fwVars, kickVars,
                      workVars
<1>2. QED
  BY <1>1, WorkKickTyped, WorkUnrefTyped, WorkFreeTyped, WorkDestroyTyped,
     StepIs DEF ThreadStep

\* The enqueue count of a checkpoint that is not listed.
LEMMA UnlistedEnqueued ==
    ASSUME Inv, [Next]_vars, NEW c \in Checkpoints, c \notin listed'
    PROVE  enq'[c] \in Nat
<1>0. enq \in [Checkpoints -> Nat] /\ NoCheckpoint \notin Checkpoints
      /\ listed \subseteq Checkpoints
  BY ProcsAre DEF Inv, Typed
<1>1. ASSUME NEW t \in Threads, ThreadStep(t) PROVE enq'[c] \in Nat
  <2>1. CASE Publish(t)
    <3>1. enq' = [enq EXCEPT ![kickOut[t]] = 0]
      BY <2>1 DEF Publish
    <3>2. QED
      BY <1>0, <3>1
  <2>2. CASE \/ AppendFences(t) \/ AppendUpdate(t)
             \/ RollbackFences(t) \/ RollbackUpdate(t)
    <3>1. UNCHANGED listed
      BY <2>2 DEF AppendFences, AppendUpdate, RollbackFences, RollbackUpdate,
                  ctxVars
    <3>2. PICK d : AppendCheckpoint(t, d) \/ RollbackFromUFO(t, d)
      BY <2>2 DEF AppendFences, AppendUpdate, RollbackFences, RollbackUpdate
    <3>3. \/ enq' = enq \/ enq' = [enq EXCEPT ![d] = @ + 1]
          \/ d \in listed /\ enq' = [enq EXCEPT ![d] = @ - 1]
      BY <3>2 DEF AppendCheckpoint, RollbackFromUFO
    <3>4. QED
      BY <1>0, <3>1, <3>3
  <2>3. CASE ~(\/ Publish(t) \/ AppendFences(t) \/ AppendUpdate(t)
               \/ RollbackFences(t) \/ RollbackUpdate(t))
    <3>1. CASE \/ KickResolve(t) \/ KickWithoutOutput(t) \/ GetFromPool(t)
               \/ PoolEmpty(t) \/ AllocSyncCheckpoint(t) \/ CountCheckpoint(t)
               \/ AllocFails(t)
      BY <1>0, <3>1 DEF KickResolve, KickWithoutOutput, GetFromPool, PoolEmpty,
                  AllocSyncCheckpoint, CountCheckpoint, AllocFails, cpVars
    <3>2. CASE \/ AcquireFails(t) \/ WriteCommand(t) \/ Schedule(t)
               \/ AbandonKick(t) \/ FenceFree(t) \/ Unref(t)
               \/ CheckServiced(t) \/ Leave(t)
      BY <1>0, <3>2 DEF AcquireFails, WriteCommand, Schedule, AbandonKick,
                  FenceFree, Unref, CheckServiced, Leave, cpVars
    <3>3. QED
      BY <1>1, <2>3, <3>1, <3>2 DEF ThreadStep, Kick
  <2>4. QED
    BY <2>1, <2>2, <2>3
<1>2. ASSUME NEW t \in Procs, FreeStep(t) PROVE enq'[c] \in Nat
  BY <1>0, <1>2 DEF FreeStep, Reap, PutInPool, PoolFull, FreeCheckpoint,
     UncountCheckpoint, CheckDeferredCleanupList, cpVars
<1>3. ASSUME \/ DestroyStep \/ UNCHANGED vars
             \/ \E d \in Checkpoints : FirmwareProcesses(d)
      PROVE  enq'[c] \in Nat
  BY <1>0, <1>3 DEF DestroyStep, DestroyBegin, CleanCheckpointPool,
     DestroyRefused, DestroyContext, FirmwareProcesses, vars, cpVars
<1>4. QED
  BY <1>1, <1>2, <1>3, StepIs

ContextTyped ==
    /\ ctxFreed \in BOOLEAN /\ allocated \subseteq Checkpoints
    /\ deferred \in Seq(Checkpoints)

LEMMA ContextTypedStep ==
    ASSUME Inv, [Next]_vars
    PROVE  ContextTyped'
<1>0. ctxFreed \in BOOLEAN /\ allocated \subseteq Checkpoints
      /\ deferred \in Seq(Checkpoints)
  BY DEF Inv, Typed
<1>1. deferred' \in Seq(Checkpoints)
  <2>1. CASE UNCHANGED deferred
    BY <1>0, <2>1
  <2>2. ASSUME NEW t \in Threads, CheckServiced(t)
        PROVE  deferred' \in Seq(Checkpoints)
    <3>1. Head(drops[t]) \in Checkpoints
      BY <2>2, CheckAway DEF CheckServiced, Inv, Away
    <3>2. Append(deferred, Head(drops[t])) \in Seq(Checkpoints)
      BY <1>0, <3>1, AppendProperties
    <3>3. QED
      BY <1>0, <2>2, <3>2 DEF CheckServiced
  <2>3. QED
    BY <2>1, <2>2, DeferredMoves, DeferredSplit
<1>2. ASSUME NEW t \in Threads, ThreadStep(t)
      PROVE  ctxFreed' \in BOOLEAN /\ allocated' \subseteq Checkpoints
  <2>1. CASE AllocSyncCheckpoint(t)
    BY <1>0, <2>1 DEF AllocSyncCheckpoint, RAAlloc, ContextRef
  <2>2. CASE Kick(t) /\ ~AllocSyncCheckpoint(t)
    BY <1>0, <2>2, KickMoves
  <2>3. CASE FenceFree(t) \/ Unref(t) \/ CheckServiced(t) \/ Leave(t)
    BY <1>0, <2>3 DEF FenceFree, Unref, CheckServiced, Leave, ContextRef,
                      ContextUnref, ctxVars
  <2>4. QED
    BY <1>2, <2>1, <2>2, <2>3 DEF ThreadStep
<1>3. ASSUME NEW t \in Procs, FreeStep(t)
      PROVE  ctxFreed' \in BOOLEAN /\ allocated' \subseteq Checkpoints
  <2>1. CASE FreeCheckpoint(t)
    BY <1>0, <2>1 DEF FreeCheckpoint, RAFree, ContextUnref
  <2>2. CASE ~FreeCheckpoint(t)
    BY <1>0, <1>3, <2>2, FreeMoves
  <2>3. QED
    BY <2>1, <2>2
<1>4. ASSUME \/ DestroyStep \/ UNCHANGED vars
             \/ \E d \in Checkpoints : FirmwareProcesses(d)
      PROVE  ctxFreed' \in BOOLEAN /\ allocated' \subseteq Checkpoints
  BY <1>0, <1>4 DEF DestroyStep, DestroyBegin, CleanCheckpointPool,
     DestroyRefused, DestroyContext, ContextUnref, FirmwareProcesses, vars,
     ctxVars
<1>5. QED
  BY <1>1, <1>2, <1>3, <1>4, StepIs DEF ContextTyped

\* The counts of the context are natural numbers, by what they count.
LEMMA ContextNat ==
    ASSUME ContextOK', allocated' \subseteq Checkpoints,
           listed' \subseteq Checkpoints
    PROVE  /\ ctxRefs' \in Nat /\ count' \in Nat /\ inUse' \in Nat
           /\ imported' \subseteq Blocks
<1>1. /\ allocated' \in SUBSET Checkpoints /\ listed' \in SUBSET Checkpoints
      /\ (allocated \ Uncounted)' \in SUBSET Checkpoints
      /\ Inside' \in SUBSET Threads /\ Uncounting' \in SUBSET Procs
  BY DEF Inside, Uncounting
<1>2. /\ IsFiniteSet(allocated') /\ IsFiniteSet(listed')
      /\ IsFiniteSet((allocated \ Uncounted)')
      /\ IsFiniteSet(Inside') /\ IsFiniteSet(Uncounting')
  BY <1>1, ProcsAre, FS_Subset
<1>3. imported' = {BlockOf[c] : c \in allocated'}
  BY DEF ContextOK
<1>4. IsFiniteSet(imported')
  <2>1. PICK f, A, B : f = [c \in A |-> BlockOf[c]] /\ A = allocated' /\ B = imported'
    OBVIOUS
  <2>2. f \in [A -> B] /\ \A b \in B : \E c \in A : f[c] = b
    BY <1>3, <2>1
  <2>3. f \in Surjection(A, B)
    BY <2>2 DEF Surjection
  <2>4. QED
    BY <1>2, <2>1, <2>3, FS_Surjection
<1>5. /\ Cardinality(imported') \in Nat /\ Cardinality(Inside') \in Nat
      /\ Cardinality((allocated \ Uncounted)') \in Nat
      /\ Cardinality(Uncounting') \in Nat /\ Cardinality(listed') \in Nat
  BY <1>2, <1>4, FS_CardinalityType
<1>6. /\ ctxRefs' = (IF destroyed' = "ok" THEN 0 ELSE 1)
                    + Cardinality(imported') + Cardinality(Inside')
      /\ count' = Cardinality((allocated \ Uncounted)') + Cardinality(Uncounting')
      /\ inUse' = Cardinality(listed')
  BY DEF ContextOK
<1>7. imported' \subseteq Blocks
  BY <1>3, SyncCheckpointAssumption
<1>8. QED
  BY <1>5, <1>6, <1>7

LEMMA TypedStep == Inv /\ [Next]_vars => Typed'
<1> SUFFICES ASSUME Inv, [Next]_vars PROVE Typed'
  OBVIOUS
<1>1. CountersTyped' /\ WorkTyped' /\ ContextTyped' /\ PoolTyped'
  BY CountersStep, WorkStep, ContextTypedStep, PoolStep
<1>2. RefsCount' /\ UsesCount' /\ ContextOK' /\ listed' \subseteq allocated'
  BY RefsStep, UsesStep, ContextStep, AllocatedStep
<1>3. allocated' \subseteq Checkpoints /\ listed' \subseteq Checkpoints
  BY <1>1, <1>2 DEF ContextTyped
<1>4. /\ ctxRefs' \in Nat /\ count' \in Nat /\ inUse' \in Nat
      /\ imported' \subseteq Blocks
  BY <1>2, <1>3, ContextNat
<1>5. \A c \in Checkpoints : c \notin listed' => enq'[c] \in Nat
  BY UnlistedEnqueued
<1>6. /\ refs' \in [Checkpoints -> Nat] /\ enq' \in [Checkpoints -> Nat]
      /\ unkicked' \in [Threads -> [Checkpoints -> Nat]]
  BY <1>1, <1>2, <1>5, CountersNat
<1>7. QED
  BY <1>1, <1>3, <1>4, <1>6 DEF Typed, CountersTyped, WorkTyped, ContextTyped,
                                PoolTyped

LEMMA InvStep == Inv /\ [Next]_vars => Inv'
BY TypedStep, ControlStep, OutputsStep, PoolStep, ListedStep, TodoStep,
   RefsStep, UsesStep, PlacesStep, ContextStep DEF Inv

---------------------------------------------------------------------------
(* The initial state.                                                      *)

\* The pool holds InitialPool, from slot 0 on.
LEMMA InitPool ==
    ASSUME Init
    PROVE  /\ PoolOK /\ PoolTyped /\ PoolEntries = allocated
           /\ allocated \subseteq Checkpoints
<1>1. PICK n : n = Len(InitialPool)
  OBVIOUS
<1>2. /\ PoolSize \in Nat \ {0} /\ n \in Nat /\ n <= PoolSize
      /\ \A i \in 1..n : InitialPool[i] \in Checkpoints
      /\ \A i, j \in 1..n : InitialPool[i] = InitialPool[j] => i = j
  BY <1>1, SyncCheckpointAssumption, LenProperties, ElementOfSeq
<1>3. /\ slots = [i \in 0..PoolSize - 1 |->
                    IF i < n THEN InitialPool[i + 1] ELSE NoCheckpoint]
      /\ rp = 0 /\ wp = n % PoolSize /\ poolCount = n /\ full = (n = PoolSize)
      /\ allocated = {InitialPool[i] : i \in 1..n}
  BY <1>1 DEF Init
<1>4. \A i \in 0..n - 1 : /\ i \in 0..PoolSize - 1 /\ (0 + i) % PoolSize = i
                          /\ i + 1 \in 1..n /\ i < n
  BY <1>2
<1>5. \A i \in 0..n - 1 : slots[(rp + i) % PoolSize] = InitialPool[i + 1]
  BY <1>2, <1>3, <1>4
<1>6. wp \in 0..PoolSize - 1 /\ wp = (rp + poolCount) % PoolSize
      /\ rp \in 0..PoolSize - 1 /\ poolCount \in 0..PoolSize
  BY <1>2, <1>3
<1>7. slots \in [0..PoolSize - 1 -> OptCheckpoint]
  <2>1. \A i \in 0..PoolSize - 1 :
           (IF i < n THEN InitialPool[i + 1] ELSE NoCheckpoint) \in OptCheckpoint
    BY <1>2 DEF OptCheckpoint
  <2>2. QED
    BY <1>3, <2>1
<1>8. PoolEntries = allocated
  <2>1. PoolEntries = {InitialPool[i + 1] : i \in 0..n - 1}
    BY <1>3, <1>5 DEF PoolEntries
  <2>2. \A i \in 1..n : i - 1 \in 0..n - 1 /\ (i - 1) + 1 = i
    BY <1>2
  <2>3. QED
    BY <1>3, <1>4, <2>1, <2>2
<1>9. \A i, j \in 0..n - 1 :
         slots[(rp + i) % PoolSize] = slots[(rp + j) % PoolSize] => i = j
  BY <1>2, <1>4, <1>5
<1>10. PoolOK
  BY <1>3, <1>6, <1>9 DEF PoolOK
<1>11. allocated \subseteq Checkpoints
  BY <1>2, <1>3
<1>12. QED
  BY <1>3, <1>6, <1>7, <1>8, <1>10, <1>11 DEF PoolTyped

LEMMA InitEmpty ==
    ASSUME Init
    PROVE  /\ \A c : ~Deferred(c) /\ ~Alive(c)
           /\ \A t \in Procs : \A c : ~InTransit(t, c)
           /\ \A t, k, c : t \in Procs /\ k \in {1, 2} /\ c \in Checkpoints =>
                 ~Holds(t, k, c)
           /\ \A t \in Threads, c \in Checkpoints : ~Using(t, c)
<1>1. \A w : w = <<>> => Len(w) = 0 /\ \A i : i \notin 1..Len(w) /\ i \notin 2..Len(w)
  OBVIOUS
<1>2. /\ deferred = <<>> /\ listed = {}
      /\ \A t \in Procs : pc[t] = "idle" /\ todo[t] = <<>>
      /\ \A t \in Threads : kickIn[t] = NoCheckpoint /\ drops[t] = <<>>
                            /\ kickOut[t] = NoCheckpoint
      /\ \A c \in Checkpoints : fence[c] = FALSE
      /\ NoCheckpoint \notin Checkpoints /\ Threads \subseteq Procs
  BY ProcsAre DEF Init
<1>3. \A c : ~Deferred(c) /\ ~Alive(c)
  BY <1>1, <1>2 DEF Deferred, Alive
<1>4. \A t \in Procs : \A c : ~InTransit(t, c)
  BY <1>1, <1>2 DEF InTransit
<1>5. ASSUME NEW t \in Procs, NEW k \in {1, 2}, NEW c \in Checkpoints
      PROVE  ~Holds(t, k, c)
  <2>1. ASSUME t \in Threads PROVE Len(drops[t]) = 0 /\ ~(k <= Len(drops[t]))
    BY <1>1, <1>2, <2>1
  <2>2. QED
    BY <1>2, <2>1 DEF Holds, ThreadHolds
<1>6. \A t \in Threads, c \in Checkpoints : ~Using(t, c)
  BY <1>2 DEF Using
<1>7. QED
  BY <1>3, <1>4, <1>5, <1>6

LEMMA InitWork ==
    ASSUME Init
    PROVE  ControlOK /\ OutputsOK /\ WorkTyped /\ \A t \in Procs : TodoOK(t)
<1>1. Len(<<>>) = 0 /\ <<>> \in Seq(Checkpoints) /\ \A i : i \notin 1..0
  OBVIOUS
<1>2. /\ pc = [t \in Procs |-> "idle"] /\ todo = [t \in Procs |-> <<>>]
      /\ phase = [t \in Procs |-> "direct"] /\ destroyed = "no"
      /\ kickIn = [t \in Threads |-> NoCheckpoint]
      /\ kickOut = [t \in Threads |-> NoCheckpoint]
      /\ drops = [t \in Threads |-> <<>>]
      /\ written = [t \in Threads |-> FALSE]
      /\ Threads \subseteq Procs /\ Destroyer \in Procs
  BY ProcsAre DEF Init
<1>3. \A t \in Threads : ThreadOK(t)
  <2>1. ASSUME NEW t \in Threads
        PROVE  /\ pc[t] = "idle" /\ kickIn[t] = NoCheckpoint
               /\ kickOut[t] = NoCheckpoint /\ drops[t] = <<>>
               /\ Len(drops[t]) = 0 /\ ~written[t] /\ phase[t] = "direct"
    BY <1>1, <1>2
  <2>2. QED
    BY <2>1 DEF ThreadOK, Fresh, Owning, Submitted, Dropped, Freeing
<1>4. DestroyerOK
  BY <1>2 DEF DestroyerOK, Freeing, Kicking
<1>5. \A t \in Procs : todo[t] = <<>> /\ pc[t] \notin Freeing
  BY <1>2 DEF Freeing
<1>6. ControlOK
  BY <1>3, <1>4, <1>5 DEF ControlOK
<1>7. OutputsOK
  BY <1>2 DEF OutputsOK
<1>8. WorkTyped
  BY <1>1, <1>2 DEF WorkTyped, OptCheckpoint
<1>9. ASSUME NEW t \in Procs PROVE TodoOK(t)
  <2>1. PICK w : w = todo[t] /\ w = <<>>
    BY <1>5
  <2>2. \A i : i \notin 1..Len(w)
    BY <1>1, <2>1
  <2>3. QED
    BY <1>5, <2>1, <2>2 DEF TodoOK, NoRepeats, Freeing
<1>10. QED
  BY <1>6, <1>7, <1>8, <1>9

LEMMA InitListed ==
    ASSUME Init
    PROVE  ListedOK /\ RefsCount /\ UsesCount /\ PlacesOK
<1>1. /\ listed = {} /\ deferred = <<>>
      /\ refs = [c \in Checkpoints |-> 0] /\ inCCB = [c \in Checkpoints |-> 0]
      /\ unkicked = [t \in Threads |-> [c \in Checkpoints |-> 0]]
      /\ pc = [t \in Procs |-> "idle"] /\ Threads \subseteq Procs
  BY ProcsAre DEF Init
<1>2. /\ PoolEntries = allocated
      /\ \A c : ~Deferred(c) /\ ~Alive(c)
      /\ \A t \in Procs : \A c : ~InTransit(t, c)
      /\ \A t \in Threads, c \in Checkpoints : ~Using(t, c)
  BY InitPool, InitEmpty
<1>3. ListedOK
  <2>1. \A i : i \notin 1..Len(deferred)
    <3>1. PICK w : w = deferred /\ w = <<>>
      BY <1>1
    <3>2. Len(w) = 0 /\ \A i : i \notin 1..0
      BY <3>1
    <3>3. QED
      BY <3>1, <3>2
  <2>2. \A t \in Threads : pc[t] # "check" /\ pc[t] \notin Fresh
    BY <1>1 DEF Fresh
  <2>3. \A c \in Checkpoints : refs[c] = 0 /\ inCCB[c] = 0
    BY <1>1
  <2>4. QED
    BY <1>1, <2>1, <2>2, <2>3 DEF ListedOK, NoRepeats
<1>4. RefsCount
  <2>1. ASSUME NEW c \in Checkpoints PROVE refs[c] = Cardinality(HeldBy(c))
    <3>1. HeldBy(c) = {}
      <4>1. \A t \in Procs, k \in {1, 2} : ~Holds(t, k, c)
        BY InitEmpty
      <4>2. QED
        BY <4>1 DEF HeldBy
    <3>2. QED
      BY <1>1, <3>1, FS_EmptySet
  <2>2. QED
    BY <2>1 DEF RefsCount
<1>5. UsesCount
  BY <1>1, <1>2 DEF UsesCount
<1>6. PlacesOK
  BY <1>2 DEF PlacesOK
<1>7. QED
  BY <1>3, <1>4, <1>5, <1>6

LEMMA InitContext ==
    ASSUME Init
    PROVE  ContextOK
<1>1. PICK n : n = Len(InitialPool)
  OBVIOUS
<1>2. PICK A : A = {InitialPool[i] : i \in 1..n}
  OBVIOUS
<1>3. /\ allocated = A /\ imported = {BlockOf[c] : c \in A}
      /\ ctxRefs = 1 + Cardinality(imported) /\ ctxFreed = FALSE
      /\ count = Cardinality(A) /\ inUse = 0 /\ listed = {}
      /\ pc = [t \in Procs |-> "idle"] /\ destroyed = "no"
      /\ Threads \subseteq Procs
  BY <1>1, <1>2, ProcsAre DEF Init
<1>4. Inside = {} /\ Uncounted = {} /\ Uncounting = {}
  BY <1>3 DEF Inside, Uncounted, Uncounting, Dropped, Freeing
<1>5. Cardinality({}) = 0 /\ IsFiniteSet({})
  BY FS_EmptySet
<1>6. /\ IsFiniteSet(A) /\ IsFiniteSet(imported)
  <2>1. A \in SUBSET Checkpoints
    BY <1>3, InitPool
  <2>2. IsFiniteSet(A)
    BY <2>1, ProcsAre, FS_Subset
  <2>3. PICK f, B : f = [c \in A |-> BlockOf[c]] /\ B = imported
    OBVIOUS
  <2>4. f \in [A -> B] /\ \A b \in B : \E c \in A : f[c] = b
    BY <1>3, <2>3
  <2>5. f \in Surjection(A, B)
    BY <2>4 DEF Surjection
  <2>6. QED
    BY <2>2, <2>3, <2>5, FS_Surjection
<1>7. Cardinality(A) \in Nat /\ Cardinality(imported) \in Nat
  BY <1>6, FS_CardinalityType
<1>8. A \ {} = A
  OBVIOUS
<1>9. ctxRefs = 1 + Cardinality(imported) + Cardinality(Inside) /\ ctxRefs # 0
  BY <1>3, <1>4, <1>5, <1>7
<1>10. count = Cardinality(allocated \ Uncounted) + Cardinality(Uncounting)
  BY <1>3, <1>4, <1>5, <1>7, <1>8
<1>11. QED
  BY <1>3, <1>5, <1>9, <1>10 DEF ContextOK

LEMMA InitTyped ==
    ASSUME Init
    PROVE  Typed
<1>1. PoolTyped /\ WorkTyped /\ allocated \subseteq Checkpoints /\ ContextOK
  BY InitPool, InitWork, InitContext
<1>2. /\ refs = [c \in Checkpoints |-> 0] /\ enq = [c \in Checkpoints |-> 0]
      /\ fwRefs = [c \in Checkpoints |-> 0]
      /\ fence = [c \in Checkpoints |-> FALSE]
      /\ inCCB = [c \in Checkpoints |-> 0]
      /\ unkicked = [t \in Threads |-> [c \in Checkpoints |-> 0]]
      /\ deferred = <<>> /\ listed = {} /\ ctxFreed = FALSE /\ inUse = 0
  BY DEF Init
<1>3. PICK n, A : n = Len(InitialPool) /\ A = {InitialPool[i] : i \in 1..n}
  OBVIOUS
<1>4. /\ allocated = A /\ imported = {BlockOf[c] : c \in A}
      /\ ctxRefs = 1 + Cardinality(imported) /\ count = Cardinality(A)
  BY <1>3 DEF Init
<1>5. ctxRefs \in Nat /\ count \in Nat
  <2>1. A \in SUBSET Checkpoints
    BY <1>1, <1>4
  <2>2. IsFiniteSet(A)
    BY <2>1, ProcsAre, FS_Subset
  <2>3. PICK f, B : f = [c \in A |-> BlockOf[c]] /\ B = imported
    OBVIOUS
  <2>4. f \in [A -> B] /\ \A b \in B : \E c \in A : f[c] = b
    BY <1>4, <2>3
  <2>5. f \in Surjection(A, B)
    BY <2>4 DEF Surjection
  <2>6. IsFiniteSet(imported)
    BY <2>2, <2>3, <2>5, FS_Surjection
  <2>7. Cardinality(A) \in Nat /\ Cardinality(imported) \in Nat
    BY <2>2, <2>6, FS_CardinalityType
  <2>8. QED
    BY <1>4, <2>7
<1>6. imported \subseteq Blocks
  BY <1>1, <1>4, SyncCheckpointAssumption
<1>7. /\ refs \in [Checkpoints -> Nat] /\ enq \in [Checkpoints -> Nat]
      /\ fwRefs \in [Checkpoints -> Nat] /\ fence \in [Checkpoints -> BOOLEAN]
      /\ inCCB \in [Checkpoints -> Nat]
      /\ unkicked \in [Threads -> [Checkpoints -> Nat]]
  BY <1>2
<1>8. /\ deferred \in Seq(Checkpoints) /\ listed \subseteq Checkpoints
      /\ ctxFreed \in BOOLEAN /\ inUse \in Nat
  <2>1. <<>> \in Seq(Checkpoints)
    OBVIOUS
  <2>2. QED
    BY <1>2, <2>1
<1>9. QED
  BY <1>1, <1>5, <1>6, <1>7, <1>8 DEF Typed, PoolTyped, WorkTyped

LEMMA InitInv == Init => Inv
BY InitTyped, InitPool, InitWork, InitListed, InitContext DEF Inv

---------------------------------------------------------------------------
(* The theorems.                                                           *)

\* The invariant holds in every state, whatever the threads that kick, free
\* fences and destroy the device do, and in whatever order.
THEOREM CheckpointInvariant == Spec => []Inv
BY InitInv, InvStep, PTL DEF Spec

LEMMA PoolIsRing ==
    ASSUME Inv
    PROVE  PoolRing
<1>1. /\ wp = (rp + poolCount) % PoolSize
      /\ full <=> poolCount = PoolSize
  BY DEF Inv, PoolOK
<1>2. Cardinality(PoolEntries) = poolCount
  <2>1. PICK n, S, r : n = poolCount /\ S = PoolEntries /\ r = Pooled
    OBVIOUS
  <2>2. /\ n \in Nat /\ r \in Seq(Checkpoints) /\ Len(r) = n /\ NoRepeats(r)
        /\ \A c : c \in S <=> \E i \in 1..Len(r) : r[i] = c
    BY <2>1, PoolTaken DEF Inv, Typed
  <2>3. PICK f : f = [i \in 1..n |-> r[i]]
    OBVIOUS
  <2>4. /\ f \in [1..n -> S] /\ \A c \in S : \E i \in 1..n : f[i] = c
        /\ \A i, j \in 1..n : f[i] = f[j] => i = j
    BY <2>2, <2>3 DEF NoRepeats
  <2>5. f \in Surjection(1..n, S) /\ f \in Injection(1..n, S)
    BY <2>4 DEF Surjection, Injection, IsInjective
  <2>6. IsFiniteSet(1..n) /\ Cardinality(1..n) = n
    BY <2>2, FS_Interval
  <2>7. Cardinality(S) = n
    BY <2>5, <2>6, FS_Surjection
  <2>8. QED
    BY <2>1, <2>7
<1>3. PoolEntries \subseteq allocated \ listed
  BY DEF Inv, Typed, ListedOK, PlacesOK
<1>4. \A c \in PoolEntries : refs[c] = 0 /\ Outstanding(c) = 0
  <2>1. \A c \in PoolEntries : c \in Checkpoints /\ c \notin listed
    BY DEF Inv, Typed, ListedOK
  <2>2. QED
    BY <2>1, UnlistedUnused DEF Inv
<1>5. QED
  BY <1>1, <1>2, <1>3, <1>4 DEF PoolRing

\* Every variable keeps its type, no count of references, of uses or of
\* checkpoints goes below zero, and the ring indices, the count and the FULL
\* flag of the pool agree: its entries are different allocated checkpoints
\* that nobody refers to.
THEOREM CheckpointTypes == Spec => []TypeOK
<1>1. Inv => TypeOK
  BY PoolIsRing DEF Inv, Typed, TypeOK
<1>2. QED
  BY <1>1, CheckpointInvariant, PTL

\* A set with at most one element.
LEMMA AtMostOne ==
    ASSUME NEW S, \A x, y \in S : x = y
    PROVE  Cardinality(S) = IF S = {} THEN 0 ELSE 1
<1>1. CASE S = {}
  BY <1>1, FS_EmptySet
<1>2. CASE S # {}
  <2>1. PICK x : x \in S
    BY <1>2
  <2>2. S = {x}
    BY <2>1
  <2>3. QED
    BY <1>2, <2>2, FS_Singleton
<1>3. QED
  BY <1>1, <1>2

\* No checkpoint is lost or kept twice: an allocated one is referenced, or in
\* the pool, or deferred once, or in the hands of one thread.
THEOREM CheckpointHasOnePlace == Spec => []OnePlace
<1>1. Inv => OnePlace
  <2> SUFFICES ASSUME Inv, NEW c \in allocated
      PROVE  Cardinality({i \in 1..Len(deferred) : deferred[i] = c})
             + Cardinality({t \in Procs : InTransit(t, c)})
             + (IF c \in PoolEntries THEN 1 ELSE 0)
             + (IF c \in listed /\ refs[c] > 0 THEN 1 ELSE 0) = 1
    BY DEF OnePlace
  <2>1. c \in Checkpoints
    BY DEF Inv, Typed
  <2>2. /\ \/ Deferred(c) \/ Alive(c) \/ c \in PoolEntries
           \/ \E t \in Procs : InTransit(t, c)
        /\ ~(Deferred(c) /\ c \in PoolEntries)
        /\ \A t \in Procs : InTransit(t, c) =>
              /\ ~Deferred(c) /\ ~Alive(c) /\ c \notin PoolEntries
              /\ \A u \in Procs : InTransit(u, c) => u = t
    BY <2>1 DEF Inv, PlacesOK
  <2>3. /\ Deferred(c) => ~Alive(c)
        /\ c \in PoolEntries => ~Alive(c)
    BY <2>1, PlaceFacts
  <2>4. PICK D, T : /\ D = {i \in 1..Len(deferred) : deferred[i] = c}
                    /\ T = {t \in Procs : InTransit(t, c)}
    OBVIOUS
  <2>5. Cardinality(D) = IF Deferred(c) THEN 1 ELSE 0
    <3>1. \A x, y \in D : x = y
      BY <2>4 DEF Inv, ListedOK, NoRepeats
    <3>2. D = {} <=> ~Deferred(c)
      BY <2>4 DEF Deferred
    <3>3. QED
      BY <3>1, <3>2, AtMostOne
  <2>6. Cardinality(T) = IF \E t \in Procs : InTransit(t, c) THEN 1 ELSE 0
    <3>1. \A x, y \in T : x = y
      BY <2>2, <2>4
    <3>2. T = {} <=> ~\E t \in Procs : InTransit(t, c)
      BY <2>4
    <3>3. QED
      BY <3>1, <3>2, AtMostOne
  <2>7. CASE Deferred(c)
    BY <2>2, <2>3, <2>4, <2>5, <2>6, <2>7 DEF Alive
  <2>8. CASE \E t \in Procs : InTransit(t, c)
    BY <2>2, <2>3, <2>4, <2>5, <2>6, <2>8 DEF Alive
  <2>9. CASE ~Deferred(c) /\ ~\E t \in Procs : InTransit(t, c)
    BY <2>2, <2>3, <2>4, <2>5, <2>6, <2>9 DEF Alive
  <2>10. QED
    BY <2>7, <2>8, <2>9
<1>2. QED
  BY <1>1, CheckpointInvariant, PTL

\* The memory of the context is freed after the last checkpoint and after the
\* last thread has left the functions that use it.
THEOREM ContextIsFreedLast == Spec => []ContextOutlivesUsers
<1>1. Inv => ContextOutlivesUsers
  <2> SUFFICES ASSUME Inv, ctxFreed
      PROVE  /\ allocated = {} /\ imported = {} /\ destroyed = "ok"
             /\ \A t \in Threads : pc[t] \in {"idle", "unref"}
    BY DEF ContextOutlivesUsers
  <2>1. allocated = {} /\ destroyed = "ok"
    BY ContextIs
  <2>2. imported = {}
    BY <2>1 DEF Inv, ContextOK
  <2>3. Inside = {}
    <3>1. ctxRefs = 0 + Cardinality(imported) + Cardinality(Inside)
          /\ ctxRefs = 0
      BY <2>1 DEF Inv, ContextOK
    <3>2. Cardinality(Inside) = 0
      BY <3>1, ContextIs
    <3>3. QED
      BY <3>2, ContextIs, FS_EmptySet
  <2>4. ASSUME NEW t \in Threads PROVE pc[t] \in {"idle", "unref"}
    <3>1. pc[t] \notin Dropped /\ ~Kicking(t) /\ ThreadOK(t)
      BY <2>1, <2>3 DEF Inside, Inv, ControlOK, DestroyerOK
    <3>2. pc[t] \in {"idle", "create", "alloc", "counted", "publish",
               "fences", "update", "acquire", "schedule", "rollback",
               "rollback2", "abandon", "unref", "check", "reap", "put", "free",
               "uncount", "deferred", "leave", "clean", "decide", "done"}
      BY ProcsAre DEF Inv, Typed
    <3>3. QED
      BY <3>1, <3>2 DEF Dropped, Freeing, Kicking, ThreadOK
  <2>5. QED
    BY <2>1, <2>2, <2>4
<1>2. QED
  BY <1>1, CheckpointInvariant, PTL

\* When the context has been destroyed and the threads are back, no reference
\* to it, no checkpoint and no memory is left.
THEOREM DestroyedLeavesNothing == Spec => []DestroyLeavesNothing
<1>1. Inv => DestroyLeavesNothing
  <2> SUFFICES ASSUME Inv, destroyed = "ok", \A t \in Threads : pc[t] = "idle"
               PROVE  ctxFreed /\ ctxRefs = 0 /\ count = 0
    BY DEF DestroyLeavesNothing
  <2>1. allocated = {} /\ imported = {}
    BY DEF Inv, ContextOK
  <2>2. Inside = {}
    BY DEF Inside, Dropped, Freeing
  <2>3. Uncounting = {} /\ allocated \ Uncounted = {}
    <3>1. pc[Destroyer] = "done"
      BY DEF Inv, ControlOK, DestroyerOK
    <3>2. QED
      BY <2>1, <3>1, ProcsAre DEF Uncounting
  <2>4. Cardinality({}) = 0
    BY FS_EmptySet
  <2>5. /\ ctxRefs = 0 + Cardinality(imported) + Cardinality(Inside)
        /\ count = Cardinality(allocated \ Uncounted) + Cardinality(Uncounting)
        /\ ctxFreed <=> ctxRefs = 0
    BY DEF Inv, ContextOK
  <2>6. ctxRefs = 0 /\ count = 0
    BY <2>1, <2>2, <2>3, <2>4, <2>5
  <2>7. QED
    BY <2>5, <2>6
<1>2. QED
  BY <1>1, CheckpointInvariant, PTL

\* When no command is left in the CCB by a failed kick, a checkpoint that the
\* firmware will still come to is on the global list.
THEOREM UsedCheckpointsAreListed == Spec => []UsedStaysListed
<1>1. Inv => UsedStaysListed
  <2> SUFFICES ASSUME Inv, NEW c \in Checkpoints, c \notin listed
               PROVE  ~(Outstanding(c) > 0)
    BY DEF UsedStaysListed
  <2>1. Outstanding(c) = 0
    BY UnlistedUnused DEF Inv
  <2>2. QED
    BY <2>1
<1>2. QED
  BY <1>1, CheckpointInvariant, PTL

---------------------------------------------------------------------------
(* A checkpoint is a shared object in the sense of RefCounted.             *)

LifeRefs == [c \in Checkpoints |-> IF c \in listed THEN refs[c] ELSE 0]
LifeUses == [c \in Checkpoints |-> IF c \in listed THEN Outstanding(c) ELSE 0]
Pending(c) == IF c \in listed THEN enq[c] - fwRefs[c] ELSE 0

\* The uses of a listed checkpoint are what is enqueued and not serviced.
LEMMA LifeIs ==
    ASSUME Inv
    PROVE  /\ LifeRefs = refs /\ LifeUses = [c \in Checkpoints |-> Pending(c)]
           /\ \A c \in Checkpoints : refs[c] \in Nat /\ Pending(c) \in Nat
           /\ DOMAIN refs = Checkpoints
<1>1. \A c \in Checkpoints :
         /\ c \in listed => enq[c] = fwRefs[c] + Outstanding(c)
         /\ Outstanding(c) = inCCB[c] + Cardinality(Unkicked(c))
         /\ Cardinality(Unkicked(c)) \in Nat /\ inCCB[c] \in Nat
         /\ fwRefs[c] \in Nat /\ enq[c] \in Nat /\ refs[c] \in Nat
  BY UsesIs
<1>2. \A c \in Checkpoints : c \notin listed => refs[c] = 0
  BY DEF Inv, ListedOK
<1>3. refs \in [Checkpoints -> Nat]
  BY DEF Inv, Typed
<1>4. \A c \in Checkpoints :
         /\ (IF c \in listed THEN Outstanding(c) ELSE 0) = Pending(c)
         /\ Pending(c) \in Nat
  BY <1>1 DEF Pending
<1>5. LifeRefs = refs
  BY <1>2, <1>3 DEF LifeRefs
<1>6. LifeUses = [c \in Checkpoints |-> Pending(c)]
  BY <1>4 DEF LifeUses
<1>7. QED
  BY <1>3, <1>4, <1>5, <1>6

LEMMA LifeThen ==
    ASSUME Inv'
    PROVE  /\ LifeRefs' = refs'
           /\ LifeUses' = [c \in Checkpoints |-> Pending(c)']
           /\ \A c \in Checkpoints : Pending(c)' \in Nat
<1>1. \A c \in Checkpoints :
         /\ c \in listed' => enq'[c] = fwRefs'[c] + Outstanding(c)'
         /\ c \notin listed' => refs'[c] = 0
  BY DEF Inv, UsesCount, ListedOK
<1>2. /\ refs' \in [Checkpoints -> Nat] /\ enq' \in [Checkpoints -> Nat]
      /\ fwRefs' \in [Checkpoints -> Nat] /\ inCCB' \in [Checkpoints -> Nat]
      /\ \A u \in Threads, c \in Checkpoints : unkicked'[u][c] \in 0..1
  BY DEF Inv, Typed, UsesCount
<1>3. ASSUME NEW c \in Checkpoints PROVE Outstanding(c)' \in Nat
  <2>1. Unkicked(c)' \in SUBSET (Threads \X {1})
    BY <1>2 DEF Unkicked
  <2>2. IsFiniteSet(Threads \X {1})
    BY FS_Product, FS_Singleton, ProcsAre
  <2>3. Cardinality(Unkicked(c)') \in Nat
    BY <2>1, <2>2, FS_Subset, FS_CardinalityType
  <2>4. inCCB'[c] \in Nat
    BY <1>2
  <2>5. QED
    BY <2>3, <2>4 DEF Outstanding
<1>4. \A c \in Checkpoints :
         /\ (IF c \in listed' THEN Outstanding(c)' ELSE 0) = Pending(c)'
         /\ Pending(c)' \in Nat
  BY <1>1, <1>2, <1>3 DEF Pending
<1>5. LifeRefs' = refs'
  BY <1>1, <1>2 DEF LifeRefs
<1>6. LifeUses' = [c \in Checkpoints |-> Pending(c)']
  BY <1>4 DEF LifeUses
<1>7. QED
  BY <1>4, <1>5, <1>6

\* A step that changes nothing a user of checkpoints sees.
LEMMA LifeStutters ==
    ASSUME Inv, Inv', UNCHANGED <<listed, refs>>,
           \A c \in Checkpoints : Pending(c)' = Pending(c)
    PROVE  UNCHANGED <<listed, LifeRefs, LifeUses>>
BY LifeIs, LifeThen

\* A step that adds a use to a checkpoint, or ends one.
LEMMA LifeUsed ==
    ASSUME Inv, Inv', UNCHANGED <<listed, refs>>, NEW c \in Checkpoints,
           NEW n \in {-1, 1}, Pending(c)' = Pending(c) + n,
           \A d \in Checkpoints : d # c => Pending(d)' = Pending(d)
    PROVE  /\ UNCHANGED <<listed, LifeRefs>>
           /\ LifeUses' = [LifeUses EXCEPT ![c] = @ + n]
<1>1. PICK f, g : f = LifeUses /\ g = LifeUses'
  OBVIOUS
<1>2. /\ f = [d \in Checkpoints |-> Pending(d)]
      /\ g = [d \in Checkpoints |-> Pending(d)']
      /\ UNCHANGED LifeRefs
  BY <1>1, LifeIs, LifeThen
<1>3. g = [f EXCEPT ![c] = @ + n]
  BY <1>2
<1>4. QED
  BY <1>1, <1>2, <1>3

LifeStep(c) ==
    \/ Life!Create(c) \/ Life!Reclaim(c) \/ Life!Reference(c)
    \/ Life!Dereference(c) \/ Life!Use(c) \/ Life!EndUse(c)

LEMMA LifeNext ==
    ASSUME (\E c \in Checkpoints : LifeStep(c))
           \/ UNCHANGED <<listed, LifeRefs, LifeUses>>
    PROVE  [Life!Next]_(Life!vars)
BY DEF LifeStep, Life!Next, Life!vars, LifeRefs, LifeUses

LEMMA LifeActions ==
    ASSUME NEW c \in Checkpoints
    PROVE  /\ /\ c \notin listed /\ listed' = listed \cup {c}
              /\ LifeRefs' = [LifeRefs EXCEPT ![c] = 1] /\ UNCHANGED LifeUses
              => Life!Create(c)
           /\ /\ c \in listed /\ LifeRefs[c] = 0 /\ LifeUses[c] = 0
              /\ listed' = listed \ {c} /\ UNCHANGED <<LifeRefs, LifeUses>>
              => Life!Reclaim(c)
           /\ /\ LifeRefs[c] > 0 /\ LifeRefs' = [LifeRefs EXCEPT ![c] = @ + 1]
              /\ UNCHANGED <<listed, LifeUses>>
              => Life!Reference(c)
           /\ /\ LifeRefs[c] > 0 /\ LifeRefs' = [LifeRefs EXCEPT ![c] = @ - 1]
              /\ UNCHANGED <<listed, LifeUses>>
              => Life!Dereference(c)
           /\ /\ LifeRefs[c] > 0 /\ LifeUses' = [LifeUses EXCEPT ![c] = @ + 1]
              /\ UNCHANGED <<listed, LifeRefs>>
              => Life!Use(c)
           /\ /\ LifeUses[c] > 0 /\ LifeUses' = [LifeUses EXCEPT ![c] = @ - 1]
              /\ UNCHANGED <<listed, LifeRefs>>
              => Life!EndUse(c)
BY Zenon DEF Life!Create, Life!Reclaim, Life!Reference, Life!Dereference, Life!Use,
       Life!EndUse, LifeRefs, LifeUses

\* A new fence creates the checkpoint,
LEMMA LifePublish ==
    ASSUME Inv, Inv', NEW t \in Threads, Publish(t)
    PROVE  \E c \in Checkpoints : LifeStep(c)
<1>1. PICK c : c = kickOut[t]
  OBVIOUS
<1>2. /\ c \in Checkpoints /\ c \notin listed
      /\ enq \in [Checkpoints -> Nat] /\ fwRefs \in [Checkpoints -> Nat]
  BY <1>1, FreshAway DEF Publish, Fresh, Inv, Away, Typed
<1>3. /\ listed' = listed \cup {c} /\ refs' = [refs EXCEPT ![c] = 1]
      /\ enq' = [enq EXCEPT ![c] = 0] /\ fwRefs' = [fwRefs EXCEPT ![c] = 0]
  BY <1>1 DEF Publish
<1>4. \A d \in Checkpoints : Pending(d)' = Pending(d)
  BY <1>2, <1>3 DEF Pending
<1>5. LifeRefs' = [LifeRefs EXCEPT ![c] = 1] /\ UNCHANGED LifeUses
  BY <1>3, <1>4, LifeIs, LifeThen
<1>6. QED
  BY <1>2, <1>3, <1>5, LifeActions DEF LifeStep

\* a kick refers to it and its end drops the reference,
LEMMA LifeReferences ==
    ASSUME Inv, Inv', NEW t \in Threads, KickResolve(t) \/ Unref(t)
    PROVE  (\E c \in Checkpoints : LifeStep(c))
           \/ UNCHANGED <<listed, LifeRefs, LifeUses>>
<1>1. UNCHANGED <<listed, enq, fwRefs>>
  BY DEF KickResolve, Unref, ctxVars
<1>2. \A c \in Checkpoints : Pending(c)' = Pending(c)
  BY <1>1 DEF Pending
<1>3. UNCHANGED LifeUses /\ LifeRefs = refs /\ LifeRefs' = refs'
  BY <1>2, LifeIs, LifeThen
<1>4. CASE KickResolve(t)
  <2>1. PICK d \in OptCheckpoint :
           /\ d # NoCheckpoint => d \in Checkpoints /\ fence[d]
           /\ refs' = IF d = NoCheckpoint THEN refs
                                          ELSE [refs EXCEPT ![d] = @ + 1]
    BY <1>4 DEF KickResolve, OpenFence, OptCheckpoint
  <2>2. CASE d = NoCheckpoint
    BY <1>1, <1>3, <2>1, <2>2
  <2>3. CASE d # NoCheckpoint
    <3>1. d \in Checkpoints /\ refs[d] > 0
      BY <2>1, <2>3, FenceHolds DEF Inv, Held
    <3>2. Life!Reference(d)
      BY <1>1, <1>3, <2>1, <2>3, <3>1, LifeActions
    <3>3. QED
      BY <3>1, <3>2 DEF LifeStep
  <2>4. QED
    BY <2>2, <2>3
<1>5. CASE Unref(t)
  <2>1. PICK c : c = Head(drops[t])
    OBVIOUS
  <2>2. c \in Checkpoints /\ refs[c] > 0
    BY <1>5, <2>1, DropHolds DEF Unref, Inv, Held
  <2>3. refs' = [refs EXCEPT ![c] = @ - 1]
    BY <1>5, <2>1 DEF Unref
  <2>4. Life!Dereference(c)
    BY <1>1, <1>3, <2>2, <2>3, LifeActions
  <2>5. QED
    BY <2>2, <2>4 DEF LifeStep
<1>6. QED
  BY <1>4, <1>5

\* the UFO lists of a kick use it until they are rolled back,
LEMMA LifeAppends ==
    ASSUME Inv, Inv', NEW t \in Threads, NEW c \in OptCheckpoint,
           c # NoCheckpoint => Held(c), UNCHANGED <<listed, refs, fwRefs>>,
           AppendCheckpoint(t, c) \/ RollbackFromUFO(t, c)
    PROVE  (\E d \in Checkpoints : LifeStep(d))
           \/ UNCHANGED <<listed, LifeRefs, LifeUses>>
<1>0. /\ enq \in [Checkpoints -> Nat] /\ fwRefs \in [Checkpoints -> Nat]
      /\ listed \subseteq Checkpoints /\ NoCheckpoint \notin Checkpoints
  BY ProcsAre DEF Inv, Typed
<1>1. CASE c = NoCheckpoint
  <2>1. UNCHANGED enq
    BY <1>0, <1>1 DEF AppendCheckpoint, RollbackFromUFO
  <2>2. \A d \in Checkpoints : Pending(d)' = Pending(d)
    BY <2>1 DEF Pending
  <2>3. QED
    BY <2>2, LifeStutters
<1>2. CASE c # NoCheckpoint
  <2>1. c \in Checkpoints /\ c \in listed /\ refs[c] > 0
    BY <1>2 DEF Held
  <2>2. \A d \in Checkpoints : Pending(d) \in Nat /\ Pending(d)' \in Nat
    BY LifeIs, LifeThen
  <2>3. LifeRefs[c] = refs[c] /\ LifeUses[c] = Pending(c)
    BY <2>1, LifeIs
  <2>4. CASE AppendCheckpoint(t, c)
    <3>1. enq' = [enq EXCEPT ![c] = @ + 1]
      BY <1>2, <2>4 DEF AppendCheckpoint
    <3>2. /\ Pending(c)' = Pending(c) + 1
          /\ \A d \in Checkpoints : d # c => Pending(d)' = Pending(d)
      BY <1>0, <2>1, <3>1 DEF Pending
    <3>3. /\ UNCHANGED <<listed, LifeRefs>>
          /\ LifeUses' = [LifeUses EXCEPT ![c] = @ + 1]
      BY <2>1, <3>2, LifeUsed
    <3>4. Life!Use(c)
      BY <2>1, <2>3, <3>3, LifeActions
    <3>5. QED
      BY <2>1, <3>4 DEF LifeStep
  <2>5. CASE RollbackFromUFO(t, c)
    <3>1. enq' = [enq EXCEPT ![c] = @ - 1]
      BY <2>1, <2>5 DEF RollbackFromUFO
    <3>2. /\ Pending(c)' = Pending(c) + (-1)
          /\ \A d \in Checkpoints : d # c => Pending(d)' = Pending(d)
      BY <1>0, <2>1, <3>1 DEF Pending
    <3>3. /\ UNCHANGED <<listed, LifeRefs>>
          /\ LifeUses' = [LifeUses EXCEPT ![c] = @ + (-1)]
      BY <2>1, <3>2, LifeUsed
    <3>4. LifeUses[c] > 0 /\ LifeUses' = [LifeUses EXCEPT ![c] = @ - 1]
      <4>1. LifeUses[c] > 0 /\ LifeUses[c] + (-1) = LifeUses[c] - 1
        BY <2>1, <2>2, <2>3, <3>2
      <4>2. QED
        BY <3>3, <4>1
    <3>5. Life!EndUse(c)
      BY <2>1, <3>3, <3>4, LifeActions
    <3>6. QED
      BY <2>1, <3>5 DEF LifeStep
  <2>6. QED
    BY <2>4, <2>5
<1>3. QED
  BY <1>1, <1>2

LEMMA LifeUpdates ==
    ASSUME Inv, Inv', NEW t \in Threads,
           \/ AppendFences(t) \/ AppendUpdate(t)
           \/ RollbackFences(t) \/ RollbackUpdate(t)
    PROVE  (\E d \in Checkpoints : LifeStep(d))
           \/ UNCHANGED <<listed, LifeRefs, LifeUses>>
<1>1. UNCHANGED <<listed, refs, fwRefs>>
  BY DEF AppendFences, AppendUpdate, RollbackFences, RollbackUpdate, ctxVars
<1>2. kickIn[t] \in OptCheckpoint /\ kickOut[t] \in OptCheckpoint
  BY InvThread
<1>3. CASE AppendFences(t) \/ RollbackFences(t)
  <2>1. AppendCheckpoint(t, kickIn[t]) \/ RollbackFromUFO(t, kickIn[t])
    BY <1>3 DEF AppendFences, RollbackFences
  <2>2. kickIn[t] # NoCheckpoint => Held(kickIn[t])
    BY InputHolds DEF Inv
  <2>3. QED
    BY <1>1, <1>2, <2>1, <2>2, LifeAppends
<1>4. CASE AppendUpdate(t) \/ RollbackUpdate(t)
  <2>1. /\ AppendCheckpoint(t, kickOut[t]) \/ RollbackFromUFO(t, kickOut[t])
        /\ pc[t] \in Owning
    BY <1>4 DEF AppendUpdate, RollbackUpdate, Owning
  <2>2. kickOut[t] # NoCheckpoint => Held(kickOut[t])
    BY <2>1, OutputHolds DEF Inv
  <2>3. QED
    BY <1>1, <1>2, <2>1, <2>2, LifeAppends
<1>5. QED
  BY <1>3, <1>4

\* or the firmware has processed them,
LEMMA LifeFirmware ==
    ASSUME Inv, Inv', NEW c \in Checkpoints, FirmwareProcesses(c)
    PROVE  LifeStep(c)
<1>0. enq \in [Checkpoints -> Nat] /\ fwRefs \in [Checkpoints -> Nat]
  BY DEF Inv, Typed
<1>1. /\ c \in listed /\ UNCHANGED <<listed, refs, enq>>
      /\ fwRefs' = [fwRefs EXCEPT ![c] = @ + 1]
  BY FirmwareIs DEF FirmwareProcesses, ctxVars
<1>2. /\ Pending(c)' = Pending(c) + (-1)
      /\ \A d \in Checkpoints : d # c => Pending(d)' = Pending(d)
  BY <1>0, <1>1 DEF Pending
<1>3. /\ UNCHANGED <<listed, LifeRefs>>
      /\ LifeUses' = [LifeUses EXCEPT ![c] = @ + (-1)]
  BY <1>1, <1>2, LifeUsed
<1>4. LifeUses[c] > 0 /\ LifeUses' = [LifeUses EXCEPT ![c] = @ - 1]
  <2>1. Pending(c) \in Nat /\ Pending(c)' \in Nat /\ LifeUses[c] = Pending(c)
    BY LifeIs, LifeThen
  <2>2. LifeUses[c] > 0 /\ LifeUses[c] + (-1) = LifeUses[c] - 1
    BY <1>2, <2>1
  <2>3. QED
    BY <1>3, <2>2
<1>5. QED
  BY <1>3, <1>4, LifeActions DEF LifeStep

\* and it is reclaimed when neither is left.
LEMMA LifeReap ==
    ASSUME Inv, Inv', NEW t \in Procs, Reap(t)
    PROVE  \E c \in Checkpoints : LifeStep(c)
<1>1. PICK c : c = todo[t][1]
  OBVIOUS
<1>2. pc[t] = "reap" /\ listed' = listed \ {Head(todo[t])}
      /\ UNCHANGED <<refs, enq, fwRefs>>
  BY DEF Reap, cpVars
<1>3. /\ c \in Checkpoints /\ c \in listed /\ refs[c] = 0
      /\ enq[c] = fwRefs[c] /\ Head(todo[t]) = c
  BY <1>1, <1>2, ReapIs
<1>4. fwRefs[c] \in Nat
  BY <1>3 DEF Inv, Typed
<1>5. Pending(c) = 0 /\ \A d \in Checkpoints : Pending(d)' = Pending(d)
  BY <1>2, <1>3, <1>4 DEF Pending
<1>6. /\ LifeRefs[c] = 0 /\ LifeUses[c] = 0
      /\ UNCHANGED <<LifeRefs, LifeUses>>
  BY <1>2, <1>3, <1>5, LifeIs, LifeThen
<1>7. Life!Reclaim(c)
  BY <1>2, <1>3, <1>6, LifeActions
<1>8. QED
  BY <1>3, <1>7 DEF LifeStep

LEMMA LifeOther ==
    ASSUME Inv, Inv', UNCHANGED <<listed, refs, enq, fwRefs>>
    PROVE  UNCHANGED <<listed, LifeRefs, LifeUses>>
<1>1. \A c \in Checkpoints : Pending(c)' = Pending(c)
  BY DEF Pending
<1>2. QED
  BY <1>1, LifeStutters

LEMMA LifeSteps ==
    ASSUME Inv, Inv', [Next]_vars
    PROVE  (\E d \in Checkpoints : LifeStep(d))
           \/ UNCHANGED <<listed, LifeRefs, LifeUses>>
<1> USE DEF ctxVars, cpVars
<1>1. ASSUME NEW t \in Threads, ThreadStep(t)
      PROVE  (\E d \in Checkpoints : LifeStep(d))
             \/ UNCHANGED <<listed, LifeRefs, LifeUses>>
  <2>1. CASE \/ KickWithoutOutput(t) \/ GetFromPool(t) \/ PoolEmpty(t)
             \/ AllocSyncCheckpoint(t) \/ CountCheckpoint(t) \/ AllocFails(t)
    BY <2>1, LifeOther DEF KickWithoutOutput, GetFromPool, PoolEmpty,
                AllocSyncCheckpoint, CountCheckpoint, AllocFails
  <2>2. CASE \/ AcquireFails(t) \/ WriteCommand(t) \/ Schedule(t)
             \/ AbandonKick(t) \/ FenceFree(t) \/ CheckServiced(t) \/ Leave(t)
    BY <2>2, LifeOther DEF AcquireFails, WriteCommand, Schedule, AbandonKick,
                FenceFree, CheckServiced, Leave
  <2>3. QED
    BY <1>1, <2>1, <2>2, LifePublish, LifeReferences, LifeUpdates
       DEF ThreadStep, Kick
<1>2. ASSUME NEW t \in Procs, FreeStep(t), ~Reap(t)
      PROVE  UNCHANGED <<listed, LifeRefs, LifeUses>>
  <2>1. UNCHANGED <<listed, refs, enq, fwRefs>>
    BY <1>2 DEF FreeStep, PutInPool, PoolFull, FreeCheckpoint,
                UncountCheckpoint, CheckDeferredCleanupList
  <2>2. QED
    BY <2>1, LifeOther
<1>3. ASSUME DestroyStep \/ UNCHANGED vars
      PROVE  UNCHANGED <<listed, LifeRefs, LifeUses>>
  <2>1. UNCHANGED <<listed, refs, enq, fwRefs>>
    BY <1>3 DEF DestroyStep, DestroyBegin, CleanCheckpointPool,
       DestroyRefused, DestroyContext, vars
  <2>2. QED
    BY <2>1, LifeOther
<1>4. QED
  BY <1>1, <1>2, <1>3, LifeReap, LifeFirmware, StepIs

LEMMA LifeInit ==
    ASSUME Init
    PROVE  Life!Init
<1>1. listed = {}
  BY DEF Init
<1>2. QED
  BY <1>1 DEF Life!Init

\* SyncCheckpoint implements RefCounted: a checkpoint is created with one
\* reference, is referenced and put into client CCBs only by those who have
\* one, and is reclaimed once, when neither a reference nor a use that the
\* firmware has to process is left.
THEOREM CheckpointsAreCounted == Spec => LifeSpec
<1>1. Init => Life!Init
  BY LifeInit
<1>2. Inv /\ Inv' /\ [Next]_vars => [Life!Next]_(Life!vars)
  BY LifeSteps, LifeNext
<1>3. QED
  BY <1>1, <1>2, CheckpointInvariant, PTL DEF Spec, LifeSpec, Life!Spec
=============================================================================
