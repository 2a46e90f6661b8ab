------------------------- MODULE FallbackSyncProofs -------------------------
(***************************************************************************)
(* Proofs about FallbackSync: whoever reaches a point finds it whole, the  *)
(* syncs of other devices follow the state of their point, and a merged    *)
(* fence loses no point.  The inductive invariant says who holds each      *)
(* reference, who may touch a point that has no sync yet, and in which     *)
(* order the points of a timeline are signalled.                           *)
(***************************************************************************)
EXTENDS FallbackSync, SequenceTheorems, FiniteSetTheorems,
        WellFoundedInduction, TLAPS

Creating == {"create", "insert"}
Looking  == {"check", "mark", "walk", "attach", "recheck"}
Waiting  == {"checkWait", "sleep"}

NoRepeats(s) == \A i, j \in 1..Len(s) : s[i] = s[j] => i = j
Has(s, p)    == \E i \in 1..Len(s) : s[i] = p

\* The references to points that a thread has: of the fence that it makes, and
\* of those whose release it has still to do.
Owed(r) ==
    IF r.pc \in Creating \cup {"relPt"} THEN r.todo
    ELSE IF r.pc \in {"unlist", "freeTl"} /\ r.todo # <<>> THEN Tail(r.todo)
    ELSE <<>>
Keeps(r, p)   == Has(r.got, p) \/ Has(Owed(r), p)
\* The fence that it waits for or purges, makes; the point that it takes off
\* its timeline; the timeline that it frees; the point whose creation it began.
Uses(r, f)    == r.pc \in Waiting \cup {"force"} /\ r.f = f
Makes(r, f)   == (r.pc \in Creating \/ r.op = "merge") /\ r.new = f
Unlists(r, p) == r.pc = "unlist" /\ Head(r.todo) = p
Frees(r, tl)  == r.pc = "freeTl" /\ r.tl = tl
Begins(r, p)  == r.pc \in {"create", "relPt", "unlist"} /\ r.todo = <<p>>
Tells(r, p)   == r.pc = "walk" /\ Head(r.todo) = p
Adds(r, p)    == r.pc = "recheck" /\ Head(r.todo) = p

\* What the locals of a thread hold at which place.
Shape(r) ==
    /\ r.pc = "idle" => r = Idle
    /\ r.pc \in Creating => Len(r.todo) = 1
    /\ r.pc \in Looking <=> r.op # "none"
    /\ r.op = "resolve" => r.todo # <<>>
    /\ r.op # "merge" => r.got = <<>>
    /\ r.pc \in (Looking \ {"check"}) \cup {"relPt", "unlist"} => r.todo # <<>>
    /\ r.pc \in {"attach", "recheck"} => r.op = "resolve"
    /\ r.pc \in Waiting => r.todo = <<>>
    /\ r.pc \in Waiting \cup {"force"} => r.f \in Fences
    /\ r.pc = "freeTl" => r.tl \in Timelines
    /\ r.looked # {} => r.pc \in Looking \cup Waiting
    /\ NoRepeats(r.todo) /\ NoRepeats(r.got)
    /\ \A p \in Points : ~(Has(r.todo, p) /\ Has(r.got, p))
PlaceOK(t) ==
    /\ th[t].pc \in Creating \cup Looking \cup Waiting => t \in Clients /\ Proc[t] \in alive
    /\ th[t].pc = "force" => t = Cleaner
ControlOK == \A t \in Threads : Shape(th[t]) /\ PlaceOK(t)

\* Memory that is not in use.
LifeOK ==
    /\ \A p \in Points : point[p].life = "none" <=> p > points
    /\ \A p \in Points : point[p].life # "live" =>
          point[p].status = "unsignalled" /\ p \notin table /\ point[p].ref = 0
    /\ \A f \in Fences : f > fences => fence[f].src = {} /\ fence[f].life = "none"
    /\ \A f \in Fences : fence[f].life # "live" =>
          fence[f].pts = <<>> /\ fence[f].handles = {} /\ fence[f].ref = 0
    /\ \A f \in Fences : fence[f].life = "freed" => fence[f].src = {}
\* The fences that are being made.
MakersOK ==
    \A t \in Threads, f \in 0..MaxFences : Makes(th[t], f) =>
          /\ f \in 1..fences /\ fence[f].life = "none"
          /\ th[t].pc \in Creating => fence[f].src = {}
          /\ \A u \in Threads : Makes(th[u], f) => u = t

\* The references are those of the fences and of the threads.
FencesOf(p)  == {f \in Fences : Has(fence[f].pts, p)}
KeepersOf(p) == {t \in Threads : Keeps(th[t], p)}
PointRefs ==
    \A p \in Points : point[p].ref = Cardinality(FencesOf(p)) + Cardinality(KeepersOf(p))
UsersOf(f) == {t \in Threads : Uses(th[t], f)}
FenceRefs ==
    \A f \in Fences :
        /\ fence[f].life = "live" <=> fence[f].ref > 0
        /\ fence[f].ref = Cardinality(fence[f].handles) + Cardinality(UsersOf(f))
PointsOn(tl) == {p \in Points : point[p].life = "live" /\ point[p].tl = tl}
TimelineRefs ==
    \A tl \in Timelines :
        /\ timeline[tl].ref = Cardinality(PointsOn(tl)) + IF timeline[tl].handle THEN 1 ELSE 0
        /\ timeline[tl].ref > 0 => timeline[tl].life = "live"
        /\ \A t \in Threads : Frees(th[t], tl) => timeline[tl].ref = 0

\* A point without references is in the hands of one thread.
UnlistOK ==
    /\ \A t \in Threads, p \in Points : Unlists(th[t], p) =>
          /\ point[p].life = "live" /\ point[p].ref = 0
          /\ \A u \in Threads : Unlists(th[u], p) => u = t
    /\ \A p \in Points : point[p].life = "live" /\ point[p].ref = 0 =>
          \E t \in Threads : Unlists(th[t], p)
\* The points that a thread looks at are in fences that it has looked up.
LookedOK ==
    /\ \A f \in Fences : NoRepeats(fence[f].pts)
    /\ \A t \in Threads : \A f \in th[t].looked : Proc[t] \in fence[f].handles
    /\ \A t \in Threads, p \in Points : th[t].pc \in Looking /\ Has(th[t].todo, p) =>
          \E f \in th[t].looked : Has(fence[f].pts, p)
    /\ \A t \in Threads, p \in Points : th[t].pc = "force" /\ Has(th[t].todo, p) =>
          IsSW(p) /\ Owner[Tl(p)] \notin alive /\ Has(fence[th[t].f].pts, p)

\* A point without a sync is known to the thread that creates it only.
Bare(p) == point[p].life = "live" /\ ~HasSync(p)
SyncOK ==
    /\ \A p \in Points : Bare(p) =>
          /\ point[p].status = "unsignalled" /\ p \notin table
          /\ ~IsSW(p) /\ point[p].ref <= 1
          /\ \A f \in Fences : ~Has(fence[f].pts, p)
          /\ \E t \in Threads : Begins(th[t], p)
    /\ \A p \in table : point[p].ref > 0
    /\ \A t \in Threads, p \in Points :
          /\ (th[t].pc = "create" /\ Head(th[t].todo) = p => ~HasSync(p))
          /\ (th[t].pc = "insert" /\ Head(th[t].todo) = p => HasSync(p))
    /\ \A t \in Threads, p \in Points : Has(th[t].got, p) => HasSync(p)

\* The locks, the numbers and the lists of the timelines.
LockOK ==
    \A t \in Threads, p \in Points :
       /\ th[t].pc \in {"create", "recheck"} /\ Head(th[t].todo) = p => timeline[Tl(p)].lock = t
       /\ th[t].pc = "create" /\ Head(th[t].todo) = p =>
             th[t].tl = Tl(p) /\ point[p].seq = timeline[Tl(p)].seq
       /\ Adds(th[t], p) => Len(point[p].attached) > 1
SeqOK ==
    /\ \A p \in Points : point[p].life = "live" =>
          Tl(p) \in Timelines /\ point[p].seq \in 1..timeline[Tl(p)].seq
    /\ \A p, q \in Points :
          /\ point[p].life = "live" /\ point[q].life = "live"
          /\ Tl(p) = Tl(q) /\ point[p].seq = point[q].seq
          => p = q
    /\ \A tl \in Timelines :
          timeline[tl].last <= timeline[tl].seq /\ timeline[tl].seq <= points
ActiveOK ==
    /\ \A tl \in Timelines, p \in Points : Has(timeline[tl].active, p) =>
          point[p].life = "live" /\ Tl(p) = tl
    /\ \A p \in Points : point[p].life = "live" /\ ~Has(timeline[Tl(p)].active, p) =>
          NativeSignalled(p)

\* The states: of the attached syncs after that of the point, of the point
\* after that of its first sync, and of the points in the order of the timeline.
Follows(p) ==
    point[p].status # "unsignalled" =>
        \A i \in DOMAIN point[p].attached :
            \/ point[p].attached[i].state # "unsignalled"
            \/ \E t \in Threads : Tells(th[t], p)
            \/ i = Len(point[p].attached) /\ \E t \in Threads : Adds(th[t], p)
StateOK ==
    /\ \A p \in Points : Follows(p)
    /\ \A p \in Points : point[p].status # "unsignalled" => NativeSignalled(p)
    /\ \A t \in Threads, p \in Points :
          th[t].pc \in {"mark", "walk"} /\ Head(th[t].todo) = p => NativeSignalled(p)
Later(p, q) == Tl(q) = Tl(p) /\ point[q].seq <= point[p].seq
OrderOK ==
    /\ \A p, q \in Points :
          /\ point[p].life = "live" /\ point[q].life = "live" /\ ~IsSW(p)
          /\ Later(p, q) /\ HasSync(q) /\ NativeSignalled(p)
          => NativeSignalled(q)
    /\ \A p \in Points :
          point[p].life = "live" /\ IsSW(p) /\ Owner[Tl(p)] \in alive =>
             (NativeSignalled(p) <=> point[p].seq <= timeline[Tl(p)].last)

\* A point of the fences that were merged is settled or a later one stands for it.
Settled(q) ==
    \/ point[q].ref = 0 \/ NativeSignalled(q)
    \/ IsSW(q) /\ Owner[Tl(q)] \notin alive
\* The points of a fence, or those that the thread that makes it has in hand.
Carries(f, p) ==
    \/ Has(fence[f].pts, p)
    \/ \E t \in Threads : /\ th[t].op = "merge" /\ th[t].new = f
                          /\ Has(th[t].todo, p) \/ Has(th[t].got, p)
MergedOK ==
    /\ \A f \in Fences : \A q \in fence[f].src :
          point[q].life # "none" /\ (point[q].ref = 0 \/ HasSync(q))
    /\ \A f \in Fences : \A q \in fence[f].src :
          Settled(q) \/ \E p \in Points : Carries(f, p) /\ Later(p, q)

\* TypeOK, without the bounds of the references.
TimelineRec == [life : Lives, ref : Nat, seq : 0..MaxPoints, last : 0..MaxPoints,
                handle : BOOLEAN, active : Seq(Points), lock : Threads \cup {NoLock}]
PointRec    == [tl : Timelines \cup {0}, seq : 0..MaxPoints, ref : Nat,
                status : States, life : Lives, attached : Seq(Attached)]
FenceRec    == [pts : Seq(Points), ref : Nat, handles : SUBSET Processes,
                life : Lives, src : SUBSET Points]
ThreadRec   == [pc : PCs, op : {"none", "merge", "resolve"}, f : 0..MaxFences,
                new : 0..MaxFences, looked : SUBSET Fences,
                todo : Seq(Points), got : Seq(Points), err : BOOLEAN,
                tl : Timelines \cup {0}]
MisrRec     == [interrupt : BOOLEAN, todo : Seq(Timelines), signal : BOOLEAN]
Typed ==
    /\ timeline \in [Timelines -> TimelineRec]
    /\ point \in [Points -> PointRec]
    /\ fence \in [Fences -> FenceRec]
    /\ points \in 0..MaxPoints /\ fences \in 0..MaxFences
    /\ table \subseteq Points
    /\ fbLock \in {NoLock, Misr} \cup Threads
    /\ th \in [Threads -> ThreadRec]
    /\ misr \in MisrRec
    /\ woken \subseteq Threads /\ alive \subseteq Processes

Inv ==
    /\ Typed /\ ControlOK /\ LifeOK /\ MakersOK
    /\ PointRefs /\ FenceRefs /\ TimelineRefs
    /\ UnlistOK /\ LookedOK /\ SyncOK /\ LockOK /\ SeqOK /\ ActiveOK
    /\ StateOK /\ OrderOK /\ MergedOK

---------------------------------------------------------------------------

\* A set of natural numbers has a least element.
LEMMA LeastNatural ==
    ASSUME NEW T, T \subseteq Nat, T # {}
    PROVE  \E x \in T : \A y \in T : ~(y < x)
<1>1. \E x \in T : \A y \in T : ~(<<y, x>> \in OpToRel(<, Nat))
  BY NatLessThanWellFounded, WFMin, Zenon
<1>2. QED
  BY <1>1 DEF OpToRel

\* What has not failed at 0 and never fails for the first time holds up to n:
\* the set of failures has no least element.
LEMMA UpTo ==
    ASSUME NEW n \in Nat, NEW B, 0 \notin B,
           \A i \in 1..n : i \in B => i - 1 \in B
    PROVE  \A i \in 0..n : i \notin B
<1>1. SUFFICES ASSUME NEW k \in 0..n, k \in B PROVE FALSE
  OBVIOUS
<1>2. PICK T : T = {i \in 0..n : i \in B}
  OBVIOUS
<1>3. T \subseteq Nat /\ T # {}
  BY <1>1, <1>2
<1>4. PICK x \in T : \A y \in T : ~(y < x)
  BY <1>3, LeastNatural
<1>5. x \in 0..n /\ x \in B /\ x # 0
  BY <1>2, <1>4
<1>6. x \in 1..n /\ x - 1 \in 0..n /\ x - 1 < x
  BY <1>5
<1>7. x - 1 \in T
  BY <1>2, <1>5, <1>6
<1>8. QED
  BY <1>4, <1>6, <1>7

\* The elements of s in S among the first i.
AmongStep(f, s, S, i) ==
    IF i = 0 THEN <<>>
    ELSE IF s[i] \in S THEN Append(f[i - 1], s[i]) ELSE f[i - 1]

LEMMA AmongExists ==
    ASSUME NEW s, NEW n \in Nat, NEW S
    PROVE  \E f : f = [i \in 0..n |-> AmongStep(f, s, S, i)]
<1> DEFINE Q(k) == \E f : /\ f = [i \in 0..n |-> f[i]]
                          /\ \A i \in 0..k : f[i] = AmongStep(f, s, S, i)
           B == {k \in 0..n : ~Q(k)}
<1>1. Q(0)
  <2>1. PICK f : f = [i \in 0..n |-> <<>>]
    OBVIOUS
  <2>2. f = [i \in 0..n |-> f[i]]
    BY <2>1
  <2>3. \A i \in 0..0 : f[i] = AmongStep(f, s, S, i)
    BY <2>1 DEF AmongStep
  <2>4. QED
    BY <2>2, <2>3
<1>2. ASSUME NEW k \in 1..n, Q(k - 1) PROVE Q(k)
  <2>1. PICK f : /\ f = [i \in 0..n |-> f[i]]
                 /\ \A i \in 0..k - 1 : f[i] = AmongStep(f, s, S, i)
    BY <1>2
  <2>2. PICK v : v = AmongStep(f, s, S, k)
    OBVIOUS
  <2>3. PICK g : g = [i \in 0..n |-> IF i = k THEN v ELSE f[i]]
    OBVIOUS
  <2>4. /\ g = [i \in 0..n |-> g[i]]
        /\ \A i \in 0..n : i # k => g[i] = f[i]
        /\ g[k] = v
    BY <2>3
  <2>5. ASSUME NEW i \in 0..k PROVE g[i] = AmongStep(g, s, S, i)
    <3>1. i \in 0..n /\ (i # 0 => i - 1 \in 0..n /\ i - 1 # k)
      OBVIOUS
    <3>2. i # 0 => g[i - 1] = f[i - 1]
      BY <2>4, <3>1
    <3>3. AmongStep(g, s, S, i) = AmongStep(f, s, S, i)
      BY <3>2 DEF AmongStep
    <3>4. CASE i = k
      BY <2>2, <2>4, <3>3, <3>4
    <3>5. CASE i # k
      <4>1. i \in 0..k - 1
        BY <3>5
      <4>2. QED
        BY <2>1, <2>4, <3>1, <3>3, <3>5, <4>1
    <3>6. QED
      BY <3>4, <3>5
  <2>6. QED
    BY <2>4, <2>5
<1>3. \A i \in 0..n : i \notin B
  <2>1. 0 \notin B
    BY <1>1
  <2>2. ASSUME NEW i \in 1..n, i \in B PROVE i - 1 \in B
    <3>1. ~Q(i) /\ i - 1 \in 0..n
      BY <2>2
    <3>2. ~Q(i - 1)
      <4> HIDE DEF Q
      <4>1. QED
        BY <1>2, <3>1
    <3>3. QED
      BY <3>1, <3>2
  <2>3. QED
    <3> HIDE DEF B
    <3>1. QED
      BY <2>1, <2>2, UpTo
<1>4. Q(n)
  BY <1>3
<1>5. PICK f : /\ f = [i \in 0..n |-> f[i]]
               /\ \A i \in 0..n : f[i] = AmongStep(f, s, S, i)
  BY <1>4
<1>6. QED
  BY <1>5

LEMMA AmongIs ==
    ASSUME NEW D, NEW s \in Seq(D), NEW S
    PROVE  /\ Among(s, S) \in Seq(D)
           /\ \A k \in 1..Len(Among(s, S)) : \E j \in 1..Len(s) :
                 Among(s, S)[k] = s[j] /\ s[j] \in S
           /\ \A j \in 1..Len(s) : s[j] \in S =>
                 \E k \in 1..Len(Among(s, S)) : Among(s, S)[k] = s[j]
           /\ NoRepeats(s) => NoRepeats(Among(s, S))
<1> DEFINE n == Len(s)
           F == CHOOSE f : f = [i \in 0..n |-> AmongStep(f, s, S, i)]
<1>1. Among(s, S) = F[n]
  BY DEF Among, AmongStep
<1>2. n \in Nat /\ \A i \in 1..n : s[i] \in D
  BY ElementOfSeq, LenProperties
<1>3. F = [i \in 0..n |-> AmongStep(F, s, S, i)]
  BY <1>2, AmongExists
<1>4. PICK f : f = F
  OBVIOUS
<1>5. f = [i \in 0..n |-> AmongStep(f, s, S, i)]
  BY <1>3, <1>4
<1> HIDE DEF F
<1>6. f[0] = <<>>
  BY <1>2, <1>5 DEF AmongStep
<1>7. \A i \in 1..n : f[i] = IF s[i] \in S THEN Append(f[i - 1], s[i])
                                           ELSE f[i - 1]
  <2>1. ASSUME NEW i \in 1..n
        PROVE  f[i] = IF s[i] \in S THEN Append(f[i - 1], s[i]) ELSE f[i - 1]
    <3>1. i \in 0..n /\ i # 0
      BY <1>2
    <3>2. f[i] = AmongStep(f, s, S, i)
      BY <1>5, <3>1
    <3>3. QED
      BY <3>1, <3>2 DEF AmongStep
  <2>2. QED
    BY <2>1
<1> DEFINE Q(i) == /\ f[i] \in Seq(D)
                   /\ \A k \in 1..Len(f[i]) : \E j \in 1..i :
                         f[i][k] = s[j] /\ s[j] \in S
                   /\ \A j \in 1..i : s[j] \in S =>
                         \E k \in 1..Len(f[i]) : f[i][k] = s[j]
                   /\ NoRepeats(s) => NoRepeats(f[i])
           B == {i \in 0..n : ~Q(i)}
<1>8. Q(0)
  <2>1. f[0] \in Seq(D) /\ Len(f[0]) = 0
    BY <1>6
  <2>2. QED
    BY <2>1 DEF NoRepeats
<1>9. ASSUME NEW i \in 1..n, Q(i - 1) PROVE Q(i)
  <2>1. PICK r : r = f[i - 1]
    OBVIOUS
  <2>2. /\ r \in Seq(D)
        /\ \A k \in 1..Len(r) : \E j \in 1..i - 1 : r[k] = s[j] /\ s[j] \in S
        /\ \A j \in 1..i - 1 : s[j] \in S => \E k \in 1..Len(r) : r[k] = s[j]
        /\ NoRepeats(s) => NoRepeats(r)
    BY <1>9, <2>1
  <2>3. CASE s[i] \notin S
    <3>1. f[i] = r
      BY <1>7, <2>1, <2>3
    <3>2. \A j \in 1..i : j \in 1..i - 1 \/ j = i
      BY <1>2
    <3>3. \A j \in 1..i - 1 : j \in 1..i
      BY <1>2
    <3>4. QED
      BY <2>2, <2>3, <3>1, <3>2, <3>3
  <2>4. CASE s[i] \in S
    <3>1. PICK q : q = Append(r, s[i])
      OBVIOUS
    <3>2. f[i] = q
      BY <1>7, <2>1, <2>4, <3>1
    <3>3. /\ q \in Seq(D) /\ Len(r) \in Nat /\ Len(q) = Len(r) + 1
          /\ \A k \in 1..Len(r) : q[k] = r[k]
          /\ q[Len(q)] = s[i] /\ Len(q) \in 1..Len(q)
      BY <1>2, <2>2, <3>1, AppendProperties, LenProperties
    <3>4. \A k \in 1..Len(q) : k \in 1..Len(r) \/ k = Len(q)
      BY <3>3
    <3>5. \A k \in 1..Len(r) : k \in 1..Len(q)
      BY <3>3
    <3>6. i \in 1..i /\ (\A j \in 1..i - 1 : j \in 1..i)
          /\ (\A j \in 1..i : j \in 1..i - 1 \/ j = i)
      BY <1>2
    <3>7. \A k \in 1..Len(q) : \E j \in 1..i : q[k] = s[j] /\ s[j] \in S
      <4>1. ASSUME NEW k \in 1..Len(r)
            PROVE  \E j \in 1..i : q[k] = s[j] /\ s[j] \in S
        <5>1. PICK j \in 1..i - 1 : r[k] = s[j] /\ s[j] \in S
          BY <2>2
        <5>2. QED
          BY <3>3, <3>6, <5>1
      <4>2. i \in 1..i /\ q[Len(q)] = s[i]
        BY <3>3, <3>6
      <4>3. QED
        BY <2>4, <3>4, <4>1, <4>2
    <3>8. \A j \in 1..i : s[j] \in S => \E k \in 1..Len(q) : q[k] = s[j]
      BY <2>2, <3>3, <3>5, <3>6
    <3>9. ASSUME NoRepeats(s) PROVE NoRepeats(q)
      <4>1. \A k, m \in 1..Len(r) : r[k] = r[m] => k = m
        BY <2>2, <3>9 DEF NoRepeats
      <4>2. ASSUME NEW k \in 1..Len(r) PROVE q[k] # s[i]
        <5>1. PICK j \in 1..i - 1 : r[k] = s[j]
          BY <2>2, <4>2
        <5>2. j \in 1..n /\ j # i
          BY <1>2, <5>1
        <5>3. s[j] # s[i]
          BY <3>9, <5>2 DEF NoRepeats
        <5>4. QED
          BY <3>3, <4>2, <5>1, <5>3
      <4>3. QED
        BY <3>3, <3>4, <4>1, <4>2 DEF NoRepeats
    <3>10. QED
      BY <3>2, <3>3, <3>7, <3>8, <3>9
  <2>5. QED
    BY <2>3, <2>4
<1>10. \A i \in 0..n : i \notin B
  <2>1. 0 \notin B
    BY <1>8
  <2>2. ASSUME NEW i \in 1..n, i \in B PROVE i - 1 \in B
    <3>1. ~Q(i) /\ i - 1 \in 0..n
      BY <1>2, <2>2
    <3>2. ~Q(i - 1)
      <4> HIDE DEF Q
      <4>1. QED
        BY <1>9, <3>1
    <3>3. QED
      BY <3>1, <3>2
  <2>3. QED
    <3> HIDE DEF B
    <3>1. QED
      BY <1>2, <2>1, <2>2, UpTo
<1>11. Q(n)
  BY <1>2, <1>10
<1>12. QED
  BY <1>1, <1>4, <1>11

\* Adding, removing and exchanging an element of a finite set.
LEMMA OneMore ==
    ASSUME NEW S, NEW x, IsFiniteSet(S), x \notin S
    PROVE  IsFiniteSet(S \cup {x}) /\ Cardinality(S \cup {x}) = Cardinality(S) + 1
           /\ Cardinality(S) \in Nat
BY FS_AddElement, FS_CardinalityType

LEMMA OneLess ==
    ASSUME NEW S, NEW x, IsFiniteSet(S), x \in S
    PROVE  /\ IsFiniteSet(S \ {x}) /\ Cardinality(S \ {x}) = Cardinality(S) - 1
           /\ Cardinality(S) \in Nat /\ Cardinality(S) > 0
<1>1. Cardinality(S) \in Nat /\ Cardinality(S) # 0
  BY FS_CardinalityType, FS_EmptySet
<1>2. QED
  BY <1>1, FS_RemoveElement

---------------------------------------------------------------------------
(* Sequences of points *)

LEMMA InSeq ==
    ASSUME NEW D, NEW s \in Seq(D), NEW p
    PROVE  p \in ToSet(s) <=> Has(s, p)
<1>1. DOMAIN s = 1..Len(s)
  BY LenProperties
<1>2. QED
  BY <1>1 DEF ToSet, Has

LEMMA HasIn ==
    ASSUME NEW D, NEW s \in Seq(D), NEW p, Has(s, p)
    PROVE  p \in D
BY ElementOfSeq DEF Has

LEMMA EmptyHas ==
    /\ \A p : ~Has(<<>>, p)
    /\ NoRepeats(<<>>)
    /\ \A D : <<>> \in Seq(D)
<1>1. Len(<<>>) = 0
  OBVIOUS
<1>2. \A D : <<>> \in Seq(D)
  OBVIOUS
<1>3. QED
  BY <1>1, <1>2 DEF Has, NoRepeats

LEMMA OneHas ==
    ASSUME NEW x
    PROVE  /\ \A p : Has(<<x>>, p) <=> p = x
           /\ NoRepeats(<<x>>) /\ Len(<<x>>) = 1 /\ <<x>> # <<>>
           /\ Head(<<x>>) = x /\ Tail(<<x>>) = <<>>
           /\ \A D : x \in D => <<x>> \in Seq(D)
<1>1. Len(<<x>>) = 1 /\ <<x>>[1] = x
  OBVIOUS
<1>2. Head(<<x>>) = x
  OBVIOUS
<1>3. <<x>> # <<>>
  OBVIOUS
<1>4. \A D : x \in D => <<x>> \in Seq(D)
  OBVIOUS
<1>5. Tail(<<x>>) = <<>>
  OBVIOUS
<1>6. QED
  BY <1>1, <1>2, <1>3, <1>4, <1>5 DEF Has, NoRepeats

LEMMA NonEmpty ==
    ASSUME NEW D, NEW s \in Seq(D)
    PROVE  /\ Len(s) \in Nat
           /\ s # <<>> <=> Len(s) > 0
           /\ s # <<>> <=> \E p : Has(s, p)
<1>1. Len(s) \in Nat /\ (s # <<>> <=> Len(s) > 0)
  BY EmptySeq, LenProperties
<1>2. Len(s) > 0 => 1 \in 1..Len(s)
  BY <1>1
<1>3. QED
  BY <1>1, <1>2 DEF Has

LEMMA TailIs ==
    ASSUME NEW D, NEW s \in Seq(D), s # <<>>
    PROVE  /\ Head(s) \in D /\ Tail(s) \in Seq(D) /\ Has(s, Head(s))
           /\ Head(s) = s[1] /\ Len(Tail(s)) = Len(s) - 1
           /\ \A p : Has(s, p) <=> p = Head(s) \/ Has(Tail(s), p)
           /\ NoRepeats(s) => NoRepeats(Tail(s)) /\ ~Has(Tail(s), Head(s))
<1>1. /\ Len(s) \in Nat /\ Len(s) > 0 /\ Head(s) = s[1] /\ Head(s) \in D
      /\ Tail(s) \in Seq(D) /\ Len(Tail(s)) = Len(s) - 1
      /\ \A i \in 1..Len(s) - 1 : Tail(s)[i] = s[i + 1]
  BY NonEmpty, HeadTailProperties
<1>2. PICK r : r = Tail(s)
  OBVIOUS
<1>3. PICK n : n = Len(s)
  OBVIOUS
<1>4. /\ n \in Nat /\ n > 0 /\ Len(r) = n - 1
      /\ \A i \in 1..n - 1 : r[i] = s[i + 1]
  BY <1>1, <1>2, <1>3
<1>5. /\ 1 \in 1..n /\ \A i \in 1..n : i = 1 \/ (i - 1 \in 1..n - 1 /\ i = (i - 1) + 1)
      /\ \A i \in 1..n - 1 : i + 1 \in 1..n /\ i + 1 # 1
  BY <1>4
<1>6. \A p : Has(s, p) <=> p = s[1] \/ Has(r, p)
  <2>1. ASSUME NEW p, Has(s, p) PROVE p = s[1] \/ Has(r, p)
    <3>1. PICK i \in 1..n : s[i] = p
      BY <1>3, <2>1 DEF Has
    <3>2. i = 1 \/ r[i - 1] = p
      BY <1>4, <1>5, <3>1
    <3>3. QED
      BY <1>4, <1>5, <3>1, <3>2 DEF Has
  <2>2. ASSUME NEW p, Has(r, p) PROVE Has(s, p)
    <3>1. PICK i \in 1..n - 1 : r[i] = p
      BY <1>4, <2>2 DEF Has
    <3>2. QED
      BY <1>3, <1>4, <1>5, <3>1 DEF Has
  <2>3. Has(s, s[1])
    BY <1>3, <1>5 DEF Has
  <2>4. QED
    BY <2>1, <2>2, <2>3
<1>7. ASSUME NoRepeats(s) PROVE NoRepeats(r) /\ ~Has(r, s[1])
  <2>1. \A i, j \in 1..n : s[i] = s[j] => i = j
    BY <1>3, <1>7 DEF NoRepeats
  <2>2. ASSUME NEW i \in 1..n - 1, NEW j \in 1..n - 1, r[i] = r[j] PROVE i = j
    <3>1. i + 1 = j + 1
      BY <1>4, <1>5, <2>1, <2>2
    <3>2. QED
      BY <1>4, <3>1
  <2>3. ASSUME NEW i \in 1..n - 1 PROVE r[i] # s[1]
    BY <1>4, <1>5, <2>1
  <2>4. QED
    BY <1>4, <2>2, <2>3 DEF NoRepeats, Has
<1>8. QED
  BY <1>1, <1>2, <1>6, <1>7

LEMMA AppendIs ==
    ASSUME NEW D, NEW s \in Seq(D), NEW x \in D
    PROVE  /\ Append(s, x) \in Seq(D) /\ Append(s, x) # <<>>
           /\ \A p : Has(Append(s, x), p) <=> Has(s, p) \/ p = x
           /\ NoRepeats(s) /\ ~Has(s, x) => NoRepeats(Append(s, x))
<1>1. PICK r : r = Append(s, x)
  OBVIOUS
<1>2. PICK n : n = Len(s)
  OBVIOUS
<1>3. /\ r \in Seq(D) /\ n \in Nat /\ Len(r) = n + 1
      /\ \A i \in 1..n : r[i] = s[i]
      /\ r[n + 1] = x
  BY <1>1, <1>2, AppendProperties, LenProperties
<1>4. /\ n + 1 \in 1..n + 1
      /\ \A i \in 1..n + 1 : i \in 1..n \/ i = n + 1
      /\ \A i \in 1..n : i \in 1..n + 1 /\ i # n + 1
  BY <1>3
<1>5. \A p : Has(r, p) <=> Has(s, p) \/ p = x
  BY <1>2, <1>3, <1>4 DEF Has
<1>6. NoRepeats(s) /\ ~Has(s, x) => NoRepeats(r)
  BY <1>2, <1>3, <1>4 DEF Has, NoRepeats
<1>7. r # <<>>
  BY <1>3, NonEmpty
<1>8. QED
  BY <1>1, <1>3, <1>5, <1>6, <1>7

LEMMA ConcatHas ==
    ASSUME NEW D, NEW s \in Seq(D), NEW r \in Seq(D), NEW p
    PROVE  p \in ToSet(s \o r) <=> Has(s, p) \/ Has(r, p)
<1>1. PICK q : q = s \o r
  OBVIOUS
<1>2. PICK n, m : n = Len(s) /\ m = Len(r)
  OBVIOUS
<1>3. /\ q \in Seq(D) /\ n \in Nat /\ m \in Nat /\ Len(q) = n + m
      /\ \A i \in 1..n + m : q[i] = IF i <= n THEN s[i] ELSE r[i - n]
  BY <1>1, <1>2, ConcatProperties, LenProperties
<1>4. ASSUME Has(q, p) PROVE Has(s, p) \/ Has(r, p)
  <2>1. PICK i \in 1..n + m : q[i] = p
    BY <1>3, <1>4 DEF Has
  <2>2. i \in 1..n \/ (i - n \in 1..m /\ ~(i <= n))
    BY <1>3, <2>1
  <2>3. QED
    BY <1>2, <1>3, <2>1, <2>2 DEF Has
<1>5. ASSUME Has(s, p) PROVE Has(q, p)
  <2>1. PICK i \in 1..n : s[i] = p
    BY <1>2, <1>5 DEF Has
  <2>2. i \in 1..n + m /\ i <= n
    BY <1>3, <2>1
  <2>3. QED
    BY <1>3, <2>1, <2>2 DEF Has
<1>6. ASSUME Has(r, p) PROVE Has(q, p)
  <2>1. PICK i \in 1..m : r[i] = p
    BY <1>2, <1>6 DEF Has
  <2>2. i + n \in 1..n + m /\ ~(i + n <= n) /\ (i + n) - n = i
    BY <1>3, <2>1
  <2>3. q[i + n] = p
    BY <1>3, <2>1, <2>2
  <2>4. QED
    BY <1>3, <2>2, <2>3 DEF Has
<1>7. QED
  BY <1>1, <1>3, <1>4, <1>5, <1>6, InSeq

LEMMA AmongHas ==
    ASSUME NEW D, NEW s \in Seq(D), NEW S
    PROVE  /\ Among(s, S) \in Seq(D)
           /\ \A p : Has(Among(s, S), p) <=> Has(s, p) /\ p \in S
           /\ NoRepeats(s) => NoRepeats(Among(s, S))
<1>1. /\ Among(s, S) \in Seq(D)
      /\ \A k \in 1..Len(Among(s, S)) : \E j \in 1..Len(s) :
            Among(s, S)[k] = s[j] /\ s[j] \in S
      /\ \A j \in 1..Len(s) : s[j] \in S =>
            \E k \in 1..Len(Among(s, S)) : Among(s, S)[k] = s[j]
      /\ NoRepeats(s) => NoRepeats(Among(s, S))
  BY AmongIs
<1>2. PICK r : r = Among(s, S)
  OBVIOUS
<1>3. ASSUME NEW p, Has(r, p) PROVE Has(s, p) /\ p \in S
  BY <1>1, <1>2, <1>3 DEF Has
<1>4. ASSUME NEW p \in S, Has(s, p) PROVE Has(r, p)
  BY <1>1, <1>2, <1>4 DEF Has
<1>5. QED
  BY <1>1, <1>2, <1>3, <1>4

LEMMA WithoutIs ==
    ASSUME NEW D, NEW s \in Seq(D), NEW S
    PROVE  /\ Without(s, S) \in Seq(D)
           /\ \A p : Has(Without(s, S), p) <=> Has(s, p) /\ p \notin S
<1>1. \A p : p \in ToSet(s) \ S <=> Has(s, p) /\ p \notin S
  BY InSeq
<1>2. QED
  BY <1>1, AmongHas DEF Without

\* A set whose elements have different keys can be sorted.
LEMMA SortedExists ==
    ASSUME NEW S, IsFiniteSet(S), NEW key, \A x \in S : key[x] \in Nat,
           \A x, y \in S : key[x] = key[y] => x = y
    PROVE  \E s \in [1..Cardinality(S) -> S] :
              /\ ToSet(s) = S
              /\ \A i, j \in 1..Cardinality(S) : i < j => key[s[i]] < key[s[j]]
<1> DEFINE n == Cardinality(S)
           OK(s, k, T) == /\ s \in [1..k -> T]
                          /\ \A x \in T : \E i \in 1..k : s[i] = x
                          /\ \A i, j \in 1..k : i < j => key[s[i]] < key[s[j]]
           Q(k) == \A T \in SUBSET S : Cardinality(T) = k => \E s : OK(s, k, T)
           B == {k \in 0..n : ~Q(k)}
<1>1. n \in Nat
  BY FS_CardinalityType
<1>2. Q(0)
  <2>1. ASSUME NEW T \in SUBSET S, Cardinality(T) = 0 PROVE \E s : OK(s, 0, T)
    <3>1. IsFiniteSet(T)
      BY FS_Subset
    <3>2. T = {}
      BY <2>1, <3>1, FS_EmptySet
    <3>3. PICK s : s = [i \in 1..0 |-> 0]
      OBVIOUS
    <3>4. OK(s, 0, T)
      BY <3>2, <3>3
    <3>5. QED
      BY <3>4
  <2>2. QED
    BY <2>1
<1>3. ASSUME NEW k \in 1..n, Q(k - 1) PROVE Q(k)
  <2>1. ASSUME NEW T \in SUBSET S, Cardinality(T) = k PROVE \E s : OK(s, k, T)
    <3>1. IsFiniteSet(T)
      BY FS_Subset
    <3>2. T # {}
      <4>1. k # 0
        BY <1>1
      <4>2. QED
        BY <2>1, <4>1, FS_EmptySet
    <3>3. PICK N : N = {key[x] : x \in T}
      OBVIOUS
    <3>4. N \subseteq Nat /\ N # {}
      BY <3>2, <3>3
    <3>5. PICK a \in N : \A b \in N : ~(b < a)
      BY <3>4, LeastNatural
    <3>6. PICK m \in T : key[m] = a
      BY <3>3, <3>5
    <3>7. \A x \in T : x # m => key[m] < key[x]
      <4>1. ASSUME NEW x \in T, x # m PROVE key[m] < key[x]
        <5>1. key[x] \in N /\ key[x] # key[m]
          BY <3>3, <4>1
        <5>2. ~(key[x] < key[m]) /\ key[x] \in Nat /\ key[m] \in Nat
          BY <3>4, <3>5, <3>6, <5>1
        <5>3. QED
          BY <5>1, <5>2
      <4>2. QED
        BY <4>1
    <3>8. PICK R : R = T \ {m}
      OBVIOUS
    <3>9. R \in SUBSET S /\ Cardinality(R) = k - 1
      <4>1. R \in SUBSET S
        BY <3>8
      <4>2. Cardinality(R) = k - 1
        BY <2>1, <3>1, <3>8, OneLess
      <4>3. QED
        BY <4>1, <4>2
    <3>10. PICK s : OK(s, k - 1, R)
      BY <1>3, <3>9
    <3>11. PICK u : u = [i \in 1..k |-> IF i = 1 THEN m ELSE s[i - 1]]
      OBVIOUS
    <3>12. /\ 1 \in 1..k
           /\ \A i \in 1..k : i # 1 => i - 1 \in 1..k - 1
           /\ \A i \in 1..k - 1 : i + 1 \in 1..k /\ i + 1 # 1 /\ (i + 1) - 1 = i
           /\ \A i, j \in 1..k : i < j => j # 1 /\ (i # 1 => i - 1 < j - 1)
      BY <1>1
    <3>13. /\ u[1] = m
           /\ \A i \in 1..k : i # 1 => u[i] = s[i - 1] /\ s[i - 1] \in R
      BY <3>10, <3>11, <3>12
    <3>14. u \in [1..k -> T]
      BY <3>8, <3>10, <3>11, <3>12
    <3>15. ASSUME NEW x \in T PROVE \E i \in 1..k : u[i] = x
      <4>1. CASE x = m
        BY <3>12, <3>13, <4>1
      <4>2. CASE x # m
        <5>1. PICK i \in 1..k - 1 : s[i] = x
          BY <3>8, <3>10, <4>2
        <5>2. i + 1 \in 1..k /\ u[i + 1] = x
          BY <3>11, <3>12, <5>1
        <5>3. QED
          BY <5>2
      <4>3. QED
        BY <4>1, <4>2
    <3>16. ASSUME NEW i \in 1..k, NEW j \in 1..k, i < j
           PROVE  key[u[i]] < key[u[j]]
      <4>1. j # 1 /\ u[j] = s[j - 1] /\ s[j - 1] \in R /\ j - 1 \in 1..k - 1
        BY <3>12, <3>13, <3>16
      <4>2. CASE i = 1
        BY <3>7, <3>8, <3>13, <4>1, <4>2
      <4>3. CASE i # 1
        <5>1. i - 1 \in 1..k - 1 /\ i - 1 < j - 1 /\ u[i] = s[i - 1]
          BY <3>12, <3>13, <3>16, <4>3
        <5>2. QED
          BY <3>10, <4>1, <5>1
      <4>4. QED
        BY <4>2, <4>3
    <3>17. QED
      BY <3>14, <3>15, <3>16
  <2>2. QED
    BY <2>1
<1>4. \A k \in 0..n : k \notin B
  <2>1. 0 \notin B
    BY <1>2
  <2>2. ASSUME NEW k \in 1..n, k \in B PROVE k - 1 \in B
    <3>1. ~Q(k) /\ k - 1 \in 0..n
      <4>1. ~Q(k)
        BY <2>2
      <4> HIDE DEF Q, B
      <4>2. n \in Nat /\ k \in 1..n
        BY <1>1, <2>2
      <4>3. k - 1 \in 0..n
        BY <4>2
      <4>4. QED
        BY <4>1, <4>3
    <3>2. ~Q(k - 1)
      <4> HIDE DEF Q
      <4>1. QED
        BY <1>3, <3>1
    <3>3. QED
      BY <3>1, <3>2
  <2>3. QED
    <3> HIDE DEF B
    <3>1. QED
      BY <1>1, <2>1, <2>2, UpTo
<1>5. Q(n)
  <2>1. n \in 0..n /\ n \notin B
    <3> HIDE DEF B, n
    <3>1. QED
      BY <1>1, <1>4
  <2> HIDE DEF Q, n
  <2>2. QED
    BY <2>1
<1>6. PICK s : OK(s, n, S)
  <2>1. S \in SUBSET S /\ Cardinality(S) = n
    OBVIOUS
  <2>2. QED
    BY <1>5, <2>1
<1>7. ToSet(s) = S
  BY <1>6 DEF ToSet
<1>8. QED
  BY <1>6, <1>7

LEMMA SortedIs ==
    ASSUME NEW S, IsFiniteSet(S), NEW key, \A x \in S : key[x] \in Nat,
           \A x, y \in S : key[x] = key[y] => x = y
    PROVE  /\ Sorted(S, key) \in Seq(S)
           /\ \A x : Has(Sorted(S, key), x) <=> x \in S
           /\ NoRepeats(Sorted(S, key))
<1>1. PICK n : n = Cardinality(S)
  OBVIOUS
<1>2. n \in Nat
  BY <1>1, FS_CardinalityType
<1>3. PICK s : s = Sorted(S, key)
  OBVIOUS
<1>4. /\ s \in [1..n -> S] /\ ToSet(s) = S
      /\ \A i, j \in 1..n : i < j => key[s[i]] < key[s[j]]
  <2>1. \E q \in [1..n -> S] :
              /\ ToSet(q) = S
              /\ \A i, j \in 1..n : i < j => key[q[i]] < key[q[j]]
    BY <1>1, SortedExists
  <2>2. QED
    BY <1>1, <1>3, <2>1 DEF Sorted
<1>5. s \in Seq(S) /\ Len(s) = n
  BY <1>2, <1>4
<1>6. \A x : Has(s, x) <=> x \in S
  BY <1>4, <1>5, InSeq
<1>7. ASSUME NEW i \in 1..n, NEW j \in 1..n, s[i] = s[j] PROVE i = j
  <2>1. i < j \/ j < i \/ i = j
    BY <1>2
  <2>2. key[s[i]] \in Nat /\ key[s[j]] \in Nat
    BY <1>4
  <2>3. ~(i < j) /\ ~(j < i)
    BY <1>4, <1>7, <2>2
  <2>4. QED
    BY <2>1, <2>3
<1>8. QED
  BY <1>3, <1>5, <1>6, <1>7 DEF NoRepeats

\* The largest of some numbers up to n.
LEMMA MaxIs ==
    ASSUME NEW n \in Nat, NEW S \in SUBSET (0..n), S # {}
    PROVE  Max(S) \in S /\ \A x \in S : Max(S) >= x
<1>1. PICK N : N = {n - x : x \in S}
  OBVIOUS
<1>2. N \subseteq Nat /\ N # {}
  <2>1. PICK x : x \in S
    OBVIOUS
  <2>2. n - x \in N
    BY <1>1, <2>1
  <2>3. QED
    BY <1>1, <2>2
<1>3. PICK a \in N : \A b \in N : ~(b < a)
  BY <1>2, LeastNatural
<1>4. PICK m \in S : a = n - m
  BY <1>1, <1>3
<1>5. ASSUME NEW x \in S PROVE m >= x
  <2>1. n - x \in N
    BY <1>1
  <2>2. ~(n - x < n - m)
    BY <1>3, <1>4, <2>1
  <2>3. m \in 0..n /\ x \in 0..n
    OBVIOUS
  <2>4. QED
    BY <2>2, <2>3
<1>6. QED
  BY <1>5 DEF Max


---------------------------------------------------------------------------
(* What the invariant says of a thread, a fence or a point *)

LEMMA FiniteSets ==
    /\ IsFiniteSet(Threads) /\ IsFiniteSet(Fences) /\ IsFiniteSet(Points)
    /\ IsFiniteSet(Processes)
<1>1. IsFiniteSet(Clients) /\ IsFiniteSet(Processes) /\ MaxFences \in Nat /\ MaxPoints \in Nat
  BY FallbackAssumption
<1>2. IsFiniteSet(Clients \cup {Cleaner})
  BY <1>1, FS_AddElement
<1>3. IsFiniteSet(1..MaxFences) /\ IsFiniteSet(1..MaxPoints)
  BY <1>1, FS_Interval
<1>4. QED
  BY <1>1, <1>2, <1>3 DEF Threads, Fences, Points

LEMMA IdleIs ==
    /\ Idle \in ThreadRec
    /\ Idle.pc = "idle" /\ Idle.op = "none" /\ Idle.f = 0 /\ Idle.new = 0
    /\ Idle.looked = {} /\ Idle.todo = <<>> /\ Idle.got = <<>> /\ Idle.err = FALSE
    /\ Idle.tl = 0
<1>1. <<>> \in Seq(Points) /\ 0 \in 0..MaxFences /\ "idle" \in PCs
  BY EmptyHas, FallbackAssumption DEF PCs
<1>2. QED
  BY <1>1 DEF Idle, ThreadRec

LEMMA ThreadIs ==
    ASSUME Inv, NEW t \in Threads
    PROVE  /\ th[t] \in ThreadRec /\ Shape(th[t]) /\ PlaceOK(t)
           /\ th[t].pc \in PCs /\ th[t].op \in {"none", "merge", "resolve"}
           /\ th[t].f \in 0..MaxFences /\ th[t].new \in 0..MaxFences
           /\ th[t].looked \subseteq Fences
           /\ th[t].todo \in Seq(Points) /\ th[t].got \in Seq(Points)
           /\ th[t].err \in BOOLEAN /\ th[t].tl \in Timelines \cup {0}
<1>1. th[t] \in ThreadRec
  BY DEF Inv, Typed
<1>2. QED
  BY <1>1 DEF Inv, ControlOK, ThreadRec

\* A thread that has something to do.
LEMMA TodoIs ==
    ASSUME Inv, NEW t \in Threads, th[t].todo # <<>>, NEW p, p = Head(th[t].todo)
    PROVE  /\ p \in Points /\ Has(th[t].todo, p)
           /\ Tail(th[t].todo) \in Seq(Points)
           /\ \A q : Has(th[t].todo, q) <=> q = p \/ Has(Tail(th[t].todo), q)
           /\ NoRepeats(Tail(th[t].todo)) /\ ~Has(Tail(th[t].todo), p)
<1>1. th[t].todo \in Seq(Points) /\ NoRepeats(th[t].todo)
  BY ThreadIs DEF Shape
<1>2. QED
  BY <1>1, TailIs

LEMMA PointIs ==
    ASSUME Inv, NEW p \in Points
    PROVE  /\ point[p] \in PointRec
           /\ point[p].tl \in Timelines \cup {0} /\ point[p].seq \in 0..MaxPoints
           /\ point[p].ref \in Nat /\ point[p].status \in States
           /\ point[p].life \in Lives /\ point[p].attached \in Seq(Attached)
           /\ (point[p].ref > 0 => point[p].life = "live")
<1>1. point[p] \in PointRec
  BY DEF Inv, Typed
<1>2. point[p].life # "live" => point[p].ref = 0
  BY DEF Inv, LifeOK
<1>3. QED
  BY <1>1, <1>2 DEF PointRec

LEMMA FenceIs ==
    ASSUME Inv, NEW f \in Fences
    PROVE  /\ fence[f] \in FenceRec
           /\ fence[f].pts \in Seq(Points) /\ fence[f].ref \in Nat
           /\ fence[f].handles \subseteq Processes /\ fence[f].life \in Lives
           /\ fence[f].src \subseteq Points
<1>1. fence[f] \in FenceRec
  BY DEF Inv, Typed
<1>2. QED
  BY <1>1 DEF FenceRec

LEMMA TimelineIs ==
    ASSUME Inv, NEW tl \in Timelines
    PROVE  /\ timeline[tl] \in TimelineRec
           /\ timeline[tl].life \in Lives /\ timeline[tl].ref \in Nat
           /\ timeline[tl].seq \in 0..MaxPoints /\ timeline[tl].last \in 0..MaxPoints
           /\ timeline[tl].handle \in BOOLEAN /\ timeline[tl].active \in Seq(Points)
           /\ timeline[tl].lock \in Threads \cup {NoLock}
<1>1. timeline[tl] \in TimelineRec
  BY DEF Inv, Typed
<1>2. QED
  BY <1>1 DEF TimelineRec

\* The sets that the counts count.
LEMMA FiniteCounts ==
    /\ \A p : IsFiniteSet(FencesOf(p)) /\ IsFiniteSet(KeepersOf(p))
    /\ \A f : IsFiniteSet(UsersOf(f))
    /\ \A tl : IsFiniteSet(PointsOn(tl))
<1>1. /\ \A p : FencesOf(p) \in SUBSET Fences /\ KeepersOf(p) \in SUBSET Threads
      /\ \A f : UsersOf(f) \in SUBSET Threads
      /\ \A tl : PointsOn(tl) \in SUBSET Points
  BY DEF FencesOf, KeepersOf, UsersOf, PointsOn
<1>2. QED
  BY <1>1, FiniteSets, FS_Subset

LEMMA FewNone ==
    ASSUME NEW S, IsFiniteSet(S)
    PROVE  /\ Cardinality(S) \in Nat
           /\ \A x \in S : Cardinality(S) > 0
           /\ Cardinality(S) = 0 => S = {}
           /\ Cardinality(S) <= 1 => \A x, y \in S : x = y
<1>1. Cardinality(S) \in Nat /\ (Cardinality(S) = 0 <=> S = {})
  BY FS_CardinalityType, FS_EmptySet
<1>2. ASSUME NEW x \in S, NEW y \in S, x # y, Cardinality(S) <= 1 PROVE FALSE
  <2>1. IsFiniteSet(S \ {x}) /\ Cardinality(S \ {x}) = Cardinality(S) - 1
    BY OneLess
  <2>2. y \in S \ {x}
    BY <1>2
  <2>3. Cardinality(S \ {x}) # 0
    BY <2>1, <2>2, FS_EmptySet
  <2>4. QED
    BY <1>1, <1>2, <2>1, <2>3
<1>3. QED
  BY <1>1, <1>2

\* Whoever keeps a point, and a fence with it, has a reference to it.
LEMMA Referenced ==
    ASSUME Inv, NEW p \in Points,
           \/ \E t \in Threads : Keeps(th[t], p)
           \/ \E f \in Fences : Has(fence[f].pts, p)
    PROVE  point[p].ref > 0 /\ point[p].life = "live"
<1>1. PICK a, b : a = Cardinality(FencesOf(p)) /\ b = Cardinality(KeepersOf(p))
  OBVIOUS
<1>2. a \in Nat /\ b \in Nat
  BY <1>1, FiniteCounts, FewNone
<1>3. a > 0 \/ b > 0
  <2>1. CASE \E t \in Threads : Keeps(th[t], p)
    <3>1. PICK t \in Threads : Keeps(th[t], p)
      BY <2>1
    <3>2. t \in KeepersOf(p)
      BY <3>1 DEF KeepersOf
    <3>3. QED
      BY <1>1, <3>2, FiniteCounts, FewNone
  <2>2. CASE \E f \in Fences : Has(fence[f].pts, p)
    <3>1. PICK f \in Fences : Has(fence[f].pts, p)
      BY <2>2
    <3>2. f \in FencesOf(p)
      BY <3>1 DEF FencesOf
    <3>3. QED
      BY <1>1, <3>2, FiniteCounts, FewNone
  <2>3. QED
    BY <2>1, <2>2
<1>4. point[p].ref = a + b
  BY <1>1 DEF Inv, PointRefs
<1>5. QED
  BY <1>2, <1>3, <1>4, PointIs

LEMMA FencePoint ==
    ASSUME Inv, NEW f \in Fences, NEW p, Has(fence[f].pts, p)
    PROVE  /\ p \in Points /\ point[p].ref > 0 /\ point[p].life = "live" /\ HasSync(p)
           /\ fence[f].life = "live"
<1>1. p \in Points
  BY FenceIs, HasIn
<1>2. point[p].ref > 0 /\ point[p].life = "live"
  BY <1>1, Referenced
<1>3. HasSync(p)
  BY <1>1, <1>2 DEF Inv, SyncOK, Bare
<1>4. fence[f].pts # <<>>
  BY EmptyHas
<1>5. fence[f].life = "live"
  BY <1>4 DEF Inv, LifeOK
<1>6. QED
  BY <1>1, <1>2, <1>3, <1>5

LEMMA LookedPoint ==
    ASSUME Inv, NEW t \in Threads, NEW p, th[t].pc \in Looking \cup {"force"},
           Has(th[t].todo, p)
    PROVE  p \in Points /\ point[p].ref > 0 /\ point[p].life = "live" /\ HasSync(p)
<1>1. p \in Points
  BY ThreadIs, HasIn
<1>2. CASE th[t].pc \in Looking
  <2>1. PICK f \in th[t].looked : Has(fence[f].pts, p)
    BY <1>1, <1>2 DEF Inv, LookedOK
  <2>2. QED
    BY <2>1, ThreadIs, FencePoint
<1>3. CASE th[t].pc = "force"
  <2>1. Has(fence[th[t].f].pts, p)
    BY <1>1, <1>3 DEF Inv, LookedOK
  <2>2. th[t].f \in Fences
    <3>1. Shape(th[t])
      BY ThreadIs
    <3>2. QED
      BY <1>3, <3>1 DEF Shape
  <2>3. QED
    BY <2>1, <2>2, FencePoint
<1>4. QED
  BY <1>2, <1>3

\* A fence that a thread has looked up or uses is there.
LEMMA UsedFence ==
    ASSUME Inv, NEW f \in Fences,
           \/ \E t \in Threads : Uses(th[t], f) \/ f \in th[t].looked
           \/ fence[f].handles # {}
    PROVE  fence[f].life = "live" /\ fence[f].ref > 0
<1>1. PICK a, b : a = Cardinality(fence[f].handles) /\ b = Cardinality(UsersOf(f))
  OBVIOUS
<1>2. IsFiniteSet(fence[f].handles) /\ IsFiniteSet(UsersOf(f))
  BY FenceIs, FiniteSets, FiniteCounts, FS_Subset
<1>3. a \in Nat /\ b \in Nat
  BY <1>1, <1>2, FewNone
<1>4. fence[f].handles # {} \/ \E t \in Threads : Uses(th[t], f)
  BY DEF Inv, LookedOK
<1>5. a > 0 \/ b > 0
  <2>1. CASE fence[f].handles # {}
    BY <1>1, <1>2, <2>1, FewNone
  <2>2. CASE \E t \in Threads : Uses(th[t], f)
    <3>1. PICK t \in Threads : t \in UsersOf(f)
      BY <2>2 DEF UsersOf
    <3>2. QED
      BY <1>1, <1>2, <3>1, FewNone
  <2>3. QED
    BY <1>4, <2>1, <2>2
<1>6. fence[f].ref = a + b /\ (fence[f].life = "live" <=> fence[f].ref > 0)
  BY <1>1 DEF Inv, FenceRefs
<1>7. QED
  BY <1>3, <1>5, <1>6

LEMMA LiveTimeline ==
    ASSUME Inv, NEW p \in Points, point[p].life = "live"
    PROVE  /\ point[p].tl \in Timelines /\ timeline[point[p].tl].ref > 0
           /\ timeline[point[p].tl].life = "live"
<1>1. point[p].tl \in Timelines
  BY DEF Inv, SeqOK, Tl
<1>2. PICK tl \in Timelines : tl = point[p].tl
  BY <1>1
<1>3. p \in PointsOn(tl)
  BY <1>2 DEF PointsOn
<1>4. Cardinality(PointsOn(tl)) \in Nat /\ Cardinality(PointsOn(tl)) > 0
  BY <1>3, FiniteCounts, FewNone
<1>5. /\ timeline[tl].ref = Cardinality(PointsOn(tl)) + IF timeline[tl].handle THEN 1 ELSE 0
      /\ timeline[tl].ref > 0 => timeline[tl].life = "live"
  BY DEF Inv, TimelineRefs
<1>6. timeline[tl].ref > 0
  <2>1. CASE timeline[tl].handle
    BY <1>4, <1>5, <2>1
  <2>2. CASE ~timeline[tl].handle
    BY <1>4, <1>5, <2>2
  <2>3. QED
    BY <2>1, <2>2
<1>7. QED
  BY <1>1, <1>2, <1>5, <1>6


---------------------------------------------------------------------------
(* Steps of one thread *)

Moved(t) == \A u \in Threads : u # t => th'[u] = th[u]

LEMMA ThreadMoves ==
    ASSUME Inv, NEW t \in Threads, NEW r \in ThreadRec, th' = [th EXCEPT ![t] = r]
    PROVE  th' \in [Threads -> ThreadRec] /\ th'[t] = r /\ Moved(t)
<1>1. th \in [Threads -> ThreadRec]
  BY DEF Inv, Typed
<1>2. QED
  BY <1>1 DEF Moved

\* A thread goes on to another place.
LEMMA StepIs ==
    ASSUME Inv, NEW t \in Threads, NEW c \in PCs, Step(t, c)
    PROVE  /\ th' \in [Threads -> ThreadRec] /\ Moved(t) /\ th'[t] \in ThreadRec
           /\ th'[t].pc = c /\ th'[t].op = th[t].op /\ th'[t].f = th[t].f
           /\ th'[t].new = th[t].new /\ th'[t].looked = th[t].looked
           /\ th'[t].todo = th[t].todo /\ th'[t].got = th[t].got
           /\ th'[t].err = th[t].err /\ th'[t].tl = th[t].tl
<1>1. th[t] \in ThreadRec
  BY ThreadIs
<1>2. PICK r : r = [th[t] EXCEPT !.pc = c]
  OBVIOUS
<1>3. /\ r \in ThreadRec
      /\ r.pc = c /\ r.op = th[t].op /\ r.f = th[t].f
      /\ r.new = th[t].new /\ r.looked = th[t].looked
      /\ r.todo = th[t].todo /\ r.got = th[t].got
      /\ r.err = th[t].err /\ r.tl = th[t].tl
  BY <1>1, <1>2 DEF ThreadRec
<1>4. th' = [th EXCEPT ![t] = r]
  BY <1>2 DEF Step
<1>5. th' \in [Threads -> ThreadRec] /\ Moved(t) /\ th'[t] = r
  BY <1>3, <1>4, ThreadMoves
<1>6. QED
  BY <1>3, <1>5

LEMMA FinishIs ==
    ASSUME Inv, NEW t \in Threads, Finish(t)
    PROVE  /\ th' \in [Threads -> ThreadRec] /\ Moved(t) /\ th'[t] = Idle
           /\ Shape(th'[t])
<1>1. th' \in [Threads -> ThreadRec] /\ Moved(t) /\ th'[t] = Idle
  BY IdleIs, ThreadMoves DEF Finish
<1>2. Shape(Idle)
  BY IdleIs, EmptyHas DEF Shape, Creating, Looking, Waiting
<1>3. QED
  BY <1>1, <1>2

LEMMA NextCheckIs ==
    ASSUME Inv, NEW t \in Threads, NextCheck(t), th[t].todo # <<>>
    PROVE  /\ th' \in [Threads -> ThreadRec] /\ Moved(t) /\ th'[t] \in ThreadRec
           /\ \/ th'[t] = Idle /\ th[t].op = "resolve" /\ Tail(th[t].todo) = <<>>
              \/ /\ th'[t].pc = "check" /\ th'[t].op = th[t].op /\ th'[t].f = th[t].f
                 /\ th'[t].new = th[t].new /\ th'[t].looked = th[t].looked
                 /\ th'[t].todo = Tail(th[t].todo) /\ th'[t].got = th[t].got
                 /\ th'[t].err = th[t].err /\ th'[t].tl = th[t].tl
                 /\ th[t].op = "resolve" => Tail(th[t].todo) # <<>>
<1>1. th[t] \in ThreadRec /\ Tail(th[t].todo) \in Seq(Points)
  BY ThreadIs, TailIs
<1>2. PICK d : d = Tail(th[t].todo)
  OBVIOUS
<1>3. PICK r : r = [th[t] EXCEPT !.pc = "check", !.todo = d]
  OBVIOUS
<1>4. /\ r \in ThreadRec
      /\ r.pc = "check" /\ r.op = th[t].op /\ r.f = th[t].f
      /\ r.new = th[t].new /\ r.looked = th[t].looked
      /\ r.todo = d /\ r.got = th[t].got
      /\ r.err = th[t].err /\ r.tl = th[t].tl
  BY <1>1, <1>2, <1>3 DEF ThreadRec, PCs
<1>5. CASE d = <<>> /\ th[t].op = "resolve"
  <2>1. th' = [th EXCEPT ![t] = Idle]
    BY <1>2, <1>5 DEF NextCheck
  <2>2. th' \in [Threads -> ThreadRec] /\ Moved(t) /\ th'[t] = Idle
    BY <2>1, IdleIs, ThreadMoves
  <2>3. QED
    BY <1>2, <1>5, <2>2, IdleIs
<1>6. CASE ~(d = <<>> /\ th[t].op = "resolve")
  <2>1. th' = [th EXCEPT ![t] = r]
    BY <1>2, <1>3, <1>6 DEF NextCheck
  <2>2. th' \in [Threads -> ThreadRec] /\ Moved(t) /\ th'[t] = r
    BY <1>4, <2>1, ThreadMoves
  <2>3. QED
    BY <1>2, <1>4, <1>6, <2>2
<1>7. QED
  BY <1>5, <1>6

\* A record of a thread that releases points.
Relieved(s, pts) ==
    \/ pts = <<>> /\ s = Idle
    \/ /\ pts # <<>>
       /\ s.pc = "relPt" /\ s.op = "none" /\ s.f = 0 /\ s.new = 0 /\ s.looked = {}
       /\ s.todo = pts /\ s.got = <<>> /\ s.tl = 0

LEMMA RelievedIs ==
    ASSUME NEW pts \in Seq(Points), NEW e \in BOOLEAN, NEW s,
           s = IF pts = <<>> THEN Idle
               ELSE [Idle EXCEPT !.pc = "relPt", !.todo = pts, !.err = e]
    PROVE  s \in ThreadRec /\ Relieved(s, pts)
<1>1. CASE pts = <<>>
  BY <1>1, IdleIs DEF Relieved
<1>2. CASE pts # <<>>
  <2>1. s = [Idle EXCEPT !.pc = "relPt", !.todo = pts, !.err = e]
    BY <1>2
  <2>2. QED
    BY <1>2, <2>1, IdleIs DEF Relieved, ThreadRec, PCs
<1>3. QED
  BY <1>1, <1>2

LEMMA RelievedShape ==
    ASSUME NEW pts \in Seq(Points), NoRepeats(pts), NEW s, Relieved(s, pts)
    PROVE  /\ Shape(s) /\ s.looked = {} /\ s.pc \in {"idle", "relPt"}
           /\ s.op = "none" /\ s.got = <<>>
           /\ \A p : Keeps(s, p) <=> Has(pts, p)
           /\ \A p : ~Unlists(s, p)
           /\ \A f : ~Uses(s, f) /\ ~Makes(s, f)
           /\ \A tl : ~Frees(s, tl)
<1>1. CASE pts = <<>>
  <2>1. s = Idle
    BY <1>1 DEF Relieved
  <2>2. Shape(Idle)
    BY IdleIs, EmptyHas DEF Shape, Creating, Looking, Waiting
  <2>3. Owed(Idle) = <<>>
    BY IdleIs DEF Owed, Creating
  <2>4. QED
    BY <1>1, <2>1, <2>2, <2>3, IdleIs, EmptyHas
       DEF Keeps, Unlists, Uses, Makes, Frees, Waiting, Creating
<1>2. CASE pts # <<>>
  <2>1. /\ s.pc = "relPt" /\ s.op = "none" /\ s.looked = {}
        /\ s.todo = pts /\ s.got = <<>>
    BY <1>2 DEF Relieved
  <2>2. Shape(s)
    BY <1>2, <2>1, EmptyHas DEF Shape, Creating, Looking, Waiting
  <2>3. Owed(s) = pts
    BY <2>1 DEF Owed
  <2>4. QED
    BY <2>1, <2>2, <2>3, EmptyHas
       DEF Keeps, Unlists, Uses, Makes, Frees, Waiting, Creating
<1>3. QED
  BY <1>1, <1>2

LEMMA ReleasingIs ==
    ASSUME Inv, NEW t \in Threads, NEW pts \in Seq(Points), Releasing(t, pts)
    PROVE  /\ th' \in [Threads -> ThreadRec] /\ Moved(t)
           /\ Relieved(th'[t], pts)
<1>1. PICK s : s = IF pts = <<>> THEN Idle
                   ELSE [Idle EXCEPT !.pc = "relPt", !.todo = pts]
  OBVIOUS
<1>2. CASE pts = <<>>
  <2>1. s = Idle
    BY <1>1, <1>2
  <2>2. s \in ThreadRec /\ Relieved(s, pts)
    BY <1>2, <2>1, IdleIs DEF Relieved
  <2>3. QED
    BY <1>1, <2>2, ThreadMoves DEF Releasing
<1>3. CASE pts # <<>>
  <2>1. s = [Idle EXCEPT !.pc = "relPt", !.todo = pts]
    BY <1>1, <1>3
  <2>2. s \in ThreadRec /\ Relieved(s, pts)
    BY <1>3, <2>1, IdleIs DEF Relieved, ThreadRec, PCs
  <2>3. QED
    BY <1>1, <2>2, ThreadMoves DEF Releasing
<1>4. QED
  BY <1>2, <1>3

LEMMA NextPointIs ==
    ASSUME Inv, NEW t \in Threads, th[t].todo # <<>>, NEW e \in BOOLEAN, NextPoint(t, e)
    PROVE  /\ th' \in [Threads -> ThreadRec] /\ Moved(t)
           /\ Relieved(th'[t], Tail(th[t].todo))
<1>1. Tail(th[t].todo) \in Seq(Points)
  BY ThreadIs, TailIs
<1>2. PICK d : d = Tail(th[t].todo)
  OBVIOUS
<1>3. PICK s : s = IF d = <<>> THEN Idle
                   ELSE [Idle EXCEPT !.pc = "relPt", !.todo = d, !.err = e]
  OBVIOUS
<1>4. s \in ThreadRec /\ Relieved(s, d)
  BY <1>1, <1>2, <1>3, RelievedIs
<1>5. th' = [th EXCEPT ![t] = s]
  BY <1>2, <1>3 DEF NextPoint
<1>6. QED
  BY <1>2, <1>4, <1>5, ThreadMoves

\* Only the thread that moves has to be looked at.
LEMMA ControlMoved ==
    ASSUME Inv, NEW t \in Threads, Moved(t), alive' = alive,
           Shape(th'[t]), PlaceOK(t)'
    PROVE  ControlOK'
<1>1. ASSUME NEW u \in Threads, u # t PROVE Shape(th'[u]) /\ PlaceOK(u)'
  <2>1. th'[u] = th[u]
    BY <1>1 DEF Moved
  <2>2. Shape(th[u]) /\ PlaceOK(u)
    BY ThreadIs
  <2>3. PlaceOK(u)'
    BY <2>1, <2>2 DEF PlaceOK
  <2>4. QED
    BY <2>1, <2>2, <2>3
<1>2. QED
  BY <1>1 DEF ControlOK


---------------------------------------------------------------------------
(* The counts from one state to the next *)

LEMMA KeepersSame ==
    ASSUME NEW p, \A u \in Threads : Keeps(th'[u], p) <=> Keeps(th[u], p)
    PROVE  KeepersOf(p)' = KeepersOf(p)
BY DEF KeepersOf

LEMMA KeepersMoved ==
    ASSUME NEW p, NEW t \in Threads, Moved(t), Keeps(th'[t], p) <=> Keeps(th[t], p)
    PROVE  KeepersOf(p)' = KeepersOf(p)
BY DEF KeepersOf, Moved

LEMMA KeepersMore ==
    ASSUME NEW p, NEW t \in Threads, Moved(t), Keeps(th'[t], p), ~Keeps(th[t], p)
    PROVE  Cardinality(KeepersOf(p)') = Cardinality(KeepersOf(p)) + 1
<1>1. KeepersOf(p)' = KeepersOf(p) \cup {t} /\ t \notin KeepersOf(p)
  BY DEF KeepersOf, Moved
<1>2. QED
  BY <1>1, FiniteCounts, OneMore

LEMMA KeepersLess ==
    ASSUME NEW p, NEW t \in Threads, Moved(t), ~Keeps(th'[t], p), Keeps(th[t], p)
    PROVE  Cardinality(KeepersOf(p)') = Cardinality(KeepersOf(p)) - 1
<1>1. KeepersOf(p)' = KeepersOf(p) \ {t} /\ t \in KeepersOf(p)
  BY DEF KeepersOf, Moved
<1>2. QED
  BY <1>1, FiniteCounts, OneLess

OtherFences(f) == \A g \in Fences : g # f => fence'[g] = fence[g]

LEMMA FencesSame ==
    ASSUME NEW p, \A f \in Fences : Has(fence'[f].pts, p) <=> Has(fence[f].pts, p)
    PROVE  FencesOf(p)' = FencesOf(p)
BY DEF FencesOf

LEMMA FencesMore ==
    ASSUME NEW p, NEW f \in Fences, OtherFences(f),
           Has(fence'[f].pts, p), ~Has(fence[f].pts, p)
    PROVE  Cardinality(FencesOf(p)') = Cardinality(FencesOf(p)) + 1
<1>1. FencesOf(p)' = FencesOf(p) \cup {f} /\ f \notin FencesOf(p)
  BY DEF FencesOf, OtherFences
<1>2. QED
  BY <1>1, FiniteCounts, OneMore

LEMMA FencesLess ==
    ASSUME NEW p, NEW f \in Fences, OtherFences(f),
           ~Has(fence'[f].pts, p), Has(fence[f].pts, p)
    PROVE  Cardinality(FencesOf(p)') = Cardinality(FencesOf(p)) - 1
<1>1. FencesOf(p)' = FencesOf(p) \ {f} /\ f \in FencesOf(p)
  BY DEF FencesOf, OtherFences
<1>2. QED
  BY <1>1, FiniteCounts, OneLess

LEMMA UsersSame ==
    ASSUME NEW f, \A u \in Threads : Uses(th'[u], f) <=> Uses(th[u], f)
    PROVE  UsersOf(f)' = UsersOf(f)
BY DEF UsersOf

LEMMA UsersMore ==
    ASSUME NEW f, NEW t \in Threads, Moved(t), Uses(th'[t], f), ~Uses(th[t], f)
    PROVE  Cardinality(UsersOf(f)') = Cardinality(UsersOf(f)) + 1
<1>1. UsersOf(f)' = UsersOf(f) \cup {t} /\ t \notin UsersOf(f)
  BY DEF UsersOf, Moved
<1>2. QED
  BY <1>1, FiniteCounts, OneMore

LEMMA UsersLess ==
    ASSUME NEW f, NEW t \in Threads, Moved(t), ~Uses(th'[t], f), Uses(th[t], f)
    PROVE  Cardinality(UsersOf(f)') = Cardinality(UsersOf(f)) - 1
<1>1. UsersOf(f)' = UsersOf(f) \ {t} /\ t \in UsersOf(f)
  BY DEF UsersOf, Moved
<1>2. QED
  BY <1>1, FiniteCounts, OneLess

\* Points, fences, threads and timelines that count the same.
SamePoints ==
    \A p \in Points : point'[p].life = point[p].life /\ point'[p].tl = point[p].tl
                      /\ point'[p].seq = point[p].seq /\ point'[p].ref = point[p].ref
SameTimelines ==
    \A tl \in Timelines :
        /\ timeline'[tl].life = timeline[tl].life /\ timeline'[tl].ref = timeline[tl].ref
        /\ timeline'[tl].seq = timeline[tl].seq
        /\ timeline'[tl].handle = timeline[tl].handle
SameHold(r, s) ==
    /\ \A p \in Points : Keeps(s, p) <=> Keeps(r, p)
    /\ \A p \in Points : Unlists(s, p) <=> Unlists(r, p)
    /\ \A f \in Fences : Uses(s, f) <=> Uses(r, f)
    /\ \A tl \in Timelines : Frees(s, tl) <=> Frees(r, tl)
SameThreads == \A u \in Threads : SameHold(th[u], th'[u])

LEMMA PointRefsKept ==
    ASSUME Inv, SamePoints, SameThreads,
           \A f \in Fences : fence'[f].pts = fence[f].pts
    PROVE  PointRefs'
<1>1. ASSUME NEW p \in Points
      PROVE  point'[p].ref = Cardinality(FencesOf(p)') + Cardinality(KeepersOf(p)')
  <2>1. FencesOf(p)' = FencesOf(p)
    BY FencesSame
  <2>2. KeepersOf(p)' = KeepersOf(p)
    BY KeepersSame DEF SameThreads, SameHold
  <2>3. point'[p].ref = point[p].ref
    BY DEF SamePoints
  <2>4. QED
    BY <2>1, <2>2, <2>3 DEF Inv, PointRefs
<1>2. QED
  BY <1>1 DEF PointRefs

LEMMA FenceRefsKept ==
    ASSUME Inv, \A u \in Threads, f \in Fences : Uses(th'[u], f) <=> Uses(th[u], f),
           \A f \in Fences : /\ fence'[f].life = fence[f].life
                             /\ fence'[f].ref = fence[f].ref
                             /\ fence'[f].handles = fence[f].handles
    PROVE  FenceRefs'
<1>1. ASSUME NEW f \in Fences
      PROVE  /\ fence'[f].life = "live" <=> fence'[f].ref > 0
             /\ fence'[f].ref = Cardinality(fence'[f].handles) + Cardinality(UsersOf(f)')
  <2>1. UsersOf(f)' = UsersOf(f)
    BY UsersSame
  <2>2. QED
    BY <2>1 DEF Inv, FenceRefs
<1>2. QED
  BY <1>1 DEF FenceRefs

LEMMA TimelineRefsKept ==
    ASSUME Inv, SamePoints, SameTimelines,
           \A u \in Threads, tl \in Timelines : Frees(th'[u], tl) => Frees(th[u], tl)
    PROVE  TimelineRefs'
<1>1. ASSUME NEW tl \in Timelines
      PROVE  /\ timeline'[tl].ref = Cardinality(PointsOn(tl)')
                                    + IF timeline'[tl].handle THEN 1 ELSE 0
             /\ timeline'[tl].ref > 0 => timeline'[tl].life = "live"
             /\ \A t \in Threads : Frees(th'[t], tl) => timeline'[tl].ref = 0
  <2>1. PointsOn(tl)' = PointsOn(tl)
    BY DEF PointsOn, SamePoints
  <2>2. /\ timeline'[tl].life = timeline[tl].life /\ timeline'[tl].ref = timeline[tl].ref
        /\ timeline'[tl].handle = timeline[tl].handle
    BY DEF SameTimelines
  <2>3. QED
    BY <2>1, <2>2 DEF Inv, TimelineRefs
<1>2. QED
  BY <1>1 DEF TimelineRefs

LEMMA UnlistKept ==
    ASSUME Inv, \A u \in Threads, p \in Points : Unlists(th'[u], p) <=> Unlists(th[u], p),
           \A p \in Points : /\ point'[p].life = "live" /\ point'[p].ref = 0
                                => point[p].life = "live" /\ point[p].ref = 0
                             /\ point[p].life = "live" /\ point[p].ref = 0
                                => point'[p].life = "live" /\ point'[p].ref = 0
    PROVE  UnlistOK'
BY DEF Inv, UnlistOK

LEMMA MakersKept ==
    ASSUME Inv, fences' = fences,
           \A u \in Threads, f \in 0..MaxFences : Makes(th'[u], f) =>
              /\ Makes(th[u], f)
              /\ th'[u].pc \in Creating => th[u].pc \in Creating,
           \A f \in Fences : /\ fence'[f].life = fence[f].life
                             /\ fence'[f].src = fence[f].src
    PROVE  MakersOK'
<1>1. ASSUME NEW t \in Threads, NEW f \in 0..MaxFences, Makes(th'[t], f)
      PROVE  /\ f \in 1..fences' /\ fence'[f].life = "none"
             /\ th'[t].pc \in Creating => fence'[f].src = {}
             /\ \A u \in Threads : Makes(th'[u], f) => u = t
  <2>1. /\ f \in 1..fences /\ fence[f].life = "none"
        /\ th[t].pc \in Creating => fence[f].src = {}
        /\ \A u \in Threads : Makes(th[u], f) => u = t
    BY <1>1 DEF Inv, MakersOK
  <2>2. f \in Fences
    BY <2>1, FallbackAssumption DEF Inv, Typed, Fences
  <2>3. QED
    BY <1>1, <2>1, <2>2
<1>2. QED
  BY <1>1 DEF MakersOK

LEMMA LifeKept ==
    ASSUME Inv, points' = points, fences' = fences,
           \A p \in Points : /\ point'[p].life = point[p].life
                             /\ point[p].life # "live" =>
                                   point'[p].status = "unsignalled" /\ point'[p].ref = 0,
           \A p \in table' : point[p].life = "live",
           \A f \in Fences : /\ fence'[f].life = fence[f].life
                             /\ fence'[f].src = fence[f].src
                             /\ fence[f].life # "live" =>
                                   /\ fence'[f].pts = <<>> /\ fence'[f].handles = {}
                                   /\ fence'[f].ref = 0
    PROVE  LifeOK'
<1>1. \A p \in Points : point'[p].life = "none" <=> p > points'
  BY DEF Inv, LifeOK
<1>2. \A p \in Points : point'[p].life # "live" =>
          point'[p].status = "unsignalled" /\ p \notin table' /\ point'[p].ref = 0
  OBVIOUS
<1>3. \A f \in Fences : f > fences' => fence'[f].src = {} /\ fence'[f].life = "none"
  BY DEF Inv, LifeOK
<1>4. \A f \in Fences : fence'[f].life # "live" =>
          fence'[f].pts = <<>> /\ fence'[f].handles = {} /\ fence'[f].ref = 0
  OBVIOUS
<1>5. \A f \in Fences : fence'[f].life = "freed" => fence'[f].src = {}
  BY DEF Inv, LifeOK
<1>6. QED
  BY <1>1, <1>2, <1>3, <1>4, <1>5 DEF LifeOK


---------------------------------------------------------------------------
(* A merged fence loses no point *)

LEMMA GotPoint ==
    ASSUME Inv, NEW t \in Threads, NEW p, Has(th[t].got, p)
    PROVE  p \in Points /\ point[p].ref > 0 /\ point[p].life = "live" /\ HasSync(p)
<1>1. p \in Points
  BY ThreadIs, HasIn
<1>2. Keeps(th[t], p)
  BY DEF Keeps
<1>3. HasSync(p)
  BY <1>1 DEF Inv, SyncOK
<1>4. QED
  BY <1>1, <1>2, <1>3, Referenced

LEMMA CarriedPoint ==
    ASSUME Inv, NEW f \in Fences, NEW p, Carries(f, p)
    PROVE  p \in Points /\ point[p].ref > 0 /\ point[p].life = "live" /\ HasSync(p)
<1>1. CASE Has(fence[f].pts, p)
  BY <1>1, FencePoint
<1>2. CASE \E t \in Threads : /\ th[t].op = "merge" /\ th[t].new = f
                              /\ Has(th[t].todo, p) \/ Has(th[t].got, p)
  <2>1. PICK t \in Threads : /\ th[t].op = "merge" /\ th[t].new = f
                             /\ Has(th[t].todo, p) \/ Has(th[t].got, p)
    BY <1>2
  <2>2. th[t].pc \in Looking
    <3>1. Shape(th[t])
      BY ThreadIs
    <3>2. QED
      BY <2>1, <3>1 DEF Shape
  <2>3. QED
    BY <2>1, <2>2, LookedPoint, GotPoint
<1>3. QED
  BY <1>1, <1>2 DEF Carries

\* An earlier point of the timeline of a signalled one.
LEMMA SettledBy ==
    ASSUME Inv, NEW p \in Points, NEW q \in Points, point[p].life = "live",
           Later(p, q), NativeSignalled(p),
           point[q].life # "none", point[q].ref = 0 \/ HasSync(q)
    PROVE  Settled(q)
<1>1. CASE point[q].ref = 0
  BY <1>1 DEF Settled
<1>2. CASE point[q].ref # 0
  <2>1. HasSync(q) /\ point[q].ref > 0 /\ point[q].life = "live"
    BY <1>2, PointIs
  <2>2. Tl(q) = Tl(p) /\ point[q].seq <= point[p].seq
    BY DEF Later
  <2>3. CASE ~IsSW(p)
    <3>1. NativeSignalled(q)
      BY <2>1, <2>3 DEF Inv, OrderOK
    <3>2. QED
      BY <3>1 DEF Settled
  <2>4. CASE IsSW(p) /\ Owner[Tl(p)] \notin alive
    <3>1. IsSW(q) /\ Owner[Tl(q)] \notin alive
      BY <2>2, <2>4 DEF IsSW
    <3>2. QED
      BY <3>1 DEF Settled
  <2>5. CASE IsSW(p) /\ Owner[Tl(p)] \in alive
    <3>1. IsSW(q) /\ Owner[Tl(q)] \in alive
      BY <2>2, <2>5 DEF IsSW
    <3>2. PICK n : n = timeline[Tl(p)].last
      OBVIOUS
    <3>3. NativeSignalled(p) <=> point[p].seq <= n
      BY <2>5, <3>2 DEF Inv, OrderOK
    <3>4. NativeSignalled(q) <=> point[q].seq <= n
      BY <2>1, <2>2, <3>1, <3>2 DEF Inv, OrderOK
    <3>5. Tl(p) \in Timelines
      BY DEF Inv, SeqOK
    <3>6. n \in Nat
      BY <3>2, <3>5, TimelineIs
    <3>7. point[p].seq \in Nat /\ point[q].seq \in Nat
      BY PointIs
    <3>8. point[q].seq <= n
      BY <2>2, <3>3, <3>6, <3>7
    <3>9. QED
      BY <3>4, <3>8 DEF Settled
  <2>6. QED
    BY <2>3, <2>4, <2>5
<1>3. QED
  BY <1>1, <1>2

\* What no step takes back.
Stable ==
    /\ \A p \in Points : point[p].ref > 0 =>
          /\ point'[p].tl = point[p].tl /\ point'[p].seq = point[p].seq
          /\ HasSync(p) => HasSync(p)'
          /\ NativeSignalled(p) => NativeSignalled(p)'
    /\ \A p \in Points : point[p].life # "none" =>
          /\ point'[p].life # "none" /\ point'[p].tl = point[p].tl
          /\ point[p].ref = 0 => point'[p].ref = 0
    /\ alive' \subseteq alive

LEMMA SettledKept ==
    ASSUME Inv, Stable, NEW q \in Points, point[q].life # "none", Settled(q)
    PROVE  Settled(q)'
<1>1. CASE point[q].ref = 0
  <2>1. point'[q].ref = 0
    BY <1>1 DEF Stable
  <2>2. QED
    BY <2>1 DEF Settled
<1>2. CASE point[q].ref # 0 /\ NativeSignalled(q)
  <2>1. point[q].ref > 0
    BY <1>2, PointIs
  <2>2. NativeSignalled(q)'
    BY <1>2, <2>1 DEF Stable
  <2>3. QED
    BY <2>2 DEF Settled
<1>3. CASE IsSW(q) /\ Owner[Tl(q)] \notin alive
  <2>1. point'[q].tl = point[q].tl /\ alive' \subseteq alive
    BY DEF Stable
  <2>2. IsSW(q)' /\ Owner[Tl(q)'] \notin alive'
    BY <1>3, <2>1 DEF IsSW, Tl
  <2>3. QED
    BY <2>2 DEF Settled
<1>4. QED
  BY <1>1, <1>2, <1>3 DEF Settled

MergedAt(f) ==
    \A q \in fence[f].src :
        /\ point[q].life # "none" /\ (point[q].ref = 0 \/ HasSync(q))
        /\ Settled(q) \/ \E p \in Points : Carries(f, p) /\ Later(p, q)

LEMMA MergedIs ==
    /\ MergedOK <=> \A f \in Fences : MergedAt(f)
    /\ MergedOK' <=> \A f \in Fences : MergedAt(f)'
BY DEF MergedOK, MergedAt

LEMMA MergedOne ==
    ASSUME Inv, Stable, NEW f \in Fences, fence'[f].src \subseteq fence[f].src,
           \A p \in Points : Carries(f, p) => Carries(f, p)' \/ NativeSignalled(p)
    PROVE  MergedAt(f)'
<1>1. ASSUME NEW q \in fence'[f].src
      PROVE  /\ point'[q].life # "none" /\ (point'[q].ref = 0 \/ HasSync(q)')
             /\ Settled(q)' \/ \E p \in Points : Carries(f, p)' /\ Later(p, q)'
  <2>1. q \in fence[f].src /\ q \in Points
    BY FenceIs
  <2>2. /\ point[q].life # "none" /\ (point[q].ref = 0 \/ HasSync(q))
        /\ Settled(q) \/ \E p \in Points : Carries(f, p) /\ Later(p, q)
    BY <2>1, MergedIs DEF Inv, MergedAt
  <2>3. point'[q].life # "none" /\ (point'[q].ref = 0 \/ HasSync(q)')
    <3>1. CASE point[q].ref = 0
      BY <2>1, <2>2, <3>1 DEF Stable
    <3>2. CASE point[q].ref # 0
      <4>1. point[q].ref > 0
        BY <2>1, <3>2, PointIs
      <4>2. QED
        BY <2>1, <2>2, <3>2, <4>1 DEF Stable
    <3>3. QED
      BY <3>1, <3>2
  <2>4. CASE Settled(q)
    BY <2>1, <2>2, <2>3, <2>4, SettledKept
  <2>5. CASE ~Settled(q)
    <3>1. PICK p \in Points : Carries(f, p) /\ Later(p, q)
      BY <2>2, <2>5
    <3>2. point[p].ref > 0 /\ point[p].life = "live"
      BY <3>1, CarriedPoint
    <3>3. ~NativeSignalled(p)
      BY <2>1, <2>2, <2>5, <3>1, <3>2, SettledBy
    <3>4. Carries(f, p)'
      BY <3>1, <3>3
    <3>5. point[q].ref > 0
      BY <2>1, <2>5, PointIs DEF Settled
    <3>6. /\ point'[p].tl = point[p].tl /\ point'[p].seq = point[p].seq
          /\ point'[q].tl = point[q].tl /\ point'[q].seq = point[q].seq
      BY <2>1, <3>2, <3>5 DEF Stable
    <3>7. Later(p, q)'
      BY <3>1, <3>6 DEF Later, Tl
    <3>8. QED
      BY <2>3, <3>4, <3>7
  <2>6. QED
    BY <2>4, <2>5
<1>2. QED
  BY <1>1 DEF MergedAt

LEMMA MergedKept ==
    ASSUME Inv, Stable, \A f \in Fences : fence'[f].src \subseteq fence[f].src,
           \A f \in Fences, p \in Points : fence[f].src # {} /\ Carries(f, p) =>
              Carries(f, p)' \/ NativeSignalled(p) \/ fence'[f].src = {}
    PROVE  MergedOK'
<1>1. ASSUME NEW f \in Fences PROVE MergedAt(f)'
  <2>1. CASE fence'[f].src = {}
    BY <2>1 DEF MergedAt
  <2>2. CASE fence'[f].src # {}
    BY <2>2, MergedOne
  <2>3. QED
    BY <2>1, <2>2
<1>2. QED
  BY <1>1, MergedIs


---------------------------------------------------------------------------
(* Quiet steps: nothing is created, referenced, released or freed *)

Quiet ==
    /\ SamePoints /\ SameTimelines
    /\ fence' = fence /\ points' = points /\ fences' = fences /\ alive' = alive
    /\ \A p \in Points :
          /\ HasSync(p)' <=> HasSync(p)
          /\ NativeSignalled(p) => NativeSignalled(p)'
          /\ point[p].life # "live" \/ ~HasSync(p) => point'[p].status = "unsignalled"
    /\ \A p \in table' : p \in table \/ (p \in Points /\ point[p].ref > 0 /\ HasSync(p))

\* A thread goes on that has no references to points.
Onward(t) ==
    LET r == th[t]
        s == th'[t]
        places == Looking \cup Waiting \cup {"force", "idle"}
    IN
    /\ Moved(t) /\ r.pc \in places /\ s.pc \in places
    /\ \A p \in Points : Has(s.got, p) <=> Has(r.got, p)
    /\ \A f \in Fences : Uses(s, f) <=> Uses(r, f)
    /\ s.op = "merge" => r.op = "merge"
    /\ r.op = "merge" =>
          /\ s.op = "merge" /\ s.new = r.new
          /\ \A p \in Points : Has(r.todo, p) => Has(s.todo, p) \/ NativeSignalled(p)
    /\ \A f \in s.looked : Proc[t] \in fence[f].handles
    /\ \A p \in Points : s.pc \in Looking /\ Has(s.todo, p) =>
          \E f \in s.looked : Has(fence[f].pts, p)
    /\ \A p \in Points : s.pc = "force" /\ Has(s.todo, p) =>
          IsSW(p) /\ Owner[Tl(p)] \notin alive /\ Has(fence[s.f].pts, p)
QuietThreads == th' = th \/ \E t \in Threads : Onward(t)

LEMMA OwesNothing ==
    ASSUME NEW r, r.pc \in Looking \cup Waiting \cup {"force", "idle"}
    PROVE  /\ \A p : Keeps(r, p) <=> Has(r.got, p)
           /\ \A p : ~Unlists(r, p) /\ ~Begins(r, p)
           /\ \A tl : ~Frees(r, tl)
           /\ r.pc \notin Creating
<1>1. r.pc \notin Creating \cup {"relPt", "unlist", "freeTl", "create"}
  BY DEF Looking, Waiting, Creating
<1>2. Owed(r) = <<>>
  BY <1>1 DEF Owed
<1>3. QED
  BY <1>1, <1>2, EmptyHas DEF Keeps, Unlists, Begins, Frees

LEMMA OnwardIs ==
    ASSUME Inv, QuietThreads
    PROVE  /\ SameThreads
           /\ \A u \in Threads, f \in 0..MaxFences : Makes(th'[u], f) =>
                 Makes(th[u], f) /\ (th'[u].pc \in Creating => th[u].pc \in Creating)
           /\ \A u \in Threads, f \in Fences, p \in Points :
                 /\ th[u].op = "merge" /\ th[u].new = f
                 /\ Has(th[u].todo, p) \/ Has(th[u].got, p)
                 => \/ NativeSignalled(p)
                    \/ /\ th'[u].op = "merge" /\ th'[u].new = f
                       /\ Has(th'[u].todo, p) \/ Has(th'[u].got, p)
<1>1. CASE th' = th
  <2>1. SameThreads
    BY <1>1 DEF SameThreads, SameHold
  <2>2. QED
    BY <1>1, <2>1
<1>2. ASSUME NEW t \in Threads, Onward(t)
      PROVE  /\ SameThreads
             /\ \A u \in Threads, f \in 0..MaxFences : Makes(th'[u], f) =>
                   Makes(th[u], f) /\ (th'[u].pc \in Creating => th[u].pc \in Creating)
             /\ \A u \in Threads, f \in Fences, p \in Points :
                   /\ th[u].op = "merge" /\ th[u].new = f
                   /\ Has(th[u].todo, p) \/ Has(th[u].got, p)
                   => \/ NativeSignalled(p)
                      \/ /\ th'[u].op = "merge" /\ th'[u].new = f
                         /\ Has(th'[u].todo, p) \/ Has(th'[u].got, p)
  <2>1. /\ Moved(t)
        /\ th[t].pc \in Looking \cup Waiting \cup {"force", "idle"}
        /\ th'[t].pc \in Looking \cup Waiting \cup {"force", "idle"}
        /\ \A p \in Points : Has(th'[t].got, p) <=> Has(th[t].got, p)
        /\ \A f \in Fences : Uses(th'[t], f) <=> Uses(th[t], f)
        /\ th'[t].op = "merge" => th[t].op = "merge"
        /\ th[t].op = "merge" =>
              /\ th'[t].op = "merge" /\ th'[t].new = th[t].new
              /\ \A p \in Points : Has(th[t].todo, p) =>
                    Has(th'[t].todo, p) \/ NativeSignalled(p)
    BY <1>2 DEF Onward
  <2>2. SameHold(th[t], th'[t])
    BY <2>1, OwesNothing DEF SameHold
  <2>3. SameThreads
    BY <2>1, <2>2 DEF SameThreads, SameHold, Moved
  <2>4. th[t].pc \notin Creating /\ th'[t].pc \notin Creating
    BY <2>1, OwesNothing
  <2>5. ASSUME NEW u \in Threads, NEW f \in 0..MaxFences, Makes(th'[u], f)
        PROVE  Makes(th[u], f) /\ (th'[u].pc \in Creating => th[u].pc \in Creating)
    <3>1. CASE u = t
      BY <2>1, <2>4, <2>5, <3>1 DEF Makes
    <3>2. CASE u # t
      BY <2>1, <2>5, <3>2 DEF Moved
    <3>3. QED
      BY <3>1, <3>2
  <2>6. ASSUME NEW u \in Threads, NEW f \in Fences, NEW p \in Points,
               th[u].op = "merge", th[u].new = f, Has(th[u].todo, p) \/ Has(th[u].got, p)
        PROVE  \/ NativeSignalled(p)
               \/ /\ th'[u].op = "merge" /\ th'[u].new = f
                  /\ Has(th'[u].todo, p) \/ Has(th'[u].got, p)
    <3>1. CASE u = t
      BY <2>1, <2>6, <3>1
    <3>2. CASE u # t
      BY <2>1, <2>6, <3>2 DEF Moved
    <3>3. QED
      BY <3>1, <3>2
  <2>7. QED
    BY <2>3, <2>5, <2>6
<1>3. QED
  BY <1>1, <1>2 DEF QuietThreads

LEMMA QuietStable ==
    ASSUME Inv, Quiet
    PROVE  Stable
BY DEF Quiet, Stable, SamePoints

LEMMA QuietLooked ==
    ASSUME Inv, Quiet, QuietThreads
    PROVE  LookedOK'
<1>1. fence' = fence /\ alive' = alive /\ \A p \in Points : point'[p].tl = point[p].tl
  BY DEF Quiet, SamePoints
<1>2. ASSUME NEW u \in Threads
      PROVE  /\ \A f \in th'[u].looked : Proc[u] \in fence[f].handles
             /\ \A p \in Points : th'[u].pc \in Looking /\ Has(th'[u].todo, p) =>
                   \E f \in th'[u].looked : Has(fence[f].pts, p)
             /\ \A p \in Points : th'[u].pc = "force" /\ Has(th'[u].todo, p) =>
                   IsSW(p) /\ Owner[Tl(p)] \notin alive /\ Has(fence[th'[u].f].pts, p)
  <2>1. CASE th'[u] = th[u]
    BY <2>1 DEF Inv, LookedOK
  <2>2. CASE th'[u] # th[u]
    <3>1. Onward(u)
      BY <2>2 DEF QuietThreads, Onward, Moved
    <3>2. QED
      BY <3>1 DEF Onward
  <2>3. QED
    BY <2>1, <2>2
<1>3. \A p \in Points : IsSW(p)' = IsSW(p) /\ Tl(p)' = Tl(p)
  BY <1>1 DEF IsSW, Tl
<1>4. \A f \in Fences : NoRepeats(fence'[f].pts)
  BY <1>1 DEF Inv, LookedOK
<1>5. \A u \in Threads : \A f \in th'[u].looked : Proc[u] \in fence'[f].handles
  BY <1>1, <1>2
<1>6. \A u \in Threads, p \in Points : th'[u].pc \in Looking /\ Has(th'[u].todo, p) =>
          \E f \in th'[u].looked : Has(fence'[f].pts, p)
  BY <1>1, <1>2
<1>7. \A u \in Threads, p \in Points : th'[u].pc = "force" /\ Has(th'[u].todo, p) =>
          IsSW(p)' /\ Owner[Tl(p)'] \notin alive' /\ Has(fence'[th'[u].f].pts, p)
  BY <1>1, <1>2, <1>3
<1>8. QED
  BY <1>4, <1>5, <1>6, <1>7 DEF LookedOK

LEMMA QuietKept ==
    ASSUME Inv, Quiet, QuietThreads
    PROVE  /\ LifeOK' /\ MakersOK' /\ PointRefs' /\ FenceRefs' /\ TimelineRefs'
           /\ UnlistOK' /\ LookedOK' /\ MergedOK'
<1>1. /\ SameThreads
      /\ \A u \in Threads, f \in 0..MaxFences : Makes(th'[u], f) =>
            Makes(th[u], f) /\ (th'[u].pc \in Creating => th[u].pc \in Creating)
      /\ \A u \in Threads, f \in Fences, p \in Points :
            /\ th[u].op = "merge" /\ th[u].new = f
            /\ Has(th[u].todo, p) \/ Has(th[u].got, p)
            => \/ NativeSignalled(p)
               \/ /\ th'[u].op = "merge" /\ th'[u].new = f
                  /\ Has(th'[u].todo, p) \/ Has(th'[u].got, p)
  BY OnwardIs
<1>2. /\ SamePoints /\ SameTimelines
      /\ fence' = fence /\ points' = points /\ fences' = fences
  BY DEF Quiet
<1>3. LifeOK'
  <2>1. \A p \in Points : /\ point'[p].life = point[p].life
                          /\ point[p].life # "live" =>
                                point'[p].status = "unsignalled" /\ point'[p].ref = 0
    BY <1>2 DEF Quiet, SamePoints, Inv, LifeOK
  <2>2. \A p \in table' : point[p].life = "live"
    <3>1. ASSUME NEW p \in table' PROVE point[p].life = "live"
      <4>1. p \in Points /\ point[p].ref > 0
        BY DEF Quiet, Inv, SyncOK, Typed
      <4>2. QED
        BY <4>1, PointIs
    <3>2. QED
      BY <3>1
  <2>3. \A f \in Fences : fence[f].life # "live" =>
            fence[f].pts = <<>> /\ fence[f].handles = {} /\ fence[f].ref = 0
    BY DEF Inv, LifeOK
  <2>4. QED
    BY <1>2, <2>1, <2>2, <2>3, LifeKept
<1>4. MakersOK'
  BY <1>1, <1>2, MakersKept
<1>5. PointRefs'
  BY <1>1, <1>2, PointRefsKept
<1>6. FenceRefs'
  <2>1. \A u \in Threads, f \in Fences : Uses(th'[u], f) <=> Uses(th[u], f)
    BY <1>1 DEF SameThreads, SameHold
  <2>2. QED
    BY <1>2, <2>1, FenceRefsKept
<1>7. TimelineRefs'
  <2>1. \A u \in Threads, tl \in Timelines : Frees(th'[u], tl) => Frees(th[u], tl)
    BY <1>1 DEF SameThreads, SameHold
  <2>2. QED
    BY <1>2, <2>1, TimelineRefsKept
<1>8. UnlistOK'
  <2>1. \A u \in Threads, p \in Points : Unlists(th'[u], p) <=> Unlists(th[u], p)
    BY <1>1 DEF SameThreads, SameHold
  <2>2. QED
    BY <1>2, <2>1, UnlistKept DEF SamePoints
<1>9. LookedOK'
  BY QuietLooked
<1>10. MergedOK'
  <2>1. ASSUME NEW f \in Fences, NEW p \in Points, Carries(f, p)
        PROVE  Carries(f, p)' \/ NativeSignalled(p)
    BY <1>1, <1>2, <2>1 DEF Carries
  <2>2. QED
    BY <1>2, <2>1, QuietStable, MergedKept
<1>11. QED
  BY <1>3, <1>4, <1>5, <1>6, <1>7, <1>8, <1>9, <1>10


LEMMA QuietSync ==
    ASSUME Inv, Quiet, QuietThreads
    PROVE  SyncOK'
<1>1. /\ fence' = fence
      /\ \A p \in Points :
            /\ point'[p].life = point[p].life /\ point'[p].tl = point[p].tl
            /\ point'[p].ref = point[p].ref
            /\ HasSync(p)' <=> HasSync(p)
            /\ ~HasSync(p) => point'[p].status = "unsignalled"
      /\ \A p \in table' : p \in table \/ (p \in Points /\ point[p].ref > 0 /\ HasSync(p))
  BY DEF Quiet, SamePoints
<1>2. ASSUME NEW u \in Threads
      PROVE  /\ \A p \in Points : Begins(th[u], p) => Begins(th'[u], p)
             /\ th'[u].pc \in Creating => th'[u] = th[u]
             /\ \A p \in Points : Has(th'[u].got, p) => Has(th[u].got, p)
  <2>1. CASE th'[u] = th[u]
    BY <2>1
  <2>2. CASE th'[u] # th[u]
    <3>1. Onward(u)
      BY <2>2 DEF QuietThreads, Onward, Moved
    <3>2. /\ th[u].pc \in Looking \cup Waiting \cup {"force", "idle"}
          /\ th'[u].pc \in Looking \cup Waiting \cup {"force", "idle"}
          /\ \A p \in Points : Has(th'[u].got, p) <=> Has(th[u].got, p)
      BY <3>1 DEF Onward
    <3>3. QED
      BY <3>2, OwesNothing
  <2>3. QED
    BY <2>1, <2>2
<1>3. ASSUME NEW p \in Points, Bare(p)'
      PROVE  /\ point'[p].status = "unsignalled" /\ p \notin table'
             /\ ~IsSW(p)' /\ point'[p].ref <= 1
             /\ \A f \in Fences : ~Has(fence'[f].pts, p)
             /\ \E t \in Threads : Begins(th'[t], p)
  <2>1. Bare(p) /\ ~HasSync(p)
    BY <1>1, <1>3 DEF Bare
  <2>2. /\ p \notin table /\ ~IsSW(p) /\ point[p].ref <= 1
        /\ \A f \in Fences : ~Has(fence[f].pts, p)
        /\ \E t \in Threads : Begins(th[t], p)
    BY <2>1 DEF Inv, SyncOK
  <2>3. ~IsSW(p)'
    BY <1>1, <2>2 DEF IsSW, Tl
  <2>4. QED
    BY <1>1, <1>2, <2>1, <2>2, <2>3
<1>4. \A p \in table' : point'[p].ref > 0
  BY <1>1 DEF Inv, SyncOK, Typed
<1>5. ASSUME NEW t \in Threads, NEW p \in Points, Head(th'[t].todo) = p
      PROVE  /\ th'[t].pc = "create" => ~HasSync(p)'
             /\ th'[t].pc = "insert" => HasSync(p)'
  <2>1. CASE th'[t].pc \in Creating
    <3>1. th'[t] = th[t]
      BY <1>2, <2>1
    <3>2. HasSync(p)' <=> HasSync(p)
      BY <1>1
    <3>3. /\ th[t].pc = "create" => ~HasSync(p)
          /\ th[t].pc = "insert" => HasSync(p)
      BY <1>5, <3>1 DEF Inv, SyncOK
    <3>4. QED
      BY <3>1, <3>2, <3>3
  <2>2. CASE th'[t].pc \notin Creating
    BY <2>2 DEF Creating
  <2>3. QED
    BY <2>1, <2>2
<1>6. \A t \in Threads, p \in Points : Has(th'[t].got, p) => HasSync(p)'
  BY <1>1, <1>2 DEF Inv, SyncOK
<1>7. QED
  BY <1>3, <1>4, <1>5, <1>6 DEF SyncOK

---------------------------------------------------------------------------
(* Points that were there before keep their place and their syncs *)

OldPlaces ==
    \A p \in Points : point'[p].life = "live" =>
        point[p].life = "live" /\ point'[p].tl = point[p].tl /\ point'[p].seq = point[p].seq
OldSyncs ==
    \A p \in Points : point'[p].life = "live" =>
        point'[p].status = point[p].status /\ point'[p].attached = point[p].attached

LEMMA SeqKept ==
    ASSUME Inv, OldPlaces,
           \A p \in Points : point'[p].life = "live" =>
              timeline'[point[p].tl].seq = timeline[point[p].tl].seq,
           \A tl \in Timelines :
              timeline'[tl].last <= timeline'[tl].seq /\ timeline'[tl].seq <= points'
    PROVE  SeqOK'
<1>1. \A p \in Points : point'[p].life = "live" =>
          point'[p].tl \in Timelines /\ point'[p].seq \in 1..timeline'[point'[p].tl].seq
  BY DEF Inv, SeqOK, OldPlaces, Tl
<1>2. \A p, q \in Points :
          /\ point'[p].life = "live" /\ point'[q].life = "live"
          /\ point'[p].tl = point'[q].tl /\ point'[p].seq = point'[q].seq
          => p = q
  BY DEF Inv, SeqOK, OldPlaces, Tl
<1>3. QED
  BY <1>1, <1>2 DEF SeqOK, Tl

LEMMA ActiveKept ==
    ASSUME Inv, OldPlaces,
           \A p \in Points : point'[p].life = "live" /\ NativeSignalled(p) => NativeSignalled(p)',
           \A tl \in Timelines, p \in Points :
              Has(timeline'[tl].active, p) =>
                 Has(timeline[tl].active, p) /\ point'[p].life = "live",
           \A p \in Points :
              point'[p].life = "live" /\ Has(timeline[point[p].tl].active, p) =>
                 Has(timeline'[point[p].tl].active, p) \/ NativeSignalled(p)'
    PROVE  ActiveOK'
<1>1. \A tl \in Timelines, p \in Points : Has(timeline'[tl].active, p) =>
          point'[p].life = "live" /\ point'[p].tl = tl
  BY DEF Inv, ActiveOK, OldPlaces, Tl
<1>2. ASSUME NEW p \in Points, point'[p].life = "live",
             ~Has(timeline'[point'[p].tl].active, p)
      PROVE  NativeSignalled(p)'
  <2>1. point[p].life = "live" /\ point'[p].tl = point[p].tl
    BY <1>2 DEF OldPlaces
  <2>2. CASE Has(timeline[point[p].tl].active, p)
    BY <1>2, <2>1, <2>2
  <2>3. CASE ~Has(timeline[point[p].tl].active, p)
    <3>1. NativeSignalled(p)
      BY <2>1, <2>3 DEF Inv, ActiveOK, Tl
    <3>2. QED
      BY <1>2, <3>1
  <2>4. QED
    BY <2>2, <2>3
<1>3. QED
  BY <1>1, <1>2 DEF ActiveOK, Tl

LEMMA LockKept ==
    ASSUME Inv, OldPlaces,
           \A p \in Points : Len(point[p].attached) > 1 /\ point'[p].life = "live"
                             => Len(point'[p].attached) > 1,
           \A u \in Threads : th'[u].pc \in {"create", "recheck"} =>
              /\ th'[u] = th[u]
              /\ point'[Head(th[u].todo)].life = "live"
              /\ \A tl \in Timelines : timeline[tl].lock = u /\ timeline[tl].ref > 0 =>
                    timeline'[tl].lock = u /\ timeline'[tl].seq = timeline[tl].seq
    PROVE  LockOK'
<1>1. ASSUME NEW t \in Threads, NEW p \in Points,
             th'[t].pc \in {"create", "recheck"}, Head(th'[t].todo) = p
      PROVE  /\ timeline'[point'[p].tl].lock = t
             /\ th'[t].pc = "create" =>
                   th'[t].tl = point'[p].tl /\ point'[p].seq = timeline'[point'[p].tl].seq
             /\ th'[t].pc = "recheck" => Len(point'[p].attached) > 1
  <2>1. th'[t] = th[t] /\ point'[p].life = "live"
    BY <1>1
  <2>2. point[p].life = "live" /\ point'[p].tl = point[p].tl /\ point'[p].seq = point[p].seq
    BY <2>1 DEF OldPlaces
  <2>3. /\ timeline[point[p].tl].lock = t
        /\ th[t].pc = "create" =>
              th[t].tl = point[p].tl /\ point[p].seq = timeline[point[p].tl].seq
        /\ th[t].pc = "recheck" => Len(point[p].attached) > 1
    BY <1>1, <2>1 DEF Inv, LockOK, Adds, Tl
  <2>4. point[p].tl \in Timelines
    BY <2>2 DEF Inv, SeqOK, Tl
  <2>5. timeline'[point[p].tl].lock = t /\ timeline'[point[p].tl].seq = timeline[point[p].tl].seq
    BY <1>1, <2>2, <2>3, <2>4, LiveTimeline
  <2>6. QED
    BY <2>1, <2>2, <2>3, <2>5
<1>2. QED
  BY <1>1 DEF LockOK, Adds, Tl

LEMMA StateKept ==
    ASSUME Inv, OldPlaces, OldSyncs,
           \A p \in Points : point'[p].life # "live" => point'[p].status = "unsignalled",
           \A u \in Threads, p \in Points :
              (Tells(th[u], p) => Tells(th'[u], p)) /\ (Adds(th[u], p) => Adds(th'[u], p)),
           \A u \in Threads, p \in Points :
              th'[u].pc \in {"mark", "walk"} /\ Head(th'[u].todo) = p => NativeSignalled(p)'
    PROVE  StateOK'
<1>1. ASSUME NEW p \in Points, point'[p].status # "unsignalled"
      PROVE  Follows(p)' /\ NativeSignalled(p)'
  <2>1. point'[p].life = "live"
    BY <1>1
  <2>2. point'[p].status = point[p].status /\ point'[p].attached = point[p].attached
    BY <2>1 DEF OldSyncs
  <2>3. Follows(p) /\ NativeSignalled(p)
    BY <1>1, <2>2 DEF Inv, StateOK
  <2>4. NativeSignalled(p)'
    BY <2>2, <2>3 DEF NativeSignalled, HasSync, NativeState
  <2>5. Follows(p)'
    BY <1>1, <2>2, <2>3 DEF Follows
  <2>6. QED
    BY <2>4, <2>5
<1>2. \A p \in Points : point'[p].status = "unsignalled" => Follows(p)'
  BY DEF Follows
<1>3. QED
  BY <1>1, <1>2 DEF StateOK

\* The order, when no first sync changes.
LEMMA OrderKept ==
    ASSUME Inv, OldPlaces,
           \A p \in Points : point'[p].life = "live" =>
              (HasSync(p)' <=> HasSync(p)) /\ (NativeSignalled(p)' <=> NativeSignalled(p)),
           \A p \in Points :
              point'[p].life = "live" /\ IsSW(p) /\ Owner[point[p].tl] \in alive =>
                 timeline'[point[p].tl].last = timeline[point[p].tl].last,
           alive' \subseteq alive
    PROVE  OrderOK'
<1>1. \A p \in Points : point'[p].life = "live" => (IsSW(p)' <=> IsSW(p))
  BY DEF OldPlaces, IsSW, Tl
<1>2. ASSUME NEW p \in Points, NEW q \in Points,
             point'[p].life = "live", point'[q].life = "live", ~IsSW(p)',
             Later(p, q)', HasSync(q)', NativeSignalled(p)'
      PROVE  NativeSignalled(q)'
  <2>1. point[p].life = "live" /\ point[q].life = "live" /\ ~IsSW(p) /\ Later(p, q)
    BY <1>1, <1>2 DEF OldPlaces, Later, Tl
  <2>2. NativeSignalled(q)
    BY <1>2, <2>1 DEF Inv, OrderOK
  <2>3. QED
    BY <1>2, <2>2
<1>3. ASSUME NEW p \in Points, point'[p].life = "live", IsSW(p)', Owner[point'[p].tl] \in alive'
      PROVE  NativeSignalled(p)' <=> point'[p].seq <= timeline'[point'[p].tl].last
  <2>1. /\ point[p].life = "live" /\ point'[p].tl = point[p].tl /\ point'[p].seq = point[p].seq
        /\ IsSW(p) /\ Owner[point[p].tl] \in alive
    BY <1>1, <1>3 DEF OldPlaces
  <2>2. NativeSignalled(p) <=> point[p].seq <= timeline[point[p].tl].last
    BY <2>1 DEF Inv, OrderOK, Tl
  <2>3. timeline'[point[p].tl].last = timeline[point[p].tl].last
    BY <1>3, <2>1
  <2>4. NativeSignalled(p)' <=> NativeSignalled(p)
    BY <1>3
  <2>5. QED
    BY <2>1, <2>2, <2>3, <2>4
<1>4. QED
  BY <1>2, <1>3 DEF OrderOK, Tl


---------------------------------------------------------------------------
(* Steps that only move a thread *)

LEMMA QuietInv ==
    ASSUME Inv, Quiet, QuietThreads, Typed', ControlOK', LockOK', SeqOK', ActiveOK',
           StateOK', OrderOK'
    PROVE  Inv'
BY QuietKept, QuietSync DEF Inv

LEMMA StillStep ==
    ASSUME Inv, NEW t \in Threads, Onward(t), th' \in [Threads -> ThreadRec],
           Shape(th'[t]), PlaceOK(t)', woken' \subseteq Threads,
           th[t].pc \notin {"walk", "recheck"}, th'[t].pc \notin {"walk", "recheck"},
           \A p \in Points : th'[t].pc = "mark" /\ Head(th'[t].todo) = p => NativeSignalled(p),
           UNCHANGED <<timeline, point, fence, points, fences, table, fbLock, misr, alive>>
    PROVE  Inv'
<1>1. Moved(t)
  BY DEF Onward
<1>2. Quiet
  BY DEF Quiet, SamePoints, SameTimelines, HasSync, NativeSignalled, NativeState, Inv,
         LifeOK, SyncOK, Bare
<1>3. QuietThreads
  BY DEF QuietThreads
<1>4. Typed'
  BY DEF Inv, Typed
<1>5. ControlOK'
  BY <1>1, ControlMoved
<1>6. OldPlaces /\ OldSyncs
  BY DEF OldPlaces, OldSyncs
<1>7. th[t].pc \notin Creating /\ th'[t].pc \notin Creating
  BY OwesNothing DEF Onward
<1>8. \A u \in Threads : th'[u].pc \in {"create", "recheck"} => th'[u] = th[u]
  BY <1>1, <1>7 DEF Moved, Creating
<1>9. LockOK'
  BY <1>8 DEF Inv, LockOK, Adds, Tl
<1>10. SeqOK'
  BY DEF Inv, SeqOK, Tl
<1>11. ActiveOK'
  BY DEF Inv, ActiveOK, Tl, NativeSignalled, HasSync, NativeState
<1>12. \A p \in Points : NativeSignalled(p)' <=> NativeSignalled(p)
  BY DEF NativeSignalled, HasSync, NativeState
<1>13. StateOK'
  <2>1. \A p \in Points : point'[p].life # "live" => point'[p].status = "unsignalled"
    BY DEF Inv, LifeOK
  <2>2. \A u \in Threads, p \in Points :
           (Tells(th[u], p) => Tells(th'[u], p)) /\ (Adds(th[u], p) => Adds(th'[u], p))
    BY <1>1 DEF Moved, Tells, Adds
  <2>3. ASSUME NEW u \in Threads, NEW p \in Points,
               th'[u].pc \in {"mark", "walk"}, Head(th'[u].todo) = p
        PROVE  NativeSignalled(p)'
    <3>1. NativeSignalled(p)
      BY <1>1, <2>3 DEF Moved, Inv, StateOK
    <3>2. QED
      BY <1>12, <3>1
  <2>4. QED
    BY <1>6, <2>1, <2>2, <2>3, StateKept
<1>14. OrderOK'
  <2>1. \A p \in Points : point'[p].life = "live" =>
              (HasSync(p)' <=> HasSync(p)) /\ (NativeSignalled(p)' <=> NativeSignalled(p))
    BY <1>12 DEF HasSync
  <2>2. QED
    BY <1>6, <2>1, OrderKept
<1>15. QED
  BY <1>2, <1>3, <1>4, <1>5, <1>9, <1>10, <1>11, <1>13, <1>14, QuietInv

LEMMA ReadyIs ==
    ASSUME Inv, NEW t, Ready(t)
    PROVE  /\ t \in Clients /\ t \in Threads /\ Proc[t] \in alive /\ Proc[t] \in Processes
           /\ th[t] = Idle
<1>1. t \in Threads /\ th[t].pc = "idle"
  BY DEF Ready, Threads
<1>2. th[t] = Idle
  BY <1>1, ThreadIs DEF Shape
<1>3. QED
  BY <1>1, <1>2, FallbackAssumption DEF Ready

LEMMA ResolveStep ==
    ASSUME Inv, NEW t \in Clients, NEW f \in Fences, FenceResolvePVR(t, f)
    PROVE  Inv'
<1>1. /\ Ready(t) /\ Proc[t] \in fence[f].handles /\ fence[f].pts # <<>>
      /\ UNCHANGED <<timeline, point, fence, points, fences, table, fbLock, misr, woken, alive>>
  BY DEF FenceResolvePVR, Holds
<1>2. t \in Threads /\ Proc[t] \in alive /\ th[t] = Idle
  BY <1>1, ReadyIs
<1>3. PICK d : d = fence[f].pts
  OBVIOUS
<1>4. d \in Seq(Points) /\ NoRepeats(d) /\ d # <<>>
  BY <1>1, <1>3, FenceIs DEF Inv, LookedOK
<1>5. PICK r : r = [Idle EXCEPT !.pc = "check", !.op = "resolve", !.looked = {f}, !.todo = d]
  OBVIOUS
<1>6. /\ r \in ThreadRec /\ r.pc = "check" /\ r.op = "resolve" /\ r.looked = {f}
      /\ r.todo = d /\ r.got = <<>>
  BY <1>4, <1>5, IdleIs DEF ThreadRec, PCs
<1>7. th' \in [Threads -> ThreadRec] /\ th'[t] = r /\ Moved(t)
  BY <1>2, <1>3, <1>5, <1>6, ThreadMoves DEF FenceResolvePVR
<1>8. Shape(r)
  BY <1>4, <1>6, EmptyHas DEF Shape, Creating, Looking, Waiting
<1>9. PlaceOK(t)'
  BY <1>1, <1>2, <1>6, <1>7 DEF PlaceOK
<1>10. Onward(t)
  <2>1. th[t].pc = "idle" /\ th[t].got = <<>> /\ th[t].op = "none"
    BY <1>2, IdleIs
  <2>2. \A g \in Fences : ~Uses(r, g) /\ ~Uses(th[t], g)
    BY <1>6, <2>1 DEF Uses, Waiting
  <2>3. QED
    BY <1>1, <1>3, <1>6, <1>7, <2>1, <2>2, EmptyHas DEF Onward, Looking
<1>11. QED
  <2>1. woken' \subseteq Threads
    BY <1>1 DEF Inv, Typed
  <2>2. th[t].pc \notin {"walk", "recheck"} /\ th'[t].pc = "check"
    BY <1>2, <1>6, <1>7, IdleIs
  <2>3. QED
    BY <1>1, <1>2, <1>7, <1>8, <1>9, <1>10, <2>1, <2>2, StillStep

\* The next point, when this one is signalled or needs nothing.
LEMMA NextCheckShape ==
    ASSUME Inv, NEW t \in Threads, NextCheck(t), th[t].todo # <<>>, th[t].pc \in Looking,
           fence' = fence, alive' = alive,
           th[t].op = "merge" => NativeSignalled(Head(th[t].todo))
    PROVE  /\ Onward(t) /\ th' \in [Threads -> ThreadRec] /\ Shape(th'[t]) /\ PlaceOK(t)'
           /\ th'[t].pc \in {"idle", "check"}
<1>1. PICK d : d = Tail(th[t].todo)
  OBVIOUS
<1>2. PICK p : p = Head(th[t].todo)
  OBVIOUS
<1>3. /\ p \in Points /\ d \in Seq(Points) /\ NoRepeats(d)
      /\ \A q : Has(th[t].todo, q) <=> q = p \/ Has(d, q)
  BY <1>1, <1>2, TodoIs
<1>4. /\ th' \in [Threads -> ThreadRec] /\ Moved(t)
      /\ \/ th'[t] = Idle /\ th[t].op = "resolve" /\ d = <<>>
         \/ /\ th'[t].pc = "check" /\ th'[t].op = th[t].op /\ th'[t].f = th[t].f
            /\ th'[t].new = th[t].new /\ th'[t].looked = th[t].looked
            /\ th'[t].todo = d /\ th'[t].got = th[t].got
            /\ th[t].op = "resolve" => d # <<>>
  BY <1>1, NextCheckIs
<1>5. /\ Shape(th[t]) /\ PlaceOK(t)
      /\ \A f \in th[t].looked : Proc[t] \in fence[f].handles
      /\ \A q \in Points : Has(th[t].todo, q) =>
            \E f \in th[t].looked : Has(fence[f].pts, q)
  BY ThreadIs DEF Inv, LookedOK
<1>6. \A f \in Fences : ~Uses(th[t], f)
  BY DEF Uses, Looking, Waiting
<1>7. CASE th'[t] = Idle /\ th[t].op = "resolve" /\ d = <<>>
  <2>1. Shape(Idle)
    BY IdleIs, EmptyHas DEF Shape, Creating, Looking, Waiting
  <2>2. PlaceOK(t)'
    BY <1>7, IdleIs DEF PlaceOK, Creating, Looking, Waiting
  <2>3. th[t].got = <<>> /\ th[t].op # "merge"
    BY <1>5, <1>7 DEF Shape
  <2>4. /\ th'[t].pc = "idle" /\ th'[t].got = <<>> /\ th'[t].op # "merge"
        /\ th'[t].looked = {} /\ th'[t].pc \notin Looking
    BY <1>7, IdleIs DEF Looking
  <2>5. \A f \in Fences : ~Uses(th'[t], f)
    BY <2>4 DEF Uses, Waiting
  <2>6. Onward(t)
    BY <1>4, <1>6, <2>3, <2>4, <2>5 DEF Onward
  <2>7. QED
    BY <1>4, <1>7, <2>1, <2>2, <2>4, <2>6
<1>8. CASE /\ th'[t].pc = "check" /\ th'[t].op = th[t].op /\ th'[t].f = th[t].f
           /\ th'[t].new = th[t].new /\ th'[t].looked = th[t].looked
           /\ th'[t].todo = d /\ th'[t].got = th[t].got
           /\ th[t].op = "resolve" => d # <<>>
  <2>1. Shape(th'[t])
    BY <1>3, <1>5, <1>8 DEF Shape, Creating, Looking, Waiting
  <2>2. PlaceOK(t)'
    BY <1>5, <1>8 DEF PlaceOK, Creating, Looking, Waiting
  <2>3. \A f \in Fences : ~Uses(th'[t], f)
    BY <1>8 DEF Uses, Waiting
  <2>4. \A q \in Points : th[t].op = "merge" /\ Has(th[t].todo, q) =>
           Has(th'[t].todo, q) \/ NativeSignalled(q)
    BY <1>2, <1>3, <1>8
  <2>5. \A q \in Points : Has(th'[t].todo, q) =>
           \E f \in th'[t].looked : Has(fence[f].pts, q)
    BY <1>3, <1>5, <1>8
  <2>6. Onward(t)
    BY <1>4, <1>5, <1>6, <1>8, <2>3, <2>4, <2>5 DEF Onward, Looking
  <2>7. QED
    BY <1>4, <1>8, <2>1, <2>2, <2>6
<1>9. QED
  BY <1>4, <1>7, <1>8

\* Another place for the same point.
LEMMA SamePointShape ==
    ASSUME Inv, NEW t \in Threads, NEW c \in Looking, Step(t, c), th[t].todo # <<>>,
           th[t].pc \in Looking, c \in {"attach", "recheck"} => th[t].op = "resolve",
           fence' = fence, alive' = alive
    PROVE  /\ Onward(t) /\ th' \in [Threads -> ThreadRec] /\ Shape(th'[t]) /\ PlaceOK(t)'
           /\ th'[t].pc = c /\ th'[t].todo = th[t].todo /\ th'[t].op = th[t].op
<1>1. c \in PCs
  BY DEF Looking, PCs
<1>2. /\ th' \in [Threads -> ThreadRec] /\ Moved(t) /\ th'[t] \in ThreadRec
      /\ th'[t].pc = c /\ th'[t].op = th[t].op /\ th'[t].f = th[t].f
      /\ th'[t].new = th[t].new /\ th'[t].looked = th[t].looked
      /\ th'[t].todo = th[t].todo /\ th'[t].got = th[t].got
  BY <1>1, StepIs
<1>3. /\ Shape(th[t]) /\ PlaceOK(t)
      /\ \A f \in th[t].looked : Proc[t] \in fence[f].handles
      /\ \A q \in Points : Has(th[t].todo, q) =>
            \E f \in th[t].looked : Has(fence[f].pts, q)
  BY ThreadIs DEF Inv, LookedOK
<1>4. \A f \in Fences : ~Uses(th[t], f) /\ ~Uses(th'[t], f)
  BY <1>2 DEF Uses, Looking, Waiting
<1>5. Shape(th'[t])
  BY <1>2, <1>3 DEF Shape, Creating, Looking, Waiting
<1>6. PlaceOK(t)'
  BY <1>2, <1>3 DEF PlaceOK, Creating, Looking, Waiting
<1>7. Onward(t)
  BY <1>2, <1>3, <1>4 DEF Onward, Looking
<1>8. QED
  BY <1>2, <1>5, <1>6, <1>7


LEMMA OpIs ==
    ASSUME Inv, NEW t \in Threads, th[t].pc \in Looking
    PROVE  /\ th[t].op \in {"merge", "resolve"}
           /\ th[t].pc # "check" => th[t].todo # <<>>
           /\ t \in Clients /\ Proc[t] \in alive
<1>1. Shape(th[t]) /\ PlaceOK(t) /\ th[t].op \in {"none", "merge", "resolve"}
  BY ThreadIs
<1>2. QED
  BY <1>1 DEF Shape, PlaceOK

LEMMA CheckStill ==
    ASSUME Inv, NEW t \in Threads, th[t].pc = "check", th[t].todo # <<>>,
           NEW p, p = Head(th[t].todo),
           \/ point[p].status # "unsignalled" /\ NextCheck(t)
           \/ NativeSignalled(p) /\ Step(t, "mark")
           \/ th[t].op = "resolve" /\ Step(t, "attach"),
           UNCHANGED <<timeline, point, fence, points, fences, table, fbLock, misr, woken, alive>>
    PROVE  Inv'
<1>1. th[t].pc \in Looking /\ th[t].pc \notin {"walk", "recheck"} /\ p \in Points
  BY TodoIs DEF Looking
<1>2. woken' \subseteq Threads
  BY DEF Inv, Typed
<1>3. CASE point[p].status # "unsignalled" /\ NextCheck(t)
  <2>1. NativeSignalled(p)
    BY <1>1, <1>3 DEF Inv, StateOK
  <2>2. /\ Onward(t) /\ th' \in [Threads -> ThreadRec] /\ Shape(th'[t]) /\ PlaceOK(t)'
        /\ th'[t].pc \in {"idle", "check"}
    BY <1>1, <1>3, <2>1, NextCheckShape
  <2>3. QED
    BY <1>1, <1>2, <2>2, StillStep
<1>4. CASE NativeSignalled(p) /\ Step(t, "mark")
  <2>1. "mark" \in Looking
    BY DEF Looking
  <2>2. /\ Onward(t) /\ th' \in [Threads -> ThreadRec] /\ Shape(th'[t]) /\ PlaceOK(t)'
        /\ th'[t].pc = "mark" /\ th'[t].todo = th[t].todo
    BY <1>1, <1>4, <2>1, SamePointShape
  <2>3. QED
    BY <1>1, <1>2, <1>4, <2>2, StillStep
<1>5. CASE th[t].op = "resolve" /\ Step(t, "attach")
  <2>1. "attach" \in Looking
    BY DEF Looking
  <2>2. /\ Onward(t) /\ th' \in [Threads -> ThreadRec] /\ Shape(th'[t]) /\ PlaceOK(t)'
        /\ th'[t].pc = "attach"
    BY <1>1, <1>5, <2>1, SamePointShape
  <2>3. QED
    BY <1>1, <1>2, <2>2, StillStep
<1>6. QED
  BY <1>3, <1>4, <1>5

LEMMA AttachStill ==
    ASSUME Inv, NEW t \in Threads, th[t].pc = "attach", NextCheck(t),
           UNCHANGED <<timeline, point, fence, points, fences, table, fbLock, misr, woken, alive>>
    PROVE  Inv'
<1>1. th[t].pc \in Looking /\ th[t].pc \notin {"walk", "recheck"} /\ th[t].todo # <<>>
  BY OpIs DEF Looking
<1>2. th[t].op = "resolve"
  BY ThreadIs DEF Shape
<1>3. /\ Onward(t) /\ th' \in [Threads -> ThreadRec] /\ Shape(th'[t]) /\ PlaceOK(t)'
      /\ th'[t].pc \in {"idle", "check"}
  BY <1>1, <1>2, NextCheckShape
<1>4. woken' \subseteq Threads
  BY DEF Inv, Typed
<1>5. QED
  BY <1>1, <1>3, <1>4, StillStep

LEMMA WaitStill ==
    ASSUME Inv, NEW t \in Threads, th[t].pc \in Waiting, NEW c \in Waiting, Step(t, c),
           woken' \subseteq woken,
           UNCHANGED <<timeline, point, fence, points, fences, table, fbLock, misr, alive>>
    PROVE  Inv'
<1>1. c \in PCs
  BY DEF Waiting, PCs
<1>2. /\ th' \in [Threads -> ThreadRec] /\ Moved(t) /\ th'[t] \in ThreadRec
      /\ th'[t].pc = c /\ th'[t].op = th[t].op /\ th'[t].f = th[t].f
      /\ th'[t].new = th[t].new /\ th'[t].looked = th[t].looked
      /\ th'[t].todo = th[t].todo /\ th'[t].got = th[t].got
  BY <1>1, StepIs
<1>3. /\ Shape(th[t]) /\ PlaceOK(t)
      /\ \A f \in th[t].looked : Proc[t] \in fence[f].handles
  BY ThreadIs DEF Inv, LookedOK
<1>4. Shape(th'[t])
  BY <1>2, <1>3 DEF Shape, Creating, Looking, Waiting
<1>5. PlaceOK(t)'
  BY <1>2, <1>3 DEF PlaceOK, Creating, Looking, Waiting
<1>6. th[t].op # "merge"
  BY <1>3 DEF Shape, Looking, Waiting
<1>7. \A f \in Fences : Uses(th'[t], f) <=> Uses(th[t], f)
  BY <1>2 DEF Uses
<1>8. Onward(t)
  BY <1>2, <1>3, <1>6, <1>7 DEF Onward, Looking, Waiting
<1>9. woken' \subseteq Threads
  BY DEF Inv, Typed
<1>10. th[t].pc \notin {"walk", "recheck"} /\ th'[t].pc \notin {"walk", "recheck", "mark"}
  BY <1>2 DEF Waiting
<1>11. QED
  BY <1>2, <1>4, <1>5, <1>8, <1>9, <1>10, StillStep

LEMMA GoToSleepStep ==
    ASSUME Inv, NEW t \in Threads, GoToSleep(t)
    PROVE  Inv'
<1>1. "sleep" \in Waiting /\ th[t].pc \in Waiting
  BY DEF GoToSleep, Waiting
<1>2. QED
  BY <1>1, WaitStill DEF GoToSleep

LEMMA WakeUpStep ==
    ASSUME Inv, NEW t \in Threads, WakeUp(t)
    PROVE  Inv'
<1>1. "checkWait" \in Waiting /\ th[t].pc \in Waiting
  BY DEF WakeUp, Waiting
<1>2. QED
  BY <1>1, WaitStill DEF WakeUp

---------------------------------------------------------------------------
(* Steps that leave the syncs as they are *)

\* A thread that holds the lock of a timeline has a reference to the point.
LEMMA LockedPoint ==
    ASSUME Inv, NEW t \in Threads, NEW p, p = Head(th[t].todo),
           th[t].pc \in Creating \cup {"recheck"}
    PROVE  /\ p \in Points /\ point[p].ref > 0 /\ point[p].life = "live"
           /\ th[t].todo # <<>>
<1>1. th[t].todo # <<>> /\ th[t].todo \in Seq(Points)
  <2>1. Shape(th[t]) /\ th[t].todo \in Seq(Points)
    BY ThreadIs
  <2>2. CASE th[t].pc \in Creating
    <3>1. Len(th[t].todo) = 1
      BY <2>1, <2>2 DEF Shape
    <3>2. QED
      BY <2>1, <3>1, NonEmpty
  <2>3. CASE th[t].pc = "recheck"
    BY <2>1, <2>3 DEF Shape, Looking
  <2>4. QED
    BY <2>1, <2>2, <2>3
<1>2. p \in Points /\ Has(th[t].todo, p)
  BY <1>1, TodoIs
<1>3. CASE th[t].pc \in Creating
  <2>1. Keeps(th[t], p)
    BY <1>2, <1>3 DEF Keeps, Owed
  <2>2. QED
    BY <1>1, <1>2, <2>1, Referenced
<1>4. CASE th[t].pc = "recheck"
  <2>1. th[t].pc \in Looking
    BY <1>4 DEF Looking
  <2>2. QED
    BY <1>1, <1>2, <2>1, LookedPoint
<1>5. QED
  BY <1>3, <1>4

Structural ==
    /\ OldPlaces /\ OldSyncs /\ Stable /\ points' = points
    /\ \A p \in Points : point[p].ref > 0 =>
          point'[p].attached = point[p].attached /\ point'[p].life = "live"
    /\ \A p \in Points : point'[p].life # "live" => point'[p].status = "unsignalled"

\* The timelines that are referenced keep their numbers, and the live points
\* their place in the list.
OldTimelines(t) ==
    /\ \A tl \in Timelines :
          /\ timeline'[tl].last <= timeline'[tl].seq /\ timeline'[tl].seq <= points
          /\ timeline[tl].ref > 0 =>
                /\ timeline'[tl].seq = timeline[tl].seq
                /\ timeline'[tl].last = timeline[tl].last
                /\ timeline[tl].lock # t => timeline'[tl].lock = timeline[tl].lock
    /\ \A tl \in Timelines, p \in Points : Has(timeline'[tl].active, p) =>
          Has(timeline[tl].active, p) /\ point'[p].life = "live"
    /\ \A p \in Points :
          point'[p].life = "live" /\ Has(timeline[point[p].tl].active, p) =>
             Has(timeline'[point[p].tl].active, p)

LEMMA StructKept ==
    ASSUME Inv, Structural, NEW t \in Threads, Moved(t), OldTimelines(t),
           th[t].pc \notin {"walk", "recheck"},
           th'[t].pc \notin {"create", "mark", "walk", "recheck"}
    PROVE  LockOK' /\ SeqOK' /\ ActiveOK' /\ StateOK' /\ OrderOK'
<1>1. /\ OldPlaces /\ OldSyncs /\ Stable /\ points' = points
      /\ \A p \in Points : point[p].ref > 0 =>
            point'[p].attached = point[p].attached /\ point'[p].life = "live"
      /\ \A p \in Points : point'[p].life # "live" => point'[p].status = "unsignalled"
  BY DEF Structural
<1>2. \A p \in Points : point'[p].life = "live" =>
          /\ point[p].tl \in Timelines
          /\ timeline'[point[p].tl].seq = timeline[point[p].tl].seq
          /\ timeline'[point[p].tl].last = timeline[point[p].tl].last
  BY <1>1, LiveTimeline DEF OldPlaces, OldTimelines
<1>3. \A p \in Points : point'[p].life = "live" =>
          (HasSync(p)' <=> HasSync(p)) /\ (NativeSignalled(p)' <=> NativeSignalled(p))
  BY <1>1 DEF OldSyncs, HasSync, NativeSignalled, NativeState
<1>4. SeqOK'
  <2>1. \A tl \in Timelines :
            timeline'[tl].last <= timeline'[tl].seq /\ timeline'[tl].seq <= points'
    BY <1>1 DEF OldTimelines
  <2>2. QED
    BY <1>1, <1>2, <2>1, SeqKept
<1>5. ActiveOK'
  BY <1>1, <1>3, ActiveKept DEF OldTimelines
<1>6. OrderOK'
  <2>1. alive' \subseteq alive
    BY <1>1 DEF Stable
  <2>2. QED
    BY <1>1, <1>2, <1>3, <2>1, OrderKept
<1>7. StateOK'
  <2>1. \A u \in Threads, p \in Points :
           (Tells(th[u], p) => Tells(th'[u], p)) /\ (Adds(th[u], p) => Adds(th'[u], p))
    BY DEF Moved, Tells, Adds
  <2>2. ASSUME NEW u \in Threads, NEW p \in Points,
               th'[u].pc \in {"mark", "walk"}, Head(th'[u].todo) = p
        PROVE  NativeSignalled(p)'
    <3>1. th'[u] = th[u]
      BY <2>2 DEF Moved
    <3>2. NativeSignalled(p)
      BY <2>2, <3>1 DEF Inv, StateOK
    <3>3. th[u].pc \in Looking /\ th[u].pc # "check"
      BY <2>2, <3>1 DEF Looking
    <3>4. Has(th[u].todo, p)
      BY <2>2, <3>1, <3>3, OpIs, TodoIs
    <3>5. point[p].ref > 0
      BY <3>3, <3>4, LookedPoint
    <3>6. QED
      BY <1>1, <3>2, <3>5 DEF Stable
  <2>3. QED
    BY <1>1, <2>1, <2>2, StateKept
<1>8. LockOK'
  <2>1. \A p \in Points : Len(point[p].attached) > 1 /\ point'[p].life = "live"
                             => Len(point'[p].attached) > 1
    BY <1>1 DEF OldSyncs
  <2>2. ASSUME NEW u \in Threads, th'[u].pc \in {"create", "recheck"}
        PROVE  /\ th'[u] = th[u]
               /\ point'[Head(th[u].todo)].life = "live"
               /\ \A tl \in Timelines : timeline[tl].lock = u /\ timeline[tl].ref > 0 =>
                     timeline'[tl].lock = u /\ timeline'[tl].seq = timeline[tl].seq
    <3>1. th'[u] = th[u] /\ u # t
      BY <2>2 DEF Moved
    <3>2. PICK p : p = Head(th[u].todo)
      OBVIOUS
    <3>3. p \in Points /\ point[p].ref > 0
      BY <2>2, <3>1, <3>2, LockedPoint DEF Creating
    <3>4. QED
      BY <1>1, <3>1, <3>2, <3>3 DEF OldTimelines
  <2>3. QED
    BY <1>1, <2>1, <2>2, LockKept
<1>9. QED
  BY <1>4, <1>5, <1>6, <1>7, <1>8


LEMMA SameStructural ==
    ASSUME Inv, point' = point, timeline' = timeline, points' = points, alive' \subseteq alive
    PROVE  Structural /\ (\A t : OldTimelines(t))
<1>1. \A p \in Points : (HasSync(p) => HasSync(p)') /\ (NativeSignalled(p) => NativeSignalled(p)')
  BY DEF HasSync, NativeSignalled, NativeState
<1>2. Stable
  BY <1>1 DEF Stable
<1>3. \A p \in Points : point[p].life # "live" => point[p].status = "unsignalled"
  BY DEF Inv, LifeOK
<1>4. \A p \in Points : point[p].ref > 0 => point[p].life = "live"
  BY PointIs
<1>5. Structural
  BY <1>2, <1>3, <1>4 DEF Structural, OldPlaces, OldSyncs
<1>6. \A t : OldTimelines(t)
  BY DEF OldTimelines, Inv, SeqOK, ActiveOK
<1>7. QED
  BY <1>5, <1>6

LEMMA LookedMoved ==
    ASSUME Inv, NEW t \in Threads, Moved(t), Stable,
           \A f \in Fences : NoRepeats(fence'[f].pts),
           \A u \in Threads \ {t}, f \in Fences : f \in th[u].looked =>
              Proc[u] \in fence'[f].handles /\ fence'[f].pts = fence[f].pts,
           \A u \in Threads \ {t}, f \in Fences : Uses(th[u], f) =>
              fence'[f].pts = fence[f].pts,
           \A f \in th'[t].looked : Proc[t] \in fence'[f].handles,
           \A p \in Points : th'[t].pc \in Looking /\ Has(th'[t].todo, p) =>
              \E f \in th'[t].looked : Has(fence'[f].pts, p),
           \A p \in Points : th'[t].pc = "force" /\ Has(th'[t].todo, p) =>
              /\ IsSW(p) /\ Owner[Tl(p)] \notin alive /\ point[p].life # "none"
              /\ Has(fence'[th'[t].f].pts, p)
    PROVE  LookedOK'
<1>1. \A p \in Points : point[p].life # "none" => point'[p].tl = point[p].tl
  BY DEF Stable
<1>2. alive' \subseteq alive
  BY DEF Stable
<1>3. ASSUME NEW u \in Threads, NEW f \in th'[u].looked
      PROVE  Proc[u] \in fence'[f].handles
  <2>1. CASE u = t
    BY <1>3, <2>1
  <2>2. CASE u # t
    BY <1>3, <2>2, ThreadIs DEF Moved
  <2>3. QED
    BY <2>1, <2>2
<1>4. ASSUME NEW u \in Threads, NEW p \in Points, th'[u].pc \in Looking, Has(th'[u].todo, p)
      PROVE  \E f \in th'[u].looked : Has(fence'[f].pts, p)
  <2>1. CASE u = t
    BY <1>4, <2>1
  <2>2. CASE u # t
    <3>1. th'[u] = th[u]
      BY <2>2 DEF Moved
    <3>2. PICK f \in th[u].looked : Has(fence[f].pts, p)
      BY <1>4, <3>1 DEF Inv, LookedOK
    <3>3. f \in Fences
      BY ThreadIs
    <3>4. QED
      BY <2>2, <3>1, <3>2, <3>3
  <2>3. QED
    BY <2>1, <2>2
<1>5. ASSUME NEW u \in Threads, NEW p \in Points, th'[u].pc = "force", Has(th'[u].todo, p)
      PROVE  IsSW(p)' /\ Owner[point'[p].tl] \notin alive' /\ Has(fence'[th'[u].f].pts, p)
  <2>1. /\ IsSW(p) /\ Owner[Tl(p)] \notin alive /\ point[p].life # "none"
        /\ Has(fence'[th'[u].f].pts, p)
    <3>1. CASE u = t
      BY <1>5, <3>1
    <3>2. CASE u # t
      <4>1. th'[u] = th[u]
        BY <3>2 DEF Moved
      <4>2. th[u].f \in Fences /\ Uses(th[u], th[u].f)
        BY <1>5, <4>1, ThreadIs DEF Shape, Uses
      <4>3. IsSW(p) /\ Owner[Tl(p)] \notin alive /\ Has(fence[th[u].f].pts, p)
        BY <1>5, <4>1 DEF Inv, LookedOK
      <4>4. point[p].life = "live"
        BY <1>5, <4>1, LookedPoint
      <4>5. QED
        BY <3>2, <4>1, <4>2, <4>3, <4>4
    <3>3. QED
      BY <3>1, <3>2
  <2>2. point'[p].tl = point[p].tl
    BY <1>1, <2>1
  <2>3. QED
    BY <1>2, <2>1, <2>2 DEF IsSW, Tl
<1>6. QED
  BY <1>3, <1>4, <1>5 DEF LookedOK, Tl

LEMMA SyncMoved ==
    ASSUME Inv, Structural, NEW t \in Threads, Moved(t),
           \A p \in Points : \/ point'[p].ref \in Nat /\ point'[p].ref <= point[p].ref
                             \/ HasSync(p),
           \A f \in Fences, p \in Points : Has(fence'[f].pts, p) => HasSync(p),
           \A p \in table' : p \in Points /\ point'[p].ref > 0 /\ (p \in table \/ HasSync(p)),
           \A p \in Points : Begins(th[t], p) /\ point'[p].life = "live" => Begins(th'[t], p)
                                                                        \/ HasSync(p),
           th'[t].pc \notin Creating,
           \A p \in Points : Has(th'[t].got, p) => HasSync(p) /\ point[p].ref > 0
    PROVE  SyncOK'
<1>1. /\ OldPlaces /\ OldSyncs
      /\ \A p \in Points : point[p].ref > 0 =>
            point'[p].attached = point[p].attached /\ point'[p].life = "live"
  BY DEF Structural
<1>2. ASSUME NEW p \in Points, Bare(p)'
      PROVE  /\ point'[p].status = "unsignalled" /\ p \notin table'
             /\ ~IsSW(p)' /\ point'[p].ref <= 1
             /\ \A f \in Fences : ~Has(fence'[f].pts, p)
             /\ \E u \in Threads : Begins(th'[u], p)
  <2>1. point'[p].life = "live" /\ point'[p].attached = <<>>
    BY <1>2 DEF Bare, HasSync
  <2>2. /\ point[p].life = "live" /\ point[p].attached = <<>> /\ point'[p].tl = point[p].tl
        /\ point'[p].status = point[p].status
    BY <1>1, <2>1 DEF OldPlaces, OldSyncs
  <2>3. Bare(p) /\ ~HasSync(p)
    BY <2>2 DEF Bare, HasSync
  <2>4. /\ point[p].status = "unsignalled" /\ p \notin table
        /\ ~IsSW(p) /\ point[p].ref <= 1
        /\ \E u \in Threads : Begins(th[u], p)
    BY <2>3 DEF Inv, SyncOK
  <2>5. p \notin table' /\ \A f \in Fences : ~Has(fence'[f].pts, p)
    BY <2>3, <2>4
  <2>6. ~IsSW(p)'
    BY <2>2, <2>4 DEF IsSW, Tl
  <2>7. point'[p].ref <= 1
    <3>1. /\ point'[p].ref <= point[p].ref
          /\ point'[p].ref \in Nat /\ point[p].ref \in Nat
      BY <2>3, PointIs
    <3>2. point[p].ref = 0 \/ point[p].ref = 1
      BY <2>4, <3>1
    <3>3. QED
      BY <3>1, <3>2
  <2>8. PICK u \in Threads : Begins(th[u], p)
    BY <2>4
  <2>9. Begins(th'[u], p)
    BY <2>1, <2>3, <2>8 DEF Moved
  <2>10. QED
    BY <2>2, <2>4, <2>5, <2>6, <2>7, <2>9
<1>3. \A p \in table' : point'[p].ref > 0
  OBVIOUS
<1>4. ASSUME NEW u \in Threads, NEW p \in Points, Head(th'[u].todo) = p,
             th'[u].pc \in Creating
      PROVE  /\ th'[u].pc = "create" => ~HasSync(p)'
             /\ th'[u].pc = "insert" => HasSync(p)'
  <2>1. th'[u] = th[u]
    BY <1>4 DEF Moved
  <2>2. point[p].ref > 0
    BY <1>4, <2>1, LockedPoint
  <2>3. HasSync(p)' <=> HasSync(p)
    BY <1>1, <2>2 DEF HasSync
  <2>4. QED
    BY <1>4, <2>1, <2>3 DEF Inv, SyncOK
<1>5. ASSUME NEW u \in Threads, NEW p \in Points, Has(th'[u].got, p)
      PROVE  HasSync(p)'
  <2>1. HasSync(p) /\ point[p].ref > 0
    BY <1>5, GotPoint DEF Moved
  <2>2. QED
    BY <1>1, <2>1 DEF HasSync
<1>6. QED
  BY <1>2, <1>3, <1>4, <1>5 DEF SyncOK, Creating

LEMMA MakersMoved ==
    ASSUME Inv, NEW t \in Threads, Moved(t), fences' \in Nat, fences <= fences',
           \A u \in Threads \ {t}, f \in Fences : Makes(th[u], f) =>
              fence'[f].life = "none" /\ (th[u].pc \in Creating => fence'[f].src = {}),
           \A f \in 0..MaxFences : Makes(th'[t], f) =>
              /\ f \in 1..fences' /\ fence'[f].life = "none"
              /\ th'[t].pc \in Creating => fence'[f].src = {}
              /\ \A u \in Threads \ {t} : ~Makes(th[u], f)
    PROVE  MakersOK'
<1>1. fences \in Nat /\ fences <= MaxFences /\ MaxFences \in Nat
  BY FallbackAssumption DEF Inv, Typed
<1>2. ASSUME NEW u \in Threads, NEW f \in 0..MaxFences, Makes(th'[u], f)
      PROVE  /\ f \in 1..fences' /\ fence'[f].life = "none"
             /\ th'[u].pc \in Creating => fence'[f].src = {}
             /\ \A v \in Threads : Makes(th'[v], f) => v = u
  <2>1. CASE u = t
    BY <1>2, <2>1 DEF Moved
  <2>2. CASE u # t
    <3>1. th'[u] = th[u]
      BY <2>2 DEF Moved
    <3>2. f \in 1..fences /\ \A v \in Threads : Makes(th[v], f) => v = u
      BY <1>2, <3>1 DEF Inv, MakersOK
    <3>3. f \in Fences /\ f \in 1..fences'
      BY <1>1, <3>2 DEF Fences
    <3>4. fence'[f].life = "none" /\ (th'[u].pc \in Creating => fence'[f].src = {})
      BY <1>2, <2>2, <3>1, <3>3
    <3>5. ~Makes(th'[t], f)
      <4>1. u \in Threads \ {t} /\ Makes(th[u], f)
        BY <1>2, <2>2, <3>1
      <4>2. Makes(th'[t], f) => \A v \in Threads \ {t} : ~Makes(th[v], f)
        OBVIOUS
      <4>3. QED
        BY <4>1, <4>2
    <3>6. QED
      BY <2>2, <3>2, <3>3, <3>4, <3>5 DEF Moved
  <2>3. QED
    BY <2>1, <2>2
<1>3. QED
  BY <1>2 DEF MakersOK


---------------------------------------------------------------------------
(* New fences *)

LEMMA FenceChanges ==
    ASSUME Inv, NEW f \in Fences, NEW r \in FenceRec, fence' = [fence EXCEPT ![f] = r]
    PROVE  fence' \in [Fences -> FenceRec] /\ fence'[f] = r /\ OtherFences(f)
<1>1. fence \in [Fences -> FenceRec]
  BY DEF Inv, Typed
<1>2. QED
  BY <1>1 DEF OtherFences

\* A fence that a thread makes is known to nobody else.
LEMMA MadeFence ==
    ASSUME Inv, NEW t \in Threads, NEW f \in 0..MaxFences, Makes(th[t], f)
    PROVE  /\ f \in Fences /\ f <= fences /\ fence[f].life = "none"
           /\ fence[f].pts = <<>> /\ fence[f].handles = {} /\ fence[f].ref = 0
           /\ \A u \in Threads : f \notin th[u].looked /\ ~Uses(th[u], f)
           /\ \A u \in Threads : Makes(th[u], f) => u = t
           /\ UsersOf(f) = {}
<1>1. /\ f \in 1..fences /\ fence[f].life = "none"
      /\ \A u \in Threads : Makes(th[u], f) => u = t
  BY DEF Inv, MakersOK
<1>2. f \in Fences /\ f <= fences
  BY <1>1, FallbackAssumption DEF Inv, Typed, Fences
<1>3. \A u \in Threads : f \notin th[u].looked /\ ~Uses(th[u], f)
  BY <1>1, <1>2, UsedFence
<1>4. fence[f].pts = <<>> /\ fence[f].handles = {} /\ fence[f].ref = 0
  BY <1>1, <1>2 DEF Inv, LifeOK
<1>5. UsersOf(f) = {}
  BY <1>3 DEF UsersOf
<1>6. QED
  BY <1>1, <1>2, <1>3, <1>4, <1>5

\* The fence that a thread makes gets its first handle, and the points kept for it.
LEMMA NewFenceRefs ==
    ASSUME Inv, NEW t \in Threads, NEW f \in Fences, fence[f].life = "none",
           fence[f].handles = {}, UsersOf(f) = {}, OtherFences(f),
           \A u \in Threads, g \in Fences : Uses(th'[u], g) <=> Uses(th[u], g),
           fence'[f].life = "live", fence'[f].ref = 1, fence'[f].handles = {Proc[t]}
    PROVE  FenceRefs'
<1>1. ASSUME NEW g \in Fences
      PROVE  /\ fence'[g].life = "live" <=> fence'[g].ref > 0
             /\ fence'[g].ref = Cardinality(fence'[g].handles) + Cardinality(UsersOf(g)')
  <2>1. UsersOf(g)' = UsersOf(g)
    BY UsersSame
  <2>2. CASE g = f
    <3>1. Cardinality({Proc[t]}) = 1 /\ Cardinality({}) = 0
      BY FS_Singleton, FS_EmptySet
    <3>2. /\ fence'[g].life = "live" /\ fence'[g].ref = 1
          /\ Cardinality(fence'[g].handles) = 1
      BY <2>2, <3>1
    <3>3. Cardinality(UsersOf(g)') = 0
      BY <2>1, <2>2, <3>1
    <3>4. QED
      BY <3>2, <3>3
  <2>3. CASE g # f
    <3>1. fence'[g] = fence[g]
      BY <2>3 DEF OtherFences
    <3>2. QED
      BY <2>1, <3>1 DEF Inv, FenceRefs
  <2>4. QED
    BY <2>2, <2>3
<1>2. QED
  BY <1>1 DEF FenceRefs

LEMMA NewFencePoints ==
    ASSUME Inv, NEW t \in Threads, NEW f \in Fences, fence[f].pts = <<>>, OtherFences(f),
           Moved(t), \A p \in Points : point'[p].ref = point[p].ref,
           \A p \in Points : Has(fence'[f].pts, p) <=> Keeps(th[t], p),
           \A p : ~Keeps(th'[t], p)
    PROVE  PointRefs'
<1>1. ASSUME NEW p \in Points
      PROVE  point'[p].ref = Cardinality(FencesOf(p)') + Cardinality(KeepersOf(p)')
  <2>1. PICK a, b : a = Cardinality(FencesOf(p)) /\ b = Cardinality(KeepersOf(p))
    OBVIOUS
  <2>2. point[p].ref = a + b /\ a \in Nat /\ b \in Nat
    BY <2>1, FiniteCounts, FewNone DEF Inv, PointRefs
  <2>3. ~Has(fence[f].pts, p)
    BY EmptyHas
  <2>4. CASE Keeps(th[t], p)
    <3>1. Cardinality(FencesOf(p)') = a + 1
      BY <2>1, <2>3, <2>4, FencesMore
    <3>2. Cardinality(KeepersOf(p)') = b - 1
      BY <2>1, <2>4, KeepersLess
    <3>3. QED
      BY <2>2, <3>1, <3>2
  <2>5. CASE ~Keeps(th[t], p)
    <3>1. FencesOf(p)' = FencesOf(p)
      <4>1. \A g \in Fences : Has(fence'[g].pts, p) <=> Has(fence[g].pts, p)
        BY <2>3, <2>5 DEF OtherFences
      <4>2. QED
        BY <4>1, FencesSame
    <3>2. KeepersOf(p)' = KeepersOf(p)
      BY <2>5, KeepersMoved
    <3>3. QED
      BY <2>1, <2>2, <3>1, <3>2
  <2>6. QED
    BY <2>4, <2>5
<1>2. QED
  BY <1>1 DEF PointRefs

LEMMA IdleHolds ==
    /\ \A p : ~Keeps(Idle, p) /\ ~Unlists(Idle, p) /\ ~Begins(Idle, p)
    /\ \A f : ~Uses(Idle, f) /\ ~Makes(Idle, f)
    /\ \A tl : ~Frees(Idle, tl)
<1>1. Idle.pc = "idle" /\ Idle.op = "none" /\ Idle.got = <<>>
  BY IdleIs
<1>2. QED
  BY <1>1, OwesNothing, EmptyHas DEF Uses, Makes, Creating, Waiting, Looking

LEMMA FenceCreatedStep ==
    ASSUME Inv, NEW t \in Threads, FenceCreated(t)
    PROVE  Inv'
<1>1. /\ th[t].pc = "insert" /\ Finish(t)
      /\ table' = table \cup {Head(th[t].todo)}
      /\ fence' = [fence EXCEPT ![th[t].new] = NewFence(t, Head(th[t].todo))]
      /\ UNCHANGED <<timeline, point, points, fences, fbLock, misr, woken, alive>>
  BY DEF FenceCreated
<1>2. PICK p : p = Head(th[t].todo)
  OBVIOUS
<1>3. PICK f : f = th[t].new
  OBVIOUS
<1>4. th[t].pc \in Creating
  BY <1>1 DEF Creating
<1>5. /\ Shape(th[t]) /\ th[t].todo \in Seq(Points) /\ f \in 0..MaxFences
      /\ t \in Clients /\ Proc[t] \in alive /\ Proc[t] \in Processes
  BY <1>3, <1>4, ThreadIs, FallbackAssumption DEF PlaceOK
<1>6. /\ Len(th[t].todo) = 1 /\ th[t].op = "none" /\ th[t].got = <<>>
  BY <1>1, <1>4, <1>5 DEF Shape, Looking
<1>7. p \in Points /\ point[p].ref > 0 /\ point[p].life = "live" /\ th[t].todo # <<>> /\ HasSync(p)
  BY <1>1, <1>2, <1>4, LockedPoint DEF Inv, SyncOK
<1>8. \A q : Has(th[t].todo, q) <=> q = p
  <2>1. \A q : Has(th[t].todo, q) <=> q = th[t].todo[1]
    BY <1>6 DEF Has
  <2>2. QED
    BY <1>2, <1>5, <1>7, <2>1, TailIs
<1>9. \A q : Keeps(th[t], q) <=> q = p
  BY <1>4, <1>6, <1>8, EmptyHas DEF Keeps, Owed
<1>10. Makes(th[t], f)
  BY <1>3, <1>4 DEF Makes
<1>11. /\ f \in Fences /\ f <= fences /\ fence[f].life = "none"
       /\ fence[f].pts = <<>> /\ fence[f].handles = {} /\ fence[f].ref = 0
       /\ \A u \in Threads : f \notin th[u].looked /\ ~Uses(th[u], f)
       /\ \A u \in Threads : Makes(th[u], f) => u = t
       /\ UsersOf(f) = {}
  BY <1>5, <1>10, MadeFence
<1>12. PICK r : r = NewFence(t, p)
  OBVIOUS
<1>13. /\ r \in FenceRec /\ r.pts = <<p>> /\ r.ref = 1 /\ r.handles = {Proc[t]}
       /\ r.life = "live" /\ r.src = {}
  BY <1>5, <1>7, <1>12, OneHas DEF NewFence, NoFence, FenceRec, Lives
<1>14. fence' \in [Fences -> FenceRec] /\ fence'[f] = r /\ OtherFences(f)
  BY <1>1, <1>2, <1>3, <1>11, <1>12, <1>13, FenceChanges
<1>15. th' \in [Threads -> ThreadRec] /\ Moved(t) /\ th'[t] = Idle /\ Shape(th'[t])
  BY <1>1, FinishIs
<1>16. Typed'
  BY <1>1, <1>2, <1>7, <1>14, <1>15 DEF Inv, Typed
<1>17. PlaceOK(t)'
  BY <1>15, IdleIs DEF PlaceOK, Creating, Looking, Waiting
<1>18. ControlOK'
  BY <1>1, <1>15, <1>17, ControlMoved
<1>19. Structural /\ OldTimelines(t) /\ Stable /\ OldPlaces
  BY <1>1, SameStructural DEF Structural
<1>20. th'[t].pc = "idle" /\ th'[t].op = "none" /\ th'[t].looked = {} /\ th'[t].got = <<>>
  BY <1>15, IdleIs
<1>21. LockOK' /\ SeqOK' /\ ActiveOK' /\ StateOK' /\ OrderOK'
  BY <1>1, <1>15, <1>19, <1>20, StructKept
<1>22. LifeOK'
  <2>1. \A q \in Points : point'[q].life = "none" <=> q > points'
    BY <1>1 DEF Inv, LifeOK
  <2>2. \A q \in Points : point'[q].life # "live" =>
            point'[q].status = "unsignalled" /\ q \notin table' /\ point'[q].ref = 0
    BY <1>1, <1>2, <1>7 DEF Inv, LifeOK
  <2>3. \A g \in Fences : g > fences' => fence'[g].src = {} /\ fence'[g].life = "none"
    <3>1. \A g \in Fences : g > fences => g # f
      BY <1>11, FallbackAssumption DEF Inv, Typed, Fences
    <3>2. QED
      BY <1>1, <1>14, <3>1 DEF Inv, LifeOK, OtherFences
  <2>4. \A g \in Fences : fence'[g].life # "live" =>
            fence'[g].pts = <<>> /\ fence'[g].handles = {} /\ fence'[g].ref = 0
    BY <1>13, <1>14 DEF Inv, LifeOK, OtherFences
  <2>5. \A g \in Fences : fence'[g].life = "freed" => fence'[g].src = {}
    BY <1>13, <1>14 DEF Inv, LifeOK, OtherFences
  <2>6. QED
    BY <2>1, <2>2, <2>3, <2>4, <2>5 DEF LifeOK
<1>23. \A u \in Threads, g \in Fences : Uses(th'[u], g) <=> Uses(th[u], g)
  <2>1. \A g : ~Uses(th[t], g) /\ ~Uses(th'[t], g)
    BY <1>1, <1>20 DEF Uses, Waiting
  <2>2. QED
    BY <1>15, <2>1 DEF Moved
<1>24. FenceRefs'
  BY <1>11, <1>13, <1>14, <1>23, NewFenceRefs
<1>25. PointRefs'
  <2>1. \A q \in Points : Has(fence'[f].pts, q) <=> Keeps(th[t], q)
    BY <1>9, <1>13, <1>14, OneHas
  <2>2. \A q : ~Keeps(th'[t], q)
    BY <1>15, IdleHolds
  <2>3. QED
    BY <1>1, <1>11, <1>14, <1>15, <2>1, <2>2, NewFencePoints
<1>26. TimelineRefs'
  <2>1. \A u \in Threads, tl \in Timelines : Frees(th'[u], tl) => Frees(th[u], tl)
    BY <1>15, IdleHolds DEF Moved
  <2>2. QED
    BY <1>1, <2>1, TimelineRefsKept DEF SamePoints, SameTimelines
<1>27. UnlistOK'
  <2>1. \A u \in Threads, q \in Points : Unlists(th'[u], q) <=> Unlists(th[u], q)
    BY <1>1, <1>15, IdleHolds DEF Moved, Unlists
  <2>2. QED
    BY <1>1, <2>1, UnlistKept
<1>28. LookedOK'
  <2>1. \A g \in Fences : NoRepeats(fence'[g].pts)
    BY <1>13, <1>14, OneHas DEF Inv, LookedOK, OtherFences
  <2>2. \A u \in Threads, g \in Fences : g \in th[u].looked \/ Uses(th[u], g) =>
           fence'[g] = fence[g]
    BY <1>11, <1>14 DEF OtherFences
  <2>3. \A u \in Threads : \A g \in th[u].looked : Proc[u] \in fence[g].handles
    BY DEF Inv, LookedOK
  <2>4. th'[t].pc \notin Looking /\ th'[t].pc # "force"
    BY <1>20 DEF Looking
  <2>5. QED
    BY <1>15, <1>19, <1>20, <2>1, <2>2, <2>3, <2>4, LookedMoved
<1>29. SyncOK'
  <2>1. \A q \in Points : point'[q].ref \in Nat /\ point'[q].ref <= point[q].ref
    BY <1>1, PointIs
  <2>2. \A g \in Fences, q \in Points : Has(fence'[g].pts, q) => HasSync(q)
    <3>1. ASSUME NEW g \in Fences, NEW q \in Points, Has(fence'[g].pts, q)
          PROVE  HasSync(q)
      <4>1. CASE g = f
        <5>1. Has(<<p>>, q)
          BY <1>13, <1>14, <3>1, <4>1
        <5>2. QED
          BY <1>7, <5>1, OneHas
      <4>2. CASE g # f
        BY <1>14, <3>1, <4>2, FencePoint DEF OtherFences
      <4>3. QED
        BY <4>1, <4>2
    <3>2. QED
      BY <3>1
  <2>3. \A q \in table' : q \in Points /\ point'[q].ref > 0 /\ (q \in table \/ HasSync(q))
    BY <1>1, <1>2, <1>7 DEF Inv, SyncOK, Typed
  <2>4. \A q \in Points : ~Begins(th[t], q)
    BY <1>1 DEF Begins
  <2>5. th'[t].pc \notin Creating /\ \A q : ~Has(th'[t].got, q)
    BY <1>20, EmptyHas DEF Creating
  <2>6. QED
    BY <1>15, <1>19, <2>1, <2>2, <2>3, <2>4, <2>5, SyncMoved
<1>30. MakersOK'
  <2>1. fences' \in Nat /\ fences <= fences'
    BY <1>1, FallbackAssumption DEF Inv, Typed
  <2>2. ASSUME NEW u \in Threads \ {t}, NEW g \in Fences, Makes(th[u], g)
        PROVE  fence'[g].life = "none" /\ (th[u].pc \in Creating => fence'[g].src = {})
    <3>1. fence'[g] = fence[g]
      BY <1>11, <1>14, <2>2 DEF OtherFences
    <3>2. QED
      <4>1. g \in 0..MaxFences
        BY FallbackAssumption DEF Fences
      <4>2. QED
        BY <2>2, <3>1, <4>1 DEF Inv, MakersOK
  <2>3. \A g : ~Makes(th'[t], g)
    BY <1>15, IdleHolds
  <2>4. QED
    BY <1>15, <2>1, <2>2, <2>3, MakersMoved
<1>31. MergedOK'
  <2>1. \A g \in Fences : fence'[g].src \subseteq fence[g].src
    BY <1>13, <1>14 DEF OtherFences
  <2>2. ASSUME NEW g \in Fences, NEW q \in Points, Carries(g, q)
        PROVE  Carries(g, q)' \/ fence'[g].src = {}
    <3>1. CASE g = f
      BY <1>13, <1>14, <3>1
    <3>2. CASE g # f
      BY <1>6, <1>14, <1>15, <2>2, <3>2 DEF Carries, OtherFences, Moved
    <3>3. QED
      BY <3>1, <3>2
  <2>3. QED
    BY <1>19, <2>1, <2>2, MergedKept
<1>32. QED
  BY <1>16, <1>18, <1>21, <1>22, <1>24, <1>25, <1>26, <1>27, <1>28, <1>29, <1>30, <1>31 DEF Inv

\* A step that changes one fence and the thread that does it.
FenceStill(t, f) ==
    /\ Moved(t) /\ OtherFences(f) /\ f <= fences' /\ fences' \in Nat /\ fences <= fences'
    /\ th[t].pc \in {"idle", "check", "force"} \cup Waiting
    /\ th'[t].pc \in {"idle", "check", "relPt", "checkWait", "force"}
    /\ Shape(th'[t]) /\ PlaceOK(t)'
    /\ UNCHANGED <<timeline, point, points, table, fbLock, misr, alive>>
FenceLife(t, f) ==
    /\ fence'[f].life # "live" =>
          fence'[f].pts = <<>> /\ fence'[f].handles = {} /\ fence'[f].ref = 0
    /\ fence'[f].life = "freed" => fence'[f].src = {}
    /\ \A u \in Threads \ {t} : ~Makes(th[u], f)
    /\ \A g \in 0..MaxFences : Makes(th'[t], g) => g = f /\ fence'[f].life = "none"
FenceLooked(t, f) ==
    /\ NoRepeats(fence'[f].pts)
    /\ \A p \in Points : Has(fence'[f].pts, p) \/ Has(th'[t].got, p) =>
          HasSync(p) /\ point[p].ref > 0
    /\ \A u \in Threads \ {t} :
          /\ f \in th[u].looked => Proc[u] \in fence'[f].handles
          /\ f \in th[u].looked \/ Uses(th[u], f) => fence'[f].pts = fence[f].pts
    /\ \A g \in th'[t].looked : Proc[t] \in fence'[g].handles
    /\ \A p \in Points : th'[t].pc \in Looking /\ Has(th'[t].todo, p) =>
          \E g \in th'[t].looked : Has(fence'[g].pts, p)
    /\ \A p \in Points : th'[t].pc = "force" /\ Has(th'[t].todo, p) =>
          /\ IsSW(p) /\ Owner[Tl(p)] \notin alive /\ point[p].life # "none"
          /\ Has(fence'[th'[t].f].pts, p)

LEMMA FenceStep ==
    ASSUME Inv, NEW t \in Threads, NEW f \in Fences, FenceStill(t, f), FenceLife(t, f),
           FenceLooked(t, f), Typed', PointRefs', FenceRefs', MergedOK'
    PROVE  Inv'
<1>1. /\ Moved(t) /\ OtherFences(f) /\ f <= fences' /\ fences' \in Nat /\ fences <= fences'
      /\ th[t].pc \in {"idle", "check", "force"} \cup Waiting
      /\ th'[t].pc \in {"idle", "check", "relPt", "checkWait", "force"}
      /\ Shape(th'[t]) /\ PlaceOK(t)'
      /\ UNCHANGED <<timeline, point, points, table, fbLock, misr, alive>>
  BY DEF FenceStill
<1>2. /\ th[t].pc \notin Creating \cup {"walk", "recheck", "unlist", "freeTl", "relPt"}
      /\ th'[t].pc \notin Creating \cup {"mark", "walk", "recheck", "unlist", "freeTl"}
  BY <1>1 DEF Creating, Waiting
<1>3. ControlOK'
  BY <1>1, ControlMoved
<1>4. Structural /\ OldTimelines(t) /\ Stable
  BY <1>1, SameStructural DEF Structural
<1>5. LockOK' /\ SeqOK' /\ ActiveOK' /\ StateOK' /\ OrderOK'
  BY <1>1, <1>2, <1>4, StructKept DEF Creating
<1>6. TimelineRefs'
  <2>1. \A u \in Threads, tl \in Timelines : Frees(th'[u], tl) => Frees(th[u], tl)
    BY <1>1, <1>2 DEF Moved, Frees
  <2>2. QED
    BY <1>1, <2>1, TimelineRefsKept DEF SamePoints, SameTimelines
<1>7. UnlistOK'
  <2>1. \A u \in Threads, q \in Points : Unlists(th'[u], q) <=> Unlists(th[u], q)
    BY <1>1, <1>2 DEF Moved, Unlists
  <2>2. QED
    BY <1>1, <2>1, UnlistKept
<1>8. LifeOK'
  <2>1. \A q \in Points : point'[q].life = "none" <=> q > points'
    BY <1>1 DEF Inv, LifeOK
  <2>2. \A q \in Points : point'[q].life # "live" =>
            point'[q].status = "unsignalled" /\ q \notin table' /\ point'[q].ref = 0
    BY <1>1 DEF Inv, LifeOK
  <2>3. ASSUME NEW g \in Fences, g > fences'
        PROVE  fence'[g].src = {} /\ fence'[g].life = "none"
    <3>1. g \in Nat /\ f \in Nat /\ fences \in Nat
      BY FallbackAssumption DEF Inv, Typed, Fences
    <3>2. g # f /\ g > fences
      BY <1>1, <2>3, <3>1
    <3>3. QED
      BY <1>1, <3>2 DEF Inv, LifeOK, OtherFences
  <2>4. \A g \in Fences : fence'[g].life # "live" =>
            fence'[g].pts = <<>> /\ fence'[g].handles = {} /\ fence'[g].ref = 0
    BY <1>1 DEF Inv, LifeOK, OtherFences, FenceLife
  <2>5. \A g \in Fences : fence'[g].life = "freed" => fence'[g].src = {}
    BY <1>1 DEF Inv, LifeOK, OtherFences, FenceLife
  <2>6. QED
    BY <2>1, <2>2, <2>3, <2>4, <2>5 DEF LifeOK
<1>9. MakersOK'
  <2>1. ASSUME NEW u \in Threads \ {t}, NEW g \in Fences, Makes(th[u], g)
        PROVE  fence'[g].life = "none" /\ (th[u].pc \in Creating => fence'[g].src = {})
    <3>1. g # f
      BY <2>1 DEF FenceLife
    <3>2. fence'[g] = fence[g] /\ g \in 0..MaxFences
      BY <1>1, <3>1, FallbackAssumption DEF OtherFences, Fences
    <3>3. QED
      BY <2>1, <3>2 DEF Inv, MakersOK
  <2>2. ASSUME NEW g \in 0..MaxFences, Makes(th'[t], g)
        PROVE  /\ g \in 1..fences' /\ fence'[g].life = "none"
               /\ th'[t].pc \in Creating => fence'[g].src = {}
               /\ \A u \in Threads \ {t} : ~Makes(th[u], g)
    <3>1. g = f /\ fence'[f].life = "none"
      BY <2>2 DEF FenceLife
    <3>2. g \in 1..fences'
      BY <1>1, <3>1, FallbackAssumption DEF Fences
    <3>3. QED
      BY <1>2, <3>1, <3>2 DEF FenceLife
  <2>3. QED
    BY <1>1, <2>1, <2>2, MakersMoved
<1>10. LookedOK'
  <2>1. \A g \in Fences : NoRepeats(fence'[g].pts)
    BY <1>1 DEF Inv, LookedOK, OtherFences, FenceLooked
  <2>2. ASSUME NEW u \in Threads \ {t}, NEW g \in Fences, g \in th[u].looked
        PROVE  Proc[u] \in fence'[g].handles /\ fence'[g].pts = fence[g].pts
    BY <1>1, <2>2 DEF Inv, LookedOK, OtherFences, FenceLooked
  <2>3. \A u \in Threads \ {t}, g \in Fences : Uses(th[u], g) =>
              fence'[g].pts = fence[g].pts
    BY <1>1 DEF OtherFences, FenceLooked
  <2>4. QED
    BY <1>1, <1>4, <2>1, <2>2, <2>3, LookedMoved DEF FenceLooked
<1>11. SyncOK'
  <2>1. \A q \in Points : point'[q].ref \in Nat /\ point'[q].ref <= point[q].ref
    BY <1>1, PointIs
  <2>2. \A g \in Fences, q \in Points : Has(fence'[g].pts, q) => HasSync(q)
    <3>1. ASSUME NEW g \in Fences, NEW q \in Points, Has(fence'[g].pts, q)
          PROVE  HasSync(q)
      <4>1. CASE g = f
        BY <3>1, <4>1 DEF FenceLooked
      <4>2. CASE g # f
        BY <1>1, <3>1, <4>2, FencePoint DEF OtherFences
      <4>3. QED
        BY <4>1, <4>2
    <3>2. QED
      BY <3>1
  <2>3. \A q \in table' : q \in Points /\ point'[q].ref > 0 /\ (q \in table \/ HasSync(q))
    BY <1>1 DEF Inv, SyncOK, Typed
  <2>4. \A q \in Points : ~Begins(th[t], q)
    BY <1>2 DEF Begins, Creating
  <2>5. \A q \in Points : Has(th'[t].got, q) => HasSync(q) /\ point[q].ref > 0
    BY DEF FenceLooked
  <2>6. th'[t].pc \notin Creating
    BY <1>2
  <2>7. QED
    BY <1>1, <1>4, <2>1, <2>2, <2>3, <2>4, <2>5, <2>6, SyncMoved
<1>12. QED
  BY <1>3, <1>5, <1>6, <1>7, <1>8, <1>9, <1>10, <1>11 DEF Inv

\* The references to a fence, when its handles or one of its users change.
LEMMA FenceRefsMoved ==
    ASSUME Inv, NEW f \in Fences, OtherFences(f),
           \A u \in Threads, g \in Fences : g # f => (Uses(th'[u], g) <=> Uses(th[u], g)),
           fence'[f].life = "live" <=> fence'[f].ref > 0,
           fence'[f].ref = Cardinality(fence'[f].handles) + Cardinality(UsersOf(f)')
    PROVE  FenceRefs'
<1>1. ASSUME NEW g \in Fences, g # f
      PROVE  /\ fence'[g].life = "live" <=> fence'[g].ref > 0
             /\ fence'[g].ref = Cardinality(fence'[g].handles) + Cardinality(UsersOf(g)')
  <2>1. UsersOf(g)' = UsersOf(g)
    BY <1>1, UsersSame
  <2>2. QED
    BY <1>1, <2>1 DEF OtherFences, Inv, FenceRefs
<1>2. QED
  BY <1>1 DEF FenceRefs

\* The counts of a fence.
LEMMA FenceCounts ==
    ASSUME Inv, NEW f \in Fences
    PROVE  /\ IsFiniteSet(fence[f].handles) /\ Cardinality(fence[f].handles) \in Nat
           /\ IsFiniteSet(UsersOf(f)) /\ Cardinality(UsersOf(f)) \in Nat
           /\ fence[f].ref = Cardinality(fence[f].handles) + Cardinality(UsersOf(f))
           /\ fence[f].ref \in Nat
           /\ fence[f].life = "live" <=> fence[f].ref > 0
<1>1. IsFiniteSet(fence[f].handles)
  BY FenceIs, FiniteSets, FS_Subset
<1>2. QED
  BY <1>1, FenceIs, FiniteCounts, FewNone DEF Inv, FenceRefs

\* Nobody makes a fence that is live.
LEMMA LiveNotMade ==
    ASSUME Inv, NEW f \in Fences, fence[f].life = "live"
    PROVE  (\A u \in Threads : ~Makes(th[u], f)) /\ f <= fences
<1>1. f \in 0..MaxFences /\ f \in Nat /\ fences \in Nat
  BY FallbackAssumption DEF Fences, Inv, Typed
<1>2. \A u \in Threads : ~Makes(th[u], f)
  BY <1>1 DEF Inv, MakersOK
<1>3. f <= fences
  BY <1>1 DEF Inv, LifeOK
<1>4. QED
  BY <1>2, <1>3

\* The thread has nothing of a fence that is made or of points.
LEMMA FenceHeld ==
    ASSUME Inv, NEW t \in Threads, NEW f \in Fences, FenceStill(t, f),
           th[t].op # "merge", th[t].got = <<>>, th'[t].op # "merge", th'[t].got = <<>>,
           th'[t].pc # "relPt",
           fence'[f].pts = fence[f].pts, fence'[f].src = fence[f].src
    PROVE  PointRefs' /\ MergedOK'
<1>1. /\ Moved(t) /\ OtherFences(f)
      /\ th[t].pc \notin Creating \cup {"relPt", "unlist", "freeTl"}
      /\ th'[t].pc \notin Creating \cup {"relPt", "unlist", "freeTl"}
      /\ point' = point /\ timeline' = timeline /\ points' = points /\ alive' = alive
  BY DEF FenceStill, Creating, Waiting
<1>2. \A p : ~Keeps(th[t], p) /\ ~Keeps(th'[t], p)
  BY <1>1, EmptyHas DEF Keeps, Owed
<1>3. PointRefs'
  <2>1. ASSUME NEW p \in Points
        PROVE  point'[p].ref = Cardinality(FencesOf(p)') + Cardinality(KeepersOf(p)')
    <3>1. FencesOf(p)' = FencesOf(p)
      BY <1>1, FencesSame DEF OtherFences
    <3>2. KeepersOf(p)' = KeepersOf(p)
      BY <1>1, <1>2, KeepersMoved
    <3>3. QED
      BY <1>1, <3>1, <3>2 DEF Inv, PointRefs
  <2>2. QED
    BY <2>1 DEF PointRefs
<1>4. MergedOK'
  <2>1. Stable
    BY <1>1, SameStructural DEF Structural
  <2>2. \A g \in Fences : fence'[g].src \subseteq fence[g].src /\ fence'[g].pts = fence[g].pts
    BY <1>1 DEF OtherFences
  <2>3. \A g \in Fences, q \in Points : Carries(g, q) => Carries(g, q)'
    BY <1>1, <2>2 DEF Carries, Moved
  <2>4. QED
    BY <2>1, <2>2, <2>3, MergedKept
<1>5. QED
  BY <1>3, <1>4

\* fences and f, when no fence is allocated.
LEMMA FencesNumber ==
    ASSUME Inv, fences' = fences
    PROVE  fences' \in Nat /\ fences \in Nat /\ fences <= fences' /\ MaxFences \in Nat
BY FallbackAssumption DEF Inv, Typed

LEMMA FenceImportStep ==
    ASSUME Inv, NEW t \in Clients, NEW f \in Fences, FenceImport(t, f)
    PROVE  Inv'
<1>1. /\ Ready(t) /\ Proc[t] \notin fence[f].handles /\ fence[f].handles # {}
      /\ fence' = [fence EXCEPT ![f].ref = @ + 1, ![f].handles = @ \cup {Proc[t]}]
      /\ UNCHANGED <<timeline, point, points, fences, table, fbLock, th, misr, woken, alive>>
  BY DEF FenceImport, Holds
<1>2. /\ t \in Threads /\ Proc[t] \in alive /\ Proc[t] \in Processes /\ th[t] = Idle
  BY <1>1, ReadyIs
<1>3. fence[f].life = "live" /\ fence[f].ref > 0
  BY <1>1, UsedFence
<1>4. /\ fence[f] \in FenceRec /\ fence[f].ref \in Nat /\ fence[f].handles \subseteq Processes
      /\ fence[f].pts \in Seq(Points) /\ fence[f].src \subseteq Points
  BY FenceIs
<1>5. PICK r : r = [fence[f] EXCEPT !.ref = @ + 1, !.handles = @ \cup {Proc[t]}]
  OBVIOUS
<1>6. /\ r \in FenceRec /\ r.pts = fence[f].pts /\ r.src = fence[f].src
      /\ r.life = "live" /\ r.ref = fence[f].ref + 1
      /\ r.handles = fence[f].handles \cup {Proc[t]}
  <2>1. fence[f].ref + 1 \in Nat /\ fence[f].handles \cup {Proc[t]} \in SUBSET Processes
    BY <1>2, <1>4
  <2>2. QED
    BY <1>3, <1>4, <1>5, <2>1 DEF FenceRec
<1>7. fence' = [fence EXCEPT ![f] = r]
  BY <1>1, <1>5
<1>8. fence' \in [Fences -> FenceRec] /\ fence'[f] = r /\ OtherFences(f)
  BY <1>6, <1>7, FenceChanges
<1>9. /\ Idle.pc = "idle" /\ Idle.op = "none" /\ Idle.looked = {} /\ Idle.got = <<>>
  BY IdleIs
<1>10. (\A u \in Threads : ~Makes(th[u], f)) /\ f <= fences
  BY <1>3, LiveNotMade
<1>11. Shape(th'[t]) /\ PlaceOK(t)'
  BY <1>1, <1>2, ThreadIs DEF PlaceOK
<1>12. FenceStill(t, f)
  BY <1>1, <1>2, <1>8, <1>9, <1>10, <1>11, FencesNumber DEF FenceStill, Moved
<1>13. FenceLife(t, f)
  BY <1>1, <1>2, <1>6, <1>8, <1>10, IdleHolds DEF FenceLife
<1>14. FenceLooked(t, f)
  <2>1. NoRepeats(fence'[f].pts)
    BY <1>6, <1>8 DEF Inv, LookedOK
  <2>2. \A p \in Points : Has(fence'[f].pts, p) \/ Has(th'[t].got, p) =>
          HasSync(p) /\ point[p].ref > 0
    BY <1>1, <1>2, <1>6, <1>8, <1>9, EmptyHas, FencePoint
  <2>3. \A u \in Threads : f \in th[u].looked => Proc[u] \in fence'[f].handles
    BY <1>6, <1>8 DEF Inv, LookedOK
  <2>4. QED
    BY <1>1, <1>2, <1>6, <1>8, <1>9, <2>1, <2>2, <2>3 DEF FenceLooked, Looking
<1>15. Typed'
  BY <1>1, <1>8 DEF Inv, Typed
<1>16. PointRefs' /\ MergedOK'
  BY <1>1, <1>2, <1>6, <1>8, <1>9, <1>12, FenceHeld
<1>17. FenceRefs'
  <2>1. \A g : UsersOf(g)' = UsersOf(g)
    BY <1>1 DEF UsersOf
  <2>2. PICK a, b : a = Cardinality(fence[f].handles) /\ b = Cardinality(UsersOf(f))
    OBVIOUS
  <2>3. a \in Nat /\ b \in Nat /\ fence[f].ref = a + b /\ IsFiniteSet(fence[f].handles)
    BY <2>2, FenceCounts
  <2>4. Cardinality(fence'[f].handles) = a + 1
    BY <1>1, <1>6, <1>8, <2>2, <2>3, OneMore
  <2>5. fence'[f].ref = Cardinality(fence'[f].handles) + Cardinality(UsersOf(f)')
    <3>1. fence'[f].ref = a + b + 1 /\ Cardinality(UsersOf(f)') = b
      BY <1>6, <1>8, <2>1, <2>2, <2>3
    <3>2. QED
      BY <2>3, <2>4, <3>1
  <2>6. fence'[f].life = "live" /\ fence'[f].ref > 0
    BY <1>4, <1>6, <1>8
  <2>7. \A u \in Threads, g \in Fences : Uses(th'[u], g) <=> Uses(th[u], g)
    BY <1>1
  <2>8. QED
    BY <1>8, <2>5, <2>6, <2>7, FenceRefsMoved
<1>18. QED
  BY <1>2, <1>12, <1>13, <1>14, <1>15, <1>16, <1>17, FenceStep

LEMMA FenceWaitStep ==
    ASSUME Inv, NEW t \in Clients, NEW f \in Fences, FenceWait(t, f)
    PROVE  Inv'
<1>1. /\ Ready(t) /\ Proc[t] \in fence[f].handles
      /\ fence' = [fence EXCEPT ![f].ref = @ + 1]
      /\ th' = [th EXCEPT ![t] = [Idle EXCEPT !.pc = "checkWait", !.f = f, !.looked = {f}]]
      /\ woken' \subseteq woken
      /\ UNCHANGED <<timeline, point, points, fences, table, fbLock, misr, alive>>
  BY DEF FenceWait, Holds
<1>2. /\ t \in Threads /\ Proc[t] \in alive /\ Proc[t] \in Processes /\ th[t] = Idle
  BY <1>1, ReadyIs
<1>3. fence[f].life = "live" /\ fence[f].ref > 0
  BY <1>1, UsedFence
<1>4. /\ fence[f] \in FenceRec /\ fence[f].ref \in Nat /\ fence[f].handles \subseteq Processes
      /\ fence[f].pts \in Seq(Points) /\ fence[f].src \subseteq Points
  BY FenceIs
<1>5. PICK r : r = [fence[f] EXCEPT !.ref = @ + 1]
  OBVIOUS
<1>6. /\ r \in FenceRec /\ r.pts = fence[f].pts /\ r.src = fence[f].src
      /\ r.life = "live" /\ r.ref = fence[f].ref + 1
      /\ r.handles = fence[f].handles
  BY <1>2, <1>3, <1>4, <1>5 DEF FenceRec
<1>7. fence' = [fence EXCEPT ![f] = r]
  BY <1>1, <1>5
<1>8. fence' \in [Fences -> FenceRec] /\ fence'[f] = r /\ OtherFences(f)
  BY <1>6, <1>7, FenceChanges
<1>9. PICK s : s = [Idle EXCEPT !.pc = "checkWait", !.f = f, !.looked = {f}]
  OBVIOUS
<1>10. /\ s \in ThreadRec /\ s.pc = "checkWait" /\ s.op = "none" /\ s.f = f /\ s.looked = {f}
       /\ s.todo = <<>> /\ s.got = <<>>
  <2>1. f \in 0..MaxFences /\ {f} \in SUBSET Fences
    BY FallbackAssumption DEF Fences
  <2>2. QED
    BY <1>9, <2>1, IdleIs DEF ThreadRec, PCs
<1>11. th' \in [Threads -> ThreadRec] /\ th'[t] = s /\ Moved(t)
  BY <1>1, <1>2, <1>9, <1>10, ThreadMoves
<1>12. Shape(s)
  BY <1>10, EmptyHas DEF Shape, Creating, Looking, Waiting
<1>13. PlaceOK(t)'
  BY <1>1, <1>2, <1>10, <1>11 DEF PlaceOK
<1>14. /\ Idle.pc = "idle" /\ Idle.op = "none" /\ Idle.looked = {} /\ Idle.got = <<>>
  BY IdleIs
<1>15. (\A u \in Threads : ~Makes(th[u], f)) /\ f <= fences
  BY <1>3, LiveNotMade
<1>16. FenceStill(t, f)
  BY <1>1, <1>2, <1>8, <1>10, <1>11, <1>12, <1>13, <1>14, <1>15, FencesNumber DEF FenceStill
<1>17. \A g : ~Makes(s, g)
  BY <1>10 DEF Makes, Creating
<1>18. FenceLife(t, f)
  BY <1>6, <1>8, <1>11, <1>15, <1>17 DEF FenceLife
<1>19. FenceLooked(t, f)
  <2>1. NoRepeats(fence'[f].pts)
    BY <1>6, <1>8 DEF Inv, LookedOK
  <2>2. \A p \in Points : Has(fence'[f].pts, p) \/ Has(th'[t].got, p) =>
          HasSync(p) /\ point[p].ref > 0
    BY <1>6, <1>8, <1>10, <1>11, EmptyHas, FencePoint
  <2>3. \A u \in Threads : f \in th[u].looked => Proc[u] \in fence'[f].handles
    BY <1>6, <1>8 DEF Inv, LookedOK
  <2>4. QED
    BY <1>1, <1>6, <1>8, <1>10, <1>11, <2>1, <2>2, <2>3 DEF FenceLooked, Looking
<1>20. Typed'
  BY <1>1, <1>8, <1>11 DEF Inv, Typed
<1>21. PointRefs' /\ MergedOK'
  BY <1>2, <1>6, <1>8, <1>10, <1>11, <1>14, <1>16, FenceHeld
<1>22. FenceRefs'
  <2>1. Uses(s, f) /\ (\A g : g # f => ~Uses(s, g)) /\ (\A g : ~Uses(th[t], g))
    BY <1>2, <1>10, IdleHolds DEF Uses, Waiting
  <2>2. PICK a, b : a = Cardinality(fence[f].handles) /\ b = Cardinality(UsersOf(f))
    OBVIOUS
  <2>3. a \in Nat /\ b \in Nat /\ fence[f].ref = a + b
    BY <2>2, FenceCounts
  <2>4. Cardinality(UsersOf(f)') = b + 1
    BY <1>2, <1>11, <2>1, <2>2, UsersMore
  <2>5. fence'[f].ref = Cardinality(fence'[f].handles) + Cardinality(UsersOf(f)')
    <3>1. fence'[f].ref = a + b + 1 /\ Cardinality(fence'[f].handles) = a
      BY <1>6, <1>8, <2>2, <2>3
    <3>2. QED
      BY <2>3, <2>4, <3>1
  <2>6. fence'[f].life = "live" /\ fence'[f].ref > 0
    BY <1>4, <1>6, <1>8
  <2>7. \A u \in Threads, g \in Fences : g # f => (Uses(th'[u], g) <=> Uses(th[u], g))
    BY <1>11, <2>1 DEF Moved
  <2>8. QED
    BY <1>8, <2>5, <2>6, <2>7, FenceRefsMoved
<1>23. QED
  BY <1>2, <1>16, <1>18, <1>19, <1>20, <1>21, <1>22, FenceStep

\* The handle that is purged becomes the cleanup thread's use of the fence.
LEMMA PurgeFenceStep ==
    ASSUME Inv, NEW f \in Fences, NEW pr \in Processes, PurgeFence(f, pr)
    PROVE  Inv'
<1> DEFINE t == Cleaner
<1>1. /\ th[t].pc = "idle" /\ pr \in fence[f].handles /\ pr \notin alive
      /\ fence' = [fence EXCEPT ![f].handles = @ \ {pr}]
      /\ th' = [th EXCEPT ![t] = [Idle EXCEPT !.pc = "force", !.f = f,
          !.todo = Among(fence[f].pts, {p \in Points : IsSW(p) /\ Owner[Tl(p)] = pr})]]
      /\ UNCHANGED <<timeline, point, points, fences, table, fbLock, misr, woken, alive>>
  BY DEF PurgeFence
<1>2. t \in Threads /\ th[t] = Idle
  <2>1. t \in Threads
    BY DEF Threads
  <2>2. QED
    BY <1>1, <2>1, ThreadIs DEF Shape
<1> HIDE DEF t
<1>3. fence[f].life = "live" /\ fence[f].ref > 0
  BY <1>1, UsedFence
<1>4. /\ fence[f] \in FenceRec /\ fence[f].ref \in Nat /\ fence[f].handles \subseteq Processes
      /\ fence[f].pts \in Seq(Points) /\ fence[f].src \subseteq Points
  BY FenceIs
<1>5. PICK r : r = [fence[f] EXCEPT !.handles = @ \ {pr}]
  OBVIOUS
<1>6. /\ r \in FenceRec /\ r.pts = fence[f].pts /\ r.src = fence[f].src
      /\ r.life = "live" /\ r.ref = fence[f].ref
      /\ r.handles = fence[f].handles \ {pr}
  BY <1>3, <1>4, <1>5 DEF FenceRec
<1>7. fence' = [fence EXCEPT ![f] = r]
  BY <1>1, <1>5
<1>8. fence' \in [Fences -> FenceRec] /\ fence'[f] = r /\ OtherFences(f)
  BY <1>6, <1>7, FenceChanges
<1>9. PICK S : S = {p \in Points : IsSW(p) /\ Owner[Tl(p)] = pr}
  OBVIOUS
<1>10. PICK d : d = Among(fence[f].pts, S)
  OBVIOUS
<1>11. d \in Seq(Points) /\ NoRepeats(d) /\ \A p : Has(d, p) <=> Has(fence[f].pts, p) /\ p \in S
  BY <1>4, <1>10, AmongHas DEF Inv, LookedOK
<1>12. PICK s : s = [Idle EXCEPT !.pc = "force", !.f = f, !.todo = d]
  OBVIOUS
<1>13. /\ s \in ThreadRec /\ s.pc = "force" /\ s.op = "none" /\ s.f = f /\ s.looked = {}
       /\ s.todo = d /\ s.got = <<>>
  <2>1. f \in 0..MaxFences
    BY FallbackAssumption DEF Fences
  <2>2. QED
    BY <1>11, <1>12, <2>1, IdleIs DEF ThreadRec, PCs
<1>14. th' \in [Threads -> ThreadRec] /\ th'[t] = s /\ Moved(t)
  BY <1>1, <1>2, <1>9, <1>10, <1>12, <1>13, ThreadMoves
<1>15. Shape(s)
  BY <1>11, <1>13, EmptyHas DEF Shape, Creating, Looking, Waiting
<1>16. PlaceOK(t)'
  BY <1>13, <1>14 DEF PlaceOK, t, Creating, Looking, Waiting
<1>17. /\ Idle.pc = "idle" /\ Idle.op = "none" /\ Idle.looked = {} /\ Idle.got = <<>>
  BY IdleIs
<1>18. (\A u \in Threads : ~Makes(th[u], f)) /\ f <= fences
  BY <1>3, LiveNotMade
<1>19. FenceStill(t, f)
  BY <1>1, <1>8, <1>13, <1>14, <1>15, <1>16, <1>18, FencesNumber DEF FenceStill
<1>20. \A g : ~Makes(s, g)
  BY <1>13 DEF Makes, Creating
<1>21. FenceLife(t, f)
  BY <1>6, <1>8, <1>14, <1>18, <1>20 DEF FenceLife
<1>22. FenceLooked(t, f)
  <2>1. NoRepeats(fence'[f].pts)
    BY <1>6, <1>8 DEF Inv, LookedOK
  <2>2. \A p \in Points : Has(fence'[f].pts, p) \/ Has(th'[t].got, p) =>
          HasSync(p) /\ point[p].ref > 0
    BY <1>6, <1>8, <1>13, <1>14, EmptyHas, FencePoint
  <2>3. \A u \in Threads : f \in th[u].looked => Proc[u] \in fence'[f].handles
    <3>1. ASSUME NEW u \in Threads, f \in th[u].looked
          PROVE  Proc[u] \in fence'[f].handles
      <4>1. Proc[u] \in fence[f].handles
        BY <3>1 DEF Inv, LookedOK
      <4>2. Proc[u] \in alive
        BY <3>1, ThreadIs DEF Shape, PlaceOK
      <4>3. QED
        BY <1>1, <1>6, <1>8, <4>1, <4>2
    <3>2. QED
      BY <3>1
  <2>4. ASSUME NEW p \in Points, Has(d, p)
        PROVE  /\ IsSW(p) /\ Owner[Tl(p)] \notin alive /\ point[p].life # "none"
               /\ Has(fence'[f].pts, p)
    <3>1. Has(fence[f].pts, p) /\ IsSW(p) /\ Owner[Tl(p)] = pr
      BY <1>9, <1>11, <2>4
    <3>2. point[p].life = "live"
      BY <3>1, FencePoint
    <3>3. QED
      BY <1>1, <1>6, <1>8, <3>1, <3>2
  <2>5. QED
    BY <1>6, <1>8, <1>13, <1>14, <2>1, <2>2, <2>3, <2>4 DEF FenceLooked, Looking
<1>23. Typed'
  BY <1>1, <1>8, <1>14 DEF Inv, Typed
<1>24. PointRefs' /\ MergedOK'
  BY <1>2, <1>6, <1>8, <1>13, <1>14, <1>17, <1>19, FenceHeld
<1>25. FenceRefs'
  <2>1. Uses(s, f) /\ (\A g : g # f => ~Uses(s, g)) /\ (\A g : ~Uses(th[t], g))
    BY <1>2, <1>13, IdleHolds DEF Uses, Waiting
  <2>2. PICK a, b : a = Cardinality(fence[f].handles) /\ b = Cardinality(UsersOf(f))
    OBVIOUS
  <2>3. a \in Nat /\ b \in Nat /\ fence[f].ref = a + b /\ IsFiniteSet(fence[f].handles)
    BY <2>2, FenceCounts
  <2>4. Cardinality(UsersOf(f)') = b + 1
    BY <1>2, <1>14, <2>1, <2>2, UsersMore
  <2>5. Cardinality(fence'[f].handles) = a - 1
    <3>1. PICK H : H = fence[f].handles
      OBVIOUS
    <3>2. IsFiniteSet(H) /\ pr \in H /\ Cardinality(H) = a
      BY <1>1, <2>2, <2>3, <3>1
    <3>3. Cardinality(H \ {pr}) = a - 1
      BY <3>2, OneLess
    <3>4. fence'[f].handles = H \ {pr}
      BY <1>6, <1>8, <3>1
    <3>5. QED
      BY <3>3, <3>4
  <2>6. fence'[f].ref = Cardinality(fence'[f].handles) + Cardinality(UsersOf(f)')
    <3>1. fence'[f].ref = a + b
      BY <1>6, <1>8, <2>3
    <3>2. QED
      BY <2>3, <2>4, <2>5, <3>1
  <2>7. fence'[f].life = "live" /\ fence'[f].ref > 0
    BY <1>3, <1>6, <1>8
  <2>8. \A u \in Threads, g \in Fences : g # f => (Uses(th'[u], g) <=> Uses(th[u], g))
    BY <1>14, <2>1 DEF Moved
  <2>9. QED
    BY <1>8, <2>6, <2>7, <2>8, FenceRefsMoved
<1>26. QED
  BY <1>2, <1>19, <1>21, <1>22, <1>23, <1>24, <1>25, FenceStep

LEMMA MergedStep ==
    ASSUME Inv, NEW t \in Threads, Merged(t)
    PROVE  Inv'
<1>1. /\ th[t].pc = "check" /\ th[t].todo = <<>> /\ th[t].op = "merge" /\ Finish(t)
      /\ fence' = [fence EXCEPT ![th[t].new].pts = th[t].got, ![th[t].new].ref = 1,
                   ![th[t].new].handles = {Proc[t]}, ![th[t].new].life = "live"]
      /\ UNCHANGED <<timeline, point, points, fences, table, fbLock, misr, woken, alive>>
  BY DEF Merged
<1>2. PICK f : f = th[t].new
  OBVIOUS
<1>3. PICK d : d = th[t].got
  OBVIOUS
<1>4. /\ d \in Seq(Points) /\ NoRepeats(d) /\ f \in 0..MaxFences
      /\ t \in Clients /\ Proc[t] \in alive /\ Proc[t] \in Processes
  BY <1>1, <1>2, <1>3, ThreadIs, FallbackAssumption DEF Shape, PlaceOK, Looking
<1>5. Makes(th[t], f)
  BY <1>1, <1>2 DEF Makes
<1>6. /\ f \in Fences /\ f <= fences /\ fence[f].life = "none"
      /\ fence[f].pts = <<>> /\ fence[f].handles = {} /\ fence[f].ref = 0
      /\ \A u \in Threads : f \notin th[u].looked /\ ~Uses(th[u], f)
      /\ \A u \in Threads : Makes(th[u], f) => u = t
      /\ UsersOf(f) = {}
  BY <1>4, <1>5, MadeFence
<1>7. fence[f] \in FenceRec /\ fence[f].src \subseteq Points
  BY <1>6, FenceIs
<1>8. PICK r : r = [fence[f] EXCEPT !.pts = d, !.ref = 1, !.handles = {Proc[t]}, !.life = "live"]
  OBVIOUS
<1>9. /\ r \in FenceRec /\ r.pts = d /\ r.ref = 1 /\ r.handles = {Proc[t]}
      /\ r.life = "live" /\ r.src = fence[f].src
  <2>1. {Proc[t]} \in SUBSET Processes
    BY <1>4
  <2>2. QED
    BY <1>4, <1>7, <1>8, <2>1 DEF FenceRec, Lives
<1>10. fence' = [fence EXCEPT ![f] = r]
  <2>1. fence \in [Fences -> FenceRec]
    BY DEF Inv, Typed
  <2>2. QED
    BY <1>1, <1>2, <1>3, <1>6, <1>8, <2>1
<1>11. fence' \in [Fences -> FenceRec] /\ fence'[f] = r /\ OtherFences(f)
  BY <1>6, <1>9, <1>10, FenceChanges
<1>12. th' \in [Threads -> ThreadRec] /\ Moved(t) /\ th'[t] = Idle /\ Shape(th'[t])
  BY <1>1, FinishIs
<1>13. /\ Idle.pc = "idle" /\ Idle.op = "none" /\ Idle.looked = {} /\ Idle.got = <<>>
  BY IdleIs
<1>14. PlaceOK(t)'
  BY <1>12, <1>13 DEF PlaceOK, Creating, Looking, Waiting
<1>15. FenceStill(t, f)
  BY <1>1, <1>6, <1>11, <1>12, <1>13, <1>14, FencesNumber DEF FenceStill
<1>16. FenceLife(t, f)
  BY <1>6, <1>9, <1>11, <1>12, IdleHolds DEF FenceLife
<1>17. FenceLooked(t, f)
  <2>1. \A p \in Points : Has(fence'[f].pts, p) \/ Has(th'[t].got, p) =>
          HasSync(p) /\ point[p].ref > 0
    BY <1>3, <1>9, <1>11, <1>12, <1>13, EmptyHas, GotPoint
  <2>2. QED
    BY <1>4, <1>6, <1>9, <1>11, <1>12, <1>13, <2>1 DEF FenceLooked, Looking
<1>18. Typed'
  BY <1>1, <1>11, <1>12 DEF Inv, Typed
<1>19. PointRefs'
  <2>1. \A q \in Points : Has(fence'[f].pts, q) <=> Keeps(th[t], q)
    BY <1>1, <1>3, <1>9, <1>11, EmptyHas DEF Keeps, Owed, Creating
  <2>2. \A q : ~Keeps(th'[t], q)
    BY <1>12, IdleHolds
  <2>3. QED
    BY <1>1, <1>6, <1>11, <1>12, <2>1, <2>2, NewFencePoints
<1>20. FenceRefs'
  <2>1. \A u \in Threads, g \in Fences : Uses(th'[u], g) <=> Uses(th[u], g)
    BY <1>1, <1>12, IdleHolds DEF Moved, Uses, Waiting
  <2>2. QED
    BY <1>6, <1>9, <1>11, <2>1, NewFenceRefs
<1>21. MergedOK'
  <2>1. \A g \in Fences : fence'[g].src \subseteq fence[g].src
    BY <1>9, <1>11 DEF OtherFences
  <2>2. ASSUME NEW g \in Fences, NEW q \in Points, Carries(g, q)
        PROVE  Carries(g, q)'
    <3>1. CASE Has(fence[g].pts, q)
      <4>1. g # f
        BY <1>6, <3>1, EmptyHas
      <4>2. QED
        BY <1>11, <3>1, <4>1 DEF Carries, OtherFences
    <3>2. CASE \E u \in Threads : /\ th[u].op = "merge" /\ th[u].new = g
                                  /\ Has(th[u].todo, q) \/ Has(th[u].got, q)
      <4>1. PICK u \in Threads : /\ th[u].op = "merge" /\ th[u].new = g
                                 /\ Has(th[u].todo, q) \/ Has(th[u].got, q)
        BY <3>2
      <4>2. CASE u = t
        BY <1>1, <1>2, <1>3, <1>9, <1>11, <4>1, <4>2, EmptyHas DEF Carries
      <4>3. CASE u # t
        BY <1>12, <4>1, <4>3 DEF Carries, Moved
      <4>4. QED
        BY <4>2, <4>3
    <3>3. QED
      BY <2>2, <3>1, <3>2 DEF Carries
  <2>3. Stable
    BY <1>1, SameStructural DEF Structural
  <2>4. QED
    BY <2>1, <2>2, <2>3, MergedKept
<1>22. QED
  BY <1>6, <1>15, <1>16, <1>17, <1>18, <1>19, <1>20, <1>21, FenceStep

\* Who may drop a reference to a fence: the owner of a handle that nobody has
\* looked up, or a thread that uses it.
Drops(t, f, handles) ==
    \/ /\ th[t].pc = "idle" /\ Proc[t] \in fence[f].handles
       /\ handles = fence[f].handles \ {Proc[t]}
       /\ \A u \in Threads : f \in th[u].looked => Proc[u] # Proc[t]
    \/ Uses(th[t], f) /\ handles = fence[f].handles

LEMMA DropsOne ==
    ASSUME Inv, NEW t \in Threads, NEW f \in Fences, NEW handles, Drops(t, f, handles),
           Moved(t), \A g : ~Uses(th'[t], g)
    PROVE  /\ fence[f].life = "live" /\ fence[f].ref \in Nat /\ handles \subseteq fence[f].handles
           /\ Cardinality(handles) \in Nat /\ Cardinality(UsersOf(f)') \in Nat
           /\ fence[f].ref - 1 = Cardinality(handles) + Cardinality(UsersOf(f)')
           /\ \A u \in Threads \ {t}, g \in Fences : Uses(th'[u], g) <=> Uses(th[u], g)
           /\ \A g \in Fences : g # f => ~Uses(th[t], g)
           /\ \A u \in Threads \ {t} : f \in th[u].looked => Proc[u] \in handles
           /\ (Cardinality(handles) = 0 => handles = {})
           /\ (Cardinality(UsersOf(f)') = 0 => \A u \in Threads \ {t} : ~Uses(th[u], f))
           /\ th[t].pc \in {"idle", "force"} \cup Waiting
           /\ th[t].op = "none" /\ th[t].got = <<>>
<1>1. PICK a, b : a = Cardinality(fence[f].handles) /\ b = Cardinality(UsersOf(f))
  OBVIOUS
<1>2. /\ IsFiniteSet(fence[f].handles) /\ a \in Nat /\ b \in Nat /\ fence[f].ref = a + b
      /\ fence[f].ref \in Nat
  BY <1>1, FenceCounts
<1>3. \A u \in Threads \ {t} : th'[u] = th[u]
  BY DEF Moved
<1>4. /\ th[t].pc \in {"idle", "force"} \cup Waiting
      /\ th[t].op = "none" /\ th[t].got = <<>>
  <2>1. th[t].pc \in {"idle", "force"} \cup Waiting
    BY DEF Drops, Uses
  <2>2. /\ Shape(th[t]) /\ th[t].op \in {"none", "merge", "resolve"}
    BY ThreadIs
  <2>3. QED
    BY <2>1, <2>2 DEF Shape, Looking, Waiting
<1>5. \A u \in Threads : f \in th[u].looked => Proc[u] \in fence[f].handles
  BY DEF Inv, LookedOK
<1>6. /\ Cardinality(handles) \in Nat /\ IsFiniteSet(handles) /\ Cardinality(UsersOf(f)') \in Nat
      /\ fence[f].ref - 1 = Cardinality(handles) + Cardinality(UsersOf(f)')
  <2>1. CASE th[t].pc = "idle" /\ Proc[t] \in fence[f].handles
             /\ handles = fence[f].handles \ {Proc[t]}
    <3>1. ~Uses(th[t], f)
      BY <2>1 DEF Uses, Waiting
    <3>2. UsersOf(f)' = UsersOf(f)
      BY <1>3, <3>1, UsersSame
    <3>3. Cardinality(handles) = a - 1 /\ a > 0 /\ IsFiniteSet(handles)
      BY <1>1, <1>2, <2>1, OneLess
    <3>4. QED
      BY <1>1, <1>2, <3>2, <3>3
  <2>2. CASE Uses(th[t], f) /\ handles = fence[f].handles
    <3>1. Cardinality(UsersOf(f)') = b - 1
      BY <1>1, <2>2, UsersLess
    <3>2. b > 0
      <4>1. t \in UsersOf(f)
        BY <2>2 DEF UsersOf
      <4>2. QED
        BY <1>1, <4>1, FiniteCounts, FewNone
    <3>3. QED
      BY <1>1, <1>2, <2>2, <3>1, <3>2
  <2>3. QED
    BY <2>1, <2>2 DEF Drops
<1>7. Cardinality(handles) = 0 => handles = {}
  BY <1>6, FewNone
<1>8. Cardinality(UsersOf(f)') = 0 => \A u \in Threads \ {t} : ~Uses(th[u], f)
  <2>1. PICK U : U = UsersOf(f)'
    OBVIOUS
  <2>2. U = {u \in Threads : Uses(th'[u], f)}
    BY <2>1 DEF UsersOf
  <2>3. IsFiniteSet(U)
    BY <2>2, FiniteSets, FS_Subset
  <2>4. Cardinality(U) = 0 => U = {}
    BY <2>3, FewNone
  <2>5. QED
    BY <1>3, <2>1, <2>2, <2>4
<1>9. \A g \in Fences : g # f => ~Uses(th[t], g)
  BY DEF Drops, Uses, Waiting
<1>10. \A u \in Threads \ {t} : f \in th[u].looked => Proc[u] \in handles
  BY <1>5 DEF Drops
<1>11. fence[f].life = "live"
  <2>1. fence[f].ref > 0
    BY <1>2, <1>6
  <2>2. QED
    BY <2>1, FenceCounts
<1>12. handles \subseteq fence[f].handles
  BY DEF Drops
<1>13. QED
  BY <1>2, <1>3, <1>4, <1>6, <1>7, <1>8, <1>9, <1>10, <1>11, <1>12

LEMMA ReleaseKeeps ==
    ASSUME Inv, NEW t \in Threads, NEW f \in Fences, NEW handles, Drops(t, f, handles),
           fence' = [fence EXCEPT ![f].ref = @ - 1, ![f].handles = handles],
           fence[f].ref > 1, Finish(t), woken' \subseteq Threads,
           UNCHANGED <<timeline, point, points, fences, table, fbLock, misr, alive>>
    PROVE  Inv'
<1>1. th' \in [Threads -> ThreadRec] /\ Moved(t) /\ th'[t] = Idle /\ Shape(th'[t])
  BY FinishIs
<1>2. /\ Idle.pc = "idle" /\ Idle.op = "none" /\ Idle.looked = {} /\ Idle.got = <<>>
  BY IdleIs
<1>3. \A g : ~Uses(th'[t], g) /\ ~Makes(th'[t], g)
  BY <1>1, IdleHolds
<1>4. /\ fence[f].life = "live" /\ fence[f].ref \in Nat /\ handles \subseteq fence[f].handles
      /\ Cardinality(handles) \in Nat /\ Cardinality(UsersOf(f)') \in Nat
      /\ fence[f].ref - 1 = Cardinality(handles) + Cardinality(UsersOf(f)')
      /\ \A u \in Threads \ {t}, g \in Fences : Uses(th'[u], g) <=> Uses(th[u], g)
      /\ \A g \in Fences : g # f => ~Uses(th[t], g)
      /\ \A u \in Threads \ {t} : f \in th[u].looked => Proc[u] \in handles
      /\ th[t].pc \in {"idle", "force"} \cup Waiting
      /\ th[t].op = "none" /\ th[t].got = <<>>
  BY <1>1, <1>3, DropsOne
<1>5. /\ fence[f] \in FenceRec /\ fence[f].handles \subseteq Processes
      /\ fence[f].pts \in Seq(Points) /\ fence[f].src \subseteq Points
  BY FenceIs
<1>6. PICK r : r = [fence[f] EXCEPT !.ref = @ - 1, !.handles = handles]
  OBVIOUS
<1>7. /\ r \in FenceRec /\ r.pts = fence[f].pts /\ r.src = fence[f].src
      /\ r.life = "live" /\ r.ref = fence[f].ref - 1 /\ r.handles = handles
  <2>1. fence[f].ref - 1 \in Nat /\ handles \in SUBSET Processes
    BY <1>4, <1>5
  <2>2. QED
    BY <1>4, <1>5, <1>6, <2>1 DEF FenceRec
<1>8. fence' = [fence EXCEPT ![f] = r]
  BY <1>6
<1>9. fence' \in [Fences -> FenceRec] /\ fence'[f] = r /\ OtherFences(f)
  BY <1>7, <1>8, FenceChanges
<1>10. (\A u \in Threads : ~Makes(th[u], f)) /\ f <= fences
  BY <1>4, LiveNotMade
<1>11. PlaceOK(t)'
  BY <1>1, <1>2 DEF PlaceOK, Creating, Looking, Waiting
<1>12. FenceStill(t, f)
  BY <1>1, <1>2, <1>4, <1>9, <1>10, <1>11, FencesNumber DEF FenceStill
<1>13. FenceLife(t, f)
  BY <1>3, <1>7, <1>9, <1>10 DEF FenceLife
<1>14. FenceLooked(t, f)
  <2>1. NoRepeats(fence'[f].pts)
    BY <1>7, <1>9 DEF Inv, LookedOK
  <2>2. \A p \in Points : Has(fence'[f].pts, p) \/ Has(th'[t].got, p) =>
          HasSync(p) /\ point[p].ref > 0
    BY <1>1, <1>2, <1>7, <1>9, EmptyHas, FencePoint
  <2>3. QED
    BY <1>1, <1>2, <1>4, <1>7, <1>9, <2>1, <2>2 DEF FenceLooked, Looking
<1>15. Typed'
  BY <1>1, <1>9 DEF Inv, Typed
<1>16. PointRefs' /\ MergedOK'
  BY <1>1, <1>2, <1>4, <1>7, <1>9, <1>12, FenceHeld
<1>17. FenceRefs'
  <2>1. fence'[f].ref = Cardinality(fence'[f].handles) + Cardinality(UsersOf(f)')
    BY <1>4, <1>7, <1>9
  <2>2. fence'[f].life = "live" /\ fence'[f].ref > 0
    BY <1>4, <1>7, <1>9
  <2>3. \A u \in Threads, g \in Fences : g # f => (Uses(th'[u], g) <=> Uses(th[u], g))
    BY <1>3, <1>4
  <2>4. QED
    BY <1>9, <2>1, <2>2, <2>3, FenceRefsMoved
<1>18. QED
  BY <1>12, <1>13, <1>14, <1>15, <1>16, <1>17, FenceStep

LEMMA ReleaseLast ==
    ASSUME Inv, NEW t \in Threads, NEW f \in Fences, NEW handles, Drops(t, f, handles),
           fence' = [fence EXCEPT ![f] = [NoFence EXCEPT !.handles = handles, !.life = "freed"]],
           fence[f].ref = 1, Releasing(t, fence[f].pts), woken' \subseteq Threads,
           UNCHANGED <<timeline, point, points, fences, table, fbLock, misr, alive>>
    PROVE  Inv'
<1>1. PICK d : d = fence[f].pts
  OBVIOUS
<1>2. d \in Seq(Points) /\ NoRepeats(d)
  BY <1>1, FenceIs DEF Inv, LookedOK
<1>3. th' \in [Threads -> ThreadRec] /\ Moved(t) /\ Relieved(th'[t], d)
  BY <1>1, <1>2, ReleasingIs
<1>4. PICK s : s = th'[t]
  OBVIOUS
<1>5. /\ Shape(s) /\ s.looked = {} /\ s.pc \in {"idle", "relPt"} /\ s.op = "none" /\ s.got = <<>>
      /\ \A p : Keeps(s, p) <=> Has(d, p)
      /\ \A g : ~Uses(s, g) /\ ~Makes(s, g)
  BY <1>2, <1>3, <1>4, RelievedShape
<1>6. /\ fence[f].life = "live" /\ handles \subseteq fence[f].handles
      /\ Cardinality(handles) \in Nat /\ Cardinality(UsersOf(f)') \in Nat
      /\ fence[f].ref - 1 = Cardinality(handles) + Cardinality(UsersOf(f)')
      /\ \A u \in Threads \ {t}, g \in Fences : Uses(th'[u], g) <=> Uses(th[u], g)
      /\ \A g \in Fences : g # f => ~Uses(th[t], g)
      /\ \A u \in Threads \ {t} : f \in th[u].looked => Proc[u] \in handles
      /\ (Cardinality(handles) = 0 => handles = {})
      /\ (Cardinality(UsersOf(f)') = 0 => \A u \in Threads \ {t} : ~Uses(th[u], f))
      /\ th[t].pc \in {"idle", "force"} \cup Waiting
      /\ th[t].op = "none" /\ th[t].got = <<>>
  <2>1. \A g : ~Uses(th'[t], g)
    BY <1>4, <1>5
  <2>2. QED
    BY <1>3, <2>1, DropsOne
<1>7. Cardinality(handles) = 0 /\ Cardinality(UsersOf(f)') = 0
  BY <1>6
<1>8. /\ handles = {} /\ \A u \in Threads \ {t} : ~Uses(th[u], f) /\ f \notin th[u].looked
  BY <1>6, <1>7
<1>9. PICK r : r = [NoFence EXCEPT !.handles = handles, !.life = "freed"]
  OBVIOUS
<1>10. /\ r \in FenceRec /\ r.pts = <<>> /\ r.src = {} /\ r.life = "freed" /\ r.ref = 0
       /\ r.handles = {}
  <2>1. /\ r.pts = <<>> /\ r.src = {} /\ r.life = "freed" /\ r.ref = 0 /\ r.handles = {}
    BY <1>8, <1>9 DEF NoFence
  <2>2. <<>> \in Seq(Points)
    OBVIOUS
  <2>3. QED
    BY <1>8, <1>9, <2>1, <2>2 DEF FenceRec, NoFence, Lives
<1>11. fence' \in [Fences -> FenceRec] /\ fence'[f] = r /\ OtherFences(f)
  BY <1>9, <1>10, FenceChanges
<1>12. (\A u \in Threads : ~Makes(th[u], f)) /\ f <= fences
  BY <1>6, LiveNotMade
<1>13. PlaceOK(t)'
  BY <1>4, <1>5 DEF PlaceOK, Creating, Looking, Waiting
<1>14. FenceStill(t, f)
  BY <1>3, <1>4, <1>5, <1>6, <1>11, <1>12, <1>13, FencesNumber DEF FenceStill
<1>15. FenceLife(t, f)
  BY <1>4, <1>5, <1>10, <1>11, <1>12 DEF FenceLife
<1>16. FenceLooked(t, f)
  BY <1>4, <1>5, <1>8, <1>10, <1>11, EmptyHas DEF FenceLooked, Looking
<1>17. Typed'
  BY <1>3, <1>11 DEF Inv, Typed
<1>18. \A p : ~Keeps(th[t], p)
  BY <1>6, EmptyHas DEF Keeps, Owed, Creating, Waiting
<1>19. PointRefs'
  <2>1. ASSUME NEW p \in Points
        PROVE  point'[p].ref = Cardinality(FencesOf(p)') + Cardinality(KeepersOf(p)')
    <3>1. PICK a, b : a = Cardinality(FencesOf(p)) /\ b = Cardinality(KeepersOf(p))
      OBVIOUS
    <3>2. point'[p].ref = a + b /\ a \in Nat /\ b \in Nat
      BY <3>1, FiniteCounts, FewNone DEF Inv, PointRefs
    <3>3. ~Has(fence'[f].pts, p)
      BY <1>10, <1>11, EmptyHas
    <3>4. CASE Has(d, p)
      <4>1. Cardinality(FencesOf(p)') = a - 1
        BY <1>1, <1>11, <3>1, <3>3, <3>4, FencesLess
      <4>2. Cardinality(KeepersOf(p)') = b + 1
        BY <1>3, <1>4, <1>5, <1>18, <3>1, <3>4, KeepersMore
      <4>3. QED
        BY <3>2, <4>1, <4>2
    <3>5. CASE ~Has(d, p)
      <4>1. \A g \in Fences : Has(fence'[g].pts, p) <=> Has(fence[g].pts, p)
        BY <1>1, <1>11, <3>3, <3>5 DEF OtherFences
      <4>2. FencesOf(p)' = FencesOf(p)
        BY <4>1, FencesSame
      <4>3. KeepersOf(p)' = KeepersOf(p)
        BY <1>3, <1>4, <1>5, <1>18, <3>5, KeepersMoved
      <4>4. QED
        BY <3>1, <3>2, <4>2, <4>3
    <3>6. QED
      BY <3>4, <3>5
  <2>2. QED
    BY <2>1 DEF PointRefs
<1>20. FenceRefs'
  <2>1. fence'[f].ref = Cardinality(fence'[f].handles) + Cardinality(UsersOf(f)')
    <3>1. fence'[f].ref = 0 /\ fence'[f].handles = handles
      BY <1>8, <1>10, <1>11
    <3>2. QED
      BY <1>7, <3>1
  <2>2. fence'[f].life # "live" /\ ~(fence'[f].ref > 0)
    <3>1. fence'[f].ref = 0 /\ fence'[f].life = "freed"
      BY <1>10, <1>11
    <3>2. QED
      BY <3>1
  <2>3. \A u \in Threads, g \in Fences : g # f => (Uses(th'[u], g) <=> Uses(th[u], g))
    BY <1>4, <1>5, <1>6
  <2>4. QED
    BY <1>11, <2>1, <2>2, <2>3, FenceRefsMoved
<1>21. MergedOK'
  <2>1. \A g \in Fences : fence'[g].src \subseteq fence[g].src
    BY <1>10, <1>11 DEF OtherFences
  <2>2. ASSUME NEW g \in Fences, NEW q \in Points, Carries(g, q)
        PROVE  Carries(g, q)' \/ fence'[g].src = {}
    <3>1. CASE g = f
      BY <1>10, <1>11, <3>1
    <3>2. CASE g # f
      BY <1>3, <1>6, <1>11, <2>2, <3>2 DEF Carries, OtherFences, Moved
    <3>3. QED
      BY <3>1, <3>2
  <2>3. Stable
    BY SameStructural DEF Structural
  <2>4. QED
    BY <2>1, <2>2, <2>3, MergedKept
<1>22. QED
  BY <1>14, <1>15, <1>16, <1>17, <1>19, <1>20, <1>21, FenceStep

LEMMA ReleaseStep ==
    ASSUME Inv, NEW t \in Threads, NEW f \in Fences, NEW handles, Drops(t, f, handles),
           Release(t, f, handles), woken' \subseteq Threads,
           UNCHANGED <<timeline, point, points, fences, table, fbLock, misr, alive>>
    PROVE  Inv'
<1>1. CASE /\ fence[f].ref > 1
           /\ fence' = [fence EXCEPT ![f].ref = @ - 1, ![f].handles = handles]
           /\ Finish(t)
  BY <1>1, ReleaseKeeps
<1>2. CASE /\ fence[f].ref = 1
           /\ fence' = [fence EXCEPT ![f] =
                 [NoFence EXCEPT !.handles = handles, !.life = "freed"]]
           /\ Releasing(t, fence[f].pts)
  BY <1>2, ReleaseLast
<1>3. QED
  BY <1>1, <1>2 DEF Release

LEMMA FenceDestroyStep ==
    ASSUME Inv, NEW t \in Clients, NEW f \in Fences, FenceDestroy(t, f)
    PROVE  Inv'
<1>1. /\ Ready(t) /\ Proc[t] \in fence[f].handles /\ ~LookedUp(f, Proc[t])
      /\ Release(t, f, fence[f].handles \ {Proc[t]})
      /\ UNCHANGED <<timeline, point, points, fences, table, fbLock, misr, woken, alive>>
  BY DEF FenceDestroy, Holds
<1>2. t \in Threads /\ th[t].pc = "idle"
  BY <1>1, ReadyIs, IdleIs
<1>3. \A u \in Threads : f \in th[u].looked => Proc[u] # Proc[t]
  <2>1. ASSUME NEW u \in Threads, f \in th[u].looked
        PROVE  u \in Clients
    BY <2>1, ThreadIs DEF Shape, PlaceOK
  <2>2. QED
    BY <1>1, <2>1 DEF LookedUp
<1>4. Drops(t, f, fence[f].handles \ {Proc[t]})
  BY <1>1, <1>2, <1>3 DEF Drops
<1>5. woken' \subseteq Threads
  BY <1>1 DEF Inv, Typed
<1>6. QED
  BY <1>1, <1>2, <1>4, <1>5, ReleaseStep

LEMMA EndWaitStep ==
    ASSUME Inv, NEW t \in Threads, th[t].pc \in Waiting, EndWait(t)
    PROVE  Inv'
<1>1. PICK f : f = th[t].f
  OBVIOUS
<1>2. f \in Fences /\ Uses(th[t], f)
  BY <1>1, ThreadIs DEF Shape, Uses
<1>3. /\ Release(t, f, fence[f].handles) /\ woken' \subseteq woken
      /\ UNCHANGED <<timeline, point, points, fences, table, fbLock, misr, alive>>
  BY <1>1 DEF EndWait
<1>4. Drops(t, f, fence[f].handles)
  BY <1>2 DEF Drops
<1>5. woken' \subseteq Threads
  BY <1>3 DEF Inv, Typed
<1>6. QED
  BY <1>2, <1>3, <1>4, <1>5, ReleaseStep

LEMMA PurgeReleaseStep ==
    ASSUME Inv, PurgeRelease
    PROVE  Inv'
<1>1. PICK f : f = th[Cleaner].f
  OBVIOUS
<1>2. /\ th[Cleaner].pc = "force" /\ Release(Cleaner, f, fence[f].handles)
      /\ UNCHANGED <<timeline, point, points, fences, table, fbLock, misr, woken, alive>>
  BY <1>1 DEF PurgeRelease
<1>3. Cleaner \in Threads
  BY DEF Threads
<1>4. f \in Fences /\ Uses(th[Cleaner], f)
  BY <1>1, <1>2, <1>3, ThreadIs DEF Shape, Uses
<1>5. Drops(Cleaner, f, fence[f].handles)
  BY <1>4 DEF Drops
<1>6. woken' \subseteq Threads
  BY <1>2 DEF Inv, Typed
<1>7. QED
  BY <1>2, <1>3, <1>4, <1>5, <1>6, ReleaseStep

---------------------------------------------------------------------------
(* Merging *)

LEMMA MergedPointsIs ==
    ASSUME Inv, NEW f \in Fences, NEW g \in Fences, NEW d, d = MergedPoints(f, g)
    PROVE  /\ d \in Seq(Points) /\ NoRepeats(d)
           /\ \A p : Has(d, p) => Has(fence[f].pts, p) \/ Has(fence[g].pts, p)
           /\ \A q : Has(fence[f].pts, q) \/ Has(fence[g].pts, q) =>
                 \E p \in Points : Has(d, p) /\ Later(p, q)
<1>1. PICK all : all = ToSet(fence[f].pts \o fence[g].pts)
  OBVIOUS
<1>2. \A p : p \in all <=> Has(fence[f].pts, p) \/ Has(fence[g].pts, p)
  <2>1. fence[f].pts \in Seq(Points) /\ fence[g].pts \in Seq(Points)
    BY FenceIs
  <2>2. QED
    BY <1>1, <2>1, ConcatHas
<1>3. \A p \in all : p \in Points /\ point[p].life = "live"
  BY <1>2, FencePoint
<1>4. PICK last : last = {p \in all : \A q \in all : Tl(q) = Tl(p) => point[q].seq <= point[p].seq}
  OBVIOUS
<1>5. \A p \in all : Tl(p) \in Timelines /\ Tl(p) \in Nat /\ point[p].seq \in 0..MaxPoints
  BY <1>3, PointIs, LiveTimeline, FallbackAssumption DEF Tl
<1>6. PICK key : key = [p \in last |-> Tl(p)]
  OBVIOUS
<1>7. d = Sorted(last, key)
  BY <1>1, <1>4, <1>6 DEF MergedPoints
<1>8. IsFiniteSet(last)
  BY <1>3, <1>4, FiniteSets, FS_Subset
<1>9. \A p \in last : key[p] = Tl(p) /\ key[p] \in Nat
  BY <1>4, <1>5, <1>6
<1>10. ASSUME NEW p \in last, NEW q \in last, key[p] = key[q]
       PROVE  p = q
  <2>1. p \in all /\ q \in all /\ Tl(p) = Tl(q)
    BY <1>4, <1>9, <1>10
  <2>2. point[q].seq <= point[p].seq /\ point[p].seq <= point[q].seq
    BY <1>4, <2>1
  <2>3. point[p].seq \in Nat /\ point[q].seq \in Nat
    BY <1>5, <2>1
  <2>4. point[p].seq = point[q].seq
    BY <2>2, <2>3
  <2>5. QED
    BY <1>3, <2>1, <2>4 DEF Inv, SeqOK
<1>11. /\ d \in Seq(last) /\ NoRepeats(d) /\ \A x : Has(d, x) <=> x \in last
  BY <1>7, <1>8, <1>9, <1>10, SortedIs
<1>12. d \in Seq(Points)
  <2>1. last \subseteq Points
    BY <1>3, <1>4
  <2>2. QED
    BY <1>11, <2>1
<1>13. ASSUME NEW q \in all
       PROVE  \E p \in Points : Has(d, p) /\ Later(p, q)
  <2>1. PICK mine : mine = {p \in all : Tl(p) = Tl(q)}
    OBVIOUS
  <2>2. PICK S : S = {point[p].seq : p \in mine}
    OBVIOUS
  <2>3. S \in SUBSET (0..MaxPoints) /\ S # {} /\ MaxPoints \in Nat
    BY <1>5, <2>1, <2>2, FallbackAssumption
  <2>4. Max(S) \in S /\ \A x \in S : Max(S) >= x
    BY <2>3, MaxIs
  <2>5. PICK p \in mine : point[p].seq = Max(S)
    BY <2>2, <2>4
  <2>6. \A x \in mine : point[x].seq <= point[p].seq
    <3>1. ASSUME NEW x \in mine PROVE point[x].seq <= point[p].seq
      <4>1. point[x].seq \in S
        BY <2>2
      <4>2. point[x].seq \in Nat /\ point[p].seq \in Nat
        BY <1>5, <2>1
      <4>3. QED
        BY <2>4, <2>5, <4>1, <4>2
    <3>2. QED
      BY <3>1
  <2>7. p \in last
    BY <1>4, <2>1, <2>5, <2>6
  <2>8. Later(p, q)
    BY <2>1, <2>5, <2>6 DEF Later
  <2>9. QED
    BY <1>3, <1>4, <1>11, <2>7, <2>8
<1>14. QED
  BY <1>2, <1>4, <1>11, <1>12, <1>13

LEMMA FenceMergeStep ==
    ASSUME Inv, NEW t \in Clients, NEW f \in Fences, NEW g \in Fences, FenceMerge(t, f, g)
    PROVE  Inv'
<1>1. /\ Ready(t) /\ Proc[t] \in fence[f].handles /\ Proc[t] \in fence[g].handles
      /\ fences < MaxFences /\ fences' = fences + 1
      /\ fence' = [fence EXCEPT ![fences + 1].src = ToSet(fence[f].pts \o fence[g].pts)]
      /\ th' = [th EXCEPT ![t] = [Idle EXCEPT !.pc = "check", !.op = "merge",
                !.new = fences + 1, !.looked = {f, g}, !.todo = MergedPoints(f, g)]]
      /\ UNCHANGED <<timeline, point, points, table, fbLock, misr, woken, alive>>
  BY DEF FenceMerge, Holds
<1>2. /\ t \in Threads /\ Proc[t] \in alive /\ Proc[t] \in Processes /\ th[t] = Idle
  BY <1>1, ReadyIs
<1>3. PICK m : m = fences + 1
  OBVIOUS
<1>4. /\ m \in Fences /\ m > fences /\ fences' = m /\ m \in Nat /\ fences \in Nat
      /\ m \in 0..MaxFences /\ fences <= m /\ m <= m
  BY <1>1, <1>3, FallbackAssumption DEF Inv, Typed, Fences
<1>5. /\ fence[m].life = "none" /\ fence[m].pts = <<>> /\ fence[m].handles = {}
      /\ fence[m].ref = 0
  BY <1>4 DEF Inv, LifeOK
<1>6. f # m /\ g # m
  BY <1>1, <1>5
<1>7. \A u \in Threads : ~Makes(th[u], m) /\ m \notin th[u].looked /\ ~Uses(th[u], m)
  <2>1. \A u \in Threads : ~Makes(th[u], m)
    BY <1>4 DEF Inv, MakersOK
  <2>2. \A u \in Threads : m \notin th[u].looked /\ ~Uses(th[u], m)
    BY <1>4, <1>5, UsedFence
  <2>3. QED
    BY <2>1, <2>2
<1>8. PICK all : all = ToSet(fence[f].pts \o fence[g].pts)
  OBVIOUS
<1>9. \A p : p \in all <=> Has(fence[f].pts, p) \/ Has(fence[g].pts, p)
  <2>1. fence[f].pts \in Seq(Points) /\ fence[g].pts \in Seq(Points)
    BY FenceIs
  <2>2. QED
    BY <1>8, <2>1, ConcatHas
<1>10. \A p \in all : p \in Points /\ point[p].ref > 0 /\ point[p].life = "live" /\ HasSync(p)
  BY <1>9, FencePoint
<1>11. PICK d : d = MergedPoints(f, g)
  OBVIOUS
<1>12. /\ d \in Seq(Points) /\ NoRepeats(d)
       /\ \A p : Has(d, p) => Has(fence[f].pts, p) \/ Has(fence[g].pts, p)
       /\ \A q : Has(fence[f].pts, q) \/ Has(fence[g].pts, q) =>
             \E p \in Points : Has(d, p) /\ Later(p, q)
  BY <1>11, MergedPointsIs
<1>13. PICK r : r = [fence[m] EXCEPT !.src = all]
  OBVIOUS
<1>14. /\ r \in FenceRec /\ r.pts = <<>> /\ r.src = all /\ r.life = "none" /\ r.ref = 0
       /\ r.handles = {}
  <2>1. all \in SUBSET Points
    BY <1>10
  <2>2. fence[m] \in FenceRec
    BY <1>4, FenceIs
  <2>3. QED
    BY <1>5, <1>13, <2>1, <2>2 DEF FenceRec
<1>15. fence' = [fence EXCEPT ![m] = r]
  BY <1>1, <1>3, <1>8, <1>13
<1>16. fence' \in [Fences -> FenceRec] /\ fence'[m] = r /\ OtherFences(m)
  BY <1>4, <1>14, <1>15, FenceChanges
<1>17. PICK s : s = [Idle EXCEPT !.pc = "check", !.op = "merge", !.new = m,
                        !.looked = {f, g}, !.todo = d]
  OBVIOUS
<1>18. /\ s \in ThreadRec /\ s.pc = "check" /\ s.op = "merge" /\ s.new = m
       /\ s.looked = {f, g} /\ s.todo = d /\ s.got = <<>>
  <2>1. {f, g} \in SUBSET Fences
    OBVIOUS
  <2>2. QED
    BY <1>4, <1>12, <1>17, <2>1, IdleIs DEF ThreadRec, PCs
<1>19. th' \in [Threads -> ThreadRec] /\ th'[t] = s /\ Moved(t)
  BY <1>1, <1>2, <1>3, <1>11, <1>17, <1>18, ThreadMoves
<1>20. Shape(s)
  BY <1>12, <1>18, EmptyHas DEF Shape, Creating, Looking, Waiting
<1>21. PlaceOK(t)'
  BY <1>1, <1>2, <1>18, <1>19 DEF PlaceOK
<1>22. /\ Idle.pc = "idle" /\ Idle.op = "none" /\ Idle.looked = {} /\ Idle.got = <<>>
  BY IdleIs
<1>23. FenceStill(t, m)
  BY <1>1, <1>2, <1>4, <1>16, <1>18, <1>19, <1>20, <1>21, <1>22 DEF FenceStill
<1>24. FenceLife(t, m)
  BY <1>7, <1>14, <1>16, <1>18, <1>19 DEF FenceLife, Makes
<1>25. \A x \in Fences : x # m => fence'[x] = fence[x]
  BY <1>16 DEF OtherFences
<1>26. FenceLooked(t, m)
  <2>1. NoRepeats(fence'[m].pts) /\ \A p : ~Has(fence'[m].pts, p) /\ ~Has(th'[t].got, p)
    BY <1>14, <1>16, <1>18, <1>19, EmptyHas
  <2>2. \A x \in th'[t].looked : Proc[t] \in fence'[x].handles
    BY <1>1, <1>6, <1>18, <1>19, <1>25
  <2>3. \A p \in Points : Has(th'[t].todo, p) => \E x \in th'[t].looked : Has(fence'[x].pts, p)
    BY <1>6, <1>12, <1>18, <1>19, <1>25
  <2>4. th'[t].pc # "force"
    BY <1>18, <1>19
  <2>5. QED
    BY <1>7, <2>1, <2>2, <2>3, <2>4 DEF FenceLooked
<1>27. Typed'
  <2>1. fences' \in 0..MaxFences
    BY <1>4
  <2>2. QED
    BY <1>1, <1>16, <1>19, <2>1 DEF Inv, Typed
<1>28. \A x \in Fences : /\ fence'[x].pts = fence[x].pts /\ fence'[x].life = fence[x].life
                         /\ fence'[x].ref = fence[x].ref /\ fence'[x].handles = fence[x].handles
  BY <1>5, <1>14, <1>16, <1>25
<1>29. PointRefs'
  <2>1. \A p : ~Keeps(th[t], p) /\ ~Keeps(th'[t], p)
    BY <1>2, <1>18, <1>19, IdleHolds, EmptyHas DEF Keeps, Owed, Creating
  <2>2. ASSUME NEW p \in Points
        PROVE  point'[p].ref = Cardinality(FencesOf(p)') + Cardinality(KeepersOf(p)')
    <3>1. FencesOf(p)' = FencesOf(p)
      BY <1>28, FencesSame
    <3>2. KeepersOf(p)' = KeepersOf(p)
      BY <1>2, <1>19, <2>1, KeepersMoved
    <3>3. QED
      BY <1>1, <3>1, <3>2 DEF Inv, PointRefs
  <2>3. QED
    BY <2>2 DEF PointRefs
<1>30. FenceRefs'
  <2>1. \A x : ~Uses(th[t], x) /\ ~Uses(th'[t], x)
    BY <1>2, <1>18, <1>19, IdleHolds DEF Uses, Waiting
  <2>2. \A u \in Threads, x \in Fences : Uses(th'[u], x) <=> Uses(th[u], x)
    BY <1>19, <2>1 DEF Moved
  <2>3. QED
    BY <1>28, <2>2, FenceRefsKept
<1>31. MergedOK'
  <2>1. Stable
    BY <1>1, SameStructural DEF Structural
  <2>2. ASSUME NEW x \in Fences, x # m
        PROVE  MergedAt(x)'
    <3>1. fence'[x] = fence[x]
      BY <1>25, <2>2
    <3>2. ASSUME NEW p \in Points, Carries(x, p)
          PROVE  Carries(x, p)'
      <4>1. th[t].op # "merge"
        BY <1>2, <1>22
      <4>2. QED
        BY <1>19, <3>1, <3>2, <4>1 DEF Carries, Moved
    <3>3. QED
      BY <2>1, <3>1, <3>2, MergedOne
  <2>3. MergedAt(m)'
    <3>1. ASSUME NEW q \in all
          PROVE  /\ point'[q].life # "none" /\ (point'[q].ref = 0 \/ HasSync(q)')
                 /\ \E p \in Points : Carries(m, p)' /\ Later(p, q)'
      <4>1. point'[q].life # "none" /\ HasSync(q)'
        BY <1>1, <1>10 DEF HasSync
      <4>2. PICK p \in Points : Has(d, p) /\ Later(p, q)
        BY <1>9, <1>12
      <4>3. Later(p, q)'
        BY <1>1, <4>2 DEF Later, Tl
      <4>4. Carries(m, p)'
        BY <1>2, <1>18, <1>19, <4>2 DEF Carries
      <4>5. QED
        BY <4>1, <4>3, <4>4
    <3>2. fence'[m].src = all
      BY <1>14, <1>16
    <3>3. QED
      BY <3>1, <3>2 DEF MergedAt
  <2>4. QED
    BY <2>2, <2>3, MergedIs
<1>32. QED
  BY <1>2, <1>4, <1>23, <1>24, <1>26, <1>27, <1>29, <1>30, <1>31, FenceStep

LEMMA TimelineRefsStill ==
    ASSUME Inv, SameTimelines,
           \A p \in Points : point'[p].life = point[p].life /\ point'[p].tl = point[p].tl,
           \A u \in Threads, tl \in Timelines : Frees(th'[u], tl) => Frees(th[u], tl)
    PROVE  TimelineRefs'
<1>1. \A tl \in Timelines : PointsOn(tl)' = PointsOn(tl)
  BY DEF PointsOn
<1>2. QED
  BY <1>1 DEF Inv, TimelineRefs, SameTimelines

\* The thread takes a reference to a point, for the fence it makes.
Acquires(t, p) ==
    /\ point' = [point EXCEPT ![p].ref = @ + 1]
    /\ th' = [th EXCEPT ![t].todo = Tail(@), ![t].got = Append(@, p)]

LEMMA AcquireStep ==
    ASSUME Inv, NEW t \in Threads, th[t].pc = "check", th[t].todo # <<>>, th[t].op = "merge",
           NEW p, p = Head(th[t].todo),
           Acquires(t, p),
           UNCHANGED <<timeline, fence, points, fences, table, fbLock, misr, woken, alive>>
    PROVE  Inv'
<1>1. PICK d, e : d = Tail(th[t].todo) /\ e = Append(th[t].got, p)
  OBVIOUS
<1>2. /\ p \in Points /\ d \in Seq(Points) /\ NoRepeats(d) /\ Has(th[t].todo, p)
      /\ \A q : Has(th[t].todo, q) <=> q = p \/ Has(d, q)
      /\ ~Has(d, p)
  <2>1. NoRepeats(th[t].todo)
    BY ThreadIs DEF Shape
  <2>2. QED
    BY <1>1, <2>1, TodoIs
<1>3. /\ th[t] \in ThreadRec /\ Shape(th[t]) /\ PlaceOK(t) /\ th[t].got \in Seq(Points)
  BY ThreadIs
<1>4. ~Has(th[t].got, p) /\ NoRepeats(th[t].got)
  BY <1>2, <1>3 DEF Shape
<1>5. /\ e \in Seq(Points) /\ NoRepeats(e) /\ \A q : Has(e, q) <=> Has(th[t].got, q) \/ q = p
  BY <1>1, <1>2, <1>3, <1>4, AppendIs
<1>6. point[p].ref > 0 /\ point[p].life = "live" /\ HasSync(p) /\ point[p].ref \in Nat
  BY <1>2, LookedPoint, PointIs DEF Looking
<1>7. PICK s : s = [th[t] EXCEPT !.todo = d, !.got = e]
  OBVIOUS
<1>8. /\ s \in ThreadRec /\ s.pc = "check" /\ s.op = "merge" /\ s.new = th[t].new
      /\ s.looked = th[t].looked /\ s.todo = d /\ s.got = e /\ s.f = th[t].f /\ s.tl = th[t].tl
  BY <1>2, <1>3, <1>5, <1>7 DEF ThreadRec
<1>9. th' = [th EXCEPT ![t] = s]
  <2>1. th \in [Threads -> ThreadRec]
    BY DEF Inv, Typed
  <2>2. QED
    BY <1>1, <1>7, <2>1 DEF Acquires
<1>10. th' \in [Threads -> ThreadRec] /\ th'[t] = s /\ Moved(t)
  BY <1>8, <1>9, ThreadMoves
<1>11. Shape(s)
  BY <1>2, <1>3, <1>5, <1>8 DEF Shape, Creating, Looking, Waiting
<1>12. PlaceOK(t)'
  BY <1>3, <1>8, <1>10 DEF PlaceOK, Looking
<1>13. ControlOK'
  BY <1>10, <1>11, <1>12, ControlMoved
<1>14. PICK r : r = [point[p] EXCEPT !.ref = @ + 1]
  OBVIOUS
<1>15. /\ r \in PointRec /\ r.tl = point[p].tl /\ r.seq = point[p].seq /\ r.life = point[p].life
       /\ r.status = point[p].status /\ r.attached = point[p].attached
       /\ r.ref = point[p].ref + 1 /\ r.ref \in Nat /\ r.ref > 0
  <2>1. point[p].ref + 1 \in Nat /\ point[p].ref + 1 > 0
    BY <1>6
  <2>2. QED
    BY <1>2, <1>14, <2>1, PointIs DEF PointRec
<1>16. /\ point' \in [Points -> PointRec] /\ point'[p] = r
       /\ \A q \in Points : q # p => point'[q] = point[q]
  <2>1. point \in [Points -> PointRec]
    BY DEF Inv, Typed
  <2>2. point' = [point EXCEPT ![p] = r]
    BY <1>14 DEF Acquires
  <2>3. QED
    BY <1>2, <1>15, <2>1, <2>2
<1>17. Typed'
  BY <1>10, <1>16 DEF Inv, Typed
<1>18. \A q \in Points : /\ point'[q].tl = point[q].tl /\ point'[q].seq = point[q].seq
                         /\ point'[q].life = point[q].life /\ point'[q].status = point[q].status
                         /\ point'[q].attached = point[q].attached
                         /\ (point'[q].ref = 0 <=> point[q].ref = 0)
  <2>1. point[p].ref # 0 /\ point'[p].ref # 0
    <3>1. point[p].ref # 0
      BY <1>6
    <3>2. r.ref # 0
      BY <1>15
    <3>3. QED
      BY <1>16, <3>1, <3>2
  <2>2. ASSUME NEW q \in Points
        PROVE  /\ point'[q].tl = point[q].tl /\ point'[q].seq = point[q].seq
               /\ point'[q].life = point[q].life /\ point'[q].status = point[q].status
               /\ point'[q].attached = point[q].attached
               /\ (point'[q].ref = 0 <=> point[q].ref = 0)
    <3>1. CASE q = p
      BY <1>15, <1>16, <2>1, <3>1
    <3>2. CASE q # p
      BY <1>16, <3>2
    <3>3. QED
      BY <3>1, <3>2
  <2>3. QED
    BY <2>2
<1>19. Structural
  <2>1. \A q \in Points : point[q].ref > 0 => point[q].life = "live"
    BY PointIs
  <2>2. \A q \in Points : point[q].life # "live" => point[q].status = "unsignalled"
    BY DEF Inv, LifeOK
  <2>3. Stable
    BY <1>18 DEF Stable, HasSync, NativeSignalled, NativeState
  <2>4. QED
    BY <1>18, <2>1, <2>2, <2>3 DEF Structural, OldPlaces, OldSyncs
<1>20. OldTimelines(t)
  <2>1. \A tl \in Timelines, q \in Points : Has(timeline[tl].active, q) => point'[q].life = "live"
    BY <1>18 DEF Inv, ActiveOK
  <2>2. QED
    BY <2>1 DEF OldTimelines, Inv, SeqOK
<1>21. LockOK' /\ SeqOK' /\ ActiveOK' /\ StateOK' /\ OrderOK'
  BY <1>8, <1>10, <1>19, <1>20, StructKept
<1>22. LifeOK'
  <2>1. \A q \in Points : point[q].life # "live" =>
            point[q].status = "unsignalled" /\ point[q].ref = 0
    BY DEF Inv, LifeOK
  <2>2. \A q \in table' : point[q].life = "live"
    BY DEF Inv, Typed, LifeOK
  <2>3. \A f \in Fences : fence[f].life # "live" =>
            fence[f].pts = <<>> /\ fence[f].handles = {} /\ fence[f].ref = 0
    BY DEF Inv, LifeOK
  <2>4. QED
    BY <1>18, <2>1, <2>2, <2>3, LifeKept
<1>23. MakersOK'
  BY <1>8, <1>10, MakersKept DEF Makes, Moved
<1>24. \A q : (Keeps(th[t], q) <=> Has(th[t].got, q)) /\ (Keeps(s, q) <=> Has(th[t].got, q) \/ q = p)
  BY <1>5, <1>8, EmptyHas DEF Keeps, Owed, Creating
<1>25. PointRefs'
  <2>1. ASSUME NEW q \in Points
        PROVE  point'[q].ref = Cardinality(FencesOf(q)') + Cardinality(KeepersOf(q)')
    <3>1. FencesOf(q)' = FencesOf(q)
      BY FencesSame
    <3>2. PICK a, b : a = Cardinality(FencesOf(q)) /\ b = Cardinality(KeepersOf(q))
      OBVIOUS
    <3>3. point[q].ref = a + b /\ a \in Nat /\ b \in Nat
      BY <3>2, FiniteCounts, FewNone DEF Inv, PointRefs
    <3>4. CASE q = p
      <4>1. Cardinality(KeepersOf(q)') = b + 1
        BY <1>4, <1>10, <1>24, <3>2, <3>4, KeepersMore
      <4>2. point'[q].ref = a + b + 1
        BY <1>15, <1>16, <3>3, <3>4
      <4>3. QED
        BY <3>1, <3>2, <3>3, <4>1, <4>2
    <3>5. CASE q # p
      <4>1. KeepersOf(q)' = KeepersOf(q)
        BY <1>10, <1>24, <3>5, KeepersMoved
      <4>2. QED
        BY <1>16, <3>1, <3>2, <3>3, <3>5, <4>1
    <3>6. QED
      BY <3>4, <3>5
  <2>2. QED
    BY <2>1 DEF PointRefs
<1>26. FenceRefs'
  <2>1. \A u \in Threads, f \in Fences : Uses(th'[u], f) <=> Uses(th[u], f)
    BY <1>8, <1>10 DEF Moved, Uses, Waiting
  <2>2. QED
    BY <2>1, FenceRefsKept
<1>27. TimelineRefs'
  <2>1. \A u \in Threads, tl \in Timelines : Frees(th'[u], tl) => Frees(th[u], tl)
    BY <1>8, <1>10 DEF Moved, Frees
  <2>2. QED
    BY <1>18, <2>1, TimelineRefsStill DEF SameTimelines
<1>28. UnlistOK'
  <2>1. \A u \in Threads, q \in Points : Unlists(th'[u], q) <=> Unlists(th[u], q)
    BY <1>8, <1>10 DEF Moved, Unlists
  <2>2. QED
    BY <1>18, <2>1, UnlistKept
<1>29. LookedOK'
  <2>1. /\ \A f \in Fences : NoRepeats(fence[f].pts)
        /\ \A f \in th[t].looked : Proc[t] \in fence[f].handles
        /\ \A q \in Points : Has(th[t].todo, q) => \E f \in th[t].looked : Has(fence[f].pts, q)
    BY DEF Inv, LookedOK, Looking
  <2>2. \A u \in Threads : \A f \in th[u].looked : Proc[u] \in fence[f].handles
    BY DEF Inv, LookedOK
  <2>3. Stable
    BY <1>19 DEF Structural
  <2>4. \A q \in Points : Has(s.todo, q) => \E f \in s.looked : Has(fence[f].pts, q)
    BY <1>2, <1>8, <2>1
  <2>5. s.pc # "force" /\ \A f \in s.looked : Proc[t] \in fence[f].handles
    BY <1>8, <2>1
  <2>6. QED
    BY <1>10, <2>1, <2>2, <2>3, <2>4, <2>5, LookedMoved
<1>30. SyncOK'
  <2>1. \A q \in Points : \/ point'[q].ref \in Nat /\ point'[q].ref <= point[q].ref
                          \/ HasSync(q)
    <3>1. ASSUME NEW q \in Points, q # p
          PROVE  point'[q].ref \in Nat /\ point'[q].ref <= point[q].ref
      <4>1. point'[q].ref = point[q].ref /\ point[q].ref \in Nat
        BY <1>16, <3>1, PointIs
      <4>2. QED
        BY <4>1
    <3>2. QED
      BY <1>6, <3>1
  <2>2. \A f \in Fences, q \in Points : Has(fence'[f].pts, q) => HasSync(q)
    BY FencePoint
  <2>3. \A q \in table' : q \in Points /\ point'[q].ref > 0 /\ (q \in table \/ HasSync(q))
    BY <1>15, <1>16 DEF Inv, SyncOK, Typed
  <2>4. \A q : ~Begins(th[t], q)
    BY DEF Begins
  <2>5. \A q \in Points : Has(th'[t].got, q) => HasSync(q) /\ point[q].ref > 0
    BY <1>5, <1>6, <1>8, <1>10, GotPoint
  <2>6. th'[t].pc \notin Creating
    BY <1>8, <1>10 DEF Creating
  <2>7. QED
    BY <1>10, <1>19, <2>1, <2>2, <2>3, <2>4, <2>5, <2>6, SyncMoved
<1>31. MergedOK'
  <2>1. ASSUME NEW f \in Fences, NEW q \in Points, Carries(f, q)
        PROVE  Carries(f, q)'
    <3>1. Has(th[t].todo, q) \/ Has(th[t].got, q) => Has(s.todo, q) \/ Has(s.got, q)
      <4>1. Has(th[t].todo, q) \/ Has(th[t].got, q) => Has(d, q) \/ Has(e, q)
        BY <1>2, <1>5
      <4>2. QED
        BY <1>8, <4>1
    <3>2. CASE Has(fence[f].pts, q)
      BY <3>2 DEF Carries
    <3>3. ASSUME NEW u \in Threads, th[u].op = "merge", th[u].new = f,
                 Has(th[u].todo, q) \/ Has(th[u].got, q)
          PROVE  Carries(f, q)'
      <4>1. /\ th'[u].op = "merge" /\ th'[u].new = f
            /\ Has(th'[u].todo, q) \/ Has(th'[u].got, q)
        BY <1>8, <1>10, <3>1, <3>3 DEF Moved
      <4>2. QED
        BY <4>1 DEF Carries
    <3>4. QED
      BY <2>1, <3>2, <3>3 DEF Carries
  <2>2. Stable
    BY <1>19 DEF Structural
  <2>3. QED
    BY <2>1, <2>2, MergedKept
<1>32. QED
  BY <1>13, <1>17, <1>21, <1>22, <1>23, <1>25, <1>26, <1>27, <1>28, <1>29, <1>30, <1>31 DEF Inv

LEMMA CheckPointStep ==
    ASSUME Inv, NEW t \in Threads, CheckPoint(t)
    PROVE  Inv'
<1>1. PICK p : p = Head(th[t].todo)
  OBVIOUS
<1>2. /\ th[t].pc = "check" /\ th[t].todo # <<>>
      /\ UNCHANGED <<timeline, fence, points, fences, table, fbLock, misr, woken, alive>>
  BY DEF CheckPoint
<1>3. CASE /\ point' = point
           /\ \/ point[p].status # "unsignalled" /\ NextCheck(t)
              \/ NativeSignalled(p) /\ Step(t, "mark")
              \/ th[t].op = "resolve" /\ Step(t, "attach")
  BY <1>1, <1>2, <1>3, CheckStill
<1>4. CASE /\ th[t].op = "merge"
           /\ point' = [point EXCEPT ![p].ref = @ + 1]
           /\ th' = [th EXCEPT ![t].todo = Tail(@), ![t].got = Append(@, p)]
  <2>1. Acquires(t, p)
    BY <1>4 DEF Acquires
  <2>2. QED
    BY <1>1, <1>2, <1>4, <2>1, AcquireStep
<1>5. QED
  BY <1>1, <1>3, <1>4 DEF CheckPoint

---------------------------------------------------------------------------
(* Points and timelines are released *)

Retire == {"idle", "relPt", "unlist", "freeTl"}
Retiring(t) ==
    /\ Moved(t) /\ Shape(th'[t])
    /\ th[t].pc \in {"create"} \cup Retire /\ th'[t].pc \in Retire
    /\ Structural /\ OldTimelines(t)
    /\ UNCHANGED <<fence, points, fences, alive>>

LEMMA RetiringLocals ==
    ASSUME Inv, NEW t \in Threads, Retiring(t)
    PROVE  /\ th[t].op = "none" /\ th[t].got = <<>> /\ th[t].looked = {}
           /\ th'[t].got = <<>> /\ th'[t].looked = {} /\ th'[t].op # "merge"
           /\ \A f : ~Uses(th[t], f) /\ ~Uses(th'[t], f) /\ ~Makes(th'[t], f)
<1>1. /\ Shape(th[t]) /\ Shape(th'[t]) /\ th[t].op \in {"none", "merge", "resolve"}
      /\ th[t].pc \in {"create"} \cup Retire /\ th'[t].pc \in Retire
  BY ThreadIs DEF Retiring
<1>2. th[t].op = "none" /\ th[t].got = <<>> /\ th[t].looked = {}
  BY <1>1 DEF Shape, Looking, Waiting, Retire
<1>3. th'[t].got = <<>> /\ th'[t].looked = {} /\ th'[t].op # "merge"
  BY <1>1 DEF Shape, Looking, Waiting, Retire
<1>4. \A f : ~Uses(th[t], f) /\ ~Uses(th'[t], f) /\ ~Makes(th'[t], f)
  BY <1>1, <1>3 DEF Uses, Makes, Creating, Waiting, Retire
<1>5. QED
  BY <1>2, <1>3, <1>4

LEMMA RetireStep ==
    ASSUME Inv, NEW t \in Threads, Retiring(t), Typed', LifeOK', PointRefs',
           TimelineRefs', UnlistOK', SyncOK'
    PROVE  Inv'
<1>1. /\ Moved(t) /\ Shape(th'[t])
      /\ th[t].pc \in {"create"} \cup Retire /\ th'[t].pc \in Retire
      /\ Structural /\ OldTimelines(t) /\ Stable
      /\ UNCHANGED <<fence, points, fences, alive>>
  BY DEF Retiring, Structural
<1>2. /\ th[t].op = "none" /\ th'[t].looked = {}
      /\ \A f : ~Uses(th[t], f) /\ ~Uses(th'[t], f) /\ ~Makes(th'[t], f)
  BY RetiringLocals
<1>3. ControlOK'
  <2>1. PlaceOK(t)'
    BY <1>1 DEF PlaceOK, Creating, Looking, Waiting, Retire
  <2>2. QED
    BY <1>1, <2>1, ControlMoved
<1>4. LockOK' /\ SeqOK' /\ ActiveOK' /\ StateOK' /\ OrderOK'
  BY <1>1, StructKept DEF Retire
<1>5. MakersOK'
  BY <1>1, <1>2, MakersKept DEF Moved
<1>6. FenceRefs'
  <2>1. \A u \in Threads, f \in Fences : Uses(th'[u], f) <=> Uses(th[u], f)
    BY <1>1, <1>2 DEF Moved
  <2>2. QED
    BY <1>1, <2>1, FenceRefsKept
<1>7. LookedOK'
  <2>1. /\ \A f \in Fences : NoRepeats(fence[f].pts)
        /\ \A u \in Threads : \A f \in th[u].looked : Proc[u] \in fence[f].handles
    BY DEF Inv, LookedOK
  <2>2. th'[t].pc \notin Looking \cup {"force"}
    BY <1>1 DEF Looking, Retire
  <2>3. QED
    BY <1>1, <1>2, <2>1, <2>2, LookedMoved
<1>8. MergedOK'
  <2>1. ASSUME NEW f \in Fences, NEW q \in Points, Carries(f, q)
        PROVE  Carries(f, q)'
    <3>1. th[t].op # "merge"
      BY <1>2
    <3>2. QED
      BY <1>1, <2>1, <3>1 DEF Carries, Moved
  <2>2. QED
    BY <1>1, <2>1, MergedKept
<1>9. QED
  BY <1>3, <1>4, <1>5, <1>6, <1>7, <1>8 DEF Inv

LEMMA PointsStructural ==
    ASSUME Inv, point' = point, points' = points, alive' = alive
    PROVE  Structural
<1>1. Stable
  BY DEF Stable, HasSync, NativeSignalled, NativeState
<1>2. \A p \in Points : point[p].life # "live" => point[p].status = "unsignalled"
  BY DEF Inv, LifeOK
<1>3. \A p \in Points : point[p].ref > 0 => point[p].life = "live"
  BY PointIs
<1>4. QED
  BY <1>1, <1>2, <1>3 DEF Structural, OldPlaces, OldSyncs

\* What changes no point keeps the memory in use.
LEMMA LifeSame ==
    ASSUME Inv, UNCHANGED <<point, points, fence, fences>>, table' \subseteq table
    PROVE  LifeOK'
BY DEF Inv, LifeOK

LEMMA SyncSame ==
    ASSUME Inv, NEW t \in Threads, Moved(t), Structural, point' = point, fence' = fence,
           table' = table,
           \A p \in Points : Begins(th[t], p) => Begins(th'[t], p) \/ HasSync(p),
           th'[t].pc \notin Creating, th'[t].got = <<>>
    PROVE  SyncOK'
<1>1. \A q \in Points : point'[q].ref \in Nat /\ point'[q].ref <= point[q].ref
  BY PointIs
<1>2. \A f \in Fences, q \in Points : Has(fence'[f].pts, q) => HasSync(q)
  BY FencePoint
<1>3. \A q \in table' : q \in Points /\ point'[q].ref > 0 /\ (q \in table \/ HasSync(q))
  BY DEF Inv, SyncOK, Typed
<1>4. \A q : ~Has(th'[t].got, q)
  BY EmptyHas
<1>5. QED
  BY <1>1, <1>2, <1>3, <1>4, SyncMoved

LEMMA PointRefsSame ==
    ASSUME Inv, NEW t \in Threads, Moved(t), fence' = fence,
           \A p \in Points : point'[p].ref = point[p].ref,
           \A p \in Points : Keeps(th'[t], p) <=> Keeps(th[t], p)
    PROVE  PointRefs'
<1>1. ASSUME NEW p \in Points
      PROVE  point'[p].ref = Cardinality(FencesOf(p)') + Cardinality(KeepersOf(p)')
  <2>1. FencesOf(p)' = FencesOf(p)
    BY FencesSame
  <2>2. KeepersOf(p)' = KeepersOf(p)
    BY KeepersMoved
  <2>3. QED
    BY <2>1, <2>2 DEF Inv, PointRefs
<1>2. QED
  BY <1>1 DEF PointRefs

LEMMA FenceCreateFailsStep ==
    ASSUME Inv, NEW t \in Threads, FenceCreateFails(t)
    PROVE  Inv'
<1>1. /\ th[t].pc = "create"
      /\ timeline' = [timeline EXCEPT ![th[t].tl].lock = NoLock]
      /\ Step(t, "relPt")
      /\ UNCHANGED <<point, fence, points, fences, table, fbLock, misr, woken, alive>>
  BY DEF FenceCreateFails
<1>2. PICK p : p = Head(th[t].todo)
  OBVIOUS
<1>3. PICK tl : tl = th[t].tl
  OBVIOUS
<1>4. p \in Points /\ point[p].life = "live" /\ th[t].todo # <<>>
  BY <1>1, <1>2, LockedPoint DEF Creating
<1>5. tl = Tl(p) /\ timeline[tl].lock = t
  BY <1>1, <1>2, <1>3, <1>4 DEF Inv, LockOK
<1>6. tl \in Timelines
  BY <1>4, <1>5, LiveTimeline DEF Tl
<1>7. "relPt" \in PCs
  BY DEF PCs
<1>8. /\ th' \in [Threads -> ThreadRec] /\ Moved(t) /\ th'[t] \in ThreadRec
      /\ th'[t].pc = "relPt" /\ th'[t].op = th[t].op /\ th'[t].f = th[t].f
      /\ th'[t].new = th[t].new /\ th'[t].looked = th[t].looked
      /\ th'[t].todo = th[t].todo /\ th'[t].got = th[t].got
  BY <1>1, <1>7, StepIs
<1>9. Shape(th'[t])
  <2>1. Shape(th[t])
    BY ThreadIs
  <2>2. QED
    BY <1>1, <1>4, <1>8, <2>1 DEF Shape, Creating, Looking, Waiting
<1>10. PICK r : r = [timeline[tl] EXCEPT !.lock = NoLock]
  OBVIOUS
<1>11. /\ r \in TimelineRec /\ r.life = timeline[tl].life /\ r.ref = timeline[tl].ref
       /\ r.seq = timeline[tl].seq /\ r.last = timeline[tl].last
       /\ r.handle = timeline[tl].handle /\ r.active = timeline[tl].active
  BY <1>6, <1>10, TimelineIs DEF TimelineRec
<1>12. /\ timeline' \in [Timelines -> TimelineRec] /\ timeline'[tl] = r
       /\ \A x \in Timelines : x # tl => timeline'[x] = timeline[x]
  <2>1. timeline \in [Timelines -> TimelineRec]
    BY DEF Inv, Typed
  <2>2. timeline' = [timeline EXCEPT ![tl] = r]
    BY <1>1, <1>3, <1>10
  <2>3. QED
    BY <1>6, <1>11, <2>1, <2>2
<1>13. SameTimelines /\ \A x \in Timelines : /\ timeline'[x].last = timeline[x].last
                                             /\ timeline'[x].active = timeline[x].active
                                             /\ (timeline[x].lock # t => timeline'[x].lock = timeline[x].lock)
  BY <1>5, <1>11, <1>12 DEF SameTimelines
<1>14. Structural
  BY <1>1, PointsStructural
<1>15. OldTimelines(t)
  <2>1. \A x \in Timelines, q \in Points : Has(timeline[x].active, q) => point'[q].life = "live"
    BY <1>1 DEF Inv, ActiveOK
  <2>2. QED
    BY <1>1, <1>13, <2>1 DEF OldTimelines, SameTimelines, Inv, SeqOK
<1>16. Retiring(t)
  BY <1>1, <1>8, <1>9, <1>14, <1>15 DEF Retiring, Retire
<1>17. Typed'
  BY <1>1, <1>8, <1>12 DEF Inv, Typed
<1>18. LifeOK'
  BY <1>1, LifeSame
<1>19. PointRefs'
  <2>1. \A q : Keeps(th'[t], q) <=> Keeps(th[t], q)
    BY <1>1, <1>8 DEF Keeps, Owed, Creating
  <2>2. QED
    BY <1>1, <1>8, <2>1, PointRefsSame
<1>20. TimelineRefs'
  <2>1. \A u \in Threads, x \in Timelines : Frees(th'[u], x) => Frees(th[u], x)
    BY <1>8 DEF Moved, Frees
  <2>2. QED
    BY <1>1, <1>13, <2>1, TimelineRefsStill
<1>21. UnlistOK'
  <2>1. \A u \in Threads, q \in Points : Unlists(th'[u], q) <=> Unlists(th[u], q)
    BY <1>1, <1>8 DEF Moved, Unlists
  <2>2. QED
    BY <1>1, <2>1, UnlistKept
<1>22. SyncOK'
  <2>1. \A q \in Points : Begins(th[t], q) => Begins(th'[t], q)
    BY <1>8 DEF Begins
  <2>2. th'[t].got = <<>> /\ th'[t].pc \notin Creating
    BY <1>8, <1>16, RetiringLocals DEF Creating
  <2>3. QED
    BY <1>1, <1>8, <1>14, <2>1, <2>2, SyncSame
<1>23. QED
  BY <1>16, <1>17, <1>18, <1>19, <1>20, <1>21, <1>22, RetireStep

\* A reference to a point less.
LEMMA PointDropped ==
    ASSUME Inv, NEW p \in Points, point[p].ref > 0,
           point' = [point EXCEPT ![p].ref = @ - 1],
           points' = points, alive' = alive, timeline' = timeline
    PROVE  /\ point' \in [Points -> PointRec]
           /\ point'[p].ref = point[p].ref - 1 /\ point[p].ref \in Nat
           /\ \A q \in Points : q # p => point'[q] = point[q]
           /\ \A q \in Points :
                 /\ point'[q].tl = point[q].tl /\ point'[q].seq = point[q].seq
                 /\ point'[q].life = point[q].life /\ point'[q].status = point[q].status
                 /\ point'[q].attached = point[q].attached
                 /\ point'[q].ref \in Nat /\ point'[q].ref <= point[q].ref
           /\ Structural /\ \A t : OldTimelines(t)
<1>1. /\ point[p].ref \in Nat /\ point[p].ref - 1 \in Nat /\ point[p].ref - 1 <= point[p].ref
  BY PointIs
<1>2. PICK r : r = [point[p] EXCEPT !.ref = @ - 1]
  OBVIOUS
<1>3. /\ r \in PointRec /\ r.tl = point[p].tl /\ r.seq = point[p].seq /\ r.life = point[p].life
      /\ r.status = point[p].status /\ r.attached = point[p].attached
      /\ r.ref = point[p].ref - 1
  BY <1>1, <1>2, PointIs DEF PointRec
<1>4. /\ point' \in [Points -> PointRec] /\ point'[p] = r
      /\ \A q \in Points : q # p => point'[q] = point[q]
  <2>1. point \in [Points -> PointRec]
    BY DEF Inv, Typed
  <2>2. point' = [point EXCEPT ![p] = r]
    BY <1>2
  <2>3. QED
    BY <1>3, <2>1, <2>2
<1>5. \A q \in Points :
         /\ point'[q].tl = point[q].tl /\ point'[q].seq = point[q].seq
         /\ point'[q].life = point[q].life /\ point'[q].status = point[q].status
         /\ point'[q].attached = point[q].attached
  BY <1>3, <1>4
<1>6. \A q \in Points : point'[q].ref \in Nat /\ point'[q].ref <= point[q].ref
  BY <1>1, <1>3, <1>4, PointIs
<1>7. \A q \in Points : point[q].ref = 0 => point'[q].ref = 0
  BY <1>1, <1>3, <1>4
<1>8. Structural
  <2>1. \A q \in Points : point[q].ref > 0 => point[q].life = "live"
    BY PointIs
  <2>2. \A q \in Points : point[q].life # "live" => point[q].status = "unsignalled"
    BY DEF Inv, LifeOK
  <2>3. Stable
    BY <1>5, <1>7 DEF Stable, HasSync, NativeSignalled, NativeState
  <2>4. QED
    BY <1>5, <2>1, <2>2, <2>3 DEF Structural, OldPlaces, OldSyncs
<1>9. \A t : OldTimelines(t)
  <2>1. \A tl \in Timelines, q \in Points : Has(timeline[tl].active, q) => point'[q].life = "live"
    BY <1>5 DEF Inv, ActiveOK
  <2>2. QED
    BY <2>1 DEF OldTimelines, Inv, SeqOK
<1>10. QED
  BY <1>1, <1>3, <1>4, <1>5, <1>6, <1>8, <1>9

\* The points that a thread owes after it has dropped the first one.
LEMMA DroppedRefs ==
    ASSUME Inv, NEW t \in Threads, NEW p \in Points, Moved(t), fence' = fence,
           point'[p].ref = point[p].ref - 1,
           \A q \in Points : q # p => point'[q] = point[q],
           \A q : Keeps(th[t], q) <=> q = p \/ Keeps(th'[t], q),
           ~Keeps(th'[t], p)
    PROVE  PointRefs'
<1>1. ASSUME NEW q \in Points
      PROVE  point'[q].ref = Cardinality(FencesOf(q)') + Cardinality(KeepersOf(q)')
  <2>1. FencesOf(q)' = FencesOf(q)
    BY FencesSame
  <2>2. PICK a, b : a = Cardinality(FencesOf(q)) /\ b = Cardinality(KeepersOf(q))
    OBVIOUS
  <2>3. point[q].ref = a + b /\ a \in Nat /\ b \in Nat
    BY <2>2, FiniteCounts, FewNone DEF Inv, PointRefs
  <2>4. CASE q = p
    <3>1. Cardinality(KeepersOf(q)') = b - 1
      BY <2>2, <2>4, KeepersLess
    <3>2. point'[q].ref = a + b - 1
      BY <2>3, <2>4
    <3>3. QED
      BY <2>1, <2>2, <2>3, <3>1, <3>2
  <2>5. CASE q # p
    <3>1. KeepersOf(q)' = KeepersOf(q)
      BY <2>5, KeepersMoved
    <3>2. QED
      BY <2>1, <2>2, <2>3, <2>5, <3>1
  <2>6. QED
    BY <2>4, <2>5
<1>2. QED
  BY <1>1 DEF PointRefs

Released(r, p, d) ==
    /\ p \in Points /\ d \in Seq(Points) /\ NoRepeats(d) /\ r.todo # <<>>
    /\ point[p].ref > 0 /\ point[p].life = "live"
    /\ ~Has(d, p) /\ \A q : Keeps(r, q) <=> q = p \/ Has(d, q)
    /\ r.got = <<>>

LEMMA ReleasedPoint ==
    ASSUME Inv, NEW t \in Threads, th[t].pc = "relPt"
    PROVE  Released(th[t], Head(th[t].todo), Tail(th[t].todo))
<1>0. PICK p, d : p = Head(th[t].todo) /\ d = Tail(th[t].todo)
  OBVIOUS
<1>1. /\ Shape(th[t]) /\ th[t].op \in {"none", "merge", "resolve"}
  BY ThreadIs
<1>2. /\ th[t].todo # <<>> /\ th[t].got = <<>> /\ th[t].op = "none" /\ NoRepeats(th[t].todo)
      /\ th[t].looked = {}
  BY <1>1 DEF Shape, Looking, Waiting
<1>3. /\ p \in Points /\ d \in Seq(Points) /\ NoRepeats(d)
      /\ ~Has(d, p) /\ \A q : Has(th[t].todo, q) <=> q = p \/ Has(d, q)
  BY <1>0, <1>2, TodoIs
<1>4. \A q : Keeps(th[t], q) <=> q = p \/ Has(d, q)
  BY <1>2, <1>3, EmptyHas DEF Keeps, Owed
<1>5. point[p].ref > 0 /\ point[p].life = "live"
  BY <1>3, <1>4, Referenced
<1>6. Released(th[t], p, d)
  BY <1>2, <1>3, <1>4, <1>5 DEF Released
<1>7. QED
  BY <1>0, <1>6

\* A thread drops a reference that is not the point's last, and goes on.
DropsSpare(t, p, e) ==
    /\ point[p].ref > 1 /\ point' = [point EXCEPT ![p].ref = @ - 1]
    /\ NextPoint(t, e)
    /\ UNCHANGED <<timeline, fence, points, fences, table, fbLock, misr, woken, alive>>

LEMMA PointReleaseKeeps ==
    ASSUME Inv, NEW t \in Threads, th[t].pc = "relPt", NEW p, p = Head(th[t].todo),
           NEW e \in BOOLEAN, DropsSpare(t, p, e)
    PROVE  Inv'
<1>0. UNCHANGED <<timeline, fence, points, fences, table, fbLock, misr, woken, alive>>
  BY DEF DropsSpare
<1>1. PICK d : d = Tail(th[t].todo)
  OBVIOUS
<1>2. /\ p \in Points /\ d \in Seq(Points) /\ NoRepeats(d) /\ th[t].todo # <<>>
      /\ point[p].ref > 0 /\ point[p].life = "live"
      /\ ~Has(d, p) /\ \A q : Keeps(th[t], q) <=> q = p \/ Has(d, q)
      /\ th[t].got = <<>>
  <2>1. Released(th[t], p, d)
    BY <1>1, ReleasedPoint
  <2>2. QED
    BY <2>1 DEF Released
<1>3. /\ point' \in [Points -> PointRec]
      /\ point'[p].ref = point[p].ref - 1 /\ point[p].ref \in Nat
      /\ \A q \in Points : q # p => point'[q] = point[q]
      /\ \A q \in Points :
            /\ point'[q].tl = point[q].tl /\ point'[q].seq = point[q].seq
            /\ point'[q].life = point[q].life /\ point'[q].status = point[q].status
            /\ point'[q].attached = point[q].attached
            /\ point'[q].ref \in Nat /\ point'[q].ref <= point[q].ref
      /\ Structural /\ OldTimelines(t)
  BY <1>0, <1>2, PointDropped DEF DropsSpare
<1>4. th' \in [Threads -> ThreadRec] /\ Moved(t) /\ Relieved(th'[t], d)
  BY <1>1, <1>2, NextPointIs DEF DropsSpare
<1>5. PICK s : s = th'[t]
  OBVIOUS
<1>6. /\ Shape(s) /\ s.pc \in {"idle", "relPt"} /\ s.got = <<>>
      /\ \A q : Keeps(s, q) <=> Has(d, q)
      /\ \A q : ~Unlists(s, q)
      /\ \A tl : ~Frees(s, tl)
  BY <1>2, <1>4, <1>5, RelievedShape
<1>7. Retiring(t)
  BY <1>0, <1>3, <1>4, <1>5, <1>6 DEF Retiring, Retire
<1>8. Typed'
  BY <1>0, <1>3, <1>4 DEF Inv, Typed
<1>9. /\ point'[p].ref > 0 /\ point'[p].ref # 0
      /\ point[p].ref # 0 /\ ~(point[p].ref <= 1)
  <2>1. point[p].ref > 1
    BY DEF DropsSpare
  <2>2. QED
    BY <1>3, <2>1
<1>10. LifeOK'
  <2>1. \A q \in Points : point[q].life # "live" =>
            point[q].status = "unsignalled" /\ point[q].ref = 0
    BY DEF Inv, LifeOK
  <2>2. \A q \in table' : point[q].life = "live"
    BY <1>0 DEF Inv, Typed, LifeOK
  <2>3. \A f \in Fences : fence[f].life # "live" =>
            fence[f].pts = <<>> /\ fence[f].handles = {} /\ fence[f].ref = 0
    BY DEF Inv, LifeOK
  <2>4. \A q \in Points : point[q].life # "live" =>
            point'[q].status = "unsignalled" /\ point'[q].ref = 0
    <3>1. ASSUME NEW q \in Points, point[q].life # "live"
          PROVE  point'[q].status = "unsignalled" /\ point'[q].ref = 0
      <4>1. q # p
        BY <1>2, <3>1
      <4>2. QED
        BY <1>3, <2>1, <3>1, <4>1
    <3>2. QED
      BY <3>1
  <2>5. QED
    BY <1>0, <1>3, <2>2, <2>3, <2>4, LifeKept
<1>11. PointRefs'
  <2>1. \A q : Keeps(th[t], q) <=> q = p \/ Keeps(th'[t], q)
    BY <1>2, <1>5, <1>6
  <2>2. ~Keeps(th'[t], p)
    BY <1>2, <1>5, <1>6
  <2>3. p \in Points /\ Moved(t) /\ fence' = fence
    BY <1>0, <1>2, <1>4
  <2>4. /\ point'[p].ref = point[p].ref - 1
        /\ \A q \in Points : q # p => point'[q] = point[q]
    BY <1>3
  <2>5. QED
    BY <2>1, <2>2, <2>3, <2>4, DroppedRefs
<1>12. TimelineRefs'
  <2>1. \A u \in Threads, tl \in Timelines : Frees(th'[u], tl) => Frees(th[u], tl)
    BY <1>4, <1>5, <1>6 DEF Moved
  <2>2. QED
    BY <1>0, <1>3, <2>1, TimelineRefsStill DEF SameTimelines
<1>13. UnlistOK'
  <2>1. \A u \in Threads, q \in Points : Unlists(th'[u], q) <=> Unlists(th[u], q)
    BY <1>4, <1>5, <1>6 DEF Moved, Unlists
  <2>2. \A q \in Points : point'[q].ref = 0 <=> point[q].ref = 0
    <3>1. ASSUME NEW q \in Points
          PROVE  point'[q].ref = 0 <=> point[q].ref = 0
      <4>1. CASE q = p
        BY <1>9, <4>1
      <4>2. CASE q # p
        BY <1>3, <4>2
      <4>3. QED
        BY <4>1, <4>2
    <3>2. QED
      BY <3>1
  <2>3. QED
    BY <1>0, <1>3, <2>1, <2>2, UnlistKept
<1>14. SyncOK'
  <2>1. \A f \in Fences, q \in Points : Has(fence'[f].pts, q) => HasSync(q)
    BY <1>0, FencePoint
  <2>2. \A q \in table' : q \in Points /\ point'[q].ref > 0 /\ (q \in table \/ HasSync(q))
    <3>1. \A q \in table : q \in Points /\ point[q].ref > 0
      BY DEF Inv, SyncOK, Typed
    <3>2. QED
      BY <1>0, <1>3, <1>9, <3>1
  <2>3. ASSUME NEW q \in Points, Begins(th[t], q)
        PROVE  HasSync(q)
    <3>1. q = p
      BY <2>3, OneHas DEF Begins
    <3>2. ~Bare(p)
      BY <1>2, <1>9 DEF Inv, SyncOK
    <3>3. QED
      BY <1>2, <3>1, <3>2 DEF Bare
  <2>4. th'[t].pc \notin Creating /\ \A q : ~Has(th'[t].got, q)
    BY <1>5, <1>6, EmptyHas DEF Creating
  <2>5. QED
    BY <1>0, <1>3, <1>4, <2>1, <2>2, <2>3, <2>4, SyncMoved
<1>15. QED
  BY <1>0, <1>7, <1>8, <1>10, <1>11, <1>12, <1>13, <1>14, RetireStep

\* A thread drops a point's last reference, and has to take it off its timeline.
DropsLast(t, p, e) ==
    /\ point[p].ref = 1 /\ point' = [point EXCEPT ![p].ref = @ - 1]
    /\ th' = [th EXCEPT ![t].err = e, ![t].pc = "unlist"]

LEMMA PointReleaseLast ==
    ASSUME Inv, NEW t \in Threads, th[t].pc = "relPt", NEW p, p = Head(th[t].todo),
           NEW e \in BOOLEAN, DropsLast(t, p, e),
           table' = table \ {p},
           UNCHANGED <<timeline, fence, points, fences, fbLock, misr, woken, alive>>
    PROVE  Inv'
<1>1. PICK d : d = Tail(th[t].todo)
  OBVIOUS
<1>2. /\ p \in Points /\ d \in Seq(Points) /\ NoRepeats(d) /\ th[t].todo # <<>>
      /\ point[p].ref > 0 /\ point[p].life = "live"
      /\ ~Has(d, p) /\ \A q : Keeps(th[t], q) <=> q = p \/ Has(d, q)
      /\ th[t].got = <<>>
  <2>1. Released(th[t], p, d)
    BY <1>1, ReleasedPoint
  <2>2. QED
    BY <2>1 DEF Released
<1>3. /\ point' \in [Points -> PointRec]
      /\ point'[p].ref = point[p].ref - 1 /\ point[p].ref \in Nat
      /\ \A q \in Points : q # p => point'[q] = point[q]
      /\ \A q \in Points :
            /\ point'[q].tl = point[q].tl /\ point'[q].seq = point[q].seq
            /\ point'[q].life = point[q].life /\ point'[q].status = point[q].status
            /\ point'[q].attached = point[q].attached
            /\ point'[q].ref \in Nat /\ point'[q].ref <= point[q].ref
      /\ Structural /\ OldTimelines(t)
  BY <1>2, PointDropped DEF DropsLast
<1>4. PICK s : s = [th[t] EXCEPT !.err = e, !.pc = "unlist"]
  OBVIOUS
<1>5. /\ s \in ThreadRec /\ s.pc = "unlist" /\ s.todo = th[t].todo /\ s.got = th[t].got
      /\ s.op = th[t].op /\ s.looked = th[t].looked
  BY <1>4, ThreadIs DEF ThreadRec, PCs
<1>6. th' \in [Threads -> ThreadRec] /\ th'[t] = s /\ Moved(t)
  <2>1. th \in [Threads -> ThreadRec]
    BY DEF Inv, Typed
  <2>2. th' = [th EXCEPT ![t] = s]
    BY <1>4, <2>1 DEF DropsLast
  <2>3. QED
    BY <1>5, <2>2, ThreadMoves
<1>7. Shape(s)
  <2>1. Shape(th[t])
    BY ThreadIs
  <2>2. QED
    BY <1>2, <1>5, <2>1 DEF Shape, Creating, Looking, Waiting
<1>8. \A q : Keeps(s, q) <=> Has(d, q)
  BY <1>1, <1>2, <1>5, EmptyHas DEF Keeps, Owed, Creating
<1>9. Retiring(t)
  BY <1>3, <1>5, <1>6, <1>7 DEF Retiring, Retire
<1>10. Typed'
  BY <1>3, <1>6 DEF Inv, Typed
<1>11. point'[p].ref = 0
  <2>1. point[p].ref = 1
    BY DEF DropsLast
  <2>2. QED
    BY <1>3, <2>1
<1>12. LifeOK'
  <2>1. \A q \in Points : point[q].life # "live" =>
            point[q].status = "unsignalled" /\ point[q].ref = 0
    BY DEF Inv, LifeOK
  <2>2. \A q \in table' : point[q].life = "live"
    BY DEF Inv, Typed, LifeOK
  <2>3. \A f \in Fences : fence[f].life # "live" =>
            fence[f].pts = <<>> /\ fence[f].handles = {} /\ fence[f].ref = 0
    BY DEF Inv, LifeOK
  <2>4. \A q \in Points : point[q].life # "live" =>
            point'[q].status = "unsignalled" /\ point'[q].ref = 0
    BY <1>2, <1>3, <2>1
  <2>5. QED
    BY <1>3, <2>2, <2>3, <2>4, LifeKept
<1>13. PointRefs'
  <2>1. \A q : Keeps(th[t], q) <=> q = p \/ Keeps(th'[t], q)
    BY <1>2, <1>6, <1>8
  <2>2. ~Keeps(th'[t], p)
    BY <1>2, <1>6, <1>8
  <2>3. p \in Points /\ Moved(t) /\ fence' = fence
    BY <1>2, <1>6
  <2>4. /\ point'[p].ref = point[p].ref - 1
        /\ \A q \in Points : q # p => point'[q] = point[q]
    BY <1>3
  <2>5. QED
    BY <2>1, <2>2, <2>3, <2>4, DroppedRefs
<1>14. TimelineRefs'
  <2>1. \A u \in Threads, tl \in Timelines : Frees(th'[u], tl) => Frees(th[u], tl)
    BY <1>5, <1>6 DEF Moved, Frees
  <2>2. QED
    BY <1>3, <2>1, TimelineRefsStill DEF SameTimelines
<1>15. UnlistOK'
  <2>1. \A q : Unlists(s, q) <=> q = p
    BY <1>5 DEF Unlists
  <2>2. \A u \in Threads : ~Unlists(th[u], p)
    BY <1>2 DEF Inv, UnlistOK
  <2>3. \A q : ~Unlists(th[t], q)
    BY DEF Unlists
  <2>4. ASSUME NEW u \in Threads, NEW q \in Points, Unlists(th'[u], q)
        PROVE  /\ point'[q].life = "live" /\ point'[q].ref = 0
               /\ \A v \in Threads : Unlists(th'[v], q) => v = u
    <3>1. CASE u = t
      <4>1. q = p
        BY <1>6, <2>1, <2>4, <3>1
      <4>2. point'[q].life = "live" /\ point'[q].ref = 0
        BY <1>2, <1>3, <1>11, <4>1
      <4>3. ASSUME NEW v \in Threads, v # t
            PROVE  ~Unlists(th'[v], q)
        BY <1>6, <2>2, <4>1, <4>3 DEF Moved
      <4>4. QED
        BY <3>1, <4>2, <4>3
    <3>2. CASE u # t
      <4>1. Unlists(th[u], q)
        BY <1>6, <2>4, <3>2 DEF Moved
      <4>2. q # p
        BY <2>2, <4>1
      <4>3. /\ point[q].life = "live" /\ point[q].ref = 0
            /\ \A v \in Threads : Unlists(th[v], q) => v = u
        BY <4>1 DEF Inv, UnlistOK
      <4>4. QED
        BY <1>3, <1>6, <2>1, <4>2, <4>3 DEF Moved
    <3>3. QED
      BY <3>1, <3>2
  <2>5. ASSUME NEW q \in Points, point'[q].life = "live", point'[q].ref = 0
        PROVE  \E u \in Threads : Unlists(th'[u], q)
    <3>1. CASE q = p
      BY <1>6, <2>1, <3>1
    <3>2. CASE q # p
      <4>1. PICK u \in Threads : Unlists(th[u], q)
        BY <1>3, <2>5, <3>2 DEF Inv, UnlistOK
      <4>2. u # t
        BY <2>3, <4>1
      <4>3. QED
        BY <1>6, <4>1, <4>2 DEF Moved
    <3>3. QED
      BY <3>1, <3>2
  <2>6. QED
    BY <2>4, <2>5 DEF UnlistOK
<1>16. SyncOK'
  <2>1. \A f \in Fences, q \in Points : Has(fence'[f].pts, q) => HasSync(q)
    BY FencePoint
  <2>2. \A q \in table' : q \in Points /\ point'[q].ref > 0 /\ (q \in table \/ HasSync(q))
    <3>1. \A q \in table : q \in Points /\ point[q].ref > 0
      BY DEF Inv, SyncOK, Typed
    <3>2. QED
      BY <1>3, <3>1
  <2>3. \A q \in Points : Begins(th[t], q) => Begins(th'[t], q)
    BY <1>5, <1>6 DEF Begins
  <2>4. th'[t].pc \notin Creating /\ \A q : ~Has(th'[t].got, q)
    BY <1>2, <1>5, <1>6, EmptyHas DEF Creating
  <2>5. QED
    BY <1>3, <1>6, <2>1, <2>2, <2>3, <2>4, SyncMoved
<1>17. QED
  BY <1>9, <1>10, <1>12, <1>13, <1>14, <1>15, <1>16, RetireStep

LEMMA PointReleaseStep ==
    ASSUME Inv, NEW t \in Threads, PointRelease(t)
    PROVE  Inv'
<1>1. PICK p : p = Head(th[t].todo)
  OBVIOUS
<1>2. /\ th[t].pc = "relPt" /\ point' = [point EXCEPT ![p].ref = @ - 1]
      /\ UNCHANGED <<timeline, fence, points, fences, fbLock, misr, woken, alive>>
  BY <1>1 DEF PointRelease
<1>3. PICK e : e = BecomesError(t, p)
  OBVIOUS
<1>4. e \in BOOLEAN
  BY <1>3, ThreadIs DEF BecomesError
<1>5. CASE /\ point[p].ref = 1 /\ table' = table \ {p}
           /\ th' = [th EXCEPT ![t].err = BecomesError(t, p), ![t].pc = "unlist"]
  <2>1. DropsLast(t, p, e)
    BY <1>2, <1>3, <1>5 DEF DropsLast
  <2>2. QED
    BY <1>1, <1>2, <1>4, <1>5, <2>1, PointReleaseLast
<1>6. CASE point[p].ref > 1 /\ NextPoint(t, BecomesError(t, p)) /\ UNCHANGED table
  <2>1. DropsSpare(t, p, e)
    BY <1>2, <1>3, <1>6 DEF DropsSpare
  <2>2. QED
    BY <1>1, <1>2, <1>4, <2>1, PointReleaseKeeps
<1>7. QED
  BY <1>1, <1>5, <1>6 DEF PointRelease

Unlisted(t, p) ==
    /\ p \in Points /\ th[t].todo # <<>> /\ th[t].op = "none"
    /\ point[p].life = "live" /\ point[p].ref = 0
    /\ Unlists(th[t], p) /\ (\A q : Unlists(th[t], q) => q = p)
    /\ \A u \in Threads : Unlists(th[u], p) => u = t

LEMMA UnlistedPoint ==
    ASSUME Inv, NEW t \in Threads, th[t].pc = "unlist"
    PROVE  Unlisted(t, Head(th[t].todo))
<1>0. PICK p : p = Head(th[t].todo)
  OBVIOUS
<1>1. /\ Shape(th[t]) /\ th[t].op \in {"none", "merge", "resolve"}
  BY ThreadIs
<1>2. th[t].todo # <<>> /\ th[t].op = "none"
  BY <1>1 DEF Shape, Looking
<1>3. p \in Points
  BY <1>0, <1>2, TodoIs
<1>4. Unlists(th[t], p) /\ \A q : Unlists(th[t], q) => q = p
  BY <1>0 DEF Unlists
<1>5. /\ point[p].life = "live" /\ point[p].ref = 0
      /\ \A u \in Threads : Unlists(th[u], p) => u = t
  BY <1>3, <1>4 DEF Inv, UnlistOK
<1>6. Unlisted(t, p)
  BY <1>2, <1>3, <1>4, <1>5 DEF Unlisted
<1>7. QED
  BY <1>0, <1>6

\* The next place: the timeline, or the points that are left.
LEMMA UnlistMoves ==
    ASSUME Inv, NEW t \in Threads, th[t].pc = "unlist", NEW tl \in Timelines, NEW last \in BOOLEAN,
           IF last THEN th' = [th EXCEPT ![t].pc = "freeTl", ![t].tl = tl]
           ELSE NextPoint(t, th[t].err)
    PROVE  /\ th' \in [Threads -> ThreadRec] /\ Moved(t) /\ Shape(th'[t])
           /\ th'[t].pc \in {"idle", "relPt", "freeTl"} /\ th'[t].got = <<>>
           /\ \A q : Keeps(th'[t], q) <=> Keeps(th[t], q)
           /\ \A q : ~Unlists(th'[t], q)
           /\ \A x : Frees(th'[t], x) => last /\ x = tl
<1>1. PICK p, d : p = Head(th[t].todo) /\ d = Tail(th[t].todo)
  OBVIOUS
<1>2. /\ Shape(th[t]) /\ th[t].todo # <<>> /\ th[t].op = "none" /\ th[t].got = <<>>
      /\ th[t].looked = {} /\ th[t] \in ThreadRec
  <2>1. /\ Shape(th[t]) /\ th[t] \in ThreadRec
    BY ThreadIs
  <2>2. th[t].todo # <<>> /\ th[t].op = "none"
    BY UnlistedPoint DEF Unlisted
  <2>3. QED
    BY <2>1, <2>2 DEF Shape, Looking, Waiting
<1>3. d \in Seq(Points) /\ NoRepeats(d)
  BY <1>1, <1>2, TodoIs
<1>4. \A q : Keeps(th[t], q) <=> Has(d, q)
  BY <1>1, <1>2, EmptyHas DEF Keeps, Owed, Creating
<1>5. CASE last
  <2>1. PICK s : s = [th[t] EXCEPT !.pc = "freeTl", !.tl = tl]
    OBVIOUS
  <2>2. /\ s \in ThreadRec /\ s.pc = "freeTl" /\ s.todo = th[t].todo /\ s.got = th[t].got
        /\ s.op = th[t].op /\ s.looked = th[t].looked /\ s.tl = tl
    BY <1>2, <2>1 DEF ThreadRec, PCs
  <2>3. th' \in [Threads -> ThreadRec] /\ th'[t] = s /\ Moved(t)
    <3>1. th \in [Threads -> ThreadRec]
      BY DEF Inv, Typed
    <3>2. th' = [th EXCEPT ![t] = s]
      BY <1>5, <2>1, <3>1
    <3>3. QED
      BY <2>2, <3>2, ThreadMoves
  <2>4. Shape(s)
    BY <1>2, <2>2 DEF Shape, Creating, Looking, Waiting
  <2>5. \A q : Keeps(s, q) <=> Has(d, q)
    BY <1>1, <1>2, <2>2, EmptyHas DEF Keeps, Owed, Creating
  <2>6. (\A q : ~Unlists(s, q)) /\ \A x : Frees(s, x) => x = tl
    BY <2>2 DEF Unlists, Frees
  <2>7. QED
    BY <1>2, <1>4, <1>5, <2>2, <2>3, <2>4, <2>5, <2>6
<1>6. CASE ~last
  <2>1. th[t].err \in BOOLEAN
    BY ThreadIs
  <2>2. th' \in [Threads -> ThreadRec] /\ Moved(t) /\ Relieved(th'[t], d)
    BY <1>1, <1>2, <1>6, <2>1, NextPointIs
  <2>3. PICK s : s = th'[t]
    OBVIOUS
  <2>4. /\ Shape(s) /\ s.pc \in {"idle", "relPt"} /\ s.got = <<>>
        /\ \A q : Keeps(s, q) <=> Has(d, q)
        /\ \A q : ~Unlists(s, q)
        /\ \A x : ~Frees(s, x)
    BY <1>3, <2>2, <2>3, RelievedShape
  <2>5. QED
    BY <1>4, <2>2, <2>3, <2>4
<1>7. QED
  BY <1>5, <1>6

\* The counts of a timeline.
LEMMA TimelineCounts ==
    ASSUME Inv, NEW tl \in Timelines
    PROVE  /\ IsFiniteSet(PointsOn(tl)) /\ Cardinality(PointsOn(tl)) \in Nat
           /\ timeline[tl].ref \in Nat /\ timeline[tl].handle \in BOOLEAN
           /\ timeline[tl].handle => timeline[tl].ref = Cardinality(PointsOn(tl)) + 1
           /\ ~timeline[tl].handle => timeline[tl].ref = Cardinality(PointsOn(tl))
           /\ timeline[tl].ref > 0 => timeline[tl].life = "live"
           /\ \A t \in Threads : Frees(th[t], tl) => timeline[tl].ref = 0
<1>1. /\ timeline[tl].ref = Cardinality(PointsOn(tl)) + IF timeline[tl].handle THEN 1 ELSE 0
      /\ timeline[tl].ref > 0 => timeline[tl].life = "live"
      /\ \A t \in Threads : Frees(th[t], tl) => timeline[tl].ref = 0
  BY DEF Inv, TimelineRefs
<1>2. IsFiniteSet(PointsOn(tl)) /\ Cardinality(PointsOn(tl)) \in Nat
  BY FiniteCounts, FewNone
<1>3. timeline[tl].ref \in Nat /\ timeline[tl].handle \in BOOLEAN
  BY TimelineIs
<1>4. QED
  BY <1>1, <1>2, <1>3

LEMMA UnlistPointStep ==
    ASSUME Inv, NEW t \in Threads, UnlistPoint(t)
    PROVE  Inv'
<1>1. PICK p : p = Head(th[t].todo)
  OBVIOUS
<1>2. /\ th[t].pc = "unlist"
      /\ timeline' = [timeline EXCEPT ![Tl(p)].active = StillListed(@, p),
                                    ![Tl(p)].ref = @ - 1]
      /\ point' = [point EXCEPT ![p] = [NoPoint EXCEPT !.life = "freed", !.tl = Tl(p),
          !.attached = IF th[t].err THEN Signalled(point[p].attached, "errored") ELSE <<>>]]
      /\ IF timeline[Tl(p)].ref = 1
         THEN th' = [th EXCEPT ![t].pc = "freeTl", ![t].tl = Tl(p)]
         ELSE NextPoint(t, th[t].err)
      /\ UNCHANGED <<fence, points, fences, table, fbLock, misr, woken, alive>>
  BY <1>1 DEF UnlistPoint
<1>3. PICK tl : tl = Tl(p)
  OBVIOUS
<1>4. /\ p \in Points /\ point[p].life = "live" /\ point[p].ref = 0
      /\ Unlists(th[t], p) /\ (\A q : Unlists(th[t], q) => q = p)
      /\ \A u \in Threads : Unlists(th[u], p) => u = t
      /\ th[t].todo # <<>>
  <2>1. th[t].pc = "unlist"
    BY <1>2
  <2>2. Unlisted(t, p)
    BY <1>1, <2>1, UnlistedPoint
  <2>3. QED
    BY <2>2 DEF Unlisted
<1>5. tl \in Timelines /\ timeline[tl].ref > 0
  BY <1>3, <1>4, LiveTimeline DEF Tl
<1>6. PICK last : last = (timeline[tl].ref = 1)
  OBVIOUS
<1>7. /\ th' \in [Threads -> ThreadRec] /\ Moved(t) /\ Shape(th'[t])
      /\ th'[t].pc \in {"idle", "relPt", "freeTl"} /\ th'[t].got = <<>>
      /\ \A q : Keeps(th'[t], q) <=> Keeps(th[t], q)
      /\ \A q : ~Unlists(th'[t], q)
      /\ \A x : Frees(th'[t], x) => last /\ x = tl
  <2>1. last \in BOOLEAN
    BY <1>6
  <2>2. IF last THEN th' = [th EXCEPT ![t].pc = "freeTl", ![t].tl = tl]
        ELSE NextPoint(t, th[t].err)
    BY <1>2, <1>3, <1>6
  <2>3. QED
    BY <1>2, <1>5, <2>1, <2>2, UnlistMoves
<1>8. PICK r : r = [timeline[tl] EXCEPT !.active = StillListed(@, p), !.ref = @ - 1]
  OBVIOUS
<1>9. /\ StillListed(timeline[tl].active, p) \in Seq(Points)
      /\ \A q : Has(StillListed(timeline[tl].active, p), q)
                <=> Has(timeline[tl].active, q) /\ q # p
  <2>1. timeline[tl].active \in Seq(Points)
    BY <1>5, TimelineIs
  <2>2. QED
    BY <2>1, WithoutIs DEF StillListed
<1>10. /\ r \in TimelineRec /\ r.life = timeline[tl].life /\ r.ref = timeline[tl].ref - 1
       /\ r.seq = timeline[tl].seq /\ r.last = timeline[tl].last
       /\ r.handle = timeline[tl].handle /\ r.lock = timeline[tl].lock
       /\ \A q : Has(r.active, q) <=> Has(timeline[tl].active, q) /\ q # p
  <2>1. timeline[tl].ref - 1 \in Nat
    BY <1>5, TimelineIs
  <2>2. timeline[tl] \in TimelineRec
    BY <1>5, TimelineIs
  <2>3. r \in TimelineRec /\ r.active = StillListed(timeline[tl].active, p)
    BY <1>8, <1>9, <2>1, <2>2 DEF TimelineRec
  <2>4. /\ r.life = timeline[tl].life /\ r.ref = timeline[tl].ref - 1
        /\ r.seq = timeline[tl].seq /\ r.last = timeline[tl].last
        /\ r.handle = timeline[tl].handle /\ r.lock = timeline[tl].lock
    BY <1>8, <2>2 DEF TimelineRec
  <2>5. QED
    BY <1>9, <2>3, <2>4
<1>11. /\ timeline' \in [Timelines -> TimelineRec] /\ timeline'[tl] = r
       /\ \A x \in Timelines : x # tl => timeline'[x] = timeline[x]
  <2>1. timeline \in [Timelines -> TimelineRec]
    BY DEF Inv, Typed
  <2>2. timeline' = [timeline EXCEPT ![tl] = r]
    BY <1>2, <1>3, <1>5, <1>8, <2>1
  <2>3. QED
    BY <1>5, <1>10, <2>1, <2>2
<1>12. PICK a : a = IF th[t].err THEN Signalled(point[p].attached, "errored") ELSE <<>>
  OBVIOUS
<1>13. a \in Seq(Attached)
  <2>1. point[p].attached \in Seq(Attached)
    BY <1>4, PointIs
  <2>2. Signalled(point[p].attached, "errored") \in Seq(Attached)
    <3>1. PICK c : c = point[p].attached
      OBVIOUS
    <3>2. c \in Seq(Attached) /\ Len(c) \in Nat /\ DOMAIN c = 1..Len(c)
      BY <2>1, <3>1
    <3>3. \A i \in 1..Len(c) : SignalSync(c[i], "errored") \in Attached
      <4>1. ASSUME NEW x \in Attached PROVE SignalSync(x, "errored") \in Attached
        BY DEF SignalSync, Attached, States
      <4>2. \A i \in 1..Len(c) : c[i] \in Attached
        BY <3>2
      <4>3. QED
        BY <4>1, <4>2
    <3>4. [i \in 1..Len(c) |-> SignalSync(c[i], "errored")] \in [1..Len(c) -> Attached]
      BY <3>3
    <3>5. [i \in 1..Len(c) |-> SignalSync(c[i], "errored")] \in Seq(Attached)
      BY <3>2, <3>4
    <3>6. QED
      BY <3>1, <3>2, <3>5 DEF Signalled
  <2>3. <<>> \in Seq(Attached)
    OBVIOUS
  <2>4. QED
    BY <1>12, <2>2, <2>3
<1>14. PICK z : z = [NoPoint EXCEPT !.life = "freed", !.tl = tl, !.attached = a]
  OBVIOUS
<1>15. /\ z \in PointRec /\ z.tl = tl /\ z.ref = 0 /\ z.life = "freed"
       /\ z.status = "unsignalled"
  <2>1. 0 \in 0..MaxPoints
    BY FallbackAssumption
  <2>2. QED
    BY <1>5, <1>13, <1>14, <2>1 DEF NoPoint, PointRec, States, Lives
<1>16. /\ point' \in [Points -> PointRec] /\ point'[p] = z
       /\ \A q \in Points : q # p => point'[q] = point[q]
  <2>1. point \in [Points -> PointRec]
    BY DEF Inv, Typed
  <2>2. point' = [point EXCEPT ![p] = z]
    BY <1>2, <1>3, <1>12, <1>14
  <2>3. QED
    BY <1>4, <1>15, <2>1, <2>2
<1>17. Structural
  <2>1. \A q \in Points : point[q].ref > 0 => point[q].life = "live" /\ q # p
    BY <1>4, PointIs
  <2>2. \A q \in Points : point'[q].life = "live" => point'[q] = point[q]
    BY <1>15, <1>16
  <2>3. \A q \in Points : point'[q].life # "live" => point'[q].status = "unsignalled"
    BY <1>15, <1>16 DEF Inv, LifeOK
  <2>4. \A q \in Points : point[q].ref > 0 =>
            (HasSync(q) => HasSync(q)') /\ (NativeSignalled(q) => NativeSignalled(q)')
    BY <1>16, <2>1 DEF HasSync, NativeSignalled, NativeState
  <2>5. Stable
    <3>1. \A q \in Points : point[q].ref > 0 => point'[q] = point[q]
      BY <1>16, <2>1
    <3>2. \A q \in Points : point[q].life # "none" =>
             /\ point'[q].life # "none" /\ point'[q].tl = point[q].tl
             /\ (point[q].ref = 0 => point'[q].ref = 0)
      BY <1>3, <1>4, <1>15, <1>16 DEF Tl
    <3>3. QED
      BY <1>2, <2>4, <3>1, <3>2 DEF Stable
  <2>6. \A q \in Points : point[q].ref > 0 =>
            point'[q].attached = point[q].attached /\ point'[q].life = "live"
    BY <1>16, <2>1
  <2>7. OldPlaces /\ OldSyncs
    BY <2>2 DEF OldPlaces, OldSyncs
  <2>8. QED
    BY <1>2, <2>3, <2>5, <2>6, <2>7 DEF Structural
<1>18. OldTimelines(t)
  <2>1. \A x \in Timelines :
          /\ timeline'[x].seq = timeline[x].seq /\ timeline'[x].last = timeline[x].last
          /\ timeline'[x].lock = timeline[x].lock
          /\ \A q : Has(timeline'[x].active, q) => Has(timeline[x].active, q) /\ (x = tl => q # p)
          /\ \A q : Has(timeline[x].active, q) /\ q # p => Has(timeline'[x].active, q)
    BY <1>10, <1>11
  <2>2. ASSUME NEW x \in Timelines, NEW q \in Points, Has(timeline'[x].active, q)
        PROVE  point'[q].life = "live"
    <3>1. Has(timeline[x].active, q) /\ (x = tl => q # p)
      BY <2>1, <2>2
    <3>2. point[q].life = "live" /\ Tl(q) = x
      BY <3>1 DEF Inv, ActiveOK
    <3>3. q # p
      BY <1>3, <3>1, <3>2
    <3>4. QED
      BY <1>16, <3>2, <3>3
  <2>3. \A q \in Points : point'[q].life = "live" => point[q].tl \in Timelines /\ q # p
    BY <1>15, <1>16, <1>17, LiveTimeline DEF Structural, OldPlaces
  <2>4. QED
    BY <2>1, <2>2, <2>3 DEF OldTimelines, Inv, SeqOK
<1>19. Retiring(t)
  BY <1>2, <1>7, <1>17, <1>18 DEF Retiring, Retire
<1>20. Typed'
  BY <1>2, <1>7, <1>11, <1>16 DEF Inv, Typed
<1>21. LifeOK'
  <2>1. \A q \in Points : point'[q].life = "none" <=> q > points'
    BY <1>2, <1>4, <1>15, <1>16 DEF Inv, LifeOK
  <2>2. p \notin table
    BY <1>4 DEF Inv, SyncOK
  <2>3. \A q \in Points : point'[q].life # "live" =>
            point'[q].status = "unsignalled" /\ q \notin table' /\ point'[q].ref = 0
    BY <1>2, <1>15, <1>16, <2>2 DEF Inv, LifeOK
  <2>4. QED
    BY <1>2, <2>1, <2>3 DEF Inv, LifeOK
<1>22. PointRefs'
  <2>1. \A q \in Points : point'[q].ref = point[q].ref
    BY <1>4, <1>15, <1>16
  <2>2. QED
    BY <1>2, <1>7, <2>1, PointRefsSame
<1>23. TimelineRefs'
  <2>1. ASSUME NEW x \in Timelines
        PROVE  /\ timeline'[x].ref = Cardinality(PointsOn(x)')
                                     + IF timeline'[x].handle THEN 1 ELSE 0
               /\ timeline'[x].ref > 0 => timeline'[x].life = "live"
               /\ \A u \in Threads : Frees(th'[u], x) => timeline'[x].ref = 0
    <3>1. /\ IsFiniteSet(PointsOn(x)) /\ Cardinality(PointsOn(x)) \in Nat
          /\ timeline[x].ref \in Nat /\ timeline[x].handle \in BOOLEAN
          /\ timeline[x].handle => timeline[x].ref = Cardinality(PointsOn(x)) + 1
          /\ ~timeline[x].handle => timeline[x].ref = Cardinality(PointsOn(x))
          /\ timeline[x].ref > 0 => timeline[x].life = "live"
          /\ \A u \in Threads : Frees(th[u], x) => timeline[x].ref = 0
      BY TimelineCounts
    <3>2. CASE x = tl
      <4>1. PointsOn(x)' = PointsOn(x) \ {p}
        BY <1>15, <1>16, <3>2 DEF PointsOn
      <4>2. p \in PointsOn(x)
        BY <1>3, <1>4, <3>2 DEF PointsOn, Tl
      <4>3. Cardinality(PointsOn(x)') = Cardinality(PointsOn(x)) - 1
        BY <3>1, <4>1, <4>2, OneLess
      <4>4. timeline'[x].ref = timeline[x].ref - 1 /\ timeline'[x].handle = timeline[x].handle
            /\ timeline'[x].life = timeline[x].life
        BY <1>10, <1>11, <3>2
      <4>5. timeline'[x].ref = Cardinality(PointsOn(x)')
                               + IF timeline'[x].handle THEN 1 ELSE 0
        <5>1. CASE timeline[x].handle
          BY <3>1, <4>3, <4>4, <5>1
        <5>2. CASE ~timeline[x].handle
          BY <3>1, <4>3, <4>4, <5>2
        <5>3. QED
          BY <5>1, <5>2
      <4>6. timeline[x].ref > 0 /\ timeline'[x].life = "live"
        BY <1>5, <3>1, <3>2, <4>4
      <4>7. ASSUME NEW u \in Threads, Frees(th'[u], x)
            PROVE  timeline'[x].ref = 0
        <5>1. CASE u = t
          <6>1. timeline[x].ref = 1
            BY <1>6, <1>7, <3>2, <4>7, <5>1
          <6>2. QED
            BY <4>4, <6>1
        <5>2. CASE u # t
          <6>1. timeline[x].ref = 0
            BY <1>7, <3>1, <4>7, <5>2 DEF Moved
          <6>2. QED
            BY <4>6, <6>1
        <5>3. QED
          BY <5>1, <5>2
      <4>8. QED
        BY <4>5, <4>6, <4>7
    <3>3. CASE x # tl
      <4>1. PointsOn(x)' = PointsOn(x)
        <5>1. point[p].tl # x /\ point'[p].life # "live"
          BY <1>3, <1>15, <1>16, <3>3 DEF Tl
        <5>2. QED
          BY <1>16, <5>1 DEF PointsOn
      <4>2. timeline'[x] = timeline[x]
        BY <1>11, <3>3
      <4>3. \A u \in Threads : Frees(th'[u], x) => Frees(th[u], x)
        BY <1>7, <3>3 DEF Moved
      <4>4. QED
        BY <4>1, <4>2, <4>3 DEF Inv, TimelineRefs
    <3>4. QED
      BY <3>2, <3>3
  <2>2. QED
    BY <2>1 DEF TimelineRefs
<1>24. UnlistOK'
  <2>1. ASSUME NEW u \in Threads, NEW q \in Points, Unlists(th'[u], q)
        PROVE  /\ point'[q].life = "live" /\ point'[q].ref = 0
               /\ \A v \in Threads : Unlists(th'[v], q) => v = u
    <3>1. u # t
      BY <1>7, <2>1
    <3>2. Unlists(th[u], q)
      BY <1>7, <2>1, <3>1 DEF Moved
    <3>3. q # p
      BY <1>4, <3>1, <3>2
    <3>4. /\ point[q].life = "live" /\ point[q].ref = 0
          /\ \A v \in Threads : Unlists(th[v], q) => v = u
      BY <3>2 DEF Inv, UnlistOK
    <3>5. QED
      BY <1>7, <1>16, <3>3, <3>4 DEF Moved
  <2>2. ASSUME NEW q \in Points, point'[q].life = "live", point'[q].ref = 0
        PROVE  \E u \in Threads : Unlists(th'[u], q)
    <3>1. q # p
      BY <1>15, <1>16, <2>2
    <3>2. PICK u \in Threads : Unlists(th[u], q)
      BY <1>16, <2>2, <3>1 DEF Inv, UnlistOK
    <3>3. u # t
      BY <1>4, <3>1, <3>2
    <3>4. QED
      BY <1>7, <3>2, <3>3 DEF Moved
  <2>3. QED
    BY <2>1, <2>2 DEF UnlistOK
<1>25. SyncOK'
  <2>1. \A q \in Points : point'[q].ref \in Nat /\ point'[q].ref <= point[q].ref
    BY <1>4, <1>15, <1>16, PointIs
  <2>2. \A f \in Fences, q \in Points : Has(fence'[f].pts, q) => HasSync(q)
    BY <1>2, FencePoint
  <2>3. \A q \in table' : q \in Points /\ point'[q].ref > 0 /\ (q \in table \/ HasSync(q))
    <3>1. \A q \in table : q \in Points /\ point[q].ref > 0 /\ q # p
      BY <1>4 DEF Inv, SyncOK, Typed
    <3>2. QED
      BY <1>2, <1>16, <3>1
  <2>4. \A q \in Points : Begins(th[t], q) => point'[q].life # "live"
    <3>1. ASSUME NEW q \in Points, Begins(th[t], q) PROVE q = p
      BY <1>1, <3>1, OneHas DEF Begins
    <3>2. QED
      BY <1>15, <1>16, <3>1
  <2>5. th'[t].pc \notin Creating /\ \A q : ~Has(th'[t].got, q)
    BY <1>7, EmptyHas DEF Creating
  <2>6. QED
    BY <1>7, <1>17, <2>1, <2>2, <2>3, <2>4, <2>5, SyncMoved
<1>26. QED
  BY <1>19, <1>20, <1>21, <1>22, <1>23, <1>24, <1>25, RetireStep

\* The counts of the timelines, when one of them changes.
LEMMA TimelineRefsMoved ==
    ASSUME Inv, NEW tl \in Timelines, NEW t \in Threads, Moved(t), point' = point,
           \A x \in Timelines : x # tl => timeline'[x] = timeline[x],
           timeline'[tl].ref = Cardinality(PointsOn(tl)) + IF timeline'[tl].handle THEN 1 ELSE 0,
           timeline'[tl].ref > 0 => timeline'[tl].life = "live",
           \A u \in Threads \ {t} : Frees(th[u], tl) => timeline'[tl].ref = 0,
           \A x : Frees(th'[t], x) => x = tl /\ timeline'[tl].ref = 0
    PROVE  TimelineRefs'
<1>1. \A x : PointsOn(x)' = PointsOn(x)
  BY DEF PointsOn
<1>2. ASSUME NEW x \in Timelines
      PROVE  /\ timeline'[x].ref = Cardinality(PointsOn(x)')
                                   + IF timeline'[x].handle THEN 1 ELSE 0
             /\ timeline'[x].ref > 0 => timeline'[x].life = "live"
             /\ \A u \in Threads : Frees(th'[u], x) => timeline'[x].ref = 0
  <2>1. CASE x = tl
    BY <1>1, <2>1 DEF Moved
  <2>2. CASE x # tl
    <3>1. \A u \in Threads : Frees(th'[u], x) => Frees(th[u], x)
      BY <2>2 DEF Moved
    <3>2. timeline'[x] = timeline[x]
      BY <2>2
    <3>3. QED
      BY <1>1, <3>1, <3>2 DEF Inv, TimelineRefs
  <2>3. QED
    BY <2>1, <2>2
<1>3. QED
  BY <1>2 DEF TimelineRefs

LEMMA TimelineReleaseStep ==
    ASSUME Inv, NEW t \in Threads, NEW tl \in Timelines, th[t].pc = "idle", TimelineRelease(t, tl)
    PROVE  Inv'
<1>1. /\ timeline[tl].handle
      /\ timeline' = [timeline EXCEPT ![tl].handle = FALSE, ![tl].ref = @ - 1]
      /\ th' = [th EXCEPT ![t] = IF timeline[tl].ref = 1
                              THEN [Idle EXCEPT !.pc = "freeTl", !.tl = tl] ELSE Idle]
      /\ UNCHANGED <<point, fence, points, fences, table, fbLock, misr, woken, alive>>
  BY DEF TimelineRelease
<1>2. /\ Cardinality(PointsOn(tl)) \in Nat
      /\ timeline[tl].ref \in Nat
      /\ timeline[tl].ref = Cardinality(PointsOn(tl)) + 1
      /\ timeline[tl].ref > 0 => timeline[tl].life = "live"
      /\ \A u \in Threads : Frees(th[u], tl) => timeline[tl].ref = 0
  BY <1>1, TimelineCounts
<1>3. timeline[tl].ref > 0
  BY <1>2
<1>4. PICK s : s = IF timeline[tl].ref = 1 THEN [Idle EXCEPT !.pc = "freeTl", !.tl = tl] ELSE Idle
  OBVIOUS
<1>5. /\ s \in ThreadRec /\ s.pc \in {"idle", "freeTl"} /\ s.op = "none" /\ s.looked = {}
      /\ s.todo = <<>> /\ s.got = <<>>
      /\ Shape(s) /\ \A x : Frees(s, x) => x = tl /\ timeline[tl].ref = 1
  <2>1. CASE timeline[tl].ref = 1
    <3>1. s = [Idle EXCEPT !.pc = "freeTl", !.tl = tl]
      BY <1>4, <2>1
    <3>2. /\ s \in ThreadRec /\ s.pc = "freeTl" /\ s.op = "none" /\ s.looked = {}
          /\ s.todo = <<>> /\ s.got = <<>> /\ s.tl = tl
      BY <3>1, IdleIs DEF ThreadRec, PCs
    <3>3. Shape(s)
      BY <3>2, EmptyHas DEF Shape, Creating, Looking, Waiting
    <3>4. \A x : Frees(s, x) => x = tl
      BY <3>2 DEF Frees
    <3>5. QED
      BY <2>1, <3>2, <3>3, <3>4
  <2>2. CASE timeline[tl].ref # 1
    <3>1. s = Idle
      BY <1>4, <2>2
    <3>2. Shape(Idle)
      BY IdleIs, EmptyHas DEF Shape, Creating, Looking, Waiting
    <3>3. QED
      BY <3>1, <3>2, IdleIs, IdleHolds
  <2>3. QED
    BY <2>1, <2>2
<1>6. th' \in [Threads -> ThreadRec] /\ th'[t] = s /\ Moved(t)
  BY <1>1, <1>4, <1>5, ThreadMoves
<1>7. PICK r : r = [timeline[tl] EXCEPT !.handle = FALSE, !.ref = @ - 1]
  OBVIOUS
<1>8. /\ r \in TimelineRec /\ r.life = timeline[tl].life /\ r.ref = timeline[tl].ref - 1
      /\ r.seq = timeline[tl].seq /\ r.last = timeline[tl].last
      /\ r.handle = FALSE /\ r.lock = timeline[tl].lock /\ r.active = timeline[tl].active
  <2>1. timeline[tl].ref - 1 \in Nat
    BY <1>2
  <2>2. timeline[tl] \in TimelineRec
    BY TimelineIs
  <2>3. QED
    BY <1>7, <2>1, <2>2 DEF TimelineRec
<1>9. /\ timeline' \in [Timelines -> TimelineRec] /\ timeline'[tl] = r
      /\ \A x \in Timelines : x # tl => timeline'[x] = timeline[x]
  <2>1. timeline \in [Timelines -> TimelineRec]
    BY DEF Inv, Typed
  <2>2. timeline' = [timeline EXCEPT ![tl] = r]
    BY <1>1, <1>7, <2>1
  <2>3. QED
    BY <1>8, <2>1, <2>2
<1>10. Structural
  BY <1>1, PointsStructural
<1>11. OldTimelines(t)
  <2>1. \A x \in Timelines :
          /\ timeline'[x].seq = timeline[x].seq /\ timeline'[x].last = timeline[x].last
          /\ timeline'[x].lock = timeline[x].lock /\ timeline'[x].active = timeline[x].active
    BY <1>8, <1>9
  <2>2. \A x \in Timelines, q \in Points : Has(timeline[x].active, q) => point[q].life = "live"
    BY DEF Inv, ActiveOK
  <2>3. \A q \in Points : point[q].life = "live" => point[q].tl \in Timelines
    BY LiveTimeline
  <2>4. QED
    BY <1>1, <2>1, <2>2, <2>3 DEF OldTimelines, Inv, SeqOK
<1>12. Retiring(t)
  BY <1>1, <1>5, <1>6, <1>10, <1>11 DEF Retiring, Retire
<1>13. Typed'
  BY <1>1, <1>6, <1>9 DEF Inv, Typed
<1>14. LifeOK'
  BY <1>1, LifeSame
<1>15. th[t] = Idle
  BY ThreadIs DEF Shape
<1>16. PointRefs'
  <2>1. \A q : ~Keeps(th[t], q) /\ ~Keeps(th'[t], q)
    BY <1>5, <1>6, <1>15, IdleHolds, EmptyHas DEF Keeps, Owed, Creating
  <2>2. QED
    BY <1>1, <1>6, <2>1, PointRefsSame
<1>17. TimelineRefs'
  <2>1. timeline'[tl].ref = Cardinality(PointsOn(tl)) + IF timeline'[tl].handle THEN 1 ELSE 0
    <3>1. timeline'[tl].ref = timeline[tl].ref - 1 /\ timeline'[tl].handle = FALSE
      BY <1>8, <1>9
    <3>2. QED
      BY <1>2, <3>1
  <2>2. timeline'[tl].ref > 0 => timeline'[tl].life = "live"
    BY <1>2, <1>3, <1>8, <1>9
  <2>3. \A u \in Threads \ {t} : ~Frees(th[u], tl)
    BY <1>2, <1>3
  <2>4. \A x : Frees(th'[t], x) => x = tl /\ timeline'[tl].ref = 0
    <3>1. timeline[tl].ref = 1 => timeline'[tl].ref = 0
      BY <1>8, <1>9
    <3>2. QED
      BY <1>5, <1>6, <3>1
  <2>5. QED
    BY <1>1, <1>6, <1>9, <2>1, <2>2, <2>3, <2>4, TimelineRefsMoved
<1>18. UnlistOK'
  <2>1. \A u \in Threads, q \in Points : Unlists(th'[u], q) <=> Unlists(th[u], q)
    BY <1>5, <1>6 DEF Moved, Unlists
  <2>2. QED
    BY <1>1, <2>1, UnlistKept
<1>19. SyncOK'
  <2>1. \A q : ~Begins(th[t], q)
    BY <1>15, IdleHolds
  <2>2. th'[t].pc \notin Creating /\ th'[t].got = <<>>
    BY <1>5, <1>6 DEF Creating
  <2>3. QED
    BY <1>1, <1>6, <1>10, <2>1, <2>2, SyncSame
<1>20. QED
  BY <1>12, <1>13, <1>14, <1>16, <1>17, <1>18, <1>19, RetireStep

LEMMA TimelineFreeStep ==
    ASSUME Inv, NEW t \in Threads, TimelineFree(t)
    PROVE  Inv'
<1>1. PICK tl : tl = th[t].tl
  OBVIOUS
<1>2. PICK r : r = [NewTimeline EXCEPT !.life = "freed", !.ref = 0, !.handle = FALSE]
  OBVIOUS
<1>3. PICK drains : drains = (tl \in SWTimelines /\ timeline[tl].last < timeline[tl].seq)
  OBVIOUS
<1>4. /\ th[t].pc = "freeTl"
      /\ timeline' = [timeline EXCEPT ![tl] = r]
      /\ woken' = IF drains THEN SignalEO ELSE woken
      /\ misr' = [misr EXCEPT !.interrupt = @ \/ drains]
      /\ IF th[t].todo = <<>> THEN Finish(t) ELSE NextPoint(t, th[t].err)
      /\ UNCHANGED <<point, fence, points, fences, table, fbLock, alive>>
  BY <1>1, <1>2, <1>3 DEF TimelineFree
<1>5. tl \in Timelines /\ Frees(th[t], tl)
  <2>1. Shape(th[t])
    BY ThreadIs
  <2>2. QED
    BY <1>1, <1>4, <2>1 DEF Shape, Frees
<1>6. /\ Cardinality(PointsOn(tl)) \in Nat /\ timeline[tl].ref = 0
      /\ timeline[tl].handle \in BOOLEAN
      /\ (timeline[tl].handle => timeline[tl].ref = Cardinality(PointsOn(tl)) + 1)
      /\ (~timeline[tl].handle => timeline[tl].ref = Cardinality(PointsOn(tl)))
  BY <1>5, TimelineCounts
<1>7. ~timeline[tl].handle /\ Cardinality(PointsOn(tl)) = 0
  BY <1>6
<1>8. /\ r \in TimelineRec /\ r.life = "freed" /\ r.ref = 0 /\ r.seq = 0 /\ r.last = 0
      /\ r.handle = FALSE /\ r.active = <<>> /\ r.lock = NoLock
  <2>1. 0 \in 0..MaxPoints /\ <<>> \in Seq(Points)
    BY FallbackAssumption, EmptyHas
  <2>2. QED
    BY <1>2, <2>1 DEF NewTimeline, TimelineRec, Lives
<1>9. /\ timeline' \in [Timelines -> TimelineRec] /\ timeline'[tl] = r
      /\ \A x \in Timelines : x # tl => timeline'[x] = timeline[x]
  <2>1. timeline \in [Timelines -> TimelineRec]
    BY DEF Inv, Typed
  <2>2. QED
    BY <1>4, <1>5, <1>8, <2>1
<1>10. PICK d : d = IF th[t].todo = <<>> THEN <<>> ELSE Tail(th[t].todo)
  OBVIOUS
<1>11. d \in Seq(Points) /\ NoRepeats(d) /\ \A q : Keeps(th[t], q) <=> Has(d, q)
  <2>1. th[t].got = <<>> /\ th[t].todo \in Seq(Points) /\ NoRepeats(th[t].todo)
    <3>1. /\ Shape(th[t]) /\ th[t].op \in {"none", "merge", "resolve"}
          /\ th[t].todo \in Seq(Points)
      BY ThreadIs
    <3>2. QED
      BY <1>4, <3>1 DEF Shape, Looking
  <2>2. \A q : Keeps(th[t], q) <=> Has(d, q)
    BY <1>4, <1>10, <2>1, EmptyHas DEF Keeps, Owed, Creating
  <2>3. CASE th[t].todo = <<>>
    BY <1>10, <2>2, <2>3, EmptyHas
  <2>4. CASE th[t].todo # <<>>
    BY <1>10, <2>1, <2>2, <2>4, TailIs
  <2>5. QED
    BY <2>3, <2>4
<1>12. th' \in [Threads -> ThreadRec] /\ Moved(t) /\ Relieved(th'[t], d)
  <2>1. CASE th[t].todo = <<>>
    BY <1>4, <1>10, <2>1, FinishIs DEF Relieved
  <2>2. CASE th[t].todo # <<>>
    <3>1. th[t].err \in BOOLEAN
      BY ThreadIs
    <3>2. QED
      BY <1>4, <1>10, <2>2, <3>1, NextPointIs
  <2>3. QED
    BY <2>1, <2>2
<1>13. PICK s : s = th'[t]
  OBVIOUS
<1>14. /\ Shape(s) /\ s.pc \in {"idle", "relPt"} /\ s.got = <<>>
       /\ \A q : Keeps(s, q) <=> Has(d, q)
       /\ \A q : ~Unlists(s, q)
       /\ \A x : ~Frees(s, x)
  BY <1>11, <1>12, <1>13, RelievedShape
<1>15. Structural
  BY <1>4, PointsStructural
<1>16. OldTimelines(t)
  <2>1. \A x \in Timelines : timeline[x].ref > 0 => x # tl
    BY <1>6
  <2>2. points \in Nat
    BY FallbackAssumption DEF Inv, Typed
  <2>3. \A x \in Timelines : timeline'[x].last <= timeline'[x].seq /\ timeline'[x].seq <= points
    <3>1. timeline'[tl].last <= timeline'[tl].seq /\ timeline'[tl].seq <= points
      BY <1>8, <1>9, <2>2
    <3>2. QED
      BY <1>9, <3>1 DEF Inv, SeqOK
  <2>4. \A x \in Timelines : timeline[x].ref > 0 => timeline'[x] = timeline[x]
    BY <1>9, <2>1
  <2>5. \A q : ~Has(timeline'[tl].active, q)
    BY <1>8, <1>9, EmptyHas
  <2>6. \A x \in Timelines, q \in Points : Has(timeline'[x].active, q) =>
           Has(timeline[x].active, q) /\ point'[q].life = "live"
    BY <1>4, <1>9, <2>5 DEF Inv, ActiveOK
  <2>7. \A q \in Points : point[q].life = "live" =>
           point[q].tl \in Timelines /\ timeline[point[q].tl].ref > 0
    BY LiveTimeline
  <2>8. QED
    BY <1>4, <2>3, <2>4, <2>6, <2>7 DEF OldTimelines
<1>17. Retiring(t)
  BY <1>4, <1>12, <1>13, <1>14, <1>15, <1>16 DEF Retiring, Retire
<1>18. Typed'
  <2>1. woken' \subseteq Threads
    BY <1>4 DEF Inv, Typed, SignalEO
  <2>2. misr' \in MisrRec
    BY <1>3, <1>4 DEF Inv, Typed, MisrRec
  <2>3. QED
    BY <1>4, <1>9, <1>12, <2>1, <2>2 DEF Inv, Typed
<1>19. LifeOK'
  BY <1>4, LifeSame
<1>20. PointRefs'
  BY <1>4, <1>11, <1>12, <1>13, <1>14, PointRefsSame
<1>21. TimelineRefs'
  <2>1. timeline'[tl].ref = Cardinality(PointsOn(tl)) + IF timeline'[tl].handle THEN 1 ELSE 0
    BY <1>7, <1>8, <1>9
  <2>2. timeline'[tl].ref = 0 /\ ~(timeline'[tl].ref > 0)
    BY <1>8, <1>9
  <2>3. QED
    BY <1>4, <1>5, <1>9, <1>12, <1>13, <1>14, <2>1, <2>2, TimelineRefsMoved
<1>22. UnlistOK'
  <2>1. \A u \in Threads, q \in Points : Unlists(th'[u], q) <=> Unlists(th[u], q)
    BY <1>4, <1>12, <1>13, <1>14 DEF Moved, Unlists
  <2>2. QED
    BY <1>4, <2>1, UnlistKept
<1>23. SyncOK'
  <2>1. \A q : ~Begins(th[t], q)
    BY <1>4 DEF Begins
  <2>2. th'[t].pc \notin Creating /\ th'[t].got = <<>>
    BY <1>13, <1>14 DEF Creating
  <2>3. QED
    BY <1>4, <1>12, <1>15, <2>1, <2>2, SyncSame
<1>24. QED
  BY <1>17, <1>18, <1>19, <1>20, <1>21, <1>22, <1>23, RetireStep


---------------------------------------------------------------------------
(* New points *)

\* Nobody knows a point that has not been allocated.
LEMMA FreshPoint ==
    ASSUME Inv, NEW p \in Points, p = points + 1
    PROVE  /\ point[p].life = "none" /\ point[p].ref = 0 /\ p \notin table
           /\ \A f \in Fences : ~Has(fence[f].pts, p) /\ p \notin fence[f].src
           /\ \A u \in Threads : ~Keeps(th[u], p) /\ ~Unlists(th[u], p)
           /\ \A u \in Threads :
                 th[u].pc \in Creating \cup {"mark", "walk", "recheck"} => Head(th[u].todo) # p
           /\ \A tl \in Timelines : ~Has(timeline[tl].active, p)
<1>1. point[p].life = "none"
  <2>1. p > points
    BY DEF Inv, Typed
  <2>2. QED
    BY <2>1 DEF Inv, LifeOK
<1>2. point[p].ref = 0 /\ p \notin table
  BY <1>1 DEF Inv, LifeOK
<1>3. \A f \in Fences : ~Has(fence[f].pts, p) /\ p \notin fence[f].src
  BY <1>1, <1>2, Referenced DEF Inv, MergedOK
<1>4. \A u \in Threads : ~Keeps(th[u], p) /\ ~Unlists(th[u], p)
  BY <1>1, <1>2, Referenced DEF Inv, UnlistOK
<1>5. ASSUME NEW u \in Threads, th[u].pc \in Creating \cup {"mark", "walk", "recheck"}
      PROVE  Head(th[u].todo) # p
  <2>1. CASE th[u].pc \in Creating \cup {"recheck"}
    BY <1>1, <2>1, LockedPoint
  <2>2. CASE th[u].pc \in {"mark", "walk"}
    <3>1. th[u].pc \in Looking /\ th[u].pc # "check"
      BY <2>2 DEF Looking
    <3>2. Has(th[u].todo, Head(th[u].todo))
      BY <3>1, OpIs, TodoIs
    <3>3. QED
      BY <1>1, <3>1, <3>2, LookedPoint
  <2>3. QED
    BY <1>5, <2>1, <2>2
<1>6. \A tl \in Timelines : ~Has(timeline[tl].active, p)
  BY <1>1 DEF Inv, ActiveOK
<1>7. QED
  BY <1>1, <1>2, <1>3, <1>4, <1>5, <1>6

\* An idle thread adds a point to a timeline that has a handle.
Creates(t, tl, p) ==
    /\ p \in Points /\ p = points + 1 /\ tl \in Timelines
    /\ timeline[tl].handle /\ timeline[tl].lock = NoLock
    /\ th[t] = Idle /\ Moved(t) /\ th'[t].pc \in {"idle", "create"}
    /\ \A q \in Points : q # p => point'[q] = point[q]
    /\ \A x \in Timelines : x # tl => timeline'[x] = timeline[x]
    /\ point'[p].tl = tl /\ point'[p].seq = timeline[tl].seq + 1
    /\ point'[p].ref = 1 /\ point'[p].life = "live"
    /\ timeline'[tl].ref = timeline[tl].ref + 1
    /\ timeline'[tl].seq = timeline[tl].seq + 1
    /\ timeline'[tl].last = timeline[tl].last
    /\ timeline'[tl].life = timeline[tl].life
    /\ timeline'[tl].handle = timeline[tl].handle
    /\ \A q : Has(timeline'[tl].active, q) <=> Has(timeline[tl].active, q) \/ q = p
    /\ points' = p /\ table' = table /\ alive' = alive

LEMMA CreatesPlace ==
    ASSUME Inv, NEW t \in Threads, NEW tl, NEW p, Creates(t, tl, p)
    PROVE  Stable /\ TimelineRefs' /\ UnlistOK' /\ SeqOK'
<1>1. /\ point[p].life = "none" /\ point[p].ref = 0
      /\ \A u \in Threads : ~Keeps(th[u], p) /\ ~Unlists(th[u], p)
  BY FreshPoint DEF Creates
<1>2. /\ p \in Points /\ tl \in Timelines /\ points' = p /\ p = points + 1
      /\ \A q \in Points : q # p => point'[q] = point[q]
      /\ \A x \in Timelines : x # tl => timeline'[x] = timeline[x]
      /\ point'[p].tl = tl /\ point'[p].seq = timeline[tl].seq + 1
      /\ point'[p].ref = 1 /\ point'[p].life = "live"
      /\ timeline'[tl].ref = timeline[tl].ref + 1
      /\ timeline'[tl].seq = timeline[tl].seq + 1
      /\ timeline'[tl].last = timeline[tl].last
      /\ timeline'[tl].life = timeline[tl].life
      /\ timeline'[tl].handle = timeline[tl].handle /\ timeline[tl].handle
      /\ alive' = alive
  BY DEF Creates
<1>3. /\ th[t].pc = "idle" /\ th'[t].pc \in {"idle", "create"}
      /\ \A u \in Threads : u # t => th'[u] = th[u]
  BY IdleIs DEF Creates, Moved
<1>4. Stable
  BY <1>1, <1>2 DEF Stable, HasSync, NativeSignalled, NativeState
<1>5. UnlistOK'
  <2>1. \A u \in Threads, q \in Points : Unlists(th'[u], q) <=> Unlists(th[u], q)
    BY <1>3 DEF Unlists
  <2>2. \A q \in Points : /\ point'[q].life = "live" /\ point'[q].ref = 0
                                => point[q].life = "live" /\ point[q].ref = 0
                          /\ point[q].life = "live" /\ point[q].ref = 0
                                => point'[q].life = "live" /\ point'[q].ref = 0
    BY <1>1, <1>2
  <2>3. QED
    BY <2>1, <2>2, UnlistKept
<1>6. TimelineRefs'
  <2>1. ASSUME NEW x \in Timelines
        PROVE  /\ timeline'[x].ref = Cardinality(PointsOn(x)')
                                     + IF timeline'[x].handle THEN 1 ELSE 0
               /\ timeline'[x].ref > 0 => timeline'[x].life = "live"
               /\ \A u \in Threads : Frees(th'[u], x) => timeline'[x].ref = 0
    <3>1. /\ timeline[x].ref = Cardinality(PointsOn(x)) + IF timeline[x].handle THEN 1 ELSE 0
          /\ timeline[x].ref > 0 => timeline[x].life = "live"
          /\ \A u \in Threads : Frees(th[u], x) => timeline[x].ref = 0
      BY DEF Inv, TimelineRefs
    <3>2. \A u \in Threads : Frees(th'[u], x) => Frees(th[u], x)
      BY <1>3 DEF Frees
    <3>3. CASE x = tl
      <4>1. p \notin PointsOn(x)
        BY <1>1 DEF PointsOn
      <4>2. PointsOn(x)' = PointsOn(x) \cup {p}
        BY <1>1, <1>2, <3>3 DEF PointsOn
      <4>3. PICK n : n = Cardinality(PointsOn(x))
        OBVIOUS
      <4>4. Cardinality(PointsOn(x)') = n + 1 /\ n \in Nat
        BY <4>1, <4>2, <4>3, FiniteCounts, OneMore
      <4>5. timeline[x].ref = n + 1
        BY <1>2, <3>1, <3>3, <4>3
      <4>6. timeline'[x].ref = n + 1 + 1 /\ timeline'[x].handle /\ timeline'[x].life = "live"
        <5>1. timeline'[x].handle /\ timeline'[x].ref = timeline[x].ref + 1
          BY <1>2, <3>3
        <5>2. timeline[x].ref > 0
          BY <4>4, <4>5
        <5>3. timeline'[x].life = "live"
          BY <1>2, <3>1, <3>3, <5>2
        <5>4. QED
          BY <4>5, <5>1, <5>3
      <4>7. \A u \in Threads : ~Frees(th'[u], x)
        BY <3>1, <3>2, <4>4, <4>5
      <4>8. QED
        BY <4>4, <4>6, <4>7
    <3>4. CASE x # tl
      <4>1. PointsOn(x)' = PointsOn(x)
        BY <1>1, <1>2, <3>4 DEF PointsOn
      <4>2. timeline'[x] = timeline[x]
        BY <1>2, <3>4
      <4>3. QED
        BY <3>1, <3>2, <4>1, <4>2
    <3>5. QED
      BY <3>3, <3>4
  <2>2. QED
    BY <2>1 DEF TimelineRefs
<1>7. SeqOK'
  <2>1. /\ timeline[tl].seq \in Nat /\ timeline[tl].last \in Nat /\ points \in Nat
        /\ timeline[tl].last <= timeline[tl].seq /\ timeline[tl].seq <= points
    BY <1>2, TimelineIs DEF Inv, Typed, SeqOK
  <2>2. ASSUME NEW q \in Points, q # p, point'[q].life = "live"
        PROVE  /\ point'[q] = point[q] /\ point[q].tl \in Timelines
               /\ point[q].seq \in 1..timeline[point[q].tl].seq
               /\ point[q].tl = tl => point[q].seq < timeline[tl].seq + 1
               /\ point[q].seq \in 1..timeline'[point[q].tl].seq
    <3>1. /\ point'[q] = point[q] /\ point[q].tl \in Timelines
          /\ point[q].seq \in 1..timeline[point[q].tl].seq
      BY <1>2, <2>2 DEF Inv, SeqOK, Tl
    <3>2. CASE point[q].tl = tl
      BY <1>2, <2>1, <3>1, <3>2
    <3>3. CASE point[q].tl # tl
      BY <1>2, <3>1, <3>3
    <3>4. QED
      BY <3>1, <3>2, <3>3
  <2>3. point'[p].tl \in Timelines /\ point'[p].seq \in 1..timeline'[point'[p].tl].seq
    BY <1>2, <2>1
  <2>4. ASSUME NEW a \in Points, NEW b \in Points,
               point'[a].life = "live", point'[b].life = "live",
               point'[a].tl = point'[b].tl, point'[a].seq = point'[b].seq
        PROVE  a = b
    <3>1. CASE a # p /\ b # p
      BY <2>2, <2>4, <3>1 DEF Inv, SeqOK, Tl
    <3>2. CASE a = p /\ b # p
      BY <1>2, <2>1, <2>2, <2>4, <3>2
    <3>3. CASE a # p /\ b = p
      BY <1>2, <2>1, <2>2, <2>4, <3>3
    <3>4. QED
      BY <3>1, <3>2, <3>3
  <2>5. ASSUME NEW x \in Timelines
        PROVE  timeline'[x].last <= timeline'[x].seq /\ timeline'[x].seq <= points'
    <3>1. CASE x = tl
      BY <1>2, <2>1, <3>1
    <3>2. CASE x # tl
      <4>1. timeline[x].last <= timeline[x].seq /\ timeline[x].seq <= points
            /\ timeline[x].seq \in Nat
        BY TimelineIs DEF Inv, SeqOK
      <4>2. QED
        BY <1>2, <2>1, <3>2, <4>1
    <3>3. QED
      BY <3>1, <3>2
  <2>6. QED
    BY <2>2, <2>3, <2>4, <2>5 DEF SeqOK, Tl
<1>8. QED
  BY <1>4, <1>5, <1>6, <1>7

\* A new point has no sync, or that of a software timeline.
NewSync(p, tl) ==
    \/ tl \notin SWTimelines /\ point'[p].attached = <<>> /\ point'[p].status = "unsignalled"
    \/ /\ tl \in SWTimelines /\ point'[p].attached \in Seq(Attached)
       /\ Len(point'[p].attached) = 1 /\ point'[p].attached # <<>>
       /\ point'[p].attached[1].state = point'[p].status
       /\ point'[p].status # "unsignalled" <=> point'[p].seq <= timeline'[tl].last

LEMMA CreatesStates ==
    ASSUME Inv, NEW t \in Threads, NEW tl, NEW p, Creates(t, tl, p), NewSync(p, tl)
    PROVE  ActiveOK' /\ StateOK' /\ OrderOK'
<1>1. /\ point[p].life = "none"
      /\ \A u \in Threads :
            th[u].pc \in {"mark", "walk"} => Head(th[u].todo) # p
      /\ \A x \in Timelines : ~Has(timeline[x].active, p)
  BY FreshPoint DEF Creates
<1>2. /\ p \in Points /\ tl \in Timelines
      /\ \A q \in Points : q # p => point'[q] = point[q]
      /\ \A x \in Timelines : x # tl => timeline'[x] = timeline[x]
      /\ point'[p].tl = tl /\ point'[p].life = "live"
      /\ timeline'[tl].last = timeline[tl].last
      /\ \A q : Has(timeline'[tl].active, q) <=> Has(timeline[tl].active, q) \/ q = p
      /\ alive' = alive
  BY DEF Creates
<1>3. /\ th[t].pc = "idle" /\ th'[t].pc \in {"idle", "create"}
      /\ \A u \in Threads : u # t => th'[u] = th[u]
  BY IdleIs DEF Creates, Moved
<1>4. \A q \in Points : q # p =>
         (HasSync(q)' <=> HasSync(q)) /\ (NativeSignalled(q)' <=> NativeSignalled(q))
  BY <1>2 DEF HasSync, NativeSignalled, NativeState
<1>5. NativeSignalled(p)' <=> point'[p].status # "unsignalled"
  BY DEF NewSync, HasSync, NativeSignalled, NativeState
<1>6. \A x \in Timelines, q \in Points : q # p =>
         (Has(timeline'[x].active, q) <=> Has(timeline[x].active, q))
  BY <1>2
<1>7. ActiveOK'
  <2>1. ASSUME NEW x \in Timelines, NEW q \in Points, Has(timeline'[x].active, q)
        PROVE  point'[q].life = "live" /\ point'[q].tl = x
    <3>1. CASE q = p
      BY <1>1, <1>2, <2>1, <3>1
    <3>2. CASE q # p
      BY <1>2, <1>6, <2>1, <3>2 DEF Inv, ActiveOK, Tl
    <3>3. QED
      BY <3>1, <3>2
  <2>2. ASSUME NEW q \in Points, point'[q].life = "live",
               ~Has(timeline'[point'[q].tl].active, q)
        PROVE  NativeSignalled(q)'
    <3>1. q # p
      BY <1>2, <2>2
    <3>2. point[q].life = "live" /\ point'[q].tl = point[q].tl /\ point[q].tl \in Timelines
      BY <1>2, <2>2, <3>1 DEF Inv, SeqOK, Tl
    <3>3. NativeSignalled(q)
      BY <1>6, <2>2, <3>1, <3>2 DEF Inv, ActiveOK, Tl
    <3>4. QED
      BY <1>4, <3>1, <3>3
  <2>3. QED
    BY <2>1, <2>2 DEF ActiveOK, Tl
<1>8. StateOK'
  <2>1. ASSUME NEW q \in Points
        PROVE  Follows(q)' /\ (point'[q].status # "unsignalled" => NativeSignalled(q)')
    <3>1. CASE q = p
      <4>1. point'[p].status # "unsignalled" =>
              Len(point'[p].attached) = 1 /\ point'[p].attached[1].state # "unsignalled"
        BY DEF NewSync
      <4>2. point'[p].status # "unsignalled" => DOMAIN point'[p].attached = {1}
        BY DEF NewSync
      <4>4. QED
        BY <1>5, <3>1, <4>1, <4>2 DEF Follows
    <3>2. CASE q # p
      <4>1. Follows(q) /\ (point[q].status # "unsignalled" => NativeSignalled(q))
        BY DEF Inv, StateOK
      <4>2. point'[q] = point[q]
        BY <1>2, <3>2
      <4>3. \A u \in Threads : (Tells(th[u], q) => Tells(th'[u], q))
                               /\ (Adds(th[u], q) => Adds(th'[u], q))
        BY <1>3 DEF Tells, Adds
      <4>4. Follows(q)'
        BY <4>1, <4>2, <4>3 DEF Follows
      <4>5. QED
        BY <1>4, <3>2, <4>1, <4>2, <4>4
    <3>3. QED
      BY <3>1, <3>2
  <2>2. ASSUME NEW u \in Threads, NEW q \in Points,
               th'[u].pc \in {"mark", "walk"}, Head(th'[u].todo) = q
        PROVE  NativeSignalled(q)'
    <3>1. th'[u] = th[u]
      BY <1>3, <2>2
    <3>2. NativeSignalled(q)
      BY <2>2, <3>1 DEF Inv, StateOK
    <3>3. QED
      BY <1>1, <1>4, <2>2, <3>1, <3>2
  <2>3. QED
    BY <2>1, <2>2 DEF StateOK
<1>9. OrderOK'
  <2>1. ASSUME NEW a \in Points, NEW b \in Points,
               point'[a].life = "live", point'[b].life = "live", ~IsSW(a)',
               Later(a, b)', HasSync(b)', NativeSignalled(a)'
        PROVE  NativeSignalled(b)'
    <3>1. point'[a].tl \notin SWTimelines /\ point'[b].tl = point'[a].tl
          /\ point'[b].seq <= point'[a].seq
      BY <2>1 DEF IsSW, Later, Tl
    <3>2. a # p
      BY <1>2, <1>5, <2>1, <3>1 DEF NewSync
    <3>3. b # p
      BY <1>2, <2>1, <3>1 DEF NewSync, HasSync
    <3>4. /\ point[a].life = "live" /\ point[b].life = "live" /\ ~IsSW(a)
          /\ Later(a, b) /\ HasSync(b) /\ NativeSignalled(a)
      BY <1>2, <1>4, <2>1, <3>1, <3>2, <3>3 DEF IsSW, Later, Tl
    <3>5. NativeSignalled(b)
      BY <3>4 DEF Inv, OrderOK
    <3>6. QED
      BY <1>4, <3>3, <3>5
  <2>2. ASSUME NEW q \in Points, point'[q].life = "live", IsSW(q)', Owner[point'[q].tl] \in alive'
        PROVE  NativeSignalled(q)' <=> point'[q].seq <= timeline'[point'[q].tl].last
    <3>1. CASE q = p
      BY <1>2, <1>5, <2>2, <3>1 DEF IsSW, Tl, NewSync
    <3>2. CASE q # p
      <4>1. point'[q] = point[q] /\ point[q].tl \in Timelines
        BY <1>2, <2>2, <3>2 DEF Inv, SeqOK, Tl
      <4>2. NativeSignalled(q) <=> point[q].seq <= timeline[point[q].tl].last
        BY <1>2, <2>2, <4>1 DEF Inv, OrderOK, IsSW, Tl
      <4>3. timeline'[point[q].tl].last = timeline[point[q].tl].last
        BY <1>2, <4>1
      <4>4. NativeSignalled(q)' <=> NativeSignalled(q)
        BY <1>4, <3>2
      <4>5. QED
        BY <4>1, <4>2, <4>3, <4>4
    <3>3. QED
      BY <3>1, <3>2
  <2>3. QED
    BY <2>1, <2>2 DEF OrderOK, Tl
<1>10. QED
  BY <1>7, <1>8, <1>9

LEMMA FenceCreatePVRStep ==
    ASSUME Inv, NEW t \in Clients, NEW tl \in Timelines, FenceCreatePVR(t, tl)
    PROVE  Inv'
<1>1. PICK p : p = points + 1
  OBVIOUS
<1>2. PICK f : f = fences + 1
  OBVIOUS
<1>3. /\ MayCreate(t, tl) /\ tl \notin SWTimelines /\ AddPoint(tl, p, t)
      /\ point' = [point EXCEPT ![p] = NewPoint(tl)]
      /\ points' = p /\ fences' = f
      /\ th' = [th EXCEPT ![t].pc = "create", ![t].new = f,
                          ![t].todo = <<p>>, ![t].tl = tl]
      /\ UNCHANGED <<fence, table, fbLock, misr, woken, alive>>
  BY <1>1, <1>2 DEF FenceCreatePVR
<1>4. /\ Ready(t) /\ timeline[tl].handle /\ timeline[tl].lock = NoLock
      /\ points < MaxPoints /\ fences < MaxFences
  BY <1>3 DEF MayCreate, Free
<1>5. t \in Threads /\ Proc[t] \in alive /\ Proc[t] \in Processes /\ th[t] = Idle
  BY <1>4, ReadyIs
<1>6. /\ points \in Nat /\ fences \in Nat /\ p \in Points /\ f \in Fences
      /\ f \in 0..MaxFences /\ f > fences /\ p > points /\ p \in 0..MaxPoints
  BY <1>1, <1>2, <1>4, FallbackAssumption DEF Inv, Typed, Points, Fences
<1>7. /\ fence[f].src = {} /\ fence[f].life = "none"
  BY <1>6 DEF Inv, LifeOK
<1>8. PICK r : r = [Idle EXCEPT !.pc = "create", !.new = f, !.todo = <<p>>, !.tl = tl]
  OBVIOUS
<1>9. /\ r \in ThreadRec /\ r.pc = "create" /\ r.op = "none" /\ r.new = f
      /\ r.todo = <<p>> /\ r.got = <<>> /\ r.tl = tl /\ r.looked = {} /\ r.f = 0
  <2>1. <<p>> \in Seq(Points)
    BY <1>6, OneHas
  <2>2. QED
    BY <1>6, <1>8, <2>1, IdleIs DEF ThreadRec, PCs
<1>10. th' \in [Threads -> ThreadRec] /\ th'[t] = r /\ Moved(t)
  <2>1. th' = [th EXCEPT ![t] = r]
    BY <1>3, <1>5, <1>8 DEF Inv, Typed
  <2>2. QED
    BY <1>5, <1>9, <2>1, ThreadMoves
<1>11. PICK d : d = NewPoint(tl)
  OBVIOUS
<1>12. /\ timeline[tl].seq \in Nat /\ timeline[tl].seq <= points
       /\ timeline[tl].ref \in Nat /\ timeline[tl].active \in Seq(Points)
       /\ timeline[tl] \in TimelineRec
  BY TimelineIs DEF Inv, SeqOK
<1>13. /\ d \in PointRec /\ d.tl = tl /\ d.seq = timeline[tl].seq + 1 /\ d.ref = 1
       /\ d.status = "unsignalled" /\ d.life = "live" /\ d.attached = <<>>
  <2>1. timeline[tl].seq + 1 \in 0..MaxPoints
    BY <1>4, <1>6, <1>12, FallbackAssumption
  <2>2. <<>> \in Seq(Attached)
    BY EmptyHas
  <2>3. QED
    BY <1>11, <2>1, <2>2 DEF NewPoint, NoPoint, PointRec, Lives, States
<1>14. point' \in [Points -> PointRec] /\ point'[p] = d /\ \A q \in Points : q # p => point'[q] = point[q]
  BY <1>3, <1>6, <1>11, <1>13 DEF Inv, Typed
<1>15. PICK a : a = Append(timeline[tl].active, p)
  OBVIOUS
<1>16. a \in Seq(Points) /\ \A q : Has(a, q) <=> Has(timeline[tl].active, q) \/ q = p
  BY <1>6, <1>12, <1>15, AppendIs
<1>17. PICK x : x = [timeline[tl] EXCEPT !.ref = @ + 1, !.seq = @ + 1, !.active = a, !.lock = t]
  OBVIOUS
<1>18. /\ x \in TimelineRec /\ x.ref = timeline[tl].ref + 1 /\ x.seq = timeline[tl].seq + 1
       /\ x.last = timeline[tl].last /\ x.life = timeline[tl].life
       /\ x.handle = timeline[tl].handle /\ x.active = a /\ x.lock = t
  <2>1. timeline[tl].seq + 1 \in 0..MaxPoints /\ timeline[tl].ref + 1 \in Nat
    BY <1>4, <1>6, <1>12, FallbackAssumption
  <2>2. QED
    BY <1>5, <1>12, <1>16, <1>17, <2>1 DEF TimelineRec
<1>19. /\ timeline' \in [Timelines -> TimelineRec] /\ timeline'[tl] = x
       /\ \A y \in Timelines : y # tl => timeline'[y] = timeline[y]
  <2>1. timeline' = [timeline EXCEPT ![tl] = x]
    BY <1>3, <1>15, <1>17 DEF AddPoint, Inv, Typed
  <2>2. QED
    BY <1>18, <2>1 DEF Inv, Typed
<1>20. Typed'
  BY <1>3, <1>6, <1>10, <1>14, <1>19 DEF Inv, Typed
<1>21. Creates(t, tl, p)
  BY <1>1, <1>3, <1>4, <1>5, <1>6, <1>9, <1>10, <1>13, <1>14, <1>16, <1>18, <1>19 DEF Creates
<1>22. NewSync(p, tl)
  BY <1>3, <1>13, <1>14 DEF NewSync
<1>23. Stable /\ TimelineRefs' /\ UnlistOK' /\ SeqOK' /\ ActiveOK' /\ StateOK' /\ OrderOK'
  BY <1>5, <1>21, <1>22, CreatesPlace, CreatesStates
<1>24. /\ point[p].life = "none" /\ point[p].ref = 0 /\ p \notin table
       /\ \A g \in Fences : ~Has(fence[g].pts, p)
       /\ \A u \in Threads : ~Keeps(th[u], p)
       /\ \A u \in Threads :
             th[u].pc \in Creating \cup {"recheck"} => Head(th[u].todo) # p
  BY <1>1, <1>6, FreshPoint
<1>25. th[t].pc = "idle" /\ th[t].op = "none" /\ th[t].got = <<>>
  BY <1>5, IdleIs
<1>26. ControlOK'
  <2>1. Shape(r)
    BY <1>9, OneHas, EmptyHas DEF Shape, Creating, Looking, Waiting
  <2>2. PlaceOK(t)'
    BY <1>3, <1>5, <1>9, <1>10 DEF PlaceOK
  <2>3. QED
    BY <1>3, <1>5, <1>10, <2>1, <2>2, ControlMoved
<1>27. LifeOK'
  <2>1. \A q \in Points : point'[q].life = "none" <=> q > points'
    <3>1. \A q \in Points : q > points <=> q = p \/ q > p
      BY <1>1, <1>6 DEF Points
    <3>2. QED
      BY <1>3, <1>6, <1>13, <1>14, <3>1 DEF Inv, LifeOK
  <2>2. \A q \in Points : point'[q].life # "live" =>
            point'[q].status = "unsignalled" /\ q \notin table' /\ point'[q].ref = 0
    BY <1>3, <1>13, <1>14 DEF Inv, LifeOK
  <2>3. \A g \in Fences : g > fences' => g > fences
    BY <1>3, <1>6 DEF Fences
  <2>4. QED
    BY <1>3, <2>1, <2>2, <2>3 DEF Inv, LifeOK
<1>28. MakersOK'
  <2>1. fences' \in Nat /\ fences <= fences'
    BY <1>3, <1>6
  <2>2. \A u \in Threads, g \in Fences : Makes(th[u], g) =>
           g \in 1..fences /\ fence[g].life = "none" /\ (th[u].pc \in Creating => fence[g].src = {})
    BY FallbackAssumption DEF Inv, MakersOK, Fences
  <2>3. \A g : Makes(r, g) => g = f
    BY <1>9 DEF Makes
  <2>4. f \in 1..fences' /\ \A u \in Threads : ~Makes(th[u], f)
    BY <1>3, <1>6, <2>2
  <2>5. QED
    BY <1>3, <1>5, <1>7, <1>10, <2>1, <2>2, <2>3, <2>4, MakersMoved
<1>29. \A u \in Threads, g \in Fences : Uses(th'[u], g) <=> Uses(th[u], g)
  BY <1>9, <1>10, <1>25 DEF Uses, Waiting, Moved
<1>30. FenceRefs'
  BY <1>3, <1>29, FenceRefsKept
<1>31. \A q : Keeps(r, q) <=> q = p
  BY <1>9, OneHas, EmptyHas DEF Keeps, Owed, Creating
<1>32. \A q : ~Keeps(th[t], q)
  BY <1>5, IdleHolds
<1>33. PointRefs'
  <2>1. ASSUME NEW q \in Points
        PROVE  point'[q].ref = Cardinality(FencesOf(q)') + Cardinality(KeepersOf(q)')
    <3>1. FencesOf(q)' = FencesOf(q)
      BY <1>3, FencesSame
    <3>2. PICK m, n : m = Cardinality(FencesOf(q)) /\ n = Cardinality(KeepersOf(q))
      OBVIOUS
    <3>3. point[q].ref = m + n /\ m \in Nat /\ n \in Nat
      BY <3>2, FiniteCounts, FewNone DEF Inv, PointRefs
    <3>4. CASE q = p
      <4>1. Cardinality(KeepersOf(q)') = n + 1
        BY <1>5, <1>10, <1>31, <1>32, <3>2, <3>4, KeepersMore
      <4>2. point'[q].ref = point[q].ref + 1
        BY <1>13, <1>14, <1>24, <3>4
      <4>3. QED
        BY <3>1, <3>2, <3>3, <4>1, <4>2
    <3>5. CASE q # p
      <4>1. KeepersOf(q)' = KeepersOf(q)
        BY <1>5, <1>10, <1>31, <1>32, <3>5, KeepersMoved
      <4>2. QED
        BY <1>14, <3>1, <3>2, <3>3, <3>5, <4>1
    <3>6. QED
      BY <3>4, <3>5
  <2>2. QED
    BY <2>1 DEF PointRefs
<1>34. LookedOK'
  <2>1. /\ \A g \in Fences : NoRepeats(fence[g].pts)
        /\ \A u \in Threads : \A g \in th[u].looked : Proc[u] \in fence[g].handles
    BY DEF Inv, LookedOK
  <2>2. th'[t].pc \notin Looking /\ th'[t].pc # "force" /\ th'[t].looked = {}
    BY <1>9, <1>10 DEF Looking
  <2>3. QED
    BY <1>3, <1>5, <1>10, <1>23, <2>1, <2>2, LookedMoved
<1>35. LockOK'
  <2>1. ASSUME NEW u \in Threads, NEW q \in Points,
               th'[u].pc \in {"create", "recheck"}, Head(th'[u].todo) = q
        PROVE  /\ timeline'[point'[q].tl].lock = u
               /\ th'[u].pc = "create" =>
                     th'[u].tl = point'[q].tl /\ point'[q].seq = timeline'[point'[q].tl].seq
               /\ th'[u].pc = "recheck" => Len(point'[q].attached) > 1
    <3>1. CASE u = t
      <4>1. q = p /\ th'[u].pc = "create" /\ th'[u].tl = tl
        BY <1>9, <1>10, <2>1, <3>1, OneHas
      <4>2. QED
        BY <1>13, <1>14, <1>18, <1>19, <3>1, <4>1
    <3>2. CASE u # t
      <4>1. th'[u] = th[u]
        BY <1>10, <3>2 DEF Moved
      <4>2. q # p
        BY <1>24, <2>1, <4>1 DEF Creating
      <4>3. /\ timeline[point[q].tl].lock = u
            /\ th[u].pc = "create" =>
                  th[u].tl = point[q].tl /\ point[q].seq = timeline[point[q].tl].seq
            /\ th[u].pc = "recheck" => Len(point[q].attached) > 1
        BY <2>1, <4>1 DEF Inv, LockOK, Adds, Tl
      <4>4. point[q].life = "live"
        BY <2>1, <4>1, LockedPoint DEF Creating
      <4>5. point[q].tl \in Timelines /\ point[q].tl # tl
        BY <1>4, <4>3, <4>4, LiveTimeline, FallbackAssumption
      <4>6. QED
        BY <1>14, <1>19, <4>1, <4>2, <4>3, <4>5
    <3>3. QED
      BY <3>1, <3>2
  <2>2. QED
    BY <2>1 DEF LockOK, Adds, Tl
<1>36. \A q \in Points : q # p => (HasSync(q)' <=> HasSync(q)) /\ point'[q] = point[q]
  BY <1>14 DEF HasSync
<1>37. SyncOK'
  <2>1. \A q : ~Begins(th[t], q)
    BY <1>5, IdleHolds
  <2>2. ASSUME NEW q \in Points, Bare(q)'
        PROVE  /\ point'[q].status = "unsignalled" /\ q \notin table'
               /\ ~IsSW(q)' /\ point'[q].ref <= 1
               /\ \A g \in Fences : ~Has(fence'[g].pts, q)
               /\ \E u \in Threads : Begins(th'[u], q)
    <3>1. CASE q = p
      <4>1. Begins(th'[t], p)
        BY <1>9, <1>10 DEF Begins
      <4>2. point'[p].status = "unsignalled" /\ point'[p].ref <= 1 /\ p \notin table'
        BY <1>3, <1>13, <1>14, <1>24
      <4>3. ~IsSW(p)'
        BY <1>3, <1>13, <1>14 DEF IsSW, Tl
      <4>4. QED
        BY <1>3, <1>5, <1>24, <3>1, <4>1, <4>2, <4>3
    <3>2. CASE q # p
      <4>1. Bare(q)
        BY <1>36, <2>2, <3>2 DEF Bare
      <4>2. /\ point[q].status = "unsignalled" /\ q \notin table
            /\ ~IsSW(q) /\ point[q].ref <= 1
            /\ \A g \in Fences : ~Has(fence[g].pts, q)
            /\ \E u \in Threads : Begins(th[u], q)
        BY <4>1 DEF Inv, SyncOK
      <4>3. \E u \in Threads : Begins(th'[u], q)
        BY <1>10, <2>1, <4>2 DEF Moved
      <4>4. ~IsSW(q)'
        BY <1>36, <3>2, <4>2 DEF IsSW, Tl
      <4>5. QED
        BY <1>3, <1>36, <3>2, <4>2, <4>3, <4>4
    <3>3. QED
      BY <3>1, <3>2
  <2>3. \A q \in table' : point'[q].ref > 0
    BY <1>3, <1>24, <1>36 DEF Inv, SyncOK, Typed
  <2>4. ASSUME NEW u \in Threads, NEW q \in Points, Head(th'[u].todo) = q,
               th'[u].pc \in Creating
        PROVE  /\ th'[u].pc = "create" => ~HasSync(q)'
               /\ th'[u].pc = "insert" => HasSync(q)'
    <3>1. CASE u = t
      <4>1. q = p /\ th'[u].pc = "create"
        BY <1>9, <1>10, <2>4, <3>1, OneHas
      <4>2. ~HasSync(p)'
        BY <1>13, <1>14 DEF HasSync
      <4>3. QED
        BY <4>1, <4>2
    <3>2. CASE u # t
      <4>1. th'[u] = th[u]
        BY <1>10, <3>2 DEF Moved
      <4>2. q # p
        BY <1>24, <2>4, <4>1
      <4>3. QED
        BY <1>36, <2>4, <4>1, <4>2 DEF Inv, SyncOK
    <3>3. QED
      BY <3>1, <3>2
  <2>5. ASSUME NEW u \in Threads, NEW q \in Points, Has(th'[u].got, q)
        PROVE  HasSync(q)'
    <3>1. u # t
      BY <1>9, <1>10, <2>5, EmptyHas
    <3>2. HasSync(q) /\ point[q].ref > 0
      BY <1>10, <2>5, <3>1, GotPoint DEF Moved
    <3>3. QED
      BY <1>24, <1>36, <3>2
  <2>6. QED
    BY <2>2, <2>3, <2>4, <2>5 DEF SyncOK, Creating
<1>38. MergedOK'
  <2>1. ASSUME NEW g \in Fences, NEW q \in Points, Carries(g, q)
        PROVE  Carries(g, q)'
    BY <1>3, <1>10, <1>25, <2>1 DEF Carries, Moved
  <2>2. QED
    BY <1>3, <1>23, <2>1, MergedKept
<1>39. QED
  BY <1>20, <1>23, <1>26, <1>27, <1>28, <1>30, <1>33, <1>34, <1>35, <1>37, <1>38 DEF Inv

LEMMA SWTimelineFenceCreateStep ==
    ASSUME Inv, NEW t \in Clients, NEW tl \in Timelines, SWTimelineFenceCreate(t, tl)
    PROVE  Inv'
<1>1. PICK p : p = points + 1
  OBVIOUS
<1>2. PICK f : f = fences + 1
  OBVIOUS
<1>3. PICK sync : sync = [ctx |-> SW, state |-> IF timeline[tl].last >= timeline[tl].seq + 1
                                                THEN "signalled" ELSE "unsignalled"]
  OBVIOUS
<1>4. /\ MayCreate(t, tl) /\ tl \in SWTimelines /\ AddPoint(tl, p, NoLock)
      /\ point' = [point EXCEPT ![p] =
            [NewPoint(tl) EXCEPT !.attached = <<sync>>, !.status = sync.state]]
      /\ fence' = [fence EXCEPT ![f] = NewFence(t, p)]
      /\ points' = p /\ fences' = f
      /\ UNCHANGED <<table, fbLock, th, misr, woken, alive>>
  BY <1>1, <1>2, <1>3 DEF SWTimelineFenceCreate
<1>5. /\ Ready(t) /\ timeline[tl].handle /\ timeline[tl].lock = NoLock
      /\ points < MaxPoints /\ fences < MaxFences
  BY <1>4 DEF MayCreate, Free
<1>6. t \in Threads /\ Proc[t] \in alive /\ Proc[t] \in Processes /\ th[t] = Idle
  BY <1>5, ReadyIs
<1>7. /\ points \in Nat /\ fences \in Nat /\ p \in Points /\ f \in Fences
      /\ f \in 0..MaxFences /\ f > fences /\ p > points /\ p \in 0..MaxPoints
  BY <1>1, <1>2, <1>5, FallbackAssumption DEF Inv, Typed, Points, Fences
<1>8. /\ fence[f].src = {} /\ fence[f].life = "none"
      /\ fence[f].pts = <<>> /\ fence[f].handles = {} /\ fence[f].ref = 0
  BY <1>7 DEF Inv, LifeOK
<1>9. PICK d : d = [NewPoint(tl) EXCEPT !.attached = <<sync>>, !.status = sync.state]
  OBVIOUS
<1>10. /\ timeline[tl].seq \in Nat /\ timeline[tl].seq <= points
       /\ timeline[tl].last \in Nat
       /\ timeline[tl].ref \in Nat /\ timeline[tl].active \in Seq(Points)
       /\ timeline[tl] \in TimelineRec
  BY TimelineIs DEF Inv, SeqOK
<1>11. /\ sync \in Attached /\ sync.state \in {"signalled", "unsignalled"}
       /\ (sync.state # "unsignalled" <=> timeline[tl].seq + 1 <= timeline[tl].last)
  <2>1. CASE timeline[tl].last >= timeline[tl].seq + 1
    BY <1>3, <1>10, <2>1 DEF Attached, States
  <2>2. CASE ~(timeline[tl].last >= timeline[tl].seq + 1)
    BY <1>3, <1>10, <2>2 DEF Attached, States
  <2>3. QED
    BY <2>1, <2>2
<1>12. /\ <<sync>> \in Seq(Attached) /\ Len(<<sync>>) = 1 /\ <<sync>> # <<>>
       /\ <<sync>>[1] = sync
  BY <1>11, OneHas
<1>13. /\ d \in PointRec /\ d.tl = tl /\ d.seq = timeline[tl].seq + 1 /\ d.ref = 1
       /\ d.status = sync.state /\ d.life = "live" /\ d.attached = <<sync>>
  <2>1. timeline[tl].seq + 1 \in 0..MaxPoints
    BY <1>5, <1>7, <1>10, FallbackAssumption
  <2>2. PICK s : s = <<sync>>
    OBVIOUS
  <2>3. s \in Seq(Attached)
    BY <1>12, <2>2
  <2>4. sync.state \in States
    BY <1>11 DEF States
  <2>5. d = [NewPoint(tl) EXCEPT !.attached = s, !.status = sync.state]
    BY <1>9, <2>2
  <2>6. QED
    BY <2>1, <2>2, <2>3, <2>4, <2>5 DEF NewPoint, NoPoint, PointRec, Lives
<1>14. point' \in [Points -> PointRec] /\ point'[p] = d /\ \A q \in Points : q # p => point'[q] = point[q]
  BY <1>4, <1>7, <1>9, <1>13 DEF Inv, Typed
<1>15. PICK a : a = Append(timeline[tl].active, p)
  OBVIOUS
<1>16. a \in Seq(Points) /\ \A q : Has(a, q) <=> Has(timeline[tl].active, q) \/ q = p
  BY <1>7, <1>10, <1>15, AppendIs
<1>17. PICK x : x = [timeline[tl] EXCEPT !.ref = @ + 1, !.seq = @ + 1, !.active = a, !.lock = NoLock]
  OBVIOUS
<1>18. /\ x \in TimelineRec /\ x.ref = timeline[tl].ref + 1 /\ x.seq = timeline[tl].seq + 1
       /\ x.last = timeline[tl].last /\ x.life = timeline[tl].life
       /\ x.handle = timeline[tl].handle /\ x.active = a /\ x.lock = NoLock
  <2>1. timeline[tl].seq + 1 \in 0..MaxPoints /\ timeline[tl].ref + 1 \in Nat
    <3>1. PICK a1, a2 : a1 = timeline[tl].seq /\ a2 = timeline[tl].ref
      OBVIOUS
    <3>2. a1 \in Nat /\ a2 \in Nat /\ a1 <= points
      BY <1>10, <3>1
    <3>3. points < MaxPoints /\ points \in Nat /\ MaxPoints \in Nat
      BY <1>5, <1>7, FallbackAssumption
    <3>4. a1 + 1 \in 0..MaxPoints /\ a2 + 1 \in Nat
      BY <3>2, <3>3
    <3>5. QED
      BY <3>1, <3>4
  <2>2. QED
    BY <1>10, <1>16, <1>17, <2>1 DEF TimelineRec
<1>19. /\ timeline' \in [Timelines -> TimelineRec] /\ timeline'[tl] = x
       /\ \A y \in Timelines : y # tl => timeline'[y] = timeline[y]
  <2>1. timeline' = [timeline EXCEPT ![tl] = x]
    BY <1>4, <1>15, <1>17 DEF AddPoint, Inv, Typed
  <2>2. QED
    BY <1>18, <2>1 DEF Inv, Typed
<1>20. PICK r : r = NewFence(t, p)
  OBVIOUS
<1>21. /\ r \in FenceRec /\ r.pts = <<p>> /\ r.ref = 1 /\ r.handles = {Proc[t]}
       /\ r.life = "live" /\ r.src = {}
  BY <1>6, <1>7, <1>20, OneHas DEF NewFence, NoFence, FenceRec, Lives
<1>22. fence' \in [Fences -> FenceRec] /\ fence'[f] = r /\ OtherFences(f)
  BY <1>4, <1>7, <1>20, <1>21, FenceChanges
<1>23. Typed'
  BY <1>4, <1>7, <1>14, <1>19, <1>22 DEF Inv, Typed
<1>24. Moved(t) /\ th'[t] = Idle /\ Idle.pc = "idle" /\ Idle.op = "none" /\ Idle.got = <<>>
       /\ Idle.looked = {}
  BY <1>4, <1>6, IdleIs DEF Moved
<1>25. Creates(t, tl, p)
  BY <1>1, <1>4, <1>5, <1>6, <1>7, <1>13, <1>14, <1>16, <1>18, <1>19, <1>24 DEF Creates
<1>26. NewSync(p, tl)
  BY <1>4, <1>11, <1>12, <1>13, <1>14, <1>18, <1>19 DEF NewSync
<1>27. Stable /\ TimelineRefs' /\ UnlistOK' /\ SeqOK' /\ ActiveOK' /\ StateOK' /\ OrderOK'
  BY <1>6, <1>25, <1>26, CreatesPlace, CreatesStates
<1>28. /\ point[p].life = "none" /\ point[p].ref = 0 /\ p \notin table
       /\ \A g \in Fences : ~Has(fence[g].pts, p)
       /\ \A u \in Threads : ~Keeps(th[u], p)
       /\ \A u \in Threads :
             th[u].pc \in Creating \cup {"recheck"} => Head(th[u].todo) # p
  BY <1>1, <1>7, FreshPoint
<1>29. ControlOK'
  BY <1>4 DEF Inv, ControlOK, PlaceOK
<1>30. LifeOK'
  <2>1. \A q \in Points : point'[q].life = "none" <=> q > points'
    <3>1. \A q \in Points : q > points <=> q = p \/ q > p
      BY <1>1, <1>7 DEF Points
    <3>2. \A q \in Points : point[q].life = "none" <=> q > points
      BY DEF Inv, LifeOK
    <3>3. point'[p].life # "none" /\ ~(p > p)
      BY <1>7, <1>13, <1>14
    <3>4. QED
      BY <1>4, <1>7, <1>14, <3>1, <3>2, <3>3
  <2>2. \A q \in Points : point'[q].life # "live" =>
            point'[q].status = "unsignalled" /\ q \notin table' /\ point'[q].ref = 0
    BY <1>4, <1>13, <1>14 DEF Inv, LifeOK
  <2>3. \A g \in Fences : g > fences' => g > fences /\ g # f
    BY <1>2, <1>4, <1>7 DEF Fences
  <2>4. \A g \in Fences : g > fences' => fence'[g].src = {} /\ fence'[g].life = "none"
    BY <1>22, <2>3 DEF Inv, LifeOK, OtherFences
  <2>5. \A g \in Fences : fence'[g].life # "live" =>
            fence'[g].pts = <<>> /\ fence'[g].handles = {} /\ fence'[g].ref = 0
    BY <1>21, <1>22 DEF Inv, LifeOK, OtherFences
  <2>6. \A g \in Fences : fence'[g].life = "freed" => fence'[g].src = {}
    BY <1>21, <1>22 DEF Inv, LifeOK, OtherFences
  <2>7. QED
    BY <2>1, <2>2, <2>4, <2>5, <2>6 DEF LifeOK
<1>31. MakersOK'
  <2>1. fences' \in Nat /\ fences <= fences'
    BY <1>4, <1>7
  <2>2. \A u \in Threads, g \in Fences : Makes(th[u], g) =>
           g \in 1..fences /\ fence[g].life = "none" /\ (th[u].pc \in Creating => fence[g].src = {})
    BY FallbackAssumption DEF Inv, MakersOK, Fences
  <2>3. \A g : ~Makes(th'[t], g)
    BY <1>24, IdleHolds
  <2>4. \A g \in 1..fences : g # f
    BY <1>7
  <2>5. \A u \in Threads \ {t}, g \in Fences : Makes(th[u], g) =>
           fence'[g].life = "none" /\ (th[u].pc \in Creating => fence'[g].src = {})
    BY <1>22, <2>2, <2>4 DEF OtherFences
  <2>6. QED
    BY <1>6, <1>24, <2>1, <2>3, <2>5, MakersMoved
<1>32. FenceRefs'
  <2>1. UsersOf(f) = {}
    BY <1>7, <1>8, UsedFence DEF UsersOf
  <2>2. \A u \in Threads, g \in Fences : Uses(th'[u], g) <=> Uses(th[u], g)
    BY <1>4
  <2>3. QED
    BY <1>6, <1>7, <1>8, <1>21, <1>22, <2>1, <2>2, NewFenceRefs
<1>33. PointRefs'
  <2>1. ASSUME NEW q \in Points
        PROVE  point'[q].ref = Cardinality(FencesOf(q)') + Cardinality(KeepersOf(q)')
    <3>1. KeepersOf(q)' = KeepersOf(q)
      BY <1>4, KeepersSame
    <3>2. PICK m, n : m = Cardinality(FencesOf(q)) /\ n = Cardinality(KeepersOf(q))
      OBVIOUS
    <3>3. point[q].ref = m + n /\ m \in Nat /\ n \in Nat
      BY <3>2, FiniteCounts, FewNone DEF Inv, PointRefs
    <3>4. CASE q = p
      <4>1. Has(fence'[f].pts, q) /\ ~Has(fence[f].pts, q)
        BY <1>7, <1>21, <1>22, <1>28, <3>4, OneHas
      <4>2. Cardinality(FencesOf(q)') = m + 1
        BY <1>7, <1>22, <3>2, <4>1, FencesMore
      <4>3. point'[q].ref = point[q].ref + 1
        BY <1>13, <1>14, <1>28, <3>4
      <4>4. QED
        BY <3>1, <3>2, <3>3, <4>2, <4>3
    <3>5. CASE q # p
      <4>1. ~Has(fence'[f].pts, q) /\ ~Has(fence[f].pts, q)
        <5>1. ~Has(<<p>>, q) /\ ~Has(<<>>, q)
          BY <3>5, OneHas, EmptyHas
        <5>2. fence'[f].pts = <<p>> /\ fence[f].pts = <<>>
          BY <1>8, <1>21, <1>22
        <5>3. QED
          BY <5>1, <5>2
      <4>2. FencesOf(q)' = FencesOf(q)
        <5>1. \A g \in Fences : Has(fence'[g].pts, q) <=> Has(fence[g].pts, q)
          BY <1>22, <4>1 DEF OtherFences
        <5>2. QED
          BY <5>1, FencesSame
      <4>3. QED
        BY <1>14, <3>1, <3>2, <3>3, <3>5, <4>2
    <3>6. QED
      BY <3>4, <3>5
  <2>2. QED
    BY <2>1 DEF PointRefs
<1>34. LookedOK'
  <2>1. /\ \A g \in Fences : NoRepeats(fence[g].pts)
        /\ \A u \in Threads : \A g \in th[u].looked : Proc[u] \in fence[g].handles
    BY DEF Inv, LookedOK
  <2>2. th'[t].pc \notin Looking /\ th'[t].pc # "force" /\ th'[t].looked = {}
    BY <1>24 DEF Looking
  <2>3. \A g \in Fences : NoRepeats(fence'[g].pts)
    BY <1>21, <1>22, <2>1, OneHas DEF OtherFences
  <2>4. ASSUME NEW u \in Threads, NEW g \in Fences, g \in th[u].looked \/ Uses(th[u], g)
        PROVE  fence'[g] = fence[g]
    <3>1. g # f
      BY <1>7, <1>8, <2>4, UsedFence
    <3>2. QED
      BY <1>22, <3>1 DEF OtherFences
  <2>5. QED
    BY <1>6, <1>24, <1>27, <2>1, <2>2, <2>3, <2>4, LookedMoved
<1>35. LockOK'
  <2>1. ASSUME NEW u \in Threads, NEW q \in Points,
               th'[u].pc \in {"create", "recheck"}, Head(th'[u].todo) = q
        PROVE  /\ timeline'[point'[q].tl].lock = u
               /\ th'[u].pc = "create" =>
                     th'[u].tl = point'[q].tl /\ point'[q].seq = timeline'[point'[q].tl].seq
               /\ th'[u].pc = "recheck" => Len(point'[q].attached) > 1
    <3>1. th'[u] = th[u]
      BY <1>4
    <3>2. q # p
      BY <1>28, <2>1, <3>1 DEF Creating
    <3>3. /\ timeline[point[q].tl].lock = u
          /\ th[u].pc = "create" =>
                th[u].tl = point[q].tl /\ point[q].seq = timeline[point[q].tl].seq
          /\ th[u].pc = "recheck" => Len(point[q].attached) > 1
      BY <2>1, <3>1 DEF Inv, LockOK, Adds, Tl
    <3>4. point[q].life = "live"
      BY <2>1, <3>1, LockedPoint DEF Creating
    <3>5. point[q].tl \in Timelines /\ point[q].tl # tl
      BY <1>5, <3>3, <3>4, LiveTimeline, FallbackAssumption
    <3>6. QED
      BY <1>14, <1>19, <3>1, <3>2, <3>3, <3>5
  <2>2. QED
    BY <2>1 DEF LockOK, Adds, Tl
<1>36. \A q \in Points : q # p => (HasSync(q)' <=> HasSync(q)) /\ point'[q] = point[q]
  BY <1>14 DEF HasSync
<1>37. HasSync(p)'
  BY <1>12, <1>13, <1>14 DEF HasSync
<1>38. SyncOK'
  <2>1. ASSUME NEW q \in Points, Bare(q)'
        PROVE  /\ point'[q].status = "unsignalled" /\ q \notin table'
               /\ ~IsSW(q)' /\ point'[q].ref <= 1
               /\ \A g \in Fences : ~Has(fence'[g].pts, q)
               /\ \E u \in Threads : Begins(th'[u], q)
    <3>1. q # p
      BY <1>37, <2>1 DEF Bare
    <3>2. Bare(q)
      BY <1>36, <2>1, <3>1 DEF Bare
    <3>3. /\ point[q].status = "unsignalled" /\ q \notin table
          /\ ~IsSW(q) /\ point[q].ref <= 1
          /\ \A g \in Fences : ~Has(fence[g].pts, q)
          /\ \E u \in Threads : Begins(th[u], q)
      BY <3>2 DEF Inv, SyncOK
    <3>4. ~IsSW(q)'
      BY <1>36, <3>1, <3>3 DEF IsSW, Tl
    <3>5. \A g \in Fences : ~Has(fence'[g].pts, q)
      <4>1. fence'[f].pts = <<p>>
        BY <1>21, <1>22
      <4>2. ~Has(<<p>>, q)
        BY <3>1, OneHas
      <4>3. ~Has(fence'[f].pts, q)
        BY <4>1, <4>2
      <4>4. QED
        BY <1>22, <3>3, <4>3 DEF OtherFences
    <3>6. QED
      BY <1>4, <1>36, <3>1, <3>3, <3>4, <3>5
  <2>2. \A q \in table' : point'[q].ref > 0
    BY <1>4, <1>28, <1>36 DEF Inv, SyncOK, Typed
  <2>3. ASSUME NEW u \in Threads, NEW q \in Points, Head(th'[u].todo) = q,
               th'[u].pc \in Creating
        PROVE  /\ th'[u].pc = "create" => ~HasSync(q)'
               /\ th'[u].pc = "insert" => HasSync(q)'
    <3>1. q # p /\ th'[u] = th[u]
      BY <1>4, <1>28, <2>3
    <3>2. QED
      BY <1>36, <2>3, <3>1 DEF Inv, SyncOK
  <2>4. \A u \in Threads, q \in Points : Has(th'[u].got, q) => HasSync(q)'
    BY <1>4, <1>36, <1>37 DEF Inv, SyncOK
  <2>5. QED
    BY <2>1, <2>2, <2>3, <2>4 DEF SyncOK, Creating
<1>39. MergedOK'
  <2>1. \A g \in Fences : fence'[g].src \subseteq fence[g].src
    BY <1>21, <1>22 DEF OtherFences
  <2>2. ASSUME NEW g \in Fences, NEW q \in Points, Carries(g, q)
        PROVE  Carries(g, q)' \/ fence'[g].src = {}
    <3>1. CASE g = f
      BY <1>21, <1>22, <3>1
    <3>2. CASE g # f
      BY <1>4, <1>22, <2>2, <3>2 DEF Carries, OtherFences
    <3>3. QED
      BY <3>1, <3>2
  <2>3. QED
    BY <1>27, <2>1, <2>2, MergedKept
<1>40. QED
  BY <1>23, <1>27, <1>29, <1>30, <1>31, <1>32, <1>33, <1>34, <1>35, <1>38, <1>39 DEF Inv

LEMMA CheckpointAttachedStep ==
    ASSUME Inv, NEW t \in Threads, CheckpointAttached(t)
    PROVE  Inv'
<1>1. PICK p : p = Head(th[t].todo)
  OBVIOUS
<1>2. PICK sync : sync = [ctx |-> Native, state |-> "unsignalled"]
  OBVIOUS
<1>3. /\ th[t].pc = "create" /\ Step(t, "insert")
      /\ point' = [point EXCEPT ![p].attached = <<sync>>]
      /\ timeline' = [timeline EXCEPT ![Tl(p)].lock = NoLock]
      /\ UNCHANGED <<fence, points, fences, table, fbLock, misr, woken, alive>>
  BY <1>1, <1>2 DEF CheckpointAttached
<1>4. p \in Points /\ point[p].ref > 0 /\ point[p].life = "live" /\ th[t].todo # <<>>
  BY <1>1, <1>3, LockedPoint DEF Creating
<1>5. /\ ~HasSync(p) /\ ~NativeSignalled(p)
  BY <1>1, <1>3, <1>4 DEF Inv, SyncOK, NativeSignalled
<1>6. point[p].status = "unsignalled" /\ ~IsSW(p)
  BY <1>4, <1>5 DEF Inv, SyncOK, Bare
<1>7. PICK tl : tl = point[p].tl
  OBVIOUS
<1>8. /\ tl \in Timelines /\ timeline[tl].lock = t /\ point[p].seq = timeline[tl].seq
  BY <1>1, <1>3, <1>4, <1>7, LiveTimeline DEF Inv, LockOK, Tl
<1>9. "insert" \in PCs
  BY DEF PCs
<1>10. /\ th' \in [Threads -> ThreadRec] /\ Moved(t) /\ th'[t] \in ThreadRec
       /\ th'[t].pc = "insert" /\ th'[t].op = th[t].op /\ th'[t].f = th[t].f
       /\ th'[t].new = th[t].new /\ th'[t].looked = th[t].looked
       /\ th'[t].todo = th[t].todo /\ th'[t].got = th[t].got
       /\ th'[t].err = th[t].err /\ th'[t].tl = th[t].tl
  BY <1>3, <1>9, StepIs
<1>11. /\ Shape(th[t]) /\ PlaceOK(t) /\ th[t].op = "none"
  <2>1. Shape(th[t]) /\ PlaceOK(t) /\ th[t].op \in {"none", "merge", "resolve"}
    BY ThreadIs
  <2>2. QED
    BY <1>3, <2>1 DEF Shape, Looking
<1>12. sync \in Attached /\ sync.state = "unsignalled"
  BY <1>2, FallbackAssumption DEF Attached, States
<1>13. /\ <<sync>> \in Seq(Attached) /\ <<sync>> # <<>> /\ <<sync>>[1] = sync
  BY <1>12, OneHas
<1>14. PICK d : d = [point[p] EXCEPT !.attached = <<sync>>]
  OBVIOUS
<1>15. /\ d \in PointRec /\ d.tl = point[p].tl /\ d.seq = point[p].seq /\ d.ref = point[p].ref
       /\ d.status = point[p].status /\ d.life = point[p].life /\ d.attached = <<sync>>
  <2>1. PICK s : s = <<sync>>
    OBVIOUS
  <2>2. s \in Seq(Attached)
    BY <1>13, <2>1
  <2>3. point[p] \in PointRec
    BY <1>4, PointIs
  <2>4. QED
    BY <1>14, <2>1, <2>2, <2>3 DEF PointRec
<1>16. point' \in [Points -> PointRec] /\ point'[p] = d /\ \A q \in Points : q # p => point'[q] = point[q]
  <2>1. point' = [point EXCEPT ![p] = d]
    BY <1>3, <1>14 DEF Inv, Typed
  <2>2. QED
    BY <1>4, <1>15, <2>1 DEF Inv, Typed
<1>17. \A q \in Points : /\ point'[q].tl = point[q].tl /\ point'[q].seq = point[q].seq
                         /\ point'[q].ref = point[q].ref /\ point'[q].life = point[q].life
                         /\ point'[q].status = point[q].status
  BY <1>15, <1>16
<1>18. /\ \A q \in Points : q # p => (HasSync(q)' <=> HasSync(q))
       /\ HasSync(p)'
       /\ \A q \in Points : NativeSignalled(q)' <=> NativeSignalled(q)
  <2>1. \A q \in Points : q # p =>
           (HasSync(q)' <=> HasSync(q)) /\ (NativeSignalled(q)' <=> NativeSignalled(q))
    BY <1>16 DEF HasSync, NativeSignalled, NativeState
  <2>2. point'[p].attached = <<sync>>
    BY <1>15, <1>16
  <2>3. HasSync(p)' /\ ~NativeSignalled(p)'
    BY <1>12, <1>13, <2>2 DEF HasSync, NativeSignalled, NativeState
  <2>4. QED
    BY <1>5, <2>1, <2>3
<1>19. /\ timeline' \in [Timelines -> TimelineRec] /\ timeline'[tl].lock = NoLock
       /\ \A x \in Timelines :
             /\ timeline'[x].life = timeline[x].life /\ timeline'[x].ref = timeline[x].ref
             /\ timeline'[x].seq = timeline[x].seq /\ timeline'[x].last = timeline[x].last
             /\ timeline'[x].handle = timeline[x].handle
             /\ timeline'[x].active = timeline[x].active
             /\ x # tl => timeline'[x].lock = timeline[x].lock
  <2>1. timeline' = [timeline EXCEPT ![tl].lock = NoLock]
    BY <1>3, <1>7 DEF Tl
  <2>2. timeline \in [Timelines -> TimelineRec]
    BY DEF Inv, Typed
  <2>3. PICK x : x = [timeline[tl] EXCEPT !.lock = NoLock]
    OBVIOUS
  <2>4. /\ x \in TimelineRec /\ x.lock = NoLock /\ x.life = timeline[tl].life
        /\ x.ref = timeline[tl].ref /\ x.seq = timeline[tl].seq
        /\ x.last = timeline[tl].last /\ x.handle = timeline[tl].handle
        /\ x.active = timeline[tl].active
    BY <1>8, <2>2, <2>3 DEF TimelineRec
  <2>5. timeline' = [timeline EXCEPT ![tl] = x]
    BY <2>1, <2>2, <2>3
  <2>6. QED
    BY <1>8, <2>2, <2>4, <2>5
<1>20. Typed'
  BY <1>3, <1>10, <1>16, <1>19 DEF Inv, Typed
<1>21. SamePoints /\ SameTimelines /\ OldPlaces
  BY <1>17, <1>19 DEF SamePoints, SameTimelines, OldPlaces
<1>22. Stable
  BY <1>3, <1>17, <1>18 DEF Stable
<1>23. ControlOK'
  <2>1. Shape(th'[t])
    BY <1>3, <1>10, <1>11 DEF Shape, Creating, Looking, Waiting
  <2>2. PlaceOK(t)'
    BY <1>3, <1>10, <1>11 DEF PlaceOK, Creating
  <2>3. QED
    BY <1>3, <1>10, <2>1, <2>2, ControlMoved
<1>24. LifeOK'
  BY <1>3, <1>17 DEF Inv, LifeOK
<1>25. SameHold(th[t], th'[t]) /\ \A f : Makes(th'[t], f) <=> Makes(th[t], f)
  BY <1>3, <1>10 DEF SameHold, Keeps, Owed, Unlists, Uses, Frees, Makes, Creating, Waiting
<1>26. SameThreads
  BY <1>10, <1>25 DEF SameThreads, SameHold, Moved
<1>27. MakersOK'
  <2>1. \A u \in Threads, f \in 0..MaxFences : Makes(th'[u], f) =>
           Makes(th[u], f) /\ (th'[u].pc \in Creating => th[u].pc \in Creating)
    BY <1>3, <1>10, <1>25 DEF Moved, Creating
  <2>2. QED
    BY <1>3, <2>1, MakersKept
<1>28. PointRefs'
  BY <1>3, <1>21, <1>26, PointRefsKept
<1>29. FenceRefs'
  BY <1>3, <1>26, FenceRefsKept DEF SameThreads, SameHold
<1>30. TimelineRefs'
  BY <1>21, <1>26, TimelineRefsKept DEF SameThreads, SameHold
<1>31. UnlistOK'
  BY <1>17, <1>26, UnlistKept DEF SameThreads, SameHold
<1>32. LookedOK'
  <2>1. /\ \A g \in Fences : NoRepeats(fence[g].pts)
        /\ \A u \in Threads : \A g \in th[u].looked : Proc[u] \in fence[g].handles
    BY DEF Inv, LookedOK
  <2>2. th'[t].pc \notin Looking /\ th'[t].pc # "force"
    BY <1>10 DEF Looking
  <2>3. QED
    BY <1>3, <1>10, <1>22, <2>1, <2>2, LookedMoved
<1>33. \A u \in Threads : u # t =>
          th'[u] = th[u] /\ (th[u].pc = "create" => Head(th[u].todo) # p)
  <2>1. ASSUME NEW u \in Threads, u # t, th[u].pc = "create", Head(th[u].todo) = p
        PROVE  FALSE
    <3>1. timeline[tl].lock = u
      BY <1>4, <1>7, <2>1 DEF Inv, LockOK, Tl
    <3>2. QED
      BY <1>8, <2>1, <3>1
  <2>2. QED
    BY <1>10, <2>1 DEF Moved
<1>34. SyncOK'
  <2>1. ASSUME NEW q \in Points, Bare(q)'
        PROVE  /\ point'[q].status = "unsignalled" /\ q \notin table'
               /\ ~IsSW(q)' /\ point'[q].ref <= 1
               /\ \A g \in Fences : ~Has(fence'[g].pts, q)
               /\ \E u \in Threads : Begins(th'[u], q)
    <3>1. q # p
      BY <1>18, <2>1 DEF Bare
    <3>2. Bare(q)
      BY <1>17, <1>18, <2>1, <3>1 DEF Bare
    <3>3. /\ point[q].status = "unsignalled" /\ q \notin table
          /\ ~IsSW(q) /\ point[q].ref <= 1
          /\ \A g \in Fences : ~Has(fence[g].pts, q)
          /\ \E u \in Threads : Begins(th[u], q)
      BY <3>2 DEF Inv, SyncOK
    <3>4. ~IsSW(q)'
      BY <1>17, <3>3 DEF IsSW, Tl
    <3>5. ~Begins(th[t], q)
      BY <1>1, <3>1, OneHas DEF Begins
    <3>6. \E u \in Threads : Begins(th'[u], q)
      BY <1>33, <3>3, <3>5
    <3>7. QED
      BY <1>3, <1>17, <3>3, <3>4, <3>6
  <2>2. \A q \in table' : point'[q].ref > 0
    BY <1>3, <1>17 DEF Inv, SyncOK, Typed
  <2>3. ASSUME NEW u \in Threads, NEW q \in Points, Head(th'[u].todo) = q
        PROVE  /\ th'[u].pc = "create" => ~HasSync(q)'
               /\ th'[u].pc = "insert" => HasSync(q)'
    <3>1. CASE u = t
      BY <1>1, <1>10, <1>18, <2>3, <3>1
    <3>2. CASE u # t
      <4>1. th'[u] = th[u] /\ (th[u].pc = "create" => q # p)
        BY <1>33, <2>3, <3>2
      <4>2. /\ th[u].pc = "create" => ~HasSync(q)
            /\ th[u].pc = "insert" => HasSync(q)
        BY <2>3, <4>1 DEF Inv, SyncOK
      <4>3. QED
        BY <1>18, <4>1, <4>2
    <3>3. QED
      BY <3>1, <3>2
  <2>4. \A u \in Threads, q \in Points : Has(th'[u].got, q) => HasSync(q)'
    BY <1>10, <1>18 DEF Inv, SyncOK, Moved
  <2>5. QED
    BY <2>1, <2>2, <2>3, <2>4 DEF SyncOK
<1>35. LockOK'
  <2>1. \A q \in Points : Len(point[q].attached) > 1 /\ point'[q].life = "live"
                             => Len(point'[q].attached) > 1
    <3>1. ~(Len(point[p].attached) > 1)
      <4>1. point[p].attached = <<>>
        BY <1>5 DEF HasSync
      <4>2. QED
        BY <4>1
    <3>2. QED
      BY <1>16, <3>1
  <2>2. ASSUME NEW u \in Threads, th'[u].pc \in {"create", "recheck"}
        PROVE  /\ th'[u] = th[u]
               /\ point'[Head(th[u].todo)].life = "live"
               /\ \A x \in Timelines : timeline[x].lock = u /\ timeline[x].ref > 0 =>
                     timeline'[x].lock = u /\ timeline'[x].seq = timeline[x].seq
    <3>1. u # t /\ th'[u] = th[u]
      BY <1>10, <1>33, <2>2
    <3>2. point'[Head(th[u].todo)].life = "live"
      BY <1>17, <2>2, <3>1, LockedPoint DEF Creating
    <3>3. QED
      BY <1>8, <1>19, <3>1, <3>2
  <2>3. QED
    BY <1>21, <2>1, <2>2, LockKept
<1>36. \A q \in Points : point[q].life = "live" => point[q].tl \in Timelines
  BY LiveTimeline
<1>37. SeqOK'
  <2>1. \A x \in Timelines : timeline'[x].last <= timeline'[x].seq /\ timeline'[x].seq <= points'
    BY <1>3, <1>19 DEF Inv, SeqOK
  <2>2. QED
    BY <1>17, <1>19, <1>21, <1>36, <2>1, SeqKept
<1>38. ActiveOK'
  <2>1. \A x \in Timelines, q \in Points : Has(timeline'[x].active, q) =>
           Has(timeline[x].active, q) /\ point'[q].life = "live"
    BY <1>17, <1>19 DEF Inv, ActiveOK
  <2>2. QED
    BY <1>17, <1>18, <1>19, <1>21, <1>36, <2>1, ActiveKept
<1>39. StateOK'
  <2>1. ASSUME NEW q \in Points
        PROVE  Follows(q)' /\ (point'[q].status # "unsignalled" => NativeSignalled(q)')
    <3>1. CASE q = p
      BY <1>6, <1>17, <3>1 DEF Follows
    <3>2. CASE q # p
      <4>1. Follows(q) /\ (point[q].status # "unsignalled" => NativeSignalled(q))
        BY DEF Inv, StateOK
      <4>2. point'[q] = point[q]
        BY <1>16, <3>2
      <4>3. \A u \in Threads : (Tells(th[u], q) => Tells(th'[u], q))
                               /\ (Adds(th[u], q) => Adds(th'[u], q))
        BY <1>3, <1>33 DEF Tells, Adds
      <4>4. Follows(q)'
        BY <4>1, <4>2, <4>3 DEF Follows
      <4>5. QED
        BY <1>18, <4>1, <4>2, <4>4
    <3>3. QED
      BY <3>1, <3>2
  <2>2. ASSUME NEW u \in Threads, NEW q \in Points,
               th'[u].pc \in {"mark", "walk"}, Head(th'[u].todo) = q
        PROVE  NativeSignalled(q)'
    <3>1. th'[u] = th[u]
      BY <1>10, <2>2 DEF Moved
    <3>2. NativeSignalled(q)
      BY <2>2, <3>1 DEF Inv, StateOK
    <3>3. QED
      BY <1>18, <3>2
  <2>3. QED
    BY <2>1, <2>2 DEF StateOK
<1>40. \A q \in Points : (IsSW(q)' <=> IsSW(q)) /\ Tl(q)' = Tl(q)
  BY <1>17 DEF IsSW, Tl
<1>41. OrderOK'
  <2>1. ASSUME NEW a \in Points, NEW b \in Points,
               point'[a].life = "live", point'[b].life = "live", ~IsSW(a)',
               Later(a, b)', HasSync(b)', NativeSignalled(a)'
        PROVE  NativeSignalled(b)'
    <3>1. /\ point[a].life = "live" /\ point[b].life = "live" /\ ~IsSW(a)
          /\ Later(a, b) /\ NativeSignalled(a)
      BY <1>17, <1>18, <1>40, <2>1 DEF Later
    <3>2. CASE b = p
      <4>1. a # p
        BY <1>5, <3>1
      <4>2. point[a].tl = tl /\ point[p].seq <= point[a].seq
        BY <1>7, <3>1, <3>2 DEF Later, Tl
      <4>3. point[a].seq \in 1..timeline[tl].seq /\ point[p].seq \in 0..MaxPoints
            /\ timeline[tl].seq \in Nat
        BY <1>4, <1>8, <3>1, <4>2, PointIs, TimelineIs DEF Inv, SeqOK, Tl
      <4>4. point[a].seq = point[p].seq
        BY <1>8, <4>2, <4>3
      <4>5. QED
        BY <1>4, <1>7, <3>1, <4>1, <4>2, <4>4 DEF Inv, SeqOK, Tl
    <3>3. CASE b # p
      <4>1. HasSync(b)
        BY <1>18, <2>1, <3>3
      <4>2. NativeSignalled(b)
        BY <3>1, <4>1 DEF Inv, OrderOK
      <4>3. QED
        BY <1>18, <4>2
    <3>4. QED
      BY <3>2, <3>3
  <2>2. ASSUME NEW q \in Points, point'[q].life = "live", IsSW(q)', Owner[Tl(q)'] \in alive'
        PROVE  NativeSignalled(q)' <=> point'[q].seq <= timeline'[Tl(q)'].last
    <3>1. point[q].life = "live" /\ IsSW(q) /\ Owner[Tl(q)] \in alive /\ Tl(q) \in Timelines
      BY <1>3, <1>17, <1>36, <1>40, <2>2 DEF Tl
    <3>2. NativeSignalled(q) <=> point[q].seq <= timeline[Tl(q)].last
      BY <3>1 DEF Inv, OrderOK
    <3>3. QED
      BY <1>17, <1>18, <1>19, <1>40, <3>1, <3>2
  <2>3. QED
    BY <2>1, <2>2 DEF OrderOK
<1>42. MergedOK'
  <2>1. ASSUME NEW g \in Fences, NEW q \in Points, Carries(g, q)
        PROVE  Carries(g, q)'
    BY <1>3, <1>10, <1>11, <2>1 DEF Carries, Moved
  <2>2. QED
    BY <1>3, <1>22, <2>1, MergedKept
<1>43. QED
  BY <1>20, <1>23, <1>24, <1>27, <1>28, <1>29, <1>30, <1>31, <1>32, <1>34, <1>35,
     <1>37, <1>38, <1>39, <1>41, <1>42 DEF Inv

---------------------------------------------------------------------------
(* Points are signalled *)

LEMMA SignalledIs ==
    ASSUME NEW s \in Seq(Attached), NEW state \in {"signalled", "errored"}
    PROVE  /\ Signalled(s, state) \in Seq(Attached)
           /\ Len(Signalled(s, state)) = Len(s)
           /\ (s # <<>> => Signalled(s, state) # <<>> /\ 1 \in 1..Len(s))
           /\ \A i \in 1..Len(s) : Signalled(s, state)[i].state # "unsignalled"
<1>1. Len(s) \in Nat /\ DOMAIN s = 1..Len(s) /\ \A i \in 1..Len(s) : s[i] \in Attached
  BY LenProperties, ElementOfSeq
<1>2. PICK r : r = Signalled(s, state)
  OBVIOUS
<1>3. r = [i \in 1..Len(s) |-> SignalSync(s[i], state)]
  BY <1>1, <1>2 DEF Signalled
<1>4. ASSUME NEW x \in Attached
      PROVE  SignalSync(x, state) \in Attached /\ SignalSync(x, state).state # "unsignalled"
  BY <1>4 DEF SignalSync, Attached, States
<1>5. \A i \in 1..Len(s) : r[i] \in Attached /\ r[i].state # "unsignalled"
  BY <1>1, <1>3, <1>4
<1>6. r \in [1..Len(s) -> Attached]
  BY <1>3, <1>5
<1>7. r \in Seq(Attached) /\ Len(r) = Len(s)
  BY <1>1, <1>6, SeqDef, LenProperties
<1>8. s # <<>> => r # <<>> /\ 1 \in 1..Len(s)
  BY <1>1, <1>7, NonEmpty
<1>9. QED
  BY <1>2, <1>5, <1>7, <1>8

\* SyncPtSignalAttached, and the state of the point with it.
LEMMA SignalAttachedIs ==
    ASSUME NEW r \in PointRec, NEW state \in {"signalled", "errored"},
           NEW d, d = SignalAttached(r, state)
    PROVE  /\ d \in PointRec /\ d.tl = r.tl /\ d.seq = r.seq /\ d.ref = r.ref
           /\ d.status = r.status /\ d.life = r.life
           /\ Len(d.attached) = Len(r.attached) /\ DOMAIN d.attached = 1..Len(r.attached)
           /\ (r.attached # <<>> => d.attached # <<>> /\ 1 \in 1..Len(r.attached))
           /\ \A i \in 1..Len(r.attached) : d.attached[i].state # "unsignalled"
<1>1. PICK s : s = Signalled(r.attached, state)
  OBVIOUS
<1>2. r.attached \in Seq(Attached)
  BY DEF PointRec
<1>3. /\ s \in Seq(Attached) /\ Len(s) = Len(r.attached)
      /\ (r.attached # <<>> => s # <<>> /\ 1 \in 1..Len(r.attached))
      /\ \A i \in 1..Len(r.attached) : s[i].state # "unsignalled"
  BY <1>1, <1>2, SignalledIs
<1>4. d = [r EXCEPT !.attached = s]
  BY <1>1 DEF SignalAttached
<1>5. /\ d \in PointRec /\ d.tl = r.tl /\ d.seq = r.seq /\ d.ref = r.ref
      /\ d.status = r.status /\ d.life = r.life /\ d.attached = s
  BY <1>3, <1>4 DEF PointRec
<1>6. DOMAIN s = 1..Len(s)
  BY <1>3, LenProperties
<1>7. QED
  BY <1>3, <1>5, <1>6

LEMMA NoticedIs ==
    ASSUME NEW r \in PointRec,
           NEW d, d = SignalAttached([r EXCEPT !.status = "signalled"], "signalled")
    PROVE  /\ d \in PointRec /\ d.tl = r.tl /\ d.seq = r.seq /\ d.ref = r.ref
           /\ d.status = "signalled" /\ d.life = r.life
           /\ Len(d.attached) = Len(r.attached) /\ DOMAIN d.attached = 1..Len(r.attached)
           /\ (r.attached # <<>> => d.attached # <<>> /\ 1 \in 1..Len(r.attached))
           /\ \A i \in 1..Len(r.attached) : d.attached[i].state # "unsignalled"
<1>1. PICK e : e = [r EXCEPT !.status = "signalled"]
  OBVIOUS
<1>2. /\ e \in PointRec /\ e.tl = r.tl /\ e.seq = r.seq /\ e.ref = r.ref
      /\ e.status = "signalled" /\ e.life = r.life /\ e.attached = r.attached
  BY <1>1 DEF PointRec, States
<1>3. d = SignalAttached(e, "signalled")
  BY <1>1
<1>4. QED
  BY <1>2, <1>3, SignalAttachedIs

\* The states of a point go forward.
Advanced(p) ==
    /\ point'[p].life = point[p].life /\ point'[p].tl = point[p].tl
    /\ point'[p].seq = point[p].seq /\ point'[p].ref = point[p].ref
    /\ point[p].life = "live" /\ HasSync(p) /\ HasSync(p)'
    /\ Len(point[p].attached) > 1 => Len(point'[p].attached) > 1
    /\ NativeSignalled(p) => NativeSignalled(p)'
    /\ point'[p].status # "unsignalled" => NativeSignalled(p)'
    /\ Follows(p)'
StatesAdvance ==
    /\ \A p \in Points : point'[p] = point[p] \/ Advanced(p)
    /\ SameTimelines
    /\ fence' = fence /\ points' = points /\ fences' = fences /\ alive' = alive
    /\ \A p \in table' : p \in table \/ (p \in Points /\ point[p].ref > 0 /\ HasSync(p))
    /\ \A tl \in Timelines : timeline'[tl].last <= timeline[tl].seq
    /\ \A tl \in Timelines, p \in Points :
          Has(timeline'[tl].active, p) => Has(timeline[tl].active, p)
    /\ \A tl \in Timelines, p \in Points :
          Has(timeline[tl].active, p) => Has(timeline'[tl].active, p) \/ NativeSignalled(p)'

LEMMA StatesQuiet ==
    ASSUME Inv, StatesAdvance
    PROVE  /\ Quiet /\ OldPlaces /\ SamePoints /\ SameTimelines
           /\ \A p \in Points : NativeSignalled(p) => NativeSignalled(p)'
           /\ \A p \in Points : Len(point[p].attached) > 1 => Len(point'[p].attached) > 1
<1>1. /\ \A p \in Points : point'[p] = point[p] \/ Advanced(p)
      /\ SameTimelines
      /\ fence' = fence /\ points' = points /\ fences' = fences /\ alive' = alive
      /\ \A p \in table' : p \in table \/ (p \in Points /\ point[p].ref > 0 /\ HasSync(p))
  BY DEF StatesAdvance
<1>2. ASSUME NEW p \in Points
      PROVE  /\ point'[p].life = point[p].life /\ point'[p].tl = point[p].tl
             /\ point'[p].seq = point[p].seq /\ point'[p].ref = point[p].ref
             /\ HasSync(p)' <=> HasSync(p)
             /\ NativeSignalled(p) => NativeSignalled(p)'
             /\ Len(point[p].attached) > 1 => Len(point'[p].attached) > 1
             /\ point[p].life # "live" \/ ~HasSync(p) => point'[p].status = "unsignalled"
  <2>1. CASE point'[p] = point[p]
    <3>1. point[p].life # "live" \/ ~HasSync(p) => point[p].status = "unsignalled"
      BY DEF Inv, LifeOK, SyncOK, Bare
    <3>2. QED
      BY <2>1, <3>1 DEF HasSync, NativeSignalled, NativeState
  <2>2. CASE Advanced(p)
    BY <2>2 DEF Advanced
  <2>3. QED
    BY <1>1, <2>1, <2>2
<1>3. SamePoints
  BY <1>2 DEF SamePoints
<1>4. OldPlaces
  BY <1>2 DEF OldPlaces
<1>5. Quiet
  BY <1>1, <1>2, <1>3 DEF Quiet
<1>6. QED
  BY <1>1, <1>2, <1>3, <1>4, <1>5

LEMMA StatesStep ==
    ASSUME Inv, StatesAdvance, QuietThreads,
           \A u \in Threads, p \in Points : ~Advanced(p) =>
              (Tells(th[u], p) => Tells(th'[u], p)) /\ (Adds(th[u], p) => Adds(th'[u], p)),
           \A u \in Threads, p \in Points :
              th'[u].pc \in {"mark", "walk"} /\ Head(th'[u].todo) = p => NativeSignalled(p),
           Typed', ControlOK', LockOK', OrderOK'
    PROVE  Inv'
<1>1. /\ Quiet /\ OldPlaces /\ SamePoints /\ SameTimelines
      /\ \A p \in Points : NativeSignalled(p) => NativeSignalled(p)'
  BY StatesQuiet
<1>2. \A p \in Points : point[p].life = "live" => point[p].tl \in Timelines
  BY LiveTimeline
<1>3. /\ points' = points
      /\ \A tl \in Timelines : timeline'[tl].last <= timeline[tl].seq
      /\ \A tl \in Timelines, p \in Points :
            Has(timeline'[tl].active, p) => Has(timeline[tl].active, p)
      /\ \A tl \in Timelines, p \in Points :
            Has(timeline[tl].active, p) => Has(timeline'[tl].active, p) \/ NativeSignalled(p)'
  BY DEF StatesAdvance
<1>4. SeqOK'
  <2>1. \A tl \in Timelines : timeline'[tl].last <= timeline'[tl].seq
                              /\ timeline'[tl].seq <= points'
    BY <1>1, <1>3 DEF SameTimelines, Inv, SeqOK
  <2>2. QED
    BY <1>1, <1>2, <2>1, SeqKept DEF SamePoints, SameTimelines
<1>5. ActiveOK'
  <2>1. \A tl \in Timelines, p \in Points : Has(timeline'[tl].active, p) =>
           Has(timeline[tl].active, p) /\ point'[p].life = "live"
    BY <1>1, <1>3 DEF SamePoints, Inv, ActiveOK
  <2>2. \A p \in Points :
           point'[p].life = "live" /\ Has(timeline[point[p].tl].active, p) =>
              Has(timeline'[point[p].tl].active, p) \/ NativeSignalled(p)'
    BY <1>1, <1>2, <1>3 DEF SamePoints
  <2>3. QED
    BY <1>1, <2>1, <2>2, ActiveKept
<1>6. StateOK'
  <2>1. ASSUME NEW p \in Points
        PROVE  Follows(p)' /\ (point'[p].status # "unsignalled" => NativeSignalled(p)')
    <3>1. CASE ~Advanced(p)
      <4>1. Follows(p) /\ (point[p].status # "unsignalled" => NativeSignalled(p))
        BY DEF Inv, StateOK
      <4>2. point'[p] = point[p]
        BY <3>1 DEF StatesAdvance
      <4>3. \A u \in Threads :
               (Tells(th[u], p) => Tells(th'[u], p)) /\ (Adds(th[u], p) => Adds(th'[u], p))
        BY <3>1
      <4>4. Follows(p)'
        BY <4>1, <4>2, <4>3 DEF Follows
      <4>5. QED
        BY <1>1, <4>1, <4>2, <4>4
    <3>2. CASE Advanced(p)
      BY <3>2 DEF Advanced
    <3>3. QED
      BY <3>1, <3>2 DEF StatesAdvance
  <2>2. QED
    BY <1>1, <2>1 DEF StateOK
<1>7. QED
  BY <1>1, <1>4, <1>5, <1>6, QuietInv

\* The locks that other threads hold stay theirs.
LEMMA StatesLock ==
    ASSUME Inv, StatesAdvance,
           \A u \in Threads : th'[u].pc \in {"create", "recheck"} =>
              /\ th'[u] = th[u]
              /\ \A tl \in Timelines : timeline[tl].lock = u => timeline'[tl].lock = u
    PROVE  LockOK'
<1>1. /\ OldPlaces /\ SamePoints /\ SameTimelines
      /\ \A p \in Points : Len(point[p].attached) > 1 => Len(point'[p].attached) > 1
  BY StatesQuiet
<1>2. ASSUME NEW u \in Threads, th'[u].pc \in {"create", "recheck"}
      PROVE  /\ th'[u] = th[u]
             /\ point'[Head(th[u].todo)].life = "live"
             /\ \A tl \in Timelines : timeline[tl].lock = u /\ timeline[tl].ref > 0 =>
                   timeline'[tl].lock = u /\ timeline'[tl].seq = timeline[tl].seq
  <2>1. th'[u] = th[u]
    BY <1>2
  <2>2. Head(th[u].todo) \in Points /\ point[Head(th[u].todo)].life = "live"
    BY <1>2, <2>1, LockedPoint DEF Creating
  <2>3. QED
    BY <1>1, <1>2, <2>1, <2>2 DEF SamePoints, SameTimelines
<1>3. QED
  BY <1>1, <1>2, LockKept

\* The order, when no first sync is signalled: a timeline of a live process is
\* not advanced.
LEMMA StatesOrder ==
    ASSUME Inv, StatesAdvance,
           \A p \in Points : NativeSignalled(p)' => NativeSignalled(p),
           \A p \in Points : point[p].life = "live" /\ IsSW(p) /\ Owner[point[p].tl] \in alive =>
              timeline'[point[p].tl].last = timeline[point[p].tl].last
    PROVE  OrderOK'
<1>1. /\ Quiet /\ OldPlaces /\ SamePoints
      /\ \A p \in Points : NativeSignalled(p) => NativeSignalled(p)'
  BY StatesQuiet
<1>2. \A p \in Points : HasSync(p)' <=> HasSync(p)
  BY <1>1 DEF Quiet
<1>3. alive' \subseteq alive
  BY DEF StatesAdvance
<1>4. QED
  BY <1>1, <1>2, <1>3, OrderKept DEF SamePoints

LEMMA PointChanges ==
    ASSUME Inv, NEW p \in Points, NEW d \in PointRec, point' = [point EXCEPT ![p] = d]
    PROVE  /\ point' \in [Points -> PointRec] /\ point'[p] = d
           /\ \A q \in Points : q # p => point'[q] = point[q]
BY DEF Inv, Typed

LEMMA TimelineChanges ==
    ASSUME Inv, NEW tl \in Timelines, NEW x \in TimelineRec, timeline' = [timeline EXCEPT ![tl] = x]
    PROVE  /\ timeline' \in [Timelines -> TimelineRec] /\ timeline'[tl] = x
           /\ \A y \in Timelines : y # tl => timeline'[y] = timeline[y]
BY DEF Inv, Typed

\* What a live point says of its timeline.
LEMMA PointNumber ==
    ASSUME Inv, NEW p \in Points, point[p].life = "live"
    PROVE  /\ point[p].tl \in Timelines
           /\ point[p].seq \in Nat /\ timeline[point[p].tl].seq \in 0..MaxPoints
           /\ timeline[point[p].tl].last \in Nat
           /\ point[p].seq <= timeline[point[p].tl].seq
           /\ timeline[point[p].tl].last <= timeline[point[p].tl].seq
<1>1. point[p].tl \in Timelines /\ point[p].seq \in 1..timeline[point[p].tl].seq
  BY DEF Inv, SeqOK, Tl
<1>2. /\ timeline[point[p].tl].seq \in 0..MaxPoints /\ timeline[point[p].tl].last \in 0..MaxPoints
      /\ timeline[point[p].tl].last <= timeline[point[p].tl].seq
  BY <1>1, TimelineIs DEF Inv, SeqOK
<1>3. QED
  BY <1>1, <1>2, FallbackAssumption

\* The point that a thread marks, walks or resolves.
LEMMA LookingHead ==
    ASSUME Inv, NEW t \in Threads, th[t].pc \in Looking \ {"check"},
           NEW p, p = Head(th[t].todo)
    PROVE  /\ p \in Points /\ point[p].ref > 0 /\ point[p].life = "live" /\ HasSync(p)
           /\ th[t].todo # <<>> /\ point[p] \in PointRec
           /\ point[p].tl \in Timelines /\ timeline[point[p].tl] \in TimelineRec
           /\ th[t].pc \in {"mark", "walk"} => NativeSignalled(p)
           /\ th[t].pc \in {"attach", "recheck"} => th[t].op = "resolve"
<1>1. th[t].todo # <<>>
  BY OpIs
<1>2. p \in Points /\ Has(th[t].todo, p)
  BY <1>1, TodoIs
<1>3. point[p].ref > 0 /\ point[p].life = "live" /\ HasSync(p)
  BY <1>2, LookedPoint
<1>4. point[p].tl \in Timelines
  BY <1>2, <1>3, PointNumber
<1>5. th[t].pc \in {"mark", "walk"} => NativeSignalled(p)
  BY <1>2 DEF Inv, StateOK
<1>6. th[t].pc \in {"attach", "recheck"} => th[t].op = "resolve"
  BY ThreadIs DEF Shape
<1>7. QED
  BY <1>1, <1>2, <1>3, <1>4, <1>5, <1>6, PointIs, TimelineIs

\* The last number of a timeline, when a point of it is found signalled.
LEMMA LargerIs ==
    ASSUME NEW a \in Nat, NEW b \in Nat
    PROVE  /\ Larger(a, b) \in {a, b} /\ Larger(a, b) >= a
           /\ b <= a => Larger(a, b) = a
BY DEF Larger

LEMMA MarkPointStep ==
    ASSUME Inv, NEW t \in Threads, MarkPoint(t)
    PROVE  Inv'
<1>1. PICK p : p = Head(th[t].todo)
  OBVIOUS
<1>2. /\ th[t].pc = "mark" /\ Step(t, "walk")
      /\ point' = [point EXCEPT ![p].status = "signalled"]
      /\ timeline' = [timeline EXCEPT ![Tl(p)].last = Larger(@, point[p].seq)]
      /\ UNCHANGED <<fence, points, fences, table, fbLock, misr, woken, alive>>
  BY <1>1 DEF MarkPoint, SignalPoint
<1>3. /\ p \in Points /\ point[p].life = "live" /\ HasSync(p) /\ th[t].todo # <<>>
      /\ point[p] \in PointRec /\ NativeSignalled(p)
      /\ point[p].tl \in Timelines /\ timeline[point[p].tl] \in TimelineRec
  BY <1>1, <1>2, LookingHead DEF Looking
<1>4. PICK tl : tl = point[p].tl
  OBVIOUS
<1>5. /\ point[p].seq \in Nat /\ timeline[tl].seq \in 0..MaxPoints /\ timeline[tl].last \in Nat
      /\ point[p].seq <= timeline[tl].seq /\ timeline[tl].last <= timeline[tl].seq
  BY <1>3, <1>4, PointNumber
<1>6. PICK n : n = Larger(timeline[tl].last, point[p].seq)
  OBVIOUS
<1>7. /\ n \in 0..MaxPoints /\ n <= timeline[tl].seq
      /\ (point[p].seq <= timeline[tl].last => n = timeline[tl].last)
  BY <1>5, <1>6, LargerIs, FallbackAssumption
<1>8. PICK d : d = [point[p] EXCEPT !.status = "signalled"]
  OBVIOUS
<1>9. /\ d \in PointRec /\ d.tl = point[p].tl /\ d.seq = point[p].seq /\ d.ref = point[p].ref
      /\ d.life = point[p].life /\ d.attached = point[p].attached /\ d.status = "signalled"
  BY <1>3, <1>8 DEF PointRec, States
<1>10. /\ point' \in [Points -> PointRec] /\ point'[p] = d
       /\ \A q \in Points : q # p => point'[q] = point[q]
  <2>1. point' = [point EXCEPT ![p] = d]
    BY <1>2, <1>8 DEF Inv, Typed
  <2>2. QED
    BY <1>3, <1>9, <2>1, PointChanges
<1>11. PICK x : x = [timeline[tl] EXCEPT !.last = n]
  OBVIOUS
<1>12. /\ x \in TimelineRec /\ x.life = timeline[tl].life /\ x.ref = timeline[tl].ref
       /\ x.seq = timeline[tl].seq /\ x.last = n /\ x.handle = timeline[tl].handle
       /\ x.active = timeline[tl].active /\ x.lock = timeline[tl].lock
  BY <1>3, <1>4, <1>7, <1>11 DEF TimelineRec
<1>13. /\ timeline' \in [Timelines -> TimelineRec] /\ timeline'[tl] = x
       /\ \A y \in Timelines : y # tl => timeline'[y] = timeline[y]
  <2>1. timeline' = [timeline EXCEPT ![tl] = x]
    BY <1>2, <1>4, <1>6, <1>11 DEF Tl, Inv, Typed
  <2>2. QED
    BY <1>3, <1>4, <1>12, <2>1, TimelineChanges
<1>14. /\ Onward(t) /\ th' \in [Threads -> ThreadRec] /\ Shape(th'[t]) /\ PlaceOK(t)'
       /\ th'[t].pc = "walk" /\ th'[t].todo = th[t].todo
  <2>1. "walk" \in Looking /\ th[t].pc \in Looking
    BY <1>2 DEF Looking
  <2>2. QED
    BY <1>2, <1>3, <2>1, SamePointShape
<1>15. Moved(t) /\ QuietThreads
  BY <1>14 DEF Onward, QuietThreads
<1>16. Typed'
  BY <1>2, <1>10, <1>13, <1>14 DEF Inv, Typed
<1>17. ControlOK'
  BY <1>2, <1>14, <1>15, ControlMoved
<1>18. \A q \in Points : (HasSync(q)' <=> HasSync(q)) /\ (NativeSignalled(q)' <=> NativeSignalled(q))
  BY <1>9, <1>10 DEF HasSync, NativeSignalled, NativeState
<1>19. Advanced(p)
  <2>1. Tells(th'[t], p)
    BY <1>1, <1>14 DEF Tells
  <2>2. Follows(p)'
    BY <2>1 DEF Follows
  <2>3. QED
    BY <1>3, <1>9, <1>10, <1>18, <2>2 DEF Advanced
<1>20. StatesAdvance
  <2>1. SameTimelines
    BY <1>12, <1>13 DEF SameTimelines
  <2>2. \A y \in Timelines : timeline'[y].last <= timeline[y].seq
                             /\ timeline'[y].active = timeline[y].active
    BY <1>7, <1>12, <1>13 DEF Inv, SeqOK
  <2>3. QED
    BY <1>2, <1>10, <1>19, <2>1, <2>2 DEF StatesAdvance
<1>21. LockOK'
  <2>1. \A y \in Timelines : timeline'[y].lock = timeline[y].lock
    BY <1>12, <1>13
  <2>2. QED
    BY <1>14, <1>15, <1>20, <2>1, StatesLock DEF Moved
<1>22. OrderOK'
  <2>1. ASSUME NEW q \in Points, point[q].life = "live", IsSW(q), Owner[point[q].tl] \in alive
        PROVE  timeline'[point[q].tl].last = timeline[point[q].tl].last
    <3>1. CASE point[q].tl = tl
      <4>1. IsSW(p) /\ Owner[point[p].tl] \in alive
        BY <1>4, <2>1, <3>1 DEF IsSW, Tl
      <4>2. point[p].seq <= timeline[tl].last
        BY <1>3, <1>4, <4>1 DEF Inv, OrderOK, Tl
      <4>3. QED
        BY <1>7, <1>12, <1>13, <3>1, <4>2
    <3>2. CASE point[q].tl # tl
      BY <1>13, <2>1, <3>2, PointNumber
    <3>3. QED
      BY <3>1, <3>2
  <2>2. QED
    BY <1>18, <1>20, <2>1, StatesOrder
<1>23. QED
  <2>1. \A u \in Threads, q \in Points :
           (Tells(th[u], q) => Tells(th'[u], q)) /\ (Adds(th[u], q) => Adds(th'[u], q))
    BY <1>2, <1>15 DEF Moved, Tells, Adds
  <2>2. \A u \in Threads, q \in Points :
           th'[u].pc \in {"mark", "walk"} /\ Head(th'[u].todo) = q => NativeSignalled(q)
    BY <1>1, <1>3, <1>14, <1>15 DEF Moved, Inv, StateOK
  <2>3. QED
    BY <1>15, <1>16, <1>17, <1>20, <1>21, <1>22, <2>1, <2>2, StatesStep

LEMMA WalkAttachedStep ==
    ASSUME Inv, NEW t \in Threads, WalkAttached(t)
    PROVE  Inv'
<1>1. PICK p : p = Head(th[t].todo)
  OBVIOUS
<1>2. /\ th[t].pc = "walk" /\ NextCheck(t)
      /\ point' = [point EXCEPT ![p] = SignalAttached(@, "signalled")]
      /\ UNCHANGED <<timeline, fence, points, fences, table, fbLock, misr, woken, alive>>
  BY <1>1 DEF WalkAttached
<1>3. /\ p \in Points /\ point[p].life = "live" /\ HasSync(p) /\ th[t].todo # <<>>
      /\ point[p] \in PointRec /\ NativeSignalled(p)
  BY <1>1, <1>2, LookingHead DEF Looking
<1>4. PICK d : d = SignalAttached(point[p], "signalled")
  OBVIOUS
<1>5. /\ d \in PointRec /\ d.tl = point[p].tl /\ d.seq = point[p].seq /\ d.ref = point[p].ref
      /\ d.status = point[p].status /\ d.life = point[p].life
      /\ Len(d.attached) = Len(point[p].attached)
      /\ DOMAIN d.attached = 1..Len(point[p].attached)
      /\ d.attached # <<>> /\ 1 \in 1..Len(point[p].attached)
      /\ \A i \in 1..Len(point[p].attached) : d.attached[i].state # "unsignalled"
  BY <1>3, <1>4, SignalAttachedIs DEF HasSync
<1>6. /\ point' \in [Points -> PointRec] /\ point'[p] = d
      /\ \A q \in Points : q # p => point'[q] = point[q]
  <2>1. point' = [point EXCEPT ![p] = d]
    BY <1>2, <1>4 DEF Inv, Typed
  <2>2. QED
    BY <1>3, <1>5, <2>1, PointChanges
<1>7. HasSync(p)' /\ NativeSignalled(p)'
  BY <1>5, <1>6 DEF HasSync, NativeSignalled, NativeState
<1>8. /\ Onward(t) /\ th' \in [Threads -> ThreadRec] /\ Shape(th'[t]) /\ PlaceOK(t)'
      /\ th'[t].pc \in {"idle", "check"}
  <2>1. th[t].pc \in Looking
    BY <1>2 DEF Looking
  <2>2. QED
    BY <1>1, <1>2, <1>3, <2>1, NextCheckShape
<1>9. Moved(t) /\ QuietThreads
  BY <1>8 DEF Onward, QuietThreads
<1>10. Typed'
  BY <1>2, <1>6, <1>8 DEF Inv, Typed
<1>11. ControlOK'
  BY <1>2, <1>8, <1>9, ControlMoved
<1>12. Advanced(p)
  <2>1. Follows(p)'
    BY <1>5, <1>6 DEF Follows
  <2>2. QED
    BY <1>3, <1>5, <1>6, <1>7, <2>1 DEF Advanced
<1>13. StatesAdvance
  BY <1>2, <1>6, <1>12 DEF StatesAdvance, SameTimelines, Inv, SeqOK
<1>14. LockOK'
  BY <1>2, <1>8, <1>9, <1>13, StatesLock DEF Moved
<1>15. \A q \in Points : NativeSignalled(q)' => NativeSignalled(q)
  BY <1>3, <1>6 DEF HasSync, NativeSignalled, NativeState
<1>16. OrderOK'
  BY <1>2, <1>13, <1>15, StatesOrder
<1>17. QED
  <2>1. ASSUME NEW u \in Threads, NEW q \in Points, ~Advanced(q)
        PROVE  (Tells(th[u], q) => Tells(th'[u], q)) /\ (Adds(th[u], q) => Adds(th'[u], q))
    <3>1. CASE u # t
      BY <1>9, <3>1 DEF Moved
    <3>2. CASE u = t
      <4>1. ~Adds(th[t], q) /\ (Tells(th[t], q) => q = p)
        BY <1>1, <1>2 DEF Adds, Tells
      <4>2. q # p
        BY <1>12, <2>1
      <4>3. QED
        BY <3>2, <4>1, <4>2
    <3>3. QED
      BY <3>1, <3>2
  <2>2. \A u \in Threads, q \in Points :
           th'[u].pc \in {"mark", "walk"} /\ Head(th'[u].todo) = q => NativeSignalled(q)
    BY <1>8, <1>9 DEF Moved, Inv, StateOK
  <2>3. QED
    BY <1>9, <1>10, <1>11, <1>13, <1>14, <1>16, <2>1, <2>2, StatesStep

LEMMA AttachForeignStep ==
    ASSUME Inv, NEW t \in Threads, AttachForeign(t)
    PROVE  Inv'
<1>1. PICK p : p = Head(th[t].todo)
  OBVIOUS
<1>2. PICK sync : sync = [ctx |-> ContextOf[t], state |-> "unsignalled"]
  OBVIOUS
<1>3. /\ th[t].pc = "attach" /\ fbLock = NoLock /\ timeline[Tl(p)].lock = NoLock
      /\ UNCHANGED <<fence, points, fences, misr, woken, alive>>
      /\ \/ NextCheck(t) /\ UNCHANGED <<timeline, point, table, fbLock>>
         \/ /\ point' = [point EXCEPT ![p].attached = Append(@, sync)]
            /\ table' = table \cup {p}
            /\ fbLock' = t /\ timeline' = [timeline EXCEPT ![Tl(p)].lock = t]
            /\ Step(t, "recheck")
  BY <1>1, <1>2 DEF AttachForeign, Free
<1>4. CASE NextCheck(t) /\ UNCHANGED <<timeline, point, table, fbLock>>
  BY <1>3, <1>4, AttachStill
<1>5. CASE /\ point' = [point EXCEPT ![p].attached = Append(@, sync)]
           /\ table' = table \cup {p}
           /\ fbLock' = t /\ timeline' = [timeline EXCEPT ![Tl(p)].lock = t]
           /\ Step(t, "recheck")
  <2>1. /\ p \in Points /\ point[p].ref > 0 /\ point[p].life = "live" /\ HasSync(p)
        /\ th[t].todo # <<>> /\ point[p] \in PointRec /\ th[t].op = "resolve"
        /\ point[p].tl \in Timelines /\ timeline[point[p].tl] \in TimelineRec
    BY <1>1, <1>3, LookingHead DEF Looking
  <2>2. PICK tl : tl = point[p].tl
    OBVIOUS
  <2>3. t \in Clients /\ ContextOf[t] \in Contexts
    BY <1>3, OpIs, FallbackAssumption DEF Looking
  <2>4. sync \in Attached
    BY <1>2, <2>3 DEF Attached, States
  <2>5. PICK s, a : s = point[p].attached /\ a = Append(s, sync)
    OBVIOUS
  <2>6. /\ s \in Seq(Attached) /\ Len(s) \in Nat /\ Len(s) > 0 /\ a \in Seq(Attached)
        /\ Len(a) = Len(s) + 1 /\ a # <<>> /\ DOMAIN a = 1..Len(a)
        /\ \A i \in 1..Len(s) : a[i] = s[i]
        /\ DOMAIN s = 1..Len(s)
    <3>1. s \in Seq(Attached) /\ s # <<>>
      BY <2>1, <2>5 DEF PointRec, HasSync
    <3>2. a \in Seq(Attached) /\ a # <<>>
      BY <2>4, <2>5, <3>1, AppendIs
    <3>3. Len(a) = Len(s) + 1 /\ \A i \in 1..Len(s) : a[i] = s[i]
      BY <2>4, <2>5, <3>1, AppendProperties
    <3>4. Len(s) \in Nat /\ Len(s) > 0 /\ DOMAIN a = 1..Len(a) /\ DOMAIN s = 1..Len(s)
      BY <3>1, <3>2, NonEmpty, LenProperties
    <3>5. QED
      BY <3>1, <3>2, <3>3, <3>4
  <2>7. PICK d : d = [point[p] EXCEPT !.attached = a]
    OBVIOUS
  <2>8. /\ d \in PointRec /\ d.tl = point[p].tl /\ d.seq = point[p].seq /\ d.ref = point[p].ref
        /\ d.life = point[p].life /\ d.attached = a /\ d.status = point[p].status
    BY <2>1, <2>6, <2>7 DEF PointRec
  <2>9. /\ point' \in [Points -> PointRec] /\ point'[p] = d
        /\ \A q \in Points : q # p => point'[q] = point[q]
    <3>1. point' = [point EXCEPT ![p] = d]
      BY <1>5, <2>5, <2>7 DEF Inv, Typed
    <3>2. QED
      BY <2>1, <2>8, <3>1, PointChanges
  <2>10. PICK x : x = [timeline[tl] EXCEPT !.lock = t]
    OBVIOUS
  <2>11. /\ x \in TimelineRec /\ x.life = timeline[tl].life /\ x.ref = timeline[tl].ref
         /\ x.seq = timeline[tl].seq /\ x.last = timeline[tl].last
         /\ x.handle = timeline[tl].handle
         /\ x.active = timeline[tl].active /\ x.lock = t
    BY <2>1, <2>2, <2>10 DEF TimelineRec
  <2>12. /\ timeline' \in [Timelines -> TimelineRec] /\ timeline'[tl] = x
         /\ \A y \in Timelines : y # tl => timeline'[y] = timeline[y]
    <3>1. timeline' = [timeline EXCEPT ![tl] = x]
      BY <1>5, <2>2, <2>10 DEF Tl, Inv, Typed
    <3>2. QED
      BY <2>1, <2>2, <2>11, <3>1, TimelineChanges
  <2>13. /\ Onward(t) /\ th' \in [Threads -> ThreadRec] /\ Shape(th'[t]) /\ PlaceOK(t)'
         /\ th'[t].pc = "recheck" /\ th'[t].todo = th[t].todo
    <3>1. "recheck" \in Looking /\ th[t].pc \in Looking
      BY <1>3 DEF Looking
    <3>2. QED
      BY <1>3, <1>5, <2>1, <3>1, SamePointShape
  <2>14. Moved(t) /\ QuietThreads
    BY <2>13 DEF Onward, QuietThreads
  <2>15. Typed'
    BY <1>3, <1>5, <2>1, <2>9, <2>12, <2>13 DEF Inv, Typed
  <2>16. ControlOK'
    BY <1>3, <2>13, <2>14, ControlMoved
  <2>17. HasSync(p)' /\ (NativeSignalled(p)' <=> NativeSignalled(p))
    <3>1. point'[p].attached = a /\ a # <<>>
      BY <2>6, <2>8, <2>9
    <3>2. point'[p].attached[1] = point[p].attached[1]
      <4>1. 1 \in 1..Len(s)
        BY <2>6
      <4>2. QED
        BY <2>5, <2>6, <3>1, <4>1
    <3>3. QED
      BY <2>1, <3>1, <3>2 DEF HasSync, NativeSignalled, NativeState
  <2>18. \A u \in Threads : u # t => th'[u] = th[u] /\ ~Adds(th[u], p)
    <3>1. ASSUME NEW u \in Threads, Adds(th[u], p) PROVE FALSE
      <4>1. timeline[Tl(p)].lock = u
        BY <2>1, <3>1 DEF Adds, Inv, LockOK
      <4>2. QED
        BY <1>3, <4>1, FallbackAssumption
    <3>2. QED
      BY <2>14, <3>1 DEF Moved
  <2>19. Follows(p)'
    <3>1. SUFFICES ASSUME point'[p].status # "unsignalled", NEW i \in DOMAIN point'[p].attached
                   PROVE  \/ point'[p].attached[i].state # "unsignalled"
                          \/ \E u \in Threads : Tells(th'[u], p)
                          \/ /\ i = Len(point'[p].attached)
                             /\ \E u \in Threads : Adds(th'[u], p)
      BY DEF Follows
    <3>2. i \in 1..Len(s) \/ i = Len(a)
      BY <2>6, <2>8, <2>9
    <3>3. CASE i \in 1..Len(s)
      <4>1. \/ point[p].attached[i].state # "unsignalled"
            \/ \E u \in Threads : Tells(th[u], p)
            \/ \E u \in Threads : Adds(th[u], p)
        <5>1. Follows(p) /\ point[p].status # "unsignalled" /\ i \in DOMAIN point[p].attached
          BY <2>1, <2>5, <2>6, <2>8, <2>9, <3>1, <3>3 DEF Inv, StateOK
        <5>2. QED
          BY <5>1 DEF Follows
      <4>2. ~Tells(th[t], p) /\ ~Adds(th[t], p)
        BY <1>3 DEF Tells, Adds
      <4>3. CASE \E u \in Threads : Tells(th[u], p)
        BY <2>18, <4>2, <4>3
      <4>4. CASE point[p].attached[i].state # "unsignalled"
        BY <2>5, <2>6, <2>8, <2>9, <3>3, <4>4
      <4>5. QED
        BY <2>18, <4>1, <4>2, <4>3, <4>4
    <3>4. CASE i = Len(a)
      <4>1. Adds(th'[t], p)
        BY <1>1, <2>13 DEF Adds
      <4>2. QED
        BY <2>8, <2>9, <3>4, <4>1
    <3>5. QED
      BY <3>2, <3>3, <3>4
  <2>20. Advanced(p)
    <3>1. Len(point[p].attached) > 1 => Len(point'[p].attached) > 1
      BY <2>5, <2>6, <2>8, <2>9
    <3>2. point'[p].status # "unsignalled" => NativeSignalled(p)'
      BY <2>1, <2>8, <2>9, <2>17 DEF Inv, StateOK
    <3>3. QED
      BY <2>1, <2>8, <2>9, <2>17, <2>19, <3>1, <3>2 DEF Advanced
  <2>21. StatesAdvance
    <3>1. SameTimelines
      BY <2>11, <2>12 DEF SameTimelines
    <3>2. \A y \in Timelines : timeline'[y].last <= timeline[y].seq
                               /\ timeline'[y].active = timeline[y].active
      BY <2>11, <2>12 DEF Inv, SeqOK
    <3>3. QED
      BY <1>3, <1>5, <2>1, <2>9, <2>20, <3>1, <3>2 DEF StatesAdvance
  <2>22. LockOK'
    <3>1. ASSUME NEW u \in Threads, NEW q \in Points,
                 th'[u].pc \in {"create", "recheck"}, Head(th'[u].todo) = q
          PROVE  /\ timeline'[point'[q].tl].lock = u
                 /\ th'[u].pc = "create" =>
                       th'[u].tl = point'[q].tl /\ point'[q].seq = timeline'[point'[q].tl].seq
                 /\ th'[u].pc = "recheck" => Len(point'[q].attached) > 1
      <4>1. CASE u = t
        <5>1. q = p
          BY <1>1, <2>13, <3>1, <4>1
        <5>2. timeline'[point'[p].tl].lock = t
          BY <2>2, <2>8, <2>9, <2>11, <2>12
        <5>3. Len(point'[p].attached) > 1
          BY <2>6, <2>8, <2>9
        <5>4. QED
          BY <2>13, <4>1, <5>1, <5>2, <5>3
      <4>2. CASE u # t
        <5>1. th'[u] = th[u]
          BY <2>14, <4>2 DEF Moved
        <5>2. /\ timeline[point[q].tl].lock = u
              /\ th[u].pc = "create" =>
                    th[u].tl = point[q].tl /\ point[q].seq = timeline[point[q].tl].seq
              /\ th[u].pc = "recheck" => Len(point[q].attached) > 1
          BY <3>1, <5>1 DEF Inv, LockOK, Adds, Tl
        <5>3. point[q].life = "live"
          BY <3>1, <5>1, LockedPoint DEF Creating
        <5>4. point[q].tl \in Timelines /\ point[q].tl # tl
          BY <1>3, <2>2, <5>2, <5>3, LiveTimeline, FallbackAssumption DEF Tl
        <5>5. q # p
          BY <2>2, <5>4
        <5>6. QED
          BY <2>9, <2>12, <5>1, <5>2, <5>4, <5>5
      <4>3. QED
        BY <4>1, <4>2
    <3>2. QED
      BY <3>1 DEF LockOK, Adds, Tl
  <2>23. \A q \in Points : NativeSignalled(q)' => NativeSignalled(q)
    BY <2>9, <2>17 DEF HasSync, NativeSignalled, NativeState
  <2>24. OrderOK'
    <3>1. \A q \in Points : point[q].life = "live" =>
             timeline'[point[q].tl].last = timeline[point[q].tl].last
      BY <2>11, <2>12, PointNumber
    <3>2. QED
      BY <2>21, <2>23, <3>1, StatesOrder
  <2>25. QED
    <3>1. \A u \in Threads, q \in Points :
             (Tells(th[u], q) => Tells(th'[u], q)) /\ (Adds(th[u], q) => Adds(th'[u], q))
      BY <1>3, <2>14 DEF Moved, Tells, Adds
    <3>2. \A u \in Threads, q \in Points :
             th'[u].pc \in {"mark", "walk"} /\ Head(th'[u].todo) = q => NativeSignalled(q)
      BY <2>13, <2>14 DEF Moved, Inv, StateOK
    <3>3. QED
      BY <2>14, <2>15, <2>16, <2>21, <2>22, <2>24, <3>1, <3>2, StatesStep
<1>6. QED
  BY <1>3, <1>4, <1>5

\* The three cases of the look that follows the attaching.
LEMMA RecheckedIs ==
    ASSUME Inv, NEW t \in Threads, th[t].pc = "recheck", NEW p, p = Head(th[t].todo),
           NEW d, d = Rechecked(point[p], NativeState(p)),
           point' = [point EXCEPT ![p] = d], Moved(t)
    PROVE  /\ point' \in [Points -> PointRec]
           /\ \A q \in Points : q # p => point'[q] = point[q]
           /\ Advanced(p) /\ (NativeSignalled(p)' => NativeSignalled(p))
<1>1. /\ p \in Points /\ point[p].ref > 0 /\ point[p].life = "live" /\ HasSync(p)
      /\ th[t].todo # <<>> /\ point[p] \in PointRec
  BY LookingHead DEF Looking
<1>2. PICK r, s : r = point[p] /\ s = point[p].attached
  OBVIOUS
<1>3. /\ s \in Seq(Attached) /\ Len(s) \in Nat /\ Len(s) > 1 /\ DOMAIN s = 1..Len(s)
      /\ s # <<>> /\ 1 \in 1..Len(s) /\ Len(s) \in 1..Len(s) /\ Len(s) # 1
      /\ \A i \in 1..Len(s) : s[i] \in Attached
  <2>1. s \in Seq(Attached) /\ s # <<>>
    BY <1>1, <1>2 DEF PointRec, HasSync
  <2>2. Len(s) \in Nat /\ DOMAIN s = 1..Len(s)
    BY <2>1, LenProperties
  <2>3. Len(s) > 1
    BY <1>1, <1>2 DEF Inv, LockOK, Adds
  <2>4. \A i \in 1..Len(s) : s[i] \in Attached
    BY <2>1, ElementOfSeq
  <2>5. QED
    BY <2>1, <2>2, <2>3, <2>4
<1>4. \A u \in Threads : ~(u # t /\ Adds(th[u], p)) /\ ~Tells(th[t], p)
  <2>1. timeline[Tl(p)].lock = t
    BY <1>1 DEF Inv, LockOK
  <2>2. ASSUME NEW u \in Threads, u # t, Adds(th[u], p) PROVE FALSE
    <3>1. timeline[Tl(p)].lock = u
      BY <1>1, <2>2 DEF Adds, Inv, LockOK
    <3>2. QED
      BY <2>1, <2>2, <3>1
  <2>3. QED
    BY <2>2 DEF Tells
<1>5. /\ r.status # "unsignalled" => NativeSignalled(p)
      /\ NativeState(p) = s[1].state
      /\ NativeSignalled(p) <=> s[1].state # "unsignalled"
  BY <1>1, <1>2 DEF Inv, StateOK, NativeSignalled, NativeState
<1>6. /\ \A i \in 1..Len(s) : r.status # "unsignalled" /\ i # Len(s) =>
             s[i].state # "unsignalled" \/ \E u \in Threads : Tells(th'[u], p)
  <2>1. ASSUME NEW i \in 1..Len(s), r.status # "unsignalled", i # Len(s)
        PROVE  s[i].state # "unsignalled" \/ \E u \in Threads : Tells(th'[u], p)
    <3>1. Follows(p) /\ i \in DOMAIN point[p].attached
      BY <1>1, <1>2, <1>3 DEF Inv, StateOK
    <3>2. s[i].state # "unsignalled" \/ \E u \in Threads : Tells(th[u], p)
      BY <1>2, <2>1, <3>1 DEF Follows
    <3>3. QED
      BY <1>4, <3>2 DEF Moved
  <2>2. QED
    BY <2>1
<1>7. /\ d \in PointRec /\ d.tl = r.tl /\ d.seq = r.seq /\ d.ref = r.ref /\ d.life = r.life
      /\ Len(d.attached) = Len(s) /\ DOMAIN d.attached = 1..Len(s) /\ d.attached # <<>>
      /\ (d.status # "unsignalled" => s[1].state # "unsignalled")
      /\ (d.attached[1].state # "unsignalled" <=> s[1].state # "unsignalled")
      /\ (d.status # "unsignalled" =>
            \A i \in 1..Len(s) :
               d.attached[i].state # "unsignalled" \/ \E u \in Threads : Tells(th'[u], p))
  <2>1. CASE r.status # "unsignalled"
    <3>1. PICK x : x = [s[Len(s)] EXCEPT !.state = "signalled"]
      OBVIOUS
    <3>2. x \in Attached /\ x.state = "signalled"
      BY <1>3, <3>1 DEF Attached, States
    <3>3. PICK a : a = [s EXCEPT ![Len(s)] = x]
      OBVIOUS
    <3>4. /\ a \in [1..Len(s) -> Attached] /\ a[Len(s)] = x
          /\ \A i \in 1..Len(s) : i # Len(s) => a[i] = s[i]
      <4>1. PICK n : n = Len(s)
        OBVIOUS
      <4>2. PICK D : D = 1..n
        OBVIOUS
      <4>3. s \in [D -> Attached] /\ n \in D
        <5>1. s \in [1..Len(s) -> Attached]
          BY <1>3, SeqDef
        <5>2. QED
          BY <1>3, <4>1, <4>2, <5>1
      <4>4. a = [s EXCEPT ![n] = x]
        BY <3>3, <4>1
      <4>5. a \in [D -> Attached] /\ a[n] = x /\ \A i \in D : i # n => a[i] = s[i]
        BY <3>2, <4>3, <4>4
      <4>6. D = 1..Len(s)
        BY <4>1, <4>2
      <4>7. QED
        BY <4>1, <4>5, <4>6, Zenon
    <3>5. a \in Seq(Attached) /\ Len(a) = Len(s) /\ DOMAIN a = 1..Len(s)
      <4>1. PICK n : n = Len(s)
        OBVIOUS
      <4>2. a \in [1..n -> Attached] /\ n \in Nat
        BY <1>3, <3>4, <4>1
      <4>3. a \in Seq(Attached)
        BY <4>2, SeqDef
      <4>4. DOMAIN a = 1..n
        BY <4>2
      <4>5. Len(a) = n
        BY <4>2, <4>3, <4>4, LenProperties
      <4>6. QED
        BY <4>1, <4>3, <4>4, <4>5
    <3>6. a # <<>>
      BY <1>3, <3>5, NonEmpty
    <3>7. d = [r EXCEPT !.attached = a]
      BY <1>2, <2>1, <3>1, <3>3 DEF Rechecked
    <3>8. /\ d \in PointRec /\ d.tl = r.tl /\ d.seq = r.seq /\ d.ref = r.ref
          /\ d.life = r.life /\ d.attached = a /\ d.status = r.status
      BY <1>1, <1>2, <3>5, <3>7 DEF PointRec
    <3>9. a[1] = s[1]
      BY <1>3, <3>4
    <3>10. \A i \in 1..Len(s) :
              a[i].state # "unsignalled" \/ \E u \in Threads : Tells(th'[u], p)
      BY <1>6, <2>1, <3>2, <3>4
    <3>11. QED
      BY <1>5, <3>5, <3>6, <3>8, <3>9, <3>10
  <2>2. CASE r.status = "unsignalled" /\ s[1].state # "unsignalled"
    <3>1. d = SignalAttached([r EXCEPT !.status = "signalled"], "signalled")
      BY <1>2, <1>5, <2>2 DEF Rechecked
    <3>2. r \in PointRec /\ r.attached = s
      BY <1>1, <1>2
    <3>3. QED
      BY <1>3, <2>2, <3>1, <3>2, NoticedIs
  <2>3. CASE r.status = "unsignalled" /\ s[1].state = "unsignalled"
    <3>1. d = r
      BY <1>2, <1>5, <2>3 DEF Rechecked
    <3>2. QED
      BY <1>1, <1>2, <1>3, <2>3, <3>1
  <2>4. QED
    BY <2>1, <2>2, <2>3
<1>8. /\ point' \in [Points -> PointRec] /\ point'[p] = d
      /\ \A q \in Points : q # p => point'[q] = point[q]
  BY <1>1, <1>7, PointChanges
<1>9. HasSync(p)' /\ (NativeSignalled(p)' <=> NativeSignalled(p))
  BY <1>5, <1>7, <1>8 DEF HasSync, NativeSignalled, NativeState
<1>10. Follows(p)'
  BY <1>7, <1>8 DEF Follows
<1>11. Advanced(p)
  BY <1>1, <1>2, <1>5, <1>7, <1>8, <1>9, <1>10 DEF Advanced
<1>12. QED
  BY <1>2, <1>7, <1>8, <1>9, <1>11

LEMMA RecheckForeignStep ==
    ASSUME Inv, NEW t \in Threads, RecheckForeign(t)
    PROVE  Inv'
<1>1. PICK p : p = Head(th[t].todo)
  OBVIOUS
<1>2. PICK tl : tl = point[p].tl
  OBVIOUS
<1>3. PICK n : n = IF point[p].status = "unsignalled" /\ NativeSignalled(p)
                   THEN Larger(timeline[tl].last, point[p].seq) ELSE timeline[tl].last
  OBVIOUS
<1>4. PICK d : d = Rechecked(point[p], NativeState(p))
  OBVIOUS
<1>5. /\ th[t].pc = "recheck" /\ NextCheck(t) /\ fbLock' = NoLock
      /\ point' = [point EXCEPT ![p] = Rechecked(@, NativeState(p))]
      /\ timeline' = [timeline EXCEPT ![Tl(p)].lock = NoLock,
            ![Tl(p)].last = IF point[p].status = "unsignalled" /\ NativeSignalled(p)
                            THEN Larger(@, point[p].seq) ELSE @]
      /\ UNCHANGED <<fence, points, fences, table, misr, woken, alive>>
  BY <1>1 DEF RecheckForeign
<1>6. /\ p \in Points /\ point[p].ref > 0 /\ point[p].life = "live" /\ HasSync(p)
      /\ th[t].todo # <<>> /\ th[t].op = "resolve"
      /\ tl \in Timelines /\ timeline[tl] \in TimelineRec
  BY <1>1, <1>2, <1>5, LookingHead DEF Looking
<1>7. /\ Onward(t) /\ th' \in [Threads -> ThreadRec] /\ Shape(th'[t]) /\ PlaceOK(t)'
      /\ th'[t].pc \in {"idle", "check"}
  <2>1. th[t].pc \in Looking
    BY <1>5 DEF Looking
  <2>2. QED
    BY <1>5, <1>6, <2>1, NextCheckShape
<1>8. Moved(t) /\ QuietThreads
  BY <1>7 DEF Onward, QuietThreads
<1>9. /\ point' \in [Points -> PointRec]
      /\ \A q \in Points : q # p => point'[q] = point[q]
      /\ Advanced(p) /\ (NativeSignalled(p)' => NativeSignalled(p))
  <2>1. point' = [point EXCEPT ![p] = d]
    <3>1. PICK ns : ns = NativeState(p)
      OBVIOUS
    <3>2. point' = [point EXCEPT ![p] = Rechecked(@, ns)]
      BY <1>5, <3>1
    <3>3. d = Rechecked(point[p], ns)
      BY <1>4, <3>1
    <3>4. QED
      BY <3>2, <3>3
  <2>2. th[t].pc = "recheck" /\ Moved(t)
    BY <1>5, <1>8
  <2>3. Advanced(p) /\ (NativeSignalled(p)' => NativeSignalled(p))
    BY <1>1, <1>4, <2>1, <2>2, RecheckedIs
  <2>4. point' \in [Points -> PointRec]
    BY <1>1, <1>4, <2>1, <2>2, RecheckedIs
  <2>5. \A q \in Points : q # p => point'[q] = point[q]
    BY <1>1, <1>4, <2>1, <2>2, RecheckedIs
  <2>6. QED
    BY <2>3, <2>4, <2>5
<1>10. /\ point[p].seq \in Nat /\ timeline[tl].seq \in 0..MaxPoints /\ timeline[tl].last \in Nat
       /\ point[p].seq <= timeline[tl].seq /\ timeline[tl].last <= timeline[tl].seq
  BY <1>2, <1>6, PointNumber
<1>11. /\ n \in 0..MaxPoints /\ n <= timeline[tl].seq
       /\ ((NativeSignalled(p) => point[p].seq <= timeline[tl].last) => n = timeline[tl].last)
  <2>1. CASE point[p].status = "unsignalled" /\ NativeSignalled(p)
    <3>1. n = Larger(timeline[tl].last, point[p].seq)
      BY <1>3, <2>1
    <3>2. QED
      BY <1>10, <2>1, <3>1, LargerIs, FallbackAssumption
  <2>2. CASE ~(point[p].status = "unsignalled" /\ NativeSignalled(p))
    <3>1. n = timeline[tl].last
      BY <1>3, <2>2
    <3>2. QED
      BY <1>10, <3>1, FallbackAssumption
  <2>3. QED
    BY <2>1, <2>2
<1>12. PICK x : x = [timeline[tl] EXCEPT !.lock = NoLock, !.last = n]
  OBVIOUS
<1>13. /\ x \in TimelineRec /\ x.life = timeline[tl].life /\ x.ref = timeline[tl].ref
       /\ x.seq = timeline[tl].seq /\ x.last = n /\ x.handle = timeline[tl].handle
       /\ x.active = timeline[tl].active /\ x.lock = NoLock
  BY <1>6, <1>11, <1>12 DEF TimelineRec
<1>14. /\ timeline' \in [Timelines -> TimelineRec] /\ timeline'[tl] = x
       /\ \A y \in Timelines : y # tl => timeline'[y] = timeline[y]
  <2>1. timeline' = [timeline EXCEPT ![tl] = x]
    BY <1>2, <1>3, <1>5, <1>12 DEF Tl, Inv, Typed
  <2>2. QED
    BY <1>6, <1>13, <2>1, TimelineChanges
<1>15. Typed'
  BY <1>5, <1>7, <1>9, <1>14 DEF Inv, Typed
<1>16. ControlOK'
  BY <1>5, <1>7, <1>8, ControlMoved
<1>17. StatesAdvance
  <2>1. SameTimelines
    BY <1>13, <1>14 DEF SameTimelines
  <2>2. \A y \in Timelines : timeline'[y].last <= timeline[y].seq
                             /\ timeline'[y].active = timeline[y].active
    BY <1>11, <1>13, <1>14 DEF Inv, SeqOK
  <2>3. QED
    BY <1>5, <1>9, <2>1, <2>2 DEF StatesAdvance
<1>18. LockOK'
  <2>1. timeline[tl].lock = t
    BY <1>1, <1>2, <1>5, <1>6 DEF Inv, LockOK, Tl
  <2>2. ASSUME NEW u \in Threads, u # t, NEW y \in Timelines, timeline[y].lock = u
        PROVE  timeline'[y].lock = u
    BY <1>14, <2>1, <2>2
  <2>3. QED
    BY <1>7, <1>8, <1>17, <2>2, StatesLock DEF Moved
<1>19. OrderOK'
  <2>1. ASSUME NEW q \in Points, point[q].life = "live", IsSW(q), Owner[point[q].tl] \in alive
        PROVE  timeline'[point[q].tl].last = timeline[point[q].tl].last
    <3>1. CASE point[q].tl = tl
      <4>1. IsSW(p) /\ Owner[point[p].tl] \in alive
        BY <1>2, <2>1, <3>1 DEF IsSW, Tl
      <4>2. NativeSignalled(p) => point[p].seq <= timeline[tl].last
        BY <1>2, <1>6, <4>1 DEF Inv, OrderOK, Tl
      <4>3. QED
        BY <1>11, <1>13, <1>14, <3>1, <4>2
    <3>2. CASE point[q].tl # tl
      BY <1>14, <2>1, <3>2, PointNumber
    <3>3. QED
      BY <3>1, <3>2
  <2>2. \A q \in Points : NativeSignalled(q)' => NativeSignalled(q)
    BY <1>9 DEF HasSync, NativeSignalled, NativeState
  <2>3. QED
    BY <1>17, <2>1, <2>2, StatesOrder
<1>20. QED
  <2>1. ASSUME NEW u \in Threads, NEW q \in Points, ~Advanced(q)
        PROVE  (Tells(th[u], q) => Tells(th'[u], q)) /\ (Adds(th[u], q) => Adds(th'[u], q))
    <3>1. CASE u # t
      BY <1>8, <3>1 DEF Moved
    <3>2. CASE u = t
      <4>1. ~Tells(th[t], q) /\ (Adds(th[t], q) => q = p)
        BY <1>1, <1>5 DEF Adds, Tells
      <4>2. q # p
        BY <1>9, <2>1
      <4>3. QED
        BY <3>2, <4>1, <4>2
    <3>3. QED
      BY <3>1, <3>2
  <2>2. \A u \in Threads, q \in Points :
           th'[u].pc \in {"mark", "walk"} /\ Head(th'[u].todo) = q => NativeSignalled(q)
    BY <1>7, <1>8 DEF Moved, Inv, StateOK
  <2>3. QED
    BY <1>8, <1>15, <1>16, <1>17, <1>18, <1>19, <2>1, <2>2, StatesStep

---------------------------------------------------------------------------
(* Steps of the GPU, of software timelines and of the callback of the MISR *)

\* The threads stay where they are.
LEMMA StatesStill ==
    ASSUME Inv, StatesAdvance, th' = th, Typed', OrderOK',
           \A tl \in Timelines : timeline'[tl].lock = timeline[tl].lock
    PROVE  Inv'
<1>1. QuietThreads
  BY DEF QuietThreads
<1>2. alive' = alive
  BY DEF StatesAdvance
<1>3. ControlOK'
  BY <1>2 DEF Inv, ControlOK, PlaceOK
<1>4. LockOK'
  BY StatesLock
<1>5. \A u \in Threads, p \in Points :
         (Tells(th[u], p) => Tells(th'[u], p)) /\ (Adds(th[u], p) => Adds(th'[u], p))
  OBVIOUS
<1>6. \A u \in Threads, p \in Points :
         th'[u].pc \in {"mark", "walk"} /\ Head(th'[u].todo) = p => NativeSignalled(p)
  BY DEF Inv, StateOK
<1>7. QED
  BY <1>1, <1>3, <1>4, <1>5, <1>6, StatesStep

\* A point that HasSignalled finds signalled.
LEMMA NoticedAdvances ==
    ASSUME Inv, NEW p \in Points, point[p].life = "live", HasSync(p),
           point'[p] = Noticed(point[p])
    PROVE  point'[p] \in PointRec /\ NativeSignalled(p)' /\ Advanced(p)
<1>1. PICK r, d : r = point[p] /\ d = point'[p]
  OBVIOUS
<1>2. r \in PointRec /\ r.attached # <<>>
  BY <1>1, PointIs DEF HasSync
<1>3. d = SignalAttached([r EXCEPT !.status = "signalled"], "signalled")
  BY <1>1 DEF Noticed
<1>4. /\ d \in PointRec /\ d.tl = r.tl /\ d.seq = r.seq /\ d.ref = r.ref
      /\ d.status = "signalled" /\ d.life = r.life
      /\ Len(d.attached) = Len(r.attached) /\ DOMAIN d.attached = 1..Len(r.attached)
      /\ (r.attached # <<>> => d.attached # <<>> /\ 1 \in 1..Len(r.attached))
      /\ \A i \in 1..Len(r.attached) : d.attached[i].state # "unsignalled"
  BY <1>2, <1>3, NoticedIs
<1>5. d.attached # <<>> /\ 1 \in 1..Len(r.attached)
  BY <1>2, <1>4
<1>6. d.attached[1].state # "unsignalled"
  BY <1>4, <1>5
<1>7. HasSync(p)' /\ NativeSignalled(p)'
  BY <1>1, <1>5, <1>6 DEF HasSync, NativeSignalled, NativeState
<1>8. Follows(p)'
  BY <1>1, <1>4 DEF Follows
<1>9. QED
  BY <1>1, <1>4, <1>7, <1>8 DEF Advanced

\* The order, when the first syncs that change are of software points.
LEMMA OrderAdvances ==
    ASSUME Inv, StatesAdvance,
           \A p \in Points : NativeSignalled(p)' => NativeSignalled(p) \/ IsSW(p),
           \A p \in Points : point[p].life = "live" /\ IsSW(p) /\ Owner[point[p].tl] \in alive =>
              (NativeSignalled(p)' <=> point[p].seq <= timeline'[point[p].tl].last)
    PROVE  OrderOK'
<1>1. /\ SamePoints
      /\ \A p \in Points : NativeSignalled(p) => NativeSignalled(p)'
      /\ \A p \in Points : HasSync(p)' <=> HasSync(p)
  BY StatesQuiet DEF Quiet
<1>2. alive' = alive
  BY DEF StatesAdvance
<1>3. \A p \in Points : IsSW(p)' <=> IsSW(p)
  BY <1>1 DEF SamePoints, IsSW, Tl
<1>4. ASSUME NEW p \in Points, NEW q \in Points,
             point'[p].life = "live", point'[q].life = "live", ~IsSW(p)',
             Later(p, q)', HasSync(q)', NativeSignalled(p)'
      PROVE  NativeSignalled(q)'
  <2>1. NativeSignalled(p) /\ HasSync(q)
    BY <1>1, <1>3, <1>4
  <2>2. point[p].life = "live" /\ point[q].life = "live" /\ ~IsSW(p) /\ Later(p, q)
    BY <1>1, <1>3, <1>4 DEF SamePoints, Later, Tl
  <2>3. NativeSignalled(q)
    BY <2>1, <2>2 DEF Inv, OrderOK
  <2>4. QED
    BY <1>1, <2>3
<1>5. ASSUME NEW p \in Points, point'[p].life = "live", IsSW(p)', Owner[point'[p].tl] \in alive'
      PROVE  NativeSignalled(p)' <=> point'[p].seq <= timeline'[point'[p].tl].last
  <2>1. /\ point[p].life = "live" /\ point'[p].tl = point[p].tl /\ point'[p].seq = point[p].seq
        /\ IsSW(p) /\ Owner[point[p].tl] \in alive
    BY <1>1, <1>2, <1>3, <1>5 DEF SamePoints
  <2>2. QED
    BY <2>1
<1>6. QED
  BY <1>4, <1>5 DEF OrderOK, Tl

LEMMA SWTimelineAdvanceStep ==
    ASSUME Inv, NEW t \in Clients, NEW tl \in Timelines, SWTimelineAdvance(t, tl)
    PROVE  Inv'
<1>1. PICK n : n = timeline[tl].last + 1
  OBVIOUS
<1>2. PICK met : met = MetPoints(tl, n)
  OBVIOUS
<1>3. /\ tl \in SWTimelines /\ timeline[tl].last # timeline[tl].seq
      /\ timeline' = [timeline EXCEPT ![tl].last = n, ![tl].active = Without(@, met)]
      /\ point' = [p \in Points |-> IF p \in met THEN Noticed(point[p]) ELSE point[p]]
      /\ misr' = [misr EXCEPT !.interrupt = TRUE] /\ woken' = SignalEO
      /\ UNCHANGED <<fence, points, fences, table, fbLock, th, alive>>
  BY <1>1, <1>2 DEF SWTimelineAdvance, AtLatestPoint
<1>4. /\ timeline[tl].seq \in 0..MaxPoints /\ timeline[tl].last \in 0..MaxPoints
      /\ timeline[tl].active \in Seq(Points) /\ timeline[tl] \in TimelineRec
  BY TimelineIs
<1>5. n \in 0..MaxPoints /\ n <= timeline[tl].seq /\ timeline[tl].last <= n
  <2>1. timeline[tl].last <= timeline[tl].seq
    BY DEF Inv, SeqOK
  <2>2. QED
    BY <1>1, <1>3, <1>4, <2>1, FallbackAssumption
<1>6. \A p : p \in met <=> Has(timeline[tl].active, p) /\ point[p].seq <= n
  BY <1>2, <1>4, InSeq DEF MetPoints
<1>7. ASSUME NEW p \in met
      PROVE  /\ p \in Points /\ point[p].life = "live" /\ HasSync(p) /\ IsSW(p)
             /\ point[p].tl = tl
  <2>1. p \in Points
    BY <1>4, <1>6, HasIn
  <2>2. point[p].life = "live" /\ Tl(p) = tl
    BY <1>6, <2>1 DEF Inv, ActiveOK
  <2>3. IsSW(p)
    BY <1>3, <2>2 DEF IsSW
  <2>4. HasSync(p)
    BY <2>1, <2>2, <2>3 DEF Inv, SyncOK, Bare
  <2>5. QED
    BY <2>1, <2>2, <2>3, <2>4 DEF Tl
<1>8. /\ \A p \in Points : p \in met => point'[p] = Noticed(point[p])
      /\ \A p \in Points : p \notin met => point'[p] = point[p]
  BY <1>3
<1>9. ASSUME NEW p \in met
      PROVE  point'[p] \in PointRec /\ NativeSignalled(p)' /\ Advanced(p)
  BY <1>7, <1>8, NoticedAdvances
<1>10. point' \in [Points -> PointRec]
  <2>1. \A p \in Points : point'[p] \in PointRec
    BY <1>8, <1>9, PointIs
  <2>2. point' = [p \in Points |-> point'[p]]
    BY <1>3
  <2>3. QED
    BY <2>1, <2>2
<1>11. PICK a : a = Without(timeline[tl].active, met)
  OBVIOUS
<1>12. a \in Seq(Points) /\ \A p : Has(a, p) <=> Has(timeline[tl].active, p) /\ p \notin met
  BY <1>4, <1>11, WithoutIs
<1>13. PICK x : x = [timeline[tl] EXCEPT !.last = n, !.active = a]
  OBVIOUS
<1>14. /\ x \in TimelineRec /\ x.life = timeline[tl].life /\ x.ref = timeline[tl].ref
       /\ x.seq = timeline[tl].seq /\ x.last = n /\ x.handle = timeline[tl].handle
       /\ x.active = a /\ x.lock = timeline[tl].lock
  BY <1>4, <1>5, <1>12, <1>13 DEF TimelineRec
<1>15. /\ timeline' \in [Timelines -> TimelineRec] /\ timeline'[tl] = x
       /\ \A y \in Timelines : y # tl => timeline'[y] = timeline[y]
  <2>1. timeline' = [timeline EXCEPT ![tl] = x]
    BY <1>3, <1>11, <1>13 DEF Inv, Typed
  <2>2. QED
    BY <1>14, <2>1, TimelineChanges
<1>16. Typed'
  <2>1. misr' \in MisrRec
    BY <1>3 DEF Inv, Typed, MisrRec
  <2>2. woken' \subseteq Threads
    BY <1>3 DEF SignalEO, Inv, Typed
  <2>3. QED
    BY <1>3, <1>10, <1>15, <2>1, <2>2 DEF Inv, Typed
<1>17. StatesAdvance
  <2>1. SameTimelines
    BY <1>14, <1>15 DEF SameTimelines
  <2>2. \A y \in Timelines : timeline'[y].last <= timeline[y].seq
    BY <1>5, <1>14, <1>15 DEF Inv, SeqOK
  <2>3. ASSUME NEW y \in Timelines, NEW p \in Points
        PROVE  /\ Has(timeline'[y].active, p) => Has(timeline[y].active, p)
               /\ Has(timeline[y].active, p) =>
                     Has(timeline'[y].active, p) \/ NativeSignalled(p)'
    <3>1. CASE y = tl
      BY <1>9, <1>12, <1>14, <1>15, <3>1
    <3>2. CASE y # tl
      BY <1>15, <3>2
    <3>3. QED
      BY <3>1, <3>2
  <2>4. \A p \in Points : point'[p] = point[p] \/ Advanced(p)
    BY <1>8, <1>9
  <2>5. QED
    BY <1>3, <2>1, <2>2, <2>3, <2>4 DEF StatesAdvance
<1>18. \A p \in Points : p \notin met => (NativeSignalled(p)' <=> NativeSignalled(p))
  BY <1>8 DEF HasSync, NativeSignalled, NativeState
<1>19. OrderOK'
  <2>1. \A p \in Points : NativeSignalled(p)' => NativeSignalled(p) \/ IsSW(p)
    BY <1>7, <1>18
  <2>2. ASSUME NEW p \in Points, point[p].life = "live", IsSW(p), Owner[point[p].tl] \in alive
        PROVE  NativeSignalled(p)' <=> point[p].seq <= timeline'[point[p].tl].last
    <3>1. /\ point[p].tl \in Timelines /\ point[p].seq \in Nat
          /\ (NativeSignalled(p) <=> point[p].seq <= timeline[point[p].tl].last)
      BY <2>2, PointNumber DEF Inv, OrderOK, Tl
    <3>2. CASE point[p].tl # tl
      BY <1>7, <1>15, <1>18, <3>1, <3>2
    <3>3. CASE point[p].tl = tl
      <4>1. timeline'[point[p].tl].last = n
        BY <1>14, <1>15, <3>3
      <4>2. ASSUME point[p].seq <= n PROVE NativeSignalled(p)'
        <5>1. CASE p \in met
          BY <1>9, <5>1
        <5>2. CASE p \notin met
          <6>1. ~Has(timeline[tl].active, p)
            BY <1>6, <4>2, <5>2
          <6>2. NativeSignalled(p)
            BY <2>2, <3>3, <6>1 DEF Inv, ActiveOK, Tl
          <6>3. QED
            BY <1>18, <5>2, <6>2
        <5>3. QED
          BY <5>1, <5>2
      <4>3. ASSUME NativeSignalled(p)' PROVE point[p].seq <= n
        <5>1. CASE p \in met
          BY <1>6, <5>1
        <5>2. CASE p \notin met
          <6>1. point[p].seq <= timeline[tl].last
            BY <1>18, <3>1, <3>3, <4>3, <5>2
          <6>2. QED
            BY <1>4, <1>5, <3>1, <6>1, FallbackAssumption
        <5>3. QED
          BY <5>1, <5>2
      <4>4. QED
        BY <4>1, <4>2, <4>3
    <3>4. QED
      BY <3>2, <3>3
  <2>3. QED
    BY <1>17, <2>1, <2>2, OrderAdvances
<1>20. \A y \in Timelines : timeline'[y].lock = timeline[y].lock
  BY <1>14, <1>15
<1>21. QED
  BY <1>3, <1>16, <1>17, <1>19, <1>20, StatesStill

LEMMA FirmwareSignalsStep ==
    ASSUME Inv, NEW p \in Points, FirmwareSignals(p)
    PROVE  Inv'
<1>1. /\ point[p].life = "live" /\ HasSync(p) /\ ~IsSW(p) /\ ~NativeSignalled(p)
      /\ \A q \in Points : /\ point[q].life = "live" /\ Tl(q) = Tl(p)
                           /\ point[q].seq < point[p].seq /\ HasSync(q)
                           => NativeSignalled(q)
      /\ point' = [point EXCEPT ![p].attached[1].state = "signalled"]
      /\ misr' = [misr EXCEPT !.interrupt = TRUE]
      /\ UNCHANGED <<timeline, fence, points, fences, table, fbLock, th, woken, alive>>
  BY DEF FirmwareSignals, NativeSignalled
<1>2. PICK r, s : r = point[p] /\ s = point[p].attached
  OBVIOUS
<1>3. r \in PointRec /\ s \in Seq(Attached) /\ s # <<>> /\ r.attached = s
  BY <1>1, <1>2, PointIs DEF HasSync
<1>4. PICK n : n = Len(s)
  OBVIOUS
<1>5. n \in Nat /\ 1 \in 1..n /\ s \in [1..n -> Attached]
  <2>1. n \in Nat /\ n > 0
    BY <1>3, <1>4, NonEmpty, LenProperties
  <2>2. s \in [1..n -> Attached]
    BY <1>3, <1>4, LenProperties, ElementOfSeq
  <2>3. QED
    BY <2>1, <2>2
<1>6. PICK x : x = [s[1] EXCEPT !.state = "signalled"]
  OBVIOUS
<1>7. x \in Attached /\ x.state = "signalled"
  BY <1>5, <1>6 DEF Attached, States
<1>8. PICK a : a = [s EXCEPT ![1] = x]
  OBVIOUS
<1>9. a \in [1..n -> Attached] /\ a[1] = x
  BY <1>5, <1>7, <1>8
<1>10. a \in Seq(Attached) /\ Len(a) = n /\ a # <<>>
  <2>1. a \in Seq(Attached)
    BY <1>5, <1>9, SeqDef
  <2>2. Len(a) = n
    BY <1>5, <1>9, <2>1, LenProperties
  <2>3. QED
    BY <1>5, <2>1, <2>2, NonEmpty
<1>11. PICK d : d = [r EXCEPT !.attached = a]
  OBVIOUS
<1>12. /\ d \in PointRec /\ d.tl = r.tl /\ d.seq = r.seq /\ d.ref = r.ref
       /\ d.life = r.life /\ d.attached = a /\ d.status = r.status
  BY <1>3, <1>10, <1>11 DEF PointRec
<1>13. /\ point' \in [Points -> PointRec] /\ point'[p] = d
       /\ \A q \in Points : q # p => point'[q] = point[q]
  <2>1. point' = [point EXCEPT ![p] = d]
    BY <1>1, <1>2, <1>6, <1>8, <1>11 DEF Inv, Typed
  <2>2. QED
    BY <1>12, <2>1, PointChanges
<1>14. HasSync(p)' /\ NativeSignalled(p)'
  BY <1>7, <1>9, <1>10, <1>12, <1>13 DEF HasSync, NativeSignalled, NativeState
<1>15. Advanced(p)
  <2>1. point[p].status = "unsignalled"
    BY <1>1 DEF Inv, StateOK
  <2>2. point'[p].status = "unsignalled"
    BY <1>2, <1>12, <1>13, <2>1
  <2>3. Follows(p)'
    BY <2>2 DEF Follows
  <2>4. Len(point[p].attached) > 1 => Len(point'[p].attached) > 1
    BY <1>2, <1>4, <1>10, <1>12, <1>13
  <2>5. /\ point'[p].life = point[p].life /\ point'[p].tl = point[p].tl
        /\ point'[p].seq = point[p].seq /\ point'[p].ref = point[p].ref
    BY <1>2, <1>12, <1>13
  <2>6. QED
    BY <1>1, <1>14, <2>2, <2>3, <2>4, <2>5 DEF Advanced
<1>16. StatesAdvance
  BY <1>1, <1>13, <1>15 DEF StatesAdvance, SameTimelines, Inv, SeqOK
<1>17. Typed'
  <2>1. misr' \in MisrRec
    BY <1>1 DEF Inv, Typed, MisrRec
  <2>2. QED
    BY <1>1, <1>13, <2>1 DEF Inv, Typed
<1>18. /\ SamePoints
       /\ \A q \in Points : NativeSignalled(q) => NativeSignalled(q)'
       /\ \A q \in Points : HasSync(q)' <=> HasSync(q)
       /\ \A q \in Points : q # p => (NativeSignalled(q)' <=> NativeSignalled(q))
  <2>1. \A q \in Points : q # p => (NativeSignalled(q)' <=> NativeSignalled(q))
    BY <1>13 DEF HasSync, NativeSignalled, NativeState
  <2>2. QED
    BY <1>16, <2>1, StatesQuiet DEF Quiet
<1>19. OrderOK'
  <2>1. \A q \in Points : IsSW(q)' <=> IsSW(q)
    BY <1>18 DEF SamePoints, IsSW, Tl
  <2>2. ASSUME NEW m \in Points, NEW q \in Points,
               point'[m].life = "live", point'[q].life = "live", ~IsSW(m)',
               Later(m, q)', HasSync(q)', NativeSignalled(m)'
        PROVE  NativeSignalled(q)'
    <3>1. /\ point[m].life = "live" /\ point[q].life = "live" /\ ~IsSW(m)
          /\ Later(m, q) /\ HasSync(q)
      BY <1>18, <2>1, <2>2 DEF SamePoints, Later, Tl
    <3>2. CASE m # p
      <4>1. NativeSignalled(m)
        BY <1>18, <2>2, <3>2
      <4>2. NativeSignalled(q)
        BY <3>1, <4>1 DEF Inv, OrderOK
      <4>3. QED
        BY <1>18, <4>2
    <3>3. CASE m = p
      <4>1. /\ Tl(q) = Tl(p) /\ point[q].seq <= point[p].seq
            /\ point[p].seq \in Nat /\ point[q].seq \in Nat
        BY <1>1, <3>1, <3>3, PointNumber DEF Later
      <4>2. CASE point[q].seq = point[p].seq
        <5>1. q = p
          BY <1>1, <3>1, <4>1, <4>2 DEF Inv, SeqOK
        <5>2. QED
          BY <1>14, <5>1
      <4>3. CASE point[q].seq # point[p].seq
        <5>1. point[q].seq < point[p].seq
          BY <4>1, <4>3
        <5>2. NativeSignalled(q)
          BY <1>1, <3>1, <4>1, <5>1
        <5>3. QED
          BY <1>18, <5>2
      <4>4. QED
        BY <4>2, <4>3
    <3>4. QED
      BY <3>2, <3>3
  <2>3. ASSUME NEW q \in Points, point'[q].life = "live", IsSW(q)', Owner[point'[q].tl] \in alive'
        PROVE  NativeSignalled(q)' <=> point'[q].seq <= timeline'[point'[q].tl].last
    <3>1. /\ point[q].life = "live" /\ point'[q].tl = point[q].tl
          /\ point'[q].seq = point[q].seq
          /\ IsSW(q) /\ Owner[point[q].tl] \in alive /\ q # p
      BY <1>1, <1>18, <2>1, <2>3 DEF SamePoints
    <3>2. NativeSignalled(q) <=> point[q].seq <= timeline[point[q].tl].last
      BY <3>1 DEF Inv, OrderOK, Tl
    <3>3. QED
      BY <1>1, <1>18, <3>1, <3>2
  <2>4. QED
    BY <2>2, <2>3 DEF OrderOK, Tl
<1>20. \A y \in Timelines : timeline'[y].lock = timeline[y].lock
  BY <1>1
<1>21. QED
  BY <1>1, <1>16, <1>17, <1>19, <1>20, StatesStill

LEMMA NotifyTimelineStep ==
    ASSUME Inv, NotifyTimeline
    PROVE  Inv'
<1>1. PICK tl : tl = Head(misr.todo)
  OBVIOUS
<1>2. PICK met : met = SignalledPrefix(tl)
  OBVIOUS
<1>3. PICK new : new = {p \in met : point[p].status = "unsignalled"}
  OBVIOUS
<1>4. PICK n : n = Max({timeline[tl].last} \cup {point[p].seq : p \in new})
  OBVIOUS
<1>5. /\ misr.todo # <<>>
      /\ point' = [p \in Points |-> IF p \in new THEN Noticed(point[p]) ELSE point[p]]
      /\ timeline' = [timeline EXCEPT ![tl].active = Without(@, met),
                         ![tl].last = Max({@} \cup {point[p].seq : p \in new})]
      /\ \E b \in BOOLEAN : misr' = [misr EXCEPT !.todo = Tail(@), !.signal = b]
      /\ fbLock' \in {NoLock, Misr} /\ woken' \in {SignalEO, woken}
      /\ UNCHANGED <<fence, points, fences, table, th, alive>>
  BY <1>1, <1>2, <1>3 DEF NotifyTimeline
<1>6. misr \in MisrRec /\ misr.todo \in Seq(Timelines)
  BY DEF Inv, Typed, MisrRec
<1>7. tl \in Timelines /\ Tail(misr.todo) \in Seq(Timelines)
  BY <1>1, <1>5, <1>6, HeadTailProperties
<1>8. /\ timeline[tl].seq \in 0..MaxPoints /\ timeline[tl].last \in 0..MaxPoints
      /\ timeline[tl].active \in Seq(Points) /\ timeline[tl] \in TimelineRec
      /\ timeline[tl].last <= timeline[tl].seq
  BY <1>7, TimelineIs DEF Inv, SeqOK
<1>9. ASSUME NEW p \in met
      PROVE  /\ p \in Points /\ point[p].life = "live" /\ point[p].tl = tl
             /\ NativeSignalled(p) /\ HasSync(p)
  <2>1. Has(timeline[tl].active, p) /\ (point[p].status # "unsignalled" \/ NativeSignalled(p))
    <3>1. PICK i \in DOMAIN timeline[tl].active :
              /\ timeline[tl].active[i] = p
              /\ \A k \in 1..i : \/ point[timeline[tl].active[k]].status # "unsignalled"
                                 \/ NativeSignalled(timeline[tl].active[k])
      BY <1>2 DEF SignalledPrefix
    <3>2. i \in 1..Len(timeline[tl].active) /\ i \in 1..i
      BY <1>8, <3>1, LenProperties
    <3>3. QED
      BY <3>1, <3>2 DEF Has
  <2>2. p \in Points
    BY <1>8, <2>1, HasIn
  <2>3. point[p].life = "live" /\ Tl(p) = tl
    BY <1>7, <2>1, <2>2 DEF Inv, ActiveOK
  <2>4. NativeSignalled(p)
    BY <2>1, <2>2 DEF Inv, StateOK
  <2>5. QED
    BY <2>2, <2>3, <2>4 DEF NativeSignalled, Tl
<1>10. /\ \A p \in Points : p \in new => point'[p] = Noticed(point[p]) /\ p \in met
       /\ \A p \in Points : p \notin new => point'[p] = point[p]
  BY <1>3, <1>5
<1>11. ASSUME NEW p \in Points, p \in new
       PROVE  point'[p] \in PointRec /\ NativeSignalled(p)' /\ Advanced(p)
  BY <1>9, <1>10, <1>11, NoticedAdvances
<1>12. point' \in [Points -> PointRec]
  <2>1. \A p \in Points : point'[p] \in PointRec
    BY <1>10, <1>11, PointIs
  <2>2. point' = [p \in Points |-> point'[p]]
    BY <1>5
  <2>3. QED
    BY <2>1, <2>2
<1>13. PICK a : a = Without(timeline[tl].active, met)
  OBVIOUS
<1>14. a \in Seq(Points) /\ \A p : Has(a, p) <=> Has(timeline[tl].active, p) /\ p \notin met
  BY <1>8, <1>13, WithoutIs
<1>15. /\ n \in 0..MaxPoints /\ n <= timeline[tl].seq
       /\ ((\A p \in new : point[p].seq <= timeline[tl].last) => n = timeline[tl].last)
  <2>1. PICK S : S = {timeline[tl].last} \cup {point[p].seq : p \in new}
    OBVIOUS
  <2>2. PICK m : m = timeline[tl].seq
    OBVIOUS
  <2>3. \A p \in new : point[p].seq \in 0..m
    <3>1. ASSUME NEW p \in new PROVE point[p].seq \in 0..m
      <4>1. p \in met
        BY <1>3
      <4>2. p \in Points /\ point[p].life = "live" /\ point[p].tl = tl
        BY <1>9, <4>1
      <4>3. point[p].seq \in Nat /\ point[p].seq <= m
        BY <2>2, <4>2, PointNumber
      <4>4. QED
        BY <1>8, <2>2, <4>3, FallbackAssumption
    <3>2. QED
      BY <3>1
  <2>4. m \in Nat /\ m <= MaxPoints /\ timeline[tl].last \in 0..m
    BY <1>8, <2>2, FallbackAssumption
  <2>5. S \in SUBSET (0..m) /\ S # {} /\ timeline[tl].last \in S
    BY <2>1, <2>3, <2>4
  <2>6. n \in S /\ \A y \in S : n >= y
    <3>1. n = Max(S)
      BY <1>4, <2>1
    <3>2. QED
      BY <2>4, <2>5, <3>1, MaxIs
  <2>7. n \in 0..m
    BY <2>5, <2>6
  <2>8. n >= timeline[tl].last
    BY <2>5, <2>6
  <2>9. ASSUME \A p \in new : point[p].seq <= timeline[tl].last
        PROVE  n = timeline[tl].last
    <3>1. CASE n = timeline[tl].last
      BY <3>1
    <3>2. CASE \E p \in new : n = point[p].seq
      <4>1. n <= timeline[tl].last
        BY <2>9, <3>2
      <4>2. QED
        BY <2>4, <2>7, <2>8, <4>1
    <3>3. QED
      BY <2>1, <2>6, <3>1, <3>2
  <2>10. n \in 0..MaxPoints /\ n <= timeline[tl].seq
    BY <2>2, <2>4, <2>7, FallbackAssumption
  <2>11. QED
    BY <2>9, <2>10
<1>16. PICK x : x = [timeline[tl] EXCEPT !.active = a, !.last = n]
  OBVIOUS
<1>17. /\ x \in TimelineRec /\ x.life = timeline[tl].life /\ x.ref = timeline[tl].ref
       /\ x.seq = timeline[tl].seq /\ x.last = n /\ x.handle = timeline[tl].handle
       /\ x.active = a /\ x.lock = timeline[tl].lock
  BY <1>8, <1>14, <1>15, <1>16 DEF TimelineRec
<1>18. /\ timeline' \in [Timelines -> TimelineRec] /\ timeline'[tl] = x
       /\ \A y \in Timelines : y # tl => timeline'[y] = timeline[y]
  <2>1. timeline' = [timeline EXCEPT ![tl] = x]
    BY <1>4, <1>5, <1>13, <1>16 DEF Inv, Typed
  <2>2. QED
    BY <1>7, <1>17, <2>1, TimelineChanges
<1>19. Typed'
  <2>1. misr' \in MisrRec
    BY <1>5, <1>6, <1>7 DEF MisrRec
  <2>2. woken' \subseteq Threads
    BY <1>5 DEF SignalEO, Inv, Typed
  <2>3. QED
    BY <1>5, <1>12, <1>18, <2>1, <2>2 DEF Inv, Typed
<1>20. StatesAdvance
  <2>1. SameTimelines
    BY <1>17, <1>18 DEF SameTimelines
  <2>2. \A y \in Timelines : timeline'[y].last <= timeline[y].seq
    BY <1>15, <1>17, <1>18 DEF Inv, SeqOK
  <2>3. ASSUME NEW p \in met PROVE NativeSignalled(p)'
    <3>1. CASE p \in new
      BY <1>9, <1>11, <3>1
    <3>2. CASE p \notin new
      <4>1. p \in Points /\ NativeSignalled(p) /\ point'[p] = point[p]
        BY <1>9, <1>10, <3>2
      <4>2. QED
        BY <4>1 DEF HasSync, NativeSignalled, NativeState
    <3>3. QED
      BY <3>1, <3>2
  <2>4. ASSUME NEW y \in Timelines, NEW p \in Points
        PROVE  /\ Has(timeline'[y].active, p) => Has(timeline[y].active, p)
               /\ Has(timeline[y].active, p) =>
                     Has(timeline'[y].active, p) \/ NativeSignalled(p)'
    <3>1. CASE y = tl
      BY <1>14, <1>17, <1>18, <2>3, <3>1
    <3>2. CASE y # tl
      BY <1>18, <3>2
    <3>3. QED
      BY <3>1, <3>2
  <2>5. \A p \in Points : point'[p] = point[p] \/ Advanced(p)
    BY <1>10, <1>11
  <2>6. QED
    BY <1>5, <2>1, <2>2, <2>4, <2>5 DEF StatesAdvance
<1>21. OrderOK'
  <2>1. \A p \in Points : NativeSignalled(p)' => NativeSignalled(p)
    <3>1. \A p \in Points : p \notin new => (NativeSignalled(p)' <=> NativeSignalled(p))
      BY <1>10 DEF HasSync, NativeSignalled, NativeState
    <3>2. QED
      BY <1>9, <1>10, <3>1
  <2>2. ASSUME NEW q \in Points, point[q].life = "live", IsSW(q), Owner[point[q].tl] \in alive
        PROVE  timeline'[point[q].tl].last = timeline[point[q].tl].last
    <3>1. CASE point[q].tl = tl
      <4>1. ASSUME NEW p \in new PROVE point[p].seq <= timeline[tl].last
        <5>1. p \in met
          BY <1>3
        <5>2. p \in Points /\ point[p].life = "live" /\ point[p].tl = tl /\ NativeSignalled(p)
          BY <1>9, <5>1
        <5>3. IsSW(p) /\ Owner[point[p].tl] \in alive
          BY <2>2, <3>1, <5>2 DEF IsSW, Tl
        <5>4. QED
          BY <5>2, <5>3 DEF Inv, OrderOK, Tl
      <4>2. n = timeline[tl].last
        BY <1>15, <4>1
      <4>3. QED
        BY <1>17, <1>18, <3>1, <4>2
    <3>2. CASE point[q].tl # tl
      BY <1>18, <2>2, <3>2, PointNumber
    <3>3. QED
      BY <3>1, <3>2
  <2>3. QED
    BY <1>20, <2>1, <2>2, StatesOrder
<1>22. \A y \in Timelines : timeline'[y].lock = timeline[y].lock
  BY <1>17, <1>18
<1>23. QED
  BY <1>5, <1>19, <1>20, <1>21, <1>22, StatesStill

LEMMA ForcePointStep ==
    ASSUME Inv, ForcePoint
    PROVE  Inv'
<1>1. PICK t, p : t = Cleaner /\ p = Head(th[t].todo)
  OBVIOUS
<1>2. t \in Threads
  BY <1>1 DEF Threads
<1>3. /\ th[t].pc = "force" /\ th[t].todo # <<>>
      /\ point' = [point EXCEPT ![p] = SignalAttached(@, "errored")]
      /\ th' = [th EXCEPT ![t].todo = Tail(@)]
      /\ UNCHANGED <<timeline, fence, points, fences, table, fbLock, misr, woken, alive>>
  BY <1>1 DEF ForcePoint
<1>4. /\ p \in Points /\ Has(th[t].todo, p) /\ Tail(th[t].todo) \in Seq(Points)
      /\ \A q : Has(Tail(th[t].todo), q) => Has(th[t].todo, q)
      /\ NoRepeats(Tail(th[t].todo))
  BY <1>1, <1>2, <1>3, TodoIs
<1>5. point[p].ref > 0 /\ point[p].life = "live" /\ HasSync(p)
  BY <1>2, <1>3, <1>4, LookedPoint
<1>6. IsSW(p) /\ Owner[point[p].tl] \notin alive
  BY <1>2, <1>3, <1>4 DEF Inv, LookedOK, Tl
<1>7. PICK d : d = SignalAttached(point[p], "errored")
  OBVIOUS
<1>8. /\ d \in PointRec /\ d.tl = point[p].tl /\ d.seq = point[p].seq /\ d.ref = point[p].ref
      /\ d.status = point[p].status /\ d.life = point[p].life
      /\ Len(d.attached) = Len(point[p].attached)
      /\ DOMAIN d.attached = 1..Len(point[p].attached)
      /\ d.attached # <<>> /\ 1 \in 1..Len(point[p].attached)
      /\ \A i \in 1..Len(point[p].attached) : d.attached[i].state # "unsignalled"
  <2>1. point[p] \in PointRec
    BY <1>4, PointIs
  <2>2. QED
    BY <1>5, <1>7, <2>1, SignalAttachedIs DEF HasSync
<1>9. /\ point' \in [Points -> PointRec] /\ point'[p] = d
      /\ \A q \in Points : q # p => point'[q] = point[q]
  <2>1. point' = [point EXCEPT ![p] = d]
    BY <1>3, <1>7 DEF Inv, Typed
  <2>2. QED
    BY <1>4, <1>8, <2>1, PointChanges
<1>10. HasSync(p)' /\ NativeSignalled(p)'
  BY <1>8, <1>9 DEF HasSync, NativeSignalled, NativeState
<1>11. Advanced(p)
  <2>1. Follows(p)'
    BY <1>8, <1>9 DEF Follows
  <2>2. QED
    BY <1>5, <1>8, <1>9, <1>10, <2>1 DEF Advanced
<1>12. PICK r, s : r = th[t] /\ s = th'[t]
  OBVIOUS
<1>13. /\ r \in ThreadRec /\ Shape(r) /\ r.pc = "force" /\ r.op = "none" /\ r.got = <<>>
       /\ r.looked = {} /\ r.f \in Fences
  <2>1. r \in ThreadRec /\ Shape(r) /\ r.pc = "force"
    BY <1>2, <1>3, <1>12, ThreadIs
  <2>2. r.pc \notin Looking /\ r.pc \notin Waiting
    BY <2>1 DEF Looking, Waiting
  <2>3. r.op = "none" /\ r.got = <<>>
    BY <2>1, <2>2 DEF Shape
  <2>4. r.looked = {} /\ r.f \in Fences
    BY <2>1, <2>2 DEF Shape
  <2>5. QED
    BY <2>1, <2>3, <2>4
<1>14. /\ th' \in [Threads -> ThreadRec] /\ Moved(t)
       /\ s.pc = "force" /\ s.op = "none" /\ s.got = <<>> /\ s.looked = {} /\ s.f = r.f
       /\ s.todo = Tail(th[t].todo)
  <2>1. PICK x : x = [r EXCEPT !.todo = Tail(r.todo)]
    OBVIOUS
  <2>2. x \in ThreadRec
    BY <1>4, <1>12, <1>13, <2>1 DEF ThreadRec
  <2>3. th' = [th EXCEPT ![t] = x]
    BY <1>3, <1>12, <2>1 DEF Inv, Typed
  <2>4. th' \in [Threads -> ThreadRec] /\ th'[t] = x /\ Moved(t)
    BY <1>2, <2>2, <2>3, ThreadMoves
  <2>5. QED
    BY <1>12, <1>13, <2>1, <2>4 DEF ThreadRec
<1>15. Shape(s)
  <2>1. s.pc \notin Looking /\ s.pc \notin Waiting /\ s.pc \notin Creating
        /\ s.pc \notin {"idle", "relPt", "unlist", "freeTl", "attach", "recheck"}
    BY <1>14 DEF Looking, Waiting, Creating
  <2>2. NoRepeats(s.todo) /\ NoRepeats(s.got) /\ \A q : ~Has(s.got, q)
    BY <1>4, <1>14, EmptyHas
  <2>3. s.pc \notin (Looking \ {"check"}) \cup {"relPt", "unlist"}
    BY <2>1
  <2>4. QED
    BY <1>13, <1>14, <2>1, <2>2, <2>3 DEF Shape
<1>16. PlaceOK(t)'
  BY <1>1, <1>12, <1>14 DEF PlaceOK, Creating, Looking, Waiting
<1>17. Onward(t)
  <2>1. r.pc \in Looking \cup Waiting \cup {"force", "idle"}
        /\ s.pc \in Looking \cup Waiting \cup {"force", "idle"}
    BY <1>13, <1>14
  <2>2. \A f \in Fences : Uses(s, f) <=> Uses(r, f)
    BY <1>13, <1>14 DEF Uses
  <2>3. \A q \in Points : s.pc \in Looking /\ Has(s.todo, q) =>
           \E f \in s.looked : Has(fence[f].pts, q)
    BY <1>14 DEF Looking
  <2>4. \A q \in Points : s.pc = "force" /\ Has(s.todo, q) =>
           IsSW(q) /\ Owner[Tl(q)] \notin alive /\ Has(fence[s.f].pts, q)
    BY <1>2, <1>3, <1>4, <1>12, <1>14 DEF Inv, LookedOK
  <2>5. QED
    BY <1>12, <1>13, <1>14, <2>1, <2>2, <2>3, <2>4 DEF Onward
<1>18. QuietThreads
  BY <1>2, <1>17 DEF QuietThreads
<1>19. Typed'
  BY <1>3, <1>9, <1>14 DEF Inv, Typed
<1>20. ControlOK'
  BY <1>2, <1>3, <1>12, <1>14, <1>15, <1>16, ControlMoved
<1>21. StatesAdvance
  BY <1>3, <1>9, <1>11 DEF StatesAdvance, SameTimelines, Inv, SeqOK
<1>22. LockOK'
  BY <1>3, <1>12, <1>14, <1>21, StatesLock DEF Moved
<1>23. OrderOK'
  <2>1. \A q \in Points : q # p => (NativeSignalled(q)' <=> NativeSignalled(q))
    BY <1>9 DEF HasSync, NativeSignalled, NativeState
  <2>2. \A q \in Points : NativeSignalled(q)' => NativeSignalled(q) \/ IsSW(q)
    BY <1>6, <2>1
  <2>3. ASSUME NEW q \in Points, point[q].life = "live", IsSW(q), Owner[point[q].tl] \in alive
        PROVE  NativeSignalled(q)' <=> point[q].seq <= timeline'[point[q].tl].last
    <3>1. q # p
      BY <1>6, <2>3
    <3>2. NativeSignalled(q) <=> point[q].seq <= timeline[point[q].tl].last
      BY <2>3 DEF Inv, OrderOK, Tl
    <3>3. QED
      BY <1>3, <2>1, <3>1, <3>2
  <2>4. QED
    BY <1>21, <2>2, <2>3, OrderAdvances
<1>24. \A u \in Threads, q \in Points :
          (Tells(th[u], q) => Tells(th'[u], q)) /\ (Adds(th[u], q) => Adds(th'[u], q))
  BY <1>3, <1>14 DEF Moved, Tells, Adds
<1>25. \A u \in Threads, q \in Points :
          th'[u].pc \in {"mark", "walk"} /\ Head(th'[u].todo) = q => NativeSignalled(q)
  BY <1>12, <1>14 DEF Moved, Inv, StateOK
<1>26. QED
  BY <1>18, <1>19, <1>20, <1>21, <1>22, <1>23, <1>24, <1>25, StatesStep

---------------------------------------------------------------------------
(* Steps that touch no point *)

LEMMA NotifyBeginStep ==
    ASSUME Inv, NotifyBegin
    PROVE  Inv'
<1>1. /\ UNCHANGED <<timeline, point, fence, points, fences, table, th, woken, alive>>
      /\ \/ misr' = [misr EXCEPT !.interrupt = FALSE] /\ UNCHANGED fbLock
         \/ /\ misr' = [interrupt |-> FALSE, todo |-> Listed, signal |-> FALSE]
            /\ fbLock' = Misr
  BY DEF NotifyBegin
<1>2. Listed \in Seq(Timelines)
  <2> DEFINE live == {tl \in Timelines : timeline[tl].life = "live"}
             key  == [tl \in live |-> tl]
  <2>1. live \in SUBSET Timelines /\ \A x \in live : key[x] = x
    OBVIOUS
  <2>2. Listed = Sorted(live, key)
    BY DEF Listed
  <2> HIDE DEF live, key
  <2>3. IsFiniteSet(live)
    BY <2>1, FallbackAssumption, FS_Subset
  <2>4. \A x \in live : key[x] \in Nat
    BY <2>1, FallbackAssumption
  <2>5. \A x, y \in live : key[x] = key[y] => x = y
    BY <2>1
  <2>6. Sorted(live, key) \in Seq(live)
    BY <2>3, <2>4, <2>5, SortedIs
  <2>7. QED
    BY <2>1, <2>2, <2>6
<1>3. misr' \in MisrRec /\ fbLock' \in {NoLock, Misr} \cup Threads
  <2>1. PICK l : l = Listed
    OBVIOUS
  <2>2. misr \in MisrRec /\ fbLock \in {NoLock, Misr} \cup Threads
    BY DEF Inv, Typed
  <2>3. CASE misr' = [misr EXCEPT !.interrupt = FALSE] /\ UNCHANGED fbLock
    BY <2>2, <2>3 DEF MisrRec
  <2>4. CASE /\ misr' = [interrupt |-> FALSE, todo |-> Listed, signal |-> FALSE]
             /\ fbLock' = Misr
    <3>1. l \in Seq(Timelines) /\ misr' = [interrupt |-> FALSE, todo |-> l, signal |-> FALSE]
      BY <1>2, <2>1, <2>4
    <3>2. misr' \in MisrRec
      BY <3>1 DEF MisrRec
    <3>3. QED
      BY <2>4, <3>2
  <2>5. QED
    BY <1>1, <2>3, <2>4
<1>4. Typed'
  BY <1>1, <1>3 DEF Inv, Typed
<1>5. StatesAdvance
  BY <1>1 DEF StatesAdvance, SameTimelines, Inv, SeqOK
<1>6. \A p \in Points : NativeSignalled(p)' => NativeSignalled(p)
  BY <1>1 DEF NativeSignalled, HasSync, NativeState
<1>7. OrderOK'
  BY <1>1, <1>5, <1>6, StatesOrder
<1>8. QED
  BY <1>1, <1>4, <1>5, <1>7, StatesStill

\* A process of which no thread is in a call.
LEMMA DiesStep ==
    ASSUME Inv, NEW pr, Dies(pr)
    PROVE  Inv'
<1>1. /\ alive' = alive \ {pr} /\ alive' \subseteq alive
      /\ \A t \in Clients : Proc[t] = pr => th[t].pc = "idle"
      /\ UNCHANGED <<timeline, point, fence, points, fences, table, fbLock, th, misr, woken>>
  BY DEF Dies
<1>2. Typed'
  BY <1>1 DEF Inv, Typed
<1>3. ControlOK'
  <2>1. ASSUME NEW t \in Threads PROVE Shape(th'[t]) /\ PlaceOK(t)'
    <3>1. Shape(th[t]) /\ PlaceOK(t)
      BY ThreadIs
    <3>2. ASSUME th[t].pc \in Creating \cup Looking \cup Waiting
          PROVE  t \in Clients /\ Proc[t] \in alive'
      <4>1. t \in Clients /\ Proc[t] \in alive /\ th[t].pc # "idle"
        BY <3>1, <3>2 DEF PlaceOK, Creating, Looking, Waiting
      <4>2. QED
        BY <1>1, <4>1
    <3>3. QED
      BY <1>1, <3>1, <3>2 DEF PlaceOK
  <2>2. QED
    BY <2>1 DEF ControlOK
<1>4. LifeOK' /\ MakersOK'
  BY <1>1 DEF Inv, LifeOK, MakersOK
<1>5. PointRefs' /\ FenceRefs' /\ TimelineRefs' /\ UnlistOK'
  BY <1>1 DEF Inv, PointRefs, FenceRefs, TimelineRefs, UnlistOK, FencesOf, KeepersOf, UsersOf,
              PointsOn
<1>6. LookedOK'
  BY <1>1 DEF Inv, LookedOK, IsSW, Tl
<1>7. SyncOK' /\ LockOK'
  BY <1>1 DEF Inv, SyncOK, LockOK, Bare, HasSync, IsSW, Tl
<1>8. SeqOK' /\ ActiveOK'
  BY <1>1 DEF Inv, SeqOK, ActiveOK, Tl, NativeSignalled, NativeState, HasSync
<1>9. StateOK'
  BY <1>1 DEF Inv, StateOK, Follows, NativeSignalled, NativeState, HasSync
<1>10. \A p \in Points : (HasSync(p)' <=> HasSync(p)) /\ (NativeSignalled(p)' <=> NativeSignalled(p))
  BY <1>1 DEF NativeSignalled, NativeState, HasSync
<1>11. OrderOK'
  <2>1. OldPlaces
    BY <1>1 DEF OldPlaces
  <2>2. QED
    BY <1>1, <1>10, <2>1, OrderKept
<1>12. MergedOK'
  <2>1. Stable
    BY <1>1, <1>10 DEF Stable
  <2>2. \A f \in Fences, p \in Points : Carries(f, p) => Carries(f, p)'
    BY <1>1 DEF Carries
  <2>3. QED
    BY <1>1, <2>1, <2>2, MergedKept
<1>13. QED
  BY <1>2, <1>3, <1>4, <1>5, <1>6, <1>7, <1>8, <1>9, <1>11, <1>12 DEF Inv

LEMMA StutterStep ==
    ASSUME Inv, UNCHANGED vars
    PROVE  Inv'
<1>1. /\ timeline' = timeline /\ point' = point /\ fence' = fence /\ points' = points
      /\ fences' = fences /\ table' = table /\ fbLock' = fbLock /\ th' = th /\ misr' = misr
      /\ woken' = woken /\ alive' = alive
  BY DEF vars
<1>2. Typed'
  BY <1>1 DEF Inv, Typed
<1>3. StatesAdvance
  BY <1>1 DEF StatesAdvance, SameTimelines, Inv, SeqOK
<1>4. \A p \in Points : NativeSignalled(p)' => NativeSignalled(p)
  BY <1>1 DEF NativeSignalled, HasSync, NativeState
<1>5. OrderOK'
  BY <1>1, <1>3, <1>4, StatesOrder
<1>6. QED
  BY <1>1, <1>2, <1>3, <1>5, StatesStill

---------------------------------------------------------------------------
(* The inductive invariant *)

LEMMA InitInv == Init => Inv
<1> SUFFICES ASSUME Init PROVE Inv
  OBVIOUS
<1>1. /\ timeline = [tl \in Timelines |-> NewTimeline]
      /\ point = [p \in Points |-> NoPoint]
      /\ fence = [f \in Fences |-> NoFence]
      /\ points = 0 /\ fences = 0 /\ table = {}
      /\ fbLock = NoLock
      /\ th = [t \in Threads |-> Idle]
      /\ misr = [interrupt |-> FALSE, todo |-> <<>>, signal |-> FALSE]
      /\ woken = {} /\ alive = Processes
  BY DEF Init
<1>2. \A D : <<>> \in Seq(D)
  BY EmptyHas
<1>3. /\ 0 \in 0..MaxPoints /\ 0 \in 0..MaxFences /\ 1 \in Nat /\ 0 \in Nat
      /\ \A p \in Points : p > 0
  BY FallbackAssumption DEF Points
<1>4. /\ NewTimeline \in TimelineRec /\ NewTimeline.life = "live" /\ NewTimeline.ref = 1
      /\ NewTimeline.seq = 0 /\ NewTimeline.last = 0 /\ NewTimeline.handle
      /\ NewTimeline.active = <<>>
  <2>1. <<>> \in Seq(Points) /\ "live" \in Lives
    BY <1>2 DEF Lives
  <2>2. QED
    BY <1>3, <2>1 DEF NewTimeline, TimelineRec
<1>5. /\ NoPoint \in PointRec /\ NoPoint.life = "none" /\ NoPoint.ref = 0
      /\ NoPoint.status = "unsignalled" /\ NoPoint.attached = <<>>
  <2>1. <<>> \in Seq(Attached) /\ "none" \in Lives /\ "unsignalled" \in States
    BY <1>2 DEF Lives, States
  <2>2. QED
    BY <1>3, <2>1 DEF NoPoint, PointRec
<1>6. /\ NoFence \in FenceRec /\ NoFence.pts = <<>> /\ NoFence.ref = 0 /\ NoFence.handles = {}
      /\ NoFence.life = "none" /\ NoFence.src = {}
  <2>1. <<>> \in Seq(Points) /\ "none" \in Lives
    BY <1>2 DEF Lives
  <2>2. QED
    BY <1>3, <2>1 DEF NoFence, FenceRec
<1>7. /\ Idle \in ThreadRec
      /\ Idle.pc = "idle" /\ Idle.op = "none" /\ Idle.f = 0 /\ Idle.new = 0
      /\ Idle.looked = {} /\ Idle.todo = <<>> /\ Idle.got = <<>>
  BY IdleIs
<1>8. /\ \A tl \in Timelines : timeline[tl] = NewTimeline
      /\ \A p \in Points : point[p] = NoPoint
      /\ \A f \in Fences : fence[f] = NoFence
      /\ \A t \in Threads : th[t] = Idle
  BY <1>1
<1>9. Typed
  <2>1. misr \in MisrRec
    BY <1>1, <1>2 DEF MisrRec
  <2>2. QED
    BY <1>1, <1>3, <1>4, <1>5, <1>6, <1>7, <2>1 DEF Typed
<1>10. Shape(Idle) /\ Idle.pc \notin Creating \cup Looking \cup Waiting \cup {"force"}
  <2>1. NoRepeats(<<>>) /\ \A p : ~Has(<<>>, p)
    BY EmptyHas
  <2>2. "idle" \notin Creating /\ "idle" \notin Looking /\ "idle" \notin Waiting
    BY DEF Creating, Looking, Waiting
  <2>3. QED
    BY <1>7, <2>1, <2>2 DEF Shape
<1>11. ControlOK
  BY <1>8, <1>10 DEF ControlOK, PlaceOK
<1>12. LifeOK
  <2>1. \A p \in Points : point[p].life = "none" /\ p > points
    BY <1>1, <1>3, <1>5, <1>8
  <2>2. QED
    BY <1>1, <1>5, <1>6, <1>8, <2>1 DEF LifeOK
<1>13. /\ \A p : ~Keeps(Idle, p) /\ ~Unlists(Idle, p)
       /\ \A f : ~Uses(Idle, f) /\ ~Makes(Idle, f)
       /\ \A tl : ~Frees(Idle, tl)
       /\ \A p : ~Has(<<>>, p)
  <2>1. \A p : ~Has(<<>>, p)
    BY EmptyHas
  <2>2. (\A p : ~Keeps(Idle, p) /\ ~Unlists(Idle, p)) /\ \A tl : ~Frees(Idle, tl)
    BY <1>7, <2>1, OwesNothing
  <2>3. \A f : ~Uses(Idle, f) /\ ~Makes(Idle, f)
    BY <1>7, <1>10 DEF Uses, Makes
  <2>4. QED
    BY <2>1, <2>2, <2>3
<1>14. MakersOK
  BY <1>8, <1>13 DEF MakersOK
<1>15. Cardinality({}) = 0
  BY FS_EmptySet
<1>16. PointRefs
  <2>1. \A p \in Points : FencesOf(p) = {} /\ KeepersOf(p) = {}
    BY <1>6, <1>8, <1>13 DEF FencesOf, KeepersOf
  <2>2. \A p \in Points : Cardinality(FencesOf(p)) = 0 /\ Cardinality(KeepersOf(p)) = 0
    BY <1>15, <2>1
  <2>3. \A p \in Points : point[p].ref = 0
    BY <1>5, <1>8
  <2>4. QED
    BY <2>2, <2>3 DEF PointRefs
<1>17. FenceRefs
  <2>1. \A f \in Fences : UsersOf(f) = {}
    BY <1>8, <1>13 DEF UsersOf
  <2>2. \A f \in Fences : /\ Cardinality(UsersOf(f)) = 0 /\ Cardinality(fence[f].handles) = 0
                           /\ fence[f].ref = 0 /\ fence[f].life = "none"
    BY <1>6, <1>8, <1>15, <2>1
  <2>3. QED
    BY <2>2 DEF FenceRefs
<1>18. TimelineRefs
  <2>1. \A tl \in Timelines : PointsOn(tl) = {}
    BY <1>5, <1>8 DEF PointsOn
  <2>2. \A tl \in Timelines :
           /\ Cardinality(PointsOn(tl)) = 0
           /\ timeline[tl].ref = 1 /\ timeline[tl].life = "live" /\ timeline[tl].handle
    BY <1>4, <1>8, <1>15, <2>1
  <2>3. \A t \in Threads, tl \in Timelines : ~Frees(th[t], tl)
    BY <1>8, <1>13
  <2>4. QED
    BY <2>2, <2>3 DEF TimelineRefs
<1>19. UnlistOK
  BY <1>5, <1>8, <1>13 DEF UnlistOK
<1>20. LookedOK
  <2>1. NoRepeats(<<>>)
    BY EmptyHas
  <2>2. QED
    BY <1>6, <1>7, <1>8, <1>13, <2>1 DEF LookedOK
<1>21. SyncOK
  BY <1>1, <1>5, <1>7, <1>8, <1>13 DEF SyncOK, Bare
<1>22. LockOK
  BY <1>7, <1>8 DEF LockOK, Adds
<1>23. SeqOK
  BY <1>1, <1>4, <1>5, <1>8 DEF SeqOK
<1>24. ActiveOK
  BY <1>4, <1>5, <1>8, <1>13 DEF ActiveOK
<1>25. StateOK
  BY <1>5, <1>7, <1>8 DEF StateOK, Follows
<1>26. OrderOK
  BY <1>5, <1>8 DEF OrderOK
<1>27. MergedOK
  BY <1>6, <1>8 DEF MergedOK
<1>28. QED
  BY <1>9, <1>11, <1>12, <1>14, <1>16, <1>17, <1>18, <1>19, <1>20, <1>21, <1>22, <1>23,
     <1>24, <1>25, <1>26, <1>27 DEF Inv

LEMMA GoesStep ==
    ASSUME Inv, NEW t \in Threads, Goes(t)
    PROVE  Inv'
<1>1. CASE CheckpointAttached(t)
  BY <1>1, CheckpointAttachedStep
<1>2. CASE FenceCreated(t)
  BY <1>2, FenceCreatedStep
<1>3. CASE CheckPoint(t)
  BY <1>3, CheckPointStep
<1>4. CASE MarkPoint(t)
  BY <1>4, MarkPointStep
<1>5. CASE WalkAttached(t)
  BY <1>5, WalkAttachedStep
<1>6. CASE AttachForeign(t)
  BY <1>6, AttachForeignStep
<1>7. CASE RecheckForeign(t)
  BY <1>7, RecheckForeignStep
<1>8. CASE Merged(t)
  BY <1>8, MergedStep
<1>9. CASE GoToSleep(t)
  BY <1>9, GoToSleepStep
<1>10. CASE WakeUp(t)
  BY <1>10, WakeUpStep
<1>11. CASE WaitSucceeds(t)
  BY <1>11, EndWaitStep DEF WaitSucceeds, Waiting
<1>12. CASE PointRelease(t)
  BY <1>12, PointReleaseStep
<1>13. CASE UnlistPoint(t)
  BY <1>13, UnlistPointStep
<1>14. CASE TimelineFree(t)
  BY <1>14, TimelineFreeStep
<1>15. QED
  BY <1>1, <1>2, <1>3, <1>4, <1>5, <1>6, <1>7, <1>8, <1>9, <1>10, <1>11, <1>12, <1>13, <1>14
     DEF Goes

LEMMA CallStep ==
    ASSUME Inv, NEW t \in Clients, Call(t)
    PROVE  Inv'
<1>1. ASSUME NEW tl \in Timelines, FenceCreatePVR(t, tl) PROVE Inv'
  BY <1>1, FenceCreatePVRStep
<1>2. ASSUME NEW tl \in Timelines, SWTimelineFenceCreate(t, tl) PROVE Inv'
  BY <1>2, SWTimelineFenceCreateStep
<1>3. ASSUME NEW tl \in Timelines, TimelineDestroy(t, tl) PROVE Inv'
  <2>1. Ready(t) /\ TimelineRelease(t, tl)
    BY <1>3 DEF TimelineDestroy
  <2>2. t \in Threads /\ th[t].pc = "idle"
    BY <2>1, ReadyIs, IdleIs
  <2>3. QED
    BY <2>1, <2>2, TimelineReleaseStep
<1>4. ASSUME NEW f \in Fences, FenceDestroy(t, f) PROVE Inv'
  BY <1>4, FenceDestroyStep
<1>5. ASSUME NEW tl \in Timelines, SWTimelineAdvance(t, tl) PROVE Inv'
  BY <1>5, SWTimelineAdvanceStep
<1>6. ASSUME NEW f \in Fences, FenceResolvePVR(t, f) PROVE Inv'
  BY <1>6, ResolveStep
<1>7. ASSUME NEW f \in Fences, NEW g \in Fences, FenceMerge(t, f, g) PROVE Inv'
  BY <1>7, FenceMergeStep
<1>8. ASSUME NEW f \in Fences, FenceWait(t, f) PROVE Inv'
  BY <1>8, FenceWaitStep
<1>9. ASSUME NEW f \in Fences, FenceImport(t, f) PROVE Inv'
  BY <1>9, FenceImportStep
<1>10. QED
  BY <1>1, <1>2, <1>3, <1>4, <1>5, <1>6, <1>7, <1>8, <1>9 DEF Call, Create, Destroy

LEMMA PurgeStep ==
    ASSUME Inv, Purge
    PROVE  Inv'
<1>1. CASE \E f \in Fences, pr \in Processes : PurgeFence(f, pr)
  BY <1>1, PurgeFenceStep
<1>2. CASE \E tl \in Timelines : PurgeTimeline(tl)
  BY <1>2, TimelineReleaseStep DEF PurgeTimeline, Threads
<1>3. CASE ForcePoint
  BY <1>3, ForcePointStep
<1>4. CASE PurgeRelease
  BY <1>4, PurgeReleaseStep
<1>5. QED
  BY <1>1, <1>2, <1>3, <1>4 DEF Purge

LEMMA NextInv == Inv /\ [Next]_vars => Inv'
<1> SUFFICES ASSUME Inv, [Next]_vars PROVE Inv'
  OBVIOUS
<1>1. CASE \E t \in Clients : Call(t)
  BY <1>1, CallStep
<1>2. CASE \E t \in Clients : FenceCreateFails(t)
  BY <1>2, FenceCreateFailsStep DEF Threads
<1>3. CASE \E t \in Clients : WaitTimesOut(t)
  <2>1. PICK t \in Clients : WaitTimesOut(t)
    BY <1>3
  <2>2. t \in Threads /\ th[t].pc \in Waiting /\ EndWait(t)
    BY <2>1 DEF WaitTimesOut, Waiting, Threads
  <2>3. QED
    BY <2>2, EndWaitStep
<1>4. CASE \E t \in Threads : Goes(t)
  BY <1>4, GoesStep
<1>5. CASE \E p \in Points : FirmwareSignals(p)
  BY <1>5, FirmwareSignalsStep
<1>6. CASE \E pr \in Processes : Dies(pr)
  BY <1>6, DiesStep
<1>7. CASE Notify
  BY <1>7, NotifyBeginStep, NotifyTimelineStep DEF Notify
<1>8. CASE Purge
  BY <1>8, PurgeStep
<1>9. CASE UNCHANGED vars
  BY <1>9, StutterStep
<1>10. QED
  BY <1>1, <1>2, <1>3, <1>4, <1>5, <1>6, <1>7, <1>8, <1>9 DEF Next

\* Every reference to a point, a fence or a timeline is that of a fence, of a
\* handle or of a thread, and nobody else touches a point that has no sync.
THEOREM ReferencesHold == Spec => []Inv
<1>1. Init => Inv
  BY InitInv
<1>2. Inv /\ [Next]_vars => Inv'
  BY NextInv
<1>3. QED
  BY <1>1, <1>2, PTL DEF Spec

---------------------------------------------------------------------------
(* What follows *)

\* The records have their types, and no more references than there are holders.
LEMMA TypedOK == Inv => TypeOK
<1> SUFFICES ASSUME Inv PROVE TypeOK
  OBVIOUS
<1>1. ASSUME NEW tl \in Timelines PROVE timeline[tl].ref \in 0..MaxPoints + 1
  <2>1. PICK c : c = Cardinality(PointsOn(tl))
    OBVIOUS
  <2>2. c \in Nat /\ c <= MaxPoints
    <3>1. IsFiniteSet(Points) /\ Cardinality(Points) = MaxPoints
      <4>1. /\ IsFiniteSet(1..MaxPoints)
            /\ Cardinality(1..MaxPoints) = IF 1 > MaxPoints THEN 0 ELSE MaxPoints - 1 + 1
        BY FallbackAssumption, FS_Interval
      <4>2. QED
        BY <4>1, FallbackAssumption DEF Points
    <3>2. PointsOn(tl) \in SUBSET Points
      BY DEF PointsOn
    <3>3. Cardinality(PointsOn(tl)) <= Cardinality(Points)
      BY <3>1, <3>2, FS_Subset
    <3>4. c \in Nat
      BY <2>1, FiniteCounts, FewNone
    <3>5. QED
      BY <2>1, <3>1, <3>3, <3>4
  <2>3. timeline[tl].ref = c + IF timeline[tl].handle THEN 1 ELSE 0
    BY <2>1 DEF Inv, TimelineRefs
  <2>4. timeline[tl].ref = c \/ timeline[tl].ref = c + 1
    <3>1. CASE timeline[tl].handle
      BY <2>3, <3>1
    <3>2. CASE ~timeline[tl].handle
      BY <2>2, <2>3, <3>2
    <3>3. QED
      BY <3>1, <3>2
  <2>5. QED
    BY <2>2, <2>4, FallbackAssumption
<1>2. timeline \in [Timelines ->
          [life : Lives, ref : 0..MaxPoints + 1, seq : 0..MaxPoints,
           last : 0..MaxPoints, handle : BOOLEAN, active : Seq(Points),
           lock : Threads \cup {NoLock}]]
  <2>1. ASSUME NEW tl \in Timelines
        PROVE  timeline[tl] \in
                  [life : Lives, ref : 0..MaxPoints + 1, seq : 0..MaxPoints,
                   last : 0..MaxPoints, handle : BOOLEAN, active : Seq(Points),
                   lock : Threads \cup {NoLock}]
    <3>1. timeline[tl] \in TimelineRec /\ timeline[tl].ref \in 0..MaxPoints + 1
      BY <1>1, TimelineIs
    <3>2. QED
      BY <3>1 DEF TimelineRec
  <2>2. timeline = [tl \in Timelines |-> timeline[tl]]
    BY DEF Inv, Typed
  <2>3. QED
    BY <2>1, <2>2
<1>3. /\ IsFiniteSet(Fences) /\ Cardinality(Fences) = MaxFences
      /\ Cardinality(Threads) \in Nat /\ Cardinality(Processes) \in Nat
  <2>1. /\ IsFiniteSet(1..MaxFences)
        /\ Cardinality(1..MaxFences) = IF 1 > MaxFences THEN 0 ELSE MaxFences - 1 + 1
    BY FallbackAssumption, FS_Interval
  <2>2. QED
    BY <2>1, FallbackAssumption, FiniteSets, FewNone DEF Fences
<1>4. ASSUME NEW p \in Points PROVE point[p].ref \in 0..MaxFences + Cardinality(Threads)
  <2>1. PICK a, b, c : a = Cardinality(FencesOf(p)) /\ b = Cardinality(KeepersOf(p))
                       /\ c = Cardinality(Threads)
    OBVIOUS
  <2>2. a \in Nat /\ a <= MaxFences
    <3>1. FencesOf(p) \in SUBSET Fences
      BY DEF FencesOf
    <3>2. Cardinality(FencesOf(p)) <= Cardinality(Fences)
      BY <1>3, <3>1, FS_Subset
    <3>3. QED
      BY <1>3, <2>1, <3>2, FiniteCounts, FewNone
  <2>3. b \in Nat /\ b <= c
    <3>1. KeepersOf(p) \in SUBSET Threads
      BY DEF KeepersOf
    <3>2. Cardinality(KeepersOf(p)) <= Cardinality(Threads)
      BY <3>1, FiniteSets, FS_Subset
    <3>3. QED
      BY <2>1, <3>2, FiniteCounts, FewNone
  <2>4. point[p].ref = a + b
    BY <2>1 DEF Inv, PointRefs
  <2>5. QED
    BY <1>3, <2>1, <2>2, <2>3, <2>4, FallbackAssumption
<1>5. ASSUME NEW f \in Fences
      PROVE  fence[f].ref \in 0..Cardinality(Processes) + Cardinality(Threads)
  <2>1. PICK a, b, c, d : /\ a = Cardinality(fence[f].handles) /\ b = Cardinality(UsersOf(f))
                          /\ c = Cardinality(Threads) /\ d = Cardinality(Processes)
    OBVIOUS
  <2>2. a \in Nat /\ a <= d
    <3>1. fence[f].handles \in SUBSET Processes
      BY FenceIs
    <3>2. /\ Cardinality(fence[f].handles) <= Cardinality(Processes)
          /\ IsFiniteSet(fence[f].handles)
      BY <3>1, FallbackAssumption, FS_Subset
    <3>3. QED
      BY <2>1, <3>2, FewNone
  <2>3. b \in Nat /\ b <= c
    <3>1. UsersOf(f) \in SUBSET Threads
      BY DEF UsersOf
    <3>2. Cardinality(UsersOf(f)) <= Cardinality(Threads)
      BY <3>1, FiniteSets, FS_Subset
    <3>3. QED
      BY <2>1, <3>2, FiniteCounts, FewNone
  <2>4. fence[f].ref = a + b
    BY <2>1 DEF Inv, FenceRefs
  <2>5. QED
    BY <1>3, <2>1, <2>2, <2>3, <2>4
<1>6. point \in [Points ->
          [tl : Timelines \cup {0}, seq : 0..MaxPoints,
           ref : 0..MaxFences + Cardinality(Threads),
           status : States, life : Lives, attached : Seq(Attached)]]
  <2>1. ASSUME NEW p \in Points
        PROVE  point[p] \in
                  [tl : Timelines \cup {0}, seq : 0..MaxPoints,
                   ref : 0..MaxFences + Cardinality(Threads),
                   status : States, life : Lives, attached : Seq(Attached)]
    <3>1. PICK R : R = 0..MaxFences + Cardinality(Threads)
      OBVIOUS
    <3>2. point[p] \in PointRec /\ point[p].ref \in R
      BY <1>4, <3>1, PointIs
    <3>3. point[p] \in [tl : Timelines \cup {0}, seq : 0..MaxPoints, ref : R,
                        status : States, life : Lives, attached : Seq(Attached)]
      BY <3>2 DEF PointRec
    <3>4. QED
      BY <3>1, <3>3
  <2>2. point = [p \in Points |-> point[p]]
    BY DEF Inv, Typed
  <2>3. QED
    BY <2>1, <2>2
<1>7. fence \in [Fences ->
          [pts : Seq(Points), ref : 0..Cardinality(Processes) + Cardinality(Threads),
           handles : SUBSET Processes, life : Lives, src : SUBSET Points]]
  <2>1. ASSUME NEW f \in Fences
        PROVE  fence[f] \in
                  [pts : Seq(Points), ref : 0..Cardinality(Processes) + Cardinality(Threads),
                   handles : SUBSET Processes, life : Lives, src : SUBSET Points]
    <3>1. PICK R : R = 0..Cardinality(Processes) + Cardinality(Threads)
      OBVIOUS
    <3>2. fence[f] \in FenceRec /\ fence[f].ref \in R
      BY <1>5, <3>1, FenceIs
    <3>3. fence[f] \in [pts : Seq(Points), ref : R, handles : SUBSET Processes,
                        life : Lives, src : SUBSET Points]
      BY <3>2 DEF FenceRec
    <3>4. QED
      BY <3>1, <3>3
  <2>2. fence = [f \in Fences |-> fence[f]]
    BY DEF Inv, Typed
  <2>3. QED
    BY <2>1, <2>2
<1>8. QED
  BY <1>2, <1>6, <1>7 DEF Inv, Typed, TypeOK, ThreadRec, MisrRec

LEMMA FollowOK == Inv => AttachedFollow
<1> SUFFICES ASSUME Inv, NEW p \in Points, point[p].status # "unsignalled", ~Telling(p),
                    NEW i \in DOMAIN point[p].attached
             PROVE  point[p].attached[i].state # "unsignalled"
  BY DEF AttachedFollow
<1>1. \/ point[p].attached[i].state # "unsignalled"
      \/ \E t \in Threads : Tells(th[t], p) \/ Adds(th[t], p)
  <2>1. Follows(p)
    BY DEF Inv, StateOK
  <2>2. QED
    BY <2>1 DEF Follows
<1>2. ASSUME NEW t \in Threads, Tells(th[t], p) \/ Adds(th[t], p) PROVE FALSE
  <2>1. th[t].pc \in {"walk", "recheck"} /\ p = Head(th[t].todo)
    BY <1>2 DEF Tells, Adds
  <2>2. th[t].todo # <<>>
    BY <2>1, OpIs DEF Looking
  <2>3. Has(th[t].todo, p) /\ th[t].todo \in Seq(Points)
    BY <2>1, <2>2, TodoIs, ThreadIs
  <2>4. p \in ToSet(th[t].todo)
    BY <2>3, InSeq
  <2>5. QED
    BY <2>1, <2>4 DEF Telling
<1>3. QED
  BY <1>1, <1>2

LEMMA WholeOK == Inv => ReachedIsWhole
<1> SUFFICES ASSUME Inv PROVE ReachedIsWhole
  OBVIOUS
<1>1. ASSUME NEW tl \in Timelines, NEW p \in ToSet(timeline[tl].active)
      PROVE  /\ point[p].life = "live" /\ timeline[tl].life = "live"
             /\ HasSync(p) \/ ~Free(tl) \/ BeingReleased(p)
  <2>1. timeline[tl].active \in Seq(Points)
    BY TimelineIs
  <2>2. Has(timeline[tl].active, p) /\ p \in Points
    BY <1>1, <2>1, InSeq, HasIn
  <2>3. point[p].life = "live" /\ Tl(p) = tl
    BY <2>2 DEF Inv, ActiveOK
  <2>4. timeline[tl].life = "live"
    BY <2>2, <2>3, LiveTimeline DEF Tl
  <2>5. ASSUME ~HasSync(p) PROVE ~Free(tl) \/ BeingReleased(p)
    <3>1. PICK t \in Threads : Begins(th[t], p)
      BY <2>2, <2>3, <2>5 DEF Inv, SyncOK, Bare
    <3>2. th[t].pc \in {"create", "relPt", "unlist"} /\ th[t].todo = <<p>>
      BY <3>1 DEF Begins
    <3>3. CASE th[t].pc = "create"
      <4>1. Head(th[t].todo) = p
        BY <3>2
      <4>2. timeline[Tl(p)].lock = t
        BY <2>2, <3>3, <4>1 DEF Inv, LockOK
      <4>3. QED
        BY <2>3, <4>2, FallbackAssumption DEF Free
    <3>4. CASE th[t].pc \in {"relPt", "unlist"}
      <4>1. Has(<<p>>, p)
        BY OneHas
      <4>2. Has(th[t].todo, p) /\ th[t].todo \in Seq(Points)
        BY <3>2, <4>1, ThreadIs
      <4>3. p \in ToSet(th[t].todo)
        BY <4>2, InSeq
      <4>4. QED
        BY <3>4, <4>3 DEF BeingReleased
    <3>5. QED
      BY <3>2, <3>3, <3>4
  <2>6. QED
    BY <2>3, <2>4, <2>5
<1>2. ASSUME NEW p \in table PROVE point[p].life = "live" /\ HasSync(p)
  <2>1. p \in Points /\ point[p].ref > 0
    BY DEF Inv, Typed, SyncOK
  <2>2. point[p].life = "live"
    BY <2>1, PointIs
  <2>3. HasSync(p)
    BY <2>1, <2>2 DEF Inv, SyncOK, Bare
  <2>4. QED
    BY <2>2, <2>3
<1>3. ASSUME NEW f \in Fences, fence[f].life = "live"
      PROVE  /\ fence[f].ref > 0
             /\ \A p \in ToSet(fence[f].pts) :
                   point[p].ref > 0 /\ HasSync(p) /\ timeline[Tl(p)].life = "live"
  <2>1. fence[f].ref > 0
    BY <1>3 DEF Inv, FenceRefs
  <2>2. ASSUME NEW p \in ToSet(fence[f].pts)
        PROVE  point[p].ref > 0 /\ HasSync(p) /\ timeline[Tl(p)].life = "live"
    <3>1. Has(fence[f].pts, p)
      BY FenceIs, InSeq
    <3>2. p \in Points /\ point[p].ref > 0 /\ HasSync(p) /\ point[p].life = "live"
      BY <3>1, FencePoint
    <3>3. QED
      BY <3>2, LiveTimeline DEF Tl
  <2>3. QED
    BY <2>1, <2>2
<1>4. QED
  BY <1>1, <1>2, <1>3 DEF ReachedIsWhole

LEMMA MergedAllOK == Inv => MergedWaitsForAll
<1> SUFFICES ASSUME Inv, NEW f \in Fences, fence[f].life = "live", AllSignalled(f),
                    NEW q \in fence[f].src
             PROVE  \/ point[q].ref = 0 \/ point[q].status # "unsignalled"
                    \/ NativeSignalled(q)
                    \/ \E p \in fence[f].src : IsSW(p) /\ Owner[Tl(p)] \notin alive
  BY DEF MergedWaitsForAll
<1>1. q \in Points
  BY FenceIs
<1>2. /\ point[q].life # "none" /\ (point[q].ref = 0 \/ HasSync(q))
      /\ Settled(q) \/ \E p \in Points : Carries(f, p) /\ Later(p, q)
  BY DEF Inv, MergedOK
<1>3. Settled(q)
  <2>1. ASSUME NEW p \in Points, Carries(f, p), Later(p, q) PROVE Settled(q)
    <3>1. Has(fence[f].pts, p)
      <4>1. ASSUME NEW t \in Threads, th[t].op = "merge", th[t].new = f PROVE FALSE
        <5>1. Makes(th[t], f) /\ f \in 0..MaxFences
          BY <4>1, ThreadIs DEF Makes
        <5>2. fence[f].life = "none"
          BY <5>1 DEF Inv, MakersOK
        <5>3. QED
          BY <5>2
      <4>2. QED
        BY <2>1, <4>1 DEF Carries
    <3>2. point[p].life = "live"
      BY <3>1, FencePoint
    <3>3. point[p].status # "unsignalled"
      <4>1. PICK i \in 1..Len(fence[f].pts) : fence[f].pts[i] = p
        BY <3>1 DEF Has
      <4>2. i \in DOMAIN fence[f].pts
        BY <4>1, FenceIs, LenProperties
      <4>3. QED
        BY <4>1, <4>2 DEF AllSignalled
    <3>4. NativeSignalled(p)
      BY <3>3 DEF Inv, StateOK
    <3>5. QED
      BY <1>1, <1>2, <2>1, <3>2, <3>4, SettledBy
  <2>2. QED
    BY <1>2, <2>1
<1>4. QED
  BY <1>3 DEF Settled

\* Every record keeps its type: the counts of references, the numbers and the
\* lists of timelines, points and fences (TypeOK).
THEOREM FallbackTypes == Spec => []TypeOK
BY ReferencesHold, TypedOK, PTL

\* No sync of another device stays unsignalled once its point is signalled,
\* except between the two writes of the thread that signals or attaches it
\* (SyncPtSignal, FenceResolvePVR).
THEOREM SyncsFollow == Spec => []AttachedFollow
BY ReferencesHold, FollowOK, PTL

\* Whoever reaches a point through the list of a timeline, through the table of
\* checkpoints or through a fence finds it with its sync and its timeline
\* (SyncPtCreate, SyncPtRelease, FenceDestroy).
THEOREM PointsAreWhole == Spec => []ReachedIsWhole
BY ReferencesHold, WholeOK, PTL

\* A merged fence that has signalled stands for every point of the fences that
\* were merged: the points left out had signalled, or precede a point that it
\* has (FenceMerge).
THEOREM MergeLosesNothing == Spec => []MergedWaitsForAll
BY ReferencesHold, MergedAllOK, PTL

=============================================================================
