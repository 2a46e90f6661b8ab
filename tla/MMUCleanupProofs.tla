------------------------- MODULE MMUCleanupProofs -------------------------
(***************************************************************************)
(* Proofs about MMUCleanup for every number of threads, every size of the  *)
(* ring and every width of the sync prim, also when memory or power fails: *)
(* page tables whose invalidation was submitted are not freed before the   *)
(* GPU has forgotten them, although the counter wraps, update values are   *)
(* taken back when a submission fails and other threads take the pending   *)
(* flags.                                                                  *)
(***************************************************************************)
EXTENDS MMUCleanup, KernelCCBProofs

\* Counting on without wrapping, a is the update value u.
StandsFor(a, u) == \E w \in Int : a = w * SyncModulus + u

\* num numbers the commands of the list q, which begins after update value u:
\* an invalidation carries the value after that of the one before it.
Counts(q, u, num) ==
    /\ num \in [0..Len(q) -> Int]
    /\ StandsFor(num[0], u)
    /\ \A i \in 1..Len(q) :
          IF q[i].kind = "MMUCACHE"
          THEN num[i] = num[i - 1] + 1 /\ StandsFor(num[i], q[i].update)
          ELSE num[i] = num[i - 1]
    /\ \A i, j \in 0..Len(q) :
          j <= i => num[j] <= num[i] /\ num[i] <= num[j] + i - j

\* After last, the number of the last command of the queue, comes the value of
\* the invalidation about to be sent, if any, and then the next one to be taken.
Continues(last) ==
    IF Promised
    THEN /\ StandsFor(last + 2, nextUpdate)
         /\ \A t \in AllThreads : todo[t] \in CacheWorks => StandsFor(last + 1, update[t])
    ELSE StandsFor(last + 1, nextUpdate)

\* The update values follow each other from the sync prim through the queue and
\* the thread that sends to the next one: a submission that fails leaves no gap.
Numbered ==
    \E num \in [0..Len(Queue) -> Int] :
        Counts(Queue, mmuSync, num) /\ Continues(num[Len(Queue)])

\* The GPU has forgotten the page tables of the item, or the invalidation that
\* will see to it is in the queue.
Covered(u) ==
    tlb >= removed \/ \E i \in 1..Len(Queue) : Queue[i] = MmuCache(u)

\* How far the kick of the cleanup thread is.
KickAt ==
    /\ slot[Cleaner] = NoValue
    /\ todo[Cleaner] \in {<<>>, CacheWork}
    /\ item # "kicking" => pc[Cleaner] = "idle"
    /\ item = "kicking" =>
          pc[Cleaner] \notin {"idle", "wait"} /\ op[Cleaner] = "INVALIDATE"
    /\ pc[Cleaner] \in {"idle", "lock", "prepare"} =>
          update[Cleaner] = NoValue /\ ret[Cleaner] = "OK"

\* An invalidation that the kick has submitted, or that the item waits for, is
\* under way or done.
ItemCovered ==
    /\ pc[Cleaner] = "unlock" /\ ret[Cleaner] = "OK" /\ update[Cleaner] # NoValue
          => Covered(update[Cleaner])
    /\ item = "kicked" => Covered(required)

\* The inductive invariant.
CleanupInv ==
    /\ QueueInv
    /\ CleanupTypeOK
    /\ removed <= pageTables
    /\ Numbered
    /\ KickAt
    /\ ItemCovered

\* Fewer commands are under way than the comparison of counters can tell apart,
\* which for the code is 2^28 - 1.
FewUnderWay == Len(Queue) <= WrapWindow /\ Len(Queue) < SyncModulus - WrapWindow

-----------------------------------------------------------------------------
(* Counting modulo the width of the sync prim.                             *)

\* The next update value stands for the next number.
LEMMA StandsForNext ==
    ASSUME NEW a \in Int, NEW u \in Updates, StandsFor(a, u)
    PROVE  StandsFor(a + 1, (u + 1) % SyncModulus)
<1>1. SyncModulus \in Nat \ {0} /\ u \in 0..(SyncModulus - 1)
  BY KernelCCBAssumption DEF Updates
<1>2. PICK w \in Int : a = w * SyncModulus + u
  BY DEF StandsFor
<1>3. CASE u + 1 < SyncModulus
  <2>1. (u + 1) % SyncModulus = u + 1
    BY <1>1, <1>3
  <2>2. a + 1 = w * SyncModulus + (u + 1)
    BY <1>1, <1>2
  <2>3. QED
    BY <1>2, <2>1, <2>2 DEF StandsFor
<1>4. CASE u + 1 = SyncModulus
  <2>1. (u + 1) % SyncModulus = 0
    BY <1>1, <1>4
  <2>2. a + 1 = (w + 1) * SyncModulus + 0 /\ w + 1 \in Int
    BY <1>1, <1>2, <1>4
  <2>3. QED
    BY <2>1, <2>2 DEF StandsFor
<1>5. QED
  BY <1>1, <1>3, <1>4

\* The update value before stands for the number before.
LEMMA StandsForPrevious ==
    ASSUME NEW a \in Int, NEW u \in Updates, StandsFor(a + 1, u)
    PROVE  StandsFor(a, (u + SyncModulus - 1) % SyncModulus)
<1>1. SyncModulus \in Nat \ {0} /\ u \in 0..(SyncModulus - 1)
  BY KernelCCBAssumption DEF Updates
<1>2. PICK w \in Int : a + 1 = w * SyncModulus + u
  BY DEF StandsFor
<1>3. CASE u = 0
  <2>1. (u + SyncModulus - 1) % SyncModulus = SyncModulus - 1
    BY <1>1, <1>3
  <2>2. a = (w - 1) * SyncModulus + (SyncModulus - 1) /\ w - 1 \in Int
    BY <1>1, <1>2, <1>3
  <2>3. QED
    BY <2>1, <2>2 DEF StandsFor
<1>4. CASE u > 0
  <2>1. (u + SyncModulus - 1) % SyncModulus = u - 1
    BY <1>1, <1>4
  <2>2. a = w * SyncModulus + (u - 1)
    BY <1>1, <1>2
  <2>3. QED
    BY <1>2, <2>1, <2>2 DEF StandsFor
<1>5. QED
  BY <1>1, <1>3, <1>4

\* The comparison with the wrapped counter in mind: a value that stands for a
\* later number has not been reached, unless it is too far ahead.
LEMMA LaterIsNotReached ==
    ASSUME NEW a \in Int, NEW b \in Int, NEW u \in Updates, NEW v \in Updates,
           StandsFor(a, u), StandsFor(b, v), a < b,
           b - a <= WrapWindow, b - a < SyncModulus - WrapWindow
    PROVE  ~HasReached(u, v)
<1>1. /\ SyncModulus \in Nat \ {0} /\ WrapWindow \in Nat
      /\ u \in Nat /\ u < SyncModulus /\ v \in Nat /\ v < SyncModulus
  BY KernelCCBAssumption, MMUCleanupAssumption DEF Updates
<1>2. PICK p \in Int : a = p * SyncModulus + u
  BY DEF StandsFor
<1>3. PICK q \in Int : b = q * SyncModulus + v
  BY DEF StandsFor
<1>4. b - a = (q - p) * SyncModulus + (v - u)
  BY <1>1, <1>2, <1>3
<1> DEFINE k == q - p
<1>5. k \in Int /\ b - a = k * SyncModulus + (v - u)
  BY <1>2, <1>3, <1>4
<1> HIDE DEF k
<1>6. k < 2
  <2> SUFFICES ASSUME k >= 2 PROVE FALSE
    BY <1>5
  <2>1. k * SyncModulus >= 2 * SyncModulus
    BY <1>1, <1>5
  <2>2. QED
    BY <1>1, <1>5, <2>1
<1>7. k >= 0
  <2> SUFFICES ASSUME k <= -1 PROVE FALSE
    BY <1>5
  <2>1. k * SyncModulus <= (-1) * SyncModulus
    BY <1>1, <1>5
  <2>2. QED
    BY <1>1, <1>5, <2>1
<1>8. k = 0 \/ k = 1
  BY <1>5, <1>6, <1>7
<1>9. b - a = v - u \/ b - a = SyncModulus + (v - u)
  BY <1>1, <1>5, <1>8
<1>10. QED
  BY <1>1, <1>9 DEF HasReached

-----------------------------------------------------------------------------
(* The numbers of the commands in the queue.                               *)

\* A command appended takes the next number, if it is an invalidation.
LEMMA CountsAppend ==
    ASSUME NEW q \in Seq(Commands), NEW c \in Commands, NEW u \in Updates,
           NEW num \in [0..Len(q) -> Int], Counts(q, u, num),
           c.kind = "MMUCACHE" => StandsFor(num[Len(q)] + 1, c.update)
    PROVE  \E new \in [0..Len(Append(q, c)) -> Int] :
              /\ Counts(Append(q, c), u, new)
              /\ new[Len(Append(q, c))] =
                    num[Len(q)] + (IF c.kind = "MMUCACHE" THEN 1 ELSE 0)
<1> DEFINE p    == Append(q, c)
           n    == Len(q)
           last == num[n] + (IF c.kind = "MMUCACHE" THEN 1 ELSE 0)
           new  == [i \in 0..(n + 1) |-> IF i <= n THEN num[i] ELSE last]
<1>1. n \in Nat
  BY LenProperties
<1>2. /\ Len(p) = n + 1 /\ p[n + 1] = c
      /\ \A i \in 1..n : p[i] = q[i]
  BY AppendProperties
<1>3. num[n] \in Int /\ last \in Int /\ num[n] <= last /\ last <= num[n] + 1
  BY <1>1
<1>4. /\ new \in [0..(n + 1) -> Int]
      /\ \A i \in 0..n : new[i] = num[i]
      /\ new[n + 1] = last
  BY <1>1, <1>3
<1>5. /\ StandsFor(num[0], u)
      /\ \A i \in 1..n : IF q[i].kind = "MMUCACHE"
                         THEN num[i] = num[i - 1] + 1 /\ StandsFor(num[i], q[i].update)
                         ELSE num[i] = num[i - 1]
      /\ \A i, j \in 0..n : j <= i => num[j] <= num[i] /\ num[i] <= num[j] + i - j
  BY DEF Counts
<1>6. c.kind = "MMUCACHE" => last = num[n] + 1 /\ StandsFor(last, c.update)
  OBVIOUS
<1>7. c.kind # "MMUCACHE" => last = num[n]
  BY <1>3
<1> HIDE DEF p, n, last, new
<1>8. StandsFor(new[0], u)
  BY <1>1, <1>4, <1>5
<1>9. \A i \in 1..(n + 1) : IF p[i].kind = "MMUCACHE"
                           THEN new[i] = new[i - 1] + 1 /\ StandsFor(new[i], p[i].update)
                           ELSE new[i] = new[i - 1]
  <2> SUFFICES ASSUME NEW i \in 1..(n + 1)
               PROVE  IF p[i].kind = "MMUCACHE"
                      THEN new[i] = new[i - 1] + 1 /\ StandsFor(new[i], p[i].update)
                      ELSE new[i] = new[i - 1]
    OBVIOUS
  <2>1. CASE i \in 1..n
    <3>1. i \in 0..n /\ i - 1 \in 0..n
      BY <1>1, <2>1
    <3>2. p[i] = q[i] /\ new[i] = num[i] /\ new[i - 1] = num[i - 1]
      BY <1>2, <1>4, <2>1, <3>1
    <3>3. QED
      BY <1>5, <2>1, <3>2
  <2>2. CASE i = n + 1
    <3>1. p[i] = c /\ new[i] = last /\ new[i - 1] = num[n]
      BY <1>1, <1>2, <1>4, <2>2
    <3>2. QED
      BY <1>6, <1>7, <3>1
  <2>3. QED
    BY <1>1, <2>1, <2>2
<1>10. \A i, j \in 0..(n + 1) : j <= i => new[j] <= new[i] /\ new[i] <= new[j] + i - j
  <2> SUFFICES ASSUME NEW i \in 0..(n + 1), NEW j \in 0..(n + 1), j <= i
               PROVE  new[j] <= new[i] /\ new[i] <= new[j] + i - j
    OBVIOUS
  <2>0. new[i] \in Int /\ new[j] \in Int
    BY <1>4
  <2>1. CASE i \in 0..n
    <3>1. j \in 0..n
      BY <1>1, <2>1
    <3>2. new[i] = num[i] /\ new[j] = num[j]
      BY <1>4, <2>1, <3>1
    <3>3. QED
      BY <1>5, <2>1, <3>1, <3>2
  <2>2. CASE i = n + 1 /\ j \in 0..n
    <3>1. new[i] = last /\ new[j] = num[j] /\ num[j] <= num[n] /\ num[n] <= num[j] + n - j
      BY <1>1, <1>4, <1>5, <2>2
    <3>2. QED
      BY <1>1, <1>3, <2>0, <2>2, <3>1
  <2>3. CASE i = n + 1 /\ j = n + 1
    BY <1>1, <2>0, <2>3
  <2>4. QED
    BY <1>1, <2>1, <2>2, <2>3
<1>11. new \in [0..Len(p) -> Int] /\ Counts(p, u, new) /\ new[Len(p)] = last
  BY <1>2, <1>4, <1>8, <1>9, <1>10 DEF Counts
<1>12. QED
  BY <1>11 DEF p, last, n

\* When the head has been executed the numbers begin with its own.
LEMMA CountsTail ==
    ASSUME NEW q \in Seq(Commands), q # <<>>, NEW u \in Updates, NEW v \in Updates,
           NEW num \in [0..Len(q) -> Int], Counts(q, u, num),
           v = IF Head(q).kind = "MMUCACHE" THEN Head(q).update ELSE u
    PROVE  \E new \in [0..Len(Tail(q)) -> Int] :
              Counts(Tail(q), v, new) /\ new[Len(Tail(q))] = num[Len(q)]
<1> DEFINE p   == Tail(q)
           n   == Len(p)
           new == [i \in 0..n |-> num[i + 1]]
<1>1. Len(q) \in Nat \ {0} /\ Head(q) = q[1]
  BY EmptySeq
<1>2. /\ n \in Nat /\ Len(q) = n + 1
      /\ \A i \in 1..n : p[i] = q[i + 1]
  BY <1>1, HeadTailProperties
<1>3. \A i \in 0..n : i + 1 \in 0..Len(q) /\ i + 1 \in 1..Len(q)
  BY <1>2
<1>4. /\ new \in [0..n -> Int]
      /\ \A i \in 0..n : new[i] = num[i + 1]
  BY <1>3
<1>5. /\ StandsFor(num[0], u)
      /\ \A i \in 1..(n + 1) : IF q[i].kind = "MMUCACHE"
                         THEN num[i] = num[i - 1] + 1 /\ StandsFor(num[i], q[i].update)
                         ELSE num[i] = num[i - 1]
      /\ \A i, j \in 0..(n + 1) :
            j <= i => num[j] <= num[i] /\ num[i] <= num[j] + i - j
  BY <1>2 DEF Counts
<1> HIDE DEF p, n, new
<1>6. StandsFor(new[0], v)
  <2>1. new[0] = num[1] /\ 1 \in 1..(n + 1)
    BY <1>2, <1>4
  <2>2. QED
    BY <1>1, <1>5, <2>1
<1>7. \A i \in 1..n : IF p[i].kind = "MMUCACHE"
                     THEN new[i] = new[i - 1] + 1 /\ StandsFor(new[i], p[i].update)
                     ELSE new[i] = new[i - 1]
  <2> SUFFICES ASSUME NEW i \in 1..n
               PROVE  IF p[i].kind = "MMUCACHE"
                      THEN new[i] = new[i - 1] + 1 /\ StandsFor(new[i], p[i].update)
                      ELSE new[i] = new[i - 1]
    OBVIOUS
  <2>1. /\ p[i] = q[i + 1] /\ new[i] = num[i + 1] /\ new[i - 1] = num[i]
        /\ i + 1 \in 1..(n + 1) /\ (i + 1) - 1 = i
    BY <1>2, <1>4
  <2>2. QED
    BY <1>5, <2>1
<1>8. \A i, j \in 0..n : j <= i => new[j] <= new[i] /\ new[i] <= new[j] + i - j
  <2> SUFFICES ASSUME NEW i \in 0..n, NEW j \in 0..n, j <= i
               PROVE  new[j] <= new[i] /\ new[i] <= new[j] + i - j
    OBVIOUS
  <2>1. /\ new[i] = num[i + 1] /\ new[j] = num[j + 1]
        /\ i + 1 \in 0..(n + 1) /\ j + 1 \in 0..(n + 1) /\ j + 1 <= i + 1
        /\ new[i] \in Int /\ new[j] \in Int
    BY <1>2, <1>4
  <2>2. num[j + 1] <= num[i + 1] /\ num[i + 1] <= num[j + 1] + (i + 1) - (j + 1)
    BY <1>5, <2>1
  <2>3. QED
    BY <1>2, <2>1, <2>2
<1>9. new[n] = num[Len(q)]
  BY <1>2, <1>4
<1>10. Counts(p, v, new)
  BY <1>4, <1>6, <1>7, <1>8 DEF Counts, n
<1>11. QED
  BY <1>4, <1>9, <1>10 DEF p, n

-----------------------------------------------------------------------------
(* The kernel CCB under the cleanup thread.                                *)

\* What the types say of the state, without the set of all commands.
LEMMA Typed ==
    ASSUME QueueInv
    PROVE  /\ Queue \in Seq(Commands)
           /\ mmuSync \in Updates /\ nextUpdate \in Updates
           /\ pageTables \in Nat /\ tlb \in Nat
           /\ todo \in [AllThreads -> Seq({"KICK", "MMUCACHE"})]
           /\ update \in [AllThreads -> Updates \cup {NoValue}]
           /\ pc \in [AllThreads -> Locations] /\ op \in [AllThreads -> Ops \cup {"FLUSH"}]
           /\ slot \in [AllThreads -> Offsets \cup {NoValue}]
           /\ ret \in [AllThreads -> {"OK", "RETRY", "KERNEL_CCB_FULL", "POWER_FAILED"}]
           /\ Cleaner \in AllThreads /\ Cleaner # Misr
           /\ NoValue \notin Updates /\ sCacheFlags \in BOOLEAN
<1>1. Queue \in Seq(Commands)
  BY QueueParts DEF QueueInv
<1>2. MaxChanges \in Nat /\ NoValue \notin Updates
  BY KernelCCBAssumption DEF Updates
<1>3. Cleaner \in AllThreads /\ Cleaner # Misr
  BY KernelCCBAssumption, MMUCleanupAssumption DEF AllThreads
<1>4. TypeOK
  BY DEF QueueInv
<1>5. QED
  BY <1>1, <1>2, <1>3, <1>4 DEF TypeOK

\* The cleanup thread enters RGXMMUCacheInvalidateKick like any other.
LEMMA CleanerEnters ==
    ASSUME QueueInv, Enter(Cleaner, "INVALIDATE")
    PROVE  QueueInv' /\ Queue' = Queue
<1>1. /\ pc[Cleaner] = "idle" /\ Cleaner \in AllThreads /\ Cleaner # Misr
      /\ pc' = [pc EXCEPT ![Cleaner] = "lock"] /\ op' = [op EXCEPT ![Cleaner] = "INVALIDATE"]
      /\ needs' = [needs EXCEPT ![Cleaner] = pageTables]
      /\ UNCHANGED <<hPowerLock, ringVars, listVars, flagVars, gpuVars, todo, slot, ret>>
  BY Typed DEF Enter, Goto, Set
<1> USE DEF ringVars, listVars, flagVars, gpuVars
<1>2. TypeOK'
  <2>1. pc' \in [AllThreads -> Locations]
    BY <1>1, Typed DEF Locations
  <2>2. op' \in [AllThreads -> Ops \cup {"FLUSH"}] /\ needs' \in [AllThreads -> 0..MaxChanges]
    BY <1>1 DEF QueueInv, TypeOK, Ops
  <2>3. QED
    BY <1>1, <2>1, <2>2 DEF QueueInv, TypeOK
<1>3. pc'[Cleaner] = "lock" /\ \A t \in AllThreads : t # Cleaner => pc'[t] = pc[t] /\ op'[t] = op[t]
  BY <1>1, Typed
<1>4. LockOwned'
  BY <1>1, <1>3 DEF QueueInv, LockOwned, Holding
<1>5. ListOwned'
  BY <1>1, <1>3 DEF QueueInv, ListOwned, Flushing
<1>6. WorkOwned'
  BY <1>1, <1>3 DEF QueueInv, WorkOwned, Sending
<1>7. MisrFlushes'
  BY <1>1, <1>3 DEF QueueInv, MisrFlushes, AllThreads
<1>8. RingIsWindow' /\ Queue' = Queue
  BY <1>1, QueueKept
<1>9. QED
  BY <1>2, <1>4, <1>5, <1>6, <1>7, <1>8 DEF QueueInv

\* Whatever the cleanup thread does, the kernel CCB keeps its invariant.
LEMMA KernelStep == QueueInv /\ [CleanupNext]_allVars => QueueInv'
<1> SUFFICES ASSUME QueueInv, [CleanupNext]_allVars PROVE QueueInv'
  OBVIOUS
<1>1. CASE InvalidateKick
  BY <1>1, CleanerEnters DEF InvalidateKick
<1>2. CASE SetupCleanup \/ InvalidateKicked \/ FreeMapping
  <2>1. [Next]_vars
    BY <1>2, Typed DEF SetupCleanup, InvalidateKicked, FreeMapping, Next, Step
  <2>2. QED
    BY <2>1, QueueInvStep
<1>3. CASE /\ \/ \E t \in Threads \ {Cleaner}, o \in EntryPoints : Enter(t, o)
              \/ \E t \in AllThreads \ {Cleaner} : Step(t)
              \/ Step(Cleaner) /\ pc[Cleaner] # "unlock"
              \/ MisrStart \/ ChangePageTables \/ FwExecute
           /\ UNCHANGED cleanupVars
  <2>1. [Next]_vars
    BY <1>3, Typed DEF Next
  <2>2. QED
    BY <2>1, QueueInvStep
<1>4. CASE UNCHANGED allVars
  BY <1>4, QueueInvStep DEF allVars
<1>5. QED
  BY <1>1, <1>2, <1>3, <1>4 DEF CleanupNext

-----------------------------------------------------------------------------
(* The numbers of the update values.                                       *)

\* Steps that neither send nor execute an invalidation nor take a value.
LEMMA NumberedKept ==
    ASSUME Numbered, Queue' = Queue,
           UNCHANGED <<mmuSync, nextUpdate, todo>>,
           \A t \in AllThreads : todo[t] \in CacheWorks => update'[t] = update[t]
    PROVE  Numbered'
<1>1. PICK num \in [0..Len(Queue) -> Int] :
            Counts(Queue, mmuSync, num) /\ Continues(num[Len(Queue)])
  BY DEF Numbered
<1>0. PICK last : last = num[Len(Queue)]
  OBVIOUS
<1>2. Continues(last)
  BY <1>0, <1>1
<1>3. Promised' <=> Promised
  BY DEF Promised
<1>4. Continues(last)'
  BY <1>2, <1>3 DEF Continues
<1>5. QED
  BY <1>0, <1>1, <1>4 DEF Numbered

\* A pending invalidation takes the next value.
LEMMA NumberedPrepare ==
    ASSUME QueueInv, Numbered, NEW t \in AllThreads, Prepare(t)
    PROVE  Numbered'
<1>1. Queue' = Queue
  BY QueueKept DEF Prepare, ringVars
<1>2. /\ pc[t] \in Holding /\ todo[t] = <<>>
      /\ op[t] = "INVALIDATE" => sCacheFlags
      /\ todo' = [todo EXCEPT ![t] = WorkOf(t)] /\ UNCHANGED mmuSync
      /\ IF sCacheFlags
         THEN /\ update' = [update EXCEPT ![t] = nextUpdate]
              /\ nextUpdate' = (nextUpdate + 1) % SyncModulus
         ELSE UNCHANGED <<update, nextUpdate>>
  BY DEF Prepare, Set, Holding, QueueInv, WorkOwned, Sending, gpuVars
<1>3. /\ todo'[t] = WorkOf(t)
      /\ \A u \in AllThreads : u # t => todo'[u] = todo[u] /\ todo[u] = <<>>
  BY <1>2, Typed, OnlyHolderPromises
<1>4. ~Promised
  BY <1>2, <1>3, WorkKinds DEF Promised
<1>5. PICK num \in [0..Len(Queue) -> Int] :
            Counts(Queue, mmuSync, num) /\ Continues(num[Len(Queue)])
  BY DEF Numbered
<1>0. PICK last : last = num[Len(Queue)]
  OBVIOUS
<1>6. StandsFor(last + 1, nextUpdate) /\ last \in Int
  <2>1. Len(Queue) \in Nat
    BY Typed, LenProperties
  <2>2. QED
    BY <1>0, <1>4, <1>5, <2>1 DEF Continues
<1>7. CASE sCacheFlags
  <2>1. WorkOf(t) \in CacheWorks
    BY <1>7, WorkOfIs, WorkKinds
  <2>2. Promised'
    BY <1>3, <2>1 DEF Promised
  <2>3. \A u \in AllThreads : todo'[u] \in CacheWorks => u = t
    BY <1>3, WorkKinds
  <2>4. update'[t] = nextUpdate
    BY <1>2, <1>7, Typed
  <2>5. StandsFor((last + 1) + 1, nextUpdate')
    BY <1>2, <1>6, <1>7, Typed, StandsForNext
  <2>6. (last + 1) + 1 = last + 2
    BY <1>6
  <2>7. Continues(last)'
    BY <1>6, <2>2, <2>3, <2>4, <2>5, <2>6 DEF Continues
  <2>8. QED
    BY <1>0, <1>1, <1>2, <1>5, <2>7 DEF Numbered
<1>8. CASE ~sCacheFlags
  <2>1. WorkOf(t) = KickWork
    BY <1>2, <1>8, WorkOfIs
  <2>2. ~Promised'
    BY <1>3, <2>1, WorkKinds DEF Promised
  <2>3. Continues(last)'
    BY <1>2, <1>6, <1>8, <2>2 DEF Continues
  <2>4. QED
    BY <1>0, <1>1, <1>2, <1>5, <2>3 DEF Numbered
<1>9. QED
  BY <1>7, <1>8

\* An invalidation that is sent or deferred has the number after the last.
LEMMA NumberedAccept ==
    ASSUME QueueInv, QueueInv', Numbered, NEW t \in AllThreads, SendRaw(t) \/ Defer(t)
    PROVE  Numbered'
<1>1. Queue' = Append(Queue, CommandOf(t)) /\ CommandOf(t) \in Commands
  BY QueueAccept DEF QueueInv
<1>2. /\ pc[t] \in Holding /\ pc[t] \in {"raw", "refused"}
      /\ todo' = [todo EXCEPT ![t] = Tail(todo[t])]
      /\ UNCHANGED <<mmuSync, update, nextUpdate>>
  BY DEF SendRaw, Defer, Accepted, Set, Holding, flagVars, gpuVars
<1>3. /\ todo'[t] = Tail(todo[t])
      /\ \A u \in AllThreads : u # t => todo'[u] = todo[u] /\ todo[u] = <<>>
  BY <1>2, Typed, OnlyHolderPromises
<1>4. todo[t] = KickWork \/ todo[t] = CacheWork \/ todo[t] = BothWork
  BY <1>2, WorkKinds DEF QueueInv, WorkOwned, Sending
<1>5. PICK num \in [0..Len(Queue) -> Int] :
            Counts(Queue, mmuSync, num) /\ Continues(num[Len(Queue)])
  BY DEF Numbered
<1>0. PICK last : last = num[Len(Queue)]
  OBVIOUS
<1>6. last \in Int /\ Continues(last)
  <2>1. Len(Queue) \in Nat
    BY Typed, LenProperties
  <2>2. QED
    BY <1>0, <1>5, <2>1
<1>7. ~Promised'
  <2>1. Tail(todo[t]) \notin CacheWorks
    BY <1>4, WorkIs, WorkKinds
  <2>2. QED
    BY <1>3, <2>1, WorkKinds DEF Promised
<1>8. CASE todo[t] = KickWork
  <2>1. CommandOf(t).kind # "MMUCACHE"
    BY <1>8, CommandKind, WorkIs
  <2>2. PICK new \in [0..Len(Queue') -> Int] :
             Counts(Queue', mmuSync, new) /\ new[Len(Queue')] = last + 0
    BY <1>0, <1>1, <1>5, <2>1, Typed, CountsAppend
  <2>3. ~Promised
    BY <1>3, <1>8, WorkKinds DEF Promised
  <2>4. StandsFor(new[Len(Queue')] + 1, nextUpdate')
    BY <1>2, <1>6, <2>2, <2>3 DEF Continues
  <2>5. QED
    BY <1>2, <1>7, <2>2, <2>4 DEF Numbered, Continues
<1>9. CASE todo[t] = CacheWork \/ todo[t] = BothWork
  <2>1. Promised /\ todo[t] \in CacheWorks
    BY <1>9, WorkKinds DEF Promised
  <2>2. /\ CommandOf(t).kind = "MMUCACHE" /\ CommandOf(t).update = update[t]
    BY <1>9, WorkIs DEF CommandOf, MmuCache
  <2>3. StandsFor(last + 1, CommandOf(t).update) /\ StandsFor(last + 2, nextUpdate)
    BY <1>6, <2>1, <2>2 DEF Continues
  <2>4. PICK new \in [0..Len(Queue') -> Int] :
             Counts(Queue', mmuSync, new) /\ new[Len(Queue')] = last + 1
    <3>1. StandsFor(num[Len(Queue)] + 1, CommandOf(t).update)
      BY <1>0, <2>3
    <3>2. PICK q, c, u : q = Queue /\ c = CommandOf(t) /\ u = mmuSync
      OBVIOUS
    <3>3. /\ q \in Seq(Commands) /\ c \in Commands /\ u \in Updates
          /\ num \in [0..Len(q) -> Int] /\ Counts(q, u, num)
          /\ c.kind = "MMUCACHE" => StandsFor(num[Len(q)] + 1, c.update)
      BY <1>1, <1>5, <3>1, <3>2, Typed
    <3>4. \E new \in [0..Len(Append(q, c)) -> Int] :
             /\ Counts(Append(q, c), u, new)
             /\ new[Len(Append(q, c))] =
                   num[Len(q)] + (IF c.kind = "MMUCACHE" THEN 1 ELSE 0)
      BY <3>3, CountsAppend
    <3>5. Queue' = Append(q, c)
      BY <1>1, <3>2
    <3>6. \E new \in [0..Len(Queue') -> Int] :
             /\ Counts(Queue', mmuSync, new)
             /\ new[Len(Queue')] =
                   num[Len(Queue)] + (IF CommandOf(t).kind = "MMUCACHE" THEN 1 ELSE 0)
      BY <3>2, <3>4, <3>5
    <3>7. QED
      BY <1>0, <2>2, <3>6
  <2>5. (last + 1) + 1 = last + 2
    BY <1>6
  <2>6. StandsFor(new[Len(Queue')] + 1, nextUpdate')
    BY <1>2, <2>3, <2>4, <2>5
  <2>7. QED
    BY <1>2, <1>7, <2>4, <2>6 DEF Numbered, Continues
<1>10. QED
  BY <1>4, <1>8, <1>9

\* The value of an invalidation that could not be submitted is taken back.
LEMMA NumberedAbandon ==
    ASSUME QueueInv, Numbered, NEW t \in AllThreads, Abandon(t)
    PROVE  Numbered'
<1>1. Queue' = Queue
  BY QueueKept DEF Abandon, ringVars
<1>2. /\ pc[t] \in Holding /\ pc[t] \in {"raw", "refused"}
      /\ todo' = [todo EXCEPT ![t] = <<>>]
      /\ UNCHANGED <<mmuSync, update>>
      /\ IF Head(todo[t]) = "MMUCACHE"
         THEN nextUpdate' = (nextUpdate + SyncModulus - 1) % SyncModulus
         ELSE UNCHANGED nextUpdate
  BY DEF Abandon, Set, Holding, gpuVars
<1>3. /\ todo'[t] = <<>>
      /\ \A u \in AllThreads : u # t => todo'[u] = todo[u] /\ todo[u] = <<>>
  BY <1>2, Typed, OnlyHolderPromises
<1>4. todo[t] = KickWork \/ todo[t] = CacheWork \/ todo[t] = BothWork
  BY <1>2, WorkKinds DEF QueueInv, WorkOwned, Sending
<1>5. PICK num \in [0..Len(Queue) -> Int] :
            Counts(Queue, mmuSync, num) /\ Continues(num[Len(Queue)])
  BY DEF Numbered
<1>0. PICK last : last = num[Len(Queue)]
  OBVIOUS
<1>6. last \in Int /\ Continues(last)
  <2>1. Len(Queue) \in Nat
    BY Typed, LenProperties
  <2>2. QED
    BY <1>0, <1>5, <2>1
<1>7. ~Promised'
  BY <1>3, WorkKinds DEF Promised
<1>8. StandsFor(last + 1, nextUpdate')
  <2>1. CASE todo[t] = KickWork
    <3>1. Head(todo[t]) # "MMUCACHE" /\ ~Promised
      BY <1>3, <2>1, WorkIs, WorkKinds DEF Promised
    <3>2. QED
      BY <1>2, <1>6, <3>1 DEF Continues
  <2>2. CASE todo[t] = CacheWork \/ todo[t] = BothWork
    <3>1. Head(todo[t]) = "MMUCACHE" /\ Promised
      BY <2>2, WorkIs, WorkKinds DEF Promised
    <3>2. StandsFor((last + 1) + 1, nextUpdate)
      <4>1. (last + 1) + 1 = last + 2
        BY <1>6
      <4>2. QED
        BY <1>6, <3>1, <4>1 DEF Continues
    <3>3. StandsFor(last + 1, (nextUpdate + SyncModulus - 1) % SyncModulus)
      BY <1>6, <3>2, Typed, StandsForPrevious
    <3>4. QED
      BY <1>2, <3>1, <3>3
  <2>3. QED
    BY <1>4, <2>1, <2>2
<1>9. Continues(last)'
  BY <1>7, <1>8 DEF Continues
<1>10. QED
  BY <1>0, <1>1, <1>2, <1>5, <1>9 DEF Numbered

\* An invalidation that is executed writes its value to the sync prim.
LEMMA NumberedExecute ==
    ASSUME QueueInv, QueueInv', Numbered, FwExecute
    PROVE  Numbered'
<1>1. Queue # <<>> /\ Queue' = Tail(Queue) /\ Head(Queue) = ccb[ui32ReadOffset]
  BY QueueExecute DEF QueueInv
<1>2. /\ mmuSync' = IF Head(Queue).kind = "MMUCACHE" THEN Head(Queue).update ELSE mmuSync
      /\ UNCHANGED <<nextUpdate, update, todo>>
  BY <1>1 DEF FwExecute, flagVars
<1>3. PICK num \in [0..Len(Queue) -> Int] :
            Counts(Queue, mmuSync, num) /\ Continues(num[Len(Queue)])
  BY DEF Numbered
<1>4. mmuSync \in Updates /\ mmuSync' \in Updates /\ Queue \in Seq(Commands)
  BY Typed DEF QueueInv, TypeOK
<1>5. PICK new \in [0..Len(Queue') -> Int] :
           Counts(Queue', mmuSync', new) /\ new[Len(Queue')] = num[Len(Queue)]
  BY <1>1, <1>2, <1>3, <1>4, CountsTail
<1>0. PICK last : last = num[Len(Queue)]
  OBVIOUS
<1>6. Continues(last) /\ last = new[Len(Queue')]
  BY <1>0, <1>3, <1>5
<1>7. Promised' <=> Promised
  BY <1>2 DEF Promised
<1>8. Continues(last)'
  BY <1>2, <1>6, <1>7 DEF Continues
<1>9. QED
  BY <1>5, <1>6, <1>8 DEF Numbered

\* The steps of a thread that touch neither the queue nor the update values.
Rest(t) ==
    \/ PowerLock(t) \/ NothingPending(t) \/ PowerUpFailed(t) \/ TakeDeferred(t)
    \/ FlushOne(t) \/ FlushBlocked(t) \/ PollRoom(t) \/ PollTimedOut(t)
    \/ PutBack(t) \/ RawFull(t) \/ PowerUnlock(t) \/ WaitDone(t)

\* They leave alone what the numbers and the coverage are about, but for the
\* update value of a call that returns.
LEMMA RestStep ==
    ASSUME QueueInv, QueueInv', NEW t \in AllThreads, Rest(t)
    PROVE  /\ Queue' = Queue /\ UNCHANGED <<mmuSync, nextUpdate, todo, tlb, pageTables>>
           /\ update' = update \/ (update' = [update EXCEPT ![t] = NoValue] /\ todo[t] = <<>>)
<1> USE DEF ringVars, listVars, flagVars, gpuVars
<1>1. Queue' = Queue
  <2>1. CASE TakeDeferred(t) \/ PutBack(t)
    BY <2>1, QueueTake
  <2>2. CASE FlushOne(t)
    BY <2>2, QueueFlush DEF QueueInv
  <2>3. CASE PowerLock(t) \/ PowerUnlock(t)
    BY <2>3, QueueKept DEF PowerLock, PowerUnlock
  <2>4. CASE \/ NothingPending(t) \/ PowerUpFailed(t) \/ FlushBlocked(t) \/ PollRoom(t)
             \/ PollTimedOut(t) \/ RawFull(t) \/ WaitDone(t)
    BY <2>4, QueueKept
       DEF NothingPending, PowerUpFailed, FlushBlocked, PollRoom, PollTimedOut, RawFull,
           WaitDone
  <2>5. QED
    BY <2>1, <2>2, <2>3, <2>4 DEF Rest
<1>2. UNCHANGED <<mmuSync, nextUpdate, todo, tlb, pageTables>>
  BY DEF Rest, PowerLock, NothingPending, PowerUpFailed, TakeDeferred, FlushOne,
         FlushBlocked, PollRoom, PollTimedOut, PutBack, RawFull, PowerUnlock, WaitDone
<1>3. update' = update \/ (update' = [update EXCEPT ![t] = NoValue] /\ todo[t] = <<>>)
  <2>1. pc[t] \in {"unlock", "wait"} => todo[t] = <<>>
    BY DEF QueueInv, WorkOwned, Sending
  <2>2. CASE PowerUnlock(t) \/ WaitDone(t)
    BY <2>1, <2>2 DEF PowerUnlock, WaitDone, Return, Set
  <2>3. CASE ~PowerUnlock(t) /\ ~WaitDone(t)
    BY <2>3 DEF Rest, PowerLock, NothingPending, PowerUpFailed, TakeDeferred, FlushOne,
                FlushBlocked, PollRoom, PollTimedOut, PutBack, RawFull
  <2>4. QED
    BY <2>2, <2>3
<1>4. QED
  BY <1>1, <1>2, <1>3

\* Nor do the beginning of a call or of the MISR, or a change of page tables.
LEMMA OutsideStep ==
    ASSUME QueueInv,
           \/ \E t \in AllThreads, o \in Ops : Enter(t, o)
           \/ MisrStart \/ ChangePageTables \/ UNCHANGED vars
    PROVE  /\ Queue' = Queue /\ UNCHANGED <<mmuSync, nextUpdate, todo, tlb, update>>
           /\ pageTables' = pageTables \/ pageTables' = pageTables + 1
<1> USE DEF ringVars, listVars, flagVars, gpuVars, vars
<1>1. CASE \E t \in AllThreads, o \in Ops : Enter(t, o)
  BY <1>1, QueueKept DEF Enter
<1>2. CASE MisrStart \/ ChangePageTables \/ UNCHANGED vars
  BY <1>2, QueueKept DEF MisrStart, ChangePageTables
<1>3. QED
  BY <1>1, <1>2

\* What a step of the composition is for the kernel CCB.
LEMMA KernelCases ==
    ASSUME [CleanupNext]_allVars
    PROVE  \/ \E t \in AllThreads, o \in Ops : Enter(t, o)
           \/ MisrStart \/ ChangePageTables \/ UNCHANGED vars
           \/ FwExecute
           \/ \E t \in AllThreads :
                 Prepare(t) \/ SendRaw(t) \/ Defer(t) \/ Abandon(t) \/ Rest(t)
<1>1. /\ Cleaner \in AllThreads /\ "INVALIDATE" \in Ops
      /\ EntryPoints \subseteq Ops /\ Threads \subseteq AllThreads
  BY KernelCCBAssumption, MMUCleanupAssumption DEF AllThreads, Ops
<1>2. CASE SetupCleanup \/ InvalidateKick \/ InvalidateKicked \/ FreeMapping
  BY <1>1, <1>2 DEF SetupCleanup, InvalidateKick, InvalidateKicked, FreeMapping, Rest
<1>3. ASSUME NEW t \in AllThreads, Step(t)
      PROVE  Prepare(t) \/ SendRaw(t) \/ Defer(t) \/ Abandon(t) \/ Rest(t)
  BY <1>3 DEF Step, Rest
<1>4. CASE \/ \E t \in Threads \ {Cleaner}, o \in EntryPoints : Enter(t, o)
           \/ \E t \in AllThreads \ {Cleaner} : Step(t)
           \/ Step(Cleaner)
           \/ MisrStart \/ ChangePageTables \/ FwExecute
  BY <1>1, <1>3, <1>4
<1>5. CASE UNCHANGED allVars
  BY <1>5 DEF allVars
<1>6. QED
  BY <1>2, <1>4, <1>5 DEF CleanupNext

\* Every step keeps the numbers.
LEMMA NumberedStep ==
    ASSUME QueueInv, QueueInv', Numbered, [CleanupNext]_allVars
    PROVE  Numbered'
<1>1. CASE \/ \E t \in AllThreads, o \in Ops : Enter(t, o)
           \/ MisrStart \/ ChangePageTables \/ UNCHANGED vars
  BY <1>1, OutsideStep, NumberedKept
<1>2. ASSUME NEW t \in AllThreads, Rest(t) PROVE Numbered'
  <2>1. /\ Queue' = Queue /\ UNCHANGED <<mmuSync, nextUpdate, todo>>
        /\ update' = update \/ (update' = [update EXCEPT ![t] = NoValue] /\ todo[t] = <<>>)
    BY <1>2, RestStep
  <2>2. \A u \in AllThreads : todo[u] \in CacheWorks => update'[u] = update[u]
    BY <2>1, Typed, WorkKinds
  <2>3. QED
    BY <2>1, <2>2, NumberedKept
<1>3. QED
  BY <1>1, <1>2, KernelCases, NumberedPrepare, NumberedAccept, NumberedAbandon,
     NumberedExecute

-----------------------------------------------------------------------------
(* The invalidation of the item.                                           *)

\* What is covered stays covered: commands are appended behind the invalidation,
\* and when it is executed the GPU has seen all changes.
LEMMA CoveredStep ==
    ASSUME QueueInv, QueueInv', [CleanupNext]_allVars, removed' = removed,
           removed \in Nat, removed <= pageTables,
           NEW u \in Updates, Covered(u)
    PROVE  Covered(u)'
<1>0. Queue \in Seq(Commands) /\ Len(Queue) \in Nat
  BY Typed, LenProperties
<1>1. ASSUME Queue' = Queue, tlb' = tlb PROVE Covered(u)'
  BY <1>1 DEF Covered
<1>2. ASSUME NEW c \in Commands, Queue' = Append(Queue, c), tlb' = tlb
      PROVE  Covered(u)'
  <2> DEFINE p == Append(Queue, c)
  <2>1. Len(p) = Len(Queue) + 1 /\ \A i \in 1..Len(Queue) : p[i] = Queue[i]
    BY <1>0, AppendProperties
  <2> HIDE DEF p
  <2>2. ASSUME NEW i \in 1..Len(Queue), Queue[i] = MmuCache(u)
        PROVE  i \in 1..Len(p) /\ p[i] = MmuCache(u)
    BY <1>0, <2>1, <2>2
  <2>3. Queue' = p
    BY <1>2 DEF p
  <2>4. QED
    BY <1>2, <2>2, <2>3 DEF Covered
<1>3. CASE FwExecute
  <2>1. Queue # <<>> /\ Queue' = Tail(Queue) /\ Head(Queue) = ccb[ui32ReadOffset]
    BY <1>3, QueueExecute DEF QueueInv
  <2>2. CASE Head(Queue).kind = "MMUCACHE"
    <3>1. tlb' = pageTables
      BY <1>3, <2>1, <2>2 DEF FwExecute
    <3>2. QED
      BY <3>1 DEF Covered
  <2>3. CASE Head(Queue).kind # "MMUCACHE"
    <3>1. tlb' = tlb
      BY <1>3, <2>1, <2>3 DEF FwExecute
    <3>2. CASE tlb >= removed
      BY <3>1, <3>2 DEF Covered
    <3>3. ASSUME NEW i \in 1..Len(Queue), Queue[i] = MmuCache(u) PROVE Covered(u)'
      <4> DEFINE p == Tail(Queue)
      <4>1. /\ Len(Queue) \in Nat \ {0} /\ Head(Queue) = Queue[1]
            /\ Len(p) = Len(Queue) - 1 /\ \A j \in 1..Len(p) : p[j] = Queue[j + 1]
        BY <1>0, <2>1, EmptySeq, HeadTailProperties
      <4> HIDE DEF p
      <4>2. i # 1
        BY <2>3, <3>3, <4>1 DEF MmuCache
      <4>3. i - 1 \in 1..Len(p) /\ (i - 1) + 1 = i
        BY <4>1, <4>2
      <4>4. p[i - 1] = MmuCache(u)
        BY <3>3, <4>1, <4>3
      <4>5. Queue' = p
        BY <2>1 DEF p
      <4>6. QED
        BY <4>3, <4>4, <4>5 DEF Covered
    <3>4. QED
      BY <3>2, <3>3 DEF Covered
  <2>4. QED
    BY <2>2, <2>3
<1>4. CASE \/ \E t \in AllThreads, o \in Ops : Enter(t, o)
           \/ MisrStart \/ ChangePageTables \/ UNCHANGED vars
  BY <1>1, <1>4, OutsideStep
<1>5. ASSUME NEW t \in AllThreads, Rest(t) PROVE Covered(u)'
  BY <1>1, <1>5, RestStep
<1>6. ASSUME NEW t \in AllThreads, Prepare(t) \/ Abandon(t) PROVE Covered(u)'
  <2>1. Queue' = Queue /\ tlb' = tlb
    BY <1>6, QueueKept DEF Prepare, Abandon, ringVars, gpuVars
  <2>2. QED
    BY <1>1, <2>1
<1>7. ASSUME NEW t \in AllThreads, SendRaw(t) \/ Defer(t) PROVE Covered(u)'
  <2>1. Queue' = Append(Queue, CommandOf(t)) /\ CommandOf(t) \in Commands
    BY <1>7, QueueAccept DEF QueueInv
  <2>2. tlb' = tlb
    BY <1>7 DEF SendRaw, Defer, gpuVars
  <2>3. QED
    BY <1>2, <2>1, <2>2
<1>8. QED
  BY <1>3, <1>4, <1>5, <1>6, <1>7, KernelCases

\* Page tables are only ever changed again.
LEMMA ChangesGrow ==
    ASSUME QueueInv, QueueInv', [CleanupNext]_allVars
    PROVE  pageTables <= pageTables'
<1>1. pageTables' = pageTables \/ pageTables' = pageTables + 1
  <2>1. CASE \/ \E t \in AllThreads, o \in Ops : Enter(t, o)
             \/ MisrStart \/ ChangePageTables \/ UNCHANGED vars
    BY <2>1, OutsideStep
  <2>2. ASSUME NEW t \in AllThreads, Rest(t) PROVE pageTables' = pageTables
    BY <2>2, RestStep
  <2>3. ASSUME NEW t \in AllThreads, Prepare(t) \/ SendRaw(t) \/ Defer(t) \/ Abandon(t)
        PROVE  pageTables' = pageTables
    BY <2>3 DEF Prepare, SendRaw, Defer, Abandon, gpuVars
  <2>4. CASE FwExecute
    BY <2>4 DEF FwExecute
  <2>5. QED
    BY <2>1, <2>2, <2>3, <2>4, KernelCases
<1>2. QED
  BY <1>1, Typed

\* The types and the changes of the item.
LEMMA ItemTypeStep ==
    ASSUME CleanupInv, QueueInv', [CleanupNext]_allVars
    PROVE  CleanupTypeOK' /\ removed' <= pageTables'
<1>1. TypeOK' /\ MaxChanges \in Nat
  BY KernelCCBAssumption DEF QueueInv
<1>2. /\ item \in {"none", "queued", "kicking", "kicked", "skipped"}
      /\ removed \in 0..MaxChanges /\ required \in Updates /\ removed <= pageTables
      /\ pageTables \in Nat /\ pageTables' \in 0..MaxChanges /\ pageTables <= pageTables'
      /\ update[Cleaner] \in Updates \cup {NoValue} /\ 0 \in Updates
  <2>1. pageTables \in Nat /\ update[Cleaner] \in Updates \cup {NoValue}
    BY Typed DEF CleanupInv
  <2>2. pageTables' \in 0..MaxChanges /\ 0 \in Updates
    BY <1>1, KernelCCBAssumption DEF TypeOK, Updates
  <2>3. QED
    BY <2>1, <2>2, ChangesGrow DEF CleanupInv, CleanupTypeOK
<1>3. CASE SetupCleanup
  BY <1>1, <1>2, <1>3 DEF SetupCleanup, CleanupTypeOK
<1>4. CASE InvalidateKick
  BY <1>1, <1>2, <1>4 DEF InvalidateKick, CleanupTypeOK
<1>5. CASE InvalidateKicked
  BY <1>1, <1>2, <1>5 DEF InvalidateKicked, CleanupTypeOK
<1>6. CASE FreeMapping
  BY <1>1, <1>2, <1>6 DEF FreeMapping, CleanupTypeOK
<1>7. CASE UNCHANGED cleanupVars
  BY <1>1, <1>2, <1>7 DEF cleanupVars, CleanupTypeOK
<1>8. QED
  BY <1>3, <1>4, <1>5, <1>6, <1>7 DEF CleanupNext, allVars

\* A step that is not the cleanup thread's leaves its call alone.
LEMMA AwayStep ==
    ASSUME QueueInv,
           \/ \E t \in AllThreads \ {Cleaner} : Step(t) \/ \E o \in EntryPoints : Enter(t, o)
           \/ MisrStart \/ ChangePageTables \/ FwExecute \/ UNCHANGED vars
    PROVE  /\ pc'[Cleaner] = pc[Cleaner] /\ op'[Cleaner] = op[Cleaner]
           /\ todo'[Cleaner] = todo[Cleaner] /\ update'[Cleaner] = update[Cleaner]
           /\ slot'[Cleaner] = slot[Cleaner] /\ ret'[Cleaner] = ret[Cleaner]
<1> USE Typed DEF callVars, flagVars, Goto, Set
<1>1. ASSUME NEW t \in AllThreads \ {Cleaner}, NEW o \in EntryPoints, Enter(t, o)
      PROVE  /\ pc'[Cleaner] = pc[Cleaner] /\ op'[Cleaner] = op[Cleaner]
             /\ todo'[Cleaner] = todo[Cleaner] /\ update'[Cleaner] = update[Cleaner]
             /\ slot'[Cleaner] = slot[Cleaner] /\ ret'[Cleaner] = ret[Cleaner]
  BY <1>1 DEF Enter
<1>2. ASSUME NEW t \in AllThreads \ {Cleaner}, Step(t)
      PROVE  /\ pc'[Cleaner] = pc[Cleaner] /\ op'[Cleaner] = op[Cleaner]
             /\ todo'[Cleaner] = todo[Cleaner] /\ update'[Cleaner] = update[Cleaner]
             /\ slot'[Cleaner] = slot[Cleaner] /\ ret'[Cleaner] = ret[Cleaner]
  <2>1. pc'[Cleaner] = pc[Cleaner]
    BY <1>2 DEF Step, PowerLock, Prepare, NothingPending, PowerUpFailed, TakeDeferred,
                FlushOne, FlushBlocked, PollRoom, PollTimedOut, PutBack, SendRaw, RawFull,
                Defer, Abandon, PowerUnlock, WaitDone, Accepted, Return
  <2>2. op'[Cleaner] = op[Cleaner] /\ ret'[Cleaner] = ret[Cleaner]
    BY <1>2 DEF Step, PowerLock, Prepare, NothingPending, PowerUpFailed, TakeDeferred,
                FlushOne, FlushBlocked, PollRoom, PollTimedOut, PutBack, SendRaw, RawFull,
                Defer, Abandon, PowerUnlock, WaitDone, Accepted, Return
  <2>3. todo'[Cleaner] = todo[Cleaner]
    BY <1>2 DEF Step, PowerLock, Prepare, NothingPending, PowerUpFailed, TakeDeferred,
                FlushOne, FlushBlocked, PollRoom, PollTimedOut, PutBack, SendRaw, RawFull,
                Defer, Abandon, PowerUnlock, WaitDone, Accepted, Return
  <2>4. update'[Cleaner] = update[Cleaner] /\ slot'[Cleaner] = slot[Cleaner]
    BY <1>2 DEF Step, PowerLock, Prepare, NothingPending, PowerUpFailed, TakeDeferred,
                FlushOne, FlushBlocked, PollRoom, PollTimedOut, PutBack, SendRaw, RawFull,
                Defer, Abandon, PowerUnlock, WaitDone, Accepted, Return
  <2>5. QED
    BY <2>1, <2>2, <2>3, <2>4
<1>3. CASE MisrStart \/ ChangePageTables \/ FwExecute \/ UNCHANGED vars
  BY <1>3 DEF MisrStart, ChangePageTables, FwExecute, vars
<1>4. QED
  BY <1>1, <1>2, <1>3

\* The invalidation that the cleanup thread submits is in the queue.
LEMMA AcceptCovers ==
    ASSUME QueueInv, QueueInv', SendRaw(Cleaner) \/ Defer(Cleaner),
           todo[Cleaner] = CacheWork, NEW u, u = update[Cleaner]
    PROVE  Covered(u)'
<1>1. Queue' = Append(Queue, CommandOf(Cleaner))
  BY QueueAccept, Typed DEF QueueInv
<1>2. CommandOf(Cleaner) = MmuCache(u)
  BY WorkIs DEF CommandOf
<1> DEFINE p == Append(Queue, CommandOf(Cleaner))
<1>3. Len(Queue) \in Nat /\ Len(p) = Len(Queue) + 1 /\ p[Len(Queue) + 1] = CommandOf(Cleaner)
  BY Typed, LenProperties, AppendProperties
<1> HIDE DEF p
<1>4. Len(p) \in 1..Len(p) /\ p[Len(p)] = MmuCache(u)
  BY <1>2, <1>3
<1>5. Queue' = p
  BY <1>1 DEF p
<1>6. QED
  BY <1>4, <1>5 DEF Covered

\* A step of the cleanup thread inside its kick.
LEMMA KickingStep ==
    ASSUME CleanupInv, QueueInv', Step(Cleaner), pc[Cleaner] # "unlock",
           UNCHANGED cleanupVars
    PROVE  KickAt' /\ ItemCovered'
<1>1. /\ item = "kicking" /\ item' = "kicking" /\ op[Cleaner] = "INVALIDATE"
      /\ pc[Cleaner] \notin {"idle", "wait", "unlock"}
      /\ slot[Cleaner] = NoValue /\ todo[Cleaner] \in {<<>>, CacheWork}
      /\ pc[Cleaner] \in {"lock", "prepare"} =>
            update[Cleaner] = NoValue /\ ret[Cleaner] = "OK"
  <2>1. pc[Cleaner] # "idle"
    BY DEF Step, PowerLock, Prepare, NothingPending, PowerUpFailed, TakeDeferred, FlushOne,
           FlushBlocked, PollRoom, PollTimedOut, PutBack, SendRaw, RawFull, Defer, Abandon,
           PowerUnlock, WaitDone
  <2>2. QED
    BY <2>1 DEF CleanupInv, KickAt, cleanupVars
<1>2. /\ pc[Cleaner] \in {"raw", "refused"} => todo[Cleaner] = CacheWork
      /\ ~Polls(Cleaner)
  BY <1>1, Typed DEF CleanupInv, QueueInv, WorkOwned, Sending, Polls
<1> USE Typed DEF Goto, Set, CleanupInv, callVars, flagVars
<1>3. ASSUME NEW l, Goto(Cleaner, l), l \notin {"idle", "wait", "lock", "prepare", "unlock"},
             UNCHANGED <<op, slot>>, todo'[Cleaner] \in {<<>>, CacheWork}
      PROVE  KickAt' /\ ItemCovered'
  <2>1. pc'[Cleaner] = l /\ op'[Cleaner] = "INVALIDATE" /\ slot'[Cleaner] = NoValue
    BY <1>1, <1>3
  <2>2. QED
    BY <1>1, <1>3, <2>1 DEF KickAt, ItemCovered
<1>4. CASE PowerLock(Cleaner)
  <2>1. /\ pc'[Cleaner] = "prepare" /\ pc[Cleaner] = "lock"
        /\ UNCHANGED <<op, slot, todo, update, ret>>
    BY <1>1, <1>4 DEF PowerLock
  <2>2. QED
    BY <1>1, <2>1 DEF KickAt, ItemCovered
<1>5. CASE Prepare(Cleaner)
  <2>1. Goto(Cleaner, "take") /\ UNCHANGED <<op, slot>> /\ todo'[Cleaner] = WorkOf(Cleaner)
    BY <1>5 DEF Prepare
  <2>2. WorkOf(Cleaner) = CacheWork
    BY <1>1, WorkOfIs
  <2>3. QED
    BY <1>3, <2>1, <2>2
<1>6. CASE NothingPending(Cleaner) \/ PowerUpFailed(Cleaner)
  <2>1. /\ pc'[Cleaner] = "unlock" /\ pc[Cleaner] = "prepare"
        /\ UNCHANGED <<op, slot, todo, update>>
    BY <1>6 DEF NothingPending, PowerUpFailed
  <2>2. QED
    BY <1>1, <2>1 DEF KickAt, ItemCovered
<1>7. CASE \/ TakeDeferred(Cleaner) \/ FlushOne(Cleaner) \/ FlushBlocked(Cleaner)
           \/ PollRoom(Cleaner) \/ PollTimedOut(Cleaner) \/ PutBack(Cleaner)
           \/ RawFull(Cleaner)
  <2>1. PICK l : Goto(Cleaner, l) /\ l \in {"flush", "poll", "putBack", "raw", "refused"}
    BY <1>1, <1>7 DEF TakeDeferred, FlushOne, FlushBlocked, PollRoom, PollTimedOut, PutBack,
                      RawFull, AfterTake, Flushed
  <2>2. UNCHANGED <<op, slot, todo>>
    BY <1>7 DEF TakeDeferred, FlushOne, FlushBlocked, PollRoom, PollTimedOut, PutBack,
                RawFull
  <2>3. QED
    BY <1>1, <1>3, <2>1, <2>2
<1>8. CASE SendRaw(Cleaner) \/ Defer(Cleaner)
  <2>1. /\ pc[Cleaner] \in {"raw", "refused"} /\ UNCHANGED <<op, slot, update>>
        /\ Accepted(Cleaner)
    BY <1>2, <1>8 DEF SendRaw, Defer
  <2>2. todo[Cleaner] = CacheWork
    BY <1>2, <2>1
  <2>3. pc'[Cleaner] = "unlock" /\ todo'[Cleaner] = <<>>
    BY <2>1, <2>2, WorkIs DEF Accepted
  <2>4. PICK u : u = update[Cleaner]
    OBVIOUS
  <2>5. Covered(u)'
    BY <1>8, <2>2, <2>4, AcceptCovers
  <2>6. Covered(update[Cleaner])'
    BY <2>1, <2>4, <2>5 DEF Covered
  <2>7. QED
    BY <1>1, <2>1, <2>3, <2>6 DEF KickAt, ItemCovered
<1>9. CASE Abandon(Cleaner)
  <2>1. /\ pc'[Cleaner] = "unlock" /\ ret'[Cleaner] = "RETRY" /\ todo'[Cleaner] = <<>>
        /\ UNCHANGED <<op, slot, update>>
    BY <1>2, <1>9 DEF Abandon
  <2>2. QED
    BY <1>1, <2>1 DEF KickAt, ItemCovered
<1>10. ~PowerUnlock(Cleaner) /\ ~WaitDone(Cleaner)
  BY <1>1 DEF PowerUnlock, WaitDone
<1>11. QED
  BY <1>4, <1>5, <1>6, <1>7, <1>8, <1>9, <1>10 DEF Step

\* Every step keeps what is known of the kick and of the item.
LEMMA ItemStep ==
    ASSUME CleanupInv, QueueInv', [CleanupNext]_allVars
    PROVE  KickAt' /\ ItemCovered'
<1> USE DEF CleanupInv
<1>1. ASSUME removed' = removed, NEW u \in Updates, Covered(u) PROVE Covered(u)'
  <2>1. removed \in Nat
    BY KernelCCBAssumption DEF CleanupTypeOK
  <2>2. QED
    BY <1>1, <2>1, CoveredStep
<1>2. CASE SetupCleanup
  <2>1. /\ pc[Cleaner] = "idle" /\ item' = "queued"
        /\ UNCHANGED <<pc, op, todo, update, slot, ret>>
    BY <1>2 DEF SetupCleanup, ChangePageTables, KickAt, callVars
  <2>2. QED
    BY <2>1 DEF KickAt, ItemCovered
<1>3. CASE InvalidateKick
  <2>1. /\ pc[Cleaner] = "idle" /\ pc'[Cleaner] = "lock" /\ op'[Cleaner] = "INVALIDATE"
        /\ item' = "kicking" /\ UNCHANGED <<todo, update, slot, ret>>
    BY <1>3, Typed DEF InvalidateKick, Enter, Goto, Set, flagVars
  <2>2. QED
    BY <2>1 DEF KickAt, ItemCovered
<1>4. CASE InvalidateKicked
  <2>1. /\ pc[Cleaner] = "unlock" /\ slot[Cleaner] = NoValue /\ Return(Cleaner)
        /\ UNCHANGED <<todo, removed>>
    BY <1>4 DEF InvalidateKicked, PowerUnlock, KickAt
  <2>2. /\ pc'[Cleaner] = "idle" /\ update'[Cleaner] = NoValue /\ slot'[Cleaner] = NoValue
        /\ ret'[Cleaner] = "OK"
    BY <2>1, Typed DEF Return, Goto, Set
  <2>3. item' \in {"queued", "skipped", "kicked"}
    BY <1>4 DEF InvalidateKicked
  <2>4. KickAt'
    BY <2>1, <2>2, <2>3 DEF KickAt
  <2>5. ASSUME item' = "kicked" PROVE Covered(required)'
    <3>1. /\ ret[Cleaner] = "OK" /\ update[Cleaner] # NoValue
          /\ required' = update[Cleaner] /\ update[Cleaner] \in Updates
      BY <1>4, <2>5, Typed DEF InvalidateKicked
    <3>2. PICK u \in Updates : u = update[Cleaner]
      BY <3>1
    <3>3. Covered(u)
      BY <2>1, <3>1, <3>2 DEF ItemCovered
    <3>4. Covered(u)'
      BY <1>1, <2>1, <3>3
    <3>5. QED
      BY <3>1, <3>2, <3>4 DEF Covered
  <2>6. QED
    BY <2>2, <2>4, <2>5 DEF ItemCovered
<1>5. CASE FreeMapping
  <2>1. /\ item # "kicking" /\ item' = "none"
        /\ UNCHANGED <<pc, op, todo, update, slot, ret>>
    BY <1>5 DEF FreeMapping, vars, callVars, flagVars
  <2>2. QED
    BY <2>1 DEF KickAt, ItemCovered
<1>6. CASE Step(Cleaner) /\ pc[Cleaner] # "unlock" /\ UNCHANGED cleanupVars
  BY <1>6, KickingStep
<1>7. CASE /\ \/ \E t \in AllThreads \ {Cleaner} :
                    Step(t) \/ \E o \in EntryPoints : Enter(t, o)
              \/ MisrStart \/ ChangePageTables \/ FwExecute \/ UNCHANGED vars
           /\ UNCHANGED cleanupVars
  <2>1. /\ pc'[Cleaner] = pc[Cleaner] /\ op'[Cleaner] = op[Cleaner]
        /\ todo'[Cleaner] = todo[Cleaner] /\ update'[Cleaner] = update[Cleaner]
        /\ slot'[Cleaner] = slot[Cleaner] /\ ret'[Cleaner] = ret[Cleaner]
    BY <1>7, AwayStep
  <2>2. UNCHANGED <<item, removed, required>>
    BY <1>7 DEF cleanupVars
  <2>3. KickAt'
    BY <2>1, <2>2 DEF KickAt
  <2>4. PICK v : v = update[Cleaner]
    OBVIOUS
  <2>5. ASSUME pc[Cleaner] = "unlock", ret[Cleaner] = "OK", v # NoValue
        PROVE  Covered(v)'
    <3>1. v \in Updates /\ Covered(v)
      BY <2>4, <2>5, Typed DEF ItemCovered
    <3>2. QED
      BY <1>1, <2>2, <3>1
  <2>6. PICK r : r = required
    OBVIOUS
  <2>7. ASSUME item = "kicked" PROVE Covered(r)'
    <3>1. r \in Updates /\ Covered(r)
      BY <2>6, <2>7 DEF ItemCovered, CleanupTypeOK
    <3>2. QED
      BY <1>1, <2>2, <3>1
  <2>8. update'[Cleaner] = v /\ required' = r
    BY <2>1, <2>2, <2>4, <2>6
  <2>9. ItemCovered'
    BY <2>1, <2>2, <2>5, <2>7, <2>8 DEF ItemCovered, Covered
  <2>10. QED
    BY <2>3, <2>9
<1>8. QED
  <2>1. Threads \subseteq AllThreads
    BY DEF AllThreads
  <2>2. QED
    BY <1>2, <1>3, <1>4, <1>5, <1>6, <1>7, <2>1 DEF CleanupNext, allVars

-----------------------------------------------------------------------------
(* The theorems.                                                           *)

\* The initial states satisfy the inductive invariant: the sync prim stands one
\* before the first value to be taken.
LEMMA CleanupInvInit == CleanupInit => CleanupInv
<1> SUFFICES ASSUME CleanupInit PROVE CleanupInv
  OBVIOUS
<1>1. Init /\ item = "none" /\ removed = 0 /\ required = 0
  BY DEF CleanupInit
<1>2. QueueInv /\ Queue = <<>> /\ Len(<<>>) = 0
  BY <1>1, QueueInvInit, EmptySeq
<1>3. /\ pc[Cleaner] = "idle" /\ todo[Cleaner] = <<>> /\ slot[Cleaner] = NoValue
      /\ update[Cleaner] = NoValue /\ ret[Cleaner] = "OK" /\ pageTables = 0
      /\ \A t \in AllThreads : todo[t] = <<>>
  BY <1>1, <1>2, Typed DEF Init
<1>4. CleanupTypeOK /\ removed <= pageTables
  BY <1>1, <1>2, <1>3, KernelCCBAssumption DEF QueueInv, CleanupTypeOK, Updates
<1>5. KickAt /\ ItemCovered
  BY <1>1, <1>3 DEF KickAt, ItemCovered
<1>6. Numbered
  <2>1. /\ mmuSync = (nextUpdate + SyncModulus - 1) % SyncModulus
        /\ nextUpdate \in Updates /\ nextUpdate \in Int
    BY <1>1, KernelCCBAssumption DEF Init, Updates
  <2> DEFINE a == nextUpdate - 1
  <2>2. a \in Int /\ a + 1 = nextUpdate
    BY <2>1
  <2>3. StandsFor(a + 1, nextUpdate)
    <3>1. a + 1 = 0 * SyncModulus + nextUpdate
      BY <2>1, <2>2, KernelCCBAssumption
    <3>2. QED
      BY <3>1 DEF StandsFor
  <2> HIDE DEF a
  <2>4. StandsFor(a, mmuSync)
    BY <2>1, <2>2, <2>3, StandsForPrevious
  <2> DEFINE num == [i \in 0..0 |-> a]
  <2>5. num \in [0..0 -> Int] /\ \A i \in 0..0 : num[i] = a /\ i = 0
    BY <2>2
  <2> HIDE DEF num
  <2>6. Counts(<<>>, mmuSync, num)
    BY <1>2, <2>2, <2>4, <2>5 DEF Counts
  <2>7. ~Promised
    BY <1>3, WorkKinds DEF Promised
  <2>8. Continues(num[0])
    BY <2>3, <2>5, <2>7 DEF Continues
  <2>9. QED
    BY <1>2, <2>5, <2>6, <2>8 DEF Numbered
<1>7. QED
  BY <1>2, <1>4, <1>5, <1>6 DEF CleanupInv

\* The inductive invariant holds in every reachable state, whatever submissions
\* fail and however often the counter wraps.
THEOREM CleanupInvariant == CleanupSpec => []CleanupInv
<1>1. CleanupInit => CleanupInv
  BY CleanupInvInit
<1>2. CleanupInv /\ [CleanupNext]_allVars => CleanupInv'
  <2> SUFFICES ASSUME CleanupInv, [CleanupNext]_allVars PROVE CleanupInv'
    OBVIOUS
  <2>1. QueueInv'
    BY KernelStep DEF CleanupInv
  <2>2. CleanupTypeOK' /\ removed' <= pageTables'
    BY <2>1, ItemTypeStep
  <2>3. Numbered'
    BY <2>1, NumberedStep DEF CleanupInv
  <2>4. KickAt' /\ ItemCovered'
    BY <2>1, ItemStep
  <2>5. QED
    BY <2>1, <2>2, <2>3, <2>4 DEF CleanupInv
<1>3. QED
  BY <1>1, <1>2, PTL DEF CleanupSpec

\* The item and the kernel CCB under it keep their types: in particular the
\* required value is always one of the sync prim's.
THEOREM CleanupTypes == CleanupSpec => []CleanupTypeOK
<1>1. CleanupInv => CleanupTypeOK
  BY DEF CleanupInv
<1>2. QED
  BY <1>1, CleanupInvariant, PTL

\* When the sync prim seems to have reached the value of the invalidation that
\* the cleanup thread submitted, the GPU has forgotten the page tables about to
\* be freed: whatever the counter's width and its first value, as long as fewer
\* commands are under way than the comparison can tell apart (mmu_common.c:427).
THEOREM KickedMeansInvalidated ==
    CleanupSpec => [](FewUnderWay => KickedIsInvalidated)
<1>1. CleanupInv => (FewUnderWay => KickedIsInvalidated)
  <2> SUFFICES ASSUME CleanupInv, FewUnderWay, item = "kicked", ~(tlb >= removed)
               PROVE  ~HasReached(mmuSync, required)
    BY DEF KickedIsInvalidated
  <2>1. PICK i \in 1..Len(Queue) : Queue[i] = MmuCache(required)
    BY DEF CleanupInv, ItemCovered, Covered
  <2>2. PICK num \in [0..Len(Queue) -> Int] : Counts(Queue, mmuSync, num)
    BY DEF CleanupInv, Numbered
  <2>3. Len(Queue) \in Nat /\ mmuSync \in Updates /\ required \in Updates
    BY Typed, LenProperties DEF CleanupInv, CleanupTypeOK
  <2>4. Queue[i].kind = "MMUCACHE" /\ Queue[i].update = required
    BY <2>1 DEF MmuCache
  <2>5. /\ i \in 0..Len(Queue) /\ i - 1 \in 0..Len(Queue) /\ 0 \in 0..Len(Queue)
        /\ 0 <= i - 1 /\ 0 <= i
    BY <2>3
  <2>6. /\ StandsFor(num[0], mmuSync) /\ StandsFor(num[i], required)
        /\ num[i] = num[i - 1] + 1 /\ num[0] <= num[i - 1] /\ num[i] <= num[0] + i - 0
        /\ num[0] \in Int /\ num[i] \in Int /\ num[i - 1] \in Int
    BY <2>2, <2>4, <2>5 DEF Counts
  <2>7. num[0] < num[i] /\ num[i] - num[0] <= Len(Queue)
    BY <2>3, <2>6
  <2>8. /\ num[i] - num[0] <= WrapWindow
        /\ num[i] - num[0] < SyncModulus - WrapWindow
    BY <2>3, <2>6, <2>7, KernelCCBAssumption, MMUCleanupAssumption DEF FewUnderWay, Updates
  <2>9. QED
    BY <2>3, <2>6, <2>7, <2>8, LaterIsNotReached
<1>2. QED
  BY <1>1, CleanupInvariant, PTL
=============================================================================
