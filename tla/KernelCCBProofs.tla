------------------------- MODULE KernelCCBProofs --------------------------
(***************************************************************************)
(* Proofs about KernelCCB for every set of threads, every size of the ring *)
(* and every bound, also when memory or power fails: the types, the        *)
(* ownership of the lists, the window of the ring, that the kernel CCB     *)
(* implements the FIFO of CommandFifo, and that a thread that finds its    *)
(* return slot answered has had its own command executed; and, as long as  *)
(* memory allocation does not fail, that no kick is executed before the GPU*)
(* has seen the page tables it was made for.                               *)
(***************************************************************************)
EXTENDS KernelCCB, SequenceTheorems, TLAPS

\* How far an offset is behind the read offset, the way the firmware goes.
Distance(o) == IF ui32ReadOffset <= o THEN o - ui32ReadOffset
                                      ELSE o + RingSize - ui32ReadOffset

\* The offset of the ring's i-th command.
At(i) == IF ui32ReadOffset + i - 1 < RingSize THEN ui32ReadOffset + i - 1
                                              ELSE ui32ReadOffset + i - 1 - RingSize

\* The commands accepted and not yet executed, oldest first.
Queue == Ring \o Local \o deferred

Holding  == {"prepare", "take", "flush", "poll", "putBack", "raw", "refused", "unlock"}
Flushing == {"flush", "poll", "putBack"}
Sending  == {"take", "flush", "poll", "putBack", "raw", "refused"}

\* The work a thread may still have to send, and the works that begin with an
\* invalidation.
KickWork   == <<"KICK">>
CacheWork  == <<"MMUCACHE">>
BothWork   == <<"MMUCACHE", "KICK">>
CacheWorks == {CacheWork, BothWork}
Works      == {<<>>, KickWork, CacheWork, BothWork}

\* The power lock is held in a stretch of the code and nowhere else.
LockOwned == \A t \in AllThreads : pc[t] \in Holding <=> hPowerLock = t

\* Only a thread that flushes has a local list, and meanwhile nothing is
\* deferred behind its back.
ListOwned ==
    \A t \in AllThreads :
        /\ pc[t] \notin Flushing => sCommandList[t] = <<>>
        /\ pc[t] = "flush" => sCommandList[t] # <<>>
        /\ pc[t] \in Flushing \cup {"raw"} => deferred = <<>>

\* A thread has work exactly while it sends, an update value while that work
\* begins with an invalidation, and no slot before it has sent.
WorkOwned ==
    \A t \in AllThreads :
        /\ todo[t] \in Works
        /\ todo[t] # <<>> <=> pc[t] \in Sending /\ op[t] # "FLUSH"
        /\ pc[t] \in {"prepare", "poll", "raw", "refused"} => op[t] # "FLUSH"
        /\ todo[t] \in CacheWorks => update[t] \in Updates

MisrFlushes == op[Misr] = "FLUSH"

\* The ring holds commands between the two offsets and nowhere else.
RingIsWindow ==
    \A o \in Offsets : ccb[o] \in Commands <=> Distance(o) < Used

\* The ring is a sequence of commands, the i-th of which is at offset At(i).
RingIsSeq ==
    /\ Ring \in Seq(Commands)
    /\ Len(Ring) = Used
    /\ \A i \in 1..Used : Ring[i] = ccb[At(i)] /\ ccb[At(i)] \in Commands

\* The inductive invariant.
QueueInv == TypeOK /\ LockOwned /\ ListOwned /\ WorkOwned /\ MisrFlushes /\ RingIsWindow

-----------------------------------------------------------------------------
(* Lemmas about the operators of the module.                               *)

\* The remainders of the ring: an offset is its own remainder, and a turn
\* around the ring leads back to it.
LEMMA RingRemainder ==
    /\ \A a \in Offsets : a % RingSize = a /\ (a + RingSize) % RingSize = a
    /\ \A a \in Nat : a % RingSize \in Offsets
BY KernelCCBAssumption DEF Offsets

\* The next offset is one further, or the first after the last.
LEMMA NextOffsetIs ==
    \A o \in Offsets : /\ NextOffset(o) = IF o = RingSize - 1 THEN 0 ELSE o + 1
                       /\ NextOffset(o) \in Offsets
BY KernelCCBAssumption DEF Offsets, NextOffset

\* Distances along the ring, and the way from an offset, without remainders.
LEMMA WrapIs ==
    /\ \A r, w \in Offsets :
          (w + RingSize - r) % RingSize = IF r <= w THEN w - r ELSE w + RingSize - r
    /\ \A r \in Offsets, i \in 1..RingSize :
          (r + i - 1) % RingSize =
              IF r + i - 1 < RingSize THEN r + i - 1 ELSE r + i - 1 - RingSize
<1>1. ASSUME NEW r \in Offsets, NEW w \in Offsets
      PROVE  (w + RingSize - r) % RingSize = IF r <= w THEN w - r ELSE w + RingSize - r
  BY KernelCCBAssumption, RingRemainder DEF Offsets
<1>2. ASSUME NEW r \in Offsets, NEW i \in 1..RingSize
      PROVE  (r + i - 1) % RingSize =
                 IF r + i - 1 < RingSize THEN r + i - 1 ELSE r + i - 1 - RingSize
  <2> DEFINE a == IF r + i - 1 < RingSize THEN r + i - 1 ELSE r + i - 1 - RingSize
  <2>1. a \in Offsets /\ (r + i - 1 = a \/ r + i - 1 = a + RingSize)
    BY KernelCCBAssumption DEF Offsets
  <2>2. a % RingSize = a /\ (a + RingSize) % RingSize = a
    BY <2>1, RingRemainder
  <2>3. QED
    BY <2>1, <2>2
<1>3. QED
  BY <1>1, <1>2

\* As many entries are used as the write offset is away from the read offset.
LEMMA UsedIs ==
    ASSUME ui32ReadOffset \in Offsets, ui32WriteOffset \in Offsets
    PROVE  Used = Distance(ui32WriteOffset) /\ Used \in 0..(RingSize - 1)
BY KernelCCBAssumption, WrapIs DEF Offsets, Used, Distance

\* Every offset has a distance of its own.
LEMMA DistanceIs ==
    ASSUME ui32ReadOffset \in Offsets
    PROVE  /\ \A o \in Offsets : Distance(o) \in 0..(RingSize - 1)
           /\ \A o, p \in Offsets : Distance(o) = Distance(p) => o = p
           /\ Distance(ui32ReadOffset) = 0
BY KernelCCBAssumption DEF Offsets, Distance

\* The i-th entry of the ring, without the remainder, and its distance.
LEMMA AtIs ==
    ASSUME ui32ReadOffset \in Offsets, NEW i \in 1..RingSize
    PROVE  /\ (ui32ReadOffset + i - 1) % RingSize = At(i)
           /\ At(i) \in Offsets
           /\ Distance(At(i)) = i - 1
<1>1. At(i) \in Offsets
  BY KernelCCBAssumption DEF Offsets, At
<1>2. (ui32ReadOffset + i - 1) % RingSize = At(i)
  BY WrapIs DEF At
<1>3. Distance(At(i)) = i - 1
  BY KernelCCBAssumption DEF Offsets, At, Distance
<1>4. QED
  BY <1>1, <1>2, <1>3

\* The ring as a sequence.
LEMMA RingSeq == TypeOK /\ RingIsWindow => RingIsSeq
<1> SUFFICES ASSUME TypeOK, RingIsWindow PROVE RingIsSeq
  OBVIOUS
<1>1. /\ Used \in 0..(RingSize - 1)
      /\ ui32ReadOffset \in Offsets /\ RingSize \in Nat
  BY UsedIs, KernelCCBAssumption DEF TypeOK
<1>2. \A i \in 1..Used : Ring[i] = ccb[At(i)] /\ ccb[At(i)] \in Commands
  <2> SUFFICES ASSUME NEW i \in 1..Used PROVE Ring[i] = ccb[At(i)] /\ ccb[At(i)] \in Commands
    OBVIOUS
  <2>1. i \in 1..RingSize
    BY <1>1
  <2>2. /\ (ui32ReadOffset + i - 1) % RingSize = At(i)
        /\ At(i) \in Offsets /\ Distance(At(i)) < Used
    BY <1>1, <2>1, AtIs
  <2>3. QED
    BY <2>2 DEF Ring, RingIsWindow
<1>3. Ring \in [1..Used -> Commands]
  BY <1>2 DEF Ring
<1>4. Ring \in Seq(Commands)
  BY <1>1, <1>3, SeqDef
<1>5. Len(Ring) = Used
  <2>1. 1..Len(Ring) = 1..Used /\ Len(Ring) \in Nat
    BY <1>3, <1>4, LenProperties
  <2>2. QED
    BY <1>1, <2>1
<1>6. QED
  BY <1>2, <1>4, <1>5 DEF RingIsSeq

\* The works of a thread differ.
LEMMA WorksDiffer ==
    /\ KickWork # <<>> /\ CacheWork # <<>> /\ BothWork # <<>>
    /\ KickWork # CacheWork /\ KickWork # BothWork /\ CacheWork # BothWork
<1>1. KickWork # <<>> /\ CacheWork # <<>> /\ BothWork # <<>>
  BY DEF KickWork, CacheWork, BothWork
<1>2. KickWork # CacheWork /\ KickWork # BothWork /\ CacheWork # BothWork
  BY DEF KickWork, CacheWork, BothWork
<1>3. QED
  BY <1>1, <1>2

\* What the works are made of, and which of them begin with an invalidation.
LEMMA WorkKinds ==
    /\ <<>> \in Works /\ KickWork \in Works /\ CacheWork \in Works /\ BothWork \in Works
    /\ <<>> \notin CacheWorks /\ KickWork \notin CacheWorks
    /\ CacheWork \in CacheWorks /\ BothWork \in CacheWorks
    /\ \A w \in Works : w = <<>> \/ w = KickWork \/ w = CacheWork \/ w = BothWork
    /\ \A w \in CacheWorks : w = CacheWork \/ w = BothWork
BY WorksDiffer, Zenon DEF Works, CacheWorks

\* What comes first in a work, and what is left after it.
LEMMA WorkIs ==
    /\ Head(KickWork) = "KICK" /\ Tail(KickWork) = <<>> /\ Len(KickWork) = 1
    /\ Head(CacheWork) = "MMUCACHE" /\ Tail(CacheWork) = <<>> /\ Len(CacheWork) = 1
    /\ Head(BothWork) = "MMUCACHE" /\ Tail(BothWork) = KickWork /\ Len(BothWork) = 2
<1>1. Head(KickWork) = "KICK" /\ Tail(KickWork) = <<>> /\ Len(KickWork) = 1
  BY DEF KickWork
<1>2. Head(CacheWork) = "MMUCACHE" /\ Tail(CacheWork) = <<>> /\ Len(CacheWork) = 1
  BY DEF CacheWork
<1>3. Head(BothWork) = "MMUCACHE" /\ Tail(BothWork) = KickWork /\ Len(BothWork) = 2
  BY DEF BothWork, KickWork
<1>4. QED
  BY <1>1, <1>2, <1>3

\* Every work is a sequence of kinds of commands.
LEMMA WorkType == \A w \in Works : w \in Seq({"KICK", "MMUCACHE"})
<1>1. /\ <<>> \in Seq({"KICK", "MMUCACHE"}) /\ KickWork \in Seq({"KICK", "MMUCACHE"})
      /\ CacheWork \in Seq({"KICK", "MMUCACHE"})
  BY DEF KickWork, CacheWork
<1>2. BothWork \in Seq({"KICK", "MMUCACHE"})
  BY DEF BothWork
<1>3. QED
  BY <1>1, <1>2, WorkKinds, Zenon

\* What a thread prepares to send.
LEMMA WorkOfIs ==
    ASSUME NEW t
    PROVE  WorkOf(t) = IF op[t] = "INVALIDATE" THEN CacheWork
                       ELSE IF sCacheFlags THEN BothWork ELSE KickWork
BY DEF WorkOf, CacheWork, BothWork, KickWork

\* What a thread sends is a command.
LEMMA CommandOfType ==
    ASSUME TypeOK, WorkOwned, MisrFlushes, NEW t \in AllThreads, todo[t] # <<>>
    PROVE  CommandOf(t) \in Commands
<1>1. needs[t] \in 0..MaxChanges
  BY DEF TypeOK
<1>2. CASE Head(todo[t]) = "MMUCACHE"
  <2>1. todo[t] \in CacheWorks
    <3>1. todo[t] = KickWork \/ todo[t] = CacheWork \/ todo[t] = BothWork
      BY WorkKinds DEF WorkOwned
    <3>2. QED
      BY <1>2, <3>1, WorkIs, WorkKinds
  <2>2. update[t] \in Updates
    BY <2>1 DEF WorkOwned
  <2>3. QED
    BY <1>2, <2>2 DEF CommandOf, Commands
<1>3. CASE Head(todo[t]) # "MMUCACHE"
  <2>1. Polls(t) => t \in Threads
    BY DEF Polls, MisrFlushes, AllThreads
  <2>2. PICK n, o : n = needs[t] /\ o = IF Polls(t) THEN t ELSE NoThread
    OBVIOUS
  <2>3. n \in 0..MaxChanges /\ o \in Threads \cup {NoThread}
    BY <1>1, <2>1, <2>2
  <2>4. CommandOf(t) = Kick(n, o)
    BY <1>3, <2>2 DEF CommandOf
  <2>5. Kick(n, o) \in Commands
    BY <2>3 DEF Commands
  <2>6. QED
    BY <2>4, <2>5
<1>4. QED
  BY <1>2, <1>3

\* A list has a tail exactly when it has more than one element.
LEMMA LastOfList ==
    ASSUME NEW S, NEW s \in Seq(S), s # <<>>
    PROVE  Len(s) > 1 <=> Tail(s) # <<>>
<1> DEFINE r == Tail(s)
<1>1. Len(s) \in Nat \ {0}
  BY EmptySeq
<1>2. r \in Seq(S) /\ Len(r) = Len(s) - 1
  BY HeadTailProperties
<1>3. <<>> \in Seq(S) /\ Len(<<>>) = 0 /\ (r # <<>> => Len(r) \in Nat \ {0})
  BY <1>2, EmptySeq
<1> HIDE DEF r
<1>4. Len(s) > 1 <=> r # <<>>
  BY <1>1, <1>2, <1>3
<1>5. QED
  BY <1>4 DEF r

\* The head and the tail of a concatenation are those of its first part.
LEMMA ConcatHead ==
    ASSUME NEW S, NEW a \in Seq(S), NEW b \in Seq(S), a # <<>>
    PROVE  /\ a \o b \in Seq(S) /\ a \o b # <<>>
           /\ Head(a \o b) = Head(a) /\ Tail(a \o b) = Tail(a) \o b
<1>1. /\ a \o b \in Seq(S) /\ Len(a \o b) = Len(a) + Len(b)
      /\ \A i \in 1..(Len(a) + Len(b)) :
            (a \o b)[i] = IF i <= Len(a) THEN a[i] ELSE b[i - Len(a)]
  BY ConcatProperties
<1>2. Len(a) \in Nat \ {0} /\ Len(b) \in Nat
  BY EmptySeq, LenProperties
<1>3. a \o b # <<>>
  BY <1>1, <1>2, EmptySeq
<1>4. Head(a \o b) = Head(a)
  BY <1>1, <1>2, <1>3
<1>5. /\ Tail(a) \in Seq(S) /\ Len(Tail(a)) = Len(a) - 1
      /\ \A i \in 1..(Len(a) - 1) : Tail(a)[i] = a[i + 1]
  BY HeadTailProperties
<1>6. /\ Tail(a \o b) \in Seq(S) /\ Len(Tail(a \o b)) = Len(a) + Len(b) - 1
      /\ \A i \in 1..(Len(a) + Len(b) - 1) : Tail(a \o b)[i] = (a \o b)[i + 1]
  BY <1>1, <1>3, HeadTailProperties
<1>7. /\ Tail(a) \o b \in Seq(S) /\ Len(Tail(a) \o b) = Len(a) - 1 + Len(b)
      /\ \A i \in 1..(Len(a) - 1 + Len(b)) :
            (Tail(a) \o b)[i] =
                IF i <= Len(a) - 1 THEN Tail(a)[i] ELSE b[i - (Len(a) - 1)]
  BY <1>5, ConcatProperties
<1>8. \A i \in 1..(Len(a) + Len(b) - 1) : Tail(a \o b)[i] = (Tail(a) \o b)[i]
  <2> SUFFICES ASSUME NEW i \in 1..(Len(a) + Len(b) - 1)
               PROVE  Tail(a \o b)[i] = (Tail(a) \o b)[i]
    OBVIOUS
  <2>1. Tail(a \o b)[i] = IF i + 1 <= Len(a) THEN a[i + 1] ELSE b[i + 1 - Len(a)]
    BY <1>1, <1>2, <1>6
  <2>2. (Tail(a) \o b)[i] = IF i <= Len(a) - 1 THEN a[i + 1] ELSE b[i - (Len(a) - 1)]
    BY <1>2, <1>5, <1>7
  <2>3. QED
    BY <1>2, <2>1, <2>2
<1>9. Len(Tail(a \o b)) = Len(Tail(a) \o b)
  BY <1>2, <1>6, <1>7
<1>10. Tail(a \o b) = Tail(a) \o b
  BY <1>2, <1>6, <1>7, <1>8, <1>9, SeqEqual
<1>11. QED
  BY <1>1, <1>3, <1>4, <1>10

-----------------------------------------------------------------------------
(* Types, ownership and the window of the ring.                            *)

\* Going to a location keeps the type of pc.
LEMMA GotoType ==
    ASSUME TypeOK, NEW t \in AllThreads, NEW l \in Locations, Goto(t, l)
    PROVE  pc' \in [AllThreads -> Locations]
BY DEF TypeOK, Goto, Set

\* The initial states have their types.
LEMMA TypeInit == Init => TypeOK
<1> SUFFICES ASSUME Init PROVE TypeOK
  OBVIOUS
<1>1. /\ ccb \in [Offsets -> Commands \cup {NoCommand}]
      /\ rtnSlots \in [Offsets -> {"NO_RESPONSE", "EXECUTED"}]
      /\ 0 \in Offsets
  BY KernelCCBAssumption DEF Init, Offsets
<1>2. nextUpdate \in Updates /\ mmuSync \in Updates
  BY KernelCCBAssumption DEF Init, Updates
<1>3. deferred \in Seq(Commands) /\ sCommandList \in [AllThreads -> Seq(Commands)]
  BY EmptySeq DEF Init
<1>4. todo \in [AllThreads -> Seq({"KICK", "MMUCACHE"})]
  BY EmptySeq DEF Init
<1>5. /\ pc \in [AllThreads -> Locations]
      /\ op \in [AllThreads -> Ops \cup {"FLUSH"}]
      /\ needs \in [AllThreads -> 0..MaxChanges]
      /\ update \in [AllThreads -> Updates \cup {NoValue}]
      /\ slot \in [AllThreads -> Offsets \cup {NoValue}]
      /\ ret \in [AllThreads -> {"OK", "RETRY", "KERNEL_CCB_FULL", "POWER_FAILED"}]
  BY KernelCCBAssumption DEF Init, Locations
<1>6. QED
  BY KernelCCBAssumption, <1>1, <1>2, <1>3, <1>4, <1>5 DEF TypeOK, Init

\* Every step keeps the types, given who owns which list.
LEMMA TypeStep == QueueInv /\ [Next]_vars => TypeOK'
<1> SUFFICES ASSUME QueueInv, [Next]_vars PROVE TypeOK'
  OBVIOUS
<1>0. TypeOK /\ LockOwned /\ ListOwned /\ WorkOwned /\ MisrFlushes /\ RingIsWindow
  BY DEF QueueInv
<1> USE DEF vars, ringVars, listVars, flagVars, gpuVars, callVars
<1>1. ASSUME NEW t \in Threads, NEW o \in EntryPoints, Enter(t, o) PROVE TypeOK'
  <2>1. pc' \in [AllThreads -> Locations]
    BY <1>0, <1>1, GotoType DEF Enter, AllThreads, Locations
  <2>2. op' \in [AllThreads -> Ops \cup {"FLUSH"}] /\ needs' \in [AllThreads -> 0..MaxChanges]
    BY <1>0, <1>1, KernelCCBAssumption DEF Enter, TypeOK, AllThreads, Set
  <2>3. QED
    BY <1>0, <1>1, <2>1, <2>2 DEF Enter, TypeOK
<1>2. ASSUME MisrStart PROVE TypeOK'
  <2>1. pc' \in [AllThreads -> Locations]
    BY <1>0, <1>2, GotoType DEF MisrStart, AllThreads, Locations
  <2>2. QED
    BY <1>0, <1>2, <2>1 DEF MisrStart, TypeOK
<1>3. ASSUME ChangePageTables PROVE TypeOK'
  BY <1>0, <1>3, KernelCCBAssumption DEF ChangePageTables, TypeOK
<1>4. ASSUME FwExecute PROVE TypeOK'
  <2>1. ui32ReadOffset' \in Offsets
    BY <1>0, <1>4, NextOffsetIs DEF FwExecute, TypeOK, NextOffset
  <2>2. ccb[ui32ReadOffset] \in Commands
    <3>1. ui32ReadOffset \in Offsets /\ ui32WriteOffset \in Offsets
      BY <1>0 DEF TypeOK
    <3>2. Distance(ui32ReadOffset) < Distance(ui32WriteOffset)
      BY <1>4, <3>1, KernelCCBAssumption DEF FwExecute, Distance, Offsets
    <3>3. QED
      BY <1>0, <3>1, <3>2, UsedIs DEF RingIsWindow
  <2>3. ccb[ui32ReadOffset].kind = "MMUCACHE" => ccb[ui32ReadOffset].update \in Updates
    BY <2>2 DEF Commands, Kick, MmuCache
  <2>4. tlb' \in 0..MaxChanges /\ mmuSync' \in Updates
    BY <1>0, <1>4, <2>3 DEF FwExecute, TypeOK
  <2>5. /\ rtnSlots' \in [Offsets -> {"NO_RESPONSE", "EXECUTED"}]
        /\ ccb' \in [Offsets -> Commands \cup {NoCommand}]
    BY <1>0, <1>4 DEF FwExecute, TypeOK, Set
  <2>6. QED
    BY <1>0, <1>4, <2>1, <2>4, <2>5 DEF FwExecute, TypeOK
<1>5. ASSUME NEW t \in AllThreads, PowerLock(t) PROVE TypeOK'
  <2>1. pc' \in [AllThreads -> Locations]
    BY <1>0, <1>5, GotoType DEF PowerLock, Locations
  <2>2. QED
    BY <1>0, <1>5, <2>1 DEF PowerLock, TypeOK
<1>6. ASSUME NEW t \in AllThreads, Prepare(t) PROVE TypeOK'
  <2>1. pc' \in [AllThreads -> Locations]
    BY <1>0, <1>6, GotoType DEF Prepare, Locations
  <2>2. WorkOf(t) \in Seq({"KICK", "MMUCACHE"})
    BY WorkOfIs, WorkKinds, WorkType
  <2>3. todo' \in [AllThreads -> Seq({"KICK", "MMUCACHE"})]
    BY <1>0, <1>6, <2>2 DEF Prepare, TypeOK, Set
  <2>4. update' \in [AllThreads -> Updates \cup {NoValue}] /\ nextUpdate' \in Updates
    <3>1. nextUpdate \in Updates /\ (nextUpdate + 1) % SyncModulus \in Updates
      BY <1>0, KernelCCBAssumption DEF TypeOK, Updates
    <3>2. update \in [AllThreads -> Updates \cup {NoValue}]
      BY <1>0 DEF TypeOK
    <3>3. QED
      BY <1>6, <3>1, <3>2 DEF Prepare, Set
  <2>5. QED
    BY <1>0, <1>6, <2>1, <2>3, <2>4 DEF Prepare, TypeOK
<1>7. ASSUME NEW t \in AllThreads, NothingPending(t) \/ PowerUpFailed(t) PROVE TypeOK'
  <2>1. pc' \in [AllThreads -> Locations]
    BY <1>0, <1>7, GotoType DEF NothingPending, PowerUpFailed, Locations
  <2>2. ret' \in [AllThreads -> {"OK", "RETRY", "KERNEL_CCB_FULL", "POWER_FAILED"}]
    BY <1>0, <1>7 DEF NothingPending, PowerUpFailed, TypeOK, Set
  <2>3. QED
    BY <1>0, <1>7, <2>1, <2>2 DEF NothingPending, PowerUpFailed, TypeOK
<1>8. ASSUME NEW t \in AllThreads, TakeDeferred(t) \/ PutBack(t) PROVE TypeOK'
  <2>1. pc' \in [AllThreads -> Locations]
    BY <1>0, <1>8, GotoType DEF TakeDeferred, PutBack, AfterTake, Flushed, Locations
  <2>2. deferred' \in Seq(Commands) /\ sCommandList' \in [AllThreads -> Seq(Commands)]
    <3>1. /\ deferred \in Seq(Commands) /\ sCommandList[t] \in Seq(Commands)
          /\ sCommandList \in [AllThreads -> Seq(Commands)]
      BY <1>0 DEF TypeOK
    <3>2. sCommandList[t] \o deferred \in Seq(Commands) /\ <<>> \in Seq(Commands)
      BY <3>1, ConcatProperties, EmptySeq
    <3>3. QED
      BY <1>8, <3>1, <3>2 DEF TakeDeferred, PutBack, Set
  <2>3. QED
    BY <1>0, <1>8, <2>1, <2>2 DEF TakeDeferred, PutBack, TypeOK
<1>9. ASSUME NEW t \in AllThreads, FlushOne(t) PROVE TypeOK'
  <2>1. pc' \in [AllThreads -> Locations]
    BY <1>0, <1>9, GotoType DEF FlushOne, Flushed, Locations
  <2>2. Head(sCommandList[t]) \in Commands /\ Tail(sCommandList[t]) \in Seq(Commands)
    BY <1>0, <1>9, HeadTailProperties DEF FlushOne, ListOwned, TypeOK
  <2>3. sCommandList' \in [AllThreads -> Seq(Commands)]
    BY <1>0, <1>9, <2>2 DEF FlushOne, TypeOK, Set
  <2>4. ccb' \in [Offsets -> Commands \cup {NoCommand}] /\ ui32WriteOffset' \in Offsets
    BY <1>0, <1>9, <2>2, NextOffsetIs DEF FlushOne, Enqueue, TypeOK, Set
  <2>5. QED
    BY <1>0, <1>9, <2>1, <2>3, <2>4 DEF FlushOne, Enqueue, TypeOK
<1>10. ASSUME NEW t \in AllThreads,
              FlushBlocked(t) \/ PollRoom(t) \/ PollTimedOut(t) \/ RawFull(t)
       PROVE  TypeOK'
  <2>1. pc' \in [AllThreads -> Locations]
    BY <1>0, <1>10, GotoType DEF FlushBlocked, PollRoom, PollTimedOut, RawFull, Locations
  <2>2. QED
    BY <1>0, <1>10, <2>1 DEF FlushBlocked, PollRoom, PollTimedOut, RawFull, TypeOK
<1>11. ASSUME NEW t \in AllThreads, SendRaw(t) \/ Defer(t) PROVE TypeOK'
  <2>1. pc' \in [AllThreads -> Locations]
    BY <1>0, <1>11, GotoType DEF SendRaw, Defer, Accepted, Locations
  <2>2. todo[t] # <<>> /\ CommandOf(t) \in Commands
    BY <1>0, <1>11, CommandOfType DEF SendRaw, Defer, WorkOwned, Sending
  <2>3. todo' \in [AllThreads -> Seq({"KICK", "MMUCACHE"})]
    <3>1. todo \in [AllThreads -> Seq({"KICK", "MMUCACHE"})]
      BY <1>0 DEF TypeOK
    <3>2. Tail(todo[t]) \in Seq({"KICK", "MMUCACHE"})
      BY <2>2, <3>1, HeadTailProperties
    <3>3. QED
      BY <1>11, <3>1, <3>2 DEF SendRaw, Defer, Accepted, Set
  <2>4. deferred' \in Seq(Commands)
    <3>1. deferred \in Seq(Commands)
      BY <1>0 DEF TypeOK
    <3>2. Append(deferred, CommandOf(t)) \in Seq(Commands)
      BY <2>2, <3>1, AppendProperties
    <3>3. QED
      BY <1>11, <3>1, <3>2 DEF SendRaw, Defer, listVars
  <2>5. ccb' \in [Offsets -> Commands \cup {NoCommand}] /\ ui32WriteOffset' \in Offsets
    BY <1>0, <1>11, <2>2, NextOffsetIs DEF SendRaw, Defer, Enqueue, TypeOK, Set
  <2>6. /\ rtnSlots' \in [Offsets -> {"NO_RESPONSE", "EXECUTED"}]
        /\ slot' \in [AllThreads -> Offsets \cup {NoValue}]
    BY <1>0, <1>11 DEF SendRaw, Defer, ResetSlot, TypeOK, Set
  <2>7. QED
    BY <1>0, <1>11, <2>1, <2>3, <2>4, <2>5, <2>6 DEF SendRaw, Defer, Enqueue, TypeOK
<1>12. ASSUME NEW t \in AllThreads, Abandon(t) PROVE TypeOK'
  <2>1. pc' \in [AllThreads -> Locations]
    BY <1>0, <1>12, GotoType DEF Abandon, Locations
  <2>2. nextUpdate' \in Updates /\ sCacheFlags' \in BOOLEAN
    BY <1>0, <1>12, KernelCCBAssumption DEF Abandon, TypeOK, Updates
  <2>3. /\ todo' \in [AllThreads -> Seq({"KICK", "MMUCACHE"})]
        /\ ret' \in [AllThreads -> {"OK", "RETRY", "KERNEL_CCB_FULL", "POWER_FAILED"}]
    BY <1>0, <1>12, EmptySeq DEF Abandon, TypeOK, Set
  <2>4. QED
    BY <1>0, <1>12, <2>1, <2>2, <2>3 DEF Abandon, TypeOK
<1>13. ASSUME NEW t \in AllThreads, PowerUnlock(t) \/ WaitDone(t) PROVE TypeOK'
  <2>1. pc' \in [AllThreads -> Locations]
    BY <1>0, <1>13, GotoType DEF PowerUnlock, WaitDone, Return, Locations
  <2>2. Return(t) \/ UNCHANGED <<op, needs, update, slot, ret>>
    BY <1>13 DEF PowerUnlock, WaitDone
  <2>3. /\ op' \in [AllThreads -> Ops \cup {"FLUSH"}]
        /\ needs' \in [AllThreads -> 0..MaxChanges]
    <3>1. /\ op \in [AllThreads -> Ops \cup {"FLUSH"}]
          /\ needs \in [AllThreads -> 0..MaxChanges] /\ 0 \in 0..MaxChanges
      BY <1>0, KernelCCBAssumption DEF TypeOK
    <3>2. op' = op \/ op' = [op EXCEPT ![t] = "FLUSH"]
      BY <2>2 DEF Return, Set
    <3>3. needs' = needs \/ needs' = [needs EXCEPT ![t] = 0]
      BY <2>2 DEF Return, Set
    <3>4. QED
      BY <3>1, <3>2, <3>3
  <2>4. /\ update' \in [AllThreads -> Updates \cup {NoValue}]
        /\ slot' \in [AllThreads -> Offsets \cup {NoValue}]
        /\ ret' \in [AllThreads -> {"OK", "RETRY", "KERNEL_CCB_FULL", "POWER_FAILED"}]
    BY <1>0, <2>2 DEF Return, TypeOK, Set
  <2>5. hPowerLock' \in AllThreads \cup {NoThread}
    BY <1>0, <1>13 DEF PowerUnlock, WaitDone, TypeOK
  <2>6. UNCHANGED <<ringVars, listVars, sCacheFlags, nextUpdate, gpuVars, todo>>
    BY <1>13 DEF PowerUnlock, WaitDone
  <2>7. QED
    BY <1>0, <2>1, <2>3, <2>4, <2>5, <2>6 DEF TypeOK
<1>14. CASE UNCHANGED vars
  BY <1>0, <1>14 DEF TypeOK
<1>15. QED
  BY <1>1, <1>2, <1>3, <1>4, <1>5, <1>6, <1>7, <1>8, <1>9, <1>10, <1>11, <1>12,
     <1>13, <1>14
     DEF Next, Step

\* A step that stays inside, or outside, the stretch under the power lock.
LEMMA LockKept ==
    ASSUME TypeOK, LockOwned, NEW t \in AllThreads, NEW l \in Locations,
           Goto(t, l), pc[t] \in Holding <=> l \in Holding, UNCHANGED hPowerLock
    PROVE  LockOwned'
BY DEF TypeOK, LockOwned, Goto, Set

\* Every step keeps the power lock with the thread inside the locked stretch.
LEMMA LockStep == QueueInv /\ [Next]_vars => LockOwned'
<1> SUFFICES ASSUME QueueInv, [Next]_vars PROVE LockOwned'
  OBVIOUS
<1>0. TypeOK /\ LockOwned
  BY DEF QueueInv
<1> USE DEF vars, ringVars, listVars, flagVars, gpuVars, callVars
<1>1. ASSUME NEW t \in Threads, NEW o \in EntryPoints, Enter(t, o) PROVE LockOwned'
  BY <1>0, <1>1, LockKept DEF Enter, AllThreads, Locations, Holding
<1>2. ASSUME MisrStart PROVE LockOwned'
  BY <1>0, <1>2, LockKept DEF MisrStart, AllThreads, Locations, Holding
<1>3. ASSUME ChangePageTables \/ FwExecute PROVE LockOwned'
  BY <1>0, <1>3 DEF ChangePageTables, FwExecute, LockOwned
<1>4. ASSUME NEW t \in AllThreads, PowerLock(t) PROVE LockOwned'
  <2>1. /\ pc' = [pc EXCEPT ![t] = pc'[t]] /\ pc'[t] \in Holding
        /\ hPowerLock = NoThread /\ hPowerLock' = t
    BY <1>0, <1>4 DEF PowerLock, Goto, Set, Holding, TypeOK
  <2>2. \A u \in AllThreads : pc[u] \notin Holding
    BY <1>0, <2>1, KernelCCBAssumption DEF LockOwned, AllThreads
  <2>3. QED
    BY <1>0, <2>1, <2>2 DEF LockOwned, TypeOK
<1>5. ASSUME NEW t \in AllThreads, Prepare(t) \/ NothingPending(t) \/ PowerUpFailed(t)
      PROVE  LockOwned'
  BY <1>0, <1>5, LockKept
     DEF Prepare, NothingPending, PowerUpFailed, Locations, Holding
<1>6. ASSUME NEW t \in AllThreads, TakeDeferred(t) \/ PutBack(t) PROVE LockOwned'
  BY <1>0, <1>6, LockKept
     DEF TakeDeferred, PutBack, AfterTake, Flushed, Locations, Holding
<1>7. ASSUME NEW t \in AllThreads,
             FlushOne(t) \/ FlushBlocked(t) \/ PollRoom(t) \/ PollTimedOut(t)
      PROVE  LockOwned'
  BY <1>0, <1>7, LockKept
     DEF FlushOne, FlushBlocked, PollRoom, PollTimedOut, Flushed, Locations, Holding
<1>8. ASSUME NEW t \in AllThreads, SendRaw(t) \/ RawFull(t) \/ Defer(t) \/ Abandon(t)
      PROVE  LockOwned'
  BY <1>0, <1>8, LockKept
     DEF SendRaw, RawFull, Defer, Abandon, Accepted, Locations, Holding
<1>9. ASSUME NEW t \in AllThreads, PowerUnlock(t) PROVE LockOwned'
  <2>1. /\ pc' = [pc EXCEPT ![t] = pc'[t]] /\ pc'[t] \notin Holding
        /\ hPowerLock = t /\ hPowerLock' = NoThread
    BY <1>0, <1>9 DEF PowerUnlock, Return, Goto, Set, Holding, TypeOK, LockOwned
  <2>2. QED
    BY <1>0, <2>1, KernelCCBAssumption DEF LockOwned, TypeOK, AllThreads
<1>10. ASSUME NEW t \in AllThreads, WaitDone(t) PROVE LockOwned'
  BY <1>0, <1>10, LockKept DEF WaitDone, Return, Locations, Holding
<1>11. CASE UNCHANGED vars
  BY <1>0, <1>11 DEF LockOwned
<1>12. QED
  BY <1>1, <1>2, <1>3, <1>4, <1>5, <1>6, <1>7, <1>8, <1>9, <1>10, <1>11
     DEF Next, Step

\* The MISR never runs another operation than its flush.
LEMMA MisrStep == QueueInv /\ [Next]_vars => MisrFlushes'
<1> SUFFICES ASSUME QueueInv, [Next]_vars PROVE MisrFlushes'
  OBVIOUS
<1>0. TypeOK /\ MisrFlushes /\ Misr \in AllThreads
  BY DEF QueueInv, AllThreads
<1> USE DEF vars, ringVars, listVars, flagVars, gpuVars, callVars
<1>1. ASSUME NEW t \in Threads, NEW o \in EntryPoints, Enter(t, o) PROVE MisrFlushes'
  BY <1>0, <1>1, KernelCCBAssumption DEF Enter, MisrFlushes, TypeOK, Set
<1>2. ASSUME NEW t \in AllThreads, PowerUnlock(t) \/ WaitDone(t) PROVE MisrFlushes'
  <2>1. op' = op \/ op' = [op EXCEPT ![t] = "FLUSH"]
    BY <1>2 DEF PowerUnlock, WaitDone, Return, Set
  <2>2. QED
    BY <1>0, <2>1 DEF MisrFlushes, TypeOK
<1>3. ASSUME UNCHANGED op PROVE MisrFlushes'
  BY <1>0, <1>3 DEF MisrFlushes
<1>4. CASE UNCHANGED vars
  BY <1>3, <1>4
<1>5. QED
  BY <1>1, <1>2, <1>3, <1>4
     DEF Next, Step, MisrStart, ChangePageTables, FwExecute, PowerLock, Prepare,
         NothingPending, PowerUpFailed, TakeDeferred, FlushOne, FlushBlocked, PollRoom,
         PollTimedOut, PutBack, SendRaw, RawFull, Defer, Abandon

\* While a thread holds the power lock, nobody else is in the stretch under it.
LEMMA OthersOutside ==
    ASSUME LockOwned, NEW t \in AllThreads, pc[t] \in Holding,
           NEW u \in AllThreads, u # t
    PROVE  pc[u] \notin Holding
BY DEF LockOwned

\* Whoever flushes or sends holds the power lock.
LEMMA FlushingIsHolding == Flushing \cup {"raw"} \subseteq Holding /\ Sending \subseteq Holding
BY DEF Flushing, Sending, Holding

\* The holder of the power lock moves commands between the lists.
LEMMA ListMoved ==
    ASSUME QueueInv, NEW t \in AllThreads, NEW l \in Locations,
           pc[t] \in Holding, Goto(t, l),
           \A u \in AllThreads : u # t => sCommandList'[u] = sCommandList[u],
           l \notin Flushing => sCommandList'[t] = <<>>,
           l = "flush" => sCommandList'[t] # <<>>,
           l \in Flushing \cup {"raw"} => deferred' = <<>>
    PROVE  ListOwned'
<1>1. TypeOK /\ LockOwned /\ ListOwned
  BY DEF QueueInv
<1>2. pc'[t] = l /\ \A u \in AllThreads : u # t => pc'[u] = pc[u] /\ pc[u] \notin Holding
  BY <1>1, OthersOutside DEF Goto, Set, TypeOK
<1>3. QED
  BY <1>1, <1>2, FlushingIsHolding DEF ListOwned

\* A step that touches neither the lists nor a location that matters to them.
LEMMA ListKept ==
    ASSUME QueueInv, NEW t \in AllThreads, NEW l \in Locations, Goto(t, l),
           l \notin Flushing \cup {"raw"}, pc[t] \notin Flushing, UNCHANGED listVars
    PROVE  ListOwned'
<1>1. TypeOK /\ ListOwned
  BY DEF QueueInv
<1>2. pc'[t] = l /\ \A u \in AllThreads : u # t => pc'[u] = pc[u]
  BY <1>1 DEF Goto, Set, TypeOK
<1>3. QED
  BY <1>1, <1>2 DEF ListOwned, listVars, Flushing

\* Every step keeps the local lists with the threads that flush, and nothing
\* is deferred behind the back of a flush.
LEMMA ListStep == QueueInv /\ [Next]_vars => ListOwned'
<1> SUFFICES ASSUME QueueInv, [Next]_vars PROVE ListOwned'
  OBVIOUS
<1>0. TypeOK /\ LockOwned /\ ListOwned
  BY DEF QueueInv
<1> USE DEF vars, ringVars, listVars, flagVars, gpuVars, callVars
<1>1. ASSUME NEW t \in Threads, NEW o \in EntryPoints, Enter(t, o) PROVE ListOwned'
  BY <1>1, ListKept DEF Enter, AllThreads, Locations, Flushing
<1>2. ASSUME MisrStart PROVE ListOwned'
  BY <1>2, ListKept DEF MisrStart, AllThreads, Locations, Flushing
<1>3. ASSUME ChangePageTables \/ FwExecute PROVE ListOwned'
  BY <1>0, <1>3 DEF ChangePageTables, FwExecute, ListOwned
<1>4. ASSUME NEW t \in AllThreads,
             \/ PowerLock(t) \/ Prepare(t) \/ NothingPending(t) \/ PowerUpFailed(t)
             \/ RawFull(t) \/ Abandon(t) \/ WaitDone(t)
      PROVE  ListOwned'
  BY <1>4, ListKept
     DEF PowerLock, Prepare, NothingPending, PowerUpFailed, RawFull, Abandon,
         WaitDone, Return, Locations, Flushing
<1>5. ASSUME NEW t \in AllThreads, TakeDeferred(t) PROVE ListOwned'
  <2>1. /\ pc[t] \in Holding /\ AfterTake(t) \in Locations /\ Goto(t, AfterTake(t))
        /\ deferred' = <<>>
        /\ AfterTake(t) \in {"unlock", "raw"} => deferred = <<>>
        /\ AfterTake(t) = "flush" => deferred # <<>>
        /\ AfterTake(t) \in {"unlock", "raw", "flush"}
    BY <1>5 DEF TakeDeferred, AfterTake, Flushed, Locations, Holding
  <2>2. sCommandList'[t] = deferred
        /\ \A u \in AllThreads : u # t => sCommandList'[u] = sCommandList[u]
    BY <1>0, <1>5 DEF TakeDeferred, Set, TypeOK
  <2>3. QED
    BY <2>1, <2>2, ListMoved DEF Flushing
<1>6. ASSUME NEW t \in AllThreads, FlushOne(t) PROVE ListOwned'
  <2>1. /\ sCommandList[t] \in Seq(Commands) /\ sCommandList[t] # <<>>
        /\ deferred = <<>> /\ deferred' = <<>>
    BY <1>0, <1>6 DEF FlushOne, ListOwned, TypeOK, Flushing
  <2>2. Len(sCommandList[t]) > 1 <=> Tail(sCommandList[t]) # <<>>
    BY <2>1, LastOfList, Zenon
  <2>3. /\ sCommandList'[t] = Tail(sCommandList[t])
        /\ \A u \in AllThreads : u # t => sCommandList'[u] = sCommandList[u]
    BY <1>0, <1>6 DEF FlushOne, Set, TypeOK
  <2>4. PICK l \in Locations :
           /\ Goto(t, l) /\ l \in {"flush", "poll", "unlock", "raw"}
           /\ l = "flush" <=> Len(sCommandList[t]) > 1
    BY <1>6 DEF FlushOne, Flushed, Locations
  <2>5. pc[t] \in Holding
    BY <1>6 DEF FlushOne, Holding
  <2>6. QED
    BY <2>1, <2>2, <2>3, <2>4, <2>5, ListMoved DEF Flushing
<1>7. ASSUME NEW t \in AllThreads, FlushBlocked(t) \/ PollTimedOut(t) PROVE ListOwned'
  <2>1. deferred = <<>> /\ pc[t] \in Holding
    BY <1>0, <1>7 DEF FlushBlocked, PollTimedOut, ListOwned, Flushing, Holding
  <2>2. PICK l \in Locations : Goto(t, l) /\ l \in {"poll", "putBack"}
    BY <1>7 DEF FlushBlocked, PollTimedOut, Locations
  <2>3. QED
    BY <1>7, <2>1, <2>2, ListMoved DEF FlushBlocked, PollTimedOut, Flushing
<1>8. ASSUME NEW t \in AllThreads, PollRoom(t) PROVE ListOwned'
  <2>1. deferred = <<>> /\ pc[t] \in Holding
    BY <1>0, <1>8 DEF PollRoom, ListOwned, Flushing, Holding
  <2>2. PICK l \in Locations :
           /\ Goto(t, l) /\ l \in {"raw", "flush"}
           /\ l = "raw" <=> sCommandList[t] = <<>>
    BY <1>8 DEF PollRoom, Locations
  <2>3. QED
    BY <1>8, <2>1, <2>2, ListMoved DEF PollRoom, Flushing
<1>9. ASSUME NEW t \in AllThreads, PutBack(t) PROVE ListOwned'
  <2>1. /\ sCommandList'[t] = <<>> /\ pc[t] \in Holding
        /\ \A u \in AllThreads : u # t => sCommandList'[u] = sCommandList[u]
    BY <1>0, <1>9 DEF PutBack, Set, TypeOK, Holding
  <2>2. PICK l \in Locations : Goto(t, l) /\ l \in {"unlock", "refused"}
    BY <1>9 DEF PutBack, Locations
  <2>3. QED
    BY <2>1, <2>2, ListMoved DEF Flushing
<1>10. ASSUME NEW t \in AllThreads, SendRaw(t) \/ Defer(t) PROVE ListOwned'
  <2>1. /\ pc[t] \in {"raw", "refused"} /\ UNCHANGED sCommandList
        /\ sCommandList[t] = <<>> /\ pc[t] \in Holding
    BY <1>0, <1>10 DEF SendRaw, Defer, ListOwned, Flushing, Holding
  <2>2. PICK l \in Locations : Goto(t, l) /\ l \in {"unlock", "take"}
    BY <1>10 DEF SendRaw, Defer, Accepted, Locations
  <2>3. QED
    BY <2>1, <2>2, ListMoved DEF Flushing
<1>11. ASSUME NEW t \in AllThreads, PowerUnlock(t) PROVE ListOwned'
  BY <1>11, ListKept DEF PowerUnlock, Return, Locations, Flushing
<1>12. CASE UNCHANGED vars
  BY <1>0, <1>12 DEF ListOwned
<1>13. QED
  BY <1>1, <1>2, <1>3, <1>4, <1>5, <1>6, <1>7, <1>8, <1>9, <1>10, <1>11, <1>12
     DEF Next, Step

\* What one thread does leaves the work of the others alone.
LEMMA WorkMoved ==
    ASSUME QueueInv, NEW t \in AllThreads, NEW l \in Locations, Goto(t, l),
           \A u \in AllThreads : u # t =>
               op'[u] = op[u] /\ todo'[u] = todo[u] /\ update'[u] = update[u],
           todo'[t] \in Works,
           todo'[t] # <<>> <=> l \in Sending /\ op'[t] # "FLUSH",
           l \in {"prepare", "poll", "raw", "refused"} => op'[t] # "FLUSH",
           todo'[t] \in CacheWorks => update'[t] \in Updates
    PROVE  WorkOwned'
<1>1. TypeOK /\ WorkOwned
  BY DEF QueueInv
<1>2. pc'[t] = l /\ \A u \in AllThreads : u # t => pc'[u] = pc[u]
  BY <1>1 DEF Goto, Set, TypeOK
<1>3. QED
  BY <1>1, <1>2, Zenon DEF WorkOwned

\* A thread that only goes from one place to another.
LEMMA WorkKept ==
    ASSUME QueueInv, NEW t \in AllThreads, NEW l \in Locations, Goto(t, l),
           UNCHANGED <<op, todo, update>>,
           op[t] # "FLUSH" => (pc[t] \in Sending <=> l \in Sending),
           l \in {"prepare", "poll", "raw", "refused"} => op[t] # "FLUSH"
    PROVE  WorkOwned'
<1>1. WorkOwned
  BY DEF QueueInv
<1>2. /\ todo[t] \in Works
      /\ todo[t] # <<>> <=> pc[t] \in Sending /\ op[t] # "FLUSH"
      /\ todo[t] \in CacheWorks => update[t] \in Updates
  BY <1>1 DEF WorkOwned
<1>3. op' = op /\ todo' = todo /\ update' = update
  OBVIOUS
<1>4. todo[t] # <<>> <=> l \in Sending /\ op[t] # "FLUSH"
  BY <1>2, Zenon
<1>5. QED
  BY <1>2, <1>3, <1>4, WorkMoved, Zenon

\* Every step keeps the work of a thread with the stretch that sends it.
LEMMA WorkStep == QueueInv /\ [Next]_vars => WorkOwned'
<1> SUFFICES ASSUME QueueInv, [Next]_vars PROVE WorkOwned'
  OBVIOUS
<1>0. TypeOK /\ WorkOwned
  BY DEF QueueInv
<1> USE DEF vars, ringVars, listVars, flagVars, gpuVars, callVars
<1>1. ASSUME NEW t \in Threads, NEW o \in EntryPoints, Enter(t, o) PROVE WorkOwned'
  <2>1. /\ t \in AllThreads /\ Goto(t, "lock") /\ todo' = todo /\ update' = update
        /\ pc[t] = "idle" /\ op' = [op EXCEPT ![t] = o]
    BY <1>1 DEF Enter, AllThreads, Set
  <2>2. todo[t] = <<>>
    BY <1>0, <2>1 DEF WorkOwned, Sending
  <2>3. \A u \in AllThreads : u # t => op'[u] = op[u]
    BY <1>0, <2>1 DEF TypeOK
  <2>4. "lock" \in Locations /\ "lock" \notin Sending
    BY DEF Locations, Sending
  <2>5. "lock" \notin {"prepare", "poll", "raw", "refused"}
    OBVIOUS
  <2>6. QED
    BY <2>1, <2>2, <2>3, <2>4, <2>5, WorkKinds, WorkMoved, Zenon
<1>2. ASSUME MisrStart PROVE WorkOwned'
  BY <1>2, WorkKept DEF MisrStart, AllThreads, Locations, Sending
<1>3. ASSUME ChangePageTables \/ FwExecute PROVE WorkOwned'
  BY <1>0, <1>3, Zenon DEF ChangePageTables, FwExecute, WorkOwned
<1>4. ASSUME NEW t \in AllThreads, PowerLock(t) PROVE WorkOwned'
  BY <1>4, WorkKept DEF PowerLock, Locations, Sending
<1>5. ASSUME NEW t \in AllThreads, Prepare(t) PROVE WorkOwned'
  <2>1. /\ Goto(t, "take") /\ op' = op /\ todo' = [todo EXCEPT ![t] = WorkOf(t)]
        /\ pc[t] = "prepare"
        /\ sCacheFlags => update' = [update EXCEPT ![t] = nextUpdate]
        /\ ~sCacheFlags => update' = update
    BY <1>5 DEF Prepare, Set
  <2>2. op[t] # "FLUSH"
    BY <1>0, <2>1 DEF WorkOwned
  <2>3. /\ todo'[t] = WorkOf(t)
        /\ \A u \in AllThreads : u # t => todo'[u] = todo[u] /\ update'[u] = update[u]
        /\ sCacheFlags => update'[t] \in Updates
    BY <1>0, <2>1 DEF TypeOK
  <2>4. /\ WorkOf(t) \in Works /\ WorkOf(t) # <<>>
        /\ WorkOf(t) \in CacheWorks => sCacheFlags
    <3>1. op[t] = "INVALIDATE" => sCacheFlags
      BY <1>5 DEF Prepare
    <3>2. QED
      BY <3>1, WorkOfIs, WorkKinds, WorksDiffer
  <2>5. "take" \in Locations /\ "take" \in Sending
    BY DEF Locations, Sending
  <2>6. "take" \notin {"prepare", "poll", "raw", "refused"}
    OBVIOUS
  <2>7. QED
    BY <2>1, <2>2, <2>3, <2>4, <2>5, <2>6, WorkMoved, Zenon
<1>6. ASSUME NEW t \in AllThreads, NothingPending(t) \/ PowerUpFailed(t) PROVE WorkOwned'
  BY <1>6, WorkKept DEF NothingPending, PowerUpFailed, Locations, Sending
<1>7. ASSUME NEW t \in AllThreads, TakeDeferred(t) \/ PutBack(t) \/ RawFull(t)
      PROVE  WorkOwned'
  <2>1. PICK l \in Locations :
           /\ Goto(t, l)
           /\ op[t] # "FLUSH" => l \in Sending
           /\ l \in {"flush", "unlock", "raw", "refused"}
           /\ l \in {"raw", "refused"} => op[t] # "FLUSH"
    BY <1>0, <1>7 DEF TakeDeferred, PutBack, RawFull, AfterTake, Flushed, Locations,
                      Sending, WorkOwned
  <2>2. pc[t] \in Sending /\ UNCHANGED <<op, todo, update>>
    BY <1>7 DEF TakeDeferred, PutBack, RawFull, Sending
  <2>3. QED
    BY <2>1, <2>2, WorkKept
<1>8. ASSUME NEW t \in AllThreads,
             FlushOne(t) \/ FlushBlocked(t) \/ PollRoom(t) \/ PollTimedOut(t)
      PROVE  WorkOwned'
  <2>1. PICK l \in Locations :
           /\ Goto(t, l)
           /\ op[t] # "FLUSH" => l \in Sending
           /\ l \in {"flush", "poll", "putBack", "unlock", "raw"}
           /\ l \in {"raw", "poll"} => op[t] # "FLUSH"
    BY <1>0, <1>8 DEF FlushOne, FlushBlocked, PollRoom, PollTimedOut, Flushed,
                      Polls, Locations, Sending, WorkOwned
  <2>2. pc[t] \in Sending /\ UNCHANGED <<op, todo, update>>
    BY <1>8 DEF FlushOne, FlushBlocked, PollRoom, PollTimedOut, Sending
  <2>3. QED
    BY <2>1, <2>2, WorkKept
<1>9. ASSUME NEW t \in AllThreads, SendRaw(t) \/ Defer(t) PROVE WorkOwned'
  <2>1. /\ Goto(t, IF Len(todo[t]) = 1 THEN "unlock" ELSE "take")
        /\ op' = op /\ update' = update
        /\ todo' = [todo EXCEPT ![t] = Tail(todo[t])]
        /\ pc[t] \in {"raw", "refused"}
    BY <1>9 DEF SendRaw, Defer, Accepted, Set
  <2>2. op[t] # "FLUSH" /\ todo[t] # <<>> /\ todo[t] \in Works
    BY <1>0, <2>1 DEF WorkOwned, Sending
  <2>3. /\ todo'[t] = Tail(todo[t])
        /\ \A u \in AllThreads : u # t => todo'[u] = todo[u]
    BY <1>0, <2>1 DEF TypeOK
  <2>4. "take" \in Locations /\ "take" \in Sending
        /\ "unlock" \in Locations /\ "unlock" \notin Sending
    BY DEF Locations, Sending
  <2>5. \/ Len(todo[t]) = 1 /\ Tail(todo[t]) = <<>>
        \/ Len(todo[t]) # 1 /\ Tail(todo[t]) = KickWork
    BY <2>2, WorkIs, WorkKinds
  <2>6. {"take", "unlock"} \cap {"prepare", "poll", "raw", "refused"} = {}
    OBVIOUS
  <2>7. CASE Len(todo[t]) = 1
    BY <2>1, <2>2, <2>3, <2>4, <2>5, <2>6, <2>7, WorkKinds, WorkMoved, Zenon
  <2>8. CASE Len(todo[t]) # 1
    BY <2>1, <2>2, <2>3, <2>4, <2>5, <2>6, <2>8, WorkKinds, WorksDiffer, WorkMoved, Zenon
  <2>9. QED
    BY <2>7, <2>8
<1>10. ASSUME NEW t \in AllThreads, Abandon(t) PROVE WorkOwned'
  <2>1. /\ Goto(t, "unlock") /\ op' = op /\ update' = update
        /\ todo' = [todo EXCEPT ![t] = <<>>]
    BY <1>10 DEF Abandon, Set
  <2>2. todo'[t] = <<>> /\ \A u \in AllThreads : u # t => todo'[u] = todo[u]
    BY <1>0, <2>1 DEF TypeOK
  <2>3. "unlock" \in Locations /\ "unlock" \notin Sending
    BY DEF Locations, Sending
  <2>4. "unlock" \notin {"prepare", "poll", "raw", "refused"}
    OBVIOUS
  <2>5. QED
    BY <2>1, <2>2, <2>3, <2>4, WorkKinds, WorkMoved, Zenon
<1>11. ASSUME NEW t \in AllThreads, PowerUnlock(t) \/ WaitDone(t) PROVE WorkOwned'
  <2>1. pc[t] \in {"unlock", "wait"} /\ todo' = todo
    BY <1>11 DEF PowerUnlock, WaitDone
  <2>2. todo[t] = <<>>
    BY <1>0, <2>1 DEF WorkOwned, Sending
  <2>3. /\ op' = op \/ op' = [op EXCEPT ![t] = "FLUSH"]
        /\ update' = update \/ update' = [update EXCEPT ![t] = NoValue]
    BY <1>11 DEF PowerUnlock, WaitDone, Return, Set
  <2>4. \A u \in AllThreads : u # t => op'[u] = op[u] /\ update'[u] = update[u]
    BY <1>0, <2>3 DEF TypeOK
  <2>5. PICK l \in {"idle", "wait"} : Goto(t, l)
    BY <1>11 DEF PowerUnlock, WaitDone, Return
  <2>6. /\ l \in Locations /\ l \notin Sending
        /\ l \notin {"prepare", "poll", "raw", "refused"}
    BY DEF Locations, Sending
  <2>7. QED
    BY <2>1, <2>2, <2>4, <2>5, <2>6, WorkKinds, WorkMoved, Zenon
<1>12. CASE UNCHANGED vars
  BY <1>0, <1>12, Zenon DEF WorkOwned
<1>13. QED
  BY <1>1, <1>2, <1>3, <1>4, <1>5, <1>6, <1>7, <1>8, <1>9, <1>10, <1>11, <1>12
     DEF Next, Step

-----------------------------------------------------------------------------
(* The ring under its two operations.                                      *)

\* Putting a command into a ring that is not full appends it.
LEMMA RingEnqueued ==
    ASSUME TypeOK, TypeOK', RingIsWindow, ~Full, NEW c \in Commands, Enqueue(c)
    PROVE  /\ RingIsWindow' /\ Ring' = Append(Ring, c)
           /\ Used' = Used + 1 /\ Used = Distance(ui32WriteOffset)
           /\ \A o \in Offsets : Distance(o)' = Distance(o)
<1> DEFINE w == ui32WriteOffset
<1>1. /\ ui32ReadOffset \in Offsets /\ w \in Offsets /\ ui32ReadOffset' = ui32ReadOffset
      /\ ccb' = [ccb EXCEPT ![w] = c] /\ ccb \in [Offsets -> Commands \cup {NoCommand}]
      /\ ui32WriteOffset' = NextOffset(w) /\ NextOffset(w) \in Offsets
      /\ NextOffset(w) # ui32ReadOffset
  BY NextOffsetIs DEF TypeOK, Enqueue, Full, Set
<1>2. Used = Distance(w) /\ Used \in 0..(RingSize - 1) /\ RingSize \in Nat
  BY <1>1, UsedIs, KernelCCBAssumption
<1>3. Used' = Used + 1 /\ Used + 1 \in 1..(RingSize - 1)
  <2>1. /\ Used' = Distance(NextOffset(w))
        /\ Distance(NextOffset(w)) \in 0..(RingSize - 1)
    <3>1. Distance(NextOffset(w)) \in 0..(RingSize - 1)
      BY <1>1, DistanceIs
    <3>2. Used' = (NextOffset(w) + RingSize - ui32ReadOffset) % RingSize
      BY <1>1 DEF Used
    <3>3. QED
      BY <1>1, <3>1, <3>2, WrapIs DEF Distance
  <2>2. Distance(NextOffset(w)) = Distance(w) + 1
    <3>1. NextOffset(w) = IF w = RingSize - 1 THEN 0 ELSE w + 1
      BY <1>1, NextOffsetIs
    <3>2. CASE w = RingSize - 1
      BY <1>1, <3>1, <3>2, KernelCCBAssumption DEF Distance, Offsets
    <3>3. CASE w # RingSize - 1
      BY <1>1, <3>1, <3>3, KernelCCBAssumption DEF Distance, Offsets
    <3>4. QED
      BY <3>2, <3>3
  <2>3. QED
    BY <1>2, <2>1, <2>2
<1>4. \A o \in Offsets : Distance(o)' = Distance(o)
  BY <1>1 DEF Distance
<1>5. RingIsWindow'
  <2> SUFFICES ASSUME NEW o \in Offsets
               PROVE  ccb'[o] \in Commands <=> Distance(o) < Used + 1
    BY <1>3, <1>4 DEF RingIsWindow
  <2>1. Distance(o) \in 0..(RingSize - 1)
    BY <1>1, DistanceIs
  <2>2. CASE o = w
    BY <1>1, <1>2, <2>2
  <2>3. CASE o # w
    <3>1. Distance(o) # Used
      BY <1>1, <1>2, <2>3, DistanceIs
    <3>2. ccb'[o] = ccb[o]
      BY <1>1, <2>3
    <3>3. QED
      BY <1>2, <2>1, <3>1, <3>2 DEF RingIsWindow
  <2>4. QED
    BY <2>2, <2>3
<1>6. RingIsSeq /\ RingIsSeq'
  <2>1. RingIsSeq
    BY RingSeq
  <2>2. (TypeOK /\ RingIsWindow => RingIsSeq)'
    BY RingSeq, PTL
  <2>3. QED
    BY <1>5, <2>1, <2>2
<1>7. \A i \in 1..RingSize : At(i)' = At(i)
  BY <1>1 DEF At
<1>8. \A i \in 1..(Used + 1) : Ring'[i] = Append(Ring, c)[i]
  <2> SUFFICES ASSUME NEW i \in 1..(Used + 1) PROVE Ring'[i] = Append(Ring, c)[i]
    OBVIOUS
  <2>1. /\ i \in 1..RingSize /\ Ring'[i] = ccb'[At(i)]
    BY <1>2, <1>3, <1>6, <1>7 DEF RingIsSeq
  <2>2. At(i) \in Offsets /\ Distance(At(i)) = i - 1
    BY <1>1, <2>1, AtIs
  <2>3. CASE i = Used + 1
    <3>1. At(i) = w
      BY <1>1, <1>2, <2>2, <2>3, DistanceIs
    <3>2. Append(Ring, c)[i] = c
      BY <1>6, <2>3, AppendProperties DEF RingIsSeq
    <3>3. QED
      BY <1>1, <2>1, <3>1, <3>2
  <2>4. CASE i # Used + 1
    <3>1. i \in 1..Used
      BY <1>2, <2>4
    <3>2. At(i) # w
      BY <1>2, <2>2, <3>1
    <3>3. Append(Ring, c)[i] = Ring[i] /\ Ring[i] = ccb[At(i)]
      BY <1>6, <3>1, AppendProperties DEF RingIsSeq
    <3>4. QED
      BY <1>1, <2>1, <2>2, <3>2, <3>3
  <2>5. QED
    BY <2>3, <2>4
<1>9. Ring' = Append(Ring, c)
  <2>1. /\ Append(Ring, c) \in Seq(Commands)
        /\ Len(Append(Ring, c)) = Used + 1
    BY <1>6, AppendProperties DEF RingIsSeq
  <2>2. Ring' \in Seq(Commands) /\ Len(Ring') = Used + 1
    BY <1>3, <1>6 DEF RingIsSeq
  <2>3. QED
    BY <1>8, <2>1, <2>2, SeqEqual
<1>10. QED
  BY <1>2, <1>3, <1>4, <1>5, <1>9

\* Executing the command at the read offset takes it from the head of the ring.
LEMMA RingExecuted ==
    ASSUME TypeOK, TypeOK', RingIsWindow, FwExecute
    PROVE  /\ RingIsWindow' /\ Ring' = Tail(Ring)
           /\ Ring # <<>> /\ Head(Ring) = ccb[ui32ReadOffset]
           /\ Used' = Used - 1
           /\ \A o \in Offsets :
                 Distance(o)' = IF o = ui32ReadOffset THEN RingSize - 1
                                                      ELSE Distance(o) - 1
<1> DEFINE r == ui32ReadOffset
<1>1. /\ r \in Offsets /\ ui32WriteOffset \in Offsets /\ r # ui32WriteOffset
      /\ ui32WriteOffset' = ui32WriteOffset
      /\ ccb' = [ccb EXCEPT ![r] = NoCommand]
      /\ ccb \in [Offsets -> Commands \cup {NoCommand}]
      /\ ui32ReadOffset' = NextOffset(r) /\ NextOffset(r) \in Offsets
  BY NextOffsetIs DEF TypeOK, FwExecute, NextOffset, Set
<1>2. /\ Used = Distance(ui32WriteOffset) /\ Used \in 1..(RingSize - 1)
      /\ RingSize \in Nat /\ RingSize > 1
  <2>1. Used = Distance(ui32WriteOffset) /\ Used \in 0..(RingSize - 1)
    BY <1>1, UsedIs
  <2>2. Used # 0
    BY <1>1, <2>1, DistanceIs
  <2>3. QED
    BY <2>1, <2>2, KernelCCBAssumption
<1>3. \A o \in Offsets :
         Distance(o)' = IF o = r THEN RingSize - 1 ELSE Distance(o) - 1
  <2> SUFFICES ASSUME NEW o \in Offsets
               PROVE  Distance(o)' = IF o = r THEN RingSize - 1 ELSE Distance(o) - 1
    OBVIOUS
  <2>1. ui32ReadOffset' = IF r = RingSize - 1 THEN 0 ELSE r + 1
    BY <1>1, NextOffsetIs
  <2>2. CASE r = RingSize - 1
    BY <1>1, <2>1, <2>2, KernelCCBAssumption DEF Distance, Offsets
  <2>3. CASE r # RingSize - 1
    BY <1>1, <2>1, <2>3, KernelCCBAssumption DEF Distance, Offsets
  <2>4. QED
    BY <2>2, <2>3
<1>4. Used' = Used - 1
  <2>1. Used' = Distance(ui32WriteOffset)'
    BY <1>1, WrapIs DEF Used, Distance
  <2>2. QED
    BY <1>1, <1>2, <1>3, <2>1
<1>5. RingIsWindow'
  <2> SUFFICES ASSUME NEW o \in Offsets
               PROVE  ccb'[o] \in Commands <=> Distance(o)' < Used - 1
    BY <1>4 DEF RingIsWindow
  <2>1. Distance(o) \in 0..(RingSize - 1)
    BY <1>1, DistanceIs
  <2>2. CASE o = r
    BY <1>1, <1>2, <1>3, <2>2, NoCommandAssumption
  <2>3. CASE o # r
    BY <1>1, <1>2, <1>3, <2>1, <2>3 DEF RingIsWindow
  <2>4. QED
    BY <2>2, <2>3
<1>6. RingIsSeq /\ RingIsSeq'
  <2>1. RingIsSeq
    BY RingSeq
  <2>2. (TypeOK /\ RingIsWindow => RingIsSeq)'
    BY RingSeq, PTL
  <2>3. QED
    BY <1>5, <2>1, <2>2
<1>7. \A i \in 1..(RingSize - 1) : At(i)' = At(i + 1)
  <2>1. ui32ReadOffset' = IF r = RingSize - 1 THEN 0 ELSE r + 1
    BY <1>1, NextOffsetIs
  <2>2. CASE r = RingSize - 1
    BY <1>1, <2>1, <2>2, KernelCCBAssumption DEF At, Offsets
  <2>3. CASE r # RingSize - 1
    BY <1>1, <2>1, <2>3, KernelCCBAssumption DEF At, Offsets
  <2>4. QED
    BY <2>2, <2>3
<1>8. Ring # <<>> /\ Head(Ring) = ccb[r]
  <2>1. Ring # <<>>
    BY <1>2, <1>6, EmptySeq DEF RingIsSeq
  <2>2. Head(Ring) = Ring[1]
    BY <1>6, <2>1 DEF RingIsSeq
  <2>3. At(1) = r
    BY <1>1, <1>2 DEF At, Offsets
  <2>4. QED
    BY <1>2, <1>6, <2>1, <2>2, <2>3 DEF RingIsSeq
<1>9. /\ Tail(Ring) \in Seq(Commands) /\ Len(Tail(Ring)) = Used - 1
      /\ \A i \in 1..(Used - 1) : Tail(Ring)[i] = Ring[i + 1]
  BY <1>6, <1>8, HeadTailProperties DEF RingIsSeq
<1>10. \A i \in 1..(Used - 1) : Ring'[i] = Tail(Ring)[i]
  <2> SUFFICES ASSUME NEW i \in 1..(Used - 1) PROVE Ring'[i] = Tail(Ring)[i]
    OBVIOUS
  <2>1. i \in 1..(RingSize - 1) /\ i + 1 \in 1..RingSize /\ i + 1 \in 1..Used
    BY <1>2
  <2>2. Ring'[i] = ccb'[At(i + 1)]
    BY <1>4, <1>6, <1>7, <2>1 DEF RingIsSeq
  <2>3. At(i + 1) \in Offsets /\ At(i + 1) # r
    <3>1. At(i + 1) \in Offsets /\ Distance(At(i + 1)) = i + 1 - 1
      BY <1>1, <2>1, AtIs
    <3>2. Distance(r) = 0
      BY <1>1, DistanceIs
    <3>3. QED
      BY <2>1, <3>1, <3>2
  <2>4. Tail(Ring)[i] = ccb[At(i + 1)]
    BY <1>6, <1>9, <2>1 DEF RingIsSeq
  <2>5. QED
    BY <1>1, <2>2, <2>3, <2>4
<1>11. Ring' = Tail(Ring)
  <2>1. Ring' \in Seq(Commands) /\ Len(Ring') = Used - 1
    BY <1>4, <1>6 DEF RingIsSeq
  <2>2. QED
    BY <1>9, <1>10, <2>1, SeqEqual
<1>12. QED
  BY <1>3, <1>4, <1>5, <1>8, <1>11

\* A step that leaves the ring alone.
LEMMA RingKept ==
    ASSUME UNCHANGED <<ccb, ui32WriteOffset, ui32ReadOffset>>
    PROVE  Ring' = Ring /\ (RingIsWindow => RingIsWindow')
<1>1. Ring' = Ring
  BY DEF Ring, Used
<1>2. RingIsWindow => RingIsWindow'
  BY DEF RingIsWindow, Distance, Used
<1>3. QED
  BY <1>1, <1>2

-----------------------------------------------------------------------------
(* What each step does to the queue.                                       *)

\* The three parts of the queue are sequences of commands.
LEMMA QueueParts ==
    QueueInv => /\ Ring \in Seq(Commands) /\ Local \in Seq(Commands)
                /\ deferred \in Seq(Commands) /\ Queue \in Seq(Commands)
<1> SUFFICES ASSUME QueueInv
             PROVE  /\ Ring \in Seq(Commands) /\ Local \in Seq(Commands)
                    /\ deferred \in Seq(Commands) /\ Queue \in Seq(Commands)
  OBVIOUS
<1>1. Ring \in Seq(Commands) /\ deferred \in Seq(Commands)
  BY RingSeq DEF QueueInv, RingIsSeq, TypeOK
<1>2. Local \in Seq(Commands)
  BY EmptySeq DEF QueueInv, TypeOK, Local
<1>3. Queue \in Seq(Commands)
  BY <1>1, <1>2, ConcatProperties DEF Queue
<1>4. QED
  BY <1>1, <1>2, <1>3

\* The local list is that of the holder of the lock, whose location decides
\* whether there is one.
LEMMA LocalIs ==
    ASSUME QueueInv, NEW t \in AllThreads, pc[t] \in Holding
    PROVE  hPowerLock = t /\ hPowerLock # NoThread /\ Local = sCommandList[t]
<1>1. hPowerLock = t
  BY DEF QueueInv, LockOwned
<1>2. t # NoThread
  BY KernelCCBAssumption DEF AllThreads
<1>3. QED
  BY <1>1, <1>2 DEF Local

\* Appending after a concatenation.
LEMMA AppendInto ==
    ASSUME NEW S, NEW d \in Seq(S), NEW c \in Seq(S), NEW e \in S
    PROVE  d \o Append(c, e) = Append(d \o c, e)
<1>1. <<e>> \in Seq(S)
  BY AppendProperties, AppendIsConcat, EmptySeq, ConcatEmptySeq
<1>2. d \o c \in Seq(S)
  BY ConcatProperties
<1>3. Append(c, e) = c \o <<e>> /\ Append(d \o c, e) = (d \o c) \o <<e>>
  BY <1>2, AppendIsConcat
<1>4. (d \o c) \o <<e>> = d \o (c \o <<e>>)
  BY <1>1, ConcatAssociative
<1>5. QED
  BY <1>3, <1>4

\* Appending to the last of three parts.
LEMMA AppendLast ==
    ASSUME NEW S, NEW a \in Seq(S), NEW b \in Seq(S), NEW c \in Seq(S), NEW e \in S
    PROVE  /\ a \o b \o Append(c, e) = Append(a \o b \o c, e)
           /\ Append(a, e) \o b \o c = a \o (<<e>> \o b) \o c
<1>1. <<e>> \in Seq(S)
  BY AppendProperties, AppendIsConcat, EmptySeq, ConcatEmptySeq
<1>2. PICK d : d = a \o b
  OBVIOUS
<1>3. d \in Seq(S)
  BY <1>2, ConcatProperties
<1>4. d \o Append(c, e) = Append(d \o c, e)
  BY <1>3, AppendInto
<1>5. (a \o <<e>>) \o b = a \o (<<e>> \o b)
  BY <1>1, ConcatAssociative
<1>6. Append(a, e) = a \o <<e>>
  BY AppendIsConcat
<1>7. QED
  BY <1>2, <1>4, <1>5, <1>6

\* Taking the whole deferred list as a local one, and putting it back.
LEMMA QueueTake ==
    ASSUME QueueInv, NEW t \in AllThreads, TakeDeferred(t) \/ PutBack(t)
    PROVE  Queue' = Queue
<1>1. /\ pc[t] \in Holding /\ hPowerLock' = hPowerLock
      /\ UNCHANGED <<ccb, ui32WriteOffset, ui32ReadOffset>>
  BY DEF TakeDeferred, PutBack, Holding, ringVars
<1>2. Ring' = Ring /\ Local = sCommandList[t] /\ Local' = sCommandList'[t]
  BY <1>1, LocalIs, RingKept DEF Local
<1>3. CASE TakeDeferred(t)
  <2>1. sCommandList[t] = <<>>
    BY <1>3 DEF TakeDeferred, QueueInv, ListOwned, Flushing
  <2>2. sCommandList'[t] = deferred /\ deferred' = <<>>
    BY <1>3 DEF TakeDeferred, QueueInv, TypeOK, Set
  <2>3. Ring \o <<>> \o deferred = Ring \o deferred
    BY QueueParts, ConcatEmptySeq
  <2>4. Ring \o deferred \o <<>> = Ring \o deferred
    BY QueueParts, ConcatProperties, ConcatEmptySeq
  <2>5. QED
    BY <1>2, <2>1, <2>2, <2>3, <2>4 DEF Queue
<1>4. CASE PutBack(t)
  <2>1. sCommandList'[t] = <<>> /\ deferred' = sCommandList[t] \o deferred
    BY <1>4 DEF PutBack, QueueInv, TypeOK, Set
  <2>2. Ring \o <<>> \o (sCommandList[t] \o deferred) = Ring \o (sCommandList[t] \o deferred)
    BY QueueParts, ConcatEmptySeq
  <2>3. Ring \o (sCommandList[t] \o deferred) = Ring \o sCommandList[t] \o deferred
    <3> DEFINE l == sCommandList[t]
    <3>1. Ring \in Seq(Commands) /\ l \in Seq(Commands) /\ deferred \in Seq(Commands)
      BY <1>2, QueueParts
    <3> HIDE DEF l
    <3>2. (Ring \o l) \o deferred = Ring \o (l \o deferred)
      BY <3>1, ConcatAssociative
    <3>3. QED
      BY <3>2 DEF l
  <2>4. QED
    BY <1>2, <2>1, <2>2, <2>3 DEF Queue
<1>5. QED
  BY <1>3, <1>4

\* Moving one command from the local list to the ring.
LEMMA QueueFlush ==
    ASSUME QueueInv, TypeOK', NEW t \in AllThreads, FlushOne(t)
    PROVE  RingIsWindow' /\ Queue' = Queue
<1> DEFINE c == Head(sCommandList[t])
           r == Tail(sCommandList[t])
<1>1. /\ pc[t] \in Holding /\ hPowerLock' = hPowerLock /\ deferred' = deferred
      /\ ~Full /\ Enqueue(c) /\ sCommandList' = [sCommandList EXCEPT ![t] = r]
  BY DEF FlushOne, Holding, Set
<1>2. sCommandList[t] \in Seq(Commands) /\ sCommandList[t] # <<>>
  BY DEF FlushOne, QueueInv, ListOwned, TypeOK
<1>3. c \in Commands /\ r \in Seq(Commands) /\ sCommandList[t] = <<c>> \o r
  <2>1. c \in Commands /\ r \in Seq(Commands)
    BY <1>2, HeadTailProperties
  <2>2. sCommandList[t] = <<c>> \o r
    BY <1>2
  <2>3. QED
    BY <2>1, <2>2
<1>4. RingIsWindow' /\ Ring' = Append(Ring, c)
  BY <1>1, <1>3, RingEnqueued DEF QueueInv
<1>5. Local = sCommandList[t] /\ Local' = r
  BY <1>1, LocalIs DEF Local, QueueInv, TypeOK
<1>6. Append(Ring, c) \o r \o deferred = Ring \o (<<c>> \o r) \o deferred
  <2>1. Ring \in Seq(Commands) /\ deferred \in Seq(Commands)
    BY QueueParts
  <2> HIDE DEF c, r
  <2>2. QED
    BY <1>3, <2>1, AppendLast
<1>7. QED
  BY <1>1, <1>3, <1>4, <1>5, <1>6 DEF Queue

\* Accepting a command, in the ring or in the deferred list, appends it to the
\* queue: nothing accepted before it is overtaken.
LEMMA QueueAccept ==
    ASSUME QueueInv, TypeOK', NEW t \in AllThreads, SendRaw(t) \/ Defer(t)
    PROVE  /\ RingIsWindow' /\ Queue' = Append(Queue, CommandOf(t))
           /\ CommandOf(t) \in Commands
<1>1. /\ pc[t] \in Holding /\ hPowerLock' = hPowerLock /\ todo[t] # <<>>
      /\ sCommandList' = sCommandList /\ sCommandList[t] = <<>>
  BY DEF SendRaw, Defer, Holding, listVars, QueueInv, WorkOwned, ListOwned, Flushing,
         Sending
<1>2. CommandOf(t) \in Commands
  BY <1>1, CommandOfType DEF QueueInv
<1>3. Local = <<>> /\ Local' = <<>>
  BY <1>1, LocalIs DEF Local
<1>4. CASE SendRaw(t)
  <2>1. /\ RingIsWindow' /\ Ring' = Append(Ring, CommandOf(t))
        /\ deferred = <<>> /\ deferred' = <<>>
    BY <1>2, <1>4, RingEnqueued DEF SendRaw, QueueInv, listVars, ListOwned
  <2>2. Ring \o <<>> \o <<>> = Ring
        /\ Append(Ring, CommandOf(t)) \o <<>> \o <<>> = Append(Ring, CommandOf(t))
    BY <1>2, QueueParts, AppendProperties, ConcatEmptySeq
  <2>3. QED
    BY <1>2, <1>3, <2>1, <2>2 DEF Queue
<1>5. CASE Defer(t)
  <2>1. RingIsWindow' /\ Ring' = Ring /\ deferred' = Append(deferred, CommandOf(t))
    BY <1>5, RingKept DEF Defer, QueueInv, ringVars
  <2>2. Ring \o <<>> \o Append(deferred, CommandOf(t))
            = Append(Ring \o <<>> \o deferred, CommandOf(t))
    BY <1>2, QueueParts, EmptySeq, AppendLast
  <2>3. QED
    BY <1>2, <1>3, <2>1, <2>2 DEF Queue
<1>6. QED
  BY <1>4, <1>5

\* The firmware executes the head of the queue.
LEMMA QueueExecute ==
    ASSUME QueueInv, TypeOK', FwExecute
    PROVE  /\ RingIsWindow' /\ Queue # <<>> /\ Queue' = Tail(Queue)
           /\ Head(Queue) = ccb[ui32ReadOffset]
<1>1. /\ RingIsWindow' /\ Ring' = Tail(Ring)
      /\ Ring # <<>> /\ Head(Ring) = ccb[ui32ReadOffset]
  BY RingExecuted DEF QueueInv
<1>2. Local' = Local /\ deferred' = deferred
  BY DEF FwExecute, Local, listVars
<1>3. /\ Ring \o Local # <<>> /\ Ring \o Local \in Seq(Commands)
      /\ Tail(Ring \o Local) = Tail(Ring) \o Local /\ Head(Ring \o Local) = Head(Ring)
  <2>1. Ring \in Seq(Commands) /\ Local \in Seq(Commands)
    BY QueueParts
  <2>2. QED
    BY <1>1, <2>1, ConcatHead
<1>4. /\ Queue # <<>> /\ Tail(Queue) = Tail(Ring \o Local) \o deferred
      /\ Head(Queue) = Head(Ring \o Local)
  <2>1. deferred \in Seq(Commands)
    BY QueueParts
  <2> DEFINE a == Ring \o Local
  <2>2. a # <<>> /\ a \in Seq(Commands)
    BY <1>3
  <2> HIDE DEF a
  <2>3. /\ a \o deferred # <<>> /\ Tail(a \o deferred) = Tail(a) \o deferred
        /\ Head(a \o deferred) = Head(a)
    BY <2>1, <2>2, ConcatHead
  <2>4. QED
    BY <2>3 DEF a, Queue
<1>5. QED
  BY <1>1, <1>2, <1>3, <1>4 DEF Queue

\* All the other steps leave the queue alone; taking and dropping the power
\* lock too, since no list is local then.
LEMMA QueueKept ==
    ASSUME QueueInv, UNCHANGED <<ccb, ui32WriteOffset, ui32ReadOffset, listVars>>,
           \/ UNCHANGED hPowerLock
           \/ \E t \in AllThreads : PowerLock(t) \/ PowerUnlock(t)
    PROVE  RingIsWindow' /\ Queue' = Queue
<1>1. RingIsWindow' /\ Ring' = Ring
  BY RingKept DEF QueueInv
<1>2. Local' = Local
  <2>1. CASE UNCHANGED hPowerLock
    BY <2>1 DEF Local, listVars
  <2>2. ASSUME NEW t \in AllThreads, PowerLock(t) PROVE Local' = Local
    <3>1. hPowerLock = NoThread /\ hPowerLock' = t /\ sCommandList[t] = <<>>
      BY <2>2 DEF PowerLock, QueueInv, ListOwned, Flushing
    <3>2. QED
      BY <3>1 DEF Local, listVars
  <2>3. ASSUME NEW t \in AllThreads, PowerUnlock(t) PROVE Local' = Local
    <3>1. pc[t] \in Holding /\ hPowerLock' = NoThread /\ sCommandList[t] = <<>>
      BY <2>3 DEF PowerUnlock, QueueInv, ListOwned, Flushing, Holding
    <3>2. QED
      BY <3>1, LocalIs DEF Local
  <2>4. QED
    BY <2>1, <2>2, <2>3
<1>3. QED
  BY <1>1, <1>2 DEF Queue, listVars

\* A step that accepts or executes a command appends to the queue or takes its
\* head; every other step leaves it as it is.
LEMMA QueueStep ==
    ASSUME QueueInv, TypeOK', [Next]_vars
    PROVE  /\ RingIsWindow'
           /\ \/ Queue' = Queue
              \/ \E c \in Commands : Queue' = Append(Queue, c)
              \/ Queue # <<>> /\ Queue' = Tail(Queue)
<1> USE DEF vars, ringVars, listVars
<1>1. ASSUME NEW t \in Threads, NEW o \in EntryPoints, Enter(t, o)
      PROVE  RingIsWindow' /\ Queue' = Queue
  BY <1>1, QueueKept DEF Enter
<1>2. ASSUME MisrStart \/ ChangePageTables PROVE RingIsWindow' /\ Queue' = Queue
  BY <1>2, QueueKept DEF MisrStart, ChangePageTables
<1>3. CASE FwExecute
  BY <1>3, QueueExecute
<1>4. ASSUME NEW t \in AllThreads, PowerLock(t) \/ PowerUnlock(t)
      PROVE  RingIsWindow' /\ Queue' = Queue
  BY <1>4, QueueKept DEF PowerLock, PowerUnlock
<1>5. ASSUME NEW t \in AllThreads,
             \/ Prepare(t) \/ NothingPending(t) \/ PowerUpFailed(t) \/ FlushBlocked(t)
             \/ PollRoom(t) \/ PollTimedOut(t) \/ RawFull(t) \/ Abandon(t) \/ WaitDone(t)
      PROVE  RingIsWindow' /\ Queue' = Queue
  BY <1>5, QueueKept
     DEF Prepare, NothingPending, PowerUpFailed, FlushBlocked, PollRoom, PollTimedOut,
         RawFull, Abandon, WaitDone
<1>6. ASSUME NEW t \in AllThreads, TakeDeferred(t) \/ PutBack(t)
      PROVE  RingIsWindow' /\ Queue' = Queue
  <2>1. UNCHANGED <<ccb, ui32WriteOffset, ui32ReadOffset>>
    BY <1>6 DEF TakeDeferred, PutBack
  <2>2. QED
    BY <1>6, <2>1, QueueTake, RingKept DEF QueueInv
<1>7. ASSUME NEW t \in AllThreads, FlushOne(t) PROVE RingIsWindow' /\ Queue' = Queue
  BY <1>7, QueueFlush
<1>8. ASSUME NEW t \in AllThreads, SendRaw(t) \/ Defer(t)
      PROVE  RingIsWindow' /\ \E c \in Commands : Queue' = Append(Queue, c)
  BY <1>8, QueueAccept
<1>9. CASE UNCHANGED vars
  BY <1>9, QueueKept
<1>10. QED
  BY <1>1, <1>2, <1>3, <1>4, <1>5, <1>6, <1>7, <1>8, <1>9 DEF Next, Step

\* The initial states satisfy the inductive invariant, and nothing is queued.
LEMMA QueueInvInit == Init => QueueInv /\ Queue = <<>>
<1> SUFFICES ASSUME Init PROVE QueueInv /\ Queue = <<>>
  OBVIOUS
<1>1. TypeOK
  BY TypeInit
<1>2. LockOwned
  BY KernelCCBAssumption DEF Init, LockOwned, Holding, AllThreads
<1>3. ListOwned
  BY DEF Init, ListOwned, Flushing
<1>4. WorkOwned
  BY WorkKinds DEF Init, WorkOwned, Sending
<1>5. MisrFlushes
  BY DEF Init, MisrFlushes, AllThreads
<1>6. Used = 0
  BY <1>1, UsedIs, DistanceIs DEF Init, TypeOK
<1>7. RingIsWindow
  BY <1>1, <1>6, DistanceIs, NoCommandAssumption DEF Init, RingIsWindow, TypeOK
<1>8. QueueInv
  BY <1>1, <1>2, <1>3, <1>4, <1>5, <1>7 DEF QueueInv
<1>9. Queue = <<>>
  <2>1. Ring \in Seq(Commands) /\ Len(Ring) = 0
    BY <1>1, <1>6, <1>7, RingSeq DEF RingIsSeq
  <2>2. Ring = <<>>
    BY <2>1, EmptySeq
  <2>3. Local = <<>> /\ deferred = <<>>
    BY DEF Init, Local
  <2>4. <<>> \o <<>> \o <<>> = <<>>
    BY EmptySeq, ConcatEmptySeq
  <2>5. QED
    BY <2>2, <2>3, <2>4 DEF Queue
<1>10. QED
  BY <1>8, <1>9

\* Every step preserves the inductive invariant.
LEMMA QueueInvStep == QueueInv /\ [Next]_vars => QueueInv'
<1> SUFFICES ASSUME QueueInv, [Next]_vars PROVE QueueInv'
  OBVIOUS
<1>1. TypeOK'
  BY TypeStep
<1>2. LockOwned' /\ ListOwned' /\ WorkOwned' /\ MisrFlushes'
  BY LockStep, ListStep, WorkStep, MisrStep
<1>3. RingIsWindow'
  BY <1>1, QueueStep
<1>4. QED
  BY <1>1, <1>2, <1>3 DEF QueueInv

-----------------------------------------------------------------------------
(* The theorems.                                                           *)

\* The driver's lists, the ring, its offsets and return slots and all locals
\* keep their types, the power lock has one owner, only that owner has a local
\* list, and the ring holds commands between its offsets and nowhere else.
THEOREM QueueInvariant == Spec => []QueueInv
<1>1. Init => QueueInv
  BY QueueInvInit
<1>2. QueueInv /\ [Next]_vars => QueueInv'
  BY QueueInvStep
<1>3. QED
  BY <1>1, <1>2, PTL DEF Spec

\* Every variable of the kernel CCB keeps its type.
THEOREM TypeCorrect == Spec => []TypeOK
<1>1. QueueInv => TypeOK
  BY DEF QueueInv
<1>2. QED
  BY <1>1, QueueInvariant, PTL

\* Whatever is deferred, moved to a local list, put back or refused, the kernel
\* CCB is the FIFO that the driver promises: each command accepted is executed
\* exactly once and in the order of acceptance.
THEOREM KernelCCBIsFifo == Spec => FifoSpec
<1>1. Init => Fifo!Init
  BY QueueInvInit DEF Fifo!Init, Queue
<1>2. QueueInv /\ QueueInv' /\ [Next]_vars => [Fifo!Next]_(Ring \o Local \o deferred)
  <2> SUFFICES ASSUME QueueInv, QueueInv', [Next]_vars
               PROVE  [Fifo!Next]_(Ring \o Local \o deferred)
    OBVIOUS
  <2>1. \/ Queue' = Queue
        \/ \E c \in Commands : Queue' = Append(Queue, c)
        \/ Queue # <<>> /\ Queue' = Tail(Queue)
    BY QueueStep DEF QueueInv
  <2>2. QED
    BY <2>1 DEF Queue, Fifo!Next, Fifo!Accept, Fifo!Execute
<1>3. QED
  BY <1>1, <1>2, QueueInvariant, PTL DEF Spec, FifoSpec, Fifo!Spec

-----------------------------------------------------------------------------
(* Return slots and invalidations, on top of QueueInv.                     *)

\* The commands in a list: is there an invalidation among them, what page
\* tables do they need, and does anybody wait for them?
HasInvalidation(q) == \E i \in 1..Len(q) : q[i].kind = "MMUCACHE"
NeedsBelow(q, n)   == \A i \in 1..Len(q) : q[i].needs <= n
Unowned(q)         == \A i \in 1..Len(q) : q[i].owner = NoThread

\* A kick needs at most n page table changes, or an invalidation goes before.
KicksOrdered(q, n) ==
    \A i \in 1..Len(q) :
        q[i].kind = "KICK" =>
            q[i].needs <= n \/ \E j \in 1..(i - 1) : q[j].kind = "MMUCACHE"

\* Where the commands are that a thread waits, or has waited, for.
OwnedBy(t) == {o \in Offsets : ccb[o] \in Commands /\ ccb[o].owner = t}

\* The slot of a thread is answered only after every command of the thread has
\* left the ring, those of earlier calls that timed out included.
SlotOwned(t) ==
    slot[t] # NoValue =>
        \/ OwnedBy(t) = {}
        \/ /\ rtnSlots[slot[t]] = "NO_RESPONSE"
           /\ Distance(slot[t]) < Used
           /\ \A o \in OwnedBy(t) : Distance(o) <= Distance(slot[t])

\* Together with QueueInv inductive: nobody waits for a command that is not in
\* the ring.
SlotInv ==
    /\ Unowned(deferred)
    /\ \A t \in AllThreads : Unowned(sCommandList[t])
    /\ \A t \in AllThreads : pc[t] = "wait" => slot[t] # NoValue
    /\ \A t \in Threads : SlotOwned(t)

-----------------------------------------------------------------------------
(* Return slots.                                                           *)

\* What the list operations do to unowned commands.
LEMMA UnownedConcat ==
    ASSUME NEW a \in Seq(Commands), NEW b \in Seq(Commands), Unowned(a), Unowned(b)
    PROVE  Unowned(a \o b)
<1>1. Len(a) \in Nat /\ Len(b) \in Nat
  BY LenProperties
<1>2. /\ Len(a \o b) = Len(a) + Len(b)
      /\ \A i \in 1..Len(a) + Len(b) :
            (a \o b)[i] = IF i <= Len(a) THEN a[i] ELSE b[i - Len(a)]
  BY ConcatProperties
<1>3. QED
  BY <1>1, <1>2 DEF Unowned

\* A list to which a command nobody waits for is appended stays unowned.
LEMMA UnownedAppend ==
    ASSUME NEW a \in Seq(Commands), Unowned(a), NEW c \in Commands, c.owner = NoThread
    PROVE  Unowned(Append(a, c))
<1>1. Len(a) \in Nat
  BY LenProperties
<1>2. /\ Len(Append(a, c)) = Len(a) + 1 /\ Append(a, c)[Len(a) + 1] = c
      /\ \A i \in 1..Len(a) : Append(a, c)[i] = a[i]
  BY AppendProperties
<1>3. QED
  BY <1>1, <1>2 DEF Unowned

\* A list stays unowned when its first command is taken.
LEMMA UnownedTail ==
    ASSUME NEW a \in Seq(Commands), Unowned(a), a # <<>>
    PROVE  Unowned(Tail(a)) /\ Head(a).owner = NoThread
<1>1. /\ Len(Tail(a)) = Len(a) - 1
      /\ \A i \in 1..Len(Tail(a)) : Tail(a)[i] = a[i + 1]
  BY HeadTailProperties
<1>2. Len(a) \in Nat \ {0} /\ Head(a) = a[1]
  BY EmptySeq
<1>3. QED
  BY <1>1, <1>2 DEF Unowned

\* Who waits for a command about to be sent.
LEMMA CommandOwner ==
    ASSUME NEW t
    PROVE  CommandOf(t).owner = IF Head(todo[t]) # "MMUCACHE" /\ Polls(t)
                                THEN t ELSE NoThread
BY DEF CommandOf, Kick, MmuCache

\* Neither the ring nor the slots of this thread change.
LEMMA SlotKept ==
    ASSUME NEW t, SlotOwned(t), UNCHANGED ringVars,
           slot'[t] = slot[t] \/ slot'[t] = NoValue
    PROVE  SlotOwned(t)'
BY DEF SlotOwned, OwnedBy, Distance, Used, ringVars

\* A command enters the ring, with its slot reset if somebody waits for it.
LEMMA SlotEnqueued ==
    ASSUME QueueInv, QueueInv', NEW c \in Commands, ~Full, Enqueue(c),
           NEW t \in Threads, SlotOwned(t),
           \/ c.owner # t /\ slot'[t] = slot[t]
           \/ slot'[t] = ui32WriteOffset /\ rtnSlots'[ui32WriteOffset] = "NO_RESPONSE",
           \A o \in Offsets : rtnSlots'[o] = rtnSlots[o] \/ rtnSlots'[o] = "NO_RESPONSE"
    PROVE  SlotOwned(t)'
<1>0. PICK w : w = ui32WriteOffset
  OBVIOUS
<1>1. /\ Used' = Used + 1 /\ Used = Distance(w)
      /\ \A o \in Offsets : Distance(o)' = Distance(o)
  BY <1>0, RingEnqueued DEF QueueInv
<1>2. /\ w \in Offsets /\ ui32ReadOffset \in Offsets
      /\ ccb' = [ccb EXCEPT ![w] = c] /\ ccb \in [Offsets -> Commands \cup {NoCommand}]
      /\ slot[t] \in Offsets \cup {NoValue}
  <2>1. slot[t] \in Offsets \cup {NoValue}
    BY DEF QueueInv, TypeOK, AllThreads
  <2>2. ccb' = [ccb EXCEPT ![w] = c] /\ ccb \in [Offsets -> Commands \cup {NoCommand}]
    BY <1>0 DEF QueueInv, TypeOK, Enqueue, Set
  <2>3. ui32WriteOffset \in Offsets /\ ui32ReadOffset \in Offsets
    BY DEF QueueInv, TypeOK
  <2>4. QED
    BY <1>0, <2>1, <2>2, <2>3
<1>3. Used \in 0..(RingSize - 1) /\ RingSize \in Nat
  BY <1>0, <1>2, UsedIs, KernelCCBAssumption
<1>4. \A o \in Offsets : Distance(o) \in Nat
  BY <1>2, <1>3, DistanceIs
<1>5. \A o \in Offsets : ccb[o] \in Commands => Distance(o) < Used
  BY DEF QueueInv, RingIsWindow
<1>6. CASE c.owner # t /\ slot'[t] = slot[t]
  <2>1. OwnedBy(t)' \subseteq OwnedBy(t)
    BY <1>2, <1>6 DEF OwnedBy
  <2>2. QED
    BY <1>1, <1>2, <1>3, <1>4, <1>6, <2>1 DEF SlotOwned, OwnedBy
<1>7. CASE slot'[t] = w /\ rtnSlots'[w] = "NO_RESPONSE"
  <2>0. Distance(w)' = Distance(w)
    BY <1>1, <1>2
  <2>1. \A o \in OwnedBy(t)' : o \in Offsets /\ (o = w \/ ccb[o] \in Commands)
    BY <1>2 DEF OwnedBy
  <2>2. ASSUME NEW o \in OwnedBy(t)' PROVE Distance(o) <= Distance(w)
    <3>1. o = w \/ Distance(o) < Distance(w)
      BY <1>1, <1>5, <2>1
    <3>2. Distance(o) \in Nat /\ Distance(w) \in Nat
      BY <1>2, <1>4, <2>1
    <3>3. QED
      BY <3>1, <3>2
  <2>3. \A o \in OwnedBy(t)' : Distance(o)' <= Distance(w)'
    BY <1>1, <2>0, <2>1, <2>2
  <2>4. Distance(w)' < Used'
    BY <1>1, <1>3, <2>0
  <2>5. QED
    BY <1>7, <2>3, <2>4 DEF SlotOwned
<1>8. QED
  BY <1>0, <1>6, <1>7

\* The command at the read offset leaves the ring and is answered: if it is the
\* one the thread waits for, every other command of the thread was before it.
LEMMA SlotExecuted ==
    ASSUME QueueInv, QueueInv', FwExecute, NEW t \in Threads, SlotOwned(t)
    PROVE  SlotOwned(t)'
<1> DEFINE r == ui32ReadOffset
<1>1. /\ Used' = Used - 1
      /\ \A o \in Offsets : Distance(o)' = IF o = r THEN RingSize - 1 ELSE Distance(o) - 1
  BY RingExecuted DEF QueueInv
<1>2. /\ r \in Offsets /\ ui32WriteOffset \in Offsets
      /\ ccb' = [ccb EXCEPT ![r] = NoCommand]
      /\ ccb \in [Offsets -> Commands \cup {NoCommand}]
      /\ rtnSlots' = [rtnSlots EXCEPT ![r] = "EXECUTED"]
      /\ rtnSlots \in [Offsets -> {"NO_RESPONSE", "EXECUTED"}]
      /\ slot' = slot /\ slot[t] \in Offsets \cup {NoValue}
  BY DEF QueueInv, TypeOK, FwExecute, Set, AllThreads
<1>3. /\ Used \in 0..(RingSize - 1) /\ RingSize \in Nat /\ Distance(r) = 0
      /\ \A o \in Offsets : Distance(o) \in Nat
      /\ \A o \in Offsets : Distance(o) = 0 => o = r
  BY <1>2, UsedIs, DistanceIs, KernelCCBAssumption
<1>4. OwnedBy(t)' = OwnedBy(t) \ {r}
  BY <1>2, NoCommandAssumption DEF OwnedBy
<1>5. CASE slot[t] = NoValue \/ OwnedBy(t) = {}
  BY <1>2, <1>4, <1>5 DEF SlotOwned
<1>6. CASE slot[t] # NoValue /\ OwnedBy(t) # {}
  <2>0. PICK s : s = slot[t]
    OBVIOUS
  <2>1. /\ s \in Offsets
        /\ rtnSlots[s] = "NO_RESPONSE" /\ Distance(s) < Used
        /\ \A o \in OwnedBy(t) : o \in Offsets /\ Distance(o) <= Distance(s)
    BY <1>2, <1>6, <2>0 DEF SlotOwned, OwnedBy
  <2>2. CASE s = r
    <3>1. \A o \in OwnedBy(t) : o = r
      BY <1>3, <2>1, <2>2
    <3>2. OwnedBy(t)' = {}
      BY <1>4, <3>1
    <3>3. QED
      BY <3>2 DEF SlotOwned
  <2>3. CASE s # r
    <3>1. rtnSlots'[s] = "NO_RESPONSE"
      BY <1>2, <2>1, <2>3
    <3>2. Distance(s)' = Distance(s) - 1
      BY <1>1, <2>1, <2>3
    <3>3. Distance(s)' < Used'
      BY <1>1, <1>3, <2>1, <3>2
    <3>4. ASSUME NEW o \in OwnedBy(t)' PROVE Distance(o)' <= Distance(s)'
      <4>1. o \in OwnedBy(t) /\ o # r /\ o \in Offsets
        BY <1>4, <2>1
      <4>2. Distance(o)' = Distance(o) - 1 /\ Distance(o) <= Distance(s)
        BY <1>1, <2>1, <4>1
      <4>3. QED
        BY <1>3, <2>1, <3>2, <4>1, <4>2
    <3>5. QED
      BY <1>2, <2>0, <3>1, <3>3, <3>4 DEF SlotOwned
  <2>4. QED
    BY <2>2, <2>3
<1>7. QED
  BY <1>5, <1>6

\* Nobody waits in the initial states.
LEMMA SlotInit == Init => SlotInv
<1> SUFFICES ASSUME Init PROVE SlotInv
  OBVIOUS
<1>1. Unowned(deferred) /\ \A t \in AllThreads : Unowned(sCommandList[t])
  BY EmptySeq DEF Init, Unowned
<1>2. \A t \in AllThreads : pc[t] # "wait" /\ slot[t] = NoValue
  BY DEF Init
<1>3. \A t \in Threads : SlotOwned(t)
  BY <1>2 DEF SlotOwned, AllThreads
<1>4. QED
  BY <1>1, <1>2, <1>3 DEF SlotInv

\* A thread waits, after it has dropped the power lock, for a slot only.
LEMMA WaitsForSlot ==
    ASSUME QueueInv, SlotInv, [Next]_vars
    PROVE  \A t \in AllThreads : pc'[t] = "wait" => slot'[t] # NoValue
<1> USE DEF vars, ringVars, listVars, flagVars, gpuVars, callVars
<1>0. /\ pc \in [AllThreads -> Locations] /\ slot \in [AllThreads -> Offsets \cup {NoValue}]
      /\ \A t \in AllThreads : pc[t] = "wait" => slot[t] # NoValue
  BY DEF QueueInv, TypeOK, SlotInv
<1>1. ASSUME NEW t \in AllThreads, NEW l, Goto(t, l), l # "wait" \/ slot[t] # NoValue,
             \A u \in AllThreads : u # t => slot'[u] = slot[u],
             slot'[t] = slot[t] \/ l # "wait"
      PROVE  \A u \in AllThreads : pc'[u] = "wait" => slot'[u] # NoValue
  BY <1>0, <1>1 DEF Goto, Set
<1>2. ASSUME NEW t \in Threads, NEW o \in EntryPoints, Enter(t, o)
      PROVE  \A u \in AllThreads : pc'[u] = "wait" => slot'[u] # NoValue
  BY <1>1, <1>2 DEF Enter, AllThreads
<1>3. ASSUME MisrStart
      PROVE  \A u \in AllThreads : pc'[u] = "wait" => slot'[u] # NoValue
  BY <1>1, <1>3 DEF MisrStart, AllThreads
<1>4. ASSUME ChangePageTables \/ FwExecute
      PROVE  \A u \in AllThreads : pc'[u] = "wait" => slot'[u] # NoValue
  BY <1>0, <1>4 DEF ChangePageTables, FwExecute
<1>5. ASSUME NEW t \in AllThreads,
             \/ PowerLock(t) \/ Prepare(t) \/ NothingPending(t) \/ PowerUpFailed(t)
             \/ TakeDeferred(t) \/ PutBack(t) \/ RawFull(t) \/ Abandon(t)
      PROVE  \A u \in AllThreads : pc'[u] = "wait" => slot'[u] # NoValue
  <2>1. PICK l : Goto(t, l) /\ l # "wait"
    BY <1>5 DEF PowerLock, Prepare, NothingPending, PowerUpFailed, TakeDeferred,
                AfterTake, Flushed, PutBack, RawFull, Abandon
  <2>2. slot' = slot
    BY <1>5 DEF PowerLock, Prepare, NothingPending, PowerUpFailed, TakeDeferred,
                PutBack, RawFull, Abandon
  <2>3. QED
    BY <1>1, <2>1, <2>2
<1>6. ASSUME NEW t \in AllThreads,
             FlushOne(t) \/ FlushBlocked(t) \/ PollRoom(t) \/ PollTimedOut(t)
      PROVE  \A u \in AllThreads : pc'[u] = "wait" => slot'[u] # NoValue
  <2>1. PICK l : Goto(t, l) /\ l # "wait"
    BY <1>6 DEF FlushOne, Flushed, FlushBlocked, PollRoom, PollTimedOut
  <2>2. slot' = slot
    BY <1>6 DEF FlushOne, FlushBlocked, PollRoom, PollTimedOut
  <2>3. QED
    BY <1>1, <2>1, <2>2
<1>7. ASSUME NEW t \in AllThreads, SendRaw(t) \/ Defer(t)
      PROVE  \A u \in AllThreads : pc'[u] = "wait" => slot'[u] # NoValue
  <2>1. PICK l : Goto(t, l) /\ l # "wait"
    BY <1>7 DEF SendRaw, Defer, Accepted
  <2>2. \A u \in AllThreads : u # t => slot'[u] = slot[u]
    BY <1>0, <1>7 DEF SendRaw, Defer, Set
  <2>3. QED
    BY <1>1, <2>1, <2>2
<1>8. ASSUME NEW t \in AllThreads, PowerUnlock(t) \/ WaitDone(t)
      PROVE  \A u \in AllThreads : pc'[u] = "wait" => slot'[u] # NoValue
  <2>1. \/ Goto(t, "idle") /\ slot' = [slot EXCEPT ![t] = NoValue]
        \/ Goto(t, "wait") /\ slot' = slot /\ slot[t] # NoValue
    BY <1>8 DEF PowerUnlock, WaitDone, Return, Set
  <2>2. CASE Goto(t, "idle") /\ slot' = [slot EXCEPT ![t] = NoValue]
    <3>1. \A u \in AllThreads : u # t => slot'[u] = slot[u]
      BY <1>0, <2>2
    <3>2. QED
      BY <1>1, <2>2, <3>1
  <2>3. CASE Goto(t, "wait") /\ slot' = slot /\ slot[t] # NoValue
    BY <1>1, <2>3
  <2>4. QED
    BY <2>1, <2>2, <2>3
<1>9. CASE UNCHANGED vars
  BY <1>0, <1>9
<1>10. QED
  BY <1>2, <1>3, <1>4, <1>5, <1>6, <1>7, <1>8, <1>9 DEF Next, Step

\* Commands that somebody waits for are never deferred.
LEMMA ListsStayUnowned ==
    ASSUME QueueInv, SlotInv, [Next]_vars
    PROVE  Unowned(deferred') /\ \A t \in AllThreads : Unowned(sCommandList'[t])
<1> USE DEF vars, ringVars, listVars, flagVars, gpuVars, callVars
<1>0. /\ deferred \in Seq(Commands) /\ sCommandList \in [AllThreads -> Seq(Commands)]
      /\ Unowned(deferred) /\ \A t \in AllThreads : Unowned(sCommandList[t])
      /\ Unowned(<<>>)
  BY EmptySeq DEF QueueInv, TypeOK, SlotInv, Unowned
<1>1. ASSUME NEW t \in AllThreads, TakeDeferred(t)
      PROVE  Unowned(deferred') /\ \A u \in AllThreads : Unowned(sCommandList'[u])
  <2>1. deferred' = <<>> /\ sCommandList' = [sCommandList EXCEPT ![t] = deferred]
    BY <1>1 DEF TakeDeferred, Set
  <2>2. QED
    BY <1>0, <2>1
<1>2. ASSUME NEW t \in AllThreads, PutBack(t)
      PROVE  Unowned(deferred') /\ \A u \in AllThreads : Unowned(sCommandList'[u])
  <2>1. /\ deferred' = sCommandList[t] \o deferred
        /\ sCommandList' = [sCommandList EXCEPT ![t] = <<>>]
    BY <1>2 DEF PutBack, Set
  <2>2. Unowned(sCommandList[t] \o deferred)
    BY <1>0, UnownedConcat
  <2>3. QED
    BY <1>0, <2>1, <2>2
<1>3. ASSUME NEW t \in AllThreads, FlushOne(t)
      PROVE  Unowned(deferred') /\ \A u \in AllThreads : Unowned(sCommandList'[u])
  <2>1. /\ deferred' = deferred /\ sCommandList[t] # <<>>
        /\ sCommandList' = [sCommandList EXCEPT ![t] = Tail(sCommandList[t])]
    BY <1>3 DEF FlushOne, Set, QueueInv, ListOwned
  <2>2. Unowned(Tail(sCommandList[t]))
    BY <1>0, <2>1, UnownedTail
  <2>3. QED
    BY <1>0, <2>1, <2>2
<1>4. ASSUME NEW t \in AllThreads, Defer(t)
      PROVE  Unowned(deferred') /\ \A u \in AllThreads : Unowned(sCommandList'[u])
  <2>1. deferred' = Append(deferred, CommandOf(t)) /\ sCommandList' = sCommandList
        /\ ~Polls(t) /\ todo[t] # <<>>
    BY <1>4 DEF Defer, QueueInv, WorkOwned, Sending
  <2>2. CommandOf(t) \in Commands /\ CommandOf(t).owner = NoThread
    BY <2>1, CommandOfType, CommandOwner DEF QueueInv
  <2>3. QED
    BY <1>0, <2>1, <2>2, UnownedAppend
<1>5. ASSUME deferred' = deferred /\ sCommandList' = sCommandList
      PROVE  Unowned(deferred') /\ \A u \in AllThreads : Unowned(sCommandList'[u])
  BY <1>0, <1>5
<1>6. QED
  BY <1>1, <1>2, <1>3, <1>4, <1>5
     DEF Next, Step, Enter, MisrStart, ChangePageTables, FwExecute, PowerLock, Prepare,
         NothingPending, PowerUpFailed, FlushBlocked, PollRoom, PollTimedOut, SendRaw,
         RawFull, Abandon, PowerUnlock, WaitDone

\* Every step keeps the answers of the slots with the commands they are for.
LEMMA SlotStep ==
    ASSUME QueueInv, QueueInv', SlotInv, [Next]_vars, NEW t \in Threads
    PROVE  SlotOwned(t)'
<1> USE DEF vars, ringVars, listVars, flagVars, gpuVars, callVars
<1>0. /\ slot \in [AllThreads -> Offsets \cup {NoValue}] /\ SlotOwned(t)
      /\ rtnSlots \in [Offsets -> {"NO_RESPONSE", "EXECUTED"}]
      /\ ui32WriteOffset \in Offsets
      /\ t \in AllThreads /\ t # NoThread
  BY KernelCCBAssumption DEF QueueInv, TypeOK, SlotInv, AllThreads
<1>1. CASE FwExecute
  BY <1>0, <1>1, SlotExecuted
<1>2. ASSUME NEW u \in AllThreads, FlushOne(u) PROVE SlotOwned(t)'
  <2> DEFINE c == Head(sCommandList[u])
  <2>1. sCommandList[u] \in Seq(Commands) /\ sCommandList[u] # <<>> /\ Unowned(sCommandList[u])
    BY <1>2 DEF FlushOne, QueueInv, TypeOK, ListOwned, SlotInv
  <2>2. c \in Commands /\ c.owner # t
    BY <1>0, <2>1, UnownedTail, HeadTailProperties
  <2>3. ~Full /\ Enqueue(c) /\ rtnSlots' = rtnSlots /\ slot' = slot
    BY <1>2 DEF FlushOne
  <2> HIDE DEF c
  <2>4. QED
    BY <1>0, <2>2, <2>3, SlotEnqueued
<1>3. ASSUME NEW u \in AllThreads, SendRaw(u) PROVE SlotOwned(t)'
  <2>1. CommandOf(u) \in Commands
    BY <1>3, CommandOfType DEF SendRaw, QueueInv, WorkOwned, Sending
  <2>2. ~Full /\ Enqueue(CommandOf(u))
    BY <1>3 DEF SendRaw
  <2>3. CASE u = t /\ Polls(u)
    <3>1. /\ rtnSlots' = [rtnSlots EXCEPT ![ui32WriteOffset] = "NO_RESPONSE"]
          /\ slot' = [slot EXCEPT ![t] = ui32WriteOffset]
      BY <1>3, <2>3 DEF SendRaw, ResetSlot, Set
    <3>2. QED
      BY <1>0, <2>1, <2>2, <3>1, SlotEnqueued
  <2>4. CASE ~(u = t /\ Polls(u))
    <3>1. CommandOf(u).owner # t
      BY <1>0, <2>4, CommandOwner
    <3>2. slot'[t] = slot[t]
      BY <1>0, <1>3, <2>4 DEF SendRaw, Set
    <3>3. \A o \in Offsets : rtnSlots'[o] = rtnSlots[o] \/ rtnSlots'[o] = "NO_RESPONSE"
      BY <1>0, <1>3 DEF SendRaw, ResetSlot, Set
    <3>4. QED
      BY <1>0, <2>1, <2>2, <3>1, <3>2, <3>3, SlotEnqueued
  <2>5. QED
    BY <2>3, <2>4
<1>4. ASSUME UNCHANGED ringVars, slot' = slot PROVE SlotOwned(t)'
  BY <1>0, <1>4, SlotKept
<1>5. ASSUME NEW u \in AllThreads, PowerUnlock(u) \/ WaitDone(u) PROVE SlotOwned(t)'
  <2>1. slot' = slot \/ slot' = [slot EXCEPT ![u] = NoValue]
    BY <1>5 DEF PowerUnlock, WaitDone, Return, Set
  <2>2. UNCHANGED ringVars
    BY <1>5 DEF PowerUnlock, WaitDone
  <2>3. slot'[t] = slot[t] \/ slot'[t] = NoValue
    BY <1>0, <2>1
  <2>4. QED
    BY <1>0, <2>2, <2>3, SlotKept
<1>6. QED
  BY <1>1, <1>2, <1>3, <1>4, <1>5
     DEF Next, Step, Enter, MisrStart, ChangePageTables, PowerLock, Prepare,
         NothingPending, PowerUpFailed, TakeDeferred, PutBack, FlushBlocked, PollRoom,
         PollTimedOut, RawFull, Defer, Abandon

\* A thread that finds its return slot answered has had its own command executed,
\* although the slots are reused, calls time out and threads overtake each other.
THEOREM SlotAnswers == Spec => []SlotAnswerIsOwn
<1>1. Init => SlotInv
  BY SlotInit
<1>2. QueueInv /\ QueueInv' /\ SlotInv /\ [Next]_vars => SlotInv'
  <2> SUFFICES ASSUME QueueInv, QueueInv', SlotInv, [Next]_vars PROVE SlotInv'
    OBVIOUS
  <2>1. Unowned(deferred') /\ \A t \in AllThreads : Unowned(sCommandList'[t])
    BY ListsStayUnowned
  <2>2. \A t \in AllThreads : pc'[t] = "wait" => slot'[t] # NoValue
    BY WaitsForSlot
  <2>3. \A t \in Threads : SlotOwned(t)'
    BY SlotStep
  <2>4. QED
    BY <2>1, <2>2, <2>3 DEF SlotInv
<1>3. QueueInv /\ SlotInv => SlotAnswerIsOwn
  <2> SUFFICES ASSUME QueueInv, SlotInv, NEW t \in Threads, pc[t] = "wait",
                      rtnSlots[slot[t]] = "EXECUTED",
                      NEW i \in Offsets, ccb[i] # NoCommand
               PROVE  ccb[i].owner # t
    BY DEF SlotAnswerIsOwn
  <2>1. OwnedBy(t) = {}
    BY DEF SlotInv, SlotOwned, AllThreads
  <2>2. ccb[i] \in Commands
    BY DEF QueueInv, TypeOK
  <2>3. QED
    BY <2>1, <2>2 DEF OwnedBy
<1>4. QED
  BY <1>1, <1>2, <1>3, QueueInvariant, PTL DEF Spec

-----------------------------------------------------------------------------
(* Invalidations in front of the work that needs them.                     *)

\* An invalidation is among the work that a thread is about to send.
Promised == \E t \in AllThreads : todo[t] \in CacheWorks

\* Together with QueueInv inductive while allocations succeed: an invalidation
\* that the GPU still needs is pending, about to be sent or in the queue, and it
\* goes before the kicks that need it.
KickInv ==
    /\ tlb <= pageTables
    /\ \A t \in AllThreads : needs[t] <= pageTables
    /\ NeedsBelow(Queue, pageTables)
    /\ KicksOrdered(Queue, tlb)
    /\ tlb = pageTables \/ sCacheFlags \/ HasInvalidation(Queue) \/ Promised
    /\ \A t \in AllThreads :
          todo[t] = KickWork => needs[t] <= tlb \/ HasInvalidation(Queue)

\* What a command appended does to a list.
LEMMA ListAppended ==
    ASSUME NEW q \in Seq(Commands), NEW c \in Commands, NEW n \in Nat, NEW m \in Nat,
           NeedsBelow(q, m), c.needs <= m,
           KicksOrdered(q, n),
           c.kind = "KICK" => c.needs <= n \/ HasInvalidation(q)
    PROVE  /\ NeedsBelow(Append(q, c), m) /\ KicksOrdered(Append(q, c), n)
           /\ HasInvalidation(q) \/ c.kind = "MMUCACHE" => HasInvalidation(Append(q, c))
<1>1. Len(q) \in Nat
  BY LenProperties
<1> DEFINE p == Append(q, c)
<1>2. /\ Len(p) = Len(q) + 1 /\ p[Len(q) + 1] = c
      /\ \A i \in 1..Len(q) : p[i] = q[i]
  BY AppendProperties
<1> HIDE DEF p
<1>3. NeedsBelow(p, m)
  BY <1>1, <1>2 DEF NeedsBelow
<1>4. KicksOrdered(p, n)
  <2> SUFFICES ASSUME NEW i \in 1..Len(p), p[i].kind = "KICK"
               PROVE  p[i].needs <= n \/ \E j \in 1..(i - 1) : p[j].kind = "MMUCACHE"
    BY DEF KicksOrdered
  <2>1. CASE i \in 1..Len(q)
    <3>1. q[i].needs <= n \/ \E j \in 1..(i - 1) : q[j].kind = "MMUCACHE"
      BY <1>2, <2>1 DEF KicksOrdered
    <3>2. \A j \in 1..(i - 1) : p[j] = q[j]
      BY <1>1, <1>2, <2>1
    <3>3. QED
      BY <1>2, <2>1, <3>1, <3>2
  <2>2. CASE i = Len(q) + 1
    <3>1. c.needs <= n \/ \E j \in 1..Len(q) : q[j].kind = "MMUCACHE"
      BY <1>2, <2>2 DEF HasInvalidation
    <3>2. i - 1 = Len(q)
      BY <1>1, <2>2
    <3>3. QED
      BY <1>2, <2>2, <3>1, <3>2
  <2>3. QED
    BY <1>1, <1>2, <2>1, <2>2
<1>5. ASSUME HasInvalidation(q) \/ c.kind = "MMUCACHE" PROVE HasInvalidation(p)
  BY <1>1, <1>2, <1>5 DEF HasInvalidation
<1>6. QED
  BY <1>3, <1>4, <1>5 DEF p

\* What taking the head does to a list: an invalidation at the head serves all.
LEMMA ListExecuted ==
    ASSUME NEW q \in Seq(Commands), q # <<>>, NEW n \in Nat, NEW m \in Nat,
           NeedsBelow(q, m), KicksOrdered(q, n)
    PROVE  /\ NeedsBelow(Tail(q), m) /\ KicksOrdered(Tail(q), m)
           /\ Head(q).kind # "MMUCACHE" => KicksOrdered(Tail(q), n)
           /\ Head(q).kind # "MMUCACHE" /\ HasInvalidation(q) => HasInvalidation(Tail(q))
           /\ Head(q).kind = "KICK" => Head(q).needs <= n
<1> DEFINE p == Tail(q)
<1>1. Len(q) \in Nat \ {0} /\ Head(q) = q[1]
  BY EmptySeq
<1>2. Len(p) = Len(q) - 1 /\ \A i \in 1..Len(p) : p[i] = q[i + 1]
  BY HeadTailProperties
<1>3. \A i \in 1..Len(p) : q[i + 1] \in Commands
  BY <1>1, <1>2, ElementOfSeq
<1> HIDE DEF p
<1>4. NeedsBelow(p, m)
  BY <1>1, <1>2 DEF NeedsBelow
<1>5. KicksOrdered(p, m)
  BY <1>4 DEF NeedsBelow, KicksOrdered
<1>6. ASSUME q[1].kind # "MMUCACHE" PROVE KicksOrdered(p, n)
  <2> SUFFICES ASSUME NEW i \in 1..Len(p), p[i].kind = "KICK", ~(p[i].needs <= n)
               PROVE  \E j \in 1..(i - 1) : p[j].kind = "MMUCACHE"
    BY DEF KicksOrdered
  <2>1. i + 1 \in 1..Len(q) /\ p[i] = q[i + 1] /\ i \in Nat
    BY <1>1, <1>2
  <2>2. PICK j \in 1..(i + 1 - 1) : q[j].kind = "MMUCACHE"
    BY <2>1 DEF KicksOrdered
  <2>3. j # 1
    BY <1>6, <2>2
  <2>4. j - 1 \in 1..(i - 1) /\ j - 1 \in 1..Len(p) /\ j - 1 + 1 = j
    BY <1>1, <1>2, <2>1, <2>2, <2>3
  <2>5. p[j - 1].kind = "MMUCACHE"
    BY <1>2, <2>2, <2>4
  <2>6. QED
    BY <2>4, <2>5
<1>7. ASSUME q[1].kind # "MMUCACHE", HasInvalidation(q) PROVE HasInvalidation(p)
  <2>1. PICK j \in 1..Len(q) : q[j].kind = "MMUCACHE"
    BY <1>7 DEF HasInvalidation
  <2>2. j # 1
    BY <1>7, <2>1
  <2>3. j - 1 \in 1..Len(p) /\ j - 1 + 1 = j
    BY <1>1, <1>2, <2>1, <2>2
  <2>4. p[j - 1].kind = "MMUCACHE"
    BY <1>2, <2>1, <2>3
  <2>5. QED
    BY <2>3, <2>4 DEF HasInvalidation
<1>8. ASSUME q[1].kind = "KICK" PROVE q[1].needs <= n
  BY <1>1, <1>8 DEF KicksOrdered
<1>9. QED
  BY <1>1, <1>4, <1>5, <1>6, <1>7, <1>8 DEF p

\* What a command about to be sent is.
LEMMA CommandKind ==
    ASSUME NEW t
    PROVE  /\ Head(todo[t]) = "MMUCACHE" =>
                 CommandOf(t).kind = "MMUCACHE" /\ CommandOf(t).needs = 0
           /\ Head(todo[t]) # "MMUCACHE" =>
                 CommandOf(t).kind = "KICK" /\ CommandOf(t).needs = needs[t]
BY DEF CommandOf, Kick, MmuCache

\* Nothing is queued or promised in the initial states.
LEMMA KickInit == Init => KickInv
<1> SUFFICES ASSUME Init PROVE KickInv
  OBVIOUS
<1>1. Queue = <<>> /\ Len(<<>>) = 0
  BY QueueInvInit, EmptySeq
<1>2. NeedsBelow(Queue, pageTables) /\ KicksOrdered(Queue, tlb)
  BY <1>1 DEF NeedsBelow, KicksOrdered
<1>3. tlb = 0 /\ pageTables = 0 /\ \A t \in AllThreads : needs[t] = 0 /\ todo[t] = <<>>
  BY DEF Init
<1>4. QED
  BY <1>2, <1>3, WorksDiffer DEF KickInv

\* Steps that leave alone all that the invariant speaks of, or only let a thread
\* forget what its kick needed.
LEMMA KickKept ==
    ASSUME QueueInv, KickInv, Queue' = Queue,
           UNCHANGED <<tlb, pageTables, sCacheFlags, todo>>,
           needs' = needs \/ \E t \in AllThreads : needs' = [needs EXCEPT ![t] = 0]
    PROVE  KickInv'
<1>1. /\ needs \in [AllThreads -> 0..MaxChanges] /\ pageTables \in Nat /\ tlb \in Nat
      /\ MaxChanges \in Nat
  BY KernelCCBAssumption DEF QueueInv, TypeOK
<1>2. \A t \in AllThreads : needs'[t] <= needs[t] /\ needs'[t] \in Nat /\ needs[t] \in Nat
  BY <1>1
<1>3. \A t \in AllThreads : needs'[t] <= pageTables
  BY <1>1, <1>2 DEF KickInv
<1>4. \A t \in AllThreads :
          todo[t] = KickWork => needs'[t] <= tlb \/ HasInvalidation(Queue)
  BY <1>1, <1>2 DEF KickInv
<1>5. Promised' <=> Promised
  BY DEF Promised
<1>6. QED
  BY <1>3, <1>4, <1>5 DEF KickInv

\* The work of the thread that prepares is the only one about to be sent.
LEMMA OnlyHolderPromises ==
    ASSUME QueueInv, NEW t \in AllThreads, pc[t] \in Holding,
           NEW u \in AllThreads, u # t
    PROVE  todo[u] = <<>>
BY OthersOutside, FlushingIsHolding DEF QueueInv, WorkOwned

\* Every step keeps each kick behind the invalidation it needs, as long as
\* allocation does not fail.
LEMMA KickStep ==
    ASSUME AllocMayFail = FALSE, QueueInv, QueueInv', KickInv, [Next]_vars
    PROVE  KickInv'
<1> USE DEF vars, ringVars, listVars, flagVars, gpuVars, callVars
<1>0. /\ needs \in [AllThreads -> 0..MaxChanges] /\ MaxChanges \in Nat
      /\ pageTables \in Nat /\ tlb \in Nat /\ sCacheFlags \in BOOLEAN
      /\ todo \in [AllThreads -> Seq({"KICK", "MMUCACHE"})]
      /\ Queue \in Seq(Commands)
  <2>1. MaxChanges \in Nat
    BY KernelCCBAssumption
  <2>2. /\ pageTables \in 0..MaxChanges /\ tlb \in 0..MaxChanges
        /\ needs \in [AllThreads -> 0..MaxChanges] /\ sCacheFlags \in BOOLEAN
        /\ todo \in [AllThreads -> Seq({"KICK", "MMUCACHE"})]
    BY DEF QueueInv, TypeOK
  <2>3. Queue \in Seq(Commands)
    BY QueueParts DEF QueueInv
  <2>4. QED
    BY <2>1, <2>2, <2>3
<1>1. ASSUME NEW t \in Threads, NEW o \in EntryPoints, Enter(t, o) PROVE KickInv'
  <2>1. Queue' = Queue /\ t \in AllThreads /\ todo[t] = <<>>
    BY <1>1, QueueKept DEF Enter, AllThreads, QueueInv, WorkOwned, Sending
  <2>2. /\ needs' = [needs EXCEPT ![t] = pageTables]
        /\ UNCHANGED <<tlb, pageTables, sCacheFlags, todo>>
    BY <1>1 DEF Enter, Set
  <2>3. \A u \in AllThreads : needs'[u] <= pageTables
    BY <1>0, <2>2 DEF KickInv
  <2>4. \A u \in AllThreads :
            todo[u] = KickWork => needs'[u] <= tlb \/ HasInvalidation(Queue)
    BY <1>0, <2>1, <2>2, WorksDiffer DEF KickInv
  <2>5. Promised' <=> Promised
    BY <2>2 DEF Promised
  <2>6. QED
    BY <2>1, <2>2, <2>3, <2>4, <2>5 DEF KickInv
<1>2. CASE ChangePageTables
  <2>1. Queue' = Queue
    BY <1>2, QueueKept DEF ChangePageTables
  <2>2. /\ pageTables' = pageTables + 1 /\ sCacheFlags'
        /\ UNCHANGED <<tlb, needs, todo>>
    BY <1>2 DEF ChangePageTables
  <2>3. \A i \in 1..Len(Queue) : Queue[i].needs \in Nat
    BY <1>0, ElementOfSeq DEF Commands, Kick, MmuCache
  <2>4. NeedsBelow(Queue, pageTables + 1)
    <3>1. NeedsBelow(Queue, pageTables)
      BY DEF KickInv
    <3>2. ASSUME NEW i \in 1..Len(Queue)
          PROVE  Queue[i].needs <= pageTables + 1
      <4>1. PICK x, y : x = Queue[i].needs /\ y = pageTables
        OBVIOUS
      <4>2. x \in Nat /\ y \in Nat /\ x <= y
        BY <1>0, <2>3, <3>1, <4>1 DEF NeedsBelow
      <4>3. x <= y + 1
        BY <4>2
      <4>4. QED
        BY <4>1, <4>3
    <3>3. QED
      BY <3>2 DEF NeedsBelow
  <2>5. \A u \in AllThreads : needs[u] <= pageTables + 1
    BY <1>0 DEF KickInv
  <2>6. tlb <= pageTables + 1
    BY <1>0 DEF KickInv
  <2>7. QED
    BY <2>1, <2>2, <2>4, <2>5, <2>6 DEF KickInv
<1>3. CASE FwExecute
  <2>1. Queue # <<>> /\ Queue' = Tail(Queue) /\ Head(Queue) = ccb[ui32ReadOffset]
    BY <1>3, QueueExecute DEF QueueInv
  <2>2. /\ NeedsBelow(Queue, pageTables) /\ KicksOrdered(Queue, tlb)
        /\ UNCHANGED <<pageTables, sCacheFlags, todo, needs>>
    BY <1>3 DEF FwExecute, KickInv
  <2>3. Promised' <=> Promised
    BY <2>2 DEF Promised
  <2>4. CASE ccb[ui32ReadOffset].kind = "MMUCACHE"
    <3>1. tlb' = pageTables
      BY <1>3, <2>4 DEF FwExecute
    <3>2. NeedsBelow(Tail(Queue), pageTables) /\ KicksOrdered(Tail(Queue), pageTables)
      BY <1>0, <2>1, <2>2, ListExecuted
    <3>3. QED
      BY <1>0, <2>1, <2>2, <3>1, <3>2 DEF KickInv
  <2>5. CASE ccb[ui32ReadOffset].kind # "MMUCACHE"
    <3>1. tlb' = tlb
      BY <1>3, <2>5 DEF FwExecute
    <3>2. /\ NeedsBelow(Tail(Queue), pageTables) /\ KicksOrdered(Tail(Queue), tlb)
          /\ HasInvalidation(Queue) => HasInvalidation(Tail(Queue))
      BY <1>0, <2>1, <2>2, <2>5, ListExecuted
    <3>3. QED
      BY <2>1, <2>2, <2>3, <3>1, <3>2 DEF KickInv
  <2>6. QED
    BY <2>4, <2>5
<1>4. ASSUME NEW t \in AllThreads, Prepare(t) PROVE KickInv'
  <2>1. Queue' = Queue
    BY <1>4, QueueKept DEF Prepare
  <2>2. /\ todo' = [todo EXCEPT ![t] = WorkOf(t)] /\ sCacheFlags' = FALSE
        /\ UNCHANGED <<tlb, pageTables, needs>> /\ pc[t] \in Holding /\ todo[t] = <<>>
        /\ op[t] = "INVALIDATE" => sCacheFlags
    BY <1>4 DEF Prepare, Set, Holding, QueueInv, WorkOwned, Sending
  <2>3. /\ todo'[t] = WorkOf(t)
        /\ \A u \in AllThreads : u # t => todo'[u] = todo[u] /\ todo[u] = <<>>
    BY <1>0, <2>2, OnlyHolderPromises
  <2>4. CASE sCacheFlags
    <3>1. WorkOf(t) \in CacheWorks /\ WorkOf(t) # KickWork
      BY <2>4, WorkOfIs, WorkKinds, WorksDiffer
    <3>2. Promised'
      BY <2>3, <3>1 DEF Promised
    <3>3. \A u \in AllThreads : todo'[u] # KickWork
      BY <2>3, <3>1, WorksDiffer
    <3>4. QED
      BY <2>1, <2>2, <3>2, <3>3 DEF KickInv
  <2>5. CASE ~sCacheFlags
    <3>1. ~Promised
      BY <2>2, <2>3, WorkKinds DEF Promised
    <3>2. tlb = pageTables \/ HasInvalidation(Queue)
      BY <2>5, <3>1 DEF KickInv
    <3>3. \A u \in AllThreads : needs[u] <= tlb \/ HasInvalidation(Queue)
      BY <3>2 DEF KickInv
    <3>4. QED
      BY <2>1, <2>2, <3>2, <3>3 DEF KickInv
  <2>6. QED
    BY <1>0, <2>4, <2>5
<1>5. ASSUME NEW t \in AllThreads, SendRaw(t) \/ Defer(t) PROVE KickInv'
  <2>1. Queue' = Append(Queue, CommandOf(t)) /\ CommandOf(t) \in Commands
    BY <1>5, QueueAccept DEF QueueInv
  <2>2. /\ pc[t] \in Holding /\ pc[t] \in {"raw", "refused"}
        /\ todo' = [todo EXCEPT ![t] = Tail(todo[t])]
        /\ UNCHANGED <<tlb, pageTables, needs, sCacheFlags>>
    BY <1>5 DEF SendRaw, Defer, Accepted, Set, Holding
  <2>3. /\ todo'[t] = Tail(todo[t])
        /\ \A u \in AllThreads : u # t => todo'[u] = todo[u] /\ todo[u] = <<>>
    BY <1>0, <2>2, OnlyHolderPromises
  <2>4. todo[t] = KickWork \/ todo[t] = CacheWork \/ todo[t] = BothWork
    BY <2>2, WorkKinds DEF QueueInv, WorkOwned, Sending
  <2>5. CASE todo[t] = KickWork
    <3>1. /\ CommandOf(t).kind = "KICK" /\ CommandOf(t).needs = needs[t]
          /\ todo'[t] = <<>>
      BY <2>3, <2>5, CommandKind, WorkIs
    <3>2. needs[t] <= tlb \/ HasInvalidation(Queue)
      BY <2>5 DEF KickInv
    <3>3. /\ NeedsBelow(Queue', pageTables) /\ KicksOrdered(Queue', tlb)
          /\ HasInvalidation(Queue) => HasInvalidation(Queue')
      BY <1>0, <2>1, <3>1, <3>2, ListAppended DEF KickInv
    <3>4. ~Promised
      BY <2>3, <2>5, WorkKinds DEF Promised
    <3>5. \A u \in AllThreads : todo'[u] # KickWork
      BY <2>3, <3>1, WorksDiffer
    <3>6. QED
      BY <2>2, <3>3, <3>4, <3>5 DEF KickInv
  <2>6. CASE todo[t] = CacheWork \/ todo[t] = BothWork
    <3>1. CommandOf(t).kind = "MMUCACHE" /\ CommandOf(t).needs = 0
      BY <2>6, CommandKind, WorkIs
    <3>2. /\ NeedsBelow(Queue', pageTables) /\ KicksOrdered(Queue', tlb)
          /\ HasInvalidation(Queue')
      BY <1>0, <2>1, <3>1, ListAppended DEF KickInv
    <3>3. QED
      BY <2>2, <3>2 DEF KickInv
  <2>7. QED
    BY <2>4, <2>5, <2>6
<1>6. ASSUME NEW t \in AllThreads, Abandon(t) PROVE KickInv'
  <2>1. Queue' = Queue
    BY <1>6, QueueKept DEF Abandon
  <2>2. /\ todo' = [todo EXCEPT ![t] = <<>>] /\ Polls(t) /\ pc[t] \in Holding
        /\ UNCHANGED <<tlb, pageTables, needs>>
        /\ sCacheFlags' = (sCacheFlags \/ op[t] = "INVALIDATE")
    BY <1>6 DEF Abandon, Set, Holding
  <2>3. todo[t] = KickWork
    <3>1. todo[t] \in Works /\ Head(todo[t]) = "KICK" /\ todo[t] # <<>>
      BY <2>2 DEF Polls, QueueInv, WorkOwned
    <3>2. QED
      BY <3>1, WorkKinds, WorkIs
  <2>4. /\ todo'[t] = <<>>
        /\ \A u \in AllThreads : u # t => todo'[u] = todo[u] /\ todo[u] = <<>>
    BY <1>0, <2>2, OnlyHolderPromises
  <2>5. ~Promised /\ \A u \in AllThreads : todo'[u] # KickWork
    BY <2>3, <2>4, WorkKinds, WorksDiffer DEF Promised
  <2>6. QED
    BY <2>1, <2>2, <2>5 DEF KickInv
<1>7. ASSUME NEW t \in AllThreads, TakeDeferred(t) \/ PutBack(t) PROVE KickInv'
  <2>1. Queue' = Queue
    BY <1>7, QueueTake
  <2>2. QED
    BY <1>7, <2>1, KickKept DEF TakeDeferred, PutBack
<1>8. ASSUME NEW t \in AllThreads, FlushOne(t) PROVE KickInv'
  <2>1. Queue' = Queue
    BY <1>8, QueueFlush DEF QueueInv
  <2>2. QED
    BY <1>8, <2>1, KickKept DEF FlushOne
<1>9. ASSUME NEW t \in AllThreads, PowerLock(t) \/ PowerUnlock(t) \/ WaitDone(t)
      PROVE  KickInv'
  <2>1. Queue' = Queue
    BY <1>9, QueueKept DEF PowerLock, PowerUnlock, WaitDone
  <2>2. needs' = needs \/ needs' = [needs EXCEPT ![t] = 0]
    BY <1>9 DEF PowerLock, PowerUnlock, WaitDone, Return, Set
  <2>3. UNCHANGED <<tlb, pageTables, sCacheFlags, todo>>
    BY <1>9 DEF PowerLock, PowerUnlock, WaitDone
  <2>4. QED
    BY <2>1, <2>2, <2>3, KickKept
<1>10. ASSUME NEW t \in AllThreads,
              \/ NothingPending(t) \/ PowerUpFailed(t) \/ FlushBlocked(t)
              \/ PollRoom(t) \/ PollTimedOut(t) \/ RawFull(t)
       PROVE  KickInv'
  <2>1. Queue' = Queue
    BY <1>10, QueueKept
       DEF NothingPending, PowerUpFailed, FlushBlocked, PollRoom, PollTimedOut, RawFull
  <2>2. QED
    BY <1>10, <2>1, KickKept
       DEF NothingPending, PowerUpFailed, FlushBlocked, PollRoom, PollTimedOut, RawFull
<1>11. CASE MisrStart \/ UNCHANGED vars
  <2>1. Queue' = Queue
    BY <1>11, QueueKept DEF MisrStart
  <2>2. QED
    BY <1>11, <2>1, KickKept DEF MisrStart
<1>12. QED
  BY <1>1, <1>2, <1>3, <1>4, <1>5, <1>6, <1>7, <1>8, <1>9, <1>10, <1>11
     DEF Next, Step

\* Work never runs on stale translations: as long as no allocation fails, the GPU
\* has seen every change made to the page tables before a kick was scheduled when
\* the firmware reaches the kick, whatever was deferred in between.
THEOREM WorkSeesItsPageTables ==
    ASSUME AllocMayFail = FALSE
    PROVE  Spec => []KickSeesItsPageTables
<1>1. Init => KickInv
  BY KickInit
<1>2. QueueInv /\ QueueInv' /\ KickInv /\ [Next]_vars => KickInv'
  BY KickStep
<1>3. QueueInv /\ KickInv => KickSeesItsPageTables
  <2> SUFFICES ASSUME QueueInv, KickInv, ccb[ui32ReadOffset] # NoCommand,
                      ccb[ui32ReadOffset].kind = "KICK"
               PROVE  ccb[ui32ReadOffset].needs <= tlb
    BY DEF KickSeesItsPageTables
  <2>1. /\ ui32ReadOffset \in Offsets /\ ccb[ui32ReadOffset] \in Commands
        /\ tlb \in Nat /\ pageTables \in Nat
    BY KernelCCBAssumption DEF QueueInv, TypeOK
  <2>2. Used \in Nat /\ 0 < Used
    BY <2>1, DistanceIs, UsedIs DEF QueueInv, RingIsWindow, TypeOK
  <2>3. At(1) = ui32ReadOffset
    BY <2>1, KernelCCBAssumption DEF At, Offsets
  <2>4. Ring \in Seq(Commands) /\ Ring # <<>> /\ Head(Ring) = ccb[ui32ReadOffset]
    <3>1. /\ Ring \in Seq(Commands) /\ Len(Ring) = Used
          /\ Ring[1] = ccb[ui32ReadOffset]
      BY <2>2, <2>3, RingSeq DEF QueueInv, RingIsSeq
    <3>2. Ring # <<>>
      BY <2>2, <3>1, EmptySeq
    <3>3. QED
      BY <3>1, <3>2
  <2>5. Queue \in Seq(Commands) /\ Queue # <<>> /\ Head(Queue) = Head(Ring)
    <3> DEFINE a == Ring \o Local
    <3>1. Ring \in Seq(Commands) /\ Local \in Seq(Commands) /\ deferred \in Seq(Commands)
      BY QueueParts
    <3>2. a # <<>> /\ a \in Seq(Commands) /\ Head(a) = Head(Ring)
      BY <2>4, <3>1, ConcatHead
    <3> HIDE DEF a
    <3>3. a \o deferred # <<>> /\ a \o deferred \in Seq(Commands)
          /\ Head(a \o deferred) = Head(a)
      BY <3>1, <3>2, ConcatHead
    <3>4. QED
      BY <3>2, <3>3 DEF a, Queue
  <2>6. Head(Queue).kind = "KICK" => Head(Queue).needs <= tlb
    BY <2>1, <2>5, ListExecuted DEF KickInv
  <2>7. QED
    BY <2>4, <2>5, <2>6
<1>4. QED
  BY <1>1, <1>2, <1>3, QueueInvariant, PTL DEF Spec

=============================================================================
