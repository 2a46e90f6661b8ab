--------------------------- MODULE SyncCheckpoint ---------------------------
(***************************************************************************)
(* Sync checkpoints (common/sync_checkpoint.c) under the kick functions    *)
(* that put them into client CCBs (devices/rgxkicksync.c): reference and   *)
(* enqueue counts, the pool, the deferred clean-up list and the context    *)
(* they are allocated from.  Code under a spin lock is one action.         *)
(***************************************************************************)
EXTENDS Naturals, Sequences, FiniteSets

CONSTANTS
    Threads,          \* threads that kick and that free fences
    Destroyer,        \* the thread that destroys the device
    Checkpoints,      \* the memory cells a SYNC_CHECKPOINT can occupy
    Blocks, BlockOf,  \* UFO blocks, and the block each cell lies in
    PoolSize,         \* ui32SyncCheckpointPoolSize
    InitialPool,      \* what _PrepopulateSyncCheckpointPool leaves in the pool
    MaxEnqueued,      \* bound on hEnqueuedCCBCount
    NoCheckpoint

Procs == Threads \cup {Destroyer}

ASSUME SyncCheckpointAssumption ==
    /\ IsFiniteSet(Threads) /\ Destroyer \notin Threads
    /\ IsFiniteSet(Checkpoints)
    /\ BlockOf \in [Checkpoints -> Blocks]
    /\ PoolSize \in Nat \ {0}
    /\ InitialPool \in Seq(Checkpoints) /\ Len(InitialPool) <= PoolSize
    /\ \A i, j \in 1..Len(InitialPool) :
          InitialPool[i] = InitialPool[j] => i = j
    /\ MaxEnqueued \in Nat
    /\ NoCheckpoint \notin Checkpoints

VARIABLES
    \* the context
    ctxRefs,     \* its hRefCount
    ctxFreed,    \* its memory has been freed
    count,       \* hCheckpointCount
    inUse,       \* ui32CurrentInUseSyncCheckpoints
    imported,    \* UFO blocks its arena has imported
    allocated,   \* cells handed out by the arena
    deferred,    \* sDeferredCleanupListHead
    listed,      \* sSyncCheckpointSyncsList of the device
    slots, wp, rp, poolCount, full,   \* the pool
    \* each checkpoint
    refs,        \* hRefCount
    enq,         \* hEnqueuedCCBCount
    fwRefs,      \* ui32FwRefCount
    fence,       \* a fence owns the reference made by SyncCheckpointAlloc
    \* the firmware's side
    inCCB,       \* uses in client CCBs that the firmware has been told of
    unkicked,    \* uses a thread has listed for, or written to, its CCB
    written,     \* the thread's current kick has written its command
    \* the threads
    pc,
    kickIn,      \* checkpoint of the input fence of a kick
    kickOut,     \* checkpoint of its output fence
    drops,       \* checkpoints to call SyncCheckpointUnref for
    todo,        \* checkpoints taken off a list to be freed
    phase,       \* where todo comes from
    destroyed    \* outcome of SyncCheckpointContextDestroy

poolVars == <<slots, wp, rp, poolCount, full>>
ctxVars  == <<ctxRefs, ctxFreed, count, inUse, imported, allocated, deferred,
              listed, poolVars>>
cpVars   == <<refs, enq, fwRefs, fence>>
fwVars   == <<inCCB, unkicked, written>>
kickVars == <<kickIn, kickOut>>
workVars == <<drops, todo, phase>>
vars     == <<ctxVars, cpVars, fwVars, pc, kickVars, workVars, destroyed>>

OptCheckpoint == Checkpoints \cup {NoCheckpoint}

\* Uses of a checkpoint that the firmware has still to process, or that a
\* thread is about to hand to it.
Unkicked(c)    == UNION {{t} \X (1..unkicked[t][c]) : t \in Threads}
Outstanding(c) == inCCB[c] + Cardinality(Unkicked(c))

PoolEntries == {slots[(rp + i) % PoolSize] : i \in 0..poolCount - 1}

\* The ring indices, the count and the FULL flag of the pool agree, and its
\* entries are different allocated checkpoints that nobody refers to.
PoolRing ==
    /\ wp = (rp + poolCount) % PoolSize
    /\ full <=> poolCount = PoolSize
    /\ Cardinality(PoolEntries) = poolCount
    /\ PoolEntries \subseteq allocated \ listed
    /\ \A c \in PoolEntries : refs[c] = 0 /\ Outstanding(c) = 0

TypeOK ==
    /\ ctxRefs \in Nat /\ ctxFreed \in BOOLEAN
    /\ count \in Nat /\ inUse \in Nat
    /\ imported \subseteq Blocks
    /\ allocated \subseteq Checkpoints /\ listed \subseteq Checkpoints
    /\ deferred \in Seq(Checkpoints)
    /\ slots \in [0..PoolSize - 1 -> OptCheckpoint]
    /\ wp \in 0..PoolSize - 1 /\ rp \in 0..PoolSize - 1
    /\ poolCount \in 0..PoolSize /\ full \in BOOLEAN
    /\ refs \in [Checkpoints -> Nat] /\ enq \in [Checkpoints -> Nat]
    /\ fwRefs \in [Checkpoints -> Nat] /\ fence \in [Checkpoints -> BOOLEAN]
    /\ inCCB \in [Checkpoints -> Nat]
    /\ unkicked \in [Threads -> [Checkpoints -> Nat]]
    /\ written \in [Threads -> BOOLEAN]
    /\ pc \in [Procs -> {"idle", "create", "alloc", "counted", "publish",
               "fences", "update", "acquire", "schedule", "rollback",
               "rollback2", "abandon", "unref", "check", "reap", "put", "free",
               "uncount", "deferred", "leave", "clean", "decide", "done"}]
    /\ kickIn \in [Threads -> OptCheckpoint]
    /\ kickOut \in [Threads -> OptCheckpoint]
    /\ drops \in [Threads -> Seq(Checkpoints)]
    /\ todo \in [Procs -> Seq(Checkpoints)]
    /\ phase \in [Procs -> {"direct", "deferred", "pool"}]
    /\ destroyed \in {"no", "begun", "failed", "ok"}
    /\ PoolRing

\* SyncCheckpointContextCreate.  The pool already holds InitialPool.
Init ==
    LET pooled == {InitialPool[i] : i \in 1..Len(InitialPool)}
        blocks == {BlockOf[c] : c \in pooled}
    IN
    /\ ctxRefs = 1 + Cardinality(blocks) /\ ctxFreed = FALSE
    /\ count = Cardinality(pooled) /\ inUse = 0
    /\ imported = blocks /\ allocated = pooled
    /\ deferred = <<>> /\ listed = {}
    /\ slots = [i \in 0..PoolSize - 1 |->
                  IF i < Len(InitialPool) THEN InitialPool[i + 1]
                                          ELSE NoCheckpoint]
    /\ rp = 0 /\ wp = Len(InitialPool) % PoolSize
    /\ poolCount = Len(InitialPool) /\ full = (Len(InitialPool) = PoolSize)
    /\ refs = [c \in Checkpoints |-> 0] /\ enq = [c \in Checkpoints |-> 0]
    /\ fwRefs = [c \in Checkpoints |-> 0]
    /\ fence = [c \in Checkpoints |-> FALSE]
    /\ inCCB = [c \in Checkpoints |-> 0]
    /\ unkicked = [t \in Threads |-> [c \in Checkpoints |-> 0]]
    /\ written = [t \in Threads |-> FALSE]
    /\ pc = [t \in Procs |-> "idle"]
    /\ kickIn = [t \in Threads |-> NoCheckpoint]
    /\ kickOut = [t \in Threads |-> NoCheckpoint]
    /\ drops = [t \in Threads |-> <<>>]
    /\ todo = [t \in Procs |-> <<>>]
    /\ phase = [t \in Procs |-> "direct"]
    /\ destroyed = "no"

---------------------------------------------------------------------------
(* The context and its arena.                                              *)

\* SyncCheckpointContextRef and SyncCheckpointContextUnref.
ContextRef == ctxRefs' = ctxRefs + 1 /\ UNCHANGED ctxFreed

ContextUnref ==
    /\ ctxRefs' = ctxRefs - 1
    /\ ctxFreed' = (ctxFreed \/ ctxRefs = 1)

FreeCells(b) == {c \in Checkpoints \ allocated : BlockOf[c] = b}

\* RA_Alloc: a cell of an imported block when there is one, otherwise of a
\* block that _SyncCheckpointBlockImport adds.
RAAlloc(c) ==
    /\ c \notin allocated
    /\ allocated' = allocated \cup {c}
    /\ IF BlockOf[c] \in imported
       THEN UNCHANGED <<imported, ctxRefs, ctxFreed>>
       ELSE /\ \A b \in imported : FreeCells(b) = {}
            /\ imported' = imported \cup {BlockOf[c]}
            /\ ContextRef

\* RA_Free, with _SyncCheckpointBlockUnimport for the last cell of a block.
RAFree(c) ==
    /\ allocated' = allocated \ {c}
    /\ IF \E d \in allocated \ {c} : BlockOf[d] = BlockOf[c]
       THEN UNCHANGED <<imported, ctxRefs, ctxFreed>>
       ELSE imported' = imported \ {BlockOf[c]} /\ ContextUnref

Serviced(c) == fwRefs[c] = enq[c]

OptSeq(c) == IF c = NoCheckpoint THEN <<>> ELSE <<c>>

Goto(t, where) == pc' = [pc EXCEPT ![t] = where]

---------------------------------------------------------------------------
(* A kick: PVRSRVRGXKickSyncKM, PVRSRVRGXKickCDMKM and their like.         *)

\* A fence that is not the output of a kick still under way.
OpenFence(c) == fence[c] /\ \A t \in Threads : kickOut[t] # c

\* SyncCheckpointResolveFence takes a reference for the kick.
KickResolve(t) ==
    /\ pc[t] = "idle" /\ destroyed = "no"
    /\ \E c \in {d \in Checkpoints : OpenFence(d)} \cup {NoCheckpoint} :
         /\ kickIn' = [kickIn EXCEPT ![t] = c]
         /\ refs' = IF c = NoCheckpoint THEN refs
                                        ELSE [refs EXCEPT ![c] = @ + 1]
    /\ Goto(t, "create")
    /\ UNCHANGED <<ctxVars, enq, fwRefs, fence, fwVars, kickOut, workVars,
                   destroyed>>

\* The kick has no update timeline.
KickWithoutOutput(t) ==
    /\ pc[t] = "create" /\ kickIn[t] # NoCheckpoint
    /\ Goto(t, "fences")
    /\ UNCHANGED <<ctxVars, cpVars, fwVars, kickVars, workVars, destroyed>>

\* SyncCheckpointAlloc, _GetCheckpointFromPool: the pool has one.
GetFromPool_mutant(t) ==
    /\ pc[t] = "create" /\ poolCount > 0
    /\ kickOut' = [kickOut EXCEPT ![t] = slots[rp]]
    /\ rp' = (rp + 1) % PoolSize
    /\ poolCount' = poolCount - 1
    /\ Goto(t, "publish")
    /\ UNCHANGED <<ctxRefs, ctxFreed, count, inUse, imported, allocated,
                   deferred, listed, slots, wp, full, cpVars, fwVars, kickIn,
                   workVars, destroyed>>
GetFromPool(t) ==
    /\ pc[t] = "create" /\ poolCount > 0
    /\ kickOut' = [kickOut EXCEPT ![t] = slots[rp]]
    /\ rp' = (rp + 1) % PoolSize
    /\ poolCount' = poolCount - 1
    /\ full' = FALSE
    /\ Goto(t, "publish")
    /\ UNCHANGED <<ctxRefs, ctxFreed, count, inUse, imported, allocated,
                   deferred, listed, slots, wp, cpVars, fwVars, kickIn,
                   workVars, destroyed>>

PoolEmpty(t) ==
    /\ pc[t] = "create" /\ poolCount = 0
    /\ Goto(t, "alloc")
    /\ UNCHANGED <<ctxVars, cpVars, fwVars, kickVars, workVars, destroyed>>

\* _AllocSyncCheckpoint.
AllocSyncCheckpoint(t) ==
    /\ pc[t] = "alloc"
    /\ \E c \in Checkpoints :
         RAAlloc(c) /\ kickOut' = [kickOut EXCEPT ![t] = c]
    /\ Goto(t, "counted")
    /\ UNCHANGED <<count, inUse, deferred, listed, poolVars, cpVars, fwVars,
                   kickIn, workVars, destroyed>>

CountCheckpoint(t) ==
    /\ pc[t] = "counted"
    /\ count' = count + 1
    /\ Goto(t, "publish")
    /\ UNCHANGED <<ctxRefs, ctxFreed, inUse, imported, allocated, deferred,
                   listed, poolVars, cpVars, fwVars, kickVars, workVars,
                   destroyed>>

\* The arena is exhausted: the kick drops its input fence and fails.
AllocFails(t) ==
    /\ pc[t] = "alloc" /\ allocated = Checkpoints
    /\ kickIn' = [kickIn EXCEPT ![t] = NoCheckpoint]
    /\ drops' = [drops EXCEPT ![t] = OptSeq(kickIn[t])]
    /\ Goto(t, IF kickIn[t] = NoCheckpoint THEN "idle" ELSE "unref")
    /\ UNCHANGED <<ctxVars, cpVars, fwVars, kickOut, todo, phase, destroyed>>

\* The rest of SyncCheckpointAlloc; the reference goes to the new fence.
Publish(t) ==
    LET c == kickOut[t] IN
    /\ pc[t] = "publish"
    /\ inUse' = inUse + 1
    /\ refs' = [refs EXCEPT ![c] = 1]
    /\ enq' = [enq EXCEPT ![c] = 0]
    /\ fwRefs' = [fwRefs EXCEPT ![c] = 0]
    /\ listed' = listed \cup {c}
    /\ fence' = [fence EXCEPT ![c] = TRUE]
    /\ Goto(t, "fences")
    /\ UNCHANGED <<ctxRefs, ctxFreed, count, imported, allocated, deferred,
                   poolVars, fwVars, kickVars, workVars, destroyed>>

\* _AppendCheckpoints: the address goes on the list, SyncCheckpointCCBEnqueued.
AppendCheckpoint(t, c) ==
    IF c = NoCheckpoint
    THEN UNCHANGED <<enq, unkicked>>
    ELSE /\ enq[c] < MaxEnqueued
         /\ enq' = [enq EXCEPT ![c] = @ + 1]
         /\ unkicked' = [unkicked EXCEPT ![t][c] = @ + 1]

AppendFences(t) ==
    /\ pc[t] = "fences"
    /\ AppendCheckpoint(t, kickIn[t])
    /\ Goto(t, "update")
    /\ UNCHANGED <<ctxVars, refs, fwRefs, fence, inCCB, written, kickVars,
                   workVars, destroyed>>

AppendUpdate(t) ==
    /\ pc[t] = "update"
    /\ AppendCheckpoint(t, kickOut[t])
    /\ Goto(t, "acquire")
    /\ UNCHANGED <<ctxVars, refs, fwRefs, fence, inCCB, written, kickVars,
                   workVars, destroyed>>

\* RGXCmdHelperAcquireCmdCCB: no room, so nothing is written.
AcquireFails(t) ==
    /\ pc[t] = "acquire"
    /\ Goto(t, "rollback")
    /\ UNCHANGED <<ctxVars, cpVars, fwVars, kickVars, workVars, destroyed>>

\* RGXCmdHelperReleaseCmdCCB has written the command and its UFO lists.
WriteCommand(t) ==
    /\ pc[t] = "acquire"
    /\ written' = [written EXCEPT ![t] = TRUE]
    /\ Goto(t, "schedule")
    /\ UNCHANGED <<ctxVars, cpVars, inCCB, unkicked, kickVars, workVars,
                   destroyed>>

\* RGXScheduleCommand gives the firmware the new write offset, and with it
\* all that is in the CCB.  SyncAddrListDeRefCheckpoints.
Schedule(t) ==
    /\ pc[t] = "schedule"
    /\ inCCB' = [c \in Checkpoints |-> inCCB[c] + unkicked[t][c]]
    /\ unkicked' = [unkicked EXCEPT ![t] = [c \in Checkpoints |-> 0]]
    /\ written' = [written EXCEPT ![t] = FALSE]
    /\ kickIn' = [kickIn EXCEPT ![t] = NoCheckpoint]
    /\ kickOut' = [kickOut EXCEPT ![t] = NoCheckpoint]
    /\ drops' = [drops EXCEPT ![t] = OptSeq(kickIn[t])]
    /\ Goto(t, IF kickIn[t] = NoCheckpoint THEN "idle" ELSE "unref")
    /\ UNCHANGED <<ctxVars, cpVars, todo, phase, destroyed>>

\* It fails for good.  The command stays in the CCB.
ScheduleFails(t) ==
    /\ pc[t] = "schedule"
    /\ Goto(t, "rollback")
    /\ UNCHANGED <<ctxVars, cpVars, fwVars, kickVars, workVars, destroyed>>

\* SyncCheckpointRollbackFromUFO: by address, among the listed checkpoints.
\* What was not written to the CCB is thereby withdrawn.
RollbackFromUFO(t, c) ==
    /\ enq' = IF c \in listed THEN [enq EXCEPT ![c] = @ - 1] ELSE enq
    /\ unkicked' = IF c = NoCheckpoint \/ written[t] THEN unkicked
                   ELSE [unkicked EXCEPT ![t][c] = @ - 1]

\* SyncAddrListRollbackCheckpoints for the fence list and the update list.
RollbackFences(t) ==
    /\ pc[t] = "rollback"
    /\ RollbackFromUFO(t, kickIn[t])
    /\ Goto(t, "rollback2")
    /\ UNCHANGED <<ctxVars, refs, fwRefs, fence, inCCB, written, kickVars,
                   workVars, destroyed>>

RollbackUpdate(t) ==
    /\ pc[t] = "rollback2"
    /\ RollbackFromUFO(t, kickOut[t])
    /\ Goto(t, "abandon")
    /\ UNCHANGED <<ctxVars, refs, fwRefs, fence, inCCB, written, kickVars,
                   workVars, destroyed>>

\* SyncCheckpointRollbackFenceData destroys the output fence, then
\* SyncAddrListDeRefCheckpoints.
AbandonKick(t) ==
    LET out == kickOut[t] IN
    /\ pc[t] = "abandon"
    /\ fence' = IF out = NoCheckpoint THEN fence
                                      ELSE [fence EXCEPT ![out] = FALSE]
    /\ drops' = [drops EXCEPT ![t] = OptSeq(out) \o OptSeq(kickIn[t])]
    /\ written' = [written EXCEPT ![t] = FALSE]
    /\ kickIn' = [kickIn EXCEPT ![t] = NoCheckpoint]
    /\ kickOut' = [kickOut EXCEPT ![t] = NoCheckpoint]
    /\ Goto(t, IF drops'[t] = <<>> THEN "idle" ELSE "unref")
    /\ UNCHANGED <<ctxVars, refs, enq, fwRefs, inCCB, unkicked, todo, phase,
                   destroyed>>

\* The last user of a fence closes it: SyncCheckpointFree.  A kick returns
\* its output fence only when it is over.
FenceFree(t) ==
    /\ pc[t] = "idle"
    /\ \E c \in Checkpoints :
         /\ OpenFence(c)
         /\ fence' = [fence EXCEPT ![c] = FALSE]
         /\ drops' = [drops EXCEPT ![t] = <<c>>]
    /\ Goto(t, "unref")
    /\ UNCHANGED <<ctxVars, refs, enq, fwRefs, fwVars, kickVars, todo, phase,
                   destroyed>>

\* The firmware processes a check or an update of a UFO list.
FirmwareProcesses(c) ==
    /\ inCCB[c] > 0
    /\ inCCB' = [inCCB EXCEPT ![c] = @ - 1]
    /\ fwRefs' = [fwRefs EXCEPT ![c] = @ + 1]
    /\ UNCHANGED <<ctxVars, refs, enq, fence, unkicked, written, pc, kickVars,
                   workVars, destroyed>>

---------------------------------------------------------------------------
(* SyncCheckpointUnref and the lists it works off.                         *)

\* It starts with a reference on the context for the rest of the function.
Unref_mutant(t) ==
    LET c == Head(drops[t]) IN
    /\ pc[t] = "unref"
    /\ refs' = [refs EXCEPT ![c] = @ - 1]
    /\ Goto(t, IF refs[c] = 1 THEN "check" ELSE "deferred")
    /\ UNCHANGED <<ctxVars, enq, fwRefs, fence, fwVars, kickVars, workVars,
                   destroyed>>
Unref(t) ==
    LET c == Head(drops[t]) IN
    /\ pc[t] = "unref"
    /\ ContextRef
    /\ refs' = [refs EXCEPT ![c] = @ - 1]
    /\ Goto(t, IF refs[c] = 1 THEN "check" ELSE "deferred")
    /\ UNCHANGED <<count, inUse, imported, allocated, deferred, listed,
                   poolVars, enq, fwRefs, fence, fwVars, kickVars, workVars,
                   destroyed>>

\* The last reference is gone: free it, or leave it until the firmware has
\* serviced what is enqueued.
CheckServiced_mutant(t) ==
    LET c == Head(drops[t]) IN
    /\ pc[t] = "check"
    /\ todo' = [todo EXCEPT ![t] = <<c>>]
    /\ phase' = [phase EXCEPT ![t] = "direct"]
    /\ Goto(t, "reap")
    /\ UNCHANGED <<ctxVars, cpVars, fwVars, kickVars, drops, destroyed>>
CheckServiced(t) ==
    LET c == Head(drops[t]) IN
    /\ pc[t] = "check"
    /\ IF Serviced(c)
       THEN /\ todo' = [todo EXCEPT ![t] = <<c>>]
            /\ phase' = [phase EXCEPT ![t] = "direct"]
            /\ Goto(t, "reap")
            /\ UNCHANGED deferred
       ELSE /\ deferred' = Append(deferred, c)
            /\ Goto(t, "deferred")
            /\ UNCHANGED <<todo, phase>>
    /\ UNCHANGED <<ctxRefs, ctxFreed, count, inUse, imported, allocated,
                   listed, poolVars, cpVars, fwVars, kickVars, drops,
                   destroyed>>

\* Where a thread goes when it has still the checkpoints rest to free, which
\* it took from the list ph.
AfterItem(t, rest, ph) ==
    IF rest # <<>> THEN IF ph = "pool" THEN "free" ELSE "reap"
    ELSE CASE ph = "direct" -> "deferred"
           [] ph = "pool"   -> "decide"
           [] OTHER         -> IF t = Destroyer THEN "clean" ELSE "leave"

ItemDone(t) ==
    /\ todo' = [todo EXCEPT ![t] = Tail(@)]
    /\ Goto(t, AfterItem(t, Tail(todo[t]), phase[t]))

\* Off the global list and out of the statistics.
Reap(t) ==
    LET c == Head(todo[t]) IN
    /\ pc[t] = "reap"
    /\ listed' = listed \ {c}
    /\ inUse' = inUse - 1
    /\ Goto(t, "put")
    /\ UNCHANGED <<ctxRefs, ctxFreed, count, imported, allocated, deferred,
                   poolVars, cpVars, fwVars, kickVars, workVars, destroyed>>

\* _PutCheckpointInPool.
PutInPool(t) ==
    /\ pc[t] = "put" /\ ~full
    /\ slots' = [slots EXCEPT ![wp] = Head(todo[t])]
    /\ wp' = (wp + 1) % PoolSize
    /\ poolCount' = poolCount + 1
    /\ full' = (full \/ wp' = rp)
    /\ ItemDone(t)
    /\ UNCHANGED <<ctxRefs, ctxFreed, count, inUse, imported, allocated,
                   deferred, listed, rp, cpVars, fwVars, kickVars, drops,
                   phase, destroyed>>

PoolFull(t) ==
    /\ pc[t] = "put" /\ full
    /\ Goto(t, "free")
    /\ UNCHANGED <<ctxVars, cpVars, fwVars, kickVars, workVars, destroyed>>

\* _FreeSyncCheckpoint: the arena first, then the count of checkpoints.
FreeCheckpoint(t) ==
    /\ pc[t] = "free"
    /\ RAFree(Head(todo[t]))
    /\ Goto(t, "uncount")
    /\ UNCHANGED <<count, inUse, deferred, listed, poolVars, cpVars, fwVars,
                   kickVars, workVars, destroyed>>

UncountCheckpoint(t) ==
    /\ pc[t] = "uncount"
    /\ count' = count - 1
    /\ ItemDone(t)
    /\ UNCHANGED <<ctxRefs, ctxFreed, inUse, imported, allocated, deferred,
                   listed, poolVars, cpVars, fwVars, kickVars, drops, phase,
                   destroyed>>

\* The elements of s that are in S, in their order.
Among(s, S) ==
    LET upTo[i \in 0..Len(s)] ==
            IF i = 0 THEN <<>>
            ELSE IF s[i] \in S THEN Append(upTo[i - 1], s[i])
            ELSE upTo[i - 1]
    IN upTo[Len(s)]

\* _CheckDeferredCleanupList: those that have been serviced move to a list
\* of this thread's own.
CheckDeferredCleanupList_mutant(t) ==
    LET ready == Among(deferred, {c \in Checkpoints : Serviced(c)}) IN
    /\ pc[t] = "deferred"
    /\ todo' = [todo EXCEPT ![t] = ready]
    /\ phase' = [phase EXCEPT ![t] = "deferred"]
    /\ Goto(t, AfterItem(t, ready, "deferred"))
    /\ UNCHANGED <<ctxVars, cpVars, fwVars, kickVars, drops, destroyed>>
CheckDeferredCleanupList(t) ==
    LET ready == Among(deferred, {c \in Checkpoints : Serviced(c)}) IN
    /\ pc[t] = "deferred"
    /\ deferred' = Among(deferred, {c \in Checkpoints : ~Serviced(c)})
    /\ todo' = [todo EXCEPT ![t] = ready]
    /\ phase' = [phase EXCEPT ![t] = "deferred"]
    /\ Goto(t, AfterItem(t, ready, "deferred"))
    /\ UNCHANGED <<ctxRefs, ctxFreed, count, inUse, imported, allocated,
                   listed, poolVars, cpVars, fwVars, kickVars, drops,
                   destroyed>>

\* The end of SyncCheckpointUnref.
Leave_mutant(t) ==
    /\ pc[t] = "leave"
    /\ drops' = [drops EXCEPT ![t] = Tail(@)]
    /\ Goto(t, IF Tail(drops[t]) = <<>> THEN "idle" ELSE "unref")
    /\ UNCHANGED <<ctxVars, cpVars, fwVars, kickVars, todo, phase, destroyed>>
Leave(t) ==
    /\ pc[t] = "leave"
    /\ ContextUnref
    /\ drops' = [drops EXCEPT ![t] = Tail(@)]
    /\ Goto(t, IF Tail(drops[t]) = <<>> THEN "idle" ELSE "unref")
    /\ UNCHANGED <<count, inUse, imported, allocated, deferred, listed,
                   poolVars, cpVars, fwVars, kickVars, todo, phase, destroyed>>

---------------------------------------------------------------------------
(* SyncCheckpointContextDestroy, called once by PVRSRVCommonDeviceDestroy. *)

Kicking(t) == pc[t] \in {"create", "alloc", "counted", "publish", "fences",
                         "update", "acquire", "schedule", "rollback",
                         "rollback2", "abandon"}

\* The device is destroyed when no connection uses it any more; fences that
\* other processes hold may still be released.
DestroyBegin ==
    /\ destroyed = "no" /\ \A t \in Threads : ~Kicking(t)
    /\ destroyed' = "begun"
    /\ Goto(Destroyer, "deferred")
    /\ UNCHANGED <<ctxVars, cpVars, fwVars, kickVars, workVars>>

\* _CleanCheckpointPool takes all of the pool, the last one first.
CleanCheckpointPool ==
    LET pooled == [i \in 1..poolCount |->
                     slots[(rp + poolCount - i) % PoolSize]]
    IN
    /\ pc[Destroyer] = "clean"
    /\ todo' = [todo EXCEPT ![Destroyer] = pooled]
    /\ phase' = [phase EXCEPT ![Destroyer] = "pool"]
    /\ rp' = (rp + poolCount) % PoolSize
    /\ poolCount' = 0
    /\ full' = (full /\ poolCount = 0)
    /\ Goto(Destroyer, AfterItem(Destroyer, pooled, "pool"))
    /\ UNCHANGED <<ctxRefs, ctxFreed, count, inUse, imported, allocated,
                   deferred, listed, slots, wp, cpVars, fwVars, kickVars,
                   drops, destroyed>>

DestroyRefused ==
    /\ pc[Destroyer] = "decide" /\ count # 0
    /\ destroyed' = "failed"
    /\ Goto(Destroyer, "done")
    /\ UNCHANGED <<ctxVars, cpVars, fwVars, kickVars, workVars>>

DestroyContext ==
    /\ pc[Destroyer] = "decide" /\ count = 0
    /\ ContextUnref
    /\ destroyed' = "ok"
    /\ Goto(Destroyer, "done")
    /\ UNCHANGED <<count, inUse, imported, allocated, deferred, listed,
                   poolVars, cpVars, fwVars, kickVars, workVars>>

Kick(t) ==
    \/ KickResolve(t) \/ KickWithoutOutput(t) \/ GetFromPool(t)
    \/ PoolEmpty(t) \/ AllocSyncCheckpoint(t) \/ CountCheckpoint(t)
    \/ AllocFails(t) \/ Publish(t) \/ AppendFences(t) \/ AppendUpdate(t)
    \/ AcquireFails(t) \/ WriteCommand(t) \/ Schedule(t)
    \/ RollbackFences(t) \/ RollbackUpdate(t) \/ AbandonKick(t)

FreeStep(t) ==
    \/ Reap(t) \/ PutInPool(t) \/ PoolFull(t) \/ FreeCheckpoint(t)
    \/ UncountCheckpoint(t) \/ CheckDeferredCleanupList(t)

Next ==
    \/ \E t \in Threads : Kick(t) \/ FenceFree(t) \/ Unref(t)
                          \/ CheckServiced(t) \/ Leave(t)
    \/ \E t \in Procs : FreeStep(t)
    \/ DestroyBegin \/ CleanCheckpointPool \/ DestroyRefused \/ DestroyContext
    \/ \E c \in Checkpoints : FirmwareProcesses(c)

Spec == Init /\ [][Next]_vars

\* What the kick functions do when RGXScheduleCommand fails for good after
\* the command was written; their comments rule that out.
LateFailure == \E t \in Threads : ScheduleFails(t)

SpecWithLateFailure == Init /\ [][Next \/ LateFailure]_vars

---------------------------------------------------------------------------
(* Properties.                                                             *)

\* A checkpoint on the global list is a shared object in the sense of
\* RefCounted: its references are hRefCount, its uses the UFO list entries
\* that the firmware has not processed.  In particular it is never pooled or
\* freed under the firmware, which would then count and signal a checkpoint
\* that was given to another fence.
Life == INSTANCE RefCounted WITH
    Objects <- Checkpoints,
    live    <- listed,
    refs    <- [c \in Checkpoints |-> IF c \in listed THEN refs[c] ELSE 0],
    uses    <- [c \in Checkpoints |->
                  IF c \in listed THEN Outstanding(c) ELSE 0]
LifeSpec == Life!Spec

\* What SpecWithLateFailure violates.  sync_checkpoint.c:1497, "If the firmware has serviced all enqueued
\* references to the sync checkpoint, free it": while there is a use the
\* firmware will still come to, the checkpoint stays on the global list.
UsedStaysListed == \A c \in Checkpoints : Outstanding(c) > 0 => c \in listed

InTransit(t, c) ==
    \/ t \in Threads /\ pc[t] \in {"counted", "publish"} /\ kickOut[t] = c
    \/ t \in Threads /\ pc[t] = "check" /\ Head(drops[t]) = c
    \/ c \in {todo[t][i] : i \in 1..Len(todo[t])} /\ pc[t] # "uncount"
    \/ c \in {todo[t][i] : i \in 2..Len(todo[t])} /\ pc[t] = "uncount"

\* Nothing is lost or kept twice: an allocated checkpoint is referenced, or
\* in the pool once, or deferred once, or in the hands of one thread.
OnePlace ==
    \A c \in allocated :
        Cardinality({i \in 1..Len(deferred) : deferred[i] = c})
        + Cardinality({t \in Procs : InTransit(t, c)})
        + (IF c \in PoolEntries THEN 1 ELSE 0)
        + (IF c \in listed /\ refs[c] > 0 THEN 1 ELSE 0) = 1

\* The memory of the context is freed after the last checkpoint and after
\* the last thread has left the functions that use it.
ContextOutlivesUsers ==
    ctxFreed => /\ allocated = {} /\ imported = {}
                /\ \A t \in Threads : pc[t] \in {"idle", "unref"}
                /\ destroyed = "ok"

\* When the destruction succeeded and the threads are back, nothing is left.
DestroyLeavesNothing ==
    destroyed = "ok" /\ (\A t \in Threads : pc[t] = "idle")
        => ctxFreed /\ ctxRefs = 0 /\ count = 0
=============================================================================
