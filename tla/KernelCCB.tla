----------------------------- MODULE KernelCCB -----------------------------
(***************************************************************************)
(* The kernel CCB (devices/rogue/rgxfwutils.c): a ring of commands between *)
(* the driver and the firmware, the list of commands deferred while it is  *)
(* full, the return slots through which the firmware answers, and the MMU  *)
(* cache invalidations (devices/rgxmem.c) that travel in front of the work *)
(* that needs them.                                                        *)
(*                                                                         *)
(* The device is powered throughout: DevicePower shows that it is never    *)
(* switched off with a command outstanding.                                *)
(***************************************************************************)
EXTENDS Naturals, Sequences

CONSTANTS
    Threads,       \* kernel threads that schedule commands
    Misr,          \* the MISR that processes the deferred list
    NoThread,
    NoCommand,     \* a ring entry the firmware has consumed
    NoValue,       \* no slot, no update value
    EntryPoints,   \* the operations the threads of this instance perform
    RingSize,      \* ui32WrapMask + 1
    DeferredMax,   \* bound: nothing is scheduled beyond this many deferred
    MaxChanges,    \* bound: changes of the page tables
    SyncModulus,   \* 2^32: width of the MMU cache sync prim
    FirstUpdate,   \* initial ui32NextMMUInvalidateUpdate
    AllocMayFail,  \* may OSAllocMem fail?
    PowerMayFail   \* may PVRSRVSetDevicePowerStateKM fail?

Ops == {"SCHEDULE", "SCHEDULE_SLOT", "INVALIDATE"}

ASSUME KernelCCBAssumption ==
    /\ Misr \notin Threads
    /\ NoThread \notin Threads \cup {Misr}
    /\ EntryPoints \subseteq Ops
    /\ RingSize \in Nat /\ RingSize > 1
    /\ DeferredMax \in Nat /\ MaxChanges \in Nat
    /\ SyncModulus \in Nat /\ SyncModulus > 1
    /\ FirstUpdate \in 0..(SyncModulus - 1)
    /\ NoValue \notin Nat
    /\ AllocMayFail \in BOOLEAN /\ PowerMayFail \in BOOLEAN

AllThreads == Threads \cup {Misr}
Offsets    == 0..(RingSize - 1)
Updates    == 0..(SyncModulus - 1)

\* A command knows the page tables it was scheduled against, and the thread
\* that waits for its return slot.
Kick(n, o)  == [kind |-> "KICK", needs |-> n, owner |-> o, update |-> NoValue]
MmuCache(u) == [kind |-> "MMUCACHE", needs |-> 0, owner |-> NoThread, update |-> u]

Commands ==
    {Kick(n, o) : n \in 0..MaxChanges, o \in Threads \cup {NoThread}}
        \cup {MmuCache(u) : u \in Updates}

ASSUME NoCommandAssumption == NoCommand \notin Commands

VARIABLES
    hPowerLock,        \* holder of the power lock
    ccb,               \* psKernelCCB
    ui32WriteOffset, ui32ReadOffset,
    rtnSlots,          \* pui32KernelCCBRtnSlots
    deferred,          \* sKCCBDeferredCommandsListHead
    sCacheFlags,       \* are invalidations pending in the kernel MMU context?
    nextUpdate,        \* ui32NextMMUInvalidateUpdate
    mmuSync,           \* value of psMMUCacheSyncPrim
    pageTables,        \* changes made to the page tables
    tlb,               \* changes the GPU has seen
    pc, op, needs,     \* locals of each thread
    sCommandList,      \* the list RGXSendCommandsFromDeferredList works on
    todo,              \* the kinds of command still to be sent
    update,            \* *pui32MMUInvalidateUpdate
    slot,              \* *pui32CmdKCCBSlot
    ret

ringVars  == <<ccb, ui32WriteOffset, ui32ReadOffset, rtnSlots>>
listVars  == <<deferred, sCommandList>>
flagVars  == <<sCacheFlags, nextUpdate, update>>
gpuVars   == <<mmuSync, pageTables, tlb>>
callVars  == <<op, needs>>
vars == <<hPowerLock, ringVars, listVars, flagVars, gpuVars, callVars,
          pc, todo, slot, ret>>

Locations == {"idle", "lock", "prepare", "take", "flush", "poll", "putBack",
              "raw", "refused", "unlock", "wait"}

\* The offsets stay inside the ring, and its entries, the lists and all
\* locals have their types.
TypeOK ==
    /\ hPowerLock \in AllThreads \cup {NoThread}
    /\ ui32WriteOffset \in Offsets /\ ui32ReadOffset \in Offsets
    /\ ccb \in [Offsets -> Commands \cup {NoCommand}]
    /\ rtnSlots \in [Offsets -> {"NO_RESPONSE", "EXECUTED"}]
    /\ deferred \in Seq(Commands)
    /\ sCacheFlags \in BOOLEAN
    /\ nextUpdate \in Updates /\ mmuSync \in Updates
    /\ pageTables \in 0..MaxChanges /\ tlb \in 0..MaxChanges
    /\ pc \in [AllThreads -> Locations]
    /\ op \in [AllThreads -> Ops \cup {"FLUSH"}]
    /\ needs \in [AllThreads -> 0..MaxChanges]
    /\ sCommandList \in [AllThreads -> Seq(Commands)]
    /\ todo \in [AllThreads -> Seq({"KICK", "MMUCACHE"})]
    /\ update \in [AllThreads -> Updates \cup {NoValue}]
    /\ slot \in [AllThreads -> Offsets \cup {NoValue}]
    /\ ret \in [AllThreads -> {"OK", "RETRY", "KERNEL_CCB_FULL", "POWER_FAILED"}]

Init ==
    /\ hPowerLock = NoThread
    /\ ccb = [i \in Offsets |-> NoCommand]
    /\ ui32WriteOffset = 0 /\ ui32ReadOffset = 0
    /\ rtnSlots = [i \in Offsets |-> "NO_RESPONSE"]
    /\ deferred = <<>>
    /\ sCacheFlags = FALSE
    /\ nextUpdate = FirstUpdate
    /\ mmuSync = (FirstUpdate + SyncModulus - 1) % SyncModulus
    /\ pageTables = 0 /\ tlb = 0
    /\ pc = [t \in AllThreads |-> "idle"]
    /\ op = [t \in AllThreads |-> "FLUSH"]
    /\ needs = [t \in AllThreads |-> 0]
    /\ sCommandList = [t \in AllThreads |-> <<>>]
    /\ todo = [t \in AllThreads |-> <<>>]
    /\ update = [t \in AllThreads |-> NoValue]
    /\ slot = [t \in AllThreads |-> NoValue]
    /\ ret = [t \in AllThreads |-> "OK"]

Set(f, t, v) == [f EXCEPT ![t] = v]
Goto(t, l)   == pc' = Set(pc, t, l)

-----------------------------------------------------------------------------
(* The ring.                                                               *)

NextOffset(o) == (o + 1) % RingSize

\* RGXAcquireKernelCCBSlot: one entry always stays free.
Full == NextOffset(ui32WriteOffset) = ui32ReadOffset

\* Move past the current command.
Enqueue(c) ==
    /\ ccb' = Set(ccb, ui32WriteOffset, c)
    /\ ui32WriteOffset' = NextOffset(ui32WriteOffset)
    /\ UNCHANGED ui32ReadOffset

-----------------------------------------------------------------------------
(* Entry points, under the power lock.                                     *)

\* The list the holder of the power lock works on.
Local == IF hPowerLock = NoThread THEN <<>> ELSE sCommandList[hPowerLock]

Enter(t, o) ==
    /\ pc[t] = "idle"
    /\ Len(Local \o deferred) < DeferredMax
    /\ op' = Set(op, t, o)
    /\ needs' = Set(needs, t, pageTables)
    /\ Goto(t, "lock")
    /\ UNCHANGED <<hPowerLock, ringVars, listVars, flagVars, gpuVars, todo,
                   slot, ret>>

\* RGX_MISR_ProcessKCCBDeferredList looks at the list before it takes the lock.
MisrStart ==
    /\ pc[Misr] = "idle"
    /\ deferred # <<>>
    /\ Goto(Misr, "lock")
    /\ UNCHANGED <<hPowerLock, ringVars, listVars, flagVars, gpuVars, callVars,
                   todo, slot, ret>>

PowerLock(t) ==
    /\ pc[t] = "lock"
    /\ hPowerLock = NoThread
    /\ hPowerLock' = t
    /\ Goto(t, IF op[t] = "FLUSH" THEN "take" ELSE "prepare")
    /\ UNCHANGED <<ringVars, listVars, flagVars, gpuVars, callVars, todo, slot, ret>>

\* RGXPreKickCacheCommand puts a pending invalidation in front of the kick.
WorkOf_mutant(t) ==
    IF op[t] = "INVALIDATE" THEN <<"MMUCACHE">>
    ELSE IF sCacheFlags THEN <<"KICK", "MMUCACHE">> ELSE <<"KICK">>
WorkOf(t) ==
    IF op[t] = "INVALIDATE" THEN <<"MMUCACHE">>
    ELSE IF sCacheFlags THEN <<"MMUCACHE", "KICK">> ELSE <<"KICK">>

\* The pending flags are exchanged for none and the next update value taken.
Prepare(t) ==
    /\ pc[t] = "prepare"
    /\ op[t] = "INVALIDATE" => sCacheFlags
    /\ todo' = Set(todo, t, WorkOf(t))
    /\ sCacheFlags' = FALSE
    /\ IF sCacheFlags
       THEN /\ update' = Set(update, t, nextUpdate)
            /\ nextUpdate' = (nextUpdate + 1) % SyncModulus
       ELSE UNCHANGED <<update, nextUpdate>>
    /\ Goto(t, "take")
    /\ UNCHANGED <<hPowerLock, ringVars, listVars, gpuVars, callVars, slot, ret>>

\* RGXMMUCacheInvalidateKick has nothing to do, although the invalidation may
\* still be on its way.
NothingPending(t) ==
    /\ pc[t] = "prepare"
    /\ op[t] = "INVALIDATE"
    /\ ~sCacheFlags
    /\ Goto(t, "unlock")
    /\ UNCHANGED <<hPowerLock, ringVars, listVars, flagVars, gpuVars, callVars,
                   todo, slot, ret>>

\* The device cannot be powered up.  Flags that were taken are put back.
PowerUpFailed(t) ==
    /\ pc[t] = "prepare"
    /\ PowerMayFail
    /\ op[t] = "INVALIDATE" => sCacheFlags
    /\ ret' = Set(ret, t, "POWER_FAILED")
    /\ Goto(t, "unlock")
    /\ UNCHANGED <<hPowerLock, ringVars, listVars, flagVars, gpuVars, callVars,
                   todo, slot>>

-----------------------------------------------------------------------------
(* RGXSendCommandsFromDeferredList.                                        *)

\* bPoll: the caller wants to know the slot of this command.
Polls(t) == todo[t] # <<>> /\ Head(todo[t]) = "KICK" /\ op[t] = "SCHEDULE_SLOT"

\* All deferred commands are on their way.
Flushed(t) == IF op[t] = "FLUSH" THEN "unlock" ELSE "raw"

\* A command may not overtake those deferred before it.
AfterTake_mutant(t) == Flushed(t)
AfterTake(t) == IF deferred = <<>> THEN Flushed(t) ELSE "flush"

\* The whole list becomes a local one, so that the spin lock can be dropped.
TakeDeferred(t) ==
    /\ pc[t] = "take"
    /\ sCommandList' = Set(sCommandList, t, deferred)
    /\ deferred' = <<>>
    /\ Goto(t, AfterTake(t))
    /\ UNCHANGED <<hPowerLock, ringVars, flagVars, gpuVars, callVars, todo, slot, ret>>

FlushOne(t) ==
    /\ pc[t] = "flush"
    /\ ~Full
    /\ Enqueue(Head(sCommandList[t]))
    /\ sCommandList' = Set(sCommandList, t, Tail(sCommandList[t]))
    /\ Goto(t, IF Len(sCommandList[t]) > 1 THEN "flush"
               ELSE IF Polls(t) THEN "poll" ELSE Flushed(t))
    /\ UNCHANGED <<hPowerLock, rtnSlots, deferred, flagVars, gpuVars, callVars,
                   todo, slot, ret>>

FlushBlocked(t) ==
    /\ pc[t] = "flush"
    /\ Full
    /\ Goto(t, IF Polls(t) THEN "poll" ELSE "putBack")
    /\ UNCHANGED <<hPowerLock, ringVars, listVars, flagVars, gpuVars, callVars,
                   todo, slot, ret>>

\* RGXPollKernelCCBSlot: room in the ring lets the caller go on.
PollRoom(t) ==
    /\ pc[t] = "poll"
    /\ ~Full
    /\ Goto(t, IF sCommandList[t] = <<>> THEN "raw" ELSE "flush")
    /\ UNCHANGED <<hPowerLock, ringVars, listVars, flagVars, gpuVars, callVars,
                   todo, slot, ret>>

\* The poll, or the loop around it, has lasted MAX_HW_TIME_US.
PollTimedOut(t) ==
    /\ pc[t] = "poll"
    /\ Full \/ sCommandList[t] # <<>>
    /\ Goto(t, "putBack")
    /\ UNCHANGED <<hPowerLock, ringVars, listVars, flagVars, gpuVars, callVars,
                   todo, slot, ret>>

\* What could not be sent goes back to the head of the deferred list.
PutBack(t) ==
    /\ pc[t] = "putBack"
    /\ deferred' = sCommandList[t] \o deferred
    /\ sCommandList' = Set(sCommandList, t, <<>>)
    /\ Goto(t, IF op[t] = "FLUSH" THEN "unlock" ELSE "refused")
    /\ UNCHANGED <<hPowerLock, ringVars, flagVars, gpuVars, callVars, todo, slot, ret>>

-----------------------------------------------------------------------------
(* RGXSendCommandAndGetKCCBSlot.                                           *)

CommandOf(t) ==
    IF Head(todo[t]) = "MMUCACHE" THEN MmuCache(update[t])
    ELSE Kick(needs[t], IF Polls(t) THEN t ELSE NoThread)

\* The command is accepted: go on with the next, if any.
Accepted(t) ==
    /\ todo' = Set(todo, t, Tail(todo[t]))
    /\ Goto(t, IF Len(todo[t]) = 1 THEN "unlock" ELSE "take")

\* A slot handed out is reset first, lest its user sees an earlier answer.
ResetSlot_mutant(t) == rtnSlots
ResetSlot(t) ==
    IF Polls(t) THEN Set(rtnSlots, ui32WriteOffset, "NO_RESPONSE") ELSE rtnSlots

SendRaw(t) ==
    /\ pc[t] = "raw"
    /\ ~Full
    /\ Enqueue(CommandOf(t))
    /\ rtnSlots' = ResetSlot(t)
    /\ slot' = IF Polls(t) THEN Set(slot, t, ui32WriteOffset) ELSE slot
    /\ Accepted(t)
    /\ UNCHANGED <<hPowerLock, listVars, flagVars, gpuVars, callVars, ret>>

RawFull(t) ==
    /\ pc[t] = "raw"
    /\ Full
    /\ Goto(t, "refused")
    /\ UNCHANGED <<hPowerLock, ringVars, listVars, flagVars, gpuVars, callVars,
                   todo, slot, ret>>

\* _AllocDeferredCommand
Defer(t) ==
    /\ pc[t] = "refused"
    /\ ~Polls(t)
    /\ deferred' = Append(deferred, CommandOf(t))
    /\ Accepted(t)
    /\ UNCHANGED <<hPowerLock, ringVars, sCommandList, flagVars, gpuVars,
                   callVars, slot, ret>>

\* The command is not accepted and its caller gives up.  The update value of
\* an invalidation is taken back, but only RGXMMUCacheInvalidateKick restores
\* the pending flags.
Abandon(t) ==
    /\ pc[t] = "refused"
    /\ Polls(t) \/ AllocMayFail
    /\ ret' = Set(ret, t, IF Polls(t) THEN "KERNEL_CCB_FULL" ELSE "RETRY")
    /\ IF Head(todo[t]) = "MMUCACHE"
       THEN nextUpdate' = (nextUpdate + SyncModulus - 1) % SyncModulus
       ELSE UNCHANGED nextUpdate
    /\ sCacheFlags' = (sCacheFlags \/ op[t] = "INVALIDATE")
    /\ todo' = Set(todo, t, <<>>)
    /\ Goto(t, "unlock")
    /\ UNCHANGED <<hPowerLock, ringVars, listVars, update, gpuVars, callVars, slot>>

\* Back to the caller, whose locals are gone.
Return(t) ==
    /\ Goto(t, "idle")
    /\ op' = Set(op, t, "FLUSH")
    /\ needs' = Set(needs, t, 0)
    /\ update' = Set(update, t, NoValue)
    /\ slot' = Set(slot, t, NoValue)
    /\ ret' = Set(ret, t, "OK")

PowerUnlock(t) ==
    /\ pc[t] = "unlock"
    /\ hPowerLock' = NoThread
    /\ IF slot[t] = NoValue
       THEN Return(t)
       ELSE Goto(t, "wait") /\ UNCHANGED <<callVars, update, slot, ret>>
    /\ UNCHANGED <<ringVars, listVars, sCacheFlags, nextUpdate, gpuVars, todo>>

\* RGXWaitForKCCBSlotUpdate returns, also when the wait times out.
WaitDone(t) ==
    /\ pc[t] = "wait"
    /\ Return(t)
    /\ UNCHANGED <<hPowerLock, ringVars, listVars, sCacheFlags, nextUpdate,
                   gpuVars, todo>>

-----------------------------------------------------------------------------
(* The page tables and the firmware.                                       *)

\* MMU code changes page tables and has RGXMMUCacheInvalidate note, without
\* the power lock, which caches must be invalidated.
ChangePageTables ==
    /\ pageTables < MaxChanges
    /\ pageTables' = pageTables + 1
    /\ sCacheFlags' = TRUE
    /\ UNCHANGED <<hPowerLock, ringVars, listVars, nextUpdate, update, mmuSync,
                   tlb, callVars, pc, todo, slot, ret>>

\* The firmware executes the command at the read offset and answers.
FwExecute ==
    /\ ui32ReadOffset # ui32WriteOffset
    /\ LET c == ccb[ui32ReadOffset] IN
       IF c.kind = "MMUCACHE"
       THEN tlb' = pageTables /\ mmuSync' = c.update
       ELSE UNCHANGED <<tlb, mmuSync>>
    /\ rtnSlots' = Set(rtnSlots, ui32ReadOffset, "EXECUTED")
    /\ ccb' = Set(ccb, ui32ReadOffset, NoCommand)
    /\ ui32ReadOffset' = (ui32ReadOffset + 1) % RingSize
    /\ UNCHANGED <<hPowerLock, ui32WriteOffset, listVars, flagVars, pageTables,
                   callVars, pc, todo, slot, ret>>

-----------------------------------------------------------------------------
Step(t) ==
    \/ PowerLock(t) \/ Prepare(t) \/ NothingPending(t) \/ PowerUpFailed(t)
    \/ TakeDeferred(t) \/ FlushOne(t) \/ FlushBlocked(t) \/ PollRoom(t)
    \/ PollTimedOut(t) \/ PutBack(t) \/ SendRaw(t) \/ RawFull(t) \/ Defer(t)
    \/ Abandon(t) \/ PowerUnlock(t) \/ WaitDone(t)

Next ==
    \/ \E t \in Threads, o \in EntryPoints : Enter(t, o)
    \/ \E t \in AllThreads : Step(t)
    \/ MisrStart \/ ChangePageTables \/ FwExecute

Spec == Init /\ [][Next]_vars

-----------------------------------------------------------------------------
(* What makes the kernel CCB correct.                                      *)

\* The commands in the ring, oldest first.
Used == (ui32WriteOffset + RingSize - ui32ReadOffset) % RingSize
Ring == [i \in 1..Used |-> ccb[(ui32ReadOffset + i - 1) % RingSize]]

\* Ring, local list and deferred list together are the FIFO the driver
\* promises: deferring commands, moving them about and putting them back
\* loses, repeats and reorders none (the comment at rgxfwutils.c:4085).
Fifo     == INSTANCE CommandFifo WITH queue <- Ring \o Local \o deferred
FifoSpec == Fifo!Spec

\* Work never runs on stale translations: when the firmware reaches a kick
\* the GPU has seen every change made to the page tables before the kick was
\* scheduled (rgxmem.c:292).
KickSeesItsPageTables ==
    LET c == ccb[ui32ReadOffset] IN
    c # NoCommand /\ c.kind = "KICK" => c.needs <= tlb

\* A thread that finds its return slot answered has had its own command
\* executed (rgxfwutils.c:3919).
SlotAnswerIsOwn ==
    \A t \in Threads :
        pc[t] = "wait" /\ rtnSlots[slot[t]] = "EXECUTED" =>
            \A i \in Offsets : ccb[i] # NoCommand => ccb[i].owner # t

-----------------------------------------------------------------------------
(* What comments of the code say and the code does not do.                 *)

\* A caller that wants a slot polls "for space to be available" before its
\* command is sent (rgxfwutils.c:4174).
SpaceIsPolledFor == \A t \in Threads : pc[t] = "raw" /\ Polls(t) => ~Full

\* No valid cache flags are overwritten with 0 (rgxmem.c:183): while the GPU
\* has not seen a change, its invalidation is pending or on its way.
InvalidationIsKept ==
    tlb < pageTables =>
        \/ sCacheFlags
        \/ \E t \in Threads : "MMUCACHE" \in {todo[t][i] : i \in 1..Len(todo[t])}
        \/ LET q == Ring \o Local \o deferred IN
           \E i \in 1..Len(q) : q[i].kind = "MMUCACHE"
=============================================================================
