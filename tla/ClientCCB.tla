----------------------------- MODULE ClientCCB -----------------------------
(***************************************************************************)
(* A client CCB (devices/rgxccb.c): the ring through which one context     *)
(* hands commands of different sizes to the firmware.  A command is never  *)
(* split: when it does not fit before the end of the ring, a padding       *)
(* command fills the rest, or the ring is doubled.  The firmware learns of *)
(* new commands, and of the new size, only from the kick commands that     *)
(* travel through the kernel CCB, in order.                                *)
(*                                                                         *)
(* The caller holds the lock of its context (hLock of the kick functions)  *)
(* from acquire to kick; the firmware runs concurrently.  Offsets are in   *)
(* bytes of a small ring: command sizes keep the alignment and the header  *)
(* its size of two alignment units.                                        *)
(***************************************************************************)
EXTENDS Naturals, Sequences

CONSTANTS
    CommandSizes,          \* total sizes the callers ask for
    JobRefs,               \* ui32IntJobRef: tells commands apart
    PaddingSize,           \* PADDING_COMMAND_SIZE: the size of a header
    InitialSize,           \* 1 << ui32CCBSizeLog2
    ui32VirtualAllocSize,  \* 1 << ui32CCBMaxSizeLog2, or 0: cannot grow
    MaxKicks               \* bound: kicks under way in the kernel CCB

MaxSize == IF ui32VirtualAllocSize = 0 THEN InitialSize ELSE ui32VirtualAllocSize

\* The sizes that the ring may have: the logarithm grows by one, within
\* MIN_SAFE_CCB_SIZE_LOG2 and MAX_SAFE_CCB_SIZE_LOG2 (13 and 18).
Sizes == {s \in InitialSize..MaxSize : \E k \in 0..5 : s = InitialSize * 2^k}

ASSUME ClientCCBAssumption ==
    /\ PaddingSize \in Nat \ {0}
    /\ CommandSizes \subseteq {s \in Nat : s > PaddingSize}
    /\ InitialSize \in Nat \ {0} /\ ui32VirtualAllocSize \in Nat
    /\ {InitialSize, MaxSize} \subseteq Sizes
    /\ \A s \in Sizes : s < MaxSize => 2 * s \in Sizes
    /\ MaxKicks \in Nat \ {0}

Command(s, r) == [eCmdType |-> "COMMAND", size |-> s, ref |-> r]
Padding(s)    == [eCmdType |-> "PADDING", size |-> s, ref |-> 0]
Commands      == {Command(s, r) : s \in CommandSizes, r \in JobRefs}
Headers       == Commands \cup {Padding(s) : s \in PaddingSize..MaxSize}

\* What a location of the ring holds besides a header: nothing the firmware
\* could make sense of, or the inside of a command.
Garbage == [eCmdType |-> "GARBAGE", size |-> 0, ref |-> 0]
Body    == [eCmdType |-> "BODY", size |-> 0, ref |-> 0]
Idle    == [eCmdType |-> "NONE", size |-> 0, ref |-> 0]

VARIABLES
    ccb,                   \* the memory at pvClientCCB
    ui32HostWriteOffset,
    ui32Size,
    ui32ReadOffset,        \* in the control structure, written by the firmware
    fwWriteOffset,         \* the firmware's copy of the write offset
    fwSize,                \* its ui32WrapMask + 1
    kicks,                 \* kick commands under way: write offset and size
    pc,                    \* where the caller is
    cmd,                   \* its command
    free,                  \* ui32FreeSpace, when it was sampled
    ui32RetryCount         \* tries left in RGXAcquireCCB

hostVars   == <<ui32HostWriteOffset, ui32Size>>
fwVars     == <<ui32ReadOffset, fwWriteOffset, fwSize>>
callerVars == <<pc, cmd, free, ui32RetryCount>>
vars       == <<ccb, hostVars, fwVars, kicks, callerVars>>

Offsets == 0..(MaxSize - 1)

\* All offsets lie in the ring as large as its reader knows it.
TypeOK ==
    /\ ccb \in [Offsets -> Headers \cup {Garbage, Body}]
    /\ ui32Size \in Sizes /\ fwSize \in Sizes
    /\ ui32HostWriteOffset \in 0..(ui32Size - 1)
    /\ ui32ReadOffset \in 0..(fwSize - 1)
    /\ fwWriteOffset \in 0..(fwSize - 1)
    /\ kicks \in Seq([woff : Offsets, size : Sizes])
    /\ pc \in {"idle", "try", "decide", "grow", "fill", "release", "kick", "again"}
    /\ cmd \in Commands \cup {Idle}
    /\ free \in Offsets
    /\ ui32RetryCount \in 0..2

\* RGXCreateCCB
Init ==
    /\ ccb = [o \in Offsets |-> Garbage]
    /\ ui32HostWriteOffset = 0
    /\ ui32Size = InitialSize
    /\ ui32ReadOffset = 0
    /\ fwWriteOffset = 0
    /\ fwSize = InitialSize
    /\ kicks = <<>>
    /\ pc = "idle" /\ cmd = Idle /\ free = 0 /\ ui32RetryCount = 0

-----------------------------------------------------------------------------
(* Space.                                                                  *)

\* GET_CCB_SPACE: one byte stays free, lest a full ring looks empty.
Space == (ui32ReadOffset + ui32Size - ui32HostWriteOffset + ui32Size - 1) % ui32Size

\* The bytes between the offsets, as the host sees them.
Unread == (ui32HostWriteOffset + ui32Size - ui32ReadOffset) % ui32Size

\* The bytes up to the end of the ring.
Remain == ui32Size - ui32HostWriteOffset

\* There is room before the end for the command and for the header of a
\* padding command behind it.
FitsBeforeEnd_mutant(s) == ui32HostWriteOffset + s < ui32Size
FitsBeforeEnd(s) == ui32HostWriteOffset + s + PaddingSize <= ui32Size

\* Write a command of n bytes with header h at offset o.
Written(mem, o, h) ==
    [i \in Offsets |-> CASE i = o                     -> h
                         [] i \in (o + 1)..(o + h.size - 1) -> Body
                         [] OTHER                     -> mem[i]]

-----------------------------------------------------------------------------
(* RGXAcquireCCB.                                                          *)

\* A command that could not be held even by an empty ring is refused.
TooBig(s) == s + PaddingSize + 1 > ui32Size

Submit(c) ==
    /\ pc = "idle"
    /\ ~TooBig(c.size)
    /\ cmd' = c
    /\ ui32RetryCount' = 2
    /\ pc' = "try"
    /\ UNCHANGED <<ccb, hostVars, fwVars, kicks, free>>

\* The read offset is sampled while the firmware advances it.
Sample ==
    /\ pc = "try"
    /\ free' = Space
    /\ ui32RetryCount' = ui32RetryCount - 1
    /\ pc' = "decide"
    /\ UNCHANGED <<ccb, hostVars, fwVars, kicks, cmd>>

\* PVRSRV_ERROR_RETRY: the caller comes back with the same command.
Retry == pc' = "again"

AcquireHere ==
    /\ pc = "decide"
    /\ FitsBeforeEnd(cmd.size)
    /\ IF free > cmd.size THEN pc' = "fill" ELSE Retry
    /\ free' = 0
    /\ UNCHANGED <<ccb, hostVars, fwVars, kicks, cmd, ui32RetryCount>>

Growable == ui32VirtualAllocSize > 0 /\ ui32Size < ui32VirtualAllocSize

\* Wrap only when there is no need to grow, or growing is not possible.
MayWrap_mutant(s) == ~Growable \/ free > ui32Size \div 2
MayWrap(s) ==
    /\ ~Growable \/ free > ui32Size \div 2
    /\ free > Remain + s

\* The padding is written now, the write offset moves with the release.
AcquireWrapped ==
    /\ pc = "decide"
    /\ ~FitsBeforeEnd(cmd.size)
    /\ MayWrap(cmd.size)
    /\ ccb' = Written(ccb, ui32HostWriteOffset, Padding(Remain))
    /\ pc' = "fill"
    /\ free' = 0
    /\ UNCHANGED <<hostVars, fwVars, kicks, cmd, ui32RetryCount>>

\* Growing in the middle of wrapped contents would tear them apart.  The read
\* offset is read once more.
MayGrow_mutant == Growable
MayGrow == Growable /\ ui32HostWriteOffset >= ui32ReadOffset

AcquireElse ==
    /\ pc = "decide"
    /\ ~FitsBeforeEnd(cmd.size)
    /\ ~MayWrap(cmd.size)
    /\ IF MayGrow THEN pc' = "grow" ELSE Retry
    /\ free' = 0
    /\ UNCHANGED <<ccb, hostVars, fwVars, kicks, cmd, ui32RetryCount>>

\* The ring doubles; the firmware does not know yet.
Grow ==
    /\ pc = "grow"
    /\ ui32Size' = 2 * ui32Size
    /\ IF ui32RetryCount > 0 THEN pc' = "try" ELSE Retry
    /\ UNCHANGED <<ccb, ui32HostWriteOffset, fwVars, kicks, cmd, free, ui32RetryCount>>

\* _RGXCCBMemChangeSparse cannot allocate the pages.
GrowFails ==
    /\ pc = "grow"
    /\ Retry
    /\ UNCHANGED <<ccb, hostVars, fwVars, kicks, cmd, free, ui32RetryCount>>

\* User space calls again.
TryAgain ==
    /\ pc = "again"
    /\ ui32RetryCount' = 2
    /\ pc' = "try"
    /\ UNCHANGED <<ccb, hostVars, fwVars, kicks, cmd, free>>

-----------------------------------------------------------------------------
(* Filling, RGXReleaseCCB and the kick.                                    *)

\* *ppvBufferSpace
Start == IF FitsBeforeEnd(cmd.size) THEN ui32HostWriteOffset ELSE 0

Fill ==
    /\ pc = "fill"
    /\ ccb' = Written(ccb, Start, cmd)
    /\ pc' = "release"
    /\ UNCHANGED <<hostVars, fwVars, kicks, cmd, free, ui32RetryCount>>

\* Back to user space.
Done ==
    /\ pc' = "idle" /\ cmd' = Idle /\ ui32RetryCount' = 0
    /\ UNCHANGED free

\* User space does not call again, or another thread of the context is first.
GiveUp ==
    /\ pc = "again"
    /\ Done
    /\ UNCHANGED <<ccb, hostVars, fwVars, kicks>>

\* What was written and not released is of no interest to anybody.
Discarded ==
    [o \in Offsets |->
        IF (o + ui32Size - ui32ReadOffset) % ui32Size < Unread
        THEN ccb[o] ELSE Garbage]

\* Another acquire of the same kick failed: the space is not released
\* (rgxta3d.c acquires a second ring after the first).
Abandon ==
    /\ pc = "release"
    /\ ccb' = Discarded
    /\ Done
    /\ UNCHANGED <<hostVars, fwVars, kicks>>

\* The write offset passes the padding, if any, and the command.
Release ==
    /\ pc = "release"
    /\ ui32HostWriteOffset' = (Start + cmd.size) % ui32Size
    /\ pc' = "kick"
    /\ UNCHANGED <<ccb, ui32Size, fwVars, kicks, cmd, free, ui32RetryCount>>

\* ui32CWoffUpdate and ui32CWrapMaskUpdate of the kick command.
KickData_mutant == [woff |-> ui32HostWriteOffset, size |-> fwSize]
KickData == [woff |-> ui32HostWriteOffset, size |-> ui32Size]

Kick ==
    /\ pc = "kick"
    /\ Len(kicks) < MaxKicks
    /\ kicks' = Append(kicks, KickData)
    /\ Done
    /\ UNCHANGED <<ccb, hostVars, fwVars>>

\* RGXScheduleCommand fails; the next kick covers the command.
KickFails ==
    /\ pc = "kick"
    /\ Done
    /\ UNCHANGED <<ccb, hostVars, fwVars, kicks>>

-----------------------------------------------------------------------------
(* The firmware.                                                           *)

FwKick ==
    /\ kicks # <<>>
    /\ fwWriteOffset' = Head(kicks).woff
    /\ fwSize' = Head(kicks).size
    /\ kicks' = Tail(kicks)
    /\ UNCHANGED <<ccb, hostVars, ui32ReadOffset, callerVars>>

\* It executes the command at the read offset, or skips padding.
FwExecute ==
    /\ ui32ReadOffset # fwWriteOffset
    /\ ccb[ui32ReadOffset] \in Headers
    /\ LET n == ccb[ui32ReadOffset].size IN
       /\ ccb' = [o \in Offsets |->
                     IF o \in ui32ReadOffset..(ui32ReadOffset + n - 1)
                     THEN Garbage ELSE ccb[o]]
       /\ ui32ReadOffset' = (ui32ReadOffset + n) % fwSize
    /\ UNCHANGED <<hostVars, fwWriteOffset, fwSize, kicks, callerVars>>

-----------------------------------------------------------------------------
Next ==
    \/ \E c \in Commands : Submit(c)
    \/ Sample \/ AcquireHere \/ AcquireWrapped \/ AcquireElse
    \/ Grow \/ GrowFails \/ TryAgain \/ GiveUp
    \/ Fill \/ Abandon \/ Release \/ Kick \/ KickFails
    \/ FwKick \/ FwExecute

Spec == Init /\ [][Next]_vars

\* The caller runs and user space keeps retrying; the firmware takes kicks
\* and gets on with the commands it knows; what is tried again and again for
\* a command - growing the ring, submitting the kick - is not refused for ever.
Fairness ==
    /\ WF_vars(Sample) /\ WF_vars(AcquireHere) /\ WF_vars(AcquireWrapped)
    /\ WF_vars(AcquireElse) /\ WF_vars(TryAgain) /\ WF_vars(Fill)
    /\ WF_vars(FwKick) /\ WF_vars(FwExecute)
    /\ SF_vars(Grow) /\ SF_vars(Kick)

LiveSpec == Spec /\ Fairness

-----------------------------------------------------------------------------
(* What makes the client CCB correct.                                      *)

\* The commands released and not executed: from header to header, the way
\* DumpCCB lists them.
Walk[n \in 0..(2 * MaxSize)] ==
    IF n >= Unread THEN <<>>
    ELSE LET h == ccb[(ui32ReadOffset + n) % ui32Size] IN
         CASE h \in Commands           -> <<h>> \o Walk[n + h.size]
           [] h \in Headers \ Commands -> Walk[n + h.size]
           [] OTHER                    -> <<Garbage>>

\* Every command released is executed once and in order, though the ring
\* wraps, pads and grows while the firmware reads it (rgxccb.c:1104).
Fifo     == INSTANCE CommandFifo WITH queue <- Walk[0]
FifoSpec == Fifo!Spec

\* Until it has caught up with the host, the firmware finds a command or
\* padding wherever it looks, also while it does not know that the ring has
\* grown (rgxccb.c:2350).
FirmwareMeetsHeaders ==
    /\ ui32ReadOffset # fwWriteOffset => ccb[ui32ReadOffset] \in Headers
    /\ \A i \in 1..Len(kicks) : kicks[i].woff < kicks[i].size

\* The last commands were released and their kick failed: the firmware learns
\* of them with the kick of the next command only.
Unkicked == kicks = <<>> /\ fwWriteOffset # ui32HostWriteOffset

\* A caller that keeps retrying gets its space, whatever the padding and the
\* end of a ring that cannot grow further, unless the kick before was lost
\* (rgxccb.c:1182).
CommandsAreReleased == pc = "try" ~> pc \in {"release", "idle"} \/ Unkicked
=============================================================================
