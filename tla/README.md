# Specifications of the PowerVR Rogue kernel driver for the Allwinner A133

`src/` is the kernel side of the PowerVR DDK 1.19 (`pvrsrvkm.ko`, with the
display driver `dc_sunxi.ko`) for a GE8300 in an Allwinner A133. The modules
here specify the part of it that many threads, the interrupt and the firmware
share: who may change the power state, how commands reach the firmware, how
page tables, sync checkpoints, fences, handles and connections are given back
while somebody may still use them, and the two rings whose entries differ in
size. What is described is the build of `config_kernel_sunxi_a133.h`: release
(`PVR_ASSERT` compiled out), no PDUMP, native (no virtualisation), active power
management on, client CCBs that grow, fallback fences, no Linux DVFS.

Files are named relative to `services/server/` unless they start otherwise.

| File | Contents |
| --- | --- |
| `DevicePower.tla` | power manager, Rogue power callbacks, MISR, firmware protocol |
| `DevicePowerProofs.tla` | theorems about it: types, lock and system state; device, firmware and ring |
| `CommandFifo.tla` | what the kernel CCB and a client CCB promise: a FIFO of commands |
| `KernelCCB.tla` | ring, deferred list, return slots, MMU cache invalidations |
| `KernelCCBProofs.tla` | theorems about it: the FIFO, slots and invalidations |
| `MMUCleanup.tla`, `MMUCleanupProofs.tla` | deferred freeing of page tables, composed with `KernelCCB`; theorems |
| `RefCounted.tla` | what is promised for an object with references and uses |
| `SyncCheckpoint.tla`, `SyncCheckpointProofs.tla` | checkpoints of a context against kicks that fail and the firmware; theorems |
| `FallbackSync.tla`, `FallbackSyncProofs.tla` | fences, sync points and timelines; theorems |
| `HandleBase.tla` | handles of a connection or process under bridge calls |
| `Connection.tla`, `ConnectionProofs.tla` | connections and the cleanup thread, composed with `HandleBase`; theorems about both |
| `ClientCCB.tla`, `ClientCCBProofs.tla` | the padded, growing ring of one context; theorems |
| `LossyFifo.tla`, `TLStream.tla`, `TLStreamProofs.tla` | what a Transport Layer stream promises, and its ring; theorems |
| `*MC.tla`, `*.cfg` | instances for TLC |
| `PROJECT.json` | components, runs, source map, hazards, findings, theorems |

Run one with `tlc -config DevicePower_apm.cfg DevicePowerMC.tla` (the `.cfg` is named
after its module and its question), check proofs with `tlapm DevicePowerProofs.tla`.

## 1. The system and its parts

| Part | State | Operations | Interacts with | Hard because |
| --- | --- | --- | --- | --- |
| Power manager, `common/power.c` | power lock, system and device power state | lock, trylock, forced lock; set device or system power; clock, unit, latency changes | callbacks of the device and of the system layer; every caller that needs the GPU | the lock is dropped in the middle of an operation when the firmware denies; two-stage transitions that may fail between the stages |
| Rogue callbacks, `devices/rogue/rgxpower.c` | `bRGXPowered`, power sync prim | pre/post power, forced idle and cancel, dust count, active power request | kernel CCB, firmware, LISR | hand-shake with a processor that may deny, be late or never answer |
| LISR and MISRs, `devices/rogue/rgxinit.c` | interrupt counters, scheduled work items | handle an interrupt, power an idle GPU down, flush deferred commands | power lock (trylock), deferred list | run at any time; look at shared state without the lock |
| Kernel CCB, `devices/rogue/rgxfwutils.c` | ring, offsets, return slots, deferred list | send, poll for room, defer, flush, wait for a slot | firmware reads it while it is written | wrap and full ring, order across deferral, reuse of slots |
| MMU cache flags, `devices/rgxmem.c` | pending flags, next update value | note a change, kick an invalidation, put one in front of a kick | kernel CCB; MMU code without the power lock | flags taken by one thread are another's |
| Page table clean-up, `common/mmu_common.c` | cleanup items | queue, kick, compare the counter, free | cleanup thread, kernel CCB | wrapping counter, retries, "nothing to do" is not "done" |
| Sunxi layer, `system/rogue/sunxi_a133` (under `src/services`) | `power_on`, `power_idle`, clocks, runtime-PM count | pre/post power, debugfs, init, term | power manager; runtime PM | debugfs writes race with transitions; reference count over reloads |
| Handle database, `common/handle.c`; connections | handles, look-up counts, children | allocate, look up, release, purge | bridges, cleanup thread | release against look-up; purge in time slices |
| Sync checkpoints, `common/sync_checkpoint.c` | reference and enqueue counts, pool | alloc, enqueue, signal, free | firmware counts, MISR | object freed only when both sides are done |
| Fallback fences, `common/sync_fallback_server.c` | fences, sync points, timelines | create, merge, wait, signal, resolve | checkpoints, MISR callbacks | last reference against signal |
| Client CCBs, `devices/rgxccb.c` | ring, grow state | acquire, release, grow, shrink | firmware | padding and growth at the end of the ring |
| Streams, `common/tlstream.c` | ring, pending reserve, read in progress | reserve, commit, acquire and release data | producers in any context, one reader | hand-made locking; dropping the oldest under a reader |
| SCP and display class, `common/scp.c`, `common/dc_server.c` | command ring, flip queue | allocate, submit, run, complete | fences, display | order of completion |
| PMRs and device memory, `common/pmr.c`, ... | reference and lock counts | lock, unlock, map, change layout | MMU, heaps | counts of two kinds over one object |
| Arena allocator, hash tables (`src/services/shared/common`) | segments | alloc, free, merge | all memory code | boundary cases |
| Notifiers, events, statistics, bridges, virtualisation, DVFS, other boards | | | | see `components` in `PROJECT.json` |

A command goes this way: a bridge call builds it, takes the power lock, sees to it
that the device is on, puts a pending MMU invalidation in front of it, and writes
both to the kernel CCB; if the ring is full and nobody waits for the answer, the
command is put on a deferred list that later senders or the MISR flush. The firmware
reads the ring, works, publishes its power state and interrupts. The LISR schedules
the MISR, which flushes the list and, when the firmware says IDLE, powers it down.

What makes each part correct:

* power: one owner of the lock; recorded state = actual state whenever the lock is
  free; no command for a firmware that is off, none left behind by a power down;
  clock and unit changes only on an idle GPU; an idle GPU does get powered down.
* kernel CCB: commands executed exactly once, in order of acceptance; an answered slot
  answers its owner's command; work does not overtake the invalidation it needs.
* page tables: not given back before the GPU has dropped its translations.
* checkpoints: reclaimed once, after the last reference and the last use by the firmware; the
  context outlives its users.
* fences: reached objects are whole, foreign checkpoints follow, a merged fence waits for all its
  sources, waiters are woken.
* handles and connections: an object in use is not released; a closed connection is purged in an
  order that waits for the GPU only, and is dealt with in the end.
* client CCBs and streams: whole packets, once, in order; nobody waits for room for ever.
* the parts not yet modelled: see the plan.

## 2. Plan

Done: 1 to 7. The order is that of how much depends on a part.

1. `DevicePower` and the theorems on its types, its lock and the system state.
2. `KernelCCB` against `CommandFifo`.
3. `MMUCleanup` on top of `KernelCCB`.
4. `SyncCheckpoint` against `RefCounted`: counts and pool, the firmware, the deferred clean-up,
   the roll-back of a failed submission.
5. `FallbackSync`: fences, sync points, timelines; wait against signal against release. It keeps
   the state of the checkpoints itself: composing it with 4 would multiply two state spaces that
   touch only in the reference a point holds on its checkpoint.
6. `HandleBase`, and `Connection` composed with it.
7. `ClientCCB` against `CommandFifo`, `TLStream` against `LossyFifo`.
8. `SunxiPower`: runtime-PM reference count over init, transitions, debugfs and term.
9. `SCP`, `PMR`, then the arena allocator as a pure algorithm against a set of intervals.
10. Open against deinitialisation of the device, process-queues MISR on top of `ClientCCB`.

Proofs. Done: every safety property of every module, among them the refinements of `CommandFifo` by both CCBs, of
`RefCounted` by `SyncCheckpoint` and of `LossyFifo` by `TLStream` (section 5).

## 3. How the modules correspond to the code

`map` in `PROJECT.json` gives the lines of every definition. In general:

* A thread's `pc` names the place in its call chain; the locals that matter across a
  place (`cur`, `new`, `retries`, `ret`, ...) are functions on threads. A step runs from
  one access of shared state that others can interleave with to the next.
* The power lock is held for most of an operation, but firmware, interrupt, MISR and
  whatever reads without the lock interleave with every step.
* Firmware commands are records or names; layouts, statistics, logging, the debug dumps and
  memory barriers are left out (the model is sequentially consistent).

### DevicePower

| Code | Model |
| --- | --- |
| `hPowerLock`, `eCurrentSysPowerState`, `eCurrentPowerState`, `bRGXPowered` | variables of those names |
| `PVRSRVPowerLock`, `PVRSRVPowerTryLock`, `_PVRSRVForcedPowerLock`, `PVRSRVPowerUnlock` | `PowerLock`, `PowerTryLock`, `AcquireResult`, `PowerUnlock` |
| `RGXScheduleCommandAndGetKCCBSlot` | operations `SCHEDULE` (no slot wanted) and `SCHEDULE_SLOT` |
| `PVRSRVSetDeviceSystemPowerState` from `PVRSRVDeviceSuspend`/`Resume`, and unforced from shutdown | `SUSPEND`, `RESUME`; `POWER_DOWN`, `POWER_UP` |
| Pre/PostClockSpeedChange; the sunxi debugfs writer | `CLOCK`; `CLOCK_DEBUGFS`, which goes on after an error |
| `PVRSRVDeviceGPUUnitsPowerChange`, `RGXAPMLatencyChange` | `UNITS`, `APM_LATENCY` |
| `_PVRSRVDeviceIdleRequestKM`, `RGXForcedIdleRequest` | `ForcedIdleRequest`, `ForcedIdleAnswered`, `IdleDenied`, `Reacquire` |
| `PVRSRVSetDevicePowerStateKM` and the pre/post callbacks | `SetDevicePowerState`, `DevicePrePower`, `PowerOffAnswered`, `SystemPrePower`, `RestorePowerState`, ..., `DevicePostPower` |
| `RGXSendCommandAndGetKCCBSlot` | `SendPolled`, `SendFull`, `FlushOne`, `SendOrDefer`, `DeferKick` |
| LISR, MISR | `Lisr`, `MisrStart`, `MisrCheckIdle`, operations `FLUSH` and `ACTIVE_POWER` of the thread `Misr` |
| firmware (external) | `FwExecute`, `FwGoesIdle` |

Choices to know about. The ring is a bounded sequence (its offsets are `KernelCCB`'s
subject). The firmware answers every power request, denies a power-off or forced idle
while work runs (a forced idle it may also grant), and never goes off by itself. `SupplyAfter` lets
the sunxi layer keep or drop the power domain, as `power_idle` decides. The repeated flush
inside `RGXPollForGPCommandCompletion` is left out: a polled send succeeds only with an
empty deferred list, and the lock is held. `FwMayTimeOut` and `SysPowerFailures` switch
failing hardware on; the sunxi layer itself never fails.

### KernelCCB, CommandFifo

`ccb`, `ui32WriteOffset`, `ui32ReadOffset` and `rtnSlots` are the shared memory, `deferred`
and `sCommandList` the two lists of `RGXSendCommandsFromDeferredList` (the list is moved aside
as a whole, sent one by one, and the rest put back at its head). A command that wants a
slot polls (`PollRoom`, `PollTimedOut`), others are deferred (`Defer`) or, when memory is
short, abandoned (`Abandon`). `Prepare` is the exchange of the pending cache flags and the
choice of `WorkOf`: an invalidation in front of the kick. `pageTables` and `tlb` count changes
made and changes the GPU has seen; a kick remembers in `needs` what it was scheduled
against. The device is powered throughout, or fails to power up (`PowerMayFail`).

`CommandFifo` has one variable and two actions. `FifoSpec` is its specification under the
mapping `queue <- Ring \o Local \o deferred`: sending a deferred command, setting the list
aside and putting it back are stuttering steps, acceptance appends, the firmware removes the
head.

### MMUCleanup

Extends `KernelCCB`: one thread is the cleanup thread, `SetupCleanup` unlinks page tables
and queues an item, `InvalidateKick` and `InvalidateKicked` frame the thread's call of
`RGXMMUCacheInvalidateKick`, `HasReached` is the comparison of the counter, `FreeMapping` ends
the item: when the comparison holds, when its time is over, or, also before any kick, when the MMU
context has been destroyed and has freed the page tables itself. A kick that fails after it has
taken a value leaves that value in `required`, as `rgxmem.c:200` does; the next kick replaces it.

### SyncCheckpoint, RefCounted

| Code | Model |
| --- | --- |
| `hRefCount`, `hEnqueuedCCBCount`, `ui32FwRefCount` | `refs`, `enq`, `fwRefs` |
| the global list under its lock | `listed` |
| pool with its indices, deferred list, blocks of the arena | `slots` with `wp`, `rp`, `poolCount`, `full`; `deferred`; `imported` |
| `PVRSRVRGXKickSyncKM` up to its exits | `Kick`: resolve, create the update fence, count, publish, schedule, or roll back (`RollbackFences`, `RollbackUpdate`, `AbandonKick`) |
| `SyncCheckpointUnref` | `Unref`, `CheckServiced`, `FreeStep`, `Leave`: one step per lock it takes |
| `SyncCheckpointContextDestroy` | `DestroyBegin`, `CleanCheckpointPool`, `DestroyRefused`, `DestroyContext` |
| firmware (external) | `FirmwareProcesses`: executes a published use and counts it |

`Outstanding(c)` are the uses that are counted and that the firmware will still come to.
`LifeSpec` maps the listed checkpoints to `RefCounted`: a checkpoint may leave the global list,
for the pool, the arena or the deferred list's reaper, only with no reference and no use. Counters
are not bounded to 32 bits here: both sides wrap alike and only their equality is used.
`ScheduleFails` is the exit that the comments of the kick functions rule out; it is an action of
`SpecWithLateFailure` only.

### FallbackSync

A sync point keeps its attached syncs as a list whose first entry, native checkpoint or software
sync, is its flavour. `fbLock`, and a lock per timeline (`Free`), are held across steps only where
the code drops and retakes others in between; everything else done under one lock is one step.
`FenceResolvePVR` is split at the places where it works without the timeline lock, since a
second device's checkpoint may be attached just as the point is found signalled. The notifier
`Notify` takes the timelines one by one, as `_SyncFbTimelineUpdate_NotifyCMD` does under
`hFbContextLock`. Event objects are external: a waiter that opened one before it looked is
not asleep for an event that came after (`woken`). `Dies` with `Purge` is the end of a process:
the cleanup thread frees timelines before fences (the order of `g_aeOrderedFreeList`) and forces
software points of the process's own timelines.

### HandleBase, Connection

All of `handle.c` runs under the lock of a base, so its functions are single steps; `Call`
marks the places where a bridge call goes on without it: between look-up and release
(`using`), while the release callback runs (`releasing`), before the handle is destroyed
(`destroying`). `MarkForFree` is `HandleUnrefAndMaybeMarkForFree` with the iteration over the
children, some of which may have been marked when another refuses. `Targets` are references
that one object holds on another, `busy` objects the GPU works for; `Releasable` is when a
release callback does not answer RETRY. `Connection` adds the process handle base and its count,
the work list, and one step of the cleanup thread per handle it frees: any bridge call of
another connection may come between two.

### ClientCCB

The memory of the ring is a function from offsets to headers, so that a firmware with stale
knowledge reads what is really there: a command body, or garbage after growth. `Sample`
reads the firmware's offset once, as `RGXAcquireCCB` does, `AcquireHere`, `AcquireWrapped`,
`Grow`, `AcquireElse` are its branches. After a RETRY user space comes back with the same command
(`TryAgain`), or gives up, or another thread of the context kicks first (`GiveUp`, then any
`Submit`). The firmware has its own write offset and wrap mask,
replaced by each kick in the order of the kernel CCB (`kicks`). `FifoSpec` maps the commands
found by walking from header to header to the queue of `CommandFifo`.

### TLStream, LossyFifo

A writer is cut where it drops the stream lock or waits: `Reserve`, `LookForSpace`, `Wake`,
`LockRead`, `DropOldest`, `Dropped`, `WriteHeader`, `Commit`. `NOTHING_PENDING` in `ui32Pending` is the
hand-made lock. The reader takes none: `Acquire` notes what it was given, `Release` moves the
read offset. The mapping to `LossyFifo` calls what the reader holds `HeldPackets`; if a writer
ever moved the read offset under it the mapping would leave the specification.

## 4. What the runs show

| Run | Shows |
| --- | --- |
| `DevicePower_apm` | with hardware that answers: types, driver state = device state = supply, nothing undelivered at power off, no forced idle left, clock changed on an idle GPU only, no interrupt left behind, no command for a dead firmware |
| `DevicePower_faults` | with time-outs, failing system layer and no active power management: one owner of the lock, and a suspended system has its device off |
| `DevicePower_live` | operations return, deferred commands are sent, a quiet GPU is powered down |
| `KernelCCB` | ring and lists implement `CommandFifo`; no kick before its invalidation; no slot showing an old answer |
| `MMUCleanup_wrap` | the counter comparison is right across the wrap, with failed submissions |
| `SyncCheckpoint` | checkpoints implement `RefCounted`, none is lost or in two places, the context goes last and leaves nothing |
| `Connection` | objects in use live, what leaks and why, the count of the process base, the order of the purge, closed connections are dealt with |
| `FallbackSync` | attached checkpoints follow, no freed object is reached, merged fences wait for all, waiters return |
| `ClientCCB` | the ring implements `CommandFifo` while it pads and grows; the firmware always meets a header; callers get room |
| `TLStream` | the stream implements `LossyFifo` in all modes; writers proceed |
| `MMUCleanup_skipped`, `Connection_refused` | expected violations, section 7 |

Every property of a passing run is paired with a mutant (`X_mutant` in the modules): the
definition `X` with a plausible defect that makes TLC find the property violated.

### Bounds

* Two threads and the MISR. Every rule here is about one operation meeting another, and the
  MISR is a third party in all runs. The theorems of section 5 hold for any number of threads.
  Threads are symmetric, except in the runs with liveness or a cleanup thread.
* `DevicePower`: `KCCBSize = 2` (1 with faults) and `DeferredMax = 1`: the ring is full, and a
  deferred command is followed by another, within a few steps. `MaxIdleRetries = 1`: a denial
  followed by a retry that succeeds, by one that fails, and by none.
* `KernelCCB`: a ring of 3, two of them usable, and two deferred commands, so that the list is
  sent in part and put back in front of another command. The wrap by mask is a remainder here,
  which lets the ring have a size that is not a power of two. `AllocMayFail` is FALSE: see section 7.
* `MaxChanges` 2 or 4 changes of the page tables: changes during and after an invalidation.
* `SyncModulus` stands for 2^32. In `MMUCleanup` it is 128 with the window of 120, the same
  15/16 as 0xF0000000, and the counter starts one below the wrap (the code: nine below), so
  it wraps in every interesting behaviour. A much smaller modulus would make the distance of
  two live values exceed the window, which 2^32 does not.
* `SyncCheckpoint`: two threads, two checkpoints in two blocks, a pool of one, `MaxEnqueued = 2`
  uses ever counted of one checkpoint: a full pool, a deferred checkpoint with another behind it, and
  a block that is returned while another is in use.
* `Connection`: one process that connects twice at a time and again after a disconnect, two
  threads on one connection; a context with a sub-handle, an object that refers to another one
  and is busy on the GPU, one object of the process. `RetryCount = 1` (the code: 200) with
  `RetryModulus = 4`, so that retries are used up and the counter wraps.
* `FallbackSync`: one software and one PVR timeline of process A, which may die; a client of A
  creates, advances, resolves and destroys, one of B imports, merges and waits (`CallsOf`); two
  points and three fences, each used once, two attached syncs per point. A client closes its timelines last.
* `ClientCCB`: a ring of 16 units that may double once (the code: up to five times, `Sizes`), commands of
  6, 10 and 14 units, padding header 4, two kicks under way: every way to meet the end of the ring, before and after growth,
  with the kick that tells of it still on its way.
* `TLStream`: a ring of 9 units (7 usable), packets of 2 and 3, so that packets end at, before and
  beyond the end of the ring; two writers; all three modes, changed while nothing is acquired.

Deadlock is checked except where a system may stop: no caller has anything left to do
(`SyncCheckpoint`, `FallbackSync`), connections are abandoned (`Connection`), or a reader and a
writer of a stream wait for each other (`TLStream`, section 7).

### Fairness

`FairSpec` in `DevicePower`: weak fairness for the steps of each thread (the kernel schedules
it; the waits in these paths have time-outs), for the LISR and the MISR's start, and for the firmware;
strong fairness for taking the power lock, since a Linux mutex hands itself on to its waiters
and is not kept from one forever. The MISR's trylock has no such right, and that is what
`QuietGpuPowersDown` is about. `FwGoesIdle` is fair: work on the GPU ends (the driver detects and resets
work that does not). Nothing makes callers enter or stop entering; `QuietGpuPowersDown` assumes that
they have stopped, `DeferredIsSent` does not.

`ConnectionLiveSpec`: the cleanup thread runs, and the GPU finishes (or is reset by the driver). `LiveSpec` in
`FallbackSync`: a call that has begun is scheduled and the notifier runs; nothing makes the GPU
signal, a client call or a wait time out, and `WaitersReturn` asks for no more than that.
`LiveSpec` in `ClientCCB`: caller and firmware run; strong fairness for growing and for kicking,
which are tried again and again: memory is not short for ever. `LiveSpec` in `TLStream`: writers run; a
reader that is there reads and returns what it holds or closes; strong fairness for a writer's
look at `bReadPending` every 100 ms, against a reader that sleeps for longer than that when
it finds nothing.

## 5. What is proved

Every theorem is for all values of the constants that satisfy the module's assumption and the
hypotheses named here: any number of threads, connections, handles or kicks, any size of a ring,
any bound. `theorems` in `PROJECT.json` lists them; each module states its inductive
invariant as a conjunction of named parts, shows by one lemma per action (or per part) that a step keeps it,
and draws the properties from it.

### Power: `DevicePowerProofs`

* `TypeCorrect`: `TypeOK` is inductive as it stands.
* `PowerLockHasOneOwner`, `SystemOffKeepsDeviceOff`: without the debugfs writer
  (`"CLOCK_DEBUGFS" \notin EntryPoints`; with it the first is false, section 7), whatever fails. The invariant
  `DeviceInv` adds to the ownership that while someone other than a system transition holds the lock the system is
  on (`HolderIsPowered`), that a transition to OFF past its choice sets the device to OFF (`OffOpsPowerDown`), and
  that device and system agree also while the lock is held (`DeviceFollowsSystem`).
* `DriverKnowsDevice`, `NoKickIsLost`, `ForcedIdleEnds`, `ClockChangesOnIdleGpu`, `NoInterruptIsLost` and the
  action property `CommandsReachLiveFirmware`, under `Reliable`.

The six properties are about the moments when the lock is free, and none is inductive: while it is held the driver's record and the
device differ on purpose. `StateInv` therefore says for every place of the holder what the device is like
(`DeviceAt`), how far a transition has come (`ChangeAt`), when the firmware may be forced idle (`ForcedAt`) and
which request is the last in the ring and whether it has been answered (`RingAt`: the one power sync prim serves
four requests, so that an answer must be to the one asked), and `Free` for the next holder. What a thread knows without the
lock, as when it sleeps between two forced-idle requests, is `OwnLocals`.

`Reliable` has four parts, and each is needed. `~FwMayTimeOut` and `SysPowerFailures = {}`: after a time-out the driver
records what it asked for and not what the device did, and an undone transition leaves a request in the ring (section 7);
what survives failures is the second item above. No debugfs writer: it changes the clock without the lock
when the Pre call fails. `KCCBSize > 1`: with room for a single command the clock change fills the ring, the cancellation of the
forced idle behind it does not fit and `ForcedIdleUnderLock` is violated (TLC finds it); the code's ring has 128
slots (`PVRSRV_APPHINT_KCCB_SIZE_LOG2` of 7).

### Kernel CCB: `KernelCCBProofs`

* `KernelCCBIsFifo`: `Spec => FifoSpec`, the refinement of `CommandFifo`, without hypotheses: any thread may
  time out, and memory or power may fail. `QueueInv`: the lock is held exactly in the stretch of code
  between taking and dropping it (`LockOwned`), only its owner has a local list, and then nothing is deferred behind its back
  (`ListOwned`: otherwise putting the list back at the head would overtake), the work still to be sent belongs to a place of
  the call (`WorkOwned`), and the ring holds commands between its offsets and nowhere else (`RingIsWindow`). The lemmas
  on the ring (`Ring` as a sequence, what writing at one offset and reading at the other does to it) are shared by all that follows.
* `SlotAnswers`: `SlotAnswerIsOwn`, although slots are reused at once and waits time out. `SlotInv`: of all commands of a
  thread in the ring none is behind the one whose slot it watches.
* `WorkSeesItsPageTables`: `KickSeesItsPageTables` if `AllocMayFail = FALSE`: otherwise a pre-kick loses the pending
  flags (section 7). The invariant: every kick in the queue, or about to enter it, has its changes seen or an
  invalidation ahead of it.

### Page tables: `MMUCleanupProofs`

* `KickedMeansInvalidated`: `[](FewUnderWay => KickedIsInvalidated)`, also with failing memory and power. `CleanupInv`: the update
  values continue each other from the sync prim through ring, local list, deferred list and the submission in hand to
  the next value (`Numbered`: a submission that fails takes its value back, and leaves no gap, since nobody else took one
  meanwhile), and the item's value is that of an invalidation in the queue, or the GPU has forgotten the page tables
  (`ItemCovered`). Numbers are integers and values their remainders; `FewUnderWay` says that fewer commands are queued than the
  comparison can tell apart: 2^28 - 1 in the code (2^32 less 0xF0000000), where each takes memory, so that it is a bound on states
  and not on the counter, which wraps freely.

### Handles and connections: `ConnectionProofs`

* `UsedStaysLive`, `LeaksHaveSubHandles`, `ProcessBaseIsCounted`, `ConnectionTypes`, without hypotheses.
  `ConnectionInv`: look-up counts are the numbers of threads that use a handle, a handle being destroyed can be reached by
  nobody through a sub-handle either (`DestroyedAlone`), the base counts the connections that will still release it
  (`ProcessCounted`), a closed connection is in the work list once or in the cleanup thread's hands (`WorkClosed`, `ItemClosed`), and
  what is purged has lost its last user (`PurgedIsReleased`). The counts are cardinalities, by `FiniteSetTheorems`.
* `PurgeWaitsForGpu`: `WaitsOnlyForGpu` under `FreeListOrder`: an object that refers to another is of a
  type that comes earlier in `g_aeOrderedFreeList`, belongs to the same connection (or process), and neither has
  a parent handle. This is what the comment at the list asks for, made precise; the code has nothing
  that enforces it. `TargetsStay` is the additional invariant.

### Client CCB: `ClientCCBProofs`

* `HeadersMet`: `FirmwareMeetsHeaders`; `OffsetsInRing`: `TypeOK`; both from `RingInvariant`, for any
  sizes that double up to a maximum (`ClientCCBAssumption`). `RingInv`: the released part of the ring is a chain of whole
  commands and padding (`Whole`); every kick under way, and what the firmware has been told, ends at a link of that chain in a ring that
  was no larger, and if it has grown since, the chain up to there does not wrap (`Knows`: this is why the firmware's
  stale wrap mask does no harm, and why the ring may grow only while its contents do not wrap); later kicks go further (`Ordered`); and
  the space that a caller has found stays free while the firmware moves on (`Caller`). None of the parts is inductive alone.
* `CommandsInOrder`: `Spec => FifoSpec`, the refinement of `CommandFifo`. The queue is what the recursive `Walk` finds
  from header to header. `WalkIs` shows that in a ring that satisfies `RingInv` the recursion is well defined (there is a
  function that satisfies its equation, built from its end); `RestFollows`, that when a step
  keeps the headers of a part of the ring and what is behind them, what the walk gains at the old write offset it gains at each of them. The inductions over
  the ring take the header closest to the end that is wrong, from the set of distances at which one is (`LeastNatural`, from the library's `WFMin`).
  A release then appends the caller's command, with or without padding before it; the firmware takes the head or skips padding;
  growing, writing and giving up leave the queue as it is.

TLC confirmed each invariant before it was proved, on the constants of the runs and others: `StateInv` on `DevicePower_apm`
with all entry points but the debugfs writer (7,492,547 states) and with `DefaultState = "ON"`
(3,202,907), `CleanupInv` part by part on `MMUCleanup_wrap` (2,231,240), `RingInv` on `ClientCCB` (30,099) and on more than
8 million states of a ring that doubles twice.

### Sync checkpoints: `SyncCheckpointProofs`

* `CheckpointsAreCounted`: `Spec => LifeSpec`, the refinement of `RefCounted`; `CheckpointHasOnePlace`: `OnePlace`;
  `ContextIsFreedLast`: `ContextOutlivesUsers`; `DestroyedLeavesNothing`: `DestroyLeavesNothing`; `CheckpointTypes`: `TypeOK`. All
  from `CheckpointInvariant`, for any finite sets of threads and checkpoints and any size of the pool.
* `UsedCheckpointsAreListed`: `UsedStaysListed` holds as long as scheduling a kick cannot fail after its command was
  written; with that failure it is violated (section 7).

The counts of the code are plain integers, each increment and decrement in another function and often another thread, so `Inv`
says what they count. `refs[c]` is the number of pairs of a holder and a place in its hands (`HeldBy`: the fence, the input of a kick
under way, each entry of the list of checkpoints that a thread has still to drop; `RefsCount`). `enq[c]` is what the firmware
has counted, plus the commands in client CCBs, plus the kicks that have counted but not yet written (`UsesCount`, where
`Using` tells from the place of a kick, roll-back included, which ones it has counted). `ctxRefs` is one for the context
itself, one for each imported block and one for each thread inside the functions that take it (`ContextOK`). With counts that mean
something, `PlacesOK` is inductive: an allocated checkpoint is alive, or deferred, or in the pool, or in transit with a single
thread; two threads that sweep the deferred list at once get disjoint lists because each takes what is
serviced in one step (`Among`). `PoolOK` says that the ring has no repetitions between its indices. That the checkpoints a sweep takes are
serviced and unreferenced stays true while the sweep goes through them with no lock held (`TodoOK`): nobody can get at
a checkpoint without a reference. The refinement needs that last point at `reap` and `check`.

### Fences, sync points and timelines: `FallbackSyncProofs`

* `SyncsFollow`: `AttachedFollow`; `PointsAreWhole`: `ReachedIsWhole`; `MergeLosesNothing`: `MergedWaitsForAll`;
  `FallbackTypes`: `TypeOK`. All from `ReferencesHold`, without hypotheses: also when a checkpoint cannot be allocated and when
  a process dies.

`Inv` has four groups of parts. References: that of a point is one for each fence with it and one for each thread that makes a fence or has
its release still to do (`PointRefs`, `Keeps`), that of a fence one for each handle, waiter and purge (`FenceRefs`), that of a timeline one
for each live point and its handle (`TimelineRefs`); a point without references is in the hands of the one thread that takes it off its
timeline (`UnlistOK`), and what a thread looks at without a reference of its own is in a fence that it has looked up, which keeps the
handle (`LookedOK`). Creation: a point without a sync is known to the thread that creates it only, which holds the lock of
its timeline or is releasing it (`SyncOK`, `LockOK`). States: the attached syncs follow the status of the point, unless a thread is between
the two writes, and the status follows the first sync (`StateOK`). Order: the firmware signals the points of a timeline in order, and the
points of a software timeline are signalled up to its number as long as its process lives (`OrderOK`); so a point that a
merge leaves out is settled or precedes one that the fence, or the thread that makes it, has (`MergedOK`). That is where the proof needs
that numbers are not reused (`SeqOK`; the wrap of the 32-bit number is not modelled) and why fences with software points of a
dead process are excepted: they are errored in no order. Steps are grouped by what they leave alone: `Quiet` steps change no reference,
`StatesAdvance` steps only signal, and each group has one lemma that keeps the parts it does not touch.

### Streams: `TLStreamProofs`

* `StreamTypes`: `TypeOK`, without hypotheses; it needs that one writer at a time has a reservation (`ReservedInv`).
* `PacketsInOrder`: `FifoSpec`, the refinement of `LossyFifo`, from `StreamInvariant`, for any writers, ring and sizes of packets, under
  `~ReconfigureAnyTime`: a change to drop-oldest while the reader holds data breaks both (section 7). A change of the mode
  when the reader holds nothing is covered, and so is a reader that closes and leaves `bReadPending` set.

`StreamInv` looks at the ring from the read offset on (`View`), so that neither the wrap nor a step of the reader moves what is
unread. `Ring`: up to the write offset it is `Framed`, header after header, with a body of the right size behind each; no body begins at
offset 0; and only a mark of DROP_NEWER fills the ring to the last cell but one, into the reserve of `circbufSpaceLeft`, which is
what keeps a second mark out. `Writing`: the offsets that a writer sampled before it dropped the stream lock may be
old, but the reader has only moved on since (`Sampled`), so that the room it saw is still there; a writer that drops packets
keeps the reader away and is at the end of a packet (`Dropping`, the walk over headers at `tlstream.c:829`); what waits for a commit lies whole
behind the write offset (`Committing`). `Reading`: what the reader has acquired ends at the end of a packet, and in drop-oldest
mode `bReadPending` is set as long as it reads. The queue is what the recursive `Walk` finds. `WalkIs` builds the function that
satisfies its equation, `WalkSplit` cuts a walk where a packet begins, `WalkGrown` adds a header behind it, `WalkLater` moves the read
offset; the inductions along the ring go through `FramedInduction`, from the packet closest to the end for which a
claim fails. `LossyFifo` then follows action by action (`WriteFifo`, `ReadFifo`): padding and dropping or releasing only padding
are stutters. TLC checked `StreamInv` on the run's constants (194,030 states) and `ReservedInv` with
`ReconfigureAnyTime = TRUE` (15.9 million).

### Checked by TLC only

* Liveness, which is beyond the prover: `OperationsReturn`, `DeferredIsSent`, `QuietGpuPowersDown`, `ClosedIsDealtWith`, `WaitersReturn`,
  `CommandsAreReleased`, `WritersProceed`.

## 6. What is not modelled

The components marked `not_modelled` in `PROJECT.json`, with reasons: some are planned (section 2),
the rest is generated, for other hardware, or pure I/O. Most of the lines of the repository are register
definitions, generated bridges, the second GPU family (Volcanic) and debug output.
Within the modelled parts:

* everywhere: memory ordering, several devices, virtualisation, statistics and debug dumps,
  allocation failures other than those named;
* power: registration and removal of the device, GPU resets. Where `RGXForcedIdleRequest` retries its
  poll ten times the model polls until it gives up;
* checkpoints: signalling by the host, records, the dump on a stalled UFO, `NO_HARDWARE`;
* handles: private and multi flags, `PVRSRVFindHandle`, sub-handle look-up, kernel handle bases,
  staged destroy; work added to the cleanup thread while the driver unloads; failures in the
  middle of connect; DMA;
* fences: kernel-side timeline and fence objects, references on checkpoints, the wrap of the
  sequence number, the checkpoint state that a host would pass in through
  `SyncFbCheckpointHasSignalled` (`sync_fallback_server.c:2206`, which nothing in the repository
  calls), the forced errors' missing wake-up (a waiter on such a point is woken by the next
  notification), and a software point whose timeline's owner died while only another process holds it
  (nobody signals it any more, the waiter's time-out is its end);
* client CCBs: `RGXCheckSpaceCCB`, `CheckForStalledCCB` (which may see a stall that is none) and `DumpCCB`,
  both of which sample without the context's lock; command layout;
* streams: producer callbacks, partial commits, `bNoWrapPermanent`, end-of-stream marks, node reference counts,
  the flag for dropped packets, a user-space writer that reserves and dies (which leaves
  `ui32Pending` set for good).

## 7. Where code and comments disagree

Two are runs that check one property taken from a comment and find it violated; `findings` in
`PROJECT.json` quotes the lines.

1. `MMUCleanup_skipped`: the cleanup thread frees page tables although the invalidation, taken by
   another thread, is still queued.
2. `Connection_refused`: a destroy that is refused because of a sub-handle leaves the handle marked;
   retries get HANDLE_NOT_FOUND and the purge drops it without its release callback.

The others are properties of the modules, kept for reference; each is violated with
the settings given, as a single INVARIANT of a copy of the named `.cfg`.

| Property | Settings | The disagreement |
| --- | --- | --- |
| `DevicePower!ReacquireFailsWithRetry` | `DevicePower_apm.cfg` | `common/power.c:563-569` asserts that reacquiring the lock fails with RETRY only; after a suspend it is SYSTEM_STATE_POWERED_OFF. Harmless in the release build |
| `DevicePower!UnlockedByHolder` | the same, `EntryPoints <- DebugfsEntryPoints` | `power.c:490` asserts that the holder unlocks; the sunxi debugfs writer (`sunxi_platform.c:548`, 577) ignores a failed Pre clock change and its Post call releases a lock it does not hold |
| `DevicePower!FailedTransitionIsRestored` | the same, `SysPowerFailures = {"PRE"}` | `power.c:693`: undoing a transition that the system layer refused "to prevent an inconsistency" leaves a power-off request in the ring for the next start. The A133 layer does not refuse |
| `KernelCCB!InvalidationIsKept` | `KernelCCB.cfg`, `RingSize = 2`, `AllocMayFail = TRUE`, `PowerMayFail = FALSE` | `devices/rgxmem.c:183`: a pre-kick whose invalidation cannot be submitted loses the pending cache flags |
| `KernelCCB!SpaceIsPolledFor` | the same, `AllocMayFail = FALSE` | `rgxfwutils.c:4171-4174`, "we must poll for space": a caller that wants a slot is refused at once if the ring is full and nothing was deferred |
| `SyncCheckpoint!UsedStaysListed` | `SyncCheckpoint.cfg`, `SPECIFICATION SpecWithLateFailure` | `sync_checkpoint.c:1497`, "If the firmware has serviced all enqueued references": if the kick cannot be scheduled after the command was written (`rgxkicksync.c:632-635` says "we can't fail"), counts are rolled back but the command stays in the client CCB, and the firmware comes to a checkpoint that was freed or reused |
| `FallbackSync!NotifierMeetsFlavour` | `FallbackSync.cfg` | `sync_fallback_server.c:167`, the first attached sync "MUST BE CREATED TOGETHER WITH THE SYNC PT": when the checkpoint cannot be allocated the new point is on the active list without one, and the timeline lock is free |
| `FallbackSync!OnlySWErrored` | the same, `CallsOf <- MergesToo` | `sync_fallback_server.c:1203-1213`: only software points of the dead process are to be errored, but `bError` stays set for the points of the fence that follow |
| `TLStream!DropOldestAccepts` | `TLStream.cfg`, `SPECIFICATION Spec` | `tlstream.c:846`, "there is enough space now": a stream filled in DROP_NEWER and reconfigured to DROP_OLDEST drops nothing (the unsigned comparison at 829), and refuses every packet until somebody reads |

Seen while modelling, without a statement of the code that says otherwise:

* `TLStream`: a reader that opens with reset waits in `TLStreamReset` for the pending reservation, whose
  writer waits, in BLOCK mode or for `bReadPending`, for a reader: neither moves. `bReadPending` stays set when a
  reader closes with data or stops at its read limit. With `ReconfigureAnyTime = TRUE` a
  change to drop-oldest under a reader that holds data breaks `FifoSpec`; the host trace buffer
  changes its mode before `TLStreamReconfigure` may refuse.
* `ClientCCB`: in a ring that cannot grow (`ui32VirtualAllocSize = 0`) a command of more than about half its size
  passes the test for "too big" and is refused with RETRY for ever when the write offset is in the
  middle: `CommandsAreReleased` fails for it. After a lost kick a full ring stays full until
  another kick, which needs room (`Unkicked`).
* `Connection`: a purge that gets RETRY in the process handle base is tried again and counts the
  base down a second time (a negative count, after which the release reports OK without freeing);
  `bNeedRetry` is not reset within a pass, so items may be retried beyond their count, which
  wraps; a failure of connect after the process base was acquired does not release it.
* `FallbackSync`: the allocation failure of resolve releases more than it acquired; a wait may return OK
  for an unsignalled fence when an event comes as its time is used up.
