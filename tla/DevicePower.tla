---------------------------- MODULE DevicePower ----------------------------
(***************************************************************************)
(* The device power manager (services/server/common/power.c) with the      *)
(* Rogue callbacks it drives (devices/rogue/rgxpower.c), the active power  *)
(* MISR (rgxinit.c) and the way commands reach the firmware                *)
(* (rgxfwutils.c).  The power lock is the only lock: whoever holds it may  *)
(* change power states and put commands in the kernel CCB.  The firmware   *)
(* reads that CCB, answers power requests through the power sync prim and  *)
(* publishes ePowState in shared memory, which the driver reads freely.    *)
(*                                                                         *)
(* The ring is a bounded FIFO here; KernelCCB models its offsets.          *)
(*                                                                         *)
(* An operator X_mutant is X with a plausible defect.  No definition uses  *)
(* it; replacing X by it shows which property the defect breaks.           *)
(***************************************************************************)
EXTENDS Naturals, Sequences

CONSTANTS
    Threads,          \* kernel threads that enter the driver
    Misr,             \* the work item of the active power MISR
    NoThread,         \* the power lock is free
    EntryPoints,      \* the operations the threads of this instance perform
    KCCBSize,         \* commands the kernel CCB can hold
    DeferredMax,      \* bound: kicks are not issued beyond this many deferred
    MaxIdleRetries,   \* denials before LOOP_UNTIL_TIMEOUT gives up
    DefaultState,     \* psPowerDev->eDefaultPowerState: OFF with APM, else ON
    FwMayTimeOut,     \* may the firmware fail to answer in time?
    SysPowerFailures  \* the power callbacks of the system layer that may fail

Ops == {"SCHEDULE", "SCHEDULE_SLOT", "SUSPEND", "RESUME", "POWER_DOWN",
        "POWER_UP", "CLOCK", "CLOCK_DEBUGFS", "UNITS", "APM_LATENCY"}

MisrOps == {"FLUSH", "ACTIVE_POWER"}

ASSUME DevicePowerAssumption ==
    /\ Misr \notin Threads
    /\ NoThread \notin Threads \cup {Misr}
    /\ EntryPoints \subseteq Ops
    /\ KCCBSize \in Nat \ {0}
    /\ DeferredMax \in Nat
    /\ MaxIdleRetries \in Nat
    /\ DefaultState \in {"ON", "OFF"}
    /\ FwMayTimeOut \in BOOLEAN
    /\ SysPowerFailures \subseteq {"PRE", "POST"}

VARIABLES
    hPowerLock,               \* holder of the power lock
    eCurrentSysPowerState,
    eCurrentPowerState,
    bRGXPowered,              \* may the LISR touch the GPU?
    deferred,                 \* sKCCBDeferredCommandsListHead
    kccb,                     \* commands between read and write offset
    powSync,                  \* *psPowSyncPrim: has the firmware answered?
    ePowState,                \* psFwSysData->ePowState
    irq,                      \* an interrupt of the firmware is pending
    misr,                     \* the active power MISR is scheduled
    gpuPowered,               \* the system layer supplies the GPU
    pc, op, cur, new, retries, ret   \* locals of each thread

lockVars == <<hPowerLock, eCurrentSysPowerState>>
devVars  == <<eCurrentPowerState, bRGXPowered>>
ccbVars  == <<deferred, kccb>>
fwVars   == <<powSync, ePowState, irq>>
locals   == <<op, cur, new, retries, ret>>
shared   == <<lockVars, devVars, ccbVars, fwVars, misr, gpuPowered>>
vars     == <<shared, pc, locals>>

AllThreads == Threads \cup {Misr}

SysOps     == {"SUSPEND", "RESUME", "POWER_DOWN", "POWER_UP"}
SysTarget(o) == IF o \in {"SUSPEND", "POWER_DOWN"} THEN "OFF" ELSE "ON"
ClockOps   == {"CLOCK", "CLOCK_DEBUGFS"}
KickOps    == {"SCHEDULE", "SCHEDULE_SLOT"}

\* The command each sending location puts in the kernel CCB.
Command == [offSend     |-> "POW_OFF_REQ",
            restoreSend |-> "POW_OFF_REQ",
            idleSend    |-> "POW_FORCED_IDLE_REQ",
            timeoutSend |-> "POW_HOST_TIMEOUT",
            cancelSend  |-> "POW_CANCEL_FORCED_IDLE",
            unitsSend   |-> "POW_NUM_UNITS_CHANGE",
            apmSend     |-> "POW_APM_LATENCY_CHANGE",
            clkSend     |-> "CORECLKSPEEDCHANGE",
            kickSend    |-> "KICK"]

Sending == DOMAIN Command
Acked   == {"POW_OFF_REQ", "POW_FORCED_IDLE_REQ", "POW_CANCEL_FORCED_IDLE",
            "POW_NUM_UNITS_CHANGE"}
Polling == {"offPoll", "restorePoll", "idlePoll", "cancelPoll", "unitsPoll"}

\* Locations at which a thread believes it holds the power lock.
Holding == Sending \cup Polling \cup
           {"locked", "idleReq", "idleLoop", "setPower", "devPre", "sysPre",
            "restore", "restoreStart", "restoreBoot", "sysPost", "devPost",
            "bootPoll", "units", "clkHeld", "clkCancel", "kickDefer", "unlock"}

NotHolding == {"idle", "lock", "tryLock", "relock", "misrIdle", "exit"}

Errors == {"OK", "RETRY", "SYSTEM_STATE_POWERED_OFF", "DEVICE_IDLE_REQUEST_DENIED",
           "DEVICE_POWER_CHANGE_DENIED", "TIMEOUT", "KERNEL_CCB_FULL",
           "PWLOCK_RELEASED_REACQ_FAILED", "SYSTEM_LAYER_FAILED"}

SharedTypeOK ==
    /\ hPowerLock \in AllThreads \cup {NoThread}
    /\ eCurrentSysPowerState \in {"ON", "OFF"}
    /\ eCurrentPowerState \in {"ON", "OFF"}
    /\ bRGXPowered \in BOOLEAN
    /\ deferred \in Seq({"KICK"})
    /\ kccb \in Seq({Command[l] : l \in Sending})
    /\ Len(kccb) <= KCCBSize
    /\ powSync \in BOOLEAN
    /\ ePowState \in {"ON", "IDLE", "FORCED_IDLE", "OFF"}
    /\ irq \in BOOLEAN
    /\ misr \in BOOLEAN
    /\ gpuPowered \in BOOLEAN

LocalsTypeOK ==
    /\ op \in [AllThreads -> Ops \cup MisrOps]
    /\ cur \in [AllThreads -> {"ON", "OFF"}]
    /\ new \in [AllThreads -> {"ON", "OFF"}]
    /\ retries \in [AllThreads -> 0..MaxIdleRetries]
    /\ ret \in [AllThreads -> Errors]

\* Every variable has its type, the ring of the kernel CCB never holds more
\* than fits, and no thread retries more often than the loop allows.
TypeOK ==
    /\ SharedTypeOK
    /\ LocalsTypeOK
    /\ pc \in [AllThreads -> Holding \cup NotHolding]

FirstOp(t) == IF t = Misr THEN "FLUSH" ELSE "SCHEDULE"

\* A finalised device: the system is on, the device in its default state.
Init ==
    /\ hPowerLock = NoThread
    /\ eCurrentSysPowerState = "ON"
    /\ eCurrentPowerState = DefaultState
    /\ bRGXPowered = (DefaultState = "ON")
    /\ deferred = <<>>
    /\ kccb = <<>>
    /\ powSync = TRUE
    /\ ePowState = IF DefaultState = "ON" THEN "IDLE" ELSE "OFF"
    /\ irq = FALSE
    /\ misr = FALSE
    /\ gpuPowered = (DefaultState = "ON")
    /\ pc = [t \in AllThreads |-> "idle"]
    /\ op = [t \in AllThreads |-> FirstOp(t)]
    /\ cur = [t \in AllThreads |-> "OFF"]
    /\ new = [t \in AllThreads |-> "OFF"]
    /\ retries = [t \in AllThreads |-> 0]
    /\ ret = [t \in AllThreads |-> "OK"]

Goto(t, l)       == pc' = [pc EXCEPT ![t] = l]
Result(t, e)     == ret' = [ret EXCEPT ![t] = e]
Fail(t, l, e)    == Goto(t, l) /\ Result(t, e)

-----------------------------------------------------------------------------
(* The power lock.                                                         *)

\* A thread enters the driver through one of the entry points.
Enter(t) ==
    /\ t # Misr
    /\ pc[t] = "idle"
    /\ \E o \in EntryPoints :
         /\ o \in KickOps => Len(deferred) < DeferredMax
         /\ op' = [op EXCEPT ![t] = o]
    /\ Goto(t, "lock")
    /\ UNCHANGED <<shared, cur, new, retries, ret>>

\* PVRSRVPowerLock gives the lock only while the system is powered;
\* _PVRSRVForcedPowerLock always does.
AcquireResult_mutant(t) == "OK"
AcquireResult(t) ==
    IF op[t] \in SysOps \/ eCurrentSysPowerState = "ON"
    THEN "OK" ELSE "SYSTEM_STATE_POWERED_OFF"

PowerLock(t) ==
    /\ pc[t] = "lock"
    /\ hPowerLock = NoThread
    /\ IF AcquireResult(t) = "OK"
       THEN hPowerLock' = t /\ Goto(t, "locked") /\ UNCHANGED ret
       ELSE hPowerLock' = NoThread /\ Fail(t, "exit", AcquireResult(t))
    /\ UNCHANGED <<eCurrentSysPowerState, devVars, ccbVars, fwVars, misr,
                   gpuPowered, op, cur, new, retries>>

\* PVRSRVPowerTryLock, as the active power MISR takes it.
PowerTryLock(t) ==
    /\ pc[t] = "tryLock"
    /\ CASE hPowerLock # NoThread ->
              UNCHANGED hPowerLock /\ Fail(t, "exit", "RETRY")
         [] hPowerLock = NoThread /\ eCurrentSysPowerState = "ON" ->
              hPowerLock' = t /\ Goto(t, "locked") /\ UNCHANGED ret
         [] OTHER ->
              UNCHANGED hPowerLock /\ Fail(t, "exit", "SYSTEM_STATE_POWERED_OFF")
    /\ UNCHANGED <<eCurrentSysPowerState, devVars, ccbVars, fwVars, misr,
                   gpuPowered, op, cur, new, retries>>

\* PVRSRVPowerUnlock releases whatever the lock's state is.
PowerUnlock(t) ==
    /\ pc[t] = "unlock"
    /\ hPowerLock' = NoThread
    /\ Goto(t, "exit")
    /\ UNCHANGED <<eCurrentSysPowerState, devVars, ccbVars, fwVars, misr,
                   gpuPowered, locals>>

\* The active power MISR found the lock taken.
Contended_mutant(t) == FALSE
Contended(t) == op[t] = "ACTIVE_POWER" /\ ret[t] = "RETRY"

\* Return to the caller.  The sunxi debugfs writer ignores the result of
\* PVRSRVDevicePreClockSpeedChange and goes on to the Post call; the MISR
\* looks at the firmware again after its flush, and reschedules itself when
\* the lock was contended.
Exit(t) ==
    /\ pc[t] = "exit"
    /\ CASE op[t] = "CLOCK_DEBUGFS" /\ ret[t] # "OK" ->
              Goto(t, "clkHeld") /\ UNCHANGED <<op, misr>>
         [] op[t] = "FLUSH" -> Goto(t, "misrIdle") /\ UNCHANGED <<op, misr>>
         [] OTHER ->
              /\ Goto(t, "idle")
              /\ op' = [op EXCEPT ![t] = FirstOp(t)]
              /\ misr' = (misr \/ Contended(t))
    /\ Result(t, "OK")
    /\ cur' = [cur EXCEPT ![t] = "OFF"]
    /\ new' = [new EXCEPT ![t] = "OFF"]
    /\ retries' = [retries EXCEPT ![t] = 0]
    /\ UNCHANGED <<lockVars, devVars, ccbVars, fwVars, gpuPowered>>

-----------------------------------------------------------------------------
(* Bodies of the operations, entered with the power lock held.             *)

\* PVRSRVSetDevicePowerStateKM is called with target s.
CallSetPower(t, s) == Goto(t, "setPower") /\ new' = [new EXCEPT ![t] = s]

\* RGXScheduleCommandAndGetKCCBSlot: the device must be on before the kick.
ScheduleBody(t) ==
    /\ op[t] \in KickOps
    /\ CallSetPower(t, "ON")
    /\ UNCHANGED cur

\* PVRSRVSetDeviceSystemPowerState
SysPowerBody(t) ==
    /\ op[t] \in SysOps
    /\ LET target == SysTarget(op[t]) IN
       CASE target = eCurrentSysPowerState -> Goto(t, "unlock") /\ UNCHANGED new
         [] target = "OFF" /\ eCurrentSysPowerState = "ON" ->
              Goto(t, "idleReq") /\ new' = [new EXCEPT ![t] = "OFF"]
         [] OTHER -> CallSetPower(t, DefaultState)
    /\ UNCHANGED cur

\* PVRSRVDevicePreClockSpeedChange and PVRSRVDeviceGPUUnitsPowerChange
\* remember the device state before they ask the firmware to idle.
ClockBody(t) ==
    /\ op[t] \in ClockOps
    /\ cur' = [cur EXCEPT ![t] = eCurrentPowerState]
    /\ Goto(t, IF eCurrentPowerState = "ON" THEN "idleReq" ELSE "clkHeld")
    /\ UNCHANGED new

UnitsBody(t) ==
    /\ op[t] = "UNITS"
    /\ cur' = [cur EXCEPT ![t] = eCurrentPowerState]
    /\ Goto(t, IF eCurrentPowerState = "ON" THEN "idleReq" ELSE "units")
    /\ UNCHANGED new

\* RGXAPMLatencyChange tells the firmware only when there is one.
ApmLatencyNext_mutant == "apmSend"
ApmLatencyNext == IF eCurrentPowerState = "OFF" THEN "unlock" ELSE "apmSend"

ApmLatencyBody(t) ==
    /\ op[t] = "APM_LATENCY"
    /\ Goto(t, ApmLatencyNext)
    /\ UNCHANGED <<cur, new>>

\* RGXActivePowerRequest looks at the firmware again under the lock.
ActivePowerBody(t) ==
    /\ op[t] = "ACTIVE_POWER"
    /\ IF ePowState = "IDLE"
       THEN CallSetPower(t, "OFF")
       ELSE Goto(t, "unlock") /\ UNCHANGED new
    /\ UNCHANGED cur

Body(t) ==
    /\ pc[t] = "locked"
    /\ \/ ScheduleBody(t) \/ SysPowerBody(t) \/ ClockBody(t) \/ UnitsBody(t)
       \/ ApmLatencyBody(t) \/ ActivePowerBody(t)
    /\ UNCHANGED <<shared, op, retries, ret>>

\* The room RGXAcquireKernelCCBSlot finds in the ring.
Room == KCCBSize - Len(kccb)

Smaller(m, n) == IF m < n THEN m ELSE n

\* RGXSendCommandsFromDeferredList without polling: everything that fits.
Flushed ==
    LET n == Smaller(Room, Len(deferred)) IN
    [ring |-> kccb \o SubSeq(deferred, 1, n),
     list |-> SubSeq(deferred, n + 1, Len(deferred))]

\* RGX_MISR_ProcessKCCBDeferredList, under the lock.
FlushBody(t) ==
    /\ pc[t] = "locked"
    /\ op[t] = "FLUSH"
    /\ kccb' = Flushed.ring
    /\ deferred' = Flushed.list
    /\ Goto(t, "unlock")
    /\ UNCHANGED <<lockVars, devVars, fwVars, misr, gpuPowered, locals>>

-----------------------------------------------------------------------------
(* RGXSendCommandAndGetKCCBSlot.                                           *)

\* Where a polled send or the wait for its answer gives up.
OnFailure_mutant(l) ==
    CASE l \in {"idleSend", "idlePoll"}               -> "exit"
      [] l \in {"unitsSend", "unitsPoll", "clkSend"} -> "clkCancel"
      [] OTHER                                        -> "unlock"
OnFailure(l) ==
    IF l \in {"unitsSend", "unitsPoll", "clkSend"} THEN "clkCancel" ELSE "unlock"

\* Where it goes on when the command is in the ring.
OnSent(l) ==
    CASE l = "offSend"     -> "offPoll"
      [] l = "restoreSend" -> "restorePoll"
      [] l = "idleSend"    -> "idlePoll"
      [] l = "cancelSend"  -> "cancelPoll"
      [] l = "unitsSend"   -> "unitsPoll"
      [] l = "clkSend"     -> "clkCancel"
      [] OTHER             -> "unlock"

\* A caller that wants a slot polls for room and flushes what was deferred
\* before it, oldest first.
WantsSlot(t) ==
    /\ pc[t] \in Sending
    /\ ~(pc[t] = "kickSend" /\ op[t] = "SCHEDULE")

HasRoom == Room > 0

NothingDeferred_mutant == TRUE
NothingDeferred == deferred = <<>>

FlushOne(t) ==
    /\ WantsSlot(t)
    /\ deferred # <<>> /\ HasRoom
    /\ kccb' = Append(kccb, Head(deferred))
    /\ deferred' = Tail(deferred)
    /\ UNCHANGED <<lockVars, devVars, fwVars, misr, gpuPowered, pc, locals>>

SendPolled(t) ==
    /\ WantsSlot(t)
    /\ NothingDeferred /\ HasRoom
    /\ kccb' = Append(kccb, Command[pc[t]])
    /\ Goto(t, OnSent(pc[t]))
    /\ UNCHANGED <<lockVars, devVars, deferred, fwVars, misr, gpuPowered, locals>>

\* A full ring is reported to the caller: at once when nothing was deferred,
\* after polling for room otherwise (KernelCCB tells the two apart).
SendFull(t) ==
    /\ WantsSlot(t)
    /\ ~HasRoom
    /\ Fail(t, OnFailure(pc[t]),
            IF pc[t] = "timeoutSend" THEN "TIMEOUT" ELSE "KERNEL_CCB_FULL")
    /\ UNCHANGED <<shared, op, cur, new, retries>>

\* A caller without a slot is never kept waiting: when the ring is full the
\* kick is deferred, a moment after the ring was found full.
SendOrDefer(t) ==
    /\ pc[t] = "kickSend" /\ op[t] = "SCHEDULE"
    /\ IF Flushed.list = <<>> /\ Len(Flushed.ring) < KCCBSize
       THEN kccb' = Append(Flushed.ring, "KICK") /\ deferred' = <<>> /\ Goto(t, "unlock")
       ELSE kccb' = Flushed.ring /\ deferred' = Flushed.list /\ Goto(t, "kickDefer")
    /\ UNCHANGED <<lockVars, devVars, fwVars, misr, gpuPowered, locals>>

DeferKick(t) ==
    /\ pc[t] = "kickDefer"
    /\ deferred' = Append(deferred, "KICK")
    /\ Goto(t, "unlock")
    /\ UNCHANGED <<lockVars, devVars, kccb, fwVars, misr, gpuPowered, locals>>

\* PVRSRVPollForValueKM gives up on the firmware.  The forced idle request
\* then tells the firmware so (RGXFWNotifyHostTimeout).
PollTimedOut(t) ==
    /\ pc[t] \in Polling
    /\ ~powSync
    /\ FwMayTimeOut \/ ePowState = "OFF"
    /\ Fail(t, IF pc[t] = "idlePoll" THEN "timeoutSend" ELSE OnFailure(pc[t]),
            IF pc[t] = "restorePoll" THEN ret[t] ELSE "TIMEOUT")
    /\ UNCHANGED <<shared, op, cur, new, retries>>

-----------------------------------------------------------------------------
(* _PVRSRVDeviceIdleRequestKM with RGXForcedIdleRequest.                   *)

DeviceOffPermitted(t) == op[t] # "UNITS"

AfterIdle(t) ==
    CASE op[t] \in SysOps   -> "setPower"
      [] op[t] \in ClockOps -> "clkHeld"
      [] OTHER              -> "units"

ForcedIdleRequest(t) ==
    /\ pc[t] = "idleReq"
    /\ CASE ePowState = "FORCED_IDLE" -> Goto(t, AfterIdle(t)) /\ UNCHANGED powSync
         [] ePowState = "OFF" ->
              /\ Goto(t, IF DeviceOffPermitted(t) THEN AfterIdle(t) ELSE "idleLoop")
              /\ UNCHANGED powSync
         [] OTHER -> Goto(t, "idleSend") /\ powSync' = FALSE
    /\ UNCHANGED <<lockVars, devVars, ccbVars, ePowState, irq, misr,
                   gpuPowered, locals>>

ForcedIdleAnswered(t) ==
    /\ pc[t] = "idlePoll"
    /\ powSync
    /\ Goto(t, IF ePowState = "FORCED_IDLE" THEN AfterIdle(t) ELSE "idleLoop")
    /\ UNCHANGED <<shared, locals>>

\* The firmware denied the request: drop the lock for a while.
IdleDenied(t) ==
    /\ pc[t] = "idleLoop"
    /\ hPowerLock' = NoThread
    /\ Goto(t, "relock")
    /\ UNCHANGED <<eCurrentSysPowerState, devVars, ccbVars, fwVars, misr,
                   gpuPowered, locals>>

\* What the callers do with a failed idle request: after
\* PWLOCK_RELEASED_REACQ_FAILED there is no lock to release.
AfterIdleError(e) == IF e = "PWLOCK_RELEASED_REACQ_FAILED" THEN "exit" ELSE "unlock"

RetriesLeft_mutant(t) == retries[t] <= MaxIdleRetries
RetriesLeft(t)        == retries[t] < MaxIdleRetries

\* Time has passed without the lock: the request must be made again.
AfterReacquire_mutant(t) == AfterIdle(t)
AfterReacquire(t) == "idleReq"

\* pfnPowerLockAcquire: only the forced variant is certain to succeed.
Reacquire(t) ==
    /\ pc[t] = "relock"
    /\ hPowerLock = NoThread
    /\ \/ /\ AcquireResult(t) # "OK"
          /\ LET e == "PWLOCK_RELEASED_REACQ_FAILED" IN Fail(t, AfterIdleError(e), e)
          /\ UNCHANGED <<hPowerLock, retries>>
       \/ /\ AcquireResult(t) = "OK" /\ RetriesLeft(t)
          /\ hPowerLock' = t
          /\ Goto(t, AfterReacquire(t))
          /\ retries' = [retries EXCEPT ![t] = @ + 1]
          /\ UNCHANGED ret
       \/ /\ AcquireResult(t) = "OK" /\ ~RetriesLeft(t)
          /\ hPowerLock' = t
          /\ LET e == "DEVICE_IDLE_REQUEST_DENIED" IN Fail(t, AfterIdleError(e), e)
          /\ UNCHANGED retries
    /\ UNCHANGED <<eCurrentSysPowerState, devVars, ccbVars, fwVars, misr,
                   gpuPowered, op, cur, new>>

-----------------------------------------------------------------------------
(* PVRSRVSetDevicePowerStateKM.                                            *)

\* What the caller does after a successful transition: a kick is sent, a
\* system transition is recorded, the lock is released otherwise.
PowerChanged(t) ==
    /\ Goto(t, IF op[t] \in KickOps THEN "kickSend" ELSE "unlock")
    /\ eCurrentSysPowerState' =
         IF op[t] \in SysOps THEN SysTarget(op[t]) ELSE eCurrentSysPowerState
    /\ UNCHANGED hPowerLock

\* Nothing to do unless the state changes or the OS asks for it.
SetDevicePowerState(t) ==
    /\ pc[t] = "setPower"
    /\ IF eCurrentPowerState = new[t] /\ op[t] \notin {"SUSPEND", "RESUME"}
       THEN PowerChanged(t) /\ UNCHANGED cur
       ELSE /\ Goto(t, "devPre")
            /\ cur' = [cur EXCEPT ![t] = eCurrentPowerState]
            /\ UNCHANGED lockVars
    /\ UNCHANGED <<devVars, ccbVars, fwVars, misr, gpuPowered, op, new, retries, ret>>

\* RGXPrePowerState: only a transition to OFF involves the firmware.
DevicePrePower(t) ==
    /\ pc[t] = "devPre"
    /\ IF new[t] # cur[t] /\ new[t] = "OFF"
       THEN Goto(t, "offSend") /\ powSync' = FALSE
       ELSE Goto(t, "sysPre") /\ UNCHANGED powSync
    /\ UNCHANGED <<lockVars, devVars, ccbVars, ePowState, irq, misr,
                   gpuPowered, locals>>

\* The firmware answered: it is off, or it denied the request.  Interrupts
\* still pending are waited for before the LISR is told to ignore the GPU; when
\* they do not come back RGX_WaitForInterruptsTimeout schedules the MISRs.
WentOff_mutant == TRUE
WentOff == ePowState = "OFF"

InterruptsServed_mutant == TRUE
InterruptsServed == irq => FwMayTimeOut \/ ~bRGXPowered

PowerOffAnswered(t) ==
    /\ pc[t] = "offPoll"
    /\ powSync
    /\ \/ /\ WentOff
          /\ InterruptsServed
          /\ bRGXPowered' = FALSE
          /\ misr' = (misr \/ irq)
          /\ Goto(t, "sysPre")
          /\ UNCHANGED ret
       \/ /\ ~WentOff
          /\ Fail(t, "unlock", "DEVICE_POWER_CHANGE_DENIED")
          /\ UNCHANGED <<bRGXPowered, misr>>
    /\ UNCHANGED <<lockVars, eCurrentPowerState, ccbVars, fwVars, gpuPowered,
                   op, cur, new, retries>>

SystemPrePower(t) ==
    /\ pc[t] = "sysPre"
    /\ \/ /\ gpuPowered' = (gpuPowered \/ new[t] = "ON")
          /\ Goto(t, "sysPost")
          /\ UNCHANGED ret
       \/ /\ "PRE" \in SysPowerFailures
          /\ Fail(t, "restore", "SYSTEM_LAYER_FAILED")
          /\ UNCHANGED gpuPowered
    /\ UNCHANGED <<lockVars, devVars, ccbVars, fwVars, misr, op, cur, new, retries>>

\* ErrRestorePowerState calls the device callbacks with the states swapped:
\* RGXPrePowerState asks the firmware to go off when the device was being
\* powered up, RGXPostPowerState restarts it when it was being powered down.
RestorePowerState(t) ==
    /\ pc[t] = "restore"
    /\ CASE cur[t] = "OFF" /\ new[t] = "ON" ->
              Goto(t, "restoreSend") /\ powSync' = FALSE
         [] cur[t] = "ON" /\ new[t] = "OFF" ->
              Goto(t, "restoreStart") /\ UNCHANGED powSync
         [] OTHER -> Goto(t, "unlock") /\ UNCHANGED powSync
    /\ UNCHANGED <<lockVars, devVars, ccbVars, ePowState, irq, misr,
                   gpuPowered, locals>>

RestoreAnswered(t) ==
    /\ pc[t] = "restorePoll"
    /\ powSync
    /\ bRGXPowered' = (bRGXPowered /\ ePowState # "OFF")
    /\ Goto(t, "unlock")
    /\ UNCHANGED <<lockVars, eCurrentPowerState, ccbVars, fwVars, misr,
                   gpuPowered, locals>>

\* sunxiPostPowerState gives the power domain back only while power_idle is
\* set, which the silicon revision and debugfs decide.
SupplyAfter(t) == IF new[t] = "ON" THEN {gpuPowered} ELSE {gpuPowered, FALSE}

SystemPostPower(t) ==
    /\ pc[t] = "sysPost"
    /\ \/ /\ gpuPowered' \in SupplyAfter(t)
          /\ Goto(t, "devPost")
          /\ UNCHANGED ret
       \/ /\ "POST" \in SysPowerFailures
          /\ Fail(t, "unlock", "SYSTEM_LAYER_FAILED")
          /\ UNCHANGED gpuPowered
    /\ UNCHANGED <<lockVars, devVars, ccbVars, fwVars, misr, op, cur, new, retries>>

\* RGXPostPowerState: RGXDoStart lets the firmware boot.
DoStart(t) ==
    /\ \/ pc[t] = "devPost" /\ new[t] = "ON" /\ cur[t] = "OFF"
       \/ pc[t] = "restoreStart"
    /\ ePowState' = "ON"
    /\ Goto(t, IF pc[t] = "devPost" THEN "bootPoll" ELSE "restoreBoot")
    /\ UNCHANGED <<lockVars, devVars, ccbVars, powSync, irq, misr, gpuPowered, locals>>

\* The firmware did not start in time.
StartFailed(t) ==
    /\ pc[t] \in {"bootPoll", "restoreBoot"}
    /\ FwMayTimeOut
    /\ Fail(t, "unlock", IF pc[t] = "bootPoll" THEN "TIMEOUT" ELSE ret[t])
    /\ UNCHANGED <<shared, op, cur, new, retries>>

\* The transition is complete: PVRSRVDevicePostPowerStateKM records it.
DevicePostPower(t) ==
    /\ \/ pc[t] = "bootPoll"
       \/ pc[t] = "devPost" /\ ~(new[t] = "ON" /\ cur[t] = "OFF")
    /\ bRGXPowered' = (bRGXPowered \/ pc[t] = "bootPoll")
    /\ eCurrentPowerState' = new[t]
    /\ PowerChanged(t)
    /\ UNCHANGED <<ccbVars, fwVars, misr, gpuPowered, locals>>

DeviceRestored(t) ==
    /\ pc[t] = "restoreBoot"
    /\ bRGXPowered' = TRUE
    /\ Goto(t, "unlock")
    /\ UNCHANGED <<lockVars, eCurrentPowerState, ccbVars, fwVars, misr,
                   gpuPowered, locals>>

-----------------------------------------------------------------------------
(* Clock speed and GPU unit changes on the idle device.                    *)

\* PVRSRVDevicePostClockSpeedChange reads the state afresh.
PostClockSpeedChange(t) ==
    /\ pc[t] = "clkHeld"
    /\ cur' = [cur EXCEPT ![t] = eCurrentPowerState]
    /\ Goto(t, IF eCurrentPowerState # "OFF" /\ ePowState # "OFF"
               THEN "clkSend" ELSE "clkCancel")
    /\ UNCHANGED <<shared, op, new, retries, ret>>

\* RGXDustCountChange: not without a firmware that is forced idle.
DustCountChange(t) ==
    /\ pc[t] = "units"
    /\ IF ePowState = "FORCED_IDLE"
       THEN Goto(t, "unitsSend") /\ powSync' = FALSE
       ELSE Goto(t, "clkCancel") /\ UNCHANGED powSync
    /\ UNCHANGED <<lockVars, devVars, ccbVars, ePowState, irq, misr,
                   gpuPowered, locals>>

\* PVRSRVDeviceIdleCancelRequestKM, if the device was on.
NeedsCancel_mutant(t) == ePowState = "ON"
NeedsCancel(t) == cur[t] = "ON"

IdleCancel(t) ==
    /\ \/ pc[t] = "clkCancel"
       \/ pc[t] = "unitsPoll" /\ powSync
    /\ IF NeedsCancel(t)
       THEN Goto(t, "cancelSend") /\ powSync' = FALSE
       ELSE Goto(t, "unlock") /\ UNCHANGED powSync
    /\ UNCHANGED <<lockVars, devVars, ccbVars, ePowState, irq, misr,
                   gpuPowered, locals>>

CancelAnswered(t) ==
    /\ pc[t] = "cancelPoll"
    /\ powSync
    /\ Goto(t, "unlock")
    /\ UNCHANGED <<shared, locals>>

-----------------------------------------------------------------------------
(* The interrupt handler and the active power MISR.                        *)

Lisr ==
    /\ irq
    /\ bRGXPowered
    /\ irq' = FALSE
    /\ misr' = TRUE
    /\ UNCHANGED <<lockVars, devVars, ccbVars, powSync, ePowState, gpuPowered,
                   pc, locals>>

\* A sender works on a list of its own, so the MISR, which looks at the
\* deferred list without the power lock, may find it empty meanwhile.
ListMoved == \E t \in AllThreads : pc[t] \in Sending

\* RGX_MISRHandler_CheckFWActivePowerState.  Without active power
\* management the main MISR only processes the deferred list.
MisrStart ==
    /\ misr
    /\ pc[Misr] = "idle"
    /\ misr' = FALSE
    /\ op' = [op EXCEPT ![Misr] = "FLUSH"]
    /\ LET flushes == ePowState \in {"ON", "IDLE"} \/ DefaultState = "ON" IN
       \/ flushes /\ ~NothingDeferred /\ Goto(Misr, "lock")
       \/ (flushes => NothingDeferred \/ ListMoved) /\ Goto(Misr, "misrIdle")
    /\ UNCHANGED <<lockVars, devVars, ccbVars, fwVars, gpuPowered,
                   cur, new, retries, ret>>

MisrCheckIdle ==
    /\ pc[Misr] = "misrIdle"
    /\ IF DefaultState = "OFF" /\ ePowState = "IDLE"
       THEN /\ op' = [op EXCEPT ![Misr] = "ACTIVE_POWER"]
            /\ Goto(Misr, "tryLock")
       ELSE Goto(Misr, "idle") /\ UNCHANGED op
    /\ UNCHANGED <<shared, cur, new, retries, ret>>

-----------------------------------------------------------------------------
(* The firmware, as the driver uses it.                                    *)

\* A command is executed.  Work keeps the firmware ON; it goes off or is
\* forced idle only when no work is running, and answers power requests
\* through the power sync prim.
FwExecute ==
    /\ ePowState # "OFF"
    /\ kccb # <<>>
    /\ kccb' = Tail(kccb)
    /\ LET c == Head(kccb) IN
       /\ CASE c = "KICK" /\ ePowState = "IDLE" -> ePowState' = "ON"
            [] c = "POW_OFF_REQ" /\ ePowState \in {"IDLE", "FORCED_IDLE"} ->
                 ePowState' = "OFF"
            [] c = "POW_FORCED_IDLE_REQ" /\ ePowState = "ON" ->
                 ePowState' \in {"ON", "FORCED_IDLE"}
            [] c = "POW_FORCED_IDLE_REQ" /\ ePowState = "IDLE" ->
                 ePowState' = "FORCED_IDLE"
            [] c = "POW_CANCEL_FORCED_IDLE" /\ ePowState = "FORCED_IDLE" ->
                 ePowState' = "IDLE"
            [] OTHER -> UNCHANGED ePowState
       /\ powSync' = (powSync \/ c \in Acked)
    /\ irq' = TRUE
    /\ UNCHANGED <<lockVars, devVars, deferred, misr, gpuPowered, pc, locals>>

\* The running work is finished.
FwGoesIdle ==
    /\ ePowState = "ON"
    /\ ePowState' = "IDLE"
    /\ irq' = TRUE
    /\ UNCHANGED <<lockVars, devVars, ccbVars, powSync, misr, gpuPowered, pc, locals>>

-----------------------------------------------------------------------------
LockStep(t)  == PowerLock(t) \/ Reacquire(t)

OtherStep(t) ==
    \/ PowerTryLock(t) \/ PowerUnlock(t) \/ Exit(t) \/ Body(t) \/ FlushBody(t)
    \/ FlushOne(t) \/ SendPolled(t) \/ SendFull(t) \/ SendOrDefer(t)
    \/ DeferKick(t) \/ PollTimedOut(t) \/ ForcedIdleRequest(t) \/ ForcedIdleAnswered(t)
    \/ IdleDenied(t) \/ SetDevicePowerState(t) \/ DevicePrePower(t)
    \/ PowerOffAnswered(t) \/ SystemPrePower(t) \/ RestorePowerState(t)
    \/ RestoreAnswered(t) \/ SystemPostPower(t) \/ DoStart(t) \/ StartFailed(t)
    \/ DevicePostPower(t) \/ DeviceRestored(t) \/ PostClockSpeedChange(t)
    \/ DustCountChange(t) \/ IdleCancel(t) \/ CancelAnswered(t)

Firmware == FwExecute \/ FwGoesIdle
MisrStep == MisrStart \/ MisrCheckIdle

Next ==
    \/ \E t \in AllThreads : Enter(t) \/ LockStep(t) \/ OtherStep(t)
    \/ Lisr \/ MisrStep \/ Firmware

Spec == Init /\ [][Next]_vars

\* The scheduler runs every thread, the kernel mutex is handed on to its
\* waiters, the interrupt is delivered and the firmware makes progress.
Fairness ==
    /\ \A t \in AllThreads : SF_vars(LockStep(t)) /\ WF_vars(OtherStep(t))
    /\ WF_vars(Lisr) /\ WF_vars(MisrStep)
    /\ WF_vars(FwExecute) /\ WF_vars(FwGoesIdle)

FairSpec == Spec /\ Fairness

-----------------------------------------------------------------------------
(* What makes the power manager correct.                                   *)

\* The power lock belongs to exactly the thread that is between acquiring
\* and releasing it: no operation touches the device without it, none
\* releases it twice (power.c:490), none leaks it on an error path.
PowerLockOwnership ==
    \A t \in AllThreads : pc[t] \in Holding <=> hPowerLock = t

\* A firmware that runs is supplied: the system layer never removes power
\* before the firmware has gone off, nor starts it before power is up.  And
\* whenever the power lock is free, the state the driver recorded is the
\* state of the device: firmware, interrupt gate and supply agree with
\* eCurrentPowerState (the comment at power.c:693).
DriverMatchesDevice ==
    /\ ePowState # "OFF" => gpuPowered
    /\ hPowerLock = NoThread =>
         /\ eCurrentPowerState = "ON" <=> ePowState # "OFF"
         /\ eCurrentPowerState = "ON" <=> bRGXPowered
         /\ eCurrentPowerState = "ON" => gpuPowered

\* The firmware is powered off only when every command given to it, also
\* those that were deferred, has been executed: active power management
\* loses no kick (rgxpower.c:1410).
OffMeansDrained == ePowState = "OFF" => kccb = <<>> /\ deferred = <<>>

\* Once a system transition to OFF is over the device stays off, however
\* kicks, clock changes and the MISR interleave with it.
SystemOffDeviceOff ==
    hPowerLock = NoThread /\ eCurrentSysPowerState = "OFF" =>
        eCurrentPowerState = "OFF"

\* The firmware is never left forced idle when the lock is released: every
\* forced idle is cancelled or ends in power off.
ForcedIdleUnderLock == ePowState = "FORCED_IDLE" => hPowerLock # NoThread

\* The clock changes only while the GPU is idle or off (power.c:1142), even
\* if the lock was dropped while the firmware denied the idle request.
ClockChangedWhileIdle ==
    \A t \in AllThreads : pc[t] = "clkHeld" => ePowState \in {"FORCED_IDLE", "OFF"}

\* The LISR ignores a GPU that is off, so no interrupt may be pending then.
NoInterruptLeftBehind == hPowerLock = NoThread /\ ~bRGXPowered => ~irq

\* A command is only ever added to the kernel CCB for a firmware that runs
\* and by a thread that holds the power lock (rgxfwutils.c:3891).
CommandReachesLiveFirmware ==
    [][Len(kccb') > Len(kccb) =>
         ePowState # "OFF" /\ gpuPowered /\ hPowerLock # NoThread]_vars

\* Every operation returns to its caller, whatever the firmware denies.
OperationsReturn ==
    \A t \in AllThreads : pc[t] # "idle" ~> pc[t] = "idle"

\* Deferred commands are eventually sent (rgxfwutils.c:4188).
DeferredIsSent == deferred # <<>> ~> deferred = <<>>

\* With active power management the GPU is powered down once the callers
\* leave it alone, although the MISR only tries to take the lock and gives
\* up when it is contended.
QuietGpuPowersDown ==
    <>[](\A t \in Threads : pc[t] = "idle") => <>[](ePowState = "OFF")

-----------------------------------------------------------------------------
(* What comments and assertions of the code say and the code does not do.  *)

\* Reacquiring the power lock fails only with PVRSRV_ERROR_RETRY
\* (PVR_ASSERT at power.c:569).
ReacquireFailsWithRetry ==
    \A t \in AllThreads :
        pc[t] = "relock" /\ hPowerLock = NoThread => AcquireResult(t) \in {"OK", "RETRY"}

\* PVRSRVPowerUnlock is called by the holder of the power lock (PVR_ASSERT at
\* power.c:490).
UnlockedByHolder == \A t \in AllThreads : pc[t] = "unlock" => hPowerLock = t

\* When pfnSystemPrePower fails, restoring the device's power state prevents
\* "an inconsistency between the device's actual state and what the driver
\* thinks the state is" (power.c:693).
FailedTransitionIsRestored ==
    hPowerLock = NoThread => (eCurrentPowerState = "ON" <=> ePowState # "OFF")
=============================================================================
