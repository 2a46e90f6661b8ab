------------------------ MODULE DevicePowerProofs -------------------------
(***************************************************************************)
(* Proofs about DevicePower for every set of threads, every size of the    *)
(* kernel CCB, every bound and with all the faults the module models: the  *)
(* types; the power lock has one owner; and a system that is off stays off,*)
(* the last two as long as every caller heeds the results it is given      *)
(* (CLOCK_DEBUGFS, the debugfs writer of the sunxi layer, does not).       *)
(*                                                                         *)
(* As long as the firmware answers in time and the system layer does not   *)
(* fail (Reliable): what the driver believes of the device is true, the    *)
(* firmware is never left forced idle, is powered off only when it has     *)
(* nothing left to do and not under an interrupt, and commands reach it    *)
(* only while it runs.                                                     *)
(***************************************************************************)
EXTENDS DevicePower, SequenceTheorems, TLAPS

Locations == Holding \cup NotHolding
Commands  == {Command[l] : l \in Sending}

-----------------------------------------------------------------------------
(* Lemmas about the operators of the module.                               *)

\* The locations that send a command, spelled out.
LEMMA SendingLocations ==
    Sending = {"offSend", "restoreSend", "idleSend", "timeoutSend", "cancelSend",
               "unitsSend", "apmSend", "clkSend", "kickSend"}
BY DEF Sending, Command

\* No location is both with and without the power lock.
LEMMA HoldingIsExclusive == Holding \cap NotHolding = {}
BY SendingLocations DEF Holding, NotHolding, Polling

\* A kick is a command.
LEMMA KickIsCommand == "KICK" \in Commands
<1>1. "kickSend" \in Sending
  BY SendingLocations
<1>2. Command["kickSend"] = "KICK"
  BY DEF Command
<1>3. QED
  BY <1>1, <1>2 DEF Commands

\* Flushing deferred commands yields a ring, not overfull, and a list of the
\* right types.
LEMMA FlushedType ==
    ASSUME kccb \in Seq(Commands), Len(kccb) <= KCCBSize,
           deferred \in Seq({"KICK"}), KCCBSize \in Nat
    PROVE  /\ Flushed.ring \in Seq(Commands)
           /\ Len(Flushed.ring) <= KCCBSize
           /\ Flushed.list \in Seq({"KICK"})
<1> DEFINE n == Smaller(Room, Len(deferred))
<1>1. /\ Len(kccb) \in Nat /\ Len(deferred) \in Nat
      /\ Room \in Nat /\ n \in Nat /\ n <= Len(deferred) /\ n <= Room
  <2>1. Len(kccb) \in Nat /\ Len(deferred) \in Nat
    BY LenProperties
  <2>2. Room \in Nat
    BY <2>1 DEF Room
  <2>3. QED
    BY <2>1, <2>2 DEF Smaller
<1>2. \A i \in 1..Len(deferred) : deferred[i] = "KICK"
  BY ElementOfSeq
<1>3. /\ SubSeq(deferred, 1, n) \in Seq(Commands)
      /\ Len(SubSeq(deferred, 1, n)) = n
  <2>1. \A i \in 1..n : deferred[i] \in Commands
    BY <1>1, <1>2, KickIsCommand
  <2> HIDE DEF n
  <2>2. SubSeq(deferred, 1, n) \in Seq(Commands)
    BY <1>1, <2>1, SubSeqProperties
  <2>3. Len(SubSeq(deferred, 1, n)) = IF 1 <= n THEN n - 1 + 1 ELSE 0
    BY <1>1, <2>1, SubSeqProperties
  <2>4. QED
    BY <1>1, <2>2, <2>3
<1>4. SubSeq(deferred, n + 1, Len(deferred)) \in Seq({"KICK"})
  <2> HIDE DEF n
  <2>1. \A i \in (n + 1)..Len(deferred) : deferred[i] \in {"KICK"}
    BY <1>1, <1>2
  <2>2. QED
    BY <1>1, <2>1, SubSeqProperties
<1>5. /\ kccb \o SubSeq(deferred, 1, n) \in Seq(Commands)
      /\ Len(kccb \o SubSeq(deferred, 1, n)) <= KCCBSize
  <2> HIDE DEF n
  <2>1. Len(kccb \o SubSeq(deferred, 1, n)) = Len(kccb) + n
    BY <1>3, ConcatProperties
  <2>2. QED
    BY <1>1, <1>3, <2>1, ConcatProperties DEF Room
<1>6. QED
  BY <1>4, <1>5 DEF Flushed

\* All locations, spelled out.
LEMMA AllLocations ==
    Locations = {"offSend", "restoreSend", "idleSend", "timeoutSend", "cancelSend",
                 "unitsSend", "apmSend", "clkSend", "kickSend", "offPoll",
                 "restorePoll", "idlePoll", "cancelPoll", "unitsPoll", "locked",
                 "idleReq", "idleLoop", "setPower", "devPre", "sysPre", "restore",
                 "restoreStart", "restoreBoot", "sysPost", "devPost", "bootPoll",
                 "units", "clkHeld", "clkCancel", "kickDefer", "unlock", "idle", "lock",
                 "tryLock", "relock", "misrIdle", "exit"}
BY SendingLocations DEF Locations, Holding, NotHolding, Polling

LEMMA HoldingLocated == Holding \subseteq Locations
BY DEF Locations

\* Where a thread goes next while it holds the lock, it holds it still; only a
\* failed idle request may have lost it.
LEMMA NextLocations ==
    /\ \A t \in AllThreads : AfterIdle(t) \in Holding
    /\ \A l \in Sending \cup Polling : OnFailure(l) \in Holding
    /\ \A l \in Sending : OnSent(l) \in Holding
    /\ \A e \in Errors : AfterIdleError(e) \in {"unlock", "exit"}
BY SendingLocations
   DEF AfterIdle, OnFailure, OnSent, AfterIdleError, Holding, Polling

-----------------------------------------------------------------------------
(* Type correctness.                                                       *)

LEMMA TypeInit == Init => TypeOK
<1> SUFFICES ASSUME Init PROVE TypeOK
  OBVIOUS
<1> USE DevicePowerAssumption DEF Init
<1>1. SharedTypeOK
  <2>1. deferred \in Seq({"KICK"}) /\ kccb \in Seq(Commands) /\ Len(kccb) <= KCCBSize
    BY EmptySeq
  <2>2. QED
    BY <2>1 DEF SharedTypeOK, Commands
<1>2. /\ pc \in [AllThreads -> Holding \cup NotHolding]
      /\ op \in [AllThreads -> Ops \cup MisrOps]
  BY DEF NotHolding, FirstOp, Ops, MisrOps
<1>3. /\ cur \in [AllThreads -> {"ON", "OFF"}]
      /\ new \in [AllThreads -> {"ON", "OFF"}]
      /\ retries \in [AllThreads -> 0..MaxIdleRetries]
      /\ ret \in [AllThreads -> Errors]
  BY DEF Errors
<1>4. QED
  BY <1>1, <1>2, <1>3 DEF TypeOK, LocalsTypeOK

\* Going to a location and recording a result keep their types.
LEMMA GotoType ==
    ASSUME TypeOK, NEW t \in AllThreads, NEW l \in Locations, Goto(t, l)
    PROVE  pc' \in [AllThreads -> Holding \cup NotHolding]
BY DEF TypeOK, Goto, Locations

LEMMA ResultType ==
    ASSUME TypeOK, NEW t \in AllThreads, NEW e \in Errors, Result(t, e)
    PROVE  ret' \in [AllThreads -> Errors]
BY DEF TypeOK, LocalsTypeOK, Result

LEMMA TypeStep == TypeOK /\ [Next]_vars => TypeOK'
<1> SUFFICES ASSUME TypeOK, [Next]_vars PROVE TypeOK'
  OBVIOUS
<1> USE DevicePowerAssumption, SendingLocations, NextLocations, AllLocations, HoldingLocated
    DEF shared, lockVars, devVars, ccbVars, fwVars, locals
<1>1. ASSUME NEW t \in AllThreads, Enter(t) PROVE TypeOK'
  <2>1. SharedTypeOK'
    BY <1>1 DEF Enter, TypeOK, SharedTypeOK
  <2>2. pc' \in [AllThreads -> Holding \cup NotHolding]
    <3>1. \E l \in Locations : Goto(t, l)
      BY <1>1 DEF Enter, TypeOK, Fail
    <3>2. QED
      BY <3>1, GotoType
  <2>3. LocalsTypeOK'
    BY <1>1 DEF Enter, TypeOK, LocalsTypeOK, Errors, Fail, Result
  <2>4. QED
    BY <2>1, <2>2, <2>3 DEF TypeOK
<1>2. ASSUME NEW t \in AllThreads, PowerLock(t) PROVE TypeOK'
  <2>1. SharedTypeOK'
    BY <1>2 DEF PowerLock, TypeOK, SharedTypeOK
  <2>2. pc' \in [AllThreads -> Holding \cup NotHolding]
    <3>1. \E l \in Locations : Goto(t, l)
      BY <1>2 DEF PowerLock, TypeOK, Fail
    <3>2. QED
      BY <3>1, GotoType
  <2>3. LocalsTypeOK'
    BY <1>2 DEF PowerLock, TypeOK, LocalsTypeOK, Errors, Fail, Result, AcquireResult
  <2>4. QED
    BY <2>1, <2>2, <2>3 DEF TypeOK
<1>3. ASSUME NEW t \in AllThreads, Reacquire(t) PROVE TypeOK'
  <2>1. SharedTypeOK'
    BY <1>3 DEF Reacquire, TypeOK, SharedTypeOK
  <2>2. pc' \in [AllThreads -> Holding \cup NotHolding]
    <3>1. \E l \in Locations : Goto(t, l)
      BY <1>3 DEF Reacquire, TypeOK, Fail, AfterIdleError, AfterReacquire
    <3>2. QED
      BY <3>1, GotoType
  <2>3. LocalsTypeOK'
    BY <1>3 DEF Reacquire, TypeOK, LocalsTypeOK, Errors, Fail, Result,
           AcquireResult, RetriesLeft
  <2>4. QED
    BY <2>1, <2>2, <2>3 DEF TypeOK
<1>4. ASSUME NEW t \in AllThreads, PowerTryLock(t) PROVE TypeOK'
  <2>1. SharedTypeOK'
    BY <1>4 DEF PowerTryLock, TypeOK, SharedTypeOK
  <2>2. pc' \in [AllThreads -> Holding \cup NotHolding]
    <3>1. \E l \in Locations : Goto(t, l)
      BY <1>4 DEF PowerTryLock, TypeOK, Fail
    <3>2. QED
      BY <3>1, GotoType
  <2>3. LocalsTypeOK'
    BY <1>4 DEF PowerTryLock, TypeOK, LocalsTypeOK, Errors, Fail, Result
  <2>4. QED
    BY <2>1, <2>2, <2>3 DEF TypeOK
<1>5. ASSUME NEW t \in AllThreads, PowerUnlock(t) PROVE TypeOK'
  <2>1. SharedTypeOK'
    BY <1>5 DEF PowerUnlock, TypeOK, SharedTypeOK
  <2>2. pc' \in [AllThreads -> Holding \cup NotHolding]
    <3>1. \E l \in Locations : Goto(t, l)
      BY <1>5 DEF PowerUnlock, TypeOK, Fail
    <3>2. QED
      BY <3>1, GotoType
  <2>3. LocalsTypeOK'
    BY <1>5 DEF PowerUnlock, TypeOK, LocalsTypeOK, Errors, Fail, Result
  <2>4. QED
    BY <2>1, <2>2, <2>3 DEF TypeOK
<1>6. ASSUME NEW t \in AllThreads, Exit(t) PROVE TypeOK'
  <2>1. SharedTypeOK'
    BY <1>6 DEF Exit, TypeOK, SharedTypeOK
  <2>2. pc' \in [AllThreads -> Holding \cup NotHolding]
    <3>1. \E l \in Locations : Goto(t, l)
      BY <1>6 DEF Exit, TypeOK, Fail
    <3>2. QED
      BY <3>1, GotoType
  <2>3. LocalsTypeOK'
    BY <1>6 DEF Exit, TypeOK, LocalsTypeOK, Errors, Fail, Result, FirstOp, Ops,
           MisrOps, SharedTypeOK
  <2>4. QED
    BY <2>1, <2>2, <2>3 DEF TypeOK
<1>7. ASSUME NEW t \in AllThreads, Body(t) PROVE TypeOK'
  <2>1. SharedTypeOK'
    BY <1>7 DEF Body, TypeOK, SharedTypeOK
  <2>2. pc' \in [AllThreads -> Holding \cup NotHolding]
    <3>1. \E l \in Locations : Goto(t, l)
      BY <1>7 DEF Body, ScheduleBody, SysPowerBody, ClockBody, UnitsBody,
                  ApmLatencyBody, ApmLatencyNext, ActivePowerBody, CallSetPower
    <3>2. QED
      BY <3>1, GotoType
  <2>3. LocalsTypeOK'
    <3>1. /\ UNCHANGED <<op, retries, ret>>
          /\ cur' = cur \/ cur' = [cur EXCEPT ![t] = eCurrentPowerState]
          /\ new' = new \/ \E st \in {"ON", "OFF"} : new' = [new EXCEPT ![t] = st]
      BY <1>7 DEF Body, ScheduleBody, SysPowerBody, ClockBody, UnitsBody,
                  ApmLatencyBody, ActivePowerBody, CallSetPower
    <3>2. cur' \in [AllThreads -> {"ON", "OFF"}]
      BY <3>1 DEF TypeOK, SharedTypeOK, LocalsTypeOK
    <3>3. new' \in [AllThreads -> {"ON", "OFF"}]
      BY <3>1 DEF TypeOK, LocalsTypeOK
    <3>4. QED
      BY <3>1, <3>2, <3>3 DEF TypeOK, LocalsTypeOK
  <2>4. QED
    BY <2>1, <2>2, <2>3 DEF TypeOK
<1>8. ASSUME NEW t \in AllThreads, FlushBody(t) PROVE TypeOK'
  <2>1. SharedTypeOK'
    <3>1. /\ kccb \in Seq(Commands) /\ Len(kccb) <= KCCBSize
          /\ deferred \in Seq({"KICK"})
      BY DEF TypeOK, SharedTypeOK, Commands
    <3>2. /\ Flushed.ring \in Seq(Commands)
          /\ Len(Flushed.ring) <= KCCBSize
          /\ Flushed.list \in Seq({"KICK"})
      BY <3>1, FlushedType
    <3>3. QED
      BY <1>8, <3>2 DEF FlushBody, TypeOK, SharedTypeOK, Commands
  <2>2. pc' \in [AllThreads -> Holding \cup NotHolding]
    <3>1. \E l \in Locations : Goto(t, l)
      BY <1>8 DEF FlushBody, TypeOK, Fail
    <3>2. QED
      BY <3>1, GotoType
  <2>3. LocalsTypeOK'
    BY <1>8 DEF FlushBody, TypeOK, LocalsTypeOK, Errors, Fail, Result
  <2>4. QED
    BY <2>1, <2>2, <2>3 DEF TypeOK
<1>9. ASSUME NEW t \in AllThreads, FlushOne(t) PROVE TypeOK'
  <2>1. SharedTypeOK'
    <3>1. deferred \in Seq({"KICK"}) /\ deferred # <<>> /\ kccb \in Seq(Commands)
      BY <1>9 DEF FlushOne, TypeOK, SharedTypeOK, Commands
    <3>2. Len(kccb) < KCCBSize
      BY <1>9, <3>1, LenProperties DEF FlushOne, HasRoom, Room
    <3>3. /\ Head(deferred) \in Commands
          /\ Tail(deferred) \in Seq({"KICK"})
      BY <3>1, HeadTailProperties, KickIsCommand
    <3>4. /\ kccb' \in Seq(Commands)
          /\ Len(kccb') <= KCCBSize
      BY <1>9, <3>1, <3>2, <3>3, AppendProperties, LenProperties DEF FlushOne
    <3>5. QED
      BY <1>9, <3>3, <3>4 DEF FlushOne, TypeOK, SharedTypeOK, Commands
  <2>2. pc' \in [AllThreads -> Holding \cup NotHolding]
    BY <1>9 DEF FlushOne, TypeOK
  <2>3. LocalsTypeOK'
    BY <1>9 DEF FlushOne, TypeOK, LocalsTypeOK, Errors, Fail, Result
  <2>4. QED
    BY <2>1, <2>2, <2>3 DEF TypeOK
<1>10. ASSUME NEW t \in AllThreads, SendPolled(t) PROVE TypeOK'
  <2>1. SharedTypeOK'
    <3>1. kccb \in Seq(Commands) /\ Command[pc[t]] \in Commands
      BY <1>10 DEF SendPolled, WantsSlot, TypeOK, SharedTypeOK, Commands
    <3>2. Len(kccb) < KCCBSize
      BY <1>10, <3>1, LenProperties DEF SendPolled, HasRoom, Room
    <3>3. /\ kccb' \in Seq(Commands)
          /\ Len(kccb') <= KCCBSize
      BY <1>10, <3>1, <3>2, AppendProperties, LenProperties DEF SendPolled
    <3>4. QED
      BY <1>10, <3>3 DEF SendPolled, TypeOK, SharedTypeOK, Commands
  <2>2. pc' \in [AllThreads -> Holding \cup NotHolding]
    <3>1. \E l \in Locations : Goto(t, l)
      BY <1>10 DEF SendPolled, TypeOK, Fail, WantsSlot
    <3>2. QED
      BY <3>1, GotoType
  <2>3. LocalsTypeOK'
    BY <1>10 DEF SendPolled, TypeOK, LocalsTypeOK, Errors, Fail, Result
  <2>4. QED
    BY <2>1, <2>2, <2>3 DEF TypeOK
<1>11. ASSUME NEW t \in AllThreads, SendFull(t) PROVE TypeOK'
  <2>1. SharedTypeOK'
    BY <1>11 DEF SendFull, TypeOK, SharedTypeOK
  <2>2. pc' \in [AllThreads -> Holding \cup NotHolding]
    <3>1. \E l \in Locations : Goto(t, l)
      BY <1>11 DEF SendFull, TypeOK, Fail, WantsSlot
    <3>2. QED
      BY <3>1, GotoType
  <2>3. LocalsTypeOK'
    BY <1>11 DEF SendFull, TypeOK, LocalsTypeOK, Errors, Fail, Result
  <2>4. QED
    BY <2>1, <2>2, <2>3 DEF TypeOK
<1>12. ASSUME NEW t \in AllThreads, SendOrDefer(t) PROVE TypeOK'
  <2>1. SharedTypeOK'
    <3>1. /\ kccb \in Seq(Commands) /\ Len(kccb) <= KCCBSize
          /\ deferred \in Seq({"KICK"})
      BY DEF TypeOK, SharedTypeOK, Commands
    <3>2. /\ Flushed.ring \in Seq(Commands)
          /\ Len(Flushed.ring) <= KCCBSize
          /\ Flushed.list \in Seq({"KICK"})
      BY <3>1, FlushedType
    <3>3. CASE Flushed.list = <<>> /\ Len(Flushed.ring) < KCCBSize
      <4>1. /\ Append(Flushed.ring, "KICK") \in Seq(Commands)
            /\ Len(Append(Flushed.ring, "KICK")) <= KCCBSize
        BY <3>2, <3>3, KickIsCommand, AppendProperties, LenProperties
      <4>2. /\ kccb' \in Seq(Commands) /\ Len(kccb') <= KCCBSize
            /\ deferred' \in Seq({"KICK"})
        BY <1>12, <3>3, <4>1, EmptySeq, SMTT(30) DEF SendOrDefer
      <4>3. QED
        BY <1>12, <4>2 DEF SendOrDefer, TypeOK, SharedTypeOK, Commands
    <3>4. CASE ~(Flushed.list = <<>> /\ Len(Flushed.ring) < KCCBSize)
      <4>1. /\ kccb' \in Seq(Commands) /\ Len(kccb') <= KCCBSize
            /\ deferred' \in Seq({"KICK"})
        BY <1>12, <3>2, <3>4 DEF SendOrDefer
      <4>2. QED
        BY <1>12, <4>1 DEF SendOrDefer, TypeOK, SharedTypeOK, Commands
    <3>5. QED
      BY <3>3, <3>4
  <2>2. pc' \in [AllThreads -> Holding \cup NotHolding]
    <3>1. \E l \in Locations : Goto(t, l)
      BY <1>12 DEF SendOrDefer, TypeOK, Fail
    <3>2. QED
      BY <3>1, GotoType
  <2>3. LocalsTypeOK'
    BY <1>12 DEF SendOrDefer, TypeOK, LocalsTypeOK, Errors, Fail, Result
  <2>4. QED
    BY <2>1, <2>2, <2>3 DEF TypeOK
<1>12a. ASSUME NEW t \in AllThreads, DeferKick(t) PROVE TypeOK'
  <2>1. deferred' \in Seq({"KICK"})
    BY <1>12a, AppendProperties DEF DeferKick, TypeOK, SharedTypeOK
  <2>2. SharedTypeOK'
    BY <1>12a, <2>1 DEF DeferKick, TypeOK, SharedTypeOK
  <2>3. pc' \in [AllThreads -> Holding \cup NotHolding]
    <3>1. \E l \in Locations : Goto(t, l)
      BY <1>12a DEF DeferKick
    <3>2. QED
      BY <3>1, GotoType
  <2>4. LocalsTypeOK'
    BY <1>12a DEF DeferKick, TypeOK, LocalsTypeOK
  <2>5. QED
    BY <2>2, <2>3, <2>4 DEF TypeOK
<1>13. ASSUME NEW t \in AllThreads, PollTimedOut(t) PROVE TypeOK'
  <2>1. SharedTypeOK'
    BY <1>13 DEF PollTimedOut, TypeOK, SharedTypeOK
  <2>2. pc' \in [AllThreads -> Holding \cup NotHolding]
    <3>1. \E l \in Locations : Goto(t, l)
      BY <1>13 DEF PollTimedOut, TypeOK, Fail, Polling
    <3>2. QED
      BY <3>1, GotoType
  <2>3. LocalsTypeOK'
    BY <1>13 DEF PollTimedOut, TypeOK, LocalsTypeOK, Errors, Fail, Result
  <2>4. QED
    BY <2>1, <2>2, <2>3 DEF TypeOK
<1>14. ASSUME NEW t \in AllThreads, ForcedIdleRequest(t) PROVE TypeOK'
  <2>1. SharedTypeOK'
    BY <1>14 DEF ForcedIdleRequest, TypeOK, SharedTypeOK
  <2>2. pc' \in [AllThreads -> Holding \cup NotHolding]
    <3>1. \E l \in Locations : Goto(t, l)
      BY <1>14 DEF ForcedIdleRequest, TypeOK, Fail
    <3>2. QED
      BY <3>1, GotoType
  <2>3. LocalsTypeOK'
    BY <1>14 DEF ForcedIdleRequest, TypeOK, LocalsTypeOK, Errors, Fail, Result
  <2>4. QED
    BY <2>1, <2>2, <2>3 DEF TypeOK
<1>15. ASSUME NEW t \in AllThreads, ForcedIdleAnswered(t) PROVE TypeOK'
  <2>1. SharedTypeOK'
    BY <1>15 DEF ForcedIdleAnswered, TypeOK, SharedTypeOK
  <2>2. pc' \in [AllThreads -> Holding \cup NotHolding]
    <3>1. \E l \in Locations : Goto(t, l)
      BY <1>15 DEF ForcedIdleAnswered, TypeOK, Fail
    <3>2. QED
      BY <3>1, GotoType
  <2>3. LocalsTypeOK'
    BY <1>15 DEF ForcedIdleAnswered, TypeOK, LocalsTypeOK, Errors, Fail, Result
  <2>4. QED
    BY <2>1, <2>2, <2>3 DEF TypeOK
<1>16. ASSUME NEW t \in AllThreads, IdleDenied(t) PROVE TypeOK'
  <2>1. SharedTypeOK'
    BY <1>16 DEF IdleDenied, TypeOK, SharedTypeOK
  <2>2. pc' \in [AllThreads -> Holding \cup NotHolding]
    <3>1. \E l \in Locations : Goto(t, l)
      BY <1>16 DEF IdleDenied, TypeOK, Fail
    <3>2. QED
      BY <3>1, GotoType
  <2>3. LocalsTypeOK'
    BY <1>16 DEF IdleDenied, TypeOK, LocalsTypeOK, Errors, Fail, Result
  <2>4. QED
    BY <2>1, <2>2, <2>3 DEF TypeOK
<1>17. ASSUME NEW t \in AllThreads, SetDevicePowerState(t) PROVE TypeOK'
  <2>1. SharedTypeOK'
    BY <1>17 DEF SetDevicePowerState, TypeOK, SharedTypeOK, PowerChanged, SysTarget
  <2>2. pc' \in [AllThreads -> Holding \cup NotHolding]
    <3>1. \E l \in Locations : Goto(t, l)
      BY <1>17 DEF SetDevicePowerState, TypeOK, Fail, PowerChanged
    <3>2. QED
      BY <3>1, GotoType
  <2>3. LocalsTypeOK'
    BY <1>17 DEF SetDevicePowerState, TypeOK, LocalsTypeOK, Errors, Fail, Result,
           SharedTypeOK, PowerChanged
  <2>4. QED
    BY <2>1, <2>2, <2>3 DEF TypeOK
<1>18. ASSUME NEW t \in AllThreads, DevicePrePower(t) PROVE TypeOK'
  <2>1. SharedTypeOK'
    BY <1>18 DEF DevicePrePower, TypeOK, SharedTypeOK
  <2>2. pc' \in [AllThreads -> Holding \cup NotHolding]
    <3>1. \E l \in Locations : Goto(t, l)
      BY <1>18 DEF DevicePrePower, TypeOK, Fail
    <3>2. QED
      BY <3>1, GotoType
  <2>3. LocalsTypeOK'
    BY <1>18 DEF DevicePrePower, TypeOK, LocalsTypeOK, Errors, Fail, Result
  <2>4. QED
    BY <2>1, <2>2, <2>3 DEF TypeOK
<1>19. ASSUME NEW t \in AllThreads, PowerOffAnswered(t) PROVE TypeOK'
  <2>1. SharedTypeOK'
    BY <1>19 DEF PowerOffAnswered, TypeOK, SharedTypeOK
  <2>2. pc' \in [AllThreads -> Holding \cup NotHolding]
    <3>1. \E l \in Locations : Goto(t, l)
      BY <1>19 DEF PowerOffAnswered, TypeOK, Fail
    <3>2. QED
      BY <3>1, GotoType
  <2>3. LocalsTypeOK'
    BY <1>19 DEF PowerOffAnswered, TypeOK, LocalsTypeOK, Errors, Fail, Result
  <2>4. QED
    BY <2>1, <2>2, <2>3 DEF TypeOK
<1>20. ASSUME NEW t \in AllThreads, SystemPrePower(t) PROVE TypeOK'
  <2>1. SharedTypeOK'
    BY <1>20 DEF SystemPrePower, TypeOK, SharedTypeOK
  <2>2. pc' \in [AllThreads -> Holding \cup NotHolding]
    <3>1. \E l \in Locations : Goto(t, l)
      BY <1>20 DEF SystemPrePower, TypeOK, Fail
    <3>2. QED
      BY <3>1, GotoType
  <2>3. LocalsTypeOK'
    BY <1>20 DEF SystemPrePower, TypeOK, LocalsTypeOK, Errors, Fail, Result
  <2>4. QED
    BY <2>1, <2>2, <2>3 DEF TypeOK
<1>21. ASSUME NEW t \in AllThreads, RestorePowerState(t) PROVE TypeOK'
  <2>1. SharedTypeOK'
    BY <1>21 DEF RestorePowerState, TypeOK, SharedTypeOK
  <2>2. pc' \in [AllThreads -> Holding \cup NotHolding]
    <3>1. \E l \in Locations : Goto(t, l)
      BY <1>21 DEF RestorePowerState, TypeOK, Fail
    <3>2. QED
      BY <3>1, GotoType
  <2>3. LocalsTypeOK'
    BY <1>21 DEF RestorePowerState, TypeOK, LocalsTypeOK, Errors, Fail, Result
  <2>4. QED
    BY <2>1, <2>2, <2>3 DEF TypeOK
<1>22. ASSUME NEW t \in AllThreads, RestoreAnswered(t) PROVE TypeOK'
  <2>1. SharedTypeOK'
    BY <1>22 DEF RestoreAnswered, TypeOK, SharedTypeOK
  <2>2. pc' \in [AllThreads -> Holding \cup NotHolding]
    <3>1. \E l \in Locations : Goto(t, l)
      BY <1>22 DEF RestoreAnswered, TypeOK, Fail
    <3>2. QED
      BY <3>1, GotoType
  <2>3. LocalsTypeOK'
    BY <1>22 DEF RestoreAnswered, TypeOK, LocalsTypeOK, Errors, Fail, Result
  <2>4. QED
    BY <2>1, <2>2, <2>3 DEF TypeOK
<1>23. ASSUME NEW t \in AllThreads, SystemPostPower(t) PROVE TypeOK'
  <2>1. SharedTypeOK'
    BY <1>23 DEF SystemPostPower, TypeOK, SharedTypeOK, SupplyAfter
  <2>2. pc' \in [AllThreads -> Holding \cup NotHolding]
    <3>1. \E l \in Locations : Goto(t, l)
      BY <1>23 DEF SystemPostPower, TypeOK, Fail
    <3>2. QED
      BY <3>1, GotoType
  <2>3. LocalsTypeOK'
    BY <1>23 DEF SystemPostPower, TypeOK, LocalsTypeOK, Errors, Fail, Result
  <2>4. QED
    BY <2>1, <2>2, <2>3 DEF TypeOK
<1>24. ASSUME NEW t \in AllThreads, DoStart(t) PROVE TypeOK'
  <2>1. SharedTypeOK'
    BY <1>24 DEF DoStart, TypeOK, SharedTypeOK
  <2>2. pc' \in [AllThreads -> Holding \cup NotHolding]
    <3>1. \E l \in Locations : Goto(t, l)
      BY <1>24 DEF DoStart, TypeOK, Fail
    <3>2. QED
      BY <3>1, GotoType
  <2>3. LocalsTypeOK'
    BY <1>24 DEF DoStart, TypeOK, LocalsTypeOK, Errors, Fail, Result
  <2>4. QED
    BY <2>1, <2>2, <2>3 DEF TypeOK
<1>25. ASSUME NEW t \in AllThreads, StartFailed(t) PROVE TypeOK'
  <2>1. SharedTypeOK'
    BY <1>25 DEF StartFailed, TypeOK, SharedTypeOK
  <2>2. pc' \in [AllThreads -> Holding \cup NotHolding]
    <3>1. \E l \in Locations : Goto(t, l)
      BY <1>25 DEF StartFailed, TypeOK, Fail
    <3>2. QED
      BY <3>1, GotoType
  <2>3. LocalsTypeOK'
    BY <1>25 DEF StartFailed, TypeOK, LocalsTypeOK, Errors, Fail, Result
  <2>4. QED
    BY <2>1, <2>2, <2>3 DEF TypeOK
<1>26. ASSUME NEW t \in AllThreads, DevicePostPower(t) PROVE TypeOK'
  <2>1. SharedTypeOK'
    BY <1>26 DEF DevicePostPower, TypeOK, SharedTypeOK, PowerChanged, SysTarget,
           LocalsTypeOK
  <2>2. pc' \in [AllThreads -> Holding \cup NotHolding]
    <3>1. \E l \in Locations : Goto(t, l)
      BY <1>26 DEF DevicePostPower, TypeOK, Fail, PowerChanged
    <3>2. QED
      BY <3>1, GotoType
  <2>3. LocalsTypeOK'
    BY <1>26 DEF DevicePostPower, TypeOK, LocalsTypeOK, Errors, Fail, Result
  <2>4. QED
    BY <2>1, <2>2, <2>3 DEF TypeOK
<1>27. ASSUME NEW t \in AllThreads, DeviceRestored(t) PROVE TypeOK'
  <2>1. SharedTypeOK'
    BY <1>27 DEF DeviceRestored, TypeOK, SharedTypeOK
  <2>2. pc' \in [AllThreads -> Holding \cup NotHolding]
    <3>1. \E l \in Locations : Goto(t, l)
      BY <1>27 DEF DeviceRestored, TypeOK, Fail
    <3>2. QED
      BY <3>1, GotoType
  <2>3. LocalsTypeOK'
    BY <1>27 DEF DeviceRestored, TypeOK, LocalsTypeOK, Errors, Fail, Result
  <2>4. QED
    BY <2>1, <2>2, <2>3 DEF TypeOK
<1>28. ASSUME NEW t \in AllThreads, PostClockSpeedChange(t) PROVE TypeOK'
  <2>1. SharedTypeOK'
    BY <1>28 DEF PostClockSpeedChange, TypeOK, SharedTypeOK
  <2>2. pc' \in [AllThreads -> Holding \cup NotHolding]
    <3>1. \E l \in Locations : Goto(t, l)
      BY <1>28 DEF PostClockSpeedChange, TypeOK, Fail
    <3>2. QED
      BY <3>1, GotoType
  <2>3. LocalsTypeOK'
    BY <1>28 DEF PostClockSpeedChange, TypeOK, LocalsTypeOK, Errors, Fail, Result,
           SharedTypeOK
  <2>4. QED
    BY <2>1, <2>2, <2>3 DEF TypeOK
<1>29. ASSUME NEW t \in AllThreads, DustCountChange(t) PROVE TypeOK'
  <2>1. SharedTypeOK'
    BY <1>29 DEF DustCountChange, TypeOK, SharedTypeOK
  <2>2. pc' \in [AllThreads -> Holding \cup NotHolding]
    <3>1. \E l \in Locations : Goto(t, l)
      BY <1>29 DEF DustCountChange, TypeOK, Fail
    <3>2. QED
      BY <3>1, GotoType
  <2>3. LocalsTypeOK'
    BY <1>29 DEF DustCountChange, TypeOK, LocalsTypeOK, Errors, Fail, Result
  <2>4. QED
    BY <2>1, <2>2, <2>3 DEF TypeOK
<1>30. ASSUME NEW t \in AllThreads, IdleCancel(t) PROVE TypeOK'
  <2>1. SharedTypeOK'
    BY <1>30 DEF IdleCancel, TypeOK, SharedTypeOK
  <2>2. pc' \in [AllThreads -> Holding \cup NotHolding]
    <3>1. \E l \in Locations : Goto(t, l)
      BY <1>30 DEF IdleCancel, TypeOK, Fail
    <3>2. QED
      BY <3>1, GotoType
  <2>3. LocalsTypeOK'
    BY <1>30 DEF IdleCancel, TypeOK, LocalsTypeOK, Errors, Fail, Result
  <2>4. QED
    BY <2>1, <2>2, <2>3 DEF TypeOK
<1>31. ASSUME NEW t \in AllThreads, CancelAnswered(t) PROVE TypeOK'
  <2>1. SharedTypeOK'
    BY <1>31 DEF CancelAnswered, TypeOK, SharedTypeOK
  <2>2. pc' \in [AllThreads -> Holding \cup NotHolding]
    <3>1. \E l \in Locations : Goto(t, l)
      BY <1>31 DEF CancelAnswered, TypeOK, Fail
    <3>2. QED
      BY <3>1, GotoType
  <2>3. LocalsTypeOK'
    BY <1>31 DEF CancelAnswered, TypeOK, LocalsTypeOK, Errors, Fail, Result
  <2>4. QED
    BY <2>1, <2>2, <2>3 DEF TypeOK
<1>32. ASSUME Lisr PROVE TypeOK'
  BY <1>32 DEF Lisr, TypeOK, SharedTypeOK, LocalsTypeOK
<1>33. ASSUME MisrStart PROVE TypeOK'
  <2>1. Misr \in AllThreads /\ \E l \in Locations : Goto(Misr, l)
    BY <1>33 DEF MisrStart, AllThreads
  <2>2. pc' \in [AllThreads -> Holding \cup NotHolding]
    BY <2>1, GotoType
  <2>3. QED
    BY <1>33, <2>2 DEF MisrStart, TypeOK, SharedTypeOK, LocalsTypeOK, MisrOps
<1>34. ASSUME MisrCheckIdle PROVE TypeOK'
  <2>1. Misr \in AllThreads /\ \E l \in Locations : Goto(Misr, l)
    BY <1>34 DEF MisrCheckIdle, AllThreads
  <2>2. pc' \in [AllThreads -> Holding \cup NotHolding]
    BY <2>1, GotoType
  <2>3. op' \in [AllThreads -> Ops \cup MisrOps]
    BY <1>34, <2>1 DEF MisrCheckIdle, TypeOK, LocalsTypeOK, MisrOps
  <2>4. UNCHANGED <<shared, cur, new, retries, ret>>
    BY <1>34 DEF MisrCheckIdle
  <2>5. SharedTypeOK'
    BY <2>4 DEF shared, TypeOK, SharedTypeOK
  <2>6. QED
    BY <2>2, <2>3, <2>4, <2>5 DEF TypeOK, LocalsTypeOK
<1>35. ASSUME FwExecute PROVE TypeOK'
  <2>1. kccb \in Seq(Commands) /\ kccb # <<>> /\ Len(kccb) <= KCCBSize
    BY <1>35 DEF FwExecute, TypeOK, SharedTypeOK, Commands
  <2>2. kccb' \in Seq(Commands) /\ Len(kccb') <= KCCBSize
    BY <1>35, <2>1, HeadTailProperties, LenProperties DEF FwExecute
  <2>3. ePowState' \in {"ON", "IDLE", "FORCED_IDLE", "OFF"} /\ powSync' \in BOOLEAN
    BY <1>35 DEF FwExecute, TypeOK, SharedTypeOK
  <2>4. QED
    BY <1>35, <2>2, <2>3 DEF FwExecute, TypeOK, SharedTypeOK, LocalsTypeOK, Commands
<1>36. ASSUME FwGoesIdle PROVE TypeOK'
  BY <1>36 DEF FwGoesIdle, TypeOK, SharedTypeOK, LocalsTypeOK
<1>37. CASE UNCHANGED vars
  BY <1>37 DEF vars, TypeOK, SharedTypeOK, LocalsTypeOK
<1>38. QED
  BY <1>1, <1>2, <1>3, <1>4, <1>5, <1>6, <1>7, <1>8, <1>9, <1>10, <1>11,
     <1>12, <1>12a, <1>13, <1>14, <1>15, <1>16, <1>17, <1>18, <1>19, <1>20,
     <1>21, <1>22, <1>23, <1>24, <1>25, <1>26, <1>27, <1>28, <1>29, <1>30,
     <1>31, <1>32, <1>33, <1>34, <1>35, <1>36, <1>37
     DEF Next, LockStep, OtherStep, MisrStep, Firmware

\* Every variable always has its type, and the kernel CCB never holds more than
\* fits, whatever times out or fails (rgxfwutils.c:3572).
THEOREM TypeCorrect == Spec => []TypeOK
<1>1. TypeOK /\ [Next]_vars => TypeOK'
  BY TypeStep
<1>2. QED
  BY TypeInit, <1>1, PTL DEF Spec

-----------------------------------------------------------------------------
(* The power lock and the state of the system.                             *)

\* The operations that end with the system off, and where they have not yet
\* chosen, or no longer need, the power state they set the device to.
OffOps    == {"SUSPEND", "POWER_DOWN"}
Undecided == {"idle", "lock", "locked", "unlock", "exit"}

\* Everyone heeds results.
NoDebugfs == \A t \in AllThreads : op[t] # "CLOCK_DEBUGFS"

\* Only a system transition works on a system that is off.
HolderIsPowered ==
    \A t \in AllThreads :
        pc[t] \in Holding /\ op[t] \notin SysOps => eCurrentSysPowerState = "ON"

\* A transition of the system to OFF sets the device to OFF.
OffOpsPowerDown ==
    \A t \in AllThreads :
        op[t] \in OffOps /\ pc[t] \notin Undecided => new[t] = "OFF"

\* This holds also while the lock is held.
DeviceFollowsSystem == eCurrentSysPowerState = "OFF" => eCurrentPowerState = "OFF"

\* The inductive invariant.  Mutual exclusion makes HolderIsPowered inductive:
\* the one who turns the system off is the only holder.
DeviceInv ==
    /\ TypeOK
    /\ PowerLockOwnership
    /\ NoDebugfs
    /\ HolderIsPowered
    /\ OffOpsPowerDown
    /\ DeviceFollowsSystem

-----------------------------------------------------------------------------
\* A thread that is inside its operation moves on, keeps the lock and leaves
\* the power states alone.
LEMMA HeldStep ==
    ASSUME DeviceInv, TypeOK', NEW t \in AllThreads, NEW l \in Holding,
           pc[t] \in Holding \ {"locked", "unlock"}, Goto(t, l),
           UNCHANGED <<hPowerLock, eCurrentSysPowerState, eCurrentPowerState, op, new>>
    PROVE  DeviceInv'
<1> USE DEF DeviceInv, Goto
<1>1. pc \in [AllThreads -> Holding \cup NotHolding]
  BY DEF TypeOK
<1>2. PowerLockOwnership'
  BY <1>1 DEF PowerLockOwnership
<1>3. HolderIsPowered'
  BY <1>1 DEF HolderIsPowered
<1>4. OffOpsPowerDown'
  <2>1. pc[t] \notin Undecided
    BY SendingLocations DEF Undecided, Holding, Polling
  <2>2. QED
    BY <1>1, <2>1 DEF OffOpsPowerDown
<1>5. QED
  BY <1>2, <1>3, <1>4 DEF NoDebugfs, DeviceFollowsSystem

\* A thread outside its operation moves on outside it.
LEMMA OutsideStep ==
    ASSUME DeviceInv, TypeOK', NEW t \in AllThreads, NEW l \in NotHolding \ {"relock"},
           pc[t] \in NotHolding, Goto(t, l), NEW o, op' = [op EXCEPT ![t] = o],
           o # "CLOCK_DEBUGFS", l \in {"misrIdle", "tryLock"} => o \notin OffOps,
           UNCHANGED <<hPowerLock, eCurrentSysPowerState, eCurrentPowerState>>,
           \A u \in AllThreads \ {t} : new'[u] = new[u]
    PROVE  DeviceInv'
<1> USE HoldingIsExclusive DEF DeviceInv, Goto
<1>1. /\ pc \in [AllThreads -> Holding \cup NotHolding]
      /\ op \in [AllThreads -> Ops \cup MisrOps]
  BY DEF TypeOK, LocalsTypeOK
<1>2. PowerLockOwnership'
  BY <1>1 DEF PowerLockOwnership
<1>3. NoDebugfs'
  BY <1>1 DEF NoDebugfs
<1>4. HolderIsPowered'
  BY <1>1 DEF HolderIsPowered
<1>5. OffOpsPowerDown'
  <2>1. l \in Undecided \/ o \notin OffOps
    BY DEF NotHolding, Undecided
  <2>2. QED
    BY <1>1, <2>1 DEF OffOpsPowerDown
<1>6. QED
  BY <1>2, <1>3, <1>4, <1>5 DEF DeviceFollowsSystem

\* A transition is complete: the device is in the state it was set to, and a
\* system transition is recorded at the same time.
LEMMA PowerChangedStep ==
    ASSUME DeviceInv, TypeOK', NEW t \in AllThreads,
           pc[t] \in Holding \ {"locked", "unlock"}, PowerChanged(t),
           eCurrentPowerState' = new[t], UNCHANGED <<op, new>>
    PROVE  DeviceInv'
<1> USE DEF DeviceInv
<1>1. /\ pc \in [AllThreads -> Holding \cup NotHolding]
      /\ NoThread \notin AllThreads
  BY DevicePowerAssumption DEF TypeOK, AllThreads
<1>2. PICK l \in {"kickSend", "unlock"} : pc' = [pc EXCEPT ![t] = l]
  BY DEF PowerChanged, Goto
<1>3. l \in Holding /\ pc[t] \notin Undecided
  BY SendingLocations DEF Holding, Polling, Undecided
<1>4. PowerLockOwnership'
  BY <1>1, <1>2, <1>3 DEF PowerLockOwnership, PowerChanged
<1>5. \A u \in AllThreads : pc'[u] \in Holding => u = t
  BY <1>1, <1>2, <1>3 DEF PowerLockOwnership
<1>6. HolderIsPowered'
  BY <1>3, <1>5 DEF HolderIsPowered, PowerChanged
<1>7. OffOpsPowerDown'
  BY <1>1, <1>2, <1>3 DEF OffOpsPowerDown
<1>8. DeviceFollowsSystem'
  <2>1. CASE op[t] \in SysOps
    BY <2>1, <1>3 DEF DeviceFollowsSystem, PowerChanged, SysTarget,
           OffOpsPowerDown, OffOps
  <2>2. CASE op[t] \notin SysOps
    BY <2>2 DEF DeviceFollowsSystem, PowerChanged, HolderIsPowered
  <2>3. QED
    BY <2>1, <2>2
<1>9. QED
  BY <1>4, <1>6, <1>7, <1>8 DEF NoDebugfs

\* A step of the hardware, or of nobody, touches nothing of this.
LEMMA ForeignStep ==
    ASSUME DeviceInv, TypeOK',
           UNCHANGED <<hPowerLock, eCurrentSysPowerState, eCurrentPowerState, pc, op, new>>
    PROVE  DeviceInv'
BY DEF DeviceInv, PowerLockOwnership, NoDebugfs, HolderIsPowered, OffOpsPowerDown,
       DeviceFollowsSystem

LEMMA DeviceInit == Init => DeviceInv
<1> SUFFICES ASSUME Init PROVE DeviceInv
  OBVIOUS
<1>1. TypeOK
  BY TypeInit
<1>2. \A t \in AllThreads : pc[t] = "idle" /\ op[t] \in {"SCHEDULE", "FLUSH"}
  BY DEF Init, FirstOp
<1>3. \A t \in AllThreads : t # NoThread
  BY DevicePowerAssumption DEF AllThreads
<1>4. "idle" \notin Holding
  BY SendingLocations DEF Holding, Polling
<1>5. PowerLockOwnership /\ HolderIsPowered
  BY <1>2, <1>3, <1>4 DEF Init, PowerLockOwnership, HolderIsPowered
<1>6. QED
  BY <1>1, <1>2, <1>5
     DEF Init, DeviceInv, NoDebugfs, OffOpsPowerDown, Undecided, DeviceFollowsSystem

-----------------------------------------------------------------------------
LEMMA DeviceStep ==
    ASSUME "CLOCK_DEBUGFS" \notin EntryPoints, DeviceInv, [Next]_vars
    PROVE  DeviceInv'
<1>0. TypeOK /\ TypeOK'
  BY TypeStep DEF DeviceInv
<1> USE <1>0, SendingLocations, NextLocations, HoldingIsExclusive
    DEF shared, lockVars, devVars, ccbVars, fwVars, locals
<1>1. ASSUME NEW t \in AllThreads, SendPolled(t) PROVE DeviceInv'
  <2>1. pc[t] \in Holding \ {"locked", "unlock"} /\ \E l \in Holding : Goto(t, l)
    BY <1>1 DEF SendPolled, WantsSlot, Fail, Holding, Polling
  <2>2. UNCHANGED <<hPowerLock, eCurrentSysPowerState, eCurrentPowerState, op, new>>
    BY <1>1 DEF SendPolled
  <2>3. QED
    BY <2>1, <2>2, HeldStep
<1>2. ASSUME NEW t \in AllThreads, SendFull(t) PROVE DeviceInv'
  <2>1. pc[t] \in Holding \ {"locked", "unlock"} /\ \E l \in Holding : Goto(t, l)
    BY <1>2 DEF SendFull, WantsSlot, Fail, Holding, Polling
  <2>2. UNCHANGED <<hPowerLock, eCurrentSysPowerState, eCurrentPowerState, op, new>>
    BY <1>2 DEF SendFull
  <2>3. QED
    BY <2>1, <2>2, HeldStep
<1>3. ASSUME NEW t \in AllThreads, SendOrDefer(t) PROVE DeviceInv'
  <2>1. pc[t] \in Holding \ {"locked", "unlock"} /\ \E l \in Holding : Goto(t, l)
    BY <1>3 DEF SendOrDefer, Fail, Holding, Polling
  <2>2. UNCHANGED <<hPowerLock, eCurrentSysPowerState, eCurrentPowerState, op, new>>
    BY <1>3 DEF SendOrDefer
  <2>3. QED
    BY <2>1, <2>2, HeldStep
<1>3a. ASSUME NEW t \in AllThreads, DeferKick(t) PROVE DeviceInv'
  <2>1. pc[t] \in Holding \ {"locked", "unlock"} /\ \E l \in Holding : Goto(t, l)
    BY <1>3a DEF DeferKick, Holding
  <2>2. UNCHANGED <<hPowerLock, eCurrentSysPowerState, eCurrentPowerState, op, new>>
    BY <1>3a DEF DeferKick
  <2>3. QED
    BY <2>1, <2>2, HeldStep
<1>4. ASSUME NEW t \in AllThreads, PollTimedOut(t) PROVE DeviceInv'
  <2>1. pc[t] \in Holding \ {"locked", "unlock"} /\ \E l \in Holding : Goto(t, l)
    BY <1>4 DEF PollTimedOut, Fail, Holding, Polling
  <2>2. UNCHANGED <<hPowerLock, eCurrentSysPowerState, eCurrentPowerState, op, new>>
    BY <1>4 DEF PollTimedOut
  <2>3. QED
    BY <2>1, <2>2, HeldStep
<1>5. ASSUME NEW t \in AllThreads, ForcedIdleRequest(t) PROVE DeviceInv'
  <2>1. pc[t] \in Holding \ {"locked", "unlock"} /\ \E l \in Holding : Goto(t, l)
    BY <1>5 DEF ForcedIdleRequest, Fail, Holding, Polling
  <2>2. UNCHANGED <<hPowerLock, eCurrentSysPowerState, eCurrentPowerState, op, new>>
    BY <1>5 DEF ForcedIdleRequest
  <2>3. QED
    BY <2>1, <2>2, HeldStep
<1>6. ASSUME NEW t \in AllThreads, ForcedIdleAnswered(t) PROVE DeviceInv'
  <2>1. pc[t] \in Holding \ {"locked", "unlock"} /\ \E l \in Holding : Goto(t, l)
    BY <1>6 DEF ForcedIdleAnswered, Fail, Holding, Polling
  <2>2. UNCHANGED <<hPowerLock, eCurrentSysPowerState, eCurrentPowerState, op, new>>
    BY <1>6 DEF ForcedIdleAnswered
  <2>3. QED
    BY <2>1, <2>2, HeldStep
<1>7. ASSUME NEW t \in AllThreads, DevicePrePower(t) PROVE DeviceInv'
  <2>1. pc[t] \in Holding \ {"locked", "unlock"} /\ \E l \in Holding : Goto(t, l)
    BY <1>7 DEF DevicePrePower, Fail, Holding, Polling
  <2>2. UNCHANGED <<hPowerLock, eCurrentSysPowerState, eCurrentPowerState, op, new>>
    BY <1>7 DEF DevicePrePower
  <2>3. QED
    BY <2>1, <2>2, HeldStep
<1>8. ASSUME NEW t \in AllThreads, PowerOffAnswered(t) PROVE DeviceInv'
  <2>1. pc[t] \in Holding \ {"locked", "unlock"} /\ \E l \in Holding : Goto(t, l)
    BY <1>8 DEF PowerOffAnswered, Fail, Holding, Polling
  <2>2. UNCHANGED <<hPowerLock, eCurrentSysPowerState, eCurrentPowerState, op, new>>
    BY <1>8 DEF PowerOffAnswered
  <2>3. QED
    BY <2>1, <2>2, HeldStep
<1>9. ASSUME NEW t \in AllThreads, SystemPrePower(t) PROVE DeviceInv'
  <2>1. pc[t] \in Holding \ {"locked", "unlock"} /\ \E l \in Holding : Goto(t, l)
    BY <1>9 DEF SystemPrePower, Fail, Holding, Polling
  <2>2. UNCHANGED <<hPowerLock, eCurrentSysPowerState, eCurrentPowerState, op, new>>
    BY <1>9 DEF SystemPrePower
  <2>3. QED
    BY <2>1, <2>2, HeldStep
<1>10. ASSUME NEW t \in AllThreads, RestorePowerState(t) PROVE DeviceInv'
  <2>1. pc[t] \in Holding \ {"locked", "unlock"} /\ \E l \in Holding : Goto(t, l)
    BY <1>10 DEF RestorePowerState, Fail, Holding, Polling
  <2>2. UNCHANGED <<hPowerLock, eCurrentSysPowerState, eCurrentPowerState, op, new>>
    BY <1>10 DEF RestorePowerState
  <2>3. QED
    BY <2>1, <2>2, HeldStep
<1>11. ASSUME NEW t \in AllThreads, RestoreAnswered(t) PROVE DeviceInv'
  <2>1. pc[t] \in Holding \ {"locked", "unlock"} /\ \E l \in Holding : Goto(t, l)
    BY <1>11 DEF RestoreAnswered, Fail, Holding, Polling
  <2>2. UNCHANGED <<hPowerLock, eCurrentSysPowerState, eCurrentPowerState, op, new>>
    BY <1>11 DEF RestoreAnswered
  <2>3. QED
    BY <2>1, <2>2, HeldStep
<1>12. ASSUME NEW t \in AllThreads, SystemPostPower(t) PROVE DeviceInv'
  <2>1. pc[t] \in Holding \ {"locked", "unlock"} /\ \E l \in Holding : Goto(t, l)
    BY <1>12 DEF SystemPostPower, Fail, Holding, Polling
  <2>2. UNCHANGED <<hPowerLock, eCurrentSysPowerState, eCurrentPowerState, op, new>>
    BY <1>12 DEF SystemPostPower
  <2>3. QED
    BY <2>1, <2>2, HeldStep
<1>13. ASSUME NEW t \in AllThreads, DoStart(t) PROVE DeviceInv'
  <2>1. pc[t] \in Holding \ {"locked", "unlock"} /\ \E l \in Holding : Goto(t, l)
    BY <1>13 DEF DoStart, Fail, Holding, Polling
  <2>2. UNCHANGED <<hPowerLock, eCurrentSysPowerState, eCurrentPowerState, op, new>>
    BY <1>13 DEF DoStart
  <2>3. QED
    BY <2>1, <2>2, HeldStep
<1>14. ASSUME NEW t \in AllThreads, StartFailed(t) PROVE DeviceInv'
  <2>1. pc[t] \in Holding \ {"locked", "unlock"} /\ \E l \in Holding : Goto(t, l)
    BY <1>14 DEF StartFailed, Fail, Holding, Polling
  <2>2. UNCHANGED <<hPowerLock, eCurrentSysPowerState, eCurrentPowerState, op, new>>
    BY <1>14 DEF StartFailed
  <2>3. QED
    BY <2>1, <2>2, HeldStep
<1>15. ASSUME NEW t \in AllThreads, DeviceRestored(t) PROVE DeviceInv'
  <2>1. pc[t] \in Holding \ {"locked", "unlock"} /\ \E l \in Holding : Goto(t, l)
    BY <1>15 DEF DeviceRestored, Fail, Holding, Polling
  <2>2. UNCHANGED <<hPowerLock, eCurrentSysPowerState, eCurrentPowerState, op, new>>
    BY <1>15 DEF DeviceRestored
  <2>3. QED
    BY <2>1, <2>2, HeldStep
<1>16. ASSUME NEW t \in AllThreads, PostClockSpeedChange(t) PROVE DeviceInv'
  <2>1. pc[t] \in Holding \ {"locked", "unlock"} /\ \E l \in Holding : Goto(t, l)
    BY <1>16 DEF PostClockSpeedChange, Fail, Holding, Polling
  <2>2. UNCHANGED <<hPowerLock, eCurrentSysPowerState, eCurrentPowerState, op, new>>
    BY <1>16 DEF PostClockSpeedChange
  <2>3. QED
    BY <2>1, <2>2, HeldStep
<1>17. ASSUME NEW t \in AllThreads, DustCountChange(t) PROVE DeviceInv'
  <2>1. pc[t] \in Holding \ {"locked", "unlock"} /\ \E l \in Holding : Goto(t, l)
    BY <1>17 DEF DustCountChange, Fail, Holding, Polling
  <2>2. UNCHANGED <<hPowerLock, eCurrentSysPowerState, eCurrentPowerState, op, new>>
    BY <1>17 DEF DustCountChange
  <2>3. QED
    BY <2>1, <2>2, HeldStep
<1>18. ASSUME NEW t \in AllThreads, IdleCancel(t) PROVE DeviceInv'
  <2>1. pc[t] \in Holding \ {"locked", "unlock"} /\ \E l \in Holding : Goto(t, l)
    BY <1>18 DEF IdleCancel, Fail, Holding, Polling
  <2>2. UNCHANGED <<hPowerLock, eCurrentSysPowerState, eCurrentPowerState, op, new>>
    BY <1>18 DEF IdleCancel
  <2>3. QED
    BY <2>1, <2>2, HeldStep
<1>19. ASSUME NEW t \in AllThreads, CancelAnswered(t) PROVE DeviceInv'
  <2>1. pc[t] \in Holding \ {"locked", "unlock"} /\ \E l \in Holding : Goto(t, l)
    BY <1>19 DEF CancelAnswered, Fail, Holding, Polling
  <2>2. UNCHANGED <<hPowerLock, eCurrentSysPowerState, eCurrentPowerState, op, new>>
    BY <1>19 DEF CancelAnswered
  <2>3. QED
    BY <2>1, <2>2, HeldStep
<1>20. ASSUME NEW t \in AllThreads, FlushOne(t) PROVE DeviceInv'
  BY <1>20, ForeignStep DEF FlushOne
<1>21. ASSUME NEW t \in AllThreads, Enter(t) PROVE DeviceInv'
  <2>1. PICK o \in EntryPoints : op' = [op EXCEPT ![t] = o]
    BY <1>21 DEF Enter
  <2>2. /\ pc[t] \in NotHolding /\ Goto(t, "lock") /\ "lock" \in NotHolding \ {"relock"}
        /\ UNCHANGED <<hPowerLock, eCurrentSysPowerState, eCurrentPowerState, new>>
    BY <1>21 DEF Enter, NotHolding
  <2>3. QED
    BY <2>1, <2>2, OutsideStep
<1>22. ASSUME NEW t \in AllThreads, Exit(t) PROVE DeviceInv'
  <2>1. op[t] # "CLOCK_DEBUGFS" /\ op \in [AllThreads -> Ops \cup MisrOps]
    BY DEF DeviceInv, NoDebugfs, TypeOK, LocalsTypeOK
  <2>2. /\ pc[t] \in NotHolding
        /\ UNCHANGED <<hPowerLock, eCurrentSysPowerState, eCurrentPowerState>>
        /\ \A u \in AllThreads \ {t} : new'[u] = new[u]
    BY <1>22 DEF Exit, NotHolding, TypeOK, LocalsTypeOK
  <2>3. CASE op[t] = "FLUSH"
    <3>1. Goto(t, "misrIdle") /\ op' = [op EXCEPT ![t] = "FLUSH"]
      BY <1>22, <2>1, <2>3 DEF Exit
    <3>2. "misrIdle" \in NotHolding \ {"relock"} /\ "FLUSH" \notin OffOps
      BY DEF NotHolding, OffOps
    <3>3. QED
      BY <2>2, <3>1, <3>2, OutsideStep
  <2>4. CASE op[t] # "FLUSH"
    <3>1. Goto(t, "idle") /\ op' = [op EXCEPT ![t] = FirstOp(t)]
      BY <1>22, <2>1, <2>4 DEF Exit
    <3>2. "idle" \in NotHolding \ {"relock"} /\ FirstOp(t) # "CLOCK_DEBUGFS"
      BY DEF NotHolding, FirstOp
    <3>3. QED
      BY <2>2, <3>1, <3>2, OutsideStep
  <2>5. QED
    BY <2>3, <2>4
<1>23. ASSUME NEW t \in AllThreads, PowerLock(t) PROVE DeviceInv'
  <2>1. /\ pc \in [AllThreads -> Holding \cup NotHolding]
        /\ NoThread \notin AllThreads
    BY DevicePowerAssumption DEF TypeOK, AllThreads
  <2>2. PowerLockOwnership'
    BY <1>23, <2>1 DEF PowerLock, AcquireResult, DeviceInv, PowerLockOwnership,
           Goto, Fail,
                     Holding, NotHolding, Polling
  <2>3. HolderIsPowered'
    BY <1>23, <2>1 DEF PowerLock, AcquireResult, DeviceInv, HolderIsPowered, Goto,
           Fail,
                     Holding, NotHolding, Polling
  <2>4. OffOpsPowerDown'
    BY <1>23, <2>1 DEF PowerLock, AcquireResult, DeviceInv, OffOpsPowerDown,
           Undecided, Goto, Fail
  <2>5. QED
    BY <1>23, <2>2, <2>3, <2>4 DEF PowerLock, DeviceInv, NoDebugfs,
           DeviceFollowsSystem
<1>24. ASSUME NEW t \in AllThreads, PowerTryLock(t) PROVE DeviceInv'
  <2>1. /\ pc \in [AllThreads -> Holding \cup NotHolding]
        /\ NoThread \notin AllThreads
    BY DevicePowerAssumption DEF TypeOK, AllThreads
  <2>2. PowerLockOwnership'
    BY <1>24, <2>1 DEF PowerTryLock, AcquireResult, DeviceInv, PowerLockOwnership,
           Goto, Fail,
                     Holding, NotHolding, Polling
  <2>3. HolderIsPowered'
    BY <1>24, <2>1 DEF PowerTryLock, AcquireResult, DeviceInv, HolderIsPowered,
           Goto, Fail,
                     Holding, NotHolding, Polling
  <2>4. OffOpsPowerDown'
    BY <1>24, <2>1 DEF PowerTryLock, AcquireResult, DeviceInv, OffOpsPowerDown,
           Undecided, Goto, Fail
  <2>5. QED
    BY <1>24, <2>2, <2>3, <2>4 DEF PowerTryLock, DeviceInv, NoDebugfs,
           DeviceFollowsSystem
<1>25. ASSUME NEW t \in AllThreads, PowerUnlock(t) PROVE DeviceInv'
  <2>1. /\ pc \in [AllThreads -> Holding \cup NotHolding]
        /\ NoThread \notin AllThreads
    BY DevicePowerAssumption DEF TypeOK, AllThreads
  <2>2. PowerLockOwnership'
    BY <1>25, <2>1 DEF PowerUnlock, DeviceInv, PowerLockOwnership, Goto, Fail,
                     Holding, NotHolding, Polling
  <2>3. HolderIsPowered'
    BY <1>25, <2>1 DEF PowerUnlock, DeviceInv, HolderIsPowered, Goto, Fail,
                     Holding, NotHolding, Polling
  <2>4. OffOpsPowerDown'
    BY <1>25, <2>1 DEF PowerUnlock, DeviceInv, OffOpsPowerDown, Undecided, Goto,
           Fail
  <2>5. QED
    BY <1>25, <2>2, <2>3, <2>4 DEF PowerUnlock, DeviceInv, NoDebugfs,
           DeviceFollowsSystem
<1>26. ASSUME NEW t \in AllThreads, IdleDenied(t) PROVE DeviceInv'
  <2>1. /\ pc \in [AllThreads -> Holding \cup NotHolding]
        /\ NoThread \notin AllThreads
    BY DevicePowerAssumption DEF TypeOK, AllThreads
  <2>2. PowerLockOwnership'
    BY <1>26, <2>1 DEF IdleDenied, DeviceInv, PowerLockOwnership, Goto, Fail,
                     Holding, NotHolding, Polling
  <2>3. HolderIsPowered'
    BY <1>26, <2>1 DEF IdleDenied, DeviceInv, HolderIsPowered, Goto, Fail,
                     Holding, NotHolding, Polling
  <2>4. OffOpsPowerDown'
    BY <1>26, <2>1 DEF IdleDenied, DeviceInv, OffOpsPowerDown, Undecided, Goto, Fail
  <2>5. QED
    BY <1>26, <2>2, <2>3, <2>4 DEF IdleDenied, DeviceInv, NoDebugfs,
           DeviceFollowsSystem
<1>27. ASSUME NEW t \in AllThreads, Reacquire(t) PROVE DeviceInv'
  <2>1. /\ pc \in [AllThreads -> Holding \cup NotHolding]
        /\ NoThread \notin AllThreads
    BY DevicePowerAssumption DEF TypeOK, AllThreads
  <2>2. PowerLockOwnership'
    BY <1>27, <2>1 DEF Reacquire, AcquireResult, AfterIdleError, AfterReacquire,
           DeviceInv, PowerLockOwnership, Goto, Fail,
                     Holding, NotHolding, Polling
  <2>3. HolderIsPowered'
    BY <1>27, <2>1 DEF Reacquire, AcquireResult, AfterIdleError, AfterReacquire,
           DeviceInv, HolderIsPowered, Goto, Fail,
                     Holding, NotHolding, Polling
  <2>4. OffOpsPowerDown'
    BY <1>27, <2>1 DEF Reacquire, AcquireResult, AfterIdleError, AfterReacquire,
           DeviceInv, OffOpsPowerDown, Undecided, Goto, Fail
  <2>5. QED
    BY <1>27, <2>2, <2>3, <2>4 DEF Reacquire, DeviceInv, NoDebugfs,
           DeviceFollowsSystem
<1>28. ASSUME NEW t \in AllThreads, FlushBody(t) PROVE DeviceInv'
  <2>1. /\ pc \in [AllThreads -> Holding \cup NotHolding]
        /\ NoThread \notin AllThreads
    BY DevicePowerAssumption DEF TypeOK, AllThreads
  <2>2. PowerLockOwnership'
    BY <1>28, <2>1 DEF FlushBody, DeviceInv, PowerLockOwnership, Goto, Fail,
                     Holding, NotHolding, Polling
  <2>3. HolderIsPowered'
    BY <1>28, <2>1 DEF FlushBody, DeviceInv, HolderIsPowered, Goto, Fail,
                     Holding, NotHolding, Polling
  <2>4. OffOpsPowerDown'
    BY <1>28, <2>1 DEF FlushBody, DeviceInv, OffOpsPowerDown, Undecided, Goto, Fail
  <2>5. QED
    BY <1>28, <2>2, <2>3, <2>4 DEF FlushBody, DeviceInv, NoDebugfs,
           DeviceFollowsSystem
<1>29. ASSUME NEW t \in AllThreads, Body(t) PROVE DeviceInv'
  <2>1. /\ pc \in [AllThreads -> Holding \cup NotHolding]
        /\ NoThread \notin AllThreads
    BY DevicePowerAssumption DEF TypeOK, AllThreads
  <2>2. pc[t] = "locked" /\ \E l \in Holding : Goto(t, l)
    BY <1>29 DEF Body, ScheduleBody, SysPowerBody, ClockBody, UnitsBody,
           ApmLatencyBody,
                     ApmLatencyNext, ActivePowerBody, CallSetPower, Holding, Polling
  <2>3. UNCHANGED <<hPowerLock, eCurrentSysPowerState, eCurrentPowerState, op>>
    BY <1>29 DEF Body
  <2>4. "locked" \in Holding
    BY DEF Holding
  <2>5. PowerLockOwnership'
    BY <2>1, <2>2, <2>3, <2>4 DEF DeviceInv, PowerLockOwnership, Goto
  <2>6. HolderIsPowered'
    BY <2>1, <2>2, <2>3, <2>4 DEF DeviceInv, HolderIsPowered, Goto
  <2>7. OffOpsPowerDown'
    <3>1. ASSUME NEW u \in AllThreads, u # t, op'[u] \in OffOps, pc'[u] \notin Undecided
          PROVE  new'[u] = "OFF"
      <4>1. new'[u] = new[u]
        BY <1>29, <3>1 DEF Body, ScheduleBody, SysPowerBody, ClockBody, UnitsBody,
                     ApmLatencyBody, ActivePowerBody, CallSetPower, TypeOK, LocalsTypeOK
      <4>2. QED
        BY <2>1, <2>2, <2>3, <3>1, <4>1 DEF DeviceInv, OffOpsPowerDown, Goto
    <3>2. ASSUME op[t] \in OffOps, pc'[t] \notin Undecided
          PROVE  new'[t] = "OFF"
      <4>1. /\ SysPowerBody(t) /\ SysTarget(op[t]) = "OFF"
            /\ eCurrentSysPowerState \in {"ON", "OFF"}
        BY <1>29, <3>2 DEF Body, ScheduleBody, ClockBody, UnitsBody, ApmLatencyBody,
                         ActivePowerBody, OffOps, SysTarget, KickOps, ClockOps,
                         TypeOK, SharedTypeOK
      <4>2. ~Goto(t, "unlock")
        BY <2>1, <3>2 DEF Goto, Undecided
      <4>3. new' = [new EXCEPT ![t] = "OFF"]
        BY <4>1, <4>2 DEF SysPowerBody
      <4>4. QED
        BY <4>3 DEF TypeOK, LocalsTypeOK
    <3>3. QED
      BY <2>3, <3>1, <3>2 DEF OffOpsPowerDown
  <2>8. QED
    BY <2>3, <2>5, <2>6, <2>7 DEF DeviceInv, NoDebugfs, DeviceFollowsSystem
<1>30. ASSUME NEW t \in AllThreads, SetDevicePowerState(t) PROVE DeviceInv'
  <2>1. pc[t] \in Holding \ {"locked", "unlock"} /\ UNCHANGED <<eCurrentPowerState, op, new>>
    BY <1>30 DEF SetDevicePowerState, Holding
  <2>2. CASE eCurrentPowerState = new[t] /\ PowerChanged(t)
    BY <2>1, <2>2, PowerChangedStep
  <2>3. CASE Goto(t, "devPre") /\ UNCHANGED <<hPowerLock, eCurrentSysPowerState>>
    <3>1. "devPre" \in Holding
      BY DEF Holding
    <3>2. QED
      BY <2>1, <2>3, <3>1, HeldStep
  <2>4. QED
    BY <1>30, <2>2, <2>3 DEF SetDevicePowerState
<1>31. ASSUME NEW t \in AllThreads, DevicePostPower(t) PROVE DeviceInv'
  <2>1. /\ pc[t] \in Holding \ {"locked", "unlock"} /\ PowerChanged(t)
        /\ eCurrentPowerState' = new[t] /\ UNCHANGED <<op, new>>
    BY <1>31 DEF DevicePostPower, Holding
  <2>2. QED
    BY <2>1, PowerChangedStep
<1>32. ASSUME Lisr PROVE DeviceInv'
  BY <1>32, ForeignStep DEF Lisr
<1>33. ASSUME FwExecute PROVE DeviceInv'
  BY <1>33, ForeignStep DEF FwExecute
<1>34. ASSUME FwGoesIdle PROVE DeviceInv'
  BY <1>34, ForeignStep DEF FwGoesIdle
<1>35. ASSUME MisrStart PROVE DeviceInv'
  <2>1. /\ Misr \in AllThreads /\ pc[Misr] \in NotHolding
        /\ UNCHANGED <<hPowerLock, eCurrentSysPowerState, eCurrentPowerState, new>>
        /\ op \in [AllThreads -> Ops \cup MisrOps]
    BY <1>35 DEF MisrStart, NotHolding, AllThreads, TypeOK, LocalsTypeOK
  <2>2. \E l \in {"lock", "misrIdle"} : Goto(Misr, l) /\ op' = [op EXCEPT ![Misr] = "FLUSH"]
    BY <1>35 DEF MisrStart
  <2>3. {"lock", "misrIdle"} \subseteq NotHolding \ {"relock"} /\ "FLUSH" \notin OffOps
    BY DEF NotHolding, OffOps
  <2>4. QED
    BY <2>1, <2>2, <2>3, OutsideStep
<1>36. ASSUME MisrCheckIdle PROVE DeviceInv'
  <2>1. /\ Misr \in AllThreads /\ pc[Misr] \in NotHolding
        /\ UNCHANGED <<hPowerLock, eCurrentSysPowerState, eCurrentPowerState, new>>
        /\ op \in [AllThreads -> Ops \cup MisrOps]
    BY <1>36 DEF MisrCheckIdle, NotHolding, AllThreads, TypeOK, LocalsTypeOK
  <2>2. {"tryLock", "idle"} \subseteq NotHolding \ {"relock"} /\ "ACTIVE_POWER" \notin OffOps
    BY DEF NotHolding, OffOps
  <2>3. CASE Goto(Misr, "tryLock") /\ op' = [op EXCEPT ![Misr] = "ACTIVE_POWER"]
    BY <2>1, <2>2, <2>3, OutsideStep
  <2>4. CASE Goto(Misr, "idle") /\ op' = op
    <3>1. op' = [op EXCEPT ![Misr] = op[Misr]] /\ op[Misr] # "CLOCK_DEBUGFS"
      BY <2>1, <2>4 DEF DeviceInv, NoDebugfs
    <3>2. "idle" \notin {"misrIdle", "tryLock"} /\ "idle" \in NotHolding \ {"relock"}
      BY <2>2
    <3>3. QED
      BY <2>1, <2>4, <3>1, <3>2, OutsideStep
  <2>5. QED
    BY <1>36, <2>3, <2>4 DEF MisrCheckIdle
<1>37. CASE UNCHANGED vars
  BY <1>37, ForeignStep DEF vars
<1>38. QED
  BY <1>1, <1>2, <1>3, <1>3a, <1>4, <1>5, <1>6, <1>7, <1>8, <1>9, <1>10,
     <1>11, <1>12, <1>13, <1>14, <1>15, <1>16, <1>17, <1>18, <1>19, <1>20,
     <1>21, <1>22, <1>23, <1>24, <1>25, <1>26, <1>27, <1>28, <1>29, <1>30,
     <1>31, <1>32, <1>33, <1>34, <1>35, <1>36, <1>37
     DEF Next, LockStep, OtherStep, MisrStep, Firmware

\* The power lock belongs to exactly the thread that is between acquiring and
\* releasing it, on every path through the power manager, also when the
\* firmware does not answer or the system layer fails (power.c:490).
THEOREM PowerLockHasOneOwner ==
    ASSUME "CLOCK_DEBUGFS" \notin EntryPoints
    PROVE  Spec => []PowerLockOwnership
<1>1. DeviceInv /\ [Next]_vars => DeviceInv'
  BY DeviceStep
<1>2. DeviceInv => PowerLockOwnership
  BY DEF DeviceInv
<1>3. QED
  BY DeviceInit, <1>1, <1>2, PTL DEF Spec

\* Once a system transition to OFF is over the device stays off, whatever is
\* kicked, fails or times out meanwhile (power.c:876).
THEOREM SystemOffKeepsDeviceOff ==
    ASSUME "CLOCK_DEBUGFS" \notin EntryPoints
    PROVE  Spec => []SystemOffDeviceOff
<1>1. DeviceInv /\ [Next]_vars => DeviceInv'
  BY DeviceStep
<1>2. DeviceInv => SystemOffDeviceOff
  BY DEF DeviceInv, DeviceFollowsSystem, SystemOffDeviceOff
<1>3. QED
  BY DeviceInit, <1>1, <1>2, PTL DEF Spec

-----------------------------------------------------------------------------
(* What the driver believes of the device.                                 *)

\* The hardware does its part, every caller heeds the results it is given,
\* and the ring has room for a clock change and the cancellation behind it.
Reliable ==
    /\ ~FwMayTimeOut
    /\ SysPowerFailures = {}
    /\ "CLOCK_DEBUGFS" \notin EntryPoints
    /\ KCCBSize > 1

\* Locations of the error paths.
ErrorPaths == {"restore", "restoreSend", "restorePoll", "restoreStart",
               "restoreBoot", "timeoutSend"}

\* Where the device is between two states.
InTransition == {"offPoll", "sysPre", "sysPost", "devPost", "bootPoll"}

\* Where the device is known to be on, and known to be forced idle.
DeviceIsOn   == {"idleSend", "idlePoll", "kickSend", "kickDefer", "apmSend",
                 "offSend", "offPoll", "cancelPoll"}
ForcedIdleAt == {"unitsSend", "unitsPoll", "clkSend", "cancelSend"}

\* Where the firmware may be forced idle, and where its ring is empty then.
MayBeForced == {"idlePoll", "setPower", "devPre", "offSend", "offPoll", "clkHeld",
                "clkCancel", "units", "cancelPoll"} \cup ForcedIdleAt
EmptyRing   == {"setPower", "devPre", "offSend", "clkHeld", "clkSend", "units", "unitsSend"}

\* Where a thread is on its way to a forced idle firmware.
Idling == {"idleReq", "idleSend", "idlePoll", "idleLoop", "relock"}

\* Where a thread changes the power state of the device.
Changing == {"setPower", "devPre", "offSend", "offPoll", "sysPre", "sysPost", "devPost",
             "bootPoll"}

\* Commands the firmware does not answer through the power sync prim.
Plain     == {"KICK", "CORECLKSPEEDCHANGE", "POW_APM_LATENCY_CHANGE"}
RingPlain == \A i \in 1..Len(kccb) : kccb[i] \in Plain

\* The last command is c, and the firmware answers when it has executed it.
Asked(c) ==
    \/ powSync /\ kccb = <<>>
    \/ /\ ~powSync
       /\ Len(kccb) > 0 /\ kccb[Len(kccb)] = c
       /\ \A i \in 1..(Len(kccb) - 1) : kccb[i] \in Plain

\* Where a thread waits for the answer to a power request.
Waiting == {"offPoll", "idlePoll", "cancelPoll", "unitsPoll"}

\* Firmware and interrupt gate are in the state the driver has recorded.
Mirror ==
    /\ eCurrentPowerState = "ON" <=> ePowState # "OFF"
    /\ eCurrentPowerState = "ON" <=> bRGXPowered
    /\ ~bRGXPowered => ~irq

GpuIsOff == ePowState = "OFF" /\ ~bRGXPowered /\ ~irq

-----------------------------------------------------------------------------
\* What a thread knows by itself, with or without the lock.
OwnLocals(t) ==
    /\ pc[t] \notin ErrorPaths
    /\ pc[t] \in Idling => op[t] \in SysOps \cup ClockOps \cup {"UNITS"}
    /\ pc[t] \in Idling /\ op[t] \in SysOps => new[t] = "OFF"
    /\ pc[t] \in Idling /\ op[t] = "UNITS" => cur[t] = "ON"
    /\ pc[t] \in Changing /\ op[t] \in KickOps => new[t] = "ON"

\* What the device is like where the holder of the lock is.
DeviceAt(t) ==
    /\ pc[t] \notin InTransition => Mirror
    /\ pc[t] \in DeviceIsOn => eCurrentPowerState = "ON" /\ bRGXPowered
    /\ pc[t] \in DeviceIsOn \ {"offPoll"} => ePowState # "OFF"
    /\ pc[t] \in ForcedIdleAt => ePowState = "FORCED_IDLE"
    /\ pc[t] = "clkHeld" => ePowState \in {"FORCED_IDLE", "OFF"}
    /\ pc[t] \in {"units", "clkCancel"} /\ cur[t] = "ON" => ePowState = "FORCED_IDLE"

\* How far a change of the power state has come.
ChangeAt(t) ==
    /\ pc[t] \in {"offSend", "offPoll"} => new[t] = "OFF"
    /\ pc[t] \in {"devPre", "offSend", "offPoll", "sysPre", "sysPost", "devPost", "bootPoll"}
         => cur[t] = eCurrentPowerState
    /\ pc[t] \in {"sysPre", "sysPost", "devPost"} => IF new[t] = "OFF" THEN GpuIsOff ELSE Mirror
    /\ pc[t] \in {"sysPost", "devPost"} /\ new[t] = "ON" => gpuPowered
    /\ pc[t] = "bootPoll" => new[t] = "ON" /\ ePowState # "OFF"

\* A firmware that is forced idle has nothing to do, and will be woken.
ForcedAt(t) ==
    ePowState = "FORCED_IDLE" =>
        /\ pc[t] \in MayBeForced
        /\ deferred = <<>>
        /\ pc[t] \in EmptyRing => kccb = <<>>
        /\ pc[t] \in {"clkCancel", "cancelSend"} => Len(kccb) <= 1
        /\ pc[t] \in {"setPower", "devPre"} => new[t] = "OFF"
        /\ pc[t] \in {"units", "unitsSend", "unitsPoll", "clkSend", "clkCancel"} => cur[t] = "ON"
        /\ pc[t] \in {"offPoll", "cancelPoll"} => ~powSync

\* What is in the ring, and whether the firmware has answered.
RingAt(t) ==
    /\ pc[t] = "offPoll"    => Asked("POW_OFF_REQ")
    /\ pc[t] = "idlePoll"   => Asked("POW_FORCED_IDLE_REQ")
    /\ pc[t] = "cancelPoll" => Asked("POW_CANCEL_FORCED_IDLE")
    /\ pc[t] = "unitsPoll"  => Asked("POW_NUM_UNITS_CHANGE")
    /\ pc[t] \notin Waiting => RingPlain
    /\ pc[t] \in {"offSend", "idleSend", "cancelSend", "unitsSend"} => ~powSync
    /\ pc[t] \in {"offPoll", "idlePoll"} => deferred = <<>>

Held(t) == DeviceAt(t) /\ ChangeAt(t) /\ ForcedAt(t) /\ RingAt(t)

\* What the next holder of the lock finds.
Free == Mirror /\ RingPlain /\ ePowState # "FORCED_IDLE"

Supplied == ePowState # "OFF" => gpuPowered

\* The inductive invariant.
StateInv ==
    /\ DeviceInv
    /\ Supplied
    /\ OffMeansDrained
    /\ \A t \in AllThreads : OwnLocals(t)
    /\ \A t \in AllThreads : pc[t] \in Holding => Held(t)
    /\ hPowerLock = NoThread => Free

-----------------------------------------------------------------------------
(* Who may step, and what has to be shown of his step.                     *)

\* The types the proofs use.
LEMMA StateTypes ==
    ASSUME StateInv
    PROVE  /\ pc \in [AllThreads -> Holding \cup NotHolding]
           /\ op \in [AllThreads -> Ops \cup MisrOps]
           /\ cur \in [AllThreads -> {"ON", "OFF"}]
           /\ new \in [AllThreads -> {"ON", "OFF"}]
           /\ eCurrentPowerState \in {"ON", "OFF"}
           /\ eCurrentSysPowerState \in {"ON", "OFF"}
           /\ ePowState \in {"ON", "IDLE", "FORCED_IDLE", "OFF"}
           /\ bRGXPowered \in BOOLEAN /\ irq \in BOOLEAN /\ powSync \in BOOLEAN
           /\ gpuPowered \in BOOLEAN
           /\ kccb \in Seq(Commands) /\ deferred \in Seq({"KICK"})
           /\ Len(kccb) \in Nat /\ Len(deferred) \in Nat /\ Len(kccb) <= KCCBSize
           /\ KCCBSize \in Nat \ {0}
<1>1. TypeOK
  BY DEF StateInv, DeviceInv
<1>2. kccb \in Seq(Commands) /\ deferred \in Seq({"KICK"})
  BY <1>1 DEF TypeOK, SharedTypeOK, Commands
<1>3. Len(kccb) \in Nat /\ Len(deferred) \in Nat
  BY <1>2, LenProperties
<1>4. QED
  BY <1>1, <1>2, <1>3, DevicePowerAssumption DEF TypeOK, SharedTypeOK, LocalsTypeOK

\* Only one thread holds the lock.
LEMMA OnlyHolder ==
    ASSUME DeviceInv, NEW t \in AllThreads, NEW u \in AllThreads,
           pc[t] \in Holding, pc[u] \in Holding
    PROVE  t = u /\ hPowerLock # NoThread
BY DevicePowerAssumption DEF DeviceInv, PowerLockOwnership, AllThreads

\* The rest of the world as t steps.
OthersWait(t) ==
    \A u \in AllThreads \ {t} :
        pc'[u] = pc[u] /\ op'[u] = op[u] /\ cur'[u] = cur[u] /\ new'[u] = new[u]

\* What the driver believes, what is in the ring and what the hardware does.
device == <<eCurrentPowerState, bRGXPowered, deferred, kccb, powSync, ePowState,
            irq, gpuPowered>>

\* A step of the holder of the lock that leaves him with it.
LEMMA HolderStep ==
    ASSUME StateInv, DeviceInv', NEW t \in AllThreads, pc[t] \in Holding, pc'[t] \in Holding,
           OthersWait(t), OwnLocals(t)', Held(t)', Supplied', OffMeansDrained'
    PROVE  StateInv'
<1>1. \A u \in AllThreads : OwnLocals(u)'
  BY DEF StateInv, OthersWait, OwnLocals
<1>2. \A u \in AllThreads : (pc[u] \in Holding)' => u = t
  BY OnlyHolder DEF OthersWait, StateInv
<1>3. hPowerLock' # NoThread
  BY DevicePowerAssumption DEF DeviceInv, PowerLockOwnership, AllThreads
<1>4. QED
  BY <1>1, <1>2, <1>3 DEF StateInv

\* A step that takes the lock.
LEMMA TakeStep ==
    ASSUME StateInv, DeviceInv', NEW t \in AllThreads, hPowerLock = NoThread,
           OthersWait(t), OwnLocals(t)', Held(t)', pc'[t] \in Holding, UNCHANGED device
    PROVE  StateInv'
<1>1. \A u \in AllThreads : OwnLocals(u)'
  BY DEF StateInv, OthersWait, OwnLocals
<1>2. \A u \in AllThreads : (pc[u] \in Holding)' => u = t
  BY DevicePowerAssumption DEF OthersWait, StateInv, DeviceInv, PowerLockOwnership, AllThreads
<1>3. hPowerLock' # NoThread
  BY DevicePowerAssumption DEF DeviceInv, PowerLockOwnership, AllThreads
<1>4. Supplied' /\ OffMeansDrained'
  BY DEF StateInv, Supplied, OffMeansDrained, device
<1>5. QED
  BY <1>1, <1>2, <1>3, <1>4 DEF StateInv

\* A step that gives the lock up.
LEMMA ReleaseStep ==
    ASSUME StateInv, DeviceInv', NEW t \in AllThreads, pc[t] \in Holding, pc'[t] \notin Holding,
           OthersWait(t), OwnLocals(t)', Free, UNCHANGED device
    PROVE  StateInv'
<1>1. \A u \in AllThreads : OwnLocals(u)'
  BY DEF StateInv, OthersWait, OwnLocals
<1>2. \A u \in AllThreads : (pc[u] \in Holding)' => u = t
  BY OnlyHolder DEF OthersWait, StateInv
<1>3. Supplied' /\ OffMeansDrained' /\ Free'
  BY DEF StateInv, Supplied, OffMeansDrained, device, Free, Mirror, RingPlain
<1>4. QED
  BY <1>1, <1>2, <1>3 DEF StateInv

\* A step without the lock, before and after.
LEMMA AwayStep ==
    ASSUME StateInv, DeviceInv', NEW t \in AllThreads, pc[t] \notin Holding, pc'[t] \notin Holding,
           OthersWait(t), OwnLocals(t)', UNCHANGED device, UNCHANGED hPowerLock
    PROVE  StateInv'
<1>1. \A u \in AllThreads : OwnLocals(u)'
  BY DEF StateInv, OthersWait, OwnLocals
<1>2. \A u \in AllThreads : (pc[u] \in Holding)' =>
          u # t /\ pc[u] \in Holding /\ pc'[u] = pc[u] /\ cur'[u] = cur[u] /\ new'[u] = new[u]
  BY DEF OthersWait
<1>3. \A u \in AllThreads : (pc[u] \in Holding)' => Held(u)'
  <2> SUFFICES ASSUME NEW u \in AllThreads, (pc[u] \in Holding)' PROVE Held(u)'
    OBVIOUS
  <2>1. Held(u) /\ pc'[u] = pc[u] /\ cur'[u] = cur[u] /\ new'[u] = new[u]
    BY <1>2 DEF StateInv
  <2>2. DeviceAt(u)' /\ ChangeAt(u)'
    BY <2>1 DEF Held, DeviceAt, ChangeAt, Mirror, GpuIsOff, device
  <2>3. ForcedAt(u)'
    BY <2>1 DEF Held, ForcedAt, device
  <2>4. RingAt(u)'
    BY <2>1 DEF Held, RingAt, RingPlain, Asked, device
  <2>5. QED
    BY <2>2, <2>3, <2>4 DEF Held
<1>4. Supplied' /\ OffMeansDrained' /\ (hPowerLock' = NoThread => Free')
  BY DEF StateInv, Supplied, OffMeansDrained, device, Free, Mirror, RingPlain
<1>5. QED
  BY <1>1, <1>3, <1>4 DEF StateInv

-----------------------------------------------------------------------------
(* The ring.                                                               *)

\* Power requests and other commands are different things.
LEMMA PlainOrAcked ==
    /\ Plain \cap Acked = {}
    /\ \A c \in Plain : c # "POW_OFF_REQ" /\ c # "POW_FORCED_IDLE_REQ" /\ c # "POW_CANCEL_FORCED_IDLE"
BY DEF Plain, Acked

\* A ring without requests stays one as the firmware executes commands.
LEMMA PlainExecuted ==
    ASSUME RingPlain, kccb \in Seq(Commands), kccb # <<>>, kccb' = Tail(kccb)
    PROVE  RingPlain' /\ Head(kccb) \in Plain
<1>1. Len(kccb) \in Nat /\ Len(kccb) > 0 /\ Head(kccb) = kccb[1]
  BY EmptySeq, LenProperties
<1>2. /\ Len(kccb') = Len(kccb) - 1
      /\ \A i \in 1..(Len(kccb) - 1) : kccb'[i] = kccb[i + 1]
  BY <1>1, HeadTailProperties
<1>3. QED
  BY <1>1, <1>2 DEF RingPlain

\* The firmware executes what is before the request, then the request.
LEMMA AskedExecuted ==
    ASSUME NEW c \in Acked, Asked(c), kccb \in Seq(Commands), kccb # <<>>,
           kccb' = Tail(kccb), powSync' = (powSync \/ Head(kccb) \in Acked)
    PROVE  /\ ~powSync /\ Asked(c)'
           /\ \/ Head(kccb) = c /\ powSync' /\ kccb' = <<>>
              \/ Head(kccb) \in Plain /\ ~powSync'
<1>1. Len(kccb) \in Nat /\ Len(kccb) > 0 /\ Head(kccb) = kccb[1]
  BY EmptySeq, LenProperties
<1>2. /\ kccb' \in Seq(Commands) /\ Len(kccb') = Len(kccb) - 1
      /\ \A i \in 1..(Len(kccb) - 1) : kccb'[i] = kccb[i + 1]
  BY <1>1, HeadTailProperties
<1>3. ~powSync /\ kccb[Len(kccb)] = c /\ \A i \in 1..(Len(kccb) - 1) : kccb[i] \in Plain
  BY DEF Asked
<1>4. CASE Len(kccb) = 1
  <2>1. kccb' = <<>>
    BY <1>2, <1>4, EmptySeq
  <2>2. Head(kccb) = c /\ powSync'
    BY <1>1, <1>3, <1>4
  <2>3. QED
    BY <1>3, <2>1, <2>2 DEF Asked
<1>5. CASE Len(kccb) > 1
  <2>1. Head(kccb) \in Plain
    BY <1>1, <1>3, <1>5
  <2>2. ~powSync'
    BY <1>3, <2>1, PlainOrAcked
  <2>3. kccb'[Len(kccb')] = c /\ Len(kccb') > 0
    BY <1>1, <1>2, <1>3, <1>5
  <2>4. \A i \in 1..(Len(kccb') - 1) : kccb'[i] \in Plain
    BY <1>1, <1>2, <1>3, <1>5
  <2>5. QED
    BY <1>3, <2>1, <2>2, <2>3, <2>4 DEF Asked
<1>6. \A n \in Nat : n > 0 => n = 1 \/ n > 1
  OBVIOUS
<1>7. Len(kccb) = 1 \/ Len(kccb) > 1
  BY <1>1, <1>6, Zenon
<1>8. QED
  BY <1>4, <1>5, <1>7

\* A command at the end of the ring.
LEMMA PlainAppended ==
    ASSUME NEW s \in Seq(Commands), \A i \in 1..Len(s) : s[i] \in Plain,
           NEW c \in Plain, c \in Commands, kccb' = Append(s, c)
    PROVE  RingPlain' /\ Len(kccb') = Len(s) + 1
<1>1. /\ Len(s) \in Nat /\ Len(kccb') = Len(s) + 1
      /\ \A i \in 1..Len(s) : kccb'[i] = s[i]
      /\ kccb'[Len(s) + 1] = c
  BY LenProperties, AppendProperties
<1>2. QED
  BY <1>1 DEF RingPlain

\* A request behind commands the firmware does not answer.
LEMMA RequestAppended ==
    ASSUME RingPlain, kccb \in Seq(Commands), NEW c \in Commands, ~powSync', kccb' = Append(kccb, c)
    PROVE  Asked(c)'
<1>1. /\ Len(kccb) \in Nat /\ Len(kccb') = Len(kccb) + 1
      /\ \A i \in 1..Len(kccb) : kccb'[i] = kccb[i]
      /\ kccb'[Len(kccb) + 1] = c
  BY LenProperties, AppendProperties
<1>2. QED
  BY <1>1 DEF RingPlain, Asked

\* What was deferred are kicks.
LEMMA FlushedPlain ==
    ASSUME RingPlain, kccb \in Seq(Commands), deferred \in Seq({"KICK"}), KCCBSize \in Nat,
           Len(kccb) <= KCCBSize
    PROVE  /\ \A i \in 1..Len(Flushed.ring) : Flushed.ring[i] \in Plain
           /\ deferred = <<>> => Flushed.ring = kccb /\ Flushed.list = <<>>
<1> DEFINE n == Smaller(Room, Len(deferred))
           r == Flushed.ring
           s == SubSeq(deferred, 1, n)
<1>1. /\ Len(kccb) \in Nat /\ Len(deferred) \in Nat
      /\ n \in Nat /\ n <= Len(deferred)
  BY LenProperties DEF Room, Smaller
<1>2. s \in Seq({"KICK"}) /\ Len(s) = n /\ \A i \in 1..n : s[i] = "KICK"
  BY <1>1, SubSeqProperties, ElementOfSeq
<1>3. r = kccb \o s
  BY DEF Flushed
<1>4. "KICK" \in Commands
  BY KickIsCommand
<1>5. s \in Seq(Commands)
  BY <1>2, <1>4
<1>6. /\ Len(r) = Len(kccb) + Len(s)
      /\ \A i \in 1..Len(r) : r[i] = IF i <= Len(kccb) THEN kccb[i] ELSE s[i - Len(kccb)]
  BY <1>3, <1>5, ConcatProperties
<1>7. \A i \in 1..Len(r) : r[i] \in Plain
  <2> HIDE DEF s, n, r
  <2>1. ASSUME NEW i \in 1..Len(r) PROVE r[i] \in Plain
    <3>1. CASE i <= Len(kccb)
      BY <1>1, <1>6, <3>1 DEF RingPlain
    <3>2. CASE i > Len(kccb)
      <4>1. i - Len(kccb) \in 1..n
        BY <1>1, <1>2, <1>6, <3>2
      <4>2. r[i] = "KICK"
        BY <1>1, <1>2, <1>6, <3>2, <4>1
      <4>3. QED
        BY <4>2 DEF Plain
    <3>3. QED
      BY <1>1, <3>1, <3>2
  <2>2. QED
    BY <2>1
<1>8. ASSUME deferred = <<>> PROVE Flushed.ring = kccb /\ Flushed.list = <<>>
  <2>1. Len(deferred) = 0 /\ n = 0
    BY <1>1, <1>8, EmptySeq
  <2>2. s = <<>>
    BY <1>2, <2>1, EmptySeq
  <2>3. SubSeq(deferred, n + 1, Len(deferred)) = <<>>
    BY <2>1, <1>8, SubSeqProperties, EmptySeq
  <2>4. kccb \o <<>> = kccb
    BY ConcatEmptySeq
  <2>5. QED
    BY <2>2, <2>3, <2>4 DEF Flushed
<1>9. QED
  BY <1>7, <1>8

-----------------------------------------------------------------------------
(* The hardware.                                                           *)

\* A step of the hardware keeps the invariant when it keeps what the holder of
\* the lock, or the next one, relies on.
LEMMA HardwareStep ==
    ASSUME StateInv, DeviceInv', UNCHANGED <<hPowerLock, pc, op, cur, new>>,
           Supplied', OffMeansDrained', hPowerLock = NoThread /\ Free => Free',
           \A t \in AllThreads : pc[t] \in Holding /\ Held(t) => Held(t)'
    PROVE  StateInv'
<1>1. \A u \in AllThreads : OwnLocals(u)'
  BY DEF StateInv, OwnLocals
<1>2. QED
  BY <1>1 DEF StateInv

\* The interrupt handler.
LEMMA LisrStep == ASSUME StateInv, DeviceInv', Lisr PROVE StateInv'
<1> USE DEF Lisr, lockVars, devVars, ccbVars, locals
<1>1. Supplied' /\ OffMeansDrained'
  BY DEF StateInv, Supplied, OffMeansDrained
<1>2. Free => Free'
  BY DEF Free, Mirror, RingPlain
<1>3. ASSUME NEW t \in AllThreads, Held(t) PROVE Held(t)'
  <2>1. DeviceAt(t)' /\ ChangeAt(t)'
    BY <1>3 DEF Held, DeviceAt, ChangeAt, Mirror, GpuIsOff
  <2>2. ForcedAt(t)' /\ RingAt(t)'
    BY <1>3 DEF Held, ForcedAt, RingAt, RingPlain, Asked
  <2>3. QED
    BY <2>1, <2>2 DEF Held
<1>4. QED
  BY <1>1, <1>2, <1>3, HardwareStep

\* The firmware runs out of work.
LEMMA FwGoesIdleStep == ASSUME StateInv, DeviceInv', FwGoesIdle PROVE StateInv'
<1> USE DEF FwGoesIdle, lockVars, devVars, ccbVars, locals
<1>1. Supplied' /\ OffMeansDrained'
  BY DEF StateInv, Supplied, OffMeansDrained
<1>2. Free => Free'
  BY DEF Free, Mirror, RingPlain
<1>3. ASSUME NEW t \in AllThreads, Held(t) PROVE Held(t)'
  <2>1. DeviceAt(t)' /\ ChangeAt(t)'
    BY <1>3 DEF Held, DeviceAt, ChangeAt, Mirror, GpuIsOff, ForcedIdleAt
  <2>2. ForcedAt(t)' /\ RingAt(t)'
    BY <1>3 DEF Held, ForcedAt, RingAt, RingPlain, Asked
  <2>3. QED
    BY <2>1, <2>2 DEF Held
<1>4. QED
  BY <1>1, <1>2, <1>3, HardwareStep

\* While nothing was asked the firmware at most starts to work.
LEMMA PlainExecution ==
    ASSUME StateInv, FwExecute, Head(kccb) \in Plain
    PROVE  /\ ePowState' = ePowState \/ (ePowState = "IDLE" /\ ePowState' = "ON")
           /\ powSync' = powSync
<1>1. powSync \in BOOLEAN
  BY StateTypes
<1>2. powSync' = powSync
  BY <1>1, PlainOrAcked DEF FwExecute
<1>3. QED
  BY <1>2, PlainOrAcked DEF FwExecute

\* Commands are executed in order, so at the request nothing is left to do; the
\* request is for one of the states named here.
LEMMA RequestExecution ==
    ASSUME StateInv, FwExecute, NEW t \in AllThreads, pc[t] \in Waiting, Held(t),
           Head(kccb) \notin Plain
    PROVE  /\ kccb' = <<>> /\ powSync'
           /\ pc[t] = "offPoll" => ePowState' # "FORCED_IDLE"
           /\ pc[t] = "cancelPoll" => ePowState' # "FORCED_IDLE"
           /\ ePowState' = "FORCED_IDLE" => ePowState = "FORCED_IDLE" \/ pc[t] = "idlePoll"
           /\ ePowState' = "OFF" => pc[t] = "offPoll"
           /\ pc[t] = "unitsPoll" => ePowState' = ePowState
<1> DEFINE c == Head(kccb)
<1>0. /\ ePowState \in {"ON", "IDLE", "FORCED_IDLE", "OFF"} /\ ePowState # "OFF"
      /\ kccb \in Seq(Commands) /\ kccb # <<>> /\ kccb' = Tail(kccb)
      /\ powSync' = (powSync \/ Head(kccb) \in Acked)
  BY StateTypes DEF FwExecute
<1>1. CASE pc[t] = "offPoll"
  <2>1. c = "POW_OFF_REQ" /\ kccb' = <<>> /\ powSync'
    BY <1>0, <1>1, AskedExecuted DEF Held, RingAt, Acked
  <2>2. ePowState' # "FORCED_IDLE" /\ (ePowState = "FORCED_IDLE" => ePowState' = "OFF")
    BY <1>0, <2>1 DEF FwExecute
  <2>3. QED
    BY <1>1, <2>1, <2>2
<1>2. CASE pc[t] = "idlePoll"
  <2>1. c = "POW_FORCED_IDLE_REQ" /\ kccb' = <<>> /\ powSync'
    BY <1>0, <1>2, AskedExecuted DEF Held, RingAt, Acked
  <2>2. ePowState' # "OFF"
    BY <1>0, <2>1 DEF FwExecute
  <2>3. QED
    BY <1>2, <2>1, <2>2
<1>3. CASE pc[t] = "cancelPoll"
  <2>1. c = "POW_CANCEL_FORCED_IDLE" /\ kccb' = <<>> /\ powSync'
    BY <1>0, <1>3, AskedExecuted DEF Held, RingAt, Acked
  <2>2. ePowState' # "OFF" /\ ePowState' # "FORCED_IDLE"
    BY <1>0, <2>1 DEF FwExecute
  <2>3. QED
    BY <1>3, <2>1, <2>2
<1>4. CASE pc[t] = "unitsPoll"
  <2>1. c = "POW_NUM_UNITS_CHANGE" /\ kccb' = <<>> /\ powSync'
    BY <1>0, <1>4, AskedExecuted DEF Held, RingAt, Acked
  <2>2. ePowState' = ePowState
    BY <2>1 DEF FwExecute
  <2>3. QED
    BY <1>0, <1>4, <2>1, <2>2
<1>5. QED
  BY <1>1, <1>2, <1>3, <1>4 DEF Waiting

\* The firmware executes something that was not asked through the sync prim.
LEMMA PlainKeepsHeld ==
    ASSUME StateInv, FwExecute, Head(kccb) \in Plain, NEW t \in AllThreads, Held(t)
    PROVE  Held(t)'
<1>1. /\ ePowState' = ePowState \/ (ePowState = "IDLE" /\ ePowState' = "ON")
      /\ powSync' = powSync
  BY PlainExecution
<1>2. /\ UNCHANGED <<eCurrentPowerState, bRGXPowered, deferred, gpuPowered, pc, cur, new>>
      /\ irq' /\ ePowState # "OFF"
      /\ kccb \in Seq(Commands) /\ kccb # <<>> /\ kccb' = Tail(kccb)
      /\ powSync' = (powSync \/ Head(kccb) \in Acked)
  BY StateTypes DEF FwExecute, lockVars, devVars, locals
<1>3. DeviceAt(t)' /\ ChangeAt(t)'
  BY <1>1, <1>2 DEF Held, DeviceAt, ChangeAt, Mirror, GpuIsOff
<1>4. ForcedAt(t)'
  <2>1. ePowState' = "FORCED_IDLE" => ForcedAt(t) /\ ePowState = "FORCED_IDLE"
    BY <1>1 DEF Held
  <2>2. Len(kccb) \in Nat /\ Len(kccb') = Len(kccb) - 1
    BY <1>2, LenProperties, HeadTailProperties
  <2>3. QED
    BY <1>1, <1>2, <2>1, <2>2 DEF ForcedAt
<1>5. RingAt(t)'
  <2>1. CASE pc[t] \in Waiting
    <3>1. Asked("POW_OFF_REQ") => Asked("POW_OFF_REQ")'
      BY <1>2, AskedExecuted DEF Acked
    <3>2. Asked("POW_FORCED_IDLE_REQ") => Asked("POW_FORCED_IDLE_REQ")'
      BY <1>2, AskedExecuted DEF Acked
    <3>3. Asked("POW_CANCEL_FORCED_IDLE") => Asked("POW_CANCEL_FORCED_IDLE")'
      BY <1>2, AskedExecuted DEF Acked
    <3>4. Asked("POW_NUM_UNITS_CHANGE") => Asked("POW_NUM_UNITS_CHANGE")'
      BY <1>2, AskedExecuted DEF Acked
    <3>5. QED
      BY <1>1, <1>2, <2>1, <3>1, <3>2, <3>3, <3>4 DEF Held, RingAt
  <2>2. CASE pc[t] \notin Waiting
    <3>1. RingPlain'
      BY <1>2, <2>2, PlainExecuted DEF Held, RingAt
    <3>2. QED
      BY <1>1, <1>2, <2>2, <3>1 DEF Held, RingAt, Waiting
  <2>3. QED
    BY <2>1, <2>2
<1>6. QED
  BY <1>3, <1>4, <1>5 DEF Held

\* The firmware executes the request its holder waits for.
LEMMA AnswerKeepsHeld ==
    ASSUME StateInv, FwExecute, Head(kccb) \notin Plain, NEW t \in AllThreads, Held(t),
           pc[t] \in Waiting
    PROVE  Held(t)'
<1>1. /\ kccb' = <<>> /\ powSync'
      /\ pc[t] = "offPoll" => ePowState' # "FORCED_IDLE"
      /\ pc[t] = "cancelPoll" => ePowState' # "FORCED_IDLE"
      /\ ePowState' = "FORCED_IDLE" => ePowState = "FORCED_IDLE" \/ pc[t] = "idlePoll"
      /\ ePowState' = "OFF" => pc[t] = "offPoll"
      /\ pc[t] = "unitsPoll" => ePowState' = ePowState
  BY RequestExecution
<1>2. /\ UNCHANGED <<eCurrentPowerState, bRGXPowered, deferred, gpuPowered, pc, cur, new>>
      /\ irq' /\ ePowState # "OFF"
  BY DEF FwExecute, lockVars, devVars, locals
<1>3. DeviceAt(t)' /\ ChangeAt(t)'
  BY <1>1, <1>2 DEF Held, DeviceAt, ChangeAt, Mirror, GpuIsOff, Waiting, InTransition,
        DeviceIsOn, ForcedIdleAt
<1>4. ForcedAt(t)'
  BY <1>1, <1>2 DEF Held, ForcedAt, RingAt, MayBeForced, EmptyRing, Waiting
<1>5. RingAt(t)'
  BY <1>1, <1>2 DEF Held, RingAt, Waiting, Asked
<1>6. QED
  BY <1>3, <1>4, <1>5 DEF Held

\* Whatever the firmware executes.
LEMMA FwExecuteStep == ASSUME StateInv, DeviceInv', FwExecute PROVE StateInv'
<1>1. /\ UNCHANGED <<hPowerLock, eCurrentPowerState, bRGXPowered, deferred, gpuPowered>>
      /\ UNCHANGED <<pc, op, cur, new>>
      /\ irq' /\ ePowState # "OFF"
      /\ kccb \in Seq(Commands) /\ kccb # <<>> /\ kccb' = Tail(kccb)
  BY StateTypes DEF FwExecute, lockVars, devVars, locals
<1>2. Supplied'
  BY <1>1 DEF StateInv, Supplied
<1>3. CASE Head(kccb) \in Plain
  <2>1. /\ ePowState' = ePowState \/ (ePowState = "IDLE" /\ ePowState' = "ON")
    BY <1>3, PlainExecution
  <2>2. OffMeansDrained'
    BY <1>1, <2>1 DEF OffMeansDrained
  <2>3. Free => Free'
    <3>1. RingPlain => RingPlain'
      BY <1>1, PlainExecuted
    <3>2. QED
      BY <1>1, <2>1, <3>1 DEF Free, Mirror
  <2>4. QED
    BY <1>1, <1>2, <1>3, <2>2, <2>3, PlainKeepsHeld, HardwareStep
<1>4. CASE Head(kccb) \notin Plain
  <2>1. ~RingPlain
    BY <1>1, <1>4, PlainExecuted
  <2>2. \A t \in AllThreads : pc[t] \in Holding /\ Held(t) => pc[t] \in Waiting
    BY <2>1 DEF Held, RingAt
  <2>3. PICK t \in AllThreads : pc[t] \in Holding /\ Held(t)
    <3>1. hPowerLock # NoThread
      BY <2>1 DEF StateInv, Free
    <3>2. hPowerLock \in AllThreads
      BY <3>1 DEF StateInv, DeviceInv, TypeOK, SharedTypeOK
    <3>3. QED
      BY <3>2 DEF StateInv, DeviceInv, PowerLockOwnership
  <2>4. /\ kccb' = <<>>
        /\ ePowState' = "OFF" => pc[t] = "offPoll"
    BY <1>4, <2>2, <2>3, RequestExecution
  <2>5. OffMeansDrained'
    BY <1>1, <2>3, <2>4 DEF OffMeansDrained, Held, RingAt
  <2>6. \A u \in AllThreads : pc[u] \in Holding /\ Held(u) => Held(u)'
    BY <1>4, <2>2, AnswerKeepsHeld
  <2>7. ~Free
    BY <2>1 DEF Free
  <2>8. QED
    BY <1>1, <1>2, <2>5, <2>6, <2>7, HardwareStep
<1>5. QED
  BY <1>3, <1>4

-----------------------------------------------------------------------------
(* The threads, outside the lock.                                          *)

\* The holder moves on; ring, firmware and supply stay as they are.
LEMMA QuietStep ==
    ASSUME StateInv, DeviceInv', NEW t \in AllThreads, pc[t] \in Holding, pc'[t] \in Holding,
           OthersWait(t), OwnLocals(t)', Held(t)',
           UNCHANGED <<deferred, kccb, ePowState, gpuPowered>>
    PROVE  StateInv'
<1>1. Supplied' /\ OffMeansDrained'
  BY DEF StateInv, Supplied, OffMeansDrained
<1>2. QED
  BY <1>1, HolderStep

\* A thread goes somewhere; the others stay where they are.
LEMMA Moves ==
    ASSUME StateInv, NEW t \in AllThreads, NEW l, Goto(t, l)
    PROVE  pc'[t] = l /\ \A u \in AllThreads \ {t} : pc'[u] = pc[u]
BY StateTypes DEF Goto

\* A thread enters the driver.
LEMMA EnterStep ==
    ASSUME StateInv, DeviceInv', NEW t \in AllThreads, Enter(t) PROVE StateInv'
<1>1. pc[t] = "idle" /\ Goto(t, "lock") /\ UNCHANGED <<device, hPowerLock>>
  BY DEF Enter, shared, device, lockVars, devVars, ccbVars, fwVars
<1>2. OthersWait(t) /\ pc'[t] = "lock"
  BY <1>1, Moves, StateTypes DEF Enter, OthersWait
<1>3. OwnLocals(t)' /\ pc[t] \notin Holding /\ pc'[t] \notin Holding
  BY <1>1, <1>2, HoldingIsExclusive DEF NotHolding, OwnLocals, ErrorPaths, Idling, Changing
<1>4. QED
  BY <1>1, <1>2, <1>3, AwayStep

\* An operation returns to its caller.
LEMMA ExitStep ==
    ASSUME StateInv, DeviceInv', NEW t \in AllThreads, Exit(t) PROVE StateInv'
<1>1. pc[t] = "exit" /\ UNCHANGED <<device, hPowerLock>>
  BY DEF Exit, device, lockVars, devVars, ccbVars, fwVars
<1>2. op[t] # "CLOCK_DEBUGFS"
  BY DEF StateInv, DeviceInv, NoDebugfs
<1>3. PICK l \in {"misrIdle", "idle"} : Goto(t, l)
  BY <1>2 DEF Exit
<1>4. OthersWait(t) /\ pc'[t] = l
  BY <1>3, Moves, StateTypes DEF Exit, OthersWait
<1>5. OwnLocals(t)' /\ pc[t] \notin Holding /\ pc'[t] \notin Holding
  BY <1>1, <1>4, HoldingIsExclusive DEF NotHolding, OwnLocals, ErrorPaths, Idling, Changing
<1>6. QED
  BY <1>1, <1>4, <1>5, AwayStep

\* The active power MISR begins.
LEMMA MisrStartStep ==
    ASSUME StateInv, DeviceInv', MisrStart PROVE StateInv'
<1>1. /\ Misr \in AllThreads /\ pc[Misr] = "idle" /\ UNCHANGED <<device, hPowerLock>>
  BY DEF MisrStart, AllThreads, device, lockVars, devVars, ccbVars, fwVars
<1>2. PICK l \in {"lock", "misrIdle"} : Goto(Misr, l)
  BY DEF MisrStart
<1>3. OthersWait(Misr) /\ pc'[Misr] = l
  BY <1>1, <1>2, Moves, StateTypes DEF MisrStart, OthersWait
<1>4. OwnLocals(Misr)' /\ pc[Misr] \notin Holding /\ pc'[Misr] \notin Holding
  BY <1>1, <1>3, HoldingIsExclusive DEF NotHolding, OwnLocals, ErrorPaths, Idling, Changing
<1>5. QED
  BY <1>1, <1>3, <1>4, AwayStep

\* The active power MISR looks at the firmware.
LEMMA MisrCheckIdleStep ==
    ASSUME StateInv, DeviceInv', MisrCheckIdle PROVE StateInv'
<1>1. /\ Misr \in AllThreads /\ pc[Misr] = "misrIdle" /\ UNCHANGED <<device, hPowerLock>>
  BY DEF MisrCheckIdle, AllThreads, shared, device, lockVars, devVars, ccbVars, fwVars
<1>2. PICK l \in {"tryLock", "idle"} : Goto(Misr, l)
  BY DEF MisrCheckIdle
<1>3. OthersWait(Misr) /\ pc'[Misr] = l
  BY <1>1, <1>2, Moves, StateTypes DEF MisrCheckIdle, OthersWait
<1>4. OwnLocals(Misr)' /\ pc[Misr] \notin Holding /\ pc'[Misr] \notin Holding
  BY <1>1, <1>3, HoldingIsExclusive DEF NotHolding, OwnLocals, ErrorPaths, Idling, Changing
<1>5. QED
  BY <1>1, <1>3, <1>4, AwayStep

\* A thread that gets the lock, and one that does not.
LEMMA AcquireStep ==
    ASSUME StateInv, DeviceInv', NEW t \in AllThreads, pc[t] \in {"lock", "tryLock", "relock"},
           NEW l \in {"locked", "idleReq", "unlock", "exit"}, Goto(t, l),
           l = "idleReq" => pc[t] = "relock",
           IF l = "exit" THEN UNCHANGED hPowerLock ELSE hPowerLock = NoThread,
           UNCHANGED <<device, op, cur, new>>
    PROVE  StateInv'
<1>1. OthersWait(t) /\ pc'[t] = l
  BY Moves DEF OthersWait
<1>2. OwnLocals(t)'
  <2>1. OwnLocals(t)
    BY DEF StateInv
  <2>2. QED
    BY <1>1, <2>1 DEF OwnLocals, ErrorPaths, Idling, Changing
<1>3. CASE l = "exit"
  <2>1. pc[t] \notin Holding /\ pc'[t] \notin Holding
    BY <1>1, <1>3, HoldingIsExclusive DEF NotHolding
  <2>2. QED
    BY <1>1, <1>2, <1>3, <2>1, AwayStep
<1>4. CASE l # "exit"
  <2>1. Free'
    BY <1>4 DEF StateInv, Free, Mirror, RingPlain, device
  <2>2. Held(t)' /\ pc'[t] \in Holding
    <3>1. pc'[t] \in Holding
      BY <1>1, <1>4 DEF Holding
    <3>2. DeviceAt(t)' /\ ChangeAt(t)'
      BY <1>1, <1>4, <2>1 DEF Free, DeviceAt, ChangeAt, InTransition, DeviceIsOn, ForcedIdleAt
    <3>3. ForcedAt(t)' /\ RingAt(t)'
      BY <1>1, <1>4, <2>1 DEF Free, ForcedAt, RingAt, Waiting
    <3>4. QED
      BY <3>1, <3>2, <3>3 DEF Held
  <2>3. QED
    BY <1>1, <1>2, <1>4, <2>2, TakeStep
<1>5. QED
  BY <1>3, <1>4

\* PVRSRVPowerLock and its forced variant.
LEMMA PowerLockStep ==
    ASSUME StateInv, DeviceInv', NEW t \in AllThreads, PowerLock(t) PROVE StateInv'
<1>1. pc[t] = "lock" /\ hPowerLock = NoThread /\ UNCHANGED <<device, op, cur, new>>
  BY DEF PowerLock, device, devVars, ccbVars, fwVars
<1>2. Goto(t, "locked") \/ (Goto(t, "exit") /\ UNCHANGED hPowerLock)
  BY <1>1 DEF PowerLock, Fail
<1>3. QED
  BY <1>1, <1>2, AcquireStep

\* PVRSRVPowerTryLock.
LEMMA PowerTryLockStep ==
    ASSUME StateInv, DeviceInv', NEW t \in AllThreads, PowerTryLock(t) PROVE StateInv'
<1>1. pc[t] = "tryLock" /\ UNCHANGED <<device, op, cur, new>>
  BY DEF PowerTryLock, device, devVars, ccbVars, fwVars
<1>2. \/ Goto(t, "locked") /\ hPowerLock = NoThread
      \/ Goto(t, "exit") /\ UNCHANGED hPowerLock
  BY DEF PowerTryLock, Fail
<1>3. QED
  BY <1>1, <1>2, AcquireStep

\* The lock is taken again after a denied idle request.
LEMMA ReacquireStep ==
    ASSUME StateInv, DeviceInv', NEW t \in AllThreads, Reacquire(t) PROVE StateInv'
<1>1. pc[t] = "relock" /\ hPowerLock = NoThread /\ UNCHANGED <<device, op, cur, new>>
  BY DEF Reacquire, device, devVars, ccbVars, fwVars
<1>2. \/ Goto(t, "exit") /\ UNCHANGED hPowerLock
      \/ Goto(t, "idleReq") \/ Goto(t, "unlock")
  BY DEF Reacquire, Fail, AfterIdleError, AfterReacquire
<1>3. QED
  BY <1>1, <1>2, AcquireStep

\* The lock is given up only where the device agrees with the driver.
LEMMA GiveUpStep ==
    ASSUME StateInv, DeviceInv', NEW t \in AllThreads, PowerUnlock(t) \/ IdleDenied(t)
    PROVE  StateInv'
<1>1. /\ pc[t] \in {"unlock", "idleLoop"} /\ UNCHANGED <<device, op, cur, new>>
      /\ pc[t] = "unlock" => Goto(t, "exit")
      /\ pc[t] = "idleLoop" => Goto(t, "relock")
  BY DEF PowerUnlock, IdleDenied, device, devVars, ccbVars, fwVars, locals
<1>2. /\ OthersWait(t) /\ pc'[t] \in {"exit", "relock"}
      /\ pc'[t] = "relock" => pc[t] = "idleLoop"
  BY <1>1, Moves DEF OthersWait
<1>3. pc[t] \in Holding /\ pc'[t] \notin Holding
  BY <1>1, <1>2, HoldingIsExclusive DEF Holding, NotHolding
<1>4. OwnLocals(t)'
  <2>1. OwnLocals(t)
    BY DEF StateInv
  <2>2. QED
    BY <1>1, <1>2, <2>1 DEF OwnLocals, ErrorPaths, Idling, Changing
<1>5. Free
  <2>1. Held(t)
    BY <1>3 DEF StateInv
  <2>2. Mirror /\ RingPlain
    BY <1>1, <2>1 DEF Held, DeviceAt, RingAt, InTransition, Waiting
  <2>3. ePowState # "FORCED_IDLE"
    BY <1>1, <2>1 DEF Held, ForcedAt, MayBeForced, ForcedIdleAt
  <2>4. QED
    BY <2>2, <2>3 DEF Free
<1>6. QED
  BY <1>1, <1>2, <1>3, <1>4, <1>5, ReleaseStep

-----------------------------------------------------------------------------
(* The holder of the lock moves on without touching the ring.              *)

\* Where the operations begin.
LEMMA BodyStep ==
    ASSUME StateInv, DeviceInv', NEW t \in AllThreads, Body(t) PROVE StateInv'
<1>1. /\ pc[t] = "locked" /\ pc[t] \in Holding
      /\ UNCHANGED <<deferred, kccb, ePowState, gpuPowered, eCurrentPowerState, bRGXPowered>>
      /\ UNCHANGED <<irq, powSync, op>>
  BY DEF Body, shared, devVars, ccbVars, fwVars, Holding
<1>2. Mirror /\ RingPlain /\ ePowState # "FORCED_IDLE"
  BY <1>1 DEF StateInv, Held, DeviceAt, ForcedAt, RingAt, InTransition, Waiting, MayBeForced,
        ForcedIdleAt
<1>3. PICK l \in {"setPower", "unlock", "idleReq", "clkHeld", "units", "apmSend"} : Goto(t, l)
  BY DEF Body, ScheduleBody, SysPowerBody, ClockBody, UnitsBody, ApmLatencyBody,
         ApmLatencyNext, ActivePowerBody, CallSetPower
<1>4. pc'[t] = l /\ pc'[t] \in Holding
  BY <1>3, Moves DEF Holding, Sending, Command
<1>5. OthersWait(t)
  BY <1>3, Moves, StateTypes
     DEF OthersWait, Body, ScheduleBody, SysPowerBody, ClockBody, UnitsBody, ApmLatencyBody,
         ActivePowerBody, CallSetPower
<1>6. l = "setPower" /\ op[t] \in KickOps => new'[t] = "ON"
  BY <1>3, <1>4, StateTypes
     DEF Body, ScheduleBody, SysPowerBody, ClockBody, UnitsBody, ApmLatencyBody,
         ActivePowerBody, CallSetPower, KickOps, SysOps, ClockOps
<1>7. l = "idleReq" => /\ op[t] \in SysOps \cup ClockOps \cup {"UNITS"}
                       /\ op[t] \in SysOps => new'[t] = "OFF"
                       /\ op[t] = "UNITS" => cur'[t] = "ON"
  BY <1>3, <1>4, StateTypes
     DEF Body, ScheduleBody, SysPowerBody, ClockBody, UnitsBody, ApmLatencyBody, ApmLatencyNext,
         ActivePowerBody, CallSetPower, SysOps, ClockOps, Goto
<1>8. l \in {"clkHeld", "units"} => cur'[t] = "OFF" /\ eCurrentPowerState = "OFF"
  BY <1>3, <1>4, StateTypes
     DEF Body, ScheduleBody, SysPowerBody, ClockBody, UnitsBody, ApmLatencyBody, ApmLatencyNext,
         ActivePowerBody, CallSetPower, Goto
<1>9. l = "apmSend" => eCurrentPowerState = "ON"
  BY <1>3, <1>4, StateTypes
     DEF Body, ScheduleBody, SysPowerBody, ClockBody, UnitsBody, ApmLatencyBody, ApmLatencyNext,
         ActivePowerBody, CallSetPower, Goto
<1>10. OwnLocals(t)'
  BY <1>1, <1>4, <1>6, <1>7 DEF OwnLocals, ErrorPaths, Idling, Changing
<1>11. DeviceAt(t)' /\ ChangeAt(t)'
  BY <1>1, <1>2, <1>4, <1>8, <1>9 DEF DeviceAt, ChangeAt, Mirror, InTransition, DeviceIsOn, ForcedIdleAt
<1>12. ForcedAt(t)' /\ RingAt(t)'
  BY <1>1, <1>2, <1>4 DEF ForcedAt, RingAt, RingPlain, Waiting
<1>13. QED
  BY <1>1, <1>4, <1>5, <1>10, <1>11, <1>12, QuietStep DEF Held

\* What is known where a thread asks the firmware to idle.
LEMMA AfterIdleIs ==
    ASSUME NEW t \in AllThreads, op[t] \in SysOps \cup ClockOps \cup {"UNITS"}
    PROVE  /\ op[t] \in SysOps => AfterIdle(t) = "setPower"
           /\ op[t] \in ClockOps => AfterIdle(t) = "clkHeld"
           /\ op[t] = "UNITS" => AfterIdle(t) = "units"
BY DEF AfterIdle, SysOps, ClockOps

\* The firmware is asked to idle, or needs no asking.
LEMMA ForcedIdleRequestStep ==
    ASSUME StateInv, DeviceInv', NEW t \in AllThreads, ForcedIdleRequest(t) PROVE StateInv'
<1>1. /\ pc[t] = "idleReq" /\ pc[t] \in Holding
      /\ UNCHANGED <<deferred, kccb, ePowState, gpuPowered, eCurrentPowerState, bRGXPowered>>
      /\ UNCHANGED <<irq, op, cur, new>>
  BY DEF ForcedIdleRequest, devVars, ccbVars, locals, Holding
<1>2. Mirror /\ RingPlain /\ ePowState # "FORCED_IDLE"
  BY <1>1 DEF StateInv, Held, DeviceAt, ForcedAt, RingAt, InTransition, Waiting, MayBeForced,
        ForcedIdleAt
<1>3. /\ op[t] \in SysOps \cup ClockOps \cup {"UNITS"}
      /\ op[t] \in SysOps => new[t] = "OFF"
      /\ op[t] = "UNITS" => cur[t] = "ON"
  BY <1>1 DEF StateInv, OwnLocals, Idling
<1>4. PICK l \in {"setPower", "clkHeld", "idleLoop", "idleSend"} :
        /\ Goto(t, l)
        /\ l = "idleSend" <=> ePowState # "OFF"
        /\ IF l = "idleSend" THEN ~powSync' ELSE UNCHANGED powSync
        /\ l = "setPower" => op[t] \in SysOps
        /\ l = "clkHeld" => op[t] \in ClockOps
  BY <1>2, <1>3, AfterIdleIs DEF ForcedIdleRequest, DeviceOffPermitted
<1>5. OthersWait(t) /\ pc'[t] = l /\ pc'[t] \in Holding
  BY <1>1, <1>4, Moves DEF OthersWait, Holding, Sending, Command
<1>6. OwnLocals(t)'
  BY <1>1, <1>3, <1>4, <1>5 DEF OwnLocals, ErrorPaths, Idling, Changing, SysOps, KickOps
<1>7. eCurrentPowerState \in {"ON", "OFF"} /\ bRGXPowered \in BOOLEAN
  BY StateTypes
<1>8. DeviceAt(t)' /\ ChangeAt(t)'
  BY <1>1, <1>2, <1>4, <1>5, <1>7 DEF DeviceAt, ChangeAt, Mirror, InTransition, DeviceIsOn, ForcedIdleAt
<1>9. ForcedAt(t)' /\ RingAt(t)'
  BY <1>1, <1>2, <1>4, <1>5 DEF ForcedAt, RingAt, RingPlain, Waiting
<1>10. QED
  BY <1>1, <1>5, <1>6, <1>8, <1>9, QuietStep DEF Held

\* It idles now, or denied the request.
LEMMA ForcedIdleAnsweredStep ==
    ASSUME StateInv, DeviceInv', NEW t \in AllThreads, ForcedIdleAnswered(t) PROVE StateInv'
<1>1. /\ pc[t] = "idlePoll" /\ pc[t] \in Holding /\ powSync
      /\ UNCHANGED <<deferred, kccb, ePowState, gpuPowered, eCurrentPowerState, bRGXPowered>>
      /\ UNCHANGED <<irq, powSync, op, cur, new>>
  BY DEF ForcedIdleAnswered, shared, devVars, ccbVars, fwVars, locals, Holding, Polling
<1>2. /\ Mirror /\ kccb = <<>> /\ eCurrentPowerState = "ON" /\ ePowState # "OFF"
      /\ deferred = <<>>
  BY <1>1 DEF StateInv, Held, DeviceAt, RingAt, Asked, InTransition, DeviceIsOn
<1>3. /\ op[t] \in SysOps \cup ClockOps \cup {"UNITS"}
      /\ op[t] \in SysOps => new[t] = "OFF"
      /\ op[t] = "UNITS" => cur[t] = "ON"
  BY <1>1 DEF StateInv, OwnLocals, Idling
<1>4. PICK l \in {"setPower", "clkHeld", "units", "idleLoop"} :
        /\ Goto(t, l)
        /\ l = "idleLoop" <=> ePowState # "FORCED_IDLE"
        /\ l = "setPower" => op[t] \in SysOps
        /\ l = "clkHeld" => op[t] \in ClockOps
        /\ l = "units" => op[t] = "UNITS"
  BY <1>3, AfterIdleIs DEF ForcedIdleAnswered
<1>5. OthersWait(t) /\ pc'[t] = l /\ pc'[t] \in Holding
  BY <1>1, <1>4, Moves DEF OthersWait, Holding
<1>6. OwnLocals(t)'
  BY <1>1, <1>3, <1>4, <1>5 DEF OwnLocals, ErrorPaths, Idling, Changing, SysOps, KickOps
<1>7. DeviceAt(t)' /\ ChangeAt(t)'
  BY <1>1, <1>2, <1>4, <1>5 DEF DeviceAt, ChangeAt, Mirror, InTransition, DeviceIsOn, ForcedIdleAt
<1>8. RingPlain'
  BY <1>1, <1>2, EmptySeq DEF RingPlain
<1>9. ForcedAt(t)' /\ RingAt(t)'
  BY <1>1, <1>2, <1>3, <1>4, <1>5, <1>8 DEF ForcedAt, RingAt, Waiting, MayBeForced, EmptyRing
<1>10. QED
  BY <1>1, <1>5, <1>6, <1>7, <1>9, QuietStep DEF Held

-----------------------------------------------------------------------------
(* A change of the power state.                                            *)

\* After a completed change the device is as the driver says; a kick finds it on.
LEMMA ChangedStep ==
    ASSUME StateInv, DeviceInv', NEW t \in AllThreads, pc[t] \in Holding, PowerChanged(t),
           Mirror', RingPlain', ePowState # "FORCED_IDLE", op[t] \in KickOps => eCurrentPowerState' = "ON",
           UNCHANGED <<deferred, kccb, ePowState, gpuPowered, op, new>>,
           \A u \in AllThreads \ {t} : cur'[u] = cur[u]
    PROVE  StateInv'
<1>1. PICK l \in {"kickSend", "unlock"} : Goto(t, l) /\ (l = "kickSend" => op[t] \in KickOps)
  BY DEF PowerChanged
<1>2. OthersWait(t) /\ pc'[t] = l /\ pc'[t] \in Holding
  BY <1>1, Moves DEF OthersWait, Holding, Sending, Command
<1>3. OwnLocals(t)'
  BY <1>2 DEF OwnLocals, ErrorPaths, Idling, Changing
<1>4. DeviceAt(t)' /\ ChangeAt(t)'
  BY <1>1, <1>2 DEF DeviceAt, ChangeAt, Mirror, InTransition, DeviceIsOn, ForcedIdleAt
<1>5. ForcedAt(t)' /\ RingAt(t)'
  BY <1>2 DEF ForcedAt, RingAt, Waiting
<1>6. QED
  BY <1>2, <1>3, <1>4, <1>5, QuietStep DEF Held

\* PVRSRVSetDevicePowerStateKM: nothing to change, or the change begins.
LEMMA SetDevicePowerStateStep ==
    ASSUME StateInv, DeviceInv', NEW t \in AllThreads, SetDevicePowerState(t) PROVE StateInv'
<1>1. /\ pc[t] = "setPower" /\ pc[t] \in Holding
      /\ UNCHANGED <<deferred, kccb, ePowState, gpuPowered, eCurrentPowerState, bRGXPowered>>
      /\ UNCHANGED <<irq, powSync, op, new>>
  BY DEF SetDevicePowerState, devVars, ccbVars, fwVars, Holding
<1>2. Held(t) /\ OwnLocals(t)
  BY <1>1 DEF StateInv
<1>3. Mirror /\ RingPlain
  BY <1>1, <1>2 DEF Held, DeviceAt, RingAt, InTransition, Waiting
<1>4. CASE eCurrentPowerState = new[t] /\ PowerChanged(t) /\ UNCHANGED cur
  <2>1. Mirror' /\ RingPlain'
    BY <1>1, <1>3 DEF Mirror, RingPlain
  <2>2. ePowState # "FORCED_IDLE"
    BY <1>1, <1>2, <1>3, <1>4 DEF Held, ForcedAt, Mirror
  <2>3. op[t] \in KickOps => eCurrentPowerState' = "ON"
    BY <1>1, <1>2, <1>4 DEF OwnLocals, Changing
  <2>4. QED
    BY <1>1, <1>4, <2>1, <2>2, <2>3, ChangedStep
<1>5. CASE Goto(t, "devPre") /\ cur' = [cur EXCEPT ![t] = eCurrentPowerState]
  <2>1. OthersWait(t) /\ pc'[t] = "devPre" /\ pc'[t] \in Holding /\ cur'[t] = eCurrentPowerState
    BY <1>1, <1>5, Moves, StateTypes DEF OthersWait, Holding
  <2>2. OwnLocals(t)'
    BY <1>1, <1>2, <2>1 DEF OwnLocals, ErrorPaths, Idling, Changing
  <2>3. DeviceAt(t)' /\ ChangeAt(t)'
    BY <1>1, <1>3, <2>1 DEF DeviceAt, ChangeAt, Mirror, InTransition, DeviceIsOn, ForcedIdleAt
  <2>4. ForcedAt(t)' /\ RingAt(t)'
    BY <1>1, <1>2, <1>3, <2>1
       DEF Held, ForcedAt, RingAt, RingPlain, Waiting, MayBeForced, EmptyRing
  <2>5. QED
    BY <1>1, <2>1, <2>2, <2>3, <2>4, QuietStep DEF Held
<1>6. QED
  BY <1>4, <1>5 DEF SetDevicePowerState

\* RGXPrePowerState: only a device that is on is asked to go off.
LEMMA DevicePrePowerStep ==
    ASSUME StateInv, DeviceInv', NEW t \in AllThreads, DevicePrePower(t) PROVE StateInv'
<1>1. /\ pc[t] = "devPre" /\ pc[t] \in Holding
      /\ UNCHANGED <<deferred, kccb, ePowState, gpuPowered, eCurrentPowerState, bRGXPowered>>
      /\ UNCHANGED <<irq, op, cur, new>>
  BY DEF DevicePrePower, devVars, ccbVars, locals, Holding
<1>2. Held(t) /\ OwnLocals(t)
  BY <1>1 DEF StateInv
<1>3. Mirror /\ RingPlain /\ cur[t] = eCurrentPowerState
  BY <1>1, <1>2 DEF Held, DeviceAt, ChangeAt, RingAt, InTransition, Waiting
<1>4. cur[t] \in {"ON", "OFF"} /\ new[t] \in {"ON", "OFF"} /\ bRGXPowered \in BOOLEAN
  BY StateTypes
<1>5. PICK l \in {"offSend", "sysPre"} :
        /\ Goto(t, l)
        /\ l = "offSend" <=> new[t] = "OFF" /\ cur[t] = "ON"
        /\ l = "offSend" => ~powSync'
  BY <1>4 DEF DevicePrePower
<1>6. OthersWait(t) /\ pc'[t] = l /\ pc'[t] \in Holding
  BY <1>1, <1>5, Moves DEF OthersWait, Holding, Sending, Command
<1>7. OwnLocals(t)'
  BY <1>1, <1>2, <1>6 DEF OwnLocals, ErrorPaths, Idling, Changing
<1>8. DeviceAt(t)' /\ ChangeAt(t)'
  BY <1>1, <1>3, <1>4, <1>5, <1>6
     DEF DeviceAt, ChangeAt, Mirror, GpuIsOff, InTransition, DeviceIsOn, ForcedIdleAt
<1>9. ForcedAt(t)' /\ RingAt(t)'
  BY <1>1, <1>2, <1>3, <1>4, <1>5, <1>6
     DEF Held, ForcedAt, Mirror, RingAt, RingPlain, Waiting, MayBeForced, EmptyRing
<1>10. QED
  BY <1>1, <1>6, <1>7, <1>8, <1>9, QuietStep DEF Held

\* The firmware is off with its interrupts served, or denied the request.
LEMMA PowerOffAnsweredStep ==
    ASSUME Reliable, StateInv, DeviceInv', NEW t \in AllThreads, PowerOffAnswered(t) PROVE StateInv'
<1>1. /\ pc[t] = "offPoll" /\ pc[t] \in Holding /\ powSync
      /\ UNCHANGED <<deferred, kccb, ePowState, gpuPowered, eCurrentPowerState>>
      /\ UNCHANGED <<irq, powSync, op, cur, new>>
  BY DEF PowerOffAnswered, ccbVars, fwVars, Holding, Polling
<1>2. Held(t) /\ OwnLocals(t)
  BY <1>1 DEF StateInv
<1>3. /\ kccb = <<>> /\ ePowState # "FORCED_IDLE" /\ bRGXPowered
      /\ cur[t] = eCurrentPowerState /\ new[t] = "OFF" /\ eCurrentPowerState = "ON"
  BY <1>1, <1>2 DEF Held, DeviceAt, ChangeAt, ForcedAt, RingAt, Asked, DeviceIsOn
<1>4. PICK l \in {"sysPre", "unlock"} :
        /\ Goto(t, l)
        /\ l = "sysPre" => ePowState = "OFF" /\ ~bRGXPowered' /\ ~irq
        /\ l = "unlock" => ePowState # "OFF" /\ bRGXPowered'
  <2>1. CASE WentOff /\ InterruptsServed /\ bRGXPowered' = FALSE /\ Goto(t, "sysPre")
    BY <1>3, <2>1 DEF WentOff, InterruptsServed, Reliable
  <2>2. CASE ~WentOff /\ Goto(t, "unlock") /\ UNCHANGED bRGXPowered
    BY <1>3, <2>2 DEF WentOff
  <2>3. QED
    BY <2>1, <2>2 DEF PowerOffAnswered, Fail
<1>5. OthersWait(t) /\ pc'[t] = l /\ pc'[t] \in Holding
  BY <1>1, <1>4, Moves DEF OthersWait, Holding
<1>6. OwnLocals(t)'
  BY <1>1, <1>2, <1>5 DEF OwnLocals, ErrorPaths, Idling, Changing, KickOps
<1>7. DeviceAt(t)' /\ ChangeAt(t)'
  BY <1>1, <1>3, <1>4, <1>5
     DEF DeviceAt, ChangeAt, Mirror, GpuIsOff, InTransition, DeviceIsOn, ForcedIdleAt
<1>8. ForcedAt(t)' /\ RingAt(t)'
  BY <1>1, <1>3, <1>5, EmptySeq DEF ForcedAt, RingAt, RingPlain, Waiting
<1>9. QED
  BY <1>1, <1>5, <1>6, <1>7, <1>8, QuietStep DEF Held

\* The system layer supplies the GPU before it is started.
LEMMA SystemPrePowerStep ==
    ASSUME Reliable, StateInv, DeviceInv', NEW t \in AllThreads, SystemPrePower(t) PROVE StateInv'
<1>1. /\ pc[t] = "sysPre" /\ pc[t] \in Holding /\ Goto(t, "sysPost")
      /\ gpuPowered' = (gpuPowered \/ new[t] = "ON")
      /\ UNCHANGED <<deferred, kccb, ePowState, bRGXPowered, eCurrentPowerState>>
      /\ UNCHANGED <<irq, powSync, op, cur, new>>
  BY DEF SystemPrePower, Reliable, devVars, ccbVars, fwVars, Holding
<1>2. Held(t) /\ OwnLocals(t) /\ gpuPowered \in BOOLEAN
  BY <1>1, StateTypes DEF StateInv
<1>3. OthersWait(t) /\ pc'[t] = "sysPost" /\ pc'[t] \in Holding
  BY <1>1, Moves DEF OthersWait, Holding
<1>4. OwnLocals(t)'
  BY <1>1, <1>2, <1>3 DEF OwnLocals, ErrorPaths, Idling, Changing
<1>5. DeviceAt(t)' /\ ChangeAt(t)'
  BY <1>1, <1>2, <1>3
     DEF Held, DeviceAt, ChangeAt, Mirror, GpuIsOff, InTransition, DeviceIsOn, ForcedIdleAt
<1>6. ePowState # "FORCED_IDLE"
  BY <1>1, <1>2 DEF Held, ForcedAt, MayBeForced, ForcedIdleAt
<1>7. ForcedAt(t)' /\ RingAt(t)'
  BY <1>1, <1>2, <1>3, <1>6 DEF Held, ForcedAt, RingAt, RingPlain, Waiting
<1>8. Supplied' /\ OffMeansDrained'
  BY <1>1, <1>2 DEF StateInv, Supplied, OffMeansDrained
<1>9. QED
  BY <1>1, <1>3, <1>4, <1>5, <1>7, <1>8, HolderStep DEF Held

\* The system layer removes power only from a firmware that is off.
LEMMA SystemPostPowerStep ==
    ASSUME Reliable, StateInv, DeviceInv', NEW t \in AllThreads, SystemPostPower(t) PROVE StateInv'
<1>1. /\ pc[t] = "sysPost" /\ pc[t] \in Holding /\ Goto(t, "devPost")
      /\ gpuPowered' \in SupplyAfter(t)
      /\ UNCHANGED <<deferred, kccb, ePowState, bRGXPowered, eCurrentPowerState>>
      /\ UNCHANGED <<irq, powSync, op, cur, new>>
  BY DEF SystemPostPower, Reliable, devVars, ccbVars, fwVars, Holding
<1>2. Held(t) /\ OwnLocals(t) /\ new[t] \in {"ON", "OFF"}
  BY <1>1, StateTypes DEF StateInv
<1>3. OthersWait(t) /\ pc'[t] = "devPost" /\ pc'[t] \in Holding
  BY <1>1, Moves DEF OthersWait, Holding
<1>4. OwnLocals(t)'
  BY <1>1, <1>2, <1>3 DEF OwnLocals, ErrorPaths, Idling, Changing
<1>5. /\ new[t] = "ON" => UNCHANGED gpuPowered
      /\ new[t] = "OFF" => ePowState = "OFF"
  BY <1>1, <1>2 DEF Held, ChangeAt, GpuIsOff, SupplyAfter
<1>6. DeviceAt(t)' /\ ChangeAt(t)'
  BY <1>1, <1>2, <1>3, <1>5
     DEF Held, DeviceAt, ChangeAt, Mirror, GpuIsOff, InTransition, DeviceIsOn, ForcedIdleAt
<1>7. ePowState # "FORCED_IDLE"
  BY <1>1, <1>2 DEF Held, ForcedAt, MayBeForced, ForcedIdleAt
<1>8. ForcedAt(t)' /\ RingAt(t)'
  BY <1>1, <1>2, <1>3, <1>7 DEF Held, ForcedAt, RingAt, RingPlain, Waiting
<1>9. Supplied' /\ OffMeansDrained'
  BY <1>1, <1>2, <1>5 DEF StateInv, Supplied, OffMeansDrained
<1>10. QED
  BY <1>1, <1>3, <1>4, <1>6, <1>8, <1>9, HolderStep DEF Held

\* The firmware boots, supplied.
LEMMA DoStartStep ==
    ASSUME StateInv, DeviceInv', NEW t \in AllThreads, DoStart(t) PROVE StateInv'
<1>1. OwnLocals(t)
  BY DEF StateInv
<1>2. /\ pc[t] = "devPost" /\ pc[t] \in Holding /\ Goto(t, "bootPoll")
      /\ new[t] = "ON" /\ cur[t] = "OFF" /\ ePowState' = "ON"
      /\ UNCHANGED <<deferred, kccb, gpuPowered, bRGXPowered, eCurrentPowerState>>
      /\ UNCHANGED <<irq, powSync, op, cur, new>>
  BY <1>1 DEF DoStart, OwnLocals, ErrorPaths, devVars, ccbVars, locals, Holding
<1>3. Held(t)
  BY <1>2 DEF StateInv
<1>4. OthersWait(t) /\ pc'[t] = "bootPoll" /\ pc'[t] \in Holding
  BY <1>2, Moves DEF OthersWait, Holding
<1>5. OwnLocals(t)'
  BY <1>1, <1>2, <1>4 DEF OwnLocals, ErrorPaths, Idling, Changing
<1>6. DeviceAt(t)' /\ ChangeAt(t)'
  BY <1>2, <1>3, <1>4
     DEF Held, DeviceAt, ChangeAt, Mirror, GpuIsOff, InTransition, DeviceIsOn, ForcedIdleAt
<1>7. ForcedAt(t)' /\ RingAt(t)'
  BY <1>2, <1>3, <1>4 DEF Held, ForcedAt, RingAt, RingPlain, Waiting
<1>8. Supplied' /\ OffMeansDrained'
  BY <1>2, <1>3 DEF Held, ChangeAt, Supplied, OffMeansDrained
<1>9. QED
  BY <1>2, <1>4, <1>5, <1>6, <1>7, <1>8, HolderStep DEF Held

\* The change is recorded.
LEMMA DevicePostPowerStep ==
    ASSUME StateInv, DeviceInv', NEW t \in AllThreads, DevicePostPower(t) PROVE StateInv'
<1>1. /\ pc[t] \in {"devPost", "bootPoll"} /\ pc[t] \in Holding /\ PowerChanged(t)
      /\ pc[t] = "devPost" => ~(new[t] = "ON" /\ cur[t] = "OFF")
      /\ bRGXPowered' = (bRGXPowered \/ pc[t] = "bootPoll")
      /\ eCurrentPowerState' = new[t]
      /\ UNCHANGED <<deferred, kccb, ePowState, gpuPowered, irq, powSync, op, cur, new>>
  BY DEF DevicePostPower, ccbVars, fwVars, locals, Holding
<1>2. Held(t) /\ OwnLocals(t) /\ RingPlain
  BY <1>1 DEF StateInv, Held, RingAt, Waiting
<1>3. /\ new[t] \in {"ON", "OFF"} /\ cur[t] \in {"ON", "OFF"} /\ bRGXPowered \in BOOLEAN
  BY StateTypes
<1>4. Mirror'
  <2>1. CASE pc[t] = "devPost"
    BY <1>1, <1>2, <1>3, <2>1 DEF Held, ChangeAt, Mirror, GpuIsOff
  <2>2. CASE pc[t] = "bootPoll"
    BY <1>1, <1>2, <1>3, <2>2 DEF Held, ChangeAt, Mirror
  <2>3. QED
    BY <1>1, <2>1, <2>2
<1>5. RingPlain' /\ ePowState # "FORCED_IDLE"
  BY <1>1, <1>2 DEF Held, ForcedAt, MayBeForced, ForcedIdleAt, RingPlain
<1>6. op[t] \in KickOps => eCurrentPowerState' = "ON"
  BY <1>1, <1>2 DEF OwnLocals, Changing
<1>7. QED
  BY <1>1, <1>4, <1>5, <1>6, ChangedStep

-----------------------------------------------------------------------------
(* Clock speed and unit changes.                                           *)

\* The clock is changed; who has to cancel the forced idle reads the state again.
LEMMA PostClockSpeedChangeStep ==
    ASSUME StateInv, DeviceInv', NEW t \in AllThreads, PostClockSpeedChange(t) PROVE StateInv'
<1>1. /\ pc[t] = "clkHeld" /\ pc[t] \in Holding
      /\ cur' = [cur EXCEPT ![t] = eCurrentPowerState]
      /\ UNCHANGED <<deferred, kccb, ePowState, gpuPowered, eCurrentPowerState, bRGXPowered>>
      /\ UNCHANGED <<irq, powSync, op, new>>
  BY DEF PostClockSpeedChange, shared, devVars, ccbVars, fwVars, Holding
<1>2. Held(t) /\ OwnLocals(t) /\ eCurrentPowerState \in {"ON", "OFF"}
  BY <1>1, StateTypes DEF StateInv
<1>3. /\ Mirror /\ RingPlain /\ ePowState \in {"FORCED_IDLE", "OFF"}
      /\ ePowState = "FORCED_IDLE" => kccb = <<>> /\ deferred = <<>>
  BY <1>1, <1>2 DEF Held, DeviceAt, ForcedAt, RingAt, InTransition, Waiting, EmptyRing
<1>4. PICK l \in {"clkSend", "clkCancel"} :
        /\ Goto(t, l)
        /\ l = "clkSend" <=> ePowState = "FORCED_IDLE"
  BY <1>2, <1>3 DEF PostClockSpeedChange, Mirror
<1>5. /\ OthersWait(t) /\ pc'[t] = l /\ pc'[t] \in Holding
      /\ cur'[t] = "ON" <=> ePowState = "FORCED_IDLE"
  BY <1>1, <1>2, <1>3, <1>4, Moves, StateTypes DEF OthersWait, Holding, Sending, Command, Mirror
<1>6. OwnLocals(t)'
  BY <1>1, <1>2, <1>5 DEF OwnLocals, ErrorPaths, Idling, Changing
<1>7. DeviceAt(t)' /\ ChangeAt(t)'
  BY <1>1, <1>3, <1>4, <1>5 DEF DeviceAt, ChangeAt, Mirror, InTransition, DeviceIsOn, ForcedIdleAt
<1>8. ForcedAt(t)' /\ RingAt(t)'
  BY <1>1, <1>3, <1>4, <1>5
     DEF ForcedAt, RingAt, RingPlain, Waiting, MayBeForced, ForcedIdleAt, EmptyRing
<1>9. QED
  BY <1>1, <1>5, <1>6, <1>7, <1>8, QuietStep DEF Held

\* The number of units is changed on a firmware that is forced idle.
LEMMA DustCountChangeStep ==
    ASSUME StateInv, DeviceInv', NEW t \in AllThreads, DustCountChange(t) PROVE StateInv'
<1>1. /\ pc[t] = "units" /\ pc[t] \in Holding
      /\ UNCHANGED <<deferred, kccb, ePowState, gpuPowered, eCurrentPowerState, bRGXPowered>>
      /\ UNCHANGED <<irq, op, cur, new>>
  BY DEF DustCountChange, devVars, ccbVars, locals, Holding
<1>2. Held(t) /\ OwnLocals(t)
  BY <1>1 DEF StateInv
<1>3. /\ Mirror /\ RingPlain
      /\ ePowState = "FORCED_IDLE" => kccb = <<>> /\ deferred = <<>> /\ cur[t] = "ON"
      /\ cur[t] = "ON" => ePowState = "FORCED_IDLE"
  BY <1>1, <1>2 DEF Held, DeviceAt, ForcedAt, RingAt, InTransition, Waiting, EmptyRing
<1>4. PICK l \in {"unitsSend", "clkCancel"} :
        /\ Goto(t, l)
        /\ l = "unitsSend" <=> ePowState = "FORCED_IDLE"
        /\ l = "unitsSend" => ~powSync'
  BY DEF DustCountChange
<1>5. OthersWait(t) /\ pc'[t] = l /\ pc'[t] \in Holding
  BY <1>1, <1>4, Moves DEF OthersWait, Holding, Sending, Command
<1>6. OwnLocals(t)'
  BY <1>1, <1>2, <1>5 DEF OwnLocals, ErrorPaths, Idling, Changing
<1>7. DeviceAt(t)' /\ ChangeAt(t)'
  BY <1>1, <1>3, <1>4, <1>5 DEF DeviceAt, ChangeAt, Mirror, InTransition, DeviceIsOn, ForcedIdleAt
<1>8. ForcedAt(t)' /\ RingAt(t)'
  BY <1>1, <1>3, <1>4, <1>5
     DEF ForcedAt, RingAt, RingPlain, Waiting, MayBeForced, ForcedIdleAt, EmptyRing
<1>9. QED
  BY <1>1, <1>5, <1>6, <1>7, <1>8, QuietStep DEF Held

\* The forced idle is cancelled exactly when there is one.
LEMMA IdleCancelStep ==
    ASSUME StateInv, DeviceInv', NEW t \in AllThreads, IdleCancel(t) PROVE StateInv'
<1>1. /\ pc[t] \in {"clkCancel", "unitsPoll"} /\ pc[t] \in Holding
      /\ pc[t] = "unitsPoll" => powSync
      /\ UNCHANGED <<deferred, kccb, ePowState, gpuPowered, eCurrentPowerState, bRGXPowered>>
      /\ UNCHANGED <<irq, op, cur, new>>
  BY DEF IdleCancel, devVars, ccbVars, locals, Holding, Polling
<1>2. Held(t) /\ OwnLocals(t) /\ Len(kccb) \in Nat
  BY <1>1, StateTypes DEF StateInv
<1>3. pc[t] = "unitsPoll" => kccb = <<>> /\ ePowState = "FORCED_IDLE"
  BY <1>1, <1>2 DEF Held, DeviceAt, RingAt, Asked, ForcedIdleAt
<1>4. Mirror /\ RingPlain
  BY <1>1, <1>2, <1>3, EmptySeq DEF Held, DeviceAt, RingAt, RingPlain, InTransition, Waiting
<1>5. /\ ePowState = "FORCED_IDLE" <=> cur[t] = "ON"
      /\ ePowState = "FORCED_IDLE" => deferred = <<>> /\ Len(kccb) <= 1
  <2>1. Len(<<>>) = 0
    BY EmptySeq
  <2>2. QED
    BY <1>1, <1>2, <1>3, <2>1 DEF Held, DeviceAt, ForcedAt
<1>6. PICK l \in {"cancelSend", "unlock"} :
        /\ Goto(t, l)
        /\ l = "cancelSend" <=> cur[t] = "ON"
        /\ l = "cancelSend" => ~powSync'
  BY DEF IdleCancel, NeedsCancel
<1>7. OthersWait(t) /\ pc'[t] = l /\ pc'[t] \in Holding
  BY <1>1, <1>6, Moves DEF OthersWait, Holding, Sending, Command
<1>8. OwnLocals(t)'
  BY <1>1, <1>2, <1>7 DEF OwnLocals, ErrorPaths, Idling, Changing
<1>9. DeviceAt(t)' /\ ChangeAt(t)'
  BY <1>1, <1>4, <1>5, <1>6, <1>7 DEF DeviceAt, ChangeAt, Mirror, InTransition, DeviceIsOn, ForcedIdleAt
<1>10. ForcedAt(t)' /\ RingAt(t)'
  BY <1>1, <1>4, <1>5, <1>6, <1>7
     DEF ForcedAt, RingAt, RingPlain, Waiting, MayBeForced, ForcedIdleAt, EmptyRing
<1>11. QED
  BY <1>1, <1>7, <1>8, <1>9, <1>10, QuietStep DEF Held

\* The firmware is no longer forced idle.
LEMMA CancelAnsweredStep ==
    ASSUME StateInv, DeviceInv', NEW t \in AllThreads, CancelAnswered(t) PROVE StateInv'
<1>1. /\ pc[t] = "cancelPoll" /\ pc[t] \in Holding /\ Goto(t, "unlock") /\ powSync
      /\ UNCHANGED <<deferred, kccb, ePowState, gpuPowered, eCurrentPowerState, bRGXPowered>>
      /\ UNCHANGED <<irq, powSync, op, cur, new>>
  BY DEF CancelAnswered, shared, devVars, ccbVars, fwVars, locals, Holding, Polling
<1>2. Held(t) /\ OwnLocals(t)
  BY <1>1 DEF StateInv
<1>3. Mirror /\ kccb = <<>> /\ ePowState # "FORCED_IDLE"
  BY <1>1, <1>2 DEF Held, DeviceAt, ForcedAt, RingAt, Asked, InTransition
<1>4. OthersWait(t) /\ pc'[t] = "unlock" /\ pc'[t] \in Holding
  BY <1>1, Moves DEF OthersWait, Holding
<1>5. OwnLocals(t)'
  BY <1>1, <1>2, <1>4 DEF OwnLocals, ErrorPaths, Idling, Changing
<1>6. DeviceAt(t)' /\ ChangeAt(t)'
  BY <1>1, <1>3, <1>4 DEF DeviceAt, ChangeAt, Mirror, InTransition, DeviceIsOn, ForcedIdleAt
<1>7. RingPlain'
  BY <1>1, <1>3, EmptySeq DEF RingPlain
<1>8. ForcedAt(t)' /\ RingAt(t)'
  BY <1>1, <1>3, <1>4, <1>7 DEF ForcedAt, RingAt, Waiting
<1>9. QED
  BY <1>1, <1>4, <1>5, <1>6, <1>8, QuietStep DEF Held

-----------------------------------------------------------------------------
(* What cannot happen while the hardware does its part.                    *)

\* No poll times out: the request is in the ring of a firmware that runs.
LEMMA NoErrorPath ==
    ASSUME Reliable, StateInv, NEW t \in AllThreads
    PROVE  /\ ~PollTimedOut(t)
           /\ ~RestorePowerState(t) /\ ~RestoreAnswered(t)
           /\ ~StartFailed(t) /\ ~DeviceRestored(t)
<1>1. OwnLocals(t)
  BY DEF StateInv
<1>2. ~RestorePowerState(t) /\ ~RestoreAnswered(t) /\ ~StartFailed(t) /\ ~DeviceRestored(t)
  BY <1>1 DEF RestorePowerState, RestoreAnswered, StartFailed, DeviceRestored, OwnLocals,
        ErrorPaths, Reliable
<1>3. ASSUME PollTimedOut(t) PROVE FALSE
  <2>1. ~powSync /\ ePowState = "OFF" /\ pc[t] \in Polling
    BY <1>3 DEF PollTimedOut, Reliable
  <2>2. pc[t] \in Waiting /\ pc[t] \in Holding
    BY <1>1, <2>1 DEF OwnLocals, ErrorPaths, Polling, Waiting, Holding
  <2>3. Len(kccb) > 0
    BY <2>1, <2>2 DEF StateInv, Held, RingAt, Asked, Waiting
  <2>4. kccb = <<>>
    BY <2>1 DEF StateInv, OffMeansDrained
  <2>5. Len(<<>>) = 0
    BY EmptySeq
  <2>6. QED
    BY <2>3, <2>4, <2>5
<1>4. QED
  BY <1>2, <1>3

-----------------------------------------------------------------------------
(* Commands for the firmware.                                              *)

\* Whoever has a command to send holds the lock and knows that the device is on.
LEMMA SenderFindsDeviceOn ==
    ASSUME StateInv, NEW t \in AllThreads, pc[t] \in Sending
    PROVE  /\ pc[t] \in {"offSend", "idleSend", "cancelSend", "unitsSend", "apmSend", "clkSend",
                         "kickSend"}
           /\ pc[t] \in Holding /\ Held(t) /\ OwnLocals(t)
           /\ ePowState # "OFF" /\ Mirror /\ RingPlain
<1>1. pc[t] \in Holding /\ OwnLocals(t) /\ Held(t)
  BY DEF StateInv, Holding
<1>2. pc[t] \in {"offSend", "idleSend", "cancelSend", "unitsSend", "apmSend", "clkSend", "kickSend"}
  BY <1>1, SendingLocations DEF OwnLocals, ErrorPaths
<1>3. ePowState # "OFF" /\ Mirror /\ RingPlain
  BY <1>1, <1>2 DEF Held, DeviceAt, RingAt, DeviceIsOn, ForcedIdleAt, InTransition, Waiting
<1>4. QED
  BY <1>1, <1>2, <1>3

\* One deferred kick goes into the ring.
LEMMA FlushOneStep ==
    ASSUME StateInv, DeviceInv', NEW t \in AllThreads, FlushOne(t) PROVE StateInv'
<1>1. /\ pc[t] \in Sending /\ deferred # <<>>
      /\ kccb' = Append(kccb, Head(deferred))
      /\ UNCHANGED <<ePowState, gpuPowered, eCurrentPowerState, bRGXPowered>>
      /\ UNCHANGED <<irq, powSync, pc, op, cur, new>>
  BY DEF FlushOne, WantsSlot, devVars, fwVars, locals
<1>2. /\ pc[t] \in Holding /\ Held(t) /\ OwnLocals(t) /\ RingPlain
      /\ pc[t] \notin Waiting
      /\ ePowState # "OFF" /\ ePowState # "FORCED_IDLE"
  BY <1>1, SenderFindsDeviceOn DEF Held, ForcedAt, Waiting
<1>3. RingPlain'
  <2>1. Head(deferred) = "KICK" /\ kccb \in Seq(Commands) /\ "KICK" \in Commands /\ "KICK" \in Plain
    BY <1>1, StateTypes, KickIsCommand, HeadTailProperties DEF Plain
  <2>2. QED
    BY <1>1, <1>2, <2>1, PlainAppended DEF RingPlain
<1>4. OthersWait(t) /\ OwnLocals(t)' /\ pc'[t] \in Holding
  BY <1>1, <1>2 DEF OthersWait, OwnLocals
<1>5. DeviceAt(t)' /\ ChangeAt(t)'
  BY <1>1, <1>2 DEF Held, DeviceAt, ChangeAt, Mirror, GpuIsOff
<1>6. ForcedAt(t)' /\ RingAt(t)'
  BY <1>1, <1>2, <1>3 DEF Held, ForcedAt, RingAt, Waiting
<1>7. Supplied' /\ OffMeansDrained'
  BY <1>1, <1>2 DEF StateInv, Supplied, OffMeansDrained
<1>8. QED
  BY <1>2, <1>4, <1>5, <1>6, <1>7, HolderStep DEF Held

\* A command goes into the ring.
LEMMA SendPolledStep ==
    ASSUME StateInv, DeviceInv', NEW t \in AllThreads, SendPolled(t) PROVE StateInv'
<1>1. /\ pc[t] \in Sending /\ deferred = <<>> /\ deferred' = <<>>
      /\ kccb' = Append(kccb, Command[pc[t]]) /\ Goto(t, OnSent(pc[t]))
      /\ UNCHANGED <<ePowState, gpuPowered, eCurrentPowerState, bRGXPowered>>
      /\ UNCHANGED <<irq, powSync, op, cur, new>>
  BY DEF SendPolled, WantsSlot, NothingDeferred, devVars, fwVars, locals
<1>2. /\ pc[t] \in {"offSend", "idleSend", "cancelSend", "unitsSend", "apmSend", "clkSend",
                    "kickSend"}
      /\ pc[t] \in Holding /\ Held(t) /\ OwnLocals(t)
      /\ ePowState # "OFF" /\ Mirror /\ RingPlain
  BY <1>1, SenderFindsDeviceOn
<1>3. kccb \in Seq(Commands) /\ Command[pc[t]] \in Commands
  BY <1>1, StateTypes DEF Commands
<1>4. Supplied' /\ OffMeansDrained'
  BY <1>1, <1>2 DEF StateInv, Supplied, OffMeansDrained
<1>5. CASE pc[t] \in {"offSend", "idleSend", "cancelSend", "unitsSend"}
  <2> PICK c \in Commands : c = Command[pc[t]]
    BY <1>3
  <2>1. /\ pc[t] = "offSend"    => c = "POW_OFF_REQ" /\ OnSent(pc[t]) = "offPoll"
        /\ pc[t] = "idleSend"   => c = "POW_FORCED_IDLE_REQ" /\ OnSent(pc[t]) = "idlePoll"
        /\ pc[t] = "cancelSend" => c = "POW_CANCEL_FORCED_IDLE" /\ OnSent(pc[t]) = "cancelPoll"
        /\ pc[t] = "unitsSend"  => c = "POW_NUM_UNITS_CHANGE" /\ OnSent(pc[t]) = "unitsPoll"
    BY DEF Command, OnSent
  <2>2. ~powSync /\ ~powSync' /\ Asked(c)'
    <3>1. ~powSync /\ ~powSync'
      BY <1>1, <1>2, <1>5 DEF Held, RingAt
    <3>2. Asked(c)'
      BY <1>1, <1>2, <1>3, <3>1, RequestAppended
    <3>3. QED
      BY <3>1, <3>2
  <2>3. /\ OthersWait(t) /\ pc'[t] = OnSent(pc[t])
        /\ pc'[t] \in {"offPoll", "idlePoll", "cancelPoll", "unitsPoll"} /\ pc'[t] \in Holding
    BY <1>1, <1>5, <2>1, Moves DEF OthersWait, Holding, Polling
  <2>4. OwnLocals(t)'
    BY <1>1, <1>2, <1>5, <2>1, <2>3 DEF OwnLocals, ErrorPaths, Idling, Changing
  <2>5. DeviceAt(t)' /\ ChangeAt(t)'
    BY <1>1, <1>2, <1>5, <2>1, <2>3
       DEF Held, DeviceAt, ChangeAt, Mirror, InTransition, DeviceIsOn, ForcedIdleAt
  <2>6. ForcedAt(t)'
    BY <1>1, <1>2, <1>5, <2>1, <2>2, <2>3 DEF Held, ForcedAt, MayBeForced, ForcedIdleAt, EmptyRing
  <2>7. RingAt(t)'
    BY <1>1, <1>5, <2>1, <2>2, <2>3 DEF RingAt, Waiting
  <2>8. QED
    BY <1>2, <1>4, <2>3, <2>4, <2>5, <2>6, <2>7, HolderStep DEF Held
<1>6. CASE pc[t] \in {"apmSend", "clkSend", "kickSend"}
  <2>1. /\ Command[pc[t]] \in Plain
        /\ OnSent(pc[t]) = IF pc[t] = "clkSend" THEN "clkCancel" ELSE "unlock"
    BY <1>6 DEF Command, OnSent, Plain
  <2>2. RingPlain' /\ Len(kccb') = Len(kccb) + 1
    BY <1>1, <1>2, <1>3, <2>1, PlainAppended DEF RingPlain
  <2>3. /\ OthersWait(t) /\ pc'[t] = OnSent(pc[t])
        /\ pc'[t] \in {"clkCancel", "unlock"} /\ pc'[t] \in Holding
    BY <1>1, <1>6, <2>1, Moves DEF OthersWait, Holding
  <2>4. OwnLocals(t)'
    BY <1>1, <1>2, <1>6, <2>1, <2>3 DEF OwnLocals, ErrorPaths, Idling, Changing
  <2>5. DeviceAt(t)' /\ ChangeAt(t)'
    BY <1>1, <1>2, <1>6, <2>1, <2>3
       DEF Held, DeviceAt, ChangeAt, Mirror, InTransition, DeviceIsOn, ForcedIdleAt
  <2>6. ForcedAt(t)'
    <3>1. Len(<<>>) = 0
      BY EmptySeq
    <3>2. QED
      BY <1>1, <1>2, <1>6, <2>1, <2>2, <2>3, <3>1
         DEF Held, ForcedAt, MayBeForced, ForcedIdleAt, EmptyRing
  <2>7. RingAt(t)'
    BY <1>1, <2>2, <2>3 DEF RingAt, Waiting
  <2>8. QED
    BY <1>2, <1>4, <2>3, <2>4, <2>5, <2>6, <2>7, HolderStep DEF Held
<1>7. QED
  BY <1>2, <1>5, <1>6

\* A full ring is met only where no forced idle has to be undone: after the
\* firmware's answer there is room for a clock change and its cancellation.
LEMMA SendFullStep ==
    ASSUME Reliable, StateInv, DeviceInv', NEW t \in AllThreads, SendFull(t) PROVE StateInv'
<1>1. /\ pc[t] \in Sending /\ Goto(t, OnFailure(pc[t])) /\ ~HasRoom
      /\ UNCHANGED <<deferred, kccb, ePowState, gpuPowered, eCurrentPowerState, bRGXPowered>>
      /\ UNCHANGED <<irq, powSync, op, cur, new>>
  BY DEF SendFull, WantsSlot, Fail, shared, devVars, ccbVars, fwVars
<1>2. /\ pc[t] \in {"offSend", "idleSend", "cancelSend", "unitsSend", "apmSend", "clkSend",
                    "kickSend"}
      /\ pc[t] \in Holding /\ Held(t) /\ OwnLocals(t)
      /\ ePowState # "OFF" /\ Mirror /\ RingPlain
  BY <1>1, SenderFindsDeviceOn
<1>3. Len(kccb) > 1
  BY <1>1, StateTypes DEF HasRoom, Room, Reliable
<1>4. ePowState # "FORCED_IDLE"
  <2>1. Len(<<>>) = 0
    BY EmptySeq
  <2>2. QED
    BY <1>2, <1>3, <2>1, StateTypes DEF Held, ForcedAt, MayBeForced, ForcedIdleAt, EmptyRing
<1>5. pc[t] \notin ForcedIdleAt
  BY <1>2, <1>4 DEF Held, DeviceAt
<1>6. OthersWait(t) /\ pc'[t] = "unlock" /\ pc'[t] \in Holding
  BY <1>1, <1>2, <1>5, Moves DEF OthersWait, OnFailure, ForcedIdleAt, Holding
<1>7. OwnLocals(t)'
  BY <1>1, <1>6 DEF OwnLocals, ErrorPaths, Idling, Changing
<1>8. DeviceAt(t)' /\ ChangeAt(t)'
  BY <1>1, <1>2, <1>6 DEF DeviceAt, ChangeAt, Mirror, InTransition, DeviceIsOn, ForcedIdleAt
<1>9. ForcedAt(t)' /\ RingAt(t)'
  BY <1>1, <1>2, <1>4, <1>6 DEF ForcedAt, RingAt, RingPlain, Waiting
<1>10. QED
  BY <1>1, <1>2, <1>6, <1>7, <1>8, <1>9, QuietStep DEF Held

\* A kick that is sent or will be deferred.
LEMMA SendOrDeferStep ==
    ASSUME StateInv, DeviceInv', NEW t \in AllThreads, SendOrDefer(t) PROVE StateInv'
<1>1. /\ pc[t] = "kickSend" /\ pc[t] \in Sending
      /\ UNCHANGED <<ePowState, gpuPowered, eCurrentPowerState, bRGXPowered>>
      /\ UNCHANGED <<irq, powSync, op, cur, new>>
  BY SendingLocations DEF SendOrDefer, devVars, fwVars, locals
<1>2. /\ pc[t] \in Holding /\ Held(t) /\ OwnLocals(t)
      /\ ePowState # "OFF" /\ Mirror /\ RingPlain
  BY <1>1, SenderFindsDeviceOn
<1>3. ePowState # "FORCED_IDLE" /\ eCurrentPowerState = "ON"
  BY <1>1, <1>2 DEF Held, DeviceAt, ForcedAt, MayBeForced, ForcedIdleAt, DeviceIsOn
<1>4. /\ Flushed.ring \in Seq(Commands)
      /\ \A i \in 1..Len(Flushed.ring) : Flushed.ring[i] \in Plain
  BY <1>2, StateTypes, FlushedPlain, FlushedType
<1>5. RingPlain'
  <2>1. CASE kccb' = Append(Flushed.ring, "KICK")
    <3>1. "KICK" \in Commands /\ "KICK" \in Plain
      BY KickIsCommand DEF Plain
    <3>2. QED
      BY <1>4, <2>1, <3>1, PlainAppended
  <2>2. CASE kccb' = Flushed.ring
    BY <1>4, <2>2 DEF RingPlain
  <2>3. QED
    BY <2>1, <2>2 DEF SendOrDefer
<1>6. PICK l \in {"unlock", "kickDefer"} : Goto(t, l)
  BY DEF SendOrDefer
<1>7. OthersWait(t) /\ pc'[t] = l /\ pc'[t] \in Holding
  BY <1>1, <1>6, Moves DEF OthersWait, Holding
<1>8. OwnLocals(t)'
  BY <1>1, <1>7 DEF OwnLocals, ErrorPaths, Idling, Changing
<1>9. DeviceAt(t)' /\ ChangeAt(t)'
  BY <1>1, <1>2, <1>3, <1>7 DEF DeviceAt, ChangeAt, Mirror, InTransition, DeviceIsOn, ForcedIdleAt
<1>10. ForcedAt(t)' /\ RingAt(t)'
  BY <1>1, <1>3, <1>5, <1>7 DEF ForcedAt, RingAt, Waiting
<1>11. Supplied' /\ OffMeansDrained'
  BY <1>1, <1>2 DEF StateInv, Supplied, OffMeansDrained
<1>12. QED
  BY <1>2, <1>7, <1>8, <1>9, <1>10, <1>11, HolderStep DEF Held

\* A kick is deferred for a firmware that runs.
LEMMA DeferKickStep ==
    ASSUME StateInv, DeviceInv', NEW t \in AllThreads, DeferKick(t) PROVE StateInv'
<1>1. /\ pc[t] = "kickDefer" /\ pc[t] \in Holding /\ Goto(t, "unlock")
      /\ UNCHANGED <<kccb, ePowState, gpuPowered, eCurrentPowerState, bRGXPowered>>
      /\ UNCHANGED <<irq, powSync, op, cur, new>>
  BY DEF DeferKick, devVars, fwVars, locals, Holding
<1>2. Held(t) /\ OwnLocals(t)
  BY <1>1 DEF StateInv
<1>3. Mirror /\ RingPlain /\ ePowState # "OFF" /\ ePowState # "FORCED_IDLE"
  BY <1>1, <1>2 DEF Held, DeviceAt, ForcedAt, RingAt, InTransition, Waiting, DeviceIsOn,
        MayBeForced, ForcedIdleAt
<1>4. OthersWait(t) /\ pc'[t] = "unlock" /\ pc'[t] \in Holding
  BY <1>1, Moves DEF OthersWait, Holding
<1>5. OwnLocals(t)'
  BY <1>1, <1>4 DEF OwnLocals, ErrorPaths, Idling, Changing
<1>6. DeviceAt(t)' /\ ChangeAt(t)'
  BY <1>1, <1>3, <1>4 DEF DeviceAt, ChangeAt, Mirror, InTransition, DeviceIsOn, ForcedIdleAt
<1>7. ForcedAt(t)' /\ RingAt(t)'
  BY <1>1, <1>3, <1>4 DEF ForcedAt, RingAt, RingPlain, Waiting
<1>8. Supplied' /\ OffMeansDrained'
  BY <1>1, <1>3 DEF StateInv, Supplied, OffMeansDrained
<1>9. QED
  BY <1>1, <1>4, <1>5, <1>6, <1>7, <1>8, HolderStep DEF Held

\* The MISR may flush for a firmware that is off: then nothing was deferred.
LEMMA FlushBodyStep ==
    ASSUME StateInv, DeviceInv', NEW t \in AllThreads, FlushBody(t) PROVE StateInv'
<1>1. /\ pc[t] = "locked" /\ pc[t] \in Holding /\ Goto(t, "unlock")
      /\ kccb' = Flushed.ring /\ deferred' = Flushed.list
      /\ UNCHANGED <<ePowState, gpuPowered, eCurrentPowerState, bRGXPowered>>
      /\ UNCHANGED <<irq, powSync, op, cur, new>>
  BY DEF FlushBody, devVars, fwVars, locals, Holding
<1>2. Held(t) /\ OwnLocals(t)
  BY <1>1 DEF StateInv
<1>3. Mirror /\ RingPlain /\ ePowState # "FORCED_IDLE"
  BY <1>1, <1>2 DEF Held, DeviceAt, ForcedAt, RingAt, InTransition, Waiting, MayBeForced, ForcedIdleAt
<1>4. /\ \A i \in 1..Len(Flushed.ring) : Flushed.ring[i] \in Plain
      /\ deferred = <<>> => Flushed.ring = kccb /\ Flushed.list = <<>>
  BY <1>3, StateTypes, FlushedPlain
<1>5. OthersWait(t) /\ pc'[t] = "unlock" /\ pc'[t] \in Holding
  BY <1>1, Moves DEF OthersWait, Holding
<1>6. OwnLocals(t)'
  BY <1>1, <1>5 DEF OwnLocals, ErrorPaths, Idling, Changing
<1>7. DeviceAt(t)' /\ ChangeAt(t)'
  BY <1>1, <1>3, <1>5 DEF DeviceAt, ChangeAt, Mirror, InTransition, DeviceIsOn, ForcedIdleAt
<1>8. RingPlain'
  BY <1>1, <1>4 DEF RingPlain
<1>9. ForcedAt(t)' /\ RingAt(t)'
  BY <1>1, <1>3, <1>5, <1>8 DEF ForcedAt, RingAt, Waiting
<1>10. Supplied' /\ OffMeansDrained'
  BY <1>1, <1>4 DEF StateInv, Supplied, OffMeansDrained
<1>11. QED
  BY <1>1, <1>5, <1>6, <1>7, <1>9, <1>10, HolderStep DEF Held

-----------------------------------------------------------------------------
(* The inductive invariant, and what follows from it.                      *)

\* Initially the lock is free and the device in its default state.
LEMMA StateInit == Init => StateInv
<1> SUFFICES ASSUME Init PROVE StateInv
  OBVIOUS
<1>1. DeviceInv
  BY DeviceInit
<1>2. \A t \in AllThreads : pc[t] = "idle" /\ pc[t] \notin Holding
  BY HoldingIsExclusive DEF Init, NotHolding
<1>3. \A t \in AllThreads : OwnLocals(t)
  BY <1>2 DEF OwnLocals, ErrorPaths, Idling, Changing
<1>4. Supplied /\ OffMeansDrained
  BY DevicePowerAssumption DEF Init, Supplied, OffMeansDrained
<1>5. Free
  <2>1. Mirror /\ ePowState # "FORCED_IDLE"
    BY DevicePowerAssumption DEF Init, Mirror
  <2>2. RingPlain
    BY EmptySeq DEF Init, RingPlain
  <2>3. QED
    BY <2>1, <2>2 DEF Free
<1>6. QED
  BY <1>1, <1>2, <1>3, <1>4, <1>5 DEF StateInv

\* Stuttering.
LEMMA NobodySteps == ASSUME StateInv, DeviceInv', UNCHANGED vars PROVE StateInv'
<1> USE DEF vars, shared, lockVars, devVars, ccbVars, fwVars, locals
<1>1. Supplied' /\ OffMeansDrained'
  BY DEF StateInv, Supplied, OffMeansDrained
<1>2. Free => Free'
  BY DEF Free, Mirror, RingPlain
<1>3. ASSUME NEW t \in AllThreads, Held(t) PROVE Held(t)'
  <2>1. DeviceAt(t)' /\ ChangeAt(t)'
    BY <1>3 DEF Held, DeviceAt, ChangeAt, Mirror, GpuIsOff
  <2>2. ForcedAt(t)' /\ RingAt(t)'
    BY <1>3 DEF Held, ForcedAt, RingAt, RingPlain, Asked
  <2>3. QED
    BY <2>1, <2>2 DEF Held
<1>4. QED
  BY <1>1, <1>2, <1>3, HardwareStep

\* Every step preserves the invariant.
LEMMA StateStep ==
    ASSUME Reliable, StateInv, [Next]_vars
    PROVE  StateInv'
<1>1. DeviceInv'
  BY DeviceStep DEF Reliable, StateInv
<1>2. CASE UNCHANGED vars
  BY <1>1, <1>2, NobodySteps
<1>3. CASE Lisr
  BY <1>1, <1>3, LisrStep
<1>4. CASE MisrStep
  BY <1>1, <1>4, MisrStartStep, MisrCheckIdleStep DEF MisrStep
<1>5. CASE Firmware
  BY <1>1, <1>5, FwExecuteStep, FwGoesIdleStep DEF Firmware
<1>6. ASSUME NEW t \in AllThreads, Enter(t) \/ LockStep(t) PROVE StateInv'
  BY <1>1, <1>6, EnterStep, PowerLockStep, ReacquireStep DEF LockStep
<1>7. ASSUME NEW t \in AllThreads, OtherStep(t) PROVE StateInv'
  BY <1>1, <1>7, PowerTryLockStep, GiveUpStep, ExitStep, BodyStep, FlushBodyStep, FlushOneStep,
     SendPolledStep, SendFullStep, SendOrDeferStep, DeferKickStep, NoErrorPath,
     ForcedIdleRequestStep, ForcedIdleAnsweredStep, SetDevicePowerStateStep, DevicePrePowerStep,
     PowerOffAnsweredStep, SystemPrePowerStep, SystemPostPowerStep, DoStartStep,
     DevicePostPowerStep, PostClockSpeedChangeStep, DustCountChangeStep, IdleCancelStep,
     CancelAnsweredStep
     DEF OtherStep
<1>8. QED
  BY <1>2, <1>3, <1>4, <1>5, <1>6, <1>7 DEF Next

\* The inductive invariant holds in every reachable state.
THEOREM StateInvariant ==
    ASSUME Reliable PROVE Spec => []StateInv
<1>1. StateInv /\ [Next]_vars => StateInv'
  BY StateStep
<1>2. QED
  BY StateInit, <1>1, PTL DEF Spec

\* A running firmware is supplied, and whenever the power lock is free firmware,
\* interrupt gate and supply are in the state the driver has recorded
\* (power.c:693).
THEOREM DriverKnowsDevice ==
    ASSUME Reliable PROVE Spec => []DriverMatchesDevice
<1>1. StateInv => DriverMatchesDevice
  BY DEF StateInv, Supplied, Free, Mirror, DriverMatchesDevice
<1>2. QED
  BY StateInvariant, <1>1, PTL

\* The firmware is powered off only when all it was given, also what was
\* deferred, has been executed: active power management loses no kick
\* (rgxpower.c:1410).
THEOREM NoKickIsLost ==
    ASSUME Reliable PROVE Spec => []OffMeansDrained
<1>1. StateInv => OffMeansDrained
  BY DEF StateInv
<1>2. QED
  BY StateInvariant, <1>1, PTL

\* No operation lets go of the power lock with the firmware forced idle.
THEOREM ForcedIdleEnds ==
    ASSUME Reliable PROVE Spec => []ForcedIdleUnderLock
<1>1. StateInv => ForcedIdleUnderLock
  BY DEF StateInv, Free, ForcedIdleUnderLock
<1>2. QED
  BY StateInvariant, <1>1, PTL

\* The clock changes only while the firmware is forced idle or off, also when
\* the power lock was dropped and taken again before (power.c:1142).
THEOREM ClockChangesOnIdleGpu ==
    ASSUME Reliable PROVE Spec => []ClockChangedWhileIdle
<1>1. StateInv => ClockChangedWhileIdle
  BY DEF StateInv, Held, DeviceAt, Holding, ClockChangedWhileIdle
<1>2. QED
  BY StateInvariant, <1>1, PTL

\* No interrupt is pending at a GPU whose interrupts the LISR ignores.
THEOREM NoInterruptIsLost ==
    ASSUME Reliable PROVE Spec => []NoInterruptLeftBehind
<1>1. StateInv => NoInterruptLeftBehind
  BY DEF StateInv, Free, Mirror, NoInterruptLeftBehind
<1>2. QED
  BY StateInvariant, <1>1, PTL

\* Only these steps add to the kernel CCB.
LEMMA AddsToRing ==
    ASSUME StateInv, Next, Len(kccb') > Len(kccb)
    PROVE  \E t \in AllThreads : FlushBody(t) \/ FlushOne(t) \/ SendPolled(t) \/ SendOrDefer(t)
<1>0. Len(kccb) \in Nat /\ kccb' # kccb
  BY StateTypes
<1> USE DEF shared, ccbVars
<1>1. ~Lisr /\ ~MisrStep
  BY <1>0 DEF Lisr, MisrStep, MisrStart, MisrCheckIdle
<1>2. ~Firmware
  <2>1. ASSUME FwExecute PROVE FALSE
    <3>1. kccb \in Seq(Commands) /\ kccb # <<>> /\ kccb' = Tail(kccb)
      BY <2>1, StateTypes DEF FwExecute
    <3>2. Len(kccb') = Len(kccb) - 1
      BY <3>1, HeadTailProperties
    <3>3. QED
      BY <1>0, <3>2
  <2>2. ~FwGoesIdle
    BY <1>0 DEF FwGoesIdle
  <2>3. QED
    BY <2>1, <2>2 DEF Firmware
<1>3. \A t \in AllThreads : ~Enter(t) /\ ~LockStep(t)
  BY <1>0 DEF Enter, LockStep, PowerLock, Reacquire
<1>4. PICK t \in AllThreads : OtherStep(t)
  BY <1>1, <1>2, <1>3 DEF Next
<1>5. ~PowerTryLock(t) /\ ~PowerUnlock(t) /\ ~Exit(t) /\ ~Body(t) /\ ~SendFull(t)
  BY <1>0 DEF PowerTryLock, PowerUnlock, Exit, Body, SendFull
<1>6. ~DeferKick(t) /\ ~PollTimedOut(t) /\ ~ForcedIdleRequest(t) /\ ~ForcedIdleAnswered(t) /\ ~IdleDenied(t)
  BY <1>0 DEF DeferKick, PollTimedOut, ForcedIdleRequest, ForcedIdleAnswered, IdleDenied
<1>7. ~SetDevicePowerState(t) /\ ~DevicePrePower(t) /\ ~PowerOffAnswered(t) /\ ~SystemPrePower(t)
  BY <1>0 DEF SetDevicePowerState, DevicePrePower, PowerOffAnswered, SystemPrePower
<1>8. ~RestorePowerState(t) /\ ~RestoreAnswered(t) /\ ~SystemPostPower(t) /\ ~DoStart(t) /\ ~StartFailed(t)
  BY <1>0 DEF RestorePowerState, RestoreAnswered, SystemPostPower, DoStart, StartFailed
<1>9. ~DevicePostPower(t) /\ ~DeviceRestored(t) /\ ~PostClockSpeedChange(t) /\ ~DustCountChange(t)
  BY <1>0 DEF DevicePostPower, DeviceRestored, PostClockSpeedChange, DustCountChange
<1>10. ~IdleCancel(t) /\ ~CancelAnswered(t)
  BY <1>0 DEF IdleCancel, CancelAnswered
<1>11. QED
  BY <1>4, <1>5, <1>6, <1>7, <1>8, <1>9, <1>10 DEF OtherStep

\* A command is only ever put in the kernel CCB for a firmware that runs and is
\* supplied, by a thread that holds the power lock, also when it is one that was
\* deferred (rgxfwutils.c:3891).
THEOREM CommandsReachLiveFirmware ==
    ASSUME Reliable PROVE Spec => CommandReachesLiveFirmware
<1>1. ASSUME StateInv, [Next]_vars, Len(kccb') > Len(kccb)
      PROVE  ePowState # "OFF" /\ gpuPowered /\ hPowerLock # NoThread
  <2>1. Next
    <3>1. kccb' # kccb
      BY <1>1, StateTypes
    <3>2. QED
      BY <1>1, <3>1 DEF vars, shared, ccbVars
  <2>2. PICK t \in AllThreads : FlushBody(t) \/ FlushOne(t) \/ SendPolled(t) \/ SendOrDefer(t)
    BY <1>1, <2>1, AddsToRing
  <2>3. pc[t] \in Holding
    BY <2>2, SendingLocations DEF FlushBody, FlushOne, SendPolled, SendOrDefer, WantsSlot, Holding
  <2>4. hPowerLock # NoThread
    BY <1>1, <2>3, OnlyHolder DEF StateInv
  <2>5. ePowState # "OFF"
    <3>1. CASE FlushBody(t)
      <4>1. deferred # <<>>
        <5>1. ASSUME deferred = <<>> PROVE FALSE
          <6>1. RingPlain
            BY <1>1, <2>3, <3>1 DEF FlushBody, StateInv, Held, RingAt, Waiting
          <6>2. kccb' = kccb
            BY <1>1, <3>1, <5>1, <6>1, FlushedPlain, StateTypes DEF FlushBody
          <6>3. QED
            BY <1>1, <6>2, StateTypes
        <5>2. QED
          BY <5>1
      <4>2. QED
        BY <1>1, <4>1 DEF StateInv, OffMeansDrained
    <3>2. CASE FlushOne(t) \/ SendPolled(t) \/ SendOrDefer(t)
      <4>1. pc[t] \in Sending
        BY <3>2, SendingLocations DEF FlushOne, SendPolled, SendOrDefer, WantsSlot
      <4>2. QED
        BY <1>1, <4>1, SenderFindsDeviceOn
    <3>3. QED
      BY <2>2, <3>1, <3>2
  <2>6. QED
    BY <1>1, <2>4, <2>5 DEF StateInv, Supplied
<1>2. StateInv /\ [Next]_vars =>
        [Len(kccb') > Len(kccb) => ePowState # "OFF" /\ gpuPowered /\ hPowerLock # NoThread]_vars
  BY <1>1
<1>3. QED
  BY StateInvariant, <1>2, PTL DEF Spec, CommandReachesLiveFirmware

=============================================================================
