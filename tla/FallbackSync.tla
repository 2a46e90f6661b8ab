---------------------------- MODULE FallbackSync ----------------------------
(***************************************************************************)
(* Fences, sync points and timelines of the fallback implementation        *)
(* (common/sync_fallback_server.c): fences of GPU work and of software     *)
(* timelines, merging, resolving for another device, waiting, the callback *)
(* of the MISR that notices what the GPU has signalled, and the cleanup    *)
(* thread that forces the software points of a dead process.               *)
(***************************************************************************)
EXTENDS Naturals, Sequences, FiniteSets, SequencesExt

CONSTANTS
    Clients, Cleaner,   \* threads in bridge calls and the cleanup thread
    Processes, Proc,    \* Proc[t]: the process that thread t belongs to
    Mortal,             \* the processes that may die
    Timelines,          \* numbers: the order of their iUID
    SWTimelines,        \* those created by SyncFbTimelineCreateSW
    Owner,              \* Owner[tl]: the process that creates timeline tl
    Contexts,           \* sync checkpoint contexts (devices)
    Native,             \* the one in which fences of GPU work are created
    ContextOf,          \* ContextOf[t]: the one thread t resolves fences for
    CallsOf,            \* bound: CallsOf[t], the calls that thread t makes
    MaxPoints, MaxFences,
    MaxAttached         \* bounds the foreign checkpoints of a point

Threads == Clients \cup {Cleaner}
Points  == 1..MaxPoints
Fences  == 1..MaxFences
NoLock  == "free"
Misr    == "misr"
Calls   == {"create", "destroy", "advance", "resolve", "merge", "wait", "import"}
SW      == "sw"         \* hPrivData of a software sync

ASSUME FallbackAssumption ==
    /\ Cleaner \notin Clients /\ Misr \notin Threads /\ NoLock \notin Threads
    /\ IsFiniteSet(Clients) /\ IsFiniteSet(Processes) /\ IsFiniteSet(Timelines)
    /\ Proc \in [Clients -> Processes] /\ Mortal \subseteq Processes
    /\ Timelines \subseteq Nat /\ SWTimelines \subseteq Timelines
    /\ Owner \in [Timelines -> Processes]
    /\ Native \in Contexts /\ SW \notin Contexts /\ ContextOf \in [Clients -> Contexts]
    /\ CallsOf \in [Clients -> SUBSET Calls]
    /\ MaxPoints \in Nat /\ MaxFences \in Nat /\ MaxAttached \in Nat \ {0}

VARIABLES
    timeline,   \* PVRSRV_TIMELINE_SERVER, and whether its handle exists
    point,      \* PVRSRV_SYNC_PT with its list of attached syncs
    fence,      \* PVRSRV_FENCE_SERVER, and the processes with a handle of it
    points,     \* points allocated so far
    fences,     \* fences allocated so far
    table,      \* the points in sCheckpointHashTable
    fbLock,     \* hFbContextLock
    th,         \* what each thread is doing
    misr,       \* the callback of the MISR
    woken,      \* open event objects with an event to read
    alive       \* processes that have not died

vars == <<timeline, point, fence, points, fences, table, fbLock, th, misr, woken, alive>>

States   == {"unsignalled", "signalled", "errored"}
Lives    == {"none", "live", "freed"}
Attached == [ctx : Contexts \cup {SW}, state : States]
NoPoint  == [tl |-> 0, seq |-> 0, ref |-> 0, status |-> "unsignalled",
             life |-> "none", attached |-> <<>>]
NoFence  == [pts |-> <<>>, ref |-> 0, handles |-> {}, life |-> "none", src |-> {}]
Idle     == [pc |-> "idle", op |-> "none", f |-> 0, new |-> 0, looked |-> {},
             todo |-> <<>>, got |-> <<>>, err |-> FALSE, tl |-> 0]

PCs == {"idle", "create", "insert", "check", "mark", "walk", "attach", "recheck",
        "checkWait", "sleep", "relPt", "unlist", "freeTl", "force"}

TypeOK ==
    /\ timeline \in [Timelines ->
          [life : Lives, ref : 0..MaxPoints + 1, seq : 0..MaxPoints,
           last : 0..MaxPoints, handle : BOOLEAN, active : Seq(Points),
           lock : Threads \cup {NoLock}]]
    /\ point \in [Points ->
          [tl : Timelines \cup {0}, seq : 0..MaxPoints,
           ref : 0..MaxFences + Cardinality(Threads),
           status : States, life : Lives, attached : Seq(Attached)]]
    /\ fence \in [Fences ->
          [pts : Seq(Points), ref : 0..Cardinality(Processes) + Cardinality(Threads),
           handles : SUBSET Processes, life : Lives, src : SUBSET Points]]
    /\ points \in 0..MaxPoints /\ fences \in 0..MaxFences
    /\ table \subseteq Points
    /\ fbLock \in {NoLock, Misr} \cup Threads
    /\ th \in [Threads ->
          [pc : PCs, op : {"none", "merge", "resolve"}, f : 0..MaxFences,
           new : 0..MaxFences, looked : SUBSET Fences,
           todo : Seq(Points), got : Seq(Points), err : BOOLEAN,
           tl : Timelines \cup {0}]]
    /\ misr \in [interrupt : BOOLEAN, todo : Seq(Timelines), signal : BOOLEAN]
    /\ woken \subseteq Threads /\ alive \subseteq Processes

\* SyncFbTimelineCreate, and the handle that holds its reference.
NewTimeline == [life |-> "live", ref |-> 1, seq |-> 0, last |-> 0, handle |-> TRUE,
                active |-> <<>>, lock |-> NoLock]

Init ==
    /\ timeline = [tl \in Timelines |-> NewTimeline]
    /\ point = [p \in Points |-> NoPoint]
    /\ fence = [f \in Fences |-> NoFence]
    /\ points = 0 /\ fences = 0 /\ table = {}
    /\ fbLock = NoLock
    /\ th = [t \in Threads |-> Idle]
    /\ misr = [interrupt |-> FALSE, todo |-> <<>>, signal |-> FALSE]
    /\ woken = {} /\ alive = Processes

-----------------------------------------------------------------------------
(* Syncs, points and fences *)

Tl(p)      == point[p].tl
IsSW(p)    == Tl(p) \in SWTimelines
Free(tl)   == timeline[tl].lock = NoLock
HasSync(p) == point[p].attached # <<>>

\* The first attached sync defines the point: checkpoint or software sync.
NativeState(p)    == point[p].attached[1].state
NativeSignalled(p) == HasSync(p) /\ NativeState(p) # "unsignalled"

\* SignalPVR, SignalSW: a sync that has been signalled is left as it is.
SignalSync(sync, state) ==
    IF sync.state = "unsignalled" THEN [sync EXCEPT !.state = state] ELSE sync
Signalled(syncs, state) == [i \in DOMAIN syncs |-> SignalSync(syncs[i], state)]
\* SyncPtSignalAttached
SignalAttached(pt, state) == [pt EXCEPT !.attached = Signalled(@, state)]

Larger(a, b) == IF a > b THEN a ELSE b

\* The elements of a sequence that are in a set, in their order, and those
\* that are not.
Among(s, set) ==
    LET upTo[i \in 0..Len(s)] ==
            IF i = 0 THEN <<>>
            ELSE IF s[i] \in set THEN Append(upTo[i - 1], s[i])
            ELSE upTo[i - 1]
    IN upTo[Len(s)]
Without(s, set) == Among(s, ToSet(s) \ set)

\* A set as a sequence, in the order of a key that tells its elements apart.
Sorted(set, key) ==
    CHOOSE s \in [1..Cardinality(set) -> set] :
        /\ ToSet(s) = set
        /\ \A i, j \in 1..Cardinality(set) : i < j => key[s[i]] < key[s[j]]

\* HasSignalled finds a point signalled: its state, then its attached syncs.
Noticed(pt) == SignalAttached([pt EXCEPT !.status = "signalled"], "signalled")

\* FenceSyncsHaveSignalled
AllSignalled(f) ==
    \A i \in DOMAIN fence[f].pts : point[fence[f].pts[i]].status # "unsignalled"

\* One point for each timeline of the two fences, the later one, in the order
\* of the timelines.
MergedPoints_mutant(f, g) ==
    LET all  == ToSet(fence[f].pts \o fence[g].pts)
        last == {p \in all : \A q \in all : Tl(q) = Tl(p) => point[p].seq <= point[q].seq}
    IN  Sorted(last, [p \in last |-> Tl(p)])
MergedPoints(f, g) ==
    LET all  == ToSet(fence[f].pts \o fence[g].pts)
        last == {p \in all : \A q \in all : Tl(q) = Tl(p) => point[q].seq <= point[p].seq}
    IN  Sorted(last, [p \in last |-> Tl(p)])

\* The event objects open now have an event to read.
SignalEO == woken \cup {t \in Threads : th[t].pc \in {"checkWait", "sleep"}}

Step(t, pc) == th' = [th EXCEPT ![t].pc = pc]
Finish(t)   == th' = [th EXCEPT ![t] = Idle]

Releasing(t, pts) ==
    th' = [th EXCEPT ![t] = IF pts = <<>> THEN Idle ELSE [Idle EXCEPT !.pc = "relPt", !.todo = pts]]
\* The next point of a fence being released, or the end of the call.
NextPoint(t, err) ==
    LET rest == Tail(th[t].todo) IN
    th' = [th EXCEPT ![t] = IF rest = <<>> THEN Idle
                            ELSE [Idle EXCEPT !.pc = "relPt", !.todo = rest, !.err = err]]

\* The next point of a fence being merged or resolved.
NextCheck(t) ==
    LET rest == Tail(th[t].todo) IN
    th' = [th EXCEPT ![t] = IF rest = <<>> /\ th[t].op = "resolve" THEN Idle
                            ELSE [@ EXCEPT !.pc = "check", !.todo = rest]]

Ready(t)     == t \in Clients /\ th[t].pc = "idle" /\ Proc[t] \in alive
Holds(t, f)  == Proc[t] \in fence[f].handles
\* A handle is not destroyed while a call of its process has it looked up.
LookedUp(f, pr) == \E t \in Clients : Proc[t] = pr /\ f \in th[t].looked
InUse(tl)       == \E t \in Clients : th[t].pc \in {"create", "insert"} /\ th[t].tl = tl

-----------------------------------------------------------------------------
(* New points *)

\* SyncPtCreate: listed and holding its timeline, with no sync attached yet.
NewPoint(tl) ==
    [NoPoint EXCEPT !.tl = tl, !.seq = timeline[tl].seq + 1, !.ref = 1, !.life = "live"]
AddPoint(tl, p, lock) ==
    timeline' = [timeline EXCEPT ![tl].ref = @ + 1, ![tl].seq = @ + 1,
                                 ![tl].active = Append(@, p), ![tl].lock = lock]
MayCreate(t, tl) ==
    /\ Ready(t) /\ Proc[t] = Owner[tl]
    /\ timeline[tl].handle /\ Free(tl)
    /\ points < MaxPoints /\ fences < MaxFences
NewFence(t, p) ==
    [NoFence EXCEPT !.pts = <<p>>, !.ref = 1, !.handles = {Proc[t]}, !.life = "live"]

FenceCreatePVR(t, tl) ==
    LET p == points + 1 IN
    /\ MayCreate(t, tl) /\ tl \notin SWTimelines
    /\ AddPoint(tl, p, t)
    /\ point' = [point EXCEPT ![p] = NewPoint(tl)]
    /\ points' = p /\ fences' = fences + 1
    /\ th' = [th EXCEPT ![t].pc = "create", ![t].new = fences + 1,
                        ![t].todo = <<p>>, ![t].tl = tl]
    /\ UNCHANGED <<fence, table, fbLock, misr, woken, alive>>

\* The sync checkpoint could be allocated: it is attached, under the lock.
CheckpointAttached(t) ==
    LET p == Head(th[t].todo) IN
    /\ th[t].pc = "create"
    /\ point' = [point EXCEPT ![p].attached = <<[ctx |-> Native, state |-> "unsignalled"]>>]
    /\ timeline' = [timeline EXCEPT ![Tl(p)].lock = NoLock]
    /\ Step(t, "insert")
    /\ UNCHANGED <<fence, points, fences, table, fbLock, misr, woken, alive>>

\* The point is entered in the table, and the fence gets its handle.
FenceCreated(t) ==
    LET p == Head(th[t].todo) IN
    /\ th[t].pc = "insert" /\ fbLock = NoLock
    /\ table' = table \cup {p}
    /\ fence' = [fence EXCEPT ![th[t].new] = NewFence(t, p)]
    /\ Finish(t)
    /\ UNCHANGED <<timeline, point, points, fences, fbLock, misr, woken, alive>>

\* SyncCheckpointAlloc failed: the timeline is unlocked before the point goes.
FenceCreateFails(t) ==
    /\ th[t].pc = "create"
    /\ timeline' = [timeline EXCEPT ![th[t].tl].lock = NoLock]
    /\ Step(t, "relPt")
    /\ UNCHANGED <<point, fence, points, fences, table, fbLock, misr, woken, alive>>

SWTimelineFenceCreate(t, tl) ==
    LET p    == points + 1
        done == timeline[tl].last >= timeline[tl].seq + 1
        sync == [ctx |-> SW, state |-> IF done THEN "signalled" ELSE "unsignalled"]
    IN
    /\ MayCreate(t, tl) /\ tl \in SWTimelines
    /\ AddPoint(tl, p, NoLock)
    /\ point' = [point EXCEPT ![p] =
          [NewPoint(tl) EXCEPT !.attached = <<sync>>, !.status = sync.state]]
    /\ fence' = [fence EXCEPT ![fences + 1] = NewFence(t, p)]
    /\ points' = p /\ fences' = fences + 1
    /\ UNCHANGED <<table, fbLock, th, misr, woken, alive>>

-----------------------------------------------------------------------------
(* Merging and resolving: HasSignalled is called without the timeline lock *)

FenceMerge(t, f, g) ==
    /\ Ready(t) /\ Holds(t, f) /\ Holds(t, g) /\ f # g
    /\ fences < MaxFences
    /\ fences' = fences + 1
    /\ fence' = [fence EXCEPT ![fences + 1].src = ToSet(fence[f].pts \o fence[g].pts)]
    /\ th' = [th EXCEPT ![t] = [Idle EXCEPT !.pc = "check", !.op = "merge",
                !.new = fences + 1, !.looked = {f, g}, !.todo = MergedPoints(f, g)]]
    /\ UNCHANGED <<timeline, point, points, table, fbLock, misr, woken, alive>>

FenceResolvePVR(t, f) ==
    /\ Ready(t) /\ Holds(t, f) /\ fence[f].pts # <<>>
    /\ th' = [th EXCEPT ![t] = [Idle EXCEPT !.pc = "check", !.op = "resolve",
                !.looked = {f}, !.todo = fence[f].pts]]
    /\ UNCHANGED <<timeline, point, fence, points, fences, table, fbLock, misr, woken, alive>>

\* A signalled point is left out; one that is not is acquired for the new
\* fence (FenceAddPt) or needs a checkpoint that the caller can read.
CheckPoint(t) ==
    LET p == Head(th[t].todo) IN
    /\ th[t].pc = "check" /\ th[t].todo # <<>>
    /\ \/ /\ point[p].status # "unsignalled"
          /\ NextCheck(t) /\ UNCHANGED point
       \/ /\ point[p].status = "unsignalled" /\ NativeSignalled(p)
          /\ Step(t, "mark") /\ UNCHANGED point
       \/ /\ point[p].status = "unsignalled" /\ ~NativeSignalled(p)
          /\ th[t].op = "merge"
          /\ point' = [point EXCEPT ![p].ref = @ + 1]
          /\ th' = [th EXCEPT ![t].todo = Tail(@), ![t].got = Append(@, p)]
       \/ /\ point[p].status = "unsignalled" /\ ~NativeSignalled(p)
          /\ th[t].op = "resolve"
          /\ Step(t, "attach") /\ UNCHANGED point
    /\ UNCHANGED <<timeline, fence, points, fences, table, fbLock, misr, woken, alive>>

\* SyncPtSignal: the state of the point, then the last signalled number.
SignalPoint(p) ==
    timeline' = [timeline EXCEPT ![Tl(p)].last = Larger(@, point[p].seq)]
MarkPoint(t) ==
    LET p == Head(th[t].todo) IN
    /\ th[t].pc = "mark"
    /\ point' = [point EXCEPT ![p].status = "signalled"]
    /\ SignalPoint(p)
    /\ Step(t, "walk")
    /\ UNCHANGED <<fence, points, fences, table, fbLock, misr, woken, alive>>

WalkAttached(t) ==
    LET p == Head(th[t].todo) IN
    /\ th[t].pc = "walk"
    /\ point' = [point EXCEPT ![p] = SignalAttached(@, "signalled")]
    /\ NextCheck(t)
    /\ UNCHANGED <<timeline, fence, points, fences, table, fbLock, misr, woken, alive>>

\* Under both locks: the native checkpoint if the caller can read it, a new
\* foreign one attached to the point if not.
AttachForeign(t) ==
    LET p == Head(th[t].todo) IN
    /\ th[t].pc = "attach" /\ fbLock = NoLock /\ Free(Tl(p))
    /\ \/ /\ point[p].attached[1].ctx = ContextOf[t]
          /\ NextCheck(t)
          /\ UNCHANGED <<timeline, point, table, fbLock>>
       \/ /\ point[p].attached[1].ctx # ContextOf[t]
          /\ Len(point[p].attached) < MaxAttached
          /\ point' = [point EXCEPT ![p].attached =
                Append(@, [ctx |-> ContextOf[t], state |-> "unsignalled"])]
          /\ table' = table \cup {p}
          /\ fbLock' = t /\ timeline' = [timeline EXCEPT ![Tl(p)].lock = t]
          /\ Step(t, "recheck")
    /\ UNCHANGED <<fence, points, fences, misr, woken, alive>>

\* A point that has been signalled meanwhile signals the new checkpoint too.
Rechecked_mutant(pt, native) ==
    IF pt.status = "unsignalled" /\ native # "unsignalled"
    THEN SignalAttached([pt EXCEPT !.status = "signalled"], "signalled")
    ELSE pt
Rechecked(pt, native) ==
    CASE pt.status # "unsignalled" ->
            [pt EXCEPT !.attached[Len(pt.attached)].state = "signalled"]
      [] pt.status = "unsignalled" /\ native # "unsignalled" ->
            SignalAttached([pt EXCEPT !.status = "signalled"], "signalled")
      [] OTHER -> pt
RecheckForeign(t) ==
    LET p == Head(th[t].todo)
        marks == point[p].status = "unsignalled" /\ NativeSignalled(p)
    IN
    /\ th[t].pc = "recheck"
    /\ point' = [point EXCEPT ![p] = Rechecked(@, NativeState(p))]
    /\ timeline' = [timeline EXCEPT ![Tl(p)].lock = NoLock,
          ![Tl(p)].last = IF marks THEN Larger(@, point[p].seq) ELSE @]
    /\ fbLock' = NoLock
    /\ NextCheck(t)
    /\ UNCHANGED <<fence, points, fences, table, misr, woken, alive>>

Merged(t) ==
    /\ th[t].pc = "check" /\ th[t].todo = <<>> /\ th[t].op = "merge"
    /\ fence' = [fence EXCEPT ![th[t].new].pts = th[t].got, ![th[t].new].ref = 1,
                   ![th[t].new].handles = {Proc[t]}, ![th[t].new].life = "live"]
    /\ Finish(t)
    /\ UNCHANGED <<timeline, point, points, fences, table, fbLock, misr, woken, alive>>

-----------------------------------------------------------------------------
(* References and release *)

\* FenceDup, and export with import: another process gets a handle.
FenceImport(t, f) ==
    /\ Ready(t) /\ ~Holds(t, f)
    /\ fence[f].handles \cap alive # {}
    /\ fence' = [fence EXCEPT ![f].ref = @ + 1, ![f].handles = @ \cup {Proc[t]}]
    /\ UNCHANGED <<timeline, point, points, fences, table, fbLock, th, misr, woken, alive>>

\* SyncFbFenceRelease, with the handles that are left: the last reference
\* takes the fence off the list and releases its points.
Release(t, f, handles) ==
    \/ /\ fence[f].ref > 1
       /\ fence' = [fence EXCEPT ![f].ref = @ - 1, ![f].handles = handles]
       /\ Finish(t)
    \/ /\ fence[f].ref = 1 /\ fbLock = NoLock
       /\ fence' = [fence EXCEPT ![f] =
             [NoFence EXCEPT !.handles = handles, !.life = "freed"]]
       /\ Releasing(t, fence[f].pts)

FenceDestroy(t, f) ==
    /\ Ready(t) /\ Holds(t, f) /\ ~LookedUp(f, Proc[t])
    /\ Release(t, f, fence[f].handles \ {Proc[t]})
    /\ UNCHANGED <<timeline, point, points, fences, table, fbLock, misr, woken, alive>>

\* Once the cleanup thread has met a software point it releases this one and
\* all that follow with an error.
BecomesError(t, p) == th[t].err \/ (t = Cleaner /\ IsSW(p))

\* The last reference takes the point out of the table, under the lock.
PointRelease(t) ==
    LET p == Head(th[t].todo) IN
    /\ th[t].pc = "relPt"
    /\ point' = [point EXCEPT ![p].ref = @ - 1]
    /\ \/ /\ point[p].ref = 1 /\ fbLock = NoLock
          /\ table' = table \ {p}
          /\ th' = [th EXCEPT ![t].err = BecomesError(t, p), ![t].pc = "unlist"]
       \/ /\ point[p].ref > 1
          /\ NextPoint(t, BecomesError(t, p))
          /\ UNCHANGED table
    /\ UNCHANGED <<timeline, fence, points, fences, fbLock, misr, woken, alive>>

\* Then it leaves its timeline, under that lock, and is freed with its
\* reference to the timeline; "attached" keeps the syncs that it errored.
StillListed_mutant(s, p) == s
StillListed(s, p)        == Without(s, {p})
UnlistPoint(t) ==
    LET p == Head(th[t].todo) IN
    /\ th[t].pc = "unlist" /\ Free(Tl(p))
    /\ timeline' = [timeline EXCEPT ![Tl(p)].active = StillListed(@, p),
                                    ![Tl(p)].ref = @ - 1]
    /\ point' = [point EXCEPT ![p] = [NoPoint EXCEPT !.life = "freed", !.tl = Tl(p),
          !.attached = IF th[t].err THEN Signalled(point[p].attached, "errored") ELSE <<>>]]
    /\ IF timeline[Tl(p)].ref = 1
       THEN th' = [th EXCEPT ![t].pc = "freeTl", ![t].tl = Tl(p)]
       ELSE NextPoint(t, th[t].err)
    /\ UNCHANGED <<fence, points, fences, table, fbLock, misr, woken, alive>>

TimelineRelease(t, tl) ==
    /\ timeline[tl].handle /\ ~InUse(tl)
    /\ timeline' = [timeline EXCEPT ![tl].handle = FALSE, ![tl].ref = @ - 1]
    /\ th' = [th EXCEPT ![t] = IF timeline[tl].ref = 1
                              THEN [Idle EXCEPT !.pc = "freeTl", !.tl = tl] ELSE Idle]
    /\ UNCHANGED <<point, fence, points, fences, table, fbLock, misr, woken, alive>>

TimelineDestroy(t, tl) == Ready(t) /\ Proc[t] = Owner[tl] /\ TimelineRelease(t, tl)

\* The last reference: a software timeline is advanced to its last point, which
\* wakes the waiters, and the timeline leaves the list. No point is left on it.
TimelineFree(t) ==
    LET tl == th[t].tl
        drains == tl \in SWTimelines /\ timeline[tl].last < timeline[tl].seq
    IN
    /\ th[t].pc = "freeTl" /\ fbLock = NoLock /\ Free(tl)
    /\ timeline' = [timeline EXCEPT ![tl] =
          [NewTimeline EXCEPT !.life = "freed", !.ref = 0, !.handle = FALSE]]
    /\ woken' = IF drains THEN SignalEO ELSE woken
    /\ misr' = [misr EXCEPT !.interrupt = @ \/ drains]
    /\ IF th[t].todo = <<>> THEN Finish(t) ELSE NextPoint(t, th[t].err)
    /\ UNCHANGED <<point, fence, points, fences, table, fbLock, alive>>

-----------------------------------------------------------------------------
(* Waiting for a fence *)

\* The fence is looked at, the event object opened, and the fence looked at
\* again: the two looks and the opening in between are one step here, which
\* only a look after the opening allows.
FenceWait(t, f) ==
    /\ Ready(t) /\ Holds(t, f) /\ ~AllSignalled(f)
    /\ fence' = [fence EXCEPT ![f].ref = @ + 1]
    /\ th' = [th EXCEPT ![t] = [Idle EXCEPT !.pc = "checkWait", !.f = f, !.looked = {f}]]
    /\ woken' = woken \ {t}
    /\ UNCHANGED <<timeline, point, points, fences, table, fbLock, misr, alive>>

\* An event since the opening stays to be read.
GoToSleep(t) ==
    /\ th[t].pc = "checkWait" /\ ~AllSignalled(th[t].f)
    /\ Step(t, "sleep")
    /\ UNCHANGED <<timeline, point, fence, points, fences, table, fbLock, misr, woken, alive>>

WakeUp(t) ==
    /\ th[t].pc = "sleep" /\ t \in woken
    /\ woken' = woken \ {t}
    /\ Step(t, "checkWait")
    /\ UNCHANGED <<timeline, point, fence, points, fences, table, fbLock, misr, alive>>

\* The wait ends and drops its reference.
EndWait(t) ==
    /\ Release(t, th[t].f, fence[th[t].f].handles)
    /\ woken' = woken \ {t}
    /\ UNCHANGED <<timeline, point, points, fences, table, fbLock, misr, alive>>
WaitSucceeds(t) == th[t].pc = "checkWait" /\ AllSignalled(th[t].f) /\ EndWait(t)
WaitTimesOut(t) == th[t].pc = "sleep" /\ EndWait(t)

-----------------------------------------------------------------------------
(* Software timelines are advanced by their process *)

MetPoints(tl, n) == {p \in ToSet(timeline[tl].active) : point[p].seq <= n}

AtLatestPoint_mutant(tl) == FALSE
AtLatestPoint(tl)        == timeline[tl].last = timeline[tl].seq

\* One step of its lock: the next number, the points that it meets, their
\* attached syncs. Then PVRSRVCheckStatus calls every callback, and the event
\* object is signalled.
SWTimelineAdvance(t, tl) ==
    LET n   == timeline[tl].last + 1
        met == MetPoints(tl, n)
    IN
    /\ Ready(t) /\ Proc[t] = Owner[tl] /\ tl \in SWTimelines
    /\ timeline[tl].handle /\ Free(tl)
    /\ ~AtLatestPoint(tl)
    /\ timeline' = [timeline EXCEPT ![tl].last = n, ![tl].active = Without(@, met)]
    /\ point' = [p \in Points |-> IF p \in met THEN Noticed(point[p]) ELSE point[p]]
    /\ misr' = [misr EXCEPT !.interrupt = TRUE]
    /\ woken' = SignalEO
    /\ UNCHANGED <<fence, points, fences, table, fbLock, th, alive>>

-----------------------------------------------------------------------------
(* The GPU, and the callback of the MISR *)

\* The firmware completes the work of a timeline in order, and interrupts.
FirmwareSignals(p) ==
    /\ point[p].life = "live" /\ HasSync(p) /\ ~IsSW(p)
    /\ NativeState(p) = "unsignalled"
    /\ \A q \in Points : /\ point[q].life = "live" /\ Tl(q) = Tl(p)
                         /\ point[q].seq < point[p].seq /\ HasSync(q)
                         => NativeSignalled(q)
    /\ point' = [point EXCEPT ![p].attached[1].state = "signalled"]
    /\ misr' = [misr EXCEPT !.interrupt = TRUE]
    /\ UNCHANGED <<timeline, fence, points, fences, table, fbLock, th, woken, alive>>

Listed ==
    LET live == {tl \in Timelines : timeline[tl].life = "live"}
    IN  Sorted(live, [tl \in live |-> tl])

NotifyBegin ==
    /\ misr.interrupt /\ fbLock = NoLock
    /\ IF Listed = <<>>
       THEN misr' = [misr EXCEPT !.interrupt = FALSE] /\ UNCHANGED fbLock
       ELSE /\ misr' = [interrupt |-> FALSE, todo |-> Listed, signal |-> FALSE]
            /\ fbLock' = Misr
    /\ UNCHANGED <<timeline, point, fence, points, fences, table, th, woken, alive>>

\* The points at the head of the active list that have signalled: the first
\* one that has not ends the walk.
SignalledPrefix_mutant(tl) ==
    {p \in ToSet(timeline[tl].active) : point[p].status # "unsignalled"}
SignalledPrefix(tl) ==
    LET a == timeline[tl].active
        met(p) == point[p].status # "unsignalled" \/ NativeSignalled(p)
    IN  {a[i] : i \in {j \in DOMAIN a : \A k \in 1..j : met(a[k])}}

\* One timeline under its lock; after the last one the waiters are woken.
NotifyTimeline ==
    LET tl   == Head(misr.todo)
        met  == SignalledPrefix(tl)
        new  == {p \in met : point[p].status = "unsignalled"}
        wake == misr.signal \/ met # {}
        ends == Len(misr.todo) = 1
    IN
    /\ misr.todo # <<>> /\ Free(tl)
    /\ point' = [p \in Points |-> IF p \in new THEN Noticed(point[p]) ELSE point[p]]
    /\ timeline' = [timeline EXCEPT
          ![tl].active = Without(@, met),
          ![tl].last = Max({@} \cup {point[p].seq : p \in new})]
    /\ misr' = [misr EXCEPT !.todo = Tail(@), !.signal = wake /\ ~ends]
    /\ fbLock' = IF ends THEN NoLock ELSE Misr
    /\ woken' = IF ends /\ wake THEN SignalEO ELSE woken
    /\ UNCHANGED <<fence, points, fences, table, th, alive>>

-----------------------------------------------------------------------------
(* A process dies; the cleanup thread purges its handles *)

Dies(pr) ==
    /\ pr \in Mortal \cap alive
    /\ \A t \in Clients : Proc[t] = pr => th[t].pc = "idle"
    /\ alive' = alive \ {pr}
    /\ UNCHANGED <<timeline, point, fence, points, fences, table, fbLock, th, misr, woken>>

\* FenceRelease on the cleanup thread, which frees the timelines of a process
\* first (g_aeOrderedFreeList): the software points of timelines that the dead
\* process created are forced.
PurgeFence(f, pr) ==
    /\ th[Cleaner].pc = "idle" /\ pr \in fence[f].handles \ alive
    /\ \A tl \in Timelines : Owner[tl] = pr => ~timeline[tl].handle
    /\ th' = [th EXCEPT ![Cleaner] = [Idle EXCEPT !.pc = "force", !.f = f,
          !.todo = Among(fence[f].pts, {p \in Points : IsSW(p) /\ Owner[Tl(p)] = pr})]]
    /\ fence' = [fence EXCEPT ![f].handles = @ \ {pr}]
    /\ UNCHANGED <<timeline, point, points, fences, table, fbLock, misr, woken, alive>>

ForcePoint ==
    LET p == Head(th[Cleaner].todo) IN
    /\ th[Cleaner].pc = "force" /\ th[Cleaner].todo # <<>> /\ Free(Tl(p))
    /\ point' = [point EXCEPT ![p] = SignalAttached(@, "errored")]
    /\ th' = [th EXCEPT ![Cleaner].todo = Tail(@)]
    /\ UNCHANGED <<timeline, fence, points, fences, table, fbLock, misr, woken, alive>>

PurgeRelease ==
    LET f == th[Cleaner].f IN
    /\ th[Cleaner].pc = "force" /\ th[Cleaner].todo = <<>>
    /\ Release(Cleaner, f, fence[f].handles)
    /\ UNCHANGED <<timeline, point, points, fences, table, fbLock, misr, woken, alive>>

PurgeTimeline(tl) ==
    th[Cleaner].pc = "idle" /\ Owner[tl] \notin alive /\ TimelineRelease(Cleaner, tl)

-----------------------------------------------------------------------------
\* Calls that a client may make.
Create(t) == \E tl \in Timelines :
    FenceCreatePVR(t, tl) \/ SWTimelineFenceCreate(t, tl)
\* Bound: a client closes its timelines last.
Destroy(t) ==
    \/ points = MaxPoints /\ (\A f \in Fences : ~Holds(t, f)) /\ \E tl \in Timelines : TimelineDestroy(t, tl)
    \/ \E f \in Fences : FenceDestroy(t, f)
Call(t) ==
    \/ "create"  \in CallsOf[t] /\ Create(t)
    \/ "destroy" \in CallsOf[t] /\ Destroy(t)
    \/ "advance" \in CallsOf[t] /\ \E tl \in Timelines : SWTimelineAdvance(t, tl)
    \/ "resolve" \in CallsOf[t] /\ \E f \in Fences : FenceResolvePVR(t, f)
    \/ "merge"   \in CallsOf[t] /\ \E f, g \in Fences : FenceMerge(t, f, g)
    \/ "wait"    \in CallsOf[t] /\ \E f \in Fences : FenceWait(t, f)
    \/ "import"  \in CallsOf[t] /\ \E f \in Fences : FenceImport(t, f)
\* Steps of a call that has begun.
Goes(t) ==
    \/ CheckpointAttached(t) \/ FenceCreated(t) \/ CheckPoint(t) \/ MarkPoint(t) \/ WalkAttached(t)
    \/ AttachForeign(t) \/ RecheckForeign(t) \/ Merged(t)
    \/ GoToSleep(t) \/ WakeUp(t) \/ WaitSucceeds(t)
    \/ PointRelease(t) \/ UnlistPoint(t) \/ TimelineFree(t)
Purge ==
    \/ \E f \in Fences, pr \in Processes : PurgeFence(f, pr)
    \/ \E tl \in Timelines : PurgeTimeline(tl)
    \/ ForcePoint \/ PurgeRelease
Notify == NotifyBegin \/ NotifyTimeline

Next ==
    \/ \E t \in Clients : Call(t) \/ FenceCreateFails(t) \/ WaitTimesOut(t)
    \/ \E t \in Threads : Goes(t)
    \/ \E p \in Points : FirmwareSignals(p)
    \/ \E pr \in Processes : Dies(pr)
    \/ Notify \/ Purge

Spec == Init /\ [][Next]_vars

\* The scheduler runs every thread that has begun a call, a lock is granted in
\* the end, and an interrupt is served. Nothing makes a client call, the GPU
\* finish, a wait time out or the cleanup thread get on: it holds no lock from
\* one step to the next.
LiveSpec ==
    /\ Spec
    /\ \A t \in Clients : WF_vars(Goes(t))
    /\ WF_vars(Notify)
-----------------------------------------------------------------------------
\* Once a point is known to have signalled, no checkpoint that another device
\* waits on is left behind, whichever of the resolver and the one that noticed
\* came first. Threads between writing the state of the point and telling the
\* attached syncs are excused (FenceResolvePVR, HasSignalledPVR, AdvanceSigErr).
Telling(p) ==
    \E t \in Threads : /\ th[t].pc \in {"walk", "recheck"}
                       /\ p \in ToSet(th[t].todo)
AttachedFollow ==
    \A p \in Points :
        point[p].status # "unsignalled" /\ ~Telling(p) =>
            \A i \in DOMAIN point[p].attached : point[p].attached[i].state # "unsignalled"

\* Whoever may reach a point finds it whole: the notifier through the active
\* list of a timeline, the stall dump through the table, a caller through a
\* fence that it has looked up. Only the point of a fence whose creation
\* failed, while it is being released, has no sync (SyncPtRelease).
BeingReleased(p) ==
    \E t \in Threads : th[t].pc \in {"relPt", "unlist"} /\ p \in ToSet(th[t].todo)
ReachedIsWhole ==
    /\ \A tl \in Timelines : \A p \in ToSet(timeline[tl].active) :
          /\ point[p].life = "live" /\ timeline[tl].life = "live"
          /\ HasSync(p) \/ ~Free(tl) \/ BeingReleased(p)
    /\ \A p \in table : point[p].life = "live" /\ HasSync(p)
    /\ \A f \in Fences : fence[f].life = "live" =>
          /\ fence[f].ref > 0
          /\ \A p \in ToSet(fence[f].pts) :
                point[p].ref > 0 /\ HasSync(p) /\ timeline[Tl(p)].life = "live"

\* A merged fence that has signalled has lost no point: those left out of it
\* had signalled, or signal before the later point of their timeline. Points
\* released unsignalled are excepted, and fences of a process that died: the
\* cleanup thread forces some of its software points and not others.
MergedWaitsForAll ==
    \A f \in Fences :
        fence[f].life = "live" /\ AllSignalled(f) =>
            \A q \in fence[f].src :
                \/ point[q].ref = 0 \/ point[q].status # "unsignalled"
                \/ NativeSignalled(q)
                \/ \E p \in fence[f].src : IsSW(p) /\ Owner[Tl(p)] \notin alive

\* A caller in FenceWait returns once every point of the fence has been
\* signalled by the GPU or by SWTimelineAdvance, with no help from its timeout.
Waits(t) == th[t].pc \in {"checkWait", "sleep"}
Met(f)   == \A p \in ToSet(fence[f].pts) : HasSync(p) /\ NativeState(p) = "signalled"
WaitersReturn ==
    \A t \in {c \in Clients : "wait" \in CallsOf[c]} : (Waits(t) /\ Met(th[t].f)) ~> ~Waits(t)

\* "THE FIRST ITEM OF THIS LIST DEFINES THE FLAVOUR OF THE SYNC PT AND MUST BE
\* CREATED TOGETHER WITH THE SYNC PT!" (sync_fallback_server.c): the notifier
\* never meets a point with nothing attached.
NotifierMeetsFlavour ==
    misr.todo # <<>> /\ Free(Head(misr.todo)) =>
        \A p \in ToSet(timeline[Head(misr.todo)].active) : HasSync(p)

\* "If this is a SW sync point from a timeline which was created by the process
\* being cleaned-up, then error it" (FenceRelease): nothing else is errored.
OnlySWErrored ==
    \A p \in Points : HasSync(p) /\ NativeState(p) = "errored" =>
        IsSW(p) /\ Owner[Tl(p)] \notin alive
=============================================================================
