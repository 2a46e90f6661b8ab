----------------------------- MODULE Connection -----------------------------
(***************************************************************************)
(* Connections (common/connection_server.c), the handle bases they and     *)
(* their process own, and the cleanup thread (common/pvrsrv.c) that takes  *)
(* a closed connection apart, again when something was still busy.         *)
(***************************************************************************)
EXTENDS HandleBase, Sequences

CONSTANTS
    Conns, NoConn,
    ProcBases,      \* memory for process handle bases
    ConnOf,         \* the connection that a thread makes its calls on
    HomeOf,         \* the base a handle is allocated in: a connection or Process
    Process,
    Rank,           \* position of the handle's type in g_aeOrderedFreeList
    RetryCount,     \* CLEANUP_THREAD_RETRY_COUNT_DEFAULT
    RetryModulus    \* 2^32: ui32RetryCount wraps

ASSUME ConnectionAssumption ==
    /\ NoConn \notin Conns /\ Process \notin Conns
    /\ Bases = Conns \cup ProcBases /\ Conns \cap ProcBases = {}
    /\ ConnOf \in [Threads -> Conns]
    /\ HomeOf \in [Handles -> Conns \cup {Process}]
    /\ Rank \in [Handles -> Nat]
    /\ RetryCount \in Nat /\ RetryModulus \in Nat /\ RetryCount < RetryModulus

VARIABLES
    conn,         \* state of each connection
    procBase,     \* psProcessHandleBase
    table,        \* g_psProcessHandleBaseTable for the process
    procRefs,     \* iRefCount of the process handle bases
    procLive,     \* process handle bases allocated
    leaked,       \* objects whose handle was purged without its callback
    workList,     \* sCleanupThreadWorkList
    retries,      \* ui32RetryCount
    cpc,          \* where the cleanup thread is
    last,         \* psNodeLast, the item at which a pass ends
    item,         \* the item it works on
    purging,      \* the base that PVRSRVFreeHandleBase is at
    needRetry     \* bNeedRetry

connVars    == <<conn, procBase, table, procRefs, procLive, leaked>>
cleanerVars == <<workList, retries, cpc, last, item, purging, needRetry>>
allVars     == <<vars, connVars, cleanerVars>>

ConnectionTypeOK ==
    /\ TypeOK
    /\ conn \in [Conns -> {"none", "open", "closed", "freed", "abandoned"}]
    /\ procBase \in [Conns -> ProcBases \cup {NoBase}]
    /\ table \in ProcBases \cup {NoBase}
    /\ procRefs \in [ProcBases -> Int] /\ procLive \subseteq ProcBases
    /\ leaked \subseteq Handles
    /\ workList \in Seq(Conns)
    /\ retries \in [Conns -> 0..RetryModulus - 1]
    /\ cpc \in {"wait", "pop", "process", "purge", "failed", "done"}
    /\ last \in Conns \cup {NoConn} /\ item \in Conns \cup {NoConn}
    /\ purging \in Bases \cup {NoBase}
    /\ needRetry \in BOOLEAN

ConnectionInit ==
    /\ HandleInit
    /\ conn = [c \in Conns |-> "none"]
    /\ procBase = [c \in Conns |-> NoBase]
    /\ table = NoBase
    /\ procRefs = [p \in ProcBases |-> 0] /\ procLive = {}
    /\ leaked = {}
    /\ workList = <<>> /\ retries = [c \in Conns |-> 0]
    /\ cpc = "wait" /\ last = NoConn /\ item = NoConn
    /\ purging = NoBase /\ needRetry = FALSE

---------------------------------------------------------------------------
(* The client's side.                                                      *)

\* PVRSRVCommonConnectionConnect with PVRSRVAcquireProcessHandleBase.
Connect(c) ==
    /\ conn[c] \in {"none", "freed"}
    /\ \E p \in ProcBases :
         /\ IF table = NoBase
            THEN p \notin procLive /\ procRefs' = [procRefs EXCEPT ![p] = 1]
            ELSE p = table /\ procRefs' = [procRefs EXCEPT ![p] = @ + 1]
         /\ table' = p
         /\ procLive' = procLive \cup {p}
         /\ procBase' = [procBase EXCEPT ![c] = p]
    /\ conn' = [conn EXCEPT ![c] = "open"]
    /\ UNCHANGED <<vars, leaked, cleanerVars>>

\* A bridge call of a thread, on its connection or on its process.
BridgeCall(t) ==
    LET c == ConnOf[t] IN
    /\ conn[c] = "open"
    /\ \/ BridgeStep(t, c) \/ BridgeStep(t, procBase[c])
       \/ \E h \in Handles :
            LET b == IF HomeOf[h] = Process THEN procBase[c] ELSE c IN
            /\ HomeOf[h] \in {c, Process}
            /\ Create(t, h, b) \/ CreateOn(t, h, b)
    /\ UNCHANGED <<connVars, cleanerVars>>

\* PVRSRVCommonConnectionDisconnect, when the file is released: no call is
\* on its way.  PVRSRVCleanupThreadAddWork.
Disconnect(c) ==
    /\ conn[c] = "open"
    /\ \A t \in Threads : ConnOf[t] = c => pc[t] = "idle"
    /\ conn' = [conn EXCEPT ![c] = "closed"]
    /\ workList' = Append(workList, c)
    /\ retries' = [retries EXCEPT ![c] = RetryCount]
    /\ UNCHANGED <<vars, procBase, table, procRefs, procLive, leaked, cpc,
                   last, item, purging, needRetry>>

---------------------------------------------------------------------------
(* _CleanupThreadProcessWorkList and ConnectionDataDestroy.                *)

\* A pass goes on until it has done what was the last item when it began.
StartPass ==
    /\ cpc = "wait" /\ workList # <<>>
    /\ last' = workList[Len(workList)]
    /\ needRetry' = FALSE
    /\ cpc' = "pop"
    /\ UNCHANGED <<vars, connVars, workList, retries, item, purging>>

PopWork ==
    /\ cpc = "pop"
    /\ item' = Head(workList)
    /\ workList' = Tail(workList)
    /\ cpc' = "process"
    /\ UNCHANGED <<vars, connVars, retries, last, purging, needRetry>>

\* PVRSRVReleaseProcessHandleBase up to where the base has left the table.
ReleaseProcessBase_mutant ==
    LET p == procBase[item] IN
    /\ cpc = "process" /\ p # NoBase
    /\ table' = NoBase /\ purging' = p
    /\ procRefs' = [procRefs EXCEPT ![p] = @ - 1]
    /\ cpc' = "purge"
    /\ UNCHANGED <<vars, conn, procBase, procLive, leaked, workList, retries,
                   last, item, needRetry>>
ReleaseProcessBase ==
    LET p == procBase[item] IN
    /\ cpc = "process" /\ p # NoBase
    /\ procRefs' = [procRefs EXCEPT ![p] = @ - 1]
    /\ IF procRefs'[p] = 0
       THEN /\ table' = NoBase /\ purging' = p /\ UNCHANGED procBase
       ELSE /\ procBase' = [procBase EXCEPT ![item] = NoBase]
            /\ purging' = item /\ UNCHANGED table
    /\ cpc' = "purge"
    /\ UNCHANGED <<vars, conn, procLive, leaked, workList, retries, last, item,
                   needRetry>>

\* A later attempt finds the process handle base gone.
SkipProcessBase ==
    /\ cpc = "process" /\ procBase[item] = NoBase
    /\ purging' = item
    /\ cpc' = "purge"
    /\ UNCHANGED <<vars, connVars, workList, retries, last, item, needRetry>>

\* The handles of a type earlier in the list are freed first.
NextToFree_mutant(h) ==
    /\ base[h] = purging
    /\ \A k \in Handles : base[k] = purging => Rank[h] >= Rank[k]
NextToFree(h) ==
    /\ base[h] = purging
    /\ \A k \in Handles : base[k] = purging => Rank[h] <= Rank[k]

\* FreeHandleDataWrapper calls the release callback, which sub-handles do not
\* have, unless the handle is marked.
CallsBack(h) == canLookup[h] /\ Parent[h] = NoHandle

FreeHandleData(h) ==
    /\ cpc = "purge" /\ NextToFree(h)
    /\ CallsBack(h) => Releasable(h)
    /\ object' = IF CallsBack(h) THEN [object EXCEPT ![h] = "freed"]
                                 ELSE object
    /\ leaked' = IF Parent[h] = NoHandle /\ ~CallsBack(h)
                 THEN leaked \cup {h} ELSE leaked
    /\ base' = [base EXCEPT ![h] = NoBase]
    /\ UNCHANGED <<canLookup, lookups, busy, callVars, conn, procBase, table,
                   procRefs, procLive, cleanerVars>>

FreeHandleDataRetry(h) ==
    /\ cpc = "purge" /\ NextToFree(h)
    /\ CallsBack(h) /\ ~Releasable(h)
    /\ purging' = NoBase
    /\ cpc' = "failed"
    /\ UNCHANGED <<vars, connVars, workList, retries, last, item, needRetry>>

Purged == cpc = "purge" /\ \A h \in Handles : base[h] # purging

\* The process handle base is empty: it is freed, and the base of the
\* connection is next.
FreeProcessBase ==
    /\ Purged /\ purging \in ProcBases
    /\ procLive' = procLive \ {purging}
    /\ procBase' = [procBase EXCEPT ![item] = NoBase]
    /\ purging' = item
    /\ UNCHANGED <<vars, conn, table, procRefs, leaked, workList, retries, cpc,
                   last, item, needRetry>>

AfterItem == IF item = last THEN "wait" ELSE "pop"

\* The rest of ConnectionDataDestroy cannot fail.
FreeConnection ==
    /\ Purged /\ purging = item
    /\ conn' = [conn EXCEPT ![item] = "freed"]
    /\ purging' = NoBase /\ item' = NoConn
    /\ cpc' = AfterItem
    /\ UNCHANGED <<vars, procBase, table, procRefs, procLive, leaked, workList,
                   retries, last, needRetry>>

\* ui32RetryCount--.
OneLess_mutant(n) == n - 1
OneLess(n) == (n + RetryModulus - 1) % RetryModulus

\* An item that failed goes to the back of the list while its retries last.
\* bNeedRetry is not reset between the items of a pass.
RetryItem_mutant ==
    /\ cpc = "failed"
    /\ retries' = [retries EXCEPT ![item] = OneLess(@)]
    /\ needRetry' = (needRetry \/ retries[item] > 0)
    /\ conn' = IF needRetry' THEN conn
                             ELSE [conn EXCEPT ![item] = "abandoned"]
    /\ item' = NoConn
    /\ cpc' = AfterItem
    /\ UNCHANGED <<vars, procBase, table, procRefs, procLive, leaked, workList,
                   last, purging>>
RetryItem ==
    /\ cpc = "failed"
    /\ retries' = [retries EXCEPT ![item] = OneLess(@)]
    /\ needRetry' = (needRetry \/ retries[item] > 0)
    /\ IF needRetry'
       THEN workList' = Append(workList, item) /\ UNCHANGED conn
       ELSE /\ conn' = [conn EXCEPT ![item] = "abandoned"]
            /\ UNCHANGED workList
    /\ item' = NoConn
    /\ cpc' = AfterItem
    /\ UNCHANGED <<vars, procBase, table, procRefs, procLive, leaked, last,
                   purging>>

CleanupThread ==
    \/ StartPass \/ PopWork \/ ReleaseProcessBase \/ SkipProcessBase
    \/ \E h \in Handles : FreeHandleData(h) \/ FreeHandleDataRetry(h)
    \/ FreeProcessBase \/ FreeConnection \/ RetryItem

Firmware ==
    /\ \E h \in Busyable : GpuFinishes(h)
    /\ UNCHANGED <<connVars, cleanerVars>>

ConnectionNext ==
    \/ \E c \in Conns : Connect(c) \/ Disconnect(c)
    \/ \E t \in Threads : BridgeCall(t)
    \/ Firmware \/ CleanupThread

ConnectionSpec == ConnectionInit /\ [][ConnectionNext]_allVars

\* The cleanup thread is scheduled and the GPU finishes, or is made to by the
\* recovery of the firmware; nothing obliges a client to go on.
ConnectionLiveSpec ==
    ConnectionSpec /\ WF_allVars(CleanupThread) /\ WF_allVars(Firmware)

---------------------------------------------------------------------------
(* Properties.                                                             *)

\* handle.c:2340, "make sure all handles have actually had their data freed
\* to avoid resources being leaked".
NothingLeaks == leaked = {}

\* Only an object whose handle has sub-handles is ever lost: nothing but a
\* sub-handle that is looked up refuses a destroy call and leaves its mark.
OnlyRefusedLeaks == \A h \in leaked : Children(h) # {}

\* While a connection is open, the process handle base it points to is the
\* one in the table, is allocated, and counts exactly the connections that
\* will still release it.
ConnectedToProcessBase ==
    /\ \A c \in Conns : conn[c] = "open" => procBase[c] = table
    /\ table # NoBase =>
         /\ table \in procLive
         /\ procRefs[table] = Cardinality({c \in Conns : procBase[c] = table})

\* The order of g_aeOrderedFreeList lets the purge wait for the GPU only, never
\* for an object of the same connection that it would free later.
WaitsOnlyForGpu ==
    cpc = "purge" =>
        \A h \in Handles : NextToFree(h) /\ CallsBack(h) /\ ~Releasable(h)
                              => h \in busy

\* Once the GPU has had time to finish, a closed connection is freed in the end or given up
\* when its retries are used up.
ClosedIsDealtWith ==
    \A c \in Conns : conn[c] = "closed" ~> conn[c] \in {"freed", "abandoned"}
=============================================================================
