--------------------------- MODULE ConnectionProofs ---------------------------
(***************************************************************************)
(* Proofs about Connection for every set of threads, connections, handles  *)
(* and memory for process bases: the types, that an object in use is live, *)
(* what may leak, how the process handle base is counted, and what the     *)
(* purge may wait for.                                                     *)
(***************************************************************************)
EXTENDS Connection, FiniteSetTheorems, TLAPS

\* The threads that have looked a handle up, and the connections that will
\* still release a process handle base.
Users(h) == {t \in Threads : pc[t] = "using" /\ on[t] = h}
Refs(p)  == {c \in Conns : procBase[c] = p}

\* A base in which bridge calls may look for handles, now or when the process
\* connects again.
InUse(b) == \/ b \in Conns /\ conn[b] = "open"
            \/ b \in ProcBases /\ b = table

Destroying == {"releasing", "destroying"}

\* A bridge call is about a handle of its open connection or of its process.
CallsOpen ==
    \A t \in Threads :
        /\ pc[t] # "idle" => /\ on[t] \in Handles
                             /\ conn[ConnOf[t]] = "open"
                             /\ base[on[t]] \in {ConnOf[t], procBase[ConnOf[t]]}
        /\ pc[t] \in Destroying => Parent[on[t]] = NoHandle

\* iLookupCount is the number of threads that have looked the handle up.
LookupsCounted ==
    \A h \in Handles :
        IsFiniteSet(Users(h)) /\ lookups[h] = Cardinality(Users(h))

\* Nobody has or gets a handle that is destroyed, through a sub-handle either,
\* and one thread destroys it.
DestroyedAlone ==
    \A t \in Threads : pc[t] \in Destroying =>
        /\ \A k \in Handles : Owner(k) = on[t] => ~canLookup[k] /\ Users(k) = {}
        /\ \A u \in Threads : pc[u] \in Destroying /\ on[u] = on[t] => u = t
        /\ pc[t] = "destroying" => object[on[t]] = "freed"

\* In a base in use a sub-handle is with its parent, and the object is there
\* until the last step of a destroy call.
CellsWhole ==
    \A h \in Handles : InUse(base[h]) =>
        /\ base[Owner(h)] = base[h]
        /\ \/ object[Owner(h)] = "live"
           \/ \E t \in Threads : pc[t] = "destroying" /\ on[t] = Owner(h)

\* There are handles in bases that exist only.
BasesExist ==
    \A h \in Handles :
        /\ base[h] \in Conns => conn[base[h]] \notin {"none", "freed"}
        /\ base[h] \in ProcBases => base[h] \in procLive

\* The process handle base: who points to it, and what iRefCount counts.
ProcessCounted ==
    /\ \A c \in Conns :
         /\ conn[c] = "open" => procBase[c] = table /\ table \in ProcBases
         /\ conn[c] \in {"none", "freed"} => procBase[c] = NoBase
         /\ procBase[c] # NoBase => procBase[c] \in procLive
    /\ table # NoBase => /\ table \in procLive
                         /\ IsFiniteSet(Refs(table))
                         /\ procRefs[table] = Cardinality(Refs(table))
    /\ \A p \in procLive : p # table => procRefs[p] <= 0

\* A closed connection is in the work list once, or with the cleanup thread.
WorkClosed ==
    /\ \A i \in 1..Len(workList) : conn[workList[i]] = "closed"
    /\ \A i, j \in 1..Len(workList) : workList[i] = workList[j] => i = j

\* The item of the cleanup thread, and the item at which the pass ends.
Working == {"process", "purge", "failed"}
ItemClosed ==
    /\ cpc \in Working => /\ item \in Conns /\ conn[item] = "closed"
                          /\ \A i \in 1..Len(workList) : workList[i] # item
    /\ cpc \in Working \cup {"pop"} =>
          \/ \E i \in 1..Len(workList) : workList[i] = last
          \/ cpc # "pop" /\ item = last

\* What is purged is the base of the item or the process base it was the last
\* to release.
PurgedIsReleased ==
    cpc = "purge" =>
        \/ purging = item /\ procBase[item] = NoBase
        \/ /\ purging \in ProcBases /\ purging # table
           /\ Refs(purging) = {item}

\* A marked handle has sub-handles or is being destroyed.
MarkedHasReason ==
    /\ \A h \in Handles :
         Exists(h) /\ Parent[h] = NoHandle /\ ~canLookup[h] =>
             \/ Children(h) # {}
             \/ \E t \in Threads : pc[t] \in Destroying /\ on[t] = h
    /\ OnlyRefusedLeaks

\* The inductive invariant.
ConnectionInv ==
    /\ ConnectionTypeOK /\ CallsOpen /\ LookupsCounted /\ DestroyedAlone
    /\ CellsWhole /\ BasesExist /\ ProcessCounted /\ WorkClosed /\ ItemClosed
    /\ PurgedIsReleased /\ MarkedHasReason

\* The order of g_aeOrderedFreeList: an object that refers to another, which
\* is of the same base, has no sub-handles and comes first.
FreeListOrder ==
    \A k \in Handles : \A h \in Targets[k] :
        /\ Rank[k] < Rank[h]
        /\ HomeOf[k] = HomeOf[h]
        /\ Parent[k] = NoHandle /\ Children(k) = {} /\ Parent[h] = NoHandle

\* Together with ConnectionInv inductive under FreeListOrder: an object that
\* refers to another is in the same base, and neither is lost.
TargetsStay ==
    /\ \A h \in Handles :
         object[h] = "live" => Parent[h] = NoHandle /\ (Exists(h) \/ h \in leaked)
    /\ \A h \in Handles : Parent[h] = NoHandle =>
         /\ base[h] \in Conns => HomeOf[h] = base[h]
         /\ base[h] \in ProcBases => HomeOf[h] = Process
    /\ \A k \in Handles : \A h \in Targets[k] :
         object[k] = "live" =>
             /\ base[k] = base[h] /\ Exists(h)
             /\ \A t \in Threads : pc[t] = "destroying" => on[t] # h

-----------------------------------------------------------------------------
(* Lemmas about the operators of the modules.                              *)

\* The facts about the constants that the proofs use.
LEMMA ConstantFacts ==
    /\ \A b \in Bases : b # NoBase
    /\ \A c \in Conns : c \in Bases /\ c \notin ProcBases /\ c # NoBase /\ c # Process
    /\ \A p \in ProcBases : p \in Bases /\ p \notin Conns /\ p # NoBase
    /\ \A t \in Threads : ConnOf[t] \in Conns
    /\ \A h \in Handles : h # NoHandle
BY HandleBaseAssumption, ConnectionAssumption

\* The object of a handle is that of a handle without a parent.
LEMMA OwnerIs ==
    ASSUME NEW h \in Handles
    PROVE  /\ Owner(h) \in Handles /\ Parent[Owner(h)] = NoHandle
           /\ Parent[h] = NoHandle => Owner(h) = h
           /\ \A k \in Handles : k \in {h} \cup Children(h) /\ Parent[h] = NoHandle
                                    <=> Owner(k) = h
BY HandleBaseAssumption DEF Owner, Children

\* The bases that a call may use are in use, and nothing in use is purged.
LEMMA InUseIs ==
    ASSUME ConnectionInv
    PROVE  /\ \A c \in Conns : conn[c] = "open" => InUse(c) /\ InUse(procBase[c])
           /\ cpc = "purge" => ~InUse(purging) /\ purging \in Bases
<1>1. \A c \in Conns : conn[c] = "open" => InUse(c) /\ InUse(procBase[c])
  BY DEF InUse, ConnectionInv, ProcessCounted
<1>2. ASSUME cpc = "purge" PROVE ~InUse(purging) /\ purging \in Bases
  <2>1. item \in Conns /\ conn[item] = "closed"
    BY <1>2 DEF ConnectionInv, ItemClosed, Working
  <2>2. \/ purging = item
        \/ purging \in ProcBases /\ purging # table
    BY <1>2 DEF ConnectionInv, PurgedIsReleased
  <2>3. QED
    BY <2>1, <2>2, ConstantFacts DEF InUse
<1>3. QED
  BY <1>1, <1>2

\* A handle is in a base of the thread's connection; what a new handle is made for.
Within(t, h) == base[h] \in {ConnOf[t], procBase[ConnOf[t]]}
Creates(t, h, b) ==
    /\ b = IF HomeOf[h] = Process THEN procBase[ConnOf[t]] ELSE ConnOf[t]
    /\ HomeOf[h] \in {ConnOf[t], Process}
    /\ Create(t, h, b) \/ CreateOn(t, h, b)

\* The steps of a bridge call, with the base they happen in.
LEMMA BridgeCases ==
    ASSUME ConnectionInv, NEW t \in Threads, BridgeCall(t)
    PROVE  /\ conn[ConnOf[t]] = "open" /\ UNCHANGED <<connVars, cleanerVars>>
           /\ \/ \E h \in Handles : Within(t, h) /\ LookupHandle(t, h)
              \/ \E h \in Handles : Within(t, h) /\ MarkForFree(t, h)
              \/ /\ on[t] \in Handles /\ Within(t, on[t])
                 /\ \/ Kick(t) \/ ReleaseHandle(t)
                    \/ FreePrivData(t) \/ FreePrivDataRetry(t) \/ FreeDestroy(t)
              \/ \E h \in Handles, b \in Bases : Creates(t, h, b)
<1>1. on[t] \in Handles \cup {NoHandle}
  BY DEF ConnectionInv, ConnectionTypeOK, TypeOK
<1>2. ConnOf[t] \in Bases /\ (conn[ConnOf[t]] = "open" => procBase[ConnOf[t]] \in Bases)
  BY ConstantFacts DEF ConnectionInv, ProcessCounted
<1>3. CASE BridgeStep(t, ConnOf[t]) \/ BridgeStep(t, procBase[ConnOf[t]])
  BY <1>1, <1>3 DEF BridgeCall, BridgeStep, Within
<1>4. CASE \E h \in Handles :
             LET b == IF HomeOf[h] = Process THEN procBase[ConnOf[t]] ELSE ConnOf[t] IN
             /\ HomeOf[h] \in {ConnOf[t], Process}
             /\ Create(t, h, b) \/ CreateOn(t, h, b)
  BY <1>2, <1>4 DEF BridgeCall, Creates
<1>5. QED
  BY <1>3, <1>4 DEF BridgeCall

\* A new object, and what the call needs for it.
LEMMA CreateCases ==
    ASSUME NEW t \in Threads, NEW h \in Handles, NEW b, Creates(t, h, b)
    PROVE  /\ AllocHandle(h, b) /\ UNCHANGED callVars
           /\ Targets[h] = {} \/ (pc[t] = "using" /\ Targets[h] = {on[t]})
BY DEF Creates, Create, CreateOn

-----------------------------------------------------------------------------
(* The connections and the process handle base.                            *)

\* What a step is, and that bridge calls and the firmware leave the connections
\* and the cleanup thread alone.
LEMMA StepCases ==
    ASSUME ConnectionInv, [ConnectionNext]_allVars
    PROVE  \/ \E c \in Conns : Connect(c) \/ Disconnect(c)
           \/ CleanupThread
           \/ UNCHANGED <<connVars, cleanerVars>>
BY DEF ConnectionNext, BridgeCall, Firmware, allVars

\* The set of connections that will release a base, after one more points to it
\* or one fewer.
LEMMA RefsMoved ==
    ASSUME NEW c \in Conns, NEW p, NEW q, procBase' = [procBase EXCEPT ![c] = q],
           procBase \in [Conns -> ProcBases \cup {NoBase}]
    PROVE  Refs(p)' = IF p = q THEN Refs(p) \cup {c} ELSE Refs(p) \ {c}
BY DEF Refs

\* When iRefCount becomes zero the base is the one in the table, the item was the
\* last connection to point to it, and no connection is open.
LEMMA LastReference ==
    ASSUME ConnectionInv, ReleaseProcessBase, procRefs'[procBase[item]] = 0
    PROVE  /\ procBase[item] = table /\ table \in ProcBases
           /\ Refs(table) = {item}
           /\ \A d \in Conns : conn[d] # "open"
<1>0. /\ procBase \in [Conns -> ProcBases \cup {NoBase}]
      /\ table \in ProcBases \cup {NoBase}
      /\ procRefs \in [ProcBases -> Int] /\ procLive \subseteq ProcBases
      /\ ProcessCounted
  BY DEF ConnectionInv, ConnectionTypeOK
<1>1. /\ item \in Conns /\ conn[item] = "closed"
      /\ procBase[item] \in ProcBases /\ procBase[item] \in procLive
  BY <1>0 DEF ReleaseProcessBase, ConnectionInv, ItemClosed, Working, ProcessCounted
<1>2. procRefs[procBase[item]] = 1
  BY <1>0, <1>1 DEF ReleaseProcessBase
<1>3. procBase[item] = table
  BY <1>0, <1>1, <1>2 DEF ProcessCounted
<1>4. Cardinality(Refs(table)) = 1 /\ IsFiniteSet(Refs(table))
  BY <1>0, <1>1, <1>2, <1>3, ConstantFacts DEF ProcessCounted
<1>5. Refs(table) = {item}
  <2>1. item \in Refs(table)
    BY <1>1, <1>3 DEF Refs
  <2>2. QED
    BY <1>4, <2>1, FS_Singleton
<1>6. ASSUME NEW d \in Conns, conn[d] = "open" PROVE FALSE
  <2>1. d \in Refs(table)
    BY <1>0, <1>6 DEF ProcessCounted, Refs
  <2>2. QED
    BY <1>1, <1>5, <1>6, <2>1
<1>7. QED
  BY <1>1, <1>3, <1>5, <1>6

\* Every step keeps the count of the process handle base.
LEMMA ProcessStep ==
    ConnectionInv /\ [ConnectionNext]_allVars => ProcessCounted'
<1> SUFFICES ASSUME ConnectionInv, [ConnectionNext]_allVars PROVE ProcessCounted'
  OBVIOUS
<1> USE DEF connVars, cleanerVars
<1>0. /\ conn \in [Conns -> {"none", "open", "closed", "freed", "abandoned"}]
      /\ procBase \in [Conns -> ProcBases \cup {NoBase}]
      /\ table \in ProcBases \cup {NoBase}
      /\ procRefs \in [ProcBases -> Int] /\ procLive \subseteq ProcBases
      /\ ProcessCounted
  BY DEF ConnectionInv, ConnectionTypeOK
<1>1. ASSUME NEW c \in Conns, Connect(c) PROVE ProcessCounted'
  <2>1. PICK p \in ProcBases :
            /\ IF table = NoBase
               THEN p \notin procLive /\ procRefs' = [procRefs EXCEPT ![p] = 1]
               ELSE p = table /\ procRefs' = [procRefs EXCEPT ![p] = @ + 1]
            /\ table' = p
            /\ procLive' = procLive \cup {p}
            /\ procBase' = [procBase EXCEPT ![c] = p]
    BY <1>1 DEF Connect
  <2>2. conn[c] \in {"none", "freed"} /\ conn' = [conn EXCEPT ![c] = "open"]
        /\ procBase[c] = NoBase /\ p # NoBase
    BY <1>0, <1>1, ConstantFacts DEF Connect, ProcessCounted
  <2>3. \A d \in Conns :
            /\ conn'[d] = "open" => procBase'[d] = table' /\ table' \in ProcBases
            /\ conn'[d] \in {"none", "freed"} => procBase'[d] = NoBase
            /\ procBase'[d] # NoBase => procBase'[d] \in procLive'
    BY <1>0, <2>1, <2>2, ConstantFacts DEF ProcessCounted
  <2>4. Refs(p)' = Refs(p) \cup {c} /\ c \notin Refs(p)
    BY <1>0, <2>1, <2>2, RefsMoved DEF Refs
  <2>5. IsFiniteSet(Refs(p)) /\ procRefs'[p] = Cardinality(Refs(p)) + 1
    <3>1. CASE table = NoBase
      <4>1. Refs(p) = {}
        BY <1>0, <2>1, <2>2, <3>1 DEF Refs, ProcessCounted
      <4>2. QED
        BY <1>0, <2>1, <3>1, <4>1, FS_EmptySet
    <3>2. CASE table # NoBase
      BY <1>0, <2>1, <3>2 DEF ProcessCounted
    <3>3. QED
      BY <3>1, <3>2
  <2>6. IsFiniteSet(Refs(p))' /\ procRefs'[p] = Cardinality(Refs(p)')
    BY <2>4, <2>5, FS_AddElement
  <2>7. \A q \in procLive' : q # table' => procRefs'[q] <= 0
    BY <1>0, <2>1, ConstantFacts DEF ProcessCounted
  <2>8. QED
    BY <2>1, <2>3, <2>6, <2>7 DEF ProcessCounted
<1>2. ASSUME NEW c \in Conns, Disconnect(c) PROVE ProcessCounted'
  BY <1>0, <1>2 DEF Disconnect, ProcessCounted, Refs
<1>3. CASE ReleaseProcessBase
  <2> DEFINE p == procBase[item]
  <2>1. item \in Conns /\ conn[item] = "closed" /\ p \in ProcBases /\ p \in procLive
    BY <1>0, <1>3 DEF ReleaseProcessBase, ConnectionInv, ItemClosed, Working,
                      ProcessCounted
  <2>2. /\ procRefs' = [procRefs EXCEPT ![p] = @ - 1]
        /\ IF procRefs'[p] = 0
           THEN table' = NoBase /\ UNCHANGED procBase
           ELSE procBase' = [procBase EXCEPT ![item] = NoBase] /\ UNCHANGED table
        /\ UNCHANGED <<conn, procLive>>
    BY <1>3 DEF ReleaseProcessBase
  <2>3. CASE procRefs'[p] = 0
    <3>1. p = table /\ \A d \in Conns : conn[d] # "open"
      BY <1>3, <2>3, LastReference
    <3>4. \A q \in procLive' : q # table' => procRefs'[q] <= 0
      BY <1>0, <2>1, <2>2, <2>3, <3>1 DEF ProcessCounted
    <3>5. table' = NoBase /\ UNCHANGED <<procBase, conn, procLive>>
      BY <2>2, <2>3
    <3>6. QED
      BY <1>0, <3>1, <3>4, <3>5 DEF ProcessCounted
  <2>4. CASE procRefs'[p] # 0
    <3>1. /\ procBase' = [procBase EXCEPT ![item] = NoBase]
          /\ UNCHANGED <<table, conn, procLive>>
      BY <2>2, <2>4
    <3>2. \A d \in Conns :
            /\ conn'[d] = "open" => procBase'[d] = table' /\ table' \in ProcBases
            /\ conn'[d] \in {"none", "freed"} => procBase'[d] = NoBase
            /\ procBase'[d] # NoBase => procBase'[d] \in procLive'
      BY <1>0, <2>1, <3>1 DEF ProcessCounted
    <3>3. \A q \in procLive' : q # table' => procRefs'[q] <= 0
      BY <1>0, <2>1, <2>2, <3>1 DEF ProcessCounted
    <3>4. ASSUME table # NoBase
          PROVE  IsFiniteSet(Refs(table)') /\ procRefs'[table] = Cardinality(Refs(table)')
      <4>1. Refs(table)' = Refs(table) \ {item}
        BY <1>0, <2>1, <3>1, <3>4, RefsMoved
      <4>2. IsFiniteSet(Refs(table)) /\ procRefs[table] = Cardinality(Refs(table))
            /\ table \in ProcBases
        BY <1>0, <3>4 DEF ProcessCounted
      <4>3. item \in Refs(table) <=> p = table
        BY <2>1 DEF Refs
      <4>4. /\ IsFiniteSet(Refs(table) \ {item})
            /\ Cardinality(Refs(table) \ {item}) =
                   IF item \in Refs(table) THEN Cardinality(Refs(table)) - 1
                                           ELSE Cardinality(Refs(table))
        BY <4>2, FS_RemoveElement
      <4>5. procRefs'[table] = IF p = table THEN procRefs[table] - 1 ELSE procRefs[table]
        BY <1>0, <2>1, <2>2, <4>2
      <4>6. QED
        BY <4>1, <4>2, <4>3, <4>4, <4>5
    <3>5. QED
      BY <1>0, <3>1, <3>2, <3>3, <3>4 DEF ProcessCounted
  <2>5. QED
    BY <2>3, <2>4
<1>4. CASE FreeProcessBase
  <2>1. /\ item \in Conns /\ conn[item] = "closed"
        /\ purging \in ProcBases /\ purging # table /\ Refs(purging) = {item}
    BY <1>4, ConstantFacts
       DEF FreeProcessBase, Purged, ConnectionInv, ItemClosed, Working, PurgedIsReleased
  <2>2. /\ procLive' = procLive \ {purging}
        /\ procBase' = [procBase EXCEPT ![item] = NoBase]
        /\ UNCHANGED <<conn, table, procRefs>>
    BY <1>4 DEF FreeProcessBase
  <2>3. \A d \in Conns :
          /\ conn'[d] = "open" => procBase'[d] = table' /\ table' \in ProcBases
          /\ conn'[d] \in {"none", "freed"} => procBase'[d] = NoBase
          /\ procBase'[d] # NoBase => procBase'[d] \in procLive'
    BY <1>0, <2>1, <2>2 DEF ProcessCounted, Refs
  <2>4. table # NoBase => Refs(table)' = Refs(table)
    BY <1>0, <2>1, <2>2 DEF Refs
  <2>5. QED
    BY <1>0, <2>1, <2>2, <2>3, <2>4 DEF ProcessCounted
<1>5. CASE FreeConnection
  <2>1. item \in Conns /\ procBase[item] = NoBase
    BY <1>5, ConstantFacts DEF FreeConnection, Purged, ConnectionInv, ItemClosed,
                               Working, PurgedIsReleased
  <2>2. QED
    BY <1>0, <1>5, <2>1 DEF FreeConnection, ProcessCounted, Refs
<1>6. CASE RetryItem
  <2>1. item \in Conns /\ conn[item] = "closed"
    BY <1>6 DEF RetryItem, ConnectionInv, ItemClosed, Working
  <2>2. QED
    BY <1>0, <1>6, <2>1 DEF RetryItem, ProcessCounted, Refs
<1>7. ASSUME UNCHANGED <<conn, procBase, table, procRefs, procLive>>
      PROVE  ProcessCounted'
  BY <1>0, <1>7 DEF ProcessCounted, Refs
<1>8. ASSUME \/ StartPass \/ PopWork \/ SkipProcessBase
             \/ \E h \in Handles : FreeHandleData(h) \/ FreeHandleDataRetry(h)
             \/ UNCHANGED <<connVars, cleanerVars>>
      PROVE  ProcessCounted'
  BY <1>7, <1>8 DEF StartPass, PopWork, SkipProcessBase, FreeHandleData,
                    FreeHandleDataRetry
<1>9. QED
  BY <1>1, <1>2, <1>3, <1>4, <1>5, <1>6, <1>8, StepCases DEF CleanupThread

-----------------------------------------------------------------------------
(* The work list and the cleanup thread.                                   *)

\* Every step keeps closed connections in the work list once, and the item and
\* the end of the pass apart from them.
LEMMA WorkStep ==
    ConnectionInv /\ [ConnectionNext]_allVars => WorkClosed' /\ ItemClosed'
<1> SUFFICES ASSUME ConnectionInv, [ConnectionNext]_allVars
             PROVE  WorkClosed' /\ ItemClosed'
  OBVIOUS
<1> USE DEF connVars, cleanerVars, Working
<1>0. /\ conn \in [Conns -> {"none", "open", "closed", "freed", "abandoned"}]
      /\ workList \in Seq(Conns) /\ WorkClosed /\ ItemClosed
      /\ cpc \in {"wait", "pop", "process", "purge", "failed", "done"}
  BY DEF ConnectionInv, ConnectionTypeOK
<1>1. ASSUME NEW c \in Conns, Connect(c) PROVE WorkClosed' /\ ItemClosed'
  BY <1>0, <1>1 DEF Connect, WorkClosed, ItemClosed
<1>2. ASSUME NEW c \in Conns, Disconnect(c) PROVE WorkClosed' /\ ItemClosed'
  <2>1. /\ conn[c] = "open" /\ conn' = [conn EXCEPT ![c] = "closed"]
        /\ workList' = Append(workList, c) /\ UNCHANGED <<cpc, item, last>>
    BY <1>2 DEF Disconnect
  <2>2. /\ Len(workList') = Len(workList) + 1 /\ Len(workList) \in Nat
        /\ workList'[Len(workList) + 1] = c
        /\ \A i \in 1..Len(workList) : workList'[i] = workList[i] /\ workList[i] \in Conns
    BY <1>0, <2>1
  <2>3. \A i \in 1..Len(workList) : workList[i] # c
    BY <1>0, <2>1 DEF WorkClosed
  <2>4. WorkClosed'
    BY <1>0, <2>1, <2>2, <2>3 DEF WorkClosed
  <2>5. ItemClosed'
    BY <1>0, <2>1, <2>2, <2>3 DEF ItemClosed
  <2>6. QED
    BY <2>4, <2>5
<1>3. CASE StartPass
  <2>1. Len(workList) \in Nat /\ Len(workList) > 0
    BY <1>0, <1>3 DEF StartPass
  <2>2. last' = workList[Len(workList)] /\ cpc' = "pop" /\ UNCHANGED <<conn, workList, item>>
    BY <1>3 DEF StartPass
  <2>3. QED
    BY <1>0, <2>1, <2>2 DEF WorkClosed, ItemClosed
<1>4. CASE PopWork
  <2>1. PICK n \in 1..Len(workList) : workList[n] = last
    BY <1>0, <1>4 DEF PopWork, ItemClosed
  <2>2. /\ workList # <<>> /\ Len(workList') = Len(workList) - 1 /\ Len(workList) \in Nat
        /\ item' = workList[1] /\ item' \in Conns
        /\ \A i \in 1..(Len(workList) - 1) : workList'[i] = workList[i + 1]
        /\ cpc' = "process" /\ UNCHANGED <<conn, last>>
    BY <1>0, <1>4, <2>1 DEF PopWork
  <2>3. WorkClosed'
    <3>1. PICK m : m = Len(workList)
      OBVIOUS
    <3>2. /\ m \in Nat /\ Len(workList') = m - 1
          /\ \A i \in 1..m : conn[workList[i]] = "closed"
          /\ \A i, j \in 1..m : workList[i] = workList[j] => i = j
          /\ \A i \in 1..(m - 1) : workList'[i] = workList[i + 1]
      BY <1>0, <2>2, <3>1 DEF WorkClosed
    <3>3. \A i \in 1..(m - 1) : i \in Int /\ i + 1 \in 1..m
      BY <3>2
    <3>4. \A i \in 1..(m - 1) : conn'[workList'[i]] = "closed"
      BY <2>2, <3>2, <3>3
    <3>5. ASSUME NEW i \in 1..(m - 1), NEW j \in 1..(m - 1), workList'[i] = workList'[j]
          PROVE  i = j
      <4>1. workList[i + 1] = workList[j + 1]
        BY <3>2, <3>5
      <4>2. i + 1 = j + 1
        BY <3>2, <3>3, <4>1
      <4>3. QED
        BY <3>3, <4>2
    <3>6. QED
      BY <3>2, <3>4, <3>5 DEF WorkClosed
  <2>4. conn'[item'] = "closed" /\ \A i \in 1..Len(workList') : workList'[i] # item'
    BY <1>0, <2>1, <2>2 DEF WorkClosed
  <2>5. item' = last' \/ \E i \in 1..Len(workList') : workList'[i] = last'
    <3>1. CASE n = 1
      BY <2>1, <2>2, <3>1
    <3>2. CASE n # 1
      <4>1. n - 1 \in 1..Len(workList') /\ workList'[n - 1] = last
        BY <2>1, <2>2, <3>2
      <4>2. QED
        BY <2>2, <4>1
    <3>3. QED
      BY <3>1, <3>2
  <2>6. QED
    BY <2>2, <2>3, <2>4, <2>5 DEF ItemClosed
<1>5. ASSUME cpc \in Working, cpc' \in Working, UNCHANGED <<conn, workList, last, item>>
      PROVE  WorkClosed' /\ ItemClosed'
  BY <1>0, <1>5 DEF WorkClosed, ItemClosed
<1>6. ASSUME \/ ReleaseProcessBase \/ SkipProcessBase
             \/ \E h \in Handles : FreeHandleData(h) \/ FreeHandleDataRetry(h)
             \/ FreeProcessBase
      PROVE  WorkClosed' /\ ItemClosed'
  BY <1>5, <1>6 DEF ReleaseProcessBase, SkipProcessBase, FreeHandleData, Purged,
                    FreeHandleDataRetry, FreeProcessBase
<1>7. CASE FreeConnection
  <2>1. /\ item \in Conns /\ cpc' = AfterItem /\ conn' = [conn EXCEPT ![item] = "freed"]
        /\ \A i \in 1..Len(workList) : workList[i] # item
        /\ item = last \/ \E i \in 1..Len(workList) : workList[i] = last
        /\ UNCHANGED <<workList, last>>
    BY <1>0, <1>7 DEF FreeConnection, Purged, ItemClosed
  <2>2. QED
    BY <1>0, <2>1 DEF WorkClosed, ItemClosed, AfterItem
<1>8. CASE RetryItem
  <2>1. /\ item \in Conns /\ conn[item] = "closed" /\ cpc' = AfterItem
        /\ \A i \in 1..Len(workList) : workList[i] # item
        /\ item = last \/ \E i \in 1..Len(workList) : workList[i] = last
        /\ last' = last
    BY <1>0, <1>8 DEF RetryItem, ItemClosed
  <2>2. CASE workList' = Append(workList, item) /\ conn' = conn
    <3>1. /\ Len(workList') = Len(workList) + 1 /\ Len(workList) \in Nat
          /\ workList'[Len(workList) + 1] = item
          /\ \A i \in 1..Len(workList) : workList'[i] = workList[i]
      BY <1>0, <2>1, <2>2
    <3>2. WorkClosed'
      BY <1>0, <2>1, <2>2, <3>1 DEF WorkClosed
    <3>3. ItemClosed'
      BY <2>1, <3>1 DEF ItemClosed, AfterItem
    <3>4. QED
      BY <3>2, <3>3
  <2>3. CASE workList' = workList /\ conn' = [conn EXCEPT ![item] = "abandoned"]
    BY <1>0, <2>1, <2>3 DEF WorkClosed, ItemClosed, AfterItem
  <2>4. QED
    BY <1>8, <2>2, <2>3 DEF RetryItem
<1>9. CASE UNCHANGED <<connVars, cleanerVars>>
  BY <1>0, <1>9 DEF WorkClosed, ItemClosed
<1>10. QED
  BY <1>1, <1>2, <1>3, <1>4, <1>6, <1>7, <1>8, <1>9, StepCases DEF CleanupThread

\* Every step keeps the purge with bases that nobody but the item points to.
LEMMA PurgeStep ==
    ConnectionInv /\ [ConnectionNext]_allVars => PurgedIsReleased'
<1> SUFFICES ASSUME ConnectionInv, [ConnectionNext]_allVars, cpc' = "purge"
             PROVE  PurgedIsReleased'
  BY DEF PurgedIsReleased
<1> USE DEF connVars, cleanerVars, Working
<1>0. /\ procBase \in [Conns -> ProcBases \cup {NoBase}]
      /\ table \in ProcBases \cup {NoBase}
      /\ ProcessCounted /\ ItemClosed /\ PurgedIsReleased
  BY DEF ConnectionInv, ConnectionTypeOK
<1>1. ASSUME NEW c \in Conns, Connect(c) PROVE PurgedIsReleased'
  <2>1. PICK p \in ProcBases :
            /\ (table = NoBase /\ p \notin procLive) \/ table = p
            /\ table' = p /\ procBase' = [procBase EXCEPT ![c] = p]
    BY <1>1 DEF Connect
  <2>2. /\ item \in Conns /\ item # c /\ cpc = "purge"
        /\ UNCHANGED <<cpc, item, purging>>
    BY <1>0, <1>1 DEF Connect, ItemClosed
  <2>3. CASE purging = item /\ procBase[item] = NoBase
    BY <1>0, <2>1, <2>2, <2>3 DEF PurgedIsReleased
  <2>4. CASE purging \in ProcBases /\ purging # table /\ Refs(purging) = {item}
    <3>1. purging \in procLive
      BY <1>0, <2>2, <2>4, ConstantFacts DEF Refs, ProcessCounted
    <3>2. purging # p
      BY <2>1, <2>4, <3>1
    <3>3. Refs(purging)' = {item}
      BY <1>0, <2>1, <2>2, <2>4, <3>2 DEF Refs
    <3>4. QED
      BY <2>1, <2>2, <2>4, <3>2, <3>3 DEF PurgedIsReleased
  <2>5. QED
    BY <1>0, <2>2, <2>3, <2>4 DEF PurgedIsReleased
<1>2. CASE ReleaseProcessBase
  <2>1. CASE procRefs'[procBase[item]] = 0
    <3>1. /\ procBase[item] = table /\ table \in ProcBases /\ Refs(table) = {item}
      BY <1>2, <2>1, LastReference
    <3>2. table' = NoBase /\ purging' = table /\ UNCHANGED <<procBase, item>>
      BY <1>2, <2>1, <3>1 DEF ReleaseProcessBase
    <3>3. QED
      BY <3>1, <3>2, ConstantFacts DEF PurgedIsReleased, Refs
  <2>2. CASE procRefs'[procBase[item]] # 0
    <3>1. item \in Conns
      BY <1>0, <1>2 DEF ReleaseProcessBase, ItemClosed
    <3>2. procBase' = [procBase EXCEPT ![item] = NoBase] /\ purging' = item /\ item' = item
      BY <1>2, <2>2 DEF ReleaseProcessBase
    <3>3. QED
      BY <1>0, <3>1, <3>2 DEF PurgedIsReleased
  <2>3. QED
    BY <2>1, <2>2
<1>3. CASE SkipProcessBase
  BY <1>0, <1>3 DEF SkipProcessBase, PurgedIsReleased
<1>4. CASE FreeProcessBase
  <2>1. item \in Conns
    BY <1>0, <1>4 DEF FreeProcessBase, Purged, ItemClosed
  <2>2. QED
    BY <1>0, <1>4, <2>1 DEF FreeProcessBase, PurgedIsReleased
<1>5. ASSUME UNCHANGED <<procBase, table, cpc, item, purging>> PROVE PurgedIsReleased'
  BY <1>0, <1>5 DEF PurgedIsReleased, Refs
<1>6. ASSUME \/ \E c \in Conns : Disconnect(c)
             \/ \E h \in Handles : FreeHandleData(h)
             \/ UNCHANGED <<connVars, cleanerVars>>
      PROVE  PurgedIsReleased'
  BY <1>5, <1>6 DEF Disconnect, FreeHandleData
<1>7. /\ ~StartPass /\ ~PopWork /\ ~FreeConnection /\ ~RetryItem
      /\ \A h \in Handles : ~FreeHandleDataRetry(h)
  BY DEF StartPass, PopWork, FreeHandleDataRetry, FreeConnection, RetryItem, AfterItem
<1>8. QED
  BY <1>1, <1>2, <1>3, <1>4, <1>6, <1>7, StepCases DEF CleanupThread

-----------------------------------------------------------------------------
(* The bridge calls and the handles.                                       *)

\* A connection stays open until it is disconnected, and keeps its process base.
LEMMA OpenStep ==
    ASSUME ConnectionInv, [ConnectionNext]_allVars, NEW c \in Conns, conn[c] = "open"
    PROVE  procBase'[c] = procBase[c] /\ (conn'[c] = "open" \/ Disconnect(c))
<1> USE DEF connVars, cleanerVars
<1>0. /\ conn \in [Conns -> {"none", "open", "closed", "freed", "abandoned"}]
      /\ procBase \in [Conns -> ProcBases \cup {NoBase}]
      /\ cpc \in Working => item \in Conns /\ item # c
  BY DEF ConnectionInv, ConnectionTypeOK, ItemClosed
<1>1. CASE \E d \in Conns : Connect(d)
  BY <1>0, <1>1 DEF Connect
<1>2. CASE \E d \in Conns : Disconnect(d)
  BY <1>0, <1>2 DEF Disconnect
<1>3. CASE ReleaseProcessBase \/ FreeProcessBase
  BY <1>0, <1>3 DEF ReleaseProcessBase, FreeProcessBase, Purged, Working
<1>4. CASE FreeConnection \/ RetryItem
  BY <1>0, <1>4 DEF FreeConnection, RetryItem, Purged, Working
<1>5. CASE UNCHANGED <<conn, procBase>>
  BY <1>5
<1>6. ASSUME \/ StartPass \/ PopWork \/ SkipProcessBase
             \/ \E h \in Handles : FreeHandleData(h) \/ FreeHandleDataRetry(h)
             \/ UNCHANGED <<connVars, cleanerVars>>
      PROVE  UNCHANGED <<conn, procBase>>
  BY <1>6 DEF StartPass, PopWork, SkipProcessBase, FreeHandleData,
              FreeHandleDataRetry
<1>7. QED
  BY <1>1, <1>2, <1>3, <1>4, <1>5, <1>6, StepCases DEF CleanupThread

\* A base comes into use by a new connection, and is empty then.
LEMMA InUseStep ==
    ASSUME ConnectionInv, [ConnectionNext]_allVars, NEW b \in Bases, InUse(b)'
    PROVE  InUse(b) \/ \A h \in Handles : base[h] # b /\ base'[h] # b
<1> USE DEF connVars, cleanerVars
<1>0. /\ conn \in [Conns -> {"none", "open", "closed", "freed", "abandoned"}]
      /\ table \in ProcBases \cup {NoBase}
      /\ BasesExist
      /\ cpc \in Working => item \in Conns
  BY DEF ConnectionInv, ConnectionTypeOK, ItemClosed
<1>1. ASSUME NEW c \in Conns, Connect(c)
      PROVE  InUse(b) \/ \A h \in Handles : base[h] # b /\ base'[h] # b
  <2>1. PICK p \in ProcBases : ((table = NoBase /\ p \notin procLive) \/ table = p) /\ table' = p
    BY <1>1 DEF Connect
  <2>2. /\ conn[c] \in {"none", "freed"} /\ conn' = [conn EXCEPT ![c] = "open"]
        /\ base' = base
    BY <1>1 DEF Connect, vars, handleVars
  <2>3. \/ InUse(b) \/ b = c
        \/ b = p /\ p \notin procLive
    BY <1>0, <2>1, <2>2, ConstantFacts DEF InUse
  <2>4. QED
    BY <1>0, <2>2, <2>3 DEF BasesExist
<1>2. CASE \E d \in Conns : Disconnect(d)
  BY <1>0, <1>2 DEF Disconnect, InUse
<1>3. CASE ReleaseProcessBase \/ FreeProcessBase
  BY <1>0, <1>3, ConstantFacts DEF ReleaseProcessBase, FreeProcessBase, InUse
<1>4. CASE FreeConnection \/ RetryItem
  BY <1>0, <1>4 DEF FreeConnection, RetryItem, Purged, Working, InUse
<1>5. CASE UNCHANGED <<conn, table>>
  BY <1>5 DEF InUse
<1>6. ASSUME \/ StartPass \/ PopWork \/ SkipProcessBase
             \/ \E h \in Handles : FreeHandleData(h) \/ FreeHandleDataRetry(h)
             \/ UNCHANGED <<connVars, cleanerVars>>
      PROVE  UNCHANGED <<conn, table>>
  BY <1>6 DEF StartPass, PopWork, SkipProcessBase, FreeHandleData,
              FreeHandleDataRetry
<1>7. QED
  BY <1>1, <1>2, <1>3, <1>4, <1>5, <1>6, StepCases DEF CleanupThread

\* What a step may do to the handles and the calls.
LEMMA HandleCases ==
    ASSUME ConnectionInv, [ConnectionNext]_allVars
    PROVE  \/ \E t \in Threads : BridgeCall(t)
           \/ \E h \in Handles : FreeHandleData(h)
           \/ UNCHANGED <<base, canLookup, lookups, object, callVars, leaked>>
BY DEF ConnectionNext, CleanupThread, Firmware, allVars, vars, handleVars, callVars,
       Connect, Disconnect, StartPass, PopWork, ReleaseProcessBase, SkipProcessBase,
       FreeHandleDataRetry, FreeProcessBase, FreeConnection, RetryItem, GpuFinishes,
       connVars, cleanerVars

\* The handle of a call is in a base in use, together with its parent.
LEMMA CallIs ==
    ASSUME ConnectionInv, NEW t \in Threads, pc[t] # "idle"
    PROVE  /\ on[t] \in Handles /\ InUse(base[on[t]])
           /\ base[Owner(on[t])] = base[on[t]] /\ Exists(on[t])
           /\ pc[t] \in Destroying => Owner(on[t]) = on[t]
<1>1. on[t] \in Handles /\ conn[ConnOf[t]] = "open" /\ Within(t, on[t])
  BY DEF ConnectionInv, CallsOpen, Within
<1>2. InUse(base[on[t]])
  BY <1>1, InUseIs, ConstantFacts DEF Within
<1>3. Exists(on[t])
  BY <1>2, ConstantFacts DEF InUse, Exists
<1>4. pc[t] \in Destroying => Owner(on[t]) = on[t]
  BY <1>1, OwnerIs DEF ConnectionInv, CallsOpen
<1>5. QED
  BY <1>1, <1>2, <1>3, <1>4 DEF ConnectionInv, CellsWhole

\* Nobody has a cell of an object that is about to be made or destroyed.
LEMMA NobodyElse ==
    ASSUME ConnectionInv, NEW k \in Handles, NEW u \in Threads, pc[u] # "idle",
           on[u] = k
    PROVE  /\ Exists(Owner(k))
           /\ \A t \in Threads : pc[t] \in Destroying /\ Owner(k) = on[t] => u = t
<1>1. Exists(Owner(k)) /\ (pc[u] \in Destroying => Owner(k) = k)
  BY CallIs DEF Exists
<1>2. ASSUME NEW t \in Threads, pc[t] \in Destroying, Owner(k) = on[t]
      PROVE  u = t
  <2>1. Users(k) = {}
    BY <1>2 DEF ConnectionInv, DestroyedAlone
  <2>2. pc[u] \in Destroying
    <3>1. pc[u] # "using"
      BY <2>1 DEF Users
    <3>2. QED
      BY <3>1 DEF ConnectionInv, ConnectionTypeOK, TypeOK, Destroying
  <2>3. QED
    BY <1>1, <1>2, <2>2 DEF ConnectionInv, DestroyedAlone
<1>3. QED
  BY <1>1, <1>2

\* A sub-handle and its parent are made and destroyed together.
LEMMA CellsTogether ==
    ASSUME NEW r \in Handles, Parent[r] = NoHandle, NEW k \in Handles
    PROVE  k \in {r} \cup Children(r) <=> Owner(k) = r
BY OwnerIs

\* Every step keeps bridge calls with handles of open connections.
LEMMA CallsStep == ConnectionInv /\ [ConnectionNext]_allVars => CallsOpen'
<1> SUFFICES ASSUME ConnectionInv, [ConnectionNext]_allVars, NEW u \in Threads
             PROVE  /\ pc'[u] # "idle" =>
                          /\ on'[u] \in Handles /\ conn'[ConnOf[u]] = "open"
                          /\ base'[on'[u]] \in {ConnOf[u], procBase'[ConnOf[u]]}
                    /\ pc'[u] \in Destroying => Parent[on'[u]] = NoHandle
  BY DEF CallsOpen
<1> USE DEF callVars, Destroying
<1>0. /\ base \in [Handles -> Bases \cup {NoBase}]
      /\ pc \in [Threads -> {"idle", "using", "releasing", "destroying"}]
      /\ on \in [Threads -> Handles \cup {NoHandle}]
      /\ CallsOpen /\ ConnOf[u] \in Conns
  BY ConstantFacts DEF ConnectionInv, ConnectionTypeOK, TypeOK
<1>1. CASE UNCHANGED <<base, canLookup, lookups, object, callVars, leaked>>
  <2>1. ASSUME pc[u] # "idle"
        PROVE  conn'[ConnOf[u]] = "open" /\ procBase'[ConnOf[u]] = procBase[ConnOf[u]]
    BY <1>0, <2>1, OpenStep DEF CallsOpen, Disconnect
  <2>2. QED
    BY <1>0, <1>1, <2>1 DEF CallsOpen
<1>2. ASSUME NEW h \in Handles, FreeHandleData(h)
      PROVE  /\ pc'[u] # "idle" =>
                   /\ on'[u] \in Handles /\ conn'[ConnOf[u]] = "open"
                   /\ base'[on'[u]] \in {ConnOf[u], procBase'[ConnOf[u]]}
             /\ pc'[u] \in Destroying => Parent[on'[u]] = NoHandle
  <2>1. pc[u] # "idle" => on[u] # h
    BY <1>2, CallIs, InUseIs DEF FreeHandleData, NextToFree
  <2>2. QED
    BY <1>0, <1>2, <2>1 DEF FreeHandleData, CallsOpen
<1>3. ASSUME NEW t \in Threads, BridgeCall(t)
      PROVE  /\ pc'[u] # "idle" =>
                   /\ on'[u] \in Handles /\ conn'[ConnOf[u]] = "open"
                   /\ base'[on'[u]] \in {ConnOf[u], procBase'[ConnOf[u]]}
             /\ pc'[u] \in Destroying => Parent[on'[u]] = NoHandle
  <2>0. conn[ConnOf[t]] = "open" /\ UNCHANGED <<conn, procBase>>
    BY <1>3, BridgeCases DEF connVars
  <2>1. ASSUME NEW h \in Handles, Within(t, h), LookupHandle(t, h) \/ MarkForFree(t, h)
        PROVE  /\ base' = base
               /\ \/ UNCHANGED <<pc, on>>
                  \/ /\ on' = [on EXCEPT ![t] = h]
                     /\ pc' = [pc EXCEPT ![t] = "using"] \/ Parent[h] = NoHandle
                     /\ \/ pc' = [pc EXCEPT ![t] = "using"]
                        \/ pc' = [pc EXCEPT ![t] = "releasing"]
    BY <2>1 DEF LookupHandle, MarkForFree, Call
  <2>2. CASE \E h \in Handles : Within(t, h) /\ (LookupHandle(t, h) \/ MarkForFree(t, h))
    BY <1>0, <2>0, <2>1, <2>2 DEF CallsOpen, Within
  <2>3. CASE Kick(t)
    BY <1>0, <2>0, <2>3 DEF Kick, CallsOpen
  <2>4. CASE ReleaseHandle(t) \/ FreePrivDataRetry(t)
    BY <1>0, <2>0, <2>4 DEF ReleaseHandle, FreePrivDataRetry, Call, CallsOpen
  <2>5. CASE FreePrivData(t)
    BY <1>0, <2>0, <2>5 DEF FreePrivData, Call, CallsOpen
  <2>6. CASE FreeDestroy(t)
    <3>1. u # t /\ pc[u] # "idle" => Owner(on[u]) # on[t]
      BY <1>0, <2>6, NobodyElse, CallIs DEF FreeDestroy
    <3>2. QED
      BY <1>0, <2>0, <2>6, <3>1 DEF FreeDestroy, Call, CallsOpen
  <2>7. ASSUME NEW h \in Handles, NEW b \in Bases, Creates(t, h, b)
        PROVE  /\ UNCHANGED callVars
               /\ pc[u] # "idle" => base'[on[u]] = base[on[u]]
    <3>1. AllocHandle(h, b) /\ UNCHANGED callVars
      BY <2>7, CreateCases
    <3>2. ~Exists(h) /\ Parent[h] = NoHandle
          /\ base' = [k \in Handles |-> IF k \in {h} \cup Children(h) THEN b ELSE base[k]]
      BY <3>1 DEF AllocHandle
    <3>3. pc[u] # "idle" => on[u] \notin {h} \cup Children(h) /\ on[u] \in Handles
      BY <3>2, NobodyElse, CallIs, CellsTogether
    <3>4. QED
      BY <3>1, <3>2, <3>3
  <2>8. CASE \E h \in Handles, b \in Bases : Creates(t, h, b)
    BY <1>0, <2>0, <2>7, <2>8 DEF CallsOpen
  <2>9. QED
    BY <1>3, <2>2, <2>3, <2>4, <2>5, <2>6, <2>8, BridgeCases
<1>4. QED
  BY <1>1, <1>2, <1>3, HandleCases

\* What the steps of a call do to the users of a handle.
LEMMA UsersMoved ==
    ASSUME NEW t \in Threads, NEW h, NEW where, Call(t, where, h),
           pc \in [Threads -> {"idle", "using", "releasing", "destroying"}],
           on \in [Threads -> Handles \cup {NoHandle}]
    PROVE  \A k \in Handles :
               /\ Users(k)' = IF where = "using" /\ h = k THEN Users(k) \cup {t}
                                                          ELSE Users(k) \ {t}
               /\ pc[t] # "using" => t \notin Users(k) /\ Users(k) \ {t} = Users(k)
<1>1. \A k \in Handles : Users(k)' = IF where = "using" /\ h = k
                                      THEN Users(k) \cup {t} ELSE Users(k) \ {t}
  BY DEF Call, Users
<1>2. \A k \in Handles : pc[t] # "using" => t \notin Users(k) /\ Users(k) \ {t} = Users(k)
  BY DEF Users
<1>3. QED
  BY <1>1, <1>2

\* Every step keeps iLookupCount the number of users.
LEMMA LookupsStep == ConnectionInv /\ [ConnectionNext]_allVars => LookupsCounted'
<1> SUFFICES ASSUME ConnectionInv, [ConnectionNext]_allVars, NEW k \in Handles
             PROVE  IsFiniteSet(Users(k))' /\ lookups'[k] = Cardinality(Users(k)')
  BY DEF LookupsCounted
<1> USE DEF callVars
<1>0. /\ lookups \in [Handles -> Nat]
      /\ pc \in [Threads -> {"idle", "using", "releasing", "destroying"}]
      /\ on \in [Threads -> Handles \cup {NoHandle}]
      /\ IsFiniteSet(Users(k)) /\ lookups[k] = Cardinality(Users(k))
  BY DEF ConnectionInv, ConnectionTypeOK, TypeOK, LookupsCounted
<1>1. ASSUME Users(k)' = Users(k), lookups'[k] = lookups[k]
      PROVE  IsFiniteSet(Users(k))' /\ lookups'[k] = Cardinality(Users(k)')
  BY <1>0, <1>1
<1>2. CASE UNCHANGED <<base, canLookup, lookups, object, callVars, leaked>>
  BY <1>1, <1>2 DEF Users
<1>3. ASSUME NEW h \in Handles, FreeHandleData(h)
      PROVE  IsFiniteSet(Users(k))' /\ lookups'[k] = Cardinality(Users(k)')
  BY <1>1, <1>3 DEF FreeHandleData, Users
<1>4. ASSUME NEW t \in Threads, BridgeCall(t)
      PROVE  IsFiniteSet(Users(k))' /\ lookups'[k] = Cardinality(Users(k)')
  <2>1. ASSUME NEW h \in Handles, LookupHandle(t, h)
        PROVE  IsFiniteSet(Users(k))' /\ lookups'[k] = Cardinality(Users(k)')
    <3>1. /\ pc[t] = "idle" /\ Call(t, "using", h)
          /\ lookups' = [lookups EXCEPT ![h] = @ + 1]
      BY <2>1 DEF LookupHandle
    <3>2. /\ t \notin Users(k) /\ Users(k) \ {t} = Users(k)
          /\ Users(k)' = IF h = k THEN Users(k) \cup {t} ELSE Users(k) \ {t}
      <4>1. t \notin Users(k) /\ Users(k) \ {t} = Users(k)
        BY <3>1 DEF Users
      <4>2. Users(k)' = IF "using" = "using" /\ h = k THEN Users(k) \cup {t}
                                                    ELSE Users(k) \ {t}
        BY <1>0, <3>1, UsersMoved
      <4>3. QED
        BY <4>1, <4>2
    <3>3. /\ IsFiniteSet(Users(k) \cup {t})
          /\ Cardinality(Users(k) \cup {t}) = Cardinality(Users(k)) + 1
      BY <1>0, <3>2, FS_AddElement
    <3>4. lookups'[k] = IF h = k THEN lookups[k] + 1 ELSE lookups[k]
      BY <1>0, <3>1
    <3>5. QED
      BY <1>0, <3>2, <3>3, <3>4
  <2>2. CASE ReleaseHandle(t)
    <3>1. /\ pc[t] = "using" /\ Call(t, "idle", NoHandle)
          /\ lookups' = [lookups EXCEPT ![on[t]] = @ - 1]
      BY <2>2 DEF ReleaseHandle
    <3>2. (t \in Users(k) <=> on[t] = k) /\ Users(k)' = Users(k) \ {t}
      <4>1. t \in Users(k) <=> on[t] = k
        BY <3>1 DEF Users
      <4>2. QED
        BY <1>0, <3>1, <4>1, UsersMoved
    <3>3. /\ IsFiniteSet(Users(k) \ {t})
          /\ Cardinality(Users(k) \ {t}) = IF t \in Users(k) THEN Cardinality(Users(k)) - 1
                                                          ELSE Cardinality(Users(k))
      BY <1>0, FS_RemoveElement
    <3>4. QED
      BY <1>0, <3>1, <3>2, <3>3
  <2>3. ASSUME pc[t] # "using", NEW where \in {"idle", "releasing", "destroying"},
               NEW h, Call(t, where, h), UNCHANGED lookups
        PROVE  IsFiniteSet(Users(k))' /\ lookups'[k] = Cardinality(Users(k)')
    <3>1. Users(k)' = Users(k)
      BY <1>0, <2>3, UsersMoved
    <3>2. QED
      BY <1>1, <2>3, <3>1
  <2>4. ASSUME UNCHANGED <<lookups, callVars>>
        PROVE  IsFiniteSet(Users(k))' /\ lookups'[k] = Cardinality(Users(k)')
    BY <1>1, <2>4 DEF Users
  <2>5. ASSUME NEW h \in Handles, MarkForFree(t, h)
        PROVE  IsFiniteSet(Users(k))' /\ lookups'[k] = Cardinality(Users(k)')
    <3>1. Call(t, "releasing", h) \/ UNCHANGED callVars
      BY <2>5 DEF MarkForFree
    <3>2. UNCHANGED lookups /\ pc[t] # "using"
      BY <2>5 DEF MarkForFree
    <3>3. QED
      BY <2>3, <2>4, <3>1, <3>2
  <2>6. CASE FreePrivData(t) \/ FreePrivDataRetry(t) \/ FreeDestroy(t)
    BY <2>3, <2>6 DEF FreePrivData, FreePrivDataRetry, FreeDestroy
  <2>7. CASE Kick(t)
    BY <2>4, <2>7 DEF Kick
  <2>8. ASSUME NEW h \in Handles, NEW b \in Bases, Creates(t, h, b)
        PROVE  IsFiniteSet(Users(k))' /\ lookups'[k] = Cardinality(Users(k)')
    <3>1. AllocHandle(h, b) /\ UNCHANGED callVars
      BY <2>8, CreateCases
    <3>2. /\ ~Exists(h) /\ Parent[h] = NoHandle
          /\ lookups' = [j \in Handles |-> IF j \in {h} \cup Children(h) THEN 0
                                                                        ELSE lookups[j]]
      BY <3>1 DEF AllocHandle
    <3>3. k \in {h} \cup Children(h) => Users(k) = {}
      BY <3>2, NobodyElse, CellsTogether DEF Users
    <3>4. lookups'[k] = lookups[k]
      BY <1>0, <3>2, <3>3, FS_EmptySet
    <3>5. QED
      BY <1>1, <3>1, <3>4 DEF Users
  <2>9. QED
    BY <1>4, <2>1, <2>2, <2>5, <2>6, <2>7, <2>8, BridgeCases
<1>5. QED
  BY <1>2, <1>3, <1>4, HandleCases

\* Every step keeps whoever destroys a handle alone with it.
LEMMA DestroyedStep == ConnectionInv /\ [ConnectionNext]_allVars => DestroyedAlone'
<1> SUFFICES ASSUME ConnectionInv, [ConnectionNext]_allVars PROVE DestroyedAlone'
  OBVIOUS
<1> USE DEF callVars, Destroying
<1>0. /\ canLookup \in [Handles -> BOOLEAN] /\ lookups \in [Handles -> Nat]
      /\ object \in [Handles -> {"none", "live", "freed"}]
      /\ pc \in [Threads -> {"idle", "using", "releasing", "destroying"}]
      /\ on \in [Threads -> Handles \cup {NoHandle}]
      /\ DestroyedAlone
  BY DEF ConnectionInv, ConnectionTypeOK, TypeOK
<1>1. CASE UNCHANGED <<base, canLookup, lookups, object, callVars, leaked>>
  BY <1>0, <1>1 DEF DestroyedAlone, Users
<1>2. ASSUME NEW h \in Handles, FreeHandleData(h) PROVE DestroyedAlone'
  <2>1. \A t \in Threads : object[on[t]] = "freed" => object'[on[t]] = "freed"
    BY <1>0, <1>2 DEF FreeHandleData
  <2>2. UNCHANGED <<canLookup, callVars>>
    BY <1>2 DEF FreeHandleData
  <2>3. QED
    BY <1>0, <2>1, <2>2 DEF DestroyedAlone, Users
<1>3. ASSUME NEW t \in Threads, BridgeCall(t) PROVE DestroyedAlone'
  <2>1. ASSUME NEW h \in Handles, LookupHandle(t, h) PROVE DestroyedAlone'
    <3>1. /\ pc[t] = "idle" /\ canLookup[h] /\ Call(t, "using", h)
          /\ UNCHANGED <<canLookup, object>>
      BY <2>1 DEF LookupHandle
    <3>2. \A u \in Threads : pc'[u] \in Destroying =>
              pc[u] \in Destroying /\ pc'[u] = pc[u] /\ on'[u] = on[u]
      BY <1>0, <3>1 DEF Call
    <3>3. \A k \in Handles : k # h => Users(k)' = Users(k) \ {t}
      BY <1>0, <3>1, UsersMoved
    <3>4. QED
      BY <1>0, <3>1, <3>2, <3>3 DEF DestroyedAlone
  <2>2. ASSUME NEW h \in Handles, MarkForFree(t, h) PROVE DestroyedAlone'
    <3>1. PICK marked \in SUBSET Children(h) :
              /\ \A s \in marked : MayBeMarked(s)
              /\ canLookup' = [k \in Handles |-> k \notin {h} \cup marked /\ canLookup[k]]
              /\ \/ marked = Children(h) /\ Call(t, "releasing", h)
                 \/ UNCHANGED callVars
      BY <2>2 DEF MarkForFree
    <3>2. /\ pc[t] = "idle" /\ Parent[h] = NoHandle /\ MayBeMarked(h)
          /\ UNCHANGED object
      BY <2>2 DEF MarkForFree
    <3>3. \A k \in Handles : Users(k)' = Users(k)
      <4>1. CASE UNCHANGED callVars
        BY <4>1 DEF Users
      <4>2. CASE Call(t, "releasing", h)
        <5> SUFFICES ASSUME NEW k \in Handles PROVE Users(k)' = Users(k)
          OBVIOUS
        <5>1. Users(k)' = Users(k) \ {t}
          BY <1>0, <4>2, UsersMoved
        <5>2. Users(k) \ {t} = Users(k)
          BY <3>2 DEF Users
        <5>3. QED
          BY <5>1, <5>2
      <4>3. QED
        BY <3>1, <4>1, <4>2
    <3>4. \A k \in Handles : canLookup'[k] => canLookup[k]
      BY <1>0, <3>1
    <3>5. CASE UNCHANGED callVars
      BY <1>0, <3>2, <3>3, <3>4, <3>5 DEF DestroyedAlone
    <3>6. CASE marked = Children(h) /\ Call(t, "releasing", h)
      <4>1. \A k \in Handles : Owner(k) = h => ~canLookup'[k] /\ Users(k)' = {}
        <5> SUFFICES ASSUME NEW k \in Handles, Owner(k) = h
                     PROVE  ~canLookup'[k] /\ Users(k) = {}
          BY <3>3
        <5>1. k \in {h} \cup Children(h)
          BY <3>2, CellsTogether
        <5>2. lookups[k] = 0
          BY <3>1, <3>2, <3>6, <5>1 DEF MayBeMarked
        <5>3. Users(k) = {}
          BY <5>2, FS_EmptySet DEF ConnectionInv, LookupsCounted
        <5>4. QED
          BY <3>1, <3>6, <5>1, <5>3
      <4>2. \A u \in Threads : pc[u] \in Destroying => on[u] # h
        <5>1. Owner(h) = h /\ canLookup[h]
          BY <3>2, OwnerIs DEF MayBeMarked
        <5>2. QED
          BY <1>0, <5>1 DEF DestroyedAlone
      <4>3. /\ pc'[t] = "releasing" /\ on'[t] = h
            /\ \A u \in Threads : u # t => pc'[u] = pc[u] /\ on'[u] = on[u]
        BY <1>0, <3>6 DEF Call
      <4>4. QED
        BY <1>0, <3>2, <3>3, <3>4, <4>1, <4>2, <4>3 DEF DestroyedAlone
    <3>7. QED
      BY <3>1, <3>5, <3>6
  <2>3. CASE Kick(t)
    BY <1>0, <2>3 DEF Kick, DestroyedAlone, Users
  <2>4. ASSUME NEW where \in {"idle", "destroying"}, NEW h, Call(t, where, h),
               \A u \in Threads : u # t /\ pc[u] \in Destroying =>
                   /\ \A k \in Handles : Owner(k) = on[u] => canLookup'[k] = canLookup[k]
                   /\ object[on[u]] = "freed" => object'[on[u]] = "freed",
               where = "destroying" => /\ pc[t] = "releasing" /\ h = on[t]
                                       /\ UNCHANGED canLookup /\ object'[h] = "freed"
        PROVE  DestroyedAlone'
    <3>1. \A k \in Handles : Users(k)' = Users(k) \ {t}
      BY <1>0, <2>4, UsersMoved
    <3>2. /\ pc'[t] = where /\ on'[t] = h
          /\ \A u \in Threads : u # t => pc'[u] = pc[u] /\ on'[u] = on[u]
      BY <1>0, <2>4 DEF Call
    <3>3. QED
      BY <1>0, <2>4, <3>1, <3>2 DEF DestroyedAlone
  <2>5. CASE ReleaseHandle(t) \/ FreeDestroy(t)
    BY <2>4, <2>5 DEF ReleaseHandle, FreeDestroy
  <2>6. CASE FreePrivData(t)
    <3>1. /\ pc[t] = "releasing" /\ Call(t, "destroying", on[t])
          /\ object' = [object EXCEPT ![on[t]] = "freed"] /\ UNCHANGED canLookup
      BY <2>6 DEF FreePrivData
    <3>2. \A x \in Handles : object[x] = "freed" => object'[x] = "freed"
      BY <1>0, <3>1
    <3>3. object'[on[t]] = "freed" /\ \A u \in Threads : pc[u] \in Destroying => on[u] \in Handles
      BY <1>0, <3>1, CallIs
    <3>4. QED
      BY <2>4, <3>1, <3>2, <3>3
  <2>7. CASE FreePrivDataRetry(t)
    <3>1. /\ pc[t] = "releasing" /\ Call(t, "idle", NoHandle)
          /\ canLookup' = [canLookup EXCEPT ![on[t]] = TRUE] /\ UNCHANGED object
      BY <2>7 DEF FreePrivDataRetry
    <3>2. \A u \in Threads : u # t /\ pc[u] \in Destroying => on[u] # on[t]
      BY <1>0, <3>1 DEF DestroyedAlone
    <3>3. Owner(on[t]) = on[t]
      BY <3>1, CallIs
    <3>4. QED
      BY <1>0, <2>4, <3>1, <3>2, <3>3
  <2>8. ASSUME NEW h \in Handles, NEW b \in Bases, Creates(t, h, b) PROVE DestroyedAlone'
    <3>1. AllocHandle(h, b) /\ UNCHANGED callVars
      BY <2>8, CreateCases
    <3>2. /\ ~Exists(h) /\ Parent[h] = NoHandle
          /\ canLookup' = [k \in Handles |-> k \in {h} \cup Children(h) \/ canLookup[k]]
          /\ object' = [object EXCEPT ![h] = "live"]
      BY <3>1 DEF AllocHandle
    <3>3. \A u \in Threads : pc[u] \in Destroying => on[u] # h /\ on[u] \in Handles
      BY <3>2, CallIs
    <3>4. \A u \in Threads : pc[u] \in Destroying =>
              /\ object'[on[u]] = object[on[u]]
              /\ \A k \in Handles : Owner(k) = on[u] => canLookup'[k] = canLookup[k]
      BY <1>0, <3>2, <3>3, CellsTogether
    <3>5. QED
      BY <1>0, <3>1, <3>4 DEF DestroyedAlone, Users
  <2>9. QED
    BY <1>3, <2>1, <2>2, <2>3, <2>5, <2>6, <2>7, <2>8, BridgeCases
<1>4. QED
  BY <1>1, <1>2, <1>3, HandleCases

\* Every step keeps sub-handles with their parents, and objects with handles, in
\* the bases in use.
LEMMA CellsStep == ConnectionInv /\ [ConnectionNext]_allVars => CellsWhole'
<1> SUFFICES ASSUME ConnectionInv, [ConnectionNext]_allVars, NEW h \in Handles,
                    InUse(base[h])'
             PROVE  /\ base'[Owner(h)] = base'[h]
                    /\ \/ object'[Owner(h)] = "live"
                       \/ \E t \in Threads : pc'[t] = "destroying" /\ on'[t] = Owner(h)
  BY DEF CellsWhole
<1> USE DEF callVars
<1> DEFINE r == Owner(h)
<1>0. /\ base \in [Handles -> Bases \cup {NoBase}]
      /\ object \in [Handles -> {"none", "live", "freed"}]
      /\ pc \in [Threads -> {"idle", "using", "releasing", "destroying"}]
      /\ on \in [Threads -> Handles \cup {NoHandle}]
      /\ CellsWhole
      /\ r \in Handles /\ Parent[r] = NoHandle /\ Owner(r) = r
  BY OwnerIs DEF ConnectionInv, ConnectionTypeOK, TypeOK
<1>1. PICK b \in Bases : b = base'[h] /\ InUse(b)
  <2>1. PICK b \in Bases : b = base'[h]
    BY ConstantFacts DEF InUse
  <2>2. InUse(b)'
    BY <2>1 DEF InUse
  <2>3. QED
    BY <2>1, <2>2, InUseStep
<1>2. ASSUME base[h] = b
      PROVE  /\ base[r] = b
             /\ object[r] = "live" \/ \E t \in Threads : pc[t] = "destroying" /\ on[t] = r
  BY <1>0, <1>1, <1>2 DEF CellsWhole
<1> HIDE DEF r
<1> SUFFICES /\ base'[r] = b
             /\ \/ object'[r] = "live"
                \/ \E t \in Threads : pc'[t] = "destroying" /\ on'[t] = r
  BY <1>1 DEF r
<1>3. ASSUME UNCHANGED <<base, object>>,
             \A t \in Threads : pc[t] = "destroying" => pc'[t] = pc[t] /\ on'[t] = on[t]
      PROVE  /\ base'[r] = b
             /\ \/ object'[r] = "live"
                \/ \E t \in Threads : pc'[t] = "destroying" /\ on'[t] = r
  BY <1>1, <1>2, <1>3
<1>4. CASE UNCHANGED <<base, canLookup, lookups, object, callVars, leaked>>
  BY <1>3, <1>4
<1>5. ASSUME NEW k \in Handles, FreeHandleData(k)
      PROVE  /\ base'[r] = b
             /\ \/ object'[r] = "live"
                \/ \E t \in Threads : pc'[t] = "destroying" /\ on'[t] = r
  <2>1. /\ base' = [base EXCEPT ![k] = NoBase] /\ base[k] = purging /\ cpc = "purge"
        /\ object' = object \/ object' = [object EXCEPT ![k] = "freed"]
        /\ UNCHANGED callVars
    BY <1>5 DEF FreeHandleData, NextToFree
  <2>2. h # k /\ base[h] = b
    BY <1>0, <1>1, <2>1, ConstantFacts
  <2>3. r # k
    BY <1>1, <1>2, <2>1, <2>2, InUseIs
  <2>4. QED
    BY <1>0, <1>2, <2>1, <2>2, <2>3
<1>6. ASSUME NEW t \in Threads, BridgeCall(t)
      PROVE  /\ base'[r] = b
             /\ \/ object'[r] = "live"
                \/ \E u \in Threads : pc'[u] = "destroying" /\ on'[u] = r
  <2>1. ASSUME NEW k \in Handles, LookupHandle(t, k) \/ MarkForFree(t, k)
        PROVE  /\ UNCHANGED <<base, object>>
               /\ \A u \in Threads : pc[u] = "destroying" => pc'[u] = pc[u] /\ on'[u] = on[u]
    BY <1>0, <2>1 DEF LookupHandle, MarkForFree, Call
  <2>2. CASE Kick(t) \/ ReleaseHandle(t) \/ FreePrivDataRetry(t)
    <3>1. UNCHANGED <<base, object>>
      BY <2>2 DEF Kick, ReleaseHandle, FreePrivDataRetry
    <3>2. \A u \in Threads : pc[u] = "destroying" => pc'[u] = pc[u] /\ on'[u] = on[u]
      BY <1>0, <2>2 DEF Kick, ReleaseHandle, FreePrivDataRetry, Call
    <3>3. QED
      BY <1>3, <3>1, <3>2
  <2>3. CASE FreePrivData(t)
    <3>1. /\ base' = base /\ object' = [object EXCEPT ![on[t]] = "freed"]
          /\ pc' = [pc EXCEPT ![t] = "destroying"] /\ on' = [on EXCEPT ![t] = on[t]]
      BY <2>3 DEF FreePrivData, Call
    <3>2. base[h] = b
      BY <1>1, <3>1
    <3>3. QED
      BY <1>0, <1>2, <3>1, <3>2
  <2>4. CASE FreeDestroy(t)
    <3>1. /\ base' = [k \in Handles |-> IF Owner(k) = on[t] THEN NoBase ELSE base[k]]
          /\ pc' = [pc EXCEPT ![t] = "idle"] /\ on' = [on EXCEPT ![t] = NoHandle]
          /\ UNCHANGED object
      BY <2>4 DEF FreeDestroy, Call
    <3>2. r # on[t] /\ base[h] = b
      BY <1>1, <3>1, ConstantFacts DEF r
    <3>3. base'[r] = b
      BY <1>0, <1>2, <3>1, <3>2
    <3>4. QED
      BY <1>0, <1>2, <3>1, <3>2, <3>3
  <2>5. ASSUME NEW k \in Handles, NEW c \in Bases, Creates(t, k, c)
        PROVE  /\ base'[r] = b
               /\ \/ object'[r] = "live"
                  \/ \E u \in Threads : pc'[u] = "destroying" /\ on'[u] = r
    <3>1. AllocHandle(k, c) /\ UNCHANGED callVars
      BY <2>5, CreateCases
    <3>2. /\ Parent[k] = NoHandle
          /\ base' = [j \in Handles |-> IF j \in {k} \cup Children(k) THEN c ELSE base[j]]
          /\ object' = [object EXCEPT ![k] = "live"]
      BY <3>1 DEF AllocHandle
    <3>3. CASE r = k
      <4>1. h \in {k} \cup Children(k)
        BY <3>2, <3>3, CellsTogether DEF r
      <4>2. QED
        BY <1>0, <1>1, <3>2, <3>3, <4>1
    <3>4. CASE r # k
      <4>1. h \notin {k} \cup Children(k) /\ r \notin {k} \cup Children(k)
        BY <1>0, <3>2, <3>4, CellsTogether DEF r
      <4>2. base'[r] = base[r] /\ base[h] = b /\ object'[r] = object[r]
        BY <1>0, <1>1, <3>2, <3>4, <4>1
      <4>3. QED
        BY <1>2, <3>1, <4>2
    <3>5. QED
      BY <3>3, <3>4
  <2>6. CASE \E k \in Handles : LookupHandle(t, k) \/ MarkForFree(t, k)
    BY <1>3, <2>1, <2>6
  <2>7. QED
    BY <1>6, <2>2, <2>3, <2>4, <2>5, <2>6, BridgeCases
<1>7. QED
  BY <1>4, <1>5, <1>6, HandleCases

\* Every step keeps handles in bases that exist.
LEMMA BasesStep == ConnectionInv /\ [ConnectionNext]_allVars => BasesExist'
<1> SUFFICES ASSUME ConnectionInv, [ConnectionNext]_allVars, NEW h \in Handles
             PROVE  /\ base'[h] \in Conns => conn'[base'[h]] \notin {"none", "freed"}
                    /\ base'[h] \in ProcBases => base'[h] \in procLive'
  BY DEF BasesExist
<1> USE DEF connVars, cleanerVars
<1>0. /\ base \in [Handles -> Bases \cup {NoBase}]
      /\ conn \in [Conns -> {"none", "open", "closed", "freed", "abandoned"}]
      /\ BasesExist
  BY DEF ConnectionInv, ConnectionTypeOK, TypeOK
<1>1. CASE \E c \in Conns : Connect(c) \/ Disconnect(c)
  <2>1. PICK c \in Conns : Connect(c) \/ Disconnect(c)
    BY <1>1
  <2>2. base' = base /\ procLive \subseteq procLive'
    BY <2>1 DEF Connect, Disconnect, vars, handleVars
  <2>3. conn' = [conn EXCEPT ![c] = "open"] \/ conn' = [conn EXCEPT ![c] = "closed"]
    BY <2>1 DEF Connect, Disconnect
  <2>4. QED
    BY <1>0, <2>2, <2>3 DEF BasesExist
<1>2. ASSUME NEW k \in Handles, FreeHandleData(k)
      PROVE  /\ base'[h] \in Conns => conn'[base'[h]] \notin {"none", "freed"}
             /\ base'[h] \in ProcBases => base'[h] \in procLive'
  <2>1. base'[h] = base[h] \/ base'[h] = NoBase
    BY <1>0, <1>2 DEF FreeHandleData
  <2>2. UNCHANGED <<conn, procLive>>
    BY <1>2 DEF FreeHandleData
  <2>3. QED
    BY <1>0, <2>1, <2>2, ConstantFacts DEF BasesExist
<1>3. CASE FreeProcessBase
  BY <1>0, <1>3 DEF FreeProcessBase, Purged, BasesExist, vars, handleVars
<1>4. CASE FreeConnection
  <2>1. item \in Conns
    BY <1>4 DEF FreeConnection, Purged, ConnectionInv, ItemClosed, Working
  <2>2. QED
    BY <1>0, <1>4, <2>1 DEF FreeConnection, Purged, BasesExist, vars, handleVars
<1>5. CASE RetryItem
  <2>1. base' = base /\ procLive' = procLive
    BY <1>5 DEF RetryItem, vars, handleVars
  <2>2. conn' = conn \/ conn' = [conn EXCEPT ![item] = "abandoned"]
    BY <1>5 DEF RetryItem
  <2>3. QED
    BY <1>0, <2>1, <2>2 DEF BasesExist
<1>6. ASSUME \/ StartPass \/ PopWork \/ ReleaseProcessBase \/ SkipProcessBase
             \/ \E k \in Handles : FreeHandleDataRetry(k)
      PROVE  UNCHANGED <<base, conn, procLive>>
  BY <1>6 DEF StartPass, PopWork, ReleaseProcessBase, SkipProcessBase,
              FreeHandleDataRetry, vars, handleVars
<1>7. ASSUME NEW t \in Threads, BridgeCall(t)
      PROVE  /\ base'[h] \in Conns => conn'[base'[h]] \notin {"none", "freed"}
             /\ base'[h] \in ProcBases => base'[h] \in procLive'
  <2>0. /\ conn[ConnOf[t]] = "open" /\ UNCHANGED <<conn, procLive>>
        /\ ConnOf[t] \in Conns
        /\ procBase[ConnOf[t]] \in ProcBases /\ procBase[ConnOf[t]] \in procLive
    BY <1>7, BridgeCases, ConstantFacts DEF ConnectionInv, ProcessCounted
  <2>1. base'[h] \in {base[h], NoBase, ConnOf[t], procBase[ConnOf[t]]}
    <3>1. ASSUME NEW k \in Handles, LookupHandle(t, k) \/ MarkForFree(t, k)
          PROVE  base' = base
      BY <3>1 DEF LookupHandle, MarkForFree
    <3>2. CASE Kick(t) \/ ReleaseHandle(t) \/ FreePrivData(t) \/ FreePrivDataRetry(t)
      BY <3>2 DEF Kick, ReleaseHandle, FreePrivData, FreePrivDataRetry
    <3>3. CASE FreeDestroy(t)
      BY <3>3 DEF FreeDestroy
    <3>4. ASSUME NEW k \in Handles, NEW b \in Bases, Creates(t, k, b)
          PROVE  base'[h] \in {base[h], ConnOf[t], procBase[ConnOf[t]]}
      <4>1. AllocHandle(k, b) /\ b \in {ConnOf[t], procBase[ConnOf[t]]}
        BY <3>4, CreateCases DEF Creates
      <4>2. QED
        BY <4>1 DEF AllocHandle
    <3>5. QED
      BY <1>7, <3>1, <3>2, <3>3, <3>4, BridgeCases
  <2>2. QED
    BY <1>0, <2>0, <2>1, ConstantFacts DEF BasesExist
<1>8. CASE Firmware \/ UNCHANGED allVars
  BY <1>0, <1>8 DEF Firmware, GpuFinishes, BasesExist, allVars, vars, handleVars
<1>9. QED
  BY <1>0, <1>1, <1>2, <1>3, <1>4, <1>5, <1>6, <1>7, <1>8
     DEF ConnectionNext, CleanupThread, BasesExist

\* Every step keeps a reason for each mark, and what leaked with sub-handles.
LEMMA MarkedStep == ConnectionInv /\ [ConnectionNext]_allVars => MarkedHasReason'
<1> SUFFICES ASSUME ConnectionInv, [ConnectionNext]_allVars PROVE MarkedHasReason'
  OBVIOUS
<1> USE DEF callVars
<1>0. /\ base \in [Handles -> Bases \cup {NoBase}]
      /\ canLookup \in [Handles -> BOOLEAN]
      /\ pc \in [Threads -> {"idle", "using", "releasing", "destroying"}]
      /\ on \in [Threads -> Handles \cup {NoHandle}]
      /\ leaked \subseteq Handles
      /\ MarkedHasReason
  BY DEF ConnectionInv, ConnectionTypeOK, TypeOK
<1>1. CASE UNCHANGED <<base, canLookup, lookups, object, callVars, leaked>>
  BY <1>0, <1>1 DEF MarkedHasReason, OnlyRefusedLeaks, Exists
<1>2. ASSUME NEW h \in Handles, FreeHandleData(h) PROVE MarkedHasReason'
  <2>1. /\ base' = [base EXCEPT ![h] = NoBase] /\ base[h] = purging /\ cpc = "purge"
        /\ \/ leaked' = leaked
           \/ leaked' = leaked \cup {h} /\ Parent[h] = NoHandle /\ ~canLookup[h]
        /\ UNCHANGED <<canLookup, callVars>>
    BY <1>2 DEF FreeHandleData, NextToFree, CallsBack
  <2>2. Exists(h) /\ ~InUse(base[h])
    BY <2>1, InUseIs, ConstantFacts DEF Exists
  <2>3. ~ \E t \in Threads : pc[t] \in Destroying /\ on[t] = h
    BY <2>2, CallIs DEF Destroying
  <2>4. OnlyRefusedLeaks'
    BY <1>0, <2>1, <2>2, <2>3 DEF MarkedHasReason, OnlyRefusedLeaks
  <2>5. \A k \in Handles : Exists(k)' => Exists(k)
    BY <1>0, <2>1 DEF Exists
  <2>6. QED
    BY <1>0, <2>1, <2>4, <2>5 DEF MarkedHasReason
<1>3. ASSUME NEW t \in Threads, BridgeCall(t) PROVE MarkedHasReason'
  <2>0. leaked' = leaked
    BY <1>3, BridgeCases DEF connVars
  <2>1. ASSUME \A k \in Handles : Exists(k)' /\ Parent[k] = NoHandle /\ ~canLookup'[k] =>
                   \/ Children(k) # {}
                   \/ \E u \in Threads : pc'[u] \in Destroying /\ on'[u] = k
        PROVE  MarkedHasReason'
    BY <1>0, <2>0, <2>1 DEF MarkedHasReason, OnlyRefusedLeaks
  <2>2. ASSUME UNCHANGED <<base, canLookup>>,
               \A u \in Threads : pc[u] \in Destroying => pc'[u] \in Destroying /\ on'[u] = on[u]
        PROVE  MarkedHasReason'
    <3>1. \A k \in Handles : Exists(k)' <=> Exists(k)
      BY <2>2 DEF Exists
    <3>2. QED
      BY <1>0, <2>1, <2>2, <3>1 DEF MarkedHasReason
  <2>3. ASSUME NEW h \in Handles, LookupHandle(t, h) PROVE MarkedHasReason'
    <3>1. UNCHANGED <<base, canLookup>>
      BY <2>3 DEF LookupHandle
    <3>2. \A u \in Threads : pc[u] \in Destroying => pc'[u] \in Destroying /\ on'[u] = on[u]
      BY <1>0, <2>3 DEF LookupHandle, Call, Destroying
    <3>3. QED
      BY <2>2, <3>1, <3>2
  <2>4. CASE Kick(t) \/ ReleaseHandle(t) \/ FreePrivData(t)
    <3>1. UNCHANGED <<base, canLookup>>
      BY <2>4 DEF Kick, ReleaseHandle, FreePrivData
    <3>2. \A u \in Threads : pc[u] \in Destroying => pc'[u] \in Destroying /\ on'[u] = on[u]
      BY <1>0, <2>4 DEF Kick, ReleaseHandle, FreePrivData, Call, Destroying
    <3>3. QED
      BY <2>2, <3>1, <3>2
  <2>5. ASSUME NEW h \in Handles, MarkForFree(t, h) PROVE MarkedHasReason'
    <3>1. PICK marked \in SUBSET Children(h) :
              /\ canLookup' = [k \in Handles |-> k \notin {h} \cup marked /\ canLookup[k]]
              /\ \/ Call(t, "releasing", h)
                 \/ UNCHANGED callVars /\ Children(h) \ marked # {}
      BY <2>5 DEF MarkForFree
    <3>2. pc[t] = "idle" /\ Parent[h] = NoHandle /\ base' = base
      BY <2>5 DEF MarkForFree
    <3>3. \A u \in Threads : pc[u] \in Destroying => pc'[u] \in Destroying /\ on'[u] = on[u]
      BY <1>0, <3>1, <3>2 DEF Call, Destroying
    <3>4. Children(h) # {} \/ (pc'[t] \in Destroying /\ on'[t] = h)
      BY <1>0, <3>1 DEF Call, Destroying
    <3>5. \A k \in Handles : Parent[k] = NoHandle /\ k # h => canLookup'[k] = canLookup[k]
      BY <1>0, <3>1, HandleBaseAssumption DEF Children
    <3>6. \A k \in Handles : Exists(k)' <=> Exists(k)
      BY <3>2 DEF Exists
    <3>7. QED
      BY <1>0, <2>1, <3>3, <3>4, <3>5, <3>6 DEF MarkedHasReason
  <2>6. CASE FreePrivDataRetry(t)
    <3>1. /\ canLookup' = [canLookup EXCEPT ![on[t]] = TRUE] /\ base' = base
          /\ pc' = [pc EXCEPT ![t] = "idle"] /\ on' = [on EXCEPT ![t] = NoHandle]
      BY <2>6 DEF FreePrivDataRetry, Call
    <3>2. on[t] \in Handles
      BY <2>6, CallIs DEF FreePrivDataRetry
    <3>3. QED
      BY <1>0, <2>1, <3>1, <3>2 DEF MarkedHasReason, Exists
  <2>7. CASE FreeDestroy(t)
    <3>1. /\ base' = [k \in Handles |-> IF Owner(k) = on[t] THEN NoBase ELSE base[k]]
          /\ canLookup' = canLookup
          /\ pc' = [pc EXCEPT ![t] = "idle"] /\ on' = [on EXCEPT ![t] = NoHandle]
      BY <2>7 DEF FreeDestroy, Call
    <3>2. \A k \in Handles : Exists(k)' /\ Parent[k] = NoHandle => Exists(k) /\ k # on[t]
      BY <3>1, OwnerIs DEF Exists
    <3>3. QED
      BY <1>0, <2>1, <3>1, <3>2 DEF MarkedHasReason
  <2>8. ASSUME NEW h \in Handles, NEW b \in Bases, Creates(t, h, b) PROVE MarkedHasReason'
    <3>1. AllocHandle(h, b) /\ UNCHANGED callVars
      BY <2>8, CreateCases
    <3>2. /\ base' = [k \in Handles |-> IF k \in {h} \cup Children(h) THEN b ELSE base[k]]
          /\ canLookup' = [k \in Handles |-> k \in {h} \cup Children(h) \/ canLookup[k]]
      BY <3>1 DEF AllocHandle
    <3>3. \A k \in Handles : ~canLookup'[k] => ~canLookup[k] /\ (Exists(k)' => Exists(k))
      BY <1>0, <3>2 DEF Exists
    <3>4. QED
      BY <1>0, <2>1, <3>1, <3>3 DEF MarkedHasReason
  <2>9. QED
    BY <1>3, <2>3, <2>4, <2>5, <2>6, <2>7, <2>8, BridgeCases
<1>4. QED
  BY <1>1, <1>2, <1>3, HandleCases

-----------------------------------------------------------------------------
(* The types, and the invariant.                                           *)

\* The steps of bridge calls keep the types of the handle base.
LEMMA HandleTypes ==
    ASSUME ConnectionInv, NEW t \in Threads, BridgeCall(t)
    PROVE  TypeOK'
<1> USE DEF callVars
<1>0. TypeOK
  BY DEF ConnectionInv, ConnectionTypeOK
<1>1. ASSUME NEW h \in Handles, LookupHandle(t, h) PROVE TypeOK'
  BY <1>0, <1>1 DEF LookupHandle, Call, TypeOK
<1>2. ASSUME NEW h \in Handles, MarkForFree(t, h) PROVE TypeOK'
  <2>1. /\ canLookup' \in [Handles -> BOOLEAN]
        /\ Call(t, "releasing", h) \/ UNCHANGED callVars
        /\ UNCHANGED <<base, lookups, object, busy>>
    BY <1>0, <1>2 DEF MarkForFree, TypeOK
  <2>2. QED
    BY <1>0, <2>1 DEF Call, TypeOK
<1>3. CASE Kick(t)
  BY <1>0, <1>3 DEF Kick, TypeOK
<1>4. CASE ReleaseHandle(t)
  <2>1. on[t] \in Handles /\ t \in Users(on[t])
    BY <1>4, CallIs DEF ReleaseHandle, Users
  <2>2. lookups[on[t]] > 0 /\ lookups[on[t]] \in Nat
    BY <1>0, <2>1, FS_EmptySet DEF ConnectionInv, LookupsCounted, TypeOK
  <2>3. QED
    BY <1>0, <1>4, <2>1, <2>2 DEF ReleaseHandle, Call, TypeOK
<1>5. CASE FreePrivData(t)
  <2>1. on[t] \in Handles
    BY <1>5, CallIs DEF FreePrivData
  <2>2. QED
    BY <1>0, <1>5, <2>1 DEF FreePrivData, Call, TypeOK
<1>6. CASE FreePrivDataRetry(t)
  BY <1>0, <1>6 DEF FreePrivDataRetry, Call, TypeOK
<1>7. CASE FreeDestroy(t)
  BY <1>0, <1>7 DEF FreeDestroy, Call, TypeOK
<1>8. ASSUME NEW h \in Handles, NEW b \in Bases, Creates(t, h, b) PROVE TypeOK'
  <2>1. AllocHandle(h, b) /\ UNCHANGED callVars
    BY <1>8, CreateCases
  <2>2. /\ base' \in [Handles -> Bases \cup {NoBase}]
        /\ canLookup' \in [Handles -> BOOLEAN]
        /\ lookups' \in [Handles -> Nat]
        /\ object' \in [Handles -> {"none", "live", "freed"}]
        /\ UNCHANGED busy
    BY <1>0, <2>1 DEF AllocHandle, TypeOK
  <2>3. QED
    BY <1>0, <2>1, <2>2 DEF TypeOK
<1>9. QED
  BY <1>1, <1>2, <1>3, <1>4, <1>5, <1>6, <1>7, <1>8, BridgeCases

\* Every step keeps the types.
LEMMA TypeStep == ConnectionInv /\ [ConnectionNext]_allVars => ConnectionTypeOK'
<1> SUFFICES ASSUME ConnectionInv, [ConnectionNext]_allVars PROVE ConnectionTypeOK'
  OBVIOUS
<1> USE DEF vars, handleVars, callVars, connVars, cleanerVars
<1>0. ConnectionTypeOK /\ TypeOK
  BY DEF ConnectionInv, ConnectionTypeOK
<1>1. UNCHANGED vars => TypeOK'
  BY <1>0 DEF TypeOK
<1>2. ASSUME NEW c \in Conns, Connect(c) PROVE ConnectionTypeOK'
  BY <1>0, <1>1, <1>2 DEF Connect, ConnectionTypeOK
<1>3. ASSUME NEW c \in Conns, Disconnect(c) PROVE ConnectionTypeOK'
  <2>1. RetryCount \in 0..RetryModulus - 1
    BY ConnectionAssumption
  <2>2. QED
    BY <1>0, <1>1, <1>3, <2>1 DEF Disconnect, ConnectionTypeOK
<1>4. ASSUME NEW t \in Threads, BridgeCall(t) PROVE ConnectionTypeOK'
  BY <1>0, <1>4, HandleTypes, BridgeCases DEF ConnectionTypeOK
<1>5. CASE Firmware
  <2>1. TypeOK'
    BY <1>0, <1>5 DEF Firmware, GpuFinishes, TypeOK
  <2>2. QED
    BY <1>0, <1>5, <2>1 DEF Firmware, ConnectionTypeOK
<1>6. CASE StartPass
  <2>1. workList[Len(workList)] \in Conns
    BY <1>0, <1>6 DEF StartPass, ConnectionTypeOK
  <2>2. QED
    BY <1>0, <1>1, <1>6, <2>1 DEF StartPass, ConnectionTypeOK
<1>7. CASE PopWork
  <2>1. workList # <<>>
    BY <1>0, <1>7 DEF PopWork, ConnectionInv, ItemClosed, Working, ConnectionTypeOK
  <2>2. Head(workList) \in Conns /\ Tail(workList) \in Seq(Conns)
    BY <1>0, <2>1 DEF ConnectionTypeOK
  <2>3. QED
    BY <1>0, <1>1, <1>7, <2>2 DEF PopWork, ConnectionTypeOK
<1>8. ASSUME cpc \in Working PROVE item \in Conns /\ item \in Bases
  BY <1>8, ConstantFacts DEF ConnectionInv, ItemClosed
<1>9. CASE ReleaseProcessBase
  <2>1. procBase[item] \in ProcBases /\ procBase[item] \in Bases /\ item \in Bases
    BY <1>0, <1>8, <1>9, ConstantFacts DEF ReleaseProcessBase, Working, ConnectionTypeOK
  <2>2. procRefs' \in [ProcBases -> Int]
    BY <1>0, <1>9, <2>1 DEF ReleaseProcessBase, ConnectionTypeOK
  <2>3. /\ table' \in ProcBases \cup {NoBase}
        /\ procBase' \in [Conns -> ProcBases \cup {NoBase}]
        /\ purging' \in Bases \cup {NoBase}
    BY <1>0, <1>9, <2>1 DEF ReleaseProcessBase, ConnectionTypeOK
  <2>4. QED
    BY <1>0, <1>1, <1>9, <2>2, <2>3 DEF ReleaseProcessBase, ConnectionTypeOK
<1>10. CASE SkipProcessBase
  BY <1>0, <1>1, <1>8, <1>10 DEF SkipProcessBase, Working, ConnectionTypeOK
<1>11. ASSUME NEW h \in Handles, FreeHandleData(h) PROVE ConnectionTypeOK'
  <2>1. TypeOK'
    BY <1>0, <1>11 DEF FreeHandleData, TypeOK
  <2>2. leaked' \subseteq Handles
    BY <1>0, <1>11 DEF FreeHandleData, ConnectionTypeOK
  <2>3. QED
    BY <1>0, <1>11, <2>1, <2>2 DEF FreeHandleData, ConnectionTypeOK
<1>12. ASSUME NEW h \in Handles, FreeHandleDataRetry(h) PROVE ConnectionTypeOK'
  BY <1>0, <1>1, <1>12 DEF FreeHandleDataRetry, ConnectionTypeOK
<1>13. CASE FreeProcessBase
  BY <1>0, <1>1, <1>8, <1>13 DEF FreeProcessBase, Purged, Working, ConnectionTypeOK
<1>14. CASE FreeConnection
  BY <1>0, <1>1, <1>14 DEF FreeConnection, AfterItem, ConnectionTypeOK
<1>15. CASE RetryItem
  <2>1. /\ item \in Conns /\ retries[item] \in 0..RetryModulus - 1
        /\ RetryModulus \in Nat /\ RetryModulus > 0
    BY <1>0, <1>8, <1>15, ConnectionAssumption DEF RetryItem, Working, ConnectionTypeOK
  <2>2. OneLess(retries[item]) \in 0..RetryModulus - 1
    BY <2>1 DEF OneLess
  <2>3. retries' \in [Conns -> 0..RetryModulus - 1]
    BY <1>0, <1>15, <2>2 DEF RetryItem, ConnectionTypeOK
  <2>4. /\ workList' \in Seq(Conns) /\ needRetry' \in BOOLEAN
        /\ conn' \in [Conns -> {"none", "open", "closed", "freed", "abandoned"}]
    <3>1. needRetry' \in BOOLEAN
      BY <1>15 DEF RetryItem
    <3>2. \/ workList' = Append(workList, item) /\ conn' = conn
          \/ workList' = workList /\ conn' = [conn EXCEPT ![item] = "abandoned"]
      BY <1>15 DEF RetryItem
    <3>3. /\ workList \in Seq(Conns)
          /\ conn \in [Conns -> {"none", "open", "closed", "freed", "abandoned"}]
      BY <1>0 DEF ConnectionTypeOK
    <3>4. Append(workList, item) \in Seq(Conns)
      BY <2>1, <3>3
    <3>5. [conn EXCEPT ![item] = "abandoned"]
              \in [Conns -> {"none", "open", "closed", "freed", "abandoned"}]
      BY <3>3
    <3>6. QED
      BY <3>1, <3>2, <3>3, <3>4, <3>5
  <2>5. QED
    BY <1>0, <1>1, <1>15, <2>3, <2>4 DEF RetryItem, AfterItem, ConnectionTypeOK
<1>16. CASE UNCHANGED allVars
  BY <1>0, <1>1, <1>16 DEF allVars, ConnectionTypeOK
<1>17. QED
  BY <1>2, <1>3, <1>4, <1>5, <1>6, <1>7, <1>9, <1>10, <1>11, <1>12, <1>13, <1>14,
     <1>15, <1>16 DEF ConnectionNext, CleanupThread

\* The initial states satisfy the invariant.
LEMMA InvInit == ConnectionInit => ConnectionInv
<1> SUFFICES ASSUME ConnectionInit PROVE ConnectionInv
  OBVIOUS
<1>1. \A h \in Handles : Users(h) = {} /\ base[h] = NoBase
  BY DEF ConnectionInit, HandleInit, Users
<1>2. ConnectionTypeOK
  <2>1. TypeOK
    BY DEF ConnectionInit, HandleInit, TypeOK
  <2>2. 0 \in 0..RetryModulus - 1
    BY ConnectionAssumption
  <2>3. workList \in Seq(Conns)
    BY DEF ConnectionInit
  <2>4. /\ conn \in [Conns -> {"none", "open", "closed", "freed", "abandoned"}]
        /\ procBase \in [Conns -> ProcBases \cup {NoBase}]
        /\ procRefs \in [ProcBases -> Int]
        /\ retries \in [Conns -> 0..RetryModulus - 1]
    BY <2>2 DEF ConnectionInit
  <2>5. /\ table \in ProcBases \cup {NoBase} /\ procLive \subseteq ProcBases
        /\ leaked \subseteq Handles /\ needRetry \in BOOLEAN
        /\ cpc \in {"wait", "pop", "process", "purge", "failed", "done"}
        /\ last \in Conns \cup {NoConn} /\ item \in Conns \cup {NoConn}
        /\ purging \in Bases \cup {NoBase}
    BY DEF ConnectionInit
  <2>6. QED
    BY <2>1, <2>3, <2>4, <2>5 DEF ConnectionTypeOK
<1>3. LookupsCounted
  BY <1>1, FS_EmptySet DEF ConnectionInit, HandleInit, LookupsCounted
<1>4. CallsOpen /\ DestroyedAlone
  BY DEF ConnectionInit, HandleInit, CallsOpen, DestroyedAlone, Destroying
<1>5. CellsWhole /\ BasesExist
  BY <1>1, ConstantFacts DEF CellsWhole, BasesExist, InUse
<1>6. ProcessCounted
  BY ConstantFacts DEF ConnectionInit, ProcessCounted
<1>7. WorkClosed /\ ItemClosed /\ PurgedIsReleased
  BY DEF ConnectionInit, WorkClosed, ItemClosed, Working, PurgedIsReleased
<1>8. MarkedHasReason
  BY <1>1 DEF ConnectionInit, MarkedHasReason, OnlyRefusedLeaks, Exists
<1>9. QED
  BY <1>2, <1>3, <1>4, <1>5, <1>6, <1>7, <1>8 DEF ConnectionInv

\* The invariant holds in every state, whoever connects, is busy or fails.
THEOREM ConnectionInvariant == ConnectionSpec => []ConnectionInv
<1>1. ConnectionInit => ConnectionInv
  BY InvInit
<1>2. ConnectionInv /\ [ConnectionNext]_allVars => ConnectionInv'
  BY TypeStep, CallsStep, LookupsStep, DestroyedStep, CellsStep, BasesStep,
     ProcessStep, WorkStep, PurgeStep, MarkedStep DEF ConnectionInv
<1>3. QED
  BY <1>1, <1>2, PTL DEF ConnectionSpec

\* Every variable of the handle bases, the connections and the cleanup thread
\* keeps its type; ui32RetryCount wraps within its width.
THEOREM ConnectionTypes == ConnectionSpec => []ConnectionTypeOK
<1>1. ConnectionInv => ConnectionTypeOK
  BY DEF ConnectionInv
<1>2. QED
  BY <1>1, ConnectionInvariant, PTL

\* Between the look-up and the release of a handle its object is not released,
\* whoever destroys the handle or its parent, or closes a connection, meanwhile.
THEOREM UsedStaysLive == ConnectionSpec => []UsedIsLive
<1>1. ConnectionInv => UsedIsLive
  <2> SUFFICES ASSUME ConnectionInv, NEW t \in Threads, pc[t] = "using"
               PROVE  object[Owner(on[t])] = "live"
    BY DEF UsedIsLive
  <2>1. on[t] \in Handles /\ InUse(base[on[t]])
    BY CallIs
  <2>2. \/ object[Owner(on[t])] = "live"
        \/ \E u \in Threads : pc[u] = "destroying" /\ on[u] = Owner(on[t])
    BY <2>1 DEF ConnectionInv, CellsWhole
  <2>3. \A u \in Threads : pc[u] \in Destroying => on[u] # Owner(on[t])
    BY <2>1, NobodyElse DEF Destroying
  <2>4. QED
    BY <2>2, <2>3 DEF Destroying
<1>2. QED
  BY <1>1, ConnectionInvariant, PTL

\* An object is lost by the purge only when its handle has sub-handles.
THEOREM LeaksHaveSubHandles == ConnectionSpec => []OnlyRefusedLeaks
<1>1. ConnectionInv => OnlyRefusedLeaks
  BY DEF ConnectionInv, MarkedHasReason
<1>2. QED
  BY <1>1, ConnectionInvariant, PTL

\* An open connection points to the process handle base in the table, which is
\* allocated and counts the connections that will still release it.
THEOREM ProcessBaseIsCounted == ConnectionSpec => []ConnectedToProcessBase
<1>1. ConnectionInv => ConnectedToProcessBase
  BY DEF ConnectionInv, ProcessCounted, Refs, ConnectedToProcessBase
<1>2. QED
  BY <1>1, ConnectionInvariant, PTL

-----------------------------------------------------------------------------
(* What the purge waits for.                                               *)

\* A new object is in the base of the object it refers to.
LEMMA SameBase ==
    ASSUME FreeListOrder, ConnectionInv, TargetsStay, NEW t \in Threads,
           conn[ConnOf[t]] = "open", pc[t] = "using",
           NEW h \in Handles, NEW b \in Bases, Creates(t, h, b), on[t] \in Targets[h]
    PROVE  b = base[on[t]]
<1>1. /\ on[t] \in Handles /\ Within(t, on[t])
      /\ ConnOf[t] \in Conns /\ procBase[ConnOf[t]] \in ProcBases
  BY ConstantFacts DEF ConnectionInv, CallsOpen, Within, ProcessCounted
<1>2. /\ HomeOf[h] = HomeOf[on[t]] /\ Parent[on[t]] = NoHandle
      /\ HomeOf[h] \in {ConnOf[t], Process}
      /\ b = IF HomeOf[h] = Process THEN procBase[ConnOf[t]] ELSE ConnOf[t]
  BY <1>1 DEF FreeListOrder, Creates
<1>3. /\ base[on[t]] \in Conns => HomeOf[h] = base[on[t]]
      /\ base[on[t]] \in ProcBases => HomeOf[h] = Process
  BY <1>1, <1>2 DEF TargetsStay
<1>4. QED
  BY <1>1, <1>2, <1>3, ConstantFacts DEF Within

\* Steps that make no object, destroy none and leave the bases alone.
LEMMA TargetsKept ==
    ASSUME TargetsStay, base' = base, leaked' = leaked,
           \A h \in Handles : object'[h] = "live" => object[h] = "live",
           \A t \in Threads : pc'[t] = "destroying" =>
               \/ pc[t] = "destroying" /\ on'[t] = on[t]
               \/ \A k \in Handles : on'[t] \in Targets[k] => object'[k] # "live"
    PROVE  TargetsStay'
BY DEF TargetsStay, Exists

\* Every step keeps objects with those that refer to them.
LEMMA TargetsStep ==
    ASSUME FreeListOrder, ConnectionInv, TargetsStay, [ConnectionNext]_allVars
    PROVE  TargetsStay'
<1> USE DEF callVars
<1>0. /\ base \in [Handles -> Bases \cup {NoBase}]
      /\ object \in [Handles -> {"none", "live", "freed"}]
      /\ pc \in [Threads -> {"idle", "using", "releasing", "destroying"}]
      /\ on \in [Threads -> Handles \cup {NoHandle}]
      /\ Targets \in [Handles -> SUBSET Handles]
      /\ Rank \in [Handles -> Nat]
  BY HandleBaseAssumption, ConnectionAssumption DEF ConnectionInv, ConnectionTypeOK, TypeOK
<1>1. CASE UNCHANGED <<base, canLookup, lookups, object, callVars, leaked>>
  BY <1>1, TargetsKept
<1>2. ASSUME NEW x \in Handles, FreeHandleData(x) PROVE TargetsStay'
  <2>1. /\ base' = [base EXCEPT ![x] = NoBase] /\ base[x] = purging /\ cpc = "purge"
        /\ \A k \in Handles : base[k] = purging => Rank[x] <= Rank[k]
        /\ object' = IF CallsBack(x) THEN [object EXCEPT ![x] = "freed"] ELSE object
        /\ leaked' = IF Parent[x] = NoHandle /\ ~CallsBack(x)
                     THEN leaked \cup {x} ELSE leaked
        /\ UNCHANGED callVars
    BY <1>2 DEF FreeHandleData, NextToFree
  <2>2. \A h \in Handles : object'[h] = "live" => object[h] = "live"
    BY <1>0, <2>1
  <2>3. \A h \in Handles : object'[h] = "live" =>
            Parent[h] = NoHandle /\ (base'[h] # NoBase \/ h \in leaked')
    BY <1>0, <2>1, <2>2 DEF TargetsStay, Exists
  <2>4. \A h \in Handles : base'[h] \in Conns \cup ProcBases => base'[h] = base[h]
    BY <1>0, <2>1, ConstantFacts
  <2>5. ASSUME NEW k \in Handles, NEW h \in Targets[k], object'[k] = "live"
        PROVE  base'[k] = base'[h] /\ base'[h] # NoBase
    <3>1. base[k] = base[h] /\ Exists(h) /\ h \in Handles
      BY <1>0, <2>2, <2>5 DEF TargetsStay
    <3>2. x # h
      BY <1>0, <2>1, <2>5, <3>1 DEF FreeListOrder
    <3>3. x # k
      <4> SUFFICES ASSUME x = k PROVE FALSE
        OBVIOUS
      <4>1. ~CallsBack(k)
        BY <1>0, <2>1, <2>5
      <4>2. Exists(k) /\ Parent[k] = NoHandle /\ ~canLookup[k] /\ Children(k) = {}
        BY <2>5, <3>1, <4>1 DEF FreeListOrder, CallsBack, Exists
      <4>3. PICK t \in Threads : pc[t] \in Destroying /\ on[t] = k
        BY <4>2 DEF ConnectionInv, MarkedHasReason
      <4>4. InUse(base[k])
        BY <4>3, CallIs DEF Destroying
      <4>5. QED
        BY <2>1, <4>4, InUseIs
    <3>4. QED
      BY <1>0, <2>1, <3>1, <3>2, <3>3 DEF Exists
  <2>6. QED
    BY <2>1, <2>2, <2>3, <2>4, <2>5 DEF TargetsStay, Exists
<1>3. ASSUME NEW t \in Threads, BridgeCall(t) PROVE TargetsStay'
  <2>0. leaked' = leaked /\ conn[ConnOf[t]] = "open"
    BY <1>3, BridgeCases DEF connVars
  <2>1. ASSUME NEW h \in Handles, LookupHandle(t, h) \/ MarkForFree(t, h)
        PROVE  TargetsStay'
    <3>1. UNCHANGED <<base, object>>
      BY <2>1 DEF LookupHandle, MarkForFree
    <3>2. \A u \in Threads : pc'[u] = "destroying" => pc[u] = "destroying" /\ on'[u] = on[u]
      BY <1>0, <2>1 DEF LookupHandle, MarkForFree, Call
    <3>3. QED
      BY <2>0, <3>1, <3>2, TargetsKept
  <2>2. CASE Kick(t) \/ ReleaseHandle(t) \/ FreePrivDataRetry(t)
    <3>1. UNCHANGED <<base, object>>
      BY <2>2 DEF Kick, ReleaseHandle, FreePrivDataRetry
    <3>2. \A u \in Threads : pc'[u] = "destroying" => pc[u] = "destroying" /\ on'[u] = on[u]
      BY <1>0, <2>2 DEF Kick, ReleaseHandle, FreePrivDataRetry, Call
    <3>3. QED
      BY <2>0, <3>1, <3>2, TargetsKept
  <2>3. CASE FreePrivData(t)
    <3>1. /\ base' = base /\ object' = [object EXCEPT ![on[t]] = "freed"]
          /\ pc' = [pc EXCEPT ![t] = "destroying"] /\ on' = [on EXCEPT ![t] = on[t]]
          /\ \A k \in Handles : on[t] \in Targets[k] => object[k] # "live"
      BY <2>3 DEF FreePrivData, Call, Releasable
    <3>2. \A h \in Handles : object'[h] = "live" => object[h] = "live"
      BY <1>0, <3>1
    <3>3. \A u \in Threads : on'[u] = on[u] /\ (u # t => pc'[u] = pc[u])
      BY <1>0, <3>1
    <3>4. \A k \in Handles : on[t] \in Targets[k] => object'[k] # "live"
      BY <3>1, <3>2
    <3>5. QED
      BY <2>0, <3>1, <3>2, <3>3, <3>4, TargetsKept
  <2>4. CASE FreeDestroy(t)
    <3>1. /\ base' = [k \in Handles |-> IF Owner(k) = on[t] THEN NoBase ELSE base[k]]
          /\ pc' = [pc EXCEPT ![t] = "idle"] /\ on' = [on EXCEPT ![t] = NoHandle]
          /\ UNCHANGED object /\ pc[t] = "destroying"
      BY <2>4 DEF FreeDestroy, Call
    <3>2. object[on[t]] = "freed"
      BY <3>1 DEF ConnectionInv, DestroyedAlone, Destroying
    <3>3. \A h \in Handles : Parent[h] = NoHandle /\ h # on[t] => base'[h] = base[h]
      BY <3>1, OwnerIs
    <3>4. \A h \in Handles : object[h] = "live" => h # on[t] /\ Parent[h] = NoHandle
      BY <3>2 DEF TargetsStay
    <3>5. \A h \in Handles : base'[h] \in Conns \cup ProcBases => base'[h] = base[h]
      BY <3>1, ConstantFacts
    <3>6. \A k \in Handles : \A h \in Targets[k] :
              object[k] = "live" => base'[k] = base[k] /\ base'[h] = base[h]
      <4> SUFFICES ASSUME NEW k \in Handles, NEW h \in Targets[k], object[k] = "live"
                   PROVE  base'[k] = base[k] /\ base'[h] = base[h]
        OBVIOUS
      <4>1. h \in Handles /\ Parent[h] = NoHandle
        BY <1>0 DEF FreeListOrder
      <4>2. h # on[t]
        BY <3>1 DEF TargetsStay
      <4>3. QED
        BY <3>3, <3>4, <4>1, <4>2
    <3>7. \A u \in Threads : pc'[u] = "destroying" => pc[u] = "destroying" /\ on'[u] = on[u]
      BY <1>0, <3>1
    <3>8. QED
      <4>1. \A h \in Handles : object'[h] = "live" =>
                Parent[h] = NoHandle /\ (base'[h] # NoBase \/ h \in leaked')
        BY <2>0, <3>1, <3>3, <3>4 DEF TargetsStay, Exists
      <4>2. \A h \in Handles : Parent[h] = NoHandle =>
                /\ base'[h] \in Conns => HomeOf[h] = base'[h]
                /\ base'[h] \in ProcBases => HomeOf[h] = Process
        BY <3>5 DEF TargetsStay
      <4>3. \A k \in Handles : \A h \in Targets[k] : object'[k] = "live" =>
                /\ base'[k] = base'[h] /\ base'[h] # NoBase
                /\ \A u \in Threads : pc'[u] = "destroying" => on'[u] # h
        BY <3>1, <3>6, <3>7 DEF TargetsStay, Exists
      <4>4. QED
        BY <4>1, <4>2, <4>3 DEF TargetsStay, Exists
  <2>5. ASSUME NEW x \in Handles, NEW b \in Bases, Creates(t, x, b) PROVE TargetsStay'
    <3>1. AllocHandle(x, b) /\ UNCHANGED callVars
          /\ (Targets[x] = {} \/ (pc[t] = "using" /\ Targets[x] = {on[t]}))
      BY <2>5, CreateCases
    <3>2. /\ ~Exists(x) /\ Parent[x] = NoHandle /\ b # NoBase
          /\ base' = [k \in Handles |-> IF k \in {x} \cup Children(x) THEN b ELSE base[k]]
          /\ object' = [object EXCEPT ![x] = "live"]
      BY <3>1, ConstantFacts DEF AllocHandle
    <3>3. \A h \in Handles : Parent[h] = NoHandle /\ h # x => base'[h] = base[h]
      BY <3>2, ConstantFacts DEF Children
    <3>4. \A h \in Handles : h # x => object'[h] = object[h]
      BY <1>0, <3>2
    <3>5. base'[x] = b
      BY <3>2
    <3>6. /\ b \in Conns => HomeOf[x] = b
          /\ b \in ProcBases => HomeOf[x] = Process
      <4>1. /\ b = IF HomeOf[x] = Process THEN procBase[ConnOf[t]] ELSE ConnOf[t]
            /\ HomeOf[x] \in {ConnOf[t], Process}
        BY <2>5 DEF Creates
      <4>2. ConnOf[t] \in Conns /\ procBase[ConnOf[t]] \in ProcBases
        BY <2>0, ConstantFacts DEF ConnectionInv, ProcessCounted
      <4>3. QED
        BY <4>1, <4>2, ConstantFacts
    <3>7. ASSUME NEW h \in Handles, object'[h] = "live"
          PROVE  Parent[h] = NoHandle /\ (base'[h] # NoBase \/ h \in leaked)
      BY <3>2, <3>3, <3>4, <3>5, <3>7 DEF TargetsStay, Exists
    <3>8. ASSUME NEW h \in Handles, Parent[h] = NoHandle
          PROVE  /\ base'[h] \in Conns => HomeOf[h] = base'[h]
                 /\ base'[h] \in ProcBases => HomeOf[h] = Process
      BY <3>3, <3>5, <3>6, <3>8 DEF TargetsStay
    <3>9. ASSUME NEW k \in Handles, NEW h \in Targets[k], object'[k] = "live"
          PROVE  /\ base'[k] = base'[h] /\ base'[h] # NoBase
                 /\ \A u \in Threads : pc[u] = "destroying" => on[u] # h
      <4>1. h \in Handles /\ Parent[h] = NoHandle /\ Parent[k] = NoHandle
        BY <1>0, <3>9 DEF FreeListOrder
      <4>2. CASE k = x
        <5>1. pc[t] = "using" /\ h = on[t] /\ b = base[h]
          BY <2>0, <2>5, <3>1, <3>9, <4>2, SameBase
        <5>2. h # x /\ base'[h] = base[h]
          BY <3>2, <3>3, <4>1, <5>1 DEF Exists
        <5>3. \A u \in Threads : pc[u] = "destroying" => on[u] # h
          BY <4>1, <5>1, NobodyElse, OwnerIs DEF Destroying
        <5>4. QED
          BY <3>2, <3>5, <4>2, <5>1, <5>2, <5>3
      <4>3. CASE k # x
        <5>1. /\ base[k] = base[h] /\ Exists(h)
              /\ \A u \in Threads : pc[u] = "destroying" => on[u] # h
          BY <3>4, <3>9, <4>3 DEF TargetsStay
        <5>2. h # x
          BY <3>2, <5>1
        <5>3. QED
          BY <3>3, <4>1, <4>3, <5>1, <5>2 DEF Exists
      <4>4. QED
        BY <4>2, <4>3
    <3>10. QED
      BY <2>0, <3>1, <3>7, <3>8, <3>9 DEF TargetsStay, Exists
  <2>6. QED
    BY <1>3, <2>1, <2>2, <2>3, <2>4, <2>5, BridgeCases
<1>4. QED
  BY <1>1, <1>2, <1>3, HandleCases

\* If the free list puts an object before those it refers to, the purge of a base
\* waits for the GPU only, never for an object that it would free later.
THEOREM PurgeWaitsForGpu ==
    ASSUME FreeListOrder
    PROVE  ConnectionSpec => []WaitsOnlyForGpu
<1>1. ConnectionInit => TargetsStay
  <2>1. ConnectionInit => \A h \in Handles : object[h] = "none" /\ base[h] = NoBase
    BY DEF ConnectionInit, HandleInit
  <2>2. QED
    BY <2>1, ConstantFacts DEF TargetsStay
<1>2. ConnectionInv /\ TargetsStay /\ [ConnectionNext]_allVars => TargetsStay'
  BY TargetsStep
<1>3. ConnectionInv /\ TargetsStay => WaitsOnlyForGpu
  <2> SUFFICES ASSUME ConnectionInv, TargetsStay, cpc = "purge", NEW h \in Handles,
                      NextToFree(h), ~Releasable(h), h \notin busy
               PROVE  FALSE
    BY DEF WaitsOnlyForGpu
  <2>1. PICK k \in Handles : h \in Targets[k] /\ object[k] = "live"
    BY DEF Releasable
  <2>2. base[k] = base[h] /\ Rank[k] < Rank[h]
    BY <2>1 DEF TargetsStay, FreeListOrder
  <2>3. Rank[h] <= Rank[k] /\ Rank[h] \in Nat /\ Rank[k] \in Nat
    BY <2>2, ConnectionAssumption DEF NextToFree
  <2>4. QED
    BY <2>2, <2>3
<1>4. QED
  BY <1>1, <1>2, <1>3, ConnectionInvariant, PTL DEF ConnectionSpec

=============================================================================
