----------------------------- MODULE HandleBase -----------------------------
(***************************************************************************)
(* The handle data base (common/handle.c): what bridge calls of several    *)
(* threads do with the handles of a connection and of its process.  All of *)
(* it happens under the lock of the handle base; the action boundaries are *)
(* the places where a bridge call drops that lock.                         *)
(***************************************************************************)
EXTENDS Integers, FiniteSets

CONSTANTS
    Threads,
    Handles,      \* handles with the object (pvData) each stands for
    NoHandle,
    Parent,       \* a sub-handle shares the object of its parent
    Targets,      \* objects an object holds an internal reference on
    Busyable,     \* objects that the GPU works for
    Bases,        \* handle bases: of connections and of processes
    NoBase

ASSUME HandleBaseAssumption ==
    /\ NoHandle \notin Handles /\ NoBase \notin Bases
    /\ Parent \in [Handles -> Handles \cup {NoHandle}]
    /\ \A h \in Handles : Parent[h] # NoHandle => Parent[Parent[h]] = NoHandle
    /\ Targets \in [Handles -> SUBSET Handles]
    /\ Busyable \subseteq Handles

VARIABLES
    base,         \* the base in which the handle is allocated, or NoBase
    canLookup,    \* bCanLookup
    lookups,      \* iLookupCount
    object,       \* the object of a handle that has no parent
    busy,         \* objects the firmware has work for
    pc, on        \* the bridge call of each thread and the handle it is about

handleVars == <<base, canLookup, lookups, object, busy>>
callVars   == <<pc, on>>
vars       == <<handleVars, callVars>>

Exists(h)   == base[h] # NoBase
Children(h) == {s \in Handles : Parent[s] = h}
Owner(h)    == IF Parent[h] = NoHandle THEN h ELSE Parent[h]

TypeOK ==
    /\ base \in [Handles -> Bases \cup {NoBase}]
    /\ canLookup \in [Handles -> BOOLEAN]
    /\ lookups \in [Handles -> Nat]
    /\ object \in [Handles -> {"none", "live", "freed"}]
    /\ busy \subseteq Busyable
    /\ pc \in [Threads -> {"idle", "using", "releasing", "destroying"}]
    /\ on \in [Threads -> Handles \cup {NoHandle}]

HandleInit ==
    /\ base = [h \in Handles |-> NoBase]
    /\ canLookup = [h \in Handles |-> FALSE]
    /\ lookups = [h \in Handles |-> 0]
    /\ object = [h \in Handles |-> "none"]
    /\ busy = {}
    /\ pc = [t \in Threads |-> "idle"]
    /\ on = [t \in Threads |-> NoHandle]

Call(t, where, h) ==
    /\ pc' = [pc EXCEPT ![t] = where]
    /\ on' = [on EXCEPT ![t] = h]

---------------------------------------------------------------------------
(* Bridge calls.  The guard of a destroyed object's cell (object # "live") *)
(* keeps leaked objects apart from those created later.                    *)

\* The server function made the object; PVRSRVAllocHandleUnlocked for it and
\* PVRSRVAllocSubHandleUnlocked for its sub-handles, under one lock.
AllocHandle(h, b) ==
    /\ Parent[h] = NoHandle /\ ~Exists(h) /\ object[h] # "live"
    /\ LET new == {h} \cup Children(h) IN
         /\ base' = [k \in Handles |-> IF k \in new THEN b ELSE base[k]]
         /\ canLookup' = [k \in Handles |-> k \in new \/ canLookup[k]]
         /\ lookups' = [k \in Handles |-> IF k \in new THEN 0 ELSE lookups[k]]
    /\ object' = [object EXCEPT ![h] = "live"]
    /\ UNCHANGED busy

\* A call that makes an object on its own.
Create(t, h, b) ==
    /\ pc[t] = "idle" /\ Targets[h] = {}
    /\ AllocHandle(h, b)
    /\ UNCHANGED callVars

\* A call that makes an object out of the one it looked up.
CreateOn(t, h, b) ==
    /\ pc[t] = "using" /\ Targets[h] = {on[t]}
    /\ AllocHandle(h, b)
    /\ UNCHANGED callVars

\* PVRSRVLookupHandleUnlocked with bRef.
LookupHandle(t, h) ==
    /\ pc[t] = "idle"
    /\ Exists(h) /\ canLookup[h]
    /\ lookups' = [lookups EXCEPT ![h] = @ + 1]
    /\ Call(t, "using", h)
    /\ UNCHANGED <<base, canLookup, object, busy>>

\* The call gives the GPU work for the object.
Kick(t) ==
    /\ pc[t] = "using" /\ on[t] \in Busyable
    /\ busy' = busy \cup {on[t]}
    /\ UNCHANGED <<base, canLookup, lookups, object, callVars>>

\* PVRSRVReleaseHandleUnlocked.
ReleaseHandle(t) ==
    /\ pc[t] = "using"
    /\ lookups' = [lookups EXCEPT ![on[t]] = @ - 1]
    /\ Call(t, "idle", NoHandle)
    /\ UNCHANGED <<base, canLookup, object, busy>>

\* HandleUnrefAndMaybeMarkForFree refuses a handle marked before, or one that
\* is looked up.
MayBeMarked_mutant(h) == canLookup[h]
MayBeMarked(h) == canLookup[h] /\ lookups[h] = 0

\* DestroyHandle up to where it drops the lock.  The handle is marked before
\* its children are looked at: one that refuses leaves it marked.
MarkForFree(t, h) ==
    /\ pc[t] = "idle"
    /\ Exists(h) /\ Parent[h] = NoHandle /\ MayBeMarked(h)
    /\ \E marked \in SUBSET Children(h) :
         /\ \A s \in marked : MayBeMarked(s)
         /\ canLookup' = [k \in Handles |->
                            k \notin {h} \cup marked /\ canLookup[k]]
         /\ IF marked = Children(h)
            THEN Call(t, "releasing", h)
            ELSE /\ \E s \in Children(h) \ marked : ~MayBeMarked(s)
                 /\ UNCHANGED callVars
    /\ UNCHANGED <<base, lookups, object, busy>>

\* The release callback of an object reports RETRY while the GPU works for
\* it or another object refers to it.
Releasable(h) ==
    /\ h \notin busy
    /\ \A k \in Handles : h \in Targets[k] => object[k] # "live"

\* HandleFreePrivData without the lock.
FreePrivData(t) ==
    /\ pc[t] = "releasing" /\ Releasable(on[t])
    /\ object' = [object EXCEPT ![on[t]] = "freed"]
    /\ Call(t, "destroying", on[t])
    /\ UNCHANGED <<base, canLookup, lookups, busy>>

\* It got RETRY: the handle is kept alive for the next call.
FreePrivDataRetry_mutant(t) ==
    /\ pc[t] = "releasing" /\ ~Releasable(on[t])
    /\ Call(t, "idle", NoHandle)
    /\ UNCHANGED handleVars
FreePrivDataRetry(t) ==
    /\ pc[t] = "releasing" /\ ~Releasable(on[t])
    /\ canLookup' = [canLookup EXCEPT ![on[t]] = TRUE]
    /\ Call(t, "idle", NoHandle)
    /\ UNCHANGED <<base, lookups, object, busy>>

\* HandleFreeDestroy.
FreeDestroy(t) ==
    /\ pc[t] = "destroying"
    /\ base' = [k \in Handles |->
                  IF Owner(k) = on[t] THEN NoBase ELSE base[k]]
    /\ Call(t, "idle", NoHandle)
    /\ UNCHANGED <<canLookup, lookups, object, busy>>

GpuFinishes(h) ==
    /\ h \in busy
    /\ busy' = busy \ {h}
    /\ UNCHANGED <<base, canLookup, lookups, object, callVars>>

\* The steps of thread t on the handles of base b.
BridgeStep(t, b) ==
    \/ \E h \in Handles : base[h] = b /\ LookupHandle(t, h)
    \/ \E h \in Handles : base[h] = b /\ MarkForFree(t, h)
    \/ /\ on[t] # NoHandle /\ base[on[t]] = b
       /\ \/ Kick(t) \/ ReleaseHandle(t)
          \/ FreePrivData(t) \/ FreePrivDataRetry(t) \/ FreeDestroy(t)

---------------------------------------------------------------------------
(* Properties.                                                             *)

\* Between PVRSRVLookupHandle and PVRSRVReleaseHandle the object is not
\* released, through whichever handle it was looked up and whoever destroys
\* the handle or its parent meanwhile.
UsedIsLive ==
    \A t \in Threads : pc[t] = "using" => object[Owner(on[t])] = "live"
=============================================================================
