----------------------------- MODULE MMUCleanup -----------------------------
(***************************************************************************)
(* The deferred freeing of page tables (common/mmu_common.c): the cleanup  *)
(* thread asks for an MMU cache invalidation through the kernel CCB and    *)
(* frees the page tables when the MMU cache sync prim says that it has     *)
(* been executed.                                                          *)
(***************************************************************************)
EXTENDS KernelCCB

CONSTANTS
    Cleaner,      \* the cleanup thread, one of Threads
    WrapWindow    \* 0xF0000000: a larger distance means the counter wrapped

ASSUME MMUCleanupAssumption ==
    /\ Cleaner \in Threads
    /\ WrapWindow \in Updates

VARIABLES
    item,         \* progress of the MMU_CLEANUP_ITEM
    removed,      \* the change that took its page tables out of use
    required      \* uiRequiredSyncVal

cleanupVars == <<item, removed, required>>
allVars     == <<vars, cleanupVars>>

\* The item advances from none to queued to kicking; RGXMMUCacheInvalidateKick
\* then leaves it kicked, or skipped when it had nothing to do.
CleanupTypeOK ==
    /\ TypeOK
    /\ item \in {"none", "queued", "kicking", "kicked", "skipped"}
    /\ removed \in 0..MaxChanges
    /\ required \in Updates

CleanupInit ==
    /\ Init
    /\ item = "none" /\ removed = 0 /\ required = 0

\* _SetupCleanup_FreeMMUMapping, after page tables were unlinked.
SetupCleanup ==
    /\ item = "none"
    /\ ChangePageTables
    /\ item' = "queued"
    /\ removed' = pageTables'
    /\ required' = 0

\* _CleanupThread_FreeMMUMapping calls pfnMMUCacheInvalidateKick.
InvalidateKick ==
    /\ item = "queued"
    /\ Enter(Cleaner, "INVALIDATE")
    /\ item' = "kicking"
    /\ UNCHANGED <<removed, required>>

\* The kick returns.  A failed one is retried; the required value is written as
\* soon as one is taken, also when the submission then fails (rgxmem.c:200).
InvalidateKicked_mutant ==
    /\ PowerUnlock(Cleaner)
    /\ item' = IF ret[Cleaner] = "OK" THEN "kicked" ELSE "queued"
    /\ required' = update[Cleaner]
    /\ UNCHANGED removed
InvalidateKicked ==
    /\ PowerUnlock(Cleaner)
    /\ item' = IF ret[Cleaner] # "OK" THEN "queued"
                ELSE IF update[Cleaner] = NoValue THEN "skipped" ELSE "kicked"
    /\ required' = IF update[Cleaner] = NoValue THEN required ELSE update[Cleaner]
    /\ UNCHANGED removed

\* "Has the invalidate executed", with the wrapped counter in mind.
HasReached_mutant(current, req) == current >= req
HasReached(current, req) ==
    IF current >= req THEN current - req <= WrapWindow
                      ELSE req - current > WrapWindow

\* The item is freed when the sync says so, or when its time is over.  When the
\* MMU context has been destroyed, and its page tables with it, the item is
\* dropped before anything is asked of the GPU.
FreeMapping ==
    /\ item \in {"queued", "kicked", "skipped"}
    /\ item' = "none" /\ removed' = 0 /\ required' = 0
    /\ UNCHANGED vars

CleanupNext ==
    \/ SetupCleanup \/ InvalidateKick \/ InvalidateKicked \/ FreeMapping
    \/ /\ \/ \E t \in Threads \ {Cleaner}, o \in EntryPoints : Enter(t, o)
          \/ \E t \in AllThreads \ {Cleaner} : Step(t)
          \/ Step(Cleaner) /\ pc[Cleaner] # "unlock"
          \/ MisrStart \/ ChangePageTables \/ FwExecute
       /\ UNCHANGED cleanupVars

CleanupSpec == CleanupInit /\ [][CleanupNext]_allVars

-----------------------------------------------------------------------------
\* When the sync prim has reached the value of the invalidation the cleanup
\* thread submitted, the GPU has forgotten the page tables about to be freed,
\* also when submissions fail and the counter wraps (mmu_common.c:427).
KickedIsInvalidated ==
    item = "kicked" /\ HasReached(mmuSync, required) => tlb >= removed

\* Page tables are freed "after the MMU cache has been invalidated"
\* (mmu_common.c:364).
FreedAfterInvalidate ==
    item \in {"kicked", "skipped"} /\ HasReached(mmuSync, required) => tlb >= removed
=============================================================================
