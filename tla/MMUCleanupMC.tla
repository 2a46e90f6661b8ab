--------------------------- MODULE MMUCleanupMC ---------------------------
(* Instances of MMUCleanup for TLC. *)
EXTENDS MMUCleanup

CONSTANT t1

MCThreads == {t1, Cleaner}
KickOps   == {"SCHEDULE"}
=============================================================================
