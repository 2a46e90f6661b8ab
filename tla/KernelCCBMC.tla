---------------------------- MODULE KernelCCBMC ----------------------------
(* Instances of KernelCCB for TLC. *)
EXTENDS KernelCCB, TLC

CONSTANTS t1, t2

MCThreads   == {t1, t2}
OneThread   == {t1}
AllOps      == Ops
KickOps     == {"SCHEDULE", "SCHEDULE_SLOT"}
Symmetry    == Permutations(MCThreads)
=============================================================================
