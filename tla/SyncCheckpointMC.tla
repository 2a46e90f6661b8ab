-------------------------- MODULE SyncCheckpointMC --------------------------
(* Instances of SyncCheckpoint for TLC. *)
EXTENDS SyncCheckpoint, TLC

CONSTANTS t1, t2, c1, c2, b1, b2

MCThreads     == {t1, t2}
MCCheckpoints == {c1, c2}
MCBlocks      == {b1, b2}
MCBlockOf     == (c1 :> b1) @@ (c2 :> b2)
EmptyPool     == <<>>
\* The threads may be swapped, and the cells together with their blocks.
SwapCells     == (c1 :> c2) @@ (c2 :> c1) @@ (b1 :> b2) @@ (b2 :> b1)
Symmetry      == Permutations(MCThreads) \cup {SwapCells}
=============================================================================
