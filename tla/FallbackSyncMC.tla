--------------------------- MODULE FallbackSyncMC ---------------------------
(* Instances of FallbackSync for TLC: process A owns both timelines and may *)
(* die, a thread of B imports its fences.                                   *)
EXTENDS FallbackSync, TLC

CONSTANTS ta, tb, A, B, c1, c2

MCClients == {ta, tb}
MCProc    == (ta :> A) @@ (tb :> B)
MCContextOf == (ta :> c2) @@ (tb :> c2)
MCCallsOf == (ta :> {"create", "advance", "resolve", "destroy"})
             @@ (tb :> {"import", "merge", "wait"})
MergesToo == [MCCallsOf EXCEPT ![ta] = {"create", "merge", "destroy"}]
MCOwner   == [tl \in Timelines |-> A]
=============================================================================
