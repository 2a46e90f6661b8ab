---------------------------- MODULE ConnectionMC ----------------------------
(* Instances of Connection for TLC. *)
EXTENDS Connection, TLC

CONSTANTS t1, t2, t3, c1, c2, p1, p2,
          ctx, priv, freelist, dataset, fence

MCThreads   == {t1, t2, t3}
MCConns     == {c1, c2}
MCProcBases == {p1, p2}
MCBases     == MCConns \cup MCProcBases
MCConnOf    == (t1 :> c1) @@ (t2 :> c1) @@ (t3 :> c2)
MCHandles   == {ctx, priv, freelist, dataset, fence}
MCHomeOf    == (ctx :> c1) @@ (priv :> c1) @@ (freelist :> c1)
               @@ (dataset :> c1) @@ (fence :> Process)
MCParent    == [h \in MCHandles |-> IF h = priv THEN ctx ELSE NoHandle]
MCTargets   == [h \in MCHandles |-> IF h = dataset THEN {freelist} ELSE {}]
MCBusyable  == {dataset}
MCRank      == (dataset :> 1) @@ (freelist :> 2) @@ (fence :> 3)
               @@ (priv :> 4) @@ (ctx :> 5)
=============================================================================
