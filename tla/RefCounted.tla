----------------------------- MODULE RefCounted -----------------------------
(***************************************************************************)
(* What the driver promises for an object that several parties share: it   *)
(* is created with one reference, only a party that has a reference can    *)
(* take another one or put the object to use, and it is reclaimed once and *)
(* only when there is neither a reference nor a use left.                  *)
(***************************************************************************)
EXTENDS Naturals

CONSTANT Objects

VARIABLES
    live,    \* the objects created and not yet reclaimed
    refs,    \* refs[o]: references to o
    uses     \* uses[o]: uses of o that are not over

vars == <<live, refs, uses>>

Init ==
    /\ live = {}
    /\ refs = [o \in Objects |-> 0]
    /\ uses = [o \in Objects |-> 0]

Create(o) ==
    /\ o \notin live
    /\ live' = live \cup {o}
    /\ refs' = [refs EXCEPT ![o] = 1]
    /\ UNCHANGED uses

Reference(o) ==
    /\ refs[o] > 0
    /\ refs' = [refs EXCEPT ![o] = @ + 1]
    /\ UNCHANGED <<live, uses>>

Dereference(o) ==
    /\ refs[o] > 0
    /\ refs' = [refs EXCEPT ![o] = @ - 1]
    /\ UNCHANGED <<live, uses>>

Use(o) ==
    /\ refs[o] > 0
    /\ uses' = [uses EXCEPT ![o] = @ + 1]
    /\ UNCHANGED <<live, refs>>

EndUse(o) ==
    /\ uses[o] > 0
    /\ uses' = [uses EXCEPT ![o] = @ - 1]
    /\ UNCHANGED <<live, refs>>

Reclaim(o) ==
    /\ o \in live /\ refs[o] = 0 /\ uses[o] = 0
    /\ live' = live \ {o}
    /\ UNCHANGED <<refs, uses>>

Next ==
    \E o \in Objects :
        \/ Create(o) \/ Reclaim(o)
        \/ Reference(o) \/ Dereference(o)
        \/ Use(o) \/ EndUse(o)

Spec == Init /\ [][Next]_vars
=============================================================================
