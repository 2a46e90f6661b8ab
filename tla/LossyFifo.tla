----------------------------- MODULE LossyFifo -----------------------------
(***************************************************************************)
(* What a Transport Layer stream promises: packets reach the reader whole, *)
(* once and in the order of commit; only the oldest ones are ever thrown   *)
(* away, only in drop-oldest mode, and never while the reader holds any.   *)
(***************************************************************************)
EXTENDS Naturals, Sequences

CONSTANT Packets

VARIABLES
    queue,      \* packets committed and not yet released, oldest first
    held,       \* how many of them the reader has acquired
    mayDrop     \* the stream is in drop-oldest mode

vars == <<queue, held, mayDrop>>

\* The queue without its n oldest packets.
Without(n) == SubSeq(queue, n + 1, Len(queue))

Init == queue = <<>> /\ held = 0 /\ mayDrop \in BOOLEAN

Put(p) == queue' = Append(queue, p) /\ UNCHANGED <<held, mayDrop>>

\* The writer makes room.
Drop ==
    /\ held = 0 /\ mayDrop
    /\ \E n \in 1..Len(queue) : queue' = Without(n)
    /\ UNCHANGED <<held, mayDrop>>

Acquire ==
    /\ held = 0
    /\ held' \in 1..Len(queue)
    /\ UNCHANGED <<queue, mayDrop>>

\* The reader returns some or all of what it holds, or none when it closes.
Release ==
    /\ \E n \in 0..held : queue' = Without(n)
    /\ held' = 0
    /\ UNCHANGED mayDrop

\* A reader that opens the stream may ask for it to be emptied.
Reset == held = 0 /\ queue' = <<>> /\ UNCHANGED <<held, mayDrop>>

Reconfigure == mayDrop' \in BOOLEAN /\ UNCHANGED <<queue, held>>

Next ==
    \/ \E p \in Packets : Put(p)
    \/ Drop \/ Acquire \/ Release \/ Reset \/ Reconfigure

Spec == Init /\ [][Next]_vars
=============================================================================
