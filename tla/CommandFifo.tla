---------------------------- MODULE CommandFifo ----------------------------
(***************************************************************************)
(* What the driver promises for the commands it accepts for the firmware:  *)
(* each is executed exactly once and in the order of acceptance, whether   *)
(* it went straight to the kernel CCB or was deferred on the way.          *)
(***************************************************************************)
EXTENDS Sequences

CONSTANT Commands

VARIABLE queue      \* accepted and not yet executed, oldest first

Init == queue = <<>>

Accept(c) == queue' = Append(queue, c)

Execute == queue # <<>> /\ queue' = Tail(queue)

Next == Execute \/ \E c \in Commands : Accept(c)

Spec == Init /\ [][Next]_queue
=============================================================================
