----------------------------- MODULE TLStreamMC -----------------------------
(* Instances of TLStream for TLC. *)
EXTENDS TLStream

CONSTANTS w1, w2

MCWriters == {w1, w2}
AllModes  == {"BLOCK", "DROP_NEWER", "DROP_OLDEST"}
=============================================================================
