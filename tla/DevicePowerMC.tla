--------------------------- MODULE DevicePowerMC ---------------------------
(* Instances of DevicePower for TLC. *)
EXTENDS DevicePower, TLC

CONSTANTS t1, t2

MCThreads == {t1, t2}
OneThread == {t1}
Symmetry  == Permutations(MCThreads)

\* Every caller in the driver that heeds the results it is given; suspend
\* and resume stand for the system transitions.
AllEntryPoints   == Ops \ {"CLOCK_DEBUGFS", "POWER_DOWN", "POWER_UP"}
\* Kicks against system transitions and a unit change, for faulty hardware.
FaultEntryPoints == {"SCHEDULE", "SUSPEND", "RESUME", "UNITS"}
\* What takes an idle GPU out of idleness, with the unforced transitions of
\* the driver's shutdown.
LiveEntryPoints  == {"SCHEDULE", "POWER_DOWN", "POWER_UP", "CLOCK"}
\* The sunxi debugfs files, next to applications that keep the GPU busy.
DebugfsEntryPoints == {"CLOCK_DEBUGFS", "SCHEDULE"}
=============================================================================
