---------------------------- MODULE MC_PageSharing ----------------------------
(* Small instances of PageSharing for TLC: two other processes and our    *)
(* own, two DLLs and an executable, two drivers.                          *)
EXTENDS PageSharing, TLC

CONSTANTS p1, p2, self, a, b, x, k1, k2

MCProcOrder == << p1, self, p2 >>
MCUserMods == {a, b, x}
MCUserMods2 == {a, x}
MCKernelMods == {k1, k2}
MCModOrder == << a, b, x, k1, k2 >>
MCModOrder2 == << a, x, k1, k2 >>
MCAllFaults == FaultKinds
MCVersionFault == {"version"}
MCNoFaults == {}

=============================================================================
