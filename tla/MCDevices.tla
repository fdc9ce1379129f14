------------------------------ MODULE MCDevices -------------------------------
(* Values for TLC: see the README for what each bound leaves out. *)
EXTENDS Devices, TLC

CONSTANTS u1, u2, f1, c1, c2, r1, r2

MCUsers == {u1, u2}
MCPrints == {f1}
MCCodes == {c1, c2}
MCRequests == {r1, r2}
MCSymmetry == Permutations(MCUsers) \cup Permutations(MCCodes) \cup Permutations(MCRequests)
===============================================================================
