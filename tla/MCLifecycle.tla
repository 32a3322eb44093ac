----------------------------- MODULE MCLifecycle -----------------------------
(* Instances of Lifecycle for TLC. *)
EXTENDS Lifecycle, TLC

CONSTANTS p1, p2, d1, d2

TwoProcesses == {p1, p2}

\* Two processes race for a binary on Linux; on macOS one of them and the daemon.
OnePerMac == [linux |-> {p1, p2}, mac |-> {p1}]
Versions == [linux |-> 3, mac |-> 2]

TwoSlots == {d1, d2}
=============================================================================
