------------------------------- MODULE MCShim -------------------------------
(* Instances of Shim, and of the broker it talks to, for TLC.               *)
EXTENDS Shim, TLC

CONSTANTS r1, r2

OneId == {r1}
TwoIds == {r1, r2}
=============================================================================
