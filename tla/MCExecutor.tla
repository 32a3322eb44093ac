----------------------------- MODULE MCExecutor -----------------------------
(* Instances of Executor for TLC.                                          *)
EXTENDS Executor, TLC

CONSTANTS r1, r2, m1

OneId == {r1}
TwoIds == {r1, r2}
OneMessage == {m1}
Symmetry == Permutations({r1, r2})
=============================================================================
