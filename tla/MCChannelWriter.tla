-------------------------- MODULE MCChannelWriter --------------------------
(* Instances of ChannelWriter for TLC.                                     *)
EXTENDS ChannelWriter, TLC

CONSTANTS r1, r2, c1, c2

OneId == {r1}
TwoIds == {r1, r2}
NoClone == {}
OneClone == {c1}
TwoClones == {c1, c2}
Symmetry == Permutations({r1, r2}) \cup Permutations({c1, c2})
=============================================================================
