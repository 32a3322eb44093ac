------------------------ MODULE MCInboundScheduler ------------------------
(* Instances of InboundScheduler for TLC: three request IDs, the     *)
(* limits small enough to be hit by a handful of frames.                    *)
EXTENDS InboundScheduler, TLC

CONSTANTS r1, r2, r3, m1

ThreeIds == {r1, r2, r3}
OneMessage == {m1}
ThreeSymmetry == Permutations({r1, r2, r3})
=============================================================================
