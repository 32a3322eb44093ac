---------------------------- MODULE MCDaemonActor ----------------------------
(* Instances of DaemonActor for TLC.                                       *)
EXTENDS DaemonActor, TLC

CONSTANTS i1, i2, e1, e2

OneRemote == {i1}
TwoRemotes == {i1, i2}
Symmetry == Permutations({i1, i2})

\* Every target reaches one and the same endpoint (aliases), its own endpoint
\* each, or now one and now the other (a target moved to another account).
Same == [i \in Ids |-> {e1}]
Own == [i \in Ids |-> IF i = i1 THEN {e1} ELSE {e2}]
OneMoves == [i \in Ids |-> IF i = i1 THEN {e1, e2} ELSE {e2}]
Moving == [i \in Ids |-> {e1, e2}]
=============================================================================
