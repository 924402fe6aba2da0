------------------------------ MODULE TurnsMC ------------------------------
(* Small instances of Turns for TLC.                                       *)
EXTENDS Turns, TLC

CONSTANTS w1, w2, w3, k1, k2, i1, i2

OneWorker    == {w1}
TwoWorkers   == {w1, w2}
ThreeWorkers == {w1, w2, w3}
OneKey       == {k1}
TwoKeys      == {k1, k2}
OneId        == {i1}
TwoIds       == {i1, i2}

(* Workers, keys and ids are only compared for equality.                   *)
Symmetry == Permutations(Workers) \cup Permutations(Keys) \cup Permutations(Ids)
=============================================================================
