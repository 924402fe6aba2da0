---------------------------- MODULE StaleReadsMC ----------------------------
(* Small instances of StaleReads for TLC.                                  *)
EXTENDS StaleReads

CONSTANTS w1, w2, k1, i1

TwoWorkers == {w1, w2}
OneKey     == {k1}
OneId      == {i1}
=============================================================================
