-------------------------- MODULE MCSummaryComment --------------------------
(* An instance of SummaryComment for TLC: two jobs that are alike.          *)
EXTENDS SummaryComment

CONSTANTS j1, j2

Alike == Permutations({j1, j2})
=============================================================================
