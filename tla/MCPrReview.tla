----------------------------- MODULE MCPrReview -----------------------------
(***************************************************************************)
(* Small instances of PrReview.  Two lines of one file lie in one hunk.    *)
(* The first is where the hunk starts, so that the hunk's fingerprint h1   *)
(* is also the line's own, taken without a diff; the second line's own     *)
(* fingerprint is l2.  A third line has a file and a hunk to itself.       *)
(***************************************************************************)
EXTENDS PrReview

CONSTANTS h1, h2, l2, s1, s2, s3, f1, f2

AllSites == {s1, s2, s3}
OneFile == {s1, s2}
TwoFiles == {s1, s3}
File == [s \in AllSites |-> IF s = s3 THEN f2 ELSE f1]

Own(s) == CASE s = s1 -> h1 [] s = s2 -> l2 [] s = s3 -> h2
Around(s) == IF s = s3 THEN h2 ELSE h1

Loc == [s \in Sites |-> Own(s)]
OneHunking == {[s \in Sites |-> Around(s)]}
=============================================================================
