--------------------------- MODULE MCConsolidation ---------------------------
(* Instances of Consolidation for TLC: a file with a block in it and one of *)
(* a single line, and reports that group in different ways.                 *)
EXTENDS Consolidation

CONSTANTS a1, a2, a3, a4

TwoFiles == {1, 2}

(* A header, three lines in its block, a blank line, a line outside.        *)
Layout == <<<<0, 4, 4, 4, -1, 0>>, <<0>>>>
Additions == <<{2, 3, 6}, {1}>>

Report(a, f, l, s, r) == [agent |-> a, file |-> f, line |-> l, span |-> s, rank |-> r]

(* Nothing; one finding; one in each file; two close by, the surer one with *)
(* a replacement of its own line; three of which two agree, and one in the  *)
(* other file; four on a line, which are two groups.                        *)
Reports ==
  {<< >>,
   <<Report(a1, 1, 3, 1, 1)>>,
   <<Report(a1, 1, 3, 2, 1), Report(a2, 2, 1, 1, 1)>>,
   <<Report(a2, 1, 3, 1, 2), Report(a1, 1, 2, 2, 1)>>,
   <<Report(a1, 1, 2, 2, 1), Report(a2, 2, 1, 1, 1), Report(a3, 1, 3, 0, 1),
     Report(a4, 1, 3, 0, 1)>>,
   <<Report(a1, 1, 2, 0, 1), Report(a2, 1, 2, 2, 1), Report(a3, 1, 2, 1, 1),
     Report(a4, 1, 2, 2, 1)>>}

SomeLines == {1, 2, 3, 5, 6}
UpToThree == 1..3
=============================================================================
