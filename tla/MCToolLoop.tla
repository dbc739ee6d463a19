----------------------------- MODULE MCToolLoop -----------------------------
(* Instances of ToolLoop for TLC.  The unit of time is a second of a run    *)
(* whose calls last one second or six, its tools none or two, and which     *)
(* has twelve.                                                              *)
EXTENDS ToolLoop

BothApis == {"anthropic", "openai"}
ShortOrLong == {1, 6}
QuickOrSlow == {0, 2}
OneWait == {3}
OneBackoff == {2}
EarlyOrLate == {0, 10, 13}
SmallOrLarge == {1, 3}
=============================================================================
