-------------------------- MODULE MCReplyTracking --------------------------
(* Instances of ReplyTracking for TLC: two threads, one of which may have   *)
(* an entry in the store of the machine, while other jobs may answer the    *)
(* second.                                                                  *)
EXTENDS ReplyTracking

CONSTANTS t1, t2

OneThread == {t1}
OtherThread == {t2}
=============================================================================
