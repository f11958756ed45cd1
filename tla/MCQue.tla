------------------------------- MODULE MCQue -------------------------------
(* An instance of Que for TLC. *)
EXTENDS Que

CONSTANTS t1, t2, t3, v1, v2

ThreeThreads == {t1, t2, t3}
TwoValues == {v1, v2}
AllOps == {"put", "get", "peek", "len", "isempty", "isfull"}
=============================================================================
