----------------------------- MODULE MCOsdMgr -----------------------------
(* An instance of OsdMgr for TLC. *)
EXTENDS OsdMgr

\* Objects that start left of, inside, at the end of and right of the picture,
\* of lengths from nothing to more than what is left.
MCBoxes == [x : {-8, 0, 5, 15, 20}, y : {0, 3}, w : {0, 3, 7, 16}, h : {0, 3, 16}]
MCPoints == [x : {-1, 14}, y : {2, 16}]
=============================================================================
