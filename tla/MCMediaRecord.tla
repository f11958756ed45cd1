--------------------------- MODULE MCMediaRecord ---------------------------
(***************************************************************************)
(* A ring in which a header, a description and the bytes of a pack run over*)
(* the end: a key frame of two packs, a frame of one, and frames whose     *)
(* first bytes are not to be read.                                         *)
(***************************************************************************)
EXTENDS MediaRecord

Pack(n) == [len |-> n, off |-> 0]
MCStreams == {<<Pack(2), Pack(1)>>, <<Pack(1)>>, <<Pack(3)>>}
MCOffset == {<<[len |-> 3, off |-> 1]>>, <<Pack(1)>>}
MCImages == {1, 4}
=============================================================================
