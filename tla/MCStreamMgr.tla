---------------------------- MODULE MCStreamMgr ----------------------------
(***************************************************************************)
(* An instance of StreamMgr for TLC: an H.264 channel that shares the pump *)
(* with a JPEG channel.                                                    *)
(***************************************************************************)
EXTENDS StreamMgr

JpegNext == <<"H264", "JPEG">>
MCMixed == [c \in 0 .. 1 |-> JpegNext[c + 1]]
MCBoth == {0, 1}
=============================================================================
