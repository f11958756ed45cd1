------------------------------- MODULE MCRpc -------------------------------
(***************************************************************************)
(* Instances of Rpc for TLC.  A process that is left out is one nobody     *)
(* sends requests to in that instance.                                     *)
(***************************************************************************)
EXTENDS Rpc

\* A key that is sent to the right process, with an action it has and one it
\* has not, and a key that is sent to the wrong one.
MCSomeForwards == {<<"APP_ALG", "SET">>, <<"APP_ALG", "TGR">>, <<"RTSP_SVR", "GET">>}
MCAllForwards == Keys \X Acts

\* The sets that change whether the FIFO of the frames exists: those of the
\* frames, and the one by which app turns the detector on or off when it boots.
MCSomeSets ==
  {<<t, "VSF_FRAME", "SET">> : t \in Threads} \cup {<<Main("app"), "APP_ALG", "SET">>}
=============================================================================
