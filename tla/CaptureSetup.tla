---------------------------- MODULE CaptureSetup -----------------------------
(***************************************************************************)
(* The capture chain together with the attributes it is set up with.  No   *)
(* step of the chain depends on the kind of sensor or on the settings of   *)
(* an encoder, so those are not variables: what boot brought up is right   *)
(* when it is right for all of them.                                       *)
(***************************************************************************)
EXTENDS Capture, Encoding

\* When a pipe stands, the receiver, device, pipe, channel and ISP of whatever
\* sensor is configured were set up for one picture (SAMPLE_COMM_VI_StartVi).
SetUpForOnePicture == (\E v \in Vs : <<"pipe", v>> \in up) => SensorTablesAgree

\* When an encoder stands, it was made with bit rates in order, whatever encoding,
\* rate control, size and sensor are configured (__venc_init).
EncodersSetUp == (\E n \in 0 .. Encoders : <<"enc", n>> \in up) => EncodersSane
=============================================================================
