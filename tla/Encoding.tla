------------------------------ MODULE Encoding -------------------------------
(***************************************************************************)
(* The attributes of an encoder: SAMPLE_COMM_VENC_Create of                *)
(* mod/vsf-hi3516d/src/hal/venc.c chooses frame and bit rates from the     *)
(* encoding, the rate control mode and the picture size, and mends what    *)
(* the encoding does not take.  Every mode has a table of its own.         *)
(* Bit rates are in kbit a second.                                         *)
(***************************************************************************)
EXTENDS Sensors

\* The configuration file may hold any number for each of these.
Payloads == {"H264", "H265", "MJPEG", "JPEG", "other"}
RcModes == {"CBR", "VBR", "AVBR", "QVBR", "CVBR", "QPMAP", "FIXQP", "other"}
GopModes == {"NORMALP", "SMARTP", "DUALP", "BIPREDB", "other"}
Profiles == 0 .. 2

Failure == [ok |-> FALSE]
-----------------------------------------------------------------------------
\* 1024 * base + k * frame rate / 30, for the picture sizes of a table.
Bits(t, size, fps) ==
  LET e == IF size \in DOMAIN t THEN t[size] ELSE t.default IN 1024 * e[1] + (e[2] * fps) \div 30

Rates == [
  PIC_720P |-> <<2, 1024>>, PIC_1080P |-> <<2, 2048>>, PIC_2592x1944 |-> <<3, 3072>>,
  PIC_3840x2160 |-> <<5, 5120>>, PIC_4000x3000 |-> <<10, 5120>>, PIC_7680x4320 |-> <<20, 5120>>,
  default |-> <<15, 2048>>]
RatesOf264 == [PIC_360P |-> <<2, 1024>>] @@ Rates
Peaks == [
  PIC_720P |-> <<3, 1024>>, PIC_1080P |-> <<2, 2048>>, PIC_2592x1944 |-> <<4, 3072>>,
  PIC_3840x2160 |-> <<8, 5120>>, PIC_4000x3000 |-> <<12, 5120>>, PIC_7680x4320 |-> <<24, 5120>>,
  default |-> <<24, 5120>>]
LongTermMin(size) ==
  LET t == [PIC_720P |-> 512, PIC_1080P |-> 1024, PIC_2592x1944 |-> 2048, PIC_3840x2160 |-> 3072,
            PIC_4000x3000 |-> 4096, PIC_7680x4320 |-> 6144, default |-> 5120]
  IN IF size \in DOMAIN t THEN t[size] ELSE t.default
RatesOfMjpeg == [
  PIC_360P |-> <<3, 1024>>, PIC_720P |-> <<5, 1024>>, PIC_1080P |-> <<8, 2048>>,
  PIC_2592x1944 |-> <<20, 3072>>, PIC_3840x2160 |-> <<25, 5120>>, PIC_4000x3000 |-> <<30, 5120>>,
  PIC_7680x4320 |-> <<40, 5120>>, default |-> <<20, 2048>>]

\* What rate control is told: the statistics time in seconds and the frame rates.
Rc(mode, stat, fps) == [mode |-> mode, stat |-> stat, src |-> fps, dst |-> fps]
UpTo(rc, max) == [max |-> max] @@ rc
LongTerm(rc, max, longMax, min) == [max |-> max, longMax |-> longMax, min |-> min] @@ rc

H265Cbr(size, stat, fps) == UpTo(Rc("H265CBR", stat, fps), Bits(Rates, size, fps))
H265FixQp(fps) == Rc("H265FIXQP", 1, fps)
H265Vbr(size, stat, fps) == UpTo(Rc("H265VBR", stat, fps), Bits(Rates, size, fps))
H265AVbr(size, stat, fps) == UpTo(Rc("H265AVBR", stat, fps), Bits(Rates, size, fps))
H265QVbr(size, stat, fps) == UpTo(Rc("H265QVBR", stat, fps), Bits(Rates, size, fps))
H265CVbr(size, stat, fps) ==
  LongTerm(Rc("H265CVBR", stat, fps), Bits(Peaks, size, fps), Bits(Rates, size, fps),
           LongTermMin(size))
H265QpMap(stat, fps) == Rc("H265QPMAP", stat, fps)

H264Cbr(size, stat, fps) == UpTo(Rc("H264CBR", stat, fps), Bits(Peaks, size, fps))
H264FixQp(fps) == Rc("H264FIXQP", 1, fps)
H264Vbr(size, stat, fps) == UpTo(Rc("H264VBR", stat, fps), Bits(RatesOf264, size, fps))
H264AVbr(size, stat, fps) == UpTo(Rc("H264AVBR", stat, fps), Bits(RatesOf264, size, fps))
H264QVbr(size, stat, fps) == UpTo(Rc("H264QVBR", stat, fps), Bits(RatesOf264, size, fps))
\* The mutant has the minimum and the maximum of the long term in each other's place.
H264CVbrSwapped(size, stat, fps) ==
  LongTerm(Rc("H264CVBR", stat, fps), Bits(Peaks, size, fps), LongTermMin(size),
           Bits(Rates, size, fps))
H264CVbr(size, stat, fps) ==
  LongTerm(Rc("H264CVBR", stat, fps), Bits(Peaks, size, fps), Bits(Rates, size, fps),
           LongTermMin(size))
H264QpMap(stat, fps) == Rc("H264QPMAP", stat, fps)

MjpegFixQp(fps) == Rc("MJPEGFIXQP", 1, fps)
MjpegCbr(size, stat, fps) == UpTo(Rc("MJPEGCBR", stat, fps), Bits(RatesOfMjpeg, size, fps))
MjpegVbr(size, stat, fps) ==
  UpTo([Rc("MJPEGVBR", stat, fps) EXCEPT !.dst = 5], Bits(RatesOfMjpeg, size, fps))

\* A mode that an encoding does not have, is refused.
H265Rc(rc, size, stat, fps) ==
  CASE rc = "CBR" -> H265Cbr(size, stat, fps)
    [] rc = "FIXQP" -> H265FixQp(fps)
    [] rc = "VBR" -> H265Vbr(size, stat, fps)
    [] rc = "AVBR" -> H265AVbr(size, stat, fps)
    [] rc = "QVBR" -> H265QVbr(size, stat, fps)
    [] rc = "CVBR" -> H265CVbr(size, stat, fps)
    [] rc = "QPMAP" -> H265QpMap(stat, fps)
    [] OTHER -> Failure
H264Rc(rc, size, stat, fps) ==
  CASE rc = "CBR" -> H264Cbr(size, stat, fps)
    [] rc = "FIXQP" -> H264FixQp(fps)
    [] rc = "VBR" -> H264Vbr(size, stat, fps)
    [] rc = "AVBR" -> H264AVbr(size, stat, fps)
    [] rc = "QVBR" -> H264QVbr(size, stat, fps)
    [] rc = "CVBR" -> H264CVbr(size, stat, fps)
    [] rc = "QPMAP" -> H264QpMap(stat, fps)
    [] OTHER -> Failure
MjpegRc(rc, size, stat, fps) ==
  CASE rc = "FIXQP" -> MjpegFixQp(fps)
    [] rc = "CBR" -> MjpegCbr(size, stat, fps)
    [] rc \in {"VBR", "AVBR", "QVBR", "CVBR"} -> MjpegVbr(size, stat, fps)
    [] OTHER -> Failure
\* JPEG sets no rate control.
RcOf(type, rc, size, stat, fps) ==
  CASE type = "H265" -> H265Rc(rc, size, stat, fps)
    [] type = "H264" -> H264Rc(rc, size, stat, fps)
    [] type = "MJPEG" -> MjpegRc(rc, size, stat, fps)
    [] type = "JPEG" -> [mode |-> "none"]
    [] OTHER -> Failure
-----------------------------------------------------------------------------
\* SAMPLE_COMM_VENC_GetGopAttr; the interval is of the background frames of SMARTP.
GetGopAttr(gop) ==
  CASE gop = "SMARTP" -> [gop |-> gop, interval |-> 90]
    [] gop \in {"NORMALP", "DUALP", "BIPREDB"} -> [gop |-> gop, interval |-> 0]
    [] OTHER -> Failure

Gop == 30
StatTime(attr) == IF attr.gop = "SMARTP" THEN attr.interval \div Gop ELSE 1

\* H.264 takes B frames from the main profile on; pictures on their own have no GOP.
ProfileOf(type, gop, profile) ==
  IF type = "H264" /\ gop = "BIPREDB" /\ profile = 0 THEN 1 ELSE profile
GopOf(type, gop) == IF type \in {"MJPEG", "JPEG"} THEN "NORMALP" ELSE gop

\* The channel __venc_init creates, in a program built for the sensor "build".
VencCreate(type, size, rc, profile, gop, build) ==
  LET attr == GetGopAttr(gop)
      control == RcOf(type, rc, size, StatTime(attr), GetFrameRateBySensor(build))
  IN IF attr = Failure \/ size \notin DOMAIN PicSizes THEN Failure
     ELSE IF control = Failure THEN Failure
     ELSE [ok |-> TRUE, rc |-> control, size |-> PicSizes[size],
           buf |-> 2 * PicSizes[size][1] * PicSizes[size][2],
           gop |-> GopOf(type, gop), profile |-> ProfileOf(type, gop, profile)]
-----------------------------------------------------------------------------
Area(size) == PicSizes[size][1] * PicSizes[size][2]
Has(e, field) == field \in DOMAIN e

\* The sizes for which the mode of an encoder has a rate of its own.
Listed(type, rc) ==
  (DOMAIN CASE type = "MJPEG" -> RatesOfMjpeg
            [] type = "H264" /\ rc \in {"VBR", "AVBR", "QVBR"} -> RatesOf264
            [] OTHER -> Rates) \ {"default"}

\* The 720p entries of these modes have a larger base than those of 1080p, which
\* shows below 30 frames a second.
Peaked(type, rc) ==
  \/ rc = "CVBR" /\ type \in {"H264", "H265"}
  \/ rc = "CBR" /\ type = "H264"

\* An encoder that is created has bit rates in order, the least of the long term
\* below the greatest and that below the peak, and counts over a whole second at
\* least; of the picture sizes its mode lists a larger one never gets fewer bits; and
\* nothing reaches the driver that the code says the encoding refuses.  A size that
\* a mode does not list gets the rate of the default entry, below 100 frames a second
\* in H.264 and H.265 more than a 4K picture (SAMPLE_COMM_VENC_Create).
EncodersSane ==
  \A type \in Payloads, rc \in RcModes, gop \in GopModes, build \in SensorTypes :
    LET created(size, profile) == VencCreate(type, size, rc, profile, gop, build)
        listed == Listed(type, rc)
        rate(size) == created(size, 0).rc.max
        fps == GetFrameRateBySensor(build)
    IN \A size \in DOMAIN PicSizes, profile \in Profiles :
         LET e == created(size, profile) IN
         e.ok =>
           /\ gop # "other" /\ type # "other" /\ (rc = "other" => type = "JPEG")
           /\ e.gop = "BIPREDB" => type \in {"H264", "H265"} /\ (type = "H264" => e.profile > 0)
           /\ Has(e.rc, "stat") => e.rc.stat > 0
           /\ Has(e.rc, "min") => e.rc.min <= e.rc.longMax /\ e.rc.longMax <= e.rc.max
           /\ Has(e.rc, "max") =>
                /\ \A other \in listed :
                     (size \in listed /\ Area(size) < Area(other) /\ rate(other) < rate(size)) =>
                       /\ fps < 30 /\ Peaked(type, rc)
                       /\ size = "PIC_720P" /\ other = "PIC_1080P"
                /\ (size \notin listed /\ type # "MJPEG" /\ fps < 100) => rate(size) > rate("PIC_3840x2160")
=============================================================================
