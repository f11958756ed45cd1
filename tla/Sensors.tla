------------------------------- MODULE Sensors -------------------------------
(***************************************************************************)
(* What the capture chain is set up with for each kind of sensor: the      *)
(* tables of mod/vsf-hi3516d/sample/sample_comm_vi.c and _isp.c and the    *)
(* functions that choose from them, as mod/vsf-hi3516d/src/hal/vi.c uses   *)
(* them.  Six places choose by the kind, each with a switch of its own:    *)
(* the MIPI receiver, the device, the pipe, the channel, the ISP and the   *)
(* picture size and frame rate the rest of the process is told.            *)
(***************************************************************************)
EXTENDS Integers, Sequences, FiniteSets, TLC

\* SAMPLE_SNS_TYPE_E, each name without its maker and what its model implies.
SensorTypes == {"IMX327", "IMX327_WDR", "IMX327_2L", "IMX327_2L_WDR", "IMX307", "IMX307_WDR",
  "IMX335_5M", "IMX335_5M_WDR", "IMX335_4M", "IMX335_4M_WDR", "IMX458_8M", "IMX458_12M_20FPS",
  "IMX458_4M_60FPS", "IMX458_4M_40FPS", "IMX458_2M_90FPS", "IMX458_1M_129FPS", "MN34220",
  "OS05A", "OS05A_WDR"}
WdrTypes == {"IMX327_WDR", "IMX327_2L_WDR", "IMX307_WDR", "IMX335_5M_WDR", "IMX335_4M_WDR",
  "OS05A_WDR"}
TwoLaneTypes == {"IMX327_2L", "IMX327_2L_WDR"}

\* The configuration file may hold any number.
Configurable == SensorTypes \cup {"unlisted"}
-----------------------------------------------------------------------------
(***************************************************************************)
(* SAMPLE_COMM_SYS_GetPicSize                                              *)
(***************************************************************************)
PicSizes == [
  PIC_CIF |-> <<352, 288>>, PIC_360P |-> <<640, 360>>, PIC_D1_PAL |-> <<720, 576>>,
  PIC_D1_NTSC |-> <<720, 480>>, PIC_720P |-> <<1280, 720>>, PIC_1080P |-> <<1920, 1080>>,
  PIC_2592x1520 |-> <<2592, 1520>>, PIC_2592x1944 |-> <<2592, 1944>>,
  PIC_2592x1536 |-> <<2592, 1536>>, PIC_2716x1524 |-> <<2716, 1524>>,
  PIC_3840x2160 |-> <<3840, 2160>>, PIC_3000x3000 |-> <<3000, 3000>>,
  PIC_4000x3000 |-> <<4000, 3000>>, PIC_4096x2160 |-> <<4096, 2160>>,
  PIC_7680x4320 |-> <<7680, 4320>>, PIC_3840x8640 |-> <<3840, 8640>>,
  PIC_2688x1536 |-> <<2688, 1536>>]
-----------------------------------------------------------------------------
(***************************************************************************)
(* The receiver: which picture it cuts out, how wide a sample is, how many *)
(* exposures come and on which lanes.                                      *)
(***************************************************************************)
Combo(rect, bits, wdr, lanes) ==
  [input |-> "MIPI", devno |-> 0, rect |-> rect, bits |-> bits, wdr |-> wdr, lanes |-> lanes]
FourLanes == <<0, 1, 2, 3>>
Whole(w, h) == <<0, 0, w, h>>

IMX327Combos == [
  IMX327 |-> Combo(Whole(1920, 1080), 12, "NONE", FourLanes),
  IMX327_WDR |-> Combo(Whole(1920, 1080), 12, "DOL", FourLanes)]
TwoLaneCombos == [
  IMX327_2L |-> <<Combo(Whole(1920, 1080), 12, "NONE", <<0, 2>>),
                  [Combo(Whole(1920, 1080), 12, "NONE", <<0, 1>>) EXCEPT !.devno = 1]>>,
  IMX327_2L_WDR |-> <<Combo(Whole(1920, 1080), 12, "DOL", <<0, 2>>),
                      [Combo(Whole(1920, 1080), 12, "DOL", <<0, 1>>) EXCEPT !.devno = 1]>>]
IMX307Combos == [
  IMX307 |-> Combo(Whole(1920, 1080), 12, "NONE", FourLanes),
  IMX307_WDR |-> Combo(Whole(1920, 1080), 12, "DOL", FourLanes)]
MN34220Combos == [
  MN34220 |-> [Combo(Whole(1920, 1080), 12, "NONE", <<0, 2, 1, 3>>) EXCEPT !.input = "LVDS"]]
IMX335Combos == [
  IMX335_5M |-> Combo(Whole(2592, 1944), 12, "NONE", FourLanes),
  IMX335_5M_WDR |-> Combo(Whole(2592, 1944), 10, "VC", FourLanes),
  IMX335_4M |-> Combo(<<0, 204, 2592, 1536>>, 12, "NONE", FourLanes),
  IMX335_4M_WDR |-> Combo(<<0, 204, 2592, 1536>>, 10, "VC", FourLanes)]
IMX458Combos == [
  IMX458_8M |-> Combo(Whole(3840, 2160), 10, "NONE", FourLanes),
  IMX458_12M_20FPS |-> Combo(Whole(4000, 3000), 10, "NONE", FourLanes),
  IMX458_4M_60FPS |-> Combo(Whole(2716, 1524), 10, "NONE", FourLanes),
  IMX458_4M_40FPS |-> Combo(Whole(2716, 1524), 10, "NONE", FourLanes),
  IMX458_2M_90FPS |-> Combo(Whole(1920, 1080), 10, "NONE", FourLanes),
  IMX458_1M_129FPS |-> Combo(Whole(1280, 720), 10, "NONE", FourLanes)]
OS05ACombos == [
  OS05A |-> Combo(<<0, 204, 2688, 1536>>, 12, "NONE", FourLanes),
  OS05A_WDR |-> Combo(<<0, 204, 2688, 1536>>, 10, "VC", FourLanes)]

\* A two-lane sensor on another receiver than 0 and 1 leaves the attributes unset.
GetComboAttrBySns(s, dev) ==
  LET table == IMX327Combos @@ IMX307Combos @@ MN34220Combos @@ IMX335Combos @@ IMX458Combos
               @@ OS05ACombos
  IN CASE s \in TwoLaneTypes /\ dev \in {0, 1} -> TwoLaneCombos[s][dev + 1]
       [] s \in TwoLaneTypes -> [devno |-> -1]
       [] s \in DOMAIN table -> table[s]
       [] OTHER -> IMX327Combos.IMX327

\* Which receiver the sensor with index i is on; vi.c asks for index 0 only.
GetComboDevBySensor(s, i) == IF i = 1 /\ s \in SensorTypes \ TwoLaneTypes THEN 2 ELSE 0
GetMipiLaneDivideMode(s) == IF s \in TwoLaneTypes THEN 1 ELSE 0
-----------------------------------------------------------------------------
(***************************************************************************)
(* The device.  au32ComponentMask says how many bits of a sample count:    *)
(* 0xFFF00000 keeps 12, 0xFFC00000 keeps 10.                               *)
(***************************************************************************)
Dev(w, h, bits) == [input |-> "MIPI", bits |-> bits, size |-> <<w, h>>, lines |-> h]

IMX327_2M_BASE == Dev(1920, 1080, 12)
IMX307_2M_BASE == Dev(1920, 1080, 12)
MN34220_2M_BASE == [Dev(1920, 1080, 12) EXCEPT !.input = "LVDS"]
IMX335_5M_BASE == Dev(2592, 1944, 12)
IMX335_4M_BASE == Dev(2592, 1536, 12)
IMX458_8M_BASE == Dev(3840, 2160, 10)
IMX458_12M_BASE == Dev(4000, 3000, 10)
IMX458_4M_BASE == Dev(2716, 1524, 10)
IMX458_2M_BASE == Dev(1920, 1080, 10)
IMX458_1M_BASE == Dev(1280, 720, 10)
OS05A_4M_BASE == Dev(2688, 1536, 12)

\* What GetDevAttrBySns copies; the mutant of it stops here.
DevBase(s) ==
  CASE s \in {"IMX307", "IMX307_WDR"} -> IMX307_2M_BASE
    [] s = "MN34220" -> MN34220_2M_BASE
    [] s \in {"IMX335_5M", "IMX335_5M_WDR"} -> IMX335_5M_BASE
    [] s \in {"IMX335_4M", "IMX335_4M_WDR"} -> IMX335_4M_BASE
    [] s = "IMX458_8M" -> IMX458_8M_BASE
    [] s = "IMX458_12M_20FPS" -> IMX458_12M_BASE
    [] s \in {"IMX458_4M_60FPS", "IMX458_4M_40FPS"} -> IMX458_4M_BASE
    [] s = "IMX458_2M_90FPS" -> IMX458_2M_BASE
    [] s = "IMX458_1M_129FPS" -> IMX458_1M_BASE
    [] s \in {"OS05A", "OS05A_WDR"} -> OS05A_4M_BASE
    [] OTHER -> IMX327_2M_BASE

\* The copy, and the mask of 10 bits set in it for the WDR modes of four lanes.
GetDevAttrBySns(s) ==
  IF s \in WdrTypes \ TwoLaneTypes THEN [DevBase(s) EXCEPT !.bits = 10] ELSE DevBase(s)
-----------------------------------------------------------------------------
(***************************************************************************)
(* The pipe and the channel behind it.                                     *)
(***************************************************************************)
Pipe(w, h, bits) == [size |-> <<w, h>>, bits |-> bits, pixels |-> bits]

PIPE_1920x1080_RAW12 == Pipe(1920, 1080, 12)
PIPE_2592x1944_RAW12 == Pipe(2592, 1944, 12)
PIPE_2592x1944_RAW10 == Pipe(2592, 1944, 10)
PIPE_2592x1536_RAW12 == Pipe(2592, 1536, 12)
PIPE_2592x1536_RAW10 == Pipe(2592, 1536, 10)
PIPE_3840x2160_RAW10 == Pipe(3840, 2160, 10)
PIPE_4000x3000_RAW10 == Pipe(4000, 3000, 10)
PIPE_2716x1524_RAW10 == Pipe(2716, 1524, 10)
PIPE_1920x1080_RAW10 == Pipe(1920, 1080, 10)
PIPE_1280x720_RAW10 == Pipe(1280, 720, 10)
PIPE_2688x1536_RAW12 == Pipe(2688, 1536, 12)
PIPE_2688x1536_RAW10 == Pipe(2688, 1536, 10)

GetPipeAttrBySns(s) ==
  CASE s \in {"IMX327_WDR", "IMX307_WDR"} ->
         [PIPE_1920x1080_RAW12 EXCEPT !.pixels = 10, !.bits = 10]
    [] s = "IMX335_5M" -> PIPE_2592x1944_RAW12
    [] s = "IMX335_5M_WDR" -> PIPE_2592x1944_RAW10
    [] s = "IMX335_4M" -> PIPE_2592x1536_RAW12
    [] s = "IMX335_4M_WDR" -> PIPE_2592x1536_RAW10
    [] s = "IMX458_8M" -> PIPE_3840x2160_RAW10
    [] s = "IMX458_12M_20FPS" -> PIPE_4000x3000_RAW10
    [] s \in {"IMX458_4M_60FPS", "IMX458_4M_40FPS"} -> PIPE_2716x1524_RAW10
    [] s = "IMX458_2M_90FPS" -> PIPE_1920x1080_RAW10
    [] s = "IMX458_1M_129FPS" -> PIPE_1280x720_RAW10
    [] s = "OS05A" -> PIPE_2688x1536_RAW12
    [] s = "OS05A_WDR" -> PIPE_2688x1536_RAW10
    [] OTHER -> PIPE_1920x1080_RAW12

CHN_1920x1080 == <<1920, 1080>>
CHN_2592x1944 == <<2592, 1944>>
CHN_2592x1536 == <<2592, 1536>>
CHN_4000x3000 == <<4000, 3000>>
CHN_3840x2160 == <<3840, 2160>>
CHN_2716x1524 == <<2716, 1524>>
CHN_1280x720 == <<1280, 720>>
CHN_2688x1536 == <<2688, 1536>>

GetChnAttrBySns(s) ==
  CASE s \in {"IMX335_5M", "IMX335_5M_WDR"} -> CHN_2592x1944
    [] s \in {"IMX335_4M", "IMX335_4M_WDR"} -> CHN_2592x1536
    [] s = "IMX458_8M" -> CHN_3840x2160
    [] s = "IMX458_12M_20FPS" -> CHN_4000x3000
    [] s \in {"IMX458_4M_60FPS", "IMX458_4M_40FPS"} -> CHN_2716x1524
    [] s = "IMX458_1M_129FPS" -> CHN_1280x720
    [] s \in {"OS05A", "OS05A_WDR"} -> CHN_2688x1536
    [] OTHER -> CHN_1920x1080
-----------------------------------------------------------------------------
(***************************************************************************)
(* The ISP: the window it works on, what the sensor has, frames in a       *)
(* hundred seconds.  The driver of the sensor is chosen by the kind the    *)
(* program was built for, SENSOR0_TYPE, and not by the configuration.      *)
(***************************************************************************)
Isp(w, h, sw, sh, fps) == [size |-> <<w, h>>, sensor |-> <<sw, sh>>, fps |-> fps]

IMX327Isp == Isp(1920, 1080, 1920, 1080, 3000)
IMX307Isp == Isp(1920, 1080, 1920, 1080, 3000)
MN34220Isp == Isp(1920, 1080, 1920, 1080, 3000)
IMX335_5M_Isp == Isp(2592, 1944, 2592, 1944, 3000)
IMX335_4M_Isp == Isp(2592, 1536, 2592, 1944, 3000)
IMX458Isps == [
  IMX458_8M |-> Isp(3840, 2160, 3840, 2160, 3000),
  IMX458_12M_20FPS |-> Isp(4000, 3000, 4000, 3000, 1998),
  IMX458_4M_60FPS |-> Isp(2716, 1524, 2716, 1524, 5994),
  IMX458_4M_40FPS |-> Isp(2716, 1524, 2716, 1524, 4062),
  IMX458_2M_90FPS |-> Isp(1920, 1080, 1920, 1080, 9011),
  IMX458_1M_129FPS |-> Isp(1280, 720, 1280, 720, 12880)]
OS05AIsp == Isp(2688, 1536, 2688, 1944, 3000)

GetIspAttrBySns(s) ==
  CASE s \in {"IMX307", "IMX307_WDR"} -> IMX307Isp
    [] s = "MN34220" -> MN34220Isp
    [] s \in {"IMX335_5M", "IMX335_5M_WDR"} -> IMX335_5M_Isp
    [] s \in {"IMX335_4M", "IMX335_4M_WDR"} -> IMX335_4M_Isp
    [] s \in DOMAIN IMX458Isps -> IMX458Isps[s]
    [] s \in {"OS05A", "OS05A_WDR"} -> OS05AIsp
    [] OTHER -> IMX327Isp

GetSnsObj(build) ==
  CASE build \in {"IMX327", "IMX327_WDR"} -> "Imx327"
    [] build \in TwoLaneTypes -> "Imx327_2l"
    [] build \in {"IMX307", "IMX307_WDR"} -> "Imx307"
    [] build \in {"IMX335_5M", "IMX335_5M_WDR", "IMX335_4M", "IMX335_4M_WDR"} -> "Imx335"
    [] build \in DOMAIN IMX458Isps -> "Imx458"
    [] build = "MN34220" -> "Mn34220"
    [] build \in {"OS05A", "OS05A_WDR"} -> "Os05a"
    [] OTHER -> "none"
-----------------------------------------------------------------------------
(***************************************************************************)
(* What the rest of the process is told.                                   *)
(***************************************************************************)
GetSizeBySensor(s) ==
  CASE s \in {"IMX335_5M", "IMX335_5M_WDR"} -> "PIC_2592x1944"
    [] s \in {"IMX335_4M", "IMX335_4M_WDR"} -> "PIC_2592x1536"
    [] s = "IMX458_8M" -> "PIC_3840x2160"
    [] s = "IMX458_12M_20FPS" -> "PIC_4000x3000"
    [] s \in {"IMX458_4M_60FPS", "IMX458_4M_40FPS"} -> "PIC_2716x1524"
    [] s = "IMX458_1M_129FPS" -> "PIC_720P"
    [] s \in {"OS05A", "OS05A_WDR"} -> "PIC_2688x1536"
    [] OTHER -> "PIC_1080P"

GetFrameRateBySensor(s) ==
  CASE s = "IMX458_12M_20FPS" -> 20
    [] s = "IMX458_4M_60FPS" -> 60
    [] s = "IMX458_4M_40FPS" -> 40
    [] s = "IMX458_2M_90FPS" -> 90
    [] s = "IMX458_1M_129FPS" -> 129
    [] OTHER -> 30

\* u32StatIntvl of __vi_init: of how many frames the ISP takes statistics of one.
StatInterval(s) == GetFrameRateBySensor(s) \div 30

\* The attributes SAMPLE_COMM_VI_SetMipiAttr hands to the receiver.
MipiAttr(s) ==
  LET dev == GetComboDevBySensor(s, 0) IN [GetComboAttrBySns(s, dev) EXCEPT !.devno = dev]
-----------------------------------------------------------------------------
\* Receivers that take 12 bits of which the device and the pipe take 10.
Narrowed == {"IMX327_WDR", "IMX307_WDR"}

\* Whatever kind the configuration names, all six tables speak of one picture: the
\* receiver cuts out, and the device, pipe, channel and ISP work on, the same width
\* and height, inside of what the sensor has, with samples of the same width, from
\* the input and as many lanes as the device and the division of the lanes say; the
\* rate the process is told is that of the ISP to less than one frame in a second.
\* The exceptions are in the code: the receiver of the four-lane IMX327 and IMX307
\* takes 12 bits in WDR mode and the device 10, and the 12M mode has a statistics
\* interval of 0 frames (SAMPLE_COMM_VI_StartVi, __vi_init).  The device and the ISP
\* are always set up without WDR: vi.c ignores the mode of the configuration.
SensorTablesAgree ==
  \A s \in Configurable :
    LET mipi == MipiAttr(s)
        dev == GetDevAttrBySns(s)
        pipe == GetPipeAttrBySns(s)
        isp == GetIspAttrBySns(s)
        frames == 100 * GetFrameRateBySensor(s)
    IN /\ {<<mipi.rect[3], mipi.rect[4]>>, dev.size, pipe.size, GetChnAttrBySns(s), isp.size,
           PicSizes[GetSizeBySensor(s)]} = {dev.size}
       /\ \A k \in {1, 2} : mipi.rect[k] + isp.size[k] <= isp.sensor[k]
       /\ pipe.bits = dev.bits /\ pipe.pixels = dev.bits
       /\ mipi.bits = IF s \in Narrowed THEN dev.bits + 2 ELSE dev.bits
       /\ mipi.input = dev.input
       /\ Len(mipi.lanes) = IF GetMipiLaneDivideMode(s) = 1 THEN 2 ELSE 4
       /\ (mipi.wdr # "NONE") = (s \in WdrTypes)
       /\ frames - isp.fps \in -99 .. 99
       /\ StatInterval(s) = 0 <=> s = "IMX458_12M_20FPS"
       /\ s \in SensorTypes => GetSnsObj(s) # "none"
=============================================================================
