------------------------------ MODULE Packages ------------------------------
(***************************************************************************)
(* What a request carries and what a configuration file holds: the         *)
(* generated conversions (proto/jsonb/*.c, */cfg/cfg.c) between the        *)
(* structures and JSON, as one table of members per structure, with the    *)
(* two directions of the conversion and the length of the text it writes.  *)
(*                                                                         *)
(* A structure is described by its leaves, each with the path of member    *)
(* names that leads to it and the member of a union it is in, and by the   *)
(* most characters its text has, for each thing its union may say and for  *)
(* each number of characters one of a text may be written with.  The       *)
(* elements of an array are converted alike: one stands for all.           *)
(*                                                                         *)
(* The leaves' conversions (jsonb_opt_int, ...) and cJSON are libraries    *)
(* that are not in the repository: a leaf is read as it was written, and   *)
(* one that is missing from the text stays as it was.                      *)
(***************************************************************************)
EXTENDS Integers, Sequences, FiniteSetsExt

Conditions == {"mask", "texts", "objs", "none"}     \* "none" is no member of the union
Escapes == {1, 2, 6}                                \* as it is, \" and the like, \u0001
NoArm == "any"

\* A leaf, given the most characters it is written with.
Leaf(longest) == [leaves |-> {[path |-> <<>>, arm |-> NoArm]},
                     longest |-> [c \in Conditions |-> longest]]
Digits(text) == Leaf([e \in Escapes |-> Len(text)])
SInt == Digits("-2147483648")
UInt == Digits("4294967295")
UInt16 == Digits("65535")
UInt8 == Digits("255")
UInt64 == Digits("18446744073709551615")
Bool == Digits("false")
Text(size) == Leaf([e \in Escapes |-> 2 + (size - 1) * e])
Enum(names) == Leaf([e \in Escapes |-> 2 + Max({Len(n) : n \in names})])

\* A structure's members in the order they are converted in.
Member(name, type) == [name |-> name, type |-> type, count |-> 0]
Array(name, type, count) == [name |-> name, type |-> type, count |-> count]
All(names, type) == [i \in DOMAIN names |-> Member(names[i], type)]

Below(name, leaves) == {[l EXCEPT !.path = <<name>> \o @] : l \in leaves}
\* "name":value and the comma or the brace behind it
MemberText(m, c, e) ==
    LET one == m.type.longest[c][e]
    IN Len(m.name) + 4 + IF m.count = 0 THEN one ELSE 1 + m.count * (one + 1)

\* With the brace in front.
MembersText(members, c, e) ==
    LET upto[i \in 0..Len(members)] == IF i = 0 THEN 1 ELSE upto[i - 1] + MemberText(members[i], c, e)
    IN upto[Len(members)]

Struct(members) ==
    [leaves |-> UNION {Below(members[i].name, members[i].type.leaves) : i \in DOMAIN members},
     longest |-> [c \in Conditions |-> [e \in Escapes |-> MembersText(members, c, e)]]]

\* The text `condition` says which of the arms the memory behind it is.
Union(arms) ==
    LET condition(c) == Member("condition", Digits(c))
        arm(c) == Member(c, arms[c])
    IN [leaves |-> Below("condition", Text(32).leaves) \cup
                   UNION {{[l EXCEPT !.arm = c] : l \in Below(c, arms[c].leaves)} : c \in DOMAIN arms},
        longest |-> [c \in Conditions |-> [e \in Escapes |->
                       3 + MemberText(condition(c), c, e) +
                       (IF c \in DOMAIN arms THEN MemberText(arm(c), c, e) ELSE 0)]]]

(* proto_base *)
Num == Struct(<<Member("num", SInt)>>)
Point == Struct(All(<<"x", "y">>, SInt))
Size == Struct(All(<<"width", "height">>, UInt))
Rect == Struct(All(<<"x", "y">>, SInt) \o All(<<"w", "h">>, UInt))

\* What each process keeps of its objects: how many, what each can do and how
\* each is configured.
Kept(can, set, count) ==
    Struct(<<Member("num", Num), Array("caps", can, count), Array("cfgs", set, count)>>)

(* proto_bsp, proto_rtsp, proto_web, proto_app *)
DummyCfg == Struct(<<Member("value", SInt)>>)
DummyCap == Struct(<<Member("value", SInt)>>)
Dummy == Kept(DummyCap, DummyCfg, 8)

RtspSvrCfg == Struct(All(<<"id", "enable">>, SInt) \o <<Member("ip", Text(64)), Member("port", SInt)>>)
RtspSvrCap == Struct(All(<<"id", "dummy">>, SInt))
RtspSvr == Kept(RtspSvrCap, RtspSvrCfg, 1)

WebSvrCfg == Struct(All(<<"id", "enable">>, SInt) \o <<Member("ip", Text(64)), Member("port", SInt)>>)
WebSvrCap == Struct(All(<<"id", "dummy">>, SInt))
WebSvr == Kept(WebSvrCap, WebSvrCfg, 1)

AlgCfg == Struct(All(<<"id", "type", "enable">>, SInt) \o <<Member("algpath", Text(64))>>)
AlgCap == Struct(All(<<"id", "frame">>, SInt))
Alg == Kept(AlgCap, AlgCfg, 3)
AlgObj == Struct(All(<<"id", "score">>, SInt) \o
                 <<Member("rect", Rect), Array("keypoints", Point, 5)>>)
AlgResult == Struct(<<Member("num", SInt), Array("objs", AlgObj, 32)>>)

(* proto_vsf *)
ChnCfg == Struct(All(<<"id", "rotate">>, SInt) \o All(<<"freeze", "mirror">>, Bool))
ChnCap == Struct(All(<<"id", "chn">>, SInt))
Chn == Kept(ChnCap, ChnCap, 2)          \* as the generator's input has it

FrameCfg == Struct(All(<<"id", "enable", "format", "width", "height", "fps">>, SInt))
FrameCap == Struct(All(<<"id", "chn", "subchn">>, SInt))
Frame == Kept(FrameCap, FrameCfg, 8)

StreamCfg == Struct(All(<<"id", "enable", "encode", "width", "height", "fps">>, SInt))
StreamCap == Struct(All(<<"id", "chn", "subchn">>, SInt))
Stream == Kept(StreamCap, StreamCfg, 6)

OsdMask == Struct(<<Array("points", Point, 4), Member("color", UInt)>>)
OsdText == Struct(<<Member("point", Point), Member("size", UInt), Member("color", UInt),
                    Member("text", Text(32))>>)
OsdTexts == Struct(<<Member("num", UInt), Array("texts", OsdText, 8)>>)
OsdObj == Struct(<<Member("id", SInt), Member("color", UInt), Member("rect", Rect)>>)
OsdObjs == Struct(<<Member("num", UInt), Array("objs", OsdObj, 16)>>)
OsdUnion == Union([mask |-> OsdMask, texts |-> OsdTexts, objs |-> OsdObjs])
OsdCfg == Struct(All(<<"id", "enable">>, SInt) \o <<Member("info", OsdUnion)>>)
OsdCap == Struct(All(<<"id", "chn", "subchn">>, SInt))
Osd == Kept(OsdCap, OsdCfg, 16)

(* proto_hdr *)
Action == Enum({"PROTO_ACTION_NUM", "PROTO_ACTION_CAP", "PROTO_ACTION_GET", "PROTO_ACTION_SET",
                "PROTO_ACTION_TGR"})
Format == Enum({"PROTO_FORMAT_STRUCTE", "PROTO_FORMAT_JSON"})
Key == Enum({"PROTO_BSP_KEY_DUMMY", "PROTO_VSF_KEY_FRAME", "PROTO_VSF_KEY_STREAM",
             "PROTO_VSF_KEY_OSD", "PROTO_RTSP_KEY_SVR", "PROTO_WEB_KEY_SVR",
             "PROTO_APP_KEY_ALG", "PROTO_KEY_MAX"})
\* The header's data[] has no elements.
NoElements == [leaves |-> {}, longest |-> [c \in Conditions |-> [e \in Escapes |-> 2]]]
Header == Struct(<<Member("version", UInt8), Member("ts", UInt64), Member("chn", UInt8),
                   Member("key", Key), Member("action", Action), Member("errcode", UInt8),
                   Member("format", Format), Member("size", UInt16), Member("data", NoElements)>>)

(* the configuration files *)
FontCfg == Struct(<<Member("path", Text(64))>>)
VsfCfg == Struct(<<Member("frame", Frame), Member("stream", Stream), Member("osd", Osd),
                   Member("font", FontCfg)>>)
AppCfg == Struct(<<Member("alginfo", Alg)>>)
RtspCfg == Struct(<<Member("server", RtspSvr)>>)
WebCfg == Struct(<<Member("server", WebSvr)>>)
BspCfg == Struct(<<Member("dummy", Dummy)>>)

\* The sizes of the SDK's arrays are in headers the repository does not hold;
\* no text's length is computed from this one.
SdkMax == 2
VbPoolInfo == Struct(All(<<"u32BlkCnt", "u32Width", "u32Height">>, UInt))
VbInfo == Struct(<<Member("u32MaxPoolCnt", UInt), Array("astCommPool", VbPoolInfo, SdkMax)>>)
SysInfo == Struct(<<Member("stVbConf", VbInfo)>>)
ViSensorInfo == Struct(<<Member("enSnsType", UInt)>> \o All(<<"s32SnsId", "s32BusId", "MipiDev">>, SInt))
ViDevInfo == Struct(<<Member("ViDev", SInt), Member("enWDRMode", UInt)>>)
ViPipeInfo == Struct(<<Array("aPipe", SInt, SdkMax)>> \o All(<<"enMastPipeMode", "bMultiPipe">>, UInt) \o
                     <<Member("bVcNumCfged", SInt)>> \o All(<<"bIspBypass", "enPixFmt">>, UInt) \o
                     <<Array("u32VCNum", UInt, SdkMax)>>)
ViChnInfo == Struct(<<Member("ViChn", SInt)>> \o
                    All(<<"enPixFormat", "enDynamicRange", "enVideoFormat", "enCompressMode">>, UInt))
ViInfo == Struct(<<Member("stSnsInfo", ViSensorInfo), Member("stDevInfo", ViDevInfo),
                   Member("stPipeInfo", ViPipeInfo), Member("stChnInfo", ViChnInfo)>>)
VpssInfo == Struct(All(<<"VpssGrp", "ViPipe", "ViChn">>, SInt) \o
                   <<Array("abChnEnable", UInt, SdkMax), Array("aenSize", SInt, SdkMax),
                     Array("au32Depth", SInt, SdkMax), Member("enSnsSize", UInt)>>)
VencInfo == Struct(All(<<"VencChn", "VpssGrp", "VpssChn">>, SInt) \o
                   All(<<"u32Profile", "enPayLoad", "enSize", "bRcnRefShareBuf", "enRcMode",
                         "enGopMode">>, UInt))
SdkCfg == Struct(<<Member("s32SysNum", SInt), Array("as32SysId", SInt, 1), Array("astSysInfo", SysInfo, 1),
                   Member("s32ViNum", SInt), Array("as32ViId", SInt, SdkMax), Array("astViInfo", ViInfo, SdkMax),
                   Member("s32VpssNum", SInt), Array("as32VpssId", SInt, SdkMax),
                   Array("astVpssInfo", VpssInfo, SdkMax),
                   Member("s32VencNum", SInt), Array("as32VencId", SInt, SdkMax),
                   Array("astVencInfo", VencInfo, SdkMax)>>)

-----------------------------------------------------------------------------
(***************************************************************************)
(* The two directions of a conversion.  Memory has a value for each leaf,  *)
(* those in the arms of the union in the same bytes: `as` is the arm that  *)
(* was last read into them.  A text has the leaves that were written.      *)
(***************************************************************************)
IsCondition(path) == Len(path) > 0 /\ path[Len(path)] = "condition"
Said(leaves, otherwise) ==
    IF \E p \in DOMAIN leaves : IsCondition(p)
    THEN leaves[CHOOSE p \in DOMAIN leaves : IsCondition(p)] ELSE otherwise

\* Memory with x in every leaf, whose union says and holds c.
Filled(type, x, c) ==
    [as |-> c, leaf |-> [p \in {l.path : l \in type.leaves} |-> IF IsCondition(p) THEN c ELSE x]]

\* The arm the condition names is written, whatever the bytes hold.
Write(type, m) ==
    LET said == Said(m.leaf, "none")
        written == {l \in type.leaves : l.arm \in {NoArm, said}}
        value(l) == IF l.arm \in {NoArm, m.as} THEN m.leaf[l.path] ELSE "junk"
    IN [p \in {l.path : l \in written} |-> value(CHOOSE l \in written : l.path = p)]

\* Which arm a text is read into: the condition is converted first, into the
\* memory the choice then looks at.
ArmReadByOld(text, m) == Said(m.leaf, "none")               \* a mutant
ArmRead(text, m) == Said(text, Said(m.leaf, "none"))

\* Memory m after the text is read into it.
Read(type, text, m) ==
    LET arm == ArmRead(text, m)
        read == {l \in type.leaves : l.path \in DOMAIN text /\ l.arm \in {NoArm, arm}}
        paths == {l.path : l \in read}
    IN [as |-> IF \E l \in read : l.arm = arm THEN arm ELSE m.as,
        leaf |-> [p \in DOMAIN m.leaf |-> IF p \in paths THEN text[p] ELSE m.leaf[p]]]

-----------------------------------------------------------------------------
(***************************************************************************)
(* A configuration file: what json_cfg_load leaves of the built-in         *)
(* configuration m, and what json_cfg_save puts in its place.  Saving      *)
(* empties the file before it writes: a process that ends in between       *)
(* leaves a file that does not parse, as no file does.                     *)
(***************************************************************************)
Unreadable == [parses |-> FALSE]
Load(type, file, m) == IF file.parses THEN Read(type, file.text, m) ELSE m
Save(type, m) == [parses |-> TRUE, text |-> Write(type, m)]

(***************************************************************************)
(* A package: a buffer of PROTO_PACKAGE_MAXSIZE bytes with the header, and *)
(* behind it the body's text and its closing zero.  sizeof(proto_header_t) *)
(* is 40 where 64-bit integers are aligned.                                *)
(***************************************************************************)
PROTO_PACKAGE_MAXSIZE == 2048
HeaderSize == 40
PackageSize(body, c, e) == HeaderSize + body.longest[c][e] + 1
\* What the web process answers a browser: the header as text, then the body.
AnswerSize(body, c, e) == Header.longest[c][e] + body.longest[c][e] + 1
=============================================================================
