------------------------------- MODULE Capture -------------------------------
(***************************************************************************)
(* The capture chain of the vsf process: the constructors and destructors  *)
(* of mod/vsf-hi3516d/src/hal/{sys,vi,vpss,venc}.c, which run around main, *)
(* every call they make to the driver through the vendor's sample_comm     *)
(* functions, what the driver holds, and the encoder pump that runs        *)
(* meanwhile.                                                              *)
(*                                                                         *)
(* Any call may be refused, at boot an assert then aborts the process, and *)
(* the process may be killed at any call; the driver keeps what it holds   *)
(* and a new process finds it.  Boot and exit are lists of calls; one step *)
(* takes the first of them.                                                *)
(***************************************************************************)
EXTENDS Integers, Sequences, FiniteSets

CONSTANTS SysNum,      \* SYS objects
          MaxVis,      \* VI objects of a configuration: 1 .. MaxVis
          Encoders,    \* VENC objects are 0 .. Encoders - 1
          Layers,      \* channels of the VPSS group are 0 .. Layers - 1
          MaxStarts,   \* bound: how often the process is started
          MaxRefusals  \* bound: how many calls the driver refuses on its own

ASSUME CaptureAssumption ==
  /\ SysNum \in Nat \ {0}
  /\ MaxVis \in Nat \ {0} /\ Encoders \in Nat /\ Layers \in Nat
  /\ MaxStarts \in Nat /\ MaxRefusals \in Nat

VARIABLES vis,      \* s32ViNum of the configuration
          ids,      \* ids[e]: as32VencId[e], the number that the pump asks with first
          chans,    \* chans[e]: astVencInfo[e].VencChn, the channel that encoder e creates
          proc,     \* the process
          todo,     \* the calls that its first thread has left
          up,       \* what the driver holds
          touched,  \* VPSS channels that are not as boot or exit left them, after __vpss_ctrl
          stuck,    \* history: what a stop function left because a call was refused
          found,    \* history: a call of this process found what it makes already there
          objs,     \* the encoders whose object is not freed
          pump,     \* the thread that takes streams from the encoders
          starts,   \* history: how often the process was started
          refusals  \* history: how many calls the driver refused on its own

config == <<vis, ids, chans>>
vars == <<config, proc, todo, up, touched, stuck, found, objs, pump, starts, refusals>>

Es == 0 .. Encoders - 1
Ls == 0 .. Layers - 1
Vs == 0 .. vis - 1

\* What the driver holds, and what it needs below it.
Resources ==
  ({"vb", "sys", "mipi", "sensor", "grp", "started", "viBind"} \X {0})
  \cup ({"dev", "pipe", "run", "chn", "isp", "ispRun"} \X (0 .. MaxVis - 1))
  \cup ({"layer"} \X Ls)
  \cup ({"enc", "recv", "bind"} \X (Es \cup {Encoders}))

Needs(r) ==
  LET own(kinds) == kinds \X {r[2]} IN
  CASE r[1] \in {"dev", "grp", "enc"} -> {<<"sys", 0>>}
    [] r[1] = "sys" -> {<<"vb", 0>>}
    [] r[1] = "pipe" -> own({"dev"})
    [] r[1] = "run" -> own({"pipe"})
    [] r[1] = "chn" -> own({"run"})
    [] r[1] = "isp" -> own({"run"}) \cup {<<"sensor", 0>>}
    [] r[1] = "ispRun" -> own({"isp"})
    [] r[1] \in {"layer", "started"} -> {<<"grp", 0>>}
    [] r[1] = "viBind" -> {<<"grp", 0>>, <<"chn", 0>>}
    [] r[1] = "recv" -> own({"enc"})
    [] r[1] = "bind" -> own({"enc"}) \cup {<<"layer", 0>>}
    [] OTHER -> {}

\* The ioctls of the MIPI device set what is set already.
Idempotent == {<<"mipi", 0>>, <<"sensor", 0>>}
\* What lives in the process, and ends with it.
InProcess == {r \in Resources : r[1] \in {"isp", "ispRun"}}
\* What HI_MPI_SYS_Exit and HI_MPI_VB_Exit do not release.
Kept == Idempotent \cup InProcess
-----------------------------------------------------------------------------
(***************************************************************************)
(* The calls of boot and of exit.  A stop function returns at the first    *)
(* call that is refused: skip is how many calls it then leaves out.        *)
(***************************************************************************)
Call(op, kind, i) == <<[op |-> op, res |-> <<kind, i>>, skip |-> 0]>>
Make(kind, i) == Call("make", kind, i)
Drop(kind, i) == Call("drop", kind, i)
Mark(op, i) == Call(op, op, i)
Drops(rs) == [k \in 1 .. Len(rs) |-> [op |-> "drop", res |-> rs[k], skip |-> Len(rs) - k]]
\* f(0), f(1), .. f(n - 1), one after another: every one is as long as the first.
Each(n, f(_)) ==
  LET len == Len(f(0)) IN
  IF n = 0 THEN <<>> ELSE [j \in 1 .. n * len |-> f((j - 1) \div len)[((j - 1) % len) + 1]]
\* The calls of a list.
Calls(s) == {s[k] : k \in DOMAIN s}

\* A call that makes nothing, but may be refused.
Ask(i) == Mark("param", i)

\* The pools and the system, after what an earlier process left is released.
\* HI_MPI_SYS_Exit and HI_MPI_VB_Exit are one call here, refused as a whole: a
\* driver that refuses one of the two is not modelled.
\* The mutant leaves that to the exit of the earlier process.
CommSysExit == Mark("clear", 0)
CommSysInitOnly == Make("vb", 0) \o Make("sys", 0)
CommSysInit == CommSysExit \o Make("vb", 0) \o Make("sys", 0)

SysInit(s) == CommSysInit
SysDestroy(s) == CommSysExit
SysConstructor == Each(SysNum, SysInit)
SysDestructor == Each(SysNum, SysDestroy)

EnableMipiClock == Make("mipi", 0)
EnableSensorClock == Make("sensor", 0)
SetMipiAttr == Ask(0)
StartMipi == EnableMipiClock \o EnableSensorClock \o SetMipiAttr
StopMipi == Drops(<<<<"sensor", 0>>, <<"mipi", 0>>>>)

StartDev(v) == Make("dev", v)
StartViPipe(v) == Make("pipe", v) \o Make("run", v)
StartViChn(v) == Make("chn", v)
StopViChn(v) == Drop("chn", v)
StopViPipe(v) == Drops(<<<<"run", v>>, <<"pipe", v>>>>)
StopDev(v) == Drop("dev", v)

\* The mutant stops the device first.
CreateSingleVi(v) == StartDev(v) \o StartViPipe(v) \o StartViChn(v)
DestroyDevFirst(v) == StopDev(v) \o StopViChn(v) \o StopViPipe(v)
DestroySingleVi(v) == StopViChn(v) \o StopViPipe(v) \o StopDev(v)
CreateVi == Each(vis, CreateSingleVi)
DestroyVi == Each(vis, DestroySingleVi)

\* An ISP is initialised, and then runs in a thread of the process.
StartIsp(v) == Make("isp", v) \o Make("ispRun", v)
StopIsp(v) == Mark("stop", v)
CreateIsp == Each(vis, StartIsp)
DestroyIsp == Each(vis, StopIsp)

\* Starting and stopping is of all VIs, and every VI object does it.
SetParam == Ask(0)
StartVi == StartMipi \o SetParam \o CreateVi \o CreateIsp
StopVi == DestroyIsp \o DestroyVi \o StopMipi
ViInit(v) == SetParam \o Ask(v) \o StartVi
ViDestroy(v) == StopVi
ViConstructor == Each(vis, ViInit)
ViDestructor == Each(vis, ViDestroy)

VpssStart == LET layer(c) == Ask(c) \o Make("layer", c) IN
  Make("grp", 0) \o Each(Layers, layer) \o Make("started", 0)
VpssStop == Drops([k \in 1 .. Layers |-> <<"layer", k - 1>>] \o <<<<"started", 0>>, <<"grp", 0>>>>)
BindVpss == Make("viBind", 0)
UnbindVpss == Drop("viBind", 0)
VpssInit == Ask(0) \o VpssStart \o BindVpss
VpssDestroy == UnbindVpss \o VpssStop

\* The mutant forgets that a bound encoder is unbound.
CreateVenc(n) == Ask(n) \o Make("enc", n)
StopVenc(n) == Drops(<<<<"recv", n>>, <<"enc", n>>>>)
BindVenc(n) == Make("bind", n)
UnbindVenc(n) == Drop("bind", n)
VencInit(e) == CreateVenc(chans[e]) \o Make("recv", chans[e]) \o BindVenc(chans[e])
VencDestroyBound(e) == StopVenc(chans[e]) \o Mark("free", e)
VencDestroy(e) == UnbindVenc(chans[e]) \o StopVenc(chans[e]) \o Mark("free", e)

\* The pump starts when all encoders do; the mutant starts it before them.
VencConstructorEarly == Mark("pump", 0) \o Each(Encoders, VencInit)
VencConstructor == Each(Encoders, VencInit) \o Mark("pump", 0)
VencDestructor == Each(Encoders, VencDestroy)

\* In the order of their priorities, and back.
Constructors == SysConstructor \o ViConstructor \o VpssInit \o VencConstructor
Destructors == VencDestructor \o VpssDestroy \o ViDestructor \o SysDestructor

\* What the functions undo on their way out when making r is refused.
Undo(r) ==
  LET earlier == Each(r[2], DestroySingleVi) IN
  CASE r[1] = "sys" -> Drop("vb", 0)
    [] r[1] = "dev" -> earlier
    [] r[1] = "pipe" -> StopDev(r[2]) \o earlier
    [] r[1] = "run" -> Drop("pipe", r[2]) \o StopDev(r[2]) \o earlier
    [] r[1] = "chn" -> StopViPipe(r[2]) \o StopDev(r[2]) \o earlier
    [] r[1] \in {"isp", "ispRun"} -> StopIsp(r[2]) \o DestroyVi
    [] r[1] = "viBind" -> VpssStop
    [] r[1] = "bind" -> StopVenc(r[2])
    [] OTHER -> <<>>
-----------------------------------------------------------------------------
None == [at |-> "none", i |-> 0]
Numberings == {[e \in Es |-> e], [e \in Es |-> e + 1]}

Init ==
  /\ vis \in 1 .. MaxVis
  /\ ids \in Numberings /\ chans \in Numberings
  /\ proc = "down" /\ todo = <<>>
  /\ up = {} /\ touched = {} /\ stuck = {}
  /\ found = FALSE
  /\ objs = {} /\ pump = None
  /\ starts = 0 /\ refusals = 0

\* The driver refuses a call on its own.
Refuse == refusals < MaxRefusals /\ refusals' = refusals + 1

\* The process ends: what lived in it is gone, the driver keeps the rest.
Die ==
  /\ proc' = "down" /\ todo' = <<>>
  /\ up' = up \ InProcess /\ stuck' = stuck \ InProcess
  /\ pump' = None
  /\ UNCHANGED <<config, touched, found, objs, starts>>

Start ==
  /\ proc = "down" /\ starts < MaxStarts
  /\ proc' = "boot" /\ todo' = Constructors
  /\ objs' = Es /\ found' = FALSE
  /\ starts' = starts + 1
  /\ UNCHANGED <<config, up, touched, stuck, pump, refusals>>

Main ==
  /\ proc = "boot" /\ todo = <<>>
  /\ proc' = "up"
  /\ UNCHANGED <<config, todo, up, touched, stuck, found, objs, pump, starts, refusals>>

\* exit(1) of main or of the thread that serves requests.
Exit ==
  /\ proc = "up"
  /\ proc' = "exit" /\ todo' = Destructors
  /\ UNCHANGED <<config, up, touched, stuck, found, objs, pump, starts, refusals>>

Exited == proc = "exit" /\ todo = <<>> /\ Die /\ UNCHANGED refusals

\* A signal at any point.
Kill == proc # "down" /\ Die /\ UNCHANGED refusals
-----------------------------------------------------------------------------
(***************************************************************************)
(* The next call of the thread that boots or exits.                        *)
(***************************************************************************)
Next1(op) == proc \in {"boot", "exit"} /\ todo # <<>> /\ Head(todo).op = op
Res == Head(todo).res
There == Res \in up \ Idempotent
Done == todo' = Tail(todo) /\ UNCHANGED <<config, proc, touched, objs, pump, starts>>

Made ==
  /\ Next1("make") /\ Needs(Res) \subseteq up /\ ~There
  /\ up' = up \cup {Res}
  /\ Done /\ UNCHANGED <<stuck, found, refusals>>

\* The assert of the constructor aborts once the functions have undone what
\* they undo.
Fail == todo' = Undo(Res) \o Mark("die", 0)

MakeRefused ==
  /\ Next1("make")
  /\ IF There \/ ~(Needs(Res) \subseteq up) THEN UNCHANGED refusals ELSE Refuse
  /\ found' = (found \/ There)
  /\ Fail
  /\ UNCHANGED <<config, proc, up, touched, stuck, objs, pump, starts>>

\* A call that makes nothing.
Param == Next1("param") /\ Done /\ UNCHANGED <<up, stuck, found, refusals>>
ParamRefused ==
  /\ Next1("param") /\ Refuse
  /\ Fail
  /\ UNCHANGED <<config, proc, up, touched, stuck, found, objs, pump, starts>>

Abort == Next1("die") /\ Die /\ UNCHANGED refusals

Dropped ==
  /\ Next1("drop")
  /\ up' = up \ {Res}
  /\ Done /\ UNCHANGED <<stuck, found, refusals>>

DropRefused ==
  LET last == Head(todo).skip + 1 IN
  /\ Next1("drop")
  /\ IF Res \in up THEN Refuse ELSE UNCHANGED refusals
  /\ stuck' = stuck \cup ({todo[k].res : k \in 1 .. last} \cap up)
  /\ todo' = SubSeq(todo, last + 1, Len(todo))
  /\ UNCHANGED <<config, proc, up, touched, found, objs, pump, starts>>

\* SAMPLE_COMM_ISP_Stop does nothing when the ISP has no thread.
IspStopped ==
  LET v == Res[2] IN
  /\ Next1("stop")
  /\ up' = IF <<"ispRun", v>> \in up THEN up \ {<<"isp", v>>, <<"ispRun", v>>} ELSE up
  /\ Done /\ UNCHANGED <<stuck, found, refusals>>

\* When HI_MPI_ISP_Exit is refused, its thread goes on and is joined for ever.
IspHangs ==
  /\ Next1("stop") /\ <<"ispRun", Res[2]>> \in up
  /\ Refuse
  /\ proc' = "hung"
  /\ UNCHANGED <<config, todo, up, touched, stuck, found, objs, pump, starts>>

Clear ==
  /\ Next1("clear")
  /\ \/ /\ up' = up \cap Kept /\ stuck' = stuck \cap Kept /\ touched' = {}
        /\ UNCHANGED refusals
     \/ Refuse /\ stuck' = stuck \cup (up \ Kept) /\ UNCHANGED <<up, touched>>
  /\ todo' = Tail(todo)
  /\ UNCHANGED <<config, proc, found, objs, pump, starts>>

Free ==
  /\ Next1("free")
  /\ objs' = objs \ {Res[2]}
  /\ todo' = Tail(todo)
  /\ UNCHANGED <<config, proc, up, touched, stuck, found, pump, starts, refusals>>

StartPump ==
  /\ Next1("pump")
  /\ pump' = [at |-> "arm", i |-> 0]
  /\ todo' = Tail(todo)
  /\ UNCHANGED <<config, proc, up, touched, stuck, found, objs, starts, refusals>>
-----------------------------------------------------------------------------
(***************************************************************************)
(* What runs beside main: a request that reconfigures a VPSS channel, also *)
(* while another thread exits, and the encoder pump.                       *)
(***************************************************************************)
Running == proc # "down"

\* __vpss_ctrl disables, changes and enables the channel, or stops half way.
Reconfigured(l) ==
  /\ proc \in {"up", "exit"} /\ Needs(<<"layer", l>>) \subseteq up
  /\ up' = up \cup {<<"layer", l>>}
  /\ touched' = IF proc = "up" THEN touched \ {l} ELSE touched \cup {l}
  /\ UNCHANGED <<config, proc, todo, stuck, found, objs, pump, starts, refusals>>

ReconfigureRefused(l) ==
  /\ proc \in {"up", "exit"} /\ Refuse
  /\ up' = up \ {<<"layer", l>>}
  /\ touched' = touched \cup {l}
  /\ UNCHANGED <<config, proc, todo, stuck, found, objs, pump, starts>>

Pumping(at) == Running /\ pump.at = at
PumpOnly == UNCHANGED <<config, proc, todo, up, touched, stuck, found, objs, starts>>

\* Step 1 of the pump reads the object of encoder i, asks for the attributes of
\* the channel with its configured number and for the descriptor of channel i.
Asked(i) == {<<"enc", ids[i]>>, <<"enc", i>>} \subseteq up
Armed ==
  /\ Pumping("arm") /\ pump.i \in objs /\ Asked(pump.i)
  /\ pump' = [pump EXCEPT !.i = @ + 1]
  /\ PumpOnly /\ UNCHANGED refusals

ArmRefused ==
  /\ Pumping("arm") /\ pump.i \in objs
  /\ IF Asked(pump.i) THEN Refuse ELSE UNCHANGED refusals
  /\ pump' = [pump EXCEPT !.at = "ended"]
  /\ PumpOnly

\* All descriptors are there, or none is left of which to ask.
Ready ==
  /\ Pumping("arm") /\ (pump.i = Encoders \/ objs = {})
  /\ pump' = [at |-> "wait", i |-> 0]
  /\ PumpOnly /\ UNCHANGED refusals

\* Step 2: a stream of channel i is taken, and handed to the callback of i.
\* That a select which fails ends the pump is in StreamMgr.
Take(i) ==
  /\ Pumping("wait") /\ <<"recv", i>> \in up
  /\ pump' = [at |-> "hold", i |-> i]
  /\ PumpOnly /\ UNCHANGED refusals

Deliver ==
  /\ Pumping("hold") /\ pump.i \in objs
  /\ pump' = [at |-> "wait", i |-> 0]
  /\ PumpOnly /\ UNCHANGED refusals

\* objs[i] is NULL, or the array is freed.
Segfault ==
  /\ Running /\ pump.at \in {"arm", "hold"} /\ pump.i \in Es \ objs
  /\ Die /\ UNCHANGED refusals

\* The threads of vpss.c are never joined, and their data is freed when the
\* group is destroyed: from then on they may end the process.
Trample ==
  /\ proc \in {"exit", "hung"}
  /\ Len(todo) < Len(ViDestructor \o SysDestructor)
  /\ Die /\ UNCHANGED refusals

Next ==
  \/ Start \/ Main \/ Exit \/ Exited \/ Kill
  \/ Made \/ MakeRefused \/ Param \/ ParamRefused \/ Abort
  \/ Dropped \/ DropRefused \/ IspStopped \/ IspHangs \/ Clear \/ Free \/ StartPump
  \/ \E l \in Ls : Reconfigured(l) \/ ReconfigureRefused(l)
  \/ Armed \/ ArmRefused \/ Ready \/ Deliver \/ Segfault \/ Trample
  \/ \E e \in Es : Take(e)

Spec == Init /\ [][Next]_vars
-----------------------------------------------------------------------------
TypeOK ==
  /\ proc \in {"down", "boot", "up", "exit", "hung"}
  /\ \A c \in Calls(todo) : c.op \in {"make", "drop"} => c.res \in Resources
  /\ up \subseteq Resources /\ stuck \subseteq Resources
  /\ touched \subseteq Ls /\ objs \subseteq Es
  /\ found \in BOOLEAN
  /\ pump \in [at : {"none", "arm", "wait", "hold", "ended"}, i : 0 .. Encoders]

\* Channels whose state a request changed behind the back of boot and exit.
Touched == {<<"layer", l>> : l \in touched}
\* A failed start of an ISP pulls the pipes from under the ISPs that were started
\* before it, and from under its own when only its thread is missing.
IspOrphaned(r) == r \in InProcess /\ proc = "boot" /\ \E c \in Calls(todo) : c.op = "die"

\* The state is well formed; whatever the driver holds stands on what it needs,
\* at boot, while running, at exit and in what a dead process leaves, unless a
\* stop was refused, a request reconfigured the channel or an ISP failed to
\* start; and a process that reached main has the whole chain
\* (StartVi, SAMPLE_COMM_VPSS_Start, __venc_init and their undo paths).
ChainStands ==
  /\ TypeOK
  /\ \A r \in up \ (stuck \cup Touched) : Needs(r) \subseteq up \cup Touched \/ IspOrphaned(r)
  /\ proc = "up" =>
       {c.res : c \in {d \in Calls(Constructors) : d.op = "make"}} \subseteq up \cup Touched

\* A process never finds what it makes already there, wherever the process before
\* it was killed, aborted or left off: SAMPLE_COMM_SYS_Init releases it first.
\* The exceptions are a release that is refused, and a second VI object, which
\* starts all VIs once more, so that the process never comes up.
StartsClean ==
  /\ found => vis > 1 \/ stuck # {}
  /\ proc = "up" => vis = 1

\* The destructors leave out nothing: at any moment of an exit what the driver
\* holds is still to be stopped, or a stop function left it because a call was
\* refused, or a request enabled the channel once more behind it.
ExitStopsAll ==
  proc \in {"exit", "hung"} =>
    \A r \in up \ (stuck \cup Touched) :
      \E c \in Calls(todo) : \/ c.res = r
                             \/ c.op = "stop" /\ r \in InProcess
                             \/ c.op = "clear" /\ r \in {<<"vb", 0>>, <<"sys", 0>>}

\* The pump of a running process ends only when a call was refused or the
\* encoders are not numbered as their objects, although it asks for a channel
\* with two different numbers; and it touches an object that is freed only once
\* the process exits (SAMPLE_COMM_VENC_GetVencStreamProc).
PumpEndsForCause ==
  /\ pump.at = "ended" => refusals > 0 \/ proc # "up" \/ \E e \in Es : {ids[e], chans[e]} # {e}
  /\ pump.at \in {"arm", "hold"} /\ pump.i \in Es \ objs => proc # "up"
=============================================================================
