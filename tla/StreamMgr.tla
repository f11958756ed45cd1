----------------------------- MODULE StreamMgr -----------------------------
(***************************************************************************)
(* The video streams of the vsf process: the set operation of              *)
(* mod/vsf/src/interface/stream_mgr.c, which runs on the thread that serves*)
(* requests, and the thread of mod/vsf-hi3516d/src/hal/venc.c that pumps   *)
(* the streams of all encoder channels into the FIFOs of the manager.      *)
(*                                                                         *)
(* The two threads share, without a lock, the FIFO pointers of the manager *)
(* and the callback of every encoder channel: two words, args and func.    *)
(* Calling NULL or following it kills the process; using a FIFO that was   *)
(* destroyed may kill it.  What was misused is recorded in fault.          *)
(***************************************************************************)
EXTENDS Integers, Sequences, FiniteSets

CONSTANTS N,          \* channels are 0 .. N - 1
          Encode,     \* Encode[c]: what channel c encodes
          Encoders,   \* the channels that have an encoder: below mod->num
          Size,       \* size of a FIFO
          KeySize,    \* size of the record of a key frame
          DeltaSize   \* size of the record of any other frame

Chans == 0 .. N - 1

ASSUME StreamAssumption ==
  /\ N \in Nat \ {0}
  /\ Encode \in [Chans -> {"H264", "JPEG", "other"}]
  /\ Encoders \subseteq Chans
  /\ KeySize \in Nat \ {0} /\ DeltaSize \in Nat \ {0}
  /\ Size \in Nat /\ Size >= KeySize /\ Size >= DeltaSize

VARIABLES req,      \* the request thread: its place in set, and the request
          cfg,      \* cfg[c]: cfgs[c].enable
          applied,  \* history: set was called for channel c since boot
          ptr,      \* ptr[c]: what fifo[c] of the manager points to
          fifo,     \* fifo[c]: the records in the FIFO of channel c
          func,     \* func[c]: cb.func of encoder c is not NULL
          args,     \* args[c]: cb.args of encoder c is not NULL
          at,       \* where the pump is
          todo,     \* the ready channels the pump has still to serve
          chan,     \* the channel it serves
          frame,    \* the kind of frame it holds
          seen,     \* the callback argument that it read is not NULL
          dangling, \* the FIFO that it is putting into was destroyed
          raced,    \* history: the requests for chan that overlap what it serves
          fault     \* the misuse that killed the process

mgr == <<req, cfg, applied, func, args>>
pump == <<at, todo, chan, frame, seen>>
vars == <<mgr, ptr, fifo, pump, dangling, raced, fault>>

Places == {"select", "next", "check", "args", "call", "room", "put", "putting", "release", "gone"}
Kinds == {"key", "delta"}
SizeOf(k) == IF k = "key" THEN KeySize ELSE DeltaSize

\* What the records in a FIFO take, and whether one more fits.
Used(f) == KeySize * Cardinality({i \in DOMAIN f : f[i] = "key"})
           + DeltaSize * Cardinality({i \in DOMAIN f : f[i] = "delta"})
Fits(f, k) == Used(f) + SizeOf(k) <= Size

\* oldest drops the records in front of the first key frame; nothing in the
\* repository says what it does when there is none.
Oldest(f) ==
  IF \E i \in DOMAIN f : f[i] = "key"
  THEN {SubSeq(f, i, Len(f)) :
          i \in {j \in DOMAIN f : f[j] = "key" /\ \A l \in 1 .. (j - 1) : f[l] # "key"}}
  ELSE {f, <<>>}

\* The words that set writes for the pump to read, and what is left of them
\* to write in the order of the program.
Words == {"ptr", "args", "func"}
Orderly == {Words, {"args", "func"}, {"func"}, {}}
Idle == [at |-> "idle", id |-> 0, enable |-> FALSE, left |-> {}]
Name(e) == IF e THEN "enable" ELSE "disable"
\* What is in progress for channel c: a request, and what it wrote may have
\* become visible out of order.
Ongoing(c) == IF req.at = "idle" \/ req.id # c THEN {}
              ELSE {Name(req.enable)} \cup IF req.left \in Orderly THEN {} ELSE {"reorder"}

\* Before the program sets the configured channels one by one (main in
\* mod/vsf/src/main.c), nothing is created; the pump already runs.
Init ==
  /\ req = Idle
  /\ cfg \in [Chans -> BOOLEAN]
  /\ applied = [c \in Chans |-> FALSE]
  /\ ptr = [c \in Chans |-> "null"]
  /\ fifo = [c \in Chans |-> <<>>]
  /\ func = [c \in Chans |-> FALSE]
  /\ args = [c \in Chans |-> FALSE]
  /\ at = "select" /\ todo = {} /\ chan = 0 /\ frame = "delta"
  /\ seen = FALSE /\ dangling = FALSE /\ raced = {}
  /\ fault = "none"

Dies(what) == fault' = what
\* Undefined behaviour: the process dies, or does not.
MayDie(what) == fault' \in {"none", what}
-----------------------------------------------------------------------------
(***************************************************************************)
(* msgbox_stream_set: set of the manager, then the configuration is stored.*)
(***************************************************************************)
Request(c, e) ==
  /\ req = Idle
  /\ req' = [Idle EXCEPT !.at = IF e THEN "create" ELSE "destroy", !.id = c, !.enable = e]
  /\ raced' = (IF c = chan THEN raced \cup {Name(e)} ELSE raced)
  /\ UNCHANGED <<cfg, applied, func, args, ptr, fifo, pump, dangling, fault>>

\* An existing FIFO is kept; the assert fails when none could be created.
CreateFifo ==
  LET c == req.id IN
  /\ req.at = "create"
  /\ IF ptr[c] = "null"
     THEN \/ fifo' = [fifo EXCEPT ![c] = <<>>] /\ fault' = fault
          \/ Dies("create") /\ UNCHANGED fifo
     ELSE UNCHANGED <<fifo, fault>>
  /\ req' = [req EXCEPT !.at = "write", !.left = Words]
  /\ UNCHANGED <<cfg, applied, func, args, ptr, pump, dangling, raced>>

DestroyFifo ==
  LET c == req.id IN
  /\ req.at = "destroy"
  /\ IF ptr[c] = "open"
     THEN /\ ptr' = [ptr EXCEPT ![c] = "freed"]
          /\ dangling' = (dangling \/ (at = "putting" /\ chan = c))
     ELSE UNCHANGED <<ptr, dangling>>
  /\ req' = [req EXCEPT !.at = "write", !.left = Words]
  /\ UNCHANGED <<cfg, applied, func, args, fifo, pump, raced, fault>>

\* The shared words are written in this order: the pointer of the manager,
\* then args and func in regcallback, for a channel that has an encoder.
\* Nothing keeps them from becoming visible in another order.
Write(w) ==
  /\ req.at = "write" /\ w \in req.left
  /\ req' = [req EXCEPT !.left = @ \ {w}]
  /\ raced' = (IF req.id = chan /\ req'.left \notin Orderly THEN raced \cup {"reorder"}
               ELSE raced)

\* The mutant forgets to clear the pointer.
WritePtrForgets ==
  /\ Write("ptr")
  /\ ptr' = [c \in Chans |-> IF c = req.id /\ req.enable THEN "open" ELSE ptr[c]]
  /\ UNCHANGED <<cfg, applied, func, args, fifo, pump, dangling, fault>>
WritePtr ==
  /\ Write("ptr")
  /\ ptr' = [ptr EXCEPT ![req.id] = IF req.enable THEN "open" ELSE "null"]
  /\ UNCHANGED <<cfg, applied, func, args, fifo, pump, dangling, fault>>

WriteArgs ==
  /\ Write("args")
  /\ args' = [c \in Chans |-> IF c = req.id /\ c \in Encoders THEN req.enable ELSE args[c]]
  /\ UNCHANGED <<cfg, applied, func, ptr, fifo, pump, dangling, fault>>

\* The mutant registers only when the stream is turned on.
WriteFuncOnly ==
  /\ Write("func")
  /\ func' = [c \in Chans |-> (c = req.id /\ c \in Encoders /\ req.enable) \/ func[c]]
  /\ UNCHANGED <<cfg, applied, args, ptr, fifo, pump, dangling, fault>>
WriteFunc ==
  /\ Write("func")
  /\ func' = [c \in Chans |-> IF c = req.id /\ c \in Encoders THEN req.enable ELSE func[c]]
  /\ UNCHANGED <<cfg, applied, args, ptr, fifo, pump, dangling, fault>>

StoreCfg ==
  /\ req.at = "write" /\ req.left = {}
  /\ cfg' = [cfg EXCEPT ![req.id] = req.enable]
  /\ applied' = [applied EXCEPT ![req.id] = TRUE]
  /\ req' = Idle
  /\ UNCHANGED <<func, args, ptr, fifo, pump, dangling, raced, fault>>
-----------------------------------------------------------------------------
(***************************************************************************)
(* SAMPLE_COMM_VENC_GetVencStreamProc, the pump.                           *)
(***************************************************************************)
\* The head of the loop: some encoders are ready.  A select that fails ends
\* the thread; one that times out is repeated.
Select ==
  /\ at = "select"
  /\ \/ todo' \in (SUBSET Encoders) \ {{}} /\ at' = "next"
     \/ at' = "gone" /\ UNCHANGED todo
  /\ UNCHANGED <<mgr, ptr, fifo, chan, frame, seen, dangling, raced, fault>>

After(left) == IF left = {} THEN "select" ELSE "next"

\* The next ready channel in turn yields a frame, or none, or an error, which
\* ends the round.
Take ==
  /\ at = "next"
  /\ \E c \in todo :
       /\ \A d \in todo : c <= d
       /\ chan' = c
       /\ raced' = Ongoing(c)
       /\ \/ frame' \in Kinds /\ at' = "check" /\ UNCHANGED todo
          \/ todo' = todo \ {c} /\ at' = After(todo') /\ UNCHANGED frame
          \/ todo' = {} /\ at' = "select" /\ UNCHANGED frame
  /\ UNCHANGED <<mgr, ptr, fifo, seen, dangling, fault>>

CheckCallback ==
  /\ at = "check"
  /\ at' = IF func[chan] THEN "args" ELSE "release"
  /\ UNCHANGED <<mgr, ptr, fifo, todo, chan, frame, seen, dangling, raced, fault>>

LoadArgs ==
  /\ at = "args"
  /\ seen' = args[chan]
  /\ at' = "call"
  /\ UNCHANGED <<mgr, ptr, fifo, todo, chan, frame, dangling, raced, fault>>

\* The call reads func again, or uses the value that was checked.  The JPEG
\* callback writes a file that it may fail to open; an encoding without a
\* callback is refused.
Call ==
  /\ at = "call"
  /\ \/ ~func[chan] /\ Dies("func") /\ UNCHANGED at
     \/ /\ Encode[chan] # "other" /\ ~seen
        /\ Dies("args") /\ UNCHANGED at
     \/ Encode[chan] = "H264" /\ seen /\ at' = "room" /\ fault' = fault
     \/ /\ Encode[chan] # "H264" /\ (Encode[chan] = "JPEG" => seen)
        /\ at' = "release"
        /\ fault' \in IF Encode[chan] = "JPEG" THEN {"none", "file"} ELSE {"none"}
  /\ UNCHANGED <<mgr, ptr, fifo, todo, chan, frame, seen, dangling, raced>>

\* __vsf_stream_h264_proc: when the frame does not fit, skip drops a record
\* and oldest drops what no reader can start with.  The mutant has no skip.
MakeRoomNoSkip ==
  /\ at = "room"
  /\ at' = "put"
  /\ IF ptr[chan] = "open" /\ ~Fits(fifo[chan], frame)
     THEN \E f \in Oldest(fifo[chan]) : fifo' = [fifo EXCEPT ![chan] = f]
     ELSE UNCHANGED fifo
  /\ UNCHANGED <<mgr, ptr, todo, chan, frame, seen, dangling, raced, fault>>
MakeRoom ==
  /\ at = "room"
  /\ at' = "put"
  /\ IF ptr[chan] = "open" /\ ~Fits(fifo[chan], frame)
     THEN \E f \in Oldest(Tail(fifo[chan])) : fifo' = [fifo EXCEPT ![chan] = f]
     ELSE UNCHANGED fifo
  /\ CASE ptr[chan] = "open" -> fault' = fault
       [] ptr[chan] = "freed" -> MayDie("fifo")
       [] ptr[chan] = "null" -> Dies("fifo")
  /\ UNCHANGED <<mgr, ptr, todo, chan, frame, seen, dangling, raced>>

\* put reads the pointer of the manager again.
Put ==
  /\ at = "put"
  /\ at' = "putting"
  /\ dangling' = (ptr[chan] # "open")
  /\ CASE ptr[chan] = "open" -> fault' = fault
       [] ptr[chan] = "freed" -> MayDie("fifo")
       [] ptr[chan] = "null" -> Dies("fifo")
  /\ UNCHANGED <<mgr, ptr, fifo, todo, chan, frame, seen, raced>>

\* put waits without a limit until the record fits.
PutEnds ==
  /\ at = "putting" /\ ~dangling
  /\ Fits(fifo[chan], frame)
  /\ fifo' = [fifo EXCEPT ![chan] = Append(@, frame)]
  /\ at' = "release"
  /\ UNCHANGED <<mgr, ptr, todo, chan, frame, seen, dangling, raced, fault>>

\* put on a FIFO that is gone may also never return.
PutAstray ==
  /\ at = "putting" /\ dangling
  /\ MayDie("fifo")
  /\ at' = "release" /\ dangling' = FALSE
  /\ UNCHANGED <<mgr, ptr, fifo, todo, chan, frame, seen, raced>>

\* The frame is given back; when that fails the round ends.  The mutant does
\* not move on to the next channel.
ReleaseStays ==
  /\ at = "release"
  /\ at' = "next"
  /\ UNCHANGED <<mgr, ptr, fifo, todo, chan, frame, seen, dangling, raced, fault>>
Release ==
  /\ at = "release"
  /\ \/ todo' = todo \ {chan}
     \/ todo' = {}
  /\ at' = After(todo')
  /\ UNCHANGED <<mgr, ptr, fifo, chan, frame, seen, dangling, raced, fault>>

\* A reader in another process (rtsp, web) takes a record.
ReaderTakes(c) ==
  /\ ptr[c] = "open" /\ fifo[c] # <<>>
  /\ fifo' = [fifo EXCEPT ![c] = Tail(@)]
  /\ UNCHANGED <<mgr, ptr, pump, dangling, raced, fault>>
-----------------------------------------------------------------------------
Set == CreateFifo \/ DestroyFifo \/ WritePtr \/ WriteArgs \/ WriteFunc \/ StoreCfg
PumpStep == Take \/ CheckCallback \/ LoadArgs \/ Call \/ MakeRoom \/ Put \/ PutEnds \/ Release

Next ==
  /\ fault = "none"
  /\ \/ \E c \in Chans, e \in BOOLEAN : Request(c, e)
     \/ Set \/ Select \/ PumpStep \/ PutAstray
     \/ \E c \in Chans : ReaderTakes(c)

Spec == Init /\ [][Next]_vars

\* The threads run whenever they can, and the readers keep reading.
Alive == fault = "none"
Fairness ==
  /\ WF_vars(Alive /\ Set)
  /\ WF_vars(Alive /\ PumpStep)
  /\ \A c \in Chans : WF_vars(Alive /\ ReaderTakes(c))
FairSpec == Spec /\ Fairness
-----------------------------------------------------------------------------
\* What the control of both threads ranges over.
ControlOK ==
  /\ req \in [at : {"idle", "create", "destroy", "write"}, id : Chans, enable : BOOLEAN,
             left : SUBSET Words]
  /\ cfg \in [Chans -> BOOLEAN] /\ applied \in [Chans -> BOOLEAN]
  /\ ptr \in [Chans -> {"null", "open", "freed"}]
  /\ func \in [Chans -> BOOLEAN] /\ args \in [Chans -> BOOLEAN]
  /\ at \in Places /\ todo \in SUBSET Chans /\ chan \in Chans /\ frame \in Kinds
  /\ seen \in BOOLEAN /\ dangling \in BOOLEAN /\ raced \subseteq {"enable", "disable", "reorder"}
  /\ fault \in {"none", "create", "func", "args", "fifo", "file"}

\* Every variable has its type, and no FIFO holds more than its size.
TypeOK ==
  /\ ControlOK
  /\ fifo \in [Chans -> Seq(Kinds)]
  /\ \A c \in Chans : Used(fifo[c]) <= Size

Misused == fault \in {"func", "args", "fifo"}

\* The pump uses a NULL callback, a NULL argument or a dead FIFO only when,
\* while it serves the frame, its channel is turned off, or is turned on and
\* the words become visible in another order than they were written in.  So a
\* stream is safe again from the next frame on, whatever the requests were;
\* and were the words written in order, turning it on would need no lock.
OnlyDisableRaces == Misused => raced \cap {"disable", "reorder"} # {}

Configured(c) ==
  applied[c] =>
    /\ ptr[c] = IF cfg[c] THEN "open" ELSE "null"
    /\ c \in Encoders => func[c] = cfg[c] /\ args[c] = cfg[c]

\* Between requests a stream that set has seen has its callback registered,
\* and a live FIFO behind it, exactly when its configuration says enabled.
ConfiguredIsServed ==
  req = Idle => \A c \in Chans : Configured(c)

\* The state is well formed, no FIFO holds more than its size, and the one skip
\* before a put makes room for every frame that is no larger than the one it
\* drops: only a key frame can make the pump wait for a reader.
DeltaNeverWaits ==
  /\ TypeOK
  /\ at = "putting" /\ frame = "delta" /\ "disable" \notin raced /\ DeltaSize <= KeySize
       => Fits(fifo[chan], frame)

\* As long as the readers read, the one pump that serves all channels comes
\* back to its select, unless it is caught in a FIFO destroyed under it.
PumpReturns ==
  at \notin {"select", "gone"} ~> (at = "select" \/ fault # "none" \/ dangling)
=============================================================================
