------------------------------ MODULE FrameMgr ------------------------------
(***************************************************************************)
(* The video frames of the vsf process: the set operation of               *)
(* mod/vsf/src/interface/frame_mgr.c, which runs on the thread that serves *)
(* requests, and the threads of mod/vsf-hi3516d/src/hal/vpss.c, one for    *)
(* every channel, that copy captured frames into the FIFOs of the manager. *)
(*                                                                         *)
(* As with the streams, the FIFO pointers and the two words of a callback  *)
(* are shared without a lock.  Unlike there, set reconfigures the channel  *)
(* of the driver first, which may fail half way, and put waits for room    *)
(* without dropping anything.                                              *)
(***************************************************************************)
EXTENDS Integers, Sequences

CONSTANTS N,       \* channels are 0 .. N - 1
          Vpss,    \* the channels below the number of VPSS groups
          Size,    \* size of a FIFO
          Sizes    \* the sizes of a record that a configuration may ask for

Chans == 0 .. N - 1

ASSUME FrameAssumption ==
  /\ N \in Nat \ {0}
  /\ Vpss \subseteq Chans
  /\ Size \in Nat \ {0}
  /\ Sizes \subseteq Nat \ {0} /\ Sizes # {}

VARIABLES req,      \* the request thread: its place in set, and the request
          cfg,      \* cfg[c]: cfgs[c] of the process, once set has been called for it
          refused,  \* history: the driver refused part of the last ctrl of c
          chn,      \* chn[c]: the channel of the driver, and of which size its frames are
          ptr,      \* ptr[c]: what fifo[c] of the manager points to
          fifo,     \* fifo[c]: the sizes of the records in the FIFO of channel c
          func,     \* func[c]: cb.func of channel c is not NULL
          args,     \* args[c]: cb.args of channel c is not NULL
          task,     \* task[c]: the thread of channel c
          fault     \* what killed the process

mgr == <<req, cfg, refused>>
words == <<ptr, func, args>>
frameVars == <<mgr, chn, words, fifo, task>>
vars == <<frameVars, fault>>

\* Where a thread is, the size of the frame it holds, whether it read an
\* argument for the callback, whether it puts into a FIFO that is gone, and
\* what disturbed the words of its channel since it took the frame.
Places == {"get", "check", "args", "call", "put", "putting", "release"}
Disturbances == {"disable", "reorder"}
Getting == [at |-> "get", size |-> 0, seen |-> FALSE, dangling |-> FALSE, raced |-> {}]

\* What the records in a FIFO take, and whether one more fits.
Used(f) == LET upto[i \in 0 .. Len(f)] == IF i = 0 THEN 0 ELSE upto[i - 1] + f[i] IN upto[Len(f)]
Fits(f, size) == Used(f) + size <= Size

\* The words that set writes for the thread to read, and what is left of them
\* to write in the order of the program.
Words == {"ptr", "args", "func"}
Orderly == {Words, {"args", "func"}, {"func"}, {}}
\* No request, and a channel that set has not seen since boot.
Idle == [at |-> "idle", id |-> 0, enable |-> FALSE, size |-> 0, left |-> {}]
Unset == [enable |-> FALSE, size |-> 0]

\* What a request r does to a thread that serves channel c meanwhile.
Disturbs(r, c) ==
  IF r.at = "idle" \/ r.id # c THEN {}
  ELSE {d \in Disturbances : IF d = "disable" THEN ~r.enable ELSE r.left \notin Orderly}
Disturbed(r) == [c \in Vpss |-> [task[c] EXCEPT !.raced =
                                     IF task[c].at = "get" THEN @ ELSE @ \cup Disturbs(r, c)]]

\* The constructor of vpss.c starts the channels and their threads before main
\* sets the configured frames one by one.
Init ==
  /\ req = Idle
  /\ cfg = [c \in Chans |-> Unset]
  /\ refused = [c \in Vpss |-> FALSE]
  /\ chn \in [Vpss -> [up : {TRUE}, size : Sizes]]
  /\ ptr = [c \in Chans |-> "null"]
  /\ fifo = [c \in Chans |-> <<>>]
  /\ func = [c \in Chans |-> FALSE]
  /\ args = [c \in Chans |-> FALSE]
  /\ task = [c \in Vpss |-> Getting]
  /\ fault = "none"
-----------------------------------------------------------------------------
(***************************************************************************)
(* msgbox_frame_set: set of the manager, then the configuration is stored. *)
(***************************************************************************)
Request(c, e, s) ==
  /\ req = Idle
  /\ req' = [Idle EXCEPT !.at = IF e THEN "create" ELSE "destroy", !.id = c, !.enable = e,
                         !.size = s]
  /\ task' = Disturbed(req')
  /\ UNCHANGED <<cfg, refused, chn, words, fifo, fault>>

\* An existing FIFO is kept; the assert fails when none could be created.
CreateFifo ==
  LET c == req.id IN
  /\ req.at = "create"
  /\ IF ptr[c] = "null"
     THEN \/ fifo' = [fifo EXCEPT ![c] = <<>>] /\ fault' = fault
          \/ fault' = "create" /\ UNCHANGED fifo
     ELSE UNCHANGED <<fifo, fault>>
  /\ req' = [req EXCEPT !.at = "ctrl", !.left = Words]
  /\ UNCHANGED <<cfg, refused, chn, words, task>>

DestroyFifo ==
  LET c == req.id IN
  /\ req.at = "destroy"
  /\ ptr' = [ptr EXCEPT ![c] = IF @ = "open" THEN "freed" ELSE @]
  /\ task' = [d \in Vpss |-> IF d = c /\ ptr[c] = "open" /\ task[c].at = "putting"
                           THEN [task[c] EXCEPT !.dangling = TRUE] ELSE task[d]]
  /\ req' = [req EXCEPT !.at = "ctrl", !.left = Words]
  /\ UNCHANGED <<cfg, refused, chn, func, args, fifo, fault>>

\* __vpss_ctrl: the channel is disabled, changed and enabled again, or what is
\* left of that when the driver refuses a step.  The mutant stops when the
\* channel is down and reports nothing.
CtrlOutcomesSilent(c) ==
  {[chn |-> [up |-> FALSE, size |-> req.size], refused |-> FALSE],
   [chn |-> [up |-> TRUE, size |-> req.size], refused |-> FALSE]}
CtrlOutcomes(c) ==
  {[chn |-> chn[c], refused |-> TRUE],
   [chn |-> [chn[c] EXCEPT !.up = FALSE], refused |-> TRUE],
   [chn |-> [up |-> FALSE, size |-> req.size], refused |-> TRUE],
   [chn |-> [up |-> TRUE, size |-> req.size], refused |-> FALSE]}

\* Nobody looks at what ctrl returns.
Ctrl ==
  LET c == req.id IN
  /\ req.at = "ctrl"
  /\ IF c \in Vpss
     THEN \E o \in CtrlOutcomes(c) :
            /\ chn' = [chn EXCEPT ![c] = o.chn]
            /\ refused' = [refused EXCEPT ![c] = o.refused]
     ELSE UNCHANGED <<chn, refused>>
  /\ req' = [req EXCEPT !.at = "write"]
  /\ UNCHANGED <<cfg, words, fifo, task, fault>>

\* The pointer of the manager is written before ctrl is called, args and func
\* in regcallback after it.  Nothing keeps them from becoming visible late or
\* in another order.
Write(w) ==
  /\ w \in req.left
  /\ req.at = "write" \/ (req.at = "ctrl" /\ w = "ptr")
  /\ req' = [req EXCEPT !.left = @ \ {w}]
  /\ task' = Disturbed(req')
  /\ UNCHANGED <<cfg, refused, chn, fifo, fault>>

WritePtr ==
  /\ Write("ptr")
  /\ ptr' = [ptr EXCEPT ![req.id] = IF req.enable THEN "open" ELSE "null"]
  /\ UNCHANGED <<func, args>>

WriteArgs ==
  /\ Write("args")
  /\ args' = [args EXCEPT ![req.id] = IF req.id \in Vpss THEN req.enable ELSE @]
  /\ UNCHANGED <<ptr, func>>

\* The mutant registers func whatever set was asked for.
WriteFuncAlways ==
  /\ Write("func")
  /\ func' = [func EXCEPT ![req.id] = TRUE]
  /\ UNCHANGED <<ptr, args>>
WriteFunc ==
  /\ Write("func")
  /\ func' = [func EXCEPT ![req.id] = IF req.id \in Vpss THEN req.enable ELSE @]
  /\ UNCHANGED <<ptr, args>>

StoreCfg ==
  /\ req.at = "write" /\ req.left = {}
  /\ cfg' = [cfg EXCEPT ![req.id] = [enable |-> req.enable, size |-> req.size]]
  /\ req' = Idle
  /\ UNCHANGED <<refused, chn, words, fifo, task, fault>>
-----------------------------------------------------------------------------
(***************************************************************************)
(* __vpss_get_chn_frame_proc, the thread of channel c.                     *)
(***************************************************************************)
\* The thread of c goes from one place to another.
Goes(c, from, to) == task[c].at = from /\ task' = [task EXCEPT ![c].at = to]
ThreadOnly == UNCHANGED <<mgr, chn, words>>

\* A channel that is down yields no frame, one that is up has the size that it
\* had when the frame was captured.
GetFrame(c) ==
  /\ task[c].at = "get" /\ chn[c].up
  /\ task' = [task EXCEPT ![c] = [@ EXCEPT !.at = "check", !.size = chn[c].size,
                                           !.raced = Disturbs(req, c)]]
  /\ UNCHANGED <<fifo, fault>>

CheckCallback(c) ==
  /\ Goes(c, "check", IF func[c] THEN "args" ELSE "release")
  /\ UNCHANGED <<fifo, fault>>

LoadArgs(c) ==
  /\ task[c].at = "args"
  /\ task' = [task EXCEPT ![c].at = "call", ![c].seen = args[c]]
  /\ UNCHANGED <<fifo, fault>>

\* The call reads func again, or uses the value that was checked; the callback
\* reads the configuration that its argument points to.
Call(c) ==
  /\ \/ ~func[c] /\ Goes(c, "call", "release") /\ fault' = "func"
     \/ ~task[c].seen /\ Goes(c, "call", "release") /\ fault' = "args"
     \/ task[c].seen /\ Goes(c, "call", "put") /\ UNCHANGED fault
  /\ UNCHANGED fifo

\* __vsf_get_frame_proc: no record is dropped to make room for the frame.
Put(c) ==
  /\ task[c].at = "put"
  /\ task' = [task EXCEPT ![c].at = "putting", ![c].dangling = ptr[c] # "open"]
  /\ fault' \in CASE ptr[c] = "open" -> {"none"}
                  [] ptr[c] = "freed" -> {"none", "fifo"}
                  [] ptr[c] = "null" -> {"fifo"}
  /\ UNCHANGED fifo

\* put waits without a limit until the record fits.  One that is larger than
\* the FIFO is refused, or put never returns.
PutEnds(c) ==
  /\ ~task[c].dangling
  /\ Goes(c, "putting", "release")
  /\ Fits(fifo[c], task[c].size)
  /\ fifo' = [fifo EXCEPT ![c] = Append(@, task[c].size)]
  /\ UNCHANGED fault

PutRefused(c) ==
  /\ ~task[c].dangling /\ task[c].size > Size
  /\ Goes(c, "putting", "release")
  /\ UNCHANGED <<fifo, fault>>

\* put on a FIFO that is gone may also never return.
PutAstray(c) ==
  /\ task[c].dangling
  /\ Goes(c, "putting", "release")
  /\ fault' \in {"none", "fifo"}
  /\ UNCHANGED fifo

\* The frame is given back and forgotten, also when the driver refuses it.
\* The mutant keeps the frame until the FIFO has been read.
ReleaseLate(c) ==
  /\ task[c].at = "release" /\ fifo[c] = <<>>
  /\ task' = [task EXCEPT ![c] = Getting]
  /\ UNCHANGED <<fifo, fault>>
Release(c) ==
  /\ task[c].at = "release"
  /\ task' = [task EXCEPT ![c] = Getting]
  /\ UNCHANGED <<fifo, fault>>

\* A reader in another process (app) takes a record.
ReaderTakes(c) ==
  /\ ptr[c] = "open" /\ fifo[c] # <<>>
  /\ fifo' = [fifo EXCEPT ![c] = Tail(@)]
  /\ UNCHANGED <<task, fault>>
-----------------------------------------------------------------------------
Set == CreateFifo \/ DestroyFifo \/ Ctrl \/ WritePtr \/ WriteArgs \/ WriteFunc \/ StoreCfg
Serves(c) == CheckCallback(c) \/ LoadArgs(c) \/ Call(c) \/ Put(c) \/ PutEnds(c) \/ Release(c)
ThreadStep(c) == ThreadOnly /\ (GetFrame(c) \/ Serves(c) \/ PutRefused(c) \/ PutAstray(c))

FrameNext ==
  \/ \E c \in Chans, e \in BOOLEAN, s \in Sizes : Request(c, e, s)
  \/ Set
  \/ \E c \in Vpss : ThreadStep(c)
  \/ \E c \in Chans : ThreadOnly /\ ReaderTakes(c)
Next == fault = "none" /\ FrameNext

Spec == Init /\ [][Next]_vars

\* The threads run whenever they can, and the readers keep reading.
Alive == fault = "none"
Fairness ==
  /\ WF_vars(Alive /\ Set)
  /\ \A c \in Vpss : WF_vars(Alive /\ ThreadOnly /\ Serves(c))
  /\ \A c \in Chans : WF_vars(Alive /\ ThreadOnly /\ ReaderTakes(c))
FairSpec == Spec /\ Fairness
-----------------------------------------------------------------------------
\* Every variable has its type.
TypeOK ==
  /\ req \in [at : {"idle", "create", "destroy", "ctrl", "write"}, id : Chans, enable : BOOLEAN,
              size : Sizes \cup {0}, left : SUBSET Words]
  /\ cfg \in [Chans -> [enable : BOOLEAN, size : Sizes \cup {0}]]
  /\ refused \in [Vpss -> BOOLEAN]
  /\ chn \in [Vpss -> [up : BOOLEAN, size : Sizes]]
  /\ ptr \in [Chans -> {"null", "open", "freed"}]
  /\ func \in [Chans -> BOOLEAN] /\ args \in [Chans -> BOOLEAN]
  /\ task \in [Vpss -> [at : Places, size : Sizes \cup {0}, seen : BOOLEAN, dangling : BOOLEAN,
                         raced : SUBSET Disturbances]]
  /\ fifo \in [Chans -> Seq(Sizes)]

\* A thread uses a NULL callback, a NULL argument or a dead FIFO only when its
\* channel is turned off, or the words of set become visible out of order,
\* between the get and the release of one frame: whatever the requests were,
\* and whatever the driver refused, the next frame is safe again.
FrameMisuseNeedsRace ==
  fault \in {"func", "args", "fifo"} => \E c \in Vpss : task[c].raced # {}

\* The state is well formed, and between requests a channel that set has seen
\* has a live FIFO and a callback exactly when its configuration says enabled;
\* its driver runs with the configured size, unless it refused, which
\* msgbox_frame_set does not notice.
FrameConfigured ==
  /\ TypeOK
  /\ req = Idle =>
       \A c \in Chans : cfg[c] # Unset =>
         /\ ptr[c] = IF cfg[c].enable THEN "open" ELSE "null"
         /\ c \in Vpss => /\ func[c] = cfg[c].enable /\ args[c] = cfg[c].enable
                          /\ refused[c] \/ chn[c] = [up |-> TRUE, size |-> cfg[c].size]

\* As long as the readers read, the thread of a channel comes back for the
\* next frame, unless its FIFO is destroyed under it or the configuration asks
\* for frames that the fixed size of the FIFO can never hold.
ThreadReturns ==
  \A c \in Vpss :
    task[c].at # "get" ~>
      (task[c].at = "get" \/ fault # "none" \/ task[c].dangling \/ task[c].size > Size)
=============================================================================
