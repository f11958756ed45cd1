---------------------------- MODULE FrameProofs ----------------------------
(***************************************************************************)
(* What the hand-over of FrameMgr guarantees, for any number of channels,  *)
(* groups and sizes.                                                       *)
(*                                                                         *)
(* As with the streams, a channel is Settled outside its own request and   *)
(* Halfway inside; in between the driver is reconfigured and may refuse.   *)
(* Every channel has a thread of its own here, and each is Safe: while no  *)
(* harmful request overlaps the frame it holds (Quiet), what it found when *)
(* it looked at the callback is still there when it uses it.               *)
(***************************************************************************)
EXTENDS FrameMgr, TLAPS

\* The place in set, and what is left to write there.
Control ==
  /\ req.at = "idle" => req = Idle
  /\ req.at # "idle" => req.size \in Sizes
  /\ req.at = "create" => req.enable
  /\ req.at = "destroy" => ~req.enable
  /\ req.at \in {"create", "destroy"} => req.left = {}
  /\ req.at = "ctrl" => {"args", "func"} \subseteq req.left

Settled(c) ==
  /\ ptr[c] = IF cfg[c].enable THEN "open" ELSE "null"
  /\ func[c] <=> c \in Vpss /\ cfg[c].enable
  /\ args[c] <=> c \in Vpss /\ cfg[c].enable
  /\ c \in Vpss /\ cfg[c] # Unset => refused[c] \/ chn[c] = [up |-> TRUE, size |-> cfg[c].size]

Within == req.at \in {"ctrl", "write"}

Halfway ==
  LET c == req.id IN
  /\ c \notin Vpss => ~func[c] /\ ~args[c]
  /\ "ptr" \notin req.left => ptr[c] = IF req.enable THEN "open" ELSE "null"
  /\ c \in Vpss /\ "args" \notin req.left => (args[c] <=> req.enable)
  /\ c \in Vpss /\ "func" \notin req.left => (func[c] <=> req.enable)
  /\ req.enable /\ req.left \in Orderly /\ func[c] => args[c] /\ ptr[c] = "open"
  /\ req.at = "write" /\ c \in Vpss =>
       refused[c] \/ chn[c] = [up |-> TRUE, size |-> req.size]

Channels ==
  /\ \A c \in Chans : (Within => c # req.id) => Settled(c)
  /\ Within => Halfway

\* No request that can harm overlapped the frame the thread of c holds.
Quiet(c) == task[c].raced = {}
Ready(c) == func[c] /\ args[c] /\ ptr[c] = "open"

Safe(c) ==
  /\ task[c].at # "get" => task[c].size \in Sizes
  /\ task[c].at # "get" => Disturbs(req, c) \subseteq task[c].raced
  /\ Quiet(c) /\ task[c].at \in {"args", "call", "put"} => Ready(c)
  /\ Quiet(c) /\ task[c].at = "call" => task[c].seen
  /\ Quiet(c) /\ task[c].at = "putting" => ~task[c].dangling

IInv == TypeOK /\ Control /\ Channels /\ (\A c \in Vpss : Safe(c)) /\ FrameMisuseNeedsRace
-----------------------------------------------------------------------------
\* Nothing is configured at first and no thread has a frame.
LEMMA InitInv == Init => IInv
<1> SUFFICES ASSUME Init PROVE IInv
  OBVIOUS
<1> USE FrameAssumption
<1>1. 0 \in Chans
  BY DEF Chans
<1>2. TypeOK
  <2>1. req \in [at : {"idle", "create", "destroy", "ctrl", "write"}, id : Chans, enable : BOOLEAN,
               size : Sizes \cup {0}, left : SUBSET Words]
    BY <1>1 DEF Init, Idle
  <2>2. cfg \in [Chans -> [enable : BOOLEAN, size : Sizes \cup {0}]]
    BY DEF Init, Unset
  <2>3. chn \in [Vpss -> [up : BOOLEAN, size : Sizes]]
    BY DEF Init
  <2>4. task \in [Vpss -> [at : Places, size : Sizes \cup {0}, seen : BOOLEAN, dangling : BOOLEAN,
                            raced : SUBSET Disturbances]]
    BY DEF Init, Getting, Places
  <2>5. /\ refused \in [Vpss -> BOOLEAN] /\ func \in [Chans -> BOOLEAN]
        /\ args \in [Chans -> BOOLEAN] /\ ptr \in [Chans -> {"null", "open", "freed"}]
        /\ fifo \in [Chans -> Seq(Sizes)]
    BY DEF Init
  <2> QED BY <2>1, <2>2, <2>3, <2>4, <2>5 DEF TypeOK
<1>3. Control
  BY DEF Init, Control, Idle
<1>4. Channels
  BY DEF Init, Channels, Within, Settled, Idle, Unset
<1>5. \A c \in Vpss : Safe(c)
  BY DEF Init, Safe, Getting
<1>6. FrameMisuseNeedsRace
  BY DEF Init, FrameMisuseNeedsRace
<1> QED BY <1>2, <1>3, <1>4, <1>5, <1>6 DEF IInv

\* A callback that a thread finds without a harmful request has everything
\* behind it.
LEMMA FoundIsReady ==
  ASSUME TypeOK, Control, Channels, NEW c \in Vpss, Disturbs(req, c) = {}, func[c]
  PROVE  Ready(c)
<1>0. c \in Chans
  BY FrameAssumption
<1>1. CASE Within /\ c = req.id
  <2>1. req.enable /\ req.left \in Orderly
    BY <1>1 DEF Disturbs, Disturbances, Within
  <2> QED BY <1>1, <2>1 DEF Channels, Halfway, Ready
<1>2. CASE ~(Within /\ c = req.id)
  BY <1>0, <1>2 DEF Channels, Settled, Ready
<1> QED BY <1>1, <1>2

-----------------------------------------------------------------------------
(***************************************************************************)
(* The request thread.                                                     *)
(***************************************************************************)
Steps == Set \/ \E c \in Chans, e \in BOOLEAN, s \in Sizes : Request(c, e, s)

Reqs == [at : {"idle", "create", "destroy", "ctrl", "write"}, id : Chans, enable : BOOLEAN,
         size : Sizes \cup {0}, left : SUBSET Words]
Tasks == [at : Places, size : Sizes \cup {0}, seen : BOOLEAN, dangling : BOOLEAN,
          raced : SUBSET Disturbances]

\* The parts of the type invariant the steps use.
LEMMA Types == TypeOK => /\ req \in Reqs
                         /\ task \in [Vpss -> Tasks]
                         /\ refused \in [Vpss -> BOOLEAN]
                         /\ ptr \in [Chans -> {"null", "open", "freed"}]
                         /\ func \in [Chans -> BOOLEAN] /\ args \in [Chans -> BOOLEAN]
BY DEF TypeOK, Reqs, Tasks

\* The request after each kind of step.
Same == req'.id = req.id /\ req'.enable = req.enable /\ req'.size = req.size

\* Where each step of a request leaves it.
LEMMA ToCtrl ==
  ASSUME req \in Reqs, CreateFifo \/ DestroyFifo
  PROVE  req' \in Reqs /\ req'.at = "ctrl" /\ req'.left = Words /\ Same
BY DEF CreateFifo, DestroyFifo, Reqs, Same

LEMMA ToWrite ==
  ASSUME req \in Reqs, Ctrl
  PROVE  req' \in Reqs /\ req'.at = "write" /\ req'.left = req.left /\ Same
BY DEF Ctrl, Reqs, Same

LEMMA AfterWrite ==
  ASSUME req \in Reqs, NEW w, Write(w)
  PROVE  req' \in Reqs /\ req'.at = req.at /\ req'.left = req.left \ {w} /\ Same
BY DEF Write, Reqs, Same

LEMMA ToIdle ==
  ASSUME req' = Idle
  PROVE  req' \in Reqs /\ req'.at = "idle" /\ req'.left = {}
BY FrameAssumption DEF Idle, Reqs, Chans

LEMMA FromIdle ==
  ASSUME NEW c \in Chans, NEW e \in BOOLEAN, NEW s \in Sizes, Request(c, e, s)
  PROVE  /\ req' \in Reqs /\ req'.id = c /\ req'.enable = e /\ req'.size = s /\ req'.left = {}
         /\ req'.at = IF e THEN "create" ELSE "destroy"
BY DEF Request, Idle, Reqs

\* What a step of a request does to the threads.
LEMMA DisturbsOnly ==
  ASSUME TypeOK, Control, Steps, NEW c \in Vpss
  PROVE  /\ task'[c].at = task[c].at /\ task'[c].seen = task[c].seen
         /\ task'[c].size = task[c].size
         /\ task[c].raced \subseteq task'[c].raced
         /\ task[c].at # "get" /\ Disturbs(req, c) \subseteq task[c].raced =>
              Disturbs(req, c)' \subseteq task'[c].raced
         /\ task'[c].dangling # task[c].dangling => DestroyFifo /\ c = req.id
         /\ task'[c] \in Tasks
<1>0. task[c] \in Tasks /\ task \in [Vpss -> Tasks] /\ req \in Reqs
  BY Types
<1>1. ASSUME task' = Disturbed(req')
      PROVE  /\ task'[c] = [task[c] EXCEPT !.raced = IF task[c].at = "get" THEN @
                                                     ELSE @ \cup Disturbs(req', c)]
             /\ Disturbs(req', c) \subseteq Disturbances
  BY <1>1 DEF Disturbed, Disturbs
<1>2. Disturbs(req, c)' = Disturbs(req', c)
  BY DEF Disturbs
<1>3. ASSUME task' = Disturbed(req')
      PROVE  /\ task'[c].at = task[c].at /\ task'[c].seen = task[c].seen
             /\ task'[c].size = task[c].size
             /\ task'[c].dangling = task[c].dangling
             /\ task'[c].raced = IF task[c].at = "get" THEN task[c].raced
                                 ELSE task[c].raced \cup Disturbs(req', c)
             /\ task'[c] \in Tasks
  BY <1>0, <1>1, <1>3 DEF Tasks
<1>4. CASE \E d \in Chans, e \in BOOLEAN, s \in Sizes : Request(d, e, s)
  <2>1. task' = Disturbed(req')
    BY <1>4 DEF Request
  <2> QED BY <1>2, <1>3, <2>1
<1>5. CASE WritePtr \/ WriteArgs \/ WriteFunc
  <2>1. task' = Disturbed(req')
    BY <1>5 DEF WritePtr, WriteArgs, WriteFunc, Write
  <2> QED BY <1>2, <1>3, <2>1
<1>6. CASE CreateFifo \/ DestroyFifo
  <2>1. req.at # "idle" /\ req.left \in Orderly /\ req'.left \in Orderly /\ req'.at # "idle" /\ Same
    BY <1>0, <1>6, ToCtrl DEF CreateFifo, DestroyFifo, Control, Orderly
  <2>2. Disturbs(req, c)' = Disturbs(req, c)
    BY <1>2, <2>1 DEF Disturbs, Same
  <2>3. CASE CreateFifo
    BY <1>0, <2>2, <2>3 DEF CreateFifo
  <2>4. CASE DestroyFifo
    <3>1. task'[c] = task[c] \/ (c = req.id /\ task'[c] = [task[c] EXCEPT !.dangling = TRUE])
      BY <2>4 DEF DestroyFifo
    <3>2. /\ task'[c].at = task[c].at /\ task'[c].seen = task[c].seen
          /\ task'[c].size = task[c].size
          /\ task'[c].raced = task[c].raced /\ task'[c] \in Tasks
      BY <1>0, <3>1 DEF Tasks
    <3> QED BY <2>2, <2>4, <3>1, <3>2
  <2> QED BY <1>6, <2>3, <2>4
<1>7. CASE Ctrl
  <2>1. Disturbs(req, c)' = Disturbs(req, c)
    BY <1>0, <1>2, <1>7, ToWrite DEF Disturbs, Same, Ctrl
  <2> QED BY <1>0, <1>7, <2>1 DEF Ctrl
<1>8. CASE StoreCfg
  <2>1. Disturbs(req, c)' = {}
    BY <1>8, <1>2, ToIdle DEF StoreCfg, Disturbs
  <2> QED BY <1>0, <1>8, <2>1 DEF StoreCfg
<1> QED BY <1>4, <1>5, <1>6, <1>7, <1>8 DEF Steps, Set

\* A step of the request thread, part by part of the invariant.
LEMMA StepsReq ==
  ASSUME TypeOK, Control, Steps
  PROVE  req' \in Reqs /\ Control'
<1>0. req \in Reqs
  BY Types
<1>1. CASE \E c \in Chans, e \in BOOLEAN, s \in Sizes : Request(c, e, s)
  BY <1>1, FromIdle DEF Control
<1>2. CASE CreateFifo \/ DestroyFifo
  <2>1. req.size \in Sizes
    BY <1>2 DEF CreateFifo, DestroyFifo, Control
  <2> QED BY <1>0, <1>2, <2>1, ToCtrl DEF Control, Same, Words
<1>3. CASE Ctrl
  <2>1. req.size \in Sizes
    BY <1>3 DEF Ctrl, Control
  <2> QED BY <1>0, <1>3, <2>1, ToWrite DEF Control, Same
<1>4. CASE WritePtr \/ WriteArgs \/ WriteFunc
  <2>1. PICK w \in Words : Write(w)
    BY <1>4 DEF WritePtr, WriteArgs, WriteFunc, Words
  <2>2. req.size \in Sizes /\ (req.at = "ctrl" => w = "ptr") /\ req.at \in {"ctrl", "write"}
    BY <2>1 DEF Write, Control
  <2> QED BY <1>0, <2>1, <2>2, AfterWrite DEF Control, Same
<1>5. CASE StoreCfg
  BY <1>5, ToIdle DEF StoreCfg, Control
<1> QED BY <1>1, <1>2, <1>3, <1>4, <1>5 DEF Steps, Set

\* What __vpss_ctrl leaves of the channel.
LEMMA Outcome ==
  ASSUME TypeOK, Control, Ctrl, req.id \in Vpss
  PROVE  \E o \in [chn : [up : BOOLEAN, size : Sizes], refused : BOOLEAN] :
           /\ chn' = [chn EXCEPT ![req.id] = o.chn]
           /\ refused' = [refused EXCEPT ![req.id] = o.refused]
           /\ o.refused \/ o.chn = [up |-> TRUE, size |-> req.size]
<1>1. PICK o \in CtrlOutcomes(req.id) : /\ chn' = [chn EXCEPT ![req.id] = o.chn]
                                        /\ refused' = [refused EXCEPT ![req.id] = o.refused]
  BY DEF Ctrl
<1>2. req.size \in Sizes
  BY DEF Ctrl, Control
<1>3. chn[req.id] \in [up : BOOLEAN, size : Sizes]
  BY DEF TypeOK
<1>4. [chn[req.id] EXCEPT !.up = FALSE] \in [up : BOOLEAN, size : Sizes]
  BY <1>3
<1>5. /\ o \in [chn : [up : BOOLEAN, size : Sizes], refused : BOOLEAN]
      /\ o.refused \/ o.chn = [up |-> TRUE, size |-> req.size]
  <2>1. \/ o = [chn |-> chn[req.id], refused |-> TRUE]
        \/ o = [chn |-> [chn[req.id] EXCEPT !.up = FALSE], refused |-> TRUE]
        \/ o = [chn |-> [up |-> FALSE, size |-> req.size], refused |-> TRUE]
        \/ o = [chn |-> [up |-> TRUE, size |-> req.size], refused |-> FALSE]
    BY <1>1 DEF CtrlOutcomes
  <2>2. /\ [up |-> FALSE, size |-> req.size] \in [up : BOOLEAN, size : Sizes]
        /\ [up |-> TRUE, size |-> req.size] \in [up : BOOLEAN, size : Sizes]
    BY <1>2
  <2>3. CASE o = [chn |-> chn[req.id], refused |-> TRUE]
    BY <1>3, <2>3
  <2>4. CASE o = [chn |-> [chn[req.id] EXCEPT !.up = FALSE], refused |-> TRUE]
    BY <1>4, <2>4
  <2>5. CASE o = [chn |-> [up |-> FALSE, size |-> req.size], refused |-> TRUE]
    BY <2>2, <2>5
  <2>6. CASE o = [chn |-> [up |-> TRUE, size |-> req.size], refused |-> FALSE]
    BY <2>2, <2>6
  <2> QED BY <2>1, <2>3, <2>4, <2>5, <2>6
<1> QED BY <1>1, <1>5

LEMMA StepsType ==
  ASSUME TypeOK, Control, Steps
  PROVE  TypeOK'
<1> USE FrameAssumption
<1>1. req' \in Reqs
  BY StepsReq
<1>2. task' \in [Vpss -> Tasks]
  <2>1. DOMAIN task' = Vpss /\ task' = [c \in Vpss |-> task'[c]]
    BY DEF Steps, Set, CreateFifo, DestroyFifo, Ctrl, WritePtr, WriteArgs, WriteFunc, Write,
           StoreCfg, Request, Disturbed, TypeOK
  <2>2. \A c \in Vpss : task'[c] \in Tasks
    BY DisturbsOnly
  <2> QED BY <2>1, <2>2
<1>3. cfg' \in [Chans -> [enable : BOOLEAN, size : Sizes \cup {0}]]
  <2>1. req.id \in Chans /\ req.enable \in BOOLEAN /\ req.size \in Sizes \cup {0}
    BY Types DEF Reqs
  <2>2. CASE StoreCfg
    <3>1. [enable |-> req.enable, size |-> req.size] \in [enable : BOOLEAN, size : Sizes \cup {0}]
      BY <2>1
    <3> QED BY <2>2, <3>1 DEF StoreCfg, TypeOK
  <2>3. CASE ~StoreCfg
    <3>1. cfg' = cfg
      BY <2>3 DEF Steps, Set, CreateFifo, DestroyFifo, Ctrl, WritePtr, WriteArgs, WriteFunc, Write,
                  Request
    <3> QED BY <3>1 DEF TypeOK
  <2> QED BY <2>2, <2>3
<1>4. chn' \in [Vpss -> [up : BOOLEAN, size : Sizes]] /\ refused' \in [Vpss -> BOOLEAN]
  <2>1. CASE Ctrl
    <3>1. req.size \in Sizes
      BY <2>1 DEF Ctrl, Control
    <3>2. CASE req.id \in Vpss
      BY <3>2, <2>1, Outcome DEF TypeOK
    <3>3. CASE req.id \notin Vpss
      BY <2>1, <3>3 DEF Ctrl, TypeOK
    <3> QED BY <3>2, <3>3
  <2>2. CASE ~Ctrl
    BY <2>2 DEF Steps, Set, CreateFifo, DestroyFifo, WritePtr, WriteArgs, WriteFunc,
                  Write, StoreCfg, Request, TypeOK
  <2> QED BY <2>1, <2>2
<1>5. /\ ptr' \in [Chans -> {"null", "open", "freed"}]
      /\ func' \in [Chans -> BOOLEAN] /\ args' \in [Chans -> BOOLEAN]
  BY Types DEF Reqs, Steps, Set, CreateFifo, DestroyFifo, Ctrl, WritePtr, WriteArgs, WriteFunc,
               Write, StoreCfg, Request, words
<1>6. fifo' \in [Chans -> Seq(Sizes)]
  <2>1. fifo' = fifo \/ fifo' = [fifo EXCEPT ![req.id] = <<>>]
    BY DEF Steps, Set, CreateFifo, DestroyFifo, Ctrl, WritePtr, WriteArgs, WriteFunc, Write, StoreCfg,
           Request
  <2>2. <<>> \in Seq(Sizes) /\ fifo \in [Chans -> Seq(Sizes)]
    BY DEF TypeOK
  <2> QED BY <2>1, <2>2
<1> QED BY <1>1, <1>2, <1>3, <1>4, <1>5, <1>6 DEF TypeOK, Reqs, Tasks

LEMMA StepsChannels ==
  ASSUME TypeOK, Control, Channels, Steps
  PROVE  Channels'
<1> USE FrameAssumption
<1>0. /\ req \in Reqs /\ req.id \in Chans /\ req.enable \in BOOLEAN /\ req.left \subseteq Words
      /\ ptr \in [Chans -> {"null", "open", "freed"}] /\ refused \in [Vpss -> BOOLEAN]
      /\ func \in [Chans -> BOOLEAN] /\ args \in [Chans -> BOOLEAN]
  BY Types DEF Reqs
<1>1. CASE \E c \in Chans, e \in BOOLEAN, s \in Sizes : Request(c, e, s)
  <2>1. PICK c \in Chans, e \in BOOLEAN, s \in Sizes : Request(c, e, s)
    BY <1>1
  <2>2. req'.at \in {"create", "destroy"}
    BY <2>1, FromIdle
  <2> QED BY <2>1, <2>2 DEF Request, Idle, Channels, Within, Settled, words
<1>2. CASE CreateFifo
  <2>1. req'.left = Words /\ req'.at = "ctrl" /\ Same /\ req.enable
    BY <1>0, <1>2, ToCtrl DEF CreateFifo, Control
  <2>2. UNCHANGED <<ptr, func, args, cfg, refused, chn>> /\ req.at = "create"
    BY <1>2 DEF CreateFifo, words
  <2>3. Settled(req.id) /\ \A c \in Chans : Settled(c)
    BY <1>0, <2>2 DEF Channels, Within
  <2> QED BY <1>0, <2>1, <2>2, <2>3 DEF Same, Channels, Within, Settled, Halfway, Words
<1>3. CASE DestroyFifo
  <2>1. req'.left = Words /\ req'.at = "ctrl" /\ Same /\ ~req.enable
    BY <1>0, <1>3, ToCtrl DEF DestroyFifo, Control
  <2>2. /\ UNCHANGED <<func, args, cfg, refused, chn>> /\ req.at = "destroy"
        /\ \A c \in Chans : c # req.id => ptr'[c] = ptr[c]
    BY <1>0, <1>3 DEF DestroyFifo
  <2>3. Settled(req.id) /\ \A c \in Chans : Settled(c)
    BY <1>0, <2>2 DEF Channels, Within
  <2> QED BY <1>0, <2>1, <2>2, <2>3 DEF Same, Channels, Within, Settled, Halfway, Words
<1>4. CASE Ctrl
  <2>1. req'.left = req.left /\ req'.at = "write" /\ Same
    BY <1>0, <1>4, ToWrite
  <2>2. /\ UNCHANGED <<ptr, func, args, cfg>> /\ req.at = "ctrl"
        /\ \A c \in Vpss : c # req.id => chn'[c] = chn[c] /\ refused'[c] = refused[c]
    <3>1. UNCHANGED <<ptr, func, args, cfg>> /\ req.at = "ctrl"
      BY <1>4 DEF Ctrl, words
    <3>2. CASE req.id \in Vpss
      BY <1>4, <3>1, <3>2, Outcome DEF TypeOK
    <3>3. CASE req.id \notin Vpss
      BY <1>4, <3>1, <3>3 DEF Ctrl
    <3> QED BY <3>2, <3>3
  <2>3. req.id \in Vpss => refused'[req.id] \/ chn'[req.id] = [up |-> TRUE, size |-> req.size]
    BY <1>4, Outcome DEF TypeOK
  <2> QED BY <1>0, <2>1, <2>2, <2>3 DEF Same, Channels, Within, Settled, Halfway
<1>5. CASE WritePtr \/ WriteArgs \/ WriteFunc
  <2>1. PICK w \in Words : Write(w) /\ \/ w = "ptr" /\ WritePtr
                                       \/ w = "args" /\ WriteArgs
                                       \/ w = "func" /\ WriteFunc
    <3>1. WritePtr => Write("ptr")
      BY DEF WritePtr
    <3>2. WriteArgs => Write("args")
      BY DEF WriteArgs
    <3>3. WriteFunc => Write("func")
      BY DEF WriteFunc
    <3>4. "ptr" \in Words /\ "args" \in Words /\ "func" \in Words
      BY DEF Words
    <3>5. CASE WritePtr
      BY <3>1, <3>4, <3>5
    <3>6. CASE WriteArgs
      BY <3>2, <3>4, <3>6
    <3>7. CASE WriteFunc
      BY <3>3, <3>4, <3>7
    <3> QED BY <1>5, <3>5, <3>6, <3>7
  <2>2. req'.left = req.left \ {w} /\ w \in req.left /\ req'.at = req.at /\ Within /\ Same
    BY <1>0, <2>1, AfterWrite DEF Write, Within
  <2>3. UNCHANGED <<cfg, refused, chn>>
    BY <2>1 DEF Write
  <2>4. \A c \in Chans : c # req.id =>
          ptr'[c] = ptr[c] /\ func'[c] = func[c] /\ args'[c] = args[c]
    BY <1>0, <2>1 DEF WritePtr, WriteArgs, WriteFunc
  <2>5. \A c \in Chans : (Within' => c # req'.id) => Settled(c)'
    BY <2>2, <2>3, <2>4 DEF Channels, Settled, Within, Same
  <2>6. Halfway'
    <3>1. CASE w = "ptr"
      <4>1. ptr'[req.id] = (IF req.enable THEN "open" ELSE "null") /\ UNCHANGED <<func, args>>
        BY <1>0, <2>1, <3>1 DEF WritePtr
      <4> QED BY <1>0, <2>2, <2>3, <3>1, <4>1 DEF Channels, Halfway, Same, Orderly, Words
    <3>2. CASE w = "args"
      <4>1. /\ UNCHANGED <<ptr, func>>
            /\ args'[req.id] = IF req.id \in Vpss THEN req.enable ELSE args[req.id]
        BY <1>0, <2>1, <3>2 DEF WriteArgs
      <4> QED BY <1>0, <2>2, <2>3, <3>2, <4>1 DEF Channels, Halfway, Same, Orderly, Words
    <3>3. CASE w = "func"
      <4>1. /\ UNCHANGED <<ptr, args>>
            /\ func'[req.id] = IF req.id \in Vpss THEN req.enable ELSE func[req.id]
        BY <1>0, <2>1, <3>3 DEF WriteFunc
      <4> QED BY <1>0, <2>2, <2>3, <3>3, <4>1 DEF Channels, Halfway, Same, Orderly, Words
    <3> QED BY <2>1, <3>1, <3>2, <3>3
  <2> QED BY <2>5, <2>6 DEF Channels
<1>6. CASE StoreCfg
  <2>1. req'.at = "idle"
    BY <1>6, ToIdle DEF StoreCfg
  <2>2. /\ UNCHANGED <<ptr, func, args, refused, chn>> /\ req.at = "write" /\ req.left = {}
        /\ cfg'[req.id] = [enable |-> req.enable, size |-> req.size]
        /\ \A c \in Chans : c # req.id => cfg'[c] = cfg[c]
    BY <1>0, <1>6 DEF StoreCfg, words, TypeOK
  <2>3. ASSUME NEW d \in Chans, d = req.id PROVE Settled(d)'
    <3>1. /\ d \notin Vpss => ~func[d] /\ ~args[d]
          /\ ptr[d] = IF req.enable THEN "open" ELSE "null"
          /\ d \in Vpss => (args[d] <=> req.enable) /\ (func[d] <=> req.enable)
          /\ d \in Vpss => refused[d] \/ chn[d] = [up |-> TRUE, size |-> req.size]
      BY <2>2, <2>3 DEF Channels, Within, Halfway
    <3>2. cfg'[d].enable = req.enable /\ cfg'[d].size = req.size
      BY <2>2, <2>3
    <3> QED BY <2>2, <3>1, <3>2 DEF Settled
  <2>4. \A c \in Chans : c # req.id => Settled(c)'
    BY <2>2 DEF Channels, Settled
  <2> QED BY <2>1, <2>3, <2>4 DEF Channels, Within
<1> QED BY <1>1, <1>2, <1>3, <1>4, <1>5, <1>6 DEF Steps, Set

LEMMA StepsSafe ==
  ASSUME TypeOK, Control, Channels, Steps, NEW c \in Vpss, Safe(c)
  PROVE  Safe(c)'
<1>0. c \in Chans
  BY FrameAssumption
<1>1. Quiet(c)' => Quiet(c)
  BY DisturbsOnly DEF Quiet
<1>2. ASSUME Quiet(c), task[c].at # "get", req.id = c, req.at # "idle" PROVE req.enable
  BY <1>2 DEF Safe, Disturbs, Disturbances, Quiet, TypeOK
<1>3. ASSUME Quiet(c), task[c].at # "get", Ready(c) PROVE Ready(c)'
  <2>1. CASE \E d \in Chans, e \in BOOLEAN, s \in Sizes : Request(d, e, s)
    BY <1>3, <2>1 DEF Request, words, Ready
  <2>2. CASE CreateFifo \/ Ctrl \/ StoreCfg
    BY <1>3, <2>2 DEF CreateFifo, Ctrl, StoreCfg, words, Ready
  <2>3. CASE DestroyFifo
    BY <1>0, <1>2, <1>3, <2>3 DEF DestroyFifo, Control, Ready, TypeOK
  <2>4. CASE WritePtr \/ WriteArgs \/ WriteFunc
    <3>1. req.at # "idle"
      BY <2>4 DEF WritePtr, WriteArgs, WriteFunc, Write
    <3>2. c = req.id => req.enable
      BY <1>2, <1>3, <3>1
    <3> QED BY <1>0, <1>3, <2>4, <3>2 DEF WritePtr, WriteArgs, WriteFunc, Ready, TypeOK
  <2> QED BY <2>1, <2>2, <2>3, <2>4 DEF Steps, Set
<1>4. ASSUME Quiet(c), task[c].at = "putting" PROVE task'[c].dangling = task[c].dangling
  <2>1. ~(DestroyFifo /\ c = req.id)
    BY <1>2, <1>4 DEF DestroyFifo, Control
  <2> QED BY <2>1, DisturbsOnly
<1> QED BY <1>1, <1>3, <1>4, DisturbsOnly DEF Safe, Quiet

LEMMA StepsInv ==
  ASSUME IInv, fault = "none", Steps
  PROVE  IInv'
<1>1. fault' \in {"none", "create"}
  BY DEF Steps, Set, CreateFifo, DestroyFifo, Ctrl, WritePtr, WriteArgs, WriteFunc, Write, StoreCfg,
         Request
<1>2. FrameMisuseNeedsRace'
  BY <1>1 DEF FrameMisuseNeedsRace
<1> QED BY <1>2, StepsType, StepsReq, StepsChannels, StepsSafe DEF IInv
-----------------------------------------------------------------------------
(***************************************************************************)
(* The threads and the readers.                                            *)
(***************************************************************************)
\* What a step of the thread of c must leave behind.
Good(c) ==
  /\ task' \in [Vpss -> Tasks]
  /\ \A d \in Vpss : d # c => task'[d] = task[d]
  /\ Safe(c)'
  /\ fault' = "none" \/ task'[c].raced # {}

\* A thread that only goes on keeps what disturbed it.
LEMMA GoesOn ==
  ASSUME task \in [Vpss -> Tasks], NEW c \in Vpss, NEW from, NEW to \in Places, Goes(c, from, to)
  PROVE  /\ task[c].at = from /\ task'[c] = [task[c] EXCEPT !.at = to]
         /\ task'[c].at = to /\ task'[c].seen = task[c].seen /\ task'[c].size = task[c].size
         /\ task'[c].dangling = task[c].dangling /\ task'[c].raced = task[c].raced
         /\ task' \in [Vpss -> Tasks]
         /\ \A d \in Vpss : d # c => task'[d] = task[d]
BY DEF Goes, Tasks

\* The steps of a thread, one by one.
LEMMA GetFrameGood ==
  ASSUME IInv, fault = "none", NEW c \in Vpss, ThreadOnly, GetFrame(c) PROVE Good(c)
<1>0. task \in [Vpss -> Tasks] /\ task[c] \in Tasks /\ chn[c].size \in Sizes
  BY Types DEF IInv, TypeOK
<1>1. Disturbs(req, c)' = Disturbs(req, c) /\ Disturbs(req, c) \subseteq Disturbances
  BY DEF ThreadOnly, mgr, Disturbs
<1>2. /\ task'[c] = [task[c] EXCEPT !.at = "check", !.size = chn[c].size, !.raced = Disturbs(req, c)]
      /\ \A d \in Vpss : d # c => task'[d] = task[d]
      /\ DOMAIN task' = Vpss /\ task' = [d \in Vpss |-> task'[d]]
  BY <1>0 DEF GetFrame
<1>3. task'[c].at = "check" /\ task'[c].raced = Disturbs(req, c)
  BY <1>0, <1>2 DEF Tasks
<1>4. task'[c].size \in Sizes
  BY <1>0, <1>2 DEF Tasks
<1>5. task'[c] \in Tasks
  BY <1>0, <1>1, <1>2 DEF Tasks, Places
<1>6. Safe(c)'
  BY <1>1, <1>3, <1>4 DEF Safe
<1>7. task' \in [Vpss -> Tasks]
  BY <1>0, <1>2, <1>5
<1> QED BY <1>2, <1>6, <1>7 DEF Good, GetFrame

LEMMA CheckGood ==
  ASSUME IInv, fault = "none", NEW c \in Vpss, ThreadOnly, CheckCallback(c) PROVE Good(c)
<1>0. task \in [Vpss -> Tasks] /\ TypeOK /\ Control /\ Channels /\ Safe(c)
  BY Types DEF IInv
<1>1. Disturbs(req, c)' = Disturbs(req, c) /\ (Ready(c)' <=> Ready(c)) /\ fault' = "none"
  BY DEF ThreadOnly, mgr, words, Disturbs, Ready, CheckCallback
<1>2. CASE func[c]
  <2>1. Goes(c, "check", "args")
    BY <1>2 DEF CheckCallback
  <2>2. /\ task[c].at = "check" /\ task'[c].at = "args" /\ task'[c].raced = task[c].raced
        /\ task'[c].size = task[c].size
        /\ task' \in [Vpss -> Tasks] /\ \A d \in Vpss : d # c => task'[d] = task[d]
    BY <1>0, <2>1, GoesOn DEF Places
  <2>3. Quiet(c)' => Disturbs(req, c) = {}
    BY <1>0, <2>2 DEF Safe, Quiet
  <2>4. Quiet(c)' => Ready(c)'
    BY <1>0, <1>1, <1>2, <2>3, FoundIsReady
  <2> QED BY <1>0, <1>1, <2>2, <2>4 DEF Good, Safe
<1>3. CASE ~func[c]
  <2>1. Goes(c, "check", "release")
    BY <1>3 DEF CheckCallback
  <2>2. /\ task[c].at = "check" /\ task'[c].at = "release" /\ task'[c].raced = task[c].raced
        /\ task'[c].size = task[c].size
        /\ task' \in [Vpss -> Tasks] /\ \A d \in Vpss : d # c => task'[d] = task[d]
    BY <1>0, <2>1, GoesOn DEF Places
  <2> QED BY <1>0, <1>1, <2>2 DEF Good, Safe
<1> QED BY <1>2, <1>3

LEMMA LoadArgsGood ==
  ASSUME IInv, fault = "none", NEW c \in Vpss, ThreadOnly, LoadArgs(c) PROVE Good(c)
<1>0. /\ task \in [Vpss -> Tasks] /\ task[c] \in Tasks /\ Safe(c)
      /\ args[c] \in BOOLEAN
  BY Types, FrameAssumption DEF IInv
<1>1. Disturbs(req, c)' = Disturbs(req, c) /\ (Ready(c)' <=> Ready(c)) /\ fault' = "none"
  BY DEF ThreadOnly, mgr, words, Disturbs, Ready, LoadArgs
<1>2. /\ task[c].at = "args" /\ task'[c].at = "call" /\ task'[c].seen = args[c]
      /\ task'[c].raced = task[c].raced /\ task'[c] \in Tasks /\ task'[c].size = task[c].size
      /\ \A d \in Vpss : d # c => task'[d] = task[d]
      /\ DOMAIN task' = Vpss /\ task' = [d \in Vpss |-> task'[d]]
  BY <1>0 DEF LoadArgs, Tasks, Places
<1>3. task' \in [Vpss -> Tasks]
  BY <1>0, <1>2
<1>4. Quiet(c)' => Ready(c)' /\ task'[c].seen
  BY <1>0, <1>1, <1>2 DEF Safe, Quiet, Ready
<1> QED BY <1>0, <1>1, <1>2, <1>3, <1>4 DEF Good, Safe

LEMMA CallGood ==
  ASSUME IInv, fault = "none", NEW c \in Vpss, ThreadOnly, Call(c) PROVE Good(c)
<1>0. task \in [Vpss -> Tasks] /\ Safe(c)
  BY Types DEF IInv
<1>1. Disturbs(req, c)' = Disturbs(req, c) /\ (Ready(c)' <=> Ready(c))
  BY DEF ThreadOnly, mgr, words, Disturbs, Ready
<1>2. CASE (~func[c] \/ ~task[c].seen) /\ Goes(c, "call", "release")
  <2>1. /\ task[c].at = "call" /\ task'[c].at = "release" /\ task'[c].raced = task[c].raced
        /\ task'[c].size = task[c].size
        /\ task' \in [Vpss -> Tasks] /\ \A d \in Vpss : d # c => task'[d] = task[d]
    BY <1>0, <1>2, GoesOn DEF Places
  <2>2. task[c].raced # {}
    BY <1>0, <1>2, <2>1 DEF Safe, Quiet, Ready
  <2> QED BY <1>0, <1>1, <2>1, <2>2 DEF Good, Safe
<1>3. CASE task[c].seen /\ Goes(c, "call", "put") /\ UNCHANGED fault
  <2>1. /\ task[c].at = "call" /\ task'[c].at = "put" /\ task'[c].raced = task[c].raced
        /\ task'[c].size = task[c].size
        /\ task' \in [Vpss -> Tasks] /\ \A d \in Vpss : d # c => task'[d] = task[d]
    BY <1>0, <1>3, GoesOn DEF Places
  <2>2. Quiet(c)' => Ready(c)'
    BY <1>0, <1>1, <2>1 DEF Safe, Quiet
  <2> QED BY <1>0, <1>1, <1>3, <2>1, <2>2 DEF Good, Safe
<1> QED BY <1>2, <1>3 DEF Call

LEMMA PutGood ==
  ASSUME IInv, fault = "none", NEW c \in Vpss, ThreadOnly, Put(c) PROVE Good(c)
<1>0. task \in [Vpss -> Tasks] /\ task[c] \in Tasks /\ Safe(c)
  BY Types DEF IInv
<1>1. Disturbs(req, c)' = Disturbs(req, c)
  BY DEF ThreadOnly, mgr, Disturbs
<1>2. /\ task[c].at = "put" /\ task'[c].at = "putting" /\ task'[c].dangling = (ptr[c] # "open")
      /\ task'[c].raced = task[c].raced /\ task'[c] \in Tasks /\ task'[c].size = task[c].size
      /\ \A d \in Vpss : d # c => task'[d] = task[d]
      /\ DOMAIN task' = Vpss /\ task' = [d \in Vpss |-> task'[d]]
  BY <1>0 DEF Put, Tasks, Places
<1>3. task' \in [Vpss -> Tasks]
  BY <1>0, <1>2
<1>4. Quiet(c) => ptr[c] = "open"
  BY <1>0, <1>2 DEF Safe, Ready
<1>5. fault' = "none" \/ task'[c].raced # {}
  BY <1>2, <1>4 DEF Put, Quiet
<1>6. Safe(c)'
  BY <1>0, <1>1, <1>2, <1>4 DEF Safe, Quiet
<1> QED BY <1>2, <1>3, <1>5, <1>6 DEF Good

LEMMA PutsGood ==
  ASSUME IInv, fault = "none", NEW c \in Vpss, ThreadOnly,
         PutEnds(c) \/ PutRefused(c) \/ PutAstray(c)
  PROVE  Good(c)
<1>0. task \in [Vpss -> Tasks] /\ Safe(c)
  BY Types DEF IInv
<1>1. Disturbs(req, c)' = Disturbs(req, c)
  BY DEF ThreadOnly, mgr, Disturbs
<1>2. /\ task[c].at = "putting" /\ task'[c].at = "release" /\ task'[c].raced = task[c].raced
      /\ task'[c].size = task[c].size
      /\ task' \in [Vpss -> Tasks] /\ \A d \in Vpss : d # c => task'[d] = task[d]
  BY <1>0, GoesOn DEF PutEnds, PutRefused, PutAstray, Places
<1>3. fault' = "none" \/ task[c].dangling
  BY DEF PutEnds, PutRefused, PutAstray
<1>4. Safe(c)'
  BY <1>0, <1>1, <1>2 DEF Safe
<1>5. task[c].dangling => task'[c].raced # {}
  BY <1>0, <1>2 DEF Safe, Quiet
<1> QED BY <1>2, <1>3, <1>4, <1>5 DEF Good

LEMMA ReleaseGood ==
  ASSUME IInv, fault = "none", NEW c \in Vpss, ThreadOnly, Release(c) PROVE Good(c)
<1>0. task \in [Vpss -> Tasks] /\ Getting \in Tasks
  BY Types DEF IInv, Getting, Tasks, Places
<1>1. /\ task'[c] = Getting /\ \A d \in Vpss : d # c => task'[d] = task[d]
      /\ task' \in [Vpss -> Tasks] /\ fault' = "none"
  BY <1>0 DEF Release
<1> QED BY <1>1 DEF Good, Safe, Getting

\* A thread appends a record of a configured size, or leaves the FIFO alone.
LEMMA ThreadFifo ==
  ASSUME TypeOK, NEW c \in Vpss, Safe(c), ThreadStep(c)
  PROVE  fifo' \in [Chans -> Seq(Sizes)]
<1>0. fifo \in [Chans -> Seq(Sizes)] /\ c \in Chans
  BY FrameAssumption DEF TypeOK
<1>1. CASE PutEnds(c)
  <2>1. task[c].size \in Sizes
    BY <1>1 DEF PutEnds, Goes, Safe
  <2> QED BY <1>0, <1>1, <2>1 DEF PutEnds
<1>2. CASE ~PutEnds(c)
  <2>1. fifo' = fifo
    BY <1>2 DEF ThreadStep, Serves, GetFrame, CheckCallback, LoadArgs, Call, Put, PutRefused,
                PutAstray, Release
  <2> QED BY <1>0, <2>1
<1> QED BY <1>1, <1>2

LEMMA ThreadInv ==
  ASSUME IInv, fault = "none", NEW c \in Vpss, ThreadStep(c) PROVE IInv'
<1>1. Good(c)
  <2>1. ThreadOnly
    BY DEF ThreadStep
  <2>2. CASE GetFrame(c)
    BY <2>1, <2>2, GetFrameGood
  <2>3. CASE CheckCallback(c)
    BY <2>1, <2>3, CheckGood
  <2>4. CASE LoadArgs(c)
    BY <2>1, <2>4, LoadArgsGood
  <2>5. CASE Call(c)
    BY <2>1, <2>5, CallGood
  <2>6. CASE Put(c)
    BY <2>1, <2>6, PutGood
  <2>7. CASE PutEnds(c) \/ PutRefused(c) \/ PutAstray(c)
    BY <2>1, <2>7, PutsGood
  <2>8. CASE Release(c)
    BY <2>1, <2>8, ReleaseGood
  <2> QED BY <2>2, <2>3, <2>4, <2>5, <2>6, <2>7, <2>8 DEF ThreadStep, Serves
<1>2. UNCHANGED <<req, cfg, refused, chn, ptr, func, args>>
  BY DEF ThreadStep, ThreadOnly, mgr, words
<1>3. TypeOK'
  <2>1. fifo' \in [Chans -> Seq(Sizes)]
    BY ThreadFifo DEF IInv
  <2> QED BY <1>1, <1>2, <2>1 DEF IInv, TypeOK, Good, Tasks
<1>4. Control' /\ Channels'
  BY <1>2 DEF IInv, Control, Channels, Within, Settled, Halfway
<1>5. ASSUME NEW d \in Vpss PROVE Safe(d)'
  <2>1. CASE d = c
    BY <1>1, <2>1 DEF Good
  <2>2. CASE d # c
    <3>1. task'[d] = task[d] /\ Safe(d)
      BY <1>1, <2>2 DEF Good, IInv
    <3> QED BY <1>2, <3>1 DEF Safe, Quiet, Ready, Disturbs
  <2> QED BY <2>1, <2>2
<1>6. FrameMisuseNeedsRace'
  BY <1>1 DEF Good, FrameMisuseNeedsRace
<1> QED BY <1>3, <1>4, <1>5, <1>6 DEF IInv

\* A reader takes the oldest record and touches nothing else.
LEMMA ReaderInv ==
  ASSUME IInv, NEW c \in Chans, ThreadOnly, ReaderTakes(c) PROVE IInv'
<1>1. UNCHANGED <<req, cfg, refused, chn, ptr, func, args, task, fault>>
  BY DEF ThreadOnly, ReaderTakes, mgr, words
<1>2. fifo' \in [Chans -> Seq(Sizes)]
  BY DEF IInv, TypeOK, ReaderTakes
<1>3. TypeOK'
  BY <1>1, <1>2 DEF IInv, TypeOK
<1>4. Control' /\ Channels'
  BY <1>1 DEF IInv, Control, Channels, Within, Settled, Halfway
<1>5. \A d \in Vpss : Safe(d)'
  BY <1>1 DEF IInv, Safe, Quiet, Ready, Disturbs
<1>6. FrameMisuseNeedsRace'
  BY <1>1 DEF IInv, FrameMisuseNeedsRace
<1> QED BY <1>3, <1>4, <1>5, <1>6 DEF IInv

LEMMA StutterInv == IInv /\ UNCHANGED vars => IInv'
<1> SUFFICES ASSUME IInv, UNCHANGED vars PROVE IInv'
  OBVIOUS
<1>1. UNCHANGED <<req, cfg, refused, chn, ptr, func, args, task, fault, fifo>>
  BY DEF vars, frameVars, mgr, words
<1> QED BY <1>1 DEF IInv, TypeOK, Control, Channels, Within, Settled, Halfway, Safe, Quiet, Ready,
                    Disturbs, FrameMisuseNeedsRace
-----------------------------------------------------------------------------
\* In every reachable state, for any number of channels, groups and sizes, the
\* channels are settled or on their way, every thread that no harmful request
\* disturbed finds what it checked, and the types hold.
THEOREM Inductive == Spec => []IInv
<1>1. IInv /\ [Next]_vars => IInv'
  <2> SUFFICES ASSUME IInv, [Next]_vars PROVE IInv'
    OBVIOUS
  <2>1. ASSUME fault = "none", Steps PROVE IInv'
    BY <2>1, StepsInv
  <2>2. ASSUME fault = "none", NEW c \in Vpss, ThreadStep(c) PROVE IInv'
    BY <2>2, ThreadInv
  <2>3. ASSUME NEW c \in Chans, ThreadOnly, ReaderTakes(c) PROVE IInv'
    BY <2>3, ReaderInv
  <2>4. CASE UNCHANGED vars
    BY <2>4, StutterInv
  <2> QED BY <2>1, <2>2, <2>3, <2>4 DEF Next, FrameNext, Steps
<1> QED BY InitInv, <1>1, PTL DEF Spec

\* The threads of vpss.c and the set operation of frame_mgr.c: a NULL callback,
\* a NULL argument or a dead FIFO is used only when a request that turns the
\* channel off, or words that become visible out of order, overlap the frame.
THEOREM FrameMisuseNeedsRaceAlways == Spec => []FrameMisuseNeedsRace
<1>1. IInv => FrameMisuseNeedsRace
  BY DEF IInv
<1> QED BY Inductive, <1>1, PTL

\* msgbox_frame_set leaves a channel it has seen as the stored configuration
\* says, unless the driver refused, and every variable keeps its type.
THEOREM FrameConfiguredAlways == Spec => []FrameConfigured
<1>1. IInv => FrameConfigured
  <2> SUFFICES ASSUME IInv PROVE FrameConfigured
    OBVIOUS
  <2>1. TypeOK
    BY DEF IInv
  <2>2. ASSUME req = Idle, NEW c \in Chans, cfg[c] # Unset
        PROVE  /\ ptr[c] = IF cfg[c].enable THEN "open" ELSE "null"
               /\ c \in Vpss => /\ func[c] = cfg[c].enable /\ args[c] = cfg[c].enable
                                /\ refused[c] \/ chn[c] = [up |-> TRUE, size |-> cfg[c].size]
    <3>1. Settled(c)
      BY <2>2 DEF IInv, Channels, Within, Idle
    <3>2. func[c] \in BOOLEAN /\ args[c] \in BOOLEAN /\ cfg[c].enable \in BOOLEAN
      BY <2>1 DEF TypeOK
    <3>3. c \in Vpss => (func[c] <=> cfg[c].enable) /\ (args[c] <=> cfg[c].enable)
      BY <3>1 DEF Settled
    <3>4. c \in Vpss => func[c] = cfg[c].enable /\ args[c] = cfg[c].enable
      BY <3>2, <3>3
    <3> QED BY <2>2, <3>1, <3>4 DEF Settled
  <2> QED BY <2>1, <2>2 DEF FrameConfigured
<1> QED BY Inductive, <1>1, PTL
=============================================================================
