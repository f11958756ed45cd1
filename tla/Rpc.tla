-------------------------------- MODULE Rpc --------------------------------
(***************************************************************************)
(* The requests between the processes of Freak: the message box of         *)
(* mod/proto/msgbox/msgbox.c, the client stubs of mod/proto/interface, the *)
(* request and reply sockets of mod/utils/nnm, and the requests that the   *)
(* processes send: their main functions to themselves at boot, app to vsf  *)
(* while it serves a request of its own and with the results of the face   *)
(* detector, and web on behalf of a browser.                               *)
(*                                                                         *)
(* Every process has one thread that receives a request, calls the handler *)
(* registered for its key, and sends the reply.  A caller sends one request*)
(* and waits for the reply without a limit.  An assert that fails ends the *)
(* process it fails in; which one it was is recorded in fault.             *)
(*                                                                         *)
(* Of a configuration only the enable flag is modelled, of what handlers do*)
(* only the FIFO of the frames that app uses, and the face detector as far *)
(* as requests depend on it: the thread that sends its results to vsf, and *)
(* the join that a disable of it waits in, which may never return (FaceAlg)*)
(***************************************************************************)
EXTENDS Integers, Sequences

CONSTANTS Procs,        \* the processes that run
          Forwards,     \* the pairs of a key and an action that browsers send to web
          Resendable,   \* thread, key and action of the requests that are sent again, a bound
          MaxResend     \* how many requests are sent again, a bound

ASSUME RpcAssumption ==
  /\ Procs \subseteq {"bsp", "vsf", "rtsp", "web", "app"}
  /\ Forwards \subseteq {"BSP_DUMMY", "VSF_FRAME", "VSF_STREAM", "VSF_OSD", "RTSP_SVR", "WEB_SVR",
                         "APP_ALG"} \X {"NUM", "CAP", "GET", "SET", "TGR"}
  /\ MaxResend \in Nat

\* proto_key_e numbers the keys from 0 in this order.
KeyOrder == <<"BSP_DUMMY", "VSF_FRAME", "VSF_STREAM", "VSF_OSD", "RTSP_SVR", "WEB_SVR", "APP_ALG">>
Keys == {KeyOrder[i] : i \in DOMAIN KeyOrder}

\* s_msgbox_node, whose entries are found by the number of a key.
NodeTable == << <<"BSP_DUMMY", "bsp">>, <<"RTSP_SVR", "rtsp">>, <<"VSF_FRAME", "vsf">>,
                <<"VSF_STREAM", "vsf">>, <<"VSF_OSD", "vsf">>, <<"WEB_SVR", "web">>,
                <<"APP_ALG", "app">> >>
Routes == [key \in Keys |-> NodeTable[CHOOSE i \in DOMAIN KeyOrder : KeyOrder[i] = key][2]]
Route(key) == Routes[key]

\* proto_action_e.
Acts == {"NUM", "CAP", "GET", "SET", "TGR"}

\* The client stubs: the process that the stub of a key connects to, and the
\* actions it can ask for.
DummyStub == [node |-> "bsp", acts |-> {"NUM", "CAP", "GET", "SET"}]
FrameStub == [node |-> "vsf", acts |-> {"NUM", "CAP", "GET", "SET"}]
StreamStub == [node |-> "vsf", acts |-> {"NUM", "CAP", "GET", "SET"}]
OsdStub == [node |-> "vsf", acts |-> {"NUM", "CAP", "GET", "SET", "TGR"}]
RtspStub == [node |-> "rtsp", acts |-> {"NUM", "CAP", "GET", "SET"}]
WebStub == [node |-> "web", acts |-> {"NUM", "CAP", "GET", "SET"}]
AlgStub == [node |-> "app", acts |-> {"NUM", "CAP", "GET", "SET"}]
Stub == [BSP_DUMMY |-> DummyStub, VSF_FRAME |-> FrameStub, VSF_STREAM |-> StreamStub,
         VSF_OSD |-> OsdStub, RTSP_SVR |-> RtspStub, WEB_SVR |-> WebStub, APP_ALG |-> AlgStub]

\* The actions that the handler of a key knows; assert(0) ends the process at
\* any other.
DummyDispatch == {"NUM", "CAP", "GET", "SET"}
FrameDispatch == {"NUM", "CAP", "GET", "SET"}
StreamDispatch == {"NUM", "CAP", "GET", "SET"}
OsdDispatch == {"NUM", "CAP", "GET", "SET", "TGR"}
RtspDispatch == {"NUM", "CAP", "GET", "SET"}
WebDispatch == {"NUM", "CAP", "GET", "SET"}
AlgDispatchNoNum == {"CAP", "GET", "SET"}
AlgDispatch == {"NUM", "CAP", "GET", "SET"}
Dispatch == [BSP_DUMMY |-> DummyDispatch, VSF_FRAME |-> FrameDispatch,
             VSF_STREAM |-> StreamDispatch, VSF_OSD |-> OsdDispatch, RTSP_SVR |-> RtspDispatch,
             WEB_SVR |-> WebDispatch, APP_ALG |-> AlgDispatch]

\* The handlers that each main registers, in the order in which it then sets
\* the configured objects of each.
BspMain == <<"BSP_DUMMY">>
VsfMain == <<"VSF_FRAME", "VSF_STREAM", "VSF_OSD">>
RtspMain == <<"RTSP_SVR">>
WebMain == <<"WEB_SVR">>
AppMain == <<"APP_ALG">>
OwnKeys == [bsp |-> BspMain, vsf |-> VsfMain, rtsp |-> RtspMain, web |-> WebMain, app |-> AppMain]
KeysOf(p) == {OwnKeys[p][i] : i \in DOMAIN OwnKeys[p]}

VARIABLES handlers,  \* handlers[p]: the keys with a registered handler in p
          bound,     \* the processes whose reply socket is bound
          at,        \* at[p]: how many requests of its boot main has done
          held,      \* held[p]: the configuration that main got last
          call,      \* call[t]: the request of thread t, and what its reply says
          inbox,     \* inbox[p][t]: the requests of t that wait at p, copies included
          turn,      \* turn[p]: the callers with requests at p, in the order it takes from them
          resent,    \* how many requests were sent again
          nest,      \* how far the reply thread of app is in turning the detector on or off
          detector,  \* the threads of the detector run
          cfg,       \* cfg[key]: the enable flag in the process of the key
          fifo,      \* the frame FIFO exists
          early,     \* history: app began to turn the detector on before vsf had booted
          late,      \* history: since then a copy of an answered request turned the frames off
          fault      \* the assert that failed

vars == <<handlers, bound, at, held, call, inbox, turn, resent, nest, detector, cfg, fifo, early, late, fault>>

Main(p) == <<p, "main">>
Rep(p) == <<p, "rep">>
Ws == <<"web", "ws">>
Res == <<"app", "result">>
Threads == {Main(p) : p \in Procs} \cup {Rep("app"), Res, Ws}

NoCall == [st |-> "none", to |-> "bsp", key |-> "BSP_DUMMY", act |-> "NUM", arg |-> FALSE,
           got |-> "BSP_DUMMY"]

\* json_cfg_load: a file may hold either value of a flag, and one that is
\* missing or cannot be read leaves the defaults.  Only two flags matter here.
LoadedCfg == {c \in [Keys -> BOOLEAN] : \A key \in Keys \ {"VSF_FRAME", "APP_ALG"} : c[key]}

Init ==
  /\ handlers = [p \in Procs |-> {}]
  /\ bound = {}
  /\ at = [p \in Procs |-> 0]
  /\ held = [p \in Procs |-> FALSE]
  /\ call = [t \in Threads |-> NoCall]
  /\ inbox = [p \in Procs |-> [t \in Threads |-> <<>>]]
  /\ turn = [p \in Procs |-> <<>>]
  /\ resent = 0
  /\ nest = "no" /\ detector = FALSE
  /\ cfg \in LoadedCfg
  /\ fifo = FALSE /\ early = FALSE /\ late = FALSE
  /\ fault = "none"

\* nnm_req_exchange: the request goes out and the caller waits.  A copy
\* counts, for the socket of the caller, while the call it belongs to lasts.
\* Only the argument of a set is read.  The requests of one caller stay in
\* order, and a caller that had none waiting gets behind the others.
Copy(c) == [key |-> c.key, act |-> c.act, arg |-> c.arg, current |-> TRUE]

Enqueue(t, c) ==
  /\ inbox' = [inbox EXCEPT ![c.to][t] = Append(@, Copy(c))]
  /\ turn' = IF inbox[c.to][t] = <<>> THEN [turn EXCEPT ![c.to] = Append(@, t)] ELSE turn

Send(t, to, key, act, arg) ==
  LET c == [st |-> "sent", to |-> to, key |-> key, act |-> act, arg |-> act = "SET" /\ arg,
            got |-> key]
  IN
  /\ call[t].st = "none"
  /\ to \in Procs
  /\ call' = [call EXCEPT ![t] = c]
  /\ Enqueue(t, c)

\* Sixty seconds without a reply: nanomsg sends the request again.
Resend(t) ==
  LET c == call[t] IN
  /\ c.st = "sent" /\ c.to \in bound
  /\ <<t, c.key, c.act>> \in Resendable /\ resent < MaxResend
  /\ resent' = resent + 1
  /\ Enqueue(t, c)
  /\ UNCHANGED <<handlers, bound, at, held, call, nest, detector, cfg, fifo, early, late, fault>>

\* A stub is destroyed, and its socket closed, after the last request made
\* with it: what waits at the server is dropped there, unless the reply thread
\* takes it before the server learns of the close, or has taken it already.
Closes(t) ==
  \/ t = Ws \/ call[t].act = "SET"
  \/ call[t].key = "BSP_DUMMY" /\ call[t].act = "NUM"

Taken(p, t) == p = "app" /\ nest # "no" /\ Head(turn[p]) = t
Stale(s) == [i \in DOMAIN s |-> [s[i] EXCEPT !.current = FALSE]]

Receive(t) ==
  LET p == call[t].to
      old == Stale(inbox[p][t])
  IN
  /\ call[t].st = "replied"
  /\ call' = [call EXCEPT ![t] = NoCall]
  /\ \/ inbox' = [inbox EXCEPT ![p][t] = old] /\ UNCHANGED turn
     \/ Closes(t) /\ Taken(p, t) /\ inbox' = [inbox EXCEPT ![p][t] = SubSeq(old, 1, 1)]
                  /\ UNCHANGED turn
     \/ Closes(t) /\ ~Taken(p, t) /\ inbox' = [inbox EXCEPT ![p][t] = <<>>]
                  /\ \E i \in DOMAIN turn[p] :
                       /\ turn[p][i] = t
                       /\ turn' = [turn EXCEPT ![p] = SubSeq(@, 1, i - 1) \o SubSeq(@, i + 1, Len(@))]
-----------------------------------------------------------------------------
(***************************************************************************)
(* main of every process                                                   *)
(***************************************************************************)
Requests(p) == 3 * Len(OwnKeys[p])
Booted(p) == at[p] = Requests(p)

Register(p) ==
  /\ handlers[p] = {}
  /\ handlers' = [handlers EXCEPT ![p] = KeysOf(p)]
  /\ UNCHANGED <<bound, at, held, call, inbox, turn, resent, nest, detector, cfg, fifo, early, late, fault>>

\* nnm_rep_create; the mutant binds before the handlers are registered.
BindEarly(p) ==
  /\ p \notin bound
  /\ bound' = bound \cup {p}
  /\ UNCHANGED <<handlers, at, held, call, inbox, turn, resent, nest, detector, cfg, fifo, early, late, fault>>
Bind(p) ==
  /\ p \notin bound /\ handlers[p] # {}
  /\ bound' = bound \cup {p}
  /\ UNCHANGED <<handlers, at, held, call, inbox, turn, resent, nest, detector, cfg, fifo, early, late, fault>>

\* num, and then get and set, for the objects of every key.
MainCalls(p) ==
  LET key == OwnKeys[p][(at[p] \div 3) + 1]
      act == <<"NUM", "GET", "SET">>[(at[p] % 3) + 1]
  IN
  /\ p \in bound /\ handlers[p] # {} /\ ~Booted(p)
  /\ act \in Stub[key].acts
  /\ Send(Main(p), Stub[key].node, key, act, held[p])
  /\ UNCHANGED <<handlers, bound, at, held, resent, nest, detector, cfg, fifo, early, late, fault>>

MainReceives(p) ==
  /\ Receive(Main(p))
  /\ held' = [held EXCEPT ![p] = call[Main(p)].arg]
  /\ at' = [at EXCEPT ![p] = @ + 1]
  /\ UNCHANGED <<handlers, bound, resent, nest, detector, cfg, fifo, early, late, fault>>
-----------------------------------------------------------------------------
(***************************************************************************)
(* nnm_rep_routine and msgbox_do_handler                                   *)
(***************************************************************************)
\* The reply socket takes from its callers in turn: the second request of one
\* of them is behind the first of every other.  The mutant leaves the request
\* in its queue.
Waiting(p) == p \in bound /\ turn[p] # <<>>
Caller(p) == Head(turn[p])
Request(p) == Head(inbox[p][Caller(p)])

TakeStays(p) == UNCHANGED <<inbox, turn>>
Take(p) ==
  LET rest == Tail(inbox[p][Caller(p)]) IN
  /\ inbox' = [inbox EXCEPT ![p][Caller(p)] = rest]
  /\ turn' = [turn EXCEPT ![p] = IF rest = <<>> THEN Tail(@) ELSE Append(Tail(@), Caller(p))]

\* What becomes of a reply: one that does not carry the number of the request
\* its caller waits for is dropped.  The mutant passes it on.
ReplyAny(t, m, arg) ==
  IF call[t].st # "none"
  THEN [call EXCEPT ![t].st = "replied", ![t].got = m.key, ![t].arg = arg]
  ELSE call
Reply(t, m, arg) ==
  IF m.current
  THEN [call EXCEPT ![t].st = "replied", ![t].got = m.key, ![t].arg = arg]
  ELSE call

\* assert(func): there is a handler; assert(0): the handler knows the action.
HasHandler(p, m) == m.key \in handlers[p]
KnowsAction(m) == m.act \in Dispatch[m.key]

Reject(p) ==
  LET m == Request(p) IN
  /\ Waiting(p)
  /\ \/ ~HasHandler(p, m) /\ fault' = "func"
     \/ HasHandler(p, m) /\ ~KnowsAction(m) /\ fault' = "action"
  /\ UNCHANGED <<handlers, bound, at, held, call, inbox, turn, resent, nest, detector, cfg, fifo, early, late>>

\* Turning the detector on takes requests to vsf, turning it off a join.
IsSwitch(m) == m.key = "APP_ALG" /\ m.act = "SET"
Enabling == nest \in {"CAP", "GET", "SET", "attach"}

\* What a handler does: get answers the flag, set stores it.  The frame FIFO
\* is created and destroyed by the set of its manager.
Answer(p) ==
  LET m == Request(p)
      sets == m.act = "SET"
      frames == sets /\ m.key = "VSF_FRAME"
  IN
  /\ Waiting(p) /\ HasHandler(p, m) /\ KnowsAction(m) /\ ~IsSwitch(m)
  /\ Take(p)
  /\ call' = Reply(Caller(p), m, IF m.act = "GET" THEN cfg[m.key] ELSE m.arg)
  /\ cfg' = IF sets THEN [cfg EXCEPT ![m.key] = m.arg] ELSE cfg
  /\ fifo' = IF frames THEN m.arg ELSE fifo
  /\ late' = (late \/ (Enabling /\ frames /\ ~m.arg /\ ~m.current))
  /\ UNCHANGED <<handlers, bound, at, held, resent, nest, detector, early, fault>>

\* __app_alg_set, enable: cap, get and set of the frames, then the FIFO is
\* attached to.  The reply thread of app is busy meanwhile.
NestNext == [CAP |-> "GET", GET |-> "SET", SET |-> "attach"]

StartEnable ==
  LET m == Request("app") IN
  /\ "app" \in Procs /\ Waiting("app") /\ HasHandler("app", m) /\ IsSwitch(m) /\ m.arg
  /\ nest = "no" /\ nest' = "CAP"
  /\ early' = ("vsf" \in Procs /\ ~Booted("vsf"))
  /\ UNCHANGED <<handlers, bound, at, held, call, inbox, turn, resent, detector, cfg, fifo, late, fault>>

\* The mutants: a stub that sends to its own process (the weak stubs have the
\* names of the managers they stand for), and a set that does not enable.
NestCallHome ==
  /\ nest \in Stub["VSF_FRAME"].acts
  /\ Send(Rep("app"), "app", "VSF_FRAME", nest, nest = "SET")
  /\ UNCHANGED <<handlers, bound, at, held, resent, nest, detector, cfg, fifo, early, late, fault>>
NestCallOff ==
  /\ nest \in Stub["VSF_FRAME"].acts
  /\ Send(Rep("app"), Stub["VSF_FRAME"].node, "VSF_FRAME", nest, FALSE)
  /\ UNCHANGED <<handlers, bound, at, held, resent, nest, detector, cfg, fifo, early, late, fault>>
NestCall ==
  /\ nest \in Stub["VSF_FRAME"].acts
  /\ Send(Rep("app"), Stub["VSF_FRAME"].node, "VSF_FRAME", nest, nest = "SET")
  /\ UNCHANGED <<handlers, bound, at, held, resent, nest, detector, cfg, fifo, early, late, fault>>

NestReceive ==
  /\ Receive(Rep("app"))
  /\ nest' = NestNext[nest]
  /\ UNCHANGED <<handlers, bound, at, held, resent, detector, cfg, fifo, early, late, fault>>

\* mfifo_attach of a FIFO that does not exist fails, and so does the assert.
Attach ==
  /\ nest = "attach"
  /\ IF fifo
     THEN /\ Take("app")
          /\ call' = Reply(Caller("app"), Request("app"), TRUE)
          /\ cfg' = [cfg EXCEPT !["APP_ALG"] = TRUE]
          /\ nest' = "no" /\ early' = FALSE /\ late' = FALSE
          /\ detector' = TRUE
          /\ UNCHANGED fault
     ELSE fault' = "attach" /\ UNCHANGED <<inbox, turn, call, cfg, nest, detector, early, late>>
  /\ UNCHANGED <<handlers, bound, at, held, resent, fifo>>
-----------------------------------------------------------------------------
(***************************************************************************)
(* The face detector of app: __app_alg_result, and __app_alg_set, disable. *)
(***************************************************************************)
\* The thread of the results asks vsf to draw one, with the stub that enable
\* created.  Of a detector that is enabled twice only one such thread is there.
Deliver ==
  /\ detector /\ nest \notin {"join", "asleep"}
  /\ Send(Res, Stub["VSF_OSD"].node, "VSF_OSD", "TGR", FALSE)
  /\ UNCHANGED <<handlers, bound, at, held, resent, nest, detector, cfg, fifo, early, late, fault>>

ResReceives ==
  /\ Receive(Res)
  /\ UNCHANGED <<handlers, bound, at, held, resent, nest, detector, cfg, fifo, early, late, fault>>

\* The FIFO, the buffer and the stub are taken away under the threads that use
\* them, and threads that do not run are joined too: undefined (FaceAlg), the
\* process may end.  A thread that sleeps on a queue, or in the FIFO that was
\* destroyed, is waited for without end (Stuck of FaceAlg).
StartDisable ==
  LET m == Request("app") IN
  /\ "app" \in Procs /\ Waiting("app") /\ HasHandler("app", m) /\ IsSwitch(m) /\ ~m.arg
  /\ nest = "no"
  /\ \/ nest' \in {"join", "asleep"} /\ UNCHANGED fault
     \/ fault' = "face" /\ UNCHANGED nest
  /\ UNCHANGED <<handlers, bound, at, held, call, inbox, turn, resent, detector, cfg, fifo, early, late>>

\* The threads are joined, that of the results with its last one drawn, and
\* the request is answered.
Joined ==
  /\ nest = "join" /\ call[Res].st = "none"
  /\ Take("app")
  /\ call' = Reply(Caller("app"), Request("app"), FALSE)
  /\ cfg' = [cfg EXCEPT !["APP_ALG"] = FALSE]
  /\ nest' = "no" /\ detector' = FALSE
  /\ UNCHANGED <<handlers, bound, at, held, resent, fifo, early, late, fault>>
-----------------------------------------------------------------------------
(***************************************************************************)
(* __ws_recv and msgbox_do_forward: web passes a request of a browser on.  *)
(* Where web is not one of Procs, it has booted.                           *)
(***************************************************************************)
WsForwards(key, act, e) ==
  /\ "web" \in Procs => Booted("web")
  /\ Send(Ws, Route(key), key, act, e)
  /\ UNCHANGED <<handlers, bound, at, held, resent, nest, detector, cfg, fifo, early, late, fault>>

WsReceives ==
  /\ Receive(Ws)
  /\ UNCHANGED <<handlers, bound, at, held, resent, nest, detector, cfg, fifo, early, late, fault>>
-----------------------------------------------------------------------------
ProcStep(p) == Register(p) \/ Bind(p) \/ MainCalls(p) \/ MainReceives(p)
Serve(p) == Answer(p) \/ Reject(p)
Switching == StartEnable \/ NestCall \/ NestReceive \/ Attach \/ StartDisable \/ Joined

Next ==
  /\ fault = "none"
  /\ \/ \E p \in Procs : ProcStep(p) \/ Serve(p)
     \/ Switching \/ Deliver \/ ResReceives
     \/ \E f \in Forwards, e \in BOOLEAN : WsForwards(f[1], f[2], e)
     \/ WsReceives
     \/ \E t \in Threads : Resend(t)

Spec == Init /\ [][Next]_vars

\* All threads of all processes run; that a request is sent again is not
\* promised.
Alive == fault = "none"
Fairness ==
  /\ \A p \in Procs : WF_vars(Alive /\ ProcStep(p)) /\ WF_vars(Alive /\ Serve(p))
  /\ WF_vars(Alive /\ Switching)
  /\ WF_vars(Alive /\ ResReceives) /\ WF_vars(Alive /\ WsReceives)
FairSpec == Spec /\ Fairness
-----------------------------------------------------------------------------
Call == [st : {"none", "sent", "replied"}, to : DOMAIN OwnKeys, key : Keys, act : Acts,
         arg : BOOLEAN, got : Keys]
Message == [key : Keys, act : Acts, arg : BOOLEAN, current : BOOLEAN]

\* Every variable has its type.
TypeOK ==
  /\ handlers \in [Procs -> SUBSET Keys] /\ bound \subseteq Procs
  /\ at \in [Procs -> 0 .. 9] /\ held \in [Procs -> BOOLEAN]
  /\ call \in [Threads -> Call] /\ inbox \in [Procs -> [Threads -> Seq(Message)]]
  /\ turn \in [Procs -> Seq(Threads)]
  /\ resent \in 0 .. MaxResend
  /\ nest \in {"no", "CAP", "GET", "SET", "attach", "join", "asleep"} /\ detector \in BOOLEAN
  /\ cfg \in [Keys -> BOOLEAN] /\ fifo \in BOOLEAN /\ early \in BOOLEAN /\ late \in BOOLEAN
  /\ fault \in {"none", "func", "action", "attach", "face"}

\* The state of the sockets is well formed: a process takes in turn, each once,
\* from the callers with requests; a caller that waits has a request, of the
\* kind it waits for, at the process it was sent to; every other request of its
\* is the copy of one that was answered, or is about to be, and there is none
\* before a request was sent again.
CallsAndCopiesAgree ==
  /\ TypeOK
  /\ \A p \in Procs : \A t \in Threads :
       inbox[p][t] # <<>> <=> \E i \in DOMAIN turn[p] : turn[p][i] = t
  /\ \A p \in Procs : \A i, j \in DOMAIN turn[p] : turn[p][i] = turn[p][j] => i = j
  /\ \A t \in Threads : call[t].st = "sent" =>
       \E i \in DOMAIN inbox[call[t].to][t] : inbox[call[t].to][t][i].current
  /\ \A p \in Procs : \A t \in Threads : \A i \in DOMAIN inbox[p][t] :
       LET m == inbox[p][t][i]
           c == call[t]
       IN  /\ m.current => c.st # "none" /\ c.to = p /\ c.key = m.key /\ c.act = m.act
           /\ (c.st # "sent" \/ ~m.current) => resent > 0

\* assert(func) in msgbox_do_handler: a request always finds its handler.
HandlerFound == fault # "func"

\* The asserts of msgbox_do_handler and of the handlers fail only for what a
\* browser sent: a key that the node table sends to the wrong process, or an
\* action that the key does not have.  No request is served before the handlers
\* of its process are there, and a stub asks for nothing its server lacks.
OnlyForwardedRejected ==
  fault \in {"func", "action"} =>
    \E p \in Procs :
      LET m == Request(p) IN
      /\ Waiting(p) /\ Caller(p) = Ws
      /\ IF fault = "func" THEN p # Stub[m.key].node ELSE m.act \notin Stub[m.key].acts

\* assert(obuf->key == ...) of every stub: a caller gets the reply to the
\* request it waits for, although copies of earlier ones are answered too.
AnswersMatch == \A t \in Threads : call[t].st = "replied" => call[t].got = call[t].key

\* assert(priv->fifos[cfg->id]) fails only when app began to turn the detector
\* on while vsf booted, or when since then a copy of an answered request turned
\* the frames off: nothing else takes away the FIFO between the requests that
\* create it and the attach, whatever happened before.
OnlyEarlyAppFails == fault = "attach" => early \/ late

\* Every request is answered in the end, but one to app while it waits in the
\* join of a thread of the detector that sleeps: no circle of processes waits on
\* one another, although app calls vsf while it serves a request itself and the
\* thread it joins calls vsf too, and a request that was sent again does not
\* keep its caller.
Stuck == nest = "asleep"
EveryRequestAnswered ==
  \A t \in Threads :
    []<>(call[t].st # "sent" \/ (Stuck /\ call[t].to = "app") \/ fault # "none")
=============================================================================
