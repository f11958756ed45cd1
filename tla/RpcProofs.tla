------------------------------ MODULE RpcProofs ------------------------------
(***************************************************************************)
(* The safety of the requests between the processes (Rpc) for every set of *)
(* processes and keys, and however often requests are sent again.          *)
(***************************************************************************)
EXTENDS Rpc, SequenceTheorems, TLAPS

\* A process takes in turn, each once, from the callers with requests.
Turns ==
  /\ \A p \in Procs : \A t \in Threads :
       inbox[p][t] # <<>> <=> \E i \in DOMAIN turn[p] : turn[p][i] = t
  /\ \A p \in Procs : \A i, j \in DOMAIN turn[p] : turn[p][i] = turn[p][j] => i = j

\* What a thread asks for, and of whom: its stubs know both, browsers neither.
Asked(p, t, m) ==
  /\ t # Ws => p = Stub[m.key].node /\ m.act \in Stub[m.key].acts
  /\ t \notin {Ws, Rep("app"), Res} => t = Main(p)
  /\ t = Rep("app") => m.key = "VSF_FRAME" /\ (m.act = "SET" => m.arg)
  /\ t = Res => m.key = "VSF_OSD"
  /\ t = Ws => p = Route(m.key)

\* A copy that counts belongs to the call of its caller.
Belongs(p, t, m) ==
  m.current => call[t].st # "none" /\ call[t].to = p /\ call[t].key = m.key /\ call[t].act = m.act

Messages ==
  \A p \in Procs : \A t \in Threads : \A i \in DOMAIN inbox[p][t] :
    Asked(p, t, inbox[p][t][i]) /\ Belongs(p, t, inbox[p][t][i])

\* A caller that waits has a request that counts.
Pending ==
  \A t \in Threads : call[t].st = "sent" =>
    \E i \in DOMAIN inbox[call[t].to][t] : inbox[call[t].to][t][i].current

\* As long as nothing was sent again, a caller has one request, the one it
\* waits for.
Single ==
  resent = 0 => \A p \in Procs : \A t \in Threads : inbox[p][t] # <<>> =>
    /\ Len(inbox[p][t]) = 1 /\ inbox[p][t][1].current
    /\ call[t].st = "sent"

\* Calls are made to processes that run, and answered with their own replies.
Exchanges ==
  /\ \A t \in Threads : call[t].st # "none" => call[t].to \in Procs
  /\ \A t \in Threads : call[t].st = "sent" => Asked(call[t].to, t, call[t])
  /\ AnswersMatch

\* The state of the sockets.
InboxType == inbox \in [Procs -> [Threads -> Seq(Message)]]
TurnType == turn \in [Procs -> Seq(Threads)]
CallType == call \in [Threads -> Call]

Sockets ==
  InboxType /\ TurnType /\ CallType /\ Turns /\ Messages /\ Pending /\ Single /\ Exchanges

\* A main function makes its calls while it boots, the reply thread of app
\* those that turn the frames on.
Calls ==
  /\ \A p \in Procs : call[Main(p)].st # "none" => ~Booted(p)
  /\ call[Rep("app")].st # "none" =>
       call[Rep("app")].act = nest /\ nest \in {"CAP", "GET", "SET"}

Boots ==
  /\ \A p \in Procs : at[p] <= Requests(p)
  /\ \A p \in Procs : handlers[p] \in {{}, KeysOf(p)}
  /\ \A p \in bound : handlers[p] = KeysOf(p)
  /\ Enabling /\ "vsf" \in Procs /\ ~early => Booted("vsf")

\* While app turns the detector on or off, the request for it stays in front;
\* the frames have been turned on before it attaches.
Enables ==
  /\ nest # "no" => "app" \in Procs /\ Waiting("app") /\ IsSwitch(Request("app"))
  /\ (nest = "attach" \/ (nest = "SET" /\ call[Rep("app")].st = "replied")) =>
       fifo \/ early \/ late

RpcInv ==
  /\ TypeOK /\ Sockets /\ Calls /\ Boots /\ Enables
  /\ OnlyForwardedRejected /\ OnlyEarlyAppFails
-----------------------------------------------------------------------------
(***************************************************************************)
(* The tables                                                              *)
(***************************************************************************)
Nodes == {"bsp", "vsf", "rtsp", "web", "app"}

\* The keys, one by one.
LEMMA KeyNames ==
  Keys = {"BSP_DUMMY", "VSF_FRAME", "VSF_STREAM", "VSF_OSD", "RTSP_SVR", "WEB_SVR", "APP_ALG"}
<1>1. DOMAIN KeyOrder = 1 .. 7
  BY DEF KeyOrder
<1> QED BY <1>1 DEF Keys, KeyOrder

\* The stub of a key asks the process whose main registers its handler, and for
\* what the handler knows.
LEMMA Tables ==
  ASSUME NEW key \in Keys
  PROVE  /\ Stub[key].node \in Nodes /\ key \in KeysOf(Stub[key].node)
         /\ Stub[key].acts = Dispatch[key]
         /\ {"NUM", "GET", "SET"} \subseteq Stub[key].acts /\ Stub[key].acts \subseteq Acts
<1>1. /\ DOMAIN OwnKeys["bsp"] = 1 .. 1 /\ DOMAIN OwnKeys["vsf"] = 1 .. 3
      /\ DOMAIN OwnKeys["rtsp"] = 1 .. 1 /\ DOMAIN OwnKeys["web"] = 1 .. 1
      /\ DOMAIN OwnKeys["app"] = 1 .. 1
  BY DEF OwnKeys, BspMain, VsfMain, RtspMain, WebMain, AppMain
<1>2. key \in KeysOf(Stub[key].node)
  BY <1>1, KeyNames
     DEF KeysOf, Stub, OwnKeys, BspMain, VsfMain, RtspMain, WebMain, AppMain, DummyStub, FrameStub,
         StreamStub, OsdStub, RtspStub, WebStub, AlgStub
<1>3. Stub[key].acts = Dispatch[key]
  BY KeyNames DEF Stub, Dispatch, DummyStub, FrameStub, StreamStub, OsdStub, RtspStub, WebStub,
                  AlgStub, DummyDispatch, FrameDispatch, StreamDispatch, OsdDispatch, RtspDispatch,
                  WebDispatch, AlgDispatch
<1>4. /\ Stub[key].node \in Nodes
      /\ {"NUM", "GET", "SET"} \subseteq Stub[key].acts /\ Stub[key].acts \subseteq Acts
  BY KeyNames DEF Stub, DummyStub, FrameStub, StreamStub, OsdStub, RtspStub, WebStub, AlgStub,
                  Nodes, Acts
<1> QED BY <1>2, <1>3, <1>4

\* The keys of a main function are those whose stubs ask its process.
LEMMA Own ==
  ASSUME NEW p \in Nodes
  PROVE  /\ OwnKeys[p] \in Seq(Keys) /\ Len(OwnKeys[p]) \in 1 .. 3
         /\ KeysOf(p) # {} /\ KeysOf(p) \subseteq Keys
         /\ \A key \in KeysOf(p) : Stub[key].node = p
<1>1. OwnKeys[p] \in Seq(Keys) /\ Len(OwnKeys[p]) \in 1 .. 3
  <2>1. CASE p \in {"bsp", "rtsp", "web", "app"}
    <3>1. PICK key \in Keys : OwnKeys[p] = <<key>>
      BY <2>1, KeyNames DEF OwnKeys, BspMain, RtspMain, WebMain, AppMain
    <3> QED BY <3>1
  <2>2. CASE p = "vsf"
    <3>1. OwnKeys[p] = <<"VSF_FRAME", "VSF_STREAM", "VSF_OSD">>
      BY <2>2 DEF OwnKeys, VsfMain
    <3> QED BY <3>1, KeyNames
  <2> QED BY <2>1, <2>2 DEF Nodes
<1>2. KeysOf(p) # {} /\ KeysOf(p) \subseteq Keys
  <2>1. 1 \in DOMAIN OwnKeys[p] /\ \A i \in DOMAIN OwnKeys[p] : OwnKeys[p][i] \in Keys
    BY <1>1
  <2> QED BY <2>1 DEF KeysOf
<1>3. \A i \in DOMAIN OwnKeys[p] : Stub[OwnKeys[p][i]].node = p
  BY <1>1 DEF Nodes, OwnKeys, BspMain, VsfMain, RtspMain, WebMain, AppMain, Stub, DummyStub,
              FrameStub, StreamStub, OsdStub, RtspStub, WebStub, AlgStub
<1> QED BY <1>1, <1>2, <1>3 DEF KeysOf

\* What a browser asks of the frames is sent to rtsp, what a stub asks to vsf.
LEMMA FrameRoute == Route("VSF_FRAME") = "rtsp" /\ Stub["VSF_FRAME"].node = "vsf"
<1>1. DOMAIN KeyOrder = 1 .. 7
  BY DEF KeyOrder
<1> DEFINE n == CHOOSE i \in DOMAIN KeyOrder : KeyOrder[i] = "VSF_FRAME"
<1>2. 2 \in DOMAIN KeyOrder /\ KeyOrder[2] = "VSF_FRAME"
  BY <1>1 DEF KeyOrder
<1>3. n \in DOMAIN KeyOrder /\ KeyOrder[n] = "VSF_FRAME"
  BY <1>2
<1>4. n = 2
  BY <1>1, <1>3 DEF KeyOrder
<1>5. Routes["VSF_FRAME"] = NodeTable[n][2]
  BY KeyNames DEF Routes
<1>6. Route("VSF_FRAME") = NodeTable[2][2]
  BY <1>4, <1>5 DEF Route
<1> QED BY <1>6 DEF NodeTable, Stub, FrameStub

-----------------------------------------------------------------------------
(***************************************************************************)
(* What waits at the sockets                                               *)
(***************************************************************************)
\* A caller that gets in line does so behind the others; nothing else moves.
LEMMA Enqueued ==
  ASSUME InboxType, TurnType, Turns, NEW t \in Threads, NEW c \in Call, c.to \in Procs,
         Enqueue(t, c)
  PROVE  /\ InboxType' /\ TurnType' /\ Turns'
         /\ inbox'[c.to][t] = Append(inbox[c.to][t], Copy(c))
         /\ \A q \in Procs : \A u \in Threads :
              q # c.to \/ u # t => inbox'[q][u] = inbox[q][u]
         /\ \A q \in Procs : turn[q] # <<>> => turn'[q] # <<>> /\ Head(turn'[q]) = Head(turn[q])
<1> DEFINE p == c.to
<1>1. Copy(c) \in Message
  BY DEF Copy, Message, Call
<1>2. inbox[p][t] \in Seq(Message) /\ inbox[p] \in [Threads -> Seq(Message)]
  BY DEF InboxType
<1>3. Append(inbox[p][t], Copy(c)) \in Seq(Message) /\ Append(inbox[p][t], Copy(c)) # <<>>
  BY <1>1, <1>2
<1>4. inbox' = [inbox EXCEPT ![p] = [inbox[p] EXCEPT ![t] = Append(inbox[p][t], Copy(c))]]
  BY DEF Enqueue
<1>5. InboxType'
  BY <1>2, <1>3, <1>4 DEF InboxType
<1>6. /\ inbox'[p][t] = Append(inbox[p][t], Copy(c))
      /\ \A q \in Procs : \A u \in Threads : q # p \/ u # t => inbox'[q][u] = inbox[q][u]
  BY <1>2, <1>4 DEF InboxType
<1>7. CASE inbox[p][t] # <<>>
  <2>1. turn' = turn
    BY <1>7 DEF Enqueue
  <2>2. Turns'
    BY <1>3, <1>6, <1>7, <2>1 DEF Turns
  <2> QED BY <1>5, <1>6, <2>1, <2>2 DEF TurnType
<1>8. CASE inbox[p][t] = <<>>
  <2>1. turn' = [turn EXCEPT ![p] = Append(turn[p], t)]
    BY <1>8 DEF Enqueue
  <2>2. TurnType' /\ turn[p] \in Seq(Threads)
    BY <2>1 DEF TurnType
  <2>3. /\ turn'[p] = Append(turn[p], t) /\ Len(turn'[p]) = Len(turn[p]) + 1
        /\ \A i \in 1 .. Len(turn[p]) : turn'[p][i] = turn[p][i]
        /\ turn'[p][Len(turn[p]) + 1] = t
        /\ \A q \in Procs : q # p => turn'[q] = turn[q]
    BY <2>1, <2>2 DEF TurnType
  <2>4. DOMAIN turn[p] = 1 .. Len(turn[p]) /\ DOMAIN turn'[p] = 1 .. Len(turn[p]) + 1
        /\ Len(turn[p]) \in Nat
    BY <2>2, <2>3 DEF TurnType
  <2>5. \A i \in DOMAIN turn[p] : turn[p][i] # t
    BY <1>8 DEF Turns
  <2>6. ASSUME NEW q \in Procs, NEW u \in Threads
        PROVE  inbox'[q][u] # <<>> <=> \E i \in DOMAIN turn'[q] : turn'[q][i] = u
    <3>1. CASE q # p
      BY <1>6, <2>3, <3>1 DEF Turns
    <3>2. CASE q = p /\ u = t
      <4>1. Len(turn[p]) + 1 \in DOMAIN turn'[p]
        BY <2>4
      <4> QED BY <1>3, <1>6, <2>3, <3>2, <4>1
    <3>3. CASE q = p /\ u # t
      <4>1. inbox'[q][u] = inbox[q][u]
        BY <1>6, <3>3
      <4>2. (\E i \in DOMAIN turn'[p] : turn'[p][i] = u) <=> (\E i \in DOMAIN turn[p] : turn[p][i] = u)
        BY <2>3, <2>4, <3>3
      <4> QED BY <3>3, <4>1, <4>2 DEF Turns
    <3> QED BY <3>1, <3>2, <3>3
  <2>7. ASSUME NEW q \in Procs, NEW i \in DOMAIN turn'[q], NEW j \in DOMAIN turn'[q],
               turn'[q][i] = turn'[q][j]
        PROVE  i = j
    <3>1. CASE q # p
      BY <2>3, <2>7, <3>1 DEF Turns
    <3>2. CASE q = p
      <4>1. i \in 1 .. Len(turn[p]) + 1 /\ j \in 1 .. Len(turn[p]) + 1 /\ turn'[p][i] = turn'[p][j]
        BY <2>4, <2>7, <3>2
      <4>2. CASE i \in DOMAIN turn[p] /\ j \in DOMAIN turn[p]
        BY <2>3, <2>4, <4>1, <4>2 DEF Turns
      <4>3. CASE i \notin DOMAIN turn[p] \/ j \notin DOMAIN turn[p]
        BY <2>3, <2>4, <2>5, <4>1, <4>3
      <4> QED BY <4>2, <4>3
    <3> QED BY <3>1, <3>2
  <2>8. Turns'
    BY <2>6, <2>7 DEF Turns
  <2>9. ASSUME NEW q \in Procs, turn[q] # <<>>
        PROVE  turn'[q] # <<>> /\ Head(turn'[q]) = Head(turn[q])
    <3>1. turn[p] # <<>> => 1 \in 1 .. Len(turn[p])
      BY <2>2, <2>4
    <3>2. turn'[q] # <<>> /\ turn'[q][1] = turn[q][1]
      BY <2>3, <2>4, <2>9, <3>1
    <3>3. turn[q] \in Seq(Threads) /\ turn'[q] \in Seq(Threads)
      BY <2>2 DEF TurnType
    <3> QED BY <2>9, <3>2, <3>3
  <2> QED BY <1>5, <1>6, <2>2, <2>8, <2>9
<1> QED BY <1>7, <1>8

\* Two sequences one after the other.
LEMMA Concatenated ==
  ASSUME NEW S, NEW a \in Seq(S), NEW b \in Seq(S)
  PROVE /\ a \o b \in Seq(S) /\ DOMAIN (a \o b) = 1 .. Len(a) + Len(b)
        /\ \A i \in 1 .. Len(a) + Len(b) : (a \o b)[i] = IF i <= Len(a) THEN a[i] ELSE b[i - Len(a)]
<1>1. /\ a \o b \in Seq(S) /\ Len(a \o b) = Len(a) + Len(b)
      /\ \A i \in 1 .. Len(a) + Len(b) : (a \o b)[i] = IF i <= Len(a) THEN a[i] ELSE b[i - Len(a)]
  BY ConcatProperties, Zenon
<1> QED BY <1>1

\* A sequence without its i-th element.
LEMMA Without ==
  ASSUME NEW S, NEW s \in Seq(S), NEW i \in 1 .. Len(s)
  PROVE  /\ SubSeq(s, 1, i - 1) \o SubSeq(s, i + 1, Len(s)) \in Seq(S)
         /\ DOMAIN (SubSeq(s, 1, i - 1) \o SubSeq(s, i + 1, Len(s))) = 1 .. Len(s) - 1
         /\ \A j \in 1 .. Len(s) - 1 :
              (SubSeq(s, 1, i - 1) \o SubSeq(s, i + 1, Len(s)))[j] = IF j < i THEN s[j] ELSE s[j + 1]
<1> DEFINE a == SubSeq(s, 1, i - 1)
           b == SubSeq(s, i + 1, Len(s))
           r == a \o b
<1>1. /\ a \in Seq(S) /\ Len(a) = i - 1 /\ \A j \in 1 .. i - 1 : a[j] = s[j]
      /\ b \in Seq(S) /\ Len(b) = Len(s) - i /\ \A j \in 1 .. Len(s) - i : b[j] = s[j + i]
  OBVIOUS
<1> HIDE DEF a, b
<1>2. /\ r \in Seq(S) /\ DOMAIN r = 1 .. Len(a) + Len(b)
      /\ \A j \in 1 .. Len(a) + Len(b) : r[j] = IF j <= Len(a) THEN a[j] ELSE b[j - Len(a)]
  BY <1>1, Concatenated, Zenon
<1> HIDE DEF r
<1>3. ASSUME NEW j \in 1 .. Len(s) - 1 PROVE r[j] = IF j < i THEN s[j] ELSE s[j + 1]
  <2>1. CASE j < i
    <3>1. j \in 1 .. i - 1 /\ r[j] = a[j]
      BY <1>1, <1>2, <2>1
    <3> QED BY <1>1, <2>1, <3>1
  <2>2. CASE ~(j < i)
    <3>1. j - (i - 1) \in 1 .. Len(s) - i /\ r[j] = b[j - (i - 1)]
      BY <1>1, <1>2, <2>2
    <3>2. b[j - (i - 1)] = s[j - (i - 1) + i]
      BY <1>1, <3>1
    <3> QED BY <2>2, <3>1, <3>2
  <2> QED BY <2>1, <2>2
<1>4. r \in Seq(S) /\ DOMAIN r = 1 .. Len(s) - 1
  BY <1>1, <1>2
<1> QED BY <1>3, <1>4, Zenon DEF r, a, b

\* The first of a sequence leaves it, or goes to its end.
LEMMA Rotated ==
  ASSUME NEW S, NEW s \in Seq(S), s # <<>>, NEW e \in S
  PROVE  /\ Tail(s) \in Seq(S) /\ DOMAIN Tail(s) = 1 .. Len(s) - 1
         /\ \A j \in 1 .. Len(s) - 1 : Tail(s)[j] = s[j + 1]
         /\ Append(Tail(s), e) \in Seq(S) /\ DOMAIN Append(Tail(s), e) = 1 .. Len(s)
         /\ Append(Tail(s), e)[Len(s)] = e
         /\ \A j \in 1 .. Len(s) - 1 : Append(Tail(s), e)[j] = s[j + 1]
<1> DEFINE a == Tail(s)
<1>1. /\ a \in Seq(S) /\ Len(a) = Len(s) - 1 /\ Len(s) \in Nat \ {0}
      /\ \A j \in 1 .. Len(s) - 1 : a[j] = s[j + 1]
  OBVIOUS
<1> HIDE DEF a
<1>2. Append(a, e) \in Seq(S) /\ Len(Append(a, e)) = Len(s)
  BY <1>1
<1>3. Append(a, e)[Len(s)] = e /\ \A j \in 1 .. Len(s) - 1 : Append(a, e)[j] = s[j + 1]
  BY <1>1
<1> QED BY <1>1, <1>2, <1>3 DEF a

\* The caller whose request is taken leaves the line, or gets behind the others
\* with its next one.
LEMMA RequestTaken ==
  ASSUME InboxType, TurnType, Turns, NEW p \in Procs, Waiting(p), Take(p)
  PROVE  /\ InboxType' /\ TurnType' /\ Turns'
         /\ Caller(p) \in Threads /\ inbox[p][Caller(p)] # <<>>
         /\ inbox'[p][Caller(p)] = Tail(inbox[p][Caller(p)])
         /\ \A q \in Procs : \A u \in Threads :
              q # p \/ u # Caller(p) => inbox'[q][u] = inbox[q][u]
         /\ \A q \in Procs : q # p => turn'[q] = turn[q]
<1> DEFINE t == Caller(p)
           rest == Tail(inbox[p][t])
           n == Len(turn[p])
<1>0. turn[p] \in Seq(Threads) /\ turn[p] # <<>> /\ t = Head(turn[p])
  BY DEF TurnType, Waiting, Caller
<1>1. turn[p] \in Seq(Threads) /\ turn[p] # <<>> /\ n \in Nat \ {0} /\ DOMAIN turn[p] = 1 .. n
      /\ t = turn[p][1] /\ t \in Threads
  BY <1>0
<1>2. inbox[p][t] # <<>>
  BY <1>1 DEF Turns
<1>3. inbox[p][t] \in Seq(Message) /\ inbox[p] \in [Threads -> Seq(Message)] /\ rest \in Seq(Message)
  BY <1>1, <1>2 DEF InboxType
<1>4. /\ inbox' = [inbox EXCEPT ![p] = [inbox[p] EXCEPT ![t] = rest]]
      /\ turn' = [turn EXCEPT ![p] = IF rest = <<>> THEN Tail(turn[p]) ELSE Append(Tail(turn[p]), t)]
  BY DEF Take
<1> HIDE DEF t, rest, n
<1>5. InboxType'
  BY <1>3, <1>4 DEF InboxType
<1>6. /\ inbox'[p][t] = rest
      /\ \A q \in Procs : \A u \in Threads : q # p \/ u # t => inbox'[q][u] = inbox[q][u]
      /\ turn'[p] = IF rest = <<>> THEN Tail(turn[p]) ELSE Append(Tail(turn[p]), t)
      /\ \A q \in Procs : q # p => turn'[q] = turn[q]
  BY <1>1, <1>3, <1>4 DEF InboxType, TurnType
<1>7. /\ turn'[p] \in Seq(Threads)
      /\ rest = <<>> => DOMAIN turn'[p] = 1 .. n - 1
      /\ rest # <<>> => DOMAIN turn'[p] = 1 .. n /\ turn'[p][n] = t
      /\ \A j \in 1 .. n - 1 : turn'[p][j] = turn[p][j + 1]
  <2>1. CASE rest = <<>>
    <3>1. turn'[p] = Tail(turn[p])
      BY <1>6, <2>1
    <3> QED BY <1>1, <2>1, <3>1, Rotated DEF n
  <2>2. CASE rest # <<>>
    <3>1. turn'[p] = Append(Tail(turn[p]), t)
      BY <1>6, <2>2
    <3> QED BY <1>1, <2>2, <3>1, Rotated DEF n
  <2> QED BY <2>1, <2>2
<1>8. TurnType'
  BY <1>4, <1>6, <1>7 DEF TurnType
<1>9. \A j \in 2 .. n : turn[p][j] # t
  BY <1>1 DEF Turns
<1>10. ASSUME NEW q \in Procs, NEW u \in Threads
       PROVE  inbox'[q][u] # <<>> <=> \E i \in DOMAIN turn'[q] : turn'[q][i] = u
  <2>1. CASE q # p
    BY <1>6, <2>1 DEF Turns
  <2>2. CASE q = p /\ u = t
    <3>1. CASE rest = <<>>
      <4>1. ASSUME NEW i \in DOMAIN turn'[p] PROVE turn'[p][i] # t
        <5>1. i \in 1 .. n - 1 /\ i + 1 \in 2 .. n
          BY <1>1, <1>7, <3>1
        <5> QED BY <1>7, <1>9, <5>1
      <4> QED BY <1>6, <2>2, <3>1, <4>1
    <3>2. CASE rest # <<>>
      <4>1. n \in DOMAIN turn'[p] /\ turn'[p][n] = t
        BY <1>1, <1>7, <3>2
      <4> QED BY <1>6, <2>2, <3>2, <4>1
    <3> QED BY <3>1, <3>2
  <2>3. CASE q = p /\ u # t
    <3>1. inbox'[p][u] = inbox[p][u]
      BY <1>6, <2>3
    <3>2. ASSUME NEW i \in DOMAIN turn[p], turn[p][i] = u
          PROVE  \E j \in DOMAIN turn'[p] : turn'[p][j] = u
      <4>1. i - 1 \in 1 .. n - 1
        BY <1>1, <2>3, <3>2
      <4>2. turn'[p][i - 1] = u /\ i - 1 \in DOMAIN turn'[p]
        BY <1>1, <1>7, <3>2, <4>1
      <4> QED BY <4>2
    <3>3. ASSUME NEW i \in DOMAIN turn'[p], turn'[p][i] = u
          PROVE  \E j \in DOMAIN turn[p] : turn[p][j] = u
      <4>1. i \in 1 .. n - 1
        BY <1>1, <1>7, <2>3, <3>3
      <4>2. turn[p][i + 1] = u /\ i + 1 \in DOMAIN turn[p]
        BY <1>1, <1>7, <3>3, <4>1
      <4> QED BY <4>2
    <3> QED BY <2>3, <3>1, <3>2, <3>3 DEF Turns
  <2> QED BY <2>1, <2>2, <2>3
<1>11. ASSUME NEW q \in Procs, NEW i \in DOMAIN turn'[q], NEW j \in DOMAIN turn'[q],
              turn'[q][i] = turn'[q][j]
       PROVE  i = j
  <2>1. CASE q # p
    BY <1>6, <1>11, <2>1 DEF Turns
  <2>2. CASE q = p
    <3>1. i \in 1 .. n /\ j \in 1 .. n /\ turn'[p][i] = turn'[p][j]
      BY <1>1, <1>7, <1>11, <2>2
    <3>2. CASE i \in 1 .. n - 1 /\ j \in 1 .. n - 1
      <4>1. /\ i + 1 \in DOMAIN turn[p] /\ j + 1 \in DOMAIN turn[p]
            /\ turn[p][i + 1] = turn[p][j + 1]
        BY <1>1, <1>7, <3>1, <3>2
      <4>2. i + 1 = j + 1
        BY <4>1 DEF Turns
      <4> QED BY <3>2, <4>2
    <3>3. CASE i = n \/ j = n
      <4>1. turn'[p][n] = t /\ n \in DOMAIN turn'[p]
        <5>1. n \in DOMAIN turn'[p]
          BY <1>11, <2>2, <3>3
        <5> QED BY <1>1, <1>7, <5>1
      <4>2. \A k \in 1 .. n - 1 : turn'[p][k] # t
        BY <1>1, <1>7, <1>9
      <4> QED BY <1>1, <3>1, <3>3, <4>1, <4>2
    <3> QED BY <1>1, <3>1, <3>2, <3>3
  <2> QED BY <2>1, <2>2
<1>12. Turns'
  BY <1>10, <1>11 DEF Turns
<1> QED BY <1>1, <1>2, <1>5, <1>6, <1>8, <1>12 DEF t, rest

\* A call that is over leaves copies that no longer count, or none.
LEMMA Staled ==
  ASSUME NEW s \in Seq(Message)
  PROVE  /\ Stale(s) \in Seq(Message) /\ DOMAIN Stale(s) = DOMAIN s
         /\ \A i \in DOMAIN s : Stale(s)[i] = [s[i] EXCEPT !.current = FALSE]
<1>1. DOMAIN s = 1 .. Len(s) /\ Len(s) \in Nat /\ \A i \in 1 .. Len(s) : s[i] \in Message
  OBVIOUS
<1>2. \A m \in Message : [m EXCEPT !.current = FALSE] \in Message
  BY DEF Message
<1>3. Stale(s) \in [1 .. Len(s) -> Message]
  BY <1>1, <1>2 DEF Stale
<1>4. Stale(s) \in Seq(Message)
  BY <1>1, <1>3
<1> QED BY <1>1, <1>4 DEF Stale

\* A caller that has its reply leaves no request that counts.
LEMMA CallOver ==
  ASSUME InboxType, TurnType, Turns, NEW t \in Threads, call[t].to \in Procs, Receive(t),
         nest # "no" => "app" \in Procs /\ turn["app"] # <<>>
  PROVE  LET p == call[t].to IN
         /\ InboxType' /\ TurnType' /\ Turns'
         /\ \A i \in DOMAIN inbox'[p][t] :
              i \in DOMAIN inbox[p][t] /\ inbox'[p][t][i] = [inbox[p][t][i] EXCEPT !.current = FALSE]
         /\ inbox[p][t] = <<>> => inbox'[p][t] = <<>>
         /\ \A q \in Procs : \A u \in Threads : q # p \/ u # t => inbox'[q][u] = inbox[q][u]
         /\ nest # "no" => turn'["app"] # <<>> /\ Head(turn'["app"]) = Head(turn["app"])
<1> DEFINE p == call[t].to
           old == Stale(inbox[p][t])
           new == inbox'[p][t]
<1>1. inbox[p][t] \in Seq(Message) /\ inbox[p] \in [Threads -> Seq(Message)]
  BY DEF InboxType
<1>2. /\ old \in Seq(Message) /\ DOMAIN old = DOMAIN inbox[p][t]
      /\ \A i \in DOMAIN old : old[i] = [inbox[p][t][i] EXCEPT !.current = FALSE]
  BY <1>1, Staled
<1>3. turn[p] \in Seq(Threads)
  BY DEF TurnType
<1> HIDE DEF p, old, new
<1>4. PICK w : /\ inbox' = [inbox EXCEPT ![p] = [inbox[p] EXCEPT ![t] = w]]
               /\ \/ w = old /\ turn' = turn
                  \/ Taken(p, t) /\ w = SubSeq(old, 1, 1) /\ turn' = turn
                  \/ /\ ~Taken(p, t) /\ w = <<>>
                     /\ \E i \in DOMAIN turn[p] :
                          /\ turn[p][i] = t
                          /\ turn' = [turn EXCEPT ![p] = SubSeq(turn[p], 1, i - 1) \o SubSeq(turn[p], i + 1, Len(turn[p]))]
  BY DEF Receive, p, old
<1>5. Taken(p, t) => inbox[p][t] # <<>>
  <2>1. ASSUME Taken(p, t) PROVE 1 \in DOMAIN turn[p] /\ turn[p][1] = t
    <3>1. turn[p] # <<>> /\ Head(turn[p]) = t
      BY <2>1 DEF Taken
    <3> QED BY <1>3, <3>1
  <2> QED BY <2>1 DEF Turns, p
<1>6. /\ w \in Seq(Message) /\ (inbox[p][t] = <<>> => w = <<>>)
      /\ \A i \in DOMAIN w : i \in DOMAIN old /\ w[i] = old[i]
      /\ turn' = turn /\ inbox[p][t] # <<>> => w # <<>>
  <2>1. DOMAIN old = 1 .. Len(old) /\ Len(old) \in Nat /\ (old = <<>> <=> inbox[p][t] = <<>>)
    BY <1>1, <1>2
  <2>2. CASE w = old
    BY <1>2, <2>1, <2>2
  <2>3. CASE Taken(p, t) /\ w = SubSeq(old, 1, 1)
    <3>1. inbox[p][t] # <<>> /\ Len(old) >= 1
      BY <1>2, <1>5, <2>1, <2>3
    <3>2. w \in Seq(Message) /\ Len(w) = 1 /\ w[1] = old[1]
      BY <1>2, <2>3, <3>1
    <3>3. DOMAIN w = 1 .. Len(w)
      BY <3>2
    <3>4. w # <<>>
      <4>1. Len(<<>>) = 0
        BY EmptySeq
      <4>2. Len(w) # 0
        BY <3>2
      <4> QED BY <4>1, <4>2
    <3>5. 1 \in DOMAIN old
      BY <2>1, <3>1
    <3> QED BY <3>1, <3>2, <3>3, <3>4, <3>5, SMT
  <2>4. CASE w = <<>> /\ \E i \in DOMAIN turn[p] :
               /\ turn[p][i] = t
               /\ turn' = [turn EXCEPT ![p] = SubSeq(turn[p], 1, i - 1) \o SubSeq(turn[p], i + 1, Len(turn[p]))]
    <3>1. turn'[p] # turn[p]
      <4>1. PICK i \in DOMAIN turn[p] :
              turn' = [turn EXCEPT ![p] = SubSeq(turn[p], 1, i - 1) \o SubSeq(turn[p], i + 1, Len(turn[p]))]
        BY <2>4
      <4>2. i \in 1 .. Len(turn[p]) /\ Len(turn[p]) \in Nat /\ DOMAIN turn[p] = 1 .. Len(turn[p])
        BY <1>3
      <4>3. turn'[p] = SubSeq(turn[p], 1, i - 1) \o SubSeq(turn[p], i + 1, Len(turn[p]))
        BY <4>1 DEF TurnType, p
      <4>4. DOMAIN turn'[p] = 1 .. Len(turn[p]) - 1
        BY <1>3, <4>2, <4>3, Without, Zenon
      <4>5. Len(turn[p]) \in DOMAIN turn[p] /\ Len(turn[p]) \notin DOMAIN turn'[p]
        BY <4>2, <4>4
      <4> QED BY <4>5
    <3> QED BY <2>4, <3>1
  <2> QED BY <1>4, <2>2, <2>3, <2>4
<1>7. /\ InboxType' /\ inbox'[p][t] = w
      /\ \A q \in Procs : \A u \in Threads : q # p \/ u # t => inbox'[q][u] = inbox[q][u]
  BY <1>1, <1>4, <1>6 DEF InboxType, p
<1>8. /\ \A i \in DOMAIN new :
           i \in DOMAIN inbox[p][t] /\ new[i] = [inbox[p][t][i] EXCEPT !.current = FALSE]
      /\ inbox[p][t] = <<>> => new = <<>>
  BY <1>2, <1>6, <1>7 DEF new
<1>9. CASE turn' = turn
  <2>1. \A q \in Procs : \A u \in Threads : inbox'[q][u] # <<>> <=> inbox[q][u] # <<>>
    BY <1>6, <1>7, <1>9
  <2>2. TurnType' /\ Turns'
    BY <1>9, <2>1 DEF TurnType, Turns
  <2> QED BY <1>7, <1>8, <1>9, <2>2 DEF p, new
<1>10. ASSUME NEW k \in DOMAIN turn[p], turn[p][k] = t, ~Taken(p, t), w = <<>>,
              turn' = [turn EXCEPT ![p] = SubSeq(turn[p], 1, k - 1) \o SubSeq(turn[p], k + 1, Len(turn[p]))]
       PROVE  /\ TurnType' /\ Turns'
              /\ nest # "no" => turn'["app"] # <<>> /\ Head(turn'["app"]) = Head(turn["app"])
  <2> DEFINE n == Len(turn[p])
             r == turn'[p]
  <2>1. n \in Nat /\ DOMAIN turn[p] = 1 .. n /\ k \in 1 .. n
    BY <1>3
  <2>2. /\ r = SubSeq(turn[p], 1, k - 1) \o SubSeq(turn[p], k + 1, Len(turn[p]))
        /\ \A q \in Procs : q # p => turn'[q] = turn[q]
    BY <1>10 DEF TurnType, p
  <2>3. r \in Seq(Threads) /\ DOMAIN r = 1 .. Len(turn[p]) - 1
    BY <1>3, <2>1, <2>2, Without, Zenon
  <2>4. \A j \in 1 .. Len(turn[p]) - 1 : r[j] = IF j < k THEN turn[p][j] ELSE turn[p][j + 1]
    <3>1. \A j \in 1 .. Len(turn[p]) - 1 :
            (SubSeq(turn[p], 1, k - 1) \o SubSeq(turn[p], k + 1, Len(turn[p])))[j]
              = IF j < k THEN turn[p][j] ELSE turn[p][j + 1]
      BY <1>3, <2>1, Without, Zenon
    <3> QED BY <2>2, <3>1, Zenon
  <2>5. TurnType'
    BY <2>2, <2>3, <1>10 DEF TurnType, p
  <2> HIDE DEF n, r
  <2>6. ASSUME NEW q \in Procs, NEW u \in Threads
        PROVE  inbox'[q][u] # <<>> <=> \E i \in DOMAIN turn'[q] : turn'[q][i] = u
    <3>1. CASE q # p
      <4>1. inbox'[q][u] = inbox[q][u] /\ turn'[q] = turn[q]
        BY <1>7, <2>2, <3>1
      <4> QED BY <4>1 DEF Turns
    <3>2. CASE q = p /\ u = t
      <4>1. ASSUME NEW i \in DOMAIN r PROVE r[i] # t
        <5>1. i \in 1 .. n - 1
          BY <2>3 DEF n
        <5>2. PICK j \in DOMAIN turn[p] : j # k /\ r[i] = turn[p][j]
          <6>1. CASE i < k
            BY <2>1, <2>4, <5>1, <6>1 DEF n
          <6>2. CASE ~(i < k)
            <7>1. i + 1 \in DOMAIN turn[p] /\ i + 1 # k
              BY <2>1, <5>1, <6>2
            <7> QED BY <2>4, <5>1, <6>2, <7>1 DEF n
          <6> QED BY <6>1, <6>2
        <5> QED BY <1>10, <5>2 DEF Turns, p
      <4> QED BY <1>7, <1>10, <3>2, <4>1 DEF r
    <3>3. CASE q = p /\ u # t
      <4>1. inbox'[p][u] = inbox[p][u]
        BY <1>7, <3>3
      <4>2. ASSUME NEW i \in DOMAIN turn[p], turn[p][i] = u
            PROVE  \E j \in DOMAIN r : r[j] = u
        <5>1. CASE i < k
          <6>1. i \in 1 .. n - 1
            BY <2>1, <5>1
          <6> QED BY <2>3, <2>4, <4>2, <5>1, <6>1 DEF n
        <5>2. CASE i > k
          <6>1. i - 1 \in 1 .. n - 1 /\ ~(i - 1 < k) /\ i - 1 + 1 = i
            BY <2>1, <5>2
          <6>2. r[i - 1] = turn[p][i] /\ i - 1 \in DOMAIN r
            BY <2>3, <2>4, <6>1 DEF n
          <6> QED BY <4>2, <6>2
        <5>3. i # k
          BY <1>10, <3>3, <4>2
        <5> QED BY <2>1, <5>1, <5>2, <5>3
      <4>3. ASSUME NEW i \in DOMAIN r, r[i] = u
            PROVE  \E j \in DOMAIN turn[p] : turn[p][j] = u
        <5>1. i \in 1 .. n - 1 /\ i \in DOMAIN turn[p] /\ i + 1 \in DOMAIN turn[p]
          BY <2>1, <2>3 DEF n
        <5> QED BY <2>4, <4>3, <5>1 DEF n
      <4> QED BY <3>3, <4>1, <4>2, <4>3 DEF Turns, r, p
    <3> QED BY <3>1, <3>2, <3>3
  <2>7. ASSUME NEW q \in Procs, NEW i \in DOMAIN turn'[q], NEW j \in DOMAIN turn'[q],
               turn'[q][i] = turn'[q][j]
        PROVE  i = j
    <3>1. CASE q # p
      BY <2>2, <2>7, <3>1 DEF Turns
    <3>2. CASE q = p
      <4> DEFINE f == IF i < k THEN i ELSE i + 1
                 g == IF j < k THEN j ELSE j + 1
      <4>1. i \in 1 .. n - 1 /\ j \in 1 .. n - 1
        BY <2>3, <2>7, <3>2 DEF n, r
      <4>2. f \in DOMAIN turn[p] /\ g \in DOMAIN turn[p]
        BY <2>1, <4>1
      <4>3. turn[p][f] = turn[p][g]
        BY <2>4, <2>7, <3>2, <4>1 DEF n, r
      <4>4. f = g
        BY <4>2, <4>3 DEF Turns, p
      <4> QED BY <2>1, <4>1, <4>4
    <3> QED BY <3>1, <3>2
  <2>8. Turns'
    BY <2>6, <2>7 DEF Turns
  <2>9. ASSUME nest # "no"
        PROVE  turn'["app"] # <<>> /\ Head(turn'["app"]) = Head(turn["app"])
    <3>1. CASE p # "app"
      BY <2>2, <2>9, <3>1
    <3>2. CASE p = "app"
      <4>1. Head(turn[p]) # t /\ turn[p] # <<>>
        BY <1>10, <2>9, <3>2 DEF Taken
      <4>2. k # 1 /\ 1 < k /\ 1 \in 1 .. n - 1
        BY <1>3, <1>10, <2>1, <4>1
      <4>3. r[1] = turn[p][1] /\ 1 \in DOMAIN r
        BY <2>3, <2>4, <4>2 DEF n
      <4>4. r # <<>> /\ Head(r) = Head(turn[p])
        BY <1>3, <2>3, <4>1, <4>3
      <4> QED BY <3>2, <4>4 DEF r
    <3> QED BY <3>1, <3>2
  <2> QED BY <2>5, <2>8, <2>9
<1> QED BY <1>4, <1>7, <1>8, <1>9, <1>10 DEF p, new
\* What every use of the sockets leaves in front at app.
FrontKept ==
  "app" \in Procs /\ turn["app"] # <<>> /\ IsSwitch(Request("app")) =>
    turn'["app"] # <<>> /\ IsSwitch(Request("app"))'

\* The request app serves stays the same when its caller gets further ones in line.
LEMMA FrontStays ==
  ASSUME InboxType, TurnType, Turns, "app" \in Procs, turn["app"] # <<>>, IsSwitch(Request("app")),
         InboxType', TurnType', Turns', turn'["app"] # <<>>, Head(turn'["app"]) = Head(turn["app"]),
         LET new == inbox'["app"][Caller("app")]
             old == inbox["app"][Caller("app")]
         IN  new # <<>> => new[1].key = old[1].key /\ new[1].act = old[1].act /\ new[1].arg = old[1].arg
  PROVE  turn'["app"] # <<>> /\ IsSwitch(Request("app"))'
<1> DEFINE t == Caller("app")
<1>1. t \in Threads /\ Caller("app")' = t
  BY DEF TurnType, Caller
<1>2. inbox["app"][t] # <<>>
  <2>1. 1 \in DOMAIN turn["app"] /\ turn["app"][1] = t
    BY DEF TurnType, Caller
  <2> QED BY <1>1, <2>1 DEF Turns
<1>3. inbox'["app"][t] # <<>>
  <2>1. 1 \in DOMAIN turn'["app"] /\ turn'["app"][1] = t
    BY DEF TurnType, Caller
  <2> QED BY <1>1, <2>1 DEF Turns
<1>4. inbox["app"][t] \in Seq(Message) /\ inbox'["app"][t] \in Seq(Message)
  BY <1>1 DEF InboxType
<1>5. Request("app") = inbox["app"][t][1] /\ Request("app")' = inbox'["app"][t][1]
  BY <1>1, <1>2, <1>3, <1>4 DEF Request
<1> QED BY <1>3, <1>5 DEF IsSwitch

\* A request that is sent, for the first time or again.
LEMMA SendKeeps ==
  ASSUME TypeOK, Sockets, NEW t \in Threads, NEW c \in Call, c.st = "sent", c.to \in Procs,
         Asked(c.to, t, c), Enqueue(t, c),
         call' = [call EXCEPT ![t] = c], resent' \in Nat,
         \/ call[t].st = "none" /\ resent' = resent
         \/ call[t] = c /\ resent' # 0
  PROVE  Sockets' /\ FrontKept
<1> DEFINE p == c.to
           m == Copy(c)
<1>1. /\ InboxType /\ TurnType /\ CallType /\ Turns /\ Messages /\ Pending /\ Single /\ Exchanges
  BY DEF Sockets
<1>2. /\ InboxType' /\ TurnType' /\ Turns'
      /\ inbox'[p][t] = Append(inbox[p][t], m)
      /\ \A q \in Procs : \A u \in Threads : q # p \/ u # t => inbox'[q][u] = inbox[q][u]
      /\ \A q \in Procs : turn[q] # <<>> => turn'[q] # <<>> /\ Head(turn'[q]) = Head(turn[q])
  BY <1>1, Enqueued
<1>3. CallType' /\ call'[t] = c /\ \A u \in Threads : u # t => call'[u] = call[u]
  BY <1>1 DEF CallType
<1>4. inbox[p][t] \in Seq(Message) /\ m \in Message /\ m.current /\ m.key = c.key /\ m.act = c.act
  BY <1>1 DEF InboxType, Copy, Message, Call
<1>5. /\ Len(inbox[p][t]) \in Nat /\ DOMAIN inbox[p][t] = 1 .. Len(inbox[p][t])
      /\ DOMAIN inbox'[p][t] = 1 .. Len(inbox[p][t]) + 1
      /\ \A i \in 1 .. Len(inbox[p][t]) : inbox'[p][t][i] = inbox[p][t][i]
      /\ inbox'[p][t][Len(inbox[p][t]) + 1] = m
  BY <1>2, <1>4
<1> HIDE DEF m
<1>6. \A q \in Procs : \A u \in Threads : \A n \in Message : Belongs(q, u, n) => Belongs(q, u, n)'
  BY <1>1, <1>3 DEF Belongs
<1>7. Messages'
  <2>1. ASSUME NEW q \in Procs, NEW u \in Threads, NEW i \in DOMAIN inbox'[q][u],
               NEW n, n = inbox'[q][u][i]
        PROVE  Asked(q, u, n) /\ Belongs(q, u, n)'
    <3>1. CASE q # p \/ u # t
      <4>1. inbox'[q][u] = inbox[q][u] /\ inbox[q][u] \in Seq(Message)
        BY <1>1, <1>2, <3>1 DEF InboxType
      <4>2. n \in Message /\ i \in DOMAIN inbox[q][u] /\ n = inbox[q][u][i]
        BY <2>1, <4>1
      <4> QED BY <1>1, <1>6, <4>2 DEF Messages
    <3>2. CASE q = p /\ u = t /\ i \in 1 .. Len(inbox[p][t])
      <4>1. n = inbox[p][t][i] /\ n \in Message /\ i \in DOMAIN inbox[p][t]
        BY <1>4, <1>5, <2>1, <3>2
      <4> QED BY <1>1, <1>6, <3>2, <4>1 DEF Messages
    <3>3. CASE q = p /\ u = t /\ i = Len(inbox[p][t]) + 1
      <4>1. n = m
        BY <1>5, <2>1, <3>3
      <4>2. Asked(p, t, m)
        BY <1>4 DEF Asked, Copy, m
      <4> QED BY <1>3, <1>4, <3>3, <4>1, <4>2 DEF Belongs
    <3> QED BY <1>5, <3>1, <3>2, <3>3
  <2> QED BY <2>1 DEF Messages, Belongs
<1>8. Pending'
  <2>1. ASSUME NEW u \in Threads, call'[u].st = "sent"
        PROVE  \E i \in DOMAIN inbox'[call'[u].to][u] : inbox'[call'[u].to][u][i].current
    <3>1. CASE u = t
      <4>1. Len(inbox[p][t]) + 1 \in DOMAIN inbox'[p][t]
        BY <1>5
      <4> QED BY <1>3, <1>4, <1>5, <3>1, <4>1
    <3>2. CASE u # t
      <4>1. call'[u] = call[u] /\ call[u].to \in Procs
        BY <1>1, <1>3, <2>1, <3>2 DEF Exchanges
      <4>2. inbox'[call[u].to][u] = inbox[call[u].to][u]
        BY <1>2, <3>2, <4>1
      <4> QED BY <1>1, <2>1, <4>1, <4>2 DEF Pending
    <3> QED BY <3>1, <3>2
  <2> QED BY <2>1 DEF Pending
<1>9. Single'
  <2>1. ASSUME resent' = 0, NEW q \in Procs, NEW u \in Threads, inbox'[q][u] # <<>>
        PROVE  Len(inbox'[q][u]) = 1 /\ inbox'[q][u][1].current /\ call'[u].st = "sent"
    <3>1. resent = 0 /\ call[t].st = "none"
      BY <2>1
    <3>2. CASE u # t
      <4>1. inbox'[q][u] = inbox[q][u] /\ call'[u] = call[u]
        BY <1>2, <1>3, <3>2
      <4> QED BY <1>1, <2>1, <3>1, <4>1 DEF Single
    <3>3. CASE u = t
      <4>1. \A r \in Procs : inbox[r][t] = <<>>
        BY <1>1, <3>1 DEF Single
      <4>2. q = p
        BY <1>2, <2>1, <3>3, <4>1
      <4>3. inbox'[q][u] = Append(<<>>, m)
        BY <1>2, <3>3, <4>1, <4>2
      <4>4. Len(inbox'[q][u]) = 1 /\ inbox'[q][u][1] = m
        BY <1>4, <4>3 DEF m
      <4> QED BY <1>3, <1>4, <3>3, <4>4 DEF m
    <3> QED BY <3>2, <3>3
  <2> QED BY <2>1 DEF Single
<1>10. Exchanges'
  <2>1. \A u \in Threads : call'[u].st = "sent" => Asked(call'[u].to, u, call'[u])
    BY <1>1, <1>3 DEF Exchanges
  <2> QED BY <1>1, <1>3, <2>1 DEF Exchanges, AnswersMatch
<1>11. FrontKept
  <2>1. SUFFICES ASSUME "app" \in Procs, turn["app"] # <<>>, IsSwitch(Request("app"))
                 PROVE  turn'["app"] # <<>> /\ IsSwitch(Request("app"))'
    BY DEF FrontKept
  <2> DEFINE u == Caller("app")
  <2>2. turn'["app"] # <<>> /\ Head(turn'["app"]) = Head(turn["app"])
    BY <1>2, <2>1
  <2>3. u \in Threads /\ inbox["app"][u] # <<>>
    <3>1. 1 \in DOMAIN turn["app"] /\ turn["app"][1] = u /\ u \in Threads
      BY <1>1, <2>1 DEF TurnType, Caller
    <3> QED BY <1>1, <2>1, <3>1 DEF Turns
  <2>4. inbox'["app"][u][1] = inbox["app"][u][1]
    <3>1. CASE "app" # p \/ u # t
      BY <1>2, <2>1, <2>3, <3>1
    <3>2. CASE "app" = p /\ u = t
      <4>1. Len(inbox[p][t]) >= 1
        BY <1>4, <2>3, <3>2
      <4> QED BY <1>5, <3>2, <4>1
    <3> QED BY <3>1, <3>2
  <2> QED BY <1>1, <1>2, <2>1, <2>2, <2>4, FrontStays
<1> QED BY <1>2, <1>3, <1>7, <1>8, <1>9, <1>10, <1>11 DEF Sockets

\* A call that is over.
LEMMA ReceiveKeeps ==
  ASSUME TypeOK, Sockets, NEW t \in Threads, Receive(t), resent' = resent,
         nest # "no" => "app" \in Procs /\ turn["app"] # <<>>
  PROVE  /\ Sockets' /\ (nest # "no" => FrontKept)
         /\ call'[t] = NoCall /\ \A u \in Threads : u # t => call'[u] = call[u]
<1> DEFINE p == call[t].to
<1>1. /\ InboxType /\ TurnType /\ CallType /\ Turns /\ Messages /\ Pending /\ Single /\ Exchanges
  BY DEF Sockets
<1>2. call[t].st = "replied" /\ p \in Procs /\ call' = [call EXCEPT ![t] = NoCall]
  BY <1>1 DEF Receive, Exchanges
<1>3. /\ InboxType' /\ TurnType' /\ Turns'
      /\ \A i \in DOMAIN inbox'[p][t] :
           i \in DOMAIN inbox[p][t] /\ inbox'[p][t][i] = [inbox[p][t][i] EXCEPT !.current = FALSE]
      /\ inbox[p][t] = <<>> => inbox'[p][t] = <<>>
      /\ \A q \in Procs : \A u \in Threads : q # p \/ u # t => inbox'[q][u] = inbox[q][u]
      /\ nest # "no" => turn'["app"] # <<>> /\ Head(turn'["app"]) = Head(turn["app"])
  BY <1>1, <1>2, CallOver
<1>4. CallType' /\ call'[t] = NoCall /\ \A u \in Threads : u # t => call'[u] = call[u]
  <2>1. NoCall \in Call
    <3>1. "bsp" \in DOMAIN OwnKeys
      BY DEF OwnKeys
    <3> QED BY <3>1, KeyNames DEF NoCall, Call, Acts
  <2> QED BY <1>1, <1>2, <2>1 DEF CallType
<1> HIDE DEF p
<1>5. Messages'
  <2>1. ASSUME NEW q \in Procs, NEW u \in Threads, NEW i \in DOMAIN inbox'[q][u],
               NEW n, n = inbox'[q][u][i]
        PROVE  Asked(q, u, n) /\ Belongs(q, u, n)'
    <3>1. CASE q # p \/ u # t
      <4>1. inbox'[q][u] = inbox[q][u]
        BY <1>3, <3>1
      <4>2. Asked(q, u, n) /\ Belongs(q, u, n)
        BY <1>1, <2>1, <4>1 DEF Messages
      <4>3. CASE u # t
        BY <1>4, <4>2, <4>3 DEF Belongs
      <4>4. CASE u = t /\ q # p
        BY <4>2, <4>4 DEF Belongs, p
      <4> QED BY <3>1, <4>2, <4>3, <4>4
    <3>2. CASE q = p /\ u = t
      <4> DEFINE o == inbox[p][t][i]
      <4>1. i \in DOMAIN inbox[p][t] /\ n = [o EXCEPT !.current = FALSE]
        BY <1>3, <2>1, <3>2
      <4>2. o \in Message /\ Asked(p, t, o)
        <5>1. inbox[p][t] \in Seq(Message)
          BY <1>1, <1>2 DEF InboxType
        <5> QED BY <1>1, <1>2, <4>1, <5>1 DEF Messages
      <4> HIDE DEF o
      <4>3. n.key = o.key /\ n.act = o.act /\ n.arg = o.arg /\ n.current = FALSE
        BY <4>1, <4>2 DEF Message
      <4> QED BY <3>2, <4>2, <4>3 DEF Asked, Belongs
    <3> QED BY <3>1, <3>2
  <2> QED BY <2>1 DEF Messages, Belongs
<1>6. Pending'
  <2>1. ASSUME NEW u \in Threads, call'[u].st = "sent"
        PROVE  \E i \in DOMAIN inbox'[call'[u].to][u] : inbox'[call'[u].to][u][i].current
    <3>1. u # t
      BY <1>4, <2>1 DEF NoCall
    <3>2. call'[u] = call[u] /\ call[u].to \in Procs
      BY <1>1, <1>4, <2>1, <3>1 DEF Exchanges
    <3>3. inbox'[call[u].to][u] = inbox[call[u].to][u]
      BY <1>3, <3>1, <3>2
    <3> QED BY <1>1, <2>1, <3>2, <3>3 DEF Pending
  <2> QED BY <2>1 DEF Pending
<1>7. Single'
  <2>1. ASSUME resent = 0, NEW q \in Procs, NEW u \in Threads, inbox'[q][u] # <<>>
        PROVE  Len(inbox'[q][u]) = 1 /\ inbox'[q][u][1].current /\ call'[u].st = "sent"
    <3>1. inbox[q][t] = <<>>
      BY <1>1, <1>2, <2>1 DEF Single
    <3>2. u # t
      BY <1>3, <2>1, <3>1
    <3>3. inbox'[q][u] = inbox[q][u] /\ call'[u] = call[u]
      BY <1>3, <1>4, <3>2
    <3> QED BY <1>1, <2>1, <3>3 DEF Single
  <2> QED BY <2>1 DEF Single
<1>8. Exchanges'
  <2>1. \A u \in Threads : call'[u].st = "sent" => Asked(call'[u].to, u, call'[u])
    BY <1>1, <1>4 DEF Exchanges, NoCall
  <2> QED BY <1>1, <1>4, <2>1 DEF Exchanges, AnswersMatch, NoCall
<1>9. ASSUME nest # "no" PROVE FrontKept
  <2>1. SUFFICES ASSUME "app" \in Procs, turn["app"] # <<>>, IsSwitch(Request("app"))
                 PROVE  turn'["app"] # <<>> /\ IsSwitch(Request("app"))'
    BY DEF FrontKept
  <2> DEFINE u == Caller("app")
             old == inbox["app"][u]
             new == inbox'["app"][u]
  <2>2. u \in Threads
    BY <1>1, <2>1 DEF TurnType, Caller
  <2>3. ASSUME new # <<>>
        PROVE  new[1].key = old[1].key /\ new[1].act = old[1].act /\ new[1].arg = old[1].arg
    <3>1. CASE "app" # p \/ u # t
      BY <1>3, <2>1, <2>2, <3>1
    <3>2. CASE "app" = p /\ u = t
      <4>1. old \in Seq(Message) /\ new \in Seq(Message)
        BY <1>1, <1>3, <2>1, <2>2 DEF InboxType
      <4>2. 1 \in DOMAIN new
        BY <2>3, <4>1
      <4>3. new[1] = [old[1] EXCEPT !.current = FALSE] /\ 1 \in DOMAIN old
        BY <1>3, <3>2, <4>2
      <4>4. old[1] \in Message
        BY <4>1, <4>3
      <4> QED BY <4>3, <4>4 DEF Message
    <3> QED BY <3>1, <3>2
  <2> HIDE DEF new, old
  <2>4. turn'["app"] # <<>> /\ Head(turn'["app"]) = Head(turn["app"])
    BY <1>3, <1>9
  <2> QED BY <1>1, <1>3, <2>1, <2>3, <2>4, FrontStays DEF new, old
<1> QED BY <1>3, <1>4, <1>5, <1>6, <1>7, <1>8, <1>9 DEF Sockets

\* A request that is taken and answered.
LEMMA ServeKeeps ==
  ASSUME TypeOK, Sockets, NEW p \in Procs, Waiting(p), Take(p), NEW arg \in BOOLEAN,
         call' = Reply(Caller(p), Request(p), arg), resent' = resent
  PROVE  LET t == Caller(p)
             m == Request(p)
         IN  /\ Sockets' /\ (p # "app" => FrontKept)
             /\ t \in Threads /\ m \in Message /\ Asked(p, t, m) /\ Belongs(p, t, m)
             /\ ~m.current => call' = call
             /\ m.current => call'[t] = [call[t] EXCEPT !.st = "replied", !.got = m.key, !.arg = arg]
             /\ \A u \in Threads : u # t => call'[u] = call[u]
<1> DEFINE t == Caller(p)
           m == Request(p)
           s == inbox[p][t]
<1>1. /\ InboxType /\ TurnType /\ CallType /\ Turns /\ Messages /\ Pending /\ Single /\ Exchanges
  BY DEF Sockets
<1>2. /\ InboxType' /\ TurnType' /\ Turns' /\ t \in Threads /\ s # <<>>
      /\ inbox'[p][t] = Tail(s)
      /\ \A q \in Procs : \A u \in Threads : q # p \/ u # t => inbox'[q][u] = inbox[q][u]
      /\ \A q \in Procs : q # p => turn'[q] = turn[q]
  BY <1>1, RequestTaken
<1>3. /\ s \in Seq(Message) /\ 1 \in DOMAIN s /\ m = s[1] /\ m \in Message
      /\ Len(s) \in Nat \ {0} /\ DOMAIN s = 1 .. Len(s)
      /\ DOMAIN Tail(s) = 1 .. Len(s) - 1 /\ \A i \in 1 .. Len(s) - 1 : Tail(s)[i] = s[i + 1]
  <2>1. s \in Seq(Message) /\ s # <<>>
    BY <1>1, <1>2 DEF InboxType
  <2> HIDE DEF s
  <2>2. m = Head(s)
    BY DEF Request, s
  <2> HIDE DEF m
  <2> QED BY <2>1, <2>2
<1>4. Asked(p, t, m) /\ Belongs(p, t, m)
  BY <1>1, <1>2, <1>3 DEF Messages
<1>5. /\ ~m.current => call' = call
      /\ m.current => call' = [call EXCEPT ![t] = [call[t] EXCEPT !.st = "replied", !.got = m.key, !.arg = arg]]
  BY DEF Reply
<1> HIDE DEF t, m, s
<1>6. /\ CallType'
      /\ m.current => call'[t] = [call[t] EXCEPT !.st = "replied", !.got = m.key, !.arg = arg]
      /\ \A u \in Threads : u # t => call'[u] = call[u]
  <2>1. CASE m.current
    <3>1. call[t] \in Call /\ m.key \in Keys
      BY <1>1, <1>2, <1>3 DEF CallType, Message
    <3>2. [call[t] EXCEPT !.st = "replied", !.got = m.key, !.arg = arg] \in Call
      BY <3>1 DEF Call
    <3> QED BY <1>1, <1>2, <1>5, <2>1, <3>2 DEF CallType
  <2>2. CASE ~m.current
    BY <1>1, <1>5, <2>2 DEF CallType
  <2> QED BY <2>1, <2>2
<1>7. \A q \in Procs : \A u \in Threads : \A n \in Message : Belongs(q, u, n) => Belongs(q, u, n)'
  <2>1. ASSUME NEW u \in Threads
        PROVE  /\ call[u].st # "none" => call'[u].st # "none"
               /\ call'[u].to = call[u].to /\ call'[u].key = call[u].key /\ call'[u].act = call[u].act
    <3>1. CASE u = t /\ m.current
      <4>1. call[t] \in Call
        BY <1>1, <1>2 DEF CallType
      <4> QED BY <1>6, <3>1, <4>1 DEF Call
    <3>2. CASE u # t \/ ~m.current
      BY <1>5, <1>6, <3>2
    <3> QED BY <3>1, <3>2
  <2> QED BY <2>1 DEF Belongs
<1>8. Messages'
  <2>1. ASSUME NEW q \in Procs, NEW u \in Threads, NEW i \in DOMAIN inbox'[q][u],
               NEW n, n = inbox'[q][u][i]
        PROVE  Asked(q, u, n) /\ Belongs(q, u, n)'
    <3>1. PICK j \in DOMAIN inbox[q][u] : n = inbox[q][u][j]
      <4>1. CASE q # p \/ u # t
        BY <1>2, <2>1, <4>1
      <4>2. CASE q = p /\ u = t
        <5>1. i \in 1 .. Len(s) - 1 /\ n = s[i + 1]
          BY <1>2, <1>3, <2>1, <4>2
        <5>2. i + 1 \in DOMAIN s
          BY <1>3, <5>1
        <5> QED BY <4>2, <5>1, <5>2 DEF s
      <4> QED BY <4>1, <4>2
    <3>2. n \in Message
      <4>1. inbox[q][u] \in Seq(Message)
        BY <1>1 DEF InboxType
      <4> QED BY <3>1, <4>1
    <3> QED BY <1>1, <1>7, <3>1, <3>2 DEF Messages
  <2> QED BY <2>1 DEF Messages, Belongs
<1>9. Pending'
  <2>1. ASSUME NEW u \in Threads, call'[u].st = "sent"
        PROVE  \E i \in DOMAIN inbox'[call'[u].to][u] : inbox'[call'[u].to][u][i].current
    <3>1. CASE u # t
      <4>1. call'[u] = call[u] /\ call[u].to \in Procs
        BY <1>1, <1>6, <2>1, <3>1 DEF Exchanges
      <4>2. inbox'[call[u].to][u] = inbox[call[u].to][u]
        BY <1>2, <3>1, <4>1
      <4> QED BY <1>1, <2>1, <4>1, <4>2 DEF Pending
    <3>2. CASE u = t
      <4>1. ~m.current /\ call' = call /\ call[t].to \in Procs
        <5>1. call[t] \in Call
          BY <1>1, <1>2 DEF CallType
        <5>2. ASSUME m.current PROVE FALSE
          <6>1. call'[t].st = "replied"
            BY <1>6, <5>1, <5>2 DEF Call
          <6> QED BY <2>1, <3>2, <6>1
        <5>3. call' = call
          BY <1>5, <5>2
        <5>4. call[t].st # "none"
          BY <2>1, <3>2, <5>3
        <5> QED BY <1>1, <1>2, <5>2, <5>3, <5>4 DEF Exchanges
      <4>2. PICK i \in DOMAIN inbox[call[t].to][t] : inbox[call[t].to][t][i].current
        BY <1>1, <2>1, <3>2, <4>1 DEF Pending
      <4>3. CASE call[t].to # p
        <5>1. inbox'[call[t].to][t] = inbox[call[t].to][t]
          BY <1>2, <4>1, <4>3
        <5> QED BY <3>2, <4>1, <4>2, <5>1
      <4>4. CASE call[t].to = p
        <5>1. i \in DOMAIN s /\ s[i].current /\ i # 1
          BY <1>3, <4>1, <4>2, <4>4 DEF s
        <5>2. i - 1 \in 1 .. Len(s) - 1
          BY <1>3, <5>1
        <5>3. i - 1 \in DOMAIN inbox'[p][t] /\ inbox'[p][t][i - 1].current
          BY <1>2, <1>3, <5>1, <5>2
        <5> QED BY <3>2, <4>1, <4>4, <5>3
      <4> QED BY <4>3, <4>4
    <3> QED BY <3>1, <3>2
  <2> QED BY <2>1 DEF Pending
<1>10. Single'
  <2>1. ASSUME resent = 0, NEW q \in Procs, NEW u \in Threads, inbox'[q][u] # <<>>
        PROVE  Len(inbox'[q][u]) = 1 /\ inbox'[q][u][1].current /\ call'[u].st = "sent"
    <3>1. CASE u # t
      <4>1. inbox'[q][u] = inbox[q][u] /\ call'[u] = call[u]
        BY <1>2, <1>6, <3>1
      <4> QED BY <1>1, <2>1, <4>1 DEF Single
    <3>2. CASE u = t
      <4>1. Len(s) = 1 /\ m.current /\ call[t].to = p
        BY <1>1, <1>2, <1>3, <1>4, <2>1 DEF Single, s, Belongs
      <4>2. q # p
        <5>1. inbox'[p][t] = <<>>
          BY <1>2, <1>3, <4>1
        <5> QED BY <2>1, <3>2, <5>1
      <4>3. inbox[q][t] # <<>> /\ inbox[q][t] \in Seq(Message)
        BY <1>1, <1>2, <2>1, <3>2, <4>2 DEF InboxType
      <4>4. 1 \in DOMAIN inbox[q][t] /\ inbox[q][t][1].current
        BY <1>1, <1>2, <2>1, <4>3 DEF Single
      <4>5. call[t].to = q
        BY <1>1, <1>2, <4>4 DEF Messages, Belongs
      <4> QED BY <4>1, <4>2, <4>5
    <3> QED BY <3>1, <3>2
  <2> QED BY <2>1 DEF Single
<1>11. Exchanges'
  <2>1. ASSUME NEW u \in Threads
        PROVE  /\ call'[u].st # "none" => call'[u].to \in Procs
               /\ call'[u].st = "replied" => call'[u].got = call'[u].key
               /\ call'[u].st = "sent" => Asked(call'[u].to, u, call'[u])
    <3>1. CASE u = t /\ m.current
      <4>1. call[t] \in Call /\ call[t].st # "none" /\ call[t].key = m.key /\ call[t].to \in Procs
        BY <1>1, <1>2, <1>4, <3>1 DEF CallType, Belongs, Exchanges
      <4> QED BY <1>6, <3>1, <4>1 DEF Call
    <3>2. CASE u # t \/ ~m.current
      BY <1>1, <1>5, <1>6, <3>2 DEF Exchanges, AnswersMatch
    <3> QED BY <3>1, <3>2
  <2> QED BY <2>1 DEF Exchanges, AnswersMatch
<1>12. ASSUME p # "app" PROVE FrontKept
  <2>1. "app" \in Procs => turn'["app"] = turn["app"] /\ inbox'["app"] = inbox["app"]
    <3>1. ASSUME "app" \in Procs PROVE inbox'["app"] = inbox["app"]
      <4>1. inbox["app"] \in [Threads -> Seq(Message)] /\ inbox'["app"] \in [Threads -> Seq(Message)]
        BY <1>1, <1>2, <3>1 DEF InboxType
      <4> QED BY <1>2, <1>12, <3>1, <4>1
    <3> QED BY <1>2, <1>12, <3>1
  <2> QED BY <2>1 DEF FrontKept, IsSwitch, Request, Caller
<1> QED BY <1>2, <1>3, <1>4, <1>5, <1>6, <1>8, <1>9, <1>10, <1>11, <1>12 DEF Sockets, t, m
-----------------------------------------------------------------------------
(***************************************************************************)
(* The steps of the processes                                              *)
(***************************************************************************)
LEMMA ThreadNames ==
  /\ Ws \in Threads /\ Rep("app") \in Threads /\ Res \in Threads
  /\ \A p \in Procs : Main(p) \in Threads
  /\ \A t \in Threads : t \notin {Ws, Rep("app"), Res} => \E p \in Procs : t = Main(p)
  /\ Ws # Rep("app") /\ Ws # Res /\ Rep("app") # Res
  /\ \A p \in Procs : Main(p) \notin {Ws, Rep("app"), Res}
  /\ \A p, q \in Procs : Main(p) = Main(q) => p = q
BY DEF Threads, Ws, Rep, Res, Main

\* Every process that runs has handlers to register.
LEMMA ProcNames ==
  ASSUME NEW p \in Procs
  PROVE  p \in Nodes /\ KeysOf(p) # {} /\ KeysOf(p) \subseteq Keys /\ Requests(p) \in {3, 6, 9}
<1>1. p \in Nodes
  BY RpcAssumption DEF Nodes
<1>2. KeysOf(p) # {} /\ KeysOf(p) \subseteq Keys /\ Len(OwnKeys[p]) \in 1 .. 3
  BY <1>1, Own
<1>3. Len(OwnKeys[p]) = 1 \/ Len(OwnKeys[p]) = 2 \/ Len(OwnKeys[p]) = 3
  BY <1>2
<1>4. Requests(p) \in {3, 6, 9}
  <2> DEFINE n == Len(OwnKeys[p])
  <2>1. Requests(p) = 3 * n
    BY DEF Requests
  <2>2. n \in {1, 2, 3}
    BY <1>3
  <2> HIDE DEF n
  <2> QED BY <2>1, <2>2
<1> QED BY <1>1, <1>2, <1>4

\* What a process serves was asked by a caller that may ask for it.
LEMMA FrontAsked ==
  ASSUME Sockets, NEW p \in Procs, Waiting(p)
  PROVE  /\ Caller(p) \in Threads /\ Request(p) \in Message
         /\ Asked(p, Caller(p), Request(p)) /\ Belongs(p, Caller(p), Request(p))
<1> DEFINE t == Caller(p)
           s == inbox[p][t]
<1>1. turn[p] \in Seq(Threads) /\ turn[p] # <<>>
  BY DEF Sockets, TurnType, Waiting
<1>2. t \in Threads /\ 1 \in DOMAIN turn[p] /\ turn[p][1] = t
  BY <1>1 DEF Caller
<1>3. s # <<>> /\ s \in Seq(Message)
  BY <1>2 DEF Sockets, Turns, InboxType
<1> HIDE DEF s
<1>4. 1 \in DOMAIN s /\ Head(s) = s[1] /\ s[1] \in Message
  BY <1>3
<1>5. Request(p) = s[1]
  BY <1>4 DEF Request, s
<1> QED BY <1>2, <1>4, <1>5 DEF Sockets, Messages, s

\* What the properties of the asserts need of a step in which none fails.
LEMMA NoFault ==
  ASSUME fault' = "none"
  PROVE  OnlyForwardedRejected' /\ OnlyEarlyAppFails'
BY DEF OnlyForwardedRejected, OnlyEarlyAppFails

\* A step that leaves the sockets keeps what is said of them.
LEMMA SocketsSame ==
  ASSUME Sockets, UNCHANGED <<call, inbox, turn, resent>>
  PROVE  Sockets'
BY DEF Sockets, InboxType, TurnType, CallType, Turns, Messages, Belongs, Pending, Single, Exchanges,
       AnswersMatch

\* One lemma for each step of a main function, of web, of the sockets and of app.
LEMMA RegisterStep ==
  ASSUME RpcInv, fault = "none", NEW p \in Procs, Register(p)
  PROVE  RpcInv'
<1> USE DEF RpcInv
<1>1. fault' = fault /\ UNCHANGED <<call, inbox, turn, resent, at, nest, detector, bound, fifo, early, late>>
  BY DEF Register
<1>2. Sockets' /\ OnlyForwardedRejected' /\ OnlyEarlyAppFails'
  BY <1>1, SocketsSame, NoFault
<1>3. TypeOK'
  BY <1>1, ProcNames DEF Register, TypeOK
<1>4. Calls'
  BY <1>1 DEF Calls, Booted
<1>5. Boots'
  BY <1>1, ProcNames DEF Register, Boots, Booted, TypeOK, Enabling
<1>6. Enables'
  BY <1>1 DEF Register, Enables, Waiting, Request, Caller, IsSwitch
<1> QED BY <1>2, <1>3, <1>4, <1>5, <1>6

LEMMA BindStep ==
  ASSUME RpcInv, fault = "none", NEW p \in Procs, Bind(p)
  PROVE  RpcInv'
<1> USE DEF RpcInv
<1>1. /\ fault' = fault
      /\ UNCHANGED <<handlers, call, inbox, turn, resent, at, held, nest, detector, cfg, fifo, early, late>>
  BY DEF Bind
<1>2. Sockets' /\ OnlyForwardedRejected' /\ OnlyEarlyAppFails'
  BY <1>1, SocketsSame, NoFault
<1>3. TypeOK'
  BY <1>1 DEF Bind, TypeOK
<1>4. Calls'
  BY <1>1 DEF Calls, Booted
<1>5. Boots'
  BY <1>1 DEF Bind, Boots, Enabling, Booted
<1>6. Enables'
  BY <1>1 DEF Bind, Enables, Waiting, Request, Caller, IsSwitch
<1> QED BY <1>2, <1>3, <1>4, <1>5, <1>6

\* What every step that only uses the sockets leaves as it was.
SocketStep == UNCHANGED <<handlers, bound, detector, cfg, fifo, early, late, fault>>

\* What keeps the request in front and the FIFO of the frames while app turns the detector on.
LEMMA EnablesKept ==
  ASSUME RpcInv, SocketStep, nest # "no" => FrontKept, nest' = nest,
         nest = "SET" /\ call'[Rep("app")].st = "replied" => call[Rep("app")].st = "replied"
  PROVE  Enables'
<1>1. nest # "no" => "app" \in Procs /\ Waiting("app") /\ IsSwitch(Request("app"))
  BY DEF RpcInv, Enables
<1>2. nest # "no" => "app" \in Procs /\ turn'["app"] # <<>> /\ IsSwitch(Request("app"))'
  BY <1>1 DEF FrontKept, Waiting
<1>3. nest # "no" => Waiting("app")'
  BY <1>1, <1>2 DEF Waiting, SocketStep
<1> QED BY <1>1, <1>2, <1>3 DEF RpcInv, Enables, SocketStep

LEMMA MainCallsStep ==
  ASSUME RpcInv, fault = "none", NEW p \in Procs, MainCalls(p)
  PROVE  RpcInv'
<1> USE DEF RpcInv
<1> DEFINE key == OwnKeys[p][(at[p] \div 3) + 1]
           act == <<"NUM", "GET", "SET">>[(at[p] % 3) + 1]
           to == Stub[key].node
           c == [st |-> "sent", to |-> to, key |-> key, act |-> act,
                 arg |-> act = "SET" /\ held[p], got |-> key]
           t == Main(p)
<1>1. /\ call[t].st = "none" /\ to \in Procs /\ call' = [call EXCEPT ![t] = c] /\ Enqueue(t, c)
      /\ ~Booted(p) /\ act \in Stub[key].acts
      /\ SocketStep /\ UNCHANGED <<at, held, resent, nest>>
  BY DEF MainCalls, Send, SocketStep
<1>2. key \in KeysOf(p) /\ key \in Keys /\ to = p
  <2>1. OwnKeys[p] \in Seq(Keys) /\ Len(OwnKeys[p]) \in 1 .. 3 /\ \A k \in KeysOf(p) : Stub[k].node = p
    BY ProcNames, Own
  <2>2. at[p] \in Nat /\ at[p] < 3 * Len(OwnKeys[p])
    <3>1. at[p] \in Nat /\ at[p] <= Requests(p)
      <4>1. at[p] \in 0 .. 9
        BY DEF TypeOK
      <4> QED BY <4>1 DEF Boots
    <3>2. at[p] # Requests(p)
      BY <1>1 DEF Booted
    <3>3. Requests(p) = 3 * Len(OwnKeys[p]) /\ Len(OwnKeys[p]) \in Nat
      BY <2>1 DEF Requests
    <3> QED BY <3>1, <3>2, <3>3
  <2>3. (at[p] \div 3) + 1 \in 1 .. Len(OwnKeys[p])
    BY <2>1, <2>2
  <2>4. (at[p] \div 3) + 1 \in DOMAIN OwnKeys[p]
    BY <2>1, <2>3
  <2> QED BY <2>1, <2>4 DEF KeysOf
<1>3. act \in Acts
  BY <1>1, <1>2, Tables
<1> HIDE DEF key, act
<1>4. c \in Call /\ c.st = "sent" /\ c.to \in Procs
  <2>1. to \in DOMAIN OwnKeys
    BY <1>2, ProcNames DEF Nodes, OwnKeys
  <2> QED BY <1>1, <1>2, <1>3, <2>1 DEF Call
<1>5. Asked(c.to, t, c)
  BY <1>1, <1>2, ThreadNames DEF Asked
<1>6. t \in Threads /\ t # Rep("app") /\ resent' \in Nat /\ resent' = resent
  <2>1. resent \in Nat
    BY RpcAssumption DEF TypeOK
  <2> QED BY <1>1, <2>1, ThreadNames
<1> HIDE DEF c, t
<1>7. Sockets' /\ FrontKept
  BY <1>1, <1>4, <1>5, <1>6, SendKeeps DEF c
<1>8. \A u \in Threads : u # t => call'[u] = call[u]
  BY <1>1, <1>6 DEF TypeOK
<1>9. TypeOK'
  BY <1>1, <1>7 DEF TypeOK, Sockets, SocketStep, CallType, InboxType, TurnType
<1>10. Calls'
  BY <1>1, <1>6, <1>8, ThreadNames DEF Calls, Booted, t
<1>11. Boots'
  BY <1>1 DEF Boots, Enabling, Booted, SocketStep
<1>12. Enables'
  BY <1>1, <1>6, <1>7, <1>8, ThreadNames, EnablesKept
<1> QED BY <1>1, <1>7, <1>9, <1>10, <1>11, <1>12, NoFault DEF SocketStep

LEMMA MainReceivesStep ==
  ASSUME RpcInv, fault = "none", NEW p \in Procs, MainReceives(p)
  PROVE  RpcInv'
<1> USE DEF RpcInv
<1> DEFINE t == Main(p)
<1>1. /\ Receive(t) /\ SocketStep /\ UNCHANGED <<resent, nest>>
      /\ held' = [held EXCEPT ![p] = call[t].arg] /\ at' = [at EXCEPT ![p] = @ + 1]
  BY DEF MainReceives, SocketStep
<1>2. t \in Threads /\ t # Rep("app") /\ \A q \in Procs : Main(q) = t => q = p
  BY ThreadNames
<1>3. nest # "no" => "app" \in Procs /\ turn["app"] # <<>>
  BY DEF Enables, Waiting
<1> HIDE DEF t
<1>4. /\ Sockets' /\ (nest # "no" => FrontKept)
      /\ call'[t] = NoCall /\ \A u \in Threads : u # t => call'[u] = call[u]
  BY <1>1, <1>2, <1>3, ReceiveKeeps
<1>5. call[t].st = "replied" /\ call[t] \in Call
  BY <1>1, <1>2 DEF Receive, TypeOK
<1>6. at[p] \in 0 .. 9 /\ at[p] + 1 <= Requests(p) /\ Requests(p) \in {3, 6, 9}
  <2>1. at[p] \in 0 .. 9 /\ at[p] <= Requests(p) /\ Requests(p) \in {3, 6, 9}
    <3>1. at[p] \in 0 .. 9
      BY DEF TypeOK
    <3> QED BY <3>1, ProcNames DEF Boots
  <2>2. at[p] # Requests(p)
    BY <1>5 DEF Calls, Booted, t
  <2> QED BY <2>1, <2>2
<1>7. at' \in [Procs -> 0 .. 9] /\ at'[p] = at[p] + 1 /\ \A q \in Procs : q # p => at'[q] = at[q]
  BY <1>1, <1>6 DEF TypeOK
<1>8. held' \in [Procs -> BOOLEAN]
  BY <1>1, <1>5 DEF TypeOK, Call
<1>9. TypeOK'
  BY <1>1, <1>4, <1>7, <1>8 DEF TypeOK, Sockets, SocketStep, CallType, InboxType, TurnType
<1>10. Calls'
  <2>1. ASSUME NEW q \in Procs, call'[Main(q)].st # "none" PROVE ~Booted(q)'
    <3>1. q # p /\ Main(q) # t /\ Main(q) \in Threads
      BY <1>2, <1>4, <2>1, ThreadNames DEF NoCall, t
    <3> QED BY <1>4, <1>7, <2>1, <3>1 DEF Calls, Booted
  <2>2. call'[Rep("app")] = call[Rep("app")]
    BY <1>2, <1>4, ThreadNames
  <2> QED BY <1>1, <2>1, <2>2 DEF Calls
<1>11. Boots'
  <2>1. \A q \in Procs : at'[q] <= Requests(q)
    BY <1>6, <1>7 DEF Boots
  <2>2. \A q \in Procs : Booted(q) => Booted(q)'
    <3>1. ~Booted(p)
      BY <1>5 DEF Calls, t
    <3> QED BY <1>7, <3>1 DEF Booted
  <2> QED BY <1>1, <2>1, <2>2 DEF Boots, Enabling, SocketStep
<1>12. call'[Rep("app")] = call[Rep("app")]
  BY <1>2, <1>4, ThreadNames
<1>13. Enables'
  BY <1>1, <1>4, <1>12, EnablesKept
<1> QED BY <1>1, <1>4, <1>9, <1>10, <1>11, <1>13, NoFault DEF SocketStep

LEMMA WsForwardsStep ==
  ASSUME RpcInv, fault = "none", NEW f \in Forwards, NEW e \in BOOLEAN, WsForwards(f[1], f[2], e)
  PROVE  RpcInv'
<1> USE DEF RpcInv
<1> DEFINE key == f[1]
           act == f[2]
           to == Route(key)
           c == [st |-> "sent", to |-> to, key |-> key, act |-> act, arg |-> act = "SET" /\ e,
                 got |-> key]
<1>1. /\ call[Ws].st = "none" /\ to \in Procs /\ call' = [call EXCEPT ![Ws] = c] /\ Enqueue(Ws, c)
      /\ SocketStep /\ UNCHANGED <<at, held, resent, nest>>
  BY DEF WsForwards, Send, SocketStep
<1>2. key \in Keys /\ act \in Acts
  BY RpcAssumption, KeyNames DEF Acts
<1> HIDE DEF to
<1>3. c \in Call /\ c.st = "sent" /\ c.to \in Procs
  <2>1. to \in DOMAIN OwnKeys
    BY <1>1, ProcNames DEF Nodes, OwnKeys
  <2> QED BY <1>1, <1>2, <2>1 DEF Call
<1>4. Asked(c.to, Ws, c)
  BY ThreadNames DEF Asked, to
<1>5. resent' \in Nat /\ resent' = resent
  <2>1. resent \in Nat
    BY RpcAssumption DEF TypeOK
  <2> QED BY <1>1, <2>1
<1> HIDE DEF c
<1>6. Sockets' /\ FrontKept
  BY <1>1, <1>3, <1>4, <1>5, ThreadNames, SendKeeps
<1>7. \A u \in Threads : u # Ws => call'[u] = call[u]
  BY <1>1 DEF TypeOK
<1>8. call'[Rep("app")] = call[Rep("app")] /\ \A p \in Procs : call'[Main(p)] = call[Main(p)]
  BY <1>7, ThreadNames
<1>9. TypeOK'
  BY <1>1, <1>6 DEF TypeOK, Sockets, SocketStep, CallType, InboxType, TurnType
<1>10. Calls' /\ Boots'
  BY <1>1, <1>8 DEF Calls, Boots, Enabling, Booted, SocketStep
<1>11. Enables'
  BY <1>1, <1>6, <1>8, EnablesKept
<1> QED BY <1>1, <1>6, <1>9, <1>10, <1>11, NoFault DEF SocketStep

LEMMA WsReceivesStep ==
  ASSUME RpcInv, fault = "none", WsReceives
  PROVE  RpcInv'
<1> USE DEF RpcInv
<1>1. Receive(Ws) /\ SocketStep /\ UNCHANGED <<at, held, resent, nest>>
  BY DEF WsReceives, SocketStep
<1>2. nest # "no" => "app" \in Procs /\ turn["app"] # <<>>
  BY DEF Enables, Waiting
<1>3. /\ Sockets' /\ (nest # "no" => FrontKept)
      /\ \A u \in Threads : u # Ws => call'[u] = call[u]
  BY <1>1, <1>2, ThreadNames, ReceiveKeeps
<1>4. call'[Rep("app")] = call[Rep("app")] /\ \A p \in Procs : call'[Main(p)] = call[Main(p)]
  BY <1>3, ThreadNames
<1>5. TypeOK'
  BY <1>1, <1>3 DEF TypeOK, Sockets, SocketStep, CallType, InboxType, TurnType
<1>6. Calls' /\ Boots'
  BY <1>1, <1>4 DEF Calls, Boots, Enabling, Booted, SocketStep
<1>7. Enables'
  BY <1>1, <1>3, <1>4, EnablesKept
<1> QED BY <1>1, <1>3, <1>5, <1>6, <1>7, NoFault DEF SocketStep

LEMMA ResendStep ==
  ASSUME RpcInv, fault = "none", NEW t \in Threads, Resend(t)
  PROVE  RpcInv'
<1> USE DEF RpcInv
<1> DEFINE c == call[t]
<1>1. /\ c.st = "sent" /\ Enqueue(t, c) /\ resent' = resent + 1 /\ resent < MaxResend
      /\ SocketStep /\ UNCHANGED <<at, held, call, nest>>
  BY DEF Resend, SocketStep
<1>2. c \in Call /\ c.to \in Procs /\ Asked(c.to, t, c)
  BY <1>1 DEF TypeOK, Sockets, Exchanges
<1>3. resent' \in 0 .. MaxResend /\ resent' # 0 /\ resent' \in Nat
  BY <1>1, RpcAssumption DEF TypeOK
<1>4. call' = [call EXCEPT ![t] = c]
  BY <1>1 DEF TypeOK
<1> HIDE DEF c
<1>5. Sockets' /\ FrontKept
  BY <1>1, <1>2, <1>3, <1>4, SendKeeps DEF c
<1>6. TypeOK'
  BY <1>1, <1>3, <1>5 DEF TypeOK, Sockets, SocketStep, CallType, InboxType, TurnType
<1>7. Calls' /\ Boots'
  BY <1>1 DEF Calls, Boots, Enabling, Booted, SocketStep
<1>8. Enables'
  BY <1>1, <1>5, EnablesKept
<1> QED BY <1>1, <1>5, <1>6, <1>7, <1>8, NoFault DEF SocketStep

\* A request without a handler, or for an action its handler does not know, is
\* one of a browser.
LEMMA RejectStep ==
  ASSUME RpcInv, fault = "none", NEW p \in Procs, Reject(p)
  PROVE  RpcInv'
<1> USE DEF RpcInv
<1> DEFINE t == Caller(p)
           m == Request(p)
<1>1. /\ Waiting(p)
      /\ \/ ~HasHandler(p, m) /\ fault' = "func"
         \/ HasHandler(p, m) /\ ~KnowsAction(m) /\ fault' = "action"
      /\ UNCHANGED <<handlers, bound, at, held, call, inbox, turn, resent, nest, detector, cfg, fifo, early, late>>
  BY DEF Reject
<1>2. t \in Threads /\ m \in Message /\ Asked(p, t, m)
  BY <1>1, FrontAsked
<1>3. handlers[p] = KeysOf(p)
  BY <1>1 DEF Waiting, Boots
<1>4. ASSUME t = Ws,
             IF fault' = "func" THEN p # Stub[m.key].node ELSE m.act \notin Stub[m.key].acts
      PROVE  OnlyForwardedRejected'
  BY <1>1, <1>4 DEF OnlyForwardedRejected, Waiting, Caller, Request
<1> HIDE DEF t, m
<1>5. /\ m.key \in Keys /\ m.key \in KeysOf(Stub[m.key].node)
      /\ Stub[m.key].acts = Dispatch[m.key]
  <2>1. m.key \in Keys
    BY <1>2 DEF Message
  <2> QED BY <2>1, Tables
<1>6. ASSUME ~HasHandler(p, m), fault' = "func" PROVE OnlyForwardedRejected'
  <2>1. p # Stub[m.key].node
    BY <1>3, <1>5, <1>6 DEF HasHandler
  <2>2. t = Ws
    BY <1>2, <2>1 DEF Asked
  <2> QED BY <1>4, <1>6, <2>1, <2>2
<1>7. ASSUME ~KnowsAction(m), fault' = "action" PROVE OnlyForwardedRejected'
  <2>1. m.act \notin Stub[m.key].acts
    BY <1>5, <1>7 DEF KnowsAction
  <2>2. t = Ws
    BY <1>2, <2>1 DEF Asked
  <2> QED BY <1>4, <1>7, <2>1, <2>2
<1>8. OnlyForwardedRejected'
  BY <1>1, <1>6, <1>7
<1>9. OnlyEarlyAppFails'
  BY <1>1 DEF OnlyEarlyAppFails
<1>10. Sockets'
  BY <1>1, SocketsSame
<1>11. TypeOK' /\ Calls' /\ Boots'
  BY <1>1 DEF TypeOK, Calls, Boots, Enabling, Booted
<1>12. Enables'
  BY <1>1 DEF Enables, Waiting, Request, Caller, IsSwitch
<1> QED BY <1>8, <1>9, <1>10, <1>11, <1>12

LEMMA StartEnableStep ==
  ASSUME RpcInv, fault = "none", StartEnable
  PROVE  RpcInv'
<1> USE DEF RpcInv
<1>1. /\ "app" \in Procs /\ Waiting("app") /\ IsSwitch(Request("app"))
      /\ nest = "no" /\ nest' = "CAP"
      /\ early' = ("vsf" \in Procs /\ ~Booted("vsf"))
      /\ UNCHANGED <<handlers, bound, at, held, call, inbox, turn, resent, detector, cfg, fifo, late, fault>>
  BY DEF StartEnable
<1>2. Sockets' /\ OnlyForwardedRejected' /\ OnlyEarlyAppFails'
  BY <1>1, SocketsSame, NoFault
<1>3. TypeOK' /\ Calls' /\ Boots'
  BY <1>1 DEF TypeOK, Calls, Boots, Enabling, Booted
<1>4. Enables'
  BY <1>1 DEF Enables, Waiting, Request, Caller, IsSwitch
<1> QED BY <1>2, <1>3, <1>4

LEMMA NestCallStep ==
  ASSUME RpcInv, fault = "none", NestCall
  PROVE  RpcInv'
<1> USE DEF RpcInv
<1> DEFINE t == Rep("app")
           to == Stub["VSF_FRAME"].node
           c == [st |-> "sent", to |-> to, key |-> "VSF_FRAME", act |-> nest,
                 arg |-> nest = "SET" /\ nest = "SET", got |-> "VSF_FRAME"]
<1>1. /\ call[t].st = "none" /\ to \in Procs /\ call' = [call EXCEPT ![t] = c] /\ Enqueue(t, c)
      /\ nest \in Stub["VSF_FRAME"].acts
      /\ SocketStep /\ UNCHANGED <<at, held, resent, nest>>
  BY DEF NestCall, Send, SocketStep
<1>2. "VSF_FRAME" \in Keys /\ nest \in {"CAP", "GET", "SET"} /\ nest \in Acts
  BY <1>1, KeyNames DEF TypeOK, Stub, FrameStub, Acts
<1>3. c \in Call /\ c.st = "sent" /\ c.to \in Procs
  <2>1. to \in DOMAIN OwnKeys
    BY <1>1, ProcNames DEF Nodes, OwnKeys
  <2> QED BY <1>1, <1>2, <2>1 DEF Call
<1>4. Asked(c.to, t, c)
  BY <1>1, ThreadNames DEF Asked
<1>5. t \in Threads /\ resent' \in Nat /\ resent' = resent
  <2>1. resent \in Nat
    BY RpcAssumption DEF TypeOK
  <2> QED BY <1>1, <2>1, ThreadNames
<1>6. call'[t] = c /\ \A u \in Threads : u # t => call'[u] = call[u]
  BY <1>1, <1>5 DEF TypeOK
<1>7. c.act = nest /\ c.st = "sent"
  OBVIOUS
<1> HIDE DEF c, to
<1>8. Sockets' /\ FrontKept
  BY <1>1, <1>3, <1>4, <1>5, SendKeeps
<1>9. TypeOK'
  BY <1>1, <1>8 DEF TypeOK, Sockets, SocketStep, CallType, InboxType, TurnType
<1>10. Calls'
  BY <1>1, <1>2, <1>6, <1>7, ThreadNames DEF Calls, Booted
<1>11. Boots'
  BY <1>1 DEF Boots, Enabling, Booted, SocketStep
<1>12. Enables'
  BY <1>1, <1>6, <1>7, <1>8, EnablesKept
<1> QED BY <1>1, <1>8, <1>9, <1>10, <1>11, <1>12, NoFault DEF SocketStep

LEMMA NestReceiveStep ==
  ASSUME RpcInv, fault = "none", NestReceive
  PROVE  RpcInv'
<1> USE DEF RpcInv
<1> DEFINE t == Rep("app")
<1>1. /\ Receive(t) /\ SocketStep /\ UNCHANGED <<at, held, resent>> /\ nest' = NestNext[nest]
  BY DEF NestReceive, SocketStep
<1>2. t \in Threads /\ \A p \in Procs : Main(p) # t /\ Main(p) \in Threads
  BY ThreadNames
<1>3. call[t].st = "replied" /\ nest \in {"CAP", "GET", "SET"}
  BY <1>1 DEF Receive, Calls
<1>4. "app" \in Procs /\ Waiting("app") /\ IsSwitch(Request("app"))
  BY <1>3 DEF Enables
<1>5. /\ Sockets' /\ FrontKept
      /\ call'[t] = NoCall /\ \A u \in Threads : u # t => call'[u] = call[u]
  BY <1>1, <1>2, <1>3, <1>4, ReceiveKeeps DEF Waiting
<1>6. nest' \in {"GET", "SET", "attach"} /\ (nest' = "attach" => nest = "SET")
  BY <1>1, <1>3 DEF NestNext
<1>7. TypeOK'
  BY <1>1, <1>5, <1>6 DEF TypeOK, Sockets, SocketStep, CallType, InboxType, TurnType
<1>8. Calls'
  BY <1>1, <1>2, <1>5 DEF Calls, Booted, NoCall
<1>9. Boots'
  BY <1>1, <1>3 DEF Boots, Enabling, Booted, SocketStep
<1>10. Enables'
  <2>1. turn'["app"] # <<>> /\ IsSwitch(Request("app"))'
    BY <1>4, <1>5 DEF FrontKept, Waiting
  <2>2. Waiting("app")'
    BY <1>1, <1>4, <2>1 DEF Waiting, SocketStep
  <2>3. nest' = "attach" => fifo \/ early \/ late
    BY <1>3, <1>6 DEF Enables
  <2> QED BY <1>1, <1>4, <1>5, <2>1, <2>2, <2>3 DEF Enables, NoCall, SocketStep
<1> QED BY <1>1, <1>5, <1>7, <1>8, <1>9, <1>10, NoFault DEF SocketStep

\* A request that is taken and answered: the rest of the state.
LEMMA AnswerStep ==
  ASSUME RpcInv, fault = "none", NEW p \in Procs, Answer(p)
  PROVE  RpcInv'
<1> USE DEF RpcInv
<1> DEFINE t == Caller(p)
           m == Request(p)
           arg == IF m.act = "GET" THEN cfg[m.key] ELSE m.arg
           frames == m.act = "SET" /\ m.key = "VSF_FRAME"
           r == Rep("app")
<1>1. /\ Waiting(p) /\ HasHandler(p, m) /\ ~IsSwitch(m) /\ Take(p) /\ call' = Reply(t, m, arg)
      /\ cfg' = IF m.act = "SET" THEN [cfg EXCEPT ![m.key] = m.arg] ELSE cfg
      /\ fifo' = IF frames THEN m.arg ELSE fifo
      /\ late' = (late \/ (Enabling /\ frames /\ ~m.arg /\ ~m.current))
      /\ UNCHANGED <<handlers, bound, at, held, resent, nest, detector, early, fault>>
  BY DEF Answer
<1>2. /\ t \in Threads /\ m \in Message /\ Asked(p, t, m) /\ Belongs(p, t, m)
  BY <1>1, FrontAsked
<1>3. arg \in BOOLEAN /\ m.key \in Keys /\ m.arg \in BOOLEAN
  BY <1>2 DEF TypeOK, Message
<1> HIDE DEF arg
<1>4. /\ Sockets' /\ (p # "app" => FrontKept)
      /\ ~m.current => call' = call
      /\ m.current => call'[t] = [call[t] EXCEPT !.st = "replied", !.got = m.key, !.arg = arg]
      /\ \A u \in Threads : u # t => call'[u] = call[u]
  BY <1>1, <1>3, ServeKeeps
<1>5. call[t] \in Call
  BY <1>2 DEF TypeOK
<1> HIDE DEF t, m, frames
<1>6. /\ \A u \in Threads : call'[u].act = call[u].act /\ (call'[u].st # "none" => call[u].st # "none")
      /\ \A u \in Threads : u # t \/ ~m.current => call'[u] = call[u]
  <2>1. m.current => call'[t].act = call[t].act /\ call[t].st # "none"
    BY <1>2, <1>4, <1>5 DEF Belongs, Call
  <2> QED BY <1>4, <2>1
<1>7. TypeOK'
  <2>1. fifo' \in BOOLEAN /\ late' \in BOOLEAN
    BY <1>1, <1>3 DEF TypeOK
  <2>2. cfg' \in [Keys -> BOOLEAN]
    BY <1>1, <1>3 DEF TypeOK
  <2> QED BY <1>1, <1>4, <2>1, <2>2 DEF TypeOK, Sockets, CallType, InboxType, TurnType
<1>8. Calls'
  BY <1>1, <1>6, ThreadNames DEF Calls, Booted
<1>9. Boots'
  BY <1>1 DEF Boots, Enabling, Booted
<1>10. ASSUME frames, ~m.arg, ~early, ~late', Enabling
       PROVE  FALSE
  <2>1. m.current /\ m.key = "VSF_FRAME" /\ m.act = "SET"
    BY <1>1, <1>10 DEF frames
  <2>2. p = "vsf"
    <3>1. handlers[p] = KeysOf(p) /\ p \in Nodes
      BY <1>1, ProcNames DEF Boots, Waiting
    <3>2. Stub[m.key].node = p
      BY <1>1, <3>1, Own DEF HasHandler
    <3> QED BY <2>1, <3>2, FrameRoute
  <2>3. t # Ws
    BY <1>2, <2>1, <2>2, FrameRoute DEF Asked
  <2>4. t # r
    BY <1>2, <1>10, <2>1 DEF Asked
  <2>5. t = Main("vsf")
    <3>1. t # Res
      BY <1>2, <2>1 DEF Asked
    <3> QED BY <1>2, <2>2, <2>3, <2>4, <3>1 DEF Asked
  <2>6. call[Main("vsf")].st # "none"
    BY <1>2, <2>1, <2>5 DEF Belongs
  <2>7. ~Booted("vsf")
    BY <2>2, <2>6 DEF Calls
  <2> QED BY <1>10, <2>2, <2>7 DEF Boots, Enabling
<1>11. Enables'
  <2>1. ASSUME nest # "no"
        PROVE  "app" \in Procs /\ Waiting("app") /\ IsSwitch(Request("app")) /\ p # "app"
    <3>1. "app" \in Procs /\ Waiting("app") /\ IsSwitch(Request("app"))
      BY <2>1 DEF Enables
    <3> QED BY <1>1, <3>1 DEF m
  <2>2. ASSUME nest # "no" PROVE Waiting("app")' /\ IsSwitch(Request("app"))'
    <3>1. FrontKept /\ turn["app"] # <<>>
      BY <1>4, <2>1, <2>2 DEF Waiting
    <3>2. turn'["app"] # <<>> /\ IsSwitch(Request("app"))'
      BY <2>1, <2>2, <3>1 DEF FrontKept
    <3> QED BY <1>1, <2>1, <2>2, <3>2 DEF Waiting
  <2>3. ASSUME nest = "attach" \/ (nest = "SET" /\ call'[r].st = "replied")
        PROVE  fifo' \/ early \/ late'
    <3>1. Enabling
      BY <2>3 DEF Enabling
    <3>2. CASE frames
      BY <1>1, <1>3, <1>10, <3>1, <3>2
    <3>3. CASE ~frames /\ (nest = "attach" \/ call[r].st = "replied")
      BY <1>1, <2>3, <3>3 DEF Enables
    <3>4. CASE ~frames /\ nest = "SET" /\ call[r].st # "replied"
      <4>1. t = r /\ m.current
        BY <1>6, <2>3, <3>4, ThreadNames
      <4>2. m.key = "VSF_FRAME" /\ m.act = call[r].act /\ call[r].st # "none"
        BY <1>2, <4>1 DEF Asked, Belongs
      <4>3. m.act = "SET"
        BY <3>4, <4>2 DEF Calls
      <4> QED BY <3>4, <4>2, <4>3 DEF frames
    <3> QED BY <2>3, <3>2, <3>3, <3>4
  <2> QED BY <1>1, <2>1, <2>2, <2>3 DEF Enables, r
<1> QED BY <1>1, <1>4, <1>7, <1>8, <1>9, <1>11, NoFault

LEMMA AttachStep ==
  ASSUME RpcInv, fault = "none", Attach
  PROVE  RpcInv'
<1> USE DEF RpcInv
<1> DEFINE t == Caller("app")
           m == Request("app")
           r == Rep("app")
<1>1. /\ nest = "attach" /\ UNCHANGED <<handlers, bound, at, held, resent, fifo>>
  BY DEF Attach
<1>2. "app" \in Procs /\ Waiting("app") /\ IsSwitch(m) /\ (fifo \/ early \/ late)
  BY <1>1 DEF Enables
<1>3. ASSUME fifo PROVE RpcInv'
  <2>1. /\ Take("app") /\ call' = Reply(t, m, TRUE)
        /\ cfg' = [cfg EXCEPT !["APP_ALG"] = TRUE] /\ nest' = "no" /\ detector' = TRUE
        /\ early' = FALSE /\ late' = FALSE /\ fault' = fault
    BY <1>3 DEF Attach
  <2>2. /\ Sockets' /\ t \in Threads /\ Belongs("app", t, m)
        /\ ~m.current => call' = call
        /\ m.current => call'[t] = [call[t] EXCEPT !.st = "replied", !.got = m.key, !.arg = TRUE]
        /\ \A u \in Threads : u # t => call'[u] = call[u]
    BY <1>1, <1>2, <2>1, ServeKeeps
  <2> HIDE DEF t, m
  <2>3. \A u \in Threads : call'[u].st # "none" => call[u].st # "none"
    <3>1. m.current => call[t].st # "none"
      BY <2>2 DEF Belongs
    <3> QED BY <2>2, <3>1
  <2>4. TypeOK'
    <3>1. cfg' \in [Keys -> BOOLEAN]
      BY <2>1 DEF TypeOK
    <3> QED BY <1>1, <2>1, <2>2, <3>1 DEF TypeOK, Sockets, CallType, InboxType, TurnType
  <2>5. Calls'
    <3>1. call[r].st = "none"
      BY <1>1 DEF Calls
    <3> QED BY <1>1, <2>3, <3>1, ThreadNames DEF Calls, Booted
  <2>6. Boots'
    BY <1>1, <2>1 DEF Boots, Enabling, Booted
  <2>7. Enables'
    BY <2>1 DEF Enables
  <2> QED BY <2>1, <2>2, <2>4, <2>5, <2>6, <2>7, NoFault
<1>4. ASSUME ~fifo PROVE RpcInv'
  <2>1. fault' = "attach" /\ UNCHANGED <<inbox, turn, call, cfg, nest, detector, early, late>>
    BY <1>4 DEF Attach
  <2>2. Sockets'
    BY <1>1, <2>1, SocketsSame
  <2>3. TypeOK' /\ Calls' /\ Boots'
    BY <1>1, <2>1 DEF TypeOK, Calls, Boots, Enabling, Booted
  <2>4. Enables'
    BY <1>1, <2>1 DEF Enables, Waiting, Request, Caller, IsSwitch
  <2>5. OnlyForwardedRejected' /\ OnlyEarlyAppFails'
    BY <1>1, <1>2, <1>4, <2>1 DEF OnlyForwardedRejected, OnlyEarlyAppFails
  <2> QED BY <2>2, <2>3, <2>4, <2>5
<1> QED BY <1>3, <1>4

\* The detector's own requests are for an OSD, which vsf draws.
LEMMA DeliverStep ==
  ASSUME RpcInv, fault = "none", Deliver
  PROVE  RpcInv'
<1> USE DEF RpcInv
<1> DEFINE to == Stub["VSF_OSD"].node
           c == [st |-> "sent", to |-> to, key |-> "VSF_OSD", act |-> "TGR",
                 arg |-> "TGR" = "SET" /\ FALSE, got |-> "VSF_OSD"]
<1>1. /\ call[Res].st = "none" /\ to \in Procs /\ call' = [call EXCEPT ![Res] = c] /\ Enqueue(Res, c)
      /\ SocketStep /\ UNCHANGED <<at, held, resent, nest>>
  BY DEF Deliver, Send, SocketStep
<1>2. "VSF_OSD" \in Keys /\ "TGR" \in Acts /\ "TGR" \in Stub["VSF_OSD"].acts
  BY KeyNames DEF Stub, OsdStub, Acts
<1> HIDE DEF to
<1>3. c \in Call /\ c.st = "sent" /\ c.to \in Procs
  <2>1. to \in DOMAIN OwnKeys
    BY <1>1, ProcNames DEF Nodes, OwnKeys
  <2> QED BY <1>1, <1>2, <2>1 DEF Call
<1>4. Asked(c.to, Res, c)
  BY <1>2, ThreadNames DEF Asked, to
<1>5. resent' \in Nat /\ resent' = resent
  <2>1. resent \in Nat
    BY RpcAssumption DEF TypeOK
  <2> QED BY <1>1, <2>1
<1> HIDE DEF c
<1>6. Sockets' /\ FrontKept
  BY <1>1, <1>3, <1>4, <1>5, ThreadNames, SendKeeps
<1>7. \A u \in Threads : u # Res => call'[u] = call[u]
  BY <1>1 DEF TypeOK
<1>8. call'[Rep("app")] = call[Rep("app")] /\ \A p \in Procs : call'[Main(p)] = call[Main(p)]
  BY <1>7, ThreadNames
<1>9. TypeOK'
  BY <1>1, <1>6 DEF TypeOK, Sockets, SocketStep, CallType, InboxType, TurnType
<1>10. Calls' /\ Boots'
  BY <1>1, <1>8 DEF Calls, Boots, Enabling, Booted, SocketStep
<1>11. Enables'
  BY <1>1, <1>6, <1>8, EnablesKept
<1> QED BY <1>1, <1>6, <1>9, <1>10, <1>11, NoFault DEF SocketStep

LEMMA ResReceivesStep ==
  ASSUME RpcInv, fault = "none", ResReceives
  PROVE  RpcInv'
<1> USE DEF RpcInv
<1>1. Receive(Res) /\ SocketStep /\ UNCHANGED <<at, held, resent, nest>>
  BY DEF ResReceives, SocketStep
<1>2. nest # "no" => "app" \in Procs /\ turn["app"] # <<>>
  BY DEF Enables, Waiting
<1>3. /\ Sockets' /\ (nest # "no" => FrontKept)
      /\ \A u \in Threads : u # Res => call'[u] = call[u]
  BY <1>1, <1>2, ThreadNames, ReceiveKeeps
<1>4. call'[Rep("app")] = call[Rep("app")] /\ \A p \in Procs : call'[Main(p)] = call[Main(p)]
  BY <1>3, ThreadNames
<1>5. TypeOK'
  BY <1>1, <1>3 DEF TypeOK, Sockets, SocketStep, CallType, InboxType, TurnType
<1>6. Calls' /\ Boots'
  BY <1>1, <1>4 DEF Calls, Boots, Enabling, Booted, SocketStep
<1>7. Enables'
  BY <1>1, <1>3, <1>4, EnablesKept
<1> QED BY <1>1, <1>3, <1>5, <1>6, <1>7, NoFault DEF SocketStep

LEMMA StartDisableStep ==
  ASSUME RpcInv, fault = "none", StartDisable
  PROVE  RpcInv'
<1> USE DEF RpcInv
<1>1. /\ "app" \in Procs /\ Waiting("app") /\ IsSwitch(Request("app")) /\ nest = "no"
      /\ \/ nest' \in {"join", "asleep"} /\ fault' = "none"
         \/ fault' = "face" /\ nest' = "no"
      /\ UNCHANGED <<handlers, bound, at, held, call, inbox, turn, resent, detector, cfg, fifo, early, late>>
  BY DEF StartDisable
<1>2. Sockets'
  BY <1>1, SocketsSame
<1>3. OnlyForwardedRejected' /\ OnlyEarlyAppFails'
  BY <1>1 DEF OnlyForwardedRejected, OnlyEarlyAppFails
<1>4. call[Rep("app")].st = "none" \/ nest \in {"CAP", "GET", "SET"}
  BY DEF Calls
<1>5. Calls' /\ Boots'
  BY <1>1, <1>4 DEF Calls, Boots, Enabling, Booted
<1>6. TypeOK'
  BY <1>1 DEF TypeOK
<1>7. Enables'
  BY <1>1 DEF Enables, Waiting, Request, Caller, IsSwitch
<1> QED BY <1>2, <1>3, <1>5, <1>6, <1>7

LEMMA JoinedStep ==
  ASSUME RpcInv, fault = "none", Joined
  PROVE  RpcInv'
<1> USE DEF RpcInv
<1> DEFINE t == Caller("app")
           m == Request("app")
           r == Rep("app")
<1>1. /\ nest = "join" /\ Take("app") /\ call' = Reply(t, m, FALSE)
      /\ cfg' = [cfg EXCEPT !["APP_ALG"] = FALSE] /\ nest' = "no" /\ detector' = FALSE
      /\ UNCHANGED <<handlers, bound, at, held, resent, fifo, early, late, fault>>
  BY DEF Joined
<1>2. "app" \in Procs /\ Waiting("app")
  BY <1>1 DEF Enables
<1>3. /\ Sockets' /\ t \in Threads /\ Belongs("app", t, m)
      /\ ~m.current => call' = call
      /\ m.current => call'[t] = [call[t] EXCEPT !.st = "replied", !.got = m.key, !.arg = FALSE]
      /\ \A u \in Threads : u # t => call'[u] = call[u]
  BY <1>1, <1>2, ServeKeeps
<1> HIDE DEF t, m
<1>4. \A u \in Threads : call'[u].st # "none" => call[u].st # "none"
  <2>1. m.current => call[t].st # "none"
    BY <1>3 DEF Belongs
  <2> QED BY <1>3, <2>1
<1>5. TypeOK'
  <2>1. cfg' \in [Keys -> BOOLEAN]
    BY <1>1 DEF TypeOK
  <2> QED BY <1>1, <1>3, <2>1 DEF TypeOK, Sockets, CallType, InboxType, TurnType
<1>6. Calls'
  <2>1. call[r].st = "none"
    BY <1>1 DEF Calls
  <2> QED BY <1>1, <1>4, <2>1, ThreadNames DEF Calls, Booted
<1>7. Boots'
  BY <1>1 DEF Boots, Enabling, Booted
<1>8. Enables'
  BY <1>1 DEF Enables
<1> QED BY <1>1, <1>3, <1>5, <1>6, <1>7, <1>8, NoFault
-----------------------------------------------------------------------------
(***************************************************************************)
(* The specification                                                       *)
(***************************************************************************)
LEMMA Initially == Init => RpcInv
<1> SUFFICES ASSUME Init PROVE RpcInv
  OBVIOUS
<1>1. \A t \in Threads : call[t] = NoCall
  BY DEF Init
<1>2. \A p \in Procs : turn[p] = <<>> /\ \A t \in Threads : inbox[p][t] = <<>>
  BY DEF Init
<1>3. NoCall \in Call /\ NoCall.st = "none"
  <2>1. "bsp" \in DOMAIN OwnKeys
    BY DEF OwnKeys
  <2> QED BY <2>1, KeyNames DEF NoCall, Call, Acts
<1>4. <<>> \in Seq(Message) /\ <<>> \in Seq(Threads) /\ DOMAIN <<>> = {}
  OBVIOUS
<1>5. TypeOK
  <2>1. inbox \in [Procs -> [Threads -> Seq(Message)]] /\ turn \in [Procs -> Seq(Threads)]
    BY <1>4 DEF Init
  <2>2. call \in [Threads -> Call]
    BY <1>3 DEF Init
  <2>3. cfg \in [Keys -> BOOLEAN]
    BY DEF Init, LoadedCfg
  <2>4. at \in [Procs -> 0 .. 9]
    BY DEF Init
  <2>5. handlers \in [Procs -> SUBSET Keys] /\ held \in [Procs -> BOOLEAN] /\ bound \subseteq Procs
    BY DEF Init
  <2>6. resent \in 0 .. MaxResend
    BY RpcAssumption DEF Init
  <2> QED BY <2>1, <2>2, <2>3, <2>4, <2>5, <2>6 DEF Init, TypeOK
<1>6. Turns
  BY <1>2, <1>4 DEF Turns
<1>7. Messages /\ Pending /\ Single /\ Exchanges
  BY <1>1, <1>2, <1>3, <1>4 DEF Messages, Pending, Single, Exchanges, AnswersMatch
<1>8. Sockets
  BY <1>5, <1>6, <1>7 DEF Sockets, TypeOK, InboxType, TurnType, CallType
<1>9. Calls
  BY <1>1, <1>3, ThreadNames DEF Calls
<1>10. Boots
  <2>1. \A p \in Procs : at[p] = 0 /\ handlers[p] = {}
    BY DEF Init
  <2>2. ASSUME NEW p \in Procs PROVE 0 <= Requests(p)
    <3>1. Requests(p) \in {3, 6, 9}
      BY ProcNames
    <3> QED BY <3>1
  <2> QED BY <2>1, <2>2 DEF Boots, Enabling, Init
<1>11. Enables
  BY <1>1, <1>3, ThreadNames DEF Enables, Init
<1>12. OnlyForwardedRejected /\ OnlyEarlyAppFails
  BY DEF Init, OnlyForwardedRejected, OnlyEarlyAppFails
<1> QED BY <1>5, <1>8, <1>9, <1>10, <1>11, <1>12 DEF RpcInv

\* Every step of every thread keeps the invariant.
LEMMA Step == RpcInv /\ [Next]_vars => RpcInv'
<1> SUFFICES ASSUME RpcInv, [Next]_vars PROVE RpcInv'
  OBVIOUS
<1>1. CASE UNCHANGED vars
  <2> USE <1>1 DEF vars, RpcInv
  <2>1. Sockets'
    BY SocketsSame
  <2>2. TypeOK' /\ Calls' /\ Boots'
    BY DEF TypeOK, Calls, Boots, Enabling, Booted
  <2>3. Enables'
    BY DEF Enables, Waiting, Request, Caller, IsSwitch
  <2>4. OnlyForwardedRejected' /\ OnlyEarlyAppFails'
    BY DEF OnlyForwardedRejected, OnlyEarlyAppFails, Waiting, Request, Caller
  <2> QED BY <2>1, <2>2, <2>3, <2>4
<1>2. CASE Next
  <2>1. fault = "none"
    BY <1>2 DEF Next
  <2>2. ASSUME NEW p \in Procs, ProcStep(p) PROVE RpcInv'
    BY <2>1, <2>2, RegisterStep, BindStep, MainCallsStep, MainReceivesStep DEF ProcStep
  <2>3. ASSUME NEW p \in Procs, Serve(p) PROVE RpcInv'
    BY <2>1, <2>3, AnswerStep, RejectStep DEF Serve
  <2>4. ASSUME Switching PROVE RpcInv'
    BY <2>1, <2>4, StartEnableStep, NestCallStep, NestReceiveStep, AttachStep, StartDisableStep, JoinedStep
       DEF Switching
  <2>5. ASSUME NEW f \in Forwards, NEW e \in BOOLEAN, WsForwards(f[1], f[2], e)
        PROVE  RpcInv'
    BY <2>1, <2>5, WsForwardsStep
  <2>6. ASSUME WsReceives PROVE RpcInv'
    BY <2>1, <2>6, WsReceivesStep
  <2>7. ASSUME NEW t \in Threads, Resend(t) PROVE RpcInv'
    BY <2>1, <2>7, ResendStep
  <2>8. ASSUME Deliver \/ ResReceives PROVE RpcInv'
    BY <2>1, <2>8, DeliverStep, ResReceivesStep
  <2> QED BY <1>2, <2>2, <2>3, <2>4, <2>5, <2>6, <2>7, <2>8 DEF Next
<1> QED BY <1>1, <1>2

\* In every state that is reached: the messages of a socket belong to calls,
\* the calls to what their threads are at, and the frames are on before app
\* attaches to them.
THEOREM RpcInvariant == Spec => []RpcInv
<1>1. Init => RpcInv
  BY Initially
<1>2. RpcInv /\ [Next]_vars => RpcInv'
  BY Step
<1> QED BY <1>1, <1>2, PTL DEF Spec

\* The sockets and their callers agree, whatever is sent again and whenever a
\* socket is closed: a caller that waits has a request at the process it asked,
\* a request that counts belongs to that call, and a process has a turn for the
\* callers with requests and for no other.
THEOREM SocketsAgree == Spec => []CallsAndCopiesAgree
<1>1. RpcInv => CallsAndCopiesAgree
  <2> SUFFICES ASSUME RpcInv PROVE CallsAndCopiesAgree
    OBVIOUS
  <2>1. TypeOK /\ Turns /\ Messages /\ Pending /\ Single /\ CallType /\ InboxType
    BY DEF RpcInv, Sockets
  <2>2. ASSUME NEW p \in Procs, NEW t \in Threads, NEW i \in DOMAIN inbox[p][t],
               NEW m, m = inbox[p][t][i]
        PROVE  /\ m.current => call[t].st # "none" /\ call[t].to = p /\ call[t].key = m.key
                               /\ call[t].act = m.act
               /\ (call[t].st # "sent" \/ ~m.current) => resent > 0
    <3>1. Belongs(p, t, m)
      BY <2>1, <2>2 DEF Messages
    <3>2. ASSUME resent = 0 PROVE call[t].st = "sent" /\ m.current
      <4>1. inbox[p][t] \in Seq(Message)
        BY <2>1 DEF InboxType
      <4>2. inbox[p][t] # <<>>
        BY <4>1, <2>2
      <4>3. Len(inbox[p][t]) = 1 /\ inbox[p][t][1].current /\ call[t].st = "sent"
        BY <2>1, <3>2, <4>2 DEF Single
      <4>4. i = 1
        BY <4>1, <4>3, <2>2
      <4> QED BY <2>2, <4>3, <4>4
    <3>3. resent \in Nat
      BY <2>1, RpcAssumption DEF TypeOK
    <3>4. resent = 0 \/ resent > 0
      BY <3>3
    <3> QED BY <3>1, <3>2, <3>4 DEF Belongs
  <2> QED BY <2>1, <2>2 DEF CallsAndCopiesAgree, Turns, Pending
<1> QED BY <1>1, RpcInvariant, PTL

\* The asserts on the handler and on its action fail only for what a browser
\* sent: no process serves a request before its handlers are there, and the
\* stub of a key asks the process of that key for what its handler knows.
THEOREM RejectionsForwarded == Spec => []OnlyForwardedRejected
<1>1. RpcInv => OnlyForwardedRejected
  BY DEF RpcInv
<1> QED BY <1>1, RpcInvariant, PTL

\* A caller gets the reply to the request it waits for, however many copies of
\* its earlier ones are answered too: the assert on the key holds in every stub.
THEOREM RepliesMatch == Spec => []AnswersMatch
<1>1. RpcInv => AnswersMatch
  BY DEF RpcInv, Sockets, Exchanges
<1> QED BY <1>1, RpcInvariant, PTL

\* The frame FIFO is there when app attaches to it, unless app was started
\* while vsf booted or a copy of an answered request turned the frames off.
THEOREM AttachFinds == Spec => []OnlyEarlyAppFails
<1>1. RpcInv => OnlyEarlyAppFails
  BY DEF RpcInv
<1> QED BY <1>1, RpcInvariant, PTL
=============================================================================
