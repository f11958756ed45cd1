----------------------------- MODULE WebProofs -----------------------------
(***************************************************************************)
(* The video sessions of the HTTP server, for any finite set of addresses. *)
(*                                                                         *)
(* Linked says who has a session, Started why a buffer may be raw, and     *)
(* Ordered what the byte and the single message on the way guarantee to a  *)
(* sender that never overtook: while its message is pending it waits, and  *)
(* nobody else touches its buffer.  Counted is the balance of messages,    *)
(* bytes and waiting senders.                                              *)
(***************************************************************************)
EXTENDS WebMedia, FiniteSetTheorems, TLAPS

SessionType == [media : {"none", "SETUP", "PLAY", "EXIT"}, buf : {"raw", "empty", "data", "more"},
                mgr : {"up", "closed", "freed"}]

\* The event thread does not run, or is on its way out.
Gone == {"none", "init", "exited"}
Down == Gone \cup {"closed"}

Linked(s) ==
  /\ sender[s] # "none" <=> Alive(s)
  /\ linked[s] # "no" => session[s].media = "PLAY"
  /\ Alive(s) => linked[s] # "no" \/ session[s].media = "EXIT" \/ (at = "register" /\ cur = s)
  /\ at = "register" /\ cur = s => session[s].media = "SETUP"
  /\ Serving(s) => linked[s] # "no"
  /\ at \in Gone /\ Alive(s) => session[s].media = "EXIT"
  /\ at \in Down /\ Alive(s) => session[s].mgr # "up"
  /\ session[s].mgr = "freed" /\ Alive(s) => session[s].media = "EXIT"

\* The history of a session ends with it, and it overtakes nothing before it
\* has started.
Started(s) ==
  /\ Alive(s) /\ session[s].buf = "raw" => sender[s] = "start" \/ s \in early
  /\ ~Alive(s) => s \notin stale
  /\ sender[s] \in {"none", "start"} => s \notin ahead

Ordered(s) ==
  Alive(s) /\ s \notin ahead \cup stale =>
    /\ Pending(s) => sender[s] = "wait" /\ session[s].mgr = "up" /\ session[s].buf = "data"
    /\ sender[s] = "broadcast" => session[s].buf = "data"
    /\ ~(Serving(s) /\ Queued(s))
    /\ \A i, j \in DOMAIN queue : queue[i] = s /\ queue[j] = s => i = j

Counted ==
  /\ RepliesAddUp
  /\ at \in Down => queue = <<>> /\ replies = 0

Sessions == \A s \in Addresses : Linked(s) /\ Started(s) /\ Ordered(s)

IInv ==
  /\ TypeOK
  /\ ctl = "off" <=> at = "none"
  /\ Sessions /\ Counted
  /\ MisuseHasCause /\ TroubleHasCause
-----------------------------------------------------------------------------
LEMMA InitInv == Init => IInv
<1> SUFFICES ASSUME Init PROVE IInv
  OBVIOUS
<1>1. TypeOK
  <2>1. Free \in SessionType
    BY DEF Free, SessionType
  <2> QED BY <2>1 DEF Init, TypeOK, SessionType, EventAt, SenderAt
<1>2. Sessions
  BY DEF Init, Sessions, Linked, Started, Ordered, Pending, Serving, Queued, Alive, Free, Gone, Down
<1>3. Counted
  <2>1. Waiting = {}
    BY DEF Init, Waiting
  <2> QED BY <2>1, FS_EmptySet DEF Init, Counted, RepliesAddUp
<1>4. MisuseHasCause /\ TroubleHasCause
  BY DEF Init, MisuseHasCause, TroubleHasCause, Trouble
<1> QED BY <1>1, <1>2, <1>3, <1>4 DEF IInv, Init

\* The senders that wait are finitely many.
LEMMA WaitingFinite == IsFiniteSet(Waiting) /\ Cardinality(Waiting) \in Nat
<1>1. Waiting \in SUBSET Addresses
  BY DEF Waiting
<1> QED BY <1>1, WebAssumption, FS_Subset, FS_CardinalityType

\* A step that touches neither the queue, nor the bytes, nor who waits.
LEMMA SameCount ==
  ASSUME Counted, UNCHANGED <<queue, replies>>, at' \in Down => at \in Down,
         \A s \in Addresses : (sender'[s] = "wait" /\ session'[s].mgr = "up")
                                <=> (sender[s] = "wait" /\ session[s].mgr = "up")
  PROVE  Counted'
<1>1. Waiting' = Waiting
  BY DEF Waiting
<1> QED BY <1>1 DEF Counted, RepliesAddUp

\* Trouble has its cause in every state without a fault: whose message is served
\* waits, unless its sender overtook or the message is stale.
LEMMA NoTrouble ==
  ASSUME fault' = "none", TypeOK', Sessions'
  PROVE  MisuseHasCause' /\ TroubleHasCause'
<1>1. TroubleHasCause'
  BY DEF TypeOK, Sessions, Linked, Ordered, Pending, Serving, Alive, Trouble, TroubleHasCause
<1> QED BY <1>1 DEF MisuseHasCause
-----------------------------------------------------------------------------
(***************************************************************************)
(* The request thread.                                                     *)
(***************************************************************************)
LEMMA StartStopInv ==
  ASSUME IInv, fault = "none", Start \/ Stop
  PROVE  IInv'
<1>0. /\ UNCHANGED <<cur, queue, replies, linked, session, sender, early, ahead, stale, fault>>
      /\ at' = at \/ (at = "none" /\ at' = "init")
  BY DEF IInv, Start, Stop, event
<1>1. TypeOK' /\ (ctl' = "off" <=> at' = "none")
  BY <1>0 DEF IInv, TypeOK, EventAt, Start, Stop, event
<1>2. Sessions'
  BY <1>0 DEF IInv, Sessions, Linked, Started, Ordered, Pending, Serving, Queued, Alive, Gone, Down
<1>3. Counted'
  BY <1>0, SameCount DEF IInv, Down, Gone
<1> QED BY <1>0, <1>1, <1>2, <1>3, NoTrouble DEF IInv

\* The manager of the connections of every session there is.
LEMMA Released ==
  ASSUME TypeOK, NEW to \in {"closed", "freed"}, Release(to)
  PROVE  /\ session' \in [Addresses -> SessionType]
         /\ \A s \in Addresses : /\ session'[s].media = session[s].media
                                 /\ session'[s].buf = session[s].buf
                                 /\ session'[s].mgr = IF Alive(s) THEN to ELSE session[s].mgr
BY DEF TypeOK, Release, SessionType

LEMMA JoinInv ==
  ASSUME IInv, fault = "none", Join
  PROVE  IInv'
<1>0. /\ UNCHANGED <<status, cur, queue, replies, linked, sender, early, ahead, stale, fault>>
      /\ at = "exited" /\ at' = "none" /\ ctl' = "off" /\ queue = <<>> /\ replies = 0
  BY DEF IInv, Join, Counted, Down, Gone
<1>1. /\ session' \in [Addresses -> SessionType]
      /\ \A s \in Addresses : /\ session'[s].media = session[s].media
                              /\ session'[s].buf = session[s].buf
                              /\ session'[s].mgr = IF Alive(s) THEN "freed" ELSE session[s].mgr
  BY Released DEF IInv, Join
<1>2. TypeOK'
  BY <1>0, <1>1 DEF IInv, TypeOK, EventAt, SessionType
<1>3. ASSUME NEW s \in Addresses PROVE Linked(s)' /\ Started(s)' /\ Ordered(s)'
  <2>1. Linked(s)' /\ Started(s)'
    BY <1>0, <1>1 DEF IInv, Sessions, Linked, Started, Serving, Alive, Gone, Down
  <2>2. Ordered(s)'
    BY <1>0, <1>1 DEF IInv, Sessions, Linked, Ordered, Pending, Serving, Queued, Alive
  <2> QED BY <2>1, <2>2
<1>4. Counted'
  <2>1. ASSUME NEW s \in Addresses, sender[s] = "wait"
        PROVE  session[s].mgr # "up" /\ session'[s].mgr # "up"
    BY <1>0, <1>1, <2>1 DEF IInv, Sessions, Linked, Alive, Gone, Down
  <2> QED BY <1>0, <2>1, SameCount DEF IInv, Down, Gone
<1> QED BY <1>0, <1>2, <1>3, <1>4, NoTrouble DEF IInv, Sessions
-----------------------------------------------------------------------------
(***************************************************************************)
(* The event thread.                                                       *)
(***************************************************************************)
LEMMA BindInv ==
  ASSUME IInv, fault = "none", Bind
  PROVE  IInv'
<1>0. /\ UNCHANGED <<ctl, cur, queue, replies, linked, session, sender, early, ahead, stale, fault>>
      /\ at = "init" /\ at' \in {"loop", "exited"} /\ status' \in {"RUNNING", status}
  BY DEF Bind
<1>1. TypeOK' /\ (ctl' = "off" <=> at' = "none")
  BY <1>0 DEF IInv, TypeOK, EventAt
<1>2. Sessions'
  BY <1>0 DEF IInv, Sessions, Linked, Started, Ordered, Pending, Serving, Queued, Alive, Gone, Down
<1>3. Counted'
  BY <1>0, SameCount DEF IInv, Down, Gone
<1> QED BY <1>0, <1>1, <1>2, <1>3, NoTrouble DEF IInv

\* A step that leaves the queue and the place of the event thread alone keeps
\* what is said of the sessions it does not touch.
Elsewhere(s) ==
  \A t \in Addresses : t # s =>
    /\ session'[t] = session[t] /\ sender'[t] = sender[t] /\ linked'[t] = linked[t]
    /\ (t \in early' <=> t \in early) /\ (t \in ahead' <=> t \in ahead)
    /\ (t \in stale' <=> t \in stale)

LEMMA OpenInv ==
  ASSUME IInv, fault = "none", NEW s \in Addresses, Open(s)
  PROVE  IInv'
<1>0. /\ UNCHANGED <<ctl, status, queue, replies, linked, early, ahead, fault>>
      /\ at = "loop" /\ at' = "register" /\ cur' = s /\ ~Alive(s) /\ linked[s] = "no"
      /\ sender[s] = "none" /\ stale' = IF Queued(s) THEN stale \cup {s} ELSE stale
  BY DEF IInv, Open, http, Sessions, Linked, Alive
<1>1. /\ session' \in [Addresses -> SessionType]
      /\ session'[s].media = "SETUP" /\ session'[s].buf = "raw" /\ session'[s].mgr = "up"
      /\ sender' \in [Addresses -> SenderAt] /\ sender'[s] = "start"
      /\ stale' \subseteq Addresses /\ Elsewhere(s)
  <2>1. [Free EXCEPT !.media = "SETUP"] \in SessionType
    BY DEF Free, SessionType
  <2>2. /\ session' \in [Addresses -> SessionType] /\ session'[s] = [Free EXCEPT !.media = "SETUP"]
        /\ \A t \in Addresses : t # s => session'[t] = session[t]
    BY <2>1 DEF IInv, TypeOK, Open, SessionType
  <2>3. /\ sender' \in [Addresses -> SenderAt] /\ sender'[s] = "start"
        /\ \A t \in Addresses : t # s => sender'[t] = sender[t]
    BY DEF IInv, TypeOK, Open, SenderAt
  <2>4. stale' \subseteq Addresses
    BY <1>0 DEF IInv, TypeOK
  <2> QED BY <1>0, <2>2, <2>3, <2>4 DEF Elsewhere, Free
<1>2. TypeOK'
  BY <1>0, <1>1 DEF IInv, TypeOK, SessionType, EventAt
<1>3. ASSUME NEW t \in Addresses PROVE Linked(t)' /\ Started(t)' /\ Ordered(t)'
  <2>1. Linked(t) /\ Started(t) /\ Ordered(t)
    BY DEF IInv, Sessions
  <2>2. CASE t = s
    BY <1>0, <1>1, <2>1, <2>2
       DEF Linked, Started, Ordered, Pending, Serving, Queued, Alive, Gone, Down
  <2>3. CASE t # s
    BY <1>0, <1>1, <2>1, <2>3
       DEF Elsewhere, Linked, Started, Ordered, Pending, Serving, Queued, Alive, Gone, Down
  <2> QED BY <2>2, <2>3
<1>4. Counted'
  BY <1>0, <1>1, SameCount DEF IInv, Down, Gone, Elsewhere
<1> QED BY <1>0, <1>2, <1>3, <1>4, NoTrouble DEF IInv, Sessions

LEMMA RegisterInv ==
  ASSUME IInv, fault = "none", Register
  PROVE  IInv'
<1>0. /\ UNCHANGED <<ctl, status, cur, queue, replies, sender, early, ahead, stale, fault>>
      /\ at = "register" /\ at' = "loop" /\ cur \in Addresses /\ session[cur].media = "SETUP"
  BY DEF IInv, Register, http, Sessions, Linked, TypeOK
<1>1. /\ session' \in [Addresses -> SessionType]
      /\ session'[cur].media = "PLAY" /\ session'[cur].buf = session[cur].buf
      /\ session'[cur].mgr = session[cur].mgr
      /\ linked' \in [Addresses -> {"no", "yes", "closing"}] /\ linked'[cur] = "yes"
      /\ Elsewhere(cur)
  BY <1>0 DEF IInv, TypeOK, Register, SessionType, Elsewhere
<1>2. TypeOK'
  BY <1>0, <1>1 DEF IInv, TypeOK, SessionType, EventAt
<1>3. ASSUME NEW t \in Addresses PROVE Linked(t)' /\ Started(t)' /\ Ordered(t)'
  <2>1. Linked(t) /\ Started(t) /\ Ordered(t)
    BY DEF IInv, Sessions
  <2>2. CASE t = cur
    BY <1>0, <1>1, <2>1, <2>2
       DEF Linked, Started, Ordered, Pending, Serving, Queued, Alive, Gone, Down
  <2>3. CASE t # cur
    BY <1>0, <1>1, <2>1, <2>3
       DEF Elsewhere, Linked, Started, Ordered, Pending, Serving, Queued, Alive, Gone, Down
  <2> QED BY <2>2, <2>3
<1>4. Counted'
  BY <1>0, <1>1, SameCount DEF IInv, Down, Gone, Elsewhere
<1> QED BY <1>0, <1>2, <1>3, <1>4, NoTrouble DEF IInv, Sessions

LEMMA CloseInv ==
  ASSUME IInv, fault = "none", NEW s \in Addresses, Close(s)
  PROVE  IInv'
<1>0. /\ UNCHANGED <<ctl, status, at, cur, queue, replies, sender, early, ahead, stale, fault>>
      /\ at = "loop" /\ linked[s] # "no" /\ session[s].media = "PLAY"
  BY DEF IInv, Close, http, event, Sessions, Linked
<1>1. /\ session' \in [Addresses -> SessionType]
      /\ session'[s].media = "EXIT" /\ session'[s].buf = session[s].buf
      /\ session'[s].mgr = session[s].mgr
      /\ linked' \in [Addresses -> {"no", "yes", "closing"}] /\ linked'[s] = "no"
      /\ Elsewhere(s)
  BY <1>0 DEF IInv, TypeOK, Close, SessionType, Elsewhere
<1>2. TypeOK'
  BY <1>0, <1>1 DEF IInv, TypeOK, SessionType, EventAt
<1>3. ASSUME NEW t \in Addresses PROVE Linked(t)' /\ Started(t)' /\ Ordered(t)'
  <2>1. Linked(t) /\ Started(t) /\ Ordered(t)
    BY DEF IInv, Sessions
  <2>2. CASE t = s
    BY <1>0, <1>1, <2>1, <2>2
       DEF Linked, Started, Ordered, Pending, Serving, Queued, Alive, Gone, Down
  <2>3. CASE t # s
    BY <1>0, <1>1, <2>1, <2>3
       DEF Elsewhere, Linked, Started, Ordered, Pending, Serving, Queued, Alive, Gone, Down
  <2> QED BY <2>2, <2>3
<1>4. Counted'
  BY <1>0, <1>1, SameCount DEF IInv, Down, Gone, Elsewhere
<1> QED BY <1>0, <1>2, <1>3, <1>4, NoTrouble DEF IInv, Sessions

\* The message leaves the queue, and its byte is there for anybody.
LEMMA TakeMessageInv ==
  ASSUME IInv, fault = "none", TakeMessage
  PROVE  IInv'
<1>0. /\ UNCHANGED <<ctl, status, linked, session, sender, early, ahead, stale, fault>>
      /\ at = "loop" /\ queue \in Seq(Addresses) /\ queue # <<>> /\ replies \in Nat
      /\ queue' = Tail(queue) /\ replies' = replies + 1 /\ cur' = Head(queue)
      /\ at' = IF linked[cur'] = "no" THEN "loop" ELSE "callback"
  BY DEF IInv, TypeOK, TakeMessage, http
<1>1. /\ Len(queue') = Len(queue) - 1 /\ Len(queue) \in Nat \ {0} /\ queue' \in Seq(Addresses)
      /\ cur' \in Addresses /\ cur' = queue[1] /\ 1 \in DOMAIN queue
      /\ \A i \in DOMAIN queue' : queue'[i] = queue[i + 1] /\ i + 1 \in DOMAIN queue /\ i + 1 # 1
  BY <1>0
<1>2. TypeOK'
  BY <1>0, <1>1 DEF IInv, TypeOK, EventAt
<1>3. ASSUME NEW t \in Addresses PROVE Linked(t)' /\ Started(t)' /\ Ordered(t)'
  <2>1. Linked(t) /\ Started(t) /\ Ordered(t)
    BY DEF IInv, Sessions
  <2>2. Linked(t)' /\ Started(t)'
    BY <1>0, <2>1 DEF Linked, Started, Serving, Alive, Gone, Down
  <2>3. ASSUME Alive(t), t \notin ahead \cup stale PROVE Ordered(t)'
    <3>1. Pending(t)' => Queued(t)
      BY <1>0, <1>1 DEF Pending, Serving, Queued
    <3>2. \A i, j \in DOMAIN queue' : queue'[i] = t /\ queue'[j] = t => i = j
      <4>1. ASSUME NEW i \in DOMAIN queue', NEW j \in DOMAIN queue', queue'[i] = t, queue'[j] = t
            PROVE  i = j
        <5>1. i + 1 = j + 1
          BY <1>1, <2>1, <2>3, <4>1 DEF Ordered
        <5>2. i \in Nat /\ j \in Nat
          BY <1>1
        <5> QED BY <5>1, <5>2
      <4> QED BY <4>1
    <3>3. ~(Serving(t)' /\ Queued(t)')
      <4>1. ASSUME Serving(t)', NEW i \in DOMAIN queue', queue'[i] = t PROVE FALSE
        <5>1. queue[1] = t /\ queue[i + 1] = t
          BY <1>0, <1>1, <4>1 DEF Serving
        <5> QED BY <1>1, <2>1, <2>3, <4>1, <5>1 DEF Ordered
      <4> QED BY <4>1 DEF Queued
    <3>4. Queued(t) => Pending(t)
      BY DEF Queued, Pending
    <3> QED BY <1>0, <2>1, <2>3, <3>1, <3>2, <3>3, <3>4 DEF Ordered
  <2>4. ~Alive(t) \/ t \in ahead \cup stale => Ordered(t)'
    BY <1>0 DEF Ordered, Alive
  <2> QED BY <2>2, <2>3, <2>4
<1>4. Counted'
  <2>1. Waiting' = Waiting
    BY <1>0 DEF Waiting
  <2> QED BY <1>0, <1>1, <2>1, WaitingFinite DEF IInv, Counted, RepliesAddUp, Down, Gone
<1> QED BY <1>0, <1>2, <1>3, <1>4, NoTrouble DEF IInv, Sessions

\* on_media_read sees an empty buffer only when the sender overtook.
LEMMA ReadInv ==
  ASSUME IInv, fault = "none", Read
  PROVE  IInv'
<1>0. /\ UNCHANGED <<ctl, status, cur, queue, replies, session, sender, early, ahead, stale, fault>>
      /\ at = "callback" /\ at' \in {"send", "loop"} /\ cur \in Addresses /\ Serving(cur)
      /\ linked[cur] # "no"
  BY DEF IInv, TypeOK, Read, http, Serving, Sessions, Linked
<1>1. /\ linked' \in [Addresses -> {"no", "yes", "closing"}]
      /\ \A t \in Addresses : linked'[t] = "no" <=> linked[t] = "no"
  BY <1>0 DEF IInv, TypeOK, Read
<1>3. TypeOK'
  BY <1>0, <1>1 DEF IInv, TypeOK, EventAt
<1>4. ASSUME NEW t \in Addresses PROVE Linked(t)' /\ Started(t)' /\ Ordered(t)'
  <2>1. Linked(t) /\ Started(t) /\ Ordered(t)
    BY DEF IInv, Sessions
  <2> QED BY <1>0, <1>1, <2>1
       DEF Linked, Started, Ordered, Pending, Serving, Queued, Alive, Gone, Down
<1>5. Counted'
  BY <1>0, SameCount DEF IInv, Down, Gone
<1>6. MisuseHasCause' /\ TroubleHasCause'
  BY <1>0, <1>3, <1>4, NoTrouble DEF Sessions
<1> QED BY <1>0, <1>3, <1>4, <1>5, <1>6 DEF IInv, Sessions

\* Bytes that were appended meanwhile, or are being appended, are lost only
\* when the sender overtook.
LEMMA ClearInv ==
  ASSUME IInv, fault = "none", Clear
  PROVE  IInv'
<1>0. /\ UNCHANGED <<ctl, status, cur, queue, replies, linked, sender, early, ahead, stale>>
      /\ at = "send" /\ at' = "loop" /\ cur \in Addresses /\ Serving(cur) /\ linked[cur] # "no"
  BY DEF IInv, TypeOK, Clear, http, Serving, Sessions, Linked
<1>1. /\ session' \in [Addresses -> SessionType]
      /\ session'[cur].media = session[cur].media /\ session'[cur].buf = "empty"
      /\ session'[cur].mgr = session[cur].mgr /\ Elsewhere(cur)
  BY <1>0 DEF IInv, TypeOK, Clear, SessionType, Elsewhere
<1>2. cur \notin ahead \cup stale => session[cur].buf = "data" /\ sender[cur] = "wait"
  BY <1>0 DEF IInv, Sessions, Linked, Ordered, Pending, Alive
<1>3. fault' = "none" \/ (fault' = "moved" /\ cur \in ahead \cup stale)
  BY <1>2 DEF Clear
<1>4. TypeOK'
  BY <1>0, <1>1, <1>3 DEF IInv, TypeOK, SessionType, EventAt
<1>5. ASSUME NEW t \in Addresses PROVE Linked(t)' /\ Started(t)' /\ Ordered(t)'
  <2>1. Linked(t) /\ Started(t) /\ Ordered(t)
    BY DEF IInv, Sessions
  <2>2. CASE t = cur
    BY <1>0, <1>1, <1>2, <2>1, <2>2
       DEF Linked, Started, Ordered, Pending, Serving, Queued, Alive, Gone, Down
  <2>3. CASE t # cur
    BY <1>0, <1>1, <2>1, <2>3
       DEF Elsewhere, Linked, Started, Ordered, Pending, Serving, Queued, Alive, Gone, Down
  <2> QED BY <2>2, <2>3
<1>6. Counted'
  BY <1>0, <1>1, SameCount DEF IInv, Down, Gone, Elsewhere
<1>7. MisuseHasCause' /\ TroubleHasCause'
  BY <1>0, <1>3, <1>4, <1>5, NoTrouble DEF MisuseHasCause, TroubleHasCause, Sessions
<1> QED BY <1>0, <1>4, <1>5, <1>6, <1>7 DEF IInv, Sessions

LEMMA ReadAstrayInv ==
  ASSUME IInv, fault = "none", ReadAstray
  PROVE  IInv'
<1>0. /\ UNCHANGED <<ctl, status, at, cur, queue, replies, linked, session, sender, early, ahead, stale>>
      /\ fault' = "buffer" /\ at = "callback" /\ session[cur].buf = "raw" /\ cur \in Addresses
      /\ linked[cur] # "no"
  BY DEF IInv, TypeOK, ReadAstray, http, event, Dies, Sessions, Linked, Serving
<1>1. TypeOK' /\ Sessions'
  BY <1>0 DEF IInv, TypeOK, Sessions, Linked, Started, Ordered, Pending, Serving, Queued, Alive
<1>2. Counted'
  BY <1>0, SameCount DEF IInv
<1>3. Alive(cur) /\ (cur \in early \/ cur \in stale)
  BY <1>0 DEF IInv, Sessions, Linked, Started, Ordered, Pending, Serving, Alive
<1>4. MisuseHasCause' /\ TroubleHasCause'
  BY <1>0, <1>3 DEF MisuseHasCause, TroubleHasCause, Trouble, Alive
<1> QED BY <1>0, <1>1, <1>2, <1>4 DEF IInv

LEMMA OpenLongInv ==
  ASSUME IInv, fault = "none", OpenLong
  PROVE  IInv'
<1>0. /\ UNCHANGED <<ctl, status, at, cur, queue, replies, linked, session, sender, early, ahead, stale>>
      /\ fault' = "path" /\ at = "loop"
  BY DEF OpenLong, http, event, Dies
<1>1. TypeOK' /\ Sessions'
  BY <1>0 DEF IInv, TypeOK, Sessions, Linked, Started, Ordered, Pending, Serving, Queued, Alive
<1>2. Counted'
  BY <1>0, SameCount DEF IInv
<1>3. MisuseHasCause' /\ TroubleHasCause'
  BY <1>0 DEF MisuseHasCause, TroubleHasCause, Trouble
<1> QED BY <1>0, <1>1, <1>2, <1>3 DEF IInv

LEMMA CloseSocketsInv ==
  ASSUME IInv, fault = "none", CloseSockets
  PROVE  IInv'
<1>0. /\ UNCHANGED <<ctl, status, cur, linked, sender, early, ahead, stale, fault>>
      /\ at = "loop" /\ at' = "closed" /\ queue' = <<>> /\ replies' = 0
  BY DEF CloseSockets, http
<1>1. /\ session' \in [Addresses -> SessionType]
      /\ \A s \in Addresses : /\ session'[s].media = session[s].media
                              /\ session'[s].buf = session[s].buf
                              /\ session'[s].mgr = IF Alive(s) THEN "closed" ELSE session[s].mgr
  BY Released DEF IInv, CloseSockets
<1>2. TypeOK'
  BY <1>0, <1>1 DEF IInv, TypeOK, EventAt, SessionType
<1>3. ASSUME NEW s \in Addresses PROVE Linked(s)' /\ Started(s)' /\ Ordered(s)'
  <2>1. Linked(s)' /\ Started(s)'
    BY <1>0, <1>1 DEF IInv, Sessions, Linked, Started, Serving, Alive, Gone, Down
  <2>2. Ordered(s)'
    BY <1>0, <1>1 DEF IInv, Sessions, Linked, Ordered, Pending, Serving, Queued, Alive
  <2> QED BY <2>1, <2>2
<1>4. Counted'
  <2>1. Waiting' = {}
    BY <1>0, <1>1 DEF IInv, Sessions, Linked, Alive, Waiting
  <2> QED BY <1>0, <2>1, FS_EmptySet DEF Counted, RepliesAddUp
<1> QED BY <1>0, <1>2, <1>3, <1>4, NoTrouble DEF IInv, Sessions

LEMMA CloseConnectionsInv ==
  ASSUME IInv, fault = "none", CloseConnections
  PROVE  IInv'
<1>0. /\ UNCHANGED <<ctl, status, cur, queue, replies, sender, early, ahead, stale, fault>>
      /\ at = "closed" /\ at' = "exited" /\ linked' = [s \in Addresses |-> "no"]
  BY DEF CloseConnections, http
<1>1. /\ session' \in [Addresses -> SessionType]
      /\ \A s \in Addresses : /\ session'[s].media = IF linked[s] = "no" THEN session[s].media ELSE "EXIT"
                              /\ session'[s].buf = session[s].buf
                              /\ session'[s].mgr = session[s].mgr
  BY DEF IInv, TypeOK, CloseConnections, SessionType
<1>2. TypeOK'
  BY <1>0, <1>1 DEF IInv, TypeOK, EventAt, SessionType
<1>3. ASSUME NEW s \in Addresses PROVE Linked(s)' /\ Started(s)' /\ Ordered(s)'
  <2>1. Linked(s)' /\ Started(s)'
    BY <1>0, <1>1 DEF IInv, Sessions, Linked, Started, Serving, Alive, Gone, Down
  <2>2. Ordered(s)'
    BY <1>0, <1>1 DEF IInv, Sessions, Linked, Ordered, Pending, Serving, Queued, Alive
  <2> QED BY <2>1, <2>2
<1>4. Counted'
  BY <1>0, <1>1, SameCount DEF IInv, Down
<1> QED BY <1>0, <1>2, <1>3, <1>4, NoTrouble DEF IInv, Sessions
-----------------------------------------------------------------------------
(***************************************************************************)
(* The threads of the sessions.                                            *)
(***************************************************************************)
\* A thread that sends and takes nothing works on its own session.
LEMMA SenderOnly ==
  ASSUME IInv, NEW s \in Addresses, Elsewhere(s), TypeOK',
         UNCHANGED <<ctl, status, at, cur, linked, queue, replies>>,
         Linked(s)', Started(s)', Ordered(s)',
         (sender'[s] = "wait" /\ session'[s].mgr = "up")
           <=> (sender[s] = "wait" /\ session[s].mgr = "up"),
         fault' = "none" \/ (MisuseHasCause' /\ TroubleHasCause')
  PROVE  IInv'
<1>1. ASSUME NEW t \in Addresses, t # s PROVE Linked(t)' /\ Started(t)' /\ Ordered(t)'
  <2>1. Linked(t) /\ Started(t) /\ Ordered(t)
    BY DEF IInv, Sessions
  <2> QED BY <1>1, <2>1
       DEF Elsewhere, Linked, Started, Ordered, Pending, Serving, Queued, Alive
<1>2. Counted'
  BY SameCount DEF IInv, Elsewhere
<1>3. Sessions'
  BY <1>1 DEF Sessions
<1> QED BY <1>2, <1>3, NoTrouble DEF IInv

\* What is known of a thread that runs.
LEMMA Runs ==
  ASSUME IInv, NEW s \in Addresses, sender[s] # "none"
  PROVE  /\ Alive(s) /\ Linked(s) /\ Started(s) /\ Ordered(s)
         /\ session[s] \in SessionType /\ sender \in [Addresses -> SenderAt]
         /\ session \in [Addresses -> SessionType]
BY DEF IInv, Sessions, Linked, TypeOK, SessionType

LEMMA SendPreInv ==
  ASSUME IInv, fault = "none", NEW s \in Addresses, SendPre(s)
  PROVE  IInv'
<1>0. /\ Others /\ UNCHANGED <<queue, replies, ahead>> /\ sender[s] = "start" /\ Alive(s)
      /\ Linked(s) /\ Started(s) /\ Ordered(s) /\ session[s] \in SessionType
      /\ sender' = [sender EXCEPT ![s] = "loop"]
      /\ UNCHANGED <<ctl, status, at, cur, linked, stale>>
  BY Runs DEF SendPre, Goes, Others, http
<1>1. /\ sender' \in [Addresses -> SenderAt] /\ sender'[s] = "loop"
      /\ \A t \in Addresses : t # s => sender'[t] = sender[t]
  BY <1>0 DEF IInv, TypeOK, SenderAt
<1>2. /\ session' \in [Addresses -> SessionType]
      /\ \A t \in Addresses : t # s => session'[t] = session[t] /\ (t \in early' <=> t \in early)
      /\ session'[s].media = session[s].media /\ session'[s].mgr = session[s].mgr
      /\ early' \subseteq Addresses
      /\ \/ session'[s].buf = "empty" /\ fault' = "none"
         \/ /\ s \in early' /\ at = "register" /\ cur = s
            /\ fault' \in {"none", "callback"}
  <2>1. CASE session' = [session EXCEPT ![s].buf = "empty"] /\ UNCHANGED <<early, fault>>
    BY <2>1 DEF IInv, TypeOK, SessionType
  <2>2. CASE /\ at = "register" /\ cur = s /\ early' = early \cup {s}
             /\ fault' \in {"none", "callback"} /\ UNCHANGED session
    BY <2>2 DEF IInv, TypeOK, SessionType
  <2> QED BY <2>1, <2>2 DEF SendPre
<1>3. TypeOK' /\ Elsewhere(s)
  BY <1>0, <1>1, <1>2 DEF IInv, TypeOK, SessionType, Elsewhere
<1>4. Linked(s)' /\ Started(s)' /\ Ordered(s)'
  BY <1>0, <1>1, <1>2
     DEF Linked, Started, Ordered, Pending, Serving, Queued, Alive
<1>5. fault' = "callback" => MisuseHasCause' /\ TroubleHasCause'
  BY <1>0, <1>2 DEF MisuseHasCause, TroubleHasCause, Trouble
<1> QED BY <1>0, <1>1, <1>2, <1>3, <1>4, <1>5, SenderOnly

LEMMA GetRecordInv ==
  ASSUME IInv, fault = "none", NEW s \in Addresses, GetRecord(s)
  PROVE  IInv'
<1>0. /\ Others /\ UNCHANGED <<queue, replies, session, early, ahead, fault>> /\ sender[s] = "loop"
      /\ Linked(s) /\ Started(s) /\ Ordered(s)
      /\ UNCHANGED <<ctl, status, at, cur, linked, stale>>
  BY Runs DEF GetRecord, Others, http
<1>1. /\ sender' \in [Addresses -> SenderAt] /\ sender'[s] = "append"
      /\ \A t \in Addresses : t # s => sender'[t] = sender[t]
  BY <1>0 DEF IInv, TypeOK, SenderAt, GetRecord, Goes
<1>2. TypeOK' /\ Elsewhere(s)
  BY <1>0, <1>1 DEF IInv, TypeOK, Elsewhere
<1>3. Linked(s)' /\ Started(s)' /\ Ordered(s)'
  BY <1>0, <1>1 DEF Linked, Started, Ordered, Pending, Serving, Queued, Alive
<1> QED BY <1>0, <1>1, <1>2, <1>3, SenderOnly

\* A buffer that is raw at the end belongs to a thread that was early.
LEMMA SendPostInv ==
  ASSUME IInv, fault = "none", NEW s \in Addresses, SendPost(s)
  PROVE  IInv'
<1>0. /\ UNCHANGED <<ctl, status, at, cur, queue, replies, linked>>
      /\ sender[s] = "loop" /\ session[s].media = "EXIT"
      /\ Alive(s) /\ Linked(s) /\ Started(s) /\ Ordered(s)
  BY Runs DEF SendPost, http, event
<1>1. CASE session[s].buf = "raw"
  <2>1. fault' = "buffer" /\ UNCHANGED <<session, sender, early, ahead, stale>> /\ s \in early
    BY <1>0, <1>1 DEF SendPost, Dies, Started
  <2>2. TypeOK' /\ Elsewhere(s) /\ Linked(s)' /\ Started(s)' /\ Ordered(s)'
    BY <1>0, <2>1 DEF IInv, TypeOK, Elsewhere, Linked, Started, Ordered, Pending, Serving, Queued,
                      Alive
  <2>3. MisuseHasCause' /\ TroubleHasCause'
    BY <1>0, <1>1, <2>1 DEF IInv, MisuseHasCause, TroubleHasCause, Trouble, Alive
  <2> QED BY <1>0, <2>1, <2>2, <2>3, SenderOnly
<1>2. CASE session[s].buf # "raw"
  <2>1. /\ session' = [session EXCEPT ![s] = Free] /\ fault' = "none"
        /\ early' = early \ {s} /\ ahead' = ahead \ {s} /\ stale' = stale \ {s}
        /\ sender' = [sender EXCEPT ![s] = "none"] /\ Free \in SessionType
    BY <1>2 DEF SendPost, Goes, Free, SessionType
  <2>2. /\ session' \in [Addresses -> SessionType] /\ session'[s] = Free
        /\ sender' \in [Addresses -> SenderAt] /\ sender'[s] = "none"
        /\ early' \subseteq Addresses /\ ahead' \subseteq Addresses /\ stale' \subseteq Addresses
        /\ s \notin ahead' /\ s \notin stale' /\ Elsewhere(s)
    BY <1>0, <2>1 DEF IInv, TypeOK, SenderAt, SessionType, Elsewhere
  <2>3. TypeOK'
    BY <1>0, <2>1, <2>2 DEF IInv, TypeOK, SessionType
  <2>4. Linked(s)' /\ Started(s)' /\ Ordered(s)'
    BY <1>0, <2>2
       DEF Linked, Started, Ordered, Pending, Serving, Queued, Alive, Free
  <2> QED BY <1>0, <2>1, <2>2, <2>3, <2>4, SenderOnly
<1> QED BY <1>1, <1>2

LEMMA AppendInv ==
  ASSUME IInv, fault = "none", NEW s \in Addresses, Append1(s)
  PROVE  IInv'
<1>0. /\ Others /\ UNCHANGED <<queue, replies, session, early, ahead>> /\ sender[s] = "append"
      /\ Alive(s) /\ Linked(s) /\ Started(s) /\ Ordered(s)
      /\ UNCHANGED <<ctl, status, at, cur, linked, stale>>
  BY Runs DEF Append1, Others, http
<1>1. /\ sender' \in [Addresses -> SenderAt] /\ sender'[s] \in {"append", "loop", "copy"}
      /\ \A t \in Addresses : t # s => sender'[t] = sender[t]
      /\ fault' = "none" \/ (fault' = "buffer" /\ s \in early /\ session[s].buf = "raw")
  BY <1>0 DEF IInv, TypeOK, SenderAt, Append1, Goes, Dies, Started
<1>2. TypeOK' /\ Elsewhere(s)
  BY <1>0, <1>1 DEF IInv, TypeOK, Elsewhere
<1>3. Linked(s)' /\ Started(s)' /\ Ordered(s)'
  BY <1>0, <1>1 DEF Linked, Started, Ordered, Pending, Serving, Queued, Alive
<1>4. fault' = "buffer" => MisuseHasCause' /\ TroubleHasCause'
  <2> SUFFICES ASSUME fault' = "buffer" PROVE MisuseHasCause' /\ TroubleHasCause'
    OBVIOUS
  <2>1. MisuseHasCause'
    BY <1>0, <1>1 DEF MisuseHasCause, Alive
  <2>2. sender'[s] = sender[s]
    BY <1>0, <1>1 DEF Append1, Goes
  <2>3. Trouble' => Trouble
    <3>1. CASE cur = s
      BY <1>0, <1>1, <2>2, <3>1 DEF Trouble
    <3>2. CASE cur # s
      BY <1>0, <1>1, <3>2 DEF Trouble, IInv, TypeOK
    <3> QED BY <3>1, <3>2
  <2> QED BY <1>0, <2>1, <2>3 DEF IInv, TroubleHasCause
<1> QED BY <1>0, <1>1, <1>2, <1>3, <1>4, SenderOnly

\* Whoever appends while its buffer is sent has overtaken.
LEMMA AppendedInv ==
  ASSUME IInv, fault = "none", NEW s \in Addresses, Appended(s)
  PROVE  IInv'
<1>0. /\ Others /\ UNCHANGED <<queue, replies, early, ahead>> /\ sender[s] = "copy"
      /\ Alive(s) /\ Linked(s) /\ Started(s) /\ Ordered(s)
      /\ UNCHANGED <<ctl, status, at, cur, linked, stale>>
  BY Runs DEF Appended, Others, http
<1>1. Sending(s) => s \in ahead \cup stale /\ cur = s
  BY <1>0 DEF Sending, Ordered, Pending, Serving
<1>2. /\ sender' \in [Addresses -> SenderAt] /\ sender'[s] = "broadcast"
      /\ session' \in [Addresses -> SessionType]
      /\ session'[s].media = session[s].media /\ session'[s].mgr = session[s].mgr
      /\ session'[s].buf \in {"data", "more"} /\ (s \notin ahead \cup stale => session'[s].buf = "data")
      /\ \A t \in Addresses : t # s => session'[t] = session[t] /\ sender'[t] = sender[t]
      /\ fault' = "none" \/ (fault' = "moved" /\ Sending(s))
  BY <1>0, <1>1 DEF IInv, TypeOK, SenderAt, SessionType, Appended, Goes
<1>3. TypeOK' /\ Elsewhere(s)
  BY <1>0, <1>2 DEF IInv, TypeOK, SessionType, Elsewhere
<1>4. Linked(s)' /\ Started(s)' /\ Ordered(s)'
  BY <1>0, <1>2 DEF Linked, Started, Ordered, Pending, Serving, Queued, Alive
<1>5. fault' = "moved" => MisuseHasCause' /\ TroubleHasCause'
  BY <1>0, <1>1, <1>2 DEF MisuseHasCause, TroubleHasCause
<1> QED BY <1>0, <1>2, <1>3, <1>4, <1>5, SenderOnly

\* A message joins the queue and its sender those who wait.
LEMMA BroadcastInv ==
  ASSUME IInv, fault = "none", NEW s \in Addresses, Broadcast(s)
  PROVE  IInv'
<1>0. /\ Others /\ UNCHANGED <<replies, session, early, ahead>> /\ sender[s] = "broadcast"
      /\ Alive(s) /\ Linked(s) /\ Started(s) /\ Ordered(s) /\ session[s] \in SessionType
      /\ UNCHANGED <<ctl, status, at, cur, linked, stale>>
  BY Runs DEF Broadcast, Others, http
<1>1. CASE session[s].mgr = "up"
  <2>1. /\ queue' = Append(queue, s) /\ fault' = "none"
        /\ sender' \in [Addresses -> SenderAt] /\ sender'[s] = "wait"
        /\ \A t \in Addresses : t # s => sender'[t] = sender[t]
    BY <1>0, <1>1 DEF Broadcast, Goes, IInv, TypeOK, SenderAt
  <2>2. /\ queue \in Seq(Addresses) /\ queue' \in Seq(Addresses) /\ Len(queue') = Len(queue) + 1
        /\ DOMAIN queue' = DOMAIN queue \cup {Len(queue) + 1} /\ queue'[Len(queue) + 1] = s
        /\ \A i \in DOMAIN queue : queue'[i] = queue[i] /\ i # Len(queue) + 1
    BY <2>1 DEF IInv, TypeOK
  <2>3. TypeOK'
    BY <1>0, <2>1, <2>2 DEF IInv, TypeOK
  <2>4. at \notin Down
    BY <1>0, <1>1 DEF Linked
  <2>5. ASSUME NEW t \in Addresses PROVE Linked(t)' /\ Started(t)' /\ Ordered(t)'
    <3>1. Linked(t) /\ Started(t) /\ Ordered(t)
      BY DEF IInv, Sessions
    <3>2. Linked(t)' /\ Started(t)'
      BY <1>0, <2>1, <3>1 DEF Linked, Started, Serving, Alive
    <3>3. CASE t # s
      <4>1. Queued(t)' <=> Queued(t)
        BY <2>2, <3>3 DEF Queued
      <4>2. Pending(t)' <=> Pending(t)
        BY <1>0, <4>1 DEF Pending, Queued, Serving
      <4>3. ASSUME Alive(t), t \notin ahead \cup stale, NEW i \in DOMAIN queue', NEW j \in DOMAIN queue',
                   queue'[i] = t, queue'[j] = t
            PROVE  i = j
        <5>1. i \in DOMAIN queue /\ j \in DOMAIN queue
          BY <2>2, <3>3, <4>3
        <5>2. queue[i] = t /\ queue[j] = t
          BY <2>2, <4>3, <5>1
        <5> QED BY <3>1, <4>3, <5>1, <5>2 DEF Ordered
      <4>4. (Alive(t)' <=> Alive(t)) /\ (Serving(t)' <=> Serving(t))
        BY <1>0 DEF Alive, Serving
      <4>5. Ordered(t)'
        BY <1>0, <2>1, <3>1, <3>3, <4>1, <4>2, <4>3, <4>4 DEF Ordered
      <4> QED BY <3>2, <4>5
    <3>4. CASE t = s
      <4>1. s \notin ahead \cup stale => ~Pending(s)
        BY <1>0 DEF Ordered
      <4>2. s \notin ahead \cup stale => ~Queued(s) /\ ~Serving(s)
        BY <4>1 DEF Pending, Queued
      <4>3. ASSUME s \notin ahead \cup stale, NEW i \in DOMAIN queue', NEW j \in DOMAIN queue',
                   queue'[i] = s, queue'[j] = s
            PROVE  i = j
        <5>1. i \notin DOMAIN queue /\ j \notin DOMAIN queue
          BY <2>2, <4>2, <4>3 DEF Queued
        <5> QED BY <2>2, <5>1
      <4>4. Ordered(s)'
        BY <1>0, <1>1, <2>1, <4>2, <4>3 DEF Ordered, Serving, Pending
      <4> QED BY <3>2, <3>4, <4>4
    <3> QED BY <3>2, <3>3, <3>4
  <2>6. Counted'
    <3>1. Waiting' = Waiting \cup {s} /\ s \notin Waiting
      BY <1>0, <1>1, <2>1 DEF Waiting
    <3>2. Cardinality(Waiting') = Cardinality(Waiting) + 1
      BY <3>1, WaitingFinite, FS_AddElement
    <3> QED BY <1>0, <2>2, <2>4, <3>2, WaitingFinite DEF IInv, TypeOK, Counted, RepliesAddUp
  <2> QED BY <1>0, <2>1, <2>3, <2>5, <2>6, NoTrouble DEF IInv, Sessions
<1>2. CASE session[s].mgr # "up"
  <2>1. /\ queue' = queue
        /\ sender' \in [Addresses -> SenderAt]
        /\ \A t \in Addresses : t # s => sender'[t] = sender[t]
        /\ \/ sender'[s] = "loop" /\ fault' = "none"
           \/ sender'[s] = "broadcast" /\ fault' = "manager" /\ session[s].mgr = "freed"
    BY <1>0, <1>2 DEF Broadcast, Goes, Dies, IInv, TypeOK, SenderAt, SessionType
  <2>2. TypeOK' /\ Elsewhere(s)
    BY <1>0, <2>1 DEF IInv, TypeOK, Elsewhere
  <2>3. Linked(s)' /\ Started(s)' /\ Ordered(s)'
    BY <1>0, <2>1 DEF Linked, Started, Ordered, Pending, Serving, Queued, Alive
  <2>4. fault' = "manager" => MisuseHasCause' /\ TroubleHasCause'
    <3> SUFFICES ASSUME fault' = "manager" PROVE MisuseHasCause' /\ TroubleHasCause'
      OBVIOUS
    <3>1. MisuseHasCause'
      BY <1>0, <2>1 DEF MisuseHasCause, Linked
    <3>2. Trouble' => Trouble
      BY <1>0, <2>1 DEF Trouble, IInv, TypeOK
    <3> QED BY <1>0, <3>1, <3>2 DEF IInv, TroubleHasCause
  <2> QED BY <1>0, <1>2, <2>1, <2>2, <2>3, <2>4, SenderOnly
<1> QED BY <1>1, <1>2

\* A byte is taken, and who takes it while its message is pending overtakes.
LEMMA TakeReplyInv ==
  ASSUME IInv, fault = "none", NEW s \in Addresses, NEW to \in {"append", "loop"}, TakeReply(s, to)
  PROVE  IInv'
<1>0. /\ Others /\ UNCHANGED <<queue, session, early, fault>> /\ sender[s] = "wait"
      /\ session[s].mgr = "up" /\ replies \in Nat \ {0} /\ replies' = replies - 1
      /\ ahead' = IF Pending(s) THEN ahead \cup {s} ELSE ahead
      /\ Alive(s) /\ Linked(s) /\ Started(s) /\ Ordered(s) /\ queue \in Seq(Addresses)
      /\ UNCHANGED <<ctl, status, at, cur, linked, stale>>
  BY Runs DEF TakeReply, Others, http, IInv, TypeOK
<1>1. /\ sender' \in [Addresses -> SenderAt] /\ sender'[s] = to
      /\ \A t \in Addresses : t # s => sender'[t] = sender[t]
  BY DEF TakeReply, Goes, IInv, TypeOK, SenderAt
<1>2. TypeOK'
  BY <1>0, <1>1 DEF IInv, TypeOK
<1>3. ASSUME NEW t \in Addresses PROVE Linked(t)' /\ Started(t)' /\ Ordered(t)'
  <2>1. Linked(t) /\ Started(t) /\ Ordered(t)
    BY DEF IInv, Sessions
  <2>2. CASE t = s
    BY <1>0, <1>1, <2>1, <2>2 DEF Linked, Started, Ordered, Pending, Serving, Queued, Alive
  <2>3. CASE t # s
    BY <1>0, <1>1, <2>1, <2>3 DEF Linked, Started, Ordered, Pending, Serving, Queued, Alive
  <2> QED BY <2>2, <2>3
<1>4. Counted'
  <2>1. Waiting' = Waiting \ {s} /\ s \in Waiting
    BY <1>0, <1>1 DEF Waiting
  <2>2. Cardinality(Waiting') = Cardinality(Waiting) - 1
    BY <2>1, WaitingFinite, FS_RemoveElement
  <2>3. at \notin Down
    BY <1>0 DEF Linked
  <2> QED BY <1>0, <2>2, <2>3, WaitingFinite DEF IInv, Counted, RepliesAddUp
<1> QED BY <1>0, <1>2, <1>3, <1>4, NoTrouble DEF IInv, Sessions

LEMMA ReplyFailsInv ==
  ASSUME IInv, fault = "none", NEW s \in Addresses, ReplyFails(s)
  PROVE  IInv'
<1>0. /\ Others /\ UNCHANGED <<queue, replies, session, early, ahead, fault>> /\ sender[s] = "wait"
      /\ session[s].mgr # "up" /\ Linked(s) /\ Started(s) /\ Ordered(s)
      /\ UNCHANGED <<ctl, status, at, cur, linked, stale>>
  BY Runs DEF ReplyFails, Others, http
<1>1. /\ sender' \in [Addresses -> SenderAt] /\ sender'[s] = "loop"
      /\ \A t \in Addresses : t # s => sender'[t] = sender[t]
  BY <1>0 DEF IInv, TypeOK, SenderAt, ReplyFails, Goes
<1>2. TypeOK' /\ Elsewhere(s)
  BY <1>0, <1>1 DEF IInv, TypeOK, Elsewhere
<1>3. Linked(s)' /\ Started(s)' /\ Ordered(s)'
  BY <1>0, <1>1 DEF Linked, Started, Ordered, Pending, Serving, Queued, Alive
<1> QED BY <1>0, <1>1, <1>2, <1>3, SenderOnly

LEMMA StutterInv == IInv /\ UNCHANGED vars => IInv'
<1> SUFFICES ASSUME IInv, UNCHANGED vars PROVE IInv'
  OBVIOUS
<1>1. UNCHANGED <<ctl, status, at, cur, queue, replies, linked, session, sender, early, ahead, stale,
                  fault>>
  BY DEF vars, http, event
<1>2. TypeOK' /\ Sessions'
  BY <1>1 DEF IInv, TypeOK, Sessions, Linked, Started, Ordered, Pending, Serving, Queued, Alive
<1>3. Counted'
  BY <1>1, SameCount DEF IInv
<1>4. MisuseHasCause' /\ TroubleHasCause'
  BY <1>1 DEF IInv, MisuseHasCause, TroubleHasCause, Trouble, Alive
<1> QED BY <1>1, <1>2, <1>3, <1>4 DEF IInv
-----------------------------------------------------------------------------
\* For any finite set of addresses, web-http.c and web-media.c keep connections,
\* sessions, messages and bytes in step.
THEOREM Inductive == Spec => []IInv
<1>1. IInv /\ [Next]_vars => IInv'
  <2> SUFFICES ASSUME IInv, [Next]_vars PROVE IInv'
    OBVIOUS
  <2>1. CASE UNCHANGED vars
    BY <2>1, StutterInv
  <2>2. CASE fault = "none" /\ (Start \/ Stop \/ Join \/ OpenLong)
    BY <2>2, StartStopInv, JoinInv, OpenLongInv
  <2>3. CASE fault = "none" /\ Poll
    BY <2>3, BindInv, RegisterInv, TakeMessageInv, ReadInv, ClearInv, ReadAstrayInv,
       CloseSocketsInv, CloseConnectionsInv DEF Poll
  <2>4. ASSUME fault = "none", NEW s \in Addresses, Open(s) \/ Close(s) \/ ReplyFails(s) PROVE IInv'
    BY <2>4, OpenInv, CloseInv, ReplyFailsInv
  <2>5. ASSUME fault = "none", NEW s \in Addresses, Send(s) PROVE IInv'
    <3>1. CASE SendPre(s) \/ GetRecord(s) \/ SendPost(s)
      BY <2>5, <3>1, SendPreInv, GetRecordInv, SendPostInv
    <3>2. CASE Append1(s) \/ Appended(s) \/ Broadcast(s)
      BY <2>5, <3>2, AppendInv, AppendedInv, BroadcastInv
    <3>3. CASE TakeReply(s, "append") \/ TakeReply(s, "loop")
      BY <2>5, <3>3, TakeReplyInv
    <3> QED BY <2>5, <3>1, <3>2, <3>3 DEF Send
  <2> QED BY <2>1, <2>2, <2>3, <2>4, <2>5 DEF Next
<1> QED BY InitInv, <1>1, PTL DEF Spec

\* A connection has a session that plays and whose thread runs; a session that
\* no connection has was told to end.
THEOREM SessionsLinkedAlways == Spec => []SessionsLinked
<1>1. IInv => SessionsLinked
  BY DEF IInv, Sessions, Linked, SessionsLinked, Alive
<1> QED BY Inductive, <1>1, PTL

\* Whoever takes the byte of another, none is short while the server runs.
THEOREM RepliesAddUpAlways == Spec => []RepliesAddUp
<1>1. IInv => RepliesAddUp
  BY DEF IInv, Counted
<1> QED BY Inductive, <1>1, PTL

\* A raw callback is used only by a thread that was faster than regcallback, a
\* raw buffer only in the session of such a thread or for a message of the session
\* that had its address before; the connections of a freed server are used by
\* threads that were told to end only.
THEOREM MisuseHasCauseAlways == Spec => []MisuseHasCause
<1>1. IInv => MisuseHasCause
  BY DEF IInv
<1> QED BY Inductive, <1>1, PTL

\* The sender and the event thread meet in a buffer, or an empty one is taken for
\* the end of the stream, only in a session whose own sender took a byte before
\* its message was served, or which was opened while a message of the session that
\* had its address before was queued.
THEOREM TroubleHasCauseAlways == Spec => []TroubleHasCause
<1>1. IInv => TroubleHasCause
  BY DEF IInv
<1> QED BY Inductive, <1>1, PTL
=============================================================================
