----------------------------- MODULE RtspProofs -----------------------------
(***************************************************************************)
(* What keeps the sessions of the RTSP server apart from the threads that  *)
(* send and the handlers that use them, for any clients and any number of  *)
(* starts of the server.                                                   *)
(*                                                                         *)
(* Every session is Consistent with its thread and with what its client    *)
(* did; and at any time it is Owned: by the hash, or by the one handler or *)
(* the uninit that took it out of the hash and is joining its thread.      *)
(***************************************************************************)
EXTENDS RtspServer, TLAPS

SessionType == [st : {"none", "live", "freed"}, status : {"SETUP", "PLAY", "EXIT"},
                transport : Transports]
SenderType == [at : {"none", "loop", "packet", "sending", "exited"},
               on : Transports \cup {"freed"}, current : BOOLEAN]

Typed ==
  /\ ctl \in {"off", "on"} \cup Stopping /\ victim \in Keys /\ gen \in 0 .. MaxServers
  /\ table \in [Servers -> SUBSET Keys]
  /\ conn \in [Keys -> 0 .. gen] /\ handler \in [Keys -> HandlerAt]
  /\ session \in [Sessions -> SessionType]
  /\ sender \in [Sessions -> SenderType]
  /\ odd \in [Sessions -> SUBSET Befalls]
  /\ fault = NoFault \/ fault \in Faults \X Sessions

Consistent(s) ==
  /\ ~Live(s) => session[s].transport = "none"
  /\ sender[s].at = "none" <=> session[s].st = "none"
  /\ sender[s].at \in {"none", "exited"} \/ Live(s)
  /\ session[s].status = "SETUP" => sender[s].at \notin {"packet", "sending"}
  /\ sender[s].at = "sending" <=> sender[s].on # "none"
  /\ session[s].transport = "none" /\ (session[s].status = "PLAY"
                                       \/ sender[s].at \in {"packet", "sending"}) =>
       odd[s] \cap Unready # {}
  /\ sender[s].on # "none" /\ ~sender[s].current => "reset" \in odd[s]
  /\ sender[s].on = "freed" => "reset" \in odd[s]
  /\ session[s].transport = "cut" \/ sender[s].on = "cut" => "left" \in odd[s]

Owned(s) ==
  /\ s[2] \in table[s[1]] => Live(s)
  /\ Live(s) => \/ s[2] \in table[s[1]] /\ Tended(s[1])
                \/ S(s[2]) = s /\ handler[s[2]] = "join"
                \/ s = <<gen, victim>> /\ ctl = "join"
                \/ "late" \in odd[s]

\* Where the handlers and uninit are.
Places ==
  /\ \A k \in Keys : conn[k] = 0 => handler[k] = "idle"
  /\ \A k \in Keys : handler[k] = "join" => k \notin table[conn[k]]
  /\ ctl = "join" => victim \notin table[gen]
  /\ ctl # "off" => gen # 0

\* Until the server is stopped, what a handler found is still there.
Using == {"touch", "channel", "swap", "play"}
Found == \A k \in Keys : handler[k] \in Using /\ conn[k] = gen /\ ctl = "on"
                           => Live(S(k))

IInv ==
  /\ Typed /\ Places /\ Found
  /\ \A s \in Sessions : Consistent(s) /\ Owned(s)
  /\ HandlersSafe /\ StrikesHaveCause
-----------------------------------------------------------------------------
LEMMA InitInv == Init => IInv
<1> SUFFICES ASSUME Init PROVE IInv
  OBVIOUS
<1>1. NoSession \in SessionType /\ NoSender \in SenderType
  BY DEF NoSession, NoSender, SessionType, SenderType, Transports
<1>2. Typed
  BY <1>1, RtspAssumption DEF Init, Typed, HandlerAt
<1>3. Places /\ Found
  BY DEF Init, Places, Found
<1>4. \A s \in Sessions : Consistent(s) /\ Owned(s)
  BY DEF Init, Consistent, Owned, Live, NoSession, NoSender, Sessions
<1>5. HandlersSafe /\ StrikesHaveCause
  BY DEF Init, HandlersSafe, StrikesHaveCause, NoFault
<1> QED BY <1>2, <1>3, <1>4, <1>5 DEF IInv

\* A pair names a session of that server.
LEMMA Pairs ==
  /\ \A s \in Sessions : s[1] \in Servers /\ s[2] \in Keys /\ s = <<s[1], s[2]>>
  /\ \A g \in Servers, k \in Keys :
       <<g, k>> \in Sessions /\ <<g, k>>[1] = g /\ <<g, k>>[2] = k
BY DEF Sessions

\* A client that is connected, and the session that its requests are about.
LEMMA ClientSession ==
  ASSUME Typed, NEW k \in Keys, conn[k] # 0
  PROVE  conn[k] \in Servers /\ conn[k] <= gen /\ S(k) \in Sessions
         /\ S(k)[1] = conn[k] /\ S(k)[2] = k
<1>1. conn[k] \in Servers /\ conn[k] <= gen
  BY RtspAssumption DEF Typed, Servers
<1> QED BY <1>1, Pairs DEF S

\* The faults are history: they do not change in a step that strikes nobody.
NoStrike == fault' = NoFault
LEMMA NoStrikeSafe == NoStrike => HandlersSafe' /\ StrikesHaveCause'
BY DEF NoStrike, NoFault, HandlersSafe, StrikesHaveCause

\* A step that touches one session.
Only(s) ==
  \A t \in Sessions : t # s =>
    session'[t] = session[t] /\ sender'[t] = sender[t] /\ odd'[t] = odd[t]
LEMMA OnlyConsistent ==
  ASSUME \A t \in Sessions : Consistent(t), NEW s \in Sessions, Only(s), Consistent(s)'
  PROVE  \A t \in Sessions : Consistent(t)'
<1> SUFFICES ASSUME NEW t \in Sessions, t # s PROVE Consistent(t)'
  OBVIOUS
<1> QED BY DEF Only, Consistent, Live
-----------------------------------------------------------------------------
(***************************************************************************)
(* uninit, and the clients.                                                *)
(***************************************************************************)
\* Steps of the request thread, and a client that connects, leave every
\* session alone.
LEMMA ServerInv ==
  ASSUME IInv, fault = NoFault,
         Start \/ Unlisten \/ TakeLock \/ Unlock \/ FreeServer \/ \E k \in Keys : Connect(k)
  PROVE  IInv'
<1>0. /\ UNCHANGED <<table, handler, session, sender, odd, victim, fault>> /\ Typed
      /\ MaxServers \in Nat /\ gen \in Nat
  BY RtspAssumption DEF IInv, Typed, Start, Unlisten, TakeLock, Unlock, FreeServer, Connect, server
<1>1. /\ \A k \in Keys : conn'[k] = conn[k] \/ (conn[k] = 0 /\ conn'[k] = gen)
      /\ conn' \in [Keys -> 0 .. gen'] /\ gen' \in 0 .. MaxServers
  <2>1. CASE \E k \in Keys : Connect(k)
    BY <1>0, <2>1 DEF Connect, server, Typed
  <2>2. CASE Start
    BY <1>0, <2>2 DEF Start, Typed
  <2>3. CASE Unlisten \/ TakeLock \/ Unlock \/ FreeServer
    BY <1>0, <2>3 DEF Unlisten, TakeLock, Unlock, FreeServer, Typed
  <2> QED BY <2>1, <2>2, <2>3
<1>2. ctl \notin {"join"} /\ ctl' \in {"off", "on"} \cup (Stopping \ {"join"})
      /\ (ctl' # "off" => gen' # 0)
  <2>1. CASE \E k \in Keys : Connect(k)
    BY <1>0, <2>1 DEF Connect, server, IInv, Places
  <2>2. CASE ~\E k \in Keys : Connect(k)
    BY <1>0, <2>2 DEF Start, Unlisten, TakeLock, Unlock, FreeServer, Stopping, IInv, Places
  <2> QED BY <2>1, <2>2
<1>3. Typed'
  BY <1>0, <1>1, <1>2 DEF Typed
<1>4. Places'
  BY <1>0, <1>1, <1>2 DEF IInv, Places
<1>5. Found'
  <2> SUFFICES ASSUME NEW k \in Keys, handler[k] \in Using,
                      conn'[k] = gen', ctl' = "on"
               PROVE  Live(S(k))'
    BY <1>0 DEF Found
  <2>1. conn[k] # 0 /\ conn'[k] = conn[k]
    BY <1>0, <1>1 DEF IInv, Places, Using
  <2>2. ~Start
    BY <1>0, <2>1, ClientSession DEF Start, IInv
  <2>3. ctl = "on" /\ gen' = gen
    BY <2>2 DEF Unlisten, TakeLock, Unlock, FreeServer, Connect, server
  <2> QED BY <1>0, <2>1, <2>3 DEF IInv, Found, Live, S
<1>6. \A s \in Sessions : Consistent(s)' /\ Owned(s)'
  <2> SUFFICES ASSUME NEW s \in Sessions PROVE Consistent(s)' /\ Owned(s)'
    OBVIOUS
  <2>1. Consistent(s)'
    BY <1>0 DEF IInv, Consistent, Live
  <2>2. S(s[2]) = s /\ handler[s[2]] = "join" => S(s[2])' = s
    BY <1>1, Pairs DEF IInv, Places, S
  <2>3. s[2] \in table[s[1]] /\ Tended(s[1]) => Tended(s[1])'
    <3>1. CASE \E k \in Keys : Connect(k)
      BY <3>1 DEF Connect, server, Tended
    <3>2. CASE Start \/ Unlisten \/ TakeLock \/ FreeServer
      BY <3>2 DEF Start, Unlisten, TakeLock, FreeServer, Tended
    <3>3. CASE Unlock
      BY <3>3 DEF Unlock, Tended
    <3> QED BY <3>1, <3>2, <3>3
  <2>4. Owned(s)
    BY DEF IInv
  <2> QED BY <1>0, <1>2, <2>1, <2>2, <2>3, <2>4 DEF Owned, Live
<1> QED BY <1>0, <1>3, <1>4, <1>5, <1>6, NoStrikeSafe DEF IInv, NoStrike

LEMMA DisconnectInv ==
  ASSUME IInv, fault = NoFault, NEW k \in Keys, Disconnect(k)
  PROVE  IInv'
<1>0. /\ Typed /\ conn[k] # 0 /\ handler[k] = "idle" /\ Consistent(S(k)) /\ S(k) \in Sessions
      /\ UNCHANGED <<ctl, victim, gen, table, handler, fault>>
  BY ClientSession DEF IInv, Disconnect, server
<1>1. PICK s \in Sessions : s = S(k)
  BY <1>0
<1>2. /\ conn' = [conn EXCEPT ![k] = 0]
      /\ session' = [session EXCEPT ![s].transport = Cut(@)]
      /\ sender' = [sender EXCEPT ![s].on = Cut(@)]
      /\ IF "tcp" \in {session[s].transport, sender[s].on}
         THEN odd' = [odd EXCEPT ![s] = @ \cup {"left"}] ELSE odd' = odd
  BY <1>1 DEF Disconnect, Odd
<1>3. /\ session[s] \in SessionType /\ sender[s] \in SenderType
      /\ odd[s] \in SUBSET Befalls /\ gen \in Nat
  BY <1>0 DEF Typed
<1>4. /\ session'[s].st = session[s].st /\ session'[s].status = session[s].status
      /\ session'[s].transport = Cut(session[s].transport)
      /\ session' \in [Sessions -> SessionType]
  BY <1>0, <1>2, <1>3 DEF Typed, SessionType, Cut, Transports
<1>5. /\ sender'[s].at = sender[s].at /\ sender'[s].on = Cut(sender[s].on)
      /\ sender'[s].current = sender[s].current
      /\ sender' \in [Sessions -> SenderType]
  BY <1>0, <1>2, <1>3 DEF Typed, SenderType, Cut, Transports
<1>6. /\ odd' \in [Sessions -> SUBSET Befalls] /\ odd[s] \subseteq odd'[s]
      /\ "tcp" \in {session[s].transport, sender[s].on} => "left" \in odd'[s]
  BY <1>0, <1>2, <1>3 DEF Typed, Befalls
<1>7. Only(s) /\ \A t \in Sessions : Live(t)' <=> Live(t)
  BY <1>0, <1>2, <1>4 DEF Typed, Only, Live
<1>8. \A t \in Sessions : Consistent(t)'
  <2>1. Consistent(s)'
    BY <1>0, <1>1, <1>4, <1>5, <1>6, <1>7 DEF Consistent, Cut
  <2> QED BY <1>7, <2>1, OnlyConsistent DEF IInv
<1>9. Typed' /\ Places'
  BY <1>0, <1>2, <1>4, <1>5, <1>6 DEF Typed, IInv, Places
<1>10. \A j \in Keys : handler[j] # "idle" => S(j)' = S(j) /\ j # k
  BY <1>0, <1>2 DEF S, Typed
<1>11. Found'
  <2> SUFFICES ASSUME NEW j \in Keys, handler[j] \in Using,
                      conn'[j] = gen, ctl = "on"
               PROVE  Live(S(j))'
    BY <1>0 DEF Found
  <2>1. handler[j] # "idle" /\ j # k /\ conn'[j] = conn[j] /\ conn[j] # 0
    BY <1>0, <1>2, <1>10 DEF IInv, Places, Typed, Using
  <2>2. Live(S(j)) /\ S(j) \in Sessions
    BY <1>0, <2>1, ClientSession DEF IInv, Found
  <2> QED BY <1>7, <1>10, <2>1, <2>2 DEF Live
<1>12. \A t \in Sessions : Owned(t)'
  <2> SUFFICES ASSUME NEW t \in Sessions PROVE Owned(t)'
    OBVIOUS
  <2>1. Owned(t) /\ t[2] \in Keys /\ (Tended(t[1])' <=> Tended(t[1]))
    BY <1>0, Pairs DEF IInv, Tended
  <2>2. "late" \in odd[t] => "late" \in odd'[t]
    BY <1>6, <1>7 DEF Only
  <2> QED BY <1>0, <1>7, <1>10, <2>1, <2>2 DEF Owned
<1> QED BY <1>0, <1>8, <1>9, <1>11, <1>12, NoStrikeSafe DEF IInv, NoStrike

\* uninit takes a session out of the hash, under the lock.
LEMMA StopSessionInv ==
  ASSUME IInv, fault = NoFault, StopSession
  PROVE  IInv'
<1>0. /\ Typed /\ Places /\ ctl = "pick" /\ ctl' = "join" /\ gen \in Servers
      /\ UNCHANGED <<gen, conn, handler, sender, odd, fault>>
  BY RtspAssumption DEF IInv, StopSession, Places, Typed, Servers
<1>1. PICK k \in table[gen] : /\ victim' = k
                              /\ table' = [table EXCEPT ![gen] = @ \ {k}]
                              /\ session' = [session EXCEPT ![<<gen, k>>].status = "EXIT"]
  BY DEF StopSession
<1>2. k \in Keys /\ <<gen, k>> \in Sessions /\ <<gen, k>>[1] = gen /\ <<gen, k>>[2] = k
  BY <1>0, <1>1, Pairs DEF Typed
<1>3. PICK s \in Sessions : s = <<gen, k>>
  BY <1>2
<1>4. /\ session' = [session EXCEPT ![s].status = "EXIT"] /\ session[s] \in SessionType
      /\ sender[s] \in SenderType
  BY <1>0, <1>1, <1>3 DEF Typed
<1>5. /\ session'[s].st = session[s].st /\ session'[s].status = "EXIT"
      /\ session'[s].transport = session[s].transport
      /\ session' \in [Sessions -> SessionType]
  BY <1>0, <1>4 DEF Typed, SessionType
<1>6. Only(s) /\ \A t \in Sessions : Live(t)' <=> Live(t)
  BY <1>0, <1>4, <1>5 DEF Typed, Only, Live
<1>7. \A t \in Sessions : Consistent(t)'
  <2>1. Consistent(s)
    BY DEF IInv
  <2>2. Consistent(s)'
    BY <1>0, <1>5, <1>6, <2>1 DEF Consistent
  <2> QED BY <1>6, <2>2, OnlyConsistent DEF IInv
<1>8. /\ table' \in [Servers -> SUBSET Keys] /\ k \notin table'[gen]
      /\ \A g \in Servers : table'[g] \subseteq table[g]
      /\ \A t \in Sessions : t # s /\ t[2] \in table[t[1]] => t[2] \in table'[t[1]]
  BY <1>0, <1>1, <1>2, <1>3, Pairs DEF Typed
<1>9. Typed'
  BY <1>0, <1>1, <1>2, <1>5, <1>8 DEF Typed, Stopping
<1>10. Places'
  <2>1. \A j \in Keys : handler[j] = "join" => j \notin table'[conn[j]]
    BY <1>0, <1>8, ClientSession DEF Places
  <2> QED BY <1>0, <1>1, <1>8, <2>1 DEF Places
<1>11. Found'
  BY <1>0 DEF Found
<1>12. ASSUME NEW t \in Sessions PROVE Owned(t)'
  <2>1. Owned(t) /\ S(t[2])' = S(t[2]) /\ Tended(t[1])' = Tended(t[1])
    BY <1>0 DEF IInv, S, Tended
  <2>2. t[2] \in table'[t[1]] => t[2] \in table[t[1]]
    BY <1>8, Pairs
  <2> QED BY <1>0, <1>1, <1>3, <1>6, <1>8, <2>1, <2>2 DEF Owned
<1> QED BY <1>0, <1>7, <1>9, <1>10, <1>11, <1>12, NoStrikeSafe DEF IInv, NoStrike

\* Freeing a session that has lost its place in the hash and whose thread ended.
LEMMA FreeConsistent ==
  ASSUME IInv, NEW s \in Sessions, sender[s].at = "exited", Freeing(s),
         UNCHANGED <<sender, odd>>
  PROVE  /\ session' \in [Sessions -> SessionType] /\ ~Live(s)'
         /\ \A t \in Sessions : Consistent(t)' /\ (t # s => (Live(t)' <=> Live(t)))
<1>1. [NoSession EXCEPT !.st = "freed"] \in SessionType
  BY DEF NoSession, SessionType, Transports
<1>2. /\ session'[s] = [NoSession EXCEPT !.st = "freed"]
      /\ \A t \in Sessions : t # s => session'[t] = session[t]
      /\ session' \in [Sessions -> SessionType]
  BY <1>1 DEF IInv, Typed, Freeing
<1>3. session'[s].st = "freed" /\ session'[s].status = "SETUP" /\ session'[s].transport = "none"
  BY <1>2 DEF NoSession
<1>4. Consistent(s)' /\ ~Live(s)'
  BY <1>3 DEF IInv, Consistent, Live
<1>5. Only(s)
  BY <1>2 DEF Only
<1> QED BY <1>2, <1>4, <1>5, OnlyConsistent DEF IInv, Live

LEMMA JoinSessionInv ==
  ASSUME IInv, fault = NoFault, JoinSession
  PROVE  IInv'
<1>0. /\ Typed /\ Places /\ ctl = "join" /\ ctl' = "pick" /\ gen \in Servers /\ victim \in Keys
      /\ UNCHANGED <<gen, victim, table, conn, handler, sender, odd, fault>>
  BY RtspAssumption DEF IInv, JoinSession, Places, Typed, Servers
<1>1. PICK s \in Sessions : s = <<gen, victim>> /\ s[1] = gen /\ s[2] = victim
  BY <1>0, Pairs
<1>2. sender[s].at = "exited" /\ Freeing(s)
  BY <1>1 DEF JoinSession
<1>3. /\ session' \in [Sessions -> SessionType] /\ ~Live(s)'
      /\ \A t \in Sessions : Consistent(t)' /\ (t # s => (Live(t)' <=> Live(t)))
  BY <1>0, <1>2, FreeConsistent
<1>4. Typed' /\ Places' /\ Found'
  BY <1>0, <1>3 DEF Typed, Places, Found, Stopping
<1>5. ASSUME NEW t \in Sessions PROVE Owned(t)'
  <2>1. CASE t = s
    BY <1>0, <1>1, <1>3, <2>1 DEF Places, Owned
  <2>2. CASE t # s
    <3>1. Owned(t) /\ S(t[2])' = S(t[2]) /\ Tended(t[1])' = Tended(t[1])
      BY <1>0 DEF IInv, S, Tended
    <3> QED BY <1>0, <1>1, <1>3, <2>2, <3>1 DEF Owned
  <2> QED BY <2>1, <2>2
<1> QED BY <1>0, <1>3, <1>4, <1>5, NoStrikeSafe DEF IInv, NoStrike
-----------------------------------------------------------------------------
(***************************************************************************)
(* The handlers.                                                           *)
(***************************************************************************)
\* What is not the business of a handler.
Handlers == UNCHANGED <<ctl, victim, gen, conn>>

\* A handler goes from one place to another, and only that: it found what it
\* goes to use, or has no more use for it.
LEMMA GoesInv ==
  ASSUME IInv, fault = NoFault, NEW k \in Keys, NEW to \in HandlerAt \ {"join"}, Handlers, Goes(k, to),
         UNCHANGED <<table, fault>>, conn[k] # 0, handler[k] # "join",
         session' \in [Sessions -> SessionType], sender' \in [Sessions -> SenderType],
         odd' \in [Sessions -> SUBSET Befalls],
         \A t \in Sessions : Consistent(t)' /\ (Live(t)' <=> Live(t))
                              /\ ("late" \in odd[t] => "late" \in odd'[t]),
         to \in Using /\ conn[k] = gen /\ ctl = "on" => Live(S(k))
  PROVE  IInv'
<1>0. /\ Typed /\ Places /\ Found /\ S(k) \in Sessions
      /\ handler' = [handler EXCEPT ![k] = to] /\ \A j \in Keys : S(j)' = S(j)
  BY ClientSession DEF IInv, Goes, Handlers, S
<1>1. handler'[k] = to /\ \A j \in Keys : j # k => handler'[j] = handler[j]
  BY <1>0 DEF Typed
<1>2. Typed'
  BY <1>0 DEF Typed, Handlers
<1>3. Places'
  BY <1>0, <1>1 DEF Places, Handlers
<1>4. Found'
  <2> SUFFICES ASSUME NEW j \in Keys, handler'[j] \in Using,
                      conn[j] = gen, ctl = "on"
               PROVE  Live(S(j))'
    BY DEF Found, Handlers
  <2>1. Live(S(j)) /\ S(j) \in Sessions
    <3>1. CASE j = k
      BY <1>0, <1>1, <3>1 DEF Handlers
    <3>2. CASE j # k
      BY <1>0, <1>1, <3>2, ClientSession DEF Found, Places
    <3> QED BY <3>1, <3>2
  <2>2. PICK t \in Sessions : t = S(j)
    BY <2>1
  <2> QED BY <1>0, <2>1, <2>2 DEF Live
<1>5. ASSUME NEW t \in Sessions PROVE Owned(t)'
  <2>1. Owned(t) /\ t[2] \in Keys /\ Tended(t[1])' = Tended(t[1])
    BY Pairs DEF IInv, Tended, Handlers
  <2> QED BY <1>0, <1>1, <2>1 DEF Owned, Handlers
<1> QED BY <1>2, <1>3, <1>4, <1>5, NoStrikeSafe DEF IInv, NoStrike

\* Requests that only look, and the end of a request.
LEMMA LooksInv ==
  ASSUME IInv, fault = NoFault, NEW k \in Keys, Setup(k) \/ Play(k) \/ Touch(k) \/ Channel(k),
         fault' = NoFault
  PROVE  IInv'
<1>0. /\ Handlers /\ UNCHANGED <<table, session, sender, odd, fault>>
      /\ handler[k] \in {"idle", "touch", "channel"} /\ conn[k] # 0
  <2>1. CASE Setup(k) \/ Play(k) \/ Touch(k)
    BY <2>1 DEF Setup, Play, Touch, Looks, Uses, server, Handlers, IInv, Places
  <2>2. CASE Channel(k)
    BY <2>2 DEF Channel, server, Handlers, IInv, Places
  <2> QED BY <2>1, <2>2
<1>1. /\ session' \in [Sessions -> SessionType] /\ sender' \in [Sessions -> SenderType]
      /\ odd' \in [Sessions -> SUBSET Befalls]
      /\ \A t \in Sessions : Consistent(t)' /\ (Live(t)' <=> Live(t))
  BY <1>0 DEF IInv, Typed, Consistent, Live
<1>2. CASE Touch(k)
  <2>1. "idle" \in HandlerAt \ {"join"} /\ "idle" \notin Using
    BY DEF HandlerAt, Using
  <2>2. Goes(k, "idle")
    BY <1>2 DEF Touch
  <2> QED BY <1>0, <1>1, <2>1, <2>2, GoesInv
<1>3. CASE Setup(k) \/ Play(k)
  <2>1. Live(S(k))
    BY <1>0, <1>3, ClientSession DEF Setup, Play, Known, IInv, Owned
  <2>2. PICK to \in {"channel", "swap", "play"} : Goes(k, to)
    BY <1>3 DEF Setup, Play
  <2> QED BY <1>0, <1>1, <2>1, <2>2, GoesInv DEF HandlerAt
<1>4. CASE Channel(k)
  <2>1. Goes(k, "swap") /\ handler[k] = "channel"
    BY <1>4 DEF Channel, Dies, NoFault
  <2>2. conn[k] = gen /\ ctl = "on" => Live(S(k))
    BY <2>1 DEF IInv, Found, Using
  <2> QED BY <1>0, <1>1, <2>1, <2>2, GoesInv DEF HandlerAt
<1> QED BY <1>2, <1>3, <1>4

\* The transport of a track is replaced.
LEMMA SwapInv ==
  ASSUME IInv, fault = NoFault, NEW k \in Keys, Swap(k)
  PROVE  IInv'
<1>0. /\ Handlers /\ UNCHANGED <<table, fault>> /\ handler[k] = "swap" /\ conn[k] # 0 /\ Typed
  BY DEF Swap, Uses, server, Handlers, IInv, Places
<1>1. PICK s \in Sessions : s = S(k)
  BY <1>0, ClientSession
<1>2. Live(s) /\ session[s] \in SessionType /\ sender[s] \in SenderType /\ Consistent(s)
      /\ odd[s] \in SUBSET Befalls
  BY <1>0, <1>1 DEF Swap, Uses, Live, Typed, IInv
<1> DEFINE reset == IF session[s].status = "SETUP" THEN {} ELSE {"reset"}
<1>3. CASE Goes(k, "idle") /\ odd' = [odd EXCEPT ![s] = @ \cup {"unmatched"}]
           /\ UNCHANGED <<session, sender>>
  <2>1. /\ odd' \in [Sessions -> SUBSET Befalls] /\ odd[s] \subseteq odd'[s]
    BY <1>0, <1>2, <1>3 DEF Typed, Befalls
  <2>2. Only(s) /\ \A r \in Sessions : Live(r)' <=> Live(r)
    BY <1>0, <1>3 DEF Typed, Only, Live
  <2>3. Consistent(s)'
    BY <1>2, <1>3, <2>1, <2>2 DEF Consistent
  <2>4. \A r \in Sessions : Consistent(r)' /\ ("late" \in odd[r] => "late" \in odd'[r])
    BY <2>1, <2>2, <2>3, OnlyConsistent DEF IInv, Only
  <2>5. "idle" \in HandlerAt \ {"join"} /\ "idle" \notin Using
    BY DEF HandlerAt, Using
  <2> QED BY <1>0, <1>3, <2>1, <2>2, <2>4, <2>5, GoesInv DEF Typed
<1>4. CASE /\ \E t \in Offered :
                /\ session' = [session EXCEPT ![s].transport = t]
                /\ odd' = [odd EXCEPT ![s] =
                             reset \cup IF t = "none" THEN @ \cup {"failed"} ELSE @ \ Unready]
           /\ sender' = [sender EXCEPT ![s].current = FALSE]
           /\ Goes(k, IF session[s].transport = "none" THEN "idle" ELSE "free")
  <2>1. PICK t \in {"none", "udp", "tcp"} :
          /\ session' = [session EXCEPT ![s].transport = t]
          /\ odd' = [odd EXCEPT ![s] =
                       reset \cup IF t = "none" THEN @ \cup {"failed"} ELSE @ \ Unready]
    BY <1>4, RtspAssumption
  <2>2. /\ session'[s].transport = t /\ session'[s].st = session[s].st
        /\ session'[s].status = session[s].status /\ session' \in [Sessions -> SessionType]
    BY <1>0, <1>2, <2>1 DEF Typed, SessionType, Transports
  <2>3. /\ sender'[s].at = sender[s].at /\ sender'[s].on = sender[s].on /\ ~sender'[s].current
        /\ sender' \in [Sessions -> SenderType]
    BY <1>0, <1>2, <1>4 DEF Typed, SenderType
  <2>4. /\ odd' \in [Sessions -> SUBSET Befalls]
        /\ odd[s] \cap {"reset", "left", "late"} \subseteq odd'[s]
        /\ t = "none" => odd'[s] \cap Unready # {}
        /\ session[s].status # "SETUP" => "reset" \in odd'[s]
    BY <1>0, <1>2, <2>1 DEF Typed, Befalls, Unready
  <2>5. Only(s) /\ \A r \in Sessions : Live(r)' <=> Live(r)
    BY <1>0, <1>4, <2>1, <2>2 DEF Typed, Only, Live
  <2>6. Consistent(s)'
    BY <1>2, <2>2, <2>3, <2>4, <2>5 DEF Consistent
  <2>7. \A r \in Sessions : Consistent(r)' /\ ("late" \in odd[r] => "late" \in odd'[r])
    BY <2>4, <2>5, <2>6, OnlyConsistent DEF IInv, Only
  <2>8. PICK to \in {"idle", "free"} : Goes(k, to)
    BY <1>4
  <2>9. to \in HandlerAt \ {"join"} /\ to \notin Using
    BY DEF HandlerAt, Using
  <2> QED BY <1>0, <2>2, <2>3, <2>4, <2>5, <2>7, <2>8, <2>9, GoesInv
<1> QED BY <1>1, <1>3, <1>4 DEF Swap, Odd

LEMMA FreeOldInv ==
  ASSUME IInv, fault = NoFault, NEW k \in Keys, FreeOld(k)
  PROVE  IInv'
<1>0. /\ Handlers /\ UNCHANGED <<table, session, odd, fault>> /\ handler[k] = "free" /\ conn[k] # 0
      /\ Typed /\ Goes(k, "idle")
  BY DEF FreeOld, server, Handlers, IInv, Places
<1>1. PICK s \in Sessions : s = S(k)
  BY <1>0, ClientSession
<1>2. sender' = [sender EXCEPT ![s].on = IF @ # "none" /\ ~sender[s].current THEN "freed" ELSE @]
  BY <1>1 DEF FreeOld
<1>3. /\ sender'[s].at = sender[s].at /\ sender'[s].current = sender[s].current
      /\ \/ sender'[s].on = sender[s].on
         \/ sender[s].on # "none" /\ ~sender[s].current /\ sender'[s].on = "freed"
      /\ sender' \in [Sessions -> SenderType]
  BY <1>0, <1>2 DEF Typed, SenderType
<1>4. Only(s) /\ \A t \in Sessions : Live(t)' <=> Live(t)
  BY <1>0, <1>2 DEF Typed, Only, Live
<1>5. Consistent(s)'
  BY <1>0, <1>3, <1>4 DEF IInv, Consistent
<1>6. \A t \in Sessions : Consistent(t)'
  BY <1>4, <1>5, OnlyConsistent DEF IInv
<1>7. "idle" \in HandlerAt \ {"join"} /\ "idle" \notin Using
  BY DEF HandlerAt, Using
<1> QED BY <1>0, <1>3, <1>4, <1>6, <1>7, GoesInv DEF Typed

LEMMA SetPlayInv ==
  ASSUME IInv, fault = NoFault, NEW k \in Keys, SetPlay(k)
  PROVE  IInv'
<1>0. /\ Handlers /\ UNCHANGED <<table, sender, fault>> /\ handler[k] = "play" /\ conn[k] # 0
      /\ Typed /\ Goes(k, "touch")
  BY DEF SetPlay, Uses, server, Handlers, IInv, Places
<1>1. PICK s \in Sessions : s = S(k)
  BY <1>0, ClientSession
<1>2. /\ Live(s) /\ session' = [session EXCEPT ![s].status = "PLAY"]
      /\ IF session[s].transport = "none" /\ odd[s] \cap Unready = {}
         THEN odd' = [odd EXCEPT ![s] = @ \cup {"early"}] ELSE odd' = odd
      /\ session[s] \in SessionType /\ odd[s] \in SUBSET Befalls
  BY <1>0, <1>1 DEF SetPlay, Uses, Odd, Live, Typed
<1>3. /\ session'[s].st = session[s].st /\ session'[s].transport = session[s].transport
      /\ session'[s].status = "PLAY" /\ session' \in [Sessions -> SessionType]
  BY <1>0, <1>2 DEF Typed, SessionType
<1>4. /\ odd' \in [Sessions -> SUBSET Befalls] /\ odd[s] \subseteq odd'[s]
      /\ session[s].transport = "none" => odd'[s] \cap Unready # {}
  BY <1>0, <1>2 DEF Typed, Befalls, Unready
<1>5. Only(s) /\ \A t \in Sessions : Live(t)' <=> Live(t)
  BY <1>0, <1>2, <1>3 DEF Typed, Only, Live
<1>6. Consistent(s)'
  BY <1>0, <1>2, <1>3, <1>4, <1>5 DEF IInv, Consistent
<1>7. \A t \in Sessions : Consistent(t)' /\ ("late" \in odd[t] => "late" \in odd'[t])
  BY <1>4, <1>5, <1>6, OnlyConsistent DEF IInv, Only
<1> QED BY <1>0, <1>1, <1>2, <1>3, <1>4, <1>5, <1>7, GoesInv DEF HandlerAt, Typed

\* A new session: nobody runs on the one it replaces, because whoever owns
\* that is the handler itself or holds the lock.
LEMMA DescribeInv ==
  ASSUME IInv, fault = NoFault, NEW k \in Keys, Describe(k)
  PROVE  IInv'
<1>0. /\ Handlers /\ UNCHANGED fault /\ handler[k] = "idle" /\ conn[k] # 0 /\ Typed /\ Places /\ Found
      /\ Goes(k, "touch") /\ ~Locked(conn[k]) /\ conn[k] \in Servers
  BY ClientSession DEF Describe, Looks, server, Handlers, IInv
<1>1. CASE Known(k)
  <2>1. /\ UNCHANGED <<table, session, sender, odd>> /\ Live(S(k))
    BY <1>0, <1>1, ClientSession DEF Describe, Known, IInv, Owned
  <2>2. /\ session' \in [Sessions -> SessionType] /\ sender' \in [Sessions -> SenderType]
        /\ odd' \in [Sessions -> SUBSET Befalls]
        /\ \A t \in Sessions : Consistent(t)' /\ (Live(t)' <=> Live(t))
    BY <1>0, <2>1 DEF IInv, Typed, Consistent, Live
  <2> QED BY <1>0, <2>1, <2>2, GoesInv DEF HandlerAt
<1>2. CASE ~Known(k)
  <2>1. PICK s \in Sessions : s = S(k) /\ s[1] = conn[k] /\ s[2] = k
    BY <1>0, ClientSession
  <2>2. /\ table' = [table EXCEPT ![conn[k]] = @ \cup {k}]
        /\ session' = [session EXCEPT ![s] = [NoSession EXCEPT !.st = "live"]]
        /\ sender' = [sender EXCEPT ![s] = [NoSender EXCEPT !.at = "loop"]]
        /\ odd' = [odd EXCEPT ![s] = IF Tended(conn[k]) THEN {} ELSE {"late"}]
    BY <1>2, <2>1 DEF Describe
  <2>3. /\ [NoSession EXCEPT !.st = "live"] \in SessionType
        /\ [NoSender EXCEPT !.at = "loop"] \in SenderType
    BY DEF NoSession, NoSender, SessionType, SenderType, Transports
  <2>4. /\ session' \in [Sessions -> SessionType] /\ session'[s] = [NoSession EXCEPT !.st = "live"]
        /\ sender' \in [Sessions -> SenderType] /\ sender'[s] = [NoSender EXCEPT !.at = "loop"]
        /\ odd' \in [Sessions -> SUBSET Befalls] /\ Only(s)
        /\ Tended(conn[k]) \/ "late" \in odd'[s]
    BY <1>0, <2>2, <2>3 DEF Typed, Only, Befalls
  <2>5. Consistent(s)' /\ Live(s)'
    BY <2>4 DEF Consistent, Live, NoSession, NoSender
  <2>6. \A t \in Sessions : Consistent(t)'
    BY <2>4, <2>5, OnlyConsistent DEF IInv
  <2>7. /\ table' \in [Servers -> SUBSET Keys] /\ k \in table'[conn[k]]
        /\ \A t \in Sessions : t # s => (t[2] \in table'[t[1]] <=> t[2] \in table[t[1]])
        /\ \A j \in Keys, g \in Servers : j # k => (j \in table'[g] <=> j \in table[g])
        /\ \A j \in Keys, g \in Servers : g # conn[k] => (j \in table'[g] <=> j \in table[g])
    BY <1>0, <2>1, <2>2, Pairs DEF Typed
  <2>8. handler' = [handler EXCEPT ![k] = "touch"] /\ handler'[k] = "touch"
        /\ \A j \in Keys : j # k => handler'[j] = handler[j]
    BY <1>0 DEF Goes, Typed
  <2>9. Typed'
    BY <1>0, <2>4, <2>7, <2>8 DEF Typed, Handlers, HandlerAt
  <2>10. Places'
    <3>1. ASSUME NEW j \in Keys, handler'[j] = "join" PROVE j \notin table'[conn[j]]
      <4>1. j # k /\ handler[j] = "join" /\ conn[j] # 0
        BY <2>8, <3>1, <1>0 DEF Places
      <4> QED BY <1>0, <2>7, <4>1, ClientSession DEF Places
    <3>2. ctl = "join" => victim \notin table'[gen]
      <4>1. ctl = "join" => gen # conn[k] /\ gen \in Servers /\ victim \in Keys
        BY <1>0, RtspAssumption DEF Locked, Places, Typed, Servers
      <4> QED BY <1>0, <2>7, <4>1 DEF Places
    <3> QED BY <1>0, <2>8, <3>1, <3>2 DEF Places, Handlers
  <2>11. Found'
    <3> SUFFICES ASSUME NEW j \in Keys, handler'[j] \in Using,
                        conn[j] = gen, ctl = "on"
                 PROVE  Live(S(j))'
      BY <1>0 DEF Found, Handlers
    <3>1. S(j)' = S(j)
      BY <1>0 DEF Handlers, S
    <3>2. CASE j = k
      BY <2>1, <2>5, <3>1, <3>2 DEF Live
    <3>3. CASE j # k
      <4>1. Live(S(j)) /\ S(j) \in Sessions /\ S(j) # s
        BY <1>0, <2>1, <2>8, <3>3, ClientSession DEF Found, Places
      <4> QED BY <2>4, <3>1, <4>1 DEF Only, Live
    <3> QED BY <3>2, <3>3
  <2>12. ASSUME NEW t \in Sessions PROVE Owned(t)'
    <3>1. CASE t = s
      BY <1>0, <2>1, <2>4, <2>5, <2>7, <3>1 DEF Owned, Handlers, Tended
    <3>2. CASE t # s
      <4>1. /\ Owned(t) /\ t[2] \in Keys /\ S(t[2])' = S(t[2]) /\ (Live(t)' <=> Live(t))
            /\ odd'[t] = odd[t] /\ Tended(t[1])' = Tended(t[1])
        BY <1>0, <2>4, <3>2, Pairs DEF IInv, Handlers, S, Only, Live, Tended
      <4>2. handler[t[2]] = "join" => handler'[t[2]] = "join"
        BY <1>0, <2>8, <4>1
      <4> QED BY <1>0, <2>7, <3>2, <4>1, <4>2 DEF Owned, Handlers
    <3> QED BY <3>1, <3>2
  <2> QED BY <1>0, <2>6, <2>9, <2>10, <2>11, <2>12, NoStrikeSafe DEF IInv, NoStrike
<1> QED BY <1>1, <1>2

\* A session leaves the hash for the handler that joins its thread.
LEMMA TeardownInv ==
  ASSUME IInv, fault = NoFault, NEW k \in Keys, Teardown(k)
  PROVE  IInv'
<1>0. /\ Handlers /\ UNCHANGED <<sender, odd, fault>> /\ handler[k] = "idle" /\ conn[k] # 0
      /\ Typed /\ Places /\ Found /\ Goes(k, "join") /\ conn[k] \in Servers
  BY ClientSession DEF Teardown, Looks, server, Handlers, IInv
<1>1. PICK s \in Sessions : s = S(k) /\ s[1] = conn[k] /\ s[2] = k
  BY <1>0, ClientSession
<1>2. /\ table' = [table EXCEPT ![conn[k]] = @ \ {k}]
      /\ session' = [session EXCEPT ![s].status = "EXIT"]
      /\ session[s] \in SessionType
  BY <1>0, <1>1 DEF Teardown, Typed
<1>3. /\ session'[s].st = session[s].st /\ session'[s].status = "EXIT"
      /\ session'[s].transport = session[s].transport
      /\ session' \in [Sessions -> SessionType]
  BY <1>0, <1>2 DEF Typed, SessionType
<1>4. Only(s) /\ \A t \in Sessions : Live(t)' <=> Live(t)
  BY <1>0, <1>2, <1>3 DEF Typed, Only, Live
<1>5. Consistent(s)'
  BY <1>0, <1>3, <1>4 DEF IInv, Consistent
<1>6. \A t \in Sessions : Consistent(t)'
  BY <1>4, <1>5, OnlyConsistent DEF IInv
<1>7. /\ table' \in [Servers -> SUBSET Keys] /\ k \notin table'[conn[k]]
      /\ \A g \in Servers : table'[g] \subseteq table[g]
      /\ \A t \in Sessions : t # s /\ t[2] \in table[t[1]] => t[2] \in table'[t[1]]
  BY <1>0, <1>1, <1>2, Pairs DEF Typed
<1>8. handler' = [handler EXCEPT ![k] = "join"] /\ handler'[k] = "join"
      /\ \A j \in Keys : j # k => handler'[j] = handler[j]
  BY <1>0 DEF Goes, Typed
<1>9. Typed'
  BY <1>0, <1>3, <1>7, <1>8 DEF Typed, Handlers, HandlerAt
<1>10. Places'
  <2>1. ASSUME NEW j \in Keys, handler'[j] = "join" PROVE j \notin table'[conn[j]]
    <3>1. CASE j = k
      BY <1>7, <3>1
    <3>2. CASE j # k
      <4>1. handler[j] = "join" /\ conn[j] # 0
        BY <1>0, <1>8, <2>1, <3>2 DEF Places
      <4> QED BY <1>0, <1>7, <4>1, ClientSession DEF Places
    <3> QED BY <3>1, <3>2
  <2>2. ctl = "join" => victim \notin table'[gen]
    <3>1. ctl = "join" => gen \in Servers
      BY <1>0, RtspAssumption DEF Places, Typed, Servers
    <3> QED BY <1>0, <1>7, <3>1 DEF Places
  <2> QED BY <1>0, <1>8, <2>1, <2>2 DEF Places, Handlers
<1>11. Found'
  <2> SUFFICES ASSUME NEW j \in Keys, handler'[j] \in Using,
                      conn[j] = gen, ctl = "on"
               PROVE  Live(S(j))'
    BY <1>0 DEF Found, Handlers
  <2>1. j # k /\ handler'[j] = handler[j] /\ S(j)' = S(j)
    BY <1>0, <1>8 DEF Handlers, S, Using
  <2>2. Live(S(j)) /\ S(j) \in Sessions
    BY <1>0, <2>1, ClientSession DEF Found, Places
  <2> QED BY <1>4, <2>1, <2>2 DEF Live
<1>12. ASSUME NEW t \in Sessions PROVE Owned(t)'
  <2>1. /\ Owned(t) /\ t[2] \in Keys /\ t[1] \in Servers /\ S(t[2])' = S(t[2])
        /\ Tended(t[1])' = Tended(t[1])
    BY <1>0, Pairs DEF IInv, Handlers, S, Tended
  <2>2. t[2] \in table'[t[1]] => t[2] \in table[t[1]]
    BY <1>7, <2>1
  <2>3. CASE t = s
    BY <1>0, <1>1, <1>4, <1>8, <2>1, <2>2, <2>3 DEF Owned
  <2>4. CASE t # s
    <3>1. handler[t[2]] = "join" => handler'[t[2]] = "join"
      BY <1>8, <2>1
    <3> QED BY <1>0, <1>4, <1>7, <2>1, <2>2, <2>4, <3>1 DEF Owned, Handlers
  <2> QED BY <2>3, <2>4
<1> QED BY <1>0, <1>6, <1>9, <1>10, <1>11, <1>12, NoStrikeSafe DEF IInv, NoStrike

LEMMA EndTeardownInv ==
  ASSUME IInv, fault = NoFault, NEW k \in Keys, EndTeardown(k)
  PROVE  IInv'
<1>0. /\ Handlers /\ UNCHANGED <<table, sender, odd, fault>> /\ handler[k] = "join" /\ conn[k] # 0
      /\ Typed /\ Places /\ Found /\ Goes(k, "idle")
  BY DEF EndTeardown, server, Handlers, IInv, Places
<1>1. PICK s \in Sessions : s = S(k) /\ s[1] = conn[k] /\ s[2] = k
  BY <1>0, ClientSession
<1>2. /\ session' \in [Sessions -> SessionType] /\ ~Live(s)'
      /\ \A t \in Sessions : Consistent(t)' /\ (t # s => (Live(t)' <=> Live(t)))
  BY <1>0, <1>1, FreeConsistent DEF EndTeardown
<1>3. handler' = [handler EXCEPT ![k] = "idle"] /\ handler'[k] = "idle"
      /\ \A j \in Keys : j # k => handler'[j] = handler[j]
  BY <1>0 DEF Goes, Typed
<1>4. Typed' /\ Places'
  BY <1>0, <1>2, <1>3 DEF Typed, Places, Handlers, HandlerAt
<1>5. Found'
  <2> SUFFICES ASSUME NEW j \in Keys, handler'[j] \in Using,
                      conn[j] = gen, ctl = "on"
               PROVE  Live(S(j))'
    BY <1>0 DEF Found, Handlers
  <2>1. j # k /\ handler'[j] = handler[j] /\ S(j)' = S(j)
    BY <1>0, <1>3 DEF Handlers, S, Using
  <2>2. Live(S(j)) /\ S(j) \in Sessions /\ S(j) # s
    BY <1>0, <1>1, <2>1, ClientSession DEF Found, Places
  <2> QED BY <1>2, <2>1, <2>2 DEF Live
<1>6. ASSUME NEW t \in Sessions PROVE Owned(t)'
  <2>1. Owned(t) /\ t[2] \in Keys /\ S(t[2])' = S(t[2]) /\ Tended(t[1])' = Tended(t[1])
    BY <1>0, Pairs DEF IInv, Handlers, S, Tended
  <2>2. CASE t = s
    BY <1>0, <1>1, <1>2, <2>2 DEF Owned, Places
  <2>3. CASE t # s
    <3>1. S(t[2]) = t /\ handler[t[2]] = "join" => handler'[t[2]] = "join"
      BY <1>1, <1>3, <2>1, <2>3
    <3> QED BY <1>0, <1>2, <2>1, <2>3, <3>1 DEF Owned, Handlers
  <2> QED BY <2>2, <2>3
<1> QED BY <1>0, <1>2, <1>4, <1>5, <1>6, NoStrikeSafe DEF IInv, NoStrike

\* A request that ends the process: its server is gone, its session was freed
\* since it was found, or it asks for what SETUP cannot do.
LEMMA DiesInv ==
  ASSUME IInv, fault = NoFault, NEW k \in Keys,
         \/ LooksAstray(k) \/ UsesAstray(k) \/ SetupDies(k) \/ NoTrack(k)
         \/ Channel(k) /\ fault' # NoFault
  PROVE  IInv'
<1>0. /\ UNCHANGED <<ctl, victim, gen, table, conn, handler, session, sender, odd>>
      /\ conn[k] # 0 /\ Typed
  <2>1. CASE LooksAstray(k) \/ SetupDies(k)
    BY <2>1 DEF LooksAstray, SetupDies, Looks, server, IInv
  <2>2. CASE UsesAstray(k) \/ NoTrack(k)
    BY <2>2 DEF UsesAstray, NoTrack, Uses, server, IInv, Places
  <2>3. CASE Channel(k) /\ fault' # NoFault
    BY <2>3 DEF Channel, server, IInv, Places
  <2> QED BY <2>1, <2>2, <2>3
<1>1. S(k) \in Sessions /\ S(k)[1] = conn[k] /\ conn[k] <= gen /\ conn[k] \in Nat /\ gen \in Nat
  BY <1>0, RtspAssumption, ClientSession DEF Typed, Servers
<1>2. PICK w \in {"server", "session", "track", "multicast", "port"} :
        /\ fault' = <<w, S(k)>>
        /\ w \in {"server", "session"} => conn[k] < gen \/ ctl # "on"
  <2>1. CASE LooksAstray(k)
    BY <1>1, <2>1 DEF LooksAstray, Freed, Dies
  <2>2. CASE UsesAstray(k)
    BY <1>1, <2>2 DEF UsesAstray, IInv, Found, Using, Live, Dies
  <2>3. CASE SetupDies(k) \/ NoTrack(k)
    BY <2>3 DEF SetupDies, NoTrack, Dies
  <2>4. CASE Channel(k) /\ fault' # NoFault
    BY <1>1, <2>4 DEF Channel, Freed, Dies
  <2> QED BY <2>1, <2>2, <2>3, <2>4
<1>3. fault'[1] = w /\ fault'[2] = S(k)
  BY <1>2
<1>4. Typed'
  BY <1>0, <1>1, <1>2 DEF Typed, Faults
<1>5. HandlersSafe' /\ StrikesHaveCause'
  BY <1>0, <1>1, <1>2, <1>3 DEF HandlersSafe, StrikesHaveCause
<1>6. Places' /\ Found' /\ \A t \in Sessions : Consistent(t)' /\ Owned(t)'
  BY <1>0 DEF IInv, Places, Found, Consistent, Owned, Live, S, Tended
<1> QED BY <1>4, <1>5, <1>6 DEF IInv
-----------------------------------------------------------------------------
(***************************************************************************)
(* The threads of the sessions.                                            *)
(***************************************************************************)
\* A thread moves its own record only.
LEMMA SenderOnly ==
  ASSUME IInv, NEW s \in Sessions, Others, sender' \in [Sessions -> SenderType],
         \A t \in Sessions : t # s => sender'[t] = sender[t], Consistent(s)',
         \/ fault' = NoFault
         \/ /\ \E w \in {"null", "transport", "connection"} : fault' = <<w, s>>
            /\ StrikesHaveCause'
  PROVE  IInv'
<1>0. UNCHANGED <<ctl, victim, gen, table, conn, handler, session, odd>>
  BY DEF Others, server
<1>1. \A t \in Sessions : Consistent(t)' /\ Owned(t)'
  <2>1. Only(s)
    BY <1>0 DEF Only
  <2> QED BY <1>0, <2>1, OnlyConsistent DEF IInv, Owned, Live, S, Tended
<1>2. Typed' /\ Places' /\ Found'
  BY <1>0 DEF IInv, Typed, Places, Found, Live, S, Faults
<1>3. HandlersSafe' /\ StrikesHaveCause'
  BY NoStrikeSafe DEF NoStrike, HandlersSafe
<1> QED BY <1>1, <1>2, <1>3 DEF IInv

LEMMA LoopInv ==
  ASSUME IInv, fault = NoFault, NEW s \in Sessions, Exit(s) \/ GetRecord(s)
  PROVE  IInv'
<1>0. /\ Others /\ fault' = NoFault /\ sender[s] \in SenderType /\ session[s] \in SessionType
      /\ sender[s].at = "loop" /\ Consistent(s) /\ sender \in [Sessions -> SenderType]
  BY DEF Exit, GetRecord, IInv, Typed
<1>1. PICK to \in {"exited", "packet"} :
        /\ sender' = [sender EXCEPT ![s].at = to]
        /\ to = "packet" => session[s].status = "PLAY"
  BY DEF Exit, GetRecord, SenderGoes
<1>2. /\ sender'[s].at = to /\ sender'[s].on = sender[s].on
      /\ sender'[s].current = sender[s].current /\ sender' \in [Sessions -> SenderType]
      /\ \A t \in Sessions : t # s => sender'[t] = sender[t]
  BY <1>0, <1>1 DEF SenderType
<1>3. Consistent(s)'
  BY <1>0, <1>1, <1>2 DEF Consistent, Others, Live, SessionType
<1> QED BY <1>0, <1>2, <1>3, SenderOnly

LEMMA SendStartsInv ==
  ASSUME IInv, fault = NoFault, NEW s \in Sessions, SendStarts(s)
  PROVE  IInv'
<1>0. /\ Others /\ sender[s] \in SenderType /\ session[s] \in SessionType
      /\ sender[s].at = "packet" /\ Consistent(s) /\ sender \in [Sessions -> SenderType]
  BY DEF SendStarts, IInv, Typed
<1>1. CASE session[s].transport = "none"
  <2>1. /\ fault' = <<"null", s>> /\ sender' = sender
    BY <1>1 DEF SendStarts, Dies
  <2>2. odd'[s] \cap Unready # {}
    BY <1>0, <1>1 DEF Consistent, Others
  <2>3. StrikesHaveCause'
    BY <2>1, <2>2 DEF StrikesHaveCause
  <2>4. Consistent(s)'
    BY <1>0, <2>1 DEF Consistent, Others, Live
  <2> QED BY <1>0, <2>1, <2>3, <2>4, SenderOnly
<1>2. CASE session[s].transport # "none"
  <2>1. /\ fault' = NoFault
        /\ sender' = [sender EXCEPT ![s] = [at |-> "sending", on |-> session[s].transport,
                                            current |-> TRUE]]
    BY <1>2 DEF SendStarts
  <2>2. [at |-> "sending", on |-> session[s].transport, current |-> TRUE] \in SenderType
    BY <1>0 DEF SenderType, SessionType
  <2>3. /\ sender'[s] = [at |-> "sending", on |-> session[s].transport, current |-> TRUE]
        /\ sender' \in [Sessions -> SenderType]
        /\ \A t \in Sessions : t # s => sender'[t] = sender[t]
    BY <1>0, <2>1, <2>2
  <2>4. sender'[s].at = "sending" /\ sender'[s].on = session[s].transport /\ sender'[s].current
    BY <2>3
  <2>5. session[s].transport # "freed"
    BY <1>0 DEF SessionType, Transports
  <2>6. Consistent(s)'
    BY <1>0, <1>2, <2>4, <2>5 DEF Consistent, Others, Live
  <2> QED BY <1>0, <2>1, <2>3, <2>6, SenderOnly
<1> QED BY <1>1, <1>2

LEMMA SendEndsInv ==
  ASSUME IInv, fault = NoFault, NEW s \in Sessions, NEW to \in {"packet", "loop"}, SendEnds(s, to)
  PROVE  IInv'
<1>0. /\ Others /\ sender[s] \in SenderType /\ session[s] \in SessionType
      /\ sender[s].at = "sending" /\ Consistent(s) /\ sender \in [Sessions -> SenderType]
  BY DEF SendEnds, IInv, Typed
<1>1. CASE sender[s].on \in {"udp", "tcp"}
  <2>1. fault' = NoFault /\ sender' = [sender EXCEPT ![s] = [NoSender EXCEPT !.at = to]]
    BY <1>1 DEF SendEnds
  <2>2. [NoSender EXCEPT !.at = to] \in SenderType
    BY DEF NoSender, SenderType, Transports
  <2>3. /\ sender'[s] = [NoSender EXCEPT !.at = to] /\ sender' \in [Sessions -> SenderType]
        /\ \A t \in Sessions : t # s => sender'[t] = sender[t]
    BY <1>0, <2>1, <2>2
  <2>4. sender'[s].at = to /\ sender'[s].on = "none"
    BY <2>3 DEF NoSender
  <2>5. Consistent(s)'
    BY <1>0, <2>4 DEF Consistent, Others, Live
  <2> QED BY <1>0, <2>1, <2>3, <2>5, SenderOnly
<1>2. CASE sender[s].on \notin {"udp", "tcp"}
  <2>1. /\ sender' = sender
        /\ fault' = <<IF sender[s].on = "cut" THEN "connection" ELSE "transport", s>>
    BY <1>2 DEF SendEnds, Dies
  <2>2. sender[s].on = "cut" \/ sender[s].on = "freed"
    BY <1>0, <1>2 DEF SenderType, Transports, Consistent
  <2>3. StrikesHaveCause'
    BY <1>0, <2>1, <2>2 DEF Consistent, StrikesHaveCause, Others
  <2>4. Consistent(s)'
    BY <1>0, <2>1 DEF Consistent, Others, Live
  <2> QED BY <1>0, <2>1, <2>3, <2>4, SenderOnly
<1> QED BY <1>1, <1>2

LEMMA StutterInv == IInv /\ UNCHANGED vars => IInv'
<1> SUFFICES ASSUME IInv, UNCHANGED vars PROVE IInv'
  OBVIOUS
<1>1. UNCHANGED <<ctl, victim, gen, table, conn, handler, session, sender, odd, fault>>
  BY DEF vars, server
<1>2. Typed' /\ Places' /\ Found' /\ HandlersSafe' /\ StrikesHaveCause'
  BY <1>1 DEF IInv, Typed, Places, Found, HandlersSafe, StrikesHaveCause, Live, S
<1>3. \A s \in Sessions : Consistent(s)' /\ Owned(s)'
  BY <1>1 DEF IInv, Consistent, Owned, Live, S, Tended
<1> QED BY <1>2, <1>3 DEF IInv
-----------------------------------------------------------------------------
\* For any clients and any number of starts, rtsp-server.c and rtp-media.c keep
\* every session consistent with its thread and in the hands of one owner.
THEOREM Inductive == Spec => []IInv
<1>1. IInv /\ [Next]_vars => IInv'
  <2> SUFFICES ASSUME IInv, [Next]_vars PROVE IInv'
    OBVIOUS
  <2>1. CASE UNCHANGED vars
    BY <2>1, StutterInv
  <2>2. CASE fault = NoFault /\ (Start \/ Unlisten \/ Uninit)
    BY <2>2, ServerInv, StopSessionInv, JoinSessionInv DEF Uninit
  <2>3. ASSUME fault = NoFault, NEW k \in Keys, Connect(k) \/ Disconnect(k) PROVE IInv'
    BY <2>3, ServerInv, DisconnectInv
  <2>4. ASSUME fault = NoFault, NEW k \in Keys, Request(k) PROVE IInv'
    <3>1. CASE Setup(k) \/ Play(k)
      BY <2>4, <3>1, LooksInv DEF Setup, Play
    <3> QED BY <2>4, <3>1, DescribeInv, TeardownInv, DiesInv DEF Request
  <2>5. ASSUME fault = NoFault, NEW k \in Keys, Handle(k) PROVE IInv'
    <3>1. CASE Touch(k)
      BY <2>5, <3>1, LooksInv DEF Touch
    <3>2. CASE Channel(k)
      BY <2>5, <3>2, LooksInv, DiesInv
    <3> QED
      BY <2>5, <3>1, <3>2, SwapInv, FreeOldInv, SetPlayInv, EndTeardownInv, DiesInv DEF Handle
  <2>6. ASSUME fault = NoFault, NEW s \in Sessions, Send(s) PROVE IInv'
    BY <2>6, LoopInv, SendStartsInv, SendEndsInv DEF Send
  <2> QED BY <2>1, <2>2, <2>3, <2>4, <2>5, <2>6 DEF Next
<1> QED BY InitInv, <1>1, PTL DEF Spec

\* rtp_media_live_free never frees under a running thread, and a session is lost
\* with its thread running only when DESCRIBE added it between the unlock of
\* uninit and the free of the server: every other one is in a hash that is in use
\* or will be emptied, or whoever took it out is joining its thread.
THEOREM SessionsAndThreadsAgreeAlways == Spec => []SessionsAndThreadsAgree
<1>1. IInv => SessionsAndThreadsAgree
  <2> SUFFICES ASSUME IInv PROVE SessionsAndThreadsAgree
    OBVIOUS
  <2>1. TypeOK
    BY DEF IInv, Typed, TypeOK, SessionType, SenderType, Consistent
  <2> QED BY <2>1 DEF IInv, Owned, Consistent, SessionsAndThreadsAgree
<1> QED BY Inductive, <1>1, PTL

\* A handler uses a session or a server that is gone only after the server it
\* belongs to was told to stop.
THEOREM HandlersSafeAlways == Spec => []HandlersSafe
<1>1. IInv => HandlersSafe
  BY DEF IInv
<1> QED BY Inductive, <1>1, PTL

\* The thread of a session sends on a NULL transport only after a PLAY before any
\* SETUP or a SETUP that failed or missed and was answered 200, on a freed one
\* only after a SETUP during PLAY, over a closed connection only when the client
\* left without TEARDOWN.
THEOREM StrikesHaveCauseAlways == Spec => []StrikesHaveCause
<1>1. IInv => StrikesHaveCause
  BY DEF IInv
<1> QED BY Inductive, <1>1, PTL
=============================================================================
