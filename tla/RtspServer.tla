----------------------------- MODULE RtspServer -----------------------------
(***************************************************************************)
(* The RTSP server of the rtsp process: the request handlers of            *)
(* mod/rtsp/src/rtsp/rtsp-server.c, the sessions of rtp-media.c with one   *)
(* sender thread each, and the set operation of interface/svr_mgr.c, which *)
(* starts and stops the server on the thread that serves the requests of   *)
(* the process.                                                            *)
(*                                                                         *)
(* The handlers run on the workers of the media-server library, which      *)
(* serves the requests of one connection one after another.  A session is  *)
(* found by the address of its client, under a lock, and used without it.  *)
(*                                                                         *)
(* After memory was used that had been given back, nothing can be said of  *)
(* the process, and an assertion that fails ends it: the first fault ends  *)
(* the model, and records what it was and whose session or server it       *)
(* struck.  PAUSE, OPTIONS, ANNOUNCE, RECORD and the parameters are        *)
(* answered and change nothing.                                            *)
(***************************************************************************)
EXTENDS Integers

CONSTANTS Keys,        \* the addresses of clients
          MaxServers,  \* bound: how often the server is started
          Offered      \* what SETUP may yield; "none" is a transport that failed

ASSUME RtspAssumption ==
  /\ MaxServers \in Nat \ {0}
  /\ Offered \subseteq {"none", "udp", "tcp"}

VARIABLES ctl,       \* where the request thread is in rtsp_server_uninit
          victim,    \* whose session it stops
          gen,       \* how many servers were started: the current one
          table,     \* table[g]: the keys in the hash of server g
          conn,      \* conn[k]: the server that client k is connected to, or 0
          handler,   \* handler[k]: where the request of client k is
          session,   \* session[s]: the media object
          sender,    \* sender[s]: its thread, and the transport that it sends on
          odd,       \* history: what befell session s that should befall none
          fault      \* the fault

server == <<ctl, victim, gen>>
vars == <<server, table, conn, handler, session, sender, odd, fault>>

Servers == 1 .. MaxServers
Sessions == Servers \X Keys
S(k) == <<conn[k], k>>

\* channel: the lock is taken again for a pair of channels; swap, free:
\* rtp_add_transport; play: rtp_play; join: rtp_media_live_free; touch: the
\* last use of the session before the answer.
HandlerAt == {"idle", "touch", "channel", "swap", "play", "free", "join"}
Stopping == {"lock", "pick", "join", "unlock"}

\* cut: a transport over the connection of the client, which is closed.
Transports == {"none", "udp", "tcp", "cut"}
NoSession == [st |-> "none", status |-> "SETUP", transport |-> "none"]
NoSender == [at |-> "none", on |-> "none", current |-> FALSE]
NoFault == <<"none", 0>>

\* What a client does out of order: PLAY before any SETUP (early), SETUP after
\* PLAY (reset), gone without TEARDOWN (left).  SETUP of a track that is not
\* sent (unmatched), and a transport that could not be made (failed), are
\* answered like a success.  late: added to a hash that uninit had emptied.
Befalls == {"early", "reset", "left", "unmatched", "failed", "late"}
Unready == {"early", "unmatched", "failed"}
Faults == {"server", "session", "null", "transport", "connection", "track", "multicast", "port"}

Init ==
  /\ ctl = "off" /\ gen = 0 /\ victim \in Keys
  /\ table = [g \in Servers |-> {}]
  /\ conn = [k \in Keys |-> 0]
  /\ handler = [k \in Keys |-> "idle"]
  /\ session = [s \in Sessions |-> NoSession]
  /\ sender = [s \in Sessions |-> NoSender]
  /\ odd = [s \in Sessions |-> {}]
  /\ fault = NoFault

Dies(what, where) == fault' = <<what, where>>
Odd(s, what) == odd' = [odd EXCEPT ![s] = @ \cup {what}]
-----------------------------------------------------------------------------
(***************************************************************************)
(* set of the manager: rtsp_server_init and rtsp_server_uninit             *)
(***************************************************************************)
Start ==
  /\ ctl = "off" /\ gen < MaxServers
  /\ ctl' = "on" /\ gen' = gen + 1
  /\ UNCHANGED <<victim, table, conn, handler, session, sender, odd, fault>>

\* No client can connect any more, but those that are connected stay.
Unlisten ==
  /\ ctl = "on"
  /\ ctl' = "lock"
  /\ UNCHANGED <<victim, gen, table, conn, handler, session, sender, odd, fault>>

\* Handlers hold the lock within one step only; uninit holds it from here to
\* Unlock.
TakeLock ==
  /\ ctl = "lock"
  /\ ctl' = "pick"
  /\ UNCHANGED <<victim, gen, table, conn, handler, session, sender, odd, fault>>
Locked(g) == g = gen /\ ctl \in {"pick", "join"}
Freed(g) == g < gen \/ (g = gen /\ ctl = "off")

\* The hash is in use, or uninit has still to empty it.
Tended(g) == g = gen /\ ctl \in {"on", "lock", "pick", "join"}

\* The hash loses the session, and its thread is told to exit.
StopSession ==
  /\ ctl = "pick"
  /\ \E k \in table[gen] :
       /\ victim' = k
       /\ table' = [table EXCEPT ![gen] = @ \ {k}]
       /\ session' = [session EXCEPT ![<<gen, k>>].status = "EXIT"]
  /\ ctl' = "join"
  /\ UNCHANGED <<gen, conn, handler, sender, odd, fault>>

\* rtp_media_live_free waits for the thread and frees the session.
Freeing(s) == session' = [session EXCEPT ![s] = [NoSession EXCEPT !.st = "freed"]]
JoinSession ==
  /\ ctl = "join" /\ sender[<<gen, victim>>].at = "exited"
  /\ Freeing(<<gen, victim>>)
  /\ ctl' = "pick"
  /\ UNCHANGED <<victim, gen, table, conn, handler, sender, odd, fault>>

Unlock ==
  /\ ctl = "pick" /\ table[gen] = {}
  /\ ctl' = "unlock"
  /\ UNCHANGED <<victim, gen, table, conn, handler, session, sender, odd, fault>>

\* The lock is destroyed and the server freed.
FreeServer ==
  /\ ctl = "unlock"
  /\ ctl' = "off"
  /\ UNCHANGED <<victim, gen, table, conn, handler, session, sender, odd, fault>>
-----------------------------------------------------------------------------
(***************************************************************************)
(* Clients                                                                 *)
(***************************************************************************)
Connect(k) ==
  /\ conn[k] = 0 /\ ctl = "on"
  /\ conn' = [conn EXCEPT ![k] = gen]
  /\ UNCHANGED <<server, table, handler, session, sender, odd, fault>>

\* Nobody tells the server: the session stays.  A client may come back with
\* the address it had.
Cut(t) == IF t = "tcp" THEN "cut" ELSE t
Disconnect(k) ==
  LET s == S(k) IN
  /\ conn[k] # 0 /\ handler[k] = "idle"
  /\ conn' = [conn EXCEPT ![k] = 0]
  /\ session' = [session EXCEPT ![s].transport = Cut(@)]
  /\ sender' = [sender EXCEPT ![s].on = Cut(@)]
  /\ IF "tcp" \in {session[s].transport, sender[s].on} THEN Odd(s, "left") ELSE UNCHANGED odd
  /\ UNCHANGED <<server, table, handler, fault>>
-----------------------------------------------------------------------------
(***************************************************************************)
(* The handlers.  Each begins with a look into the hash under the lock: a  *)
(* request that waits for the lock has not begun.                          *)
(***************************************************************************)
Goes(k, to) == handler' = [handler EXCEPT ![k] = to]

Looks(k) ==
  /\ conn[k] # 0 /\ handler[k] = "idle"
  /\ ~Locked(conn[k]) /\ ~Freed(conn[k])
Known(k) == k \in table[conn[k]]

\* The server was freed while its client stayed connected.
LooksAstray(k) ==
  /\ conn[k] # 0 /\ handler[k] = "idle" /\ Freed(conn[k])
  /\ Dies("server", S(k))
  /\ UNCHANGED <<server, table, conn, handler, session, sender, odd>>

\* The session of the request was freed since it was found.
UsesAstray(k) ==
  /\ handler[k] \in {"touch", "swap", "play"} /\ session[S(k)].st # "live"
  /\ Dies("session", S(k))
  /\ UNCHANGED <<server, table, conn, handler, session, sender, odd>>
Uses(k, at) == handler[k] = at /\ session[S(k)].st = "live"

\* rtsp_ondescribe: a new session and its thread, if there is none; also in the
\* hash that uninit has left and will free.
Describe(k) ==
  LET s == S(k) IN
  /\ Looks(k)
  /\ IF Known(k) THEN UNCHANGED <<table, session, sender, odd>>
     ELSE /\ table' = [table EXCEPT ![conn[k]] = @ \cup {k}]
          /\ session' = [session EXCEPT ![s] = [NoSession EXCEPT !.st = "live"]]
          /\ sender' = [sender EXCEPT ![s] = [NoSender EXCEPT !.at = "loop"]]
          /\ odd' = [odd EXCEPT ![s] = IF Tended(conn[k]) THEN {} ELSE {"late"}]
  /\ Goes(k, "touch")
  /\ UNCHANGED <<server, conn, fault>>

\* rtp_get_sdp and rtp_get_rtpinfo read and complete the session.
Touch(k) ==
  /\ Uses(k, "touch")
  /\ Goes(k, "idle")
  /\ UNCHANGED <<server, table, conn, session, sender, odd, fault>>

\* rtsp_onsetup.  A request without a session, or for no transport that the
\* server knows, is refused and changes nothing.
Setup(k) ==
  /\ Looks(k) /\ Known(k)
  /\ \E to \in {"channel", "swap"} : Goes(k, to)
  /\ UNCHANGED <<server, table, conn, session, sender, odd, fault>>

\* The assertions of rtsp_onsetup on what was asked for: no multicast, and both
\* ports of the client.
SetupDies(k) ==
  /\ Looks(k) /\ Known(k)
  /\ \E what \in {"multicast", "port"} : Dies(what, S(k))
  /\ UNCHANGED <<server, table, conn, handler, session, sender, odd>>

\* Two channels of the connection are chosen under the lock of the server, which
\* may have been freed since the session was found.
Channel(k) ==
  /\ handler[k] = "channel" /\ ~Locked(conn[k])
  /\ IF Freed(conn[k]) THEN Dies("server", S(k)) /\ UNCHANGED handler
     ELSE Goes(k, "swap") /\ UNCHANGED fault
  /\ UNCHANGED <<server, table, conn, session, sender, odd>>

\* rtp_add_transport: the new transport, which is NULL when it could not be
\* made, replaces the one of the track, which is then freed.  A track that is
\* not sent changes nothing, and is answered all the same.
Swap(k) ==
  LET s == S(k)
      reset == IF session[s].status = "SETUP" THEN {} ELSE {"reset"} IN
  /\ Uses(k, "swap")
  /\ \/ /\ \E t \in Offered :
             /\ session' = [session EXCEPT ![s].transport = t]
             /\ odd' = [odd EXCEPT ![s] =
                          reset \cup IF t = "none" THEN @ \cup {"failed"} ELSE @ \ Unready]
        /\ sender' = [sender EXCEPT ![s].current = FALSE]
        /\ Goes(k, IF session[s].transport = "none" THEN "idle" ELSE "free")
     \/ Goes(k, "idle") /\ Odd(s, "unmatched") /\ UNCHANGED <<session, sender>>
  /\ UNCHANGED <<server, table, conn, fault>>

\* strstr of the track of a uri that names none, or that does not parse.
NoTrack(k) ==
  /\ Uses(k, "swap")
  /\ Dies("track", S(k))
  /\ UNCHANGED <<server, table, conn, handler, session, sender, odd>>

FreeOld(k) ==
  LET s == S(k) IN
  /\ handler[k] = "free"
  /\ sender' = [sender EXCEPT ![s].on = IF @ # "none" /\ ~sender[s].current THEN "freed" ELSE @]
  /\ Goes(k, "idle")
  /\ UNCHANGED <<server, table, conn, session, odd, fault>>

\* rtsp_onplay
Play(k) ==
  /\ Looks(k) /\ Known(k)
  /\ Goes(k, "play")
  /\ UNCHANGED <<server, table, conn, session, sender, odd, fault>>

SetPlay(k) ==
  LET s == S(k) IN
  /\ Uses(k, "play")
  /\ session' = [session EXCEPT ![s].status = "PLAY"]
  /\ IF session[s].transport = "none" /\ odd[s] \cap Unready = {} THEN Odd(s, "early")
     ELSE UNCHANGED odd
  /\ Goes(k, "touch")
  /\ UNCHANGED <<server, table, conn, sender, fault>>

\* rtsp_onteardown: the hash loses the session under the lock, the thread is
\* stopped without it.  The mutant leaves the session in the hash.
TeardownKeeps(k) ==
  /\ Looks(k) /\ Known(k)
  /\ session' = [session EXCEPT ![S(k)].status = "EXIT"]
  /\ Goes(k, "join")
  /\ UNCHANGED <<server, table, conn, sender, odd, fault>>
Teardown(k) ==
  /\ Looks(k) /\ Known(k)
  /\ table' = [table EXCEPT ![conn[k]] = @ \ {k}]
  /\ session' = [session EXCEPT ![S(k)].status = "EXIT"]
  /\ Goes(k, "join")
  /\ UNCHANGED <<server, conn, sender, odd, fault>>

\* The mutants: the transport is freed before the thread was joined, or the
\* thread is not waited for and the session left to it.
EndTeardownFreesFirst(k) ==
  LET s == S(k) IN
  /\ handler[k] = "join"
  /\ IF sender[s].at = "exited" THEN Freeing(s) /\ Goes(k, "idle") /\ UNCHANGED sender
     ELSE /\ sender[s].on # "none" /\ sender' = [sender EXCEPT ![s].on = "freed"]
          /\ UNCHANGED <<session, handler>>
  /\ UNCHANGED <<server, table, conn, odd, fault>>
EndTeardownForgets(k) ==
  /\ handler[k] = "join"
  /\ Goes(k, "idle")
  /\ UNCHANGED <<server, table, conn, session, sender, odd, fault>>
EndTeardown(k) ==
  /\ handler[k] = "join" /\ sender[S(k)].at = "exited"
  /\ Freeing(S(k))
  /\ Goes(k, "idle")
  /\ UNCHANGED <<server, table, conn, sender, odd, fault>>
-----------------------------------------------------------------------------
(***************************************************************************)
(* rtp_send_data, the thread of a session                                  *)
(***************************************************************************)
SenderGoes(s, to) == sender' = [sender EXCEPT ![s].at = to]
Others == UNCHANGED <<server, table, conn, handler, session, odd>>

\* The head of the loop, where the thread may also find no record.  The
\* mutant looks for EXIT only while nothing is played.
ExitUnlessPlayed(s) ==
  /\ sender[s].at = "loop"
  /\ session[s].status = "EXIT" /\ session[s].transport = "none"
  /\ SenderGoes(s, "exited")
  /\ Others /\ UNCHANGED fault
Exit(s) ==
  /\ sender[s].at = "loop"
  /\ session[s].status = "EXIT"
  /\ SenderGoes(s, "exited")
  /\ Others /\ UNCHANGED fault

GetRecord(s) ==
  /\ sender[s].at = "loop"
  /\ session[s].status = "PLAY"
  /\ SenderGoes(s, "packet")
  /\ Others /\ UNCHANGED fault

\* __packet calls send of the transport of the track.
SendStarts(s) ==
  /\ sender[s].at = "packet"
  /\ IF session[s].transport = "none" THEN Dies("null", s) /\ UNCHANGED sender
     ELSE /\ sender' = [sender EXCEPT ![s] = [at |-> "sending", on |-> session[s].transport,
                                              current |-> TRUE]]
          /\ UNCHANGED fault
  /\ Others

\* A packet is sent, and another one of the record, or the next record, is up.
SendEnds(s, to) ==
  /\ sender[s].at = "sending"
  /\ IF sender[s].on \in {"udp", "tcp"}
     THEN /\ sender' = [sender EXCEPT ![s] = [NoSender EXCEPT !.at = to]]
          /\ UNCHANGED fault
     ELSE /\ Dies(IF sender[s].on = "cut" THEN "connection" ELSE "transport", s)
          /\ UNCHANGED sender
  /\ Others
-----------------------------------------------------------------------------
Uninit == TakeLock \/ StopSession \/ JoinSession \/ Unlock \/ FreeServer
Request(k) ==
  Describe(k) \/ Setup(k) \/ SetupDies(k) \/ Play(k) \/ Teardown(k) \/ LooksAstray(k)
Handle(k) ==
  \/ Touch(k) \/ Channel(k) \/ Swap(k) \/ NoTrack(k) \/ FreeOld(k) \/ SetPlay(k)
  \/ EndTeardown(k) \/ UsesAstray(k)
Send(s) == Exit(s) \/ GetRecord(s) \/ SendStarts(s) \/ SendEnds(s, "packet") \/ SendEnds(s, "loop")

Next ==
  /\ fault = NoFault
  /\ \/ Start \/ Unlisten \/ Uninit
     \/ \E k \in Keys : Connect(k) \/ Disconnect(k) \/ Request(k) \/ Handle(k)
     \/ \E s \in Sessions : Send(s)

Spec == Init /\ [][Next]_vars

\* The threads run whenever they can, and every record has an end.
Alive == fault = NoFault
Fairness ==
  /\ WF_vars(Alive /\ Uninit)
  /\ \A k \in Keys : WF_vars(Alive /\ Handle(k))
  /\ \A s \in Sessions : WF_vars(Alive /\ Send(s)) /\ SF_vars(Alive /\ SendEnds(s, "loop"))
FairSpec == Spec /\ Fairness
-----------------------------------------------------------------------------
Live(s) == session[s].st = "live"

\* Every variable has its type, a session that was freed has given its
\* transport back, and there is a thread for every session there ever was.
TypeOK ==
  /\ ctl \in {"off", "on"} \cup Stopping /\ victim \in Keys /\ gen \in 0 .. MaxServers
  /\ table \in [Servers -> SUBSET Keys]
  /\ conn \in [Keys -> 0 .. gen] /\ handler \in [Keys -> HandlerAt]
  /\ session \in [Sessions -> [st : {"none", "live", "freed"}, status : {"SETUP", "PLAY", "EXIT"},
                                transport : Transports]]
  /\ sender \in [Sessions -> [at : {"none", "loop", "packet", "sending", "exited"},
                               on : Transports \cup {"freed"}, current : BOOLEAN]]
  /\ odd \in [Sessions -> SUBSET Befalls]
  /\ fault = NoFault \/ fault \in Faults \X Sessions
  /\ \A s \in Sessions :
       /\ ~Live(s) => session[s].transport = "none"
       /\ sender[s].at = "none" <=> session[s].st = "none"

\* A session is used without the lock it was found under.  That is safe until
\* the server is stopped, which frees sessions under the handlers that use
\* them, and the server itself under clients that stay connected.
HandlersSafe == fault[1] \in {"server", "session"} => fault[2][1] < gen \/ ctl # "on"

\* The thread of a session sends on a NULL transport only after a PLAY before
\* any SETUP, or after the server answered 200 to a SETUP whose transport it
\* could not make or whose track it does not send; on a freed one only after a
\* SETUP during PLAY; and over a closed connection only when its own client
\* left without TEARDOWN.
StrikesHaveCause ==
  /\ fault[1] = "null" => odd[fault[2]] \cap Unready # {}
  /\ fault[1] = "transport" => "reset" \in odd[fault[2]]
  /\ fault[1] = "connection" => "left" \in odd[fault[2]]

\* The state is well formed; a session that lives is in a hash that is in use
\* or that uninit has still to empty, or somebody is joining its thread, or
\* DESCRIBE added it between the unlock of uninit and the free: no other
\* session is lost with its thread running.  And rtp_media_live_free joins
\* before it frees: no thread runs on a session that is gone.
SessionsAndThreadsAgree ==
  /\ TypeOK
  /\ \A s \in Sessions :
       /\ Live(s) =>
            \/ s[2] \in table[s[1]] /\ Tended(s[1])
            \/ S(s[2]) = s /\ handler[s[2]] = "join"
            \/ s = <<gen, victim>> /\ ctl = "join"
            \/ "late" \in odd[s]
       /\ sender[s].at \in {"none", "exited"} \/ Live(s)

\* uninit waits for a thread that a PLAY told to play after it was told to exit.
Overwritten == ctl = "join" /\ session[<<gen, victim>>].status = "PLAY"

\* Every request that was begun is answered and every stop of the server ends,
\* unless a PLAY overtook the EXIT of the session that is being stopped, or the
\* process ends by a fault: a misuse, a SETUP for multicast or without a port
\* or a track.
RequestsAndStopsEnd ==
  /\ \A k \in Keys :
       handler[k] # "idle" ~> (handler[k] = "idle" \/ Overwritten \/ fault # NoFault)
  /\ <>[](ctl \in Stopping) => <>[](Overwritten \/ fault # NoFault)
=============================================================================
