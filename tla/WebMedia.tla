------------------------------ MODULE WebMedia ------------------------------
(***************************************************************************)
(* The HTTP server of the web process and its video sessions: the event    *)
(* thread of mod/web/src/web/web-http.c, the sessions of web-media.c with  *)
(* one sender thread each, and the set operation of interface/svr_mgr.c,   *)
(* which starts and stops the server.                                      *)
(*                                                                         *)
(* A sender appends what it has muxed to the buffer of its session and     *)
(* sends a message to the event thread, which answers with a byte and then *)
(* sends the buffer on the connection whose session the message names.     *)
(* All senders wait for their byte on one socket, and whoever is first     *)
(* takes it.  The byte is sent before the buffer is, so the sender may     *)
(* append to the buffer while the event thread sends and clears it.        *)
(*                                                                         *)
(* A session is named by its address, which may be used again as soon as   *)
(* it was freed.  The first misuse of memory ends the model and is         *)
(* recorded in fault.                                                      *)
(***************************************************************************)
EXTENDS Integers, FiniteSets, Sequences

CONSTANT Addresses   \* where sessions are allocated

ASSUME WebAssumption == IsFiniteSet(Addresses)

VARIABLES ctl,      \* the request thread: server on or off, or joining its thread
          status,   \* the status word of the server
          at,       \* where the event thread is
          cur,      \* the session it works on
          queue,    \* the messages to it
          replies,  \* the bytes it sent that nobody took
          linked,   \* linked[s]: some connection has session s: "no", "yes" or "closing"
          session,  \* session[s]: status of the media, buffer, the server it sends to
          sender,   \* sender[s]: where its thread is
          early,    \* history: the threads that started before their callbacks were set
          ahead,    \* history: whose sender took a byte while its message was pending
          stale,    \* history: who was opened while a message of the last session
                    \* at its address was pending
          fault     \* the misuse

http == <<ctl, status>>
event == <<at, cur, queue, replies>>
vars == <<http, event, linked, session, sender, early, ahead, stale, fault>>

\* buf is raw until media_send_pre has run, and holds more when bytes were
\* appended since the event thread began to send it.
Free == [media |-> "none", buf |-> "raw", mgr |-> "up"]
EventAt == {"none", "init", "loop", "register", "callback", "send", "closed", "exited"}
SenderAt == {"none", "start", "loop", "append", "copy", "broadcast", "wait"}
Alive(s) == session[s].media # "none"

Init ==
  /\ ctl = "off" /\ status = "SETUP"
  /\ at = "none" /\ cur \in Addresses /\ queue = <<>> /\ replies = 0
  /\ linked = [s \in Addresses |-> "no"]
  /\ session = [s \in Addresses |-> Free]
  /\ sender = [s \in Addresses |-> "none"]
  /\ early = {} /\ ahead = {} /\ stale = {}
  /\ fault = "none"

Dies(what) == fault' = what
-----------------------------------------------------------------------------
(***************************************************************************)
(* set of the manager: http_server_init and http_server_uninit             *)
(***************************************************************************)
Start ==
  /\ ctl = "off"
  /\ ctl' = "on" /\ status' = "SETUP" /\ at' = "init"
  /\ UNCHANGED <<cur, queue, replies, linked, session, sender, early, ahead, stale, fault>>

Stop ==
  /\ ctl = "on"
  /\ ctl' = "join" /\ status' = "EXIT"
  /\ UNCHANGED <<event, linked, session, sender, early, ahead, stale, fault>>

\* The manager of the connections is part of what is freed.  The mutant does
\* not wait for the thread.
Release(to) == session' = [s \in Addresses |-> IF Alive(s) THEN [session[s] EXCEPT !.mgr = to]
                                               ELSE session[s]]
JoinDetached ==
  /\ ctl = "join"
  /\ ctl' = "off" /\ at' = "none"
  /\ Release("freed")
  /\ UNCHANGED <<status, cur, queue, replies, linked, sender, early, ahead, stale, fault>>
Join ==
  /\ ctl = "join" /\ at = "exited"
  /\ ctl' = "off" /\ at' = "none"
  /\ Release("freed")
  /\ UNCHANGED <<status, cur, queue, replies, linked, sender, early, ahead, stale, fault>>
-----------------------------------------------------------------------------
(***************************************************************************)
(* http_server_thread and ev_handler                                       *)
(***************************************************************************)
Bind ==
  /\ at = "init"
  /\ \/ at' = "loop" /\ status' = "RUNNING"
     \/ at' = "exited" /\ UNCHANGED status
  /\ UNCHANGED <<ctl, cur, queue, replies, linked, session, sender, early, ahead, stale, fault>>

\* media_session_new: the thread of the session starts before its callbacks
\* are set.  Messages of the session that had its address before may still be
\* pending.
Queued(s) == \E i \in DOMAIN queue : queue[i] = s
Open(s) ==
  /\ at = "loop" /\ ~Alive(s)
  /\ session' = [session EXCEPT ![s] = [Free EXCEPT !.media = "SETUP"]]
  /\ sender' = [sender EXCEPT ![s] = "start"]
  /\ stale' = IF Queued(s) THEN stale \cup {s} ELSE stale
  /\ at' = "register" /\ cur' = s
  /\ UNCHANGED <<http, queue, replies, linked, early, ahead, fault>>

\* The copy of the uri of a handshake into 64 bytes is not bounded.
OpenLong ==
  /\ at = "loop"
  /\ Dies("path")
  /\ UNCHANGED <<http, event, linked, session, sender, early, ahead, stale>>

\* The mutant forgets that the connection has a session.
RegisterUnlinked ==
  /\ at = "register"
  /\ session' = [session EXCEPT ![cur].media = "PLAY"]
  /\ at' = "loop"
  /\ UNCHANGED <<http, cur, queue, replies, linked, sender, early, ahead, stale, fault>>
Register ==
  /\ at = "register"
  /\ session' = [session EXCEPT ![cur].media = "PLAY"]
  /\ linked' = [linked EXCEPT ![cur] = "yes"]
  /\ at' = "loop"
  /\ UNCHANGED <<http, cur, queue, replies, sender, early, ahead, stale, fault>>

\* A connection closes, because the client left or the server flagged it.
Close(s) ==
  /\ at = "loop" /\ linked[s] # "no"
  /\ linked' = [linked EXCEPT ![s] = "no"]
  /\ session' = [session EXCEPT ![s].media = "EXIT"]
  /\ UNCHANGED <<http, event, sender, early, ahead, stale, fault>>

\* The next message is answered before its callback runs.
TakeMessage ==
  /\ at = "loop" /\ queue # <<>>
  /\ queue' = Tail(queue) /\ replies' = replies + 1 /\ cur' = Head(queue)
  /\ at' = IF linked[cur'] = "no" THEN "loop" ELSE "callback"
  /\ UNCHANGED <<http, linked, session, sender, early, ahead, stale, fault>>

\* on_media_read: the buffer is sent.  An empty buffer, or too much that was
\* not sent yet, closes the connection.
Read ==
  /\ at = "callback" /\ session[cur].buf # "raw"
  /\ \/ session[cur].buf # "empty" /\ at' = "send" /\ UNCHANGED linked
     \/ /\ at' = "loop"
        /\ linked' = [linked EXCEPT ![cur] = "closing"]
  /\ UNCHANGED <<http, cur, queue, replies, session, sender, early, ahead, stale, fault>>

\* The buffer is emptied, of what was appended meanwhile too.  A sender that is
\* appending may have moved it.
Clear ==
  /\ at = "send"
  /\ session' = [session EXCEPT ![cur].buf = "empty"]
  /\ at' = "loop"
  /\ fault' \in IF sender[cur] = "copy" THEN {"none", "moved"} ELSE {"none"}
  /\ UNCHANGED <<http, cur, queue, replies, linked, sender, early, ahead, stale>>
ReadAstray ==
  /\ at = "callback" /\ session[cur].buf = "raw"
  /\ Dies("buffer")
  /\ UNCHANGED <<http, event, linked, session, sender, early, ahead, stale>>

\* mg_mgr_free closes the sockets of the messages, then the connections, which
\* ends their sessions.
CloseSockets ==
  /\ at = "loop" /\ status # "RUNNING"
  /\ at' = "closed" /\ queue' = <<>> /\ replies' = 0
  /\ Release("closed")
  /\ UNCHANGED <<http, cur, linked, sender, early, ahead, stale, fault>>
CloseConnections ==
  /\ at = "closed"
  /\ session' = [s \in Addresses |-> IF linked[s] = "no" THEN session[s]
                                     ELSE [session[s] EXCEPT !.media = "EXIT"]]
  /\ linked' = [s \in Addresses |-> "no"]
  /\ at' = "exited"
  /\ UNCHANGED <<http, cur, queue, replies, sender, early, ahead, stale, fault>>
-----------------------------------------------------------------------------
(***************************************************************************)
(* flv_send_proc, the thread of a session                                  *)
(***************************************************************************)
Goes(s, to) == sender' = [sender EXCEPT ![s] = to]
Others == UNCHANGED <<http, at, cur, linked, stale>>

\* The thread sleeps once and goes on, whether or not its callbacks are set:
\* while they are being set, it may find all, none, or a callback without its
\* argument.
SendPre(s) ==
  /\ sender[s] = "start"
  /\ \/ /\ session' = [session EXCEPT ![s].buf = "empty"]
        /\ UNCHANGED <<early, fault>>
     \/ /\ at = "register" /\ cur = s
        /\ early' = early \cup {s}
        /\ fault' \in {"none", "callback"}
        /\ UNCHANGED session
  /\ Goes(s, "loop")
  /\ Others /\ UNCHANGED <<queue, replies, ahead>>

\* The head of the loop, and a record, or none within a second.  The mutant
\* does not look at the status.
GetRecordAnyway(s) ==
  /\ sender[s] = "loop"
  /\ Goes(s, "append")
  /\ Others /\ UNCHANGED <<queue, replies, session, early, ahead, fault>>
GetRecord(s) ==
  /\ sender[s] = "loop" /\ session[s].media # "EXIT"
  /\ Goes(s, "append")
  /\ Others /\ UNCHANGED <<queue, replies, session, early, ahead, fault>>

\* media_send_post frees the buffer, which must not be raw, and the session,
\* whose history ends with it.
SendPost(s) ==
  /\ sender[s] = "loop" /\ session[s].media = "EXIT"
  /\ IF session[s].buf = "raw"
     THEN Dies("buffer") /\ UNCHANGED <<session, sender, early, ahead, stale>>
     ELSE /\ session' = [session EXCEPT ![s] = Free]
          /\ early' = early \ {s} /\ ahead' = ahead \ {s}
          /\ stale' = stale \ {s}
          /\ Goes(s, "none")
          /\ UNCHANGED fault
  /\ UNCHANGED <<http, event, linked>>

\* media_send_proc: mbuf_append, which may move the buffer.  Nothing is sent
\* while there is no callback.
Append1(s) ==
  /\ sender[s] = "append"
  /\ IF session[s].media = "SETUP" THEN Goes(s, "loop") /\ UNCHANGED fault
     ELSE IF session[s].buf = "raw" THEN Dies("buffer") /\ UNCHANGED sender
     ELSE Goes(s, "copy") /\ UNCHANGED fault
  /\ Others /\ UNCHANGED <<queue, replies, session, early, ahead>>
Sending(s) == at = "send" /\ cur = s
Appended(s) ==
  /\ sender[s] = "copy"
  /\ session' = [session EXCEPT ![s].buf = IF Sending(s) THEN "more" ELSE "data"]
  /\ fault' \in IF Sending(s) THEN {"none", "moved"} ELSE {"none"}
  /\ Goes(s, "broadcast")
  /\ Others /\ UNCHANGED <<queue, replies, early, ahead>>

\* mg_broadcast, to a manager whose sockets may be closed or which may be gone.
\* The mutant goes on without the byte.
BroadcastNoWait(s) ==
  /\ sender[s] = "broadcast" /\ session[s].mgr = "up"
  /\ queue' = Append(queue, s)
  /\ Goes(s, "loop")
  /\ Others /\ UNCHANGED <<replies, session, early, ahead, fault>>
Broadcast(s) ==
  /\ sender[s] = "broadcast"
  /\ CASE session[s].mgr = "up" -> /\ queue' = Append(queue, s)
                                   /\ Goes(s, "wait")
                                   /\ UNCHANGED fault
       [] session[s].mgr = "closed" -> Goes(s, "loop") /\ UNCHANGED <<queue, fault>>
       [] session[s].mgr = "freed" -> Dies("manager") /\ UNCHANGED <<queue, sender>>
  /\ Others /\ UNCHANGED <<replies, session, early, ahead>>

\* A byte, of this message or another, and the next write of the record or the
\* next record.  A socket that was closed may leave its thread waiting.
Serving(s) == at \in {"callback", "send"} /\ cur = s
Pending(s) == Serving(s) \/ Queued(s)
TakeReply(s, to) ==
  /\ sender[s] = "wait" /\ session[s].mgr = "up"
  /\ replies > 0 /\ replies' = replies - 1
  /\ ahead' = IF Pending(s) THEN ahead \cup {s} ELSE ahead
  /\ Goes(s, to)
  /\ Others /\ UNCHANGED <<queue, session, early, fault>>
ReplyFails(s) ==
  /\ sender[s] = "wait" /\ session[s].mgr # "up"
  /\ Goes(s, "loop")
  /\ Others /\ UNCHANGED <<queue, replies, session, early, ahead, fault>>
-----------------------------------------------------------------------------
Poll ==
  \/ Bind \/ Register \/ TakeMessage \/ Read \/ Clear \/ ReadAstray \/ CloseSockets \/ CloseConnections
Send(s) ==
  \/ SendPre(s) \/ GetRecord(s) \/ SendPost(s) \/ Append1(s) \/ Appended(s) \/ Broadcast(s)
  \/ TakeReply(s, "append") \/ TakeReply(s, "loop")

Next ==
  /\ fault = "none"
  /\ \/ Start \/ Stop \/ Join \/ Poll \/ OpenLong
     \/ \E s \in Addresses : Open(s) \/ Close(s) \/ Send(s) \/ ReplyFails(s)

Spec == Init /\ [][Next]_vars

\* The threads run whenever they can.  A poll serves every socket and then the
\* loop looks at the status, so messages are taken and EXIT is seen however
\* many connections come and go; and every record has an end.
Running == fault = "none"
Fairness ==
  /\ WF_vars(Running /\ Join)
  /\ WF_vars(Running /\ Poll)
  /\ SF_vars(Running /\ TakeMessage)
  /\ SF_vars(Running /\ CloseSockets)
  /\ \A s \in Addresses :
       /\ WF_vars(Running /\ Send(s))
       /\ SF_vars(Running /\ TakeReply(s, "loop"))
FairSpec == Spec /\ Fairness
-----------------------------------------------------------------------------
\* What the variables hold.
TypeOK ==
  /\ ctl \in {"off", "on", "join"} /\ status \in {"SETUP", "RUNNING", "EXIT"}
  /\ at \in EventAt /\ cur \in Addresses
  /\ queue \in Seq(Addresses) /\ replies \in Nat
  /\ linked \in [Addresses -> {"no", "yes", "closing"}]
  /\ session \in [Addresses -> [media : {"none", "SETUP", "PLAY", "EXIT"},
                                buf : {"raw", "empty", "data", "more"},
                                mgr : {"up", "closed", "freed"}]]
  /\ sender \in [Addresses -> SenderAt]
  /\ early \subseteq Addresses /\ ahead \subseteq Addresses
  /\ stale \subseteq Addresses
  /\ fault \in {"none", "callback", "buffer", "manager", "moved", "path"}

(***************************************************************************)
(* The state is well formed, and connections and the sessions that         *)
(* detached threads free agree: a connection has a session that is playing *)
(* and whose thread runs, and a session that no connection has was told to *)
(* end.                                                                    *)
(***************************************************************************)
SessionsLinked ==
  /\ TypeOK
  /\ \A s \in Addresses :
       /\ linked[s] # "no" => session[s].media = "PLAY" /\ sender[s] # "none"
       /\ Alive(s) => linked[s] # "no" \/ session[s].media = "EXIT" \/ (at = "register" /\ cur = s)

(***************************************************************************)
(* The byte that a sender waits for may be taken by another, but none is   *)
(* short: as long as the server runs, every waiting sender has a message   *)
(* on the way or a byte that is ready.                                     *)
(***************************************************************************)
Waiting == {s \in Addresses : sender[s] = "wait" /\ session[s].mgr = "up"}
RepliesAddUp == Cardinality(Waiting) = Len(queue) + replies

(***************************************************************************)
(* A buffer or a callback is used raw for two reasons only: the thread of  *)
(* this session was faster than regcallback, or the message that is served *)
(* is of the session that had its address before.  The connections of a    *)
(* server that was freed are used only by threads that were told to end,   *)
(* and had not looked.                                                     *)
(***************************************************************************)
MisuseHasCause ==
  /\ fault = "callback" => at = "register" /\ cur \in early
  /\ fault = "buffer" =>
       \E s \in Addresses :
         /\ Alive(s) /\ session[s].buf = "raw"
         /\ s \in early \/ (at = "callback" /\ cur = s /\ s \in stale)
  /\ fault = "manager" =>
       \E s \in Addresses :
         sender[s] = "broadcast" /\ session[s].mgr = "freed" /\ session[s].media = "EXIT"

(***************************************************************************)
(* The byte and the single message on the way keep the sender and the      *)
(* event thread apart in the buffer, with two exceptions: a buffer is sent *)
(* or cleared while the sender appends to it or has appended, which loses  *)
(* bytes or moves what is being sent, and an empty one is taken for the    *)
(* end of the stream (web-http.c:37), only in a session whose own sender   *)
(* took a byte while its message was not served yet, or which was opened   *)
(* while a message of the session that had its address before was queued:  *)
(* on_media_read cannot tell the two apart (web-http.c:32).                *)
(***************************************************************************)
Trouble ==
  \/ at = "callback" /\ session[cur].buf = "empty"
  \/ at = "send" /\ (session[cur].buf = "more" \/ sender[cur] = "copy")
  \/ fault = "moved"
TroubleHasCause == Trouble => cur \in ahead \cup stale

(***************************************************************************)
(* A session that was told to end is freed, unless the server stopped      *)
(* while its thread was waiting for a byte.  http_server_uninit returns,   *)
(* unless the thread overwrote EXIT with RUNNING.                          *)
(***************************************************************************)
Stuck(s) == sender[s] = "wait" /\ session[s].mgr # "up"
SessionsAndStopsEnd ==
  /\ \A s \in Addresses : []<>(session[s].media # "EXIT" \/ Stuck(s) \/ fault # "none")
  /\ []<>(ctl # "join" \/ status = "RUNNING" \/ fault # "none")
=============================================================================
