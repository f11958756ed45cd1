------------------------------ MODULE FaceAlg ------------------------------
(***************************************************************************)
(* The face detector of the app process: the two threads and the result    *)
(* queue of mod/alg-hi3516d/src/hal/face.c, and the set operation of       *)
(* mod/app/src/interface/alg_mgr.c that starts and stops them.             *)
(*                                                                         *)
(* set runs on the thread that serves the requests of the process, one     *)
(* request at a time.  Every enable creates a worker, which fetches a frame*)
(* through a callback into alg_mgr.c, detects and posts a result, and a    *)
(* reader, which takes results off the queue and passes them to the OSD of *)
(* the vsf process.  A disable takes the frame FIFO, the frame buffer and  *)
(* the OSD stub away first and only then stops and joins the threads.      *)
(*                                                                         *)
(* Memory that is used after it was given back is undefined behaviour: it  *)
(* may go unnoticed, or the process dies there and then, which is recorded *)
(* in fault together with what was misused.                                *)
(***************************************************************************)
EXTENDS Integers, FiniteSets

CONSTANTS QueDepth,     \* the depth of the result queue (32 in the code)
          MaxEnables    \* bound: how often the detector is enabled

ASSUME FaceAssumption ==
  /\ QueDepth \in Nat \ {0}
  /\ MaxEnables \in Nat \ {0}

VARIABLES ctl,      \* where the request thread is in set
          enabled,  \* cfgs[id].enable
          stopped,  \* history: some disable has begun
          repeated, \* history: some request repeated the one before it
          fifo,     \* priv->fifos[id] is attached
          buf,      \* priv->bufs[id].data is allocated
          osd,      \* priv->osds[id], which the result callback holds too
          stop,     \* s_bStopSignal
          gen,      \* how many inits there were: the current threads and queue
          joined,   \* the handles in priv belong to threads already joined
          que,      \* que[g]: how many results the queue of init g holds
          qstate,   \* whether that queue exists
          worker,   \* worker[g]: the thread hs_fd_task of init g
          reader,   \* reader[g]: the thread hs_fd_result_task of init g
          asleepOn, \* asleepOn[g]: the queue that reader g sleeps on
          fault     \* the misuse that killed the process

alg == <<fifo, buf, osd>>
face == <<stop, gen, joined, que, qstate, worker, reader, asleepOn>>
asked == <<stopped, repeated>>
vars == <<ctl, enabled, asked, alg, face, fault>>

Gens == 1 .. MaxEnables

Enabling == {"attach", "alloc", "start", "queue", "threads"}
Stopping == {"dropFifo", "dropBuf", "dropOsd", "signal", "joinWorker", "joinReader", "delete"}
WorkerAt == {"absent", "loop", "calling", "waiting", "detect", "recalling", "rewaiting", "exited"}
ReaderAt == {"absent", "loop", "asleep", "callback", "exited"}

Init ==
  /\ ctl = "idle" /\ enabled = FALSE /\ stopped = FALSE /\ repeated = FALSE
  /\ fifo = FALSE /\ buf = FALSE /\ osd = "none"
  /\ stop = TRUE /\ gen = 0 /\ joined = TRUE
  /\ que = [g \in Gens |-> 0]
  /\ qstate = [g \in Gens |-> "none"]
  /\ worker = [g \in Gens |-> "absent"]
  /\ reader = [g \in Gens |-> "absent"]
  /\ asleepOn = [g \in Gens |-> 0]
  /\ fault = "none"

Dies(what) == fault' = what
\* Undefined behaviour: the process dies, or does not.
MayDie(what) == fault' \in {"none", what}
-----------------------------------------------------------------------------
(***************************************************************************)
(* set, enable: frame FIFO, OSD stub and buffer, callbacks, init.          *)
(***************************************************************************)
Enable ==
  /\ ctl = "idle"
  /\ gen < MaxEnables
  /\ ctl' = "attach" /\ repeated' = (repeated \/ enabled)
  /\ UNCHANGED <<enabled, stopped, alg, face, fault>>

Attach ==
  /\ ctl = "attach"
  /\ fifo' = TRUE
  /\ ctl' = "alloc"
  /\ UNCHANGED <<enabled, asked, buf, osd, face, fault>>

\* The OSD stub, the buffer, and the registration of both in the callbacks.
Alloc ==
  /\ ctl = "alloc"
  /\ osd' = "open" /\ buf' = TRUE
  /\ ctl' = "start"
  /\ UNCHANGED <<enabled, asked, fifo, face, fault>>

\* __hs_fd_init clears the stop signal first.
InitStart ==
  /\ ctl = "start"
  /\ stop' = FALSE
  /\ ctl' = "queue"
  /\ UNCHANGED <<enabled, asked, alg, gen, joined, que, qstate, worker, reader, asleepOn, fault>>

\* A new queue replaces the pointer to the old one, if there was one.
InitQueue ==
  /\ ctl = "queue"
  /\ gen' = gen + 1
  /\ qstate' = [qstate EXCEPT ![gen'] = "open"]
  /\ ctl' = "threads"
  /\ UNCHANGED <<enabled, asked, alg, stop, joined, que, worker, reader, asleepOn, fault>>

InitThreads ==
  /\ ctl = "threads"
  /\ worker' = [worker EXCEPT ![gen] = "loop"]
  /\ reader' = [reader EXCEPT ![gen] = "loop"]
  /\ joined' = FALSE
  /\ enabled' = TRUE
  /\ ctl' = "idle"
  /\ UNCHANGED <<asked, alg, stop, gen, que, qstate, asleepOn, fault>>
-----------------------------------------------------------------------------
(***************************************************************************)
(* set, disable.  The mutants below change the order of its steps.         *)
(***************************************************************************)
Disable ==
  /\ ctl = "idle"
  /\ ctl' = "dropFifo" /\ stopped' = TRUE /\ repeated' = (repeated \/ ~enabled)
  /\ UNCHANGED <<enabled, alg, face, fault>>

DropFifo ==
  /\ ctl = "dropFifo"
  /\ fifo' = FALSE
  /\ ctl' = "dropBuf"
  /\ UNCHANGED <<enabled, asked, buf, osd, face, fault>>

DropBuf ==
  /\ ctl = "dropBuf"
  /\ buf' = FALSE
  /\ ctl' = "dropOsd"
  /\ UNCHANGED <<enabled, asked, fifo, osd, face, fault>>

\* osds[id] is not cleared, so a second disable destroys the stub again.
DropOsd ==
  /\ ctl = "dropOsd"
  /\ osd' = IF osd = "none" THEN "none" ELSE "freed"
  /\ IF osd = "freed" THEN Dies("osd") ELSE fault' = fault
  /\ ctl' = "signal"
  /\ UNCHANGED <<enabled, asked, fifo, buf, face>>

SignalStop ==
  /\ ctl = "signal"
  /\ stop' = TRUE
  /\ ctl' = "joinWorker"
  /\ UNCHANGED <<enabled, asked, alg, gen, joined, que, qstate, worker, reader, asleepOn, fault>>

\* pthread_join of a handle that was never set, or was joined before, is
\* undefined.  The mutants do not wait for the thread.
JoinWorkerDetached ==
  /\ ctl = "joinWorker"
  /\ IF joined THEN Dies("join") ELSE fault' = fault
  /\ ctl' = "joinReader"
  /\ UNCHANGED <<enabled, asked, alg, face>>
JoinWorker ==
  /\ ctl = "joinWorker"
  /\ IF joined THEN Dies("join") ELSE worker[gen] = "exited" /\ fault' = fault
  /\ ctl' = "joinReader"
  /\ UNCHANGED <<enabled, asked, alg, face>>

JoinReaderDetached ==
  /\ ctl = "joinReader"
  /\ IF joined THEN Dies("join") ELSE fault' = fault
  /\ joined' = TRUE
  /\ ctl' = "delete"
  /\ UNCHANGED <<enabled, asked, alg, stop, gen, que, qstate, worker, reader, asleepOn>>
JoinReader ==
  /\ ctl = "joinReader"
  /\ IF joined THEN Dies("join") ELSE reader[gen] = "exited" /\ fault' = fault
  /\ joined' = TRUE
  /\ ctl' = "delete"
  /\ UNCHANGED <<enabled, asked, alg, stop, gen, que, qstate, worker, reader, asleepOn>>

\* que_delete frees the queue, not the results it still holds; the mutant
\* waits for it to be drained.
DeleteQueueDrained ==
  /\ ctl = "delete" /\ gen # 0
  /\ que[gen] = 0
  /\ qstate' = [qstate EXCEPT ![gen] = "deleted"]
  /\ enabled' = FALSE
  /\ ctl' = "idle"
  /\ UNCHANGED <<que, asked, alg, stop, gen, joined, worker, reader, asleepOn, fault>>
DeleteQueue ==
  /\ ctl = "delete"
  /\ IF gen = 0 THEN Dies("que") /\ UNCHANGED <<que, qstate>>
     ELSE /\ qstate' = [qstate EXCEPT ![gen] = "deleted"]
          /\ que' = [que EXCEPT ![gen] = 0]
          /\ IF qstate[gen] # "open" THEN Dies("que") ELSE fault' = fault
  /\ enabled' = FALSE
  /\ ctl' = "idle"
  /\ UNCHANGED <<asked, alg, stop, gen, joined, worker, reader, asleepOn>>
-----------------------------------------------------------------------------
(***************************************************************************)
(* hs_fd_task                                                              *)
(***************************************************************************)
WorkerMoves(g, to) == worker' = [worker EXCEPT ![g] = to]
Elsewhere == UNCHANGED <<ctl, enabled, asked, alg, stop, gen, joined>>

WorkerLoop(g) ==
  /\ worker[g] = "loop"
  /\ WorkerMoves(g, IF stop THEN "exited" ELSE "calling")
  /\ Elsewhere /\ UNCHANGED <<que, qstate, reader, asleepOn, fault>>

\* __app_alg_get_frame, which runs at the head of the loop and once more, in
\* place of the call that would give the frame back, at its end.
CallGetFrame(g) ==
  /\ \/ worker[g] = "calling" /\ WorkerMoves(g, "waiting")
     \/ worker[g] = "recalling" /\ WorkerMoves(g, "rewaiting")
  /\ IF fifo THEN fault' = fault ELSE Dies("fifo")
  /\ Elsewhere /\ UNCHANGED <<que, qstate, reader, asleepOn>>

\* A frame arrives while the FIFO and the buffer are there.
FrameArrives(g) ==
  /\ fifo
  /\ \/ worker[g] = "waiting" /\ WorkerMoves(g, "detect")
     \/ worker[g] = "rewaiting" /\ WorkerMoves(g, "loop")
  /\ IF buf THEN fault' = fault ELSE MayDie("buf")
  /\ Elsewhere /\ UNCHANGED <<que, qstate, reader, asleepOn>>

\* The FIFO was destroyed under a waiting worker: undefined, the call may
\* also fail (which restarts the loop) or never return.
FifoVanishes(g) ==
  /\ ~fifo
  /\ worker[g] \in {"waiting", "rewaiting"}
  /\ WorkerMoves(g, "loop")
  /\ MayDie("fifo")
  /\ Elsewhere /\ UNCHANGED <<que, qstate, reader, asleepOn>>

\* A call of the platform fails and the thread returns.
WorkerGivesUp(g) ==
  /\ worker[g] = "detect"
  /\ WorkerMoves(g, "exited")
  /\ IF buf THEN fault' = fault ELSE MayDie("buf")
  /\ Elsewhere /\ UNCHANGED <<que, qstate, reader, asleepOn>>

\* Detection on the buffer, then the result is posted without blocking: it
\* is lost when the queue is full, or when there was no memory for it.
Detect(g) ==
  /\ worker[g] = "detect"
  /\ WorkerMoves(g, "recalling")
  /\ \/ que' = [que EXCEPT ![gen] = IF @ < QueDepth THEN @ + 1 ELSE @]
     \/ que' = que
  /\ \/ fault' = fault
     \/ ~buf /\ Dies("buf")
     \/ qstate[gen] # "open" /\ Dies("que")
  /\ Elsewhere /\ UNCHANGED <<qstate, reader, asleepOn>>
-----------------------------------------------------------------------------
(***************************************************************************)
(* hs_fd_result_task                                                       *)
(***************************************************************************)
ReaderMoves(g, to) == reader' = [reader EXCEPT ![g] = to]

ReaderExits(g) ==
  /\ reader[g] = "loop"
  /\ stop
  /\ ReaderMoves(g, "exited")
  /\ Elsewhere /\ UNCHANGED <<que, qstate, worker, asleepOn, fault>>

\* que_get on the current queue, which sleeps while it is empty.
ReaderGets(g) ==
  /\ reader[g] = "loop"
  /\ ~stop
  /\ IF que[gen] > 0
     THEN /\ que' = [que EXCEPT ![gen] = @ - 1]
          /\ ReaderMoves(g, "callback")
          /\ UNCHANGED asleepOn
     ELSE /\ ReaderMoves(g, "asleep")
          /\ asleepOn' = [asleepOn EXCEPT ![g] = gen]
          /\ UNCHANGED que
  /\ IF qstate[gen] = "open" THEN fault' = fault ELSE MayDie("que")
  /\ Elsewhere /\ UNCHANGED <<qstate, worker>>

\* The reader wakes up with a result in its queue.
ReaderWakes(g) ==
  /\ reader[g] = "asleep"
  /\ que[asleepOn[g]] > 0
  /\ que' = [que EXCEPT ![asleepOn[g]] = @ - 1]
  /\ ReaderMoves(g, "callback")
  /\ IF qstate[asleepOn[g]] = "open" THEN fault' = fault ELSE MayDie("que")
  /\ Elsewhere /\ UNCHANGED <<qstate, worker, asleepOn>>

\* __app_alg_result calls tgr of the OSD stub and the result is freed.
ReaderDelivers(g) ==
  /\ reader[g] = "callback"
  /\ ReaderMoves(g, "loop")
  /\ IF osd = "open" THEN fault' = fault ELSE MayDie("osd")
  /\ Elsewhere /\ UNCHANGED <<que, qstate, worker, asleepOn>>
-----------------------------------------------------------------------------
Control ==
  \/ Attach \/ Alloc \/ InitStart \/ InitQueue \/ InitThreads
  \/ DropFifo \/ DropBuf \/ DropOsd \/ SignalStop
  \/ JoinWorker \/ JoinReader \/ DeleteQueue

WorkerStep(g) ==
  WorkerLoop(g) \/ CallGetFrame(g) \/ FrameArrives(g) \/ WorkerGivesUp(g) \/ Detect(g)

ReaderStep(g) == ReaderExits(g) \/ ReaderGets(g) \/ ReaderWakes(g) \/ ReaderDelivers(g)

Next ==
  /\ fault = "none"
  /\ \/ Enable \/ Disable \/ Control
     \/ \E g \in 1 .. gen : WorkerStep(g) \/ FifoVanishes(g) \/ ReaderStep(g)

Spec == Init /\ [][Next]_vars

\* Every thread runs whenever it can, and vsf keeps producing frames.
Alive == fault = "none"
Fairness ==
  /\ WF_vars(Alive /\ Control)
  /\ \A g \in Gens : WF_vars(Alive /\ g <= gen /\ WorkerStep(g))
  /\ \A g \in Gens : WF_vars(Alive /\ g <= gen /\ ReaderStep(g))
FairSpec == Spec /\ Fairness
-----------------------------------------------------------------------------
\* Every variable has its type: in particular the queue never holds more
\* results than its depth.
TypeOK ==
  /\ ctl \in {"idle"} \cup Enabling \cup Stopping
  /\ {enabled, stopped, repeated, fifo, buf, stop, joined} \subseteq BOOLEAN
  /\ osd \in {"none", "open", "freed"}
  /\ gen \in 0 .. MaxEnables
  /\ que \in [Gens -> 0 .. QueDepth]
  /\ qstate \in [Gens -> {"none", "open", "deleted"}]
  /\ worker \in [Gens -> WorkerAt]
  /\ reader \in [Gens -> ReaderAt]
  /\ asleepOn \in [Gens -> 0 .. MaxEnables]
  /\ fault \in {"none", "fifo", "buf", "osd", "que", "join"}

Running(g) == worker[g] \notin {"absent", "exited"} \/ reader[g] \notin {"absent", "exited"}

\* Turning the detector on, once or again, never makes a thread use memory
\* that was given back: every misuse needs a disable first.  When requests
\* alternate, there is only the window that set opens by dropping the FIFO, the
\* buffer and the OSD stub before it has stopped the threads that use them.
\* Even then the joins of __hs_fd_destroy come before its que_delete: no thread
\* ever uses a queue that is gone, which is what que.c asks of its callers, or
\* is joined twice.
FaultOnlyWhileStopping ==
  /\ fault # "none" => stopped
  /\ fault # "none" /\ ~repeated => ctl \in Stopping /\ fault \notin {"que", "join"}

\* The state is well formed, and when requests alternate, nothing of the
\* detector runs once a disable has returned: the next enable starts from a
\* clean slate.
StoppedIsQuiet ==
  /\ TypeOK
  /\ ctl \in {"idle", "attach", "alloc", "start"} /\ ~enabled /\ ~repeated /\ fault = "none" =>
       \A g \in Gens : ~Running(g) /\ qstate[g] # "open"

\* When requests alternate, __hs_fd_destroy hangs in exactly two ways: the
\* reader sleeps in que_get (it asked for block mode) with no worker left to
\* wake it, or the worker sleeps in the FIFO that was destroyed under it.
Stuck ==
  \E g \in Gens :
    \/ reader[g] = "asleep" /\ que[asleepOn[g]] = 0 /\ worker[g] = "exited"
    \/ worker[g] \in {"waiting", "rewaiting"} /\ ~fifo

\* A disable that never returns is stuck in one of these two ways for good, and
\* when requests alternate, a posted result wakes the reader: it does not sleep
\* beside a result.
StopEnds ==
  /\ <>[](ctl \in Stopping /\ ~repeated) => <>[](Stuck \/ fault # "none")
  /\ \A g \in Gens :
       (reader[g] = "asleep" /\ que[asleepOn[g]] > 0)
         ~> (reader[g] # "asleep" \/ repeated \/ fault # "none")
=============================================================================
