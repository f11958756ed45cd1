----------------------------- MODULE FaceProofs -----------------------------
(***************************************************************************)
(* The hazards of enabling and disabling the face detector, for any number *)
(* of enables and any depth of its queue.                                  *)
(*                                                                         *)
(* Two histories are safe for reasons of their own.  Before the first      *)
(* disable nothing was ever given back (Unstopped).  While requests        *)
(* alternate, at most the threads of the last init run, and what they may  *)
(* use is known at every place of set (Alternating).                       *)
(***************************************************************************)
EXTENDS FaceAlg, TLAPS

\* Threads and queues that were not created yet.
Fresh ==
  /\ ctl \in {"attach", "alloc", "start", "queue"} => gen < MaxEnables
  /\ ctl = "threads" => gen # 0
  /\ \A g \in Gens : reader[g] = "asleep" => asleepOn[g] \in 1 .. gen

Attached == fifo /\ buf /\ osd = "open"

Unstopped ==
  /\ ctl \notin Stopping /\ fault = "none"
  /\ ctl = "alloc" => fifo
  /\ gen # 0 \/ ctl \in {"start", "queue", "threads"} => Attached
  /\ \A g \in 1 .. gen : qstate[g] = "open"

\* Nothing runs, and only the last init runs and has a queue.
Quiet == \A g \in Gens : ~Running(g) /\ qstate[g] # "open"
Alone ==
  /\ gen \in Gens /\ qstate[gen] = "open"
  /\ \A g \in Gens : g # gen => ~Running(g) /\ qstate[g] # "open"

Up == ctl = "idle" /\ enabled
Alternating ==
  /\ fault # "none" => ctl \in Stopping /\ fault \notin {"que", "join"}
  /\ ctl \in {"attach", "alloc", "start", "queue"} \/ (ctl = "idle" /\ ~enabled) => Quiet
  /\ ctl \in Stopping \cup {"threads"} \/ Up => Alone
  /\ ctl = "threads" => ~Running(gen)
  /\ ctl \in {"joinReader", "delete"} => worker[gen] = "exited"
  /\ ctl = "delete" => reader[gen] = "exited"
  /\ ctl \in Stopping \ {"delete"} \/ Up => ~joined
  /\ ctl \in {"alloc", "start", "queue", "threads", "dropFifo"} \/ Up => fifo
  /\ ctl \in {"start", "queue", "threads", "dropFifo", "dropBuf"} \/ Up => buf
  /\ ctl \in {"start", "queue", "threads", "dropFifo", "dropBuf", "dropOsd"} \/ Up => osd = "open"
  /\ \A g \in Gens : reader[g] = "asleep" => asleepOn[g] = g

IInv == TypeOK /\ Fresh /\ (~stopped => Unstopped) /\ (~repeated => Alternating)
-----------------------------------------------------------------------------
LEMMA InitInv == Init => IInv
<1> SUFFICES ASSUME Init PROVE IInv
  OBVIOUS
<1>1. TypeOK
  <2>1. que \in [Gens -> 0 .. QueDepth] /\ asleepOn \in [Gens -> 0 .. MaxEnables]
        /\ gen \in 0 .. MaxEnables
    BY FaceAssumption DEF Init
  <2>2. worker \in [Gens -> WorkerAt] /\ reader \in [Gens -> ReaderAt]
        /\ qstate \in [Gens -> {"none", "open", "deleted"}]
    BY DEF Init, WorkerAt, ReaderAt
  <2> QED BY <2>1, <2>2 DEF Init, TypeOK
<1>2. Fresh /\ Unstopped
  BY DEF Init, Fresh, Unstopped, Stopping
<1>3. Alternating
  <2>1. Quiet
    BY DEF Init, Quiet, Running
  <2>2. \A g \in Gens : reader[g] # "asleep"
    BY DEF Init
  <2>3. ctl = "idle" /\ ~enabled /\ fault = "none"
    BY DEF Init
  <2> QED BY <2>1, <2>2, <2>3 DEF Alternating, Stopping, Up
<1> QED BY <1>1, <1>2, <1>3 DEF IInv

-----------------------------------------------------------------------------
(***************************************************************************)
(* The request thread.                                                     *)
(***************************************************************************)
\* Every variable of FaceAlg but those a control step touches.
LEMMA Types == TypeOK => /\ enabled \in BOOLEAN /\ stopped \in BOOLEAN /\ repeated \in BOOLEAN
                         /\ fifo \in BOOLEAN /\ buf \in BOOLEAN /\ stop \in BOOLEAN
                         /\ joined \in BOOLEAN /\ gen \in Nat /\ MaxEnables \in Nat
                         /\ gen <= MaxEnables
                         /\ Gens = 1 .. MaxEnables /\ QueDepth \in Nat
BY FaceAssumption DEF TypeOK, Gens

LEMMA EnableInv == IInv /\ fault = "none" /\ Enable => IInv'
<1> SUFFICES ASSUME IInv, fault = "none", Enable PROVE IInv'
  OBVIOUS
<1> USE Types DEF IInv, Enable, alg, face
<1>1. TypeOK'
  BY DEF TypeOK, Enabling
<1>2. Fresh' /\ (~stopped' => Unstopped')
  BY DEF Fresh, Unstopped, Attached, Stopping
<1>3. ~repeated' => Alternating'
  BY DEF Alternating, Up, Quiet, Running, Stopping
<1> QED BY <1>1, <1>2, <1>3

LEMMA AttachInv == IInv /\ fault = "none" /\ Attach => IInv'
<1> SUFFICES ASSUME IInv, fault = "none", Attach PROVE IInv'
  OBVIOUS
<1> USE Types DEF IInv, Attach, asked, face
<1>1. TypeOK'
  BY DEF TypeOK, Enabling
<1>2. Fresh' /\ (~stopped' => Unstopped')
  BY DEF Fresh, Unstopped, Attached, Stopping
<1>3. ~repeated' => Alternating'
  BY DEF Alternating, Up, Quiet, Running, Stopping
<1> QED BY <1>1, <1>2, <1>3

LEMMA AllocInv == IInv /\ fault = "none" /\ Alloc => IInv'
<1> SUFFICES ASSUME IInv, fault = "none", Alloc PROVE IInv'
  OBVIOUS
<1> USE Types DEF IInv, Alloc, asked, face
<1>1. TypeOK'
  BY DEF TypeOK, Enabling
<1>2. Fresh' /\ (~stopped' => Unstopped')
  BY DEF Fresh, Unstopped, Attached, Stopping
<1>3. ~repeated' => Alternating'
  BY DEF Alternating, Up, Quiet, Running, Stopping
<1> QED BY <1>1, <1>2, <1>3

LEMMA InitStartInv == IInv /\ fault = "none" /\ InitStart => IInv'
<1> SUFFICES ASSUME IInv, fault = "none", InitStart PROVE IInv'
  OBVIOUS
<1> USE Types DEF IInv, InitStart, asked, alg
<1>1. TypeOK'
  BY DEF TypeOK, Enabling
<1>2. Fresh' /\ (~stopped' => Unstopped')
  BY DEF Fresh, Unstopped, Attached, Stopping
<1>3. ~repeated' => Alternating'
  BY DEF Alternating, Up, Quiet, Running, Stopping
<1> QED BY <1>1, <1>2, <1>3

LEMMA InitQueueInv == IInv /\ fault = "none" /\ InitQueue => IInv'
<1> SUFFICES ASSUME IInv, fault = "none", InitQueue PROVE IInv'
  OBVIOUS
<1> USE Types DEF IInv, InitQueue, asked, alg
<1>1. gen' = gen + 1 /\ gen' \in Gens /\ gen' # 0
  BY DEF Fresh
<1>2. TypeOK'
  BY <1>1 DEF TypeOK, Enabling
<1>3. Fresh'
  BY <1>1 DEF Fresh
<1>4. ~stopped' => Unstopped'
  BY <1>1 DEF Unstopped, Attached, Stopping, TypeOK
<1>5. ~repeated' => Alternating'
  BY <1>1 DEF Alternating, Up, Quiet, Alone, Running, Stopping, TypeOK
<1> QED BY <1>2, <1>3, <1>4, <1>5

LEMMA InitThreadsInv == IInv /\ fault = "none" /\ InitThreads => IInv'
<1> SUFFICES ASSUME IInv, fault = "none", InitThreads PROVE IInv'
  OBVIOUS
<1> USE Types DEF IInv, InitThreads, asked, alg
<1>1. gen \in Gens
  BY DEF Fresh
<1>2. TypeOK'
  BY <1>1 DEF TypeOK, WorkerAt, ReaderAt
<1>3. Fresh' /\ (~stopped' => Unstopped')
  BY <1>1 DEF Fresh, Unstopped, Attached, Stopping, TypeOK
<1>4. ~repeated' => Alternating'
  BY <1>1 DEF Alternating, Up, Alone, Running, Stopping, TypeOK
<1> QED BY <1>2, <1>3, <1>4
-----------------------------------------------------------------------------
LEMMA DisableInv == IInv /\ fault = "none" /\ Disable => IInv'
<1> SUFFICES ASSUME IInv, fault = "none", Disable PROVE IInv'
  OBVIOUS
<1> USE Types DEF IInv, Disable, alg, face
<1>1. TypeOK' /\ Fresh' /\ stopped'
  BY DEF TypeOK, Stopping, Fresh
<1>2. ~repeated' => Alternating'
  BY DEF Alternating, Up, Alone, Running, Stopping
<1> QED BY <1>1, <1>2

\* While a disable runs, some disable has begun.
LEMMA StoppingStopped == IInv /\ ctl \in Stopping => stopped
BY Types DEF IInv, Unstopped

LEMMA DropInv == IInv /\ fault = "none" /\ (DropFifo \/ DropBuf \/ DropOsd) => IInv'
<1> SUFFICES ASSUME IInv, fault = "none", DropFifo \/ DropBuf \/ DropOsd PROVE IInv'
  OBVIOUS
<1>1. stopped /\ stopped' = stopped /\ repeated' = repeated
  BY StoppingStopped DEF DropFifo, DropBuf, DropOsd, Stopping, asked
<1>2. TypeOK' /\ Fresh'
  BY Types DEF IInv, DropFifo, DropBuf, DropOsd, Dies, asked, face, TypeOK, Stopping, Fresh
<1>3. ASSUME ~repeated PROVE Alternating'
  <2>1. CASE DropFifo
    BY <1>3, <2>1 DEF IInv, DropFifo, face, Alternating, Up, Alone, Running, Stopping
  <2>2. CASE DropBuf
    BY <1>3, <2>2 DEF IInv, DropBuf, face, Alternating, Up, Alone, Running, Stopping
  <2>3. CASE DropOsd
    BY <1>3, <2>3 DEF IInv, DropOsd, face, Alternating, Up, Alone, Running, Stopping
  <2> QED BY <2>1, <2>2, <2>3
<1> QED BY <1>1, <1>2, <1>3 DEF IInv

LEMMA JoinInv == IInv /\ fault = "none" /\ (SignalStop \/ JoinWorker \/ JoinReader) => IInv'
<1> SUFFICES ASSUME IInv, fault = "none", SignalStop \/ JoinWorker \/ JoinReader PROVE IInv'
  OBVIOUS
<1>1. stopped /\ stopped' = stopped /\ repeated' = repeated
  BY StoppingStopped DEF SignalStop, JoinWorker, JoinReader, Stopping, asked
<1>2. TypeOK' /\ Fresh'
  <2>1. CASE SignalStop
    BY Types, <2>1 DEF IInv, SignalStop, asked, alg, TypeOK, Stopping, Fresh
  <2>2. CASE JoinWorker
    BY Types, <2>2 DEF IInv, JoinWorker, Dies, asked, alg, face, TypeOK, Stopping, Fresh
  <2>3. CASE JoinReader
    BY Types, <2>3 DEF IInv, JoinReader, Dies, asked, alg, TypeOK, Stopping, Fresh
  <2> QED BY <2>1, <2>2, <2>3
<1>3. ASSUME ~repeated PROVE Alternating'
  <2>1. CASE SignalStop
    BY <1>3, <2>1 DEF IInv, SignalStop, alg, Alternating, Up, Alone, Running, Stopping
  <2>2. CASE JoinWorker
    BY <1>3, <2>2 DEF IInv, JoinWorker, alg, face, Alternating, Up, Alone, Running, Stopping
  <2>3. CASE JoinReader
    BY <1>3, <2>3 DEF IInv, JoinReader, alg, Alternating, Up, Alone, Running, Stopping
  <2> QED BY <2>1, <2>2, <2>3
<1> QED BY <1>1, <1>2, <1>3 DEF IInv

LEMMA DeleteInv == IInv /\ fault = "none" /\ DeleteQueue => IInv'
<1> SUFFICES ASSUME IInv, fault = "none", DeleteQueue PROVE IInv'
  OBVIOUS
<1>1. stopped /\ stopped' = stopped /\ repeated' = repeated
  BY StoppingStopped DEF DeleteQueue, Stopping, asked
<1>2. TypeOK' /\ Fresh'
  <2>1. /\ ctl' = "idle" /\ enabled' = FALSE /\ fault' \in {"none", "que"}
        /\ UNCHANGED <<stopped, repeated, alg, stop, gen, joined, worker, reader, asleepOn>>
    BY DEF DeleteQueue, Dies, asked
  <2>2. que' \in [Gens -> 0 .. QueDepth] /\ qstate' \in [Gens -> {"none", "open", "deleted"}]
    <3>1. CASE gen = 0
      BY <3>1 DEF IInv, TypeOK, DeleteQueue
    <3>2. CASE gen # 0
      <4>1. que' = [que EXCEPT ![gen] = 0] /\ qstate' = [qstate EXCEPT ![gen] = "deleted"]
        BY <3>2 DEF DeleteQueue
      <4>2. 0 \in 0 .. QueDepth
        BY Types DEF IInv
      <4> QED BY <4>1, <4>2 DEF IInv, TypeOK
    <3> QED BY <3>1, <3>2
  <2> QED BY <2>1, <2>2 DEF IInv, TypeOK, alg, Fresh
<1>3. ASSUME ~repeated PROVE Alternating'
  <2>1. Alone /\ worker[gen] = "exited" /\ reader[gen] = "exited"
    BY <1>3 DEF IInv, DeleteQueue, Alternating, Stopping
  <2>2. /\ qstate' = [qstate EXCEPT ![gen] = "deleted"] /\ fault' = "none"
        /\ ctl' = "idle" /\ ~enabled' /\ UNCHANGED <<worker, reader, asleepOn>>
    BY <2>1, Types DEF IInv, DeleteQueue, Alone
  <2>3. Quiet'
    BY <2>1, <2>2 DEF Alone, Quiet, Running, IInv, TypeOK
  <2> QED BY <1>3, <2>2, <2>3 DEF IInv, Alternating, Up, Stopping
<1> QED BY <1>1, <1>2, <1>3 DEF IInv
-----------------------------------------------------------------------------
(***************************************************************************)
(* The threads of one init.                                                *)
(***************************************************************************)
Thread(g) == WorkerStep(g) \/ FifoVanishes(g) \/ ReaderStep(g)

\* What can strike a thread, and when.
Strikes(g) ==
  \/ fault' = fault
  \/ fault' = "fifo" /\ ~fifo
  \/ fault' = "buf" /\ ~buf
  \/ fault' = "osd" /\ osd # "open"
  \/ fault' = "que" /\ qstate[gen] # "open"
  \/ fault' = "que" /\ reader[g] = "asleep" /\ qstate[asleepOn[g]] # "open"

\* A step of a thread of init g: only a running thread moves, and it moves
\* nothing of another init but the results of a queue.
Moved(g) ==
  /\ UNCHANGED <<ctl, enabled, stopped, repeated, fifo, buf, osd, stop, gen, joined, qstate>>
  /\ que' \in [Gens -> 0 .. QueDepth]
  /\ \E w \in WorkerAt : worker' = [worker EXCEPT ![g] = w]
  /\ \E r \in ReaderAt : reader' = [reader EXCEPT ![g] = r]
  /\ asleepOn' \in {asleepOn, [asleepOn EXCEPT ![g] = gen]}
  /\ worker[g] \in {"absent", "exited"} => worker'[g] = worker[g]
  /\ reader[g] \in {"absent", "exited"} => reader'[g] = reader[g]
  /\ reader'[g] = "asleep" /\ reader[g] # "asleep" => asleepOn'[g] = gen
  /\ reader[g] = "asleep" => asleepOn' = asleepOn
  /\ Running(g) /\ Strikes(g)

LEMMA WorkerMoved ==
  ASSUME TypeOK, fault = "none", NEW g \in 1 .. gen, WorkerStep(g) \/ FifoVanishes(g)
  PROVE  Moved(g)
<1>0. /\ g \in Gens /\ gen \in Gens /\ worker \in [Gens -> WorkerAt]
      /\ reader \in [Gens -> ReaderAt] /\ reader' = reader /\ asleepOn' = asleepOn
      /\ que \in [Gens -> 0 .. QueDepth] /\ QueDepth \in Nat
      /\ UNCHANGED <<ctl, enabled, stopped, repeated, fifo, buf, osd, stop, gen, joined, qstate>>
  BY Types DEF TypeOK, WorkerStep, WorkerLoop, CallGetFrame, FrameArrives, FifoVanishes,
               WorkerGivesUp, Detect, Elsewhere, asked, alg
<1>1. \E r \in ReaderAt : reader' = [reader EXCEPT ![g] = r]
  BY <1>0
<1>2. que' \in [Gens -> 0 .. QueDepth]
  <2>1. CASE Detect(g)
    BY <1>0, <2>1 DEF Detect
  <2>2. CASE ~Detect(g)
    BY <1>0, <2>2 DEF WorkerStep, WorkerLoop, CallGetFrame, FrameArrives, FifoVanishes,
                      WorkerGivesUp
  <2> QED BY <2>1, <2>2
<1>3. PICK w \in WorkerAt : worker' = [worker EXCEPT ![g] = w]
  BY DEF WorkerStep, WorkerLoop, CallGetFrame, FrameArrives, FifoVanishes, WorkerGivesUp, Detect,
         WorkerMoves, WorkerAt
<1>4. worker[g] \notin {"absent", "exited"}
  BY DEF WorkerStep, WorkerLoop, CallGetFrame, FrameArrives, FifoVanishes, WorkerGivesUp, Detect
<1>5. Strikes(g)
  BY DEF WorkerStep, WorkerLoop, CallGetFrame, FrameArrives, FifoVanishes, WorkerGivesUp, Detect,
         Strikes, Dies, MayDie
<1> QED BY <1>0, <1>1, <1>2, <1>3, <1>4, <1>5 DEF Moved, Running

LEMMA ReaderMoved ==
  ASSUME TypeOK, Fresh, fault = "none", NEW g \in 1 .. gen, ReaderStep(g)
  PROVE  Moved(g)
<1>0. /\ g \in Gens /\ gen \in Gens /\ worker \in [Gens -> WorkerAt]
      /\ reader \in [Gens -> ReaderAt] /\ worker' = worker
      /\ que \in [Gens -> 0 .. QueDepth] /\ QueDepth \in Nat
      /\ asleepOn \in [Gens -> 0 .. MaxEnables]
      /\ UNCHANGED <<ctl, enabled, stopped, repeated, fifo, buf, osd, stop, gen, joined, qstate>>
  BY Types DEF TypeOK, ReaderStep, ReaderExits, ReaderGets, ReaderWakes, ReaderDelivers, Elsewhere,
               asked, alg
<1>1. \E w \in WorkerAt : worker' = [worker EXCEPT ![g] = w]
  BY <1>0
<1>2. que' \in [Gens -> 0 .. QueDepth]
  <2>1. CASE ReaderGets(g)
    BY <1>0, <2>1 DEF ReaderGets
  <2>2. CASE ReaderWakes(g)
    <3>1. asleepOn[g] \in Gens
      <4>1. asleepOn[g] \in 1 .. gen
        BY <1>0, <2>2 DEF ReaderWakes, Fresh
      <4> QED BY <4>1, Types
    <3>2. PICK k \in Gens : que[k] > 0 /\ que' = [que EXCEPT ![k] = @ - 1]
      BY <2>2, <3>1 DEF ReaderWakes
    <3>3. que[k] - 1 \in 0 .. QueDepth
      BY <1>0, <3>2
    <3> QED BY <1>0, <3>2, <3>3
  <2>3. CASE ReaderExits(g) \/ ReaderDelivers(g)
    BY <1>0, <2>3 DEF ReaderExits, ReaderDelivers
  <2> QED BY <2>1, <2>2, <2>3 DEF ReaderStep
<1>3. PICK r \in ReaderAt : reader' = [reader EXCEPT ![g] = r]
  BY DEF ReaderStep, ReaderExits, ReaderGets, ReaderWakes, ReaderDelivers, ReaderMoves, ReaderAt
<1>4. reader[g] \notin {"absent", "exited"}
  BY DEF ReaderStep, ReaderExits, ReaderGets, ReaderWakes, ReaderDelivers
<1>5. /\ asleepOn' \in {asleepOn, [asleepOn EXCEPT ![g] = gen]}
      /\ reader'[g] = "asleep" /\ reader[g] # "asleep" => asleepOn'[g] = gen
      /\ reader[g] = "asleep" => asleepOn' = asleepOn
  BY <1>0 DEF ReaderStep, ReaderExits, ReaderGets, ReaderWakes, ReaderDelivers, ReaderMoves
<1>6. Strikes(g)
  BY DEF ReaderStep, ReaderExits, ReaderGets, ReaderWakes, ReaderDelivers, Strikes, MayDie
<1> QED BY <1>0, <1>1, <1>2, <1>3, <1>4, <1>5, <1>6 DEF Moved, Running

LEMMA ThreadInv ==
  ASSUME IInv, fault = "none", NEW g \in 1 .. gen, Thread(g)
  PROVE  IInv'
<1>0. Moved(g) /\ g \in Gens /\ gen \in Gens /\ gen # 0
  BY WorkerMoved, ReaderMoved, Types DEF IInv, Thread
<1>1. \A d \in Gens : d # g => /\ worker'[d] = worker[d] /\ reader'[d] = reader[d]
                               /\ asleepOn'[d] = asleepOn[d]
  BY <1>0 DEF Moved, IInv, TypeOK
<1>2. TypeOK'
  <2>1. fault' \in {"none", "fifo", "buf", "osd", "que", "join"}
    BY <1>0 DEF Moved, Strikes
  <2>2. worker' \in [Gens -> WorkerAt] /\ reader' \in [Gens -> ReaderAt]
    BY <1>0 DEF Moved, IInv, TypeOK
  <2>3. asleepOn' \in [Gens -> 0 .. MaxEnables]
    BY <1>0, Types DEF Moved, IInv, TypeOK
  <2> QED BY <1>0, <2>1, <2>2, <2>3 DEF Moved, IInv, TypeOK
<1>3. Fresh'
  <2>1. ASSUME NEW d \in Gens, reader'[d] = "asleep" PROVE asleepOn'[d] \in 1 .. gen
    <3>1. CASE d # g
      BY <1>1, <2>1, <3>1 DEF IInv, Fresh
    <3>2. CASE d = g
      BY <1>0, <2>1, <3>2, Types DEF Moved, IInv, Fresh
    <3> QED BY <3>1, <3>2
  <2> QED BY <1>0, <2>1 DEF Moved, IInv, Fresh
<1>4. ASSUME ~stopped PROVE Unstopped'
  <2>1. fault' = "none"
    <3>1. Attached /\ qstate[gen] = "open"
      BY <1>0, <1>4, Types DEF IInv, Unstopped
    <3>2. reader[g] = "asleep" => qstate[asleepOn[g]] = "open"
      BY <1>0, <1>4 DEF IInv, Unstopped, Fresh
    <3> QED BY <1>0, <3>1, <3>2 DEF Moved, Strikes, Attached
  <2> QED BY <1>0, <1>4, <2>1 DEF Moved, IInv, Unstopped, Attached
<1>5. ASSUME ~repeated PROVE Alternating'
  <2>0. Alternating /\ Running(g)
    BY <1>0, <1>5 DEF IInv, Moved
  <2>1. Alone /\ g = gen /\ ctl # "threads" /\ (ctl \in Stopping \/ Up)
    BY <1>0, <2>0, Types DEF Alternating, Alone, Quiet, IInv, TypeOK, Enabling, Up
  <2>2. qstate[gen] = "open" /\ (reader[g] = "asleep" => qstate[asleepOn[g]] = "open")
    BY <1>0, <2>0, <2>1 DEF Alternating, Alone
  <2>3. fault' # "none" => ctl \in Stopping /\ fault' \notin {"que", "join"}
    BY <1>0, <2>0, <2>1, <2>2 DEF Moved, Strikes, Alternating
  <2>4. \A d \in Gens : reader'[d] = "asleep" => asleepOn'[d] = d
    BY <1>0, <1>1, <2>0, <2>1 DEF Moved, Alternating
  <2>5. Alone'
    BY <1>0, <1>1, <2>1 DEF Moved, Alone, Running
  <2>6. /\ ctl \in {"joinReader", "delete"} => worker'[gen] = "exited"
        /\ ctl = "delete" => reader'[gen] = "exited"
    BY <1>0, <2>0, <2>1 DEF Moved, Alternating
  <2> QED BY <1>0, <2>0, <2>1, <2>3, <2>4, <2>5, <2>6 DEF Moved, Alternating, Up, Stopping
<1> QED BY <1>0, <1>2, <1>3, <1>4, <1>5 DEF IInv, Moved
-----------------------------------------------------------------------------
\* For any number of enables and any depth of the queue, face.c and alg_mgr.c
\* keep the types, and what either history guarantees.
THEOREM Inductive == Spec => []IInv
<1>1. IInv /\ [Next]_vars => IInv'
  <2> SUFFICES ASSUME IInv, [Next]_vars PROVE IInv'
    OBVIOUS
  <2>1. CASE UNCHANGED vars
    BY <2>1 DEF vars, asked, alg, face, IInv, TypeOK, Fresh, Unstopped, Attached, Alternating, Up,
                Quiet, Alone, Running
  <2>2. CASE fault = "none" /\ (Enable \/ Disable \/ Control)
    BY <2>2, EnableInv, AttachInv, AllocInv, InitStartInv, InitQueueInv, InitThreadsInv, DisableInv,
       DropInv, JoinInv, DeleteInv DEF Control
  <2>3. CASE fault = "none" /\ \E g \in 1 .. gen : Thread(g)
    BY <2>3, ThreadInv
  <2> QED BY <2>1, <2>2, <2>3 DEF Next, Thread
<1> QED BY InitInv, <1>1, PTL DEF Spec

\* Turning the detector on, however often, strikes nobody; when requests
\* alternate, only the window of a disable does, and never a queue or a join.
THEOREM FaultOnlyWhileStoppingAlways == Spec => []FaultOnlyWhileStopping
<1>1. IInv => FaultOnlyWhileStopping
  BY DEF IInv, Unstopped, Alternating, FaultOnlyWhileStopping
<1> QED BY Inductive, <1>1, PTL

\* When requests alternate, no thread and no queue outlives the disable that
\* was to end it.
THEOREM StoppedIsQuietAlways == Spec => []StoppedIsQuiet
<1>1. IInv => StoppedIsQuiet
  BY DEF IInv, Alternating, Quiet, StoppedIsQuiet
<1> QED BY Inductive, <1>1, PTL
=============================================================================
