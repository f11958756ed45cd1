-------------------------------- MODULE Que --------------------------------
(***************************************************************************)
(* The blocking queue of mod/utils/common/src/que.c: a ring of Depth       *)
(* pointers under a mutex, with one condition variable for the threads     *)
(* that wait for an element (condRd) and one for those that wait for room  *)
(* (condWr).                                                               *)
(*                                                                         *)
(* A call is an Invoke step, after which the thread is on its way to the   *)
(* mutex, and then one step per critical section: the section is entered   *)
(* with the mutex held and left either by the unlock at the end of the     *)
(* function or inside pthread_cond_wait, so no other thread sees its       *)
(* middle.  A thread that pthread_cond_signal or a spurious wakeup took    *)
(* off a condition variable is "woken": it must still get the mutex back   *)
(* and another thread can get in before it, which is why the code loops.   *)
(***************************************************************************)
EXTENDS Integers, FiniteSets

CONSTANTS Threads,   \* the threads that share the queue
          Values,    \* the pointers stored in it
          Ops,       \* the operations that they call
          Depth,     \* the depth given to que_create
          Junk       \* the content of memory nobody wrote

ASSUME QueAssumption ==
  /\ IsFiniteSet(Threads)
  /\ Ops \subseteq {"put", "get", "peek", "len", "isempty", "isfull"}
  /\ Depth \in Nat \ {0}
  /\ Junk \notin Values

VARIABLES alive,     \* between que_create and que_delete
          elements,  \* the ring: que_priv_t.elements
          len,       \* how many of its slots are filled
          curRd,     \* the slot the next get reads
          curWr,     \* the slot the next put writes
          pc,        \* where each thread is
          call,      \* the call each thread is in
          ret        \* what the last call of each thread returned

ring == <<elements, len, curRd, curWr>>
vars == <<alive, elements, len, curRd, curWr, pc, call, ret>>

Slots == 0 .. Depth - 1
EAGAIN == 11

Calls ==
  [op : Ops \cap {"put"}, val : Values, block : BOOLEAN]
    \cup [op : Ops \cap {"get"}, val : {Junk}, block : BOOLEAN]
    \cup [op : Ops \ {"put", "get"}, val : {Junk}, block : {FALSE}]

NoCall == [op |-> "len", val |-> Junk, block |-> FALSE]

Results == [code : Int, val : Values \cup {Junk}]
Result(code, v) == [code |-> code, val |-> v]
NoResult == Result(0, Junk)

In(where) == {t \in Threads : pc[t] = where}
Where == {"idle", "enter", "waitRd", "wokenRd", "waitWr", "wokenWr"}
Quiescent == In("idle") = Threads

Init ==
  /\ alive = FALSE
  /\ elements = [i \in Slots |-> Junk]
  /\ len = 0 /\ curRd = 0 /\ curWr = 0
  /\ pc = [t \in Threads |-> "idle"]
  /\ call = [t \in Threads |-> NoCall]
  /\ ret = [t \in Threads |-> NoResult]

\* que_create: a fresh structure, whose ring malloc leaves unwritten.
Create ==
  /\ ~alive
  /\ alive' = TRUE
  /\ elements' = [i \in Slots |-> Junk]
  /\ len' = 0 /\ curRd' = 0 /\ curWr' = 0
  /\ UNCHANGED <<pc, call, ret>>

\* que_delete: destroys the mutex and both condition variables, so its caller
\* must know that no thread is in a call; what the ring still holds is lost.
Delete ==
  /\ alive /\ Quiescent
  /\ alive' = FALSE
  /\ elements' = [i \in Slots |-> Junk]
  /\ len' = 0 /\ curRd' = 0 /\ curWr' = 0
  /\ UNCHANGED <<pc, call, ret>>

Invoke(t, c) ==
  /\ alive /\ pc[t] = "idle"
  /\ pc' = [pc EXCEPT ![t] = "enter"]
  /\ call' = [call EXCEPT ![t] = c]
  /\ ret' = [ret EXCEPT ![t] = NoResult]
  /\ UNCHANGED <<alive, ring>>
-----------------------------------------------------------------------------
(***************************************************************************)
(* The critical sections.                                                  *)
(***************************************************************************)
\* t has the mutex at the head of the loop of its operation.
AtLoop(t, op) ==
  /\ pc[t] \in {"enter", "wokenRd", "wokenWr"}
  /\ call[t].op = op

\* The index after i; the mutant wraps one slot early.
AdvanceShort(i) == IF i + 1 >= Depth - 1 THEN 0 ELSE i + 1
Advance(i) == (i + 1) % Depth

\* pthread_cond_signal by t on its way out: a thread asleep at the condition,
\* if there is one, becomes woken.  The mutant drops the signal.
NoSignal(t, asleep, woken) == {[pc EXCEPT ![t] = "idle"]}
Signal(t, asleep, woken) ==
  IF In(asleep) = {}
  THEN {[pc EXCEPT ![t] = "idle"]}
  ELSE {[pc EXCEPT ![t] = "idle", ![w] = woken] : w \in In(asleep)}

Returns(t, r) ==
  /\ ret' = [ret EXCEPT ![t] = r]
  /\ call' = [call EXCEPT ![t] = NoCall]
  /\ UNCHANGED alive

\* que_put stores its value.  The mutant signals the wrong condition variable.
PutStoresWrongSignal(t) ==
  /\ AtLoop(t, "put") /\ len < Depth
  /\ elements' = [elements EXCEPT ![curWr] = call[t].val]
  /\ curWr' = Advance(curWr)
  /\ len' = len + 1
  /\ pc' \in Signal(t, "waitWr", "wokenWr")
  /\ Returns(t, Result(0, Junk))
  /\ UNCHANGED curRd
PutStores(t) ==
  /\ AtLoop(t, "put") /\ len < Depth
  /\ elements' = [elements EXCEPT ![curWr] = call[t].val]
  /\ curWr' = Advance(curWr)
  /\ len' = len + 1
  /\ pc' \in Signal(t, "waitRd", "wokenRd")
  /\ Returns(t, Result(0, Junk))
  /\ UNCHANGED curRd

PutFails(t) ==
  /\ AtLoop(t, "put") /\ len = Depth
  /\ ~call[t].block
  /\ pc' = [pc EXCEPT ![t] = "idle"]
  /\ Returns(t, Result(-EAGAIN, Junk))
  /\ UNCHANGED ring

PutWaits(t) ==
  /\ AtLoop(t, "put") /\ len = Depth
  /\ call[t].block
  /\ pc' = [pc EXCEPT ![t] = "waitWr"]
  /\ UNCHANGED <<alive, ring, call, ret>>

\* que_get takes the oldest value.  The mutants signal only when the ring was
\* full, and take the newest value.
GetTakesSignalIfFull(t) ==
  /\ AtLoop(t, "get") /\ len > 0
  /\ curRd' = Advance(curRd)
  /\ len' = len - 1
  /\ pc' \in (IF len = Depth THEN Signal(t, "waitWr", "wokenWr")
                             ELSE NoSignal(t, "waitWr", "wokenWr"))
  /\ Returns(t, Result(0, elements[curRd]))
  /\ UNCHANGED <<elements, curWr>>
GetTakesNewest(t) ==
  /\ AtLoop(t, "get") /\ len > 0
  /\ curWr' = (curWr + Depth - 1) % Depth
  /\ len' = len - 1
  /\ pc' \in Signal(t, "waitWr", "wokenWr")
  /\ Returns(t, Result(0, elements[curWr']))
  /\ UNCHANGED <<elements, curRd>>
GetTakes(t) ==
  /\ AtLoop(t, "get") /\ len > 0
  /\ curRd' = Advance(curRd)
  /\ len' = len - 1
  /\ pc' \in Signal(t, "waitWr", "wokenWr")
  /\ Returns(t, Result(0, elements[curRd]))
  /\ UNCHANGED <<elements, curWr>>

GetFails(t) ==
  /\ AtLoop(t, "get") /\ len = 0
  /\ ~call[t].block
  /\ pc' = [pc EXCEPT ![t] = "idle"]
  /\ Returns(t, Result(-EAGAIN, Junk))
  /\ UNCHANGED ring

GetWaits(t) ==
  /\ AtLoop(t, "get") /\ len = 0
  /\ call[t].block
  /\ pc' = [pc EXCEPT ![t] = "waitRd"]
  /\ UNCHANGED <<alive, ring, call, ret>>

\* que_peek leaves the caller's variable alone when the ring is empty, and
\* returns 0 all the same.
Peek(t) ==
  /\ AtLoop(t, "peek")
  /\ pc' = [pc EXCEPT ![t] = "idle"]
  /\ Returns(t, Result(0, IF len > 0 THEN elements[curRd] ELSE Junk))
  /\ UNCHANGED ring

\* que_len, que_isempty, que_isfull
Query(t) ==
  /\ \/ AtLoop(t, "len") /\ Returns(t, Result(len, Junk))
     \/ AtLoop(t, "isempty") /\ Returns(t, Result(IF len = 0 THEN 1 ELSE 0, Junk))
     \/ AtLoop(t, "isfull") /\ Returns(t, Result(IF len = Depth THEN 1 ELSE 0, Junk))
  /\ pc' = [pc EXCEPT ![t] = "idle"]
  /\ UNCHANGED ring

\* pthread_cond_wait may return without a signal.
SpuriousWakeup(t) ==
  /\ \/ pc[t] = "waitRd" /\ pc' = [pc EXCEPT ![t] = "wokenRd"]
     \/ pc[t] = "waitWr" /\ pc' = [pc EXCEPT ![t] = "wokenWr"]
  /\ UNCHANGED <<alive, ring, call, ret>>

Step(t) ==
  \/ PutStores(t) \/ PutFails(t) \/ PutWaits(t)
  \/ GetTakes(t) \/ GetFails(t) \/ GetWaits(t)
  \/ Peek(t) \/ Query(t)

Next ==
  \/ Create
  \/ Delete
  \/ \E t \in Threads :
       \/ \E c \in Calls : Invoke(t, c)
       \/ Step(t)
       \/ SpuriousWakeup(t)

Spec == Init /\ [][Next]_vars

\* A thread on its way to the mutex is scheduled and gets it: the sections are
\* finite and none of them is left with the mutex held.
Fairness == \A t \in Threads : WF_vars(Step(t))
FairSpec == Spec /\ Fairness
-----------------------------------------------------------------------------
(***************************************************************************)
(* Properties.                                                             *)
(***************************************************************************)
\* Every variable has its type: both cursors stay inside the ring.
TypeOK ==
  /\ alive \in BOOLEAN
  /\ elements \in [Slots -> Values \cup {Junk}]
  /\ len \in 0 .. Depth
  /\ curRd \in Slots /\ curWr \in Slots
  /\ pc \in [Threads -> Where]
  /\ call \in [Threads -> Calls \cup {NoCall}]
  /\ ret \in [Threads -> Results]

\* The slot i places after the oldest element.
SlotAt(i) == (curRd + i) % Depth

\* que.c keeps len beside the two cursors and never computes one from the
\* other: the write cursor is always len slots after the read cursor, and the
\* slots between them hold values that were put, never unwritten memory.
RingConsistent ==
  /\ curWr = SlotAt(len)
  /\ \A i \in 0 .. len - 1 : elements[SlotAt(i)] \in Values

\* The state is well formed, no cursor has left the ring, and the ring is consistent.
RingOK == TypeOK /\ RingConsistent

\* No wakeup is lost.  que_put signals one sleeper per element and que_get one
\* per freed slot; a sleeper stays asleep only as long as the elements (or the
\* free slots) are at most as many as the threads already woken for them.
NoLostWakeup ==
  /\ In("waitRd") # {} => len <= Cardinality(In("wokenRd"))
  /\ In("waitWr") # {} => Depth - len <= Cardinality(In("wokenWr"))

\* Readers and writers never sleep at both condition variables with nobody
\* woken: the loops of que_put and que_get cannot block each other for good.
NeverAllAsleep ==
  In("waitRd") # {} /\ In("waitWr") # {} =>
    In("wokenRd") # {} \/ In("wokenWr") # {}

\* No thread is inside a queue that does not exist.
DeadIsQuiet == ~alive => Quiescent

\* A thread sleeps only in the operation whose condition it waits for.
SleepersMatch ==
  \A t \in Threads :
    /\ pc[t] \in {"waitRd", "wokenRd"} => call[t].op = "get" /\ call[t].block
    /\ pc[t] \in {"waitWr", "wokenWr"} => call[t].op = "put" /\ call[t].block

\* An element never lies in the queue beside a sleeping reader for good, nor
\* a free slot beside a sleeping writer: the signals of que_put and que_get
\* together always get the state moving again.
SleepersServed ==
  /\ (In("waitRd") # {} /\ len > 0) ~> (In("waitRd") = {} \/ len = 0)
  /\ (In("waitWr") # {} /\ len < Depth) ~> (In("waitWr") = {} \/ len = Depth)

\* que.c implements the bounded buffer its users are promised: the elements
\* come out once each, in the order they went in, and no call returns a result
\* that the buffer could not have given it at some instant during the call.
Contents == [i \in 1 .. len |-> elements[SlotAt(i - 1)]]

Fifo == INSTANCE BoundedFifo WITH
          open <- alive,
          fifo <- Contents,
          pending <- [t \in Threads |-> pc[t] # "idle"]

ImplementsFifo == Fifo!Spec
=============================================================================
