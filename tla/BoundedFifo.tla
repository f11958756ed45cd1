---------------------------- MODULE BoundedFifo ----------------------------
(***************************************************************************)
(* What a user of mod/utils/common/src/que.c is promised: a bounded        *)
(* first-in first-out buffer shared by threads, every call of which takes  *)
(* effect at one instant between its invocation and its return.  A put of  *)
(* a full buffer and a get of an empty one fail at once when they may not  *)
(* block, and have not taken effect yet when they may.                     *)
(*                                                                         *)
(* Nothing of the implementation is visible here: no ring, no mutex, no    *)
(* condition variable and no sleeping thread.                              *)
(***************************************************************************)
EXTENDS Integers, Sequences

CONSTANTS Threads,   \* the threads that share the buffer
          Values,    \* what is stored in it
          Ops,       \* the operations that they call
          Depth,     \* its capacity
          Junk       \* the content of memory nobody wrote

VARIABLES open,      \* the buffer exists
          fifo,      \* what it holds, oldest first
          pending,   \* pending[t]: t has a call that has not taken effect
          call,      \* call[t]: the call that t is in
          ret        \* ret[t]: what the last call of t returned

vars == <<open, fifo, pending, call, ret>>

EAGAIN == 11

Calls ==
  [op : Ops \cap {"put"}, val : Values, block : BOOLEAN]
    \cup [op : Ops \cap {"get"}, val : {Junk}, block : BOOLEAN]
    \cup [op : Ops \ {"put", "get"}, val : {Junk}, block : {FALSE}]

NoCall == [op |-> "len", val |-> Junk, block |-> FALSE]

Result(code, v) == [code |-> code, val |-> v]
NoResult == Result(0, Junk)

Init ==
  /\ open = FALSE
  /\ fifo = <<>>
  /\ pending = [t \in Threads |-> FALSE]
  /\ call = [t \in Threads |-> NoCall]
  /\ ret = [t \in Threads |-> NoResult]

Create ==
  /\ ~open
  /\ open' = TRUE
  /\ fifo' = <<>>
  /\ UNCHANGED <<pending, call, ret>>

Delete ==
  /\ open
  /\ \A t \in Threads : ~pending[t]
  /\ open' = FALSE
  /\ fifo' = <<>>
  /\ UNCHANGED <<pending, call, ret>>

Invoke(t, c) ==
  /\ open
  /\ ~pending[t]
  /\ pending' = [pending EXCEPT ![t] = TRUE]
  /\ call' = [call EXCEPT ![t] = c]
  /\ ret' = [ret EXCEPT ![t] = NoResult]
  /\ UNCHANGED <<open, fifo>>

\* The pending call of t takes effect and returns r.
Return(t, r) ==
  /\ pending[t]
  /\ pending' = [pending EXCEPT ![t] = FALSE]
  /\ ret' = [ret EXCEPT ![t] = r]
  /\ call' = [call EXCEPT ![t] = NoCall]
  /\ UNCHANGED open

Put(t) ==
  /\ call[t].op = "put"
  /\ Len(fifo) < Depth
  /\ fifo' = Append(fifo, call[t].val)
  /\ Return(t, Result(0, Junk))

PutFails(t) ==
  /\ call[t].op = "put" /\ ~call[t].block
  /\ Len(fifo) = Depth
  /\ Return(t, Result(-EAGAIN, Junk))
  /\ UNCHANGED fifo

Get(t) ==
  /\ call[t].op = "get"
  /\ fifo # <<>>
  /\ fifo' = Tail(fifo)
  /\ Return(t, Result(0, Head(fifo)))

GetFails(t) ==
  /\ call[t].op = "get" /\ ~call[t].block
  /\ fifo = <<>>
  /\ Return(t, Result(-EAGAIN, Junk))
  /\ UNCHANGED fifo

Peek(t) ==
  /\ call[t].op = "peek"
  /\ Return(t, Result(0, IF fifo = <<>> THEN Junk ELSE Head(fifo)))
  /\ UNCHANGED fifo

Query(t) ==
  /\ \/ call[t].op = "len" /\ Return(t, Result(Len(fifo), Junk))
     \/ call[t].op = "isempty" /\ Return(t, Result(IF fifo = <<>> THEN 1 ELSE 0, Junk))
     \/ call[t].op = "isfull" /\ Return(t, Result(IF Len(fifo) = Depth THEN 1 ELSE 0, Junk))
  /\ UNCHANGED fifo

Next ==
  \/ Create
  \/ Delete
  \/ \E t \in Threads :
       \/ \E c \in Calls : Invoke(t, c)
       \/ Put(t) \/ PutFails(t) \/ Get(t) \/ GetFails(t) \/ Peek(t) \/ Query(t)

Spec == Init /\ [][Next]_vars
=============================================================================
