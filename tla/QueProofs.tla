------------------------------ MODULE QueProofs ------------------------------
(***************************************************************************)
(* Theorems about the blocking queue of Que, for every set of threads,     *)
(* every set of values, every depth and every mix of operations.           *)
(***************************************************************************)
EXTENDS Que, Sequences, FiniteSetTheorems, TLAPS

\* The remainder as the ring uses it: indices run over two laps at most.
LEMMA ModBelow ==
  ASSUME NEW D \in Nat \ {0}, NEW x \in 0 .. D - 1
  PROVE  x % D = x
  OBVIOUS

LEMMA ModWraps ==
  ASSUME NEW D \in Nat \ {0}, NEW x \in D .. 2 * D - 1
  PROVE  x % D = x - D
  OBVIOUS

\* The next index is again an index of the ring.
LEMMA AdvanceType ==
  ASSUME NEW i \in Slots
  PROVE  /\ Advance(i) \in Slots
         /\ Advance(i) = IF i = Depth - 1 THEN 0 ELSE i + 1
  BY QueAssumption, ModBelow, ModWraps DEF Slots, Advance
-----------------------------------------------------------------------------
(***************************************************************************)
(* Types.                                                                  *)
(***************************************************************************)
LEMMA ResultType ==
  ASSUME NEW code \in Int, NEW v \in Values \cup {Junk}
  PROVE  Result(code, v) \in Results
  BY DEF Result, Results

\* The types that the pieces of the operations keep.
LEMMA CallType ==
  \A c \in Calls \cup {NoCall} : c.op = "put" => c.val \in Values
<1> SUFFICES ASSUME NEW c \in Calls \cup {NoCall}, c.op = "put"
             PROVE  c.val \in Values
  OBVIOUS
<1>1. NoCall.op = "len"
  BY DEF NoCall
<1>2. c \in Calls
  BY <1>1
<1>3. CASE c \in [op : Ops \cap {"put"}, val : Values, block : BOOLEAN]
  BY <1>3
<1>4. CASE c \in [op : Ops \cap {"get"}, val : {Junk}, block : BOOLEAN]
  BY <1>4
<1>5. CASE c \in [op : Ops \ {"put", "get"}, val : {Junk}, block : {FALSE}]
  BY <1>5
<1>6. QED
  BY <1>2, <1>3, <1>4, <1>5 DEF Calls

LEMMA SignalType ==
  ASSUME pc \in [Threads -> Where], NEW t \in Threads,
         NEW asleep, NEW woken \in Where
  PROVE  Signal(t, asleep, woken) \subseteq [Threads -> Where]
  BY DEF Signal, In, Where

LEMMA ReturnsType ==
  ASSUME TypeOK, NEW t \in Threads, NEW r \in Results, Returns(t, r)
  PROVE  /\ alive' \in BOOLEAN
         /\ call' \in [Threads -> Calls \cup {NoCall}]
         /\ ret' \in [Threads -> Results]
  BY DEF Returns, TypeOK

LEMMA RingUnchangedType ==
  ASSUME TypeOK, UNCHANGED ring
  PROVE  /\ elements' \in [Slots -> Values \cup {Junk}]
         /\ len' \in 0 .. Depth
         /\ curRd' \in Slots /\ curWr' \in Slots
  BY DEF TypeOK, ring

LEMMA TypeInit == Init => TypeOK
<1> SUFFICES ASSUME Init PROVE TypeOK
  OBVIOUS
<1>1. len \in 0 .. Depth /\ curRd \in Slots /\ curWr \in Slots
  BY QueAssumption DEF Init, Slots
<1>. alive \in BOOLEAN
  BY DEF Init
<1>2. elements \in [Slots -> Values \cup {Junk}]
  BY DEF Init
<1>3. pc \in [Threads -> Where]
  BY DEF Init, Where
<1>4. call \in [Threads -> Calls \cup {NoCall}]
  BY DEF Init
<1>5. ret \in [Threads -> Results]
  BY ResultType DEF Init, NoResult
<1>6. QED
  BY <1>1, <1>2, <1>3, <1>4, <1>5 DEF TypeOK

\* Every step keeps the types.
LEMMA TypeStep == TypeOK /\ [Next]_vars => TypeOK'
<1> SUFFICES ASSUME TypeOK, [Next]_vars PROVE TypeOK'
  OBVIOUS
<1> USE QueAssumption
<1>1. CASE Create \/ Delete
  <2>1. elements' \in [Slots -> Values \cup {Junk}]
    BY <1>1 DEF Create, Delete
  <2>2. alive' \in BOOLEAN
    BY <1>1 DEF Create, Delete
  <2>3. len' \in 0 .. Depth /\ curRd' \in Slots /\ curWr' \in Slots
    BY <1>1 DEF Create, Delete, Slots
  <2>4. UNCHANGED <<pc, call, ret>>
    BY <1>1 DEF Create, Delete
  <2>5. QED
    BY <2>1, <2>2, <2>3, <2>4 DEF TypeOK
<1>2. ASSUME NEW t \in Threads, NEW c \in Calls, Invoke(t, c)
      PROVE  TypeOK'
  <2>1. pc' \in [Threads -> Where]
    BY <1>2 DEF Invoke, TypeOK, Where
  <2>2. call' \in [Threads -> Calls \cup {NoCall}]
    BY <1>2 DEF Invoke, TypeOK
  <2>3. ret' \in [Threads -> Results]
    BY <1>2, ResultType DEF Invoke, NoResult, TypeOK
  <2>4. QED
    BY <1>2, <2>1, <2>2, <2>3 DEF Invoke, TypeOK, ring
<1>3. ASSUME NEW t \in Threads, PutStores(t)
      PROVE  TypeOK'
  <2>1. pc' \in [Threads -> Where]
    BY <1>3, SignalType DEF PutStores, TypeOK, Where
  <2>2. call[t].val \in Values
    BY <1>3, CallType DEF PutStores, AtLoop, TypeOK
  <2>3. curWr' \in Slots
    BY <1>3, AdvanceType DEF PutStores, TypeOK
  <2>4. elements' \in [Slots -> Values \cup {Junk}]
    BY <1>3, <2>2 DEF PutStores, TypeOK
  <2>5. Result(0, Junk) \in Results /\ Returns(t, Result(0, Junk))
    BY <1>3, ResultType DEF PutStores
  <2>6. len' \in 0 .. Depth /\ curRd' \in Slots
    BY <1>3 DEF PutStores, TypeOK
  <2>7. QED
    BY <2>1, <2>3, <2>4, <2>5, <2>6, ReturnsType DEF TypeOK
<1>4. ASSUME NEW t \in Threads, GetTakes(t)
      PROVE  TypeOK'
  <2>1. pc' \in [Threads -> Where]
    BY <1>4, SignalType DEF GetTakes, TypeOK, Where
  <2>2. curRd' \in Slots
    BY <1>4, AdvanceType DEF GetTakes, TypeOK
  <2>3. elements[curRd] \in Values \cup {Junk}
    BY DEF TypeOK
  <2>4. /\ Result(0, elements[curRd]) \in Results
        /\ Returns(t, Result(0, elements[curRd]))
    BY <1>4, <2>3, ResultType DEF GetTakes
  <2>5. len' \in 0 .. Depth /\ curWr' \in Slots
    BY <1>4 DEF GetTakes, TypeOK
  <2>6. elements' \in [Slots -> Values \cup {Junk}]
    BY <1>4 DEF GetTakes, TypeOK
  <2>7. QED
    BY <2>1, <2>2, <2>4, <2>5, <2>6, ReturnsType DEF TypeOK
<1>5. ASSUME NEW t \in Threads, PutFails(t) \/ GetFails(t) \/ Peek(t) \/ Query(t)
      PROVE  TypeOK'
  <2>1. pc' \in [Threads -> Where]
    BY <1>5 DEF PutFails, GetFails, Peek, Query, TypeOK, Where
  <2>2. \A n \in Int, v \in Values \cup {Junk} : Result(n, v) \in Results
    BY ResultType
  <2>3. /\ elements[curRd] \in Values \cup {Junk}
        /\ len \in Int /\ -EAGAIN \in Int
    BY DEF TypeOK, EAGAIN
  <2>4. \E r \in Results : Returns(t, r)
    BY <1>5, <2>2, <2>3 DEF PutFails, GetFails, Peek, Query
  <2>5. UNCHANGED ring
    BY <1>5 DEF PutFails, GetFails, Peek, Query
  <2>6. QED
    BY <2>1, <2>4, <2>5, ReturnsType, RingUnchangedType DEF TypeOK
<1>6. ASSUME NEW t \in Threads, PutWaits(t) \/ GetWaits(t) \/ SpuriousWakeup(t)
      PROVE  TypeOK'
  <2>1. pc' \in [Threads -> Where]
    BY <1>6 DEF PutWaits, GetWaits, SpuriousWakeup, TypeOK, Where
  <2>2. UNCHANGED <<alive, ring, call, ret>>
    BY <1>6 DEF PutWaits, GetWaits, SpuriousWakeup
  <2>3. QED
    BY <2>1, <2>2, RingUnchangedType DEF TypeOK
<1>7. CASE UNCHANGED vars
  BY <1>7 DEF vars, TypeOK
<1>8. QED
  BY <1>1, <1>2, <1>3, <1>4, <1>5, <1>6, <1>7 DEF Next, Step

\* Every behaviour of the queue keeps every variable in its type; for the two
\* cursors of que.c this is the absence of an access outside the ring.
THEOREM TypeCorrect == Spec => []TypeOK
  BY TypeInit, TypeStep, PTL DEF Spec
-----------------------------------------------------------------------------
(***************************************************************************)
(* The ring.                                                               *)
(***************************************************************************)
\* Two places of the ring are the same slot only if they are the same place.
LEMMA SlotsDistinct ==
  ASSUME NEW r \in Slots, NEW i \in Slots, NEW j \in Slots, i # j
  PROVE  (r + i) % Depth # (r + j) % Depth
<1> USE QueAssumption DEF Slots
<1>1. \A k \in Slots : (r + k) % Depth = IF r + k < Depth THEN r + k ELSE r + k - Depth
  BY ModBelow, ModWraps
<1>2. QED
  BY <1>1

\* Advancing the base of the ring renumbers its places.
LEMMA SlotAfter ==
  ASSUME NEW r \in Slots, NEW i \in 0 .. Depth
  PROVE  /\ i < Depth => (Advance(r) + i) % Depth = (r + (i + 1)) % Depth
         /\ i < Depth => Advance((r + i) % Depth) = (r + (i + 1)) % Depth
         /\ (r + 0) % Depth = r
         /\ (r + i) % Depth \in Slots
<1> USE QueAssumption DEF Slots
<1>1. \A k \in 0 .. Depth : k # Depth =>
        (r + k) % Depth = IF r + k < Depth THEN r + k ELSE r + k - Depth
  BY ModBelow, ModWraps
<1>2. (r + Depth) % Depth = r
  BY ModWraps
<1>3. Advance(r) = IF r = Depth - 1 THEN 0 ELSE r + 1
  BY AdvanceType
<1>4. ASSUME i < Depth
      PROVE  (Advance(r) + i) % Depth = (r + (i + 1)) % Depth
  <2>1. CASE r = Depth - 1
    BY <1>4, <1>3, <2>1, ModBelow, ModWraps
  <2>2. CASE r # Depth - 1
    BY <1>3, <2>2
  <2>3. QED
    BY <2>1, <2>2
<1>5. ASSUME i < Depth
      PROVE  Advance((r + i) % Depth) = (r + (i + 1)) % Depth
  <2>1. (r + i) % Depth \in Slots
    BY <1>1, <1>5
  <2>2. Advance((r + i) % Depth)
          = IF (r + i) % Depth = Depth - 1 THEN 0 ELSE ((r + i) % Depth) + 1
    BY <2>1, AdvanceType
  <2>3. CASE i = Depth - 1
    <3>1. (r + i) % Depth = IF r = 0 THEN Depth - 1 ELSE r - 1
      BY <1>1, <2>3
    <3>2. (r + (i + 1)) % Depth = r
      BY <1>2, <2>3
    <3>3. QED
      BY <2>2, <3>1, <3>2
  <2>4. CASE i # Depth - 1
    <3>1. /\ (r + i) % Depth = IF r + i < Depth THEN r + i ELSE r + i - Depth
          /\ (r + (i + 1)) % Depth
               = IF r + i + 1 < Depth THEN r + i + 1 ELSE r + i + 1 - Depth
      BY <1>1, <1>5, <2>4
    <3>2. QED
      BY <2>2, <3>1
  <2>5. QED
    BY <2>3, <2>4
<1>6. (r + 0) % Depth = r
  BY ModBelow
<1>7. (r + i) % Depth \in Slots
  BY <1>1, <1>2
<1>8. QED
  BY <1>4, <1>5, <1>6, <1>7

\* Every step keeps the write cursor len slots after the read cursor.
LEMMA RingStep ==
  TypeOK /\ TypeOK' /\ RingConsistent /\ [Next]_vars => RingConsistent'
<1> SUFFICES ASSUME TypeOK, TypeOK', RingConsistent, [Next]_vars
             PROVE  RingConsistent'
  OBVIOUS
<1> USE QueAssumption
<1>1. CASE Create \/ Delete
  BY <1>1, ModBelow DEF Create, Delete, RingConsistent, SlotAt
<1>2. ASSUME NEW t \in Threads, PutStores(t)
      PROVE  RingConsistent'
  <2> curRd \in Slots /\ curWr \in Slots /\ len \in 0 .. Depth - 1
    BY <1>2 DEF TypeOK, PutStores
  <2>1. /\ elements' = [elements EXCEPT ![curWr] = call[t].val]
        /\ curWr' = Advance(curWr) /\ len' = len + 1 /\ curRd' = curRd
    BY <1>2 DEF PutStores
  <2>2. call[t].val \in Values
    BY <1>2, CallType DEF PutStores, AtLoop, TypeOK
  <2>3. curWr' = (curRd + (len + 1)) % Depth
    <3>1. curWr = (curRd + len) % Depth
      BY DEF RingConsistent, SlotAt
    <3>2. Advance((curRd + len) % Depth) = (curRd + (len + 1)) % Depth
      BY SlotAfter
    <3>3. QED
      BY <2>1, <3>1, <3>2
  <2>4. ASSUME NEW i \in 0 .. len
        PROVE  elements'[(curRd + i) % Depth] \in Values
    <3>1. (curRd + i) % Depth \in Slots
      BY SlotAfter
    <3>2. CASE i = len
      BY <2>1, <2>2, <3>2 DEF TypeOK, RingConsistent, SlotAt
    <3>3. CASE i # len
      <4>1. i \in Slots /\ len \in Slots /\ i \in 0 .. len - 1
        BY <3>3 DEF Slots
      <4>2. (curRd + i) % Depth # curWr
        BY <4>1, <3>3, SlotsDistinct DEF RingConsistent, SlotAt
      <4>3. elements'[(curRd + i) % Depth] = elements[(curRd + i) % Depth]
        BY <2>1, <3>1, <4>2 DEF TypeOK
      <4>4. QED
        BY <4>1, <4>3 DEF RingConsistent, SlotAt
    <3>4. QED
      BY <3>2, <3>3
  <2>5. QED
    BY <2>1, <2>3, <2>4 DEF RingConsistent, SlotAt
<1>3. ASSUME NEW t \in Threads, GetTakes(t)
      PROVE  RingConsistent'
  <2> curRd \in Slots /\ len \in 1 .. Depth
    BY <1>3 DEF TypeOK, GetTakes
  <2>1. /\ curRd' = Advance(curRd) /\ len' = len - 1
        /\ elements' = elements /\ curWr' = curWr
    BY <1>3 DEF GetTakes
  <2>2. \A i \in 0 .. len - 1 : (curRd' + i) % Depth = (curRd + (i + 1)) % Depth
    BY <2>1, SlotAfter
  <2>3. curWr' = (curRd' + len') % Depth
    BY <2>1, <2>2 DEF RingConsistent, SlotAt
  <2>4. \A i \in 0 .. len' - 1 : elements'[(curRd' + i) % Depth] \in Values
    BY <2>1, <2>2 DEF RingConsistent, SlotAt
  <2>5. QED
    BY <2>3, <2>4 DEF RingConsistent, SlotAt
<1>4. CASE UNCHANGED ring
  BY <1>4 DEF ring, RingConsistent, SlotAt
<1>5. QED
  BY <1>1, <1>2, <1>3, <1>4
  DEF Next, Step, vars, ring, Invoke, PutFails, PutWaits, GetFails, GetWaits,
      Peek, Query, SpuriousWakeup

LEMMA RingInit == Init => RingConsistent
  BY QueAssumption, ModBelow DEF Init, RingConsistent, SlotAt

\* The three counters of que_priv_t never disagree, whatever threads call what
\* in which order, and a get never returns a slot that nobody wrote.
THEOREM RingCorrect == Spec => []RingConsistent
<1>1. TypeOK /\ RingConsistent /\ [Next]_vars => RingConsistent'
  BY TypeStep, RingStep
<1>2. QED
  BY <1>1, RingInit, TypeCorrect, PTL DEF Spec

\* Both: for every depth and any threads the cursors stay in the ring, the write
\* cursor is len slots after the read cursor, and what is between was put.
THEOREM RingAlwaysOK == Spec => []RingOK
<1>1. TypeOK /\ RingConsistent => RingOK
  BY DEF RingOK
<1>2. QED
  BY <1>1, TypeCorrect, RingCorrect, PTL
-----------------------------------------------------------------------------
(***************************************************************************)
(* Wakeups.                                                                *)
(***************************************************************************)
LEMMA DeadStep == TypeOK /\ DeadIsQuiet /\ [Next]_vars => DeadIsQuiet'
<1> SUFFICES ASSUME TypeOK, DeadIsQuiet, [Next]_vars, ~alive'
             PROVE  Quiescent'
  BY DEF DeadIsQuiet
<1>1. CASE alive
  <2>1. Delete
    BY <1>1
    DEF Next, Step, vars, Create, Invoke, PutStores, PutFails, PutWaits,
        GetTakes, GetFails, GetWaits, Peek, Query, SpuriousWakeup, Returns
  <2>2. QED
    BY <2>1 DEF Delete, Quiescent, In
<1>2. CASE ~alive
  <2>1. \A t \in Threads : pc[t] = "idle"
    BY <1>2 DEF DeadIsQuiet, Quiescent, In
  <2>2. UNCHANGED pc
    BY <1>2, <2>1
    DEF Next, Step, vars, Create, Delete, Invoke, PutStores, PutFails,
        PutWaits, GetTakes, GetFails, GetWaits, Peek, Query, SpuriousWakeup,
        AtLoop
  <2>3. QED
    BY <2>1, <2>2 DEF Quiescent, In
<1>3. QED
  BY <1>1, <1>2

\* Nobody sleeps at a condition of the other operation.
LEMMA SleepersStep == TypeOK /\ SleepersMatch /\ [Next]_vars => SleepersMatch'
<1> SUFFICES ASSUME TypeOK, SleepersMatch, [Next]_vars PROVE SleepersMatch'
  OBVIOUS
<1> pc \in [Threads -> Where] /\ call \in [Threads -> Calls \cup {NoCall}]
  BY DEF TypeOK
<1>1. ASSUME NEW t \in Threads, NEW c \in Calls, Invoke(t, c)
      PROVE  SleepersMatch'
  BY <1>1 DEF Invoke, SleepersMatch, Where, TypeOK
<1>2. ASSUME NEW t \in Threads, PutStores(t) \/ GetTakes(t)
      PROVE  SleepersMatch'
  BY <1>2 DEF PutStores, GetTakes, Returns, Signal, In, SleepersMatch, Where
<1>3. ASSUME NEW t \in Threads, PutFails(t) \/ GetFails(t) \/ Peek(t) \/ Query(t)
      PROVE  SleepersMatch'
  BY <1>3 DEF PutFails, GetFails, Peek, Query, Returns, SleepersMatch, Where
<1>4. ASSUME NEW t \in Threads, PutWaits(t) \/ GetWaits(t) \/ SpuriousWakeup(t)
      PROVE  SleepersMatch'
  BY <1>4 DEF PutWaits, GetWaits, SpuriousWakeup, AtLoop, SleepersMatch, Where
<1>5. CASE Create \/ Delete \/ UNCHANGED vars
  BY <1>5 DEF Create, Delete, vars, SleepersMatch
<1>6. QED
  BY <1>1, <1>2, <1>3, <1>4, <1>5 DEF Next, Step

\* The sets of threads that In denotes are finite, and a set that gains or
\* loses one thread gains or loses one.
LEMMA InFinite ==
  \A where : IsFiniteSet(In(where)) /\ Cardinality(In(where)) \in Nat
<1> SUFFICES ASSUME NEW where
             PROVE  IsFiniteSet(In(where)) /\ Cardinality(In(where)) \in Nat
  OBVIOUS
<1>1. In(where) \in SUBSET Threads
  BY DEF In
<1>2. QED
  BY <1>1, QueAssumption, FS_Subset, FS_CardinalityType

\* A count over threads changes by the one thread that moves.
LEMMA CountGains ==
  ASSUME NEW S, IsFiniteSet(S), NEW x, x \notin S
  PROVE  Cardinality(S \cup {x}) = Cardinality(S) + 1
  BY FS_AddElement

LEMMA CountLoses ==
  ASSUME NEW S, IsFiniteSet(S), NEW x
  PROVE  Cardinality(S \ {x}) >= Cardinality(S) - 1
<1>1. Cardinality(S) \in Nat
  BY FS_CardinalityType
<1>2. QED
  BY <1>1, FS_RemoveElement

\* While readers sleep, every step leaves no more elements than woken readers;
\* the same for writers and slots.
LEMMA WakeupStep ==
  TypeOK /\ DeadIsQuiet /\ SleepersMatch /\ NoLostWakeup /\ [Next]_vars
    => NoLostWakeup'
<1> SUFFICES ASSUME TypeOK, DeadIsQuiet, SleepersMatch, NoLostWakeup, [Next]_vars
             PROVE  NoLostWakeup'
  OBVIOUS
<1> USE QueAssumption
<1> pc \in [Threads -> Where] /\ len \in 0 .. Depth
  BY DEF TypeOK
<1>1. ASSUME NEW t \in Threads, PutStores(t)
      PROVE  NoLostWakeup'
  <2>1. /\ len < Depth /\ len' = len + 1
        /\ pc[t] \in {"enter", "wokenWr"}
        /\ pc' \in Signal(t, "waitRd", "wokenRd")
    BY <1>1 DEF PutStores, AtLoop, SleepersMatch
  <2>2. In("waitRd")' # {} => len' <= Cardinality(In("wokenRd")')
    <3>1. CASE In("waitRd") = {}
      <4>1. In("waitRd")' = {}
        BY <2>1, <3>1 DEF Signal, In
      <4>2. QED
        BY <4>1
    <3>2. CASE In("waitRd") # {}
      <4>1. PICK w \in In("waitRd") :
              pc' = [pc EXCEPT ![t] = "idle", ![w] = "wokenRd"]
        BY <2>1, <3>2 DEF Signal
      <4>2. In("wokenRd")' = In("wokenRd") \cup {w} /\ w \notin In("wokenRd")
        BY <2>1, <4>1 DEF In
      <4>3. len <= Cardinality(In("wokenRd"))
        BY <3>2 DEF NoLostWakeup
      <4>4. Cardinality(In("wokenRd")') = Cardinality(In("wokenRd")) + 1
        BY <4>2, InFinite, CountGains
      <4>5. QED
        BY <2>1, <4>3, <4>4, InFinite
    <3>3. QED
      BY <3>1, <3>2
  <2>3. In("waitWr")' # {} => Depth - len' <= Cardinality(In("wokenWr")')
    <3>1. In("waitWr")' = In("waitWr") /\ In("wokenWr")' = In("wokenWr") \ {t}
      BY <2>1 DEF Signal, In
    <3>2. Cardinality(In("wokenWr")') >= Cardinality(In("wokenWr")) - 1
      BY <3>1, InFinite, CountLoses
    <3>3. Cardinality(In("wokenWr")') \in Nat /\ Cardinality(In("wokenWr")) \in Nat
      BY <3>1, InFinite, FS_RemoveElement, FS_CardinalityType
    <3>4. In("waitWr") # {} => Depth - len <= Cardinality(In("wokenWr"))
      BY DEF NoLostWakeup
    <3>5. QED
      BY <2>1, <3>1, <3>2, <3>3, <3>4
  <2>4. QED
    BY <2>2, <2>3 DEF NoLostWakeup
<1>2. ASSUME NEW t \in Threads, GetTakes(t)
      PROVE  NoLostWakeup'
  <2>1. /\ len > 0 /\ len' = len - 1
        /\ pc[t] \in {"enter", "wokenRd"}
        /\ pc' \in Signal(t, "waitWr", "wokenWr")
    BY <1>2 DEF GetTakes, AtLoop, SleepersMatch
  <2>2. In("waitWr")' # {} => Depth - len' <= Cardinality(In("wokenWr")')
    <3>1. CASE In("waitWr") = {}
      <4>1. In("waitWr")' = {}
        BY <2>1, <3>1 DEF Signal, In
      <4>2. QED
        BY <4>1
    <3>2. CASE In("waitWr") # {}
      <4>1. PICK w \in In("waitWr") :
              pc' = [pc EXCEPT ![t] = "idle", ![w] = "wokenWr"]
        BY <2>1, <3>2 DEF Signal
      <4>2. In("wokenWr")' = In("wokenWr") \cup {w} /\ w \notin In("wokenWr")
        BY <2>1, <4>1 DEF In
      <4>3. Depth - len <= Cardinality(In("wokenWr"))
        BY <3>2 DEF NoLostWakeup
      <4>4. Cardinality(In("wokenWr")') = Cardinality(In("wokenWr")) + 1
        BY <4>2, InFinite, CountGains
      <4>5. QED
        BY <2>1, <4>3, <4>4, InFinite
    <3>3. QED
      BY <3>1, <3>2
  <2>3. In("waitRd")' # {} => len' <= Cardinality(In("wokenRd")')
    <3>1. In("waitRd")' = In("waitRd") /\ In("wokenRd")' = In("wokenRd") \ {t}
      BY <2>1 DEF Signal, In
    <3>2. Cardinality(In("wokenRd")') >= Cardinality(In("wokenRd")) - 1
      BY <3>1, InFinite, CountLoses
    <3>3. Cardinality(In("wokenRd")') \in Nat /\ Cardinality(In("wokenRd")) \in Nat
      BY <3>1, InFinite, FS_RemoveElement, FS_CardinalityType
    <3>4. In("waitRd") # {} => len <= Cardinality(In("wokenRd"))
      BY DEF NoLostWakeup
    <3>5. QED
      BY <2>1, <3>1, <3>2, <3>3, <3>4
  <2>4. QED
    BY <2>2, <2>3 DEF NoLostWakeup
<1>3. ASSUME NEW t \in Threads, PutWaits(t) \/ PutFails(t)
      PROVE  NoLostWakeup'
  <2>1. len = Depth /\ len' = len /\ pc[t] \in {"enter", "wokenWr"}
    BY <1>3 DEF PutWaits, PutFails, AtLoop, SleepersMatch, ring
  <2>2. In("waitRd")' = In("waitRd") /\ In("wokenRd")' = In("wokenRd")
    BY <1>3, <2>1 DEF PutWaits, PutFails, In
  <2>3. In("wokenWr")' = In("wokenWr") \ {t}
    BY <1>3, <2>1 DEF PutWaits, PutFails, In
  <2>4. Cardinality(In("wokenWr")') \in Nat
    BY <2>3, InFinite, FS_RemoveElement, FS_CardinalityType
  <2>5. QED
    BY <2>1, <2>2, <2>4 DEF NoLostWakeup
<1>4. ASSUME NEW t \in Threads, GetWaits(t) \/ GetFails(t)
      PROVE  NoLostWakeup'
  <2>1. len = 0 /\ len' = len /\ pc[t] \in {"enter", "wokenRd"}
    BY <1>4 DEF GetWaits, GetFails, AtLoop, SleepersMatch, ring
  <2>2. In("waitWr")' = In("waitWr") /\ In("wokenWr")' = In("wokenWr")
    BY <1>4, <2>1 DEF GetWaits, GetFails, In
  <2>3. In("wokenRd")' = In("wokenRd") \ {t}
    BY <1>4, <2>1 DEF GetWaits, GetFails, In
  <2>4. Cardinality(In("wokenRd")') \in Nat
    BY <2>3, InFinite, FS_RemoveElement, FS_CardinalityType
  <2>5. QED
    BY <2>1, <2>2, <2>4 DEF NoLostWakeup
<1>5. ASSUME NEW t \in Threads,
             (\E c \in Calls : Invoke(t, c)) \/ Peek(t) \/ Query(t)
      PROVE  NoLostWakeup'
  <2>1. len' = len
    BY <1>5 DEF Invoke, Peek, Query, ring
  <2>2. pc[t] \notin {"waitRd", "waitWr"}
    BY <1>5 DEF Invoke, Peek, Query, AtLoop
  <2>3. pc[t] \notin {"wokenRd", "wokenWr"}
    BY <1>5 DEF Invoke, Peek, Query, AtLoop, SleepersMatch
  <2>4. \E place \in {"idle", "enter"} : pc' = [pc EXCEPT ![t] = place]
    BY <1>5 DEF Invoke, Peek, Query
  <2>5. /\ In("waitRd")' = In("waitRd") /\ In("wokenRd")' = In("wokenRd")
        /\ In("waitWr")' = In("waitWr") /\ In("wokenWr")' = In("wokenWr")
    BY <2>2, <2>3, <2>4 DEF In
  <2>6. QED
    BY <2>1, <2>5 DEF NoLostWakeup
<1>6. ASSUME NEW t \in Threads, SpuriousWakeup(t)
      PROVE  NoLostWakeup'
  <2>1. len' = len
    BY <1>6 DEF SpuriousWakeup, ring
  <2>2. CASE pc[t] = "waitRd"
    <3>1. pc' = [pc EXCEPT ![t] = "wokenRd"]
      BY <1>6, <2>2 DEF SpuriousWakeup
    <3>2. /\ In("waitRd")' \subseteq In("waitRd")
          /\ In("wokenRd")' = In("wokenRd") \cup {t} /\ t \notin In("wokenRd")
          /\ In("waitWr")' = In("waitWr") /\ In("wokenWr")' = In("wokenWr")
      BY <2>2, <3>1 DEF In
    <3>3. Cardinality(In("wokenRd")') = Cardinality(In("wokenRd")) + 1
      BY <3>2, InFinite, CountGains
    <3>4. QED
      BY <2>1, <3>2, <3>3, InFinite DEF NoLostWakeup
  <2>3. CASE pc[t] = "waitWr"
    <3>1. pc' = [pc EXCEPT ![t] = "wokenWr"]
      BY <1>6, <2>3 DEF SpuriousWakeup
    <3>2. /\ In("waitWr")' \subseteq In("waitWr")
          /\ In("wokenWr")' = In("wokenWr") \cup {t} /\ t \notin In("wokenWr")
          /\ In("waitRd")' = In("waitRd") /\ In("wokenRd")' = In("wokenRd")
      BY <2>3, <3>1 DEF In
    <3>3. Cardinality(In("wokenWr")') = Cardinality(In("wokenWr")) + 1
      BY <3>2, InFinite, CountGains
    <3>4. QED
      BY <2>1, <3>2, <3>3, InFinite DEF NoLostWakeup
  <2>4. QED
    BY <1>6, <2>2, <2>3 DEF SpuriousWakeup
<1>7. CASE Create \/ Delete
  <2>1. pc' = pc /\ Quiescent
    BY <1>7 DEF Create, Delete, DeadIsQuiet
  <2>2. In("waitWr")' = {} /\ In("waitRd")' = {}
    BY <2>1 DEF Quiescent, In
  <2>3. QED
    BY <2>2 DEF NoLostWakeup
<1>8. CASE UNCHANGED vars
  BY <1>8 DEF vars, NoLostWakeup, In
<1>9. QED
  BY <1>1, <1>2, <1>3, <1>4, <1>5, <1>6, <1>7, <1>8 DEF Next, Step

\* The inductive invariant: types, no thread inside a dead queue, sleepers
\* asleep only in their own operation, and one woken thread per element (per
\* free slot) for as long as somebody sleeps.
QueInv == TypeOK /\ DeadIsQuiet /\ SleepersMatch /\ NoLostWakeup

LEMMA QueInvInit == Init => QueInv
<1> SUFFICES ASSUME Init PROVE QueInv
  OBVIOUS
<1>1. \A t \in Threads : pc[t] = "idle"
  BY DEF Init
<1>2. DeadIsQuiet
  BY <1>1 DEF DeadIsQuiet, Quiescent, In
<1>3. SleepersMatch
  BY <1>1 DEF SleepersMatch
<1>4. In("waitRd") = {} /\ In("waitWr") = {}
  BY <1>1 DEF In
<1>5. QED
  BY <1>2, <1>3, <1>4, TypeInit DEF QueInv, NoLostWakeup

\* The invariant of the queue, from its three parts.
LEMMA QueInvariant == Spec => []QueInv
<1>1. QueInv /\ [Next]_vars => QueInv'
  BY TypeStep, DeadStep, SleepersStep, WakeupStep DEF QueInv
<1>2. QED
  BY <1>1, QueInvInit, PTL DEF Spec

\* Whatever the number of readers and writers, and however they interleave,
\* no signal of que.c is lost: while a reader sleeps, every element in the
\* ring has a woken reader of its own, and the same for writers and free slots.
THEOREM WakeupsCorrect == Spec => []NoLostWakeup
<1>1. QueInv => NoLostWakeup
  BY DEF QueInv
<1>2. QED
  BY <1>1, QueInvariant, PTL

\* The readers and the writers of a queue never all sleep beside each other,
\* for any depth: the two condition variables cannot deadlock.
THEOREM NoMutualSleep == Spec => []NeverAllAsleep
<1>1. QueInv => NeverAllAsleep
  <2> SUFFICES ASSUME QueInv, In("waitRd") # {}, In("waitWr") # {},
                      In("wokenRd") = {}, In("wokenWr") = {}
               PROVE  FALSE
    BY DEF NeverAllAsleep
  <2>1. len <= 0 /\ Depth - len <= 0
    BY FS_EmptySet DEF QueInv, NoLostWakeup
  <2>2. QED
    BY <2>1, QueAssumption DEF QueInv, TypeOK
<1>2. QED
  BY <1>1, QueInvariant, PTL
-----------------------------------------------------------------------------
(***************************************************************************)
(* The queue of que.c implements BoundedFifo.  The sequence of BoundedFifo *)
(* is read off the ring from the slot at curRd, len slots around; a call   *)
(* is pending until its thread is idle again, asleep or not.               *)
(***************************************************************************)
LEMMA ContentsType ==
  ASSUME TypeOK
  PROVE  /\ Contents \in Seq(Values \cup {Junk})
         /\ Len(Contents) = len
         /\ \A i \in 1 .. len : Contents[i] = elements[SlotAt(i - 1)]
<1>1. \A i \in 1 .. len : SlotAt(i - 1) \in Slots
  BY QueAssumption, SlotAfter DEF TypeOK, SlotAt
<1>2. \A i \in 1 .. len : elements[SlotAt(i - 1)] \in Values \cup {Junk}
  BY <1>1 DEF TypeOK
<1>3. len \in Nat
  BY QueAssumption DEF TypeOK
<1>4. QED
  BY <1>2, <1>3 DEF Contents

\* que_put appends.
LEMMA ContentsPut ==
  ASSUME TypeOK, TypeOK', RingConsistent, NEW t \in Threads, PutStores(t)
  PROVE  Contents' = Append(Contents, call[t].val)
<1> USE QueAssumption
<1> curRd \in Slots /\ curWr \in Slots /\ len \in 0 .. Depth - 1
  BY DEF TypeOK, PutStores
<1>1. /\ elements' = [elements EXCEPT ![curWr] = call[t].val]
      /\ len' = len + 1 /\ curRd' = curRd
  BY DEF PutStores
<1>2. \A i \in 0 .. len : SlotAt(i)' = SlotAt(i) /\ SlotAt(i) \in Slots
  BY <1>1, SlotAfter DEF SlotAt
<1>3. SlotAt(len) = curWr
  BY DEF RingConsistent
<1>4. \A i \in 0 .. len - 1 : SlotAt(i) # SlotAt(len)
  BY SlotsDistinct DEF SlotAt, Slots
<1>5. elements'[SlotAt(len)] = call[t].val
  BY <1>1, <1>2, <1>3 DEF TypeOK
<1>6. \A i \in 0 .. len - 1 : elements'[SlotAt(i)] = elements[SlotAt(i)]
  BY <1>1, <1>2, <1>3, <1>4 DEF TypeOK
<1>7. /\ Contents' \in Seq(Values \cup {Junk})
      /\ Len(Contents') = len + 1
      /\ \A i \in 1 .. len + 1 : Contents'[i] = elements'[SlotAt(i - 1)']
  <2>1. Contents' = [i \in 1 .. len' |-> elements'[SlotAt(i - 1)']]
    BY DEF Contents
  <2>2. \A i \in 1 .. len + 1 : elements'[SlotAt(i - 1)'] \in Values \cup {Junk}
    BY <1>2 DEF TypeOK
  <2>3. QED
    BY <2>1, <2>2, <1>1
<1>8. call[t].val \in Values \cup {Junk}
  BY CallType DEF PutStores, AtLoop, TypeOK
<1>9. \A i \in 1 .. len + 1 :
        Contents'[i] = IF i = len + 1 THEN call[t].val ELSE Contents[i]
  BY <1>2, <1>5, <1>6, <1>7, ContentsType
<1>10. QED
  BY <1>7, <1>8, <1>9, ContentsType

\* que_get takes the head and leaves the tail.
LEMMA ContentsGet ==
  ASSUME TypeOK, TypeOK', NEW t \in Threads, GetTakes(t)
  PROVE  /\ Contents # <<>>
         /\ Head(Contents) = elements[curRd]
         /\ Contents' = Tail(Contents)
<1> USE QueAssumption
<1> curRd \in Slots /\ len \in 1 .. Depth
  BY DEF TypeOK, GetTakes
<1>1. /\ curRd' = Advance(curRd) /\ len' = len - 1 /\ elements' = elements
  BY DEF GetTakes
<1>2. \A i \in 0 .. len - 1 : SlotAt(i)' = SlotAt(i + 1)
  BY <1>1, SlotAfter DEF SlotAt
<1>3. SlotAt(0) = curRd
  BY SlotAfter DEF SlotAt
<1>4. Contents # <<>> /\ Head(Contents) = elements[curRd]
  BY <1>3, ContentsType
<1>5. /\ Contents' \in Seq(Values \cup {Junk})
      /\ Len(Contents') = len - 1
      /\ \A i \in 1 .. len - 1 : Contents'[i] = elements[SlotAt(i)]
  <2>1. Contents' = [i \in 1 .. len' |-> elements'[SlotAt(i - 1)']]
    BY DEF Contents
  <2>2. \A i \in 1 .. len - 1 : SlotAt(i - 1)' = SlotAt(i) /\ SlotAt(i) \in Slots
    BY <1>2, SlotAfter DEF SlotAt
  <2>3. Contents' = [i \in 1 .. len - 1 |-> elements[SlotAt(i)]]
    BY <1>1, <2>1, <2>2
  <2>4. \A i \in 1 .. len - 1 : elements[SlotAt(i)] \in Values \cup {Junk}
    BY <2>2 DEF TypeOK
  <2>5. QED
    BY <2>3, <2>4
<1>6. /\ Tail(Contents) \in Seq(Values \cup {Junk})
      /\ Len(Tail(Contents)) = len - 1
      /\ \A i \in 1 .. len - 1 : Tail(Contents)[i] = elements[SlotAt(i)]
  <2>1. /\ Tail(Contents) \in Seq(Values \cup {Junk})
        /\ Len(Tail(Contents)) = len - 1
        /\ \A i \in 1 .. len - 1 : Tail(Contents)[i] = Contents[i + 1]
    BY <1>4, ContentsType
  <2>2. \A i \in 1 .. len - 1 : Contents[i + 1] = elements[SlotAt(i)]
    BY ContentsType
  <2>3. QED
    BY <2>1, <2>2
<1>7. QED
  BY <1>4, <1>5, <1>6

\* What the abstract queue holds when no cursor moves.
LEMMA ContentsSame ==
  ASSUME UNCHANGED ring
  PROVE  Contents' = Contents
  BY DEF ring, Contents, SlotAt

LEMMA ContentsEmpty ==
  ASSUME TypeOK
  PROVE  Contents = <<>> <=> len = 0
  BY ContentsType
-----------------------------------------------------------------------------
Pending == [t \in Threads |-> pc[t] # "idle"]

LEMMA RefinesInit == Init => Fifo!Init
<1> SUFFICES ASSUME Init PROVE Fifo!Init
  OBVIOUS
<1>1. Contents = <<>>
  BY TypeInit, ContentsEmpty DEF Init
<1>2. Pending = [t \in Threads |-> FALSE]
  BY DEF Init, Pending
<1>3. QED
  BY <1>1, <1>2
  DEF Init, Fifo!Init, Pending, NoCall, Fifo!NoCall, NoResult, Fifo!NoResult,
      Result, Fifo!Result

\* Every step of que.c is a step of the abstract queue or none.
LEMMA RefinesStep ==
  TypeOK /\ TypeOK' /\ RingConsistent /\ [Next]_vars => [Fifo!Next]_(Fifo!vars)
<1> SUFFICES ASSUME TypeOK, TypeOK', RingConsistent, [Next]_vars
             PROVE  Fifo!Next \/ UNCHANGED Fifo!vars
  OBVIOUS
<1> USE DEF Result, Fifo!Result, NoResult, Fifo!NoResult, NoCall, Fifo!NoCall
<1> pc \in [Threads -> Where] /\ pc' \in [Threads -> Where] /\ len \in 0 .. Depth
  BY DEF TypeOK
<1>0. ASSUME NEW t \in Threads, pc[t] # "idle", pc'[t] = "idle",
             \A s \in Threads \ {t} : pc'[s] = "idle" <=> pc[s] = "idle"
      PROVE  Pending[t] /\ Pending' = [Pending EXCEPT ![t] = FALSE]
  BY <1>0 DEF Pending
<1>1. CASE Create
  <2>1. Contents' = <<>>
    BY <1>1, ContentsEmpty DEF Create, Contents
  <2>2. Fifo!Create
    BY <1>1, <2>1 DEF Create, Fifo!Create
  <2>3. QED
    BY <2>2 DEF Fifo!Next
<1>2. CASE Delete
  <2>1. Contents' = <<>>
    BY <1>2, ContentsEmpty DEF Delete, Contents
  <2>2. \A t \in Threads : ~Pending[t]
    BY <1>2 DEF Delete, Quiescent, In, Pending
  <2>3. Fifo!Delete
    BY <1>2, <2>1, <2>2 DEF Delete, Fifo!Delete, Pending
  <2>4. QED
    BY <2>3 DEF Fifo!Next
<1>3. ASSUME NEW t \in Threads, NEW c \in Calls, Invoke(t, c)
      PROVE  Fifo!Next
  <2>1. Contents' = Contents
    BY <1>3, ContentsSame DEF Invoke
  <2>2. ~Pending[t] /\ Pending' = [Pending EXCEPT ![t] = TRUE]
    BY <1>3 DEF Invoke, Pending
  <2>3. Fifo!Invoke(t, c)
    BY <1>3, <2>1, <2>2 DEF Invoke, Fifo!Invoke, Pending
  <2>4. c \in Fifo!Calls
    BY DEF Calls, Fifo!Calls
  <2>5. QED
    BY <2>3, <2>4 DEF Fifo!Next
<1>4. ASSUME NEW t \in Threads, PutStores(t)
      PROVE  Fifo!Next
  <2>1. Pending[t] /\ Pending' = [Pending EXCEPT ![t] = FALSE]
    BY <1>4, <1>0 DEF PutStores, AtLoop, Signal, In, Pending
  <2>2. Contents' = Append(Contents, call[t].val)
    BY <1>4, ContentsPut
  <2>3. Len(Contents) < Depth
    BY <1>4, ContentsType DEF PutStores
  <2>4. Fifo!Put(t)
    BY <1>4, <2>1, <2>2, <2>3
    DEF PutStores, AtLoop, Returns, Fifo!Put, Fifo!Return, Pending
  <2>5. QED
    BY <2>4 DEF Fifo!Next
<1>5. ASSUME NEW t \in Threads, GetTakes(t)
      PROVE  Fifo!Next
  <2>1. Pending[t] /\ Pending' = [Pending EXCEPT ![t] = FALSE]
    BY <1>5, <1>0 DEF GetTakes, AtLoop, Signal, In, Pending
  <2>2. /\ Contents # <<>> /\ Head(Contents) = elements[curRd]
        /\ Contents' = Tail(Contents)
    BY <1>5, ContentsGet
  <2>3. Fifo!Get(t)
    BY <1>5, <2>1, <2>2
    DEF GetTakes, AtLoop, Returns, Fifo!Get, Fifo!Return, Pending
  <2>4. QED
    BY <2>3 DEF Fifo!Next
<1>6. ASSUME NEW t \in Threads, PutFails(t) \/ GetFails(t) \/ Peek(t) \/ Query(t)
      PROVE  Fifo!Next
  <2>1. Contents' = Contents
    BY <1>6, ContentsSame DEF PutFails, GetFails, Peek, Query
  <2>2. Pending[t] /\ Pending' = [Pending EXCEPT ![t] = FALSE]
    BY <1>6, <1>0 DEF PutFails, GetFails, Peek, Query, AtLoop, Pending
  <2>3. Contents = <<>> <=> len = 0
    BY ContentsEmpty
  <2>4. Len(Contents) = len
    BY ContentsType
  <2>5. len > 0 => Head(Contents) = elements[curRd]
    <3>1. SlotAt(0) = curRd
      BY SlotAfter DEF SlotAt, TypeOK
    <3>2. QED
      BY <3>1, ContentsType
  <2>6. CASE PutFails(t)
    <3>1. Fifo!PutFails(t)
      BY <2>1, <2>2, <2>4, <2>6
      DEF PutFails, AtLoop, Returns, EAGAIN, Fifo!PutFails, Fifo!Return,
          Fifo!EAGAIN, Pending
    <3>2. QED
      BY <3>1 DEF Fifo!Next
  <2>7. CASE GetFails(t)
    <3>1. Fifo!GetFails(t)
      BY <2>1, <2>2, <2>3, <2>7
      DEF GetFails, AtLoop, Returns, EAGAIN, Fifo!GetFails, Fifo!Return,
          Fifo!EAGAIN, Pending
    <3>2. QED
      BY <3>1 DEF Fifo!Next
  <2>8. CASE Peek(t)
    <3>1. (IF len > 0 THEN elements[curRd] ELSE Junk)
            = IF Contents = <<>> THEN Junk ELSE Head(Contents)
      BY <2>3, <2>5
    <3>2. Fifo!Peek(t)
      BY <2>1, <2>2, <2>8, <3>1
      DEF Peek, AtLoop, Returns, Fifo!Peek, Fifo!Return, Pending
    <3>3. QED
      BY <3>2 DEF Fifo!Next
  <2>9. CASE Query(t)
    <3>1. Fifo!Query(t)
      BY <2>1, <2>2, <2>3, <2>4, <2>9
      DEF Query, AtLoop, Returns, Fifo!Query, Fifo!Return, Pending
    <3>2. QED
      BY <3>1 DEF Fifo!Next
  <2>10. QED
    BY <1>6, <2>6, <2>7, <2>8, <2>9
<1>7. ASSUME NEW t \in Threads, PutWaits(t) \/ GetWaits(t) \/ SpuriousWakeup(t)
      PROVE  UNCHANGED Fifo!vars
  <2>1. Contents' = Contents
    BY <1>7, ContentsSame DEF PutWaits, GetWaits, SpuriousWakeup
  <2>2. Pending' = Pending
    BY <1>7 DEF PutWaits, GetWaits, SpuriousWakeup, AtLoop, Pending
  <2>3. UNCHANGED <<alive, call, ret>>
    BY <1>7 DEF PutWaits, GetWaits, SpuriousWakeup
  <2>4. QED
    BY <2>1, <2>2, <2>3 DEF Fifo!vars, Pending
<1>8. CASE UNCHANGED vars
  <2>1. Contents' = Contents /\ Pending' = Pending
    BY <1>8, ContentsSame DEF vars, ring, Pending
  <2>2. QED
    BY <1>8, <2>1 DEF vars, Fifo!vars, Pending
<1>9. QED
  BY <1>1, <1>2, <1>3, <1>4, <1>5, <1>6, <1>7, <1>8 DEF Next, Step

\* que.c is a bounded FIFO buffer for every depth: each step of an operation
\* is the step of the buffer that its comment names, or changes nothing that a
\* user of the queue can see.
THEOREM QueImplementsFifo == Spec => ImplementsFifo
<1>1. TypeOK /\ TypeOK' /\ RingConsistent /\ [Next]_vars => [Fifo!Next]_(Fifo!vars)
  BY RefinesStep
<1>2. QED
  BY <1>1, RefinesInit, TypeCorrect, RingCorrect, PTL
  DEF Spec, Fifo!Spec, ImplementsFifo
=============================================================================
