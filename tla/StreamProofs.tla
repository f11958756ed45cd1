--------------------------- MODULE StreamProofs ---------------------------
(***************************************************************************)
(* What the lock-free hand-over of StreamMgr guarantees, for any number of *)
(* channels and encoders.                                                  *)
(*                                                                         *)
(* The invariant follows one channel through a request.  Outside the write *)
(* phase of its own request a channel is Settled; inside, every word that  *)
(* was written has its new value, and an enable seen in order never shows  *)
(* the callback before what it needs.  A pump that found the callback, and *)
(* that no harmful request overlaps (Quiet), keeps finding all of it.      *)
(***************************************************************************)
EXTENDS StreamMgr, FiniteSetTheorems, TLAPS

Settled(c) ==
  /\ ptr[c] # "freed"
  /\ func[c] => c \in Encoders /\ ptr[c] = "open"
  /\ args[c] = func[c]
  /\ Configured(c)

Halfway ==
  LET c == req.id IN
  /\ c \notin Encoders => ~func[c] /\ ~args[c]
  /\ "ptr" \notin req.left => ptr[c] = IF req.enable THEN "open" ELSE "null"
  /\ c \in Encoders /\ "args" \notin req.left => args[c] = req.enable
  /\ c \in Encoders /\ "func" \notin req.left => func[c] = req.enable
  /\ req.enable /\ req.left \in Orderly /\ func[c] => args[c] /\ ptr[c] = "open"
  /\ req.enable => ptr[c] # "freed"

Channels ==
  /\ \A c \in Chans : (req.at # "write" \/ c # req.id) => Settled(c)
  /\ req.at = "write" => Halfway
  /\ req.at = "create" => req.enable
  /\ req.at = "destroy" => ~req.enable

\* No request that can harm overlaps what the pump serves.
Quiet == raced \subseteq {"enable"}

Ready(c) == func[c] /\ args[c] /\ ptr[c] = "open"

PumpSafe ==
  /\ Ongoing(chan) \subseteq raced
  /\ Quiet /\ at \in {"args", "call", "room", "put", "putting"} => Ready(chan)
  /\ Quiet /\ at = "call" => seen
  /\ Quiet /\ at = "putting" => ~dangling
  /\ Misused => ~Quiet

IInv == ControlOK /\ Channels /\ PumpSafe
-----------------------------------------------------------------------------
\* A callback that the pump finds without a harmful request has everything
\* behind it.
LEMMA FoundIsReady ==
  ASSUME ControlOK, Channels, Ongoing(chan) \subseteq raced, Quiet, func[chan]
  PROVE  Ready(chan)
<1>1. CASE req.at = "write" /\ req.id = chan
  <2>1. Name(req.enable) \in raced
    BY <1>1 DEF Ongoing
  <2>2. req.enable /\ req.left \in Orderly
    BY <1>1, <2>1 DEF Quiet, Name, Ongoing, ControlOK
  <2> QED BY <1>1, <2>2 DEF Channels, Halfway, Ready
<1>2. CASE ~(req.at = "write" /\ req.id = chan)
  BY <1>2 DEF Channels, Settled, Ready, ControlOK
<1> QED BY <1>1, <1>2

\* Nothing is configured at first and the pump has read nothing.
LEMMA InitInv == Init => IInv
<1> SUFFICES ASSUME Init PROVE IInv
  OBVIOUS
<1>1. 0 \in Chans
  BY StreamAssumption DEF Chans
<1>2. ControlOK
  BY <1>1 DEF Init, ControlOK, Idle, Places, Kinds
<1>3. Channels
  BY <1>1 DEF Init, Channels, Settled, Configured, Idle
<1>4. PumpSafe
  BY DEF Init, PumpSafe, Idle, Ongoing, Misused
<1> QED BY <1>2, <1>3, <1>4 DEF IInv

\* The request thread: types, channels and pump.
LEMMA RequestInv ==
  ASSUME IInv, fault = "none", NEW c \in Chans, NEW e \in BOOLEAN, Request(c, e)
  PROVE  IInv'
<1> USE DEF IInv
<1>1. ControlOK'
  BY DEF Request, Idle, ControlOK, pump, Name
<1>2. Channels'
  BY DEF Request, Idle, ControlOK, Channels, Settled, Configured
<1>3. PumpSafe'
  <2>1. /\ req'.at # "idle" /\ req'.id = c /\ req'.enable = e /\ req'.left = {}
        /\ chan' = chan
    BY DEF Request, Idle, pump
  <2>2. raced \subseteq raced' /\ (c = chan => Name(e) \in raced')
    BY DEF Request
  <2>3. Ongoing(chan)' \subseteq raced'
    BY <2>1, <2>2 DEF Ongoing, Orderly
  <2>4. Quiet' => Quiet
    BY <2>2 DEF Quiet
  <2> QED BY <2>3, <2>4 DEF PumpSafe, Request, pump, Ready, Misused
<1> QED BY <1>1, <1>2, <1>3

\* What every later step of set leaves alone, besides its own channel.
LEMMA SetInv ==
  ASSUME IInv, fault = "none", Set
  PROVE  IInv'
<1> USE DEF IInv
<1>1. ControlOK'
  <2>1. CASE CreateFifo BY <2>1 DEF CreateFifo, ControlOK, pump, Words, Dies
  <2>2. CASE DestroyFifo BY <2>2 DEF DestroyFifo, ControlOK, pump, Words
  <2>3. CASE WritePtr BY <2>3 DEF WritePtr, Write, ControlOK, pump, Words
  <2>4. CASE WriteArgs BY <2>4 DEF WriteArgs, Write, ControlOK, pump, Words
  <2>5. CASE WriteFunc BY <2>5 DEF WriteFunc, Write, ControlOK, pump, Words
  <2>6. CASE StoreCfg BY <2>6, StreamAssumption DEF StoreCfg, ControlOK, pump, Idle, Chans
  <2> QED BY <2>1, <2>2, <2>3, <2>4, <2>5, <2>6 DEF Set
<1>2. Channels'
  <2>1. CASE CreateFifo
    BY <2>1 DEF CreateFifo, ControlOK, Channels, Settled, Configured, Halfway, Words, Orderly
  <2>2. CASE DestroyFifo
    BY <2>2 DEF DestroyFifo, ControlOK, Channels, Settled, Configured, Halfway, Words, Orderly
  <2>3. CASE WritePtr
    BY <2>3 DEF WritePtr, Write, ControlOK, Channels, Settled, Configured, Halfway, Words, Orderly
  <2>4. CASE WriteArgs
    BY <2>4 DEF WriteArgs, Write, ControlOK, Channels, Settled, Configured, Halfway, Words, Orderly
  <2>5. CASE WriteFunc
    BY <2>5 DEF WriteFunc, Write, ControlOK, Channels, Settled, Configured, Halfway, Words, Orderly
  <2>6. CASE StoreCfg
    BY <2>6 DEF StoreCfg, Idle, ControlOK, Channels, Settled, Configured, Halfway, Words, Orderly
  <2> QED BY <2>1, <2>2, <2>3, <2>4, <2>5, <2>6 DEF Set
<1>3. PumpSafe'
  <2>1. /\ at' = at /\ chan' = chan /\ seen' = seen /\ raced \subseteq raced'
        /\ fault' \in {"none", "create"}
        /\ Ongoing(chan)' \subseteq raced'
    <3>1. at' = at /\ chan' = chan /\ seen' = seen
      BY DEF Set, CreateFifo, DestroyFifo, WritePtr, WriteArgs, WriteFunc, StoreCfg, pump
    <3>2. fault' \in {"none", "create"}
      BY DEF Set, CreateFifo, DestroyFifo, WritePtr, WriteArgs, WriteFunc, StoreCfg, Dies
    <3>3. raced \subseteq raced'
      BY DEF Set, CreateFifo, DestroyFifo, WritePtr, WriteArgs, WriteFunc, Write, StoreCfg
    <3>4. Ongoing(chan)' \subseteq raced'
      <4>1. CASE StoreCfg
        BY <4>1 DEF StoreCfg, Idle, Ongoing
      <4>2. CASE CreateFifo \/ DestroyFifo
        BY <3>1, <4>2 DEF CreateFifo, DestroyFifo, ControlOK, Ongoing, Orderly, PumpSafe
      <4>3. CASE WritePtr \/ WriteArgs \/ WriteFunc
        <5>1. \E w \in Words : Write(w)
          BY <4>3 DEF WritePtr, WriteArgs, WriteFunc, Words
        <5>2. req.at # "idle" /\ req'.id = req.id /\ req'.enable = req.enable
          BY <5>1 DEF Write, ControlOK
        <5>3. req.id = chan /\ req'.left \notin Orderly => "reorder" \in raced'
          BY <5>1 DEF Write
        <5>4. req.id = chan => Name(req.enable) \in raced
          BY <5>2 DEF PumpSafe, Ongoing
        <5> QED BY <3>1, <3>3, <5>2, <5>3, <5>4 DEF Ongoing, Orderly
      <4> QED BY <4>1, <4>2, <4>3 DEF Set
    <3> QED BY <3>1, <3>2, <3>3, <3>4
  <2>2. Quiet' => Quiet
    BY <2>1 DEF Quiet
  <2>3. ASSUME Quiet, req.id = chan PROVE req.enable
    <3>1. req.at # "idle"
      BY DEF Set, CreateFifo, DestroyFifo, WritePtr, WriteArgs, WriteFunc, Write, StoreCfg
    <3>2. Name(req.enable) \in raced
      BY <2>3, <3>1 DEF PumpSafe, Ongoing
    <3> QED BY <2>3, <3>2 DEF Quiet, Name, ControlOK
  <2>4. ASSUME Quiet, Ready(chan) PROVE Ready(chan)'
    <3>1. req.id = chan => req.enable
      BY <2>3, <2>4
    <3>2. chan \in Encoders
      BY <2>4 DEF Ready, Channels, Settled, Halfway, ControlOK
    <3> QED
      BY <2>1, <2>4, <3>1, <3>2 DEF Ready, Set, CreateFifo, DestroyFifo, WritePtr, WriteArgs,
         WriteFunc, StoreCfg, ControlOK, Channels
  <2>5. ASSUME Quiet, at = "putting", ~dangling PROVE ~dangling'
    BY <2>3, <2>5 DEF Set, CreateFifo, DestroyFifo, WritePtr, WriteArgs, WriteFunc, StoreCfg,
       Channels
  <2> QED BY <2>1, <2>2, <2>4, <2>5 DEF PumpSafe, Misused
<1> QED BY <1>1, <1>2, <1>3

\* The pump changes nothing that the channels are made of.
LEMMA PumpInv ==
  ASSUME IInv, fault = "none", PumpStep \/ Select \/ PutAstray
  PROVE  IInv'
<1> USE DEF IInv, mgr
<1>1. ControlOK'
  <2>1. CASE Select BY <2>1, StreamAssumption DEF Select, ControlOK, Places, Kinds
  <2>2. CASE Take BY <2>2 DEF Take, After, ControlOK, Places, Kinds, Ongoing, Name
  <2>3. CASE CheckCallback BY <2>3 DEF CheckCallback, ControlOK, Places
  <2>4. CASE LoadArgs BY <2>4 DEF LoadArgs, ControlOK, Places
  <2>5. CASE Call BY <2>5 DEF Call, Dies, ControlOK, Places
  <2>6. CASE MakeRoom BY <2>6 DEF MakeRoom, Dies, MayDie, ControlOK, Places
  <2>7. CASE Put BY <2>7 DEF Put, Dies, MayDie, ControlOK, Places
  <2>8. CASE PutEnds BY <2>8 DEF PutEnds, ControlOK, Places
  <2>9. CASE PutAstray BY <2>9 DEF PutAstray, MayDie, ControlOK, Places
  <2>10. CASE Release BY <2>10 DEF Release, After, ControlOK, Places
  <2> QED
    BY <2>1, <2>2, <2>3, <2>4, <2>5, <2>6, <2>7, <2>8, <2>9, <2>10 DEF PumpStep
<1>2. UNCHANGED <<mgr, ptr>>
  BY DEF PumpStep, Select, Take, CheckCallback, LoadArgs, Call, MakeRoom, Put, PutEnds,
         PutAstray, Release
<1>3. Channels'
  BY <1>2 DEF Channels, Settled, Configured, Halfway
<1>4. PumpSafe'
  <2>1. CASE Take
    BY <2>1, <1>2 DEF Take, After, PumpSafe, Ongoing, Misused
  <2>2. ASSUME ~Take PROVE chan' = chan /\ raced' = raced /\ Ongoing(chan)' \subseteq raced'
    BY <1>2, <2>2 DEF PumpStep, Select, CheckCallback, LoadArgs, Call, MakeRoom, Put, PutEnds,
       PutAstray, Release, PumpSafe, Ongoing
  <2>3. CASE Select \/ Release
    BY <2>2, <2>3, <1>2 DEF Select, Release, After, Take, PumpSafe, Quiet, Misused
  <2>4. CASE CheckCallback
    BY <2>2, <2>4, <1>2, FoundIsReady
       DEF CheckCallback, Take, PumpSafe, Quiet, Misused, Ready
  <2>5. CASE LoadArgs
    BY <2>2, <2>5, <1>2 DEF LoadArgs, Take, PumpSafe, Quiet, Misused, Ready
  <2>6. CASE Call
    BY <2>2, <2>6, <1>2 DEF Call, Dies, Take, PumpSafe, Quiet, Misused, Ready
  <2>7. CASE MakeRoom
    BY <2>2, <2>7, <1>2 DEF MakeRoom, Dies, MayDie, Take, PumpSafe, Quiet, Misused, Ready
  <2>8. CASE Put
    BY <2>2, <2>8, <1>2 DEF Put, Dies, MayDie, Take, PumpSafe, Quiet, Misused, Ready
  <2>9. CASE PutEnds
    BY <2>2, <2>9, <1>2 DEF PutEnds, Take, PumpSafe, Quiet, Misused, Ready
  <2>10. CASE PutAstray
    BY <2>2, <2>10, <1>2 DEF PutAstray, MayDie, Take, PumpSafe, Quiet, Misused, Ready
  <2> QED BY <2>1, <2>3, <2>4, <2>5, <2>6, <2>7, <2>8, <2>9, <2>10 DEF PumpStep
<1> QED BY <1>1, <1>3, <1>4

\* What holds of the words does not depend on the contents of the FIFOs.
LEMMA ReaderInv ==
  ASSUME IInv, UNCHANGED <<mgr, ptr, pump, dangling, raced, fault>>
  PROVE  IInv'
BY DEF IInv, mgr, pump, ControlOK, Channels, Settled, Configured, Halfway, PumpSafe, Ongoing,
       Quiet, Ready, Misused

\* A step of the request thread or of the pump keeps the invariant.
LEMMA NextInv == IInv /\ [Next]_vars => IInv'
<1> SUFFICES ASSUME IInv, [Next]_vars PROVE IInv'
  OBVIOUS
<1>1. CASE UNCHANGED vars
  BY <1>1, ReaderInv DEF vars
<1>2. CASE Next
  <2>1. ASSUME NEW c \in Chans, NEW e \in BOOLEAN, Request(c, e) PROVE IInv'
    BY <1>2, <2>1, RequestInv DEF Next
  <2>2. ASSUME NEW c \in Chans, ReaderTakes(c) PROVE IInv'
    BY <2>2, ReaderInv DEF ReaderTakes
  <2> QED BY <1>2, <2>1, <2>2, SetInv, PumpInv DEF Next
<1> QED BY <1>1, <1>2

\* The inductive invariant holds throughout.
THEOREM Inductive == Spec => []IInv
BY InitInv, NextInv, PTL DEF Spec

\* __vsf_stream_set may enable a stream at any moment without a lock, if only
\* its writes are seen in order; its disable can race with the pump.
THEOREM OnlyDisableRacesAlways == Spec => []OnlyDisableRaces
<1>1. IInv => OnlyDisableRaces
  BY DEF IInv, ControlOK, PumpSafe, Quiet, OnlyDisableRaces
<1> QED BY <1>1, Inductive, PTL

\* Whatever sequence of requests there was, __vsf_stream_set leaves the FIFO
\* and the callback of every channel as its configuration says.
THEOREM ConfiguredIsServedAlways == Spec => []ConfiguredIsServed
<1>1. IInv => ConfiguredIsServed
  BY DEF IInv, Channels, Settled, ConfiguredIsServed, Idle
<1> QED BY <1>1, Inductive, PTL
-----------------------------------------------------------------------------
(***************************************************************************)
(* How full the FIFOs are                                                  *)
(***************************************************************************)
\* How many records of kind k there are in f.
Count(f, k) == Cardinality({i \in DOMAIN f : f[i] = k})

\* The records of a kind are finitely many.
LEMMA CountType ==
  ASSUME NEW f \in Seq(Kinds), NEW k
  PROVE  /\ IsFiniteSet({i \in DOMAIN f : f[i] = k}) /\ Count(f, k) \in Nat
         /\ f = <<>> => Count(f, k) = 0
<1> DEFINE P == {i \in DOMAIN f : f[i] = k}
<1>1. DOMAIN f = 1 .. Len(f) /\ Len(f) \in Nat
  OBVIOUS
<1>2. IsFiniteSet(1 .. Len(f)) /\ P \subseteq 1 .. Len(f)
  BY <1>1, FS_Interval
<1> HIDE DEF P
<1>3. IsFiniteSet(P)
  BY <1>2, FS_Subset
<1>4. Cardinality(P) \in Nat
  BY <1>3, FS_CardinalityType
<1>5. ASSUME f = <<>> PROVE Cardinality(P) = 0
  <2>1. P = {}
    BY <1>5 DEF P
  <2> QED BY <2>1, FS_EmptySet
<1> QED BY <1>3, <1>4, <1>5 DEF P, Count

\* A record at the end counts.
LEMMA CountAppend ==
  ASSUME NEW f \in Seq(Kinds), NEW k \in Kinds, NEW l \in Kinds
  PROVE  Count(Append(f, k), l) = Count(f, l) + IF k = l THEN 1 ELSE 0
<1> DEFINE P == {i \in DOMAIN f : f[i] = l}
           n == Len(f) + 1
           g == Append(f, k)
           Q == {i \in DOMAIN g : g[i] = l}
<1>1. DOMAIN f = 1 .. Len(f) /\ Len(f) \in Nat
  OBVIOUS
<1>2. DOMAIN g = 1 .. n /\ g[n] = k /\ \A i \in 1 .. Len(f) : g[i] = f[i]
  OBVIOUS
<1>3. IsFiniteSet(P) /\ Cardinality(P) \in Nat
  BY CountType DEF Count
<1> HIDE DEF g
<1>4. n \notin P /\ (k = l => Q = P \cup {n}) /\ (k # l => Q = P)
  BY <1>1, <1>2
<1> HIDE DEF P, Q
<1>5. Cardinality(Q) = Cardinality(P) + IF k = l THEN 1 ELSE 0
  BY <1>3, <1>4, FS_AddElement
<1> QED BY <1>5 DEF Count, P, Q, g

\* Records that are dropped at the front count no more.
LEMMA CountDrop ==
  ASSUME NEW f \in Seq(Kinds), NEW n \in 1 .. Len(f), NEW l \in Kinds
  PROVE  Count(SubSeq(f, n + 1, Len(f)), l) + (IF f[1] = l THEN 1 ELSE 0) <= Count(f, l)
<1> DEFINE g == SubSeq(f, n + 1, Len(f))
           P == {i \in DOMAIN f : f[i] = l}
           R == P \ {1}
           Q == {i \in DOMAIN g : g[i] = l}
           h == [i \in Q |-> i + n]
<1>1. DOMAIN f = 1 .. Len(f) /\ Len(f) \in Nat
  OBVIOUS
<1>2. DOMAIN g = 1 .. Len(f) - n /\ \A i \in 1 .. Len(f) - n : g[i] = f[i + n]
  <2>1. /\ g \in Seq(Kinds) /\ Len(g) = Len(f) - n
        /\ \A i \in 1 .. Len(f) - n : g[i] = f[i + n]
    OBVIOUS
  <2> HIDE DEF g
  <2> QED BY <1>1, <2>1
<1>3. IsFiniteSet(P) /\ Cardinality(P) \in Nat
  BY CountType DEF Count
<1> HIDE DEF g
<1>4. \A i \in Q : i \in Int /\ i + n \in P /\ i + n # 1
  BY <1>1, <1>2
<1>5. 1 \in P <=> f[1] = l
  BY <1>1
<1> HIDE DEF P, Q
<1>6. IsFiniteSet(R) /\ Cardinality(R) = Cardinality(P) - IF f[1] = l THEN 1 ELSE 0
  BY <1>3, <1>5, FS_RemoveElement
<1>7. h \in Injection(Q, R)
  <2>1. h \in [Q -> R]
    BY <1>4
  <2>2. \A i, j \in Q : h[i] = h[j] => i = j
    BY <1>4
  <2> QED BY <2>1, <2>2 DEF Injection, IsInjective
<1>8. Cardinality(Q) <= Cardinality(R) /\ IsFiniteSet(Q)
  BY <1>6, <1>7, FS_Injection
<1>9. Cardinality(Q) \in Nat
  BY <1>8, FS_CardinalityType
<1>10. Cardinality(Q) + (IF f[1] = l THEN 1 ELSE 0) <= Cardinality(P)
  BY <1>3, <1>6, <1>8, <1>9
<1>11. Count(g, l) = Cardinality(Q) /\ Count(f, l) = Cardinality(P)
  BY DEF Count, P, Q
<1>12. Count(g, l) + (IF f[1] = l THEN 1 ELSE 0) <= Count(f, l)
  BY <1>10, <1>11
<1> QED BY <1>12 DEF g

\* Products of a size and a number of records.
LEMMA Times ==
  ASSUME NEW s \in Nat, NEW a \in Nat, NEW b \in Nat
  PROVE  /\ s * a \in Nat /\ s * (a + 1) = s * a + s
         /\ a <= b => s * a <= s * b
<1>1. s * a \in Nat /\ s * (a + 1) = s * a + s
  OBVIOUS
<1>2. ASSUME a <= b PROVE s * a <= s * b
  <2>1. PICK d \in Nat : b = a + d
    BY <1>2
  <2>2. s * b = s * a + s * d /\ s * d \in Nat /\ s * a \in Nat
    BY <2>1
  <2> QED BY <2>2
<1> QED BY <1>1, <1>2

\* What the records in a FIFO take, when one is added or some are dropped.
LEMMA UsedType ==
  ASSUME NEW f \in Seq(Kinds)
  PROVE  Used(f) \in Nat /\ (f = <<>> => Used(f) = 0)
<1>1. Used(f) = KeySize * Count(f, "key") + DeltaSize * Count(f, "delta")
  BY DEF Used, Count
<1>2. Count(f, "key") \in Nat /\ Count(f, "delta") \in Nat
      /\ (f = <<>> => Count(f, "key") = 0 /\ Count(f, "delta") = 0)
  BY CountType
<1>3. KeySize \in Nat /\ DeltaSize \in Nat
  BY StreamAssumption
<1>4. KeySize * Count(f, "key") \in Nat /\ DeltaSize * Count(f, "delta") \in Nat
  BY <1>2, <1>3, Times
<1>5. KeySize * 0 = 0 /\ DeltaSize * 0 = 0
  BY <1>3
<1> QED BY <1>1, <1>2, <1>4, <1>5

\* A put adds the size of its record.
LEMMA UsedAppend ==
  ASSUME NEW f \in Seq(Kinds), NEW k \in Kinds
  PROVE  Used(Append(f, k)) = Used(f) + SizeOf(k)
<1> DEFINE a == Count(f, "key")
           b == Count(f, "delta")
<1>1. a \in Nat /\ b \in Nat
  BY CountType
<1>2. KeySize \in Nat /\ DeltaSize \in Nat /\ "key" \in Kinds /\ "delta" \in Kinds
  BY StreamAssumption DEF Kinds
<1>3. Count(Append(f, k), "key") = a + IF k = "key" THEN 1 ELSE 0
  BY <1>2, CountAppend
<1>4. Count(Append(f, k), "delta") = b + IF k = "delta" THEN 1 ELSE 0
  BY <1>2, CountAppend
<1>5. Used(f) = KeySize * a + DeltaSize * b
  BY DEF Used, Count
<1>6. Used(Append(f, k)) = KeySize * Count(Append(f, k), "key")
                           + DeltaSize * Count(Append(f, k), "delta")
  BY DEF Used, Count
<1> HIDE DEF a, b
<1>7. CASE k = "key"
  <2>1. Used(Append(f, k)) = KeySize * (a + 1) + DeltaSize * b
    BY <1>1, <1>3, <1>4, <1>6, <1>7
  <2>2. KeySize * (a + 1) = KeySize * a + KeySize /\ KeySize * a \in Nat /\ DeltaSize * b \in Nat
    BY <1>1, <1>2, Times
  <2> QED BY <1>2, <1>5, <1>7, <2>1, <2>2 DEF SizeOf
<1>8. CASE k = "delta"
  <2>1. Used(Append(f, k)) = KeySize * a + DeltaSize * (b + 1)
    BY <1>1, <1>3, <1>4, <1>6, <1>8
  <2>2. DeltaSize * (b + 1) = DeltaSize * b + DeltaSize /\ KeySize * a \in Nat /\ DeltaSize * b \in Nat
    BY <1>1, <1>2, Times
  <2> QED BY <1>2, <1>5, <1>8, <2>1, <2>2 DEF SizeOf
<1> QED BY <1>7, <1>8 DEF Kinds

\* A skip frees the first record at least.
LEMMA UsedDrop ==
  ASSUME NEW f \in Seq(Kinds), NEW n \in 1 .. Len(f)
  PROVE  /\ SubSeq(f, n + 1, Len(f)) \in Seq(Kinds)
         /\ Used(SubSeq(f, n + 1, Len(f))) + SizeOf(f[1]) <= Used(f)
<1> DEFINE g == SubSeq(f, n + 1, Len(f))
           a == Count(f, "key")
           b == Count(f, "delta")
           c == Count(g, "key")
           d == Count(g, "delta")
<1>1. g \in Seq(Kinds) /\ f[1] \in Kinds
  OBVIOUS
<1>2. a \in Nat /\ b \in Nat /\ c \in Nat /\ d \in Nat
  BY <1>1, CountType
<1>3. KeySize \in Nat /\ DeltaSize \in Nat /\ "key" \in Kinds /\ "delta" \in Kinds
  BY StreamAssumption DEF Kinds
<1>4. c + (IF f[1] = "key" THEN 1 ELSE 0) <= a /\ d + (IF f[1] = "delta" THEN 1 ELSE 0) <= b
  BY <1>3, CountDrop
<1>5. Used(f) = KeySize * a + DeltaSize * b /\ Used(g) = KeySize * c + DeltaSize * d
  BY DEF Used, Count
<1> HIDE DEF a, b, c, d, g
<1>6. /\ KeySize * a \in Nat /\ DeltaSize * b \in Nat /\ KeySize * c \in Nat /\ DeltaSize * d \in Nat
      /\ KeySize * (c + 1) = KeySize * c + KeySize
      /\ DeltaSize * (d + 1) = DeltaSize * d + DeltaSize
      /\ c <= a => KeySize * c <= KeySize * a
      /\ d <= b => DeltaSize * d <= DeltaSize * b
      /\ c + 1 <= a => KeySize * (c + 1) <= KeySize * a
      /\ d + 1 <= b => DeltaSize * (d + 1) <= DeltaSize * b
  <2>1. c + 1 \in Nat /\ d + 1 \in Nat
    BY <1>2
  <2> QED BY <1>2, <1>3, <2>1, Times
<1>7. Used(g) + SizeOf(f[1]) <= Used(f)
  <2>1. CASE f[1] = "key"
    <3>1. c + 1 <= a /\ d <= b
      BY <1>2, <1>4, <2>1
    <3> QED BY <1>3, <1>5, <1>6, <2>1, <3>1 DEF SizeOf
  <2>2. CASE f[1] = "delta"
    <3>1. c <= a /\ d + 1 <= b
      BY <1>2, <1>4, <2>2
    <3> QED BY <1>3, <1>5, <1>6, <2>2, <3>1 DEF SizeOf
  <2> QED BY <1>1, <2>1, <2>2 DEF Kinds
<1> QED BY <1>1, <1>7 DEF g

\* oldest only drops records, and there are none it could add.
LEMMA OldestDrops ==
  ASSUME NEW f \in Seq(Kinds), NEW g \in Oldest(f)
  PROVE  g \in Seq(Kinds) /\ Used(g) <= Used(f)
<1>1. Used(f) \in Nat /\ <<>> \in Seq(Kinds) /\ Used(<<>>) = 0
  <2>1. <<>> \in Seq(Kinds)
    OBVIOUS
  <2> QED BY <2>1, UsedType
<1>2. CASE g \in {f, <<>>}
  <2>1. CASE g = f
    BY <1>1, <2>1
  <2>2. CASE g = <<>>
    <3>1. Used(g) = 0
      BY <1>1, <2>2
    <3> QED BY <1>1, <2>2, <3>1
  <2> QED BY <1>2, <2>1, <2>2
<1>3. CASE \E i \in DOMAIN f : g = SubSeq(f, i, Len(f))
  <2>1. PICK i \in 1 .. Len(f) : g = SubSeq(f, i, Len(f))
    BY <1>3
  <2>2. CASE i = 1
    <3>1. g = f
      BY <2>1, <2>2
    <3> QED BY <1>1, <3>1
  <2>3. CASE i # 1
    <3> DEFINE n == i - 1
    <3>1. n \in 1 .. Len(f) /\ n + 1 = i
      BY <2>3
    <3>2. g \in Seq(Kinds) /\ Used(g) + SizeOf(f[1]) <= Used(f)
      <4> HIDE DEF n
      <4>1. g = SubSeq(f, n + 1, Len(f))
        BY <2>1, <3>1
      <4> QED BY <3>1, <4>1, UsedDrop
    <3>3. SizeOf(f[1]) \in Nat /\ Used(g) \in Nat
      BY <3>2, UsedType, StreamAssumption DEF SizeOf
    <3> QED BY <1>1, <3>2, <3>3
  <2> QED BY <2>2, <2>3
<1> QED BY <1>2, <1>3 DEF Oldest

\* A record that is taken or skipped leaves its size behind.
LEMMA TailFrees ==
  ASSUME NEW f \in Seq(Kinds), f # <<>>
  PROVE  /\ Tail(f) \in Seq(Kinds) /\ f[1] \in Kinds
         /\ Used(Tail(f)) + SizeOf(f[1]) <= Used(f) /\ Used(Tail(f)) <= Used(f)
<1>1. 1 \in 1 .. Len(f) /\ Tail(f) = SubSeq(f, 1 + 1, Len(f)) /\ f[1] \in Kinds
  OBVIOUS
<1>2. Tail(f) \in Seq(Kinds) /\ Used(Tail(f)) + SizeOf(f[1]) <= Used(f)
  BY <1>1, UsedDrop
<1>3. SizeOf(f[1]) \in Nat /\ Used(Tail(f)) \in Nat /\ Used(f) \in Nat
  BY <1>2, UsedType, StreamAssumption DEF SizeOf
<1> QED BY <1>1, <1>2, <1>3

\* No FIFO holds more than its size, and after the skip there is room for a
\* delta frame, until it is put.
Fills == fifo \in [Chans -> Seq(Kinds)] /\ \A c \in Chans : Used(fifo[c]) <= Size

RoomMade ==
  /\ at = "putting" \/ (at = "put" /\ fault = "none")
  /\ frame = "delta" /\ "disable" \notin raced /\ DeltaSize <= KeySize
  => Fits(fifo[chan], "delta")

\* The skip before a put, on a FIFO that is open.
LEMMA RoomStep ==
  ASSUME IInv, Fills, MakeRoom
  PROVE  Fills' /\ RoomMade'
<1> DEFINE f == fifo[chan]
           g == fifo'[chan]
<1>1. /\ chan \in Chans /\ frame \in Kinds /\ f \in Seq(Kinds) /\ Used(f) \in Nat /\ Used(f) <= Size
      /\ KeySize \in Nat /\ DeltaSize \in Nat /\ Size \in Nat
      /\ KeySize <= Size /\ DeltaSize <= Size
  <2>1. f \in Seq(Kinds) /\ Used(f) <= Size /\ chan \in Chans /\ frame \in Kinds
    BY DEF Fills, IInv, ControlOK
  <2> QED BY <2>1, UsedType, StreamAssumption
<1>2. CASE ptr[chan] = "open" /\ ~Fits(f, frame)
  <2>1. PICK w \in Oldest(Tail(f)) : fifo' = [fifo EXCEPT ![chan] = w]
    BY <1>2 DEF MakeRoom
  <2>2. f # <<>>
    <3>1. Used(f) + SizeOf(frame) > Size
      BY <1>1, <1>2 DEF Fits, SizeOf
    <3> QED BY <1>1, <3>1, UsedType DEF SizeOf
  <2>3. /\ Tail(f) \in Seq(Kinds) /\ f[1] \in Kinds
        /\ Used(Tail(f)) + SizeOf(f[1]) <= Used(f) /\ Used(Tail(f)) <= Used(f)
    BY <1>1, <2>2, TailFrees
  <2>4. w \in Seq(Kinds) /\ Used(w) <= Used(Tail(f))
    BY <2>3, OldestDrops
  <2>5. Used(w) \in Nat /\ Used(Tail(f)) \in Nat
    BY <2>3, <2>4, UsedType
  <2>6. g = w /\ \A c \in Chans : c # chan => fifo'[c] = fifo[c]
    BY <1>1, <2>1 DEF Fills
  <2>7. Fills'
    <3>1. Used(w) <= Size
      BY <1>1, <2>3, <2>4, <2>5
    <3> QED BY <2>1, <2>4, <2>6, <3>1 DEF Fills
  <2>8. ASSUME DeltaSize <= KeySize PROVE Fits(g, "delta")
    <3>1. DeltaSize <= SizeOf(f[1]) /\ SizeOf(f[1]) \in Nat
      BY <1>1, <2>3, <2>8 DEF SizeOf, Kinds
    <3>2. Used(w) + DeltaSize <= Size
      BY <1>1, <2>3, <2>4, <2>5, <3>1
    <3> QED BY <2>6, <3>2 DEF Fits, SizeOf
  <2>9. chan' = chan
    BY DEF MakeRoom
  <2> QED BY <2>7, <2>8, <2>9 DEF RoomMade
<1>3. CASE ~(ptr[chan] = "open" /\ ~Fits(f, frame))
  <2>1. fifo' = fifo /\ chan' = chan /\ raced' = raced /\ frame' = frame /\ at' = "put"
    BY <1>3 DEF MakeRoom
  <2>2. Fills'
    BY <2>1 DEF Fills
  <2>3. CASE ptr[chan] = "open"
    BY <1>3, <2>1, <2>2, <2>3 DEF RoomMade
  <2>4. CASE ptr[chan] = "null"
    BY <2>1, <2>2, <2>4 DEF RoomMade, MakeRoom, Dies
  <2>5. CASE ptr[chan] = "freed"
    <3>1. "disable" \in raced
      BY <1>1, <2>5 DEF IInv, Channels, Halfway, Settled, PumpSafe, Ongoing, Name, ControlOK
    <3> QED BY <2>1, <2>2, <3>1 DEF RoomMade
  <2> QED BY <1>1, <2>3, <2>4, <2>5 DEF IInv, ControlOK
<1> QED BY <1>2, <1>3

\* All FIFOs are empty at first.
LEMMA FillsInit == Init => Fills /\ RoomMade
<1>1. <<>> \in Seq(Kinds) /\ Used(<<>>) = 0
  <2>1. <<>> \in Seq(Kinds)
    OBVIOUS
  <2> QED BY <2>1, UsedType
<1> QED BY <1>1, StreamAssumption DEF Init, Fills, RoomMade

\* Only a put fills a FIFO, and it waits for room.
LEMMA FillsStep == IInv /\ Fills /\ RoomMade /\ [Next]_vars => Fills' /\ RoomMade'
<1> SUFFICES ASSUME IInv, Fills, RoomMade, [Next]_vars PROVE Fills' /\ RoomMade'
  OBVIOUS
<1>1. /\ DeltaSize \in Nat /\ Size \in Nat /\ DeltaSize <= Size
      /\ \A c \in Chans : fifo[c] \in Seq(Kinds) /\ Used(fifo[c]) \in Nat /\ Used(fifo[c]) <= Size
      /\ chan \in Chans /\ frame \in Kinds
  <2>1. \A c \in Chans : fifo[c] \in Seq(Kinds) /\ Used(fifo[c]) <= Size
    BY DEF Fills
  <2> QED BY <2>1, UsedType, StreamAssumption DEF IInv, ControlOK
<1>2. CASE UNCHANGED <<fifo, chan, frame>> /\ raced \subseteq raced' /\ (at' = at \/ at' \notin {"put", "putting"})
           /\ (fault = "none" \/ fault' = fault)
  BY <1>2 DEF Fills, RoomMade
<1>3. CASE UNCHANGED vars
  BY <1>2, <1>3 DEF vars, pump
<1>4. ASSUME fault = "none", NEW c \in Chans, NEW e \in BOOLEAN, Request(c, e)
      PROVE  Fills' /\ RoomMade'
  BY <1>2, <1>4 DEF Request, pump
<1>5. ASSUME fault = "none", DestroyFifo \/ WritePtr \/ WriteArgs \/ WriteFunc \/ StoreCfg
      PROVE  Fills' /\ RoomMade'
  BY <1>2, <1>5 DEF DestroyFifo, WritePtr, WriteArgs, WriteFunc, Write, StoreCfg, pump
<1>6. ASSUME fault = "none", CreateFifo
      PROVE  Fills' /\ RoomMade'
  <2>1. UNCHANGED <<chan, frame, at, raced>>
    BY <1>6 DEF CreateFifo, pump
  <2>2. CASE fifo' = fifo
    BY <1>2, <1>6, <2>1, <2>2
  <2>3. CASE fifo' = [fifo EXCEPT ![req.id] = <<>>]
    <3>1. <<>> \in Seq(Kinds) /\ Used(<<>>) = 0
      <4>1. <<>> \in Seq(Kinds)
        OBVIOUS
      <4> QED BY <4>1, UsedType
    <3>2. \A c \in Chans : fifo'[c] = IF c = req.id THEN <<>> ELSE fifo[c]
      BY <2>3 DEF Fills
    <3>3. Fills'
      <4>1. fifo' \in [Chans -> Seq(Kinds)]
        BY <2>3, <3>1 DEF Fills
      <4>2. ASSUME NEW d \in Chans PROVE Used(fifo'[d]) <= Size
        <5>1. CASE d = req.id
          <6>1. Used(fifo'[d]) = 0
            BY <3>1, <3>2, <5>1
          <6> QED BY <1>1, <6>1
        <5>2. CASE d # req.id
          BY <1>1, <3>2, <5>2
        <5> QED BY <5>1, <5>2
      <4> QED BY <4>1, <4>2 DEF Fills
    <3>4. RoomMade'
      BY <1>1, <1>6, <2>1, <3>1, <3>2 DEF RoomMade, Fits, SizeOf
    <3> QED BY <3>3, <3>4
  <2> QED BY <1>6, <2>2, <2>3 DEF CreateFifo
<1>7. ASSUME fault = "none", Select \/ Take \/ CheckCallback \/ LoadArgs \/ Call \/ PutAstray \/ Release
      PROVE  Fills' /\ RoomMade'
  <2>1. fifo' = fifo /\ at' \notin {"put", "putting"}
    <3>1. CASE Call
      BY <3>1 DEF Call
    <3>2. CASE Select \/ Take \/ CheckCallback \/ LoadArgs \/ PutAstray \/ Release
      BY <3>2 DEF Select, Take, CheckCallback, LoadArgs, PutAstray, Release, After
    <3> QED BY <1>7, <3>1, <3>2
  <2> QED BY <2>1 DEF Fills, RoomMade
<1>8. ASSUME fault = "none", Put
      PROVE  Fills' /\ RoomMade'
  BY <1>8 DEF Put, Fills, RoomMade
<1>9. ASSUME fault = "none", PutEnds
      PROVE  Fills' /\ RoomMade'
  <2>1. /\ fifo' = [fifo EXCEPT ![chan] = Append(fifo[chan], frame)] /\ at' = "release"
        /\ Fits(fifo[chan], frame)
    BY <1>9 DEF PutEnds
  <2>2. Used(Append(fifo[chan], frame)) = Used(fifo[chan]) + SizeOf(frame)
    BY <1>1, UsedAppend
  <2>3. Append(fifo[chan], frame) \in Seq(Kinds)
    BY <1>1
  <2>4. Used(Append(fifo[chan], frame)) <= Size
    BY <2>1, <2>2 DEF Fits
  <2> QED BY <2>1, <2>3, <2>4 DEF Fills, RoomMade
<1>10. ASSUME fault = "none", NEW c \in Chans, ReaderTakes(c)
       PROVE  Fills' /\ RoomMade'
  <2>1. /\ fifo[c] # <<>> /\ fifo' = [fifo EXCEPT ![c] = Tail(fifo[c])]
        /\ UNCHANGED <<chan, frame, at, raced, fault>>
    BY <1>10 DEF ReaderTakes, pump
  <2>2. Tail(fifo[c]) \in Seq(Kinds) /\ Used(Tail(fifo[c])) <= Used(fifo[c])
    BY <1>1, <2>1, TailFrees
  <2>3. Used(Tail(fifo[c])) \in Nat
    BY <2>2, UsedType
  <2>4. \A d \in Chans : fifo'[d] \in Seq(Kinds) /\ Used(fifo'[d]) \in Nat /\ Used(fifo'[d]) <= Used(fifo[d])
    BY <1>1, <2>1, <2>2, <2>3 DEF Fills
  <2>5. \A d \in Chans : Used(fifo'[d]) <= Size
    BY <1>1, <2>4
  <2>6. Fills'
    BY <2>1, <2>2, <2>5 DEF Fills
  <2>7. RoomMade'
    BY <1>1, <2>1, <2>4 DEF RoomMade, Fits, SizeOf
  <2> QED BY <2>6, <2>7
<1>11. ASSUME fault = "none", MakeRoom
       PROVE  Fills' /\ RoomMade'
  BY <1>11, RoomStep
<1> QED
  BY <1>3, <1>4, <1>5, <1>6, <1>7, <1>8, <1>9, <1>10, <1>11 DEF Next, Set, PumpStep

\* Whatever the readers do and whenever a stream is turned on, one skip makes
\* room in __vsf_stream_h264_proc for every frame that is no larger than what it
\* drops: the pump of all channels waits for no reader of a delta frame.
THEOREM DeltaNeverWaitsAlways == Spec => []DeltaNeverWaits
<1>1. IInv /\ Fills /\ RoomMade => DeltaNeverWaits
  BY DEF IInv, Fills, RoomMade, DeltaNeverWaits, TypeOK
<1>2. Init => IInv /\ Fills /\ RoomMade
  BY InitInv, FillsInit
<1>3. IInv /\ Fills /\ RoomMade /\ [Next]_vars => (IInv /\ Fills /\ RoomMade)'
  BY NextInv, FillsStep
<1> QED BY <1>1, <1>2, <1>3, PTL DEF Spec
=============================================================================
