---------------------------- MODULE MediaRecord ----------------------------
(***************************************************************************)
(* The records of the media FIFOs (mod/media/src): how video_stream.c and  *)
(* video_frame.c write a frame into the shared ring of a FIFO and read it  *)
(* back, and how the processes that read it (rtp-media.c, web-media.c)     *)
(* find the packs of a frame in their copy.                                *)
(*                                                                         *)
(* A record may run over the end of the ring anywhere, inside its header   *)
(* too.  The hooks get the place p1, the n1 cells from there to the end of *)
(* the ring, and its beginning p2.  A cell is a field of a structure or a  *)
(* byte of a picture.                                                      *)
(***************************************************************************)
EXTENDS Integers, Sequences, SequencesExt

CONSTANTS Size,     \* cells of the ring
          Streams,  \* what an encoder makes: sequences of packs [len, off]
          Images    \* the sizes of the pictures of a frame FIFO

ASSUME RecordAssumption ==
  /\ Size \in Nat \ {0}
  /\ Streams \subseteq Seq([len : Nat, off : Nat])
  /\ \A s \in Streams : \A i \in DOMAIN s : s[i].off <= s[i].len
  /\ Images \subseteq Nat

VARIABLES type,   \* of the FIFO: "stream" or "frame"
          mem,    \* the ring
          in,     \* where the next record goes, counted modulo twice the size
          out,    \* where the first record is
          stored  \* history: the frames that were put and not yet taken

vars == <<type, mem, in, out, stored>>

Cells == 0 .. (Size - 1)
Laps == 0 .. (2 * Size - 1)
Fwd(pos, n) == (pos + n) % (2 * Size)
Used == (in - out) % (2 * Size)

\* The bytes at the address of pack i of a frame; b tells frames apart.
Block(b, i, n) == [k \in 1 .. n |-> 100 * b + 10 * i + k]
Packs(f) == DOMAIN f.packs

HeaderLen == 2   \* media_record_t: size and tag
Least(a, b) == IF a < b THEN a ELSE b
At(pos) == [mem |-> mem, p1 |-> pos % Size, n1 |-> Size - (pos % Size), p2 |-> 0]

Init ==
  /\ type \in {"stream", "frame"}
  /\ mem = [c \in Cells |-> 0] /\ in \in Laps /\ out = in
  /\ stored = <<>>
-----------------------------------------------------------------------------
(***************************************************************************)
(* video_stream_recput and video_frame_recput: one structure, or the bytes *)
(* of one pack, after another.                                             *)
(***************************************************************************)
\* The mutant forgets what it has copied to the beginning of the ring.
CopyStays(to, a) ==
  LET l == Least(Len(a), to.n1) IN
  [mem |-> [c \in Cells |->
              IF c \in to.p1 .. (to.p1 + l - 1) THEN a[c - to.p1 + 1]
              ELSE IF c \in to.p2 .. (to.p2 + Len(a) - l - 1) THEN a[l + c - to.p2 + 1]
              ELSE to.mem[c]],
   p1 |-> to.p1 + l, n1 |-> to.n1 - l, p2 |-> to.p2]
Copy(to, a) ==
  LET l == Least(Len(a), to.n1) IN
  [mem |-> [c \in Cells |->
              IF c \in to.p1 .. (to.p1 + l - 1) THEN a[c - to.p1 + 1]
              ELSE IF c \in to.p2 .. (to.p2 + Len(a) - l - 1) THEN a[l + c - to.p2 + 1]
              ELSE to.mem[c]],
   p1 |-> to.p1 + l, n1 |-> to.n1 - l, p2 |-> to.p2 + Len(a) - l]

\* What follows the header.  A pack is described by its length and offset;
\* as many bytes are copied as there are after the offset.
Body(f) ==
  IF type = "frame" THEN <<<<f.image>>, Block(f.b, 1, f.image)>>
  ELSE <<<<Len(f.packs)>>>>
       \o [i \in Packs(f) |-> <<f.packs[i].len, f.packs[i].off>>]
       \o [i \in Packs(f) |-> Block(f.b, i, f.packs[i].len - f.packs[i].off)]

\* The size that the callers compute and the size in the header: the same sum.
Total(f) == FoldLeft(LAMBDA n, a : n + Len(a), HeaderLen, Body(f))
Key(f) == type = "frame" \/ Len(f.packs) > 1
\* The mutant needs three packs for a key frame.
HeaderLate(f) == <<Total(f), IF type = "frame" \/ Len(f.packs) > 2 THEN 1 ELSE 0>>
Header(f) == <<Total(f), IF Key(f) THEN 1 ELSE 0>>

Recput(f) == FoldLeft(Copy, At(in), <<Header(f)>> \o Body(f)).mem
-----------------------------------------------------------------------------
(***************************************************************************)
(* recsize, rectag and recget.                                             *)
(***************************************************************************)
\* a cells from a place in the ring on.
Fetch(from, a) ==
  LET l == Least(a, from.n1) IN
  [k \in 1 .. a |-> IF k <= l THEN from.mem[from.p1 + k - 1] ELSE from.mem[from.p2 + k - l - 1]]

\* A header in one piece is read in place, one in two pieces is put together
\* first.  The mutant always reads in place, beyond the end of the ring.
HeadAtInPlace(pos) ==
  LET from == At(pos) IN
  [k \in 1 .. HeaderLen |->
     IF from.p1 + k - 1 \in Cells THEN from.mem[from.p1 + k - 1] ELSE 0]
HeadAt(pos) ==
  LET from == At(pos) IN
  IF from.n1 >= HeaderLen
  THEN [k \in 1 .. HeaderLen |-> from.mem[from.p1 + k - 1]]
  ELSE Fetch(from, HeaderLen)
Recsize(pos) == HeadAt(pos)[1]
Rectag(pos) == HeadAt(pos)[2]

\* The header gives the length of the rest.
Recget(pos) ==
  LET head == Fetch(At(pos), HeaderLen) IN Fetch(At(pos), head[1])

\* flv_send_proc and rtp_send_data: the packs lie behind their descriptions,
\* each as long as it was after its offset.
Readers(rec) ==
  IF type = "frame" THEN <<SubSeq(rec, HeaderLen + 2, Len(rec))>>
  ELSE LET count == rec[HeaderLen + 1]
           size(i) == rec[HeaderLen + 2 * i] - rec[HeaderLen + 2 * i + 1]
           addr[i \in 1 .. count] == IF i = 1 THEN HeaderLen + 2 * count + 2
                                     ELSE addr[i - 1] + size(i - 1)
       IN [i \in 1 .. count |-> SubSeq(rec, addr[i], addr[i] + size(i) - 1)]

\* What readers must get: the bytes after the offset.
Payload(f) ==
  IF type = "frame" THEN <<Block(f.b, 1, f.image)>>
  ELSE [i \in Packs(f) |-> SubSeq(Block(f.b, i, f.packs[i].len), f.packs[i].off + 1,
                                  f.packs[i].len)]
-----------------------------------------------------------------------------
(***************************************************************************)
(* The FIFO, which moves records and asks the hooks for their size and tag.*)
(***************************************************************************)
Frames(b) == IF type = "stream" THEN {[b |-> b, packs |-> s] : s \in Streams}
             ELSE {[b |-> b, image |-> n] : n \in Images}

Put(b) ==
  \E f \in Frames(b) :
    /\ Used + Total(f) <= Size
    /\ mem' = Recput(f) /\ in' = Fwd(in, Total(f))
    /\ stored' = Append(stored, f)
    /\ UNCHANGED <<type, out>>

\* get, and skip, which looks at the size only.
Get ==
  /\ Used > 0
  /\ out' = Fwd(out, Recget(out)[1])
  /\ stored' = Tail(stored)
  /\ UNCHANGED <<type, mem, in>>
Skip ==
  /\ Used > 0
  /\ out' = Fwd(out, Recsize(out))
  /\ stored' = Tail(stored)
  /\ UNCHANGED <<type, mem, in>>

\* Where the records begin, from pos on, with u cells to go.
Walk(pos) ==
  LET from[u \in 0 .. Size] ==
        IF u = 0 THEN <<>>
        ELSE LET p == (in - u) % (2 * Size) IN
             <<p>> \o IF Recsize(p) \in 1 .. u THEN from[u - Recsize(p)] ELSE <<>>
  IN from[(in - pos) % (2 * Size)]

\* oldest and newest drop the records before the first and before the last
\* one with the tag of a key frame; when there is none, it is not known
\* whether they drop all or nothing.
Keys == SelectSeq(Walk(out), LAMBDA p : Rectag(p) = 1)
DropTo(pos) ==
  /\ out' = pos
  /\ stored' = SubSeq(stored, Len(stored) - Len(Walk(pos)) + 1, Len(stored))
  /\ UNCHANGED <<type, mem, in>>
Oldest == IF Keys = <<>> THEN DropTo(out) \/ DropTo(in) ELSE DropTo(Head(Keys))
Newest == IF Keys = <<>> THEN DropTo(out) \/ DropTo(in) ELSE DropTo(Last(Keys))

Next == (\E b \in 0 .. 1 : Put(b)) \/ Get \/ Skip \/ Oldest \/ Newest
Spec == Init /\ [][Next]_vars
-----------------------------------------------------------------------------
(***************************************************************************)
(* Type correctness.                                                       *)
(***************************************************************************)
TypeOK ==
  /\ type \in {"stream", "frame"}
  /\ mem \in [Cells -> Nat] /\ in \in Laps /\ out \in Laps /\ Used <= Size
  /\ stored \in Seq(Frames(0) \cup Frames(1))

(***************************************************************************)
(* The state is well formed, and going from header to header finds the     *)
(* frames that were put, each with its size and the tag by which a reader  *)
(* can start with it, wherever the ring ends.                              *)
(***************************************************************************)
HeadersFound ==
  LET starts == Walk(out) IN
  /\ TypeOK
  /\ Len(starts) = Len(stored)
  /\ \A i \in DOMAIN stored :
       Recsize(starts[i]) = Total(stored[i]) /\ (Rectag(starts[i]) = 1 <=> Key(stored[i]))

(***************************************************************************)
(* Every reader gets what the encoder made.                                *)
(***************************************************************************)
PayloadKept ==
  LET starts == Walk(out) IN
  \A i \in DOMAIN stored : Readers(Recget(starts[i])) = Payload(stored[i])

(***************************************************************************)
(* What newest leaves starts with a key frame and has no other, and oldest *)
(* loses no key frame.                                                     *)
(***************************************************************************)
KeysIn(s) == Len(SelectSeq(s, Key))
StartsReadable ==
  [][/\ Oldest => KeysIn(stored') = KeysIn(stored)
     /\ Newest /\ KeysIn(stored) > 0 => KeysIn(stored') = 1 /\ Key(Head(stored'))]_vars
=============================================================================
